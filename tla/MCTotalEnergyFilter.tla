----------------------- MODULE MCTotalEnergyFilter -----------------------
(* Five meter values are enough for a full value, a placeholder zero and a *)
(* run of three rising readings below the full value.                      *)
EXTENDS TotalEnergyFilter

MCReadings == 0 .. 4
==========================================================================
