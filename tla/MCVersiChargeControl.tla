----------------------- MODULE MCVersiChargeControl -----------------------
(* A one-phase charger wired for 6..7 A: targets of 1.4, 1.5 and 1.6 kW,   *)
(* of which 1.5 and 1.6 are both 7 A.                                      *)
EXTENDS VersiChargeControl, TLC

MCInputs    == {134, 144, 145}  \* 1.3 kW (refused), 1.4 kW, 1.5 kW
MCRawLimits == {9}              \* above the installation
MCPaused    == {0}
MCRawPairs  == {<<6, 60>>}
MCTimes     == {30}             \* not allowed
MCProgressTimes == {90}
MCCurrents  == {0}
Nothing     == {}
Symmetry    == Permutations(Callers)
===========================================================================
