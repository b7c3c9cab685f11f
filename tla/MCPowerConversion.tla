------------------------ MODULE MCPowerConversion ------------------------
(***************************************************************************)
(* PowerConversion checked against reference definitions on every phase    *)
(* count and every installation current the integration accepts: each      *)
(* state is one power, walked upwards through its whole range.             *)
(***************************************************************************)
EXTENDS PowerConversion

VARIABLES phases, install, power

vars == <<phases, install, power>>

Init ==
  /\ phases \in {1, 3}
  /\ install \in MinCurrent .. MaxCurrent
  /\ power = NominalPower(MinCurrent, phases)

Next ==
  /\ power < NominalPower(install, phases)
  /\ power' = power + 1
  /\ UNCHANGED <<phases, install>>

Spec == Init /\ [][Next]_vars

Amps == AmpsForPower(power, phases)

(* Every power inside the bounds converts: the second range check of       *)
(* whole_amp_current_for_power_kw ("resolves outside") never fires, and    *)
(* the ampere is the nearest one; no two are ever equally near.            *)
InBoundsConvert ==
  /\ Convertible(power, phases, install)
  /\ LET exact == 200 * power - 2 * PhaseVoltage * phases * Amps
     IN  /\ exact > -(PhaseVoltage * phases)
         /\ exact < PhaseVoltage * phases

(* The power shown for a whole-ampere limit converts back to that limit:   *)
(* initialising the target from a poll never asks for another current.     *)
RoundTrip ==
  LET shown == NominalPower(install, phases)
  IN  /\ AmpsForPower(shown, phases) = install
      /\ InitialAmps(100 * install, install) = install

(* A register read back in either documented form (whole amperes or        *)
(* 0.01 A) shows the same limit, and 0.01 A values that a legacy profile   *)
(* cannot mean are unknown.                                                *)
BothReadbacksAgree ==
  /\ NormalizeReadback(Amps, TRUE) = NormalizeReadback(100 * Amps, TRUE)
  /\ NormalizeReadback(100 * Amps, FALSE) = None
==========================================================================
