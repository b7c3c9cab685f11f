---------------------- MODULE PowerConversionProofs ----------------------
(***************************************************************************)
(* The arithmetic of PowerConversion for every installation current and    *)
(* both phase counts.  The proofs expand the two conversions into integer  *)
(* division by a literal (200, 460 or 1380), which is linear.              *)
(***************************************************************************)
EXTENDS PowerConversion, TLAPS

(* A whole ampere converts to a positive power, and more amperes to more   *)
(* power: PowerBounds is never empty.                                      *)
LEMMA NominalPowerMonotone ==
  ASSUME NEW phases \in {1, 3},
         NEW low \in MinCurrent .. MaxCurrent,
         NEW high \in low .. MaxCurrent
  PROVE  /\ NominalPower(low, phases) \in Nat \ {0}
         /\ NominalPower(low, phases) <= NominalPower(high, phases)
<1>1. CASE phases = 1
  BY <1>1 DEF NominalPower, HalfUp, PhaseVoltage, MinCurrent, MaxCurrent
<1>2. CASE phases = 3
  BY <1>2 DEF NominalPower, HalfUp, PhaseVoltage, MinCurrent, MaxCurrent
<1> QED BY <1>1, <1>2

(* The second range check of whole_amp_current_for_power_kw never fires: a *)
(* power within the bounds becomes an ampere value within the range the    *)
(* installation allows.                                                    *)
THEOREM InBoundsPowerConverts ==
  ASSUME NEW phases \in {1, 3},
         NEW install \in MinCurrent .. MaxCurrent,
         NEW power \in PowerBounds(phases, install)
  PROVE  Convertible(power, phases, install)
<1> DEFINE low  == NominalPower(MinCurrent, phases)
           high == NominalPower(install, phases)
<1>1. low \in Int /\ high \in Int
  BY DEF NominalPower, HalfUp, MinCurrent, MaxCurrent, PhaseVoltage
<1>2. power \in Int /\ low <= power /\ power <= high
  BY <1>1 DEF PowerBounds
<1>3. AmpsForPower(power, phases) \in MinCurrent .. install
  <2>1. CASE phases = 1
    BY <1>2, <2>1 DEF AmpsForPower, NominalPower, HalfUp, PhaseVoltage,
                      MinCurrent, MaxCurrent
  <2>2. CASE phases = 3
    BY <1>2, <2>2 DEF AmpsForPower, NominalPower, HalfUp, PhaseVoltage,
                      MinCurrent, MaxCurrent
  <2> QED BY <2>1, <2>2
<1> QED BY <1>3 DEF Convertible

(* The ampere value is the nearest one to the power entered, at the        *)
(* nominal 230 V per phase (in 0.1 W): no two are ever equally near, so    *)
(* the rounding mode of the last step does not matter.                     *)
THEOREM NearestAmpere ==
  ASSUME NEW phases \in {1, 3}, NEW power \in Nat
  PROVE  LET distance == 200 * power
                           - 2 * PhaseVoltage * phases * AmpsForPower(power, phases)
         IN  /\ -(PhaseVoltage * phases) < distance
             /\ distance < PhaseVoltage * phases
<1>1. CASE phases = 1
  BY <1>1 DEF AmpsForPower, HalfUp, PhaseVoltage
<1>2. CASE phases = 3
  BY <1>2 DEF AmpsForPower, HalfUp, PhaseVoltage
<1> QED BY <1>1, <1>2

(* The power of a whole ampere converts back to that ampere.               *)
THEOREM AmpereRoundTrip ==
  ASSUME NEW phases \in {1, 3},
         NEW current \in MinCurrent .. MaxCurrent
  PROVE  AmpsForPower(NominalPower(current, phases), phases) = current
<1>1. CASE phases = 1
  BY <1>1 DEF AmpsForPower, NominalPower, HalfUp, PhaseVoltage, MinCurrent,
              MaxCurrent
<1>2. CASE phases = 3
  BY <1>2 DEF AmpsForPower, NominalPower, HalfUp, PhaseVoltage, MinCurrent,
              MaxCurrent
<1> QED BY <1>1, <1>2

(* The reading of an active limit is clamped into the installation's range *)
(* whatever the register said.                                             *)
LEMMA InitialAmpsInRange ==
  ASSUME NEW install \in MinCurrent .. MaxCurrent, NEW limit \in Nat
  PROVE  InitialAmps(limit, install) \in MinCurrent .. install
BY DEF InitialAmps, HalfUp, MinCurrent, MaxCurrent

(* The initial target, and the lower bound a resume falls back to, always  *)
(* convert.                                                                *)
THEOREM InitialTargetConverts ==
  ASSUME NEW phases \in {1, 3},
         NEW install \in MinCurrent .. MaxCurrent,
         NEW current \in MinCurrent .. install
  PROVE  /\ NominalPower(current, phases) \in Nat
         /\ Convertible(NominalPower(current, phases), phases, install)
<1>1. NominalPower(current, phases) \in PowerBounds(phases, install)
  <2>1. NominalPower(MinCurrent, phases) <= NominalPower(current, phases)
    BY NominalPowerMonotone DEF MinCurrent, MaxCurrent
  <2>2. NominalPower(current, phases) <= NominalPower(install, phases)
    BY NominalPowerMonotone DEF MinCurrent, MaxCurrent
  <2> QED
    BY <2>1, <2>2, NominalPowerMonotone DEF PowerBounds, MinCurrent, MaxCurrent
<1>2. NominalPower(current, phases) \in Nat
  BY NominalPowerMonotone DEF MinCurrent, MaxCurrent
<1> QED BY <1>1, <1>2, InBoundsPowerConverts

(* A readback is either unknown or a limit between 0 and 80 A.             *)
LEMMA NormalizeReadbackType ==
  ASSUME NEW raw \in Nat, NEW modern \in BOOLEAN
  PROVE  NormalizeReadback(raw, modern) \in (0 .. 100 * MaxCurrent) \cup {None}
BY DEF NormalizeReadback, MaxCurrent
==========================================================================
