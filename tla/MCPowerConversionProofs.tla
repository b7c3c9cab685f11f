--------------------- MODULE MCPowerConversionProofs ---------------------
(***************************************************************************)
(* The reference definitions of MCPowerConversion hold in every state of   *)
(* the walk through the powers of an installation, by the theorems of      *)
(* PowerConversionProofs.                                                  *)
(***************************************************************************)
EXTENDS MCPowerConversion, PowerConversionProofs

WalkInv ==
  /\ phases \in {1, 3} /\ install \in MinCurrent .. MaxCurrent
  /\ power \in PowerBounds(phases, install)

LEMMA BoundsAreNatural ==
  ASSUME NEW p \in {1, 3}, NEW i \in MinCurrent .. MaxCurrent
  PROVE  /\ NominalPower(MinCurrent, p) \in Nat /\ NominalPower(i, p) \in Nat
         /\ NominalPower(MinCurrent, p) <= NominalPower(i, p)
<1>1. CASE p = 1
  BY <1>1 DEF NominalPower, HalfUp, PhaseVoltage, MinCurrent, MaxCurrent
<1>2. CASE p = 3
  BY <1>2 DEF NominalPower, HalfUp, PhaseVoltage, MinCurrent, MaxCurrent
<1> QED BY <1>1, <1>2

(* The power never leaves the bounds of its installation.                  *)
THEOREM WalkInvariance == Spec => []WalkInv
<1>1. Init => WalkInv
  <2> SUFFICES ASSUME Init PROVE WalkInv
    OBVIOUS
  <2>1. phases \in {1, 3} /\ install \in MinCurrent .. MaxCurrent
    BY DEF Init
  <2>2. power = NominalPower(MinCurrent, phases)
    BY DEF Init
  <2> QED BY <2>1, <2>2, BoundsAreNatural DEF WalkInv, PowerBounds
<1>2. WalkInv /\ [Next]_vars => WalkInv'
  <2> SUFFICES ASSUME WalkInv, Next PROVE WalkInv'
    BY DEF WalkInv, vars
  <2>1. /\ NominalPower(MinCurrent, phases) \in Nat /\ NominalPower(install, phases) \in Nat
    BY BoundsAreNatural DEF WalkInv
  <2>2. power' = power + 1 /\ power < NominalPower(install, phases)
    BY DEF Next
  <2>3. phases' = phases /\ install' = install
    BY DEF Next
  <2>4. power' \in PowerBounds(phases, install)
    BY <2>1, <2>2 DEF WalkInv, PowerBounds
  <2> QED BY <2>3, <2>4 DEF WalkInv
<1> QED BY <1>1, <1>2, PTL DEF Spec

LEMMA AmpsInRange ==
  ASSUME WalkInv
  PROVE  Amps \in MinCurrent .. install
BY InBoundsPowerConverts DEF WalkInv, Convertible, Amps

(* InBoundsConvert: the range check of the ampere value never fires, and   *)
(* the ampere is the nearest one.                                          *)
THEOREM PowersConvert == Spec => []InBoundsConvert
<1>1. WalkInv => InBoundsConvert
  <2> SUFFICES ASSUME WalkInv PROVE InBoundsConvert
    OBVIOUS
  <2>1. Convertible(power, phases, install)
    BY InBoundsPowerConverts DEF WalkInv
  <2>2. power \in Nat
    BY BoundsAreNatural DEF WalkInv, PowerBounds
  <2>3. LET distance == 200 * power
                          - 2 * PhaseVoltage * phases * AmpsForPower(power, phases)
        IN  /\ -(PhaseVoltage * phases) < distance
            /\ distance < PhaseVoltage * phases
    BY <2>2, NearestAmpere DEF WalkInv
  <2>4. Amps \in Int
    BY AmpsInRange DEF WalkInv, MinCurrent, MaxCurrent
  <2>5. LET exact == 200 * power - 2 * PhaseVoltage * phases * Amps
        IN  /\ exact > -(PhaseVoltage * phases)
            /\ exact < PhaseVoltage * phases
    <3>1. CASE phases = 1
      BY <2>2, <2>3, <2>4, <3>1 DEF Amps, PhaseVoltage
    <3>2. CASE phases = 3
      BY <2>2, <2>3, <2>4, <3>2 DEF Amps, PhaseVoltage
    <3> QED BY <3>1, <3>2 DEF WalkInv
  <2> QED BY <2>1, <2>5 DEF InBoundsConvert
<1> QED BY <1>1, WalkInvariance, PTL

(* RoundTrip: the power shown for a whole-ampere limit, and that limit     *)
(* read from the register, stand for the same current.                     *)
THEOREM ShownPowerReturns == Spec => []RoundTrip
<1>1. WalkInv => RoundTrip
  <2> SUFFICES ASSUME WalkInv PROVE RoundTrip
    OBVIOUS
  <2>1. AmpsForPower(NominalPower(install, phases), phases) = install
    BY AmpereRoundTrip DEF WalkInv
  <2>2. InitialAmps(100 * install, install) = install
    BY DEF WalkInv, InitialAmps, HalfUp, MinCurrent, MaxCurrent
  <2> QED BY <2>1, <2>2 DEF RoundTrip
<1> QED BY <1>1, WalkInvariance, PTL

LEMMA ReadbackForms ==
  ASSUME NEW current \in MinCurrent .. MaxCurrent
  PROVE  /\ NormalizeReadback(current, TRUE) = 100 * current
         /\ NormalizeReadback(100 * current, TRUE) = 100 * current
         /\ NormalizeReadback(100 * current, FALSE) = None
<1>1. current \in Int /\ 6 <= current /\ current <= 80
  BY DEF MinCurrent, MaxCurrent
<1>2. NormalizeReadback(current, TRUE) = 100 * current
  <2>1. current \in 0 .. MaxCurrent
    BY <1>1 DEF MaxCurrent
  <2>2. current \notin 101 .. 8000
    <3> SUFFICES ASSUME current \in 101 .. 8000 PROVE FALSE
      OBVIOUS
    <3>1. 101 <= current
      OBVIOUS
    <3> QED BY ONLY <1>1, <3>1
  <2> QED BY <2>1, <2>2 DEF NormalizeReadback
<1>3. NormalizeReadback(100 * current, TRUE) = 100 * current
  BY <1>1 DEF NormalizeReadback, MaxCurrent
<1>4. NormalizeReadback(100 * current, FALSE) = None
  BY <1>1 DEF NormalizeReadback, MaxCurrent
<1> QED BY <1>2, <1>3, <1>4

(* BothReadbacksAgree: a limit reads the same in both forms where both are *)
(* documented, and the scaled form is unknown where it is not.             *)
THEOREM ReadbacksAgree == Spec => []BothReadbacksAgree
<1>1. WalkInv => BothReadbacksAgree
  <2> SUFFICES ASSUME WalkInv PROVE BothReadbacksAgree
    OBVIOUS
  <2>1. Amps \in MinCurrent .. MaxCurrent
    BY AmpsInRange DEF WalkInv, MinCurrent, MaxCurrent
  <2>2. /\ NormalizeReadback(Amps, TRUE) = 100 * Amps
        /\ NormalizeReadback(100 * Amps, TRUE) = 100 * Amps
        /\ NormalizeReadback(100 * Amps, FALSE) = None
    BY <2>1, ReadbackForms
  <2> QED BY <2>2 DEF BothReadbacksAgree
<1> QED BY <1>1, WalkInvariance, PTL
==========================================================================
