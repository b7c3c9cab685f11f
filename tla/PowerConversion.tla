------------------------- MODULE PowerConversion -------------------------
(***************************************************************************)
(* The arithmetic of the VersiCharge charging target, versicharge.py:      *)
(* a power entered in kW becomes the whole-ampere value written to         *)
(* register 1633, and an ampere value becomes the 0.1-kW bounds and the    *)
(* initial target.  The code computes with Decimal, so the integers below  *)
(* are exact: inputs are in 0.01 kW, targets in 0.1 kW, limits in 0.01 A.  *)
(***************************************************************************)
EXTENDS Integers

CONSTANT None            \* Python's None

ASSUMPTION NoneAssumption == None \notin Int

MinCurrent   == 6        \* VERSICHARGE_MIN_CURRENT
MaxCurrent   == 80       \* VERSICHARGE_MAX_CURRENT
PhaseVoltage == 230      \* VERSICHARGE_NOMINAL_PHASE_VOLTAGE

(* Decimal.quantize(..., ROUND_HALF_UP) of the non-negative fraction n/d.  *)
HalfUp(n, d) == (2 * n + d) \div (2 * d)

(* nominal_power_kw_for_current: amperes to 0.1 kW.                        *)
NominalPower(current, phases) == HalfUp(PhaseVoltage * current * phases, 100)

(* quantize_power_kw: 0.01 kW to 0.1 kW; only a positive input passes.     *)
QuantizePower(input) == HalfUp(input, 10)

(* nominal_power_bounds_kw: the inclusive range of targets.                *)
PowerBounds(phases, install) ==
  NominalPower(MinCurrent, phases) .. NominalPower(install, phases)

(* int() without rounding: a mutant of AmpsForPower.                       *)
TruncatedAmps(power, phases) == (100 * power) \div (PhaseVoltage * phases)

(* whole_amp_current_for_power_kw, before its two range checks.            *)
AmpsForPower(power, phases) == HalfUp(100 * power, PhaseVoltage * phases)

(* The conversion succeeds: no ValueError from either range check.         *)
Convertible(power, phases, install) ==
  /\ power \in PowerBounds(phases, install)
  /\ AmpsForPower(power, phases) \in MinCurrent .. install

(* The upper clamp forgotten: a mutant of InitialAmps.                     *)
UnboundedAmps(limit, install) ==
  IF HalfUp(limit, 100) < MinCurrent THEN MinCurrent ELSE HalfUp(limit, 100)

(* The first poll's whole-ampere reading of an active limit (in 0.01 A),   *)
(* int(limit + 0.5) clamped to the range the installation allows.          *)
InitialAmps(limit, install) ==
  LET rounded == HalfUp(limit, 100)
  IN  IF rounded < MinCurrent THEN MinCurrent
      ELSE IF rounded > install THEN install ELSE rounded

(* The scaled form accepted whatever the profile: a mutant of              *)
(* NormalizeReadback.                                                      *)
NormalizeAnyProfile(raw, modern) ==
  CASE raw \in 0 .. MaxCurrent -> 100 * raw
    [] raw \in 101 .. 8000     -> raw
    [] OTHER                   -> None

(* normalize_charging_current_readback: raw register 1633 to 0.01 A.       *)
NormalizeReadback(raw, modern) ==
  CASE raw \in 0 .. MaxCurrent         -> 100 * raw
    [] modern /\ raw \in 101 .. 8000   -> raw
    [] OTHER                           -> None
==========================================================================
