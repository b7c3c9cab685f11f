----------------------------- MODULE RootProbe -----------------------------
(***************************************************************************)
(* Which root device answers at a host and port (gateway.py, and the       *)
(* VersiCharge probe of versicharge.py): operators on a box and the set of *)
(* its answers that are lost.                                              *)
(*                                                                         *)
(* A box (external) is a record of what its registers hold:                *)
(*   kind          what it really is, "other" for an unsupported device    *)
(*   manufacturer  register 2 of the Powercenter map                       *)
(*   order         the order number in a PAC's I&M0 block, if any          *)
(*   variant       the root variant                                        *)
(*   firmware      whether the gateway firmware is readable                *)
(*   slots         whether the slot registers of a Powercenter 1000 are    *)
(*   units         the unit ids at which it answers as a charger           *)
(*   maker, marker, ratings   manufacturer text, an 8EM order number, how  *)
(*                 many of outlets, rated and installation current are     *)
(*                 plausible                                               *)
(*   version       minor version of its A8 firmware 2.x                    *)
(***************************************************************************)
EXTENDS DeviceCatalog

CONSTANTS
  DefaultUnit, FallbackUnit    \* the unit ids VersiCharge is known to use

(* What texts the probes compare: an order number of a PAC2200 or a blank, *)
(* Siemens' name in a charger, the order number of a charger.              *)
Pac2200Orders == {"7KM2200", "empty"}
Maker == "siemens ag"
Marker == "8EM"

ASSUMPTION ProbeAssumption ==
  /\ {DefaultUnit, FallbackUnit} \subseteq 1 .. 247
  /\ None \notin Pac2200Orders \cup {Maker, Marker}

Siemens == 42
ModernScaling == 135    \* VERSICHARGE_MODERN_SCALING_FIRMWARE 2.135
ModernStates == 136     \* VERSICHARGE_MODERN_STATE_FIRMWARE 2.136

(* The requests of the probes.                                             *)
ManufacturerReads ==
  <<<<"manufacturer", 255, "input">>, <<"manufacturer", 255, "holding">>,
    <<"manufacturer", 0, "input">>, <<"manufacturer", 0, "holding">>>>
VariantReads == <<<<"variant", 255, "holding">>, <<"variant", 255, "input">>>>
FirmwareReads == <<<<"firmware", 255, "2">>, <<"firmware", 255, "4">>>>
Pairing == <<"pairing", 255, "input">>
ConnectionRead == <<"connection", 255, "input">>
Im0 == <<"im0", 1, "holding">>
Static(name, unit) == <<name, unit, "static">>

Requests ==
  {ManufacturerReads[i] : i \in 1 .. 4} \cup {VariantReads[i] : i \in 1 .. 2}
    \cup {FirmwareReads[i] : i \in 1 .. 2} \cup {Pairing, ConnectionRead, Im0}
    \cup {Static(name, unit) : unit \in {DefaultUnit, FallbackUnit},
            name \in {"maker", "model", "platform", "ratings", "a8", "modern"}}

(* What a charger holds; block 42 exists from the modern map on.           *)
StaticRegister(box, name) ==
  CASE name = "maker"    -> box.maker
    [] name = "model"    -> box.marker
    [] name = "platform" -> 1
    [] name = "ratings"  -> box.ratings
    [] name = "a8"       -> box.version
    [] name = "modern"   -> IF box.version >= ModernScaling THEN 1 ELSE None

Register(box, request) ==
  CASE request[1] = "manufacturer" -> box.manufacturer
    [] request[1] = "variant"      -> box.variant
    [] request[1] = "firmware"     -> IF box.firmware THEN 1 ELSE None
    [] request[1] \in {"pairing", "connection"} -> IF box.slots THEN 1 ELSE None
    [] request[1] = "im0"          -> box.order
    [] OTHER -> IF request[2] \in box.units THEN StaticRegister(box, request[1])
                ELSE None

(* The answers that can be lost.                                           *)
Answers(box) == {r \in Requests : Register(box, r) # None}

Heard(box, lost, request) ==
  IF request \in lost THEN None ELSE Register(box, request)

(* The requests of a probe are tried in turn, up to the first answer.      *)
First(answers) ==
  LET heard == {i \in DOMAIN answers : answers[i] # None}
  IN IF heard = {} THEN None
     ELSE answers[CHOOSE i \in heard : \A j \in heard : i <= j]

FirstHeard(box, lost, requests) ==
  First([i \in DOMAIN requests |-> Heard(box, lost, requests[i])])
---------------------------------------------------------------------------
RootKinds == {"pac2200", "powercenter", "versicharge"}

(* What the gateway data of a root say; the profiles are a charger's.      *)
RootShape ==
  [kind : RootKinds, unit : 1 .. 255,
   type : {None, "powercenter_1000", "powercenter_1100", "powercenter_2000"},
   profile : {None, "legacy", "modern", "modern_assumed"},
   states : {None, "legacy", "modern", "modern_assumed"}]

Root(kind, unit) ==
  [kind |-> kind, unit |-> unit, type |-> None, profile |-> None, states |-> None]

(* detect_pac2200, _decode_pac2200_im0                                     *)
Pac2200(box, lost) ==
  IF Heard(box, lost, Im0) \in Pac2200Orders THEN Root("pac2200", 1) ELSE None

(* powercenter_type_from_variant                                           *)
PowercenterType(variant) ==
  CASE variant = 14 -> "powercenter_1100"
    [] variant = 16 -> "powercenter_2000"
    [] OTHER        -> "powercenter_1000"

(* The manufacturer is enough: a mutant of IsPowercenter1000.              *)
IsSiemens(box, lost) == FirstHeard(box, lost, ManufacturerReads) = Siemens

(* What a box without a variant has to show.                               *)
IsPowercenter1000(box, lost) ==
  /\ FirstHeard(box, lost, FirmwareReads) # None
  /\ \E r \in {Pairing, ConnectionRead} : Heard(box, lost, r) # None

(* probe_powercenter                                                       *)
Powercenter(box, lost) ==
  LET variant == FirstHeard(box, lost, VariantReads)
  IN IF /\ FirstHeard(box, lost, ManufacturerReads) = Siemens
        /\ variant \in {None, 0, 14, 16}
        /\ variant \in {None, 0} => IsPowercenter1000(box, lost)
     THEN [Root("powercenter", 255) EXCEPT !.type = PowercenterType(variant)]
     ELSE None

(* register_profile                                                        *)
RegisterProfile(version, modernBlock) ==
  IF version # None THEN IF version >= ModernScaling THEN "modern" ELSE "legacy"
  ELSE IF modernBlock THEN "modern" ELSE "modern_assumed"

(* The threshold of the register map: a mutant of StateProfile.            *)
StateProfileOfMap(version) == RegisterProfile(version, FALSE)

(* decode_static_values: state_profile                                     *)
StateProfile(version) ==
  IF version = None THEN "modern_assumed"
  ELSE IF version >= ModernStates THEN "modern" ELSE "legacy"

Plausible(box, lost, unit) ==
  (IF Heard(box, lost, Static("platform", unit)) = None THEN 0 ELSE 1) +
  (IF Heard(box, lost, Static("ratings", unit)) = None THEN 0 ELSE box.ratings)

(* async_probe_versicharge at one unit id, with async_read_versicharge_    *)
(* static: the modern block is asked for unless the firmware is legacy.    *)
Charger(box, lost, unit) ==
  LET version == Heard(box, lost, Static("a8", unit))
      modern == Heard(box, lost, Static("modern", unit)) # None
  IN IF /\ Heard(box, lost, Static("maker", unit)) = Maker
        /\ \/ Heard(box, lost, Static("model", unit)) = Marker
           \/ Plausible(box, lost, unit) >= 3
     THEN [kind |-> "versicharge", unit |-> unit, type |-> None,
           profile |-> RegisterProfile(version, modern),
           states |-> StateProfile(version)]
     ELSE None

(* _versicharge_unit_ids                                                   *)
UnitIds(unit) ==
  LET id == IF unit \in 1 .. 247 THEN unit ELSE DefaultUnit
  IN IF id = DefaultUnit /\ DefaultUnit # FallbackUnit THEN <<id, FallbackUnit>>
     ELSE <<id>>

(* The unit id asked first is reported: a mutant of VersiCharge.           *)
VersiChargeAtFirst(box, lost, unit) ==
  LET ids == UnitIds(unit)
      found == First([i \in DOMAIN ids |-> Charger(box, lost, ids[i])])
  IN IF found = None THEN None ELSE [found EXCEPT !.unit = ids[1]]

VersiCharge(box, lost, unit) ==
  LET ids == UnitIds(unit)
  IN First([i \in DOMAIN ids |-> Charger(box, lost, ids[i])])
---------------------------------------------------------------------------
Probe(kind, box, lost, unit) ==
  CASE kind = "pac2200"     -> Pac2200(box, lost)
    [] kind = "versicharge" -> VersiCharge(box, lost, unit)
    [] kind = "powercenter" -> Powercenter(box, lost)

(* _root_device_probe_order: a known kind is moved to the front.           *)
ProbeOrder(kind, unit) ==
  LET order == IF unit # None THEN <<"versicharge", "pac2200", "powercenter">>
               ELSE <<"pac2200", "powercenter", "versicharge">>
      place == CHOOSE i \in 1 .. 3 : order[i] = kind
  IN IF kind \notin RootKinds THEN order
     ELSE [i \in 1 .. 3 |-> CASE i = 1            -> kind
                              [] i \in 2 .. place -> order[i - 1]
                              [] OTHER            -> order[i]]

(* async_detect_root_device                                                *)
DetectRoot(box, lost, kind, unit) ==
  LET order == ProbeOrder(kind, unit)
  IN First([i \in DOMAIN order |-> Probe(order[i], box, lost, unit)])
============================================================================
