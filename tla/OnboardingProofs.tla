------------------------- MODULE OnboardingProofs -------------------------
(***************************************************************************)
(* Whatever answers are lost, for any boxes, devices and unit ids: what an *)
(* entry and its slots are taken for, how a charger is decoded, and that   *)
(* every entity is fed.                                                    *)
(***************************************************************************)
EXTENDS Onboarding, TLAPS

(* The probes of a root.  What is heard is what the box holds, or nothing. *)
Chains == {1 .. 1, 1 .. 2, 1 .. 3, 1 .. 4}

LEMMA FirstIn ==
  ASSUME NEW S, NEW answers, DOMAIN answers \in Chains,
         \A i \in DOMAIN answers : answers[i] \in S \cup {None}
  PROVE  First(answers) \in S \cup {None}
<1> DEFINE heard == {i \in DOMAIN answers : answers[i] # None}
<1>1. CASE heard = {}
  BY <1>1 DEF First
<1>2. CASE heard # {}
  <2>1. \E i \in heard : \A j \in heard : i <= j
    BY <1>2 DEF Chains
  <2>2. (CHOOSE i \in heard : \A j \in heard : i <= j) \in heard
    BY <2>1
  <2>3. First(answers) = answers[CHOOSE i \in heard : \A j \in heard : i <= j]
    BY <1>2 DEF First
  <2> QED BY <2>2, <2>3
<1> QED BY <1>1, <1>2

LEMMA FirstHeardIn ==
  ASSUME NEW b, NEW lost, NEW value, NEW requests, DOMAIN requests \in Chains,
         \A i \in DOMAIN requests : Register(b, requests[i]) \in {value, None}
  PROVE  FirstHeard(b, lost, requests) \in {value, None}
<1> DEFINE answers == [i \in DOMAIN requests |-> Heard(b, lost, requests[i])]
<1>1. /\ DOMAIN answers \in Chains
      /\ \A i \in DOMAIN answers : answers[i] \in {value} \cup {None}
  BY DEF Heard
<1> HIDE DEF answers
<1>2. First(answers) \in {value} \cup {None}
  BY <1>1, FirstIn
<1> QED BY <1>2 DEF FirstHeard, answers

LEMMA GatewayHeard ==
  ASSUME NEW b, NEW lost
  PROVE  /\ FirstHeard(b, lost, ManufacturerReads) \in {b.manufacturer, None}
         /\ FirstHeard(b, lost, VariantReads) \in {b.variant, None}
         /\ FirstHeard(b, lost, FirmwareReads) # None => b.firmware
         /\ \A r \in {Pairing, ConnectionRead} : Heard(b, lost, r) # None => b.slots
         /\ Heard(b, lost, Im0) \in {b.order, None}
<1>1. FirstHeard(b, lost, ManufacturerReads) \in {b.manufacturer, None}
  <2>1. /\ DOMAIN ManufacturerReads = 1 .. 4
        /\ \A i \in 1 .. 4 : ManufacturerReads[i][1] = "manufacturer"
    BY DEF ManufacturerReads
  <2>2. \A i \in 1 .. 4 : Register(b, ManufacturerReads[i]) \in {b.manufacturer, None}
    BY <2>1 DEF Register
  <2>3. DOMAIN ManufacturerReads \in Chains
    BY <2>1 DEF Chains
  <2> QED BY <2>1, <2>2, <2>3, FirstHeardIn
<1>2. FirstHeard(b, lost, VariantReads) \in {b.variant, None}
  <2>1. /\ DOMAIN VariantReads = 1 .. 2
        /\ \A i \in 1 .. 2 : VariantReads[i][1] = "variant"
    BY DEF VariantReads
  <2>2. \A i \in 1 .. 2 : Register(b, VariantReads[i]) \in {b.variant, None}
    BY <2>1 DEF Register
  <2>3. DOMAIN VariantReads \in Chains
    BY <2>1 DEF Chains
  <2> QED BY <2>1, <2>2, <2>3, FirstHeardIn
<1>3. FirstHeard(b, lost, FirmwareReads) # None => b.firmware
  <2>1. /\ DOMAIN FirmwareReads = 1 .. 2
        /\ \A i \in 1 .. 2 : FirmwareReads[i][1] = "firmware"
    BY DEF FirmwareReads
  <2>2. ~b.firmware => \A i \in 1 .. 2 : Register(b, FirmwareReads[i]) \in {None, None}
    BY <2>1 DEF Register
  <2>3. DOMAIN FirmwareReads \in Chains
    BY <2>1 DEF Chains
  <2>4. ~b.firmware => FirstHeard(b, lost, FirmwareReads) \in {None, None}
    BY <2>1, <2>2, <2>3, FirstHeardIn
  <2> QED BY <2>4
<1>4. \A r \in {Pairing, ConnectionRead} : Heard(b, lost, r) # None => b.slots
  BY DEF Heard, Register, Pairing, ConnectionRead
<1>5. Heard(b, lost, Im0) \in {b.order, None}
  <2>1. Im0[1] = "im0"
    BY DEF Im0
  <2>2. Register(b, Im0) = b.order
    BY <2>1 DEF Register
  <2> QED BY <2>2 DEF Heard
<1> QED BY <1>1, <1>2, <1>3, <1>4, <1>5

StaticNames == {"maker", "model", "platform", "ratings", "a8", "modern"}

LEMMA ChargerHeard ==
  ASSUME NEW b, NEW lost, NEW unit, NEW name \in StaticNames
  PROVE  Heard(b, lost, Static(name, unit)) \in {StaticRegister(b, name), None}
BY DEF Heard, Register, Static, StaticNames
---------------------------------------------------------------------------
(* The roots a box may be taken for, and what they say of a charger.       *)
Decodes(b, r) ==
  /\ r.profile \in {"modern_assumed", RegisterProfile(b.version, FALSE)}
  /\ r.states \in {"modern_assumed", StateProfile(b.version)}

Roots(b) ==
  {r \in RootShape :
     /\ r.kind = b.kind
     /\ b.kind = "versicharge" => r.unit \in b.units /\ Decodes(b, r)}

LEMMA Pac2200Sound ==
  ASSUME NEW b \in Boxes, NEW lost
  PROVE  Pac2200(b, lost) \in Roots(b) \cup {None}
<1>1. CASE Heard(b, lost, Im0) \in Pac2200Orders
  <2>1. b.kind = "pac2200"
    BY <1>1, GatewayHeard, BoxesAssumption, ProbeAssumption
  <2>2. Root("pac2200", 1) \in Roots(b)
    BY <2>1 DEF Root, Roots, RootShape, RootKinds
  <2> QED BY <1>1, <2>2 DEF Pac2200
<1> QED BY <1>1 DEF Pac2200

LEMMA PowercenterSound ==
  ASSUME NEW b \in Boxes, NEW lost
  PROVE  Powercenter(b, lost) \in Roots(b) \cup {None}
<1> DEFINE variant == FirstHeard(b, lost, VariantReads)
           ok == /\ FirstHeard(b, lost, ManufacturerReads) = Siemens
                 /\ variant \in {None, 0, 14, 16}
                 /\ variant \in {None, 0} => IsPowercenter1000(b, lost)
           r == [Root("powercenter", 255) EXCEPT !.type = PowercenterType(variant)]
<1>1. CASE ok
  <2>1. b.manufacturer = Siemens /\ variant \in {b.variant, None}
    BY <1>1, GatewayHeard, NoneAssumption DEF Siemens
  <2>2. IsPowercenter1000(b, lost) => b.firmware /\ b.slots
    BY GatewayHeard DEF IsPowercenter1000
  <2>3. b.kind = "powercenter"
    BY <1>1, <2>1, <2>2, BoxesAssumption
  <2>4. PowercenterType(variant)
          \in {"powercenter_1000", "powercenter_1100", "powercenter_2000"}
    BY DEF PowercenterType
  <2>5. r \in Roots(b)
    BY <2>3, <2>4 DEF Root, Roots, RootShape, RootKinds
  <2> QED BY <1>1, <2>5 DEF Powercenter
<1>2. CASE ~ok
  BY <1>2 DEF Powercenter
<1> QED BY <1>1, <1>2

LEMMA ChargerRoot ==
  ASSUME NEW unit \in 1 .. 247, NEW profile \in {"legacy", "modern", "modern_assumed"},
         NEW states \in {"legacy", "modern", "modern_assumed"}
  PROVE  [kind |-> "versicharge", unit |-> unit, type |-> None,
          profile |-> profile, states |-> states] \in RootShape
<1>1. unit \in 1 .. 255
  OBVIOUS
<1>2. None \in {None, "powercenter_1000", "powercenter_1100", "powercenter_2000"}
  OBVIOUS
<1>3. "versicharge" \in RootKinds
  BY DEF RootKinds
<1>4. {profile, states} \subseteq {None, "legacy", "modern", "modern_assumed"}
  OBVIOUS
<1> QED BY ONLY <1>1, <1>2, <1>3, <1>4 DEF RootShape

LEMMA ChargerSound ==
  ASSUME NEW b \in Boxes, NEW lost, NEW unit \in 1 .. 247
  PROVE  Charger(b, lost, unit) \in Roots(b) \cup {None}
<1> DEFINE version == Heard(b, lost, Static("a8", unit))
           modern == Heard(b, lost, Static("modern", unit)) # None
           ok == /\ Heard(b, lost, Static("maker", unit)) = Maker
                 /\ \/ Heard(b, lost, Static("model", unit)) = Marker
                    \/ Plausible(b, lost, unit) >= 3
           profile == RegisterProfile(version, modern)
           states == StateProfile(version)
           r == [kind |-> "versicharge", unit |-> unit, type |-> None,
                 profile |-> profile, states |-> states]
<1>1. CASE ok
  <2>1. b.maker = Maker
    BY <1>1, ChargerHeard, ProbeAssumption DEF StaticNames, StaticRegister
  <2>2. unit \in b.units
    BY <1>1, ProbeAssumption DEF Heard, Register, Static
  <2>3. Heard(b, lost, Static("model", unit)) = Marker => b.marker = Marker
    BY ChargerHeard, ProbeAssumption DEF StaticNames, StaticRegister
  <2>4. b.ratings \in {0, 1} => ~(Plausible(b, lost, unit) >= 3)
    BY DEF Plausible
  <2>5. b.kind = "versicharge"
    BY <1>1, <2>1, <2>3, <2>4, BoxesAssumption, NoneAssumption
  <2>6. b.version \in Nat /\ version \in {b.version, None}
    BY <2>5, BoxesAssumption, ChargerHeard DEF StaticNames, StaticRegister
  <2>7. modern => b.version >= ModernScaling
    BY ChargerHeard DEF StaticNames, StaticRegister
  <2>8. /\ profile \in {"modern_assumed", RegisterProfile(b.version, FALSE)}
        /\ profile \in {"legacy", "modern", "modern_assumed"}
    <3>1. RegisterProfile(b.version, FALSE)
            = IF b.version >= ModernScaling THEN "modern" ELSE "legacy"
      BY <2>6, NoneAssumption DEF RegisterProfile
    <3>2. CASE version = None
      BY <2>7, <3>1, <3>2 DEF RegisterProfile
    <3>3. CASE version = b.version
      BY <2>6, <3>1, <3>3, NoneAssumption DEF RegisterProfile
    <3> QED BY <2>6, <3>2, <3>3
  <2>9. /\ states \in {"modern_assumed", StateProfile(b.version)}
        /\ states \in {"legacy", "modern", "modern_assumed"}
    BY <2>6, NoneAssumption DEF StateProfile
  <2> HIDE DEF profile, states, version, modern
  <2>10. r \in Roots(b)
    <3>1. r \in RootShape
      BY <2>8, <2>9, ChargerRoot
    <3> QED BY <2>5, <2>8, <2>9, <2>2, <3>1 DEF Roots, Decodes
  <2> QED BY <1>1, <2>10 DEF Charger, profile, states, version, modern
<1>2. CASE ~ok
  BY <1>2 DEF Charger
<1> QED BY <1>1, <1>2

LEMMA VersiChargeSound ==
  ASSUME NEW b \in Boxes, NEW lost, NEW unit
  PROVE  VersiCharge(b, lost, unit) \in Roots(b) \cup {None}
<1> DEFINE ids == UnitIds(unit)
           answers == [i \in DOMAIN ids |-> Charger(b, lost, ids[i])]
<1>1. DOMAIN ids \in Chains /\ \A i \in DOMAIN ids : ids[i] \in 1 .. 247
  <2> DEFINE id == IF unit \in 1 .. 247 THEN unit ELSE DefaultUnit
  <2>1. id \in 1 .. 247 /\ FallbackUnit \in 1 .. 247
    BY ProbeAssumption
  <2>2. ids = <<id, FallbackUnit>> \/ ids = <<id>>
    BY DEF UnitIds
  <2> HIDE DEF id, ids
  <2>3. CASE ids = <<id, FallbackUnit>>
    BY <2>1, <2>3 DEF Chains
  <2>4. CASE ids = <<id>>
    BY <2>1, <2>4 DEF Chains
  <2> QED BY <2>2, <2>3, <2>4
<1>2. /\ DOMAIN answers \in Chains
      /\ \A i \in DOMAIN answers : answers[i] \in Roots(b) \cup {None}
  BY <1>1, ChargerSound
<1> HIDE DEF answers
<1>3. First(answers) \in Roots(b) \cup {None}
  BY <1>2, FirstIn
<1> QED BY <1>3 DEF VersiCharge, answers

LEMMA ProbeOrderKinds ==
  ASSUME NEW kind, NEW unit
  PROVE  /\ DOMAIN ProbeOrder(kind, unit) \in Chains
         /\ \A i \in DOMAIN ProbeOrder(kind, unit) : ProbeOrder(kind, unit)[i] \in RootKinds
<1> DEFINE order == IF unit # None THEN <<"versicharge", "pac2200", "powercenter">>
                    ELSE <<"pac2200", "powercenter", "versicharge">>
           place == CHOOSE i \in 1 .. 3 : order[i] = kind
           moved == [i \in 1 .. 3 |-> CASE i = 1            -> kind
                                        [] i \in 2 .. place -> order[i - 1]
                                        [] OTHER            -> order[i]]
<1>1. DOMAIN order = 1 .. 3 /\ \A i \in 1 .. 3 : order[i] \in RootKinds
  BY DEF RootKinds
<1>2. CASE kind \notin RootKinds
  <2>1. ProbeOrder(kind, unit) = order
    BY <1>2 DEF ProbeOrder
  <2> QED BY <1>1, <2>1 DEF Chains
<1>3. CASE kind \in RootKinds
  <2>1. \E i \in 1 .. 3 : order[i] = kind
    BY <1>3 DEF RootKinds
  <2>2. place \in 1 .. 3
    BY <2>1
  <2>3. ProbeOrder(kind, unit) = moved
    BY <1>3 DEF ProbeOrder
  <2> HIDE DEF place, order
  <2>4. \A i \in 1 .. 3 : moved[i] \in RootKinds
    BY <1>1, <1>3, <2>2
  <2>5. DOMAIN moved = 1 .. 3
    OBVIOUS
  <2> QED BY <2>3, <2>4, <2>5 DEF Chains
<1> QED BY <1>2, <1>3

(* A probe finds what the box is, or nothing, whatever is lost, whatever   *)
(* kind and unit id the entry stores.                                      *)
THEOREM DetectionIsSound ==
  ASSUME NEW b \in Boxes, NEW lost, NEW kind, NEW unit
  PROVE  DetectRoot(b, lost, kind, unit) \in Roots(b) \cup {None}
<1> DEFINE order == ProbeOrder(kind, unit)
           answers == [i \in DOMAIN order |-> Probe(order[i], b, lost, unit)]
<1>1. ASSUME NEW k \in RootKinds
      PROVE  Probe(k, b, lost, unit) \in Roots(b) \cup {None}
  BY Pac2200Sound, PowercenterSound, VersiChargeSound DEF Probe, RootKinds
<1>2. /\ DOMAIN answers \in Chains
      /\ \A i \in DOMAIN answers : answers[i] \in Roots(b) \cup {None}
  BY <1>1, ProbeOrderKinds
<1> HIDE DEF answers
<1>3. First(answers) \in Roots(b) \cup {None}
  BY <1>2, FirstIn
<1> QED BY <1>3 DEF DetectRoot, answers
---------------------------------------------------------------------------
(* A retry.  What some answers were enough to find, all of them find.      *)
LEMMA FirstFinds ==
  ASSUME NEW answers, DOMAIN answers \in Chains
  PROVE  /\ First(answers) # None =>
              \E i \in DOMAIN answers : answers[i] # None /\ First(answers) = answers[i]
         /\ (\E i \in DOMAIN answers : answers[i] # None) => First(answers) # None
<1> DEFINE heard == {i \in DOMAIN answers : answers[i] # None}
<1>1. CASE heard = {}
  BY <1>1 DEF First
<1>2. CASE heard # {}
  <2>1. \E i \in heard : \A j \in heard : i <= j
    BY <1>2 DEF Chains
  <2>2. (CHOOSE i \in heard : \A j \in heard : i <= j) \in heard
    BY <2>1
  <2>3. First(answers) = answers[CHOOSE i \in heard : \A j \in heard : i <= j]
    BY <1>2 DEF First
  <2> QED BY <2>2, <2>3
<1> QED BY <1>1, <1>2

LEMMA HeardAgain ==
  ASSUME NEW b, NEW lost, NEW request, Heard(b, lost, request) # None
  PROVE  Heard(b, {}, request) = Heard(b, lost, request)
BY DEF Heard

LEMMA FirstHeardAgain ==
  ASSUME NEW b, NEW lost, NEW requests, DOMAIN requests \in Chains,
         FirstHeard(b, lost, requests) # None
  PROVE  FirstHeard(b, {}, requests) # None
<1> DEFINE some == [i \in DOMAIN requests |-> Heard(b, lost, requests[i])]
           all == [i \in DOMAIN requests |-> Heard(b, {}, requests[i])]
<1>1. DOMAIN some \in Chains /\ DOMAIN all \in Chains
  OBVIOUS
<1>2. \A i \in DOMAIN requests : some[i] # None => all[i] # None
  BY HeardAgain
<1>3. DOMAIN some = DOMAIN requests /\ DOMAIN all = DOMAIN requests
  OBVIOUS
<1>4. First(some) # None
  BY DEF FirstHeard
<1> HIDE DEF some, all
<1>5. First(all) # None
  BY <1>1, <1>2, <1>3, <1>4, FirstFinds
<1> QED BY <1>5 DEF FirstHeard, all

LEMMA GatewayChains ==
  {DOMAIN ManufacturerReads, DOMAIN VariantReads, DOMAIN FirmwareReads} \subseteq Chains
<1>1. DOMAIN ManufacturerReads = 1 .. 4
  BY DEF ManufacturerReads
<1>2. DOMAIN VariantReads = 1 .. 2
  BY DEF VariantReads
<1>3. DOMAIN FirmwareReads = 1 .. 2
  BY DEF FirmwareReads
<1> QED BY <1>1, <1>2, <1>3 DEF Chains

LEMMA Pac2200Again ==
  ASSUME NEW b \in Boxes, NEW lost, Pac2200(b, lost) # None
  PROVE  Pac2200(b, {}) # None /\ Pac2200(b, lost).kind = "pac2200"
<1>1. Heard(b, lost, Im0) \in Pac2200Orders /\ Pac2200(b, lost) = Root("pac2200", 1)
  BY DEF Pac2200
<1>2. Heard(b, {}, Im0) = Heard(b, lost, Im0)
  BY <1>1, HeardAgain, ProbeAssumption
<1> QED BY <1>1, <1>2 DEF Pac2200, Root

LEMMA PowercenterAgain ==
  ASSUME NEW b \in Boxes, NEW lost, Powercenter(b, lost) # None
  PROVE  Powercenter(b, {}) # None /\ Powercenter(b, lost).kind = "powercenter"
<1>1. Powercenter(b, lost) \in Roots(b)
  BY PowercenterSound
<1>2. /\ FirstHeard(b, lost, ManufacturerReads) = Siemens
      /\ FirstHeard(b, lost, VariantReads) \in {None, 0} => IsPowercenter1000(b, lost)
  BY DEF Powercenter
<1>3. Powercenter(b, lost)
        = [Root("powercenter", 255) EXCEPT
             !.type = PowercenterType(FirstHeard(b, lost, VariantReads))]
  BY DEF Powercenter
<1>4. Powercenter(b, lost).kind = "powercenter"
  BY <1>3 DEF Root
<1>5. b.variant \in {None, 0, 14, 16}
  BY <1>1, <1>4, BoxesAssumption DEF Roots
<1>6. Siemens # None
  BY NoneAssumption DEF Siemens
<1>7. FirstHeard(b, {}, ManufacturerReads) = Siemens
  <2>1. FirstHeard(b, lost, ManufacturerReads) = b.manufacturer
    BY <1>2, <1>6, GatewayHeard
  <2>2. FirstHeard(b, {}, ManufacturerReads) # None
    BY <1>2, <1>6, GatewayChains, FirstHeardAgain
  <2> QED BY <1>2, <2>1, <2>2, GatewayHeard
<1>8. FirstHeard(b, {}, VariantReads) \in {b.variant, None}
  BY GatewayHeard
<1>9. FirstHeard(b, {}, VariantReads) \in {None, 0} => IsPowercenter1000(b, {})
  <2> SUFFICES ASSUME FirstHeard(b, {}, VariantReads) \in {None, 0}
               PROVE  IsPowercenter1000(b, {})
    OBVIOUS
  <2>1. FirstHeard(b, lost, VariantReads) \in {None, 0}
    <3>1. CASE FirstHeard(b, lost, VariantReads) = None
      BY <3>1
    <3>2. CASE FirstHeard(b, lost, VariantReads) # None
      <4>1. FirstHeard(b, {}, VariantReads) # None
        BY <3>2, GatewayChains, FirstHeardAgain
      <4>2. FirstHeard(b, lost, VariantReads) = b.variant
        BY <3>2, GatewayHeard
      <4> QED BY <1>8, <4>1, <4>2
    <3> QED BY <3>1, <3>2
  <2>2. IsPowercenter1000(b, lost)
    BY <1>2, <2>1
  <2>3. FirstHeard(b, {}, FirmwareReads) # None
    BY <2>2, GatewayChains, FirstHeardAgain DEF IsPowercenter1000
  <2>4. \E r \in {Pairing, ConnectionRead} : Heard(b, {}, r) # None
    BY <2>2, HeardAgain DEF IsPowercenter1000
  <2> QED BY <2>3, <2>4 DEF IsPowercenter1000
<1> DEFINE r == [Root("powercenter", 255) EXCEPT
                   !.type = PowercenterType(FirstHeard(b, {}, VariantReads))]
<1>10. Powercenter(b, {}) = r
  BY <1>5, <1>7, <1>8, <1>9 DEF Powercenter
<1>11. r \in RootShape
  <2>1. PowercenterType(FirstHeard(b, {}, VariantReads))
          \in {"powercenter_1000", "powercenter_1100", "powercenter_2000"}
    BY DEF PowercenterType
  <2> QED BY <2>1 DEF Root, RootShape, RootKinds
<1> QED BY <1>4, <1>10, <1>11, NoDataAssumption

LEMMA ChargerAgain ==
  ASSUME NEW b \in Boxes, NEW lost, NEW unit \in 1 .. 247, Charger(b, lost, unit) # None
  PROVE  /\ Charger(b, {}, unit) # None
         /\ Charger(b, lost, unit).kind = "versicharge" /\ Charger(b, lost, unit).unit = unit
<1> DEFINE version == Heard(b, {}, Static("a8", unit))
           modern == Heard(b, {}, Static("modern", unit)) # None
           profile == RegisterProfile(version, modern)
           states == StateProfile(version)
<1>1. /\ Heard(b, lost, Static("maker", unit)) = Maker
      /\ \/ Heard(b, lost, Static("model", unit)) = Marker
         \/ Plausible(b, lost, unit) >= 3
  BY DEF Charger
<1>2. Charger(b, lost, unit).kind = "versicharge" /\ Charger(b, lost, unit).unit = unit
  BY <1>1 DEF Charger
<1>3. b.ratings \in 0 .. 3
  <2>1. Charger(b, lost, unit) \in Roots(b)
    BY ChargerSound
  <2>2. b.kind = "versicharge"
    BY <1>2, <2>1 DEF Roots
  <2> QED BY <2>2, BoxesAssumption
<1>4. Heard(b, {}, Static("maker", unit)) = Maker
  BY <1>1, HeardAgain, ProbeAssumption
<1>5. \/ Heard(b, {}, Static("model", unit)) = Marker
      \/ Plausible(b, {}, unit) >= 3
  <2>1. Heard(b, lost, Static("model", unit)) = Marker =>
          Heard(b, {}, Static("model", unit)) = Marker
    BY HeardAgain, ProbeAssumption
  <2>2. /\ Heard(b, lost, Static("platform", unit)) # None =>
             Heard(b, {}, Static("platform", unit)) # None
        /\ Heard(b, lost, Static("ratings", unit)) # None =>
             Heard(b, {}, Static("ratings", unit)) # None
    BY HeardAgain
  <2>3. Plausible(b, lost, unit) >= 3 => Plausible(b, {}, unit) >= 3
    BY <1>3, <2>2 DEF Plausible
  <2> QED BY <1>1, <2>1, <2>3
<1>6. /\ profile \in {"legacy", "modern", "modern_assumed"}
      /\ states \in {"legacy", "modern", "modern_assumed"}
  BY DEF RegisterProfile, StateProfile
<1>7. Charger(b, {}, unit) = [kind |-> "versicharge", unit |-> unit, type |-> None,
                              profile |-> profile, states |-> states]
  BY <1>4, <1>5 DEF Charger
<1> HIDE DEF profile, states
<1>8. Charger(b, {}, unit) \in RootShape
  BY <1>6, <1>7, ChargerRoot
<1> QED BY <1>2, <1>8, NoDataAssumption

LEMMA UnitIdsAreValid ==
  ASSUME NEW unit
  PROVE  /\ DOMAIN UnitIds(unit) \in Chains /\ 1 \in DOMAIN UnitIds(unit)
         /\ \A i \in DOMAIN UnitIds(unit) : UnitIds(unit)[i] \in 1 .. 247
         /\ unit \in 1 .. 247 => UnitIds(unit)[1] = unit
<1> DEFINE id == IF unit \in 1 .. 247 THEN unit ELSE DefaultUnit
           ids == UnitIds(unit)
<1>1. /\ id \in 1 .. 247 /\ FallbackUnit \in 1 .. 247
      /\ unit \in 1 .. 247 => id = unit
  BY ProbeAssumption
<1>2. ids = <<id, FallbackUnit>> \/ ids = <<id>>
  BY DEF UnitIds
<1> HIDE DEF id, ids
<1>3. CASE ids = <<id, FallbackUnit>>
  BY <1>1, <1>3 DEF Chains, ids
<1>4. CASE ids = <<id>>
  BY <1>1, <1>4 DEF Chains, ids
<1> QED BY <1>2, <1>3, <1>4

LEMMA VersiChargeAgain ==
  ASSUME NEW b \in Boxes, NEW lost, NEW unit, VersiCharge(b, lost, unit) # None
  PROVE  /\ VersiCharge(b, {}, VersiCharge(b, lost, unit).unit) # None
         /\ VersiCharge(b, lost, unit).kind = "versicharge"
<1> DEFINE ids == UnitIds(unit)
           answers == [i \in DOMAIN ids |-> Charger(b, lost, ids[i])]
           unit1 == VersiCharge(b, lost, unit).unit
           ids1 == UnitIds(unit1)
           answers1 == [i \in DOMAIN ids1 |-> Charger(b, {}, ids1[i])]
<1>1. PICK i \in DOMAIN ids :
        /\ VersiCharge(b, lost, unit) = Charger(b, lost, ids[i])
        /\ Charger(b, lost, ids[i]) # None
  <2>1. DOMAIN answers \in Chains /\ First(answers) = VersiCharge(b, lost, unit)
    BY UnitIdsAreValid DEF VersiCharge
  <2>2. \A i \in DOMAIN answers : i \in DOMAIN ids /\ answers[i] = Charger(b, lost, ids[i])
    OBVIOUS
  <2> HIDE DEF answers
  <2>3. \E i \in DOMAIN answers : answers[i] # None /\ First(answers) = answers[i]
    BY <2>1, FirstFinds
  <2> QED BY <2>1, <2>2, <2>3
<1>2. ids[i] \in 1 .. 247
  BY <1>1, UnitIdsAreValid
<1>3. /\ Charger(b, {}, ids[i]) # None /\ unit1 = ids[i]
      /\ VersiCharge(b, lost, unit).kind = "versicharge"
  BY <1>1, <1>2, ChargerAgain
<1> HIDE DEF unit1
<1>4. ids1[1] = unit1 /\ 1 \in DOMAIN ids1 /\ DOMAIN ids1 \in Chains
  BY <1>2, <1>3, UnitIdsAreValid
<1>5. DOMAIN answers1 = DOMAIN ids1 /\ answers1[1] # None
  BY <1>3, <1>4
<1>6. First(answers1) = VersiCharge(b, {}, unit1)
  BY DEF VersiCharge
<1> HIDE DEF answers1
<1>7. First(answers1) # None
  BY <1>4, <1>5, FirstFinds
<1> QED BY <1>3, <1>6, <1>7 DEF unit1

(* The kind and the unit id a probe has found are what a later one is      *)
(* given (async_step_user stores them): when nothing is lost any more, it  *)
(* finds a root again.                                                     *)
THEOREM RetryFinds ==
  ASSUME NEW b \in Boxes, NEW lost, NEW kind, NEW unit,
         DetectRoot(b, lost, kind, unit) # None
  PROVE  DetectRoot(b, {}, DetectRoot(b, lost, kind, unit).kind,
                    DetectRoot(b, lost, kind, unit).unit) # None
<1> DEFINE order == ProbeOrder(kind, unit)
           answers == [i \in DOMAIN order |-> Probe(order[i], b, lost, unit)]
           r == DetectRoot(b, lost, kind, unit)
           order1 == ProbeOrder(r.kind, r.unit)
           answers1 == [i \in DOMAIN order1 |-> Probe(order1[i], b, {}, r.unit)]
<1>1. ASSUME NEW k \in RootKinds, Probe(k, b, lost, unit) # None
      PROVE  /\ Probe(k, b, lost, unit).kind = k
             /\ Probe(k, b, {}, Probe(k, b, lost, unit).unit) # None
  <2>1. CASE k = "pac2200"
    BY <1>1, <2>1, Pac2200Again DEF Probe
  <2>2. CASE k = "powercenter"
    BY <1>1, <2>2, PowercenterAgain DEF Probe
  <2>3. CASE k = "versicharge"
    BY <1>1, <2>3, VersiChargeAgain DEF Probe
  <2> QED BY <2>1, <2>2, <2>3 DEF RootKinds
<1>2. PICK k \in RootKinds : r = Probe(k, b, lost, unit) /\ Probe(k, b, lost, unit) # None
  <2>1. DOMAIN answers \in Chains /\ First(answers) = r
    BY ProbeOrderKinds DEF DetectRoot
  <2>2. \A i \in DOMAIN answers :
          order[i] \in RootKinds /\ answers[i] = Probe(order[i], b, lost, unit)
    BY ProbeOrderKinds
  <2> HIDE DEF answers, r
  <2>3. \E i \in DOMAIN answers : answers[i] # None /\ First(answers) = answers[i]
    BY <2>1, FirstFinds DEF r
  <2> QED BY <2>1, <2>2, <2>3
<1>3. r.kind = k /\ Probe(k, b, {}, r.unit) # None
  BY <1>1, <1>2
<1> HIDE DEF r
<1>4. order1[1] = k /\ 1 \in DOMAIN order1 /\ DOMAIN order1 \in Chains
  <2>1. r.kind \in RootKinds
    BY <1>3
  <2>2. order1[1] = r.kind /\ 1 \in DOMAIN order1
    BY <2>1 DEF ProbeOrder
  <2> QED BY <1>3, <2>2, ProbeOrderKinds
<1>5. DOMAIN answers1 = DOMAIN order1 /\ answers1[1] # None
  BY <1>3, <1>4
<1>6. First(answers1) = DetectRoot(b, {}, r.kind, r.unit)
  BY DEF DetectRoot
<1> HIDE DEF answers1
<1>7. First(answers1) # None
  BY <1>4, <1>5, FirstFinds
<1> QED BY <1>6, <1>7 DEF r
---------------------------------------------------------------------------
(* What a slot is taken for.                                               *)
TrueInfos(d) ==
  {info \in Infos : /\ info.type = MetadataType(info.variant)
                    /\ info.type \in {TypeOf(d.true), Generic}}

LEMMA ValidVariants ==
  ASSUME NEW v
  PROVE  /\ IsValidVariant(v) => v \in Variants /\ MetadataType(v) = TypeOf(v)
         /\ 0 \in Variants /\ MetadataType(0) = Generic
<1>1. 0 \notin DOMAIN DeviceTypes
  BY DEF DeviceTypes
<1> QED BY <1>1 DEF IsValidVariant, TypeOf, Variants, MetadataType

LEMMA NoneIsInvalid == ~IsValidVariant(None)
<1>1. \A v \in DOMAIN DeviceTypes : v \in Nat
  BY DEF DeviceTypes
<1>2. None \notin DOMAIN DeviceTypes
  BY <1>1, NoneAssumption
<1> QED BY <1>2 DEF IsValidVariant, TypeOf

LEMMA ArticleIsTrue ==
  ASSUME NEW d \in Devices, NEW article \in {None, d.article},
         IsValidVariant(VariantFromArticle(article))
  PROVE  VariantFromArticle(article) = d.true
<1> DEFINE Counts(h) == Longer(h) \/ \A g \in article : ~Longer(g)
<1>2. article \notin {None, {}}
  BY NoneIsInvalid DEF VariantFromArticle
<1>3. \E h \in article : Counts(h)
  BY <1>2
<1>4. (CHOOSE h \in article : Counts(h)) \in article
      /\ Counts(CHOOSE h \in article : Counts(h))
  BY <1>3
<1>5. VariantFromArticle(article) = ArticleHints[CHOOSE h \in article : Counts(h)]
  BY <1>2 DEF VariantFromArticle
<1> QED BY <1>2, <1>4, <1>5, DevicesAssumption

(* Whichever of its registers answer, a device is discovered as what it    *)
(* is, as a generic one, or not at all.                                    *)
LEMMA DiscoveryIsTrue ==
  ASSUME NEW lost, device \in Devices
  PROVE  Discovered(lost) \in TrueInfos(device) \cup {None}
<1> DEFINE read == Ask(lost, "variant", device.variant)
           article == Ask(lost, "article", device.article)
           variant == Resolve(read, article, ConnectionState(lost) = 3)
<1>1. read \in {None, device.variant} /\ article \in {None, device.article}
  BY DEF Ask
<1>3. variant \in {None, 0} \/ (IsValidVariant(variant) /\ variant = device.true)
  BY <1>1, NoneIsInvalid, ArticleIsTrue, DevicesAssumption DEF Resolve
<1> HIDE DEF variant
<1>4. variant # None =>
        [variant |-> variant, type |-> MetadataType(variant)] \in TrueInfos(device)
  BY <1>3, ValidVariants DEF TrueInfos, Infos
<1> QED BY <1>4 DEF Discovered, variant
---------------------------------------------------------------------------
(* The inductive invariant.  Between a detection and the next reload the   *)
(* root stays the one that was detected, so what was decoded by its        *)
(* profile is still explained by it.                                       *)
WorldOK == box \in Boxes /\ device \in Devices

ShapeOK ==
  /\ link \in Links /\ calm \in BOOLEAN /\ step \in Steps
  /\ (root = None) = (step = "none")
  /\ step = "none" => published = None
  /\ step \in {"forward", "loaded"} => published # None

EntryOK ==
  entry # None => entry.kind \in {None, box.kind} /\ entry.unit \in {None} \cup 1 .. 255

RootOK == root # None => root \in Roots(box)

TrueSlots == TrueInfos(device) \cup {None}
SlotsOK ==
  /\ found \in TrueSlots /\ entity \in TrueSlots
  /\ published # None => published.slot \in TrueSlots

KeysOK ==
  (published # None /\ published.slot # None) =>
    published.keys \in {{"connection_state"}, KeysRead(published.slot)}

DecodedOK ==
  (published # None /\ root # None /\ root.kind = "versicharge") =>
    /\ published.energy = EnergyUnit(root.profile)
    /\ published.errors = ErrorTable(root.states)

OnboardingInv ==
  WorldOK /\ ShapeOK /\ EntryOK /\ RootOK /\ SlotsOK /\ KeysOK /\ DecodedOK

LEMMA InitInv == Init => OnboardingInv
<1> SUFFICES ASSUME Init PROVE OnboardingInv
  OBVIOUS
<1>1. WorldOK /\ ShapeOK
  BY DEF Init, WorldOK, ShapeOK, Links, Steps
<1>2. EntryOK
  <2>1. entry = None \/ entry = LegacyEntry
    BY DEF Init
  <2> QED BY <2>1 DEF EntryOK, LegacyEntry
<1>3. RootOK /\ SlotsOK /\ KeysOK /\ DecodedOK
  BY DEF Init, RootOK, SlotsOK, TrueSlots, KeysOK, DecodedOK
<1> QED BY <1>1, <1>2, <1>3 DEF OnboardingInv

LEMMA FormKeepsEntry ==
  ASSUME OnboardingInv, SubmitForm
  PROVE  EntryOK'
<1>1. PICK unit \in Units, lost \in Losses(Answers(box)) :
        entry' = IF DetectRoot(box, lost, None, unit) = None THEN None
                 ELSE [kind |-> DetectRoot(box, lost, None, unit).kind,
                       unit |-> DetectRoot(box, lost, None, unit).unit]
  BY DEF SubmitForm
<1> DEFINE root1 == DetectRoot(box, lost, None, unit)
<1>2. root1 \in Roots(box) \cup {None}
  BY DetectionIsSound DEF OnboardingInv, WorldOK
<1>3. root1 # None => root1.kind = box.kind /\ root1.unit \in 1 .. 255
  BY <1>2 DEF Roots, RootShape
<1>4. box' = box
  BY DEF SubmitForm, world
<1> HIDE DEF root1
<1>5. CASE root1 = None
  BY <1>1, <1>5 DEF EntryOK, root1
<1>6. CASE root1 # None
  <2>1. entry' = [kind |-> root1.kind, unit |-> root1.unit]
    BY <1>1, <1>6 DEF root1
  <2> QED BY <1>3, <1>4, <1>6, <2>1 DEF EntryOK
<1> QED BY <1>5, <1>6

LEMMA ReadPublishes ==
  ASSUME OnboardingInv, Read
  PROVE  published' # None /\ SlotsOK' /\ KeysOK' /\ DecodedOK'
<1>1. PICK lost \in Losses({"connection"}) :
        published' = [slot |-> found, keys |-> SlotKeys(lost),
          energy |-> IF root.kind = "versicharge" THEN EnergyUnit(root.profile) ELSE None,
          errors |-> IF root.kind = "versicharge" THEN ErrorTable(root.states) ELSE None]
  BY DEF Read
<1> DEFINE keys == SlotKeys(lost)
           energy == IF root.kind = "versicharge" THEN EnergyUnit(root.profile) ELSE None
           errors == IF root.kind = "versicharge" THEN ErrorTable(root.states) ELSE None
<1>2. found \in {None} \cup Infos
  BY DEF OnboardingInv, SlotsOK, TrueSlots, TrueInfos
<1>3. /\ keys \in {{}, {"connection_state"}} \cup {KeysRead(info) : info \in Infos}
      /\ found # None => keys \in {{"connection_state"}, KeysRead(found)}
  BY <1>2 DEF SlotKeys
<1>4. energy \in {None, 1, 10} /\ errors \in {None, "legacy", "modern"}
  BY DEF EnergyUnit, ErrorTable
<1>5. root.kind = "versicharge" =>
        energy = EnergyUnit(root.profile) /\ errors = ErrorTable(root.states)
  OBVIOUS
<1>6. published' = [slot |-> found, keys |-> keys, energy |-> energy, errors |-> errors]
  BY <1>1
<1>7. /\ found' = None /\ entity' = entity /\ root' = root /\ device' = device
  BY DEF Read, world
<1> HIDE DEF keys, energy, errors
<1>8. published' \in Publications
  BY <1>2, <1>3, <1>4, <1>6 DEF Publications
<1>9. /\ published'.slot = found /\ published'.keys = keys
      /\ published'.energy = energy /\ published'.errors = errors
  BY <1>6
<1>10. published' # None
  BY <1>8, NoDataAssumption
<1>11. SlotsOK'
  BY <1>7, <1>9 DEF OnboardingInv, SlotsOK, TrueSlots, TrueInfos
<1>12. KeysOK'
  BY <1>3, <1>9 DEF KeysOK
<1>13. DecodedOK'
  BY <1>5, <1>7, <1>9 DEF DecodedOK
<1> QED BY <1>10, <1>11, <1>12, <1>13

LEMMA StepInv == OnboardingInv /\ [Next]_vars => OnboardingInv'
<1> SUFFICES ASSUME OnboardingInv, [Next]_vars PROVE OnboardingInv'
  OBVIOUS
<1> USE DEF OnboardingInv
<1>1. CASE SubmitForm
  <2>1. EntryOK'
    BY <1>1, FormKeepsEntry
  <2>2. UNCHANGED <<box, device, link, calm, step, root, found, published, entity>>
    BY <1>1 DEF SubmitForm, world
  <2> QED BY <2>1, <2>2 DEF WorldOK, ShapeOK, RootOK, SlotsOK, TrueSlots, TrueInfos,
                            KeysOK, DecodedOK
<1>2. CASE Detect
  <2>1. UNCHANGED <<box, device, link, calm, entry, found, published, entity>>
    BY <1>2 DEF Detect, world
  <2>2. step = "none" /\ published = None
    BY <1>2 DEF Detect, ShapeOK
  <2>3. PICK lost \in Losses(Answers(box)) :
          /\ root' = DetectRoot(box, lost, entry.kind, entry.unit)
          /\ step' = IF root' = None THEN "none"
                     ELSE IF root'.kind = "powercenter" THEN "discover" ELSE "read"
    BY <1>2 DEF Detect
  <2>4. root' \in Roots(box) \cup {None}
    BY <2>3, DetectionIsSound DEF WorldOK
  <2>5. RootOK'
    BY <2>1, <2>4 DEF RootOK, Roots, Decodes
  <2>6. /\ step' \in {"none", "discover", "read"}
        /\ (root' = None) = (step' = "none")
    BY <2>3
  <2>7. ShapeOK'
    BY <2>1, <2>2, <2>6 DEF ShapeOK, Links, Steps
  <2> QED BY <2>1, <2>2, <2>5, <2>7 DEF WorldOK, EntryOK, SlotsOK, TrueSlots, TrueInfos,
                                        KeysOK, DecodedOK
<1>3. CASE Discover
  <2>1. UNCHANGED <<box, device, link, calm, entry, root, published, entity>>
    BY <1>3 DEF Discover, world
  <2>2. step = "discover" /\ step' = "read"
    BY <1>3 DEF Discover
  <2>3. PICK lost \in Losses({"connection", "pairing", "variant", "article"}) :
          found' = IF Discovered(lost) = None THEN Cached ELSE Discovered(lost)
    BY <1>3 DEF Discover
  <2>4. Discovered(lost) \in TrueSlots
    BY DiscoveryIsTrue DEF TrueSlots, WorldOK
  <2>5. Cached \in TrueSlots
    BY DEF Cached, SlotsOK, TrueSlots
  <2>6. found' \in TrueSlots
    BY <2>3, <2>4, <2>5
  <2>7. SlotsOK'
    BY <2>1, <2>6 DEF SlotsOK, TrueSlots, TrueInfos
  <2>8. ShapeOK'
    BY <2>1, <2>2 DEF ShapeOK, Links, Steps
  <2> QED BY <2>1, <2>7, <2>8 DEF WorldOK, EntryOK, RootOK, KeysOK, DecodedOK
<1>4. CASE Read
  <2>1. UNCHANGED <<box, device, link, calm, entry, root>>
    BY <1>4 DEF Read, world
  <2>2. published' # None /\ SlotsOK' /\ KeysOK' /\ DecodedOK'
    BY <1>4, ReadPublishes
  <2>3. step = "read" /\ step' \in {"forward", "loaded"}
    BY <1>4 DEF Read
  <2>4. ShapeOK'
    BY <2>1, <2>2, <2>3 DEF ShapeOK, Links, Steps
  <2> QED BY <2>1, <2>2, <2>4 DEF WorldOK, EntryOK, RootOK
<1>5. CASE FailRead
  <2>1. UNCHANGED <<box, device, link, calm, entry, published, entity>> /\ found' = None
    BY <1>5 DEF FailRead, world
  <2>2. \/ published = None /\ step' = "none" /\ root' = None
        \/ published # None /\ step' = "loaded" /\ root' = root /\ root # None
    BY <1>5 DEF FailRead, ShapeOK
  <2>3. ShapeOK'
    BY <2>1, <2>2 DEF ShapeOK, Links, Steps
  <2> QED BY <2>1, <2>2, <2>3 DEF WorldOK, EntryOK, RootOK, SlotsOK, TrueSlots, TrueInfos,
                                  KeysOK, DecodedOK
<1>6. CASE Forward
  <2>1. UNCHANGED <<box, device, link, calm, entry, root, found, published>>
    BY <1>6 DEF Forward, world
  <2>2. step = "forward" /\ step' = "loaded" /\ entity' = Cached
    BY <1>6 DEF Forward
  <2>3. ShapeOK'
    BY <2>1, <2>2 DEF ShapeOK, Links, Steps
  <2>4. SlotsOK'
    BY <2>1, <2>2 DEF SlotsOK, TrueSlots, TrueInfos, Cached
  <2> QED BY <2>1, <2>3, <2>4 DEF WorldOK, EntryOK, RootOK, KeysOK, DecodedOK
<1>7. CASE Refresh
  <2>1. UNCHANGED <<box, device, link, calm, entry, root, published, entity>>
    BY <1>7 DEF Refresh, world
  <2>2. step = "loaded" /\ step' \in {"discover", "read"} /\ found' \in {found, Cached}
    BY <1>7 DEF Refresh
  <2>3. ShapeOK'
    BY <2>1, <2>2 DEF ShapeOK, Links, Steps
  <2>4. SlotsOK'
    BY <2>1, <2>2 DEF SlotsOK, TrueSlots, TrueInfos, Cached
  <2> QED BY <2>1, <2>3, <2>4 DEF WorldOK, EntryOK, RootOK, KeysOK, DecodedOK
<1>8. CASE Reload
  <2>1. UNCHANGED <<box, device, link, calm, entry>>
    BY <1>8 DEF Reload, world
  <2>2. /\ step' = "none" /\ root' = None /\ found' = None
        /\ published' = None /\ entity' = None
    BY <1>8 DEF Reload
  <2> QED BY <2>1, <2>2 DEF WorldOK, ShapeOK, Links, Steps, EntryOK, RootOK, SlotsOK,
                            TrueSlots, KeysOK, DecodedOK
<1>9. CASE LinkChanges \/ CalmDown \/ UNCHANGED vars
  <2>1. UNCHANGED <<box, device, entry, step, root, found, published, entity>>
    BY <1>9 DEF LinkChanges, CalmDown, vars, world
  <2>2. link' \in Links /\ calm' \in BOOLEAN
    BY <1>9 DEF LinkChanges, CalmDown, vars, ShapeOK
  <2> QED BY <2>1, <2>2 DEF WorldOK, ShapeOK, EntryOK, RootOK, SlotsOK, TrueSlots,
                            TrueInfos, KeysOK, DecodedOK
<1> QED BY <1>1, <1>2, <1>3, <1>4, <1>5, <1>6, <1>7, <1>8, <1>9 DEF Next

(* In every state the root, the slots, the keys and the decoding are those *)
(* the detection and the discovery of the running setup explain.           *)
THEOREM Invariance == Spec => []OnboardingInv
BY InitInv, StepInv, PTL DEF Spec

(* TypeOK: the shape of the state.                                         *)
THEOREM TypeCorrect == Spec => []TypeOK
<1>1. OnboardingInv => TypeOK
  BY DEF OnboardingInv, ShapeOK, EntryOK, SlotsOK, TrueSlots, TrueInfos, TypeOK, Cached
<1> QED BY <1>1, Invariance, PTL

(* RootIsTheDevice: whatever answers are lost, an entry and its root stand *)
(* for the kind of device that is at the address.                          *)
THEOREM RootsAreTrue == Spec => []RootIsTheDevice
<1>1. OnboardingInv => RootIsTheDevice
  BY DEF OnboardingInv, EntryOK, RootOK, Roots, RootIsTheDevice
<1> QED BY <1>1, Invariance, PTL

(* KnownProfileDecodesRight: a charger is decoded by the rules of its own  *)
(* firmware, unless modern rules are assumed.                              *)
THEOREM DecodingIsRight == Spec => []KnownProfileDecodesRight
<1>1. OnboardingInv => KnownProfileDecodesRight
  <2> SUFFICES ASSUME OnboardingInv, published # None, root # None,
                      root.kind = "versicharge"
               PROVE  /\ root.profile # "modern_assumed" =>
                           published.energy = EnergyUnit(RegisterProfile(box.version, FALSE))
                      /\ root.states # "modern_assumed" =>
                           (published.errors = "legacy") = (box.version < ModernStates)
    BY DEF KnownProfileDecodesRight
  <2>1. box.kind = "versicharge" /\ Decodes(box, root)
    BY DEF OnboardingInv, RootOK, Roots
  <2>2. box.version \in Nat
    BY <2>1, BoxesAssumption DEF OnboardingInv, WorldOK
  <2>3. /\ published.energy = EnergyUnit(root.profile)
        /\ published.errors = ErrorTable(root.states)
    BY DEF OnboardingInv, DecodedOK
  <2>4. root.profile # "modern_assumed" => root.profile = RegisterProfile(box.version, FALSE)
    BY <2>1 DEF Decodes
  <2>5. StateProfile(box.version) = IF box.version >= ModernStates THEN "modern" ELSE "legacy"
    BY <2>2, NoneAssumption DEF StateProfile
  <2>6. root.states # "modern_assumed" =>
          (ErrorTable(root.states) = "legacy") = (box.version < ModernStates)
    BY <2>1, <2>2, <2>5 DEF Decodes, ErrorTable, ModernStates
  <2> QED BY <2>3, <2>4, <2>6
<1> QED BY <1>1, Invariance, PTL

(* SlotTypesAreTrue: the data and the entities say of a device what it is, *)
(* or that it is a generic one.                                            *)
THEOREM SlotsAreTrue == Spec => []SlotTypesAreTrue
<1>1. OnboardingInv => SlotTypesAreTrue
  BY DEF OnboardingInv, SlotsOK, TrueSlots, TrueInfos, SlotTypesAreTrue, Cached
<1> QED BY <1>1, Invariance, PTL
---------------------------------------------------------------------------
(* The safety half of EntryComesUp.                                        *)
EntryIsFound ==
  entry # None => DetectRoot(box, {}, entry.kind, entry.unit) # None

(* What the flow has stored, or a legacy entry without a kind and unit id, *)
(* is enough to find a root again whenever all answers arrive.             *)
THEOREM EntriesStayDetectable == Spec => []EntryIsFound
<1>1. Init => EntryIsFound
  <2> SUFFICES ASSUME Init, entry # None PROVE EntryIsFound
    BY DEF EntryIsFound
  <2>1. entry = LegacyEntry /\ DetectRoot(box, {}, None, None) # None
    BY DEF Init
  <2> QED BY <2>1 DEF EntryIsFound, LegacyEntry
<1>2. OnboardingInv /\ EntryIsFound /\ [Next]_vars => EntryIsFound'
  <2> SUFFICES ASSUME OnboardingInv, EntryIsFound, [Next]_vars PROVE EntryIsFound'
    OBVIOUS
  <2>1. CASE SubmitForm
    <3>1. PICK unit \in Units, lost \in Losses(Answers(box)) :
            entry' = IF DetectRoot(box, lost, None, unit) = None THEN None
                     ELSE [kind |-> DetectRoot(box, lost, None, unit).kind,
                           unit |-> DetectRoot(box, lost, None, unit).unit]
      BY <2>1 DEF SubmitForm
    <3>2. box' = box
      BY <2>1 DEF SubmitForm, world
    <3> DEFINE r == DetectRoot(box, lost, None, unit)
    <3>3. r # None => DetectRoot(box, {}, r.kind, r.unit) # None
      BY RetryFinds DEF OnboardingInv, WorldOK
    <3>4. entry' # None => r # None /\ entry'.kind = r.kind /\ entry'.unit = r.unit
      BY <3>1
    <3> HIDE DEF r
    <3> QED BY <3>2, <3>3, <3>4 DEF EntryIsFound
  <2>2. CASE ~SubmitForm
    <3>1. UNCHANGED <<box, entry>>
      BY <2>2 DEF Next, vars, world, Detect, Discover, Read, FailRead, Forward, Refresh,
        Reload, LinkChanges, CalmDown
    <3> QED BY <3>1 DEF EntryIsFound
  <2> QED BY <2>1, <2>2
<1> QED BY <1>1, <1>2, Invariance, PTL DEF Spec

(* A charger is read at a unit id it answers at, so once nothing is lost   *)
(* no refresh fails: a retried setup gets through (FailRead, calm).        *)
THEOREM ReadsFailOnlyByLoss == Spec => [][FailRead => ~calm]_vars
<1>1. OnboardingInv /\ FailRead => ~calm
  <2> SUFFICES ASSUME OnboardingInv, FailRead, calm PROVE FALSE
    OBVIOUS
  <2>1. root.kind = "versicharge" /\ root.unit \notin box.units /\ step = "read"
    BY DEF FailRead, OnboardingInv, ShapeOK
  <2>2. root \in Roots(box)
    BY <2>1 DEF OnboardingInv, ShapeOK, RootOK
  <2> QED BY <2>1, <2>2 DEF Roots
<1> QED BY <1>1, Invariance, PTL DEF Spec
---------------------------------------------------------------------------
(* The profiles.  Of an item a refresh reads the value, unless it is the   *)
(* connection state.  A sound profile has one item for a key, and those of *)
(* the inputs and outputs of a DIDO are still to come.                     *)
Readable(item) == item.kind \in ReadKinds \/ item = Connection
DidoKeys == {"dido_input_1", "dido_input_2", "output_1_forcing", "output_2_forcing"}
Plain(item) == Readable(item) /\ item.key \notin DidoKeys

Sound(profile) ==
  /\ \A i \in profile : Plain(i)
  /\ \A i, j \in profile : i.key = j.key => i = j

Has(profile, key) == \E i \in profile : i.key = key

LEMMA AppendIsSound ==
  ASSUME NEW profile, Sound(profile), NEW item, Plain(item)
  PROVE  Sound(Append1(profile, item)) /\ profile \subseteq Append1(profile, item)
BY DEF Sound, Append1

LEMMA ReplaceIsSound ==
  ASSUME NEW profile, Sound(profile), NEW item, Plain(item)
  PROVE  /\ Sound(Replace(profile, item))
         /\ \A key : Has(profile, key) => Has(Replace(profile, item), key)
BY DEF Sound, Replace, Has

LEMMA SubsetHas ==
  ASSUME NEW smaller, NEW larger, smaller \subseteq larger
  PROVE  \A key : Has(smaller, key) => Has(larger, key)
BY DEF Has

LEMMA UnionIsSound ==
  ASSUME NEW one, Sound(one), NEW other, Sound(other),
         \A i \in one, j \in other : i.key # j.key
  PROVE  Sound(one \cup other)
BY DEF Sound

LEMMA TypeProfileIsSound ==
  ASSUME NEW type
  PROVE  Sound(TypeProfile(type))
<1>1. Sound(BreakerProfile)
  BY DEF BreakerProfile, Sound, Plain, Readable, DidoKeys, ReadKinds, Connection,
         Breaker, Firmware, Float, Item
<1>2. CASE type = "AS+FC"
  <2>1. Sound({Breaker, Connection, Firmware})
    BY DEF Sound, Plain, Readable, DidoKeys, ReadKinds, Connection, Breaker, Firmware,
           Float, Item
  <2> QED BY <1>2, <2>1 DEF TypeProfile
<1>3. CASE type \in {"RCA", "RCA Test"}
  <2>1. Sound({Item("rca_handle_state", "input_u16"), Connection, Firmware})
    BY DEF Sound, Plain, Readable, DidoKeys, ReadKinds, Connection, Breaker, Firmware,
           Float, Item
  <2> QED BY <1>3, <2>1 DEF TypeProfile
<1>4. CASE type = "MCB"
  BY <1>1, <1>4 DEF TypeProfile
<1>5. CASE type = "MCB RCM"
  <2> DEFINE more == {Item("rcm_test_status", "input_u16"),
                      Item("rcm_test_timestamp", "input_unix_time"), Float("leakage")}
  <2>1. Sound(more)
    BY DEF Sound, Plain, Readable, DidoKeys, ReadKinds, Connection, Breaker, Firmware,
           Float, Item
  <2>2. \A i \in BreakerProfile, j \in more : i.key # j.key
    BY DEF BreakerProfile, Breaker, Firmware, Float, Item
  <2>3. TypeProfile(type) = BreakerProfile \cup more
    BY <1>5 DEF TypeProfile
  <2> HIDE DEF more
  <2> QED BY <1>1, <2>1, <2>2, <2>3, UnionIsSound
<1>6. CASE type = "RCM"
  <2>1. Sound({Float("leakage"), Float("temperature"), Firmware})
    BY DEF Sound, Plain, Readable, DidoKeys, ReadKinds, Connection, Breaker, Firmware,
           Float, Item
  <2> QED BY <1>6, <2>1 DEF TypeProfile
<1>7. CASE type = "AFDD"
  <2> DEFINE more == {Item("alarm_state", "input_u16")}
  <2>1. Sound(more)
    BY DEF Sound, Plain, Readable, DidoKeys, ReadKinds, Connection, Breaker, Firmware,
           Float, Item
  <2>2. \A i \in BreakerProfile, j \in more : i.key # j.key
    BY DEF BreakerProfile, Breaker, Firmware, Float, Item
  <2>3. TypeProfile(type) = BreakerProfile \cup more
    BY <1>7 DEF TypeProfile
  <2> HIDE DEF more
  <2> QED BY <1>1, <2>1, <2>2, <2>3, UnionIsSound
<1>8. CASE type = "ECPD"
  <2> DEFINE states == {Item("alarm_state", "input_u32"), Connection,
                        Item("last_state_rcd_test", "input_u16"),
                        Item("device_test_status", "input_u16")}
             more == {Item("device_test_timestamp", "input_unix_time"),
                      Item("unlock_status", "input_u16"),
                      Item("alarm_trip_active", "gateway_breaker_state_match"),
                      Item("alarm_rcm_active", "input_u32_mask")}
  <2>1. Sound(states)
    BY DEF Sound, Plain, Readable, DidoKeys, ReadKinds, Connection, Breaker, Firmware,
           Float, Item
  <2>2. Sound(more)
    BY DEF Sound, Plain, Readable, DidoKeys, ReadKinds, Connection, Breaker, Firmware,
           Float, Item
  <2>3. /\ \A i \in BreakerProfile, j \in states : i.key # j.key
        /\ \A i \in BreakerProfile, j \in more : i.key # j.key
    BY DEF BreakerProfile, Breaker, Connection, Firmware, Float, Item
  <2>4. \A i \in states, j \in more : i.key # j.key
    BY DEF Connection, Item
  <2>5. TypeProfile(type) = (BreakerProfile \cup states) \cup more
    BY <1>8 DEF TypeProfile
  <2> HIDE DEF states, more
  <2>6. Sound(BreakerProfile \cup states)
    BY <1>1, <2>1, <2>3, UnionIsSound
  <2> QED BY <2>2, <2>3, <2>4, <2>5, <2>6, UnionIsSound
<1>9. CASE type \notin {"AS+FC", "RCA", "RCA Test", "MCB", "MCB RCM", "RCM", "AFDD", "ECPD"}
  BY <1>9 DEF TypeProfile, Sound
<1> QED BY <1>2, <1>3, <1>4, <1>5, <1>6, <1>7, <1>8, <1>9

(* What each step of get_effective_device_profile keeps: soundness, and    *)
(* every key that was there.                                               *)
Keeps(before, after) ==
  Sound(before) => Sound(after) /\ \A key : Has(before, key) => Has(after, key)

LEMMA BreakerKeeps ==
  ASSUME NEW profile, NEW variant
  PROVE  Keeps(profile, WithBreaker(profile, variant))
<1> DEFINE rest == {i \in profile : i.key = "breaker_state" => i = Breaker}
<1>1. Sound(profile) => Sound(rest)
  BY DEF Sound
<1>2. Plain(Breaker) /\ Breaker.key = "breaker_state"
  BY DEF Breaker, Item, ReadKinds, Plain, Readable, DidoKeys
<1>3. Sound(rest) => Sound(Append1(rest, Breaker)) /\ rest \subseteq Append1(rest, Breaker)
  BY <1>2, AppendIsSound
<1>4. Has(Append1(rest, Breaker), "breaker_state")
  BY <1>2 DEF Append1, Has
<1>5. \A key : Has(profile, key) => key = "breaker_state" \/ Has(rest, key)
  BY DEF Has
<1>6. Sound(profile) => \A key : Has(profile, key) => Has(Append1(rest, Breaker), key)
  BY <1>1, <1>3, <1>4, <1>5, SubsetHas
<1> HIDE DEF rest
<1>7. CASE variant \in GatewayBreakerVariants
  <2>1. WithBreaker(profile, variant) = Append1(rest, Breaker)
    BY <1>7 DEF WithBreaker, rest
  <2> QED BY <1>1, <1>3, <1>6, <2>1 DEF Keeps
<1>8. CASE variant \notin GatewayBreakerVariants
  BY <1>8 DEF WithBreaker, Keeps
<1> QED BY <1>7, <1>8

LEMMA AppendKeeps ==
  ASSUME NEW profile, NEW item, Plain(item)
  PROVE  Keeps(profile, Append1(profile, item))
BY AppendIsSound, SubsetHas DEF Keeps

LEMMA ReplaceKeeps ==
  ASSUME NEW profile, NEW item, Plain(item)
  PROVE  Keeps(profile, Replace(profile, item))
BY ReplaceIsSound DEF Keeps

LEMMA KeepsAreTransitive ==
  ASSUME NEW one, NEW two, NEW three, Keeps(one, two), Keeps(two, three)
  PROVE  Keeps(one, three)
BY DEF Keeps

LEMMA AlarmKeeps ==
  ASSUME NEW profile, NEW variant
  PROVE  Keeps(profile, WithAlarm(profile, variant))
<1>1. Plain(Item("alarm_state", "input_u32"))
  BY DEF Item, ReadKinds, Plain, Readable, DidoKeys
<1>2. Keeps(profile, Replace(profile, Item("alarm_state", "input_u32")))
  BY <1>1, ReplaceKeeps
<1> QED BY <1>2 DEF WithAlarm, Keeps

LEMMA CurrentKeeps ==
  ASSUME NEW profile, NEW variant
  PROVE  Keeps(profile, WithCurrent(profile, variant))
<1>1. Plain(Float("current"))
  BY DEF Float, Item, ReadKinds, Plain, Readable, DidoKeys
<1>2. Keeps(profile, Append1(profile, Float("current")))
  BY <1>1, AppendKeeps
<1> QED BY <1>2 DEF WithCurrent, Keeps

LEMMA CommonKeeps ==
  ASSUME NEW profile, NEW variant
  PROVE  Keeps(profile, WithCommon(profile, variant))
<1> DEFINE hours == Item("operating_hours_overall", "input_float64")
           rssi == Item("radio_signal_strength_rssi", "input_i16")
           one == Replace(profile, hours)
           two == Replace(one, rssi)
           three == Append1(two, Float("temperature"))
           four == Append1(three, Float("average_temperature"))
<1>1. /\ Plain(hours) /\ Plain(rssi)
      /\ Plain(Float("temperature")) /\ Plain(Float("average_temperature"))
  BY DEF Float, Item, ReadKinds, Plain, Readable, DidoKeys
<1> HIDE DEF hours, rssi
<1>2. Keeps(profile, one) /\ Keeps(one, two)
  BY <1>1, ReplaceKeeps
<1>3. Keeps(two, three) /\ Keeps(three, four)
  BY <1>1, AppendKeeps
<1>4. variant \in CommonVariants => WithCommon(profile, variant) = four
  BY DEF WithCommon, hours, rssi
<1> HIDE DEF one, two, three, four
<1>5. Keeps(profile, two) /\ Keeps(two, four)
  BY <1>2, <1>3, KeepsAreTransitive
<1>6. Keeps(profile, four)
  BY <1>5, KeepsAreTransitive
<1>7. CASE variant \in CommonVariants
  BY <1>4, <1>6, <1>7
<1>8. CASE variant \notin CommonVariants
  BY <1>8 DEF WithCommon, Keeps
<1> QED BY <1>7, <1>8

(* What the entities of a device find: every item readable, one for a key, *)
(* and the keys of its type among them.                                    *)
LEMMA EffectiveProfileIsRead ==
  ASSUME NEW info
  PROVE  /\ \A i \in EffectiveProfile(info) : Readable(i)
         /\ \A i, j \in EffectiveProfile(info) : i.key = j.key => i = j
         /\ \A key : Has(TypeProfile(info.type), key) => Has(EffectiveProfile(info), key)
         /\ info.variant = 18 => \A key \in DidoKeys : Has(EffectiveProfile(info), key)
<1> DEFINE v == info.variant
           type == TypeProfile(info.type)
           own == Append1(type, Connection)
           one == WithBreaker(own, v)
           two == WithAlarm(one, v)
           three == WithCommon(two, v)
           four == WithCurrent(three, v)
           dido == {Item("dido_input_1", "input_u16_mask"),
                    Item("dido_input_2", "input_u16_mask"),
                    Item("output_1_forcing", "input_output_forcing"),
                    Item("output_2_forcing", "input_output_forcing")}
           all == WithInputsOutputs(four, v)
<1>1. Plain(Connection)
  BY DEF Connection, Item, Plain, Readable, DidoKeys
<1>2. Sound(type)
  BY TypeProfileIsSound
<1>3. EffectiveProfile(info) = all
  BY DEF EffectiveProfile
<1>4. Keeps(type, own) /\ Keeps(own, one) /\ Keeps(one, two)
  BY <1>1, AppendKeeps, BreakerKeeps, AlarmKeeps
<1>5. Keeps(two, three) /\ Keeps(three, four)
  BY CommonKeeps, CurrentKeeps
<1>6. /\ \A i \in dido : Readable(i) /\ i.key \in DidoKeys
      /\ \A i, j \in dido : i.key = j.key => i = j
      /\ \A key \in DidoKeys : Has(dido, key)
  <2>1. \A i \in dido : Readable(i) /\ i.key \in DidoKeys
    BY DEF Readable, DidoKeys, Item, ReadKinds
  <2>2. \A i, j \in dido : i.key = j.key => i = j
    BY DEF Item
  <2>3. \A key \in DidoKeys : Has(dido, key)
    BY DEF Has, DidoKeys, Item
  <2> QED BY <2>1, <2>2, <2>3
<1>7. all = IF v = 18 THEN four \cup dido ELSE four
  BY DEF WithInputsOutputs
<1> HIDE DEF type, own, one, two, three, four, dido, all
<1>8. Sound(four) /\ \A key : Has(type, key) => Has(four, key)
  BY <1>2, <1>4, <1>5 DEF Keeps
<1>9. CASE v = 18
  <2>1. all = four \cup dido
    BY <1>7, <1>9
  <2>2. \A i \in four : Readable(i) /\ i.key \notin DidoKeys
    BY <1>8 DEF Sound, Plain
  <2>3. \A i, j \in all : i.key = j.key => i = j
    BY <1>6, <1>8, <2>1, <2>2 DEF Sound
  <2>4. \A i \in all : Readable(i)
    BY <1>6, <2>1, <2>2
  <2>5. \A key : Has(four, key) \/ Has(dido, key) => Has(all, key)
    BY <2>1 DEF Has
  <2> QED BY <1>3, <1>6, <1>8, <2>3, <2>4, <2>5 DEF type
<1>10. CASE v # 18
  <2>1. all = four
    BY <1>7, <1>10
  <2> QED BY <1>3, <1>8, <1>10, <2>1 DEF type, Sound, Plain
<1> QED BY <1>9, <1>10

(* Of every item of the profile the value is read.                         *)
LEMMA SensorsAreRead ==
  ASSUME NEW info, NEW key, Has(EffectiveProfile(info), key)
  PROVE  key \in KeysRead(info)
<1>1. PICK i \in EffectiveProfile(info) : i.key = key
  BY DEF Has
<1>2. i.kind \in ReadKinds \/ i = Connection
  BY EffectiveProfileIsRead DEF Readable
<1>3. CASE i.kind \in ReadKinds
  <2>1. i.key \in {j.key : j \in {k \in EffectiveProfile(info) : k.kind \in ReadKinds}}
    BY <1>1, <1>3
  <2> QED BY <1>1, <2>1 DEF KeysRead
<1>4. CASE i = Connection
  BY <1>1, <1>4 DEF KeysRead, Connection, Item
<1> QED BY <1>2, <1>3, <1>4

LEMMA TypeOfVariant ==
  /\ MetadataType(11) = "ECPD"
  /\ MetadataType(7) = "MCB RCM"
  /\ MetadataType(5) = "RCA" /\ MetadataType(6) = "RCA Test"
BY DEF MetadataType, IsValidVariant, TypeOf, DeviceTypes

LEMMA OwnKeys ==
  /\ \A key \in {"breaker_state", "unlock_status", "device_test_status",
                  "device_test_timestamp"} : Has(TypeProfile("ECPD"), key)
  /\ \A key \in {"rcm_test_status", "rcm_test_timestamp"} :
       Has(TypeProfile("MCB RCM"), key)
  /\ \A type \in {"RCA", "RCA Test"} :
       Item("rca_handle_state", "input_u16") \in TypeProfile(type)
<1>1. \A key \in {"breaker_state", "unlock_status", "device_test_status",
                  "device_test_timestamp"} : Has(TypeProfile("ECPD"), key)
  <2>1. {Breaker, Item("unlock_status", "input_u16"), Item("device_test_status", "input_u16"),
         Item("device_test_timestamp", "input_unix_time")} \subseteq TypeProfile("ECPD")
    BY DEF TypeProfile, BreakerProfile
  <2> QED BY <2>1 DEF Has, Breaker, Item
<1>2. \A key \in {"rcm_test_status", "rcm_test_timestamp"} :
        Has(TypeProfile("MCB RCM"), key)
  <2>1. {Item("rcm_test_status", "input_u16"), Item("rcm_test_timestamp", "input_unix_time")}
          \subseteq TypeProfile("MCB RCM")
    BY DEF TypeProfile
  <2> QED BY <2>1 DEF Has, Item
<1>3. \A type \in {"RCA", "RCA Test"} :
        Item("rca_handle_state", "input_u16") \in TypeProfile(type)
  BY DEF TypeProfile
<1> QED BY <1>1, <1>2, <1>3

(* What the five platforms show (their async_setup_entry) is among what    *)
(* _async_read_all_values reads, for every device whose type is the one    *)
(* its variant says.                                                       *)
THEOREM ShownIsRead ==
  ASSUME NEW info, info.type = MetadataType(info.variant)
  PROVE  KeysShown(info) \subseteq KeysRead(info)
<1> DEFINE v == info.variant
<1>1. ConfigurationKeys(v) \subseteq KeysRead(info)
  BY DEF KeysRead
<1>2. SensorKeys(info) \subseteq KeysRead(info)
  <2>1. \A key \in SensorKeys(info) : Has(EffectiveProfile(info), key)
    BY DEF SensorKeys, Has
  <2> QED BY <2>1, SensorsAreRead
<1>3. \A key : Has(TypeProfile(info.type), key) => key \in KeysRead(info)
  BY EffectiveProfileIsRead, SensorsAreRead
<1>4. v = 18 => DidoKeys \subseteq KeysRead(info)
  BY EffectiveProfileIsRead, SensorsAreRead
<1>5. v \in {5, 6} => "rca_handle_state_raw" \in KeysRead(info)
  <2> SUFFICES ASSUME v \in {5, 6} PROVE "rca_handle_state_raw" \in KeysRead(info)
    OBVIOUS
  <2>1. Item("rca_handle_state", "input_u16") \in TypeProfile(info.type)
    BY TypeOfVariant, OwnKeys
  <2>2. TypeProfile(info.type) \cap {Item("rca_handle_state", "input_u16")} # {}
    BY <2>1
  <2> QED BY <2>2 DEF KeysRead
<1>6. v = 11 => {"breaker_state", "unlock_status", "device_test_status",
                 "device_test_timestamp"} \subseteq KeysRead(info)
  BY <1>3, TypeOfVariant, OwnKeys
<1>7. v = 7 => {"rcm_test_status", "rcm_test_timestamp"} \subseteq KeysRead(info)
  BY <1>3, TypeOfVariant, OwnKeys
<1>8. SwitchKeys(v) \subseteq KeysRead(info)
  BY <1>1, <1>4, <1>5, <1>6 DEF SwitchKeys, ConfigurationKeys, RcmAc, RcmRms, DidoKeys
<1>9. NumberKeys(v) \cup SelectKeys(v) \subseteq KeysRead(info)
  BY <1>1 DEF NumberKeys, SelectKeys, ConfigurationKeys, RcmAc, RcmRms
<1>10. ButtonKeys(v) \subseteq KeysRead(info)
  BY <1>6, <1>7 DEF ButtonKeys
<1> QED BY <1>2, <1>8, <1>9, <1>10 DEF KeysShown

(* EveryEntityIsRead: what the entities of a connected device show is what *)
(* its refresh reads, each value in one way.                               *)
THEOREM EntitiesAreRead == Spec => []EveryEntityIsRead
<1>1. OnboardingInv => EveryEntityIsRead
  <2> SUFFICES ASSUME OnboardingInv, entity # None, entity = Cached,
                      published.keys # {"connection_state"}
               PROVE  /\ KeysShown(entity) \subseteq published.keys
                      /\ \A i, j \in EffectiveProfile(entity) : i.key = j.key => i = j
    BY DEF EveryEntityIsRead
  <2>1. published # None /\ published.slot = entity
    BY DEF Cached
  <2>2. published.keys = KeysRead(entity)
    BY <2>1 DEF OnboardingInv, KeysOK
  <2>3. entity.type = MetadataType(entity.variant)
    BY DEF OnboardingInv, SlotsOK, TrueSlots, TrueInfos
  <2> QED BY <2>2, <2>3, ShownIsRead, EffectiveProfileIsRead
<1> QED BY <1>1, Invariance, PTL
===========================================================================
