----------------------------- MODULE Onboarding -----------------------------
(***************************************************************************)
(* From the form of the config flow to the entities: which root a config   *)
(* entry stands for, what it takes the device in a slot for, which values  *)
(* a refresh reads and which the entities show, while answers get lost.    *)
(*                                                                         *)
(* A box is a record of RootProbe with one slot, whose device is a record: *)
(*   true      the variant it is                                           *)
(*   variant   what its Device Variant register holds, None: no such       *)
(*   article   the hints its article number contains                       *)
(* One slot is enough: async_discover_slaves treats each by itself.        *)
(* Sockets, reloads and shutdown are EntryLifecycle.                       *)
(***************************************************************************)
EXTENDS RootProbe

CONSTANTS Boxes, Devices,
          Units          \* the unit ids a user may enter

(* What is taken for granted of the boxes: only a PAC2200 has its order    *)
(* number; a Powercenter has one of the known variants or none, another    *)
(* Siemens device neither these nor, together, the firmware and slot       *)
(* registers; and another Siemens box with a charger's manufacturer text   *)
(* neither has the order number of a charger nor plausible ratings.        *)
ASSUMPTION BoxesAssumption ==
  \A b \in Boxes :
    /\ b.kind \in RootKinds \cup {"other"}
    /\ b.kind # "pac2200" => b.order \notin Pac2200Orders
    /\ b.kind # "powercenter" /\ b.manufacturer = Siemens =>
         b.variant \notin {0, 14, 16} /\ ~(b.firmware /\ b.slots)
    /\ b.kind = "powercenter" => b.variant \in {None, 0, 14, 16}
    /\ b.kind # "versicharge" /\ b.maker = Maker =>
         b.marker # Marker /\ b.ratings \in {0, 1}
    /\ b.kind = "versicharge" => b.version \in Nat /\ b.ratings \in 0 .. 3

(* A readable variant is the true one, and so is the variant of the hints  *)
(* that count in an article number.                                        *)
ASSUMPTION DevicesAssumption ==
  \A d \in Devices :
    /\ IsValidVariant(d.variant) => d.variant = d.true
    /\ \A h \in d.article :
         Longer(h) \/ (\A g \in d.article : ~Longer(g)) => ArticleHints[h] = d.true

(* What coordinator.data may say; None stands for no data at all, and for  *)
(* no root.                                                                *)
Infos == [variant : Variants, type : {TypeOf(v) : v \in Variants} \cup {Generic}]

Publications ==
  [slot : {None} \cup Infos,
   keys : {{}, {"connection_state"}} \cup {KeysRead(info) : info \in Infos},
   energy : {None, 1, 10}, errors : {None, "legacy", "modern"}]

ASSUMPTION NoDataAssumption == None \notin Publications /\ None \notin RootShape

VARIABLES
  box, device,      \* what is out there (external); fixed
  link,             \* of the device in the slot: absent, offline, connected
  calm,             \* from now on nothing is lost and no link changes
  entry,            \* the data of the config entry
  step,             \* "none", "discover", "read", "forward" or "loaded"
  root,             \* _root_gateway
  found,            \* the slot in the slaves of the refresh under way
  published,        \* the slot and the values of coordinator.data
  entity            \* the slot as it was when the platforms were set up

world == <<box, device>>
vars == <<box, device, link, calm, entry, step, root, found, published, entity>>

Links == {"absent", "offline", "connected"}
Steps == {"none", "discover", "read", "forward", "loaded"}
LegacyEntry == [kind |-> None, unit |-> None]

(* What is lost of the answers a step depends on.                          *)
Losses(answers) == IF calm THEN {{}} ELSE SUBSET answers

Init ==
  /\ box \in Boxes
  /\ device \in Devices
  /\ box.kind # "powercenter" => device = CHOOSE d \in Devices : TRUE
  /\ link = IF box.kind = "powercenter" THEN "connected" ELSE "absent"
  /\ calm = FALSE
  /\ entry \in {None} \cup
       {e \in {LegacyEntry} : DetectRoot(box, {}, None, None) # None}
  /\ step = "none" /\ root = None /\ found = None
  /\ published = None /\ entity = None
---------------------------------------------------------------------------
(* async_step_user: what answers makes the entry, or the form is shown     *)
(* again.  The unique id allows one entry for a host and port.             *)
SubmitForm ==
  /\ entry = None
  /\ \E unit \in Units, lost \in Losses(Answers(box)) :
       LET root1 == DetectRoot(box, lost, None, unit)
       IN entry' = IF root1 = None THEN None
                   ELSE [kind |-> root1.kind, unit |-> root1.unit]
  /\ UNCHANGED <<world, link, calm, step, root, found, published, entity>>

(* async_build_gateway_data in the first refresh of a coordinator; without *)
(* a root the setup fails and Home Assistant tries it again.               *)
Detect ==
  /\ entry # None /\ step = "none"
  /\ \E lost \in Losses(Answers(box)) :
       /\ root' = DetectRoot(box, lost, entry.kind, entry.unit)
       /\ step' = IF root' = None THEN "none"
                  ELSE IF root'.kind = "powercenter" THEN "discover" ELSE "read"
  /\ UNCHANGED <<world, link, calm, entry, found, published, entity>>
---------------------------------------------------------------------------
OldMap == root.type = "powercenter_1000"

(* _gateway_connection_address: the slot registers of the map of the root. *)
ConnectionState(lost) ==
  IF "connection" \in lost \/ (OldMap /\ ~box.slots) THEN None
  ELSE IF link = "connected" THEN 3 ELSE 2

(* _cached_slaves                                                          *)
Cached == IF published = None THEN None ELSE published.slot

(* The presence indicator of async_discover_slaves.                        *)
Present(lost) ==
  IF OldMap THEN "pairing" \notin lost /\ box.slots /\ link # "absent"
  ELSE ConnectionState(lost) = 3

(* A register of the device, behind its radio link.                        *)
Ask(lost, request, value) ==
  IF request \in lost \/ link # "connected" THEN None ELSE value

(* _resolve_variant_with_fallback                                          *)
Resolve(variant, article, connected) ==
  IF IsValidVariant(variant) THEN variant
  ELSE IF IsValidVariant(VariantFromArticle(article)) THEN VariantFromArticle(article)
  ELSE IF variant = 0 \/ connected THEN 0 ELSE None

(* One pass of async_discover_slaves.                                      *)
Discovered(lost) ==
  LET variant == Resolve(Ask(lost, "variant", device.variant),
                         Ask(lost, "article", device.article),
                         ConnectionState(lost) = 3)
  IN IF Present(lost) /\ variant # None
     THEN [variant |-> variant, type |-> MetadataType(variant)]
     ELSE None

(* Of a slot that was not found the cached one is kept.                    *)
Discover ==
  /\ step = "discover"
  /\ \E lost \in Losses({"connection", "pairing", "variant", "article"}) :
       found' = IF Discovered(lost) = None THEN Cached ELSE Discovered(lost)
  /\ step' = "read"
  /\ UNCHANGED <<world, link, calm, entry, root, published, entity>>

(* _async_read_all_values: a slot that is not connected is not asked.      *)
SlotKeys(lost) ==
  IF found = None THEN {}
  ELSE IF ConnectionState(lost) \notin {None, 3} THEN {"connection_state"}
  ELSE KeysRead(found)

(* decode_dynamic_values: the unit of a count, in 0.1 Wh, and the table of *)
(* the error codes.                                                        *)
EnergyUnit(profile) == IF profile = "legacy" THEN 1 ELSE 10
ErrorTable(states) == IF states = "legacy" THEN "legacy" ELSE "modern"

(* The rest of _async_update_data, when some register answers.  A charger  *)
(* answers at its own unit id only.                                        *)
Read ==
  /\ step = "read"
  /\ root.kind = "versicharge" => root.unit \in box.units
  /\ \E lost \in Losses({"connection"}) :
       published' = [slot |-> found, keys |-> SlotKeys(lost),
         energy |-> IF root.kind = "versicharge" THEN EnergyUnit(root.profile) ELSE None,
         errors |-> IF root.kind = "versicharge" THEN ErrorTable(root.states) ELSE None]
  /\ step' = IF published = None THEN "forward" ELSE "loaded"
  /\ found' = None
  /\ UNCHANGED <<world, link, calm, entry, root, entity>>

(* The root is remembered before a refresh has succeeded: a mutant of      *)
(* FailRead.                                                               *)
FailReadRemembered ==
  /\ step = "read" /\ ~calm
  /\ step' = IF published = None THEN "none" ELSE "loaded"
  /\ found' = None
  /\ UNCHANGED <<world, link, calm, entry, root, published, entity>>

(* Nothing answered.  The first refresh takes the setup with it.           *)
FailRead ==
  /\ step = "read"
  /\ ~calm \/ (root.kind = "versicharge" /\ root.unit \notin box.units)
  /\ step' = IF published = None THEN "none" ELSE "loaded"
  /\ root' = IF published = None THEN None ELSE root
  /\ found' = None
  /\ UNCHANGED <<world, link, calm, entry, published, entity>>

(* async_forward_entry_setups: entities for what was published.            *)
Forward ==
  /\ step = "forward"
  /\ step' = "loaded" /\ entity' = Cached
  /\ UNCHANGED <<world, link, calm, entry, root, found, published>>

(* A later refresh, with a discovery when one is due.                      *)
Refresh ==
  /\ step = "loaded"
  /\ \/ root.kind = "powercenter" /\ step' = "discover" /\ found' = found
     \/ step' = "read" /\ found' = Cached
  /\ UNCHANGED <<world, link, calm, entry, root, published, entity>>

(* Home Assistant restarts or reloads the entry (external).                *)
Reload ==
  /\ step = "loaded" /\ ~calm
  /\ step' = "none" /\ root' = None
  /\ found' = None /\ published' = None /\ entity' = None
  /\ UNCHANGED <<world, link, calm, entry>>

(* The radio link of the device (external).                                *)
LinkChanges ==
  /\ box.kind = "powercenter" /\ ~calm
  /\ link' \in Links \ {link}
  /\ UNCHANGED <<world, calm, entry, step, root, found, published, entity>>

CalmDown ==
  /\ ~calm
  /\ calm' = TRUE
  /\ UNCHANGED <<world, link, entry, step, root, found, published, entity>>

Next ==
  \/ SubmitForm \/ Detect \/ Discover \/ Read \/ FailRead \/ Forward
  \/ Refresh \/ Reload \/ LinkChanges \/ CalmDown

Spec == Init /\ [][Next]_vars

(* Home Assistant retries a setup and awaits each of its steps.            *)
FairSpec ==
  /\ Spec
  /\ WF_vars(Detect) /\ WF_vars(Discover) /\ WF_vars(Read) /\ WF_vars(Forward)
---------------------------------------------------------------------------
(* The state has the shape the code gives it: a root exists exactly while  *)
(* a setup is past its detection, values and entities only after it.       *)
TypeOK ==
  /\ link \in Links /\ calm \in BOOLEAN /\ step \in Steps
  /\ entry # None => entry.unit \in {None} \cup 1 .. 255
  /\ (root = None) = (step = "none")
  /\ found \in {None} \cup Infos /\ entity \in {None} \cup Infos
  /\ Cached \in {None} \cup Infos
  /\ step \in {"forward", "loaded"} => published # None

(* Whatever answers are lost, an entry never stands for another kind of    *)
(* device than the one at its address, and neither does a root: a          *)
(* Powercenter without a readable variant is told from any other Siemens   *)
(* device by its slot registers (probe_powercenter), and a stored kind is  *)
(* probed again.                                                           *)
RootIsTheDevice ==
  /\ entry # None => entry.kind \in {None, box.kind}
  /\ root # None => root.kind = box.kind

(* Energy is scaled and an error code is read by the rules of the          *)
(* charger's firmware, unless the firmware was not readable and modern     *)
(* rules are assumed: the two rules changed at different versions.         *)
KnownProfileDecodesRight ==
  (published # None /\ root # None /\ root.kind = "versicharge") =>
    /\ root.profile # "modern_assumed" =>
         published.energy = EnergyUnit(RegisterProfile(box.version, FALSE))
    /\ root.states # "modern_assumed" =>
         (published.errors = "legacy") = (box.version < ModernStates)

(* A device is taken for what it is or for a generic one, never for        *)
(* another type, whichever of its registers answered: in the data and in   *)
(* the entities.                                                           *)
SlotTypesAreTrue ==
  \A slot \in {Cached, entity} \ {None} :
    slot.type \in {TypeOf(device.true), Generic}

(* The entities show only values that a refresh of a connected device      *)
(* reads, each read in one way: the platforms, the profile and the         *)
(* coordinator choose by the variant each for itself.                      *)
EveryEntityIsRead ==
  (entity # None /\ entity = Cached
     /\ published.keys # {"connection_state"}) =>
    /\ KeysShown(entity) \subseteq published.keys
    /\ \A i, j \in EffectiveProfile(entity) : i.key = j.key => i = j

(* An entry that a lossy start has created comes up once the connection is *)
(* good, whichever unit id was found and stored: setup keeps being retried.*)
EntryComesUp == (entry # None /\ calm) ~> (step = "loaded")
============================================================================
