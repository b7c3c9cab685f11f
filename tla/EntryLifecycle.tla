-------------------------- MODULE EntryLifecycle --------------------------
(***************************************************************************)
(* The life of a Powercenter config entry (__init__.py, coordinator.py):   *)
(* setup, refresh cycles with rediscovery of the end devices, the delayed  *)
(* reload when the topology changed, unload, shutdown.                     *)
(*                                                                         *)
(* Home Assistant (external) runs one setup, unload or reload of an entry  *)
(* at a time, under its setup_lock; it cancels the interval refresh, a     *)
(* background task of the entry, once async_unload_entry has returned.  A  *)
(* refresh asked for by a service call belongs to that call and goes on.   *)
(* So a coordinator may outlive its registration: co keeps them all.       *)
(***************************************************************************)
EXTENDS Naturals

CONSTANTS
  Coordinators,   \* coordinator objects that may exist at a time
  Slots,          \* end-device slots of the gateway
  Nobody,
  MaxReloads      \* topology reloads counted while they wait: a bound

ASSUMPTION LifecycleAssumption ==
  Nobody \notin Coordinators /\ MaxReloads \in Nat \ {0}

VARIABLES
  entry,      \* the state of the entry, or the step of the running operation
  current,    \* the coordinator being set up, registered or shut down
  co,         \* the coordinators
  reloads,    \* the topology reloads that wait for the setup_lock
  entities,   \* the topology the entities were created for
  world,      \* the devices behind the gateway,
  calm        \* which stay and answer from now on

vars == <<entry, current, co, reloads, entities, world, calm>>

(* What _topology_signature tells of a slot.                               *)
Known == {"no", "generic", "typed"}
Topology == [Slots -> Known]
Nothing == [s \in Slots |-> "no"]

Resting == {"loaded", "retrying", "error", "failed_unload"}

(* One coordinator: registered; connected; data and _cached_slaves; the    *)
(* refresh under way and the slaves it has found; _topology_reload_task;   *)
(* whether its setup was cancelled.                                        *)
Fresh == [up |-> FALSE, socket |-> FALSE, data |-> Nothing, cached |-> Nothing,
          refresh |-> "no", by |-> "interval", slaves |-> Nothing,
          timer |-> "no", cancelled |-> FALSE]

Init ==
  /\ entry = "setup" /\ current = Nobody
  /\ co = [k \in Coordinators |-> Fresh]
  /\ reloads = 0 /\ entities = Nothing
  /\ world \in SUBSET Slots
  /\ calm = FALSE
---------------------------------------------------------------------------
(* async_discover_slaves: an unanswered presence register hides a device,  *)
(* an unanswered identification makes it generic; a closed client answers  *)
(* nothing.                                                                *)
Discovered(open) ==
  {t \in Topology :
     \A s \in Slots :
       IF s \in world /\ open THEN calm => t[s] = "typed" ELSE t[s] = "no"}

(* Published slots that were not found are dropped: a mutant of Merge.     *)
MergeNothing(old, found) == found

(* _merge_slave_online_state                                               *)
Merge(old, found) ==
  [s \in Slots |-> IF found[s] = "no" THEN old[s] ELSE found[s]]

(* Only the slots compared: a mutant of Signature.                         *)
SlotsOnly(t) == {s \in Slots : t[s] # "no"}

Signature(t) == t

(* async_shutdown, up to the wait for the I/O lock in async_close.         *)
Stop(c) == [c EXCEPT !.up = FALSE, !.cached = Nothing, !.timer = "no"]

(* A refresh returns, fails or is cancelled.                               *)
EndRefresh(c) ==
  [c EXCEPT !.refresh = "no", !.by = "interval", !.slaves = Nothing]

(* The socket left to the unload path: a mutant of CleanUp.                *)
CleanUpTasks(c) == Stop(c)

(* async_shutdown in the except clauses of async_setup_entry.              *)
CleanUp(c) == [Stop(c) EXCEPT !.socket = FALSE]
---------------------------------------------------------------------------
(* Nothing refers to the coordinator any more.                             *)
Gone(k) ==
  /\ k # current /\ co[k].refresh = "no" /\ co[k].timer = "no"

(* async_setup_entry, and async_connect in async_setup.                    *)
NewCoordinator(k) ==
  /\ entry = "setup" /\ Gone(k)
  /\ entry' = "connecting" /\ current' = k
  /\ co' = [co EXCEPT ![k] = Fresh]
  /\ UNCHANGED <<reloads, entities, world, calm>>

Connect ==
  /\ entry = "connecting"
  /\ entry' = "first_refresh"
  /\ co' = [co EXCEPT ![current].socket = TRUE]
  /\ UNCHANGED <<current, reloads, entities, world, calm>>

(* The initial refresh compares with nothing.                              *)
FirstRefresh ==
  /\ entry = "first_refresh"
  /\ entry' = "forwarding"
  /\ \E t \in Discovered(TRUE) :
       co' = [co EXCEPT ![current].data = t, ![current].cached = t]
  /\ UNCHANGED <<current, reloads, entities, world, calm>>

(* Registered; the platforms create their entities from coordinator.data.  *)
Forward ==
  /\ entry = "forwarding"
  /\ entry' = "loaded"
  /\ co' = [co EXCEPT ![current].up = TRUE]
  /\ entities' = co[current].data
  /\ UNCHANGED <<current, reloads, world, calm>>

(* No connection, or no answer to the first refresh: ConfigEntryNotReady.  *)
(* Another exception: no retry.                                            *)
FailSetup ==
  /\ entry \in {"connecting", "first_refresh", "forwarding"}
  /\ ~calm
  /\ entry' = IF entry = "forwarding" THEN "error" ELSE "retrying"
  /\ co' = [co EXCEPT ![current] = CleanUp(@)]
  /\ current' = Nobody
  /\ UNCHANGED <<reloads, entities, world, calm>>

(* The setup task is cancelled: a CancelledError is no Exception.          *)
CancelSetup ==
  /\ entry \in {"connecting", "first_refresh", "forwarding"}
  /\ ~calm
  /\ entry' = "error"
  /\ co' = [co EXCEPT ![current].cancelled = TRUE]
  /\ current' = Nobody
  /\ UNCHANGED <<reloads, entities, world, calm>>

RetrySetup ==
  /\ entry = "retrying"
  /\ entry' = "setup"
  /\ UNCHANGED <<current, co, reloads, entities, world, calm>>
---------------------------------------------------------------------------
(* hass.config_entries.async_reload, once it has the setup_lock.           *)
BeginReload ==
  /\ entry \in Resting \ {"failed_unload"}
  /\ entry' = IF entry = "loaded" THEN "unloading" ELSE "setup"
  /\ UNCHANGED <<current, co, entities, world, calm>>

UserReload == BeginReload /\ UNCHANGED reloads

TopologyReload == reloads > 0 /\ BeginReload /\ reloads' = reloads - 1

(* An entry that failed to unload, or stopped half-way, refuses a reload.  *)
RefuseReload == entry \in {"failed_unload", "cancelled"} /\ UNCHANGED vars

DropReload ==
  /\ entry = "failed_unload" /\ reloads > 0
  /\ reloads' = reloads - 1
  /\ UNCHANGED <<entry, current, co, entities, world, calm>>

(* async_unload_entry: the entities go, the coordinator is taken from      *)
(* hass.data and stopped.  Were the running reload still its               *)
(* _topology_reload_task, stopping it would cancel the reload.             *)
UnloadPlatforms ==
  /\ entry = "unloading"
  /\ entry' = IF co[current].timer = "reloading" THEN "cancelled" ELSE "closing"
  /\ co' = [co EXCEPT ![current] = Stop(@)]
  /\ entities' = Nothing
  /\ UNCHANGED <<current, reloads, world, calm>>

(* unload_ok is false: everything stays.                                   *)
KeepPlatforms ==
  /\ entry = "unloading" /\ ~calm
  /\ entry' = "failed_unload"
  /\ UNCHANGED <<current, co, reloads, entities, world, calm>>

(* The socket is closed, the interval refresh cancelled; a reload goes on  *)
(* with the setup.                                                         *)
Close ==
  /\ entry = "closing"
  /\ entry' = "setup" /\ current' = Nobody
  /\ co' = [co EXCEPT ![current] =
              IF @.by = "interval" THEN EndRefresh([@ EXCEPT !.socket = FALSE])
              ELSE [@ EXCEPT !.socket = FALSE]]
  /\ UNCHANGED <<reloads, entities, world, calm>>
---------------------------------------------------------------------------
(* DataUpdateCoordinator keeps the refreshes of a coordinator apart.       *)
StartRefresh(k, by) ==
  /\ co[k].up /\ co[k].refresh = "no"
  /\ co' = [co EXCEPT ![k].refresh = "asking", ![k].by = by]
  /\ UNCHANGED <<entry, current, reloads, entities, world, calm>>

(* _schedule_topology_reload                                               *)
Schedule(timer) == IF timer = "no" THEN "sleeping" ELSE timer

(* Rediscovery, once every _DISCOVERY_INTERVAL_SECONDS; its result is      *)
(* compared with _cached_slaves as they are now.                           *)
Rediscover(k) ==
  /\ co[k].refresh = "asking"
  /\ \E t \in Discovered(co[k].socket) :
       LET merged == Merge(co[k].data, t)
       IN co' = [co EXCEPT ![k].refresh = "reading", ![k].slaves = merged,
                   ![k].timer = IF Signature(merged) # Signature(co[k].cached)
                                THEN Schedule(@) ELSE @]
  /\ UNCHANGED <<entry, current, reloads, entities, world, calm>>

(* A stopped coordinator has no next discovery time to wait for.           *)
UseCached(k) ==
  /\ co[k].refresh = "asking" /\ co[k].up
  /\ co' = [co EXCEPT ![k].refresh = "reading", ![k].slaves = co[k].cached]
  /\ UNCHANGED <<entry, current, reloads, entities, world, calm>>

(* The values are read, some request was answered.                         *)
Publish(k) ==
  /\ co[k].refresh = "reading"
  /\ co' = [co EXCEPT ![k] =
              EndRefresh([@ EXCEPT !.data = co[k].slaves, !.cached = co[k].slaves])]
  /\ UNCHANGED <<entry, current, reloads, entities, world, calm>>

(* No answer at all since the refresh began, or an exception: UpdateFailed.*)
FailRefresh(k) ==
  /\ co[k].refresh = "reading" /\ (calm => ~co[k].socket)
  /\ co' = [co EXCEPT ![k] = EndRefresh(@)]
  /\ UNCHANGED <<entry, current, reloads, entities, world, calm>>

(* More than MaxReloads waiting are not counted.                           *)
OneMore == IF reloads < MaxReloads THEN reloads + 1 ELSE reloads

(* The reload runs while it is the coordinator's _topology_reload_task: a  *)
(* mutant of FireReload.                                                   *)
FireKept(k) ==
  /\ co[k].timer = "sleeping"
  /\ co' = [co EXCEPT ![k].timer = "reloading"]
  /\ reloads' = OneMore
  /\ UNCHANGED <<entry, current, entities, world, calm>>

(* _async_reload_after_topology_change after its second: the task is no    *)
(* longer the coordinator's when it waits in async_reload.                 *)
FireReload(k) ==
  /\ co[k].timer = "sleeping"
  /\ co' = [co EXCEPT ![k].timer = "no"]
  /\ reloads' = OneMore
  /\ UNCHANGED <<entry, current, entities, world, calm>>
---------------------------------------------------------------------------
(* Devices are connected and removed.                                      *)
WorldChanges ==
  /\ ~calm
  /\ \E s \in Slots : world' \in {world \cup {s}, world \ {s}}
  /\ UNCHANGED <<entry, current, co, reloads, entities, calm>>

CalmDown ==
  /\ ~calm
  /\ calm' = TRUE
  /\ UNCHANGED <<entry, current, co, reloads, entities, world>>

SetupStep ==
  \/ \E k \in Coordinators : NewCoordinator(k)
  \/ Connect \/ FirstRefresh \/ Forward

Setup == SetupStep \/ FailSetup \/ CancelSetup \/ RetrySetup

UnloadEnds == UnloadPlatforms \/ KeepPlatforms

Reload ==
  \/ UserReload \/ RefuseReload \/ TopologyReload \/ DropReload
  \/ UnloadEnds \/ Close

RefreshEnds(k) == Publish(k) \/ FailRefresh(k)

Refresh(k) ==
  \/ \E by \in {"interval", "service"} : StartRefresh(k, by)
  \/ Rediscover(k) \/ UseCached(k) \/ RefreshEnds(k)

Next ==
  \/ Setup \/ Reload
  \/ \E k \in Coordinators : Refresh(k) \/ FireReload(k)
  \/ WorldChanges \/ CalmDown

Spec == Init /\ [][Next]_vars

(* Every await ends, timers fire, the setup_lock is given in turn, and a   *)
(* refresh comes round when the discovery interval has passed.             *)
Fairness ==
  /\ WF_vars(SetupStep \/ FailSetup) /\ WF_vars(RetrySetup)
  /\ WF_vars(UnloadEnds) /\ WF_vars(Close)
  /\ \A k \in Coordinators :
       /\ WF_vars(StartRefresh(k, "interval"))
       /\ SF_vars(Rediscover(k)) /\ WF_vars(Rediscover(k) \/ UseCached(k))
       /\ WF_vars(RefreshEnds(k))
       /\ WF_vars(FireReload(k))
  /\ SF_vars(TopologyReload) /\ WF_vars(DropReload)

FairSpec == Spec /\ Fairness
---------------------------------------------------------------------------
(* Properties.                                                             *)

CoordinatorType ==
  [up : BOOLEAN, socket : BOOLEAN, data : Topology, cached : Topology,
   refresh : {"no", "asking", "reading"}, by : {"interval", "service"},
   slaves : Topology, timer : {"no", "sleeping"},
   cancelled : BOOLEAN]

TypeOK ==
  /\ entry \in Resting \cup {"setup", "connecting", "first_refresh",
                             "forwarding", "unloading", "closing"}
  /\ current \in Coordinators \cup {Nobody}
  /\ co \in [Coordinators -> CoordinatorType]
  /\ reloads \in 0 .. MaxReloads
  /\ entities \in Topology
  /\ world \in SUBSET Slots
  /\ calm \in BOOLEAN

(* A connection is open only for the coordinator the entry works with: a   *)
(* failed setup, an unload and a reload leave none behind.  A cancelled    *)
(* setup does.                                                             *)
SocketsHaveOwners ==
  \A k \in Coordinators : co[k].socket => k = current \/ co[k].cancelled

(* A device once published stays published for the life of its             *)
(* coordinator, whatever a later discovery misses and however its refresh  *)
(* ends.                                                                   *)
NoTopologyForgotten ==
  [][\A k \in Coordinators, s \in Slots :
       co[k].up /\ co[k].data[s] # "no" /\ co'[k].up => co'[k].data[s] # "no"]_vars

(* A loaded entry whose entities do not fit the topology its coordinator   *)
(* publishes has a reload under way.                                       *)
ChangedTopologyReloads ==
  entry = "loaded" /\ co[current].data # entities =>
    co[current].timer = "sleeping" \/ reloads > 0

(* A reload does not stop half-way: the coordinator it shuts down does not *)
(* cancel it.                                                              *)
ReloadCompletes == entry = "unloading" ~> entry \in Resting

(* When the devices stay and answer, the entities of each of them appear,  *)
(* as their own type, whatever reloads come in between; unless the entry   *)
(* failed to set up for good or to unload.                                 *)
NewDevicesGetEntities ==
  calm ~> \/ entry \in {"error", "failed_unload"}
          \/ \A s \in world : entities[s] = "typed"

(* coordinator.py, _async_reload_after_topology_change: "Defer the reload  *)
(* until the active coordinator refresh has returned."                     *)
DeferredReload ==
  [][\A k \in Coordinators :
       co[k].timer = "sleeping" /\ co'[k].timer = "no" /\ k = current =>
         co[k].refresh = "no"]_vars
=============================================================================
