----------------------- MODULE EntryLifecycleProofs -----------------------
(***************************************************************************)
(* The life of a config entry for any number of coordinators and slots.    *)
(***************************************************************************)
EXTENDS EntryLifecycle, TLAPS

(* The strengthening, part by part.  An entry works with one coordinator,  *)
(* from its creation to its close.                                         *)
Owned == {"connecting", "first_refresh", "forwarding", "loaded", "unloading",
          "closing", "failed_unload"}

Owner == current \in Coordinators <=> entry \in Owned

(* One in setup has no refresh and no timer yet.                           *)
Unborn(c) == ~c.up /\ c.refresh = "no" /\ c.timer = "no"

SetupIsQuiet ==
  entry \in {"connecting", "first_refresh", "forwarding"} => Unborn(co[current])

(* Only the registered coordinator is up.                                  *)
UpIsLoaded ==
  \A k \in Coordinators :
    co[k].up => k = current /\ entry \in {"loaded", "unloading", "failed_unload"}

LoadedIsUp == entry = "loaded" => co[current].up

(* While it is up its cache is what it has published, and what a refresh   *)
(* has found so far lacks nothing of that.                                 *)
CacheIsData ==
  \A k \in Coordinators :
    co[k].up \/ (k = current /\ entry = "forwarding") => co[k].cached = co[k].data

ReadingKeeps ==
  \A k \in Coordinators :
    co[k].up /\ co[k].refresh = "reading" =>
      \A s \in Slots : co[k].data[s] # "no" => co[k].slaves[s] # "no"

(* What is published, or about to be, fits the entities, or a reload is    *)
(* under way.                                                              *)
Pending == co[current].timer = "sleeping" \/ reloads > 0

FitsOrReloads ==
  entry = "loaded" =>
    \/ Pending
    \/ /\ co[current].data = entities
       /\ co[current].refresh = "reading" => co[current].slaves = entities

LInv ==
  /\ TypeOK /\ Owner /\ SetupIsQuiet /\ UpIsLoaded /\ LoadedIsUp /\ CacheIsData
  /\ ReadingKeeps /\ SocketsHaveOwners /\ FitsOrReloads
---------------------------------------------------------------------------
(* Discovery and the merge.                                                *)
LEMMA NothingType == Nothing \in Topology /\ Fresh \in CoordinatorType
BY DEF Nothing, Topology, Known, Fresh, CoordinatorType

LEMMA MergeType ==
  ASSUME NEW old \in Topology, NEW found \in Topology
  PROVE  /\ Merge(old, found) \in Topology
         /\ \A s \in Slots : old[s] # "no" => Merge(old, found)[s] # "no"
BY DEF Merge, Topology

LEMMA DiscoveredType == ASSUME NEW open PROVE Discovered(open) \subseteq Topology
BY DEF Discovered

(* What each step makes of the one coordinator it is about.                *)
Records == [Coordinators -> CoordinatorType]

Changed(k) ==
  /\ co' \in Records
  /\ \A j \in Coordinators : j # k => co'[j] = co[j]

LEMMA NewRecord ==
  ASSUME co \in Records, NEW k \in Coordinators, NEW r \in CoordinatorType,
         co' = [co EXCEPT ![k] = r]
  PROVE  Changed(k) /\ co'[k] = r
BY DEF Records, Changed

LEMMA StopEffect ==
  ASSUME NEW c \in CoordinatorType
  PROVE  /\ Stop(c) \in CoordinatorType
         /\ ~Stop(c).up /\ Stop(c).timer = "no" /\ Stop(c).cached = Nothing
         /\ Stop(c).socket = c.socket /\ Stop(c).cancelled = c.cancelled
         /\ Stop(c).refresh = c.refresh
BY NothingType DEF Stop, CoordinatorType

LEMMA EndRefreshEffect ==
  ASSUME NEW c \in CoordinatorType
  PROVE  /\ EndRefresh(c) \in CoordinatorType
         /\ EndRefresh(c).refresh = "no"
         /\ EndRefresh(c).up = c.up /\ EndRefresh(c).timer = c.timer
         /\ EndRefresh(c).socket = c.socket /\ EndRefresh(c).cancelled = c.cancelled
         /\ EndRefresh(c).data = c.data /\ EndRefresh(c).cached = c.cached
BY NothingType DEF EndRefresh, CoordinatorType

LEMMA NewEffect ==
  ASSUME co \in Records, NEW k \in Coordinators, NewCoordinator(k)
  PROVE  Changed(k) /\ co'[k] = Fresh
BY NothingType, NewRecord DEF NewCoordinator

LEMMA ConnectEffect ==
  ASSUME co \in Records, NEW c \in CoordinatorType, current \in Coordinators,
         c = co[current], Connect
  PROVE  /\ Changed(current)
         /\ co'[current] = [c EXCEPT !.socket = TRUE]
<1>1. co' = [co EXCEPT ![current] = [c EXCEPT !.socket = TRUE]]
  BY DEF Connect, Records
<1>2. [c EXCEPT !.socket = TRUE] \in CoordinatorType
  BY DEF CoordinatorType
<1> QED BY <1>1, <1>2, NewRecord

LEMMA FirstEffect ==
  ASSUME co \in Records, NEW c \in CoordinatorType, current \in Coordinators,
         c = co[current], FirstRefresh
  PROVE  /\ Changed(current)
         /\ \E t \in Topology : co'[current] = [c EXCEPT !.data = t, !.cached = t]
<1>1. PICK t \in Topology :
        co' = [co EXCEPT ![current] = [c EXCEPT !.data = t, !.cached = t]]
  BY DiscoveredType DEF FirstRefresh, Records
<1>2. [c EXCEPT !.data = t, !.cached = t] \in CoordinatorType
  BY DEF CoordinatorType
<1> QED BY <1>1, <1>2, NewRecord

LEMMA ForwardEffect ==
  ASSUME co \in Records, NEW c \in CoordinatorType, current \in Coordinators,
         c = co[current], Forward
  PROVE  /\ Changed(current)
         /\ co'[current] = [c EXCEPT !.up = TRUE]
<1>1. co' = [co EXCEPT ![current] = [c EXCEPT !.up = TRUE]]
  BY DEF Forward, Records
<1>2. [c EXCEPT !.up = TRUE] \in CoordinatorType
  BY DEF CoordinatorType
<1> QED BY <1>1, <1>2, NewRecord

LEMMA FailEffect ==
  ASSUME co \in Records, NEW c \in CoordinatorType, current \in Coordinators,
         c = co[current], FailSetup
  PROVE  /\ Changed(current)
         /\ co'[current] = [Stop(c) EXCEPT !.socket = FALSE]
<1>1. co' = [co EXCEPT ![current] = [Stop(c) EXCEPT !.socket = FALSE]]
  BY DEF FailSetup, CleanUp
<1>2. [Stop(c) EXCEPT !.socket = FALSE] \in CoordinatorType
  BY StopEffect DEF CoordinatorType
<1> QED BY <1>1, <1>2, NewRecord

LEMMA CancelEffect ==
  ASSUME co \in Records, NEW c \in CoordinatorType, current \in Coordinators,
         c = co[current], CancelSetup
  PROVE  /\ Changed(current)
         /\ co'[current] = [c EXCEPT !.cancelled = TRUE]
<1>1. co' = [co EXCEPT ![current] = [c EXCEPT !.cancelled = TRUE]]
  BY DEF CancelSetup, Records
<1>2. [c EXCEPT !.cancelled = TRUE] \in CoordinatorType
  BY DEF CoordinatorType
<1> QED BY <1>1, <1>2, NewRecord

LEMMA UnloadEffect ==
  ASSUME co \in Records, NEW c \in CoordinatorType, current \in Coordinators,
         c = co[current], UnloadPlatforms
  PROVE  Changed(current) /\ co'[current] = Stop(c)
BY StopEffect, NewRecord DEF UnloadPlatforms

LEMMA CloseEffect ==
  ASSUME co \in Records, NEW c \in CoordinatorType, current \in Coordinators,
         c = co[current], Close
  PROVE  /\ Changed(current)
         /\ \E d \in CoordinatorType :
              /\ d = [c EXCEPT !.socket = FALSE]
              /\ co'[current] \in {d, EndRefresh(d)}
<1> DEFINE d == [c EXCEPT !.socket = FALSE]
<1>1. d \in CoordinatorType
  BY DEF CoordinatorType
<1>2. PICK r \in {d, EndRefresh(d)} : co' = [co EXCEPT ![current] = r]
  BY DEF Close
<1>3. r \in CoordinatorType
  BY <1>1, EndRefreshEffect
<1> HIDE DEF d
<1>4. Changed(current) /\ co'[current] = r
  BY <1>2, <1>3, NewRecord
<1> QED BY <1>1, <1>4 DEF d

LEMMA StartEffect ==
  ASSUME co \in Records, NEW k \in Coordinators, NEW c \in CoordinatorType,
         c = co[k], NEW by \in {"interval", "service"}, StartRefresh(k, by)
  PROVE  Changed(k) /\ co'[k] = [c EXCEPT !.refresh = "asking", !.by = by]
<1>1. co' = [co EXCEPT ![k] = [c EXCEPT !.refresh = "asking", !.by = by]]
  BY DEF StartRefresh, Records
<1>2. [c EXCEPT !.refresh = "asking", !.by = by] \in CoordinatorType
  BY DEF CoordinatorType
<1> QED BY <1>1, <1>2, NewRecord

LEMMA RediscoverEffect ==
  ASSUME co \in Records, NEW k \in Coordinators, NEW c \in CoordinatorType,
         c = co[k], Rediscover(k)
  PROVE  /\ Changed(k)
         /\ \E merged \in Topology, timer \in {"no", "sleeping"} :
              /\ \A s \in Slots : c.data[s] # "no" => merged[s] # "no"
              /\ timer = "no" => merged = c.cached
              /\ c.timer = "sleeping" => timer = "sleeping"
              /\ co'[k] = [c EXCEPT !.refresh = "reading", !.slaves = merged,
                                    !.timer = timer]
<1>1. PICK t \in Topology :
        co' = [co EXCEPT ![k].refresh = "reading", ![k].slaves = Merge(c.data, t),
                 ![k].timer = IF Merge(c.data, t) # c.cached
                              THEN Schedule(c.timer) ELSE c.timer]
  BY DiscoveredType DEF Rediscover, Signature
<1> DEFINE merged == Merge(c.data, t)
           timer == IF merged # c.cached THEN Schedule(c.timer) ELSE c.timer
           r == [c EXCEPT !.refresh = "reading", !.slaves = merged, !.timer = timer]
<1>2. c.data \in Topology /\ c.timer \in {"no", "sleeping"}
  BY DEF CoordinatorType
<1>3. merged \in Topology /\ \A s \in Slots : c.data[s] # "no" => merged[s] # "no"
  BY <1>2, MergeType
<1>4. /\ timer \in {"no", "sleeping"} /\ (timer = "no" => merged = c.cached)
      /\ c.timer = "sleeping" => timer = "sleeping"
  BY <1>2 DEF Schedule
<1>5. co' = [co EXCEPT ![k].refresh = "reading", ![k].slaves = merged,
               ![k].timer = timer]
  BY <1>1
<1> HIDE DEF merged, timer
<1>6. r \in CoordinatorType
  BY <1>3, <1>4 DEF CoordinatorType
<1>7. co' = [co EXCEPT ![k] = r]
  BY <1>5 DEF Records
<1> HIDE DEF r
<1>8. Changed(k) /\ co'[k] = r
  BY <1>6, <1>7, NewRecord
<1> QED BY <1>3, <1>4, <1>8 DEF r

LEMMA CachedEffect ==
  ASSUME co \in Records, NEW k \in Coordinators, NEW c \in CoordinatorType,
         c = co[k], UseCached(k)
  PROVE  Changed(k) /\ co'[k] = [c EXCEPT !.refresh = "reading", !.slaves = c.cached]
<1>1. co' = [co EXCEPT ![k] = [c EXCEPT !.refresh = "reading", !.slaves = c.cached]]
  BY DEF UseCached, Records
<1>2. [c EXCEPT !.refresh = "reading", !.slaves = c.cached] \in CoordinatorType
  BY DEF CoordinatorType
<1> QED BY <1>1, <1>2, NewRecord

LEMMA PublishEffect ==
  ASSUME co \in Records, NEW k \in Coordinators, NEW c \in CoordinatorType,
         c = co[k], Publish(k)
  PROVE  /\ Changed(k)
         /\ \E d \in CoordinatorType :
              /\ d = [c EXCEPT !.data = c.slaves, !.cached = c.slaves]
              /\ co'[k] = EndRefresh(d)
<1> DEFINE d == [c EXCEPT !.data = c.slaves, !.cached = c.slaves]
<1>1. d \in CoordinatorType
  BY DEF CoordinatorType
<1>2. co' = [co EXCEPT ![k] = EndRefresh(d)]
  BY DEF Publish
<1>3. EndRefresh(d) \in CoordinatorType
  BY <1>1, EndRefreshEffect
<1> HIDE DEF d
<1>4. Changed(k) /\ co'[k] = EndRefresh(d)
  BY <1>2, <1>3, NewRecord
<1> QED BY <1>1, <1>4 DEF d

LEMMA FailRefreshEffect ==
  ASSUME co \in Records, NEW k \in Coordinators, NEW c \in CoordinatorType,
         c = co[k], FailRefresh(k)
  PROVE  Changed(k) /\ co'[k] = EndRefresh(c)
BY EndRefreshEffect, NewRecord DEF FailRefresh

LEMMA FireEffect ==
  ASSUME co \in Records, NEW k \in Coordinators, NEW c \in CoordinatorType,
         c = co[k], FireReload(k)
  PROVE  /\ Changed(k)
         /\ co'[k] = [c EXCEPT !.timer = "no"]
<1>1. co' = [co EXCEPT ![k] = [c EXCEPT !.timer = "no"]]
  BY DEF FireReload, Records
<1>2. [c EXCEPT !.timer = "no"] \in CoordinatorType
  BY DEF CoordinatorType
<1> QED BY <1>1, <1>2, NewRecord
---------------------------------------------------------------------------
(* The invariant, one action at a time.                                    *)
LEMMA InvariantInit == Init => LInv
<1> SUFFICES ASSUME Init PROVE LInv
  OBVIOUS
<1>1. TypeOK
  <2>1. reloads \in 0 .. MaxReloads
    BY LifecycleAssumption DEF Init
  <2>2. co \in [Coordinators -> CoordinatorType] /\ entities \in Topology
    BY NothingType DEF Init
  <2> QED BY <2>1, <2>2 DEF Init, TypeOK
<1>2. \A k \in Coordinators : ~co[k].up /\ ~co[k].socket
  BY DEF Init, Fresh
<1> QED
  BY <1>1, <1>2, LifecycleAssumption
     DEF Init, LInv, Owner, Owned, SetupIsQuiet, UpIsLoaded, LoadedIsUp,
         CacheIsData, ReadingKeeps, SocketsHaveOwners, FitsOrReloads

LEMMA Basics ==
  ASSUME LInv
  PROVE  /\ co \in Records
         /\ entry \in Owned => current \in Coordinators
         /\ entry \notin Owned => current = Nobody
         /\ \A k \in Coordinators : co[k] \in CoordinatorType
BY LifecycleAssumption DEF LInv, TypeOK, Owner, Records

LEMMA NewStep ==
  ASSUME LInv, NEW k \in Coordinators, NewCoordinator(k)
  PROVE  LInv'
<1>1. Changed(k) /\ co'[k] = Fresh
  BY Basics, NewEffect
<1>2. /\ entry = "setup" /\ entry' = "connecting" /\ current = Nobody /\ current' = k
      /\ UNCHANGED <<reloads, entities, world, calm>>
  BY Basics DEF NewCoordinator, Owned
<1> QED
  BY <1>1, <1>2, LifecycleAssumption
     DEF LInv, TypeOK, Owner, Owned, SetupIsQuiet, UpIsLoaded, LoadedIsUp, CacheIsData,
         ReadingKeeps, SocketsHaveOwners, FitsOrReloads, Changed, Records, Fresh, Unborn

LEMMA SetupStepStep ==
  ASSUME LInv, Connect \/ FirstRefresh
  PROVE  LInv'
<1> DEFINE c == co[current]
<1>1. /\ current \in Coordinators /\ c \in CoordinatorType /\ co \in Records
      /\ entry \in {"connecting", "first_refresh"}
      /\ entry' \in {"first_refresh", "forwarding"}
      /\ UNCHANGED <<current, reloads, entities, world, calm>>
  BY Basics DEF Connect, FirstRefresh, Owned
<1>2. Unborn(c)
  BY <1>1 DEF LInv, SetupIsQuiet
<1>3. CASE Connect
  <2>1. Changed(current) /\ co'[current] = [c EXCEPT !.socket = TRUE]
    BY <1>1, <1>3, ConnectEffect
  <2>2. entry' = "first_refresh"
    BY <1>3 DEF Connect
  <2> QED
    BY <1>1, <1>2, <2>1, <2>2
       DEF LInv, TypeOK, Owner, Owned, SetupIsQuiet, UpIsLoaded, LoadedIsUp, CacheIsData,
           ReadingKeeps, SocketsHaveOwners, FitsOrReloads, Changed, Records, Unborn,
           CoordinatorType
<1>4. CASE FirstRefresh
  <2>1. Changed(current)
        /\ \E t \in Topology : co'[current] = [c EXCEPT !.data = t, !.cached = t]
    BY <1>1, <1>4, FirstEffect
  <2>2. /\ co'[current].data = co'[current].cached
        /\ co'[current].up = c.up /\ co'[current].socket = c.socket
        /\ co'[current].refresh = c.refresh /\ co'[current].timer = c.timer
        /\ co'[current].cancelled = c.cancelled
    BY <1>1, <2>1 DEF CoordinatorType
  <2>3. TypeOK'
    BY <1>1, <2>1 DEF LInv, TypeOK, Changed, Records
  <2> QED
    BY <1>1, <1>2, <2>1, <2>2, <2>3
       DEF LInv, Owner, Owned, SetupIsQuiet, UpIsLoaded, LoadedIsUp, CacheIsData,
           ReadingKeeps, SocketsHaveOwners, FitsOrReloads, Changed, Unborn
<1> QED BY <1>3, <1>4

LEMMA ForwardStep ==
  ASSUME LInv, Forward
  PROVE  LInv'
<1> DEFINE c == co[current]
<1>1. /\ current \in Coordinators /\ c \in CoordinatorType /\ co \in Records
      /\ entry = "forwarding" /\ entry' = "loaded" /\ entities' = c.data
      /\ UNCHANGED <<current, reloads, world, calm>>
  BY Basics DEF Forward, Owned
<1>2. Unborn(c) /\ c.cached = c.data
  BY <1>1 DEF LInv, SetupIsQuiet, CacheIsData
<1>3. Changed(current) /\ co'[current] = [c EXCEPT !.up = TRUE]
  BY <1>1, ForwardEffect
<1>4. /\ co'[current].data = c.data /\ co'[current].cached = c.cached
      /\ co'[current].socket = c.socket /\ co'[current].cancelled = c.cancelled
      /\ co'[current].refresh = c.refresh /\ co'[current].up
  BY <1>1, <1>3 DEF CoordinatorType
<1>5. TypeOK'
  BY <1>1, <1>3 DEF LInv, TypeOK, Changed, Records, Resting, CoordinatorType
<1> QED
  BY <1>1, <1>2, <1>3, <1>4, <1>5
     DEF LInv, Owner, Owned, SetupIsQuiet, UpIsLoaded, LoadedIsUp,
         CacheIsData, ReadingKeeps, SocketsHaveOwners, FitsOrReloads, Changed, Unborn

LEMMA SetupEndsStep ==
  ASSUME LInv, FailSetup \/ CancelSetup
  PROVE  LInv'
<1> DEFINE c == co[current]
<1>1. /\ current \in Coordinators /\ c \in CoordinatorType /\ co \in Records
      /\ entry \in {"connecting", "first_refresh", "forwarding"}
      /\ entry' \in {"error", "retrying"} /\ current' = Nobody
      /\ UNCHANGED <<reloads, entities, world, calm>>
  BY Basics DEF FailSetup, CancelSetup, Owned
<1>2. Unborn(c)
  BY <1>1 DEF LInv, SetupIsQuiet
<1>3. /\ Changed(current)
      /\ \/ co'[current] = [Stop(c) EXCEPT !.socket = FALSE]
         \/ co'[current] = [c EXCEPT !.cancelled = TRUE]
  BY <1>1, FailEffect, CancelEffect
<1>4. /\ ~co'[current].up /\ co'[current].refresh = "no"
      /\ co'[current].socket => co'[current].cancelled
  <2>1. Stop(c) \in CoordinatorType /\ ~Stop(c).up /\ Stop(c).refresh = c.refresh
    BY <1>1, StopEffect
  <2> QED BY <1>1, <1>2, <1>3, <2>1 DEF CoordinatorType, Unborn
<1>5. TypeOK'
  BY <1>1, <1>3 DEF LInv, TypeOK, Changed, Records, Resting
<1> QED
  BY <1>1, <1>3, <1>4, <1>5, LifecycleAssumption
     DEF LInv, Owner, Owned, SetupIsQuiet, UpIsLoaded, LoadedIsUp,
         CacheIsData, ReadingKeeps, SocketsHaveOwners, FitsOrReloads, Changed

(* Steps that move the entry and leave its coordinators alone.             *)
Moves == {<<"retrying", "setup">>, <<"error", "setup">>, <<"loaded", "unloading">>,
          <<"unloading", "failed_unload">>}

LEMMA MoveKeeps ==
  ASSUME LInv, UNCHANGED <<current, co, entities>>,
         reloads' \in 0 .. MaxReloads, world' \in SUBSET Slots, calm' \in BOOLEAN,
         \/ entry' = entry /\ (entry = "loaded" => reloads' = reloads)
         \/ <<entry, entry'>> \in Moves
  PROVE  LInv'
<1>1. /\ entry' = "loaded" => entry = "loaded" /\ reloads' = reloads
      /\ entry' = "forwarding" <=> entry = "forwarding"
      /\ entry' \in {"connecting", "first_refresh", "forwarding"} =>
           entry \in {"connecting", "first_refresh", "forwarding"}
      /\ entry \in {"loaded", "unloading", "failed_unload"} =>
           entry' \in {"loaded", "unloading", "failed_unload"}
      /\ entry' \in Owned <=> entry \in Owned
  BY DEF Moves, Owned
<1>2. TypeOK'
  BY DEF LInv, TypeOK, Moves, Resting
<1> QED
  BY <1>1, <1>2
     DEF LInv, Owner, SetupIsQuiet, UpIsLoaded, LoadedIsUp,
         CacheIsData, ReadingKeeps, SocketsHaveOwners, FitsOrReloads, Pending

LEMMA EntryStep ==
  ASSUME LInv, \/ RetrySetup \/ UserReload \/ RefuseReload \/ TopologyReload
               \/ DropReload \/ KeepPlatforms \/ WorldChanges \/ CalmDown
               \/ UNCHANGED vars
  PROVE  LInv'
<1>1. /\ reloads \in 0 .. MaxReloads /\ world \in SUBSET Slots /\ calm \in BOOLEAN
      /\ current \in Coordinators <=> entry \in Owned
  BY DEF LInv, TypeOK, Owner
<1>2. reloads > 0 => reloads - 1 \in 0 .. MaxReloads
  BY <1>1, LifecycleAssumption
<1>3. CASE UserReload \/ TopologyReload
  <2>1. <<entry, entry'>> \in Moves
    BY <1>3 DEF UserReload, TopologyReload, BeginReload, Resting, Moves
  <2>2. /\ UNCHANGED <<current, co, entities, world, calm>>
        /\ reloads' \in 0 .. MaxReloads
    BY <1>1, <1>2, <1>3 DEF UserReload, TopologyReload, BeginReload
  <2> QED BY <1>1, <2>1, <2>2, MoveKeeps
<1>4. CASE DropReload
  <2>1. /\ UNCHANGED <<entry, current, co, entities, world, calm>>
        /\ entry = "failed_unload" /\ reloads' \in 0 .. MaxReloads
    BY <1>2, <1>4 DEF DropReload
  <2> QED BY <1>1, <2>1, MoveKeeps
<1>5. CASE RetrySetup \/ KeepPlatforms
  <2>1. /\ <<entry, entry'>> \in Moves
        /\ UNCHANGED <<current, co, reloads, entities, world, calm>>
    BY <1>5 DEF RetrySetup, KeepPlatforms, Moves
  <2> QED BY <1>1, <2>1, MoveKeeps
<1>6. CASE WorldChanges \/ CalmDown \/ RefuseReload \/ UNCHANGED vars
  <2>1. /\ UNCHANGED <<entry, current, co, reloads, entities>>
        /\ world' \in SUBSET Slots /\ calm' \in BOOLEAN
    BY <1>1, <1>6 DEF WorldChanges, CalmDown, RefuseReload, vars
  <2> QED BY <1>1, <2>1, MoveKeeps
<1> QED BY <1>3, <1>4, <1>5, <1>6
---------------------------------------------------------------------------
LEMMA UnloadStep ==
  ASSUME LInv, UnloadPlatforms
  PROVE  LInv'
<1> DEFINE c == co[current]
<1>1. /\ current \in Coordinators /\ c \in CoordinatorType /\ co \in Records
      /\ entry = "unloading" /\ entities' = Nothing
      /\ UNCHANGED <<current, reloads, world, calm>>
  BY Basics DEF UnloadPlatforms, Owned
<1>2. entry' = "closing"
  BY <1>1 DEF UnloadPlatforms, CoordinatorType
<1>3. Changed(current) /\ co'[current] = Stop(c)
  BY <1>1, UnloadEffect
<1>4. /\ ~Stop(c).up /\ Stop(c).socket = c.socket /\ Stop(c).cancelled = c.cancelled
  BY <1>1, StopEffect
<1>5. TypeOK'
  BY <1>1, <1>2, <1>3, NothingType DEF LInv, TypeOK, Changed, Records
<1> QED
  BY <1>1, <1>2, <1>3, <1>4, <1>5
     DEF LInv, Owner, Owned, SetupIsQuiet, UpIsLoaded, LoadedIsUp,
         CacheIsData, ReadingKeeps, SocketsHaveOwners, FitsOrReloads, Changed

LEMMA CloseStep ==
  ASSUME LInv, Close
  PROVE  LInv'
<1> DEFINE c == co[current]
<1>1. /\ current \in Coordinators /\ c \in CoordinatorType /\ co \in Records
      /\ entry = "closing" /\ entry' = "setup" /\ current' = Nobody
      /\ UNCHANGED <<reloads, entities, world, calm>>
  BY Basics DEF Close, Owned
<1>2. ~c.up
  BY <1>1 DEF LInv, UpIsLoaded
<1>3. /\ Changed(current)
      /\ \E d \in CoordinatorType :
           /\ d = [c EXCEPT !.socket = FALSE]
           /\ co'[current] \in {d, EndRefresh(d)}
  BY <1>1, CloseEffect
<1>4. ~co'[current].up /\ ~co'[current].socket
  <2>1. PICK d \in CoordinatorType :
          d = [c EXCEPT !.socket = FALSE] /\ co'[current] \in {d, EndRefresh(d)}
    BY <1>3
  <2>2. ~d.up /\ ~d.socket
    BY <1>1, <1>2, <2>1 DEF CoordinatorType
  <2>3. ~EndRefresh(d).up /\ ~EndRefresh(d).socket
    BY <2>2, EndRefreshEffect
  <2> QED BY <2>1, <2>2, <2>3
<1>5. TypeOK'
  BY <1>1, <1>3 DEF LInv, TypeOK, Changed, Records
<1> QED
  BY <1>1, <1>3, <1>4, <1>5, LifecycleAssumption
     DEF LInv, Owner, Owned, SetupIsQuiet, UpIsLoaded, LoadedIsUp,
         CacheIsData, ReadingKeeps, SocketsHaveOwners, FitsOrReloads, Changed
---------------------------------------------------------------------------
(* A step of a refresh or of the timer, of any coordinator that is not in  *)
(* setup.                                                                  *)
LEMMA RefreshKeeps ==
  ASSUME LInv, NEW k \in Coordinators, Changed(k), ~Unborn(co[k]),
         UNCHANGED <<entry, current, entities, world, calm>>,
         reloads' \in 0 .. MaxReloads, reloads > 0 => reloads' > 0,
         co'[k].up = co[k].up, co'[k].socket = co[k].socket,
         co'[k].cancelled = co[k].cancelled,
         co[k].up =>
           /\ co'[k].cached = co'[k].data
           /\ co'[k].refresh = "reading" =>
                \A s \in Slots : co'[k].data[s] # "no" => co'[k].slaves[s] # "no",
         k = current /\ entry = "loaded" =>
           \/ co'[k].timer = "sleeping" \/ reloads' > 0
           \/ /\ co'[k].data = entities
              /\ co'[k].refresh = "reading" => co'[k].slaves = entities
  PROVE  LInv'
<1>1. entry \in {"connecting", "first_refresh", "forwarding"} => k # current
  BY DEF LInv, SetupIsQuiet
<1>2. TypeOK'
  BY DEF LInv, TypeOK, Changed, Records
<1>3. \A j \in Coordinators : j # k => co'[j] = co[j]
  BY DEF Changed
<1>4. Owner' /\ UpIsLoaded' /\ LoadedIsUp' /\ SocketsHaveOwners'
  BY <1>3 DEF LInv, Owner, Owned, UpIsLoaded, LoadedIsUp, SocketsHaveOwners
<1>5. SetupIsQuiet'
  BY <1>1, <1>3 DEF LInv, SetupIsQuiet, Unborn, Owner, Owned
<1>6. CacheIsData' /\ ReadingKeeps'
  BY <1>1, <1>3 DEF LInv, CacheIsData, ReadingKeeps
<1>7. FitsOrReloads'
  BY <1>3 DEF LInv, FitsOrReloads, Pending, Owner, Owned
<1> QED BY <1>2, <1>4, <1>5, <1>6, <1>7 DEF LInv

LEMMA StartStep ==
  ASSUME LInv, NEW k \in Coordinators, NEW by \in {"interval", "service"},
         StartRefresh(k, by)
  PROVE  LInv'
<1> DEFINE c == co[k]
<1>1. /\ c \in CoordinatorType /\ co \in Records /\ c.up /\ reloads \in 0 .. MaxReloads
      /\ UNCHANGED <<entry, current, reloads, entities, world, calm>>
  BY Basics DEF StartRefresh, LInv, TypeOK
<1>2. Changed(k) /\ co'[k] = [c EXCEPT !.refresh = "asking", !.by = by]
  BY <1>1, StartEffect
<1>3. /\ co'[k].up = c.up /\ co'[k].socket = c.socket /\ co'[k].cancelled = c.cancelled
      /\ co'[k].data = c.data /\ co'[k].cached = c.cached /\ co'[k].timer = c.timer
      /\ co'[k].refresh = "asking"
  BY <1>1, <1>2 DEF CoordinatorType
<1>4. /\ c.cached = c.data /\ ~Unborn(c)
      /\ k = current /\ entry = "loaded" =>
           \/ c.timer = "sleeping" \/ reloads > 0
           \/ c.data = entities
  BY <1>1 DEF LInv, CacheIsData, FitsOrReloads, Pending, Unborn
<1> QED BY <1>1, <1>2, <1>3, <1>4, RefreshKeeps

LEMMA RediscoverStep ==
  ASSUME LInv, NEW k \in Coordinators, Rediscover(k)
  PROVE  LInv'
<1> DEFINE c == co[k]
<1>1. /\ c \in CoordinatorType /\ co \in Records /\ c.refresh = "asking"
      /\ reloads \in 0 .. MaxReloads
      /\ UNCHANGED <<entry, current, reloads, entities, world, calm>>
  BY Basics DEF Rediscover, LInv, TypeOK
<1>2. Changed(k)
  BY <1>1, RediscoverEffect
<1>3. PICK merged \in Topology, timer \in {"no", "sleeping"} :
        /\ \A s \in Slots : c.data[s] # "no" => merged[s] # "no"
        /\ timer = "no" => merged = c.cached
        /\ c.timer = "sleeping" => timer = "sleeping"
        /\ co'[k] = [c EXCEPT !.refresh = "reading", !.slaves = merged, !.timer = timer]
  BY <1>1, RediscoverEffect
<1>4. /\ co'[k].up = c.up /\ co'[k].socket = c.socket /\ co'[k].cancelled = c.cancelled
      /\ co'[k].data = c.data /\ co'[k].cached = c.cached /\ co'[k].timer = timer
      /\ co'[k].slaves = merged
  BY <1>1, <1>3 DEF CoordinatorType
<1>5. ~Unborn(c) /\ (c.up => c.cached = c.data)
  BY <1>1 DEF LInv, CacheIsData, Unborn
<1>6. k = current /\ entry = "loaded" =>
        \/ timer = "sleeping" \/ reloads > 0
        \/ c.data = entities /\ merged = entities
  <2>1. k = current /\ entry = "loaded" /\ timer = "no" => c.timer = "no" /\ c.up
    BY <1>1, <1>3 DEF LInv, LoadedIsUp, CoordinatorType
  <2>2. k = current /\ entry = "loaded" =>
          c.timer = "sleeping" \/ reloads > 0 \/ c.data = entities
    BY DEF LInv, FitsOrReloads, Pending
  <2> QED BY <1>3, <1>5, <2>1, <2>2
<1> QED BY <1>1, <1>2, <1>3, <1>4, <1>5, <1>6, RefreshKeeps

LEMMA CachedStep ==
  ASSUME LInv, NEW k \in Coordinators, UseCached(k)
  PROVE  LInv'
<1> DEFINE c == co[k]
<1>1. /\ c \in CoordinatorType /\ co \in Records /\ c.refresh = "asking" /\ c.up
      /\ reloads \in 0 .. MaxReloads
      /\ UNCHANGED <<entry, current, reloads, entities, world, calm>>
  BY Basics DEF UseCached, LInv, TypeOK
<1>2. Changed(k) /\ co'[k] = [c EXCEPT !.refresh = "reading", !.slaves = c.cached]
  BY <1>1, CachedEffect
<1>3. /\ co'[k].up = c.up /\ co'[k].socket = c.socket /\ co'[k].cancelled = c.cancelled
      /\ co'[k].data = c.data /\ co'[k].cached = c.cached /\ co'[k].timer = c.timer
      /\ co'[k].slaves = c.cached
  BY <1>1, <1>2 DEF CoordinatorType
<1>4. /\ c.cached = c.data /\ ~Unborn(c)
      /\ k = current /\ entry = "loaded" =>
           \/ c.timer = "sleeping" \/ reloads > 0
           \/ c.data = entities
  BY <1>1 DEF LInv, CacheIsData, FitsOrReloads, Pending, Unborn
<1> QED BY <1>1, <1>2, <1>3, <1>4, RefreshKeeps

LEMMA RefreshEndsStep ==
  ASSUME LInv, NEW k \in Coordinators, RefreshEnds(k)
  PROVE  LInv'
<1> DEFINE c == co[k]
<1>1. /\ c \in CoordinatorType /\ co \in Records /\ c.refresh = "reading"
      /\ reloads \in 0 .. MaxReloads
      /\ UNCHANGED <<entry, current, reloads, entities, world, calm>>
  BY Basics DEF RefreshEnds, Publish, FailRefresh, LInv, TypeOK
<1>2. /\ ~Unborn(c) /\ (c.up => c.cached = c.data)
      /\ k = current /\ entry = "loaded" =>
           \/ c.timer = "sleeping" \/ reloads > 0
           \/ c.data = entities /\ c.slaves = entities
  BY <1>1 DEF LInv, CacheIsData, FitsOrReloads, Pending, Unborn
<1>3. CASE Publish(k)
  <2>1. PICK d \in CoordinatorType :
          /\ d = [c EXCEPT !.data = c.slaves, !.cached = c.slaves]
          /\ co'[k] = EndRefresh(d) /\ Changed(k)
    BY <1>1, <1>3, PublishEffect
  <2>2. /\ d.up = c.up /\ d.socket = c.socket /\ d.cancelled = c.cancelled
        /\ d.timer = c.timer /\ d.data = c.slaves /\ d.cached = c.slaves
    BY <1>1, <2>1 DEF CoordinatorType
  <2>3. /\ co'[k].up = c.up /\ co'[k].socket = c.socket
        /\ co'[k].cancelled = c.cancelled /\ co'[k].timer = c.timer
        /\ co'[k].data = c.slaves /\ co'[k].cached = c.slaves
        /\ co'[k].refresh = "no"
    BY <2>1, <2>2, EndRefreshEffect
  <2> QED BY <1>1, <1>2, <2>1, <2>3, RefreshKeeps
<1>4. CASE FailRefresh(k)
  <2>1. Changed(k) /\ co'[k] = EndRefresh(c)
    BY <1>1, <1>4, FailRefreshEffect
  <2>2. /\ co'[k].up = c.up /\ co'[k].socket = c.socket
        /\ co'[k].cancelled = c.cancelled /\ co'[k].timer = c.timer
        /\ co'[k].data = c.data /\ co'[k].cached = c.cached
        /\ co'[k].refresh = "no"
    BY <1>1, <2>1, EndRefreshEffect
  <2> QED BY <1>1, <1>2, <2>1, <2>2, RefreshKeeps
<1> QED BY <1>3, <1>4 DEF RefreshEnds

LEMMA FireStep ==
  ASSUME LInv, NEW k \in Coordinators, FireReload(k)
  PROVE  LInv'
<1> DEFINE c == co[k]
<1>1. /\ c \in CoordinatorType /\ co \in Records /\ c.timer = "sleeping"
      /\ UNCHANGED <<entry, current, entities, world, calm>>
  BY Basics DEF FireReload
<1>2. reloads' \in 0 .. MaxReloads /\ reloads' > 0
  <2>1. reloads \in 0 .. MaxReloads /\ MaxReloads \in Nat \ {0} /\ reloads' = OneMore
    BY LifecycleAssumption DEF FireReload, LInv, TypeOK
  <2> QED BY <2>1 DEF OneMore
<1>3. Changed(k) /\ co'[k] = [c EXCEPT !.timer = "no"]
  BY <1>1, FireEffect
<1>4. /\ co'[k].up = c.up /\ co'[k].socket = c.socket /\ co'[k].cancelled = c.cancelled
      /\ co'[k].data = c.data /\ co'[k].cached = c.cached
      /\ co'[k].refresh = c.refresh /\ co'[k].slaves = c.slaves
  BY <1>1, <1>3 DEF CoordinatorType
<1>5. /\ ~Unborn(c)
      /\ c.up =>
           /\ c.cached = c.data
           /\ c.refresh = "reading" => \A s \in Slots : c.data[s] # "no" => c.slaves[s] # "no"
  BY <1>1 DEF LInv, CacheIsData, ReadingKeeps, Unborn
<1> QED BY <1>1, <1>2, <1>3, <1>4, <1>5, RefreshKeeps

LEMMA InvariantStep == LInv /\ [Next]_vars => LInv'
<1> SUFFICES ASSUME LInv, [Next]_vars PROVE LInv'
  OBVIOUS
<1>1. CASE Setup
  BY <1>1, NewStep, SetupStepStep, ForwardStep, SetupEndsStep, EntryStep
     DEF Setup, SetupStep
<1>2. CASE Reload
  BY <1>2, EntryStep, UnloadStep, CloseStep DEF Reload, UnloadEnds
<1>3. ASSUME NEW k \in Coordinators, Refresh(k) PROVE LInv'
  BY <1>3, StartStep, RediscoverStep, CachedStep, RefreshEndsStep DEF Refresh
<1>4. ASSUME NEW k \in Coordinators, FireReload(k) PROVE LInv'
  BY <1>4, FireStep
<1>5. CASE WorldChanges \/ CalmDown \/ UNCHANGED vars
  BY <1>5, EntryStep
<1> QED BY <1>1, <1>2, <1>3, <1>4, <1>5 DEF Next
---------------------------------------------------------------------------
(* The theorems.                                                           *)
THEOREM Invariant == Spec => []LInv
<1>1. Init => LInv
  BY InvariantInit
<1>2. LInv /\ [Next]_vars => LInv'
  BY InvariantStep
<1> QED BY <1>1, <1>2, PTL DEF Spec

(* The variables keep their types: a reload is never cut short by the      *)
(* coordinator it shuts down, the timer is never the running reload.       *)
THEOREM TypeCorrect == Spec => []TypeOK
<1>1. LInv => TypeOK
  BY DEF LInv
<1> QED BY <1>1, Invariant, PTL

(* However setups fail, unloads and reloads interleave, and refreshes      *)
(* outlive their coordinator: no connection is left open behind, save by a *)
(* cancelled setup.                                                        *)
THEOREM SocketsAreOwned == Spec => []SocketsHaveOwners
<1>1. LInv => SocketsHaveOwners
  BY DEF LInv
<1> QED BY <1>1, Invariant, PTL

(* A topology that no longer fits the entities has a reload under way.     *)
THEOREM ChangesReload == Spec => []ChangedTopologyReloads
<1>1. LInv => ChangedTopologyReloads
  BY DEF LInv, FitsOrReloads, Pending, ChangedTopologyReloads
<1> QED BY <1>1, Invariant, PTL

(* No step of a coordinator in use forgets a device it has published: all  *)
(* but a refresh leave the data of such a coordinator alone, and a refresh *)
(* publishes what the invariant says of slaves.                            *)
Remembers ==
  \A k \in Coordinators, s \in Slots :
    co[k].up /\ co[k].data[s] # "no" /\ co'[k].up => co'[k].data[s] # "no"

LEMMA RemembersOne ==
  ASSUME LInv, NEW k \in Coordinators, Changed(k),
         \/ ~co[k].up \/ ~co'[k].up
         \/ co'[k].data = co[k].data
         \/ co[k].refresh = "reading" /\ co'[k].data = co[k].slaves
  PROVE  Remembers
<1>1. \A j \in Coordinators : j # k => co'[j] = co[j]
  BY DEF Changed
<1> QED BY <1>1 DEF LInv, ReadingKeeps, Remembers

LEMMA StepRemembers == LInv /\ [Next]_vars => Remembers
<1> SUFFICES ASSUME LInv, [Next]_vars PROVE Remembers
  OBVIOUS
<1>1. CASE co' = co
  BY <1>1 DEF Remembers
<1>2. ASSUME NEW k \in Coordinators, NewCoordinator(k) PROVE Remembers
  <2>1. Changed(k) /\ ~co'[k].up
    BY <1>2, Basics, NewEffect DEF Fresh
  <2> QED BY <2>1, RemembersOne
<1>3. CASE Connect \/ FirstRefresh \/ Forward \/ FailSetup \/ CancelSetup
  <2>1. /\ current \in Coordinators /\ co[current] \in CoordinatorType
        /\ co \in Records /\ ~co[current].up
    BY <1>3, Basics
       DEF LInv, SetupIsQuiet, Unborn, Owned, Connect, FirstRefresh, Forward,
           FailSetup, CancelSetup
  <2>2. Changed(current)
    BY <1>3, <2>1, ConnectEffect, FirstEffect, ForwardEffect, FailEffect,
       CancelEffect
  <2> QED BY <2>1, <2>2, RemembersOne
<1>4. CASE UnloadPlatforms
  <2>1. current \in Coordinators /\ co[current] \in CoordinatorType /\ co \in Records
    BY <1>4, Basics DEF UnloadPlatforms, Owned
  <2>2. Changed(current) /\ ~co'[current].up
    BY <1>4, <2>1, UnloadEffect, StopEffect
  <2> QED BY <2>1, <2>2, RemembersOne
<1>5. CASE Close
  <2>1. /\ current \in Coordinators /\ co[current] \in CoordinatorType
        /\ co \in Records /\ ~co[current].up
    BY <1>5, Basics DEF LInv, UpIsLoaded, Close, Owned
  <2>2. Changed(current)
    BY <1>5, <2>1, CloseEffect
  <2> QED BY <2>1, <2>2, RemembersOne
<1>6. ASSUME NEW k \in Coordinators,
             \/ \E by \in {"interval", "service"} : StartRefresh(k, by)
             \/ Rediscover(k) \/ UseCached(k) \/ FailRefresh(k) \/ FireReload(k)
      PROVE  Remembers
  <2>1. co[k] \in CoordinatorType /\ co \in Records
    BY Basics
  <2>2. CASE \E by \in {"interval", "service"} : StartRefresh(k, by)
    <3>1. Changed(k)
          /\ \E by \in {"interval", "service"} :
               co'[k] = [co[k] EXCEPT !.refresh = "asking", !.by = by]
      BY <2>1, <2>2, StartEffect
    <3>2. co'[k].data = co[k].data
      BY <2>1, <3>1 DEF CoordinatorType
    <3> QED BY <3>1, <3>2, RemembersOne
  <2>3. CASE Rediscover(k)
    <3> DEFINE c == co[k]
    <3>1. PICK merged \in Topology, timer \in {"no", "sleeping"} :
            /\ \A s \in Slots : c.data[s] # "no" => merged[s] # "no"
            /\ timer = "no" => merged = c.cached
            /\ c.timer = "sleeping" => timer = "sleeping"
            /\ co'[k] = [c EXCEPT !.refresh = "reading", !.slaves = merged,
                                  !.timer = timer]
      BY <2>1, <2>3, RediscoverEffect
    <3>3. Changed(k)
      BY <2>1, <2>3, RediscoverEffect
    <3>2. co'[k].data = co[k].data
      BY <2>1, <3>1 DEF CoordinatorType
    <3> QED BY <3>3, <3>2, RemembersOne
  <2>4. CASE UseCached(k)
    <3>1. Changed(k)
          /\ co'[k] = [co[k] EXCEPT !.refresh = "reading", !.slaves = co[k].cached]
      BY <2>1, <2>4, CachedEffect
    <3>2. co'[k].data = co[k].data
      BY <2>1, <3>1 DEF CoordinatorType
    <3> QED BY <3>1, <3>2, RemembersOne
  <2>5. CASE FailRefresh(k)
    <3>1. Changed(k) /\ co'[k].data = co[k].data
      BY <2>1, <2>5, FailRefreshEffect, EndRefreshEffect
    <3> QED BY <3>1, RemembersOne
  <2>6. CASE FireReload(k)
    <3>1. Changed(k)
          /\ co'[k] = [co[k] EXCEPT !.timer = "no"]
      BY <2>1, <2>6, FireEffect
    <3>2. co'[k].data = co[k].data
      BY <2>1, <3>1 DEF CoordinatorType
    <3> QED BY <3>1, <3>2, RemembersOne
  <2> QED BY <1>6, <2>2, <2>3, <2>4, <2>5, <2>6
<1>7. ASSUME NEW k \in Coordinators, Publish(k) PROVE Remembers
  <2>1. co[k] \in CoordinatorType /\ co \in Records /\ co[k].refresh = "reading"
    BY <1>7, Basics DEF Publish
  <2>2. Changed(k) /\ co'[k].data = co[k].slaves
    <3>1. PICK d \in CoordinatorType :
            /\ d = [co[k] EXCEPT !.data = co[k].slaves, !.cached = co[k].slaves]
            /\ co'[k] = EndRefresh(d) /\ Changed(k)
      BY <1>7, <2>1, PublishEffect
    <3>2. d.data = co[k].slaves
      BY <2>1, <3>1 DEF CoordinatorType
    <3> QED BY <3>1, <3>2, EndRefreshEffect
  <2> QED BY <2>1, <2>2, RemembersOne
<1>8. CASE \/ RetrySetup \/ UserReload \/ RefuseReload \/ TopologyReload
           \/ DropReload \/ KeepPlatforms \/ WorldChanges \/ CalmDown
           \/ UNCHANGED vars
  BY <1>1, <1>8
     DEF RetrySetup, UserReload, RefuseReload, TopologyReload, BeginReload,
         DropReload, KeepPlatforms, WorldChanges, CalmDown, vars
<1> QED
  BY <1>2, <1>3, <1>4, <1>5, <1>6, <1>7, <1>8
     DEF Next, Setup, SetupStep, Reload, UnloadEnds, Refresh, RefreshEnds

(* A device once published is never forgotten while its coordinator is in  *)
(* use, whatever discoveries miss and however refreshes end.               *)
THEOREM NothingIsForgotten == Spec => NoTopologyForgotten
<1>1. LInv /\ [Next]_vars => [Remembers]_vars
  BY StepRemembers
<1>2. [][Remembers]_vars <=> NoTopologyForgotten
  BY DEF Remembers, NoTopologyForgotten
<1> QED BY <1>1, <1>2, Invariant, PTL DEF Spec
===========================================================================
