---------------------- MODULE EndDeviceCommandsProofs ----------------------
(***************************************************************************)
(* The commands of an end-device entity for any callers, values and times: *)
(* they keep to the write path, and what follows from its theorems.        *)
(***************************************************************************)
EXTENDS EndDeviceCommands, TLAPS

PathProofs == INSTANCE PowercenterCooldownProofs
---------------------------------------------------------------------------
(* The write path.                                                         *)

LEMMA PathInit == Init => PathProofs!Init
BY DEF Init, Path!Init, PathProofs!Init

LEMMA PathStep == [Next]_vars => [PathProofs!Next]_(PathProofs!vars)
<1> SUFFICES ASSUME [Next]_vars, ~ UNCHANGED path
             PROVE  PathProofs!Next
  BY DEF path, PathProofs!vars
<1> USE DEF PathProofs!Next, PathProofs!LockStep
<1>1. ASSUME NEW c \in Callers, Ask(c)
      PROVE  PathProofs!WriteAtOnce(c) \/ PathProofs!WaitForLock(c)
  BY <1>1 DEF Ask, Path!WriteAtOnce, Path!WaitForLock, Path!MayCall, Path!Locked,
              PathProofs!WriteAtOnce, PathProofs!WaitForLock, PathProofs!MayCall,
              PathProofs!Locked
<1>2. ASSUME NEW c \in Callers, Refuse(c)
      PROVE  PathProofs!RefuseWaiter(c)
  BY <1>2 DEF Refuse, Path!RefuseWaiter, Path!TakesLock, Path!Locked,
              PathProofs!RefuseWaiter, PathProofs!TakesLock, PathProofs!Locked
<1>3. ASSUME NEW c \in Callers, WriteLate(c)
      PROVE  PathProofs!WriteAfterWait(c)
  BY <1>3 DEF WriteLate, Path!WriteAfterWait, Path!TakesLock, Path!Locked,
              PathProofs!WriteAfterWait, PathProofs!TakesLock, PathProofs!Locked
<1>4. ASSUME NEW c \in Callers, Cancel(c)
      PROVE  PathProofs!CancelWaiter(c)
  BY <1>4 DEF Cancel, Path!CancelWaiter, Path!Without,
              PathProofs!CancelWaiter, PathProofs!Without
<1>5. ASSUME NEW c \in Callers, EndWrite(c)
      PROVE  PathProofs!EndWrite(c)
  BY <1>5 DEF EndWrite, Path!EndWrite, Path!StartCooldown,
              PathProofs!EndWrite, PathProofs!StartCooldown
<1>6. CASE CountCooldown
  BY <1>6 DEF CountCooldown, Path!CountDown, PathProofs!CountDown
<1>7. CASE Tick
  BY <1>7 DEF Tick, Path!Tick, Path!TasksRan, Path!SecondLess, Path!Locked,
              PathProofs!Tick, PathProofs!TasksRan, PathProofs!SecondLess,
              PathProofs!Locked
<1>8. CASE Shutdown
  BY <1>8 DEF Shutdown, Path!Shutdown, PathProofs!Shutdown
<1>9. \/ \E c \in Callers :
           Ask(c) \/ Refuse(c) \/ WriteLate(c) \/ Cancel(c) \/ EndWrite(c)
      \/ CountCooldown \/ Tick \/ Shutdown
  BY DEF Next, vars, LockStep, Report, Serve, ReadBack, ReportSuccess,
         ReportFailure, EndCall, Read, FailRead, Publish, DeviceChanges, Expire,
         CountWindow
<1> QED BY <1>1, <1>2, <1>3, <1>4, <1>5, <1>6, <1>7, <1>8, <1>9

(* Whatever the entities of an end device do around it, a write goes the   *)
(* way of write_..._with_cooldown, so its theorems hold of it.             *)
THEOREM CommandsKeepToThePath == Spec => PathProofs!Spec
<1>1. Init => PathProofs!Init
  BY PathInit
<1>2. [Next]_vars => [PathProofs!Next]_(PathProofs!vars)
  BY PathStep
<1> QED BY <1>1, <1>2, PTL DEF Spec, PathProofs!Spec

(* WritesAreSpaced, of the commands: they reach the Powercenter one at a   *)
(* time with the delayed-ACK period between them, and none after the entry *)
(* is closed.                                                              *)
THEOREM CommandsAreSpaced == Spec => PathProofs!WritesAreSpaced
<1>1. PathProofs!CooldownAssumption
  BY CommandsAssumption DEF PathProofs!CooldownAssumption
<1>2. PathProofs!Spec => PathProofs!WritesAreSpaced
  BY <1>1, PathProofs!PromiseKept
<1> QED BY <1>2, CommandsKeepToThePath

(* WaitersNeverSend and EntitiesFollowCooldown, of the commands: one that  *)
(* waited for another is refused, and an entity is shown as available only *)
(* outside the cooldown.                                                   *)
THEOREM CommandsMeetCooldown ==
  Spec => PathProofs!WaitersNeverSend /\ []PathProofs!EntitiesFollowCooldown
<1>1. PathProofs!CooldownAssumption
  BY CommandsAssumption DEF PathProofs!CooldownAssumption
<1>2. PathProofs!Spec => PathProofs!WaitersNeverSend
  BY <1>1, PathProofs!WaitersAreRefused
<1>3. PathProofs!Spec => []PathProofs!EntitiesFollowCooldown
  BY <1>1, PathProofs!EntitiesFollow
<1> QED BY <1>2, <1>3, CommandsKeepToThePath

PathFacts == Path!TypeOK /\ Path!LockOK

LEMMA PathInvariant == Spec => []PathFacts
<1>1. PathProofs!TypeOK /\ PathProofs!LockOK => PathFacts
  BY DEF PathFacts, PathProofs!TypeOK, PathProofs!LockOK, PathProofs!Locked,
         Path!TypeOK, Path!LockOK, Path!Locked
<1>2. PathProofs!CooldownAssumption
  BY CommandsAssumption DEF PathProofs!CooldownAssumption
<1>3. PathProofs!Spec => []PathProofs!TypeOK
  BY <1>2, PathProofs!TypeCorrect
<1>4. PathProofs!Spec => []PathProofs!LockOK
  BY <1>2, PathProofs!LockHolds
<1> QED BY <1>1, <1>3, <1>4, CommandsKeepToThePath, PTL

(* What the steps of the path do to the calls.                             *)
LEMMA CallsStep ==
  ASSUME PathFacts, NEW c \in Callers
  PROVE  /\ Ask(c) => /\ calls[c] = "idle"
                      /\ \/ calls' = [calls EXCEPT ![c] = "waiting"]
                         \/ ~Path!Locked /\ calls' = [calls EXCEPT ![c] = "writing"]
         /\ Refuse(c) \/ Cancel(c) =>
              calls[c] = "waiting" /\ calls' = [calls EXCEPT ![c] = "idle"]
         /\ WriteLate(c) => /\ calls[c] = "waiting" /\ ~Path!Locked
                            /\ calls' = [calls EXCEPT ![c] = "writing"]
         /\ EndWrite(c) =>
              calls[c] = "writing" /\ calls' = [calls EXCEPT ![c] = "idle"]
<1>1. ASSUME Path!TakesLock(c)
      PROVE  calls[c] = "waiting" /\ ~Path!Locked
  BY <1>1 DEF PathFacts, Path!TypeOK, Path!LockOK, Path!TakesLock
<1> QED
  BY <1>1 DEF Ask, Refuse, Cancel, WriteLate, EndWrite, Path!WriteAtOnce,
    Path!WaitForLock, Path!MayCall, Path!RefuseWaiter, Path!CancelWaiter,
    Path!WriteAfterWait, Path!EndWrite

LEMMA CallsUnchanged == CountCooldown \/ Tick \/ Shutdown => calls' = calls
BY DEF CountCooldown, Tick, Shutdown, Path!CountDown, Path!Tick, Path!Shutdown
---------------------------------------------------------------------------
(* Type correctness, one group of variables at a time.  A call that is not *)
(* over has asked for a value, and reads nothing back before its write is. *)
Asked ==
  \A c \in Callers :
    /\ calls[c] # "idle" => after[c] = "no"
    /\ calls[c] # "idle" \/ after[c] # "no" => request[c] \in Registers

CallTypes ==
  /\ request \in [Callers -> Registers \cup {None}]
  /\ after \in [Callers -> {"no", "settling", "verifying"}]
  /\ back \in [Callers -> Registers \cup {None}]
  /\ Asked

BoxTypes ==
  /\ kind \in Kinds
  /\ device \in [mode : Modes, value : Registers]
  /\ held \subseteq Registers
  /\ served \in BOOLEAN

Seen == [mode : Modes \cup {"unknown"}, value : Registers \cup {None}]

Answered == [link : {"up", "down", "none"},
             mode : Modes \cup {"unknown"}, value : Registers \cup {None}]

DataTypes ==
  /\ published \in Seen /\ reading \in Answered
  /\ connected \in BOOLEAN
  /\ {last, written} \subseteq Registers \cup {None}

(* A test's status is one of the values.                                   *)
TestValues ==
  kind \in Tests =>
    {device.value, published.value, reading.value} \subseteq Values \cup {None}

TimerTypes ==
  /\ test \in [running : BOOLEAN, baseline : Values \cup {None},
               age : 0 .. TestTimeout, timeouts : SUBSET (0 .. TestTimeout)]
  /\ window \in 0 .. AckWindow
  /\ windowTask \in {"none", "sleeping", "due"}

Types == CallTypes /\ BoxTypes /\ DataTypes /\ TestValues /\ TimerTypes

LEMMA RegistersAreValues ==
  /\ Requests \subseteq Registers /\ DeviceValues \subseteq Registers
  /\ kind \in Tests => DeviceValues \subseteq Values
  /\ OutOfRange \in Registers
BY CommandsAssumption DEF Requests, DeviceValues, Registers, Tests, Switches, Flag,
   Thresholds, Enables, Outputs, Locators

LEMMA KindStays == [Next]_vars => kind' = kind
BY DEF Next, vars, LockStep, Report, Ask, Refuse, WriteLate, Cancel, EndWrite,
       Serve, ReadBack, ReportSuccess, ReportFailure, EndCall, Read, FailRead,
       Publish, DeviceChanges, Expire, CountWindow, CountCooldown, Tick, Shutdown

LEMMA CallTypesStep ==
  ASSUME PathFacts, CallTypes, BoxTypes, [Next]_vars
  PROVE  CallTypes'
<1> USE DEF CallTypes, Asked
<1> calls \in [Callers -> {"idle", "waiting", "writing"}]
  BY DEF PathFacts, Path!TypeOK
<1> Registers' = Registers
  BY DEF Registers, Flag
<1>1. ASSUME NEW c \in Callers, Ask(c)
      PROVE  CallTypes'
  <2>1. PICK ask \in Registers : request' = [request EXCEPT ![c] = ask]
    BY <1>1, RegistersAreValues DEF Ask
  <2>2. after[c] = "no" /\ after' = after /\ back' = back
    BY <1>1 DEF Ask
  <2>3. \/ calls' = [calls EXCEPT ![c] = "waiting"]
        \/ calls' = [calls EXCEPT ![c] = "writing"]
    BY <1>1, CallsStep
  <2> QED BY <2>1, <2>2, <2>3
<1>2. ASSUME NEW c \in Callers, Refuse(c) \/ Cancel(c)
      PROVE  CallTypes'
  BY <1>2, CallsStep DEF Refuse, Cancel
<1>3. ASSUME NEW c \in Callers, WriteLate(c)
      PROVE  CallTypes'
  BY <1>3, CallsStep DEF WriteLate, call
<1>4. ASSUME NEW c \in Callers, EndWrite(c)
      PROVE  CallTypes'
  <2>1. after' = [after EXCEPT ![c] = "settling"] \/ after' = after
    BY <1>4 DEF EndWrite, Acknowledged, Unacknowledged, Interrupted, ReadsBack
  <2>2. back' = back
    BY <1>4 DEF EndWrite
  <2>3. \/ request' = [request EXCEPT ![c] = None] /\ after'[c] = "no"
        \/ request' = request /\ after'[c] # "no"
    BY <1>4 DEF EndWrite
  <2>4. calls[c] = "writing" /\ calls' = [calls EXCEPT ![c] = "idle"]
    BY <1>4, CallsStep
  <2>5. request[c] \in Registers
    BY <2>4
  <2>6. Asked'
    BY <2>1, <2>3, <2>4, <2>5
  <2> QED BY <2>1, <2>2, <2>3, <2>6
<1>5. ASSUME NEW c \in Callers, ReadBack(c)
      PROVE  CallTypes'
  BY <1>5 DEF ReadBack, path, BoxTypes
<1>6. ASSUME NEW c \in Callers, Report(c)
      PROVE  CallTypes'
  BY <1>6 DEF Report, ReportSuccess, ReportFailure, EndCall, path
<1>7. CASE \/ \E c \in Callers : Serve(c)
           \/ Read \/ FailRead \/ Publish \/ DeviceChanges \/ Expire \/ CountWindow
           \/ CountCooldown \/ Tick \/ Shutdown \/ UNCHANGED vars
  <2>1. UNCHANGED call
    BY <1>7 DEF Serve, Read, FailRead, Publish, DeviceChanges, Expire, CountWindow,
      CountCooldown, Tick, Shutdown, vars
  <2>2. calls' = calls
    BY <1>7, CallsUnchanged DEF Serve, Read, FailRead, Publish, DeviceChanges, Expire,
      CountWindow, vars, path
  <2> QED BY <2>1, <2>2 DEF call
<1> QED
  BY <1>1, <1>2, <1>3, <1>4, <1>5, <1>6, <1>7 DEF Next, LockStep

LEMMA BoxTypesStep ==
  ASSUME CallTypes, BoxTypes, [Next]_vars
  PROVE  BoxTypes'
<1> kind' = kind
  BY KindStays
<1> Registers' = Registers /\ Modes' = Modes
  BY DEF Registers, Flag, Modes
<1>1. ASSUME NEW c \in Callers, Serve(c)
      PROVE  BoxTypes'
  <2>1. Commanded(request[c]) \in Modes
    BY <1>1 DEF Commanded, Modes, BoxTypes
  <2>2. request[c] \in Registers
    BY <1>1 DEF Serve, CallTypes, Asked
  <2> QED BY <1>1, <2>1, <2>2 DEF Serve, BoxTypes
<1>2. CASE DeviceChanges
  BY <1>2, RegistersAreValues DEF DeviceChanges, BoxTypes
<1>3. ASSUME NEW c \in Callers, EndWrite(c)
      PROVE  BoxTypes'
  BY <1>3 DEF EndWrite, BoxTypes
<1>4. CASE UNCHANGED box
  BY <1>4 DEF box, BoxTypes
<1> QED
  BY <1>1, <1>2, <1>3, <1>4 DEF Next, vars, LockStep, Report, Ask, Refuse, WriteLate,
    Cancel, ReadBack, ReportSuccess, ReportFailure, EndCall, Read, FailRead, Publish,
    Expire, CountWindow, CountCooldown, Tick, Shutdown

(* What an entity shows.                                                   *)
LEMMA ShownTypes ==
  ASSUME NEW seen \in Seen, NEW old \in Registers \cup {None}, NEW left
  PROVE  /\ Remembered(seen.value, old) \in Registers \cup {None}
         /\ Display(seen, old, left) \in Registers \cup {None}
BY DEF Seen, Remembered, Display, StandbyIsOn, UnlockIsOn, Registers, Flag

LEMMA RepublishTypes ==
  ASSUME published' \in Seen, last \in Registers \cup {None}, Republish, kind' = kind
  PROVE  {last', written'} \subseteq Registers \cup {None}
<1>1. last' \in Registers \cup {None}
  BY ShownTypes DEF Republish
<1> QED BY <1>1, ShownTypes DEF Republish

LEMMA DataTypesStep ==
  ASSUME PathFacts, CallTypes, BoxTypes, DataTypes, [Next]_vars
  PROVE  DataTypes'
<1> kind' = kind
  BY KindStays
<1> Registers' = Registers /\ Modes' = Modes /\ Seen' = Seen /\ Answered' = Answered
  BY DEF Registers, Flag, Modes, Seen, Answered
<1> Unconnected \in Answered /\ NoReading \in Answered
  BY DEF Answered, Unconnected, NoReading
<1>1. ASSUME NEW c \in Callers, EndWrite(c)
      PROVE  DataTypes'
  <2>1. request[c] \in Registers
    BY <1>1, CallsStep DEF CallTypes, Asked
  <2>2. ASSUME Takes(c), published' = published
        PROVE  {last', written'} \subseteq Registers \cup {None}
    BY <2>1, <2>2, ShownTypes, RepublishTypes DEF Takes, DataTypes
  <2>3. {last', written'} \subseteq Registers \cup {None}
    BY <1>1, <2>2, RepublishTypes DEF EndWrite, Acknowledged, Unacknowledged,
      Interrupted, DataTypes
  <2> QED BY <1>1, <2>3 DEF EndWrite, DataTypes
<1>2. ASSUME NEW c \in Callers, ReportSuccess(c)
      PROVE  DataTypes'
  <2>1. request[c] \in Registers \cup {None}
    BY DEF CallTypes
  <2>2. last' \in Registers \cup {None}
    BY <1>2, <2>1, ShownTypes DEF ReportSuccess, DataTypes
  <2>3. written' \in Registers \cup {None}
    BY <1>2, <2>2, ShownTypes DEF ReportSuccess, DataTypes
  <2> QED BY <1>2, <2>2, <2>3 DEF ReportSuccess, EndCall, DataTypes
<1>3. ASSUME NEW c \in Callers, ReportFailure(c)
      PROVE  DataTypes'
  BY <1>3, RepublishTypes DEF ReportFailure, EndCall, DataTypes
<1>4. CASE Read
  <2>1. Readings \subseteq Answered
    BY DEF Readings, Answered, BoxTypes
  <2> QED BY <1>4, <2>1 DEF Read, DataTypes
<1>5. CASE FailRead
  BY <1>5, RepublishTypes DEF FailRead, DataTypes
<1>6. CASE Publish
  <2>1. published' \in Seen
    BY <1>6 DEF Publish, DataTypes, Seen, Answered
  <2>2. reading' \in Answered /\ connected' \in BOOLEAN
    BY <1>6 DEF Publish, IsUnitConnected
  <2> QED BY <1>6, <2>1, <2>2, RepublishTypes DEF Publish, DataTypes
<1>7. CASE CountWindow \/ CountCooldown
  BY <1>7, RepublishTypes DEF CountWindow, CountCooldown, DataTypes
<1>8. CASE UNCHANGED data
  BY <1>8 DEF data, DataTypes
<1> QED
  BY <1>1, <1>2, <1>3, <1>4, <1>5, <1>6, <1>7, <1>8 DEF Next, vars, LockStep, Report,
    Ask, Refuse, WriteLate, Cancel, Serve, ReadBack, DeviceChanges, Expire, Tick,
    Shutdown

LEMMA TestValuesStep ==
  ASSUME BoxTypes, TestValues, [Next]_vars
  PROVE  TestValues'
<1> SUFFICES ASSUME kind \in Tests PROVE TestValues'
  BY KindStays DEF TestValues
<1>1. ASSUME NEW c \in Callers, Serve(c)
      PROVE  TestValues'
  <2>1. device'.value = device.value
    BY <1>1 DEF Serve, BoxTypes
  <2> QED BY <1>1, <2>1 DEF Serve, data, TestValues
<1>2. CASE Read
  <2>1. reading'.value \in Values \cup {None}
    BY <1>2 DEF Read, Readings, Unconnected, TestValues
  <2> QED BY <1>2, <2>1 DEF Read, box, TestValues
<1>3. CASE FailRead \/ Publish
  <2>1. UNCHANGED device /\ published'.value \in {published.value, reading.value}
    BY <1>3 DEF FailRead, Publish, box
  <2>2. reading'.value = None
    <3>1. reading' = NoReading
      BY <1>3 DEF FailRead, Publish
    <3> QED BY <3>1 DEF NoReading
  <2> QED BY <2>1, <2>2 DEF TestValues
<1>4. CASE DeviceChanges
  <2>1. device'.value \in Values \cup {None}
    BY <1>4, RegistersAreValues DEF DeviceChanges
  <2> QED BY <1>4, <2>1 DEF DeviceChanges, data, TestValues
<1>5. CASE UNCHANGED <<device, published, reading>>
  BY <1>5 DEF TestValues
<1> QED
  BY <1>1, <1>2, <1>3, <1>4, <1>5 DEF Next, vars, box, data, LockStep, Report, Ask,
    Refuse, WriteLate, Cancel, EndWrite, ReadBack, ReportSuccess, ReportFailure,
    EndCall, Expire, CountWindow, CountCooldown, Tick, Shutdown

(* The times of a test and of the window.                                  *)
LEMMA TimerTypesStep ==
  ASSUME TestValues, TimerTypes, [Next]_vars
  PROVE  TimerTypes'
<1> USE CommandsAssumption
<1> DEFINE TestType == test \in [running : BOOLEAN, baseline : Values \cup {None},
                                 age : 0 .. TestTimeout,
                                 timeouts : SUBSET (0 .. TestTimeout)]
           WindowType == /\ window \in 0 .. AckWindow
                         /\ windowTask \in {"none", "sleeping", "due"}
<1>1. Idle \in [running : BOOLEAN, baseline : Values \cup {None},
                age : 0 .. TestTimeout, timeouts : SUBSET (0 .. TestTimeout)]
  BY DEF Idle
<1>2. OpenWindow \/ CloseWindow \/ SameWindow => WindowType'
  BY DEF TimerTypes, OpenWindow, CloseWindow, SameWindow
<1>3. CancelTracking => TestType'
  BY <1>1 DEF TimerTypes, CancelTracking
<1>4. ASSUME NEW c \in Callers, Ask(c)
      PROVE  TimerTypes'
  <2>1. TestType'
    <3>1. CASE kind \in Tests
      <4>1. published.value \in Values \cup {None}
        BY <3>1 DEF TestValues
      <4>2. TestTimeout \in 0 .. TestTimeout /\ 0 \in 0 .. TestTimeout
        OBVIOUS
      <4>3. test' = [running |-> TRUE, baseline |-> published.value, age |-> 0,
                     timeouts |-> {TestTimeout}]
        BY <1>4, <3>1 DEF Ask, BeginTracking, StartTracking
      <4> HIDE CommandsAssumption
      <4> QED BY <4>1, <4>2, <4>3
    <3>2. CASE kind \notin Tests
      BY <1>4, <3>2 DEF Ask, BeginTracking, TimerTypes
    <3> QED BY <3>1, <3>2
  <2> QED BY <1>4, <2>1 DEF Ask, TimerTypes
<1>5. ASSUME NEW c \in Callers, Refuse(c)
      PROVE  TimerTypes'
  BY <1>5, <1>3 DEF Refuse, TimerTypes
<1>6. ASSUME NEW c \in Callers, EndWrite(c)
      PROVE  TimerTypes'
  <2>1. TestType'
    BY <1>6, <1>3 DEF EndWrite, Acknowledged, Unacknowledged, Interrupted, timers,
      TimerTypes
  <2>2. WindowType'
    BY <1>6, <1>2 DEF EndWrite, Acknowledged, Unacknowledged, Interrupted, timers,
      SameWindow
  <2> QED BY <2>1, <2>2 DEF TimerTypes
<1>7. CASE Publish
  <2>1. TestType'
    BY <1>7, <1>1 DEF Publish, TimerTypes
  <2> QED BY <1>7, <1>2, <2>1 DEF Publish, TimerTypes
<1>8. CASE Expire
  <2>1. TestType'
    BY <1>8, <1>1 DEF Expire, TimerTypes
  <2> QED BY <1>8, <2>1 DEF Expire, TimerTypes
<1>9. CASE CountWindow
  BY <1>9 DEF CountWindow, TimerTypes
<1>10. CASE Tick
  <2>1. {n - 1 : n \in test.timeouts} \subseteq 0 .. TestTimeout
    BY <1>10 DEF Tick, TimerTypes
  <2>2. TestType'
    <3> DEFINE age == IF test.running /\ test.age < TestTimeout
                      THEN test.age + 1 ELSE test.age
               left == {n - 1 : n \in test.timeouts}
    <3>1. age \in 0 .. TestTimeout
      BY DEF TimerTypes
    <3>2. test' = [test EXCEPT !.age = age, !.timeouts = left]
      BY <1>10 DEF Tick
    <3> HIDE DEF age, left
    <3> QED BY <2>1, <3>1, <3>2 DEF TimerTypes, left
  <2>3. WindowType'
    BY <1>10 DEF Tick, Less, TimerTypes
  <2> QED BY <2>2, <2>3 DEF TimerTypes
<1>11. CASE Shutdown
  BY <1>11, <1>1, <1>2 DEF Shutdown, TimerTypes
<1>12. CASE UNCHANGED timers
  BY <1>12 DEF timers, TimerTypes
<1> HIDE DEF TestType, WindowType
<1> QED
  BY <1>4, <1>5, <1>6, <1>7, <1>8, <1>9, <1>10, <1>11, <1>12 DEF Next, vars,
    LockStep, Report, WriteLate, Cancel, Serve, ReadBack, ReportSuccess,
    ReportFailure, EndCall, Read, FailRead, DeviceChanges, CountCooldown

LEMMA TypesInit == Init => Types
<1> SUFFICES ASSUME Init PROVE Types
  OBVIOUS
<1> PICK m \in Modes, v \in DeviceValues :
      device = [mode |-> m, value |-> v] /\ published = device /\ held = {v}
  BY DEF Init
<1>1. v \in Registers /\ (kind \in Tests => v \in Values)
  BY RegistersAreValues
<1>2. CallTypes
  BY DEF Init, Path!Init, CallTypes, Asked
<1>3. BoxTypes
  BY <1>1 DEF Init, BoxTypes
<1>4. published \in Seen /\ reading \in Answered
  BY <1>1 DEF Init, Seen, Answered, NoReading
<1>5. DataTypes
  <2>1. last \in Registers \cup {None}
    BY DEF Init, AtFirst, Registers, Flag
  <2> QED BY <1>4, <2>1, ShownTypes DEF Init, DataTypes
<1>6. TestValues
  BY <1>1 DEF Init, TestValues, NoReading
<1>7. TimerTypes
  BY CommandsAssumption DEF Init, TimerTypes, Idle
<1> QED BY <1>2, <1>3, <1>5, <1>6, <1>7 DEF Types

LEMMA TypesInvariant == Spec => []Types
<1>1. PathFacts /\ Types /\ [Next]_vars => Types'
  BY CallTypesStep, BoxTypesStep, DataTypesStep, TestValuesStep, TimerTypesStep
     DEF Types
<1> QED BY <1>1, TypesInit, PathInvariant, PTL DEF Spec

(* Type correctness of the entity, its calls, its timers and what is known *)
(* of the device, on top of the path's.                                    *)
THEOREM TypeCorrect == Spec => []TypeOK
<1>1. PathFacts /\ Types => TypeOK
  BY DEF PathFacts, Types, CallTypes, BoxTypes, DataTypes, TimerTypes, Seen,
     Answered, TypeOK
<1> QED BY <1>1, TypesInvariant, PathInvariant, PTL
---------------------------------------------------------------------------
(* A test is tracked exactly while one timeout task waits, and that task   *)
(* ends the time of the latest press.                                      *)
OneTimeout ==
  test.timeouts = IF test.running THEN {TestTimeout - test.age} ELSE {}

LEMMA OneTimeoutStep ==
  ASSUME TimerTypes, OneTimeout, [Next]_vars
  PROVE  OneTimeout'
<1> USE CommandsAssumption
<1>1. Idle.running = FALSE /\ Idle.timeouts = {}
  BY DEF Idle
<1>2. CancelTracking => OneTimeout'
  BY <1>1 DEF CancelTracking, OneTimeout
<1>3. ASSUME NEW c \in Callers, Ask(c)
      PROVE  OneTimeout'
  <2>1. BeginTracking
    BY <1>3 DEF Ask
  <2> QED BY <2>1 DEF BeginTracking, StartTracking, OneTimeout
<1>4. ASSUME NEW c \in Callers, Refuse(c) \/ EndWrite(c)
      PROVE  OneTimeout'
  BY <1>4, <1>2 DEF Refuse, EndWrite, Acknowledged, Unacknowledged, Interrupted,
    timers, OneTimeout
<1>5. CASE Publish \/ Shutdown
  BY <1>5, <1>1 DEF Publish, Shutdown, OneTimeout
<1>6. CASE Expire
  <2>1. test.running /\ test.timeouts = {0}
    BY <1>6 DEF Expire, OneTimeout
  <2> QED BY <1>6, <1>1, <2>1 DEF Expire, OneTimeout
<1>7. CASE Tick
  <2>1. CASE test.running
    <3>1. test.age < TestTimeout
      BY <1>7, <2>1 DEF Tick, OneTimeout, TimerTypes
    <3>2. /\ test'.running = test.running /\ test'.age = test.age + 1
          /\ test'.timeouts = {n - 1 : n \in test.timeouts}
      BY <1>7, <2>1, <3>1 DEF Tick, TimerTypes
    <3>3. {n - 1 : n \in {TestTimeout - test.age}} = {TestTimeout - (test.age + 1)}
      BY DEF TimerTypes
    <3> QED BY <2>1, <3>2, <3>3 DEF OneTimeout
  <2>2. CASE ~test.running
    <3>1. test'.running = test.running /\ test'.timeouts = {n - 1 : n \in test.timeouts}
      BY <1>7 DEF Tick, TimerTypes
    <3> QED BY <2>2, <3>1 DEF OneTimeout
  <2> QED BY <2>1, <2>2
<1>8. CASE UNCHANGED test
  BY <1>8 DEF OneTimeout
<1> QED
  BY <1>3, <1>4, <1>5, <1>6, <1>7, <1>8 DEF Next, vars, timers, LockStep, Report,
    WriteLate, Cancel, Serve, ReadBack, ReportSuccess, ReportFailure, EndCall, Read,
    FailRead, DeviceChanges, CountWindow, CountCooldown

LEMMA OneTimeoutInvariant == Spec => [](TimerTypes /\ OneTimeout)
<1>1. Init => OneTimeout
  BY DEF Init, Idle, OneTimeout
<1>2. Types => TimerTypes
  BY DEF Types
<1> QED BY <1>1, <1>2, OneTimeoutStep, TypesInvariant, PTL DEF Spec

(* A test shown as running has the timeout task of                         *)
(* _async_stop_device_test_tracking_after_timeout that will end it.        *)
THEOREM RunningTestsTimeOut == Spec => []RunningHasTimeout
<1>1. OneTimeout => RunningHasTimeout
  BY DEF OneTimeout, RunningHasTimeout
<1> QED BY <1>1, OneTimeoutInvariant, PTL

(* start_device_test_tracking replaces the timeout task: a test pressed    *)
(* again is not ended before its own full time.                            *)
THEOREM RestartedTestsHaveFullTime == Spec => RestartGetsFullTime
<1>1. ASSUME TimerTypes, OneTimeout, Expire, test.running
      PROVE  test.age >= TestTimeout
  BY <1>1, CommandsAssumption DEF TimerTypes, OneTimeout, Expire
<1>2. TimerTypes /\ OneTimeout /\ [Next]_vars =>
        [Expire /\ test.running => test.age >= TestTimeout]_vars
  BY <1>1
<1> QED BY <1>2, OneTimeoutInvariant, PTL DEF Spec, RestartGetsFullTime
---------------------------------------------------------------------------
(* While the coordinator lives an open window has its countdown task, and  *)
(* the unlock switch has written what status and window say, but for the   *)
(* moment in which that task is due.                                       *)
WindowInv ==
  loaded =>
    /\ window > 0 => windowTask # "none"
    /\ kind = "unlock" /\ windowTask # "due" =>
         written = UnlockIsOn(published.mode, window)

LEMMA UnlockDisplay ==
  ASSUME kind = "unlock", NEW seen, NEW old, NEW left
  PROVE  Display(seen, old, left) = UnlockIsOn(seen.mode, left)
BY DEF Display, Locators, Thresholds, Polled, Tests, Enables, Outputs

LEMMA UnlockRepublished ==
  ASSUME Republish, kind' = kind, kind = "unlock"
  PROVE  written' = UnlockIsOn(published'.mode, window')
<1>1. written' = Display(published', last', window')
  BY DEF Republish
<1>2. Display(published', last', window') = UnlockIsOn(published'.mode, window')
  BY UnlockDisplay
<1> QED BY <1>1, <1>2

LEMMA LoadedStays == [Next]_vars /\ loaded' => loaded /\ ~Shutdown
<1>1. [Next]_vars => [PathProofs!Next]_(PathProofs!vars)
  BY PathStep
<1>2. [PathProofs!Next]_(PathProofs!vars) /\ loaded' => loaded
  BY DEF PathProofs!Next, PathProofs!vars, PathProofs!WriteAtOnce,
    PathProofs!WaitForLock, PathProofs!LockStep, PathProofs!RefuseWaiter,
    PathProofs!WriteAfterWait, PathProofs!CancelWaiter, PathProofs!EndWrite,
    PathProofs!CountDown, PathProofs!Tick, PathProofs!Shutdown
<1>3. Shutdown => ~loaded'
  BY DEF Shutdown, Path!Shutdown
<1> QED BY <1>1, <1>2, <1>3

LEMMA WindowStep ==
  ASSUME TimerTypes, WindowInv, [Next]_vars
  PROVE  WindowInv'
<1> USE CommandsAssumption
<1> SUFFICES ASSUME loaded, loaded', ~Shutdown PROVE WindowInv'
  BY LoadedStays DEF WindowInv
<1> kind' = kind
  BY KindStays
<1> DEFINE Tasked == window > 0 => windowTask # "none"
           Shown == kind = "unlock" /\ windowTask # "due" =>
                      written = UnlockIsOn(published.mode, window)
<1>1. OpenWindow \/ CloseWindow \/ SameWindow => Tasked'
  BY DEF WindowInv, OpenWindow, CloseWindow, SameWindow
<1>2. Republish => Shown'
  BY UnlockRepublished
<1>3. ASSUME NEW c \in Callers, EndWrite(c)
      PROVE  WindowInv'
  <2>1. Tasked'
    BY <1>1, <1>3 DEF EndWrite, Acknowledged, Unacknowledged, Interrupted, timers,
      SameWindow
  <2>2. CASE kind = "unlock"
    <3>1. Republish
      BY <1>3, <2>2 DEF EndWrite, Acknowledged, Unacknowledged, Interrupted, Takes,
        Thresholds, Locators
    <3> QED BY <1>2, <2>1, <3>1 DEF WindowInv
  <2> QED BY <2>1, <2>2 DEF WindowInv
<1>4. CASE Publish
  BY <1>1, <1>2, <1>4 DEF Publish, WindowInv
<1>5. CASE FailRead \/ CountCooldown
  BY <1>1, <1>2, <1>5 DEF FailRead, CountCooldown, timers, SameWindow, WindowInv
<1>6. CASE CountWindow
  BY <1>2, <1>6 DEF CountWindow, WindowInv, TimerTypes
<1>7. ASSUME NEW c \in Callers, Report(c)
      PROVE  WindowInv'
  <2>1. Tasked'
    BY <1>1, <1>7 DEF Report, ReportSuccess, ReportFailure, EndCall, timers, SameWindow
  <2>2. UNCHANGED <<published, window>>
    BY <1>7 DEF Report, ReportSuccess, ReportFailure, EndCall, timers
  <2>3. Shown'
    <3>1. CASE ReportSuccess(c)
      <4> HAVE kind' = "unlock" /\ windowTask' # "due"
      <4>1. written' = Display(published, last', window)
        BY <3>1 DEF ReportSuccess
      <4>2. Display(published, last', window) = UnlockIsOn(published.mode, window)
        BY UnlockDisplay
      <4>3. UnlockIsOn(published.mode, window)' = UnlockIsOn(published.mode, window)
        BY <2>2 DEF UnlockIsOn
      <4> QED BY <4>1, <4>2, <4>3
    <3>2. CASE ReportFailure(c)
      BY <1>2, <3>2 DEF ReportFailure
    <3> QED BY <1>7, <3>1, <3>2 DEF Report
  <2> QED BY <2>1, <2>3 DEF WindowInv
<1>8. CASE Tick
  <2>1. CASE windowTask = "sleeping"
    BY <1>8, <2>1 DEF Tick, WindowInv
  <2>2. CASE windowTask = "none"
    <3>1. window = 0
      BY <2>2 DEF WindowInv, TimerTypes
    <3>2. window' = window /\ windowTask' = windowTask /\ UNCHANGED data
      BY <1>8, <2>2, <3>1 DEF Tick, Less
    <3> QED BY <3>2 DEF data, WindowInv
  <2> QED BY <1>8, <2>1, <2>2 DEF Tick, TimerTypes
<1>9. CASE UNCHANGED <<published, written, window, windowTask>>
  BY <1>9 DEF WindowInv
<1> HIDE DEF Tasked, Shown
<1> QED
  BY <1>3, <1>4, <1>5, <1>6, <1>7, <1>8, <1>9 DEF Next, vars, timers, data, LockStep,
    Ask, Refuse, WriteLate, Cancel, Serve, ReadBack, Read, DeviceChanges, Expire

(* The unlock switch is never left showing an acknowledgement window that  *)
(* has closed, or a closed one that is open again.                         *)
THEOREM UnlockSwitchFollows == Spec => []UnlockFollowsWindow
<1>1. Init => WindowInv
  BY UnlockDisplay DEF Init, WindowInv
<1>2. Types => TimerTypes
  BY DEF Types
<1>3. TimerTypes /\ WindowInv => UnlockFollowsWindow
  BY DEF TimerTypes, WindowInv, UnlockFollowsWindow
<1> QED BY <1>1, <1>2, <1>3, WindowStep, TypesInvariant, PTL DEF Spec
---------------------------------------------------------------------------
NoWaiterSends ==
  \A c \in Callers : calls[c] = "waiting" /\ calls'[c] = "writing" => ~loaded

LEMMA SentAsAllowed ==
  ASSUME PathFacts, CallTypes, [NoWaiterSends]_(PathProofs!vars), [Next]_vars,
         NEW c \in Callers, loaded, calls[c] # "writing", calls'[c] = "writing"
  PROVE  Permits(request'[c], published.mode)
<1> calls \in [Callers -> {"idle", "waiting", "writing"}]
  BY DEF PathFacts, Path!TypeOK
<1>1. calls[c] = "idle"
  BY DEF NoWaiterSends, PathProofs!vars
<1>2. ASSUME NEW d \in Callers,
             Refuse(d) \/ Cancel(d) \/ WriteLate(d) \/ EndWrite(d)
      PROVE  FALSE
  BY <1>1, <1>2, CallsStep
<1>3. PICK d \in Callers : Ask(d)
  BY <1>2, CallsUnchanged DEF Next, vars, path, LockStep, Report, Serve, ReadBack,
    ReportSuccess, ReportFailure, EndCall, Read, FailRead, Publish, DeviceChanges,
    Expire, CountWindow
<1>4. d = c
  BY <1>3, CallsStep
<1>5. PICK ask \in Requests :
        Permits(ask, published.mode) /\ request' = [request EXCEPT ![c] = ask]
  BY <1>3, <1>4 DEF Ask
<1> QED BY <1>5 DEF CallTypes

(* What an entity checked before its write still holds when the command    *)
(* leaves: a call that had to wait for _write_lock is refused.             *)
THEOREM CommandsAreAllowed == Spec => SentOnlyWhenAllowed
<1> DEFINE Allowed ==
      \A c \in Callers :
        loaded /\ calls[c] # "writing" /\ calls'[c] = "writing" =>
          Permits(request'[c], published.mode)
<1>1. PathFacts /\ Types /\ [NoWaiterSends]_(PathProofs!vars) /\ [Next]_vars
        => [Allowed]_vars
  BY SentAsAllowed DEF Types
<1>2. PathProofs!Spec => PathProofs!WaitersNeverSend
  BY CommandsAssumption, PathProofs!WaitersAreRefused DEF PathProofs!CooldownAssumption
<1>3. PathProofs!WaitersNeverSend => [][NoWaiterSends]_(PathProofs!vars)
  BY DEF PathProofs!WaitersNeverSend, NoWaiterSends
<1>4. [][Allowed]_vars => SentOnlyWhenAllowed
  BY DEF SentOnlyWhenAllowed
<1> HIDE DEF Allowed
<1> QED
  BY <1>1, <1>2, <1>3, <1>4, CommandsKeepToThePath, PathInvariant, TypesInvariant, PTL
     DEF Spec
---------------------------------------------------------------------------
(* Everything a number, select or switch may come to show was in its       *)
(* register, or is the "off" a locate switch starts with: what is published*)
(* or being read, what was read back, and the request of the write under   *)
(* way once that has reached the device.                                   *)
Real == held \cup {None} \cup MadeUp

HeldInv ==
  /\ device.value \in held
  /\ kind \notin {"standby", "unlock"} =>
       /\ {published.value, reading.value, last, written} \subseteq Real
       /\ \A c \in Callers : back[c] \in Real
  /\ served => \E c \in Callers : /\ calls[c] = "writing"
                                  /\ kind \in Thresholds \cup Locators =>
                                       request[c] \in held

LEMMA RealGrows ==
  ASSUME [Next]_vars
  PROVE  /\ Real \subseteq Real'
         /\ held' = held => Real' = Real
<1>1. held \subseteq held'
  BY DEF Next, vars, box, LockStep, Report, Ask, Refuse, WriteLate, Cancel, Serve,
    EndWrite, ReadBack, ReportSuccess, ReportFailure, EndCall, Read, FailRead, Publish,
    DeviceChanges, Expire, CountWindow, CountCooldown, Tick, Shutdown
<1>2. MadeUp' = MadeUp
  BY KindStays DEF MadeUp, Locators
<1> QED BY <1>1, <1>2 DEF Real

LEMMA ShownHeld ==
  ASSUME NEW H, None \in H, NEW seen, NEW old \in H, NEW left,
         seen.value \in H, kind \notin {"standby", "unlock"}
  PROVE  /\ Remembered(seen.value, old) \in H
         /\ Display(seen, old, left) \in H
BY DEF Remembered, Display

LEMMA RepublishHeld ==
  ASSUME Republish, kind' = kind, kind \notin {"standby", "unlock"}, NEW H, None \in H,
         published'.value \in H, last \in H
  PROVE  {last', written'} \subseteq H
<1>1. last' \in H
  BY ShownHeld DEF Republish
<1>2. Display(published', last', window') \in H
  BY <1>1, ShownHeld
<1> QED BY <1>1, <1>2 DEF Republish

LEMMA HeldInit == Init => HeldInv
<1> SUFFICES ASSUME Init PROVE HeldInv
  OBVIOUS
<1> PICK m \in Modes, v \in DeviceValues :
      device = [mode |-> m, value |-> v] /\ published = device /\ held = {v}
  BY DEF Init
<1>1. device.value \in held /\ published.value \in held /\ reading.value = None
  BY DEF Init, NoReading
<1>2. last \in Real /\ served = FALSE /\ \A c \in Callers : back[c] = None
  BY DEF Init, AtFirst, Real, MadeUp
<1>3. kind \notin {"standby", "unlock"} => written \in Real
  BY <1>1, <1>2, ShownHeld DEF Init, Real
<1> QED BY <1>1, <1>2, <1>3 DEF HeldInv, Real

LEMMA HeldStep ==
  ASSUME PathFacts, CallTypes, BoxTypes, HeldInv, [Next]_vars
  PROVE  HeldInv'
<1> calls \in [Callers -> {"idle", "waiting", "writing"}]
  BY DEF PathFacts, Path!TypeOK
<1> kind' = kind
  BY KindStays
<1> Thresholds' = Thresholds /\ Locators' = Locators
  BY DEF Thresholds, Locators
<1> None \in Real /\ held \subseteq Real
  BY DEF Real
<1> Real \subseteq Real'
  BY RealGrows
<1> DEFINE plain == kind \notin {"standby", "unlock"}
<1>1. ASSUME NEW c \in Callers, Ask(c)
      PROVE  HeldInv'
  <2>1. UNCHANGED <<back, device, held, served, published, reading, last, written>>
    BY <1>1 DEF Ask, box, data
  <2>2. PICK ask : request' = [request EXCEPT ![c] = ask]
    BY <1>1 DEF Ask
  <2>3. \A d \in Callers : calls[d] = "writing" =>
          calls'[d] = "writing" /\ request'[d] = request[d]
    BY <1>1, <2>2, CallsStep DEF CallTypes
  <2> QED BY <2>1, <2>3 DEF HeldInv
<1>2. ASSUME NEW c \in Callers, Refuse(c) \/ Cancel(c)
      PROVE  HeldInv'
  <2>1. UNCHANGED <<back, device, held, served, published, reading, last, written>>
    BY <1>2 DEF Refuse, Cancel, box, data
  <2>2. request' = [request EXCEPT ![c] = None]
    BY <1>2 DEF Refuse, Cancel
  <2>3. \A d \in Callers : calls[d] = "writing" =>
          calls'[d] = "writing" /\ request'[d] = request[d]
    BY <1>2, <2>2, CallsStep DEF CallTypes
  <2> QED BY <2>1, <2>3 DEF HeldInv
<1>3. ASSUME NEW c \in Callers, WriteLate(c)
      PROVE  HeldInv'
  <2>1. UNCHANGED <<request, back, device, held, served, published, reading, last,
                    written>>
    BY <1>3 DEF WriteLate, call, box, data
  <2>2. \A d \in Callers : calls[d] = "writing" => calls'[d] = "writing"
    BY <1>3, CallsStep
  <2> QED BY <2>1, <2>2 DEF HeldInv
<1>4. ASSUME NEW c \in Callers, Serve(c)
      PROVE  HeldInv'
  <2>1. /\ UNCHANGED <<calls, request, back, published, reading, last, written>>
        /\ held' = held \cup {device'.value} /\ calls[c] = "writing"
    BY <1>4 DEF Serve, path, call, data
  <2>2. kind \in Thresholds \cup Locators => device'.value = request[c]
    BY <1>4 DEF Serve, BoxTypes, Thresholds, Locators, Tests
  <2> QED BY <2>1, <2>2 DEF HeldInv
<1>5. ASSUME NEW c \in Callers, EndWrite(c)
      PROVE  HeldInv'
  <2>1. /\ UNCHANGED <<back, device, held, published, reading>>
        /\ served' = FALSE
    BY <1>5 DEF EndWrite
  <2>2. ASSUME plain PROVE {last', written'} \subseteq Real
    <3>1. Republish => {last', written'} \subseteq Real
      BY <2>1, <2>2, RepublishHeld DEF HeldInv
    <3>2. ASSUME served, Takes(c), kind \in Thresholds \cup Locators
          PROVE  {last', written'} \subseteq Real
      <4>1. PICK d \in Callers : calls[d] = "writing" /\ request[d] \in held
        BY <3>2 DEF HeldInv
      <4>2. d = c
        BY <1>5, <4>1, CallsStep DEF PathFacts, Path!LockOK
      <4>3. Display(published, last, window) \in Real
        BY <2>2, ShownHeld DEF HeldInv
      <4> QED BY <3>2, <4>1, <4>2, <4>3 DEF Takes
    <3> QED BY <1>5, <3>1, <3>2 DEF EndWrite, Acknowledged, Unacknowledged,
      Interrupted, Takes
  <2> QED BY <2>1, <2>2 DEF HeldInv
<1>6. ASSUME NEW c \in Callers, ReadBack(c)
      PROVE  HeldInv'
  <2>1. UNCHANGED <<calls, request, device, held, served, published, reading, last,
                    written>>
    BY <1>6 DEF ReadBack, path, box, data
  <2>2. plain => \A d \in Callers : back'[d] \in Real
    BY <1>6 DEF ReadBack, HeldInv, CallTypes
  <2> QED BY <2>1, <2>2 DEF HeldInv
<1>7. ASSUME NEW c \in Callers, Report(c)
      PROVE  HeldInv'
  <2>1. /\ UNCHANGED <<calls, device, held, served, published, reading>>
        /\ back' = [back EXCEPT ![c] = None] /\ request' = [request EXCEPT ![c] = None]
        /\ after[c] = "verifying"
    BY <1>7 DEF Report, ReportSuccess, ReportFailure, EndCall, path, box
  <2>2. calls[c] # "writing"
    BY <2>1 DEF CallTypes, Asked
  <2>3. ASSUME plain PROVE {last', written'} \subseteq Real
    <3>1. CASE ReportSuccess(c)
      <4>1. request[c] \in Real
        BY <2>3, <3>1 DEF ReportSuccess, HeldInv
      <4>2. last' \in Real
        BY <2>3, <3>1, <4>1, ShownHeld DEF ReportSuccess, HeldInv
      <4>3. Display(published, last', window) \in Real
        BY <2>3, <4>2, ShownHeld DEF HeldInv
      <4> QED BY <3>1, <4>2, <4>3 DEF ReportSuccess
    <3>2. CASE ReportFailure(c)
      BY <2>1, <2>3, <3>2, RepublishHeld DEF ReportFailure, HeldInv
    <3> QED BY <1>7, <3>1, <3>2 DEF Report
  <2>4. plain => \A d \in Callers : back'[d] \in Real
    BY <2>1 DEF HeldInv, CallTypes
  <2>5. \A d \in Callers : calls[d] = "writing" => request'[d] = request[d]
    BY <2>1, <2>2 DEF CallTypes
  <2> QED BY <2>1, <2>3, <2>4, <2>5 DEF HeldInv
<1>8. CASE Read
  <2>1. UNCHANGED <<calls, request, back, device, held, served, published, last, written>>
    BY <1>8 DEF Read, path, call, box
  <2>2. reading'.value \in {device.value, None}
    BY <1>8 DEF Read, Readings, Unconnected
  <2> QED BY <2>1, <2>2 DEF HeldInv
<1>9. CASE FailRead \/ Publish
  <2>1. /\ UNCHANGED <<calls, request, back, device, held, served>>
        /\ reading' = NoReading /\ Republish
        /\ published'.value \in {published.value, reading.value}
    BY <1>9 DEF FailRead, Publish, path, call, box
  <2>2. plain => published'.value \in Real
    BY <2>1 DEF HeldInv
  <2>3. plain => {last', written'} \subseteq Real
    BY <2>1, <2>2, RepublishHeld DEF HeldInv
  <2> QED BY <2>1, <2>2, <2>3 DEF HeldInv, NoReading
<1>10. CASE DeviceChanges
  <2>1. /\ UNCHANGED <<calls, request, back, served, published, reading, last, written>>
        /\ held' = held \cup {device'.value}
    BY <1>10 DEF DeviceChanges, path, call, data
  <2> QED BY <2>1 DEF HeldInv
<1>11. CASE CountWindow \/ CountCooldown
  <2>1. /\ UNCHANGED <<calls, request, back, device, held, served, published, reading>>
        /\ Republish
    BY <1>11, CallsUnchanged DEF CountWindow, CountCooldown, path, call, box
  <2>2. plain => {last', written'} \subseteq Real
    BY <2>1, RepublishHeld DEF HeldInv
  <2> QED BY <2>1, <2>2 DEF HeldInv
<1>12. CASE Expire \/ Tick \/ Shutdown \/ UNCHANGED vars
  <2>1. UNCHANGED <<calls, request, back, device, held, served, published, reading, last,
                    written>>
    BY <1>12, CallsUnchanged DEF Expire, Tick, Shutdown, vars, path, call, box, data
  <2> QED BY <2>1 DEF HeldInv
<1> QED
  BY <1>1, <1>2, <1>3, <1>4, <1>5, <1>6, <1>7, <1>8, <1>9, <1>10, <1>11, <1>12
     DEF Next, LockStep

(* No number, select or switch shows a value its register never held,      *)
(* whatever was asked for, lost or refused; a locate switch shows no "on"  *)
(* it never held, its first "off" being made up.                           *)
THEOREM OnlyHeldValuesAreShown == Spec => []ShownWasHeld
<1>1. PathFacts /\ Types /\ HeldInv /\ [Next]_vars => HeldInv'
  BY HeldStep DEF Types
<1>2. HeldInv => ShownWasHeld
  BY DEF HeldInv, Real, ShownWasHeld
<1> QED BY <1>1, <1>2, HeldInit, PathInvariant, TypesInvariant, PTL DEF Spec
============================================================================
