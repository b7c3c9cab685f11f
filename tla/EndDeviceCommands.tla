------------------------ MODULE EndDeviceCommands ------------------------
(***************************************************************************)
(* What the switches, selects, numbers and buttons of a Powercenter end    *)
(* device do around the write path of PowercenterCooldown: the checks      *)
(* before a write, the read-back after it, the tracking of a self-test and *)
(* the acknowledgement window of an ECPD unlock, while refreshes publish   *)
(* readings of a device that also changes by itself.                       *)
(*                                                                         *)
(* A behaviour is about one entity of one kind; several service calls on   *)
(* it may overlap.  One tick is one second.                                *)
(***************************************************************************)
EXTENDS Integers, Sequences

CONSTANTS
  Callers, Cooldown,   \* see PowercenterCooldown
  Values,              \* of the entity's register; for a test: its status
  OutOfRange,          \* the one outside the limits or options of the entity
  None,                \* no answer
  TestTimeout,         \* seconds a test is assumed to run
  RcmSettle,           \* seconds after which an unchanged RCM result counts
  AckWindow            \* ECPD_UNLOCK_ACK_SECONDS

ASSUMPTION CommandsAssumption ==
  /\ Cooldown \in Nat \ {0}
  /\ TestTimeout \in Nat \ {0} /\ RcmSettle \in Nat /\ AckWindow \in Nat \ {0}
  /\ OutOfRange \in Values /\ None \notin Values

VARIABLES
  loaded, calls, waiters, live, cooldown, countdown, blocked,
  kind,        \* the kind of the entity
  request,     \* the value each call asks for
  after,       \* a select's call after its write: "no", "settling", "verifying"
  back,        \* what it read back
  device,      \* the device's mode and value
  held,        \* the values it has held
  served,      \* the write under way has reached it
  published,   \* what coordinator.data says of it
  connected,   \* is_unit_connected: the last refresh worked and found it so
  reading,     \* what the refresh under way has read
  last,        \* _last_raw, _last_valid_value, _attr_is_on
  written,     \* the state the entity has written
  test,        \* the tracking of the self-test
  window,      \* seconds left of the acknowledgement window
  windowTask   \* its countdown task: "none", "sleeping", "due"

path == <<loaded, calls, waiters, live, cooldown, countdown, blocked>>
call == <<request, after, back>>
box == <<device, held, served>>
data == <<published, connected, reading, last, written>>
timers == <<test, window, windowTask>>
vars == <<path, kind, call, box, data, timers>>

Path == INSTANCE PowercenterCooldown
---------------------------------------------------------------------------
(* The kinds of entities, by what their code does.                         *)
Tests == {"ecpd_test", "rcm_test"}
Buttons == {"disconnect", "reset_manual_off"}
Selects == {"select", "protected_select"}
Thresholds == {"threshold"}
Enables == {"rcm_enable"}
Outputs == {"dido_output"}
Locators == {"localize"}
Switches == {"standby", "unlock", "rca_handle"} \cup Enables \cup Outputs \cup Locators

Kinds == Tests \cup Buttons \cup Selects \cup Thresholds \cup Switches

(* breaker_state, remote_control_selector, unlock_status                   *)
Modes ==
  CASE kind = "standby"    -> {"On", "Standby", "Standby trip", "Off"}
    [] kind = "rca_handle" -> {"Communication", "Input"}
    [] kind = "unlock"     -> {"locked", "unlocked", "waiting", "expiring"}
    [] kind = "protected_select" -> {"locked", "unlocked", "expiring"}
    [] OTHER               -> {"any"}

(* async_turn_on and async_turn_off of EcpdStandbySwitchEntity             *)
StandbyPermits(ask, mode) ==
  mode \in {"Standby"} \cup (IF ask = "off" THEN {"On", "Standby trip"} ELSE {})

(* _write_handle                                                           *)
HandlePermits(mode) == mode = "Communication"

(* _is_protected_write_unlocked                                            *)
ProtectedPermits(mode) == mode \in {"unlocked", "expiring"}

Permits(ask, mode) ==
  /\ kind = "standby"          => StandbyPermits(ask, mode)
  /\ kind = "rca_handle"       => HandlePermits(mode)
  /\ kind = "protected_select" => ProtectedPermits(mode)

(* The register behind the entity; a breaker's or lock's is its mode.      *)
Flag == {"on", "off"}
Registers == Values \cup Flag

(* Whose register a refresh reads.                                         *)
Polled == {"select", "rca_handle"} \cup Tests \cup Thresholds \cup Enables \cup Outputs

DeviceValues ==
  CASE kind = "select"                -> Values \ {OutOfRange}
    [] kind \in Tests \cup Thresholds -> Values
    [] kind \in Switches \ {"standby", "unlock"} -> Flag
    [] OTHER                          -> {OutOfRange}

Requests ==
  CASE kind \in Switches                   -> Flag
    [] kind \in Thresholds \cup {"select"} -> Values \ {OutOfRange}
    [] OTHER                              -> {OutOfRange}

(* native_value and current_option: the published value, or the last one.  *)
Valid(value) == value \notin {None, OutOfRange}

Remembered(value, old) ==
  IF kind \in Thresholds \cup {"select"} /\ Valid(value) THEN value ELSE old

StandbyIsOn(mode) ==
  CASE mode = "On"                          -> "on"
    [] mode \in {"Standby", "Standby trip"} -> "off"
    [] OTHER                                -> None

(* A request without its acknowledgement shows only inside the window.     *)
UnlockIsOn(status, left) ==
  CASE status \in {"unlocked", "expiring"} -> "on"
    [] status = "waiting"                  -> IF left > 0 THEN "on" ELSE "off"
    [] status = "locked"                   -> "off"
    [] OTHER                               -> None

(* What async_write_ha_state takes from the entity.                        *)
Display(seen, old, left) ==
  CASE kind = "standby"  -> StandbyIsOn(seen.mode)
    [] kind = "unlock"   -> UnlockIsOn(seen.mode, left)
    [] kind \in Locators -> old
    [] kind \in Thresholds \cup {"select"} -> Remembered(seen.value, old)
    [] kind \in {"rca_handle"} \cup Enables \cup Outputs -> seen.value
    [] OTHER             -> None

(* async_update_listeners                                                  *)
Republish ==
  /\ last' = Remembered(published'.value, last)
  /\ written' = Display(published', last', window')

Idle == [running |-> FALSE, baseline |-> None, age |-> 0, timeouts |-> {}]

(* A locate switch knows its own commands only: _attr_is_on = False.       *)
AtFirst == IF kind \in Locators THEN "off" ELSE None

NoReading == [link |-> "none", mode |-> "unknown", value |-> None]

Init ==
  /\ Path!Init
  /\ kind \in Kinds
  /\ request = [c \in Callers |-> None] /\ back = [c \in Callers |-> None]
  /\ after = [c \in Callers |-> "no"]
  /\ \E m \in Modes, v \in DeviceValues :
       /\ device = [mode |-> m, value |-> v] /\ published = device
       /\ held = {v}
  /\ served = FALSE /\ connected = TRUE /\ reading = NoReading
  /\ test = Idle /\ window = 0 /\ windowTask = "none"
  /\ last = AtFirst /\ written = Display(published, last, window)
---------------------------------------------------------------------------
(* start_device_test_tracking                                              *)
StartTracking ==
  test' = [running |-> TRUE, baseline |-> published.value, age |-> 0,
           timeouts |-> {TestTimeout}]

(* The old timeout task goes on: a mutant of BeginTracking.                *)
BeginTrackingTwice ==
  IF kind \in Tests
  THEN test' = [running |-> TRUE, baseline |-> published.value, age |-> 0,
                timeouts |-> test.timeouts \cup {TestTimeout}]
  ELSE UNCHANGED test

BeginTracking == IF kind \in Tests THEN StartTracking ELSE UNCHANGED test

(* Only the task forgotten: a mutant of CancelTracking.                    *)
CancelTimeout ==
  IF kind \in Tests THEN test' = [test EXCEPT !.timeouts = {}]
  ELSE UNCHANGED test

(* cancel_device_test_tracking                                             *)
CancelTracking == IF kind \in Tests THEN test' = Idle ELSE UNCHANGED test

(* No task to count down: a mutant of OpenWindow.                          *)
OpenWithoutTask == window' = AckWindow /\ windowTask' = "none"

(* start_ecpd_unlock_ack, reset_ecpd_unlock_ack                            *)
OpenWindow == window' = AckWindow /\ windowTask' = "sleeping"
CloseWindow == window' = 0 /\ windowTask' = "none"
SameWindow == UNCHANGED <<window, windowTask>>
---------------------------------------------------------------------------
(* A service call, up to its first await: the checks, the tracking, and    *)
(* the write lock, taken or waited for.                                    *)
Ask(c) ==
  /\ after[c] = "no" /\ connected
  /\ Path!WriteAtOnce(c) \/ Path!WaitForLock(c)
  /\ \E ask \in Requests :
       Permits(ask, published.mode) /\ request' = [request EXCEPT ![c] = ask]
  /\ BeginTracking
  /\ UNCHANGED <<kind, after, back, box, data, window, windowTask>>

(* HomeAssistantError: the button's except clause.                         *)
Refuse(c) ==
  /\ Path!RefuseWaiter(c)
  /\ CancelTracking
  /\ request' = [request EXCEPT ![c] = None]
  /\ UNCHANGED <<kind, after, back, box, data, window, windowTask>>

WriteLate(c) ==
  /\ Path!WriteAfterWait(c)
  /\ UNCHANGED <<kind, call, box, data, timers>>

(* A CancelledError: no except clause of a button sees it.                 *)
Cancel(c) ==
  /\ Path!CancelWaiter(c)
  /\ request' = [request EXCEPT ![c] = None]
  /\ UNCHANGED <<kind, after, back, box, data, timers>>

(* The mode a command leaves the device in.                                *)
Commanded(ask) ==
  CASE kind = "standby" -> IF ask = "on" THEN "On" ELSE "Standby"
    [] kind = "unlock"  -> IF ask = "on" THEN "waiting" ELSE "locked"
    [] OTHER            -> device.mode

(* The request reaches the device.                                         *)
Serve(c) ==
  /\ calls[c] = "writing" /\ ~served
  /\ served' = TRUE
  /\ device' = [device EXCEPT !.mode = Commanded(request[c]),
                               !.value = IF kind \in Tests \cup {"standby", "unlock"}
                                         THEN @ ELSE request[c]]
  /\ held' = held \cup {device'.value}
  /\ UNCHANGED <<path, kind, call, data, timers>>

ReadsBack(c) ==
  after' = IF kind \in Selects THEN [after EXCEPT ![c] = "settling"] ELSE after

(* A number takes the value over, a locate switch its state.               *)
Takes(c) ==
  IF kind \in Thresholds \cup Locators
  THEN /\ last' = request[c]
       /\ written' = IF kind \in Locators THEN request[c]
                     ELSE Display(published, last, window)
  ELSE Republish

Acknowledged(c) ==
  /\ ReadsBack(c)
  /\ CASE kind = "unlock" /\ request[c] = "on"  -> OpenWindow
       [] kind = "unlock" /\ request[c] = "off" -> CloseWindow
       [] OTHER                                -> SameWindow
  /\ Takes(c)
  /\ UNCHANGED test

(* Taken over all the same: a mutant of Unacknowledged.                    *)
TakenUnacknowledged(c) ==
  /\ ReadsBack(c)
  /\ CancelTracking /\ SameWindow
  /\ Takes(c)

(* No acknowledgement: an error; a select reads back all the same.         *)
Unacknowledged(c) ==
  /\ ReadsBack(c)
  /\ CancelTracking /\ SameWindow
  /\ Republish

Interrupted == UNCHANGED <<after, timers>> /\ Republish

(* The cooldown starts and republishes the entities; then the call goes on.*)
EndWrite(c) ==
  /\ Path!EndWrite(c)
  /\ UNCHANGED <<kind, back, device, held, published, connected, reading>>
  /\ \/ served /\ Acknowledged(c)
     \/ Unacknowledged(c)
     \/ Interrupted
  /\ served' = FALSE
  /\ request' = IF after'[c] = "no" THEN [request EXCEPT ![c] = None] ELSE request

(* A select, two seconds later.                                            *)
ReadBack(c) ==
  /\ after[c] = "settling"
  /\ after' = [after EXCEPT ![c] = "verifying"]
  /\ \E v \in {device.value, None} : back' = [back EXCEPT ![c] = v]
  /\ UNCHANGED <<path, kind, request, box, data, timers>>

EndCall(c) ==
  /\ after[c] = "verifying"
  /\ after' = [after EXCEPT ![c] = "no"]
  /\ back' = [back EXCEPT ![c] = None]
  /\ request' = [request EXCEPT ![c] = None]
  /\ UNCHANGED <<path, kind, box, published, connected, reading, timers>>

(* After async_request_refresh, which may have refreshed nothing: it is    *)
(* debounced, and a failed refresh leaves the old data.                    *)
ReportSuccess(c) ==
  /\ EndCall(c)
  /\ request[c] \in {back[c], published.value}
  /\ last' = Remembered(published.value, request[c])
  /\ written' = Display(published, last', window)

ReportFailure(c) ==
  /\ EndCall(c)
  /\ request[c] \notin {back[c], published.value}
  /\ Republish
---------------------------------------------------------------------------
(* A device whose connection state is answered and is another one than     *)
(* connected is not queried.  If that answer is missing the device does not*)
(* count as connected, but is queried; any other answer may be missing too.*)
Unconnected == [link |-> "down", mode |-> "unknown", value |-> None]

Readings ==
  {Unconnected} \cup
    [link : {"up", "down"},
     mode : {device.mode} \cup (IF device.mode = "any" THEN {} ELSE {"unknown"}),
     value : {device.value} \cup (IF kind \in Polled THEN {None} ELSE {})]

(* A poll without an answer to it is not one that found the device.        *)
IsUnitConnected(answers) == answers.link = "up"

(* A refresh reads.                                                        *)
Read ==
  /\ loaded /\ reading = NoReading
  /\ reading' \in Readings
  /\ UNCHANGED <<path, kind, call, box, published, connected, last, written, timers>>

FailRead ==
  /\ reading # NoReading
  /\ connected' = FALSE /\ reading' = NoReading
  /\ UNCHANGED <<path, kind, call, box, published, timers>>
  /\ Republish

(* _update_device_test_tracking                                            *)
Completed(value) ==
  /\ value # None
  /\ \/ value # test.baseline
     \/ kind = "rcm_test" /\ value # OutOfRange /\ test.age >= RcmSettle

(* Tracking and window are brought up to date, then the data is published. *)
Publish ==
  /\ reading # NoReading
  /\ published' = [mode |-> reading.mode, value |-> reading.value]
  /\ connected' = IsUnitConnected(reading)
  /\ reading' = NoReading
  /\ test' = IF test.running /\ Completed(reading.value) THEN Idle ELSE test
  /\ IF reading.mode = "unlocked" /\ window > 0 THEN CloseWindow ELSE SameWindow
  /\ Republish
  /\ UNCHANGED <<path, kind, call, box>>

(* The device is operated at the site, or by another master.               *)
DeviceChanges ==
  /\ \E m \in Modes, v \in DeviceValues :
       /\ device.mode = m \/ device.value = v
       /\ device' = [mode |-> m, value |-> v]
  /\ held' = held \cup {device'.value}
  /\ UNCHANGED <<path, kind, call, served, data, timers>>
---------------------------------------------------------------------------
(* _async_stop_device_test_tracking_after_timeout                          *)
Expire ==
  /\ 0 \in test.timeouts
  /\ test' = IF test.timeouts = {0} THEN Idle
             ELSE [test EXCEPT !.running = FALSE, !.timeouts = @ \ {0}]
  /\ UNCHANGED <<path, kind, call, box, data, window, windowTask>>

(* _async_run_ecpd_unlock_ack wakes up.                                    *)
CountWindow ==
  /\ windowTask = "due"
  /\ windowTask' = IF window > 0 THEN "sleeping" ELSE "none"
  /\ UNCHANGED <<path, kind, call, box, published, connected, reading, test, window>>
  /\ Republish

CountCooldown ==
  /\ Path!CountDown
  /\ UNCHANGED <<kind, call, box, published, connected, reading, timers>>
  /\ Republish

(* Not bounded below: a mutant of Less.                                    *)
LessUnbounded(n) == n - 1

(* get_ecpd_unlock_ack_remaining, a second later.                          *)
Less(n) == IF n > 0 THEN n - 1 ELSE 0

Tick ==
  /\ Path!Tick
  /\ 0 \notin test.timeouts /\ windowTask # "due"
  /\ test' = [test EXCEPT !.age = IF test.running /\ @ < TestTimeout THEN @ + 1 ELSE @,
                          !.timeouts = {n - 1 : n \in @}]
  /\ window' = Less(window)
  /\ windowTask' = IF windowTask = "sleeping" THEN "due" ELSE windowTask
  /\ UNCHANGED <<kind, call, box, data>>

Shutdown ==
  /\ Path!Shutdown
  /\ test' = Idle
  /\ CloseWindow
  /\ UNCHANGED <<kind, call, box, data>>
---------------------------------------------------------------------------
LockStep(c) == Refuse(c) \/ WriteLate(c)
Report(c) == ReportSuccess(c) \/ ReportFailure(c)

Next ==
  \/ \E c \in Callers :
       \/ Ask(c) \/ LockStep(c) \/ Cancel(c)
       \/ Serve(c) \/ EndWrite(c) \/ ReadBack(c) \/ Report(c)
  \/ Read \/ FailRead \/ Publish \/ DeviceChanges
  \/ Expire \/ CountWindow \/ CountCooldown \/ Tick \/ Shutdown

(* Every request has a timeout; ready tasks and timers run.                *)
Fairness ==
  /\ \A c \in Callers :
       WF_vars(LockStep(c)) /\ WF_vars(EndWrite(c))
  /\ WF_vars(Expire) /\ WF_vars(CountWindow) /\ WF_vars(CountCooldown)
  /\ WF_vars(Tick)

Spec == Init /\ [][Next]_vars

FairSpec == Spec /\ Fairness
---------------------------------------------------------------------------
(* Properties.                                                             *)

TypeOK ==
  /\ Path!TypeOK
  /\ kind \in Kinds
  /\ request \in [Callers -> Registers \cup {None}]
  /\ after \in [Callers -> {"no", "settling", "verifying"}]
  /\ back \in [Callers -> Registers \cup {None}]
  /\ device \in [mode : Modes, value : Registers]
  /\ held \subseteq Registers
  /\ {served, connected} \subseteq BOOLEAN
  /\ reading.link \in {"up", "down", "none"}
  /\ \A r \in {published, reading} :
       /\ r.mode \in Modes \cup {"unknown"}
       /\ r.value \in Registers \cup {None}
  /\ {last, written} \subseteq Registers \cup {None}
  /\ test \in [running : BOOLEAN, baseline : Values \cup {None},
               age : 0 .. TestTimeout, timeouts : SUBSET (0 .. TestTimeout)]
  /\ window \in 0 .. AckWindow
  /\ windowTask \in {"none", "sleeping", "due"}

(* A command is sent only in a state of the device, as published at that   *)
(* moment, in which its entity permits it: the check made before a call    *)
(* waited for the lock is never relied on, since the cooldown refuses it.  *)
SentOnlyWhenAllowed ==
  [][\A c \in Callers :
       loaded /\ calls[c] # "writing" /\ calls'[c] = "writing" =>
         Permits(request'[c], published.mode)]_vars

(* A locate switch shows "off" before its first command, whatever its      *)
(* device does.                                                            *)
MadeUp == IF kind \in Locators THEN {"off"} ELSE {}

(* A number, select or switch never shows a value its register has not     *)
(* held: neither one that was only asked for, nor one made up for a lost   *)
(* reading.  Of a locate switch this is said of "on" only.                 *)
ShownWasHeld ==
  kind \notin {"standby", "unlock"} => written \in held \cup {None} \cup MadeUp

(* A test shown as running has a timeout task that will end it.            *)
RunningHasTimeout == test.running => test.timeouts # {}

(* A test pressed again has its full time: no timeout of an earlier press  *)
(* ends it.                                                                *)
RestartGetsFullTime ==
  [][Expire /\ test.running => test.age >= TestTimeout]_vars

(* The unlock switch shows what its status and the acknowledgement window  *)
(* say now, although the window also closes by time alone: whoever changes *)
(* one of them, or the countdown task, writes the state anew.              *)
UnlockFollowsWindow ==
  loaded /\ kind = "unlock" /\ windowTask # "due" =>
    /\ written = UnlockIsOn(published.mode, window)
    /\ window > 0 => windowTask = "sleeping"

(* When nothing more is asked for, a test stops being shown as running and *)
(* the acknowledgement window closes, whatever the device answers.         *)
DerivedStatesEnd ==
  <>[](\A c \in Callers : calls[c] = "idle") => <>[](~test.running /\ window = 0)

(* select.py: "Treat the subsequent read-back value as the source of truth *)
(* to avoid false HA service errors."                                      *)
SuccessMatchesReadback ==
  [][\A c \in Callers :
       ReportSuccess(c) => back[c] = None \/ request[c] \in {back[c], device.value}]_vars
===========================================================================
