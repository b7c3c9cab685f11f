------------------------ MODULE VersiChargeControl ------------------------
(***************************************************************************)
(* Charge control of one VersiCharge charger: the part of                  *)
(* SentronCoordinator (coordinator.py) that turns entity service calls     *)
(* into Modbus writes, the read-only poll that refreshes the published     *)
(* snapshot, and the charger with its connection.                          *)
(*                                                                         *)
(* Everything runs on one asyncio event loop, so a handler is atomic       *)
(* between two awaits.  A service call awaits the I/O lock, the request    *)
(* and its response; a poll awaits every register block it reads.  Those   *)
(* are the points at which the actions below interleave.                   *)
(*                                                                         *)
(* A call that a guard refuses, or that is a no-op, changes nothing and is *)
(* a stuttering step.  The one refusal that changes state is               *)
(* RefuseFallback.                                                         *)
(***************************************************************************)
EXTENDS PowerConversion

CONSTANTS
  Callers,             \* service calls that may overlap
  Phases,              \* what register 1642 says: 1 or 3
  Install,             \* versicharge_installation_current, in A
  Modern,              \* the register profile scales (uses_modern_scaling)
  Interval,            \* VERSICHARGE_COMMAND_INTERVAL_SECONDS, in ticks
  Inputs,              \* powers a user enters, in 0.01 kW
  FallbackCurrents,    \* fallback currents a user enters, in A
  FallbackTimes,       \* fallback times a user enters, in s
  RawLimits,           \* initial contents of register 1633
  RawPairs,            \* initial contents of registers 1660/1661
  OtherLimits,         \* what other controllers write to register 1633
  MayFail              \* requests may be lost, refused, late or abandoned

ASSUMPTION ControlAssumption ==
  /\ Phases \in {1, 3}
  /\ Install \in MinCurrent .. MaxCurrent
  /\ Modern \in BOOLEAN
  /\ Interval \in Nat \ {0}
  /\ Inputs \subseteq Nat \ {0}
  /\ FallbackCurrents \subseteq Nat
  /\ FallbackTimes \subseteq Nat
  /\ RawLimits \subseteq Nat /\ OtherLimits \subseteq Nat
  /\ RawPairs \subseteq Nat \X Nat
  /\ MayFail \in BOOLEAN

VARIABLES
  loaded,         \* the config entry is set up and not shut down
  linkOpen,       \* SentronModbusApi.client is not None
  device,         \* the charger: register 1633, registers 1660/1661
  wire,           \* the one write request the charger has not answered
  calls,          \* the service calls in flight
  inProgress,     \* _versicharge_command_in_progress
  sinceCommand,   \* ticks since _versicharge_last_command_started
  sinceLocal,     \* ticks since _versicharge_last_local_target_update
  values,         \* the published values of the charger
  phase,          \* _versicharge_effective_phase_count
  target,         \* _versicharge_target_power_kw, in 0.1 kW
  updateOk,       \* last_update_success
  poll            \* the refresh in flight and what it has read so far

entry  == <<loaded, linkOpen>>
timers == <<sinceCommand, sinceLocal>>
shown  == <<values, phase, target, updateOk>>
vars   == <<entry, device, wire, calls, inProgress, timers, shown, poll>>
---------------------------------------------------------------------------
Kinds == {"target", "resume", "pause", "fallback"}

(* A service call: `held` says whether the values dictionary it captured   *)
(* is still the published one.                                             *)
NoCall == [st |-> "idle", kind |-> "pause", amps |-> 0, power |-> None,
           pair |-> <<0, 0>>, held |-> TRUE]

Call == [st : {"idle", "queued", "sent", "answered"}, kind : Kinds,
         amps : Nat, power : Nat \cup {None}, pair : Nat \X Nat,
         held : BOOLEAN]

NoRequest == [kind |-> "none", amps |-> 0, pair |-> <<0, 0>>]

NoPoll == [st |-> "idle", limit |-> None, pair |-> None]

InFlight(c) == calls[c].st # "idle"

(* The I/O lock is free and the charger owes no answer: requests of one    *)
(* connection are served in order, one at a time.                          *)
LinkFree ==
  /\ wire = NoRequest
  /\ \A c \in Callers : calls[c].st \notin {"sent", "answered"}

(* versicharge_enabled_state: None, True, False.  `fresh` is source.       *)
ControlState ==
  IF values.source = "none" THEN "unknown"
  ELSE IF values.limit >= 100 * MinCurrent THEN "charging" ELSE "paused"

CanConvert(power) == phase # None /\ Convertible(power, phase, Install)

(* The availability check, and HA's refusal to call an unavailable entity. *)
Available == loaded /\ updateOk

Init ==
  /\ loaded = TRUE /\ linkOpen = TRUE
  /\ device \in [raw : RawLimits, pair : RawPairs]
  /\ wire = NoRequest
  /\ calls = [c \in Callers |-> NoCall]
  /\ inProgress = FALSE
  /\ sinceCommand = Interval /\ sinceLocal = Interval
  /\ values = [limit |-> None, source |-> "none", pair |-> None]
  /\ phase = None /\ target = None
  /\ updateOk = FALSE
  /\ poll = [NoPoll EXCEPT !.st = "limit"]      \* the first refresh
---------------------------------------------------------------------------
(* Service calls up to their first await.                                  *)

(* _begin_versicharge_command, and the wait for the I/O lock.              *)
Begin(c, spaced, call) ==
  /\ ~InFlight(c) /\ ~inProgress
  /\ spaced => sinceCommand = Interval
  /\ inProgress' = TRUE
  /\ sinceCommand' = 0
  /\ calls' = [calls EXCEPT ![c] = [call EXCEPT !.st = "queued"]]
  /\ UNCHANGED <<entry, device, wire, sinceLocal, shown, poll>>

LimitCall(kind, amps, power) ==
  [NoCall EXCEPT !.kind = kind, !.amps = amps, !.power = power]

(* async_set_versicharge_target_power_kw while charging at another limit.  *)
SetTarget(c, input) ==
  LET power == QuantizePower(input)
      amps  == AmpsForPower(power, phase)
  IN  /\ Available /\ CanConvert(power)
      /\ ControlState = "charging" /\ values.limit # 100 * amps
      /\ Begin(c, TRUE, LimitCall("target", amps, power))

(* The guard skipped for a target that needs no write: a mutant of         *)
(* SetTargetLocally.                                                       *)
SetTargetUnguarded(input) ==
  LET power == QuantizePower(input)
  IN  /\ Available /\ CanConvert(power) /\ power # target
      /\ \/ ControlState = "paused"
         \/ /\ ControlState = "charging"
            /\ values.limit = 100 * AmpsForPower(power, phase)
      /\ sinceLocal = Interval
      /\ sinceLocal' = 0
      /\ target' = power
      /\ UNCHANGED <<entry, device, wire, calls, inProgress, sinceCommand,
                     values, phase, updateOk, poll>>

(* The same call while paused, or when the new target is the same ampere.  *)
SetTargetLocally(input) ==
  LET power == QuantizePower(input)
  IN  /\ Available /\ ~inProgress /\ CanConvert(power) /\ power # target
      /\ \/ ControlState = "paused"
         \/ /\ ControlState = "charging"
            /\ values.limit = 100 * AmpsForPower(power, phase)
      /\ sinceLocal = Interval
      /\ sinceLocal' = 0
      /\ target' = power
      /\ UNCHANGED <<entry, device, wire, calls, inProgress, sinceCommand,
                     values, phase, updateOk, poll>>

(* The remembered target, or the lower bound when there is none.           *)
ResumePower ==
  IF target # None THEN target ELSE NominalPower(MinCurrent, phase)

(* async_set_versicharge_enabled(True).                                    *)
Resume(c) ==
  /\ Available /\ phase # None /\ CanConvert(ResumePower)
  /\ ControlState # "charging"
  /\ Begin(c, TRUE,
       LimitCall("resume", AmpsForPower(ResumePower, phase), ResumePower))

(* async_set_versicharge_enabled(False).                                   *)
Pause(c) ==
  /\ Available /\ ControlState # "paused"
  /\ Begin(c, FALSE, LimitCall("pause", 0, None))

(* The pair the call would write: one half entered, the other one read.    *)
EnteredCurrent(current) == <<current, values.pair[2]>>
EnteredTime(time)       == <<values.pair[1], time>>

EnteredPairs ==
  IF values.pair = None THEN {}      \* the entity is unavailable
  ELSE {EnteredCurrent(a) : a \in FallbackCurrents}
         \cup {EnteredTime(t) : t \in FallbackTimes}

ValidPair(pair) ==
  /\ pair[1] = 0 \/ pair[1] \in MinCurrent .. Install
  /\ pair[2] = 0 \/ pair[2] \in 60 .. 600

(* async_set_versicharge_fallback.                                         *)
SetFallback(c) ==
  /\ Available
  /\ \E pair \in EnteredPairs :
       /\ ValidPair(pair)
       /\ Begin(c, FALSE, [NoCall EXCEPT !.kind = "fallback", !.pair = pair])

(* The same call refused after it took the guard: the guard is given back, *)
(* the start of a command stays recorded.                                  *)
RefuseFallback ==
  /\ Available /\ ~inProgress
  /\ \E pair \in EnteredPairs : ~ValidPair(pair)
  /\ sinceCommand' = 0
  /\ UNCHANGED <<entry, device, wire, calls, inProgress, sinceLocal, shown,
                 poll>>
---------------------------------------------------------------------------
(* A command after its first await.                                        *)

(* The request leaves under the I/O lock: write_uint16, write_registers.   *)
Send(c) ==
  /\ calls[c].st = "queued" /\ linkOpen /\ LinkFree
  /\ calls' = [calls EXCEPT ![c].st = "sent"]
  /\ wire' = [kind |-> calls[c].kind, amps |-> calls[c].amps,
              pair |-> calls[c].pair]
  /\ UNCHANGED <<entry, device, inProgress, timers, shown, poll>>

(* The guard left behind: a mutant of EndCommand.                          *)
KeepGuard(c) ==
  /\ calls' = [calls EXCEPT ![c] = NoCall]
  /\ inProgress' = inProgress

(* _end_versicharge_command, in the finally block.                         *)
EndCommand(c) ==
  /\ calls' = [calls EXCEPT ![c] = NoCall]
  /\ inProgress' = FALSE

(* The target not committed: a mutant of AckedTarget.                      *)
OldTarget(c) == target

(* A target or resume commits its target, a pause leaves it alone.         *)
AckedTarget(c) == IF calls[c].kind = "pause" THEN target ELSE calls[c].power

(* The answer to a limit command: the snapshot first, then the target.     *)
LimitAcknowledged(c) ==
  /\ calls[c].st = "answered" /\ calls[c].kind # "fallback"
  /\ EndCommand(c)
  /\ values' = [values EXCEPT !.limit = 100 * calls[c].amps,
                              !.source = "write_ack"]
  /\ target' = AckedTarget(c)
  /\ UNCHANGED <<entry, device, wire, timers, phase, updateOk, poll>>

(* The answer to a fallback command goes into the captured dictionary.     *)
FallbackAcknowledged(c) ==
  /\ calls[c].st = "answered" /\ calls[c].kind = "fallback"
  /\ EndCommand(c)
  /\ values' = IF calls[c].held THEN [values EXCEPT !.pair = calls[c].pair]
               ELSE values
  /\ UNCHANGED <<entry, device, wire, timers, phase, target,
                 updateOk, poll>>

(* No acknowledgement: the request was refused or unanswered for the       *)
(* request timeout, or there is no client any more.                        *)
NotAcknowledged(c) ==
  /\ \/ MayFail /\ calls[c].st = "sent"
     \/ ~linkOpen /\ calls[c].st = "queued"
  /\ EndCommand(c)
  /\ UNCHANGED <<entry, device, wire, timers, shown, poll>>

(* The command deadline, or the cancellation of the calling task.  The     *)
(* request may have left, and may still be served.                         *)
Abandoned(c) ==
  /\ MayFail /\ InFlight(c)
  /\ EndCommand(c)
  /\ UNCHANGED <<entry, device, wire, timers, shown, poll>>
---------------------------------------------------------------------------
(* The charger.                                                            *)

Answered == [c \in Callers |->
  IF calls[c].st = "sent" THEN [calls[c] EXCEPT !.st = "answered"]
  ELSE calls[c]]

(* The charger executes the request and answers whoever still waits.       *)
ServeRequest ==
  /\ wire # NoRequest
  /\ device' = IF wire.kind = "fallback" THEN [device EXCEPT !.pair = wire.pair]
               ELSE [device EXCEPT !.raw = wire.amps]
  /\ wire' = NoRequest
  /\ calls' = Answered
  /\ UNCHANGED <<entry, inProgress, timers, shown, poll>>

(* The request is lost, or refused by the charger.                         *)
LoseRequest ==
  /\ MayFail /\ wire # NoRequest
  /\ wire' = NoRequest
  /\ UNCHANGED <<entry, device, calls, inProgress, timers, shown, poll>>

(* Another controller (OCPP backend, app, load management) sets the limit. *)
OtherController ==
  /\ \E raw \in OtherLimits : device' = [device EXCEPT !.raw = raw]
  /\ UNCHANGED <<entry, wire, calls, inProgress, timers, shown, poll>>
---------------------------------------------------------------------------
(* The poll, _async_update_data: register blocks in the code's order, one  *)
(* await each.  The blocks without control data are left out.              *)

StartPoll ==
  /\ loaded /\ poll.st = "idle"
  /\ poll' = [NoPoll EXCEPT !.st = "limit"]
  /\ UNCHANGED <<entry, device, wire, calls, inProgress, timers, shown>>

ReadLimit ==
  /\ poll.st = "limit" /\ linkOpen /\ LinkFree
  /\ poll' = [poll EXCEPT !.st = "pair",
                          !.limit = NormalizeReadback(device.raw, Modern)]
  /\ UNCHANGED <<entry, device, wire, calls, inProgress, timers, shown>>

MissLimit ==
  /\ poll.st = "limit" /\ (MayFail \/ ~linkOpen)
  /\ poll' = [poll EXCEPT !.st = "pair"]
  /\ UNCHANGED <<entry, device, wire, calls, inProgress, timers, shown>>

ReadPair ==
  /\ poll.st = "pair" /\ linkOpen /\ LinkFree
  /\ poll' = [poll EXCEPT !.st = "publish", !.pair = device.pair]
  /\ UNCHANGED <<entry, device, wire, calls, inProgress, timers, shown>>

MissPair ==
  /\ poll.st = "pair" /\ (MayFail \/ ~linkOpen)
  /\ poll' = [poll EXCEPT !.st = "publish"]
  /\ UNCHANGED <<entry, device, wire, calls, inProgress, timers, shown>>

(* The target is initialised once, from the reading or the lower bound.    *)
PolledTarget(newPhase) ==
  IF target # None \/ newPhase = None THEN target
  ELSE IF poll.limit # None /\ poll.limit >= 100 * MinCurrent
         THEN NominalPower(InitialAmps(poll.limit, Install), newPhase)
         ELSE NominalPower(MinCurrent, newPhase)

(* Every reading called fresh: a mutant of PollSource.                     *)
AlwaysFresh(limit) == "poll"

(* charging_current_limit_fresh and _source of a reading.                  *)
PollSource(limit) == IF limit = None THEN "none" ELSE "poll"

(* An acknowledged limit kept over a reading: a mutant of PolledValues.    *)
KeepAcknowledged ==
  IF values.source = "write_ack" THEN values
  ELSE [limit |-> poll.limit, source |-> PollSource(poll.limit),
        pair |-> poll.pair]

PolledValues ==
  [limit |-> poll.limit, source |-> PollSource(poll.limit),
   pair |-> poll.pair]

(* The cycle succeeds: a new values dictionary replaces the published one. *)
(* An unread phase register keeps the last phase count.                    *)
PublishPoll ==
  /\ poll.st = "publish"
  /\ \E newPhase \in {Phases} \cup
                     (IF MayFail \/ ~linkOpen THEN {phase} ELSE {}) :
       /\ phase' = newPhase
       /\ target' = PolledTarget(newPhase)
  /\ values' = PolledValues
  /\ updateOk' = TRUE
  /\ calls' = [c \in Callers |-> [calls[c] EXCEPT !.held = ~InFlight(c)]]
  /\ poll' = NoPoll
  /\ UNCHANGED <<entry, device, wire, inProgress, timers>>

(* No register block answered: UpdateFailed, the old values stay.          *)
FailPoll ==
  /\ MayFail \/ ~linkOpen
  /\ poll.st = "publish" /\ poll.limit = None /\ poll.pair = None
  /\ updateOk' = FALSE
  /\ poll' = NoPoll
  /\ UNCHANGED <<entry, device, wire, calls, inProgress, timers, values, phase,
                 target>>
---------------------------------------------------------------------------
(* Time and the end of the entry.                                          *)

Tick ==
  /\ sinceCommand' = IF sinceCommand < Interval THEN sinceCommand + 1
                     ELSE Interval
  /\ sinceLocal' = IF sinceLocal < Interval THEN sinceLocal + 1 ELSE Interval
  /\ UNCHANGED <<entry, device, wire, calls, inProgress, shown, poll>>

(* async_shutdown up to its await of the I/O lock in async_close.          *)
Shutdown ==
  /\ loaded
  /\ loaded' = FALSE
  /\ inProgress' = FALSE
  /\ UNCHANGED <<linkOpen, device, wire, calls, timers, shown, poll>>

CloseLink ==
  /\ ~loaded /\ linkOpen
  /\ \A c \in Callers : calls[c].st \notin {"sent", "answered"}
  /\ linkOpen' = FALSE
  /\ UNCHANGED <<loaded, device, wire, calls, inProgress, timers, shown, poll>>
---------------------------------------------------------------------------
Start(c) ==
  \/ \E input \in Inputs : SetTarget(c, input)
  \/ Resume(c)
  \/ Pause(c)
  \/ SetFallback(c)

(* No request timeout and no deadline: a mutant of Finish.                 *)
FinishWhenAnswered(c) == LimitAcknowledged(c) \/ FallbackAcknowledged(c)

Finish(c) ==
  \/ LimitAcknowledged(c)
  \/ FallbackAcknowledged(c)
  \/ NotAcknowledged(c)
  \/ Abandoned(c)

PollStep ==
  ReadLimit \/ MissLimit \/ ReadPair \/ MissPair \/ PublishPoll \/ FailPoll

Next ==
  \/ \E c \in Callers : Start(c) \/ Send(c) \/ Finish(c)
  \/ \E input \in Inputs : SetTargetLocally(input)
  \/ RefuseFallback
  \/ ServeRequest \/ LoseRequest \/ OtherController
  \/ StartPoll \/ PollStep
  \/ Tick \/ Shutdown \/ CloseLink

(* The event loop runs every ready task, the I/O lock is first come first  *)
(* served, every request has a timeout and every command a deadline.       *)
Fairness ==
  /\ \A c \in Callers : SF_vars(Send(c)) /\ WF_vars(Finish(c))
  /\ WF_vars(ServeRequest \/ LoseRequest)
  /\ WF_vars(StartPoll) /\ WF_vars(PollStep)
  /\ WF_vars(CloseLink)

Spec == Init /\ [][Next]_vars

FairSpec == Spec /\ Fairness
---------------------------------------------------------------------------
(* Properties.                                                             *)

Pair == Nat \X Nat

(* Types, and the one-line facts about which field goes with which: every  *)
(* fresh snapshot has a limit, and only a fresh one has.                   *)
TypeOK ==
  /\ loaded \in BOOLEAN /\ linkOpen \in BOOLEAN /\ inProgress \in BOOLEAN
  /\ device \in [raw : Nat, pair : Pair]
  /\ wire \in [kind : Kinds \cup {"none"}, amps : Nat, pair : Pair]
  /\ calls \in [Callers -> Call]
  /\ sinceCommand \in 0 .. Interval /\ sinceLocal \in 0 .. Interval
  /\ values \in [limit : Nat \cup {None}, source : {"none", "poll", "write_ack"},
                 pair : Pair \cup {None}]
  /\ values.source = "none" <=> values.limit = None
  /\ phase \in {None, Phases}
  /\ target \in Nat \cup {None}
  /\ updateOk \in BOOLEAN
  /\ poll \in [st : {"idle", "limit", "pair", "publish"},
               limit : Nat \cup {None}, pair : Pair \cup {None}]

(* The fail-fast guard is exactly "one command is in flight": however a    *)
(* command ends (acknowledged, refused, timed out, cancelled), the guard   *)
(* is given back with it, and no two commands ever overlap, not even       *)
(* around a shutdown, which drops the guard under a command in flight.     *)
SingleFlight ==
  /\ \A c, d \in Callers : InFlight(c) /\ InFlight(d) => c = d
  /\ loaded => (inProgress <=> \E c \in Callers : InFlight(c))
  /\ ~loaded => ~inProgress

(* A charging limit the charger acknowledged is the whole-ampere value of  *)
(* the target shown to the user, for as long as no poll replaced it: the   *)
(* target commits with the acknowledgement, and no later local edit of the *)
(* target can part from the acknowledged ampere.                           *)
AckedLimitMatchesTarget ==
  values.source = "write_ack" /\ values.limit # 0 =>
    /\ target # None
    /\ values.limit = 100 * AmpsForPower(target, Phases)

(* There is a target exactly when the phase count is known, and it always  *)
(* converts: a resume never fails on its remembered target, and the branch *)
(* that resumes without one is only ever refused.                          *)
TargetUsable ==
  /\ target = None <=> phase = None
  /\ target # None => Convertible(target, Phases, Install)

(* While a target or resume command waits for its answer nobody else moves *)
(* the target: it changes only with that answer.  This is why even a call  *)
(* that writes nothing is refused while a command is in progress.          *)
TargetStable(c) ==
  InFlight(c) /\ calls[c].kind \in {"target", "resume"} /\ target' # target =>
    calls[c].st = "answered" /\ ~InFlight(c)' /\ target' = calls[c].power

TargetMovesWithItsAnswer ==
  [][loaded => \A c \in Callers : TargetStable(c)]_vars

(* A command in flight always comes to an end.                             *)
CommandEnds ==
  \A c \in Callers : InFlight(c) ~> ~InFlight(c)

(* Once the charger is left alone (no command, no late request, no other   *)
(* controller), an available charger does not show a stale limit or        *)
(* fallback pair for ever: from some poll on it shows the registers, or    *)
(* none when they were not read.  Until then a poll that overlapped the    *)
(* last command may have published a reading older than its answer.        *)
Untouched ==
  /\ loaded /\ wire = NoRequest
  /\ \A c \in Callers : ~InFlight(c)

SnapshotCatchesUp ==
  <>[]Untouched /\ <>[][device' = device]_vars =>
    <>[](updateOk =>
           /\ values.limit \in {None, NormalizeReadback(device.raw, Modern)}
           /\ values.pair \in {None, device.pair})

(* docs/VERSICHARGE.md: "Changing the power target while paused only       *)
(* updates this resume value and performs no Modbus write."  A target      *)
(* command never takes the limit register from a pause to a charge.        *)
TargetEditNeverStartsCharger ==
  [][wire.kind = "target" /\ device.raw < MinCurrent
       => device'.raw < MinCurrent]_vars
===========================================================================
