----------------------- MODULE PowercenterCooldown -----------------------
(***************************************************************************)
(* The write path of a Powercenter gateway and its end devices             *)
(* (coordinator.py): the write lock, the delayed-ACK cooldown that every   *)
(* command and device write starts, the countdown task that republishes    *)
(* the guarded entities, and the shutdown of the coordinator.              *)
(*                                                                         *)
(* The four write_..._with_cooldown methods differ only in the request     *)
(* they send.  One tick is the second the countdown task sleeps.           *)
(***************************************************************************)
EXTENDS Integers, Sequences

CONSTANTS
  Callers,       \* service calls that may overlap
  Cooldown       \* ECPD_STANDBY_COOLDOWN_SECONDS, in ticks

ASSUMPTION CooldownAssumption == Cooldown \in Nat \ {0}

VARIABLES
  loaded,      \* the coordinator has not been shut down
  calls,       \* "idle", "waiting" for _write_lock, "writing" under it
  waiters,     \* the callers waiting, in order of arrival
  live,        \* the write under way was issued before the shutdown
  cooldown,    \* get_powercenter_write_cooldown_remaining()
  countdown,   \* the countdown task: "none", "sleeping", "due"
  blocked      \* what the guarded entities published: not available

vars == <<loaded, calls, waiters, live, cooldown, countdown, blocked>>

Locked == \E c \in Callers : calls[c] = "writing"

Init ==
  /\ loaded = TRUE
  /\ calls = [c \in Callers |-> "idle"]
  /\ waiters = << >>
  /\ live = FALSE
  /\ cooldown = 0
  /\ countdown = "none"
  /\ blocked = FALSE
---------------------------------------------------------------------------
(* Home Assistant and the entities' own pre-checks call only while         *)
(* should_block_powercenter_interaction is false.                          *)
MayCall(c) == loaded /\ calls[c] = "idle" /\ cooldown = 0

(* The lock left out: a mutant of WriteAtOnce.                             *)
WriteUnlocked(c) ==
  /\ MayCall(c)
  /\ calls' = [calls EXCEPT ![c] = "writing"]
  /\ live' = TRUE
  /\ UNCHANGED <<loaded, waiters, cooldown, countdown, blocked>>

(* The lock is free: the caller takes it and sends without suspending.     *)
WriteAtOnce(c) ==
  /\ MayCall(c) /\ ~Locked /\ waiters = << >>
  /\ calls' = [calls EXCEPT ![c] = "writing"]
  /\ live' = TRUE
  /\ UNCHANGED <<loaded, waiters, cooldown, countdown, blocked>>

(* The lock is taken or promised to an earlier caller.                     *)
WaitForLock(c) ==
  /\ MayCall(c) /\ (Locked \/ waiters # << >>)
  /\ calls' = [calls EXCEPT ![c] = "waiting"]
  /\ waiters' = Append(waiters, c)
  /\ UNCHANGED <<loaded, live, cooldown, countdown, blocked>>

TakesLock(c) ==
  /\ waiters # << >> /\ c = Head(waiters) /\ ~Locked
  /\ waiters' = Tail(waiters)

(* _require_powercenter_write_ready, again under the lock.                 *)
RefuseWaiter(c) ==
  /\ TakesLock(c) /\ cooldown > 0
  /\ calls' = [calls EXCEPT ![c] = "idle"]
  /\ UNCHANGED <<loaded, live, cooldown, countdown, blocked>>

(* The check under the lock left out: a mutant of WriteAfterWait.          *)
WriteUnchecked(c) ==
  /\ TakesLock(c)
  /\ calls' = [calls EXCEPT ![c] = "writing"]
  /\ live' = loaded
  /\ UNCHANGED <<loaded, cooldown, countdown, blocked>>

WriteAfterWait(c) ==
  /\ TakesLock(c) /\ cooldown = 0
  /\ calls' = [calls EXCEPT ![c] = "writing"]
  /\ live' = loaded
  /\ UNCHANGED <<loaded, cooldown, countdown, blocked>>

Without(s, i) == [k \in 1 .. Len(s) - 1 |-> IF k < i THEN s[k] ELSE s[k + 1]]

(* A waiting call is cancelled and gives up its place.                     *)
CancelWaiter(c) ==
  /\ calls[c] = "waiting"
  /\ calls' = [calls EXCEPT ![c] = "idle"]
  /\ \E i \in 1 .. Len(waiters) :
       waiters[i] = c /\ waiters' = Without(waiters, i)
  /\ UNCHANGED <<loaded, live, cooldown, countdown, blocked>>

(* No task to count down: a mutant of StartCooldown.                       *)
StartWithoutTask ==
  /\ cooldown' = Cooldown
  /\ blocked' = TRUE
  /\ UNCHANGED countdown

(* _start_powercenter_write_cooldown: publish, and count down if no task   *)
(* does so already.  A new task runs up to its first sleep at once.        *)
StartCooldown ==
  /\ cooldown' = Cooldown
  /\ blocked' = TRUE
  /\ countdown' = IF countdown = "none" THEN "sleeping" ELSE countdown

(* No cooldown after a failed write: a mutant of EndWrite.                 *)
EndWriteAcknowledgedOnly(c) ==
  /\ calls[c] = "writing"
  /\ calls' = [calls EXCEPT ![c] = "idle"]
  /\ live' = FALSE
  /\ StartCooldown \/ UNCHANGED <<cooldown, countdown, blocked>>
  /\ UNCHANGED <<loaded, waiters>>

(* A request without a timeout, which nobody answers once the connection   *)
(* closes: a mutant of EndWrite.                                           *)
EndWriteAnswered(c) ==
  /\ calls[c] = "writing" /\ loaded
  /\ calls' = [calls EXCEPT ![c] = "idle"]
  /\ live' = FALSE
  /\ StartCooldown
  /\ UNCHANGED <<loaded, waiters>>

(* The write is acknowledged, refused, unanswered, or its task cancelled:  *)
(* the finally block starts the cooldown, then the lock is released.       *)
EndWrite(c) ==
  /\ calls[c] = "writing"
  /\ calls' = [calls EXCEPT ![c] = "idle"]
  /\ live' = FALSE
  /\ StartCooldown
  /\ UNCHANGED <<loaded, waiters>>
---------------------------------------------------------------------------
(* The last publication left out: a mutant of CountDown.                   *)
CountDownSilently ==
  /\ countdown = "due"
  /\ IF cooldown > 0 THEN countdown' = "sleeping" /\ blocked' = TRUE
     ELSE countdown' = "none" /\ UNCHANGED blocked
  /\ UNCHANGED <<loaded, calls, waiters, live, cooldown>>

(* The countdown task wakes up: it publishes what is left and sleeps again *)
(* or ends, with a last publication.                                       *)
CountDown ==
  /\ countdown = "due"
  /\ blocked' = (cooldown > 0)
  /\ countdown' = IF cooldown > 0 THEN "sleeping" ELSE "none"
  /\ UNCHANGED <<loaded, calls, waiters, live, cooldown>>

(* Not bounded below: a mutant of SecondLess.                              *)
SecondLessUnbounded == cooldown - 1

(* max(0.0, deadline - now), a second later.                               *)
SecondLess == IF cooldown > 0 THEN cooldown - 1 ELSE 0

(* Ready tasks run before the clock reaches the next second.               *)
TasksRan ==
  /\ countdown # "due"
  /\ ~Locked => waiters = << >>

Tick ==
  /\ TasksRan
  /\ cooldown' = SecondLess
  /\ countdown' = IF countdown = "sleeping" THEN "due" ELSE countdown
  /\ UNCHANGED <<loaded, calls, waiters, live, blocked>>

(* async_shutdown: the countdown task is cancelled, its finally block      *)
(* publishes.  Calls in flight go on, their requests find no client.       *)
Shutdown ==
  /\ loaded
  /\ loaded' = FALSE
  /\ cooldown' = 0
  /\ countdown' = "none"
  /\ blocked' = IF countdown = "none" THEN blocked ELSE FALSE
  /\ UNCHANGED <<calls, waiters, live>>
---------------------------------------------------------------------------
LockStep(c) == RefuseWaiter(c) \/ WriteAfterWait(c)

Next ==
  \/ \E c \in Callers :
       \/ WriteAtOnce(c) \/ WaitForLock(c)
       \/ LockStep(c) \/ CancelWaiter(c)
       \/ EndWrite(c)
  \/ CountDown \/ Tick \/ Shutdown

(* Every request has a timeout; ready tasks and timers run.                *)
Fairness ==
  /\ \A c \in Callers : WF_vars(LockStep(c)) /\ WF_vars(EndWrite(c))
  /\ WF_vars(CountDown) /\ WF_vars(Tick)

Spec == Init /\ [][Next]_vars

FairSpec == Spec /\ Fairness
---------------------------------------------------------------------------
(* Properties.                                                             *)

TypeOK ==
  /\ loaded \in BOOLEAN /\ live \in BOOLEAN /\ blocked \in BOOLEAN
  /\ calls \in [Callers -> {"idle", "waiting", "writing"}]
  /\ waiters \in Seq(Callers)
  /\ cooldown \in 0 .. Cooldown
  /\ countdown \in {"none", "sleeping", "due"}

(* The lock holds: one write at a time, and every waiting call has its     *)
(* place in the queue, once, so none is forgotten.                         *)
LockOK ==
  /\ \A c, d \in Callers : calls[c] = "writing" /\ calls[d] = "writing" => c = d
  /\ \A c \in Callers :
       calls[c] = "waiting" <=> \E i \in 1 .. Len(waiters) : waiters[i] = c
  /\ \A i, j \in 1 .. Len(waiters) : waiters[i] = waiters[j] => i = j
  /\ live => Locked

(* While the coordinator lives, a guarded entity is never shown available  *)
(* during the cooldown, and never left unavailable without the countdown   *)
(* task that will republish it, whichever write started it.                *)
EntitiesFollowCooldown ==
  loaded =>
    /\ cooldown > 0 => blocked /\ ~Locked
    /\ blocked => countdown # "none"

(* A write the user asked for while another one was under way is never     *)
(* sent: when the lock comes free the cooldown is running.                 *)
WaitersNeverSend ==
  [][\A c \in Callers :
       calls[c] = "waiting" /\ calls'[c] = "writing" => ~loaded]_vars

(* The path implements the promise to the gateway.                         *)
Promise == INSTANCE SpacedWrites
  WITH Rest    <- Cooldown,
       open    <- loaded,
       sending <- live,
       rest    <- IF loaded THEN cooldown ELSE 0

WritesAreSpaced == Promise!Spec

(* A call that waits for the lock does not wait for ever.                  *)
WaitingEnds ==
  \A c \in Callers : calls[c] = "waiting" ~> calls[c] # "waiting"

(* When no more writes are made the entities become available again.       *)
EntitiesReturn ==
  <>[](loaded /\ \A c \in Callers : calls[c] = "idle") => <>[]~blocked

(* coordinator.py, async_shutdown: "Stop runtime tasks and close the       *)
(* Modbus connection."                                                     *)
ShutdownStopsTasks == ~loaded => countdown = "none"
===========================================================================
