-------------------- MODULE PowercenterCooldownProofs --------------------
(***************************************************************************)
(* The write path of a Powercenter for any number of callers and any       *)
(* length of the delayed-ACK cooldown, and the promise it implements.      *)
(***************************************************************************)
EXTENDS PowercenterCooldown, TLAPS
---------------------------------------------------------------------------
(* The strengthening: until the shutdown a write under way was issued by   *)
(* the live coordinator, and a call still waits at a free lock only while  *)
(* the cooldown of the write before it runs (the lock is handed over       *)
(* before the clock moves on).                                             *)
LiveWriter == loaded /\ Locked => live

WaitersMeetCooldown == loaded /\ waiters # << >> /\ ~Locked => cooldown > 0

IInv ==
  /\ TypeOK
  /\ LockOK
  /\ EntitiesFollowCooldown
  /\ LiveWriter
  /\ WaitersMeetCooldown

(* The parts of LockOK.                                                    *)
OneWriter ==
  \A c, d \in Callers : calls[c] = "writing" /\ calls[d] = "writing" => c = d

Queued(c) == \E i \in 1 .. Len(waiters) : waiters[i] = c

AllQueued == \A c \in Callers : calls[c] = "waiting" <=> Queued(c)

QueuedOnce == \A i, j \in 1 .. Len(waiters) : waiters[i] = waiters[j] => i = j

LEMMA LockParts ==
  LockOK <=> OneWriter /\ AllQueued /\ QueuedOnce /\ (live => Locked)
BY DEF LockOK, OneWriter, AllQueued, QueuedOnce, Queued
---------------------------------------------------------------------------
(* The queue of the lock.                                                  *)

LEMMA AppendWaiter ==
  ASSUME NEW S, NEW s \in Seq(S), NEW e \in S
  PROVE  /\ Append(s, e) \in Seq(S) /\ Len(Append(s, e)) = Len(s) + 1
         /\ Append(s, e)[Len(s) + 1] = e
         /\ \A i \in 1 .. Len(s) : Append(s, e)[i] = s[i]
OBVIOUS

LEMMA TailWaiters ==
  ASSUME NEW S, NEW s \in Seq(S), s # << >>
  PROVE  /\ Tail(s) \in Seq(S) /\ Len(Tail(s)) = Len(s) - 1
         /\ Len(s) \in Nat \ {0} /\ Head(s) = s[1]
         /\ \A i \in 1 .. Len(s) - 1 : Tail(s)[i] = s[i + 1]
OBVIOUS

LEMMA WithoutWaiter ==
  ASSUME NEW S, NEW s \in Seq(S), NEW i \in 1 .. Len(s)
  PROVE  /\ Without(s, i) \in Seq(S) /\ Len(Without(s, i)) = Len(s) - 1
         /\ \A k \in 1 .. Len(s) - 1 :
              Without(s, i)[k] = IF k < i THEN s[k] ELSE s[k + 1]
<1>1. Len(s) - 1 \in Nat /\ \A k \in 1 .. Len(s) : s[k] \in S
  OBVIOUS
<1>2. Without(s, i) \in [1 .. Len(s) - 1 -> S]
  BY <1>1 DEF Without
<1> QED BY <1>1, <1>2 DEF Without

LEMMA Enqueue ==
  ASSUME TypeOK, QueuedOnce, NEW c \in Callers, ~Queued(c),
         waiters' = Append(waiters, c)
  PROVE  /\ QueuedOnce'
         /\ \A d \in Callers : Queued(d)' <=> Queued(d) \/ d = c
<1>1. /\ Len(waiters') = Len(waiters) + 1 /\ Len(waiters) \in Nat
      /\ waiters'[Len(waiters) + 1] = c
      /\ \A i \in 1 .. Len(waiters) : waiters'[i] = waiters[i]
  BY AppendWaiter DEF TypeOK
<1>2. ASSUME NEW i \in 1 .. Len(waiters')
      PROVE  i = Len(waiters) + 1 \/ i \in 1 .. Len(waiters)
  BY <1>1
<1>3. QueuedOnce'
  BY <1>1, <1>2 DEF QueuedOnce, Queued
<1>4. ASSUME NEW d \in Callers
      PROVE  Queued(d)' <=> Queued(d) \/ d = c
  <2>1. ASSUME NEW i \in 1 .. Len(waiters), waiters[i] = d
        PROVE  Queued(d)'
    BY <1>1, <2>1 DEF Queued
  <2>2. Len(waiters) + 1 \in 1 .. Len(waiters')
    BY <1>1
  <2>3. d = c => Queued(d)'
    BY <1>1, <2>2 DEF Queued
  <2>4. Queued(d)' => Queued(d) \/ d = c
    BY <1>1, <1>2 DEF Queued
  <2> QED BY <2>1, <2>3, <2>4 DEF Queued
<1> QED BY <1>3, <1>4

LEMMA Dequeue ==
  ASSUME TypeOK, QueuedOnce, waiters # << >>, waiters' = Tail(waiters)
  PROVE  /\ QueuedOnce' /\ Queued(Head(waiters))
         /\ \A d \in Callers : Queued(d)' <=> Queued(d) /\ d # Head(waiters)
<1>1. /\ Len(waiters') = Len(waiters) - 1 /\ Len(waiters) \in Nat \ {0}
      /\ Head(waiters) = waiters[1]
      /\ \A i \in 1 .. Len(waiters) - 1 : waiters'[i] = waiters[i + 1]
  BY TailWaiters DEF TypeOK
<1>2. ASSUME NEW i \in 1 .. Len(waiters')
      PROVE  /\ i + 1 \in 1 .. Len(waiters) /\ i + 1 # 1
             /\ waiters'[i] = waiters[i + 1]
  BY <1>1
<1>3. QueuedOnce'
  BY <1>1, <1>2 DEF QueuedOnce
<1>4. 1 \in 1 .. Len(waiters)
  BY <1>1
<1>5. ASSUME NEW d \in Callers
      PROVE  Queued(d)' <=> Queued(d) /\ d # Head(waiters)
  <2>1. Queued(d)' => Queued(d) /\ d # Head(waiters)
    BY <1>1, <1>2, <1>4 DEF Queued, QueuedOnce
  <2>2. ASSUME NEW i \in 1 .. Len(waiters), waiters[i] = d, i # 1
        PROVE  Queued(d)'
    <3>1. /\ i - 1 \in 1 .. Len(waiters') /\ (i - 1) + 1 = i
          /\ i - 1 \in 1 .. Len(waiters) - 1
      BY <1>1, <2>2
    <3>2. waiters'[i - 1] = d
      BY <1>1, <2>2, <3>1
    <3> QED BY <3>1, <3>2 DEF Queued
  <2> QED BY <1>1, <2>1, <2>2 DEF Queued
<1> QED BY <1>1, <1>3, <1>4, <1>5 DEF Queued

LEMMA Remove ==
  ASSUME TypeOK, QueuedOnce, NEW i \in 1 .. Len(waiters),
         waiters' = Without(waiters, i)
  PROVE  /\ QueuedOnce'
         /\ \A d \in Callers : Queued(d)' <=> Queued(d) /\ d # waiters[i]
<1> DEFINE Old(k) == IF k < i THEN k ELSE k + 1
<1>1. /\ Len(waiters') = Len(waiters) - 1 /\ Len(waiters) \in Nat \ {0}
      /\ i \in Nat
      /\ \A k \in 1 .. Len(waiters) - 1 :
           waiters'[k] = IF k < i THEN waiters[k] ELSE waiters[k + 1]
  BY WithoutWaiter DEF TypeOK
<1>2. ASSUME NEW k \in 1 .. Len(waiters')
      PROVE  /\ Old(k) \in 1 .. Len(waiters) /\ Old(k) # i
             /\ waiters'[k] = waiters[Old(k)]
  BY <1>1
<1>3. ASSUME NEW k \in 1 .. Len(waiters'), NEW m \in 1 .. Len(waiters'),
             waiters'[k] = waiters'[m]
      PROVE  k = m
  <2>1. Old(k) = Old(m)
    BY <1>2, <1>3 DEF QueuedOnce
  <2> QED BY <1>1, <2>1
<1>4. ASSUME NEW d \in Callers
      PROVE  Queued(d)' <=> Queued(d) /\ d # waiters[i]
  <2>1. Queued(d)' => Queued(d) /\ d # waiters[i]
    BY <1>2 DEF Queued, QueuedOnce
  <2>2. ASSUME NEW m \in 1 .. Len(waiters), waiters[m] = d, m # i
        PROVE  Queued(d)'
    <3> DEFINE k == IF m < i THEN m ELSE m - 1
    <3>1. k \in 1 .. Len(waiters') /\ Old(k) = m
      BY <1>1, <2>2
    <3>2. waiters'[k] = d
      BY <1>2, <2>2, <3>1
    <3> HIDE DEF k
    <3> QED BY <3>1, <3>2 DEF Queued
  <2> QED BY <2>1, <2>2 DEF Queued
<1> QED BY <1>3, <1>4 DEF QueuedOnce
---------------------------------------------------------------------------
(* Types.                                                                  *)

LEMMA TypeInit == Init => TypeOK
<1>1. ASSUME Init
      PROVE  waiters \in Seq(Callers) /\ cooldown \in 0 .. Cooldown
  BY <1>1, CooldownAssumption DEF Init
<1>2. ASSUME Init
      PROVE  calls \in [Callers -> {"idle", "waiting", "writing"}]
  BY <1>2 DEF Init
<1> QED BY <1>1, <1>2 DEF Init, TypeOK

LEMMA StartCooldownType ==
  ASSUME TypeOK, StartCooldown
  PROVE  /\ cooldown' = Cooldown /\ cooldown' \in 0 .. Cooldown
         /\ cooldown' > 0 /\ blocked' = TRUE
         /\ countdown' \in {"sleeping", "due"}
BY CooldownAssumption DEF StartCooldown, TypeOK

LEMMA TypeStep == TypeOK /\ [Next]_vars => TypeOK'
<1> SUFFICES ASSUME TypeOK, [Next]_vars
             PROVE  TypeOK'
  OBVIOUS
<1>1. ASSUME NEW c \in Callers, WriteAtOnce(c)
      PROVE  TypeOK'
  BY <1>1 DEF WriteAtOnce, TypeOK
<1>2. ASSUME NEW c \in Callers, WaitForLock(c)
      PROVE  TypeOK'
  BY <1>2, AppendWaiter DEF WaitForLock, TypeOK
<1>3. ASSUME NEW c \in Callers, LockStep(c)
      PROVE  TypeOK'
  <2>1. waiters # << >> /\ waiters' = Tail(waiters)
    BY <1>3 DEF LockStep, RefuseWaiter, WriteAfterWait, TakesLock
  <2>2. waiters' \in Seq(Callers)
    BY <2>1, TailWaiters DEF TypeOK
  <2> QED BY <1>3, <2>2 DEF LockStep, RefuseWaiter, WriteAfterWait, TypeOK
<1>4. ASSUME NEW c \in Callers, CancelWaiter(c)
      PROVE  TypeOK'
  <2>1. waiters' \in Seq(Callers)
    BY <1>4, WithoutWaiter DEF CancelWaiter, TypeOK
  <2> QED BY <1>4, <2>1 DEF CancelWaiter, TypeOK
<1>5. ASSUME NEW c \in Callers, EndWrite(c)
      PROVE  TypeOK'
  BY <1>5, StartCooldownType DEF EndWrite, TypeOK
<1>6. CASE CountDown
  BY <1>6 DEF CountDown, TypeOK
<1>7. CASE Tick
  BY <1>7, CooldownAssumption DEF Tick, SecondLess, TypeOK
<1>8. CASE Shutdown
  <2>1. cooldown' \in 0 .. Cooldown
    BY <1>8, CooldownAssumption DEF Shutdown
  <2>2. blocked' = blocked \/ blocked' = FALSE
    BY <1>8 DEF Shutdown
  <2> QED BY <1>8, <2>1, <2>2 DEF Shutdown, TypeOK
<1>9. CASE UNCHANGED vars
  BY <1>9 DEF vars, TypeOK
<1> QED
  BY <1>1, <1>2, <1>3, <1>4, <1>5, <1>6, <1>7, <1>8, <1>9 DEF Next
---------------------------------------------------------------------------
(* The lock.                                                               *)

(* Who writes and who waits after a step that changes the call of c only.  *)
LEMMA CallChanged ==
  ASSUME TypeOK, NEW c \in Callers, NEW state,
         calls' = [calls EXCEPT ![c] = state]
  PROVE  /\ calls'[c] = state
         /\ \A d \in Callers \ {c} : calls'[d] = calls[d]
BY DEF TypeOK

LEMMA LockStepKept == TypeOK /\ LockOK /\ [Next]_vars => LockOK'
<1> SUFFICES ASSUME TypeOK, LockOK, [Next]_vars
             PROVE  /\ OneWriter' /\ AllQueued' /\ QueuedOnce'
                    /\ live' => Locked'
  BY DEF LockOK, OneWriter, AllQueued, QueuedOnce, Queued
<1>0. OneWriter /\ AllQueued /\ QueuedOnce /\ (live => Locked)
  BY LockParts
<1>1. ASSUME NEW c \in Callers, WriteAtOnce(c)
      PROVE  /\ OneWriter' /\ AllQueued' /\ QueuedOnce'
             /\ live' => Locked'
  <2>1. /\ calls[c] = "idle" /\ calls'[c] = "writing" /\ waiters' = waiters
        /\ \A d \in Callers \ {c} : calls'[d] = calls[d] /\ calls[d] # "writing"
    BY <1>1, CallChanged DEF WriteAtOnce, MayCall, Locked
  <2> QED BY <1>0, <2>1 DEF OneWriter, AllQueued, QueuedOnce, Queued, Locked
<1>2. ASSUME NEW c \in Callers, WaitForLock(c)
      PROVE  /\ OneWriter' /\ AllQueued' /\ QueuedOnce'
             /\ live' => Locked'
  <2>1. /\ calls[c] = "idle" /\ calls'[c] = "waiting" /\ live' = live
        /\ \A d \in Callers \ {c} : calls'[d] = calls[d]
        /\ waiters' = Append(waiters, c)
    BY <1>2, CallChanged DEF WaitForLock, MayCall
  <2>2. /\ QueuedOnce'
        /\ \A d \in Callers : Queued(d)' <=> Queued(d) \/ d = c
    BY <1>0, <2>1, Enqueue DEF AllQueued
  <2> QED BY <1>0, <2>1, <2>2 DEF OneWriter, AllQueued, Locked
<1>3. ASSUME NEW c \in Callers, LockStep(c)
      PROVE  /\ OneWriter' /\ AllQueued' /\ QueuedOnce'
             /\ live' => Locked'
  <2>1. /\ waiters # << >> /\ waiters' = Tail(waiters) /\ c = Head(waiters)
        /\ ~Locked
    BY <1>3 DEF LockStep, RefuseWaiter, WriteAfterWait, TakesLock
  <2>2. /\ QueuedOnce' /\ Queued(c)
        /\ \A d \in Callers : Queued(d)' <=> Queued(d) /\ d # c
    BY <1>0, <2>1, Dequeue
  <2>3. \/ calls'[c] = "idle" /\ live' = live
        \/ calls'[c] = "writing"
    BY <1>3, CallChanged DEF LockStep, RefuseWaiter, WriteAfterWait
  <2>4. \A d \in Callers \ {c} : calls'[d] = calls[d] /\ calls[d] # "writing"
    BY <1>3, <2>1, CallChanged
       DEF LockStep, RefuseWaiter, WriteAfterWait, Locked
  <2>5. OneWriter' /\ (live' => Locked')
    BY <1>0, <2>1, <2>3, <2>4 DEF OneWriter, Locked
  <2>6. AllQueued'
    BY <1>0, <2>2, <2>3, <2>4 DEF AllQueued
  <2> QED BY <2>2, <2>5, <2>6
<1>4. ASSUME NEW c \in Callers, CancelWaiter(c)
      PROVE  /\ OneWriter' /\ AllQueued' /\ QueuedOnce'
             /\ live' => Locked'
  <2>1. PICK i \in 1 .. Len(waiters) :
          waiters[i] = c /\ waiters' = Without(waiters, i)
    BY <1>4 DEF CancelWaiter
  <2>2. /\ QueuedOnce'
        /\ \A d \in Callers : Queued(d)' <=> Queued(d) /\ d # c
    BY <1>0, <2>1, Remove
  <2>3. /\ calls[c] = "waiting" /\ calls'[c] = "idle" /\ live' = live
        /\ \A d \in Callers \ {c} : calls'[d] = calls[d]
    BY <1>4, CallChanged DEF CancelWaiter
  <2>4. OneWriter' /\ (live' => Locked')
    BY <1>0, <2>3 DEF OneWriter, Locked
  <2>5. AllQueued'
    BY <1>0, <2>2, <2>3 DEF AllQueued
  <2> QED BY <2>2, <2>4, <2>5
<1>5. ASSUME NEW c \in Callers, EndWrite(c)
      PROVE  /\ OneWriter' /\ AllQueued' /\ QueuedOnce'
             /\ live' => Locked'
  <2>1. /\ calls[c] = "writing" /\ calls'[c] = "idle" /\ live' = FALSE
        /\ \A d \in Callers \ {c} : calls'[d] = calls[d]
        /\ waiters' = waiters
    BY <1>5, CallChanged DEF EndWrite
  <2> QED BY <1>0, <2>1 DEF OneWriter, AllQueued, QueuedOnce, Queued
<1>6. CASE UNCHANGED <<calls, waiters, live>>
  BY <1>0, <1>6 DEF OneWriter, AllQueued, QueuedOnce, Queued, Locked
<1> QED
  BY <1>1, <1>2, <1>3, <1>4, <1>5, <1>6
     DEF Next, CountDown, Tick, Shutdown, vars
---------------------------------------------------------------------------
(* The cooldown, the countdown task and what the entities show.            *)

LEMMA EndWriteFreesLock ==
  ASSUME TypeOK, LockOK, NEW c \in Callers, EndWrite(c)
  PROVE  ~Locked'
<1>1. /\ calls[c] = "writing" /\ calls'[c] = "idle"
      /\ \A d \in Callers \ {c} : calls'[d] = calls[d]
  BY CallChanged DEF EndWrite
<1>2. \A d \in Callers \ {c} : calls[d] # "writing"
  BY <1>1, LockParts DEF OneWriter
<1> QED BY <1>1, <1>2 DEF Locked

LEMMA CooldownStep == IInv /\ [Next]_vars => EntitiesFollowCooldown'
<1> SUFFICES ASSUME IInv, [Next]_vars, loaded'
             PROVE  /\ cooldown' > 0 => blocked' /\ ~Locked'
                    /\ blocked' => countdown' # "none"
  BY DEF EntitiesFollowCooldown
<1>0. /\ TypeOK /\ LockOK
      /\ loaded => /\ cooldown > 0 => blocked /\ ~Locked
                   /\ blocked => countdown # "none"
  BY DEF IInv, EntitiesFollowCooldown
<1>1. ASSUME NEW c \in Callers,
             WriteAtOnce(c) \/ WriteAfterWait(c)
      PROVE  /\ cooldown' > 0 => blocked' /\ ~Locked'
             /\ blocked' => countdown' # "none"
  <2>1. /\ cooldown = 0 /\ cooldown' = cooldown
        /\ UNCHANGED <<loaded, blocked, countdown>>
    BY <1>1 DEF WriteAtOnce, MayCall, WriteAfterWait
  <2> QED BY <1>0, <2>1
<1>2. ASSUME NEW c \in Callers,
             WaitForLock(c) \/ RefuseWaiter(c) \/ CancelWaiter(c)
      PROVE  /\ cooldown' > 0 => blocked' /\ ~Locked'
             /\ blocked' => countdown' # "none"
  <2>1. /\ UNCHANGED <<loaded, cooldown, blocked, countdown>>
        /\ \E state \in {"idle", "waiting"} :
             calls' = [calls EXCEPT ![c] = state]
    BY <1>2 DEF WaitForLock, RefuseWaiter, CancelWaiter
  <2>2. Locked' => Locked
    BY <1>0, <2>1, CallChanged DEF Locked
  <2> QED BY <1>0, <2>1, <2>2
<1>3. ASSUME NEW c \in Callers, EndWrite(c)
      PROVE  /\ cooldown' > 0 => blocked' /\ ~Locked'
             /\ blocked' => countdown' # "none"
  <2>1. ~Locked'
    BY <1>0, <1>3, EndWriteFreesLock
  <2> QED BY <1>0, <1>3, <2>1, StartCooldownType DEF EndWrite
<1>4. CASE CountDown
  <2>1. Locked' <=> Locked
    BY <1>4 DEF CountDown, Locked
  <2>2. loaded /\ cooldown' = cooldown /\ (blocked' <=> cooldown > 0)
    BY <1>4 DEF CountDown
  <2>3. cooldown > 0 => countdown' = "sleeping"
    BY <1>4 DEF CountDown
  <2>4. cooldown' > 0 => blocked' /\ ~Locked'
    BY <1>0, <2>1, <2>2
  <2> QED BY <2>2, <2>3, <2>4
<1>5. CASE Tick
  <2>1. Locked' <=> Locked
    BY <1>5 DEF Tick, Locked
  <2>2. loaded /\ (blocked' <=> blocked)
    BY <1>5 DEF Tick
  <2>3. cooldown' > 0 => cooldown > 0
    <3>1. cooldown \in 0 .. Cooldown /\ cooldown' = SecondLess
      BY <1>0, <1>5 DEF Tick, TypeOK
    <3> QED BY <3>1 DEF SecondLess
  <2>4. countdown # "none" => countdown' # "none"
    BY <1>5 DEF Tick
  <2>5. cooldown' > 0 => blocked' /\ ~Locked'
    BY <1>0, <2>1, <2>2, <2>3
  <2> QED BY <1>0, <2>2, <2>4, <2>5
<1>6. CASE Shutdown
  BY <1>6 DEF Shutdown
<1>7. CASE UNCHANGED vars
  BY <1>0, <1>7 DEF vars, Locked
<1> QED
  BY <1>1, <1>2, <1>3, <1>4, <1>5, <1>6, <1>7 DEF Next, LockStep

LEMMA LiveWriterStep == IInv /\ [Next]_vars => LiveWriter'
<1> SUFFICES ASSUME IInv, [Next]_vars, loaded', Locked'
             PROVE  live'
  BY DEF LiveWriter
<1>0. TypeOK /\ LockOK /\ (loaded /\ Locked => live)
  BY DEF IInv, LiveWriter
<1>1. ASSUME NEW c \in Callers,
             WriteAtOnce(c) \/ WriteAfterWait(c)
      PROVE  live'
  <2>1. CASE WriteAtOnce(c)
    BY <2>1 DEF WriteAtOnce
  <2>2. CASE WriteAfterWait(c)
    <3>1. live' = loaded /\ loaded' = loaded
      BY <2>2 DEF WriteAfterWait
    <3> QED BY <3>1
  <2> QED BY <1>1, <2>1, <2>2
<1>2. ASSUME NEW c \in Callers,
             WaitForLock(c) \/ RefuseWaiter(c) \/ CancelWaiter(c)
      PROVE  live'
  <2>1. /\ UNCHANGED <<loaded, live>>
        /\ \E state \in {"idle", "waiting"} :
             calls' = [calls EXCEPT ![c] = state]
    BY <1>2 DEF WaitForLock, RefuseWaiter, CancelWaiter
  <2>2. Locked' => Locked
    BY <1>0, <2>1, CallChanged DEF Locked
  <2> QED BY <1>0, <2>1, <2>2
<1>3. ASSUME NEW c \in Callers, EndWrite(c)
      PROVE  live'
  <2>1. ~Locked'
    BY <1>0, <1>3, EndWriteFreesLock
  <2> QED BY <2>1
<1>4. CASE UNCHANGED <<calls, live>> /\ (loaded' => loaded)
  BY <1>0, <1>4 DEF Locked
<1> QED
  BY <1>1, <1>2, <1>3, <1>4 DEF Next, LockStep, CountDown, Tick, Shutdown, vars

LEMMA WaitersStep == IInv /\ [Next]_vars => WaitersMeetCooldown'
<1> SUFFICES ASSUME IInv, [Next]_vars, loaded', waiters' # << >>, ~Locked'
             PROVE  cooldown' > 0
  BY DEF WaitersMeetCooldown
<1>0. /\ TypeOK /\ LockOK
      /\ loaded /\ waiters # << >> /\ ~Locked => cooldown > 0
  BY DEF IInv, WaitersMeetCooldown
<1>1. ASSUME NEW c \in Callers,
             WriteAtOnce(c) \/ WriteAfterWait(c)
      PROVE  cooldown' > 0
  <2>1. Locked'
    BY <1>0, <1>1, CallChanged DEF WriteAtOnce, WriteAfterWait, Locked
  <2> QED BY <2>1
<1>2. ASSUME NEW c \in Callers, WaitForLock(c)
      PROVE  cooldown' > 0
  <2>1. loaded /\ (Locked \/ waiters # << >>) /\ cooldown' = cooldown
        /\ cooldown = 0
    BY <1>2 DEF WaitForLock, MayCall
  <2>2. Locked' <=> Locked
    BY <1>0, <1>2, CallChanged DEF WaitForLock, MayCall, Locked
  <2> QED BY <1>0, <2>1, <2>2
<1>3. ASSUME NEW c \in Callers, RefuseWaiter(c)
      PROVE  cooldown' > 0
  BY <1>3 DEF RefuseWaiter
<1>4. ASSUME NEW c \in Callers, CancelWaiter(c)
      PROVE  cooldown' > 0
  <2>1. waiters # << >>
    BY <1>4 DEF CancelWaiter
  <2>2. Locked' <=> Locked
    BY <1>0, <1>4, CallChanged DEF CancelWaiter, Locked
  <2> QED BY <1>0, <1>4, <2>1, <2>2 DEF CancelWaiter
<1>5. ASSUME NEW c \in Callers, EndWrite(c)
      PROVE  cooldown' > 0
  BY <1>0, <1>5, StartCooldownType DEF EndWrite
<1>6. CASE CountDown \/ UNCHANGED vars
  BY <1>0, <1>6 DEF CountDown, vars, Locked
<1>7. CASE Tick
  BY <1>7 DEF Tick, TasksRan, Locked
<1>8. CASE Shutdown
  BY <1>8 DEF Shutdown
<1> QED
  BY <1>1, <1>2, <1>3, <1>4, <1>5, <1>6, <1>7, <1>8 DEF Next, LockStep
---------------------------------------------------------------------------
LEMMA InvariantInit == Init => IInv
<1> SUFFICES ASSUME Init
             PROVE  IInv
  OBVIOUS
<1>1. /\ \A c \in Callers : calls[c] = "idle"
      /\ Len(waiters) = 0 /\ waiters = << >> /\ live = FALSE
      /\ cooldown = 0 /\ blocked = FALSE
  BY DEF Init
<1>2. LockOK
  BY <1>1 DEF LockOK
<1>3. EntitiesFollowCooldown
  BY <1>1 DEF EntitiesFollowCooldown
<1>4. LiveWriter
  BY <1>1 DEF LiveWriter, Locked
<1>5. WaitersMeetCooldown
  BY <1>1 DEF WaitersMeetCooldown
<1> QED BY TypeInit, <1>2, <1>3, <1>4, <1>5 DEF IInv

LEMMA InvariantStep == IInv /\ [Next]_vars => IInv'
BY TypeStep, LockStepKept, CooldownStep, LiveWriterStep, WaitersStep DEF IInv

(* The strengthened invariant holds in every reachable state.              *)
THEOREM Invariance == Spec => []IInv
BY InvariantInit, InvariantStep, PTL DEF Spec

(* Every state is well typed: the cooldown shown to the user never leaves  *)
(* 0 .. Cooldown and only callers stand in the queue of the lock.          *)
THEOREM TypeCorrect == Spec => []TypeOK
<1>1. IInv => TypeOK
  BY DEF IInv
<1> QED BY Invariance, <1>1, PTL

(* One write at a time, and a waiting call has exactly one place.          *)
THEOREM LockHolds == Spec => []LockOK
<1>1. IInv => LockOK
  BY DEF IInv
<1> QED BY Invariance, <1>1, PTL

(* The guarded entities are blocked through every cooldown, and a blocked  *)
(* entity always has the countdown task that will republish it.            *)
THEOREM EntitiesFollow == Spec => []EntitiesFollowCooldown
<1>1. IInv => EntitiesFollowCooldown
  BY DEF IInv
<1> QED BY Invariance, <1>1, PTL
---------------------------------------------------------------------------
(* While the coordinator lives, a call that takes the lock after waiting   *)
(* finds the cooldown running.                                             *)
LEMMA WaiterFindsCooldown ==
  ASSUME IInv, NEW c \in Callers, WriteAfterWait(c)
  PROVE  ~loaded
<1>1. waiters # << >> /\ ~Locked /\ cooldown = 0
  BY DEF WriteAfterWait, TakesLock
<1> QED BY <1>1 DEF IInv, WaitersMeetCooldown

(* A call that waited for the lock never sends its write: the cooldown of  *)
(* the write before it refuses it (_require_powercenter_write_ready).      *)
THEOREM WaitersAreRefused == Spec => WaitersNeverSend
<1>1. ASSUME IInv, [Next]_vars, NEW c \in Callers,
             calls[c] = "waiting", calls'[c] = "writing"
      PROVE  ~loaded
  <2>1. ASSUME NEW d \in Callers, WriteAtOnce(d)
        PROVE  FALSE
    <3>1. calls[d] = "idle" /\ calls' = [calls EXCEPT ![d] = "writing"]
      BY <2>1 DEF WriteAtOnce, MayCall
    <3> QED BY <1>1, <3>1, CallChanged DEF IInv
  <2>2. ASSUME NEW d \in Callers, NEW state \in {"idle", "waiting"},
               calls' = [calls EXCEPT ![d] = state]
        PROVE  FALSE
    BY <1>1, <2>2, CallChanged DEF IInv
  <2>3. ASSUME NEW d \in Callers, WriteAfterWait(d)
        PROVE  ~loaded
    BY <1>1, <2>3, WaiterFindsCooldown
  <2>4. CASE UNCHANGED calls
    BY <1>1, <2>4
  <2> QED
    BY <1>1, <2>1, <2>2, <2>3, <2>4
       DEF Next, LockStep, WaitForLock, RefuseWaiter, CancelWaiter, EndWrite,
           CountDown, Tick, Shutdown, vars
<1>2. IInv /\ [Next]_vars =>
        [\A c \in Callers :
           calls[c] = "waiting" /\ calls'[c] = "writing" => ~loaded]_vars
  BY <1>1
<1> QED BY Invariance, <1>2, PTL DEF Spec, WaitersNeverSend
---------------------------------------------------------------------------
(* The refinement of SpacedWrites: a write the live coordinator issues is  *)
(* the promise's write, a second of the cooldown its second of rest, and   *)
(* everything else is a stutter.                                           *)

LEMMA PromiseInit == Init => Promise!Init
BY DEF Init, Promise!Init

LEMMA PromiseStep ==
  ASSUME IInv, [Next]_vars
  PROVE  [Promise!Next]_(Promise!vars)
<1>0. TypeOK /\ LockOK
  BY DEF IInv
<1>1. ASSUME NEW c \in Callers, WriteAtOnce(c)
      PROVE  Promise!BeginWrite
  <2>1. loaded /\ loaded' = loaded /\ cooldown = 0 /\ cooldown' = cooldown
        /\ live' = TRUE /\ ~Locked
    BY <1>1 DEF WriteAtOnce, MayCall
  <2>2. ~live
    BY <1>0, <2>1, LockParts
  <2> QED BY <2>1, <2>2 DEF Promise!BeginWrite
<1>2. ASSUME NEW c \in Callers, EndWrite(c)
      PROVE  Promise!EndWrite \/ UNCHANGED Promise!vars
  <2>1. cooldown' = Cooldown /\ loaded' = loaded /\ live' = FALSE
        /\ calls[c] = "writing"
    BY <1>2 DEF EndWrite, StartCooldown
  <2>2. CASE live
    BY <2>1, <2>2 DEF Promise!EndWrite
  <2>3. CASE ~live
    <3>1. ~loaded
      BY <2>1, <2>3 DEF IInv, LiveWriter, Locked
    <3>2. live' = live
      BY <1>0, <2>1, <2>3 DEF TypeOK
    <3> QED BY <2>1, <3>1, <3>2 DEF Promise!vars
  <2> QED BY <2>2, <2>3
<1>3. ASSUME NEW c \in Callers, WriteAfterWait(c)
      PROVE  UNCHANGED Promise!vars
  <2>1. ~loaded
    BY <1>3, WaiterFindsCooldown
  <2>2. ~live
    BY <1>0, <1>3, LockParts DEF WriteAfterWait, TakesLock
  <2>3. live' = loaded /\ loaded' = loaded /\ cooldown' = cooldown
    BY <1>3 DEF WriteAfterWait
  <2>4. live' = live
    BY <1>0, <2>1, <2>2, <2>3 DEF TypeOK
  <2> QED BY <2>3, <2>4 DEF Promise!vars
<1>4. CASE Tick
  <2>1. loaded' = loaded /\ live' = live /\ cooldown' = SecondLess
        /\ cooldown \in 0 .. Cooldown
    BY <1>0, <1>4 DEF Tick, TypeOK
  <2>2. CASE loaded /\ cooldown > 0
    BY <2>1, <2>2 DEF SecondLess, Promise!Pass, Promise!Next
  <2>3. CASE ~(loaded /\ cooldown > 0)
    BY <2>1, <2>3 DEF SecondLess, Promise!vars
  <2> QED BY <2>2, <2>3
<1>5. CASE Shutdown
  BY <1>5 DEF Shutdown, Promise!Close, Promise!Next
<1>6. CASE UNCHANGED <<loaded, live, cooldown>>
  BY <1>6 DEF Promise!vars
<1> QED
  BY <1>1, <1>2, <1>3, <1>4, <1>5, <1>6
     DEF Next, LockStep, WaitForLock, RefuseWaiter, CancelWaiter, CountDown,
         vars, Promise!Next

(* The write path keeps the promise made to the gateway: one write at a    *)
(* time, the whole delayed-ACK period between two, none after the close.   *)
THEOREM PromiseKept == Spec => WritesAreSpaced
BY PromiseInit, PromiseStep, Invariance, PTL
   DEF Spec, WritesAreSpaced, Promise!Spec
===========================================================================
