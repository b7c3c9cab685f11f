--------------------- MODULE TotalEnergyFilterProofs ---------------------
(***************************************************************************)
(* The energy filter for every sequence of readings, restarts and any      *)
(* number of confirmations.                                                *)
(***************************************************************************)
EXTENDS TotalEnergyFilter, TLAPS
---------------------------------------------------------------------------
(* The operations of the filter keep its three fields consistent.          *)

LEMMA NoneApart == None \notin Nat /\ \A n \in Nat : n # None
BY FilterAssumption

LEMMA AcceptOK ==
  ASSUME NEW value \in Nat
  PROVE  FilterOK(Accept(value)) /\ Accept(value).accepted = value
BY FilterAssumption DEF FilterOK, Accept, Energy

LEMMA CountLowerFacts ==
  ASSUME NEW f, FilterOK(f), f.accepted # None, NEW value \in Nat,
         value < f.accepted
  PROVE  LET lower == CountLower(f, value)
         IN  /\ lower \in [accepted : Energy, count : 1 .. Confirmations,
                           last : Energy]
             /\ lower.accepted = f.accepted
             /\ lower.last = value
<1>1. f.count \in 0 .. Confirmations - 1 /\ f.last \in Nat \cup {None}
  BY DEF FilterOK, Energy
<1>2. CASE f.last = None \/ value < f.last
  <2>1. CountLower(f, value) = [f EXCEPT !.count = 1, !.last = value]
    BY <1>2 DEF CountLower
  <2>2. 1 \in 1 .. Confirmations
    BY FilterAssumption
  <2> QED BY <2>1, <2>2 DEF FilterOK, Energy
<1>3. CASE f.last # None /\ value > f.last
  <2>1. f.last \in Nat /\ f.count + 1 \in 1 .. Confirmations
    BY <1>1, <1>3, FilterAssumption
  <2>2. CountLower(f, value) = [f EXCEPT !.count = f.count + 1, !.last = value]
    BY <1>3, <2>1 DEF CountLower
  <2> QED BY <2>1, <2>2 DEF FilterOK, Energy
<1>4. CASE f.last # None /\ value = f.last
  <2>1. CountLower(f, value) = f
    BY <1>1, <1>4, NoneApart DEF CountLower
  <2>2. f.count \in 1 .. Confirmations
    BY <1>1, <1>4, FilterAssumption DEF FilterOK
  <2> QED BY <1>4, <2>1, <2>2 DEF FilterOK, Energy
<1> QED BY <1>1, <1>2, <1>3, <1>4

(* The filter's answer to a reading: the accepted value never becomes      *)
(* unknown, and a fall of it is the confirmation of a reset.               *)
LEMMA UpdateFacts ==
  ASSUME NEW f, FilterOK(f), NEW value \in Energy
  PROVE  /\ FilterOK(Update(f, value))
         /\ f.accepted # None => Update(f, value).accepted # None
         /\ value # None /\ (f.accepted = None \/ value >= f.accepted) =>
              Update(f, value) = Accept(value)
<1>1. CASE value = None
  BY <1>1 DEF Update
<1>2. CASE value # None /\ (f.accepted = None \/ value >= f.accepted)
  <2>1. value \in Nat
    BY <1>2 DEF Energy
  <2> QED BY <1>2, <2>1, AcceptOK, NoneApart DEF Update
<1>3. CASE value # None /\ f.accepted # None /\ ~(value >= f.accepted)
  <2> DEFINE lower == CountLower(f, value)
  <2>1. value \in Nat /\ f.accepted \in Nat /\ value < f.accepted
    BY <1>3 DEF Energy, FilterOK
  <2>2. /\ lower \in [accepted : Energy, count : 1 .. Confirmations,
                      last : Energy]
        /\ lower.accepted = f.accepted /\ lower.last = value
    BY <1>3, <2>1, CountLowerFacts
  <2>3. Update(f, value) = IF lower.count >= Confirmations THEN Accept(value)
                           ELSE lower
    BY <1>3 DEF Update
  <2>4. CASE lower.count >= Confirmations
    BY <1>3, <2>1, <2>3, <2>4, AcceptOK, NoneApart
  <2>5. CASE ~(lower.count >= Confirmations)
    <3>1. lower.count \in 0 .. Confirmations - 1 /\ lower.count # 0
      BY <2>2, <2>5, FilterAssumption
    <3>2. FilterOK(lower)
      BY <1>3, <2>1, <2>2, <3>1, NoneApart DEF FilterOK
    <3> QED BY <1>3, <2>2, <2>3, <2>5, <3>2
  <2> QED BY <2>4, <2>5
<1> QED BY <1>1, <1>2, <1>3

(* What restoring does: the restored total is taken unless a higher one    *)
(* was accepted, and the lower reading of the first refresh then starts a  *)
(* run.  This is where one confirmation would not be enough.               *)
LEMMA RestoreFacts ==
  ASSUME NEW f, FilterOK(f), NEW value \in Nat
  PROVE  Restore(f, value) =
           IF f.accepted = None THEN Accept(value)
           ELSE IF value > f.accepted
             THEN [accepted |-> value, count |-> 1, last |-> f.accepted]
           ELSE Accept(f.accepted)
<1>1. CASE f.accepted = None
  <2>1. Seed(f, value) = Accept(value)
    BY <1>1, NoneApart DEF Seed
  <2> QED BY <1>1, <2>1 DEF Restore, Update
<1>2. CASE f.accepted # None /\ value > f.accepted
  <2>1. Seed(f, value) = Accept(value)
    BY <1>2, NoneApart DEF Seed
  <2>2. f.accepted \in Nat /\ f.accepted < value /\ value # None
    BY <1>2, NoneApart DEF FilterOK, Energy
  <2>3. CountLower(Accept(value), f.accepted)
          = [accepted |-> value, count |-> 1, last |-> f.accepted]
    BY DEF CountLower, Accept
  <2>4. ~(1 >= Confirmations)
    BY FilterAssumption
  <2>5. /\ Accept(value).accepted # None
        /\ ~(f.accepted >= Accept(value).accepted)
    BY <2>2 DEF Accept
  <2> QED BY <1>2, <2>1, <2>3, <2>4, <2>5 DEF Restore, Update
<1>3. CASE f.accepted # None /\ ~(value > f.accepted)
  <2>1. Seed(f, value) = f
    BY <1>3, NoneApart DEF Seed
  <2>2. f.accepted \in Energy /\ f.accepted >= f.accepted
    BY <1>3 DEF FilterOK, Energy
  <2> QED BY <1>3, <2>1, <2>2, UpdateFacts DEF Restore
<1> QED BY <1>1, <1>2, <1>3

LEMMA RestoreOK ==
  ASSUME NEW f, FilterOK(f), NEW value \in Nat
  PROVE  /\ FilterOK(Restore(f, value))
         /\ Restore(f, value).accepted \in Nat
         /\ Restore(f, value).accepted >= value
<1>1. CASE f.accepted = None
  BY <1>1, RestoreFacts, AcceptOK
<1>2. CASE f.accepted # None /\ value > f.accepted
  <2>1. Restore(f, value)
          = [accepted |-> value, count |-> 1, last |-> f.accepted]
    BY <1>2, RestoreFacts
  <2>2. f.accepted \in Nat /\ 1 \in 0 .. Confirmations - 1
    BY <1>2, FilterAssumption DEF FilterOK, Energy
  <2> QED BY <1>2, <2>1, <2>2, NoneApart DEF FilterOK, Energy
<1>3. CASE f.accepted # None /\ ~(value > f.accepted)
  <2>1. f.accepted \in Nat /\ f.accepted >= value
    BY <1>3 DEF FilterOK, Energy
  <2> QED BY <1>3, <2>1, RestoreFacts, AcceptOK
<1> QED BY <1>1, <1>2, <1>3
---------------------------------------------------------------------------
(* Types.                                                                  *)

LEMMA TypeInit == Init => TypeOK
<1> SUFFICES ASSUME Init
             PROVE  TypeOK
  OBVIOUS
<1>1. FilterOK(filter)
  BY FilterAssumption DEF Init, NewFilter, FilterOK, Energy
<1>2. readings \in Seq(Nat)
  BY DEF Init
<1>3. saved \in Energy /\ shown \in Energy
  BY FilterAssumption DEF Init, Energy
<1> QED BY <1>1, <1>2, <1>3 DEF Init, TypeOK

LEMMA RecordType ==
  ASSUME readings \in Seq(Nat), NEW value \in Readings \cup {None},
         Record(value)
  PROVE  value \in Energy /\ readings' \in Seq(Nat)
<1>1. value \in Energy
  BY FilterAssumption DEF Energy
<1>2. value # None => value \in Nat
  BY <1>1 DEF Energy
<1> QED BY <1>1, <1>2 DEF Record

LEMMA NewFilterOK == FilterOK(NewFilter)
BY FilterAssumption DEF NewFilter, FilterOK, Energy

LEMMA TypeStep == TypeOK /\ [Next]_vars => TypeOK'
<1> SUFFICES ASSUME TypeOK, [Next]_vars
             PROVE  TypeOK'
  OBVIOUS
<1>1. ASSUME NEW value \in Readings \cup {None},
             FirstRefresh(value) \/ Poll(value)
      PROVE  TypeOK'
  <2>1. /\ value \in Energy /\ readings' \in Seq(Nat)
        /\ filter' = Update(filter, value)
    BY <1>1, RecordType DEF FirstRefresh, Poll, TypeOK
  <2>2. FilterOK(filter')
    BY <2>1, UpdateFacts DEF TypeOK
  <2>3. filter'.accepted \in Energy
    BY <2>2 DEF FilterOK
  <2> QED BY <1>1, <2>1, <2>2, <2>3 DEF FirstRefresh, Poll, TypeOK
<1>2. CASE AddSensor
  <2>1. FilterOK(filter')
    <3>1. CASE saved = None
      BY <1>2, <3>1 DEF AddSensor, TypeOK
    <3>2. CASE saved # None
      BY <1>2, <3>2, RestoreOK DEF AddSensor, TypeOK, Energy
    <3> QED BY <3>1, <3>2
  <2>2. filter'.accepted \in Energy
    BY <2>1 DEF FilterOK
  <2> QED BY <1>2, <2>1, <2>2 DEF AddSensor, TypeOK
<1>3. CASE Save
  BY <1>3 DEF Save, TypeOK
<1>4. CASE Reload \/ Crash
  <2>1. filter' = NewFilter /\ readings' = << >> /\ life' = "loading"
    BY <1>4 DEF Reload, Crash, NewLife
  <2>2. FilterOK(filter') /\ readings' \in Seq(Nat)
    BY <2>1, NewFilterOK
  <2> QED BY <1>4, <2>1, <2>2 DEF Reload, Crash, TypeOK
<1>5. CASE UNCHANGED vars
  BY <1>5 DEF vars, TypeOK
<1> QED BY <1>1, <1>2, <1>3, <1>4, <1>5 DEF Next

(* The three fields of the filter stay consistent, and a running sensor    *)
(* shows the accepted value.                                               *)
THEOREM TypeCorrect == Spec => []TypeOK
BY TypeInit, TypeStep, PTL DEF Spec

(* A restart never publishes less than the total it restored.              *)
THEOREM RestartNeverLosesTotal == Spec => RestartKeepsTotal
<1>1. TypeOK /\ [Next]_vars =>
        [life = "adding" /\ life' = "running" /\ saved # None =>
           shown' # None /\ shown' >= saved]_vars
  <2> SUFFICES ASSUME TypeOK, [Next]_vars, life = "adding",
                      life' = "running", saved # None
               PROVE  shown' # None /\ shown' >= saved
    OBVIOUS
  <2>1. AddSensor
    BY DEF Next, FirstRefresh, Poll, Save, Reload, Crash, NewLife, vars
  <2>2. saved \in Nat /\ shown' = Restore(filter, saved).accepted
    BY <2>1 DEF AddSensor, TypeOK, Energy
  <2>3. Restore(filter, saved).accepted \in Nat
        /\ Restore(filter, saved).accepted >= saved
    BY <2>2, RestoreOK DEF TypeOK
  <2> QED BY <2>2, <2>3, NoneApart
<1> QED BY <1>1, TypeCorrect, PTL DEF Spec, RestartKeepsTotal
---------------------------------------------------------------------------
(* A published total falls only after a reset.                             *)
(*                                                                         *)
(* The strengthening ties the filter to the readings of this life: a run   *)
(* of `count` lower readings is a rising selection among the latest        *)
(* readings, which all lie below the accepted total, and its highest one   *)
(* is `last`.  Unlike in FallsOnlyAfterReset the selection need not end    *)
(* with the latest reading, because a repeated reading does not count.     *)
RunOf(f, rs, i, pick) ==
  /\ i \in 1 .. Len(rs)
  /\ \A k \in i .. Len(rs) : rs[k] < f.accepted
  /\ pick \in [1 .. f.count -> i .. Len(rs)]
  /\ rs[pick[f.count]] = f.last
  /\ \A k \in 1 .. f.count - 1 :
       pick[k] < pick[k + 1] /\ rs[pick[k]] < rs[pick[k + 1]]

RunRecorded(f, rs) == f.count > 0 => \E i, pick : RunOf(f, rs, i, pick)

(* Before the sensor is added there has been at most one reading.          *)
FirstReading ==
  /\ life = "loading" => filter = NewFilter /\ readings = << >>
  /\ life = "adding" =>
       \/ filter = NewFilter /\ readings = << >>
       \/ /\ Len(readings) = 1 /\ filter = Accept(readings[1])

HistoryInv == TypeOK /\ RunRecorded(filter, readings) /\ FirstReading

(* One more reading below the accepted total leaves the selection of a run *)
(* where it is.                                                            *)
LEMMA RunKept ==
  ASSUME NEW f, f.count \in Nat \ {0}, f.accepted \in Nat,
         NEW rs \in Seq(Nat), NEW value \in Nat, value < f.accepted,
         NEW i, NEW pick, RunOf(f, rs, i, pick)
  PROVE  LET grown == Append(rs, value)
         IN  /\ i \in 1 .. Len(rs) /\ Len(grown) = Len(rs) + 1
             /\ \A k \in i .. Len(grown) : grown[k] < f.accepted
             /\ \A k \in 1 .. f.count :
                  pick[k] \in i .. Len(rs) /\ grown[pick[k]] = rs[pick[k]]
             /\ \A k \in 1 .. f.count : grown[pick[k]] \in Nat
             /\ RunOf(f, grown, i, pick)
<1> DEFINE grown == Append(rs, value)
<1>1. /\ grown \in Seq(Nat) /\ Len(grown) = Len(rs) + 1 /\ Len(rs) \in Nat
      /\ grown[Len(rs) + 1] = value
      /\ \A k \in 1 .. Len(rs) : grown[k] = rs[k] /\ grown[k] \in Nat
  OBVIOUS
<1> HIDE DEF grown
<1>2. i \in 1 .. Len(rs)
  BY DEF RunOf
<1>3. \A k \in i .. Len(rs) : rs[k] < f.accepted
  BY DEF RunOf
<1>4. ASSUME NEW k \in i .. Len(grown)
      PROVE  grown[k] < f.accepted
  <2>1. CASE k = Len(rs) + 1
    BY <1>1, <2>1
  <2>2. CASE k # Len(rs) + 1
    <3>0. k \in i .. Len(rs) + 1
      BY <1>1
    <3>1. i \in Nat /\ 1 <= i /\ Len(rs) \in Nat
      BY <1>1, <1>2
    <3>2. k \in Int /\ i <= k /\ k <= Len(rs)
      BY <2>2, <3>0, <3>1
    <3>3. k \in i .. Len(rs) /\ k \in 1 .. Len(rs)
      BY <3>1, <3>2
    <3> QED BY <1>1, <1>3, <3>3
  <2> QED BY <2>1, <2>2
<1>5. ASSUME NEW k \in 1 .. f.count
      PROVE  /\ pick[k] \in i .. Len(rs) /\ grown[pick[k]] = rs[pick[k]]
             /\ grown[pick[k]] \in Nat
  <2>1. pick[k] \in i .. Len(rs)
    BY DEF RunOf
  <2>2. pick[k] \in 1 .. Len(rs)
    BY <1>1, <1>2, <2>1
  <2> QED BY <1>1, <2>1, <2>2
<1>6. RunOf(f, grown, i, pick)
  <2>1. i \in 1 .. Len(grown)
    BY <1>1, <1>2
  <2>2. pick \in [1 .. f.count -> i .. Len(grown)]
    <3>1. i .. Len(rs) \subseteq i .. Len(grown)
      BY <1>1, <1>2
    <3> QED BY <3>1 DEF RunOf
  <2>3. grown[pick[f.count]] = f.last
    BY <1>5 DEF RunOf
  <2>4. ASSUME NEW k \in 1 .. f.count - 1
        PROVE  pick[k] < pick[k + 1] /\ grown[pick[k]] < grown[pick[k + 1]]
    <3>1. k \in 1 .. f.count /\ k + 1 \in 1 .. f.count
      OBVIOUS
    <3> QED BY <1>5, <3>1 DEF RunOf
  <2> QED BY <1>4, <2>1, <2>2, <2>3, <2>4 DEF RunOf
<1> QED BY <1>1, <1>2, <1>4, <1>5, <1>6 DEF grown

(* A new lower reading extends the run, starts a new one, or repeats.      *)
LEMMA RunGrows ==
  ASSUME NEW f, FilterOK(f), f.accepted # None, NEW rs \in Seq(Nat),
         RunRecorded(f, rs), NEW value \in Nat, value < f.accepted
  PROVE  LET lower == CountLower(f, value)
             grown == Append(rs, value)
         IN  /\ RunRecorded(lower, grown)
             /\ lower.count > f.count =>
                  \E i, pick : /\ RunOf(lower, grown, i, pick)
                               /\ pick[lower.count] = Len(grown)
<1> DEFINE lower == CountLower(f, value)
           grown == Append(rs, value)
<1>1. /\ lower.count \in Nat \ {0} /\ lower.accepted = f.accepted
      /\ lower.last = value /\ f.accepted \in Nat
  BY CountLowerFacts DEF FilterOK, Energy
<1>2. /\ Len(grown) \in Nat \ {0} /\ grown[Len(grown)] = value
      /\ Len(grown) = Len(rs) + 1 /\ Len(rs) \in Nat
  OBVIOUS
<1>3. /\ f.count \in Nat /\ f.last \in Nat \cup {None}
      /\ f.count = 0 <=> f.last = None
  BY DEF FilterOK, Energy
<1>4. CASE f.last = None \/ value < f.last
  <2>1. lower.count = 1
    BY <1>4 DEF CountLower, FilterOK
  <2> HIDE DEF lower, grown
  <2> DEFINE pick == [k \in 1 .. 1 |-> Len(grown)]
  <2>2. RunOf(lower, grown, Len(grown), pick) /\ pick[1] = Len(grown)
    <3>1. Len(grown) \in 1 .. Len(grown)
      BY <1>2
    <3>2. \A k \in Len(grown) .. Len(grown) : grown[k] < lower.accepted
      BY <1>1, <1>2
    <3>3. pick \in [1 .. lower.count -> Len(grown) .. Len(grown)]
      BY <1>2, <2>1
    <3>4. grown[pick[lower.count]] = lower.last
      BY <1>1, <1>2, <2>1
    <3>5. 1 .. lower.count - 1 = {}
      BY <2>1
    <3> QED BY <3>1, <3>2, <3>3, <3>4, <3>5 DEF RunOf
  <2> HIDE DEF pick
  <2> QED BY <2>1, <2>2 DEF RunRecorded, lower, grown
<1>5. CASE f.last # None /\ value = f.last
  <2>1. lower = f
    BY <1>3, <1>5, NoneApart DEF CountLower
  <2>2. f.count \in Nat \ {0}
    BY <1>3, <1>5
  <2>3. PICK i, pick : RunOf(f, rs, i, pick)
    BY <2>2 DEF RunRecorded
  <2>4. RunOf(f, grown, i, pick)
    BY <1>1, <2>2, <2>3, RunKept
  <2> QED BY <1>3, <2>1, <2>4 DEF RunRecorded
<1>6. CASE f.last # None /\ value > f.last
  <2>1. lower.count = f.count + 1 /\ f.count \in Nat \ {0}
    BY <1>3, <1>6, NoneApart DEF CountLower, FilterOK
  <2>2. PICK i, pick : RunOf(f, rs, i, pick)
    BY <2>1 DEF RunRecorded
  <2>3. /\ i \in 1 .. Len(rs)
        /\ \A k \in i .. Len(grown) : grown[k] < f.accepted
        /\ \A k \in 1 .. f.count :
             pick[k] \in i .. Len(rs) /\ grown[pick[k]] = rs[pick[k]]
    BY <1>1, <2>1, <2>2, RunKept
  <2> HIDE DEF lower, grown
  <2> DEFINE more == [k \in 1 .. lower.count |->
                        IF k = lower.count THEN Len(grown) ELSE pick[k]]
  <2>4. more[lower.count] = Len(grown)
    BY <1>1
  <2>5. ASSUME NEW k \in 1 .. f.count
        PROVE  more[k] = pick[k] /\ k # lower.count
    BY <2>1
  <2>6. more \in [1 .. lower.count -> i .. Len(grown)]
    <3>1. ASSUME NEW k \in 1 .. lower.count
          PROVE  more[k] \in i .. Len(grown)
      <4>1. CASE k = lower.count
        BY <1>2, <2>3, <2>4, <4>1
      <4>2. CASE k # lower.count
        <5>1. k \in 1 .. f.count
          BY <2>1, <4>2
        <5>2. more[k] \in i .. Len(rs)
          BY <2>3, <2>5, <5>1
        <5> QED BY <1>2, <2>3, <5>2
      <4> QED BY <4>1, <4>2
    <3> QED BY <3>1
  <2>7. ASSUME NEW k \in 1 .. lower.count - 1
        PROVE  more[k] < more[k + 1] /\ grown[more[k]] < grown[more[k + 1]]
    <3>1. k \in 1 .. f.count
      BY <2>1
    <3>2. more[k] = pick[k] /\ pick[k] \in i .. Len(rs)
          /\ grown[pick[k]] = rs[pick[k]]
      BY <2>3, <2>5, <3>1
    <3>3. CASE k = f.count
      <4>1. more[k + 1] = Len(grown) /\ rs[pick[k]] = f.last
        BY <2>1, <2>2, <2>4, <3>3 DEF RunOf
      <4> QED BY <1>2, <1>3, <1>6, <2>3, <3>2, <4>1
    <3>4. CASE k # f.count
      <4>1. k \in 1 .. f.count - 1 /\ k + 1 \in 1 .. f.count
        BY <2>1, <3>1, <3>4
      <4>2. more[k + 1] = pick[k + 1] /\ grown[pick[k + 1]] = rs[pick[k + 1]]
        BY <2>3, <2>5, <4>1
      <4>3. pick[k] < pick[k + 1] /\ rs[pick[k]] < rs[pick[k + 1]]
        BY <2>2, <4>1 DEF RunOf
      <4> QED BY <3>2, <4>2, <4>3
    <3> QED BY <3>3, <3>4
  <2>8. i \in 1 .. Len(grown)
    BY <1>2, <2>3
  <2>9. grown[more[lower.count]] = lower.last
    BY <1>1, <1>2, <2>4
  <2> HIDE DEF more
  <2>10. RunOf(lower, grown, i, more)
    BY <1>1, <2>3, <2>6, <2>7, <2>8, <2>9 DEF RunOf
  <2> QED BY <2>4, <2>10 DEF RunRecorded, lower, grown
<1> QED BY <1>3, <1>4, <1>5, <1>6, NoneApart

(* A poll either keeps the filter, accepts the reading or extends the run. *)
LEMMA PollFacts ==
  ASSUME TypeOK, NEW value \in Readings \cup {None}, Poll(value)
  PROVE  \/ value = None /\ UNCHANGED <<filter, readings>>
         \/ /\ value \in Nat /\ readings' = Append(readings, value)
            /\ filter.accepted = None \/ value >= filter.accepted
            /\ filter' = Accept(value)
         \/ /\ value \in Nat /\ readings' = Append(readings, value)
            /\ filter.accepted \in Nat /\ value < filter.accepted
            /\ filter' = IF CountLower(filter, value).count >= Confirmations
                           THEN Accept(value) ELSE CountLower(filter, value)
<1>1. value \in Energy /\ filter.accepted \in Energy
  BY RecordType DEF Poll, TypeOK, FilterOK
<1>2. CASE value = None
  BY <1>2 DEF Poll, Update, Record
<1>3. CASE value # None /\ (filter.accepted = None \/ value >= filter.accepted)
  BY <1>1, <1>3 DEF Poll, Update, Record, Energy
<1>4. CASE value # None /\ ~(filter.accepted = None \/ value >= filter.accepted)
  BY <1>1, <1>4 DEF Poll, Update, Record, Energy
<1> QED BY <1>2, <1>3, <1>4

LEMMA FirstRefreshFacts ==
  ASSUME TypeOK, FirstReading, NEW value \in Readings \cup {None},
         FirstRefresh(value)
  PROVE  \/ filter' = NewFilter /\ readings' = << >>
         \/ /\ Len(readings') = 1 /\ readings' \in Seq(Nat)
            /\ filter' = Accept(readings'[1])
<1>1. filter = NewFilter /\ readings = << >> /\ value \in Energy
  BY RecordType DEF FirstReading, FirstRefresh, TypeOK
<1>2. CASE value = None
  BY <1>1, <1>2 DEF FirstRefresh, Update, Record
<1>3. CASE value # None
  <2>1. value \in Nat
    BY <1>1, <1>3 DEF Energy
  <2>2. filter' = Accept(value)
    BY <1>1, <1>3 DEF FirstRefresh, Update, NewFilter
  <2>3. readings' = Append(<< >>, value)
    BY <1>1, <1>3 DEF FirstRefresh, Record
  <2> QED BY <2>1, <2>2, <2>3
<1> QED BY <1>2, <1>3

LEMMA HistoryInit == Init => HistoryInv
BY TypeInit DEF Init, HistoryInv, RunRecorded, FirstReading, NewFilter

LEMMA HistoryStep == HistoryInv /\ [Next]_vars => HistoryInv'
<1> SUFFICES ASSUME HistoryInv, [Next]_vars
             PROVE  RunRecorded(filter, readings)' /\ FirstReading'
  BY TypeStep DEF HistoryInv
<1>0. TypeOK /\ RunRecorded(filter, readings) /\ FirstReading
  BY DEF HistoryInv
<1>1. ASSUME NEW value \in Readings \cup {None}, FirstRefresh(value)
      PROVE  RunRecorded(filter, readings)' /\ FirstReading'
  <2>1. filter'.count = 0 /\ life' = "adding"
    BY <1>0, <1>1, FirstRefreshFacts DEF NewFilter, Accept, FirstRefresh
  <2> QED BY <1>0, <1>1, <2>1, FirstRefreshFacts DEF RunRecorded, FirstReading
<1>2. ASSUME NEW value \in Readings \cup {None}, Poll(value)
      PROVE  RunRecorded(filter, readings)' /\ FirstReading'
  <2>1. life' = "running"
    BY <1>2 DEF Poll
  <2>2. CASE UNCHANGED <<filter, readings>>
    BY <1>0, <2>1, <2>2 DEF RunRecorded, FirstReading
  <2>3. CASE filter'.count = 0
    BY <2>1, <2>3 DEF RunRecorded, FirstReading
  <2>4. CASE /\ value \in Nat /\ readings' = Append(readings, value)
             /\ filter.accepted \in Nat /\ value < filter.accepted
             /\ filter' = CountLower(filter, value)
    <3>1. FilterOK(filter) /\ filter.accepted # None /\ readings \in Seq(Nat)
      BY <1>0, <2>4, NoneApart DEF TypeOK
    <3>2. RunRecorded(CountLower(filter, value), Append(readings, value))
      BY <1>0, <2>4, <3>1, RunGrows
    <3> QED BY <2>1, <2>4, <3>2 DEF FirstReading
  <2> QED BY <1>0, <1>2, <2>2, <2>3, <2>4, PollFacts DEF Accept
<1>3. CASE AddSensor
  <2>1. life' = "running" /\ readings' = readings
    BY <1>3 DEF AddSensor
  <2>2. CASE filter'.count = 0
    BY <2>1, <2>2 DEF RunRecorded, FirstReading
  <2>3. CASE saved # None /\ filter.accepted # None /\ saved > filter.accepted
    <3>1. filter' = [accepted |-> saved, count |-> 1, last |-> filter.accepted]
      BY <1>0, <1>3, <2>3, RestoreFacts DEF AddSensor, TypeOK, Energy
    <3>2. /\ Len(readings) = 1 /\ filter.accepted = readings[1]
          /\ readings[1] < saved
      BY <1>0, <1>3, <2>3
         DEF AddSensor, FirstReading, NewFilter, Accept, TypeOK, FilterOK, Energy
    <3> DEFINE pick == [k \in 1 .. 1 |-> 1]
    <3>3. RunOf(filter', readings, 1, pick)
      BY <3>1, <3>2 DEF RunOf
    <3> QED BY <2>1, <3>3 DEF RunRecorded, FirstReading
  <2>4. CASE saved = None
    BY <1>0, <1>3, <2>1, <2>4 DEF AddSensor, RunRecorded, FirstReading
  <2>5. CASE saved # None /\ ~(filter.accepted # None /\ saved > filter.accepted)
    <3>1. filter'.count = 0
      BY <1>0, <1>3, <2>5, RestoreFacts DEF AddSensor, TypeOK, Energy, Accept
    <3> QED BY <2>2, <3>1
  <2> QED BY <2>3, <2>4, <2>5
<1>4. CASE Save
  BY <1>0, <1>4 DEF Save, RunRecorded, FirstReading
<1>5. CASE Reload \/ Crash
  BY <1>5 DEF Reload, Crash, NewLife, RunRecorded, FirstReading, NewFilter
<1>6. CASE UNCHANGED vars
  BY <1>0, <1>6 DEF vars, RunRecorded, FirstReading
<1> QED BY <1>1, <1>2, <1>3, <1>4, <1>5, <1>6 DEF Next

(* What is published falls only to the reading just taken, and only when   *)
(* the readings of this life show a reset.                                 *)
THEOREM PublishedTotalFallsOnlyAfterReset == Spec => FallsOnlyAfterReset
<1>1. HistoryInv /\ [Next]_vars =>
        [life = "running" /\ shown # None /\ shown' # None /\ shown' < shown =>
           /\ shown' = readings'[Len(readings')]
           /\ \E i \in 1 .. Len(readings') :
                RisingBelow(readings', shown, i, Confirmations)]_vars
  <2> SUFFICES ASSUME HistoryInv, [Next]_vars, life = "running",
                      shown # None, shown' # None, shown' < shown
               PROVE  /\ shown' = readings'[Len(readings')]
                      /\ \E i \in 1 .. Len(readings') :
                           RisingBelow(readings', shown, i, Confirmations)
    OBVIOUS
  <2>1. /\ TypeOK /\ RunRecorded(filter, readings)
        /\ shown = filter.accepted /\ shown \in Nat
    BY DEF HistoryInv, TypeOK, Energy
  <2>2. PICK value \in Readings \cup {None} : Poll(value)
    BY <2>1 DEF Next, FirstRefresh, AddSensor, Save, Reload, Crash, vars
  <2>3. shown' = filter'.accepted /\ shown' # shown
    BY <2>1, <2>2 DEF Poll
  <2> DEFINE lower == CountLower(filter, value)
             grown == Append(readings, value)
  <2>4. /\ value \in Nat /\ readings' = grown
        /\ filter.accepted \in Nat /\ value < filter.accepted
        /\ filter' = IF lower.count >= Confirmations THEN Accept(value)
                     ELSE lower
    BY <2>1, <2>2, <2>3, PollFacts, NoneApart DEF Accept
  <2>5. /\ FilterOK(filter) /\ filter.accepted # None
        /\ readings \in Seq(Nat)
    BY <2>1, <2>4, NoneApart DEF TypeOK
  <2>6. /\ lower.count \in 1 .. Confirmations
        /\ lower.accepted = filter.accepted
        /\ filter.count \in 0 .. Confirmations - 1
    BY <2>4, <2>5, CountLowerFacts DEF FilterOK
  <2>7. lower.count = Confirmations /\ filter' = Accept(value)
    BY <2>1, <2>3, <2>4, <2>6, FilterAssumption
  <2>8. shown' = value /\ grown[Len(grown)] = value
    BY <2>3, <2>4, <2>5, <2>7 DEF Accept
  <2>9. PICK i, pick : /\ RunOf(lower, grown, i, pick)
                       /\ pick[lower.count] = Len(grown)
    BY <2>1, <2>4, <2>5, <2>6, <2>7, FilterAssumption, RunGrows
  <2> HIDE DEF lower, grown
  <2>10. i \in 1 .. Len(grown) /\ RisingBelow(grown, shown, i, Confirmations)
    BY <2>1, <2>6, <2>7, <2>9 DEF RunOf, RisingBelow
  <2> QED BY <2>4, <2>8, <2>10
<1> QED BY <1>1, HistoryInit, HistoryStep, PTL DEF Spec, FallsOnlyAfterReset
---------------------------------------------------------------------------
(* A reset is followed.                                                    *)
(*                                                                         *)
(* The strengthening: the latest reading is the accepted one, or the one   *)
(* the run ends with, and then the run counts at least as many readings as *)
(* have been rising up to now.                                             *)
RisingTail(rs, m) ==
  \A k \in Len(rs) - m + 1 .. Len(rs) - 1 : rs[k] < rs[k + 1]

Latest(f, rs) ==
  \/ f = Accept(rs[Len(rs)])
  \/ /\ f.last = rs[Len(rs)]
     /\ \A m \in 1 .. Len(rs) : RisingTail(rs, m) => f.count >= m

LatestInv == HistoryInv /\ (Len(readings) > 0 => Latest(filter, readings))

LEMMA LatestKept ==
  ASSUME NEW f, FilterOK(f), NEW rs \in Seq(Nat),
         Len(rs) > 0 => Latest(f, rs),
         NEW value \in Nat, f.accepted \in Nat, value < f.accepted
  PROVE  Latest(CountLower(f, value), Append(rs, value))
<1> DEFINE lower == CountLower(f, value)
           grown == Append(rs, value)
<1>1. lower.last = value /\ lower.count \in 1 .. Confirmations
  BY CountLowerFacts, NoneApart
<1>2. f.last # None /\ value > f.last => lower.count = f.count + 1
  <2> SUFFICES ASSUME f.last # None, value > f.last
               PROVE  lower.count = f.count + 1
    OBVIOUS
  <2>1. f.last \in Nat /\ ~(value < f.last)
    BY DEF FilterOK, Energy
  <2>2. lower = [f EXCEPT !.count = f.count + 1, !.last = value]
    BY <2>1 DEF CountLower
  <2> QED BY <2>2 DEF FilterOK
<1>3. /\ Len(grown) = Len(rs) + 1 /\ Len(rs) \in Nat
      /\ grown[Len(rs) + 1] = value
      /\ \A k \in 1 .. Len(rs) : grown[k] = rs[k] /\ rs[k] \in Nat
  OBVIOUS
<1> HIDE DEF lower, grown
<1>4. ASSUME NEW m \in 1 .. Len(grown), RisingTail(grown, m)
      PROVE  lower.count >= m
  <2>1. CASE m = 1
    BY <1>1, <2>1
  <2>2. CASE m # 1
    <3>1. m - 1 \in 1 .. Len(rs) /\ m \in Nat
      BY <1>3, <2>2
    <3>2. rs[Len(rs)] < value /\ rs[Len(rs)] \in Nat
      <4>1. Len(rs) \in Len(grown) - m + 1 .. Len(grown) - 1
        BY <1>3, <3>1
      <4>2. grown[Len(rs)] < grown[Len(rs) + 1]
        BY <1>4, <4>1 DEF RisingTail
      <4>3. Len(rs) \in 1 .. Len(rs)
        BY <1>3, <3>1
      <4> QED BY <1>3, <4>2, <4>3
    <3>3. RisingTail(rs, m - 1)
      <4> SUFFICES ASSUME NEW k \in Len(rs) - (m - 1) + 1 .. Len(rs) - 1
                   PROVE  rs[k] < rs[k + 1]
        BY DEF RisingTail
      <4>1. k \in Len(grown) - m + 1 .. Len(grown) - 1
        BY <1>3, <3>1
      <4>2. k \in 1 .. Len(rs) /\ k + 1 \in 1 .. Len(rs)
        BY <1>3, <3>1
      <4> QED BY <1>3, <1>4, <4>1, <4>2 DEF RisingTail
    <3>4. Latest(f, rs)
      BY <1>3, <3>1
    <3>5. f # Accept(rs[Len(rs)])
      BY <3>2 DEF Accept
    <3>6. f.last = rs[Len(rs)] /\ f.count >= m - 1
      BY <3>1, <3>3, <3>4, <3>5 DEF Latest
    <3>7. lower.count = f.count + 1 /\ f.count \in Nat
      BY <1>2, <3>2, <3>6, NoneApart DEF FilterOK
    <3> QED BY <3>1, <3>6, <3>7
  <2> QED BY <2>1, <2>2
<1> QED BY <1>1, <1>3, <1>4 DEF Latest, lower, grown

LEMMA LatestStep == LatestInv /\ [Next]_vars => LatestInv'
<1> SUFFICES ASSUME LatestInv, [Next]_vars, Len(readings') > 0
             PROVE  Latest(filter', readings')
  BY HistoryStep DEF LatestInv
<1>0. /\ TypeOK /\ FirstReading
      /\ Len(readings) > 0 => Latest(filter, readings)
  BY DEF LatestInv, HistoryInv
<1>1. ASSUME NEW value \in Readings \cup {None}, FirstRefresh(value)
      PROVE  Latest(filter', readings')
  BY <1>0, <1>1, FirstRefreshFacts DEF Latest
<1>2. ASSUME NEW value \in Readings \cup {None}, Poll(value)
      PROVE  Latest(filter', readings')
  <2>1. CASE UNCHANGED <<filter, readings>>
    BY <1>0, <2>1
  <2>2. CASE /\ value \in Nat /\ readings' = Append(readings, value)
             /\ filter' = Accept(value)
    <3>1. readings'[Len(readings')] = value
      BY <1>0, <2>2 DEF TypeOK
    <3> QED BY <2>2, <3>1 DEF Latest
  <2>3. CASE /\ value \in Nat /\ readings' = Append(readings, value)
             /\ filter.accepted \in Nat /\ value < filter.accepted
             /\ filter' = CountLower(filter, value)
    BY <1>0, <2>3, LatestKept DEF TypeOK
  <2> QED BY <1>0, <1>2, <2>1, <2>2, <2>3, PollFacts
<1>3. CASE AddSensor
  <2>1. readings' = readings /\ Len(readings) = 1 /\ readings \in Seq(Nat)
        /\ filter = Accept(readings[1])
    BY <1>0, <1>3 DEF AddSensor, FirstReading, TypeOK
  <2>2. readings[1] \in Nat /\ filter.accepted = readings[1]
    BY <2>1 DEF Accept
  <2>3. CASE saved = None
    BY <1>3, <2>1, <2>3 DEF AddSensor, Latest
  <2>4. CASE saved # None /\ saved > filter.accepted
    <3>1. filter' = [accepted |-> saved, count |-> 1, last |-> readings[1]]
      BY <1>0, <1>3, <2>2, <2>4, RestoreFacts, NoneApart
         DEF AddSensor, TypeOK, Energy
    <3> QED BY <2>1, <3>1 DEF Latest
  <2>5. CASE saved # None /\ ~(saved > filter.accepted)
    <3>1. filter' = Accept(readings[1])
      BY <1>0, <1>3, <2>2, <2>5, RestoreFacts, NoneApart
         DEF AddSensor, TypeOK, Energy
    <3> QED BY <2>1, <3>1 DEF Latest
  <2> QED BY <2>3, <2>4, <2>5
<1>4. CASE Save
  BY <1>0, <1>4 DEF Save
<1>5. CASE Reload \/ Crash
  BY <1>5 DEF Reload, Crash, NewLife
<1>6. CASE UNCHANGED vars
  BY <1>0, <1>6 DEF vars
<1> QED BY <1>1, <1>2, <1>3, <1>4, <1>5, <1>6 DEF Next

(* After Confirmations rising readings in a row the sensor shows the last  *)
(* of them, whatever it showed, restored or missed before.                 *)
THEOREM ResetIsFollowed == Spec => []RisingRunShown
<1>1. Init => LatestInv
  BY HistoryInit DEF Init, LatestInv
<1>2. LatestInv => RisingRunShown
  <2> SUFFICES ASSUME LatestInv, life = "running",
                      Len(readings) >= Confirmations,
                      RisingTail(readings, Confirmations)
               PROVE  shown = readings[Len(readings)]
    BY DEF RisingRunShown, RisingTail
  <2>1. /\ FilterOK(filter) /\ shown = filter.accepted
        /\ Len(readings) \in Nat
    BY DEF LatestInv, HistoryInv, TypeOK
  <2>2. Confirmations \in 1 .. Len(readings) /\ Latest(filter, readings)
    BY <2>1, FilterAssumption DEF LatestInv
  <2>3. ~(filter.count >= Confirmations)
    BY <2>1, FilterAssumption DEF FilterOK
  <2>4. filter = Accept(readings[Len(readings)])
    BY <2>2, <2>3 DEF Latest
  <2> QED BY <2>1, <2>4 DEF Accept
<1> QED BY <1>1, <1>2, LatestStep, PTL DEF Spec
==========================================================================
