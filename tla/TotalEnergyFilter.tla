------------------------ MODULE TotalEnergyFilter ------------------------
(***************************************************************************)
(* The cumulative energy of a VersiCharge: TotalEnergyFilter               *)
(* (versicharge.py) between the poll and the energy sensor, and what the   *)
(* sensor restores after a reload or a crash of Home Assistant             *)
(* (sensor.py, restore_versicharge_energy in coordinator.py).              *)
(***************************************************************************)
EXTENDS Integers, Sequences

CONSTANTS
  None,            \* an unread register, or nothing accepted yet
  Confirmations,   \* rising lower readings that confirm a reset: 3
  Readings,        \* values of register 1692
  MaxReadings      \* bound: polls in one life of the config entry

ASSUMPTION FilterAssumption ==
  /\ None \notin Int
  /\ Confirmations \in Nat \ {0, 1}
  /\ Readings \subseteq Nat
  /\ MaxReadings \in Nat

VARIABLES
  filter,     \* the TotalEnergyFilter of the coordinator
  life,       \* "loading", "adding" the sensor, "running"
  shown,      \* what the sensor published last
  saved,      \* what Home Assistant would restore after a crash
  readings    \* history: the readings of this life, missed ones left out

vars == <<filter, life, shown, saved, readings>>

Energy == Nat \cup {None}

NewFilter == [accepted |-> None, count |-> 0, last |-> None]

Accept(value) == [accepted |-> value, count |-> 0, last |-> None]

(* TotalEnergyFilter.seed.                                                 *)
Seed(f, value) ==
  IF value = None THEN f
  ELSE IF f.accepted = None \/ value > f.accepted THEN Accept(value) ELSE f

(* A reading that repeats counts too: a mutant of CountLower.              *)
CountEveryLower(f, value) ==
  IF f.last = None \/ value < f.last
    THEN [f EXCEPT !.count = 1, !.last = value]
  ELSE [f EXCEPT !.count = f.count + 1, !.last = value]

(* A run of lower readings starts again, grows, or stands still.           *)
CountLower(f, value) ==
  IF f.last = None \/ value < f.last
    THEN [f EXCEPT !.count = 1, !.last = value]
  ELSE IF value > f.last
    THEN [f EXCEPT !.count = f.count + 1, !.last = value]
  ELSE f

(* A missed reading breaks the run: a mutant of Update.                    *)
UpdateForgetful(f, value) ==
  IF value = None THEN [f EXCEPT !.count = 0, !.last = None]
  ELSE IF f.accepted = None \/ value >= f.accepted THEN Accept(value)
  ELSE LET lower == CountLower(f, value)
       IN  IF lower.count >= Confirmations THEN Accept(value) ELSE lower

(* One confirmation too many: a mutant of Update.                          *)
UpdateOneLate(f, value) ==
  IF value = None THEN f
  ELSE IF f.accepted = None \/ value >= f.accepted THEN Accept(value)
  ELSE LET lower == CountLower(f, value)
       IN  IF lower.count > Confirmations THEN Accept(value) ELSE lower

(* TotalEnergyFilter.update: the new filter; it returns its `accepted`.    *)
Update(f, value) ==
  IF value = None THEN f
  ELSE IF f.accepted = None \/ value >= f.accepted THEN Accept(value)
  ELSE LET lower == CountLower(f, value)
       IN  IF lower.count >= Confirmations THEN Accept(value) ELSE lower

(* The restored value lost: a mutant of Restore.                           *)
RestoreNothing(f, value) == Update(f, f.accepted)

(* restore_versicharge_energy: the published value is fed in once more.    *)
Restore(f, value) == Update(Seed(f, value), f.accepted)

Init ==
  /\ filter = NewFilter
  /\ life = "loading"
  /\ shown = None
  /\ saved \in Readings \cup {None}
  /\ readings = << >>

Record(value) ==
  readings' = IF value = None THEN readings ELSE Append(readings, value)

(* The first refresh of a config entry, before its sensors exist.          *)
FirstRefresh(value) ==
  /\ life = "loading"
  /\ filter' = Update(filter, value)
  /\ life' = "adding"
  /\ Record(value)
  /\ UNCHANGED <<shown, saved>>

(* async_added_to_hass: restore, then publish for the first time.          *)
AddSensor ==
  /\ life = "adding"
  /\ filter' = IF saved = None THEN filter ELSE Restore(filter, saved)
  /\ shown' = filter'.accepted
  /\ life' = "running"
  /\ UNCHANGED <<saved, readings>>

(* A regular poll that succeeds; a failed one changes nothing.             *)
Poll(value) ==
  /\ life = "running" /\ Len(readings) < MaxReadings
  /\ filter' = Update(filter, value)
  /\ shown' = filter'.accepted
  /\ Record(value)
  /\ UNCHANGED <<life, saved>>

(* Home Assistant writes its restore data from time to time.               *)
Save ==
  /\ life = "running"
  /\ saved' = shown
  /\ UNCHANGED <<filter, life, shown, readings>>

NewLife ==
  /\ life' = "loading"
  /\ filter' = NewFilter
  /\ readings' = << >>

(* A reload or a clean stop saves the sensor's last state.                 *)
Reload ==
  /\ life = "running"
  /\ NewLife
  /\ saved' = shown
  /\ UNCHANGED shown

(* A crash, or a setup that fails before the sensor exists, does not.      *)
Crash ==
  /\ NewLife
  /\ UNCHANGED <<shown, saved>>

Next ==
  \/ \E value \in Readings \cup {None} : FirstRefresh(value) \/ Poll(value)
  \/ AddSensor
  \/ Save
  \/ Reload
  \/ Crash

Spec == Init /\ [][Next]_vars
---------------------------------------------------------------------------
(* Properties.                                                             *)

(* Types, and what the three fields of the filter mean together: a run of  *)
(* lower readings is unfinished, and its last reading lies below the       *)
(* accepted value.                                                         *)
FilterOK(f) ==
  /\ f \in [accepted : Energy, count : 0 .. Confirmations - 1, last : Energy]
  /\ f.count = 0 <=> f.last = None
  /\ f.last # None => f.accepted # None /\ f.last < f.accepted

TypeOK ==
  /\ FilterOK(filter)
  /\ life \in {"loading", "adding", "running"}
  /\ shown \in Energy /\ saved \in Energy
  /\ readings \in Seq(Nat)
  /\ life = "running" => shown = filter.accepted

(* The readings rs from position i on lie below e, and n of them, the last *)
(* one among them, rise.                                                   *)
RisingBelow(rs, e, i, n) ==
  /\ \A k \in i .. Len(rs) : rs[k] < e
  /\ \E pick \in [1 .. n -> i .. Len(rs)] :
       /\ pick[n] = Len(rs)
       /\ \A k \in 1 .. n - 1 :
            pick[k] < pick[k + 1] /\ rs[pick[k]] < rs[pick[k + 1]]

(* A running sensor falls only to the reading just taken, and only after   *)
(* Confirmations readings of this life that all lie below the published    *)
(* total and rise among themselves: no outage of the meter, however long   *)
(* it repeats a placeholder, however reloads and missed reads fall into    *)
(* it, makes the Energy dashboard's counter drop.                          *)
FallsOnlyAfterReset ==
  [][life = "running" /\ shown # None /\ shown' # None /\ shown' < shown =>
       /\ shown' = readings'[Len(readings')]
       /\ \E i \in 1 .. Len(readings') :
            RisingBelow(readings', shown, i, Confirmations)]_vars

(* A meter that really was reset is followed: after Confirmations readings *)
(* in a row that rise, the sensor shows the last one, whatever was         *)
(* accepted, restored or missed before.                                    *)
RisingRunShown ==
  LET n == Len(readings)
  IN  /\ life = "running" /\ n >= Confirmations
      /\ \A k \in n - Confirmations + 1 .. n - 1 : readings[k] < readings[k + 1]
      => shown = readings[n]

(* The first value after a restart is never below the value restored, so a *)
(* placeholder zero in the first refresh is not published as a reset.      *)
RestartKeepsTotal ==
  [][life = "adding" /\ life' = "running" /\ saved # None =>
       shown' # None /\ shown' >= saved]_vars
==========================================================================
