--------------------- MODULE VersiChargeControlProofs ---------------------
(***************************************************************************)
(* Safety of VersiChargeControl for any number of callers, any inputs and  *)
(* register contents, either phase count, every installation current and   *)
(* every command interval.                                                 *)
(***************************************************************************)
EXTENDS VersiChargeControl, PowerConversionProofs
---------------------------------------------------------------------------
(* The strengthening.  A target or resume command keeps, while in flight,  *)
(* the conversion it was checked with: the phase count is known and cannot *)
(* be forgotten, so what the command commits is what it sent.              *)
CommandConverts(c) ==
  /\ InFlight(c) /\ calls[c].kind \in {"target", "resume"} =>
       /\ phase = Phases
       /\ calls[c].power \in Nat
       /\ Convertible(calls[c].power, Phases, Install)
       /\ calls[c].amps = AmpsForPower(calls[c].power, Phases)
  /\ InFlight(c) /\ calls[c].kind = "pause" => calls[c].amps = 0

CommandsConvert == \A c \in Callers : CommandConverts(c)

IInv ==
  /\ TypeOK
  /\ SingleFlight
  /\ CommandsConvert
  /\ TargetUsable
  /\ AckedLimitMatchesTarget
---------------------------------------------------------------------------
(* Lemmas about the constants and the operators of the model.              *)

LEMMA ConstantFacts ==
  /\ Phases \in {1, 3} /\ Phases # None
  /\ \A n \in Nat : n # None
  /\ Install \in MinCurrent .. MaxCurrent
  /\ Interval \in Nat \ {0}
BY ControlAssumption, NoneAssumption

(* What a call is checked for before it starts.                            *)
LEMMA ConvertedCall ==
  ASSUME NEW power, phase \in {None, Phases}, CanConvert(power)
  PROVE  /\ phase = Phases
         /\ power \in Nat
         /\ AmpsForPower(power, phase) \in Nat
         /\ Convertible(power, Phases, Install)
<1>1. phase = Phases /\ Convertible(power, Phases, Install)
  BY DEF CanConvert
<1>2. AmpsForPower(power, Phases) \in Nat
  BY <1>1, ConstantFacts DEF Convertible, MinCurrent, MaxCurrent
<1>3. NominalPower(MinCurrent, Phases) \in Nat
  BY ConstantFacts, NominalPowerMonotone DEF MinCurrent, MaxCurrent
<1>4. NominalPower(Install, Phases) \in Nat
  BY ConstantFacts, NominalPowerMonotone DEF MinCurrent, MaxCurrent
<1>5. power \in Nat
  BY <1>1, <1>3, <1>4 DEF Convertible, PowerBounds
<1> QED BY <1>1, <1>2, <1>5

(* The poll initialises the target only when the phase count is known, and *)
(* then to a power that converts.                                          *)
LEMMA PolledTargetConverts ==
  ASSUME TypeOK, NEW newPhase \in {None, Phases}
  PROVE  /\ PolledTarget(newPhase) \in Nat \cup {None}
         /\ target # None => PolledTarget(newPhase) = target
         /\ target = None /\ newPhase = None => PolledTarget(newPhase) = None
         /\ target = None /\ newPhase = Phases =>
              /\ PolledTarget(newPhase) \in Nat
              /\ Convertible(PolledTarget(newPhase), Phases, Install)
<1>1. CASE target # None \/ newPhase = None
  BY <1>1, ConstantFacts DEF PolledTarget, TypeOK
<1>2. CASE target = None /\ newPhase = Phases
  <2> DEFINE amps == IF poll.limit # None /\ poll.limit >= 100 * MinCurrent
                       THEN InitialAmps(poll.limit, Install) ELSE MinCurrent
  <2>1. amps \in MinCurrent .. Install
    <3>1. MinCurrent \in MinCurrent .. Install
      BY ConstantFacts DEF MinCurrent, MaxCurrent
    <3>2. poll.limit # None => poll.limit \in Nat
      BY DEF TypeOK
    <3>3. poll.limit # None =>
            InitialAmps(poll.limit, Install) \in MinCurrent .. Install
      BY <3>2, ConstantFacts, InitialAmpsInRange
    <3> QED BY <3>1, <3>3
  <2>2. PolledTarget(newPhase) = NominalPower(amps, Phases)
    BY <1>2, ConstantFacts DEF PolledTarget
  <2>3. /\ NominalPower(amps, Phases) \in Nat
        /\ Convertible(NominalPower(amps, Phases), Phases, Install)
    BY <2>1, ConstantFacts, InitialTargetConverts
  <2> QED BY <1>2, <2>2, <2>3, ConstantFacts
<1> QED BY <1>1, <1>2

(* Every pair a fallback call may write is a pair of naturals.             *)
LEMMA EnteredPairsType ==
  ASSUME TypeOK
  PROVE  EnteredPairs \subseteq Pair
BY ControlAssumption
   DEF EnteredPairs, EnteredCurrent, EnteredTime, TypeOK, Pair
---------------------------------------------------------------------------
(* What the steps have in common.                                          *)

(* What a call carries when it starts: a target or resume call the ampere  *)
(* value of the power it will commit, a pause the value 0.                 *)
Checked(call) ==
  /\ call.kind \in {"target", "resume"} =>
       /\ phase = Phases
       /\ call.power \in Nat
       /\ Convertible(call.power, Phases, Install)
       /\ call.amps = AmpsForPower(call.power, Phases)
  /\ call.kind = "pause" => call.amps = 0

LEMMA LimitCallType ==
  ASSUME NEW kind \in Kinds, NEW amps \in Nat, NEW power \in Nat \cup {None}
  PROVE  /\ LimitCall(kind, amps, power) \in Call
         /\ LimitCall(kind, amps, power).kind = kind
         /\ LimitCall(kind, amps, power).amps = amps
         /\ LimitCall(kind, amps, power).power = power
BY DEF LimitCall, NoCall, Call, Kinds

(* A service call that starts is one step of Begin with a checked call.    *)
LEMMA BegunCall ==
  ASSUME TypeOK, NEW c \in Callers, Start(c)
  PROVE  /\ Available
         /\ \E spaced \in BOOLEAN, call \in Call :
              Begin(c, spaced, call) /\ Checked(call)
<1>1. ASSUME NEW kind \in {"target", "resume"}, NEW power, CanConvert(power)
      PROVE  /\ LimitCall(kind, AmpsForPower(power, phase), power) \in Call
             /\ Checked(LimitCall(kind, AmpsForPower(power, phase), power))
  <2>1. /\ phase = Phases
        /\ power \in Nat
        /\ AmpsForPower(power, phase) \in Nat
        /\ Convertible(power, Phases, Install)
    BY <1>1, ConvertedCall DEF TypeOK
  <2> QED BY <2>1, LimitCallType DEF Checked, Kinds
<1>2. LimitCall("pause", 0, None) \in Call /\ Checked(LimitCall("pause", 0, None))
  <2>1. /\ LimitCall("pause", 0, None) \in Call
        /\ LimitCall("pause", 0, None).kind = "pause"
        /\ LimitCall("pause", 0, None).amps = 0
    BY DEF LimitCall, NoCall, Call, Kinds
  <2> QED BY <2>1 DEF Checked
<1>3. ASSUME NEW pair \in EnteredPairs
      PROVE  LET call == [NoCall EXCEPT !.kind = "fallback", !.pair = pair]
             IN  call \in Call /\ Checked(call)
  <2>1. pair \in Nat \X Nat
    BY EnteredPairsType DEF Pair
  <2> QED BY <2>1 DEF NoCall, Call, Kinds, Checked
<1>4. CASE \E input \in Inputs : SetTarget(c, input)
  BY <1>4, <1>1 DEF SetTarget
<1>5. CASE Resume(c)
  BY <1>5, <1>1 DEF Resume
<1>6. CASE Pause(c)
  BY <1>6, <1>2 DEF Pause
<1>7. CASE SetFallback(c)
  <2>1. PICK pair \in EnteredPairs :
          Begin(c, FALSE, [NoCall EXCEPT !.kind = "fallback", !.pair = pair])
    BY <1>7 DEF SetFallback
  <2> QED BY <1>3, <1>7, <2>1 DEF SetFallback
<1> QED BY <1>4, <1>5, <1>6, <1>7 DEF Start

(* A successful poll marks the captured dictionaries as replaced and       *)
(* leaves everything else of the calls in flight alone.                    *)
LEMMA PublishKeepsCalls ==
  ASSUME TypeOK, PublishPoll, NEW c \in Callers
  PROVE  /\ calls'[c].st = calls[c].st     /\ calls'[c].kind = calls[c].kind
         /\ calls'[c].amps = calls[c].amps /\ calls'[c].power = calls[c].power
BY DEF PublishPoll, TypeOK, Call

(* The steps that touch the calls, the guard or the entry.                 *)
LEMMA StepKinds ==
  ASSUME [Next]_vars
  PROVE  \/ \E c \in Callers : Start(c) \/ Send(c) \/ Finish(c)
         \/ ServeRequest \/ PublishPoll
         \/ Shutdown \/ CloseLink
         \/ UNCHANGED <<calls, inProgress, loaded>>
BY DEF Next, PollStep, SetTargetLocally, RefuseFallback, LoseRequest,
       OtherController, StartPoll, ReadLimit, MissLimit, ReadPair, MissPair,
       FailPoll, Tick, vars, entry

(* The steps that touch the target, the phase count or the limit shown.    *)
LEMMA TargetSteps ==
  ASSUME TypeOK, [Next]_vars
  PROVE  \/ \E c \in Callers : LimitAcknowledged(c)
         \/ \E input \in Inputs : SetTargetLocally(input)
         \/ PublishPoll
         \/ UNCHANGED <<target, phase, values.limit, values.source>>
<1>1. ASSUME NEW c \in Callers, Start(c)
      PROVE  UNCHANGED shown
  BY <1>1 DEF Start, SetTarget, Resume, Pause, SetFallback, Begin
<1>2. ASSUME NEW c \in Callers, FallbackAcknowledged(c)
      PROVE  UNCHANGED <<target, phase, values.limit, values.source>>
  BY <1>2 DEF FallbackAcknowledged, TypeOK
<1> QED
  BY <1>1, <1>2 DEF Next, Finish, NotAcknowledged, Abandoned,
       Send, PollStep, RefuseFallback, ServeRequest, LoseRequest,
       OtherController, StartPoll, ReadLimit, MissLimit, ReadPair, MissPair,
       FailPoll, Tick, Shutdown, CloseLink, vars, shown

(* The phase count, once read, is never forgotten.                         *)
LEMMA PhaseKept ==
  ASSUME TypeOK, [Next]_vars, phase = Phases
  PROVE  phase' = Phases
<1>1. CASE PublishPoll
  BY <1>1 DEF PublishPoll
<1>2. CASE ~PublishPoll
  BY <1>2, TargetSteps DEF LimitAcknowledged, SetTargetLocally
<1> QED BY <1>1, <1>2
---------------------------------------------------------------------------
(* Types.                                                                  *)

LEMMA TypeInit == Init => TypeOK
<1> SUFFICES ASSUME Init
             PROVE  TypeOK
  OBVIOUS
<1>1. NoCall \in Call /\ NoRequest \in [kind : Kinds \cup {"none"},
                                       amps : Nat, pair : Pair]
  BY DEF NoCall, Call, NoRequest, Kinds, Pair
<1>2. calls \in [Callers -> Call]
  BY <1>1 DEF Init
<1>3. device \in [raw : Nat, pair : Pair]
  BY ControlAssumption DEF Init, Pair
<1>4. /\ values \in [limit : Nat \cup {None},
                     source : {"none", "poll", "write_ack"},
                     pair : Pair \cup {None}]
      /\ values.source = "none" <=> values.limit = None
  BY DEF Init
<1>5. poll \in [st : {"idle", "limit", "pair", "publish"},
               limit : Nat \cup {None}, pair : Pair \cup {None}]
  BY DEF Init, NoPoll
<1>6. sinceCommand \in 0 .. Interval /\ sinceLocal \in 0 .. Interval
  BY ConstantFacts DEF Init
<1> QED BY <1>1, <1>2, <1>3, <1>4, <1>5, <1>6 DEF Init, TypeOK

(* The parts a new command changes.                                        *)
LEMMA TypeBegin ==
  ASSUME TypeOK, NEW c \in Callers, NEW spaced, NEW call \in Call,
         Begin(c, spaced, call)
  PROVE  TypeOK'
<1>1. calls' \in [Callers -> Call]
  BY DEF Begin, TypeOK, Call
<1>2. sinceCommand' \in 0 .. Interval
  BY ConstantFacts DEF Begin
<1> QED BY <1>1, <1>2 DEF Begin, TypeOK, entry, shown

(* The parts the end of a command changes.                                 *)
LEMMA TypeEndCommand ==
  ASSUME TypeOK, NEW c \in Callers, EndCommand(c)
  PROVE  calls' \in [Callers -> Call] /\ inProgress' \in BOOLEAN
BY ConstantFacts DEF EndCommand, TypeOK, Call, NoCall, Kinds

LEMMA TypeStep == TypeOK /\ [Next]_vars => TypeOK'
<1> SUFFICES ASSUME TypeOK, [Next]_vars
             PROVE  TypeOK'
  OBVIOUS
<1>1. ASSUME NEW c \in Callers, Start(c)
      PROVE  TypeOK'
  BY <1>1, BegunCall, TypeBegin
<1>2. ASSUME NEW c \in Callers, Send(c)
      PROVE  TypeOK'
  BY <1>2 DEF Send, TypeOK, Call, Kinds, Pair, entry, shown, timers
<1>3. ASSUME NEW c \in Callers, LimitAcknowledged(c)
      PROVE  TypeOK'
  <2>1. calls[c].amps \in Nat /\ calls[c].power \in Nat \cup {None}
    BY DEF TypeOK, Call
  <2>2. 100 * calls[c].amps \in Nat
    BY <2>1
  <2>3. /\ values'.limit = 100 * calls[c].amps /\ values'.source = "write_ack"
        /\ values' \in [limit : Nat \cup {None},
                        source : {"none", "poll", "write_ack"},
                        pair : Pair \cup {None}]
    BY <1>3, <2>2 DEF LimitAcknowledged, TypeOK
  <2>4. values'.limit # None
    BY <2>2, <2>3, ConstantFacts
  <2>5. target' \in Nat \cup {None}
    BY <1>3, <2>1 DEF LimitAcknowledged, AckedTarget, TypeOK
  <2> QED BY <1>3, <2>3, <2>4, <2>5, TypeEndCommand
          DEF LimitAcknowledged, TypeOK, entry, timers
<1>4. ASSUME NEW c \in Callers, FallbackAcknowledged(c)
      PROVE  TypeOK'
  <2>1. calls[c].pair \in Pair
    BY DEF TypeOK, Call, Pair
  <2>2. /\ values'.limit = values.limit /\ values'.source = values.source
        /\ values' \in [limit : Nat \cup {None},
                        source : {"none", "poll", "write_ack"},
                        pair : Pair \cup {None}]
    BY <1>4, <2>1 DEF FallbackAcknowledged, TypeOK
  <2> QED BY <1>4, <2>2, TypeEndCommand
          DEF FallbackAcknowledged, TypeOK, entry, timers
<1>5. ASSUME NEW c \in Callers, NotAcknowledged(c) \/ Abandoned(c)
      PROVE  TypeOK'
  BY <1>5, TypeEndCommand
     DEF NotAcknowledged, Abandoned, TypeOK, entry, timers, shown
<1>6. ASSUME NEW input \in Inputs, SetTargetLocally(input)
      PROVE  TypeOK'
  <2>1. target' \in Nat
    BY <1>6, ConvertedCall DEF SetTargetLocally, TypeOK
  <2> QED BY <1>6, <2>1, ConstantFacts DEF SetTargetLocally, TypeOK, entry
<1>7. CASE RefuseFallback
  BY <1>7, ConstantFacts DEF RefuseFallback, TypeOK, entry, shown
<1>8. CASE ServeRequest
  <2>1. calls' \in [Callers -> Call]
    BY <1>8 DEF ServeRequest, Answered, TypeOK, Call
  <2>2. device' \in [raw : Nat, pair : Pair]
    BY <1>8 DEF ServeRequest, TypeOK
  <2> QED BY <1>8, <2>1, <2>2
          DEF ServeRequest, TypeOK, NoRequest, Pair, entry, timers, shown
<1>9. CASE LoseRequest
  BY <1>9 DEF LoseRequest, TypeOK, NoRequest, Pair, entry, timers, shown
<1>10. CASE OtherController
  BY <1>10, ControlAssumption
     DEF OtherController, TypeOK, entry, timers, shown
<1>11. CASE StartPoll
  BY <1>11 DEF StartPoll, TypeOK, NoPoll, entry, timers, shown
<1>12. CASE ReadLimit
  <2>1. NormalizeReadback(device.raw, Modern) \in Nat \cup {None}
    <3>1. device.raw \in Nat /\ Modern \in BOOLEAN
      BY ControlAssumption DEF TypeOK
    <3>2. 0 .. 100 * MaxCurrent \subseteq Nat
      BY DEF MaxCurrent
    <3> QED BY <3>1, <3>2, NormalizeReadbackType
  <2> QED BY <1>12, <2>1 DEF ReadLimit, TypeOK, entry, timers, shown
<1>13. CASE MissLimit \/ MissPair
  BY <1>13 DEF MissLimit, MissPair, TypeOK, entry, timers, shown
<1>14. CASE ReadPair
  BY <1>14 DEF ReadPair, TypeOK, entry, timers, shown
<1>15. CASE PublishPoll
  <2>1. PICK newPhase \in {Phases, phase} :
          phase' = newPhase /\ target' = PolledTarget(newPhase)
    BY <1>15 DEF PublishPoll
  <2>2. newPhase \in {None, Phases}
    BY DEF TypeOK
  <2>3. target' \in Nat \cup {None}
    BY <2>1, <2>2, PolledTargetConverts
  <2>4. calls' \in [Callers -> Call]
    <3>1. ASSUME NEW c \in Callers
          PROVE  [calls[c] EXCEPT !.held = ~InFlight(c)] \in Call
      <4>1. calls[c] \in Call /\ (~InFlight(c)) \in BOOLEAN
        BY DEF TypeOK, InFlight
      <4> QED BY <4>1 DEF Call
    <3> QED BY <1>15, <3>1 DEF PublishPoll
  <2>5. /\ values'.source = "none" <=> values'.limit = None
        /\ values' \in [limit : Nat \cup {None},
                        source : {"none", "poll", "write_ack"},
                        pair : Pair \cup {None}]
    BY <1>15 DEF PublishPoll, PolledValues, PollSource, TypeOK
  <2> QED BY <1>15, <2>1, <2>2, <2>3, <2>4, <2>5
          DEF PublishPoll, NoPoll, TypeOK, entry, timers
<1>16. CASE FailPoll
  BY <1>16 DEF FailPoll, NoPoll, TypeOK, entry, timers
<1>17. CASE Tick
  BY <1>17, ConstantFacts DEF Tick, TypeOK, entry, shown
<1>18. CASE Shutdown \/ CloseLink
  BY <1>18 DEF Shutdown, CloseLink, TypeOK, timers, shown
<1>19. CASE UNCHANGED vars
  BY <1>19 DEF vars, entry, timers, shown, TypeOK
<1> QED
  BY <1>1, <1>2, <1>3, <1>4, <1>5, <1>6, <1>7, <1>8, <1>9, <1>10, <1>11,
     <1>12, <1>13, <1>14, <1>15, <1>16, <1>17, <1>18, <1>19
     DEF Next, Finish, PollStep
---------------------------------------------------------------------------
(* One command at a time.                                                  *)

(* Which commands are in flight after each kind of step.                   *)
SameFlights == \A c \in Callers : InFlight(c)' <=> InFlight(c)

LEMMA BeginFlights ==
  ASSUME TypeOK, NEW c \in Callers, NEW spaced, NEW call \in Call,
         Begin(c, spaced, call)
  PROVE  /\ InFlight(c)'
         /\ \A d \in Callers \ {c} : InFlight(d)' <=> InFlight(d)
BY DEF Begin, InFlight, TypeOK, Call

LEMMA EndFlights ==
  ASSUME TypeOK, NEW c \in Callers, EndCommand(c)
  PROVE  /\ ~InFlight(c)'
         /\ \A d \in Callers \ {c} : InFlight(d)' <=> InFlight(d)
BY DEF EndCommand, InFlight, NoCall, TypeOK

LEMMA SingleFlightBegin ==
  ASSUME TypeOK, SingleFlight, Available, NEW c \in Callers, NEW spaced,
         NEW call \in Call, Begin(c, spaced, call)
  PROVE  SingleFlight'
<1>1. loaded /\ ~inProgress /\ \A d \in Callers : ~InFlight(d)
  BY DEF Available, Begin, SingleFlight
<1>2. loaded' /\ inProgress'
  BY <1>1 DEF Begin, entry
<1>3. \A d \in Callers : InFlight(d)' <=> d = c
  BY <1>1, BeginFlights
<1> QED BY <1>2, <1>3 DEF SingleFlight

LEMMA SingleFlightEnd ==
  ASSUME TypeOK, SingleFlight, NEW c \in Callers, InFlight(c), EndCommand(c),
         loaded' = loaded
  PROVE  SingleFlight'
<1>1. \A d \in Callers : ~InFlight(d)'
  BY EndFlights DEF SingleFlight
<1>2. inProgress' = FALSE
  BY DEF EndCommand
<1> QED BY <1>1, <1>2 DEF SingleFlight, TypeOK

LEMMA SingleFlightSame ==
  ASSUME SingleFlight, SameFlights, inProgress' = inProgress,
         loaded' = loaded
  PROVE  SingleFlight'
BY DEF SingleFlight, SameFlights

LEMMA SingleFlightStep == TypeOK /\ SingleFlight /\ [Next]_vars => SingleFlight'
<1> SUFFICES ASSUME TypeOK, SingleFlight, [Next]_vars
             PROVE  SingleFlight'
  OBVIOUS
<1>1. ASSUME NEW c \in Callers, Start(c)
      PROVE  SingleFlight'
  BY <1>1, BegunCall, SingleFlightBegin
<1>2. ASSUME NEW c \in Callers, Finish(c)
      PROVE  SingleFlight'
  <2>1. InFlight(c) /\ EndCommand(c) /\ loaded' = loaded
    BY <1>2 DEF Finish, LimitAcknowledged, FallbackAcknowledged,
                NotAcknowledged, Abandoned, InFlight, entry
  <2> QED BY <2>1, SingleFlightEnd
<1>3. ASSUME NEW c \in Callers, Send(c)
      PROVE  SingleFlight'
  <2>1. SameFlights
    BY <1>3 DEF SameFlights, Send, InFlight, TypeOK
  <2> QED BY <1>3, <2>1, SingleFlightSame DEF Send, entry
<1>4. CASE ServeRequest
  <2>1. SameFlights
    BY <1>4 DEF SameFlights, ServeRequest, Answered, InFlight, TypeOK, Call
  <2> QED BY <1>4, <2>1, SingleFlightSame DEF ServeRequest, entry
<1>5. CASE PublishPoll
  <2>1. SameFlights
    BY <1>5, PublishKeepsCalls DEF SameFlights, InFlight
  <2> QED BY <1>5, <2>1, SingleFlightSame DEF PublishPoll, entry
<1>6. CASE Shutdown
  <2>1. SameFlights
    BY <1>6 DEF SameFlights, Shutdown, InFlight
  <2> QED BY <1>6, <2>1 DEF Shutdown, SingleFlight, SameFlights
<1>7. CASE CloseLink
  <2>1. SameFlights
    BY <1>7 DEF SameFlights, CloseLink, InFlight
  <2> QED BY <1>7, <2>1, SingleFlightSame DEF CloseLink
<1>8. CASE UNCHANGED <<calls, inProgress, loaded>>
  <2>1. SameFlights
    BY <1>8 DEF SameFlights, InFlight
  <2> QED BY <1>8, <2>1, SingleFlightSame
<1> QED
  BY <1>1, <1>2, <1>3, <1>4, <1>5, <1>6, <1>7, <1>8, StepKinds
---------------------------------------------------------------------------
(* What the commands carry, and the target.                                *)

LEMMA CommandsConvertStep ==
  TypeOK /\ SingleFlight /\ CommandsConvert /\ [Next]_vars => CommandsConvert'
<1> SUFFICES ASSUME TypeOK, SingleFlight, CommandsConvert, [Next]_vars,
                    NEW d \in Callers
             PROVE  CommandConverts(d)'
  BY DEF CommandsConvert
<1> USE DEF CommandConverts
<1>0. CommandConverts(d)
  BY DEF CommandsConvert
<1>1. phase = Phases => phase' = Phases
  BY PhaseKept
<1>2. ASSUME NEW c \in Callers, Start(c)
      PROVE  CommandConverts(d)'
  <2>1. PICK spaced \in BOOLEAN, call \in Call :
          Begin(c, spaced, call) /\ Checked(call)
    BY <1>2, BegunCall
  <2>2. CASE c = d
    <3>1. /\ calls'[d].kind = call.kind /\ calls'[d].amps = call.amps
          /\ calls'[d].power = call.power
      BY <2>1, <2>2 DEF Begin, TypeOK, Call
    <3> QED BY <1>1, <2>1, <3>1 DEF Checked
  <2>3. CASE c # d
    <3>1. calls'[d] = calls[d]
      BY <2>1, <2>3 DEF Begin, TypeOK
    <3> QED BY <1>0, <1>1, <3>1 DEF InFlight
  <2> QED BY <2>2, <2>3
<1>3. ASSUME NEW c \in Callers, Send(c)
      PROVE  CommandConverts(d)'
  <2>1. /\ calls'[d].kind = calls[d].kind /\ calls'[d].amps = calls[d].amps
        /\ calls'[d].power = calls[d].power
        /\ InFlight(d)' <=> InFlight(d)
    BY <1>3 DEF Send, TypeOK, Call, InFlight
  <2> QED BY <1>0, <1>1, <2>1
<1>4. ASSUME NEW c \in Callers, Finish(c)
      PROVE  CommandConverts(d)'
  <2>1. EndCommand(c)
    BY <1>4 DEF Finish, LimitAcknowledged, FallbackAcknowledged,
                NotAcknowledged, Abandoned
  <2>2. calls'[d] = calls[d] \/ ~InFlight(d)'
    BY <2>1 DEF EndCommand, TypeOK, InFlight, NoCall
  <2> QED BY <1>0, <1>1, <2>2 DEF InFlight
<1>5. CASE ServeRequest
  <2>1. /\ calls'[d].kind = calls[d].kind /\ calls'[d].amps = calls[d].amps
        /\ calls'[d].power = calls[d].power
        /\ InFlight(d)' <=> InFlight(d)
    BY <1>5 DEF ServeRequest, Answered, TypeOK, Call, InFlight
  <2> QED BY <1>0, <1>1, <2>1
<1>6. CASE PublishPoll
  <2>1. InFlight(d)' <=> InFlight(d)
    BY <1>6, PublishKeepsCalls DEF InFlight
  <2> QED BY <1>0, <1>1, <1>6, <2>1, PublishKeepsCalls
<1>7. CASE Shutdown \/ CloseLink \/ UNCHANGED <<calls, inProgress, loaded>>
  <2>1. calls' = calls
    BY <1>7 DEF Shutdown, CloseLink
  <2> QED BY <1>0, <1>1, <2>1 DEF InFlight
<1> QED
  BY <1>2, <1>3, <1>4, <1>5, <1>6, <1>7, StepKinds

LEMMA TargetUsableStep ==
  TypeOK /\ CommandsConvert /\ TargetUsable /\ [Next]_vars => TargetUsable'
<1> SUFFICES ASSUME TypeOK, CommandsConvert, TargetUsable, [Next]_vars
             PROVE  TargetUsable'
  OBVIOUS
<1>1. ASSUME NEW c \in Callers, LimitAcknowledged(c)
      PROVE  TargetUsable'
  <2>1. CASE calls[c].kind = "pause"
    BY <1>1, <2>1 DEF LimitAcknowledged, AckedTarget, TargetUsable
  <2>2. CASE calls[c].kind # "pause"
    <3>1. calls[c].kind \in {"target", "resume"} /\ InFlight(c)
      BY <1>1, <2>2 DEF LimitAcknowledged, InFlight, TypeOK, Call, Kinds
    <3>2. /\ phase = Phases
          /\ calls[c].power \in Nat
          /\ Convertible(calls[c].power, Phases, Install)
      BY <3>1 DEF CommandsConvert, CommandConverts
    <3>3. target' = calls[c].power /\ phase' = phase
      BY <1>1, <2>2 DEF LimitAcknowledged, AckedTarget
    <3> QED BY <3>2, <3>3, ConstantFacts DEF TargetUsable
  <2> QED BY <2>1, <2>2
<1>2. ASSUME NEW input \in Inputs, SetTargetLocally(input)
      PROVE  TargetUsable'
  <2>1. /\ CanConvert(QuantizePower(input))
        /\ target' = QuantizePower(input) /\ phase' = phase
    BY <1>2 DEF SetTargetLocally
  <2>2. /\ phase = Phases
        /\ QuantizePower(input) \in Nat
        /\ Convertible(QuantizePower(input), Phases, Install)
    BY <2>1, ConvertedCall DEF TypeOK
  <2> QED BY <2>1, <2>2, ConstantFacts DEF TargetUsable
<1>3. CASE PublishPoll
  <2>1. PICK newPhase \in {Phases, phase} :
          phase' = newPhase /\ target' = PolledTarget(newPhase)
    BY <1>3 DEF PublishPoll
  <2>2. newPhase \in {None, Phases} /\ (target # None => newPhase = Phases)
    BY <2>1 DEF TypeOK, TargetUsable
  <2>3. CASE target # None
    BY <2>1, <2>2, <2>3, PolledTargetConverts, ConstantFacts DEF TargetUsable
  <2>4. CASE target = None /\ newPhase = None
    BY <2>1, <2>4, PolledTargetConverts DEF TargetUsable
  <2>5. CASE target = None /\ newPhase = Phases
    BY <2>1, <2>5, PolledTargetConverts, ConstantFacts DEF TargetUsable
  <2> QED BY <2>2, <2>3, <2>4, <2>5
<1>4. CASE UNCHANGED <<target, phase>>
  BY <1>4 DEF TargetUsable
<1> QED
  BY <1>1, <1>2, <1>3, <1>4, TargetSteps
---------------------------------------------------------------------------
(* The acknowledged limit.                                                 *)

LEMMA AckedLimitStep == IInv /\ [Next]_vars => AckedLimitMatchesTarget'
<1> SUFFICES ASSUME IInv, [Next]_vars
             PROVE  AckedLimitMatchesTarget'
  OBVIOUS
<1> USE DEF AckedLimitMatchesTarget
<1>0. TypeOK /\ CommandsConvert /\ TargetUsable /\ AckedLimitMatchesTarget
  BY DEF IInv
<1>1. ASSUME NEW c \in Callers, LimitAcknowledged(c)
      PROVE  AckedLimitMatchesTarget'
  <2>1. values'.limit = 100 * calls[c].amps /\ target' = AckedTarget(c)
    BY <1>0, <1>1 DEF LimitAcknowledged, TypeOK
  <2>2. CASE calls[c].kind = "pause"
    <3>1. calls[c].amps = 0
      BY <1>0, <1>1, <2>2
         DEF CommandsConvert, CommandConverts, LimitAcknowledged, InFlight
    <3> QED BY <2>1, <3>1
  <2>3. CASE calls[c].kind # "pause"
    <3>1. calls[c].kind \in {"target", "resume"} /\ InFlight(c)
      BY <1>0, <1>1, <2>3 DEF LimitAcknowledged, InFlight, TypeOK, Call, Kinds
    <3>2. /\ calls[c].power \in Nat
          /\ calls[c].amps = AmpsForPower(calls[c].power, Phases)
      BY <1>0, <3>1 DEF CommandsConvert, CommandConverts
    <3>3. target' = calls[c].power
      BY <2>1, <2>3 DEF AckedTarget
    <3> QED BY <2>1, <3>2, <3>3, ConstantFacts
  <2> QED BY <2>2, <2>3
<1>2. ASSUME NEW input \in Inputs, SetTargetLocally(input)
      PROVE  AckedLimitMatchesTarget'
  <2> DEFINE power == QuantizePower(input)
  <2>1. /\ CanConvert(power) /\ target' = power /\ values' = values
        /\ \/ ControlState = "paused"
           \/ values.limit = 100 * AmpsForPower(power, phase)
    BY <1>2 DEF SetTargetLocally
  <2>2. phase = Phases /\ power \in Nat
    BY <1>0, <2>1, ConvertedCall DEF TypeOK
  <2>3. ASSUME values.source = "write_ack", values.limit # 0
        PROVE  ControlState # "paused"
    <3>1. target # None /\ values.limit = 100 * AmpsForPower(target, Phases)
      BY <1>0, <2>3
    <3>2. AmpsForPower(target, Phases) \in MinCurrent .. Install
      BY <1>0, <3>1 DEF TargetUsable, Convertible
    <3>3. values.limit >= 100 * MinCurrent
      BY <3>1, <3>2, ConstantFacts DEF MinCurrent, MaxCurrent
    <3> QED BY <2>3, <3>3 DEF ControlState
  <2> QED BY <2>1, <2>2, <2>3, ConstantFacts
<1>3. CASE PublishPoll
  <2>1. values'.source # "write_ack"
    BY <1>3 DEF PublishPoll, PolledValues, PollSource
  <2> QED BY <2>1
<1>4. CASE UNCHANGED <<target, phase, values.limit, values.source>>
  BY <1>0, <1>4
<1> QED
  BY <1>0, <1>1, <1>2, <1>3, <1>4, TargetSteps
---------------------------------------------------------------------------
(* The theorems.                                                           *)

LEMMA InvariantInit == Init => IInv
<1> SUFFICES ASSUME Init
             PROVE  IInv
  OBVIOUS
<1>1. TypeOK
  BY TypeInit
<1>2. \A c \in Callers : ~InFlight(c)
  BY DEF Init, NoCall, InFlight
<1>3. SingleFlight
  BY <1>2 DEF Init, SingleFlight
<1>4. CommandsConvert
  BY <1>2 DEF CommandsConvert, CommandConverts
<1>5. TargetUsable /\ AckedLimitMatchesTarget
  BY DEF Init, TargetUsable, AckedLimitMatchesTarget
<1> QED BY <1>1, <1>3, <1>4, <1>5 DEF IInv

LEMMA InvariantStep == IInv /\ [Next]_vars => IInv'
BY TypeStep, SingleFlightStep, CommandsConvertStep, TargetUsableStep,
   AckedLimitStep DEF IInv

(* The inductive invariant holds of every behaviour.                       *)
THEOREM Invariance == Spec => []IInv
BY InvariantInit, InvariantStep, PTL DEF Spec

(* Every variable keeps its type, whatever the charger's registers hold.   *)
THEOREM TypeCorrect == Spec => []TypeOK
BY Invariance, PTL DEF IInv

(* The fail-fast guard is exactly "one command is in flight".              *)
THEOREM OneCommandAtATime == Spec => []SingleFlight
BY Invariance, PTL DEF IInv

(* The remembered target is always one a resume can use.                   *)
THEOREM TargetAlwaysUsable == Spec => []TargetUsable
BY Invariance, PTL DEF IInv

(* A limit shown as acknowledged is the whole-ampere value of the target.  *)
THEOREM AckedLimitFollowsTarget == Spec => []AckedLimitMatchesTarget
BY Invariance, PTL DEF IInv

(* While a target or resume command is in flight only its answer moves the *)
(* target.                                                                 *)
LEMMA TargetStableStep ==
  IInv /\ [Next]_vars => [loaded => \A c \in Callers : TargetStable(c)]_vars
<1> SUFFICES ASSUME IInv, [Next]_vars, loaded, NEW c \in Callers,
                    InFlight(c), calls[c].kind \in {"target", "resume"},
                    target' # target
             PROVE  /\ calls[c].st = "answered" /\ ~InFlight(c)'
                    /\ target' = calls[c].power
  BY DEF TargetStable
<1>0. /\ TypeOK /\ SingleFlight /\ phase = Phases
      /\ inProgress
  BY DEF IInv, CommandsConvert, CommandConverts, SingleFlight
<1>1. ASSUME NEW d \in Callers, LimitAcknowledged(d)
      PROVE  /\ calls[c].st = "answered" /\ ~InFlight(c)'
             /\ target' = calls[c].power
  <2>1. c = d
    BY <1>0, <1>1 DEF SingleFlight, LimitAcknowledged, InFlight
  <2>2. ~InFlight(c)'
    BY <1>0, <1>1, <2>1, EndFlights DEF LimitAcknowledged
  <2>3. target' = calls[c].power
    BY <1>1, <2>1 DEF LimitAcknowledged, AckedTarget
  <2> QED BY <1>1, <2>1, <2>2, <2>3 DEF LimitAcknowledged
<1>2. ASSUME NEW input \in Inputs, SetTargetLocally(input)
      PROVE  FALSE
  BY <1>0, <1>2 DEF SetTargetLocally
<1>3. CASE PublishPoll
  <2>1. target # None
    BY <1>0, ConstantFacts DEF IInv, TargetUsable
  <2>2. target' = target
    BY <1>3, <2>1 DEF PublishPoll, PolledTarget
  <2> QED BY <2>2
<1> QED
  BY <1>0, <1>1, <1>2, <1>3, TargetSteps

(* The action property of the same name, for every instance.               *)
THEOREM TargetMovesOnlyWithItsAnswer == Spec => TargetMovesWithItsAnswer
<1>1. IInv /\ [Next]_vars => [loaded => \A c \in Callers : TargetStable(c)]_vars
  BY TargetStableStep
<1> QED BY <1>1, Invariance, PTL DEF Spec, TargetMovesWithItsAnswer
===========================================================================
