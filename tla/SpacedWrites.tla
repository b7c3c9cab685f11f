--------------------------- MODULE SpacedWrites ---------------------------
(***************************************************************************)
(* What a Powercenter may rely on: the commands and parameter writes of    *)
(* one config entry reach it one at a time, and after each of them it is   *)
(* left alone for the whole delayed-ACK period, however that write ended.  *)
(* Once the entry is closed no further write begins.                       *)
(***************************************************************************)
EXTENDS Naturals

CONSTANT Rest        \* ECPD_STANDBY_COOLDOWN_SECONDS in ticks, at least 1

VARIABLES open, sending, rest

vars == <<open, sending, rest>>

Init == open = TRUE /\ sending = FALSE /\ rest = 0

BeginWrite ==
  /\ open /\ ~sending /\ rest = 0
  /\ sending' = TRUE
  /\ UNCHANGED <<open, rest>>

EndWrite ==
  /\ sending
  /\ sending' = FALSE
  /\ rest' = IF open THEN Rest ELSE 0
  /\ UNCHANGED open

Pass ==
  /\ rest > 0
  /\ rest' = rest - 1
  /\ UNCHANGED <<open, sending>>

Close ==
  /\ open
  /\ open' = FALSE
  /\ rest' = 0
  /\ UNCHANGED sending

Next == BeginWrite \/ EndWrite \/ Pass \/ Close

Spec == Init /\ [][Next]_vars
===========================================================================
