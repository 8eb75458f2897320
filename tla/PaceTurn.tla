------------------------------ MODULE PaceTurn ------------------------------
(***************************************************************************)
(* What the shared LinkedIn pace promises to everybody outside it: at most *)
(* one LinkedIn request is out at a time, and after a request that was     *)
(* recorded LinkedIn is left alone for a gap taken from Gaps (the jittered *)
(* spacing, or a longer refusal wait).  Nobody can shorten a running gap.  *)
(* Pace implements it.                                                     *)
(***************************************************************************)
EXTENDS Integers

CONSTANTS
  Services,   \* the services that send LinkedIn requests
  Gaps,       \* every gap a recorded request may leave behind it
  MayAbandon  \* whether senders may die

VARIABLES
  out,        \* the services with a request out
  gap         \* how long no request may be sent

vars == <<out, gap>>

Init == out = {} /\ gap = 0

\* A request goes out: nobody else has one, and the gap has run down.
Send(s) ==
  /\ out = {}
  /\ gap = 0
  /\ out' = {s}
  /\ UNCHANGED gap

\* The answer is recorded and opens a new gap.
Answer(s) ==
  /\ s \in out
  /\ out' = out \ {s}
  /\ gap' \in Gaps

\* The sender dies: its request is over and nothing was recorded.
Abandon(s) ==
  /\ MayAbandon
  /\ s \in out
  /\ out' = out \ {s}
  /\ UNCHANGED gap

Tick ==
  /\ gap > 0
  /\ gap' = gap - 1
  /\ UNCHANGED out

Next == Tick \/ \E s \in Services : Send(s) \/ Answer(s) \/ Abandon(s)

Spec == Init /\ [][Next]_vars
=============================================================================
