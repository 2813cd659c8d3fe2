------------------------------ MODULE KeyStore ------------------------------
(***************************************************************************)
(* What a keyboard driver promises: from the moment it is open, the codes  *)
(* of the keys reach it one by one in the order they were sent, none is    *)
(* lost and none is added, and shift changes only as they say.             *)
(***************************************************************************)
EXTENDS Naturals, Sequences

CONSTANTS
  Codes,               \* what a key sends
  Effect(_, _)         \* the values that shift may take after a code

VARIABLES queue, open, shift

vars == <<queue, open, shift>>

Init == ~open

Closed == ~open        \* nothing is promised yet
Type(c) == open /\ queue' = Append(queue, c) /\ UNCHANGED <<open, shift>>
Take ==
  /\ open /\ queue # << >> /\ queue' = Tail(queue)
  /\ shift' \in Effect(Head(queue), shift)
  /\ UNCHANGED open

Next == Closed \/ Take \/ \E c \in Codes : Type(c)
Spec == Init /\ [][Next]_vars
=============================================================================
