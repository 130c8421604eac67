-------------------------- MODULE MCPromptSerializer --------------------------
(* A small instance of the prompt gate: two operations on one card, which can  *)
(* prompt three times between them and so queue behind each other in turn.    *)
EXTENDS PromptSerializer

CONSTANTS o1, o2, c1

Ops == {o1, o2}
Cards == {c1}
CardOf == [o \in Ops |-> c1]
================================================================================
