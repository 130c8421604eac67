------------------------------- MODULE Loops --------------------------------
(***************************************************************************)
(* Loops of the code: a value, and a body that is run on it over again.    *)
(***************************************************************************)
EXTENDS Naturals

\* The value after n rounds is Loop(first, body)[n].
Loop(first, body) ==
    LET value[n \in Nat] == IF n = 0 THEN first ELSE body[value[n - 1]] IN value
=============================================================================
