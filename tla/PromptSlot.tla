------------------------------ MODULE PromptSlot ------------------------------
(***************************************************************************)
(* What the prompt gate promises its callers, with no ticket, no condition *)
(* variable and no cancellation callback: one slot per card, handed out in *)
(* arrival order, and never to a caller that was already cancelled while   *)
(* it waited.  Module PromptSerializer, the gate as it is coded, is shown  *)
(* to implement this module.                                               *)
(***************************************************************************)
CONSTANTS Op, Card, cardOf

VARIABLES
    waiting,    \* the operations standing in a card's line
    ahead,      \* ahead[o]: who was in o's line when o joined and still is
    owner,      \* the operations that own their card's slot
    cancelled   \* the operations whose cancel token has fired

vars == <<waiting, ahead, owner, cancelled>>

Sibling(o, p) == cardOf[o] = cardOf[p]

SlotFree(o) == \A p \in owner : ~Sibling(o, p)

Init ==
    /\ waiting = {}
    /\ ahead = [o \in Op |-> {}]
    /\ owner = {}
    /\ cancelled = {}

\* o leaves its line: nobody stands behind it any more.
LeaveLine(o) == ahead' = [p \in Op |-> IF p = o THEN {} ELSE ahead[p] \ {o}]

\* o joins the line of its card behind everyone who is already there.
Join(o) ==
    /\ o \notin waiting \cup owner
    /\ waiting' = waiting \cup {o}
    /\ ahead' = [ahead EXCEPT ![o] = {p \in waiting : Sibling(o, p)}]
    /\ UNCHANGED <<owner, cancelled>>

\* o finds its line empty and the slot free, and takes it without waiting.
Enter(o) ==
    /\ o \notin waiting \cup owner \cup cancelled
    /\ SlotFree(o)
    /\ \A p \in waiting : ~Sibling(o, p)
    /\ owner' = owner \cup {o}
    /\ UNCHANGED <<waiting, ahead, cancelled>>

\* The first in line is handed the free slot.
Grant(o) ==
    /\ o \in waiting \ cancelled
    /\ ahead[o] = {}
    /\ SlotFree(o)
    /\ waiting' = waiting \ {o}
    /\ owner' = owner \cup {o}
    /\ LeaveLine(o)
    /\ UNCHANGED cancelled

\* A cancelled operation gives up its place, wherever it stands.
Withdraw(o) ==
    /\ o \in waiting \cap cancelled
    /\ waiting' = waiting \ {o}
    /\ LeaveLine(o)
    /\ UNCHANGED <<owner, cancelled>>

\* The owner gives the slot back.
Leave(o) ==
    /\ o \in owner
    /\ owner' = owner \ {o}
    /\ UNCHANGED <<waiting, ahead, cancelled>>

Cancel(o) ==
    /\ cancelled' = cancelled \cup {o}
    /\ UNCHANGED <<waiting, ahead, owner>>

Next ==
    \E o \in Op :
        Join(o) \/ Enter(o) \/ Grant(o) \/ Withdraw(o) \/ Leave(o) \/ Cancel(o)

Spec == Init /\ [][Next]_vars
================================================================================
