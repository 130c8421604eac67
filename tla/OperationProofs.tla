--------------------------- MODULE OperationProofs --------------------------
(***************************************************************************)
(* The gate that an operation's prompts pass, for any sets of operations   *)
(* and cards and any number of prompts; and how an operation ends, for any *)
(* number of prompts.                                                      *)
(***************************************************************************)
EXTENDS PromptSerializer, OperationBase, TLAPS

InAcquire == {"registered", "parked", "woken", "admitted", "refused"}

\* Tickets of queued operations are distinct and already drawn.
TicketInv ==
    /\ \A o \in Queued : ticket[o] < nextTicket
    /\ \A o, p \in Queued : ticket[o] = ticket[p] => o = p

\* A gate's queue is exactly the tickets of the operations queued for the card.
WaitersInv ==
    \A c \in Card : \A t \in Nat :
        t \in waiters[c] <=>
            \E o \in Queued : cardOf[o] = c /\ ticket[o] = t

\* A gate is held exactly while some operation of the card holds it.
HeldInv == \A c \in Card : held[c] <=> \E o \in Holding : cardOf[o] = c

\* A gate is in the map exactly while it is held or queued for.
GateInv == \A c \in Card : c \in gates <=> (held[c] \/ waiters[c] # {})

LiveInv == \A o \in Op : o \in live <=> pc[o] \in {"live", "shown", "answered"}

\* An operation inside acquire() has its wake-up registered until it fires.
CallbackInv ==
    \A o \in Op :
        /\ callback[o] = "armed" => pc[o] \in InAcquire /\ o \notin cancelled
        /\ pc[o] \in InAcquire /\ o \notin cancelled => callback[o] = "armed"

IInv ==
    /\ TypeOK
    /\ TicketInv
    /\ WaitersInv
    /\ HeldInv
    /\ OneHolderPerCard
    /\ GateInv
    /\ LiveInv
    /\ CallbackInv
    /\ NoLostWakeup
--------------------------------------------------------------------------------
\* The initial state: no gate, nobody inside acquire().
LEMMA InitInv == Init => IInv
  BY CardOfAssumption
  DEF Init, IInv, TypeOK, PC, TicketInv, WaitersInv, HeldInv, OneHolderPerCard,
      GateInv, LiveInv, CallbackInv, NoLostWakeup, Queued, Holding, InAcquire

\* A step that leaves the gates alone and moves nobody into or out of a queue or
\* a slot preserves everything that relates the gates to the operations.
LEMMA QuietStep ==
  ASSUME IInv, UNCHANGED gateVars, Queued' = Queued, Holding' = Holding
  PROVE  TicketInv' /\ WaitersInv' /\ HeldInv' /\ OneHolderPerCard' /\ GateInv'
  BY DEF IInv, gateVars, TicketInv, WaitersInv, HeldInv, OneHolderPerCard, GateInv

\* How acquire()'s critical section ends, for its first pass and for every wake
\* alike: t is the caller's ticket and W the card's queue with t in it.
LEMMA AdmissionInv ==
  ASSUME IInv, NEW o \in Op, NEW t \in Nat, NEW W \in SUBSET Nat,
         pc[o] \in {"registered", "woken"},
         ticket' = [ticket EXCEPT ![o] = t], o \in Queued => ticket[o] = t,
         nextTicket' \in Nat, nextTicket <= nextTicket', t < nextTicket',
         \A p \in Queued : p # o => ticket[p] # t,
         \A u \in Nat : u \in W <=>
             \/ u = t
             \/ \E p \in Queued : p # o /\ cardOf[p] = cardOf[o] /\ ticket[p] = u,
         Admission(o, t, W),
         UNCHANGED <<live, cancelled, callback, cancelVars>>
  PROVE  IInv'
<1> DEFINE c == cardOf[o]
<1>1. c \in Card
  BY Zenon, CardOfAssumption
<1>2. TypeOK'
  <2>1. CASE Park(o, t, W)
    BY Zenon, <1>1, <2>1 DEF IInv, TypeOK, PC, Park, cancelVars
  <2>2. CASE Surrender(o, t, W)
    <3>1. pc' \in [Op -> PC]
      BY Zenon, <2>2 DEF IInv, TypeOK, PC, Surrender, AllWoken
    <3> QED
      BY Zenon, <1>1, <2>2, <3>1 DEF IInv, TypeOK, Surrender, EraseIfIdle, cancelVars
  <2>3. CASE TakeSlot(o, t, W)
    BY Zenon, <1>1, <2>3 DEF IInv, TypeOK, PC, TakeSlot, cancelVars
  <2> QED
    BY Zenon, <2>1, <2>2, <2>3 DEF Admission
<1>3. LiveInv' /\ CallbackInv'
  <2>1. CASE Park(o, t, W)
    BY Zenon, <2>1 DEF IInv, TypeOK, LiveInv, CallbackInv, InAcquire, Park
  <2>2. CASE Surrender(o, t, W)
    BY <2>2 DEF IInv, TypeOK, LiveInv, CallbackInv, InAcquire, Surrender, AllWoken
  <2>3. CASE TakeSlot(o, t, W)
    BY Zenon, <2>3 DEF IInv, TypeOK, LiveInv, CallbackInv, InAcquire, TakeSlot
  <2> QED
    BY Zenon, <2>1, <2>2, <2>3 DEF Admission
<1>4. CASE Park(o, t, W)
  <2>1. Queued' = Queued \cup {o} /\ Holding' = Holding
    BY <1>4 DEF IInv, TypeOK, Park, Queued, Holding
  <2>2. TicketInv'
    BY <2>1 DEF IInv, TypeOK, TicketInv, Queued
  <2>3. WaitersInv'
    <3> SUFFICES ASSUME NEW d \in Card, NEW u \in Nat
                 PROVE  u \in waiters'[d] <=>
                            \E p \in Queued' : cardOf[p] = d /\ ticket'[p] = u
      BY Zenon DEF WaitersInv
    <3>1. CASE d = c
      BY <1>1, <1>4, <2>1, <3>1 DEF IInv, TypeOK, Park, Queued
    <3>2. CASE d # c
      BY <1>1, <1>4, <2>1, <3>2 DEF IInv, TypeOK, WaitersInv, Park, Queued
    <3> QED
      BY Zenon, <3>1, <3>2
  <2>4. HeldInv' /\ OneHolderPerCard'
    BY Zenon, <1>1, <1>4, <2>1 DEF IInv, TypeOK, HeldInv, OneHolderPerCard, Park
  <2>6. GateInv'
    BY Zenon, <1>1, <1>4 DEF IInv, TypeOK, GateInv, Park
  <2>5. NoLostWakeup'
    <3>1. waiters[c] \subseteq W
      BY <1>1 DEF IInv, TypeOK, WaitersInv, Queued
    <3>2. held[c] \/ \E u \in W : u < t
      BY <1>4 DEF Park, AtHead, SlotFree
    <3> SUFFICES ASSUME NEW p \in Op, pc'[p] = "parked"
                 PROVE  /\ \/ held'[cardOf[p]]
                           \/ \E u \in waiters'[cardOf[p]] : u < ticket'[p]
                        /\ p \in cancelled' => callback'[p] = "firing"
      BY Zenon DEF NoLostWakeup
    <3>3. CASE p = o
      BY Zenon, <1>1, <1>4, <3>2, <3>3 DEF IInv, TypeOK, Park
    <3>4. CASE p # o
      BY Zenon, <1>1, <1>4, <3>1, <3>4, CardOfAssumption DEF IInv, TypeOK, NoLostWakeup, Park
    <3> QED
      BY Zenon, <3>3, <3>4
  <2> QED
    BY Zenon, <1>2, <1>3, <2>2, <2>3, <2>4, <2>5, <2>6 DEF IInv
<1>5. CASE Surrender(o, t, W)
  <2>1. Queued' = Queued \ {o} /\ Holding' = Holding
    BY <1>5 DEF IInv, TypeOK, Surrender, AllWoken, Queued, Holding
  <2>2. TicketInv'
    BY <2>1 DEF IInv, TypeOK, TicketInv, Queued
  <2>3. WaitersInv'
    <3>1. Queued \subseteq Op /\ waiters' = [waiters EXCEPT ![c] = W \ {t}]
      BY Zenon, <1>5 DEF Queued, Surrender
    <3> QED
      BY <1>1, <2>1, <3>1 DEF IInv, TypeOK, WaitersInv
  <2>4. HeldInv' /\ OneHolderPerCard' /\ GateInv'
    <3>1. HeldInv' /\ OneHolderPerCard'
      BY Zenon, <1>5, <2>1 DEF IInv, HeldInv, OneHolderPerCard, Surrender
    <3>2. GateInv'
      BY Zenon, <1>1, <1>5 DEF IInv, TypeOK, GateInv, Surrender, EraseIfIdle
    <3> QED
      BY Zenon, <3>1, <3>2
  <2>5. NoLostWakeup'
    BY Zenon, <1>5 DEF IInv, TypeOK, NoLostWakeup, Surrender, AllWoken
  <2> QED
    BY Zenon, <1>2, <1>3, <2>2, <2>3, <2>4, <2>5 DEF IInv
<1>6. CASE TakeSlot(o, t, W)
  <2>1. Queued' = Queued \ {o} /\ Holding' = Holding \cup {o}
    BY <1>6 DEF IInv, TypeOK, TakeSlot, Queued, Holding
  <2>2. TicketInv'
    BY <2>1 DEF IInv, TypeOK, TicketInv, Queued
  <2>3. WaitersInv'
    BY <1>1, <1>6, <2>1 DEF IInv, TypeOK, WaitersInv, TakeSlot, Queued
  <2>4. HeldInv' /\ OneHolderPerCard' /\ GateInv'
    BY <1>1, <1>6, <2>1
    DEF IInv, TypeOK, HeldInv, OneHolderPerCard, GateInv, TakeSlot, SlotFree
  <2>5. NoLostWakeup'
    BY <1>1, <1>6 DEF IInv, TypeOK, NoLostWakeup, TakeSlot, WaitersInv, Queued
  <2> QED
    BY Zenon, <1>2, <1>3, <2>2, <2>3, <2>4, <2>5 DEF IInv
<1> QED
  BY Zenon, <1>4, <1>5, <1>6 DEF Admission

\* The inductive step: one step per action.  All but the three that move an
\* operation through a gate are quiet.
LEMMA NextInv == IInv /\ [Next]_vars => IInv'
<1> SUFFICES ASSUME IInv, [Next]_vars PROVE IInv'
  BY Zenon
<1>1. CASE UNCHANGED vars
  BY <1>1 DEF IInv, TypeOK, TicketInv, WaitersInv, HeldInv, OneHolderPerCard,
              GateInv, LiveInv, CallbackInv, NoLostWakeup, Queued, Holding, vars
<1>2. ASSUME NEW o \in Op, Enqueue(o) PROVE IInv'
  <2>1. \A p \in Queued : ticket[p] < nextTicket /\ p # o
    BY Zenon, <1>2 DEF IInv, TicketInv, Queued, Enqueue
  <2>2. \A u \in Nat : u \in waiters[cardOf[o]] \cup {nextTicket} <=>
            \/ u = nextTicket
            \/ \E p \in Queued : p # o /\ cardOf[p] = cardOf[o] /\ ticket[p] = u
    BY <2>1, CardOfAssumption DEF IInv, WaitersInv
  <2>3. waiters[cardOf[o]] \cup {nextTicket} \in SUBSET Nat
    BY Zenon, CardOfAssumption DEF IInv, TypeOK
  <2>4. \A p \in Queued : p # o => ticket[p] # nextTicket
    BY <2>1 DEF IInv, TypeOK, Queued
  <2>5. /\ nextTicket \in Nat /\ nextTicket' \in Nat
        /\ nextTicket <= nextTicket' /\ nextTicket < nextTicket'
    BY <1>2 DEF IInv, TypeOK, Enqueue
  <2>6. /\ pc[o] \in {"registered", "woken"}
        /\ ticket' = [ticket EXCEPT ![o] = nextTicket]
        /\ Admission(o, nextTicket, waiters[cardOf[o]] \cup {nextTicket})
        /\ UNCHANGED <<live, cancelled, callback, cancelVars>>
    BY Zenon, <1>2 DEF Enqueue
  <2> QED
    BY <2>1, <2>2, <2>3, <2>4, <2>5, <2>6, AdmissionInv
<1>3. ASSUME NEW o \in Op, Reevaluate(o) PROVE IInv'
  <2>1. o \in Queued
    BY Zenon, <1>3 DEF Queued, Reevaluate
  <2>2. \A u \in Nat : u \in waiters[cardOf[o]] <=>
            \/ u = ticket[o]
            \/ \E p \in Queued : p # o /\ cardOf[p] = cardOf[o] /\ ticket[p] = u
    BY <2>1, CardOfAssumption DEF IInv, WaitersInv
  <2>3. waiters[cardOf[o]] \in SUBSET Nat
    BY Zenon, CardOfAssumption DEF IInv, TypeOK
  <2>4. \A p \in Queued : p # o => ticket[p] # ticket[o]
    BY Zenon, <2>1 DEF IInv, TicketInv
  <2>5. /\ ticket[o] \in Nat /\ nextTicket' \in Nat
        /\ nextTicket <= nextTicket' /\ ticket[o] < nextTicket'
    BY <1>3, <2>1 DEF IInv, TypeOK, TicketInv, Reevaluate
  <2>6. /\ pc[o] \in {"registered", "woken"}
        /\ ticket' = [ticket EXCEPT ![o] = ticket[o]]
        /\ Admission(o, ticket[o], waiters[cardOf[o]])
        /\ UNCHANGED <<live, cancelled, callback, cancelVars>>
    BY Zenon, <1>3 DEF Reevaluate, IInv, TypeOK
  <2> QED
    BY Zenon, <2>1, <2>2, <2>3, <2>4, <2>5, <2>6, AdmissionInv
<1>4. ASSUME NEW o \in Op, Release(o) PROVE IInv'
  <2>1. Queued' = Queued /\ Holding' = Holding \ {o} /\ o \in Holding
    BY Zenon, <1>4 DEF IInv, TypeOK, Release, AllWoken, Queued, Holding
  <2>2. TypeOK'
    <3>1. pc' \in [Op -> PC]
      BY Zenon, <1>4 DEF IInv, TypeOK, PC, Release, AllWoken
    <3> QED
      BY Zenon, <1>4, <3>1, CardOfAssumption
      DEF IInv, TypeOK, Release, EraseIfIdle, cancelVars
  <2>3. TicketInv' /\ WaitersInv'
    BY <1>4, <2>1 DEF IInv, TicketInv, WaitersInv, Release
  <2>4. HeldInv' /\ OneHolderPerCard' /\ GateInv'
    BY <1>4, <2>1, CardOfAssumption
    DEF IInv, TypeOK, HeldInv, OneHolderPerCard, GateInv, Release, EraseIfIdle
  <2>5. LiveInv' /\ CallbackInv' /\ NoLostWakeup'
    BY Zenon, <1>4 DEF IInv, TypeOK, LiveInv, CallbackInv, NoLostWakeup, InAcquire,
                Release, AllWoken
  <2> QED
    BY Zenon, <2>2, <2>3, <2>4, <2>5 DEF IInv
<1>5. ASSUME NEW o \in Op, Register(o) PROVE IInv'
  <2>1. Queued' = Queued /\ Holding' = Holding
    BY Zenon, <1>5 DEF IInv, TypeOK, Register, Queued, Holding, AllWoken
  <2>2. TypeOK'
    BY Zenon, <1>5 DEF IInv, TypeOK, PC, Register, gateVars, cancelVars, AllWoken
  <2>3. LiveInv' /\ CallbackInv' /\ NoLostWakeup'
    <3>1. LiveInv'
      BY Zenon, <1>5 DEF IInv, TypeOK, LiveInv, Register, AllWoken
    <3>2. CallbackInv'
      BY <1>5 DEF IInv, TypeOK, CallbackInv, InAcquire, Register, AllWoken
    <3>3. NoLostWakeup'
      BY Zenon, <1>5 DEF IInv, TypeOK, NoLostWakeup, Register, gateVars, AllWoken
    <3> QED
      BY Zenon, <3>1, <3>2, <3>3
  <2> QED
    BY Zenon, <1>5, <2>1, <2>2, <2>3, QuietStep DEF IInv, Register, gateVars
<1>6. ASSUME NEW o \in Op, SpuriousWake(o) PROVE IInv'
  <2>1. Queued' = Queued /\ Holding' = Holding
    BY Zenon, <1>6 DEF IInv, TypeOK, SpuriousWake, Queued, Holding
  <2>2. TypeOK'
    BY Zenon, <1>6 DEF IInv, TypeOK, PC, SpuriousWake, gateVars, cancelVars
  <2>3. LiveInv' /\ CallbackInv' /\ NoLostWakeup'
    BY Zenon, <1>6 DEF IInv, TypeOK, LiveInv, CallbackInv, NoLostWakeup, InAcquire,
      SpuriousWake, gateVars
  <2> QED
    BY Zenon, <1>6, <2>1, <2>2, <2>3, QuietStep DEF IInv, SpuriousWake, gateVars
<1>7. ASSUME NEW o \in Op, Unregister(o) PROVE IInv'
  <2>1. Queued' = Queued /\ Holding' = Holding
    BY Zenon, <1>7 DEF IInv, TypeOK, Unregister, Queued, Holding
  <2>2. TypeOK'
    BY Zenon, <1>7 DEF IInv, TypeOK, PC, Unregister, gateVars, cancelVars
  <2>3. LiveInv' /\ CallbackInv' /\ NoLostWakeup'
    BY Zenon, <1>7 DEF IInv, TypeOK, LiveInv, CallbackInv, NoLostWakeup, InAcquire,
      Unregister, gateVars
  <2> QED
    BY Zenon, <1>7, <2>1, <2>2, <2>3, QuietStep DEF IInv, Unregister, gateVars
<1>8. ASSUME NEW o \in Op, NotWanted(o) PROVE IInv'
  <2>1. Queued' = Queued /\ Holding' = Holding
    BY Zenon, <1>8 DEF IInv, TypeOK, NotWanted, Queued, Holding
  <2>2. TypeOK'
    BY Zenon, <1>8 DEF IInv, TypeOK, PC, NotWanted, gateVars, cancelVars
  <2>3. LiveInv' /\ CallbackInv' /\ NoLostWakeup'
    BY Zenon, <1>8 DEF IInv, TypeOK, LiveInv, CallbackInv, NoLostWakeup, InAcquire,
      NotWanted, gateVars
  <2> QED
    BY Zenon, <1>8, <2>1, <2>2, <2>3, QuietStep DEF IInv, NotWanted, gateVars
<1>9. ASSUME NEW o \in Op, RegisterLivePrompt(o) PROVE IInv'
  <2>1. Queued' = Queued /\ Holding' = Holding
    BY Zenon, <1>9 DEF IInv, TypeOK, RegisterLivePrompt, Queued, Holding
  <2>2. TypeOK'
    BY Zenon, <1>9 DEF IInv, TypeOK, PC, RegisterLivePrompt, Listed, gateVars, cancelVars
  <2>3. LiveInv' /\ CallbackInv' /\ NoLostWakeup'
    BY Zenon, <1>9 DEF IInv, TypeOK, LiveInv, CallbackInv, NoLostWakeup, InAcquire,
      RegisterLivePrompt, Listed, gateVars
  <2> QED
    BY Zenon, <1>9, <2>1, <2>2, <2>3, QuietStep DEF IInv, RegisterLivePrompt, gateVars
<1>10. ASSUME NEW o \in Op, Raise(o) PROVE IInv'
  <2>1. Queued' = Queued /\ Holding' = Holding
    BY Zenon, <1>10 DEF IInv, TypeOK, Raise, Queued, Holding
  <2>2. TypeOK'
    BY Zenon, <1>10 DEF IInv, TypeOK, PC, Raise, gateVars, cancelVars
  <2>3. LiveInv' /\ CallbackInv' /\ NoLostWakeup'
    BY Zenon, <1>10 DEF IInv, TypeOK, LiveInv, CallbackInv, NoLostWakeup, InAcquire,
      Raise, gateVars
  <2> QED
    BY Zenon, <1>10, <2>1, <2>2, <2>3, QuietStep DEF IInv, Raise, gateVars
<1>11. ASSUME NEW o \in Op, Answer(o) PROVE IInv'
  <2>1. Queued' = Queued /\ Holding' = Holding
    BY Zenon, <1>11 DEF IInv, TypeOK, Answer, Queued, Holding
  <2>2. TypeOK'
    BY Zenon, <1>11 DEF IInv, TypeOK, PC, Answer, gateVars, cancelVars
  <2>3. LiveInv' /\ CallbackInv' /\ NoLostWakeup'
    BY Zenon, <1>11 DEF IInv, TypeOK, LiveInv, CallbackInv, NoLostWakeup, InAcquire,
      Answer, gateVars
  <2> QED
    BY Zenon, <1>11, <2>1, <2>2, <2>3, QuietStep DEF IInv, Answer, gateVars
<1>12. ASSUME NEW o \in Op, ForgetLivePrompt(o) PROVE IInv'
  <2>1. Queued' = Queued /\ Holding' = Holding
    BY Zenon, <1>12 DEF IInv, TypeOK, ForgetLivePrompt, Queued, Holding
  <2>2. TypeOK'
    BY Zenon, <1>12 DEF IInv, TypeOK, PC, ForgetLivePrompt, Unlisted, gateVars, cancelVars
  <2>3. LiveInv' /\ CallbackInv' /\ NoLostWakeup'
    BY Zenon, <1>12 DEF IInv, TypeOK, LiveInv, CallbackInv, NoLostWakeup, InAcquire,
      ForgetLivePrompt, Unlisted, gateVars
  <2> QED
    BY Zenon, <1>12, <2>1, <2>2, <2>3, QuietStep DEF IInv, ForgetLivePrompt, gateVars
<1>13. ASSUME NEW o \in Op, SnapshotPhase(o) PROVE IInv'
  <2>1. Queued' = Queued /\ Holding' = Holding
    BY Zenon, <1>13 DEF IInv, TypeOK, SnapshotPhase, Queued, Holding
  <2>2. TypeOK'
    BY Zenon, <1>13 DEF IInv, TypeOK, PC, SnapshotPhase, gateVars, cancelVars
  <2>3. LiveInv' /\ CallbackInv' /\ NoLostWakeup'
    BY Zenon, <1>13 DEF IInv, TypeOK, LiveInv, CallbackInv, NoLostWakeup, InAcquire,
      SnapshotPhase, gateVars
  <2> QED
    BY Zenon, <1>13, <2>1, <2>2, <2>3, QuietStep DEF IInv, SnapshotPhase, gateVars
<1>14. ASSUME NEW o \in Op, TripToken(o) PROVE IInv'
  <2>1. Queued' = Queued /\ Holding' = Holding
    BY Zenon, <1>14 DEF IInv, TypeOK, TripToken, Queued, Holding
  <2>2. TypeOK'
    BY Zenon, <1>14 DEF IInv, TypeOK, PC, TripToken, gateVars, cancelVars
  <2>3. LiveInv' /\ CallbackInv' /\ NoLostWakeup'
    BY Zenon, <1>14 DEF IInv, TypeOK, LiveInv, CallbackInv, NoLostWakeup, InAcquire,
      TripToken, gateVars
  <2> QED
    BY Zenon, <1>14, <2>1, <2>2, <2>3, QuietStep DEF IInv, TripToken, gateVars
<1>15. ASSUME NEW o \in Op, RunCallback(o) PROVE IInv'
  <2>1. Queued' = Queued /\ Holding' = Holding
    BY Zenon, <1>15 DEF IInv, TypeOK, RunCallback, AllWoken, Queued, Holding
  <2>2. TypeOK'
    BY Zenon, <1>15 DEF IInv, TypeOK, PC, RunCallback, AllWoken, gateVars, cancelVars
  <2>3. LiveInv' /\ CallbackInv' /\ NoLostWakeup'
    BY Zenon, <1>15 DEF IInv, TypeOK, LiveInv, CallbackInv, NoLostWakeup, InAcquire,
      RunCallback, AllWoken, gateVars
  <2> QED
    BY Zenon, <1>15, <2>1, <2>2, <2>3, QuietStep DEF IInv, RunCallback, gateVars
<1>16. ASSUME NEW o \in Op, RunHook(o) PROVE IInv'
  <2>1. Queued' = Queued /\ Holding' = Holding
    BY Zenon, <1>16 DEF IInv, TypeOK, RunHook, Queued, Holding
  <2>2. TypeOK'
    BY <1>16 DEF IInv, TypeOK, PC, RunHook, gateVars, cancelVars
  <2>3. LiveInv' /\ CallbackInv' /\ NoLostWakeup'
    BY Zenon, <1>16 DEF IInv, TypeOK, LiveInv, CallbackInv, NoLostWakeup, InAcquire,
      RunHook, gateVars
  <2> QED
    BY Zenon, <1>16, <2>1, <2>2, <2>3, QuietStep DEF IInv, RunHook, gateVars
<1>17. ASSUME NEW o \in Op, Dismiss(o) PROVE IInv'
  <2>1. Queued' = Queued /\ Holding' = Holding
    BY Zenon, <1>17 DEF IInv, TypeOK, Dismiss, Queued, Holding
  <2>2. TypeOK'
    BY Zenon, <1>17 DEF IInv, TypeOK, PC, Dismiss, gateVars, cancelVars
  <2>3. LiveInv' /\ CallbackInv' /\ NoLostWakeup'
    BY Zenon, <1>17 DEF IInv, TypeOK, LiveInv, CallbackInv, NoLostWakeup, InAcquire,
      Dismiss, gateVars
  <2> QED
    BY Zenon, <1>17, <2>1, <2>2, <2>3, QuietStep DEF IInv, Dismiss, gateVars
<1>18. ASSUME NEW o \in Op, ShutdownCancel(o) PROVE IInv'
  <2>1. Queued' = Queued /\ Holding' = Holding
    BY Zenon, <1>18 DEF IInv, TypeOK, ShutdownCancel, Queued, Holding
  <2>2. TypeOK'
    BY Zenon, <1>18 DEF IInv, TypeOK, PC, ShutdownCancel, gateVars, cancelVars
  <2>3. LiveInv' /\ CallbackInv' /\ NoLostWakeup'
    BY Zenon, <1>18 DEF IInv, TypeOK, LiveInv, CallbackInv, NoLostWakeup, InAcquire,
      ShutdownCancel, gateVars
  <2> QED
    BY Zenon, <1>18, <2>1, <2>2, <2>3, QuietStep DEF IInv, ShutdownCancel, gateVars
<1> QED
  BY Zenon, <1>1, <1>2, <1>3, <1>4, <1>5, <1>6, <1>7, <1>8, <1>9, <1>10, <1>11, <1>12, <1>13, <1>14, <1>15, <1>16, <1>17, <1>18 DEF Next, WorkerStep, CancelStep

\* The inductive invariant holds in every reachable state of the gate.
THEOREM GateInvariant == Spec => []IInv
<1>1. Init => IInv
  BY Zenon, InitInv
<1>2. IInv /\ [Next]_vars => IInv'
  BY Zenon, NextInv
<1> QED
  BY <1>1, <1>2, PTL DEF Spec

\* Type correctness of the gate.
THEOREM TypeCorrect == Spec => []TypeOK
<1>1. IInv => TypeOK
  BY Zenon DEF IInv
<1> QED
  BY <1>1, GateInvariant, PTL

\* acquire()/release() admit at most one prompter interaction per card, for any
\* number of operations, cards and prompts.
THEOREM MutualExclusion == Spec => []OneHolderPerCard
<1>1. IInv => OneHolderPerCard
  BY Zenon DEF IInv
<1> QED
  BY <1>1, GateInvariant, PTL

\* No wake-up of a waiter is ever lost, neither a release's nor a cancel's.
THEOREM WakeupsArrive == Spec => []NoLostWakeup
<1>1. IInv => NoLostWakeup
  BY Zenon DEF IInv
<1> QED
  BY <1>1, GateInvariant, PTL

\* No operation ever sleeps on account of another card's dialog.
THEOREM CardsIndependent == Spec => []WaitsForOwnCardOnly
<1>1. IInv => WaitsForOwnCardOnly
  <2> SUFFICES ASSUME IInv, NEW o \in Op, pc[o] = "parked"
               PROVE  \E p \in Queued \cup Holding :
                          p # o /\ cardOf[p] = cardOf[o]
    BY Zenon DEF WaitsForOwnCardOnly
  <2>1. o \notin Holding /\ cardOf[o] \in Card /\ ticket[o] \in Nat
    BY Zenon, CardOfAssumption DEF Holding, IInv, TypeOK
  <2>2. CASE held[cardOf[o]]
    BY Zenon, <2>1, <2>2 DEF IInv, HeldInv
  <2>3. CASE \E t \in waiters[cardOf[o]] : t < ticket[o]
    <3>1. PICK t \in waiters[cardOf[o]] : t < ticket[o]
      BY Zenon, <2>3
    <3>2. t \in Nat
      BY Zenon, <2>1, <3>1 DEF IInv, TypeOK
    <3>3. PICK p \in Queued : cardOf[p] = cardOf[o] /\ ticket[p] = t
      BY Zenon, <2>1, <3>1, <3>2 DEF IInv, WaitersInv
    <3> QED
      BY <2>1, <3>1, <3>2, <3>3
  <2> QED
    BY Zenon, <2>2, <2>3 DEF IInv, NoLostWakeup
<1> QED
  BY <1>1, GateInvariant, PTL

\* The gate map holds the cards in use and nothing else: it cannot leak.
THEOREM GateMapExact == Spec => []GatesInUse
<1>1. IInv => GatesInUse
  <2> SUFFICES ASSUME IInv PROVE GatesInUse
    BY Zenon
  <2>1. ASSUME NEW c \in gates PROVE \E o \in Queued \cup Holding : cardOf[o] = c
    BY <2>1 DEF IInv, TypeOK, GateInv, HeldInv, WaitersInv
  <2>2. ASSUME NEW o \in Queued \cup Holding PROVE cardOf[o] \in gates
    BY <2>2, CardOfAssumption
    DEF IInv, TypeOK, GateInv, HeldInv, WaitersInv, Queued, Holding
  <2> QED
    BY Zenon, <2>1, <2>2 DEF GatesInUse
<1> QED
  BY <1>1, GateInvariant, PTL

\* The dialog on screen is always listed, and it is its card's only listed one.
THEOREM DismissalIsPrecise == Spec => []LiveIdsNameTheDialog
<1>1. IInv => LiveIdsNameTheDialog
  BY Zenon DEF IInv, TypeOK, LiveInv, OneHolderPerCard, Holding, LiveIdsNameTheDialog
<1> QED
  BY <1>1, GateInvariant, PTL

\* A card has one dialog at a time, and a dismissal hits that one.
THEOREM DialogsAreSingle == Spec => []OneDialogPerCard
<1> QED
  BY MutualExclusion, DismissalIsPrecise, PTL DEF OneDialogPerCard
--------------------------------------------------------------------------------
\* The abstract line, read off the tickets.
Ahead ==
    [o \in Op |-> {p \in Queued : /\ o \in Queued
                                  /\ cardOf[p] = cardOf[o]
                                  /\ ticket[p] < ticket[o]}]

\* A step that moves nobody into or out of a queue or a slot and cancels nobody
\* is a stutter of the abstract slot.
LEMMA SlotStutter ==
  ASSUME UNCHANGED <<ticket, cancelled>>, Queued' = Queued, Holding' = Holding
  PROVE  UNCHANGED Slot!vars
  BY Zenon DEF Slot!vars

\* The first pass through acquire() joins the line, enters the free slot at once,
\* or -- already cancelled -- does nothing.
LEMMA EnqueueStep ==
  ASSUME IInv, NEW o \in Op, Enqueue(o)
  PROVE  Slot!Join(o) \/ Slot!Enter(o) \/ UNCHANGED Slot!vars
<1> DEFINE W == waiters[cardOf[o]] \cup {nextTicket}
<1>1. o \notin Queued /\ o \notin Holding /\ cardOf[o] \in Card
  BY Zenon, CardOfAssumption DEF Enqueue, Queued, Holding
<1>2. \A p \in Queued : ticket[p] < nextTicket /\ ticket'[p] = ticket[p]
  BY Zenon, <1>1 DEF Enqueue, IInv, TypeOK, TicketInv, Queued
<1>3. CASE Park(o, nextTicket, W)
  <2>1. Queued' = Queued \cup {o} /\ Holding' = Holding
    BY Zenon, <1>1, <1>3 DEF IInv, TypeOK, Park, Queued, Holding
  <2>2. ticket'[o] = nextTicket /\ nextTicket \in Nat
    BY Zenon DEF Enqueue, IInv, TypeOK
  <2>3. Ahead' = [Ahead EXCEPT ![o] = {p \in Queued : cardOf[o] = cardOf[p]}]
    <3> SUFFICES ASSUME NEW q \in Op
                 PROVE  Ahead'[q] = IF q = o THEN {p \in Queued : cardOf[o] = cardOf[p]}
                                             ELSE Ahead[q]
      BY Zenon DEF Ahead
    <3>1. CASE q = o
      BY <1>1, <1>2, <2>1, <2>2, <3>1 DEF Ahead, IInv, TypeOK, Queued
    <3>2. CASE q # o /\ q \in Queued
      BY <1>1, <1>2, <2>1, <2>2, <3>2 DEF Ahead, IInv, TypeOK, Queued
    <3>3. CASE q # o /\ q \notin Queued
      BY Zenon, <2>1, <3>3 DEF Ahead
    <3> QED
      BY Zenon, <3>1, <3>2, <3>3
  <2>4. UNCHANGED cancelled
    BY Zenon DEF Enqueue
  <2> QED
    BY Zenon, <1>1, <2>1, <2>3, <2>4 DEF Slot!Join, Slot!Sibling, Ahead
<1>4. CASE Surrender(o, nextTicket, W)
  <2>1. Queued' = Queued /\ Holding' = Holding
    BY Zenon, <1>1, <1>4 DEF IInv, TypeOK, Surrender, AllWoken, Queued, Holding
  <2>2. Ahead' = Ahead
    BY Zenon, <1>1, <1>2, <2>1 DEF Ahead
  <2> QED
    BY Zenon, <2>1, <2>2 DEF Slot!vars, Ahead, Enqueue
<1>5. CASE TakeSlot(o, nextTicket, W)
  <2>1. Queued' = Queued /\ Holding' = Holding \cup {o}
    BY Zenon, <1>1, <1>5 DEF IInv, TypeOK, TakeSlot, Queued, Holding
  <2>2. Ahead' = Ahead
    BY Zenon, <1>1, <1>2, <2>1 DEF Ahead
  <2>3. \A p \in Holding : cardOf[o] # cardOf[p]
    BY Zenon, <1>1, <1>5 DEF TakeSlot, SlotFree, IInv, HeldInv
  <2>4. \A p \in Queued : cardOf[o] # cardOf[p]
    <3> SUFFICES ASSUME NEW p \in Queued, cardOf[o] = cardOf[p] PROVE FALSE
      BY Zenon
    <3>1. ticket[p] \in Nat /\ ticket[p] \in waiters[cardOf[o]]
      BY <1>1 DEF IInv, TypeOK, WaitersInv, Queued
    <3> QED
      BY <1>2, <1>5, <3>1 DEF TakeSlot, AtHead, SlotFree, IInv, TypeOK
  <2> QED
    BY Zenon, <1>1, <1>5, <2>1, <2>2, <2>3, <2>4
    DEF Slot!Enter, Slot!SlotFree, Slot!Sibling, Ahead, TakeSlot, Enqueue
<1> QED
  BY Zenon, <1>3, <1>4, <1>5 DEF Enqueue, Admission

\* Taking an operation out of its line takes it out of everybody's `ahead'.
LEMMA LineLeft ==
  ASSUME NEW o \in Op, UNCHANGED ticket, Queued' = Queued \ {o}
  PROVE  Ahead' = [p \in Op |-> IF p = o THEN {} ELSE Ahead[p] \ {o}]
  BY Zenon DEF Ahead

\* A woken waiter goes on waiting, withdraws, or is granted the slot in turn.
LEMMA ReevaluateStep ==
  ASSUME IInv, NEW o \in Op, Reevaluate(o)
  PROVE  Slot!Grant(o) \/ Slot!Withdraw(o) \/ UNCHANGED Slot!vars
<1> DEFINE W == waiters[cardOf[o]]
<1>1. o \in Queued /\ cardOf[o] \in Card
  BY Zenon, CardOfAssumption DEF Reevaluate, Queued
<1>2. UNCHANGED <<ticket, cancelled>>
  BY Zenon DEF Reevaluate
<1>3. CASE Park(o, ticket[o], W)
  <2>1. Queued' = Queued /\ Holding' = Holding
    BY Zenon, <1>1, <1>3 DEF IInv, TypeOK, Park, Queued, Holding
  <2> QED
    BY Zenon, <1>2, <2>1, SlotStutter
<1>4. CASE Surrender(o, ticket[o], W)
  <2>1. Queued' = Queued \ {o} /\ Holding' = Holding
    BY Zenon, <1>1, <1>4 DEF IInv, TypeOK, Surrender, AllWoken, Queued, Holding
  <2>2. Ahead' = [p \in Op |-> IF p = o THEN {} ELSE Ahead[p] \ {o}]
    BY Zenon, <1>2, <2>1, LineLeft
  <2> QED
    BY Zenon, <1>1, <1>2, <1>4, <2>1, <2>2
    DEF Slot!Withdraw, Slot!LeaveLine, Ahead, Surrender
<1>5. CASE TakeSlot(o, ticket[o], W)
  <2>1. Queued' = Queued \ {o} /\ Holding' = Holding \cup {o}
    BY Zenon, <1>5 DEF IInv, TypeOK, TakeSlot, Queued, Holding
  <2>2. Ahead' = [p \in Op |-> IF p = o THEN {} ELSE Ahead[p] \ {o}]
    BY Zenon, <1>2, <2>1, LineLeft
  <2>3. \A p \in Holding : cardOf[o] # cardOf[p]
    BY Zenon, <1>1, <1>5 DEF TakeSlot, SlotFree, IInv, HeldInv
  <2>4. Ahead[o] = {}
    <3> SUFFICES ASSUME NEW p \in Queued, cardOf[p] = cardOf[o],
                        ticket[p] < ticket[o]
                 PROVE  FALSE
      BY Zenon DEF Ahead
    <3>1. /\ ticket[p] \in Nat /\ ticket[o] \in Nat
          /\ ticket[p] \in waiters[cardOf[o]]
      BY <1>1 DEF IInv, TypeOK, WaitersInv, Queued
    <3> QED
      BY <1>5, <3>1 DEF TakeSlot, AtHead, SlotFree
  <2> QED
    BY Zenon, <1>1, <1>2, <1>5, <2>1, <2>2, <2>3, <2>4
    DEF Slot!Grant, Slot!LeaveLine, Slot!SlotFree, Slot!Sibling, Ahead, TakeSlot
<1> QED
  BY Zenon, <1>3, <1>4, <1>5 DEF Reevaluate, Admission

\* Every step of the gate is a step of the abstract slot or a stutter.
LEMMA NextSlot == IInv /\ [Next]_vars => [Slot!Next]_(Slot!vars)
<1> SUFFICES ASSUME IInv, [Next]_vars PROVE [Slot!Next]_(Slot!vars)
  BY Zenon
<1>1. CASE UNCHANGED vars
  BY Zenon, <1>1 DEF vars, Slot!vars, Queued, Holding
<1>2. ASSUME NEW o \in Op, Enqueue(o) PROVE [Slot!Next]_(Slot!vars)
  BY Zenon, <1>2, EnqueueStep DEF Slot!Next
<1>3. ASSUME NEW o \in Op, Reevaluate(o) PROVE [Slot!Next]_(Slot!vars)
  BY Zenon, <1>3, ReevaluateStep DEF Slot!Next
<1>4. ASSUME NEW o \in Op, Release(o) PROVE [Slot!Next]_(Slot!vars)
  <2>1. Queued' = Queued /\ Holding' = Holding \ {o} /\ o \in Holding
    BY Zenon, <1>4 DEF IInv, TypeOK, Release, AllWoken, Queued, Holding
  <2>2. Slot!Leave(o)
    BY Zenon, <1>4, <2>1 DEF Slot!Leave, Release
  <2> QED
    BY Zenon, <2>2 DEF Slot!Next
<1>5. ASSUME NEW o \in Op, TripToken(o) \/ ShutdownCancel(o)
      PROVE [Slot!Next]_(Slot!vars)
  <2>1. Queued' = Queued /\ Holding' = Holding /\ UNCHANGED ticket
    BY Zenon, <1>5 DEF TripToken, ShutdownCancel, gateVars, Queued, Holding
  <2>2. Slot!Cancel(o)
    BY Zenon, <1>5, <2>1 DEF Slot!Cancel, TripToken, ShutdownCancel
  <2> QED
    BY Zenon, <2>2 DEF Slot!Next
<1>6. ASSUME NEW o \in Op, Register(o) PROVE UNCHANGED Slot!vars
  <2>1. Queued' = Queued /\ Holding' = Holding
    BY Zenon, <1>6 DEF IInv, TypeOK, Register, Queued, Holding, AllWoken
  <2> QED
    BY Zenon, <1>6, <2>1, SlotStutter DEF Register, gateVars
<1>7. ASSUME NEW o \in Op, SpuriousWake(o) PROVE UNCHANGED Slot!vars
  <2>1. Queued' = Queued /\ Holding' = Holding
    BY Zenon, <1>7 DEF IInv, TypeOK, SpuriousWake, Queued, Holding
  <2> QED
    BY Zenon, <1>7, <2>1, SlotStutter DEF SpuriousWake, gateVars
<1>8. ASSUME NEW o \in Op, Unregister(o) PROVE UNCHANGED Slot!vars
  <2>1. Queued' = Queued /\ Holding' = Holding
    BY Zenon, <1>8 DEF IInv, TypeOK, Unregister, Queued, Holding
  <2> QED
    BY Zenon, <1>8, <2>1, SlotStutter DEF Unregister, gateVars
<1>9. ASSUME NEW o \in Op, NotWanted(o) PROVE UNCHANGED Slot!vars
  <2>1. Queued' = Queued /\ Holding' = Holding
    BY Zenon, <1>9 DEF IInv, TypeOK, NotWanted, Queued, Holding
  <2> QED
    BY Zenon, <1>9, <2>1, SlotStutter DEF NotWanted, gateVars
<1>10. ASSUME NEW o \in Op, RegisterLivePrompt(o) PROVE UNCHANGED Slot!vars
  <2>1. Queued' = Queued /\ Holding' = Holding
    BY Zenon, <1>10 DEF IInv, TypeOK, RegisterLivePrompt, Queued, Holding
  <2> QED
    BY Zenon, <1>10, <2>1, SlotStutter DEF RegisterLivePrompt, gateVars
<1>11. ASSUME NEW o \in Op, Raise(o) PROVE UNCHANGED Slot!vars
  <2>1. Queued' = Queued /\ Holding' = Holding
    BY Zenon, <1>11 DEF IInv, TypeOK, Raise, Queued, Holding
  <2> QED
    BY Zenon, <1>11, <2>1, SlotStutter DEF Raise, gateVars
<1>12. ASSUME NEW o \in Op, Answer(o) PROVE UNCHANGED Slot!vars
  <2>1. Queued' = Queued /\ Holding' = Holding
    BY Zenon, <1>12 DEF IInv, TypeOK, Answer, Queued, Holding
  <2> QED
    BY Zenon, <1>12, <2>1, SlotStutter DEF Answer, gateVars
<1>13. ASSUME NEW o \in Op, ForgetLivePrompt(o) PROVE UNCHANGED Slot!vars
  <2>1. Queued' = Queued /\ Holding' = Holding
    BY Zenon, <1>13 DEF IInv, TypeOK, ForgetLivePrompt, Queued, Holding
  <2> QED
    BY Zenon, <1>13, <2>1, SlotStutter DEF ForgetLivePrompt, gateVars
<1>14. ASSUME NEW o \in Op, SnapshotPhase(o) PROVE UNCHANGED Slot!vars
  <2>1. Queued' = Queued /\ Holding' = Holding
    BY Zenon, <1>14 DEF IInv, TypeOK, SnapshotPhase, Queued, Holding
  <2> QED
    BY Zenon, <1>14, <2>1, SlotStutter DEF SnapshotPhase, gateVars
<1>15. ASSUME NEW o \in Op, RunCallback(o) PROVE UNCHANGED Slot!vars
  <2>1. Queued' = Queued /\ Holding' = Holding
    BY Zenon, <1>15 DEF IInv, TypeOK, RunCallback, AllWoken, Queued, Holding
  <2> QED
    BY Zenon, <1>15, <2>1, SlotStutter DEF RunCallback, gateVars
<1>16. ASSUME NEW o \in Op, RunHook(o) PROVE UNCHANGED Slot!vars
  <2>1. Queued' = Queued /\ Holding' = Holding
    BY Zenon, <1>16 DEF IInv, TypeOK, RunHook, Queued, Holding
  <2> QED
    BY Zenon, <1>16, <2>1, SlotStutter DEF RunHook, gateVars
<1>17. ASSUME NEW o \in Op, Dismiss(o) PROVE UNCHANGED Slot!vars
  <2>1. Queued' = Queued /\ Holding' = Holding
    BY Zenon, <1>17 DEF IInv, TypeOK, Dismiss, Queued, Holding
  <2> QED
    BY Zenon, <1>17, <2>1, SlotStutter DEF Dismiss, gateVars
<1> QED
  BY Zenon, <1>1, <1>2, <1>3, <1>4, <1>5, <1>6, <1>7, <1>8, <1>9, <1>10, <1>11, <1>12, <1>13, <1>14, <1>15, <1>16, <1>17 DEF Next, WorkerStep, CancelStep

\* The gate as coded -- tickets, condition variable, cancellation callbacks --
\* implements the one-slot-per-card, first-come-first-served promise of
\* PromptSlot.
THEOREM GateImplementsSlot == Spec => ImplementsSlot
<1>1. Init => Slot!Init
  BY Zenon DEF Init, Slot!Init, Queued, Holding
<1>2. IInv /\ [Next]_vars => [Slot!Next]_(Slot!vars)
  BY Zenon, NextSlot
<1> QED
  BY <1>1, <1>2, GateInvariant, PTL DEF Spec, Slot!Spec, ImplementsSlot

-----------------------------------------------------------------------------
\* The end of an operation.  The call_once body is entered once, by a thread
\* that is then known to be inside it, and what it publishes is fixed at
\* entry.  So a non-timeout outcome pins the worker behind its own finish(),
\* past any cancel it may have heeded and past its emitResult().  The timer
\* thread is alive exactly while the armed flag is set, apart from the two
\* places where the worker is reclaiming it.

Entered == runner # "none" \/ fstep = 6

\* Worker locations past its own call of finish().
Past == {"finishing", "return", "quiesce", "quiesced"}

\* Who is inside the body, and what its stores have published so far.
BodyInv ==
    /\ runner = "none" => fstep \in {1, 6}
    /\ runner # "none" => fstep # 6
    /\ runner = "worker" => wpc = "finishing"
    /\ runner = "timer" => tpc = "finishing"
    /\ fstep = 1 => ~completed /\ ~finishedOut
    /\ fstep = 2 => ~completed /\ ~finishedOut
    /\ fstep = 3 => ~completed /\ ~finishedOut
    /\ fstep = 4 => ~finishedOut
    /\ fstep \in 3..6 => mirror = outcome
    /\ fstep \in 4..6 => completed

\* A latched timeout is visible before the cancel it causes, and a body that
\* publishes anything else was entered by a worker that had not heeded it.
VerdictInv ==
    /\ tpc \in {"latched", "tripped", "finishing"} => fired
    /\ trippedBy = "watchdog" => fired
    /\ heeded = "watchdog" => fired
    /\ Entered /\ outcome # "WatchdogTimeout" => wpc \in Past /\ heeded # "watchdog"

\* An Ok verdict past emitResult() has its Result on the wire.
ResultInv ==
    /\ wpc \in {"finish", "finishing"} /\ verdict = "Ok" => resultOut
    /\ Entered /\ outcome = "Ok" => resultOut

\* What the client holds, and what it can still be told.
ClientInv ==
    /\ cpc = "reading" => completed
    /\ cpc = "done" => Entered /\ learnt = outcome
    /\ cpc = "listening" => ~finishedOut

\* The armed flag and the timer thread.
TimerInv ==
    /\ armed /\ wpc # "quiesced" => tpc # "none"
    /\ ~armed /\ wpc # "join" => tpc = "none"
    /\ wpc = "disarm" => armed
    /\ phase = "AwaitingConsent" /\ wpc # "disarm" => ~armed
    /\ wpc = "join" => ~armed
    /\ wpc = "prompt" => ~armed
    /\ wpc = "quiesced" => tpc = "none"
    /\ flow = "read" /\ wpc = "io" => armed

\* The Boolean part of OperationTypeOK.
Flags ==
    /\ answered \in BOOLEAN /\ reread \in BOOLEAN /\ armed \in BOOLEAN
    /\ stopping \in BOOLEAN /\ fired \in BOOLEAN /\ shutdown \in BOOLEAN
    /\ completed \in BOOLEAN /\ resultOut \in BOOLEAN
    /\ finishedOut \in BOOLEAN

OperationInv == OperationTypeOK /\ BodyInv /\ VerdictInv /\ ResultInv /\ ClientInv /\ TimerInv

\* The initial state satisfies the invariant.
LEMMA OperationBegins == OperationInit => OperationInv
<1> SUFFICES ASSUME OperationInit PROVE OperationInv
    BY Zenon
<1>1. Flags
    BY Zenon DEF OperationInit, Flags
<1>2. prompts \in 0..MaxPrompts /\ fstep \in 1..6
    BY MaxPromptsAssumption DEF OperationInit
<1>3. OperationTypeOK
    BY Zenon, <1>1, <1>2 DEF OperationInit, Flags, OperationTypeOK, Status, Phase
<1>4. QED
    BY <1>3
    DEF OperationInit, OperationInv, OperationTypeOK, BodyInv, VerdictInv, ResultInv, ClientInv,
        TimerInv, Entered, Past, Finished, Cancelled

\* The five stores of finish()'s body.
LEMMA FinishStepInv ==
    OperationInv /\ FinishStep => OperationInv'
<1> SUFFICES ASSUME OperationInv, FinishStep PROVE OperationInv'
    BY Zenon
<1>1. CASE PublishPhase
    BY <1>1
    DEF OperationInv, OperationTypeOK, BodyInv, VerdictInv, ResultInv, ClientInv, TimerInv,
        Entered, Past, Finished, Cancelled, Status, Phase, PublishPhase,
        At, FinishOrder, FinishFrame, workerVars, timerVars, finishVars,
        clientVars
<1>2. CASE PublishMirrors
    BY <1>2
    DEF OperationInv, OperationTypeOK, BodyInv, VerdictInv, ResultInv, ClientInv, TimerInv,
        Entered, Past, Finished, Cancelled, Status, Phase, PublishMirrors,
        At, FinishOrder, FinishFrame, workerVars, timerVars, finishVars,
        clientVars
<1>3. CASE PublishGate
    BY <1>3
    DEF OperationInv, OperationTypeOK, BodyInv, VerdictInv, ResultInv, ClientInv, TimerInv,
        Entered, Past, Finished, Cancelled, Status, Phase, PublishGate, At,
        FinishOrder, FinishFrame, workerVars, timerVars, finishVars,
        clientVars
<1>4. CASE EmitFinished
    BY <1>4
    DEF OperationInv, OperationTypeOK, BodyInv, VerdictInv, ResultInv, ClientInv, TimerInv,
        Entered, Past, Finished, Cancelled, Status, Phase, EmitFinished,
        At, FinishOrder, FinishFrame, workerVars, timerVars, finishVars,
        clientVars
<1>5. CASE MarkFinished
    BY <1>5
    DEF OperationInv, OperationTypeOK, BodyInv, VerdictInv, ResultInv, ClientInv, TimerInv,
        Entered, Past, Finished, Cancelled, Status, Phase, MarkFinished,
        At, FinishOrder, FinishFrame, workerVars, timerVars, finishVars,
        clientVars
<1>6. QED
    BY Zenon, <1>1, <1>2, <1>3, <1>4, <1>5 DEF FinishStep

\* The timer thread.
LEMMA TimerStepInv ==
    OperationInv /\ TimerStep => OperationInv'
<1> SUFFICES ASSUME OperationInv, TimerStep PROVE OperationInv'
    BY Zenon
<1>1. CASE Expire
    BY <1>1
    DEF OperationInv, OperationTypeOK, BodyInv, VerdictInv, ResultInv, ClientInv, TimerInv,
        Entered, Past, Finished, Cancelled, Status, Phase, Expire,
        StoppedOrFinished, workerVars, timerVars, finishVars, clientVars
<1>2. CASE TimerStops
    BY <1>2
    DEF OperationInv, OperationTypeOK, BodyInv, VerdictInv, ResultInv, ClientInv, TimerInv,
        Entered, Past, Finished, Cancelled, Status, Phase, TimerStops,
        StoppedOrFinished, workerVars, timerVars, finishVars, clientVars
<1>3. CASE Latch
    BY <1>3
    DEF OperationInv, OperationTypeOK, BodyInv, VerdictInv, ResultInv, ClientInv, TimerInv,
        Entered, Past, Finished, Cancelled, Status, Phase, Latch,
        StoppedOrFinished, workerVars, timerVars, finishVars, clientVars
<1>4. CASE WatchdogCancels
    BY <1>4
    DEF OperationInv, OperationTypeOK, BodyInv, VerdictInv, ResultInv, ClientInv, TimerInv,
        Entered, Past, Finished, Cancelled, Status, Phase, WatchdogCancels,
        Trip, workerVars, timerVars, finishVars, clientVars
<1>5. CASE WatchdogFinishes
    BY <1>5
    DEF OperationInv, OperationTypeOK, BodyInv, VerdictInv, ResultInv, ClientInv, TimerInv,
        Entered, Past, Finished, Cancelled, Status, Phase,
        WatchdogFinishes, EnterFinish, Published, workerVars, timerVars,
        finishVars, clientVars
<1>6. CASE WatchdogReturns
    BY <1>6
    DEF OperationInv, OperationTypeOK, BodyInv, VerdictInv, ResultInv, ClientInv, TimerInv,
        Entered, Past, Finished, Cancelled, Status, Phase, WatchdogReturns,
        workerVars, timerVars, finishVars, clientVars
<1>7. QED
    BY Zenon, <1>1, <1>2, <1>3, <1>4, <1>5, <1>6 DEF TimerStep

\* The worker between card calls.
LEMMA AgentStepInv ==
    OperationInv /\ AgentStep => OperationInv'
<1> SUFFICES ASSUME OperationInv, AgentStep PROVE OperationInv'
    BY Zenon
<1>1. CASE RunOnWorker
    BY <1>1
    DEF OperationInv, OperationTypeOK, BodyInv, VerdictInv, ResultInv, ClientInv, TimerInv,
        Entered, Past, Finished, Cancelled, Status, Phase, RunOnWorker,
        EnterPhases, Arms, WorkerFrame, WorkerAt, workerVars, timerVars,
        finishVars, clientVars
<1>2. CASE StartCardIo
<2>1. Flags'
    BY Zenon, <1>2
    DEF Flags, OperationInv, OperationTypeOK, StartCardIo, Conclude, ConcludeCancelled,
        EnterPhases, Arms, WorkerFrame, WorkerAt, workerVars, timerVars,
        finishVars, clientVars
<2>2. OperationTypeOK'
    BY <1>2, <2>1
    DEF OperationInv, OperationTypeOK, BodyInv, VerdictInv, ResultInv, ClientInv, TimerInv,
        Entered, Past, Finished, Cancelled, Status, Phase, StartCardIo,
        Conclude, ConcludeCancelled, EnterPhases, Arms, WorkerFrame,
        WorkerAt, workerVars, timerVars, finishVars, clientVars, Flags
<2>3. BodyInv'
    BY Zenon, <1>2
    DEF OperationInv, OperationTypeOK, BodyInv, VerdictInv, ResultInv, ClientInv, TimerInv,
        Entered, Past, Finished, Cancelled, Status, Phase, StartCardIo,
        Conclude, ConcludeCancelled, EnterPhases, Arms, WorkerFrame,
        WorkerAt, workerVars, timerVars, finishVars, clientVars
<2>4. VerdictInv'
    BY Zenon, <1>2
    DEF OperationInv, OperationTypeOK, BodyInv, VerdictInv, ResultInv, ClientInv, TimerInv,
        Entered, Past, Finished, Cancelled, Status, Phase, StartCardIo,
        Conclude, ConcludeCancelled, EnterPhases, Arms, WorkerFrame,
        WorkerAt, workerVars, timerVars, finishVars, clientVars
<2>5. ResultInv'
    BY Zenon, <1>2
    DEF OperationInv, OperationTypeOK, BodyInv, VerdictInv, ResultInv, ClientInv, TimerInv,
        Entered, Past, Finished, Cancelled, Status, Phase, StartCardIo,
        Conclude, ConcludeCancelled, EnterPhases, Arms, WorkerFrame,
        WorkerAt, workerVars, timerVars, finishVars, clientVars
<2>6. ClientInv'
    BY Zenon, <1>2
    DEF OperationInv, OperationTypeOK, BodyInv, VerdictInv, ResultInv, ClientInv, TimerInv,
        Entered, Past, Finished, Cancelled, Status, Phase, StartCardIo,
        Conclude, ConcludeCancelled, EnterPhases, Arms, WorkerFrame,
        WorkerAt, workerVars, timerVars, finishVars, clientVars
<2>7. TimerInv'
    BY Zenon, <1>2, <2>1
    DEF OperationInv, OperationTypeOK, BodyInv, VerdictInv, ResultInv, ClientInv, TimerInv,
        Entered, Past, Finished, Cancelled, Status, Phase, StartCardIo,
        Conclude, ConcludeCancelled, EnterPhases, Arms, WorkerFrame,
        WorkerAt, workerVars, timerVars, finishVars, clientVars, Flags
<2>8. QED
    BY Zenon, <2>2, <2>3, <2>4, <2>5, <2>6, <2>7 DEF OperationInv
<1>3. CASE Disarm
<2>1. Flags'
    BY Zenon, <1>3
    DEF Flags, OperationInv, OperationTypeOK, Disarm, WorkerFrame, WorkerAt, workerVars,
        timerVars, finishVars, clientVars
<2>2. OperationTypeOK'
    BY <1>3, <2>1
    DEF OperationInv, OperationTypeOK, BodyInv, VerdictInv, ResultInv, ClientInv, TimerInv,
        Entered, Past, Finished, Cancelled, Status, Phase, Disarm,
        WorkerFrame, WorkerAt, workerVars, timerVars, finishVars,
        clientVars, Flags
<2>3. BodyInv'
    BY Zenon, <1>3
    DEF OperationInv, OperationTypeOK, BodyInv, VerdictInv, ResultInv, ClientInv, TimerInv,
        Entered, Past, Finished, Cancelled, Status, Phase, Disarm,
        WorkerFrame, WorkerAt, workerVars, timerVars, finishVars,
        clientVars
<2>4. VerdictInv'
    BY Zenon, <1>3
    DEF OperationInv, OperationTypeOK, BodyInv, VerdictInv, ResultInv, ClientInv, TimerInv,
        Entered, Past, Finished, Cancelled, Status, Phase, Disarm,
        WorkerFrame, WorkerAt, workerVars, timerVars, finishVars,
        clientVars
<2>5. ResultInv'
    BY Zenon, <1>3
    DEF OperationInv, OperationTypeOK, BodyInv, VerdictInv, ResultInv, ClientInv, TimerInv,
        Entered, Past, Finished, Cancelled, Status, Phase, Disarm,
        WorkerFrame, WorkerAt, workerVars, timerVars, finishVars,
        clientVars
<2>6. ClientInv'
    BY Zenon, <1>3
    DEF OperationInv, OperationTypeOK, BodyInv, VerdictInv, ResultInv, ClientInv, TimerInv,
        Entered, Past, Finished, Cancelled, Status, Phase, Disarm,
        WorkerFrame, WorkerAt, workerVars, timerVars, finishVars,
        clientVars
<2>7. TimerInv'
    BY Zenon, <1>3, <2>1
    DEF OperationInv, OperationTypeOK, BodyInv, VerdictInv, ResultInv, ClientInv, TimerInv,
        Entered, Past, Finished, Cancelled, Status, Phase, Disarm,
        WorkerFrame, WorkerAt, workerVars, timerVars, finishVars,
        clientVars, Flags
<2>8. QED
    BY Zenon, <2>2, <2>3, <2>4, <2>5, <2>6, <2>7 DEF OperationInv
<1>4. CASE JoinTimer
    BY <1>4
    DEF OperationInv, OperationTypeOK, BodyInv, VerdictInv, ResultInv, ClientInv, TimerInv,
        Entered, Past, Finished, Cancelled, Status, Phase, JoinTimer,
        TimerJoinable, WorkerFrame, WorkerAt, workerVars, timerVars,
        finishVars, clientVars
<1>5. CASE Timestamp
    BY <1>5
    DEF OperationInv, OperationTypeOK, BodyInv, VerdictInv, ResultInv, ClientInv, TimerInv,
        Entered, Past, Finished, Cancelled, Status, Phase, Timestamp,
        Conclude, EnterPhases, Arms, WorkerFrame, WorkerAt, workerVars,
        timerVars, finishVars, clientVars
<1>6. CASE ShutdownGate
    BY <1>6
    DEF OperationInv, OperationTypeOK, BodyInv, VerdictInv, ResultInv, ClientInv, TimerInv,
        Entered, Past, Finished, Cancelled, Status, Phase, ShutdownGate,
        SkipsCompletion, WorkerFrame, WorkerAt, workerVars, timerVars,
        finishVars, clientVars
<1>7. CASE \E d \in BOOLEAN : EmitResult(d)
    BY <1>7
    DEF OperationInv, OperationTypeOK, BodyInv, VerdictInv, ResultInv, ClientInv, TimerInv,
        Entered, Past, Finished, Cancelled, Status, Phase, EmitResult,
        StatusOnDelivery, WorkerFrame, WorkerAt, workerVars, timerVars,
        finishVars, clientVars
<1>8. CASE WorkerFinishes
    BY <1>8
    DEF OperationInv, OperationTypeOK, BodyInv, VerdictInv, ResultInv, ClientInv, TimerInv,
        Entered, Past, Finished, Cancelled, Status, Phase, WorkerFinishes,
        EnterFinish, Published, WorkerFrame, WorkerAt, workerVars,
        timerVars, finishVars, clientVars
<1>9. CASE FinishReturns
    BY <1>9
    DEF OperationInv, OperationTypeOK, BodyInv, VerdictInv, ResultInv, ClientInv, TimerInv,
        Entered, Past, Finished, Cancelled, Status, Phase, FinishReturns,
        WorkerFrame, WorkerAt, workerVars, timerVars, finishVars,
        clientVars
<1>10. CASE Quiesce
    BY <1>10
    DEF OperationInv, OperationTypeOK, BodyInv, VerdictInv, ResultInv, ClientInv, TimerInv,
        Entered, Past, Finished, Cancelled, Status, Phase, Quiesce,
        WorkerFrame, WorkerAt, workerVars, timerVars, finishVars,
        clientVars
<1>11. CASE Quiesced
    BY <1>11
    DEF OperationInv, OperationTypeOK, BodyInv, VerdictInv, ResultInv, ClientInv, TimerInv,
        Entered, Past, Finished, Cancelled, Status, Phase, Quiesced,
        QuiesceReturns, TimerJoinable, WorkerFrame, WorkerAt, workerVars,
        timerVars, finishVars, clientVars
<1>12. QED
    BY Zenon, <1>1, <1>2, <1>3, <1>4, <1>5, <1>6, <1>7, <1>8, <1>9, <1>10, <1>11
    DEF AgentStep

\* The worker inside a card call.
LEMMA CardStepInv ==
    OperationInv /\ CardStep => OperationInv'
<1> SUFFICES ASSUME OperationInv, CardStep PROVE OperationInv'
    BY Zenon
<1>1. CASE ServeCached
    BY <1>1
    DEF OperationInv, OperationTypeOK, BodyInv, VerdictInv, ResultInv, ClientInv, TimerInv,
        Entered, Past, Finished, Cancelled, Status, Phase, ServeCached,
        Conclude, WorkerFrame, WorkerAt, workerVars, timerVars, finishVars,
        clientVars
<1>2. CASE OpenSession
    BY <1>2
    DEF OperationInv, OperationTypeOK, BodyInv, VerdictInv, ResultInv, ClientInv, TimerInv,
        Entered, Past, Finished, Cancelled, Status, Phase, OpenSession,
        Conclude, ConcludeCancelled, WorkerFrame, WorkerAt, workerVars,
        timerVars, finishVars, clientVars
<1>3. CASE Renegotiate
    BY <1>3
    DEF OperationInv, OperationTypeOK, BodyInv, VerdictInv, ResultInv, ClientInv, TimerInv,
        Entered, Past, Finished, Cancelled, Status, Phase, Renegotiate,
        EnterPhases, Arms, WorkerFrame, WorkerAt, workerVars, timerVars,
        finishVars, clientVars
<1>4. CASE DoWorkThrows
    BY <1>4
    DEF OperationInv, OperationTypeOK, BodyInv, VerdictInv, ResultInv, ClientInv, TimerInv,
        Entered, Past, Finished, Cancelled, Status, Phase, DoWorkThrows,
        WorkerFrame, WorkerAt, workerVars, timerVars, finishVars,
        clientVars
<1>5. CASE \E s \in {"Ok", "Error", "Cancelled"} : CardIoReturns(s)
    BY <1>5
    DEF OperationInv, OperationTypeOK, BodyInv, VerdictInv, ResultInv, ClientInv, TimerInv,
        Entered, Past, Finished, Cancelled, Status, Phase, CardIoReturns,
        Conclude, ConcludeCancelled, WorkerFrame, WorkerAt, workerVars,
        timerVars, finishVars, clientVars
<1>6. CASE \E k \in {"channel", "signing"} : ProviderAsks(k)
<2>1. Flags'
    BY Zenon, <1>6
    DEF Flags, OperationInv, OperationTypeOK, ProviderAsks, WorkerFrame, WorkerAt,
        workerVars, timerVars, finishVars, clientVars
<2>2. OperationTypeOK'
    BY <1>6, <2>1, MaxPromptsAssumption
    DEF OperationInv, OperationTypeOK, BodyInv, VerdictInv, ResultInv, ClientInv, TimerInv,
        Entered, Past, Finished, Cancelled, Status, Phase, ProviderAsks,
        WorkerFrame, WorkerAt, workerVars, timerVars, finishVars,
        clientVars, Flags
<2>3. BodyInv'
    BY <1>6
    DEF OperationInv, OperationTypeOK, BodyInv, VerdictInv, ResultInv, ClientInv, TimerInv,
        Entered, Past, Finished, Cancelled, Status, Phase, ProviderAsks,
        WorkerFrame, WorkerAt, workerVars, timerVars, finishVars,
        clientVars
<2>4. VerdictInv'
    BY <1>6
    DEF OperationInv, OperationTypeOK, BodyInv, VerdictInv, ResultInv, ClientInv, TimerInv,
        Entered, Past, Finished, Cancelled, Status, Phase, ProviderAsks,
        WorkerFrame, WorkerAt, workerVars, timerVars, finishVars,
        clientVars
<2>5. ResultInv'
    BY Zenon, <1>6
    DEF OperationInv, OperationTypeOK, BodyInv, VerdictInv, ResultInv, ClientInv, TimerInv,
        Entered, Past, Finished, Cancelled, Status, Phase, ProviderAsks,
        WorkerFrame, WorkerAt, workerVars, timerVars, finishVars,
        clientVars
<2>6. ClientInv'
    BY <1>6
    DEF OperationInv, OperationTypeOK, BodyInv, VerdictInv, ResultInv, ClientInv, TimerInv,
        Entered, Past, Finished, Cancelled, Status, Phase, ProviderAsks,
        WorkerFrame, WorkerAt, workerVars, timerVars, finishVars,
        clientVars
<2>7. TimerInv'
    BY <1>6, <2>1
    DEF OperationInv, OperationTypeOK, BodyInv, VerdictInv, ResultInv, ClientInv, TimerInv,
        Entered, Past, Finished, Cancelled, Status, Phase, ProviderAsks,
        WorkerFrame, WorkerAt, workerVars, timerVars, finishVars,
        clientVars, Flags
<2>8. QED
    BY Zenon, <2>2, <2>3, <2>4, <2>5, <2>6, <2>7 DEF OperationInv
<1>7. QED
    BY Zenon, <1>1, <1>2, <1>3, <1>4, <1>5, <1>6 DEF CardStep

\* The end of a prompt.
LEMMA PromptStepInv ==
    OperationInv /\ PromptStep => OperationInv'
<1> SUFFICES ASSUME OperationInv, NEW d \in BOOLEAN, PromptEnds(d) PROVE OperationInv'
    BY Zenon DEF PromptStep
<1>1. Flags'
    BY
    DEF Flags, OperationInv, OperationTypeOK, PromptEnds, AfterPrompt, EnterPhases, Arms,
        WorkerFrame, WorkerAt, workerVars, timerVars, finishVars,
        clientVars
<1>2. OperationTypeOK'
    BY <1>1
    DEF OperationInv, OperationTypeOK, BodyInv, VerdictInv, ResultInv, ClientInv, TimerInv,
        Entered, Past, Finished, Cancelled, Status, Phase, PromptEnds,
        AfterPrompt, EnterPhases, Arms, WorkerFrame, WorkerAt, workerVars,
        timerVars, finishVars, clientVars, Flags
<1>3. BodyInv'
    BY
    DEF OperationInv, OperationTypeOK, BodyInv, VerdictInv, ResultInv, ClientInv, TimerInv,
        Entered, Past, Finished, Cancelled, Status, Phase, PromptEnds,
        AfterPrompt, EnterPhases, Arms, WorkerFrame, WorkerAt, workerVars,
        timerVars, finishVars, clientVars
<1>4. VerdictInv'
    BY
    DEF OperationInv, OperationTypeOK, BodyInv, VerdictInv, ResultInv, ClientInv, TimerInv,
        Entered, Past, Finished, Cancelled, Status, Phase, PromptEnds,
        AfterPrompt, EnterPhases, Arms, WorkerFrame, WorkerAt, workerVars,
        timerVars, finishVars, clientVars
<1>5. ResultInv'
    BY
    DEF OperationInv, OperationTypeOK, BodyInv, VerdictInv, ResultInv, ClientInv, TimerInv,
        Entered, Past, Finished, Cancelled, Status, Phase, PromptEnds,
        AfterPrompt, EnterPhases, Arms, WorkerFrame, WorkerAt, workerVars,
        timerVars, finishVars, clientVars
<1>6. ClientInv'
    BY
    DEF OperationInv, OperationTypeOK, BodyInv, VerdictInv, ResultInv, ClientInv, TimerInv,
        Entered, Past, Finished, Cancelled, Status, Phase, PromptEnds,
        AfterPrompt, EnterPhases, Arms, WorkerFrame, WorkerAt, workerVars,
        timerVars, finishVars, clientVars
<1>7. TimerInv'
    BY Zenon, <1>1
    DEF OperationInv, OperationTypeOK, BodyInv, VerdictInv, ResultInv, ClientInv, TimerInv,
        Entered, Past, Finished, Cancelled, Status, Phase, PromptEnds,
        AfterPrompt, EnterPhases, Arms, WorkerFrame, WorkerAt, workerVars,
        timerVars, finishVars, clientVars, Flags
<1>8. QED
    BY Zenon, <1>2, <1>3, <1>4, <1>5, <1>6, <1>7 DEF OperationInv

\* The client's subscription and recovery read.
LEMMA ClientStepInv ==
    OperationInv /\ ClientStep => OperationInv'
<1> SUFFICES ASSUME OperationInv, ClientStep PROVE OperationInv'
    BY Zenon
<1>1. CASE Subscribe
    BY <1>1
    DEF OperationInv, OperationTypeOK, BodyInv, VerdictInv, ResultInv, ClientInv, TimerInv,
        Entered, Past, Finished, Cancelled, Status, Phase, Subscribe,
        ClientFrame, workerVars, timerVars, finishVars, clientVars
<1>2. CASE ReadCompleted
    BY <1>2
    DEF OperationInv, OperationTypeOK, BodyInv, VerdictInv, ResultInv, ClientInv, TimerInv,
        Entered, Past, Finished, Cancelled, Status, Phase, ReadCompleted,
        ClientFrame, workerVars, timerVars, finishVars, clientVars
<1>3. CASE ReadTerminal
    BY <1>3
    DEF OperationInv, OperationTypeOK, BodyInv, VerdictInv, ResultInv, ClientInv, TimerInv,
        Entered, Past, Finished, Cancelled, Status, Phase, ReadTerminal,
        ClientFrame, workerVars, timerVars, finishVars, clientVars
<1>4. QED
    BY Zenon, <1>1, <1>2, <1>3 DEF ClientStep

\* Every step preserves the invariant.
LEMMA OperationGoesOn == OperationInv /\ [OperationNext]_operationVars => OperationInv'
<1> SUFFICES ASSUME OperationInv, [OperationNext]_operationVars PROVE OperationInv'
    BY Zenon
<1>1. CASE ClientCancels \/ Shutdown
<2>1. Flags'
    BY Zenon, <1>1
    DEF Flags, OperationInv, OperationTypeOK, ClientCancels, Shutdown, Trip, workerVars,
        timerVars, finishVars, clientVars
<2>2. OperationTypeOK'
    BY <1>1, <2>1
    DEF OperationInv, OperationTypeOK, BodyInv, VerdictInv, ResultInv, ClientInv, TimerInv,
        Entered, Past, Finished, Cancelled, Status, Phase, ClientCancels,
        Shutdown, Trip, workerVars, timerVars, finishVars, clientVars,
        Flags
<2>3. BodyInv'
    BY <1>1
    DEF OperationInv, OperationTypeOK, BodyInv, VerdictInv, ResultInv, ClientInv, TimerInv,
        Entered, Past, Finished, Cancelled, Status, Phase, ClientCancels,
        Shutdown, Trip, workerVars, timerVars, finishVars, clientVars
<2>4. VerdictInv'
    BY <1>1
    DEF OperationInv, OperationTypeOK, BodyInv, VerdictInv, ResultInv, ClientInv, TimerInv,
        Entered, Past, Finished, Cancelled, Status, Phase, ClientCancels,
        Shutdown, Trip, workerVars, timerVars, finishVars, clientVars
<2>5. ResultInv'
    BY Zenon, <1>1
    DEF OperationInv, OperationTypeOK, BodyInv, VerdictInv, ResultInv, ClientInv, TimerInv,
        Entered, Past, Finished, Cancelled, Status, Phase, ClientCancels,
        Shutdown, Trip, workerVars, timerVars, finishVars, clientVars
<2>6. ClientInv'
    BY <1>1
    DEF OperationInv, OperationTypeOK, BodyInv, VerdictInv, ResultInv, ClientInv, TimerInv,
        Entered, Past, Finished, Cancelled, Status, Phase, ClientCancels,
        Shutdown, Trip, workerVars, timerVars, finishVars, clientVars
<2>7. TimerInv'
    BY <1>1, <2>1
    DEF OperationInv, OperationTypeOK, BodyInv, VerdictInv, ResultInv, ClientInv, TimerInv,
        Entered, Past, Finished, Cancelled, Status, Phase, ClientCancels,
        Shutdown, Trip, workerVars, timerVars, finishVars, clientVars,
        Flags
<2>8. QED
    BY Zenon, <2>2, <2>3, <2>4, <2>5, <2>6, <2>7 DEF OperationInv
<1>2. CASE UNCHANGED operationVars
    BY <1>2
    DEF OperationInv, OperationTypeOK, BodyInv, VerdictInv, ResultInv, ClientInv, TimerInv,
        Entered, Past, Finished, Cancelled, Status, Phase, operationVars,
        workerVars, timerVars, finishVars, clientVars
<1>3. QED
    BY Zenon, <1>1, <1>2, FinishStepInv, TimerStepInv, AgentStepInv, CardStepInv,
       PromptStepInv, ClientStepInv DEF OperationNext

\* The invariant holds throughout every behaviour.
THEOREM OperationInvariant == OperationSpec => []OperationInv
BY OperationBegins, OperationGoesOn, PTL DEF OperationSpec

\* Type correctness of the operation's state (OperationBase members and
\* OperationState).
THEOREM OperationTypeCorrect == OperationSpec => []OperationTypeOK
BY OperationInvariant, PTL DEF OperationInv

\* A flow stopped by the watchdog's cancel is reported as a timeout, whichever
\* thread wins the race to finish().
THEOREM TimeoutsAreReported == OperationSpec => []TimeoutIsNotACancel
<1>1. OperationInv => TimeoutIsNotACancel
    BY DEF OperationInv, BodyInv, VerdictInv, OperationTypeOK, Entered, TimeoutIsNotACancel
<1> QED
    BY <1>1, OperationInvariant, PTL

\* Finished(Ok) never goes out without the typed Result before it.
THEOREM OkCarriesAResult == OperationSpec => []OkHasResult
<1>1. OperationInv => OkHasResult
    BY Zenon DEF OperationInv, BodyInv, ResultInv, OperationTypeOK, Entered, OkHasResult
<1> QED
    BY <1>1, OperationInvariant, PTL

\* A client that subscribes and then reads Completed never misses the terminal
\* status and never reads a half-written one.
THEOREM LateClientsRecover == OperationSpec => []RecoveryIsExact
<1>1. OperationInv => RecoveryIsExact
    BY Zenon DEF OperationInv, ClientInv, BodyInv, ResultInv, OperationTypeOK, Entered, OkHasResult,
           RecoveryIsExact
<1> QED
    BY <1>1, OperationInvariant, PTL

\* No timer thread exists while a prompt is up, after any number of prompts.
THEOREM ConsentIsUntimed == OperationSpec => []HolderIsNotTimed
<1>1. OperationInv => HolderIsNotTimed
    BY Zenon DEF OperationInv, TimerInv, HolderIsNotTimed, WorkerAt
<1> QED
    BY <1>1, OperationInvariant, PTL

\* quiesce() leaves no timer thread behind.
THEOREM TimersAreReclaimed == OperationSpec => []NoTimerAfterQuiesce
<1>1. OperationInv => NoTimerAfterQuiesce
    BY Zenon DEF OperationInv, TimerInv, NoTimerAfterQuiesce, WorkerAt
<1> QED
    BY <1>1, OperationInvariant, PTL

\* In a read operation the card checks a collected secret under a started
\* watchdog: ConsentPhaseScope re-arms it on every way out of the prompt.
THEOREM ReadsAreWatched ==
    OperationSpec => []ReadsStayWatched
<1>1. OperationInv => ReadsStayWatched
    BY Zenon DEF OperationInv, TimerInv, ReadsStayWatched, WorkerAt
<1> QED
    BY <1>1, OperationInvariant, PTL

\* For any number of prompts the watchdog runs exactly where it should.
THEOREM WatchdogIsScoped == OperationSpec => []WatchdogScope
<1> QED
    BY ConsentIsUntimed, TimersAreReclaimed, ReadsAreWatched, PTL DEF WatchdogScope

=============================================================================
