--------------------------- MODULE PromptSerializer ---------------------------
(***************************************************************************)
(* The per-card prompt gate (PromptSerializer), the decorator every secret *)
(* prompt goes through (SerializingPrompter) and the dismissal hook that   *)
(* OperationBase::requestCancel runs against it.                           *)
(*                                                                         *)
(* Every critical section of m_mutex is one step.  The condition variable  *)
(* is explicit: a parked waiter runs again only after a notify_all or a    *)
(* spurious wake, so a lost wake-up is a behaviour of the model.  A cancel *)
(* is three separate steps of the cancelling thread (phase snapshot, token *)
(* trip with its callback, dismissal), as in the code.                     *)
(*                                                                         *)
(* A ticket is what it is in the code, a number drawn from one counter.    *)
(* The waiter deque is the set of its tickets: push_back always appends    *)
(* the largest, so front() is the least.  A prompt id is its operation:    *)
(* ids are minted fresh per raised prompt, one at a time per operation.    *)
(***************************************************************************)
EXTENDS Naturals

CONSTANTS
    Op,          \* operations that prompt, each with its own cancel token
    Card,        \* gate keys
    cardOf,      \* the card an operation works on
    MaxTickets   \* bound: no new prompt is begun once this many were drawn

ASSUME CardOfAssumption == cardOf \in [Op -> Card]
ASSUME MaxTicketsAssumption == MaxTickets \in Nat

VARIABLES
    pc,          \* where the operation's worker is in its prompt
    ticket,      \* myTicket of the current acquire()
    nextTicket,  \* m_nextTicket
    gates,       \* the keys present in m_gates
    waiters,     \* Gate::waiters
    held,        \* Gate::held
    live,        \* m_livePrompts
    cancelled,   \* the operations whose token is cancelled
    callback,    \* the registration acquire() holds on the token
    canceller,   \* where requestCancel() for the operation is
    named        \* the live ids its dismissal hook read, dead ids dropped

gateVars == <<ticket, nextTicket, gates, waiters, held>>
cancelVars == <<canceller, named>>
vars == <<pc, ticket, nextTicket, gates, waiters, held, live, cancelled,
          callback, canceller, named>>

PC == {"idle", "registered", "parked", "woken", "admitted", "refused",
       "slot", "live", "shown", "answered", "releasing"}

TypeOK ==
    /\ pc \in [Op -> PC]
    /\ ticket \in [Op -> Nat]
    /\ nextTicket \in Nat
    /\ gates \subseteq Card
    /\ waiters \in [Card -> SUBSET Nat]
    /\ held \in [Card -> BOOLEAN]
    /\ live \subseteq Op
    /\ cancelled \subseteq Op
    /\ callback \in [Op -> {"none", "armed", "firing"}]
    /\ canceller \in [Op -> {"none", "snapped", "snappedInConsent", "tripped",
                             "trippedInConsent", "dismissing",
                             "dismissed", "done", "shutdown"}]
    /\ named \in [Op -> SUBSET Op]

Init ==
    /\ pc = [o \in Op |-> "idle"]
    /\ ticket = [o \in Op |-> 0]
    /\ nextTicket = 0
    /\ gates = {}
    /\ waiters = [c \in Card |-> {}]
    /\ held = [c \in Card |-> FALSE]
    /\ live = {}
    /\ cancelled = {}
    /\ callback = [o \in Op |-> "none"]
    /\ canceller = [o \in Op |-> "none"]
    /\ named = [o \in Op |-> {}]

\* Fault: notify_all() is forgotten.
NobodyWoken == pc

\* m_cv.notify_all(): every parked waiter is runnable again.
AllWoken == [p \in Op |-> IF pc[p] = "parked" THEN "woken" ELSE pc[p]]

\* acquire() registers its wake-up on the token before it takes the mutex.  A
\* token that is already cancelled runs the callback on the spot.
Register(o) ==
    /\ pc[o] = "idle"
    /\ nextTicket < MaxTickets
    /\ IF o \in cancelled
         THEN pc' = [AllWoken EXCEPT ![o] = "registered"] /\ UNCHANGED callback
         ELSE /\ pc' = [pc EXCEPT ![o] = "registered"]
              /\ callback' = [callback EXCEPT ![o] = "armed"]
    /\ UNCHANGED <<gateVars, live, cancelled, cancelVars>>

\* Fault: any queued ticket counts as the head.
AnyTicket(t, W) == t \in W

AtHead(t, W) == t \in W /\ \A u \in W : t <= u

SlotFree(c) == ~held[c]

\* The key's gate after waiters.erase / pop_front: an idle gate is dropped.
EraseIfIdle(c, W, h) == IF W = {} /\ ~h THEN gates \ {c} ELSE gates \cup {c}

(* How the critical section of acquire() ends for ticket t when W is the   *)
(* key's queue: the wait predicate is false and the waiter parks; or the   *)
(* token is cancelled and the ticket is surrendered; or the slot is taken. *)
Park(o, t, W) ==
    /\ o \notin cancelled
    /\ ~(SlotFree(cardOf[o]) /\ AtHead(t, W))
    /\ pc' = [pc EXCEPT ![o] = "parked"]
    /\ waiters' = [waiters EXCEPT ![cardOf[o]] = W]
    /\ gates' = gates \cup {cardOf[o]}
    /\ UNCHANGED held

Surrender(o, t, W) ==
    /\ o \in cancelled
    /\ waiters' = [waiters EXCEPT ![cardOf[o]] = W \ {t}]
    /\ gates' = EraseIfIdle(cardOf[o], W \ {t}, held[cardOf[o]])
    /\ pc' = [AllWoken EXCEPT ![o] = "refused"]
    /\ UNCHANGED held

TakeSlot(o, t, W) ==
    /\ o \notin cancelled
    /\ SlotFree(cardOf[o])
    /\ AtHead(t, W)
    /\ waiters' = [waiters EXCEPT ![cardOf[o]] = W \ {t}]
    /\ held' = [held EXCEPT ![cardOf[o]] = TRUE]
    /\ gates' = gates \cup {cardOf[o]}
    /\ pc' = [pc EXCEPT ![o] = "admitted"]

Admission(o, t, W) == Park(o, t, W) \/ Surrender(o, t, W) \/ TakeSlot(o, t, W)

\* First pass through the critical section: draw a ticket and queue it.
Enqueue(o) ==
    /\ pc[o] = "registered"
    /\ ticket' = [ticket EXCEPT ![o] = nextTicket]
    /\ nextTicket' = nextTicket + 1
    /\ Admission(o, nextTicket, waiters[cardOf[o]] \cup {nextTicket})
    /\ UNCHANGED <<live, cancelled, callback, cancelVars>>

\* Fault: the predicate looks at the slot before it looks at the token.
SlotFirst(o) ==
    /\ pc[o] = "woken" /\ SlotFree(cardOf[o])
    /\ Admission(o, ticket[o], waiters[cardOf[o]])
    /\ UNCHANGED <<ticket, nextTicket, live, cancelled, callback, cancelVars>>

\* A woken waiter re-evaluates the predicate under the mutex.
Reevaluate(o) ==
    /\ pc[o] = "woken"
    /\ Admission(o, ticket[o], waiters[cardOf[o]])
    /\ UNCHANGED <<ticket, nextTicket, live, cancelled, callback, cancelVars>>

SpuriousWake(o) ==
    /\ pc[o] = "parked"
    /\ pc' = [pc EXCEPT ![o] = "woken"]
    /\ UNCHANGED <<gateVars, live, cancelled, callback, cancelVars>>

\* The registration dies at scope exit and waits out a callback in flight.
Unregister(o) ==
    /\ pc[o] \in {"admitted", "refused"}
    /\ callback[o] # "firing"
    /\ callback' = [callback EXCEPT ![o] = "none"]
    /\ pc' = [pc EXCEPT ![o] = IF pc[o] = "admitted" THEN "slot" ELSE "idle"]
    /\ UNCHANGED <<gateVars, live, cancelled, cancelVars>>

\* A CAN or MRZ prompt that is no longer wanted after the wait is not raised.
NotWanted(o) ==
    /\ pc[o] = "slot"
    /\ pc' = [pc EXCEPT ![o] = "releasing"]
    /\ UNCHANGED <<gateVars, live, cancelled, callback, cancelVars>>

\* m_livePrompts with the fresh id of o's prompt in it, and without it.
Listed(o) == live \cup {o}

\* Fault: the guard's destructor erases nothing.
LeftListed(o) == live

Unlisted(o) == live \ {o}

\* stamp() mints the prompt id inside the gate, registerLivePrompt() lists it.
RegisterLivePrompt(o) ==
    /\ pc[o] = "slot"
    /\ live' = Listed(o)
    /\ pc' = [pc EXCEPT ![o] = "live"]
    /\ UNCHANGED <<gateVars, cancelled, callback, cancelVars>>

\* The inner prompter puts the dialog up ...
Raise(o) ==
    /\ pc[o] = "live"
    /\ pc' = [pc EXCEPT ![o] = "shown"]
    /\ UNCHANGED <<gateVars, live, cancelled, callback, cancelVars>>

\* ... and returns: answered, dismissed or expired.
Answer(o) ==
    /\ pc[o] = "shown"
    /\ pc' = [pc EXCEPT ![o] = "answered"]
    /\ UNCHANGED <<gateVars, live, cancelled, callback, cancelVars>>

\* LivePromptGuard's destructor.
ForgetLivePrompt(o) ==
    /\ pc[o] = "answered"
    /\ live' = Unlisted(o)
    /\ named' = [p \in Op |-> named[p] \ {o}]
    /\ pc' = [pc EXCEPT ![o] = "releasing"]
    /\ UNCHANGED <<gateVars, cancelled, callback, canceller>>

\* SlotGuard's destructor: release().
Release(o) ==
    /\ pc[o] = "releasing"
    /\ held' = [held EXCEPT ![cardOf[o]] = FALSE]
    /\ gates' = EraseIfIdle(cardOf[o], waiters[cardOf[o]], FALSE)
    /\ pc' = [AllWoken EXCEPT ![o] = "idle"]
    /\ UNCHANGED <<ticket, nextTicket, waiters, live, cancelled, callback,
                   cancelVars>>

\* requestCancel(): the phase is AwaitingConsent for as long as the operation is
\* in its prompt call, and it is read before the token is tripped.
SnapshotPhase(o) ==
    /\ canceller[o] = "none"
    /\ canceller' = [canceller EXCEPT
           ![o] = IF pc[o] = "idle" THEN "snapped" ELSE "snappedInConsent"]
    /\ UNCHANGED <<pc, gateVars, live, cancelled, callback, named>>

TripToken(o) ==
    /\ canceller[o] \in {"snapped", "snappedInConsent"}
    /\ cancelled' = cancelled \cup {o}
    /\ callback' = [callback EXCEPT
           ![o] = IF callback[o] = "armed" THEN "firing" ELSE callback[o]]
    /\ canceller' = [canceller EXCEPT
           ![o] = IF canceller[o] = "snapped" THEN "tripped"
                                              ELSE "trippedInConsent"]
    /\ UNCHANGED <<pc, gateVars, live, named>>

\* The token runs acquire()'s callback: lock, notify_all.
RunCallback(o) ==
    /\ callback[o] = "firing"
    /\ callback' = [callback EXCEPT ![o] = "none"]
    /\ pc' = AllWoken
    /\ UNCHANGED <<gateVars, live, cancelled, cancelVars>>

\* After the token's callbacks: the dismissal hook, only if the snapshot saw
\* AwaitingConsent.  It reads liveIdsFor(cardKey) ...
RunHook(o) ==
    /\ canceller[o] \in {"tripped", "trippedInConsent"}
    /\ callback[o] # "firing"
    /\ IF canceller[o] = "trippedInConsent"
         THEN /\ canceller' = [canceller EXCEPT ![o] = "dismissing"]
              /\ named' = [named EXCEPT
                     ![o] = {p \in live : cardOf[p] = cardOf[o]}]
         ELSE canceller' = [canceller EXCEPT ![o] = "done"] /\ UNCHANGED named
    /\ UNCHANGED <<pc, gateVars, live, cancelled, callback>>

\* ... and has the prompter dismiss each.  An id that names no dialog on screen
\* is a no-op.
Dismiss(o) ==
    /\ canceller[o] = "dismissing"
    /\ canceller' = [canceller EXCEPT ![o] = "dismissed"]
    /\ named' = [named EXCEPT ![o] = {}]
    /\ pc' = [p \in Op |-> IF p \in named[o] /\ pc[p] = "shown"
                             THEN "answered" ELSE pc[p]]
    /\ UNCHANGED <<gateVars, live, cancelled, callback>>

\* requestShutdownCancel(): the token only, no dismissal.
ShutdownCancel(o) ==
    /\ canceller[o] = "none"
    /\ cancelled' = cancelled \cup {o}
    /\ callback' = [callback EXCEPT
           ![o] = IF callback[o] = "armed" THEN "firing" ELSE callback[o]]
    /\ canceller' = [canceller EXCEPT ![o] = "shutdown"]
    /\ UNCHANGED <<pc, gateVars, live, named>>

\* The steps of the operation's worker up to its dialog being on screen, and
\* after it went away.
WorkerStep(o) ==
    \/ Enqueue(o)
    \/ Reevaluate(o)
    \/ Unregister(o)
    \/ NotWanted(o)
    \/ RegisterLivePrompt(o)
    \/ Raise(o)
    \/ ForgetLivePrompt(o)
    \/ Release(o)

CancelStep(o) ==
    \/ TripToken(o)
    \/ RunCallback(o)
    \/ RunHook(o)
    \/ Dismiss(o)

Next ==
    \E o \in Op :
        \/ Register(o)
        \/ WorkerStep(o)
        \/ SpuriousWake(o)
        \/ Answer(o)
        \/ SnapshotPhase(o)
        \/ CancelStep(o)
        \/ ShutdownCancel(o)

Spec == Init /\ [][Next]_vars

\* Threads that can run do run.  Nothing is assumed of the holder of the card.
ThreadFairness ==
    \A o \in Op : WF_vars(WorkerStep(o)) /\ WF_vars(CancelStep(o))

LiveSpec == Spec /\ ThreadFairness

\* Every prompt carries a deadline, so every dialog eventually returns.
DialogsEnd == \A o \in Op : WF_vars(Answer(o))
--------------------------------------------------------------------------------
Queued == {o \in Op : pc[o] \in {"parked", "woken"}}

Holding == {o \in Op : pc[o] \in {"admitted", "slot", "live", "shown",
                                  "answered", "releasing"}}

\* At most one operation per card is between a successful acquire() and its
\* release(): a second dialog for a card can never be raised over the first
\* (the gate "admits AT MOST ONE live prompter interaction PER CARD").
OneHolderPerCard ==
    \A o, p \in Holding : cardOf[o] = cardOf[p] => o = p

\* A waiter that sleeps on the condition variable has nothing to wake for: its
\* slot is taken or another ticket is ahead, and if its token is cancelled then
\* the callback that will wake it is still in flight.  (acquire()'s claim that
\* registering before locking and locking in the callback is lost-wakeup-safe.)
NoLostWakeup ==
    \A o \in Op : pc[o] = "parked" =>
        /\ \/ held[cardOf[o]]
           \/ \E t \in waiters[cardOf[o]] : t < ticket[o]
        /\ o \in cancelled => callback[o] = "firing"

\* A waiter only ever sleeps behind another operation on its own card: "a dialog
\* raised for one reader must never stall a read on another".
WaitsForOwnCardOnly ==
    \A o \in Op : pc[o] = "parked" =>
        \E p \in Queued \cup Holding : p # o /\ cardOf[p] = cardOf[o]

\* m_gates holds exactly the cards somebody prompts or queues for: the map
\* cannot grow by one entry per card ever seen, and hasPendingPrompt() is exact.
GatesInUse ==
    gates = {cardOf[o] : o \in Queued \cup Holding}

\* While a dialog is on screen its id is listed, and liveIdsFor() never names
\* more than one prompt for a card: a dismissal hits the dialog it means.
LiveIdsNameTheDialog ==
    /\ \A o \in Op : pc[o] = "shown" => o \in live
    /\ \A o, p \in live : cardOf[o] = cardOf[p] => o = p

\* One dialog per card, and the ids a cancel dismisses are its own, however
\* waiters are cancelled, woken and admitted (acquire, registerLivePrompt).
OneDialogPerCard == OneHolderPerCard /\ LiveIdsNameTheDialog

\* The gate implements the one-slot-per-card, first-come-first-served promise.
Slot == INSTANCE PromptSlot WITH
    waiting <- Queued,
    ahead   <- [o \in Op |->
                  {p \in Queued : /\ o \in Queued
                                  /\ cardOf[p] = cardOf[o]
                                  /\ ticket[p] < ticket[o]}],
    owner   <- Holding

ImplementsSlot == Slot!Spec

\* Nobody waits in the line for ever: an operation that is cancelled while it
\* is queued leaves, even if the dialog it queues behind is never answered;
\* and with dialogs bounded by their deadline every waiter's turn comes.
EveryWaiterLeaves ==
    /\ \A o \in Op : (o \in Queued /\ o \in cancelled) ~> (o \notin Queued)
    /\ DialogsEnd => \A o \in Op : (o \in Queued) ~> (o \notin Queued)

================================================================================
