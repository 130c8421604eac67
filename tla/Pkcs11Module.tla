---------------------------- MODULE Pkcs11Module ----------------------------
(***************************************************************************)
(* The PKCS#11 module an application loads, for one slot: its sessions,    *)
(* login and derived keys behind g_mutex (Module.cpp over SessionState),   *)
(* called by several threads, and the one connection to the agent behind   *)
(* callMutex (SocketAgentClient).                                          *)
(*                                                                         *)
(* The calls that wait for the agent come in three kinds.  A refresh and a *)
(* question about the login release g_mutex and only try callMutex.  An    *)
(* interactive call (login, sign, decrypt, derive) releases g_mutex, marks *)
(* its session busy and waits for callMutex.  Logout, the close of a last  *)
(* session and the read of a certificate wait for callMutex with g_mutex   *)
(* held.  The first two kinds are counted in g_rpcInFlight, which          *)
(* C_Finalize waits for.                                                   *)
(*                                                                         *)
(* What the agent says of the reader is a view: an epoch, counting the     *)
(* arrivals and departures of cards, or NoView for an agent that could not *)
(* be asked.  Calls that are refused change nothing and are left out.      *)
(***************************************************************************)
EXTENDS Integers, FiniteSets

CONSTANTS
    Threads,      \* the application's threads
    NoOne,        \* the holder of a free lock
    Cursors,      \* the operations that are begun and ended: "sign", "decrypt"
    MaxHandles,   \* bound: session handles a library gives out
    MaxEpoch,     \* bound: arrivals and departures of cards
    MaxLogins,    \* bound: logins recorded in a behaviour
    MaxSnaps,     \* bound: refreshes begun in a behaviour
    MaxLibs       \* bound: times the library is initialized

ASSUME ModuleAssumption ==
    /\ NoOne \notin Threads /\ IsFiniteSet(Threads)
    /\ Cursors \subseteq {"sign", "decrypt"}
    /\ {MaxHandles, MaxEpoch, MaxLogins, MaxSnaps, MaxLibs} \subseteq Nat /\ MaxEpoch > 0

Handles == 1..MaxHandles
NoView == -1
Views == NoView..MaxEpoch

\* The card in the reader at an epoch: every odd epoch has a card of its own.
CardAt(v) == IF v > 0 /\ v % 2 = 1 THEN v ELSE 0
Cards == {v \in 1..MaxEpoch : v % 2 = 1}

Interactive == {"login", "reauth", "derive"} \cup Cursors

VARIABLES
    lib,        \* g_lib: the number of this library, 0 for none
    libs,       \* libraries made so far
    mutex,      \* who holds g_mutex across a call to the agent
    inFlight,   \* g_rpcInFlight
    started,    \* g_snapshotsStarted
    published,  \* g_snapshotPublished
    shown,      \* SessionState::m_model: the view it was built from
    sessions,   \* m_sessions: open, busy (rpcInFlight), and per cursor
                \* the card whose key it names, 0 when it is not active
    opened,     \* m_nextSession - 1
    login,      \* m_logins: loggedIn, generation, checked within the interval
    keys,       \* m_derived: creator and card of each derived key
    wire,       \* who holds callMutex
    cached,     \* cachedSnapshot
    at,         \* per thread: its call and the call's locals
    epoch,      \* the agent: what is in the reader
    leases      \* the agent: the cards this application holds a lease for

libVars   == <<lib, libs>>
snapVars  == <<started, published, shown>>
stateVars == <<sessions, opened, login, keys>>
agentVars == <<epoch, leases>>
vars == <<libVars, mutex, inFlight, snapVars, stateVars, wire, cached, at, agentVars>>

Session == [open : BOOLEAN, busy : BOOLEAN, cursor : [Cursors -> 0..MaxEpoch]]
NoSession == [open |-> FALSE, busy |-> FALSE, cursor |-> [c \in Cursors |-> 0]]
Login == [in : BOOLEAN, generation : 0..MaxLogins, checked : BOOLEAN]
NoLogin == [in |-> FALSE, generation |-> 0, checked |-> TRUE]

Steps == {"idle", "snap", "reading", "unguard", "publish", "ask", "asking", "apply",
          "call", "calling", "record", "lapse", "drop", "held", "drain"}
FunctionNames == {"none", "list", "open", "info", "close", "closeAll", "logout", "attribute", "finalize"} \cup Interactive
Call == [pc : Steps, fn : FunctionNames,
         h : 0..MaxHandles, lib : 0..MaxLibs, ticket : 0..MaxSnaps, view : Views, card : 0..MaxEpoch,
         generation : 0..MaxLogins, answer : {"none", "Ok", "failed", "lapsed", "active", "inactive"}]

\* A call of fn on session h of library l.
CallTo(fn, h, l, pc) == [pc |-> pc, fn |-> fn, h |-> h, lib |-> l, ticket |-> 0, view |-> NoView, card |-> 0,
                         generation |-> 0, answer |-> "none"]
NoCall == CallTo("none", 0, 0, "idle")

CountsOK == inFlight \in 0..Cardinality(Threads) /\ login \in Login

StateOK ==
    /\ libs \in 0..MaxLibs /\ lib \in 0..libs
    /\ mutex \in Threads \cup {NoOne} /\ wire \in Threads \cup {NoOne}
    /\ started \in 0..MaxSnaps /\ published \in 0..MaxSnaps /\ shown \in Views /\ cached \in Views
    /\ sessions \in [Handles -> Session] /\ opened \in 0..MaxHandles
    /\ keys \subseteq [creator : Handles, card : Cards]
    /\ at \in [Threads -> Call]
    /\ epoch \in 0..MaxEpoch /\ leases \subseteq Cards

TypeOK == CountsOK /\ StateOK

\* The application has loaded the module; a card may be in the reader.
Init ==
    /\ lib = 0 /\ libs = 0 /\ mutex = NoOne /\ inFlight = 0
    /\ started = 0 /\ published = 0 /\ shown = NoView
    /\ sessions = [h \in Handles |-> NoSession] /\ opened = 0 /\ login = NoLogin
    /\ keys = {} /\ wire = NoOne /\ cached = NoView
    /\ at = [t \in Threads |-> NoCall]
    /\ epoch \in {0, 1} /\ leases = {}

-----------------------------------------------------------------------------
(* SessionState, whose methods all run under g_mutex.                      *)

slotKnown == shown # NoView
tokenPresent == CardAt(shown) # 0
isOpen(h) == h # 0 /\ sessions[h].open
OpenHandles(S) == {h \in Handles : S[h].open}

\* endLogin on given logins and keys: the private session objects of the
\* token go with the login.
EndedLogin(l) == [l EXCEPT !.in = FALSE]

\* setModel: a login and its keys do not survive a refresh that shows another
\* token, no token, or no slot.
SetModel(view) ==
    /\ shown' = view
    /\ IF slotKnown /\ (~tokenPresent \/ CardAt(view) # CardAt(shown))
       THEN login' = EndedLogin(login) /\ keys' = {}
       ELSE UNCHANGED <<login, keys>>

\* A call begins: the thread is free, nobody holds the lock and the library
\* is there.
Enter(t) == at[t].pc = "idle" /\ mutex = NoOne /\ lib # 0
Lock == mutex = NoOne
Goes(t, pc) == at' = [at EXCEPT ![t].pc = pc]
Returns(t) == at' = [at EXCEPT ![t] = NoCall]

\* All that is left to do is to end the call's guard.
Leaves(t) == at' = [at EXCEPT ![t] = CallTo(at[t].fn, at[t].h, at[t].lib, "drop")]

-----------------------------------------------------------------------------
(* C_Initialize and C_Finalize.                                            *)

\* A new library starts with a state and a client of its own; the snapshot
\* tickets are the process's.  The old client's connection is closed, with
\* which the agent revokes what it had granted.
NewState ==
    /\ sessions' = [h \in Handles |-> NoSession] /\ opened' = 0
    /\ login' = NoLogin /\ keys' = {}
    /\ shown' = NoView /\ cached' = NoView /\ leases' = {}

C_Initialize(t) ==
    /\ at[t].pc = "idle" /\ Lock /\ lib = 0 /\ libs < MaxLibs
    /\ lib' = libs + 1 /\ libs' = libs + 1
    /\ NewState
    /\ UNCHANGED <<mutex, inFlight, started, published, wire, at, epoch>>

\* Fault: the library is destroyed while calls are out.
AtOnce(t) == lib' = 0 /\ Returns(t)

\* The condition of the wait holds at once, or the thread waits for it.
Finalized(t) ==
    IF inFlight = 0 THEN lib' = 0 /\ Returns(t)
    ELSE at' = [at EXCEPT ![t] = CallTo("finalize", 0, 0, "drain")] /\ UNCHANGED lib

C_Finalize(t) ==
    /\ Enter(t)
    /\ Finalized(t)
    /\ UNCHANGED <<libs, mutex, inFlight, snapVars, stateVars, wire, cached, agentVars>>

\* The wait ends: drained, or after kDrainBudget with CKR_FUNCTION_FAILED.
Drained(t) ==
    /\ at[t].pc = "drain" /\ Lock
    /\ \/ inFlight = 0 /\ lib' = 0
       \/ inFlight # 0 /\ UNCHANGED lib
    /\ Returns(t)
    /\ UNCHANGED <<libs, mutex, inFlight, snapVars, stateVars, wire, cached, agentVars>>

-----------------------------------------------------------------------------
(* The calls that refresh the view of the readers first.                   *)

refreshModel(t, fn) ==
    /\ Enter(t) /\ started < MaxSnaps
    /\ started' = started + 1
    /\ inFlight' = inFlight + 1
    /\ at' = [at EXCEPT ![t] = [CallTo(fn, 0, lib, "snap") EXCEPT !.ticket = started + 1]]
    /\ UNCHANGED <<libVars, mutex, published, shown, stateVars, wire, cached, agentVars>>

\* What these answer is read off the view when it is published.
C_GetSlotList(t) == refreshModel(t, "list")
C_GetSlotInfo(t) == refreshModel(t, "list")
C_GetTokenInfo(t) == refreshModel(t, "list")
C_GetMechanismList(t) == refreshModel(t, "list")
C_GetMechanismInfo(t) == refreshModel(t, "list")
C_OpenSession(t) == refreshModel(t, "open")

\* SocketAgentClient::snapshot: with the connection taken, the last view.
snapshot(t) ==
    /\ at[t].pc = "snap"
    /\ \/ /\ wire # NoOne
          /\ at' = [at EXCEPT ![t].pc = "unguard", ![t].view = cached]
          /\ UNCHANGED wire
       \/ /\ wire = NoOne
          /\ wire' = t /\ Goes(t, "reading")
    /\ UNCHANGED <<libVars, mutex, inFlight, snapVars, stateVars, cached, agentVars>>

\* GetState and the certificates of every card; an agent that cannot be
\* asked yields an empty view, which is not kept.
readState(t) ==
    /\ at[t].pc = "reading"
    /\ wire' = NoOne
    /\ \/ /\ at' = [at EXCEPT ![t].pc = "unguard", ![t].view = epoch]
          /\ cached' = epoch
          /\ UNCHANGED leases
       \/ /\ at' = [at EXCEPT ![t].pc = "unguard", ![t].view = NoView]
          /\ leases' = {} /\ UNCHANGED cached
    /\ UNCHANGED <<libVars, mutex, inFlight, snapVars, stateVars, epoch>>

\* The guard ends before the lock is taken again.
unguard(t) ==
    /\ at[t].pc = "unguard" /\ Lock
    /\ inFlight' = inFlight - 1
    /\ Goes(t, "publish")
    /\ UNCHANGED <<libVars, mutex, snapVars, stateVars, wire, cached, agentVars>>

\* The rest of the call, and for C_OpenSession the new session.
publish(t) ==
    LET a == at[t] IN
    /\ a.pc = "publish" /\ Lock
    /\ \/ /\ lib # 0 /\ a.ticket > published
          /\ published' = a.ticket /\ SetModel(a.view)
       \/ /\ lib = 0 \/ a.ticket <= published
          /\ UNCHANGED <<published, shown, login, keys>>
    /\ \/ /\ lib # 0 /\ a.fn = "open" /\ CardAt(shown') # 0 /\ opened < MaxHandles
          /\ opened' = opened + 1
          /\ sessions' = [sessions EXCEPT ![opened + 1].open = TRUE]
       \/ /\ ~(lib # 0 /\ a.fn = "open" /\ CardAt(shown') # 0 /\ opened < MaxHandles)
          /\ UNCHANGED <<opened, sessions>>
    /\ Returns(t)
    /\ UNCHANGED <<libVars, mutex, inFlight, started, wire, cached, agentVars>>

-----------------------------------------------------------------------------
(* C_GetSessionInfo: at most once an interval it asks the agent whether    *)
(* the login still stands.                                                 *)

C_GetSessionInfo(t, h) ==
    /\ Enter(t) /\ isOpen(h) /\ slotKnown
    /\ login.in /\ ~login.checked
    /\ login' = [login EXCEPT !.checked = TRUE]
    /\ inFlight' = inFlight + 1
    /\ at' = [at EXCEPT ![t] = [CallTo("info", h, lib, "ask") EXCEPT !.generation = login.generation]]
    /\ UNCHANGED <<libVars, mutex, snapVars, sessions, opened, keys, wire, cached, agentVars>>

\* SocketAgentClient::loginActive: with the connection taken, no answer.
loginActive(t) ==
    /\ at[t].pc = "ask"
    /\ \/ wire # NoOne /\ Goes(t, "apply") /\ UNCHANGED wire
       \/ wire = NoOne /\ Goes(t, "asking") /\ wire' = t
    /\ UNCHANGED <<libVars, mutex, inFlight, snapVars, stateVars, cached, agentVars>>

Answer(t, pc, answer) == at' = [at EXCEPT ![t].pc = pc, ![t].answer = answer]

\* The agent's answer is about the card that is in the reader now; a lost
\* connection is no answer, and costs the leases.
answered(t) ==
    /\ at[t].pc = "asking"
    /\ wire' = NoOne
    /\ \/ Answer(t, "apply", IF CardAt(epoch) \in leases THEN "active" ELSE "inactive") /\ UNCHANGED leases
       \/ Answer(t, "apply", "none") /\ leases' = {}
    /\ UNCHANGED <<libVars, mutex, inFlight, snapVars, stateVars, cached, epoch>>

\* Fault: the answer is taken for the login of the moment.
AnyLogin(a) == TRUE
SameLogin(a) == login.generation = a.generation

applyAnswer(t) ==
    LET a == at[t] IN
    /\ a.pc = "apply" /\ Lock
    /\ IF a.answer = "inactive" /\ login.in /\ SameLogin(a)
       THEN login' = EndedLogin(login) /\ keys' = {}
       ELSE UNCHANGED <<login, keys>>
    /\ Leaves(t)
    /\ UNCHANGED <<libVars, mutex, inFlight, snapVars, sessions, opened, wire, cached, agentVars>>

-----------------------------------------------------------------------------
(* The interactive calls.                                                  *)

NotBusy(h) == ~sessions[h].busy

\* What each call asks of the session before it goes to the agent.
Admitted(fn, h) ==
    CASE fn = "login"  -> tokenPresent /\ ~login.in
      [] fn = "reauth" -> tokenPresent
      [] fn = "derive" -> tokenPresent /\ login.in
      [] OTHER         -> sessions[h].cursor[fn] # 0

\* Bound: no more logins than MaxLogins, those under way included.
LoginsLeft == login.generation + Cardinality({t \in Threads : at[t].fn \in {"login", "reauth"}}) < MaxLogins

\* The card whose key the call names, for a call that names one.
KeyCard(fn, h) ==
    CASE fn \in Cursors -> sessions[h].cursor[fn]
      [] fn = "derive"  -> CardAt(shown)
      [] OTHER          -> 0

\* RpcInFlightGuard, set under the lock.
Interact(t, fn, h) ==
    /\ Enter(t) /\ isOpen(h) /\ NotBusy(h) /\ Admitted(fn, h)
    /\ fn \in {"login", "reauth"} => LoginsLeft
    /\ sessions' = [sessions EXCEPT ![h].busy = TRUE]
    /\ inFlight' = inFlight + 1
    /\ at' = [at EXCEPT ![t] = [CallTo(fn, h, lib, "call") EXCEPT !.card = KeyCard(fn, h)]]
    /\ UNCHANGED <<libVars, mutex, snapVars, opened, login, keys, wire, cached, agentVars>>

\* An interactive call waits for the connection.
takeWire(t) ==
    /\ at[t].pc = "call" /\ wire = NoOne
    /\ wire' = t /\ Goes(t, "calling")
    /\ UNCHANGED <<libVars, mutex, inFlight, snapVars, stateVars, cached, agentVars>>

\* Fault: a call whose connection is lost keeps the connection's lock.
StillHeld(t) == wire
Released(t) == NoOne

\* The agent's answer.  A login grants a lease for the card that is in the
\* reader; the other calls need that lease, and a refused PIN takes it away.
\* A call the connection does not survive ends as DeviceRemoved.
answerCall(t) ==
    LET a == at[t]
        card == CardAt(epoch) IN
    /\ a.pc = "calling"
    /\ \/ /\ a.fn \in {"login", "reauth"} /\ card # 0
          /\ leases' = leases \cup {card} /\ Answer(t, "record", "Ok") /\ wire' = NoOne
       \/ /\ a.fn \notin {"login", "reauth"} /\ card # 0
          /\ Answer(t, "record", IF card \notin leases THEN "lapsed" ELSE IF card = a.card THEN "Ok" ELSE "failed")
          /\ wire' = NoOne /\ UNCHANGED leases
       \/ Answer(t, "record", "failed") /\ leases' = leases \ {card} /\ wire' = NoOne
       \/ Answer(t, "record", "failed") /\ leases' = {} /\ wire' = Released(t)
    /\ UNCHANGED <<libVars, mutex, inFlight, snapVars, stateVars, cached, epoch>>

StillThere(h) == isOpen(h)

\* C_Login: the login is recorded if the session is still there.
recordLogin(t) ==
    LET a == at[t] IN
    /\ a.pc = "record" /\ a.fn \in {"login", "reauth"} /\ Lock
    /\ IF a.answer = "Ok" /\ StillThere(a.h)
       THEN login' = [in |-> TRUE, generation |-> login.generation + 1, checked |-> TRUE]
       ELSE UNCHANGED login
    /\ Leaves(t)
    /\ UNCHANGED <<libVars, mutex, inFlight, snapVars, sessions, opened, keys, wire, cached, agentVars>>

\* doSign, doDecrypt: the cursor ends with the call, unless all that was
\* missing is room for the result.
recordUse(t) ==
    LET a == at[t] IN
    /\ a.pc = "record" /\ a.fn \in Cursors /\ Lock
    /\ \/ sessions' = IF isOpen(a.h) THEN [sessions EXCEPT ![a.h].cursor[a.fn] = 0] ELSE sessions
       \/ a.answer = "Ok" /\ UNCHANGED sessions
    /\ IF a.answer = "lapsed" THEN Goes(t, "lapse") ELSE Leaves(t)
    /\ UNCHANGED <<libVars, mutex, inFlight, snapVars, opened, login, keys, wire, cached, agentVars>>

\* Fault: the key is kept without another look.
Unchecked(a) == isOpen(a.h)

\* The card and the login a key was derived under must still be there.
KeyMayStay(a) == isOpen(a.h) /\ CardAt(shown) = a.card /\ login.in

\* C_DeriveKey: the key is kept, or its secret wiped.
recordKey(t) ==
    LET a == at[t] IN
    /\ a.pc = "record" /\ a.fn = "derive" /\ Lock
    /\ IF a.answer = "Ok" /\ KeyMayStay(a)
       THEN keys' = keys \cup {[creator |-> a.h, card |-> a.card]}
       ELSE UNCHANGED keys
    /\ IF a.answer = "lapsed" THEN Goes(t, "lapse") ELSE Leaves(t)
    /\ UNCHANGED <<libVars, mutex, inFlight, snapVars, sessions, opened, login, wire, cached, agentVars>>

dropLoginOnLapsedLease(t) ==
    /\ at[t].pc = "lapse" /\ Lock
    /\ IF isOpen(at[t].h) THEN login' = EndedLogin(login) /\ keys' = {} ELSE UNCHANGED <<login, keys>>
    /\ Leaves(t)
    /\ UNCHANGED <<libVars, mutex, inFlight, snapVars, sessions, opened, wire, cached, agentVars>>

OneLess == inFlight - 1

\* The guard's destructor: the session, if it is still there, is free again.
drop(t) ==
    LET a == at[t] IN
    /\ a.pc = "drop" /\ Lock
    /\ inFlight' = OneLess
    /\ sessions' = IF a.fn \in Interactive /\ isOpen(a.h) THEN [sessions EXCEPT ![a.h].busy = FALSE] ELSE sessions
    /\ Returns(t)
    /\ UNCHANGED <<libVars, mutex, snapVars, opened, login, keys, wire, cached, agentVars>>

\* C_SignInit, C_DecryptInit.
BeginUse(t, fn, h) ==
    /\ Enter(t) /\ isOpen(h) /\ sessions[h].cursor[fn] = 0 /\ tokenPresent
    /\ sessions' = [sessions EXCEPT ![h].cursor[fn] = CardAt(shown)]
    /\ UNCHANGED <<libVars, mutex, inFlight, snapVars, opened, login, keys, wire, cached, at, agentVars>>

-----------------------------------------------------------------------------
(* The calls that keep g_mutex while they talk to the agent.               *)

\* closeSession: the keys it made go, and the login with the last session.
Closed(hs) ==
    LET rest == [h \in Handles |-> IF h \in hs THEN NoSession ELSE sessions[h]] IN
    /\ sessions' = rest
    /\ IF OpenHandles(rest) = {} THEN login' = EndedLogin(login) /\ keys' = {}
       ELSE keys' = {k \in keys : k.creator \notin hs} /\ UNCHANGED login

Holds(t, fn, h) == at' = [at EXCEPT ![t] = CallTo(fn, h, lib, "held")] /\ mutex' = t

\* The agent is told of the last session's end, if the slot is known.
C_CloseSession(t, h) ==
    /\ Enter(t) /\ isOpen(h)
    /\ Closed({h})
    /\ \/ /\ OpenHandles(sessions') = {} /\ slotKnown
          /\ Holds(t, "close", h)
       \/ /\ OpenHandles(sessions') # {} \/ ~slotKnown
          /\ UNCHANGED <<at, mutex>>
    /\ UNCHANGED <<libVars, inFlight, snapVars, opened, wire, cached, agentVars>>

C_CloseAllSessions(t) ==
    /\ Enter(t)
    /\ Closed(Handles)
    /\ IF slotKnown THEN Holds(t, "closeAll", 0) ELSE UNCHANGED <<at, mutex>>
    /\ UNCHANGED <<libVars, inFlight, snapVars, opened, wire, cached, agentVars>>

C_Logout(t, h) ==
    /\ Enter(t) /\ isOpen(h)
    /\ \/ /\ slotKnown
          /\ Holds(t, "logout", h)
          /\ UNCHANGED <<login, keys>>
       \/ /\ ~slotKnown
          /\ login' = EndedLogin(login) /\ keys' = {}
          /\ UNCHANGED <<at, mutex>>
    /\ UNCHANGED <<libVars, inFlight, snapVars, sessions, opened, wire, cached, agentVars>>

\* C_GetAttributeValue or C_FindObjectsInit for a certificate not read before.
certDerOf(t, h) ==
    /\ Enter(t) /\ isOpen(h) /\ tokenPresent
    /\ Holds(t, "attribute", h)
    /\ UNCHANGED <<libVars, inFlight, snapVars, stateVars, wire, cached, agentVars>>

\* The connection is free: the agent answers, or is lost with its leases,
\* the call does the rest and the lock is released.
heldCall(t) ==
    LET a == at[t] IN
    /\ a.pc = "held" /\ wire = NoOne
    /\ \/ leases' = IF a.fn = "attribute" THEN leases ELSE leases \ {CardAt(epoch)}
       \/ leases' = {}
    /\ IF a.fn = "logout" THEN login' = EndedLogin(login) /\ keys' = {} ELSE UNCHANGED <<login, keys>>
    /\ mutex' = NoOne /\ Returns(t)
    /\ UNCHANGED <<libVars, inFlight, snapVars, sessions, opened, wire, cached, epoch>>

\* C_DestroyObject on a derived key.
C_DestroyObject(t, k) ==
    /\ Enter(t) /\ k \in keys
    /\ keys' = keys \ {k}
    /\ UNCHANGED <<libVars, mutex, inFlight, snapVars, sessions, opened, login, wire, cached, at, agentVars>>

-----------------------------------------------------------------------------
(* The agent and the clock.                                                *)

ChangeCard ==
    /\ epoch < MaxEpoch /\ epoch' = epoch + 1
    /\ leases' = leases \ {CardAt(epoch)}
    /\ UNCHANGED <<libVars, mutex, inFlight, snapVars, stateVars, wire, cached, at>>

LeaseExpires ==
    /\ \E c \in leases : leases' = leases \ {c}
    /\ UNCHANGED <<libVars, mutex, inFlight, snapVars, stateVars, wire, cached, at, epoch>>

CheckInterval ==
    /\ login.in /\ login.checked
    /\ login' = [login EXCEPT !.checked = FALSE]
    /\ UNCHANGED <<libVars, mutex, inFlight, snapVars, sessions, opened, keys, wire, cached, at, agentVars>>

-----------------------------------------------------------------------------

\* What a thread does in a call it has begun.
Proceed(t) ==
    \/ Drained(t) \/ snapshot(t) \/ readState(t) \/ unguard(t) \/ publish(t)
    \/ loginActive(t) \/ answered(t) \/ applyAnswer(t)
    \/ takeWire(t) \/ answerCall(t) \/ recordLogin(t) \/ recordUse(t) \/ recordKey(t)
    \/ dropLoginOnLapsedLease(t) \/ drop(t) \/ heldCall(t)

\* What a thread may call.
Begin(t) ==
    \/ C_Initialize(t) \/ C_Finalize(t)
    \/ C_GetSlotList(t) \/ C_GetSlotInfo(t) \/ C_GetTokenInfo(t) \/ C_GetMechanismList(t) \/ C_GetMechanismInfo(t)
    \/ C_OpenSession(t)
    \/ \E h \in Handles :
         \/ C_GetSessionInfo(t, h) \/ C_CloseSession(t, h)
         \/ \E fn \in Interactive : Interact(t, fn, h)
         \/ \E fn \in Cursors : BeginUse(t, fn, h)
         \/ C_Logout(t, h) \/ certDerOf(t, h)
    \/ C_CloseAllSessions(t)
    \/ \E k \in keys : C_DestroyObject(t, k)

Next ==
    \/ \E t \in Threads : Proceed(t) \/ Begin(t)
    \/ ChangeCard \/ LeaseExpires \/ CheckInterval

Spec == Init /\ [][Next]_vars

\* A thread inside a call keeps running, and gets a lock it waits for that is
\* free again and again; every call to the agent ends, with an answer or by
\* the client's deadline.
LiveSpec == Spec /\ \A t \in Threads : SF_vars(Proceed(t))
-----------------------------------------------------------------------------
(* What the code promises.                                                 *)

\* Inside a call that is counted in g_rpcInFlight.
Guarded(t) == at[t].pc \in {"snap", "reading", "unguard", "ask", "asking", "apply", "call", "calling",
                            "record", "lapse", "drop"}

\* C_Finalize never destroys the library, and with it the client, under a
\* thread that is inside a call to the agent: the drain of g_rpcInFlight.
LibraryOutlivesItsCalls == \A t \in Threads : Guarded(t) \/ at[t].pc = "held" => lib = at[t].lib

\* At most one interactive call is out for a session, from rpcInFlight's check
\* to the guard's end, also when the session is closed and others opened
\* meanwhile.
OneCallPerSession ==
    \A t, u \in Threads :
        t # u /\ Guarded(t) /\ Guarded(u) /\ {at[t].fn, at[u].fn} \subseteq Interactive => at[t].h # at[u].h

\* A call that waits for the agent without the global lock keeps the library
\* and, if it is interactive, the session to itself.
CallsKeepTheirGround == LibraryOutlivesItsCalls /\ OneCallPerSession

\* A derived key is there only with the login, the card it was derived with
\* and the session that made it: closeSession, endLogin, setModel and the
\* second look of C_DeriveKey together.
KeysEndWithLoginAndCard ==
    \A k \in keys : login.in /\ CardAt(shown) = k.card /\ sessions[k.creator].open

\* A slot without sessions is logged out, also when the last session is
\* closed while a login waits for its PIN.
LoginNeedsASession == login.in => OpenHandles(sessions) # {}

\* Nothing outlives what it was made under: a key its login, card and session,
\* a login the last session, with the lock released in between.
LoginScope == KeysEndWithLoginAndCard /\ LoginNeedsASession

\* The agent's answer to C_GetSessionInfo ends no login that was made after
\* the question.
LaterLoginStays ==
    \A t \in Threads :
        at[t].pc = "apply" /\ at'[t].pc = "drop" /\ login.generation > at[t].generation => login' = login
AnswerEndsNoLaterLogin == [][LaterLoginStays]_vars

\* Every call returns, C_Finalize included, whatever the others do.
EveryCallReturns == \A t \in Threads : []<>(at[t].pc = "idle")
=============================================================================
