------------------------ MODULE Pkcs11ModuleProofs --------------------------
(***************************************************************************)
(* The PKCS#11 module keeps library, sessions, logins and derived keys     *)
(* together across the calls it waits for with the global lock released,   *)
(* for any number of threads, sessions, cards and logins.                  *)
(***************************************************************************)
EXTENDS Pkcs11Module, FiniteSetTheorems, TLAPS

\* A call that is interactive has its session to itself.
InCall(t) == Guarded(t) /\ at[t].fn \in Interactive

\* A login that can still be recorded.
LoggingIn(t) == at[t].fn \in {"login", "reauth"} /\ at[t].pc \in {"call", "calling", "record"}

\* g_rpcInFlight counts the calls that are out.
Counted == inFlight = Cardinality({t \in Threads : Guarded(t)})

\* The bound on logins covers those under way.
Budget == login.generation + Cardinality({t \in Threads : LoggingIn(t)}) <= MaxLogins

\* A thread that is out belongs to the library of the moment, and one that
\* talks to the agent under the global lock has the lock.
Belongs == \A t \in Threads : Guarded(t) \/ at[t].pc = "held" => lib = at[t].lib /\ lib # 0
Locked == \A t \in Threads : at[t].pc = "held" => mutex = t

\* Handles are given out once per library: a session closed under a call is
\* not opened again, and an open one is marked busy.
Marked ==
    \A t \in Threads : InCall(t) =>
        /\ at[t].h \in 1..opened
        /\ sessions[at[t].h].open => sessions[at[t].h].busy
GivenOut == \A h \in Handles : sessions[h].open => h <= opened

\* A derivation goes out for a card.
HasCard == \A t \in Threads : InCall(t) /\ at[t].fn = "derive" /\ at[t].pc # "drop" => at[t].card # 0

Ground == Belongs /\ Locked /\ Marked /\ GivenOut /\ OneCallPerSession

IInv == TypeOK /\ Counted /\ Budget /\ HasCard /\ Ground /\ LoginScope

-----------------------------------------------------------------------------
(* Types.                                                                  *)

\* The constants, as the proofs use them.
LEMMA Constants ==
    /\ NoOne \notin Threads /\ IsFiniteSet(Threads) /\ Cursors \subseteq {"sign", "decrypt"}
    /\ MaxHandles \in Nat /\ MaxEpoch \in Nat /\ MaxLogins \in Nat /\ MaxSnaps \in Nat /\ MaxLibs \in Nat
    /\ MaxEpoch > 0
BY ModuleAssumption

\* An epoch shows one of the cards or none.
LEMMA CardType ==
    /\ \A v \in Views : CardAt(v) # 0 => CardAt(v) \in Cards
    /\ \A v \in Views : CardAt(v) \in 0..MaxEpoch
    /\ 0 \notin Cards /\ Cards \subseteq 0..MaxEpoch
    /\ NoView \in Views /\ CardAt(NoView) = 0 /\ 0..MaxEpoch \subseteq Views
BY Constants DEF Views, NoView, CardAt, Cards

\* The empty session and login have their types.
LEMMA EmptyTypes == NoSession \in Session /\ NoLogin \in Login
BY Constants DEF NoSession, Session, NoLogin, Login

\* The names of steps and functions, once.
LEMMA Names ==
    /\ {"idle", "snap", "ask", "call", "drop", "held", "drain"} \subseteq Steps
    /\ {"none", "list", "open", "info", "close", "closeAll", "logout", "attribute", "finalize"} \subseteq FunctionNames
    /\ Interactive \subseteq FunctionNames
BY Zenon DEF Steps, FunctionNames

\* What a call begins with.
LEMMA Beginnings ==
    ASSUME NEW fn \in FunctionNames, NEW h \in 0..MaxHandles, NEW l \in 0..MaxLibs, NEW pc \in Steps
    PROVE  CallTo(fn, h, l, pc) \in Call
BY Constants, CardType DEF CallTo, Call

\* A call that has begun keeps its type when it notes a number.
LEMMA BeginningsWith ==
    ASSUME NEW fn \in FunctionNames, NEW h \in 0..MaxHandles, NEW l \in 0..MaxLibs, NEW pc \in Steps
    PROVE  /\ \A n \in 0..MaxSnaps : [CallTo(fn, h, l, pc) EXCEPT !.ticket = n] \in Call
           /\ \A n \in 0..MaxLogins : [CallTo(fn, h, l, pc) EXCEPT !.generation = n] \in Call
           /\ \A n \in 0..MaxEpoch : [CallTo(fn, h, l, pc) EXCEPT !.card = n] \in Call
BY Zenon, Beginnings DEF CallTo, Call

\* Every step leaves every thread in a call.
LEMMA CallType ==
    ASSUME TypeOK, Next
    PROVE  at' \in [Threads -> Call]
<1>0. /\ at \in [Threads -> Call] /\ shown \in Views /\ cached \in Views /\ epoch \in Views
      /\ lib \in 0..MaxLibs /\ login.generation \in 0..MaxLogins
      /\ started \in 0..MaxSnaps /\ MaxSnaps \in Nat /\ MaxHandles \in Nat
  BY Constants, CardType DEF TypeOK, StateOK, CountsOK, Login
<1>a. NoCall \in Call
  BY Constants, Beginnings, Names DEF NoCall
<1>b. ASSUME NEW t \in Threads, Leaves(t)
      PROVE  at' \in [Threads -> Call]
  <2>1. CallTo(at[t].fn, at[t].h, at[t].lib, "drop") \in Call
    BY Zenon, <1>0, Beginnings, Names DEF Call
  <2> QED
    BY Zenon, <1>0, <1>b, <2>1 DEF Leaves
<1>c. ASSUME NEW t \in Threads, NEW fn \in {"close", "closeAll", "logout", "attribute"}, NEW h \in 0..MaxHandles,
             Holds(t, fn, h)
      PROVE  at' \in [Threads -> Call]
  <2>1. CallTo(fn, h, lib, "held") \in Call
    BY Zenon, <1>0, Beginnings, Names
  <2> QED
    BY Zenon, <1>0, <1>c, <2>1 DEF Holds
<1>1. ASSUME NEW t \in Threads, C_Initialize(t)
      PROVE  at' \in [Threads -> Call]
  BY Zenon, <1>0, <1>1 DEF C_Initialize
<1>2. ASSUME NEW t \in Threads, C_Finalize(t)
      PROVE  at' \in [Threads -> Call]
  <2>1. CallTo("finalize", 0, 0, "drain") \in Call
    BY Constants, Beginnings, Names
  <2> QED
    BY Zenon, <1>0, <1>2, <1>a, <2>1 DEF C_Finalize, Finalized, Returns
<1>3. ASSUME NEW t \in Threads, Drained(t)
      PROVE  at' \in [Threads -> Call]
  BY Zenon, <1>0, <1>3, <1>a DEF Drained, Returns
<1>4. ASSUME NEW t \in Threads, NEW fn \in {"list", "open"}, refreshModel(t, fn)
      PROVE  at' \in [Threads -> Call]
  <2>2. started + 1 \in 0..MaxSnaps
    BY <1>0, <1>4 DEF refreshModel
  <2>3. fn \in FunctionNames /\ "snap" \in Steps /\ 0 \in 0..MaxHandles
    BY <1>0, Names
  <2>1. [CallTo(fn, 0, lib, "snap") EXCEPT !.ticket = started + 1] \in Call
    BY Zenon, <1>0, <2>2, <2>3, BeginningsWith
  <2> QED
    BY Zenon, <1>0, <1>4, <2>1 DEF refreshModel
<1>5. ASSUME NEW t \in Threads, snapshot(t)
      PROVE  at' \in [Threads -> Call]
  BY <1>0, <1>5 DEF snapshot, Goes, Call, Steps
<1>6. ASSUME NEW t \in Threads, readState(t)
      PROVE  at' \in [Threads -> Call]
  BY <1>0, <1>6 DEF readState, Call, Steps
<1>7. ASSUME NEW t \in Threads, unguard(t)
      PROVE  at' \in [Threads -> Call]
  BY <1>0, <1>7 DEF unguard, Goes, Call, Steps
<1>8. ASSUME NEW t \in Threads, publish(t)
      PROVE  at' \in [Threads -> Call]
  BY Zenon, <1>0, <1>8, <1>a DEF publish, Returns
<1>9. ASSUME NEW t \in Threads, loginActive(t)
      PROVE  at' \in [Threads -> Call]
  BY <1>0, <1>9 DEF loginActive, Goes, Call, Steps
<1>10. ASSUME NEW t \in Threads, answered(t)
       PROVE  at' \in [Threads -> Call]
  BY <1>0, <1>10 DEF answered, Answer, Call, Steps
<1>11. ASSUME NEW t \in Threads, applyAnswer(t)
       PROVE  at' \in [Threads -> Call]
  BY Zenon, <1>0, <1>11, <1>b DEF applyAnswer
<1>12. ASSUME NEW t \in Threads, takeWire(t)
       PROVE  at' \in [Threads -> Call]
  BY <1>0, <1>12 DEF takeWire, Goes, Call, Steps
<1>13. ASSUME NEW t \in Threads, answerCall(t)
       PROVE  at' \in [Threads -> Call]
  BY <1>0, <1>13 DEF answerCall, Answer, Call, Steps
<1>14. ASSUME NEW t \in Threads, recordLogin(t)
       PROVE  at' \in [Threads -> Call]
  BY Zenon, <1>0, <1>14, <1>b DEF recordLogin
<1>15. ASSUME NEW t \in Threads, recordUse(t)
       PROVE  at' \in [Threads -> Call]
  <2>1. Goes(t, "lapse") => at' \in [Threads -> Call]
    BY <1>0 DEF Goes, Call, Steps
  <2> QED
    BY Zenon, <1>b, <1>15, <2>1 DEF recordUse
<1>16. ASSUME NEW t \in Threads, recordKey(t)
       PROVE  at' \in [Threads -> Call]
  <2>1. Goes(t, "lapse") => at' \in [Threads -> Call]
    BY <1>0 DEF Goes, Call, Steps
  <2> QED
    BY Zenon, <1>b, <1>16, <2>1 DEF recordKey
<1>17. ASSUME NEW t \in Threads, dropLoginOnLapsedLease(t)
       PROVE  at' \in [Threads -> Call]
  BY Zenon, <1>0, <1>17, <1>b DEF dropLoginOnLapsedLease
<1>18. ASSUME NEW t \in Threads, drop(t)
       PROVE  at' \in [Threads -> Call]
  BY Zenon, <1>0, <1>18, <1>a DEF drop, Returns
<1>19. ASSUME NEW t \in Threads, heldCall(t)
       PROVE  at' \in [Threads -> Call]
  BY Zenon, <1>0, <1>19, <1>a DEF heldCall, Returns
<1>20. ASSUME NEW t \in Threads, NEW h \in Handles, C_GetSessionInfo(t, h)
       PROVE  at' \in [Threads -> Call]
  <2>1. [CallTo("info", h, lib, "ask") EXCEPT !.generation = login.generation] \in Call
    BY <1>0, BeginningsWith, Names, Constants DEF Handles
  <2> QED
    BY Zenon, <1>0, <1>20, <2>1 DEF C_GetSessionInfo
<1>21. ASSUME NEW t \in Threads, NEW h \in Handles, C_CloseSession(t, h)
       PROVE  at' \in [Threads -> Call]
  BY <1>0, <1>21, <1>c DEF C_CloseSession, Handles
<1>22. ASSUME NEW t \in Threads, C_CloseAllSessions(t)
       PROVE  at' \in [Threads -> Call]
  BY <1>0, <1>22, <1>c, Constants DEF C_CloseAllSessions
<1>23. ASSUME NEW t \in Threads, NEW h \in Handles, C_Logout(t, h)
       PROVE  at' \in [Threads -> Call]
  BY <1>0, <1>23, <1>c DEF C_Logout, Handles
<1>24. ASSUME NEW t \in Threads, NEW h \in Handles, certDerOf(t, h)
       PROVE  at' \in [Threads -> Call]
  BY <1>0, <1>24, <1>c DEF certDerOf, Handles
<1>25. ASSUME NEW t \in Threads, NEW h \in Handles, NEW fn \in Interactive, Interact(t, fn, h)
       PROVE  at' \in [Threads -> Call]
  <2>1. \A c \in 0..MaxEpoch : [CallTo(fn, h, lib, "call") EXCEPT !.card = c] \in Call
    BY <1>0, BeginningsWith, Names, Constants DEF Handles
  <2>2. fn \in Cursors => sessions[h].cursor[fn] \in 0..MaxEpoch
    BY Zenon DEF TypeOK, StateOK, Session
  <2>3. KeyCard(fn, h) \in 0..MaxEpoch
    BY Zenon, <1>0, <2>2, CardType, Constants DEF KeyCard
  <2> QED
    BY Zenon, <1>0, <1>25, <2>1, <2>3 DEF Interact
<1>26. ASSUME NEW t \in Threads, NEW h \in Handles, NEW fn \in Cursors, BeginUse(t, fn, h)
       PROVE  at' \in [Threads -> Call]
  BY Zenon, <1>0, <1>26 DEF BeginUse
<1>27. ASSUME NEW t \in Threads, NEW k \in keys, C_DestroyObject(t, k)
       PROVE  at' \in [Threads -> Call]
  BY Zenon, <1>0, <1>27 DEF C_DestroyObject
<1>28. CASE ChangeCard
  BY Zenon, <1>0, <1>28 DEF ChangeCard
<1>29. CASE LeaseExpires
  BY Zenon, <1>0, <1>29 DEF LeaseExpires
<1>30. CASE CheckInterval
  BY Zenon, <1>0, <1>30 DEF CheckInterval
<1> QED
  BY Zenon, <1>1, <1>2, <1>3, <1>4, <1>5, <1>6, <1>7, <1>8, <1>9, <1>10, <1>11, <1>12, <1>13, <1>14,
      <1>15, <1>16, <1>17, <1>18, <1>19, <1>20, <1>21, <1>22, <1>23, <1>24, <1>25, <1>26, <1>27,
      <1>28, <1>29, <1>30
    DEF Next, Proceed, Begin, C_GetSlotList, C_GetSlotInfo, C_GetTokenInfo,
        C_GetMechanismList, C_GetMechanismInfo, C_OpenSession

\* What the module and the agent hold besides calls, sessions and keys.
PlainOK ==
    /\ libs \in 0..MaxLibs /\ lib \in 0..libs
    /\ mutex \in Threads \cup {NoOne} /\ wire \in Threads \cup {NoOne}
    /\ started \in 0..MaxSnaps /\ published \in 0..MaxSnaps /\ shown \in Views /\ cached \in Views
    /\ epoch \in 0..MaxEpoch /\ leases \subseteq Cards

\* Every step keeps these in type.
LEMMA PlainType ==
    ASSUME TypeOK, Next
    PROVE  PlainOK'
<1>0. /\ PlainOK /\ at \in [Threads -> Call]
      /\ MaxSnaps \in Nat /\ MaxEpoch \in Nat /\ MaxLibs \in Nat /\ NoView \in Views /\ 0..MaxEpoch \subseteq Views
  BY Zenon, Constants, CardType DEF TypeOK, StateOK, PlainOK
<1>1. ASSUME NEW t \in Threads,
             C_Initialize(t) \/ C_Finalize(t) \/ Drained(t) \/ snapshot(t) \/ readState(t) \/
             unguard(t)
      PROVE  PlainOK'
  BY <1>0, <1>1 DEF C_Initialize, C_Finalize, Drained, snapshot, readState, unguard, NewState,
      PlainOK, libVars, snapVars, stateVars, agentVars, Finalized
<1>2. ASSUME NEW t \in Threads, NEW fn \in {"list", "open"}, refreshModel(t, fn)
      PROVE  PlainOK'
  BY <1>0, <1>2 DEF refreshModel, PlainOK, libVars, snapVars, stateVars, agentVars
<1>3. ASSUME NEW t \in Threads,
             publish(t) \/ loginActive(t) \/ answered(t) \/ applyAnswer(t) \/ takeWire(t) \/
             recordLogin(t)
      PROVE  PlainOK'
  BY Zenon, <1>0, <1>3 DEF publish, loginActive, answered, applyAnswer, takeWire, recordLogin, SetModel,
      PlainOK, libVars, snapVars, stateVars, agentVars, Call
<1>4. ASSUME NEW t \in Threads, answerCall(t)
      PROVE  PlainOK'
  <2>1. CardAt(epoch) # 0 => CardAt(epoch) \in Cards
    BY Zenon, <1>0, CardType DEF PlainOK
  <2>2. leases' \subseteq Cards /\ wire' \in {wire, NoOne}
    BY Zenon, <1>4, <1>0, <2>1 DEF answerCall, Released, PlainOK
  <2> QED
    BY Zenon, <1>4, <1>0, <2>2 DEF answerCall, PlainOK, libVars, snapVars, stateVars
<1>5. ASSUME NEW t \in Threads,
             recordUse(t) \/ recordKey(t) \/ dropLoginOnLapsedLease(t) \/ drop(t) \/ heldCall(t) \/
             (\E h \in Handles : C_GetSessionInfo(t, h))
      PROVE  PlainOK'
  BY Zenon, <1>0, <1>5 DEF recordUse, recordKey, dropLoginOnLapsedLease, drop, heldCall,
      C_GetSessionInfo, PlainOK, libVars, snapVars, stateVars, agentVars, OneLess
<1>6. ASSUME NEW t \in Threads,
             C_CloseAllSessions(t) \/ (\E h \in Handles : C_CloseSession(t, h) \/ C_Logout(t, h) \/
             certDerOf(t, h))
      PROVE  PlainOK'
  BY Zenon, <1>0, <1>6 DEF C_CloseSession, C_CloseAllSessions, C_Logout, certDerOf, Holds, PlainOK,
      libVars, snapVars, stateVars, agentVars
<1>7. ASSUME NEW t \in Threads, NEW h \in Handles, NEW fn \in Interactive, Interact(t, fn, h)
      PROVE  PlainOK'
  BY Zenon, <1>0, <1>7 DEF Interact, PlainOK, libVars, snapVars, stateVars, agentVars
<1>8. ASSUME NEW t \in Threads, NEW h \in Handles, NEW fn \in Cursors, BeginUse(t, fn, h)
      PROVE  PlainOK'
  BY Zenon, <1>0, <1>8 DEF BeginUse, PlainOK, libVars, snapVars, stateVars, agentVars
<1>9. ASSUME NEW t \in Threads, NEW k \in keys, C_DestroyObject(t, k)
      PROVE  PlainOK'
  BY Zenon, <1>0, <1>9 DEF C_DestroyObject, PlainOK, libVars, snapVars, stateVars, agentVars
<1>10. CASE ChangeCard \/ LeaseExpires \/ CheckInterval
  BY <1>0, <1>10 DEF ChangeCard, LeaseExpires, CheckInterval, PlainOK, libVars, snapVars,
      stateVars, agentVars
<1> QED
  BY Zenon, <1>1, <1>2, <1>3, <1>4, <1>5, <1>6, <1>7, <1>8, <1>9, <1>10
    DEF Next, Proceed, Begin, C_GetSlotList, C_GetSlotInfo, C_GetTokenInfo,
        C_GetMechanismList, C_GetMechanismInfo, C_OpenSession

\* What the methods of SessionState do to one session.
LEMMA SessionEdits ==
    ASSUME NEW s \in Session
    PROVE  /\ [s EXCEPT !.open = TRUE] \in Session
           /\ [s EXCEPT !.busy = TRUE] \in Session /\ [s EXCEPT !.busy = FALSE] \in Session
           /\ \A c \in Cursors, v \in 0..MaxEpoch : [s EXCEPT !.cursor[c] = v] \in Session
<1>1. /\ [s EXCEPT !.open = TRUE] \in Session
      /\ [s EXCEPT !.busy = TRUE] \in Session /\ [s EXCEPT !.busy = FALSE] \in Session
  BY Zenon DEF Session
<1>2. \A c \in Cursors, v \in 0..MaxEpoch : [s EXCEPT !.cursor[c] = v] \in Session
  BY Zenon DEF Session
<1> QED
  BY Zenon, <1>1, <1>2

\* Sessions stay sessions.
LEMMA SessionType ==
    ASSUME TypeOK, Next
    PROVE  sessions' \in [Handles -> Session] /\ opened' \in 0..MaxHandles
<1>0. /\ sessions \in [Handles -> Session] /\ opened \in 0..MaxHandles /\ MaxHandles \in Nat
      /\ at \in [Threads -> Call] /\ NoSession \in Session /\ CardAt(shown) \in 0..MaxEpoch /\ 0 \in 0..MaxEpoch
  BY Zenon, Constants, CardType, EmptyTypes DEF TypeOK, StateOK
<1>1. ASSUME NEW t \in Threads, C_Initialize(t)
      PROVE  sessions' \in [Handles -> Session] /\ opened' \in 0..MaxHandles
  BY <1>0, <1>1, Constants DEF C_Initialize, NewState, Handles
<1>2. ASSUME NEW t \in Threads,
             C_Finalize(t) \/ Drained(t) \/ snapshot(t) \/ readState(t) \/ unguard(t) \/
             loginActive(t)
      PROVE  sessions' \in [Handles -> Session] /\ opened' \in 0..MaxHandles
  BY Zenon, <1>0, <1>2 DEF C_Finalize, Drained, snapshot, readState, unguard, loginActive, stateVars
<1>3. ASSUME NEW t \in Threads, NEW fn \in {"list", "open"}, refreshModel(t, fn)
      PROVE  sessions' \in [Handles -> Session] /\ opened' \in 0..MaxHandles
  BY Zenon, <1>0, <1>3 DEF refreshModel, stateVars
<1>4. ASSUME NEW t \in Threads, publish(t)
      PROVE  sessions' \in [Handles -> Session] /\ opened' \in 0..MaxHandles
  <2>1. CASE UNCHANGED <<opened, sessions>>
    BY Zenon, <1>0, <2>1
  <2>2. CASE opened < MaxHandles /\ opened' = opened + 1 /\ sessions' = [sessions EXCEPT ![opened + 1].open = TRUE]
    <3>1. opened + 1 \in Handles /\ opened' \in 0..MaxHandles
      BY <1>0, <2>2 DEF Handles
    <3> QED
      BY Zenon, <1>0, <2>2, <3>1, SessionEdits
  <2> QED
    BY Zenon, <1>4, <2>1, <2>2 DEF publish
<1>5. ASSUME NEW t \in Threads,
             answered(t) \/ applyAnswer(t) \/ takeWire(t) \/ answerCall(t) \/ recordLogin(t) \/
             recordKey(t)
      PROVE  sessions' \in [Handles -> Session] /\ opened' \in 0..MaxHandles
  BY Zenon, <1>0, <1>5 DEF answered, applyAnswer, takeWire, answerCall, recordLogin, recordKey, stateVars
<1>6. ASSUME NEW t \in Threads, recordUse(t)
      PROVE  sessions' \in [Handles -> Session] /\ opened' \in 0..MaxHandles
  <2>1. isOpen(at[t].h) => at[t].h \in Handles
    BY <1>0, Constants DEF isOpen, Handles, Call
  <2>2. at[t].fn \in Cursors => [sessions[at[t].h] EXCEPT !.cursor[at[t].fn] = 0] \in Session \/ at[t].h \notin Handles
    BY Zenon, <1>0, SessionEdits
  <2> QED
    BY Zenon, <1>0, <1>6, <2>1, <2>2 DEF recordUse, stateVars
<1>7. ASSUME NEW t \in Threads,
             dropLoginOnLapsedLease(t) \/ heldCall(t) \/ C_CloseAllSessions(t) \/ (\E h \in Handles :
             C_GetSessionInfo(t, h) \/ C_CloseSession(t, h) \/ C_Logout(t, h))
      PROVE  sessions' \in [Handles -> Session] /\ opened' \in 0..MaxHandles
  BY Zenon, <1>0, <1>7 DEF dropLoginOnLapsedLease, heldCall, C_GetSessionInfo, C_CloseSession,
      C_CloseAllSessions, C_Logout, stateVars, Closed
<1>8. ASSUME NEW t \in Threads, drop(t)
      PROVE  sessions' \in [Handles -> Session] /\ opened' \in 0..MaxHandles
  BY Zenon, <1>0, <1>8, SessionEdits DEF drop, isOpen, Handles, Call
<1>9. ASSUME NEW t \in Threads, NEW h \in Handles, certDerOf(t, h)
      PROVE  sessions' \in [Handles -> Session] /\ opened' \in 0..MaxHandles
  BY Zenon, <1>0, <1>9 DEF certDerOf, stateVars
<1>10. ASSUME NEW t \in Threads, NEW h \in Handles, NEW fn \in Interactive, Interact(t, fn, h)
       PROVE  sessions' \in [Handles -> Session] /\ opened' \in 0..MaxHandles
  BY Zenon, <1>0, <1>10, SessionEdits DEF Interact
<1>11. ASSUME NEW t \in Threads, NEW h \in Handles, NEW fn \in Cursors, BeginUse(t, fn, h)
       PROVE  sessions' \in [Handles -> Session] /\ opened' \in 0..MaxHandles
  BY Zenon, <1>0, <1>11, SessionEdits DEF BeginUse
<1>12. ASSUME NEW t \in Threads, NEW k \in keys, C_DestroyObject(t, k)
       PROVE  sessions' \in [Handles -> Session] /\ opened' \in 0..MaxHandles
  BY Zenon, <1>0, <1>12 DEF C_DestroyObject, stateVars
<1>13. CASE ChangeCard \/ LeaseExpires \/ CheckInterval
  BY Zenon, <1>0, <1>13 DEF ChangeCard, LeaseExpires, CheckInterval, stateVars
<1> QED
  BY Zenon, <1>1, <1>2, <1>3, <1>4, <1>5, <1>6, <1>7, <1>8, <1>9, <1>10, <1>11, <1>12, <1>13
    DEF Next, Proceed, Begin, C_GetSlotList, C_GetSlotInfo, C_GetTokenInfo,
        C_GetMechanismList, C_GetMechanismInfo, C_OpenSession

\* A key has a session and a card.
LEMMA KeyType ==
    ASSUME TypeOK, HasCard, Next
    PROVE  keys' \subseteq [creator : Handles, card : Cards]
<1> DEFINE Keys == [creator : Handles, card : Cards]
<1>0. /\ keys \subseteq Keys
      /\ at \in [Threads -> Call] /\ shown \in Views
  BY Zenon DEF TypeOK, StateOK
<1>1. ASSUME NEW t \in Threads,
             C_Initialize(t) \/ C_Finalize(t) \/ Drained(t) \/ snapshot(t) \/ readState(t) \/
             unguard(t)
      PROVE  keys' \subseteq [creator : Handles, card : Cards]
  BY Zenon, <1>0, <1>1 DEF C_Initialize, C_Finalize, Drained, snapshot, readState, unguard, NewState,
      stateVars
<1>2. ASSUME NEW t \in Threads, NEW fn \in {"list", "open"}, refreshModel(t, fn)
      PROVE  keys' \subseteq [creator : Handles, card : Cards]
  BY Zenon, <1>0, <1>2 DEF refreshModel, stateVars
<1>3. ASSUME NEW t \in Threads,
             publish(t) \/ loginActive(t) \/ answered(t) \/ applyAnswer(t) \/ takeWire(t) \/
             answerCall(t)
      PROVE  keys' \subseteq [creator : Handles, card : Cards]
  BY Zenon, <1>0, <1>3 DEF publish, loginActive, answered, applyAnswer, takeWire, answerCall, SetModel,
      stateVars
<1>4. ASSUME NEW t \in Threads,
             recordLogin(t) \/ recordUse(t) \/ dropLoginOnLapsedLease(t) \/ drop(t) \/ heldCall(t) \/
             (\E h \in Handles : C_GetSessionInfo(t, h))
      PROVE  keys' \subseteq [creator : Handles, card : Cards]
  BY Zenon, <1>0, <1>4 DEF recordLogin, recordUse, dropLoginOnLapsedLease, drop, heldCall,
      C_GetSessionInfo, stateVars
<1>5. ASSUME NEW t \in Threads, recordKey(t)
      PROVE  keys' \subseteq [creator : Handles, card : Cards]
  <2>1. at[t].h # 0 => at[t].h \in Handles
    BY <1>0, Constants DEF Call, Handles
  <2>2. at[t].answer = "Ok" /\ KeyMayStay(at[t]) => at[t].card \in Cards
    BY Zenon, <1>0, <1>5, CardType DEF recordKey, KeyMayStay, HasCard, InCall, Guarded, Interactive
  <2> QED
    BY <1>0, <1>5, <2>1, <2>2 DEF recordKey, KeyMayStay, isOpen
<1>6. ASSUME NEW t \in Threads,
             C_CloseAllSessions(t) \/ (\E h \in Handles : C_CloseSession(t, h) \/ C_Logout(t, h) \/
             certDerOf(t, h))
      PROVE  keys' \subseteq [creator : Handles, card : Cards]
  BY Zenon, <1>0, <1>6 DEF C_CloseSession, C_CloseAllSessions, C_Logout, certDerOf, Closed, stateVars
<1>7. ASSUME NEW t \in Threads, NEW h \in Handles, NEW fn \in Interactive, Interact(t, fn, h)
      PROVE  keys' \subseteq [creator : Handles, card : Cards]
  BY Zenon, <1>0, <1>7 DEF Interact, stateVars
<1>8. ASSUME NEW t \in Threads, NEW h \in Handles, NEW fn \in Cursors, BeginUse(t, fn, h)
      PROVE  keys' \subseteq [creator : Handles, card : Cards]
  BY Zenon, <1>0, <1>8 DEF BeginUse, stateVars
<1>9. ASSUME NEW t \in Threads, NEW k \in keys, C_DestroyObject(t, k)
      PROVE  keys' \subseteq [creator : Handles, card : Cards]
  BY Zenon, <1>0, <1>9 DEF C_DestroyObject, stateVars
<1>10. CASE ChangeCard \/ LeaseExpires \/ CheckInterval
  BY Zenon, <1>0, <1>10 DEF ChangeCard, LeaseExpires, CheckInterval, stateVars
<1> QED
  BY Zenon, <1>1, <1>2, <1>3, <1>4, <1>5, <1>6, <1>7, <1>8, <1>9, <1>10
    DEF Next, Proceed, Begin, C_GetSlotList, C_GetSlotInfo, C_GetTokenInfo,
        C_GetMechanismList, C_GetMechanismInfo, C_OpenSession

\* Every step keeps the state's types.
LEMMA StateType ==
    ASSUME TypeOK, HasCard, Next
    PROVE  StateOK'
BY Zenon, CallType, PlainType, SessionType, KeyType DEF StateOK, PlainOK

-----------------------------------------------------------------------------
(* What a step does to the threads: it begins a call, carries it on or     *)
(* ends it, seizes the global lock or yields it, or none of these.         *)

Free(t) == ~Guarded(t) /\ at[t].pc # "held"

Begins(t) ==
    /\ Free(t) /\ Guarded(t)' /\ inFlight' = inFlight + 1
    /\ lib # 0 /\ lib' = lib /\ at'[t].lib = lib /\ mutex' = mutex
    /\ at'[t].fn \in Interactive => \E h \in Handles, fn \in Interactive : Interact(t, fn, h)
Carries(t) ==
    /\ Guarded(t) /\ Guarded(t)' /\ inFlight' = inFlight
    /\ lib' = lib /\ at'[t].lib = at[t].lib /\ mutex' = mutex
    /\ at'[t].fn = at[t].fn /\ at'[t].h = at[t].h
    /\ at'[t].pc = "drop" \/ (at'[t].card = at[t].card /\ at[t].pc # "drop")
    /\ LoggingIn(t)' => LoggingIn(t)
Ends(t) ==
    /\ Guarded(t) /\ Free(t)' /\ inFlight' = inFlight - 1
    /\ lib' = lib /\ mutex' = mutex
Seizes(t) ==
    /\ Free(t) /\ at'[t].pc = "held" /\ inFlight' = inFlight
    /\ lib # 0 /\ lib' = lib /\ at'[t].lib = lib /\ mutex = NoOne /\ mutex' = t
Yields(t) ==
    /\ at[t].pc = "held" /\ Free(t)' /\ inFlight' = inFlight
    /\ lib' = lib /\ mutex' = NoOne
Rests(t) ==
    /\ Free(t) /\ Free(t)' /\ inFlight' = inFlight /\ mutex' = mutex
    /\ lib' = lib \/ (mutex = NoOne /\ (lib = 0 \/ inFlight = 0))

Others(t) == \A u \in Threads : u # t => at'[u] = at[u]
Motion(t) == Others(t) /\ (Begins(t) \/ Carries(t) \/ Ends(t) \/ Seizes(t) \/ Yields(t) \/ Rests(t))
Still == UNCHANGED <<at, lib, mutex, inFlight>>

\* Every step is one of these, by one thread, or leaves the calls alone.
LEMMA Moves ==
    ASSUME TypeOK, Next
    PROVE  Still \/ \E u \in Threads : Motion(u)
<1>0. at \in [Threads -> Call]
  BY Zenon DEF TypeOK, StateOK
<1>1. ASSUME NEW t \in Threads,
             C_Initialize(t) \/ snapshot(t)
      PROVE  Still \/ \E u \in Threads : Motion(u)
  BY <1>0, <1>1 DEF C_Initialize, snapshot, Lock, Motion, Others, Rests, Free, Guarded, Goes,
      Carries, LoggingIn, Call, libVars
<1>2. ASSUME NEW t \in Threads, C_Finalize(t)
      PROVE  Still \/ \E u \in Threads : Motion(u)
  <2>1. Others(t) /\ at'[t].pc \in {"idle", "drain"}
    BY <1>0, <1>2 DEF C_Finalize, Finalized, Returns, Others, NoCall, CallTo
  <2> QED
    BY Zenon, <1>2, <2>1 DEF C_Finalize, Finalized, Enter, Lock, Motion, Rests, Free, Guarded
<1>3. ASSUME NEW t \in Threads, Drained(t)
      PROVE  Still \/ \E u \in Threads : Motion(u)
  <2>1. Others(t) /\ at'[t].pc \in {"idle", "drain"}
    BY Zenon, <1>0, <1>3 DEF Drained, Finalized, Returns, Others, NoCall, CallTo
  <2> QED
    BY Zenon, <1>3, <2>1 DEF Drained, Finalized, Enter, Lock, Motion, Rests, Free, Guarded
<1>4. ASSUME NEW t \in Threads, NEW fn \in {"list", "open"}, refreshModel(t, fn)
      PROVE  Still \/ \E u \in Threads : Motion(u)
  <2>1. Others(t) /\ at'[t].pc = "snap" /\ at'[t].lib = lib /\ at'[t].fn \in {"list", "open"}
    BY Zenon, <1>0, <1>4 DEF refreshModel, Others, CallTo
  <2>2. at'[t].fn \notin Interactive
    BY Zenon, <2>1, Constants DEF Interactive
  <2> QED
    BY Zenon, <1>4, <2>1, <2>2 DEF refreshModel, Enter, Motion, Begins, Free, Guarded, libVars
<1>5. ASSUME NEW t \in Threads,
             readState(t) \/ unguard(t)
      PROVE  Still \/ \E u \in Threads : Motion(u)
  BY <1>0, <1>5 DEF readState, unguard, Motion, Others, Carries, LoggingIn, Guarded, Call,
      libVars, Goes, Ends, Free
<1>6. ASSUME NEW t \in Threads,
             publish(t) \/ loginActive(t)
      PROVE  Still \/ \E u \in Threads : Motion(u)
  BY <1>0, <1>6 DEF publish, loginActive, Returns, NoCall, CallTo, Motion, Others, Rests, Free,
      Guarded, libVars, Goes, Carries, LoggingIn, Call
<1>7. ASSUME NEW t \in Threads,
             answered(t) \/ applyAnswer(t)
      PROVE  Still \/ \E u \in Threads : Motion(u)
  BY <1>0, <1>7 DEF answered, applyAnswer, Answer, Motion, Others, Carries, LoggingIn, Guarded,
      Call, libVars, Leaves, CallTo
<1>8. ASSUME NEW t \in Threads,
             takeWire(t) \/ answerCall(t)
      PROVE  Still \/ \E u \in Threads : Motion(u)
  BY <1>0, <1>8 DEF takeWire, answerCall, Goes, Motion, Others, Carries, LoggingIn, Guarded, Call,
      libVars, Answer
<1>9. ASSUME NEW t \in Threads,
             recordLogin(t) \/ recordUse(t)
      PROVE  Still \/ \E u \in Threads : Motion(u)
  BY <1>0, <1>9 DEF recordLogin, recordUse, Leaves, CallTo, Motion, Others, Carries, LoggingIn,
      Guarded, Call, libVars, Goes
<1>10. ASSUME NEW t \in Threads,
              recordKey(t) \/ dropLoginOnLapsedLease(t)
       PROVE  Still \/ \E u \in Threads : Motion(u)
  BY <1>0, <1>10 DEF recordKey, dropLoginOnLapsedLease, Goes, Leaves, CallTo, Motion, Others,
      Carries, LoggingIn, Guarded, Call, libVars
<1>11. ASSUME NEW t \in Threads,
              drop(t) \/ heldCall(t)
       PROVE  Still \/ \E u \in Threads : Motion(u)
  BY <1>0, <1>11 DEF drop, heldCall, OneLess, Returns, NoCall, CallTo, Motion, Others, Ends, Free,
      Guarded, libVars, Yields
<1>12. ASSUME NEW t \in Threads, NEW h \in Handles, C_GetSessionInfo(t, h)
       PROVE  Still \/ \E u \in Threads : Motion(u)
  <2>1. Others(t) /\ at'[t].pc = "ask" /\ at'[t].lib = lib /\ at'[t].fn = "info"
    BY Zenon, <1>0, <1>12 DEF C_GetSessionInfo, Others, CallTo
  <2>2. at'[t].fn \notin Interactive
    BY Zenon, <2>1, Constants DEF Interactive
  <2> QED
    BY Zenon, <1>12, <2>1, <2>2 DEF C_GetSessionInfo, Enter, Motion, Begins, Free, Guarded, libVars
<1>13. ASSUME NEW t \in Threads, NEW h \in Handles, C_CloseSession(t, h)
       PROVE  Still \/ \E u \in Threads : Motion(u)
  BY <1>0, <1>13 DEF C_CloseSession, Holds, CallTo, Enter, Motion, Others, Seizes, Free, Guarded,
      Still, libVars
<1>14. ASSUME NEW t \in Threads, C_CloseAllSessions(t)
       PROVE  Still \/ \E u \in Threads : Motion(u)
  BY <1>0, <1>14 DEF C_CloseAllSessions, Holds, CallTo, Enter, Motion, Others, Seizes, Free,
      Guarded, Still, libVars
<1>15. ASSUME NEW t \in Threads, NEW h \in Handles, C_Logout(t, h)
       PROVE  Still \/ \E u \in Threads : Motion(u)
  BY <1>0, <1>15 DEF C_Logout, Holds, CallTo, Enter, Motion, Others, Seizes, Free, Guarded, Still,
      libVars
<1>16. ASSUME NEW t \in Threads, NEW h \in Handles, certDerOf(t, h)
       PROVE  Still \/ \E u \in Threads : Motion(u)
  BY Zenon, <1>0, <1>16 DEF certDerOf, Holds, CallTo, Enter, Motion, Others, Seizes, Free, Guarded,
      Still, libVars
<1>17. ASSUME NEW t \in Threads, NEW h \in Handles, NEW fn \in Interactive, Interact(t, fn, h)
       PROVE  Still \/ \E u \in Threads : Motion(u)
  <2>1. Others(t) /\ at'[t].pc = "call" /\ at'[t].lib = lib
    BY Zenon, <1>0, <1>17 DEF Interact, Others, CallTo
  <2> QED
    BY Zenon, <1>17, <2>1 DEF Interact, Enter, Motion, Begins, Free, Guarded, libVars
<1>18. ASSUME NEW t \in Threads, NEW h \in Handles, NEW fn \in Cursors, BeginUse(t, fn, h)
       PROVE  Still \/ \E u \in Threads : Motion(u)
  BY Zenon, <1>0, <1>18 DEF BeginUse, Still, libVars
<1>19. ASSUME NEW t \in Threads, NEW k \in keys, C_DestroyObject(t, k)
       PROVE  Still \/ \E u \in Threads : Motion(u)
  BY Zenon, <1>0, <1>19 DEF C_DestroyObject, Still, libVars
<1>20. CASE ChangeCard \/ LeaseExpires
  BY Zenon, <1>0, <1>20 DEF ChangeCard, LeaseExpires, Still, libVars
<1>21. CASE CheckInterval
  BY Zenon, <1>0, <1>21 DEF CheckInterval, Still, libVars
<1> QED
  BY Zenon, <1>1, <1>2, <1>3, <1>4, <1>5, <1>6, <1>7, <1>8, <1>9, <1>10, <1>11, <1>12, <1>13, <1>14,
      <1>15, <1>16, <1>17, <1>18, <1>19, <1>20, <1>21
    DEF Next, Proceed, Begin, C_GetSlotList, C_GetSlotInfo, C_GetTokenInfo,
        C_GetMechanismList, C_GetMechanismInfo, C_OpenSession

\* A count of zero is an empty set of calls, and no call exceeds the threads.
LEMMA Counting ==
    ASSUME NEW S \in SUBSET Threads
    PROVE  /\ IsFiniteSet(S) /\ Cardinality(S) \in Nat
           /\ Cardinality(S) <= Cardinality(Threads)
           /\ Cardinality(S) = 0 => S = {}
           /\ \A x \in Threads \ S : Cardinality(S \cup {x}) = Cardinality(S) + 1
           /\ \A x \in S : Cardinality(S \ {x}) = Cardinality(S) - 1 /\ Cardinality(S) > 0
<1>1. IsFiniteSet(S) /\ Cardinality(S) <= Cardinality(Threads)
  BY Zenon, Constants, FS_Subset
<1>2. Cardinality(S) \in Nat
  BY Zenon, <1>1, FS_CardinalityType
<1>3. Cardinality(S) = 0 => S = {}
  BY Zenon, <1>1, FS_EmptySet
<1>4. \A x \in Threads \ S : Cardinality(S \cup {x}) = Cardinality(S) + 1
  BY Zenon, <1>1, <1>2, FS_AddElement
<1>5. \A x \in S : Cardinality(S \ {x}) = Cardinality(S) - 1 /\ Cardinality(S) > 0
  <2> SUFFICES ASSUME NEW x \in S PROVE Cardinality(S \ {x}) = Cardinality(S) - 1 /\ Cardinality(S) > 0
    BY Zenon
  <2>1. Cardinality(S \ {x}) = Cardinality(S) - 1
    BY Zenon, <1>1, FS_RemoveElement
  <2> QED
    BY <1>2, <1>3, <2>1
<1> QED
  BY Zenon, <1>1, <1>2, <1>3, <1>4, <1>5

\* The drain of C_Finalize: with the count at zero nobody is out.
LEMMA NobodyOut ==
    ASSUME Counted, inFlight = 0
    PROVE  \A t \in Threads : ~Guarded(t)
<1> DEFINE S == {t \in Threads : Guarded(t)}
<1>1. S \in SUBSET Threads /\ Cardinality(S) = 0
  BY Zenon DEF Counted
<1>2. S = {}
  <2> HIDE DEF S
  <2> QED
    BY Zenon, <1>1, Counting
<1> QED
  BY Zenon, <1>2

\* The count follows the calls.
LEMMA CountStep ==
    ASSUME TypeOK, Counted, Next
    PROVE  Counted' /\ inFlight' \in 0..Cardinality(Threads)
<1> DEFINE S == {t \in Threads : Guarded(t)}
           T == {t \in Threads : Guarded(t)'}
<1>0. S \in SUBSET Threads /\ T \in SUBSET Threads /\ inFlight = Cardinality(S)
  BY Zenon DEF Counted
<1>1. \/ T = S /\ inFlight' = inFlight
      \/ (\E t \in Threads \ S : T = S \cup {t} /\ inFlight' = inFlight + 1)
      \/ (\E t \in S : T = S \ {t} /\ inFlight' = inFlight - 1)
  <2>1. CASE Still
    <3>1. T = S
      BY Zenon, <2>1 DEF Still, Guarded
    <3> QED
      BY Zenon, <2>1, <3>1 DEF Still
  <2>2. ASSUME NEW t \in Threads, Motion(t)
        PROVE  \/ T = S /\ inFlight' = inFlight
               \/ (\E u \in Threads \ S : T = S \cup {u} /\ inFlight' = inFlight + 1)
               \/ (\E u \in S : T = S \ {u} /\ inFlight' = inFlight - 1)
    <3>1. \A u \in Threads : u # t => (u \in T <=> u \in S)
      BY Zenon, <2>2 DEF Motion, Others, Guarded
    <3>2. CASE Begins(t)
      <4>1. t \notin S /\ T = S \cup {t}
        BY Zenon, <3>1, <3>2 DEF Begins, Free
      <4> QED
        BY Zenon, <3>2, <4>1 DEF Begins
    <3>3. CASE Ends(t)
      <4>1. t \in S /\ T = S \ {t}
        BY Zenon, <3>1, <3>3 DEF Ends, Free
      <4> QED
        BY Zenon, <3>3, <4>1 DEF Ends
    <3>4. CASE Carries(t)
      <4>1. T = S
        BY Zenon, <3>1, <3>4 DEF Carries
      <4> QED
        BY Zenon, <3>4, <4>1 DEF Carries
    <3>5. CASE Seizes(t) \/ Yields(t) \/ Rests(t)
      <4>1. T = S
        BY Zenon, <3>1, <3>5 DEF Seizes, Yields, Rests, Free, Guarded
      <4> QED
        BY Zenon, <3>5, <4>1 DEF Seizes, Yields, Rests
    <3> QED
      BY Zenon, <2>2, <3>2, <3>3, <3>4, <3>5 DEF Motion
  <2> QED
    BY Zenon, <2>1, <2>2, Moves
<1>2. inFlight' = Cardinality(T)
  <2> HIDE DEF S, T
  <2> QED
    BY Zenon, <1>0, <1>1, Counting
<1>3. Cardinality(T) \in 0..Cardinality(Threads)
  <2>1. Cardinality(Threads) \in Nat
    BY Zenon, Counting
  <2> HIDE DEF T
  <2> QED
    BY <1>0, <2>1, Counting
<1> QED
  BY Zenon, <1>2, <1>3 DEF Counted

\* The library changes only while nobody is out and nobody holds the lock.
LEMMA BelongingStep ==
    ASSUME Counted, Belongs, Locked, TypeOK, Next
    PROVE  Belongs' /\ Locked'
<1>1. CASE Still
  BY Zenon, <1>1 DEF Still, Belongs, Locked, Guarded
<1>2. ASSUME NEW t \in Threads, Motion(t)
      PROVE  Belongs' /\ Locked'
  <2>0. \A u \in Threads : u # t => at'[u] = at[u]
    BY Zenon, <1>2 DEF Motion, Others
  <2>1. CASE Begins(t) \/ Carries(t) \/ Ends(t)
    BY Zenon, <2>0, <2>1 DEF Begins, Carries, Ends, Free, Belongs, Locked, Guarded
  <2>2. CASE Seizes(t)
    <3>1. \A u \in Threads : at[u].pc # "held"
      BY Zenon, <2>2, Constants DEF Seizes, Locked
    <3> QED
      BY Zenon, <2>0, <2>2, <3>1 DEF Seizes, Free, Belongs, Locked, Guarded
  <2>3. CASE Yields(t)
    <3>1. \A u \in Threads : u # t => at[u].pc # "held"
      BY Zenon, <2>3, Constants DEF Yields, Locked
    <3> QED
      BY Zenon, <2>0, <2>3, <3>1 DEF Yields, Free, Belongs, Locked, Guarded
  <2>4. CASE Rests(t)
    <3>1. CASE lib' = lib
      BY Zenon, <2>0, <2>4, <3>1 DEF Rests, Free, Belongs, Locked, Guarded
    <3>2. CASE mutex = NoOne /\ (lib = 0 \/ inFlight = 0)
      <4>1. \A u \in Threads : Free(u)
        BY Zenon, <3>2, NobodyOut, Constants DEF Locked, Belongs, Free
      <4>2. \A u \in Threads : Free(u)'
        BY Zenon, <2>0, <2>4, <4>1 DEF Rests, Free, Guarded
      <4> QED
        BY Zenon, <4>2 DEF Free, Belongs, Locked
    <3> QED
      BY Zenon, <2>4, <3>1, <3>2 DEF Rests
  <2> QED
    BY Zenon, <1>2, <2>1, <2>2, <2>3, <2>4 DEF Motion
<1> QED
  BY Zenon, <1>1, <1>2, Moves

-----------------------------------------------------------------------------
(* The session of an interactive call.                                     *)

\* A thread in an interactive call was in it before, and went on with it.
Continues(u) ==
    InCall(u)' =>
        /\ InCall(u) /\ at'[u].fn = at[u].fn /\ at'[u].h = at[u].h
        /\ at'[u].pc = "drop" \/ (at'[u].card = at[u].card /\ at[u].pc # "drop")
        /\ LoggingIn(u)' => LoggingIn(u)

\* Only an interactive call puts a thread into one.
LEMMA Continuing ==
    ASSUME TypeOK, Next
    PROVE  \/ \A u \in Threads : Continues(u)
           \/ \E t \in Threads, h \in Handles, fn \in Interactive : Interact(t, fn, h)
<1>1. CASE Still
  <2>1. at' = at
    BY Zenon, <1>1 DEF Still
  <2> QED
    BY Zenon, <2>1 DEF Continues, InCall, Guarded, LoggingIn
<1>2. ASSUME NEW t \in Threads, Motion(t),
             ~ \E x \in Threads, h \in Handles, fn \in Interactive : Interact(x, fn, h)
      PROVE  \A u \in Threads : Continues(u)
  <2>1. \A u \in Threads : u # t => Continues(u)
    BY Zenon, <1>2 DEF Motion, Others, Continues, InCall, Guarded, LoggingIn
  <2>2. CASE Begins(t) \/ Ends(t) \/ Seizes(t) \/ Yields(t) \/ Rests(t)
    <3>1. ~InCall(t)'
      BY Zenon, <1>2, <2>2 DEF Begins, Ends, Seizes, Yields, Rests, Free, InCall, Guarded
    <3> QED
      BY Zenon, <2>1, <3>1 DEF Continues
  <2>3. CASE Carries(t)
    <3>1. Continues(t)
      BY Zenon, <2>3 DEF Carries, Continues, InCall
    <3> QED
      BY Zenon, <2>1, <3>1
  <2> QED
    BY Zenon, <1>2, <2>2, <2>3 DEF Motion
<1> QED
  BY Zenon, <1>1, <1>2, Moves

\* What an interactive call begins with.
LEMMA Interacting ==
    ASSUME TypeOK, NEW t \in Threads, NEW h \in Handles, NEW fn \in Interactive, Interact(t, fn, h)
    PROVE  /\ Others(t) /\ ~Guarded(t)
           /\ at'[t].pc = "call" /\ at'[t].fn = fn /\ at'[t].h = h /\ at'[t].card = KeyCard(fn, h)
           /\ sessions[h].open /\ ~sessions[h].busy /\ opened' = opened
           /\ sessions'[h].open /\ sessions'[h].busy
           /\ \A x \in Handles : x # h => sessions'[x] = sessions[x]
<1>1. at \in [Threads -> Call] /\ sessions \in [Handles -> Session]
  BY Zenon DEF TypeOK, StateOK
<1>2. Others(t) /\ at'[t].pc = "call" /\ at'[t].fn = fn /\ at'[t].h = h /\ at'[t].card = KeyCard(fn, h)
  BY Zenon, <1>1 DEF Interact, Others, CallTo
<1>3. ~Guarded(t) /\ sessions[h].open /\ ~sessions[h].busy /\ opened' = opened
  BY Zenon DEF Interact, Enter, isOpen, NotBusy, Guarded
<1>4. sessions' = [sessions EXCEPT ![h].busy = TRUE]
  BY Zenon DEF Interact
<1>5. sessions'[h].busy /\ sessions'[h].open /\ \A x \in Handles : x # h => sessions'[x] = sessions[x]
  BY Zenon, <1>1, <1>3, <1>4 DEF Session
<1> QED
  BY Zenon, <1>2, <1>3, <1>5

\* A derivation goes out with a card.
LEMMA HasCardStep ==
    ASSUME TypeOK, HasCard, Next
    PROVE  HasCard'
<1>1. CASE \A u \in Threads : Continues(u)
  BY Zenon, <1>1 DEF HasCard, Continues
<1>2. ASSUME NEW t \in Threads, NEW h \in Handles, NEW fn \in Interactive, Interact(t, fn, h)
      PROVE  HasCard'
  <2>1. fn = "derive" => KeyCard(fn, h) # 0
    BY Zenon, <1>2, Constants DEF Interact, Admitted, tokenPresent, KeyCard
  <2>2. \A u \in Threads : u # t => at'[u] = at[u]
    BY Zenon, <1>2, Interacting DEF Others
  <2>3. at'[t].fn = fn /\ at'[t].card = KeyCard(fn, h)
    BY Zenon, <1>2, Interacting
  <2> QED
    BY Zenon, <2>1, <2>2, <2>3 DEF HasCard, InCall, Guarded
<1> QED
  BY Zenon, <1>1, <1>2, Continuing

\* Two threads never meet in a session: the busy mark keeps a second one out
\* while the session is open, and a closed handle is not given out again.
LEMMA OneCallStep ==
    ASSUME TypeOK, Marked, OneCallPerSession, Next
    PROVE  OneCallPerSession'
<1>0. OneCallPerSession <=> \A t, u \in Threads : t # u /\ InCall(t) /\ InCall(u) => at[t].h # at[u].h
  BY Zenon DEF OneCallPerSession, InCall
<1>0a. OneCallPerSession' <=> \A t, u \in Threads : t # u /\ InCall(t)' /\ InCall(u)' => at'[t].h # at'[u].h
  BY Zenon DEF OneCallPerSession, InCall, Guarded
<1>1. CASE \A u \in Threads : Continues(u)
  BY <1>0, <1>0a, <1>1 DEF Continues
<1>2. ASSUME NEW t \in Threads, NEW h \in Handles, NEW fn \in Interactive, Interact(t, fn, h)
      PROVE  OneCallPerSession'
  <2>1. \A u \in Threads : u # t => at'[u] = at[u]
    BY Zenon, <1>2, Interacting DEF Others
  <2>2. \A u \in Threads : u # t => (InCall(u)' <=> InCall(u))
    BY Zenon, <2>1 DEF InCall, Guarded
  <2>3. at'[t].h = h /\ sessions[h].open /\ ~sessions[h].busy
    BY Zenon, <1>2, Interacting
  <2>4. \A u \in Threads : InCall(u) => at[u].h # h
    BY Zenon, <2>3 DEF Marked
  <2> QED
    BY <1>0, <1>0a, <2>1, <2>2, <2>3, <2>4
<1> QED
  BY Zenon, <1>1, <1>2, Continuing

\* What a step may do to the sessions: nothing to one that stays open, or open
\* the next handle, or start anew, or end a call's mark.
Keeps(x) == sessions'[x].open => sessions[x].open /\ (sessions[x].busy => sessions'[x].busy)
Tenure ==
    \/ opened' = opened /\ \A x \in Handles : Keeps(x)
    \/ opened' = opened + 1 /\ \A x \in Handles : x # opened + 1 => Keeps(x)
    \/ lib = 0 /\ \A x \in Handles : ~sessions'[x].open
    \/ \E t \in Threads :
         /\ InCall(t) /\ ~Guarded(t)' /\ Others(t) /\ opened' = opened
         /\ \A x \in Handles : IF x = at[t].h THEN sessions'[x].open => sessions[x].open ELSE Keeps(x)

\* A step does one of these to the sessions.
LEMMA Tenures ==
    ASSUME TypeOK, Next
    PROVE  Tenure
<1>0. at \in [Threads -> Call] /\ sessions \in [Handles -> Session] /\ opened \in 0..MaxHandles
  BY Zenon DEF TypeOK, StateOK
<1>a. UNCHANGED <<sessions, opened>> => Tenure
  BY Zenon DEF Tenure, Keeps
<1>b. ~NoSession.open
  BY Zenon DEF NoSession
<1>1. ASSUME NEW t \in Threads, C_Initialize(t)
      PROVE  Tenure
  <2>1. lib = 0 /\ \A x \in Handles : sessions'[x] = NoSession
    BY Zenon, <1>1 DEF C_Initialize, NewState
  <2> QED
    BY Zenon, <1>b, <2>1 DEF Tenure
<1>2. ASSUME NEW t \in Threads,
             C_Finalize(t) \/ Drained(t) \/ snapshot(t) \/ readState(t) \/ unguard(t) \/
             loginActive(t)
      PROVE  Tenure
  BY Zenon, <1>a, <1>2 DEF C_Finalize, Drained, snapshot, readState, unguard, loginActive, stateVars
<1>3. ASSUME NEW t \in Threads, NEW fn \in {"list", "open"}, refreshModel(t, fn)
      PROVE  Tenure
  BY Zenon, <1>a, <1>3 DEF refreshModel, stateVars
<1>4. ASSUME NEW t \in Threads, publish(t)
      PROVE  Tenure
  <2>1. CASE opened' = opened + 1 /\ sessions' = [sessions EXCEPT ![opened + 1].open = TRUE]
    <3>1. \A x \in Handles : x # opened + 1 => sessions'[x] = sessions[x]
      BY Zenon, <1>0, <2>1
    <3> QED
      BY Zenon, <2>1, <3>1 DEF Tenure, Keeps
  <2> QED
    BY Zenon, <1>4, <1>a, <2>1 DEF publish
<1>5. ASSUME NEW t \in Threads,
             answered(t) \/ applyAnswer(t) \/ takeWire(t) \/ answerCall(t) \/ recordLogin(t) \/
             recordKey(t)
      PROVE  Tenure
  BY Zenon, <1>a, <1>5 DEF answered, applyAnswer, takeWire, answerCall, recordLogin, recordKey, stateVars
<1>6. ASSUME NEW t \in Threads, recordUse(t)
      PROVE  Tenure
  <2>1. CASE sessions' = [sessions EXCEPT ![at[t].h].cursor[at[t].fn] = 0] /\ opened' = opened
    <3>1. \A x \in Handles : sessions'[x].open = sessions[x].open /\ sessions'[x].busy = sessions[x].busy
      BY Zenon, <1>0, <2>1 DEF Session
    <3> QED
      BY Zenon, <2>1, <3>1 DEF Tenure, Keeps
  <2> QED
    BY Zenon, <1>6, <1>a, <2>1 DEF recordUse
<1>7. ASSUME NEW t \in Threads,
             dropLoginOnLapsedLease(t) \/ heldCall(t) \/ (\E h \in Handles : C_GetSessionInfo(t, h)
             \/ C_Logout(t, h) \/ certDerOf(t, h))
      PROVE  Tenure
  BY Zenon, <1>a, <1>7 DEF dropLoginOnLapsedLease, heldCall, C_GetSessionInfo, C_Logout, certDerOf,
      stateVars
<1>8. ASSUME NEW t \in Threads, drop(t)
      PROVE  Tenure
  <2>1. CASE at[t].fn \in Interactive /\ sessions' = [sessions EXCEPT ![at[t].h].busy = FALSE]
    <3>1. InCall(t) /\ ~Guarded(t)' /\ Others(t) /\ opened' = opened
      BY Zenon, <1>0, <1>8, <2>1 DEF drop, InCall, Guarded, Others, Returns, NoCall, CallTo
    <3>2. \A x \in Handles : x # at[t].h => sessions'[x] = sessions[x]
      BY Zenon, <1>0, <2>1
    <3>3. \A x \in Handles : sessions'[x].open = sessions[x].open
      BY Zenon, <1>0, <2>1 DEF Session
    <3> QED
      BY Zenon, <3>1, <3>2, <3>3 DEF Tenure, Keeps
  <2> QED
    BY Zenon, <1>8, <1>a, <2>1 DEF drop
<1>9. ASSUME NEW t \in Threads, NEW h \in Handles, C_CloseSession(t, h)
      PROVE  Tenure
  <2>1. /\ opened' = opened
        /\ \A x \in Handles : sessions'[x] = sessions[x] \/ sessions'[x] = NoSession
    BY Zenon, <1>0, <1>9 DEF C_CloseSession, Closed
  <2> QED
    BY Zenon, <1>b, <2>1 DEF Tenure, Keeps
<1>10. ASSUME NEW t \in Threads, C_CloseAllSessions(t)
       PROVE  Tenure
  <2>1. /\ opened' = opened
        /\ \A x \in Handles : sessions'[x] = sessions[x] \/ sessions'[x] = NoSession
    BY Zenon, <1>0, <1>10 DEF C_CloseAllSessions, Closed
  <2> QED
    BY Zenon, <1>b, <2>1 DEF Tenure, Keeps
<1>11. ASSUME NEW t \in Threads, NEW h \in Handles, NEW fn \in Interactive, Interact(t, fn, h)
       PROVE  Tenure
  <2>1. sessions[h].open /\ sessions'[h].busy /\ opened' = opened
    BY Zenon, <1>11, Interacting
  <2>2. \A x \in Handles : x # h => sessions'[x] = sessions[x]
    BY Zenon, <1>11, Interacting
  <2> QED
    BY Zenon, <2>1, <2>2 DEF Tenure, Keeps
<1>12. ASSUME NEW t \in Threads, NEW h \in Handles, NEW fn \in Cursors, BeginUse(t, fn, h)
       PROVE  Tenure
  <2>1. \A x \in Handles : sessions'[x].open = sessions[x].open /\ sessions'[x].busy = sessions[x].busy
    BY Zenon, <1>0, <1>12 DEF BeginUse, Session
  <2> QED
    BY Zenon, <1>12, <2>1 DEF BeginUse, Tenure, Keeps
<1>13. ASSUME NEW t \in Threads, NEW k \in keys, C_DestroyObject(t, k)
       PROVE  Tenure
  BY Zenon, <1>a, <1>13 DEF C_DestroyObject, stateVars
<1>14. CASE ChangeCard \/ LeaseExpires \/ CheckInterval
  BY Zenon, <1>a, <1>14 DEF ChangeCard, LeaseExpires, CheckInterval, stateVars
<1> QED
  BY <1>1, <1>2, <1>3, <1>4, <1>5, <1>6, <1>7, <1>8, <1>9, <1>10, <1>11, <1>12, <1>13, <1>14
    DEF Next, Proceed, Begin, C_GetSlotList, C_GetSlotInfo, C_GetTokenInfo,
        C_GetMechanismList, C_GetMechanismInfo, C_OpenSession

\* A session in a call stays marked, and handles stay given out.
LEMMA MarkedStep ==
    ASSUME TypeOK, Belongs, Marked, GivenOut, OneCallPerSession, Next
    PROVE  Marked' /\ GivenOut'
<1>0. opened \in Nat /\ opened' \in Nat
  BY Constants, SessionType DEF TypeOK, StateOK
<1>1. GivenOut'
  <2>1. \A x \in Handles : x \in Nat
    BY Constants DEF Handles
  <2> QED
    BY <1>0, <2>1, Tenures DEF Tenure, Keeps, GivenOut
<1>2. ASSUME \A u \in Threads : Continues(u)
      PROVE  Marked'
  <2> SUFFICES ASSUME NEW u \in Threads, InCall(u)'
               PROVE  /\ at'[u].h \in 1..opened'
                      /\ sessions'[at'[u].h].open => sessions'[at'[u].h].busy
    BY Zenon DEF Marked, InCall
  <2>1. InCall(u) /\ at'[u].h = at[u].h /\ at[u].h \in 1..opened /\ lib # 0
    BY Zenon, <1>2 DEF Continues, Marked, Belongs, InCall
  <2>2. at[u].h \in Handles /\ at[u].h # opened + 1
    BY <1>0, <2>1, Constants DEF Handles, TypeOK, StateOK
  <2>3. sessions[at[u].h].open => sessions[at[u].h].busy
    BY Zenon, <2>1 DEF Marked
  <2>4. CASE opened' = opened /\ \A x \in Handles : Keeps(x)
    BY Zenon, <2>1, <2>2, <2>3, <2>4 DEF Keeps
  <2>5. CASE opened' = opened + 1 /\ \A x \in Handles : x # opened + 1 => Keeps(x)
    BY <1>0, <2>1, <2>2, <2>3, <2>5 DEF Keeps
  <2>6. ASSUME NEW t \in Threads,
               InCall(t) /\ ~Guarded(t)' /\ opened' = opened,
               \A x \in Handles : IF x = at[t].h THEN sessions'[x].open => sessions[x].open ELSE Keeps(x)
        PROVE  /\ at'[u].h \in 1..opened'
               /\ sessions'[at'[u].h].open => sessions'[at'[u].h].busy
    <3>1. t # u
      BY Zenon, <2>6 DEF InCall
    <3>2. at[t].h # at[u].h
      BY Zenon, <2>1, <2>6, <3>1 DEF OneCallPerSession, InCall
    <3> QED
      BY Zenon, <2>1, <2>2, <2>3, <2>6, <3>2 DEF Keeps
  <2> QED
    BY Zenon, <2>1, <2>4, <2>5, <2>6, Tenures DEF Tenure
<1>3. ASSUME NEW t \in Threads, NEW h \in Handles, NEW fn \in Interactive, Interact(t, fn, h)
      PROVE  Marked'
  <2>1. /\ at'[t].h = h /\ sessions[h].open /\ opened' = opened
        /\ sessions'[h].open /\ sessions'[h].busy
    BY Zenon, <1>3, Interacting
  <2>2. \A x \in Handles : x # h => sessions'[x] = sessions[x]
    BY Zenon, <1>3, Interacting
  <2>3. \A u \in Threads : u # t => at'[u] = at[u]
    BY Zenon, <1>3, Interacting DEF Others
  <2>4. h \in 1..opened
    BY <1>0, <2>1, Constants DEF GivenOut, Handles
  <2>5. 1..opened \subseteq Handles
    BY <1>0, Constants DEF Handles, TypeOK, StateOK
  <2>6. \A u \in Threads : u # t => (InCall(u)' <=> InCall(u))
    BY Zenon, <2>3 DEF InCall, Guarded
  <2> SUFFICES ASSUME NEW u \in Threads, InCall(u)'
               PROVE  /\ at'[u].h \in 1..opened'
                      /\ sessions'[at'[u].h].open => sessions'[at'[u].h].busy
    BY Zenon DEF Marked, InCall
  <2>7. CASE u = t
    BY Zenon, <2>1, <2>4, <2>7
  <2>8. CASE u # t
    <3>1. /\ at'[u].h = at[u].h /\ at[u].h \in 1..opened
          /\ sessions[at[u].h].open => sessions[at[u].h].busy
      BY Zenon, <2>3, <2>6, <2>8 DEF Marked
    <3> QED
      BY Zenon, <2>1, <2>2, <2>5, <3>1
  <2> QED
    BY Zenon, <2>7, <2>8
<1> QED
  BY Zenon, <1>1, <1>2, <1>3, Continuing

-----------------------------------------------------------------------------
(* Logins.                                                                 *)

\* A login is recorded by a thread that waited for it; no other step makes one.
Recorded(t) ==
    /\ LoggingIn(t) /\ ~LoggingIn(t)'
    /\ login' = [in |-> TRUE, generation |-> login.generation + 1, checked |-> TRUE]
NotRecorded == login' \in Login /\ login'.generation <= login.generation

\* A step records a login or none.
LEMMA Logins ==
    ASSUME TypeOK, Next
    PROVE  NotRecorded \/ \E u \in Threads : Recorded(u)
<1>0. at \in [Threads -> Call] /\ login \in Login /\ login.generation \in Nat /\ NoLogin \in Login
  BY Constants, EmptyTypes DEF TypeOK, StateOK, CountsOK, Login
<1>a. login' = login => NotRecorded
  BY <1>0 DEF NotRecorded
<1>b. login' = EndedLogin(login) => NotRecorded
  <2> SUFFICES ASSUME login' = EndedLogin(login) PROVE NotRecorded
    BY Zenon
  <2>1. login' \in Login /\ login'.generation = login.generation
    BY Zenon, <1>0 DEF EndedLogin, Login
  <2> QED
    BY <1>0, <2>1 DEF NotRecorded
<1>c. ASSUME NEW b \in BOOLEAN, login' = [login EXCEPT !.checked = b]
      PROVE  NotRecorded
  <2>1. login' \in Login /\ login'.generation = login.generation
    BY Zenon, <1>0, <1>c DEF Login
  <2> QED
    BY <1>0, <2>1 DEF NotRecorded
<1>1. ASSUME NEW t \in Threads, C_Initialize(t)
      PROVE  NotRecorded \/ \E u \in Threads : Recorded(u)
  <2>1. login' = NoLogin /\ NoLogin.generation = 0
    BY Zenon, <1>1 DEF C_Initialize, NewState, NoLogin
  <2> QED
    BY <1>0, <2>1 DEF NotRecorded
<1>2. ASSUME NEW t \in Threads,
             C_Finalize(t) \/ Drained(t) \/ snapshot(t) \/ readState(t) \/ unguard(t) \/
             loginActive(t)
      PROVE  NotRecorded \/ \E u \in Threads : Recorded(u)
  BY Zenon, <1>2, <1>a DEF C_Finalize, Drained, snapshot, readState, unguard, loginActive, stateVars
<1>3. ASSUME NEW t \in Threads, NEW fn \in {"list", "open"}, refreshModel(t, fn)
      PROVE  NotRecorded \/ \E u \in Threads : Recorded(u)
  BY Zenon, <1>3, <1>a DEF refreshModel, stateVars
<1>4. ASSUME NEW t \in Threads,
             publish(t) \/ applyAnswer(t) \/ dropLoginOnLapsedLease(t) \/ heldCall(t) \/ (\E h \in
             Handles : C_Logout(t, h))
      PROVE  NotRecorded \/ \E u \in Threads : Recorded(u)
  BY Zenon, <1>4, <1>a, <1>b DEF publish, applyAnswer, dropLoginOnLapsedLease, heldCall, C_Logout, SetModel
<1>5. ASSUME NEW t \in Threads,
             answered(t) \/ takeWire(t) \/ answerCall(t) \/ recordUse(t) \/ recordKey(t) \/ drop(t)
      PROVE  NotRecorded \/ \E u \in Threads : Recorded(u)
  BY Zenon, <1>5, <1>a DEF answered, takeWire, answerCall, recordUse, recordKey, drop, stateVars
<1>6. ASSUME NEW t \in Threads, recordLogin(t)
      PROVE  NotRecorded \/ \E u \in Threads : Recorded(u)
  <2>1. LoggingIn(t) /\ ~LoggingIn(t)'
    BY Zenon, <1>0, <1>6 DEF recordLogin, LoggingIn, Leaves, CallTo
  <2> QED
    BY Zenon, <1>6, <1>a, <2>1 DEF recordLogin, Recorded
<1>7. ASSUME NEW t \in Threads, NEW h \in Handles, C_GetSessionInfo(t, h)
      PROVE  NotRecorded \/ \E u \in Threads : Recorded(u)
  BY Zenon, <1>7, <1>c DEF C_GetSessionInfo
<1>8. ASSUME NEW t \in Threads,
             C_CloseAllSessions(t) \/ (\E h \in Handles : C_CloseSession(t, h))
      PROVE  NotRecorded \/ \E u \in Threads : Recorded(u)
  BY Zenon, <1>8, <1>a, <1>b DEF C_CloseSession, C_CloseAllSessions, Closed
<1>9. ASSUME NEW t \in Threads, NEW h \in Handles, certDerOf(t, h)
      PROVE  NotRecorded \/ \E u \in Threads : Recorded(u)
  BY Zenon, <1>9, <1>a DEF certDerOf, stateVars
<1>10. ASSUME NEW t \in Threads, NEW h \in Handles, NEW fn \in Interactive, Interact(t, fn, h)
       PROVE  NotRecorded \/ \E u \in Threads : Recorded(u)
  BY Zenon, <1>10, <1>a DEF Interact, stateVars
<1>11. ASSUME NEW t \in Threads, NEW h \in Handles, NEW fn \in Cursors, BeginUse(t, fn, h)
       PROVE  NotRecorded \/ \E u \in Threads : Recorded(u)
  BY Zenon, <1>11, <1>a DEF BeginUse, stateVars
<1>12. ASSUME NEW t \in Threads, NEW k \in keys, C_DestroyObject(t, k)
       PROVE  NotRecorded \/ \E u \in Threads : Recorded(u)
  BY Zenon, <1>12, <1>a DEF C_DestroyObject, stateVars
<1>13. CASE ChangeCard \/ LeaseExpires
  BY Zenon, <1>13, <1>a DEF ChangeCard, LeaseExpires, stateVars
<1>14. CASE CheckInterval
  BY Zenon, <1>14, <1>c DEF CheckInterval
<1> QED
  BY <1>1, <1>2, <1>3, <1>4, <1>5, <1>6, <1>7, <1>8, <1>9, <1>10, <1>11, <1>12, <1>13, <1>14
    DEF Next, Proceed, Begin, C_GetSlotList, C_GetSlotInfo, C_GetTokenInfo,
        C_GetMechanismList, C_GetMechanismInfo, C_OpenSession

\* The bound on logins is kept, those that wait for their PIN included.
LEMMA BudgetStep ==
    ASSUME TypeOK, Budget, Next
    PROVE  Budget' /\ login' \in Login
<1> DEFINE S == {t \in Threads : LoggingIn(t)}
           T == {t \in Threads : LoggingIn(t)'}
           F == {t \in Threads : at[t].fn \in {"login", "reauth"}}
<1>0. /\ S \in SUBSET Threads /\ T \in SUBSET Threads /\ F \in SUBSET Threads /\ S \in SUBSET F
      /\ login.generation \in Nat /\ MaxLogins \in Nat /\ login.generation + Cardinality(S) <= MaxLogins
  BY Constants DEF Budget, LoggingIn, TypeOK, CountsOK, Login
<1>1. Budget' <=> login'.generation + Cardinality(T) <= MaxLogins
  BY Zenon DEF Budget, LoggingIn
<1>2. Cardinality(S) \in Nat /\ Cardinality(T) \in Nat /\ Cardinality(F) \in Nat /\ Cardinality(S) <= Cardinality(F)
  <2>1. IsFiniteSet(F)
    BY Zenon, <1>0, Counting
  <2>2. Cardinality(S) <= Cardinality(F)
    <3> HIDE DEF S, F
    <3> QED
      BY Zenon, <1>0, <2>1, FS_Subset
  <2> HIDE DEF S, T, F
  <2> QED
    BY Zenon, <1>0, <2>2, Counting
<1>3. T \subseteq S => Cardinality(T) <= Cardinality(S)
  <2>1. IsFiniteSet(S)
    BY Zenon, <1>0, Counting
  <2> HIDE DEF S, T
  <2> QED
    BY Zenon, <2>1, FS_Subset
<1>4. ASSUME \A u \in Threads : Continues(u)
      PROVE  T \subseteq S
  <2>1. \A u \in Threads : LoggingIn(u)' => InCall(u)'
    BY Zenon DEF LoggingIn, InCall, Guarded, Interactive
  <2> QED
    BY Zenon, <1>4, <2>1 DEF Continues
<1>5. CASE NotRecorded /\ \A u \in Threads : Continues(u)
  <2>1. login'.generation \in Nat /\ login'.generation <= login.generation
    BY <1>5, Constants DEF NotRecorded, Login
  <2>2. Cardinality(T) <= Cardinality(S)
    BY Zenon, <1>3, <1>4, <1>5
  <2> HIDE DEF S, T, F
  <2> QED
    BY <1>0, <1>1, <1>2, <1>5, <2>1, <2>2 DEF NotRecorded
<1>6. ASSUME NEW t \in Threads, Recorded(t), \A u \in Threads : Continues(u)
      PROVE  Budget' /\ login' \in Login
  <2>1. t \in S /\ T \subseteq S \ {t} /\ S \ {t} \in SUBSET Threads
    BY Zenon, <1>4, <1>6 DEF Recorded
  <2>2. Cardinality(S \ {t}) = Cardinality(S) - 1 /\ Cardinality(S) > 0
    <3> HIDE DEF S, T
    <3> QED
      BY Zenon, <1>0, <2>1, Counting
  <2>3. Cardinality(T) <= Cardinality(S \ {t})
    <3>1. IsFiniteSet(S \ {t})
      BY Zenon, <2>1, Counting
    <3> HIDE DEF S, T
    <3> QED
      BY Zenon, <2>1, <3>1, FS_Subset
  <2>4. login'.generation = login.generation + 1 /\ login.generation + 1 <= MaxLogins
    <3> HIDE DEF S, T, F
    <3> QED
      BY <1>0, <1>2, <1>6, <2>2 DEF Recorded
  <2>5. login' \in Login
    BY <1>0, <1>6, <2>4 DEF Recorded, Login
  <2> HIDE DEF S, T, F
  <2> QED
    BY <1>0, <1>1, <1>2, <2>2, <2>3, <2>4, <2>5
<1>7. ASSUME NEW t \in Threads, NEW h \in Handles, NEW fn \in Interactive, Interact(t, fn, h)
      PROVE  Budget' /\ login' \in Login
  <2>1. login' = login
    BY Zenon, <1>7 DEF Interact
  <2>2. \A u \in Threads : u # t => at'[u] = at[u]
    BY Zenon, <1>7, Interacting DEF Others
  <2>3. at'[t].fn = fn /\ ~Guarded(t)
    BY Zenon, <1>7, Interacting
  <2>4. t \notin S
    BY Zenon, <2>3 DEF LoggingIn, Guarded
  <2>5. CASE fn \notin {"login", "reauth"}
    <3>1. T \subseteq S
      BY Zenon, <2>2, <2>3, <2>5 DEF LoggingIn
    <3> QED
      BY <1>0, <1>1, <1>2, <1>3, <2>1, <3>1 DEF TypeOK, CountsOK
  <2>6. CASE fn \in {"login", "reauth"}
    <3>1. T \subseteq S \cup {t} /\ S \cup {t} \in SUBSET Threads
      BY Zenon, <2>2 DEF LoggingIn
    <3>2. login.generation + Cardinality(F) < MaxLogins
      BY Zenon, <1>7, <2>6 DEF Interact, LoginsLeft
    <3>3. Cardinality(S \cup {t}) = Cardinality(S) + 1
      <4> HIDE DEF S
      <4> QED
        BY Zenon, <1>0, <2>4, Counting
    <3>4. Cardinality(T) <= Cardinality(S \cup {t})
      <4>1. IsFiniteSet(S \cup {t})
        BY Zenon, <3>1, Counting
      <4> HIDE DEF S, T
      <4> QED
        BY Zenon, <3>1, <4>1, FS_Subset
    <3>5. login' \in Login
      BY Zenon, <2>1 DEF TypeOK, CountsOK
    <3> HIDE DEF S, T, F
    <3> QED
      BY <1>0, <1>1, <1>2, <2>1, <3>2, <3>3, <3>4, <3>5
  <2> QED
    BY Zenon, <2>5, <2>6
<1> QED
  BY Zenon, <1>5, <1>6, <1>7, Logins, Continuing

-----------------------------------------------------------------------------
(* What keys and logins were made under.                                   *)

\* What most steps do: they keep login and sessions and make no key, or they
\* end the login with its keys.
Keeping ==
    /\ keys' \subseteq keys /\ shown' = shown /\ login'.in = login.in
    /\ \A x \in Handles : sessions'[x].open = sessions[x].open
Clearing == keys' = {} /\ ~login'.in

\* Nothing outlives what it was made under: every step checks again what it looked
\* at before the lock was released.
LEMMA ScopeStep ==
    ASSUME TypeOK, LoginScope, Next
    PROVE  LoginScope'
<1>0. /\ at \in [Threads -> Call] /\ login \in Login /\ shown \in Views
      /\ sessions \in [Handles -> Session] /\ keys \subseteq [creator : Handles, card : Cards]
  BY Zenon DEF TypeOK, StateOK, CountsOK
<1>a. Keeping => LoginScope'
  BY Zenon, <1>0 DEF Keeping, LoginScope, KeysEndWithLoginAndCard, LoginNeedsASession, OpenHandles
<1>b. Clearing => LoginScope'
  BY Zenon DEF Clearing, LoginScope, KeysEndWithLoginAndCard, LoginNeedsASession
<1>c. ~EndedLogin(login).in
  BY Zenon, <1>0 DEF EndedLogin, Login
<1>d. login' = EndedLogin(login) /\ keys' = {} => LoginScope'
  BY Zenon, <1>b, <1>c DEF Clearing
<1>e. UNCHANGED <<sessions, login, keys, shown>> => LoginScope'
  BY Zenon, <1>a DEF Keeping
<1>1. ASSUME NEW t \in Threads, C_Initialize(t)
      PROVE  LoginScope'
  BY Zenon, <1>1, <1>b DEF C_Initialize, NewState, NoLogin, Clearing
<1>2. ASSUME NEW t \in Threads,
             C_Finalize(t) \/ Drained(t) \/ snapshot(t) \/ readState(t) \/ unguard(t) \/
             loginActive(t)
      PROVE  LoginScope'
  BY Zenon, <1>2, <1>e DEF C_Finalize, Drained, snapshot, readState, unguard, loginActive, stateVars,
      snapVars
<1>3. ASSUME NEW t \in Threads, NEW fn \in {"list", "open"}, refreshModel(t, fn)
      PROVE  LoginScope'
  BY Zenon, <1>3, <1>e DEF refreshModel, stateVars, snapVars
<1>4. ASSUME NEW t \in Threads, publish(t)
      PROVE  LoginScope'
  <2>1. \A x \in Handles : sessions[x].open => sessions'[x].open
    BY Zenon, <1>0, <1>4 DEF publish, Session
  <2>2. keys = {} \/ slotKnown
    BY Zenon, CardType DEF slotKnown, LoginScope, KeysEndWithLoginAndCard, TypeOK, StateOK
  <2>3. CASE UNCHANGED <<login, keys>> /\ (keys = {} \/ CardAt(shown') = CardAt(shown))
    <3>1. KeysEndWithLoginAndCard'
      BY Zenon, <1>0, <2>1, <2>3 DEF LoginScope, KeysEndWithLoginAndCard
    <3>2. LoginNeedsASession'
      BY Zenon, <2>1, <2>3 DEF LoginScope, LoginNeedsASession, OpenHandles
    <3> QED
      BY Zenon, <3>1, <3>2 DEF LoginScope
  <2> QED
    BY Zenon, <1>4, <1>d, <2>2, <2>3 DEF publish, SetModel
<1>5. ASSUME NEW t \in Threads,
             answered(t) \/ takeWire(t) \/ answerCall(t) \/ (\E h \in Handles : certDerOf(t, h))
      PROVE  LoginScope'
  BY Zenon, <1>5, <1>e DEF answered, takeWire, answerCall, certDerOf, stateVars, snapVars
<1>6. ASSUME NEW t \in Threads,
             applyAnswer(t) \/ dropLoginOnLapsedLease(t) \/ heldCall(t) \/ (\E h \in Handles :
             C_Logout(t, h))
      PROVE  LoginScope'
  BY Zenon, <1>6, <1>d, <1>e DEF applyAnswer, dropLoginOnLapsedLease, heldCall, C_Logout, snapVars,
      stateVars
<1>7. ASSUME NEW t \in Threads, recordLogin(t)
      PROVE  LoginScope'
  <2>1. CASE login' = [in |-> TRUE, generation |-> login.generation + 1, checked |-> TRUE] /\ StillThere(at[t].h)
    <3>1. at[t].h \in OpenHandles(sessions)
      BY <1>0, <2>1, Constants DEF StillThere, isOpen, OpenHandles, Handles, Call
    <3>2. login'.in /\ UNCHANGED <<sessions, keys, shown>>
      BY Zenon, <1>7, <2>1 DEF recordLogin, snapVars
    <3> QED
      BY Zenon, <3>1, <3>2 DEF LoginScope, KeysEndWithLoginAndCard, LoginNeedsASession
  <2>2. CASE login' = login
    BY Zenon, <1>7, <1>e, <2>2 DEF recordLogin, snapVars
  <2> QED
    BY Zenon, <1>7, <2>1, <2>2 DEF recordLogin
<1>8. ASSUME NEW t \in Threads, recordUse(t)
      PROVE  LoginScope'
  <2>1. \A x \in Handles : sessions'[x].open = sessions[x].open
    BY <1>0, <1>8 DEF recordUse, Session
  <2> QED
    BY Zenon, <1>8, <1>a, <2>1 DEF recordUse, Keeping, snapVars
<1>9. ASSUME NEW t \in Threads, recordKey(t)
      PROVE  LoginScope'
  <2>1. UNCHANGED <<sessions, login, shown>>
    BY Zenon, <1>9 DEF recordKey, snapVars
  <2>2. \A x \in keys' : x \in keys \/ (login.in /\ CardAt(shown) = x.card /\ sessions[x.creator].open)
    BY <1>9 DEF recordKey, KeyMayStay, isOpen
  <2> QED
    BY Zenon, <2>1, <2>2 DEF LoginScope, KeysEndWithLoginAndCard, LoginNeedsASession
<1>10. ASSUME NEW t \in Threads, drop(t)
       PROVE  LoginScope'
  <2>1. \A x \in Handles : sessions'[x].open = sessions[x].open
    BY Zenon, <1>0, <1>10 DEF drop, Session
  <2> QED
    BY Zenon, <1>10, <1>a, <2>1 DEF drop, Keeping, snapVars
<1>11. ASSUME NEW t \in Threads, NEW h \in Handles, C_GetSessionInfo(t, h)
       PROVE  LoginScope'
  <2>1. login'.in = login.in
    BY Zenon, <1>0, <1>11 DEF C_GetSessionInfo, Login
  <2> QED
    BY Zenon, <1>11, <1>a, <2>1 DEF C_GetSessionInfo, Keeping, snapVars
<1>12. ASSUME NEW t \in Threads, NEW h \in Handles, C_CloseSession(t, h)
       PROVE  LoginScope'
  <2>1. CASE OpenHandles(sessions') = {}
    BY Zenon, <1>12, <1>d, <2>1 DEF C_CloseSession, Closed
  <2>2. CASE OpenHandles(sessions') # {}
    <3>1. keys' = {k \in keys : k.creator \notin {h}} /\ login' = login /\ shown' = shown
      BY Zenon, <1>12, <2>2 DEF C_CloseSession, Closed, snapVars
    <3>2. \A x \in Handles : x \notin {h} => sessions'[x] = sessions[x]
      BY Zenon, <1>12 DEF C_CloseSession, Closed
    <3> QED
      BY Zenon, <1>0, <2>2, <3>1, <3>2 DEF LoginScope, KeysEndWithLoginAndCard, LoginNeedsASession
  <2> QED
    BY Zenon, <2>1, <2>2
<1>13. ASSUME NEW t \in Threads, C_CloseAllSessions(t)
       PROVE  LoginScope'
  <2>1. CASE OpenHandles(sessions') = {}
    BY Zenon, <1>13, <1>d, <2>1 DEF C_CloseAllSessions, Closed
  <2>2. CASE OpenHandles(sessions') # {}
    <3>1. keys' = {k \in keys : k.creator \notin Handles} /\ login' = login /\ shown' = shown
      BY Zenon, <1>13, <2>2 DEF C_CloseAllSessions, Closed, snapVars
    <3>2. \A x \in Handles : x \notin Handles => sessions'[x] = sessions[x]
      BY Zenon, <1>13 DEF C_CloseAllSessions, Closed
    <3> QED
      BY Zenon, <1>0, <2>2, <3>1, <3>2 DEF LoginScope, KeysEndWithLoginAndCard, LoginNeedsASession
  <2> QED
    BY Zenon, <2>1, <2>2
<1>14. ASSUME NEW t \in Threads, NEW h \in Handles, NEW fn \in Interactive, Interact(t, fn, h)
       PROVE  LoginScope'
  <2>1. \A x \in Handles : sessions'[x].open = sessions[x].open
    BY Zenon, <1>0, <1>14 DEF Interact, Session
  <2> QED
    BY Zenon, <1>14, <1>a, <2>1 DEF Interact, Keeping, snapVars
<1>15. ASSUME NEW t \in Threads, NEW h \in Handles, NEW fn \in Cursors, BeginUse(t, fn, h)
       PROVE  LoginScope'
  <2>1. \A x \in Handles : sessions'[x].open = sessions[x].open
    BY Zenon, <1>0, <1>15 DEF BeginUse, Session
  <2> QED
    BY Zenon, <1>15, <1>a, <2>1 DEF BeginUse, Keeping, snapVars
<1>16. ASSUME NEW t \in Threads, NEW k \in keys, C_DestroyObject(t, k)
       PROVE  LoginScope'
  BY Zenon, <1>16, <1>a DEF C_DestroyObject, Keeping, snapVars
<1>17. CASE ChangeCard \/ LeaseExpires
  BY Zenon, <1>17, <1>e DEF ChangeCard, LeaseExpires, stateVars, snapVars
<1>18. CASE CheckInterval
  <2>1. login'.in = login.in
    BY Zenon, <1>0, <1>18 DEF CheckInterval, Login
  <2> QED
    BY Zenon, <1>18, <1>a, <2>1 DEF CheckInterval, Keeping, snapVars
<1> QED
  BY <1>1, <1>2, <1>3, <1>4, <1>5, <1>6, <1>7, <1>8, <1>9, <1>10, <1>11, <1>12, <1>13, <1>14,
      <1>15, <1>16, <1>17, <1>18
    DEF Next, Proceed, Begin, C_GetSlotList, C_GetSlotInfo, C_GetTokenInfo,
        C_GetMechanismList, C_GetMechanismInfo, C_OpenSession

-----------------------------------------------------------------------------
(* The invariant.                                                          *)

\* The module starts in the invariant.
LEMMA InitInv == Init => IInv
<1> SUFFICES ASSUME Init PROVE IInv
  BY Zenon
<1>1. NoCall \in Call /\ NoCall.pc = "idle" /\ NoCall.fn = "none"
  <2>1. NoCall \in Call
    BY Constants, Beginnings, Names DEF NoCall
  <2> QED
    BY Zenon, <2>1 DEF NoCall, CallTo
<1>2. \A t \in Threads : at[t].pc = "idle" /\ at[t].fn = "none" /\ ~Guarded(t) /\ ~InCall(t) /\ ~LoggingIn(t)
  BY Zenon, <1>1 DEF Init, Guarded, InCall, LoggingIn
<1>3. Cardinality({}) = 0 /\ Cardinality(Threads) \in Nat
  BY Zenon, FS_EmptySet, Counting
<1>4. TypeOK
  <2>1. StateOK
    <3>1. /\ [h \in Handles |-> NoSession] \in [Handles -> Session]
          /\ [t \in Threads |-> NoCall] \in [Threads -> Call]
      BY Zenon, <1>1, EmptyTypes
    <3>2. /\ 0 \in 0..MaxLibs /\ 0 \in 0..0 /\ 0 \in 0..MaxSnaps /\ 0 \in 0..MaxHandles
          /\ 0 \in 0..MaxEpoch /\ 1 \in 0..MaxEpoch /\ NoView \in Views
      BY Constants, CardType
    <3> QED
      BY Zenon, <3>1, <3>2 DEF Init, StateOK
  <2>2. CountsOK
    BY <1>3, EmptyTypes DEF Init, CountsOK
  <2> QED
    BY Zenon, <2>1, <2>2 DEF TypeOK
<1>5. Counted /\ Budget
  <2>1. {t \in Threads : Guarded(t)} = {} /\ {t \in Threads : LoggingIn(t)} = {}
    BY Zenon, <1>2
  <2>2. inFlight = 0 /\ login.generation = 0
    BY Zenon DEF Init, NoLogin
  <2>3. Cardinality({t \in Threads : Guarded(t)}) = 0 /\ Cardinality({t \in Threads : LoggingIn(t)}) = 0
    BY Zenon, <1>3, <2>1
  <2>4. 0 + 0 <= MaxLogins
    BY Constants
  <2> QED
    BY Zenon, <2>2, <2>3, <2>4 DEF Counted, Budget
<1>6. HasCard /\ Belongs /\ Locked /\ Marked /\ OneCallPerSession
  BY Zenon, <1>2 DEF HasCard, Belongs, Locked, Marked, OneCallPerSession
<1>7. GivenOut /\ LoginScope
  BY Zenon DEF Init, GivenOut, NoSession, LoginScope, KeysEndWithLoginAndCard, LoginNeedsASession, NoLogin
<1> QED
  BY Zenon, <1>4, <1>5, <1>6, <1>7 DEF IInv, Ground

\* Every step keeps the invariant.
LEMMA NextInv == IInv /\ [Next]_vars => IInv'
<1> SUFFICES ASSUME IInv, [Next]_vars PROVE IInv'
  BY Zenon
<1>0. /\ TypeOK /\ Counted /\ Budget /\ HasCard /\ LoginScope
      /\ Belongs /\ Locked /\ Marked /\ GivenOut /\ OneCallPerSession
  BY Zenon DEF IInv, Ground
<1>1. CASE Next
  <2>1. StateOK'
    BY Zenon, <1>0, <1>1, StateType
  <2>2. Counted' /\ inFlight' \in 0..Cardinality(Threads)
    BY Zenon, <1>0, <1>1, CountStep
  <2>3. Budget' /\ login' \in Login
    BY Zenon, <1>0, <1>1, BudgetStep
  <2>4. HasCard' /\ OneCallPerSession'
    BY Zenon, <1>0, <1>1, HasCardStep, OneCallStep
  <2>5. Belongs' /\ Locked' /\ Marked' /\ GivenOut'
    BY Zenon, <1>0, <1>1, BelongingStep, MarkedStep
  <2>6. LoginScope'
    BY Zenon, <1>0, <1>1, ScopeStep
  <2> QED
    BY Zenon, <2>1, <2>2, <2>3, <2>4, <2>5, <2>6 DEF IInv, Ground, TypeOK, CountsOK
<1>2. CASE UNCHANGED vars
  <2>1. /\ UNCHANGED <<lib, libs, mutex, inFlight, started, published, shown, sessions, opened>>
        /\ UNCHANGED <<login, keys, wire, cached, at, epoch, leases>>
    BY Zenon, <1>2 DEF vars, libVars, snapVars, stateVars, agentVars
  <2>2. TypeOK'
    BY Zenon, <1>0, <2>1 DEF TypeOK, StateOK, CountsOK
  <2>3. Counted' /\ Budget' /\ HasCard'
    BY Zenon, <1>0, <2>1 DEF Counted, Budget, HasCard, InCall, LoggingIn, Guarded
  <2>4. Belongs' /\ Locked' /\ Marked' /\ GivenOut' /\ OneCallPerSession'
    BY Zenon, <1>0, <2>1 DEF Belongs, Locked, Marked, GivenOut, OneCallPerSession, InCall, Guarded
  <2>5. LoginScope'
    BY Zenon, <1>0, <2>1 DEF LoginScope, KeysEndWithLoginAndCard, LoginNeedsASession, OpenHandles
  <2> QED
    BY Zenon, <2>2, <2>3, <2>4, <2>5 DEF IInv, Ground
<1> QED
  BY Zenon, <1>1, <1>2

\* The inductive invariant holds throughout, for any number of threads, sessions
\* and cards.
THEOREM Inductive == Spec => []IInv
BY InitInv, NextInv, PTL DEF Spec

\* Every variable keeps its type: in particular g_rpcInFlight neither wraps nor
\* exceeds the threads that are in a call.
THEOREM TypeCorrect == Spec => []TypeOK
<1>1. IInv => TypeOK
  BY Zenon DEF IInv
<1> QED
  BY <1>1, Inductive, PTL

\* For any number of threads and sessions: C_Finalize never frees the library
\* under a thread that waits for the agent, and no two interactive calls share
\* a session, though sessions are closed and opened while they wait.
THEOREM CallsAreSafe == Spec => []CallsKeepTheirGround
<1>1. IInv => CallsKeepTheirGround
  BY Zenon DEF IInv, Ground, Belongs, CallsKeepTheirGround, LibraryOutlivesItsCalls
<1> QED
  BY <1>1, Inductive, PTL

\* For any number of cards and logins: a derived key has its login, its card
\* and its session, and a login a session, also after the lock was released
\* for a call of minutes (closeSession, endLogin, setModel, C_DeriveKey).
THEOREM LoginsAreScoped == Spec => []LoginScope
<1>1. IInv => LoginScope
  BY Zenon DEF IInv
<1> QED
  BY <1>1, Inductive, PTL

-----------------------------------------------------------------------------
(* The answer of the agent about an earlier login.                         *)

\* Only applyAnswer ends a login on the agent's word, and it compares generations.
LEMMA AnswerStep ==
    ASSUME TypeOK, Next
    PROVE  LaterLoginStays
<1>0. at \in [Threads -> Call] /\ login.generation \in Nat
  BY Constants DEF TypeOK, StateOK, CountsOK, Login
<1>a. ASSUME NEW t \in Threads, NEW r, at' = [at EXCEPT ![t] = r], at[t].pc # "apply"
      PROVE  LaterLoginStays
  BY Zenon, <1>0, <1>a DEF LaterLoginStays
<1>b. at' = at => LaterLoginStays
  BY Zenon DEF LaterLoginStays
<1>1. ASSUME NEW t \in Threads, C_Initialize(t)
      PROVE  LaterLoginStays
  BY Zenon, <1>1, <1>b DEF C_Initialize
<1>2. ASSUME NEW t \in Threads,
             C_Finalize(t) \/ Drained(t) \/ unguard(t) \/ publish(t) \/ loginActive(t) \/ takeWire(t)
      PROVE  LaterLoginStays
  BY Zenon, <1>2, <1>a DEF C_Finalize, Drained, unguard, publish, loginActive, takeWire,
      Finalized, Enter, Returns, Goes
<1>3. ASSUME NEW t \in Threads, NEW fn \in {"list", "open"}, refreshModel(t, fn)
      PROVE  LaterLoginStays
  BY Zenon, <1>3, <1>a DEF refreshModel, Enter
<1>4. ASSUME NEW t \in Threads,
             snapshot(t) \/ readState(t) \/ answered(t) \/ answerCall(t)
      PROVE  LaterLoginStays
  BY <1>4, <1>a DEF snapshot, readState, answered, answerCall, Goes, Answer
<1>5. ASSUME NEW t \in Threads, applyAnswer(t)
      PROVE  LaterLoginStays
  <2>1. login' = login \/ login.generation = at[t].generation
    BY Zenon, <1>5 DEF applyAnswer, SameLogin
  <2>2. \A x \in Threads : x # t => at'[x] = at[x]
    BY Zenon, <1>0, <1>5 DEF applyAnswer, Leaves
  <2> QED
    BY <1>0, <2>1, <2>2 DEF LaterLoginStays
<1>6. ASSUME NEW t \in Threads,
             recordLogin(t) \/ recordUse(t) \/ recordKey(t) \/ dropLoginOnLapsedLease(t) \/ drop(t)
             \/ heldCall(t)
      PROVE  LaterLoginStays
  BY Zenon, <1>6, <1>a DEF recordLogin, recordUse, recordKey, dropLoginOnLapsedLease, drop,
      heldCall, Leaves, Goes, Returns
<1>7. ASSUME NEW t \in Threads,
             \E h \in Handles : C_GetSessionInfo(t, h) \/ certDerOf(t, h)
      PROVE  LaterLoginStays
  BY Zenon, <1>7, <1>a DEF C_GetSessionInfo, certDerOf, Enter, Holds
<1>8. ASSUME NEW t \in Threads,
             C_CloseAllSessions(t) \/ (\E h \in Handles : C_CloseSession(t, h) \/ C_Logout(t, h))
      PROVE  LaterLoginStays
  BY Zenon, <1>8, <1>a, <1>b DEF C_CloseSession, C_CloseAllSessions, C_Logout, Holds, Enter
<1>9. ASSUME NEW t \in Threads, NEW h \in Handles, NEW fn \in Interactive, Interact(t, fn, h)
      PROVE  LaterLoginStays
  BY Zenon, <1>9, <1>a DEF Interact, Enter
<1>10. ASSUME NEW t \in Threads, NEW h \in Handles, NEW fn \in Cursors, BeginUse(t, fn, h)
       PROVE  LaterLoginStays
  BY Zenon, <1>10, <1>b DEF BeginUse
<1>11. ASSUME NEW t \in Threads, NEW k \in keys, C_DestroyObject(t, k)
       PROVE  LaterLoginStays
  BY Zenon, <1>11, <1>b DEF C_DestroyObject
<1>12. CASE ChangeCard \/ LeaseExpires \/ CheckInterval
  BY Zenon, <1>12, <1>b DEF ChangeCard, LeaseExpires, CheckInterval
<1> QED
  BY <1>1, <1>2, <1>3, <1>4, <1>5, <1>6, <1>7, <1>8, <1>9, <1>10, <1>11, <1>12
    DEF Next, Proceed, Begin, C_GetSlotList, C_GetSlotInfo, C_GetTokenInfo,
        C_GetMechanismList, C_GetMechanismInfo, C_OpenSession

\* For any number of threads and logins: the agent's word that a login lapsed,
\* asked for by C_GetSessionInfo, ends no login that was made after the question.
THEOREM AnswersEndTheirOwnLogin == Spec => AnswerEndsNoLaterLogin
<1>1. IInv /\ [Next]_vars => [LaterLoginStays]_vars
  BY Zenon, AnswerStep DEF IInv
<1> QED
  BY <1>1, Inductive, PTL DEF Spec, AnswerEndsNoLaterLogin
=============================================================================
