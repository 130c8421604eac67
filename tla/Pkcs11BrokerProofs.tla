------------------------- MODULE Pkcs11BrokerProofs -------------------------
(***************************************************************************)
(* Proofs about the PKCS#11 broker, for any number of clients, cards and   *)
(* requests and any lease times and prompt limits.                         *)
(*                                                                         *)
(* Work and Consent strengthen the properties: the worker's locals must be *)
(* consistent with the lease they were read from for as long as the        *)
(* operation runs.  RepliesOwed counts the places an open request is to be *)
(* answered from; it is in one, and in one only.                           *)
(***************************************************************************)
EXTENDS Pkcs11Broker, FiniteSetTheorems, TLAPS

\* What the worker knows while it runs an operation.
Work ==
    /\ wpc \in {"idle", "start"} => flow = NoFlow
    /\ wpc \in WorkerSteps \ {"idle", "open", "complete"} => job.kind \in Private
    /\ wpc # "complete" => flow.out = "none"
    /\ wpc = "complete" => flow.out # "none"

\* Where the charge and the PIN of an operation come from.
Consent ==
    /\ flow.verified => flow.vouched
    /\ wpc \in {"open", "preflight"} /\ job.kind \in Private
           => flow.verified \/ flow.charged
    /\ wpc = "terminal" => flow.verified \/ flow.pin # "none"
    /\ wpc = "mark" => /\ flow.pin = "right" /\ job.kind = "ord"
                       /\ leases[Key].held => Key \in consent
    /\ wpc = "complete" /\ flow.out = "Ok" /\ job.kind \in Private
           => flow.pin = "right" \/ (job.kind = "ord" /\ flow.vouched)

IInv ==
    /\ StateOK /\ Work
    /\ VerifiedMeansConsent /\ Consent /\ PinIsSpared

-----------------------------------------------------------------------------
(* The queue of jobs and the leases.                                       *)

\* What is left of a sequence when its head is taken.
LEMMA HeadTail ==
    ASSUME NEW S, NEW q \in Seq(S), q # <<>>
    PROVE  /\ Head(q) = q[1] /\ Head(q) \in S /\ Tail(q) \in Seq(S)
           /\ Len(q) \in Nat \ {0} /\ Len(Tail(q)) = Len(q) - 1
           /\ \A i \in 1..Len(q) - 1 : Tail(q)[i] = q[i + 1]
OBVIOUS

\* M says no more of any lease than L does.
Weaker(M, L) == \A x \in Keys : (M[x].pin => L[x].pin) /\ (M[x].held => L[x].held)

\* What the methods of LeaseManager leave in the table.
LEMMA LeaseFacts ==
    ASSUME NEW L \in [Keys -> Lease], NEW k \in Keys, NEW t \in Nat
    PROVE  /\ isActive(L, k, t) \in [Keys -> Lease] /\ Weaker(isActive(L, k, t), L)
           /\ touch(L, k, t) \in [Keys -> Lease] /\ Weaker(touch(L, k, t), L)
           /\ clearPinVerified(L, k) \in [Keys -> Lease] /\ Weaker(clearPinVerified(L, k), L)
           /\ revoke(L, k) \in [Keys -> Lease] /\ Weaker(revoke(L, k), L)
           /\ ~revoke(L, k)[k].pin /\ ~revoke(L, k)[k].held
           /\ markPinVerified(L, k) \in [Keys -> Lease]
           /\ \A x \in Keys \ {k} : markPinVerified(L, k)[x] = L[x]
           /\ markPinVerified(L, k)[k].pin => L[k].pin \/ L[k].held
           /\ grant(L, k, t) \in [Keys -> Lease]
           /\ \A x \in Keys \ {k} : grant(L, k, t)[x] = L[x]
           /\ ~grant(L, k, t)[k].pin
<1>1. NoLease \in Lease /\ ~NoLease.pin /\ ~NoLease.held
  BY Zenon DEF NoLease, Lease
<1>2. isActive(L, k, t) \in [Keys -> Lease] /\ Weaker(isActive(L, k, t), L)
  BY Zenon, <1>1 DEF isActive, Weaker
<1>3. touch(L, k, t) \in [Keys -> Lease] /\ Weaker(touch(L, k, t), L)
  BY Zenon, <1>1 DEF touch, Weaker, Lease
<1>4. clearPinVerified(L, k) \in [Keys -> Lease] /\ Weaker(clearPinVerified(L, k), L)
  BY Zenon DEF clearPinVerified, Weaker, Lease
<1>5. /\ revoke(L, k) \in [Keys -> Lease] /\ Weaker(revoke(L, k), L)
      /\ ~revoke(L, k)[k].pin /\ ~revoke(L, k)[k].held
  BY Zenon, <1>1 DEF revoke, Weaker
<1>6. /\ markPinVerified(L, k) \in [Keys -> Lease]
      /\ \A x \in Keys \ {k} : markPinVerified(L, k)[x] = L[x]
      /\ markPinVerified(L, k)[k].pin => L[k].pin \/ L[k].held
  BY Zenon DEF markPinVerified, Lease
<1>7. /\ grant(L, k, t) \in [Keys -> Lease]
      /\ \A x \in Keys \ {k} : grant(L, k, t)[x] = L[x]
      /\ ~grant(L, k, t)[k].pin
  BY Zenon DEF grant, Lease
<1> QED
  BY Zenon, <1>2, <1>3, <1>4, <1>5, <1>6, <1>7

\* A card's or a caller's leases go together.
LEMMA RevocationFacts ==
    ASSUME NEW L \in [Keys -> Lease], NEW v
    PROVE  /\ revokeCard(L, v) \in [Keys -> Lease] /\ Weaker(revokeCard(L, v), L)
           /\ \A x \in Keys : x[2] = v => ~revokeCard(L, v)[x].pin /\ ~revokeCard(L, v)[x].held
           /\ revokeCaller(L, v) \in [Keys -> Lease] /\ Weaker(revokeCaller(L, v), L)
           /\ \A x \in Keys : x[1] = v => ~revokeCaller(L, v)[x].pin /\ ~revokeCaller(L, v)[x].held
<1>1. NoLease \in Lease /\ ~NoLease.pin /\ ~NoLease.held
  BY Zenon DEF NoLease, Lease
<1> QED
  BY Zenon, <1>1 DEF revokeCard, revokeCaller, Weaker

-----------------------------------------------------------------------------
(* Types.                                                                  *)

\* Jobs are made of a client, a kind and the seated card.
LEMMA EnqueueType ==
    ASSUME StateOK, NEW c \in Clients, NEW kind \in {"login", "public"} \cup Private,
           seated # 0, Enqueue(c, kind)
    PROVE  queue' \in Seq(Jobs)
<1>1. [client |-> c, kind |-> kind, card |-> seated] \in Jobs
  BY DEF StateOK, Jobs, Cards
<1>2. queue \in Seq(Jobs)
  BY Zenon DEF StateOK
<1>3. Append(queue, [client |-> c, kind |-> kind, card |-> seated]) \in Seq(Jobs)
  BY <1>1, <1>2
<1> QED
  BY Zenon, <1>2, <1>3 DEF Enqueue

\* The limiter has an entry for each client, before and after a charge.
LEMMA ChargeType ==
    ASSUME StateOK, NEW next \in WorkerSteps, Charge(next)
    PROVE  DOMAIN limiter' = Clients /\ wpc' \in WorkerSteps /\ flow' \in Flows
<1>1. \A t, k, n : DOMAIN allow(t, k, n) = DOMAIN t
  BY Zenon DEF allow, Swept
<1>2. DOMAIN limiter' = Clients
  BY Zenon, <1>1 DEF Charge, StateOK
<1>3. wpc' \in WorkerSteps /\ flow' \in Flows
  BY Zenon DEF Charge, Finish, StateOK, Flows, WorkerSteps
<1> QED
  BY Zenon, <1>2, <1>3

\* The job at hand has a key of the table.
LEMMA KeyType == StateOK => Key \in Keys /\ job.client \in Clients /\ job.card \in Cards
BY Zenon DEF StateOK, Key, Keys, Jobs

\* Every step keeps every variable but the three counters in type.
LEMMA TypeStep ==
    ASSUME StateOK, Next
    PROVE  StateOK'
<1>0. /\ MaxReqs \in Nat /\ MaxCards \in Nat /\ MaxTime \in Nat /\ MaxCards > 0
      /\ now \in Nat /\ Key \in Keys
  BY BrokerAssumption, KeyType DEF StateOK
<1>1. CASE Tick
  BY <1>0, <1>1 DEF Tick, StateOK, reqVars, workVars
<1>2. CASE InsertCard
  BY <1>0, <1>2 DEF InsertCard, StateOK, reqVars, workVars
<1>3. CASE RemoveCard
  BY <1>0, <1>3 DEF RemoveCard, StateOK, reqVars, workVars, Cards
<1>4. CASE onCardRemoved
  BY <1>0, <1>4, RevocationFacts DEF onCardRemoved, StateOK, reqVars, workVars
<1>5. CASE quiesce
  BY Zenon, <1>0, <1>5, RevocationFacts DEF quiesce, StateOK, reqVars, workVars, envVars
<1>6. CASE ShutDown
  BY Zenon, <1>0, <1>6 DEF ShutDown, StateOK, reqVars, workVars
<1>7. CASE SweepSession
  BY <1>0, <1>7 DEF SweepSession, StateOK, reqVars, envVars, Closed, Connections
<1>8. ASSUME NEW c \in Clients, onClientDisconnected(c)
      PROVE  StateOK'
  BY Zenon, <1>0, <1>8, RevocationFacts DEF onClientDisconnected, StateOK, reqVars, workVars
<1>9. ASSUME NEW c \in Clients, login(c)
      PROVE  StateOK'
  BY Zenon, <1>0, <1>9 DEF login, StateOK, envVars, workVars
<1>10. ASSUME NEW c \in Clients, Authorized(c)
       PROVE  StateOK'
  <2>1. queue' \in Seq(Jobs)
    BY Zenon, <1>10, EnqueueType DEF Authorized, StateOK
  <2> QED
    BY Zenon, <1>0, <1>10, <2>1 DEF Authorized, StateOK, envVars, workVars
<1>11. ASSUME NEW c \in Clients, publicData(c)
       PROVE  StateOK'
  <2>1. queue' \in Seq(Jobs)
    BY Zenon, <1>11, EnqueueType DEF publicData, StateOK
  <2> QED
    BY Zenon, <1>0, <1>11, <2>1 DEF publicData, StateOK, envVars, workVars
<1>12. ASSUME NEW c \in Clients, logout(c)
       PROVE  StateOK'
  <2>1. <<c, seated>> \in Keys
    BY <1>12 DEF logout, StateOK, Keys, Cards
  <2> QED
    BY Zenon, <1>0, <1>12, <2>1, LeaseFacts DEF logout, StateOK, envVars, reqVars, workVars
<1>13. ASSUME NEW c \in Clients, loginActive(c)
       PROVE  StateOK'
  <2>1. <<c, seated>> \in Keys
    BY <1>13 DEF loginActive, StateOK, Keys, Cards
  <2> QED
    BY Zenon, <1>0, <1>13, <2>1, LeaseFacts DEF loginActive, StateOK, envVars, reqVars, workVars
<1>14. ASSUME NEW c \in Clients, NEW kind \in Private, runCrypto(c, kind)
       PROVE  StateOK'
  <2>1. queue' \in Seq(Jobs)
    BY Zenon, <1>14, EnqueueType DEF runCrypto, StateOK
  <2>2. leases' \in [Keys -> Lease]
    <3>1. seated # 0 => <<c, seated>> \in Keys
      BY DEF StateOK, Keys, Cards
    <3> QED
      BY SMTT(30), <1>0, <1>14, <3>1, LeaseFacts DEF runCrypto, StateOK
  <2> QED
    BY Zenon, <1>0, <1>14, <2>1, <2>2 DEF runCrypto, StateOK, envVars, workVars
<1>15. CASE Take
  <2>1. queue' \in Seq(Jobs) /\ job' \in Jobs
    BY Zenon, <1>15, HeadTail DEF Take, StateOK
  <2> QED
    BY Zenon, <1>0, <1>15, <2>1 DEF Take, StateOK, envVars, WorkerSteps
<1>16. CASE Drain
  <2>1. queue' \in Seq(Jobs)
    BY Zenon, <1>16, HeadTail DEF Drain, StateOK
  <2> QED
    BY Zenon, <1>0, <1>16, <2>1 DEF Drain, StateOK, envVars, workVars
<1>17. CASE ReadLease
  <2>1. DOMAIN limiter' = Clients /\ wpc' \in WorkerSteps /\ flow' \in Flows
    <3>1. "open" \in WorkerSteps
      BY Zenon DEF WorkerSteps
    <3>2. CASE Charge("open")
      BY Zenon, <3>1, <3>2, ChargeType
    <3>3. CASE UNCHANGED limiter /\ wpc' = "open"
               /\ flow' = [flow EXCEPT !.verified = TRUE, !.vouched = Key \in consent]
      <4>1. (Key \in consent) \in BOOLEAN
        OBVIOUS
      <4> QED
        BY Zenon, <3>1, <3>3, <4>1 DEF StateOK, Flows
    <3> QED
      BY Zenon, <1>17, <3>2, <3>3 DEF ReadLease
  <2> QED
    BY Zenon, <1>0, <1>17, <2>1 DEF ReadLease, StateOK, envVars, reqVars
<1>18. CASE PromptAgain
  <2>1. DOMAIN limiter' = Clients /\ wpc' \in WorkerSteps /\ flow' \in Flows
    <3>1. "prompt" \in WorkerSteps
      BY Zenon DEF WorkerSteps
    <3>2. CASE Charge("prompt")
      BY Zenon, <3>1, <3>2, ChargeType
    <3>3. CASE UNCHANGED limiter /\ Finish("failed")
      BY Zenon, <3>3 DEF StateOK, Flows, Finish, WorkerSteps
    <3> QED
      BY Zenon, <1>18, <3>2, <3>3 DEF PromptAgain
  <2> QED
    BY Zenon, <1>0, <1>18, <2>1 DEF PromptAgain, StateOK, envVars, reqVars
<1>19. CASE Open
  BY Zenon, <1>0, <1>19 DEF Open, Finish, StateOK, envVars, reqVars, Closed, Connections, Flows, WorkerSteps
<1>20. CASE CheckRequest
  BY Zenon, <1>0, <1>20 DEF CheckRequest, Preflight, Finish, StateOK, envVars, reqVars, Flows, WorkerSteps
<1>21. CASE RaisePrompt
  BY Zenon, <1>0, <1>21 DEF RaisePrompt, StateOK, envVars, reqVars, WorkerSteps
<1>22. CASE Answer
  BY ZenonT(60), <1>0, <1>22 DEF Answer, Finish, StateOK, envVars, reqVars, Flows, WorkerSteps
<1>23. CASE RunTerminal
  <2>1. consent' \subseteq Keys
    BY Zenon, <1>0, <1>23 DEF RunTerminal, StateOK
  <2>2. wpc' \in WorkerSteps /\ flow' \in Flows
    <3>1. \A out \in CardAnswers(job.kind, flow.pin) :
             (IF out = "CardError" THEN "failed" ELSE out) \in {"Ok", "AuthFailed", "failed"}
      BY Zenon DEF CardAnswers
    <3>2. /\ wpc' \in {"complete", "again", "clear", "mark"}
          /\ \/ flow' = flow \/ flow' = [flow EXCEPT !.retry = TRUE]
             \/ \E out \in {"Ok", "AuthFailed", "failed"} : flow' = [flow EXCEPT !.out = out]
      BY Zenon, <1>23, <3>1 DEF RunTerminal, Finish
    <3> QED
      BY ZenonT(60), <3>2 DEF StateOK, Flows, WorkerSteps
  <2>3. session' \in Connections
    BY Zenon, <1>23 DEF RunTerminal, StateOK, Connections, Kept, Flows
  <2> QED
    BY Zenon, <1>0, <1>23, <2>1, <2>2, <2>3 DEF RunTerminal, StateOK, envVars, reqVars
<1>24. CASE MarkVerified
  BY Zenon, <1>0, <1>24, LeaseFacts DEF MarkVerified, Finish, StateOK, envVars, reqVars, Flows, WorkerSteps
<1>25. CASE ChannelLost
  <2>1. leases' \in [Keys -> Lease]
    BY Zenon, <1>0, <1>25, LeaseFacts DEF ChannelLost, StateOK
  <2>2. wpc' \in WorkerSteps /\ flow' \in Flows
    BY Zenon, <1>25 DEF ChannelLost, Preflight, Finish, StateOK, Flows, WorkerSteps
  <2> QED
    BY Zenon, <1>0, <1>25, <2>1, <2>2 DEF ChannelLost, StateOK, envVars, reqVars
<1>26. CASE Complete
  <2>1. leases' \in [Keys -> Lease] /\ consent' \subseteq Keys
    <3>1. leases \in [Keys -> Lease] /\ consent \subseteq Keys
      BY Zenon DEF StateOK
    <3>2. grant(leases, Key, now) \in [Keys -> Lease] /\ revoke(leases, Key) \in [Keys -> Lease]
      BY Zenon, <1>0, <3>1, LeaseFacts
    <3>3. /\ \/ leases' = leases \/ leases' = grant(leases, Key, now)
             \/ leases' = revoke(leases, Key)
          /\ consent' = consent \/ consent' = consent \ {Key}
      BY Zenon, <1>26 DEF Complete, Settle
    <3> QED
      BY Zenon, <3>1, <3>2, <3>3
  <2>2. NoJob \in Jobs /\ NoFlow \in Flows /\ "idle" \in WorkerSteps
    BY <1>0, BrokerAssumption DEF NoJob, Jobs, Cards, NoFlow, Flows, WorkerSteps
  <2> QED
    BY Zenon, <1>0, <1>26, <2>1, <2>2 DEF Complete, StateOK, envVars
<1> QED
  BY Zenon, <1>1, <1>2, <1>3, <1>4, <1>5, <1>6, <1>7, <1>8, <1>9, <1>10, <1>11, <1>12, <1>13, <1>14,
     <1>15, <1>16, <1>17, <1>18, <1>19, <1>20, <1>21, <1>22, <1>23, <1>24, <1>25, <1>26
  DEF Next, Worker

-----------------------------------------------------------------------------
(* Consent.                                                                *)

\* What the consent facts read besides the worker's own state.
Vouching == VerifiedMeansConsent /\ Work /\ Consent /\ PinIsSpared

\* Steps of others while the worker stands still: leases and consent go
\* together, and the worker's key loses both or neither.
Revokes ==
    /\ UNCHANGED workVars
    /\ leases' \in [Keys -> Lease] /\ Weaker(leases', leases)
    /\ \A k \in Keys : k \in consent /\ leases'[k].held => k \in consent'
    /\ \A k \in Keys : k \in consent /\ leases'[k].pin => k \in consent'

\* A lease that goes takes what it vouched for with it.
LEMMA RevokingSteps ==
    ASSUME StateOK, Vouching, Revokes
    PROVE  Vouching'
<1>1. VerifiedMeansConsent'
  BY Zenon DEF Vouching, VerifiedMeansConsent, Revokes, Weaker
<1>2. Work' /\ PinIsSpared'
  BY Zenon DEF Vouching, Work, PinIsSpared, PromptsAreCharged, RefusedPinIsErased, Revokes, workVars
<1>3. Consent'
  <2>1. Key' = Key /\ Key \in Keys
    BY Zenon, KeyType DEF Key, Revokes, workVars
  <2>2. Consent /\ leases'[Key].held => leases[Key].held /\ (Key \in consent => Key \in consent')
    BY Zenon, <2>1 DEF Revokes, Weaker
  <2> QED
    BY Zenon, <2>1, <2>2 DEF Vouching, Consent, Revokes, workVars
<1> QED
  BY Zenon, <1>1, <1>2, <1>3 DEF Vouching

\* A login is no stronger than itself.
LEMMA SameWeaker == \A L : Weaker(L, L)
BY Zenon DEF Weaker

\* Every step of the clock, the reader, the clients, the host and the
\* dispatch thread revokes at most.
LEMMA OthersRevoke ==
    ASSUME StateOK, Next
    PROVE  Revokes \/ SweepSession \/ Worker \/ Answer
<1>0. leases \in [Keys -> Lease] /\ now \in Nat /\ consent \subseteq Keys
  BY BrokerAssumption DEF StateOK
<1>1. ASSUME UNCHANGED <<leases, consent, workVars>>
      PROVE  Revokes
  BY Zenon, <1>0, <1>1, SameWeaker DEF Revokes
<1>2. ASSUME Tick \/ InsertCard \/ RemoveCard \/ ShutDown \/ Drain
      PROVE  Revokes
  BY Zenon, <1>1, <1>2 DEF Tick, InsertCard, RemoveCard, ShutDown, Drain
<1>3. ASSUME NEW c \in Clients, login(c) \/ Authorized(c) \/ publicData(c)
      PROVE  Revokes
  BY Zenon, <1>1, <1>3 DEF login, Authorized, publicData
<1>4. ASSUME NEW v, leases' = revokeCard(leases, v), consent' = {k \in consent : k[2] # v},
             UNCHANGED workVars
      PROVE  Revokes
  BY Zenon, <1>0, <1>4, RevocationFacts DEF Revokes
<1>5. CASE onCardRemoved \/ quiesce
  BY Zenon, <1>4, <1>5 DEF onCardRemoved, quiesce
<1>6. ASSUME NEW c \in Clients, onClientDisconnected(c)
      PROVE  Revokes
  <2>1. leases' = revokeCaller(leases, c) /\ consent' = {k \in consent : k[1] # c} /\ UNCHANGED workVars
    BY Zenon, <1>6 DEF onClientDisconnected
  <2> QED
    BY Zenon, <1>0, <2>1, RevocationFacts DEF Revokes
<1>7. ASSUME NEW c \in Clients, logout(c)
      PROVE  Revokes
  <2>1. <<c, seated>> \in Keys
    BY <1>7 DEF logout, StateOK, Keys, Cards
  <2>2. /\ leases' = revoke(leases, <<c, seated>>) /\ consent' = consent \ {<<c, seated>>}
        /\ UNCHANGED workVars
    BY Zenon, <1>7 DEF logout
  <2> QED
    BY Zenon, <1>0, <2>1, <2>2, LeaseFacts DEF Revokes
<1>8. ASSUME NEW c \in Clients, loginActive(c)
      PROVE  Revokes
  <2>1. <<c, seated>> \in Keys
    BY <1>8 DEF loginActive, StateOK, Keys, Cards
  <2>2. leases' = isActive(leases, <<c, seated>>, now) /\ UNCHANGED <<workVars, consent>>
    BY Zenon, <1>8 DEF loginActive
  <2> QED
    BY Zenon, <1>0, <2>1, <2>2, LeaseFacts DEF Revokes
<1>9. ASSUME NEW c \in Clients, NEW kind \in Private, runCrypto(c, kind)
      PROVE  Revokes
  <2>1. CASE UNCHANGED leases
    BY Zenon, <1>1, <1>9, <2>1 DEF runCrypto
  <2>2. CASE seated # 0 /\ leases' = touch(leases, <<c, seated>>, now)
    <3>1. <<c, seated>> \in Keys
      BY <2>2 DEF StateOK, Keys, Cards
    <3>2. UNCHANGED <<workVars, consent>>
      BY Zenon, <1>9 DEF runCrypto
    <3> QED
      BY Zenon, <1>0, <2>2, <3>1, <3>2, LeaseFacts DEF Revokes
  <2> QED
    BY Zenon, <1>9, <2>1, <2>2 DEF runCrypto
<1> QED
  BY Zenon, <1>2, <1>3, <1>5, <1>6, <1>7, <1>8, <1>9 DEF Next

\* A step of the worker that leaves the leases and the consent alone, and its
\* job: what is left to show is about its place and its locals.
LEMMA LocalSteps ==
    ASSUME StateOK, Vouching, UNCHANGED <<leases, consent, job>>,
           Work', PinIsSpared',
           flow'.verified => flow'.vouched,
           wpc' \in {"open", "preflight"} /\ job.kind \in Private
               => flow'.verified \/ flow'.charged,
           wpc' = "terminal" => flow'.verified \/ flow'.pin # "none",
           wpc' # "mark",
           wpc' = "complete" /\ flow'.out = "Ok" /\ job.kind \in Private
               => flow'.pin = "right" \/ (job.kind = "ord" /\ flow'.vouched)
    PROVE  Vouching'
<1>1. VerifiedMeansConsent'
  BY Zenon DEF Vouching, VerifiedMeansConsent
<1>2. Consent'
  BY Zenon DEF Consent
<1> QED
  BY Zenon, <1>1, <1>2 DEF Vouching

\* An operation that gives up ends with no claim on a key.
LEMMA GivingUp ==
    ASSUME StateOK, Vouching, Finish("failed"), UNCHANGED <<leases, consent, job, session>>
    PROVE  Vouching'
<1>1. /\ wpc' = "complete" /\ flow'.out = "failed" /\ flow'.verified = flow.verified
      /\ flow'.vouched = flow.vouched
  BY Zenon DEF Finish, StateOK, Flows
<1>2. Work' /\ PinIsSpared'
  BY Zenon, <1>1 DEF Work, Vouching, PinIsSpared, PromptsAreCharged, RefusedPinIsErased, WorkerSteps
<1>3. flow.verified => flow.vouched
  BY Zenon DEF Vouching, Consent
<1> QED
  BY Zenon, <1>1, <1>2, <1>3, LocalSteps

\* A charge pays for the prompt it is asked for.
LEMMA ChargedSteps ==
    ASSUME StateOK, Vouching, NEW next \in {"open", "prompt"}, Charge(next),
           job.kind \in Private, flow.out = "none",
           UNCHANGED <<leases, consent, job, session>>
    PROVE  Vouching'
<1>1. CASE Finish("failed")
  BY Zenon, <1>1, GivingUp
<1>2. CASE flow' = [flow EXCEPT !.charged = TRUE] /\ wpc' = next
  <2>1. /\ flow'.out = "none" /\ flow'.verified = flow.verified /\ flow'.vouched = flow.vouched
        /\ flow'.charged
    BY Zenon, <1>2 DEF StateOK, Flows
  <2>2. Work' /\ PinIsSpared'
    BY Zenon, <1>2, <2>1 DEF Work, Vouching, PinIsSpared, PromptsAreCharged, RefusedPinIsErased, WorkerSteps
  <2>3. flow.verified => flow.vouched
    BY Zenon DEF Vouching, Consent
  <2> QED
    BY Zenon, <1>2, <2>1, <2>2, <2>3, LocalSteps
<1> QED
  BY Zenon, <1>1, <1>2 DEF Charge

\* The worker's steps up to the card's answer.
LEMMA PreparingSteps ==
    ASSUME StateOK, Vouching,
           Take \/ ReadLease \/ Open \/ CheckRequest \/ RaisePrompt \/ Answer \/ PromptAgain \/ SweepSession
    PROVE  Vouching'
<1>0. /\ flow \in Flows /\ (flow.verified => flow.vouched) /\ session.deposit # "wrong"
      /\ wpc \in WorkerSteps /\ Work /\ Consent /\ PinIsSpared
  BY Zenon DEF StateOK, Vouching, Consent, PinIsSpared, RefusedPinIsErased
<1>1. CASE Take
  <2>1. /\ flow' = NoFlow /\ UNCHANGED <<leases, consent, session, flow>>
        /\ wpc' \in {"start", "open"} /\ (wpc' = "start" => job'.kind \in Private)
        /\ (wpc' = "open" => job'.kind \notin Private)
    BY Zenon, <1>0, <1>1 DEF Take, Work
  <2>2. Work' /\ PinIsSpared'
    BY <1>0, <2>1 DEF Work, NoFlow, PinIsSpared, PromptsAreCharged, RefusedPinIsErased, WorkerSteps
  <2>3. Consent'
    BY <2>1 DEF Consent, NoFlow
  <2>4. VerifiedMeansConsent'
    BY Zenon, <2>1 DEF Vouching, VerifiedMeansConsent
  <2> QED
    BY Zenon, <2>2, <2>3, <2>4 DEF Vouching
<1>2. CASE ReadLease
  <2>1. /\ wpc = "start" /\ UNCHANGED <<leases, consent, job, session>>
        /\ job.kind \in Private /\ flow.out = "none" /\ Key \in Keys
    BY Zenon, <1>0, <1>2, KeyType DEF ReadLease, Work, WorkerSteps
  <2>2. CASE Charge("open")
    BY Zenon, <2>1, <2>2, ChargedSteps
  <2>3. CASE /\ leases[Key].pin /\ wpc' = "open"
             /\ flow' = [flow EXCEPT !.verified = TRUE, !.vouched = Key \in consent]
    <3>1. flow'.out = "none" /\ flow'.verified /\ flow'.vouched
      BY Zenon, <1>0, <2>1, <2>3 DEF Vouching, VerifiedMeansConsent, Flows
    <3>2. Work' /\ PinIsSpared'
      BY Zenon, <1>0, <2>1, <2>3, <3>1 DEF Work, PinIsSpared, PromptsAreCharged, RefusedPinIsErased
    <3> QED
      BY Zenon, <2>1, <2>3, <3>1, <3>2, LocalSteps
  <2> QED
    BY Zenon, <1>2, <2>2, <2>3 DEF ReadLease
<1>3. CASE Open
  <2>1. wpc = "open" /\ UNCHANGED <<leases, consent, job>> /\ flow.out = "none"
    BY Zenon, <1>0, <1>3 DEF Open, Work
  <2>2. CASE Finish("failed") /\ UNCHANGED session
    BY Zenon, <2>1, <2>2, GivingUp
  <2>3. CASE session' = IF session.card = seated THEN session ELSE [Closed EXCEPT !.card = seated]
    <3>1. session'.deposit # "wrong"
      BY Zenon, <1>0, <2>3 DEF Closed
    <3>2. CASE job.kind \in Private /\ wpc' = "preflight" /\ UNCHANGED flow
      <4>1. Work' /\ PinIsSpared'
        BY Zenon, <1>0, <2>1, <3>1, <3>2 DEF Work, PinIsSpared, PromptsAreCharged, RefusedPinIsErased
      <4>2. flow.verified \/ flow.charged
        BY Zenon, <1>0, <2>1, <3>2 DEF Consent
      <4> QED
        BY Zenon, <1>0, <2>1, <3>2, <4>1, <4>2, LocalSteps
    <3>3. CASE job.kind \notin Private /\ Finish("Ok")
      <4>1. wpc' = "complete" /\ flow'.out = "Ok" /\ flow'.verified = flow.verified /\ flow'.vouched = flow.vouched
        BY Zenon, <1>0, <3>3 DEF Finish, Flows
      <4>2. Work' /\ PinIsSpared'
        BY Zenon, <3>1, <4>1 DEF Work, PinIsSpared, PromptsAreCharged, RefusedPinIsErased, WorkerSteps
      <4> QED
        BY Zenon, <1>0, <2>1, <3>3, <4>1, <4>2, LocalSteps
    <3> QED
      BY Zenon, <1>3, <2>2, <2>3, <3>2, <3>3 DEF Open
  <2> QED
    BY Zenon, <1>3, <2>2, <2>3 DEF Open
<1>4. CASE CheckRequest
  <2>1. wpc = "preflight" /\ UNCHANGED <<leases, consent, job, session>> /\ flow.out = "none"
        /\ job.kind \in Private
    BY Zenon, <1>0, <1>4 DEF CheckRequest, Work, WorkerSteps
  <2>2. CASE Finish("failed")
    BY Zenon, <2>1, <2>2, GivingUp
  <2>3. CASE wpc' = (IF flow.verified THEN "terminal" ELSE "prompt") /\ UNCHANGED flow
    <3>1. flow.verified \/ flow.charged
      BY Zenon, <1>0, <2>1 DEF Consent
    <3>2. wpc' \in {"terminal", "prompt"} /\ (wpc' = "terminal" => flow.verified)
          /\ (wpc' = "prompt" => flow.charged)
      BY Zenon, <2>3, <3>1
    <3>3. Work' /\ PinIsSpared'
      BY Zenon, <1>0, <2>1, <2>3, <3>2 DEF Work, PinIsSpared, PromptsAreCharged, RefusedPinIsErased
    <3> QED
      BY Zenon, <1>0, <2>1, <2>3, <3>2, <3>3, LocalSteps
  <2> QED
    BY Zenon, <1>4, <2>2, <2>3 DEF CheckRequest, Preflight
<1>5. CASE RaisePrompt
  <2>1. /\ wpc = "prompt" /\ wpc' = "asking" /\ UNCHANGED <<leases, consent, job, session, flow>>
        /\ flow.charged /\ flow.out = "none" /\ job.kind \in Private
    BY Zenon, <1>0, <1>5 DEF RaisePrompt, PinIsSpared, PromptsAreCharged, Work, WorkerSteps
  <2>2. Work' /\ PinIsSpared'
    BY Zenon, <1>0, <2>1 DEF Work, PinIsSpared, PromptsAreCharged, RefusedPinIsErased
  <2> QED
    BY Zenon, <1>0, <2>1, <2>2, LocalSteps
<1>6. CASE Answer
  <2>1. wpc = "asking" /\ UNCHANGED <<leases, consent, job, session>> /\ flow.out = "none"
        /\ job.kind \in Private
    BY Zenon, <1>0, <1>6 DEF Answer, Work, WorkerSteps
  <2>2. CASE Finish("failed")
    BY Zenon, <2>1, <2>2, GivingUp
  <2>3. ASSUME NEW p \in {"right", "wrong"}, wpc' = "terminal",
               flow' = [flow EXCEPT !.pin = p, !.charged = FALSE]
        PROVE  Vouching'
    <3>1. /\ flow'.out = "none" /\ flow'.pin # "none"
          /\ flow'.verified = flow.verified /\ flow'.vouched = flow.vouched
      BY Zenon, <1>0, <2>1, <2>3 DEF Flows
    <3>2. Work' /\ PinIsSpared'
      BY Zenon, <1>0, <2>1, <2>3, <3>1 DEF Work, PinIsSpared, PromptsAreCharged, RefusedPinIsErased
    <3> QED
      BY Zenon, <1>0, <2>1, <2>3, <3>1, <3>2, LocalSteps
  <2> QED
    BY Zenon, <1>6, <2>2, <2>3 DEF Answer
<1>7. CASE PromptAgain
  <2>1. wpc = "again" /\ UNCHANGED <<leases, consent, job, session>> /\ flow.out = "none"
        /\ job.kind \in Private
    BY Zenon, <1>0, <1>7 DEF PromptAgain, Work, WorkerSteps
  <2> QED
    BY Zenon, <1>7, <2>1, GivingUp, ChargedSteps DEF PromptAgain
<1>8. CASE SweepSession
  <2>1. UNCHANGED <<leases, consent, job, wpc, flow>> /\ wpc = "idle" /\ session'.deposit = "none"
    BY Zenon, <1>8 DEF SweepSession, Closed
  <2>2. Work' /\ PinIsSpared'
    BY Zenon, <1>0, <2>1 DEF Work, PinIsSpared, PromptsAreCharged, RefusedPinIsErased
  <2> QED
    BY Zenon, <1>0, <2>1, <2>2, LocalSteps
<1> QED
  BY Zenon, <1>1, <1>2, <1>3, <1>4, <1>5, <1>6, <1>7, <1>8

\* The card's answer, and what the operation and the broker make of it.
LEMMA EndingSteps ==
    ASSUME StateOK, Vouching, RunTerminal \/ MarkVerified \/ ChannelLost \/ Complete
    PROVE  Vouching'
<1>0. /\ flow \in Flows /\ (flow.verified => flow.vouched) /\ session.deposit # "wrong"
      /\ wpc \in WorkerSteps /\ Work /\ Consent /\ PinIsSpared /\ VerifiedMeansConsent
      /\ leases \in [Keys -> Lease] /\ consent \subseteq Keys /\ Key \in Keys /\ now \in Nat
  BY SMTT(30), KeyType, BrokerAssumption DEF StateOK, Vouching, Consent, PinIsSpared, RefusedPinIsErased
<1>1. CASE RunTerminal
  <2>1. /\ wpc = "terminal" /\ UNCHANGED <<leases, job>> /\ flow.out = "none"
        /\ job.kind \in Private /\ (flow.verified \/ flow.pin # "none")
    BY Zenon, <1>0, <1>1 DEF RunTerminal, Work, Consent, WorkerSteps
  <2>2. CASE Finish("failed") /\ UNCHANGED <<session, consent>>
    BY Zenon, <2>1, <2>2, GivingUp
  <2>3. CASE wpc' = "again" /\ flow' = [flow EXCEPT !.retry = TRUE] /\ UNCHANGED <<session, consent>>
    <3>1. flow'.out = "none" /\ flow'.verified = flow.verified /\ flow'.vouched = flow.vouched
      BY Zenon, <1>0, <2>1, <2>3 DEF Flows
    <3>2. Work' /\ PinIsSpared'
      BY Zenon, <1>0, <2>1, <2>3, <3>1 DEF Work, PinIsSpared, PromptsAreCharged, RefusedPinIsErased
    <3> QED
      BY Zenon, <1>0, <2>1, <2>3, <3>1, <3>2, LocalSteps
  <2>4. ASSUME NEW out \in CardAnswers(job.kind, flow.pin),
               ~AsksEachTime(job.kind) \/ flow.pin # "none",
               session' = [session EXCEPT !.deposit = Kept(job.kind, flow.pin, out),
                                          !.verified = @ \/ (out = "Ok" /\ flow.pin = "right")],
               consent' = IF out = "Ok" /\ flow.pin = "right" THEN consent \cup {Key} ELSE consent,
               \/ /\ out = "CardError" /\ flow.verified /\ ~flow.retry
                  /\ wpc' = "clear" /\ flow' = [flow EXCEPT !.retry = TRUE]
               \/ /\ out = "Ok" /\ flow.pin # "none" /\ job.kind = "ord"
                  /\ wpc' = "mark" /\ UNCHANGED flow
               \/ /\ ~(out = "CardError" /\ flow.verified /\ ~flow.retry)
                  /\ ~(out = "Ok" /\ flow.pin # "none" /\ job.kind = "ord")
                  /\ Finish(IF out = "CardError" THEN "failed" ELSE out)
        PROVE  Vouching'
    <3>1. /\ out \in {"CardError", "failed", "AuthFailed", "Ok"}
          /\ out = "Ok" => flow.pin # "wrong"
      BY Zenon, <2>4 DEF CardAnswers
    <3>2. flow.pin \in {"none", "right", "wrong"}
      BY Zenon, <1>0 DEF Flows
    <3>3. session'.deposit # "wrong"
      <4>1. Kept(job.kind, flow.pin, out) # "wrong"
        BY Zenon, <1>0, <3>1 DEF Kept
      <4>2. session \in Connections
        BY Zenon DEF StateOK
      <4> QED
        BY Zenon, <2>4, <4>1, <4>2 DEF Connections
    <3>4. consent \subseteq consent'
      BY Zenon, <2>4
    <3>5. VerifiedMeansConsent'
      BY Zenon, <1>0, <2>1, <3>4 DEF VerifiedMeansConsent
    <3>6. Key' = Key /\ job' = job /\ leases' = leases
      BY Zenon, <2>1 DEF Key
    <3>7. CASE wpc' = "clear" /\ flow' = [flow EXCEPT !.retry = TRUE]
      <4>1. flow'.out = "none" /\ flow'.verified = flow.verified /\ flow'.vouched = flow.vouched
        BY Zenon, <1>0, <2>1, <3>7 DEF Flows
      <4>2. Work' /\ PinIsSpared'
        BY Zenon, <2>1, <3>3, <3>7, <4>1 DEF Work, PinIsSpared, PromptsAreCharged, RefusedPinIsErased
      <4>3. Consent'
        BY Zenon, <1>0, <3>7, <4>1 DEF Consent
      <4> QED
        BY Zenon, <3>5, <4>2, <4>3 DEF Vouching
    <3>8. CASE out = "Ok" /\ flow.pin # "none" /\ job.kind = "ord" /\ wpc' = "mark" /\ UNCHANGED flow
      <4>1. flow.pin = "right" /\ Key \in consent'
        BY Zenon, <2>4, <3>1, <3>2, <3>8
      <4>2. Work' /\ PinIsSpared'
        BY Zenon, <2>1, <3>3, <3>8 DEF Work, PinIsSpared, PromptsAreCharged, RefusedPinIsErased
      <4>3. Consent'
        BY Zenon, <1>0, <3>6, <3>8, <4>1 DEF Consent
      <4> QED
        BY Zenon, <3>5, <4>2, <4>3 DEF Vouching
    <3>9. CASE /\ ~(out = "Ok" /\ flow.pin # "none" /\ job.kind = "ord")
               /\ Finish(IF out = "CardError" THEN "failed" ELSE out)
      <4>1. /\ wpc' = "complete" /\ flow'.out = (IF out = "CardError" THEN "failed" ELSE out)
            /\ flow'.verified = flow.verified /\ flow'.vouched = flow.vouched /\ flow'.pin = flow.pin
        BY Zenon, <1>0, <3>9 DEF Finish, Flows
      <4>2. Work' /\ PinIsSpared'
        BY Zenon, <3>1, <3>3, <4>1 DEF Work, PinIsSpared, PromptsAreCharged, RefusedPinIsErased, WorkerSteps
      <4>3. flow'.out = "Ok" => flow'.pin = "right" \/ (job.kind = "ord" /\ flow'.vouched)
        BY Zenon, <1>0, <2>1, <2>4, <3>1, <3>2, <4>1 DEF AsksEachTime, Private
      <4>4. Consent'
        BY Zenon, <1>0, <3>6, <4>1, <4>3 DEF Consent
      <4> QED
        BY Zenon, <3>5, <4>2, <4>4 DEF Vouching
    <3> QED
      BY Zenon, <2>4, <3>7, <3>8, <3>9
  <2> QED
    BY ZenonT(60), <1>1, <2>2, <2>3, <2>4 DEF RunTerminal
<1>2. CASE MarkVerified
  <2>1. /\ wpc = "mark" /\ leases' = markPinVerified(leases, Key) /\ Finish("Ok")
        /\ UNCHANGED <<job, session, consent>> /\ Key' = Key
        /\ flow.pin = "right" /\ job.kind = "ord" /\ (leases[Key].held => Key \in consent)
    BY Zenon, <1>0, <1>2 DEF MarkVerified, Consent, Key
  <2>2. VerifiedMeansConsent'
    <3>1. /\ \A x \in Keys \ {Key} : leases'[x] = leases[x]
          /\ leases'[Key].pin => leases[Key].pin \/ leases[Key].held
      BY <1>0, <2>1, LeaseFacts
    <3> QED
      BY Zenon, <1>0, <2>1, <3>1 DEF VerifiedMeansConsent
  <2>3. /\ wpc' = "complete" /\ flow'.out = "Ok" /\ flow'.pin = "right"
        /\ flow'.verified = flow.verified /\ flow'.vouched = flow.vouched
    BY Zenon, <1>0, <2>1 DEF Finish, Flows
  <2>4. Work' /\ PinIsSpared'
    BY Zenon, <1>0, <2>1, <2>3 DEF Work, PinIsSpared, PromptsAreCharged, RefusedPinIsErased, WorkerSteps
  <2>5. Consent'
    BY Zenon, <1>0, <2>3 DEF Consent
  <2> QED
    BY Zenon, <2>2, <2>4, <2>5 DEF Vouching
<1>3. CASE ChannelLost
  <2>1. /\ wpc = "clear" /\ leases' = clearPinVerified(leases, Key)
        /\ UNCHANGED <<job, session, consent>> /\ flow.out = "none" /\ job.kind \in Private
        /\ Finish("failed") \/ (wpc' = "again" /\ UNCHANGED flow)
    BY Zenon, <1>0, <1>3 DEF ChannelLost, Preflight, Work, WorkerSteps
  <2>2. VerifiedMeansConsent'
    BY Zenon, <1>0, <2>1, LeaseFacts DEF VerifiedMeansConsent, Weaker
  <2>3. /\ wpc' \in {"complete", "again"} /\ flow'.out = (IF wpc' = "again" THEN "none" ELSE "failed")
        /\ flow'.verified = flow.verified /\ flow'.vouched = flow.vouched
    BY Zenon, <1>0, <2>1 DEF Finish, Flows
  <2>4. Work' /\ PinIsSpared'
    BY Zenon, <1>0, <2>1, <2>3 DEF Work, PinIsSpared, PromptsAreCharged, RefusedPinIsErased, WorkerSteps
  <2>5. Consent'
    BY Zenon, <1>0, <2>3 DEF Consent
  <2> QED
    BY Zenon, <2>2, <2>4, <2>5 DEF Vouching
<1>4. CASE Complete
  <2>1. /\ wpc' = "idle" /\ flow' = NoFlow /\ UNCHANGED session
        /\ \/ UNCHANGED <<leases, consent>>
           \/ leases' = grant(leases, Key, now) /\ consent' = consent \ {Key}
           \/ leases' = revoke(leases, Key) /\ consent' = consent \ {Key}
    BY Zenon, <1>4 DEF Complete, Settle
  <2>2. VerifiedMeansConsent'
    <3>1. CASE UNCHANGED <<leases, consent>>
      BY Zenon, <1>0, <3>1 DEF VerifiedMeansConsent
    <3>2. CASE leases' = grant(leases, Key, now) /\ consent' = consent \ {Key}
      <4>1. (\A x \in Keys \ {Key} : leases'[x] = leases[x]) /\ ~leases'[Key].pin
        BY <1>0, <3>2, LeaseFacts
      <4> QED
        BY Zenon, <1>0, <3>2, <4>1 DEF VerifiedMeansConsent
    <3>3. CASE leases' = revoke(leases, Key) /\ consent' = consent \ {Key}
      <4>1. Weaker(leases', leases) /\ ~leases'[Key].pin
        BY Zenon, <1>0, <3>3, LeaseFacts
      <4> QED
        BY Zenon, <1>0, <3>3, <4>1 DEF VerifiedMeansConsent, Weaker
    <3> QED
      BY Zenon, <2>1, <3>1, <3>2, <3>3
  <2>3. Work' /\ PinIsSpared'
    BY Zenon, <1>0, <2>1 DEF Work, NoFlow, PinIsSpared, PromptsAreCharged, RefusedPinIsErased
  <2>4. Consent'
    BY Zenon, <2>1 DEF Consent, NoFlow
  <2> QED
    BY Zenon, <2>2, <2>3, <2>4 DEF Vouching
<1> QED
  BY Zenon, <1>1, <1>2, <1>3, <1>4

-----------------------------------------------------------------------------
(* The invariant.                                                          *)

\* The broker starts in the invariant.
LEMMA InitInv == Init => IInv
<1> SUFFICES ASSUME Init PROVE IInv
  BY Zenon
<1>1. StateOK
  <2>1. NoLease \in Lease /\ Closed \in Connections /\ NoFlow \in Flows
    BY BrokerAssumption DEF NoLease, Lease, Closed, Connections, NoFlow, Flows
  <2>2. NoJob \in Jobs
    BY BrokerAssumption DEF NoJob, Jobs, Cards
  <2>3. /\ [k \in Keys |-> NoLease] \in [Keys -> Lease]
        /\ DOMAIN [c \in Clients |-> NoAttempts] = Clients
    BY Zenon, <2>1, BrokerAssumption
  <2>4. <<>> \in Seq(Jobs) /\ 0 \in 0..MaxTime /\ 0 \in 0..MaxCards
    BY BrokerAssumption
  <2> QED
    BY Zenon, <2>1, <2>2, <2>3, <2>4 DEF Init, StateOK, WorkerSteps
<1>4. Work /\ Consent /\ PinIsSpared
  BY Zenon DEF Init, Work, Consent, PinIsSpared, PromptsAreCharged, RefusedPinIsErased, NoFlow, Closed
<1>5. VerifiedMeansConsent
  BY Zenon DEF Init, VerifiedMeansConsent, NoLease
<1> QED
  BY Zenon, <1>1, <1>4, <1>5 DEF IInv

\* Every step keeps the invariant.
LEMMA NextInv == IInv /\ [Next]_vars => IInv'
<1> SUFFICES ASSUME IInv, [Next]_vars PROVE IInv'
  BY Zenon
<1>0. StateOK /\ Vouching
  BY Zenon DEF IInv, Vouching
<1>1. CASE Next
  <2>2. StateOK'
    BY Zenon, <1>0, <1>1, TypeStep
  <2>3. Vouching'
    BY Zenon, <1>0, <1>1, OthersRevoke, RevokingSteps, PreparingSteps, EndingSteps DEF Worker
  <2> QED
    BY Zenon, <2>2, <2>3 DEF IInv, Vouching
<1>2. CASE UNCHANGED vars
  <2>1. UNCHANGED <<envVars, leases, limiter, reqVars, workVars, consent>>
    BY Zenon, <1>2 DEF vars
  <2>2. StateOK'
    BY Zenon, <1>0, <2>1 DEF StateOK, envVars, reqVars, workVars
  <2>4. Vouching'
    BY Zenon, <1>0, <2>1 DEF Vouching, VerifiedMeansConsent, Work, Consent, Key, PinIsSpared,
        PromptsAreCharged, RefusedPinIsErased, workVars
  <2> QED
    BY Zenon, <2>2, <2>4 DEF IInv, Vouching
<1> QED
  BY Zenon, <1>1, <1>2

\* The inductive invariant holds throughout, for any number of clients, cards and
\* requests.
THEOREM Inductive == Spec => []IInv
BY InitInv, NextInv, PTL DEF Spec

\* For any number of clients, cards and requests: no lease says verified and
\* no private key was used without a PIN its holder typed, whatever logins,
\* revocations and operations under way fall together (LeaseManager,
\* RawCryptoFlow, Pkcs11Broker).
THEOREM NoUseWithoutConsent == Spec => []ConsentPrecedesUse
<1>1. IInv => ConsentPrecedesUse
  <2> SUFFICES ASSUME IInv PROVE ConsentPrecedesUse
    BY Zenon
  <2>1. UseHasConsent
    BY Zenon DEF IInv, UseHasConsent, Consent, Work
  <2> QED
    BY Zenon, <2>1 DEF IInv, ConsentPrecedesUse
<1> QED
  BY <1>1, Inductive, PTL

\* For any limits of the prompts: every prompt was charged for, and no PIN the
\* card refused stays with the plugin (RawCryptoFlow, underTheOperationsPin).
THEOREM PinsAreSpared == Spec => []PinIsSpared
<1>1. IInv => PinIsSpared
  BY Zenon DEF IInv
<1> QED
  BY <1>1, Inductive, PTL

-----------------------------------------------------------------------------
(* The requests and their replies.                                         *)

\* The places in the queue that hold a job of client c.
Queued(c) == {i \in 1..Len(queue) : queue[i].client = c}
Running(c) == IF wpc # "idle" /\ job.client = c THEN 1 ELSE 0

\* A request without a reply waits for the authority, in the queue or on the
\* worker, and in one of the three only: none is dropped, none answered twice.
RepliesOwed ==
    \A c \in Clients : open[c] = asked[c] + Cardinality(Queued(c)) + Running(c)

\* A client owes no more answers than were asked for.
Bounded == \A c \in Clients : asked[c] <= made /\ open[c] <= made

-----------------------------------------------------------------------------
(* The queue of jobs.                                                      *)

\* A job at the end of the queue is one more of its client's.
LEMMA QueuedAppend ==
    ASSUME NEW q \in Seq(Jobs), NEW j \in Jobs, NEW c
    PROVE  LET S == {i \in 1..Len(q) : q[i].client = c}
               T == {i \in 1..Len(Append(q, j)) : Append(q, j)[i].client = c}
           IN  /\ IsFiniteSet(S)
               /\ Cardinality(S) \in Nat
               /\ Cardinality(T) = Cardinality(S) + (IF j.client = c THEN 1 ELSE 0)
<1> DEFINE S == {i \in 1..Len(q) : q[i].client = c}
           T == {i \in 1..Len(Append(q, j)) : Append(q, j)[i].client = c}
<1>1. IsFiniteSet(1..Len(q)) /\ S \in SUBSET (1..Len(q)) /\ Len(q) \in Nat
  BY FS_Interval
<1>2. IsFiniteSet(S) /\ Cardinality(S) \in Nat
  BY Zenon, <1>1, FS_Subset, FS_CardinalityType
<1>3. T = IF j.client = c THEN S \cup {Len(q) + 1} ELSE S
  BY <1>1
<1>4. Len(q) + 1 \notin S
  BY <1>1
<1>5. Cardinality(S \cup {Len(q) + 1}) = Cardinality(S) + 1
  <2> HIDE DEF S
  <2> QED
    BY Zenon, <1>2, <1>4, FS_AddElement
<1>6. Cardinality(T) = Cardinality(S) + (IF j.client = c THEN 1 ELSE 0)
  <2> HIDE DEF S, T
  <2> QED
    BY <1>2, <1>3, <1>5
<1> QED
  BY Zenon, <1>2, <1>6

\* The job at the head of the queue is one of its client's.
LEMMA QueuedTail ==
    ASSUME NEW q \in Seq(Jobs), q # <<>>, NEW c
    PROVE  LET S == {i \in 1..Len(q) : q[i].client = c}
               T == {i \in 1..Len(Tail(q)) : Tail(q)[i].client = c}
           IN  /\ Cardinality(T) \in Nat
               /\ Cardinality(S) = Cardinality(T) + (IF Head(q).client = c THEN 1 ELSE 0)
<1> DEFINE S == {i \in 1..Len(q) : q[i].client = c}
           T == {i \in 1..Len(Tail(q)) : Tail(q)[i].client = c}
           R == S \ {1}
           f == [i \in T |-> i + 1]
<1>1. /\ Len(q) \in Nat \ {0} /\ Len(Tail(q)) = Len(q) - 1
      /\ \A i \in 1..Len(Tail(q)) : Tail(q)[i] = q[i + 1]
      /\ Head(q) = q[1]
  BY Zenon, HeadTail
<1>2. IsFiniteSet(1..Len(q)) /\ S \in SUBSET (1..Len(q))
      /\ IsFiniteSet(1..Len(Tail(q))) /\ T \in SUBSET (1..Len(Tail(q)))
  BY <1>1, FS_Interval
<1>3. IsFiniteSet(S) /\ IsFiniteSet(T) /\ Cardinality(S) \in Nat /\ Cardinality(T) \in Nat
  BY Zenon, <1>2, FS_Subset, FS_CardinalityType
<1>4. f \in Bijection(T, R)
  <2>1. \A i \in T : i + 1 \in R
    BY <1>1
  <2>2. \A i \in R : i - 1 \in T /\ (i - 1) + 1 = i
    BY <1>1
  <2>3. \A a, b \in T : a + 1 = b + 1 => a = b
    BY <1>1
  <2> HIDE DEF T, R
  <2>4. f \in [T -> R] /\ (\A a, b \in T : f[a] = f[b] => a = b)
    BY Zenon, <2>1, <2>3
  <2>5. \A i \in R : \E a \in T : f[a] = i
    BY Zenon, <2>2
  <2> HIDE DEF f
  <2> QED
    BY ZenonT(40), <2>4, <2>5 DEF Bijection, Injection, Surjection, IsInjective
<1>5. Cardinality(R) = Cardinality(T)
  BY ZenonT(40), <1>3, <1>4, FS_Bijection DEF ExistsBijection
<1>6. 1 \in S <=> Head(q).client = c
  BY <1>1
<1>7. Cardinality(R) = IF 1 \in S THEN Cardinality(S) - 1 ELSE Cardinality(S)
  <2> HIDE DEF S
  <2> QED
    BY Zenon, <1>3, FS_RemoveElement
<1>8. Cardinality(S) = Cardinality(T) + (IF Head(q).client = c THEN 1 ELSE 0)
  <2> HIDE DEF S, T, R
  <2> QED
    BY <1>3, <1>5, <1>6, <1>7
<1> QED
  BY Zenon, <1>3, <1>8

-----------------------------------------------------------------------------
(* No reply is lost.                                                       *)

Counts == CountsOK /\ Bounded /\ RepliesOwed

\* Steps that neither take nor answer a request.
Passes == UNCHANGED reqVars /\ UNCHANGED job /\ (wpc = "idle" <=> wpc' = "idle")

\* The steps, by whether they touch the counts.
LEMMA PassingSteps ==
    ASSUME Next
    PROVE  \/ Passes
           \/ \E c \in Clients : login(c) \/ Authorized(c) \/ publicData(c)
           \/ \E c \in Clients, kind \in Private : runCrypto(c, kind)
           \/ Take \/ Drain \/ Complete
<1>1. ASSUME Tick \/ InsertCard \/ RemoveCard \/ onCardRemoved \/ quiesce \/ ShutDown
      PROVE  Passes
  BY Zenon, <1>1 DEF Passes, Tick, InsertCard, RemoveCard, onCardRemoved, quiesce, ShutDown, workVars
<1>2. ASSUME SweepSession PROVE Passes
  BY Zenon, <1>2 DEF Passes, SweepSession
<1>3. ASSUME NEW c \in Clients, onClientDisconnected(c) \/ logout(c) \/ loginActive(c)
      PROVE  Passes
  BY Zenon, <1>3 DEF Passes, onClientDisconnected, logout, loginActive, workVars
<1>4. ASSUME ReadLease \/ PromptAgain PROVE Passes
  BY Zenon, <1>4 DEF Passes, ReadLease, PromptAgain, Charge, Finish
<1>5. ASSUME Open \/ CheckRequest \/ ChannelLost PROVE Passes
  BY Zenon, <1>5 DEF Passes, Open, CheckRequest, ChannelLost, Preflight, Finish
<1>6. ASSUME RaisePrompt \/ Answer \/ MarkVerified PROVE Passes
  BY Zenon, <1>6 DEF Passes, RaisePrompt, Answer, MarkVerified, Finish
<1>7. ASSUME RunTerminal PROVE Passes
  BY Zenon, <1>7 DEF Passes, RunTerminal, Finish
<1> QED
  BY Zenon, <1>1, <1>2, <1>3, <1>4, <1>5, <1>6, <1>7 DEF Next, Worker

\* What Enqueue does to the queue and the open requests.
LEMMA EnqueueStep ==
    ASSUME TypeOK, NEW c0 \in Clients, NEW kind \in {"login", "public"} \cup Private,
           seated # 0, Enqueue(c0, kind)
    PROVE  \/ \A c \in Clients :
                /\ Cardinality(Queued(c))' = Cardinality(Queued(c)) + (IF c = c0 THEN 1 ELSE 0)
                /\ open'[c] = open[c] + (IF c = c0 /\ kind # "login" THEN 1 ELSE 0)
           \/ \A c \in Clients :
                /\ Cardinality(Queued(c))' = Cardinality(Queued(c))
                /\ open'[c] = open[c] - (IF c = c0 /\ kind = "login" THEN 1 ELSE 0)
<1> DEFINE j == [client |-> c0, kind |-> kind, card |-> seated]
<1>1. j \in Jobs /\ j.client = c0 /\ queue \in Seq(Jobs)
  BY DEF TypeOK, StateOK, CountsOK, Jobs, Cards
<1>2. /\ open \in [Clients -> 0..MaxReqs] /\ \A c \in Clients : open[c] \in Int
      /\ \A c \in Clients : open[c] + 0 = open[c] /\ open[c] - 0 = open[c]
  BY BrokerAssumption DEF TypeOK, StateOK, CountsOK
<1>3. CASE queue' = Append(queue, j) /\ open' = [open EXCEPT ![c0] = IF kind = "login" THEN @ ELSE @ + 1]
  <2>1. \A c \in Clients : open'[c] = open[c] + (IF c = c0 /\ kind # "login" THEN 1 ELSE 0)
    BY Zenon, <1>2, <1>3
  <2>2. ASSUME NEW c \in Clients
        PROVE  Cardinality(Queued(c))' = Cardinality(Queued(c)) + (IF c = c0 THEN 1 ELSE 0)
    <3>1. \A q \in Seq(Jobs), k \in Jobs :
            Cardinality({i \in 1..Len(Append(q, k)) : Append(q, k)[i].client = c})
                = Cardinality({i \in 1..Len(q) : q[i].client = c}) + (IF k.client = c THEN 1 ELSE 0)
      BY Zenon, QueuedAppend
    <3>2. Queued(c)' = {i \in 1..Len(Append(queue, j)) : Append(queue, j)[i].client = c}
      BY Zenon, <1>3 DEF Queued
    <3> HIDE DEF j
    <3> QED
      BY Zenon, <1>1, <3>1, <3>2 DEF Queued
  <2> QED
    BY Zenon, <2>1, <2>2
<1>4. CASE queue' = queue /\ open' = [open EXCEPT ![c0] = IF kind = "login" THEN @ - 1 ELSE @]
  <2>1. \A c \in Clients : open'[c] = open[c] - (IF c = c0 /\ kind = "login" THEN 1 ELSE 0)
    BY Zenon, <1>2, <1>4
  <2>2. \A c \in Clients : Cardinality(Queued(c))' = Cardinality(Queued(c))
    BY Zenon, <1>4 DEF Queued
  <2> QED
    BY Zenon, <2>1, <2>2
<1> QED
  BY Zenon, <1>3, <1>4 DEF Enqueue

\* Every step keeps the books.
LEMMA RepliesStep ==
    ASSUME TypeOK, Counts, Next
    PROVE  Counts'
<1> DEFINE Card(c) == Cardinality(Queued(c))
<1>1. /\ MaxReqs \in Nat /\ made \in 0..MaxReqs /\ made \in Nat
      /\ asked \in [Clients -> Int] /\ open \in [Clients -> Int]
      /\ \A c \in Clients :
           /\ asked[c] \in Nat /\ open[c] \in Nat /\ asked[c] <= made /\ open[c] <= made
           /\ open[c] = asked[c] + Card(c) + Running(c)
  BY BrokerAssumption DEF Counts, CountsOK, Bounded, RepliesOwed
<1>2. \A c \in Clients : Card(c) \in Nat /\ Running(c) \in Nat
  <2>1. queue \in Seq(Jobs) /\ NoJob \in Jobs
    BY BrokerAssumption DEF TypeOK, StateOK, CountsOK, NoJob, Jobs, Cards
  <2> QED
    BY Zenon, <2>1, QueuedAppend DEF Queued, Running
<1> DEFINE Booked ==
      /\ made' \in Nat /\ made' <= MaxReqs
      /\ asked' \in [Clients -> Int] /\ open' \in [Clients -> Int]
      /\ \A c \in Clients :
           /\ asked'[c] \in Nat /\ open'[c] \in Nat
           /\ asked'[c] <= made' /\ open'[c] <= made'
           /\ open'[c] = asked'[c] + Card(c)' + Running(c)'
<1>3. Booked => Counts'
  <2>1. \A n \in Nat : n <= made' /\ made' \in Nat /\ made' <= MaxReqs => n \in 0..MaxReqs
    BY <1>1
  <2> QED
    BY <2>1 DEF Counts, CountsOK, Bounded, RepliesOwed
<1>q. UNCHANGED queue => \A c \in Clients : Card(c)' = Card(c)
  <2>1. UNCHANGED queue => \A c \in Clients : Queued(c)' = Queued(c)
    BY Zenon DEF Queued
  <2> QED
    BY Zenon, <2>1
<1>r. UNCHANGED job /\ (wpc = "idle" <=> wpc' = "idle") => \A c \in Clients : Running(c)' = Running(c)
  BY Zenon DEF Running
<1> HIDE DEF Card
<1>4. CASE Passes
  BY <1>1, <1>2, <1>4, <1>q, <1>r, <1>3 DEF Passes, reqVars
<1>5. ASSUME NEW c0 \in Clients, login(c0)
      PROVE  Booked
  BY <1>1, <1>2, <1>5, <1>q, <1>r DEF login, Asks, workVars
<1>6. ASSUME NEW c0 \in Clients, Authorized(c0)
      PROVE  Booked
  <2>1. /\ made' = made /\ asked[c0] > 0 /\ UNCHANGED <<wpc, job>>
        /\ \A c \in Clients : asked'[c] = asked[c] - (IF c = c0 THEN 1 ELSE 0)
        /\ asked' \in [Clients -> Int]
    BY <1>1, <1>6 DEF Authorized, workVars
  <2>2. CASE Replied(c0) /\ UNCHANGED queue
    BY <1>1, <1>2, <1>q, <1>r, <2>1, <2>2 DEF Replied
  <2>3. CASE seated # 0 /\ Enqueue(c0, "login")
    <3>1. open' \in [Clients -> Int]
      BY <1>1, <2>3 DEF Enqueue
    <3>2. \/ \A c \in Clients : Card(c)' = Card(c) + (IF c = c0 THEN 1 ELSE 0) /\ open'[c] = open[c]
          \/ \A c \in Clients : Card(c)' = Card(c) /\ open'[c] = open[c] - (IF c = c0 THEN 1 ELSE 0)
      BY <1>1, <2>3, EnqueueStep DEF Card
    <3> QED
      BY <1>1, <1>2, <1>r, <2>1, <3>1, <3>2
  <2> QED
    BY Zenon, <1>6, <2>2, <2>3 DEF Authorized
<1>7. ASSUME NEW c0 \in Clients, NEW kind \in {"public"} \cup Private, Asks(c0),
             UNCHANGED <<asked, wpc, job>>,
             UNCHANGED <<queue, open>> \/ (seated # 0 /\ Enqueue(c0, kind))
      PROVE  Booked
  <2>1. made' = made + 1 /\ made < MaxReqs /\ kind # "login"
    BY Zenon, <1>7 DEF Asks, Private
  <2>2. CASE UNCHANGED <<queue, open>>
    BY <1>1, <1>2, <1>7, <1>q, <1>r, <2>1, <2>2
  <2>3. CASE seated # 0 /\ Enqueue(c0, kind)
    <3>1. open' \in [Clients -> Int]
      BY <1>1, <2>3 DEF Enqueue
    <3>2. \/ \A c \in Clients : /\ Card(c)' = Card(c) + (IF c = c0 THEN 1 ELSE 0)
                                /\ open'[c] = open[c] + (IF c = c0 THEN 1 ELSE 0)
          \/ \A c \in Clients : Card(c)' = Card(c) /\ open'[c] = open[c]
      BY <1>1, <2>1, <2>3, EnqueueStep DEF Card
    <3> QED
      BY <1>1, <1>2, <1>7, <1>r, <2>1, <3>1, <3>2
  <2> QED
    BY Zenon, <1>7, <2>2, <2>3
<1>8. ASSUME NEW c0 \in Clients, publicData(c0)
      PROVE  Booked
  BY Zenon, <1>7, <1>8 DEF publicData, workVars
<1>9. ASSUME NEW c0 \in Clients, NEW kind \in Private, runCrypto(c0, kind)
      PROVE  Booked
  BY Zenon, <1>7, <1>9 DEF runCrypto, workVars
<1>10. queue # <<>> /\ queue' = Tail(queue)
         => \A c \in Clients : /\ Card(c)' \in Nat
                               /\ Card(c) = Card(c)' + (IF Head(queue).client = c THEN 1 ELSE 0)
  <2> SUFFICES ASSUME queue # <<>>, queue' = Tail(queue), NEW c \in Clients
               PROVE  /\ Card(c)' \in Nat
                      /\ Card(c) = Card(c)' + (IF Head(queue).client = c THEN 1 ELSE 0)
    BY Zenon
  <2>1. queue \in Seq(Jobs)
    BY Zenon DEF TypeOK, StateOK, CountsOK
  <2>2. Queued(c)' = {i \in 1..Len(Tail(queue)) : Tail(queue)[i].client = c}
    BY Zenon DEF Queued
  <2> QED
    BY Zenon, <2>1, <2>2, QueuedTail DEF Queued, Card
<1>11. queue # <<>> => Head(queue).client \in Clients
  <2>1. queue # <<>> => Head(queue) \in Jobs
    BY Zenon, HeadTail DEF TypeOK, StateOK, CountsOK
  <2> QED
    BY Zenon, <2>1 DEF Jobs
<1>12. ASSUME Take PROVE Booked
  <2>1. \A c \in Clients : Running(c) = 0 /\ Running(c)' = IF Head(queue).client = c THEN 1 ELSE 0
    BY Zenon, <1>12 DEF Take, Running
  <2>2. \A c \in Clients : Card(c)' \in Nat /\ Card(c) = Card(c)' + Running(c)'
    BY Zenon, <1>10, <1>12, <2>1 DEF Take
  <2>3. UNCHANGED <<made, asked, open>>
    BY Zenon, <1>12 DEF Take
  <2> QED
    BY <1>1, <1>2, <2>1, <2>2, <2>3
<1>13. ASSUME NEW c0 \in Clients, open' = [open EXCEPT ![c0] = @ - 1], UNCHANGED <<made, asked>>,
              \A c \in Clients : /\ Card(c)' \in Nat /\ Running(c)' \in Nat
                                 /\ Card(c) + Running(c) = Card(c)' + Running(c)' + (IF c = c0 THEN 1 ELSE 0)
       PROVE  Booked
  <2>1. open' \in [Clients -> Int] /\ \A c \in Clients : open'[c] = open[c] - (IF c = c0 THEN 1 ELSE 0)
    BY <1>1, <1>13
  <2> QED
    BY <1>1, <1>2, <1>13, <2>1
<1>14. ASSUME Drain PROVE Booked
  <2>1. \A c \in Clients : Running(c)' = Running(c)
    BY Zenon, <1>14, <1>r DEF Drain, workVars
  <2>2. /\ open' = [open EXCEPT ![Head(queue).client] = @ - 1] /\ UNCHANGED <<made, asked>>
        /\ queue # <<>> /\ queue' = Tail(queue)
    BY Zenon, <1>14 DEF Drain, Replied
  <2>3. \A c \in Clients : /\ Card(c)' \in Nat /\ Running(c)' \in Nat
                           /\ Card(c) + Running(c) = Card(c)' + Running(c)'
                                  + (IF c = Head(queue).client THEN 1 ELSE 0)
    BY <1>2, <1>10, <2>1, <2>2
  <2> QED
    BY Zenon, <1>11, <1>13, <2>2, <2>3
<1>15. ASSUME Complete PROVE Booked
  <2>1. \A c \in Clients : Running(c)' = 0 /\ Running(c) = IF job.client = c THEN 1 ELSE 0
    BY Zenon, <1>15 DEF Complete, Running
  <2>2. /\ open' = [open EXCEPT ![job.client] = @ - 1] /\ UNCHANGED <<made, asked>>
        /\ UNCHANGED queue
    BY Zenon, <1>15 DEF Complete, Replied
  <2>3. job.client \in Clients
    BY Zenon DEF TypeOK, StateOK, CountsOK, Jobs
  <2>4. \A c \in Clients : /\ Card(c)' \in Nat /\ Running(c)' \in Nat
                           /\ Card(c) + Running(c) = Card(c)' + Running(c)'
                                  + (IF c = job.client THEN 1 ELSE 0)
    BY <1>2, <1>q, <2>1, <2>2
  <2> QED
    BY Zenon, <1>13, <2>2, <2>3, <2>4
<1> QED
  BY <1>3, <1>4, <1>5, <1>6, <1>8, <1>9, <1>12, <1>14, <1>15, PassingSteps

-----------------------------------------------------------------------------
(* The theorems.                                                           *)

\* Nothing is counted at the start.
LEMMA InitCounts == Init => Counts
<1> SUFFICES ASSUME Init PROVE Counts
  BY Zenon
<1>1. Bounded
  BY DEF Init, Bounded
<1>2. RepliesOwed
  <2>1. \A c \in Clients : Queued(c) = {} /\ Running(c) = 0 /\ open[c] = 0 /\ asked[c] = 0
    BY DEF Init, Queued, Running
  <2> QED
    BY <2>1, FS_EmptySet DEF RepliesOwed
<1>3. CountsOK
  BY BrokerAssumption DEF Init, CountsOK
<1> QED
  BY Zenon, <1>1, <1>2, <1>3 DEF Counts, CountsOK

\* Every step keeps the counts.
LEMMA NextCounts == IInv /\ Counts /\ [Next]_vars => Counts'
<1> SUFFICES ASSUME IInv, Counts, [Next]_vars PROVE Counts'
  BY Zenon
<1>1. CASE Next
  BY Zenon, <1>1, RepliesStep DEF IInv, Counts, TypeOK
<1>2. CASE UNCHANGED vars
  <2>1. UNCHANGED <<made, asked, open, queue, wpc, job>>
    BY Zenon, <1>2 DEF vars, reqVars, workVars
  <2> QED
    BY <2>1 DEF Counts, CountsOK, CountsOK, Bounded, RepliesOwed, Queued, Running
<1> QED
  BY Zenon, <1>1, <1>2

\* The counters of open requests agree with the places the requests are in.
THEOREM CountsInductive == Spec => []Counts
BY InitCounts, NextCounts, Inductive, PTL DEF Spec

\* Every variable of the broker keeps its type, the counters of requests among
\* them: no client is answered more often than it asked.
THEOREM TypeCorrect == Spec => []TypeOK
<1>1. IInv /\ Counts => TypeOK
  BY Zenon DEF IInv, Counts, TypeOK
<1> QED
  BY <1>1, Inductive, CountsInductive, PTL

\* An open request waits for the authority, in the queue or on the worker, and
\* in one of them only: whatever is refused, drained or skipped at a shutdown,
\* no reply is lost and none is sent twice (Pkcs11Broker's one-shot Reply).
\* With the worker's fairness this is what EveryRequestIsAnswered rests on.
THEOREM NoReplyIsLost == Spec => []RepliesOwed
<1>1. Counts => RepliesOwed
  BY Zenon DEF Counts, CountsOK
<1> QED
  BY <1>1, CountsInductive, PTL
=============================================================================
