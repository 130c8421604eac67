---------------------------- MODULE Pkcs11Broker ----------------------------
(***************************************************************************)
(* The agent's side of PKCS#11 for one reader.  The dispatch thread admits *)
(* requests (Pkcs11Broker), an authority decides logins in its own time,   *)
(* the reader's worker runs what was admitted (AgentCore's seams and       *)
(* RawCryptoFlow over LmRawCrypto), the monitor thread revokes the leases  *)
(* of a card that is gone, and the host announces locks, disconnects and   *)
(* the shutdown.  They share the leases, the rate limiter of the PIN       *)
(* prompts and the shutdown token.                                         *)
(*                                                                         *)
(* A request is admitted in one step.  A worker's step ends where it reads *)
(* or writes what others change: the leases, the limiter, the token, the   *)
(* user.  The worker's connection is to the card in the reader whenever it *)
(* is acquired (CardSessionHolder shows that no job runs on an older one). *)
(***************************************************************************)
EXTENDS LeaseManager, RateLimiter

CONSTANTS
    Clients,    \* callers, by unique bus name
    MaxCards,   \* bound: cards inserted in a behaviour
    MaxReqs,    \* bound: requests made in a behaviour
    MaxTime     \* bound: the clock

ASSUME BrokerAssumption ==
    {MaxCards, MaxReqs, MaxTime} \subseteq Nat /\ MaxCards > 0 /\ Clients # {}

Cards == 1..MaxCards
Keys == Clients \X Cards

\* "ord" and "aa" are operations with a private key: an ordinary one, and one
\* the card marks for consent per operation.  "public" is CertDer, PublicKey.
Private == {"ord", "aa"}
Jobs == [client : Clients, kind : {"login", "public"} \cup Private, card : Cards]
NoJob == [client |-> CHOOSE c \in Clients : TRUE, kind |-> "public", card |-> 1]

\* The worker's connection: its card, the PIN left with the plugin for the
\* lease, and whether the card has accepted a PIN on it.
Connections == [card : 0..MaxCards, deposit : {"none", "right", "wrong"}, verified : BOOLEAN]
Closed == [card |-> 0, deposit |-> "none", verified |-> FALSE]

\* What runOp keeps between its steps.  Of the outcomes only Ok and AuthFailed
\* are treated apart by the broker; it forwards every other one as it is.
Flows == [verified : BOOLEAN, vouched : BOOLEAN, pin : {"none", "right", "wrong"},
          charged : BOOLEAN, retry : BOOLEAN, out : {"none", "Ok", "AuthFailed", "failed"}]
NoFlow == [verified |-> FALSE, vouched |-> FALSE, pin |-> "none",
           charged |-> FALSE, retry |-> FALSE, out |-> "none"]

VARIABLES
    now,        \* steady_clock
    seated,     \* the card the registry holds for the reader, 0 for none
    inserted,   \* cards inserted so far
    dying,      \* cards whose removal hook has still to revoke their leases
    gone,       \* clients that disconnected
    down,       \* the shutdown token is cancelled
    leases,     \* LeaseManager::m_leases
    limiter,    \* RateLimiter::m_callers of the PIN prompts
    made,       \* requests made so far
    asked,      \* per client, logins that wait for the authority
    queue,      \* the jobs handed to the worker
    wpc,        \* where the worker is
    job,        \* the job it runs
    flow,       \* locals of runOp
    session,    \* the worker's connection
    consent,    \* history: keys whose holder gave a PIN since login or revocation
    open        \* history: requests without a reply, per client

envVars    == <<now, seated, inserted, dying, gone, down>>
reqVars    == <<made, asked, queue, open>>
workVars   == <<wpc, job, flow, session>>
vars == <<envVars, leases, limiter, reqVars, workVars, consent>>

WorkerSteps == {"idle", "start", "open", "preflight", "prompt", "asking", "terminal",
                "mark", "clear", "again", "complete"}

\* Requests are bounded by MaxReqs, and so is what a client has open.
CountsOK ==
    /\ made \in 0..MaxReqs
    /\ asked \in [Clients -> 0..MaxReqs] /\ open \in [Clients -> 0..MaxReqs]

StateOK ==
    /\ now \in 0..MaxTime /\ seated \in 0..MaxCards /\ inserted \in 0..MaxCards
    /\ dying \subseteq Cards /\ gone \subseteq Clients /\ down \in BOOLEAN
    /\ leases \in [Keys -> Lease]
    /\ DOMAIN limiter = Clients
    /\ queue \in Seq(Jobs)
    /\ wpc \in WorkerSteps /\ job \in Jobs /\ flow \in Flows /\ session \in Connections
    /\ consent \subseteq Keys

TypeOK == CountsOK /\ StateOK

Init ==
    /\ now = 0 /\ seated = 0 /\ inserted = 0 /\ dying = {} /\ gone = {} /\ down = FALSE
    /\ leases = [k \in Keys |-> NoLease] /\ limiter = [c \in Clients |-> NoAttempts]
    /\ made = 0 /\ queue = <<>>
    /\ asked = [c \in Clients |-> 0] /\ open = [c \in Clients |-> 0]
    /\ wpc = "idle" /\ job = NoJob /\ flow = NoFlow /\ session = Closed
    /\ consent = {}

-----------------------------------------------------------------------------
(* The clock, the reader, the clients and the host.                        *)

Tick ==
    /\ now < MaxTime
    /\ now' = now + 1
    /\ UNCHANGED <<seated, inserted, dying, gone, down, leases, limiter, reqVars,
                   workVars, consent>>

InsertCard ==
    /\ seated = 0 /\ inserted < MaxCards
    /\ inserted' = inserted + 1 /\ seated' = inserted + 1
    /\ UNCHANGED <<now, dying, gone, down, leases, limiter, reqVars, workVars, consent>>

\* The card leaves the registry first; the removal hook follows.
RemoveCard ==
    /\ seated # 0
    /\ seated' = 0 /\ dying' = dying \cup {seated}
    /\ UNCHANGED <<now, inserted, gone, down, leases, limiter, reqVars, workVars, consent>>

onCardRemoved ==
    \E card \in dying :
        /\ dying' = dying \ {card}
        /\ leases' = revokeCard(leases, card)
        /\ consent' = {k \in consent : k[2] # card}
        /\ UNCHANGED <<now, seated, inserted, gone, down, limiter, reqVars, workVars>>

onClientDisconnected(c) ==
    /\ c \notin gone
    /\ gone' = gone \cup {c}
    /\ leases' = revokeCaller(leases, c)
    /\ consent' = {k \in consent : k[1] # c}
    /\ UNCHANGED <<now, seated, inserted, dying, down, limiter, reqVars, workVars>>

\* A locked screen and a sleep revoke the leases of every card the registry
\* holds.  Sleep also closes the readers' connections, which the worker does
\* between two jobs: one of the steps of SweepSession.
quiesce ==
    /\ seated # 0
    /\ leases' = revokeCard(leases, seated)
    /\ consent' = {k \in consent : k[2] # seated}
    /\ UNCHANGED <<envVars, limiter, reqVars, workVars>>

ShutDown ==
    /\ ~down
    /\ down' = TRUE
    /\ UNCHANGED <<now, seated, inserted, dying, gone, leases, limiter, reqVars,
                   workVars, consent>>

\* The holder closes an idle connection and erases its secrets.
SweepSession ==
    /\ wpc = "idle" /\ session # Closed
    /\ session' = Closed
    /\ UNCHANGED <<envVars, leases, limiter, reqVars, wpc, job, flow, consent>>

-----------------------------------------------------------------------------
(* The dispatch thread.                                                    *)

Asks(c) ==
    /\ c \notin gone /\ ~down /\ made < MaxReqs
    /\ made' = made + 1

\* Reply is one shot: an answer, or a failure when the last copy is dropped.
Replied(c) == open' = [open EXCEPT ![c] = @ - 1]

\* enqueueOnReaderWorker; a full queue or a reader that left refuses the job,
\* and the reply fails.
Enqueue(c, kind) ==
    \/ /\ queue' = Append(queue, [client |-> c, kind |-> kind, card |-> seated])
       /\ open' = [open EXCEPT ![c] = IF kind = "login" THEN @ ELSE @ + 1]
    \/ /\ open' = [open EXCEPT ![c] = IF kind = "login" THEN @ - 1 ELSE @]
       /\ UNCHANGED queue

login(c) ==
    /\ Asks(c)
    /\ asked' = [asked EXCEPT ![c] = @ + 1]
    /\ open' = [open EXCEPT ![c] = @ + 1]
    /\ UNCHANGED <<envVars, leases, limiter, queue, workVars, consent>>

\* The authority's answer, and continueLogin on its thread: refused, shutting
\* down or without a card the reply fails.
Authorized(c) ==
    /\ asked[c] > 0
    /\ asked' = [asked EXCEPT ![c] = @ - 1]
    /\ \/ Replied(c) /\ UNCHANGED queue
       \/ ~down /\ seated # 0 /\ Enqueue(c, "login")
    /\ UNCHANGED <<envVars, leases, limiter, made, workVars, consent>>

\* CertDer and PublicKey: no lease, no PIN.  Without a card they fail.
publicData(c) ==
    /\ Asks(c)
    /\ \/ seated = 0 /\ UNCHANGED <<queue, open>>
       \/ seated # 0 /\ Enqueue(c, "public")
    /\ UNCHANGED <<envVars, leases, limiter, asked, workVars, consent>>

\* logout is a no-op without a card: removal has revoked the lease, or will.
logout(c) ==
    /\ c \notin gone /\ ~down /\ seated # 0
    /\ leases' = revoke(leases, <<c, seated>>)
    /\ consent' = consent \ {<<c, seated>>}
    /\ UNCHANGED <<envVars, limiter, reqVars, workVars>>

loginActive(c) ==
    /\ c \notin gone /\ ~down /\ seated # 0
    /\ leases' = isActive(leases, <<c, seated>>, now)
    /\ UNCHANGED <<envVars, limiter, reqVars, workVars, consent>>

Admits(e) == Active(e, now)

\* signRaw, decrypt and derive: a mechanism that is not wired, no card and no
\* live lease fail; the rest is the worker's.
runCrypto(c, kind) ==
    /\ Asks(c)
    /\ \/ UNCHANGED <<leases, queue, open>>
       \/ /\ seated # 0
          /\ leases' = touch(leases, <<c, seated>>, now)
          /\ \/ ~Admits(leases[<<c, seated>>]) /\ UNCHANGED <<queue, open>>
             \/ Admits(leases[<<c, seated>>]) /\ Enqueue(c, kind)
    /\ UNCHANGED <<envVars, limiter, asked, workVars, consent>>

-----------------------------------------------------------------------------
(* The worker.                                                             *)

Key == <<job.client, job.card>>
Finish(out) == flow' = [flow EXCEPT !.out = out] /\ wpc' = "complete"

Take ==
    /\ wpc = "idle" /\ queue # <<>>
    /\ job' = Head(queue) /\ queue' = Tail(queue)
    /\ wpc' = IF Head(queue).kind \in Private THEN "start" ELSE "open"
    /\ UNCHANGED <<envVars, leases, limiter, made, asked, open, flow, session, consent>>

\* Fault: the jobs of a stopped worker go without their replies.
Forgotten ==
    /\ down /\ queue # <<>>
    /\ queue' = Tail(queue)
    /\ UNCHANGED <<envVars, leases, limiter, made, asked, open, workVars, consent>>

\* Jobs a stopped worker leaves behind: their replies fail when they are
\* destroyed.
Drain ==
    /\ down /\ queue # <<>>
    /\ Replied(Head(queue).client)
    /\ queue' = Tail(queue)
    /\ UNCHANGED <<envVars, leases, limiter, made, asked, workVars, consent>>

\* allowPrompt: asked before every prompt; a refusal ends the operation.
Charge(next) ==
    LET c == job.client
    IN  /\ limiter' = allow(limiter, c, now)
        /\ \/ /\ Allowed(limiter[c], now)
              /\ flow' = [flow EXCEPT !.charged = TRUE]
              /\ wpc' = next
           \/ /\ ~Allowed(limiter[c], now)
              /\ Finish("failed")

\* The top of runOp: a cold lease is charged before anything is opened.
ReadLease ==
    /\ wpc = "start"
    /\ \/ /\ leases[Key].pin
          /\ flow' = [flow EXCEPT !.verified = TRUE, !.vouched = Key \in consent]
          /\ wpc' = "open"
          /\ UNCHANGED limiter
       \/ /\ ~leases[Key].pin
          /\ Charge("open")
    /\ UNCHANGED <<envVars, leases, reqVars, job, session, consent>>

\* CardSessionHolder::acquire.  A login and a read of public data end here;
\* the other operations look at the token first.
Open ==
    LET private == job.kind \in Private
    IN  /\ wpc = "open"
        /\ \/ /\ private /\ down
              /\ Finish("failed") /\ UNCHANGED session
           \/ /\ Finish("failed") /\ UNCHANGED session
           \/ /\ seated # 0
              /\ session' = IF session.card = seated THEN session
                            ELSE [Closed EXCEPT !.card = seated]
              /\ \/ private /\ wpc' = "preflight" /\ UNCHANGED flow
                 \/ ~private /\ Finish("Ok")
        /\ UNCHANGED <<envVars, leases, limiter, reqVars, job, consent>>

\* The refusals of LmRawCrypto's preflight; a lost card refuses as well.
Preflight(next) ==
    \/ Finish("failed")
    \/ session.card = seated /\ next

CheckRequest ==
    /\ wpc = "preflight"
    /\ \/ down /\ Finish("failed")
       \/ /\ ~down
          /\ Preflight(/\ wpc' = IF flow.verified THEN "terminal" ELSE "prompt"
                       /\ UNCHANGED flow)
    /\ UNCHANGED <<envVars, leases, limiter, reqVars, job, session, consent>>

RaisePrompt ==
    /\ wpc = "prompt"
    /\ wpc' = "asking"
    /\ UNCHANGED <<envVars, leases, limiter, reqVars, job, flow, session, consent>>

\* The user types a PIN, declines or cannot be asked.
Answer ==
    /\ wpc = "asking"
    /\ \/ Finish("failed")
       \/ /\ \E p \in {"right", "wrong"} : flow' = [flow EXCEPT !.pin = p, !.charged = FALSE]
          /\ wpc' = "terminal"
    /\ UNCHANGED <<envVars, leases, limiter, reqVars, job, session, consent>>

\* What the plugin and the card make of an operation with this PIN.
CardAnswers(kind, pin) ==
    {"CardError", "failed"} \cup
    (IF pin = "wrong" THEN {"AuthFailed"}
     ELSE IF pin = "right" \/ session.deposit = "right" \/ session.verified THEN {"Ok"}
     ELSE {})

\* Fault: the PIN stays with the plugin whatever the card said.
AlwaysKept(kind, pin, out) == IF pin # "none" THEN pin ELSE session.deposit

\* underTheOperationsPin: only an ordinary key's success leaves a PIN behind.
Kept(kind, pin, out) ==
    IF kind = "ord" /\ out = "Ok" THEN (IF pin # "none" THEN pin ELSE session.deposit)
    ELSE "none"

\* The card wants consent for every operation with the key: the PIN must be
\* the operation's own, whatever the lease says.
AsksEachTime(kind) == kind = "aa"

RunTerminal ==
    LET kind == job.kind IN
    /\ wpc = "terminal"
    /\ \/ /\ down
          /\ Finish("failed") /\ UNCHANGED <<session, consent>>
       \/ /\ ~down /\ AsksEachTime(kind) /\ flow.pin = "none"
          /\ wpc' = "again" /\ flow' = [flow EXCEPT !.retry = TRUE]
          /\ UNCHANGED <<session, consent>>
       \/ /\ ~down /\ (~AsksEachTime(kind) \/ flow.pin # "none")
          /\ \E out \in CardAnswers(kind, flow.pin) :
                /\ out # "CardError" => session.card = seated
                /\ session' = [session EXCEPT !.deposit = Kept(kind, flow.pin, out),
                                              !.verified = @ \/ (out = "Ok" /\ flow.pin = "right")]
                /\ consent' = IF out = "Ok" /\ flow.pin = "right" THEN consent \cup {Key} ELSE consent
                /\ \/ /\ out = "CardError" /\ flow.verified /\ ~flow.retry
                      /\ wpc' = "clear" /\ flow' = [flow EXCEPT !.retry = TRUE]
                   \/ /\ out = "Ok" /\ flow.pin # "none" /\ kind = "ord"
                      /\ wpc' = "mark" /\ UNCHANGED flow
                   \/ /\ ~(out = "CardError" /\ flow.verified /\ ~flow.retry)
                      /\ ~(out = "Ok" /\ flow.pin # "none" /\ kind = "ord")
                      /\ Finish(IF out = "CardError" THEN "failed" ELSE out)
    /\ UNCHANGED <<envVars, leases, limiter, reqVars, job>>

MarkVerified ==
    /\ wpc = "mark"
    /\ leases' = markPinVerified(leases, Key)
    /\ Finish("Ok")
    /\ UNCHANGED <<envVars, limiter, reqVars, job, session, consent>>

\* A verified lease met a channel that is not: the key is resolved again.
ChannelLost ==
    /\ wpc = "clear"
    /\ leases' = clearPinVerified(leases, Key)
    /\ \/ down /\ Finish("failed")
       \/ ~down /\ Preflight(wpc' = "again" /\ UNCHANGED flow)
    /\ UNCHANGED <<envVars, limiter, reqVars, job, session, consent>>

PromptAgain ==
    /\ wpc = "again"
    /\ \/ /\ down
          /\ Finish("failed") /\ UNCHANGED limiter
       \/ /\ ~down
          /\ Charge("prompt")
    /\ UNCHANGED <<envVars, leases, reqVars, job, session, consent>>

\* What the broker's continuation does to the leases.
Settle(out) ==
    \/ /\ job.kind = "login" /\ out = "Ok"
       /\ leases' = grant(leases, Key, now) /\ consent' = consent \ {Key}
    \/ /\ out = "AuthFailed"
       /\ leases' = revoke(leases, Key) /\ consent' = consent \ {Key}
    \/ /\ ~(job.kind = "login" /\ out = "Ok") /\ out # "AuthFailed"
       /\ UNCHANGED <<leases, consent>>

\* After a shutdown the completion is skipped and the reply is dropped.
Complete ==
    /\ wpc = "complete"
    /\ \/ down /\ UNCHANGED <<leases, consent>>
       \/ ~down /\ Settle(flow.out)
    /\ Replied(job.client)
    /\ wpc' = "idle" /\ job' = NoJob /\ flow' = NoFlow
    /\ UNCHANGED <<envVars, limiter, made, asked, queue, session>>

Worker ==
    \/ Take \/ ReadLease \/ Open \/ CheckRequest \/ RaisePrompt \/ RunTerminal
    \/ MarkVerified \/ ChannelLost \/ PromptAgain \/ Complete

Next ==
    \/ Tick \/ InsertCard \/ RemoveCard \/ onCardRemoved \/ quiesce \/ ShutDown \/ SweepSession
    \/ \E c \in Clients :
          \/ onClientDisconnected(c) \/ login(c) \/ Authorized(c) \/ publicData(c) \/ logout(c) \/ loginActive(c)
          \/ \E kind \in Private : runCrypto(c, kind)
    \/ Worker \/ Answer \/ Drain

Spec == Init /\ [][Next]_vars

LiveSpec ==
    /\ Spec
    /\ WF_vars(Worker) /\ WF_vars(Answer) /\ WF_vars(Drain)
    /\ \A c \in Clients : WF_vars(Authorized(c))

-----------------------------------------------------------------------------
(* Properties.                                                             *)

\* A lease says that its PIN was verified only while its holder has given the
\* card a PIN since the login: no logout, removal, lock, disconnect or new
\* login leaves the bit of an earlier one, and no operation that started
\* under one login sets it on the next (LeaseManager::grant, runOp).
VerifiedMeansConsent == \A k \in Keys : leases[k].pin => k \in consent

\* A private key was used only with a PIN typed for that operation, or, for
\* an ordinary key, under a lease whose holder had typed one (RawCryptoFlow:
\* PIN-as-consent; LmRawCrypto: consent per operation).
UseHasConsent ==
    wpc \in {"mark", "complete"} /\ job.kind \in Private /\ flow.out \in {"none", "Ok"}
        => flow.pin = "right" \/ (job.kind = "ord" /\ flow.vouched)

\* No key is used, and no lease says verified, without a PIN its holder typed,
\* across every order of logins, revocations and operations under way.
ConsentPrecedesUse == VerifiedMeansConsent /\ UseHasConsent

\* No PIN prompt is raised that the caller's budget was not charged for
\* (RawCryptoFlow::obtainPin, the cold prompt and the recovery prompt).
PromptsAreCharged == wpc \in {"prompt", "asking"} => flow.charged

\* A PIN the card refused is not left with the plugin, which would present
\* it again and use up the card's tries (underTheOperationsPin).
RefusedPinIsErased == session.deposit # "wrong"

\* The holder's PIN and patience are spared: every prompt was paid for, and no
\* refused PIN is left to be presented again.
PinIsSpared == PromptsAreCharged /\ RefusedPinIsErased

\* Every request is answered: by its completion, or, once the agent shuts
\* down, by the reply that fails when its job is destroyed.  Requests are
\* bounded, so that from some point on every client has all its answers.
EveryRequestIsAnswered == <>[](\A c \in Clients : open[c] = 0)
=============================================================================
