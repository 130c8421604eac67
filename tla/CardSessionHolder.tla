------------------------- MODULE CardSessionHolder --------------------------
(***************************************************************************)
(* One reader and its cards.  The monitor thread runs MonitorBridge's      *)
(* dispatch (PresenceModel, then CardKeyTracker and its removal hook); the *)
(* reader's worker thread owns the CardSessionHolder, the one connection   *)
(* to the card, and fills the CardReadCache.  They meet in the three flags *)
(* of the worker (pendingInvalidate, hold, holdDirty) and in its queue.    *)
(*                                                                         *)
(* The holder is touched by the worker only, so a holder call is one step; *)
(* taking a flag and acting on it are two.  The host's loop decides when   *)
(* to probe, publish and hold, under the state mutex that dispatch holds.  *)
(* The n-th card inserted is named n, by its id in the model as well.      *)
(***************************************************************************)
EXTENDS Naturals, Sequences

CONSTANTS
    MaxCards,   \* bound: cards inserted in a behaviour
    MaxOps,     \* bound: operations and probes queued in a behaviour
    Served      \* the cards some plugin serves

ASSUME BoundsAssumption == MaxCards \in Nat /\ MaxOps \in Nat
ASSUME ServedAssumption == Served \subseteq 1..MaxCards

\* A connection, and what the CardSession keeps beside it: cached PACE
\* credentials and a secure channel.
Connection == [card : 0..MaxCards, kept : SUBSET {"pace", "channel"}]
Bare(c) == [card |-> c, kept |-> {}]
None == Bare(0)

Job == [card : 0..MaxCards, probe : BOOLEAN]
NoJob == [card |-> 0, probe |-> FALSE]

VARIABLES
    card,       \* the card in the reader, 0 for none
    inserted,   \* cards inserted so far
    exported,   \* the card PresenceModel exports, 0 for none
    shown,      \* history: the cards exported so far
    mpc,        \* where the monitor thread is in its dispatch
    dropped,    \* the card id CardKeyTracker handed to the removal hook
    pending,    \* ReaderWorker::pendingInvalidate
    hold,       \* ReaderWorker::hold
    holdDirty,  \* ReaderWorker::holdDirty
    queue,      \* ReaderWorker::queue
    issued,     \* jobs queued so far
    wpc,        \* where the worker thread is
    job,        \* the job it runs
    session,    \* m_session
    parked,     \* m_hold
    candidates, \* the card m_candidates was resolved on, 0 when it is empty
    preRead,    \* the card m_preReadAuth was asked on, 0 when unset
    stash,      \* a candidate keeps a secret for the session (setCredentials)
    fresh,      \* less than kIdleClose since m_lastUsed
    cache       \* CardReadCache: whose data is stored under a card's key

monVars    == <<card, inserted, exported, shown, mpc, dropped>>
flagVars   == <<pending, hold, holdDirty>>
queueVars  == <<queue, issued>>
secretVars == <<candidates, preRead, stash>>
holderVars == <<session, parked, secretVars, fresh>>
vars == <<monVars, flagVars, queueVars, wpc, job, holderVars, cache>>

TypeOK ==
    /\ card \in 0..MaxCards /\ inserted \in 0..MaxCards
    /\ exported \in 0..MaxCards /\ dropped \in 0..MaxCards
    /\ shown \subseteq 1..MaxCards
    /\ mpc \in {"idle", "scrub", "release", "invalidate"}
    /\ pending \in BOOLEAN /\ hold \in BOOLEAN /\ holdDirty \in BOOLEAN
    /\ queue \in Seq(Job) /\ issued \in 0..MaxOps
    /\ wpc \in {"loop", "invalidate", "hold", "release", "sweep", "sweepHold",
                "acquire", "run", "put"}
    /\ job \in Job
    /\ session \in Connection /\ parked \in Connection
    /\ candidates \in 0..MaxCards /\ preRead \in 0..MaxCards
    /\ stash \in BOOLEAN /\ fresh \in BOOLEAN
    /\ cache \in [1..MaxCards -> 0..MaxCards]

Init ==
    /\ card = 0 /\ inserted = 0 /\ exported = 0 /\ shown = {}
    /\ mpc = "idle" /\ dropped = 0
    /\ pending = FALSE /\ hold = FALSE /\ holdDirty = FALSE
    /\ queue = <<>> /\ issued = 0 /\ wpc = "loop" /\ job = NoJob
    /\ session = None /\ parked = None
    /\ candidates = 0 /\ preRead = 0 /\ stash = FALSE /\ fresh = FALSE
    /\ cache = [c \in 1..MaxCards |-> 0]

(***************************************************************************)
(* The card and the monitor thread                                         *)
(***************************************************************************)

NextId == inserted + 1

Insert ==
    /\ card = 0 /\ inserted < MaxCards
    /\ inserted' = NextId /\ card' = NextId
    /\ UNCHANGED <<exported, shown, mpc, dropped, flagVars, queueVars, wpc, job, holderVars, cache>>

Withdraw ==
    /\ card # 0 /\ card' = 0
    /\ UNCHANGED <<inserted, exported, shown, mpc, dropped, flagVars, queueVars, wpc,
                   job, holderVars, cache>>

\* CardKeyTracker hands the id it held to the removal hook.
KeyRemoved(previous) ==
    dropped' = previous /\ mpc' = IF previous = 0 THEN "idle" ELSE "scrub"

\* CardInserted: the model exports the card, dropping one that was never
\* reported removed first.
CardInserted ==
    /\ mpc = "idle" /\ card \notin {0, exported}
    /\ exported' = card /\ shown' = shown \cup {card} /\ KeyRemoved(exported)
    /\ UNCHANGED <<card, inserted, flagVars, queueVars, wpc, job, holderVars, cache>>

CardRemoved ==
    /\ mpc = "idle" /\ exported # 0 /\ card # exported
    /\ exported' = 0 /\ KeyRemoved(exported)
    /\ UNCHANGED <<card, inserted, shown, flagVars, queueVars, wpc, job, holderVars, cache>>

\* The removal hook: invalidateCardRemovalCaches() ...
ScrubCaches ==
    /\ mpc = "scrub" /\ mpc' = "release"
    /\ cache' = [cache EXCEPT ![dropped] = 0]
    /\ UNCHANGED <<card, inserted, exported, shown, dropped, flagVars, queueVars, wpc,
                   job, holderVars>>

SetReaderHold(h) == hold' = h /\ holdDirty' = TRUE

\* ... then releaseReaderOnCardRemoved(): setReaderHold(false) ...
ReleaseReader ==
    /\ mpc = "release" /\ mpc' = "invalidate"
    /\ SetReaderHold(FALSE)
    /\ UNCHANGED <<card, inserted, exported, shown, dropped, pending, queueVars, wpc,
                   job, holderVars, cache>>

\* ... and invalidateReaderSession().
InvalidateReader ==
    /\ mpc = "invalidate" /\ mpc' = "idle" /\ dropped' = 0
    /\ pending' = TRUE
    /\ UNCHANGED <<card, inserted, exported, shown, hold, holdDirty, queueVars, wpc,
                   job, holderVars, cache>>

(***************************************************************************)
(* The host's loop                                                         *)
(***************************************************************************)

\* An operation or a probe for the exported card.
Enqueue(probe) ==
    /\ mpc = "idle" /\ exported # 0 /\ issued < MaxOps
    /\ queue' = Append(queue, [card |-> exported, probe |-> probe])
    /\ issued' = issued + 1
    /\ UNCHANGED <<monVars, flagVars, wpc, job, holderVars, cache>>

\* Publishing a probed card may take the power hold (holdsReader()).
HoldReader ==
    /\ mpc = "idle" /\ exported \in Served /\ issued > 0 /\ ~hold
    /\ SetReaderHold(TRUE)
    /\ UNCHANGED <<monVars, pending, queueVars, wpc, job, holderVars, cache>>

\* AgentCore::quiesce() closes every reader's session and keeps the hold flag.
Quiesce ==
    /\ ~pending /\ pending' = TRUE
    /\ UNCHANGED <<monVars, hold, holdDirty, queueVars, wpc, job, holderVars, cache>>

(***************************************************************************)
(* The worker loop                                                         *)
(***************************************************************************)

\* Fault: without a hold to keep, the timeout only waits again.
SweepsHoldsOnly == IF pending THEN "invalidate"
                   ELSE IF holdDirty THEN (IF hold THEN "hold" ELSE "release")
                   ELSE IF queue # <<>> THEN "acquire"
                   ELSE IF hold THEN "sweepHold" ELSE "loop"

\* What the loop does when it wakes: an invalidate goes before a hold change,
\* that before an operation, and the idle sweep is for an empty queue.
Due == IF pending THEN "invalidate"
       ELSE IF holdDirty THEN (IF hold THEN "hold" ELSE "release")
       ELSE IF queue # <<>> THEN "acquire"
       ELSE IF hold THEN "sweepHold" ELSE "sweep"

WakeUp ==
    /\ wpc = "loop" /\ wpc' = Due
    /\ pending' = (pending /\ Due # "invalidate")
    /\ holdDirty' = (holdDirty /\ Due \notin {"hold", "release"})
    /\ IF Due = "acquire"
       THEN job' = Head(queue) /\ queue' = Tail(queue)
       ELSE UNCHANGED <<job, queue>>
    /\ UNCHANGED <<monVars, hold, issued, holderVars, cache>>

\* kIdleClose passes without an acquire.
Tick ==
    /\ fresh /\ fresh' = FALSE
    /\ UNCHANGED <<monVars, flagVars, queueVars, wpc, job, session, parked,
                   secretVars, cache>>

WorkerFrame == UNCHANGED <<monVars, flagVars, queueVars>>

(***************************************************************************)
(* CardSessionHolder                                                       *)
(***************************************************************************)

\* eraseCredentials(): plugins forget what they keep for an open session.
EraseCredentials ==
    /\ stash' = (stash /\ session = None)
    /\ candidates' = 0 /\ preRead' = 0

Invalidate ==
    /\ EraseCredentials
    /\ session' = None /\ parked' = None

\* Fault: only the secure channel is cleared.
PaceKept(s) == [s EXCEPT !.kept = @ \ {"channel"}]

\* clearCachedPaceCredentials() and clearActiveChannel().
Emptied(s) == Bare(s.card)

\* A session that ran secure messaging is closed, any other is parked.
Demote ==
    \/ /\ "channel" \in session.kept
       /\ Invalidate
    \/ /\ "channel" \notin session.kept
       /\ EraseCredentials
       /\ parked' = Emptied(session) /\ session' = None

NoConnection == parked = None /\ session = None

\* acquireHold(); the factory opens the card in the reader, or fails.
AcquireHold ==
    /\ \/ NoConnection /\ card # 0 /\ parked' = Bare(card)
       \/ UNCHANGED parked
    /\ UNCHANGED <<session, secretVars>>

DoInvalidate ==
    /\ wpc = "invalidate" /\ wpc' = "loop"
    /\ Invalidate
    /\ WorkerFrame /\ UNCHANGED <<job, fresh, cache>>

DoHold ==
    /\ wpc = "hold" /\ wpc' = "loop"
    /\ AcquireHold
    /\ WorkerFrame /\ UNCHANGED <<job, fresh, cache>>

DoRelease ==
    /\ wpc = "release" /\ wpc' = "loop"
    /\ parked' = None
    /\ WorkerFrame /\ UNCHANGED <<job, session, secretVars, fresh, cache>>

\* Fault: a hold that could not be opened is not tried again.
NoRetry == UNCHANGED <<session, parked, secretVars>>

\* A reader with no session is given its hold when one is wanted.
SweepEmpty ==
    \/ wpc = "sweepHold" /\ AcquireHold
    \/ wpc = "sweep" /\ UNCHANGED <<session, parked, secretVars>>

Sweep ==
    /\ wpc \in {"sweep", "sweepHold"} /\ wpc' = "loop"
    /\ \/ session # None /\ fresh /\ UNCHANGED <<session, parked, secretVars>>
       \/ session # None /\ ~fresh /\ wpc = "sweepHold" /\ Demote
       \/ session # None /\ ~fresh /\ wpc = "sweep" /\ Invalidate
       \/ session = None /\ SweepEmpty
    /\ WorkerFrame /\ UNCHANGED <<job, fresh, cache>>

\* acquire(): the held session, else the parked one or a new one with its
\* candidates resolved on it.
Reuse ==
    /\ wpc = "acquire" /\ session # None
    /\ wpc' = "run" /\ fresh' = TRUE
    /\ WorkerFrame /\ UNCHANGED <<job, session, parked, secretVars, cache>>

Commit(connection) ==
    /\ wpc = "acquire" /\ session = None
    /\ wpc' = "run" /\ fresh' = TRUE
    /\ session' = connection /\ parked' = None /\ candidates' = connection.card
    /\ WorkerFrame /\ UNCHANGED <<job, preRead, stash, cache>>

Promote == parked # None /\ Commit(parked)

Open == parked = None /\ card # 0 /\ Commit(Bare(card))

\* The open fails, or the resolver throws and the connection is closed.
AcquireFails ==
    /\ wpc = "acquire" /\ session = None
    /\ wpc' = "loop" /\ job' = NoJob
    /\ parked' = None
    /\ WorkerFrame /\ UNCHANGED <<session, secretVars, fresh, cache>>

(***************************************************************************)
(* What runs on the session                                                *)
(***************************************************************************)

\* fullResolution(): a card no plugin serves is let go, any other is asked for
\* its pre-read authentication once (and may throw).
Resolve ==
    /\ wpc = "run" /\ job.probe
    /\ wpc' = "loop" /\ job' = NoJob
    /\ \/ candidates \notin Served /\ Invalidate
       \/ /\ candidates \in Served
          /\ preRead' \in IF preRead = 0 THEN {0, session.card} ELSE {preRead}
          /\ UNCHANGED <<session, parked, candidates, stash>>
    /\ WorkerFrame /\ UNCHANGED <<fresh, cache>>

\* The operation caches a PACE secret, opens a secure channel, or has a plugin
\* keep or erase a PIN.
KeepOnSession(secret) ==
    /\ wpc = "run" /\ ~job.probe /\ session.card = card
    /\ session' = [session EXCEPT !.kept = @ \cup {secret}]
    /\ WorkerFrame /\ UNCHANGED <<wpc, job, parked, secretVars, fresh, cache>>

DepositInPlugin(kept) ==
    /\ wpc = "run" /\ ~job.probe /\ candidates \in Served
    /\ stash' = kept
    /\ WorkerFrame /\ UNCHANGED <<wpc, job, session, parked, candidates, preRead, fresh, cache>>

\* A read got its data from the card ...
ReadCard ==
    /\ wpc = "run" /\ ~job.probe /\ session.card = card
    /\ wpc' = "put"
    /\ WorkerFrame /\ UNCHANGED <<job, holderVars, cache>>

\* Fault: a read is stored under the card the reader shows now.
CurrentKey == IF exported = 0 THEN job.card ELSE exported

CardKey == job.card

\* ... and stores it under the key it was published with.
PutRead ==
    /\ wpc = "put" /\ wpc' = "loop" /\ job' = NoJob
    /\ cache' = [cache EXCEPT ![CardKey] = session.card]
    /\ WorkerFrame /\ UNCHANGED holderVars

\* Any other end; a PIN change or a key activation drops the card's reads.
OpEnds ==
    /\ wpc = "run" /\ ~job.probe
    /\ wpc' = "loop" /\ job' = NoJob
    /\ cache' \in {cache, [cache EXCEPT ![job.card] = 0]}
    /\ WorkerFrame /\ UNCHANGED holderVars

\* A read whose data is cached does not touch the holder.
ServeCached ==
    /\ wpc = "acquire" /\ ~job.probe /\ cache[job.card] # 0
    /\ wpc' = "loop" /\ job' = NoJob
    /\ WorkerFrame /\ UNCHANGED <<holderVars, cache>>

(***************************************************************************)
(* The specification                                                       *)
(***************************************************************************)
Monitor == CardInserted \/ CardRemoved \/ ScrubCaches \/ ReleaseReader \/ InvalidateReader

Holder ==
    DoInvalidate \/ DoHold \/ DoRelease \/ Sweep \/ Reuse \/ Promote \/ Open
    \/ AcquireFails

\* Steps at which a running operation moves on.
Running == Resolve \/ ReadCard \/ PutRead \/ OpEnds \/ ServeCached

Next ==
    \/ Insert \/ Withdraw \/ Monitor
    \/ (\E probe \in BOOLEAN : Enqueue(probe)) \/ HoldReader \/ Quiesce
    \/ WakeUp \/ Tick \/ Holder \/ Running
    \/ \E s \in {"pace", "channel"} : KeepOnSession(s)
    \/ \E kept \in BOOLEAN : DepositInPlugin(kept)

Spec == Init /\ [][Next]_vars

\* The worker's thread is scheduled, its clock runs, and every operation ends.
LiveSpec ==
    Spec /\ WF_vars(WakeUp) /\ WF_vars(Tick) /\ WF_vars(Holder) /\ WF_vars(Running)

\* An open that is tried again and again succeeds in the end, and the machine
\* does not go to sleep for ever.
OpensSucceed ==
    SF_vars((DoHold \/ Sweep) /\ parked' # None) /\ <>[][~Quiesce]_vars

(***************************************************************************)
(* Properties                                                              *)
(***************************************************************************)

\* The reader never carries two connections: the power hold is the session
\* parked, never a second one beside it (acquire, acquireHold and demote).
OneConnection == session = None \/ parked = None

\* Nothing secret outlives the use of a session: a parked connection has no
\* PACE secrets and no channel, and no plugin keeps a secret for a session
\* that is gone (eraseCredentials before the session goes).
ParkedIsClean == parked.kept = {} /\ (session = None => ~stash)

\* Candidates and the pre-read memo are those of the card the session is
\* connected to, through promotions, failed resolutions and swaps.
ResolutionFitsSession ==
    session # None => candidates = session.card /\ preRead \in {0, session.card}

\* No job runs on a connection to a card the reader showed before its own: the
\* removal hook's invalidate overtakes everything queued for the new card.  (A
\* card that came and went without an event leaves nothing to overtake.)
NoJobOnAnOlderCard ==
    wpc = "run" /\ session.card \in shown => session.card >= job.card

\* A reader keeps a power hold only while one is wanted or its release is due.
HoldFollowsFlag == parked # None => hold \/ holdDirty \/ wpc = "release"

\* What is cached for the card in the reader was read from that card, although
\* queued operations run "against whatever card is present next".
SeatedCardsReadIsItsOwn ==
    card # 0 /\ exported = card => cache[card] \in {0, card}

\* A reader has one connection, which is clean while it is parked and is held
\* only on request, through every promotion, demotion and failure.
ConnectionIsClean == OneConnection /\ ParkedIsClean /\ HoldFollowsFlag

\* Cards are not mixed up: what was resolved, what a job finds and what is
\* served from the cache belong to the card in question, although removals,
\* insertions and jobs are queued separately.
CardsAreNotMixedUp ==
    ResolutionFitsSession /\ NoJobOnAnOlderCard /\ SeatedCardsReadIsItsOwn

\* Secrets are not held for ever: a session that carries any is closed or
\* emptied once the reader is left alone.
SecretsAreErased ==
    (stash \/ session.kept # {}) ~> (~stash /\ session.kept = {})

\* A reader whose hold is wanted gets its connection back, whatever closed it.
HoldIsRestored ==
    OpensSucceed =>
        (hold /\ card # 0 ~> (~NoConnection \/ ~hold \/ card = 0))
=============================================================================
