---------------------------- MODULE OperationBase ----------------------------
(***************************************************************************)
(* One operation from runOnWorker() to quiesce(): the worker thread inside *)
(* doWork(), the watchdog's timer thread, the threads that cancel or shut  *)
(* down, and the client object that subscribes late and polls the terminal *)
(* properties.                                                             *)
(*                                                                         *)
(* finish() is not one step: every store of its call_once body is, because *)
(* a timer, a canceller or a client may run between any two of them.       *)
(* doWork() is the control of ReadIdentityOperation (flow = "read") or     *)
(* SignOperation (flow = "sign") with the flow each one runs; what the     *)
(* card answers is a choice.  A status stands for the (status, code) pair. *)
(***************************************************************************)
EXTENDS Naturals

CONSTANT MaxPrompts   \* bound: prompts one operation raises

ASSUME MaxPromptsAssumption == MaxPrompts \in Nat

VARIABLES
    flow,        \* the typed operation, chosen once: "read" or "sign"
    wpc,         \* where the worker is
    ask,         \* what the standing prompt is for: "channel" or "signing"
    answered,    \* the last prompt yielded a secret the card will now check
    prompts,     \* prompts raised so far
    reread,      \* the one MRZ renegotiation of IdentityReadFlow was used
    heeded,      \* history: whose cancel made the flow stop
    verdict,     \* the status doWork() brings to finish()
    phase,       \* OperationState::phase
    armed,       \* m_watchdogArmed
    tpc,         \* the timer thread held by m_watchdog
    stopping,    \* its stop_token was requested
    fired,       \* m_watchdogFired
    trippedBy,   \* who cancelled the token first, "none" while it is live
    shutdown,    \* the agent-wide shutdown token is cancelled
    runner,      \* the thread inside finish()'s call_once body
    fstep,       \* the store it does next
    outcome,     \* the status that body publishes
    mirror,      \* terminalStatus and terminalErrorCode
    completed,   \* OperationState::completed
    resultOut,   \* emitResult() put the typed Result on the wire
    finishedOut, \* emitFinished() put Finished on the wire
    cpc,         \* the client's AgentOperation object
    learnt       \* the terminal status it holds

workerVars == <<wpc, ask, answered, prompts, reread, heeded, verdict>>
timerVars  == <<armed, tpc, stopping, fired>>
finishVars == <<runner, fstep, outcome, mirror, completed, finishedOut>>
clientVars == <<cpc, learnt>>
operationVars == <<flow, workerVars, phase, timerVars, trippedBy, shutdown,
                   finishVars, resultOut, clientVars>>

Status == {"Ok", "Cancelled", "Error", "WatchdogTimeout"}

Phase == {"Created", "Connecting", "AwaitingConsent", "Authenticating",
          "Reading", "Signing", "Timestamping", "Done"}

OperationTypeOK ==
    /\ flow \in {"read", "sign"}
    /\ wpc \in {"queued", "connecting", "opened", "io", "disarm", "join",
                "prompt", "stamp", "gate", "emit", "finish", "finishing",
                "return", "quiesce", "quiesced"}
    /\ ask \in {"channel", "signing"}
    /\ answered \in BOOLEAN
    /\ prompts \in 0..MaxPrompts
    /\ reread \in BOOLEAN
    /\ heeded \in {"none", "client", "watchdog", "shutdown"}
    /\ verdict \in Status
    /\ phase \in Phase
    /\ armed \in BOOLEAN
    /\ tpc \in {"none", "waiting", "expired", "latched", "tripped",
                "finishing", "exited"}
    /\ stopping \in BOOLEAN
    /\ fired \in BOOLEAN
    /\ trippedBy \in {"none", "client", "watchdog", "shutdown"}
    /\ shutdown \in BOOLEAN
    /\ runner \in {"none", "worker", "timer"}
    /\ fstep \in 1..6
    /\ outcome \in Status
    /\ mirror \in Status \cup {"unset"}
    /\ completed \in BOOLEAN
    /\ resultOut \in BOOLEAN
    /\ finishedOut \in BOOLEAN
    /\ cpc \in {"absent", "subscribed", "reading", "listening", "done"}
    /\ learnt \in Status \cup {"unset", "nothing"}

OperationInit ==
    /\ flow \in {"read", "sign"}
    /\ wpc = "queued" /\ ask = "channel" /\ answered = FALSE
    /\ prompts = 0 /\ reread = FALSE /\ heeded = "none" /\ verdict = "Error"
    /\ phase = "Created"
    /\ armed = FALSE /\ tpc = "none" /\ stopping = FALSE /\ fired = FALSE
    /\ trippedBy = "none" /\ shutdown = FALSE
    /\ runner = "none" /\ fstep = 1 /\ outcome = "Error"
    /\ mirror = "unset" /\ completed = FALSE
    /\ resultOut = FALSE /\ finishedOut = FALSE
    /\ cpc = "absent" /\ learnt = "nothing"

Cancelled == trippedBy # "none"
Finished  == fstep = 6
WorkerAt(l) == wpc = l
Trip(who) == trippedBy' = IF Cancelled THEN trippedBy ELSE who

(***************************************************************************)
(* setPhase() and the watchdog it drives                                   *)
(***************************************************************************)

\* Fault: Reading is not a machine phase.
ArmsLate(p) == p = "Authenticating"

Arms(p) == p \in {"Authenticating", "Reading"}

\* setPhase() to a phase other than AwaitingConsent, passing through others on
\* the way: a machine phase starts a timer unless one is armed.  Only the
\* worker arms and disarms, so a run of such calls is one step.
EnterPhases(through, last) ==
    /\ phase' = last
    /\ IF ~armed /\ (\E p \in through \cup {last} : Arms(p))
       THEN armed' = TRUE /\ tpc' = "waiting" /\ stopping' = FALSE
       ELSE UNCHANGED <<armed, tpc, stopping>>
    /\ UNCHANGED fired

\* Fault: disarmWatchdog() and quiesce() return without the join.
NoJoin == TRUE

\* m_watchdog.join() returns.
TimerJoinable == tpc \in {"none", "exited"}

StoppedOrFinished == stopping \/ Finished

\* wait_for() came back and the predicate, asked again, says neither a stop
\* nor the end of the operation is the reason.
Expire ==
    /\ tpc = "waiting" /\ ~StoppedOrFinished
    /\ tpc' = "expired"
    /\ UNCHANGED <<workerVars, phase, armed, stopping, fired, trippedBy,
                   shutdown, flow, finishVars, resultOut, clientVars>>

TimerStops ==
    /\ tpc = "waiting" /\ StoppedOrFinished
    /\ tpc' = "exited"
    /\ UNCHANGED <<workerVars, phase, armed, stopping, fired, trippedBy,
                   shutdown, flow, finishVars, resultOut, clientVars>>

\* finishWatchdogTimeout(): latch, then requestCancel(), then finish().
Latch ==
    /\ tpc = "expired"
    /\ tpc' = "latched" /\ fired' = TRUE
    /\ UNCHANGED <<workerVars, phase, armed, stopping, trippedBy, shutdown, flow,
                   finishVars, resultOut, clientVars>>

WatchdogCancels ==
    /\ tpc = "latched"
    /\ tpc' = "tripped" /\ Trip("watchdog")
    /\ UNCHANGED <<workerVars, phase, armed, stopping, fired, shutdown, flow,
                   finishVars, resultOut, clientVars>>

(***************************************************************************)
(* finish(): a call_once body of five stores                               *)
(***************************************************************************)

\* Fault: the caller's status is published as it stands.
CallersStatus(s) == s

\* The watchdog's verdict outranks the caller's.
Published(s) == IF fired THEN "WatchdogTimeout" ELSE s

\* Fault: Finished is emitted before the mirrors open.
EmitFirst == [phase |-> 1, mirrors |-> 2, emit |-> 3, gate |-> 4, mark |-> 5]

FinishOrder == [phase |-> 1, mirrors |-> 2, gate |-> 3, emit |-> 4, mark |-> 5]

At(store) == runner # "none" /\ fstep = FinishOrder[store]

\* The first caller enters the body and reads the latch there.
EnterFinish(who, s) ==
    /\ runner = "none" /\ ~Finished
    /\ runner' = who /\ outcome' = Published(s)
    /\ UNCHANGED <<fstep, mirror, completed, finishedOut>>

FinishFrame == UNCHANGED <<workerVars, timerVars, trippedBy, shutdown, flow,
                           resultOut, outcome>>

\* setPhase(Done): neither arms nor disarms.
PublishPhase ==
    /\ At("phase")
    /\ phase' = "Done" /\ fstep' = fstep + 1
    /\ FinishFrame /\ UNCHANGED <<runner, mirror, completed, finishedOut, clientVars>>

PublishMirrors ==
    /\ At("mirrors")
    /\ mirror' = outcome /\ fstep' = fstep + 1
    /\ FinishFrame /\ UNCHANGED <<phase, runner, completed, finishedOut, clientVars>>

PublishGate ==
    /\ At("gate")
    /\ completed' = TRUE /\ fstep' = fstep + 1
    /\ FinishFrame /\ UNCHANGED <<phase, runner, mirror, finishedOut, clientVars>>

\* emitFinished() is elided once the agent shuts down; a subscribed client
\* takes the signal and is finished with it (finalizeTerminal).
EmitFinished ==
    /\ At("emit")
    /\ finishedOut' = ~shutdown /\ fstep' = fstep + 1
    /\ IF ~shutdown /\ cpc \in {"subscribed", "listening"}
       THEN cpc' = "done" /\ learnt' = outcome
       ELSE UNCHANGED clientVars
    /\ FinishFrame /\ UNCHANGED <<phase, runner, mirror, completed>>

MarkFinished ==
    /\ At("mark")
    /\ fstep' = fstep + 1 /\ runner' = "none"
    /\ FinishFrame /\ UNCHANGED <<phase, mirror, completed, finishedOut, clientVars>>

FinishStep ==
    PublishPhase \/ PublishMirrors \/ PublishGate \/ EmitFinished \/ MarkFinished

WatchdogFinishes ==
    /\ tpc = "tripped" /\ tpc' = "finishing"
    /\ EnterFinish("timer", "WatchdogTimeout")
    /\ UNCHANGED <<workerVars, phase, armed, stopping, fired, trippedBy,
                   shutdown, flow, resultOut, clientVars>>

\* call_once returns: the body ran, here or on the other thread.
WatchdogReturns ==
    /\ tpc \in {"tripped", "finishing"} /\ Finished
    /\ tpc' = "exited"
    /\ UNCHANGED <<workerVars, phase, armed, stopping, fired, trippedBy,
                   shutdown, flow, finishVars, resultOut, clientVars>>

TimerStep ==
    Expire \/ TimerStops \/ Latch \/ WatchdogCancels \/ WatchdogFinishes
    \/ WatchdogReturns

(***************************************************************************)
(* Cancellation                                                            *)
(***************************************************************************)

\* requestCancel() from the bus or monitor thread.  Its dismissal hook is the
\* subject of PromptSerializer.
ClientCancels ==
    /\ ~Cancelled /\ Trip("client")
    /\ UNCHANGED <<workerVars, phase, timerVars, shutdown, flow, finishVars,
                   resultOut, clientVars>>

\* The shutdown token trips and its callback, requestShutdownCancel(), runs.
Shutdown ==
    /\ ~shutdown
    /\ shutdown' = TRUE /\ Trip("shutdown")
    /\ UNCHANGED <<workerVars, phase, timerVars, flow, finishVars, resultOut, clientVars>>

(***************************************************************************)
(* doWork() on the worker                                                  *)
(***************************************************************************)
WorkerFrame == UNCHANGED <<trippedBy, shutdown, flow, finishVars, clientVars>>

\* The flow returns with a status, or because it saw the token cancelled.
Conclude(s) ==
    /\ verdict' = s /\ wpc' = "gate"
    /\ UNCHANGED <<ask, answered, prompts, reread, heeded, resultOut>>

ConcludeCancelled ==
    /\ Cancelled /\ heeded' = trippedBy
    /\ verdict' = "Cancelled" /\ wpc' = "gate"
    /\ UNCHANGED <<ask, answered, prompts, reread, resultOut>>

RunOnWorker ==
    /\ WorkerAt("queued")
    /\ wpc' = "connecting" /\ EnterPhases({}, "Connecting")
    /\ WorkerFrame /\ UNCHANGED <<ask, answered, prompts, reread, heeded, verdict, resultOut>>

\* A cached snapshot is served without the card.
ServeCached ==
    /\ flow = "read" /\ WorkerAt("connecting")
    /\ Conclude("Ok")
    /\ WorkerFrame /\ UNCHANGED <<phase, timerVars>>

OpenSession ==
    /\ WorkerAt("connecting")
    /\ IF Cancelled
       THEN ConcludeCancelled
       ELSE \/ Conclude("Error")
            \/ /\ wpc' = "opened"
               /\ UNCHANGED <<ask, answered, prompts, reread, heeded, verdict, resultOut>>
    /\ WorkerFrame /\ UNCHANGED <<phase, timerVars>>

\* The last token check before the card is touched, and the machine phase.
StartCardIo ==
    /\ WorkerAt("opened")
    /\ IF Cancelled
       THEN ConcludeCancelled /\ UNCHANGED <<phase, timerVars>>
       ELSE /\ wpc' = "io"
            /\ EnterPhases(IF flow = "read" THEN {"Authenticating"} ELSE {}, "Reading")
            /\ UNCHANGED <<ask, answered, prompts, reread, heeded, verdict, resultOut>>
    /\ WorkerFrame

\* The credential provider runs inside the card call and asks for consent.
\* setPhase(AwaitingConsent) disarms, unless the phase is already that one.
ProviderAsks(kind) ==
    /\ WorkerAt("io") /\ prompts < MaxPrompts
    /\ kind = "signing" => flow = "sign"
    /\ ask' = kind /\ prompts' = prompts + 1 /\ answered' = FALSE
    /\ phase' = "AwaitingConsent"
    /\ wpc' = IF phase # "AwaitingConsent" /\ armed THEN "disarm" ELSE "prompt"
    /\ WorkerFrame /\ UNCHANGED <<timerVars, reread, heeded, verdict, resultOut>>

\* disarmWatchdog(): clear the flag and request the stop, then join.
Disarm ==
    /\ WorkerAt("disarm")
    /\ armed' = FALSE /\ stopping' = TRUE
    /\ wpc' = "join"
    /\ WorkerFrame
    /\ UNCHANGED <<ask, answered, prompts, reread, heeded, verdict, phase, tpc, fired, resultOut>>

JoinTimer ==
    /\ WorkerAt("join") /\ TimerJoinable
    /\ tpc' = IF tpc = "exited" THEN "none" ELSE tpc
    /\ wpc' = "prompt"
    /\ WorkerFrame
    /\ UNCHANGED <<ask, answered, prompts, reread, heeded, verdict, phase, armed,
                   stopping, fired, resultOut>>

\* The read provider's ConsentPhaseScope always restores Authenticating;
\* SignFlow's own provider moves on for the signing PIN it obtained, and for
\* nothing else.
AfterPrompt(secret) ==
    \/ flow = "read" /\ EnterPhases({}, "Authenticating")
    \/ /\ flow = "sign" /\ ask = "signing" /\ secret
       /\ EnterPhases({"Authenticating"}, "Signing")
    \/ /\ flow = "sign" /\ ~(ask = "signing" /\ secret)
       /\ UNCHANGED <<phase, timerVars>>

\* The prompt ends, with a secret (typed or cached) or without one.
PromptEnds(secret) ==
    /\ WorkerAt("prompt")
    /\ answered' = secret
    /\ wpc' = "io"
    /\ AfterPrompt(secret)
    /\ WorkerFrame /\ UNCHANGED <<ask, prompts, reread, heeded, verdict, resultOut>>

\* The card call returns.  A cancelled token wins over its status.
CardIoReturns(s) ==
    /\ WorkerAt("io")
    /\ IF Cancelled THEN ConcludeCancelled
       ELSE \/ Conclude(s)
            \/ /\ flow = "sign" /\ s = "Ok"     \* a qualified level
               /\ wpc' = "stamp"
               /\ UNCHANGED <<ask, answered, prompts, reread, heeded, verdict, resultOut>>
    /\ WorkerFrame /\ UNCHANGED <<phase, timerVars>>

Timestamp ==
    /\ WorkerAt("stamp")
    /\ EnterPhases({}, "Timestamping") /\ Conclude("Ok") /\ WorkerFrame

\* IdentityReadFlow: the user chose the MRZ over the CAN; read once more.
Renegotiate ==
    /\ flow = "read" /\ WorkerAt("io") /\ prompts > 0
    /\ ~reread /\ ~Cancelled
    /\ reread' = TRUE
    /\ EnterPhases({"Authenticating"}, "Reading")
    /\ WorkerFrame /\ UNCHANGED <<wpc, ask, answered, prompts, heeded, verdict, resultOut>>

\* Anything doWork() throws is caught in runOnWorker() and finishes as Error.
DoWorkThrows ==
    /\ WorkerAt("io")
    /\ verdict' = "Error" /\ wpc' = "finish"
    /\ WorkerFrame
    /\ UNCHANGED <<ask, answered, prompts, reread, heeded, phase, timerVars, resultOut>>

SkipsCompletion == shutdown

\* Back in doWork(): no completion while the backend is torn down.
ShutdownGate ==
    /\ WorkerAt("gate")
    /\ wpc' = IF SkipsCompletion THEN "return"
              ELSE IF verdict = "Ok" THEN "emit" ELSE "finish"
    /\ WorkerFrame
    /\ UNCHANGED <<ask, answered, prompts, reread, heeded, verdict, phase, timerVars, resultOut>>

StatusOnDelivery(delivered) == IF delivered THEN "Ok" ELSE "Error"

EmitResult(delivered) ==
    /\ WorkerAt("emit")
    /\ resultOut' = delivered /\ verdict' = StatusOnDelivery(delivered)
    /\ wpc' = "finish"
    /\ WorkerFrame /\ UNCHANGED <<ask, answered, prompts, reread, heeded, phase, timerVars>>

WorkerFinishes ==
    /\ WorkerAt("finish") /\ EnterFinish("worker", verdict)
    /\ wpc' = "finishing"
    /\ UNCHANGED <<ask, answered, prompts, reread, heeded, verdict, phase, timerVars,
                   trippedBy, shutdown, flow, resultOut, clientVars>>

FinishReturns ==
    /\ wpc \in {"finish", "finishing"} /\ Finished
    /\ wpc' = "return"
    /\ WorkerFrame
    /\ UNCHANGED <<ask, answered, prompts, reread, heeded, verdict, phase, timerVars, resultOut>>

QuiesceReturns == TimerJoinable

\* OperationManager's worker loop calls quiesce() on the way out.
Quiesce ==
    /\ WorkerAt("return")
    /\ stopping' = TRUE /\ wpc' = "quiesce"
    /\ WorkerFrame
    /\ UNCHANGED <<ask, answered, prompts, reread, heeded, verdict, phase, armed, tpc,
                   fired, resultOut>>

Quiesced ==
    /\ WorkerAt("quiesce") /\ QuiesceReturns
    /\ tpc' = IF tpc = "exited" THEN "none" ELSE tpc
    /\ wpc' = "quiesced"
    /\ WorkerFrame
    /\ UNCHANGED <<ask, answered, prompts, reread, heeded, verdict, phase, armed,
                   stopping, fired, resultOut>>

(***************************************************************************)
(* The client's AgentOperation: subscribe, then read the terminal triple   *)
(***************************************************************************)
ClientFrame == UNCHANGED <<workerVars, phase, timerVars, trippedBy, shutdown, flow,
                           finishVars, resultOut>>

Subscribe ==
    /\ cpc = "absent" /\ cpc' = "subscribed"
    /\ ClientFrame /\ UNCHANGED learnt

ReadCompleted ==
    /\ cpc = "subscribed"
    /\ cpc' = IF completed THEN "reading" ELSE "listening"
    /\ ClientFrame /\ UNCHANGED learnt

ReadTerminal ==
    /\ cpc = "reading"
    /\ cpc' = "done" /\ learnt' = mirror
    /\ ClientFrame

ClientStep == Subscribe \/ ReadCompleted \/ ReadTerminal

(***************************************************************************)
(* The specification                                                       *)
(***************************************************************************)

\* Steps that wait for nothing but another thread of the agent.
AgentStep ==
    \/ RunOnWorker \/ StartCardIo \/ Disarm \/ JoinTimer \/ Timestamp
    \/ ShutdownGate \/ (\E d \in BOOLEAN : EmitResult(d))
    \/ WorkerFinishes \/ FinishReturns \/ Quiesce \/ Quiesced

\* Steps that wait for the card, which may never answer.
CardStep ==
    \/ ServeCached \/ OpenSession \/ Renegotiate \/ DoWorkThrows
    \/ \E s \in {"Ok", "Error", "Cancelled"} : CardIoReturns(s)
    \/ \E k \in {"channel", "signing"} : ProviderAsks(k)

\* The prompt's own deadline ends it.
PromptStep == \E d \in BOOLEAN : PromptEnds(d)

OperationNext ==
    \/ AgentStep \/ CardStep \/ PromptStep
    \/ FinishStep \/ TimerStep
    \/ ClientCancels \/ Shutdown
    \/ ClientStep

OperationSpec == OperationInit /\ [][OperationNext]_operationVars

\* Threads are scheduled, the timer's clock runs and prompts expire; the card
\* may stay silent for ever.
WedgeSpec ==
    /\ OperationSpec
    /\ WF_operationVars(AgentStep) /\ WF_operationVars(PromptStep) /\ WF_operationVars(FinishStep)
    /\ WF_operationVars(TimerStep) /\ WF_operationVars(ClientStep)

\* The card answers, too.
CardAnswers == WF_operationVars(CardStep)

(***************************************************************************)
(* Properties                                                              *)
(***************************************************************************)

\* A flow that stopped because the watchdog cancelled it is never reported as
\* a cancellation: whichever thread reaches finish() first, the outcome is
\* WatchdogTimeout (finish() and finishWatchdogTimeout()).
TimeoutIsNotACancel ==
    completed /\ heeded = "watchdog" => mirror = "WatchdogTimeout"

\* Finished(Ok) is never published without the typed Result before it
\* (emitResult's false return fails the operation closed).
OkHasResult == finishedOut /\ outcome = "Ok" => resultOut

\* A client that subscribed and then read Completed holds exactly the status
\* Finished carried once Finished went out: no interleaving of its two steps
\* with finish()'s stores loses the terminal or shows a half-written one, or an
\* Ok that has no Result.
RecoveryIsExact ==
    /\ OkHasResult
    /\ cpc = "done" => learnt = outcome
    /\ finishedOut /\ cpc = "listening" => FALSE

\* While the holder is looking at a prompt no timer of the operation exists:
\* consent is never on the clock (disarmWatchdog joins).
HolderIsNotTimed == WorkerAt("prompt") => tpc = "none"

\* Once quiesce() returned no timer thread can touch the operation, which the
\* worker loop is about to hand over for destruction.
NoTimerAfterQuiesce == WorkerAt("quiesced") => tpc = "none"

\* In a read, card I/O that checks a secret just collected runs under a started
\* watchdog, or after it already gave its verdict (ConsentPhaseScope).
ReadsStayWatched ==
    flow = "read" /\ WorkerAt("io") /\ answered => tpc # "none"

\* The watchdog runs when it should and not when it must not: none while the
\* holder types or after quiesce(), one while a read talks to the card, across
\* every arm, disarm and expiry in between (setPhase, disarmWatchdog).
WatchdogScope == HolderIsNotTimed /\ NoTimerAfterQuiesce /\ ReadsStayWatched

\* Every operation is reported.  A card call made in a machine phase returns or
\* is reported without, however long the card stays silent; and with a card
\* that answers an operation that was started ends, unless the agent does.
EveryOperationReports ==
    /\ (WorkerAt("io") /\ phase \in {"Authenticating", "Reading", "Signing"})
           ~> (completed \/ ~WorkerAt("io"))
    /\ CardAnswers => (WorkerAt("connecting") ~> (completed \/ shutdown))

=============================================================================
