-------------------------- MODULE OperationManager --------------------------
(***************************************************************************)
(* The operations of one reader in OperationManager: publish() and the     *)
(* probe path on the bus thread, the reader's worker threads (a fresh one  *)
(* after every removal), removeReader()/abandonOrJoin(), the cleanup-grace *)
(* thread, and the three tracking tables that cancel() and the client-     *)
(* disconnect dispatch go through.                                         *)
(*                                                                         *)
(* A critical section is one step.  forgetOpById() erases from m_byId and  *)
(* then from the sender maps in two; they are one step here, because an id *)
(* that is gone from m_byId makes a disconnect's cancel() a no-op.         *)
(***************************************************************************)
EXTENDS Naturals, Sequences, FiniteSets

CONSTANTS
    Op,             \* operations, each published at most once
    Probe,          \* those that are untracked probes (enqueueOnReaderWorker)
    Caller,         \* D-Bus clients
    callerOf,       \* the client an operation belongs to
    Worker,         \* ReaderWorker objects, created in numeric order
    kMaxQueuedOpsPerReader,
    RemovalThread   \* the thread that calls removeReader: "bus" or "monitor"

ASSUME OpsAssumption ==
    Op \subseteq Nat \ {0} /\ Probe \subseteq Op /\ callerOf \in [Op -> Caller]
ASSUME WorkerAssumption == Worker = 1..Cardinality(Worker)
ASSUME CapAssumption == kMaxQueuedOpsPerReader \in Nat \ {0}
ASSUME RemovalThreadAssumption == RemovalThread \in {"bus", "monitor"}

None == 0

VARIABLES
    current,    \* m_workers[reader], or None
    made,       \* workers created so far
    queue,      \* ReaderWorker::queue
    inFlight,   \* ReaderWorker::inFlight
    stopped,    \* the worker's stop_token was requested
    abandoned,  \* ReaderWorker::abandoned
    detached,   \* the worker's thread was detached, its storage a zombie
    wpc,        \* where the worker thread is
    wop,        \* the operation it holds on its stack
    wdoomed,    \* the operations its exit drain took
    destroyed,  \* the ReaderWorker object is gone
    loc,        \* who owns an operation
    terminal,   \* an operation's terminal status, "none" before it
    cancelled,  \* operations whose token was tripped
    byId,       \* m_byId
    opToSender, \* m_opToSender
    senderToOps,\* m_senderToOps
    bpc,        \* where the bus thread is
    bop,        \* the operation it publishes
    bref,       \* the worker it holds a shared_ptr to
    bdoomed,    \* the ids its disconnect dispatch still has to cancel
    gone,       \* clients that disconnected
    rpc,        \* where the removing thread is
    rref,       \* the worker it holds a shared_ptr to
    rdoomed,    \* the operations it moved out of the queue
    rop,        \* its snapshot of inFlight
    finished,   \* m_finished
    cpc,        \* the operation the cleanup thread took out, or None
    closed      \* the manager's destructor has returned

workerVars == <<queue, inFlight, stopped, abandoned, detached, wpc, wop,
                wdoomed, destroyed>>
opVars     == <<loc, terminal, cancelled>>
tableVars  == <<byId, opToSender, senderToOps>>
busVars    == <<bpc, bop, bref, bdoomed, gone>>
removeVars == <<rpc, rref, rdoomed, rop>>
vars == <<current, made, workerVars, opVars, tableVars, busVars, removeVars,
          finished, cpc, closed>>

WorkerPc == {"none", "idle", "holder", "work", "returned", "cleared", "park", "scrub", "exited"}
BusPc == {"idle", "cap", "record", "index", "push", "probe", "unref", "cancel"}
RemovalPc == {"idle", "stop", "drain", "scrub", "poll", "forget", "detach", "join"}
Owner == {"unborn", "bus", "queue", "worker", "doomed", "grace", "freed"}
Status == {"none", "done", "timeout", "removed"}

TypeOK ==
    /\ current \in Worker \cup {None} /\ made \in Worker \cup {None}
    /\ queue \in [Worker -> Seq(Op)]
    /\ inFlight \in [Worker -> Op \cup {None}]
    /\ stopped \in [Worker -> BOOLEAN] /\ abandoned \in [Worker -> BOOLEAN]
    /\ detached \in [Worker -> BOOLEAN] /\ destroyed \in [Worker -> BOOLEAN]
    /\ wpc \in [Worker -> WorkerPc]
    /\ wop \in [Worker -> Op \cup {None}]
    /\ wdoomed \in [Worker -> SUBSET Op]
    /\ loc \in [Op -> Owner] /\ terminal \in [Op -> Status]
    /\ cancelled \subseteq Op
    /\ byId \subseteq Op /\ opToSender \subseteq Op /\ senderToOps \subseteq Op
    /\ bpc \in BusPc
    /\ bop \in Op \cup {None} /\ bref \in Worker \cup {None}
    /\ bdoomed \subseteq Op /\ gone \subseteq Caller
    /\ rpc \in RemovalPc
    /\ rref \in Worker \cup {None} /\ rdoomed \subseteq Op
    /\ rop \in Op \cup {None}
    /\ finished \in Seq(Op) /\ cpc \in Op \cup {None}
    /\ closed \in BOOLEAN

Init ==
    /\ current = None /\ made = None
    /\ queue = [w \in Worker |-> <<>>]
    /\ inFlight = [w \in Worker |-> None]
    /\ stopped = [w \in Worker |-> FALSE]
    /\ abandoned = [w \in Worker |-> FALSE]
    /\ detached = [w \in Worker |-> FALSE]
    /\ destroyed = [w \in Worker |-> FALSE]
    /\ wpc = [w \in Worker |-> "none"]
    /\ wop = [w \in Worker |-> None]
    /\ wdoomed = [w \in Worker |-> {}]
    /\ loc = [o \in Op |-> "unborn"]
    /\ terminal = [o \in Op |-> "none"]
    /\ cancelled = {} /\ byId = {} /\ opToSender = {} /\ senderToOps = {}
    /\ bpc = "idle" /\ bop = None /\ bref = None /\ bdoomed = {} /\ gone = {}
    /\ rpc = "idle" /\ rref = None /\ rdoomed = {} /\ rop = None
    /\ finished = <<>> /\ cpc = None /\ closed = FALSE

Elements(q) == {q[i] : i \in 1..Len(q)}
Place(ops, where) == [o \in Op |-> IF o \in ops THEN where ELSE loc[o]]
Finish(ops, status) ==
    [o \in Op |-> IF o \in ops /\ terminal[o] = "none" THEN status ELSE terminal[o]]

\* The bus thread is free to dispatch; removeReader() occupies it when it is
\* called there.
BusFree == bpc = "idle" /\ (RemovalThread = "bus" => rpc = "idle") /\ ~closed

\* Fault: a finished operation is only dropped from m_byId.
ForgetPathOnly(ops) ==
    byId' = byId \ ops /\ UNCHANGED <<opToSender, senderToOps>>

\* forgetOpById() for a set of operations.
Forget(ops) ==
    /\ byId' = byId \ ops
    /\ opToSender' = opToSender \ ops /\ senderToOps' = senderToOps \ ops

\* A shared_ptr<ReaderWorker> goes out of scope.  Unless another owner is left
\* (the map, the other thread, the zombie list) ~ReaderWorker joins the worker
\* thread and then destroys whatever its queue still holds.
OtherOwner(w, other) == current = w \/ other = w \/ detached[w]

LastRefDropped(w, other) ==
    IF OtherOwner(w, other)
    THEN UNCHANGED <<destroyed, loc>>
    ELSE /\ wpc[w] = "exited"
         /\ destroyed' = [destroyed EXCEPT ![w] = TRUE]
         /\ loc' = Place(Elements(queue[w]), "freed")

(***************************************************************************)
(* The bus thread: publish(), enqueueOnReaderWorker(), cancel() and        *)
(* dispatchClientDisconnect()                                              *)
(***************************************************************************)

\* workerFor(): the registered worker, or a fresh one with its thread.
WorkerFor(o) ==
    /\ BusFree /\ loc[o] = "unborn" /\ callerOf[o] \notin gone
    /\ IF current # None
       THEN bref' = current /\ UNCHANGED <<current, made, wpc>>
       ELSE /\ made + 1 \in Worker
            /\ made' = made + 1 /\ current' = made + 1 /\ bref' = made + 1
            /\ wpc' = [wpc EXCEPT ![made + 1] = "idle"]
    /\ bop' = o /\ bpc' = IF o \in Probe THEN "probe" ELSE "cap"
    /\ UNCHANGED <<queue, inFlight, stopped, abandoned, detached, wop, wdoomed,
                   destroyed, opVars, tableVars, bdoomed, gone, removeVars,
                   finished, cpc, closed>>

HasRoom(w) == Len(queue[w]) < kMaxQueuedOpsPerReader

\* The backlog check of publish(), in a critical section of its own; QueueFull
\* leaves the operation unbuilt.
CheckBacklog ==
    /\ bpc = "cap"
    /\ IF HasRoom(bref)
       THEN bpc' = "record" /\ loc' = Place({bop}, "bus")
       ELSE bpc' = "unref" /\ UNCHANGED loc
    /\ UNCHANGED <<current, made, workerVars, terminal, cancelled, tableVars,
                   bop, bref, bdoomed, gone, removeVars, finished, cpc, closed>>

RecordSender ==
    /\ bpc = "record"
    /\ senderToOps' = senderToOps \cup {bop} /\ opToSender' = opToSender \cup {bop}
    /\ bpc' = "index"
    /\ UNCHANGED <<current, made, workerVars, opVars, byId, bop, bref, bdoomed,
                   gone, removeVars, finished, cpc, closed>>

IndexById ==
    /\ bpc = "index"
    /\ byId' = byId \cup {bop} /\ bpc' = "push"
    /\ UNCHANGED <<current, made, workerVars, opVars, opToSender, senderToOps,
                   bop, bref, bdoomed, gone, removeVars, finished, cpc, closed>>

PushOp ==
    /\ bpc = "push"
    /\ queue' = [queue EXCEPT ![bref] = Append(@, bop)]
    /\ loc' = Place({bop}, "queue") /\ bpc' = "unref"
    /\ UNCHANGED <<current, made, inFlight, stopped, abandoned, detached, wpc,
                   wop, wdoomed, destroyed, terminal, cancelled, tableVars, bop,
                   bref, bdoomed, gone, removeVars, finished, cpc, closed>>

\* enqueueOnReaderWorker(): cap and push under one lock, nothing recorded.  A
\* refused probe is answered by the caller.
PushProbe ==
    /\ bpc = "probe"
    /\ IF HasRoom(bref)
       THEN /\ queue' = [queue EXCEPT ![bref] = Append(@, bop)]
            /\ loc' = Place({bop}, "queue")
       ELSE UNCHANGED <<queue, loc>>
    /\ bpc' = "unref"
    /\ UNCHANGED <<current, made, inFlight, stopped, abandoned, detached, wpc,
                   wop, wdoomed, destroyed, terminal, cancelled, tableVars, bop,
                   bref, bdoomed, gone, removeVars, finished, cpc, closed>>

\* publish() returns (or throws) and its copy of the worker handle dies.
BusUnref ==
    /\ bpc = "unref"
    /\ LastRefDropped(bref, rref)
    /\ bpc' = "idle" /\ bop' = None /\ bref' = None
    /\ UNCHANGED <<current, made, queue, inFlight, stopped, abandoned, detached,
                   wpc, wop, wdoomed, terminal, cancelled, tableVars, bdoomed,
                   gone, removeVars, finished, cpc, closed>>

\* cancel(): a lookup and requestCancel() under m_pathMutex.
Cancel(o) ==
    /\ BusFree /\ o \in byId
    /\ cancelled' = cancelled \cup {o}
    /\ UNCHANGED <<current, made, workerVars, loc, terminal, tableVars, busVars,
                   removeVars, finished, cpc, closed>>

\* Fault: only operations that have started are dispatched to.
StartedOps(c) == {o \in senderToOps : callerOf[o] = c /\ loc[o] # "queue"}

OpsOf(c) == {o \in senderToOps : callerOf[o] = c}

\* dispatchClientDisconnect(): take the ids, then cancel them one by one.
TakeSenderOps(c) ==
    /\ BusFree /\ c \notin gone
    /\ gone' = gone \cup {c}
    /\ bdoomed' = OpsOf(c) /\ bpc' = "cancel"
    /\ senderToOps' = {o \in senderToOps : callerOf[o] # c}
    /\ opToSender' = opToSender \ OpsOf(c)
    /\ UNCHANGED <<current, made, workerVars, opVars, byId, bop, bref,
                   removeVars, finished, cpc, closed>>

CancelTaken ==
    /\ bpc = "cancel"
    /\ IF bdoomed = {}
       THEN bpc' = "idle" /\ UNCHANGED <<bdoomed, cancelled>>
       ELSE \E o \in bdoomed :
              /\ bdoomed' = bdoomed \ {o}
              /\ cancelled' = IF o \in byId THEN cancelled \cup {o} ELSE cancelled
              /\ UNCHANGED bpc
    /\ UNCHANGED <<current, made, workerVars, loc, terminal, tableVars, bop,
                   bref, gone, removeVars, finished, cpc, closed>>

(***************************************************************************)
(* The worker thread: workerLoop()                                         *)
(***************************************************************************)
WorkerFrame == UNCHANGED <<current, made, busVars, removeVars, cpc, closed>>

\* A session invalidate, a hold change or the idle sweep: holder I/O with the
\* mutex released and nothing in flight.  (CardSessionHolder models it.)
StartHolderIo(w) ==
    /\ wpc[w] = "idle" /\ ~stopped[w]
    /\ wpc' = [wpc EXCEPT ![w] = "holder"]
    /\ WorkerFrame
    /\ UNCHANGED <<queue, inFlight, stopped, abandoned, detached, wop, wdoomed,
                   destroyed, opVars, tableVars, finished>>

HolderIoReturns(w) ==
    /\ wpc[w] = "holder"
    /\ wpc' = [wpc EXCEPT ![w] = "idle"]
    /\ WorkerFrame
    /\ UNCHANGED <<queue, inFlight, stopped, abandoned, detached, wop, wdoomed,
                   destroyed, opVars, tableVars, finished>>

PopOp(w) ==
    /\ wpc[w] = "idle" /\ ~stopped[w] /\ queue[w] # <<>>
    /\ wop' = [wop EXCEPT ![w] = Head(queue[w])]
    /\ inFlight' = [inFlight EXCEPT ![w] = Head(queue[w])]
    /\ queue' = [queue EXCEPT ![w] = Tail(@)]
    /\ loc' = Place({Head(queue[w])}, "worker")
    /\ wpc' = [wpc EXCEPT ![w] = "work"]
    /\ WorkerFrame
    /\ UNCHANGED <<stopped, abandoned, detached, wdoomed, destroyed, terminal,
                   cancelled, tableVars, finished>>

\* runOnWorker() returns, the operation terminal at the latest now.
DoWorkReturns(w) ==
    /\ wpc[w] = "work"
    /\ terminal' = Finish({wop[w]}, "done")
    /\ wpc' = [wpc EXCEPT ![w] = "returned"]
    /\ WorkerFrame
    /\ UNCHANGED <<queue, inFlight, stopped, abandoned, detached, wop, wdoomed,
                   destroyed, loc, cancelled, tableVars, finished>>

\* The per-operation watchdog publishes a timeout while doWork() is stuck.  A
\* probe arms none.
WatchdogFires(w) ==
    /\ wpc[w] = "work" /\ wop[w] \notin Probe /\ terminal[wop[w]] = "none"
    /\ terminal' = Finish({wop[w]}, "timeout")
    /\ cancelled' = cancelled \cup {wop[w]}
    /\ WorkerFrame
    /\ UNCHANGED <<workerVars, loc, tableVars, finished>>

ClearInFlight(w) ==
    /\ wpc[w] = "returned"
    /\ inFlight' = [inFlight EXCEPT ![w] = None]
    /\ wpc' = [wpc EXCEPT ![w] = "cleared"]
    /\ WorkerFrame
    /\ UNCHANGED <<queue, stopped, abandoned, detached, wop, wdoomed, destroyed,
                   opVars, tableVars, finished>>

\* The abandoned flag is read once; an abandoned worker drops its operation
\* and leaves, any other one goes on to use the manager.
ReadAbandoned(w) ==
    /\ wpc[w] = "cleared"
    /\ IF abandoned[w]
       THEN /\ loc' = Place({wop[w]}, "freed")
            /\ wop' = [wop EXCEPT ![w] = None]
            /\ wpc' = [wpc EXCEPT ![w] = "exited"]
       ELSE wpc' = [wpc EXCEPT ![w] = "park"] /\ UNCHANGED <<loc, wop>>
    /\ WorkerFrame
    /\ UNCHANGED <<queue, inFlight, stopped, abandoned, detached, wdoomed,
                   destroyed, terminal, cancelled, tableVars, finished>>

\* The operation moves to the cleanup-grace queue.
Park(w) ==
    /\ wpc[w] = "park" /\ ~closed
    /\ finished' = Append(finished, wop[w])
    /\ loc' = Place({wop[w]}, "grace")
    /\ wop' = [wop EXCEPT ![w] = None]
    /\ wpc' = [wpc EXCEPT ![w] = "idle"]
    /\ WorkerFrame
    /\ UNCHANGED <<queue, inFlight, stopped, abandoned, detached, wdoomed,
                   destroyed, terminal, cancelled, tableVars>>

\* The stop was seen: the exit drain takes the queue under the mutex ...
TakeQueue(w) ==
    /\ wpc[w] = "idle" /\ stopped[w]
    /\ wdoomed' = [wdoomed EXCEPT ![w] = Elements(queue[w])]
    /\ loc' = Place(Elements(queue[w]), "doomed")
    /\ queue' = [queue EXCEPT ![w] = <<>>]
    /\ wpc' = [wpc EXCEPT ![w] = "scrub"]
    /\ WorkerFrame
    /\ UNCHANGED <<inFlight, stopped, abandoned, detached, wop, destroyed,
                   terminal, cancelled, tableVars, finished>>

\* Fault: the drained operations are destroyed while the tables name them.
DestroyFirst(doomed) == TRUE

\* The tables no longer name any of the doomed.
Scrubbed(doomed) == doomed \cap byId = {}

\* Fault: the drained operations are just destroyed.
Unfinished(ops) == terminal

\* finishCardRemoved() on each drained operation; idempotent.
FinishCardRemoved(ops) == Finish(ops, "removed")

\* ... scrubs the tables while the operations are alive ...
ScrubOne(w) ==
    /\ wpc[w] = "scrub"
    /\ \E o \in wdoomed[w] \cap byId : Forget({o})
    /\ WorkerFrame /\ UNCHANGED <<workerVars, opVars, finished>>

\* ... and only then finishes and destroys them.
DropDoomed(w) ==
    /\ wpc[w] = "scrub" /\ Scrubbed(wdoomed[w])
    /\ terminal' = FinishCardRemoved(wdoomed[w])
    /\ cancelled' = cancelled \cup wdoomed[w]
    /\ loc' = Place(wdoomed[w], "freed")
    /\ wdoomed' = [wdoomed EXCEPT ![w] = {}]
    /\ wpc' = [wpc EXCEPT ![w] = "exited"]
    /\ WorkerFrame
    /\ UNCHANGED <<queue, inFlight, stopped, abandoned, detached, wop, destroyed,
                   tableVars, finished>>

(***************************************************************************)
(* removeReader() and abandonOrJoin()                                      *)
(***************************************************************************)
RemoveFrame == UNCHANGED <<made, busVars, finished, cpc, closed>>

TakeWorker ==
    /\ rpc = "idle" /\ current # None /\ ~closed
    /\ RemovalThread = "bus" => bpc = "idle"
    /\ rref' = current /\ current' = None /\ rpc' = "stop"
    /\ RemoveFrame
    /\ UNCHANGED <<workerVars, opVars, tableVars, rdoomed, rop>>

RequestStop ==
    /\ rpc = "stop"
    /\ stopped' = [stopped EXCEPT ![rref] = TRUE] /\ rpc' = "drain"
    /\ RemoveFrame
    /\ UNCHANGED <<current, queue, inFlight, abandoned, detached, wpc, wop,
                   wdoomed, destroyed, opVars, tableVars, rref, rdoomed, rop>>

InFlightOps(w) == {inFlight[w]} \ {None}

\* Under the worker's mutex: take the queue, cancel what is in flight.
DrainQueue ==
    /\ rpc = "drain"
    /\ rdoomed' = Elements(queue[rref])
    /\ loc' = Place(Elements(queue[rref]), "doomed")
    /\ queue' = [queue EXCEPT ![rref] = <<>>]
    /\ rop' = inFlight[rref]
    /\ cancelled' = cancelled \cup InFlightOps(rref)
    /\ rpc' = "scrub"
    /\ RemoveFrame
    /\ UNCHANGED <<current, inFlight, stopped, abandoned, detached, wpc, wop,
                   wdoomed, destroyed, terminal, tableVars, rref>>

ScrubDoomed ==
    /\ rpc = "scrub"
    /\ \E o \in rdoomed \cap byId : Forget({o})
    /\ RemoveFrame /\ UNCHANGED <<current, workerVars, opVars, removeVars>>

FinishDoomed ==
    /\ rpc = "scrub" /\ Scrubbed(rdoomed)
    /\ terminal' = FinishCardRemoved(rdoomed)
    /\ cancelled' = cancelled \cup rdoomed
    /\ loc' = Place(rdoomed, "freed") /\ rdoomed' = {}
    /\ rpc' = IF rop = None THEN "join" ELSE "poll"
    /\ RemoveFrame
    /\ UNCHANGED <<current, workerVars, tableVars, rref, rop>>

\* Fault: the decision keys on the operation being finished.
NotFinishedYet == terminal[rop] = "none"

StillInDoWork == inFlight[rref] # None

\* The grace is over, early or at its deadline: whether the worker is still in
\* doWork() is read once more under its mutex.
ReadInFlight ==
    /\ rpc = "poll"
    /\ rpc' = IF StillInDoWork THEN "forget" ELSE "join"
    /\ RemoveFrame
    /\ UNCHANGED <<current, workerVars, opVars, tableVars, rref, rdoomed, rop>>

ForgetInFlight ==
    /\ rpc = "forget"
    /\ Forget({rop}) /\ rpc' = "detach"
    /\ RemoveFrame
    /\ UNCHANGED <<current, workerVars, opVars, rref, rdoomed, rop>>

\* Mark abandoned, detach the thread, keep its storage on the zombie list.
Detach ==
    /\ rpc = "detach"
    /\ abandoned' = [abandoned EXCEPT ![rref] = TRUE]
    /\ detached' = [detached EXCEPT ![rref] = TRUE]
    /\ rpc' = "idle" /\ rref' = None /\ rop' = None
    /\ RemoveFrame
    /\ UNCHANGED <<current, queue, inFlight, stopped, wpc, wop, wdoomed,
                   destroyed, opVars, tableVars, rdoomed>>

\* The handle goes out of scope, which joins the worker.
JoinWorker ==
    /\ rpc = "join"
    /\ LastRefDropped(rref, bref)
    /\ rpc' = "idle" /\ rref' = None /\ rop' = None
    /\ RemoveFrame
    /\ UNCHANGED <<current, queue, inFlight, stopped, abandoned, detached, wpc,
                   wop, wdoomed, terminal, cancelled, tableVars, rdoomed>>

(***************************************************************************)
(* The cleanup-grace thread and the destructor                             *)
(***************************************************************************)

\* sweepFinished(): an aged operation leaves m_finished and the tables ...
SweepFinished ==
    /\ cpc = None /\ finished # <<>> /\ ~closed
    /\ cpc' = Head(finished) /\ finished' = Tail(finished)
    /\ Forget({Head(finished)})
    /\ UNCHANGED <<current, made, workerVars, opVars, busVars, removeVars, closed>>

\* ... and is destroyed with no agent lock held.
DestroySwept ==
    /\ cpc # None
    /\ loc' = Place({cpc}, "freed") /\ cpc' = None
    /\ UNCHANGED <<current, made, workerVars, terminal, cancelled, tableVars,
                   busVars, removeVars, finished, closed>>

\* ~OperationManager: every live worker went through abandonOrJoin(), the
\* cleanup thread is joined, and the members go.
Close ==
    /\ ~closed /\ current = None /\ rpc = "idle" /\ bpc = "idle" /\ cpc = None
    /\ closed' = TRUE
    /\ finished' = <<>> /\ loc' = Place(Elements(finished), "freed")
    /\ byId' = {} /\ opToSender' = {} /\ senderToOps' = {}
    /\ UNCHANGED <<current, made, workerVars, terminal, cancelled, busVars,
                   removeVars, cpc>>

(***************************************************************************)
(* The specification                                                       *)
(***************************************************************************)
BusContinues == CheckBacklog \/ RecordSender \/ IndexById \/ PushOp \/ PushProbe
                \/ BusUnref \/ CancelTaken

BusStarts ==
    \/ \E o \in Op : WorkerFor(o) \/ Cancel(o)
    \/ \E c \in Caller : TakeSenderOps(c)

WorkerContinues(w) ==
    PopOp(w) \/ ClearInFlight(w) \/ ReadAbandoned(w) \/ Park(w) \/ TakeQueue(w)
    \/ ScrubOne(w) \/ DropDoomed(w)

RemovalContinues ==
    RequestStop \/ DrainQueue \/ ScrubDoomed \/ FinishDoomed \/ ReadInFlight
    \/ ForgetInFlight \/ Detach \/ JoinWorker

Next ==
    \/ BusStarts \/ BusContinues
    \/ \E w \in Worker : \/ WorkerContinues(w) \/ DoWorkReturns(w)
                         \/ WatchdogFires(w)
                         \/ StartHolderIo(w) \/ HolderIoReturns(w)
    \/ TakeWorker \/ RemovalContinues
    \/ SweepFinished \/ DestroySwept \/ Close

Spec == Init /\ [][Next]_vars

\* Threads run; a card call, inside doWork() or the holder's, may never return.
WedgedCardSpec ==
    /\ Spec
    /\ WF_vars(BusContinues) /\ WF_vars(RemovalContinues)
    /\ \A w \in Worker : WF_vars(WorkerContinues(w)) /\ WF_vars(WatchdogFires(w))

\* Only doWork() can be wedged.
WedgedOpSpec ==
    WedgedCardSpec /\ \A w \in Worker : WF_vars(HolderIoReturns(w))

\* Every card call returns.  Holder work goes before queued operations, so a
\* pop that stays due must only be disabled finitely often: a session
\* invalidate or a hold change follows a card event, and the idle sweep runs
\* only when the wait timed out with an empty queue.
CardCallsReturn ==
    \A w \in Worker : WF_vars(DoWorkReturns(w)) /\ SF_vars(PopOp(w))

(***************************************************************************)
(* Properties                                                              *)
(***************************************************************************)

\* No tracking table names an operation that has been destroyed: a cancel or a
\* client-disconnect dispatch can never dereference one, and no entry outlives
\* its operation (forgetOp, sweepFinished and both drains).
NoStaleEntry ==
    \A o \in Op : loc[o] = "freed" => o \notin byId \cup opToSender \cup senderToOps

\* The reader's backlog never exceeds the cap, although publish() checks it in
\* one critical section and pushes in another.
BacklogBounded == \A w \in Worker : Len(queue[w]) <= kMaxQueuedOpsPerReader

\* Once a client's disconnect has been dispatched, each of its operations that
\* is not over yet is cancelled (or about to be, by the running dispatch).
DisconnectReachesAll ==
    \A o \in Op \ Probe :
        callerOf[o] \in gone /\ loc[o] \in {"queue", "worker"}
            => o \in cancelled \cup bdoomed \/ terminal[o] # "none"

\* removeReader() returns even when the card call in flight never does.
RemovalReturns == rpc # "idle" ~> rpc = "idle"

\* If card calls return, a queued operation comes to an end: it is run, or drained with
\* CardRemoved; a probe's closure is run or destroyed, either of which replies.
EveryOpEnds ==
    CardCallsReturn => \A o \in Op : loc[o] = "queue" ~>
        (terminal[o] # "none" \/ (o \in Probe /\ loc[o] = "freed") \/ closed)
=============================================================================
