----------------------- MODULE OperationManagerProofs -----------------------
(***************************************************************************)
(* OperationManager's types and its backlog, for any number of operations, *)
(* clients and workers and whichever thread removes readers; and its       *)
(* tables, with removals on the thread that publishes.                     *)
(*                                                                         *)
(* publish() checks the backlog in one critical section and pushes in a    *)
(* later one.  The cap holds because the bus thread alone pushes: the room *)
(* it found is still there (RoomInv).                                      *)
(***************************************************************************)
EXTENDS OperationManager, TLAPS

\* The bus thread holds a worker handle.
Publishing == bpc \in {"cap", "record", "index", "push", "probe", "unref"}

\* A thread in the middle of a call holds what it works on.
Handles ==
    /\ Publishing => bref \in Worker /\ bop \in Op
    /\ rpc # "idle" => rref \in Worker

\* What a worker has on its stack; one that was not made yet does not run.
Stack ==
    \A w \in Worker :
        /\ wpc[w] \in {"work", "returned"} => inFlight[w] = wop[w]
        /\ wpc[w] \notin {"work", "returned"} => inFlight[w] = None
        /\ wpc[w] \in {"work", "returned", "cleared", "park"} <=> wop[w] # None
        /\ w > made => wpc[w] = "none"

\* The backlog while an operation is on its way in.
RoomInv ==
    /\ BacklogBounded
    /\ bpc \in {"record", "index", "push"} => HasRoom(bref)

-----------------------------------------------------------------------------
\* What is left of a sequence when its head is taken.
LEMMA HeadTail ==
    ASSUME NEW S, NEW q \in Seq(S), q # <<>>
    PROVE  /\ Head(q) = q[1] /\ Head(q) \in S /\ Tail(q) \in Seq(S)
           /\ Len(q) \in Nat \ {0} /\ Len(Tail(q)) = Len(q) - 1
           /\ \A i \in 1..Len(q) - 1 : Tail(q)[i] = q[i + 1]
OBVIOUS

\* Workers are numbered from one, and zero is nobody.
LEMMA Numbers == Worker \subseteq Nat /\ None \notin Worker /\ None \notin Op
<1>1. \A n : 1..n \subseteq Nat /\ 0 \notin 1..n
  OBVIOUS
<1>2. Worker \subseteq Nat /\ None \notin Worker
  BY <1>1, WorkerAssumption, Zenon DEF None
<1> QED
  BY Zenon, <1>2, OpsAssumption DEF None

\* The operations in a queue.
LEMMA QueueFacts ==
    ASSUME NEW q \in Seq(Op)
    PROVE  /\ Elements(q) \subseteq Op /\ Elements(<<>>) = {}
           /\ \A o \in Op : /\ Append(q, o) \in Seq(Op) /\ Len(Append(q, o)) = Len(q) + 1
                            /\ Elements(Append(q, o)) = Elements(q) \cup {o}
           /\ q # <<>> => /\ Head(q) \in Elements(q) /\ Tail(q) \in Seq(Op)
                          /\ Len(Tail(q)) = Len(q) - 1 /\ Elements(q) = Elements(Tail(q)) \cup {Head(q)}
<1>1. Elements(q) \subseteq Op /\ Elements(<<>>) = {}
  BY SMTT(30) DEF Elements
<1>2. ASSUME NEW o \in Op
      PROVE  /\ Append(q, o) \in Seq(Op) /\ Len(Append(q, o)) = Len(q) + 1
             /\ Elements(Append(q, o)) = Elements(q) \cup {o}
  <2>1. /\ Append(q, o) \in Seq(Op) /\ Len(Append(q, o)) = Len(q) + 1 /\ Len(q) \in Nat
        /\ \A i \in 1..Len(q) : Append(q, o)[i] = q[i]
        /\ Append(q, o)[Len(q) + 1] = o
    OBVIOUS
  <2>2. 1..Len(q) + 1 = 1..Len(q) \cup {Len(q) + 1}
    OBVIOUS
  <2> QED
    BY DEF Elements
<1>3. ASSUME q # <<>>
      PROVE  /\ Head(q) \in Elements(q) /\ Tail(q) \in Seq(Op)
             /\ Len(Tail(q)) = Len(q) - 1 /\ Elements(q) = Elements(Tail(q)) \cup {Head(q)}
  <2>1. /\ Head(q) = q[1] /\ Tail(q) \in Seq(Op) /\ Len(Tail(q)) = Len(q) - 1
        /\ Len(q) \in Nat \ {0} /\ \A i \in 1..Len(q) - 1 : Tail(q)[i] = q[i + 1]
    BY <1>3, SMTT(30)
  <2>2. \A i \in 1..Len(q) : i = 1 \/ (i - 1 \in 1..Len(q) - 1 /\ (i - 1) + 1 = i)
    BY SMTT(30)
  <2>3. \A i \in 1..Len(q) - 1 : i + 1 \in 1..Len(q)
    BY SMTT(30)
  <2>4. 1 \in 1..Len(q)
    BY <2>1
  <2>5. Elements(q) \subseteq Elements(Tail(q)) \cup {Head(q)}
    BY DEF Elements
  <2>6. Elements(Tail(q)) \cup {Head(q)} \subseteq Elements(q)
    BY <2>4 DEF Elements
  <2> QED
    BY Zenon, <2>1, <2>5, <2>6
<1> QED
  BY Zenon, <1>1, <1>2, <1>3

\* Every action keeps the variables in their types.
LEMMA TypeStep == TypeOK /\ Handles /\ Stack /\ [Next]_vars => TypeOK'
<1> SUFFICES ASSUME TypeOK /\ Handles /\ Stack, [Next]_vars PROVE TypeOK'
  BY Zenon
<1>1. CASE UNCHANGED vars
  BY <1>1, Zenon DEF vars, workerVars, opVars, tableVars, busVars, removeVars,
     TypeOK
<1>2. ASSUME NEW o \in Op, WorkerFor(o) PROVE TypeOK'
  <2>1. /\ bref' \in Worker \cup {None}
        /\ current' \in Worker \cup {None}
        /\ made' \in Worker \cup {None}
        /\ bop' \in Op \cup {None}
        /\ bpc' \in BusPc
    BY Zenon, <1>2 DEF WorkerFor, TypeOK, BusPc
  <2>2. wpc' \in [Worker -> WorkerPc]
    BY Zenon, <1>2 DEF WorkerFor, TypeOK, WorkerPc
  <2>3. UNCHANGED <<queue, inFlight, stopped, abandoned, detached, wop,
                   wdoomed, destroyed, loc, terminal, cancelled, byId, opToSender,
                   senderToOps, bdoomed, gone, rpc, rref, rdoomed, rop, finished, cpc,
                   closed>>
    BY <1>2, SMTT(30) DEF WorkerFor, opVars, tableVars, removeVars
  <2> QED
    BY Zenon, <2>1, <2>2, <2>3 DEF TypeOK
<1>3. CASE CheckBacklog
  <2>1. bref \in Worker /\ bop \in Op
    BY <1>3, SMTT(30) DEF CheckBacklog, Handles, Publishing
  <2>2. bpc' \in BusPc
    BY Zenon, <1>3 DEF CheckBacklog, BusPc
  <2>3. loc' \in [Op -> Owner]
    BY Zenon, <1>3 DEF CheckBacklog, TypeOK, Owner, Place
  <2>4. UNCHANGED <<current, made, queue, inFlight, stopped, abandoned,
                   detached, wpc, wop, wdoomed, destroyed, terminal, cancelled, byId,
                   opToSender, senderToOps, bop, bref, bdoomed, gone, rpc, rref, rdoomed,
                   rop, finished, cpc, closed>>
    BY Zenon, <1>3 DEF CheckBacklog, workerVars, tableVars, removeVars
  <2> QED
    BY Zenon, <2>2, <2>3, <2>4 DEF TypeOK
<1>4. CASE RecordSender
  <2>1. bref \in Worker /\ bop \in Op
    BY <1>4, SMTT(30) DEF RecordSender, Handles, Publishing
  <2>2. /\ senderToOps' \subseteq Op
        /\ opToSender' \subseteq Op
        /\ bpc' \in BusPc
    BY Zenon, <1>4, <2>1 DEF RecordSender, TypeOK, BusPc
  <2>3. UNCHANGED <<current, made, queue, inFlight, stopped, abandoned,
                   detached, wpc, wop, wdoomed, destroyed, loc, terminal, cancelled,
                   byId, bop, bref, bdoomed, gone, rpc, rref, rdoomed, rop, finished,
                   cpc, closed>>
    BY Zenon, <1>4 DEF RecordSender, workerVars, opVars, removeVars
  <2> QED
    BY Zenon, <2>2, <2>3 DEF TypeOK
<1>5. CASE IndexById
  <2>1. bref \in Worker /\ bop \in Op
    BY <1>5, SMTT(30) DEF IndexById, Handles, Publishing
  <2>2. /\ byId' \subseteq Op
        /\ bpc' \in BusPc
    BY Zenon, <1>5, <2>1 DEF IndexById, TypeOK, BusPc
  <2>3. UNCHANGED <<current, made, queue, inFlight, stopped, abandoned,
                   detached, wpc, wop, wdoomed, destroyed, loc, terminal, cancelled,
                   opToSender, senderToOps, bop, bref, bdoomed, gone, rpc, rref, rdoomed,
                   rop, finished, cpc, closed>>
    BY Zenon, <1>5 DEF IndexById, workerVars, opVars, removeVars
  <2> QED
    BY Zenon, <2>2, <2>3 DEF TypeOK
<1>6. CASE PushOp
  <2>1. bref \in Worker /\ bop \in Op
    BY <1>6, SMTT(30) DEF PushOp, Handles, Publishing
  <2>2. bpc' \in BusPc
    BY Zenon, <1>6 DEF PushOp, BusPc
  <2>3. queue' \in [Worker -> Seq(Op)]
    BY <1>6, <2>1 DEF PushOp, TypeOK
  <2>4. loc' \in [Op -> Owner]
    BY Zenon, <1>6 DEF PushOp, TypeOK, Owner, Place
  <2>5. UNCHANGED <<current, made, inFlight, stopped, abandoned, detached,
                   wpc, wop, wdoomed, destroyed, terminal, cancelled, byId, opToSender,
                   senderToOps, bop, bref, bdoomed, gone, rpc, rref, rdoomed, rop,
                   finished, cpc, closed>>
    BY <1>6, SMTT(30) DEF PushOp, tableVars, removeVars
  <2> QED
    BY <2>2, <2>3, <2>4, <2>5, SMTT(30) DEF TypeOK
<1>7. CASE PushProbe
  <2>1. bref \in Worker /\ bop \in Op
    BY Zenon, <1>7 DEF PushProbe, Handles, Publishing
  <2>2. queue' = queue \/ queue' = [queue EXCEPT ![bref] = Append(queue[bref], bop)]
    BY Zenon, <1>7 DEF PushProbe
  <2>3. Append(queue[bref], bop) \in Seq(Op)
    BY <2>1 DEF TypeOK
  <2>4. bpc' \in BusPc
    BY <1>7, SMTT(30) DEF PushProbe, BusPc
  <2>5. queue' \in [Worker -> Seq(Op)]
    BY <2>2, <2>3, Zenon DEF TypeOK
  <2>6. loc' \in [Op -> Owner]
    BY Zenon, <1>7 DEF PushProbe, TypeOK, Owner, Place
  <2>7. UNCHANGED <<current, made, inFlight, stopped, abandoned, detached,
                   wpc, wop, wdoomed, destroyed, terminal, cancelled, byId, opToSender,
                   senderToOps, bop, bref, bdoomed, gone, rpc, rref, rdoomed, rop,
                   finished, cpc, closed>>
    BY <1>7, SMTT(30) DEF PushProbe, tableVars, removeVars
  <2> QED
    BY <2>4, <2>5, <2>6, <2>7, SMTT(30) DEF TypeOK
<1>8. CASE BusUnref
  <2>1. bref \in Worker /\ bop \in Op
    BY Zenon, <1>8 DEF BusUnref, Handles, Publishing
  <2>2. /\ bpc' \in BusPc
        /\ bop' \in Op \cup {None}
        /\ bref' \in Worker \cup {None}
    BY Zenon, <1>8 DEF BusUnref, BusPc
  <2>3. destroyed' \in [Worker -> BOOLEAN]
    BY <1>8, Zenon DEF BusUnref, TypeOK, LastRefDropped
  <2>4. loc' \in [Op -> Owner]
    BY Zenon, <1>8 DEF BusUnref, TypeOK, Owner, Place, LastRefDropped
  <2>5. UNCHANGED <<current, made, queue, inFlight, stopped, abandoned,
                   detached, wpc, wop, wdoomed, terminal, cancelled, byId, opToSender,
                   senderToOps, bdoomed, gone, rpc, rref, rdoomed, rop, finished, cpc,
                   closed>>
    BY <1>8, SMTT(30) DEF BusUnref, tableVars, removeVars
  <2> QED
    BY Zenon, <2>2, <2>3, <2>4, <2>5 DEF TypeOK
<1>9. ASSUME NEW o \in Op, Cancel(o) PROVE TypeOK'
  <2>1. cancelled' \subseteq Op
    BY Zenon, <1>9 DEF Cancel, TypeOK
  <2>2. UNCHANGED <<current, made, queue, inFlight, stopped, abandoned,
                   detached, wpc, wop, wdoomed, destroyed, loc, terminal, byId,
                   opToSender, senderToOps, bpc, bop, bref, bdoomed, gone, rpc, rref,
                   rdoomed, rop, finished, cpc, closed>>
    BY <1>9, SMTT(30) DEF Cancel, workerVars, tableVars, busVars, removeVars
  <2> QED
    BY Zenon, <2>1, <2>2 DEF TypeOK
<1>10. ASSUME NEW c \in Caller, TakeSenderOps(c) PROVE TypeOK'
  <2>1. /\ gone' \subseteq Caller
        /\ bdoomed' \subseteq Op
        /\ bpc' \in BusPc
        /\ senderToOps' \subseteq Op
        /\ opToSender' \subseteq Op
    BY Zenon, <1>10 DEF TakeSenderOps, TypeOK, BusPc, OpsOf
  <2>2. UNCHANGED <<current, made, queue, inFlight, stopped, abandoned,
                   detached, wpc, wop, wdoomed, destroyed, loc, terminal, cancelled,
                   byId, bop, bref, rpc, rref, rdoomed, rop, finished, cpc, closed>>
    BY Zenon, <1>10 DEF TakeSenderOps, workerVars, opVars, removeVars
  <2> QED
    BY Zenon, <2>1, <2>2 DEF TypeOK
<1>11. CASE CancelTaken
  <2>1. /\ bpc' \in BusPc
        /\ bdoomed' \subseteq Op
        /\ cancelled' \subseteq Op
    BY Zenon, <1>11 DEF CancelTaken, TypeOK, BusPc
  <2>2. UNCHANGED <<current, made, queue, inFlight, stopped, abandoned,
                   detached, wpc, wop, wdoomed, destroyed, loc, terminal, byId,
                   opToSender, senderToOps, bop, bref, gone, rpc, rref, rdoomed, rop,
                   finished, cpc, closed>>
    BY <1>11, SMTT(30) DEF CancelTaken, workerVars, tableVars, removeVars
  <2> QED
    BY Zenon, <2>1, <2>2 DEF TypeOK
<1>12. ASSUME NEW w \in Worker, StartHolderIo(w) PROVE TypeOK'
  <2>1. wpc' \in [Worker -> WorkerPc]
    BY Zenon, <1>12 DEF StartHolderIo, TypeOK, WorkerPc
  <2>2. UNCHANGED <<current, made, queue, inFlight, stopped, abandoned,
                   detached, wop, wdoomed, destroyed, loc, terminal, cancelled, byId,
                   opToSender, senderToOps, bpc, bop, bref, bdoomed, gone, rpc, rref,
                   rdoomed, rop, finished, cpc, closed>>
    BY <1>12, SMTT(30) DEF StartHolderIo, WorkerFrame, opVars, tableVars,
       busVars, removeVars
  <2> QED
    BY Zenon, <2>1, <2>2 DEF TypeOK
<1>13. ASSUME NEW w \in Worker, HolderIoReturns(w) PROVE TypeOK'
  <2>1. wpc' \in [Worker -> WorkerPc]
    BY Zenon, <1>13 DEF HolderIoReturns, TypeOK, WorkerPc
  <2>2. UNCHANGED <<current, made, queue, inFlight, stopped, abandoned,
                   detached, wop, wdoomed, destroyed, loc, terminal, cancelled, byId,
                   opToSender, senderToOps, bpc, bop, bref, bdoomed, gone, rpc, rref,
                   rdoomed, rop, finished, cpc, closed>>
    BY Zenon, <1>13 DEF HolderIoReturns, WorkerFrame, opVars, tableVars, busVars,
       removeVars
  <2> QED
    BY Zenon, <2>1, <2>2 DEF TypeOK
<1>14. ASSUME NEW w \in Worker, PopOp(w) PROVE TypeOK'
  <2>1. queue[w] \in Seq(Op)
    BY Zenon DEF TypeOK
  <2>2. Head(queue[w]) \in Op /\ Tail(queue[w]) \in Seq(Op)
    BY <1>14, <2>1 DEF PopOp
  <2>3. wop' \in [Worker -> Op \cup {None}]
    BY <1>14 DEF PopOp, TypeOK
  <2>4. inFlight' \in [Worker -> Op \cup {None}]
    BY <1>14 DEF PopOp, TypeOK
  <2>5. queue' \in [Worker -> Seq(Op)]
    BY <1>14 DEF PopOp, TypeOK
  <2>6. loc' \in [Op -> Owner]
    BY Zenon, <1>14 DEF PopOp, TypeOK, Owner, Place
  <2>7. wpc' \in [Worker -> WorkerPc]
    BY Zenon, <1>14 DEF PopOp, TypeOK, WorkerPc
  <2>8. UNCHANGED <<current, made, stopped, abandoned, detached, wdoomed,
                   destroyed, terminal, cancelled, byId, opToSender, senderToOps, bpc,
                   bop, bref, bdoomed, gone, rpc, rref, rdoomed, rop, finished, cpc,
                   closed>>
    BY Zenon, <1>14 DEF PopOp, WorkerFrame, tableVars, busVars, removeVars
  <2> QED
    BY <2>3, <2>4, <2>5, <2>6, <2>7, <2>8, Zenon DEF TypeOK
<1>15. ASSUME NEW w \in Worker, DoWorkReturns(w) PROVE TypeOK'
  <2>1. wop[w] \in Op
    BY Zenon, <1>15 DEF DoWorkReturns, Stack, TypeOK
  <2>2. terminal' \in [Op -> Status]
    BY Zenon, <1>15 DEF DoWorkReturns, TypeOK, Status, Finish
  <2>3. wpc' \in [Worker -> WorkerPc]
    BY Zenon, <1>15 DEF DoWorkReturns, TypeOK, WorkerPc
  <2>4. UNCHANGED <<current, made, queue, inFlight, stopped, abandoned,
                   detached, wop, wdoomed, destroyed, loc, cancelled, byId, opToSender,
                   senderToOps, bpc, bop, bref, bdoomed, gone, rpc, rref, rdoomed, rop,
                   finished, cpc, closed>>
    BY Zenon, <1>15 DEF DoWorkReturns, WorkerFrame, tableVars, busVars, removeVars
  <2> QED
    BY Zenon, <2>2, <2>3, <2>4 DEF TypeOK
<1>16. ASSUME NEW w \in Worker, WatchdogFires(w) PROVE TypeOK'
  <2>1. wop[w] \in Op
    BY <1>16 DEF WatchdogFires, Stack, TypeOK
  <2>2. cancelled' \subseteq Op
    BY Zenon, <1>16, <2>1 DEF WatchdogFires, TypeOK
  <2>3. terminal' \in [Op -> Status]
    BY Zenon, <1>16 DEF WatchdogFires, TypeOK, Status, Finish
  <2>4. UNCHANGED <<current, made, queue, inFlight, stopped, abandoned,
                   detached, wpc, wop, wdoomed, destroyed, loc, byId, opToSender,
                   senderToOps, bpc, bop, bref, bdoomed, gone, rpc, rref, rdoomed, rop,
                   finished, cpc, closed>>
    BY Zenon, <1>16 DEF WatchdogFires, WorkerFrame, workerVars, tableVars, busVars,
       removeVars
  <2> QED
    BY Zenon, <2>2, <2>3, <2>4 DEF TypeOK
<1>17. ASSUME NEW w \in Worker, ClearInFlight(w) PROVE TypeOK'
  <2>1. inFlight' \in [Worker -> Op \cup {None}]
    BY Zenon, <1>17 DEF ClearInFlight, TypeOK
  <2>2. wpc' \in [Worker -> WorkerPc]
    BY Zenon, <1>17 DEF ClearInFlight, TypeOK, WorkerPc
  <2>3. UNCHANGED <<current, made, queue, stopped, abandoned, detached, wop,
                   wdoomed, destroyed, loc, terminal, cancelled, byId, opToSender,
                   senderToOps, bpc, bop, bref, bdoomed, gone, rpc, rref, rdoomed, rop,
                   finished, cpc, closed>>
    BY Zenon, <1>17 DEF ClearInFlight, WorkerFrame, opVars, tableVars, busVars,
       removeVars
  <2> QED
    BY Zenon, <2>1, <2>2, <2>3 DEF TypeOK
<1>18. ASSUME NEW w \in Worker, ReadAbandoned(w) PROVE TypeOK'
  <2>1. wop[w] \in Op
    BY Zenon, <1>18 DEF ReadAbandoned, Stack, TypeOK
  <2>2. loc' \in [Op -> Owner]
    BY <1>18 DEF ReadAbandoned, TypeOK, Owner, Place
  <2>3. wop' \in [Worker -> Op \cup {None}]
    BY <1>18, Zenon DEF ReadAbandoned, TypeOK
  <2>4. wpc' \in [Worker -> WorkerPc]
    BY <1>18, <2>1, ZenonT(30) DEF ReadAbandoned, TypeOK, WorkerPc
  <2>5. UNCHANGED <<current, made, queue, inFlight, stopped, abandoned,
                   detached, wdoomed, destroyed, terminal, cancelled, byId, opToSender,
                   senderToOps, bpc, bop, bref, bdoomed, gone, rpc, rref, rdoomed, rop,
                   finished, cpc, closed>>
    BY <1>18, SMTT(30) DEF ReadAbandoned, WorkerFrame, tableVars, busVars,
       removeVars
  <2> QED
    BY Zenon, <2>2, <2>3, <2>4, <2>5 DEF TypeOK
<1>19. ASSUME NEW w \in Worker, Park(w) PROVE TypeOK'
  <2>1. wop[w] \in Op
    BY Zenon, <1>19 DEF Park, Stack, TypeOK
  <2>2. finished' \in Seq(Op)
    BY <1>19, <2>1 DEF Park, TypeOK
  <2>3. loc' \in [Op -> Owner]
    BY Zenon, <1>19 DEF Park, TypeOK, Owner, Place
  <2>4. wop' \in [Worker -> Op \cup {None}]
    BY Zenon, <1>19 DEF Park, TypeOK
  <2>5. wpc' \in [Worker -> WorkerPc]
    BY Zenon, <1>19 DEF Park, TypeOK, WorkerPc
  <2>6. UNCHANGED <<current, made, queue, inFlight, stopped, abandoned,
                   detached, wdoomed, destroyed, terminal, cancelled, byId, opToSender,
                   senderToOps, bpc, bop, bref, bdoomed, gone, rpc, rref, rdoomed, rop,
                   cpc, closed>>
    BY <1>19, SMTT(30) DEF Park, WorkerFrame, tableVars, busVars, removeVars
  <2> QED
    BY Zenon, <2>2, <2>3, <2>4, <2>5, <2>6 DEF TypeOK
<1>20. ASSUME NEW w \in Worker, TakeQueue(w) PROVE TypeOK'
  <2>1. Elements(queue[w]) \subseteq Op
    BY Zenon, QueueFacts DEF TypeOK
  <2>2. wdoomed' \in [Worker -> SUBSET Op]
    BY Zenon, <1>20, <2>1 DEF TakeQueue, TypeOK
  <2>3. loc' \in [Op -> Owner]
    BY Zenon, <1>20 DEF TakeQueue, TypeOK, Owner, Place
  <2>4. queue' \in [Worker -> Seq(Op)]
    BY <1>20 DEF TakeQueue, TypeOK
  <2>5. wpc' \in [Worker -> WorkerPc]
    BY Zenon, <1>20 DEF TakeQueue, TypeOK, WorkerPc
  <2>6. UNCHANGED <<current, made, inFlight, stopped, abandoned, detached,
                   wop, destroyed, terminal, cancelled, byId, opToSender, senderToOps,
                   bpc, bop, bref, bdoomed, gone, rpc, rref, rdoomed, rop, finished, cpc,
                   closed>>
    BY Zenon, <1>20 DEF TakeQueue, WorkerFrame, tableVars, busVars, removeVars
  <2> QED
    BY <2>2, <2>3, <2>4, <2>5, <2>6, SMTT(30) DEF TypeOK
<1>21. ASSUME NEW w \in Worker, ScrubOne(w) PROVE TypeOK'
  <2>1. /\ byId' \subseteq Op
        /\ opToSender' \subseteq Op
        /\ senderToOps' \subseteq Op
    BY Zenon, <1>21 DEF ScrubOne, TypeOK, Forget
  <2>2. UNCHANGED <<current, made, queue, inFlight, stopped, abandoned,
                   detached, wpc, wop, wdoomed, destroyed, loc, terminal, cancelled, bpc,
                   bop, bref, bdoomed, gone, rpc, rref, rdoomed, rop, finished, cpc,
                   closed>>
    BY <1>21, Zenon DEF ScrubOne, WorkerFrame, workerVars, opVars, busVars,
       removeVars
  <2> QED
    BY Zenon, <2>1, <2>2 DEF TypeOK
<1>22. ASSUME NEW w \in Worker, DropDoomed(w) PROVE TypeOK'
  <2>1. cancelled' \subseteq Op
    BY Zenon, <1>22 DEF DropDoomed, TypeOK
  <2>2. terminal' \in [Op -> Status]
    BY Zenon, <1>22 DEF DropDoomed, TypeOK, Status, Finish, FinishCardRemoved
  <2>3. loc' \in [Op -> Owner]
    BY Zenon, <1>22 DEF DropDoomed, TypeOK, Owner, Place
  <2>4. wdoomed' \in [Worker -> SUBSET Op]
    BY Zenon, <1>22 DEF DropDoomed, TypeOK
  <2>5. wpc' \in [Worker -> WorkerPc]
    BY Zenon, <1>22 DEF DropDoomed, TypeOK, WorkerPc
  <2>6. UNCHANGED <<current, made, queue, inFlight, stopped, abandoned,
                   detached, wop, destroyed, byId, opToSender, senderToOps, bpc, bop,
                   bref, bdoomed, gone, rpc, rref, rdoomed, rop, finished, cpc, closed>>
    BY Zenon, <1>22 DEF DropDoomed, WorkerFrame, tableVars, busVars, removeVars
  <2> QED
    BY Zenon, <2>1, <2>2, <2>3, <2>4, <2>5, <2>6 DEF TypeOK
<1>23. CASE TakeWorker
  <2>1. /\ rref' \in Worker \cup {None}
        /\ current' \in Worker \cup {None}
        /\ rpc' \in RemovalPc
    BY Zenon, <1>23 DEF TakeWorker, TypeOK, RemovalPc
  <2>2. UNCHANGED <<made, queue, inFlight, stopped, abandoned, detached, wpc,
                   wop, wdoomed, destroyed, loc, terminal, cancelled, byId, opToSender,
                   senderToOps, bpc, bop, bref, bdoomed, gone, rdoomed, rop, finished,
                   cpc, closed>>
    BY <1>23, SMTT(30) DEF TakeWorker, RemoveFrame, workerVars, opVars,
       tableVars, busVars
  <2> QED
    BY Zenon, <2>1, <2>2 DEF TypeOK
<1>24. CASE RequestStop
  <2>1. rpc' \in RemovalPc
    BY <1>24, SMTT(30) DEF RequestStop, RemovalPc
  <2>2. stopped' \in [Worker -> BOOLEAN]
    BY <1>24, Zenon DEF RequestStop, TypeOK
  <2>3. UNCHANGED <<current, made, queue, inFlight, abandoned, detached, wpc,
                   wop, wdoomed, destroyed, loc, terminal, cancelled, byId, opToSender,
                   senderToOps, bpc, bop, bref, bdoomed, gone, rref, rdoomed, rop,
                   finished, cpc, closed>>
    BY Zenon, <1>24 DEF RequestStop, RemoveFrame, opVars, tableVars, busVars
  <2> QED
    BY Zenon, <2>1, <2>2, <2>3 DEF TypeOK
<1>25. CASE DrainQueue
  <2>1. rref \in Worker
    BY Zenon, <1>25 DEF DrainQueue, Handles
  <2>2. Elements(queue[rref]) \subseteq Op /\ inFlight[rref] \in Op \cup {None}
    BY Zenon, <2>1, QueueFacts DEF TypeOK
  <2>3. /\ rdoomed' \subseteq Op
        /\ rop' \in Op \cup {None}
        /\ cancelled' \subseteq Op
        /\ rpc' \in RemovalPc
    BY Zenon, <1>25, <2>2 DEF DrainQueue, TypeOK, RemovalPc, InFlightOps
  <2>4. loc' \in [Op -> Owner]
    BY Zenon, <1>25 DEF DrainQueue, TypeOK, Owner, Place
  <2>5. queue' \in [Worker -> Seq(Op)]
    BY <1>25, <2>1 DEF DrainQueue, TypeOK
  <2>6. UNCHANGED <<current, made, inFlight, stopped, abandoned, detached,
                   wpc, wop, wdoomed, destroyed, terminal, byId, opToSender, senderToOps,
                   bpc, bop, bref, bdoomed, gone, rref, finished, cpc, closed>>
    BY <1>25, Zenon DEF DrainQueue, RemoveFrame, tableVars, busVars
  <2> QED
    BY <2>3, <2>4, <2>5, <2>6, SMTT(30) DEF TypeOK
<1>26. CASE ScrubDoomed
  <2>1. /\ byId' \subseteq Op
        /\ opToSender' \subseteq Op
        /\ senderToOps' \subseteq Op
    BY Zenon, <1>26 DEF ScrubDoomed, TypeOK, Forget
  <2>2. UNCHANGED <<current, made, queue, inFlight, stopped, abandoned,
                   detached, wpc, wop, wdoomed, destroyed, loc, terminal, cancelled, bpc,
                   bop, bref, bdoomed, gone, rpc, rref, rdoomed, rop, finished, cpc,
                   closed>>
    BY <1>26, SMTT(30) DEF ScrubDoomed, RemoveFrame, workerVars, opVars,
       busVars, removeVars
  <2> QED
    BY Zenon, <2>1, <2>2 DEF TypeOK
<1>27. CASE FinishDoomed
  <2>1. /\ cancelled' \subseteq Op
        /\ rdoomed' \subseteq Op
        /\ rpc' \in RemovalPc
    BY Zenon, <1>27 DEF FinishDoomed, TypeOK, RemovalPc
  <2>2. terminal' \in [Op -> Status]
    BY Zenon, <1>27 DEF FinishDoomed, TypeOK, Status, Finish, FinishCardRemoved
  <2>3. loc' \in [Op -> Owner]
    BY Zenon, <1>27 DEF FinishDoomed, TypeOK, Owner, Place
  <2>4. UNCHANGED <<current, made, queue, inFlight, stopped, abandoned,
                   detached, wpc, wop, wdoomed, destroyed, byId, opToSender, senderToOps,
                   bpc, bop, bref, bdoomed, gone, rref, rop, finished, cpc, closed>>
    BY Zenon, <1>27 DEF FinishDoomed, RemoveFrame, workerVars, tableVars, busVars
  <2> QED
    BY Zenon, <2>1, <2>2, <2>3, <2>4 DEF TypeOK
<1>28. CASE ReadInFlight
  <2>1. rpc' \in RemovalPc
    BY <1>28, SMTT(30) DEF ReadInFlight, RemovalPc
  <2>2. UNCHANGED <<current, made, queue, inFlight, stopped, abandoned,
                   detached, wpc, wop, wdoomed, destroyed, loc, terminal, cancelled,
                   byId, opToSender, senderToOps, bpc, bop, bref, bdoomed, gone, rref,
                   rdoomed, rop, finished, cpc, closed>>
    BY Zenon, <1>28 DEF ReadInFlight, RemoveFrame, workerVars, opVars, tableVars,
       busVars
  <2> QED
    BY Zenon, <2>1, <2>2 DEF TypeOK
<1>29. CASE ForgetInFlight
  <2>1. /\ byId' \subseteq Op
        /\ opToSender' \subseteq Op
        /\ senderToOps' \subseteq Op
        /\ rpc' \in RemovalPc
    BY Zenon, <1>29 DEF ForgetInFlight, TypeOK, Forget, RemovalPc
  <2>2. UNCHANGED <<current, made, queue, inFlight, stopped, abandoned,
                   detached, wpc, wop, wdoomed, destroyed, loc, terminal, cancelled, bpc,
                   bop, bref, bdoomed, gone, rref, rdoomed, rop, finished, cpc, closed>>
    BY Zenon, <1>29 DEF ForgetInFlight, RemoveFrame, workerVars, opVars, busVars
  <2> QED
    BY Zenon, <2>1, <2>2 DEF TypeOK
<1>30. CASE Detach
  <2>1. /\ rpc' \in RemovalPc
        /\ rref' \in Worker \cup {None}
        /\ rop' \in Op \cup {None}
    BY Zenon, <1>30 DEF Detach, RemovalPc
  <2>2. abandoned' \in [Worker -> BOOLEAN]
    BY <1>30, Zenon DEF Detach, TypeOK
  <2>3. detached' \in [Worker -> BOOLEAN]
    BY <1>30, Zenon DEF Detach, TypeOK
  <2>4. UNCHANGED <<current, made, queue, inFlight, stopped, wpc, wop,
                   wdoomed, destroyed, loc, terminal, cancelled, byId, opToSender,
                   senderToOps, bpc, bop, bref, bdoomed, gone, rdoomed, finished, cpc,
                   closed>>
    BY Zenon, <1>30 DEF Detach, RemoveFrame, opVars, tableVars, busVars
  <2> QED
    BY Zenon, <2>1, <2>2, <2>3, <2>4 DEF TypeOK
<1>31. CASE JoinWorker
  <2>1. /\ rpc' \in RemovalPc
        /\ rref' \in Worker \cup {None}
        /\ rop' \in Op \cup {None}
    BY Zenon, <1>31 DEF JoinWorker, RemovalPc
  <2>2. destroyed' \in [Worker -> BOOLEAN]
    BY <1>31, Zenon DEF JoinWorker, TypeOK, LastRefDropped
  <2>3. loc' \in [Op -> Owner]
    BY Zenon, <1>31 DEF JoinWorker, TypeOK, Owner, Place, LastRefDropped
  <2>4. UNCHANGED <<current, made, queue, inFlight, stopped, abandoned,
                   detached, wpc, wop, wdoomed, terminal, cancelled, byId, opToSender,
                   senderToOps, bpc, bop, bref, bdoomed, gone, rdoomed, finished, cpc,
                   closed>>
    BY <1>31, SMTT(30) DEF JoinWorker, RemoveFrame, tableVars, busVars
  <2> QED
    BY Zenon, <2>1, <2>2, <2>3, <2>4 DEF TypeOK
<1>32. CASE SweepFinished
  <2>1. Head(finished) \in Op /\ Tail(finished) \in Seq(Op)
    BY <1>32 DEF SweepFinished, TypeOK
  <2>2. /\ cpc' \in Op \cup {None}
        /\ finished' \in Seq(Op)
        /\ byId' \subseteq Op
        /\ opToSender' \subseteq Op
        /\ senderToOps' \subseteq Op
    BY <1>32, <2>1, Zenon DEF SweepFinished, TypeOK, Forget
  <2>3. UNCHANGED <<current, made, queue, inFlight, stopped, abandoned,
                   detached, wpc, wop, wdoomed, destroyed, loc, terminal, cancelled, bpc,
                   bop, bref, bdoomed, gone, rpc, rref, rdoomed, rop, closed>>
    BY Zenon, <1>32 DEF SweepFinished, workerVars, opVars, busVars, removeVars
  <2> QED
    BY Zenon, <2>2, <2>3 DEF TypeOK
<1>33. CASE DestroySwept
  <2>1. cpc' \in Op \cup {None}
    BY <1>33, SMTT(30) DEF DestroySwept
  <2>2. loc' \in [Op -> Owner]
    BY Zenon, <1>33 DEF DestroySwept, TypeOK, Owner, Place
  <2>3. UNCHANGED <<current, made, queue, inFlight, stopped, abandoned,
                   detached, wpc, wop, wdoomed, destroyed, terminal, cancelled, byId,
                   opToSender, senderToOps, bpc, bop, bref, bdoomed, gone, rpc, rref,
                   rdoomed, rop, finished, closed>>
    BY <1>33, SMTT(30) DEF DestroySwept, workerVars, tableVars, busVars,
       removeVars
  <2> QED
    BY Zenon, <2>1, <2>2, <2>3 DEF TypeOK
<1>34. CASE Close
  <2>1. /\ closed' \in BOOLEAN
        /\ finished' \in Seq(Op)
        /\ byId' \subseteq Op
        /\ opToSender' \subseteq Op
        /\ senderToOps' \subseteq Op
    BY <1>34, SMTT(30) DEF Close
  <2>2. loc' \in [Op -> Owner]
    BY Zenon, <1>34 DEF Close, TypeOK, Owner, Place
  <2>3. UNCHANGED <<current, made, queue, inFlight, stopped, abandoned,
                   detached, wpc, wop, wdoomed, destroyed, terminal, cancelled, bpc, bop,
                   bref, bdoomed, gone, rpc, rref, rdoomed, rop, cpc>>
    BY Zenon, <1>34 DEF Close, workerVars, busVars, removeVars
  <2> QED
    BY Zenon, <2>1, <2>2, <2>3 DEF TypeOK
<1> QED
  BY Zenon, <1>1, <1>2, <1>3, <1>4, <1>5, <1>6, <1>7, <1>8, <1>9, <1>10, <1>11,
     <1>12, <1>13, <1>14, <1>15, <1>16, <1>17, <1>18, <1>19, <1>20, <1>21,
     <1>22, <1>23, <1>24, <1>25, <1>26, <1>27, <1>28, <1>29, <1>30, <1>31,
     <1>32, <1>33, <1>34 DEF Next, BusStarts, BusContinues, WorkerContinues,
     RemovalContinues

\* The bus thread and the removal keep their handles.
LEMMA HandlesStep == TypeOK /\ Handles /\ Stack /\ [Next]_vars => Handles'
<1> SUFFICES ASSUME TypeOK /\ Handles /\ Stack, [Next]_vars PROVE Handles'
  BY Zenon
<1>1. CASE (\E o \in Op : Cancel(o)) \/ (\E w \in Worker : StartHolderIo(w)) \/
     (\E w \in Worker : HolderIoReturns(w)) \/ (\E w \in Worker : PopOp(w))
     \/ (\E w \in Worker : DoWorkReturns(w)) \/ (\E w \in Worker :
     WatchdogFires(w)) \/ (\E w \in Worker : ClearInFlight(w)) \/ (\E w \in
     Worker : ReadAbandoned(w)) \/ (\E w \in Worker : Park(w)) \/ (\E w \in
     Worker : TakeQueue(w)) \/ (\E w \in Worker : ScrubOne(w)) \/ (\E w \in
     Worker : DropDoomed(w)) \/ ScrubDoomed \/ SweepFinished \/
     DestroySwept \/ Close \/ UNCHANGED vars
  BY <1>1, Zenon DEF Cancel, StartHolderIo, WorkerFrame, HolderIoReturns,
     PopOp, DoWorkReturns, WatchdogFires, ClearInFlight, ReadAbandoned, Park,
     TakeQueue, ScrubOne, DropDoomed, ScrubDoomed, RemoveFrame, SweepFinished,
     DestroySwept, Close, vars, busVars, removeVars, Handles, Publishing
<1>2. ASSUME NEW o \in Op, WorkerFor(o) PROVE Handles'
  BY Zenon, <1>2 DEF WorkerFor, Handles, TypeOK, removeVars
<1>3. CASE CheckBacklog
  BY <1>3, SMTT(30) DEF CheckBacklog, Handles, Publishing, removeVars
<1>4. CASE RecordSender
  BY <1>4, SMTT(30) DEF RecordSender, Handles, Publishing, removeVars
<1>5. CASE IndexById
  BY Zenon, <1>5 DEF IndexById, Handles, Publishing, removeVars
<1>6. CASE PushOp
  BY <1>6, SMTT(30) DEF PushOp, Handles, Publishing, removeVars
<1>7. CASE PushProbe
  BY <1>7, SMTT(30) DEF PushProbe, Handles, Publishing, removeVars
<1>8. CASE BusUnref
  BY <1>8, SMTT(30) DEF BusUnref, Handles, Publishing, removeVars
<1>9. ASSUME NEW c \in Caller, TakeSenderOps(c) PROVE Handles'
  BY Zenon, <1>9 DEF TakeSenderOps, Handles, Publishing, removeVars
<1>10. CASE CancelTaken
  BY Zenon, <1>10 DEF CancelTaken, Handles, Publishing, removeVars
<1>11. CASE TakeWorker
  BY Zenon, <1>11 DEF TakeWorker, RemoveFrame, Handles, Publishing, TypeOK, busVars
<1>12. CASE RequestStop
  BY Zenon, <1>12 DEF RequestStop, RemoveFrame, Handles, Publishing, busVars
<1>13. CASE DrainQueue
  BY <1>13, SMTT(30) DEF DrainQueue, RemoveFrame, Handles, Publishing, busVars
<1>14. CASE FinishDoomed
  BY <1>14, SMTT(30) DEF FinishDoomed, RemoveFrame, Handles, Publishing,
     busVars
<1>15. CASE ReadInFlight
  BY <1>15, SMTT(30) DEF ReadInFlight, RemoveFrame, Handles, Publishing,
     busVars
<1>16. CASE ForgetInFlight
  BY <1>16, SMTT(30) DEF ForgetInFlight, RemoveFrame, Handles, Publishing,
     busVars
<1>17. CASE Detach
  BY Zenon, <1>17 DEF Detach, RemoveFrame, Handles, Publishing, busVars
<1>18. CASE JoinWorker
  BY Zenon, <1>18 DEF JoinWorker, RemoveFrame, Handles, Publishing, busVars
<1> QED
  BY Zenon, <1>1, <1>2, <1>3, <1>4, <1>5, <1>6, <1>7, <1>8, <1>9, <1>10, <1>11,
     <1>12, <1>13, <1>14, <1>15, <1>16, <1>17, <1>18 DEF Next, BusStarts,
     BusContinues, WorkerContinues, RemovalContinues

\* A worker's stack follows its place in the loop.
LEMMA StackStep == TypeOK /\ Handles /\ Stack /\ [Next]_vars => Stack'
<1> SUFFICES ASSUME TypeOK /\ Handles /\ Stack, [Next]_vars PROVE Stack'
  BY Zenon
<1>1. CASE CheckBacklog \/ RecordSender \/ IndexById \/ PushOp \/ PushProbe \/
     BusUnref \/ (\E o \in Op : Cancel(o)) \/ (\E c \in Caller :
     TakeSenderOps(c)) \/ CancelTaken \/ (\E w \in Worker :
     WatchdogFires(w)) \/ (\E w \in Worker : ScrubOne(w)) \/ TakeWorker \/
     RequestStop \/ DrainQueue \/ ScrubDoomed \/ FinishDoomed \/
     ReadInFlight \/ ForgetInFlight \/ Detach \/ JoinWorker \/
     SweepFinished \/ DestroySwept \/ Close \/ UNCHANGED vars
  BY <1>1, Zenon DEF CheckBacklog, RecordSender, IndexById, PushOp, PushProbe,
     BusUnref, Cancel, TakeSenderOps, CancelTaken, WatchdogFires, WorkerFrame,
     ScrubOne, TakeWorker, RemoveFrame, RequestStop, DrainQueue, ScrubDoomed,
     FinishDoomed, ReadInFlight, ForgetInFlight, Detach, JoinWorker,
     SweepFinished, DestroySwept, Close, vars, workerVars, Stack
<1>2. ASSUME NEW o \in Op, WorkerFor(o) PROVE Stack'
  <2>1. CASE current # None
    BY Zenon, <1>2, <2>1 DEF WorkerFor, Stack
  <2>2. CASE current = None
    <3>1. made + 1 \in Worker /\ made' = made + 1 /\ UNCHANGED <<inFlight, wop>>
      BY Zenon, <1>2, <2>2 DEF WorkerFor
    <3>4. made \in Nat /\ made + 1 > made /\ Worker \subseteq Nat
      BY Numbers DEF TypeOK, None
    <3>2. \A v \in Worker : wpc'[v] = IF v = made + 1 THEN "idle" ELSE wpc[v]
      BY Zenon, <1>2, <2>2 DEF WorkerFor, TypeOK
    <3>3. wpc[made + 1] = "none"
      BY <3>1, <3>4, SMTT(30) DEF Stack
    <3>5. \A v \in Worker : v > made + 1 => v > made /\ v # made + 1
      BY <3>4
    <3> QED
      BY Zenon, <3>1, <3>2, <3>3, <3>5 DEF Stack
  <2> QED
    BY Zenon, <2>1, <2>2
<1>3. ASSUME NEW w \in Worker, StartHolderIo(w) PROVE Stack'
  BY <1>3, SMTT(30) DEF StartHolderIo, WorkerFrame, Stack
<1>4. ASSUME NEW w \in Worker, HolderIoReturns(w) PROVE Stack'
  BY <1>4 DEF HolderIoReturns, WorkerFrame, Stack
<1>5. ASSUME NEW w \in Worker, PopOp(w) PROVE Stack'
  <2>1. /\ \A v \in Worker : v # w => wpc'[v] = wpc[v] /\ wop'[v] = wop[v] /\ inFlight'[v] = inFlight[v]
        /\ wpc'[w] = "work" /\ wop'[w] = Head(queue[w]) /\ inFlight'[w] = Head(queue[w])
    BY Zenon, <1>5 DEF PopOp, TypeOK
  <2>2. made' = made /\ wpc[w] = "idle" /\ queue[w] \in Seq(Op) /\ queue[w] # <<>>
    BY Zenon, <1>5 DEF PopOp, WorkerFrame, TypeOK
  <2>3. Head(queue[w]) # None
    BY Zenon, <2>2, HeadTail, Numbers
  <2>4. ~(w > made)
    BY Zenon, <2>2 DEF Stack
  <2>5. \A v \in Worker : v # w =>
          /\ wpc'[v] \in {"work", "returned"} => inFlight'[v] = wop'[v]
          /\ wpc'[v] \notin {"work", "returned"} => inFlight'[v] = None
          /\ wpc'[v] \in {"work", "returned", "cleared", "park"} <=> wop'[v] # None
          /\ v > made' => wpc'[v] = "none"
    BY Zenon, <2>1, <2>2 DEF Stack
  <2> QED
    BY Zenon, <2>1, <2>2, <2>3, <2>4, <2>5 DEF Stack
<1>6. ASSUME NEW w \in Worker, DoWorkReturns(w) PROVE Stack'
  BY <1>6 DEF DoWorkReturns, WorkerFrame, Stack
<1>7. ASSUME NEW w \in Worker, ClearInFlight(w) PROVE Stack'
  BY Zenon, <1>7 DEF ClearInFlight, WorkerFrame, Stack, TypeOK
<1>8. ASSUME NEW w \in Worker, ReadAbandoned(w) PROVE Stack'
  <2>1. \A v \in Worker : v # w => wpc'[v] = wpc[v] /\ wop'[v] = wop[v]
    BY Zenon, <1>8 DEF ReadAbandoned, TypeOK
  <2>2. inFlight' = inFlight /\ made' = made /\ wpc[w] = "cleared"
    BY <1>8, SMTT(30) DEF ReadAbandoned, WorkerFrame
  <2>3. (wpc'[w] = "park" /\ wop'[w] = wop[w]) \/ (wpc'[w] = "exited" /\ wop'[w] = None)
    <3>1. CASE abandoned[w]
      BY Zenon, <1>8 DEF ReadAbandoned, TypeOK
    <3>2. CASE ~abandoned[w]
      <4>1. wpc' = [wpc EXCEPT ![w] = "park"] /\ wop' = wop
        BY <1>8, <3>2, Zenon DEF ReadAbandoned
      <4>2. wpc'[w] = "park"
        BY Zenon, <4>1 DEF TypeOK
      <4> QED
        BY <4>1, <4>2, Zenon
    <3> QED
      BY Zenon, <3>1, <3>2
  <2> QED
    BY Zenon, <2>1, <2>2, <2>3 DEF Stack
<1>9. ASSUME NEW w \in Worker, Park(w) PROVE Stack'
  BY Zenon, <1>9 DEF Park, WorkerFrame, Stack, TypeOK
<1>10. ASSUME NEW w \in Worker, TakeQueue(w) PROVE Stack'
  BY <1>10, SMTT(30) DEF TakeQueue, WorkerFrame, Stack
<1>11. ASSUME NEW w \in Worker, DropDoomed(w) PROVE Stack'
  BY <1>11, SMTT(30) DEF DropDoomed, WorkerFrame, Stack
<1> QED
  BY Zenon, <1>1, <1>2, <1>3, <1>4, <1>5, <1>6, <1>7, <1>8, <1>9, <1>10, <1>11 DEF
     Next, BusStarts, BusContinues, WorkerContinues, RemovalContinues

\* Nobody else pushes between the backlog check and the push.
LEMMA RoomStep == TypeOK /\ Handles /\ Stack /\ RoomInv /\ [Next]_vars => RoomInv'
<1> SUFFICES ASSUME TypeOK /\ Handles /\ Stack /\ RoomInv, [Next]_vars PROVE RoomInv'
  BY Zenon
<1>1. CASE (\E o \in Op : Cancel(o)) \/ (\E w \in Worker : StartHolderIo(w)) \/
     (\E w \in Worker : HolderIoReturns(w)) \/ (\E w \in Worker :
     DoWorkReturns(w)) \/ (\E w \in Worker : WatchdogFires(w)) \/ (\E w \in
     Worker : ClearInFlight(w)) \/ (\E w \in Worker : ReadAbandoned(w)) \/
     (\E w \in Worker : Park(w)) \/ (\E w \in Worker : ScrubOne(w)) \/ (\E
     w \in Worker : DropDoomed(w)) \/ TakeWorker \/ RequestStop \/
     ScrubDoomed \/ FinishDoomed \/ ReadInFlight \/ ForgetInFlight \/
     Detach \/ JoinWorker \/ SweepFinished \/ DestroySwept \/ Close \/
     UNCHANGED vars
  BY <1>1, Zenon DEF Cancel, StartHolderIo, WorkerFrame, HolderIoReturns,
     DoWorkReturns, WatchdogFires, ClearInFlight, ReadAbandoned, Park,
     ScrubOne, DropDoomed, TakeWorker, RemoveFrame, RequestStop, ScrubDoomed,
     FinishDoomed, ReadInFlight, ForgetInFlight, Detach, JoinWorker,
     SweepFinished, DestroySwept, Close, vars, workerVars, busVars, RoomInv,
     BacklogBounded, HasRoom
<1>2. ASSUME NEW o \in Op, WorkerFor(o) PROVE RoomInv'
  BY <1>2, SMTT(30) DEF WorkerFor, RoomInv, BacklogBounded
<1>3. CASE CheckBacklog
  BY Zenon, <1>3 DEF CheckBacklog, RoomInv, BacklogBounded, HasRoom, workerVars
<1>4. CASE RecordSender
  BY Zenon, <1>4 DEF RecordSender, RoomInv, BacklogBounded, HasRoom, workerVars
<1>5. CASE IndexById
  BY <1>5, SMTT(30) DEF IndexById, RoomInv, BacklogBounded, HasRoom,
     workerVars
<1>6. CASE PushOp
  <2>1. bref \in Worker /\ bop \in Op /\ queue[bref] \in Seq(Op) /\ bpc' = "unref"
    BY Zenon, <1>6 DEF PushOp, Handles, Publishing, TypeOK
  <2>2. Len(Append(queue[bref], bop)) = Len(queue[bref]) + 1 /\ Len(queue[bref]) \in Nat
    BY SMTT(30)
  <2>3. \A w \in Worker : \/ queue'[w] = queue[w]
                          \/ w = bref /\ HasRoom(bref) /\ queue'[w] = Append(queue[bref], bop)
    BY <1>6 DEF PushOp, RoomInv
  <2> QED
    BY <2>1, <2>3, CapAssumption DEF RoomInv, BacklogBounded, HasRoom
<1>7. CASE PushProbe
  <2>1. bref \in Worker /\ bop \in Op /\ queue[bref] \in Seq(Op) /\ bpc' = "unref"
    BY Zenon, <1>7 DEF PushProbe, Handles, Publishing, TypeOK
  <2>2. Len(Append(queue[bref], bop)) = Len(queue[bref]) + 1 /\ Len(queue[bref]) \in Nat
    BY SMTT(30)
  <2>3. \A w \in Worker : \/ queue'[w] = queue[w]
                          \/ w = bref /\ HasRoom(bref) /\ queue'[w] = Append(queue[bref], bop)
    BY Zenon, <1>7 DEF PushProbe, TypeOK
  <2> QED
    BY <2>1, <2>3, CapAssumption DEF RoomInv, BacklogBounded, HasRoom
<1>8. CASE BusUnref
  BY <1>8, SMTT(30) DEF BusUnref, RoomInv, BacklogBounded
<1>9. ASSUME NEW c \in Caller, TakeSenderOps(c) PROVE RoomInv'
  BY Zenon, <1>9 DEF TakeSenderOps, RoomInv, BacklogBounded, workerVars
<1>10. CASE CancelTaken
  BY <1>10, SMTT(30) DEF CancelTaken, RoomInv, BacklogBounded, workerVars
<1>11. ASSUME NEW w \in Worker, PopOp(w) PROVE RoomInv'
  <2>1. \A v \in Worker : Len(queue[v]) \in Nat /\ Len(queue'[v]) \in Nat /\ Len(queue'[v]) <= Len(queue[v])
    <3>1. queue[w] \in Seq(Op) /\ queue[w] # <<>>
      BY Zenon, <1>11 DEF PopOp, TypeOK
    <3>2. Len(Tail(queue[w])) = Len(queue[w]) - 1 /\ Tail(queue[w]) \in Seq(Op)
      BY <3>1, SMTT(30)
    <3>3. \A v \in Worker : queue'[v] = IF v = w THEN Tail(queue[w]) ELSE queue[v]
      BY Zenon, <1>11 DEF PopOp, TypeOK
    <3> QED
      <4>1. \A v \in Worker : queue[v] \in Seq(Op)
        BY Zenon DEF TypeOK
      <4>2. Len(queue[w]) - 1 <= Len(queue[w]) /\ Len(Tail(queue[w])) \in Nat
        OBVIOUS
      <4> TAKE v \in Worker
      <4>3. CASE v = w
        <5>1. queue'[v] = Tail(queue[w]) /\ queue[v] = queue[w]
          BY <3>3, <4>3, Zenon
        <5>2. Len(queue[w]) \in Nat /\ Len(Tail(queue[w])) <= Len(queue[w])
          BY SMTT(30)
        <5> QED
          BY <4>2, <5>1, <5>2, Zenon
      <4>4. CASE v # w
        BY <3>3, <4>4
      <4> QED
        BY Zenon, <4>3, <4>4
  <2>2. UNCHANGED <<bpc, bref>>
    BY Zenon, <1>11 DEF PopOp, WorkerFrame, busVars
  <2> QED
    BY <2>1, <2>2, CapAssumption DEF RoomInv, BacklogBounded, HasRoom,
       Handles, Publishing
<1>12. ASSUME NEW w \in Worker, TakeQueue(w) PROVE RoomInv'
  <2>1. \A v \in Worker : Len(queue[v]) \in Nat /\ Len(queue'[v]) \in Nat /\ Len(queue'[v]) <= Len(queue[v])
    <3>1. \A v \in Worker : queue'[v] = IF v = w THEN <<>> ELSE queue[v]
      BY <1>12, SMTT(30) DEF TakeQueue, TypeOK
    <3>2. \A v \in Worker : queue[v] \in Seq(Op)
      BY Zenon DEF TypeOK
    <3> QED
      BY <3>1
  <2>2. UNCHANGED <<bpc, bref>>
    BY Zenon, <1>12 DEF TakeQueue, WorkerFrame, busVars
  <2> QED
    BY <2>1, <2>2, CapAssumption DEF RoomInv, BacklogBounded, HasRoom,
       Handles, Publishing
<1>13. CASE DrainQueue
  <2>1. \A v \in Worker : Len(queue[v]) \in Nat /\ Len(queue'[v]) \in Nat /\ Len(queue'[v]) <= Len(queue[v])
    <3>1. \A v \in Worker : queue'[v] = IF v = rref THEN <<>> ELSE queue[v]
      BY Zenon, <1>13 DEF DrainQueue, TypeOK
    <3>2. \A v \in Worker : queue[v] \in Seq(Op)
      BY Zenon DEF TypeOK
    <3> QED
      BY <3>1
  <2>2. UNCHANGED <<bpc, bref>>
    BY Zenon, <1>13 DEF DrainQueue, RemoveFrame, busVars
  <2> QED
    BY <2>1, <2>2, CapAssumption DEF RoomInv, BacklogBounded, HasRoom,
       Handles, Publishing
<1> QED
  BY Zenon, <1>1, <1>2, <1>3, <1>4, <1>5, <1>6, <1>7, <1>8, <1>9, <1>10, <1>11,
     <1>12, <1>13 DEF Next, BusStarts, BusContinues, WorkerContinues,
     RemovalContinues

\* The initial state.
LEMMA InitTypes == Init => TypeOK /\ Handles /\ Stack /\ RoomInv
<1> SUFFICES ASSUME Init PROVE TypeOK /\ Handles /\ Stack /\ RoomInv
  BY Zenon
<1>1. TypeOK
  <2>1. <<>> \in Seq(Op)
    OBVIOUS
  <2>2. queue \in [Worker -> Seq(Op)] /\ finished \in Seq(Op)
    BY <2>1, Zenon DEF Init
  <2>3. /\ inFlight \in [Worker -> Op \cup {None}] /\ wop \in [Worker -> Op \cup {None}]
        /\ wdoomed \in [Worker -> SUBSET Op] /\ wpc \in [Worker -> WorkerPc]
    BY Zenon DEF Init, WorkerPc
  <2>4. /\ stopped \in [Worker -> BOOLEAN] /\ abandoned \in [Worker -> BOOLEAN]
        /\ detached \in [Worker -> BOOLEAN] /\ destroyed \in [Worker -> BOOLEAN]
    BY Zenon DEF Init
  <2>5. loc \in [Op -> Owner] /\ terminal \in [Op -> Status]
    BY Zenon DEF Init, Owner, Status
  <2>6. bpc \in BusPc /\ rpc \in RemovalPc
    BY Zenon DEF Init, BusPc, RemovalPc
  <2> QED
    BY <2>2, <2>3, <2>5, <2>6, Zenon DEF Init, TypeOK
<1>2. Handles /\ Stack
  BY Zenon DEF Init, Handles, Publishing, Stack
<1>3. RoomInv
  BY CapAssumption, SMTT(30) DEF Init, RoomInv, BacklogBounded
<1> QED
  BY Zenon, <1>1, <1>2, <1>3

\* Every variable keeps its type, whichever thread removes readers.
THEOREM TypeCorrect == Spec => []TypeOK
<1> DEFINE Inv == TypeOK /\ Handles /\ Stack
<1>1. Init => Inv
  BY InitTypes, SMTT(30)
<1>2. Inv /\ [Next]_vars => Inv'
  BY Zenon, TypeStep, HandlesStep, StackStep
<1> QED
  BY <1>1, <1>2, PTL DEF Spec

\* A reader's backlog never exceeds kMaxQueuedOpsPerReader, for any cap, any
\* number of workers and whichever thread removes readers, although publish()
\* checks the backlog in one critical section and pushes in another.
THEOREM BacklogIsBounded == Spec => []BacklogBounded
<1> DEFINE Inv == TypeOK /\ Handles /\ Stack /\ RoomInv
<1>1. Init => Inv
  BY InitTypes, SMTT(30)
<1>2. Inv /\ [Next]_vars => Inv'
  BY Zenon, TypeStep, HandlesStep, StackStep, RoomStep
<1>3. Inv => BacklogBounded
  BY Zenon DEF RoomInv
<1> QED
  BY <1>1, <1>2, <1>3, PTL DEF Spec

-----------------------------------------------------------------------------
\* The tables.  An operation has one owner at a time (Owned, Once), the bus
\* thread and the removal take turns (Turns), and whoever destroys an
\* operation has taken it out of the tables before (Tables).  The one that
\* destroys without a look at the tables is an abandoned worker: the operation
\* it comes back with is the one the removal took a note of, because a stopped
\* worker starts no other (Noted).

NoDup(q) == \A i, j \in 1..Len(q) : q[i] = q[j] => i = j

\* One thread at a time publishes and removes: the bus thread.
Turns ==
    /\ bpc # "idle" => rpc = "idle"
    /\ rpc = "idle" => rref = None
    /\ rpc # "idle" => current = None
    /\ Publishing => bref = current
    /\ current <= made /\ rref <= made
    /\ closed => bpc = "idle"

\* A worker that was stopped is not the reader's any more, and nothing is
\* pushed to it.
Stopping ==
    /\ \A w \in Worker :
        /\ stopped[w] => w # current /\ w <= made
        /\ abandoned[w] => stopped[w]
        /\ wpc[w] \in {"scrub", "exited"} => stopped[w]
        /\ queue[w] # <<>> => w = current \/ (w = rref /\ rpc \in {"stop", "drain"})
    /\ rpc \notin {"idle", "stop"} => stopped[rref]

\* Who has an operation is its owner ...
Owned ==
    /\ bpc \in {"cap", "probe"} => loc[bop] = "unborn"
    /\ bpc \in {"record", "index", "push"} => loc[bop] = "bus"
    /\ \A w \in Worker :
        /\ \A o \in Elements(queue[w]) : loc[o] = "queue"
        /\ wop[w] # None => loc[wop[w]] = "worker"
        /\ \A o \in wdoomed[w] : loc[o] = "doomed"
    /\ \A o \in rdoomed : loc[o] = "doomed"
    /\ \A o \in Elements(finished) : loc[o] = "grace"
    /\ cpc # None => loc[cpc] = "grace"

\* ... and has it once.
Once ==
    /\ \A w \in Worker : NoDup(queue[w])
    /\ NoDup(finished) /\ cpc \notin Elements(finished)
    /\ \A v, w \in Worker : v # w =>
        /\ wop[v] # None => wop[v] # wop[w]
        /\ wdoomed[v] \cap wdoomed[w] = {}
    /\ \A w \in Worker : wdoomed[w] \cap rdoomed = {}

Listed == byId \cup opToSender \cup senderToOps

Tables ==
    /\ \A o \in Listed : loc[o] \notin {"unborn", "freed"}
    /\ opToSender \cup senderToOps \subseteq byId \cup (IF bpc = "index" THEN {bop} ELSE {})
    /\ cpc \notin Listed

\* The removal's note of the operation in flight.
Noted ==
    /\ rpc \in {"poll", "forget", "detach"} => rop # None
    /\ rpc \in {"scrub", "poll", "forget", "detach"} /\ rop # None =>
        wop[rref] \in {rop, None} /\ rop \in cancelled /\ loc[rop] \notin {"unborn", "bus"}
    /\ rpc = "detach" => rop \notin Listed
    /\ \A w \in Worker : abandoned[w] => wop[w] \notin Listed

\* The operation being published is listed step by step, and its client is
\* still there.
Listing ==
    /\ bpc = "probe" => bop \in Probe
    /\ bpc \in {"index", "push"} => bop \in senderToOps
    /\ bpc = "push" => bop \in byId
    /\ Publishing => callerOf[bop] \notin gone
    /\ bpc # "cancel" => bdoomed = {}

\* Until its client's disconnect an operation is listed under the client, and
\* until it is cancelled it can be looked up.
Reachable ==
    \A o \in Op \ Probe : loc[o] \in {"queue", "worker"} /\ ~closed =>
        \/ o \in cancelled
        \/ o \in byId /\ (o \in senderToOps \/ callerOf[o] \in gone)

IInv ==
    /\ TypeOK /\ Handles /\ Stack /\ RoomInv /\ Turns /\ Stopping /\ Owned /\ Once /\ Tables
    /\ Noted /\ Listing /\ Reachable /\ DisconnectReachesAll

-----------------------------------------------------------------------------
\* A queue without duplicates stays one when an operation that is not in it is
\* appended, and its head is not in its tail.
LEMMA NoDupFacts ==
    ASSUME NEW q \in Seq(Op), NoDup(q)
    PROVE  /\ \A o \in Op : o \notin Elements(q) => NoDup(Append(q, o))
           /\ q # <<>> => NoDup(Tail(q)) /\ Head(q) \notin Elements(Tail(q))
<1>1. ASSUME NEW o \in Op, o \notin Elements(q) PROVE NoDup(Append(q, o))
  <2>1. /\ Len(Append(q, o)) = Len(q) + 1 /\ Len(q) \in Nat
        /\ \A i \in 1..Len(q) : Append(q, o)[i] = q[i] /\ q[i] # o
        /\ Append(q, o)[Len(q) + 1] = o
    BY <1>1 DEF Elements
  <2> QED
    BY <2>1 DEF NoDup
<1>2. ASSUME q # <<>> PROVE NoDup(Tail(q)) /\ Head(q) \notin Elements(Tail(q))
  <2>1. /\ Head(q) = q[1] /\ Len(Tail(q)) = Len(q) - 1
        /\ Len(q) \in Nat \ {0} /\ \A i \in 1..Len(q) - 1 : Tail(q)[i] = q[i + 1]
    BY <1>2
  <2>2. \A i \in 1..Len(q) - 1 : i + 1 \in 1..Len(q) /\ i + 1 # 1
    OBVIOUS
  <2>3. 1 \in 1..Len(q)
    BY <2>1
  <2>4. Head(q) \notin Elements(Tail(q))
    BY DEF NoDup, Elements
  <2>5. NoDup(Tail(q))
    <3> SUFFICES ASSUME NEW i \in 1..Len(q) - 1, NEW j \in 1..Len(q) - 1, q[i + 1] = q[j + 1]
                 PROVE  i = j
      BY DEF NoDup
    <3>1. i + 1 = j + 1
      BY DEF NoDup
    <3> QED
      BY <3>1
  <2> QED
    BY Zenon, <2>4, <2>5
<1> QED
  BY Zenon, <1>1, <1>2

\* The bus thread and the removal do not overlap.
LEMMA TurnsStep == RemovalThread = "bus" /\ TypeOK /\ Handles /\ Stack /\ Turns /\ [Next]_vars => Turns'
<1> SUFFICES ASSUME RemovalThread = "bus" /\ TypeOK /\ Handles /\ Stack /\ Turns, [Next]_vars PROVE Turns'
  BY Zenon
<1>1. CASE (\E o \in Op : Cancel(o)) \/ (\E w \in Worker : StartHolderIo(w)) \/
     (\E w \in Worker : HolderIoReturns(w)) \/ (\E w \in Worker : PopOp(w))
     \/ (\E w \in Worker : DoWorkReturns(w)) \/ (\E w \in Worker :
     WatchdogFires(w)) \/ (\E w \in Worker : ClearInFlight(w)) \/ (\E w \in
     Worker : ReadAbandoned(w)) \/ (\E w \in Worker : Park(w)) \/ (\E w \in
     Worker : TakeQueue(w)) \/ (\E w \in Worker : ScrubOne(w)) \/ (\E w \in
     Worker : DropDoomed(w)) \/ ScrubDoomed \/ SweepFinished \/
     DestroySwept \/ UNCHANGED vars
  <2>1. UNCHANGED <<bpc, bref, rpc, rref, current, made, closed>>
    BY <1>1, Zenon DEF Cancel, StartHolderIo, WorkerFrame, HolderIoReturns,
       PopOp, DoWorkReturns, WatchdogFires, ClearInFlight, ReadAbandoned,
       Park, TakeQueue, ScrubOne, DropDoomed, ScrubDoomed, RemoveFrame,
       SweepFinished, DestroySwept, vars, busVars, removeVars
  <2> QED
    BY Zenon, <2>1 DEF Turns, Publishing
<1>2. ASSUME NEW o \in Op, WorkerFor(o) PROVE Turns'
  BY <1>2, Numbers DEF WorkerFor, BusFree, Turns, TypeOK, removeVars
<1>3. CASE CheckBacklog
  BY Zenon, <1>3 DEF CheckBacklog, Turns, Publishing, removeVars
<1>4. CASE RecordSender
  BY Zenon, <1>4 DEF RecordSender, Turns, Publishing, removeVars
<1>5. CASE IndexById
  BY Zenon, <1>5 DEF IndexById, Turns, Publishing, removeVars
<1>6. CASE PushOp
  BY Zenon, <1>6 DEF PushOp, Turns, Publishing, removeVars
<1>7. CASE PushProbe
  BY Zenon, <1>7 DEF PushProbe, Turns, Publishing, removeVars
<1>8. CASE BusUnref
  BY Zenon, <1>8 DEF BusUnref, Turns, Publishing, removeVars
<1>9. ASSUME NEW c \in Caller, TakeSenderOps(c) PROVE Turns'
  BY <1>9, SMTT(30) DEF TakeSenderOps, BusFree, Turns, Publishing, removeVars
<1>10. CASE CancelTaken
  BY Zenon, <1>10 DEF CancelTaken, Turns, Publishing, removeVars
<1>11. CASE TakeWorker
  BY Zenon, <1>11 DEF TakeWorker, RemoveFrame, Turns, Publishing, busVars
<1>12. CASE RequestStop
  BY Zenon, <1>12 DEF RequestStop, RemoveFrame, Turns, Publishing, busVars
<1>13. CASE DrainQueue
  BY Zenon, <1>13 DEF DrainQueue, RemoveFrame, Turns, Publishing, busVars
<1>14. CASE FinishDoomed
  BY Zenon, <1>14 DEF FinishDoomed, RemoveFrame, Turns, Publishing, busVars
<1>15. CASE ReadInFlight
  BY <1>15, SMTT(30) DEF ReadInFlight, RemoveFrame, Turns, Publishing, busVars
<1>16. CASE ForgetInFlight
  BY Zenon, <1>16 DEF ForgetInFlight, RemoveFrame, Turns, Publishing, busVars
<1>17. CASE Detach
  BY Zenon, <1>17 DEF Detach, RemoveFrame, Turns, Publishing, busVars
<1>18. CASE JoinWorker
  BY Zenon, <1>18 DEF JoinWorker, RemoveFrame, Turns, Publishing, busVars
<1>19. CASE Close
  BY Zenon, <1>19 DEF Close, Turns, Publishing, busVars, removeVars
<1> QED
  BY Zenon, <1>1, <1>2, <1>3, <1>4, <1>5, <1>6, <1>7, <1>8, <1>9, <1>10, <1>11,
     <1>12, <1>13, <1>14, <1>15, <1>16, <1>17, <1>18, <1>19 DEF Next,
     BusStarts, BusContinues, WorkerContinues, RemovalContinues

\* A stopped worker has lost its reader, and its queue stays empty once it is drained.
LEMMA StoppingStep == RemovalThread = "bus" /\ TypeOK /\ Handles /\ Stack /\ Turns /\ Stopping /\ [Next]_vars => Stopping'
<1> SUFFICES ASSUME RemovalThread = "bus" /\ TypeOK /\ Handles /\ Stack /\ Turns /\ Stopping, [Next]_vars PROVE Stopping'
  BY Zenon
<1>1. CASE CheckBacklog \/ RecordSender \/ IndexById \/ BusUnref \/ (\E o \in Op
     : Cancel(o)) \/ (\E c \in Caller : TakeSenderOps(c)) \/ CancelTaken \/
     (\E w \in Worker : WatchdogFires(w)) \/ (\E w \in Worker :
     ScrubOne(w)) \/ ScrubDoomed \/ SweepFinished \/ DestroySwept \/ Close
     \/ UNCHANGED vars
  BY <1>1, Zenon DEF CheckBacklog, RecordSender, IndexById, BusUnref, Cancel,
     TakeSenderOps, CancelTaken, WatchdogFires, WorkerFrame, ScrubOne,
     ScrubDoomed, RemoveFrame, SweepFinished, DestroySwept, Close, vars,
     workerVars, removeVars, Stopping
<1>2. ASSUME NEW o \in Op, WorkerFor(o) PROVE Stopping'
  BY <1>2, Numbers, SMTT(30) DEF WorkerFor, Stopping, TypeOK, removeVars
<1>3. CASE PushOp
  BY <1>3 DEF PushOp, Turns, Stopping, Publishing, removeVars
<1>4. CASE PushProbe
  BY Zenon, <1>4 DEF PushProbe, Turns, Stopping, Publishing, TypeOK, removeVars
<1>5. ASSUME NEW w \in Worker, StartHolderIo(w) PROVE Stopping'
  BY <1>5 DEF StartHolderIo, WorkerFrame, Stopping, removeVars
<1>6. ASSUME NEW w \in Worker, HolderIoReturns(w) PROVE Stopping'
  BY <1>6 DEF HolderIoReturns, WorkerFrame, Stopping, removeVars
<1>7. ASSUME NEW w \in Worker, PopOp(w) PROVE Stopping'
  BY <1>7 DEF PopOp, WorkerFrame, Stopping, removeVars
<1>8. ASSUME NEW w \in Worker, DoWorkReturns(w) PROVE Stopping'
  BY <1>8 DEF DoWorkReturns, WorkerFrame, Stopping, removeVars
<1>9. ASSUME NEW w \in Worker, ClearInFlight(w) PROVE Stopping'
  BY <1>9 DEF ClearInFlight, WorkerFrame, Stopping, removeVars
<1>10. ASSUME NEW w \in Worker, ReadAbandoned(w) PROVE Stopping'
  BY Zenon, <1>10 DEF ReadAbandoned, WorkerFrame, Stopping, TypeOK, removeVars
<1>11. ASSUME NEW w \in Worker, Park(w) PROVE Stopping'
  BY <1>11 DEF Park, WorkerFrame, Stopping, removeVars
<1>12. ASSUME NEW w \in Worker, TakeQueue(w) PROVE Stopping'
  BY <1>12 DEF TakeQueue, WorkerFrame, Stopping, removeVars
<1>13. ASSUME NEW w \in Worker, DropDoomed(w) PROVE Stopping'
  BY <1>13 DEF DropDoomed, WorkerFrame, Stopping, removeVars
<1>14. CASE TakeWorker
  BY Zenon, <1>14, Numbers DEF TakeWorker, RemoveFrame, Stopping, workerVars
<1>15. CASE RequestStop
  BY <1>15, Numbers DEF RequestStop, RemoveFrame, Turns, Stopping, Handles,
     TypeOK
<1>16. CASE DrainQueue
  BY Zenon, <1>16 DEF DrainQueue, RemoveFrame, Stopping, TypeOK
<1>17. CASE FinishDoomed
  BY Zenon, <1>17 DEF FinishDoomed, RemoveFrame, Stopping, workerVars
<1>18. CASE ReadInFlight
  BY Zenon, <1>18 DEF ReadInFlight, RemoveFrame, Stopping, workerVars
<1>19. CASE ForgetInFlight
  BY Zenon, <1>19 DEF ForgetInFlight, RemoveFrame, Stopping, workerVars
<1>20. CASE Detach
  <2>1. /\ rref \in Worker /\ stopped[rref] /\ rpc' = "idle" /\ abandoned' = [abandoned EXCEPT ![rref] = TRUE]
        /\ UNCHANGED <<stopped, current, made, wpc, queue>>
    BY Zenon, <1>20 DEF Detach, RemoveFrame, Stopping, Handles
  <2>2. \A w \in Worker : abandoned'[w] => abandoned[w] \/ w = rref
    BY Zenon, <2>1 DEF TypeOK
  <2>3. rpc = "detach"
    BY Zenon, <1>20 DEF Detach
  <2>4. \A w \in Worker : queue[w] # <<>> => w = current
    BY Zenon, <2>3 DEF Stopping
  <2> QED
    BY Zenon, <2>1, <2>2, <2>4 DEF Stopping
<1>21. CASE JoinWorker
  BY Zenon, <1>21 DEF JoinWorker, RemoveFrame, Stopping
<1> QED
  BY Zenon, <1>1, <1>2, <1>3, <1>4, <1>5, <1>6, <1>7, <1>8, <1>9, <1>10, <1>11,
     <1>12, <1>13, <1>14, <1>15, <1>16, <1>17, <1>18, <1>19, <1>20, <1>21 DEF
     Next, BusStarts, BusContinues, WorkerContinues, RemovalContinues

\* The empty queue.
LEMMA EmptyQueue == NoDup(<<>>) /\ Elements(<<>>) = {}
BY SMTT(30) DEF NoDup, Elements

\* At most one worker has a queue, the reader's or the one being removed.
LEMMA OneQueue ==
    ASSUME Turns, Stopping PROVE \A v, w \in Worker : queue[v] # <<>> /\ v # w => queue[w] = <<>>
BY Zenon, Numbers DEF Turns, Stopping

\* A worker takes the head of its queue, and nothing else moves.
LEMMA PopFacts ==
    ASSUME NEW w \in Worker, TypeOK, Owned, Once, PopOp(w)
    PROVE  LET h == Head(queue[w])
           IN  /\ h \in Op /\ loc[h] = "queue" /\ ~stopped[w] /\ wpc[w] = "idle"
               /\ NoDup(Tail(queue[w])) /\ Elements(Tail(queue[w])) \subseteq Elements(queue[w]) \ {h}
               /\ \A o \in Op : loc'[o] = IF o = h THEN "worker" ELSE loc[o]
               /\ \A v \in Worker : wop'[v] = IF v = w THEN h ELSE wop[v]
               /\ \A v \in Worker : queue'[v] = IF v = w THEN Tail(queue[w]) ELSE queue[v]
<1>1. queue[w] \in Seq(Op) /\ queue[w] # <<>> /\ ~stopped[w] /\ wpc[w] = "idle"
  BY Zenon DEF PopOp, TypeOK
<1>2. Elements(queue[w]) \subseteq Op /\ Head(queue[w]) \in Elements(queue[w])
      /\ Elements(queue[w]) = Elements(Tail(queue[w])) \cup {Head(queue[w])}
  BY Zenon, <1>1, QueueFacts
<1>3. NoDup(Tail(queue[w])) /\ Head(queue[w]) \notin Elements(Tail(queue[w]))
  BY Zenon, <1>1, NoDupFacts DEF Once
<1>4. Head(queue[w]) \in Op /\ loc[Head(queue[w])] = "queue"
  BY Zenon, <1>2 DEF Owned
<1>5. \A o \in Op : loc'[o] = IF o = Head(queue[w]) THEN "worker" ELSE loc[o]
  BY Zenon DEF PopOp, Place
<1>6. \A v \in Worker : wop'[v] = IF v = w THEN Head(queue[w]) ELSE wop[v]
  BY Zenon DEF PopOp, TypeOK
<1>7. \A v \in Worker : queue'[v] = IF v = w THEN Tail(queue[w]) ELSE queue[v]
  BY Zenon DEF PopOp, TypeOK
<1> QED
  BY Zenon, <1>1, <1>2, <1>3, <1>4, <1>5, <1>6, <1>7

\* With removals on the bus thread no handle's death destroys a queued
\* operation: publish() holds the registered worker, the removal a drained one.
LEMMA NoLateFree ==
    ASSUME TypeOK, Handles, Turns, Stopping, BusUnref \/ JoinWorker PROVE loc' = loc
<1>1. CASE BusUnref
  BY <1>1, SMTT(30) DEF BusUnref, LastRefDropped, OtherOwner, Turns,
     Publishing
<1>2. CASE JoinWorker
  <2>1. rref \in Worker /\ Elements(queue[rref]) = {}
    <3>1. rref \in Worker /\ queue[rref] = <<>>
      BY Zenon, <1>2 DEF JoinWorker, Handles, Stopping
    <3> QED
      BY <3>1 DEF Elements
  <2>2. loc = Place({}, "freed")
    BY Zenon DEF Place, TypeOK
  <2> QED
    BY Zenon, <1>2, <2>1, <2>2 DEF JoinWorker, LastRefDropped
<1> QED
  BY Zenon, <1>1, <1>2

\* An operation pushed to a worker's queue is the queue's.
LEMMA PushedIsOwned ==
    ASSUME TypeOK, Owned, bref \in Worker, bop \in Op, loc[bop] \in {"unborn", "bus"},
           bpc' = "unref", queue' = [queue EXCEPT ![bref] = Append(@, bop)],
           loc' = Place({bop}, "queue"),
           UNCHANGED <<bop, wop, wdoomed, rdoomed, finished, cpc>>
    PROVE  Owned'
<1>1. \A o \in Op : loc'[o] = IF o = bop THEN "queue" ELSE loc[o]
  BY Zenon DEF Place
<1>2. \A w \in Worker : queue'[w] = IF w = bref THEN Append(queue[bref], bop) ELSE queue[w]
  BY Zenon DEF TypeOK
<1>3. /\ Elements(Append(queue[bref], bop)) = Elements(queue[bref]) \cup {bop}
      /\ \A w \in Worker : Elements(queue[w]) \subseteq Op
  BY Zenon, QueueFacts DEF TypeOK
<1>4. \A o \in Op : loc[o] \notin {"unborn", "bus"} => loc'[o] = loc[o]
  BY Zenon, <1>1
<1>5. \A w \in Worker : \A o \in Elements(queue[w]) : loc'[o] = "queue"
  BY Zenon, <1>3, <1>4 DEF Owned
<1>6. \A w \in Worker : \A o \in Elements(queue'[w]) : loc'[o] = "queue"
  <2> TAKE w \in Worker
  <2>1. CASE w = bref
    <3>1. Elements(queue'[w]) = Elements(queue[bref]) \cup {bop}
      BY Zenon, <1>2, <1>3, <2>1
    <3> QED
      BY Zenon, <1>1, <1>5, <3>1
  <2>2. CASE w # bref
    BY Zenon, <1>2, <1>5, <2>2
  <2> QED
    BY Zenon, <2>1, <2>2
<1>7. \A w \in Worker : wop'[w] # None => loc'[wop'[w]] = "worker"
  <2>1. \A w \in Worker : wop[w] # None => loc[wop[w]] = "worker" /\ wop[w] \in Op
    BY Zenon DEF Owned, TypeOK
  <2> QED
    BY Zenon, <1>4, <2>1
<1>8. /\ \A w \in Worker : \A o \in wdoomed'[w] : loc'[o] = "doomed"
      /\ \A o \in rdoomed' : loc'[o] = "doomed"
  BY Zenon, <1>4 DEF Owned, TypeOK
<1>9. Elements(finished) \subseteq Op
  BY Zenon, QueueFacts DEF TypeOK
<1>10. (\A o \in Elements(finished') : loc'[o] = "grace") /\ (cpc' # None => loc'[cpc'] = "grace")
  BY Zenon, <1>4, <1>9 DEF Owned, TypeOK
<1> QED
  BY Zenon, <1>6, <1>7, <1>8, <1>10 DEF Owned

\* Operations change hands: every place keeps what was left to it, and what
\* it gained is marked as its own.
Handover(ops, where) ==
    /\ loc' = Place(ops, where) /\ UNCHANGED <<bpc, bop>>
    /\ \A o \in ops : o \in Op /\ loc[o] \notin {"unborn", "bus"}
    /\ \A w \in Worker : Elements(queue'[w]) \subseteq Elements(queue[w]) \ ops
    /\ \A w \in Worker : wop'[w] # None => wop'[w] = wop[w] /\ wop[w] \notin ops
    /\ \A w \in Worker : \A o \in wdoomed'[w] :
        (o \in ops /\ where = "doomed") \/ (o \notin ops /\ o \in wdoomed[w])
    /\ \A o \in rdoomed' : (o \in ops /\ where = "doomed") \/ (o \notin ops /\ o \in rdoomed)
    /\ \A o \in Elements(finished') :
        (o \in ops /\ where = "grace") \/ (o \notin ops /\ o \in Elements(finished))
    /\ cpc' # None => cpc' = cpc /\ cpc \notin ops

\* After a handover every operation is marked as whose it is.
LEMMA HandedOver ==
    ASSUME TypeOK, Handles, Owned, NEW ops, NEW where, Handover(ops, where)
    PROVE  Owned'
<1>1. \A o \in Op : loc'[o] = IF o \in ops THEN where ELSE loc[o]
  BY Zenon DEF Handover, Place
<1>2. \A w \in Worker : Elements(queue[w]) \subseteq Op
  BY Zenon, QueueFacts DEF TypeOK
<1>3. Elements(finished) \subseteq Op /\ rdoomed \subseteq Op /\ cpc \in Op \cup {None}
  BY Zenon, QueueFacts DEF TypeOK
<1>4. (\A o \in ops : o \in Op) /\ \A w \in Worker : wdoomed[w] \subseteq Op /\ wop[w] \in Op \cup {None}
  BY Zenon DEF Handover, TypeOK
<1>5. \A w \in Worker : \A o \in Elements(queue'[w]) : loc'[o] = "queue"
  <2>1. \A w \in Worker : Elements(queue'[w]) \subseteq Elements(queue[w]) \ ops
    BY Zenon DEF Handover
  <2>2. \A w \in Worker : \A o \in Elements(queue[w]) : loc[o] = "queue"
    BY Zenon DEF Owned
  <2> QED
    BY Zenon, <1>1, <1>2, <2>1, <2>2
<1>6. \A w \in Worker : wop'[w] # None => loc'[wop'[w]] = "worker"
  <2>1. \A w \in Worker : wop'[w] # None => wop'[w] = wop[w] /\ wop[w] \notin ops
    BY Zenon DEF Handover
  <2>2. \A w \in Worker : wop[w] # None => loc[wop[w]] = "worker"
    BY Zenon DEF Owned
  <2> QED
    BY Zenon, <1>1, <1>4, <2>1, <2>2
<1>7. \A w \in Worker : \A o \in wdoomed'[w] : loc'[o] = "doomed"
  <2>1. \A w \in Worker : \A o \in wdoomed'[w] :
          (o \in ops /\ where = "doomed") \/ (o \notin ops /\ o \in wdoomed[w])
    BY Zenon DEF Handover
  <2>2. \A w \in Worker : \A o \in wdoomed[w] : loc[o] = "doomed"
    BY Zenon DEF Owned
  <2> QED
    BY Zenon, <1>1, <1>4, <2>1, <2>2
<1>8. \A o \in rdoomed' : loc'[o] = "doomed"
  <2>1. \A o \in rdoomed' : (o \in ops /\ where = "doomed") \/ (o \notin ops /\ o \in rdoomed)
    BY Zenon DEF Handover
  <2>2. \A o \in rdoomed : loc[o] = "doomed"
    BY Zenon DEF Owned
  <2> QED
    BY Zenon, <1>1, <1>3, <1>4, <2>1, <2>2
<1>9. \A o \in Elements(finished') : loc'[o] = "grace"
  <2>1. \A o \in Elements(finished') :
          (o \in ops /\ where = "grace") \/ (o \notin ops /\ o \in Elements(finished))
    BY Zenon DEF Handover
  <2>2. \A o \in Elements(finished) : loc[o] = "grace"
    BY Zenon DEF Owned
  <2> QED
    BY Zenon, <1>1, <1>3, <1>4, <2>1, <2>2
<1>10. cpc' # None => loc'[cpc'] = "grace"
  <2>1. cpc' # None => cpc' = cpc /\ cpc \notin ops
    BY Zenon DEF Handover
  <2>2. cpc # None => loc[cpc] = "grace"
    BY Zenon DEF Owned
  <2> QED
    BY Zenon, <1>1, <1>3, <2>1, <2>2
<1>11. /\ bpc' \in {"cap", "probe"} => loc'[bop'] = "unborn"
       /\ bpc' \in {"record", "index", "push"} => loc'[bop'] = "bus"
  <2>1. bpc \in {"cap", "probe", "record", "index", "push"} => bop \in Op
    BY Zenon DEF Handles, Publishing
  <2>2. UNCHANGED <<bpc, bop>> /\ \A o \in ops : loc[o] \notin {"unborn", "bus"}
    BY Zenon DEF Handover
  <2>3. /\ bpc \in {"cap", "probe"} => loc[bop] = "unborn"
        /\ bpc \in {"record", "index", "push"} => loc[bop] = "bus"
    BY Zenon DEF Owned
  <2> QED
    BY Zenon, <1>1, <2>1, <2>2, <2>3
<1> QED
  BY Zenon, <1>5, <1>6, <1>7, <1>8, <1>9, <1>10, <1>11 DEF Owned

\* Whoever takes an operation over becomes its owner.
LEMMA OwnedStep == RemovalThread = "bus" /\ TypeOK /\ Handles /\ Stack /\ Turns /\ Stopping /\ Owned /\ Once /\ [Next]_vars => Owned'
<1> SUFFICES ASSUME RemovalThread = "bus" /\ TypeOK /\ Handles /\ Stack /\ Turns /\ Stopping /\ Owned /\ Once, [Next]_vars PROVE Owned'
  BY Zenon
<1>1. CASE (\E o \in Op : Cancel(o)) \/ (\E w \in Worker : StartHolderIo(w)) \/
     (\E w \in Worker : HolderIoReturns(w)) \/ (\E w \in Worker :
     DoWorkReturns(w)) \/ (\E w \in Worker : WatchdogFires(w)) \/ (\E w \in
     Worker : ClearInFlight(w)) \/ (\E w \in Worker : ScrubOne(w)) \/
     TakeWorker \/ RequestStop \/ ScrubDoomed \/ ReadInFlight \/
     ForgetInFlight \/ Detach \/ UNCHANGED vars
  BY ZenonT(60), <1>1 DEF Cancel, BusFree, StartHolderIo, WorkerFrame, HolderIoReturns,
     DoWorkReturns, WatchdogFires, ClearInFlight, ScrubOne, Forget, TakeWorker,
     RemoveFrame, RequestStop, ScrubDoomed, ReadInFlight, StillInDoWork,
     ForgetInFlight, Detach, vars, workerVars, opVars, tableVars, busVars,
     removeVars, Owned
<1>2. ASSUME NEW o \in Op, WorkerFor(o) PROVE Owned'
  BY Zenon, <1>2 DEF WorkerFor, Owned, opVars, removeVars
<1>3. CASE CheckBacklog
  BY <1>3, QueueFacts DEF CheckBacklog, Owned, Place, Handles, Publishing,
     TypeOK, workerVars, removeVars
<1>4. CASE RecordSender
  BY Zenon, <1>4 DEF RecordSender, Owned, workerVars, opVars, removeVars
<1>5. CASE IndexById
  BY Zenon, <1>5 DEF IndexById, Owned, workerVars, opVars, removeVars
<1>6. CASE PushOp
  <2>1. /\ bref \in Worker /\ bop \in Op /\ loc[bop] = "bus" /\ bpc' = "unref"
        /\ UNCHANGED <<bop, wop, wdoomed, rdoomed, finished, cpc>>
    BY Zenon, <1>6 DEF PushOp, Handles, Publishing, Owned, removeVars
  <2>2. queue' = [queue EXCEPT ![bref] = Append(@, bop)] /\ loc' = Place({bop}, "queue")
    BY Zenon, <1>6 DEF PushOp
  <2> QED
    BY Zenon, <2>1, <2>2, PushedIsOwned
<1>7. CASE PushProbe
  <2>1. /\ bref \in Worker /\ bop \in Op /\ loc[bop] = "unborn" /\ bpc' = "unref"
        /\ UNCHANGED <<bop, wop, wdoomed, rdoomed, finished, cpc>>
    BY Zenon, <1>7 DEF PushProbe, Handles, Publishing, Owned, removeVars
  <2>2. CASE HasRoom(bref)
    <3>1. queue' = [queue EXCEPT ![bref] = Append(@, bop)] /\ loc' = Place({bop}, "queue")
      BY Zenon, <1>7, <2>2 DEF PushProbe
    <3> QED
      BY Zenon, <2>1, <3>1, PushedIsOwned
  <2>3. CASE ~HasRoom(bref)
    <3>1. UNCHANGED <<queue, loc>>
      BY <1>7, <2>3, Zenon DEF PushProbe
    <3> QED
      BY Zenon, <2>1, <3>1 DEF Owned
  <2> QED
    BY Zenon, <2>2, <2>3
<1>8. CASE BusUnref
  <2>1. loc' = loc
    BY Zenon, <1>8, NoLateFree
  <2> QED
    BY Zenon, <1>8, <2>1 DEF BusUnref, removeVars, Owned
<1>9. ASSUME NEW c \in Caller, TakeSenderOps(c) PROVE Owned'
  BY Zenon, <1>9 DEF TakeSenderOps, Owned, workerVars, opVars, removeVars
<1>10. CASE CancelTaken
  BY Zenon, <1>10 DEF CancelTaken, Owned, workerVars, removeVars
<1>11. ASSUME NEW w \in Worker, PopOp(w) PROVE Owned'
  <2>1. queue[w] # <<>> /\ UNCHANGED <<bpc, bop, wdoomed, rdoomed, finished, cpc>>
    BY Zenon, <1>11 DEF PopOp, WorkerFrame, busVars, removeVars
  <2>2. /\ Head(queue[w]) \in Op /\ loc[Head(queue[w])] = "queue"
        /\ Elements(Tail(queue[w])) \subseteq Elements(queue[w]) \ {Head(queue[w])}
    BY Zenon, <1>11, PopFacts
  <2>3. /\ \A o \in Op : loc'[o] = IF o = Head(queue[w]) THEN "worker" ELSE loc[o]
        /\ \A v \in Worker : wop'[v] = IF v = w THEN Head(queue[w]) ELSE wop[v]
        /\ \A v \in Worker : queue'[v] = IF v = w THEN Tail(queue[w]) ELSE queue[v]
        /\ UNCHANGED <<bpc, bop, wdoomed, rdoomed, finished, cpc>>
    BY Zenon, <1>11, <2>1, PopFacts
  <2>4. \A v \in Worker : /\ Elements(queue'[v]) \subseteq Elements(queue[v]) \ {Head(queue[w])}
                         /\ Elements(queue[v]) \subseteq Op
    <3> TAKE v \in Worker
    <3>1. queue[v] \in Seq(Op)
      BY Zenon DEF TypeOK
    <3>2. Elements(queue[v]) \subseteq Op
      BY Zenon, <3>1, QueueFacts
    <3>3. CASE v = w
      BY Zenon, <2>2, <2>3, <3>2, <3>3
    <3>4. CASE v # w
      <4>1. queue'[v] = queue[v] /\ queue[v] = <<>>
        BY Zenon, <2>1, <2>3, <3>4, OneQueue
      <4> QED
        BY Zenon, <3>2, <4>1, EmptyQueue
    <3> QED
      BY Zenon, <3>3, <3>4
  <2>5. bpc \in {"cap", "probe", "record", "index", "push"} => bop \in Op
    BY Zenon DEF Handles, Publishing
  <2>6. \A o \in Op : loc[o] # "queue" => loc'[o] = loc[o]
    BY Zenon, <2>2, <2>3
  <2>7. \A v \in Worker : \A o \in Elements(queue'[v]) : loc'[o] = "queue"
    <3>1. \A o \in Op : loc'[o] = IF o = Head(queue[w]) THEN "worker" ELSE loc[o]
      BY Zenon, <2>3
    <3>2. \A v \in Worker : \A o \in Elements(queue[v]) : loc[o] = "queue"
      BY Zenon DEF Owned
    <3> QED
      BY Zenon, <2>4, <3>1, <3>2
  <2>8. \A v \in Worker : wop'[v] # None => loc'[wop'[v]] = "worker"
    <3> TAKE v \in Worker
    <3>1. CASE v = w
      BY Zenon, <2>2, <2>3, <3>1
    <3>2. CASE v # w
      <4>1. wop'[v] = wop[v]
        BY Zenon, <2>3, <3>2
      <4>2. wop[v] # None => wop[v] \in Op /\ loc[wop[v]] = "worker"
        BY Zenon DEF Owned, TypeOK
      <4> QED
        BY Zenon, <2>6, <4>1, <4>2
    <3> QED
      BY Zenon, <3>1, <3>2
  <2>9. /\ \A v \in Worker : \A o \in wdoomed'[v] : loc'[o] = "doomed"
        /\ \A o \in rdoomed' : loc'[o] = "doomed"
    BY Zenon, <2>3, <2>6 DEF Owned, TypeOK
  <2>10. Elements(finished) \subseteq Op
    BY Zenon, QueueFacts DEF TypeOK
  <2>11. (\A o \in Elements(finished') : loc'[o] = "grace") /\ (cpc' # None => loc'[cpc'] = "grace")
    BY Zenon, <2>3, <2>6, <2>10 DEF Owned, TypeOK
  <2>12. /\ bpc' \in {"cap", "probe"} => loc'[bop'] = "unborn"
         /\ bpc' \in {"record", "index", "push"} => loc'[bop'] = "bus"
    BY Zenon, <2>3, <2>5, <2>6 DEF Owned
  <2> QED
    BY Zenon, <2>7, <2>8, <2>9, <2>11, <2>12 DEF Owned
<1>12. ASSUME NEW w \in Worker, ReadAbandoned(w) PROVE Owned'
  <2>1. UNCHANGED <<queue, wdoomed, rdoomed, finished, cpc, bpc, bop>>
    BY Zenon, <1>12 DEF ReadAbandoned, WorkerFrame, busVars, removeVars
  <2>2. CASE abandoned[w]
    <3>1. /\ loc' = Place({wop[w]}, "freed")
          /\ \A v \in Worker : wop'[v] = IF v = w THEN None ELSE wop[v]
      BY Zenon, <1>12, <2>2 DEF ReadAbandoned, TypeOK
    <3>2. wop[w] \in Op /\ wop[w] # None /\ loc[wop[w]] = "worker"
      <4>1. wpc[w] = "cleared"
        BY Zenon, <1>12 DEF ReadAbandoned
      <4>2. wop[w] # None
        BY Zenon, <4>1 DEF Stack
      <4> QED
        BY Zenon, <4>2 DEF Owned, TypeOK
    <3>3. \A v \in Worker : v # w => wop[v] # wop[w]
      BY Zenon, <3>2 DEF Once
    <3>4. \A v \in Worker : wop[w] \notin Elements(queue[v]) /\ wop[w] \notin wdoomed[v]
      BY Zenon, <3>2 DEF Owned
    <3>5. wop[w] \notin rdoomed /\ wop[w] \notin Elements(finished) /\ (cpc # None => wop[w] # cpc)
      BY Zenon, <3>2 DEF Owned
    <3>6. Handover({wop[w]}, "freed")
      BY Zenon, <2>1, <3>1, <3>2, <3>3, <3>4, <3>5 DEF Handover
    <3> QED
      BY Zenon, <3>6, HandedOver
  <2>3. CASE ~abandoned[w]
    <3>1. UNCHANGED <<loc, wop>>
      BY Zenon, <1>12, <2>3 DEF ReadAbandoned
    <3> QED
      BY Zenon, <2>1, <3>1 DEF Owned
  <2> QED
    BY Zenon, <2>2, <2>3
<1>13. ASSUME NEW w \in Worker, Park(w) PROVE Owned'
  <2>1. /\ UNCHANGED <<queue, wdoomed, rdoomed, cpc, bpc, bop>>
        /\ finished' = Append(finished, wop[w]) /\ loc' = Place({wop[w]}, "grace")
        /\ \A v \in Worker : wop'[v] = IF v = w THEN None ELSE wop[v]
    BY Zenon, <1>13 DEF Park, WorkerFrame, TypeOK, busVars, removeVars
  <2>2. wop[w] \in Op /\ wop[w] # None /\ loc[wop[w]] = "worker"
    <3>1. wpc[w] = "park"
      BY Zenon, <1>13 DEF Park
    <3>2. wop[w] # None
      BY Zenon, <3>1 DEF Stack
    <3> QED
      BY Zenon, <3>2 DEF Owned, TypeOK
  <2>3. Elements(finished') = Elements(finished) \cup {wop[w]}
    BY Zenon, <2>1, <2>2, QueueFacts DEF TypeOK
  <2>4. \A v \in Worker : v # w => wop[v] # wop[w]
    BY Zenon, <2>2 DEF Once
  <2>5. \A v \in Worker : wop[w] \notin Elements(queue[v]) /\ wop[w] \notin wdoomed[v]
    BY Zenon, <2>2 DEF Owned
  <2>6. wop[w] \notin rdoomed /\ (cpc # None => wop[w] # cpc)
    BY Zenon, <2>2 DEF Owned
  <2>7. Handover({wop[w]}, "grace")
    BY Zenon, <2>1, <2>2, <2>3, <2>4, <2>5, <2>6 DEF Handover
  <2> QED
    BY Zenon, <2>7, HandedOver
<1>14. ASSUME NEW w \in Worker, TakeQueue(w) PROVE Owned'
  <2>1. /\ UNCHANGED <<wop, rdoomed, finished, cpc, bpc, bop>>
        /\ loc' = Place(Elements(queue[w]), "doomed")
        /\ \A v \in Worker : wdoomed'[v] = IF v = w THEN Elements(queue[w]) ELSE wdoomed[v]
        /\ \A v \in Worker : queue'[v] = IF v = w THEN <<>> ELSE queue[v]
    BY Zenon, <1>14 DEF TakeQueue, WorkerFrame, TypeOK, busVars, removeVars
  <2>2. Elements(queue[w]) \subseteq Op /\ \A o \in Elements(queue[w]) : loc[o] = "queue"
    BY Zenon, QueueFacts DEF Owned, TypeOK
  <2>3. \A v \in Worker : Elements(queue'[v]) \subseteq Elements(queue[v]) \ Elements(queue[w])
    BY Zenon, <2>1, OneQueue, EmptyQueue
  <2>4. \A v \in Worker : /\ wop[v] # None => wop[v] \notin Elements(queue[w])
                          /\ \A o \in wdoomed'[v] : o \in Elements(queue[w]) \/ o \in wdoomed[v]
    BY Zenon, <2>1, <2>2 DEF Owned
  <2>5. cpc # None => cpc \notin Elements(queue[w])
    BY Zenon, <2>2 DEF Owned
  <2>6. /\ \A o \in rdoomed : o \notin Elements(queue[w])
        /\ \A o \in Elements(finished) : o \notin Elements(queue[w])
    BY Zenon, <2>2 DEF Owned
  <2>7. Handover(Elements(queue[w]), "doomed")
    BY Zenon, <2>1, <2>2, <2>3, <2>4, <2>5, <2>6 DEF Handover
  <2> QED
    BY Zenon, <2>7, HandedOver
<1>15. ASSUME NEW w \in Worker, DropDoomed(w) PROVE Owned'
  <2>1. /\ UNCHANGED <<queue, wop, rdoomed, finished, cpc, bpc, bop>>
        /\ loc' = Place(wdoomed[w], "freed") /\ wdoomed[w] \subseteq Op
        /\ \A v \in Worker : wdoomed'[v] = IF v = w THEN {} ELSE wdoomed[v]
    BY Zenon, <1>15 DEF DropDoomed, WorkerFrame, TypeOK, busVars, removeVars
  <2>2. \A o \in wdoomed[w] : loc[o] = "doomed"
    BY Zenon DEF Owned
  <2>3. \A v \in Worker : /\ \A o \in Elements(queue[v]) : o \notin wdoomed[w]
                          /\ wop[v] # None => wop[v] \notin wdoomed[w]
    BY Zenon, <2>2 DEF Owned
  <2>4. \A v \in Worker : \A o \in wdoomed'[v] : o \in wdoomed[v] /\ o \notin wdoomed[w]
    BY Zenon, <2>1 DEF Once
  <2>5. /\ \A o \in rdoomed : o \notin wdoomed[w]
        /\ \A o \in Elements(finished) : o \notin wdoomed[w]
        /\ cpc # None => cpc \notin wdoomed[w]
    BY Zenon, <2>2 DEF Owned, Once
  <2>6. Handover(wdoomed[w], "freed")
    BY Zenon, <2>1, <2>2, <2>3, <2>4, <2>5 DEF Handover
  <2> QED
    BY Zenon, <2>6, HandedOver
<1>16. CASE DrainQueue
  <2>1. /\ UNCHANGED <<wop, wdoomed, finished, cpc, bpc, bop>> /\ rref \in Worker
        /\ loc' = Place(Elements(queue[rref]), "doomed") /\ rdoomed' = Elements(queue[rref])
        /\ \A v \in Worker : queue'[v] = IF v = rref THEN <<>> ELSE queue[v]
    BY Zenon, <1>16 DEF DrainQueue, RemoveFrame, Handles, TypeOK, busVars
  <2>2. Elements(queue[rref]) \subseteq Op /\ \A o \in Elements(queue[rref]) : loc[o] = "queue"
    BY Zenon, <2>1, QueueFacts DEF Owned, TypeOK
  <2>3. \A v \in Worker : Elements(queue'[v]) \subseteq Elements(queue[v]) \ Elements(queue[rref])
    BY Zenon, <2>1, OneQueue, EmptyQueue
  <2>4. \A v \in Worker : /\ wop[v] # None => wop[v] \notin Elements(queue[rref])
                          /\ \A o \in wdoomed[v] : o \notin Elements(queue[rref])
    BY Zenon, <2>2 DEF Owned
  <2>5. /\ \A o \in Elements(finished) : o \notin Elements(queue[rref])
        /\ cpc # None => cpc \notin Elements(queue[rref])
    BY Zenon, <2>2 DEF Owned
  <2>6. Handover(Elements(queue[rref]), "doomed")
    BY Zenon, <2>1, <2>2, <2>3, <2>4, <2>5 DEF Handover
  <2> QED
    BY Zenon, <2>6, HandedOver
<1>17. CASE FinishDoomed
  <2>1. /\ UNCHANGED <<queue, wop, wdoomed, finished, cpc, bpc, bop>>
        /\ loc' = Place(rdoomed, "freed") /\ rdoomed' = {} /\ rdoomed \subseteq Op
    BY Zenon, <1>17 DEF FinishDoomed, RemoveFrame, TypeOK, workerVars, busVars
  <2>2. \A o \in rdoomed : loc[o] = "doomed"
    BY Zenon DEF Owned
  <2>3. \A v \in Worker : /\ \A o \in Elements(queue[v]) : o \notin rdoomed
                          /\ wop[v] # None => wop[v] \notin rdoomed
                          /\ \A o \in wdoomed[v] : o \notin rdoomed
    BY Zenon, <2>2 DEF Owned, Once
  <2>4. /\ \A o \in Elements(finished) : o \notin rdoomed
        /\ cpc # None => cpc \notin rdoomed
    BY Zenon, <2>2 DEF Owned
  <2>5. Handover(rdoomed, "freed")
    BY Zenon, <2>1, <2>2, <2>3, <2>4 DEF Handover
  <2> QED
    BY Zenon, <2>5, HandedOver
<1>18. CASE JoinWorker
  <2>1. loc' = loc
    BY Zenon, <1>18, NoLateFree
  <2> QED
    BY Zenon, <1>18, <2>1 DEF JoinWorker, RemoveFrame, Owned, busVars
<1>19. CASE SweepFinished
  <2>1. /\ finished # <<>> /\ cpc' = Head(finished) /\ finished' = Tail(finished)
        /\ UNCHANGED <<queue, wop, wdoomed, rdoomed, loc, bpc, bop>>
    BY Zenon, <1>19 DEF SweepFinished, workerVars, opVars, busVars, removeVars
  <2>2. Head(finished) \in Elements(finished) /\ Elements(Tail(finished)) \subseteq Elements(finished)
    BY Zenon, <2>1, QueueFacts DEF TypeOK
  <2>3. \A o \in Elements(finished) : loc[o] = "grace"
    BY Zenon DEF Owned
  <2>4. (\A o \in Elements(finished') : loc'[o] = "grace") /\ loc'[cpc'] = "grace"
    BY Zenon, <2>1, <2>2, <2>3
  <2> QED
    BY Zenon, <2>1, <2>4 DEF Owned
<1>20. CASE DestroySwept
  <2>1. /\ UNCHANGED <<queue, wop, wdoomed, rdoomed, finished, bpc, bop>>
        /\ cpc # None /\ loc' = Place({cpc}, "freed") /\ cpc' = None
    BY Zenon, <1>20 DEF DestroySwept, workerVars, busVars, removeVars
  <2>2. cpc \in Op /\ loc[cpc] = "grace" /\ cpc \notin Elements(finished) /\ cpc \notin rdoomed
    BY Zenon, <2>1 DEF Owned, Once, TypeOK
  <2>3. \A v \in Worker : /\ cpc \notin Elements(queue[v]) /\ cpc \notin wdoomed[v]
                          /\ wop[v] # None => wop[v] # cpc
    BY Zenon, <2>2 DEF Owned
  <2>4. Handover({cpc}, "freed")
    BY Zenon, <2>1, <2>2, <2>3 DEF Handover
  <2> QED
    BY Zenon, <2>4, HandedOver
<1>21. CASE Close
  <2>1. /\ UNCHANGED <<queue, wop, wdoomed, rdoomed, cpc, bpc, bop>> /\ cpc = None
        /\ finished' = <<>> /\ loc' = Place(Elements(finished), "freed")
    BY Zenon, <1>21 DEF Close, workerVars, busVars, removeVars
  <2>2. /\ Elements(finished) \subseteq Op /\ Elements(finished') = {}
        /\ \A o \in Elements(finished) : loc[o] = "grace"
    BY Zenon, <2>1, QueueFacts DEF Owned, TypeOK
  <2>3. \A v \in Worker : /\ \A o \in Elements(queue[v]) : o \notin Elements(finished)
                          /\ \A o \in wdoomed[v] : o \notin Elements(finished)
                          /\ wop[v] # None => wop[v] \notin Elements(finished)
    BY Zenon, <2>2 DEF Owned
  <2>4. \A o \in rdoomed : o \notin Elements(finished)
    BY Zenon, <2>2 DEF Owned
  <2>5. Handover(Elements(finished), "freed")
    BY Zenon, <2>1, <2>2, <2>3, <2>4 DEF Handover
  <2> QED
    BY Zenon, <2>5, HandedOver
<1> QED
  BY Zenon, <1>1, <1>2, <1>3, <1>4, <1>5, <1>6, <1>7, <1>8, <1>9, <1>10, <1>11,
     <1>12, <1>13, <1>14, <1>15, <1>16, <1>17, <1>18, <1>19, <1>20, <1>21 DEF
     Next, BusStarts, BusContinues, WorkerContinues, RemovalContinues

\* No operation is in two places.
LEMMA OnceStep == RemovalThread = "bus" /\ TypeOK /\ Handles /\ Stack /\ Turns /\ Stopping /\ Owned /\ Once /\ [Next]_vars => Once'
<1> SUFFICES ASSUME RemovalThread = "bus" /\ TypeOK /\ Handles /\ Stack /\ Turns /\ Stopping /\ Owned /\ Once, [Next]_vars PROVE Once'
  BY Zenon
<1>1. CASE (\E o \in Op : WorkerFor(o)) \/ CheckBacklog \/ RecordSender \/
     IndexById \/ BusUnref \/ (\E o \in Op : Cancel(o)) \/ (\E c \in Caller
     : TakeSenderOps(c)) \/ CancelTaken \/ (\E w \in Worker :
     StartHolderIo(w)) \/ (\E w \in Worker : HolderIoReturns(w)) \/ (\E w
     \in Worker : DoWorkReturns(w)) \/ (\E w \in Worker : WatchdogFires(w))
     \/ (\E w \in Worker : ClearInFlight(w)) \/ (\E w \in Worker :
     ScrubOne(w)) \/ TakeWorker \/ RequestStop \/ ScrubDoomed \/
     ReadInFlight \/ ForgetInFlight \/ Detach \/ JoinWorker \/ UNCHANGED
     vars
  BY <1>1, Zenon DEF WorkerFor, CheckBacklog, RecordSender, IndexById,
     BusUnref, Cancel, TakeSenderOps, CancelTaken, StartHolderIo, WorkerFrame,
     HolderIoReturns, DoWorkReturns, WatchdogFires, ClearInFlight, ScrubOne,
     TakeWorker, RemoveFrame, RequestStop, ScrubDoomed, ReadInFlight,
     ForgetInFlight, Detach, JoinWorker, vars, workerVars, removeVars, Once
<1>2. CASE PushOp
  <2>1. bpc = "push" /\ UNCHANGED <<wop, wdoomed, rdoomed, finished, cpc>>
    BY Zenon, <1>2 DEF PushOp, removeVars
  <2>2. bref \in Worker /\ bop \in Op /\ loc[bop] = "bus"
    BY Zenon, <2>1 DEF Handles, Publishing, Owned
  <2>3. \A w \in Worker : queue'[w] = IF w = bref THEN Append(queue[bref], bop) ELSE queue[w]
    BY Zenon, <1>2 DEF PushOp, TypeOK
  <2>4. bop \notin Elements(queue[bref]) /\ queue[bref] \in Seq(Op) /\ NoDup(queue[bref])
    BY Zenon, <2>2 DEF Owned, Once, TypeOK
  <2>5. NoDup(Append(queue[bref], bop))
    BY Zenon, <2>2, <2>4, NoDupFacts
  <2>6. \A w \in Worker : NoDup(queue'[w])
    BY Zenon, <2>3, <2>5 DEF Once
  <2> QED
    BY Zenon, <2>1, <2>6 DEF Once
<1>3. CASE PushProbe
  <2>1. /\ bref \in Worker /\ bop \in Op /\ loc[bop] = "unborn" /\ bpc' = "unref"
        /\ UNCHANGED <<bop, wop, wdoomed, rdoomed, finished, cpc>>
    BY Zenon, <1>3 DEF PushProbe, Handles, Publishing, Owned, removeVars
  <2>2. CASE HasRoom(bref)
    <3>1. bop \notin Elements(queue[bref])
      BY Zenon, <2>1 DEF Owned
    <3>2. \A w \in Worker : queue'[w] = IF w = bref THEN Append(queue[bref], bop) ELSE queue[w]
      BY Zenon, <1>3, <2>2 DEF PushProbe, TypeOK
    <3>3. \A w \in Worker : NoDup(queue'[w])
      <4>1. NoDup(Append(queue[bref], bop))
        BY Zenon, <2>1, <3>1, NoDupFacts DEF Once, TypeOK
      <4> QED
        BY Zenon, <3>2, <4>1 DEF Once
    <3> QED
      BY Zenon, <2>1, <3>3 DEF Once
  <2>3. CASE ~HasRoom(bref)
    <3>1. UNCHANGED <<queue, loc>>
      BY <1>3, <2>3, Zenon DEF PushProbe
    <3> QED
      BY Zenon, <2>1, <3>1 DEF Once
  <2> QED
    BY Zenon, <2>2, <2>3
<1>4. ASSUME NEW w \in Worker, PopOp(w) PROVE Once'
  <2>1. UNCHANGED <<wdoomed, rdoomed, finished, cpc>>
    BY Zenon, <1>4 DEF PopOp, WorkerFrame, removeVars
  <2>2. /\ loc[Head(queue[w])] = "queue" /\ NoDup(Tail(queue[w]))
        /\ \A v \in Worker : wop'[v] = IF v = w THEN Head(queue[w]) ELSE wop[v]
        /\ \A v \in Worker : queue'[v] = IF v = w THEN Tail(queue[w]) ELSE queue[v]
    BY Zenon, <1>4, PopFacts
  <2>3. \A v \in Worker : NoDup(queue'[v])
    BY Zenon, <2>2 DEF Once
  <2>4. \A v \in Worker : wop[v] # None => wop[v] # Head(queue[w])
    BY Zenon, <2>2 DEF Owned
  <2>5. Head(queue[w]) # None
    BY Zenon, <1>4, PopFacts, Numbers
  <2>6. \A v, u \in Worker : v # u /\ wop'[v] # None => wop'[v] # wop'[u]
    <3> SUFFICES ASSUME NEW v \in Worker, NEW u \in Worker, v # u, wop'[v] # None PROVE wop'[v] # wop'[u]
      BY Zenon
    <3>1. CASE v = w
      BY Zenon, <2>2, <2>4, <2>5, <3>1
    <3>2. CASE v # w
      BY Zenon, <2>2, <2>4, <3>2 DEF Once
    <3> QED
      BY Zenon, <3>1, <3>2
  <2> QED
    BY Zenon, <2>1, <2>3, <2>6 DEF Once
<1>5. ASSUME NEW w \in Worker, ReadAbandoned(w) PROVE Once'
  <2>1. UNCHANGED <<queue, wdoomed, rdoomed, finished, cpc>>
    BY Zenon, <1>5 DEF ReadAbandoned, WorkerFrame, removeVars
  <2>2. \A v \in Worker : wop'[v] \in {wop[v], None}
    <3>1. CASE abandoned[w]
      BY Zenon, <1>5 DEF ReadAbandoned, TypeOK
    <3>2. CASE ~abandoned[w]
      BY <1>5, <3>2, Zenon DEF ReadAbandoned
    <3> QED
      BY Zenon, <3>1, <3>2
  <2> QED
    BY Zenon, <2>1, <2>2 DEF Once
<1>6. ASSUME NEW w \in Worker, Park(w) PROVE Once'
  <2>1. /\ UNCHANGED <<queue, wdoomed, rdoomed, cpc>> /\ finished' = Append(finished, wop[w])
        /\ \A v \in Worker : wop'[v] = IF v = w THEN None ELSE wop[v]
    BY Zenon, <1>6 DEF Park, WorkerFrame, TypeOK, removeVars
  <2>2. wop[w] \in Op /\ wop[w] # None /\ loc[wop[w]] = "worker"
    <3>1. wpc[w] = "park"
      BY Zenon, <1>6 DEF Park
    <3>2. wop[w] # None
      BY Zenon, <3>1 DEF Stack
    <3> QED
      BY Zenon, <3>2 DEF Owned, TypeOK
  <2>3. wop[w] \notin Elements(finished) /\ wop[w] # cpc
    BY Zenon, <2>2 DEF Owned
  <2>4. NoDup(finished') /\ Elements(finished') = Elements(finished) \cup {wop[w]}
    BY Zenon, <2>1, <2>2, <2>3, QueueFacts, NoDupFacts DEF Once, TypeOK
  <2>5. cpc' \notin Elements(finished')
    BY Zenon, <2>1, <2>3, <2>4 DEF Once
  <2> QED
    BY Zenon, <2>1, <2>4, <2>5 DEF Once
<1>7. ASSUME NEW w \in Worker, TakeQueue(w) PROVE Once'
  <2>1. /\ \A v \in Worker : queue'[v] = IF v = w THEN <<>> ELSE queue[v]
        /\ \A v \in Worker : wdoomed'[v] = IF v = w THEN Elements(queue[w]) ELSE wdoomed[v]
        /\ UNCHANGED <<wop, rdoomed, finished, cpc>>
    BY Zenon, <1>7 DEF TakeQueue, WorkerFrame, TypeOK, removeVars
  <2>2. /\ \A v \in Worker : Elements(queue[w]) \cap wdoomed[v] = {}
        /\ Elements(queue[w]) \cap rdoomed = {}
    BY Zenon DEF Owned
  <2>3. \A v \in Worker : NoDup(queue'[v])
    BY Zenon, <2>1, EmptyQueue DEF Once
  <2>4. \A v, u \in Worker : v # u => wdoomed'[v] \cap wdoomed'[u] = {}
    <3> SUFFICES ASSUME NEW v \in Worker, NEW u \in Worker, v # u PROVE wdoomed'[v] \cap wdoomed'[u] = {}
      BY Zenon
    <3>1. wdoomed[v] \cap wdoomed[u] = {}
      BY Zenon DEF Once
    <3>2. CASE v = w
      BY Zenon, <2>1, <2>2, <3>1, <3>2
    <3>3. CASE u = w
      BY Zenon, <2>1, <2>2, <3>1, <3>3
    <3> QED
      BY Zenon, <2>1, <3>1, <3>2, <3>3
  <2>5. \A v \in Worker : wdoomed'[v] \cap rdoomed = {}
    BY Zenon, <2>1, <2>2 DEF Once
  <2> QED
    BY Zenon, <2>1, <2>3, <2>4, <2>5 DEF Once
<1>8. ASSUME NEW w \in Worker, DropDoomed(w) PROVE Once'
  <2>1. /\ \A v \in Worker : wdoomed'[v] = IF v = w THEN {} ELSE wdoomed[v]
        /\ UNCHANGED <<queue, wop, rdoomed, finished, cpc>>
    BY Zenon, <1>8 DEF DropDoomed, WorkerFrame, TypeOK, removeVars
  <2> QED
    BY Zenon, <2>1 DEF Once
<1>9. CASE DrainQueue
  <2>1. /\ rref \in Worker /\ rdoomed' = Elements(queue[rref])
        /\ \A v \in Worker : queue'[v] = IF v = rref THEN <<>> ELSE queue[v]
        /\ UNCHANGED <<wop, wdoomed, finished, cpc>>
    BY Zenon, <1>9 DEF DrainQueue, RemoveFrame, Handles, TypeOK
  <2>2. \A v \in Worker : wdoomed[v] \cap Elements(queue[rref]) = {}
    BY Zenon, <2>1 DEF Owned
  <2>3. \A v \in Worker : NoDup(queue'[v])
    BY Zenon, <2>1, EmptyQueue DEF Once
  <2> QED
    BY Zenon, <2>1, <2>2, <2>3 DEF Once
<1>10. CASE FinishDoomed
  BY Zenon, <1>10 DEF FinishDoomed, RemoveFrame, Once, workerVars
<1>11. CASE SweepFinished
  BY Zenon, <1>11, NoDupFacts DEF SweepFinished, Once, TypeOK, workerVars, removeVars
<1>12. CASE DestroySwept
  BY Zenon, <1>12, Numbers, QueueFacts DEF DestroySwept, Once, TypeOK, workerVars,
     removeVars
<1>13. CASE Close
  <2>1. finished' = <<>> /\ UNCHANGED <<queue, wop, wdoomed, rdoomed, cpc>>
    BY Zenon, <1>13 DEF Close, workerVars, removeVars
  <2> QED
    BY Zenon, <2>1, EmptyQueue DEF Once
<1> QED
  BY Zenon, <1>1, <1>2, <1>3, <1>4, <1>5, <1>6, <1>7, <1>8, <1>9, <1>10, <1>11,
     <1>12, <1>13 DEF Next, BusStarts, BusContinues, WorkerContinues,
     RemovalContinues

\* Whoever destroys an operation has taken it out of the tables.
LEMMA TablesStep == RemovalThread = "bus" /\ TypeOK /\ Handles /\ Stack /\ Turns /\ Stopping /\ Owned /\ Once /\ Tables /\ Noted /\ [Next]_vars => Tables'
<1> SUFFICES ASSUME RemovalThread = "bus" /\ TypeOK /\ Handles /\ Stack /\ Turns /\ Stopping /\ Owned /\ Once /\ Tables /\ Noted, [Next]_vars PROVE Tables'
  BY Zenon
<1>1. CASE (\E o \in Op : Cancel(o)) \/ (\E w \in Worker : StartHolderIo(w)) \/
     (\E w \in Worker : HolderIoReturns(w)) \/ (\E w \in Worker :
     DoWorkReturns(w)) \/ (\E w \in Worker : WatchdogFires(w)) \/ (\E w \in
     Worker : ClearInFlight(w)) \/ TakeWorker \/ RequestStop \/
     ReadInFlight \/ Detach \/ UNCHANGED vars
  BY <1>1, Zenon DEF Cancel, StartHolderIo, WorkerFrame, HolderIoReturns,
     DoWorkReturns, WatchdogFires, ClearInFlight, TakeWorker, RemoveFrame,
     RequestStop, ReadInFlight, Detach, vars, opVars, tableVars, busVars,
     Tables, Listed
<1>2. ASSUME NEW o \in Op, WorkerFor(o) PROVE Tables'
  BY Zenon, <1>2 DEF WorkerFor, BusFree, Tables, Listed, opVars, tableVars
<1>3. CASE CheckBacklog
  BY <1>3 DEF CheckBacklog, Tables, Listed, Place, TypeOK, tableVars
<1>4. CASE RecordSender
  BY Zenon, <1>4, Numbers DEF RecordSender, Tables, Listed, Owned, Handles,
     Publishing, opVars
<1>5. CASE IndexById
  BY Zenon, <1>5, Numbers DEF IndexById, Tables, Listed, Owned, Handles, Publishing,
     opVars
<1>6. CASE PushOp
  BY Zenon, <1>6 DEF PushOp, Tables, Listed, Place, TypeOK, tableVars
<1>7. CASE PushProbe
  BY <1>7 DEF PushProbe, Tables, Listed, Place, TypeOK, tableVars
<1>8. CASE BusUnref
  <2>1. loc' = loc
    BY Zenon, <1>8, NoLateFree
  <2> QED
    BY Zenon, <1>8, <2>1 DEF BusUnref, Tables, Listed, tableVars
<1>9. ASSUME NEW c \in Caller, TakeSenderOps(c) PROVE Tables'
  BY Zenon, <1>9 DEF TakeSenderOps, BusFree, Tables, Listed, opVars
<1>10. CASE CancelTaken
  BY Zenon, <1>10 DEF CancelTaken, Tables, Listed, tableVars
<1>11. ASSUME NEW w \in Worker, PopOp(w) PROVE Tables'
  BY Zenon, <1>11 DEF PopOp, WorkerFrame, Tables, Listed, Place, TypeOK, tableVars,
     busVars
<1>12. ASSUME NEW w \in Worker, ReadAbandoned(w) PROVE Tables'
  BY <1>12 DEF ReadAbandoned, WorkerFrame, Tables, Listed, Noted, Place,
     TypeOK, tableVars, busVars
<1>13. ASSUME NEW w \in Worker, Park(w) PROVE Tables'
  BY Zenon, <1>13 DEF Park, WorkerFrame, Tables, Listed, Place, TypeOK, tableVars,
     busVars
<1>14. ASSUME NEW w \in Worker, TakeQueue(w) PROVE Tables'
  BY Zenon, <1>14 DEF TakeQueue, WorkerFrame, Tables, Listed, Place, TypeOK,
     tableVars, busVars
<1>15. ASSUME NEW w \in Worker, ScrubOne(w) PROVE Tables'
  BY Zenon, <1>15 DEF ScrubOne, WorkerFrame, Forget, Tables, Listed, opVars, busVars
<1>16. ASSUME NEW w \in Worker, DropDoomed(w) PROVE Tables'
  BY <1>16 DEF DropDoomed, WorkerFrame, Scrubbed, Tables, Listed, Owned,
     Place, TypeOK, tableVars, busVars
<1>17. CASE DrainQueue
  BY Zenon, <1>17 DEF DrainQueue, RemoveFrame, Tables, Listed, Place, TypeOK,
     tableVars, busVars
<1>18. CASE ScrubDoomed
  BY Zenon, <1>18 DEF ScrubDoomed, RemoveFrame, Forget, Tables, Listed, opVars,
     busVars
<1>19. CASE FinishDoomed
  BY Zenon, <1>19 DEF FinishDoomed, RemoveFrame, Scrubbed, Tables, Listed, Owned,
     Place, TypeOK, tableVars, busVars
<1>20. CASE ForgetInFlight
  BY Zenon, <1>20 DEF ForgetInFlight, RemoveFrame, Forget, Tables, Listed, opVars,
     busVars
<1>21. CASE JoinWorker
  <2>1. loc' = loc
    BY Zenon, <1>21, NoLateFree
  <2> QED
    BY Zenon, <1>21, <2>1 DEF JoinWorker, RemoveFrame, Tables, Listed, busVars,
       tableVars
<1>22. CASE SweepFinished
  BY <1>22, Zenon DEF SweepFinished, Forget, Tables, Listed, opVars, busVars
<1>23. CASE DestroySwept
  BY Zenon, <1>23, Numbers DEF DestroySwept, Tables, Listed, Place, TypeOK,
     tableVars, busVars
<1>24. CASE Close
  BY Zenon, <1>24 DEF Close, Tables, Listed
<1> QED
  BY Zenon, <1>1, <1>2, <1>3, <1>4, <1>5, <1>6, <1>7, <1>8, <1>9, <1>10, <1>11,
     <1>12, <1>13, <1>14, <1>15, <1>16, <1>17, <1>18, <1>19, <1>20, <1>21,
     <1>22, <1>23, <1>24 DEF Next, BusStarts, BusContinues, WorkerContinues,
     RemovalContinues

\* The removal's note is the operation its worker may come back with.
LEMMA NotedStep == RemovalThread = "bus" /\ TypeOK /\ Handles /\ Stack /\ Turns /\ Stopping /\ Owned /\ Once /\ Tables /\ Noted /\ [Next]_vars => Noted'
<1> SUFFICES ASSUME RemovalThread = "bus" /\ TypeOK /\ Handles /\ Stack /\ Turns /\ Stopping /\ Owned /\ Once /\ Tables /\ Noted, [Next]_vars PROVE Noted'
  BY Zenon
<1>1. CASE (\E o \in Op : WorkerFor(o)) \/ (\E w \in Worker : StartHolderIo(w))
     \/ (\E w \in Worker : HolderIoReturns(w)) \/ (\E w \in Worker :
     DoWorkReturns(w)) \/ (\E w \in Worker : ClearInFlight(w)) \/ UNCHANGED
     vars
  BY <1>1, Zenon DEF WorkerFor, StartHolderIo, WorkerFrame, HolderIoReturns,
     DoWorkReturns, ClearInFlight, vars, workerVars, opVars, tableVars,
     removeVars, Noted, Listed
<1>2. CASE CheckBacklog
  BY Zenon, <1>2 DEF CheckBacklog, Noted, Listed, Turns, workerVars, tableVars,
     removeVars
<1>3. CASE RecordSender
  <2>1. /\ bop \in Op /\ loc[bop] = "bus" /\ rpc = "idle"
        /\ Listed' = Listed \cup {bop}
        /\ UNCHANGED <<rpc, rop, rref, wop, abandoned, cancelled, loc>>
    BY Zenon, <1>3 DEF RecordSender, Handles, Publishing, Owned, Turns, Listed,
       workerVars, opVars, removeVars
  <2>2. \A w \in Worker : wop[w] # bop
    BY Zenon, <2>1, Numbers DEF Owned
  <2> QED
    BY Zenon, <2>1, <2>2 DEF Noted
<1>4. CASE IndexById
  BY Zenon, <1>4, Numbers DEF IndexById, Noted, Listed, Owned, Handles, Publishing,
     workerVars, opVars, removeVars
<1>5. CASE PushOp
  BY Zenon, <1>5 DEF PushOp, Noted, Listed, Turns, tableVars, removeVars
<1>6. CASE PushProbe
  BY Zenon, <1>6 DEF PushProbe, Noted, Listed, Turns, tableVars, removeVars
<1>7. CASE BusUnref
  <2>1. loc' = loc
    BY Zenon, <1>7, NoLateFree
  <2> QED
    BY Zenon, <1>7, <2>1 DEF BusUnref, Noted, Listed, removeVars, tableVars
<1>8. ASSUME NEW o \in Op, Cancel(o) PROVE Noted'
  BY Zenon, <1>8 DEF Cancel, Noted, Listed, workerVars, tableVars, removeVars
<1>9. ASSUME NEW c \in Caller, TakeSenderOps(c) PROVE Noted'
  BY Zenon, <1>9 DEF TakeSenderOps, BusFree, Noted, Listed, workerVars, removeVars
<1>10. CASE CancelTaken
  BY Zenon, <1>10 DEF CancelTaken, Noted, Listed, workerVars, tableVars, removeVars
<1>11. ASSUME NEW w \in Worker, PopOp(w) PROVE Noted'
  <2>1. UNCHANGED <<rpc, rref, rop, byId, opToSender, senderToOps, abandoned, cancelled>> /\ wop' = [wop EXCEPT ![w] = Head(queue[w])]
    BY Zenon, <1>11 DEF PopOp, WorkerFrame, tableVars, removeVars
  <2>2. \A v \in Worker : v # w => wop'[v] = wop[v]
    BY Zenon, <1>11, PopFacts
  <2>3. ~stopped[w] /\ ~abandoned[w]
    BY Zenon, <1>11, PopFacts DEF Stopping
  <2>4. rpc \notin {"idle", "stop"} => rref # w
    BY Zenon, <2>3 DEF Stopping
  <2>5. \A o \in Op : loc[o] \notin {"unborn", "bus"} => loc'[o] \notin {"unborn", "bus"}
    BY Zenon, <1>11, PopFacts
  <2>6. rpc \in {"scrub", "poll", "forget", "detach"} => rpc \notin {"idle", "stop"} /\ rref \in Worker
    BY Zenon, Numbers DEF Turns, Stopping, Handles, TypeOK
  <2>7. \A v \in Worker : abandoned'[v] => wop'[v] \notin Listed'
    BY Zenon, <2>1, <2>2, <2>3 DEF Noted, Listed
  <2>8. rpc \in {"scrub", "poll", "forget", "detach"} /\ rop # None =>
          wop'[rref] \in {rop, None} /\ loc'[rop] \notin {"unborn", "bus"}
    BY Zenon, <2>2, <2>4, <2>5, <2>6 DEF Noted, TypeOK
  <2> QED
    BY Zenon, <2>1, <2>7, <2>8 DEF Noted, Listed
<1>12. ASSUME NEW w \in Worker, WatchdogFires(w) PROVE Noted'
  BY Zenon, <1>12 DEF WatchdogFires, WorkerFrame, Noted, Listed, workerVars,
     tableVars, removeVars
<1>13. ASSUME NEW w \in Worker, ReadAbandoned(w) PROVE Noted'
  <2>1. /\ UNCHANGED <<rpc, rop, rref, abandoned, cancelled>> /\ Listed' = Listed
        /\ None \notin Listed /\ wop[w] \in Op /\ loc[wop[w]] = "worker"
    BY <1>13, Numbers DEF ReadAbandoned, WorkerFrame, Listed, Stack, Owned,
       TypeOK, tableVars, removeVars
  <2>2. \A v \in Worker : wop'[v] \in {wop[v], None}
    <3>1. CASE abandoned[w]
      BY Zenon, <1>13 DEF ReadAbandoned, TypeOK
    <3>2. CASE ~abandoned[w]
      BY <1>13, <3>2, Zenon DEF ReadAbandoned
    <3> QED
      BY Zenon, <3>1, <3>2
  <2>3. \A o \in Op : loc'[o] \in {loc[o], "freed"}
    <3>1. CASE abandoned[w]
      BY Zenon, <1>13 DEF ReadAbandoned, Place
    <3>2. CASE ~abandoned[w]
      BY <1>13, <3>2, Zenon DEF ReadAbandoned
    <3> QED
      BY Zenon, <3>1, <3>2
  <2>4. rpc \in {"scrub", "poll", "forget", "detach"} => rref \in Worker
    BY Zenon DEF Handles
  <2> QED
    BY <2>1, <2>2, <2>3, <2>4, Zenon DEF Noted, TypeOK
<1>14. ASSUME NEW w \in Worker, Park(w) PROVE Noted'
  BY <1>14, Numbers DEF Park, WorkerFrame, Noted, Listed, Place, TypeOK,
     tableVars, removeVars
<1>15. ASSUME NEW w \in Worker, TakeQueue(w) PROVE Noted'
  BY Zenon, <1>15 DEF TakeQueue, WorkerFrame, Noted, Listed, Place, TypeOK,
     tableVars, removeVars
<1>16. ASSUME NEW w \in Worker, ScrubOne(w) PROVE Noted'
  BY Zenon, <1>16 DEF ScrubOne, WorkerFrame, Forget, Noted, Listed, workerVars,
     opVars, removeVars
<1>17. ASSUME NEW w \in Worker, DropDoomed(w) PROVE Noted'
  BY Zenon, <1>17 DEF DropDoomed, WorkerFrame, Noted, Listed, Place, TypeOK,
     tableVars, removeVars
<1>18. CASE TakeWorker
  BY Zenon, <1>18 DEF TakeWorker, Noted, Listed, workerVars, tableVars
<1>19. CASE RequestStop
  BY Zenon, <1>19 DEF RequestStop, Noted, Listed, tableVars
<1>20. CASE DrainQueue
  <2>1. /\ rpc' = "scrub" /\ rop' = inFlight[rref] /\ cancelled' = cancelled \cup InFlightOps(rref)
        /\ loc' = Place(Elements(queue[rref]), "doomed")
        /\ UNCHANGED <<wop, rref, abandoned, tableVars>> /\ rref \in Worker
    BY Zenon, <1>20 DEF DrainQueue, Handles
  <2>2. \A o \in Op : loc[o] \notin {"unborn", "bus"} => loc'[o] \notin {"unborn", "bus"}
    BY Zenon, <2>1 DEF Place
  <2>3. rop' # None => rop' \in cancelled' /\ rop' \in Op
    BY Zenon, <2>1 DEF InFlightOps, TypeOK
  <2>4. rop' # None => wop[rref] = rop' /\ loc[rop'] \notin {"unborn", "bus"}
    BY Zenon, <2>1 DEF Stack, Owned, TypeOK
  <2>5. \A w \in Worker : abandoned'[w] => wop'[w] \notin Listed'
    BY Zenon, <2>1 DEF Noted, Listed, tableVars
  <2> QED
    BY Zenon, <2>1, <2>2, <2>3, <2>4, <2>5 DEF Noted
<1>21. CASE ScrubDoomed
  BY Zenon, <1>21 DEF ScrubDoomed, Forget, Noted, Listed, workerVars, opVars,
     removeVars
<1>22. CASE FinishDoomed
  BY Zenon, <1>22 DEF FinishDoomed, Noted, Listed, Place, TypeOK, workerVars,
     tableVars
<1>23. CASE ReadInFlight
  BY Zenon, <1>23 DEF ReadInFlight, Noted, Listed, workerVars, opVars, tableVars
<1>24. CASE ForgetInFlight
  BY Zenon, <1>24 DEF ForgetInFlight, Forget, Noted, Listed, workerVars, opVars
<1>25. CASE Detach
  BY <1>25, Numbers DEF Detach, Noted, Listed, TypeOK, tableVars
<1>26. CASE JoinWorker
  <2>1. loc' = loc
    BY Zenon, <1>26, NoLateFree
  <2> QED
    BY Zenon, <1>26 DEF JoinWorker, Noted, Listed, tableVars
<1>27. CASE SweepFinished
  BY Zenon, <1>27 DEF SweepFinished, Forget, Noted, Listed, workerVars, opVars,
     removeVars
<1>28. CASE DestroySwept
  BY Zenon, <1>28 DEF DestroySwept, Noted, Listed, Place, TypeOK, workerVars,
     tableVars, removeVars
<1>29. CASE Close
  BY Zenon, <1>29 DEF Close, Noted, Listed, removeVars
<1> QED
  BY Zenon, <1>1, <1>2, <1>3, <1>4, <1>5, <1>6, <1>7, <1>8, <1>9, <1>10, <1>11,
     <1>12, <1>13, <1>14, <1>15, <1>16, <1>17, <1>18, <1>19, <1>20, <1>21,
     <1>22, <1>23, <1>24, <1>25, <1>26, <1>27, <1>28, <1>29 DEF Next,
     BusStarts, BusContinues, WorkerContinues, RemovalContinues

\* Nobody takes the operation being published out of the tables.
LEMMA ListingStep == RemovalThread = "bus" /\ TypeOK /\ Handles /\ Stack /\ Turns /\ Stopping /\ Owned /\ Once /\ Tables /\ Noted /\ Listing /\ [Next]_vars => Listing'
<1> SUFFICES ASSUME RemovalThread = "bus" /\ TypeOK /\ Handles /\ Stack /\ Turns /\ Stopping /\ Owned /\ Once /\ Tables /\ Noted /\ Listing, [Next]_vars PROVE Listing'
  BY Zenon
<1>1. CASE (\E o \in Op : Cancel(o)) \/ (\E w \in Worker : StartHolderIo(w)) \/
     (\E w \in Worker : HolderIoReturns(w)) \/ (\E w \in Worker : PopOp(w))
     \/ (\E w \in Worker : DoWorkReturns(w)) \/ (\E w \in Worker :
     WatchdogFires(w)) \/ (\E w \in Worker : ClearInFlight(w)) \/ (\E w \in
     Worker : ReadAbandoned(w)) \/ (\E w \in Worker : Park(w)) \/ (\E w \in
     Worker : TakeQueue(w)) \/ (\E w \in Worker : DropDoomed(w)) \/
     TakeWorker \/ RequestStop \/ DrainQueue \/ FinishDoomed \/
     ReadInFlight \/ Detach \/ JoinWorker \/ DestroySwept \/ UNCHANGED vars
  <2>1. UNCHANGED <<bpc, bop, bdoomed, gone, byId, senderToOps>>
    BY <1>1, Zenon DEF Cancel, StartHolderIo, WorkerFrame, HolderIoReturns,
       PopOp, DoWorkReturns, WatchdogFires, ClearInFlight, ReadAbandoned,
       Park, TakeQueue, DropDoomed, TakeWorker, RemoveFrame, RequestStop,
       DrainQueue, FinishDoomed, ReadInFlight, Detach, JoinWorker,
       DestroySwept, vars, tableVars, busVars
  <2> QED
    BY Zenon, <2>1 DEF Listing, Publishing
<1>2. ASSUME NEW o \in Op, WorkerFor(o) PROVE Listing'
  BY Zenon, <1>2 DEF WorkerFor, BusFree, Listing
<1>3. CASE CheckBacklog
  BY Zenon, <1>3 DEF CheckBacklog, Listing, Publishing
<1>4. CASE RecordSender
  BY Zenon, <1>4 DEF RecordSender, Listing, Publishing
<1>5. CASE IndexById
  BY Zenon, <1>5 DEF IndexById, Listing, Publishing
<1>6. CASE PushOp
  BY Zenon, <1>6 DEF PushOp, Listing, Publishing
<1>7. CASE PushProbe
  BY <1>7, SMTT(30) DEF PushProbe, Listing, Publishing
<1>8. CASE BusUnref
  <2>1. loc' = loc
    BY Zenon, <1>8, NoLateFree
  <2> QED
    BY <1>8, SMTT(30) DEF BusUnref, Listing, Publishing
<1>9. ASSUME NEW c \in Caller, TakeSenderOps(c) PROVE Listing'
  BY Zenon, <1>9 DEF TakeSenderOps, Listing, Publishing
<1>10. CASE CancelTaken
  BY Zenon, <1>10 DEF CancelTaken, Listing, Publishing
<1>11. ASSUME NEW w \in Worker, ScrubOne(w) PROVE Listing'
  BY Zenon, <1>11 DEF ScrubOne, WorkerFrame, Forget, Listing, Publishing, Owned,
     busVars
<1>12. CASE ScrubDoomed
  BY Zenon, <1>12 DEF ScrubDoomed, RemoveFrame, Forget, Listing, Publishing, Owned,
     busVars
<1>13. CASE ForgetInFlight
  BY Zenon, <1>13 DEF ForgetInFlight, RemoveFrame, Listing, Publishing, Turns,
     busVars
<1>14. CASE SweepFinished
  BY Zenon, <1>14, QueueFacts DEF SweepFinished, Forget, Listing, Publishing, Owned,
     TypeOK, busVars
<1>15. CASE Close
  BY Zenon, <1>15 DEF Close, Listing, Publishing, busVars
<1> QED
  BY Zenon, <1>1, <1>2, <1>3, <1>4, <1>5, <1>6, <1>7, <1>8, <1>9, <1>10, <1>11,
     <1>12, <1>13, <1>14, <1>15 DEF Next, BusStarts, BusContinues,
     WorkerContinues, RemovalContinues

\* An operation leaves the tables when its client goes, when it is cancelled or when it is over.
LEMMA ReachableStep == RemovalThread = "bus" /\ TypeOK /\ Handles /\ Stack /\ Turns /\ Stopping /\ Owned /\ Once /\ Tables /\ Noted /\ Listing /\ Reachable /\ DisconnectReachesAll /\ [Next]_vars => Reachable'
<1> SUFFICES ASSUME RemovalThread = "bus" /\ TypeOK /\ Handles /\ Stack /\ Turns /\ Stopping /\ Owned /\ Once /\ Tables /\ Noted /\ Listing /\ Reachable /\ DisconnectReachesAll, [Next]_vars PROVE Reachable'
  BY Zenon
<1>1. CASE (\E o \in Op : WorkerFor(o)) \/ (\E w \in Worker : StartHolderIo(w))
     \/ (\E w \in Worker : HolderIoReturns(w)) \/ (\E w \in Worker :
     DoWorkReturns(w)) \/ (\E w \in Worker : ClearInFlight(w)) \/
     TakeWorker \/ RequestStop \/ ReadInFlight \/ Detach \/ UNCHANGED vars
  <2>1. UNCHANGED <<loc, cancelled, byId, senderToOps, gone, closed>>
    BY <1>1, Zenon DEF WorkerFor, StartHolderIo, WorkerFrame, HolderIoReturns,
       DoWorkReturns, ClearInFlight, TakeWorker, RemoveFrame, RequestStop,
       ReadInFlight, Detach, vars, opVars, tableVars, busVars
  <2> QED
    BY ZenonT(30), <2>1 DEF Reachable
<1>2. CASE CheckBacklog
  BY Zenon, <1>2 DEF CheckBacklog, Reachable, Place, tableVars
<1>3. CASE RecordSender
  BY Zenon, <1>3 DEF RecordSender, Reachable, opVars
<1>4. CASE IndexById
  BY Zenon, <1>4 DEF IndexById, Reachable, opVars
<1>5. CASE PushOp
  BY Zenon, <1>5 DEF PushOp, Reachable, Listing, Place, tableVars
<1>6. CASE PushProbe
  BY Zenon, <1>6 DEF PushProbe, Reachable, Listing, Place, tableVars
<1>7. CASE BusUnref
  <2>1. loc' = loc
    BY Zenon, <1>7, NoLateFree
  <2> QED
    BY Zenon, <1>7, <2>1 DEF BusUnref, Reachable, tableVars
<1>8. ASSUME NEW o \in Op, Cancel(o) PROVE Reachable'
  BY Zenon, <1>8 DEF Cancel, Reachable, tableVars, busVars
<1>9. ASSUME NEW c \in Caller, TakeSenderOps(c) PROVE Reachable'
  BY Zenon, <1>9 DEF TakeSenderOps, Reachable, opVars
<1>10. CASE CancelTaken
  BY Zenon, <1>10 DEF CancelTaken, Reachable, tableVars
<1>11. ASSUME NEW w \in Worker, PopOp(w) PROVE Reachable'
  <2>1. UNCHANGED <<byId, opToSender, senderToOps, gone, cancelled, closed>>
    BY Zenon, <1>11 DEF PopOp, WorkerFrame, tableVars, busVars
  <2>2. \A o \in Op : loc'[o] \in {"queue", "worker"} => loc[o] \in {"queue", "worker"}
    BY Zenon, <1>11, PopFacts
  <2> QED
    BY Zenon, <2>1, <2>2 DEF Reachable
<1>12. ASSUME NEW w \in Worker, WatchdogFires(w) PROVE Reachable'
  BY Zenon, <1>12 DEF WatchdogFires, WorkerFrame, Reachable, tableVars, busVars
<1>13. ASSUME NEW w \in Worker, ReadAbandoned(w) PROVE Reachable'
  BY Zenon, <1>13 DEF ReadAbandoned, WorkerFrame, Reachable, Place, tableVars,
     busVars
<1>14. ASSUME NEW w \in Worker, Park(w) PROVE Reachable'
  BY Zenon, <1>14 DEF Park, WorkerFrame, Reachable, Place, tableVars, busVars
<1>15. ASSUME NEW w \in Worker, TakeQueue(w) PROVE Reachable'
  BY Zenon, <1>15 DEF TakeQueue, WorkerFrame, Reachable, Place, tableVars, busVars
<1>16. ASSUME NEW w \in Worker, ScrubOne(w) PROVE Reachable'
  BY Zenon, <1>16 DEF ScrubOne, WorkerFrame, Forget, Reachable, Owned, opVars,
     busVars
<1>17. ASSUME NEW w \in Worker, DropDoomed(w) PROVE Reachable'
  BY Zenon, <1>17 DEF DropDoomed, WorkerFrame, Reachable, Place, tableVars, busVars
<1>18. CASE DrainQueue
  BY Zenon, <1>18 DEF DrainQueue, RemoveFrame, Reachable, Place, tableVars, busVars
<1>19. CASE ScrubDoomed
  BY Zenon, <1>19 DEF ScrubDoomed, RemoveFrame, Forget, Reachable, Owned, opVars,
     busVars
<1>20. CASE FinishDoomed
  BY Zenon, <1>20 DEF FinishDoomed, RemoveFrame, Reachable, Place, tableVars, busVars
<1>21. CASE ForgetInFlight
  BY Zenon, <1>21 DEF ForgetInFlight, RemoveFrame, Forget, Reachable, Noted, opVars,
     busVars
<1>22. CASE JoinWorker
  <2>1. loc' = loc
    BY Zenon, <1>22, NoLateFree
  <2> QED
    BY Zenon, <1>22, <2>1 DEF JoinWorker, RemoveFrame, Reachable, busVars, tableVars
<1>23. CASE SweepFinished
  BY Zenon, <1>23, QueueFacts DEF SweepFinished, Forget, Reachable, Owned, TypeOK,
     opVars, busVars
<1>24. CASE DestroySwept
  BY Zenon, <1>24 DEF DestroySwept, Reachable, Place, tableVars, busVars
<1>25. CASE Close
  BY Zenon, <1>25 DEF Close, Reachable
<1> QED
  BY Zenon, <1>1, <1>2, <1>3, <1>4, <1>5, <1>6, <1>7, <1>8, <1>9, <1>10, <1>11,
     <1>12, <1>13, <1>14, <1>15, <1>16, <1>17, <1>18, <1>19, <1>20, <1>21,
     <1>22, <1>23, <1>24, <1>25 DEF Next, BusStarts, BusContinues,
     WorkerContinues, RemovalContinues

\* The dispatch's list is complete, and a name it no longer finds is over.
LEMMA DisconnectStep == RemovalThread = "bus" /\ TypeOK /\ Handles /\ Stack /\ Turns /\ Stopping /\ Owned /\ Once /\ Tables /\ Noted /\ Listing /\ Reachable /\ DisconnectReachesAll /\ [Next]_vars => DisconnectReachesAll'
<1> SUFFICES ASSUME RemovalThread = "bus" /\ TypeOK /\ Handles /\ Stack /\ Turns /\ Stopping /\ Owned /\ Once /\ Tables /\ Noted /\ Listing /\ Reachable /\ DisconnectReachesAll, [Next]_vars PROVE DisconnectReachesAll'
  BY Zenon
<1>1. CASE (\E o \in Op : WorkerFor(o)) \/ RecordSender \/ IndexById \/ (\E w \in
     Worker : StartHolderIo(w)) \/ (\E w \in Worker : HolderIoReturns(w))
     \/ (\E w \in Worker : ClearInFlight(w)) \/ (\E w \in Worker :
     ScrubOne(w)) \/ TakeWorker \/ RequestStop \/ ScrubDoomed \/
     ReadInFlight \/ ForgetInFlight \/ Detach \/ SweepFinished \/ UNCHANGED
     vars
  <2>1. UNCHANGED <<loc, cancelled, gone, bdoomed, terminal>>
    BY Zenon, <1>1 DEF WorkerFor, BusFree, RecordSender, IndexById, StartHolderIo,
       WorkerFrame, HolderIoReturns, ClearInFlight, ScrubOne, TakeWorker,
       RemoveFrame, RequestStop, ScrubDoomed, ReadInFlight, ForgetInFlight,
       Detach, SweepFinished, vars, opVars, busVars
  <2> QED
    BY Zenon, <2>1 DEF DisconnectReachesAll
<1>2. CASE CheckBacklog
  BY Zenon, <1>2 DEF CheckBacklog, DisconnectReachesAll, Place
<1>3. CASE PushOp
  BY Zenon, <1>3 DEF PushOp, DisconnectReachesAll, Listing, Publishing, Place
<1>4. CASE PushProbe
  BY Zenon, <1>4 DEF PushProbe, DisconnectReachesAll, Listing, Place
<1>5. CASE BusUnref
  <2>1. loc' = loc
    BY Zenon, <1>5, NoLateFree
  <2> QED
    BY Zenon, <1>5, <2>1 DEF BusUnref, DisconnectReachesAll
<1>6. ASSUME NEW o \in Op, Cancel(o) PROVE DisconnectReachesAll'
  BY Zenon, <1>6 DEF Cancel, DisconnectReachesAll, busVars
<1>7. ASSUME NEW c \in Caller, TakeSenderOps(c) PROVE DisconnectReachesAll'
  BY Zenon, <1>7 DEF TakeSenderOps, BusFree, OpsOf, DisconnectReachesAll, Reachable,
     Listing, opVars
<1>8. CASE CancelTaken
  BY Zenon, <1>8 DEF CancelTaken, DisconnectReachesAll, Reachable, Turns
<1>9. ASSUME NEW w \in Worker, PopOp(w) PROVE DisconnectReachesAll'
  <2>1. UNCHANGED <<bdoomed, gone, cancelled, terminal>>
    BY Zenon, <1>9 DEF PopOp, WorkerFrame, busVars
  <2>2. \A o \in Op : loc'[o] \in {"queue", "worker"} => loc[o] \in {"queue", "worker"}
    BY Zenon, <1>9, PopFacts
  <2> QED
    BY Zenon, <2>1, <2>2 DEF DisconnectReachesAll
<1>10. ASSUME NEW w \in Worker, DoWorkReturns(w) PROVE DisconnectReachesAll'
  BY Zenon, <1>10 DEF DoWorkReturns, WorkerFrame, DisconnectReachesAll, Finish,
     busVars
<1>11. ASSUME NEW w \in Worker, WatchdogFires(w) PROVE DisconnectReachesAll'
  <2>1. UNCHANGED <<bdoomed, gone, loc>> /\ cancelled \subseteq cancelled'
    BY Zenon, <1>11 DEF WatchdogFires, WorkerFrame, busVars
  <2>2. \A o \in Op : terminal[o] # "none" => terminal'[o] # "none"
    BY Zenon, <1>11 DEF WatchdogFires, Finish
  <2> QED
    BY Zenon, <2>1, <2>2 DEF DisconnectReachesAll
<1>12. ASSUME NEW w \in Worker, ReadAbandoned(w) PROVE DisconnectReachesAll'
  <2>1. UNCHANGED <<bdoomed, gone, cancelled, terminal>>
    BY Zenon, <1>12 DEF ReadAbandoned, WorkerFrame, busVars
  <2>2. \A o \in Op : loc'[o] \in {"queue", "worker"} => loc[o] \in {"queue", "worker"}
    BY Zenon, <1>12 DEF ReadAbandoned, Place
  <2> QED
    BY Zenon, <2>1, <2>2 DEF DisconnectReachesAll
<1>13. ASSUME NEW w \in Worker, Park(w) PROVE DisconnectReachesAll'
  <2>1. UNCHANGED <<bdoomed, gone, cancelled, terminal>>
    BY Zenon, <1>13 DEF Park, WorkerFrame, busVars
  <2>2. \A o \in Op : loc'[o] \in {"queue", "worker"} => loc[o] \in {"queue", "worker"}
    BY Zenon, <1>13 DEF Park, Place
  <2> QED
    BY Zenon, <2>1, <2>2 DEF DisconnectReachesAll
<1>14. ASSUME NEW w \in Worker, TakeQueue(w) PROVE DisconnectReachesAll'
  BY Zenon, <1>14 DEF TakeQueue, WorkerFrame, DisconnectReachesAll, Place, busVars
<1>15. ASSUME NEW w \in Worker, DropDoomed(w) PROVE DisconnectReachesAll'
  BY Zenon, <1>15 DEF DropDoomed, WorkerFrame, DisconnectReachesAll, Place,
     FinishCardRemoved, Finish, busVars
<1>16. CASE DrainQueue
  BY Zenon, <1>16 DEF DrainQueue, RemoveFrame, DisconnectReachesAll, Place, busVars
<1>17. CASE FinishDoomed
  BY Zenon, <1>17 DEF FinishDoomed, RemoveFrame, DisconnectReachesAll, Place,
     FinishCardRemoved, Finish, busVars
<1>18. CASE JoinWorker
  <2>1. loc' = loc
    BY Zenon, <1>18, NoLateFree
  <2> QED
    BY Zenon, <1>18, <2>1 DEF JoinWorker, RemoveFrame, DisconnectReachesAll, busVars
<1>19. CASE DestroySwept
  BY Zenon, <1>19 DEF DestroySwept, DisconnectReachesAll, Place, busVars
<1>20. CASE Close
  BY Zenon, <1>20 DEF Close, DisconnectReachesAll, Place, busVars
<1> QED
  BY Zenon, <1>1, <1>2, <1>3, <1>4, <1>5, <1>6, <1>7, <1>8, <1>9, <1>10, <1>11,
     <1>12, <1>13, <1>14, <1>15, <1>16, <1>17, <1>18, <1>19, <1>20 DEF Next,
     BusStarts, BusContinues, WorkerContinues, RemovalContinues

\* The initial state satisfies the invariant.
LEMMA InitInv == Init => IInv
<1> SUFFICES ASSUME Init PROVE IInv
  BY Zenon
<1>1. TypeOK /\ Handles /\ Stack /\ RoomInv
  BY Zenon, InitTypes
<1>2. Turns /\ Stopping
  BY DEF Init, Turns, Stopping, None
<1>4. Owned /\ Once
  BY Zenon, EmptyQueue DEF Init, Owned, Once
<1>5. Tables /\ Noted /\ Listing
  BY Zenon DEF Init, Tables, Noted, Listed, Listing
<1>6. Reachable /\ DisconnectReachesAll
  BY Zenon DEF Init, Reachable, DisconnectReachesAll
<1> QED
  BY Zenon, <1>1, <1>2, <1>4, <1>5, <1>6 DEF IInv

\* With removals on the bus thread every action preserves the invariant.
LEMMA StepInv == RemovalThread = "bus" /\ IInv /\ [Next]_vars => IInv'
<1> SUFFICES ASSUME RemovalThread = "bus", IInv, [Next]_vars PROVE IInv'
  BY Zenon
<1>1. TypeOK' /\ Handles' /\ Stack' /\ RoomInv'
  BY Zenon, TypeStep, HandlesStep, StackStep, RoomStep DEF IInv
<1>2. Turns' /\ Stopping' /\ Owned' /\ Once'
  BY Zenon, TurnsStep, StoppingStep, OwnedStep, OnceStep DEF IInv
<1>3. Tables' /\ Noted' /\ Listing'
  BY Zenon, TablesStep, NotedStep, ListingStep DEF IInv
<1>4. Reachable' /\ DisconnectReachesAll'
  BY Zenon, ReachableStep, DisconnectStep DEF IInv
<1> QED
  BY Zenon, <1>1, <1>2, <1>3, <1>4 DEF IInv

\* With removals on the bus thread no tracking table ever names a destroyed
\* operation, for any number of operations, clients and workers: cancel() and
\* the client-disconnect dispatch never reach one.
THEOREM TablesNameLiveOperations ==
    ASSUME RemovalThread = "bus" PROVE Spec => []NoStaleEntry
<1>1. IInv /\ [Next]_vars => IInv'
  BY Zenon, StepInv
<1>2. IInv => NoStaleEntry
  BY Zenon DEF IInv, Tables, Listed, NoStaleEntry
<1> QED
  BY InitInv, <1>1, <1>2, PTL DEF Spec

\* With removals on the bus thread a client's disconnect reaches every
\* operation of it that is not over, for any number of them.
THEOREM DisconnectCancelsAll ==
    ASSUME RemovalThread = "bus" PROVE Spec => []DisconnectReachesAll
<1>1. IInv /\ [Next]_vars => IInv'
  BY Zenon, StepInv
<1>2. IInv => DisconnectReachesAll
  BY Zenon DEF IInv
<1> QED
  BY InitInv, <1>1, <1>2, PTL DEF Spec

=============================================================================
