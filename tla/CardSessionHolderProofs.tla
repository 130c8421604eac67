----------------------- MODULE CardSessionHolderProofs ----------------------
(***************************************************************************)
(* CardSessionHolder's safety properties for any number of cards and jobs. *)
(*                                                                         *)
(* The argument: a card taken off the model is never in the reader again,  *)
(* so nothing opens it any more, and a connection that is still open to it *)
(* is one the removal hook has asked, or is about to ask, the worker to    *)
(* close.  The worker takes that request before a job, and a job is queued *)
(* for the new card only after the hook has made it.                       *)
(***************************************************************************)
EXTENDS CardSessionHolder, TLAPS

\* Cards the model exported and has taken off again.
Gone == shown \ {exported}

Closing == pending \/ wpc = "invalidate"

\* No connection to a card shown before c.
Fits(c) ==
    /\ session.card \in shown => session.card >= c
    /\ parked.card \in shown => parked.card >= c

CardsInv ==
    /\ card \in {0, inserted} /\ exported <= inserted /\ shown \subseteq 1..inserted
    /\ card \in shown => card = exported
    /\ session.card <= inserted /\ parked.card <= inserted

\* The holder's invariant: at most one connection, with what belongs to it.
ConnInv ==
    /\ OneConnection /\ ParkedIsClean /\ ResolutionFitsSession
    /\ session = None => preRead = 0
    /\ session.card = 0 => session = None
    /\ wpc \in {"run", "put"} => session.card # 0

JobsInv ==
    /\ wpc \in {"acquire", "run", "put"} => job.card \in 1..inserted /\ Fits(job.card)
    /\ \A i \in 1..Len(queue) :
          queue[i].card \in 1..inserted /\ (Fits(queue[i].card) \/ Closing)
    /\ mpc = "idle" /\ (session.card \in Gone \/ parked.card \in Gone) => Closing

CacheInv ==
    /\ wpc = "put" => session.card >= job.card
    /\ \A c \in 1..MaxCards : cache[c] # 0 => c <= cache[c] /\ cache[c] <= inserted

HoldInv ==
    /\ HoldFollowsFlag
    /\ wpc \in {"hold", "sweepHold"} => hold \/ holdDirty

IInv == TypeOK /\ CardsInv /\ ConnInv /\ JobsInv /\ CacheInv /\ HoldInv

\* What is left of a sequence when its head is taken.
LEMMA HeadTail ==
    ASSUME NEW S, NEW q \in Seq(S), q # <<>>
    PROVE  /\ Head(q) = q[1] /\ Head(q) \in S /\ Tail(q) \in Seq(S)
           /\ Len(q) \in Nat \ {0} /\ Len(Tail(q)) = Len(q) - 1
           /\ \A i \in 1..Len(q) - 1 : Tail(q)[i] = q[i + 1]
OBVIOUS

\* Every action keeps the variables in their types.
LEMMA TypeStep == TypeOK /\ [Next]_vars => TypeOK'
<1> SUFFICES ASSUME TypeOK, [Next]_vars PROVE TypeOK'
  BY Zenon
<1>1. CASE UNCHANGED vars
  BY <1>1, BoundsAssumption DEF TypeOK, vars, monVars, flagVars, queueVars,
     holderVars, secretVars
<1>2. CASE Insert
  BY <1>2, BoundsAssumption DEF Insert, NextId, TypeOK, Connection, Bare,
     None, Job, NoJob, vars, monVars, flagVars, queueVars, holderVars,
     secretVars
<1>3. CASE Withdraw
  BY <1>3, BoundsAssumption DEF Withdraw, TypeOK, Connection, Bare, None, Job,
     NoJob, vars, monVars, flagVars, queueVars, holderVars, secretVars
<1>4. CASE CardInserted
  BY <1>4, BoundsAssumption DEF CardInserted, KeyRemoved, TypeOK, Connection,
     Bare, None, Job, NoJob, vars, monVars, flagVars, queueVars, holderVars,
     secretVars
<1>5. CASE CardRemoved
  BY <1>5, BoundsAssumption DEF CardRemoved, KeyRemoved, TypeOK, Connection,
     Bare, None, Job, NoJob, vars, monVars, flagVars, queueVars, holderVars,
     secretVars
<1>6. CASE ScrubCaches
  <2>1. 0 \in 0..MaxCards
    BY BoundsAssumption
  <2>2. cache' \in [1..MaxCards -> 0..MaxCards]
    BY Zenon, <1>6, <2>1 DEF ScrubCaches, TypeOK
  <2> QED
    BY Zenon, <1>6, <2>2 DEF ScrubCaches, TypeOK, flagVars, queueVars, holderVars, secretVars
<1>7. CASE ReleaseReader
  BY Zenon, <1>7, BoundsAssumption DEF ReleaseReader, SetReaderHold, TypeOK,
     Connection, Bare, None, Job, NoJob, vars, monVars, flagVars, queueVars,
     holderVars, secretVars
<1>8. CASE InvalidateReader
  BY <1>8, BoundsAssumption DEF InvalidateReader, TypeOK, Connection, Bare,
     None, Job, NoJob, vars, monVars, flagVars, queueVars, holderVars,
     secretVars
<1>9. ASSUME NEW probe \in BOOLEAN, Enqueue(probe) PROVE TypeOK'
  BY <1>9, BoundsAssumption DEF Enqueue, TypeOK, Connection, Bare, None, Job,
     NoJob, vars, monVars, flagVars, queueVars, holderVars, secretVars
<1>10. CASE HoldReader
  BY Zenon, <1>10, BoundsAssumption DEF HoldReader, SetReaderHold, TypeOK,
     Connection, Bare, None, Job, NoJob, vars, monVars, flagVars, queueVars,
     holderVars, secretVars
<1>11. CASE Quiesce
  BY <1>11, BoundsAssumption DEF Quiesce, TypeOK, Connection, Bare, None, Job,
     NoJob, vars, monVars, flagVars, queueVars, holderVars, secretVars
<1>12. CASE WakeUp
  <2>1. pending' \in BOOLEAN /\ holdDirty' \in BOOLEAN
    BY <1>12, Zenon DEF WakeUp
  <2>2. Due = "acquire" => queue # <<>>
    BY Zenon DEF Due
  <2>3. job' \in Job /\ queue' \in Seq(Job)
    <3>1. queue \in Seq(Job) /\ job \in Job
      BY Zenon DEF TypeOK
    <3>2. queue # <<>> => Head(queue) \in Job /\ Tail(queue) \in Seq(Job)
      BY Zenon, <3>1, HeadTail
    <3>3. \/ queue # <<>> /\ job' = Head(queue) /\ queue' = Tail(queue)
          \/ UNCHANGED <<job, queue>>
      BY Zenon, <1>12, <2>2 DEF WakeUp
    <3> QED
      BY Zenon, <3>1, <3>2, <3>3
  <2>4. wpc' \in {"invalidate", "hold", "release", "sweep", "sweepHold", "acquire"}
    BY Zenon, <1>12 DEF WakeUp, Due
  <2> QED
    BY Zenon, <1>12, <2>1, <2>3, <2>4
    DEF WakeUp, TypeOK, monVars, holderVars, secretVars
<1>13. CASE Tick
  BY Zenon, <1>13 DEF Tick, TypeOK, monVars, flagVars, queueVars, secretVars
<1>14. CASE DoInvalidate
  BY <1>14, BoundsAssumption DEF DoInvalidate, WorkerFrame, Invalidate,
     EraseCredentials, TypeOK, Connection, Bare, None, Job, NoJob, vars,
     monVars, flagVars, queueVars, holderVars, secretVars
<1>15. CASE DoHold
  BY <1>15, BoundsAssumption DEF DoHold, WorkerFrame, AcquireHold,
     NoConnection, TypeOK, Connection, Bare, None, Job, NoJob, vars, monVars,
     flagVars, queueVars, holderVars, secretVars
<1>16. CASE DoRelease
  BY <1>16, BoundsAssumption DEF DoRelease, WorkerFrame, TypeOK, Connection,
     Bare, None, Job, NoJob, vars, monVars, flagVars, queueVars, holderVars,
     secretVars
<1>17. CASE Sweep
  BY <1>17, BoundsAssumption DEF Sweep, WorkerFrame, Demote, Invalidate,
     EraseCredentials, Emptied, SweepEmpty, AcquireHold, NoConnection, TypeOK,
     Connection, Bare, None, Job, NoJob, vars, monVars, flagVars, queueVars,
     holderVars, secretVars
<1>18. CASE Reuse
  BY Zenon, <1>18, BoundsAssumption DEF Reuse, WorkerFrame, TypeOK, Connection, Bare,
     None, Job, NoJob, vars, monVars, flagVars, queueVars, holderVars,
     secretVars
<1>19. CASE Promote
  BY Zenon, <1>19, BoundsAssumption DEF Promote, Commit, WorkerFrame, TypeOK,
     Connection, Bare, None, Job, NoJob, vars, monVars, flagVars, queueVars,
     holderVars, secretVars
<1>20. CASE Open
  BY Zenon, <1>20, BoundsAssumption DEF Open, Commit, WorkerFrame, TypeOK,
     Connection, Bare, None, Job, NoJob, vars, monVars, flagVars, queueVars,
     holderVars, secretVars
<1>21. CASE AcquireFails
  BY Zenon, <1>21, BoundsAssumption DEF AcquireFails, WorkerFrame, TypeOK,
     Connection, Bare, None, Job, NoJob, vars, monVars, flagVars, queueVars,
     holderVars, secretVars
<1>22. CASE Resolve
  <2>1. preRead' \in 0..MaxCards
    BY <1>22, BoundsAssumption
    DEF Resolve, Invalidate, EraseCredentials, TypeOK, Connection
  <2>2. stash' \in BOOLEAN
    BY Zenon, <1>22 DEF Resolve, Invalidate, EraseCredentials, TypeOK
  <2>3. /\ session' \in Connection /\ parked' \in Connection
        /\ candidates' \in 0..MaxCards /\ job' \in Job
    BY <1>22, BoundsAssumption
    DEF Resolve, Invalidate, EraseCredentials, TypeOK, Connection, Bare, None,
        Job, NoJob
  <2> QED
    BY Zenon, <1>22, <2>1, <2>2, <2>3
    DEF Resolve, WorkerFrame, TypeOK, monVars, flagVars, queueVars
<1>23. CASE ReadCard
  BY Zenon, <1>23, BoundsAssumption DEF ReadCard, WorkerFrame, TypeOK, Connection,
     Bare, None, Job, NoJob, vars, monVars, flagVars, queueVars, holderVars,
     secretVars
<1>24. CASE PutRead
  <2>1. session.card \in 0..MaxCards
    BY Zenon DEF TypeOK, Connection
  <2>2. cache' \in [1..MaxCards -> 0..MaxCards]
    BY Zenon, <1>24, <2>1 DEF PutRead, TypeOK
  <2>3. job' \in Job
    BY <1>24, BoundsAssumption DEF PutRead, NoJob, Job
  <2> QED
    BY Zenon, <1>24, <2>2, <2>3 DEF PutRead, WorkerFrame, TypeOK, monVars, flagVars,
       queueVars, holderVars, secretVars
<1>25. CASE OpEnds
  BY SMTT(30), <1>25, BoundsAssumption DEF OpEnds, WorkerFrame, TypeOK, Connection,
     Bare, None, Job, NoJob, vars, monVars, flagVars, queueVars, holderVars,
     secretVars
<1>26. CASE ServeCached
  BY <1>26, BoundsAssumption DEF ServeCached, WorkerFrame, TypeOK, Connection,
     Bare, None, Job, NoJob, vars, monVars, flagVars, queueVars, holderVars,
     secretVars
<1>27. ASSUME NEW s \in {"pace", "channel"}, KeepOnSession(s) PROVE TypeOK'
  BY Zenon, <1>27, BoundsAssumption DEF KeepOnSession, WorkerFrame, TypeOK,
     Connection, Bare, None, Job, NoJob, vars, monVars, flagVars, queueVars,
     holderVars, secretVars
<1>28. ASSUME NEW kept \in BOOLEAN, DepositInPlugin(kept) PROVE TypeOK'
  BY Zenon, <1>28, BoundsAssumption DEF DepositInPlugin, WorkerFrame, TypeOK,
     Connection, Bare, None, Job, NoJob, vars, monVars, flagVars, queueVars,
     holderVars, secretVars
<1> QED
  BY Zenon, <1>1, <1>2, <1>3, <1>4, <1>5, <1>6, <1>7, <1>8, <1>9, <1>10, <1>11,
     <1>12, <1>13, <1>14, <1>15, <1>16, <1>17, <1>18, <1>19, <1>20, <1>21,
     <1>22, <1>23, <1>24, <1>25, <1>26, <1>27, <1>28 DEF Next, Monitor,
     Holder, Running

\* Cards are numbered as they come, and a card taken off does not return.
LEMMA CardsStep == IInv /\ TypeOK' /\ [Next]_vars => CardsInv'
<1> SUFFICES ASSUME IInv /\ TypeOK', [Next]_vars PROVE CardsInv'
  BY Zenon
<1>1. CASE ScrubCaches \/ ReleaseReader \/ InvalidateReader \/ HoldReader \/
   Quiesce \/ (\E probe \in BOOLEAN : Enqueue(probe)) \/ WakeUp \/ Tick \/
   Reuse \/ ReadCard \/ PutRead \/ OpEnds \/ ServeCached \/ (\E kept \in
   BOOLEAN : DepositInPlugin(kept)) \/ UNCHANGED vars
  BY Zenon, <1>1, BoundsAssumption DEF ScrubCaches, ReleaseReader, InvalidateReader,
     HoldReader, Quiesce, Enqueue, WakeUp, Tick, Reuse, ReadCard, PutRead,
     OpEnds, ServeCached, DepositInPlugin, SetReaderHold, Due, WorkerFrame,
     CardKey, IInv, CardsInv, vars, monVars, flagVars, queueVars, holderVars,
     secretVars
<1>2. CASE Insert
  BY <1>2, BoundsAssumption DEF Insert, NextId, IInv, TypeOK, CardsInv,
     Connection, Bare, None, vars, monVars, flagVars, queueVars, holderVars,
     secretVars
<1>3. CASE Withdraw
  BY <1>3, BoundsAssumption DEF Withdraw, IInv, TypeOK, CardsInv, Connection,
     Bare, None, vars, monVars, flagVars, queueVars, holderVars, secretVars
<1>4. CASE CardInserted
  BY <1>4, BoundsAssumption DEF CardInserted, KeyRemoved, IInv, TypeOK,
     CardsInv, Connection, Bare, None, vars, monVars, flagVars, queueVars,
     holderVars, secretVars
<1>5. CASE CardRemoved
  BY <1>5, BoundsAssumption DEF CardRemoved, KeyRemoved, IInv, TypeOK,
     CardsInv, Connection, Bare, None, vars, monVars, flagVars, queueVars,
     holderVars, secretVars
<1>6. CASE DoInvalidate
  BY <1>6, BoundsAssumption DEF DoInvalidate, WorkerFrame, Invalidate,
     EraseCredentials, IInv, TypeOK, CardsInv, Connection, Bare, None, vars,
     monVars, flagVars, queueVars, holderVars, secretVars
<1>7. CASE DoHold
  BY <1>7, BoundsAssumption DEF DoHold, WorkerFrame, AcquireHold,
     NoConnection, IInv, TypeOK, CardsInv, Connection, Bare, None, vars,
     monVars, flagVars, queueVars, holderVars, secretVars
<1>8. CASE DoRelease
  BY <1>8, BoundsAssumption DEF DoRelease, WorkerFrame, IInv, TypeOK,
     CardsInv, Connection, Bare, None, vars, monVars, flagVars, queueVars,
     holderVars, secretVars
<1>9. CASE Sweep
  <2>1. /\ session'.card \in {0, session.card}
        /\ parked'.card \in {0, session.card, parked.card, card}
    BY <1>9 DEF Sweep, Demote, Invalidate, Emptied, SweepEmpty, AcquireHold, Bare, None
  <2>2. UNCHANGED <<card, inserted, exported, shown>>
    BY Zenon, <1>9 DEF Sweep, WorkerFrame, monVars
  <2>3. inserted \in Nat
    BY BoundsAssumption DEF IInv, TypeOK
  <2>4. session'.card <= inserted /\ parked'.card <= inserted
    BY <2>1, <2>3 DEF IInv, CardsInv
  <2> QED
    BY Zenon, <2>2, <2>4 DEF IInv, CardsInv
<1>10. CASE Promote
  BY Zenon, <1>10, BoundsAssumption DEF Promote, Commit, WorkerFrame, IInv, TypeOK,
     CardsInv, Connection, Bare, None, vars, monVars, flagVars, queueVars,
     holderVars, secretVars
<1>11. CASE Open
  BY <1>11, BoundsAssumption DEF Open, Commit, WorkerFrame, IInv, TypeOK,
     CardsInv, Connection, Bare, None, vars, monVars, flagVars, queueVars,
     holderVars, secretVars
<1>12. CASE AcquireFails
  BY Zenon, <1>12, BoundsAssumption DEF AcquireFails, WorkerFrame, IInv, TypeOK,
     CardsInv, Connection, Bare, None, vars, monVars, flagVars, queueVars,
     holderVars, secretVars
<1>13. CASE Resolve
  BY <1>13, BoundsAssumption DEF Resolve, WorkerFrame, Invalidate,
     EraseCredentials, IInv, TypeOK, CardsInv, Connection, Bare, None, vars,
     monVars, flagVars, queueVars, holderVars, secretVars
<1>14. ASSUME NEW s \in {"pace", "channel"}, KeepOnSession(s) PROVE CardsInv'
  BY Zenon, <1>14, BoundsAssumption DEF KeepOnSession, WorkerFrame, IInv, TypeOK,
     CardsInv, Connection, Bare, None, vars, monVars, flagVars, queueVars,
     holderVars, secretVars
<1> QED
  BY Zenon, <1>1, <1>2, <1>3, <1>4, <1>5, <1>6, <1>7, <1>8, <1>9, <1>10, <1>11,
     <1>12, <1>13, <1>14 DEF Next, Monitor, Holder, Running

\* The holder keeps one connection, and with it only what belongs to it.
LEMMA ConnStep == IInv /\ TypeOK' /\ [Next]_vars => ConnInv'
<1> SUFFICES ASSUME IInv /\ TypeOK', [Next]_vars PROVE ConnInv'
  BY Zenon
<1>1. CASE Insert \/ Withdraw \/ CardInserted \/ CardRemoved \/ UNCHANGED vars
  BY <1>1 DEF Insert, Withdraw, CardInserted, CardRemoved, NextId, KeyRemoved,
     IInv, ConnInv, OneConnection, ParkedIsClean, ResolutionFitsSession, vars,
     monVars, flagVars, queueVars, holderVars, secretVars
<1>2. CASE ScrubCaches \/ ReleaseReader \/ InvalidateReader \/ HoldReader \/
   Quiesce
  BY <1>2 DEF ScrubCaches, ReleaseReader, InvalidateReader, HoldReader,
     Quiesce, SetReaderHold, IInv, ConnInv, OneConnection, ParkedIsClean,
     ResolutionFitsSession, vars, monVars, flagVars, queueVars, holderVars,
     secretVars
<1>3. CASE ReadCard \/ PutRead \/ OpEnds \/ ServeCached
  BY <1>3 DEF ReadCard, PutRead, OpEnds, ServeCached, WorkerFrame, CardKey,
     IInv, ConnInv, OneConnection, ParkedIsClean, ResolutionFitsSession, vars,
     monVars, flagVars, queueVars, holderVars, secretVars
<1>4. ASSUME NEW probe \in BOOLEAN, Enqueue(probe) PROVE ConnInv'
  BY Zenon, <1>4 DEF Enqueue, IInv, TypeOK, CardsInv, ConnInv, OneConnection,
     ParkedIsClean, ResolutionFitsSession, Connection, Bare, None, vars,
     monVars, flagVars, queueVars, holderVars, secretVars
<1>5. CASE WakeUp
  BY Zenon, <1>5 DEF WakeUp, Due, IInv, TypeOK, CardsInv, ConnInv, OneConnection,
     ParkedIsClean, ResolutionFitsSession, Connection, Bare, None, vars,
     monVars, flagVars, queueVars, holderVars, secretVars
<1>6. CASE Tick
  BY Zenon, <1>6 DEF Tick, IInv, TypeOK, CardsInv, ConnInv, OneConnection,
     ParkedIsClean, ResolutionFitsSession, Connection, Bare, None, vars,
     monVars, flagVars, queueVars, holderVars, secretVars
<1>7. CASE DoInvalidate
  BY Zenon, <1>7 DEF DoInvalidate, WorkerFrame, Invalidate, EraseCredentials, IInv,
     TypeOK, CardsInv, ConnInv, OneConnection, ParkedIsClean,
     ResolutionFitsSession, Connection, Bare, None, vars, monVars, flagVars,
     queueVars, holderVars, secretVars
<1>8. CASE DoHold
  BY <1>8 DEF DoHold, WorkerFrame, AcquireHold, NoConnection, IInv, TypeOK,
     CardsInv, ConnInv, OneConnection, ParkedIsClean, ResolutionFitsSession,
     Connection, Bare, None, vars, monVars, flagVars, queueVars, holderVars,
     secretVars
<1>9. CASE DoRelease
  BY Zenon, <1>9 DEF DoRelease, WorkerFrame, IInv, TypeOK, CardsInv, ConnInv,
     OneConnection, ParkedIsClean, ResolutionFitsSession, Connection, Bare,
     None, vars, monVars, flagVars, queueVars, holderVars, secretVars
<1>10. CASE Sweep
  <2>1. wpc' = "loop" /\ session \in Connection /\ parked \in Connection
    BY Zenon, <1>10 DEF Sweep, IInv, TypeOK
  <2>2. CASE UNCHANGED <<session, parked, secretVars>>
    BY Zenon, <2>1, <2>2 DEF IInv, ConnInv, OneConnection, ParkedIsClean,
       ResolutionFitsSession, secretVars
  <2>3. CASE Invalidate
    BY Zenon, <2>1, <2>3 DEF Invalidate, EraseCredentials, IInv, TypeOK, ConnInv,
       OneConnection, ParkedIsClean, ResolutionFitsSession, Bare, None
  <2>4. CASE session # None /\ EraseCredentials /\ parked' = Emptied(session) /\ session' = None
    BY Zenon, <2>1, <2>4 DEF EraseCredentials, Emptied, IInv, TypeOK, ConnInv,
       OneConnection, ParkedIsClean, ResolutionFitsSession, Bare, None
  <2>5. CASE session = None /\ AcquireHold
    BY <2>1, <2>5 DEF AcquireHold, NoConnection, secretVars, IInv, ConnInv,
       OneConnection, ParkedIsClean, ResolutionFitsSession, Bare, None
  <2> QED
    BY Zenon, <1>10, <2>2, <2>3, <2>4, <2>5 DEF Sweep, Demote, SweepEmpty
<1>11. CASE Reuse
  BY Zenon, <1>11 DEF Reuse, WorkerFrame, IInv, TypeOK, CardsInv, ConnInv,
     OneConnection, ParkedIsClean, ResolutionFitsSession, Connection, Bare,
     None, vars, monVars, flagVars, queueVars, holderVars, secretVars
<1>12. CASE Promote
  BY Zenon, <1>12 DEF Promote, Commit, WorkerFrame, IInv, TypeOK, CardsInv, ConnInv,
     OneConnection, ParkedIsClean, ResolutionFitsSession, Connection, Bare,
     None, vars, monVars, flagVars, queueVars, holderVars, secretVars
<1>13. CASE Open
  BY Zenon, <1>13 DEF Open, Commit, WorkerFrame, IInv, TypeOK, CardsInv, ConnInv,
     OneConnection, ParkedIsClean, ResolutionFitsSession, Connection, Bare,
     None, vars, monVars, flagVars, queueVars, holderVars, secretVars
<1>14. CASE AcquireFails
  BY Zenon, <1>14 DEF AcquireFails, WorkerFrame, IInv, TypeOK, CardsInv, ConnInv,
     OneConnection, ParkedIsClean, ResolutionFitsSession, Connection, Bare,
     None, vars, monVars, flagVars, queueVars, holderVars, secretVars
<1>15. CASE Resolve
  BY <1>15 DEF Resolve, WorkerFrame, Invalidate, EraseCredentials, IInv,
     TypeOK, CardsInv, ConnInv, OneConnection, ParkedIsClean,
     ResolutionFitsSession, Connection, Bare, None, vars, monVars, flagVars,
     queueVars, holderVars, secretVars
<1>16. ASSUME NEW s \in {"pace", "channel"}, KeepOnSession(s) PROVE ConnInv'
  BY <1>16 DEF KeepOnSession, WorkerFrame, IInv, TypeOK, CardsInv, ConnInv,
     OneConnection, ParkedIsClean, ResolutionFitsSession, Connection, Bare,
     None, vars, monVars, flagVars, queueVars, holderVars, secretVars
<1>17. ASSUME NEW kept \in BOOLEAN, DepositInPlugin(kept) PROVE ConnInv'
  BY <1>17 DEF DepositInPlugin, WorkerFrame, IInv, TypeOK, CardsInv, ConnInv,
     OneConnection, ParkedIsClean, ResolutionFitsSession, Connection, Bare,
     None, vars, monVars, flagVars, queueVars, holderVars, secretVars
<1> QED
  BY Zenon, <1>1, <1>2, <1>3, <1>4, <1>5, <1>6, <1>7, <1>8, <1>9, <1>10, <1>11,
     <1>12, <1>13, <1>14, <1>15, <1>16, <1>17 DEF Next, Monitor, Holder,
     Running

\* A step of the holder that moves connections, or opens one to the card in the
\* reader, gives no job a connection to an older card.
LEMMA ConnectionsMove ==
    ASSUME IInv, UNCHANGED <<inserted, exported, shown, mpc, pending, queue>>,
           session'.card \in {0, card, session.card, parked.card},
           parked'.card \in {0, card, session.card, parked.card},
           Closing => Closing' \/ (session'.card = 0 /\ parked'.card = 0),
           wpc' \in {"acquire", "run", "put"} => wpc \in {"acquire", "run", "put"} /\ job' = job
    PROVE  JobsInv'
<1>1. 0 \notin shown /\ (card \in shown => card = exported /\ card = inserted)
  BY DEF IInv, CardsInv
<1>2. \A c \in 1..inserted : Fits(c) => Fits(c)'
  <2>1. \A c \in 1..inserted : inserted >= c
    BY DEF IInv, TypeOK
  <2> QED
    BY Zenon, <1>1, <2>1 DEF Fits
<1>3. session'.card = 0 /\ parked'.card = 0 => \A c : Fits(c)'
  BY Zenon, <1>1 DEF Fits
<1>4. session'.card \in Gone \/ parked'.card \in Gone => session.card \in Gone \/ parked.card \in Gone
  BY Zenon, <1>1 DEF Gone
<1>5. session'.card = 0 /\ parked'.card = 0 => session'.card \notin Gone /\ parked'.card \notin Gone
  BY Zenon, <1>1 DEF Gone
<1>6. Gone' = Gone
  BY Zenon DEF Gone
<1>7. wpc' \in {"acquire", "run", "put"} => (job.card \in 1..inserted /\ Fits(job.card))'
  BY Zenon, <1>2 DEF IInv, JobsInv
<1>8. \A i \in 1..Len(queue) : (queue[i].card \in 1..inserted /\ (Fits(queue[i].card) \/ Closing))'
  BY Zenon, <1>2, <1>3 DEF IInv, JobsInv
<1>9. mpc = "idle" /\ (session'.card \in Gone \/ parked'.card \in Gone) => Closing'
  BY Zenon, <1>4, <1>5 DEF IInv, JobsInv
<1> QED
  BY Zenon, <1>6, <1>7, <1>8, <1>9 DEF JobsInv

\* A stale connection is closed before a job for a newer card gets to it.
LEMMA JobsStep == IInv /\ TypeOK' /\ [Next]_vars => JobsInv'
<1> SUFFICES ASSUME IInv /\ TypeOK', [Next]_vars PROVE JobsInv'
  BY Zenon
<1>1. CASE Withdraw \/ ScrubCaches \/ ReleaseReader \/ InvalidateReader \/
   HoldReader \/ Quiesce \/ Tick \/ ReadCard \/ PutRead \/ OpEnds \/
   ServeCached \/ (\E kept \in BOOLEAN : DepositInPlugin(kept)) \/ UNCHANGED
   vars
  <2>1. UNCHANGED <<inserted, exported, shown, queue, session, parked>>
    BY Zenon, <1>1 DEF Withdraw, ScrubCaches, ReleaseReader, InvalidateReader, HoldReader,
       Quiesce, Tick, ReadCard, PutRead, OpEnds, ServeCached, DepositInPlugin, SetReaderHold,
       WorkerFrame, vars, monVars, flagVars, queueVars, holderVars
  <2>2. wpc' \in {"acquire", "run", "put"} => wpc \in {"acquire", "run", "put"} /\ job' = job
    BY Zenon, <1>1 DEF Withdraw, ScrubCaches, ReleaseReader, InvalidateReader, HoldReader,
       Quiesce, Tick, ReadCard, PutRead, OpEnds, ServeCached, DepositInPlugin,
       WorkerFrame, vars, queueVars
  <2>3. (Closing => Closing') /\ (mpc' = "idle" => mpc = "idle" \/ Closing')
    BY <1>1 DEF Withdraw, ScrubCaches, ReleaseReader, InvalidateReader, HoldReader,
       Quiesce, Tick, ReadCard, PutRead, OpEnds, ServeCached, DepositInPlugin, SetReaderHold,
       WorkerFrame, Closing, vars, monVars, flagVars, queueVars
  <2>4. \A c : Fits(c)' <=> Fits(c)
    BY Zenon, <2>1 DEF Fits
  <2> QED
    BY Zenon, <2>1, <2>2, <2>3, <2>4 DEF IInv, JobsInv, Gone
<1>2. CASE Insert
  <2>1. UNCHANGED <<exported, shown, mpc, pending, queue, wpc, job, session, parked>>
    BY Zenon, <1>2 DEF Insert, flagVars, queueVars, holderVars
  <2>2. inserted' = inserted + 1 /\ inserted \in Nat
    BY <1>2, BoundsAssumption DEF Insert, NextId, IInv, TypeOK
  <2>3. \A c : (c \in 1..inserted => c \in 1..inserted') /\ (Fits(c)' <=> Fits(c))
    BY <2>1, <2>2 DEF Fits
  <2>4. Closing' <=> Closing
    BY Zenon, <2>1 DEF Closing
  <2> QED
    BY Zenon, <2>1, <2>3, <2>4 DEF IInv, JobsInv, Gone
<1>3. CASE CardInserted \/ CardRemoved
  <2>1. UNCHANGED <<card, inserted, pending, queue, wpc, job, session, parked>>
    BY Zenon, <1>3 DEF CardInserted, CardRemoved, flagVars, queueVars, holderVars
  <2>2. mpc = "idle" /\ shown \subseteq shown' /\ shown' \subseteq shown \cup {card}
    BY Zenon, <1>3 DEF CardInserted, CardRemoved
  <2>3. /\ mpc' = "idle" => exported = 0
        /\ exported' = card \/ exported' = 0
        /\ card \in shown' => card \in shown \/ card = exported'
    BY Zenon, <1>3 DEF CardInserted, CardRemoved, KeyRemoved
  <2>4. /\ card \in {0, inserted} /\ exported \in Nat /\ inserted \in Nat
        /\ session.card \in Nat /\ parked.card \in Nat
        /\ session.card <= inserted /\ parked.card <= inserted
    BY BoundsAssumption DEF IInv, TypeOK, CardsInv, Connection, Bare
  <2>5. Closing' <=> Closing
    BY Zenon, <2>1 DEF Closing
  <2>6. \A c \in 1..inserted : Fits(c) => Fits(c)'
    <3> SUFFICES ASSUME NEW c \in 1..inserted, Fits(c) PROVE Fits(c)'
      BY Zenon
    <3>1. card \in 1..inserted => card >= c
      BY <2>4
    <3>2. 0 \notin shown'
      <4>1. 0 \notin shown
        BY DEF IInv, CardsInv
      <4>2. card = 0 => shown' = shown
        BY Zenon, <1>3 DEF CardInserted, CardRemoved
      <4> QED
        BY Zenon, <2>2, <4>1, <4>2
    <3>3. \A n \in shown' : n \in shown \/ (n = card /\ n >= c)
      BY <2>2, <2>4, <3>2
    <3> QED
      BY Zenon, <2>1, <3>3 DEF Fits
  <2>7. mpc' = "idle" /\ (session.card \in Gone' \/ parked.card \in Gone') => Closing'
    <3>1. mpc' = "idle" => Gone' \subseteq Gone
      BY <1>3, <2>3 DEF CardInserted, CardRemoved, Gone, IInv, CardsInv
    <3> QED
      BY Zenon, <2>2, <2>5, <3>1 DEF IInv, JobsInv
  <2> QED
    BY Zenon, <2>1, <2>5, <2>6, <2>7 DEF IInv, JobsInv
<1>5. ASSUME NEW probe \in BOOLEAN, Enqueue(probe) PROVE JobsInv'
  <2>1. UNCHANGED <<inserted, exported, shown, mpc, pending, wpc, job, session, parked>>
    BY Zenon, <1>5 DEF Enqueue, monVars, flagVars, holderVars
  <2>2. queue' = Append(queue, [card |-> exported, probe |-> probe])
    BY Zenon, <1>5 DEF Enqueue
  <2>3. \A i \in 1..Len(queue') :
           \/ i \in 1..Len(queue) /\ queue'[i] = queue[i]
           \/ queue'[i].card = exported
    <3>1. queue \in Seq(Job)
      BY Zenon DEF IInv, TypeOK
    <3> QED
      BY <2>2, <3>1
  <2>4. exported \in 1..inserted
    BY <1>5 DEF Enqueue, IInv, TypeOK, CardsInv
  <2>5. \A c \in shown : c >= exported \/ c \in Gone
    BY <2>4 DEF IInv, TypeOK, CardsInv, Gone
  <2>6. Fits(exported) \/ Closing
    BY Zenon, <1>5, <2>5 DEF Enqueue, IInv, JobsInv, Fits
  <2>7. (Closing' <=> Closing) /\ \A c : Fits(c)' <=> Fits(c)
    BY Zenon, <2>1 DEF Closing, Fits
  <2> QED
    BY Zenon, <2>1, <2>3, <2>4, <2>6, <2>7 DEF IInv, JobsInv, Gone
<1>6. CASE WakeUp
  <2>1. UNCHANGED <<monVars, session, parked>>
    BY Zenon, <1>6 DEF WakeUp, holderVars
  <2>2. ASSUME Due = "acquire" PROVE JobsInv'
    <3>1. ~pending /\ queue # <<>>
      BY Zenon, <2>2 DEF Due
    <3>2. ~Closing
      BY Zenon, <1>6, <3>1 DEF WakeUp, Closing
    <3> queue \in Seq(Job)
      BY Zenon DEF IInv, TypeOK
    <3>3. 1 \in 1..Len(queue) /\ Head(queue) = queue[1]
      BY <3>1
    <3>4. Head(queue).card \in 1..inserted /\ Fits(Head(queue).card)
      BY Zenon, <3>2, <3>3 DEF IInv, JobsInv
    <3>5. job' = Head(queue) /\ queue' = Tail(queue)
      BY Zenon, <1>6, <2>2 DEF WakeUp
    <3>6. \A i \in 1..Len(queue') : i + 1 \in 1..Len(queue) /\ queue'[i] = queue[i + 1]
      BY <3>1, <3>5, HeadTail DEF IInv, TypeOK
    <3>7. \A i \in 1..Len(queue') : queue'[i].card \in 1..inserted /\ Fits(queue'[i].card)
      BY Zenon, <3>2, <3>6 DEF IInv, JobsInv
    <3> QED
      BY Zenon, <2>1, <3>2, <3>4, <3>5, <3>7 DEF IInv, JobsInv, Fits, Gone, monVars
  <2>3. ASSUME Due # "acquire" PROVE JobsInv'
    <3>1. UNCHANGED queue /\ (Closing => Closing') /\ wpc' \notin {"acquire", "run", "put"}
      BY Zenon, <1>6, <2>3 DEF WakeUp, Due, Closing
    <3> QED
      BY Zenon, <2>1, <3>1 DEF IInv, JobsInv, Fits, Gone, monVars
  <2> QED
    BY Zenon, <2>2, <2>3
<1>7. None.card = 0 /\ \A c : Bare(c).card = c
  BY Zenon DEF None, Bare
<1>8. CASE DoInvalidate
  <2>1. /\ UNCHANGED <<inserted, exported, shown, mpc, pending, queue>>
        /\ session' = None /\ parked' = None /\ wpc' = "loop"
    BY Zenon, <1>8 DEF DoInvalidate, Invalidate, WorkerFrame, monVars, flagVars, queueVars
  <2>2. wpc' \notin {"acquire", "run", "put"}
    BY Zenon, <2>1
  <2> QED
    BY Zenon, <1>7, <2>1, <2>2, ConnectionsMove
<1>9. CASE DoHold \/ DoRelease \/ Sweep \/ AcquireFails
  <2>1. UNCHANGED <<inserted, exported, shown, mpc, pending, queue>>
    BY Zenon, <1>9 DEF DoHold, DoRelease, Sweep, AcquireFails, WorkerFrame, monVars, flagVars, queueVars
  <2>2. wpc # "invalidate" /\ wpc' = "loop"
    BY Zenon, <1>9 DEF DoHold, DoRelease, Sweep, AcquireFails
  <2>3. /\ session' \in {None, session}
        /\ parked' \in {None, parked, Bare(card), Bare(session.card)}
    BY Zenon, <1>9 DEF DoHold, DoRelease, Sweep, AcquireFails, Demote, Invalidate, Emptied, SweepEmpty, AcquireHold
  <2>4. session'.card \in {0, session.card} /\ parked'.card \in {0, card, session.card, parked.card}
    BY Zenon, <1>7, <2>3
  <2>5. (Closing => Closing') /\ wpc' \notin {"acquire", "run", "put"}
    BY Zenon, <2>1, <2>2 DEF Closing
  <2> QED
    BY Zenon, <2>1, <2>4, <2>5, ConnectionsMove
<1>10. CASE Reuse \/ Promote \/ Open
  <2>1. UNCHANGED <<inserted, exported, shown, mpc, pending, queue, job>> /\ wpc = "acquire" /\ wpc' = "run"
    BY Zenon, <1>10 DEF Reuse, Promote, Open, Commit, WorkerFrame, monVars, flagVars, queueVars
  <2>2. session' \in {session, parked, Bare(card)} /\ parked' \in {None, parked}
    BY Zenon, <1>10 DEF Reuse, Promote, Open, Commit
  <2>3. session'.card \in {card, session.card, parked.card} /\ parked'.card \in {0, parked.card}
    BY Zenon, <1>7, <2>2
  <2>4. Closing => Closing'
    BY Zenon, <2>1 DEF Closing
  <2> QED
    BY Zenon, <2>1, <2>3, <2>4, ConnectionsMove
<1>11. CASE Resolve
  <2>1. /\ UNCHANGED <<inserted, exported, shown, mpc, pending, queue>>
        /\ session' \in {None, session} /\ parked' \in {None, parked} /\ wpc = "run" /\ wpc' = "loop"
    BY Zenon, <1>11 DEF Resolve, Invalidate, WorkerFrame, monVars, flagVars, queueVars
  <2>2. session'.card \in {0, session.card} /\ parked'.card \in {0, parked.card}
    BY Zenon, <1>7, <2>1
  <2>3. (Closing => Closing') /\ wpc' \notin {"acquire", "run", "put"}
    BY Zenon, <2>1 DEF Closing
  <2> QED
    BY Zenon, <2>1, <2>2, <2>3, ConnectionsMove
<1>12. ASSUME NEW s \in {"pace", "channel"}, KeepOnSession(s) PROVE JobsInv'
  <2>1. UNCHANGED <<inserted, exported, shown, mpc, pending, queue, wpc, job, parked>>
    BY Zenon, <1>12 DEF KeepOnSession, WorkerFrame, monVars, flagVars, queueVars
  <2>2. session'.card = session.card
    BY Zenon, <1>12 DEF KeepOnSession, IInv, TypeOK, Connection
  <2>3. Closing => Closing'
    BY Zenon, <2>1 DEF Closing
  <2> QED
    BY Zenon, <2>1, <2>2, <2>3, ConnectionsMove
<1> QED
  BY Zenon, <1>1, <1>2, <1>3, <1>5, <1>6, <1>8, <1>9, <1>10, <1>11, <1>12 DEF Next, Monitor, Holder, Running

\* Nothing older than its key is stored in the read cache.
LEMMA CacheStep == IInv /\ TypeOK' /\ [Next]_vars => CacheInv'
<1> SUFFICES ASSUME IInv /\ TypeOK', [Next]_vars PROVE CacheInv'
  BY Zenon
<1>1. CASE Withdraw \/ CardInserted \/ CardRemoved \/ ReleaseReader \/
   InvalidateReader \/ HoldReader \/ Quiesce \/ (\E probe \in BOOLEAN :
   Enqueue(probe)) \/ WakeUp \/ Tick \/ DoInvalidate \/ DoHold \/ DoRelease \/
   Sweep \/ Reuse \/ Promote \/ Open \/ AcquireFails \/ Resolve \/ (\E s \in
   {"pace", "channel"} : KeepOnSession(s)) \/ (\E kept \in BOOLEAN :
   DepositInPlugin(kept)) \/ ServeCached \/ UNCHANGED vars
  BY Zenon, <1>1, BoundsAssumption DEF Withdraw, CardInserted, CardRemoved,
     ReleaseReader, InvalidateReader, HoldReader, Quiesce, Enqueue, WakeUp,
     Tick, DoInvalidate, DoHold, DoRelease, Sweep, Reuse, Promote, Open,
     AcquireFails, Resolve, KeepOnSession, DepositInPlugin, ServeCached,
     KeyRemoved, SetReaderHold, Due, WorkerFrame, Invalidate,
     EraseCredentials, AcquireHold, NoConnection, Demote, Emptied, SweepEmpty,
     Commit, IInv, CacheInv, vars, monVars, flagVars, queueVars, holderVars,
     secretVars
<1>2. CASE Insert
  <2>1. UNCHANGED <<wpc, session, job, cache>> /\ inserted' = inserted + 1
    BY Zenon, <1>2 DEF Insert, NextId, holderVars
  <2>2. inserted \in Nat /\ \A c \in 1..MaxCards : cache[c] \in Nat
    BY BoundsAssumption DEF IInv, TypeOK
  <2>3. \A c \in 1..MaxCards : cache[c] <= inserted => cache[c] <= inserted'
    BY <2>1, <2>2
  <2> QED
    BY Zenon, <2>1, <2>3 DEF IInv, CacheInv
<1>3. CASE ScrubCaches
  <2>1. UNCHANGED <<wpc, session, job, inserted>> /\ cache' = [cache EXCEPT ![dropped] = 0]
    BY Zenon, <1>3 DEF ScrubCaches, holderVars
  <2>2. \A c \in 1..MaxCards : cache'[c] \in {0, cache[c]}
    BY Zenon, <2>1 DEF IInv, TypeOK
  <2> QED
    BY Zenon, <2>1, <2>2 DEF IInv, CacheInv
<1>4. CASE ReadCard
  <2>1. UNCHANGED <<session, job, inserted, cache>> /\ wpc = "run" /\ session.card = card
    BY Zenon, <1>4 DEF ReadCard, WorkerFrame, monVars, holderVars
  <2>2. session.card # 0 /\ card \in {0, inserted} /\ job.card \in 1..inserted /\ inserted \in Nat
    BY <2>1, BoundsAssumption DEF IInv, TypeOK, CardsInv, ConnInv, JobsInv
  <2>3. session.card >= job.card
    BY <2>1, <2>2
  <2> QED
    BY Zenon, <2>1, <2>3 DEF IInv, CacheInv
<1>5. CASE PutRead
  <2>1. /\ wpc = "put" /\ wpc' = "loop" /\ UNCHANGED inserted
        /\ cache' = [cache EXCEPT ![job.card] = session.card]
    BY Zenon, <1>5 DEF PutRead, CardKey, WorkerFrame, monVars
  <2>2. session.card >= job.card /\ session.card <= inserted
    BY Zenon, <2>1 DEF IInv, CacheInv, CardsInv
  <2>3. job.card <= session.card
    BY Zenon, <2>2 DEF IInv, TypeOK, Job, Connection
  <2>4. \A c \in 1..MaxCards : cache'[c] = IF c = job.card THEN session.card ELSE cache[c]
    BY Zenon, <2>1 DEF IInv, TypeOK
  <2>5. wpc' # "put"
    BY Zenon, <2>1
  <2> QED
    BY Zenon, <2>1, <2>2, <2>3, <2>4, <2>5 DEF IInv, CacheInv
<1>6. CASE OpEnds
  BY Zenon, <1>6, BoundsAssumption DEF OpEnds, WorkerFrame, IInv, TypeOK, CardsInv,
     ConnInv, JobsInv, CacheInv, Connection, Bare, None, Job, vars, monVars,
     flagVars, queueVars, holderVars, secretVars
<1> QED
  BY Zenon, <1>1, <1>2, <1>3, <1>4, <1>5, <1>6 DEF Next, Monitor, Holder, Running

\* A connection is parked only for a hold that is wanted or being released.
LEMMA HoldStep == IInv /\ TypeOK' /\ [Next]_vars => HoldInv'
<1> SUFFICES ASSUME IInv /\ TypeOK', [Next]_vars PROVE HoldInv'
  BY Zenon
<1>1. CASE Insert \/ Withdraw \/ CardInserted \/ CardRemoved \/ ScrubCaches \/
   ReleaseReader \/ InvalidateReader \/ HoldReader \/ Quiesce \/ (\E probe \in
   BOOLEAN : Enqueue(probe)) \/ Tick \/ DoInvalidate \/ DoHold \/ DoRelease \/
   Reuse \/ Promote \/ Open \/ AcquireFails \/ ReadCard \/ PutRead \/ OpEnds
   \/ ServeCached \/ Resolve \/ (\E s \in {"pace", "channel"} :
   KeepOnSession(s)) \/ (\E kept \in BOOLEAN : DepositInPlugin(kept)) \/
   UNCHANGED vars
  BY Zenon, <1>1 DEF Insert, Withdraw, CardInserted, CardRemoved, ScrubCaches,
     ReleaseReader, InvalidateReader, HoldReader, Quiesce, Enqueue, Tick,
     DoInvalidate, DoHold, DoRelease, Reuse, Promote, Open, AcquireFails,
     ReadCard, PutRead, OpEnds, ServeCached, Resolve, KeepOnSession,
     DepositInPlugin, NextId, KeyRemoved, SetReaderHold, WorkerFrame,
     Invalidate, EraseCredentials, AcquireHold, NoConnection, Commit, CardKey,
     IInv, HoldInv, HoldFollowsFlag, vars, monVars, flagVars, queueVars,
     holderVars, secretVars
<1>2. CASE WakeUp
  BY Zenon, <1>2 DEF WakeUp, Due, IInv, TypeOK, HoldInv, HoldFollowsFlag, Bare, None,
     vars, monVars, flagVars, queueVars, holderVars, secretVars
<1>3. CASE Sweep
  BY Zenon, <1>3 DEF Sweep, WorkerFrame, Demote, Invalidate, EraseCredentials,
     Emptied, SweepEmpty, AcquireHold, NoConnection, IInv, TypeOK, HoldInv,
     HoldFollowsFlag, Bare, None, vars, monVars, flagVars, queueVars,
     holderVars, secretVars
<1> QED
  BY Zenon, <1>1, <1>2, <1>3 DEF Next, Monitor, Holder, Running

\* The inductive invariant holds throughout, for any number of cards and jobs.
THEOREM HolderInvariant == Spec => []IInv
<1>1. Init => IInv
  <2> SUFFICES ASSUME Init PROVE IInv
    BY Zenon
  <2>1. TypeOK
    <3>1. 0 \in 0..MaxCards /\ 0 \in 0..MaxOps
      BY BoundsAssumption
    <3>2. None \in Connection /\ NoJob \in Job
      BY Zenon, <3>1 DEF Connection, Bare, None, Job, NoJob
    <3>3. cache \in [1..MaxCards -> 0..MaxCards]
      BY Zenon, <3>1 DEF Init
    <3>4. queue \in Seq(Job) /\ shown \subseteq 1..MaxCards
      BY DEF Init
    <3>5. /\ pending \in BOOLEAN /\ hold \in BOOLEAN /\ holdDirty \in BOOLEAN
          /\ stash \in BOOLEAN /\ fresh \in BOOLEAN
      BY Zenon DEF Init
    <3>6. /\ mpc = "idle" /\ wpc = "loop"
          /\ session \in Connection /\ parked \in Connection /\ job \in Job
      BY Zenon, <3>2 DEF Init
    <3> QED
      BY Zenon, <3>1, <3>3, <3>4, <3>5, <3>6 DEF Init, TypeOK
  <2>2. CardsInv /\ ConnInv /\ HoldInv
    BY DEF Init, CardsInv, ConnInv, HoldInv, OneConnection, ParkedIsClean,
       ResolutionFitsSession, HoldFollowsFlag, Bare, None
  <2>3. JobsInv /\ CacheInv
    BY DEF Init, JobsInv, CacheInv, Gone, Closing, Fits
  <2> QED
    BY Zenon, <2>1, <2>2, <2>3 DEF IInv
<1>2. IInv /\ [Next]_vars => IInv'
  BY Zenon, TypeStep, CardsStep, ConnStep, JobsStep, CacheStep, HoldStep DEF IInv
<1> QED
  BY <1>1, <1>2, PTL DEF Spec

\* The reader's thread, its monitor and its host keep every variable in type.
THEOREM TypeCorrect == Spec => []TypeOK
<1> QED
  BY HolderInvariant, PTL DEF IInv

\* For any number of cards and jobs a reader carries one connection, in use or
\* parked as its power hold (acquire, demote, acquireHold).
THEOREM OneConnectionPerReader == Spec => []OneConnection
<1>1. IInv => OneConnection
  BY Zenon DEF IInv, ConnInv
<1> QED
  BY HolderInvariant, <1>1, PTL

\* A connection that demote parked carries no secret of the session it was.
THEOREM ParkedConnectionsAreClean == Spec => []ParkedIsClean
<1>1. IInv => ParkedIsClean
  BY Zenon DEF IInv, ConnInv
<1> QED
  BY HolderInvariant, <1>1, PTL

\* Candidates and pre-read memo are those of the connected card, whatever was
\* promoted, dropped or thrown before (fullResolution, eraseCredentials).
THEOREM ResolutionIsTheConnectedCards == Spec => []ResolutionFitsSession
<1>1. IInv => ResolutionFitsSession
  BY Zenon DEF IInv, ConnInv
<1> QED
  BY HolderInvariant, <1>1, PTL

\* For any number of swaps the removal hook's invalidate reaches the worker
\* before a job for the next card runs.
THEOREM InvalidateOvertakesJobs == Spec => []NoJobOnAnOlderCard
<1>1. IInv => NoJobOnAnOlderCard
  BY Zenon DEF IInv, JobsInv, Fits, NoJobOnAnOlderCard
<1> QED
  BY HolderInvariant, <1>1, PTL

\* A power hold is never kept past the release of its flag.
THEOREM HoldsFollowTheirFlag == Spec => []HoldFollowsFlag
<1>1. IInv => HoldFollowsFlag
  BY Zenon DEF IInv, HoldInv
<1> QED
  BY HolderInvariant, <1>1, PTL

\* What the cache serves for the card in the reader was read from that card,
\* in whatever order reads, swaps and removals come.
THEOREM CachedReadsAreTheCards == Spec => []SeatedCardsReadIsItsOwn
<1>1. IInv => SeatedCardsReadIsItsOwn
  BY BoundsAssumption DEF IInv, TypeOK, CardsInv, CacheInv, SeatedCardsReadIsItsOwn
<1> QED
  BY HolderInvariant, <1>1, PTL

\* The reader's connection stays single, clean and wanted, for any number of
\* cards and jobs.
THEOREM ConnectionsStayClean == Spec => []ConnectionIsClean
<1> QED
  BY OneConnectionPerReader, ParkedConnectionsAreClean, HoldsFollowTheirFlag, PTL
  DEF ConnectionIsClean

\* For any number of swaps nothing of one card is used or served for another.
THEOREM CardsStayApart == Spec => []CardsAreNotMixedUp
<1> QED
  BY ResolutionIsTheConnectedCards, InvalidateOvertakesJobs, CachedReadsAreTheCards, PTL
  DEF CardsAreNotMixedUp

=============================================================================
