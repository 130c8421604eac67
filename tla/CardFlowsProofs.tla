--------------------------- MODULE CardFlowsProofs ---------------------------
(***************************************************************************)
(* The operations on one card count what the card counts, tell their       *)
(* client what happened, account for every document of a batch and leave   *)
(* nothing stale in the caches, for every bound.                           *)
(***************************************************************************)
EXTENDS CardFlows, TLAPS

Running == op.step \in {"walk", "window", "pin"}
One(b) == IF b THEN 1 ELSE 0
Empty(e) == e.can = "none" /\ e.mrz = "none"

\* An operation's record, by its fields.
Fields == {"flow", "step", "token", "docs", "rows", "asked", "asks", "generation", "attempts", "prompterFailed",
           "userCancelled", "entryExpired", "helperTooOld", "marking", "markedWrong", "sink", "again", "pin",
           "result", "data", "rejected", "broken", "windows", "emptied", "parked", "pinWindows", "wrongPins",
           "signed"}
Shape(o) == o = [f \in Fields |-> o[f]]
Typed(o) ==
    /\ o.flow \in Flows /\ o.step \in {"idle", "walk", "window", "pin", "done"}
    /\ o.token \in {"live", "cancelled", "shutdown"} /\ o.docs \in 0..kMaxBatchDocuments + 1
    /\ o.rows \in Seq(Row) /\ o.asked \in Kinds /\ o.asks \in 0..MaxAsks /\ o.generation \in 0..MaxRefusals
    /\ o.attempts \in 0..MaxAsks + 1 /\ o.prompterFailed \in BOOLEAN /\ o.userCancelled \in BOOLEAN
    /\ o.entryExpired \in BOOLEAN /\ o.helperTooOld \in BOOLEAN /\ o.marking \in BOOLEAN
    /\ o.markedWrong \in BOOLEAN /\ o.sink \in Secrets \cup {"malformed"} /\ o.again \in BOOLEAN
    /\ o.pin \in Secrets /\ o.result \in Codes /\ o.data \in BOOLEAN /\ o.rejected \in 0..MaxAsks + 1
    /\ o.broken \in 0..MaxAsks /\ o.windows \in [Kinds -> 0..MaxAsks] /\ o.emptied \in BOOLEAN
    /\ o.parked \in BOOLEAN /\ o.pinWindows \in 0..kMaxBatchDocuments /\ o.wrongPins \in 0..kMaxBatchDocuments
    /\ o.signed \in SUBSET (1..kMaxBatchDocuments)

\* The record p is o but for the fields in `changed`.
Same(o, p, changed) == Shape(p) /\ \A f \in Fields \ changed : p[f] = o[f]

-----------------------------------------------------------------------------
(* The inductive invariant.                                                *)

\* At every step: an ask ends in one verdict of the card or one break, the
\* renegotiation in one verdict more.
Counted(o) ==
    /\ o.rejected + o.broken <= o.asks + One(o.again) /\ o.broken <= o.asks /\ o.attempts <= o.asks + 1
    /\ \A k \in Kinds : o.windows[k] <= o.asks /\ o.windows[k] <= kMaxPaceAttempts + o.broken
    /\ o.userCancelled => o.emptied
    /\ o.sink # "none" \/ o.again => o.parked
    /\ o.pinWindows <= 1 /\ o.wrongPins <= 1

\* A parked MRZ was a break too.
Steady(o) == Counted(o) /\ (o.parked => o.broken > 0)

\* The answer to an ask is still due.
Due(o) == o.rejected + o.broken < o.asks + One(o.again) /\ o.broken < o.asks

\* What a refused window leaves in the entry.
Refusals(o, e) ==
    /\ e.refusals > o.generation => o.emptied /\ e.nothing
    /\ present => e.refusals >= o.generation /\ (o.emptied => e.refusals > o.generation)
    /\ o.emptied /\ o.flow \in Reads => o.userCancelled \/ o.entryExpired

\* A verdict that is marked has emptied the entry, unless an MRZ was parked;
\* at the cap the last verdict is marked.
Marks(o, e) ==
    /\ (o.marking \/ o.markedWrong) /\ ~o.parked => Empty(e)
    /\ TracksMarks(o.flow) /\ o.attempts >= kMaxPaceAttempts => o.marking \/ o.markedWrong \/ o.parked

\* Each window of a kind was closed by a break, by a secret that is cached, by
\* one that was counted as rejected or by the one refusal, but for an open one.
Accounted(o, e, open) ==
    \A k \in Kinds : o.windows[k] <= o.attempts + o.broken + One(e[k] # "none") + One(o.emptied) + One(k \in open)

\* A batch goes on only after rows that do not halt it, with one PIN.
Unhalted(o) ==
    /\ o.wrongPins = 0
    /\ o.pinWindows > 0 => o.flow \in Signatures
    /\ o.pinWindows > 0 /\ o.step # "pin" => o.flow = "batch" /\ o.pin # "none"
    /\ o.flow \in Signatures =>
          /\ o.docs \in 1..kMaxBatchDocuments /\ Len(o.rows) < o.docs /\ o.signed \subseteq 1..Len(o.rows)
          /\ \A i \in 1..Len(o.rows) :
                o.rows[i] \notin {"PinWrong", "PinBlocked", "AuthFailed"} /\ (o.rows[i] = "Ok" <=> i \in o.signed)

Going(o, e) == o.attempts <= o.asks /\ o.attempts <= o.rejected /\ Refusals(o, e) /\ Marks(o, e) /\ Unhalted(o)

\* What the middleware's session says of the last ask.
Verdict(o, failed) ==
    /\ failed = "rejected" => o.attempts < o.rejected \/ (~present /\ o.broken > 0)
    /\ failed = "yes" => o.broken > 0 \/ o.attempts >= kMaxPaceAttempts
    /\ failed = "refused" /\ o.asks > 0 /\ o.flow \in Reads => o.userCancelled \/ o.entryExpired

AtWindow ==
    Due(op) /\ ~op.emptied /\ entry.refusals <= op.generation /\ op.attempts < kMaxPaceAttempts /\ entry[op.asked] = "none"
Open == IF op.step = "window" THEN {op.asked} ELSE {}

OpInv ==
    /\ Shape(op) /\ Typed(op) /\ Steady(op)
    /\ Running => Going(op, entry) /\ (present => Accounted(op, entry, Open))
    /\ op.step = "window" => AtWindow
    /\ op.step # "window" => ~op.marking
    /\ op.step \in {"walk", "pin"} => Verdict(op, session.failed)
    /\ op.step = "idle" => session.failed \in {"no", "refused"}
    /\ session.failed = "refused" => entry.nothing \/ ~present

\* The properties that speak of an operation that is over, or of any.
Reported ==
    AttemptsAreRejections /\ RejectedSecretIsDropped /\ OutcomeIsHonest /\ RefusalIsNoEmptyRead /\ RowsMatchDocuments

\* The caches and the session: nothing in them is old.
ReadCaches == [identity : {"none", "current"}, certs : {"none", "current", "empty"}]
Sessions == [channel : BOOLEAN, failed : {"no", "yes", "rejected", "refused"}, pin : {"none", "current"}, dual : BOOLEAN]
CacheInv ==
    /\ entry \in Entry /\ reads \in ReadCaches /\ listing \in {"none", "current"} /\ session \in Sessions
    /\ present \in BOOLEAN /\ started \in 0..MaxOps

IInv == CacheInv /\ OpInv /\ Reported

-----------------------------------------------------------------------------
(* Records.                                                                *)

\* An operation's record is its fields, each of its type.
LEMMA OpIsTyped == ASSUME NEW o PROVE o \in Op <=> Shape(o) /\ Typed(o)
<1>1. ASSUME o \in Op PROVE Shape(o)
  BY <1>1 DEF Op, Shape, Fields
<1>2. ASSUME o \in Op PROVE Typed(o)
  BY <1>2 DEF Op, Typed
<1>3. ASSUME Shape(o), Typed(o) PROVE o \in Op
  BY <1>3 DEF Op, Shape, Fields, Typed
<1> QED
  BY <1>1, <1>2, <1>3

\* The counters are numbers.
Numbers(o) ==
    /\ o.asks \in 0..MaxAsks /\ o.asks \in Nat /\ o.generation \in Nat /\ o.attempts \in Nat /\ o.rejected \in Nat /\ o.broken \in Nat
    /\ \A k \in Kinds : o.windows[k] \in Nat

\* The counters of an operation are numbers.
LEMMA TypedNumbers == ASSUME NEW o, Typed(o) PROVE Numbers(o)
<1>1. /\ o.asks \in 0..MaxAsks /\ o.generation \in 0..MaxRefusals /\ o.attempts \in 0..MaxAsks + 1
      /\ o.rejected \in 0..MaxAsks + 1 /\ o.broken \in 0..MaxAsks /\ o.windows \in [Kinds -> 0..MaxAsks]
  BY Zenon DEF Typed
<1> QED
  BY <1>1 DEF Numbers

\* The bounds are numbers, and a card is tried and a batch has room at least once.
LEMMA Bounds ==
    /\ MaxAsks \in Nat /\ MaxRefusals \in Nat /\ kMaxPaceAttempts \in Nat /\ kMaxBatchDocuments \in Nat
    /\ kMaxPaceAttempts \in Nat \ {0} /\ kMaxBatchDocuments \in Nat \ {0}
  BY FlowsAssumption, CacheAssumption

\* The cache's refusals are counted.
LEMMA EntryNumbers == ASSUME NEW e \in Entry PROVE e.refusals \in Nat
  BY CacheAssumption DEF Entry

\* An operation that ends keeps what it has counted.
Ended(o, code, p) ==
    /\ Same(o, p, {"step", "marking", "sink", "pin", "result"})
    /\ p.step = "done" /\ p.marking = FALSE /\ p.sink = "none" /\ p.pin = "none"
    /\ p.result = IF o.token = "shutdown" THEN "none" ELSE code

\* What an operation that ends keeps, and what it is reported with.
LEMMA EndsFields == ASSUME NEW o, Shape(o), NEW code PROVE Ended(o, code, Ends(o, code))
<1> DEFINE p == Ends(o, code)
<1>1. Shape(p)
  BY ZenonT(40) DEF Ends, Shape, Fields
<1>2. \A f \in Fields \ {"step", "marking", "sink", "pin", "result"} : p[f] = o[f]
  BY Zenon DEF Ends, Shape, Fields
<1>3. /\ p.step = "done" /\ p.marking = FALSE /\ p.sink = "none" /\ p.pin = "none"
      /\ p.result = IF o.token = "shutdown" THEN "none" ELSE code
  BY DEF Ends, Shape, Fields
<1> QED
  BY Zenon, <1>1, <1>2, <1>3 DEF Same, Ended

\* A batch goes on as long as its rows and its PIN are the same.
LEMMA UnhaltedSame ==
    ASSUME NEW o, NEW p, Unhalted(o), p.flow = o.flow, p.docs = o.docs, p.rows = o.rows, p.signed = o.signed,
           p.wrongPins = o.wrongPins, p.pinWindows = o.pinWindows, p.pin = o.pin, p.step = o.step
    PROVE  Unhalted(p)
  BY Zenon DEF Unhalted

\* What is left to show of a step that ends an operation is what it reports.
LEMMA EndsStep ==
    ASSUME NEW o, Shape(o), Typed(o), Steady(o), NEW code \in Codes, op' = Ends(o, code),
           session'.failed = "refused" => entry'.nothing \/ ~present'
    PROVE  OpInv'
<1>1. Ended(o, code, op')
  BY Zenon, EndsFields
<1>2. Shape(op')
  BY Zenon, <1>1 DEF Ended, Same
<1>5. op'.result \in Codes
  BY <1>1 DEF Ended, Codes
<1>6. /\ op'.flow = o.flow /\ op'.token = o.token /\ op'.docs = o.docs /\ op'.rows = o.rows /\ op'.asked = o.asked
      /\ op'.asks = o.asks /\ op'.generation = o.generation /\ op'.attempts = o.attempts
      /\ op'.prompterFailed = o.prompterFailed /\ op'.userCancelled = o.userCancelled
      /\ op'.entryExpired = o.entryExpired /\ op'.helperTooOld = o.helperTooOld /\ op'.markedWrong = o.markedWrong
      /\ op'.again = o.again /\ op'.data = o.data /\ op'.rejected = o.rejected /\ op'.broken = o.broken
      /\ op'.windows = o.windows /\ op'.emptied = o.emptied /\ op'.parked = o.parked
      /\ op'.pinWindows = o.pinWindows /\ op'.wrongPins = o.wrongPins /\ op'.signed = o.signed
  BY <1>1 DEF Ended, Same, Fields
<1>3. Typed(op')
  BY Zenon, <1>1, <1>5, <1>6 DEF Ended, Typed, Secrets
<1>4. Steady(op')
  BY <1>1 DEF Ended, Same, Fields, Steady, Counted
<1> QED
  BY <1>1, <1>2, <1>3, <1>4 DEF Ended, OpInv, Running

\* What the operations of the credential cache do to an entry.
LEMMA EntryWiped ==
    ASSUME NEW e \in Entry
    PROVE  /\ markCredentialWrong(e) \in Entry /\ Empty(markCredentialWrong(e))
           /\ markCredentialWrong(e).refusals = e.refusals /\ markCredentialWrong(e).nothing = e.nothing
           /\ \A k \in Kinds : markCredentialWrong(e)[k] = "none"
  BY Zenon DEF markCredentialWrong, Entry, Empty, Secrets, Kinds

\* noteRefusal() counts, and keeps the secrets.
LEMMA EntryRefused ==
    ASSUME NEW e \in Entry, e.refusals < MaxRefusals, NEW how \in {"cancelled", "timeout"}
    PROVE  /\ noteRefusal(e, how) \in Entry
           /\ noteRefusal(e, how).refusals = e.refusals + 1 /\ noteRefusal(e, how).nothing = TRUE
           /\ \A k \in Kinds : noteRefusal(e, how)[k] = e[k]
<1>1. e.refusals + 1 \in 0..MaxRefusals
  BY CacheAssumption DEF Entry
<1> QED
  BY Zenon, <1>1 DEF noteRefusal, Entry, Kinds

\* An answered window counts no refusal, and keeps the secrets.
LEMMA EntryAnswered ==
    ASSUME NEW e \in Entry
    PROVE  /\ Answered(e) \in Entry /\ Answered(e).refusals = e.refusals
           /\ \A k \in Kinds : Answered(e)[k] = e[k]
  BY Zenon DEF Answered, Entry, Kinds

Holding(e, kind, secret, p) ==
    /\ p \in Entry /\ p.refusals = e.refusals /\ p.nothing = e.nothing
    /\ \A k \in Kinds : p[k] = IF k = kind THEN secret ELSE e[k]

\* put() replaces one kind's secret.
LEMMA EntryPut ==
    ASSUME NEW e \in Entry, NEW kind \in Kinds, NEW secret \in Secrets
    PROVE  Holding(e, kind, secret, put(e, kind, secret))
  BY Zenon DEF put, Entry, Kinds, Holding

\* A new entry holds no secret and no refusal.
LEMMA NoEntryIsEmpty == NoEntry \in Entry /\ NoEntry.refusals = 0 /\ Empty(NoEntry)
  BY CacheAssumption DEF NoEntry, Entry, Empty, Secrets

\* An entry is empty when it has no secret of either kind.
LEMMA EntryEmpty == ASSUME NEW e PROVE Empty(e) <=> \A k \in Kinds : e[k] = "none"
  BY DEF Empty, Kinds

-----------------------------------------------------------------------------
(* The steps around the operations.                                        *)

\* The outcomes an operation or a document can have.
LEMMA CodeValues ==
    /\ {"none", "Ok", "Cancelled", "AuthFailed", "Communication", "Unsupported", "CardRemoved", "Prompter",
        "EntryExpired", "Capability", "KeyNotFound", "PinWrong", "PinBlocked", "Engine", "Invalid"} \subseteq Codes
    /\ Row = Codes
  BY DEF Codes, Row

\* The card is pulled: its entry goes, and what it said of the last ask stays.
LEMMA RemoveStep == ASSUME IInv, RemoveCard PROVE OpInv' /\ Reported'
<1>1. op' = op /\ entry' = NoEntry /\ present' = FALSE /\ session'.failed = session.failed
  BY DEF RemoveCard, invalidate, IInv, CacheInv, Sessions
<1>2. NoEntry.refusals = 0 /\ Empty(NoEntry)
  BY DEF NoEntry, Empty
<1>3. op.generation \in Nat /\ MaxRefusals \in Nat
  BY Zenon, TypedNumbers, Bounds DEF IInv, OpInv, Numbers
<1>4. ASSUME Running PROVE Going(op, entry)'
  <2>1. Refusals(op, entry)'
    BY <1>1, <1>2, <1>3, <1>4 DEF IInv, OpInv, Going, Refusals
  <2>2. Marks(op, entry)'
    BY Zenon, <1>1, <1>2, <1>4 DEF IInv, OpInv, Going, Marks
  <2> QED
    BY Zenon, <1>1, <1>4, <2>1, <2>2 DEF IInv, OpInv, Going, Unhalted
<1>5. op.step = "window" => AtWindow'
  <2>1. op.asked \in Kinds
    BY DEF IInv, OpInv, Typed
  <2>2. NoEntry[op.asked] = "none"
    BY <1>2, <2>1, EntryEmpty
  <2> QED
    BY <1>1, <1>2, <1>3, <2>2 DEF IInv, OpInv, AtWindow, Due
<1>6. op.step \in {"walk", "pin"} => Verdict(op, session.failed)'
  BY Zenon, <1>1 DEF IInv, OpInv, Verdict
<1>7. OpInv'
  BY Zenon, <1>1, <1>4, <1>5, <1>6 DEF IInv, OpInv, Running
<1>8. RejectedSecretIsDropped'
  BY <1>1, <1>2 DEF RejectedSecretIsDropped, Empty
<1> QED
  BY Zenon, <1>1, <1>7, <1>8 DEF IInv, Reported, AttemptsAreRejections, OutcomeIsHonest, RefusalIsNoEmptyRead,
     RowsMatchDocuments

\* Steps of the holder between operations.
LEMMA BetweenStep == ASSUME IInv, SweepSession \/ DepositPin \/ UNCHANGED vars PROVE OpInv' /\ Reported'
<1>1. op' = op /\ entry' = entry /\ present' = present
  BY Zenon DEF SweepSession, DepositPin, vars
<1>2. session'.failed = session.failed \/ (op.step = "idle" /\ session'.failed = "no")
  BY Zenon DEF SweepSession, DepositPin, vars, Idle, IInv, CacheInv, Sessions
<1>3. OpInv'
  <2>1. op.step = "idle" => op.step \notin {"walk", "window", "pin"}
    OBVIOUS
  <2>2. op.step \in {"walk", "pin"} => Verdict(op, session.failed)'
    BY Zenon, <1>1, <1>2, <2>1 DEF IInv, OpInv, Verdict
  <2>3. Running => Going(op, entry)'
    BY Zenon, <1>1 DEF IInv, OpInv, Going, Refusals, Marks, Unhalted
  <2>4. "no" \in {"no", "refused"} /\ "no" # "refused"
    OBVIOUS
  <2>5. /\ op.step = "idle" => session'.failed \in {"no", "refused"}
        /\ session'.failed = "refused" => entry.nothing \/ ~present
    BY Zenon, <1>2, <2>4 DEF IInv, OpInv
  <2> QED
    BY Zenon, <1>1, <2>2, <2>3, <2>5 DEF IInv, OpInv, Running, AtWindow, Due, Accounted, Open
<1> QED
  BY Zenon, <1>1, <1>3 DEF IInv, Reported, AttemptsAreRejections, RejectedSecretIsDropped, OutcomeIsHonest,
     RefusalIsNoEmptyRead, RowsMatchDocuments

\* An operation that goes on has nothing to report but its counts.
LEMMA NothingReported ==
    ASSUME op'.step # "done", op'.attempts <= op'.rejected, op'.attempts \in Nat, op'.rejected \in Nat
    PROVE  Reported'
<1>1. AttemptsAreRejections'
  BY DEF AttemptsAreRejections
<1> QED
  BY Zenon, <1>1 DEF Reported, RejectedSecretIsDropped, OutcomeIsHonest, RefusalIsNoEmptyRead, RowsMatchDocuments

\* The token changes, and nothing else.
LEMMA CancelStep ==
    ASSUME IInv, NEW token \in {"cancelled", "shutdown"}, Cancel(token)
    PROVE  OpInv' /\ Reported'
<1>1. Shape(op) /\ Typed(op) /\ Running /\ op.step \in {"walk", "window", "pin"}
  BY Zenon DEF IInv, OpInv, Cancel, Running
<1>2. op' = [op EXCEPT !.token = token] /\ UNCHANGED <<entry, session, present>>
  BY Zenon DEF Cancel
<1>3. Shape(op')
  BY ZenonT(30), <1>1, <1>2 DEF Shape, Fields
<1>4. \A f \in Fields \ {"token"} : op'[f] = op[f]
  BY Zenon, <1>1, <1>2 DEF Shape, Fields
<1>5. op'.token = token
  BY <1>1, <1>2 DEF Shape, Fields
<1>6. /\ op'.flow = op.flow /\ op'.step = op.step /\ op'.docs = op.docs /\ op'.rows = op.rows /\ op'.asked = op.asked
      /\ op'.asks = op.asks /\ op'.generation = op.generation /\ op'.attempts = op.attempts
      /\ op'.prompterFailed = op.prompterFailed /\ op'.userCancelled = op.userCancelled
      /\ op'.entryExpired = op.entryExpired /\ op'.helperTooOld = op.helperTooOld
      /\ op'.marking = op.marking /\ op'.markedWrong = op.markedWrong /\ op'.sink = op.sink
      /\ op'.again = op.again /\ op'.pin = op.pin /\ op'.result = op.result /\ op'.data = op.data
      /\ op'.rejected = op.rejected /\ op'.broken = op.broken
      /\ op'.windows = op.windows /\ op'.emptied = op.emptied /\ op'.parked = op.parked
      /\ op'.pinWindows = op.pinWindows /\ op'.wrongPins = op.wrongPins /\ op'.signed = op.signed
  BY <1>4 DEF Fields
<1>7. Typed(op')
  BY Zenon, <1>1, <1>5, <1>6 DEF Typed
<1>8. Steady(op')
  BY Zenon, <1>6 DEF IInv, OpInv, Steady, Counted
<1>9. Going(op, entry)'
  <2>1. Going(op, entry)
    BY Zenon, <1>1 DEF IInv, OpInv
  <2>2. Refusals(op, entry)'
    BY Zenon, <1>2, <1>6, <2>1 DEF Going, Refusals
  <2>3. Marks(op, entry)'
    BY Zenon, <1>2, <1>6, <2>1 DEF Going, Marks
  <2>4. Unhalted(op)'
    <3>1. Unhalted(op)
      BY Zenon, <2>1 DEF Going
    <3> QED
      BY Zenon, <1>6, <3>1, UnhaltedSame
  <2> QED
    BY Zenon, <1>6, <2>1, <2>2, <2>3, <2>4 DEF Going
<1>10. present => Accounted(op, entry, Open)'
  BY Zenon, <1>1, <1>2, <1>6 DEF IInv, OpInv, Accounted, Open
<1>11. op.step = "window" => AtWindow'
  BY Zenon, <1>2, <1>6 DEF IInv, OpInv, AtWindow, Due
<1>12. op.step \in {"walk", "pin"} => Verdict(op, session.failed)'
  BY Zenon, <1>2, <1>6 DEF IInv, OpInv, Verdict
<1>13. OpInv'
  BY Zenon, <1>1, <1>2, <1>3, <1>6, <1>7, <1>8, <1>9, <1>10, <1>11, <1>12 DEF IInv, OpInv
<1>14. op'.attempts \in Nat /\ op'.rejected \in Nat /\ op'.attempts <= op'.rejected /\ op'.step # "done"
  <2>1. op'.step # "done"
    BY <1>1, <1>6
  <2> QED
    BY Zenon, <1>7, <1>9, <2>1, TypedNumbers DEF Numbers, Going
<1> QED
  BY Zenon, <1>13, <1>14, NothingReported

\* An operation starts, with nothing counted.
LEMMA FreshFields ==
    ASSUME entry \in Entry, NEW flow \in Flows, NEW docs \in 0..kMaxBatchDocuments + 1
    PROVE  /\ Shape(Fresh(flow, docs)) /\ Typed(Fresh(flow, docs)) /\ Steady(Fresh(flow, docs))
           /\ Fresh(flow, docs).step = "walk" /\ Fresh(flow, docs).flow = flow
<1> DEFINE p == Fresh(flow, docs)
<1>1. Shape(p)
  BY ZenonT(30) DEF Fresh, Shape, Fields
<1>2. Typed(p)
  <2>1. entry.refusals \in 0..MaxRefusals
    BY DEF Entry
  <2> QED
    BY <2>1, FlowsAssumption, CacheAssumption DEF Fresh, Typed, Codes, Kinds, Secrets, Row
<1>3. Steady(p)
  BY FlowsAssumption, CacheAssumption DEF Fresh, Steady, Counted, One, Kinds
<1>4. p.step = "walk" /\ p.flow = flow
  BY DEF Fresh
<1> QED
  BY Zenon, <1>1, <1>2, <1>3, <1>4

\* An operation that starts has counted nothing.
LEMMA StartStep ==
    ASSUME IInv, op.step = "idle", UNCHANGED <<entry, session, present>>,
           NEW flow \in Flows, NEW docs \in 1..kMaxBatchDocuments,
           \/ op' = Fresh(flow, docs)
           \/ flow \in Mutations /\ op' = [Fresh(flow, docs) EXCEPT !.step = "pin"]
    PROVE  OpInv' /\ Reported'
<1>1. docs \in 0..kMaxBatchDocuments + 1
  BY FlowsAssumption
<1> DEFINE p == Fresh(flow, docs)
<1>2. Shape(p) /\ Typed(p) /\ Steady(p) /\ p.step = "walk" /\ p.flow = flow
  BY Zenon, <1>1, FreshFields DEF IInv, CacheInv
<1>3. /\ Same(p, op', {"step"})
      /\ op'.step = "walk" \/ (flow \in Mutations /\ op'.step = "pin")
  <2>1. CASE op' = p
    BY Zenon, <1>2, <2>1 DEF Same
  <2>2. CASE flow \in Mutations /\ op' = [p EXCEPT !.step = "pin"]
    <3>1. Shape(op')
      BY ZenonT(30), <1>2, <2>2 DEF Shape, Fields
    <3>2. \A f \in Fields \ {"step"} : op'[f] = p[f]
      BY Zenon, <1>2, <2>2 DEF Shape, Fields
    <3>3. op'.step = "pin"
      BY Zenon, <1>2, <2>2 DEF Shape, Fields
    <3> QED
      BY Zenon, <2>2, <3>1, <3>2, <3>3 DEF Same
  <2> QED
    BY Zenon, <2>1, <2>2
<1> HIDE DEF p
<1>4. /\ op'.flow = p.flow /\ op'.token = p.token /\ op'.docs = p.docs /\ op'.rows = p.rows /\ op'.asked = p.asked
      /\ op'.asks = p.asks /\ op'.generation = p.generation /\ op'.attempts = p.attempts
      /\ op'.prompterFailed = p.prompterFailed /\ op'.userCancelled = p.userCancelled
      /\ op'.entryExpired = p.entryExpired /\ op'.helperTooOld = p.helperTooOld
      /\ op'.marking = p.marking /\ op'.markedWrong = p.markedWrong /\ op'.sink = p.sink
      /\ op'.again = p.again /\ op'.pin = p.pin /\ op'.result = p.result /\ op'.data = p.data
      /\ op'.rejected = p.rejected /\ op'.broken = p.broken
      /\ op'.windows = p.windows /\ op'.emptied = p.emptied /\ op'.parked = p.parked
      /\ op'.pinWindows = p.pinWindows /\ op'.wrongPins = p.wrongPins /\ op'.signed = p.signed
  BY <1>3 DEF Same, Fields
<1>5. Shape(op')
  BY Zenon, <1>3 DEF Same
<1>6. Typed(op')
  BY Zenon, <1>2, <1>3, <1>4 DEF Typed
<1>7. Steady(op')
  BY Zenon, <1>2, <1>4 DEF Steady, Counted
<1>8. /\ op'.flow = flow /\ op'.docs = docs /\ op'.rows = <<>> /\ op'.asks = 0 /\ op'.generation = entry.refusals
      /\ op'.attempts = 0 /\ op'.rejected = 0 /\ op'.broken = 0 /\ op'.emptied = FALSE /\ op'.marking = FALSE
      /\ op'.markedWrong = FALSE /\ op'.windows = [k \in Kinds |-> 0] /\ op'.pinWindows = 0 /\ op'.wrongPins = 0
      /\ op'.signed = {}
  BY Zenon, <1>4 DEF p, Fresh
<1>9. /\ entry.refusals \in Nat /\ session.failed \in {"no", "refused"}
      /\ session.failed = "refused" => entry.nothing \/ ~present
  BY CacheAssumption DEF IInv, OpInv, CacheInv, Entry
<1>10. Going(op, entry)'
  <2>1. Refusals(op, entry)'
    BY <1>8, <1>9 DEF Refusals
  <2>2. Marks(op, entry)'
    BY <1>8, CacheAssumption DEF Marks
  <2>3. Unhalted(op)'
    BY <1>8, FlowsAssumption DEF Unhalted
  <2> QED
    BY <1>8, <2>1, <2>2, <2>3 DEF Going
<1>11. Accounted(op, entry, Open)'
  BY <1>8 DEF Accounted, One
<1>12. Verdict(op, session.failed)'
  BY <1>8, <1>9 DEF Verdict
<1>13. op'.step # "window" /\ op'.step # "idle" /\ op'.step # "done"
  BY <1>3
<1>14. OpInv'
  BY Zenon, <1>5, <1>6, <1>7, <1>8, <1>9, <1>10, <1>11, <1>12, <1>13 DEF OpInv
<1> QED
  BY <1>8, <1>13, <1>14, NothingReported

\* It starts and ends at once: the card is gone, the request is refused, or
\* what it wants is cached.
LEMMA StartEndsStep ==
    ASSUME IInv, UNCHANGED <<entry, session, present>>, NEW flow \in Flows, NEW docs \in 0..kMaxBatchDocuments + 1,
           NEW code, NEW data \in BOOLEAN, op' = Ends([Fresh(flow, docs) EXCEPT !.data = data], code),
           \/ code \in {"CardRemoved", "Communication", "Invalid"}
           \/ code = "Unsupported" /\ flow \in Mutations
           \/ code = "Ok" /\ flow \in Reads
    PROVE  OpInv' /\ Reported'
<1> DEFINE q == Fresh(flow, docs)
           p == [q EXCEPT !.data = data]
<1>1. Shape(q) /\ Typed(q) /\ Steady(q)
  BY Zenon, FreshFields DEF IInv, CacheInv
<1>2. Shape(p) /\ (\A f \in Fields \ {"data"} : p[f] = q[f]) /\ p.data = data
  BY Zenon, <1>1 DEF Shape, Fields
<1>3. /\ q.attempts = 0 /\ q.rejected = 0 /\ q.broken = 0 /\ q.emptied = FALSE /\ q.flow = flow
  BY Zenon DEF Fresh
<1> HIDE DEF q, p
<1>4. /\ p.flow = q.flow /\ p.token = q.token /\ p.docs = q.docs /\ p.rows = q.rows /\ p.asked = q.asked
      /\ p.asks = q.asks /\ p.generation = q.generation /\ p.attempts = q.attempts /\ p.step = q.step
      /\ p.prompterFailed = q.prompterFailed /\ p.userCancelled = q.userCancelled
      /\ p.entryExpired = q.entryExpired /\ p.helperTooOld = q.helperTooOld
      /\ p.marking = q.marking /\ p.markedWrong = q.markedWrong /\ p.sink = q.sink
      /\ p.again = q.again /\ p.pin = q.pin /\ p.result = q.result
      /\ p.rejected = q.rejected /\ p.broken = q.broken
      /\ p.windows = q.windows /\ p.emptied = q.emptied /\ p.parked = q.parked
      /\ p.pinWindows = q.pinWindows /\ p.wrongPins = q.wrongPins /\ p.signed = q.signed
  BY <1>2 DEF Fields
<1>5. Typed(p)
  BY Zenon, <1>1, <1>2, <1>4 DEF Typed
<1>6. Steady(p)
  BY Zenon, <1>1, <1>4 DEF Steady, Counted
<1>7. op' = Ends(p, code)
  BY Zenon DEF p, q
<1>8. code \in Codes /\ code \notin {"AuthFailed", "PinWrong", "PinBlocked", "Cancelled", "none"}
  BY DEF Codes
<1>9. session'.failed = "refused" => entry'.nothing \/ ~present'
  BY Zenon DEF IInv, OpInv
<1>10. OpInv'
  BY Zenon, <1>2, <1>5, <1>6, <1>7, <1>8, <1>9, EndsStep
<1>11. Ended(p, code, op')
  BY Zenon, <1>2, <1>7, EndsFields
<1>12. /\ op'.attempts = 0 /\ op'.rejected = 0 /\ op'.broken = 0 /\ op'.emptied = FALSE /\ op'.flow = flow
       /\ op'.result \in {"none", code}
  BY <1>3, <1>4, <1>11 DEF Ended, Same, Fields
<1>13. RowsMatchDocuments'
  BY <1>8, <1>12 DEF RowsMatchDocuments, Reads, Mutations
<1> QED
  BY <1>8, <1>10, <1>12, <1>13 DEF Reported, AttemptsAreRejections, RejectedSecretIsDropped, OutcomeIsHonest,
     RefusalIsNoEmptyRead

\* The worker is free again.
LEMMA ReturnStep == ASSUME IInv, Return PROVE OpInv' /\ Reported'
<1> DEFINE q == Fresh("identity", 0)
<1>1. Shape(q) /\ Typed(q) /\ Steady(q)
  <2>1. "identity" \in Flows /\ 0 \in 0..kMaxBatchDocuments + 1
    BY FlowsAssumption DEF Flows, Reads
  <2> QED
    BY Zenon, <2>1, FreshFields DEF IInv, CacheInv
<1>2. q.attempts = 0 /\ q.rejected = 0 /\ q.marking = FALSE
  BY Zenon DEF Fresh
<1>3. PICK token \in {"live", "shutdown"} : op' = [q EXCEPT !.step = "idle", !.generation = 0, !.token = token]
  BY Zenon DEF Return
<1>4. UNCHANGED <<entry, present>> /\ session' = [session EXCEPT !.failed = IF @ = "refused" THEN @ ELSE "no"]
  BY Zenon DEF Return
<1> HIDE DEF q
<1>5. Shape(op')
  BY ZenonT(30), <1>1, <1>3 DEF Shape, Fields
<1>6. \A f \in Fields \ {"step", "generation", "token"} : op'[f] = q[f]
  BY Zenon, <1>1, <1>3 DEF Shape, Fields
<1>7. op'.step = "idle" /\ op'.generation = 0 /\ op'.token = token
  BY <1>1, <1>3 DEF Shape, Fields
<1>8. /\ op'.flow = q.flow /\ op'.docs = q.docs /\ op'.rows = q.rows /\ op'.asked = q.asked
      /\ op'.asks = q.asks /\ op'.attempts = q.attempts
      /\ op'.prompterFailed = q.prompterFailed /\ op'.userCancelled = q.userCancelled
      /\ op'.entryExpired = q.entryExpired /\ op'.helperTooOld = q.helperTooOld
      /\ op'.marking = q.marking /\ op'.markedWrong = q.markedWrong /\ op'.sink = q.sink
      /\ op'.again = q.again /\ op'.pin = q.pin /\ op'.result = q.result /\ op'.data = q.data
      /\ op'.rejected = q.rejected /\ op'.broken = q.broken
      /\ op'.windows = q.windows /\ op'.emptied = q.emptied /\ op'.parked = q.parked
      /\ op'.pinWindows = q.pinWindows /\ op'.wrongPins = q.wrongPins /\ op'.signed = q.signed
  BY <1>6 DEF Fields
<1>9. Typed(op')
  <2>1. 0 \in 0..MaxRefusals
    BY CacheAssumption
  <2> QED
    BY Zenon, <1>1, <1>7, <1>8, <2>1 DEF Typed
<1>10. Steady(op')
  BY Zenon, <1>1, <1>8 DEF Steady, Counted
<1>11. /\ session'.failed \in {"no", "refused"}
       /\ session'.failed = "refused" => entry'.nothing \/ ~present'
  BY <1>4 DEF IInv, OpInv, CacheInv, Sessions
<1>12. op'.step \notin {"walk", "window", "pin", "done"}
  BY <1>7
<1>13. OpInv'
  BY Zenon, <1>2, <1>5, <1>8, <1>9, <1>10, <1>11, <1>12 DEF OpInv, Running
<1> QED
  BY <1>2, <1>8, <1>12, <1>13, NothingReported

-----------------------------------------------------------------------------
(* The credential provider.                                                *)

\* What is known of an ask when its answer goes to the card.
Answering(o, e, answer, secret) ==
    /\ Shape(o) /\ Typed(o) /\ Counted(o) /\ Due(o)
    /\ o.attempts <= o.asks /\ o.attempts <= o.rejected /\ Refusals(o, e) /\ Unhalted(o) /\ o.step # "pin"
    /\ present => Accounted(o, e, IF answer \in {"broken", "parked"} THEN Kinds ELSE {})
    /\ answer \in {"ok", "refused", "broken", "parked", "capped"}
    /\ answer = "ok" => secret \in {"right", "wrong"} /\ (TracksMarks(o.flow) => o.attempts < kMaxPaceAttempts \/ o.parked)
    /\ answer # "ok" => Marks(o, e)
    /\ answer = "capped" => o.attempts >= kMaxPaceAttempts
    /\ answer = "refused" => e.nothing /\ (o.flow \in Reads => o.userCancelled \/ o.entryExpired)
    /\ answer = "parked" \/ (o.parked => o.broken > 0)

\* Asks that are accounted for stay so, however many windows may open.
LEMMA AccountedMore ==
    ASSUME NEW o, Typed(o), NEW e, NEW open, Accounted(o, e, open)
    PROVE  Accounted(o, e, Kinds)
<1>1. o.attempts \in Nat /\ o.broken \in Nat /\ \A k \in Kinds : o.windows[k] \in Nat
  BY Zenon, TypedNumbers DEF Numbers
<1>2. ASSUME NEW k \in Kinds
      PROVE  o.windows[k] <= o.attempts + o.broken + One(e[k] # "none") + One(o.emptied) + One(k \in Kinds)
  <2>1. o.windows[k] <= o.attempts + o.broken + One(e[k] # "none") + One(o.emptied) + One(k \in open)
    BY Zenon DEF Accounted
  <2> QED
    BY <1>1, <2>1 DEF One
<1> QED
  BY Zenon, <1>2 DEF Accounted

\* The record after the card has had its answer.
ProvidedTo(o, answer, secret, p) ==
    /\ Same(o, p, {"step", "marking", "markedWrong", "rejected", "broken"})
    /\ p.step = "walk" /\ p.marking = FALSE
    /\ p.markedWrong = (TracksMarks(o.flow) /\ answer # "ok" /\ (o.marking \/ o.markedWrong))
    /\ p.rejected = o.rejected + One(answer = "ok" /\ present /\ secret = "wrong")
    /\ p.broken = o.broken + One(answer \in {"broken", "parked"} \/ (answer = "ok" /\ ~present))

\* What the provider's answer does to the operation.
LEMMA ProvidedFields ==
    ASSUME NEW o, Shape(o), NEW answer, NEW secret, Provided(o, answer, secret)
    PROVE  ProvidedTo(o, answer, secret, op')
<1> DEFINE m == MarkAfter(o, answer)
<1>1. Shape(m)
  BY ZenonT(30) DEF MarkAfter, Shape, Fields
<1>2. \A f \in Fields \ {"marking", "markedWrong"} : m[f] = o[f]
  BY Zenon DEF MarkAfter, Shape, Fields
<1>3. /\ m.marking = FALSE
      /\ m.markedWrong = (TracksMarks(o.flow) /\ answer # "ok" /\ (o.marking \/ o.markedWrong))
  BY Zenon DEF MarkAfter, Shape, Fields
<1>4. m.rejected = o.rejected /\ m.broken = o.broken
  BY <1>2 DEF Fields
<1>5. op' = [m EXCEPT !.step = "walk",
                      !.rejected = @ + One(answer = "ok" /\ present /\ secret = "wrong"),
                      !.broken = @ + One(answer \in {"broken", "parked"} \/ (answer = "ok" /\ ~present))]
  BY Zenon DEF Provided, One
<1> HIDE DEF m
<1>6. Shape(op')
  BY ZenonT(40), <1>1, <1>5 DEF Shape, Fields
<1>7. \A f \in Fields \ {"step", "rejected", "broken"} : op'[f] = m[f]
  BY Zenon, <1>1, <1>5 DEF Shape, Fields
<1>8. /\ op'.step = "walk"
      /\ op'.rejected = m.rejected + One(answer = "ok" /\ present /\ secret = "wrong")
      /\ op'.broken = m.broken + One(answer \in {"broken", "parked"} \/ (answer = "ok" /\ ~present))
  BY Zenon, <1>1, <1>5 DEF Shape, Fields
<1>9. op'.marking = m.marking /\ op'.markedWrong = m.markedWrong
  BY <1>7 DEF Fields
<1>10. \A f \in Fields \ {"step", "marking", "markedWrong", "rejected", "broken"} : op'[f] = o[f]
  BY Zenon, <1>2, <1>7
<1> QED
  BY Zenon, <1>3, <1>4, <1>6, <1>8, <1>9, <1>10 DEF ProvidedTo, Same

\* An answer of the provider is counted once: as a verdict or as a break.
LEMMA AnswerStep ==
    ASSUME IInv, NEW o, NEW answer, NEW secret, Answering(o, entry', answer, secret), Provided(o, answer, secret),
           present' = present
    PROVE  OpInv' /\ Reported'
<1>1. ProvidedTo(o, answer, secret, op')
  BY Zenon, ProvidedFields DEF Answering
<1>2. Shape(op')
  BY Zenon, <1>1 DEF ProvidedTo, Same
<1>3. /\ op'.flow = o.flow /\ op'.token = o.token /\ op'.docs = o.docs /\ op'.rows = o.rows /\ op'.asked = o.asked
      /\ op'.asks = o.asks /\ op'.generation = o.generation /\ op'.attempts = o.attempts
      /\ op'.prompterFailed = o.prompterFailed /\ op'.userCancelled = o.userCancelled
      /\ op'.entryExpired = o.entryExpired /\ op'.helperTooOld = o.helperTooOld /\ op'.sink = o.sink
      /\ op'.again = o.again /\ op'.pin = o.pin /\ op'.result = o.result /\ op'.data = o.data
      /\ op'.windows = o.windows /\ op'.emptied = o.emptied /\ op'.parked = o.parked
      /\ op'.pinWindows = o.pinWindows /\ op'.wrongPins = o.wrongPins /\ op'.signed = o.signed
  BY <1>1 DEF ProvidedTo, Same, Fields
<1>4. /\ op'.step = "walk" /\ op'.marking = FALSE
      /\ op'.markedWrong = (TracksMarks(o.flow) /\ answer # "ok" /\ (o.marking \/ o.markedWrong))
      /\ op'.rejected = o.rejected + One(answer = "ok" /\ present /\ secret = "wrong")
      /\ op'.broken = o.broken + One(answer \in {"broken", "parked"} \/ (answer = "ok" /\ ~present))
  BY Zenon, <1>1 DEF ProvidedTo
<1>5. /\ o.asks \in 0..MaxAsks /\ o.attempts \in Nat /\ o.rejected \in Nat /\ o.broken \in Nat
      /\ MaxAsks \in Nat /\ kMaxPaceAttempts \in Nat /\ \A k \in Kinds : o.windows[k] \in Nat
  BY Zenon, TypedNumbers, Bounds DEF Answering, Numbers
<1>6. /\ op'.rejected + op'.broken <= o.asks + One(o.again) /\ op'.broken <= o.asks
      /\ op'.rejected >= o.rejected /\ op'.broken >= o.broken /\ op'.rejected \in Nat /\ op'.broken \in Nat
  <2>1. /\ o.rejected + o.broken < o.asks + One(o.again) /\ o.broken < o.asks
    BY Zenon DEF Answering, Due
  <2> QED
    BY <1>4, <1>5, <2>1 DEF One
<1>7. op'.rejected \in 0..MaxAsks + 1 /\ op'.broken \in 0..MaxAsks
  BY <1>5, <1>6 DEF One
<1>8. Typed(op')
  <2>1. op'.markedWrong \in BOOLEAN
    BY Zenon, <1>4
  <2> QED
    BY Zenon, <1>3, <1>4, <1>7, <2>1 DEF Answering, Typed
<1>9. Steady(op')
  <2>1. Counted(op')
    <3>1. Counted(o)
      BY Zenon DEF Answering
    <3> QED
      BY <1>3, <1>5, <1>6, <3>1 DEF Counted
  <2>2. op'.parked => op'.broken > 0
    <3>1. o.parked => o.broken > 0 \/ answer = "parked"
      BY Zenon DEF Answering
    <3>2. op'.parked = o.parked /\ op'.broken = o.broken + One(answer \in {"broken", "parked"} \/ (answer = "ok" /\ ~present))
      BY Zenon, <1>3, <1>4
    <3>3. o.broken \in Nat
      BY Zenon, <1>5
    <3> QED
      BY <3>1, <3>2, <3>3 DEF One
  <2> QED
    BY <2>1, <2>2 DEF Steady
<1>10. Going(op, entry)'
  <2>1. op'.attempts <= op'.asks /\ op'.attempts <= op'.rejected
    BY <1>3, <1>5, <1>6 DEF Answering
  <2>2. Refusals(op, entry)'
    BY Zenon, <1>3 DEF Answering, Refusals
  <2>3. Marks(op, entry)'
    <3>1. CASE answer = "ok"
      <4>1. TracksMarks(o.flow) => o.attempts < kMaxPaceAttempts \/ o.parked
        BY Zenon, <3>1 DEF Answering
      <4>2. o.attempts < kMaxPaceAttempts => ~(o.attempts >= kMaxPaceAttempts)
        BY <1>5
      <4> QED
        BY Zenon, <1>3, <1>4, <3>1, <4>1, <4>2 DEF Marks
    <3>2. CASE answer # "ok"
      BY Zenon, <1>3, <1>4, <3>2 DEF Answering, Marks
    <3> QED
      BY Zenon, <3>1, <3>2
  <2>4. Unhalted(op)'
    <3>1. Unhalted(o) /\ o.step # "pin"
      BY Zenon DEF Answering
    <3> QED
      BY Zenon, <1>3, <3>1 DEF Unhalted
  <2> QED
    BY Zenon, <2>1, <2>2, <2>3, <2>4 DEF Going
<1>11. present => Accounted(op, entry, {})'
  BY <1>3, <1>4, <1>5 DEF Answering, Accounted, One
<1>12. session'.failed = CASE answer = "refused" -> "refused"
                           [] answer = "ok" /\ present /\ secret = "right" -> "no"
                           [] answer = "ok" /\ present /\ secret # "right" -> "rejected"
                           [] OTHER -> "yes"
  BY DEF Provided, IInv, CacheInv, Sessions
<1>13. Verdict(op, session.failed)'
  BY <1>3, <1>4, <1>5, <1>6, <1>12 DEF Answering, Verdict, One
<1>14. session'.failed = "refused" => entry'.nothing
  BY <1>12 DEF Answering
<1>15. op'.step # "window" /\ op'.step # "idle" /\ op'.step # "done" /\ Open' = {}
  BY <1>4 DEF Open
<1>16. OpInv'
  BY Zenon, <1>2, <1>4, <1>8, <1>9, <1>10, <1>11, <1>13, <1>14, <1>15 DEF OpInv
<1>17. op'.attempts <= op'.rejected /\ op'.attempts \in Nat
  BY <1>3, <1>5, <1>6 DEF Answering
<1> QED
  BY Zenon, <1>6, <1>15, <1>16, <1>17, NothingReported

\* An ask is counted: a verdict of the card is one it gave in this operation
\* and that nobody has counted.
Asking(o, e) ==
    /\ Shape(o) /\ Typed(o) /\ Steady(o) /\ Due(o) /\ Going(o, e) /\ Accounted(o, e, {}) /\ o.step = "walk"
    /\ \A k \in Kinds : o.windows[k] < o.asks
    /\ e \in Entry /\ e.nothing = entry.nothing

\* An ask of the card is counted, and with the rejection signal it is an attempt.
LEMMA AskedFields ==
    ASSUME NEW signal, Shape(op), NEW o, o = Asked(signal)
    PROVE  /\ Same(op, o, {"asks", "attempts", "marking"})
           /\ o.asks = op.asks + 1 /\ o.attempts = op.attempts + One(signal) /\ o.marking = signal
<1>1. Shape(o)
  BY ZenonT(30) DEF Asked, Shape, Fields
<1>2. \A f \in Fields \ {"asks", "attempts", "marking"} : o[f] = op[f]
  BY Zenon DEF Asked, Shape, Fields
<1>3. o.asks = op.asks + 1 /\ o.attempts = op.attempts + One(signal) /\ o.marking = signal
  BY Zenon DEF Asked, Shape, Fields, One
<1> QED
  BY Zenon, <1>1, <1>2, <1>3 DEF Same

\* An ask takes the verdict on the secret before it.
LEMMA AskCounted ==
    ASSUME IInv, CanAsk, NEW reason \in BOOLEAN, reason => session.failed \in {"rejected", "refused"},
           NEW signal, signal = isCardRejectionSignal(entry, reason)
    PROVE  Asking(Asked(signal), noteRejectedSecret(entry, signal))
<1> DEFINE o == Asked(signal)
           e == noteRejectedSecret(entry, signal)
<1>1. /\ Shape(op) /\ Typed(op) /\ Steady(op) /\ Going(op, entry) /\ Accounted(op, entry, Open)
      /\ Verdict(op, session.failed) /\ ~op.marking /\ entry \in Entry
      /\ session.failed = "refused" => entry.nothing
  <2>1. op.step \in {"walk", "pin"} /\ op.step \in {"walk", "window", "pin"} /\ op.step # "window" /\ present
    BY DEF CanAsk
  <2> QED
    BY Zenon, <2>1 DEF IInv, OpInv, CacheInv, Running
<1>2. op.step = "walk" /\ present /\ op.asks < MaxAsks /\ Open = {}
  BY DEF CanAsk, Open
<1>3. /\ op.asks \in 0..MaxAsks /\ op.attempts \in Nat /\ op.rejected \in Nat /\ op.broken \in Nat
      /\ MaxAsks \in Nat /\ kMaxPaceAttempts \in Nat /\ \A k \in Kinds : op.windows[k] \in Nat
  BY Zenon, <1>1, TypedNumbers, Bounds DEF Numbers
<1>4. signal \in BOOLEAN /\ (signal => op.attempts < op.rejected)
  <2>1. signal \in BOOLEAN /\ (signal => reason /\ ~entry.nothing)
    BY Zenon, <1>1 DEF isCardRejectionSignal, Entry
  <2>2. signal => session.failed = "rejected"
    BY <1>1, <2>1
  <2> QED
    BY Zenon, <1>1, <1>2, <2>1, <2>2 DEF Verdict
<1>5. /\ Same(op, o, {"asks", "attempts", "marking"})
      /\ o.asks = op.asks + 1 /\ o.attempts = op.attempts + One(signal) /\ o.marking = signal
  BY Zenon, <1>1, AskedFields
<1>6. /\ e \in Entry /\ e.refusals = entry.refusals /\ e.nothing = entry.nothing
      /\ signal => Empty(e) /\ \A k \in Kinds : e[k] = "none"
      /\ ~signal => e = entry
  BY Zenon, <1>1, EntryWiped DEF noteRejectedSecret
<1> HIDE DEF o, e
<1>7. Shape(o)
  BY Zenon, <1>5 DEF Same
<1>8. /\ o.flow = op.flow /\ o.step = op.step /\ o.token = op.token /\ o.docs = op.docs /\ o.rows = op.rows
      /\ o.asked = op.asked /\ o.generation = op.generation
      /\ o.prompterFailed = op.prompterFailed /\ o.userCancelled = op.userCancelled
      /\ o.entryExpired = op.entryExpired /\ o.helperTooOld = op.helperTooOld
      /\ o.markedWrong = op.markedWrong /\ o.sink = op.sink
      /\ o.again = op.again /\ o.pin = op.pin /\ o.result = op.result /\ o.data = op.data
      /\ o.rejected = op.rejected /\ o.broken = op.broken
      /\ o.windows = op.windows /\ o.emptied = op.emptied /\ o.parked = op.parked
      /\ o.pinWindows = op.pinWindows /\ o.wrongPins = op.wrongPins /\ o.signed = op.signed
  BY <1>5 DEF Same, Fields
<1>9. o.asks \in 0..MaxAsks /\ o.attempts \in 0..MaxAsks + 1 /\ o.attempts <= o.asks /\ o.attempts <= o.rejected
  BY <1>1, <1>2, <1>3, <1>4, <1>5, <1>8 DEF Going, One
<1>10. Typed(o)
  BY Zenon, <1>1, <1>4, <1>5, <1>8, <1>9 DEF Typed
<1>11. Steady(o) /\ Due(o) /\ \A k \in Kinds : o.windows[k] < o.asks
  <2>1. /\ op.rejected + op.broken <= op.asks + One(op.again) /\ op.broken <= op.asks
        /\ \A k \in Kinds : op.windows[k] <= op.asks /\ op.windows[k] <= kMaxPaceAttempts + op.broken
    BY Zenon, <1>1 DEF Steady, Counted
  <2>2. Due(o)
    BY <1>3, <1>5, <1>8, <2>1 DEF Due, One
  <2>3. \A k \in Kinds : o.windows[k] < o.asks
    BY <1>3, <1>5, <1>8, <2>1
  <2>4. /\ o.rejected + o.broken <= o.asks + One(o.again) /\ o.broken <= o.asks /\ o.attempts <= o.asks + 1
        /\ \A k \in Kinds : o.windows[k] <= o.asks /\ o.windows[k] <= kMaxPaceAttempts + o.broken
    BY <1>3, <1>5, <1>8, <1>9, <2>1 DEF One
  <2> QED
    BY Zenon, <1>1, <1>8, <2>2, <2>3, <2>4 DEF Steady, Counted
<1>12. Going(o, e)
  <2>1. Refusals(o, e)
    BY Zenon, <1>1, <1>6, <1>8 DEF Going, Refusals
  <2>2. Marks(o, e)
    <3>1. CASE signal
      BY Zenon, <1>5, <1>6, <3>1 DEF Marks
    <3>2. CASE ~signal
      <4>1. o.attempts = op.attempts
        BY <1>3, <1>5, <3>2 DEF One
      <4> QED
        BY Zenon, <1>1, <1>5, <1>6, <1>8, <3>2, <4>1 DEF Going, Marks
    <3> QED
      BY Zenon, <1>4, <3>1, <3>2
  <2>3. Unhalted(o)
    BY Zenon, <1>1, <1>8 DEF Going, Unhalted
  <2> QED
    BY Zenon, <1>9, <2>1, <2>2, <2>3 DEF Going
<1>13. Accounted(o, e, {})
  <2>1. Accounted(op, entry, {})
    BY Zenon, <1>1, <1>2
  <2>2. CASE signal
    BY <1>3, <1>5, <1>6, <1>8, <2>1, <2>2 DEF Accounted, One
  <2>3. CASE ~signal
    BY <1>3, <1>5, <1>6, <1>8, <2>1, <2>3 DEF Accounted, One
  <2> QED
    BY Zenon, <1>4, <2>2, <2>3
<1> QED
  BY Zenon, <1>2, <1>6, <1>7, <1>8, <1>10, <1>11, <1>12, <1>13 DEF Asking, o, e

\* An ask that raises a window.
LEMMA RaiseStep ==
    ASSUME IInv, present, present' = present, session' = session, NEW o, Asking(o, entry'), NEW kind \in Kinds,
           entry'[kind] = "none", entry'.refusals <= o.generation, o.attempts < kMaxPaceAttempts,
           op' = [o EXCEPT !.step = "window", !.asked = kind, !.windows[kind] = @ + 1]
    PROVE  OpInv' /\ Reported'
<1>1. /\ Shape(o) /\ Typed(o) /\ Steady(o) /\ Due(o) /\ Going(o, entry') /\ Accounted(o, entry', {}) /\ o.step = "walk"
      /\ (\A k \in Kinds : o.windows[k] < o.asks) /\ entry' \in Entry /\ entry'.nothing = entry.nothing
  BY Zenon DEF Asking
<1>2. Shape(op')
  BY ZenonT(30), <1>1 DEF Shape, Fields
<1>3. \A f \in Fields \ {"step", "asked", "windows"} : op'[f] = o[f]
  BY Zenon, <1>1 DEF Shape, Fields
<1>4. op'.step = "window" /\ op'.asked = kind /\ op'.windows = [o.windows EXCEPT ![kind] = @ + 1]
  BY Zenon, <1>1 DEF Shape, Fields
<1>5. /\ op'.flow = o.flow /\ op'.token = o.token /\ op'.docs = o.docs /\ op'.rows = o.rows
      /\ op'.asks = o.asks /\ op'.generation = o.generation /\ op'.attempts = o.attempts
      /\ op'.prompterFailed = o.prompterFailed /\ op'.userCancelled = o.userCancelled
      /\ op'.entryExpired = o.entryExpired /\ op'.helperTooOld = o.helperTooOld
      /\ op'.marking = o.marking /\ op'.markedWrong = o.markedWrong /\ op'.sink = o.sink
      /\ op'.again = o.again /\ op'.pin = o.pin /\ op'.result = o.result /\ op'.data = o.data
      /\ op'.rejected = o.rejected /\ op'.broken = o.broken /\ op'.emptied = o.emptied /\ op'.parked = o.parked
      /\ op'.pinWindows = o.pinWindows /\ op'.wrongPins = o.wrongPins /\ op'.signed = o.signed
  BY <1>3 DEF Fields
<1>6. \A k \in Kinds : op'.windows[k] = IF k = kind THEN o.windows[k] + 1 ELSE o.windows[k]
  <2>1. o.windows \in [Kinds -> 0..MaxAsks]
    BY Zenon, <1>1 DEF Typed
  <2> QED
    BY Zenon, <1>4, <2>1
<1>7. /\ o.asks \in 0..MaxAsks /\ o.attempts \in Nat /\ o.rejected \in Nat /\ o.broken \in Nat
      /\ MaxAsks \in Nat /\ kMaxPaceAttempts \in Nat /\ \A k \in Kinds : o.windows[k] \in Nat
  BY Zenon, <1>1, TypedNumbers, Bounds DEF Numbers
<1>8. ~o.emptied
  <2>1. entry'.refusals \in Nat /\ o.generation \in Nat
    BY Zenon, <1>1, TypedNumbers, EntryNumbers DEF Numbers
  <2> QED
    BY <1>1, <2>1 DEF Going, Refusals
<1>9. \A k \in Kinds : o.windows[k] <= o.attempts + o.broken + One(entry'[k] # "none")
  BY <1>1, <1>7, <1>8 DEF Accounted, One
<1>10. \A k \in Kinds : /\ op'.windows[k] <= o.asks
                        /\ op'.windows[k] <= kMaxPaceAttempts + o.broken
                        /\ op'.windows[k] \in 0..MaxAsks
  <2> SUFFICES ASSUME NEW k \in Kinds
               PROVE  /\ op'.windows[k] <= o.asks
                      /\ op'.windows[k] <= kMaxPaceAttempts + o.broken
                      /\ op'.windows[k] \in 0..MaxAsks
    BY Zenon
  <2>1. o.windows[k] < o.asks /\ o.windows[k] <= kMaxPaceAttempts + o.broken
    BY Zenon, <1>1 DEF Steady, Counted
  <2>2. k = kind => o.windows[k] <= o.attempts + o.broken
    BY <1>7, <1>9 DEF One
  <2> QED
    BY <1>6, <1>7, <2>1, <2>2
<1>11. Typed(op')
  <2>1. op'.windows \in [Kinds -> 0..MaxAsks]
    BY Zenon, <1>1, <1>4, <1>10 DEF Typed
  <2> QED
    BY Zenon, <1>1, <1>4, <1>5, <2>1 DEF Typed
<1>12. Steady(op')
  BY Zenon, <1>1, <1>5, <1>10 DEF Steady, Counted
<1>13. Going(op, entry)'
  <2>1. Refusals(op, entry)'
    BY Zenon, <1>1, <1>5 DEF Going, Refusals
  <2>2. Marks(op, entry)'
    BY Zenon, <1>1, <1>5 DEF Going, Marks
  <2>3. o.step # "pin"
    BY <1>1
  <2>4. Unhalted(op)'
    BY <1>1, <1>5, <2>3 DEF Going, Unhalted
  <2> QED
    BY Zenon, <1>1, <1>5, <2>1, <2>2, <2>4 DEF Going
<1>14. Accounted(op, entry, {kind})'
  BY <1>5, <1>6, <1>7, <1>8, <1>9 DEF Accounted, One
<1>15. AtWindow'
  BY Zenon, <1>1, <1>4, <1>5, <1>8 DEF AtWindow, Due
<1>16. op'.step \notin {"walk", "pin", "idle", "done"} /\ Open' = {kind}
  BY <1>4 DEF Open
<1>17. session'.failed = "refused" => entry'.nothing \/ ~present'
  BY Zenon, <1>1 DEF IInv, OpInv
<1>18. OpInv'
  BY Zenon, <1>2, <1>4, <1>11, <1>12, <1>13, <1>14, <1>15, <1>16, <1>17 DEF OpInv
<1>19. op'.attempts <= op'.rejected /\ op'.attempts \in Nat /\ op'.rejected \in Nat
  BY <1>1, <1>5, <1>7 DEF Going
<1> QED
  BY Zenon, <1>16, <1>18, <1>19, NothingReported

\* An operation that falls silent is told which refusal it was.
LEMMA SilencedFields ==
    ASSUME NEW o, Shape(o), Typed(o), NEW p, p = Silenced(o)
    PROVE  /\ Same(o, p, {"userCancelled", "entryExpired"})
           /\ p.userCancelled \in BOOLEAN /\ p.entryExpired \in BOOLEAN
           /\ o.flow \in Reads => p.userCancelled \/ p.entryExpired
<1>1. Shape(p)
  BY ZenonT(30) DEF Silenced, Shape, Fields
<1>2. \A f \in Fields \ {"userCancelled", "entryExpired"} : p[f] = o[f]
  BY Zenon DEF Silenced, Shape, Fields
<1>3. \/ p.userCancelled = (o.userCancelled \/ SeesCancel(o.flow)) /\ p.entryExpired = o.entryExpired
      \/ p.entryExpired = (o.entryExpired \/ SeesExpiry(o.flow)) /\ p.userCancelled = o.userCancelled
  BY Zenon DEF Silenced, Shape, Fields
<1>4. o.flow \in Reads => SeesCancel(o.flow) /\ SeesExpiry(o.flow)
  BY DEF SeesCancel, SeesExpiry, Reads, Mutations
<1> QED
  BY Zenon, <1>1, <1>2, <1>3, <1>4 DEF Same, Typed

\* requestCredential, whatever it decides before a window.
LEMMA RequestStep ==
    ASSUME IInv, present, present' = present, NEW o, Asking(o, entry'), NEW kind, requestCredential(o, entry', kind)
    PROVE  OpInv' /\ Reported'
<1>1. /\ Shape(o) /\ Typed(o) /\ Counted(o) /\ Due(o) /\ Going(o, entry') /\ Accounted(o, entry', {})
      /\ o.step = "walk" /\ (o.parked => o.broken > 0) /\ entry' \in Entry
  BY Zenon DEF Asking, Steady
<1>2. /\ o.attempts <= o.asks /\ o.attempts <= o.rejected /\ Refusals(o, entry') /\ Marks(o, entry') /\ Unhalted(o)
      /\ o.step # "pin"
  <2>1. o.step # "pin"
    BY <1>1
  <2> QED
    BY Zenon, <1>1, <2>1 DEF Going
<1>3. /\ o.asks \in 0..MaxAsks /\ o.attempts \in Nat /\ o.rejected \in Nat /\ o.broken \in Nat
      /\ MaxAsks \in Nat /\ kMaxPaceAttempts \in Nat /\ (\A k \in Kinds : o.windows[k] \in Nat)
      /\ o.generation \in Nat /\ entry'.refusals \in Nat
  BY Zenon, <1>1, TypedNumbers, EntryNumbers, Bounds DEF Numbers
<1> DEFINE next == BeforeWindow(entry', kind, o.generation, o.attempts)
<1>4. next \in {"error", "cached", "silenced", "capped", "window"}
  BY DEF BeforeWindow
<1>5. /\ next \in {"cached", "window"} => kind \in Kinds
      /\ next = "cached" => entry'[kind] # "none"
      /\ next = "silenced" => entry'.refusals > o.generation
      /\ next = "capped" => o.attempts >= kMaxPaceAttempts
      /\ next = "window" => entry'[kind] = "none" /\ entry'.refusals <= o.generation /\ o.attempts < kMaxPaceAttempts
  BY <1>3 DEF BeforeWindow, stillWantedFor, Exhausted
<1>6. /\ next = "cached" => Provided(o, "ok", entry'[kind])
      /\ next = "silenced" => Provided(Silenced(o), "refused", "none")
      /\ next = "error" => Provided(o, "broken", "none")
      /\ next = "capped" => Provided(o, "capped", "none")
      /\ next = "window" => /\ op' = [o EXCEPT !.step = "window", !.asked = kind, !.windows[kind] = @ + 1]
                           /\ session' = session
  BY Zenon DEF requestCredential
<1> HIDE DEF next
<1>7. CASE next = "cached"
  <2>1. entry'[kind] \in {"right", "wrong"} /\ ~Empty(entry')
    <3>1. entry'[kind] \in Secrets
      BY <1>1, <1>5, <1>7 DEF Entry, Kinds
    <3>2. kind \in Kinds /\ entry'[kind] # "none"
      BY <1>5, <1>7
    <3>3. ~Empty(entry')
      BY Zenon, <3>2, EntryEmpty
    <3> QED
      BY <3>1, <3>2, <3>3 DEF Secrets
  <2>2. TracksMarks(o.flow) => o.attempts < kMaxPaceAttempts \/ o.parked
    BY <1>2, <1>3, <2>1 DEF Marks
  <2>3. Answering(o, entry', "ok", entry'[kind])
    BY <1>1, <1>2, <2>1, <2>2 DEF Answering
  <2> QED
    BY Zenon, <1>6, <1>7, <2>3, AnswerStep
<1>8. CASE next = "silenced"
  <2> DEFINE p == Silenced(o)
  <2>1. /\ Same(o, p, {"userCancelled", "entryExpired"})
        /\ p.userCancelled \in BOOLEAN /\ p.entryExpired \in BOOLEAN
        /\ o.flow \in Reads => p.userCancelled \/ p.entryExpired
    BY Zenon, <1>1, SilencedFields
  <2> HIDE DEF p
  <2>2. Shape(p)
    BY Zenon, <2>1 DEF Same
  <2>3. /\ p.flow = o.flow /\ p.token = o.token /\ p.docs = o.docs /\ p.rows = o.rows /\ p.asked = o.asked
        /\ p.asks = o.asks /\ p.generation = o.generation /\ p.attempts = o.attempts /\ p.step = o.step
        /\ p.prompterFailed = o.prompterFailed /\ p.helperTooOld = o.helperTooOld
        /\ p.marking = o.marking /\ p.markedWrong = o.markedWrong /\ p.sink = o.sink
        /\ p.again = o.again /\ p.pin = o.pin /\ p.result = o.result /\ p.data = o.data
        /\ p.rejected = o.rejected /\ p.broken = o.broken
        /\ p.windows = o.windows /\ p.emptied = o.emptied /\ p.parked = o.parked
        /\ p.pinWindows = o.pinWindows /\ p.wrongPins = o.wrongPins /\ p.signed = o.signed
    BY <2>1 DEF Same, Fields
  <2>4. o.emptied /\ entry'.nothing
    BY <1>2, <1>5, <1>8 DEF Refusals
  <2>5. Typed(p)
    BY Zenon, <1>1, <2>1, <2>3 DEF Typed
  <2>6. Counted(p) /\ Due(p)
    BY Zenon, <1>1, <2>3, <2>4 DEF Counted, Due
  <2>7. Refusals(p, entry')
    BY Zenon, <1>2, <2>1, <2>3 DEF Refusals
  <2>8. Unhalted(p)
    BY Zenon, <1>2, <2>3 DEF Unhalted
  <2>9. Marks(p, entry')
    BY Zenon, <1>2, <2>3 DEF Marks
  <2>10. Accounted(p, entry', {})
    BY Zenon, <1>1, <2>3 DEF Accounted
  <2>11. Answering(p, entry', "refused", "none")
    BY <1>1, <1>2, <2>1, <2>2, <2>3, <2>4, <2>5, <2>6, <2>7, <2>8, <2>9, <2>10 DEF Answering
  <2> QED
    BY Zenon, <1>6, <1>8, <2>11, AnswerStep DEF p
<1>9. CASE next = "error"
  <2>1. Accounted(o, entry', Kinds)
    BY Zenon, <1>1, AccountedMore
  <2>2. Answering(o, entry', "broken", "none")
    BY <1>1, <1>2, <2>1 DEF Answering
  <2> QED
    BY Zenon, <1>6, <1>9, <2>2, AnswerStep
<1>10. CASE next = "capped"
  <2>1. Answering(o, entry', "capped", "none")
    BY <1>1, <1>2, <1>5, <1>10 DEF Answering
  <2> QED
    BY Zenon, <1>6, <1>10, <2>1, AnswerStep
<1>11. CASE next = "window"
  <2>1. kind \in Kinds /\ entry'[kind] = "none" /\ entry'.refusals <= o.generation /\ o.attempts < kMaxPaceAttempts
    BY <1>5, <1>11
  <2> QED
    BY Zenon, <1>6, <1>11, <2>1, RaiseStep
<1> QED
  BY Zenon, <1>4, <1>7, <1>8, <1>9, <1>10, <1>11

\* The record with an MRZ parked for the flow.
LEMMA ParkedFields ==
    ASSUME NEW o, Shape(o), NEW secret, NEW p, p = [o EXCEPT !.sink = secret, !.parked = TRUE]
    PROVE  Same(o, p, {"sink", "parked"}) /\ p.sink = secret /\ p.parked = TRUE
  BY Zenon DEF Same, Shape, Fields

\* A parked MRZ is no answer to the ask.
LEMMA ParkStep ==
    ASSUME IInv, present' = present, NEW o, NEW secret \in Secrets \cup {"malformed"},
           Shape(o), Typed(o), Counted(o), Due(o), o.attempts <= o.asks, o.attempts <= o.rejected,
           Refusals(o, entry'), Unhalted(o), o.step # "pin", present => Accounted(o, entry', Kinds),
           Provided([o EXCEPT !.sink = secret, !.parked = TRUE], "parked", "none")
    PROVE  OpInv' /\ Reported'
<1> DEFINE p == [o EXCEPT !.sink = secret, !.parked = TRUE]
<1>1. Same(o, p, {"sink", "parked"}) /\ p.sink = secret /\ p.parked = TRUE
  BY Zenon, ParkedFields
<1> HIDE DEF p
<1>2. Shape(p)
  BY Zenon, <1>1 DEF Same
<1>3. /\ p.flow = o.flow /\ p.token = o.token /\ p.docs = o.docs /\ p.rows = o.rows /\ p.asked = o.asked
      /\ p.asks = o.asks /\ p.generation = o.generation /\ p.attempts = o.attempts /\ p.step = o.step
      /\ p.prompterFailed = o.prompterFailed /\ p.helperTooOld = o.helperTooOld
      /\ p.userCancelled = o.userCancelled /\ p.entryExpired = o.entryExpired
      /\ p.marking = o.marking /\ p.markedWrong = o.markedWrong
      /\ p.again = o.again /\ p.pin = o.pin /\ p.result = o.result /\ p.data = o.data
      /\ p.rejected = o.rejected /\ p.broken = o.broken /\ p.windows = o.windows /\ p.emptied = o.emptied
      /\ p.pinWindows = o.pinWindows /\ p.wrongPins = o.wrongPins /\ p.signed = o.signed
  BY <1>1 DEF Same, Fields
<1>4. Typed(p)
  BY Zenon, <1>1, <1>3 DEF Typed
<1>5. Counted(p) /\ Due(p)
  BY Zenon, <1>1, <1>3 DEF Counted, Due
<1>6. Refusals(p, entry')
  BY Zenon, <1>3 DEF Refusals
<1>7. Unhalted(p)
  BY Zenon, <1>3 DEF Unhalted
<1>8. Marks(p, entry')
  BY Zenon, <1>1 DEF Marks
<1>9. present => Accounted(p, entry', Kinds)
  BY Zenon, <1>3 DEF Accounted
<1>10. Answering(p, entry', "parked", "none")
  BY <1>2, <1>3, <1>4, <1>5, <1>6, <1>7, <1>8, <1>9 DEF Answering
<1> QED
  BY Zenon, <1>10, AnswerStep DEF p

\* The middleware asks.
LEMMA AskStep ==
    ASSUME IInv, NEW kind, NEW reason \in BOOLEAN, Ask(kind, reason)
    PROVE  OpInv' /\ Reported'
<1> DEFINE signal == isCardRejectionSignal(entry, reason)
           o == Asked(signal)
<1>1. /\ present /\ present' = present /\ CanAsk /\ (reason => session.failed \in {"rejected", "refused"})
      /\ entry' = noteRejectedSecret(entry, signal)
      /\ \/ requestCredential(o, entry', kind)
         \/ /\ Provided([o EXCEPT !.sink = entry'.mrz, !.parked = TRUE], "parked", "none")
            /\ entry'.mrz # "none"
  BY Zenon DEF Ask, CanAsk, ReadProvider, SignProvider, BatchProvider
<1>2. Asking(o, entry')
  BY Zenon, <1>1, AskCounted
<1> HIDE DEF o
<1>3. CASE requestCredential(o, entry', kind)
  BY Zenon, <1>1, <1>2, <1>3, RequestStep
<1>4. CASE Provided([o EXCEPT !.sink = entry'.mrz, !.parked = TRUE], "parked", "none")
  <2>1. /\ Shape(o) /\ Typed(o) /\ Counted(o) /\ Due(o) /\ o.attempts <= o.asks /\ o.attempts <= o.rejected
        /\ Refusals(o, entry') /\ Unhalted(o) /\ o.step = "walk" /\ Accounted(o, entry', {}) /\ entry' \in Entry
    BY Zenon, <1>2 DEF Asking, Steady, Going
  <2>2. o.step # "pin" /\ entry'.mrz \in Secrets \cup {"malformed"}
    BY <2>1 DEF Entry
  <2>3. Accounted(o, entry', Kinds)
    BY Zenon, <2>1, AccountedMore
  <2> QED
    BY Zenon, <1>1, <1>4, <2>1, <2>2, <2>3, ParkStep
<1> QED
  BY Zenon, <1>1, <1>3, <1>4

\* A window closes: what is known of the ask it belongs to.
LEMMA AtWindowFacts ==
    ASSUME IInv, op.step = "window"
    PROVE  /\ Shape(op) /\ Typed(op) /\ Counted(op) /\ Due(op) /\ Refusals(op, entry) /\ Marks(op, entry) /\ Unhalted(op)
           /\ op.attempts <= op.asks /\ op.attempts <= op.rejected /\ (op.parked => op.broken > 0) /\ op.step # "pin"
           /\ present => Accounted(op, entry, {op.asked})
           /\ ~op.emptied /\ entry.refusals <= op.generation /\ op.attempts < kMaxPaceAttempts /\ entry \in Entry
           /\ stillWantedFor(entry, op.generation) /\ entry[op.asked] = "none"
<1>1. op.step \in {"walk", "window", "pin"} /\ op.step # "pin" /\ Open = {op.asked}
  BY DEF Open
<1> QED
  BY Zenon, <1>1 DEF IInv, OpInv, Running, Going, Steady, AtWindow, CacheInv, stillWantedFor

\* The flags of an ask that its window sets.
Flags == {"prompterFailed", "userCancelled", "entryExpired", "helperTooOld", "emptied"}
Closing(o) ==
    /\ Shape(o) /\ Typed(o) /\ Counted(o) /\ Due(o) /\ Unhalted(o) /\ o.step # "pin"
    /\ o.attempts <= o.asks /\ o.attempts <= o.rejected /\ o.attempts < kMaxPaceAttempts /\ (o.parked => o.broken > 0)
    /\ o.flow = op.flow /\ o.generation = op.generation
    /\ present => \A k \in Kinds : o.windows[k] <= o.attempts + o.broken + One(entry[k] # "none") + One(k = op.asked)
    /\ Marks(o, entry)

\* A window that closes changes only the operation's flags.
LEMMA ClosingFields ==
    ASSUME IInv, op.step = "window", NEW o, Same(op, o, Flags), o.prompterFailed \in BOOLEAN, o.userCancelled \in BOOLEAN,
           o.entryExpired \in BOOLEAN, o.helperTooOld \in BOOLEAN, o.emptied \in BOOLEAN, o.userCancelled => o.emptied
    PROVE  Closing(o)
<1>1. /\ Shape(op) /\ Typed(op) /\ Counted(op) /\ Due(op) /\ Marks(op, entry) /\ Unhalted(op)
      /\ op.attempts <= op.asks /\ op.attempts <= op.rejected /\ (op.parked => op.broken > 0) /\ op.step # "pin"
      /\ present => Accounted(op, entry, {op.asked})
      /\ ~op.emptied /\ op.attempts < kMaxPaceAttempts
  BY Zenon, AtWindowFacts
<1>2. Shape(o)
  BY Zenon DEF Same
<1>3. /\ o.flow = op.flow /\ o.token = op.token /\ o.docs = op.docs /\ o.rows = op.rows /\ o.asked = op.asked
      /\ o.asks = op.asks /\ o.generation = op.generation /\ o.attempts = op.attempts /\ o.step = op.step
      /\ o.marking = op.marking /\ o.markedWrong = op.markedWrong /\ o.sink = op.sink
      /\ o.again = op.again /\ o.pin = op.pin /\ o.result = op.result /\ o.data = op.data
      /\ o.rejected = op.rejected /\ o.broken = op.broken /\ o.windows = op.windows /\ o.parked = op.parked
      /\ o.pinWindows = op.pinWindows /\ o.wrongPins = op.wrongPins /\ o.signed = op.signed
  BY DEF Same, Fields, Flags
<1>4. Typed(o)
  BY Zenon, <1>1, <1>3 DEF Typed
<1>5. Counted(o) /\ Due(o)
  BY Zenon, <1>1, <1>3 DEF Counted, Due
<1>6. Unhalted(o)
  BY Zenon, <1>1, <1>3 DEF Unhalted
<1>7. Marks(o, entry)
  BY Zenon, <1>1, <1>3 DEF Marks
<1>8. ASSUME present, NEW k \in Kinds
      PROVE  o.windows[k] <= o.attempts + o.broken + One(entry[k] # "none") + One(k = op.asked)
  <2>1. op.windows[k] <= op.attempts + op.broken + One(entry[k] # "none") + One(op.emptied) + One(k \in {op.asked})
    BY Zenon, <1>1, <1>8 DEF Accounted
  <2>2. op.attempts \in Nat /\ op.broken \in Nat /\ op.windows[k] \in Nat
    BY Zenon, <1>1, TypedNumbers DEF Numbers
  <2>3. ~op.emptied
    BY Zenon, <1>1
  <2> QED
    BY <1>3, <2>1, <2>2, <2>3 DEF One
<1> QED
  BY Zenon, <1>1, <1>2, <1>3, <1>4, <1>5, <1>6, <1>7, <1>8 DEF Closing

\* A window that closes without a secret accounts for its ask.
LEMMA ClosingAccounted ==
    ASSUME NEW o, Closing(o), \A k \in Kinds : entry'[k] = entry[k], NEW open, open = Kinds \/ o.emptied
    PROVE  present => Accounted(o, entry', open)
<1> SUFFICES ASSUME present, NEW k \in Kinds
             PROVE  o.windows[k] <= o.attempts + o.broken + One(entry'[k] # "none") + One(o.emptied) + One(k \in open)
  BY Zenon DEF Accounted
<1>1. o.windows[k] <= o.attempts + o.broken + One(entry[k] # "none") + One(k = op.asked)
  BY Zenon DEF Closing
<1>2. o.attempts \in Nat /\ o.broken \in Nat /\ o.windows[k] \in Nat
  BY Zenon, TypedNumbers DEF Closing, Numbers
<1>3. entry'[k] = entry[k] /\ (k \in open \/ o.emptied)
  BY Zenon
<1> HIDE DEF Closing
<1> QED
  BY <1>1, <1>2, <1>3 DEF One

\* Refused: the one refusal of the operation, which silences it.
LEMMA RefusedStep ==
    ASSUME IInv, NEW how \in {"cancelled", "timeout"}, WindowRefused(how)
    PROVE  OpInv' /\ Reported'
<1> DEFINE o == [op EXCEPT !.userCancelled = @ \/ (how = "cancelled" /\ SeesCancel(op.flow)),
                           !.entryExpired = @ \/ (how = "timeout" /\ SeesExpiry(op.flow)),
                           !.emptied = TRUE]
<1>1. /\ op.step = "window" /\ entry.refusals < MaxRefusals /\ present' = present
      /\ stillWantedFor(entry, op.generation) => entry' = noteRefusal(entry, how) /\ Provided(o, "refused", "none")
  BY Zenon DEF WindowRefused
<1>2. /\ Shape(op) /\ Typed(op) /\ Refusals(op, entry) /\ entry.refusals <= op.generation /\ entry \in Entry
      /\ stillWantedFor(entry, op.generation)
  BY Zenon, <1>1, AtWindowFacts
<1>3. /\ entry' \in Entry /\ entry'.refusals = entry.refusals + 1 /\ entry'.nothing = TRUE
      /\ \A k \in Kinds : entry'[k] = entry[k]
  <2>1. entry' = noteRefusal(entry, how)
    BY Zenon, <1>1, <1>2
  <2>2. entry.refusals < MaxRefusals /\ entry \in Entry
    BY Zenon, <1>1, <1>2
  <2> QED
    BY Zenon, <2>1, <2>2, EntryRefused
<1>4. Shape(o)
  BY ZenonT(40), <1>2 DEF Shape, Fields
<1>5. \A f \in Fields \ Flags : o[f] = op[f]
  BY Zenon, <1>2 DEF Shape, Fields, Flags
<1>6. /\ o.emptied = TRUE
      /\ o.userCancelled = (op.userCancelled \/ (how = "cancelled" /\ SeesCancel(op.flow)))
      /\ o.entryExpired = (op.entryExpired \/ (how = "timeout" /\ SeesExpiry(op.flow)))
      /\ o.prompterFailed = op.prompterFailed /\ o.helperTooOld = op.helperTooOld
  BY Zenon, <1>2 DEF Shape, Fields
<1> HIDE DEF o
<1>7. Closing(o)
  BY Zenon, <1>1, <1>2, <1>4, <1>5, <1>6, ClosingFields DEF Typed, Same
<1>8. o.flow \in Reads => o.userCancelled \/ o.entryExpired
  <2>1. op.flow \in Reads => SeesCancel(op.flow) /\ SeesExpiry(op.flow)
    BY DEF SeesCancel, SeesExpiry, Reads, Mutations
  <2>2. o.flow = op.flow
    BY Zenon, <1>7 DEF Closing
  <2> QED
    BY Zenon, <1>6, <2>1, <2>2
<1>9. Refusals(o, entry')
  <2>1. entry.refusals \in Nat /\ op.generation \in Nat /\ o.generation = op.generation
    BY Zenon, <1>2, <1>7, TypedNumbers, EntryNumbers DEF Numbers, Closing
  <2> QED
    BY <1>2, <1>3, <1>6, <1>8, <2>1 DEF Refusals
<1>10. Marks(o, entry')
  BY Zenon, <1>3, <1>7, EntryEmpty DEF Closing, Marks
<1>11. present => Accounted(o, entry', {})
  BY Zenon, <1>3, <1>6, <1>7, ClosingAccounted
<1>12. Answering(o, entry', "refused", "none")
  BY <1>3, <1>7, <1>8, <1>9, <1>10, <1>11 DEF Answering, Closing
<1> QED
  BY Zenon, <1>1, <1>2, <1>12, AnswerStep

\* The helper failed: a break.
LEMMA BrokeStep ==
    ASSUME IInv, op.step = "window", present' = present, entry' \in Entry, entry'.refusals = entry.refusals,
           \A k \in Kinds : entry'[k] = entry[k], NEW o, Closing(o), ~o.emptied, Provided(o, "broken", "none")
    PROVE  OpInv' /\ Reported'
<1>1. Refusals(op, entry) /\ entry.refusals <= op.generation /\ ~op.emptied /\ Typed(op) /\ entry \in Entry
  BY Zenon, AtWindowFacts
<1>2. Refusals(o, entry')
  <2>1. entry.refusals \in Nat /\ op.generation \in Nat /\ o.generation = op.generation
    BY Zenon, <1>1, TypedNumbers, EntryNumbers DEF Numbers, Closing
  <2> QED
    BY <1>1, <2>1 DEF Refusals
<1>3. Marks(o, entry')
  BY Zenon, EntryEmpty DEF Closing, Marks
<1>4. present => Accounted(o, entry', Kinds)
  BY Zenon, ClosingAccounted
<1>5. Answering(o, entry', "broken", "none")
  BY <1>2, <1>3, <1>4 DEF Answering, Closing
<1> QED
  BY Zenon, <1>5, AnswerStep

\* The helper failed or is too old.
LEMMA WindowBrokeStep ==
    ASSUME IInv, NEW tooOld \in BOOLEAN, WindowBroke(tooOld)
    PROVE  OpInv' /\ Reported'
<1> DEFINE o == [op EXCEPT !.prompterFailed = @ \/ ~tooOld, !.helperTooOld = @ \/ (tooOld /\ SeesExpiry(op.flow))]
<1>1. /\ op.step = "window" /\ present' = present /\ entry' = entry
      /\ stillWantedFor(entry, op.generation) => Provided(o, "broken", "none")
  BY Zenon DEF WindowBroke
<1>2. Shape(op) /\ Typed(op) /\ entry \in Entry /\ ~op.emptied /\ Counted(op) /\ stillWantedFor(entry, op.generation)
  BY Zenon, <1>1, AtWindowFacts
<1>3. Shape(o)
  BY ZenonT(30), <1>2 DEF Shape, Fields
<1>4. \A f \in Fields \ Flags : o[f] = op[f]
  BY Zenon, <1>2 DEF Shape, Fields, Flags
<1>5. /\ o.emptied = op.emptied /\ o.userCancelled = op.userCancelled /\ o.entryExpired = op.entryExpired
      /\ o.prompterFailed = (op.prompterFailed \/ ~tooOld)
      /\ o.helperTooOld = (op.helperTooOld \/ (tooOld /\ SeesExpiry(op.flow)))
  BY Zenon, <1>2 DEF Shape, Fields
<1> HIDE DEF o
<1>6. Closing(o)
  BY Zenon, <1>1, <1>2, <1>3, <1>4, <1>5, ClosingFields DEF Typed, Same, Counted
<1> QED
  BY Zenon, <1>1, <1>2, <1>5, <1>6, BrokeStep

\* The window forgets an earlier expiry.
LEMMA Unexpired ==
    ASSUME IInv, op.step = "window", NEW o, o = [op EXCEPT !.entryExpired = FALSE]
    PROVE  Closing(o) /\ o.emptied = op.emptied /\ o.parked = op.parked
<1>1. Shape(op) /\ Typed(op) /\ Counted(op)
  BY Zenon, AtWindowFacts
<1>2. Shape(o)
  BY ZenonT(30), <1>1 DEF Shape, Fields
<1>3. \A f \in Fields \ Flags : o[f] = op[f]
  BY Zenon, <1>1 DEF Shape, Fields, Flags
<1>4. /\ o.emptied = op.emptied /\ o.userCancelled = op.userCancelled /\ o.entryExpired = FALSE
      /\ o.prompterFailed = op.prompterFailed /\ o.helperTooOld = op.helperTooOld /\ o.parked = op.parked
  BY Zenon, <1>1 DEF Shape, Fields
<1> QED
  BY Zenon, <1>1, <1>2, <1>3, <1>4, ClosingFields DEF Typed, Same, Counted

\* A window answered with a secret goes back to the card.
LEMMA AnsweredStep ==
    ASSUME IInv, NEW secret \in {"right", "wrong", "malformed"}, WindowAnswered(secret)
    PROVE  OpInv' /\ Reported'
<1> DEFINE o == [op EXCEPT !.entryExpired = FALSE]
<1>1. /\ op.step = "window" /\ present' = present /\ entry' = Collected(entry, secret)
      /\ Provided(o, IF secret = "malformed" THEN "broken" ELSE "ok", secret)
  BY Zenon DEF WindowAnswered
<1>2. /\ entry \in Entry /\ ~op.emptied /\ Typed(op) /\ Refusals(op, entry) /\ entry.refusals <= op.generation
      /\ entry[op.asked] = "none"
  BY Zenon, <1>1, AtWindowFacts
<1>3. Closing(o) /\ o.emptied = op.emptied
  BY Zenon, <1>1, Unexpired
<1> HIDE DEF o
<1> DEFINE a == Answered(entry)
<1>4. a \in Entry /\ a.refusals = entry.refusals /\ \A k \in Kinds : a[k] = entry[k]
  BY Zenon, <1>2, EntryAnswered
<1> HIDE DEF a
<1>5. CASE secret = "malformed"
  <2>1. entry' = a /\ Provided(o, "broken", "malformed")
    BY Zenon, <1>1, <1>5 DEF Collected, a
  <2>2. Provided(o, "broken", "none")
    BY <2>1 DEF Provided
  <2> QED
    BY Zenon, <1>1, <1>2, <1>3, <1>4, <2>1, <2>2, BrokeStep
<1>6. CASE secret # "malformed"
  <2>1. /\ entry' = put(a, op.asked, secret) /\ Provided(o, "ok", secret)
    BY Zenon, <1>1, <1>6 DEF Collected, a
  <2>2. secret \in {"right", "wrong"} /\ secret \in Secrets /\ secret # "none" /\ op.asked \in Kinds
    BY <1>2, <1>6 DEF Secrets, Typed
  <2>3. /\ entry'.refusals = entry.refusals
        /\ \A k \in Kinds : entry'[k] = IF k = op.asked THEN secret ELSE entry[k]
    <3> DEFINE q == put(a, op.asked, secret)
    <3>1. q.refusals = a.refusals /\ \A k \in Kinds : q[k] = IF k = op.asked THEN secret ELSE a[k]
      <4>1. a \in Entry /\ op.asked \in Kinds /\ secret \in Secrets
        BY Zenon, <1>4, <2>2
      <4>2. Holding(a, op.asked, secret, q)
        BY Zenon, <4>1, EntryPut
      <4> QED
        BY Zenon, <4>2 DEF Holding
    <3>2. entry' = q
      BY Zenon, <2>1
    <3> HIDE DEF q
    <3> QED
      BY <1>4, <3>1, <3>2
  <2>4. Refusals(o, entry')
    <3>1. entry.refusals \in Nat /\ op.generation \in Nat /\ o.generation = op.generation
      BY Zenon, <1>2, <1>3, TypedNumbers, EntryNumbers DEF Numbers, Closing
    <3> QED
      BY <1>2, <1>3, <2>3, <3>1 DEF Refusals
  <2>5. present => Accounted(o, entry', {})
    <3>1. o.attempts \in Nat /\ o.broken \in Nat /\ \A k \in Kinds : o.windows[k] \in Nat
      BY Zenon, <1>3, TypedNumbers DEF Numbers, Closing
    <3>2. ASSUME present, NEW k \in Kinds
          PROVE  o.windows[k] <= o.attempts + o.broken + One(entry'[k] # "none") + One(o.emptied) + One(k \in {})
      <4>1. o.windows[k] <= o.attempts + o.broken + One(entry[k] # "none") + One(k = op.asked)
        BY Zenon, <1>3, <3>2 DEF Closing
      <4>2. entry'[k] = IF k = op.asked THEN secret ELSE entry[k]
        BY Zenon, <2>3
      <4>3. entry[op.asked] = "none" /\ secret # "none"
        BY Zenon, <1>2, <2>2
      <4> QED
        BY <3>1, <4>1, <4>2, <4>3 DEF One
    <3> QED
      BY Zenon, <3>2 DEF Accounted
  <2>6. Answering(o, entry', "ok", secret)
    BY <1>3, <2>2, <2>4, <2>5 DEF Answering, Closing
  <2> QED
    BY Zenon, <1>1, <2>1, <2>6, AnswerStep
<1> QED
  BY Zenon, <1>5, <1>6

\* So does a window in which the user changed to the other kind.
LEMMA SwitchedStep ==
    ASSUME IInv, NEW secret \in {"right", "wrong", "malformed"}, WindowSwitched(secret)
    PROVE  OpInv' /\ Reported'
<1> DEFINE o == [op EXCEPT !.entryExpired = FALSE]
           b == [o EXCEPT !.prompterFailed = TRUE]
<1>1. /\ op.step = "window" /\ present' = present /\ entry' = Answered(entry)
      /\ \/ Provided([o EXCEPT !.sink = secret, !.parked = TRUE], "parked", "none")
         \/ Provided(b, "broken", "none")
  BY Zenon DEF WindowSwitched
<1>2. /\ Shape(op) /\ entry \in Entry /\ ~op.emptied /\ Typed(op) /\ Counted(op) /\ Refusals(op, entry)
      /\ entry.refusals <= op.generation
  BY Zenon, <1>1, AtWindowFacts
<1>3. Closing(o) /\ o.emptied = op.emptied
  BY Zenon, <1>1, Unexpired
<1>4. entry' \in Entry /\ entry'.refusals = entry.refusals /\ \A k \in Kinds : entry'[k] = entry[k]
  BY Zenon, <1>1, <1>2, EntryAnswered
<1>5. CASE Provided(b, "broken", "none")
  <2>1. Shape(b)
    BY ZenonT(30), <1>2 DEF Shape, Fields
  <2>2. \A f \in Fields \ Flags : b[f] = op[f]
    BY Zenon, <1>2 DEF Shape, Fields, Flags
  <2>3. /\ b.emptied = op.emptied /\ b.userCancelled = op.userCancelled /\ b.entryExpired = FALSE
        /\ b.prompterFailed = TRUE /\ b.helperTooOld = op.helperTooOld
    BY Zenon, <1>2 DEF Shape, Fields
  <2> HIDE DEF b
  <2>4. Closing(b)
    BY Zenon, <1>1, <1>2, <2>1, <2>2, <2>3, ClosingFields DEF Typed, Same, Counted
  <2> QED
    BY Zenon, <1>1, <1>2, <1>4, <1>5, <2>3, <2>4, BrokeStep
<1>6. CASE Provided([o EXCEPT !.sink = secret, !.parked = TRUE], "parked", "none")
  <2> HIDE DEF o
  <2>1. secret \in Secrets \cup {"malformed"}
    BY DEF Secrets
  <2>2. Refusals(o, entry')
    <3>1. entry.refusals \in Nat /\ op.generation \in Nat /\ o.generation = op.generation
      BY Zenon, <1>2, <1>3, TypedNumbers, EntryNumbers DEF Numbers, Closing
    <3> QED
      BY <1>2, <1>3, <1>4, <3>1 DEF Refusals
  <2>3. present => Accounted(o, entry', Kinds)
    BY Zenon, <1>3, <1>4, ClosingAccounted
  <2> QED
    BY Zenon, <1>1, <1>3, <1>6, <2>1, <2>2, <2>3, ParkStep DEF Closing
<1> QED
  BY Zenon, <1>1, <1>5, <1>6

\* The window of a card secret closes, whatever closes it.
LEMMA WindowStep == ASSUME IInv, WindowClosed PROVE OpInv' /\ Reported'
  BY Zenon, RefusedStep, WindowBrokeStep, AnsweredStep, SwitchedStep DEF WindowClosed

-----------------------------------------------------------------------------
(* The reads.                                                              *)

\* What is known of an operation between two asks.
LEMMA WalkFacts ==
    ASSUME IInv, op.step \in {"walk", "pin"}
    PROVE  /\ Shape(op) /\ Typed(op) /\ Steady(op) /\ Going(op, entry) /\ Verdict(op, session.failed) /\ ~op.marking
           /\ present => Accounted(op, entry, {})
           /\ session.failed = "refused" => entry.nothing \/ ~present
<1>1. op.step \in {"walk", "window", "pin"} /\ op.step # "window" /\ Open = {}
  BY DEF Open
<1> QED
  BY Zenon, <1>1 DEF IInv, OpInv, Running

\* A read is over.
LEMMA ReadOver ==
    ASSUME IInv, op.step = "walk", op.flow \in Reads, NEW o, Same(op, o, {"attempts", "data"}), NEW n \in {0, 1},
           o.attempts = op.attempts + n, o.data \in BOOLEAN, NEW code \in Codes \ {"PinWrong", "PinBlocked"},
           op' = Ends(o, code), present' = present, session'.failed \in {"no", session.failed},
           entry'.nothing = entry.nothing,
           n = 1 => op.attempts < op.rejected \/ op.broken > 0,
           code = "AuthFailed" => op.rejected + op.broken > 0 /\ (~op.parked => Empty(entry')),
           code = "Cancelled" => op.token # "live" \/ op.emptied \/ op.parked,
           code = "Ok" /\ op.emptied /\ op.flow # "certificates" => o.data
    PROVE  OpInv' /\ Reported'
<1>1. /\ Shape(op) /\ Typed(op) /\ Steady(op) /\ Going(op, entry)
      /\ session.failed = "refused" => entry.nothing \/ ~present
  BY Zenon, WalkFacts
<1>2. Shape(o)
  BY Zenon DEF Same
<1>3. /\ o.flow = op.flow /\ o.token = op.token /\ o.docs = op.docs /\ o.rows = op.rows /\ o.asked = op.asked
      /\ o.asks = op.asks /\ o.generation = op.generation /\ o.step = op.step
      /\ o.prompterFailed = op.prompterFailed /\ o.helperTooOld = op.helperTooOld
      /\ o.userCancelled = op.userCancelled /\ o.entryExpired = op.entryExpired
      /\ o.marking = op.marking /\ o.markedWrong = op.markedWrong /\ o.sink = op.sink
      /\ o.again = op.again /\ o.pin = op.pin /\ o.result = op.result
      /\ o.rejected = op.rejected /\ o.broken = op.broken /\ o.windows = op.windows /\ o.parked = op.parked
      /\ o.emptied = op.emptied
      /\ o.pinWindows = op.pinWindows /\ o.wrongPins = op.wrongPins /\ o.signed = op.signed
  BY DEF Same, Fields
<1>4. /\ op.asks \in 0..MaxAsks /\ op.attempts \in Nat /\ op.rejected \in Nat /\ op.broken \in Nat /\ MaxAsks \in Nat
      /\ op.attempts <= op.asks /\ op.attempts <= op.rejected
  <2>1. op.asks \in 0..MaxAsks
    BY Zenon, <1>1 DEF Typed
  <2>2. Numbers(op)
    BY Zenon, <1>1, TypedNumbers
  <2>3. MaxAsks \in Nat
    BY FlowsAssumption
  <2> QED
    BY Zenon, <1>1, <2>1, <2>2, <2>3 DEF Going, Numbers
<1>5. o.attempts \in 0..MaxAsks + 1 /\ o.attempts <= o.asks + 1
  <2>1. o.asks = op.asks
    BY Zenon, <1>3
  <2> QED
    BY <1>4, <2>1
<1>6. Typed(o)
  BY Zenon, <1>1, <1>3, <1>5 DEF Typed
<1>7. Steady(o)
  BY Zenon, <1>1, <1>3, <1>5 DEF Steady, Counted
<1>8. session'.failed = "refused" => entry'.nothing \/ ~present'
  BY <1>1
<1>9. code \in Codes
  OBVIOUS
<1>10. OpInv'
  BY Zenon, <1>2, <1>6, <1>7, <1>8, <1>9, EndsStep
<1>11. Ended(o, code, op')
  BY Zenon, <1>2, EndsFields
<1>12. /\ op'.attempts = op.attempts + n /\ op'.rejected = op.rejected /\ op'.broken = op.broken
       /\ op'.emptied = op.emptied /\ op'.flow = op.flow /\ op'.token = op.token /\ op'.parked = op.parked
       /\ op'.data = o.data /\ op'.result \in {"none", code}
  BY <1>3, <1>11 DEF Ended, Same, Fields
<1>13. AttemptsAreRejections'
  BY <1>4, <1>12 DEF AttemptsAreRejections
<1>14. op'.result = "AuthFailed" => code = "AuthFailed"
  BY <1>12
<1>15. RejectedSecretIsDropped'
  BY <1>12, <1>14 DEF RejectedSecretIsDropped, Empty
<1>16. OutcomeIsHonest'
  BY <1>12, <1>14 DEF OutcomeIsHonest
<1>17. RefusalIsNoEmptyRead'
  BY <1>12 DEF RefusalIsNoEmptyRead
<1>18. RowsMatchDocuments'
  BY <1>12 DEF RowsMatchDocuments, Reads
<1> QED
  BY Zenon, <1>10, <1>13, <1>15, <1>16, <1>17, <1>18 DEF Reported

\* The read's verdict on itself.
LEMMA IdentityEndsStep ==
    ASSUME IInv, NEW status \in {"Ok", "AuthFailed", "Communication", "Unsupported", "Cancelled"}, IdentityEnds(status)
    PROVE  OpInv' /\ Reported'
<1> DEFINE code == IdentityCode(status)
           failed == op.token = "live" /\ (op.sink = "malformed" => op.again) /\ status = "AuthFailed"
           counts == failed /\ Unmarked(op)
           n == IF counts THEN 1 ELSE 0
           o == [op EXCEPT !.attempts = @ + n, !.data = (code = "Ok")]
<1>1. /\ op.step = "walk" /\ op.flow \in {"identity", "photo"} /\ ReadStatus(status) /\ present' = present
      /\ op' = Ends(o, code)
      /\ entry' = IF counts THEN markCredentialWrong(entry) ELSE entry
      /\ session' = IF failed THEN clearCachedPaceCredentials ELSE session
  BY Zenon DEF IdentityEnds, InSeam
<1>2. op.step \in {"walk", "pin"} /\ op.flow \in Reads /\ TracksMarks(op.flow)
  BY <1>1 DEF Reads, TracksMarks
<1>3. /\ Shape(op) /\ Typed(op) /\ Steady(op) /\ Going(op, entry) /\ Verdict(op, session.failed) /\ ~op.marking
      /\ entry \in Entry
  BY Zenon, <1>2, WalkFacts DEF IInv, CacheInv
<1>4. Shape(o)
  BY ZenonT(30), <1>3 DEF Shape, Fields
<1>5. \A f \in Fields \ {"attempts", "data"} : o[f] = op[f]
  BY Zenon, <1>3 DEF Shape, Fields
<1>6. o.attempts = op.attempts + n /\ o.data = (code = "Ok")
  BY Zenon, <1>3 DEF Shape, Fields
<1> HIDE DEF o
<1>7. session'.failed \in {"no", session.failed}
  BY <1>1 DEF clearCachedPaceCredentials, IInv, CacheInv, Sessions
<1>8. entry'.nothing = entry.nothing
  BY Zenon, <1>1, <1>3, EntryWiped
<1>9. /\ op.attempts \in Nat /\ op.rejected \in Nat /\ op.broken \in Nat /\ kMaxPaceAttempts \in Nat \ {0}
      /\ op.attempts <= op.rejected
  BY Zenon, <1>3, TypedNumbers, Bounds DEF Numbers, Going
<1>10. op.parked => op.broken > 0
  BY Zenon, <1>3 DEF Steady
<1>11. status = "AuthFailed" => op.asks > 0 /\ session.failed \in {"yes", "rejected", "refused"}
  BY <1>1 DEF ReadStatus, IInv, CacheInv, Sessions
<1>12. op.asks \in Nat /\ op.emptied \in BOOLEAN
  BY Zenon, <1>3, TypedNumbers DEF Typed, Numbers
<1>13. counts => op.attempts < op.rejected \/ op.broken > 0
  <2> SUFFICES ASSUME counts PROVE op.attempts < op.rejected \/ op.broken > 0
    BY Zenon
  <2>1. status = "AuthFailed" /\ ~op.entryExpired /\ ~op.userCancelled /\ ~op.markedWrong
    BY Zenon DEF Unmarked
  <2>2. op.attempts >= kMaxPaceAttempts => op.parked
    BY Zenon, <1>2, <1>3, <2>1 DEF Going, Marks
  <2>3. session.failed # "refused"
    BY Zenon, <1>2, <1>3, <1>11, <2>1 DEF Verdict
  <2>4. session.failed \in {"yes", "rejected"}
    BY <1>11, <2>1, <2>3
  <2> QED
    BY <1>3, <1>10, <2>2, <2>4 DEF Verdict
<1>14. code \in Codes \ {"PinWrong", "PinBlocked"}
  BY DEF IdentityCode, Blame, Codes
<1>15. code = "AuthFailed" =>
         /\ status = "AuthFailed" /\ op.token = "live"
         /\ op.sink = "malformed" \/ (failed /\ ~op.userCancelled /\ ~op.entryExpired)
  BY DEF IdentityCode, Blame
<1>16. op.sink = "malformed" => op.parked
  BY <1>3 DEF Steady, Counted
<1>17. code = "AuthFailed" => op.rejected + op.broken > 0
  <2> SUFFICES ASSUME code = "AuthFailed" PROVE op.rejected + op.broken > 0
    BY Zenon
  <2> HIDE DEF code, failed
  <2>1. op.sink = "malformed" \/ session.failed # "refused"
    BY Zenon, <1>2, <1>3, <1>11, <1>15 DEF Verdict
  <2>2. session.failed \in {"yes", "rejected", "refused"}
    BY <1>11, <1>15
  <2> QED
    BY <1>3, <1>9, <1>10, <1>16, <2>1, <2>2 DEF Verdict
<1>18. code = "AuthFailed" /\ ~op.parked => Empty(entry')
  <2> SUFFICES ASSUME code = "AuthFailed", ~op.parked PROVE Empty(entry')
    BY Zenon
  <2>1. failed /\ ~op.userCancelled /\ ~op.entryExpired
    BY Zenon, <1>15, <1>16
  <2>2. CASE op.markedWrong
    <3>1. ~counts
      BY Zenon, <2>2 DEF Unmarked
    <3>2. entry' = entry
      BY Zenon, <1>1, <3>1
    <3> QED
      BY Zenon, <1>3, <2>2, <3>2 DEF Going, Marks
  <2>3. CASE ~op.markedWrong
    <3>1. counts
      BY Zenon, <2>1, <2>3 DEF Unmarked
    <3>2. entry' = markCredentialWrong(entry)
      BY Zenon, <1>1, <3>1
    <3> QED
      BY Zenon, <1>3, <3>2, EntryWiped
  <2> QED
    BY Zenon, <2>2, <2>3
<1>19. code = "Cancelled" => op.token # "live" \/ op.emptied \/ op.parked
  <2>1. code = "Cancelled" => op.token # "live" \/ status = "Cancelled" \/ op.userCancelled
    BY DEF IdentityCode, Blame
  <2>2. status = "Cancelled" => op.token # "live" \/ op.userCancelled \/ op.parked
    BY <1>1 DEF ReadStatus
  <2>3. op.userCancelled => op.emptied
    BY Zenon, <1>3 DEF Steady, Counted
  <2> QED
    BY Zenon, <2>1, <2>2, <2>3
<1>20. o.data \in BOOLEAN /\ (code = "Ok" => o.data)
  BY Zenon, <1>6
<1> HIDE DEF code, failed, counts
<1>22. n \in {0, 1} /\ (n = 1 => counts)
  OBVIOUS
<1> HIDE DEF n
<1>21. Same(op, o, {"attempts", "data"})
  BY Zenon, <1>4, <1>5 DEF Same
<1> QED
  BY Zenon, <1>1, <1>2, <1>6, <1>7, <1>8, <1>13, <1>14, <1>17, <1>18, <1>19, <1>20, <1>21, <1>22, ReadOver
     DEF code, counts

\* The other reads, which count nothing: only what they serve changes.
LEMMA DataFields ==
    ASSUME Shape(op), Typed(op), NEW data \in BOOLEAN, NEW o, o = [op EXCEPT !.data = data]
    PROVE  Same(op, o, {"attempts", "data"}) /\ o.attempts = op.attempts + 0 /\ o.data = data
<1>1. Shape(o)
  BY ZenonT(30) DEF Shape, Fields
<1>2. \A f \in Fields \ {"attempts", "data"} : o[f] = op[f]
  BY Zenon DEF Shape, Fields
<1>3. o.data = data /\ o.attempts = op.attempts
  BY Zenon DEF Shape, Fields
<1>4. op.attempts = op.attempts + 0
  <2>1. op.attempts \in Nat
    BY Zenon, TypedNumbers DEF Numbers
  <2> QED
    BY <2>1
<1> QED
  BY Zenon, <1>1, <1>2, <1>3, <1>4 DEF Same

\* A read ends, and reports data only when it has it.
LEMMA PlainReadOver ==
    ASSUME IInv, op.step = "walk", op.flow \in {"certificates", "tokenInfo", "list"}, NEW data \in BOOLEAN,
           NEW code \in {"Ok", "Cancelled", "Communication", "Unsupported", "Prompter", "EntryExpired", "Capability"},
           op' = Ends([op EXCEPT !.data = data], code), UNCHANGED <<entry, session, present>>,
           code = "Cancelled" => op.token # "live" \/ op.userCancelled,
           code = "Ok" => data \/ op.flow = "certificates" \/ (~op.userCancelled /\ ~op.entryExpired)
    PROVE  OpInv' /\ Reported'
<1> DEFINE o == [op EXCEPT !.data = data]
<1>1. op.flow \in Reads /\ op.step \in {"walk", "pin"}
  BY DEF Reads
<1>2. Shape(op) /\ Typed(op) /\ Steady(op) /\ Going(op, entry)
  BY Zenon, <1>1, WalkFacts
<1>3. Same(op, o, {"attempts", "data"}) /\ o.attempts = op.attempts + 0 /\ o.data = data
  BY Zenon, <1>2, DataFields
<1> HIDE DEF o
<1>4. code \in Codes \ {"PinWrong", "PinBlocked"} /\ code # "AuthFailed"
  BY DEF Codes
<1>5. op.userCancelled => op.emptied
  BY Zenon, <1>2 DEF Steady, Counted
<1>6. op.emptied => op.userCancelled \/ op.entryExpired
  BY Zenon, <1>1, <1>2 DEF Going, Refusals
<1>7. 0 \in {0, 1} /\ 0 # 1
  OBVIOUS
<1>8. session'.failed \in {"no", session.failed}
  OBVIOUS
<1>9. op' = Ends(o, code)
  BY Zenon DEF o
<1>10. code = "Ok" /\ op.emptied /\ op.flow # "certificates" => o.data
  BY Zenon, <1>3, <1>6
<1>11. present' = present /\ entry'.nothing = entry.nothing
  BY Zenon
<1> QED
  BY Zenon, <1>1, <1>3, <1>4, <1>5, <1>7, <1>8, <1>9, <1>10, <1>11, ReadOver

\* What an operation serves is nothing until it has read.
LEMMA SameData == ASSUME Shape(op) PROVE op = [op EXCEPT !.data = op.data]
  BY Zenon DEF Shape, Fields

\* The read of the certificates ends.
LEMMA CertificatesEndStep ==
    ASSUME IInv, NEW status \in {"Ok", "Empty", "Unsupported"}, CertificatesEnd(status)
    PROVE  OpInv' /\ Reported'
<1>1. /\ op.step = "walk" /\ op.flow \in {"certificates", "tokenInfo", "list"} /\ op.flow = "certificates"
      /\ UNCHANGED <<entry, session, present>>
  BY DEF CertificatesEnd, InSeam
<1>2. op.step \in {"walk", "pin"}
  BY <1>1
<1>3. Shape(op) /\ op.data \in BOOLEAN
  BY Zenon, <1>2, WalkFacts DEF Typed
<1>4. op = [op EXCEPT !.data = op.data]
  BY Zenon, <1>3, SameData
<1>5. \/ op.token # "live" /\ op' = Ends(op, "Cancelled")
      \/ op' = Ends(op, Blame(op, "Unsupported"))
      \/ op' = Ends([op EXCEPT !.data = (status = "Ok")], "Ok")
  BY Zenon DEF CertificatesEnd
<1>6. PICK data \in BOOLEAN, code \in {"Cancelled", Blame(op, "Unsupported"), "Ok"} :
        /\ op' = Ends([op EXCEPT !.data = data], code)
        /\ \/ op.token # "live" /\ code = "Cancelled"
           \/ code = Blame(op, "Unsupported")
           \/ code = "Ok"
  <2>1. CASE op.token # "live" /\ op' = Ends(op, "Cancelled")
    BY Zenon, <1>3, <1>4, <2>1
  <2>2. CASE op' = Ends(op, Blame(op, "Unsupported"))
    BY Zenon, <1>3, <1>4, <2>2
  <2>3. CASE op' = Ends([op EXCEPT !.data = (status = "Ok")], "Ok")
    BY Zenon, <2>3
  <2> QED
    BY Zenon, <1>5, <2>1, <2>2, <2>3
<1>7. /\ code \in {"Ok", "Cancelled", "Communication", "Unsupported", "Prompter", "EntryExpired", "Capability"}
      /\ code = "Cancelled" => op.token # "live" \/ op.userCancelled
  BY <1>6 DEF Blame
<1> QED
  BY Zenon, <1>1, <1>6, <1>7, PlainReadOver

\* The read of the token's information ends.
LEMMA TokenInfoEndsStep ==
    ASSUME IInv, NEW filled \in BOOLEAN, TokenInfoEnds(filled)
    PROVE  OpInv' /\ Reported'
<1> DEFINE code == IF op.token # "live" THEN "Cancelled" ELSE TokenInfoBlame(op)
<1>1. /\ op.step = "walk" /\ op.flow \in {"certificates", "tokenInfo", "list"}
      /\ UNCHANGED <<entry, session, present>> /\ op' = Ends([op EXCEPT !.data = filled], code)
  BY Zenon DEF TokenInfoEnds, InSeam
<1>2. /\ code \in {"Ok", "Cancelled", "Communication", "Unsupported", "Prompter", "EntryExpired", "Capability"}
      /\ code = "Cancelled" => op.token # "live" \/ op.userCancelled
      /\ code = "Ok" => ~op.userCancelled /\ ~op.entryExpired
  BY DEF TokenInfoBlame
<1> HIDE DEF code
<1> QED
  BY Zenon, <1>1, <1>2, PlainReadOver

\* The listing of the credentials ends.
LEMMA ListEndsStep ==
    ASSUME IInv, NEW filled \in BOOLEAN, NEW readable \in BOOLEAN, ListEnds(filled, readable)
    PROVE  OpInv' /\ Reported'
<1> DEFINE code == IF op.token # "live" THEN "Cancelled"
                   ELSE IF ListBlame(op, filled) = "Ok" /\ ~readable THEN "Communication"
                   ELSE ListBlame(op, filled)
<1>1. /\ op.step = "walk" /\ op.flow \in {"certificates", "tokenInfo", "list"}
      /\ UNCHANGED <<entry, session, present>> /\ op' = Ends([op EXCEPT !.data = filled], code)
  BY Zenon DEF ListEnds, InSeam
<1>2. /\ code \in {"Ok", "Cancelled", "Communication", "Unsupported", "Prompter", "EntryExpired", "Capability"}
      /\ code = "Cancelled" => op.token # "live" \/ op.userCancelled
      /\ code = "Ok" => filled \/ (~op.userCancelled /\ ~op.entryExpired)
  BY DEF ListBlame
<1> HIDE DEF code
<1> QED
  BY Zenon, <1>1, <1>2, PlainReadOver

\* A parked MRZ goes to the card, once.
LEMMA RenegotiateStep == ASSUME IInv, IdentityRenegotiates PROVE OpInv' /\ Reported'
<1> DEFINE o == [op EXCEPT !.sink = "none", !.again = TRUE]
           n == IF present /\ op.sink = "wrong" THEN 1 ELSE 0
<1>1. /\ op.step = "walk" /\ op.flow \in {"identity", "photo"} /\ op.sink \in {"right", "wrong"} /\ ~op.again
      /\ entry' = put(entry, "mrz", op.sink) /\ present' = present
      /\ \/ op' = Ends(o, "Capability") /\ session' = session
         \/ op' = [o EXCEPT !.rejected = @ + n] /\ session' = depositMrz(op.sink)
  BY Zenon DEF IdentityRenegotiates, InSeam
<1>2. op.step \in {"walk", "pin"} /\ op.flow \in Reads /\ op.sink # "none" /\ op.sink \in Secrets /\ "mrz" \in Kinds
  BY <1>1 DEF Reads, Secrets, Kinds
<1>3. /\ Shape(op) /\ Typed(op) /\ Steady(op) /\ Going(op, entry) /\ ~op.marking /\ entry \in Entry
      /\ present => Accounted(op, entry, {})
      /\ session.failed = "refused" => entry.nothing \/ ~present
  BY Zenon, <1>2, WalkFacts DEF IInv, CacheInv
<1>4. op.parked /\ op.broken > 0
  BY Zenon, <1>2, <1>3 DEF Steady, Counted
<1>5. /\ entry'.refusals = entry.refusals /\ entry'.nothing = entry.nothing
      /\ \A k \in Kinds : entry'[k] # "none" \/ entry'[k] = entry[k]
  <2> DEFINE e == put(entry, "mrz", op.sink)
  <2>1. /\ e.refusals = entry.refusals /\ e.nothing = entry.nothing
        /\ \A k \in Kinds : e[k] = IF k = "mrz" THEN op.sink ELSE entry[k]
    <3>1. ASSUME NEW kind \in Kinds
          PROVE  /\ put(entry, kind, op.sink).refusals = entry.refusals
                 /\ put(entry, kind, op.sink).nothing = entry.nothing
                 /\ \A k \in Kinds : put(entry, kind, op.sink)[k] = IF k = kind THEN op.sink ELSE entry[k]
      <4>1. entry \in Entry /\ op.sink \in Secrets
        BY Zenon, <1>2, <1>3
      <4>2. Holding(entry, kind, op.sink, put(entry, kind, op.sink))
        BY Zenon, <4>1, EntryPut
      <4> QED
        BY Zenon, <4>2 DEF Holding
    <3> QED
      BY <1>2, <3>1
  <2>2. entry' = e
    BY <1>1
  <2> HIDE DEF e
  <2> QED
    BY <1>2, <2>1, <2>2
<1>6. Shape(o)
  BY ZenonT(30), <1>3 DEF Shape, Fields
<1>7. \A f \in Fields \ {"sink", "again"} : o[f] = op[f]
  BY Zenon, <1>3 DEF Shape, Fields
<1>8. o.sink = "none" /\ o.again = TRUE
  BY Zenon, <1>3 DEF Shape, Fields
<1> HIDE DEF o
<1>9. /\ o.flow = op.flow /\ o.token = op.token /\ o.docs = op.docs /\ o.rows = op.rows /\ o.asked = op.asked
      /\ o.asks = op.asks /\ o.generation = op.generation /\ o.attempts = op.attempts /\ o.step = op.step
      /\ o.prompterFailed = op.prompterFailed /\ o.helperTooOld = op.helperTooOld
      /\ o.userCancelled = op.userCancelled /\ o.entryExpired = op.entryExpired
      /\ o.marking = op.marking /\ o.markedWrong = op.markedWrong
      /\ o.pin = op.pin /\ o.result = op.result /\ o.data = op.data
      /\ o.rejected = op.rejected /\ o.broken = op.broken /\ o.windows = op.windows /\ o.parked = op.parked
      /\ o.emptied = op.emptied
      /\ o.pinWindows = op.pinWindows /\ o.wrongPins = op.wrongPins /\ o.signed = op.signed
  BY <1>7 DEF Fields
<1>10. /\ op.asks \in 0..MaxAsks /\ op.attempts \in Nat /\ op.rejected \in Nat /\ op.broken \in Nat /\ MaxAsks \in Nat
       /\ op.attempts <= op.asks /\ op.attempts <= op.rejected /\ \A k \in Kinds : op.windows[k] \in Nat
  BY Zenon, <1>3, TypedNumbers, Bounds DEF Numbers, Going
<1>11. op.rejected + op.broken <= op.asks
  <2>1. op.rejected + op.broken <= op.asks + One(op.again)
    BY Zenon, <1>3 DEF Steady, Counted
  <2> QED
    BY <1>1, <1>10, <2>1 DEF One
<1>12. Typed(o)
  <2>1. "none" \in Secrets \cup {"malformed"}
    BY DEF Secrets
  <2> QED
    BY Zenon, <1>3, <1>8, <1>9, <2>1 DEF Typed
<1>13. CASE op' = Ends(o, "Capability") /\ session' = session
  <2>1. o.rejected + o.broken <= o.asks + One(o.again)
    BY <1>8, <1>9, <1>10, <1>11 DEF One
  <2>2. Steady(o)
    BY Zenon, <1>3, <1>4, <1>9, <2>1 DEF Steady, Counted
  <2>3. "Capability" \in Codes
    BY DEF Codes
  <2>4. session'.failed = "refused" => entry'.nothing \/ ~present'
    BY Zenon, <1>1, <1>3, <1>5, <1>13
  <2>5. OpInv'
    BY Zenon, <1>6, <1>12, <1>13, <2>2, <2>3, <2>4, EndsStep
  <2>6. Ended(o, "Capability", op')
    BY Zenon, <1>6, <1>13, EndsFields
  <2>7. /\ op'.attempts = op.attempts /\ op'.rejected = op.rejected /\ op'.broken = op.broken
        /\ op'.flow = op.flow /\ op'.result \in {"none", "Capability"}
    BY <1>9, <2>6 DEF Ended, Same, Fields
  <2>8. AttemptsAreRejections'
    BY <1>10, <2>7 DEF AttemptsAreRejections
  <2> QED
    BY <1>1, <2>5, <2>7, <2>8 DEF Reported, RejectedSecretIsDropped, OutcomeIsHonest, RefusalIsNoEmptyRead,
       RowsMatchDocuments
<1>14. CASE op' = [o EXCEPT !.rejected = @ + n] /\ session' = depositMrz(op.sink)
  <2>1. n \in {0, 1} /\ (present /\ op.sink = "wrong" => n = 1)
    OBVIOUS
  <2> HIDE DEF n
  <2>2. Shape(op')
    BY ZenonT(30), <1>6, <1>14 DEF Shape, Fields
  <2>3. \A f \in Fields \ {"rejected"} : op'[f] = o[f]
    BY Zenon, <1>6, <1>14 DEF Shape, Fields
  <2>4. op'.rejected = op.rejected + n
    BY Zenon, <1>6, <1>9, <1>14 DEF Shape, Fields
  <2>5. /\ op'.flow = op.flow /\ op'.token = op.token /\ op'.docs = op.docs /\ op'.rows = op.rows /\ op'.asked = op.asked
        /\ op'.asks = op.asks /\ op'.generation = op.generation /\ op'.attempts = op.attempts /\ op'.step = op.step
        /\ op'.prompterFailed = op.prompterFailed /\ op'.helperTooOld = op.helperTooOld
        /\ op'.userCancelled = op.userCancelled /\ op'.entryExpired = op.entryExpired
        /\ op'.marking = op.marking /\ op'.markedWrong = op.markedWrong /\ op'.sink = "none" /\ op'.again = TRUE
        /\ op'.pin = op.pin /\ op'.result = op.result /\ op'.data = op.data
        /\ op'.broken = op.broken /\ op'.windows = op.windows /\ op'.parked = op.parked
        /\ op'.emptied = op.emptied
        /\ op'.pinWindows = op.pinWindows /\ op'.wrongPins = op.wrongPins /\ op'.signed = op.signed
    BY <1>8, <1>9, <2>3 DEF Fields
  <2>6. /\ op'.rejected \in 0..MaxAsks + 1 /\ op.attempts <= op'.rejected /\ op'.rejected \in Nat
        /\ op'.rejected + op'.broken <= op'.asks + One(op'.again)
    BY <1>10, <1>11, <2>1, <2>4, <2>5 DEF One
  <2>7. Typed(op')
    <3>1. "none" \in Secrets \cup {"malformed"}
      BY DEF Secrets
    <3> QED
      BY Zenon, <1>3, <2>5, <2>6, <3>1 DEF Typed
  <2>8. Steady(op')
    BY Zenon, <1>3, <1>4, <2>5, <2>6 DEF Steady, Counted
  <2>9. Going(op, entry)'
    <3>1. Refusals(op, entry)'
      BY Zenon, <1>1, <1>3, <1>5, <2>5 DEF Going, Refusals
    <3>2. Marks(op, entry)'
      BY Zenon, <1>4, <2>5 DEF Marks
    <3>3. Unhalted(op)'
      <4>1. Unhalted(op)
        BY Zenon, <1>3 DEF Going
      <4> QED
        BY Zenon, <2>5, <4>1, UnhaltedSame
    <3> QED
      BY Zenon, <1>3, <2>5, <2>6, <3>1, <3>2, <3>3 DEF Going
  <2>10. present' => Accounted(op, entry, {})'
    BY <1>1, <1>3, <1>5, <1>10, <2>5 DEF Accounted, One
  <2>11. session'.failed = IF present /\ op.sink = "right" THEN "no" ELSE "rejected"
    BY <1>14 DEF depositMrz, IInv, CacheInv, Sessions
  <2>12. Verdict(op, session.failed)'
    <3>1. session'.failed \in {"no", "rejected"} /\ (session'.failed = "rejected" => ~present \/ n = 1)
      BY <1>1, <2>1, <2>11
    <3> QED
      BY <1>1, <1>4, <1>10, <2>4, <2>5, <3>1 DEF Verdict
  <2>13. /\ op'.step \notin {"window", "idle", "done"} /\ Open' = {} /\ session'.failed # "refused" /\ ~op'.marking
    BY <1>1, <1>3, <2>5, <2>11 DEF Open
  <2>14. OpInv'
    BY Zenon, <2>2, <2>7, <2>8, <2>9, <2>10, <2>12, <2>13 DEF OpInv
  <2>15. op'.step # "done" /\ op'.attempts <= op'.rejected /\ op'.attempts \in Nat
    BY <1>10, <2>5, <2>6, <2>13
  <2> QED
    BY Zenon, <2>6, <2>14, <2>15, NothingReported
<1> QED
  BY Zenon, <1>1, <1>13, <1>14

\* The reads' own steps.
LEMMA ReadStepOK == ASSUME IInv, ReadStep PROVE OpInv' /\ Reported'
  BY Zenon, RenegotiateStep, IdentityEndsStep, CertificatesEndStep, TokenInfoEndsStep, ListEndsStep DEF ReadStep

-----------------------------------------------------------------------------
(* The signatures.                                                         *)

\* The rows q are `rows` and then, up to the last of `docs`, only `row`.
Filled(rows, row, docs, q) ==
    /\ q \in Seq(Codes) /\ Len(q) = docs
    /\ \A i \in 1..Len(rows) : q[i] = rows[i]
    /\ \A i \in Len(rows) + 1..docs : q[i] = row

\* A batch that goes on has one row more.
LEMMA AppendedRow ==
    ASSUME NEW rows \in Seq(Codes), NEW row \in Codes
    PROVE  Filled(rows, row, Len(rows) + 1, Append(rows, row))
<1>1. Len(rows) \in Nat
  OBVIOUS
<1>2. \A i \in Len(rows) + 1..Len(rows) + 1 : i = Len(rows) + 1
  BY <1>1
<1> QED
  BY <1>2 DEF Filled

\* A batch that stops fills the rows that are left.
LEMMA RemainingRows ==
    ASSUME NEW rows \in Seq(Codes), NEW row \in Codes, NEW docs \in Nat, Len(rows) <= docs
    PROVE  Filled(rows, row, docs, rows \o [i \in 1..(docs - Len(rows)) |-> row])
<1> DEFINE n == docs - Len(rows)
           rest == [i \in 1..n |-> row]
           q == rows \o rest
<1>1. n \in Nat /\ Len(rows) \in Nat /\ Len(rows) + n = docs
  OBVIOUS
<1> HIDE DEF n
<1>2. rest \in Seq(Codes) /\ Len(rest) = n /\ \A i \in 1..n : rest[i] = row
  BY <1>1
<1>3. q = rows \o rest
  OBVIOUS
<1> HIDE DEF rest, q
<1>4. q \in Seq(Codes) /\ Len(q) = Len(rows) + n
  <2>1. rest \in Seq(Codes) /\ Len(rest) = n
    BY Zenon, <1>2
  <2>2. rows \o rest \in Seq(Codes)
    BY <2>1
  <2>3. Len(rows \o rest) = Len(rows) + Len(rest)
    OBVIOUS
  <2> QED
    BY Zenon, <1>3, <2>1, <2>2, <2>3
<1>5. \A i \in 1..Len(rows) : q[i] = rows[i]
  BY <1>1, <1>2, <1>3
<1>6. ASSUME NEW i \in Len(rows) + 1..docs PROVE q[i] = row
  <2>1. i - Len(rows) \in 1..n /\ i > Len(rows) /\ i \in 1..Len(rows) + n
    BY <1>1
  <2>2. q[i] = rest[i - Len(rows)]
    BY <1>1, <1>2, <1>3, <2>1
  <2> QED
    BY <1>2, <2>1, <2>2
<1>7. Filled(rows, row, docs, q)
  BY <1>1, <1>4, <1>5, <1>6 DEF Filled
<1> QED
  BY Zenon, <1>7 DEF q, rest, n

\* A signature, or a batch at one of its documents.
Rows(o) ==
    \A i \in 1..Len(o.rows) :
        o.rows[i] \notin {"PinWrong", "PinBlocked", "AuthFailed"} /\ (o.rows[i] = "Ok" <=> i \in o.signed)
Signing(o) ==
    /\ Shape(o) /\ Typed(o) /\ Steady(o) /\ o.flow \in Signatures /\ o.attempts <= o.asks /\ o.attempts <= o.rejected
    /\ o.docs \in 1..kMaxBatchDocuments /\ Len(o.rows) < o.docs /\ o.signed \subseteq 1..Len(o.rows) /\ Rows(o)

\* It may go on to another document.
GoesOn(o) ==
    /\ o.wrongPins = 0 /\ (o.pinWindows > 0 => o.pin # "none") /\ Refusals(o, entry) /\ Marks(o, entry)
    /\ present => Accounted(o, entry, {})
    /\ Verdict(o, session.failed) /\ ~o.marking

PinFields == {"pin", "wrongPins", "entryExpired", "prompterFailed", "helperTooOld"}

\* What the steps at the PIN leave of a signature's record.
LEMMA SigningFields ==
    ASSUME IInv, op.step \in {"walk", "pin"}, op.flow \in Signatures, NEW o, Same(op, o, PinFields), o.pin \in Secrets,
           o.entryExpired \in BOOLEAN, o.prompterFailed \in BOOLEAN, o.helperTooOld \in BOOLEAN, o.wrongPins \in {0, 1}
    PROVE  /\ Signing(o) /\ o.flow = op.flow /\ o.token = op.token
           /\ o.wrongPins = 0 /\ (o.pinWindows > 0 => o.pin # "none") => GoesOn(o)
<1>1. /\ Shape(op) /\ Typed(op) /\ Steady(op) /\ Going(op, entry) /\ Verdict(op, session.failed) /\ ~op.marking
      /\ present => Accounted(op, entry, {})
  BY Zenon, WalkFacts
<1>2. Shape(o)
  BY Zenon DEF Same
<1>3. /\ o.flow = op.flow /\ o.token = op.token /\ o.docs = op.docs /\ o.rows = op.rows /\ o.asked = op.asked
      /\ o.asks = op.asks /\ o.generation = op.generation /\ o.attempts = op.attempts /\ o.step = op.step
      /\ o.userCancelled = op.userCancelled
      /\ o.marking = op.marking /\ o.markedWrong = op.markedWrong /\ o.sink = op.sink
      /\ o.again = op.again /\ o.result = op.result /\ o.data = op.data
      /\ o.rejected = op.rejected /\ o.broken = op.broken /\ o.windows = op.windows /\ o.parked = op.parked
      /\ o.emptied = op.emptied /\ o.pinWindows = op.pinWindows /\ o.signed = op.signed
  BY DEF Same, Fields, PinFields
<1>4. o.wrongPins \in 0..kMaxBatchDocuments /\ o.wrongPins <= 1 /\ op.flow \notin Reads
  BY FlowsAssumption DEF Signatures, Reads
<1>5. Typed(o)
  BY Zenon, <1>1, <1>3, <1>4 DEF Typed
<1>6. Steady(o)
  BY Zenon, <1>1, <1>3, <1>4 DEF Steady, Counted
<1>7. Signing(o)
  <2>1. Unhalted(op)
    BY Zenon, <1>1 DEF Going
  <2>2. /\ op.docs \in 1..kMaxBatchDocuments /\ Len(op.rows) < op.docs /\ op.signed \subseteq 1..Len(op.rows)
        /\ Rows(op)
    BY Zenon, <2>1 DEF Unhalted, Rows
  <2>3. o.docs = op.docs /\ o.rows = op.rows /\ o.signed = op.signed
    BY Zenon, <1>3
  <2>4. o.docs \in 1..kMaxBatchDocuments /\ Len(o.rows) < o.docs /\ o.signed \subseteq 1..Len(o.rows) /\ Rows(o)
    BY Zenon, <2>2, <2>3 DEF Rows
  <2> QED
    BY Zenon, <1>1, <1>2, <1>3, <1>5, <1>6, <2>4 DEF Signing, Going
<1>8. Refusals(o, entry)
  BY Zenon, <1>1, <1>3, <1>4 DEF Going, Refusals
<1>9. Marks(o, entry)
  BY Zenon, <1>1, <1>3 DEF Going, Marks
<1>10. present => Accounted(o, entry, {})
  BY Zenon, <1>1, <1>3 DEF Accounted
<1>11. Verdict(o, session.failed)
  BY Zenon, <1>1, <1>3, <1>4 DEF Verdict
<1> QED
  BY Zenon, <1>1, <1>3, <1>7, <1>8, <1>9, <1>10, <1>11 DEF GoesOn

\* A signature or a batch is over, with the rows and the signatures of q.
Over(o, q, code) ==
    /\ Same(o, q, {"rows", "signed"}) /\ q.rows \in Seq(Codes) /\ q.signed \in SUBSET (1..kMaxBatchDocuments)
    /\ code \in Codes \ {"AuthFailed"}
    /\ code \in {"PinWrong", "PinBlocked"} => o.wrongPins > 0
    /\ o.flow = "batch" /\ code # "Cancelled" =>
          Len(q.rows) = o.docs /\ \A i \in 1..o.docs : q.rows[i] = "Ok" <=> i \in q.signed

\* A signature ends with a result that its rows bear out.
LEMMA SignatureOver ==
    ASSUME IInv, op.step \in {"walk", "pin"}, NEW o, Signing(o), NEW q, NEW code, Over(o, q, code),
           op' = Ends(q, code), present' = present, session'.failed = "no" \/ UNCHANGED <<entry, session>>
    PROVE  OpInv' /\ Reported'
<1> USE DEF Over
<1>1. /\ Shape(o) /\ Typed(o) /\ Steady(o) /\ o.flow \in Signatures /\ o.attempts <= o.rejected
      /\ session.failed = "refused" => entry.nothing \/ ~present
  BY Zenon, WalkFacts DEF Signing
<1>2. Shape(q)
  BY Zenon DEF Same
<1>3. /\ q.flow = o.flow /\ q.token = o.token /\ q.docs = o.docs /\ q.asked = o.asked
      /\ q.asks = o.asks /\ q.generation = o.generation /\ q.attempts = o.attempts /\ q.step = o.step
      /\ q.prompterFailed = o.prompterFailed /\ q.helperTooOld = o.helperTooOld
      /\ q.userCancelled = o.userCancelled /\ q.entryExpired = o.entryExpired
      /\ q.marking = o.marking /\ q.markedWrong = o.markedWrong /\ q.sink = o.sink
      /\ q.again = o.again /\ q.pin = o.pin /\ q.result = o.result /\ q.data = o.data
      /\ q.rejected = o.rejected /\ q.broken = o.broken /\ q.windows = o.windows /\ q.parked = o.parked
      /\ q.emptied = o.emptied /\ q.pinWindows = o.pinWindows /\ q.wrongPins = o.wrongPins
  BY DEF Same, Fields
<1>4. Typed(q)
  BY Zenon, <1>1, <1>3, CodeValues DEF Typed
<1>5. Steady(q)
  BY Zenon, <1>1, <1>3 DEF Steady, Counted
<1>6. session'.failed = "refused" => entry'.nothing \/ ~present'
  BY <1>1
<1>7. OpInv'
  <2>1. code \in Codes
    OBVIOUS
  <2> QED
    BY Zenon, <1>2, <1>4, <1>5, <1>6, <2>1, EndsStep
<1>8. Ended(q, code, op')
  BY Zenon, <1>2, EndsFields
<1>9. /\ op'.attempts = o.attempts /\ op'.rejected = o.rejected /\ op'.broken = o.broken /\ op'.flow = o.flow
      /\ op'.docs = o.docs /\ op'.rows = q.rows /\ op'.signed = q.signed /\ op'.wrongPins = o.wrongPins
      /\ op'.result \in {"none", code}
  BY <1>3, <1>8 DEF Ended, Same, Fields
<1>10. AttemptsAreRejections'
  <2>1. o.attempts \in Nat /\ o.rejected \in Nat /\ o.attempts <= o.rejected
    BY Zenon, <1>1, TypedNumbers DEF Numbers
  <2>2. op'.attempts = o.attempts /\ op'.rejected = o.rejected
    BY Zenon, <1>9
  <2> QED
    BY <2>1, <2>2 DEF AttemptsAreRejections
<1>11. RejectedSecretIsDropped'
  BY <1>9 DEF RejectedSecretIsDropped
<1>12. OutcomeIsHonest'
  BY <1>1, <1>9 DEF OutcomeIsHonest
<1>13. RefusalIsNoEmptyRead'
  BY <1>1, <1>9 DEF RefusalIsNoEmptyRead, Signatures
<1>14. RowsMatchDocuments'
  BY <1>9 DEF RowsMatchDocuments
<1> QED
  BY Zenon, <1>7, <1>10, <1>11, <1>12, <1>13, <1>14 DEF Reported

\* A batch goes on to its next document.
LEMMA BatchGoesOn ==
    ASSUME IInv, op.step \in {"walk", "pin"}, NEW o, Signing(o), GoesOn(o), o.flow = "batch",
           Same(o, op', {"rows", "signed", "step"}), op'.step = "walk",
           op'.rows \in Seq(Codes), op'.signed \in SUBSET (1..kMaxBatchDocuments),
           Len(op'.rows) < o.docs, op'.signed \subseteq 1..Len(op'.rows), Rows(op'),
           UNCHANGED <<entry, session, present>>
    PROVE  OpInv' /\ Reported'
<1>1. /\ Shape(o) /\ Typed(o) /\ Steady(o) /\ o.attempts <= o.asks /\ o.attempts <= o.rejected
      /\ o.flow \in Signatures /\ o.docs \in 1..kMaxBatchDocuments
      /\ session.failed = "refused" => entry.nothing \/ ~present
  BY Zenon, WalkFacts DEF Signing
<1>2. Shape(op')
  BY Zenon DEF Same
<1>3. /\ op'.flow = o.flow /\ op'.token = o.token /\ op'.docs = o.docs /\ op'.asked = o.asked
      /\ op'.asks = o.asks /\ op'.generation = o.generation /\ op'.attempts = o.attempts
      /\ op'.prompterFailed = o.prompterFailed /\ op'.helperTooOld = o.helperTooOld
      /\ op'.userCancelled = o.userCancelled /\ op'.entryExpired = o.entryExpired
      /\ op'.marking = o.marking /\ op'.markedWrong = o.markedWrong /\ op'.sink = o.sink
      /\ op'.again = o.again /\ op'.pin = o.pin /\ op'.result = o.result /\ op'.data = o.data
      /\ op'.rejected = o.rejected /\ op'.broken = o.broken /\ op'.windows = o.windows /\ op'.parked = o.parked
      /\ op'.emptied = o.emptied /\ op'.pinWindows = o.pinWindows /\ op'.wrongPins = o.wrongPins
  BY DEF Same, Fields
<1>4. Typed(op')
  BY Zenon, <1>1, <1>3, CodeValues DEF Typed
<1>5. Steady(op')
  BY Zenon, <1>1, <1>3 DEF Steady, Counted
<1>6. Going(op, entry)'
  <2>1. Refusals(op, entry)'
    BY Zenon, <1>3 DEF GoesOn, Refusals
  <2>2. Marks(op, entry)'
    BY Zenon, <1>3 DEF GoesOn, Marks
  <2>3. Unhalted(op)'
    BY Zenon, <1>1, <1>3 DEF GoesOn, Unhalted, Rows
  <2> QED
    BY Zenon, <1>1, <1>3, <2>1, <2>2, <2>3 DEF Going
<1>7. present => Accounted(op, entry, {})'
  BY Zenon, <1>3 DEF GoesOn, Accounted
<1>8. Verdict(op, session.failed)'
  BY Zenon, <1>3 DEF GoesOn, Verdict
<1>9. op'.step \notin {"window", "idle", "done"} /\ Open' = {} /\ ~op'.marking
  BY <1>3 DEF Open, GoesOn
<1>10. OpInv'
  BY Zenon, <1>1, <1>2, <1>4, <1>5, <1>6, <1>7, <1>8, <1>9 DEF OpInv
<1>11. op'.step # "done" /\ op'.attempts <= op'.rejected /\ op'.attempts \in Nat /\ op'.rejected \in Nat
  <2>1. Numbers(op')
    BY Zenon, <1>4, TypedNumbers
  <2>2. op'.step # "done"
    BY <1>9
  <2> QED
    BY Zenon, <1>6, <2>1, <2>2 DEF Going, Numbers
<1> QED
  BY Zenon, <1>10, <1>11, NothingReported

\* The result of a batch is Ok or one of its rows.
LEMMA BatchResultIsARow ==
    ASSUME NEW rows \in Seq(Codes), Len(rows) > 0
    PROVE  BatchResult(rows) = "Ok" \/ \E i \in 1..Len(rows) : BatchResult(rows) = rows[i]
<1>1. Len(rows) \in 1..Len(rows)
  OBVIOUS
<1> QED
  BY Zenon, <1>1 DEF BatchResult

\* The record with other rows.
WithRows(o, rows, q) == Same(o, q, {"rows"}) /\ q.rows = rows

\* Storing the rows changes nothing else.
LEMMA RowsFields ==
    ASSUME NEW o, Shape(o), NEW rows
    PROVE  WithRows(o, rows, [o EXCEPT !.rows = rows])
<1> DEFINE q == [o EXCEPT !.rows = rows]
<1>1. Shape(q)
  BY ZenonT(30) DEF Shape, Fields
<1>2. \A f \in Fields \ {"rows"} : q[f] = o[f]
  BY Zenon DEF Shape, Fields
<1>3. q.rows = rows
  BY Zenon DEF Shape, Fields
<1> QED
  BY Zenon, <1>1, <1>2, <1>3 DEF Same, WithRows

\* A document of a batch has its row.
LEMMA NextStep ==
    ASSUME IInv, op.step \in {"walk", "pin"}, NEW o, Signing(o), GoesOn(o), o.flow = "batch",
           NEW row \in Codes \ {"PinWrong", "PinBlocked", "AuthFailed"},
           NEW q, Same(o, q, {"signed"}), q.signed = IF row = "Ok" THEN o.signed \cup {Len(o.rows) + 1} ELSE o.signed,
           op' = NextDocument(q, Append(o.rows, row)), UNCHANGED <<entry, session, present>>
    PROVE  OpInv' /\ Reported'
<1> DEFINE rows == Append(o.rows, row)
           p == [q EXCEPT !.rows = rows]
<1>1. /\ o.rows \in Seq(Codes) /\ o.docs \in 1..kMaxBatchDocuments /\ Len(o.rows) < o.docs
      /\ o.signed \subseteq 1..Len(o.rows) /\ Rows(o)
  BY Zenon, CodeValues DEF Signing, Typed
<1>2. Len(o.rows) \in Nat /\ kMaxBatchDocuments \in Nat /\ o.docs \in Nat
  <2>1. o.rows \in Seq(Codes) /\ o.docs \in 1..kMaxBatchDocuments
    BY Zenon, <1>1
  <2> QED
    BY <2>1, FlowsAssumption
<1>3. /\ rows \in Seq(Codes) /\ Len(rows) = Len(o.rows) + 1 /\ rows[Len(o.rows) + 1] = row
      /\ \A i \in 1..Len(o.rows) : rows[i] = o.rows[i]
  <2>1. row \in Codes
    OBVIOUS
  <2>2. Filled(o.rows, row, Len(o.rows) + 1, rows)
    BY Zenon, <1>1, <2>1, AppendedRow
  <2> HIDE DEF rows
  <2> QED
    BY <1>2, <2>2 DEF Filled
<1>4. Shape(q) /\ q.docs = o.docs
  BY DEF Same, Fields
<1>5. op' = IF Len(rows) < o.docs THEN [q EXCEPT !.rows = rows, !.step = "walk"] ELSE Ends(p, BatchResult(rows))
  BY Zenon, <1>4 DEF NextDocument
<1> HIDE DEF rows
<1>6. q.signed \subseteq 1..Len(rows) /\ q.signed \in SUBSET (1..kMaxBatchDocuments)
  BY <1>1, <1>2, <1>3
<1>7. \A i \in 1..Len(rows) :
         rows[i] \notin {"PinWrong", "PinBlocked", "AuthFailed"} /\ (rows[i] = "Ok" <=> i \in q.signed)
  <2> SUFFICES ASSUME NEW i \in 1..Len(rows)
               PROVE  rows[i] \notin {"PinWrong", "PinBlocked", "AuthFailed"} /\ (rows[i] = "Ok" <=> i \in q.signed)
    BY Zenon
  <2>1. i \in 1..Len(o.rows) \/ i = Len(o.rows) + 1
    BY <1>2, <1>3
  <2>2. CASE i \in 1..Len(o.rows)
    <3>1. i # Len(o.rows) + 1
      BY <1>2, <2>2
    <3>2. rows[i] \notin {"PinWrong", "PinBlocked", "AuthFailed"} /\ (rows[i] = "Ok" <=> i \in o.signed)
      BY Zenon, <1>1, <1>3, <2>2 DEF Rows
    <3> QED
      BY <3>1, <3>2
  <2>3. CASE i = Len(o.rows) + 1
    <3>1. i \notin o.signed
      BY <1>1, <1>2, <2>3
    <3> QED
      BY <1>3, <2>3, <3>1
  <2> QED
    BY Zenon, <2>1, <2>2, <2>3
<1>8. CASE Len(rows) < o.docs
  <2>1. op' = [q EXCEPT !.rows = rows, !.step = "walk"]
    BY Zenon, <1>5, <1>8
  <2>2. Shape(op')
    BY ZenonT(30), <1>4, <2>1 DEF Shape, Fields
  <2>3. \A f \in Fields \ {"rows", "step"} : op'[f] = q[f]
    BY Zenon, <1>4, <2>1 DEF Shape, Fields
  <2>4. op'.rows = rows /\ op'.step = "walk"
    BY Zenon, <1>4, <2>1 DEF Shape, Fields
  <2>5. op'.signed = q.signed
    BY <2>3 DEF Fields
  <2>6. Same(o, op', {"rows", "signed", "step"})
    BY Zenon, <2>2, <2>3 DEF Same
  <2>7. Rows(op')
    BY Zenon, <1>7, <2>4, <2>5 DEF Rows
  <2>8. op'.rows \in Seq(Codes) /\ op'.signed \in SUBSET (1..kMaxBatchDocuments)
    BY Zenon, <1>3, <1>6, <2>4, <2>5
  <2>9. Len(op'.rows) < o.docs /\ op'.signed \subseteq 1..Len(op'.rows)
    BY Zenon, <1>6, <1>8, <2>4, <2>5
  <2> QED
    BY Zenon, <2>4, <2>6, <2>7, <2>8, <2>9, BatchGoesOn
<1>9. CASE ~(Len(rows) < o.docs)
  <2>1. op' = Ends(p, BatchResult(rows))
    BY Zenon, <1>5, <1>9
  <2>2. Len(rows) = o.docs /\ Len(rows) > 0
    BY <1>1, <1>2, <1>3, <1>9
  <2>3. Same(q, p, {"rows"}) /\ p.rows = rows
    BY Zenon, <1>4, RowsFields DEF WithRows
  <2> HIDE DEF p
  <2>4. p.signed = q.signed
    BY <2>3 DEF Same, Fields
  <2>5. Same(o, p, {"rows", "signed"})
    BY Zenon, <2>3 DEF Same
  <2> DEFINE code == BatchResult(rows)
  <2>6. code = "Ok" \/ \E i \in 1..Len(rows) : code = rows[i]
    BY Zenon, <1>3, <2>2, BatchResultIsARow
  <2> HIDE DEF code
  <2>7. code \in Codes \ {"AuthFailed"} /\ code \notin {"PinWrong", "PinBlocked"}
    <3>1. CASE code = "Ok"
      BY <3>1 DEF Codes
    <3>2. CASE \E i \in 1..Len(rows) : code = rows[i]
      <4>1. PICK i \in 1..Len(rows) : code = rows[i]
        BY Zenon, <3>2
      <4>2. rows[i] \in Codes
        BY <1>3
      <4> QED
        BY <1>7, <4>1, <4>2
    <3> QED
      BY Zenon, <2>6, <3>1, <3>2
  <2>8. op' = Ends(p, code) /\ present' = present
    BY Zenon, <2>1 DEF code
  <2>9. \A i \in 1..o.docs : p.rows[i] = "Ok" <=> i \in p.signed
    BY Zenon, <1>7, <2>2, <2>3, <2>4
  <2>10. Over(o, p, code)
    BY Zenon, <1>3, <1>6, <2>2, <2>3, <2>4, <2>5, <2>7, <2>9 DEF Over
  <2> QED
    BY Zenon, <2>8, <2>10, SignatureOver
<1> QED
  BY Zenon, <1>8, <1>9

\* A row halts the batch.
LEMMA HaltStep ==
    ASSUME IInv, op.step \in {"walk", "pin"}, NEW o, Signing(o), o.flow = "batch",
           NEW row \in Codes \ {"Ok", "AuthFailed"}, row \in {"PinWrong", "PinBlocked"} => o.wrongPins > 0,
           NEW rows, rows = o.rows \o RestOfRows(o, row), op' = Ends([o EXCEPT !.rows = rows], BatchResult(rows)),
           present' = present, session'.failed = "no" \/ UNCHANGED <<entry, session>>
    PROVE  OpInv' /\ Reported'
<1> DEFINE p == [o EXCEPT !.rows = rows]
<1>1. /\ Shape(o) /\ o.rows \in Seq(Codes) /\ o.docs \in 1..kMaxBatchDocuments /\ Len(o.rows) < o.docs
      /\ o.signed \subseteq 1..Len(o.rows) /\ Rows(o)
  BY Zenon, CodeValues DEF Signing, Typed
<1>2. Len(o.rows) \in Nat /\ kMaxBatchDocuments \in Nat /\ o.docs \in Nat /\ Len(o.rows) <= o.docs
  BY <1>1, FlowsAssumption
<1>3. /\ rows \in Seq(Codes) /\ Len(rows) = o.docs
      /\ \A i \in 1..Len(o.rows) : rows[i] = o.rows[i]
      /\ \A i \in Len(o.rows) + 1..o.docs : rows[i] = row
  <2>1. row \in Codes
    OBVIOUS
  <2>2. Filled(o.rows, row, o.docs, o.rows \o [i \in 1..(o.docs - Len(o.rows)) |-> row])
    BY Zenon, <1>1, <1>2, <2>1, RemainingRows
  <2>3. Filled(o.rows, row, o.docs, rows)
    BY Zenon, <2>2 DEF RestOfRows
  <2> QED
    BY Zenon, <2>3 DEF Filled
<1>4. Same(o, p, {"rows"}) /\ p.rows = rows
  BY Zenon, <1>1, RowsFields DEF WithRows
<1> HIDE DEF p
<1>5. p.signed = o.signed
  BY <1>4 DEF Same, Fields
<1>6. Same(o, p, {"rows", "signed"})
  BY Zenon, <1>4 DEF Same
<1>7. ASSUME NEW i \in 1..o.docs
      PROVE  /\ rows[i] = "Ok" <=> i \in o.signed
             /\ rows[i] \in Codes /\ rows[i] # "AuthFailed"
             /\ rows[i] \in {"PinWrong", "PinBlocked"} => o.wrongPins > 0
  <2>1. i \in 1..Len(o.rows) \/ i \in Len(o.rows) + 1..o.docs
    BY <1>2
  <2>2. rows[i] \in Codes
    BY <1>3
  <2>3. CASE i \in 1..Len(o.rows)
    BY <1>1, <1>3, <2>2, <2>3 DEF Rows
  <2>4. CASE i \in Len(o.rows) + 1..o.docs
    <3>1. i \notin o.signed
      BY <1>1, <1>2, <2>4
    <3> QED
      BY <1>3, <2>4, <3>1
  <2> QED
    BY Zenon, <2>1, <2>3, <2>4
<1> DEFINE code == BatchResult(rows)
<1>8. code = "Ok" \/ \E i \in 1..o.docs : code = rows[i]
  <2>1. Len(rows) > 0
    BY <1>1, <1>2, <1>3
  <2> QED
    BY Zenon, <1>3, <2>1, BatchResultIsARow
<1>9. op' = Ends(p, code)
  BY Zenon DEF p
<1> HIDE DEF code
<1>10. code \in Codes \ {"AuthFailed"} /\ (code \in {"PinWrong", "PinBlocked"} => o.wrongPins > 0)
  <2>1. CASE code = "Ok"
    BY <2>1 DEF Codes
  <2>2. CASE \E i \in 1..o.docs : code = rows[i]
    BY Zenon, <1>7, <2>2
  <2> QED
    BY Zenon, <1>8, <2>1, <2>2
<1>11. p.signed \in SUBSET (1..kMaxBatchDocuments)
  BY <1>1, <1>2, <1>5
<1>12. \A i \in 1..o.docs : p.rows[i] = "Ok" <=> i \in p.signed
  BY Zenon, <1>4, <1>5, <1>7
<1>13. Over(o, p, code)
  BY Zenon, <1>3, <1>4, <1>6, <1>10, <1>11, <1>12 DEF Over
<1> QED
  BY Zenon, <1>9, <1>13, SignatureOver

\* The record with the document signed.
SignedNow(o, q) == Same(o, q, {"signed"}) /\ q.signed = o.signed \cup {Len(o.rows) + 1}

\* Signing a document changes only the count of signatures.
LEMMA SignedFields == ASSUME NEW o, Shape(o) PROVE SignedNow(o, Signed(o))
<1>1. Shape(Signed(o))
  BY Zenon DEF Signed, Shape, Fields
<1>2. \A f \in Fields \ {"signed"} : Signed(o)[f] = o[f]
  BY Zenon DEF Signed, Shape, Fields
<1>3. Signed(o).signed = o.signed \cup {Len(o.rows) + 1}
  BY Zenon DEF Signed, Shape, Fields
<1> QED
  BY Zenon, <1>1, <1>2, <1>3 DEF Same, SignedNow

SignStatus == {"Ok", "Cancelled", "Engine", "KeyNotFound", "PinWrong", "PinBlocked"}

\* The signer returns, whatever it says.
LEMMA SignReturnsStep ==
    ASSUME IInv, op.step \in {"walk", "pin"}, NEW o, Signing(o), NEW status \in SignStatus, present' = present,
           isHaltingStatus(status) => o.wrongPins > 0,
           GoesOn(o) \/ status = "Cancelled" \/ o.flow = "sign" \/ (status # "Ok" /\ Halts(o, status)),
           SignReturns(o, status)
    PROVE  OpInv' /\ Reported'
<1>1. /\ Shape(o) /\ Typed(o) /\ o.flow \in Signatures /\ o.rows \in Seq(Codes) /\ o.docs \in 1..kMaxBatchDocuments
      /\ Len(o.rows) < o.docs /\ o.signed \in SUBSET (1..kMaxBatchDocuments)
  BY Zenon, CodeValues DEF Signing, Typed
<1>2. Len(o.rows) \in Nat /\ Len(o.rows) + 1 \in 1..kMaxBatchDocuments
  BY <1>1, FlowsAssumption
<1>3. session.failed \in {"no", "yes", "rejected", "refused"} /\ clearCachedPaceCredentials.failed = "no"
  BY DEF IInv, CacheInv, Sessions, clearCachedPaceCredentials
<1>4. SignedNow(o, Signed(o))
  BY Zenon, <1>1, SignedFields
<1>5. CASE status = "Cancelled" \/ o.token # "live"
  <2> DEFINE q == [o EXCEPT !.rows = <<>>]
  <2>1. op' = Ends(q, "Cancelled") /\ UNCHANGED <<entry, session>>
    BY Zenon, <1>5 DEF SignReturns
  <2>2. Same(o, q, {"rows"}) /\ q.rows = <<>>
    BY Zenon, <1>1, RowsFields DEF WithRows
  <2> HIDE DEF q
  <2>3. q.signed = o.signed
    BY <2>2 DEF Same, Fields
  <2>4. "Cancelled" \in Codes \ {"AuthFailed"} /\ "Cancelled" \notin {"PinWrong", "PinBlocked"} /\ <<>> \in Seq(Codes)
    BY DEF Codes
  <2>5. Over(o, q, "Cancelled")
    BY Zenon, <1>1, <2>2, <2>3, <2>4 DEF Over, Same
  <2> QED
    BY Zenon, <2>1, <2>5, SignatureOver
<1>6. CASE ~(status = "Cancelled" \/ o.token # "live") /\ o.flow = "sign"
  <2>1. SignEnds(o, status) /\ o.flow # "batch"
    BY <1>6 DEF SignReturns
  <2>2. session'.failed = "no" \/ UNCHANGED <<entry, session>>
    BY <1>3, <2>1 DEF SignEnds
  <2>3. CASE status = "Ok"
    <3> DEFINE q == Signed(o)
    <3>1. op' = Ends(q, "Ok")
      BY Zenon, <2>1, <2>3 DEF SignEnds
    <3>2. "Ok" \in Codes \ {"AuthFailed"} /\ "Ok" \notin {"PinWrong", "PinBlocked"}
      BY DEF Codes
    <3>3. Same(o, q, {"signed"}) /\ q.signed = o.signed \cup {Len(o.rows) + 1}
      BY Zenon, <1>4 DEF SignedNow
    <3> HIDE DEF q
    <3>4. q.rows = o.rows
      BY <3>3 DEF Same, Fields
    <3>5. q.signed \in SUBSET (1..kMaxBatchDocuments)
      BY <1>1, <1>2, <3>3
    <3>6. Over(o, q, "Ok")
      BY Zenon, <1>1, <2>1, <3>2, <3>3, <3>4, <3>5 DEF Over, Same
    <3> QED
      BY Zenon, <2>2, <3>1, <3>6, SignatureOver
  <2>4. CASE status # "Ok"
    <3> DEFINE code == SignBlame(o, status)
    <3>1. op' = Ends(o, code)
      BY Zenon, <2>1, <2>4 DEF SignEnds
    <3>2. code \in Codes \ {"AuthFailed"} /\ (code \in {"PinWrong", "PinBlocked"} => isHaltingStatus(status))
      BY DEF SignBlame, Codes, SignStatus, isHaltingStatus
    <3> HIDE DEF code
    <3>3. Over(o, o, code)
      BY Zenon, <1>1, <2>1, <3>2 DEF Over, Same
    <3> QED
      BY Zenon, <2>2, <3>1, <3>3, SignatureOver
  <2> QED
    BY Zenon, <2>3, <2>4
<1>7. CASE ~(status = "Cancelled" \/ o.token # "live") /\ o.flow # "sign"
  <2>1. DocumentEnds(o, status) /\ o.flow = "batch"
    BY <1>1, <1>7 DEF SignReturns, Signatures
  <2>2. session'.failed = "no" \/ UNCHANGED <<entry, session>>
    BY <1>3, <2>1 DEF DocumentEnds
  <2>3. CASE status = "Ok"
    <3>1. GoesOn(o)
      BY <1>7, <2>1, <2>3
    <3>2. op' = NextDocument(Signed(o), Append(o.rows, "Ok"))
      BY Zenon, <2>1, <2>3 DEF DocumentEnds
    <3>3. UNCHANGED <<entry, session>>
      BY <2>1, <2>3 DEF DocumentEnds, isHaltingStatus
    <3> DEFINE q == Signed(o)
    <3>4. Same(o, q, {"signed"}) /\ q.signed = IF "Ok" = "Ok" THEN o.signed \cup {Len(o.rows) + 1} ELSE o.signed
      BY Zenon, <1>4 DEF SignedNow
    <3>5. "Ok" \in Codes \ {"PinWrong", "PinBlocked", "AuthFailed"} /\ op' = NextDocument(q, Append(o.rows, "Ok"))
      BY Zenon, <3>2, CodeValues
    <3> HIDE DEF q
    <3> QED
      BY Zenon, <2>1, <3>1, <3>3, <3>4, <3>5, NextStep
  <2>4. CASE status # "Ok" /\ ~Halts(o, status)
    <3>1. GoesOn(o)
      BY <1>7, <2>1, <2>4
    <3>2. /\ op' = NextDocument(o, Append(o.rows, RowCode(o, status)))
          /\ ~isHaltingStatus(status) => UNCHANGED <<entry, session>>
      BY Zenon, <2>1, <2>4 DEF DocumentEnds
    <3>3. RowCode(o, status) = status /\ ~isHaltingStatus(status)
      BY <2>4 DEF Halts, RowCode
    <3>4. status \in Codes \ {"PinWrong", "PinBlocked", "AuthFailed"}
      BY <3>3 DEF SignStatus, Codes, isHaltingStatus
    <3>5. Same(o, o, {"signed"}) /\ o.signed = IF status = "Ok" THEN o.signed \cup {Len(o.rows) + 1} ELSE o.signed
      BY Zenon, <1>1, <2>4 DEF Same
    <3>6. op' = NextDocument(o, Append(o.rows, status)) /\ UNCHANGED <<entry, session>>
      BY Zenon, <3>2, <3>3
    <3> QED
      BY Zenon, <2>1, <3>1, <3>4, <3>5, <3>6, NextStep
  <2>5. CASE status # "Ok" /\ Halts(o, status)
    <3> DEFINE row == RowCode(o, status)
               rows == o.rows \o RestOfRows(o, row)
    <3>1. op' = Ends([o EXCEPT !.rows = rows], BatchResult(rows))
      BY Zenon, <2>1, <2>5 DEF DocumentEnds
    <3>2. row \in Codes \ {"Ok", "AuthFailed"} /\ (row \in {"PinWrong", "PinBlocked"} => isHaltingStatus(status))
      BY <2>5 DEF RowCode, Codes, SignStatus, isHaltingStatus
    <3> HIDE DEF row
    <3> QED
      BY Zenon, <2>1, <2>2, <3>1, <3>2, HaltStep
  <2> QED
    BY Zenon, <2>3, <2>4, <2>5
<1> QED
  BY Zenon, <1>5, <1>6, <1>7

\* A signature as it stands, or with its PIN.
LEMMA SigningAsItIs ==
    ASSUME IInv, op.step \in {"walk", "pin"}, op.flow \in Signatures
    PROVE  Signing(op) /\ op.wrongPins = 0 /\ (op.step = "walk" => GoesOn(op))
<1>1. Shape(op) /\ Typed(op) /\ Going(op, entry)
  BY Zenon, WalkFacts
<1>2. op.wrongPins = 0 /\ (op.pinWindows > 0 /\ op.step # "pin" => op.pin # "none")
  BY Zenon, <1>1 DEF Going, Unhalted
<1>3. Same(op, op, PinFields)
  BY Zenon, <1>1 DEF Same
<1>4. /\ op.pin \in Secrets /\ op.entryExpired \in BOOLEAN /\ op.prompterFailed \in BOOLEAN
      /\ op.helperTooOld \in BOOLEAN
  BY Zenon, <1>1 DEF Typed
<1>5. op.wrongPins \in {0, 1}
  BY <1>2
<1>6. Signing(op) /\ (op.wrongPins = 0 /\ (op.pinWindows > 0 => op.pin # "none") => GoesOn(op))
  BY Zenon, <1>3, <1>4, <1>5, SigningFields
<1>7. op.step = "walk" => op.step # "pin"
  OBVIOUS
<1> QED
  BY Zenon, <1>2, <1>6, <1>7

\* The PIN that was typed in changes nothing that is counted.
LEMMA WithPin ==
    ASSUME IInv, op.step \in {"walk", "pin"}, op.flow \in Signatures, NEW pin \in {"right", "wrong"},
           NEW o, o = [op EXCEPT !.pin = pin]
    PROVE  Signing(o) /\ o.wrongPins = 0 /\ GoesOn(o) /\ Same(op, o, PinFields) /\ o.flow = op.flow
<1>1. Shape(op) /\ Typed(op) /\ Going(op, entry)
  BY Zenon, WalkFacts
<1>2. Shape(o)
  BY ZenonT(30), <1>1 DEF Shape, Fields
<1>3. \A f \in Fields \ PinFields : o[f] = op[f]
  BY Zenon, <1>1 DEF Shape, Fields, PinFields
<1>4. /\ o.pin = pin /\ o.wrongPins = op.wrongPins /\ o.entryExpired = op.entryExpired
      /\ o.prompterFailed = op.prompterFailed /\ o.helperTooOld = op.helperTooOld
  BY Zenon, <1>1 DEF Shape, Fields
<1>5. op.wrongPins = 0
  BY Zenon, <1>1 DEF Going, Unhalted
<1>6. o.pin \in Secrets /\ o.pin # "none" /\ o.wrongPins \in {0, 1} /\ o.wrongPins = 0
  BY <1>4, <1>5 DEF Secrets
<1>7. Same(op, o, PinFields)
  BY Zenon, <1>2, <1>3 DEF Same
<1>8. o.entryExpired \in BOOLEAN /\ o.prompterFailed \in BOOLEAN /\ o.helperTooOld \in BOOLEAN
  BY Zenon, <1>1, <1>4 DEF Typed
<1>9. /\ Signing(o) /\ o.flow = op.flow
      /\ o.wrongPins = 0 /\ (o.pinWindows > 0 => o.pin # "none") => GoesOn(o)
  BY Zenon, <1>6, <1>7, <1>8, SigningFields
<1> QED
  BY Zenon, <1>6, <1>7, <1>9

\* The PIN goes to the card.
LEMMA PresentedStep ==
    ASSUME IInv, op.step \in {"walk", "pin"}, op.flow \in Signatures, NEW o, Same(op, o, PinFields), Signing(o),
           o.wrongPins = 0, o.flow = op.flow, o.flow = "sign" \/ GoesOn(o), NEW secret, Presented(o, secret), present' = present
    PROVE  OpInv' /\ Reported'
<1> DEFINE w == [o EXCEPT !.wrongPins = @ + 1]
<1>1. \/ SignReturns(o, "Engine") \/ SignReturns(o, "Ok")
      \/ \E status \in {"PinWrong", "PinBlocked"} : SignReturns(w, status)
  BY Zenon DEF Presented
<1>2. CASE SignReturns(o, "Engine") \/ SignReturns(o, "Ok")
  <2>1. /\ "Engine" \in SignStatus /\ "Ok" \in SignStatus
        /\ ~isHaltingStatus("Engine") /\ ~isHaltingStatus("Ok")
    BY DEF SignStatus, isHaltingStatus
  <2> QED
    BY Zenon, <1>2, <2>1, SignReturnsStep
<1>3. CASE \E status \in {"PinWrong", "PinBlocked"} : SignReturns(w, status)
  <2>1. PICK status \in {"PinWrong", "PinBlocked"} : SignReturns(w, status)
    BY Zenon, <1>3
  <2>2. status \in SignStatus /\ isHaltingStatus(status) /\ status # "Ok"
    BY DEF SignStatus, isHaltingStatus
  <2>3. Shape(o) /\ Typed(o)
    BY Zenon DEF Signing
  <2>4. Shape(w)
    BY ZenonT(30), <2>3 DEF Shape, Fields
  <2>5. \A f \in Fields \ {"wrongPins"} : w[f] = o[f]
    BY Zenon, <2>3 DEF Shape, Fields
  <2>6. w.wrongPins = o.wrongPins + 1
    BY Zenon, <2>3 DEF Shape, Fields
  <2> HIDE DEF w
  <2>7. /\ w.pin = o.pin /\ w.entryExpired = o.entryExpired /\ w.prompterFailed = o.prompterFailed
        /\ w.helperTooOld = o.helperTooOld /\ w.wrongPins = 1
    <3>1. o.wrongPins = 0
      OBVIOUS
    <3>2. /\ w.pin = o.pin /\ w.entryExpired = o.entryExpired /\ w.prompterFailed = o.prompterFailed
          /\ w.helperTooOld = o.helperTooOld
      BY <2>5 DEF Fields
    <3> QED
      BY <2>6, <3>1, <3>2
  <2>8. Same(op, w, PinFields)
    <3>1. "wrongPins" \in PinFields
      BY DEF PinFields
    <3> QED
      BY Zenon, <2>4, <2>5, <3>1 DEF Same
  <2>9. w.wrongPins \in {0, 1} /\ w.wrongPins > 0
    BY <2>7
  <2>10. /\ w.pin \in Secrets /\ w.entryExpired \in BOOLEAN /\ w.prompterFailed \in BOOLEAN
         /\ w.helperTooOld \in BOOLEAN
    BY Zenon, <2>3, <2>7 DEF Typed
  <2>11. Signing(w)
    BY Zenon, <2>8, <2>9, <2>10, SigningFields
  <2>12. Halts(w, status)
    BY Zenon, <2>2 DEF Halts
  <2> QED
    BY Zenon, <2>1, <2>2, <2>9, <2>11, <2>12, SignReturnsStep
<1> QED
  BY Zenon, <1>1, <1>2, <1>3

\* A key that is not found ends the signature.
LEMMA SelectionFailsStep ==
    ASSUME IInv, NEW status \in {"KeyNotFound", "Engine"}, SelectionFails(status)
    PROVE  OpInv' /\ Reported'
<1> DEFINE said == IF op.token # "live" THEN "Cancelled" ELSE status
<1>1. op.step = "walk" /\ op.flow \in Signatures /\ present' = present /\ SignReturns(op, said)
  BY Zenon DEF SelectionFails
<1>2. said \in SignStatus /\ ~isHaltingStatus(said) /\ op.step \in {"walk", "pin"}
  BY <1>1 DEF SignStatus, isHaltingStatus
<1> HIDE DEF said
<1>3. Signing(op) /\ GoesOn(op)
  BY Zenon, <1>1, <1>2, SigningAsItIs
<1> QED
  BY Zenon, <1>1, <1>2, <1>3, SignReturnsStep

\* The PIN window closes.
LEMMA PinFlagsFields ==
    ASSUME IInv, op.step = "pin", op.flow \in Signatures, NEW how \in PinEvents, NEW o, o = PinFlags(how)
    PROVE  /\ Signing(o) /\ o.flow = op.flow /\ o.wrongPins = 0
           /\ how \in {"timeout", "error", "tooOld"} => Halts(o, "Engine")
<1>1. Shape(op) /\ Typed(op) /\ op.wrongPins = 0 /\ op.step \in {"walk", "pin"}
  <2>1. op.step \in {"walk", "pin"}
    OBVIOUS
  <2> QED
    BY Zenon, <2>1, WalkFacts DEF Going, Unhalted
<1>2. Shape(o)
  BY ZenonT(40), <1>1 DEF PinFlags, Shape, Fields
<1>3. \A f \in Fields \ {"entryExpired", "prompterFailed", "helperTooOld"} : o[f] = op[f]
  BY Zenon, <1>1 DEF PinFlags, Shape, Fields
<1>4. /\ o.entryExpired = (op.entryExpired \/ how = "timeout") /\ o.prompterFailed = (op.prompterFailed \/ how = "error")
      /\ o.helperTooOld = (op.helperTooOld \/ how = "tooOld")
  BY Zenon, <1>1 DEF PinFlags, Shape, Fields
<1>5. o.wrongPins = 0 /\ o.pin = op.pin
  BY <1>1, <1>3 DEF Fields
<1>6. Same(op, o, PinFields)
  BY Zenon, <1>2, <1>3 DEF Same, PinFields
<1>7. o.entryExpired \in BOOLEAN /\ o.prompterFailed \in BOOLEAN /\ o.helperTooOld \in BOOLEAN /\ o.pin \in Secrets
  BY Zenon, <1>1, <1>4, <1>5 DEF Typed
<1>8. o.wrongPins \in {0, 1}
  BY <1>5
<1>9. Signing(o) /\ o.flow = op.flow
  BY Zenon, <1>1, <1>6, <1>7, <1>8, SigningFields
<1>10. how \in {"timeout", "error", "tooOld"} => Halts(o, "Engine")
  BY Zenon, <1>4 DEF Halts
<1> QED
  BY Zenon, <1>5, <1>9, <1>10

\* The PIN's window closes.
LEMMA PinClosedStep ==
    ASSUME IInv, NEW how \in PinEvents, SignPinClosed(how) \/ BatchPinClosed(how)
    PROVE  OpInv' /\ Reported'
<1>1. /\ op.step = "pin" /\ op.step \in {"walk", "pin"} /\ op.flow \in Signatures /\ present' = present
      /\ op.flow = "sign" => op.flow # "batch"
  BY DEF SignPinClosed, BatchPinClosed, Signatures
<1>2. Signing(op) /\ op.wrongPins = 0 /\ Shape(op)
  BY Zenon, <1>1, SigningAsItIs, WalkFacts
<1>3. CASE how \in {"right", "wrong"}
  <2>1. CASE SignPinClosed(how)
    <3>1. op.flow = "sign" /\ Presented(op, how)
      BY Zenon, <1>3, <2>1 DEF SignPinClosed
    <3>2. Same(op, op, PinFields)
      BY Zenon, <1>2 DEF Same
    <3> QED
      BY Zenon, <1>1, <1>2, <3>1, <3>2, PresentedStep
  <2>2. CASE BatchPinClosed(how)
    <3> DEFINE o == [op EXCEPT !.pin = how]
    <3>1. Presented(o, how)
      BY Zenon, <1>3, <2>2 DEF BatchPinClosed
    <3>2. Signing(o) /\ o.wrongPins = 0 /\ GoesOn(o) /\ Same(op, o, PinFields) /\ o.flow = op.flow
      BY Zenon, <1>1, <1>3, WithPin
    <3> HIDE DEF o
    <3> QED
      BY Zenon, <1>1, <3>1, <3>2, PresentedStep
  <2> QED
    BY Zenon, <2>1, <2>2
<1>4. CASE how \notin {"right", "wrong"}
  <2> DEFINE o == PinFlags(how)
             said == IF how = "cancelled" THEN "Cancelled" ELSE "Engine"
  <2>1. SignReturns(o, said)
    BY Zenon, <1>4 DEF SignPinClosed, BatchPinClosed
  <2>2. /\ Signing(o) /\ o.flow = op.flow /\ o.wrongPins = 0
        /\ how \in {"timeout", "error", "tooOld"} => Halts(o, "Engine")
    BY Zenon, <1>1, PinFlagsFields
  <2> HIDE DEF o
  <2>3. how = "cancelled" \/ how \in {"timeout", "error", "tooOld"}
    BY <1>4 DEF PinEvents
  <2>4. said \in SignStatus /\ ~isHaltingStatus(said) /\ said # "Ok" /\ (said = "Cancelled" \/ Halts(o, said))
    BY <2>2, <2>3 DEF SignStatus, isHaltingStatus
  <2> HIDE DEF said
  <2> QED
    BY Zenon, <1>1, <2>1, <2>2, <2>4, SignReturnsStep
<1> QED
  BY Zenon, <1>3, <1>4

\* The record at its PIN window, or past it.
AtPin(q, step, n, pin) ==
    Same(op, q, {"step", "pinWindows", "pin"}) /\ q.step = step /\ q.pinWindows = op.pinWindows + n /\ q.pin = pin

\* The steps between the walk and the PIN's window.
LEMMA PinStep ==
    ASSUME IInv, op.step \in {"walk", "pin"}, NEW step \in {"walk", "pin"}, NEW n \in {0, 1}, NEW pin \in Secrets,
           AtPin(op', step, n, pin), UNCHANGED <<entry, session, present>>,
           n = 0 \/ (op.pinWindows = 0 /\ op.flow \in Signatures /\ step = "pin"),
           step = "pin" \/ op.pinWindows = 0
    PROVE  OpInv' /\ Reported'
<1> USE DEF AtPin
<1>1. /\ Shape(op) /\ Typed(op) /\ Steady(op) /\ Going(op, entry) /\ Verdict(op, session.failed) /\ ~op.marking
      /\ present => Accounted(op, entry, {})
      /\ session.failed = "refused" => entry.nothing \/ ~present
  BY Zenon, WalkFacts
<1>2. Shape(op')
  BY Zenon DEF Same
<1>3. /\ op'.flow = op.flow /\ op'.token = op.token /\ op'.docs = op.docs /\ op'.rows = op.rows /\ op'.asked = op.asked
      /\ op'.asks = op.asks /\ op'.generation = op.generation /\ op'.attempts = op.attempts
      /\ op'.prompterFailed = op.prompterFailed /\ op'.helperTooOld = op.helperTooOld
      /\ op'.userCancelled = op.userCancelled /\ op'.entryExpired = op.entryExpired
      /\ op'.marking = op.marking /\ op'.markedWrong = op.markedWrong /\ op'.sink = op.sink
      /\ op'.again = op.again /\ op'.result = op.result /\ op'.data = op.data
      /\ op'.rejected = op.rejected /\ op'.broken = op.broken /\ op'.windows = op.windows /\ op'.parked = op.parked
      /\ op'.emptied = op.emptied /\ op'.wrongPins = op.wrongPins /\ op'.signed = op.signed
  BY DEF Same, Fields
<1>4. /\ op.pinWindows \in 0..kMaxBatchDocuments /\ kMaxBatchDocuments \in Nat \ {0} /\ op.pinWindows <= 1
  BY Zenon, <1>1, Bounds DEF Typed, Steady, Counted
<1>5. /\ op'.pinWindows \in 0..kMaxBatchDocuments /\ op'.pinWindows <= 1
      /\ op'.pinWindows > 0 => op'.flow \in Signatures
      /\ ~(op'.pinWindows > 0 /\ op'.step # "pin")
  <2>1. op.pinWindows > 0 => op.flow \in Signatures
    BY Zenon, <1>1 DEF Going, Unhalted
  <2>2. op'.flow = op.flow
    BY Zenon, <1>3
  <2> QED
    BY <1>4, <2>1, <2>2
<1>6. Typed(op')
  <2>1. op'.step \in {"idle", "walk", "window", "pin", "done"}
    OBVIOUS
  <2> QED
    BY Zenon, <1>1, <1>3, <1>5, <2>1 DEF Typed
<1>7. Steady(op')
  BY Zenon, <1>1, <1>3, <1>5 DEF Steady, Counted
<1>8. Going(op, entry)'
  <2>1. Refusals(op, entry)'
    BY Zenon, <1>1, <1>3 DEF Going, Refusals
  <2>2. Marks(op, entry)'
    BY Zenon, <1>1, <1>3 DEF Going, Marks
  <2>3. Unhalted(op)'
    <3>1. Unhalted(op)
      BY Zenon, <1>1 DEF Going
    <3> QED
      BY ZenonT(40), <1>3, <1>5, <3>1 DEF Unhalted
  <2> QED
    BY Zenon, <1>1, <1>3, <2>1, <2>2, <2>3 DEF Going
<1>9. present => Accounted(op, entry, {})'
  BY Zenon, <1>1, <1>3 DEF Accounted
<1>10. Verdict(op, session.failed)'
  BY Zenon, <1>1, <1>3 DEF Verdict
<1>11. op'.step \notin {"window", "idle", "done"} /\ Open' = {} /\ ~op'.marking
  BY <1>1, <1>3 DEF Open
<1>12. OpInv'
  BY Zenon, <1>1, <1>2, <1>6, <1>7, <1>8, <1>9, <1>10, <1>11 DEF OpInv
<1>13. op'.step # "done" /\ op'.attempts <= op'.rejected /\ op'.attempts \in Nat /\ op'.rejected \in Nat
  <2>1. Numbers(op')
    BY Zenon, <1>6, TypedNumbers
  <2>2. op'.step # "done"
    BY <1>11
  <2> QED
    BY Zenon, <1>8, <2>1, <2>2 DEF Going, Numbers
<1> QED
  BY Zenon, <1>12, <1>13, NothingReported

\* The engine asks for the PIN once.
LEMMA EngineAsksPinStep == ASSUME IInv, EngineAsksPin PROVE OpInv' /\ Reported'
<1>1. op.step = "walk" /\ op.step \in {"walk", "pin"} /\ op.flow \in Signatures /\ present' = present
  BY DEF EngineAsksPin
<1>2. Shape(op) /\ Typed(op) /\ Going(op, entry)
  BY Zenon, <1>1, WalkFacts
<1>3. CASE HoldsPin(op)
  <2>1. Presented(op, op.pin)
    BY Zenon, <1>3 DEF EngineAsksPin
  <2>2. Signing(op) /\ op.wrongPins = 0 /\ GoesOn(op)
    BY Zenon, <1>1, SigningAsItIs
  <2>3. Same(op, op, PinFields)
    BY Zenon, <1>2 DEF Same
  <2> QED
    BY Zenon, <1>1, <2>1, <2>2, <2>3, PresentedStep
<1>4. CASE ~HoldsPin(op)
  <2>1. op' = [op EXCEPT !.step = "pin", !.pinWindows = @ + 1] /\ UNCHANGED <<entry, session>>
    BY Zenon, <1>4 DEF EngineAsksPin
  <2>2. op.pinWindows = 0
    <3>1. Unhalted(op) /\ op.step # "pin" /\ op.pinWindows \in 0..kMaxBatchDocuments
      <4>1. op.step # "pin"
        BY <1>1
      <4> QED
        BY Zenon, <1>2, <4>1 DEF Going, Typed
    <3>2. ~(op.pinWindows > 0)
      BY Zenon, <1>4, <3>1 DEF Unhalted, HoldsPin
    <3> QED
      BY <3>1, <3>2, FlowsAssumption
  <2>3. Shape(op')
    BY ZenonT(30), <1>2, <2>1 DEF Shape, Fields
  <2>4. \A f \in Fields \ {"step", "pinWindows", "pin"} : op'[f] = op[f]
    BY Zenon, <1>2, <2>1 DEF Shape, Fields
  <2>5. op'.step = "pin" /\ op'.pinWindows = op.pinWindows + 1 /\ op'.pin = op.pin
    BY Zenon, <1>2, <2>1 DEF Shape, Fields
  <2>6. AtPin(op', "pin", 1, op.pin)
    BY Zenon, <2>3, <2>4, <2>5 DEF AtPin, Same
  <2>7. 1 \in {0, 1} /\ "pin" \in {"walk", "pin"} /\ op.pin \in Secrets
    BY <1>2 DEF Typed
  <2> QED
    BY Zenon, <1>1, <2>1, <2>2, <2>6, <2>7, PinStep
<1> QED
  BY Zenon, <1>3, <1>4

-----------------------------------------------------------------------------
(* The mutations.                                                          *)

\* A change of the card's PIN ends with what the card said.
LEMMA MutationOver ==
    ASSUME IInv, op.step \in {"walk", "pin"}, op.flow \in Mutations, UNCHANGED <<entry, present>>,
           NEW code \in {"Ok", "Cancelled", "PinWrong", "PinBlocked", "Unsupported", "Communication", "EntryExpired", "Prompter"},
           op' = Ends(op, code), session'.failed = session.failed
    PROVE  OpInv' /\ Reported'
<1>1. /\ Shape(op) /\ Typed(op) /\ Steady(op) /\ op.attempts <= op.rejected
      /\ session.failed = "refused" => entry.nothing \/ ~present
  BY Zenon, WalkFacts DEF Going
<1>2. code \in Codes /\ code # "AuthFailed"
  BY DEF Codes
<1>3. session'.failed = "refused" => entry'.nothing \/ ~present'
  BY Zenon, <1>1
<1>4. OpInv'
  BY Zenon, <1>1, <1>2, <1>3, EndsStep
<1>5. Ended(op, code, op')
  BY Zenon, <1>1, EndsFields
<1>6. /\ op'.attempts = op.attempts /\ op'.rejected = op.rejected /\ op'.broken = op.broken /\ op'.flow = op.flow
      /\ op'.result \in {"none", code}
  BY <1>5 DEF Ended, Same, Fields
<1>7. AttemptsAreRejections'
  <2>1. op.attempts \in Nat /\ op.rejected \in Nat /\ op.attempts <= op.rejected
    BY Zenon, <1>1, TypedNumbers DEF Numbers, Going
  <2> QED
    BY <1>6, <2>1 DEF AttemptsAreRejections
<1>8. OutcomeIsHonest'
  BY <1>2, <1>6 DEF OutcomeIsHonest
<1> QED
  BY <1>2, <1>4, <1>6, <1>7, <1>8 DEF Reported, RejectedSecretIsDropped, RefusalIsNoEmptyRead, RowsMatchDocuments, Mutations

\* The window of a change or an activation closes.
LEMMA MutationPinStep ==
    ASSUME IInv, NEW how \in PinEvents, ChangePinClosed(how) \/ ActivatePinClosed(how)
    PROVE  OpInv' /\ Reported'
<1>1. /\ op.step = "pin" /\ op.step \in {"walk", "pin"} /\ op.flow \in Mutations /\ op' = PinAnswer(how)
      /\ UNCHANGED <<entry, session, present>>
  BY DEF ChangePinClosed, ActivatePinClosed, Mutations
<1>2. Shape(op) /\ Typed(op) /\ Going(op, entry)
  BY Zenon, <1>1, WalkFacts
<1>3. \/ how \in {"right", "wrong"} /\ op' = [op EXCEPT !.step = "walk", !.pin = how]
      \/ op' = Ends(op, "Cancelled") \/ op' = Ends(op, "EntryExpired") \/ op' = Ends(op, "Prompter")
  BY <1>1 DEF PinAnswer, PinEvents
<1>4. CASE how \in {"right", "wrong"} /\ op' = [op EXCEPT !.step = "walk", !.pin = how]
  <2>1. op.pinWindows = 0
    <3>1. op.flow \notin Signatures
      BY <1>1 DEF Signatures, Mutations
    <3>2. ~(op.pinWindows > 0) /\ op.pinWindows \in 0..kMaxBatchDocuments
      BY Zenon, <1>2, <3>1 DEF Going, Unhalted, Typed
    <3> QED
      BY <3>2, Bounds
  <2>2. Shape(op')
    BY ZenonT(30), <1>2, <1>4 DEF Shape, Fields
  <2>3. \A f \in Fields \ {"step", "pinWindows", "pin"} : op'[f] = op[f]
    BY Zenon, <1>2, <1>4 DEF Shape, Fields
  <2>4. op'.step = "walk" /\ op'.pinWindows = op.pinWindows /\ op'.pin = how
    BY Zenon, <1>2, <1>4 DEF Shape, Fields
  <2>5. op.pinWindows = op.pinWindows + 0
    BY <2>1
  <2>6. AtPin(op', "walk", 0, how)
    BY Zenon, <2>2, <2>3, <2>4, <2>5 DEF AtPin, Same
  <2>7. 0 \in {0, 1} /\ "walk" \in {"walk", "pin"} /\ how \in Secrets
    BY <1>4 DEF Secrets
  <2> QED
    BY Zenon, <1>1, <2>1, <2>6, <2>7, PinStep
<1>5. CASE op' = Ends(op, "Cancelled") \/ op' = Ends(op, "EntryExpired") \/ op' = Ends(op, "Prompter")
  BY Zenon, <1>1, <1>5, MutationOver
<1> QED
  BY Zenon, <1>3, <1>4, <1>5

\* A change or an activation ends.
LEMMA MutationEndsStep ==
    ASSUME IInv, NEW code \in {"Ok", "PinWrong", "PinBlocked", "Unsupported", "Communication"},
           ChangeEnds(code) \/ ActivateEnds(code)
    PROVE  OpInv' /\ Reported'
<1>1. /\ op.step \in {"walk", "pin"} /\ op.flow \in Mutations /\ op' = Ends(op, code) /\ UNCHANGED <<entry, present>>
      /\ code \in {"Ok", "Cancelled", "PinWrong", "PinBlocked", "Unsupported", "Communication", "EntryExpired", "Prompter"}
  BY DEF ChangeEnds, ActivateEnds, InSeam, Mutations
<1>2. session'.failed = session.failed
  BY DEF ChangeEnds, ActivateEnds, IInv, CacheInv, Sessions
<1> QED
  BY Zenon, <1>1, <1>2, MutationOver

\* The steps on the card keep the account.
LEMMA CardStepOK == ASSUME IInv, CardStep PROVE OpInv' /\ Reported'
  BY Zenon, SelectionFailsStep, EngineAsksPinStep, PinClosedStep, MutationPinStep, MutationEndsStep DEF CardStep

-----------------------------------------------------------------------------
(* The operations start.                                                   *)

\* An operation refused at its start has counted nothing.
LEMMA PlainStartEnds ==
    ASSUME IInv, UNCHANGED <<entry, session, present>>, NEW flow \in Flows, NEW docs \in 0..kMaxBatchDocuments + 1,
           NEW code, op' = Ends(Fresh(flow, docs), code),
           code \in {"CardRemoved", "Communication", "Invalid"} \/ (code = "Unsupported" /\ flow \in Mutations)
    PROVE  OpInv' /\ Reported'
<1> DEFINE p == Fresh(flow, docs)
<1>1. Shape(p)
  BY Zenon, FreshFields DEF IInv, CacheInv
<1>2. p.data = FALSE
  BY Zenon DEF Fresh
<1> HIDE DEF p
<1>3. p = [p EXCEPT !.data = FALSE]
  BY Zenon, <1>1, <1>2 DEF Shape, Fields
<1>4. op' = Ends([p EXCEPT !.data = FALSE], code)
  BY Zenon, <1>3 DEF p
<1> QED
  BY Zenon, <1>4, StartEndsStep DEF p

\* A card that cannot be opened ends the operation.
LEMMA OpenFailsStep ==
    ASSUME IInv, NEW flow \in Flows, NEW code \in {"CardRemoved", "Communication"}, OpenFails(flow, code)
    PROVE  OpInv' /\ Reported'
<1>1. 1 \in 0..kMaxBatchDocuments + 1 /\ code \in {"CardRemoved", "Communication", "Invalid"}
  BY FlowsAssumption
<1>2. op' = Ends(Fresh(flow, 1), code) /\ UNCHANGED <<entry, session, present>>
  BY Zenon DEF OpenFails
<1> QED
  BY Zenon, <1>1, <1>2, PlainStartEnds

\* A read is served from the cache or starts.
LEMMA ReadStarts ==
    ASSUME IInv, NEW flow \in Reads, NEW served \in BOOLEAN, Run(IF served THEN Served(flow) ELSE Fresh(flow, 1))
    PROVE  OpInv' /\ Reported'
<1>1. /\ op.step = "idle" /\ UNCHANGED <<entry, session, present>>
      /\ op' = IF served THEN Served(flow) ELSE Fresh(flow, 1)
  BY Zenon DEF Run, Take, Idle
<1>2. /\ flow \in Flows /\ 0 \in 0..kMaxBatchDocuments + 1 /\ 1 \in 1..kMaxBatchDocuments
  BY FlowsAssumption DEF Flows
<1>3. CASE served
  <2> DEFINE data == flow # "certificates" \/ reads.certs # "empty"
  <2>1. op' = Ends([Fresh(flow, 0) EXCEPT !.data = data], "Ok")
    BY Zenon, <1>1, <1>3 DEF Served
  <2>2. data \in BOOLEAN
    BY Zenon
  <2> HIDE DEF data
  <2> QED
    BY Zenon, <1>1, <1>2, <2>1, <2>2, StartEndsStep
<1>4. CASE ~served
  BY Zenon, <1>1, <1>2, <1>4, StartStep
<1> QED
  BY Zenon, <1>3, <1>4

\* A batch starts with no row and with as many documents as it was given.
LEMMA SignBatchStarts ==
    ASSUME IInv, NEW docs \in 0..kMaxBatchDocuments + 1, SignBatch(docs)
    PROVE  OpInv' /\ Reported'
<1>1. /\ op.step = "idle" /\ UNCHANGED <<entry, session, present>>
      /\ op' = IF docs \in 1..kMaxBatchDocuments THEN Fresh("batch", docs) ELSE Ends(Fresh("batch", docs), "Invalid")
  BY Zenon DEF SignBatch, Run, Take, Idle
<1>2. "batch" \in Flows /\ "Invalid" \in {"CardRemoved", "Communication", "Invalid"}
  BY DEF Flows, Signatures
<1>3. CASE docs \in 1..kMaxBatchDocuments
  BY Zenon, <1>1, <1>2, <1>3, StartStep
<1>4. CASE docs \notin 1..kMaxBatchDocuments
  BY Zenon, <1>1, <1>2, <1>4, PlainStartEnds
<1> QED
  BY Zenon, <1>3, <1>4

\* A change of the PIN starts at its window, or is refused.
LEMMA MutationStarts ==
    ASSUME IInv, NEW flow \in Mutations, NEW allowed \in BOOLEAN,
           Run(IF allowed THEN [Fresh(flow, 1) EXCEPT !.step = "pin"] ELSE Ends(Fresh(flow, 1), "Unsupported"))
    PROVE  OpInv' /\ Reported'
<1>1. /\ op.step = "idle" /\ UNCHANGED <<entry, session, present>>
      /\ op' = IF allowed THEN [Fresh(flow, 1) EXCEPT !.step = "pin"] ELSE Ends(Fresh(flow, 1), "Unsupported")
  BY Zenon DEF Run, Take, Idle
<1>2. flow \in Flows /\ 1 \in 1..kMaxBatchDocuments /\ 1 \in 0..kMaxBatchDocuments + 1
  BY FlowsAssumption DEF Flows
<1>3. CASE allowed
  BY Zenon, <1>1, <1>2, <1>3, StartStep
<1>4. CASE ~allowed
  BY Zenon, <1>1, <1>2, <1>4, PlainStartEnds
<1> QED
  BY Zenon, <1>3, <1>4

\* The starts of the operations keep the account.
LEMMA OperationStep == ASSUME IInv, Operation PROVE OpInv' /\ Reported'
<1>1. /\ {"identity", "photo", "certificates", "tokenInfo", "list"} \subseteq Reads
      /\ "change" \in Mutations /\ "activate" \in Mutations
  BY DEF Reads, Mutations
<1>2. ASSUME NEW flow \in Reads, Run(Fresh(flow, 1)) PROVE OpInv' /\ Reported'
  <2>1. Run(IF FALSE THEN Served(flow) ELSE Fresh(flow, 1))
    BY Zenon, <1>2
  <2> QED
    BY Zenon, <2>1, ReadStarts
<1>3. CASE ReadIdentity \/ GetPhoto \/ ReadCertificates
  <2>1. ASSUME NEW flow \in Reads, NEW served \in BOOLEAN, Run(IF served THEN Served(flow) ELSE Fresh(flow, 1))
        PROVE  OpInv' /\ Reported'
    BY Zenon, <2>1, ReadStarts
  <2>2. (reads.identity # "none") \in BOOLEAN /\ (reads.certs # "none") \in BOOLEAN
    BY Zenon
  <2>3. CASE ReadIdentity
    BY Zenon, <1>1, <2>1, <2>2, <2>3 DEF ReadIdentity
  <2>4. CASE GetPhoto
    BY Zenon, <1>1, <2>1, <2>2, <2>4 DEF GetPhoto
  <2>5. CASE ReadCertificates
    BY Zenon, <1>1, <2>1, <2>2, <2>5 DEF ReadCertificates
  <2> QED
    BY Zenon, <1>3, <2>3, <2>4, <2>5
<1>4. CASE ReadTokenInfo \/ ListCredentials
  BY Zenon, <1>1, <1>2, <1>4 DEF ReadTokenInfo, ListCredentials
<1>5. CASE Sign
  <2>1. op.step = "idle" /\ UNCHANGED <<entry, session, present>> /\ op' = Fresh("sign", 1)
    BY Zenon, <1>5 DEF Sign, Run, Take, Idle
  <2>2. "sign" \in Flows /\ 1 \in 1..kMaxBatchDocuments
    BY FlowsAssumption DEF Flows, Signatures
  <2> QED
    BY Zenon, <2>1, <2>2, StartStep
<1>6. CASE \E docs \in 0..kMaxBatchDocuments + 1 : SignBatch(docs)
  BY Zenon, <1>6, SignBatchStarts
<1>7. CASE \E capable \in BOOLEAN : ManagePin(capable) \/ ActivateSigningKey(capable)
  <2>1. PICK capable \in BOOLEAN : ManagePin(capable) \/ ActivateSigningKey(capable)
    BY Zenon, <1>7
  <2>2. CASE ManagePin(capable)
    BY Zenon, <1>1, <2>2, MutationStarts DEF ManagePin
  <2>3. CASE ActivateSigningKey(capable)
    <3>1. (listing # "none" /\ capable) \in BOOLEAN
      BY Zenon
    <3> QED
      BY Zenon, <1>1, <2>3, <3>1, MutationStarts DEF ActivateSigningKey
  <2> QED
    BY Zenon, <2>1, <2>2, <2>3
<1> QED
  BY Zenon, <1>3, <1>4, <1>5, <1>6, <1>7 DEF Operation

-----------------------------------------------------------------------------
(* The caches and the session.                                             *)

\* A session, whatever the last ask made of it.
LEMMA SessionSet ==
    ASSUME session \in Sessions, NEW channel \in BOOLEAN, NEW failed \in {"no", "yes", "rejected", "refused"}
    PROVE  /\ [session EXCEPT !.channel = channel, !.failed = failed] \in Sessions
           /\ [session EXCEPT !.failed = failed] \in Sessions
  BY Zenon DEF Sessions

\* A session stays one.
LEMMA ProvidedSession ==
    ASSUME session \in Sessions, NEW o, NEW answer, NEW secret, Provided(o, answer, secret)
    PROVE  session' \in Sessions
<1> DEFINE failed == CASE answer = "refused" -> "refused" [] answer = "ok" /\ present -> "rejected" [] OTHER -> "yes"
<1>1. failed \in {"no", "yes", "rejected", "refused"} /\ TRUE \in BOOLEAN /\ "no" \in {"no", "yes", "rejected", "refused"}
  OBVIOUS
<1>2. \/ session' = [session EXCEPT !.channel = TRUE, !.failed = "no"]
      \/ session' = [session EXCEPT !.failed = failed]
  BY Zenon DEF Provided
<1> HIDE DEF failed
<1> QED
  BY Zenon, <1>1, <1>2, SessionSet

\* An ask leaves the caches sound.
LEMMA AskCaches == ASSUME CacheInv, NEW kind, NEW reason \in BOOLEAN, Ask(kind, reason) PROVE CacheInv'
<1> DEFINE signal == isCardRejectionSignal(entry, reason)
           o == Asked(signal)
<1>1. /\ UNCHANGED <<reads, listing, present, started>> /\ entry' = noteRejectedSecret(entry, signal)
      /\ \/ requestCredential(o, noteRejectedSecret(entry, signal), kind)
         \/ \E q : Provided(q, "parked", "none")
  BY Zenon DEF Ask, ReadProvider, SignProvider, BatchProvider
<1>2. entry' \in Entry
  BY Zenon, <1>1, EntryWiped DEF CacheInv, noteRejectedSecret
<1> HIDE DEF signal, o
<1>3. ASSUME NEW q, NEW e, requestCredential(q, e, kind)
      PROVE  session' = session \/ \E r, a, c : Provided(r, a, c)
  <2>1. BeforeWindow(e, kind, q.generation, q.attempts) \in {"error", "cached", "silenced", "capped", "window"}
    BY DEF BeforeWindow
  <2> QED
    BY Zenon, <1>3, <2>1 DEF requestCredential
<1>4. session' \in Sessions
  BY Zenon, <1>1, <1>3, ProvidedSession DEF CacheInv
<1> QED
  BY Zenon, <1>1, <1>2, <1>4 DEF CacheInv

\* So does a window that closes.
LEMMA WindowCaches == ASSUME IInv, WindowClosed PROVE CacheInv'
<1>1. CacheInv
  BY Zenon DEF IInv
<1>2. op.asked \in Kinds
  BY Zenon DEF IInv, OpInv, Typed
<1>3. ASSUME NEW how \in {"cancelled", "timeout"}, WindowRefused(how) PROVE CacheInv'
  <2>1. /\ UNCHANGED <<reads, listing, present, started>> /\ entry.refusals < MaxRefusals
        /\ entry' = entry \/ entry' = noteRefusal(entry, how)
        /\ \E r, a, c : Provided(r, a, c)
    BY Zenon, <1>3 DEF WindowRefused
  <2>2. entry' \in Entry
    BY Zenon, <1>1, <2>1, EntryRefused DEF CacheInv
  <2> QED
    BY Zenon, <1>1, <2>1, <2>2, ProvidedSession DEF CacheInv
<1>4. ASSUME NEW tooOld \in BOOLEAN, WindowBroke(tooOld) PROVE CacheInv'
  <2>1. UNCHANGED <<entry, reads, listing, present, started>> /\ \E r, a, c : Provided(r, a, c)
    BY Zenon, <1>4 DEF WindowBroke
  <2> QED
    BY Zenon, <1>1, <2>1, ProvidedSession DEF CacheInv
<1>5. ASSUME NEW secret \in {"right", "wrong", "malformed"}, WindowAnswered(secret) PROVE CacheInv'
  <2>1. /\ UNCHANGED <<reads, listing, present, started>> /\ \E r, a, c : Provided(r, a, c)
        /\ entry' = Collected(entry, secret)
    BY Zenon, <1>5 DEF WindowAnswered
  <2>2. secret # "malformed" => secret \in Secrets
    BY DEF Secrets
  <2>3. Answered(entry) \in Entry
    BY Zenon, <1>1, EntryAnswered DEF CacheInv
  <2>4. entry' \in Entry
    BY Zenon, <1>2, <2>1, <2>2, <2>3, EntryPut DEF Collected, Holding
  <2> QED
    BY Zenon, <1>1, <2>1, <2>4, ProvidedSession DEF CacheInv
<1>6. ASSUME NEW secret, WindowSwitched(secret) PROVE CacheInv'
  <2>1. /\ UNCHANGED <<reads, listing, present, started>> /\ \E r, a, c : Provided(r, a, c)
        /\ entry' = Answered(entry)
    BY Zenon, <1>6 DEF WindowSwitched
  <2>2. entry' \in Entry
    BY Zenon, <1>1, <2>1, EntryAnswered DEF CacheInv
  <2> QED
    BY Zenon, <1>1, <2>1, <2>2, ProvidedSession DEF CacheInv
<1> QED
  BY Zenon, <1>3, <1>4, <1>5, <1>6 DEF WindowClosed

\* So does a read.
LEMMA ReadCachesStep == ASSUME CacheInv, ReadStep PROVE CacheInv'
<1>1. CASE IdentityRenegotiates
  <2>1. /\ UNCHANGED <<reads, listing, present, started>> /\ entry' = put(entry, "mrz", op.sink)
        /\ op.sink \in {"right", "wrong"}
        /\ session' = session \/ session' = depositMrz(op.sink)
    BY Zenon, <1>1 DEF IdentityRenegotiates
  <2>2. op.sink \in Secrets /\ "mrz" \in Kinds /\ entry \in Entry
    BY <2>1 DEF Secrets, Kinds, CacheInv
  <2>3. entry' \in Entry
    <3>1. ASSUME NEW kind \in Kinds PROVE put(entry, kind, op.sink) \in Entry
      <4>1. entry \in Entry /\ op.sink \in Secrets
        BY Zenon, <2>2
      <4>2. Holding(entry, kind, op.sink, put(entry, kind, op.sink))
        BY Zenon, <4>1, EntryPut
      <4> QED
        BY Zenon, <4>2 DEF Holding
    <3> QED
      BY <2>1, <2>2, <3>1
  <2>4. session' \in Sessions
    <3> DEFINE accepted == present /\ op.sink = "right"
               failed == IF accepted THEN "no" ELSE "rejected"
    <3>1. accepted \in BOOLEAN /\ failed \in {"no", "yes", "rejected", "refused"}
      BY DEF CacheInv
    <3>2. session' = session \/ session' = [session EXCEPT !.channel = accepted, !.failed = failed]
      BY Zenon, <2>1 DEF depositMrz
    <3> HIDE DEF accepted, failed
    <3> QED
      BY Zenon, <3>1, <3>2, SessionSet DEF CacheInv
  <2> QED
    BY Zenon, <2>1, <2>3, <2>4 DEF CacheInv
<1>2. ASSUME NEW status, IdentityEnds(status) PROVE CacheInv'
  <2>1. /\ UNCHANGED <<listing, present, started>>
        /\ entry' = entry \/ entry' = markCredentialWrong(entry)
        /\ reads' = reads \/ reads' = [reads EXCEPT !.identity = "current"]
        /\ session' = session \/ session' = clearCachedPaceCredentials
    BY Zenon, <1>2 DEF IdentityEnds
  <2>2. entry' \in Entry
    BY Zenon, <2>1, EntryWiped DEF CacheInv
  <2>3. reads' \in ReadCaches
    BY <2>1 DEF CacheInv, ReadCaches
  <2>4. session' \in Sessions
    BY <2>1 DEF CacheInv, Sessions, clearCachedPaceCredentials
  <2> QED
    BY Zenon, <2>1, <2>2, <2>3, <2>4 DEF CacheInv
<1>3. ASSUME NEW status, CertificatesEnd(status) PROVE CacheInv'
  <2>1. /\ UNCHANGED <<entry, listing, session, present, started>>
        /\ reads' = reads \/ reads' = [reads EXCEPT !.certs = IF status = "Ok" THEN "current" ELSE "empty"]
    BY Zenon, <1>3 DEF CertificatesEnd
  <2>2. reads' \in ReadCaches
    BY <2>1 DEF CacheInv, ReadCaches
  <2> QED
    BY Zenon, <2>1, <2>2 DEF CacheInv
<1>4. ASSUME NEW filled, TokenInfoEnds(filled) PROVE CacheInv'
  BY Zenon, <1>4 DEF TokenInfoEnds, CacheInv
<1>5. ASSUME NEW filled, NEW readable, ListEnds(filled, readable) PROVE CacheInv'
  <2>1. UNCHANGED <<entry, reads, session, present, started>> /\ (listing' = listing \/ listing' = "current")
    BY Zenon, <1>5 DEF ListEnds
  <2> QED
    BY Zenon, <2>1 DEF CacheInv
<1> QED
  BY Zenon, <1>1, <1>2, <1>3, <1>4, <1>5 DEF ReadStep

\* A signer's return may drop the card's entry.
LEMMA ReturnedCaches ==
    ASSUME CacheInv, UNCHANGED <<reads, listing, present, started>>,
           \/ UNCHANGED <<entry, session>>
           \/ \E o, status : SignReturns(o, status)
           \/ \E o, secret : Presented(o, secret)
    PROVE  CacheInv'
<1>1. ASSUME NEW o, NEW status, SignReturns(o, status)
      PROVE  UNCHANGED <<entry, session>> \/ (entry' = NoEntry /\ session' = clearCachedPaceCredentials)
  BY Zenon, <1>1 DEF SignReturns, SignEnds, DocumentEnds, invalidate
<1>2. ASSUME NEW o, NEW secret, Presented(o, secret) PROVE \E q, status : SignReturns(q, status)
  BY Zenon, <1>2 DEF Presented
<1>3. UNCHANGED <<entry, session>> \/ (entry' = NoEntry /\ session' = clearCachedPaceCredentials)
  BY Zenon, <1>1, <1>2
<1>4. session' \in Sessions
  BY <1>3 DEF CacheInv, Sessions, clearCachedPaceCredentials
<1>5. entry' \in Entry
  BY Zenon, <1>3, NoEntryIsEmpty DEF CacheInv
<1> QED
  BY Zenon, <1>4, <1>5 DEF CacheInv

\* So do the steps on the card.
LEMMA CardCaches == ASSUME CacheInv, CardStep PROVE CacheInv'
<1>1. ASSUME NEW status, SelectionFails(status) PROVE CacheInv'
  BY Zenon, <1>1, ReturnedCaches DEF SelectionFails
<1>2. CASE EngineAsksPin
  BY Zenon, <1>2, ReturnedCaches DEF EngineAsksPin
<1>3. ASSUME NEW how, SignPinClosed(how) \/ BatchPinClosed(how) PROVE CacheInv'
  BY Zenon, <1>3, ReturnedCaches DEF SignPinClosed, BatchPinClosed
<1>4. ASSUME NEW how, ChangePinClosed(how) \/ ActivatePinClosed(how) PROVE CacheInv'
  BY Zenon, <1>4 DEF ChangePinClosed, ActivatePinClosed, CacheInv
<1>5. ASSUME NEW code, ChangeEnds(code) \/ ActivateEnds(code) PROVE CacheInv'
  <2>1. /\ UNCHANGED <<entry, present, started>> /\ DropCaches(code)
        /\ session' = session \/ session' = [session EXCEPT !.pin = "none"]
    BY Zenon, <1>5 DEF ChangeEnds, ActivateEnds, eraseDepositedPin
  <2>2. session' \in Sessions
    BY <2>1 DEF CacheInv, Sessions
  <2>3. listing' = "none" /\ reads' = [half \in {"identity", "certs"} |-> "none"]
    BY <2>1 DEF DropCaches, AfterReach, CacheInv, ReadCaches
  <2>4. reads' \in ReadCaches
    BY <2>3 DEF ReadCaches
  <2>5. listing' \in {"none", "current"}
    BY <2>3
  <2> QED
    BY Zenon, <2>1, <2>2, <2>4, <2>5 DEF CacheInv
<1> QED
  BY Zenon, <1>1, <1>2, <1>3, <1>4, <1>5 DEF CardStep

\* So does an operation's start.
LEMMA StartCaches ==
    ASSUME CacheInv, Operation \/ \E flow \in Flows, code \in {"CardRemoved", "Communication"} : OpenFails(flow, code)
    PROVE  CacheInv'
<1>1. Take /\ UNCHANGED <<entry, reads, listing, session, present>>
  BY Zenon DEF Operation, OpenFails, Run, ReadIdentity, GetPhoto, ReadCertificates, ReadTokenInfo, ListCredentials,
     Sign, SignBatch, ManagePin, ActivateSigningKey
<1>2. started' \in 0..MaxOps
  BY <1>1, FlowsAssumption DEF Take, CacheInv
<1> QED
  BY Zenon, <1>1, <1>2 DEF CacheInv

\* So do the steps around an operation.
LEMMA AroundCaches ==
    ASSUME CacheInv, Return \/ (\E token \in {"cancelled", "shutdown"} : Cancel(token)) \/ RemoveCard \/ SweepSession
                     \/ DepositPin \/ UNCHANGED vars
    PROVE  CacheInv'
<1>1. CASE Return
  <2>1. session' \in Sessions
    <3> DEFINE failed == IF session.failed = "refused" THEN session.failed ELSE "no"
    <3>1. failed \in {"no", "yes", "rejected", "refused"} /\ TRUE \in BOOLEAN
      OBVIOUS
    <3>2. session' = [session EXCEPT !.failed = failed]
      BY Zenon, <1>1 DEF Return
    <3> HIDE DEF failed
    <3> QED
      BY Zenon, <3>1, <3>2, SessionSet DEF CacheInv
  <2> QED
    BY Zenon, <1>1, <2>1 DEF Return, CacheInv
<1>2. CASE (\E token \in {"cancelled", "shutdown"} : Cancel(token)) \/ UNCHANGED vars
  BY Zenon, <1>2 DEF Cancel, vars, CacheInv
<1>3. CASE RemoveCard
  <2>1. session' \in Sessions
    BY Zenon, <1>3 DEF RemoveCard, CacheInv, Sessions
  <2>2. entry' \in Entry
    BY Zenon, <1>3, NoEntryIsEmpty DEF RemoveCard, invalidate
  <2>3. reads' \in ReadCaches /\ listing' \in {"none", "current"} /\ present' \in BOOLEAN
    BY Zenon, <1>3 DEF RemoveCard, NoReads, ReadCaches
  <2> QED
    BY Zenon, <1>3, <2>1, <2>2, <2>3 DEF RemoveCard, CacheInv
<1>4. CASE SweepSession \/ DepositPin
  <2>1. session' \in Sessions
    <3>1. \/ session' = [session EXCEPT !.channel = FALSE, !.failed = "no", !.pin = "none"]
          \/ session' = [session EXCEPT !.pin = "current"]
      BY Zenon, <1>4 DEF SweepSession, DepositPin
    <3>2. session \in Sessions
      BY Zenon DEF CacheInv
    <3>3. [session EXCEPT !.channel = FALSE, !.failed = "no", !.pin = "none"] \in Sessions
      BY Zenon, <3>2 DEF Sessions
    <3>4. [session EXCEPT !.pin = "current"] \in Sessions
      BY Zenon, <3>2 DEF Sessions
    <3> QED
      BY Zenon, <3>1, <3>3, <3>4
  <2> QED
    BY Zenon, <1>4, <2>1 DEF SweepSession, DepositPin, CacheInv
<1> QED
  BY Zenon, <1>1, <1>2, <1>3, <1>4

-----------------------------------------------------------------------------
(* The theorems.                                                           *)

\* The agent starts in the invariant.
LEMMA InitOK == Init => IInv
<1> SUFFICES ASSUME Init PROVE IInv
  BY Zenon
<1> DEFINE q == Fresh("identity", 0)
<1>1. /\ entry = NoEntry /\ reads = NoReads /\ listing = "none" /\ present = TRUE /\ started = 0
      /\ session \in [channel : {FALSE}, failed : {"no"}, pin : {"none"}, dual : BOOLEAN]
      /\ op = [q EXCEPT !.step = "idle"]
  BY Zenon DEF Init
<1>2. entry \in Entry /\ entry.refusals = 0
  BY Zenon, <1>1, NoEntryIsEmpty
<1>3. CacheInv
  <2>1. session \in Sessions
    BY Zenon, <1>1 DEF Sessions
  <2>2. reads \in ReadCaches /\ listing \in {"none", "current"} /\ present \in BOOLEAN
    BY Zenon, <1>1 DEF NoReads, ReadCaches
  <2>3. started \in 0..MaxOps
    BY <1>1, FlowsAssumption
  <2> QED
    BY Zenon, <1>2, <2>1, <2>2, <2>3 DEF CacheInv
<1>4. "identity" \in Flows /\ 0 \in 0..kMaxBatchDocuments + 1 /\ entry.refusals \in 0..MaxRefusals
  BY <1>2, FlowsAssumption, CacheAssumption DEF Flows, Reads
<1>5. Shape(q) /\ Typed(q) /\ Steady(q)
  <2>1. \A flow \in Flows, docs \in 0..kMaxBatchDocuments + 1 :
           Shape(Fresh(flow, docs)) /\ Typed(Fresh(flow, docs)) /\ Steady(Fresh(flow, docs))
    BY Zenon, <1>2, FreshFields
  <2> QED
    BY <1>4, <2>1
<1>6. q.attempts = 0 /\ q.rejected = 0 /\ q.broken = 0 /\ q.marking = FALSE
  BY Zenon DEF Fresh
<1> HIDE DEF q
<1>7. Shape(op)
  BY ZenonT(30), <1>1, <1>5 DEF Shape, Fields
<1>8. \A f \in Fields \ {"step"} : op[f] = q[f]
  BY Zenon, <1>1, <1>5 DEF Shape, Fields
<1>9. op.step = "idle"
  BY Zenon, <1>1, <1>5 DEF Shape, Fields
<1>10. /\ op.flow = q.flow /\ op.token = q.token /\ op.docs = q.docs /\ op.rows = q.rows /\ op.asked = q.asked
       /\ op.asks = q.asks /\ op.generation = q.generation /\ op.attempts = q.attempts
       /\ op.prompterFailed = q.prompterFailed /\ op.userCancelled = q.userCancelled
       /\ op.entryExpired = q.entryExpired /\ op.helperTooOld = q.helperTooOld
       /\ op.marking = q.marking /\ op.markedWrong = q.markedWrong /\ op.sink = q.sink
       /\ op.again = q.again /\ op.pin = q.pin /\ op.result = q.result /\ op.data = q.data
       /\ op.rejected = q.rejected /\ op.broken = q.broken
       /\ op.windows = q.windows /\ op.emptied = q.emptied /\ op.parked = q.parked
       /\ op.pinWindows = q.pinWindows /\ op.wrongPins = q.wrongPins /\ op.signed = q.signed
  BY <1>8 DEF Fields
<1>11. Typed(op)
  BY Zenon, <1>5, <1>9, <1>10 DEF Typed
<1>12. Steady(op)
  BY Zenon, <1>5, <1>10 DEF Steady, Counted
<1>13. /\ op.step \notin {"walk", "window", "pin"} /\ op.step \notin {"walk", "pin"}
       /\ op.step # "window" /\ op.step # "done" /\ session.failed = "no"
  BY <1>1, <1>9
<1>14. session.failed \in {"no", "refused"} /\ session.failed # "refused"
  BY <1>13
<1>15. OpInv
  <2>1. op.marking = FALSE
    BY Zenon, <1>6, <1>10
  <2> QED
    BY Zenon, <1>7, <1>11, <1>12, <1>13, <1>14, <2>1 DEF OpInv, Running
<1>16. Reported
  <2>1. op.attempts = 0 /\ op.rejected = 0 /\ op.broken = 0
    BY Zenon, <1>6, <1>10
  <2>2. AttemptsAreRejections
    BY <2>1 DEF AttemptsAreRejections
  <2> QED
    BY Zenon, <1>13, <2>2 DEF Reported, RejectedSecretIsDropped, OutcomeIsHonest, RefusalIsNoEmptyRead, RowsMatchDocuments
<1> QED
  BY Zenon, <1>3, <1>15, <1>16 DEF IInv

\* Every step keeps the invariant.
LEMMA StepOK == IInv /\ [Next]_vars => IInv'
<1> SUFFICES ASSUME IInv, [Next]_vars PROVE IInv'
  BY Zenon
<1>1. CacheInv
  BY Zenon DEF IInv
<1>2. CASE \E flow \in Flows, code \in {"CardRemoved", "Communication"} : OpenFails(flow, code)
  BY Zenon, <1>1, <1>2, OpenFailsStep, StartCaches DEF IInv
<1>3. CASE Operation
  BY Zenon, <1>1, <1>3, OperationStep, StartCaches DEF IInv
<1>4. CASE \E kind \in Kinds \cup {"pin"}, reason \in BOOLEAN : Ask(kind, reason)
  BY Zenon, <1>1, <1>4, AskStep, AskCaches DEF IInv
<1>5. CASE WindowClosed
  BY Zenon, <1>5, WindowStep, WindowCaches DEF IInv
<1>6. CASE ReadStep
  BY Zenon, <1>1, <1>6, ReadStepOK, ReadCachesStep DEF IInv
<1>7. CASE CardStep
  BY Zenon, <1>1, <1>7, CardStepOK, CardCaches DEF IInv
<1>8. CASE Return
  BY Zenon, <1>1, <1>8, ReturnStep, AroundCaches DEF IInv
<1>9. CASE \E token \in {"cancelled", "shutdown"} : Cancel(token)
  BY Zenon, <1>1, <1>9, CancelStep, AroundCaches DEF IInv
<1>10. CASE RemoveCard
  BY Zenon, <1>1, <1>10, RemoveStep, AroundCaches DEF IInv
<1>11. CASE SweepSession \/ DepositPin \/ UNCHANGED vars
  BY Zenon, <1>1, <1>11, BetweenStep, AroundCaches DEF IInv
<1> QED
  BY Zenon, <1>2, <1>3, <1>4, <1>5, <1>6, <1>7, <1>8, <1>9, <1>10, <1>11 DEF Next

\* The invariant holds at all times.
LEMMA IInvAlways == Spec => []IInv
  BY InitOK, StepOK, PTL DEF Spec

\* What every state satisfies, from the invariant.
LEMMA InvariantGives == IInv => SecretsAreCounted /\ ResultIsHonest /\ BatchIsAccounted /\ CachesAreSound
<1> SUFFICES ASSUME IInv PROVE SecretsAreCounted /\ ResultIsHonest /\ BatchIsAccounted /\ CachesAreSound
  BY Zenon
<1>1. Shape(op) /\ Typed(op) /\ Steady(op) /\ Reported /\ CacheInv
  BY Zenon DEF IInv, OpInv
<1>2. WindowsAreBounded
  <2>1. \A k \in Kinds : op.windows[k] \in Nat /\ op.windows[k] <= kMaxPaceAttempts + op.broken
    BY Zenon, <1>1, TypedNumbers DEF Numbers, Steady, Counted
  <2>2. op.broken \in Nat /\ kMaxPaceAttempts \in Nat
    BY Zenon, <1>1, TypedNumbers, Bounds DEF Numbers
  <2> QED
    BY <2>1, <2>2 DEF WindowsAreBounded
<1>3. OnePinPerSignature
  BY Zenon, <1>1 DEF OnePinPerSignature, Steady, Counted
<1>4. op \in Op
  BY Zenon, <1>1, OpIsTyped
<1>5. TypeOK
  <2>1. reads \in [identity : {"none", "current", "old"}, certs : {"none", "current", "old", "empty"}]
    BY <1>1 DEF CacheInv, ReadCaches
  <2>2. session \in [channel : BOOLEAN, failed : {"no", "yes", "rejected", "refused"}, pin : {"none", "current", "old"}, dual : BOOLEAN]
    BY <1>1 DEF CacheInv, Sessions
  <2>3. listing \in {"none", "current", "old"}
    BY <1>1 DEF CacheInv
  <2> QED
    BY Zenon, <1>1, <1>4, <2>1, <2>2, <2>3 DEF TypeOK, CacheInv
<1>6. NothingOldIsCached
  BY <1>1 DEF NothingOldIsCached, CacheInv, ReadCaches, Sessions
<1> QED
  BY Zenon, <1>1, <1>2, <1>3, <1>5, <1>6 DEF Reported, SecretsAreCounted, ResultIsHonest, BatchIsAccounted, CachesAreSound

\* The tries are counted as the card counts them and no operation raises more
\* windows for a kind of secret than the cap, the breaks and one refusal allow,
\* whatever order the middleware asks in (cacheOrPrompt, isCardRejectionSignal,
\* the double-mark guard of the read flows).
THEOREM SecretsAreAlwaysCounted == Spec => []SecretsAreCounted
  BY IInvAlways, InvariantGives, PTL

\* The outcome a client gets names what happened: a rejected secret, a refused
\* PIN, a dismissal, an expiry; and no refused read succeeds empty-handed
\* (finish, the flows' order of blame).
THEOREM ResultIsAlwaysHonest == Spec => []ResultIsHonest
  BY IInvAlways, InvariantGives, PTL

\* A batch that ends has a row for every document, Ok exactly where the card
\* signed, after one PIN window and at most one PIN the card refused
\* (BatchSignFlow::run, BatchPinHolder).
THEOREM BatchIsAlwaysAccounted == Spec => []BatchIsAccounted
  BY IInvAlways, InvariantGives, PTL

\* The caches keep no secret the card has just rejected, nothing read before a
\* mutation reached the card and no PIN it has replaced (markCredentialWrong,
\* PinChangeFlow, KeyActivationFlow, the removal hook).
THEOREM CachesAreAlwaysSound == Spec => []CachesAreSound
  BY IInvAlways, InvariantGives, PTL

====
