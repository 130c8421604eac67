------------------------------ MODULE CardFlows ------------------------------
(***************************************************************************)
(* The operations on one card, which its reader's worker runs one after    *)
(* another: the reads (identity, certificates, token info, credential      *)
(* list), the signatures (one document or a batch) and the mutations (PIN  *)
(* change, key activation), with the caches they share and the credential  *)
(* provider the middleware calls back when the card wants a secret.        *)
(*                                                                         *)
(* The middleware is external: inside one seam call it may ask for a CAN   *)
(* or an MRZ several times, for one candidate after another, and says      *)
(* "the last one failed" after the card rejected a secret in the same      *)
(* operation or after a window that was refused, also in an earlier one    *)
(* (FlowPrelude.h).  Meanwhile the client cancels, the core shuts down and *)
(* the card is pulled.  Cached data is "current" or "old": what it is to   *)
(* the card now.  The phase an operation shows is OperationBase's, the     *)
(* queue of windows PromptSerializer's.                                    *)
(***************************************************************************)
EXTENDS CredentialCache, Sequences

CONSTANTS
    kMaxBatchDocuments, \* BatchSignFlow: documents in a batch
    MaxAsks,            \* bound: times the middleware asks in one operation
    MaxOps              \* bound: operations that are started

ASSUME FlowsAssumption == kMaxBatchDocuments \in Nat \ {0} /\ MaxAsks \in Nat /\ MaxOps \in Nat

Reads == {"identity", "photo", "certificates", "tokenInfo", "list"}
Signatures == {"sign", "batch"}
Mutations == {"change", "activate"}
Flows == Reads \cup Signatures \cup Mutations

Codes == {"none", "Ok", "Cancelled", "AuthFailed", "Communication", "Unsupported", "CardRemoved", "Prompter",
          "EntryExpired", "Capability", "KeyNotFound", "PinWrong", "PinBlocked", "Engine", "Invalid"}

VARIABLES
    entry,    \* CredentialCache: the card's entry
    reads,    \* CardReadCache: the card's identity and certificates
    listing,  \* CredentialSnapshotCache: the card's credential records
    session,  \* the middleware's session: secure channel up, last activation
              \* failed, deposited PIN, and whether the card takes either secret
    present,  \* the card is in the reader
    op,       \* the operation on the worker
    started   \* operations started so far

vars == <<entry, reads, listing, session, present, op, started>>

Row == Codes
Op == [flow : Flows, step : {"idle", "walk", "window", "pin", "done"}, token : {"live", "cancelled", "shutdown"},
       docs : 0..kMaxBatchDocuments + 1, rows : Seq(Row), asked : Kinds, asks : 0..MaxAsks,
       generation : 0..MaxRefusals, attempts : 0..MaxAsks + 1,
       prompterFailed : BOOLEAN, userCancelled : BOOLEAN, entryExpired : BOOLEAN, helperTooOld : BOOLEAN,
       marking : BOOLEAN, markedWrong : BOOLEAN, sink : Secrets \cup {"malformed"}, again : BOOLEAN,
       pin : Secrets, result : Codes, data : BOOLEAN,
       rejected : 0..MaxAsks + 1, broken : 0..MaxAsks, windows : [Kinds -> 0..MaxAsks], emptied : BOOLEAN, parked : BOOLEAN,
       pinWindows : 0..kMaxBatchDocuments, wrongPins : 0..kMaxBatchDocuments, signed : SUBSET (1..kMaxBatchDocuments)]

Fresh(flow, docs) ==
    [flow |-> flow, step |-> "walk", token |-> "live", docs |-> docs, rows |-> <<>>, asked |-> "can", asks |-> 0,
     generation |-> entry.refusals, attempts |-> 0,
     prompterFailed |-> FALSE, userCancelled |-> FALSE, entryExpired |-> FALSE, helperTooOld |-> FALSE,
     marking |-> FALSE, markedWrong |-> FALSE, sink |-> "none", again |-> FALSE,
     pin |-> "none", result |-> "none", data |-> FALSE,
     rejected |-> 0, broken |-> 0, windows |-> [k \in Kinds |-> 0], emptied |-> FALSE, parked |-> FALSE,
     pinWindows |-> 0, wrongPins |-> 0, signed |-> {}]

TypeOK ==
    /\ entry \in Entry
    /\ reads \in [identity : {"none", "current", "old"}, certs : {"none", "current", "old", "empty"}]
    /\ listing \in {"none", "current", "old"}
    /\ session \in [channel : BOOLEAN, failed : {"no", "yes", "rejected", "refused"}, pin : {"none", "current", "old"}, dual : BOOLEAN]
    /\ present \in BOOLEAN
    /\ op \in Op /\ started \in 0..MaxOps

NoReads == [identity |-> "none", certs |-> "none"]

\* A card was inserted and resolved.
Init ==
    /\ entry = NoEntry /\ reads = NoReads /\ listing = "none" /\ present = TRUE
    /\ session \in [channel : {FALSE}, failed : {"no"}, pin : {"none"}, dual : BOOLEAN]
    /\ op = [Fresh("identity", 0) EXCEPT !.step = "idle"] /\ started = 0

-----------------------------------------------------------------------------
(* How an operation ends.                                                  *)

\* finish: the outcome, unless the core is shutting down, when the operation
\* leaves without a word.
Ends(o, code) == [o EXCEPT !.step = "done", !.marking = FALSE, !.sink = "none", !.pin = "none",
                           !.result = IF o.token = "shutdown" THEN "none" ELSE code]

\* Fault: the holder's own refusal is blamed on the card.
BlamesTheCard(o, code) == IF o.prompterFailed THEN "Prompter" ELSE code

\* The read flows' order of blame for a failed read.
Blame(o, code) ==
    IF o.helperTooOld THEN "Capability"
    ELSE IF o.prompterFailed THEN "Prompter"
    ELSE IF o.userCancelled THEN "Cancelled"
    ELSE IF o.entryExpired THEN "EntryExpired"
    ELSE code

\* The signing flows do not know of a dismissed CAN window.
SignBlame(o, code) ==
    IF o.helperTooOld THEN "Capability"
    ELSE IF o.prompterFailed THEN "Prompter"
    ELSE IF o.entryExpired THEN "EntryExpired"
    ELSE code

\* Fault: the operation forgets that its provider has told the card's verdict.
MarksTwice(o) == ~(o.entryExpired \/ o.userCancelled)

\* After AuthFailed: the card rejected a secret that nobody has counted yet.
Unmarked(o) == ~(o.entryExpired \/ o.userCancelled \/ o.markedWrong)

-----------------------------------------------------------------------------
(* The credential provider.                                                *)

SeesCancel(flow) == flow \in Reads
SeesExpiry(flow) == flow \notin Mutations
TracksMarks(flow) == flow \in {"identity", "photo", "certificates"}
Offers(o) == o.flow \in {"identity", "photo"} /\ session.dual

\* Whether the end of the read has still to mark the secret: a secret the
\* provider hands over is new, a request it fails keeps the mark it made.
MarkAfter(o, answer) ==
    [o EXCEPT !.marking = FALSE,
              !.markedWrong = TracksMarks(o.flow) /\ answer # "ok" /\ (o.marking \/ o.markedWrong)]

\* The provider's answer reaches the card: a secret it accepts opens the
\* channel, one it rejects or does not get fails the activation.
Provided(o, answer, secret) ==
    /\ op' = [MarkAfter(o, answer) EXCEPT
                 !.step = "walk",
                 !.rejected = @ + (IF answer = "ok" /\ present /\ secret = "wrong" THEN 1 ELSE 0),
                 !.broken = @ + (IF answer \in {"broken", "parked"} \/ (answer = "ok" /\ ~present) THEN 1 ELSE 0)]
    /\ session' = IF answer = "ok" /\ secret = "right" /\ present
                  THEN [session EXCEPT !.channel = TRUE, !.failed = "no"]
                  ELSE [session EXCEPT !.failed = CASE answer = "refused"          -> "refused"
                                                    [] answer = "ok" /\ present  -> "rejected"
                                                    [] OTHER                     -> "yes"]

\* The half-established channel goes, and what the middleware made of it.
clearCachedPaceCredentials == [session EXCEPT !.failed = "no"]

\* After a refusal: the operation is told which refusal it was.
Silenced(o) ==
    IF entry.refusal = "cancelled"
    THEN [o EXCEPT !.userCancelled = @ \/ SeesCancel(o.flow)]
    ELSE [o EXCEPT !.entryExpired = @ \/ SeesExpiry(o.flow)]

\* Only a card that is there asks, and only for a channel it does not have.
CanAsk == present /\ op.step = "walk" /\ ~session.channel /\ op.asks < MaxAsks

\* requestCredential, up to the window it raises.
requestCredential(o, e, kind) ==
    LET next == BeforeWindow(e, kind, o.generation, o.attempts)
    IN  CASE next = "cached"   -> Provided(o, "ok", e[kind])
          [] next = "silenced" -> Provided(Silenced(o), "refused", "none")
          [] next = "error"    -> Provided(o, "broken", "none")
          [] next = "capped"   -> Provided(o, "capped", "none")
          [] next = "window"   -> /\ op' = [o EXCEPT !.step = "window", !.asked = kind, !.windows[kind] = @ + 1]
                                  /\ UNCHANGED session

\* A rejected secret is counted and leaves the cache before another is asked.
noteRejectedSecret(e, signal) == IF signal THEN markCredentialWrong(e) ELSE e
Asked(signal) == [op EXCEPT !.asks = @ + 1, !.attempts = @ + (IF signal THEN 1 ELSE 0), !.marking = signal]

\* The provider of the reads and the mutations.  Where the card takes either
\* secret, a cached MRZ is parked for the flow to deposit.
ReadProvider(kind, signal) ==
    /\ op.flow \in Reads \cup Mutations
    /\ LET e == noteRejectedSecret(entry, signal)
       IN  /\ entry' = e
           /\ IF Offers(op) /\ kind = "can" /\ e.mrz # "none"
              THEN Provided([Asked(signal) EXCEPT !.sink = e.mrz, !.parked = TRUE], "parked", "none")
              ELSE requestCredential(Asked(signal), e, kind)

\* The providers of the signatures, for a secret that is not the PIN.
SignProvider(kind, signal) ==
    /\ op.flow = "sign"
    /\ entry' = noteRejectedSecret(entry, signal)
    /\ requestCredential(Asked(signal), noteRejectedSecret(entry, signal), kind)
BatchProvider(kind, signal) ==
    /\ op.flow = "batch"
    /\ entry' = noteRejectedSecret(entry, signal)
    /\ requestCredential(Asked(signal), noteRejectedSecret(entry, signal), kind)

\* The middleware asks for a secret, saying whether the last one failed.
Ask(kind, reason) ==
    /\ CanAsk /\ (reason => session.failed \in {"rejected", "refused"})
    /\ LET signal == isCardRejectionSignal(entry, reason)
       IN  ReadProvider(kind, signal) \/ SignProvider(kind, signal) \/ BatchProvider(kind, signal)
    /\ UNCHANGED <<reads, listing, present, started>>

\* The window of a card secret closed empty.
WindowRefused(how) ==
    /\ op.step = "window" /\ entry.refusals < MaxRefusals
    /\ IF ~stillWantedFor(entry, op.generation)
       THEN UNCHANGED entry /\ Provided(Silenced(op), "refused", "none")
       ELSE /\ entry' = noteRefusal(entry, how)
            /\ Provided([op EXCEPT !.userCancelled = @ \/ (how = "cancelled" /\ SeesCancel(op.flow)),
                                   !.entryExpired = @ \/ (how = "timeout" /\ SeesExpiry(op.flow)),
                                   !.emptied = TRUE], "refused", "none")
    /\ UNCHANGED <<reads, listing, present, started>>

\* The helper failed, or is too old to be asked this.
WindowBroke(tooOld) ==
    /\ op.step = "window"
    /\ IF ~stillWantedFor(entry, op.generation)
       THEN Provided(Silenced(op), "refused", "none")
       ELSE Provided([op EXCEPT !.prompterFailed = @ \/ ~tooOld, !.helperTooOld = @ \/ (tooOld /\ SeesExpiry(op.flow))],
                     "broken", "none")
    /\ UNCHANGED <<entry, reads, listing, present, started>>

Collected(e, secret) == IF secret = "malformed" THEN Answered(e) ELSE put(Answered(e), op.asked, secret)

\* The holder answered with a secret of the kind asked, which is cached before
\* the card has seen it, unless its form is wrong.
WindowAnswered(secret) ==
    /\ op.step = "window"
    /\ LET o == [op EXCEPT !.entryExpired = FALSE]
       IN  Provided(o, IF secret = "malformed" THEN "broken" ELSE "ok", secret)
    /\ entry' = Collected(entry, secret)
    /\ UNCHANGED <<reads, listing, present, started>>

\* The holder answered with the other kind.  Only an MRZ for a CAN, in a flow
\* that offered it, is parked; anything else breaks the helper's contract.
WindowSwitched(secret) ==
    /\ op.step = "window"
    /\ entry' = Answered(entry)
    /\ LET o == [op EXCEPT !.entryExpired = FALSE]
       IN  IF op.asked = "can" /\ Offers(op)
           THEN Provided([o EXCEPT !.sink = secret, !.parked = TRUE], "parked", "none")
           ELSE Provided([o EXCEPT !.prompterFailed = TRUE], "broken", "none")
    /\ UNCHANGED <<reads, listing, present, started>>

WindowClosed ==
    \/ \E how \in {"cancelled", "timeout"} : WindowRefused(how)
    \/ \E tooOld \in BOOLEAN : WindowBroke(tooOld)
    \/ \E secret \in {"right", "wrong", "malformed"} : WindowAnswered(secret) \/ WindowSwitched(secret)

-----------------------------------------------------------------------------
(* The reads.                                                              *)

InSeam(flows) == op.step = "walk" /\ op.flow \in flows

\* The card can be read: the channel is up, or it never asked for a secret.
Readable == present /\ (session.channel \/ op.asks = 0)

\* What the identity seam can report; a failed activation shows as AuthFailed
\* whatever failed it, or as a cancellation when the provider cancelled.
ReadStatus(status) ==
    CASE status = "Ok"         -> Readable
      [] status = "AuthFailed" -> session.failed # "no" /\ op.asks > 0
      [] status = "Cancelled"  -> op.token # "live" \/ op.userCancelled \/ op.parked
      [] OTHER                 -> TRUE

\* The parked MRZ is deposited and the channel negotiated with it.
depositMrz(secret) ==
    LET accepted == present /\ secret = "right"
    IN  [session EXCEPT !.channel = accepted, !.failed = IF accepted THEN "no" ELSE "rejected"]

\* A parked MRZ is deposited, when a plugin takes it, and the card read a
\* second time, at most once.
IdentityRenegotiates ==
    /\ InSeam({"identity", "photo"}) /\ op.token = "live" /\ op.sink \in {"right", "wrong"} /\ ~op.again
    /\ entry' = put(entry, "mrz", op.sink)
    /\ LET o == [op EXCEPT !.sink = "none", !.again = TRUE]
       IN  \/ op' = Ends(o, "Capability") /\ UNCHANGED session
           \/ /\ op' = [o EXCEPT !.rejected = @ + (IF present /\ op.sink = "wrong" THEN 1 ELSE 0)]
              /\ session' = depositMrz(op.sink)
    /\ UNCHANGED <<reads, listing, present, started>>

\* The order in which the flow looks: the token, a payload that cannot be
\* parsed, the read's own cancellation, its success, then whom to blame.
IdentityCode(status) ==
    IF op.token # "live" THEN "Cancelled"
    ELSE IF op.sink = "malformed" /\ ~op.again THEN (IF status \in {"Ok", "Cancelled"} THEN "Prompter" ELSE status)
    ELSE IF status \in {"Ok", "Cancelled"} THEN status
    ELSE Blame(op, status)

IdentityEnds(status) ==
    /\ InSeam({"identity", "photo"}) /\ ReadStatus(status)
    /\ op.token = "live" => op.sink \in {"none", "malformed"} \/ op.again
    /\ LET code == IdentityCode(status)
           failed == op.token = "live" /\ (op.sink = "malformed" => op.again) /\ status = "AuthFailed"
           counts == failed /\ Unmarked(op)
       IN  /\ op' = Ends([op EXCEPT !.attempts = @ + (IF counts THEN 1 ELSE 0), !.data = (code = "Ok")], code)
           /\ entry' = IF counts THEN markCredentialWrong(entry) ELSE entry
           /\ reads' = IF code = "Ok" THEN [reads EXCEPT !.identity = "current"] ELSE reads
           /\ session' = IF failed THEN clearCachedPaceCredentials ELSE session
    /\ UNCHANGED <<listing, present, started>>

\* LmCertificateReader answers a card it cannot read, for whatever reason, with
\* an empty list.
LmCertificateReader(status) == status = "Ok" => Readable

\* The empty list is Ok too, and is cached.
CertificatesEnd(status) ==
    /\ InSeam({"certificates"}) /\ LmCertificateReader(status)
    /\ IF op.token # "live"
       THEN op' = Ends(op, "Cancelled") /\ UNCHANGED reads
       ELSE IF status = "Unsupported"
       THEN op' = Ends(op, Blame(op, status)) /\ UNCHANGED reads
       ELSE /\ op' = Ends([op EXCEPT !.data = (status = "Ok")], "Ok")
            /\ reads' = [reads EXCEPT !.certs = IF status = "Ok" THEN "current" ELSE "empty"]
    /\ UNCHANGED <<entry, listing, session, present, started>>

TokenInfoBlame(o) ==
    IF o.helperTooOld THEN "Capability"
    ELSE IF o.prompterFailed THEN "Prompter"
    ELSE IF o.userCancelled THEN "Cancelled"
    ELSE IF o.entryExpired THEN "EntryExpired"
    ELSE "Ok"

\* Token info and credential records are what the card gives, or nothing.
readTokenInfo(filled) == filled => Readable
LmCredentialManager(filled) == filled => Readable

TokenInfoEnds(filled) ==
    /\ InSeam({"tokenInfo"}) /\ readTokenInfo(filled)
    /\ op' = Ends([op EXCEPT !.data = filled], IF op.token # "live" THEN "Cancelled" ELSE TokenInfoBlame(op))
    /\ UNCHANGED <<entry, reads, listing, session, present, started>>

\* A record that the wire cannot carry fails the listing ("Communication"
\* stands for ParseError).
ListBlame(o, filled) ==
    IF o.userCancelled THEN "Cancelled"
    ELSE IF o.helperTooOld THEN "Capability"
    ELSE IF ~filled /\ o.prompterFailed THEN "Prompter"
    ELSE IF ~filled /\ o.entryExpired THEN "EntryExpired"
    ELSE "Ok"

ListEnds(filled, readable) ==
    /\ InSeam({"list"}) /\ LmCredentialManager(filled) /\ (~readable => filled)
    /\ LET code == IF op.token # "live" THEN "Cancelled"
                   ELSE IF ListBlame(op, filled) = "Ok" /\ ~readable THEN "Communication"
                   ELSE ListBlame(op, filled)
       IN  /\ op' = Ends([op EXCEPT !.data = filled], code)
           /\ listing' = IF code = "Ok" THEN "current" ELSE listing
    /\ UNCHANGED <<entry, reads, session, present, started>>

-----------------------------------------------------------------------------
(* The signatures.                                                         *)

isHaltingStatus(status) == status \in {"PinWrong", "PinBlocked"}

\* The batch's row for a document that was not signed, and whether it halts.
RowCode(o, status) ==
    IF o.helperTooOld THEN "Capability"
    ELSE IF o.prompterFailed THEN "Prompter"
    ELSE IF o.entryExpired THEN "EntryExpired"
    ELSE status
Halts(o, status) == o.helperTooOld \/ o.prompterFailed \/ o.entryExpired \/ isHaltingStatus(status)

\* Fault: the documents after a halt are left out of the result.
NoRowsLeft(o, row) == <<row>>

\* The rows that follow a halted one inherit its code.
RestOfRows(o, row) == [i \in 1..(o.docs - Len(o.rows)) |-> row]

BatchResult(rows) == IF \E i \in 1..Len(rows) : rows[i] = "Ok" THEN "Ok" ELSE rows[Len(rows)]

\* One document of a batch has its row; after the last one the batch ends.
NextDocument(o, rows) ==
    IF Len(rows) < o.docs THEN [o EXCEPT !.rows = rows, !.step = "walk"]
    ELSE Ends([o EXCEPT !.rows = rows], BatchResult(rows))

Signed(o) == [o EXCEPT !.signed = @ \cup {Len(o.rows) + 1}]

\* The signer has returned, the token is live: the end of a signature, or of a
\* batch's document.
SignEnds(o, status) ==
    /\ op' = IF status = "Ok" THEN Ends(Signed(o), "Ok") ELSE Ends(o, SignBlame(o, status))
    /\ IF isHaltingStatus(status)
       THEN entry' = invalidate(entry) /\ session' = clearCachedPaceCredentials
       ELSE UNCHANGED <<entry, session>>
DocumentEnds(o, status) ==
    /\ op' = IF status = "Ok" THEN NextDocument(Signed(o), Append(o.rows, "Ok"))
             ELSE IF ~Halts(o, status) THEN NextDocument(o, Append(o.rows, RowCode(o, status)))
             ELSE LET rows == o.rows \o RestOfRows(o, RowCode(o, status))
                  IN  Ends([o EXCEPT !.rows = rows], BatchResult(rows))
    /\ IF isHaltingStatus(status) /\ RowCode(o, status) = status
       THEN entry' = invalidate(entry) /\ session' = clearCachedPaceCredentials
       ELSE UNCHANGED <<entry, session>>

\* A cancelled token or signature ends it all, the rows included.
SignReturns(o, status) ==
    IF status = "Cancelled" \/ o.token # "live"
    THEN op' = Ends([o EXCEPT !.rows = <<>>], "Cancelled") /\ UNCHANGED <<entry, session>>
    ELSE IF o.flow = "sign" THEN SignEnds(o, status) ELSE DocumentEnds(o, status)

\* No candidate shows the certificate, or the request or the engine is at
\* fault: nothing was asked of the card's PIN.
SelectionFails(status) ==
    /\ op.step = "walk" /\ op.flow \in Signatures
    /\ SignReturns(op, IF op.token # "live" THEN "Cancelled" ELSE status)
    /\ UNCHANGED <<reads, listing, present, started>>

\* What the card and the engine make of the PIN.
Presented(o, secret) ==
    IF ~present THEN SignReturns(o, "Engine")
    ELSE IF secret = "right" THEN \E status \in {"Ok", "Engine"} : SignReturns(o, status)
    ELSE \E status \in {"PinWrong", "PinBlocked"} : SignReturns([o EXCEPT !.wrongPins = @ + 1], status)

HoldsPin(o) == o.flow = "batch" /\ o.pin # "none"

\* The signing engine asks for the PIN; a batch that has one serves it again.
EngineAsksPin ==
    /\ op.step = "walk" /\ op.flow \in Signatures /\ Readable /\ op.token = "live"
    /\ IF HoldsPin(op)
       THEN Presented(op, op.pin)
       ELSE op' = [op EXCEPT !.step = "pin", !.pinWindows = @ + 1] /\ UNCHANGED <<entry, session>>
    /\ UNCHANGED <<reads, listing, present, started>>

\* What an unanswered PIN window leaves for the end to tell.
PinFlags(how) ==
    [op EXCEPT !.entryExpired = @ \/ how = "timeout", !.prompterFailed = @ \/ how = "error",
               !.helperTooOld = @ \/ how = "tooOld"]

SignPinClosed(how) ==
    /\ op.step = "pin" /\ op.flow = "sign"
    /\ IF how \in {"right", "wrong"} THEN Presented(op, how)
       ELSE SignReturns(PinFlags(how), IF how = "cancelled" THEN "Cancelled" ELSE "Engine")
    /\ UNCHANGED <<reads, listing, present, started>>

\* The same, and the PIN is kept for the documents to come.
BatchPinClosed(how) ==
    /\ op.step = "pin" /\ op.flow = "batch"
    /\ IF how \in {"right", "wrong"} THEN Presented([op EXCEPT !.pin = how], how)
       ELSE SignReturns(PinFlags(how), IF how = "cancelled" THEN "Cancelled" ELSE "Engine")
    /\ UNCHANGED <<reads, listing, present, started>>

-----------------------------------------------------------------------------
(* The mutations.                                                          *)

Outdated(cached) == IF cached = "current" THEN "old" ELSE cached

\* Fault: only a mutation that succeeded drops what was cached.
OnSuccess(cached, code) == IF code = "Ok" THEN "none" ELSE Outdated(cached)

\* Whatever the seam answered, the card was reached: what was cached of it goes.
AfterReach(cached, code) == "none"

eraseDepositedPin(pin) == "none"

\* The holder's answer before the seam: without it the card is not touched.
PinAnswer(how) ==
    CASE how \in {"right", "wrong"}  -> [op EXCEPT !.step = "walk", !.pin = how]
      [] how = "cancelled"           -> Ends(op, "Cancelled")
      [] how = "timeout"             -> Ends(op, "EntryExpired")
      [] how \in {"error", "tooOld"} -> Ends(op, "Prompter")

ChangePinClosed(how) ==
    /\ op.step = "pin" /\ op.flow = "change" /\ op' = PinAnswer(how)
    /\ UNCHANGED <<entry, reads, listing, session, present, started>>
ActivatePinClosed(how) ==
    /\ op.step = "pin" /\ op.flow = "activate" /\ op' = PinAnswer(how)
    /\ UNCHANGED <<entry, reads, listing, session, present, started>>

\* The first candidate that does not answer Unsupported decides.
routePinMutation(code) ==
    /\ code = "Ok" => Readable /\ op.pin = "right"
    /\ code \in {"PinWrong", "PinBlocked"} => Readable /\ op.pin = "wrong"

DropCaches(code) ==
    /\ listing' = AfterReach(listing, code)
    /\ reads' = [half \in DOMAIN reads |-> AfterReach(reads[half], code)]

ChangeEnds(code) ==
    /\ InSeam({"change"}) /\ routePinMutation(code)
    /\ op' = Ends(op, code) /\ DropCaches(code)
    /\ session' = IF code = "Ok" THEN [session EXCEPT !.pin = eraseDepositedPin(@)] ELSE session
    /\ UNCHANGED <<entry, present, started>>
ActivateEnds(code) ==
    /\ InSeam({"activate"}) /\ routePinMutation(code)
    /\ op' = Ends(op, code) /\ DropCaches(code)
    /\ UNCHANGED <<entry, session, present, started>>

-----------------------------------------------------------------------------
(* The operations' doWork, and what happens around them.                   *)

Idle == op.step = "idle"

\* The worker takes an operation from its queue.
Take == Idle /\ op.token # "shutdown" /\ started < MaxOps /\ started' = started + 1

\* No session: the card is gone or the reader fails.
OpenFails(flow, code) ==
    /\ Take
    /\ op' = Ends(Fresh(flow, 1), code)
    /\ UNCHANGED <<entry, reads, listing, session, present>>

\* One operation each.  What is cached is served without the card.
Run(o) == Take /\ present /\ op' = o /\ UNCHANGED <<entry, reads, listing, session, present>>
Served(flow) == Ends([Fresh(flow, 0) EXCEPT !.data = (flow # "certificates" \/ reads.certs # "empty")], "Ok")

ReadIdentity == Run(IF reads.identity # "none" THEN Served("identity") ELSE Fresh("identity", 1))
GetPhoto == Run(IF reads.identity # "none" THEN Served("photo") ELSE Fresh("photo", 1))
ReadCertificates == Run(IF reads.certs # "none" THEN Served("certificates") ELSE Fresh("certificates", 1))
ReadTokenInfo == Run(Fresh("tokenInfo", 1))
ListCredentials == Run(Fresh("list", 1))
Sign == Run(Fresh("sign", 1))
SignBatch(docs) ==
    Run(IF docs \in 1..kMaxBatchDocuments THEN Fresh("batch", docs) ELSE Ends(Fresh("batch", docs), "Invalid"))

\* A mutation names a record that was listed, whose capabilities may refuse it
\* before a window is raised.  A key activation finds its record when it runs.
ManagePin(capable) ==
    /\ listing # "none"
    /\ Run(IF capable THEN [Fresh("change", 1) EXCEPT !.step = "pin"] ELSE Ends(Fresh("change", 1), "Unsupported"))
ActivateSigningKey(capable) ==
    Run(IF listing # "none" /\ capable THEN [Fresh("activate", 1) EXCEPT !.step = "pin"]
        ELSE Ends(Fresh("activate", 1), "Unsupported"))

Return ==
    /\ op.step = "done"
    /\ op' = [Fresh("identity", 0) EXCEPT !.step = "idle", !.generation = 0,
                                          !.token = IF op.token = "shutdown" THEN "shutdown" ELSE "live"]
    /\ session' = [session EXCEPT !.failed = IF @ = "refused" THEN @ ELSE "no"]
    /\ UNCHANGED <<entry, reads, listing, present, started>>

\* The client cancels the operation, or the core shuts down.
Cancel(token) ==
    /\ op.step \in {"walk", "window", "pin"} /\ op.token = "live"
    /\ op' = [op EXCEPT !.token = token]
    /\ UNCHANGED <<entry, reads, listing, session, present, started>>

\* The removal hook drops all the card's entries.
RemoveCard ==
    /\ present /\ present' = FALSE
    /\ entry' = invalidate(entry) /\ reads' = NoReads /\ listing' = "none"
    /\ session' = [session EXCEPT !.channel = FALSE, !.pin = "none"]
    /\ UNCHANGED <<op, started>>

\* Between operations the holder closes an idle session; a raw signature leaves
\* its PIN with the plugin.
SweepSession ==
    /\ Idle /\ session' = [session EXCEPT !.channel = FALSE, !.failed = "no", !.pin = "none"]
    /\ UNCHANGED <<entry, reads, listing, present, op, started>>
DepositPin ==
    /\ Idle /\ present /\ session.pin = "none" /\ session' = [session EXCEPT !.pin = "current"]
    /\ UNCHANGED <<entry, reads, listing, present, op, started>>

PinEvents == {"right", "wrong", "cancelled", "timeout", "error", "tooOld"}

ReadStep ==
    \/ IdentityRenegotiates
    \/ \E status \in {"Ok", "AuthFailed", "Communication", "Unsupported", "Cancelled"} : IdentityEnds(status)
    \/ \E status \in {"Ok", "Empty", "Unsupported"} : CertificatesEnd(status)
    \/ \E filled \in BOOLEAN : TokenInfoEnds(filled)
    \/ \E filled, readable \in BOOLEAN : ListEnds(filled, readable)

CardStep ==
    \/ \E status \in {"KeyNotFound", "Engine"} : SelectionFails(status)
    \/ EngineAsksPin
    \/ \E how \in PinEvents :
           SignPinClosed(how) \/ BatchPinClosed(how) \/ ChangePinClosed(how) \/ ActivatePinClosed(how)
    \/ \E code \in {"Ok", "PinWrong", "PinBlocked", "Unsupported", "Communication"} :
           ChangeEnds(code) \/ ActivateEnds(code)

Operation ==
    \/ ReadIdentity \/ GetPhoto \/ ReadCertificates \/ ReadTokenInfo \/ ListCredentials \/ Sign
    \/ \E docs \in 0..kMaxBatchDocuments + 1 : SignBatch(docs)
    \/ \E capable \in BOOLEAN : ManagePin(capable) \/ ActivateSigningKey(capable)

Next ==
    \/ \E flow \in Flows, code \in {"CardRemoved", "Communication"} : OpenFails(flow, code)
    \/ Operation
    \/ \E kind \in Kinds \cup {"pin"}, reason \in BOOLEAN : Ask(kind, reason)
    \/ WindowClosed
    \/ ReadStep
    \/ CardStep
    \/ Return
    \/ \E token \in {"cancelled", "shutdown"} : Cancel(token)
    \/ RemoveCard \/ SweepSession \/ DepositPin

Spec == Init /\ [][Next]_vars

-----------------------------------------------------------------------------
(* Properties.                                                             *)

\* An operation never counts more rejected secrets than the card rejected, but
\* for one more at the end of a read whose helper broke: an empty window and a
\* verdict already counted do not count (isCardRejectionSignal of FlowPrelude
\* and the double-mark guard of the read flows).
AttemptsAreRejections == op.attempts <= op.rejected + (IF op.broken > 0 THEN 1 ELSE 0)

\* An operation raises no more windows for a kind of secret than
\* kMaxPaceAttempts, the ones that broke and a refused one: the loop the
\* middleware drives ends, in whatever order it tries candidates and kinds
\* (cacheOrPrompt).
WindowsAreBounded ==
    \A k \in Kinds : op.windows[k] <= kMaxPaceAttempts + op.broken + (IF op.emptied THEN 1 ELSE 0)

\* The tries of a card are counted as the card counts them, and windows end.
SecretsAreCounted == AttemptsAreRejections /\ WindowsAreBounded

\* A read without renegotiation that tells its client that authentication
\* failed leaves no rejected secret behind (AuthFailed branch of the flows).
RejectedSecretIsDropped ==
    op.step = "done" /\ op.result = "AuthFailed" /\ ~op.parked => "wrong" \notin {entry.can, entry.mrz}

\* The outcome names what happened: an expiry or a dismissal of this operation,
\* a secret or PIN the card refused, a helper that failed.
OutcomeIsHonest ==
    op.step = "done" =>
        /\ op.result = "AuthFailed" => op.rejected + op.broken > 0
        /\ op.result \in {"PinWrong", "PinBlocked"} => op.wrongPins > 0 \/ op.flow \in Mutations
        /\ op.result = "Cancelled" => op.token # "live" \/ op.emptied \/ op.parked \/ op.flow \in Signatures \cup Mutations

\* A read whose window was refused does not succeed empty-handed (TokenInfo and
\* CredentialList degrade to empty data when the channel fails).
RefusalIsNoEmptyRead ==
    op.step = "done" /\ op.flow \in {"identity", "photo", "tokenInfo", "list"} /\ op.emptied /\ op.result = "Ok" => op.data

\* What the client is told of an operation is what happened to it.
ResultIsHonest == OutcomeIsHonest /\ RefusalIsNoEmptyRead

\* A batch that ends with rows has one per document, and reports signed exactly
\* the documents the card signed (BatchSignFlow::run).
RowsMatchDocuments ==
    op.step = "done" /\ op.flow = "batch" /\ op.result \notin {"none", "Cancelled", "Invalid", "CardRemoved", "Communication"} =>
        /\ Len(op.rows) = op.docs
        /\ \A i \in 1..op.docs : op.rows[i] = "Ok" <=> i \in op.signed

\* One PIN window serves a whole batch, and a PIN the card refused is not
\* presented again (BatchPinHolder, isHaltingStatus).
OnePinPerSignature == op.pinWindows <= 1 /\ op.wrongPins <= 1

\* A batch that stops in the middle tells what was signed, after one PIN.
BatchIsAccounted == RowsMatchDocuments /\ OnePinPerSignature

\* No listing and no read made before a mutation reached the card is served
\* after it, and no PIN the card has replaced stays deposited
\* (PinChangeFlow, KeyActivationFlow).
NothingOldIsCached ==
    "old" \notin {listing, reads.identity, reads.certs, session.pin}

\* The caches, and the operation that uses them, are well formed (only a secret
\* that parsed is cached), and they serve nothing that is known to be wrong or
\* replaced.
CachesAreSound == TypeOK /\ RejectedSecretIsDropped /\ NothingOldIsCached
=============================================================================
