---------------------------- MODULE AnchorCache -----------------------------
(***************************************************************************)
(* The import of country signing anchors (CscaAnchorImport.cpp): which of  *)
(* the master lists of a file are believed, and the replacement of the     *)
(* anchors and of the state file on disk, whose steps can fail and which   *)
(* the end of the process can cut short.                                   *)
(*                                                                         *)
(* A list has its signers in their encoded order, a date (0 for none), its *)
(* anchors, and the reason the middleware refuses it for, if it does.  The *)
(* certificate of a signer chains to the anchor Issuer names.              *)
(***************************************************************************)
EXTENDS Naturals, Sequences, FiniteSets, Functions

CONSTANTS
    Lists,      \* the master lists there are
    Issuer,     \* the anchor a signer's certificate chains to
    MaxLists,   \* bound: lists in a file
    MaxImports  \* bound: imports

\* A date is a number, of which there are finitely many (std::time_t).
ASSUME ListsAssumption ==
    /\ \A l \in Lists : l.date \in Nat
    /\ IsFiniteSet({l.date : l \in Lists})

VARIABLES
    anchors,    \* the directory "anchors", or NoDir
    stateFile,  \* the file "state", or NoState
    report,     \* whether the configuration holds a report of an import
    underway,   \* the import under way
    imports     \* imports begun

anchorVars == <<anchors, stateFile, report, underway, imports>>

NoDir == {"no directory"}
Files == UNION {[1 .. n -> Lists] : n \in 1 .. MaxLists}

\* A state file.  One that names its publisher the old way has that one.
NoState == [publishers |-> {}, refused |-> 0, offered |-> 0, unreadable |-> FALSE]
Legacy(p) == [NoState EXCEPT !.publishers = {p}, !.offered = 1]

\* AnchorCache::state.
state(f) ==
    IF f.publishers = {} \/ f.unreadable \/ f.offered < Cardinality(f.publishers) + f.refused
    THEN [present |-> FALSE, signers |-> {}]
    ELSE [present |-> TRUE, signers |-> f.publishers]

recordFor(prior, s) == {r \in prior.signers : r.signer = s}

\* AnchorCache::holdsAnchor, AnchorCache::anchors.
holdsAnchor == anchors \notin {NoDir, {}}
anchorsHeld == IF anchors = NoDir THEN {} ELSE anchors

NoImport == [pc |-> "idle", file |-> <<>>, prior |-> state(NoState), vouching |-> {}]

-----------------------------------------------------------------------------
\* importMasterList, one list: an unrecorded first signer gives way to a
\* recorded one, and else has to chain to an anchor held before the import.
replayRefusal(prior, s, date) == \E r \in recordFor(prior, s) : r.date # 0 /\ date <= r.date

HeldBefore(job_) == job_.vouching

judge(j, l) ==
    LET first == l.by[1]
        recorded == {s \in Range(l.by) : recordFor(j.prior, s) # {}}
        signer == IF ~j.prior.present \/ first \in recorded \/ recorded = {} THEN first
                  ELSE CHOOSE s \in recorded : TRUE
    IN  IF l.reason # "" THEN [signer |-> "", reason |-> l.reason]
        ELSE IF j.prior.present /\ recorded = {} /\ Issuer[first] \notin HeldBefore(j)
        THEN [signer |-> first, reason |-> "SignerChanged"]
        ELSE [signer |-> signer,
              reason |-> IF replayRefusal(j.prior, signer, l.date) THEN "Replayed" ELSE ""]

admitted(j) ==
    {[signer |-> judge(j, l).signer, date |-> l.date, anchors |-> l.anchors] :
        l \in {l \in Range(j.file) : judge(j, l).reason = ""}}

Newest(dates) == CHOOSE d \in dates : \A e \in dates : e <= d

\* The newest date among the recorded publishers that are not in the file.
displacedAt(j) ==
    LET gone == {r \in j.prior.signers : \A a \in admitted(j) : a.signer # r.signer}
    IN  Newest({0} \cup {r.date : r \in gone})

\* Fault: a signer without a record has no bar to pass.
NoBar(j, a) == TRUE
PassesBar(j, a) ==
    recordFor(j.prior, a.signer) # {} \/ displacedAt(j) = 0 \/ a.date > displacedAt(j)

taken(j) == {a \in admitted(j) : PassesBar(j, a)}

\* What is stored: the union of the anchors, and a record for each publisher.
Publishers(j) ==
    {[signer |-> s, established |-> j.prior.present, date |-> Newest({a.date : a \in {b \in taken(j) : b.signer = s}})] :
        s \in {a.signer : a \in taken(j)}}
Union(j) == UNION {a.anchors : a \in taken(j)}
NextState(j) ==
    [publishers |-> Publishers(j), offered |-> Len(j.file), unreadable |-> FALSE,
     refused |-> Cardinality({i \in DOMAIN j.file :
                     \/ judge(j, j.file[i]).reason # ""
                     \/ ~PassesBar(j, [signer |-> judge(j, j.file[i]).signer, date |-> j.file[i].date])})]

-----------------------------------------------------------------------------
AnchorInit ==
    /\ \/ anchors = NoDir /\ stateFile = NoState
       \/ \E l \in {l \in Lists : l.reason = ""} :
             /\ anchors = l.anchors
             /\ stateFile = Legacy([signer |-> l.by[1], established |-> FALSE, date |-> l.date])
    /\ underway = NoImport /\ imports = 0
    /\ report = (stateFile # NoState)

\* importMasterList up to the store; a file of which nothing is taken
\* changes nothing.
importMasterList(file) ==
    LET prior == state(stateFile)
        j == [pc |-> "stage", file |-> file, prior |-> prior,
              vouching |-> IF prior.present THEN anchorsHeld ELSE {}]
    IN  /\ underway.pc = "idle" /\ imports < MaxImports
        /\ imports' = imports + 1
        /\ underway' = IF Publishers(j) = {} THEN NoImport ELSE j
        /\ UNCHANGED <<anchors, stateFile, report>>

\* AnchorCache::replace: the anchors are written beside the live ones, where
\* what an earlier import left is removed first; the live ones are removed;
\* the new ones take their place; the state file is rewritten in place.
Stage ==
    /\ underway.pc = "stage" /\ underway' = [underway EXCEPT !.pc = "clear"]
    /\ UNCHANGED <<anchors, stateFile, report, imports>>

Clear ==
    /\ underway.pc = "clear" /\ underway' = [underway EXCEPT !.pc = "rename"]
    /\ anchors' = NoDir
    /\ UNCHANGED <<stateFile, report, imports>>

Swap ==
    /\ underway.pc = "rename" /\ underway' = [underway EXCEPT !.pc = "state"]
    /\ anchors' = Union(underway)
    /\ UNCHANGED <<stateFile, report, imports>>

\* The host records what was imported.
WriteState ==
    /\ underway.pc = "state" /\ underway' = NoImport
    /\ stateFile' = NextState(underway) /\ report' = TRUE
    /\ UNCHANGED <<anchors, imports>>

\* What a write of the state file that was cut short leaves: some of the
\* publishers, the last of them perhaps without its date, or nothing legible.
Undated(publishers, p) == {IF r = p THEN [r EXCEPT !.date = 0] ELSE r : r \in publishers}
CutTo(publishers) ==
    (SUBSET publishers) \cup {Undated(q, p) : q \in SUBSET publishers, p \in publishers}
Torn(f) ==
    {[f EXCEPT !.publishers = ps, !.refused = 0] : ps \in CutTo(f.publishers)}
        \cup {[f EXCEPT !.unreadable = TRUE]}

\* The step of replace at hand does not come to its end.
CutShort ==
    \/ underway.pc \in {"stage", "rename"} /\ UNCHANGED <<anchors, stateFile>>
    \/ /\ underway.pc = "clear"
       /\ anchors' \in IF anchors = NoDir THEN {NoDir} ELSE SUBSET anchors
       /\ UNCHANGED stateFile
    \/ /\ underway.pc = "state" /\ stateFile' \in Torn(NextState(underway)) \cup {stateFile}
       /\ UNCHANGED anchors

\* It fails, and the import ends as CacheNotWritable.
Fails == CutShort /\ underway' = NoImport /\ UNCHANGED <<report, imports>>

\* The process ends.
Crash ==
    /\ CutShort \/ (underway.pc = "idle" /\ UNCHANGED <<anchors, stateFile>>)
    /\ underway' = [NoImport EXCEPT !.pc = "down"]
    /\ UNCHANGED <<report, imports>>

BorneOut == holdsAnchor /\ state(stateFile).present

\* The next start, with discardStaleAnchorReport.
Start ==
    /\ underway.pc = "down"
    /\ underway' = [NoImport EXCEPT !.pc = "started"]
    /\ report' = (report /\ BorneOut)
    /\ UNCHANGED <<anchors, stateFile, imports>>

Serve == underway.pc = "started" /\ underway' = NoImport /\ UNCHANGED <<anchors, stateFile, report, imports>>

AnchorNext ==
    \/ \E file \in Files : importMasterList(file)
    \/ Stage \/ Clear \/ Swap \/ WriteState
    \/ Fails \/ Crash \/ Start \/ Serve

AnchorSpec == AnchorInit /\ [][AnchorNext]_anchorVars

-----------------------------------------------------------------------------
Importing == underway.file # <<>>

\* What an import believes does not depend on the order of the lists in its
\* file: no list can vouch for a signer of another list beside it.
OrderDoesNotMatter ==
    Importing =>
        LET turned == [underway EXCEPT !.file = [i \in 1 .. Len(@) |-> @[Len(@) + 1 - i]]]
        IN  Publishers(turned) = Publishers(underway) /\ Union(turned) = Union(underway)

\* No list that is taken is as old as the one recorded for its publisher, a
\* publisher without a record is vouched for by an anchor held before and is
\* newer than every publisher it displaces, over two passes that each see
\* only a part of this.
AcceptanceIsJustified ==
    Importing /\ underway.prior.present =>
        \A p \in Publishers(underway), r \in underway.prior.signers :
            /\ r.signer = p.signer => r.date = 0 \/ p.date > r.date
            /\ recordFor(underway.prior, p.signer) = {} =>
                  /\ Issuer[p.signer] \in underway.vouching
                  /\ \/ r.date = 0 \/ p.date > r.date
                     \/ \E q \in Publishers(underway) : q.signer = r.signer

\* After a start, a report of an import speaks of anchors and publishers
\* that are there, whatever the end of the process cut short.
ReportIsBorneOut == underway.pc = "started" /\ report => holdsAnchor /\ state(stateFile).present

\* What an import takes is vouched for by what was there before it, whatever
\* the order of its lists, and what is reported of it survives a crash.
ImportIsSound == OrderDoesNotMatter /\ AcceptanceIsJustified /\ ReportIsBorneOut
=============================================================================
