---------------------------- MODULE ConfigStore -----------------------------
(***************************************************************************)
(* The configuration (ConfigStore.cpp) and the signing engine built from   *)
(* it (SigningEngineProvider.cpp).  Threads change keys: the value and the *)
(* file under one mutex, then the observers under another, among them the  *)
(* rebuild of the engine, which reads the keys again.  Between two starts  *)
(* an administrator may edit the file.                                     *)
(*                                                                         *)
(* The file gives for each key its lines in order.  A text with blanks     *)
(* around it is Padded, and a text has no line break.                      *)
(***************************************************************************)
EXTENDS Naturals, Sequences, Functions, Loops

CONSTANTS
    Threads,     \* the threads that change keys
    Changes,     \* <<key, value>>: the changes asked for
    AdminFiles,  \* the files an administrator may leave
    MaxChanges,  \* bound: changes
    MaxStarts    \* bound: starts

VARIABLES
    mem,      \* the values in memory
    file,     \* the configuration file, or NoFile
    written,  \* how the file came to be what it is
    thread,   \* per thread: the step of its change, and what a rebuild has read
    engine,   \* the engine published, or NoEngine, with m_boundTsaUrl
    up,       \* the agent runs
    alive,    \* the provider exists
    changes,  \* changes made
    starts    \* starts

configVars == <<mem, file, written, thread, engine, up, alive, changes, starts>>

ListKeys == {"TsaUrls", "TslSources"}
TextKeys == {"DefaultReason", "DefaultLocation", "LastTsaUrl"}
\* kKeySpecs, in the order persist writes them.
ConfigKeys == <<"DefaultLevel", "TsaUrls", "LastTsaUrl", "TslSources", "TslCacheDir", "CscaCacheDir",
          "CscaAnchorState", "DefaultReason", "DefaultLocation", "Pkcs11IdleTimeoutSecs",
          "Pkcs11MaxLifetimeSecs">>
FileOnly == {"TslCacheDir", "CscaCacheDir", "Pkcs11IdleTimeoutSecs", "Pkcs11MaxLifetimeSecs"}
ReadOnly == {"LastTsaUrl", "CscaAnchorState"}

NoReport == [anchors |-> 0, signer |-> "", signedAt |-> 0]
NoEngine == [tsl |-> <<"no engine">>, tsa |-> ""]
Bad == "bad"
Padded == " text "
trim(v) == IF v = Padded THEN "text" ELSE v

applyDefaults ==
    [k \in Range(ConfigKeys) |->
        CASE k \in ListKeys -> <<>>
          [] k = "CscaAnchorState" -> NoReport
          [] k \in TextKeys -> ""
          [] OTHER -> "built-in"]
seeded(k) == IF k = "TsaUrls" THEN <<"seed TSA">> ELSE <<"seed list">>
NoFile == [k \in Range(ConfigKeys) |-> <<"no", "such", "file">>]

\* Fault: lists that are empty are seeded again.
SeedsEmptyLists(f) == f = NoFile \/ f["TsaUrls"] = <<>>
seedFirstRunDefaults(f) == f = NoFile

\* A report is written as its subfields; one without a date has no such
\* subfield, and one without any subfield known is no report.
ReportFields(r) ==
    {<<"anchors", r.anchors>>}
        \cup (IF r.signer = "" THEN {} ELSE {<<"signer", 1>>})
        \cup (IF r.signedAt = 0 THEN {} ELSE {<<"signedAt", r.signedAt>>})
ReportOf(line) ==
    LET field(name) == {f[2] : f \in {g \in line : g[1] = name}}
        number(name) == IF field(name) = {} THEN 0 ELSE CHOOSE n \in field(name) : TRUE
    IN  [anchors |-> number("anchors"), signedAt |-> number("signedAt"),
         signer |-> IF field("signer") = {} THEN "" ELSE "fingerprint"]

\* isHttpUrl, isKnownLevel, parseU32, a directory that is not empty: Bad is
\* the text that the key refuses.
isValid(v) == v # Bad

\* ConfigStore::persist: what differs from the default, a list whole.
Lines(k, v) ==
    IF k \in ListKeys THEN v
    ELSE IF v = applyDefaults[k] THEN <<>>
    ELSE IF k = "CscaAnchorState" THEN <<ReportFields(v)>>
    ELSE <<v>>
Written(m) == [k \in Range(ConfigKeys) |-> Lines(k, m[k])]
CutAfter(f, n) == [k \in Range(ConfigKeys) |-> IF k \in Range(SubSeq(ConfigKeys, 1, n)) THEN f[k] ELSE <<>>]

\* The stream is not looked at after the writing: a full disk leaves a file
\* that ends early, and it is renamed over the old one.
persist(m) ==
    \/ file' = Written(m) /\ written' = "whole"
    \/ file' = file /\ written' = "failed"
    \/ \E n \in {0, 3} : file' = CutAfter(Written(m), n) /\ written' = "cut"

\* The valid ones of the lines that the loop over the file reads, in order.
ReadLine(p) ==
    IF p.rest = <<>> THEN p
    ELSE [rest |-> Tail(p.rest), kept |-> IF isValid(Head(p.rest)) THEN Append(p.kept, Head(p.rest)) ELSE p.kept]
Gathered(lines) ==
    Loop([rest |-> lines, kept |-> <<>>],
         [p \in [rest : Seq(Range(lines)), kept : Seq(Range(lines))] |-> ReadLine(p)])[Len(lines)].kept
LastOf(lines) == lines[Len(lines)]

\* ConfigStore::loadFromFile: lists gather their valid lines, the last valid
\* line of another key counts, and a report that is garbled is none.
loadFromFile(f) ==
    [k \in Range(ConfigKeys) |->
        IF k \in ListKeys THEN Gathered(f[k])
        ELSE IF f[k] = <<>> THEN applyDefaults[k]
        ELSE IF k = "CscaAnchorState" THEN ReportOf(LastOf(f[k]))
        ELSE IF k \in TextKeys THEN trim(LastOf(f[k]))
        ELSE IF Gathered(f[k]) = <<>> THEN applyDefaults[k]
        ELSE LastOf(Gathered(f[k]))]

\* What a key has after being written and read again.
Stored(m) == [k \in Range(ConfigKeys) |-> IF k \in TextKeys THEN trim(m[k]) ELSE m[k]]

FirstOf(urls) == IF urls = <<>> THEN "" ELSE urls[1]
BuiltFrom(m) == [tsl |-> m["TslSources"], tsa |-> FirstOf(m["TsaUrls"])]
AtRest == [pc |-> "idle", tsl |-> <<>>, tsa |-> ""]

\* A change of a list gives a list, and a file has lines for the keys there
\* are.
IsList(v) == v \in Seq(Range(v))

ASSUME ConfigAssumption ==
    /\ \A c \in Changes : c[1] \in Range(ConfigKeys) /\ (c[1] \in ListKeys => IsList(c[2]))
    /\ \A f \in AdminFiles : DOMAIN f = Range(ConfigKeys) /\ \A k \in DOMAIN f : IsList(f[k])

-----------------------------------------------------------------------------
ConfigInit ==
    /\ mem = applyDefaults /\ file = NoFile /\ written = "never"
    /\ thread = [t \in Threads |-> AtRest]
    /\ engine = [built |-> NoEngine, bound |-> ""]
    /\ up = FALSE /\ alive = FALSE /\ changes = 0 /\ starts = 0

\* The constructors of the store and of the provider.
ConfigStart ==
    /\ ~up /\ starts < MaxStarts
    /\ up' = TRUE /\ alive' = TRUE /\ starts' = starts + 1
    /\ \/ /\ seedFirstRunDefaults(file)
          /\ LET m == [k \in Range(ConfigKeys) |-> IF k \in ListKeys THEN seeded(k) ELSE applyDefaults[k]]
             IN  persist(m) /\ mem' = IF file' = NoFile THEN m ELSE loadFromFile(file')
       \/ /\ ~seedFirstRunDefaults(file)
          /\ \/ mem' = loadFromFile(file) /\ UNCHANGED written
             \/ mem' = applyDefaults /\ written' = "not opened"
          /\ UNCHANGED file
    /\ engine' \in {[built |-> BuiltFrom(mem'), bound |-> FirstOf(mem'["TsaUrls"])],
                    [built |-> NoEngine, bound |-> ""]}
    /\ UNCHANGED <<thread, changes>>

\* A setter, a reset or a record: the part under m_mutex.
Set(t, k, v) ==
    /\ up /\ thread[t].pc = "idle" /\ changes < MaxChanges
    /\ mem' = [mem EXCEPT ![k] = v] /\ persist(mem')
    /\ thread' = [thread EXCEPT ![t].pc = IF k \in ListKeys THEN "fire" ELSE "tell"]
    /\ changes' = changes + 1
    /\ UNCHANGED <<engine, up, alive, starts>>

\* setDefaultLevel, setTsaUrls, setTslSources, setDefaultReason, setDefaultLocation.
setKey(t, k, v) ==
    /\ k \notin FileOnly \cup ReadOnly
    /\ k \in ListKeys => \A i \in DOMAIN v : isValid(v[i])
    /\ k = "DefaultLevel" => isValid(v)
    /\ Set(t, k, v)

resetKey(t, k, fromDbus) ==
    /\ fromDbus => k \notin FileOnly \cup ReadOnly
    /\ Set(t, k, IF k \in ListKeys THEN seeded(k) ELSE applyDefaults[k])

\* The authority bound to the engine that signed, which may be an older one.
recordLastTsaUrl(t, url) == url # mem["LastTsaUrl"] /\ Set(t, "LastTsaUrl", url)

recordCscaAnchorState(t, r) == r # mem["CscaAnchorState"] /\ Set(t, "CscaAnchorState", r)

\* fireChanged: the observers run one after another under m_observerMutex.
\* Fault: on a copy of them, without it.
AnyTime == TRUE
ObserverMutexFree == \A t \in Threads : thread[t].pc \notin {"tsl", "tsa", "publish"}

fireChanged(t) ==
    /\ up /\ ObserverMutexFree
    /\ \/ thread[t].pc = "fire" /\ thread' = [thread EXCEPT ![t].pc = IF alive THEN "tsl" ELSE "idle"]
       \/ thread[t].pc = "tell" /\ thread' = [thread EXCEPT ![t].pc = "idle"]
    /\ UNCHANGED <<mem, file, written, engine, up, alive, changes, starts>>

\* SigningEngineProvider::rebuild: the trust store from the lists there are,
\* then the timestamp authority, then both published.
rebuildTrust(t) ==
    /\ up /\ thread[t].pc = "tsl"
    /\ \/ /\ thread' = [thread EXCEPT ![t].pc = "tsa", ![t].tsl = mem["TslSources"]]
          /\ UNCHANGED engine
       \/ /\ thread' = [thread EXCEPT ![t] = AtRest]
          /\ engine' = [engine EXCEPT !.built = NoEngine]
    /\ UNCHANGED <<mem, file, written, up, alive, changes, starts>>

rebuildTsa(t) ==
    /\ up /\ thread[t].pc = "tsa"
    /\ thread' = [thread EXCEPT ![t].pc = "publish", ![t].tsa = FirstOf(mem["TsaUrls"])]
    /\ UNCHANGED <<mem, file, written, engine, up, alive, changes, starts>>

publish(t) ==
    /\ up /\ thread[t].pc = "publish"
    /\ engine' = [built |-> [tsl |-> thread[t].tsl, tsa |-> thread[t].tsa], bound |-> thread[t].tsa]
    /\ thread' = [thread EXCEPT ![t] = AtRest]
    /\ UNCHANGED <<mem, file, written, up, alive, changes, starts>>

\* ~SigningEngineProvider: removeChangeObserver waits for the observers.
Drained == alive /\ ObserverMutexFree

removeChangeObserver ==
    /\ up /\ Drained
    /\ alive' = FALSE
    /\ UNCHANGED <<mem, file, written, thread, engine, up, changes, starts>>

\* The process ends, in order or not.
ConfigStop ==
    /\ up
    /\ up' = FALSE /\ alive' = FALSE /\ thread' = [t \in Threads |-> AtRest]
    /\ UNCHANGED <<mem, file, written, engine, changes, starts>>

AdminEdits ==
    /\ ~up /\ starts < MaxStarts
    /\ file' \in AdminFiles /\ written' = "edited"
    /\ UNCHANGED <<mem, thread, engine, up, alive, changes, starts>>

ConfigNext ==
    \/ ConfigStart \/ ConfigStop \/ AdminEdits \/ removeChangeObserver
    \/ \E t \in Threads :
          \/ \E c \in Changes : setKey(t, c[1], c[2])
          \/ \E k \in Range(ConfigKeys) : resetKey(t, k, TRUE) \/ resetKey(t, k, FALSE)
          \/ \E d \in 0 .. 1 : recordCscaAnchorState(t, [anchors |-> 1, signer |-> "fingerprint", signedAt |-> d])
          \/ \E url \in {FirstOf(c[2]) : c \in {c \in Changes : c[1] = "TsaUrls"}} \ {"", Bad} : recordLastTsaUrl(t, url)
          \/ fireChanged(t)
          \/ rebuildTrust(t) \/ rebuildTsa(t) \/ publish(t)

ConfigSpec == ConfigInit /\ [][ConfigNext]_configVars

-----------------------------------------------------------------------------
\* Whatever order two threads change the keys and rebuild in, when both are
\* done the engine is the one of the configuration there is, and the
\* authority recorded as bound to it is the one it asks.
EngineFollowsTheKeys ==
    up /\ alive /\ engine.built # NoEngine /\ (\A t \in Threads : thread[t].pc \in {"idle", "tell"}) =>
        engine.built = BuiltFrom(mem) /\ engine.bound = engine.built.tsa

\* The provider is not rebuilt into once its destructor has unregistered it.
NoRebuildAfterTheEnd == ~alive => ObserverMutexFree

\* The engine is the configuration's for as long as its provider lives.
EngineIsCurrent == EngineFollowsTheKeys /\ NoRebuildAfterTheEnd

\* A start finds what the last change that was written stored: a list that
\* was emptied is not seeded again, and what stands at its default is.
StartKeepsTheKeys ==
    [][~up /\ up' /\ written = "whole" /\ written' = "whole" => mem' = Stored(mem)]_configVars
=============================================================================
