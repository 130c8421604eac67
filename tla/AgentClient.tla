----------------------------- MODULE AgentClient -----------------------------
(***************************************************************************)
(* The Qt client library over the socket transport: the registry of reader *)
(* and card objects, the operations parented to the cards (certificate     *)
(* fetches to the client), and the event loop they all live on.            *)
(*                                                                         *)
(* One thread runs everything: a call of the consumer is one step, and so  *)
(* is one event of the loop.  The drain of displaced frames takes a step   *)
(* per frame; a consumer's slot that calls back into the library runs      *)
(* after the step that emitted its signal.  `ops` records each operation   *)
(* object: its parent card (none: the client), the agent's id, the phase   *)
(* that decides whether the stall timer runs, the typed result, the        *)
(* terminal state (`done`), how often finished() reached the consumer      *)
(* (`heard`) and whether the object exists.                                *)
(***************************************************************************)
EXTENDS SocketTransport

CONSTANTS
    NoOne,      \* no parent card
    Kinds       \* operation kinds: "read", "sign", "credentials"

VARIABLES
    available,  \* AgentClient::Private
    registry,   \* the ids of its reader and card objects
    ops,        \* the AgentOperation objects
    synced      \* history: the connection whose snapshot the registry took with no older frame queued

vars == <<agent, link, available, registry, ops, synced>>

Outcomes == {"no", "Ok", "Error"}
Operation == [kind : Kinds \cup {"der"}, parent : Cards \cup {NoOne}, op : {0} \cup OpIds, state : {"unborn", "alive", "swept", "deleted"},
              atPrompt : BOOLEAN, result : BOOLEAN, done : Outcomes, heard : 0..2]

Unborn == [kind |-> "der", parent |-> NoOne, op |-> 0, state |-> "unborn",
           atPrompt |-> FALSE, result |-> FALSE, done |-> "no", heard |-> 0]

TypeOK ==
    /\ agent \in Agent /\ link \in Link /\ available \in BOOLEAN /\ registry \subseteq Ids
    /\ ops \in [Objs -> Operation] /\ synced \in 0..MaxGen
    /\ link.draining => link.deferred # <<>>

Alive == {o \in Objs : ops[o].state = "alive"}

\* The client's side as the operators below hand it on.
Side(l, a, r, p, s) == [link |-> l, available |-> a, registry |-> r, ops |-> p, synced |-> s]
Now == Side(link, available, registry, ops, synced)
Become(c) == link' = c.link /\ available' = c.available /\ registry' = c.registry /\ ops' = c.ops /\ synced' = c.synced

----------------------------------------------------------------------------
(* AgentOperation *)

\* The terminal state latches: the first outcome is the one announced.
Settled(op, outcome) == IF op.done # "no" THEN op ELSE [op EXCEPT !.done = outcome, !.heard = @ + 1]

emitFinishedOnce(c, o, outcome) == [c EXCEPT !.ops[o] = Settled(@, outcome)]

\* Fault: the signal is emitted while the operation is still being minted.
TooEarly(c, o, outcome) == [c EXCEPT !.ops[o].done = outcome]

\* The consumer has yet to connect: the signal is posted.
failEntry(c, o, outcome) ==
    [c EXCEPT !.ops[o].done = outcome, !.link = Post(c.link, [k |-> "finished", o |-> o])]

Mint(c, o, kind, parent, op) == [c EXCEPT !.ops[o] = [Unborn EXCEPT !.kind = kind, !.parent = parent, !.op = op, !.state = "alive"]]

\* ~AgentOperation: posted events to the object go with it, its watch and
\* its certificate request are withdrawn.
Destroyed(c, gone, state) ==
    [c EXCEPT !.ops = [o \in Objs |-> IF o \in gone THEN [Unborn EXCEPT !.state = state, !.done = c.ops[o].done, !.heard = c.ops[o].heard] ELSE c.ops[o]],
              !.link.posted = SelectSeq(@, LAMBDA e : ~(e.k = "finished" /\ e.o \in gone)),
              !.link.listeners = @ \ gone]

\* Pull-based recovery exists for signatures only on this wire.
fetchOperationResult(c, o) ==
    IF c.ops[o].kind # "sign" THEN {Answer(c.link, FALSE, FALSE)} ELSE callSync(c.link)

\* A recovered result counts unless it is empty.
recoverResult(c, o) == {[c EXCEPT !.link = r.link, !.ops[o].result = r.ok] : r \in fetchOperationResult(c, o)}

\* The terminal frame: with no result seen, an Ok one (for credentials any
\* one) pulls it, or turns into a communication error.
finalizeTerminal(c, o, ok) ==
    IF c.ops[o].result \/ (~ok /\ c.ops[o].kind # "credentials") THEN {emitFinishedOnce(c, o, IF ok THEN "Ok" ELSE "Error")}
    ELSE {emitFinishedOnce(d, o, IF d.ops[o].result /\ ok THEN "Ok" ELSE "Error") : d \in recoverResult(c, o)}

onCertificateDer(c, o, outcome) ==
    IF o \notin c.link.listeners THEN c
    ELSE emitFinishedOnce([c EXCEPT !.link.listeners = @ \ {o}, !.ops[o].result = outcome = "Ok"], o, outcome)

----------------------------------------------------------------------------
(* AgentClient *)

onServiceUnregistered(c) ==
    IF ~c.available THEN c
    ELSE LET live == {o \in Objs : c.ops[o].state = "alive"}
             told == [c EXCEPT !.ops = [o \in Objs |-> IF o \in live THEN Settled(c.ops[o], "Error") ELSE c.ops[o]]]
         IN  [Destroyed(told, {o \in live : c.ops[o].parent # NoOne}, "swept") EXCEPT !.available = FALSE, !.registry = {}, !.synced = 0]

\* removeCard and removeReader, for a set of ids.
removeObjects(c, gone) ==
    LET hit == {o \in Objs : c.ops[o].state = "alive" /\ c.ops[o].parent \in gone}
        told == [c EXCEPT !.ops = [o \in Objs |-> IF o \in hit THEN Settled(c.ops[o], "Error") ELSE c.ops[o]]]
    IN  [Destroyed(told, hit, "swept") EXCEPT !.registry = @ \ gone]

\* addReader and addCard.
addObject(c, id) == [c EXCEPT !.registry = @ \cup {id}]

\* One call that answers with every reader and card.
fetchRegistry(c) == callSync(c.link)

\* Fault: discovery adds what is new and keeps what is gone.
OnlyAdds(c) ==
    {LET d == [c EXCEPT !.link = r.link] IN
     IF ~r.ok THEN d ELSE [d EXCEPT !.registry = @ \cup agent.objects, !.synced = IF Overtaken(r.link) THEN @ ELSE r.link.gen] : r \in fetchRegistry(c)}

\* A failed fetch leaves the registry as it is.
repopulate(c) ==
    {LET d == [c EXCEPT !.link = r.link] IN
     IF ~r.ok THEN d
     ELSE [removeObjects(d, d.registry \ agent.objects) EXCEPT
              !.registry = agent.objects, !.synced = IF Overtaken(r.link) THEN @ ELSE r.link.gen] : r \in fetchRegistry(c)}

onServiceRegistered(c) == IF c.available THEN {c} ELSE repopulate([c EXCEPT !.available = TRUE])

ensureAgent(c) ==
    IF c.available THEN {c}
    ELSE UNION {LET d == [c EXCEPT !.link = r.link] IN IF r.ok THEN onServiceRegistered(d) ELSE {d} : r \in probeAvailability(c.link)}

discover(c) ==
    UNION {LET d == [c EXCEPT !.link = r.link] IN
           IF ~r.ok THEN {onServiceUnregistered(d)} ELSE IF d.available THEN repopulate(d) ELSE onServiceRegistered(d) : r \in probeAvailability(c.link)}

----------------------------------------------------------------------------
(* What the consumer calls. *)

Fresh == {o \in Objs : ops[o].state = "unborn"}

\* The constructor's probe found the agent, or it did not.
Init ==
    /\ agent \in {[up |-> b, life |-> IF b THEN 1 ELSE 0, quiet |-> FALSE, objects |-> IF b THEN Readers ELSE {}, cards |-> 0, ops |-> <<>>] : b \in BOOLEAN}
    /\ available = agent.up /\ registry = agent.objects /\ synced = agent.life
    /\ link = [NoLink EXCEPT !.fd = agent.up, !.peer = agent.life, !.gen = agent.life]
    /\ ops = [o \in Objs |-> Unborn]

\* startOperation's local gates: a feature the agent lacks, a batch of the
\* wrong size, a document without a descriptor.
RefusedLocally(o, card, kind) ==
    /\ Become(failEntry(Mint(Now, o, kind, card, 0), o, "Error"))
    /\ UNCHANGED agent

\* The agent mints an operation or refuses, unless the call fails; a request
\* that ran into its timeout may have reached it all the same.
startOperation(o, card, kind) ==
    \E r \in callSync(link), minted \in BOOLEAN :
        LET c == [Now EXCEPT !.link = r.link]
            id == Len(agent.ops) + 1
        IN  /\ minted => r.reached /\ id \in OpIds /\ card \in agent.objects
            /\ agent' = IF minted THEN [agent EXCEPT !.ops = Append(@, [stage |-> "working", gen |-> link.gen])] ELSE agent
            /\ Become(IF ~r.ok THEN failEntry(Mint(c, o, kind, card, 0), o, "Error")
                      ELSE IF minted THEN Mint(c, o, kind, card, id)
                      ELSE failEntry(Mint(c, o, kind, card, 0), o, "Error"))

StartOperation ==
    \E o \in Fresh, card \in registry \cap Cards, kind \in Kinds :
        RefusedLocally(o, card, kind) \/ startOperation(o, card, kind)

\* The request goes out, or its failure is posted.
requestCertificateDer(c, o) ==
    LET l == [c.link EXCEPT !.listeners = @ \cup {o}]
        failed(x) == [c EXCEPT !.link = Post(x, [k |-> "derFailed", o |-> o])]
    IN  IF ~Peer(l) THEN failed(dropConnection(l))
        ELSE [c EXCEPT !.link = [l EXCEPT !.pending = @ \cup {o}, !.asked = @ \cup {o}]]

certificateDer ==
    \E o \in Fresh : \E c \in ensureAgent(Mint(Now, o, "der", NoOne, 0)) :
        /\ Become(IF c.available THEN requestCertificateDer(c, o) ELSE failEntry(c, o, "Error"))
        /\ UNCHANGED agent

\* configSnapshot, setConfigValue, resetConfigValue, importCscaMasterList,
\* layoutVisualSignature, appearanceFont: start the agent, then one call.
AgentCall ==
    \E c \in ensureAgent(Now) : \E r \in (IF c.available THEN callSync(c.link) ELSE {Answer(c.link, FALSE, FALSE)}) :
        Become([c EXCEPT !.link = r.link]) /\ UNCHANGED agent

refreshDiscovery == (\E c \in discover(Now) : Become(c)) /\ UNCHANGED agent

\* Fire-and-forget: a send that fails drops the connection.
cancelOperation(l, o) == IF ops[o].op # 0 /\ ~Peer(l) THEN dropConnection(l) ELSE l

cancel ==
    (\E o \in Alive : link' = cancelOperation(link, o)) /\ UNCHANGED <<agent, available, registry, ops, synced>>

\* The consumer is done with the object and deletes it.
DeleteOperation == (\E o \in Alive : Become(Destroyed(Now, {o}, "deleted"))) /\ UNCHANGED agent

----------------------------------------------------------------------------
(* The event loop. *)

onPhaseChanged(c, o, phase) == [c EXCEPT !.ops[o].atPrompt = phase = "prompt"]

onResult(c, o) == [c EXCEPT !.ops[o].result = TRUE]

\* operationListenerFor: the first watch with this id in hash order.
operationListenerFor(c, op) == {o \in Objs : c.ops[o].state = "alive" /\ c.ops[o].op = op}

operationEvent(c, o, k) ==
    CASE k \in {"prompt", "work"} -> {onPhaseChanged(c, o, k)}
      [] k = "result" -> {onResult(c, o)}
      [] OTHER -> finalizeTerminal(c, o, k = "ended")

deliverConnectionLost(c, item) ==
    LET answered == FoldSet(LAMBDA o, x : onCertificateDer(x, o, "Error"), c, item.der)
    IN  IF item.gen # c.link.gen THEN answered ELSE onServiceUnregistered(answered)

\* dispatchAsyncReply: a reply nobody waits for is dropped.
dispatchAsyncReply(c, item) ==
    IF item.o \notin c.link.pending THEN {c}
    ELSE {onCertificateDer([c EXCEPT !.link.pending = @ \ {item.o}], item.o, outcome) : outcome \in {"Ok", "Error"}}

dispatchEvent(c, item) ==
    CASE item.k = "added" -> {addObject(c, item.id)}
      [] item.k = "removed" -> {removeObjects(c, {item.id})}
      [] item.k = "quiesced" -> {onServiceUnregistered([c EXCEPT !.link.quiesced = TRUE])}
      [] item.k = "lost" -> {deliverConnectionLost(c, item)}
      [] item.k = "der" -> dispatchAsyncReply(c, item)
      [] OTHER -> LET watching == operationListenerFor(c, item.op)
                  IN  IF watching = {} THEN {c} ELSE UNION {operationEvent(c, o, item.k) : o \in watching}

\* drainDeferred, one item at a time; the loop ends when nothing is left.
DrainStep ==
    /\ link.draining
    /\ \E c \in dispatchEvent([Now EXCEPT !.link.deferred = Tail(@)], Head(link.deferred)) :
           Become([c EXCEPT !.link.draining = c.link.deferred # <<>>])
    /\ UNCHANGED agent

drainDeferred(l) == [l EXCEPT !.drainQueued = FALSE, !.draining = l.deferred # <<>>]

\* The socket's notifier: read what there is, notice the end, drain.  The
\* loop sends what was posted before it polls the socket again, so the drain
\* that an earlier notification left behind has run.
onReadable ==
    /\ link.fd /\ ~link.draining /\ (link.stream # <<>> \/ ~Peer(link))
    /\ ~\E i \in 1..Len(link.posted) : link.posted[i].k = "drain"
    /\ link' = drainDeferred(IF Peer(link) THEN absorbFrames(link) ELSE dropConnection(absorbFrames(link)))
    /\ UNCHANGED <<agent, available, registry, ops, synced>>

\* A posted event runs.
RunPosted ==
    /\ ~link.draining /\ link.posted # <<>>
    /\ LET e == Head(link.posted)
           c == [Now EXCEPT !.link.posted = Tail(@)]
       IN  \/ e.k = "drain" /\ Become([c EXCEPT !.link = drainDeferred(c.link)])
           \/ e.k = "finished" /\ Become([c EXCEPT !.ops[e.o].heard = @ + 1])
           \/ e.k = "derFailed" /\ Become(onCertificateDer(c, e.o, "Error"))
    /\ UNCHANGED agent

\* The certificate request's own timer.
DerTimesOut ==
    /\ ~link.draining
    /\ \E o \in link.pending : Become(onCertificateDer([Now EXCEPT !.link.pending = @ \ {o}], o, "Error"))
    /\ UNCHANGED agent

\* The stall timer: stopped while a person is at the prompt.
giveUpStalled(o) ==
    /\ ~link.draining /\ ops[o].state = "alive" /\ ops[o].done = "no" /\ ~ops[o].atPrompt
    /\ Become(emitFinishedOnce([Now EXCEPT !.link = [cancelOperation(link, o) EXCEPT !.listeners = @ \ {o}]], o, "Error"))
    /\ UNCHANGED agent

Consumer ==
    \/ StartOperation \/ certificateDer \/ AgentCall \/ refreshDiscovery \/ cancel \/ DeleteOperation

Loop == DrainStep \/ onReadable \/ RunPosted \/ DerTimesOut \/ \E o \in Objs : giveUpStalled(o)

Next == Loop \/ Consumer \/ (AgentStep /\ UNCHANGED <<available, registry, ops, synced>>)

\* Every turn of the loop serves posted events and timers, however often a
\* drain comes between.
LiveSpec ==
    /\ Init /\ [][Next]_vars /\ WF_vars(DrainStep) /\ SF_vars(RunPosted)
    /\ \A o \in Objs : SF_vars(giveUpStalled(o))

Spec == Init /\ [][Next]_vars

----------------------------------------------------------------------------
(* Properties *)

\* An operation object that goes with its card or with the agent has reached
\* its terminal state: nobody is left waiting on a state that never comes.
NoSilentDeletion == \A o \in Objs : ops[o].state = "swept" => ops[o].done # "no"

\* finished() reaches the consumer at most once, and not before the terminal
\* state is there to be read.
HeardOnce == \A o \in Objs : ops[o].heard <= 1 /\ (ops[o].heard = 1 => ops[o].done # "no")

\* An operation that ended Ok has its result.
OkHasResult == \A o \in Objs : ops[o].state = "alive" /\ ops[o].done = "Ok" => ops[o].result

\* With every notice delivered the client calls the agent available exactly
\* while it holds a connection to an agent that is not quiesced.
AvailabilityFollowsConnection ==
    link.deferred = <<>> => (available <=> link.fd /\ ~link.quiesced)

\* Once the registry has been read on this connection, and everything the
\* agent sent since is applied, it is the agent's own tree.
RegistryMirrorsAgent ==
    (Peer(link) /\ available /\ synced = link.gen /\ link.stream = <<>> /\ link.deferred = <<>>)
        => registry = agent.objects

\* A certificate fetch that is not over has exactly one answer coming: a
\* reply or a timeout on the connection, the notice of its loss, or the
\* posted failure.
DerHasOneAnswer ==
    \A o \in Alive : ops[o].kind = "der" /\ ops[o].done = "no" =>
        /\ o \in link.listeners
        /\ Cardinality({x \in {"pending"} : o \in link.pending}
                \cup {i \in 1..Len(link.deferred) : link.deferred[i].k = "lost" /\ o \in link.deferred[i].der}
                \cup {<<i>> : i \in {j \in 1..Len(link.posted) : link.posted[j].k = "derFailed" /\ link.posted[j].o = o}}) = 1

\* Each operation is answered once, with what an answer has to bring, and does
\* not go without one, however losses, sweeps and late events interleave.
AnsweredOnce == NoSilentDeletion /\ HeardOnce /\ OkHasResult /\ DerHasOneAnswer

\* What the client shows of the agent is the agent: its presence and its tree,
\* in a client whose state is well formed.
ClientMirrorsAgent == TypeOK /\ AvailabilityFollowsConnection /\ RegistryMirrorsAgent

\* As long as no drain goes on for ever (an agent that never stops sending to
\* a consumer that never stops calling keeps one going), every operation is
\* heard of, unless its object goes or a person stays at the prompt.
EveryOperationEnds ==
    []<>~link.draining =>
        \A o \in Objs : ops[o].state = "alive" ~> (ops[o].heard > 0 \/ ops[o].state # "alive" \/ ops[o].atPrompt)
=============================================================================
