--------------------------- MODULE SocketTransport ---------------------------
(***************************************************************************)
(* The Qt client's socket transport: one connection to the agent, bounded  *)
(* calls that wait on the socket alone, and a queue of frames and notices  *)
(* that a call displaced and a later turn of the event loop delivers.      *)
(*                                                                         *)
(* `link` is the transport's state.  A seam call is a set of results       *)
(* [link, ok, reached]: what the connection became, whether the reply came *)
(* and whether the agent got the request.  `agent` is the agent's process, *)
(* which is external: it answers, stays silent, dies and is started again, *)
(* and numbers cards and operations from one in every life                 *)
(* (OperationManager::nextOperationId, PresenceModel).                     *)
(***************************************************************************)
EXTENDS Integers, Sequences, FiniteSets, SequencesExt

CONSTANTS
    Objs,         \* the AgentOperation objects the consumer mints
    Readers,      \* reader ids
    MaxCards,     \* bound: cards inserted in one life of the agent
    MaxLives,     \* bound: times the agent is started
    MaxGen,       \* bound: connections
    MaxFrames,    \* bound: frames on their way to the client
    HandshakeCut  \* the agent may close the connection right behind its HelloAck

ASSUME TransportAssumption ==
    /\ IsFiniteSet(Objs) /\ IsFiniteSet(Readers) /\ HandshakeCut \in BOOLEAN
    /\ MaxCards \in Nat /\ MaxLives \in Nat \ {0} /\ MaxGen \in Nat /\ MaxFrames \in Nat

VARIABLES
    agent,  \* the agent's process
    link    \* SocketTransport

Cards == 1..MaxCards
Ids == Cards \cup Readers
OpIds == 1..Cardinality(Objs)

Item == [k : {"added", "removed"}, id : Ids] \cup [k : {"prompt", "work", "result", "ended", "failed"}, op : OpIds]
        \cup [k : {"der"}, o : Objs] \cup [k : {"quiesced"}] \cup [k : {"lost"}, gen : 1..MaxGen, der : SUBSET Objs]
Posted == [k : {"drain"}] \cup [k : {"finished", "derFailed"}, o : Objs]

Link == [fd : BOOLEAN, peer : 0..MaxLives, gen : 0..MaxGen, quiesced : BOOLEAN, stream : Seq(Item), deferred : Seq(Item),
         draining : BOOLEAN, drainQueued : BOOLEAN, posted : Seq(Posted),
         asked : SUBSET Objs, pending : SUBSET Objs, listeners : SUBSET Objs]

NoLink == [fd |-> FALSE, peer |-> 0, gen |-> 0, quiesced |-> FALSE, stream |-> <<>>, deferred |-> <<>>,
           draining |-> FALSE, drainQueued |-> FALSE, posted |-> <<>>, asked |-> {}, pending |-> {}, listeners |-> {}]

Agent == [up : BOOLEAN, life : 0..MaxLives, quiet : BOOLEAN, objects : SUBSET Ids, cards : 0..MaxCards,
          ops : Seq([stage : {"working", "asking", "resulted", "ended"}, gen : 0..MaxGen])]

\* The process at the other end still holds this connection.
Peer(l) == l.fd /\ agent.up /\ agent.life = l.peer

----------------------------------------------------------------------------

Post(l, e) == [l EXCEPT !.posted = Append(@, e)]

scheduleDrain(l) == IF l.drainQueued THEN l ELSE [Post(l, [k |-> "drain"]) EXCEPT !.drainQueued = TRUE]

\* absorbFrame, for every frame that has arrived.
absorbFrames(l) ==
    IF l.stream = <<>> THEN l
    ELSE scheduleDrain([l EXCEPT !.deferred = @ \o l.stream, !.stream = <<>>])

\* Fault: the notice does not carry the requests that were in flight.
ForgetsRequests(l) ==
    IF ~l.fd THEN l
    ELSE scheduleDrain([l EXCEPT !.fd = FALSE, !.peer = 0, !.quiesced = FALSE, !.stream = <<>>, !.asked = {}, !.pending = {},
                                 !.deferred = Append(@, [k |-> "lost", gen |-> l.gen, der |-> {}])])

dropConnection(l) ==
    IF ~l.fd THEN l
    ELSE scheduleDrain([l EXCEPT !.fd = FALSE, !.peer = 0, !.quiesced = FALSE, !.stream = <<>>, !.asked = {}, !.pending = {},
                                 !.deferred = Append(@, [k |-> "lost", gen |-> l.gen, der |-> l.pending])])

Answer(l, ok, reached) == [link |-> l, ok |-> ok, reached |-> reached]

\* A bounded call: the send fails on a connection whose peer has gone, or the
\* wait ends with the peer's close; the reply comes, or not in time.  What
\* arrived meanwhile is put off.
callSync(l) ==
    LET read == absorbFrames(l)
    IN  IF ~l.fd THEN {Answer(l, FALSE, FALSE)}
        ELSE IF ~Peer(l) THEN {Answer(dropConnection(l), FALSE, FALSE), Answer(dropConnection(read), FALSE, FALSE)}
        ELSE {Answer(read, FALSE, TRUE)} \cup {Answer(read, TRUE, TRUE) : b \in {TRUE} \ {agent.quiet}}

\* Dial, Hello and HelloAck.  A connection lost in the handshake is announced
\* to nobody, also when the acknowledgement was read before the loss.
connectAndHandshake(l) ==
    {Answer(l, FALSE, FALSE)}
    \cup {Answer([l EXCEPT !.fd = up, !.peer = IF up THEN agent.life ELSE 0, !.gen = @ + 1, !.quiesced = FALSE], TRUE, TRUE) :
            up \in {b \in BOOLEAN : agent.up /\ l.gen < MaxGen /\ (b \/ HandshakeCut)}}

probeAvailability(l) ==
    IF ~l.fd THEN connectAndHandshake(l)
    ELSE IF l.quiesced THEN {[r EXCEPT !.link.quiesced = @ /\ ~r.ok] : r \in callSync(l)}
    ELSE {Answer(l, TRUE, FALSE)}

\* Frames of a connection that is gone wait in front of its notice.
Overtaken(l) == \E i \in 1..Len(l.deferred) : l.deferred[i].k = "lost" /\ l.deferred[i].gen # l.gen

----------------------------------------------------------------------------
(* The agent: external. *)

\* The agent writes a frame to the connection, if it is the client's.
Send(f) ==
    /\ Len(link.stream) + Len(link.deferred) < MaxFrames
    /\ link' = IF Peer(link) THEN [link EXCEPT !.stream = Append(@, f)] ELSE link

AgentStarts ==
    /\ ~agent.up /\ agent.life < MaxLives
    /\ agent' = [up |-> TRUE, life |-> agent.life + 1, quiet |-> FALSE, objects |-> Readers, cards |-> 0, ops |-> <<>>]
    /\ UNCHANGED link

AgentDies ==
    /\ agent.up
    /\ agent' = [agent EXCEPT !.up = FALSE, !.quiet = FALSE, !.objects = {}, !.cards = 0, !.ops = <<>>]
    /\ UNCHANGED link

AgentSleeps ==
    /\ agent.up /\ ~agent.quiet /\ Send([k |-> "quiesced"])
    /\ agent' = [agent EXCEPT !.quiet = TRUE]

AgentWakes == agent.quiet /\ agent' = [agent EXCEPT !.quiet = FALSE] /\ UNCHANGED link

AgentAdds(id) ==
    /\ agent.up /\ id \notin agent.objects /\ (id \in Cards => id = agent.cards + 1)
    /\ Send([k |-> "added", id |-> id])
    /\ agent' = [agent EXCEPT !.objects = @ \cup {id}, !.cards = IF id \in Cards THEN id ELSE @]

AgentRemoves(id) ==
    /\ agent.up /\ id \in agent.objects /\ Send([k |-> "removed", id |-> id])
    /\ agent' = [agent EXCEPT !.objects = @ \ {id}]

\* An operation's frames go to the connection that issued it.
AgentReports(i, k) ==
    /\ i \in DOMAIN agent.ops
    /\ LET op == agent.ops[i]
       IN  /\ k \in (CASE op.stage = "working" -> {"prompt", "result", "ended", "failed"} [] op.stage = "asking" -> {"work", "failed"}
                        [] op.stage = "resulted" -> {"ended", "failed"} [] OTHER -> {})
           /\ IF op.gen = link.gen THEN Send([k |-> k, op |-> i]) ELSE UNCHANGED link
           /\ agent' = [agent EXCEPT !.ops[i].stage = CASE k = "prompt" -> "asking" [] k = "work" -> "working"
                                                          [] k = "result" -> "resulted" [] OTHER -> "ended"]

AgentAnswersDer(o) ==
    /\ o \in link.asked /\ Peer(link) /\ Len(link.stream) + Len(link.deferred) < MaxFrames
    /\ link' = [link EXCEPT !.asked = @ \ {o}, !.stream = Append(@, [k |-> "der", o |-> o])]
    /\ UNCHANGED agent

AgentStep ==
    \/ AgentStarts \/ AgentDies \/ AgentSleeps \/ AgentWakes
    \/ \E id \in Ids : AgentAdds(id) \/ AgentRemoves(id)
    \/ \E i \in OpIds, k \in {"prompt", "work", "result", "ended", "failed"} : AgentReports(i, k)
    \/ \E o \in Objs : AgentAnswersDer(o)
=============================================================================
