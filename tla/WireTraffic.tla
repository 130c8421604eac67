---------------------------- MODULE WireTraffic ----------------------------
(***************************************************************************)
(* One frame at a time between a client and the agent, as its sender       *)
(* encoded it or changed on the way the way another version of the peer,   *)
(* or a broken one, would have written it.                                 *)
(***************************************************************************)
EXTENDS ClientViews

VARIABLE frame      \* way, msg: what was sent; wire, fds: the frame; change: what happened to it

D == INSTANCE DBusMarshal

Idle == [way |-> "none"]

SentRequests == Values(Request)
SentReplies == Values(Reply({r \in ReaderState : Labelled(r)}))
SentEvents == Values(Event({r \in ReaderState : Labelled(r)}))
LegalReply == Reply(ReaderState)
LegalEvent == Event(ReaderState)

(***************************************************************************)
(* The ways one item of a frame can differ from what was written.          *)
(***************************************************************************)
RECURSIVE Retyped(_), Shortened(_), Extended(_), Renamed(_), HasIndex(_)

\* Of another type, wider than the member it is read into, or an empty id or
\* coordinate.
Retyped(i) ==
  (IF i.k = "any" THEN {} ELSE {Null}) \cup
  CASE i.k = "map" -> {MapOf([i.of EXCEPT ![key] = j]) : <<key, j>> \in
                          UNION {{key} \X Retyped(i.of[key]) : key \in DOMAIN i.of}}
                      \cup {MapOf([i.of EXCEPT ![key].w = 0]) :
                              key \in {f \in DOMAIN i.of \cap {"keyId", "x", "y"} : i.of[f].k = "bytes"}}
    [] i.k = "array" -> {ArrayOf([i.seq EXCEPT ![n] = j]) : <<n, j>> \in
                          UNION {{n} \X Retyped(i.seq[n]) : n \in DOMAIN i.seq}}
    [] i.k = "uint" /\ i.w < 64 -> {[i EXCEPT !.w = 64]}
    [] OTHER -> {}

\* Without one key or element.
Shortened(i) ==
  CASE i.k = "map" -> {MapOf(Without(i.of, key)) : key \in DOMAIN i.of} \cup
                      {MapOf([i.of EXCEPT ![key] = j]) : <<key, j>> \in
                          UNION {{key} \X Shortened(i.of[key]) : key \in DOMAIN i.of}}
    [] i.k = "array" /\ i.seq # <<>> ->
                      {ArrayOf(Tail(i.seq))} \cup {ArrayOf([i.seq EXCEPT ![n] = j]) : <<n, j>> \in
                          UNION {{n} \X Shortened(i.seq[n]) : n \in DOMAIN i.seq}}
    [] OTHER -> {}

\* The keys whose maps are structs (the others are dictionaries).
StructKeys == {"reader", "card", "readers", "cards", "opts", "visualSignature", "docs", "meta", "result", "err",
               "certs", "rows", "photos", "records"}
\* The keys that hold tokens of a vocabulary that grows.
TokenKeys == {"interface", "keyType", "outcome", "name"}

\* With a key of a newer version.
Extended(i) ==
  CASE i.k = "map" -> {MapOf(i.of @@ ("future" :> Null))} \cup
                      {MapOf([i.of EXCEPT ![key] = j]) : <<key, j>> \in
                          UNION {{key} \X Extended(i.of[key]) : key \in DOMAIN i.of \cap StructKeys}}
    [] i.k = "array" -> {ArrayOf([i.seq EXCEPT ![n] = j]) : <<n, j>> \in
                          UNION {{n} \X Extended(i.seq[n]) : n \in DOMAIN i.seq}}
    [] OTHER -> {}

\* With a token of a newer version.
Renamed(i) ==
  CASE i.k = "map" -> {MapOf([i.of EXCEPT ![key] = j]) : <<key, j>> \in
                          UNION {{key} \X (IF key \in TokenKeys THEN {Item(Text, "future")} ELSE Renamed(i.of[key])) :
                                   key \in DOMAIN i.of}}
    [] i.k = "array" -> {ArrayOf([i.seq EXCEPT ![n] = j]) : <<n, j>> \in
                          UNION {{n} \X Renamed(i.seq[n]) : n \in DOMAIN i.seq}}
    [] OTHER -> {}

HasIndex(i) ==
  CASE i.k = "map" -> \E key \in DOMAIN i.of : HasIndex(i.of[key])
    [] i.k = "array" -> \E n \in DOMAIN i.seq : HasIndex(i.seq[n])
    [] OTHER -> "at" \in DOMAIN i

-----------------------------------------------------------------------------

Init == frame = Idle

Sent(way, m, wire) == [way |-> way, msg |-> m, wire |-> wire, fds |-> 2, change |-> "none"]

SendRequest(m) == frame = Idle /\ frame' = Sent("request", m, toCborRequest(m))
SendReply(m) == frame = Idle /\ frame' = Sent("reply", m, makeReply(m))
SendEvent(m) == frame = Idle /\ frame' = Sent("event", m, toCborEvent(m))

\* AgentCard::sign with the application's options.
SignOptions == [typed : SUBSET {"level", "tsaUrl", "displayName", "visualSignature"},
                extra : SUBSET {"level", "displayName", "reason", "location", "allowExpired", "future"}]

SignWith(o) ==
  LET m == [arm |-> "Sign", of |-> CHOOSE r \in Request["Sign"] : TRUE]
      signed == [m EXCEPT !.of["opts"] = MapOf(toSignOpts(signOptionsMap(o)))]
  IN frame = Idle /\ frame' = Sent("request", signed, toCborRequest(signed)) @@ [options |-> o]

\* setConfig with a value of the application's.
ConfigWrites ==
  ({"TslSources"} \X {ArrayOf(<<a, b>>) : a, b \in {TslCells, ArrayOf(<<Item(Text, "url")>>)}})
    \cup ({"TsaUrls"} \X Texts("url")) \cup ({"DefaultReason", "LastTsaUrl", "CscaAnchorState", "Future"} \X {Item(Text, "text")})

WriteConfig(key, value) ==
  LET m == [arm |-> "SetConfig", of |-> [key |-> Item(Text, key), value |-> AnyOf(configValueToCbor(key, value))]]
  IN /\ frame = Idle
     /\ frame' = [setting |-> key, value |-> value] @@
                   IF RefusedLocally(key) # "none" THEN [way |-> "refused", change |-> "none", outcome |-> RefusedLocally(key)]
                   ELSE Sent("request", m, toCborRequest(m))

\* A call fails on D-Bus, with a name of the agent's, the bus daemon's or another.
BusError(domain, tail) == frame = Idle /\ frame' = [way |-> "bus", change |-> "none", domain |-> domain, tail |-> tail]

InTransit == frame # Idle /\ frame.way \in {"request", "reply", "event"}

Change(kind, items) ==
  /\ InTransit /\ frame.change = "none"
  /\ \E i \in items : frame' = [frame EXCEPT !.wire = i.of, !.change = kind]

Retype == Change("retyped", {i \in Retyped(MapOf(frame.wire)) : i.k = "map"})
Shorten == Change("shortened", Shortened(MapOf(frame.wire)))
Extend == Change("extended", Extended(MapOf(frame.wire)))
Rename == Change("renamed", Renamed(MapOf(frame.wire)))

\* A reply or event the client has never heard of.
Replace ==
  /\ InTransit /\ frame.way # "request"
  /\ Change("replaced", {MapOf((IF frame.way = "event" THEN Tag("Future") ELSE makeReplyBase) @@ ("future" :> Null))})

\* The frame arrives without its descriptors.
LoseFds == /\ InTransit /\ frame.change = "none" /\ frame.way # "request"
           /\ frame' = [frame EXCEPT !.fds = 0, !.change = "stripped"]

Deliver == frame # Idle /\ frame' = Idle

Next == \/ \E m \in SentRequests : SendRequest(m)
        \/ \E m \in SentReplies : SendReply(m)
        \/ \E m \in SentEvents : SendEvent(m)
        \/ \E o \in SignOptions : SignWith(o)
        \/ \E w \in ConfigWrites : WriteConfig(w[1], w[2])
        \/ \E domain \in {"agent", "bus", "other"}, tail \in SyncErrors \cup {"ServiceUnknown", "NoReply", "Future"} :
             BusError(domain, tail)
        \/ Retype \/ Shorten \/ Extend \/ Rename \/ Replace \/ LoseFds \/ Deliver

Spec == Init /\ [][Next]_frame

-----------------------------------------------------------------------------
Received ==
  CASE frame.way = "request" -> parseRequest(frame.wire)
    [] frame.way = "reply" -> parseReply(frame.wire, frame.fds)
    [] frame.way = "event" -> parseEvent(frame.wire, frame.fds)

Legal == CASE frame.way = "request" -> Request [] frame.way = "reply" -> LegalReply [] frame.way = "event" -> LegalEvent

Unchanged(arm) == InTransit /\ frame.change = "none" /\ frame.msg.arm = arm

\* Every request, reply and event is read back by the other end as the value
\* that was sent, whichever optional members it has: the two hand-written
\* codecs (Messages.cpp, ClientCodec.cpp) are inverses, and the arm of a
\* reply, which is told by the keys it carries, is never mistaken.
MessagesArriveIntact == InTransit /\ frame.change = "none" => Received = frame.msg

\* An item of another type, an integer too wide for its member or an empty
\* key id is refused wherever in the frame it stands; nothing is cut down or
\* left out to make it fit (FieldReader, the f... helpers).
WrongTypeIsRefused == InTransit /\ frame.change = "retyped" => Received = Malformed

\* Without one of its keys a frame is refused, or is of no known arm, or still
\* reads as a value its sender could have meant, of the same arm: no decoder
\* fills a required member with a default, and no reply turns into another.
MissingKeyIsNotMistaken ==
  InTransit /\ frame.change = "shortened" =>
    \/ Received \in {Malformed, Unknown}
    \/ Received.arm = frame.msg.arm /\ (~Has(frame, "options") /\ ~Has(frame, "setting") => Received.of \in Legal[Received.arm])

\* What a newer peer adds is no error: a key that is not known is left alone at
\* any depth, a token that is not known reads as a default, and a reply or
\* event that is not known as Unknown (ClientCodec.h, "forward compatibility").
NewerPeerIsUnderstood ==
  InTransit =>
    /\ frame.change = "extended" => Received = frame.msg
    /\ frame.change = "renamed" => Received.arm = frame.msg.arm
    /\ frame.change = "replaced" => Received = Unknown

\* A message that names a descriptor is refused when the descriptors did not
\* come with it, so an index is never used beyond the frame's own.
MissingDescriptorIsNoticed ==
  InTransit /\ frame.change = "stripped" =>
    Received = IF HasIndex(MapOf(frame.wire)) THEN Malformed ELSE frame.msg

\* A frame that a broken, older or newer peer wrote is refused or understood,
\* never mistaken: one item retyped, dropped, added, renamed or left without
\* its descriptors at any depth of any message.
ChangedFramesAreNotMistaken ==
  /\ WrongTypeIsRefused /\ MissingKeyIsNotMistaken
  /\ NewerPeerIsUnderstood /\ MissingDescriptorIsNoticed

\* A result shows the application the same over the socket, through encoder,
\* decoder and toPayload, as over D-Bus, for every kind of operation; and so
\* does a group of fields that comes before it.
ResultsMeanTheSame ==
  /\ Unchanged("OpResultReady") => toPayload(Received.of["result"]) = D!onResult(frame.msg.of["result"])
  /\ Unchanged("OpIdentityGroup") => toFieldGroup(Received.of["fields"].of) = D!toFieldGroup(frame.msg.of["fields"].of)

\* A refusal has the same call error, error code and name over both wires,
\* also when its name is newer than the client; and only the agent can name
\* one: a bus error of the same spelling, or a local failure, engages no name.
ErrorsMeanTheSame ==
  /\ InTransit /\ frame.msg.arm = "Error" /\ frame.change \in {"none", "renamed"} =>
       LET e == frame.msg.of["code"]
           named == Has(frame.wire["err"].of, "name")
           name == frame.wire["err"].of["name"].c
       IN mapErrInfo(Received.of) = IF named THEN D!mapDBusErrorName("agent", name) ELSE Axes("None", e.c)
  /\ frame # Idle /\ frame.way = "bus" =>
       LET e == D!mapDBusErrorName(frame.domain, frame.tail)
       IN /\ (e.sync = "none") = (frame.domain # "agent")
          /\ e.code # "None" <=> frame.domain = "agent" /\ e.call = "None"

\* A reader or card that is announced replaces all the client showed of it: an
\* absent card, model or type overwrites a stale one, and a card that wants to
\* be unlocked before it is read is never shown as one that does not, whether
\* or not the client knows the method (preAuthToken, applyProps).
StateReplacesWhatWasShown ==
  /\ Unchanged("ReaderAdded") =>
       LET r == frame.msg.of["reader"].of
           stale == [Name |-> Null, HasCard |-> Null, Card |-> Null, Model |-> Null, Interface |-> Null]
           shown == ApplyReaderProps(stale, readerProps(Received.of["reader"].of))
       IN /\ shown.Card = Else(r, "card") /\ shown.Model = Else(r, "model")
          /\ shown.Interface = r["iface"] /\ shown.Name = r["name"] /\ shown.HasCard = r["hasCard"]
  /\ Unchanged("CardAdded") =>
       LET c == frame.msg.of["card"].of
           stale == [Capabilities |-> Null, PreReadAuthMethod |-> Empty, Reader |-> Null, CardType |-> Null, Atr |-> Null]
           shown == ApplyCardProps(stale, cardProps(Received.of["card"].of))
       IN /\ shown.CardType = Else(c, "cardType") /\ shown.Atr = Else(c, "atr") /\ shown.Reader = c["reader"]
          /\ preReadUnlockRequired(shown.PreReadAuthMethod.c) <=> c["preAuth"].c # "None"

\* The agent signs with the options the application typed: a typed member wins
\* over a further option of its name, Auto reaches the agent as "auto" however
\* the further options spell a level, and nothing else is added or lost.
TypedOptionsWin ==
  frame # Idle /\ Has(frame, "options") /\ frame.change = "none" =>
    LET o == frame.options
        opts == Received.of["opts"].of
    IN /\ opts["level"].c = IF "level" \in o.typed THEN "typed" ELSE "auto"
       /\ DOMAIN opts = {"format", "packaging", "level"} \cup o.typed \cup (o.extra \ {"future"})
       /\ Has(opts, "displayName") => opts["displayName"].c = IF "displayName" \in o.typed THEN "typed" ELSE "extra"

\* The rows of a list that are well formed, as the agent holds them.
Rows(list) == SelectSeq(list.seq, LAMBDA row : row \in {TslMap, TslCells})

\* A setting reads and writes the same over both wires: the agent's sources
\* arrive as rows of one form however it wrote them, a date that is absent
\* stays absent, a write carries the same value, and a write that is refused
\* locally gets the error the agent would give.
SettingsMeanTheSame ==
  /\ Unchanged("Config") =>
       \A key \in DOMAIN Received.of["entries"].of :
         LET value == Received.of["entries"].of[key].c
             held == IF key = "TslSources" THEN ArrayOf([j \in DOMAIN Rows(value) |-> TslMap]) ELSE value
             shown == configValueToVariant(key, value)
         IN /\ shown = D!demarshalConfigValue(key, held)
            /\ key = "CscaAnchorState" =>
                 \A date \in {"acceptedAt", "signedAt"} :
                   (cscaAnchorStateFromMap(shown.of)[date] = Invalid) = ~Has(value.of, date)
  /\ frame # Idle /\ Has(frame, "setting") =>
       IF frame.way = "refused" THEN frame.outcome = D!AgentRefusal(frame.setting)
       ELSE frame.change = "none" =>
              /\ D!AgentRefusal(frame.setting) = "none"
              /\ Received.of["value"].c = D!marshalConfigValue(frame.setting, frame.value)
  /\ Unchanged("Error") /\ frame.msg.of["code"].k = "enum" =>
       ConfigOutcome(Received.of) = D!configOutcome("agent", frame.msg.of["code"].c)

\* Both transports, with their separate tables, show an application the same
\* results, refusals, properties and settings, and sign as it asked.
TransportsAgree ==
  /\ ResultsMeanTheSame /\ ErrorsMeanTheSame /\ StateReplacesWhatWasShown
  /\ TypedOptionsWin /\ SettingsMeanTheSame
=============================================================================
