--------------------------- MODULE ObjectRegistry ---------------------------
(***************************************************************************)
(* The readers and cards that are exported (ObjectRegistry.cpp), as the    *)
(* monitor's events move them (PresenceModel.cpp), with the labels that    *)
(* tell readers apart (ReaderLabels.cpp) and what an observer is told.     *)
(*                                                                         *)
(* A PC/SC name is taken as what splitPcscName and modelOf make of it: the *)
(* model, a serial (or NoSerial) with its last four characters, and        *)
(* whether it carries a contactless marker.  A model is a text with its   *)
(* suffixes, for a name may itself end like the label of another reader.   *)
(***************************************************************************)
EXTENDS Naturals, Sequences, FiniteSets, SequencesExt

CONSTANTS
    ReaderNames,      \* the names readers may have
    MaxObjects  \* bound: object ids

VARIABLES
    readers,  \* the readers: id, name, label and card, in order of arrival
    cards,    \* the ids of the cards
    nextId,   \* PresenceModel::m_nextId
    view,     \* what the observer has been told
    orderly   \* no relabel came before its cause

registryVars == <<readers, cards, nextId, view, orderly>>

NoSerial == ""
NoSeat == 0
RECURSIVE FreePosition(_, _, _, _)

-----------------------------------------------------------------------------
(* readerIdentities.                                                       *)

iface(names, n) ==
    IF n.contactless THEN "Contactless"
    ELSE IF n.serial # NoSerial /\ \E m \in Range(names) : m # n /\ m.serial = n.serial THEN "Contact"
    ELSE "Unknown"

Natural(names, n) == [model |-> n.model, iface |-> iface(names, n)]

\* The first position from p on whose label is not taken.
FreePosition(label, taken, n, p) ==
    IF [label EXCEPT !.model = Append(n.model, ToString(p))] \in taken
    THEN FreePosition(label, taken, n, p + 1)
    ELSE [label EXCEPT !.model = Append(n.model, ToString(p))]

Suffixed(label, taken, n, i) ==
    LET byTail == [label EXCEPT !.model = Append(n.model, n.tail)]
    IN  IF n.serial # NoSerial /\ byTail \notin taken THEN byTail
        ELSE FreePosition(label, taken, n, i)

readerIdentities(names) ==
    LET natural == [i \in DOMAIN names |-> Natural(names, names[i])]
        Step(acc, i) ==
            LET label == IF \A j \in DOMAIN names : j # i => natural[j] # natural[i] THEN natural[i]
                         ELSE Suffixed(natural[i], acc.taken, names[i], i)
            IN  [taken |-> acc.taken \cup {label}, out |-> Append(acc.out, label)]
    IN  FoldLeft(Step, [taken |-> Range(natural), out |-> <<>>], [i \in DOMAIN names |-> i]).out

-----------------------------------------------------------------------------
(* The registry.                                                           *)

\* The readers after relabel, and the ids of those whose label changed.
relabel(rs) ==
    LET labels == readerIdentities([i \in DOMAIN rs |-> rs[i].name])
    IN  [i \in DOMAIN rs |-> [rs[i] EXCEPT !.label = labels[i]]]
Changed(rs, after) == SelectSeq(after, LAMBDA r : \A i \in DOMAIN rs : rs[i].id = r.id => rs[i].label # r.label)

\* The observer applies what it is told, in order.
Hear(v, e) ==
    CASE e.what = "added"     -> [v EXCEPT !.readers = [id \in DOMAIN @ \cup {e.reader.id} |->
                                       IF id = e.reader.id THEN e.reader ELSE @[id]]]
      [] e.what = "relabelled" -> [v EXCEPT !.readers[e.reader.id].label = e.reader.label]
      [] e.what = "changed"   -> [v EXCEPT !.readers[e.reader.id].card = e.reader.card]
      [] e.what = "card"      -> [v EXCEPT !.cards = @ \cup {e.id}]
      [] e.what = "removed"   -> [readers |-> [id \in DOMAIN v.readers \ {e.id} |-> v.readers[id]],
                                  cards |-> v.cards \ {e.id}]
Tell(events) ==
    LET told(n) == FoldLeft(Hear, view, SubSeq(events, 1, n))
    IN  /\ view' = told(Len(events))
        /\ orderly' = (orderly /\ \A n \in DOMAIN events :
              events[n].what = "relabelled" =>
                  DOMAIN told(n - 1).readers = {readers'[i].id : i \in DOMAIN readers'})

Relabels(rs) == [i \in DOMAIN rs |-> [what |-> "relabelled", reader |-> rs[i]]]

\* The newcomer first, and then every other reader whose label changed.
Arrival(reader, changed) == <<[what |-> "added", reader |-> reader]>> \o Relabels(changed)

addedReader(name) ==
    LET rs == Append(readers, [id |-> nextId + 1, name |-> name, card |-> NoSeat,
                               label |-> [model |-> <<>>, iface |-> "Unknown"]])
        after == relabel(rs)
        others == SelectSeq(Changed(rs, after), LAMBDA r : r.id # nextId + 1)
    IN  [readers |-> after, events |-> Arrival(Last(after), others)]

\* PresenceModel::onReaderAdded with ObjectRegistry::addReader.
onReaderAdded(name) ==
    /\ \A i \in DOMAIN readers : readers[i].name # name
    /\ nextId < MaxObjects
    /\ nextId' = nextId + 1
    /\ readers' = addedReader(name).readers
    /\ Tell(addedReader(name).events)
    /\ UNCHANGED cards

\* ObjectRegistry::update, which says nothing of a delta that changes nothing.
WithCard(rs, i, card) == [rs EXCEPT ![i].card = card]
Update(rs, i, card) ==
    IF rs[i].card = card THEN <<>> ELSE <<[what |-> "changed", reader |-> WithCard(rs, i, card)[i]]>>

\* Fault: the reader keeps the card that is gone.
CardStays(rs, i) == <<[what |-> "removed", id |-> rs[i].card]>>
CardGone(rs, i) ==
    IF rs[i].card = NoSeat THEN <<>> ELSE <<[what |-> "removed", id |-> rs[i].card]>> \o Update(rs, i, NoSeat)

\* PresenceModel::onCardInserted.
onCardInserted(name) ==
    LET known == \E i \in DOMAIN readers : readers[i].name = name
        rs == IF known THEN readers ELSE addedReader(name).readers
        i == CHOOSE i \in DOMAIN rs : rs[i].name = name
        id == nextId + IF known THEN 1 ELSE 2
    IN  /\ id <= MaxObjects
        /\ nextId' = id
        /\ readers' = WithCard(rs, i, id)
        /\ cards' = (cards \ {rs[i].card}) \cup {id}
        /\ Tell((IF known THEN <<>> ELSE addedReader(name).events)
                    \o CardGone(rs, i) \o <<[what |-> "card", id |-> id]>> \o Update(WithCard(rs, i, NoSeat), i, id))

\* PresenceModel::onCardRemoved.
onCardRemoved(name) ==
    \E i \in DOMAIN readers :
        /\ readers[i].name = name /\ readers[i].card # NoSeat
        /\ readers' = WithCard(readers, i, NoSeat)
        /\ cards' = cards \ {readers[i].card}
        /\ Tell(CardGone(readers, i))
        /\ UNCHANGED nextId

\* PresenceModel::onReaderRemoved: its card, then the reader, and then the
\* readers that its absence relabels.
onReaderRemoved(name) ==
    \E i \in DOMAIN readers :
        LET rs == RemoveAt(readers, i)
        IN  /\ readers[i].name = name
            /\ readers' = relabel(rs)
            /\ cards' = cards \ {readers[i].card}
            /\ Tell(CardGone(readers, i) \o <<[what |-> "removed", id |-> readers[i].id]>>
                        \o Relabels(Changed(rs, relabel(rs))))
            /\ UNCHANGED nextId

RegistryInit ==
    /\ readers = <<>> /\ cards = {} /\ nextId = 0 /\ orderly = TRUE
    /\ view = [readers |-> [id \in {} |-> 0], cards |-> {}]

RegistryNext ==
    \E name \in ReaderNames :
        onReaderAdded(name) \/ onReaderRemoved(name) \/ onCardInserted(name) \/ onCardRemoved(name)

-----------------------------------------------------------------------------
\* The label tells readers apart, whatever arrives beside them, even where
\* serials end alike or a reader is called what another would be labelled.
LabelsTellReadersApart ==
    \A i, j \in DOMAIN readers : i # j => readers[i].label # readers[j].label

\* After each event of the monitor an observer that only applied what it was
\* told knows the readers, their labels and their cards as they are.
ObserverIsUpToDate ==
    /\ view.cards = cards
    /\ DOMAIN view.readers = {readers[i].id : i \in DOMAIN readers}
    /\ \A i \in DOMAIN readers : view.readers[readers[i].id] = readers[i]

\* An observer never hears of a relabel caused by a reader it has not been
\* told about, or by the absence of one it believes to be there.
RelabelsFollowTheirCause == orderly

\* Observers end with what is exported, hear of it in an order that makes
\* sense, and can tell the readers apart.
ObserversKeepUp == ObserverIsUpToDate /\ RelabelsFollowTheirCause /\ LabelsTellReadersApart
=============================================================================
