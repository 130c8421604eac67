-------------------------- MODULE FrameReassembler --------------------------
(***************************************************************************)
(* Framing on the socket (Framing.cpp, FdHarvest.h, FrameReassembler.cpp): *)
(* a frame is a header, which says how long the body is and how many       *)
(* descriptors go with it, and the body.  Its descriptors ride on its      *)
(* first byte.  A receiver sees the bytes in pieces of any size and is     *)
(* either the blocking recvFrame or the non-blocking pump, which reads     *)
(* what is there before it cuts frames out of its buffer.                  *)
(*                                                                         *)
(* A byte is the frame it belongs to and its place there; a descriptor is  *)
(* the number of the frame it was sent with.                               *)
(***************************************************************************)
EXTENDS Naturals, Sequences, Loops

CONSTANTS
    kFrameHeaderBytes, kMaxFrameBytes, kMaxFrameFds,
    ChunkBytes,     \* the most that one recvmsg of pump reads
    MaxFrames       \* bound: frames sent

ASSUME FramingAssumption ==
    kFrameHeaderBytes \in Nat \ {0} /\ kMaxFrameBytes \in Nat /\ kMaxFrameFds \in Nat /\ ChunkBytes \in Nat

VARIABLES
    sent,       \* the frames the peer has sent
    stream,     \* the bytes that have not been received
    peer,       \* "open", "closed"
    pipelined,  \* a frame was sent while another was under way
    rx          \* the receiver

frameVars == <<sent, stream, peer, pipelined, rx>>

kMaxPendingFds  == 2 * kMaxFrameFds
kMaxBufferBytes == kFrameHeaderBytes + kMaxFrameBytes

\* UniqueFd, Frame and the members of FrameReassembler.
Receiver(mode) == [mode |-> mode, buffer |-> <<>>, fds |-> <<>>, frames |-> <<>>, status |-> "Ok"]

FrameInit ==
    /\ sent = <<>> /\ stream = <<>> /\ peer = "open" /\ pipelined = FALSE
    /\ rx \in {Receiver("pump"), Receiver("blocking")}

-----------------------------------------------------------------------------
\* The frame a peer may send, and the ones sendFrame refuses.
Frame == [len : 0 .. kMaxFrameBytes + 1, fds : 0 .. kMaxFrameFds + 1]
Refused(f) == f.len > kMaxFrameBytes \/ f.fds > kMaxFrameFds

encodeFrame(i, f) == [at \in 1 .. kFrameHeaderBytes + f.len |-> [frame |-> i, at |-> at]]

\* sendFrame.  The pieces it is sent in are the pieces it is received in.
sendFrame(f) ==
    /\ peer = "open" /\ Len(sent) < MaxFrames /\ ~Refused(f)
    /\ sent' = Append(sent, f)
    /\ stream' = stream \o encodeFrame(Len(sent) + 1, f)
    /\ pipelined' = (pipelined \/ Len(rx.frames) < Len(sent))
    /\ UNCHANGED <<peer, rx>>

Close == peer = "open" /\ peer' = "closed" /\ UNCHANGED <<sent, stream, pipelined, rx>>

\* The descriptors on a byte.
Riding(b) == IF b.at = 1 THEN [j \in 1 .. sent[b.frame].fds |-> b.frame] ELSE <<>>

\* receiveWithFds: one recvmsg takes at least a byte, at most n, and never
\* the descriptors of a second message.
Reads(k, n) ==
    /\ k \in 1 .. n /\ k <= Len(stream)
    /\ \A j \in 2 .. k : Riding(stream[j]) = <<>>

\* What a receiver reads where it expects a header.
Header(b) == IF b.at = 1 THEN sent[b.frame] ELSE [len |-> kMaxFrameBytes + 1, fds |-> 0]

\* Fault: a frame is given every descriptor that has arrived.
TakesAll(fds, n) == fds
TakesOwn(fds, n) == SubSeq(fds, 1, n)

Cut(buffer, fds) ==
    LET h == Header(buffer[1])
        size == kFrameHeaderBytes + h.len
        own == TakesOwn(fds, h.fds)
    IN  [frame |-> [body |-> SubSeq(buffer, kFrameHeaderBytes + 1, size), fds |-> own],
         buffer |-> SubSeq(buffer, size + 1, Len(buffer)),
         fds |-> SubSeq(fds, Len(own) + 1, Len(fds))]

\* FrameReassembler::extract: one pass of its loop, which takes a frame that
\* is all there off the buffer, finds the buffer at fault or waits for more.
ExtractOne(r) ==
    LET h == Header(r.buffer[1])
        c == Cut(r.buffer, r.fds)
    IN  IF r.status # "Ok" \/ Len(r.buffer) < kFrameHeaderBytes THEN r
        ELSE IF h.len > kMaxFrameBytes THEN [r EXCEPT !.status = "Oversize"]
        ELSE IF h.fds > kMaxFrameFds THEN [r EXCEPT !.status = "TooManyFds"]
        ELSE IF Len(r.buffer) < kFrameHeaderBytes + h.len THEN r
        ELSE IF Len(r.fds) < h.fds THEN [r EXCEPT !.status = "FdMismatch"]
        ELSE [r EXCEPT !.buffer = c.buffer, !.fds = c.fds, !.frames = Append(@, c.frame)]

Byte == [frame : Nat, at : Nat]
Receivers ==
    [mode : {"pump", "blocking"}, buffer : Seq(Byte), fds : Seq(Nat),
     frames : Seq([body : Seq(Byte), fds : Seq(Nat)]),
     status : {"Ok", "PeerClosed", "Oversize", "TooManyFds", "FdMismatch"}]

\* Every pass that goes on takes a header.
extract(r) == Loop(r, [x \in Receivers |-> ExtractOne(x)])[Len(r.buffer)]

Alive == rx.status = "Ok"

\* One pass of pump's loop.
PumpReads(k) ==
    LET fds == rx.fds \o Riding(stream[1])
        buffer == rx.buffer \o SubSeq(stream, 1, k)
    IN  /\ Alive /\ rx.mode = "pump" /\ Reads(k, ChunkBytes)
        /\ stream' = SubSeq(stream, k + 1, Len(stream))
        /\ rx' = IF Len(fds) > kMaxPendingFds THEN [rx EXCEPT !.fds = fds, !.status = "TooManyFds"]
                 ELSE [rx EXCEPT !.fds = fds, !.buffer = buffer,
                                 !.status = IF Len(buffer) > kMaxBufferBytes THEN "Oversize" ELSE "Ok"]
        /\ UNCHANGED <<sent, peer, pipelined>>

\* pump finds nothing more to read, for now.
PumpDrains ==
    /\ Alive /\ rx.mode = "pump"
    /\ rx' = extract(rx)
    /\ UNCHANGED <<sent, stream, peer, pipelined>>

AtEof(r) ==
    LET e == extract(r) IN [e EXCEPT !.status = IF @ = "Ok" THEN "PeerClosed" ELSE @]

PumpEnds ==
    /\ Alive /\ rx.mode = "pump" /\ peer = "closed" /\ stream = <<>>
    /\ rx' = AtEof(rx)
    /\ UNCHANGED <<sent, stream, peer, pipelined>>

\* How many bytes the blocking receiver is waiting for: the header, then the
\* body the header announces if it is one to be read.
Wanted ==
    IF Len(rx.buffer) < kFrameHeaderBytes \/ Refused(Header(rx.buffer[1])) THEN kFrameHeaderBytes
    ELSE kFrameHeaderBytes + Header(rx.buffer[1]).len

Capped(fds) == SubSeq(fds, 1, IF Len(fds) < kMaxFrameFds THEN Len(fds) ELSE kMaxFrameFds)

\* recvExact.  Descriptors over the cap are closed.
recvExact(k) ==
    /\ Alive /\ rx.mode = "blocking" /\ Reads(k, Wanted - Len(rx.buffer))
    /\ stream' = SubSeq(stream, k + 1, Len(stream))
    /\ rx' = [rx EXCEPT !.buffer = @ \o SubSeq(stream, 1, k),
                        !.fds = Capped(@ \o Riding(stream[1]))]
    /\ UNCHANGED <<sent, peer, pipelined>>

\* recvFrame, once the header and the body are there.
recvFrame ==
    LET h == Header(rx.buffer[1])
        whole == [body |-> SubSeq(rx.buffer, kFrameHeaderBytes + 1, Len(rx.buffer)), fds |-> rx.fds]
    IN  /\ Alive /\ rx.mode = "blocking" /\ Len(rx.buffer) = Wanted
        /\ rx' = IF h.len > kMaxFrameBytes THEN [rx EXCEPT !.status = "Oversize"]
                 ELSE IF h.fds > kMaxFrameFds THEN [rx EXCEPT !.status = "TooManyFds"]
                 ELSE IF Len(rx.fds) # h.fds THEN [rx EXCEPT !.status = "FdMismatch"]
                 ELSE [rx EXCEPT !.buffer = <<>>, !.fds = <<>>, !.frames = Append(@, whole)]
        /\ UNCHANGED <<sent, stream, peer, pipelined>>

BlockingEnds ==
    /\ Alive /\ rx.mode = "blocking" /\ peer = "closed" /\ stream = <<>> /\ Len(rx.buffer) < Wanted
    /\ rx' = [rx EXCEPT !.status = "PeerClosed"]
    /\ UNCHANGED <<sent, stream, peer, pipelined>>

FrameNext ==
    \/ \E f \in Frame : sendFrame(f)
    \/ Close
    \/ \E k \in 1 .. ChunkBytes : PumpReads(k)
    \/ PumpDrains \/ PumpEnds
    \/ \E k \in 1 .. kFrameHeaderBytes + kMaxFrameBytes : recvExact(k)
    \/ recvFrame \/ BlockingEnds

FrameSpec == FrameInit /\ [][FrameNext]_frameVars

-----------------------------------------------------------------------------
\* Whatever pieces the bytes come in, every frame handed on is the next one
\* that was sent, with its own body and exactly its own descriptors.
FramesArriveAsSent ==
    \A i \in 1 .. Len(rx.frames) :
        /\ i <= Len(sent)
        /\ rx.frames[i].body = SubSeq(encodeFrame(i, sent[i]), kFrameHeaderBytes + 1, kFrameHeaderBytes + sent[i].len)
        /\ rx.frames[i].fds = [j \in 1 .. sent[i].fds |-> i]

\* A peer that keeps to the limits is refused by pump's buffers only when it
\* has sent a frame before the one in front of it was taken, and by
\* recvFrame never; descriptors are never found missing.
OnlyABacklogIsRefused ==
    rx.status \notin {"Ok", "PeerClosed"} =>
        pipelined /\ rx.mode = "pump" /\ rx.status \in {"Oversize", "TooManyFds"}

\* The end of the stream is reported after the last frame was handed on.
EndComesLast == rx.status = "PeerClosed" => Len(rx.frames) = Len(sent)

\* The stream is cut into the frames that were sent, whole, in order and to
\* the last one, and a peer within the limits is not refused.
StreamIsFaithful == FramesArriveAsSent /\ OnlyABacklogIsRefused /\ EndComesLast
=============================================================================
