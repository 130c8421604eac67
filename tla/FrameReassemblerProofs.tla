----------------------- MODULE FrameReassemblerProofs -----------------------
(***************************************************************************)
(* Frames arrive whole, in order and with their own descriptors, for any   *)
(* frames and any cuts of the stream.                                      *)
(*                                                                         *)
(* The bytes in the buffer and in the stream are the frames that were sent *)
(* after the ones handed on, each at its offset (Laid), and the descriptors*)
(* at hand are those of the frames whose first byte was received (Handed). *)
(* So the header at the front of the buffer is the next frame's, and what  *)
(* extract() cuts off is that frame.                                       *)
(***************************************************************************)
EXTENDS FrameReassembler, Loops, WellFoundedInduction, TLAPS

\* Induction on the natural numbers, for sets of numbers: the library's own
\* induction theorems have an operator as a parameter.

Smaller == {p \in Nat \X Nat : p[1] < p[2]}

\* A set of numbers has a least one.
LEMMA LeastNumber ==
    ASSUME NEW T, T \subseteq Nat, T # {}
    PROVE  \E n \in T : \A m \in T : n <= m
<1>1. OpToRel(<, Nat) = Smaller
  BY Zenon DEF OpToRel, Smaller
<1>2. IsWellFoundedOn(Smaller, Nat)
  BY <1>1, NatLessThanWellFounded, Zenon
<1>3. PICK n \in T : \A m \in T : ~(<<m, n>> \in Smaller)
  BY <1>2, WFMin, Zenon
<1>4. ASSUME NEW m \in T PROVE n <= m
  <2>1. <<m, n>> \notin Smaller /\ m \in Nat /\ n \in Nat
    BY Zenon, <1>3
  <2>2. m < n => <<m, n>> \in Smaller
    BY Zenon, <2>1 DEF Smaller
  <2> QED
    BY <2>1, <2>2
<1> QED
  BY <1>4, Zenon

\* A set that has 0, and the successor of each number it has, has them all.
LEMMA Induction ==
    ASSUME NEW T, 0 \in T, \A n \in Nat : n \in T => n + 1 \in T
    PROVE  Nat \subseteq T
<1> SUFFICES ASSUME NEW k \in Nat \ T PROVE FALSE
  BY Zenon
<1>1. Nat \ T \subseteq Nat /\ Nat \ T # {}
  BY Zenon
<1>2. PICK n \in Nat \ T : \A m \in Nat \ T : n <= m
  BY <1>1, LeastNumber, Zenon
<1>3. n - 1 \in Nat /\ n - 1 \in T
  BY <1>2
<1>4. (n - 1) + 1 \in T
  BY Zenon, <1>3
<1> QED
  BY <1>2, <1>4

-----------------------------------------------------------------------------
\* What a loop computes.

\* The first n rounds of a loop, in g.
Rounds(S, first, body, n, g) ==
    /\ g \in [Nat -> S] /\ g[0] = first
    /\ \A i \in 0..(n - 1) : g[i + 1] = body[g[i]]

\* Any number of rounds can be run.
LEMMA RoundsExist ==
    ASSUME NEW S, NEW first \in S, NEW body, \A x \in S : body[x] \in S, NEW n \in Nat
    PROVE  \E g : Rounds(S, first, body, n, g)
<1> DEFINE T == {k \in Nat : \E g : Rounds(S, first, body, k, g)}
<1>1. 0 \in T
  <2>1. Rounds(S, first, body, 0, [i \in Nat |-> first])
    BY DEF Rounds
  <2> QED
    BY Zenon, <2>1
<1>2. ASSUME NEW k \in Nat, k \in T PROVE k + 1 \in T
  <2>1. PICK g : Rounds(S, first, body, k, g)
    BY Zenon, <1>2
  <2> DEFINE h == [g EXCEPT ![k + 1] = body[g[k]]]
  <2>2. h \in [Nat -> S]
    BY Zenon, <2>1 DEF Rounds
  <2>3. h[0] = first /\ h[k + 1] = body[g[k]] /\ \A i \in 0..k : h[i] = g[i]
    BY <2>1 DEF Rounds
  <2>4. \A i \in 0..k : h[i + 1] = body[h[i]]
    <3> HIDE DEF h
    <3> TAKE i \in 0..k
    <3>1. CASE i = k
      BY Zenon, <2>3, <3>1
    <3>2. CASE i # k
      <4>1. i \in 0..(k - 1) /\ i + 1 \in 0..k
        BY <3>2
      <4> QED
        BY Zenon, <4>1, <2>1, <2>3 DEF Rounds
    <3> QED
      BY Zenon, <3>1, <3>2
  <2>5. (k + 1) - 1 = k /\ k + 1 \in Nat
    OBVIOUS
  <2>6. Rounds(S, first, body, k + 1, h)
    <3> HIDE DEF h
    <3> QED
      BY Zenon, <2>2, <2>3, <2>4, <2>5 DEF Rounds
  <2> QED
    BY Zenon, <2>5, <2>6
<1> HIDE DEF T
<1>3. Nat \subseteq T
  BY <1>1, <1>2, Induction, Zenon
<1> QED
  BY Zenon, <1>3 DEF T

\* Two runs of a loop agree on the rounds both have run.
LEMMA RoundsAgree ==
    ASSUME NEW S, NEW first, NEW body, NEW n \in Nat, NEW m \in Nat, NEW g, NEW h, n <= m,
           Rounds(S, first, body, n, g), Rounds(S, first, body, m, h)
    PROVE  \A i \in 0..n : g[i] = h[i]
<1> DEFINE T == {i \in Nat : i <= n => g[i] = h[i]}
<1>1. 0 \in T
  BY Zenon DEF Rounds
<1>2. ASSUME NEW i \in Nat, i \in T PROVE i + 1 \in T
  <2> SUFFICES ASSUME i + 1 <= n PROVE g[i + 1] = h[i + 1]
    OBVIOUS
  <2>1. i <= n /\ i \in 0..(n - 1) /\ i \in 0..(m - 1)
    OBVIOUS
  <2> QED
    BY Zenon, <1>2, <2>1 DEF Rounds
<1> HIDE DEF T
<1>3. Nat \subseteq T
  BY <1>1, <1>2, Induction, Zenon
<1> QED
  BY <1>3 DEF T

\* A loop's value after n + 1 rounds is its body's, at the value after n.
Runs(L, S, first, body) == L \in [Nat -> S] /\ L[0] = first /\ \A n \in Nat : L[n + 1] = body[L[n]]

\* A loop whose body stays in a set runs in it.
LEMMA LoopStays ==
    ASSUME NEW S, NEW first \in S, NEW body, \A x \in S : body[x] \in S
    PROVE  Runs(Loop(first, body), S, first, body)
<1> DEFINE G(n) == CHOOSE g : Rounds(S, first, body, n, g)
           F == [n \in Nat |-> G(n)[n]]
           Is(f) == f = [n \in Nat |-> IF n = 0 THEN first ELSE body[f[n - 1]]]
<1>1. \A n \in Nat : Rounds(S, first, body, n, G(n))
  <2> TAKE n \in Nat
  <2>1. \E g : Rounds(S, first, body, n, g)
    BY RoundsExist, Zenon
  <2> QED
    BY <2>1, Zenon
<1> HIDE DEF G
<1>2. \A n \in Nat : F[n + 1] = body[F[n]]
  <2> TAKE n \in Nat
  <2>1. n <= n + 1 /\ n + 1 \in Nat /\ n \in 0..n /\ n \in 0..((n + 1) - 1)
    OBVIOUS
  <2>2. Rounds(S, first, body, n, G(n)) /\ Rounds(S, first, body, n + 1, G(n + 1))
    BY Zenon, <1>1, <2>1
  <2>3. \A i \in 0..n : G(n)[i] = G(n + 1)[i]
    BY <2>1, <2>2, RoundsAgree
  <2>4. G(n + 1)[n + 1] = body[G(n + 1)[n]]
    BY Zenon, <2>1, <2>2 DEF Rounds
  <2> QED
    BY Zenon, <2>1, <2>3, <2>4
<1>3. F[0] = first /\ F \in [Nat -> S]
  BY Zenon, <1>1 DEF Rounds
<1> HIDE DEF F
<1>4. Is(F)
  <2>1. \A n \in Nat : F[n] = IF n = 0 THEN first ELSE body[F[n - 1]]
    <3> TAKE n \in Nat
    <3>1. CASE n = 0
      BY Zenon, <3>1, <1>3
    <3>2. CASE n # 0
      <4>1. n - 1 \in Nat /\ (n - 1) + 1 = n
        BY <3>2
      <4> QED
        BY Zenon, <4>1, <1>2, <3>2
    <3> QED
      BY Zenon, <3>1, <3>2
  <2> QED
    BY Zenon, <2>1, <1>3
<1>5. Is(Loop(first, body))
  <2>1. Loop(first, body) = CHOOSE f : Is(f)
    BY Zenon DEF Loop
  <2> HIDE DEF Is
  <2> QED
    BY <1>4, <2>1, Zenon
<1> DEFINE L == Loop(first, body)
<1>6. L = [n \in Nat |-> IF n = 0 THEN first ELSE body[L[n - 1]]]
  BY Zenon, <1>5
<1> HIDE DEF L
<1>7. L[0] = first /\ \A n \in Nat : L[n + 1] = body[L[n]]
  <2>1. \A n \in Nat : L[n] = IF n = 0 THEN first ELSE body[L[n - 1]]
    BY Zenon, <1>6
  <2>2. L[0] = first
    BY Zenon, <2>1
  <2>3. \A n \in Nat : n + 1 \in Nat /\ n + 1 # 0 /\ (n + 1) - 1 = n
    OBVIOUS
  <2> QED
    BY Zenon, <2>1, <2>2, <2>3
<1>8. \A n \in Nat : L[n] \in S
  <2> DEFINE T == {n \in Nat : L[n] \in S}
  <2>1. 0 \in T /\ \A n \in Nat : n \in T => n + 1 \in T
    BY <1>7
  <2> HIDE DEF T
  <2>2. Nat \subseteq T
    BY <2>1, Induction, Zenon
  <2> QED
    BY Zenon, <2>2 DEF T
<1>9. L \in [Nat -> S]
  BY Zenon, <1>6, <1>8
<1> QED
  BY <1>7, <1>9, Zenon DEF L, Runs

-----------------------------------------------------------------------------
\* Sequences are their elements.
LEMMA SameSequence ==
    ASSUME NEW S, NEW a \in Seq(S), NEW b \in Seq(S), Len(a) = Len(b), \A i \in 1..Len(a) : a[i] = b[i]
    PROVE  a = b
OBVIOUS

\* What is left of a sequence from a place on, and what was there before it.
LEMMA Suffix ==
    ASSUME NEW S, NEW q \in Seq(S), NEW n \in 0..Len(q)
    PROVE  /\ SubSeq(q, n + 1, Len(q)) \in Seq(S)
           /\ Len(SubSeq(q, n + 1, Len(q))) = Len(q) - n
           /\ \A i \in 1..(Len(q) - n) : SubSeq(q, n + 1, Len(q))[i] = q[n + i]
OBVIOUS

\* The start of a sequence.
LEMMA Prefix ==
    ASSUME NEW S, NEW q \in Seq(S), NEW n \in 0..Len(q)
    PROVE  /\ SubSeq(q, 1, n) \in Seq(S) /\ Len(SubSeq(q, 1, n)) = n
           /\ \A i \in 1..n : SubSeq(q, 1, n)[i] = q[i]
OBVIOUS

-----------------------------------------------------------------------------
\* The frames on the socket.

\* The bytes of a frame, and where a byte that is on the way is: in the
\* buffer b, or still in the stream t.
Size(f) == kFrameHeaderBytes + f.len
ByteAt(b, t, g) == IF g <= Len(b) THEN b[g] ELSE t[g - Len(b)]

\* The bytes on the way are the frames of s after the first n, one after
\* another: frame k has those after the first off[k].
Laid(s, n, b, t, off) ==
    /\ off \in [Nat -> Nat] /\ off[n + 1] = 0 /\ off[Len(s) + 1] = Len(b) + Len(t)
    /\ \A k \in (n + 1)..Len(s) : off[k + 1] = off[k] + Size(s[k])
    /\ \A k, j \in (n + 1)..(Len(s) + 1) : k <= j => off[k] <= off[j]
    /\ \A k \in (n + 1)..Len(s) : \A at \in 1..Size(s[k]) : ByteAt(b, t, off[k] + at) = [frame |-> k, at |-> at]
    /\ \A g \in 1..(Len(b) + Len(t)) : \E k \in (n + 1)..Len(s) : \E at \in 1..Size(s[k]) : g = off[k] + at

\* The descriptors at hand are those of the frames whose first byte is among
\* the got bytes received, one frame after another: those of frame k come
\* after the first st[k].
Got(s, off, got, k) == IF off[k] < got THEN s[k].fds ELSE 0
Handed(s, n, off, got, fds, st) ==
    /\ st \in [Nat -> Nat] /\ st[n + 1] = 0
    /\ \A k \in (n + 1)..Len(s) : st[k + 1] = st[k] + Got(s, off, got, k)
    /\ \A k, j \in (n + 1)..(Len(s) + 1) : k <= j => st[k] <= st[j]
    /\ \A k \in (n + 1)..Len(s) : off[k] < got => \A j \in 1..s[k].fds : fds[st[k] + j] = k
    /\ \A k \in (n + 1)..(Len(s) + 1) : off[k] >= got => st[k] = Len(fds)

\* A receiver that is in order, with the stream before it.
InStep(s, r, t, off, st) ==
    /\ Len(r.frames) <= Len(s)
    /\ Laid(s, Len(r.frames), r.buffer, t, off)
    /\ Handed(s, Len(r.frames), off, Len(r.buffer), r.fds, st)
    /\ r.mode = "blocking" /\ r.buffer # <<>> => Len(r.buffer) <= Size(s[Len(r.frames) + 1])

\* Frames within the limits, and the ones handed on.
Legal(s) == s \in Seq(Frame) /\ \A k \in 1..Len(s) : ~Refused(s[k])
IsFrame(x, s, i) ==
    /\ x.body = SubSeq(encodeFrame(i, s[i]), kFrameHeaderBytes + 1, kFrameHeaderBytes + s[i].len)
    /\ x.fds = [j \in 1..s[i].fds |-> i]
Arrived(s, r) == \A i \in 1..Len(r.frames) : i <= Len(s) /\ IsFrame(r.frames[i], s, i)

Sound(s, r, t) ==
    /\ r \in Receivers /\ r.status = "Ok" /\ Arrived(s, r)
    /\ \E off, st : InStep(s, r, t, off, st)

FrameInv ==
    /\ Legal(sent) /\ stream \in Seq(Byte) /\ rx \in Receivers
    /\ Arrived(sent, rx)
    /\ rx.status = "Ok" => Sound(sent, rx, stream)
    /\ ~pipelined => Len(sent) <= Len(rx.frames) + 1
    /\ OnlyABacklogIsRefused
    /\ rx.status = "PeerClosed" => peer = "closed" /\ Len(rx.frames) = Len(sent)

-----------------------------------------------------------------------------
\* Numbers of a legal frame.
LEMMA LegalNumbers ==
    ASSUME NEW s, Legal(s), NEW k \in 1..Len(s)
    PROVE  /\ s[k] \in Frame /\ s[k].len \in 0..kMaxFrameBytes /\ s[k].fds \in 0..kMaxFrameFds
           /\ Size(s[k]) \in Nat \ {0} /\ Size(s[k]) >= kFrameHeaderBytes
<1>1. s[k] \in Frame /\ ~Refused(s[k])
  BY DEF Legal
<1> DEFINE f == s[k]
<1> HIDE DEF f
<1>2. f.len \in 0..(kMaxFrameBytes + 1) /\ f.fds \in 0..(kMaxFrameFds + 1)
  BY <1>1 DEF f, Frame
<1>3. f.len \in 0..kMaxFrameBytes /\ f.fds \in 0..kMaxFrameFds
  BY <1>1, <1>2, FramingAssumption DEF f, Refused
<1> QED
  BY <1>1, <1>3, FramingAssumption DEF f, Size

\* One sequence after another.
LEMMA Joined ==
    ASSUME NEW S, NEW x \in Seq(S), NEW y \in Seq(S)
    PROVE  /\ x \o y \in Seq(S) /\ Len(x \o y) = Len(x) + Len(y)
           /\ \A i \in 1..(Len(x) + Len(y)) : (x \o y)[i] = IF i <= Len(x) THEN x[i] ELSE y[i - Len(x)]
OBVIOUS

\* Bytes that are read are where they were.
LEMMA ReadingMoves ==
    ASSUME NEW b \in Seq(Byte), NEW t \in Seq(Byte), NEW k \in 0..Len(t)
    PROVE  LET c == b \o SubSeq(t, 1, k)
               u == SubSeq(t, k + 1, Len(t))
           IN  /\ c \in Seq(Byte) /\ u \in Seq(Byte) /\ Len(c) = Len(b) + k /\ Len(c) + Len(u) = Len(b) + Len(t)
               /\ \A g \in 1..(Len(b) + Len(t)) : ByteAt(c, u, g) = ByteAt(b, t, g)
<1> DEFINE p == SubSeq(t, 1, k)
           c == b \o p
           u == SubSeq(t, k + 1, Len(t))
<1>1. p \in Seq(Byte) /\ Len(p) = k /\ \A i \in 1..k : p[i] = t[i]
  BY Prefix
<1>2. u \in Seq(Byte) /\ Len(u) = Len(t) - k /\ \A i \in 1..(Len(t) - k) : u[i] = t[k + i]
  BY Suffix
<1> HIDE DEF p, u
<1>3. /\ c \in Seq(Byte) /\ Len(c) = Len(b) + k
      /\ \A g \in 1..(Len(b) + k) : c[g] = IF g <= Len(b) THEN b[g] ELSE p[g - Len(b)]
  BY <1>1, Joined, Zenon
<1> HIDE DEF c
<1>4. ASSUME NEW g \in 1..(Len(b) + Len(t)) PROVE ByteAt(c, u, g) = ByteAt(b, t, g)
  <2>0. Len(b) \in Nat /\ Len(t) \in Nat
    OBVIOUS
  <2>1. CASE g <= Len(b)
    BY <1>3, <2>0, <2>1 DEF ByteAt
  <2>2. CASE g > Len(b) /\ g <= Len(b) + k
    <3>1. g - Len(b) \in 1..k /\ g \in 1..(Len(b) + k) /\ ~(g <= Len(b))
      BY <2>0, <2>2
    <3>2. c[g] = t[g - Len(b)]
      BY <1>1, <1>3, <3>1
    <3> QED
      BY <1>3, <2>2, <3>1, <3>2 DEF ByteAt
  <2>3. CASE g > Len(b) + k
    <3>1. g - (Len(b) + k) \in 1..(Len(t) - k) /\ k + (g - (Len(b) + k)) = g - Len(b) /\ ~(g <= Len(b)) /\ ~(g <= Len(b) + k)
      BY <2>0, <2>3
    <3>2. u[g - (Len(b) + k)] = t[g - Len(b)]
      BY <1>2, <3>1
    <3> QED
      BY <1>3, <3>1, <3>2 DEF ByteAt
  <2> QED
    BY <2>0, <2>1, <2>2, <2>3
<1>5. Len(c) + Len(u) = Len(b) + Len(t)
  BY <1>2, <1>3
<1> QED
  BY <1>2, <1>3, <1>4, <1>5 DEF c, u, p

\* What is sent comes after what is on the way.
After(b, t, e, u) ==
    /\ u \in Seq(Byte) /\ Len(u) = Len(t) + Len(e)
    /\ \A g \in 1..(Len(b) + Len(t)) : ByteAt(b, u, g) = ByteAt(b, t, g)
    /\ \A i \in 1..Len(e) : ByteAt(b, u, (Len(b) + Len(t)) + i) = e[i]
\* What is sent comes after what is on the way.
LEMMA SendingAdds ==
    ASSUME NEW b \in Seq(Byte), NEW t \in Seq(Byte), NEW e \in Seq(Byte)
    PROVE  After(b, t, e, t \o e)
<1> DEFINE u == t \o e
<1>0. Len(b) \in Nat /\ Len(t) \in Nat /\ Len(e) \in Nat
  OBVIOUS
<1>1. /\ u \in Seq(Byte) /\ Len(u) = Len(t) + Len(e)
      /\ \A g \in 1..(Len(t) + Len(e)) : u[g] = IF g <= Len(t) THEN t[g] ELSE e[g - Len(t)]
  OBVIOUS
<1> HIDE DEF u
<1>2. ASSUME NEW g \in 1..(Len(b) + Len(t)) PROVE ByteAt(b, u, g) = ByteAt(b, t, g)
  <2>1. CASE g <= Len(b)
    BY <2>1 DEF ByteAt
  <2>2. CASE ~(g <= Len(b))
    <3>1. g - Len(b) \in 1..(Len(t) + Len(e)) /\ g - Len(b) <= Len(t)
      BY <1>0, <2>2
    <3> QED
      BY <1>1, <2>2, <3>1 DEF ByteAt
  <2> QED
    BY <2>1, <2>2
<1>3. ASSUME NEW i \in 1..Len(e) PROVE ByteAt(b, u, (Len(b) + Len(t)) + i) = e[i]
  <2> DEFINE g == (Len(b) + Len(t)) + i
  <2>1. ~(g <= Len(b)) /\ g - Len(b) \in 1..(Len(t) + Len(e)) /\ ~(g - Len(b) <= Len(t)) /\ (g - Len(b)) - Len(t) = i
    BY <1>0
  <2> HIDE DEF g
  <2>2. ByteAt(b, u, g) = e[i]
    BY <1>1, <2>1 DEF ByteAt
  <2> QED
    BY <2>2 DEF g
<1> QED
  BY <1>1, <1>2, <1>3, Zenon DEF u, After

\* A frame as it is sent.
LEMMA EncodedIs ==
    ASSUME NEW i \in Nat, NEW f, f.len \in Nat
    PROVE  /\ encodeFrame(i, f) \in Seq(Byte) /\ Len(encodeFrame(i, f)) = Size(f)
           /\ \A at \in 1..Size(f) : encodeFrame(i, f)[at] = [frame |-> i, at |-> at]
<1>1. Size(f) \in Nat /\ encodeFrame(i, f) = [at \in 1..Size(f) |-> [frame |-> i, at |-> at]]
  BY FramingAssumption DEF Size, encodeFrame
<1>2. \A at \in 1..Size(f) : [frame |-> i, at |-> at] \in Byte
  BY <1>1 DEF Byte
<1> QED
  BY <1>1, <1>2

\* A place within a piece that ends by z.
LEMMA Within ==
    ASSUME NEW o \in Nat, NEW x \in Nat, NEW at \in 1..x, NEW z \in Nat, o + x <= z
    PROVE  o + at \in 1..z /\ o + at <= z
OBVIOUS

\* A read returns at least one byte.
LEMMA Piece == ASSUME NEW x \in Nat, NEW at \in 1..x PROVE at \in Nat /\ at > 0
OBVIOUS

\* A frame that is sent joins the ones on the way.
LEMMA SendLaid ==
    ASSUME NEW s, Legal(s), NEW f \in Frame, ~Refused(f), NEW n \in 0..Len(s),
           NEW b \in Seq(Byte), NEW t \in Seq(Byte), NEW off, Laid(s, n, b, t, off)
    PROVE  Laid(Append(s, f), n, b, t \o encodeFrame(Len(s) + 1, f),
                [off EXCEPT ![Len(s) + 2] = (Len(b) + Len(t)) + Size(f)])
<1> DEFINE m == Len(s)
           z == Len(b) + Len(t)
           e == encodeFrame(m + 1, f)
           w == Append(s, f)
           h == [off EXCEPT ![m + 2] = z + Size(f)]
           u == t \o e
<1>0. m \in Nat /\ n \in Nat /\ n <= m /\ s \in Seq(Frame) /\ z \in Nat
  BY DEF Legal
<1>1. w \in Seq(Frame) /\ Len(w) = m + 1 /\ w[m + 1] = f /\ \A k \in 1..m : w[k] = s[k]
  BY <1>0
<1>2. f.len \in Nat /\ Size(f) \in Nat \ {0}
  BY FramingAssumption DEF Frame, Size
<1>3. e \in Seq(Byte) /\ Len(e) = Size(f) /\ \A at \in 1..Size(f) : e[at] = [frame |-> m + 1, at |-> at]
  <2> HIDE DEF m
  <2> QED
    BY <1>0, <1>2, EncodedIs
<1> HIDE DEF e
<1>4. /\ u \in Seq(Byte) /\ Len(b) + Len(u) = z + Size(f)
      /\ \A g \in 1..z : ByteAt(b, u, g) = ByteAt(b, t, g)
      /\ \A i \in 1..Size(f) : ByteAt(b, u, z + i) = e[i]
  <2>1. Len(b) \in Nat /\ Len(t) \in Nat
    OBVIOUS
  <2>2. /\ u \in Seq(Byte) /\ Len(u) = Len(t) + Len(e)
        /\ \A g \in 1..(Len(b) + Len(t)) : ByteAt(b, u, g) = ByteAt(b, t, g)
        /\ \A i \in 1..Len(e) : ByteAt(b, u, (Len(b) + Len(t)) + i) = e[i]
    <3> HIDE DEF z
    <3>1. After(b, t, e, u)
      BY <1>3, SendingAdds, Zenon
    <3> HIDE DEF u
    <3> QED
      BY <3>1, Zenon DEF After
  <2> HIDE DEF u
  <2> QED
    BY <1>2, <1>3, <2>1, <2>2
<1>5. off \in [Nat -> Nat] /\ off[m + 1] = z /\ off[n + 1] = 0
  BY Zenon DEF Laid
<1>6. /\ \A k \in (n + 1)..m : off[k + 1] = off[k] + Size(s[k])
      /\ \A k, j \in (n + 1)..(m + 1) : k <= j => off[k] <= off[j]
      /\ \A k \in (n + 1)..m : \A at \in 1..Size(s[k]) : ByteAt(b, t, off[k] + at) = [frame |-> k, at |-> at]
      /\ \A g \in 1..z : \E k \in (n + 1)..m : \E at \in 1..Size(s[k]) : g = off[k] + at
  BY Zenon DEF Laid
<1>9. \A k \in (n + 1)..m : Size(s[k]) \in Nat \ {0}
  BY <1>0, LegalNumbers
<1> HIDE DEF m, z, u
<1>7. h \in [Nat -> Nat] /\ h[m + 2] = z + Size(f) /\ \A k \in 0..(m + 1) : h[k] = off[k]
  <2> DEFINE y == z + Size(f)
  <2>1. y \in Nat /\ m + 2 \in Nat
    BY <1>0, <1>2
  <2> HIDE DEF y
  <2>2. h = [off EXCEPT ![m + 2] = y]
    BY DEF y
  <2> HIDE DEF h
  <2>3. h \in [Nat -> Nat] /\ h[m + 2] = y
    BY <1>5, <2>1, <2>2
  <2>4. \A k \in 0..(m + 1) : k \in Nat /\ k # m + 2
    BY <1>0
  <2>5. \A k \in 0..(m + 1) : h[k] = off[k]
    BY <1>5, <2>2, <2>4
  <2> QED
    BY <2>3, <2>5 DEF y
<1>8. (m + 1) + 1 = m + 2
  BY <1>0
<1> HIDE DEF h, w
<1>10. ASSUME NEW k \in (n + 1)..(m + 1) PROVE h[k + 1] = h[k] + Size(w[k])
  <2>1. CASE k = m + 1
    <3>1. m + 1 \in 0..(m + 1)
      BY <1>0
    <3>2. h[m + 1] = z /\ h[(m + 1) + 1] = z + Size(f) /\ w[m + 1] = f
      BY <1>1, <1>5, <1>7, <1>8, <3>1, Zenon
    <3> QED
      BY <2>1, <3>2, Zenon
  <2>2. CASE k # m + 1
    <3>1. k \in (n + 1)..m /\ k \in 1..m /\ k \in 0..(m + 1) /\ k + 1 \in 0..(m + 1)
      BY <1>0, <2>2
    <3> QED
      BY <1>1, <1>6, <1>7, <3>1
  <2> QED
    BY <2>1, <2>2
<1>11. ASSUME NEW k \in (n + 1)..(m + 2), NEW j \in (n + 1)..(m + 2), k <= j PROVE h[k] <= h[j]
  <2>1. CASE j <= m + 1
    <3>1. k \in (n + 1)..(m + 1) /\ j \in (n + 1)..(m + 1) /\ k \in 0..(m + 1) /\ j \in 0..(m + 1)
      BY <1>0, <1>11, <2>1
    <3> QED
      BY <1>6, <1>7, <1>11, <3>1
  <2>2. CASE j = m + 2 /\ k <= m + 1
    <3>1. k \in (n + 1)..(m + 1) /\ m + 1 \in (n + 1)..(m + 1) /\ k \in 0..(m + 1) /\ k \in Nat
      BY <1>0, <2>2
    <3>2. h[k] = off[k] /\ h[j] = z + Size(f)
      BY <1>7, <2>2, <3>1, Zenon
    <3>3. off[k] <= off[m + 1]
      BY <1>6, <2>2, <3>1, Zenon
    <3>4. off[k] \in Nat /\ off[m + 1] = z
      BY <1>5, <3>1
    <3> QED
      BY <1>0, <1>2, <3>2, <3>3, <3>4
  <2>3. CASE j = m + 2 /\ k = m + 2
    BY <1>0, <1>2, <1>5, <1>7, <2>3
  <2> QED
    BY <1>0, <1>11, <2>1, <2>2, <2>3
<1>12. ASSUME NEW k \in (n + 1)..(m + 1), NEW at \in 1..Size(w[k])
       PROVE  ByteAt(b, u, h[k] + at) = [frame |-> k, at |-> at]
  <2>1. CASE k = m + 1
    <3>1. h[k] = z /\ at \in 1..Size(f)
      BY <1>0, <1>1, <1>5, <1>7, <2>1
    <3> QED
      BY <1>3, <1>4, <2>1, <3>1
  <2>2. CASE k # m + 1
    <3>1. k \in (n + 1)..m /\ k \in 1..m /\ k \in 0..(m + 1) /\ k + 1 \in (n + 1)..(m + 1) /\ m + 1 \in (n + 1)..(m + 1) /\ k + 1 <= m + 1
      BY <1>0, <2>2
    <3>2. h[k] = off[k] /\ at \in 1..Size(s[k]) /\ Size(s[k]) \in Nat
      BY <1>1, <1>7, <1>9, <3>1, Zenon
    <3>3. off[k + 1] = off[k] + Size(s[k]) /\ off[k + 1] <= off[m + 1] /\ off[m + 1] = z
      BY <1>5, <1>6, <3>1, Zenon
    <3>4. off[k] \in Nat
      BY <1>0, <1>5
    <3>5. off[k] + at \in 1..z
      <4>1. off[k] + Size(s[k]) <= z
        BY <3>3, Zenon
      <4> QED
        BY <1>0, <3>2, <3>4, <4>1, Within, Zenon
    <3> QED
      BY <1>4, <1>6, <3>1, <3>2, <3>5
  <2> QED
    BY <2>1, <2>2
<1>13. ASSUME NEW g \in 1..(z + Size(f))
       PROVE  \E k \in (n + 1)..(m + 1) : \E at \in 1..Size(w[k]) : g = h[k] + at
  <2>1. CASE g <= z
    <3>1. g \in 1..z
      BY <1>0, <1>2, <1>5, <2>1
    <3>2. PICK k \in (n + 1)..m : \E at \in 1..Size(s[k]) : g = off[k] + at
      BY <1>6, <3>1
    <3>3. k \in (n + 1)..(m + 1) /\ k \in 1..m /\ k \in 0..(m + 1)
      BY <1>0
    <3> QED
      BY <1>1, <1>7, <3>2, <3>3
  <2>2. CASE g > z
    <3>1. m + 1 \in (n + 1)..(m + 1) /\ m + 1 \in 0..(m + 1) /\ g - z \in 1..Size(f) /\ g = z + (g - z)
      BY <1>0, <1>2, <2>2
    <3>2. h[m + 1] = z /\ w[m + 1] = f
      BY <1>1, <1>5, <1>7, <3>1
    <3> QED
      BY <3>1, <3>2
  <2> QED
    BY <1>0, <1>2, <1>5, <2>1, <2>2
<1>14. h[n + 1] = 0
  BY <1>0, <1>5, <1>7
<1>15. Laid(w, n, b, u, h)
  <2>1. h[Len(w) + 1] = Len(b) + Len(u)
    BY <1>1, <1>4, <1>7, <1>8
  <2>2. /\ \A k, j \in (n + 1)..(Len(w) + 1) : k <= j => h[k] <= h[j]
        /\ \A k \in (n + 1)..Len(w) : h[k + 1] = h[k] + Size(w[k])
    BY <1>1, <1>8, <1>10, <1>11
  <2>3. \A k \in (n + 1)..Len(w) : \A at \in 1..Size(w[k]) : ByteAt(b, u, h[k] + at) = [frame |-> k, at |-> at]
    BY <1>1, <1>12
  <2>4. \A g \in 1..(Len(b) + Len(u)) : \E k \in (n + 1)..Len(w) : \E at \in 1..Size(w[k]) : g = h[k] + at
    BY <1>1, <1>4, <1>13
  <2> QED
    BY <1>7, <1>14, <2>1, <2>2, <2>3, <2>4, Zenon DEF Laid
<1> QED
  BY <1>15, Zenon DEF h, u, w, z, e, m

\* Numbers are on one side.
LEMMA OneSide == ASSUME NEW x \in Nat, NEW y \in Nat PROVE (x >= y) = ~(x < y)
OBVIOUS

\* The numbers of frames sent and handed on.
LEMMA Lengths ==
    ASSUME NEW s, Legal(s), NEW n \in 0..Len(s)
    PROVE  Len(s) \in Nat /\ n \in Nat /\ n <= Len(s)
BY DEF Legal

\* A function changed at one place.
ChangedAt(h, g, i, x) == h \in [Nat -> Nat] /\ h[i] = x /\ \A k \in Nat : k # i => h[k] = g[k]
\* A function changed at one place.
LEMMA Changed ==
    ASSUME NEW g \in [Nat -> Nat], NEW i \in Nat, NEW x \in Nat, NEW h, h = [g EXCEPT ![i] = x]
    PROVE  ChangedAt(h, g, i, x)
BY DEF ChangedAt

\* ... and has handed no descriptor over yet.
LEMMA SendHanded ==
    ASSUME NEW s, Legal(s), NEW f, NEW n \in 0..Len(s), NEW off, NEW got \in Nat, NEW fds \in Seq(Nat), NEW st,
           Handed(s, n, off, got, fds, st), off[Len(s) + 1] >= got,
           NEW h, \A k \in 0..(Len(s) + 1) : h[k] = off[k], h[Len(s) + 2] >= got, h \in [Nat -> Nat]
    PROVE  Handed(Append(s, f), n, h, got, fds, [st EXCEPT ![Len(s) + 2] = Len(fds)])
<1> DEFINE m == Len(s)
           l == Len(fds)
           w == Append(s, f)
           v == [st EXCEPT ![m + 2] = l]
<1>0. m \in Nat /\ n \in Nat /\ n <= m
  BY Lengths, Zenon
<1>17. l \in Nat /\ m + 2 \in Nat
  <2> HIDE DEF m
  <2> QED
    BY <1>0
<1>1. Len(w) = m + 1 /\ \A k \in 1..m : w[k] = s[k]
  BY DEF Legal
<1>2. st \in [Nat -> Nat] /\ st[n + 1] = 0
  BY Zenon DEF Handed
<1>3. /\ \A k \in (n + 1)..m : st[k + 1] = st[k] + Got(s, off, got, k)
      /\ \A k, j \in (n + 1)..(m + 1) : k <= j => st[k] <= st[j]
      /\ \A k \in (n + 1)..m : off[k] < got => \A j \in 1..s[k].fds : fds[st[k] + j] = k
      /\ \A k \in (n + 1)..(m + 1) : off[k] >= got => st[k] = l
  BY Zenon DEF Handed
<1>4. off[m + 1] >= got /\ h[m + 2] >= got /\ \A k \in 0..(m + 1) : h[k] = off[k]
  OBVIOUS
<1> HIDE DEF m, l, w
<1>5. v \in [Nat -> Nat] /\ v[m + 2] = l /\ \A k \in Nat : k # m + 2 => v[k] = st[k]
  <2>1. v = [st EXCEPT ![m + 2] = l]
    BY Zenon
  <2> HIDE DEF v
  <2>2. ChangedAt(v, st, m + 2, l)
    BY <1>2, <1>17, <2>1, Changed, Zenon
  <2> QED
    BY <2>2, Zenon DEF ChangedAt
<1>6. \A k \in 0..(m + 1) : v[k] = st[k]
  <2>1. \A k \in 0..(m + 1) : k \in Nat /\ k # m + 2
    BY <1>0
  <2> QED
    BY <1>5, <2>1, Zenon
<1>7. m + 1 \in (n + 1)..(m + 1) /\ m + 1 \in 0..(m + 1) /\ (m + 1) + 1 = m + 2 /\ n + 1 \in 0..(m + 1)
  BY <1>0
<1>8. v[m + 1] = l /\ v[n + 1] = 0 /\ h[m + 1] = off[m + 1]
  BY <1>2, <1>3, <1>4, <1>6, <1>7, Zenon
<1> HIDE DEF v
<1>9. ASSUME NEW k \in (n + 1)..m PROVE k \in (n + 1)..(m + 1) /\ k \in 1..m /\ k \in 0..(m + 1) /\ k + 1 \in 0..(m + 1)
  BY <1>0
<1>10. ASSUME NEW k \in (n + 1)..m PROVE Got(w, h, got, k) = Got(s, off, got, k) /\ h[k] = off[k] /\ w[k] = s[k]
  BY <1>1, <1>4, <1>9, Zenon DEF Got
<1>11. Got(w, h, got, m + 1) = 0
  <2>1. h[m + 1] >= got /\ m + 1 \in Nat
    BY <1>0, <1>4, <1>8
  <2>2. h[m + 1] \in Nat
    BY <2>1
  <2>3. ~(h[m + 1] < got)
    BY <2>1, <2>2, OneSide, Zenon
  <2> QED
    BY <2>3, Zenon DEF Got
<1>12. ASSUME NEW k \in (n + 1)..(m + 1) PROVE v[k + 1] = v[k] + Got(w, h, got, k)
  <2>1. CASE k = m + 1
    <3>1. l = l + 0
      BY <1>17
    <3> QED
      BY <1>5, <1>7, <1>8, <1>11, <2>1, <3>1, Zenon
  <2>2. CASE k # m + 1
    <3>1. k \in (n + 1)..m
      BY <1>0, <2>2
    <3> QED
      BY <1>3, <1>6, <1>9, <1>10, <3>1, Zenon
  <2> QED
    BY <2>1, <2>2
<1>13. ASSUME NEW k \in (n + 1)..(m + 2), NEW j \in (n + 1)..(m + 2), k <= j PROVE v[k] <= v[j]
  <2>1. CASE j <= m + 1
    <3>1. k \in (n + 1)..(m + 1) /\ j \in (n + 1)..(m + 1) /\ k \in 0..(m + 1) /\ j \in 0..(m + 1)
      BY <1>0, <1>13, <2>1
    <3>2. st[k] <= st[j] /\ v[k] = st[k] /\ v[j] = st[j]
      BY <1>3, <1>6, <1>13, <3>1, Zenon
    <3> QED
      BY <3>2, Zenon
  <2>2. CASE j = m + 2 /\ k <= m + 1
    <3>1. k \in (n + 1)..(m + 1) /\ k \in 0..(m + 1) /\ k <= m + 1
      BY <1>0, <2>2
    <3>2. v[k] <= v[m + 1]
      BY <1>3, <1>6, <1>7, <3>1, Zenon
    <3> QED
      BY <1>5, <1>8, <2>2, <3>2, Zenon
  <2>3. CASE j = m + 2 /\ k = m + 2
    <3>1. l <= l
      BY <1>17
    <3> QED
      BY <1>5, <2>3, <3>1, Zenon
  <2> QED
    BY <1>0, <1>13, <2>1, <2>2, <2>3
<1>14. ASSUME NEW k \in (n + 1)..(m + 1), h[k] < got, NEW j \in 1..w[k].fds PROVE fds[v[k] + j] = k
  <2>1. CASE k = m + 1
    <3>1. m + 1 \in Nat
      BY <1>0
    <3>2. h[m + 1] \in Nat
      BY <3>1
    <3> QED
      BY <1>4, <1>8, <1>14, <2>1, <3>2, OneSide, Zenon
  <2>2. CASE k # m + 1
    <3>1. k \in (n + 1)..m
      BY <1>0, <2>2
    <3>2. off[k] < got /\ j \in 1..s[k].fds /\ v[k] = st[k]
      BY <1>6, <1>9, <1>10, <1>14, <3>1, Zenon
    <3> QED
      BY <1>3, <3>1, <3>2, Zenon
  <2> QED
    BY <2>1, <2>2
<1>15. ASSUME NEW k \in (n + 1)..(m + 2), h[k] >= got PROVE v[k] = l
  <2>1. CASE k = m + 2
    BY <1>5, <2>1
  <2>2. CASE k # m + 2
    <3>1. k \in (n + 1)..(m + 1) /\ k \in 0..(m + 1)
      BY <1>0, <2>2
    <3> QED
      BY <1>3, <1>4, <1>6, <1>15, <3>1, Zenon
  <2> QED
    BY <2>1, <2>2
<1>16. Handed(w, n, h, got, fds, v)
  <2>1. /\ \A k, j \in (n + 1)..(Len(w) + 1) : k <= j => v[k] <= v[j]
        /\ \A k \in (n + 1)..(Len(w) + 1) : h[k] >= got => v[k] = l
    BY <1>1, <1>7, <1>13, <1>15
  <2>2. /\ \A k \in (n + 1)..Len(w) : v[k + 1] = v[k] + Got(w, h, got, k)
        /\ \A k \in (n + 1)..Len(w) : h[k] < got => \A j \in 1..w[k].fds : fds[v[k] + j] = k
    BY <1>1, <1>12, <1>14, Zenon
  <2> QED
    BY <1>5, <1>8, <2>1, <2>2, Zenon DEF Handed, l
<1> QED
  BY <1>16, Zenon DEF v, w, m, l

\* Reading moves nothing.
LEMMA ReadLaid ==
    ASSUME NEW s, NEW n, NEW b \in Seq(Byte), NEW t \in Seq(Byte), NEW off, NEW c, NEW u, Legal(s), n \in 0..Len(s),
           Laid(s, n, b, t, off), Len(c) + Len(u) = Len(b) + Len(t),
           \A g \in 1..(Len(b) + Len(t)) : ByteAt(c, u, g) = ByteAt(b, t, g)
    PROVE  Laid(s, n, c, u, off)
<1> DEFINE z == Len(b) + Len(t)
           m == Len(s)
<1>0. z \in Nat /\ m \in Nat /\ n \in Nat /\ n <= m
  BY DEF Legal
<1>1. /\ off \in [Nat -> Nat] /\ off[n + 1] = 0 /\ off[m + 1] = z
      /\ \A k \in (n + 1)..m : off[k + 1] = off[k] + Size(s[k])
      /\ \A k, j \in (n + 1)..(m + 1) : k <= j => off[k] <= off[j]
      /\ \A k \in (n + 1)..m : \A at \in 1..Size(s[k]) : ByteAt(b, t, off[k] + at) = [frame |-> k, at |-> at]
      /\ \A g \in 1..z : \E k \in (n + 1)..m : \E at \in 1..Size(s[k]) : g = off[k] + at
  BY Zenon DEF Laid
<1>2. \A g \in 1..z : ByteAt(c, u, g) = ByteAt(b, t, g)
  OBVIOUS
<1>3. \A k \in (n + 1)..m : Size(s[k]) \in Nat
  BY <1>0, LegalNumbers
<1>4. z = Len(c) + Len(u)
  OBVIOUS
<1> HIDE DEF z, m
<1>5. ASSUME NEW k \in (n + 1)..m, NEW at \in 1..Size(s[k])
      PROVE  ByteAt(c, u, off[k] + at) = [frame |-> k, at |-> at]
  <2>1. k + 1 \in (n + 1)..(m + 1) /\ m + 1 \in (n + 1)..(m + 1) /\ k + 1 <= m + 1 /\ k \in Nat
    BY <1>0
  <2>2. off[k] + Size(s[k]) <= z /\ off[k] \in Nat
    BY <1>1, <2>1, Zenon
  <2>3. off[k] + at \in 1..z
    BY <1>0, <1>3, <2>2, Within, Zenon
  <2> QED
    BY <1>1, <1>2, <2>3, Zenon
<1>6. \A g \in 1..(Len(c) + Len(u)) : \E k \in (n + 1)..m : \E at \in 1..Size(s[k]) : g = off[k] + at
  BY <1>1, <1>4, Zenon
<1> QED
  BY <1>1, <1>4, <1>5, <1>6, Zenon DEF Laid, m

\* Where the frames are among the z bytes on the way.
Places(s, n, z, off) ==
    /\ off \in [Nat -> Nat] /\ off[n + 1] = 0 /\ off[Len(s) + 1] = z
    /\ \A k \in (n + 1)..Len(s) :
          /\ k \in Nat /\ k \in 1..Len(s) /\ k \in (n + 1)..(Len(s) + 1) /\ k + 1 \in (n + 1)..(Len(s) + 1)
          /\ off[k] \in Nat /\ off[k + 1] \in Nat
          /\ Size(s[k]) \in Nat \ {0} /\ s[k].fds \in 0..kMaxFrameFds
          /\ off[k + 1] = off[k] + Size(s[k]) /\ off[k + 1] <= z
    /\ \A k, j \in (n + 1)..(Len(s) + 1) : k <= j => off[k] <= off[j]

\* The frames on the way lie one after another, inside what is on the way.
LEMMA LaidFacts ==
    ASSUME NEW s, Legal(s), NEW n \in 0..Len(s), NEW b \in Seq(Byte), NEW t \in Seq(Byte), NEW off, Laid(s, n, b, t, off)
    PROVE  Places(s, n, Len(b) + Len(t), off)
<1> DEFINE m == Len(s)
           z == Len(b) + Len(t)
<1>1. m \in Nat /\ n \in Nat /\ n <= m
  BY Lengths, Zenon
<1>2. /\ off \in [Nat -> Nat] /\ off[n + 1] = 0 /\ off[m + 1] = z
      /\ \A k \in (n + 1)..m : off[k + 1] = off[k] + Size(s[k])
      /\ \A k, j \in (n + 1)..(m + 1) : k <= j => off[k] <= off[j]
  BY Zenon DEF Laid
<1>3. ASSUME NEW k \in 1..m PROVE Size(s[k]) \in Nat \ {0} /\ s[k].fds \in 0..kMaxFrameFds
  BY <1>3, LegalNumbers, Zenon
<1> HIDE DEF m, z
<1>4. ASSUME NEW k \in (n + 1)..m
      PROVE  /\ k \in Nat /\ k \in 1..m /\ k \in (n + 1)..(m + 1) /\ k + 1 \in (n + 1)..(m + 1)
             /\ off[k] \in Nat /\ off[k + 1] \in Nat
             /\ Size(s[k]) \in Nat \ {0} /\ s[k].fds \in 0..kMaxFrameFds
             /\ off[k + 1] = off[k] + Size(s[k]) /\ off[k + 1] <= z
  <2>1. /\ k \in Nat /\ k \in 1..m /\ k \in (n + 1)..(m + 1) /\ k + 1 \in (n + 1)..(m + 1)
        /\ m + 1 \in (n + 1)..(m + 1) /\ k + 1 <= m + 1 /\ k + 1 \in Nat
    BY <1>1
  <2>2. off[k] \in Nat /\ off[k + 1] \in Nat
    BY <1>2, <2>1
  <2>3. off[k + 1] <= z
    BY <1>2, <2>1, Zenon
  <2> QED
    BY <1>2, <1>3, <2>1, <2>2, <2>3, Zenon
<1> QED
  BY <1>2, <1>4, Zenon DEF m, z, Places

\* The buffer without the frame in front.
LEMMA CutMoves ==
    ASSUME NEW b \in Seq(Byte), NEW t \in Seq(Byte), NEW d \in 0..Len(b)
    PROVE  LET c == SubSeq(b, d + 1, Len(b))
           IN  /\ c \in Seq(Byte) /\ Len(c) = Len(b) - d
               /\ \A g \in 1..((Len(b) + Len(t)) - d) : ByteAt(c, t, g) = ByteAt(b, t, g + d)
<1> DEFINE c == SubSeq(b, d + 1, Len(b))
<1>0. Len(b) \in Nat /\ Len(t) \in Nat
  OBVIOUS
<1>1. c \in Seq(Byte) /\ Len(c) = Len(b) - d /\ \A i \in 1..(Len(b) - d) : c[i] = b[d + i]
  BY Suffix
<1> HIDE DEF c
<1>2. ASSUME NEW g \in 1..((Len(b) + Len(t)) - d) PROVE ByteAt(c, t, g) = ByteAt(b, t, g + d)
  <2>1. CASE g <= Len(b) - d
    <3>1. g + d <= Len(b) /\ g \in 1..(Len(b) - d) /\ d + g = g + d
      BY <1>0, <2>1
    <3> QED
      BY <1>1, <2>1, <3>1 DEF ByteAt
  <2>2. CASE ~(g <= Len(b) - d)
    <3>1. ~(g + d <= Len(b)) /\ (g + d) - Len(b) = g - (Len(b) - d)
      BY <1>0, <2>2
    <3> QED
      BY <1>1, <2>2, <3>1 DEF ByteAt
  <2> QED
    BY <2>1, <2>2
<1> QED
  BY <1>1, <1>2 DEF c

\* A function moved down by d.
Lowered(g, d) == [k \in Nat |-> IF g[k] >= d THEN g[k] - d ELSE 0]
\* The offsets after a cut.
LEMMA LoweredIs ==
    ASSUME NEW g \in [Nat -> Nat], NEW d \in Nat
    PROVE  /\ Lowered(g, d) \in [Nat -> Nat]
           /\ \A k \in Nat : g[k] >= d => Lowered(g, d)[k] = g[k] - d
BY DEF Lowered

\* The frame in front is taken off.
Moved(s, n, d, off, h) ==
    \A k \in (n + 2)..(Len(s) + 1) : off[k] \in Nat /\ off[k] >= d /\ h[k] = off[k] - d
\* When the first frame is cut off, the others lie as before.
LEMMA CutLaid ==
    ASSUME NEW s, Legal(s), NEW n \in 0..Len(s), n < Len(s), NEW b \in Seq(Byte), NEW t \in Seq(Byte), NEW off,
           Laid(s, n, b, t, off), Size(s[n + 1]) <= Len(b)
    PROVE  /\ Laid(s, n + 1, SubSeq(b, Size(s[n + 1]) + 1, Len(b)), t, Lowered(off, Size(s[n + 1])))
           /\ Moved(s, n, Size(s[n + 1]), off, Lowered(off, Size(s[n + 1])))
<1> DEFINE m == Len(s)
           z == Len(b) + Len(t)
           d == Size(s[n + 1])
           c == SubSeq(b, d + 1, Len(b))
           h == Lowered(off, d)
<1>0. m \in Nat /\ n \in Nat /\ n < m /\ Len(b) \in Nat /\ Len(t) \in Nat /\ z \in Nat
  BY Lengths
<1>1. /\ off \in [Nat -> Nat] /\ off[n + 1] = 0 /\ off[m + 1] = z
      /\ \A k \in (n + 1)..m :
            /\ k \in (n + 1)..(m + 1) /\ off[k] \in Nat /\ Size(s[k]) \in Nat \ {0}
            /\ off[k + 1] = off[k] + Size(s[k]) /\ off[k + 1] <= z
      /\ \A k, j \in (n + 1)..(m + 1) : k <= j => off[k] <= off[j]
  <2>1. Places(s, n, z, off)
    BY LaidFacts, Zenon
  <2> QED
    BY <2>1, Zenon DEF Places
<1>2. /\ \A k \in (n + 1)..m : \A at \in 1..Size(s[k]) : ByteAt(b, t, off[k] + at) = [frame |-> k, at |-> at]
      /\ \A g \in 1..z : \E k \in (n + 1)..m : \E at \in 1..Size(s[k]) : g = off[k] + at
  BY Zenon DEF Laid
<1>3. n + 1 \in (n + 1)..m /\ n + 2 \in (n + 1)..(m + 1) /\ (n + 1) + 1 = n + 2 /\ n + 2 \in Nat
  <2> HIDE DEF m
  <2> QED
    BY <1>0
<1>4. d \in Nat \ {0} /\ off[n + 2] = d /\ d <= Len(b) /\ d <= z
  <2>1. d \in Nat \ {0} /\ off[n + 2] = 0 + d /\ off[n + 2] <= z
    BY <1>1, <1>3, Zenon
  <2> HIDE DEF z
  <2> QED
    BY <2>1
<1>5. d \in 0..Len(b)
  BY <1>0, <1>4
<1>6. c \in Seq(Byte) /\ Len(c) = Len(b) - d /\ \A g \in 1..(z - d) : ByteAt(c, t, g) = ByteAt(b, t, g + d)
  <2> HIDE DEF d
  <2> QED
    BY <1>5, CutMoves, Zenon
<1> HIDE DEF c, d
<1>7. h \in [Nat -> Nat] /\ \A k \in Nat : off[k] >= d => h[k] = off[k] - d
  BY <1>1, <1>4, LoweredIs, Zenon
<1>8. Len(c) + Len(t) = z - d
  BY <1>0, <1>4, <1>6
<1> HIDE DEF m, z, h
<1>9. ASSUME NEW k \in (n + 2)..(m + 1) PROVE k \in (n + 1)..(m + 1) /\ k \in Nat /\ off[k] \in Nat /\ off[k] >= d /\ h[k] = off[k] - d
  <2>1. k \in (n + 1)..(m + 1) /\ k \in Nat /\ n + 2 <= k
    BY <1>0
  <2>2. off[n + 2] <= off[k]
    BY <1>1, <1>3, <2>1, Zenon
  <2>3. off[k] \in Nat
    BY <1>1, <2>1
  <2>4. off[k] >= d
    BY <1>4, <2>2, <2>3
  <2> QED
    BY <1>7, <2>1, <2>3, <2>4, Zenon
<1>10. /\ n + 2 \in (n + 2)..(m + 1) /\ m + 1 \in (n + 2)..(m + 1)
       /\ \A k \in (n + 2)..m : k \in (n + 1)..m /\ k \in (n + 2)..(m + 1) /\ k + 1 \in (n + 2)..(m + 1)
  BY <1>0
<1>11. h[n + 2] = 0 /\ h[m + 1] = z - d
  <2>1. h[n + 2] = d - d
    BY <1>4, <1>9, <1>10, Zenon
  <2>2. h[m + 1] = z - d
    BY <1>1, <1>9, <1>10, Zenon
  <2> QED
    BY <1>4, <2>1, <2>2
<1>12. ASSUME NEW k \in (n + 2)..m PROVE h[k + 1] = h[k] + Size(s[k])
  <2>1. /\ off[k] \in Nat /\ off[k] >= d /\ h[k] = off[k] - d /\ h[k + 1] = off[k + 1] - d
        /\ off[k + 1] = off[k] + Size(s[k]) /\ Size(s[k]) \in Nat
    BY <1>1, <1>9, <1>10, Zenon
  <2> QED
    BY <1>4, <2>1
<1>13. ASSUME NEW k \in (n + 2)..(m + 1), NEW j \in (n + 2)..(m + 1), k <= j PROVE h[k] <= h[j]
  <2>1. off[k] <= off[j] /\ off[k] \in Nat /\ off[j] \in Nat /\ h[k] = off[k] - d /\ h[j] = off[j] - d
    BY <1>1, <1>9, <1>13, Zenon
  <2> QED
    BY <1>4, <2>1
<1>14. ASSUME NEW k \in (n + 2)..m, NEW at \in 1..Size(s[k])
       PROVE  ByteAt(c, t, h[k] + at) = [frame |-> k, at |-> at]
  <2>1. /\ off[k] \in Nat /\ off[k] >= d /\ h[k] = off[k] - d /\ Size(s[k]) \in Nat
        /\ off[k] + Size(s[k]) <= z /\ k \in (n + 1)..m
    BY <1>1, <1>9, <1>10, Zenon
  <2>2. at \in Nat /\ at > 0 /\ off[k] + at <= z
    BY <1>0, <2>1, Within, Piece, Zenon
  <2>4. d \in Nat
    BY <1>4
  <2>3. h[k] + at \in 1..(z - d) /\ (h[k] + at) + d = off[k] + at
    <3> DEFINE o == off[k]
               y == h[k]
    <3>1. o \in Nat /\ o >= d /\ y = o - d /\ at \in Nat /\ at > 0 /\ o + at <= z /\ d \in Nat /\ z \in Nat
      BY <1>0, <2>1, <2>2, <2>4, Zenon
    <3> HIDE DEF o, y
    <3>2. y + at \in 1..(z - d) /\ (y + at) + d = o + at
      BY <3>1
    <3> QED
      BY <3>2, Zenon DEF o, y
  <2> QED
    BY <1>2, <1>6, <2>1, <2>3, Zenon
<1>15. ASSUME NEW g \in 1..(z - d)
       PROVE  \E k \in (n + 2)..m : \E at \in 1..Size(s[k]) : g = h[k] + at
  <2>1. g + d \in 1..z
    BY <1>0, <1>4
  <2>2. PICK k \in (n + 1)..m : \E at \in 1..Size(s[k]) : g + d = off[k] + at
    BY <1>2, <2>1, Zenon
  <2>3. PICK at \in 1..Size(s[k]) : g + d = off[k] + at
    BY <2>2, Zenon
  <2>4. k # n + 1
    <3> SUFFICES ASSUME k = n + 1 PROVE FALSE
      OBVIOUS
    <3>1. off[k] = 0 /\ at \in 1..d
      BY <1>1 DEF d
    <3> QED
      BY <1>0, <1>4, <2>3, <3>1
  <2>5. k \in (n + 2)..m
    BY <1>0, <2>4
  <2>6. off[k] \in Nat /\ off[k] >= d /\ h[k] = off[k] - d
    BY <1>9, <1>10, <2>5, Zenon
  <2>7. Size(s[k]) \in Nat
    BY <1>1, Zenon
  <2>8. g = h[k] + at
    <3>1. g \in Nat /\ d \in Nat
      BY <1>0, <1>4
    <3>2. at \in Nat
      BY <2>7, Piece, Zenon
    <3> DEFINE o == off[k]
               y == h[k]
    <3>3. o \in Nat /\ y = o - d /\ g + d = o + at
      BY <2>3, <2>6, Zenon
    <3> HIDE DEF o, y
    <3>4. g = y + at
      BY <3>1, <3>2, <3>3
    <3> QED
      BY <3>4, Zenon DEF y
  <2> QED
    BY <2>5, <2>8, Zenon
<1>16. Laid(s, n + 1, c, t, h)
  <2>1. /\ h \in [Nat -> Nat] /\ h[(n + 1) + 1] = 0 /\ h[m + 1] = Len(c) + Len(t)
        /\ \A k \in ((n + 1) + 1)..m : h[k + 1] = h[k] + Size(s[k])
        /\ \A k, j \in ((n + 1) + 1)..(m + 1) : k <= j => h[k] <= h[j]
    BY <1>3, <1>7, <1>8, <1>11, <1>12, <1>13
  <2>2. \A k \in ((n + 1) + 1)..m : \A at \in 1..Size(s[k]) : ByteAt(c, t, h[k] + at) = [frame |-> k, at |-> at]
    BY <1>3, <1>14
  <2>3. \A g \in 1..(Len(c) + Len(t)) : \E k \in ((n + 1) + 1)..m : \E at \in 1..Size(s[k]) : g = h[k] + at
    BY <1>3, <1>8, <1>15
  <2> QED
    BY <2>1, <2>2, <2>3, Zenon DEF Laid, m
<1> QED
  BY <1>9, <1>16, Zenon DEF c, d, h, m, Moved

\* What Handed says, piece by piece.
Shares(s, n, off, got, l, st) ==
    /\ st \in [Nat -> Nat] /\ st[n + 1] = 0 /\ st[Len(s) + 1] = l
    /\ \A k \in (n + 1)..Len(s) :
          /\ st[k] \in Nat /\ st[k + 1] \in Nat /\ Got(s, off, got, k) \in Nat
          /\ st[k + 1] = st[k] + Got(s, off, got, k) /\ st[k + 1] <= l
    /\ \A k, j \in (n + 1)..(Len(s) + 1) : k <= j => st[k] <= st[j]
    /\ \A k \in (n + 1)..(Len(s) + 1) : off[k] >= got => st[k] = l

\* Each frame whose first byte came has its descriptors at hand.
LEMMA HandedFacts ==
    ASSUME NEW s, Legal(s), NEW n \in 0..Len(s), NEW z \in Nat, NEW off, Places(s, n, z, off),
           NEW got \in Nat, got <= z, NEW fds \in Seq(Nat), NEW st, Handed(s, n, off, got, fds, st)
    PROVE  Shares(s, n, off, got, Len(fds), st)
<1> DEFINE m == Len(s)
           l == Len(fds)
<1>0. m \in Nat /\ n \in Nat /\ n <= m
  BY Lengths, Zenon
<1>1. /\ st \in [Nat -> Nat] /\ st[n + 1] = 0
      /\ \A k \in (n + 1)..m : st[k + 1] = st[k] + Got(s, off, got, k)
      /\ \A k, j \in (n + 1)..(m + 1) : k <= j => st[k] <= st[j]
      /\ \A k \in (n + 1)..(m + 1) : off[k] >= got => st[k] = l
  BY Zenon DEF Handed
<1>2. off[m + 1] = z /\ \A k \in (n + 1)..m : k \in Nat /\ k + 1 \in (n + 1)..(m + 1) /\ s[k].fds \in 0..kMaxFrameFds
  BY Zenon DEF Places
<1> HIDE DEF m, l
<1>3. m + 1 \in (n + 1)..(m + 1) /\ z >= got
  BY <1>0
<1>4. st[m + 1] = l
  BY <1>1, <1>2, <1>3, Zenon
<1>5. ASSUME NEW k \in (n + 1)..m
      PROVE  /\ st[k] \in Nat /\ st[k + 1] \in Nat /\ Got(s, off, got, k) \in Nat
             /\ st[k + 1] = st[k] + Got(s, off, got, k) /\ st[k + 1] <= l
  <2>1. k \in Nat /\ k + 1 \in Nat /\ k + 1 \in (n + 1)..(m + 1) /\ k + 1 <= m + 1
    BY <1>0
  <2>2. st[k] \in Nat /\ st[k + 1] \in Nat
    BY <1>1, <2>1
  <2>3. st[k + 1] <= l
    BY <1>1, <1>3, <1>4, <2>1, Zenon
  <2>4. s[k].fds \in 0..kMaxFrameFds /\ 0 \in Nat
    BY <1>2
  <2>5. s[k].fds \in Nat
    BY <2>4, FramingAssumption
  <2>6. Got(s, off, got, k) \in Nat
    BY <2>4, <2>5, Zenon DEF Got
  <2> QED
    BY <1>1, <2>2, <2>3, <2>6, Zenon
<1> QED
  BY <1>1, <1>4, <1>5, Zenon DEF m, l, Shares

\* ... with its descriptors.
HasOwn(s, n, fds) == s[n + 1].fds \in 0..Len(fds) /\ \A j \in 1..s[n + 1].fds : fds[j] = n + 1
\* The first frame takes its own descriptors, and leaves the others theirs.
LEMMA CutHanded ==
    ASSUME NEW s, Legal(s), NEW n \in 0..Len(s), n < Len(s), NEW z \in Nat, NEW off, Places(s, n, z, off),
           NEW got \in Nat, got <= z, NEW fds \in Seq(Nat), NEW st, Handed(s, n, off, got, fds, st),
           NEW d \in Nat, d > 0, d <= got,
           NEW h, Moved(s, n, d, off, h)
    PROVE  /\ HasOwn(s, n, fds)
           /\ Handed(s, n + 1, h, got - d, SubSeq(fds, s[n + 1].fds + 1, Len(fds)), Lowered(st, s[n + 1].fds))
<1> DEFINE m == Len(s)
           l == Len(fds)
           a == s[n + 1].fds
           q == SubSeq(fds, a + 1, l)
           v == Lowered(st, a)
<1>0. m \in Nat /\ n \in Nat /\ n < m /\ l \in Nat
  BY Lengths
<1>1. /\ st \in [Nat -> Nat] /\ st[n + 1] = 0 /\ st[m + 1] = l
      /\ \A k \in (n + 1)..m :
            /\ st[k] \in Nat /\ st[k + 1] \in Nat /\ Got(s, off, got, k) \in Nat
            /\ st[k + 1] = st[k] + Got(s, off, got, k) /\ st[k + 1] <= l
      /\ \A k, j \in (n + 1)..(m + 1) : k <= j => st[k] <= st[j]
      /\ \A k \in (n + 1)..(m + 1) : off[k] >= got => st[k] = l
  <2>1. Shares(s, n, off, got, l, st)
    BY HandedFacts, Zenon
  <2> QED
    BY <2>1, Zenon DEF Shares
<1>2. \A k \in (n + 1)..m : off[k] < got => \A j \in 1..s[k].fds : fds[st[k] + j] = k
  BY Zenon DEF Handed
<1>3. off[n + 1] = 0 /\ \A k \in (n + 1)..m : off[k] \in Nat /\ s[k].fds \in 0..kMaxFrameFds
  BY Zenon DEF Places
<1> HIDE DEF m
<1>4. n + 1 \in (n + 1)..m /\ n + 2 \in (n + 1)..(m + 1) /\ (n + 1) + 1 = n + 2 /\ n + 2 \in Nat /\ 0 < got
  BY <1>0
<1>5. a \in 0..kMaxFrameFds /\ Got(s, off, got, n + 1) = a
  BY <1>3, <1>4, Zenon DEF Got
<1> HIDE DEF a
<1>6. a \in Nat /\ st[n + 2] = a /\ a <= l
  <2>1. st[n + 2] = 0 + a /\ st[n + 2] <= l
    BY <1>1, <1>4, <1>5, Zenon
  <2>2. a \in Nat
    BY <1>5, FramingAssumption
  <2> QED
    BY <2>1, <2>2
<1>7. a \in 0..l
  BY <1>0, <1>6
<1>8. ASSUME NEW j \in 1..a PROVE fds[j] = n + 1
  <2>1. fds[0 + j] = n + 1
    BY <1>1, <1>2, <1>3, <1>4, Zenon DEF a
  <2>2. 0 + j = j
    BY <1>6
  <2> QED
    BY <2>1, <2>2
<1>9. q \in Seq(Nat) /\ Len(q) = l - a /\ \A i \in 1..(l - a) : q[i] = fds[a + i]
  BY <1>7, Suffix, Zenon
<1>10. v \in [Nat -> Nat] /\ \A k \in Nat : st[k] >= a => v[k] = st[k] - a
  BY <1>1, <1>6, LoweredIs, Zenon
<1> HIDE DEF q, v, l
<1>11. ASSUME NEW k \in (n + 2)..(m + 1)
       PROVE  k \in (n + 1)..(m + 1) /\ st[k] \in Nat /\ st[k] >= a /\ v[k] = st[k] - a
  <2>1. k \in (n + 1)..(m + 1) /\ k \in Nat /\ n + 2 <= k
    BY <1>0
  <2>2. st[n + 2] <= st[k]
    BY <1>1, <1>4, <2>1, Zenon
  <2>3. st[k] \in Nat
    BY <1>1, <2>1
  <2>4. st[k] >= a
    BY <1>6, <2>2, <2>3
  <2> QED
    BY <1>10, <2>1, <2>3, <2>4, Zenon
<1>12. /\ n + 2 \in (n + 2)..(m + 1)
       /\ \A k \in (n + 2)..m : k \in (n + 1)..m /\ k \in (n + 2)..(m + 1) /\ k + 1 \in (n + 2)..(m + 1)
  BY <1>0
<1>13. v[n + 2] = 0
  <2>1. v[n + 2] = a - a
    BY <1>6, <1>11, <1>12, Zenon
  <2> QED
    BY <1>6, <2>1
<1>14. ASSUME NEW k \in (n + 2)..(m + 1) PROVE (h[k] < got - d) = (off[k] < got) /\ (h[k] >= got - d) = (off[k] >= got)
  <2>1. off[k] \in Nat /\ off[k] >= d /\ h[k] = off[k] - d
    BY Zenon DEF m, Moved
  <2> DEFINE o == off[k]
             y == h[k]
  <2>2. o \in Nat /\ o >= d /\ y = o - d
    BY <2>1
  <2> HIDE DEF o, y
  <2>3. (y < got - d) = (o < got) /\ (y >= got - d) = (o >= got)
    BY <2>2
  <2> QED
    BY <2>3, Zenon DEF o, y
<1>15. ASSUME NEW k \in (n + 2)..m PROVE v[k + 1] = v[k] + Got(s, h, got - d, k)
  <2>1. Got(s, h, got - d, k) = Got(s, off, got, k)
    BY <1>12, <1>14, Zenon DEF Got
  <2> DEFINE x == Got(s, off, got, k)
             o == st[k]
             y == v[k]
             p == v[k + 1]
             r == st[k + 1]
  <2>2. x \in Nat /\ o \in Nat /\ y = o - a /\ p = r - a /\ r = o + x
    BY <1>1, <1>11, <1>12, Zenon
  <2> HIDE DEF x, o, y, p, r
  <2>3. p = y + x
    BY <1>6, <2>2
  <2> QED
    BY <2>1, <2>3, Zenon DEF x, y, p
<1>16. ASSUME NEW k \in (n + 2)..(m + 1), NEW j \in (n + 2)..(m + 1), k <= j PROVE v[k] <= v[j]
  <2> DEFINE o == st[k]
             p == st[j]
             x == v[k]
             y == v[j]
  <2>1. o <= p /\ o \in Nat /\ p \in Nat /\ x = o - a /\ y = p - a
    BY <1>1, <1>11, <1>16, Zenon
  <2> HIDE DEF o, p, x, y
  <2>2. x <= y
    BY <1>6, <2>1
  <2> QED
    BY <2>2, Zenon DEF x, y
<1>17. ASSUME NEW k \in (n + 2)..m, h[k] < got - d, NEW j \in 1..s[k].fds PROVE q[v[k] + j] = k
  <2>1. off[k] < got /\ k \in (n + 1)..m
    BY <1>12, <1>14, <1>17, Zenon
  <2>2. fds[st[k] + j] = k /\ Got(s, off, got, k) = s[k].fds
    BY <1>2, <2>1, Zenon DEF Got
  <2> DEFINE f == s[k].fds
             o == st[k]
             y == v[k]
  <2>3. o \in Nat /\ f \in Nat /\ o + f <= l /\ y = o - a /\ o >= a /\ j \in 1..f
    BY <1>1, <1>11, <1>12, <2>1, <2>2, Zenon
  <2> HIDE DEF f, o, y
  <2>4. y + j \in 1..(l - a) /\ a + (y + j) = o + j
    <3>1. j \in Nat /\ j > 0 /\ o + j <= l
      BY <1>0, <2>3
    <3> QED
      BY <1>0, <1>6, <2>3, <3>1
  <2> QED
    BY <1>9, <2>2, <2>4 DEF o, y
<1>18. ASSUME NEW k \in (n + 2)..(m + 1), h[k] >= got - d PROVE v[k] = Len(q)
  BY <1>1, <1>9, <1>11, <1>14, <1>18, Zenon
<1>19. Handed(s, n + 1, h, got - d, q, v)
  <2>1. /\ v \in [Nat -> Nat] /\ v[(n + 1) + 1] = 0
        /\ \A k \in ((n + 1) + 1)..m : v[k + 1] = v[k] + Got(s, h, got - d, k)
    BY <1>4, <1>10, <1>13, <1>15
  <2>2. /\ \A k, j \in ((n + 1) + 1)..(m + 1) : k <= j => v[k] <= v[j]
        /\ \A k \in ((n + 1) + 1)..(m + 1) : h[k] >= got - d => v[k] = Len(q)
    BY <1>4, <1>16, <1>18
  <2>3. \A k \in ((n + 1) + 1)..m : h[k] < got - d => \A j \in 1..s[k].fds : q[v[k] + j] = k
    BY <1>4, <1>17
  <2> QED
    BY <2>1, <2>2, <2>3, Zenon DEF Handed, m
<1> QED
  BY <1>7, <1>8, <1>19, Zenon DEF a, l, q, v, HasOwn

\* Reading hands over the descriptors on the first byte read, and no other
\* byte read has any.
LEMMA ReadHanded ==
    ASSUME Legal(sent), NEW n \in 0..Len(sent), NEW b \in Seq(Byte), NEW t \in Seq(Byte), NEW off, Laid(sent, n, b, t, off),
           NEW fds \in Seq(Nat), NEW st, Handed(sent, n, off, Len(b), fds, st),
           NEW i \in 1..Len(t), \A j \in 2..i : Riding(t[j]) = <<>>
    PROVE  /\ Riding(t[1]) \in Seq(Nat)
           /\ \E v : Handed(sent, n, off, Len(b) + i, fds \o Riding(t[1]), v)
<1> DEFINE m == Len(sent)
           l == Len(fds)
           got == Len(b)
           z == Len(b) + Len(t)
           more == got + i
           q == Riding(t[1])
<1>0. m \in Nat /\ n \in Nat /\ n <= m
  BY Lengths, Zenon
<1>1. l \in Nat /\ got \in Nat /\ z \in Nat /\ i \in Nat /\ i > 0 /\ more \in Nat /\ more > got /\ more <= z /\ got <= z
  OBVIOUS
<1>2. Places(sent, n, z, off)
  BY LaidFacts, Zenon
<1>3. Shares(sent, n, off, got, l, st)
  BY <1>1, <1>2, HandedFacts, Zenon
<1>4. /\ \A k \in (n + 1)..m : \A at \in 1..Size(sent[k]) : ByteAt(b, t, off[k] + at) = [frame |-> k, at |-> at]
      /\ \A g \in 1..z : \E k \in (n + 1)..m : \E at \in 1..Size(sent[k]) : g = off[k] + at
  BY Zenon DEF Laid
<1>5. \A k \in (n + 1)..m : off[k] < got => \A j \in 1..sent[k].fds : fds[st[k] + j] = k
  BY Zenon DEF Handed
<1>6. /\ off \in [Nat -> Nat]
      /\ \A k \in (n + 1)..m :
            /\ k \in Nat /\ k \in (n + 1)..(m + 1) /\ k + 1 \in (n + 1)..(m + 1)
            /\ off[k] \in Nat /\ off[k + 1] \in Nat
            /\ Size(sent[k]) \in Nat \ {0} /\ sent[k].fds \in 0..kMaxFrameFds
            /\ off[k + 1] = off[k] + Size(sent[k]) /\ off[k + 1] <= z
      /\ \A k, j \in (n + 1)..(m + 1) : k <= j => off[k] <= off[j]
  BY <1>2, Zenon DEF Places
<1>7. /\ st \in [Nat -> Nat] /\ st[n + 1] = 0 /\ st[m + 1] = l
      /\ \A k \in (n + 1)..m :
            /\ st[k] \in Nat /\ st[k + 1] \in Nat /\ Got(sent, off, got, k) \in Nat
            /\ st[k + 1] = st[k] + Got(sent, off, got, k) /\ st[k + 1] <= l
      /\ \A k, j \in (n + 1)..(m + 1) : k <= j => st[k] <= st[j]
      /\ \A k \in (n + 1)..(m + 1) : off[k] >= got => st[k] = l
  BY <1>3, Zenon DEF Shares
\* The byte read at place j, if it is the first of a frame.
<1>8. ASSUME NEW k \in (n + 1)..m, NEW j \in 1..i, off[k] = got + (j - 1)
      PROVE  Riding(t[j]) = [x \in 1..sent[k].fds |-> k]
  <2>0. Size(sent[k]) \in Nat \ {0}
    BY <1>6, Zenon
  <2>1. 1 \in 1..Size(sent[k])
    BY <2>0
  <2>2. ByteAt(b, t, off[k] + 1) = [frame |-> k, at |-> 1]
    BY <1>4, <2>1, Zenon
  <2>3. off[k] + 1 = got + j /\ ~(got + j <= got) /\ (got + j) - got = j
    BY <1>1, <1>8
  <2>4. ByteAt(b, t, off[k] + 1) = t[j]
    BY <2>3 DEF ByteAt
  <2>5. t[j] = [frame |-> k, at |-> 1]
    BY <2>2, <2>4, Zenon
  <2>6. t[j].at = 1 /\ t[j].frame = k
    BY <2>5
  <2> QED
    BY <2>6, Zenon DEF Riding
<1>9. ASSUME NEW k \in (n + 1)..m, off[k] > got, off[k] < more PROVE sent[k].fds = 0
  <2> DEFINE o == off[k]
             j == (o - got) + 1
  <2>1. o \in Nat /\ o > got /\ o < more
    BY <1>6, <1>9, Zenon
  <2> HIDE DEF o
  <2>2. j \in 2..i /\ j \in 1..i /\ o = got + (j - 1)
    BY <1>1, <2>1
  <2> HIDE DEF j
  <2>3. Riding(t[j]) = <<>> /\ Riding(t[j]) = [x \in 1..sent[k].fds |-> k]
    BY <1>8, <2>2, Zenon DEF o
  <2> DEFINE f == sent[k].fds
  <2>4. f \in Nat
    <3>1. f \in 0..kMaxFrameFds
      BY <1>6, Zenon
    <3> QED
      BY <3>1, FramingAssumption
  <2> HIDE DEF f
  <2>5. [x \in 1..f |-> k] = <<>>
    BY <2>3, Zenon DEF f
  <2>6. f = 0
    <3> DEFINE e == [x \in 1..f |-> k]
    <3>1. e \in Seq({k}) /\ Len(e) = f
      BY <2>4
    <3> HIDE DEF e
    <3>2. e = <<>>
      BY <2>5 DEF e
    <3> QED
      BY <3>1, <3>2
  <2> QED
    BY <2>6 DEF f
<1> HIDE DEF m, l, got, z, more
\* What a frame that was reached before gives is what it gave.
<1>10. ASSUME NEW k \in (n + 1)..m, off[k] # got PROVE Got(sent, off, more, k) = Got(sent, off, got, k)
  <2> DEFINE o == off[k]
  <2>1. o \in Nat /\ o # got
    BY <1>6, <1>10, Zenon
  <2>2. CASE o < got
    <3>1. o < more
      BY <1>1, <2>1, <2>2
    <3> QED
      BY <2>2, <3>1, Zenon DEF Got
  <2>3. CASE ~(o < got) /\ o < more
    <3>1. o > got
      BY <1>1, <2>1, <2>3
    <3>2. sent[k].fds = 0
      BY <1>9, <2>3, <3>1, Zenon
    <3> QED
      BY <2>3, <3>2, Zenon DEF Got
  <2>4. CASE ~(o < got) /\ ~(o < more)
    BY <2>4, Zenon DEF Got
  <2> QED
    BY <2>2, <2>3, <2>4, Zenon
<1>11. ASSUME NEW k \in (n + 1)..m, NEW j, off[k] # got, off[k] < more, j \in 1..sent[k].fds PROVE off[k] < got
  <2> DEFINE o == off[k]
  <2>1. o \in Nat /\ o # got /\ o < more
    BY <1>6, <1>11, Zenon
  <2>2. o > got => sent[k].fds = 0
    BY <1>9, <2>1, Zenon
  <2>3. sent[k].fds # 0
    BY <1>11
  <2> HIDE DEF o
  <2>4. o < got \/ o > got
    BY <1>1, <2>1
  <2> QED
    BY <2>2, <2>3, <2>4, Zenon DEF o
<1>12. ASSUME NEW k \in (n + 1)..(m + 1), off[k] >= more PROVE off[k] >= got
  <2> DEFINE o == off[k]
  <2>1. k \in Nat
    BY <1>0
  <2>2. o \in Nat /\ o >= more
    BY <1>6, <1>12, <2>1
  <2> HIDE DEF o
  <2>3. o >= got
    BY <1>1, <2>2
  <2> QED
    BY <2>3 DEF o
\* The first byte read is within a frame.
<1>13. ASSUME \A k \in (n + 1)..m : off[k] # got
       PROVE  q \in Seq(Nat) /\ \E v : Handed(sent, n, off, more, fds \o q, v)
  <2>1. got + 1 \in 1..z
    BY <1>1
  <2>2. PICK k \in (n + 1)..m : \E at \in 1..Size(sent[k]) : got + 1 = off[k] + at
    BY <1>4, <2>1, Zenon
  <2>3. PICK at \in 1..Size(sent[k]) : got + 1 = off[k] + at
    BY <2>2, Zenon
  <2>4. at # 1
    <3> DEFINE o == off[k]
    <3>1. o \in Nat /\ o # got /\ got + 1 = o + at
      BY <1>6, <1>13, <2>3, Zenon
    <3> HIDE DEF o
    <3> QED
      BY <1>1, <3>1
  <2>5. t[1] = [frame |-> k, at |-> at]
    <3>1. ByteAt(b, t, got + 1) = [frame |-> k, at |-> at]
      BY <1>4, <2>3, Zenon
    <3>2. ~(got + 1 <= got) /\ (got + 1) - got = 1
      BY <1>1
    <3>3. ByteAt(b, t, got + 1) = t[1]
      BY <3>2 DEF ByteAt, got
    <3> QED
      BY <3>1, <3>3, Zenon
  <2>6. t[1].at # 1
    BY <2>4, <2>5
  <2>7. q = <<>>
    BY <2>6, Zenon DEF Riding
  <2>8. fds \o q = fds /\ q \in Seq(Nat)
    BY <2>7
  <2>9. Handed(sent, n, off, more, fds, st)
    <3>1. \A k2 \in (n + 1)..m : st[k2 + 1] = st[k2] + Got(sent, off, more, k2)
      BY <1>7, <1>10, <1>13, Zenon
    <3>2. \A k2 \in (n + 1)..m : off[k2] < more => \A j \in 1..sent[k2].fds : fds[st[k2] + j] = k2
      BY <1>5, <1>11, <1>13, Zenon
    <3>3. \A k2 \in (n + 1)..(m + 1) : off[k2] >= more => st[k2] = l
      BY <1>7, <1>12, Zenon
    <3> QED
      BY <1>7, <3>1, <3>2, <3>3, Zenon DEF Handed, m, l
  <2> QED
    BY <2>8, <2>9, Zenon
\* The first byte read is the first of frame f.
<1>14. ASSUME NEW f \in (n + 1)..m, off[f] = got
       PROVE  q \in Seq(Nat) /\ \E v : Handed(sent, n, off, more, fds \o q, v)
  <2> DEFINE a == sent[f].fds
             all == fds \o q
             v == [k \in Nat |-> IF k <= f THEN st[k] ELSE l + a]
  <2>1. f \in Nat /\ f \in (n + 1)..(m + 1) /\ f + 1 \in (n + 1)..(m + 1) /\ a \in 0..kMaxFrameFds /\ Size(sent[f]) \in Nat \ {0}
    BY <1>6, Zenon
  <2>2. a \in Nat
    BY <2>1, FramingAssumption
  <2>3. q = [x \in 1..a |-> f]
    <3>1. 1 \in 1..i /\ off[f] = got + (1 - 1)
      BY <1>1, <1>14
    <3> QED
      BY <1>8, <3>1, Zenon
  <2>4. q \in Seq(Nat) /\ Len(q) = a /\ \A x \in 1..a : q[x] = f
    <3> HIDE DEF q, a
    <3> QED
      BY <2>1, <2>2, <2>3
  <2> HIDE DEF q, a
  <2>5. /\ Len(all) = l + a
        /\ \A x \in 1..(l + a) : all[x] = IF x <= l THEN fds[x] ELSE q[x - l]
    BY <2>4, Joined, Zenon DEF l
  <2> HIDE DEF all
  <2>6. st[f] = l
    <3>1. off[f] >= got
      BY <1>1, <1>14
    <3> QED
      BY <1>7, <2>1, <3>1, Zenon
  <2>7. v \in [Nat -> Nat] /\ \A k \in Nat : v[k] = IF k <= f THEN st[k] ELSE l + a
    <3> DEFINE y == l + a
    <3>1. y \in Nat
      BY <1>1, <2>2
    <3> HIDE DEF y
    <3>2. v = [k \in Nat |-> IF k <= f THEN st[k] ELSE y]
      BY DEF y
    <3> HIDE DEF v
    <3>3. v \in [Nat -> Nat] /\ \A k \in Nat : v[k] = IF k <= f THEN st[k] ELSE y
      BY <1>7, <3>1, <3>2
    <3> QED
      BY <3>3, Zenon DEF y
  <2> HIDE DEF v
  <2>8. ASSUME NEW k \in (n + 1)..(m + 1) PROVE k \in Nat /\ (k <= f => v[k] = st[k]) /\ (~(k <= f) => v[k] = l + a)
    <3>1. k \in Nat
      BY <1>0
    <3> QED
      BY <2>7, <3>1, Zenon
  \* The frames after f are further on.
  <2>9. ASSUME NEW k \in (n + 1)..(m + 1), ~(k <= f) PROVE off[k] \in Nat /\ off[k] > got
    <3>1. k \in Nat /\ f + 1 <= k
      BY <1>0, <2>1, <2>9
    <3>2. off[f + 1] <= off[k] /\ off[f + 1] = got + Size(sent[f])
      BY <1>6, <1>14, <2>1, <3>1, Zenon
    <3> DEFINE o == off[k]
               p == off[f + 1]
               y == Size(sent[f])
    <3>3. o \in Nat /\ p <= o /\ p = got + y /\ y \in Nat \ {0}
      BY <1>6, <2>1, <3>1, <3>2
    <3> HIDE DEF o, p, y
    <3>4. o \in Nat /\ o > got
      BY <1>1, <3>3
    <3> QED
      BY <3>4 DEF o
  <2>10. ASSUME NEW k \in (n + 1)..m, k # f PROVE off[k] # got
    <3>1. k \in Nat /\ k \in (n + 1)..(m + 1) /\ k + 1 \in (n + 1)..(m + 1)
      BY <1>6, Zenon
    <3>2. CASE k <= f
      <4>1. k + 1 <= f
        BY <2>1, <2>10, <3>1, <3>2
      <4>2. off[k + 1] <= off[f]
        BY <1>6, <2>1, <3>1, <4>1, Zenon
      <4> DEFINE o == off[k]
                 p == off[k + 1]
                 y == Size(sent[k])
      <4>3. o \in Nat /\ p <= got /\ p = o + y /\ y \in Nat \ {0}
        BY <1>6, <1>14, <4>2, Zenon
      <4> HIDE DEF o, p, y
      <4>4. o # got
        BY <1>1, <4>3
      <4> QED
        BY <4>4 DEF o
    <3>3. CASE ~(k <= f)
      <4>1. off[k] \in Nat /\ off[k] > got
        BY <2>9, <3>1, <3>3, Zenon
      <4> QED
        BY <1>1, <4>1
    <3> QED
      BY <3>2, <3>3
  <2>11. Got(sent, off, more, f) = a
    <3>1. off[f] < more
      BY <1>1, <1>14
    <3> QED
      BY <3>1, Zenon DEF Got, a
  <2>12. ASSUME NEW k \in (n + 1)..m, ~(k <= f) PROVE Got(sent, off, more, k) = 0
    <3>1. k \in (n + 1)..(m + 1) /\ k # f
      BY <1>6, <2>1, <2>12
    <3>2. Got(sent, off, more, k) = Got(sent, off, got, k)
      BY <1>10, <2>10, <3>1, Zenon
    <3>3. off[k] \in Nat /\ off[k] > got
      BY <2>9, <2>12, <3>1, Zenon
    <3>4. ~(off[k] < got)
      BY <1>1, <3>3
    <3> QED
      BY <3>2, <3>4, Zenon DEF Got
  <2>13. ASSUME NEW k \in (n + 1)..m PROVE v[k + 1] = v[k] + Got(sent, off, more, k)
    <3>1. k \in Nat /\ k \in (n + 1)..(m + 1) /\ k + 1 \in (n + 1)..(m + 1)
      BY <1>6, Zenon
    <3>2. CASE k = f
      <4>1. ~(k + 1 <= f) /\ k <= f
        BY <2>1, <3>2
      <4>2. v[k + 1] = l + a /\ v[k] = l
        BY <2>6, <2>8, <3>1, <3>2, <4>1, Zenon
      <4> QED
        BY <2>11, <3>2, <4>2, Zenon
    <3>3. CASE k < f
      <4>1. k + 1 <= f /\ k <= f /\ k # f
        BY <2>1, <3>1, <3>3
      <4>2. v[k + 1] = st[k + 1] /\ v[k] = st[k]
        BY <2>8, <3>1, <4>1, Zenon
      <4>3. Got(sent, off, more, k) = Got(sent, off, got, k)
        BY <1>10, <2>10, <4>1, Zenon
      <4> QED
        BY <1>7, <4>2, <4>3, Zenon
    <3>4. CASE k > f
      <4>1. ~(k + 1 <= f) /\ ~(k <= f)
        BY <2>1, <3>1, <3>4
      <4>2. v[k + 1] = l + a /\ v[k] = l + a /\ Got(sent, off, more, k) = 0
        BY <2>8, <2>12, <3>1, <4>1, Zenon
      <4> QED
        BY <1>1, <2>2, <4>2
    <3> QED
      BY <2>1, <3>1, <3>2, <3>3, <3>4
  <2>14. ASSUME NEW k \in (n + 1)..(m + 1), NEW j \in (n + 1)..(m + 1), k <= j PROVE v[k] <= v[j]
    <3>1. CASE j <= f
      <4>1. k <= f
        BY <2>1, <2>8, <2>14, <3>1
      <4>2. v[k] = st[k] /\ v[j] = st[j] /\ st[k] <= st[j]
        BY <1>7, <2>8, <2>14, <3>1, <4>1, Zenon
      <4> QED
        BY <4>2, Zenon
    <3>2. CASE k <= f /\ ~(j <= f)
      <4>1. v[k] = st[k] /\ v[j] = l + a /\ st[k] <= l
        BY <1>7, <2>1, <2>6, <2>8, <3>2, Zenon
      <4>2. st[k] \in Nat
        BY <1>7, <2>8
      <4> QED
        BY <1>1, <2>2, <4>1, <4>2
    <3>3. CASE ~(k <= f) /\ ~(j <= f)
      <4>1. v[k] = l + a /\ v[j] = l + a
        BY <2>8, <3>3, Zenon
      <4> QED
        BY <1>1, <2>2, <4>1
    <3> QED
      BY <3>1, <3>2, <3>3
  <2>15. ASSUME NEW k \in (n + 1)..m, off[k] < more, NEW j \in 1..sent[k].fds PROVE all[v[k] + j] = k
    <3>1. k \in Nat /\ k \in (n + 1)..(m + 1)
      BY <1>6, Zenon
    <3>2. CASE k = f
      <4>1. v[k] = l /\ j \in 1..a
        <5>1. k <= f
          BY <2>1, <3>2
        <5> QED
          BY <2>6, <2>8, <3>1, <3>2, <5>1, Zenon DEF a
      <4>2. l + j \in 1..(l + a) /\ ~(l + j <= l) /\ (l + j) - l = j
        BY <1>1, <2>2, <4>1
      <4>3. all[l + j] = q[j]
        BY <2>5, <4>2
      <4> QED
        BY <2>4, <3>2, <4>1, <4>3, Zenon
    <3>3. CASE k # f
      <4>1. off[k] < got
        BY <1>11, <2>10, <2>15, <3>3, Zenon
      <4>2. fds[st[k] + j] = k /\ Got(sent, off, got, k) = sent[k].fds
        BY <1>5, <4>1, Zenon DEF Got
      <4>3. k <= f
        <5>1. ~(k <= f) => off[k] \in Nat /\ off[k] > got
          BY <2>9, <3>1, Zenon
        <5> QED
          BY <1>1, <4>1, <5>1
      <4>4. v[k] = st[k]
        BY <2>8, <3>1, <4>3, Zenon
      <4> DEFINE o == st[k]
                 y == sent[k].fds
      <4>5. o \in Nat /\ y \in Nat /\ o + y <= l /\ j \in 1..y
        BY <1>7, <4>2, Zenon
      <4> HIDE DEF o, y
      <4>6. o + j \in 1..(l + a) /\ o + j <= l
        BY <1>1, <2>2, <4>5
      <4>7. all[o + j] = fds[o + j]
        BY <2>5, <4>6
      <4> QED
        BY <4>2, <4>4, <4>7, Zenon DEF o
    <3> QED
      BY <3>2, <3>3
  <2>16. ASSUME NEW k \in (n + 1)..(m + 1), off[k] >= more PROVE v[k] = l + a
    <3>1. k <= f => off[k] <= got
      BY <1>6, <1>14, <2>1, Zenon
    <3>2. off[k] \in Nat
      BY <1>6, <2>8
    <3>3. ~(k <= f)
      BY <1>1, <2>16, <3>1, <3>2
    <3> QED
      BY <2>8, <3>3, Zenon
  <2>17. v[n + 1] = 0
    <3>1. n + 1 \in (n + 1)..(m + 1) /\ n + 1 <= f
      BY <1>0, <2>1
    <3> QED
      BY <1>7, <2>8, <3>1, Zenon
  <2>18. Handed(sent, n, off, more, all, v)
    BY <2>5, <2>7, <2>13, <2>14, <2>15, <2>16, <2>17, Zenon DEF Handed, m
  <2> QED
    BY <2>4, <2>18, Zenon DEF all
<1> QED
  BY <1>13, <1>14, Zenon DEF more, got

-----------------------------------------------------------------------------
\* A receiver in order.

\* The numbers of a receiver.
LEMMA ReceiverIs ==
    ASSUME NEW r \in Receivers
    PROVE  /\ r.buffer \in Seq(Byte) /\ r.fds \in Seq(Nat) /\ r.frames \in Seq([body : Seq(Byte), fds : Seq(Nat)])
           /\ r.mode \in {"pump", "blocking"} /\ Len(r.frames) \in Nat /\ Len(r.buffer) \in Nat
BY DEF Receivers

\* Where a receiver in order has got to.
InOrderAt(s, r, t, off, st) ==
    /\ Len(r.frames) \in 0..Len(s)
    /\ Laid(s, Len(r.frames), r.buffer, t, off)
    /\ Handed(s, Len(r.frames), off, Len(r.buffer), r.fds, st)
    /\ Places(s, Len(r.frames), Len(r.buffer) + Len(t), off)
    /\ Shares(s, Len(r.frames), off, Len(r.buffer), Len(r.fds), st)

\* A receiver in step has the frames it handed on, and the rest on the way.
LEMMA InStepFacts ==
    ASSUME NEW s, Legal(s), NEW r \in Receivers, NEW t \in Seq(Byte), NEW off, NEW st, InStep(s, r, t, off, st)
    PROVE  InOrderAt(s, r, t, off, st)
<1> DEFINE b == r.buffer
           n == Len(r.frames)
           z == Len(b) + Len(t)
<1>1. b \in Seq(Byte) /\ r.fds \in Seq(Nat) /\ n \in Nat /\ Len(b) \in Nat
  BY ReceiverIs, Zenon
<1>2. n <= Len(s) /\ Laid(s, n, b, t, off) /\ Handed(s, n, off, Len(b), r.fds, st)
  BY Zenon DEF InStep
<1>3. Len(s) \in Nat /\ Len(t) \in Nat
  BY DEF Legal
<1> HIDE DEF b, n
<1>4. n \in 0..Len(s) /\ z \in Nat /\ Len(b) <= z
  BY <1>1, <1>2, <1>3
<1> HIDE DEF z
<1>5. Places(s, n, z, off)
  BY <1>1, <1>2, <1>4, LaidFacts, Zenon DEF z
<1>6. Shares(s, n, off, Len(b), Len(r.fds), st)
  BY <1>1, <1>2, <1>4, <1>5, HandedFacts, Zenon
<1> QED
  BY <1>2, <1>4, <1>5, <1>6, Zenon DEF b, n, z, InOrderAt

\* What is on the way begins with the frame that is next.
Front(s, n, b) ==
    n < Len(s) /\ \A at \in 1..Size(s[n + 1]) : at <= Len(b) => b[at] = [frame |-> n + 1, at |-> at]
\* The header at the front of the buffer is the next frame's.
LEMMA FrontIs ==
    ASSUME NEW s, Legal(s), NEW n \in 0..Len(s), NEW b \in Seq(Byte), NEW t \in Seq(Byte), NEW off,
           Laid(s, n, b, t, off), Len(b) + Len(t) > 0
    PROVE  Front(s, n, b)
<1> DEFINE m == Len(s)
           z == Len(b) + Len(t)
<1>0. m \in Nat /\ n \in Nat /\ n <= m
  BY Lengths, Zenon
<1>1. z \in Nat /\ z > 0
  OBVIOUS
<1>2. /\ off[n + 1] = 0
      /\ \A k \in (n + 1)..m : \A at \in 1..Size(s[k]) : ByteAt(b, t, off[k] + at) = [frame |-> k, at |-> at]
      /\ \A g \in 1..z : \E k \in (n + 1)..m : \E at \in 1..Size(s[k]) : g = off[k] + at
  BY Zenon DEF Laid
<1> HIDE DEF m, z
<1>3. 1 \in 1..z
  BY <1>1
<1>4. PICK k \in (n + 1)..m : TRUE
  BY <1>2, <1>3, Zenon
<1>5. n < m /\ n + 1 \in (n + 1)..m
  BY <1>0, <1>4
<1>6. \A at \in 1..Size(s[n + 1]) : ByteAt(b, t, 0 + at) = [frame |-> n + 1, at |-> at]
  BY <1>2, <1>5, Zenon
<1>7. Size(s[n + 1]) \in Nat
  <2>1. n + 1 \in 1..m
    BY <1>0, <1>5
  <2> QED
    BY <2>1, LegalNumbers DEF m
<1>8. ASSUME NEW at \in 1..Size(s[n + 1]), at <= Len(b) PROVE b[at] = [frame |-> n + 1, at |-> at]
  <2>1. at \in Nat
    BY <1>7, Piece, Zenon
  <2>2. 0 + at = at
    BY <2>1
  <2> QED
    BY <1>6, <1>8, <2>2, Zenon DEF ByteAt
<1> QED
  BY <1>5, <1>8, Zenon DEF m, Front

\* When there is no more than the next frame, there are no descriptors but
\* its own.
LEMMA OneFrame ==
    ASSUME NEW s, Legal(s), NEW n \in 0..Len(s), n < Len(s), NEW z \in Nat, NEW off, Places(s, n, z, off),
           NEW got \in Nat, NEW l \in Nat, NEW st, Shares(s, n, off, got, l, st), got <= Size(s[n + 1])
    PROVE  /\ l <= s[n + 1].fds /\ s[n + 1].fds <= kMaxFrameFds
           /\ got > 0 => l = s[n + 1].fds
<1> DEFINE m == Len(s)
           a == s[n + 1].fds
           d == Size(s[n + 1])
<1>0. m \in Nat /\ n \in Nat /\ n < m
  BY Lengths
<1>1. n + 1 \in (n + 1)..m /\ (n + 1) + 1 = n + 2 /\ n + 2 \in (n + 1)..(m + 1)
  <2> HIDE DEF m
  <2> QED
    BY <1>0
<1>2. d \in Nat /\ a \in 0..kMaxFrameFds /\ off[n + 1] = 0 /\ off[n + 2] = 0 + d
  BY <1>1, Zenon DEF Places
<1>3. st[n + 2] = 0 + Got(s, off, got, n + 1) /\ (off[n + 2] >= got => st[n + 2] = l)
  BY <1>1, Zenon DEF Shares
<1>4. Got(s, off, got, n + 1) = IF 0 < got THEN a ELSE 0
  BY <1>2, Zenon DEF Got
<1>5. a \in Nat /\ a <= kMaxFrameFds
  BY <1>2, FramingAssumption
<1> HIDE DEF a, d
<1>6. off[n + 2] >= got
  <2>1. got <= d
    BY DEF d
  <2> QED
    BY <1>2, <2>1
<1>7. l = 0 + (IF 0 < got THEN a ELSE 0)
  BY <1>3, <1>4, <1>6, Zenon
<1>8. l <= a /\ (got > 0 => l = a)
  BY <1>5, <1>7
<1> QED
  BY <1>5, <1>8 DEF a

\* A peer that sends one frame at a time is within pump's bounds.
LEMMA OneAtATime ==
    ASSUME NEW s, Legal(s), NEW n \in 0..Len(s), Len(s) <= n + 1, NEW z \in Nat, NEW off, Places(s, n, z, off),
           NEW got \in Nat, NEW l \in Nat, NEW st, Shares(s, n, off, got, l, st), got <= z
    PROVE  got <= kMaxBufferBytes /\ l <= kMaxPendingFds
<1> DEFINE m == Len(s)
<1>0. m \in Nat /\ n \in Nat /\ (m = n \/ m = n + 1)
  BY Lengths
<1>1. off[m + 1] = z /\ off[n + 1] = 0 /\ st[m + 1] = l /\ st[n + 1] = 0
  BY Zenon DEF Places, Shares
<1>2. CASE m = n
  <2>1. z = 0 /\ l = 0
    BY <1>1, <1>2
  <2>2. got = 0
    BY <2>1
  <2> QED
    BY <2>1, <2>2, FramingAssumption DEF kMaxBufferBytes, kMaxPendingFds
<1>3. CASE m = n + 1
  <2>1. n < m /\ n + 1 \in 1..m /\ n + 1 \in (n + 1)..m
    BY <1>0, <1>3
  <2> DEFINE d == Size(s[n + 1])
             a == s[n + 1].fds
             x == s[n + 1].len
  <2>2. off[(n + 1) + 1] = off[n + 1] + d
    BY <2>1, Zenon DEF Places
  <2>3. x \in 0..kMaxFrameBytes /\ a \in 0..kMaxFrameFds /\ d \in Nat
    BY <2>1, LegalNumbers
  <2>4. d = kFrameHeaderBytes + x
    BY DEF Size
  <2> HIDE DEF d, x
  <2>5. z = d
    BY <1>1, <1>3, <2>2, <2>3
  <2>6. got <= d
    BY <2>5
  <2>7. l <= a /\ a <= kMaxFrameFds
    BY <2>1, <2>6, OneFrame, Zenon DEF d
  <2> HIDE DEF a
  <2>8. got <= kFrameHeaderBytes + kMaxFrameBytes
    BY <2>3, <2>4, <2>6, FramingAssumption
  <2>9. l <= 2 * kMaxFrameFds
    BY <2>3, <2>7, FramingAssumption
  <2> QED
    BY <2>8, <2>9 DEF kMaxBufferBytes, kMaxPendingFds
<1> QED
  BY <1>0, <1>2, <1>3

\* The frame that is next is all there.
Whole(s, r) ==
    /\ Len(r.frames) < Len(s)
    /\ Len(r.buffer) >= Size(s[Len(r.frames) + 1])

\* The body of a frame in the buffer.
LEMMA SameBody ==
    ASSUME NEW x \in Seq(Byte), NEW y \in Seq(Byte), NEW i \in Nat \ {0}, NEW d \in Nat, d <= Len(x), d <= Len(y),
           \A at \in 1..d : x[at] = y[at]
    PROVE  SubSeq(x, i, d) = SubSeq(y, i, d) /\ SubSeq(x, i, d) \in Seq(Byte)
<1>1. SubSeq(x, i, d) \in Seq(Byte) /\ SubSeq(y, i, d) \in Seq(Byte)
  OBVIOUS
<1>2. Len(SubSeq(x, i, d)) = Len(SubSeq(y, i, d)) /\ \A j \in 1..Len(SubSeq(x, i, d)) : SubSeq(x, i, d)[j] = SubSeq(y, i, d)[j]
  OBVIOUS
<1> QED
  BY <1>1, <1>2, SameSequence

\* The receiver once the next frame is taken off its buffer.
Rest(s, r) ==
    LET f == s[Len(r.frames) + 1]
    IN  [frame |-> [body |-> SubSeq(r.buffer, kFrameHeaderBytes + 1, Size(f)), fds |-> SubSeq(r.fds, 1, f.fds)],
         buffer |-> SubSeq(r.buffer, Size(f) + 1, Len(r.buffer)),
         fds |-> SubSeq(r.fds, f.fds + 1, Len(r.fds))]

\* Taking the next frame hands it on as it was sent, and what is left is in
\* order.
LEMMA TakingIsSound ==
    ASSUME NEW s, Legal(s), NEW r, NEW t \in Seq(Byte), Sound(s, r, t), Whole(s, r)
    PROVE  /\ r.buffer[1] = [frame |-> Len(r.frames) + 1, at |-> 1]
           /\ s[Len(r.frames) + 1].fds \in 0..Len(r.fds)
           /\ Len(Rest(s, r).buffer) = Len(r.buffer) - Size(s[Len(r.frames) + 1])
           /\ Len(Rest(s, r).fds) = Len(r.fds) - s[Len(r.frames) + 1].fds
           /\ r.mode = "blocking" => Len(Rest(s, r).buffer) = 0
           /\ Sound(s, [r EXCEPT !.buffer = Rest(s, r).buffer, !.fds = Rest(s, r).fds,
                                 !.frames = Append(@, Rest(s, r).frame)], t)
<1> DEFINE b == r.buffer
           n == Len(r.frames)
           g == r.fds
           f == s[n + 1]
           d == Size(f)
           c == SubSeq(b, d + 1, Len(b))
           q == SubSeq(g, f.fds + 1, Len(g))
           body == SubSeq(b, kFrameHeaderBytes + 1, d)
           own == SubSeq(g, 1, f.fds)
           e == [r EXCEPT !.buffer = c, !.fds = q, !.frames = Append(@, [body |-> body, fds |-> own])]
<1>1. r \in Receivers /\ r.status = "Ok" /\ Arrived(s, r) /\ \E off, st : InStep(s, r, t, off, st)
  BY Zenon DEF Sound
<1>2. PICK off, st : InStep(s, r, t, off, st)
  BY <1>1, Zenon
<1>3. /\ n \in 0..Len(s) /\ Laid(s, n, b, t, off) /\ Handed(s, n, off, Len(b), g, st)
      /\ Places(s, n, Len(b) + Len(t), off)
  <2>1. InOrderAt(s, r, t, off, st)
    BY <1>1, <1>2, InStepFacts, Zenon
  <2> QED
    BY <2>1, Zenon DEF InOrderAt
<1>4. b \in Seq(Byte) /\ g \in Seq(Nat) /\ r.frames \in Seq([body : Seq(Byte), fds : Seq(Nat)]) /\ n \in Nat /\ Len(b) \in Nat
  BY <1>1, ReceiverIs, Zenon
<1>5. n < Len(s) /\ Len(b) >= d
  BY Zenon DEF Whole
<1>6. Len(s) \in Nat /\ Len(t) \in Nat /\ s \in Seq(Frame)
  BY DEF Legal
<1>7. r.mode = "blocking" /\ b # <<>> => Len(b) <= d
  BY <1>2, Zenon DEF InStep
<1> HIDE DEF b, n, g
<1>8. n + 1 \in 1..Len(s) /\ (n + 1) + 1 = n + 2
  BY <1>4, <1>5, <1>6
<1>9. f.len \in 0..kMaxFrameBytes /\ f.fds \in 0..kMaxFrameFds /\ d \in Nat \ {0}
  BY <1>8, LegalNumbers, Zenon
<1>10. f.len \in Nat /\ d = kFrameHeaderBytes + f.len
  BY <1>9, FramingAssumption DEF Size
<1> HIDE DEF f, d
<1>11. d \in Nat /\ d > 0 /\ d <= Len(b) /\ Len(b) + Len(t) \in Nat /\ Len(b) <= Len(b) + Len(t) /\ Len(b) + Len(t) > 0
  <2> DEFINE x == Len(b)
             y == Len(t)
  <2>1. x \in Nat /\ y \in Nat /\ d \in Nat \ {0} /\ x >= d
    BY <1>4, <1>5, <1>6, <1>9, Zenon
  <2> HIDE DEF x, y
  <2>2. d \in Nat /\ d > 0 /\ d <= x /\ x + y \in Nat /\ x <= x + y /\ x + y > 0
    BY <2>1
  <2> QED
    BY <2>2, Zenon DEF x, y
<1>12. \A at \in 1..d : at <= Len(b) => b[at] = [frame |-> n + 1, at |-> at]
  <2>1. Front(s, n, b)
    BY <1>3, <1>4, <1>11, FrontIs, Zenon
  <2> QED
    BY <2>1, Zenon DEF f, d, Front
<1>13. \A at \in 1..d : b[at] = [frame |-> n + 1, at |-> at]
  <2>1. \A at \in 1..d : at <= Len(b)
    BY <1>4, <1>11
  <2> QED
    BY <1>12, <2>1, Zenon
<1>14. b[1] = [frame |-> n + 1, at |-> 1]
  <2>1. 1 \in 1..d
    BY <1>11
  <2> QED
    BY <1>13, <2>1, Zenon
<1> DEFINE h == Lowered(off, d)
           v == Lowered(st, f.fds)
<1>15. Laid(s, n + 1, c, t, h) /\ Moved(s, n, d, off, h)
  <2>1. Size(s[n + 1]) <= Len(b)
    BY <1>11 DEF d, f
  <2>2. /\ Laid(s, n + 1, SubSeq(b, Size(s[n + 1]) + 1, Len(b)), t, Lowered(off, Size(s[n + 1])))
        /\ Moved(s, n, Size(s[n + 1]), off, Lowered(off, Size(s[n + 1])))
    BY <1>3, <1>4, <1>5, <2>1, CutLaid, Zenon
  <2> QED
    BY <2>2, Zenon DEF f, d
<1> HIDE DEF h
<1>16. /\ f.fds \in 0..Len(g) /\ \A j \in 1..f.fds : g[j] = n + 1
       /\ Handed(s, n + 1, h, Len(b) - d, q, v)
  <2>1. /\ HasOwn(s, n, g)
        /\ Handed(s, n + 1, h, Len(b) - d, SubSeq(g, s[n + 1].fds + 1, Len(g)), Lowered(st, s[n + 1].fds))
    <3> HIDE DEF q, v
    <3> QED
      BY <1>3, <1>4, <1>5, <1>11, <1>15, CutHanded, Zenon
  <2> QED
    BY <2>1, Zenon DEF f, HasOwn
<1> HIDE DEF v
<1>17. c \in Seq(Byte) /\ Len(c) = Len(b) - d
  <2>1. d \in 0..Len(b)
    BY <1>4, <1>11
  <2> QED
    BY <1>4, <2>1, Suffix, Zenon
<1>18. q \in Seq(Nat) /\ Len(q) = Len(g) - f.fds /\ own \in Seq(Nat) /\ Len(own) = f.fds /\ \A j \in 1..f.fds : own[j] = g[j]
  <2> DEFINE a == f.fds
  <2>1. a \in 0..Len(g)
    BY <1>16
  <2> HIDE DEF a
  <2>2. SubSeq(g, a + 1, Len(g)) \in Seq(Nat) /\ Len(SubSeq(g, a + 1, Len(g))) = Len(g) - a
    BY <1>4, <2>1, Suffix, Zenon
  <2>3. /\ SubSeq(g, 1, a) \in Seq(Nat) /\ Len(SubSeq(g, 1, a)) = a
        /\ \A j \in 1..a : SubSeq(g, 1, a)[j] = g[j]
    BY <1>4, <2>1, Prefix, Zenon
  <2> QED
    BY <2>2, <2>3, Zenon DEF a
<1>19. body \in Seq(Byte) /\ body = SubSeq(encodeFrame(n + 1, f), kFrameHeaderBytes + 1, d)
  <2> DEFINE x == encodeFrame(n + 1, f)
  <2>1. n + 1 \in Nat /\ kFrameHeaderBytes + 1 \in Nat \ {0}
    BY <1>4, FramingAssumption
  <2>2. x \in Seq(Byte) /\ Len(x) = d /\ \A at \in 1..d : x[at] = [frame |-> n + 1, at |-> at]
    BY <1>10, <2>1, EncodedIs, Zenon DEF d
  <2> HIDE DEF x
  <2>3. d <= Len(x) /\ \A at \in 1..d : b[at] = x[at]
    <3>1. d <= Len(x)
      BY <1>11, <2>2
    <3> QED
      BY <1>13, <2>2, <3>1, Zenon
  <2> DEFINE i == kFrameHeaderBytes + 1
  <2>4. SubSeq(b, i, d) = SubSeq(x, i, d) /\ SubSeq(b, i, d) \in Seq(Byte)
    <3> HIDE DEF i
    <3>1. i \in Nat \ {0} /\ d \in Nat /\ d <= Len(b) /\ d <= Len(x) /\ \A at \in 1..d : b[at] = x[at]
      BY <1>11, <2>1, <2>3, Zenon DEF i
    <3> QED
      BY <1>4, <2>2, <3>1, SameBody
  <2> QED
    BY <2>4, Zenon DEF x
<1>20. own = [j \in 1..f.fds |-> n + 1]
  <2> DEFINE a == f.fds
             y == [j \in 1..a |-> n + 1]
  <2>1. a \in Nat /\ n + 1 \in Nat
    BY <1>4, <1>9, FramingAssumption
  <2> HIDE DEF a
  <2>2. y \in Seq(Nat) /\ Len(y) = a /\ \A j \in 1..a : y[j] = n + 1
    BY <2>1
  <2> HIDE DEF y
  <2>3. Len(own) = Len(y) /\ \A j \in 1..Len(own) : own[j] = y[j]
    BY <1>16, <1>18, <2>2, Zenon DEF a
  <2> QED
    BY <1>18, <2>2, <2>3, SameSequence, Zenon DEF y, a
<1> HIDE DEF c, q, body, own
<1> DEFINE w == [body |-> body, fds |-> own]
<1>21. w \in [body : Seq(Byte), fds : Seq(Nat)] /\ w.body = body /\ w.fds = own
  BY <1>18, <1>19
<1>22. IsFrame(w, s, n + 1)
  BY <1>10, <1>19, <1>20, <1>21, Zenon DEF IsFrame, f
<1> HIDE DEF w
<1>23. e = [r EXCEPT !.buffer = c, !.fds = q, !.frames = Append(@, w)]
  BY Zenon DEF w
<1>24. /\ e \in Receivers /\ e.buffer = c /\ e.fds = q /\ e.frames = Append(r.frames, w) /\ e.mode = r.mode /\ e.status = "Ok"
  <2> DEFINE p == Append(r.frames, w)
  <2>1. p \in Seq([body : Seq(Byte), fds : Seq(Nat)])
    BY <1>4, <1>21
  <2> HIDE DEF p
  <2>2. e = [r EXCEPT !.buffer = c, !.fds = q, !.frames = p]
    BY <1>23 DEF p
  <2> HIDE DEF e
  <2>3. e \in Receivers /\ e.buffer = c /\ e.fds = q /\ e.frames = p /\ e.mode = r.mode /\ e.status = r.status
    BY <1>1, <1>17, <1>18, <2>1, <2>2 DEF Receivers
  <2> QED
    BY <1>1, <2>3, Zenon DEF p
<1> HIDE DEF e
<1>25. Len(e.frames) = n + 1 /\ e.frames[n + 1] = w /\ \A i \in 1..n : e.frames[i] = r.frames[i]
  BY <1>4, <1>24 DEF n
<1>26. Arrived(s, e)
  <2> SUFFICES ASSUME NEW i \in 1..(n + 1) PROVE i <= Len(s) /\ IsFrame(e.frames[i], s, i)
    BY <1>25, Zenon DEF Arrived
  <2>1. CASE i = n + 1
    BY <1>8, <1>22, <1>25, <2>1
  <2>2. CASE i # n + 1
    <3>1. i \in 1..n
      BY <1>4, <2>2
    <3> QED
      BY <1>1, <1>25, <3>1, Zenon DEF Arrived, n
  <2> QED
    BY <2>1, <2>2
<1>27. e.mode = "blocking" => Len(c) = 0
  <2>1. b # <<>>
    BY <1>4, <1>11
  <2> QED
    BY <1>4, <1>7, <1>11, <1>17, <1>24, <2>1
<1>28. InStep(s, e, t, h, v)
  <2>1. n + 1 <= Len(s)
    BY <1>8
  <2>2. Handed(s, n + 1, h, Len(c), q, v)
    BY <1>16, <1>17, Zenon
  <2>3. e.mode = "blocking" => c = <<>>
    BY <1>17, <1>27
  <2> QED
    BY <1>15, <1>24, <1>25, <2>1, <2>2, <2>3, Zenon DEF InStep
<1>29. Sound(s, e, t)
  BY <1>24, <1>26, <1>28, Zenon DEF Sound
<1>30. Rest(s, r) = [frame |-> w, buffer |-> c, fds |-> q]
  BY Zenon DEF Rest, w, c, q, body, own, d, f, b, g, n
<1>31. Rest(s, r).frame = w /\ Rest(s, r).buffer = c /\ Rest(s, r).fds = q
  BY <1>30
<1> QED
  BY <1>14, <1>16, <1>17, <1>18, <1>23, <1>24, <1>27, <1>29, <1>31, Zenon DEF b, g, n, f, d

\* What a receiver in order reads as the header is the next frame's.
LEMMA HeaderIs ==
    ASSUME Legal(sent), NEW r, NEW t \in Seq(Byte), Sound(sent, r, t), r.buffer # <<>>
    PROVE  /\ Len(r.frames) < Len(sent) /\ Len(r.frames) + 1 \in 1..Len(sent)
           /\ Header(r.buffer[1]) = sent[Len(r.frames) + 1]
           /\ ~Refused(Header(r.buffer[1]))
<1> DEFINE b == r.buffer
           n == Len(r.frames)
<1>1. r \in Receivers /\ \E off, st : InStep(sent, r, t, off, st)
  BY Zenon DEF Sound
<1>2. PICK off, st : InStep(sent, r, t, off, st)
  BY <1>1, Zenon
<1>3. n \in 0..Len(sent) /\ Laid(sent, n, b, t, off)
  <2>1. InOrderAt(sent, r, t, off, st)
    BY <1>1, <1>2, InStepFacts, Zenon
  <2> QED
    BY <2>1, Zenon DEF InOrderAt
<1>4. b \in Seq(Byte) /\ n \in Nat /\ b # <<>> /\ Len(sent) \in Nat
  BY <1>1, ReceiverIs DEF Legal
<1> HIDE DEF b, n
<1>5. Len(b) + Len(t) > 0 /\ 1 <= Len(b)
  BY <1>4
<1>6. n < Len(sent) /\ \A at \in 1..Size(sent[n + 1]) : at <= Len(b) => b[at] = [frame |-> n + 1, at |-> at]
  BY <1>3, <1>4, <1>5, FrontIs, Zenon DEF Front
<1>7. n + 1 \in 1..Len(sent)
  BY <1>4, <1>6
<1>8. 1 \in 1..Size(sent[n + 1])
  <2>1. Size(sent[n + 1]) \in Nat \ {0}
    BY <1>7, LegalNumbers, Zenon
  <2> QED
    BY <2>1
<1>9. b[1] = [frame |-> n + 1, at |-> 1]
  BY <1>5, <1>6, <1>8, Zenon
<1>10. b[1].at = 1 /\ b[1].frame = n + 1
  BY <1>9
<1>11. Header(b[1]) = sent[n + 1]
  BY <1>10, Zenon DEF Header
<1>12. ~Refused(sent[n + 1])
  BY <1>7, Zenon DEF Legal
<1> QED
  BY <1>6, <1>7, <1>11, <1>12, Zenon DEF b, n

\* One pass of extract takes a frame that is all there and leaves the
\* receiver alone otherwise.
Pumping(r, t, n) == Sound(sent, r, t) /\ r.mode = "pump" /\ Len(r.frames) >= n

\* A pass of extract()'s loop takes the next frame, or leaves things as they are.
LEMMA OnePass ==
    ASSUME Legal(sent), NEW r, NEW t \in Seq(Byte), NEW n \in Nat, Pumping(r, t, n)
    PROVE  /\ Pumping(ExtractOne(r), t, n)
           /\ Whole(sent, r) => Len(ExtractOne(r).buffer) < Len(r.buffer)
           /\ ~Whole(sent, r) => ExtractOne(r) = r
<1> DEFINE b == r.buffer
           k == Len(r.frames)
           h == Header(b[1])
           x == ExtractOne(r)
<1>1. r \in Receivers /\ r.status = "Ok" /\ Sound(sent, r, t) /\ r.mode = "pump" /\ k >= n
  BY Zenon DEF Sound, Pumping
<1>2. b \in Seq(Byte) /\ r.fds \in Seq(Nat) /\ r.frames \in Seq([body : Seq(Byte), fds : Seq(Nat)]) /\ k \in Nat /\ Len(b) \in Nat
  BY <1>1, ReceiverIs, Zenon
<1>3. CASE Len(b) < kFrameHeaderBytes
  <2>1. x = r
    BY <1>3, Zenon DEF ExtractOne
  <2>2. ~Whole(sent, r)
    <3> SUFFICES ASSUME k < Len(sent), Len(b) >= Size(sent[k + 1]) PROVE FALSE
      BY Zenon DEF Whole
    <3>1. k + 1 \in 1..Len(sent)
      BY <1>2 DEF Legal
    <3>2. Size(sent[k + 1]) \in Nat /\ Size(sent[k + 1]) >= kFrameHeaderBytes
      BY <3>1, LegalNumbers
    <3> QED
      BY <1>2, <1>3, <3>2, FramingAssumption
  <2> QED
    BY <2>1, <2>2, Zenon
<1>4. CASE ~(Len(b) < kFrameHeaderBytes)
  <2>1. b # <<>>
    BY <1>2, <1>4, FramingAssumption
  <2>2. k < Len(sent) /\ k + 1 \in 1..Len(sent) /\ h = sent[k + 1]
    BY <1>1, <2>1, HeaderIs, Zenon
  <2> DEFINE f == sent[k + 1]
  <2>3. f.len \in 0..kMaxFrameBytes /\ f.fds \in 0..kMaxFrameFds /\ Size(f) \in Nat \ {0}
    BY <2>2, LegalNumbers, Zenon
  <2> HIDE DEF f
  <2>4. ~(f.len > kMaxFrameBytes) /\ ~(f.fds > kMaxFrameFds) /\ Size(f) = kFrameHeaderBytes + f.len /\ f.fds \in Nat
    BY <2>3, FramingAssumption DEF Size
  <2>5. h = f
    BY <2>2 DEF f
  <2> HIDE DEF h
  <2>6. CASE Len(b) < Size(f)
    <3>1. x = r
      BY <1>1, <1>4, <2>4, <2>5, <2>6, Zenon DEF ExtractOne, h
    <3>2. ~(Len(b) >= Size(f))
      BY <1>2, <2>3, <2>6
    <3>3. ~Whole(sent, r)
      BY <3>2, Zenon DEF Whole, f
    <3> QED
      BY <3>1, <3>3, Zenon
  <2>7. CASE ~(Len(b) < Size(f))
    <3>1. Len(b) >= Size(f)
      BY <1>2, <2>3, <2>7
    <3>2. Whole(sent, r)
      BY <2>2, <3>1, Zenon DEF Whole, f
    <3> DEFINE w == Rest(sent, r)
               y == [r EXCEPT !.buffer = w.buffer, !.fds = w.fds, !.frames = Append(@, w.frame)]
    <3>3. /\ f.fds \in 0..Len(r.fds) /\ Len(w.buffer) = Len(b) - Size(f) /\ Sound(sent, y, t)
      BY <1>1, <3>2, TakingIsSound, Zenon DEF f
    <3>4. ~(Len(r.fds) < f.fds)
      BY <1>2, <3>3
    <3>5. Len(SubSeq(r.fds, 1, f.fds)) = f.fds
      <4> DEFINE a == f.fds
      <4>1. a \in 0..Len(r.fds)
        BY <3>3
      <4> HIDE DEF a
      <4>2. Len(SubSeq(r.fds, 1, a)) = a
        BY <1>2, <4>1, Prefix, Zenon
      <4> QED
        BY <4>2 DEF a
    <3>6. Cut(b, r.fds) = w
      <4>1. Cut(b, r.fds) =
              [frame |-> [body |-> SubSeq(b, kFrameHeaderBytes + 1, Size(f)), fds |-> SubSeq(r.fds, 1, f.fds)],
               buffer |-> SubSeq(b, Size(f) + 1, Len(b)),
               fds |-> SubSeq(r.fds, f.fds + 1, Len(r.fds))]
        BY <2>4, <2>5, <3>5, Zenon DEF Cut, TakesOwn, h
      <4> QED
        BY <4>1, Zenon DEF Rest, f
    <3>7. x = y
      BY <1>1, <1>4, <2>4, <2>5, <2>7, <3>4, <3>6, Zenon DEF ExtractOne, h
    <3>8. y.mode = r.mode /\ y.buffer = w.buffer /\ y.frames = Append(r.frames, w.frame)
      BY <1>1 DEF Receivers
    <3>9. Len(y.frames) = k + 1
      <4>1. Len(Append(r.frames, w.frame)) = k + 1
        <5> HIDE DEF w
        <5> QED
          BY <1>2
      <4> QED
        BY <3>8, <4>1, Zenon
    <3> HIDE DEF y, w
    <3>10. Len(y.frames) >= n /\ Len(y.buffer) < Len(b)
      <4>1. k + 1 >= n
        <5> HIDE DEF k
        <5> QED
          BY <1>1, <1>2
      <4>2. Len(b) - Size(f) < Len(b)
        BY <1>2, <2>3
      <4> QED
        BY <3>3, <3>8, <3>9, <4>1, <4>2, Zenon
    <3>11. Pumping(y, t, n)
      BY <1>1, <3>3, <3>8, <3>10, Zenon DEF Pumping, y
    <3> QED
      BY <3>2, <3>7, <3>10, <3>11, Zenon
  <2> QED
    BY <2>6, <2>7
<1> QED
  BY <1>3, <1>4

\* extract takes every frame that is all there.
LEMMA ExtractTakesAll ==
    ASSUME Legal(sent), NEW r, NEW t \in Seq(Byte), NEW n \in Nat, Pumping(r, t, n)
    PROVE  Pumping(extract(r), t, n) /\ ~Whole(sent, extract(r))
<1> DEFINE S == {x \in Receivers : Pumping(x, t, n)}
           body == [x \in Receivers |-> ExtractOne(x)]
           L == Loop(r, body)
           z == Len(r.buffer)
           T == {i \in Nat : ~Whole(sent, L[i]) \/ Len(L[i].buffer) + i <= z}
<1>1. \A x \in S : x \in Receivers /\ Pumping(x, t, n)
  BY Zenon
<1>2. \A x : Pumping(x, t, n) => x \in S
  BY Zenon DEF Pumping, Sound
<1>3. r \in S
  BY <1>2, Zenon
<1>4. z \in Nat
  <2>1. r \in Receivers
    BY <1>1, <1>3, Zenon
  <2> QED
    BY <2>1, ReceiverIs, Zenon
<1> HIDE DEF S
<1>5. ASSUME NEW x \in S
      PROVE  /\ body[x] = ExtractOne(x) /\ body[x] \in S
             /\ Whole(sent, x) => Len(body[x].buffer) < Len(x.buffer)
             /\ ~Whole(sent, x) => body[x] = x
  <2>1. x \in Receivers /\ Pumping(x, t, n)
    BY <1>1, Zenon
  <2>2. body[x] = ExtractOne(x)
    BY <2>1, Zenon
  <2>3. /\ Pumping(ExtractOne(x), t, n)
        /\ Whole(sent, x) => Len(ExtractOne(x).buffer) < Len(x.buffer)
        /\ ~Whole(sent, x) => ExtractOne(x) = x
    BY <2>1, OnePass, Zenon
  <2> HIDE DEF body
  <2> QED
    BY <1>2, <2>2, <2>3, Zenon
<1> HIDE DEF body
<1>6. Runs(L, S, r, body)
  <2>1. \A x \in S : body[x] \in S
    BY <1>5, Zenon
  <2> QED
    BY <1>3, <2>1, LoopStays, Zenon
<1> HIDE DEF L
<1>7. L[0] = r /\ \A i \in Nat : L[i] \in S /\ L[i + 1] = body[L[i]]
  BY <1>6 DEF Runs
<1>8. 0 \in T
  <2>1. 0 \in Nat /\ z + 0 <= z
    <3> HIDE DEF z
    <3> QED
      BY <1>4
  <2> QED
    BY <1>7, <2>1, Zenon
<1>9. ASSUME NEW i \in Nat, i \in T PROVE i + 1 \in T
  <2>1. L[i] \in S /\ L[i + 1] = body[L[i]] /\ L[i + 1] \in S /\ i + 1 \in Nat
    BY <1>7
  <2>2. CASE ~Whole(sent, L[i])
    BY <1>5, <2>1, <2>2, Zenon
  <2>3. CASE Whole(sent, L[i])
    <3> DEFINE x == Len(L[i].buffer)
               y == Len(L[i + 1].buffer)
    <3>1. y < x /\ x + i <= z
      BY <1>5, <1>9, <2>1, <2>3, Zenon
    <3>2. x \in Nat /\ y \in Nat
      BY <1>1, <2>1, ReceiverIs, Zenon
    <3> HIDE DEF x, y
    <3>3. y + (i + 1) <= z
      BY <1>4, <3>1, <3>2
    <3> QED
      BY <2>1, <3>3 DEF y
  <2> QED
    BY <2>2, <2>3
<1> HIDE DEF T
<1>10. Nat \subseteq T
  BY <1>8, <1>9, Induction, Zenon
<1>11. ~Whole(sent, L[z])
  <2> SUFFICES ASSUME Whole(sent, L[z]) PROVE FALSE
    OBVIOUS
  <2> DEFINE e == L[z]
  <2>1. e \in S /\ Len(e.buffer) + z <= z
    BY <1>4, <1>7, <1>10, Zenon DEF T
  <2>2. e \in Receivers
    BY <1>1, <2>1, Zenon
  <2>3. Len(e.frames) \in Nat /\ Len(e.buffer) \in Nat
    BY <2>2, ReceiverIs, Zenon
  <2>4. Len(e.frames) < Len(sent) /\ Len(e.buffer) >= Size(sent[Len(e.frames) + 1])
    BY Zenon DEF Whole
  <2> HIDE DEF e
  <2>5. Len(e.frames) + 1 \in 1..Len(sent)
    BY <2>3, <2>4 DEF Legal
  <2>6. Size(sent[Len(e.frames) + 1]) \in Nat \ {0}
    BY <2>5, LegalNumbers, Zenon
  <2> DEFINE x == Len(e.buffer)
             y == Size(sent[Len(e.frames) + 1])
  <2>7. x \in Nat /\ y \in Nat \ {0} /\ x >= y /\ x + z <= z
    BY <2>1, <2>3, <2>4, <2>6, Zenon
  <2> HIDE DEF x, y, z
  <2> QED
    BY <1>4, <2>7
<1>12. extract(r) = L[z]
  BY Zenon DEF extract, L, body
<1> QED
  BY <1>1, <1>4, <1>7, <1>11, <1>12, Zenon

\* A receiver in order that has read the buffer c and the descriptors g, with
\* u still to come.
ReadTo(r, c, u, g) ==
    /\ c \in Seq(Byte) /\ u \in Seq(Byte) /\ g \in Seq(Nat)
    /\ Len(r.frames) \in 0..Len(sent) /\ Len(r.frames) < Len(sent)
    /\ \E off, st :
          /\ Laid(sent, Len(r.frames), c, u, off) /\ Handed(sent, Len(r.frames), off, Len(c), g, st)
          /\ Places(sent, Len(r.frames), Len(c) + Len(u), off)
          /\ Shares(sent, Len(r.frames), off, Len(c), Len(g), st)

\* A read moves bytes from the stream to the buffer, with the descriptors that ride on them.
LEMMA ReadingIsSound ==
    ASSUME Legal(sent), NEW r, NEW t \in Seq(Byte), Sound(sent, r, t), NEW i \in 1..Len(t),
           \A j \in 2..i : Riding(t[j]) = <<>>
    PROVE  /\ ReadTo(r, r.buffer \o SubSeq(t, 1, i), SubSeq(t, i + 1, Len(t)), r.fds \o Riding(t[1]))
           /\ Len(r.buffer \o SubSeq(t, 1, i)) = Len(r.buffer) + i
<1> DEFINE b == r.buffer
           n == Len(r.frames)
           c == b \o SubSeq(t, 1, i)
           u == SubSeq(t, i + 1, Len(t))
           g == r.fds \o Riding(t[1])
<1>1. r \in Receivers /\ \E off, st : InStep(sent, r, t, off, st)
  BY Zenon DEF Sound
<1>2. PICK off, st : InStep(sent, r, t, off, st)
  BY <1>1, Zenon
<1>3. n \in 0..Len(sent) /\ Laid(sent, n, b, t, off) /\ Handed(sent, n, off, Len(b), r.fds, st)
  <2>1. InOrderAt(sent, r, t, off, st)
    BY <1>1, <1>2, InStepFacts, Zenon
  <2> QED
    BY <2>1, Zenon DEF InOrderAt
<1>4. b \in Seq(Byte) /\ r.fds \in Seq(Nat) /\ n \in Nat
  BY <1>1, ReceiverIs, Zenon
<1> HIDE DEF b, n
<1>5. i \in 0..Len(t) /\ Len(b) + Len(t) > 0
  BY <1>4
<1>6. /\ c \in Seq(Byte) /\ u \in Seq(Byte) /\ Len(c) = Len(b) + i /\ Len(c) + Len(u) = Len(b) + Len(t)
      /\ \A x \in 1..(Len(b) + Len(t)) : ByteAt(c, u, x) = ByteAt(b, t, x)
  BY <1>4, <1>5, ReadingMoves, Zenon
<1>7. Riding(t[1]) \in Seq(Nat) /\ \E v : Handed(sent, n, off, Len(b) + i, g, v)
  BY <1>3, <1>4, ReadHanded, Zenon
<1> HIDE DEF c, u
<1>8. Laid(sent, n, c, u, off)
  BY <1>3, <1>4, <1>6, ReadLaid, Zenon
<1>9. n < Len(sent)
  BY <1>3, <1>4, <1>5, FrontIs, Zenon DEF Front
<1>10. g \in Seq(Nat)
  BY <1>4, <1>7, Joined, Zenon
<1> HIDE DEF g
<1>11. PICK v : Handed(sent, n, off, Len(c), g, v)
  BY <1>6, <1>7, Zenon
<1>12. Places(sent, n, Len(c) + Len(u), off)
  BY <1>3, <1>6, <1>8, LaidFacts, Zenon
<1>13. Len(c) \in Nat /\ Len(c) + Len(u) \in Nat /\ Len(c) <= Len(c) + Len(u)
  BY <1>6
<1>14. Shares(sent, n, off, Len(c), Len(g), v)
  BY <1>3, <1>10, <1>11, <1>12, <1>13, HandedFacts, Zenon
<1>15. ReadTo(r, c, u, g)
  BY <1>3, <1>6, <1>8, <1>9, <1>10, <1>11, <1>12, <1>14, Zenon DEF ReadTo, n
<1> QED
  BY <1>6, <1>15, Zenon DEF b, c, u, g

\* ... it is in order still.
LEMMA ReaderIsSound ==
    ASSUME Legal(sent), NEW r, NEW t, Sound(sent, r, t), NEW c, NEW u, NEW g, ReadTo(r, c, u, g),
           NEW e \in Receivers, e.buffer = c, e.fds = g, e.frames = r.frames, e.mode = r.mode, e.status = "Ok",
           r.mode = "blocking" => Len(c) <= Size(sent[Len(r.frames) + 1])
    PROVE  Sound(sent, e, u)
<1>1. Arrived(sent, e)
  BY Zenon DEF Sound, Arrived
<1>2. PICK off, st : Laid(sent, Len(r.frames), c, u, off) /\ Handed(sent, Len(r.frames), off, Len(c), g, st)
  BY Zenon DEF ReadTo
<1>3. Len(r.frames) <= Len(sent)
  <2>1. Len(r.frames) \in 0..Len(sent)
    BY Zenon DEF ReadTo
  <2> QED
    BY <2>1, Lengths, Zenon
<1>4. InStep(sent, e, u, off, st)
  BY <1>2, <1>3, Zenon DEF InStep
<1> QED
  BY <1>1, <1>4, Zenon DEF Sound

\* A receiver whose buffer is read within the next frame has descriptors of
\* that frame only.
LEMMA ReaderHasOwn ==
    ASSUME Legal(sent), NEW r, NEW c, NEW u, NEW g, ReadTo(r, c, u, g), Len(c) <= Size(sent[Len(r.frames) + 1])
    PROVE  Len(g) <= kMaxFrameFds
<1> DEFINE n == Len(r.frames)
<1>1. c \in Seq(Byte) /\ u \in Seq(Byte) /\ g \in Seq(Nat) /\ n \in 0..Len(sent) /\ n < Len(sent)
  BY Zenon DEF ReadTo
<1>2. PICK off, st : Places(sent, n, Len(c) + Len(u), off) /\ Shares(sent, n, off, Len(c), Len(g), st)
  BY Zenon DEF ReadTo
<1>3. Len(c) \in Nat /\ Len(c) + Len(u) \in Nat /\ Len(g) \in Nat
  BY <1>1
<1> DEFINE a == sent[n + 1].fds
<1> HIDE DEF n
<1>4. Len(g) <= a /\ a <= kMaxFrameFds
  BY <1>1, <1>2, <1>3, OneFrame, Zenon DEF n
<1>5. a \in Nat
  <2>1. n + 1 \in 1..Len(sent)
    BY <1>1 DEF Legal
  <2>2. a \in 0..kMaxFrameFds
    BY <2>1, LegalNumbers, Zenon
  <2> QED
    BY <2>2, FramingAssumption
<1> HIDE DEF a
<1> QED
  BY <1>3, <1>4, <1>5, FramingAssumption

\* A receiver of a peer that sends one frame at a time is within the bounds.
LEMMA ReaderIsWithin ==
    ASSUME Legal(sent), NEW r, NEW c, NEW u, NEW g, ReadTo(r, c, u, g), Len(sent) <= Len(r.frames) + 1
    PROVE  ~(Len(c) > kMaxBufferBytes) /\ ~(Len(g) > kMaxPendingFds)
<1> DEFINE n == Len(r.frames)
<1>1. c \in Seq(Byte) /\ u \in Seq(Byte) /\ g \in Seq(Nat) /\ n \in 0..Len(sent) /\ n < Len(sent)
  BY Zenon DEF ReadTo
<1>2. PICK off, st : Places(sent, n, Len(c) + Len(u), off) /\ Shares(sent, n, off, Len(c), Len(g), st)
  BY Zenon DEF ReadTo
<1>3. Len(c) \in Nat /\ Len(c) + Len(u) \in Nat /\ Len(g) \in Nat /\ Len(c) <= Len(c) + Len(u)
  BY <1>1
<1>4. Len(c) <= kMaxBufferBytes /\ Len(g) <= kMaxPendingFds
  BY <1>1, <1>2, <1>3, OneAtATime, Zenon
<1>5. kMaxBufferBytes \in Nat /\ kMaxPendingFds \in Nat
  BY FramingAssumption DEF kMaxBufferBytes, kMaxPendingFds
<1> QED
  BY <1>3, <1>4, <1>5

\* With nothing more to come and no frame all there, all have been taken.
LEMMA NothingIsLeft ==
    ASSUME Legal(sent), NEW r, Sound(sent, r, <<>>), ~Whole(sent, r)
    PROVE  Len(r.frames) = Len(sent)
<1> DEFINE n == Len(r.frames)
           b == r.buffer
           t == <<>>
<1>1. r \in Receivers /\ \E off, st : InStep(sent, r, t, off, st)
  BY Zenon DEF Sound
<1>2. PICK off, st : InStep(sent, r, t, off, st)
  BY <1>1, Zenon
<1>3. t \in Seq(Byte) /\ Len(t) = 0 /\ Len(sent) \in Nat
  BY DEF Legal
<1>4. n \in 0..Len(sent) /\ Places(sent, n, Len(b) + Len(t), off)
  <2>1. InOrderAt(sent, r, t, off, st)
    BY <1>1, <1>2, <1>3, InStepFacts, Zenon
  <2> QED
    BY <2>1, Zenon DEF InOrderAt
<1>5. Len(b) \in Nat
  BY <1>1, ReceiverIs, Zenon
<1> SUFFICES ASSUME n < Len(sent) PROVE FALSE
  BY <1>3, <1>4
<1>6. n + 1 \in (n + 1)..Len(sent)
  BY <1>3, <1>4
<1> DEFINE d == Size(sent[n + 1])
           z == Len(b) + Len(t)
<1>7. off[n + 1] = 0 /\ d \in Nat \ {0} /\ off[(n + 1) + 1] = off[n + 1] + d /\ off[(n + 1) + 1] <= z
  BY <1>4, <1>6, Zenon DEF Places
<1>8. ~(Len(b) >= d)
  BY Zenon DEF Whole
<1>9. z = Len(b)
  BY <1>3, <1>5
<1> HIDE DEF d, z, b
<1>10. 0 + d <= Len(b)
  BY <1>7, <1>9, Zenon
<1> QED
  BY <1>5, <1>7, <1>8, <1>10

-----------------------------------------------------------------------------
\* The steps.

\* A new connection satisfies the invariant.
LEMMA FramesBegin == FrameInit => FrameInv
<1> SUFFICES ASSUME FrameInit PROVE FrameInv
  OBVIOUS
<1>1. PICK mode \in {"pump", "blocking"} : rx = Receiver(mode)
  BY DEF FrameInit
<1>2. sent = <<>> /\ stream = <<>> /\ pipelined = FALSE
  BY DEF FrameInit
<1>3. /\ rx.mode = mode /\ rx.buffer = <<>> /\ rx.fds = <<>> /\ rx.frames = <<>> /\ rx.status = "Ok" /\ rx \in Receivers
      /\ Len(rx.frames) = 0 /\ Len(rx.buffer) = 0 /\ Len(rx.fds) = 0
  <2> DEFINE e == <<>>
  <2>1. e \in Seq(Byte) /\ e \in Seq(Nat) /\ e \in Seq([body : Seq(Byte), fds : Seq(Nat)]) /\ Len(e) = 0
    OBVIOUS
  <2>2. rx = [mode |-> mode, buffer |-> e, fds |-> e, frames |-> e, status |-> "Ok"]
    BY <1>1, Zenon DEF Receiver
  <2> HIDE DEF e
  <2>3. rx.mode = mode /\ rx.buffer = e /\ rx.fds = e /\ rx.frames = e /\ rx.status = "Ok" /\ rx \in Receivers
    BY <2>1, <2>2 DEF Receivers
  <2> QED
    BY <2>1, <2>3, Zenon DEF e
<1>4. Legal(sent) /\ stream \in Seq(Byte) /\ Len(sent) = 0 /\ Len(stream) = 0
  BY <1>2 DEF Legal
<1> DEFINE zero == [k \in Nat |-> 0]
<1>5. zero \in [Nat -> Nat] /\ \A k \in Nat : zero[k] = 0
  OBVIOUS
<1> HIDE DEF zero
<1>6. Laid(sent, 0, rx.buffer, stream, zero)
  BY <1>3, <1>4, <1>5 DEF Laid
<1>7. Handed(sent, 0, zero, 0, rx.fds, zero)
  BY <1>3, <1>4, <1>5 DEF Handed
<1>8. InStep(sent, rx, stream, zero, zero)
  BY <1>3, <1>4, <1>6, <1>7 DEF InStep
<1>9. Arrived(sent, rx)
  BY <1>3 DEF Arrived
<1>10. Sound(sent, rx, stream)
  BY <1>3, <1>8, <1>9, Zenon DEF Sound
<1> QED
  BY <1>3, <1>4, <1>9, <1>10 DEF FrameInv, OnlyABacklogIsRefused

\* The frames that were sent are the ones that were.
LEMMA SendingKeeps ==
    ASSUME NEW s, Legal(s), NEW f \in Frame, ~Refused(f)
    PROVE  /\ Legal(Append(s, f)) /\ Len(Append(s, f)) = Len(s) + 1
           /\ \A k \in 1..Len(s) : Append(s, f)[k] = s[k]
BY DEF Legal

\* sendFrame() keeps the invariant.
LEMMA SendInv == ASSUME FrameInv, NEW f \in Frame, sendFrame(f) PROVE FrameInv'
<1> DEFINE w == Append(sent, f)
           u == stream \o encodeFrame(Len(sent) + 1, f)
           n == Len(rx.frames)
           b == rx.buffer
           m == Len(sent)
<1>1. /\ Legal(sent) /\ stream \in Seq(Byte) /\ rx \in Receivers /\ Arrived(sent, rx)
      /\ rx.status = "Ok" => Sound(sent, rx, stream)
      /\ ~pipelined => m <= n + 1
      /\ OnlyABacklogIsRefused
      /\ rx.status = "PeerClosed" => peer = "closed"
  BY Zenon DEF FrameInv
<1>2. /\ peer = "open" /\ ~Refused(f) /\ sent' = w /\ stream' = u /\ pipelined' = (pipelined \/ n < m)
      /\ peer' = peer /\ rx' = rx
  BY Zenon DEF sendFrame
<1>3. Legal(w) /\ Len(w) = m + 1 /\ \A k \in 1..m : w[k] = sent[k]
  BY <1>1, <1>2, SendingKeeps, Zenon
<1>4. b \in Seq(Byte) /\ rx.fds \in Seq(Nat) /\ n \in Nat /\ Len(b) \in Nat
  BY <1>1, ReceiverIs, Zenon
<1>5. m \in Nat /\ Len(stream) \in Nat
  BY <1>1 DEF Legal
<1>6. f.len \in Nat /\ Size(f) \in Nat
  BY FramingAssumption DEF Frame, Size
<1>7. u \in Seq(Byte)
  <2>1. m + 1 \in Nat
    BY <1>5
  <2>2. encodeFrame(m + 1, f) \in Seq(Byte)
    BY <1>6, <2>1, EncodedIs, Zenon
  <2> QED
    BY <1>1, <1>4, <2>2, SendingAdds, Zenon DEF After
<1> HIDE DEF w, n, b
<1>8. Arrived(w, rx)
  <2> SUFFICES ASSUME NEW i \in 1..n PROVE i <= m + 1 /\ IsFrame(rx.frames[i], w, i)
    BY <1>3, Zenon DEF Arrived, n
  <2>1. i <= m /\ IsFrame(rx.frames[i], sent, i)
    BY <1>1, Zenon DEF Arrived, n
  <2>2. i \in 1..m /\ i <= m + 1
    BY <1>4, <1>5, <2>1
  <2> QED
    BY <1>3, <2>1, <2>2, Zenon DEF IsFrame
<1>9. ASSUME rx.status = "Ok" PROVE Sound(w, rx, u)
  <2>1. Sound(sent, rx, stream)
    BY <1>1, <1>9, Zenon
  <2>2. PICK off, st : InStep(sent, rx, stream, off, st)
    BY <2>1, Zenon DEF Sound
  <2>3. /\ n \in 0..m /\ Laid(sent, n, b, stream, off) /\ Handed(sent, n, off, Len(b), rx.fds, st)
        /\ Places(sent, n, Len(b) + Len(stream), off)
    <3>1. InOrderAt(sent, rx, stream, off, st)
      BY <1>1, <2>2, InStepFacts, Zenon
    <3> QED
      BY <3>1, Zenon DEF InOrderAt, n, b
  <2> DEFINE z == Len(b) + Len(stream)
             h == [off EXCEPT ![m + 2] = z + Size(f)]
             v == [st EXCEPT ![m + 2] = Len(rx.fds)]
  <2>4. off \in [Nat -> Nat] /\ off[m + 1] = z
    BY <2>3, Zenon DEF Places
  <2>5. Laid(w, n, b, u, h)
    BY <1>1, <1>2, <1>4, <2>3, SendLaid, Zenon DEF w
  <2>6. z \in Nat /\ z >= Len(b)
    BY <1>4, <1>5
  <2> HIDE DEF z, m
  <2>7. z + Size(f) \in Nat /\ m + 2 \in Nat
    BY <1>5, <1>6, <2>6
  <2>8. h \in [Nat -> Nat] /\ h[m + 2] = z + Size(f) /\ \A k \in 0..(m + 1) : h[k] = off[k]
    <3>1. h \in [Nat -> Nat] /\ h[m + 2] = z + Size(f) /\ \A k \in Nat : k # m + 2 => h[k] = off[k]
      <4> DEFINE y == z + Size(f)
      <4>1. y \in Nat
        BY <2>7
      <4>2. h = [off EXCEPT ![m + 2] = y]
        OBVIOUS
      <4> HIDE DEF y, h
      <4>3. ChangedAt(h, off, m + 2, y)
        BY <2>4, <2>7, <4>1, <4>2, Changed, Zenon
      <4> QED
        BY <4>3, Zenon DEF y, ChangedAt
    <3>2. \A k \in 0..(m + 1) : k \in Nat /\ k # m + 2
      BY <1>5
    <3> QED
      BY <3>1, <3>2, Zenon
  <2> HIDE DEF h
  <2>9. off[m + 1] >= Len(b) /\ h[m + 2] >= Len(b)
    BY <1>4, <1>6, <2>4, <2>6, <2>8
  <2>10. Handed(w, n, h, Len(b), rx.fds, v)
    BY <1>1, <1>4, <2>3, <2>8, <2>9, SendHanded, Zenon DEF w, m
  <2> HIDE DEF v, u
  <2>11. rx.mode = "blocking" /\ b # <<>> => Len(b) <= Size(w[n + 1])
    <3> SUFFICES ASSUME rx.mode = "blocking", b # <<>> PROVE Len(b) <= Size(w[n + 1])
      OBVIOUS
    <3>1. Len(b) <= Size(sent[n + 1])
      BY <2>2, Zenon DEF InStep, n, b
    <3>2. n + 1 \in 1..m
      BY <1>1, <2>1, HeaderIs, Zenon DEF n, b, m
    <3> QED
      BY <1>3, <3>1, <3>2, Zenon
  <2>12. n <= Len(w)
    BY <1>3, <1>5, <2>3
  <2>13. InStep(w, rx, u, h, v)
    BY <2>5, <2>10, <2>11, <2>12, Zenon DEF InStep, n, b
  <2> QED
    BY <1>1, <1>8, <1>9, <2>13, Zenon DEF Sound
<1>10. ~pipelined' => Len(w) <= n + 1
  <2> HIDE DEF m
  <2>1. ~pipelined' => ~(n < m)
    BY <1>2, Zenon
  <2>2. ~(n < m) => m + 1 <= n + 1
    BY <1>4, <1>5
  <2> QED
    BY <1>3, <2>1, <2>2, Zenon
<1>11. rx.status # "PeerClosed"
  BY <1>1, <1>2
<1>12. OnlyABacklogIsRefused'
  BY <1>1, <1>2, Zenon DEF OnlyABacklogIsRefused
<1> HIDE DEF u, m
<1> QED
  BY <1>1, <1>2, <1>3, <1>7, <1>8, <1>9, <1>10, <1>11, <1>12, Zenon DEF FrameInv, n

\* So does closing the socket.
LEMMA CloseInv == ASSUME FrameInv, Close PROVE FrameInv'
<1>1. peer' = "closed" /\ sent' = sent /\ stream' = stream /\ pipelined' = pipelined /\ rx' = rx
  BY Zenon DEF Close
<1> QED
  BY <1>1, Zenon DEF FrameInv, OnlyABacklogIsRefused

\* What a step of the receiver keeps: it is enough that the frames have
\* arrived, the receiver is in order while it is alive, and it fails as it may.
LEMMA ReceiverSteps ==
    ASSUME FrameInv, sent' = sent, peer' = peer, pipelined' = pipelined,
           stream' \in Seq(Byte), rx' \in Receivers, Arrived(sent, rx'),
           Len(rx'.frames) \in Nat, Len(rx.frames) \in Nat, Len(rx'.frames) >= Len(rx.frames),
           rx'.status = "Ok" => Sound(sent, rx', stream'),
           rx'.status \notin {"Ok", "PeerClosed"} =>
               pipelined /\ rx'.mode = "pump" /\ rx'.status \in {"Oversize", "TooManyFds"},
           rx'.status = "PeerClosed" => peer = "closed" /\ Len(rx'.frames) = Len(sent)
    PROVE  FrameInv'
<1>1. Legal(sent) /\ (~pipelined => Len(sent) <= Len(rx.frames) + 1)
  BY Zenon DEF FrameInv
<1>2. Len(sent) \in Nat
  BY <1>1 DEF Legal
<1>3. ~pipelined => Len(sent) <= Len(rx'.frames) + 1
  BY <1>1, <1>2
<1>4. OnlyABacklogIsRefused'
  BY Zenon DEF OnlyABacklogIsRefused
<1> QED
  BY <1>1, <1>3, <1>4, Zenon DEF FrameInv

\* What the receiver's steps start from.
LEMMA AliveFacts ==
    ASSUME FrameInv, Alive
    PROVE  /\ Legal(sent) /\ stream \in Seq(Byte) /\ rx \in Receivers /\ Arrived(sent, rx) /\ Sound(sent, rx, stream)
           /\ rx.status = "Ok" /\ (~pipelined => Len(sent) <= Len(rx.frames) + 1)
           /\ rx.buffer \in Seq(Byte) /\ rx.fds \in Seq(Nat) /\ Len(rx.frames) \in Nat /\ Len(rx.buffer) \in Nat
BY ReceiverIs, Zenon DEF FrameInv, Alive

\* So does a read of the pump.
LEMMA PumpReadsInv == ASSUME FrameInv, NEW k \in 1..ChunkBytes, PumpReads(k) PROVE FrameInv'
<1> DEFINE g == rx.fds \o Riding(stream[1])
           c == rx.buffer \o SubSeq(stream, 1, k)
           u == SubSeq(stream, k + 1, Len(stream))
           n == Len(rx.frames)
<1>1. Alive /\ rx.mode = "pump" /\ Reads(k, ChunkBytes)
  BY Zenon DEF PumpReads
<1>2. /\ Legal(sent) /\ stream \in Seq(Byte) /\ rx \in Receivers /\ Arrived(sent, rx) /\ Sound(sent, rx, stream)
      /\ rx.status = "Ok" /\ (~pipelined => Len(sent) <= n + 1) /\ n \in Nat
  BY <1>1, AliveFacts, Zenon
<1>3. k \in 1..Len(stream) /\ \A j \in 2..k : Riding(stream[j]) = <<>>
  <2>1. k <= Len(stream) /\ \A j \in 2..k : Riding(stream[j]) = <<>>
    BY <1>1, Zenon DEF Reads
  <2>2. k \in 1..Len(stream)
    BY <1>2, <2>1, FramingAssumption
  <2> QED
    BY <2>1, <2>2, Zenon
<1>4. ReadTo(rx, c, u, g)
  BY <1>2, <1>3, ReadingIsSound, Zenon
<1>5. /\ stream' = u /\ sent' = sent /\ peer' = peer /\ pipelined' = pipelined
      /\ rx' = IF Len(g) > kMaxPendingFds THEN [rx EXCEPT !.fds = g, !.status = "TooManyFds"]
               ELSE [rx EXCEPT !.fds = g, !.buffer = c, !.status = IF Len(c) > kMaxBufferBytes THEN "Oversize" ELSE "Ok"]
  BY Zenon DEF PumpReads
<1> HIDE DEF g, c, u
<1>6. c \in Seq(Byte) /\ u \in Seq(Byte) /\ g \in Seq(Nat)
  BY <1>4, Zenon DEF ReadTo
<1>7. ~pipelined => ~(Len(c) > kMaxBufferBytes) /\ ~(Len(g) > kMaxPendingFds)
  BY <1>2, <1>4, ReaderIsWithin, Zenon
<1>8. /\ rx' \in Receivers /\ rx'.frames = rx.frames /\ rx'.mode = rx.mode /\ rx'.fds = g
      /\ \/ rx'.status = "TooManyFds" /\ Len(g) > kMaxPendingFds
         \/ rx'.status = "Oversize" /\ Len(c) > kMaxBufferBytes
         \/ rx'.status = "Ok" /\ rx'.buffer = c
  <2>1. CASE Len(g) > kMaxPendingFds
    <3>1. rx' = [rx EXCEPT !.fds = g, !.status = "TooManyFds"]
      BY <1>5, <2>1, Zenon
    <3>2. rx' \in Receivers /\ rx'.frames = rx.frames /\ rx'.mode = rx.mode /\ rx'.fds = g /\ rx'.status = "TooManyFds"
      BY <1>2, <1>6, <3>1 DEF Receivers
    <3> QED
      BY <2>1, <3>2, Zenon
  <2>2. CASE ~(Len(g) > kMaxPendingFds) /\ Len(c) > kMaxBufferBytes
    <3>1. rx' = [rx EXCEPT !.fds = g, !.buffer = c, !.status = "Oversize"]
      BY <1>5, <2>2, Zenon
    <3>2. rx' \in Receivers /\ rx'.frames = rx.frames /\ rx'.mode = rx.mode /\ rx'.fds = g /\ rx'.status = "Oversize"
      BY <1>2, <1>6, <3>1 DEF Receivers
    <3> QED
      BY <2>2, <3>2, Zenon
  <2>3. CASE ~(Len(g) > kMaxPendingFds) /\ ~(Len(c) > kMaxBufferBytes)
    <3>1. rx' = [rx EXCEPT !.fds = g, !.buffer = c, !.status = "Ok"]
      BY <1>5, <2>3, Zenon
    <3> QED
      BY <1>2, <1>6, <3>1 DEF Receivers
  <2> QED
    BY <2>1, <2>2, <2>3, Zenon
<1>9. rx'.status = "Ok" => Sound(sent, rx', u)
  <2> SUFFICES ASSUME rx'.status = "Ok" PROVE Sound(sent, rx', u)
    OBVIOUS
  <2>1. rx'.buffer = c /\ rx.mode # "blocking"
    BY <1>1, <1>8
  <2> QED
    BY <1>2, <1>4, <1>8, <2>1, ReaderIsSound, Zenon
<1>10. Arrived(sent, rx') /\ Len(rx'.frames) \in Nat /\ Len(rx'.frames) >= n
  <2>1. Len(rx'.frames) = n
    BY <1>8, Zenon
  <2>2. Arrived(sent, rx')
    BY <1>2, <1>8, Zenon DEF Arrived
  <2> HIDE DEF n
  <2> QED
    BY <1>2, <2>1, <2>2
<1>11. rx'.status \notin {"Ok", "PeerClosed"} => pipelined /\ rx'.mode = "pump" /\ rx'.status \in {"Oversize", "TooManyFds"}
  BY <1>1, <1>7, <1>8
<1>12. rx'.status # "PeerClosed"
  BY <1>8
<1> QED
  BY <1>2, <1>5, <1>6, <1>8, <1>9, <1>10, <1>11, <1>12, ReceiverSteps, Zenon

\* Of what pump's extract does, the rest is bookkeeping.
LEMMA DrainedIs ==
    ASSUME FrameInv, Alive, rx.mode = "pump"
    PROVE  /\ extract(rx) \in Receivers /\ Sound(sent, extract(rx), stream) /\ Arrived(sent, extract(rx))
           /\ extract(rx).status = "Ok" /\ ~Whole(sent, extract(rx))
           /\ Len(extract(rx).frames) \in Nat /\ Len(rx.frames) \in Nat /\ Len(extract(rx).frames) >= Len(rx.frames)
<1>1. Legal(sent) /\ stream \in Seq(Byte) /\ Sound(sent, rx, stream) /\ Len(rx.frames) \in Nat
  BY AliveFacts, Zenon
<1>2. Pumping(rx, stream, Len(rx.frames))
  <2>1. Len(rx.frames) >= Len(rx.frames)
    BY <1>1
  <2> QED
    BY <1>1, <2>1, Zenon DEF Pumping
<1>3. Pumping(extract(rx), stream, Len(rx.frames)) /\ ~Whole(sent, extract(rx))
  BY <1>1, <1>2, ExtractTakesAll, Zenon
<1>4. extract(rx) \in Receivers
  BY <1>3, Zenon DEF Pumping, Sound
<1>5. Len(extract(rx).frames) \in Nat
  BY <1>4, ReceiverIs, Zenon
<1> QED
  BY <1>1, <1>3, <1>4, <1>5, Zenon DEF Pumping, Sound

\* So does the pump's loop over extract().
LEMMA PumpDrainsInv == ASSUME FrameInv, PumpDrains PROVE FrameInv'
<1>1. /\ Alive /\ rx.mode = "pump" /\ rx' = extract(rx)
      /\ sent' = sent /\ stream' = stream /\ peer' = peer /\ pipelined' = pipelined
  BY Zenon DEF PumpDrains
<1>2. /\ rx' \in Receivers /\ Sound(sent, rx', stream) /\ Arrived(sent, rx') /\ rx'.status = "Ok"
      /\ Len(rx'.frames) \in Nat /\ Len(rx.frames) \in Nat /\ Len(rx'.frames) >= Len(rx.frames)
  BY <1>1, DrainedIs, Zenon
<1>3. stream \in Seq(Byte)
  BY Zenon DEF FrameInv
<1>4. rx'.status # "PeerClosed" /\ rx'.status \in {"Ok", "PeerClosed"}
  BY <1>2
<1> QED
  BY <1>1, <1>2, <1>3, <1>4, ReceiverSteps, Zenon

\* So does the pump's end.
LEMMA PumpEndsInv == ASSUME FrameInv, PumpEnds PROVE FrameInv'
<1> DEFINE e == extract(rx)
<1>1. /\ Alive /\ rx.mode = "pump" /\ peer = "closed" /\ stream = <<>> /\ rx' = AtEof(rx)
      /\ sent' = sent /\ stream' = stream /\ peer' = peer /\ pipelined' = pipelined
  BY Zenon DEF PumpEnds
<1>2. /\ e \in Receivers /\ Sound(sent, e, stream) /\ Arrived(sent, e) /\ e.status = "Ok" /\ ~Whole(sent, e)
      /\ Len(e.frames) \in Nat /\ Len(rx.frames) \in Nat /\ Len(e.frames) >= Len(rx.frames)
  BY <1>1, DrainedIs, Zenon
<1>3. stream \in Seq(Byte) /\ Legal(sent)
  BY Zenon DEF FrameInv
<1>4. rx' = [e EXCEPT !.status = IF @ = "Ok" THEN "PeerClosed" ELSE @]
  BY <1>1, Zenon DEF AtEof
<1> HIDE DEF e
<1>5. rx' = [e EXCEPT !.status = "PeerClosed"]
  BY <1>2, <1>4
<1>6. rx' \in Receivers /\ rx'.frames = e.frames /\ rx'.status = "PeerClosed"
  BY <1>2, <1>5 DEF Receivers
<1>7. Len(e.frames) = Len(sent)
  BY <1>1, <1>2, <1>3, NothingIsLeft, Zenon
<1>8. Arrived(sent, rx')
  BY <1>2, <1>6, Zenon DEF Arrived
<1>9. rx'.status # "Ok" /\ rx'.status \in {"Ok", "PeerClosed"}
  BY <1>6
<1> QED
  BY <1>1, <1>2, <1>3, <1>6, <1>7, <1>8, <1>9, ReceiverSteps, Zenon

\* What the blocking receiver waits for is within the next frame.
LEMMA WantedIs ==
    ASSUME Legal(sent), Sound(sent, rx, stream), stream \in Seq(Byte), Len(rx.frames) \in Nat, Len(rx.frames) < Len(sent)
    PROVE  /\ Wanted \in Nat /\ Wanted <= Size(sent[Len(rx.frames) + 1])
           /\ Len(rx.buffer) >= kFrameHeaderBytes => Wanted = Size(sent[Len(rx.frames) + 1])
           /\ Len(rx.buffer) < kFrameHeaderBytes => Wanted = kFrameHeaderBytes
<1> DEFINE n == Len(rx.frames)
           b == rx.buffer
           d == Size(sent[n + 1])
<1>1. n + 1 \in 1..Len(sent)
  BY DEF Legal
<1>2. d \in Nat /\ d >= kFrameHeaderBytes
  BY <1>1, LegalNumbers
<1>3. b \in Seq(Byte) /\ Len(b) \in Nat
  <2>1. rx \in Receivers
    BY Zenon DEF Sound
  <2> QED
    BY <2>1, ReceiverIs, Zenon
<1>4. CASE Len(b) < kFrameHeaderBytes
  <2>1. Wanted = kFrameHeaderBytes
    BY <1>4, Zenon DEF Wanted
  <2>2. ~(Len(b) >= kFrameHeaderBytes)
    BY <1>3, <1>4, FramingAssumption
  <2> HIDE DEF d, b
  <2>3. Wanted \in Nat /\ Wanted <= d
    BY <1>2, <2>1, FramingAssumption
  <2> QED
    BY <1>4, <2>1, <2>2, <2>3, Zenon DEF d, b
<1>5. CASE ~(Len(b) < kFrameHeaderBytes)
  <2>1. b # <<>>
    BY <1>3, <1>5, FramingAssumption
  <2>2. Header(b[1]) = sent[n + 1] /\ ~Refused(Header(b[1]))
    BY <2>1, HeaderIs, Zenon
  <2>3. Wanted = d
    BY <1>5, <2>2, Zenon DEF Wanted, Size
  <2> HIDE DEF d
  <2>4. Wanted \in Nat /\ Wanted <= d
    BY <1>2, <2>3
  <2> QED
    BY <1>5, <2>3, <2>4, Zenon DEF d
<1> QED
  BY <1>4, <1>5

\* So does a read of the blocking receiver.
LEMMA recvExactInv ==
    ASSUME FrameInv, NEW k \in 1..(kFrameHeaderBytes + kMaxFrameBytes), recvExact(k) PROVE FrameInv'
<1> DEFINE g == rx.fds \o Riding(stream[1])
           c == rx.buffer \o SubSeq(stream, 1, k)
           u == SubSeq(stream, k + 1, Len(stream))
           n == Len(rx.frames)
           b == rx.buffer
<1>1. Alive /\ rx.mode = "blocking" /\ Reads(k, Wanted - Len(b))
  BY Zenon DEF recvExact
<1>2. /\ Legal(sent) /\ stream \in Seq(Byte) /\ rx \in Receivers /\ Arrived(sent, rx) /\ Sound(sent, rx, stream)
      /\ rx.status = "Ok" /\ n \in Nat /\ Len(b) \in Nat
  BY <1>1, AliveFacts, Zenon
<1>3. k \in 1..Len(stream) /\ k \in 1..(Wanted - Len(b)) /\ \A j \in 2..k : Riding(stream[j]) = <<>>
  <2>1. k \in 1..(Wanted - Len(b)) /\ k <= Len(stream) /\ \A j \in 2..k : Riding(stream[j]) = <<>>
    BY <1>1, Zenon DEF Reads
  <2>2. k \in 1..Len(stream)
    BY <1>2, <2>1, FramingAssumption
  <2> QED
    BY <2>1, <2>2, Zenon
<1>4. ReadTo(rx, c, u, g) /\ Len(c) = Len(b) + k
  BY <1>2, <1>3, ReadingIsSound, Zenon
<1>5. /\ stream' = u /\ sent' = sent /\ peer' = peer /\ pipelined' = pipelined
      /\ rx' = [rx EXCEPT !.buffer = c, !.fds = Capped(g)]
  BY Zenon DEF recvExact
<1> HIDE DEF g, c, u
<1>6. c \in Seq(Byte) /\ u \in Seq(Byte) /\ g \in Seq(Nat) /\ n < Len(sent)
  BY <1>4, Zenon DEF ReadTo
<1>7. Wanted \in Nat /\ Wanted <= Size(sent[n + 1])
  BY <1>2, <1>6, WantedIs, Zenon
<1>8. Size(sent[n + 1]) \in Nat
  <2>1. n + 1 \in 1..Len(sent)
    BY <1>2, <1>6 DEF Legal
  <2> QED
    BY <1>2, <2>1, LegalNumbers
<1>9. Len(c) <= Size(sent[n + 1])
  <2> DEFINE d == Size(sent[n + 1])
             x == Len(b)
             y == Len(c)
  <2>1. d \in Nat /\ x \in Nat /\ y = x + k /\ k \in 1..(Wanted - x) /\ Wanted <= d
    BY <1>2, <1>3, <1>4, <1>7, <1>8, Zenon
  <2> HIDE DEF d, x, y
  <2>2. y <= d
    BY <1>7, <2>1
  <2> QED
    BY <2>2 DEF d, y
<1>10. Len(g) <= kMaxFrameFds
  BY <1>2, <1>4, <1>9, ReaderHasOwn, Zenon
<1>11. Capped(g) = g
  <2>1. (IF Len(g) < kMaxFrameFds THEN Len(g) ELSE kMaxFrameFds) = Len(g) /\ Len(g) \in 0..Len(g)
    BY <1>6, <1>10, FramingAssumption
  <2>2. Capped(g) = SubSeq(g, 1, Len(g))
    BY <2>1, Zenon DEF Capped
  <2>3. /\ SubSeq(g, 1, Len(g)) \in Seq(Nat) /\ Len(SubSeq(g, 1, Len(g))) = Len(g)
        /\ \A j \in 1..Len(g) : SubSeq(g, 1, Len(g))[j] = g[j]
    BY <1>6, <2>1, Prefix, Zenon
  <2>4. SubSeq(g, 1, Len(g)) = g
    BY <1>6, <2>3, SameSequence, Zenon
  <2> QED
    BY <2>2, <2>4, Zenon
<1>12. rx' \in Receivers /\ rx'.frames = rx.frames /\ rx'.mode = rx.mode /\ rx'.fds = g /\ rx'.buffer = c /\ rx'.status = "Ok"
  BY <1>2, <1>5, <1>6, <1>11 DEF Receivers
<1>13. Sound(sent, rx', u)
  BY <1>2, <1>4, <1>9, <1>12, ReaderIsSound, Zenon
<1>14. Arrived(sent, rx') /\ Len(rx'.frames) \in Nat /\ Len(rx'.frames) >= n
  <2>1. Len(rx'.frames) = n
    BY <1>12, Zenon
  <2>2. Arrived(sent, rx')
    BY <1>2, <1>12, Zenon DEF Arrived
  <2> HIDE DEF n
  <2> QED
    BY <1>2, <2>1, <2>2
<1>15. rx'.status # "PeerClosed" /\ rx'.status \in {"Ok", "PeerClosed"}
  BY <1>12
<1> QED
  BY <1>2, <1>5, <1>6, <1>12, <1>13, <1>14, <1>15, ReceiverSteps, Zenon

\* So does its return with a frame.
LEMMA recvFrameInv == ASSUME FrameInv, recvFrame PROVE FrameInv'
<1> DEFINE n == Len(rx.frames)
           b == rx.buffer
           h == Header(b[1])
           whole == [body |-> SubSeq(b, kFrameHeaderBytes + 1, Len(b)), fds |-> rx.fds]
<1>1. /\ Alive /\ rx.mode = "blocking" /\ Len(b) = Wanted
      /\ sent' = sent /\ stream' = stream /\ peer' = peer /\ pipelined' = pipelined
      /\ rx' = IF h.len > kMaxFrameBytes THEN [rx EXCEPT !.status = "Oversize"]
               ELSE IF h.fds > kMaxFrameFds THEN [rx EXCEPT !.status = "TooManyFds"]
               ELSE IF Len(rx.fds) # h.fds THEN [rx EXCEPT !.status = "FdMismatch"]
               ELSE [rx EXCEPT !.buffer = <<>>, !.fds = <<>>, !.frames = Append(@, whole)]
  BY Zenon DEF recvFrame
<1>2. /\ Legal(sent) /\ stream \in Seq(Byte) /\ rx \in Receivers /\ Sound(sent, rx, stream)
      /\ n \in Nat /\ Len(b) \in Nat /\ b \in Seq(Byte) /\ rx.fds \in Seq(Nat)
  BY <1>1, AliveFacts, Zenon
<1>3. ~(Len(b) < kFrameHeaderBytes)
  <2> SUFFICES ASSUME Len(b) < kFrameHeaderBytes PROVE FALSE
    OBVIOUS
  <2>1. Wanted = kFrameHeaderBytes
    BY Zenon DEF Wanted
  <2> QED
    BY <1>1, <1>2, <2>1, FramingAssumption
<1>4. b # <<>> /\ Len(b) >= kFrameHeaderBytes /\ Len(b) > 0
  BY <1>2, <1>3, FramingAssumption
<1>5. n < Len(sent) /\ n + 1 \in 1..Len(sent) /\ h = sent[n + 1]
  BY <1>2, <1>4, HeaderIs, Zenon
<1> DEFINE f == sent[n + 1]
<1>6. Len(b) = Size(f)
  BY <1>1, <1>2, <1>4, <1>5, WantedIs, Zenon
<1>7. f.len \in 0..kMaxFrameBytes /\ f.fds \in 0..kMaxFrameFds /\ Size(f) \in Nat
  BY <1>2, <1>5, LegalNumbers
<1>8. Whole(sent, rx)
  <2>1. Len(b) >= Size(f)
    BY <1>6, <1>7
  <2> QED
    BY <1>5, <2>1, Zenon DEF Whole
<1> DEFINE w == Rest(sent, rx)
           y == [rx EXCEPT !.buffer = w.buffer, !.fds = w.fds, !.frames = Append(@, w.frame)]
<1>9. /\ f.fds \in 0..Len(rx.fds) /\ Len(w.fds) = Len(rx.fds) - f.fds /\ Len(w.buffer) = 0 /\ Sound(sent, y, stream)
  BY <1>1, <1>2, <1>8, TakingIsSound, Zenon
\* All the descriptors at hand are the frame's.
<1>10. Len(rx.fds) = f.fds
  <2>1. PICK off, st : InStep(sent, rx, stream, off, st)
    BY <1>2, Zenon DEF Sound
  <2>2. /\ n \in 0..Len(sent) /\ Places(sent, n, Len(b) + Len(stream), off)
        /\ Shares(sent, n, off, Len(b), Len(rx.fds), st)
    <3>1. InOrderAt(sent, rx, stream, off, st)
      BY <1>2, <2>1, InStepFacts, Zenon
    <3> QED
      BY <3>1, Zenon DEF InOrderAt
  <2>3. Len(b) + Len(stream) \in Nat /\ Len(rx.fds) \in Nat /\ Len(b) <= Size(f)
    BY <1>2, <1>6, <1>7
  <2> QED
    BY <1>2, <1>4, <1>5, <2>2, <2>3, OneFrame, Zenon
<1> HIDE DEF f
<1>11. w = [frame |-> [body |-> SubSeq(b, kFrameHeaderBytes + 1, Size(f)), fds |-> SubSeq(rx.fds, 1, f.fds)],
            buffer |-> SubSeq(b, Size(f) + 1, Len(b)),
            fds |-> SubSeq(rx.fds, f.fds + 1, Len(rx.fds))]
  BY Zenon DEF Rest, f
<1> HIDE DEF w
<1>12. w.buffer = <<>> /\ w.fds = <<>>
  <2> DEFINE p == SubSeq(b, Size(f) + 1, Len(b))
             q == SubSeq(rx.fds, f.fds + 1, Len(rx.fds))
  <2>1. w.buffer = p /\ w.fds = q
    BY <1>11
  <2>2. p \in Seq(Byte) /\ q \in Seq(Nat)
    <3>1. Size(f) \in 0..Len(b)
      BY <1>6, <1>7
    <3> QED
      BY <1>2, <1>9, <3>1, Suffix, Zenon
  <2>3. Len(p) = 0 /\ Len(q) = 0
    <3>1. Len(rx.fds) - f.fds = 0
      BY <1>2, <1>10
    <3> QED
      BY <1>9, <2>1, <3>1, Zenon
  <2> HIDE DEF p, q
  <2>4. p = <<>> /\ q = <<>>
    BY <2>2, <2>3
  <2> QED
    BY <2>1, <2>4, Zenon
<1>13. w.frame = whole
  <2> DEFINE g == rx.fds
  <2>1. w.frame = [body |-> SubSeq(b, kFrameHeaderBytes + 1, Size(f)), fds |-> SubSeq(g, 1, f.fds)]
    BY <1>11
  <2>2. Len(g) \in 0..Len(g)
    BY <1>2
  <2>3. /\ SubSeq(g, 1, Len(g)) \in Seq(Nat) /\ Len(SubSeq(g, 1, Len(g))) = Len(g)
        /\ \A j \in 1..Len(g) : SubSeq(g, 1, Len(g))[j] = g[j]
    BY <1>2, <2>2, Prefix, Zenon
  <2>4. SubSeq(g, 1, Len(g)) = g
    BY <1>2, <2>3, SameSequence, Zenon
  <2> QED
    BY <1>6, <1>10, <2>1, <2>4, Zenon
<1> HIDE DEF whole
<1>14. ~(f.len > kMaxFrameBytes) /\ ~(f.fds > kMaxFrameFds) /\ h = f
  BY <1>5, <1>7, FramingAssumption DEF f
<1> HIDE DEF h
<1>15. rx' = y
  BY <1>1, <1>10, <1>12, <1>13, <1>14, Zenon
<1>16. y.frames = Append(rx.frames, w.frame)
  BY <1>2 DEF Receivers
<1>17. Len(y.frames) = n + 1
  <2>1. rx.frames \in Seq([body : Seq(Byte), fds : Seq(Nat)])
    BY <1>2, ReceiverIs, Zenon
  <2>2. Len(Append(rx.frames, w.frame)) = n + 1
    BY <2>1
  <2> QED
    BY <1>16, <2>2, Zenon
<1> HIDE DEF y
<1>18. y \in Receivers /\ Arrived(sent, y) /\ y.status = "Ok"
  BY <1>9, Zenon DEF Sound, y
<1>19. Len(rx'.frames) \in Nat /\ Len(rx'.frames) >= n
  <2> HIDE DEF n
  <2>1. n + 1 \in Nat /\ n + 1 >= n
    BY <1>2
  <2> QED
    BY <1>15, <1>17, <2>1, Zenon
<1>20. rx'.status # "PeerClosed" /\ rx'.status \in {"Ok", "PeerClosed"}
  BY <1>15, <1>18
<1>21. Sound(sent, rx', stream')
  BY <1>1, <1>9, <1>15, Zenon DEF y
<1> QED
  BY <1>1, <1>2, <1>15, <1>18, <1>19, <1>20, <1>21, ReceiverSteps, Zenon

\* So does its end.
LEMMA BlockingEndsInv == ASSUME FrameInv, BlockingEnds PROVE FrameInv'
<1> DEFINE n == Len(rx.frames)
<1>1. /\ Alive /\ peer = "closed" /\ stream = <<>> /\ Len(rx.buffer) < Wanted
      /\ sent' = sent /\ stream' = stream /\ peer' = peer /\ pipelined' = pipelined
      /\ rx' = [rx EXCEPT !.status = "PeerClosed"]
  BY Zenon DEF BlockingEnds
<1>2. /\ Legal(sent) /\ stream \in Seq(Byte) /\ rx \in Receivers /\ Sound(sent, rx, stream) /\ Arrived(sent, rx)
      /\ n \in Nat /\ Len(rx.buffer) \in Nat
  BY <1>1, AliveFacts, Zenon
<1>3. ~Whole(sent, rx)
  <2> SUFFICES ASSUME Whole(sent, rx) PROVE FALSE
    OBVIOUS
  <2> DEFINE d == Size(sent[n + 1])
             x == Len(rx.buffer)
  <2>1. n < Len(sent) /\ x >= d
    BY Zenon DEF Whole
  <2>2. Wanted \in Nat /\ Wanted <= d
    BY <1>2, <2>1, WantedIs, Zenon
  <2>3. n + 1 \in 1..Len(sent)
    BY <1>2, <2>1 DEF Legal
  <2>4. d \in Nat /\ x \in Nat /\ x < Wanted
    BY <1>1, <1>2, <2>3, LegalNumbers
  <2> HIDE DEF d, x
  <2> QED
    BY <2>1, <2>2, <2>4
<1>4. n = Len(sent)
  BY <1>1, <1>2, <1>3, NothingIsLeft, Zenon
<1>5. rx' \in Receivers /\ rx'.frames = rx.frames /\ rx'.status = "PeerClosed"
  BY <1>1, <1>2 DEF Receivers
<1>6. Arrived(sent, rx')
  BY <1>2, <1>5, Zenon DEF Arrived
<1>7. rx'.status # "Ok" /\ rx'.status \in {"Ok", "PeerClosed"}
  BY <1>5
<1>8. Len(rx'.frames) \in Nat /\ Len(rx'.frames) >= n
  <2>1. Len(rx'.frames) = n
    BY <1>5, Zenon
  <2> HIDE DEF n
  <2> QED
    BY <1>2, <2>1
<1> QED
  BY <1>1, <1>2, <1>4, <1>5, <1>6, <1>7, <1>8, ReceiverSteps, Zenon

\* StreamIsFaithful always holds, for frames, headers, chunks and descriptors
\* of any size and number: whatever pieces recvmsg returns, what
\* FrameReassembler and recvFrame hand on are the frames that were sent, each
\* with its own descriptors, in order and to the last one, and a peer within
\* the limits is refused only when pump finds a backlog.
THEOREM StreamIsAlwaysFaithful == FrameSpec => []StreamIsFaithful
<1>1. FrameInit => FrameInv
  BY FramesBegin
<1>2. FrameInv /\ [FrameNext]_frameVars => FrameInv'
  <2> SUFFICES ASSUME FrameInv, [FrameNext]_frameVars PROVE FrameInv'
    OBVIOUS
  <2>1. ASSUME NEW f \in Frame, sendFrame(f) PROVE FrameInv'
    BY <2>1, SendInv, Zenon
  <2>2. CASE Close
    BY <2>2, CloseInv, Zenon
  <2>3. ASSUME NEW k \in 1..ChunkBytes, PumpReads(k) PROVE FrameInv'
    BY <2>3, PumpReadsInv, Zenon
  <2>4. CASE PumpDrains
    BY <2>4, PumpDrainsInv, Zenon
  <2>5. CASE PumpEnds
    BY <2>5, PumpEndsInv, Zenon
  <2>6. ASSUME NEW k \in 1..(kFrameHeaderBytes + kMaxFrameBytes), recvExact(k) PROVE FrameInv'
    BY <2>6, recvExactInv, Zenon
  <2>7. CASE recvFrame
    BY <2>7, recvFrameInv, Zenon
  <2>8. CASE BlockingEnds
    BY <2>8, BlockingEndsInv, Zenon
  <2>9. CASE UNCHANGED frameVars
    <3>1. sent' = sent /\ stream' = stream /\ peer' = peer /\ pipelined' = pipelined /\ rx' = rx
      BY <2>9, Zenon DEF frameVars
    <3> QED
      BY <3>1, Zenon DEF FrameInv, OnlyABacklogIsRefused
  <2> QED
    BY <2>1, <2>2, <2>3, <2>4, <2>5, <2>6, <2>7, <2>8, <2>9, Zenon DEF FrameNext
<1>3. FrameInv => StreamIsFaithful
  BY Zenon DEF FrameInv, StreamIsFaithful, FramesArriveAsSent, EndComesLast, Arrived, IsFrame
<1> QED
  BY <1>1, <1>2, <1>3, PTL DEF FrameSpec

=============================================================================
