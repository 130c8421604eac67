---------------------------- MODULE ServiceProofs ---------------------------
(***************************************************************************)
(* The limits on prompts and retries, for any callers, calls and limits;   *)
(* the configuration and the signing engine that follows it, for any       *)
(* number of threads and changes; and the import of anchors, for any lists *)
(* and publishers.                                                         *)
(***************************************************************************)
EXTENDS AttemptPolicies, ConfigStore, AnchorCache, WellFoundedInduction, TLAPS

\* Induction on the natural numbers, for sets of numbers: the library's own
\* induction theorems have an operator as a parameter.

Smaller == {p \in Nat \X Nat : p[1] < p[2]}

\* A set of numbers has a least one.
LEMMA LeastNumber ==
    ASSUME NEW T, T \subseteq Nat, T # {}
    PROVE  \E n \in T : \A m \in T : n <= m
<1>1. OpToRel(<, Nat) = Smaller
  BY Zenon DEF OpToRel, Smaller
<1>2. IsWellFoundedOn(Smaller, Nat)
  BY <1>1, NatLessThanWellFounded, Zenon
<1>3. PICK n \in T : \A m \in T : ~(<<m, n>> \in Smaller)
  BY <1>2, WFMin, Zenon
<1>4. ASSUME NEW m \in T PROVE n <= m
  <2>1. <<m, n>> \notin Smaller /\ m \in Nat /\ n \in Nat
    BY Zenon, <1>3
  <2>2. m < n => <<m, n>> \in Smaller
    BY Zenon, <2>1 DEF Smaller
  <2> QED
    BY <2>1, <2>2
<1> QED
  BY <1>4, Zenon

\* A set that has 0, and the successor of each number it has, has them all.
LEMMA Induction ==
    ASSUME NEW T, 0 \in T, \A n \in Nat : n \in T => n + 1 \in T
    PROVE  Nat \subseteq T
<1> SUFFICES ASSUME NEW k \in Nat \ T PROVE FALSE
  BY Zenon
<1>1. Nat \ T \subseteq Nat /\ Nat \ T # {}
  BY Zenon
<1>2. PICK n \in Nat \ T : \A m \in Nat \ T : n <= m
  BY <1>1, LeastNumber, Zenon
<1>3. n - 1 \in Nat /\ n - 1 \in T
  BY <1>2
<1>4. (n - 1) + 1 \in T
  BY Zenon, <1>3
<1> QED
  BY <1>2, <1>4

-----------------------------------------------------------------------------
\* What a loop computes.

\* The first n rounds of a loop, in g.
Rounds(S, first, body, n, g) ==
    /\ g \in [Nat -> S] /\ g[0] = first
    /\ \A i \in 0..(n - 1) : g[i + 1] = body[g[i]]

\* Any number of rounds can be run.
LEMMA RoundsExist ==
    ASSUME NEW S, NEW first \in S, NEW body, \A x \in S : body[x] \in S, NEW n \in Nat
    PROVE  \E g : Rounds(S, first, body, n, g)
<1> DEFINE T == {k \in Nat : \E g : Rounds(S, first, body, k, g)}
<1>1. 0 \in T
  <2>1. Rounds(S, first, body, 0, [i \in Nat |-> first])
    BY DEF Rounds
  <2> QED
    BY Zenon, <2>1
<1>2. ASSUME NEW k \in Nat, k \in T PROVE k + 1 \in T
  <2>1. PICK g : Rounds(S, first, body, k, g)
    BY Zenon, <1>2
  <2> DEFINE h == [g EXCEPT ![k + 1] = body[g[k]]]
  <2>2. h \in [Nat -> S]
    BY Zenon, <2>1 DEF Rounds
  <2>3. h[0] = first /\ h[k + 1] = body[g[k]] /\ \A i \in 0..k : h[i] = g[i]
    BY <2>1 DEF Rounds
  <2>4. \A i \in 0..k : h[i + 1] = body[h[i]]
    <3> HIDE DEF h
    <3> TAKE i \in 0..k
    <3>1. CASE i = k
      BY Zenon, <2>3, <3>1
    <3>2. CASE i # k
      <4>1. i \in 0..(k - 1) /\ i + 1 \in 0..k
        BY <3>2
      <4> QED
        BY Zenon, <4>1, <2>1, <2>3 DEF Rounds
    <3> QED
      BY Zenon, <3>1, <3>2
  <2>5. (k + 1) - 1 = k /\ k + 1 \in Nat
    OBVIOUS
  <2>6. Rounds(S, first, body, k + 1, h)
    <3> HIDE DEF h
    <3> QED
      BY Zenon, <2>2, <2>3, <2>4, <2>5 DEF Rounds
  <2> QED
    BY Zenon, <2>5, <2>6
<1> HIDE DEF T
<1>3. Nat \subseteq T
  BY <1>1, <1>2, Induction, Zenon
<1> QED
  BY Zenon, <1>3 DEF T

\* Two runs of a loop agree on the rounds both have run.
LEMMA RoundsAgree ==
    ASSUME NEW S, NEW first, NEW body, NEW n \in Nat, NEW m \in Nat, NEW g, NEW h, n <= m,
           Rounds(S, first, body, n, g), Rounds(S, first, body, m, h)
    PROVE  \A i \in 0..n : g[i] = h[i]
<1> DEFINE T == {i \in Nat : i <= n => g[i] = h[i]}
<1>1. 0 \in T
  BY Zenon DEF Rounds
<1>2. ASSUME NEW i \in Nat, i \in T PROVE i + 1 \in T
  <2> SUFFICES ASSUME i + 1 <= n PROVE g[i + 1] = h[i + 1]
    OBVIOUS
  <2>1. i <= n /\ i \in 0..(n - 1) /\ i \in 0..(m - 1)
    OBVIOUS
  <2> QED
    BY Zenon, <1>2, <2>1 DEF Rounds
<1> HIDE DEF T
<1>3. Nat \subseteq T
  BY <1>1, <1>2, Induction, Zenon
<1> QED
  BY <1>3 DEF T

\* A loop's value after n + 1 rounds is its body's, at the value after n.
Runs(L, S, first, body) == L \in [Nat -> S] /\ L[0] = first /\ \A n \in Nat : L[n + 1] = body[L[n]]

\* A loop whose body stays in a set runs in it.
LEMMA LoopStays ==
    ASSUME NEW S, NEW first \in S, NEW body, \A x \in S : body[x] \in S
    PROVE  Runs(Loop(first, body), S, first, body)
<1> DEFINE G(n) == CHOOSE g : Rounds(S, first, body, n, g)
           F == [n \in Nat |-> G(n)[n]]
           Is(f) == f = [n \in Nat |-> IF n = 0 THEN first ELSE body[f[n - 1]]]
<1>1. \A n \in Nat : Rounds(S, first, body, n, G(n))
  <2> TAKE n \in Nat
  <2>1. \E g : Rounds(S, first, body, n, g)
    BY RoundsExist, Zenon
  <2> QED
    BY <2>1, Zenon
<1> HIDE DEF G
<1>2. \A n \in Nat : F[n + 1] = body[F[n]]
  <2> TAKE n \in Nat
  <2>1. n <= n + 1 /\ n + 1 \in Nat /\ n \in 0..n /\ n \in 0..((n + 1) - 1)
    OBVIOUS
  <2>2. Rounds(S, first, body, n, G(n)) /\ Rounds(S, first, body, n + 1, G(n + 1))
    BY Zenon, <1>1, <2>1
  <2>3. \A i \in 0..n : G(n)[i] = G(n + 1)[i]
    BY <2>1, <2>2, RoundsAgree
  <2>4. G(n + 1)[n + 1] = body[G(n + 1)[n]]
    BY Zenon, <2>1, <2>2 DEF Rounds
  <2> QED
    BY Zenon, <2>1, <2>3, <2>4
<1>3. F[0] = first /\ F \in [Nat -> S]
  BY Zenon, <1>1 DEF Rounds
<1> HIDE DEF F
<1>4. Is(F)
  <2>1. \A n \in Nat : F[n] = IF n = 0 THEN first ELSE body[F[n - 1]]
    <3> TAKE n \in Nat
    <3>1. CASE n = 0
      BY Zenon, <3>1, <1>3
    <3>2. CASE n # 0
      <4>1. n - 1 \in Nat /\ (n - 1) + 1 = n
        BY <3>2
      <4> QED
        BY Zenon, <4>1, <1>2, <3>2
    <3> QED
      BY Zenon, <3>1, <3>2
  <2> QED
    BY Zenon, <2>1, <1>3
<1>5. Is(Loop(first, body))
  <2>1. Loop(first, body) = CHOOSE f : Is(f)
    BY Zenon DEF Loop
  <2> HIDE DEF Is
  <2> QED
    BY <1>4, <2>1, Zenon
<1> DEFINE L == Loop(first, body)
<1>6. L = [n \in Nat |-> IF n = 0 THEN first ELSE body[L[n - 1]]]
  BY Zenon, <1>5
<1> HIDE DEF L
<1>7. L[0] = first /\ \A n \in Nat : L[n + 1] = body[L[n]]
  <2>1. \A n \in Nat : L[n] = IF n = 0 THEN first ELSE body[L[n - 1]]
    BY Zenon, <1>6
  <2>2. L[0] = first
    BY Zenon, <2>1
  <2>3. \A n \in Nat : n + 1 \in Nat /\ n + 1 # 0 /\ (n + 1) - 1 = n
    OBVIOUS
  <2> QED
    BY Zenon, <2>1, <2>2, <2>3
<1>8. \A n \in Nat : L[n] \in S
  <2> DEFINE T == {n \in Nat : L[n] \in S}
  <2>1. 0 \in T /\ \A n \in Nat : n \in T => n + 1 \in T
    BY <1>7
  <2> HIDE DEF T
  <2>2. Nat \subseteq T
    BY <2>1, Induction, Zenon
  <2> QED
    BY Zenon, <2>2 DEF T
<1>9. L \in [Nat -> S]
  BY Zenon, <1>6, <1>8
<1> QED
  BY <1>7, <1>9, Zenon DEF L, Runs

\* So does one whose body is a function on the set.
LEMMA LoopRuns ==
    ASSUME NEW S, NEW first \in S, NEW body \in [S -> S]
    PROVE  Runs(Loop(first, body), S, first, body)
<1>1. \A x \in S : body[x] \in S
  BY Zenon
<1> QED
  BY <1>1, LoopStays, Zenon

-----------------------------------------------------------------------------
\* Sequences are their elements.
LEMMA SameSequence ==
    ASSUME NEW S, NEW a \in Seq(S), NEW b \in Seq(S), Len(a) = Len(b), \A i \in 1..Len(a) : a[i] = b[i]
    PROVE  a = b
OBVIOUS

\* What is left of a sequence from a place on, and what was there before it.
LEMMA Suffix ==
    ASSUME NEW S, NEW q \in Seq(S), NEW n \in 0..Len(q)
    PROVE  /\ SubSeq(q, n + 1, Len(q)) \in Seq(S)
           /\ Len(SubSeq(q, n + 1, Len(q))) = Len(q) - n
           /\ \A i \in 1..(Len(q) - n) : SubSeq(q, n + 1, Len(q))[i] = q[n + i]
OBVIOUS

\* The head and the tail of a sequence.
LEMMA HeadAndTail ==
    ASSUME NEW S, NEW q \in Seq(S), Len(q) > 0
    PROVE  /\ q # <<>> /\ Head(q) = q[1] /\ Tail(q) \in Seq(S) /\ Len(Tail(q)) = Len(q) - 1
           /\ \A i \in 1..Len(Tail(q)) : Tail(q)[i] = q[i + 1]
OBVIOUS

-----------------------------------------------------------------------------
\* The limits.  The attempts on record are the last of the prompts granted,
\* and the ones dropped have left the window.

Entries == [recent : Seq(Nat), level : Nat, until : Nat]
Answers == [caller : Callers, at : Nat, granted : BOOLEAN, until : Nat]

LimiterTypes ==
    /\ now \in Nat /\ table \in [Callers -> Entries]
    /\ grants \in [Callers -> Seq(Nat)] /\ log \in Seq(Answers)

\* A caller's prompts were granted one after another.
InOrder(past, t) == \A i \in 1..Len(past) : past[i] <= t /\ \A j \in 1..i : past[j] <= past[i]

\* The attempts on record are the last of the prompts granted, and those that
\* are not on record any more have left the window.
Recorded(recent, past, t) ==
    \E k \in 0..Len(past) :
        /\ Len(recent) = Len(past) - k
        /\ \A i \in 1..Len(recent) : recent[i] = past[k + i]
        /\ \A i \in 1..k : t - past[i] > kWindow

Windows == \A c \in Callers : InOrder(grants[c], now) /\ Recorded(table[c].recent, grants[c], now)

\* Whoever was told to wait is still waiting, or the wait is over.
Waits ==
    \A i \in 1..Len(log) : ~log[i].granted =>
        log[i].until <= table[log[i].caller].until \/ log[i].until <= now

LimiterInv == LimiterTypes /\ Windows /\ Waits /\ WindowIsCapped /\ BackoffIsServed

\* The front was popped as far as it was old.
PoppedTo(n, recent, t) ==
    /\ n \in 0..Len(recent) /\ \A i \in 1..n : t - recent[i] > kWindow
    /\ Popped(recent, t, kWindow) = SubSeq(recent, n + 1, Len(recent))

\* The loop that pops old attempts ends.
LEMMA PoppingEnds ==
    ASSUME NEW recent \in Seq(Nat), NEW t \in Nat
    PROVE  \E n : PoppedTo(n, recent, t)
<1> DEFINE Stops(n) == n = Len(recent) \/ t - recent[n + 1] <= kWindow
           Old(n) == \A i \in 1..n : t - recent[i] > kWindow
           T == {n \in 0..Len(recent) : Stops(n)}
<1>1. T \subseteq Nat /\ Len(recent) \in T
  OBVIOUS
<1> HIDE DEF T
<1>2. PICK n \in T : \A m \in T : n <= m
  BY <1>1, LeastNumber, Zenon
<1>3. n \in 0..Len(recent) /\ Stops(n)
  BY Zenon, <1>2 DEF T
<1>4. Old(n)
  <2> SUFFICES ASSUME NEW i \in 1..n PROVE t - recent[i] > kWindow
    BY Zenon
  <2>1. i - 1 \in 0..Len(recent) /\ i - 1 < n /\ (i - 1) + 1 = i /\ i \in 1..Len(recent)
    BY <1>3
  <2>2. ~Stops(i - 1)
    <3>1. i - 1 \notin T
      BY <1>2, <1>3, <2>1
    <3> QED
      BY Zenon, <2>1, <3>1 DEF T
  <2>3. recent[i] \in Nat /\ kWindow \in Nat
    BY <2>1, LimiterAssumption
  <2> QED
    BY <2>1, <2>2, <2>3
<1> DEFINE N == CHOOSE m \in 0..Len(recent) : Old(m) /\ Stops(m)
<1>5. N \in 0..Len(recent) /\ Old(N)
  <2> HIDE DEF Old, Stops
  <2> QED
    BY <1>3, <1>4, Zenon
<1>6. Popped(recent, t, kWindow) = SubSeq(recent, N + 1, Len(recent))
  BY Zenon DEF Popped
<1> HIDE DEF N
<1>7. PoppedTo(N, recent, t)
  BY <1>5, <1>6, Zenon DEF PoppedTo
<1> QED
  BY <1>7, Zenon

\* What is left after popping is still a record of the prompts granted.
LEMMA PoppingKeepsTheRecord ==
    ASSUME NEW recent \in Seq(Nat), NEW past \in Seq(Nat), NEW t \in Nat, Recorded(recent, past, t)
    PROVE  Popped(recent, t, kWindow) \in Seq(Nat) /\ Recorded(Popped(recent, t, kWindow), past, t)
<1>1. PICK n : PoppedTo(n, recent, t)
  BY PoppingEnds, Zenon
<1>2. PICK k \in 0..Len(past) :
        /\ Len(recent) = Len(past) - k
        /\ \A i \in 1..Len(recent) : recent[i] = past[k + i]
        /\ \A i \in 1..k : t - past[i] > kWindow
  BY Zenon DEF Recorded
<1> DEFINE left == SubSeq(recent, n + 1, Len(recent))
<1>3. n \in 0..Len(recent) /\ \A i \in 1..n : t - recent[i] > kWindow
  BY <1>1, Zenon DEF PoppedTo
<1>4. left \in Seq(Nat) /\ Len(left) = Len(recent) - n /\ \A i \in 1..Len(left) : left[i] = recent[n + i]
  BY <1>3
<1> HIDE DEF left
<1>5. k + n \in 0..Len(past) /\ Len(left) = Len(past) - (k + n)
  BY <1>2, <1>3, <1>4
<1>6. ASSUME NEW i \in 1..Len(left) PROVE left[i] = past[(k + n) + i]
  <2>1. n + i \in 1..Len(recent) /\ k + (n + i) = (k + n) + i
    BY <1>3, <1>4
  <2> QED
    BY Zenon, <1>2, <1>4, <2>1
<1>7. ASSUME NEW i \in 1..(k + n) PROVE t - past[i] > kWindow
  <2>1. CASE i <= k
    BY <1>2, <2>1
  <2>2. CASE i > k
    <3>1. i - k \in 1..n /\ i - k \in 1..Len(recent) /\ k + (i - k) = i
      BY <1>2, <1>3, <2>2
    <3>2. t - recent[i - k] > kWindow /\ recent[i - k] = past[k + (i - k)]
      BY Zenon, <1>2, <1>3, <3>1
    <3> QED
      BY Zenon, <3>1, <3>2
  <2> QED
    BY <2>1, <2>2, <1>2, <1>3
<1>8. Recorded(left, past, t)
  BY <1>5, <1>6, <1>7, Zenon DEF Recorded
<1> QED
  BY <1>1, <1>4, <1>8, Zenon DEF PoppedTo, left

\* The back-off of a level is a time.
LEMMA BackoffIsATime == ASSUME NEW level \in Nat \ {0} PROVE Backoff(level) \in Nat
<1> DEFINE body == [d \in Nat |-> Least(2 * d, kMaxBackoff)]
<1>1. body \in [Nat -> Nat] /\ kBaseBackoff \in Nat
  BY LimiterAssumption DEF Least
<1>2. Backoff(level) = Loop(kBaseBackoff, body)[level - 1]
  BY Zenon DEF Backoff
<1> HIDE DEF body
<1>3. Loop(kBaseBackoff, body) \in [Nat -> Nat]
  BY <1>1, LoopRuns, Zenon DEF Runs
<1> QED
  BY <1>2, <1>3

\* What the sweep does to an entry.
SweptTo(s, e, t) == s = e \/ (s = NoAttempts /\ Forgettable(e, t))

\* The sweep leaves the caller's own entry alone, and empties only idle ones.
LEMMA SweepFacts ==
    ASSUME NEW m \in [Callers -> Entries], NEW c \in Callers, NEW t \in Nat
    PROVE  /\ Swept(m, c, t) \in [Callers -> Entries] /\ Swept(m, c, t)[c] = m[c]
           /\ \A d \in Callers : SweptTo(Swept(m, c, t)[d], m[d], t)
<1>1. NoAttempts \in Entries
  BY DEF NoAttempts, Entries
<1>2. CASE Swept(m, c, t) = m
  BY <1>2, Zenon DEF SweptTo
<1>3. CASE Swept(m, c, t) = [d \in Callers |-> IF d # c /\ Forgettable(m[d], t) THEN NoAttempts ELSE m[d]]
  BY <1>1, <1>3, Zenon DEF SweptTo
<1>4. DOMAIN m = Callers
  BY Zenon
<1> QED
  BY <1>2, <1>3, <1>4, Zenon DEF Swept

\* A caller's entry after an attempt.
Denied(s, e, t) ==
    /\ ~Allowed(s, t)
    /\ \/ InBackoff(s, t) /\ e = s
       \/ ~InBackoff(s, t) /\ e.recent = Popped(s.recent, t, kWindow) /\ e.until \in Nat
Granted(s, e, t) ==
    /\ Allowed(s, t) /\ ~InBackoff(s, t) /\ Len(Popped(s.recent, t, kWindow)) < kMaxPerWindow
    /\ e.recent = Append(Popped(s.recent, t, kWindow), t) /\ e.until = 0

\* An attempt is either denied or granted.
LEMMA AttemptFacts ==
    ASSUME NEW s \in Entries, NEW t \in Nat, Popped(s.recent, t, kWindow) \in Seq(Nat)
    PROVE  /\ Attempted(s, t) \in Entries
           /\ Denied(s, Attempted(s, t), t) \/ Granted(s, Attempted(s, t), t)
<1> DEFINE left == Popped(s.recent, t, kWindow)
           level == Least(s.level + 1, kMaxLevel)
<1>1. s = [recent |-> s.recent, level |-> s.level, until |-> s.until] /\ s.level \in Nat /\ s.until \in Nat
  BY Zenon DEF Entries
<1>2. InWindow(s, t) = [recent |-> left, level |-> s.level, until |-> s.until]
  <2>1. InWindow(s, t) = [s EXCEPT !.recent = left]
    BY Zenon DEF InWindow
  <2> HIDE DEF left
  <2> QED
    BY Zenon, <1>1, <2>1
<1>3. level \in Nat \ {0}
  BY <1>1, LimiterAssumption DEF Least
<1>4. kMaxPerWindow \in Nat /\ Len(left) \in Nat
  BY LimiterAssumption
<1>5. OverTheCap(s, t) <=> Len(left) >= kMaxPerWindow
  <2>1. InWindow(s, t).recent = left
    BY <1>2
  <2> QED
    BY <2>1, Zenon DEF OverTheCap
<1>6. t + Backoff(level) \in Nat
  <2> HIDE DEF level
  <2>1. Backoff(level) \in Nat
    BY <1>3, BackoffIsATime, Zenon
  <2> QED
    BY <2>1
<1>7. CASE InBackoff(s, t)
  <2>1. Attempted(s, t) = s
    BY <1>7, Zenon DEF Attempted
  <2> QED
    BY <1>7, <2>1, Zenon DEF Denied, Allowed
<1>8. CASE ~InBackoff(s, t) /\ OverTheCap(s, t)
  <2> DEFINE w == InWindow(s, t)
             until == t + Backoff(level)
  <2>1. Attempted(s, t) = [w EXCEPT !.level = level, !.until = until]
    BY <1>8, Zenon DEF Attempted
  <2> HIDE DEF left, level, until
  <2>2. w \in Entries /\ w.recent = left
    BY <1>1, <1>2 DEF Entries, left
  <2>3. until \in Nat /\ level \in Nat
    BY Zenon, <1>3, <1>6 DEF until
  <2> HIDE DEF w
  <2>4. /\ [w EXCEPT !.level = level, !.until = until] \in Entries
        /\ [w EXCEPT !.level = level, !.until = until].recent = w.recent
        /\ [w EXCEPT !.level = level, !.until = until].until = until
    BY Zenon, <2>2, <2>3 DEF Entries
  <2>5. Attempted(s, t) \in Entries /\ Attempted(s, t).recent = left /\ Attempted(s, t).until \in Nat
    BY <2>1, <2>2, <2>3, <2>4, Zenon
  <2> QED
    BY <1>8, <2>5, Zenon DEF Denied, Allowed, left
<1>9. CASE ~InBackoff(s, t) /\ ~OverTheCap(s, t)
  <2>1. Attempted(s, t) = [recent |-> Append(left, t), level |-> 0, until |-> 0]
    <3>1. InWindow(s, t).recent = left
      BY <1>2
    <3> QED
      BY <1>9, <3>1, Zenon DEF Attempted
  <2>2. Append(left, t) \in Seq(Nat) /\ Len(left) < kMaxPerWindow
    BY <1>4, <1>5, <1>9
  <2> HIDE DEF left
  <2>3. Attempted(s, t) \in Entries
    BY <2>1, <2>2 DEF Entries
  <2>4. Attempted(s, t).recent = Append(left, t) /\ Attempted(s, t).until = 0
    BY <2>1
  <2> QED
    BY <1>9, <2>2, <2>3, <2>4, Zenon DEF Granted, Allowed, left
<1> QED
  BY <1>7, <1>8, <1>9, Zenon

-----------------------------------------------------------------------------
\* An attempt, to one caller's record and to the others'.

\* The clock only makes what is old older.
LEMMA RecordAges ==
    ASSUME NEW recent \in Seq(Nat), NEW past \in Seq(Nat), NEW t \in Nat, NEW u \in Nat, t <= u,
           Recorded(recent, past, t), InOrder(past, t)
    PROVE  Recorded(recent, past, u) /\ InOrder(past, u)
<1>1. PICK k \in 0..Len(past) :
        /\ Len(recent) = Len(past) - k
        /\ \A i \in 1..Len(recent) : recent[i] = past[k + i]
        /\ \A i \in 1..k : t - past[i] > kWindow
  BY Zenon DEF Recorded
<1>2. \A i \in 1..Len(past) : past[i] \in Nat
  OBVIOUS
<1>3. ASSUME NEW i \in 1..k PROVE u - past[i] > kWindow
  <2>1. i \in 1..Len(past)
    BY <1>1
  <2>2. past[i] \in Nat /\ t - past[i] > kWindow /\ kWindow \in Nat
    BY Zenon, <1>1, <1>2, <2>1, LimiterAssumption
  <2> QED
    BY <2>2
<1>4. Recorded(recent, past, u)
  BY <1>1, <1>3, Zenon DEF Recorded
<1>5. InOrder(past, u)
  BY <1>2 DEF InOrder
<1> QED
  BY Zenon, <1>4, <1>5

\* What was before something that has left the window has left it too.
LEMMA EarlierIsOlder ==
    ASSUME NEW x \in Nat, NEW y \in Nat, x <= y, NEW t \in Nat, NEW w \in Nat, t - y > w
    PROVE  t - x > w
OBVIOUS

\* An entry is forgotten when all the caller's prompts have left the window.
LEMMA ForgettingIsHarmless ==
    ASSUME NEW e \in Entries, NEW past \in Seq(Nat), NEW t \in Nat, Forgettable(e, t),
           Recorded(e.recent, past, t), InOrder(past, t)
    PROVE  Recorded(NoAttempts.recent, past, t)
<1>1. PICK k \in 0..Len(past) :
        /\ Len(e.recent) = Len(past) - k
        /\ \A i \in 1..Len(e.recent) : e.recent[i] = past[k + i]
        /\ \A i \in 1..k : t - past[i] > kWindow
  BY Zenon DEF Recorded
<1>2. e.recent \in Seq(Nat) /\ e.until <= t
  BY Zenon DEF Entries, Forgettable
<1>3. e.recent = <<>> \/ t - e.recent[Len(e.recent)] > kWindow
  BY Zenon DEF Forgettable
<1>4. \A i \in 1..Len(past) : past[i] \in Nat
  OBVIOUS
<1>5. ASSUME NEW i \in 1..Len(past) PROVE t - past[i] > kWindow
  <2>1. CASE e.recent = <<>>
    <3>1. k = Len(past)
      BY <1>1, <2>1
    <3> QED
      BY Zenon, <1>1, <3>1
  <2>2. CASE t - e.recent[Len(e.recent)] > kWindow /\ e.recent # <<>>
    <3>1. Len(e.recent) \in 1..Len(e.recent) /\ k + Len(e.recent) = Len(past)
      BY <1>1, <1>2, <2>2
    <3>2. t - past[Len(past)] > kWindow
      BY Zenon, <1>1, <2>2, <3>1
    <3>3. Len(past) \in 1..Len(past) /\ i \in 1..Len(past)
      OBVIOUS
    <3>4. past[i] <= past[Len(past)]
      BY Zenon, <3>3 DEF InOrder
    <3>5. past[i] \in Nat /\ past[Len(past)] \in Nat
      BY Zenon, <1>4, <3>3
    <3>6. kWindow \in Nat
      BY Zenon, LimiterAssumption
    <3> QED
      BY Zenon, <3>2, <3>4, <3>5, <3>6, EarlierIsOlder
  <2> QED
    BY Zenon, <1>3, <2>1, <2>2
<1>6. NoAttempts.recent = <<>>
  BY Zenon DEF NoAttempts
<1>7. Len(past) \in 0..Len(past) /\ Len(<<>>) = Len(past) - Len(past) /\ 1..Len(<<>>) = {}
  OBVIOUS
<1> QED
  BY Zenon, <1>5, <1>6, <1>7 DEF Recorded

\* A prompt that is granted is the last on the record, and it keeps to the cap.
Spaced(past) == \A i \in 1..Len(past) : i > kMaxPerWindow => past[i] - past[i - kMaxPerWindow] > kWindow

\* A grant is recorded behind the ones before it.
LEMMA GrantIsRecorded ==
    ASSUME NEW left \in Seq(Nat), NEW past \in Seq(Nat), NEW t \in Nat, Len(left) < kMaxPerWindow,
           Recorded(left, past, t), InOrder(past, t), Spaced(past)
    PROVE  /\ Recorded(Append(left, t), Append(past, t), t) /\ InOrder(Append(past, t), t)
           /\ Spaced(Append(past, t))
<1> DEFINE more == Append(past, t)
           rec == Append(left, t)
<1>1. PICK k \in 0..Len(past) :
        /\ Len(left) = Len(past) - k
        /\ \A i \in 1..Len(left) : left[i] = past[k + i]
        /\ \A i \in 1..k : t - past[i] > kWindow
  BY Zenon DEF Recorded
<1>2. /\ more \in Seq(Nat) /\ Len(more) = Len(past) + 1 /\ more[Len(past) + 1] = t
      /\ \A i \in 1..Len(past) : more[i] = past[i] /\ past[i] \in Nat
  OBVIOUS
<1>3. Len(rec) = Len(left) + 1 /\ rec[Len(left) + 1] = t /\ \A i \in 1..Len(left) : rec[i] = left[i]
  OBVIOUS
<1>4. Len(past) \in Nat /\ Len(left) \in Nat /\ kMaxPerWindow \in Nat /\ kWindow \in Nat
  BY LimiterAssumption
<1> HIDE DEF more, rec
<1>5. Recorded(rec, more, t)
  <2>1. k \in 0..Len(more) /\ Len(rec) = Len(more) - k
    BY <1>1, <1>2, <1>3, <1>4
  <2>2. ASSUME NEW i \in 1..Len(rec) PROVE rec[i] = more[k + i]
    <3>1. CASE i = Len(left) + 1
      <4>1. k + i = Len(past) + 1
        BY <1>1, <1>4, <3>1
      <4> QED
        BY Zenon, <1>2, <1>3, <3>1, <4>1
    <3>2. CASE i # Len(left) + 1
      <4>1. i \in 1..Len(left) /\ k + i \in 1..Len(past)
        BY <1>1, <1>3, <1>4, <3>2
      <4> QED
        BY Zenon, <1>1, <1>2, <1>3, <4>1
    <3> QED
      BY Zenon, <3>1, <3>2
  <2>3. ASSUME NEW i \in 1..k PROVE t - more[i] > kWindow
    <3>1. i \in 1..Len(past)
      BY <1>1, <1>4
    <3> QED
      BY Zenon, <1>1, <1>2, <3>1
  <2> QED
    BY <2>1, <2>2, <2>3, Zenon DEF Recorded
<1>6. InOrder(more, t)
  <2> SUFFICES ASSUME NEW i \in 1..Len(more) PROVE more[i] <= t /\ \A j \in 1..i : more[j] <= more[i]
    BY Zenon DEF InOrder
  <2>1. \A j \in 1..Len(past) : past[j] <= t
    BY Zenon DEF InOrder
  <2>2. CASE i = Len(past) + 1
    <3>1. more[i] = t
      BY Zenon, <1>2, <2>2
    <3>2. ASSUME NEW j \in 1..i PROVE more[j] <= t
      <4>1. CASE j = i
        BY <3>1, <4>1
      <4>2. CASE j # i
        <5>1. j \in 1..Len(past)
          BY <1>4, <2>2, <4>2
        <5> QED
          BY Zenon, <1>2, <2>1, <5>1
      <4> QED
        BY Zenon, <4>1, <4>2
    <3> QED
      BY <3>1, <3>2
  <2>3. CASE i # Len(past) + 1
    <3>1. i \in 1..Len(past) /\ \A j \in 1..i : j \in 1..Len(past)
      BY <1>2, <1>4, <2>3
    <3>2. past[i] <= t /\ \A j \in 1..i : past[j] <= past[i]
      BY Zenon, <3>1 DEF InOrder
    <3> QED
      BY Zenon, <1>2, <3>1, <3>2
  <2> QED
    BY Zenon, <2>2, <2>3
<1>7. Spaced(more)
  <2> SUFFICES ASSUME NEW i \in 1..Len(more), i > kMaxPerWindow
               PROVE  more[i] - more[i - kMaxPerWindow] > kWindow
    BY Zenon DEF Spaced
  <2>1. CASE i = Len(past) + 1
    <3>1. i - kMaxPerWindow \in 1..k /\ i - kMaxPerWindow \in 1..Len(past)
      <4>1. Len(left) = Len(past) - k /\ k \in Nat /\ k <= Len(past)
        BY <1>1
      <4> QED
        BY <1>4, <2>1, <4>1
    <3> QED
      BY Zenon, <1>1, <1>2, <2>1, <3>1
  <2>2. CASE i # Len(past) + 1
    <3>1. i \in 1..Len(past)
      BY <1>2, <1>4, <2>2
    <3>9. i - kMaxPerWindow \in 1..Len(past)
      BY <1>4, <3>1
    <3>2. past[i] - past[i - kMaxPerWindow] > kWindow
      BY Zenon, <3>1 DEF Spaced
    <3> QED
      BY Zenon, <1>2, <3>1, <3>2, <3>9
  <2> QED
    BY Zenon, <2>1, <2>2
<1> QED
  BY Zenon, <1>5, <1>6, <1>7 DEF more, rec

-----------------------------------------------------------------------------
\* The steps of the limiter.

\* The cap of the window is a cap for each caller.
LEMMA CapIsPerCaller == LimiterTypes => (WindowIsCapped <=> \A c \in Callers : Spaced(grants[c]))
<1> SUFFICES ASSUME LimiterTypes PROVE \A c \in Callers : DOMAIN grants[c] = 1..Len(grants[c])
  BY Zenon DEF WindowIsCapped, Spaced
<1>1. \A c \in Callers : grants[c] \in Seq(Nat)
  BY Zenon DEF LimiterTypes
<1> QED
  BY <1>1

\* An answer given is an answer.
LEMMA LogFacts ==
    ASSUME LimiterTypes
    PROVE  \A i \in 1..Len(log) : log[i] \in Answers /\ log[i].until \in Nat /\ log[i].caller \in Callers
<1>1. log \in Seq(Answers)
  BY Zenon DEF LimiterTypes
<1>2. \A i \in 1..Len(log) : log[i] \in Answers
  BY <1>1
<1>3. \A a \in Answers : a.until \in Nat /\ a.caller \in Callers
  BY Zenon DEF Answers
<1> QED
  BY <1>2, <1>3, Zenon

\* The clock goes on.
LEMMA TickKeeps == LimiterInv /\ Tick => LimiterInv'
<1> SUFFICES ASSUME LimiterInv, Tick PROVE LimiterInv'
  BY Zenon
<1>1. now \in Nat /\ now' = now + 1 /\ UNCHANGED <<table, log, grants>>
  BY Zenon DEF LimiterInv, LimiterTypes, Tick
<1>2. LimiterTypes'
  BY <1>1 DEF LimiterInv, LimiterTypes
<1>3. Windows'
  <2> SUFFICES ASSUME NEW c \in Callers
               PROVE  InOrder(grants[c], now + 1) /\ Recorded(table[c].recent, grants[c], now + 1)
    BY Zenon, <1>1 DEF Windows
  <2>1. grants[c] \in Seq(Nat) /\ table[c].recent \in Seq(Nat)
    BY Zenon DEF LimiterInv, LimiterTypes, Entries
  <2>2. InOrder(grants[c], now) /\ Recorded(table[c].recent, grants[c], now)
    BY Zenon DEF LimiterInv, Windows
  <2>3. now + 1 \in Nat /\ now <= now + 1
    BY <1>1
  <2>4. PICK u \in Nat : u = now + 1
    BY Zenon, <2>3
  <2>5. now <= u
    BY Zenon, <2>3, <2>4
  <2>6. Recorded(table[c].recent, grants[c], u) /\ InOrder(grants[c], u)
    BY <1>1, <2>1, <2>2, <2>5, RecordAges, Zenon
  <2> QED
    BY <2>4, <2>6, Zenon
<1>4. Waits'
  <2> SUFFICES ASSUME NEW i \in 1..Len(log), ~log[i].granted
               PROVE  log[i].until <= table[log[i].caller].until \/ log[i].until <= now + 1
    BY Zenon, <1>1 DEF Waits
  <2>1. log[i].until \in Nat
    BY LogFacts, Zenon DEF LimiterInv
  <2>2. log[i].until <= table[log[i].caller].until \/ log[i].until <= now
    BY Zenon DEF LimiterInv, Waits
  <2> QED
    BY <1>1, <2>1, <2>2
<1>5. WindowIsCapped' /\ BackoffIsServed'
  BY Zenon, <1>1 DEF LimiterInv, WindowIsCapped, BackoffIsServed
<1> QED
  BY <1>2, <1>3, <1>4, <1>5, Zenon DEF LimiterInv

\* A caller asks for a prompt.
LEMMA AskKeeps == ASSUME NEW c \in Callers, LimiterInv, Ask(c) PROVE LimiterInv'
<1> DEFINE s == table[c]
           e == Attempted(s, now)
           left == Popped(s.recent, now, kWindow)
           sw == Swept(table, c, now)
           answer == [caller |-> c, at |-> now, granted |-> Allowed(s, now), until |-> e.until]
<1>1. /\ now \in Nat /\ table \in [Callers -> Entries] /\ grants \in [Callers -> Seq(Nat)] /\ log \in Seq(Answers)
      /\ s \in Entries /\ s.recent \in Seq(Nat) /\ s.until \in Nat /\ grants[c] \in Seq(Nat)
  BY Zenon DEF LimiterInv, LimiterTypes, Entries
<1>2. /\ sw \in [Callers -> Entries] /\ sw[c] = s /\ \A d \in Callers : SweptTo(sw[d], table[d], now)
  BY <1>1, SweepFacts, Zenon
<1>3. \A d \in Callers : InOrder(grants[d], now) /\ Recorded(table[d].recent, grants[d], now) /\ Spaced(grants[d])
  BY CapIsPerCaller, Zenon DEF LimiterInv, Windows
<1>4. left \in Seq(Nat) /\ Recorded(left, grants[c], now)
  BY <1>1, <1>3, PoppingKeepsTheRecord, Zenon
<1>5. e \in Entries /\ (Denied(s, e, now) \/ Granted(s, e, now))
  BY <1>1, <1>4, AttemptFacts, Zenon
<1>6. /\ table' = [sw EXCEPT ![c] = e] /\ now' = now
      /\ grants' = [grants EXCEPT ![c] = IF Allowed(s, now) THEN Append(@, now) ELSE @]
  BY <1>2, Zenon DEF Ask, allow
<1>7. table' \in [Callers -> Entries] /\ table'[c] = e /\ \A d \in Callers \ {c} : table'[d] = sw[d]
  BY <1>2, <1>5, <1>6, Zenon
<1>8. log' = Append(log, answer)
  BY <1>2, <1>7, Zenon DEF Ask
<1>9. /\ grants' \in [Callers -> Seq(Nat)] /\ \A d \in Callers \ {c} : grants'[d] = grants[d]
      /\ grants'[c] = IF Allowed(s, now) THEN Append(grants[c], now) ELSE grants[c]
  BY <1>1, <1>6
<1>10. answer \in Answers /\ e.until \in Nat /\ Allowed(s, now) \in BOOLEAN
  BY Zenon, <1>1, <1>5 DEF Answers, Entries, Allowed
<1>11. /\ log' \in Seq(Answers) /\ Len(log') = Len(log) + 1 /\ log'[Len(log) + 1] = answer /\ Len(log) \in Nat
       /\ \A i \in 1..Len(log) : log'[i] = log[i]
  BY <1>1, <1>8, <1>10
<1> HIDE DEF s, e, left, sw
<1>12. LimiterTypes'
  BY <1>1, <1>6, <1>7, <1>9, <1>11, Zenon DEF LimiterTypes
<1>13. /\ Recorded(e.recent, grants'[c], now) /\ InOrder(grants'[c], now) /\ Spaced(grants'[c])
  <2>1. CASE Denied(s, e, now)
    <3>1. grants'[c] = grants[c]
      BY <1>9, <2>1, Zenon DEF Denied
    <3>2. e.recent = s.recent \/ e.recent = left
      BY <2>1, Zenon DEF Denied, left
    <3> QED
      BY <1>3, <1>4, <3>1, <3>2, Zenon DEF s
  <2>2. CASE Granted(s, e, now)
    <3>1. grants'[c] = Append(grants[c], now) /\ e.recent = Append(left, now) /\ Len(left) < kMaxPerWindow
      BY <1>9, <2>2, Zenon DEF Granted, left
    <3>2. InOrder(grants[c], now) /\ Spaced(grants[c])
      BY <1>3, Zenon
    <3> QED
      BY <1>1, <1>4, <3>1, <3>2, GrantIsRecorded, Zenon
  <2> QED
    BY <1>5, <2>1, <2>2, Zenon
<1>14. ASSUME NEW d \in Callers \ {c} PROVE Recorded(table'[d].recent, grants[d], now)
  <2>1. table'[d] = table[d] \/ (table'[d] = NoAttempts /\ Forgettable(table[d], now))
    BY <1>2, <1>7, Zenon DEF SweptTo
  <2>2. table[d] \in Entries /\ grants[d] \in Seq(Nat)
    BY <1>1, Zenon
  <2>3. Forgettable(table[d], now) => Recorded(NoAttempts.recent, grants[d], now)
    BY <1>1, <1>3, <2>2, ForgettingIsHarmless, Zenon
  <2> QED
    BY <1>3, <2>1, <2>3, Zenon
<1>15. Windows' /\ \A d \in Callers : Spaced(grants'[d])
  <2>1. \A d \in Callers : InOrder(grants'[d], now) /\ Recorded(table'[d].recent, grants'[d], now) /\ Spaced(grants'[d])
    BY <1>3, <1>7, <1>9, <1>13, <1>14, Zenon
  <2> QED
    BY <1>6, <2>1, Zenon DEF Windows
<1>16. WindowIsCapped'
  <2>1. \A d \in Callers : DOMAIN grants'[d] = 1..Len(grants'[d])
    BY <1>9
  <2> QED
    BY <1>15, <2>1, Zenon DEF WindowIsCapped, Spaced
<1>17. \A i \in 1..Len(log) : log[i] \in Answers /\ log[i].until \in Nat /\ log[i].caller \in Callers
  BY LogFacts, Zenon DEF LimiterInv
<1>18. answer.caller = c /\ answer.at = now /\ answer.granted = Allowed(s, now) /\ answer.until = e.until
  BY Zenon
<1> HIDE DEF answer
<1>19. ASSUME NEW i \in 1..Len(log), ~log[i].granted
       PROVE  log[i].until <= table'[log[i].caller].until \/ log[i].until <= now
  <2>1. log[i].until <= table[log[i].caller].until \/ log[i].until <= now
    BY <1>19, Zenon DEF LimiterInv, Waits
  <2>2. CASE log[i].caller = c
    <3>1. ~InBackoff(s, now) => s.until <= now
      BY <1>1 DEF InBackoff
    <3>2. InBackoff(s, now) => e = s
      BY <1>5, Zenon DEF Denied, Granted
    <3>3. s.until <= now /\ log[i].until <= s.until => log[i].until <= now
      BY <1>1, <1>17
    <3> QED
      BY <1>7, <2>1, <2>2, <3>1, <3>2, <3>3, Zenon DEF s
  <2>3. CASE log[i].caller # c
    <3> DEFINE d == log[i].caller
    <3>1. d \in Callers \ {c} /\ table[d].until \in Nat
      BY Zenon, <1>1, <1>17, <2>3 DEF Entries
    <3>2. table'[d] = table[d] \/ Forgettable(table[d], now)
      BY <1>2, <1>7, <3>1, Zenon DEF SweptTo
    <3>3. Forgettable(table[d], now) => table[d].until <= now
      BY Zenon DEF Forgettable
    <3>4. table[d].until <= now /\ log[i].until <= table[d].until => log[i].until <= now
      BY <1>1, <1>17, <3>1
    <3> QED
      BY <2>1, <3>2, <3>3, <3>4, Zenon
  <2> QED
    BY <2>2, <2>3, Zenon
<1>20. Waits'
  <2> SUFFICES ASSUME NEW i \in 1..Len(log'), ~log'[i].granted
               PROVE  log'[i].until <= table'[log'[i].caller].until \/ log'[i].until <= now
    BY <1>6, Zenon DEF Waits
  <2>1. CASE i = Len(log) + 1
    <3>1. log'[i] = answer /\ e.until <= e.until
      BY <1>10, <1>11, <2>1
    <3> QED
      BY <1>7, <1>18, <3>1, Zenon
  <2>2. CASE i # Len(log) + 1
    <3>1. i \in 1..Len(log)
      BY <1>11, <2>2
    <3> QED
      BY <1>11, <1>19, <3>1, Zenon
  <2> QED
    BY <2>1, <2>2, Zenon
<1>21. BackoffIsServed'
  <2> SUFFICES ASSUME NEW i \in 1..Len(log'), NEW j \in 1..Len(log'), i < j, log'[i].caller = log'[j].caller,
                      ~log'[i].granted, log'[j].granted
               PROVE  log'[j].at >= log'[i].until
    <3>1. DOMAIN log' = 1..Len(log')
      BY <1>11
    <3> QED
      BY <3>1, Zenon DEF BackoffIsServed
  <2>1. i \in 1..Len(log) /\ log'[i] = log[i]
    BY <1>11
  <2>2. CASE j = Len(log) + 1
    <3>1. log'[j] = answer
      BY Zenon, <1>11, <2>2
    <3>2. Granted(s, e, now)
      BY <1>5, <1>18, <3>1, Zenon DEF Denied
    <3>3. ~InBackoff(s, now) /\ log[i].caller = c /\ ~log[i].granted
      BY <1>18, <2>1, <3>1, <3>2, Zenon DEF Granted
    <3>4. s.until <= now
      BY <1>1, <3>3 DEF InBackoff
    <3>5. log[i].until <= s.until \/ log[i].until <= now
      BY <2>1, <3>3, Zenon DEF LimiterInv, Waits, s
    <3>6. now >= log[i].until
      BY <1>1, <1>17, <2>1, <3>4, <3>5
    <3> QED
      BY <1>18, <2>1, <3>1, <3>6, Zenon
  <2>3. CASE j # Len(log) + 1
    <3>1. j \in 1..Len(log) /\ log'[j] = log[j]
      BY <1>11, <2>3
    <3>2. DOMAIN log = 1..Len(log)
      BY <1>1
    <3> QED
      BY <2>1, <3>1, <3>2, Zenon DEF LimiterInv, BackoffIsServed
  <2> QED
    BY <2>2, <2>3, Zenon
<1> QED
  BY <1>12, <1>15, <1>16, <1>20, <1>21, Zenon DEF LimiterInv

-----------------------------------------------------------------------------
\* The budget of retries.

BudgetTypes == [maxRetries : Nat, firstDelay : Nat, maxDelay : Nat, growth : Nat, totalBudget : Nat]

\* Comparing with the quotient before multiplying is comparing the product.
LEMMA Quotient ==
    ASSUME NEW d \in Nat, NEW m \in Nat, NEW g \in Nat \ {0}
    PROVE  d > m \div g <=> d * g > m
<1>1. (m \div g) \in Nat /\ (m \div g) * g <= m /\ m < (m \div g) * g + g
  OBVIOUS
<1>2. PICK q \in Nat : q = m \div g
  BY Zenon, <1>1
<1>3. q * g \in Nat /\ d * g \in Nat /\ (q + 1) * g = q * g + g
  OBVIOUS
<1>4. d <= q => d * g <= q * g
  OBVIOUS
<1>5. d >= q + 1 => d * g >= (q + 1) * g
  OBVIOUS
<1> QED
  BY <1>1, <1>2, <1>3, <1>4, <1>5


\* One more retry multiplies a delay by the growth, up to the cap.
Grown(b, d) == IF b.growth > 1 /\ d < b.maxDelay THEN Grows(b, d) ELSE d

\* Growing a delay is multiplying it, up to the cap.
LEMMA DelayGrows ==
    ASSUME NEW b \in BudgetTypes, NEW p \in Nat, NEW d \in Nat, b.growth > 1,
           d = Least(b.firstDelay * p, b.maxDelay)
    PROVE  Grown(b, d) = Least(b.firstDelay * (p * b.growth), b.maxDelay)
<1> DEFINE f == b.firstDelay
           m == b.maxDelay
           g == b.growth
<1>1. f \in Nat /\ m \in Nat /\ g \in Nat /\ g > 1
  BY Zenon DEF BudgetTypes
<1>2. d = Least(f * p, m) /\ (Grown(b, d) = IF d < m THEN Grows(b, d) ELSE d)
  BY Zenon DEF Grown
<1>3. Grows(b, d) = IF d > m \div g THEN m ELSE d * g
  BY Zenon DEF Grows
<1> HIDE DEF f, m, g
<1>4. PICK x \in Nat : x = f * p
  BY <1>1
<1>5. f * (p * g) = x * g /\ x <= x * g /\ x * g \in Nat
  BY <1>1, <1>4
<1>6. PICK y \in Nat : y = x * g
  BY Zenon, <1>5
<1>7. CASE d >= m
  <2>1. x >= m /\ d = m /\ Grown(b, d) = m
    BY <1>1, <1>2, <1>4, <1>7 DEF Least
  <2>2. ~(y < m)
    BY <1>1, <1>5, <1>6, <2>1
  <2> QED
    BY <1>5, <1>6, <2>1, <2>2, Zenon DEF Least, f, m, g
<1>8. CASE d < m
  <2>1. d = x
    BY <1>1, <1>2, <1>4, <1>8 DEF Least
  <2>2. d > m \div g <=> y > m
    BY <1>1, <1>6, <2>1, Quotient
  <2>3. Grown(b, d) = IF y > m THEN m ELSE y
    BY <1>2, <1>3, <1>6, <1>8, <2>1, <2>2, Zenon
  <2>4. (IF y > m THEN m ELSE y) = Least(y, m)
    BY <1>1 DEF Least
  <2> QED
    BY <1>5, <1>6, <2>3, <2>4, Zenon DEF f, m, g
<1> QED
  BY <1>1, <1>7, <1>8

\* The loop of nextRetry computes the power of the growth, up to the cap.
LEMMA NextDelayIs ==
    ASSUME NEW b \in BudgetTypes, NEW n \in Nat
    PROVE  nextDelay(b, n) \in Nat /\ nextDelay(b, n) = Least(b.firstDelay * Factor(b, n), b.maxDelay)
<1> DEFINE first == Least(b.firstDelay, b.maxDelay)
           body == [d \in Nat |-> IF b.growth > 1 /\ d < b.maxDelay THEN Grows(b, d) ELSE d]
           times == [x \in Nat |-> x * b.growth]
           D == Loop(first, body)
           P == Loop(1, times)
<1>1. b.firstDelay \in Nat /\ b.maxDelay \in Nat /\ b.growth \in Nat
  BY Zenon DEF BudgetTypes
<1>2. nextDelay(b, n) = D[n] /\ Factor(b, n) = IF b.growth > 1 THEN P[n] ELSE 1
  BY Zenon DEF nextDelay, Factor
<1>3. \A d \in Nat : body[d] = Grown(b, d)
  BY Zenon DEF Grown
<1>4. first \in Nat /\ body \in [Nat -> Nat]
  <2>1. first \in Nat
    BY Zenon, <1>1 DEF Least
  <2>2. ASSUME NEW d \in Nat PROVE Grown(b, d) \in Nat
    BY <1>1 DEF Grows, Grown
  <2> QED
    BY Zenon, <1>3, <2>1, <2>2
<1>5. times \in [Nat -> Nat] /\ 1 \in Nat /\ \A x \in Nat : times[x] = x * b.growth
  BY <1>1
<1> HIDE DEF first, body, times
<1>6. Runs(D, Nat, first, body) /\ Runs(P, Nat, 1, times)
  BY Zenon, <1>4, <1>5, LoopRuns
<1> HIDE DEF D, P
<1>7. D \in [Nat -> Nat] /\ D[0] = first /\ \A i \in Nat : D[i + 1] = body[D[i]]
  BY <1>6, Zenon DEF Runs
<1>8. P \in [Nat -> Nat] /\ P[0] = 1 /\ \A i \in Nat : P[i + 1] = times[P[i]]
  BY <1>6, Zenon DEF Runs
<1>9. CASE b.growth > 1
  <2> DEFINE T == {i \in Nat : D[i] = Least(b.firstDelay * P[i], b.maxDelay)}
  <2>1. 0 \in T
    BY <1>1, <1>7, <1>8 DEF first
  <2>2. ASSUME NEW i \in Nat, i \in T PROVE i + 1 \in T
    <3>1. D[i] \in Nat /\ P[i] \in Nat /\ D[i] = Least(b.firstDelay * P[i], b.maxDelay)
      BY Zenon, <1>7, <1>8, <2>2
    <3>2. D[i + 1] = Grown(b, D[i]) /\ P[i + 1] = P[i] * b.growth
      BY <1>3, <1>5, <1>7, <1>8, <3>1, Zenon
    <3>3. Grown(b, D[i]) = Least(b.firstDelay * (P[i] * b.growth), b.maxDelay)
      BY <1>9, <3>1, DelayGrows, Zenon
    <3> QED
      BY <3>2, <3>3
  <2> HIDE DEF T
  <2>3. Nat \subseteq T
    BY <2>1, <2>2, Induction, Zenon
  <2> QED
    BY Zenon, <1>2, <1>7, <1>9, <2>3 DEF T
<1>10. CASE ~(b.growth > 1)
  <2> DEFINE T == {i \in Nat : D[i] = first}
  <2>1. 0 \in T
    BY Zenon, <1>7
  <2>2. ASSUME NEW i \in Nat, i \in T PROVE i + 1 \in T
    <3>1. D[i] \in Nat /\ D[i] = first
      BY Zenon, <1>7, <2>2
    <3>2. D[i + 1] = D[i]
      BY <1>3, <1>7, <1>10, <3>1, Zenon DEF Grown
    <3> QED
      BY <3>1, <3>2
  <2> HIDE DEF T
  <2>3. Nat \subseteq T
    BY <2>1, <2>2, Induction, Zenon
  <2>4. D[n] = first /\ b.firstDelay * 1 = b.firstDelay
    BY <1>1, <2>3 DEF T
  <2> QED
    BY Zenon, <1>2, <1>4, <1>10, <2>4 DEF first
<1> QED
  BY Zenon, <1>9, <1>10

\* A probe has a budget, and counts.
Probing ==
    \/ probe = NoProbe
    \/ /\ DOMAIN probe = {"budget", "retries", "waited", "delay", "open"}
       /\ probe.budget \in BudgetTypes /\ probe.open = TRUE
       /\ probe.retries \in Nat /\ probe.waited \in Nat /\ probe.delay \in Nat

RetryInv == Probing /\ RetriesKeepTheBudget

\* A card is inserted, and its probe is retried.
LEMMA RetriesKeep == RetryInv /\ RetryNext => RetryInv'
<1>1. ASSUME RetryInv, NEW b \in Budgets, Insert(b) PROVE RetryInv'
  <2>1. b \in BudgetTypes
    BY Zenon, BudgetsAssumption DEF BudgetTypes
  <2>2. probe' = [NoProbe EXCEPT !.budget = b, !.open = TRUE]
    BY <1>1, Zenon DEF Insert
  <2>3. /\ DOMAIN probe' = {"budget", "retries", "waited", "delay", "open"} /\ probe'.budget = b
        /\ probe'.retries = 0 /\ probe'.waited = 0 /\ probe'.delay = 0 /\ probe'.open = TRUE
    BY Zenon, <2>2 DEF NoProbe
  <2> QED
    BY <2>1, <2>3 DEF RetryInv, Probing, RetriesKeepTheBudget
<1>2. ASSUME RetryInv, retryAfter PROVE RetryInv'
  <2> DEFINE b == probe.budget
             d == nextDelay(b, probe.retries)
  <2>1. /\ probe.open /\ probe.retries < b.maxRetries /\ probe.waited < b.totalBudget
        /\ probe' = [probe EXCEPT !.delay = d, !.retries = @ + 1, !.waited = @ + d]
    BY <1>2, Zenon DEF retryAfter
  <2>2. /\ DOMAIN probe = {"budget", "retries", "waited", "delay", "open"}
        /\ b \in BudgetTypes /\ probe.open = TRUE /\ probe.retries \in Nat /\ probe.waited \in Nat
    <3>1. probe # NoProbe
      BY <2>1 DEF NoProbe
    <3> QED
      BY <1>2, <3>1, Zenon DEF RetryInv, Probing
  <2>3. d \in Nat /\ d = Least(b.firstDelay * Factor(b, probe.retries), b.maxDelay)
    BY <2>2, NextDelayIs, Zenon
  <2>4. b.maxRetries \in Nat /\ b.totalBudget \in Nat
    BY Zenon, <2>2 DEF BudgetTypes
  <2> HIDE DEF d
  <2>5. /\ DOMAIN probe' = {"budget", "retries", "waited", "delay", "open"} /\ probe'.budget = b
        /\ probe'.retries = probe.retries + 1 /\ probe'.waited = probe.waited + d /\ probe'.delay = d
        /\ probe'.open = TRUE
    BY Zenon, <2>1, <2>2
  <2> HIDE DEF b
  <2>6. /\ probe.retries + 1 \in Nat /\ probe.waited + d \in Nat /\ (probe.waited + d) - d = probe.waited
        /\ (probe.retries + 1) - 1 = probe.retries /\ probe.retries + 1 <= b.maxRetries
    BY <2>1, <2>2, <2>3, <2>4
  <2>7. Probing'
    BY <2>2, <2>3, <2>5, <2>6, Zenon DEF Probing, b
  <2>8. RetriesKeepTheBudget'
    BY <2>1, <2>3, <2>5, <2>6, Zenon DEF RetriesKeepTheBudget
  <2> QED
    BY <2>7, <2>8, Zenon DEF RetryInv
<1> QED
  BY <1>1, <1>2, Zenon DEF RetryNext

-----------------------------------------------------------------------------
AttemptInv == LimiterInv /\ RetryInv

\* At the start nothing was asked.
LEMMA AttemptsBegin == AttemptInit => AttemptInv
<1> SUFFICES ASSUME AttemptInit PROVE AttemptInv
  BY Zenon
<1>1. /\ table = [c \in Callers |-> NoAttempts] /\ now = 1 /\ probe = NoProbe
      /\ log = <<>> /\ grants = [c \in Callers |-> <<>>]
  BY Zenon DEF AttemptInit
<1>2. NoAttempts \in Entries /\ NoAttempts.recent = <<>>
  BY DEF NoAttempts, Entries
<1>3. /\ \A c \in Callers : table[c] = NoAttempts /\ grants[c] = <<>>
      /\ Len(<<>>) = 0 /\ 1..0 = {} /\ <<>> \in Seq(Nat) /\ <<>> \in Seq(Answers) /\ DOMAIN <<>> = {} /\ 1 \in Nat
  BY <1>1
<1>4. LimiterTypes
  BY <1>1, <1>2, <1>3, Zenon DEF LimiterTypes
<1>5. Windows
  <2>1. Recorded(<<>>, <<>>, now) /\ InOrder(<<>>, now)
    BY <1>3 DEF Recorded, InOrder
  <2> QED
    BY <1>2, <1>3, <2>1, Zenon DEF Windows
<1>6. Waits /\ WindowIsCapped /\ BackoffIsServed
  BY <1>1, <1>3, Zenon DEF Waits, WindowIsCapped, BackoffIsServed
<1>7. RetryInv
  BY <1>1 DEF RetryInv, Probing, RetriesKeepTheBudget, NoProbe
<1> QED
  BY <1>4, <1>5, <1>6, <1>7, Zenon DEF AttemptInv, LimiterInv

\* Every step keeps the invariant.
LEMMA AttemptsGoOn == AttemptInv /\ [LimiterNext \/ RetryNext]_attemptVars => AttemptInv'
<1> SUFFICES ASSUME AttemptInv, [LimiterNext \/ RetryNext]_attemptVars PROVE AttemptInv'
  BY Zenon
<1>1. UNCHANGED probe => RetryInv'
  BY Zenon DEF AttemptInv, RetryInv, Probing, RetriesKeepTheBudget
<1>2. UNCHANGED <<table, now, log, grants>> => LimiterInv'
  BY Zenon DEF AttemptInv, LimiterInv, LimiterTypes, Windows, Waits, WindowIsCapped, BackoffIsServed
<1>3. CASE Tick
  BY <1>1, <1>3, TickKeeps, Zenon DEF Tick, AttemptInv
<1>4. ASSUME NEW c \in Callers, Ask(c) PROVE AttemptInv'
  BY <1>1, <1>4, AskKeeps, Zenon DEF Ask, AttemptInv
<1>5. CASE RetryNext
  <2>1. UNCHANGED <<table, now, log, grants>>
    BY <1>5, Zenon DEF RetryNext, retryAfter, Insert
  <2> QED
    BY <1>2, <1>5, <2>1, RetriesKeep, Zenon DEF AttemptInv
<1>6. CASE UNCHANGED attemptVars
  BY <1>1, <1>2, <1>6, Zenon DEF attemptVars, AttemptInv
<1> QED
  BY <1>3, <1>4, <1>5, <1>6, Zenon DEF LimiterNext

\* RateLimiter::allow never lets a caller have more than kMaxPerWindow prompts
\* in a stretch as long as the window nor through during its back-off, and
\* CardResolutionPolicy's waits grow to the cap within the budget, for any
\* limits, callers, budgets and times.
THEOREM LimitsAreAlwaysKept == AttemptSpec => []LimitsAreKept
<1>1. AttemptInv => LimitsAreKept
  BY Zenon DEF AttemptInv, LimiterInv, RetryInv, LimitsAreKept
<1> QED
  BY AttemptsBegin, AttemptsGoOn, <1>1, PTL DEF AttemptSpec

-----------------------------------------------------------------------------
\* The signing engine.  A rebuild reads the keys one by one and publishes
\* later.  What it has read is still the configuration's, unless a thread that
\* changed it has yet to tell the observers and will rebuild again (Fresh);
\* rebuilds do not overlap, because the observers' mutex is held over all of
\* one.

Rebuilding == {"tsl", "tsa", "publish"}
Keys == Range(ConfigKeys)

\* A list was changed, and the observers do not know of it yet.
Pending == \E t \in Threads : thread[t].pc = "fire"

\* The shape of the state; the values of the keys are anything.
Shape ==
    /\ DOMAIN mem = Keys
    /\ DOMAIN thread = Threads
    /\ \A t \in Threads : DOMAIN thread[t] = {"pc", "tsl", "tsa"}
    /\ DOMAIN engine = {"built", "bound"}
    /\ up \in BOOLEAN /\ alive \in BOOLEAN

\* m_observerMutex, and the end of the provider and of the process.
Alone == \A t, u \in Threads : thread[t].pc \in Rebuilding /\ thread[u].pc \in Rebuilding => t = u
Down == ~up => ~alive /\ \A t \in Threads : thread[t].pc = "idle"

\* What was read or published is the configuration's.
Fresh ==
    alive /\ ~Pending =>
        /\ \A t \in Threads : thread[t].pc \in {"tsa", "publish"} => thread[t].tsl = mem["TslSources"]
        /\ \A t \in Threads : thread[t].pc = "publish" => thread[t].tsa = FirstOf(mem["TsaUrls"])
        /\ ObserverMutexFree /\ engine.built # NoEngine => engine.built = BuiltFrom(mem)

\* The authority on record is the one the engine asks.
Bound == engine.built # NoEngine => engine.bound = engine.built.tsa

ConfigInv == Shape /\ Alone /\ Down /\ NoRebuildAfterTheEnd /\ Fresh /\ Bound

-----------------------------------------------------------------------------
\* The two keys the engine is built from are keys, and lists.
LEMMA EngineKeys == {"TslSources", "TsaUrls"} \subseteq Keys /\ ListKeys = {"TslSources", "TsaUrls"}
<1>1. \A i \in DOMAIN ConfigKeys : ConfigKeys[i] \in Keys
  BY Zenon DEF Keys, Range
<1>2. 2 \in DOMAIN ConfigKeys /\ ConfigKeys[2] = "TsaUrls" /\ 4 \in DOMAIN ConfigKeys /\ ConfigKeys[4] = "TslSources"
  BY DEF ConfigKeys
<1> QED
  BY Zenon, <1>1, <1>2 DEF ListKeys

\* The initial state satisfies the invariant.
LEMMA ConfigBegins == ConfigInit => ConfigInv
<1> SUFFICES ASSUME ConfigInit PROVE ConfigInv
  BY Zenon
<1>1. DOMAIN mem = Keys
  BY Zenon DEF ConfigInit, applyDefaults, Keys
<1>2. /\ DOMAIN thread = Threads /\ \A t \in Threads : thread[t] = AtRest
      /\ engine = [built |-> NoEngine, bound |-> ""] /\ up = FALSE /\ alive = FALSE
  BY Zenon DEF ConfigInit
<1>3. DOMAIN AtRest = {"pc", "tsl", "tsa"} /\ AtRest.pc = "idle" /\ DOMAIN engine = {"built", "bound"}
      /\ engine.built = NoEngine
  BY Zenon, <1>2 DEF AtRest
<1>4. \A t \in Threads : thread[t].pc = "idle" /\ DOMAIN thread[t] = {"pc", "tsl", "tsa"}
  BY Zenon, <1>2, <1>3
<1>5. Shape
  BY Zenon, <1>1, <1>2, <1>3, <1>4 DEF Shape
<1>6. Alone /\ NoRebuildAfterTheEnd
  BY Zenon, <1>4 DEF Alone, NoRebuildAfterTheEnd, ObserverMutexFree, Rebuilding
<1> QED
  BY Zenon, <1>2, <1>3, <1>4, <1>5, <1>6 DEF ConfigInv, Down, Fresh, Bound

\* The start builds the engine from the keys it has loaded, or has none.
LEMMA StartInv == ConfigInv /\ ConfigStart => ConfigInv'
<1> SUFFICES ASSUME ConfigInv, ConfigStart PROVE ConfigInv'
  BY Zenon
<1>1. /\ ~up /\ up' = TRUE /\ alive' = TRUE /\ thread' = thread
      /\ \/ engine' = [built |-> BuiltFrom(mem'), bound |-> FirstOf(mem'["TsaUrls"])]
         \/ engine' = [built |-> NoEngine, bound |-> ""]
  BY Zenon DEF ConfigStart
<1>2. DOMAIN mem' = Keys
  BY Zenon DEF ConfigStart, loadFromFile, applyDefaults, Keys
<1>3. /\ DOMAIN engine' = {"built", "bound"}
      /\ engine'.built # NoEngine => engine'.built = BuiltFrom(mem') /\ engine'.bound = FirstOf(mem'["TsaUrls"])
  <2>1. ASSUME NEW b, NEW u, engine' = [built |-> b, bound |-> u]
        PROVE  DOMAIN engine' = {"built", "bound"} /\ engine'.built = b /\ engine'.bound = u
    BY Zenon, <2>1
  <2> QED
    BY Zenon, <1>1, <2>1
<1>4. BuiltFrom(mem').tsa = FirstOf(mem'["TsaUrls"])
  BY Zenon DEF BuiltFrom
<1>5. \A t \in Threads : thread[t].pc = "idle"
  BY Zenon, <1>1 DEF ConfigInv, Down
<1>6. Shape'
  BY Zenon, <1>1, <1>2, <1>3 DEF ConfigInv, Shape
<1>7. Alone' /\ ObserverMutexFree'
  BY Zenon, <1>1, <1>5 DEF Alone, ObserverMutexFree, Rebuilding
<1>8. Fresh'
  BY Zenon, <1>1, <1>3, <1>5 DEF Fresh
<1> QED
  BY Zenon, <1>1, <1>3, <1>4, <1>6, <1>7, <1>8 DEF ConfigInv, Down, NoRebuildAfterTheEnd, Bound

\* A change of a list is pending until it is told; any other leaves the two
\* keys of the engine as they are.
LEMMA SetInv == ASSUME NEW t \in Threads, NEW k, NEW v, ConfigInv, Set(t, k, v) PROVE ConfigInv'
<1> DEFINE p == IF k \in ListKeys THEN "fire" ELSE "tell"
<1>1. up /\ thread[t].pc = "idle" /\ UNCHANGED <<engine, up, alive>>
  BY Zenon DEF Set
<1>2. /\ DOMAIN mem' = Keys
      /\ \A j \in Keys : j # k => mem'[j] = mem[j]
  BY Zenon DEF Set, ConfigInv, Shape
<1>3. /\ DOMAIN thread' = Threads /\ \A u \in Threads : u # t => thread'[u] = thread[u]
      /\ thread'[t] = [thread[t] EXCEPT !.pc = p]
  BY Zenon DEF Set, ConfigInv, Shape
<1>4. thread'[t].pc = p /\ DOMAIN thread'[t] = {"pc", "tsl", "tsa"}
  <2>1. DOMAIN thread[t] = {"pc", "tsl", "tsa"}
    BY Zenon DEF ConfigInv, Shape
  <2>2. "pc" \in DOMAIN thread[t]
    BY Zenon, <2>1
  <2> HIDE DEF p
  <2> QED
    BY Zenon, <1>3, <2>1, <2>2
<1>5. Shape'
  <2>1. \A u \in Threads : DOMAIN thread'[u] = {"pc", "tsl", "tsa"}
    BY Zenon, <1>3, <1>4 DEF ConfigInv, Shape
  <2> QED
    BY Zenon, <1>1, <1>2, <1>3, <2>1 DEF ConfigInv, Shape
<1>6. p \notin Rebuilding \cup {"idle"}
  BY Zenon DEF Rebuilding
<1>7. Alone' /\ (ObserverMutexFree => ObserverMutexFree') /\ (ObserverMutexFree' => ObserverMutexFree)
  <2>1. \A u \in Threads : (thread'[u].pc \in Rebuilding) <=> (thread[u].pc \in Rebuilding)
    <3>1. thread[t].pc \notin Rebuilding /\ thread'[t].pc \notin Rebuilding
      BY Zenon, <1>1, <1>4, <1>6 DEF Rebuilding
    <3> QED
      BY Zenon, <1>3, <3>1
  <2> QED
    BY Zenon, <2>1 DEF ConfigInv, Alone, ObserverMutexFree, Rebuilding
<1>8. Fresh'
  <2>1. CASE k \in ListKeys
    BY Zenon, <2>1, <1>4 DEF Fresh, Pending
  <2>2. CASE k \notin ListKeys
    <3>1. mem'["TslSources"] = mem["TslSources"] /\ mem'["TsaUrls"] = mem["TsaUrls"]
      BY Zenon, <1>2, <2>2, EngineKeys
    <3>2. BuiltFrom(mem') = BuiltFrom(mem)
      BY Zenon, <3>1 DEF BuiltFrom
    <3>3. ~Pending' => ~Pending
      <4>1. thread[t].pc # "fire"
        BY Zenon, <1>1
      <4> QED
        BY Zenon, <1>3, <4>1 DEF Pending
    <3>4. thread'[t].pc \notin {"tsa", "publish"} /\ thread'[t].pc # "publish"
      BY Zenon, <1>4, <1>6 DEF Rebuilding
    <3> QED
      BY Zenon, <1>1, <1>3, <1>7, <3>1, <3>2, <3>3, <3>4 DEF ConfigInv, Fresh
  <2> QED
    BY Zenon, <2>1, <2>2
<1> QED
  BY Zenon, <1>1, <1>5, <1>7, <1>8 DEF ConfigInv, Down, NoRebuildAfterTheEnd, Bound

\* The observers run when no other thread is in them: a rebuild begins, or
\* the provider is gone and there is none.
LEMMA FireInv == ASSUME NEW t \in Threads, ConfigInv, fireChanged(t) PROVE ConfigInv'
<1> DEFINE p == IF thread[t].pc = "fire" /\ alive THEN "tsl" ELSE "idle"
<1>1. up /\ ObserverMutexFree /\ UNCHANGED <<mem, engine, up, alive>> /\ thread[t].pc \in {"fire", "tell"}
  BY Zenon DEF fireChanged
<1>2. thread' = [thread EXCEPT ![t].pc = p]
  <2>1. CASE thread[t].pc = "fire"
    <3>1. ~(thread[t].pc = "tell")
      BY Zenon, <2>1
    <3> QED
      BY Zenon, <2>1, <3>1 DEF fireChanged
  <2>2. CASE thread[t].pc = "tell"
    <3>1. ~(thread[t].pc = "fire")
      BY Zenon, <2>2
    <3> QED
      BY Zenon, <2>2, <3>1 DEF fireChanged
  <2> QED
    BY Zenon, <1>1, <2>1, <2>2
<1>2a. /\ p = "tsl" => alive
       /\ p = "idle" => thread[t].pc = "tell" \/ ~alive
       /\ p \in {"tsl", "idle"}
  BY Zenon, <1>1
<1> HIDE DEF p
<1>3. /\ DOMAIN thread' = Threads /\ \A u \in Threads : u # t => thread'[u] = thread[u]
      /\ thread'[t] = [thread[t] EXCEPT !.pc = p]
  BY Zenon, <1>2 DEF ConfigInv, Shape
<1>4. thread'[t].pc = p /\ DOMAIN thread'[t] = {"pc", "tsl", "tsa"}
  <2>1. DOMAIN thread[t] = {"pc", "tsl", "tsa"}
    BY Zenon DEF ConfigInv, Shape
  <2>2. "pc" \in DOMAIN thread[t]
    BY Zenon, <2>1
  <2> QED
    BY Zenon, <1>3, <2>1, <2>2
<1>5. Shape'
  BY Zenon, <1>1, <1>3, <1>4 DEF ConfigInv, Shape
<1>6. \A u \in Threads : u # t => thread'[u].pc \notin Rebuilding
  BY Zenon, <1>1, <1>3 DEF ObserverMutexFree, Rebuilding
<1>7. Alone'
  BY Zenon, <1>6 DEF Alone
<1>8. NoRebuildAfterTheEnd'
  <2>1. ~alive => p \notin Rebuilding
    BY Zenon, <1>2a DEF Rebuilding
  <2> QED
    BY Zenon, <1>1, <1>4, <1>6, <2>1 DEF NoRebuildAfterTheEnd, ObserverMutexFree, Rebuilding
<1>9. Fresh'
  <2> SUFFICES ASSUME alive, ~Pending' PROVE Fresh'
    BY Zenon, <1>1 DEF Fresh
  <2>1. \A u \in Threads : thread'[u].pc \notin {"tsa", "publish"} /\ thread'[u].pc # "publish"
    BY Zenon, <1>2a, <1>4, <1>6 DEF Rebuilding
  <2>2. ObserverMutexFree' => p = "idle"
    BY Zenon, <1>2a, <1>4 DEF ObserverMutexFree
  <2>3. p = "idle" => ~Pending
    <3>1. p = "idle" => thread[t].pc # "fire"
      BY Zenon, <1>2a
    <3> QED
      BY Zenon, <1>3, <3>1 DEF Pending
  <2> QED
    BY Zenon, <1>1, <2>1, <2>2, <2>3 DEF ConfigInv, Fresh
<1> QED
  BY Zenon, <1>1, <1>5, <1>7, <1>8, <1>9 DEF ConfigInv, Down, Bound

\* A rebuild reads the lists, or fails and leaves no engine.
LEMMA TrustInv == ASSUME NEW t \in Threads, ConfigInv, rebuildTrust(t) PROVE ConfigInv'
<1>1. /\ up /\ thread[t].pc = "tsl" /\ UNCHANGED <<mem, up, alive>>
      /\ \/ thread' = [thread EXCEPT ![t] = [[thread[t] EXCEPT !.pc = "tsa"] EXCEPT !.tsl = mem["TslSources"]]] /\ engine' = engine
         \/ thread' = [thread EXCEPT ![t] = AtRest] /\ engine' = [engine EXCEPT !.built = NoEngine]
  BY Zenon DEF rebuildTrust, ConfigInv, Shape
<1>2. DOMAIN thread' = Threads /\ \A u \in Threads : u # t => thread'[u] = thread[u]
  BY Zenon, <1>1 DEF ConfigInv, Shape
<1>3. /\ DOMAIN thread'[t] = {"pc", "tsl", "tsa"}
      /\ \/ thread'[t].pc = "tsa" /\ thread'[t].tsl = mem["TslSources"] /\ engine' = engine
         \/ thread'[t].pc = "idle" /\ engine'.built = NoEngine
  <2>1. DOMAIN thread[t] = {"pc", "tsl", "tsa"} /\ DOMAIN thread = Threads /\ DOMAIN engine = {"built", "bound"}
    BY Zenon DEF ConfigInv, Shape
  <2>2. DOMAIN AtRest = {"pc", "tsl", "tsa"} /\ AtRest.pc = "idle" /\ "built" \in DOMAIN engine
    BY Zenon, <2>1 DEF AtRest
  <2>3. CASE thread' = [thread EXCEPT ![t] = AtRest] /\ engine' = [engine EXCEPT !.built = NoEngine]
    <3> HIDE DEF NoEngine
    <3> QED
      BY Zenon, <2>1, <2>2, <2>3
  <2>4. CASE thread' = [thread EXCEPT ![t] = [[thread[t] EXCEPT !.pc = "tsa"] EXCEPT !.tsl = mem["TslSources"]]] /\ engine' = engine
    BY Zenon, <2>1, <2>4
  <2> QED
    BY Zenon, <1>1, <2>3, <2>4
<1>4. DOMAIN engine' = {"built", "bound"}
  BY Zenon, <1>1 DEF ConfigInv, Shape
<1>5. Shape'
  <2>1. \A u \in Threads : DOMAIN thread'[u] = {"pc", "tsl", "tsa"}
    BY Zenon, <1>2, <1>3 DEF ConfigInv, Shape
  <2> QED
    BY Zenon, <1>1, <1>2, <1>4, <2>1 DEF ConfigInv, Shape
<1>6. thread[t].pc \in Rebuilding /\ thread[t].pc # "fire" /\ thread'[t].pc # "fire" /\ thread'[t].pc # "publish"
  BY Zenon, <1>1, <1>3 DEF Rebuilding
<1>7. \A u \in Threads : u # t => thread[u].pc \notin Rebuilding /\ thread'[u].pc \notin Rebuilding
  BY Zenon, <1>2, <1>6 DEF ConfigInv, Alone
<1>8. Alone'
  BY Zenon, <1>7 DEF Alone
<1>9. NoRebuildAfterTheEnd'
  BY Zenon, <1>1, <1>6 DEF ConfigInv, NoRebuildAfterTheEnd, ObserverMutexFree, Rebuilding
<1>10. Fresh'
  <2>1. \A u \in Threads : thread'[u].pc # "publish" /\ (thread'[u].pc \in {"tsa", "publish"} => u = t)
    BY Zenon, <1>6, <1>7 DEF Rebuilding
  <2>2. thread'[t].pc \in {"tsa", "publish"} => thread'[t].tsl = mem'["TslSources"]
    BY Zenon, <1>1, <1>3
  <2>3. ObserverMutexFree' => engine'.built = NoEngine
    BY Zenon, <1>3 DEF ObserverMutexFree
  <2> QED
    BY Zenon, <2>1, <2>2, <2>3 DEF Fresh
<1>11. Bound'
  BY Zenon, <1>3 DEF ConfigInv, Bound
<1> QED
  BY Zenon, <1>1, <1>5, <1>8, <1>9, <1>10, <1>11 DEF ConfigInv, Down

\* It then reads the authorities; what it read before is still current, or a
\* change is pending.
LEMMA TsaInv == ASSUME NEW t \in Threads, ConfigInv, rebuildTsa(t) PROVE ConfigInv'
<1>1. /\ up /\ thread[t].pc = "tsa" /\ UNCHANGED <<mem, engine, up, alive>>
      /\ thread' = [thread EXCEPT ![t] = [[thread[t] EXCEPT !.pc = "publish"] EXCEPT !.tsa = FirstOf(mem["TsaUrls"])]]
  BY Zenon DEF rebuildTsa, ConfigInv, Shape
<1>2. DOMAIN thread' = Threads /\ \A u \in Threads : u # t => thread'[u] = thread[u]
  BY Zenon, <1>1 DEF ConfigInv, Shape
<1>3. /\ DOMAIN thread'[t] = {"pc", "tsl", "tsa"}
      /\ thread'[t].pc = "publish" /\ thread'[t].tsl = thread[t].tsl /\ thread'[t].tsa = FirstOf(mem["TsaUrls"])
  <2>1. DOMAIN thread[t] = {"pc", "tsl", "tsa"} /\ DOMAIN thread = Threads
    BY Zenon DEF ConfigInv, Shape
  <2> QED
    BY Zenon, <1>1, <2>1
<1>4. Shape'
  <2>1. \A u \in Threads : DOMAIN thread'[u] = {"pc", "tsl", "tsa"}
    BY Zenon, <1>2, <1>3 DEF ConfigInv, Shape
  <2> QED
    BY Zenon, <1>1, <1>2, <2>1 DEF ConfigInv, Shape
<1>5. thread[t].pc \in Rebuilding /\ thread'[t].pc \in Rebuilding /\ thread[t].pc # "fire"
  BY Zenon, <1>1, <1>3 DEF Rebuilding
<1>6. \A u \in Threads : u # t => thread[u].pc \notin Rebuilding /\ thread'[u].pc \notin Rebuilding
  BY Zenon, <1>2, <1>5 DEF ConfigInv, Alone
<1>7. Alone'
  BY Zenon, <1>6 DEF Alone
<1>8. NoRebuildAfterTheEnd'
  BY Zenon, <1>1, <1>5 DEF ConfigInv, NoRebuildAfterTheEnd, ObserverMutexFree, Rebuilding
<1>9. Fresh'
  <2> SUFFICES ASSUME alive, ~Pending' PROVE Fresh'
    BY Zenon, <1>1 DEF Fresh
  <2>1. ~Pending
    BY Zenon, <1>2, <1>5 DEF Pending
  <2>2. thread[t].tsl = mem["TslSources"]
    BY Zenon, <1>1, <2>1 DEF ConfigInv, Fresh
  <2>3. \A u \in Threads : u # t => thread'[u].pc \notin {"tsa", "publish"} /\ thread'[u].pc # "publish"
    BY Zenon, <1>6 DEF Rebuilding
  <2>4. ~ObserverMutexFree'
    BY Zenon, <1>5 DEF ObserverMutexFree, Rebuilding
  <2> QED
    BY Zenon, <1>1, <1>3, <2>2, <2>3, <2>4 DEF Fresh
<1> QED
  BY Zenon, <1>1, <1>4, <1>7, <1>8, <1>9 DEF ConfigInv, Down, Bound

\* What is published is the configuration's, or a change is pending.
LEMMA PublishInv == ASSUME NEW t \in Threads, ConfigInv, publish(t) PROVE ConfigInv'
<1> DEFINE b == [tsl |-> thread[t].tsl, tsa |-> thread[t].tsa]
<1>1. /\ up /\ thread[t].pc = "publish" /\ UNCHANGED <<mem, up, alive>>
      /\ thread' = [thread EXCEPT ![t] = AtRest] /\ engine' = [built |-> b, bound |-> thread[t].tsa]
  BY Zenon DEF publish
<1>2. DOMAIN thread' = Threads /\ (\A u \in Threads : u # t => thread'[u] = thread[u]) /\ thread'[t] = AtRest
  BY Zenon, <1>1 DEF ConfigInv, Shape
<1>3. DOMAIN AtRest = {"pc", "tsl", "tsa"} /\ AtRest.pc = "idle"
  BY Zenon DEF AtRest
<1>4. DOMAIN engine' = {"built", "bound"} /\ engine'.built = b /\ engine'.bound = thread[t].tsa /\ b.tsa = thread[t].tsa
  BY Zenon, <1>1
<1>5. Shape'
  <2>1. \A u \in Threads : DOMAIN thread'[u] = {"pc", "tsl", "tsa"}
    BY Zenon, <1>2, <1>3 DEF ConfigInv, Shape
  <2> QED
    BY Zenon, <1>1, <1>2, <1>4, <2>1 DEF ConfigInv, Shape
<1>6. thread[t].pc \in Rebuilding /\ thread'[t].pc \notin Rebuilding /\ thread[t].pc # "fire"
  BY Zenon, <1>1, <1>2, <1>3 DEF Rebuilding
<1>7. \A u \in Threads : thread'[u].pc \notin Rebuilding
  BY Zenon, <1>2, <1>6 DEF ConfigInv, Alone
<1>8. Alone' /\ NoRebuildAfterTheEnd'
  BY Zenon, <1>7 DEF Alone, NoRebuildAfterTheEnd, ObserverMutexFree, Rebuilding
<1>9. Fresh'
  <2> SUFFICES ASSUME alive, ~Pending' PROVE Fresh'
    BY Zenon, <1>1 DEF Fresh
  <2>1. ~Pending
    BY Zenon, <1>2, <1>6 DEF Pending
  <2>2. thread[t].pc \in {"tsa", "publish"}
    BY Zenon, <1>1
  <2>3. thread[t].tsl = mem["TslSources"] /\ thread[t].tsa = FirstOf(mem["TsaUrls"])
    BY Zenon, <1>1, <2>1, <2>2 DEF ConfigInv, Fresh
  <2>4. engine'.built = BuiltFrom(mem')
    BY Zenon, <1>1, <1>4, <2>3 DEF BuiltFrom
  <2>5. \A u \in Threads : thread'[u].pc \notin {"tsa", "publish"} /\ thread'[u].pc # "publish"
    BY Zenon, <1>7 DEF Rebuilding
  <2> QED
    BY Zenon, <2>4, <2>5 DEF Fresh
<1> QED
  BY Zenon, <1>1, <1>4, <1>5, <1>8, <1>9 DEF ConfigInv, Down, Bound

\* The provider goes when nobody is in its observer, the process at any
\* time; an administrator touches the file alone.
LEMMA EndInv == ConfigInv /\ (removeChangeObserver \/ ConfigStop \/ AdminEdits \/ UNCHANGED configVars) => ConfigInv'
<1>1. ASSUME ConfigInv, removeChangeObserver PROVE ConfigInv'
  <2>1. up /\ ObserverMutexFree /\ alive' = FALSE /\ UNCHANGED <<mem, thread, engine, up>>
    BY Zenon, <1>1 DEF removeChangeObserver, Drained
  <2>2. Shape' /\ Alone' /\ ObserverMutexFree'
    BY Zenon, <1>1, <2>1 DEF ConfigInv, Shape, Alone, ObserverMutexFree
  <2> QED
    BY Zenon, <1>1, <2>1, <2>2 DEF ConfigInv, Down, NoRebuildAfterTheEnd, Fresh, Bound
<1>2. ASSUME ConfigInv, ConfigStop PROVE ConfigInv'
  <2>1. /\ up' = FALSE /\ alive' = FALSE /\ UNCHANGED <<mem, engine>>
        /\ DOMAIN thread' = Threads /\ \A t \in Threads : thread'[t] = AtRest
    BY Zenon, <1>2 DEF ConfigStop
  <2>2. DOMAIN AtRest = {"pc", "tsl", "tsa"} /\ AtRest.pc = "idle" /\ AtRest.pc \notin Rebuilding
    BY Zenon DEF AtRest, Rebuilding
  <2>3. Shape'
    BY Zenon, <1>2, <2>1, <2>2 DEF ConfigInv, Shape
  <2>4. Alone' /\ NoRebuildAfterTheEnd'
    BY Zenon, <2>1, <2>2 DEF Alone, NoRebuildAfterTheEnd, ObserverMutexFree, Rebuilding
  <2> QED
    BY Zenon, <1>2, <2>1, <2>2, <2>3, <2>4 DEF ConfigInv, Down, Fresh, Bound
<1>3. ASSUME ConfigInv, UNCHANGED <<mem, thread, engine, up, alive>> PROVE ConfigInv'
  BY Zenon, <1>3 DEF ConfigInv, Shape, Alone, Down, NoRebuildAfterTheEnd, ObserverMutexFree, Fresh, Pending, Bound
<1> QED
  BY Zenon, <1>1, <1>2, <1>3 DEF AdminEdits, configVars

\* Every step of the configuration, its threads and its provider preserves
\* the invariant.
THEOREM Inductive == ConfigInv /\ [ConfigNext]_configVars => ConfigInv'
<1>1. ASSUME ConfigInv, NEW t \in Threads, NEW k, NEW v, setKey(t, k, v) PROVE ConfigInv'
  BY Zenon, <1>1, SetInv DEF setKey
<1>2. ASSUME ConfigInv, NEW t \in Threads, NEW k, NEW d, resetKey(t, k, d) PROVE ConfigInv'
  BY Zenon, <1>2, SetInv DEF resetKey
<1>3. ASSUME ConfigInv, NEW t \in Threads, NEW v, recordLastTsaUrl(t, v) \/ recordCscaAnchorState(t, v) PROVE ConfigInv'
  BY Zenon, <1>3, SetInv DEF recordLastTsaUrl, recordCscaAnchorState
<1> QED
  BY Zenon, <1>1, <1>2, <1>3, StartInv, EndInv, FireInv, TrustInv, TsaInv, PublishInv DEF ConfigNext

\* Whatever threads change the configuration and rebuild the engine, in
\* whatever order: once no list is being changed the engine published is the
\* one of the configuration, under the authority on record, and a provider
\* whose destructor has unregistered it is not rebuilt into
\* (SigningEngineProvider::rebuild under ConfigStore's observer mutex).
THEOREM EngineStaysCurrent == ConfigSpec => []EngineIsCurrent
<1>1. ConfigInv => EngineIsCurrent
  <2> SUFFICES ASSUME ConfigInv, up, alive, engine.built # NoEngine, \A t \in Threads : thread[t].pc \in {"idle", "tell"}
               PROVE  engine.built = BuiltFrom(mem) /\ engine.bound = engine.built.tsa
    BY Zenon DEF ConfigInv, EngineIsCurrent, EngineFollowsTheKeys
  <2>1. ~Pending /\ ObserverMutexFree
    BY Zenon DEF Pending, ObserverMutexFree
  <2> QED
    BY Zenon, <2>1 DEF ConfigInv, Fresh, Bound
<1> QED
  BY ConfigBegins, Inductive, <1>1, PTL DEF ConfigSpec

-----------------------------------------------------------------------------
\* What a start finds.  The file that a save put in place loads as what was
\* saved, and memory holds only values that are read back as they were written
\* (Kept).

\* A value that a key can have in memory.
GoodValue(k, v) ==
    /\ k \in ListKeys => IsList(v) /\ \A i \in 1..Len(v) : isValid(v[i])
    /\ k = "CscaAnchorState" => ReportOf(ReportFields(v)) = v
    /\ k \notin ListKeys \cup TextKeys \cup {"CscaAnchorState"} => isValid(v)

GoodMemory(m) == DOMAIN m = Keys /\ \A k \in Keys : GoodValue(k, m[k])
HasLines(f) == DOMAIN f = Keys /\ \A k \in Keys : IsList(f[k])

\* What was written whole reads back as what was stored.
Kept ==
    /\ GoodMemory(mem) /\ HasLines(file)
    /\ written = "whole" => file # NoFile /\ loadFromFile(file) = Stored(mem)

\* A sequence is a list.
LEMMA ListsAreLists == ASSUME NEW S, NEW v \in Seq(S) PROVE IsList(v)
<1>1. \A i \in 1..Len(v) : v[i] \in Range(v)
  BY DEF Range
<1> QED
  BY <1>1 DEF IsList

\* What the loop over the lines of a key has after n of them.
HasRead(p, lines, n) ==
    /\ p.rest = SubSeq(lines, n + 1, Len(lines))
    /\ p.kept \in Seq(Range(lines))
    /\ \A i \in 1..Len(p.kept) : isValid(p.kept[i])
    /\ (\A i \in 1..Len(lines) : isValid(lines[i])) => p.kept = SubSeq(lines, 1, n)

\* A line that is read is kept if it is valid.
LEMMA ReadingOne ==
    ASSUME NEW lines, IsList(lines), NEW n \in Nat, n < Len(lines),
           NEW p \in [rest : Seq(Range(lines)), kept : Seq(Range(lines))], HasRead(p, lines, n)
    PROVE  HasRead(ReadLine(p), lines, n + 1)
<1> DEFINE R == Range(lines)
           h == lines[n + 1]
<1>1. lines \in Seq(R) /\ n + 1 \in 1..Len(lines) /\ h \in R
  BY DEF IsList
<1>2. p.rest = SubSeq(lines, n + 1, Len(lines)) /\ p.kept \in Seq(R) /\ p.rest \in Seq(R)
  BY Zenon DEF HasRead
<1> HIDE DEF R
<1>3. p.rest # <<>> /\ Head(p.rest) = h /\ Tail(p.rest) = SubSeq(lines, (n + 1) + 1, Len(lines))
  <2> DEFINE rest == SubSeq(lines, (n + 1) + 1, Len(lines))
  <2>0. Len(lines) \in Nat /\ n \in 0..Len(lines) /\ n + 1 \in 0..Len(lines)
    BY <1>1
  <2>1. Len(p.rest) = Len(lines) - n /\ \A i \in 1..(Len(lines) - n) : p.rest[i] = lines[n + i]
    BY Zenon, <1>1, <1>2, <2>0, Suffix
  <2>2. /\ rest \in Seq(R) /\ Len(rest) = Len(lines) - (n + 1)
        /\ \A i \in 1..(Len(lines) - (n + 1)) : rest[i] = lines[(n + 1) + i]
    <3> DEFINE m == n + 1
    <3>1. m \in 0..Len(lines)
      BY Zenon, <2>0
    <3> HIDE DEF m
    <3>2. /\ SubSeq(lines, m + 1, Len(lines)) \in Seq(R) /\ Len(SubSeq(lines, m + 1, Len(lines))) = Len(lines) - m
          /\ \A i \in 1..(Len(lines) - m) : SubSeq(lines, m + 1, Len(lines))[i] = lines[m + i]
      BY Zenon, <1>1, <3>1, Suffix
    <3> QED
      BY Zenon, <3>2 DEF m
  <2>3. p.rest # <<>> /\ Head(p.rest) = h
    <3>1. Len(p.rest) > 0 /\ p.rest[1] = h
      BY <2>0, <2>1
    <3>2. p.rest \in Seq(R)
      BY Zenon, <1>2
    <3>3. p.rest # <<>> /\ Head(p.rest) = p.rest[1]
      BY <3>1, <3>2, HeadAndTail, Zenon
    <3> HIDE DEF h
    <3> QED
      BY <3>1, <3>3, Zenon
  <2>4. /\ Tail(p.rest) \in Seq(R) /\ Len(Tail(p.rest)) = Len(p.rest) - 1
        /\ \A i \in 1..Len(Tail(p.rest)) : Tail(p.rest)[i] = p.rest[i + 1]
    BY <1>2, <2>3
  <2> HIDE DEF rest
  <2>5. Tail(p.rest) = rest
    <3>1. Len(Tail(p.rest)) = Len(rest)
      BY <2>0, <2>1, <2>2, <2>4
    <3>2. ASSUME NEW i \in 1..Len(Tail(p.rest)) PROVE Tail(p.rest)[i] = rest[i]
      <4>1. i \in 1..(Len(lines) - (n + 1)) /\ i + 1 \in 1..(Len(lines) - n) /\ n + (i + 1) = (n + 1) + i
        BY <2>0, <2>2, <3>1
      <4>2. Tail(p.rest)[i] = p.rest[i + 1] /\ p.rest[i + 1] = lines[n + (i + 1)] /\ rest[i] = lines[(n + 1) + i]
        BY Zenon, <2>1, <2>2, <2>4, <4>1
      <4> QED
        BY Zenon, <4>1, <4>2
    <3> QED
      BY Zenon, <2>2, <2>4, <3>1, <3>2, SameSequence
  <2> QED
    BY Zenon, <2>3, <2>5 DEF rest
<1> HIDE DEF h
<1> DEFINE kept == IF isValid(h) THEN Append(p.kept, h) ELSE p.kept
<1>4. ReadLine(p) = [rest |-> Tail(p.rest), kept |-> kept]
  BY Zenon, <1>3 DEF ReadLine
<1>5. kept \in Seq(R) /\ \A i \in 1..Len(kept) : isValid(kept[i])
  <2>1. \A i \in 1..Len(p.kept) : isValid(p.kept[i])
    BY Zenon DEF HasRead
  <2> QED
    BY <1>1, <1>2, <2>1
<1>6. (\A i \in 1..Len(lines) : isValid(lines[i])) => kept = SubSeq(lines, 1, n + 1)
  <2> SUFFICES ASSUME \A i \in 1..Len(lines) : isValid(lines[i]) PROVE kept = SubSeq(lines, 1, n + 1)
    BY Zenon
  <2>1. isValid(h) /\ p.kept = SubSeq(lines, 1, n)
    BY Zenon, <1>1 DEF HasRead, h
  <2>2. Append(SubSeq(lines, 1, n), h) = SubSeq(lines, 1, n + 1)
    BY <1>1 DEF h
  <2> QED
    BY Zenon, <2>1, <2>2
<1> HIDE DEF kept
<1>7. ReadLine(p).rest = Tail(p.rest) /\ ReadLine(p).kept = kept
  BY <1>4
<1> QED
  BY Zenon, <1>3, <1>5, <1>6, <1>7 DEF HasRead, R

\* The loop gathers valid lines, and all of them when all are valid.
LEMMA GatheredFacts ==
    ASSUME NEW lines, IsList(lines)
    PROVE  /\ IsList(Gathered(lines)) /\ \A i \in 1..Len(Gathered(lines)) : isValid(Gathered(lines)[i])
           /\ (\A i \in 1..Len(lines) : isValid(lines[i])) => Gathered(lines) = lines
<1> DEFINE S == [rest : Seq(Range(lines)), kept : Seq(Range(lines))]
           first == [rest |-> lines, kept |-> <<>>]
           body == [p \in S |-> ReadLine(p)]
           L == Loop(first, body)
<1>1. lines \in Seq(Range(lines)) /\ Len(lines) \in Nat
  BY DEF IsList
<1>2. first \in S
  BY <1>1
<1>3. body \in [S -> S]
  <2> SUFFICES ASSUME NEW p \in S PROVE ReadLine(p) \in S
    BY Zenon
  <2>1. p.rest \in Seq(Range(lines)) /\ p.kept \in Seq(Range(lines))
    BY Zenon
  <2>2. CASE p.rest = <<>>
    BY Zenon, <2>2 DEF ReadLine
  <2>3. CASE p.rest # <<>>
    <3>1. Tail(p.rest) \in Seq(Range(lines)) /\ Head(p.rest) \in Range(lines)
      BY <2>1, <2>3
    <3>2. Append(p.kept, Head(p.rest)) \in Seq(Range(lines))
      BY <2>1, <3>1
    <3> QED
      BY Zenon, <2>1, <2>3, <3>1, <3>2 DEF ReadLine
  <2> QED
    BY Zenon, <2>2, <2>3
<1>4. Runs(L, S, first, body)
  <2> HIDE DEF S, first, body
  <2> QED
    BY <1>2, <1>3, LoopRuns, Zenon
<1>5. L[0] = first /\ \A n \in Nat : L[n] \in S /\ L[n + 1] = ReadLine(L[n])
  <2> HIDE DEF L, first, S
  <2> QED
    BY Zenon, <1>4 DEF Runs
<1> HIDE DEF L
<1>6. Gathered(lines) = L[Len(lines)].kept
  BY Zenon DEF Gathered, L
<1> DEFINE T == {n \in Nat : n <= Len(lines) => HasRead(L[n], lines, n)}
<1>7. 0 \in T
  <2>1. /\ L[0].rest = lines /\ L[0].kept = <<>> /\ L[0].kept \in Seq(Range(lines))
        /\ \A i \in 1..Len(L[0].kept) : isValid(L[0].kept[i])
    BY <1>5
  <2>2. SubSeq(lines, 0 + 1, Len(lines)) = lines /\ SubSeq(lines, 1, 0) = <<>> /\ Len(<<>>) = 0
    BY <1>1
  <2> QED
    <3>1. HasRead(L[0], lines, 0)
      BY <2>1, <2>2, Zenon DEF HasRead
    <3> QED
      BY Zenon, <3>1
<1>8. ASSUME NEW n \in Nat, n \in T PROVE n + 1 \in T
  <2> SUFFICES ASSUME n + 1 <= Len(lines) PROVE HasRead(L[n + 1], lines, n + 1)
    OBVIOUS
  <2>1. n < Len(lines) /\ n <= Len(lines)
    BY <1>1
  <2>2. HasRead(L[n], lines, n)
    BY Zenon, <1>8, <2>1
  <2>3. HasRead(ReadLine(L[n]), lines, n + 1)
    BY Zenon, <1>5, <2>1, <2>2, ReadingOne
  <2> QED
    BY Zenon, <1>5, <2>3
<1> HIDE DEF T
<1>9. Nat \subseteq T
  BY <1>7, <1>8, Induction, Zenon
<1>10. HasRead(L[Len(lines)], lines, Len(lines))
  BY <1>1, <1>9 DEF T
<1>11. SubSeq(lines, 1, Len(lines)) = lines
  BY <1>1
<1>12. IsList(Gathered(lines))
  BY Zenon, <1>6, <1>10, ListsAreLists DEF HasRead
<1> QED
  BY Zenon, <1>6, <1>10, <1>11, <1>12 DEF HasRead

\* A report that was read is written so that it reads the same again.
LEMMA ReportsReadBack == ASSUME NEW line PROVE ReportOf(ReportFields(ReportOf(line))) = ReportOf(line)
<1> DEFINE field(l, name) == {f[2] : f \in {g \in l : g[1] = name}}
           number(l, name) == IF field(l, name) = {} THEN 0 ELSE CHOOSE n \in field(l, name) : TRUE
           r == ReportOf(line)
           w == ReportFields(r)
<1>1. \A l : ReportOf(l) = [anchors |-> number(l, "anchors"), signedAt |-> number(l, "signedAt"),
                            signer |-> IF field(l, "signer") = {} THEN "" ELSE "fingerprint"]
  BY Zenon DEF ReportOf
<1>2. PICK a, d, s : r = [anchors |-> a, signedAt |-> d, signer |-> s] /\ s \in {"", "fingerprint"}
  BY Zenon, <1>1
<1> HIDE DEF r
<1>3. r.anchors = a /\ r.signedAt = d /\ r.signer = s
  BY Zenon, <1>2
<1>4. w = {<<"anchors", a>>} \cup (IF s = "" THEN {} ELSE {<<"signer", 1>>})
              \cup (IF d = 0 THEN {} ELSE {<<"signedAt", d>>})
  BY <1>3, Zenon DEF ReportFields
<1> HIDE DEF w
<1> DEFINE A == <<"anchors", a>>
           G == <<"signer", 1>>
           D == <<"signedAt", d>>
<1>4a. A[1] = "anchors" /\ A[2] = a /\ G[1] = "signer" /\ G[2] = 1 /\ D[1] = "signedAt" /\ D[2] = d
  BY Zenon
<1>4b. w = {A} \cup (IF s = "" THEN {} ELSE {G}) \cup (IF d = 0 THEN {} ELSE {D})
  BY Zenon, <1>4
<1> HIDE DEF A, G, D
<1>5. field(w, "anchors") = {a}
  BY Zenon, <1>4a, <1>4b
<1>6. field(w, "signedAt") = IF d = 0 THEN {} ELSE {d}
  BY Zenon, <1>4a, <1>4b
<1>7. field(w, "signer") = IF s = "" THEN {} ELSE {1}
  BY Zenon, <1>4a, <1>4b
<1> HIDE DEF field
<1>8. number(w, "anchors") = a
  BY Zenon, <1>5
<1>9. number(w, "signedAt") = d
  BY Zenon, <1>6
<1>10. s = IF field(w, "signer") = {} THEN "" ELSE "fingerprint"
  BY Zenon, <1>2, <1>7
<1> HIDE DEF number
<1>11. ReportOf(w) = [anchors |-> a, signedAt |-> d, signer |-> s]
  BY Zenon, <1>1, <1>8, <1>9, <1>10
<1> QED
  BY Zenon, <1>2, <1>11 DEF r, w

\* One line.
LEMMA OneLine ==
    ASSUME NEW v
    PROVE  /\ IsList(<<v>>) /\ Len(<<v>>) = 1 /\ <<v>>[1] = v /\ LastOf(<<v>>) = v /\ <<v>> # <<>>
           /\ \A i \in 1..Len(<<v>>) : <<v>>[i] = v
<1>1. <<v>> \in Seq({v}) /\ Len(<<v>>) = 1 /\ <<v>>[1] = v /\ <<v>> # <<>>
  OBVIOUS
<1>2. \A i \in 1..Len(<<v>>) : <<v>>[i] = v
  OBVIOUS
<1> QED
  BY Zenon, <1>1, <1>2, ListsAreLists DEF LastOf

\* The kinds of keys.
LEMMA KindsOfKeys ==
    /\ "CscaAnchorState" \notin ListKeys \cup TextKeys /\ ListKeys \cap TextKeys = {}
    /\ "DefaultReason" \in Keys /\ "DefaultReason" \in TextKeys
<1>1. 8 \in DOMAIN ConfigKeys /\ ConfigKeys[8] = "DefaultReason"
  BY DEF ConfigKeys
<1>2. "DefaultReason" \in Keys
  BY <1>1, Zenon DEF Keys, Range
<1> QED
  BY Zenon, <1>2 DEF ListKeys, TextKeys

\* The defaults and the seeds are values a key can have.
LEMMA DefaultsAreGood ==
    \A k \in Keys : /\ GoodValue(k, applyDefaults[k])
                    /\ k \in ListKeys => GoodValue(k, seeded(k))
<1> SUFFICES ASSUME NEW k \in Keys
             PROVE  GoodValue(k, applyDefaults[k]) /\ (k \in ListKeys => GoodValue(k, seeded(k)))
  BY Zenon
<1>1. applyDefaults[k] = CASE k \in ListKeys -> <<>>
                           [] k = "CscaAnchorState" -> NoReport
                           [] k \in TextKeys -> ""
                           [] OTHER -> "built-in"
  BY Zenon DEF applyDefaults, Keys
<1>2. CASE k \in ListKeys
  <2>1. applyDefaults[k] = <<>> /\ k # "CscaAnchorState"
    BY Zenon, <1>1, <1>2, KindsOfKeys
  <2>2. <<>> \in Seq({"seed TSA"}) /\ Len(<<>>) = 0
    OBVIOUS
  <2>3. IsList(<<>>)
    BY Zenon, <2>2, ListsAreLists
  <2>4. PICK u : seeded(k) = <<u>> /\ isValid(u)
    <3>1. isValid("seed TSA") /\ isValid("seed list")
      BY Zenon DEF isValid, Bad
    <3>2. seeded(k) = <<"seed TSA">> \/ seeded(k) = <<"seed list">>
      BY Zenon DEF seeded
    <3> QED
      BY <3>1, <3>2, Zenon
  <2>5. IsList(seeded(k)) /\ \A i \in 1..Len(seeded(k)) : isValid(seeded(k)[i])
    <3>1. IsList(<<u>>) /\ \A i \in 1..Len(<<u>>) : <<u>>[i] = u
      BY Zenon, OneLine
    <3> QED
      BY <2>4, <3>1, Zenon
  <2>6. \A i \in 1..Len(<<>>) : isValid(<<>>[i])
    BY <2>2
  <2> QED
    BY <1>2, <2>1, <2>3, <2>5, <2>6, KindsOfKeys, Zenon DEF GoodValue
<1>3. CASE k = "CscaAnchorState"
  <2>1. applyDefaults[k] = NoReport
    BY Zenon, <1>1, <1>3, KindsOfKeys
  <2>2. ReportOf({}) = NoReport
    BY Zenon DEF ReportOf, NoReport
  <2>3. ReportOf(ReportFields(NoReport)) = NoReport
    BY Zenon, <2>2, ReportsReadBack
  <2> QED
    BY <1>3, <2>1, <2>3, KindsOfKeys, Zenon DEF GoodValue
<1>4. CASE k \notin ListKeys /\ k # "CscaAnchorState"
  <2>1. k \notin TextKeys => applyDefaults[k] = "built-in"
    BY Zenon, <1>1, <1>4
  <2>2. isValid("built-in")
    BY Zenon DEF isValid, Bad
  <2> QED
    BY <1>4, <2>1, <2>2, Zenon DEF GoodValue
<1> QED
  BY Zenon, <1>2, <1>3, <1>4

\* Whatever a file holds, what is loaded from it can be in memory.
LEMMA LoadedIsGood == ASSUME NEW f, HasLines(f) PROVE GoodMemory(loadFromFile(f))
<1>1. DOMAIN loadFromFile(f) = Keys
  BY Zenon DEF loadFromFile, Keys
<1>2. ASSUME NEW k \in Keys PROVE GoodValue(k, loadFromFile(f)[k])
  <2> DEFINE v == loadFromFile(f)[k]
             g == Gathered(f[k])
  <2>1. v = IF k \in ListKeys THEN g
            ELSE IF f[k] = <<>> THEN applyDefaults[k]
            ELSE IF k = "CscaAnchorState" THEN ReportOf(LastOf(f[k]))
            ELSE IF k \in TextKeys THEN trim(LastOf(f[k]))
            ELSE IF g = <<>> THEN applyDefaults[k]
            ELSE LastOf(g)
    BY Zenon DEF loadFromFile, Keys
  <2>2. IsList(f[k])
    BY Zenon DEF HasLines
  <2>3. IsList(g) /\ \A i \in 1..Len(g) : isValid(g[i])
    BY Zenon, <2>2, GatheredFacts
  <2> HIDE DEF v, g
  <2>4. CASE k \in ListKeys
    BY Zenon, <2>1, <2>3, <2>4, KindsOfKeys DEF GoodValue, v
  <2>5. CASE k \notin ListKeys /\ v = applyDefaults[k]
    BY Zenon, <2>5, DefaultsAreGood DEF v
  <2>6. CASE k = "CscaAnchorState" /\ v = ReportOf(LastOf(f[k]))
    BY <2>6, ReportsReadBack, KindsOfKeys, Zenon DEF GoodValue, v
  <2>7. CASE k \in TextKeys
    BY Zenon, <2>7, KindsOfKeys DEF GoodValue, v
  <2>8. CASE k \notin ListKeys \cup TextKeys \cup {"CscaAnchorState"} /\ g # <<>> /\ v = LastOf(g)
    <3>1. g \in Seq(Range(g)) /\ Len(g) \in 1..Len(g)
      BY <2>3, <2>8 DEF IsList
    <3>2. isValid(v)
      BY Zenon, <2>3, <2>8, <3>1 DEF LastOf
    <3> QED
      BY Zenon, <2>8, <3>2 DEF GoodValue, v
  <2> QED
    BY Zenon, <2>1, <2>4, <2>5, <2>6, <2>7, <2>8
<1> QED
  BY <1>1, <1>2, Zenon DEF GoodMemory

\* What is written whole reads back as it was stored.
LEMMA WrittenReadsBack ==
    ASSUME NEW m, GoodMemory(m)
    PROVE  HasLines(Written(m)) /\ Written(m) # NoFile /\ loadFromFile(Written(m)) = Stored(m)
<1> DEFINE f == Written(m)
<1>1. DOMAIN f = Keys /\ \A k \in Keys : f[k] = Lines(k, m[k]) /\ GoodValue(k, m[k])
  BY Zenon DEF Written, Keys, GoodMemory
<1> HIDE DEF f
<1>2. <<>> \in Seq({}) /\ IsList(<<>>) /\ Len(<<>>) = 0
  <2>1. <<>> \in Seq({}) /\ Len(<<>>) = 0
    OBVIOUS
  <2> QED
    BY Zenon, <2>1, ListsAreLists
<1>3. ASSUME NEW k \in Keys
      PROVE  IsList(f[k]) /\ loadFromFile(f)[k] = Stored(m)[k] /\ (k \notin ListKeys => Len(f[k]) <= 1)
  <2> DEFINE v == m[k]
  <2>1. loadFromFile(f)[k] =
            IF k \in ListKeys THEN Gathered(f[k])
            ELSE IF f[k] = <<>> THEN applyDefaults[k]
            ELSE IF k = "CscaAnchorState" THEN ReportOf(LastOf(f[k]))
            ELSE IF k \in TextKeys THEN trim(LastOf(f[k]))
            ELSE IF Gathered(f[k]) = <<>> THEN applyDefaults[k]
            ELSE LastOf(Gathered(f[k]))
    BY Zenon DEF loadFromFile, Keys
  <2>2. Stored(m)[k] = IF k \in TextKeys THEN trim(v) ELSE v
    BY Zenon DEF Stored, Keys
  <2>3. f[k] = IF k \in ListKeys THEN v
               ELSE IF v = applyDefaults[k] THEN <<>>
               ELSE IF k = "CscaAnchorState" THEN <<ReportFields(v)>>
               ELSE <<v>>
    BY Zenon, <1>1 DEF Lines
  <2>4. GoodValue(k, v)
    BY Zenon, <1>1
  <2> HIDE DEF v
  <2>5. CASE k \in ListKeys
    <3>1. f[k] = v /\ IsList(v) /\ \A i \in 1..Len(v) : isValid(v[i])
      BY Zenon, <2>3, <2>4, <2>5 DEF GoodValue
    <3>2. Gathered(v) = v
      BY Zenon, <3>1, GatheredFacts
    <3> QED
      BY Zenon, <2>1, <2>2, <2>5, <3>1, <3>2, KindsOfKeys
  <2>6. CASE k \notin ListKeys /\ v = applyDefaults[k]
    <3>1. f[k] = <<>>
      BY Zenon, <2>3, <2>6
    <3>2. k \in TextKeys => trim(v) = v
      <4>1. k \in TextKeys => v = ""
        BY Zenon, <2>6, KindsOfKeys DEF applyDefaults, Keys
      <4> QED
        BY Zenon, <4>1 DEF trim, Padded
    <3> QED
      BY <1>2, <2>1, <2>2, <2>6, <3>1, <3>2
  <2>7. CASE k = "CscaAnchorState" /\ v # applyDefaults[k]
    <3>1. f[k] = <<ReportFields(v)>> /\ ReportOf(ReportFields(v)) = v /\ k \notin ListKeys \cup TextKeys
      BY Zenon, <2>3, <2>4, <2>7, KindsOfKeys DEF GoodValue
    <3>2. IsList(f[k]) /\ LastOf(f[k]) = ReportFields(v) /\ f[k] # <<>> /\ Len(f[k]) = 1
      BY <3>1, OneLine, Zenon
    <3> QED
      BY <2>1, <2>2, <2>7, <3>1, <3>2
  <2>8. CASE k \notin ListKeys \cup {"CscaAnchorState"} /\ v # applyDefaults[k]
    <3>1. f[k] = <<v>>
      BY Zenon, <2>3, <2>8
    <3>2. IsList(f[k]) /\ LastOf(f[k]) = v /\ f[k] # <<>> /\ Len(f[k]) = 1 /\ f[k][1] = v
      BY <3>1, OneLine, Zenon
    <3>3. CASE k \in TextKeys
      BY <2>1, <2>2, <2>8, <3>2, <3>3
    <3>4. CASE k \notin TextKeys
      <4>1. \A i \in 1..Len(f[k]) : isValid(f[k][i])
        BY <2>4, <2>8, <3>2, <3>4 DEF GoodValue
      <4>2. Gathered(f[k]) = f[k]
        BY Zenon, <3>2, <4>1, GatheredFacts
      <4> QED
        BY <2>1, <2>2, <2>8, <3>2, <3>4, <4>2
    <3> QED
      BY Zenon, <3>3, <3>4
  <2> QED
    BY Zenon, <2>5, <2>6, <2>7, <2>8
<1>4. f # NoFile
  <2>1. NoFile["DefaultReason"] = <<"no", "such", "file">>
    BY KindsOfKeys, Zenon DEF NoFile, Keys
  <2>2. Len(<<"no", "such", "file">>) = 3
    BY Zenon
  <2>3. Len(f["DefaultReason"]) <= 1
    BY Zenon, <1>3, KindsOfKeys
  <2> QED
    BY <2>1, <2>2, <2>3
<1>5. loadFromFile(f) = Stored(m)
  <2>1. \A k \in Keys : loadFromFile(f)[k] = Stored(m)[k]
    BY Zenon, <1>3
  <2>2. loadFromFile(f) = [k \in Keys |-> loadFromFile(f)[k]]
    BY Zenon DEF loadFromFile, Keys
  <2>3. Stored(m) = [k \in Keys |-> Stored(m)[k]]
    BY Zenon DEF Stored, Keys
  <2> QED
    BY <2>1, <2>2, <2>3, Zenon
<1> QED
  BY <1>1, <1>3, <1>4, <1>5, Zenon DEF HasLines, f

\* Blanks around a text go once.
LEMMA StoredIsGood ==
    ASSUME NEW m, GoodMemory(m) PROVE GoodMemory(Stored(m)) /\ Stored(Stored(m)) = Stored(m)
<1>1. DOMAIN Stored(m) = Keys /\ DOMAIN Stored(Stored(m)) = Keys
  BY Zenon DEF Stored, Keys
<1>2. \A n : \A k \in Keys : Stored(n)[k] = IF k \in TextKeys THEN trim(n[k]) ELSE n[k]
  BY Zenon DEF Stored, Keys
<1>3. \A v : trim(trim(v)) = trim(v)
  BY Zenon DEF trim, Padded
<1>4. \A k \in Keys : Stored(Stored(m))[k] = Stored(m)[k]
  BY Zenon, <1>2, <1>3
<1>5. ASSUME NEW k \in Keys PROVE GoodValue(k, Stored(m)[k])
  <2>1. CASE k \in TextKeys
    BY Zenon, <2>1, KindsOfKeys DEF GoodValue
  <2>2. CASE k \notin TextKeys
    BY <1>2, <2>2, Zenon DEF GoodMemory
  <2> QED
    BY Zenon, <2>1, <2>2
<1>6. Stored(Stored(m)) = [k \in Keys |-> Stored(Stored(m))[k]] /\ Stored(m) = [k \in Keys |-> Stored(m)[k]]
  <2>1. \A n : Stored(n) = [k \in Keys |-> Stored(n)[k]]
    BY Zenon DEF Stored, Keys
  <2> QED
    BY <2>1, Zenon
<1>7. Stored(Stored(m)) = Stored(m)
  BY <1>4, <1>6, Zenon
<1> QED
  BY <1>1, <1>5, <1>7, Zenon DEF GoodMemory

\* However the writing goes, the file has lines for the keys, and is read
\* back as what was stored if it was written whole.
LEMMA PersistKeeps ==
    ASSUME NEW m, GoodMemory(m), HasLines(file), persist(m)
    PROVE  HasLines(file') /\ (written' = "whole" => file' = Written(m))
<1>1. HasLines(Written(m))
  BY WrittenReadsBack, Zenon
<1>2. ASSUME NEW n, file' = CutAfter(Written(m), n) PROVE HasLines(file')
  <2>1. <<>> \in Seq({})
    OBVIOUS
  <2>2. IsList(<<>>)
    BY Zenon, <2>1, ListsAreLists
  <2>3. DOMAIN file' = Keys /\ \A k \in Keys : file'[k] = Written(m)[k] \/ file'[k] = <<>>
    BY <1>2, Zenon DEF CutAfter, Keys
  <2> QED
    BY <1>1, <2>2, <2>3, Zenon DEF HasLines
<1>3. "failed" # "whole" /\ "cut" # "whole"
  BY Zenon
<1> QED
  BY <1>1, <1>2, <1>3, Zenon DEF persist

\* A change keeps what a start will find.
LEMMA SetKeeps ==
    ASSUME NEW t, NEW k \in Keys, NEW v, GoodValue(k, v), Kept, Set(t, k, v) PROVE Kept'
<1>1. mem' = [mem EXCEPT ![k] = v] /\ persist(mem')
  BY Zenon DEF Set
<1>2. GoodMemory(mem')
  BY <1>1, Zenon DEF Kept, GoodMemory
<1>3. HasLines(file') /\ (written' = "whole" => file' = Written(mem'))
  BY <1>1, <1>2, PersistKeeps, Zenon DEF Kept
<1> QED
  BY <1>2, <1>3, WrittenReadsBack, Zenon DEF Kept

\* A start loads what the file holds, or seeds a file that is not there.
LEMMA StartKeeps ==
    ASSUME Kept, ConfigStart
    PROVE  Kept' /\ (written = "whole" /\ written' = "whole" => mem' = Stored(mem))
<1> DEFINE m == [k \in Range(ConfigKeys) |-> IF k \in ListKeys THEN seeded(k) ELSE applyDefaults[k]]
<1>1. GoodMemory(m)
  <2>1. DOMAIN m = Keys /\ \A k \in Keys : m[k] = IF k \in ListKeys THEN seeded(k) ELSE applyDefaults[k]
    BY Zenon DEF Keys
  <2> HIDE DEF m
  <2> QED
    BY <2>1, DefaultsAreGood, Zenon DEF GoodMemory
<1>2. GoodMemory(applyDefaults)
  BY DefaultsAreGood, Zenon DEF GoodMemory, applyDefaults, Keys
<1> HIDE DEF m
<1>3. CASE file = NoFile /\ persist(m) /\ mem' = IF file' = NoFile THEN m ELSE loadFromFile(file')
  <2>1. HasLines(file') /\ (written' = "whole" => file' = Written(m))
    BY <1>1, <1>3, PersistKeeps, Zenon DEF Kept
  <2>2. GoodMemory(mem')
    BY <1>1, <1>3, <2>1, LoadedIsGood, Zenon
  <2>3. written' = "whole" => file' # NoFile /\ loadFromFile(file') = Stored(m) /\ mem' = Stored(m)
    BY <1>1, <1>3, <2>1, WrittenReadsBack, Zenon
  <2>4. Kept'
    BY <1>1, <2>1, <2>2, <2>3, StoredIsGood, Zenon DEF Kept
  <2> QED
    BY <1>3, <2>4, Zenon DEF Kept
<1>4. CASE file # NoFile /\ mem' = loadFromFile(file) /\ UNCHANGED <<file, written>>
  <2>1. GoodMemory(mem') /\ HasLines(file')
    BY <1>4, LoadedIsGood, Zenon DEF Kept
  <2>2. written = "whole" => mem' = Stored(mem) /\ Stored(mem') = mem'
    BY <1>4, StoredIsGood, Zenon DEF Kept
  <2> QED
    BY <1>4, <2>1, <2>2, Zenon DEF Kept
<1>5. CASE mem' = applyDefaults /\ written' = "not opened" /\ file' = file
  <2>1. written' # "whole"
    BY Zenon, <1>5
  <2> QED
    BY <1>2, <1>5, <2>1, Zenon DEF Kept
<1> QED
  BY <1>3, <1>4, <1>5, Zenon DEF ConfigStart, seedFirstRunDefaults, m

\* Every step keeps what a start will find.
LEMMA StepKeeps == Kept /\ [ConfigNext]_configVars => Kept'
<1> SUFFICES ASSUME Kept, [ConfigNext]_configVars PROVE Kept'
  BY Zenon
<1>1. CASE UNCHANGED <<mem, file, written>>
  BY <1>1, Zenon DEF Kept
<1>2. ASSUME NEW t \in Threads, NEW c \in Changes, setKey(t, c[1], c[2]) PROVE Kept'
  <2>1. c[1] \in Keys /\ (c[1] \in ListKeys => IsList(c[2]))
    BY ConfigAssumption, Zenon DEF Keys
  <2>2. /\ c[1] \notin FileOnly \cup ReadOnly /\ Set(t, c[1], c[2])
        /\ c[1] \in ListKeys => \A i \in DOMAIN c[2] : isValid(c[2][i])
        /\ c[1] = "DefaultLevel" => isValid(c[2])
    BY <1>2, Zenon DEF setKey
  <2>3. GoodValue(c[1], c[2])
    <3>1. c[1] \in ListKeys => IsList(c[2]) /\ \A i \in 1..Len(c[2]) : isValid(c[2][i])
      BY <2>1, <2>2 DEF IsList
    <3>2. c[1] # "CscaAnchorState"
      BY Zenon, <2>2 DEF ReadOnly
    <3>3. c[1] \notin ListKeys \cup TextKeys \cup {"CscaAnchorState"} => c[1] = "DefaultLevel"
      <4>1. \A i \in DOMAIN ConfigKeys :
               ConfigKeys[i] \notin ListKeys \cup TextKeys \cup ReadOnly \cup FileOnly => ConfigKeys[i] = "DefaultLevel"
        BY DEF ConfigKeys, ListKeys, TextKeys, ReadOnly, FileOnly
      <4>2. PICK i \in DOMAIN ConfigKeys : c[1] = ConfigKeys[i]
        BY <2>1, Zenon DEF Keys, Range
      <4>3. c[1] \notin ReadOnly \cup FileOnly
        BY Zenon, <2>2
      <4> QED
        BY Zenon, <4>1, <4>2, <4>3
    <3> QED
      BY <2>2, <3>1, <3>2, <3>3, Zenon DEF GoodValue
  <2> QED
    BY <2>1, <2>2, <2>3, SetKeeps, Zenon
<1>3. ASSUME NEW t \in Threads, NEW k \in Keys, NEW d, resetKey(t, k, d) PROVE Kept'
  <2>1. PICK v : Set(t, k, v) /\ v = IF k \in ListKeys THEN seeded(k) ELSE applyDefaults[k]
    BY <1>3, Zenon DEF resetKey
  <2>2. GoodValue(k, v)
    BY <2>1, DefaultsAreGood, Zenon
  <2> QED
    BY <2>1, <2>2, SetKeeps, Zenon
<1>4. ASSUME NEW t \in Threads, NEW d \in 0..1,
             recordCscaAnchorState(t, [anchors |-> 1, signer |-> "fingerprint", signedAt |-> d])
      PROVE  Kept'
  <2> DEFINE r == [anchors |-> 1, signer |-> "fingerprint", signedAt |-> d]
  <2>1. Set(t, "CscaAnchorState", r)
    BY <1>4, Zenon DEF recordCscaAnchorState
  <2>2. "CscaAnchorState" \in Keys
    <3>1. 7 \in DOMAIN ConfigKeys /\ ConfigKeys[7] = "CscaAnchorState"
      BY DEF ConfigKeys
    <3> QED
      BY <3>1, Zenon DEF Keys, Range
  <2>3. \E line : r = ReportOf(line)
    <3> DEFINE A == <<"anchors", 1>>
               G == <<"signer", 1>>
               D == <<"signedAt", d>>
               line == {A, G, D}
               field(name) == {f[2] : f \in {g \in line : g[1] = name}}
               number(name) == IF field(name) = {} THEN 0 ELSE CHOOSE n \in field(name) : TRUE
    <3>1. A[1] = "anchors" /\ A[2] = 1 /\ G[1] = "signer" /\ G[2] = 1 /\ D[1] = "signedAt" /\ D[2] = d
      BY Zenon
    <3> HIDE DEF A, G, D
    <3>2. field("anchors") = {1} /\ field("signer") = {1} /\ field("signedAt") = {d}
      BY Zenon, <3>1
    <3>3. ReportOf(line) = [anchors |-> number("anchors"), signedAt |-> number("signedAt"),
                            signer |-> IF field("signer") = {} THEN "" ELSE "fingerprint"]
      BY Zenon DEF ReportOf
    <3> HIDE DEF field
    <3>4. number("anchors") = 1 /\ number("signedAt") = d /\ field("signer") # {}
      BY Zenon, <3>2
    <3> HIDE DEF number, line
    <3>5. r = ReportOf(line)
      BY Zenon, <3>3, <3>4
    <3> QED
      BY <3>5, Zenon
  <2> HIDE DEF r
  <2>4. GoodValue("CscaAnchorState", r)
    BY <2>3, ReportsReadBack, KindsOfKeys, Zenon DEF GoodValue
  <2> QED
    BY <2>1, <2>2, <2>4, SetKeeps, Zenon
<1>5. ASSUME NEW t \in Threads, NEW url, recordLastTsaUrl(t, url) PROVE Kept'
  <2>1. Set(t, "LastTsaUrl", url)
    BY <1>5, Zenon DEF recordLastTsaUrl
  <2>2. "LastTsaUrl" \in Keys
    <3>1. 3 \in DOMAIN ConfigKeys /\ ConfigKeys[3] = "LastTsaUrl"
      BY DEF ConfigKeys
    <3> QED
      BY <3>1, Zenon DEF Keys, Range
  <2>3. GoodValue("LastTsaUrl", url)
    BY Zenon DEF GoodValue, TextKeys, ListKeys
  <2> QED
    BY <2>1, <2>2, <2>3, SetKeeps, Zenon
<1>6. ASSUME AdminEdits PROVE Kept'
  <2>1. file' \in AdminFiles /\ written' = "edited" /\ mem' = mem
    BY <1>6, Zenon DEF AdminEdits
  <2>2. HasLines(file')
    BY <2>1, ConfigAssumption, Zenon DEF HasLines, Keys
  <2>3. written' # "whole"
    BY Zenon, <2>1
  <2> QED
    BY <2>1, <2>2, <2>3, Zenon DEF Kept
<1>7. ASSUME ConfigStart PROVE Kept'
  BY <1>7, StartKeeps, Zenon
<1>8. ASSUME NEW t \in Threads, fireChanged(t) \/ rebuildTrust(t) \/ rebuildTsa(t) \/ publish(t)
      PROVE  UNCHANGED <<mem, file, written>>
  BY <1>8, Zenon DEF fireChanged, rebuildTrust, rebuildTsa, publish
<1>9. ASSUME removeChangeObserver \/ ConfigStop \/ UNCHANGED configVars PROVE UNCHANGED <<mem, file, written>>
  BY <1>9, Zenon DEF removeChangeObserver, ConfigStop, configVars
<1> QED
  BY <1>1, <1>2, <1>3, <1>4, <1>5, <1>6, <1>7, <1>8, <1>9, Zenon DEF ConfigNext, Keys

\* What is loaded at a start is what the last change stored, if the file was
\* written whole and read: an emptied list stays empty, a key at its default
\* stays there, and a report of an import reads back as it was
\* (ConfigStore::persist and ConfigStore::loadFromFile).
THEOREM StartAlwaysKeepsTheKeys == ConfigSpec => StartKeepsTheKeys
<1>1. ConfigInit => Kept
  <2> SUFFICES ASSUME ConfigInit PROVE Kept
    BY Zenon
  <2>1. mem = applyDefaults /\ file = NoFile /\ written # "whole"
    BY Zenon DEF ConfigInit
  <2>2. GoodMemory(mem)
    BY <2>1, DefaultsAreGood, Zenon DEF GoodMemory, applyDefaults, Keys
  <2>3. <<"no", "such", "file">> \in Seq({"no", "such", "file"})
    OBVIOUS
  <2>4. IsList(<<"no", "such", "file">>)
    BY Zenon, <2>3, ListsAreLists
  <2>5. HasLines(file)
    BY <2>1, <2>4, Zenon DEF HasLines, NoFile, Keys
  <2> QED
    BY <2>1, <2>2, <2>5, Zenon DEF Kept
<1>2. Kept /\ [ConfigNext]_configVars =>
         [~up /\ up' /\ written = "whole" /\ written' = "whole" => mem' = Stored(mem)]_configVars
  <2> SUFFICES ASSUME Kept, [ConfigNext]_configVars, ~up, up', written = "whole", written' = "whole"
               PROVE  mem' = Stored(mem)
    BY Zenon
  <2>1. ConfigStart
    BY Zenon DEF ConfigNext, configVars, ConfigStop, AdminEdits, removeChangeObserver, setKey, resetKey,
       recordCscaAnchorState, recordLastTsaUrl, Set, fireChanged, rebuildTrust, rebuildTsa, publish
  <2> QED
    BY <2>1, StartKeeps, Zenon
<1> QED
  BY <1>1, <1>2, StepKeeps, PTL DEF ConfigSpec, StartKeepsTheKeys

-----------------------------------------------------------------------------
\* The import of anchors.  The records carry no date but those of the lists
\* there are, and what the report says of the import under way is borne out by
\* the records at its start.

Dates == {0} \cup {l.date : l \in Lists}

\* A publisher's record, with a date of a list there is or none.
IsRecord(p) == DOMAIN p = {"signer", "established", "date"} /\ p.date \in Dates
OnRecord(ps) == \A p \in ps : IsRecord(p)

\* An import reads lists there are, against records that were stored.
IsImport(j) ==
    /\ DOMAIN j = {"pc", "file", "prior", "vouching"}
    /\ j.file \in Seq(Lists) /\ OnRecord(j.prior.signers)

AnchorInv == OnRecord(stateFile.publishers) /\ IsImport(underway) /\ ReportIsBorneOut

\* A finite set of numbers is bounded.
LEMMA FiniteIsBounded ==
    ASSUME NEW S, S \subseteq Nat, IsFiniteSet(S)
    PROVE  \E N \in Nat : \A s \in S : s <= N
<1>1. PICK q \in Seq(S) : \A s \in S : \E n \in 1..Len(q) : q[n] = s
  BY Zenon DEF IsFiniteSet
<1>1a. Len(q) \in Nat /\ \A i \in 1..Len(q) : q[i] \in Nat
  <2>1. Len(q) \in Nat /\ \A i \in 1..Len(q) : q[i] \in S
    OBVIOUS
  <2> QED
    BY <2>1, Zenon
<1> DEFINE Upto(n) == \E N \in Nat : \A i \in 1..n : q[i] <= N
           T == {n \in Nat : n <= Len(q) => Upto(n)}
<1>2. 0 \in T
  OBVIOUS
<1>3. ASSUME NEW n \in Nat, n \in T PROVE n + 1 \in T
  <2> SUFFICES ASSUME n + 1 <= Len(q) PROVE Upto(n + 1)
    OBVIOUS
  <2>1. PICK N \in Nat : \A i \in 1..n : q[i] <= N
    BY <1>3
  <2>2. n + 1 \in 1..Len(q) /\ q[n + 1] \in Nat
    BY <1>1a
  <2>3. \A i \in 1..(n + 1) : q[i] <= N + q[n + 1]
    <3> TAKE i \in 1..(n + 1)
    <3>1. CASE i = n + 1
      BY <2>2, <3>1
    <3>2. CASE i # n + 1
      <4>1. i \in 1..n /\ i \in 1..Len(q)
        BY <1>1a, <3>2
      <4>2. q[i] \in Nat
        BY Zenon, <1>1a, <4>1
      <4> QED
        BY <2>1, <2>2, <4>1, <4>2
    <3> QED
      BY Zenon, <3>1, <3>2
  <2>4. N + q[n + 1] \in Nat
    BY <2>2
  <2> QED
    BY Zenon, <2>3, <2>4
<1> HIDE DEF T
<1>4. Nat \subseteq T
  BY <1>2, <1>3, Induction, Zenon
<1>5. Upto(Len(q))
  <2>1. Len(q) \in T /\ Len(q) <= Len(q)
    BY <1>1a, <1>4
  <2> HIDE DEF Upto
  <2> QED
    BY Zenon, <2>1 DEF T
<1> QED
  BY Zenon, <1>1, <1>5

\* Dates are numbers.
LEMMA DatesAreNumbers == Dates \subseteq Nat
BY ListsAssumption DEF Dates

\* Dates there are have a newest.
LEMMA NewestIs ==
    ASSUME NEW D, D \subseteq Dates, D # {}
    PROVE  Newest(D) \in D /\ \A e \in D : e <= Newest(D)
<1>1. {l.date : l \in Lists} \subseteq Nat /\ IsFiniteSet({l.date : l \in Lists})
  BY Zenon, ListsAssumption
<1>2. PICK N \in Nat : \A d \in {l.date : l \in Lists} : d <= N
  BY Zenon, <1>1, FiniteIsBounded
<1>3. \A d \in D : d \in Nat /\ d <= N
  BY <1>1, <1>2 DEF Dates
<1> DEFINE T == {N - d : d \in D}
<1>4. T \subseteq Nat /\ T # {}
  BY <1>3
<1>5. PICK n \in T : \A m \in T : n <= m
  <2> HIDE DEF T
  <2> QED
    BY <1>4, LeastNumber, Zenon
<1>6. PICK d \in D : n = N - d
  BY Zenon, <1>5
<1>7. \A e \in D : e <= d
  <2> TAKE e \in D
  <2>1. N - e \in T
    BY Zenon
  <2>2. n <= N - e /\ e \in Nat /\ d \in Nat
    BY Zenon, <1>3, <1>5, <2>1
  <2> QED
    BY <1>6, <2>2
<1> QED
  BY <1>7, Zenon DEF Newest

-----------------------------------------------------------------------------
\* The two members of a verdict.
LEMMA VerdictIs ==
    ASSUME NEW v, NEW s, NEW x, v = [signer |-> s, reason |-> x] PROVE v.signer = s /\ v.reason = x
BY Zenon

\* A list that is believed is not older than the record of its publisher, and
\* a publisher without a record is vouched for.
LEMMA JudgedWell ==
    ASSUME NEW j, NEW l, j.prior.present, judge(j, l).reason = ""
    PROVE  /\ ~replayRefusal(j.prior, judge(j, l).signer, l.date)
           /\ recordFor(j.prior, judge(j, l).signer) = {} => Issuer[judge(j, l).signer] \in j.vouching
<1> DEFINE first == l.by[1]
           recorded == {s \in Range(l.by) : recordFor(j.prior, s) # {}}
           signer == IF ~j.prior.present \/ first \in recorded \/ recorded = {} THEN first
                     ELSE CHOOSE s \in recorded : TRUE
<1>1. judge(j, l) = IF l.reason # "" THEN [signer |-> "", reason |-> l.reason]
                    ELSE IF j.prior.present /\ recorded = {} /\ Issuer[first] \notin j.vouching
                    THEN [signer |-> first, reason |-> "SignerChanged"]
                    ELSE [signer |-> signer, reason |-> IF replayRefusal(j.prior, signer, l.date) THEN "Replayed" ELSE ""]
  BY Zenon DEF judge, HeldBefore
<1>2. recorded = {} => signer = first
  BY Zenon
<1>3. recorded # {} => signer \in recorded
  BY Zenon
<1>4. recorded # {} => recordFor(j.prior, signer) # {}
  BY Zenon, <1>3
<1> HIDE DEF first, recorded, signer
<1>7. l.reason = "" /\ ~(recorded = {} /\ Issuer[first] \notin j.vouching)
  <2>1. ASSUME l.reason # "" PROVE FALSE
    <3>1. judge(j, l) = [signer |-> "", reason |-> l.reason]
      BY <1>1, <2>1, Zenon
    <3>2. judge(j, l).reason = l.reason
      BY <3>1, VerdictIs, Zenon
    <3> QED
      BY <2>1, <3>2, Zenon
  <2>2. ASSUME l.reason = "", recorded = {}, Issuer[first] \notin j.vouching PROVE FALSE
    <3>1. judge(j, l) = [signer |-> first, reason |-> "SignerChanged"]
      BY <1>1, <2>2, Zenon
    <3> QED
      BY <3>1
  <2> QED
    BY <2>1, <2>2, Zenon
<1>8. judge(j, l).signer = signer /\ ~replayRefusal(j.prior, signer, l.date)
  <2>1. ASSUME replayRefusal(j.prior, signer, l.date) PROVE FALSE
    <3>1. judge(j, l) = [signer |-> signer, reason |-> "Replayed"]
      BY <1>1, <1>7, <2>1, Zenon
    <3> QED
      BY <3>1
  <2>2. judge(j, l) = [signer |-> signer, reason |-> ""]
    BY <1>1, <1>7, <2>1, Zenon
  <2>3. judge(j, l).signer = signer
    BY <2>2, VerdictIs, Zenon
  <2> QED
    BY <2>1, <2>3, Zenon
<1> QED
  BY <1>2, <1>4, <1>7, <1>8, Zenon

\* The lists that are taken, and the records made of them.
LEMMA TakenFrom ==
    ASSUME NEW j, j.file \in Seq(Lists), NEW a \in admitted(j)
    PROVE  \E l \in Lists : judge(j, l).reason = "" /\ a.signer = judge(j, l).signer /\ a.date = l.date /\ a.date \in Dates
<1>1. PICK l \in Range(j.file) : judge(j, l).reason = "" /\
           a = [signer |-> judge(j, l).signer, date |-> l.date, anchors |-> l.anchors]
  BY Zenon DEF admitted
<1>2. l \in Lists
  <2>1. PICK i \in DOMAIN j.file : l = j.file[i]
    BY Zenon DEF Range
  <2> QED
    BY <2>1
<1>3. a.signer = judge(j, l).signer /\ a.date = l.date
  BY Zenon, <1>1
<1>4. a.date \in Dates
  BY Zenon, <1>2, <1>3 DEF Dates
<1> QED
  BY <1>1, <1>2, <1>3, <1>4, Zenon

\* A publisher on record comes from a list that was taken.
LEMMA PublisherOf ==
    ASSUME NEW j, j.file \in Seq(Lists), NEW p \in Publishers(j)
    PROVE  IsRecord(p) /\ \E a \in taken(j) : a.signer = p.signer /\ a.date = p.date
<1>1. PICK s \in {a.signer : a \in taken(j)} :
         p = [signer |-> s, established |-> j.prior.present,
              date |-> Newest({a.date : a \in {b \in taken(j) : b.signer = s}})]
  BY Zenon DEF Publishers
<1> DEFINE D == {a.date : a \in {b \in taken(j) : b.signer = s}}
<1>2. \A a \in taken(j) : a \in admitted(j) /\ a.date \in Dates
  BY TakenFrom, Zenon DEF taken
<1>3. D \subseteq Dates /\ D # {}
  BY Zenon, <1>1, <1>2
<1> HIDE DEF D
<1>4. Newest(D) \in D
  BY Zenon, <1>3, NewestIs
<1>5. DOMAIN p = {"signer", "established", "date"} /\ p.signer = s /\ p.date = Newest(D)
  BY Zenon, <1>1 DEF D
<1> QED
  BY Zenon, <1>3, <1>4, <1>5 DEF D, IsRecord

\* Every list taken has its publisher on record.
LEMMA TakenIsPublished ==
    ASSUME NEW j, NEW a \in taken(j) PROVE \E q \in Publishers(j) : q.signer = a.signer
<1> DEFINE q == [signer |-> a.signer, established |-> j.prior.present,
                 date |-> Newest({x.date : x \in {b \in taken(j) : b.signer = a.signer}})]
<1>1. q \in Publishers(j)
  BY Zenon DEF Publishers
<1>2. q.signer = a.signer
  BY Zenon
<1> QED
  BY <1>1, <1>2, Zenon

\* A signer without a record passes the bar of those it displaces.
LEMMA BarIsPassed ==
    ASSUME NEW j, OnRecord(j.prior.signers), NEW a, a.date \in Dates, PassesBar(j, a), recordFor(j.prior, a.signer) = {},
           NEW r \in j.prior.signers, \A b \in admitted(j) : b.signer # r.signer
    PROVE  r.date = 0 \/ a.date > r.date
<1> DEFINE gone == {x \in j.prior.signers : \A b \in admitted(j) : b.signer # x.signer}
           D == {0} \cup {x.date : x \in gone}
<1>1. D \subseteq Dates /\ D # {}
  BY Zenon DEF OnRecord, IsRecord, Dates
<1>2. displacedAt(j) = Newest(D)
  BY Zenon DEF displacedAt
<1>3. r.date \in D
  BY Zenon
<1> HIDE DEF D
<1>4. r.date <= Newest(D) /\ Newest(D) \in Dates /\ r.date \in Dates
  BY Zenon, <1>1, <1>3, NewestIs
<1>5. Newest(D) = 0 \/ a.date > Newest(D)
  BY <1>2, Zenon DEF PassesBar
<1>6. Newest(D) \in Nat /\ a.date \in Nat /\ r.date \in Nat
  BY <1>4, DatesAreNumbers, Zenon
<1> QED
  BY <1>4, <1>5, <1>6

\* What an import takes is justified by what was stored before it.
LEMMA Accepts ==
    ASSUME NEW j, IsImport(j), j.prior.present, NEW p \in Publishers(j), NEW r \in j.prior.signers
    PROVE  /\ r.signer = p.signer => r.date = 0 \/ p.date > r.date
           /\ recordFor(j.prior, p.signer) = {} =>
                 /\ Issuer[p.signer] \in j.vouching
                 /\ \/ r.date = 0 \/ p.date > r.date
                    \/ \E q \in Publishers(j) : q.signer = r.signer
<1>0. j.file \in Seq(Lists) /\ OnRecord(j.prior.signers) /\ r.date \in Dates
  BY Zenon DEF IsImport, OnRecord, IsRecord
<1>1. PICK a \in taken(j) : a.signer = p.signer /\ a.date = p.date
  BY <1>0, PublisherOf, Zenon
<1>2. a \in admitted(j) /\ PassesBar(j, a)
  BY Zenon DEF taken
<1>3. PICK l \in Lists : judge(j, l).reason = "" /\ a.signer = judge(j, l).signer /\ a.date = l.date /\ a.date \in Dates
  BY <1>0, <1>2, TakenFrom, Zenon
<1>4. /\ ~replayRefusal(j.prior, p.signer, p.date)
      /\ recordFor(j.prior, p.signer) = {} => Issuer[p.signer] \in j.vouching
  BY <1>1, <1>3, JudgedWell, Zenon
<1>5. r.signer = p.signer => r.date = 0 \/ p.date > r.date
  <2>1. r.signer = p.signer => r.date = 0 \/ ~(p.date <= r.date)
    BY <1>4, Zenon DEF replayRefusal, recordFor
  <2>2. p.date \in Nat /\ r.date \in Nat
    BY <1>0, <1>1, <1>3, DatesAreNumbers, Zenon
  <2> QED
    BY <2>1, <2>2
<1>6. ASSUME recordFor(j.prior, p.signer) = {}
      PROVE  r.date = 0 \/ p.date > r.date \/ \E q \in Publishers(j) : q.signer = r.signer
  <2>1. CASE \A b \in admitted(j) : b.signer # r.signer
    BY <1>0, <1>1, <1>2, <1>3, <1>6, <2>1, BarIsPassed, Zenon
  <2>2. CASE \E b \in admitted(j) : b.signer = r.signer
    <3>1. PICK b \in admitted(j) : b.signer = r.signer
      BY Zenon, <2>2
    <3>2. r \in recordFor(j.prior, b.signer)
      BY <3>1, Zenon DEF recordFor
    <3>3. PassesBar(j, b)
      BY <3>2, Zenon DEF PassesBar
    <3>4. b \in taken(j)
      BY <3>3, Zenon DEF taken
    <3>5. \E q \in Publishers(j) : q.signer = b.signer
      BY <1>0, <3>4, TakenIsPublished, Zenon
    <3> QED
      BY <3>1, <3>5, Zenon
  <2> QED
    BY Zenon, <2>1, <2>2
<1> QED
  BY <1>4, <1>5, <1>6, Zenon

\* What is taken depends on which lists a file has, and not on their places.
LEMMA PlacesDoNotMatter ==
    ASSUME NEW j, NEW k, j.prior = k.prior, j.vouching = k.vouching, Range(j.file) = Range(k.file)
    PROVE  Publishers(j) = Publishers(k) /\ Union(j) = Union(k)
<1>1. \A l : judge(j, l) = judge(k, l)
  BY Zenon DEF judge, HeldBefore
<1>2. admitted(j) = admitted(k)
  <2> DEFINE R == Range(j.file)
             Good(x) == judge(j, x).reason = ""
             As(x) == [signer |-> judge(j, x).signer, date |-> x.date, anchors |-> x.anchors]
  <2>1. \A x : Good(x) <=> judge(k, x).reason = ""
    BY <1>1, Zenon
  <2>2. \A x : As(x) = [signer |-> judge(k, x).signer, date |-> x.date, anchors |-> x.anchors]
    BY <1>1, Zenon
  <2>3. admitted(j) = {As(x) : x \in {y \in R : Good(y)}}
    BY Zenon DEF admitted
  <2> HIDE DEF Good, As, R
  <2>4. admitted(k) = {As(x) : x \in {y \in R : Good(y)}}
    BY Zenon, <2>1, <2>2 DEF admitted, R
  <2> QED
    BY <2>3, <2>4, Zenon
<1>3. displacedAt(j) = displacedAt(k)
  BY <1>2, Zenon DEF displacedAt
<1>4. \A a : PassesBar(j, a) <=> PassesBar(k, a)
  BY <1>3, Zenon DEF PassesBar
<1>5. taken(j) = taken(k)
  BY <1>2, <1>4, Zenon DEF taken
<1> QED
  BY <1>5, Zenon DEF Publishers, Union

-----------------------------------------------------------------------------
\* No import is under way.
LEMMA NoImportIsOne ==
    /\ IsImport(NoImport) /\ NoImport.pc # "started"
    /\ IsImport([NoImport EXCEPT !.pc = "down"]) /\ [NoImport EXCEPT !.pc = "down"].pc # "started"
    /\ IsImport([NoImport EXCEPT !.pc = "started"])
<1>1. NoImport.prior = state(NoState) /\ NoImport.file = <<>> /\ DOMAIN NoImport = {"pc", "file", "prior", "vouching"}
  BY Zenon DEF NoImport
<1>2. state(NoState).signers = {}
  BY Zenon DEF state, NoState
<1>3. <<>> \in Seq(Lists)
  OBVIOUS
<1>4. OnRecord(NoImport.prior.signers)
  BY Zenon, <1>1, <1>2 DEF OnRecord
<1>5. ASSUME NEW j, NEW x, j = [NoImport EXCEPT !.pc = x] PROVE IsImport(j)
  <2>1. DOMAIN j = {"pc", "file", "prior", "vouching"} /\ j.file = NoImport.file /\ j.prior = NoImport.prior
    BY Zenon, <1>1, <1>5
  <2> QED
    BY <1>1, <1>3, <1>4, <2>1, Zenon DEF IsImport
<1>6. NoImport.pc # "started" /\ [NoImport EXCEPT !.pc = "down"].pc # "started"
  BY Zenon DEF NoImport
<1> QED
  BY <1>1, <1>3, <1>4, <1>5, <1>6, Zenon DEF IsImport

\* Those a state file names are on record.
LEMMA StateIsOnRecord == ASSUME NEW f, OnRecord(f.publishers) PROVE OnRecord(state(f).signers)
<1>1. state(f).signers = {} \/ state(f).signers = f.publishers
  BY Zenon DEF state
<1> QED
  BY <1>1, Zenon DEF OnRecord

\* So are those that a write of the state file, whole or cut short, leaves.
LEMMA WritesAreOnRecord ==
    ASSUME NEW j, IsImport(j), NEW f \in {NextState(j)} \cup Torn(NextState(j)) PROVE OnRecord(f.publishers)
<1> DEFINE P == Publishers(j)
           n == NextState(j)
<1>1. OnRecord(P)
  BY PublisherOf, Zenon DEF IsImport, OnRecord
<1>2. n.publishers = P /\ DOMAIN n = {"publishers", "offered", "unreadable", "refused"}
  BY Zenon DEF NextState
<1> HIDE DEF n, P
<1>3. CASE f = n
  BY <1>1, <1>2, <1>3, Zenon
<1>4. CASE f = [n EXCEPT !.unreadable = TRUE]
  <2>1. f.publishers = P
    BY Zenon, <1>2, <1>4
  <2> QED
    BY <1>1, <2>1, Zenon
<1>5. ASSUME NEW ps, f = [n EXCEPT !.publishers = ps, !.refused = 0], OnRecord(ps) PROVE OnRecord(f.publishers)
  <2>1. f.publishers = ps
    BY Zenon, <1>2, <1>5
  <2> QED
    BY <1>5, <2>1, Zenon
<1>6. ASSUME NEW q \in SUBSET P PROVE OnRecord(q)
  BY <1>1, Zenon DEF OnRecord
<1>7. ASSUME NEW q \in SUBSET P, NEW p PROVE OnRecord(Undated(q, p))
  <2>1. ASSUME NEW r \in q PROVE IsRecord(r) /\ IsRecord([r EXCEPT !.date = 0])
    <3>1. IsRecord(r)
      BY <1>1, Zenon DEF OnRecord
    <3>2. IsRecord([r EXCEPT !.date = 0])
      BY Zenon, <3>1 DEF IsRecord, Dates
    <3> QED
      BY Zenon, <3>1, <3>2
  <2>2. ASSUME NEW x \in Undated(q, p) PROVE IsRecord(x)
    <3>1. PICK r \in q : x = IF r = p THEN [r EXCEPT !.date = 0] ELSE r
      BY Zenon DEF Undated
    <3> QED
      BY <2>1, <3>1, Zenon
  <2> QED
    BY <2>2, Zenon DEF OnRecord
<1>8. ASSUME NEW ps \in CutTo(P) PROVE OnRecord(ps)
  <2>1. ps \in SUBSET P \/ \E q \in SUBSET P, p \in P : ps = Undated(q, p)
    BY DEF CutTo
  <2> QED
    BY <1>6, <1>7, <2>1, Zenon
<1>9. f = n \/ f = [n EXCEPT !.unreadable = TRUE] \/ \E ps \in CutTo(P) : f = [n EXCEPT !.publishers = ps, !.refused = 0]
  <2>1. f = n \/ f \in Torn(n)
    BY Zenon DEF n
  <2> QED
    BY Zenon, <1>2, <2>1 DEF Torn
<1> QED
  BY <1>3, <1>4, <1>5, <1>8, <1>9, Zenon

\* Every step of an import, and the end of the process and its next start,
\* preserve the invariant.
LEMMA AnchorStep == AnchorInv /\ [AnchorNext]_anchorVars => AnchorInv'
<1> SUFFICES ASSUME AnchorInv, [AnchorNext]_anchorVars PROVE AnchorInv'
  BY Zenon
<1> USE DEF AnchorInv
<1>1. ASSUME NEW f \in Files, importMasterList(f) PROVE AnchorInv'
  <2> DEFINE prior == state(stateFile)
             j == [pc |-> "stage", file |-> f, prior |-> prior,
                   vouching |-> IF prior.present THEN anchorsHeld ELSE {}]
  <2>1. (underway' = NoImport \/ underway' = j) /\ UNCHANGED <<anchors, stateFile, report>>
    BY <1>1, Zenon DEF importMasterList
  <2>2. OnRecord(prior.signers)
    BY StateIsOnRecord, Zenon
  <2>3. f \in Seq(Lists)
    BY DEF Files
  <2> HIDE DEF prior
  <2>4. IsImport(j) /\ j.pc = "stage"
    BY Zenon, <2>2, <2>3 DEF IsImport
  <2>5. NoImport.pc = "idle"
    BY Zenon DEF NoImport
  <2> HIDE DEF j
  <2>6. IsImport(underway') /\ underway'.pc # "started"
    BY Zenon, <2>1, <2>4, <2>5, NoImportIsOne
  <2> QED
    BY <2>1, <2>6, Zenon DEF ReportIsBorneOut
<1>2. ASSUME NEW x \in {"clear", "rename", "state"}, underway' = [underway EXCEPT !.pc = x], stateFile' = stateFile PROVE AnchorInv'
  <2>1. IsImport(underway') /\ underway'.pc # "started"
    BY Zenon, <1>2 DEF IsImport
  <2> QED
    BY <1>2, <2>1, Zenon DEF ReportIsBorneOut
<1>3. ASSUME underway' \in {NoImport, [NoImport EXCEPT !.pc = "down"]}, OnRecord(stateFile'.publishers) PROVE AnchorInv'
  <2>1. underway'.pc # "started" /\ IsImport(underway')
    BY <1>3, NoImportIsOne, Zenon
  <2> QED
    BY <1>3, <2>1, Zenon DEF ReportIsBorneOut
<1>4. ASSUME CutShort PROVE OnRecord(stateFile'.publishers)
  BY <1>4, WritesAreOnRecord, Zenon DEF CutShort
<1>5. ASSUME WriteState PROVE AnchorInv'
  BY <1>3, <1>5, WritesAreOnRecord, Zenon DEF WriteState
<1>6. ASSUME Fails \/ Crash \/ Serve PROVE AnchorInv'
  BY <1>3, <1>4, <1>6, Zenon DEF Fails, Crash, Serve
<1>7. ASSUME Start PROVE AnchorInv'
  <2>1. /\ underway' = [NoImport EXCEPT !.pc = "started"] /\ UNCHANGED <<anchors, stateFile>>
        /\ report' => BorneOut
    BY <1>7, Zenon DEF Start
  <2>2. report' => ReportIsBorneOut'
    BY <2>1, Zenon DEF ReportIsBorneOut, BorneOut, holdsAnchor
  <2>3. ~report' => ReportIsBorneOut'
    BY Zenon DEF ReportIsBorneOut
  <2> QED
    BY <2>1, <2>2, <2>3, NoImportIsOne, Zenon
<1>8. ASSUME UNCHANGED anchorVars PROVE AnchorInv'
  BY <1>8, Zenon DEF anchorVars, ReportIsBorneOut, holdsAnchor
<1>9. ASSUME Stage \/ Clear \/ Swap PROVE AnchorInv'
  BY <1>2, <1>9, Zenon DEF Stage, Clear, Swap
<1> QED
  BY <1>1, <1>5, <1>6, <1>7, <1>8, <1>9, Zenon DEF AnchorNext

\* An import takes the same lists in whatever order its file has them, none
\* that is as old as its publisher's record, and none of a publisher without
\* a record that is not vouched for and newer than those it displaces; and
\* after a crash in the midst of the replacement the next start reports an
\* import only of anchors and publishers that are there (importMasterList,
\* AnchorCache::replace and discardStaleAnchorReport).
THEOREM ImportIsAlwaysSound == AnchorSpec => []ImportIsSound
<1>1. AnchorInit => AnchorInv
  <2> SUFFICES ASSUME AnchorInit PROVE AnchorInv
    BY Zenon
  <2>1. underway = NoImport /\ NoImport.pc # "started"
    BY Zenon DEF AnchorInit, NoImport
  <2>2. OnRecord(stateFile.publishers)
    <3>1. CASE stateFile = NoState
      BY Zenon, <3>1 DEF NoState, OnRecord
    <3>2. ASSUME NEW l \in Lists, stateFile = Legacy([signer |-> l.by[1], established |-> FALSE, date |-> l.date])
          PROVE  OnRecord(stateFile.publishers)
      <4> DEFINE p == [signer |-> l.by[1], established |-> FALSE, date |-> l.date]
      <4>1. IsRecord(p)
        BY Zenon DEF IsRecord, Dates
      <4> HIDE DEF p
      <4>2. Legacy(p).publishers = {p}
        BY Zenon DEF Legacy, NoState
      <4> QED
        BY <3>2, <4>1, <4>2, Zenon DEF OnRecord, p
    <3> QED
      BY <3>1, <3>2, Zenon DEF AnchorInit
  <2> QED
    BY <2>1, <2>2, NoImportIsOne, Zenon DEF AnchorInv, ReportIsBorneOut
<1>2. AnchorInv => ImportIsSound
  <2> SUFFICES ASSUME AnchorInv PROVE ImportIsSound
    BY Zenon
  <2>1. AcceptanceIsJustified
    BY Accepts, Zenon DEF AcceptanceIsJustified, AnchorInv
  <2>2. OrderDoesNotMatter
    <3> DEFINE turned == [underway EXCEPT !.file = [i \in 1 .. Len(@) |-> @[Len(@) + 1 - i]]]
               f == underway.file
               g == [i \in 1 .. Len(f) |-> f[Len(f) + 1 - i]]
    <3>1. turned.prior = underway.prior /\ turned.vouching = underway.vouching /\ turned.file = g
      BY Zenon DEF AnchorInv, IsImport
    <3>2. Range(g) = Range(f)
      <4>1. f \in Seq(Lists)
        BY Zenon DEF AnchorInv, IsImport
      <4>2. ASSUME NEW i \in 1..Len(f) PROVE Len(f) + 1 - i \in 1..Len(f) /\ Len(f) + 1 - (Len(f) + 1 - i) = i
        BY <4>1
      <4>3. DOMAIN f = 1..Len(f)
        BY <4>1
      <4> HIDE DEF f
      <4>4. \A i \in 1..Len(f) : g[i] = f[Len(f) + 1 - i]
        BY Zenon
      <4>5. DOMAIN g = 1..Len(f)
        BY Zenon
      <4> HIDE DEF g
      <4>6. ASSUME NEW i \in 1..Len(f) PROVE f[i] \in Range(g) /\ g[i] \in Range(f)
        BY Zenon, <4>2, <4>3, <4>4, <4>5 DEF Range
      <4> QED
        BY <4>3, <4>5, <4>6, Zenon DEF Range
    <3> HIDE DEF turned, g
    <3>3. Publishers(turned) = Publishers(underway) /\ Union(turned) = Union(underway)
      BY <3>1, <3>2, PlacesDoNotMatter, Zenon DEF f
    <3> QED
      BY <3>3, Zenon DEF OrderDoesNotMatter, turned
  <2> QED
    BY <2>1, <2>2, Zenon DEF ImportIsSound, AnchorInv
<1> QED
  BY <1>1, <1>2, AnchorStep, PTL DEF AnchorSpec

=============================================================================
