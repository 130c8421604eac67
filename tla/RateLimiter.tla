---------------------------- MODULE RateLimiter -----------------------------
(***************************************************************************)
(* RateLimiter::allow: at most kMaxPerWindow attempts of a caller in a     *)
(* window, and an exponential back-off for a caller that goes over it.  A  *)
(* caller that is not in m_callers has the state NoAttempts.               *)
(***************************************************************************)
EXTENDS Naturals, Sequences, FiniteSets, Loops

CONSTANTS
    kMaxPerWindow, kWindow, kBaseBackoff, kMaxBackoff, kMaxLevel,
    kSweepThreshold

ASSUME LimiterAssumption ==
    /\ {kMaxPerWindow, kWindow, kBaseBackoff, kMaxBackoff, kMaxLevel, kSweepThreshold}
        \subseteq Nat
    /\ kMaxLevel > 0

NoAttempts == [recent |-> <<>>, level |-> 0, until |-> 0]

Least(a, b) == IF a < b THEN a ELSE b

\* The back-off of a level: kBaseBackoff, doubled with each level above one.
Backoff(level) == Loop(kBaseBackoff, [d \in Nat |-> Least(2 * d, kMaxBackoff)])[level - 1]

\* What is left of the attempts at time t once the front has been popped for
\* as long as it is older than the window.
Popped(recent, t, window) ==
    LET n == CHOOSE n \in 0..Len(recent) :
                 /\ \A i \in 1..n : t - recent[i] > window
                 /\ n = Len(recent) \/ t - recent[n + 1] <= window
    IN  SubSeq(recent, n + 1, Len(recent))

\* Fault: the boundary of the window counts as outside.
ShortWindow(s, t) == [s EXCEPT !.recent = Popped(@, t, kWindow - 1)]

InWindow(s, t) == [s EXCEPT !.recent = Popped(@, t, kWindow)]

Forgettable(s, t) ==
    /\ s.recent = <<>> \/ t - s.recent[Len(s.recent)] > kWindow
    /\ s.until <= t

\* The table after the sweep that runs when it has grown past its threshold.
Swept(table, caller, t) ==
    IF Cardinality({c \in DOMAIN table : table[c] # NoAttempts}) <= kSweepThreshold
    THEN table
    ELSE [c \in DOMAIN table |->
             IF c # caller /\ Forgettable(table[c], t) THEN NoAttempts ELSE table[c]]

InBackoff(s, t)  == s.until > t
OverTheCap(s, t) == Len(InWindow(s, t).recent) >= kMaxPerWindow
Allowed(s, t) == ~InBackoff(s, t) /\ ~OverTheCap(s, t)

\* The state of a caller after an attempt at time t.
Attempted(s, t) ==
    LET level == Least(s.level + 1, kMaxLevel)
    IN  IF InBackoff(s, t) THEN s
        ELSE IF OverTheCap(s, t)
        THEN [InWindow(s, t) EXCEPT !.level = level, !.until = t + Backoff(level)]
        ELSE [recent |-> Append(InWindow(s, t).recent, t), level |-> 0, until |-> 0]

allow(table, caller, t) ==
    [Swept(table, caller, t) EXCEPT ![caller] = Attempted(@, t)]
=============================================================================
