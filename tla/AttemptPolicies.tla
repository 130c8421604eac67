-------------------------- MODULE AttemptPolicies ---------------------------
(***************************************************************************)
(* The two policies that say when something may be tried: the limiter of   *)
(* PIN prompts (RateLimiter.cpp), with callers and a clock, and the budget *)
(* of retries to open a card (CardResolutionPolicy.cpp).                   *)
(***************************************************************************)
EXTENDS RateLimiter

CONSTANTS
    Callers,      \* the callers of allow
    Budgets,      \* the retry budgets there are
    MaxTime,      \* bound: the clock
    MaxAttempts   \* bound: attempts

\* Delays are not negative (chrono durations), and growth and maxRetries are
\* counts.
ASSUME BudgetsAssumption ==
    /\ Budgets \subseteq [maxRetries : Nat, firstDelay : Nat, maxDelay : Nat, growth : Nat, totalBudget : Nat]
    /\ MaxTime \in Nat /\ MaxAttempts \in Nat

VARIABLES
    table,  \* RateLimiter::m_callers
    now,    \* the clock
    log,    \* the answers given so far
    grants, \* the times at which each caller was let through
    probe   \* the retries of a card's probe

attemptVars == <<table, now, log, grants, probe>>

NoProbe == [budget |-> [maxRetries |-> 0], retries |-> 0, waited |-> 0, delay |-> 0, open |-> FALSE]

AttemptInit ==
    /\ table = [c \in Callers |-> NoAttempts] /\ now = 1 /\ probe = NoProbe
    /\ log = <<>> /\ grants = [c \in Callers |-> <<>>]

Tick == now < MaxTime /\ now' = now + 1 /\ UNCHANGED <<table, log, grants, probe>>

Ask(c) ==
    LET s == Swept(table, c, now)[c]
    IN  /\ Len(log) < MaxAttempts
        /\ table' = allow(table, c, now)
        /\ log' = Append(log, [caller |-> c, at |-> now, granted |-> Allowed(s, now), until |-> table'[c].until])
        /\ grants' = [grants EXCEPT ![c] = IF Allowed(s, now) THEN Append(@, now) ELSE @]
        /\ UNCHANGED <<now, probe>>

\* CardResolutionPolicy::nextRetry, compared before multiplying.
Grows(b, delay) == IF delay > b.maxDelay \div b.growth THEN b.maxDelay ELSE delay * b.growth
nextDelay(b, retries) ==
    Loop(Least(b.firstDelay, b.maxDelay),
         [d \in Nat |-> IF b.growth > 1 /\ d < b.maxDelay THEN Grows(b, d) ELSE d])[retries]

Insert(b) ==
    /\ ~probe.open
    /\ probe' = [NoProbe EXCEPT !.budget = b, !.open = TRUE]
    /\ UNCHANGED <<table, now, log, grants>>

\* CardResolutionPolicy::retryAfter, for a probe that failed in a way that
\* passes.
retryAfter ==
    LET b == probe.budget
    IN  /\ probe.open /\ probe.retries < b.maxRetries /\ probe.waited < b.totalBudget
        /\ probe' = [probe EXCEPT !.delay = nextDelay(b, probe.retries), !.retries = @ + 1,
                                  !.waited = @ + nextDelay(b, probe.retries)]
        /\ UNCHANGED <<table, now, log, grants>>

LimiterNext == Tick \/ \E c \in Callers : Ask(c)
RetryNext == retryAfter \/ \E b \in Budgets : Insert(b)

AttemptSpec == AttemptInit /\ [][LimiterNext \/ RetryNext]_attemptVars

-----------------------------------------------------------------------------
\* No stretch of time as long as the window, wherever it begins, sees more
\* than kMaxPerWindow prompts of one caller, also when its entry was swept.
WindowIsCapped ==
    \A c \in Callers : \A i \in DOMAIN grants[c] :
        i > kMaxPerWindow => grants[c][i] - grants[c][i - kMaxPerWindow] > kWindow

\* A caller told to wait is not let through before the back-off has ended,
\* whatever the sweeps that other callers cause.
BackoffIsServed ==
    \A i, j \in DOMAIN log :
        i < j /\ log[i].caller = log[j].caller /\ ~log[i].granted /\ log[j].granted
            => log[j].at >= log[i].until

\* The factor a delay has grown by after n retries: growth to the power n.
Factor(b, n) == IF b.growth > 1 THEN Loop(1, [x \in Nat |-> x * b.growth])[n] ELSE 1

\* The waits for a card grow by the factor up to the cap, as many as the
\* budget allows, and no retry is begun once the time is used up.
RetriesKeepTheBudget ==
    probe.retries > 0 =>
        LET b == probe.budget
        IN  /\ probe.retries <= b.maxRetries
            /\ probe.waited - probe.delay < b.totalBudget
            /\ probe.delay = Least(b.firstDelay * Factor(b, probe.retries - 1), b.maxDelay)

\* Prompts and retries keep to their limits over any stretch of time.
LimitsAreKept == WindowIsCapped /\ BackoffIsServed /\ RetriesKeepTheBudget
=============================================================================
