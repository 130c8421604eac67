--------------------------- MODULE CredentialCache ---------------------------
(***************************************************************************)
(* What the agent remembers of one card's pre-read secrets (CAN and MRZ),  *)
(* and the decisions requestCredential takes before and after it raises a  *)
(* window.  Every method holds the one mutex, so each is one operator on   *)
(* the card's entry.  A secret is "none", "right" or "wrong": what the     *)
(* card would say of it.                                                   *)
(***************************************************************************)
EXTENDS Naturals

CONSTANTS
    kMaxPaceAttempts,   \* PromptPolicy: rejected secrets an operation may collect
    MaxRefusals         \* bound: windows refused between two removals

ASSUME CacheAssumption == kMaxPaceAttempts \in Nat \ {0} /\ MaxRefusals \in Nat

Secrets == {"none", "right", "wrong"}
Kinds == {"can", "mrz"}
Entry == [can : Secrets, mrz : Secrets, nothing : BOOLEAN, refusals : 0..MaxRefusals, refusal : {"cancelled", "timeout"}]
NoEntry == [can |-> "none", mrz |-> "none", nothing |-> FALSE, refusals |-> 0, refusal |-> "timeout"]

put(e, kind, secret) == [e EXCEPT ![kind] = secret]
invalidate(e) == NoEntry

markCredentialWrong(e) == [e EXCEPT !.can = "none", !.mrz = "none"]

\* A window that closed empty: lastPromptYieldedNothing and noteRefusal.
noteRefusal(e, how) == [e EXCEPT !.nothing = TRUE, !.refusals = @ + 1, !.refusal = how]

\* An answered window; there is nothing to clear where there is no entry.
Answered(e) == [e EXCEPT !.nothing = FALSE]

stillWantedFor(e, generation) == e.refusals <= generation

\* A re-request "the last one was wrong" is the card's word on a secret only
\* when the last window gave it one.
isCardRejectionSignal(e, reason) == reason /\ ~e.nothing

Exhausted(attempts) == attempts >= kMaxPaceAttempts

\* What requestCredential does before a window: serve the cached secret, fall
\* silent after a refusal, stop at the cap, or raise the window.
BeforeWindow(e, kind, generation, attempts) ==
    IF kind \notin Kinds THEN "error"
    ELSE IF e[kind] # "none" THEN "cached"
    ELSE IF ~stillWantedFor(e, generation) THEN "silenced"
    ELSE IF Exhausted(attempts) THEN "capped"
    ELSE "window"
=============================================================================
