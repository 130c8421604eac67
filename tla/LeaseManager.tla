---------------------------- MODULE LeaseManager ----------------------------
(***************************************************************************)
(* The login leases of the PKCS#11 broker: one entry per caller and card,  *)
(* with the time of the last use, the time of the first login and whether  *)
(* the card has accepted a PIN under it.  Every method of the class holds  *)
(* the one mutex, so each is one operator on the table.                    *)
(***************************************************************************)
EXTENDS Naturals

CONSTANTS
    IdleTimeout,    \* LeaseConfig::idleTimeout
    MaxLifetime     \* LeaseConfig::maxLifetime, 0 for none

ASSUME LeaseAssumption == IdleTimeout \in Nat /\ MaxLifetime \in Nat

Lease == [held : BOOLEAN, lastUse : Nat, origin : Nat, pin : BOOLEAN]
NoLease == [held |-> FALSE, lastUse |-> 0, origin |-> 0, pin |-> FALSE]

Active(e, t) ==
    /\ e.held
    /\ t - e.lastUse < IdleTimeout
    /\ MaxLifetime > 0 => t - e.origin < MaxLifetime

\* Fault: a second login leaves the verified bit of the first.
KeepsPin(L, k, t) ==
    [L EXCEPT ![k] = IF @.held THEN [@ EXCEPT !.lastUse = t]
                     ELSE [held |-> TRUE, lastUse |-> t, origin |-> t, pin |-> FALSE]]

grant(L, k, t) ==
    [L EXCEPT ![k] = [held |-> TRUE, lastUse |-> t, pin |-> FALSE,
                      origin |-> IF @.held THEN @.origin ELSE t]]

\* Both questions reap an entry that has run out.
isActive(L, k, t) == IF Active(L[k], t) THEN L ELSE [L EXCEPT ![k] = NoLease]
touch(L, k, t) ==
    [L EXCEPT ![k] = IF Active(@, t) THEN [@ EXCEPT !.lastUse = t] ELSE NoLease]

markPinVerified(L, k)  == [L EXCEPT ![k].pin = @ \/ L[k].held]
clearPinVerified(L, k) == [L EXCEPT ![k].pin = FALSE]

revoke(L, k) == [L EXCEPT ![k] = NoLease]
revokeCard(L, card) == [k \in DOMAIN L |-> IF k[2] = card THEN NoLease ELSE L[k]]
revokeCaller(L, caller) == [k \in DOMAIN L |-> IF k[1] = caller THEN NoLease ELSE L[k]]
=============================================================================
