------------------------- MODULE MCOperationManager -------------------------
(***************************************************************************)
(* OperationManager for TLC: two clients, the first with a tracked         *)
(* operation and a probe, the second with a tracked operation; one removal *)
(* and the fresh worker after it.                                          *)
(***************************************************************************)
EXTENDS OperationManager

Clients == {"a", "b"}
Ops == 1..3
Probes == {3}
Owners == <<"a", "b", "a">>
Workers == 1..2

\* One tracked operation and one probe.
FewOps == 1..2
FewProbes == {2}
FewOwners == <<"a", "b">>
=============================================================================
