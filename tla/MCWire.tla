------------------------------- MODULE MCWire -------------------------------
(***************************************************************************)
(* The two places where the agent and its clients must agree on what a     *)
(* value means: the frames between them, and the card as the PKCS#11       *)
(* module shows it.  They share no state, so one of them moves at a time.  *)
(***************************************************************************)
EXTENDS WireTraffic, Pkcs11Token

MCInit == Init /\ TokenInit

MCNext == \/ token = NoCard /\ Next /\ UNCHANGED token
          \/ frame = Idle /\ TokenNext /\ UNCHANGED frame

MCSpec == MCInit /\ [][MCNext]_<<frame, token>>
=============================================================================
