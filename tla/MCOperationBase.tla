--------------------------- MODULE MCOperationBase ---------------------------
(***************************************************************************)
(* OperationBase for TLC.  One operation and at most two prompts: enough   *)
(* for a disarm, a re-arm and a second disarm with the timer at any point. *)
(***************************************************************************)
EXTENDS OperationBase
=============================================================================
