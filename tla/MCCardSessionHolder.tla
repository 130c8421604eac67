------------------------ MODULE MCCardSessionHolder -------------------------
(***************************************************************************)
(* CardSessionHolder for TLC: three cards, so two swaps, to and from the   *)
(* one card that a plugin serves; the monitor can miss it altogether.      *)
(***************************************************************************)
EXTENDS CardSessionHolder

SecondCard == {2}
=============================================================================
