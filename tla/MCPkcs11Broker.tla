--------------------------- MODULE MCPkcs11Broker ---------------------------
(***************************************************************************)
(* Two clients, two cards one after the other and three requests, with a   *)
(* clock that reaches the idle timeout.                                    *)
(***************************************************************************)
EXTENDS Pkcs11Broker
=============================================================================
