---------------------------- MODULE MCRelayServer ----------------------------
(* Small instances of RelayServer for TLC. *)
EXTENDS RelayServer

CONSTANTS a1, a2, f1, t1
=============================================================================
