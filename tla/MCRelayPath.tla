---------------------------- MODULE MCRelayPath ----------------------------
(* One request from the innermost session, one from a session further out. *)
EXTENDS RelayPath, TLC
CONSTANTS a, b
MCEntry == a :> 1 @@ b :> 2
=============================================================================
