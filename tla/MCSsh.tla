------------------------------- MODULE MCSsh -------------------------------
(* The command by itself, and then any other call behind a deadline.       *)
EXTENDS SshSupervisor
CONSTANTS c1, c2
MCInit ==
  /\ SshInit
  /\ \/ main = "start" /\ call[c1] = Unused /\ call[c2] = Spared
     \/ main = "absent" /\ call[c1] = Spared /\ call[c2] = Unused
MCSpec == MCInit /\ [][SshNext]_sshVars /\ SshFairness
=============================================================================
