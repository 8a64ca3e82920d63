---------------------------- MODULE MCPaneStyle ----------------------------
(* Small instances of PaneStyle for TLC. *)
EXTENDS PaneStyle, TLC

CONSTANTS c1, c2, t1, t2, p1, p2

Symmetry == Permutations({c1, c2}) \cup Permutations({t1, t2}) \cup Permutations({p1, p2})
=============================================================================
