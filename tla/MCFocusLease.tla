---------------------------- MODULE MCFocusLease ----------------------------
(* Small instances of FocusLease for TLC. *)
EXTENDS FocusLease, TLC

CONSTANTS k1, k2, w1, w2, p1, e1, e2

Symmetry == Permutations({k1, k2}) \cup Permutations({w1, w2})
              \cup Permutations({e1, e2})
=============================================================================
