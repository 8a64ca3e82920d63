-------------------------- MODULE MCDirectiveStore --------------------------
(* Small instances of DirectiveStore for TLC. *)
EXTENDS DirectiveStore, TLC

CONSTANTS n1, n2, x1, s1, s2, c1, c2

(* Both relays sit in panes of one tmux client. *)
SharedClient == {<<s1, c1>>, <<s2, c1>>}

(* One relay feeds both of the clients that display its pane. *)
SoleRelay == {<<s1, c1>>, <<s1, c2>>}

(* One relay, one client. *)
Single == {<<s1, c1>>}

Symmetry == Permutations({n1, n2}) \cup Permutations({s1, s2})
=============================================================================
