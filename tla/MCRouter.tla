------------------------------ MODULE MCRouter ------------------------------
(* An inner server with two sessions that link a window, an outer server   *)
(* with one.  c1 runs in the outer pane, the others in terminals.          *)
EXTENDS Router, TLC
CONSTANTS c1, c2, c3, i1, i2, so, w1, w2, wo, p1, p2, p3, o1
MCWindow == p1 :> w1 @@ p2 :> w1 @@ p3 :> w2 @@ o1 :> wo
MCLinked == i1 :> {w1, w2} @@ i2 :> {w1} @@ so :> {wo}
MCParent == c1 :> o1 @@ c2 :> None @@ c3 :> None

(* At first two clients share a session, or show one window through two    *)
(* sessions with one or both of them focused, or c1 is inside itself.      *)
MCInit ==
  /\ Init /\ clock = 1
  /\ at[c3] = so /\ cur[i1] = w1 /\ act[w1] = p1
  /\ \/ at[c1] = i1 /\ at[c2] = i1 /\ focus = Clients
     \/ at[c1] = i1 /\ at[c2] = i2 /\ {c1, c3} \subseteq focus
     \/ at[c1] = so /\ at[c2] = i1 /\ focus = Clients
MCSpec == MCInit /\ [][Next]_vars /\ WF_vars(pc \notin Unbounded /\ Route)
=============================================================================
