------------------------------- MODULE MCLink -------------------------------
EXTENDS Link

CONSTANTS e1, e2, p1, p2, s1, s2, s3, a, b, x, z

MCPaneOf == (e1 :> p1) @@ (e2 :> p2)

(* Links of one to three rows, empty rows, rows alike.                     *)
MCTexts == { << <<"a", "b", "c">>, <<>>, <<"a", "b", "d", "e", "f">>, <<"g">>, <<"g", "h">> >>,
             << <<"g">>, <<"a", "b", "c">>, <<"a">>, <<"h", "b", "i">> >> }
(* Lines that wrap at a blank or end with one.                             *)
PaddedTexts == { << <<"a", "_", "b">>, <<"c">>, <<"c", "d", "e">> >>,
                 << <<"c", "_">>, <<>>, <<"d">>, <<"c", "a", "b">> >> }
ASSUME Hypothesis == Unpadded(MCTexts) /\ ~Unpadded(PaddedTexts)

(* The clicked server, the one outside it, and the one outside that.       *)
MCServerOf == (a :> s1) @@ (b :> s1) @@ (x :> s2) @@ (z :> s3)
In(says, proven, host, owns) ==
  [says |-> says, proven |-> proven, able |-> TRUE, host |-> host, owns |-> owns]
Deaf == [says |-> "other", proven |-> TRUE, able |-> FALSE, host |-> NoClient, owns |-> FALSE]
MCTerminals ==
  (a :> {In("wezterm", TRUE, NoClient, FALSE), In("other", TRUE, NoClient, FALSE),
         In("tmux", TRUE, s2, TRUE), In("tmux", FALSE, s2, FALSE), Deaf})
  @@ (b :> {In("wezterm", TRUE, NoClient, FALSE)})
  @@ (x :> {In("wezterm", TRUE, NoClient, FALSE), In("tmux", TRUE, s1, TRUE),
            In("tmux", TRUE, s3, TRUE)})
  @@ (z :> {In("tmux", TRUE, s1, TRUE), In("wezterm", TRUE, NoClient, FALSE)})

(* Each part starts in every state of its own world; the worlds of the     *)
(* others stand still, so that the three are explored one by one.          *)
MCInit ==
  /\ phase \in {"text", "name", "file", "page"}
  /\ IF phase = "text" THEN TRUE ELSE top = 0 /\ text = (CHOOSE t \in Texts : TRUE)
  /\ IF phase = "file" THEN TRUE
     ELSE /\ life = [e \in Editors |-> "live"] /\ busy = {}
          /\ latest = [p \in Scopes |-> {[owner |-> IF p = p2 THEN e2 ELSE e1, seq |-> 0]}]
  /\ named \in BOOLEAN
  /\ newest \in {(s1 :> c) @@ (s2 :> x) @@ (s3 :> z) : c \in {a, b}}
  /\ session \in {(a :> t) @@ (b :> u) @@ (x :> "home") @@ (z :> "home") : t, u \in Sessions}
  /\ attached \in {Clients, Clients \ {b}}
  /\ window = IF newest[s1] = b THEN Clients \ {b} ELSE Clients
  /\ entries = IF named THEN 1 ELSE 0
  /\ IF phase = "page" THEN TRUE
     ELSE /\ terminal = [c \in Clients |-> In("wezterm", TRUE, NoClient, FALSE)]
          /\ session[a] = "home" /\ session[b] = "home" /\ newest[s1] = a
          /\ attached = Clients /\ named = TRUE /\ browser = "click"
  /\ LinkInit
MCNext == Handler \/ ScreenMoves \/ (reader = "idle" /\ (EditorsMove \/ UsersMove)) \/ Ended
MCSpec == MCInit /\ [][MCNext]_linkVars /\ WF_linkVars(Deadlines)
=============================================================================
