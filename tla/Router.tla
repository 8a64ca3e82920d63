------------------------------- MODULE Router -------------------------------
(***************************************************************************)
(* One `termnav navigate` process after another (commands/navigate.rs)     *)
(* routes a gesture (navigation/mod.rs) over live tmux clients, process    *)
(* ancestry, relays and terminals (navigation/system.rs).  The process     *)
(* holds nothing but snapshots: between any two of its backend calls       *)
(* clients detach, come back as new processes, switch sessions, lose the   *)
(* focus, and their users type.                                            *)
(*                                                                         *)
(* A pane stands for its tmux server as well.  A session shows the active  *)
(* pane of its current window; two sessions may link the same window.      *)
(***************************************************************************)
EXTENDS Naturals, FiniteSets

CONSTANTS
  Clients, Sessions, Windows, Panes,
  Window,       \* the window of a pane
  Linked,       \* the windows of a session
  Parent,       \* the pane a client's process runs in, None outside of tmux
  Freshness,    \* how many seconds old an activity may be that decides
  MaxMoves,     \* bound on the changes the world makes
  MaxClock,     \* bound on the clock
  MaxBurst,     \* bound on the gestures of one burst
  None

ASSUME WorldAssumption ==
  /\ Window \in [Panes -> Windows]
  /\ Linked \in [Sessions -> SUBSET Windows]
  /\ Parent \in [Clients -> Panes \cup {None}]
  /\ None \notin Clients \cup Sessions \cup Panes
ASSUME BoundsAssumption ==
  Freshness \in Nat /\ MaxMoves \in Nat /\ MaxClock \in Nat /\ MaxBurst \in Nat

VARIABLES
  at,        \* the session a client is attached to, None while it is not
  gen,       \* the generation of a client: its pid and creation time
  focus,     \* the clients that claim the focus
  typed,     \* when a client was last typed into
  cur,       \* the current window of a session
  act,       \* the active pane of a window
  clock,     \* the time in seconds
  left,      \* changes the world may still make
  pc, action, entry,
  origin,    \* the pane the gesture was typed in
  started,   \* when the process began to route it
  scope,     \* the tmux scope being tried
  client,    \* the physical client selected, at most one
  first,     \* whether this is the scope the gesture was made in
  inspected, \* whether this scope's clients have been looked at
  visited,   \* panes that have been tried
  outcome,
  last,      \* client and scope retained for the next gesture of the burst
  burst,     \* gestures begun
  count,     \* how often this gesture has had an effect anywhere
  carriers,  \* the client generations the key press came through
  sure,      \* whether they have kept focus and place since, and no rival typed too soon
  moved      \* whether the world has moved since the router's last step

worldVars == <<at, gen, focus, typed, cur, act>>
boundVars == <<clock, left>>
routeVars == <<scope, client, first, inspected, visited>>
gestureVars == <<action, entry, origin, started, burst, carriers, sure>>
endVars == <<outcome, last>>
vars == <<worldVars, boundVars, routeVars, gestureVars, endVars, pc, count, moved>>

Actions == {"select", "move", "tab", "tabmove"}   \* PaneSelect, PaneMove, TabSelect, TabMove
Outcomes == {"handled", "error", "declined"}
Entries == {"shell", "binding", "parent", "outside"}
Scopes == [pane : Panes, session : Sessions \cup {None}]
Cards == [who : Clients, gen : Nat, session : Sessions \cup {None}, pane : Panes,
          focused : BOOLEAN, activity : Nat, exact : BOOLEAN]
NoScope == [pane |-> None, session |-> None]
NoResult == [client |-> {}, scope |-> {}]

-----------------------------------------------------------------------------
(* What tmux tells.                                                        *)

Attached == {c \in Clients : at[c] # None}
Shown(s) == act[cur[s]]
Card(c) == [who |-> c, gen |-> gen[c], session |-> at[c], pane |-> Shown(at[c]),
            focused |-> c \in focus, activity |-> typed[c], exact |-> FALSE]

(* all_clients, filtered by pane and, where it is known, by session.       *)
Displaying(p, s) == {Card(c) : c \in {d \in Attached : /\ Shown(at[d]) = p
                                                       /\ s \in {None, at[d]}}}

Lone(S) == {x \in S : S = {x}}
Newest(S) == {x \in S : \A y \in S : y.activity <= x.activity}

(* fault: an activity in the future counts as fresh                        *)
FreshestAbsolute(S, t) == {x \in Lone(Newest(S)) : x.activity > t \/ t - x.activity <= Freshness}
(* freshest and choose_client: at most one card.                           *)
Freshest(S, t) == {x \in Lone(Newest(S)) : x.activity <= t /\ t - x.activity <= Freshness}
ChooseClient(S, t) ==
  LET focused == {x \in S : x.focused} IN
  IF Lone(S) # {} THEN S
  ELSE IF Lone(focused) # {} THEN focused
  ELSE Freshest(IF focused = {} THEN S ELSE focused, t)

(* reselect_client: the freshness is measured from the newest activity.    *)
Observed(S, t) == IF \A x \in S : x.activity <= t THEN t
                  ELSE CHOOSE a \in {x.activity : x \in S} : \A x \in S : x.activity <= a
ReselectClient(S, t) == ChooseClient(S, Observed(S, t))

(* fault: pid and tty are compared, the creation time is not               *)
SameTerminal(x, card) ==
  /\ x.who = card.who /\ x.pane = card.pane
  /\ card.session \in {None, x.session}
SameRoute(x, card) ==
  /\ x.who = card.who /\ x.gen = card.gen /\ x.pane = card.pane
  /\ card.session \in {None, x.session}

(* validate_client against the clients a call lists.                       *)
Passes(card, listed) ==
  \E x \in IF card.exact THEN listed ELSE ReselectClient(listed, started) : SameRoute(x, card)

(* A call that lists clients may fail or time out: it lists nobody.        *)
Listings(p, s) == {Displaying(p, s), {}}

-----------------------------------------------------------------------------
Init ==
  /\ at \in [Clients -> Sessions \cup {None}]
  /\ cur \in [Sessions -> Windows] /\ \A s \in Sessions : cur[s] \in Linked[s]
  /\ act \in [Windows -> Panes] /\ \A w \in Windows : Window[act[w]] = w
  /\ focus \in SUBSET Clients
  /\ gen = [c \in Clients |-> 0]
  /\ typed = [c \in Clients |-> 0]
  /\ clock \in 0 .. MaxClock /\ left = MaxMoves
  /\ pc = "idle" /\ action = "select" /\ entry = "shell" /\ origin = None
  /\ started = 0 /\ burst = 0 /\ carriers = {} /\ sure = FALSE
  /\ scope = NoScope /\ client = {} /\ first = FALSE /\ inspected = FALSE
  /\ visited = {} /\ outcome = "declined" /\ last = NoResult
  /\ count = 0 /\ moved = FALSE

(* The world between two steps of the router.                              *)
Displaced(c) == at'[c] # at[c] \/ gen'[c] # gen[c] \/ (at[c] # None /\ act'[cur'[at[c]]] # Shown(at[c]))
Move ==
  /\ left > 0 /\ pc # "idle"
  /\ left' = left - 1
  /\ moved' = TRUE
  /\ UNCHANGED <<routeVars, endVars, pc, count, clock>>
  /\ UNCHANGED <<action, entry, origin, started, burst, carriers>>
Rival(c) == (pc = "pressed" \/ clock <= started) /\ \A k \in carriers : k[1] # c

Detach(c) ==
  /\ at[c] # None
  /\ at' = [at EXCEPT ![c] = None]
  /\ UNCHANGED <<gen, focus, typed, cur, act>>
Attach(c, s) ==
  /\ at[c] = None
  /\ at' = [at EXCEPT ![c] = s]
  /\ gen' = [gen EXCEPT ![c] = @ + 1]
  /\ UNCHANGED <<focus, typed, cur, act>>
Reconnect(c) ==   \* a new process on the same terminal
  /\ at[c] # None
  /\ gen' = [gen EXCEPT ![c] = @ + 1]
  /\ UNCHANGED <<at, focus, typed, cur, act>>
Switch(c, s) ==
  /\ at[c] \notin {None, s}
  /\ at' = [at EXCEPT ![c] = s]
  /\ UNCHANGED <<gen, focus, typed, cur, act>>
Refocus(c) ==
  /\ focus' = IF c \in focus THEN focus \ {c} ELSE focus \cup {c}
  /\ UNCHANGED <<at, gen, typed, cur, act>>
Type(c) ==
  /\ at[c] # None
  /\ typed' = [typed EXCEPT ![c] = clock]
  /\ UNCHANGED <<at, gen, focus, cur, act>>
SelectWindow(s, w) ==
  /\ w \in Linked[s] \ {cur[s]}
  /\ cur' = [cur EXCEPT ![s] = w]
  /\ UNCHANGED <<at, gen, focus, typed, act>>
SelectPane(p) ==
  /\ act[Window[p]] # p
  /\ act' = [act EXCEPT ![Window[p]] = p]
  /\ UNCHANGED <<at, gen, focus, typed, cur>>

(* Another user may take a client anywhere; the typist's claim is sure     *)
(* until its own client moves or a rival types before the second in which  *)
(* the process starts is over.                                             *)
World ==
  /\ Move
  /\ \/ \E c \in Clients :
          \/ Detach(c) \/ Reconnect(c)
          \/ \E s \in Sessions : Attach(c, s) \/ Switch(c, s)
          \/ Refocus(c)
          \/ Type(c)
     \/ \E s \in Sessions, w \in Windows : SelectWindow(s, w)
     \/ \E p \in Panes : SelectPane(p)
  /\ sure' = /\ sure
             /\ \A k \in carriers : ~ Displaced(k[1]) /\ k[1] \in focus'
             /\ \A c \in Clients : Rival(c) => typed'[c] = typed[c]

Tick ==
  /\ clock < MaxClock /\ pc # "idle"
  /\ clock' = clock + 1
  /\ UNCHANGED <<worldVars, left, routeVars, gestureVars, endVars, pc, count, moved>>

-----------------------------------------------------------------------------
(* Steps of the router.                                                    *)

Stay == moved' = FALSE /\ UNCHANGED <<boundVars, gestureVars>>
Quiet == UNCHANGED <<worldVars, count>>
Go(place) == pc' = place /\ UNCHANGED endVars

(* The process ends: RouteResult, and the continuation it prints.          *)
End(word, clients, scopes) ==
  /\ pc' = "idle"
  /\ outcome' = word
  /\ last' = IF word = "handled" THEN [client |-> clients, scope |-> scopes] ELSE NoResult
  /\ scope' = NoScope /\ client' = {} /\ first' = FALSE /\ inspected' = FALSE /\ visited' = {}
Finish(word) == End(word, {}, {})

(* RouteResult::uncertain: a pane move owns a quiet no-op.                 *)
Uncertain == Finish(IF action = "move" THEN "declined" ELSE "error")

(* A key press reaches a client, through the client that displays the pane *)
(* it runs in.  A binding names the client and, optionally, the session.   *)
Carry(c) == {c} \cup {d \in Attached : Parent[c] # None /\ Shown(at[d]) = Parent[c]}
Press(c, d, a, e) ==
  /\ pc = "idle" /\ burst = 0 /\ c \in Attached
  /\ e # "outside" /\ d \in Carry(c)
  /\ (Parent[c] # None) => (d # c /\ Parent[d] = None)
  /\ burst' = 1 /\ action' = a /\ entry' = e /\ origin' = Shown(at[c])
  /\ carriers' = {<<k, gen[k]>> : k \in {c, d}}
  /\ sure' = ({c, d} \subseteq focus)
  /\ typed' = [k \in Clients |-> IF k \in {c, d} THEN clock ELSE typed[k]]
  /\ client' = IF e = "shell" THEN {} ELSE {[Card(c) EXCEPT !.exact = TRUE, !.activity = 0, !.focused = FALSE]}
  /\ pc' = "pressed" /\ count' = 0 /\ moved' = FALSE
  /\ UNCHANGED <<at, gen, focus, cur, act, boundVars, started, scope, first, inspected, visited, endVars>>

PressOutside(a) ==   \* in a terminal without tmux
  /\ pc = "idle" /\ burst = 0
  /\ burst' = 1 /\ action' = a /\ entry' = "outside" /\ pc' = "pressed"
  /\ UNCHANGED <<worldVars, boundVars, routeVars, origin, started, carriers, sure, endVars, count, moved>>

(* The next key of a burst, queued behind the gesture that just ended.     *)
Again(a) ==
  /\ pc = "idle" /\ burst \in 1 .. MaxBurst - 1 /\ entry \in {"shell", "outside"}
  /\ burst' = burst + 1 /\ action' = a /\ pc' = "pressed" /\ count' = 0 /\ moved' = FALSE
  /\ sure' = /\ sure
             /\ \A c \in Clients, k \in carriers : <<c, gen[c]>> \in carriers \/ typed[c] <= typed[k[1]]
  /\ UNCHANGED <<worldVars, boundVars, routeVars, entry, origin, started, carriers, endVars>>

Idle == Stay /\ Quiet
Enter(s, clients, preserve) ==
  /\ Go("enter")
  /\ scope' = s /\ client' = clients /\ first' = preserve /\ inspected' = FALSE

(* The burst itself may have moved a client away from the pane the next    *)
(* one runs in, or from the pane to which a lost continuation returns.     *)
Seen(p) == \E k \in carriers : Shown(at[k[1]]) = p

(* commands/navigate.rs run: a continuation older than its TTL is dropped. *)
Start ==
  /\ pc = "pressed"
  /\ started' = clock
  /\ moved' = FALSE /\ UNCHANGED <<boundVars, action, entry, origin, burst, carriers>> /\ Quiet
  /\ visited' = {}
  /\ \/ /\ entry = "shell"     \* current_scope from TMUX and TMUX_PANE
        /\ Enter([pane |-> origin, session |-> None], {}, TRUE)
     \/ /\ entry = "shell" /\ last.scope # {}
        /\ Go("rescope") /\ UNCHANGED <<scope, client, first, inspected>>
     \/ /\ entry = "shell" /\ last.scope = {} /\ last.client # {}
        /\ Go("reclient") /\ UNCHANGED <<scope, client, first, inspected>>
     \/ /\ entry = "binding"
        /\ Go("admit") /\ UNCHANGED <<scope, client, first, inspected>>
     \/ /\ entry = "outside"   \* finish_without_current
        /\ IF action = "move" THEN Finish("declined")
           ELSE Go("terminal") /\ UNCHANGED <<scope, client, first, inspected>>
     \/ /\ entry = "parent"
        /\ Go("outward") /\ UNCHANGED <<scope, client, first, inspected>>
  /\ sure' = /\ sure /\ \A k \in carriers : Parent[k[1]] = None \/ Seen(Parent[k[1]])
             /\ pc' = "enter" => Seen(origin)

(* refresh_scope: the pane the retained session shows now; without a       *)
(* session, the active pane of the pane's window.                          *)
Current(s) == [s EXCEPT !.pane = IF s.session = None THEN act[Window[s.pane]] ELSE Shown(s.session)]
RefreshScope ==
  /\ pc = "rescope"
  /\ Stay /\ Quiet /\ UNCHANGED visited
  /\ \/ /\ Uncertain
        /\ UNCHANGED visited
     \/ \E s \in last.scope :
          IF last.client = {} THEN Enter(Current(s), {}, TRUE)
          ELSE /\ Go("redisplay") /\ scope' = Current(s)
               /\ UNCHANGED <<client, first, inspected>>

(* refresh_client: the same process, wherever it is now.                   *)
Refreshed == {Card(c) : c \in {d \in Attached : \E x \in last.client : x.who = d /\ x.gen = gen[d]}}
ClientDisplays(x, s) == x.pane = s.pane /\ s.session \in {None, x.session}
RefreshDisplay ==
  /\ pc = "redisplay"
  /\ Stay /\ Quiet
  /\ \E listed \in {Refreshed, {}} :
       IF \E x \in listed : ClientDisplays(x, scope)
       THEN Enter(scope, listed, TRUE) /\ UNCHANGED visited
       ELSE Uncertain
RefreshClient ==
  /\ pc = "reclient"
  /\ Stay /\ Quiet
  /\ \/ \E x \in Refreshed :
          Enter([pane |-> x.pane, session |-> x.session], {x}, TRUE) /\ UNCHANGED visited
     \/ Uncertain

(* An exact source is the authoritative current scope, once validated.     *)
Admit ==
  /\ pc = "admit"
  /\ Stay /\ Quiet
  /\ \E x \in client : \E listed \in Listings(x.pane, x.session) :
       IF Passes(x, listed)
       THEN Enter([pane |-> x.pane, session |-> x.session], client, TRUE) /\ UNCHANGED visited
       ELSE Uncertain

(* enter_scope, up to the attempt: a tab operation needs a session, and a  *)
(* scope whose client must be kept is looked at before it changes.         *)
Sessionless == action # "select" /\ scope.session = None
Known(listed, chosen) ==
  LET sessions == {x.session : x \in listed} IN
  IF Lone(sessions) # {} THEN sessions ELSE {x.session : x \in chosen}
InspectScope ==
  /\ pc = "enter" /\ Sessionless
  /\ Stay /\ Quiet
  /\ \E listed \in Listings(scope.pane, None) :
       LET chosen == ChooseClient(listed, started) IN
       \/ /\ Known(listed, chosen) = {}
          /\ Uncertain
       \/ \E s \in Known(listed, chosen) :
            /\ Go("execute") /\ scope' = [scope EXCEPT !.session = s]
            /\ client' = IF client = {} THEN chosen ELSE client
            /\ inspected' = TRUE /\ UNCHANGED <<first, visited>>
InspectClient ==
  /\ pc = "enter" /\ ~ Sessionless
  /\ Stay /\ Quiet /\ Go("execute")
  /\ IF first /\ client = {}
     THEN /\ \E listed \in Listings(scope.pane, scope.session) : client' = ChooseClient(listed, started)
          /\ inspected' = TRUE
     ELSE UNCHANGED <<client, inspected>>
  /\ UNCHANGED <<scope, first, visited>>

-----------------------------------------------------------------------------
(* execute_once and what tmux does: one command queue that checks that the *)
(* pane is still the active one and acts, or answers with a marker.        *)

(* fault: without the visited set                                          *)
TryingAlways == pc = "execute"
Trying == pc = "execute" /\ scope.pane \notin visited
Watched(w) == \E c \in Attached : cur[at[c]] = w
PaneActive == act[Window[scope.pane]] = scope.pane
WindowActive == cur[scope.session] = Window[scope.pane]
Neighbours == {p \in Panes : Window[p] = Window[scope.pane]} \ {scope.pane}

Handled == End("handled", IF first THEN client ELSE {}, {scope})

(* The scope has acted; its answer may still be lost with the call.        *)
Acted == count' = count + 1 /\ (Handled \/ Finish("error"))

(* The scope declines: outwards through the client, if there is just one.  *)
Declined ==
  /\ Quiet
  /\ IF client = {} /\ inspected THEN Uncertain
     ELSE /\ Go(IF client # {} THEN "outward" ELSE "resolve")
          /\ visited' = visited \cup {scope.pane}
          /\ UNCHANGED <<scope, client, first, inspected>>
Refuse(word) == Quiet /\ Finish(word)

Revisit ==
  /\ pc = "execute" /\ scope.pane \in visited
  /\ Stay /\ Refuse("error")

CallFails ==
  /\ Trying \/ pc = "swap"
  /\ Stay /\ Refuse("error")

SelectNeighbour ==
  /\ Trying /\ action = "select"
  /\ Stay
  /\ IF ~ (Watched(Window[scope.pane]) /\ PaneActive) THEN Refuse("error")
     ELSE \/ Declined
          \/ \E p \in Neighbours :
               /\ act' = [act EXCEPT ![Window[p]] = p]
               /\ UNCHANGED <<at, gen, focus, typed, cur>>
               /\ Acted

MovePane ==
  /\ Trying /\ action = "move"
  /\ Stay
  /\ \/ Declined
     \/ /\ Watched(Window[scope.pane]) /\ PaneActive /\ Neighbours # {}
        /\ UNCHANGED worldVars
        /\ Acted

Windowed == Linked[scope.session] # {cur[scope.session]}
SelectTab ==
  /\ Trying /\ action = "tab"
  /\ Stay
  /\ IF ~ (WindowActive /\ PaneActive) THEN Refuse("error")
     ELSE IF ~ Windowed THEN Declined
     ELSE \E w \in Linked[scope.session] \ {cur[scope.session]} :
            /\ cur' = [cur EXCEPT ![scope.session] = w]
            /\ UNCHANGED <<at, gen, focus, typed, act>>
            /\ Acted

(* move_tab counts the windows, lists them, and then asks tmux to swap.    *)
MoveTab ==
  /\ Trying /\ action = "tabmove"
  /\ Stay
  /\ IF Windowed
     THEN /\ Go("swap") /\ visited' = visited \cup {scope.pane}
          /\ Quiet /\ UNCHANGED <<scope, client, first, inspected>>
     ELSE Declined
SwapWindow ==
  /\ pc = "swap"
  /\ Stay
  /\ \/ Quiet /\ Handled       \* at an end: an owned no-op
     \/ IF WindowActive /\ PaneActive THEN UNCHANGED worldVars /\ Acted ELSE Refuse("error")

(* resolve_client, only once the gesture must leave the scope.             *)
Resolve ==
  /\ pc = "resolve"
  /\ Stay /\ Quiet
  /\ \E listed \in Listings(scope.pane, scope.session) :
       LET chosen == ChooseClient(listed, started) IN
       IF chosen = {} THEN Uncertain
       ELSE Go("outward") /\ client' = chosen /\ UNCHANGED <<scope, first, inspected, visited>>

-----------------------------------------------------------------------------
(* Outwards: every boundary looks again whether the client is still the    *)
(* one the gesture came through.                                           *)

Look(here, there, otherwise) ==
  /\ pc = here
  /\ Stay /\ Quiet
  /\ \E x \in client : \E listed \in Listings(x.pane, x.session) :
       IF Passes(x, listed)
       THEN Go(there) /\ UNCHANGED routeVars
       ELSE otherwise

LookOutward == Look("outward", "ancestry", Uncertain)
LookRelay == Look("edge", "relay", Finish("error"))
LookTerminal == Look("last", "terminal", Finish("error"))

(* parent_scope reads the environment of the client's process, if it is    *)
(* still there.                                                            *)
Lives(x) == at[x.who] # None /\ gen[x.who] = x.gen
FindParent ==
  /\ pc = "ancestry"
  /\ Stay /\ Quiet
  /\ \E x \in client :
       \/ /\ Lives(x) /\ Parent[x.who] # None
          /\ Enter([pane |-> Parent[x.who], session |-> None], {}, FALSE)
          /\ UNCHANGED visited
       \/ /\ ~ (Lives(x) /\ Parent[x.who] # None)
          /\ IF action = "move" THEN Finish("declined")
             ELSE Go("edge") /\ UNCHANGED routeVars

(* The parent relay moves the focus at most once and says whether it has;  *)
(* its answer may be lost.  Without a relay, or when nobody further out    *)
(* takes the gesture, the terminal gets it.                                *)
Relay ==
  /\ pc = "relay"
  /\ Stay
  /\ \/ /\ Quiet /\ Go("last") /\ UNCHANGED routeVars
     \/ Quiet /\ Finish("error")
     \/ /\ UNCHANGED worldVars /\ count' = count + 1
        /\ End("handled", client, {}) \/ Finish("error")

(* A terminal that is nobody's to move owns the gesture; VS Code's socket  *)
(* and the user variable of WezTerm take it or fail.                       *)
Terminal ==
  /\ pc = "terminal"
  /\ Stay
  /\ \/ Quiet /\ (End("handled", client, {}) \/ Finish("error"))
     \/ /\ UNCHANGED worldVars /\ action # "select" /\ count' = count + 1
        /\ End("handled", client, {}) \/ Finish("error")
     \/ Quiet /\ action = "tab" /\ Go("post") /\ UNCHANGED routeVars

(* vscode_mcp: an answer that is an error is retried once, after a         *)
(* handshake; no answer is not.                                            *)
Post(here, again) ==
  /\ pc = here
  /\ Stay
  /\ \/ UNCHANGED worldVars /\ count' = count + 1 /\ (End("handled", client, {}) \/ Finish("error"))
     \/ Quiet /\ Finish("error")
     \/ Quiet /\ again
(* fault: a request without an answer is retried too                       *)
RetryUnanswered ==
  Post("post", /\ Go("initialize") /\ UNCHANGED routeVars)
  \/ /\ pc = "post" /\ Stay
     /\ UNCHANGED worldVars /\ count' = count + 1 /\ Go("initialize") /\ UNCHANGED routeVars
FirstPost == Post("post", Go("initialize") /\ UNCHANGED routeVars)
Initialize ==
  /\ pc = "initialize"
  /\ Stay /\ Quiet
  /\ (Go("repost") /\ UNCHANGED routeVars) \/ Finish("error")
SecondPost == Post("repost", Finish("error"))

-----------------------------------------------------------------------------
Begin == \E a \in Actions :
           \/ \E c, d \in Clients, e \in Entries : Press(c, d, a, e)
           \/ PressOutside(a)
           \/ Again(a)
Route ==
  \/ Start \/ RefreshScope \/ RefreshDisplay \/ RefreshClient \/ Admit
  \/ InspectScope \/ InspectClient
  \/ Revisit \/ CallFails \/ SelectNeighbour \/ MovePane \/ SelectTab \/ MoveTab \/ SwapWindow
  \/ Resolve \/ LookOutward \/ FindParent \/ LookRelay \/ Relay \/ LookTerminal \/ Terminal
  \/ FirstPost \/ Initialize \/ SecondPost
Next == Begin \/ World \/ Tick \/ Route

(* Places where a call may last: one of tmux ends with its output, which a *)
(* descendant of it may hold (output_timeout), and the terminal's device is*)
(* opened and written to as long as it takes.  There the router is given   *)
(* no fairness; the relay, the sockets and the tables of processes answer  *)
(* or are given up.                                                        *)
Unbounded == {"rescope", "redisplay", "reclient", "admit", "enter", "execute", "swap", "resolve",
              "outward", "edge", "last", "terminal"}

Spec == Init /\ [][Next]_vars
FairSpec == Spec /\ WF_vars(pc \notin Unbounded /\ Route)

-----------------------------------------------------------------------------
Places == {"idle", "pressed", "rescope", "redisplay", "reclient", "admit", "enter", "execute",
           "swap", "resolve", "outward", "ancestry", "edge", "relay", "last", "terminal",
           "post", "initialize", "repost"}

(* Every variable has its type, and at most one client is ever selected.   *)
TypeOK ==
  /\ at \in [Clients -> Sessions \cup {None}] /\ gen \in [Clients -> Nat]
  /\ focus \subseteq Clients /\ typed \in [Clients -> Nat]
  /\ cur \in [Sessions -> Windows] /\ act \in [Windows -> Panes]
  /\ clock \in Nat /\ left \in Nat /\ started \in Nat /\ burst \in Nat /\ count \in Nat
  /\ pc \in Places /\ action \in Actions /\ entry \in Entries /\ origin \in Panes \cup {None}
  /\ scope \in Scopes \cup {NoScope} /\ visited \subseteq Panes
  /\ client \subseteq Cards /\ \A x, y \in client : x = y
  /\ first \in BOOLEAN /\ inspected \in BOOLEAN /\ sure \in BOOLEAN /\ moved \in BOOLEAN
  /\ outcome \in Outcomes
  /\ last.client \subseteq Cards /\ last.scope \subseteq Scopes
  /\ carriers \subseteq Clients \X Nat

(* A gesture takes effect at most once, whichever calls fail or answer too *)
(* late, and not at all when it is reported as declined: the caller then   *)
(* gives it to somebody else (Outcome::Declined).                          *)
OneEffect ==
  /\ count <= 1
  /\ (pc = "idle" /\ outcome = "declined") => count = 0

(* As long as the clients the key press came through keep their place and  *)
(* their claim to the focus, and nobody else types before the second in    *)
(* which the process starts is over, the gesture acts on a pane or a       *)
(* session one of them shows and leaves only through one of them: the      *)
(* later ones of a burst too, unless an earlier one has hidden the pane    *)
(* that the process, or one of the clients, runs in.                       *)
TypistOnly ==
  [][sure /\ count' > count =>
       IF pc \in {"execute", "swap"}
       THEN \E k \in carriers : Card(k[1]) \in Displaying(scope.pane, scope.session)
       ELSE \A x \in client : <<x.who, x.gen>> \in carriers]_vars

(* A boundary is crossed on a look taken just before: unless the world has *)
(* moved since that step, the client is attached, the same process as when *)
(* it was chosen, and displays what the gesture left from.                 *)
FreshEdge ==
  (pc \in {"ancestry", "relay", "terminal"} /\ ~ moved) =>
     \A x \in client : Lives(x) /\ ClientDisplays(Card(x.who), x)

(* Every gesture comes to an end, whatever its process ancestry and the    *)
(* world's moves: no pane is tried twice.  Only a single call that never   *)
(* returns keeps one for ever.                                             *)
GestureEnds == []<>(pc = "idle") \/ \E place \in Unbounded : <>[](pc = place)
=============================================================================
