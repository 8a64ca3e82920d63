---------------------------- MODULE RouterProofs ----------------------------
(***************************************************************************)
(* What is proved of Router, for any clients, sessions, windows, panes and *)
(* process ancestry, and for any bounds.                                   *)
(***************************************************************************)
EXTENDS Router, TLAPS

(* A gesture that is still routed has not taken effect anywhere: the step  *)
(* that has an effect is the last one.                                     *)
EffectInv ==
  /\ count \in {0, 1}
  /\ pc # "idle" => count = 0
  /\ burst = 0 => count = 0 /\ pc = "idle"
  /\ pc = "idle" /\ outcome = "declined" => count = 0
  /\ burst \in Nat

LEMMA EffectInit == Init => EffectInv
BY DEF Init, EffectInv

LEMMA EffectStep ==
  ASSUME EffectInv, [Next]_vars
  PROVE  EffectInv'
<1> USE DEF EffectInv
<1>1. CASE Begin
  <2>1. CASE \E a \in Actions, c, d \in Clients, e \in Entries : Press(c, d, a, e)
    BY <2>1 DEF Press
  <2>2. CASE \E a \in Actions : PressOutside(a)
    BY <2>2 DEF PressOutside
  <2>3. CASE \E a \in Actions : Again(a)
    BY <2>3 DEF Again
  <2> QED
    BY <1>1, <2>1, <2>2, <2>3 DEF Begin
<1>2. CASE World
  BY <1>2 DEF World, Move, endVars
<1>3. CASE Tick
  BY <1>3 DEF Tick, gestureVars, endVars
<1>4. CASE Start
  BY <1>4 DEF Start, Quiet, Go, Enter, Finish, End, endVars
<1>5. CASE /\ Quiet /\ Stay /\ pc # "idle"
  BY <1>5 DEF Quiet, Stay, gestureVars
<1>6. CASE RefreshScope \/ RefreshDisplay \/ RefreshClient \/ Admit \/ InspectScope \/ InspectClient
  BY <1>5, <1>6 DEF RefreshScope, RefreshDisplay, RefreshClient, Admit, InspectScope, InspectClient
<1>7. CASE Revisit \/ CallFails
  BY <1>5, <1>7 DEF Revisit, CallFails, Refuse, Trying
<1>8. ASSUME pc # "idle", Stay, Acted PROVE EffectInv'
  BY <1>8 DEF Acted, Stay, Handled, Finish, End, gestureVars
<1>9. CASE SelectNeighbour \/ MovePane \/ SelectTab
  BY <1>5, <1>8, <1>9 DEF SelectNeighbour, MovePane, SelectTab, Trying, Refuse, Declined
<1>10. CASE MoveTab \/ SwapWindow
  BY <1>5, <1>8, <1>10 DEF MoveTab, SwapWindow, Trying, Refuse, Declined
<1>11. CASE Resolve \/ LookOutward \/ FindParent \/ LookRelay \/ LookTerminal
  BY <1>5, <1>11 DEF Resolve, LookOutward, FindParent, LookRelay, LookTerminal, Look
<1>12. CASE Relay \/ Terminal
  BY <1>12 DEF Relay, Terminal, Stay, Quiet, Go, Finish, End, gestureVars, endVars
<1>13. CASE FirstPost \/ Initialize \/ SecondPost
  BY <1>13 DEF FirstPost, Initialize, SecondPost, Post, Stay, Quiet, Go, Finish, End, gestureVars, endVars
<1>14. CASE UNCHANGED vars
  BY <1>14 DEF vars, gestureVars, endVars
<1> QED
  BY <1>1, <1>2, <1>3, <1>4, <1>6, <1>7, <1>9, <1>10, <1>11, <1>12, <1>13, <1>14 DEF Next, Route

(* A gesture takes effect at most once, and not at all when it is reported *)
(* as declined, whichever calls fail or answer too late (route,            *)
(* vscode_mcp).                                                            *)
THEOREM EffectIsOne == Spec => []OneEffect
<1>1. EffectInv => OneEffect
  BY DEF EffectInv, OneEffect
<1>2. EffectInv /\ [Next]_vars => EffectInv'
  BY EffectStep
<1> QED
  BY <1>1, <1>2, EffectInit, PTL DEF Spec

-----------------------------------------------------------------------------
(* The choice of a client.                                                 *)
AtMostOne(S) == \A x, y \in S : x = y

(* Among any clients at most one is chosen, and it is one of them          *)
(* (choose_client, freshest, reselect_client).                             *)
LEMMA ChoiceIsOne ==
  ASSUME NEW S, NEW t
  PROVE  AtMostOne(ChooseClient(S, t)) /\ ChooseClient(S, t) \subseteq S
<1>1. ASSUME NEW T PROVE Lone(T) \subseteq T /\ AtMostOne(Lone(T)) /\ (Lone(T) # {} => AtMostOne(T))
  BY DEF Lone, AtMostOne
<1>2. ASSUME NEW T PROVE Freshest(T, t) \subseteq T /\ AtMostOne(Freshest(T, t))
  <2>1. Freshest(T, t) \subseteq Lone(Newest(T)) /\ Newest(T) \subseteq T
    BY DEF Freshest, Newest
  <2>2. Lone(Newest(T)) \subseteq Newest(T) /\ AtMostOne(Lone(Newest(T)))
    BY <1>1
  <2> QED
    BY <2>1, <2>2 DEF AtMostOne
<1> DEFINE focused == {x \in S : x.focused}
           rest == IF focused = {} THEN S ELSE focused
<1>3. focused \subseteq S /\ rest \subseteq S
  OBVIOUS
<1>4. ChooseClient(S, t) = IF Lone(S) # {} THEN S ELSE IF Lone(focused) # {} THEN focused
                           ELSE Freshest(rest, t)
  BY DEF ChooseClient
<1> HIDE DEF focused, rest
<1>5. CASE Lone(S) # {}
  BY <1>1, <1>4, <1>5
<1>6. CASE Lone(S) = {} /\ Lone(focused) # {}
  BY <1>1, <1>3, <1>4, <1>6
<1>7. CASE Lone(S) = {} /\ Lone(focused) = {}
  <2>1. ChooseClient(S, t) = Freshest(rest, t)
    BY <1>4, <1>7
  <2>2. Freshest(rest, t) \subseteq rest /\ AtMostOne(Freshest(rest, t))
    BY <1>2
  <2> QED
    BY <1>3, <2>1, <2>2
<1> QED
  BY <1>5, <1>6, <1>7

(* A client that passes the second look is there, the same process, and    *)
(* displays what was asked for (validate_client).                          *)
LEMMA PassesIsLive ==
  ASSUME NEW x, NEW p, NEW s, NEW listed \in Listings(p, s), Passes(x, listed)
  PROVE  Lives(x) /\ ClientDisplays(Card(x.who), x)
<1>1. ReselectClient(listed, started) \subseteq listed
  BY ChoiceIsOne DEF ReselectClient
<1>2. PICK y \in listed : SameRoute(y, x)
  BY <1>1 DEF Passes
<1>3. PICK c \in Attached : y = Card(c)
  BY <1>2 DEF Listings, Displaying
<1>4. y.who = c /\ y.gen = gen[c]
  BY <1>3 DEF Card
<1>5. x.who = c /\ x.gen = gen[c] /\ y = Card(x.who)
  BY <1>2, <1>3, <1>4 DEF SameRoute
<1>6. Lives(x)
  BY <1>5 DEF Lives, Attached
<1>7. ClientDisplays(y, x)
  BY <1>2 DEF SameRoute, ClientDisplays
<1> QED
  BY <1>5, <1>6, <1>7

LEMMA RefreshedIsOne ==
  ASSUME AtMostOne(last.client)
  PROVE  AtMostOne(Refreshed)
<1> SUFFICES ASSUME NEW x \in Refreshed, NEW y \in Refreshed PROVE x = y
  BY DEF AtMostOne
<1>1. PICK c \in Attached : x = Card(c) /\ \E v \in last.client : v.who = c
  BY DEF Refreshed
<1>2. PICK d \in Attached : y = Card(d) /\ \E v \in last.client : v.who = d
  BY DEF Refreshed
<1> QED
  BY <1>1, <1>2 DEF AtMostOne

-----------------------------------------------------------------------------
(* At most one client is selected at any time, none between gestures or    *)
(* for a gesture made outside of tmux; and the edge is fresh.              *)
SelectInv ==
  /\ AtMostOne(client) /\ AtMostOne(last.client)
  /\ pc = "idle" => client = {}
  /\ pc = "pressed" /\ entry = "outside" => client = {}
  /\ FreshEdge
Edges == {"ancestry", "relay", "terminal"}

LEMMA SelectInit == Init => SelectInv
BY DEF Init, SelectInv, FreshEdge, AtMostOne, NoResult

(* The end of a gesture, and any other step that goes nowhere near an edge *)
(* with at most one client.                                                *)
LEMMA EndKeepsSelect ==
  ASSUME SelectInv, NEW w, NEW S, AtMostOne(S), NEW T, End(w, S, T)
  PROVE  SelectInv'
<1>1. client' = {} /\ pc' = "idle"
  BY DEF End
<1>2. last'.client = S \/ last'.client = {}
  BY DEF End, NoResult
<1>3. AtMostOne(last'.client)
  BY <1>2 DEF AtMostOne
<1> QED
  BY <1>1, <1>3 DEF SelectInv, FreshEdge, AtMostOne

LEMMA InwardKeepsSelect ==
  ASSUME SelectInv, last' = last, pc' \notin Edges \cup {"idle", "pressed"}, AtMostOne(client')
  PROVE  SelectInv'
BY DEF SelectInv, FreshEdge, Edges

LEMMA LookKeepsSelect ==
  ASSUME SelectInv, NEW here, NEW there \in Edges, Look(here, there, FALSE)
  PROVE  SelectInv'
<1>1. PICK x \in client : \E listed \in Listings(x.pane, x.session) : Passes(x, listed)
  BY DEF Look
<1>2. Lives(x) /\ ClientDisplays(Card(x.who), x)
  BY <1>1, PassesIsLive
<1>3. client = {x}
  BY <1>1 DEF SelectInv, AtMostOne
<1>4. UNCHANGED <<worldVars, client, last, entry>> /\ pc' = there
  BY DEF Look, Stay, Quiet, Go, routeVars, endVars, gestureVars
<1>5. \A z \in client' : Lives(z)' /\ ClientDisplays(Card(z.who), z)'
  BY <1>2, <1>3, <1>4 DEF worldVars, Lives, ClientDisplays, Card, Shown
<1> QED
  BY <1>4, <1>5 DEF SelectInv, FreshEdge, Edges, AtMostOne

LEMMA LookStep ==
  ASSUME SelectInv, LookOutward \/ LookRelay \/ LookTerminal
  PROVE  SelectInv'
<1>1. ASSUME NEW w, Finish(w) PROVE SelectInv'
  BY <1>1, EndKeepsSelect DEF Finish, AtMostOne
<1>2. CASE Uncertain
  BY <1>1, <1>2 DEF Uncertain
<1>3. CASE LookOutward /\ ~Uncertain
  <2>1. Look("outward", "ancestry", FALSE)
    BY <1>3 DEF LookOutward, Look
  <2> QED
    BY <2>1, LookKeepsSelect DEF Edges
<1>4. CASE LookRelay /\ ~Finish("error")
  <2>1. Look("edge", "relay", FALSE)
    BY <1>4 DEF LookRelay, Look
  <2> QED
    BY <2>1, LookKeepsSelect DEF Edges
<1>5. CASE LookTerminal /\ ~Finish("error")
  <2>1. Look("last", "terminal", FALSE)
    BY <1>5 DEF LookTerminal, Look
  <2> QED
    BY <2>1, LookKeepsSelect DEF Edges
<1> QED
  BY <1>1, <1>2, <1>3, <1>4, <1>5

LEMMA SelectStep ==
  ASSUME SelectInv, [Next]_vars
  PROVE  SelectInv'
<1>0. AtMostOne({}) /\ AtMostOne(client) /\ AtMostOne(last.client) /\ (\A x : AtMostOne({x}))
  BY DEF SelectInv, AtMostOne
<1>1. ASSUME NEW w, Finish(w) PROVE SelectInv'
  BY <1>0, <1>1, EndKeepsSelect DEF Finish
<1>2. ASSUME Uncertain PROVE SelectInv'
  BY <1>1, <1>2 DEF Uncertain
<1>3. ASSUME NEW there \in {"enter", "execute", "swap", "resolve", "outward", "edge", "last", "post",
                            "initialize", "repost"},
             Go(there), UNCHANGED client
      PROVE  SelectInv'
  BY <1>0, <1>3, InwardKeepsSelect DEF Go, endVars, Edges
<1>4. ASSUME NEW s, NEW S, AtMostOne(S), NEW b, Enter(s, S, b) PROVE SelectInv'
  BY <1>4, InwardKeepsSelect DEF Enter, Go, endVars, Edges
<1>5. ASSUME Handled PROVE SelectInv'
  BY <1>0, <1>5, EndKeepsSelect DEF Handled
<1>6. ASSUME End("handled", client, {}) PROVE SelectInv'
  BY <1>0, <1>6, EndKeepsSelect
<1>7. CASE Begin
  <2>1. AtMostOne(client') /\ last' = last /\ pc' = "pressed" /\ (entry' = "outside" => client' = {})
    <3>1. CASE \E a \in Actions, c, d \in Clients, e \in Entries : Press(c, d, a, e)
      BY <1>0, <3>1, ZenonT(30) DEF Press, endVars
    <3>2. CASE \E a \in Actions : PressOutside(a) \/ Again(a)
      BY <1>0, <3>2 DEF PressOutside, Again, endVars, routeVars, SelectInv
    <3> QED
      BY <1>7, <3>1, <3>2 DEF Begin
  <2> QED
    BY <1>0, <2>1 DEF SelectInv, FreshEdge
<1>8. CASE World
  BY <1>8 DEF World, Move, SelectInv, FreshEdge, routeVars, endVars
<1>9. CASE Tick
  <2>1. UNCHANGED <<worldVars, client, last, entry, pc, moved>>
    BY <1>9 DEF Tick, routeVars, endVars, gestureVars
  <2> QED
    BY <2>1 DEF SelectInv, FreshEdge, worldVars, Lives, ClientDisplays, Card, Shown
<1>10. CASE Start
  <2>1. CASE Enter([pane |-> origin, session |-> None], {}, TRUE)
    BY <1>0, <1>4, <2>1
  <2>2. CASE pc' \in {"rescope", "reclient", "admit", "outward"} /\ last' = last /\ client' = client
    BY <1>0, <2>2, InwardKeepsSelect DEF Edges
  <2>3. CASE Finish("declined")
    BY <1>1, <2>3
  <2>4. CASE entry = "outside" /\ pc' = "terminal" /\ client' = client /\ last' = last
    BY <1>10, <2>4 DEF Start, SelectInv, FreshEdge
  <2> QED
    BY <1>10, <2>1, <2>2, <2>3, <2>4 DEF Start, Go, endVars
<1>11. CASE RefreshScope \/ RefreshDisplay \/ RefreshClient \/ Admit
  <2>1. AtMostOne(Refreshed)
    BY <1>0, RefreshedIsOne
  <2>2. CASE RefreshScope
    <3>1. CASE \E s : Enter(s, {}, TRUE)
      BY <1>0, <1>4, <3>1
    <3>2. CASE Go("redisplay") /\ UNCHANGED client
      BY <1>0, <3>2, InwardKeepsSelect DEF Go, endVars, Edges
    <3> QED
      BY <1>2, <2>2, <3>1, <3>2 DEF RefreshScope
  <2>3. CASE RefreshDisplay
    BY <1>0, <1>2, <1>4, <2>1, <2>3 DEF RefreshDisplay
  <2>4. CASE RefreshClient
    BY <1>0, <1>2, <1>4, <2>4 DEF RefreshClient
  <2>5. CASE Admit
    BY <1>0, <1>2, <1>4, <2>5 DEF Admit
  <2> QED
    BY <1>11, <2>2, <2>3, <2>4, <2>5
<1>12. CASE InspectScope
  <2>1. PICK listed \in Listings(scope.pane, None) :
          \/ Uncertain
          \/ Go("execute") /\ client' \in {ChooseClient(listed, started), client}
    BY <1>12 DEF InspectScope
  <2>2. AtMostOne(ChooseClient(listed, started))
    BY ChoiceIsOne
  <2> QED
    BY <1>0, <1>2, <2>1, <2>2, InwardKeepsSelect DEF Go, endVars, Edges
<1>13. CASE InspectClient
  <2>1. \/ client' = client
        \/ \E listed : client' = ChooseClient(listed, started)
    BY <1>13 DEF InspectClient
  <2>2. AtMostOne(client')
    BY <1>0, <2>1, ChoiceIsOne
  <2> QED
    BY <1>13, <2>2, InwardKeepsSelect DEF InspectClient, Go, endVars, Edges
<1>14. CASE Revisit \/ CallFails
  BY <1>1, <1>14 DEF Revisit, CallFails, Refuse
<1>15. ASSUME Declined PROVE SelectInv'
  BY <1>2, <1>3, <1>15 DEF Declined
<1>16. ASSUME Acted PROVE SelectInv'
  BY <1>1, <1>5, <1>16 DEF Acted
<1>17. ASSUME NEW w, Refuse(w) PROVE SelectInv'
  BY <1>1, <1>17 DEF Refuse
<1>18. CASE SelectNeighbour
  BY <1>15, <1>16, <1>17, <1>18 DEF SelectNeighbour
<1>19. CASE MovePane
  BY <1>15, <1>16, <1>19 DEF MovePane
<1>20. CASE SelectTab
  BY <1>15, <1>16, <1>17, <1>20 DEF SelectTab
<1>21. CASE MoveTab
  BY <1>3, <1>15, <1>21 DEF MoveTab
<1>22. CASE SwapWindow
  BY <1>5, <1>16, <1>17, <1>22 DEF SwapWindow
<1>23. CASE Resolve
  <2>1. PICK listed : Uncertain \/ (Go("outward") /\ client' = ChooseClient(listed, started))
    BY <1>23 DEF Resolve
  <2> QED
    BY <1>2, <2>1, ChoiceIsOne, InwardKeepsSelect DEF Go, endVars, Edges
<1>24. CASE LookOutward \/ LookRelay \/ LookTerminal
  BY <1>24, LookStep
<1>25. CASE FindParent
  <2>1. CASE \E s : Enter(s, {}, FALSE)
    BY <1>0, <1>4, <2>1
  <2>2. CASE Finish("declined")
    BY <1>1, <2>2
  <2>3. CASE Go("edge") /\ UNCHANGED routeVars
    BY <1>3, <2>3 DEF routeVars
  <2> QED
    BY <1>25, <2>1, <2>2, <2>3 DEF FindParent
<1>26. CASE Relay
  BY <1>1, <1>3, <1>6, <1>26 DEF Relay, routeVars
<1>27. CASE Terminal
  BY <1>1, <1>3, <1>6, <1>27 DEF Terminal, routeVars
<1>28. CASE FirstPost \/ Initialize \/ SecondPost
  BY <1>1, <1>3, <1>6, <1>28 DEF FirstPost, Initialize, SecondPost, Post, routeVars
<1>29. CASE UNCHANGED vars
  <2>1. UNCHANGED <<worldVars, client, last, entry, pc, moved>>
    BY <1>29 DEF vars, routeVars, endVars, gestureVars
  <2> QED
    BY <2>1 DEF SelectInv, FreshEdge, worldVars, Lives, ClientDisplays, Card, Shown
<1> QED
  BY <1>7, <1>8, <1>9, <1>10, <1>11, <1>12, <1>13, <1>14, <1>18, <1>19, <1>20, <1>21, <1>22, <1>23,
     <1>24, <1>25, <1>26, <1>27, <1>28, <1>29 DEF Next, Route

(* No boundary is crossed on an old look: when a gesture leaves a scope,   *)
(* its client was there, the same process, and displayed that scope, as    *)
(* of the call just before (validate_client, parent_scope).                *)
THEOREM EdgeIsFresh == Spec => []FreshEdge
<1>1. SelectInv => FreshEdge
  BY DEF SelectInv
<1>2. SelectInv /\ [Next]_vars => SelectInv'
  BY SelectStep
<1> QED
  BY <1>1, <1>2, SelectInit, PTL DEF Spec

-----------------------------------------------------------------------------
(* The typist.  What a client shows, who was typed into last, and what the *)
(* router has chosen so far belong to the clients the key press came       *)
(* through, as long as these are sure.                                     *)

WorldInv ==
  /\ at \in [Clients -> Sessions \cup {None}] /\ gen \in [Clients -> Nat]
  /\ cur \in [Sessions -> Windows] /\ act \in [Windows -> Panes]
  /\ \A w \in Windows : Window[act[w]] = w
  /\ typed \in [Clients -> Nat] /\ \A c \in Clients : typed[c] <= clock
  /\ clock \in Nat /\ started \in Nat

LEMMA WorldInit == Init => WorldInv
BY BoundsAssumption DEF Init, WorldInv

LEMMA WorldKept ==
  ASSUME WorldInv, [Next]_vars
  PROVE  WorldInv'
<1> USE WorldAssumption DEF WorldInv
<1>1. CASE Begin
  <2>1. ASSUME NEW a, NEW c, NEW d, NEW e, Press(c, d, a, e) PROVE WorldInv'
    <3>1. /\ typed' = [k \in Clients |-> IF k \in {c, d} THEN clock ELSE typed[k]]
          /\ UNCHANGED <<at, gen, cur, act, clock, started>>
      BY <2>1 DEF Press, boundVars
    <3>2. ASSUME NEW k \in Clients PROVE typed'[k] \in Nat /\ typed'[k] <= clock
      <4>1. typed'[k] = clock \/ typed'[k] = typed[k]
        BY <3>1
      <4> QED
        BY <4>1
    <3> QED
      BY <3>1, <3>2
  <2>2. CASE \E a \in Actions : PressOutside(a) \/ Again(a)
    <3>1. UNCHANGED <<at, gen, typed, cur, act, clock, started>>
      BY <2>2 DEF PressOutside, Again, worldVars, boundVars
    <3> QED
      BY <3>1
  <2> QED
    BY <1>1, <2>1, <2>2 DEF Begin
<1>2. CASE World
  <2>1. clock' = clock /\ started' = started
    BY <1>2 DEF World, Move
  <2>2. ASSUME NEW c \in Clients, Detach(c) \/ Reconnect(c) \/ Refocus(c) \/ Type(c) PROVE WorldInv'
    BY <2>1, <2>2 DEF Detach, Reconnect, Refocus, Type
  <2>3. ASSUME NEW c \in Clients, NEW s \in Sessions, Attach(c, s) \/ Switch(c, s) PROVE WorldInv'
    BY <2>1, <2>3 DEF Attach, Switch
  <2>4. ASSUME NEW s \in Sessions, NEW w \in Windows, SelectWindow(s, w) PROVE WorldInv'
    BY <2>1, <2>4 DEF SelectWindow
  <2>5. ASSUME NEW p \in Panes, SelectPane(p) PROVE WorldInv'
    BY <2>1, <2>5 DEF SelectPane
  <2> QED
    BY <1>2, <2>2, <2>3, <2>4, <2>5 DEF World
<1>3. CASE Tick
  BY <1>3 DEF Tick, worldVars, gestureVars
<1>4. CASE Start
  BY <1>4 DEF Start, Quiet, worldVars, boundVars
<1>5. CASE UNCHANGED <<worldVars, boundVars, gestureVars>>
  BY <1>5 DEF worldVars, boundVars, gestureVars
<1>6. CASE Stay /\ Quiet
  BY <1>5, <1>6 DEF Stay, Quiet
<1>7. CASE SelectNeighbour
  <2>1. ASSUME NEW p \in Neighbours, act' = [act EXCEPT ![Window[p]] = p], UNCHANGED <<at, gen, typed, cur>>
        PROVE  WorldInv'
    BY <1>7, <2>1 DEF SelectNeighbour, Stay, boundVars, gestureVars, Neighbours
  <2> QED
    BY <1>6, <1>7, <2>1 DEF SelectNeighbour, Refuse, Declined
<1>8. CASE SelectTab
  <2>1. ASSUME NEW w \in Linked[scope.session], cur' = [cur EXCEPT ![scope.session] = w],
               UNCHANGED <<at, gen, typed, act>>
        PROVE  WorldInv'
    <3>1. cur' \in [Sessions -> Windows]
      BY <2>1
    <3> QED
      BY <1>8, <2>1, <3>1 DEF SelectTab, Stay, boundVars, gestureVars
  <2> QED
    BY <1>6, <1>8, <2>1 DEF SelectTab, Refuse, Declined
<1>9. CASE RefreshScope \/ RefreshDisplay \/ RefreshClient \/ Admit \/ InspectScope \/ InspectClient
  BY <1>6, <1>9 DEF RefreshScope, RefreshDisplay, RefreshClient, Admit, InspectScope, InspectClient
<1>10. CASE Revisit \/ CallFails \/ MovePane \/ MoveTab \/ SwapWindow
  BY <1>5, <1>6, <1>10 DEF Revisit, CallFails, MovePane, MoveTab, SwapWindow, Refuse, Declined, Stay
<1>11. CASE Resolve \/ LookOutward \/ FindParent \/ LookRelay \/ LookTerminal
  BY <1>6, <1>11 DEF Resolve, LookOutward, FindParent, LookRelay, LookTerminal, Look
<1>12. CASE Relay \/ Terminal \/ FirstPost \/ Initialize \/ SecondPost
  BY <1>5, <1>6, <1>12 DEF Relay, Terminal, FirstPost, Initialize, SecondPost, Post, Stay
<1>13. CASE UNCHANGED vars
  BY <1>5, <1>13 DEF vars
<1> QED
  BY <1>1, <1>2, <1>3, <1>4, <1>7, <1>8, <1>9, <1>10, <1>11, <1>12, <1>13 DEF Next, Route
Displays(k, s) == at[k[1]] # None /\ Shown(at[k[1]]) = s.pane /\ s.session \in {None, at[k[1]]}
Held(k, s) == IF s.session = None THEN cur[at[k[1]]] = Window[s.pane] ELSE at[k[1]] = s.session
On(s) == \E k \in carriers : Displays(k, s)
Keeps(S) == \A s \in S : \E k \in carriers : Held(k, s)
Theirs(C) == \A x \in C : <<x.who, x.gen>> \in carriers

(* The clients of the key press are there, the same processes, focused;    *)
(* nobody else has typed later, or only after the second of the start.     *)
Present(k) == k[1] \in Clients /\ at[k[1]] # None /\ gen[k[1]] = k[2] /\ k[1] \in focus
Behind(c, k) == \/ \E j \in carriers : j[1] = c
                \/ typed[c] <= typed[k[1]]
                \/ pc # "pressed" /\ typed[c] > started
Nested == \A k \in carriers : Parent[k[1]] = None \/ Seen(Parent[k[1]])

Routed == pc \notin {"idle", "pressed"}
Within == {"redisplay", "enter", "execute", "swap", "resolve"}   \* here the scope is one they show

TypistInv ==
  /\ WorldInv
  /\ burst = 0 => ~ sure /\ last = NoResult /\ client = {} /\ pc = "idle"
  /\ burst \in Nat
  /\ carriers \subseteq Clients \X Nat
  /\ sure =>
       /\ \A k \in carriers : Present(k)
       /\ \A c \in Clients, k \in carriers : Behind(c, k)
       /\ Routed => Nested
       /\ Theirs(client) /\ Theirs(last.client) /\ Keeps(last.scope)
       /\ pc \in Within => On(scope)

LEMMA TypistInit == Init => TypistInv
<1>1. Init => WorldInv
  BY WorldInit
<1> QED
  BY <1>1 DEF Init, TypistInv, NoResult

(* What is retained of a scope they show leads back to what they show.     *)
LEMMA DisplaysHeld ==
  ASSUME WorldInv, NEW k, Present(k), NEW s, Displays(k, s)
  PROVE  Held(k, s)
<1>1. at[k[1]] \in Sessions
  BY DEF WorldInv, Present
<1>2. cur[at[k[1]]] \in Windows /\ Window[act[cur[at[k[1]]]]] = cur[at[k[1]]]
  BY <1>1 DEF WorldInv
<1> QED
  BY <1>2 DEF Displays, Held, Shown

LEMMA HeldDisplays ==
  ASSUME NEW k, Present(k), NEW s, Held(k, s)
  PROVE  Displays(k, Current(s))
BY DEF Present, Held, Displays, Current, Shown

(* Among the clients that display what one of them displays, the one that  *)
(* is chosen is one of them (choose_client).                               *)
LEMMA TypistChosen ==
  ASSUME TypistInv, sure, pc # "pressed", NEW s, On(s), NEW listed \in Listings(s.pane, s.session)
  PROVE  Theirs(ChooseClient(listed, started))
<1>1. CASE listed = {}
  BY <1>1, ChoiceIsOne DEF Theirs
<1>2. CASE listed = Displaying(s.pane, s.session)
  <2>1. PICK k \in carriers : Displays(k, s) /\ Present(k)
    BY DEF On, TypistInv
  <2> DEFINE own == Card(k[1])
             focused == {x \in listed : x.focused}
  <2>2. own \in listed /\ own.focused /\ own.who = k[1] /\ own.activity = typed[k[1]]
    BY <1>2, <2>1 DEF Displays, Present, Displaying, Attached, Card
  <2>3. own \in focused
    BY <2>2
  <2>4. \A x \in listed : \E c \in Clients : x = Card(c) /\ c \in Attached
    BY <1>2 DEF Displaying, Attached
  <2>5. ASSUME NEW c \in Clients, \E j \in carriers : j[1] = c PROVE <<Card(c).who, Card(c).gen>> \in carriers
    <3>1. PICK j \in carriers : j[1] = c /\ Present(j)
      BY <2>5 DEF TypistInv
    <3>2. j = <<c, gen[c]>>
      BY <3>1 DEF TypistInv, Present
    <3> QED
      BY <3>1, <3>2 DEF Card
  <2>6. ASSUME NEW x \in listed, x = own PROVE <<x.who, x.gen>> \in carriers
    BY <2>1, <2>5, <2>6 DEF Present
  <2>7. ASSUME NEW x \in Freshest(focused, started) PROVE <<x.who, x.gen>> \in carriers
    <3>1. x \in focused /\ Newest(focused) = {x} /\ x.activity <= started
      BY <2>7 DEF Freshest, Lone, Newest
    <3>2. PICK c \in Clients : x = Card(c)
      BY <2>4, <3>1
    <3>3. x.activity = typed[c] /\ typed[c] \in Nat /\ typed[k[1]] \in Nat
      BY <2>1, <3>2 DEF Card, TypistInv, WorldInv, Present
    <3>4. CASE \E j \in carriers : j[1] = c
      BY <2>5, <3>2, <3>4
    <3>5. CASE ~ \E j \in carriers : j[1] = c
      <4>1. typed[c] <= typed[k[1]]
        BY <2>1, <3>1, <3>3, <3>5 DEF TypistInv, Behind, WorldInv
      <4>2. own.activity <= x.activity
        BY <2>3, <3>1 DEF Newest
      <4>3. own.activity = x.activity
        BY <2>2, <3>3, <4>1, <4>2
      <4>4. own \in Newest(focused)
        BY <2>3, <3>1, <4>3 DEF Newest
      <4>5. x = own
        BY <3>1, <4>4
      <4> QED
        BY <2>6, <3>1, <4>5
    <3> QED
      BY <3>4, <3>5
  <2>8. CASE Lone(listed) # {}
    <3>1. \A x \in listed : x = own
      BY <2>2, <2>8 DEF Lone
    <3> QED
      BY <2>6, <2>8, <3>1 DEF ChooseClient, Theirs
  <2>9. CASE Lone(listed) = {} /\ Lone(focused) # {}
    <3>1. \A x \in focused : x = own
      BY <2>3, <2>9 DEF Lone
    <3>2. ChooseClient(listed, started) = focused
      BY <2>9 DEF ChooseClient
    <3> QED
      BY <2>6, <3>1, <3>2 DEF Theirs
  <2>10. CASE Lone(listed) = {} /\ Lone(focused) = {}
    <3>1. ChooseClient(listed, started) = Freshest(focused, started)
      BY <2>3, <2>10 DEF ChooseClient
    <3> QED
      BY <2>7, <3>1 DEF Theirs
  <2> QED
    BY <2>8, <2>9, <2>10
<1> QED
  BY <1>1, <1>2 DEF Listings
(* A call of the router that changes no pane and no window.                *)
Called == Routed /\ Stay /\ UNCHANGED worldVars

LEMMA CallKeeps ==
  ASSUME TypistInv, Called, pc' # "pressed",
         sure => /\ Theirs(client') /\ Theirs(last'.client) /\ Keeps(last'.scope)
                 /\ pc' \in Within => On(scope')
  PROVE  TypistInv'
<1>1. UNCHANGED <<worldVars, boundVars, carriers, sure, burst, started>>
  BY DEF Called, Stay, gestureVars
<1>2. UNCHANGED <<at, gen, focus, typed, cur, act, clock, carriers, sure, burst, started>>
  BY <1>1 DEF worldVars, boundVars
<1>3. WorldInv'
  BY <1>2 DEF TypistInv, WorldInv
<1>4. \A p : Seen(p) => Seen(p)'
  BY <1>2 DEF Seen, Shown
<1>5. burst' # 0
  BY <1>2 DEF TypistInv, Called, Routed
<1>6. ASSUME sure
      PROVE  /\ \A k \in carriers' : Present(k)'
             /\ \A c \in Clients, k \in carriers' : Behind(c, k)'
             /\ Routed' => Nested'
  <2>1. \A k \in carriers : Present(k)'
    BY <1>2, <1>6 DEF TypistInv, Present
  <2>2. \A c \in Clients, k \in carriers : Behind(c, k)'
    BY <1>2, <1>6 DEF TypistInv, Behind
  <2>3. Nested'
    BY <1>2, <1>4, <1>6 DEF TypistInv, Called, Nested
  <2> QED
    BY <1>2, <2>1, <2>2, <2>3
<1>7. ASSUME sure
      PROVE  /\ Theirs(client)' /\ Theirs(last.client)' /\ Keeps(last.scope)'
             /\ pc' \in Within => On(scope)'
  <2>1. Theirs(client)' /\ Theirs(last.client)'
    BY <1>2, <1>7 DEF Theirs
  <2>2. Keeps(last.scope)'
    BY <1>2, <1>7 DEF Keeps, Held
  <2>3. On(scope)' <=> On(scope')
    BY <1>2 DEF On, Displays, Shown
  <2> QED
    BY <1>7, <2>1, <2>2, <2>3
<1>8. burst' \in Nat /\ carriers' \subseteq Clients \X Nat
  BY <1>2 DEF TypistInv
<1> QED
  BY <1>2, <1>3, <1>5, <1>6, <1>7, <1>8 DEF TypistInv

LEMMA NothingTheirs == Theirs({}) /\ Keeps({}) /\ Theirs(NoResult.client) /\ Keeps(NoResult.scope)
BY DEF Theirs, Keeps, NoResult

(* The ends of a gesture that changed nothing they show.                   *)
LEMMA EndKeepsTypist ==
  ASSUME TypistInv, Called, NEW w, NEW C, NEW S, End(w, C, S), sure => Theirs(C) /\ Keeps(S)
  PROVE  TypistInv'
<1>1. client' = {} /\ pc' = "idle"
  BY DEF End
<1>2. (last'.client = C /\ last'.scope = S) \/ last' = NoResult
  BY DEF End
<1>3. Theirs(client') /\ (sure => Theirs(last'.client) /\ Keeps(last'.scope))
  BY <1>1, <1>2, NothingTheirs
<1> QED
  BY <1>1, <1>3, CallKeeps DEF Within

LEMMA FinishKeepsTypist ==
  ASSUME TypistInv, Called, NEW w, Finish(w)
  PROVE  TypistInv'
BY EndKeepsTypist, NothingTheirs DEF Finish

LEMMA HandledKeepsTypist ==
  ASSUME TypistInv, Called, pc \in Within, Handled
  PROVE  TypistInv'
<1>1. sure => Keeps({scope})
  BY DisplaysHeld DEF TypistInv, On, Keeps
<1>2. sure => Theirs(IF first THEN client ELSE {})
  BY NothingTheirs DEF TypistInv
<1> QED
  BY <1>1, <1>2, EndKeepsTypist DEF Handled

(* A step on within the gesture.                                           *)
LEMMA GoKeepsTypist ==
  ASSUME TypistInv, Called, NEW place \in Places \ {"idle", "pressed"}, Go(place),
         sure => Theirs(client') /\ (place \in Within => On(scope'))
  PROVE  TypistInv'
<1>1. last' = last /\ pc' = place
  BY DEF Go, endVars
<1> QED
  BY <1>1, CallKeeps DEF TypistInv

LEMMA EnterKeepsTypist ==
  ASSUME TypistInv, Called, NEW s, NEW C, NEW b, Enter(s, C, b), sure => Theirs(C) /\ On(s)
  PROVE  TypistInv'
BY GoKeepsTypist DEF Enter, Places
LEMMA DeclinedKeepsTypist ==
  ASSUME TypistInv, Called, pc \in Within, Declined
  PROVE  TypistInv'
<1>1. CASE Uncertain
  BY <1>1, FinishKeepsTypist DEF Uncertain
<1>2. CASE /\ Go(IF client # {} THEN "outward" ELSE "resolve")
           /\ UNCHANGED <<scope, client>>
  BY <1>2, GoKeepsTypist DEF Places, TypistInv
<1> QED
  BY <1>1, <1>2 DEF Declined

LEMMA ActedKeepsTypist ==
  ASSUME TypistInv, Called, pc \in Within, Acted
  PROVE  TypistInv'
BY HandledKeepsTypist, FinishKeepsTypist DEF Acted

LEMMA RefreshKeepsTypist ==
  ASSUME TypistInv, RefreshScope \/ RefreshDisplay \/ RefreshClient
  PROVE  TypistInv'
<1>1. Called
  BY DEF RefreshScope, RefreshDisplay, RefreshClient, Called, Routed, Quiet
<1>2. CASE Uncertain
  BY <1>1, <1>2, FinishKeepsTypist DEF Uncertain
<1>3. ASSUME sure, NEW s \in last.scope PROVE On(Current(s))
  BY <1>3, HeldDisplays DEF TypistInv, Keeps, On
<1>4. ASSUME sure, NEW x \in Refreshed
      PROVE  <<x.who, x.gen>> \in carriers /\ On([pane |-> x.pane, session |-> x.session])
  <2>1. PICK c \in Attached : x = Card(c) /\ \E v \in last.client : v.who = c /\ v.gen = gen[c]
    BY DEF Refreshed
  <2>2. <<c, gen[c]>> \in carriers
    BY <1>4, <2>1 DEF TypistInv, Theirs
  <2>3. x.who = c /\ x.gen = gen[c] /\ x.pane = Shown(at[c]) /\ x.session = at[c] /\ at[c] # None
    BY <2>1 DEF Card, Attached
  <2> DEFINE k == <<c, gen[c]>>
  <2>4. k[1] = c
    OBVIOUS
  <2>5. Displays(k, [pane |-> x.pane, session |-> x.session])
    BY <2>3, <2>4 DEF Displays
  <2> QED
    BY <2>2, <2>3, <2>5 DEF On
<1>5. CASE RefreshScope /\ ~ Uncertain
  <2>1. PICK s \in last.scope : IF last.client = {} THEN Enter(Current(s), {}, TRUE)
                                ELSE Go("redisplay") /\ scope' = Current(s) /\ UNCHANGED client
    BY <1>5 DEF RefreshScope
  <2>2. CASE Enter(Current(s), {}, TRUE)
    BY <1>1, <1>3, <2>2, EnterKeepsTypist, NothingTheirs
  <2>3. CASE Go("redisplay") /\ scope' = Current(s) /\ UNCHANGED client
    BY <1>1, <1>3, <2>3, GoKeepsTypist DEF Places, TypistInv
  <2> QED
    BY <2>1, <2>2, <2>3
<1>6. CASE RefreshDisplay /\ ~ Uncertain
  <2>1. PICK listed \in {Refreshed, {}} : Enter(scope, listed, TRUE)
    BY <1>6 DEF RefreshDisplay
  <2>2. sure => Theirs(listed) /\ On(scope)
    BY <1>4, <1>6 DEF RefreshDisplay, TypistInv, Theirs, Within
  <2> QED
    BY <1>1, <2>1, <2>2, EnterKeepsTypist
<1>7. CASE RefreshClient /\ ~ Uncertain
  <2>1. PICK x \in Refreshed : Enter([pane |-> x.pane, session |-> x.session], {x}, TRUE)
    BY <1>7 DEF RefreshClient
  <2>2. sure => Theirs({x}) /\ On([pane |-> x.pane, session |-> x.session])
    BY <1>4 DEF Theirs
  <2> QED
    BY <1>1, <2>1, <2>2, EnterKeepsTypist
<1> QED
  BY <1>2, <1>5, <1>6, <1>7

LEMMA InspectKeepsTypist ==
  ASSUME TypistInv, Admit \/ InspectScope \/ InspectClient \/ Resolve
  PROVE  TypistInv'
<1>1. Called
  BY DEF Admit, InspectScope, InspectClient, Resolve, Called, Routed, Quiet
<1>2. CASE Uncertain
  BY <1>1, <1>2, FinishKeepsTypist DEF Uncertain
<1>3. CASE Admit /\ ~ Uncertain
  <2>1. PICK x \in client : \E listed \in Listings(x.pane, x.session) :
           Passes(x, listed) /\ Enter([pane |-> x.pane, session |-> x.session], client, TRUE)
    BY <1>3 DEF Admit
  <2>2. Lives(x) /\ ClientDisplays(Card(x.who), x)
    BY <2>1, PassesIsLive
  <2>3. sure => Theirs(client) /\ On([pane |-> x.pane, session |-> x.session])
    <3>1. ASSUME sure PROVE <<x.who, x.gen>> \in carriers
      BY <3>1 DEF TypistInv, Theirs
    <3> DEFINE k == <<x.who, x.gen>>
    <3>2. k[1] = x.who
      OBVIOUS
    <3>3. Displays(k, [pane |-> x.pane, session |-> x.session])
      BY <2>2, <3>2 DEF Lives, ClientDisplays, Card, Displays
    <3> QED
      BY <3>1, <3>3 DEF TypistInv, On
  <2> QED
    BY <1>1, <2>1, <2>3, EnterKeepsTypist
<1>4. CASE InspectScope /\ ~ Uncertain
  <2>1. pc = "enter"
    BY <1>4 DEF InspectScope
  <2>2. PICK listed \in Listings(scope.pane, None) :
          \E s \in Known(listed, ChooseClient(listed, started)) :
          /\ Go("execute") /\ scope' = [scope EXCEPT !.session = s]
          /\ client' = IF client = {} THEN ChooseClient(listed, started) ELSE client
    BY <1>4 DEF InspectScope
  <2>s. PICK s \in Known(listed, ChooseClient(listed, started)) :
          /\ Go("execute") /\ scope' = [scope EXCEPT !.session = s]
          /\ client' = IF client = {} THEN ChooseClient(listed, started) ELSE client
    BY <2>2
  <2>3. ASSUME sure PROVE Theirs(client') /\ On(scope')
    <3> DEFINE base == [pane |-> scope.pane, session |-> None]
    <3>1. PICK k \in carriers : Displays(k, scope) /\ Present(k)
      BY <2>1, <2>3 DEF TypistInv, Within, On
    <3>2. On(base)
      BY <3>1 DEF Displays, On
    <3>3. listed \in Listings(base.pane, base.session)
      BY <2>2
    <3>4. Theirs(ChooseClient(listed, started))
      BY <2>1, <2>3, <3>2, <3>3, TypistChosen
    <3>5. ASSUME NEW j \in carriers, at[j[1]] = s, at[j[1]] # None, Shown(at[j[1]]) = scope.pane
          PROVE  On(scope')
      <4>1. scope'.session = s /\ scope'.pane = scope.pane
        BY <2>s
      <4> QED
        BY <3>5, <4>1 DEF On, Displays
    <3>6. On(scope')
      <4>1. CASE \E x \in ChooseClient(listed, started) : s = x.session
        <5>1. PICK x \in ChooseClient(listed, started) : s = x.session
          BY <4>1
        <5>2. x \in listed /\ listed # {}
          BY <5>1, ChoiceIsOne
        <5>3. PICK c \in Attached : x = Card(c) /\ Shown(at[c]) = scope.pane
          BY <5>2 DEF Listings, Displaying
        <5>4. <<c, gen[c]>> \in carriers /\ s = at[c] /\ at[c] # None
          BY <3>4, <5>1, <5>3 DEF Theirs, Card, Attached
        <5> DEFINE j == <<c, gen[c]>>
        <5>5. j[1] = c
          OBVIOUS
        <5> QED
          BY <3>5, <5>3, <5>4, <5>5
      <4>2. CASE s \in Lone({x.session : x \in listed})
        <5>1. \A x \in listed : x.session = s
          BY <4>2 DEF Lone
        <5>2. listed # {}
          BY <4>2 DEF Lone
        <5>3. Card(k[1]) \in listed
          BY <3>1, <5>2 DEF Listings, Displaying, Displays, Present, Attached
        <5>4. at[k[1]] = s
          BY <5>1, <5>3 DEF Card
        <5> QED
          BY <3>1, <3>5, <5>4 DEF Displays
      <4>3. s \in Lone({x.session : x \in listed}) \/ s \in {x.session : x \in ChooseClient(listed, started)}
        <5> DEFINE all == {x.session : x \in listed}
        <5>1. s \in IF Lone(all) # {} THEN all ELSE {x.session : x \in ChooseClient(listed, started)}
          BY <2>s DEF Known
        <5> HIDE DEF all
        <5>2. Lone(all) # {} /\ s \in all => s \in Lone(all)
          BY DEF Lone
        <5>3. s \in Lone(all) \/ s \in {x.session : x \in ChooseClient(listed, started)}
          BY <5>1, <5>2
        <5> QED
          BY <5>3 DEF all
      <4> QED
        BY <4>1, <4>2, <4>3
    <3>7. Theirs(client') 
      BY <2>s, <2>3, <3>4 DEF TypistInv
    <3> QED
      BY <3>6, <3>7
  <2> QED
    BY <1>1, <2>s, <2>3, GoKeepsTypist DEF Places
<1>5. ASSUME NEW listed \in Listings(scope.pane, scope.session), sure, pc \in {"enter", "resolve"}
      PROVE  Theirs(ChooseClient(listed, started))
  BY <1>5, TypistChosen DEF TypistInv, Within
<1>6. CASE InspectClient
  <2>1. /\ pc = "enter" /\ Go("execute") /\ scope' = scope
        /\ \/ client' = client
           \/ \E listed \in Listings(scope.pane, scope.session) : client' = ChooseClient(listed, started)
    BY <1>6 DEF InspectClient
  <2>2. sure => Theirs(client') /\ On(scope')
    BY <1>5, <2>1 DEF TypistInv, Within
  <2> QED
    BY <1>1, <2>1, <2>2, GoKeepsTypist DEF Places
<1>7. CASE Resolve /\ ~ Uncertain
  <2>1. pc = "resolve" /\ \E listed \in Listings(scope.pane, scope.session) :
           Go("outward") /\ client' = ChooseClient(listed, started)
    BY <1>7 DEF Resolve
  <2>2. sure => Theirs(client')
    BY <1>5, <2>1
  <2> QED
    BY <1>1, <2>1, <2>2, GoKeepsTypist DEF Places, Within
<1> QED
  BY <1>2, <1>3, <1>4, <1>6, <1>7

(* The second look and the way outwards: a client that lives is one of     *)
(* them, and the pane it runs in is one they show.                         *)
LEMMA OutwardKeepsTypist ==
  ASSUME TypistInv, LookOutward \/ LookRelay \/ LookTerminal \/ FindParent
  PROVE  TypistInv'
<1>1. Called
  BY DEF LookOutward, LookRelay, LookTerminal, FindParent, Look, Called, Routed, Quiet
<1>2. ASSUME NEW w, Finish(w) PROVE TypistInv'
  BY <1>1, <1>2, FinishKeepsTypist
<1>3. CASE Uncertain
  BY <1>2, <1>3 DEF Uncertain
<1>4. ASSUME NEW place \in {"ancestry", "relay", "terminal", "edge"}, Go(place), UNCHANGED routeVars
      PROVE  TypistInv'
  <2>1. client' = client /\ scope' = scope
    BY <1>4 DEF routeVars
  <2> QED
    BY <1>1, <1>4, <2>1, GoKeepsTypist DEF Places, Within, TypistInv
<1>5. CASE LookOutward \/ LookRelay \/ LookTerminal
  BY <1>2, <1>3, <1>4, <1>5 DEF LookOutward, LookRelay, LookTerminal, Look
<1>6. CASE FindParent
  <2>1. PICK x \in client :
          \/ /\ Lives(x) /\ Parent[x.who] # None
             /\ Enter([pane |-> Parent[x.who], session |-> None], {}, FALSE)
          \/ Finish("declined")
          \/ Go("edge") /\ UNCHANGED routeVars
    BY <1>6 DEF FindParent
  <2> DEFINE outer == [pane |-> Parent[x.who], session |-> None]
  <2>2. ASSUME sure, Parent[x.who] # None PROVE On(outer)
    <3> DEFINE k == <<x.who, x.gen>>
    <3>1. k \in carriers /\ k[1] = x.who
      BY <2>2 DEF TypistInv, Theirs
    <3>2. Seen(Parent[x.who])
      BY <1>6, <2>2, <3>1 DEF TypistInv, Routed, Nested, FindParent
    <3>3. PICK j \in carriers : Shown(at[j[1]]) = Parent[x.who]
      BY <3>2 DEF Seen
    <3>4. at[j[1]] # None
      BY <2>2 DEF TypistInv, Present
    <3> QED
      BY <3>3, <3>4 DEF On, Displays
  <2>3. CASE Parent[x.who] # None /\ Enter(outer, {}, FALSE)
    BY <1>1, <2>2, <2>3, EnterKeepsTypist, NothingTheirs
  <2> QED
    BY <1>2, <1>4, <2>1, <2>3
<1> QED
  BY <1>5, <1>6

(* The calls that change nothing of the sessions here.                     *)
LEMMA ScopeKeepsTypist ==
  ASSUME TypistInv, Revisit \/ CallFails \/ MovePane \/ MoveTab \/ SwapWindow
  PROVE  TypistInv'
<1>1. Called /\ pc \in Within
  BY DEF Revisit, CallFails, Trying, MovePane, MoveTab, SwapWindow, Declined, Refuse, Called, Routed, Quiet,
         Within
<1>2. ASSUME NEW w, Refuse(w) PROVE TypistInv'
  BY <1>1, <1>2, FinishKeepsTypist DEF Refuse
<1>3. CASE Declined
  BY <1>1, <1>3, DeclinedKeepsTypist
<1>4. CASE Acted
  BY <1>1, <1>4, ActedKeepsTypist
<1>5. CASE Handled
  BY <1>1, <1>5, HandledKeepsTypist
<1>6. CASE Go("swap") /\ UNCHANGED <<scope, client>>
  BY <1>1, <1>6, GoKeepsTypist DEF Places, TypistInv
<1>7. CASE MoveTab
  BY <1>3, <1>6, <1>7 DEF MoveTab
<1> QED
  BY <1>2, <1>3, <1>4, <1>5, <1>7 DEF Revisit, CallFails, MovePane, SwapWindow

LEMMA EdgeKeepsTypist ==
  ASSUME TypistInv, Relay \/ Terminal \/ FirstPost \/ Initialize \/ SecondPost
  PROVE  TypistInv'
<1>1. Called
  BY DEF Relay, Terminal, FirstPost, Initialize, SecondPost, Post, Called, Routed, Quiet
<1>2. CASE Finish("error")
  BY <1>1, <1>2, FinishKeepsTypist
<1>3. CASE End("handled", client, {})
  BY <1>1, <1>3, EndKeepsTypist, NothingTheirs DEF TypistInv
<1>4. ASSUME NEW place \in {"last", "post", "initialize", "repost"}, Go(place), UNCHANGED routeVars
      PROVE  TypistInv'
  <2>1. client' = client /\ scope' = scope
    BY <1>4 DEF routeVars
  <2> QED
    BY <1>1, <1>4, <2>1, GoKeepsTypist DEF Places, Within, TypistInv
<1> QED
  BY <1>2, <1>3, <1>4 DEF Relay, Terminal, FirstPost, Initialize, SecondPost, Post

(* A tmux that selects a pane or a window leaves every client in the       *)
(* session and the window the retained scope leads back to.                *)
LEMMA SelectionKeepsTypist ==
  ASSUME TypistInv, WorldInv', Routed, pc \in Within, Stay, UNCHANGED <<at, gen, focus, typed>>, Acted,
         \A k, s : s = scope /\ Present(k) /\ Held(k, s) => Held(k, s)'
  PROVE  TypistInv'
<1>1. client' = {} /\ pc' = "idle" /\ burst' = burst /\ carriers' = carriers /\ sure' = sure
  BY DEF Acted, Handled, Finish, End, Stay, gestureVars
<1>2. \/ last' = [client |-> IF first THEN client ELSE {}, scope |-> {scope}]
      \/ last' = NoResult
  BY DEF Acted, Handled, Finish, End
<1>3. ASSUME sure
      PROVE  (\A k \in carriers : Present(k)') /\ (\A c \in Clients, k \in carriers : Behind(c, k)')
  <2>1. \A k \in carriers : Present(k)'
    BY <1>3 DEF TypistInv, Present
  <2>2. ASSUME NEW c \in Clients, NEW k \in carriers PROVE Behind(c, k)'
    <3>1. started' = started
      BY DEF Stay, gestureVars
    <3> QED
      BY <1>1, <1>3, <3>1 DEF TypistInv, Behind
  <2> QED
    BY <2>1, <2>2
<1>4. ASSUME sure PROVE Theirs(last.client)' /\ Keeps(last.scope)' /\ Theirs(client)'
  <2>s. PICK s : s = scope
    OBVIOUS
  <2>1. PICK k \in carriers : s = scope /\ Present(k) /\ Held(k, s)
    BY <1>4, <2>s, DisplaysHeld DEF TypistInv, On
  <2>2. Held(k, s)'
    BY <2>1
  <2>3. CASE last' = NoResult
    BY <1>1, <2>3 DEF Theirs, Keeps, NoResult
  <2>4. CASE last' = [client |-> IF first THEN client ELSE {}, scope |-> {scope}]
    <3>1. Theirs(last.client)' /\ Theirs(client)'
      BY <1>1, <1>4, <2>4 DEF TypistInv, Theirs
    <3>2. \A r \in last'.scope : r = s
      BY <2>1, <2>4
    <3> QED
      BY <1>1, <2>1, <2>2, <3>1, <3>2 DEF Keeps
  <2> QED
    BY <1>2, <2>3, <2>4
<1>5. burst' # 0 /\ burst' \in Nat
  BY <1>1 DEF TypistInv, Routed
<1> QED
  BY <1>1, <1>3, <1>4, <1>5 DEF TypistInv, Routed, Within

LEMMA NeighbourKeepsTypist ==
  ASSUME TypistInv, WorldInv', SelectNeighbour
  PROVE  TypistInv'
<1>1. Routed /\ Stay /\ pc \in Within
  BY DEF SelectNeighbour, Trying, Routed, Within
<1>2. CASE Refuse("error")
  BY <1>1, <1>2, FinishKeepsTypist DEF Refuse, Called, Quiet
<1>3. CASE Declined
  BY <1>1, <1>3, DeclinedKeepsTypist DEF Declined, Called, Quiet
<1>4. CASE UNCHANGED <<at, gen, focus, typed, cur>> /\ Acted
  <2>1. \A k, s : Held(k, s) => Held(k, s)'
    BY <1>4 DEF Held
  <2> QED
    BY <1>1, <1>4, <2>1, SelectionKeepsTypist
<1> QED
  BY <1>2, <1>3, <1>4 DEF SelectNeighbour

LEMMA TabKeepsTypist ==
  ASSUME TypistInv, WorldInv', SelectTab
  PROVE  TypistInv'
<1>1. Routed /\ Stay /\ pc \in Within
  BY DEF SelectTab, Trying, Routed, Within
<1>2. CASE Refuse("error")
  BY <1>1, <1>2, FinishKeepsTypist DEF Refuse, Called, Quiet
<1>3. CASE Declined
  BY <1>1, <1>3, DeclinedKeepsTypist DEF Declined, Called, Quiet
<1>4. ASSUME NEW w, cur' = [cur EXCEPT ![scope.session] = w], UNCHANGED <<at, gen, focus, typed, act>>, Acted
      PROVE  TypistInv'
  <2>1. ASSUME NEW k, NEW s, s = scope, Present(k), Held(k, s) PROVE Held(k, s)'
    <3>1. CASE scope.session = None
      <4>1. at[k[1]] \in Sessions /\ at[k[1]] # scope.session
        BY <2>1, <3>1 DEF Present, TypistInv, WorldInv
      <4>2. cur'[at[k[1]]] = cur[at[k[1]]]
        BY <1>4, <4>1 DEF TypistInv, WorldInv
      <4> QED
        BY <1>4, <2>1, <3>1, <4>2 DEF Held
    <3>2. CASE scope.session # None
      BY <1>4, <2>1, <3>2 DEF Held
    <3> QED
      BY <3>1, <3>2
  <2> QED
    BY <1>1, <1>4, <2>1, SelectionKeepsTypist
<1> QED
  BY <1>2, <1>3, <1>4 DEF SelectTab

(* A key press starts with the clients it came through; a later one of the *)
(* burst may only count on them if no rival has typed later.               *)
LEMMA PressKeepsTypist ==
  ASSUME TypistInv, WorldInv', NEW a, NEW c, NEW d, NEW e, Press(c, d, a, e)
  PROVE  TypistInv'
<1>1. /\ c \in Attached /\ d \in Attached /\ burst = 0
      /\ pc' = "pressed" /\ burst' = 1 /\ last' = last
      /\ UNCHANGED <<at, gen, focus, clock>>
  BY DEF Press, Carry, endVars, boundVars
<1>2. carriers' = {<<c, gen[c]>>, <<d, gen[d]>>}
  BY DEF Press
<1>3. typed' = [k \in Clients |-> IF k \in {c, d} THEN clock ELSE typed[k]]
  BY DEF Press
<1>4. last = NoResult
  BY <1>1 DEF TypistInv
<1>5. client' = {} \/ \E x : client' = {x} /\ x.who = c /\ x.gen = gen[c]
  BY DEF Press, Card
<1>6. sure' => c \in focus /\ d \in focus
  BY DEF Press
<1>7. c \in Clients /\ d \in Clients /\ at[c] # None /\ at[d] # None
  BY <1>1 DEF Attached
<1>8. ASSUME NEW k \in carriers', sure' PROVE Present(k)'
  BY <1>1, <1>2, <1>6, <1>7, <1>8 DEF Present
<1>9. ASSUME NEW x \in Clients, NEW k \in carriers' PROVE Behind(x, k)'
  <2>1. k[1] \in {c, d} /\ typed'[k[1]] = clock
    BY <1>2, <1>3, <1>7
  <2>2. typed'[x] <= clock
    BY <1>1 DEF WorldInv
  <2> QED
    BY <2>1, <2>2 DEF Behind
<1>10. Theirs(client)' /\ Theirs(last.client)' /\ Keeps(last.scope)'
  BY <1>1, <1>2, <1>4, <1>5 DEF Theirs, Keeps, NoResult
<1>11. carriers' \subseteq Clients \X Nat
  BY <1>2, <1>7 DEF TypistInv, WorldInv
<1> QED
  BY <1>1, <1>8, <1>9, <1>10, <1>11 DEF TypistInv, Routed, Within

LEMMA BeginKeepsTypist ==
  ASSUME TypistInv, WorldInv', Begin
  PROVE  TypistInv'
<1>1. ASSUME NEW a, PressOutside(a) PROVE TypistInv'
  <2>1. ~ sure' /\ pc' = "pressed" /\ burst' = 1 /\ carriers' = carriers
    BY <1>1 DEF PressOutside, TypistInv
  <2> QED
    BY <2>1 DEF TypistInv
<1>2. ASSUME NEW a, Again(a) PROVE TypistInv'
  <2>1. /\ pc' = "pressed" /\ burst' = burst + 1 /\ burst \in 1 .. MaxBurst - 1
        /\ UNCHANGED <<at, gen, focus, typed, cur, act, carriers, client, last, clock, started>>
    BY <1>2 DEF Again, worldVars, boundVars, routeVars, endVars
  <2>2. sure' => sure /\ \A c \in Clients, k \in carriers : <<c, gen[c]>> \in carriers \/ typed[c] <= typed[k[1]]
    BY <1>2 DEF Again
  <2>3. ASSUME sure'
        PROVE  (\A k \in carriers : Present(k)') /\ (\A c \in Clients, k \in carriers : Behind(c, k)')
    <3>1. \A k \in carriers : Present(k)'
      BY <2>1, <2>2, <2>3 DEF TypistInv, Present
    <3>2. ASSUME NEW c \in Clients, NEW k \in carriers PROVE Behind(c, k)'
      <4>1. CASE <<c, gen[c]>> \in carriers
        <5> DEFINE j == <<c, gen[c]>>
        <5>1. j \in carriers /\ j[1] = c
          BY <4>1
        <5> QED
          BY <2>1, <5>1 DEF Behind
      <4>2. CASE typed[c] <= typed[k[1]]
        BY <2>1, <4>2 DEF Behind
      <4> QED
        BY <2>2, <2>3, <4>1, <4>2
    <3> QED
      BY <3>1, <3>2
  <2>4. sure' => Theirs(client)' /\ Theirs(last.client)' /\ Keeps(last.scope)'
    BY <2>1, <2>2 DEF TypistInv, Theirs, Keeps, Held
  <2>5. burst' # 0 /\ burst' \in Nat
    BY <2>1, BoundsAssumption
  <2> QED
    BY <2>1, <2>3, <2>4, <2>5 DEF TypistInv, Routed, Within
<1> QED
  BY <1>1, <1>2, PressKeepsTypist DEF Begin

LEMMA TickKeepsTypist ==
  ASSUME TypistInv, WorldInv', Tick \/ UNCHANGED vars
  PROVE  TypistInv'
<1>1. UNCHANGED <<at, gen, focus, typed, cur, act, started, burst, carriers, sure, scope, client, last, pc>>
  BY DEF Tick, vars, worldVars, gestureVars, routeVars, endVars
<1>2. sure =>
       /\ \A k \in carriers : Present(k)'
       /\ \A c \in Clients, k \in carriers : Behind(c, k)'
  BY <1>1 DEF TypistInv, Present, Behind
<1>3. sure => (Routed' => Nested')
  BY <1>1 DEF TypistInv, Routed, Nested, Seen, Shown
<1>4. sure => Theirs(client)' /\ Theirs(last.client)' /\ Keeps(last.scope)'
  BY <1>1 DEF TypistInv, Theirs, Keeps, Held
<1>5. sure /\ pc' \in Within => On(scope)'
  BY <1>1 DEF TypistInv, On, Displays, Shown
<1> QED
  BY <1>1, <1>2, <1>3, <1>4, <1>5 DEF TypistInv

LEMMA StartKeepsTypist ==
  ASSUME TypistInv, WorldInv', Start
  PROVE  TypistInv'
<1>1. /\ pc = "pressed" /\ burst' = burst /\ burst # 0
      /\ UNCHANGED <<at, gen, focus, typed, cur, act, carriers>>
  BY DEF Start, Quiet, worldVars, TypistInv
<1>2. sure' => sure /\ Nested /\ (pc' = "enter" => Seen(origin))
  BY DEF Start, Nested
<1>3. sure => \A k \in carriers : Present(k)'
  BY <1>1 DEF TypistInv, Present
<1>4. sure => \A c \in Clients, k \in carriers : Behind(c, k)'
  BY <1>1 DEF TypistInv, Behind
<1>5. sure' => Nested'
  BY <1>1, <1>2 DEF Nested, Seen, Shown
<1>6. \/ Enter([pane |-> origin, session |-> None], {}, TRUE)
      \/ Finish("declined")
      \/ /\ pc' \in {"rescope", "reclient", "admit", "terminal", "outward"}
         /\ client' = client /\ last' = last
  BY DEF Start, Go, endVars
<1>7. /\ client' \in {client, {}} /\ last' \in {last, NoResult} /\ pc' # "pressed"
      /\ pc' \in Within => pc' = "enter" /\ scope' = [pane |-> origin, session |-> None]
  BY <1>6 DEF Enter, Finish, End, Go, endVars, Within
<1>8. sure => Theirs(client)' /\ Theirs(last.client)' /\ Keeps(last.scope)'
  BY <1>1, <1>7 DEF TypistInv, Theirs, Keeps, Held, NoResult
<1>9. sure' /\ pc' \in Within => On(scope)'
  <2>1. ASSUME sure', pc' \in Within PROVE On(scope)'
    <3>1. PICK k \in carriers : Shown(at[k[1]]) = origin
      BY <1>2, <1>7, <2>1 DEF Seen
    <3>2. at[k[1]] # None
      BY <1>2, <2>1 DEF TypistInv, Present
    <3> QED
      BY <1>1, <1>7, <2>1, <3>1, <3>2 DEF On, Displays, Shown
  <2> QED
    BY <2>1
<1> QED
  BY <1>1, <1>2, <1>3, <1>4, <1>5, <1>8, <1>9 DEF TypistInv

(* The rest of the world may do what it likes: as long as the claim stays  *)
(* sure it moves none of the clients, shows them nothing else and lets no  *)
(* rival type before the second of the start is over.                      *)
LEMMA WorldKeepsTypist ==
  ASSUME TypistInv, WorldInv', World
  PROVE  TypistInv'
<1>1. /\ pc # "idle"
      /\ UNCHANGED <<clock, started, burst, carriers, scope, client, last, pc>>
  BY DEF World, Move, routeVars, endVars
<1>2. \A c \in Clients : typed'[c] \in {typed[c], clock}
  <2>1. UNCHANGED typed \/ \E c \in Clients : typed' = [typed EXCEPT ![c] = clock]
    BY DEF World, Detach, Reconnect, Attach, Switch, Refocus, Type, SelectWindow, SelectPane
  <2> QED
    BY <2>1 DEF TypistInv, WorldInv
<1>3. sure' => /\ sure
               /\ \A k \in carriers : ~ Displaced(k[1]) /\ k[1] \in focus'
               /\ \A c \in Clients : Rival(c) => typed'[c] = typed[c]
  BY DEF World
<1>4. ASSUME sure', NEW k \in carriers
      PROVE  /\ Present(k) /\ Present(k)'
             /\ UNCHANGED <<at[k[1]], Shown(at[k[1]]), cur[at[k[1]]]>>
  <2>1. Present(k)
    BY <1>3, <1>4 DEF TypistInv
  <2>2. /\ at'[k[1]] = at[k[1]] /\ gen'[k[1]] = gen[k[1]] /\ k[1] \in focus'
        /\ act'[cur'[at[k[1]]]] = act[cur[at[k[1]]]]
    BY <1>3, <1>4, <2>1 DEF Displaced, Present, Shown
  <2>3. at[k[1]] \in Sessions
    BY <2>1 DEF TypistInv, WorldInv, Present
  <2>4. /\ cur[at[k[1]]] \in Windows /\ Window[act[cur[at[k[1]]]]] = cur[at[k[1]]]
        /\ cur'[at[k[1]]] \in Windows /\ Window[act'[cur'[at[k[1]]]]] = cur'[at[k[1]]]
    BY <2>3 DEF TypistInv, WorldInv
  <2> QED
    BY <2>1, <2>2, <2>4 DEF Present, Shown
<1>5. ASSUME sure', NEW c \in Clients, NEW k \in carriers PROVE Behind(c, k)'
  <2>1. Behind(c, k) /\ k[1] \in Clients
    BY <1>3, <1>5 DEF TypistInv, Present
  <2>2. typed'[k[1]] >= typed[k[1]] /\ typed[k[1]] \in Nat /\ typed[c] \in Nat
        /\ typed'[k[1]] \in Nat /\ typed'[c] \in {typed[c], clock} /\ typed[c] <= clock
    BY <1>2, <2>1 DEF TypistInv, WorldInv
  <2>3. CASE \E j \in carriers : j[1] = c
    BY <1>1, <2>3 DEF Behind
  <2>4. CASE Rival(c)
    <3>1. typed'[c] = typed[c]
      BY <1>3, <1>5, <2>4
    <3> QED
      BY <1>1, <2>1, <2>2, <3>1 DEF Behind, TypistInv, WorldInv
  <2>5. CASE ~ Rival(c) /\ ~ \E j \in carriers : j[1] = c
    <3>1. pc # "pressed" /\ clock > started
      BY <2>5 DEF Rival, TypistInv, WorldInv
    <3> QED
      BY <1>1, <2>1, <2>2, <3>1 DEF Behind, TypistInv, WorldInv
  <2> QED
    BY <2>3, <2>4, <2>5
<1>6. sure' /\ Routed' => Nested'
  <2>1. ASSUME sure', Routed, NEW p, Seen(p) PROVE Seen(p)'
    BY <1>1, <1>4, <2>1 DEF Seen
  <2> QED
    BY <1>1, <1>3, <2>1 DEF TypistInv, Nested, Routed
<1>7. ASSUME sure' PROVE Theirs(client)' /\ Theirs(last.client)' /\ Keeps(last.scope)'
  <2>1. ASSUME NEW k \in carriers, NEW s, Held(k, s) PROVE Held(k, s)'
    BY <1>4, <1>7, <2>1 DEF Held
  <2> QED
    BY <1>1, <1>3, <1>7, <2>1 DEF TypistInv, Theirs, Keeps
<1>8. ASSUME sure', pc' \in Within PROVE On(scope)'
  <2>1. ASSUME NEW k \in carriers, NEW s, Displays(k, s) PROVE Displays(k, s)'
    BY <1>4, <1>8, <2>1 DEF Displays
  <2> QED
    BY <1>1, <1>3, <1>8, <2>1 DEF TypistInv, On
<1> QED
  BY <1>1, <1>3, <1>4, <1>5, <1>6, <1>7, <1>8 DEF TypistInv

LEMMA TypistStep ==
  ASSUME TypistInv, [Next]_vars
  PROVE  TypistInv'
<1>1. WorldInv'
  BY WorldKept DEF TypistInv
<1>2. CASE Begin
  BY <1>1, <1>2, BeginKeepsTypist
<1>3. CASE World
  BY <1>1, <1>3, WorldKeepsTypist
<1>4. CASE Tick \/ UNCHANGED vars
  BY <1>1, <1>4, TickKeepsTypist
<1>5. CASE Start
  BY <1>1, <1>5, StartKeepsTypist
<1>6. CASE RefreshScope \/ RefreshDisplay \/ RefreshClient
  BY <1>6, RefreshKeepsTypist
<1>7. CASE Admit \/ InspectScope \/ InspectClient \/ Resolve
  BY <1>7, InspectKeepsTypist
<1>8. CASE LookOutward \/ LookRelay \/ LookTerminal \/ FindParent
  BY <1>8, OutwardKeepsTypist
<1>9. CASE Revisit \/ CallFails \/ MovePane \/ MoveTab \/ SwapWindow
  BY <1>9, ScopeKeepsTypist
<1>10. CASE SelectNeighbour
  BY <1>1, <1>10, NeighbourKeepsTypist
<1>11. CASE SelectTab
  BY <1>1, <1>11, TabKeepsTypist
<1>12. CASE Relay \/ Terminal \/ FirstPost \/ Initialize \/ SecondPost
  BY <1>12, EdgeKeepsTypist
<1> QED
  BY <1>2, <1>3, <1>4, <1>5, <1>6, <1>7, <1>8, <1>9, <1>10, <1>11, <1>12 DEF Next, Route

(* A gesture acts where its typist is, and leaves only through a client of *)
(* the key press, whatever other users of the same sessions do meanwhile   *)
(* (resolve_client, enter_scope, route).                                   *)
THEOREM TypistActs == Spec => TypistOnly
<1> DEFINE Act == sure /\ count' > count =>
                    IF pc \in {"execute", "swap"}
                    THEN \E k \in carriers : Card(k[1]) \in Displaying(scope.pane, scope.session)
                    ELSE \A x \in client : <<x.who, x.gen>> \in carriers
<1>1. TypistInv => Act
  <2> SUFFICES ASSUME TypistInv, sure
               PROVE  IF pc \in {"execute", "swap"}
                      THEN \E k \in carriers : Card(k[1]) \in Displaying(scope.pane, scope.session)
                      ELSE \A x \in client : <<x.who, x.gen>> \in carriers
    OBVIOUS
  <2>1. CASE pc \in {"execute", "swap"}
    <3>1. PICK k \in carriers : Displays(k, scope) /\ Present(k)
      BY <2>1 DEF TypistInv, Within, On
    <3>2. Card(k[1]) \in Displaying(scope.pane, scope.session)
      BY <3>1 DEF Displays, Present, Displaying, Attached
    <3> QED
      BY <2>1, <3>2
  <2>2. CASE pc \notin {"execute", "swap"}
    BY <2>2 DEF TypistInv, Theirs
  <2> QED
    BY <2>1, <2>2
<1>2. TypistInv /\ [Next]_vars => TypistInv'
  BY TypistStep
<1>3. Init => TypistInv
  BY TypistInit
<1> HIDE DEF Act
<1>4. Spec => [][Act]_vars
  BY <1>1, <1>2, <1>3, PTL DEF Spec
<1> QED
  BY <1>4 DEF Act, TypistOnly
-----------------------------------------------------------------------------
(* Types.  A scope that is being tried is a pane with or without a session *)
(* and never the blank one; a gesture from a shell has a pane.             *)
RouteTypes ==
  /\ focus \subseteq Clients /\ left \in Nat
  /\ pc \in Places /\ action \in Actions /\ entry \in Entries /\ origin \in Panes \cup {None}
  /\ scope \in Scopes \cup {NoScope} /\ visited \subseteq Panes
  /\ client \subseteq Cards
  /\ first \in BOOLEAN /\ inspected \in BOOLEAN /\ sure \in BOOLEAN /\ moved \in BOOLEAN
  /\ outcome \in Outcomes
  /\ last.client \subseteq Cards /\ last.scope \subseteq Scopes
  /\ carriers \subseteq Clients \X Nat
RouteInv ==
  /\ WorldInv /\ RouteTypes
  /\ pc \in Within => scope \in Scopes
  /\ entry = "shell" /\ burst # 0 => origin \in Panes
  /\ pc # "idle" => burst # 0

LEMMA RouteInit == Init => RouteInv
<1>1. Init => WorldInv
  BY WorldInit
<1>2. Init => RouteTypes
  <2> SUFFICES ASSUME Init PROVE RouteTypes
    OBVIOUS
  <2>1. last.client = {} /\ last.scope = {}
    BY DEF Init, NoResult
  <2>2. /\ focus \subseteq Clients /\ left \in Nat /\ origin = None /\ scope = NoScope /\ visited = {} /\ client = {}
        /\ carriers = {} /\ first = FALSE /\ inspected = FALSE /\ sure = FALSE /\ moved = FALSE
    BY BoundsAssumption DEF Init
  <2>3. pc \in Places /\ action \in Actions /\ entry \in Entries /\ outcome \in Outcomes
    BY DEF Init, Places, Actions, Entries, Outcomes
  <2> QED
    BY <2>1, <2>2, <2>3 DEF RouteTypes
<1>3. Init => pc = "idle" /\ burst = 0
  BY DEF Init
<1> QED
  BY <1>1, <1>2, <1>3 DEF RouteInv, Within

(* What tmux lists are cards, and so is what is chosen among them.         *)
LEMMA ListedAreCards ==
  ASSUME WorldInv, NEW p, NEW s, NEW listed \in Listings(p, s)
  PROVE  /\ listed \subseteq Cards
         /\ \A x \in listed : x.session \in Sessions
         /\ \A t : ChooseClient(listed, t) \subseteq listed
<1>1. ASSUME NEW c \in Attached PROVE Card(c) \in Cards /\ Card(c).session \in Sessions
  <2>1. c \in Clients /\ at[c] \in Sessions
    BY <1>1 DEF Attached, WorldInv
  <2>2. Shown(at[c]) \in Panes /\ gen[c] \in Nat /\ typed[c] \in Nat /\ (c \in focus) \in BOOLEAN
    BY <2>1 DEF Shown, WorldInv
  <2> QED
    BY <2>1, <2>2 DEF Card, Cards
<1>2. \A x \in listed : \E c \in Attached : x = Card(c)
  BY DEF Listings, Displaying
<1> QED
  BY <1>1, <1>2, ChoiceIsOne

LEMMA RefreshedAreCards ==
  ASSUME WorldInv
  PROVE  Refreshed \subseteq Cards
<1>1. ASSUME NEW c \in Attached PROVE Card(c) \in Cards
  <2>1. Card(c) \in Displaying(Shown(at[c]), None)
    BY <1>1 DEF Displaying
  <2> QED
    BY <2>1, ListedAreCards DEF Listings
<1> QED
  BY <1>1 DEF Refreshed

(* A step of the router, by what it does to its own state.                 *)
StepIs == Routed /\ Stay /\ WorldInv' /\ focus' = focus

LEMMA StayTypes ==
  ASSUME RouteInv, StepIs,
         pc' \in Places, scope' \in Scopes \cup {NoScope}, pc' \in Within => scope' \in Scopes,
         client' \subseteq Cards, first' \in BOOLEAN, inspected' \in BOOLEAN, visited' \subseteq Panes,
         outcome' \in Outcomes, last'.client \subseteq Cards, last'.scope \subseteq Scopes
  PROVE  RouteInv'
<1>1. UNCHANGED <<left, action, entry, origin, burst, carriers, sure>> /\ moved' = FALSE
  BY DEF StepIs, Stay, boundVars, gestureVars
<1>2. burst # 0
  BY DEF RouteInv, StepIs, Routed
<1>3. RouteTypes'
  BY <1>1 DEF RouteInv, RouteTypes, StepIs
<1> QED
  BY <1>1, <1>2, <1>3 DEF RouteInv, StepIs

LEMMA EndTypes ==
  ASSUME RouteInv, StepIs, NEW w \in Outcomes, NEW C \in SUBSET Cards, NEW S \in SUBSET Scopes, End(w, C, S)
  PROVE  RouteInv'
<1>1. /\ pc' = "idle" /\ outcome' = w /\ scope' = NoScope /\ client' = {}
      /\ first' = FALSE /\ inspected' = FALSE /\ visited' = {}
      /\ last' = [client |-> C, scope |-> S] \/ last' = [client |-> {}, scope |-> {}]
  BY DEF End, NoResult
<1>2. last'.client \subseteq Cards /\ last'.scope \subseteq Scopes
  BY <1>1
<1> QED
  BY <1>1, <1>2, StayTypes DEF Places, Within

LEMMA FinishTypes ==
  ASSUME RouteInv, StepIs, NEW w \in Outcomes, Finish(w)
  PROVE  RouteInv'
BY EndTypes DEF Finish

LEMMA UncertainTypes ==
  ASSUME RouteInv, StepIs, Uncertain
  PROVE  RouteInv'
BY FinishTypes DEF Uncertain, Outcomes

LEMMA HandledTypes ==
  ASSUME RouteInv, StepIs, pc \in Within, Handled
  PROVE  RouteInv'
BY EndTypes DEF Handled, RouteInv, RouteTypes, Outcomes

LEMMA ActedTypes ==
  ASSUME RouteInv, StepIs, pc \in Within, Acted
  PROVE  RouteInv'
BY HandledTypes, FinishTypes DEF Acted, Outcomes

LEMMA GoTypes ==
  ASSUME RouteInv, StepIs, NEW place \in Places, Go(place), place \in Within => scope' \in Scopes,
         scope' \in Scopes \cup {scope}, client' \subseteq Cards, visited' \subseteq Panes,
         first' \in BOOLEAN, inspected' \in BOOLEAN
  PROVE  RouteInv'
<1>1. pc' = place /\ outcome' = outcome /\ last' = last
  BY DEF Go, endVars
<1> QED
  BY <1>1, StayTypes DEF RouteInv, RouteTypes

LEMMA MoveOnTypes ==
  ASSUME RouteInv, StepIs, NEW place \in Places, Go(place), place \notin Within, UNCHANGED routeVars
  PROVE  RouteInv'
<1>1. UNCHANGED <<scope, client, first, inspected, visited>>
  BY DEF routeVars
<1> QED
  BY <1>1, GoTypes DEF RouteInv, RouteTypes

LEMMA EnterTypes ==
  ASSUME RouteInv, StepIs, NEW s \in Scopes, NEW C \in SUBSET Cards, NEW b \in BOOLEAN, Enter(s, C, b),
         visited' = visited
  PROVE  RouteInv'
BY GoTypes DEF Enter, Places, RouteInv, RouteTypes

LEMMA DeclinedTypes ==
  ASSUME RouteInv, StepIs, pc \in Within, Declined
  PROVE  RouteInv'
<1>1. CASE Uncertain
  BY <1>1, UncertainTypes
<1>2. ASSUME NEW place \in {"outward", "resolve"}, Go(place), visited' = visited \cup {scope.pane},
             UNCHANGED <<scope, client, first, inspected>>
      PROVE  RouteInv'
  <2>1. scope \in Scopes /\ scope.pane \in Panes
    BY DEF RouteInv, Scopes
  <2> QED
    BY <1>2, <2>1, GoTypes DEF RouteInv, RouteTypes, Places
<1> QED
  BY <1>1, <1>2 DEF Declined

LEMMA TmuxTypes ==
  ASSUME RouteInv, WorldInv',
         Revisit \/ CallFails \/ SelectNeighbour \/ MovePane \/ SelectTab \/ MoveTab \/ SwapWindow
  PROVE  RouteInv'
<1>1. StepIs /\ pc \in Within
  BY DEF Revisit, CallFails, SelectNeighbour, MovePane, SelectTab, MoveTab, SwapWindow, Trying, StepIs, Routed,
         Within, Refuse, Declined, Quiet, worldVars
<1>2. ASSUME Refuse("error") PROVE RouteInv'
  BY <1>1, <1>2, FinishTypes DEF Refuse, Outcomes
<1>3. ASSUME Declined PROVE RouteInv'
  BY <1>1, <1>3, DeclinedTypes
<1>4. ASSUME Acted PROVE RouteInv'
  BY <1>1, <1>4, ActedTypes
<1>5. ASSUME Handled PROVE RouteInv'
  BY <1>1, <1>5, HandledTypes
<1>6. ASSUME Go("swap"), visited' = visited \cup {scope.pane}, UNCHANGED <<scope, client, first, inspected>>
      PROVE  RouteInv'
  <2>1. scope \in Scopes /\ scope.pane \in Panes
    BY <1>1 DEF RouteInv, Scopes
  <2> QED
    BY <1>1, <1>6, <2>1, GoTypes DEF RouteInv, RouteTypes, Places
<1>7. CASE Revisit \/ CallFails
  BY <1>2, <1>7 DEF Revisit, CallFails
<1>8. CASE SelectNeighbour
  BY <1>2, <1>3, <1>4, <1>8 DEF SelectNeighbour
<1>9. CASE MovePane
  BY <1>3, <1>4, <1>9 DEF MovePane
<1>10. CASE SelectTab
  BY <1>2, <1>3, <1>4, <1>10 DEF SelectTab
<1>11. CASE MoveTab
  BY <1>3, <1>6, <1>11 DEF MoveTab
<1>12. CASE SwapWindow
  BY <1>2, <1>4, <1>5, <1>12 DEF SwapWindow
<1> QED
  BY <1>7, <1>8, <1>9, <1>10, <1>11, <1>12

LEMMA EntryTypes ==
  ASSUME RouteInv, WorldInv',
         RefreshScope \/ RefreshDisplay \/ RefreshClient \/ Admit \/ InspectScope \/ InspectClient \/ Resolve
  PROVE  RouteInv'
<1>1. StepIs
  BY DEF RefreshScope, RefreshDisplay, RefreshClient, Admit, InspectScope, InspectClient, Resolve,
         StepIs, Routed, Quiet, worldVars
<1>2. ASSUME Uncertain PROVE RouteInv'
  BY <1>1, <1>2, UncertainTypes
<1>3. Refreshed \subseteq Cards /\ client \subseteq Cards /\ visited \subseteq Panes
      /\ inspected \in BOOLEAN /\ first \in BOOLEAN
  BY RefreshedAreCards DEF RouteInv, RouteTypes
<1>4. ASSUME NEW x \in Cards PROVE [pane |-> x.pane, session |-> x.session] \in Scopes
  BY DEF Cards, Scopes
<1>5. CASE RefreshScope /\ ~ Uncertain
  <2>1. PICK s \in last.scope : IF last.client = {} THEN Enter(Current(s), {}, TRUE)
                                ELSE Go("redisplay") /\ scope' = Current(s) /\ UNCHANGED <<client, first, inspected>>
    BY <1>5 DEF RefreshScope
  <2>2. visited' = visited
    BY <1>5 DEF RefreshScope
  <2>3. Current(s) \in Scopes
    <3>1. s \in Scopes
      BY DEF RouteInv, RouteTypes
    <3>2. CASE s.session = None
      BY <3>1, <3>2, WorldAssumption DEF Scopes, Current, RouteInv, WorldInv
    <3>3. CASE s.session # None
      <4>1. s.session \in Sessions
        BY <3>1, <3>3 DEF Scopes
      <4>2. Shown(s.session) \in Panes
        BY <4>1 DEF Shown, RouteInv, WorldInv
      <4> QED
        BY <3>1, <3>3, <4>2 DEF Scopes, Current
    <3> QED
      BY <3>2, <3>3
  <2>4. CASE Enter(Current(s), {}, TRUE)
    BY <1>1, <2>2, <2>3, <2>4, EnterTypes
  <2>5. CASE Go("redisplay") /\ scope' = Current(s) /\ UNCHANGED <<client, first, inspected>>
    BY <1>1, <1>3, <2>2, <2>3, <2>5, GoTypes DEF Places
  <2> QED
    BY <2>1, <2>4, <2>5
<1>6. CASE RefreshDisplay /\ ~ Uncertain
  <2>1. PICK listed \in {Refreshed, {}} : Enter(scope, listed, TRUE) /\ visited' = visited
    BY <1>6 DEF RefreshDisplay
  <2>2. scope \in Scopes
    BY <1>6 DEF RefreshDisplay, RouteInv, Within
  <2> QED
    BY <1>1, <1>3, <2>1, <2>2, EnterTypes
<1>7. CASE RefreshClient /\ ~ Uncertain
  <2>1. PICK x \in Refreshed : Enter([pane |-> x.pane, session |-> x.session], {x}, TRUE) /\ visited' = visited
    BY <1>7 DEF RefreshClient
  <2> QED
    BY <1>1, <1>3, <1>4, <2>1, EnterTypes
<1>8. CASE Admit /\ ~ Uncertain
  <2>1. PICK x \in client : Enter([pane |-> x.pane, session |-> x.session], client, TRUE) /\ visited' = visited
    BY <1>8 DEF Admit
  <2> QED
    BY <1>1, <1>3, <1>4, <2>1, EnterTypes
<1>9. CASE InspectScope /\ ~ Uncertain
  <2>1. PICK listed \in Listings(scope.pane, None) :
          \E s \in Known(listed, ChooseClient(listed, started)) :
             /\ Go("execute") /\ scope' = [scope EXCEPT !.session = s]
             /\ client' = IF client = {} THEN ChooseClient(listed, started) ELSE client
             /\ inspected' = TRUE /\ UNCHANGED <<first, visited>>
    BY <1>9 DEF InspectScope
  <2>2. /\ listed \subseteq Cards /\ ChooseClient(listed, started) \subseteq listed
        /\ \A x \in listed : x.session \in Sessions
    BY ListedAreCards DEF RouteInv
  <2>3. \A s \in Known(listed, ChooseClient(listed, started)) : s \in Sessions
    BY <2>2 DEF Known
  <2>4. scope \in Scopes
    BY <1>9 DEF InspectScope, RouteInv, Within
  <2>5. scope' \in Scopes
    BY <2>1, <2>3, <2>4 DEF Scopes
  <2>6. client' \subseteq Cards
    BY <1>3, <2>1, <2>2
  <2> QED
    BY <1>1, <1>3, <2>1, <2>5, <2>6, GoTypes DEF Places
<1>10. CASE InspectClient
  <2>1. scope \in Scopes
    BY <1>10 DEF InspectClient, RouteInv, Within
  <2>2. Go("execute") /\ UNCHANGED <<scope, first, visited>>
    BY <1>10 DEF InspectClient
  <2>3. client' \subseteq Cards /\ inspected' \in BOOLEAN
    <3>1. CASE first /\ client = {}
      <4>1. inspected' = TRUE /\ \E listed \in Listings(scope.pane, scope.session) :
                                    client' = ChooseClient(listed, started)
        BY <1>10, <3>1 DEF InspectClient
      <4> QED
        BY <4>1, ListedAreCards DEF RouteInv
    <3>2. CASE ~ (first /\ client = {})
      BY <1>3, <1>10, <3>2 DEF InspectClient
    <3> QED
      BY <3>1, <3>2
  <2> QED
    BY <1>1, <1>3, <2>1, <2>2, <2>3, GoTypes DEF Places
<1>11. CASE Resolve /\ ~ Uncertain
  <2>1. PICK listed \in Listings(scope.pane, scope.session) :
           /\ Go("outward") /\ client' = ChooseClient(listed, started)
           /\ UNCHANGED <<scope, first, inspected, visited>>
    BY <1>11 DEF Resolve
  <2>2. client' \subseteq Cards
    BY <2>1, ListedAreCards DEF RouteInv
  <2> QED
    BY <1>1, <1>3, <2>1, <2>2, GoTypes DEF Places, Within
<1> QED
  BY <1>2, <1>5, <1>6, <1>7, <1>8, <1>9, <1>10, <1>11

LEMMA OutwardTypes ==
  ASSUME RouteInv, WorldInv',
         \/ LookOutward \/ LookRelay \/ LookTerminal \/ FindParent
         \/ Relay \/ Terminal \/ FirstPost \/ Initialize \/ SecondPost
  PROVE  RouteInv'
<1>1. StepIs
  BY DEF LookOutward, LookRelay, LookTerminal, Look, FindParent, Relay, Terminal, FirstPost, Initialize,
         SecondPost, Post, StepIs, Routed, Quiet, worldVars
<1>2. ASSUME NEW w \in {"error", "declined"}, Finish(w) PROVE RouteInv'
  BY <1>1, <1>2, FinishTypes DEF Outcomes
<1>3. ASSUME Uncertain PROVE RouteInv'
  BY <1>1, <1>3, UncertainTypes
<1>4. ASSUME NEW place \in {"ancestry", "relay", "terminal", "edge", "last", "post", "initialize", "repost"},
             Go(place), UNCHANGED routeVars
      PROVE  RouteInv'
  BY <1>1, <1>4, MoveOnTypes DEF Places, Within
<1>5. ASSUME End("handled", client, {}) PROVE RouteInv'
  BY <1>1, <1>5, EndTypes DEF RouteInv, RouteTypes, Outcomes
<1>6. CASE LookOutward \/ LookRelay \/ LookTerminal
  BY <1>2, <1>3, <1>4, <1>6 DEF LookOutward, LookRelay, LookTerminal, Look
<1>7. CASE FindParent
  <2>1. PICK x \in client :
          \/ /\ Parent[x.who] # None
             /\ Enter([pane |-> Parent[x.who], session |-> None], {}, FALSE)
             /\ visited' = visited
          \/ Finish("declined")
          \/ Go("edge") /\ UNCHANGED routeVars
    BY <1>7 DEF FindParent
  <2>2. x.who \in Clients
    BY DEF RouteInv, RouteTypes, Cards
  <2>3. Parent[x.who] # None => [pane |-> Parent[x.who], session |-> None] \in Scopes
    BY <2>2, WorldAssumption DEF Scopes
  <2> QED
    BY <1>1, <1>2, <1>4, <2>1, <2>3, EnterTypes
<1>8. CASE Relay \/ Terminal
  BY <1>2, <1>4, <1>5, <1>8 DEF Relay, Terminal
<1>9. CASE FirstPost \/ Initialize \/ SecondPost
  BY <1>2, <1>4, <1>5, <1>9 DEF FirstPost, Initialize, SecondPost, Post
<1> QED
  BY <1>6, <1>7, <1>8, <1>9

LEMMA BeginTypes ==
  ASSUME RouteInv, WorldInv', Begin
  PROVE  RouteInv'
<1>1. ASSUME NEW a \in Actions, NEW c \in Clients, NEW d \in Clients, NEW e \in Entries, Press(c, d, a, e)
      PROVE  RouteInv'
  <2>1. c \in Attached /\ d \in Attached
    BY <1>1 DEF Press, Carry
  <2>2. Card(c) \in Cards
    BY <2>1, ListedAreCards DEF RouteInv, Listings, Displaying
  <2>3. client' \subseteq Cards
    <3> DEFINE exact == [Card(c) EXCEPT !.exact = TRUE, !.activity = 0, !.focused = FALSE]
    <3>1. exact \in Cards
      BY <2>2 DEF Cards
    <3>2. client' = {} \/ client' = {exact}
      BY <1>1 DEF Press
    <3> QED
      BY <3>1, <3>2
  <2>4. origin' \in Panes
    BY <1>1, <2>1 DEF Press, Shown, Attached, RouteInv, WorldInv
  <2>5. carriers' \subseteq Clients \X Nat
    BY <1>1 DEF Press, RouteInv, WorldInv
  <2>6. /\ UNCHANGED <<focus, left, scope, visited, first, inspected, outcome, last>>
        /\ action' = a /\ entry' = e /\ pc' = "pressed" /\ burst' = 1 /\ moved' = FALSE /\ sure' \in BOOLEAN
    BY <1>1 DEF Press, boundVars, endVars
  <2>7. RouteTypes'
    BY <2>3, <2>4, <2>5, <2>6 DEF RouteInv, RouteTypes, Places
  <2> QED
    BY <2>4, <2>6, <2>7 DEF RouteInv, Within
<1>2. ASSUME NEW a \in Actions, PressOutside(a) PROVE RouteInv'
  <2>1. /\ UNCHANGED <<focus, left, scope, visited, first, inspected, outcome, last, client, origin, carriers,
                       sure, moved>>
        /\ action' = a /\ entry' = "outside" /\ pc' = "pressed" /\ burst' = 1
    BY <1>2 DEF PressOutside, worldVars, boundVars, routeVars, endVars
  <2>2. RouteTypes'
    BY <2>1 DEF RouteInv, RouteTypes, Places, Entries
  <2> QED
    BY <2>1, <2>2 DEF RouteInv, Within
<1>3. ASSUME NEW a \in Actions, Again(a) PROVE RouteInv'
  <2>1. /\ UNCHANGED <<focus, left, scope, visited, first, inspected, outcome, last, client, origin, carriers,
                       entry>>
        /\ action' = a /\ pc' = "pressed" /\ burst' = burst + 1 /\ moved' = FALSE
    BY <1>3 DEF Again, worldVars, boundVars, routeVars, endVars
  <2>2. sure' \in BOOLEAN
    BY <1>3 DEF Again
  <2>3. RouteTypes'
    BY <2>1, <2>2 DEF RouteInv, RouteTypes, Places
  <2>4. burst \in Nat \ {0}
    BY <1>3, BoundsAssumption DEF Again
  <2> QED
    BY <2>1, <2>3, <2>4 DEF RouteInv, Within
<1> QED
  BY <1>1, <1>2, <1>3 DEF Begin

LEMMA StartTypes ==
  ASSUME RouteInv, WorldInv', Start
  PROVE  RouteInv'
<1>1. /\ UNCHANGED <<focus, left, action, entry, origin, burst, carriers>> /\ pc = "pressed"
      /\ moved' = FALSE /\ visited' = {} /\ sure' \in BOOLEAN
  BY DEF Start, Quiet, worldVars, boundVars
<1>2. \/ /\ entry = "shell"
         /\ Enter([pane |-> origin, session |-> None], {}, TRUE)
      \/ Finish("declined")
      \/ /\ pc' \in {"rescope", "reclient", "admit", "terminal", "outward"}
         /\ UNCHANGED <<scope, client, first, inspected, endVars>>
  BY DEF Start, Go
<1>3. burst # 0
  BY <1>1 DEF RouteInv
<1>4. CASE entry = "shell" /\ Enter([pane |-> origin, session |-> None], {}, TRUE)
  <2>1. /\ scope' = [pane |-> origin, session |-> None] /\ client' = {} /\ first' = TRUE /\ inspected' = FALSE
        /\ pc' = "enter" /\ UNCHANGED <<outcome, last>>
    BY <1>4 DEF Enter, Go, endVars
  <2>2. scope' \in Scopes
    BY <1>3, <1>4, <2>1 DEF RouteInv, Scopes
  <2>3. RouteTypes'
    BY <1>1, <2>1, <2>2 DEF RouteInv, RouteTypes, Places
  <2> QED
    BY <1>1, <1>3, <2>1, <2>2, <2>3 DEF RouteInv
<1>5. CASE Finish("declined")
  <2>1. /\ scope' = NoScope /\ client' = {} /\ first' = FALSE /\ inspected' = FALSE
        /\ pc' = "idle" /\ outcome' = "declined" /\ last' = [client |-> {}, scope |-> {}]
    BY <1>5 DEF Finish, End, NoResult
  <2>2. RouteTypes'
    BY <1>1, <2>1 DEF RouteInv, RouteTypes, Places, Outcomes
  <2> QED
    BY <1>1, <2>1, <2>2 DEF RouteInv, Within
<1>6. CASE /\ pc' \in {"rescope", "reclient", "admit", "terminal", "outward"}
           /\ UNCHANGED <<scope, client, first, inspected, endVars>>
  <2>1. RouteTypes'
    BY <1>1, <1>6 DEF RouteInv, RouteTypes, Places, endVars
  <2> QED
    BY <1>1, <1>3, <1>6, <2>1 DEF RouteInv, Within
<1> QED
  BY <1>2, <1>4, <1>5, <1>6

LEMMA WorldTypes ==
  ASSUME RouteInv, WorldInv', World
  PROVE  RouteInv'
<1>1. /\ UNCHANGED <<scope, client, first, inspected, visited, outcome, last, pc, action, entry, origin, burst,
                     carriers>>
      /\ left > 0 /\ left' = left - 1 /\ moved' = TRUE /\ sure' \in BOOLEAN
  BY DEF World, Move, routeVars, endVars
<1>2. focus' \subseteq Clients
  <2>1. UNCHANGED focus \/ \E c \in Clients : Refocus(c)
    BY DEF World, Detach, Reconnect, Attach, Switch, Type, SelectWindow, SelectPane
  <2> QED
    BY <2>1 DEF Refocus, RouteInv, RouteTypes
<1>3. RouteTypes'
  BY <1>1, <1>2 DEF RouteInv, RouteTypes
<1> QED
  BY <1>1, <1>3 DEF RouteInv

LEMMA RouteStep ==
  ASSUME RouteInv, [Next]_vars
  PROVE  RouteInv'
<1>1. WorldInv'
  BY WorldKept DEF RouteInv
<1>2. CASE Begin
  BY <1>1, <1>2, BeginTypes
<1>3. CASE World
  BY <1>1, <1>3, WorldTypes
<1>4. CASE Tick \/ UNCHANGED vars
  <2>1. UNCHANGED <<focus, left, pc, action, entry, origin, scope, visited, client, first, inspected, sure, moved,
                    outcome, last, carriers, burst>>
    BY <1>4 DEF Tick, vars, worldVars, boundVars, gestureVars, routeVars, endVars
  <2>2. RouteTypes'
    BY <2>1 DEF RouteInv, RouteTypes
  <2> QED
    BY <1>1, <2>1, <2>2 DEF RouteInv
<1>5. CASE Start
  BY <1>1, <1>5, StartTypes
<1>6. CASE RefreshScope \/ RefreshDisplay \/ RefreshClient \/ Admit \/ InspectScope \/ InspectClient \/ Resolve
  BY <1>1, <1>6, EntryTypes
<1>7. CASE Revisit \/ CallFails \/ SelectNeighbour \/ MovePane \/ SelectTab \/ MoveTab \/ SwapWindow
  BY <1>1, <1>7, TmuxTypes
<1>8. CASE \/ LookOutward \/ LookRelay \/ LookTerminal \/ FindParent
           \/ Relay \/ Terminal \/ FirstPost \/ Initialize \/ SecondPost
  BY <1>1, <1>8, OutwardTypes
<1> QED
  BY <1>2, <1>3, <1>4, <1>5, <1>6, <1>7, <1>8 DEF Next, Route

(* Every variable has its type, whatever the world does: in particular a   *)
(* command is only ever sent for a pane that exists, never for the blank   *)
(* scope, and at most one client is selected (route, enter_scope).         *)
THEOREM RouterTypeOK == Spec => []TypeOK
<1>1. RouteInv /\ EffectInv /\ SelectInv => TypeOK
  <2> SUFFICES ASSUME RouteInv, EffectInv, SelectInv PROVE TypeOK
    OBVIOUS
  <2>1. RouteTypes /\ WorldInv
    BY DEF RouteInv
  <2>2. count \in Nat /\ burst \in Nat
    BY DEF EffectInv
  <2>3. \A x, y \in client : x = y
    BY DEF SelectInv, AtMostOne
  <2> QED
    BY <2>1, <2>2, <2>3 DEF TypeOK, RouteTypes, WorldInv
<1>2. RouteInv /\ EffectInv /\ SelectInv /\ [Next]_vars => (RouteInv /\ EffectInv /\ SelectInv)'
  BY RouteStep, EffectStep, SelectStep
<1> QED
  BY <1>1, <1>2, RouteInit, EffectInit, SelectInit, PTL DEF Spec
=============================================================================
