----------------------------- MODULE LinkProofs -----------------------------
(***************************************************************************)
(* What Link promises, for any number of editors, panes, tmux servers and  *)
(* clients, and for every text on a screen of any size: a file is opened   *)
(* once and found where there is a steady editor, a URL or a message       *)
(* reaches the user who clicked, and a click opens what was clicked.       *)
(*                                                                         *)
(* The three parts of a click share no variable but phase, so that every   *)
(* proof looks at one part of LinkNext; the rest stutters there.           *)
(***************************************************************************)
EXTENDS Link, FiniteSetTheorems, SequenceTheorems, WellFoundedInduction, TLAPS

(* What LinkNext does to the editors and the opener.                       *)
RegistryNext ==
  \/ /\ opener = "idle" /\ opener' \in {"host", "list", "registry", "ssh", "helper"}
     /\ UNCHANGED <<editorVars, openerVars, openVars, steady>>
  \/ OpenerStep
  \/ \E e \in Editors : EditorStep(e) \/ OpenLate(e)

(* And to the tmux clients and the request for the browser.                *)
BrowserNext == BrowserStep \/ ClientsMove

LEMMA LinkIsRegistry == [LinkNext]_linkVars => [RegistryNext]_registryVars
<1> SUFFICES ASSUME [LinkNext]_linkVars PROVE RegistryNext \/ UNCHANGED registryVars
  OBVIOUS
<1>1. CASE UNCHANGED linkVars
  BY <1>1 DEF linkVars
<1>2. CASE ReadClick
  BY <1>2 DEF ReadClick
<1>3. CASE Follow
  BY <1>3 DEF Follow
<1>4. CASE OpenLink
  BY <1>4 DEF OpenLink, RegistryNext
<1>5. CASE OpenFile
  BY <1>5 DEF OpenFile, RegistryNext
<1>6. CASE Report
  BY <1>6 DEF Report
<1>7. CASE OpenUrl
  BY <1>7 DEF OpenUrl
<1>8. CASE Finish
  BY <1>8 DEF Finish
<1>9. CASE ScreenMoves
  BY <1>9 DEF ScreenMoves
<1>10. CASE EditorsMove
  BY <1>10 DEF EditorsMove, RegistryNext
<1>11. CASE UsersMove
  BY <1>11 DEF UsersMove
<1>12. CASE Ended
  BY <1>12 DEF Ended, linkVars
<1>13. CASE NameHost
  BY <1>13 DEF NameHost
<1> QED
  BY <1>1, <1>2, <1>3, <1>4, <1>5, <1>6, <1>7, <1>8, <1>9, <1>10, <1>11, <1>12, <1>13
  DEF LinkNext, Handler

LEMMA LinkIsBrowser == [LinkNext]_linkVars => [BrowserNext]_browserVars
<1> SUFFICES ASSUME [LinkNext]_linkVars PROVE BrowserNext \/ UNCHANGED browserVars
  OBVIOUS
<1>1. CASE UNCHANGED linkVars
  BY <1>1 DEF linkVars
<1>2. CASE ReadClick
  BY <1>2 DEF ReadClick
<1>3. CASE Follow
  BY <1>3 DEF Follow
<1>4. CASE OpenLink
  BY <1>4 DEF OpenLink
<1>5. CASE OpenFile
  BY <1>5 DEF OpenFile
<1>6. CASE Report
  BY <1>6 DEF Report
<1>7. CASE OpenUrl
  BY <1>7 DEF OpenUrl, BrowserNext
<1>8. CASE Finish
  BY <1>8 DEF Finish
<1>9. CASE ScreenMoves
  BY <1>9 DEF ScreenMoves
<1>10. CASE EditorsMove
  BY <1>10 DEF EditorsMove
<1>11. CASE UsersMove
  BY <1>11 DEF UsersMove, BrowserNext
<1>12. CASE Ended
  BY <1>12 DEF Ended, linkVars
<1>13. CASE NameHost
  BY <1>13 DEF NameHost
<1> QED
  BY <1>1, <1>2, <1>3, <1>4, <1>5, <1>6, <1>7, <1>8, <1>9, <1>10, <1>11, <1>12, <1>13
  DEF LinkNext, Handler

-----------------------------------------------------------------------------
(* A file is opened once.  As long as nothing has gone wrong, no editor    *)
(* holds a request, and the file is unopened until the opener says so.     *)

OnceInv ==
  /\ opens \in Nat
  /\ lost = {} =>
       /\ queue = {} /\ opens <= 1
       /\ opener = "opened" => opens = 1
       /\ opener \notin {"opened", "failed"} => opens = 0

LEMMA OnceAsked ==
  ASSUME OnceInv, opener \notin {"opened", "failed"},
         NEW e, NEW then, then \notin {"opened", "failed"}, Ask(e, then)
  PROVE  OnceInv'
BY DEF OnceInv, Ask, openVars

LEMMA OnceKept == OnceInv /\ [RegistryNext]_registryVars => OnceInv'
<1> SUFFICES ASSUME OnceInv, [RegistryNext]_registryVars PROVE OnceInv'
  OBVIOUS
<1>1. CASE UNCHANGED registryVars
  BY <1>1 DEF registryVars, openVars, OnceInv
<1>2. ASSUME opener = "idle", opener' \in {"host", "list", "registry", "ssh", "helper"},
             UNCHANGED openVars
      PROVE  OnceInv'
  BY <1>2 DEF openVars, OnceInv
<1>3. CASE AskHost
  BY <1>3, OnceAsked DEF AskHost
<1>4. CASE AskEditor
  BY <1>4, OnceAsked DEF AskEditor
<1>5. CASE ListPanes \/ NextPane \/ Everywhere \/ ReadLatest \/ ReadOwners
  BY <1>5 DEF ListPanes, NextPane, Everywhere, ReadLatest, ReadOwners, Goes, openVars, OnceInv
<1>6. CASE ReadPath \/ Exhausted
  BY <1>6 DEF ReadPath, Exhausted, Goes, openVars, OnceInv
<1>7. CASE TypeKeys
  BY <1>7 DEF TypeKeys, Goes, openVars, OnceInv
<1>8. CASE OverSsh
  BY <1>8 DEF OverSsh, SshLate, Goes, openVars, OnceInv
<1>9. CASE ByHelper
  BY <1>9 DEF ByHelper, Goes, openVars, OnceInv
<1>10. ASSUME NEW e \in Editors, EditorStep(e) PROVE OnceInv'
  BY <1>10 DEF EditorStep, openVars, OnceInv
<1>11. ASSUME NEW e \in Editors, OpenLate(e) PROVE OnceInv'
  BY <1>11 DEF OpenLate, OnceInv
<1> QED
  BY <1>1, <1>2, <1>3, <1>4, <1>5, <1>6, <1>7, <1>8, <1>9, <1>10, <1>11
  DEF RegistryNext, OpenerStep

(* A file is opened once at most, and once exactly when the opener reports *)
(* success, unless a request got no answer or the keys went astray         *)
(* (nvim/open.rs, open_link; nvim/remote.rs, ssh_open).                    *)
THEOREM FileOpensOnce == LinkSpec => []OpensOnce
<1>1. LinkInit => OnceInv
  BY DEF LinkInit, RegistryInit, OnceInv
<1>2. OnceInv => OpensOnce
  BY DEF OnceInv, OpensOnce
<1> QED
  BY <1>1, <1>2, OnceKept, LinkIsRegistry, PTL DEF LinkSpec

-----------------------------------------------------------------------------
(* A URL leaves through the client that was clicked in.  Until that client *)
(* has been away, no other one is chosen, and the request has gone through *)
(* it first once it has left the handler.                                  *)

ReachInv ==
  /\ chain \in Seq(Clients)
  /\ browser = "click" => chain = <<>>
  /\ browser \in {"follow", "parent", "write"} \/ written # NoClient => chain # <<>>
  /\ ~left => Clicker \in attached
  /\ named /\ ~left => /\ browser # "choose"
                       /\ chain # <<>> => chain[1] = Clicker

LEMMA ChainFirst ==
  ASSUME NEW S, NEW s \in Seq(S), NEW x \in S
  PROVE  /\ Append(s, x) \in Seq(S) /\ Append(s, x) # <<>>
         /\ Append(s, x)[1] = IF s = <<>> THEN x ELSE s[1]
<1>1. Append(s, x) \in Seq(S) /\ Len(Append(s, x)) = Len(s) + 1 /\ Len(s) \in Nat
  OBVIOUS
<1>2. s = <<>> <=> Len(s) = 0
  OBVIOUS
<1>3. CASE s = <<>>
  BY <1>1, <1>3
<1>4. CASE s # <<>>
  BY <1>1, <1>2, <1>4
<1> QED
  BY <1>3, <1>4

LEMMA SelectedClients == ASSUME NEW s PROVE Selected(s) \subseteq Clients
BY DEF Selected, Preferred, Eligible, ClientsOf

LEMMA ReachKept == ReachInv /\ [BrowserNext]_browserVars => ReachInv'
<1> USE BrowserAssumption
<1> SUFFICES ASSUME ReachInv, [BrowserNext]_browserVars PROVE ReachInv'
  OBVIOUS
<1>1. CASE UNCHANGED browserVars
  BY <1>1 DEF browserVars, worldVars, requestVars, ReachInv
<1>2. CASE ClientsMove
  <2>1. UNCHANGED <<chain, written, named, browser>>
    BY <1>2 DEF ClientsMove, Detach, Attach, Switch, Relink, Moves, requestVars
  <2>2. ~left' => ~left /\ Clicker \in attached'
    <3>1. PICK c \in Clients : Detach(c) \/ Attach(c) \/ Switch(c) \/ Relink(ServerOf[c])
      BY <1>2 DEF ClientsMove
    <3>2. CASE Detach(c)
      <4>1. left' = (left \/ c = Clicker) /\ attached' = attached \ {c}
        BY <3>2 DEF Detach
      <4>2. ~left' => ~left /\ c # Clicker
        BY <4>1, Zenon
      <4> QED
        BY <4>1, <4>2 DEF ReachInv
    <3>3. CASE Attach(c) \/ Switch(c) \/ Relink(ServerOf[c])
      BY <3>3 DEF Attach, Switch, Relink, ReachInv
    <3> QED
      BY <3>1, <3>2, <3>3
  <2>3. named' /\ ~left' => /\ browser' # "choose"
                            /\ chain' # <<>> => chain'[1] = Clicker
    BY <2>1, <2>2 DEF ReachInv
  <2> QED
    BY <2>1, <2>2, <2>3 DEF ReachInv
<1>3. CASE FailStep /\ UNCHANGED <<worldVars, named>>
  BY <1>3 DEF FailStep, Browse, TellClient, CheckSession, CompareSession, Speak, Steps, NextEntry,
              worldVars, requestVars, ReachInv
<1>4. ASSUME NEW from, Fails(from), UNCHANGED <<worldVars, named>> PROVE ReachInv'
  BY <1>4 DEF Fails, Steps, NextEntry, worldVars, requestVars, ReachInv
<1>5. ASSUME NEW c \in Clients, From(c), browser' = "follow", UNCHANGED <<worldVars, named, written>>,
             browser = "parent" \/ ~(named /\ ~left) \/ c = Clicker
      PROVE  ReachInv'
  BY <1>5, ChainFirst DEF From, worldVars, ReachInv
<1>6. CASE FindClient /\ UNCHANGED <<worldVars, named>>
  BY <1>6, <1>4, <1>5 DEF FindClient, Clicked, Steps, worldVars, requestVars, ReachInv
<1>7. CASE ChooseClient /\ UNCHANGED <<worldVars, named>>
  BY <1>7, <1>4, <1>5, SelectedClients DEF ChooseClient, Steps, ReachInv
<1>8. CASE Deliver /\ UNCHANGED <<worldVars, named>>
  BY <1>8, <1>4 DEF Deliver, Steps, worldVars, requestVars, ReachInv
<1>9. CASE ParentClient /\ UNCHANGED <<worldVars, named>>
  <2>1. ASSUME Steps("parent", "write"), UNCHANGED requestVars PROVE ReachInv'
    BY <1>9, <2>1 DEF Steps, worldVars, requestVars, ReachInv
  <2>2. ASSUME Unrelated PROVE ReachInv'
    BY <1>9, <2>1, <2>2, <1>4 DEF Unrelated
  <2>3. ASSUME NEW p, Outside(p) PROVE ReachInv'
    BY <1>9, <2>2, <2>3, <1>4, <1>5, SelectedClients DEF Outside, Steps
  <2> QED
    BY <1>9, <2>1, <2>2, <2>3 DEF ParentClient
<1>10. CASE WriteUrl /\ UNCHANGED <<worldVars, named>>
  BY <1>10, <1>4 DEF WriteUrl, Steps, worldVars, requestVars, ReachInv
<1> QED
  BY <1>1, <1>2, <1>3, <1>6, <1>7, <1>8, <1>9, <1>10 DEF BrowserNext, BrowserStep, RequestStep

(* As long as the client that was clicked in stays attached, a URL that is *)
(* written to a terminal has gone through that client (browser.rs,         *)
(* request_click and deliver), however deep the tmux servers are nested.   *)
THEOREM UrlReachesClicker == LinkSpec => []ClickReaches
<1>1. LinkInit => ReachInv
  <2>1. <<>> \in Seq(Clients)
    OBVIOUS
  <2> QED
    BY <2>1 DEF LinkInit, BrowserInit, ReachInv
<1>2. ReachInv => ClickReaches
  BY DEF ReachInv, ClickReaches
<1> QED
  BY <1>1, <1>2, ReachKept, LinkIsBrowser, PTL DEF LinkSpec
-----------------------------------------------------------------------------
(* Who is shown the message.  What the handler has read about the sessions *)
(* holds as long as the clients have not moved since, and before it has    *)
(* spoken nobody has been told.                                            *)

HomeInv ==
  /\ moves \in Nat /\ checked.moves <= moves /\ checked.moves \in Nat
  /\ browser # "told" => told = NoClient
  /\ browser \in {"compare", "speak"} /\ moves = checked.moves => shown[Here] = checked.session
  /\ browser = "speak" /\ named /\ moves = checked.moves =>
       Clicker \in attached /\ session[Clicker] = checked.session
  /\ TellStaysHome

(* A step that leaves the clients, the session read and the message alone. *)
LEMMA HomeQuiet ==
  ASSUME HomeInv, UNCHANGED <<worldVars, named, checked, told>>,
         browser' = browser \/ (browser # "told" /\ browser' \notin {"compare", "speak"})
  PROVE  HomeInv'
BY DEF HomeInv, TellStaysHome, worldVars, Here

LEMMA HomeKept == HomeInv /\ [BrowserNext]_browserVars => HomeInv'
<1> USE BrowserAssumption
<1> SUFFICES ASSUME HomeInv, [BrowserNext]_browserVars PROVE HomeInv'
  OBVIOUS
<1>1. CASE UNCHANGED browserVars
  BY <1>1, HomeQuiet DEF browserVars, failVars
<1>2. CASE ClientsMove
  <2>1. moves' = moves + 1 /\ UNCHANGED <<failVars, browser>>
    BY <1>2 DEF ClientsMove, Detach, Attach, Switch, Relink, Moves
  <2>2. moves' \in Nat /\ moves' # checked'.moves /\ checked'.moves <= moves' /\ checked'.moves \in Nat
    BY <2>1 DEF HomeInv, failVars
  <2> QED
    BY <2>1, <2>2 DEF HomeInv, TellStaysHome, failVars
<1>3. CASE RequestStep /\ UNCHANGED <<worldVars, named>>
  <2>1. UNCHANGED <<checked, told>>
    BY <1>3 DEF RequestStep, failVars
  <2>2. browser # "told" /\ browser' \notin {"compare", "speak"}
    BY <1>3 DEF RequestStep, FindClient, ChooseClient, Deliver, ParentClient, Outside, Unrelated, WriteUrl,
                Fails, NextEntry, Steps
  <2> QED
    BY <1>3, <2>1, <2>2, HomeQuiet
<1>4. CASE Browse /\ UNCHANGED <<worldVars, named>>
  BY <1>4, HomeQuiet DEF Browse, Steps, failVars
<1>5. CASE TellClient /\ UNCHANGED <<worldVars, named>>
  BY <1>5, HomeQuiet DEF TellClient, Steps, worldVars, HomeInv, TellStaysHome
<1>6. CASE CheckSession /\ UNCHANGED <<worldVars, named>>
  <2>1. CASE UNCHANGED checked /\ Steps("check", "told")
    BY <1>6, <2>1, HomeQuiet DEF CheckSession, Steps
  <2>2. CASE /\ Steps("check", IF named THEN "compare" ELSE "speak")
             /\ checked' = [session |-> shown[Here], moves |-> moves]
    <3>1. told' = NoClient /\ (named => browser' = "compare") /\ browser' # "told"
      BY <1>6, <2>2 DEF CheckSession, Steps, HomeInv
    <3>2. checked'.moves = moves /\ checked'.session = shown[Here]
      BY <2>2
    <3> QED
      BY <1>6, <3>1, <3>2 DEF worldVars, HomeInv, TellStaysHome, Here
  <2> QED
    BY <1>6, <2>1, <2>2 DEF CheckSession
<1>7. CASE CompareSession /\ UNCHANGED <<worldVars, named>>
  <2>1. CASE Steps("compare", "told")
    BY <1>7, <2>1, HomeQuiet DEF CompareSession, Steps, failVars
  <2>2. CASE Own /\ Steps("compare", "speak")
    BY <1>7, <2>2 DEF CompareSession, Own, Steps, failVars, worldVars, HomeInv, TellStaysHome, Here
  <2> QED
    BY <1>7, <2>1, <2>2 DEF CompareSession
<1>8. CASE Speak /\ UNCHANGED <<worldVars, named>>
  <2>1. CASE UNCHANGED told
    BY <1>8, <2>1, HomeQuiet DEF Speak, Steps
  <2> DEFINE there == {c \in attached \cap ClientsOf(Here) : session[c] = shown[Here]}
  <2>2. ASSUME NEW c \in IF there # {} THEN there ELSE attached \cap {newest[Here]}, told' = c
        PROVE  HomeInv'
    <3>1. browser = "speak" /\ browser' = "told" /\ checked' = checked
      BY <1>8 DEF Speak, Steps
    <3>2. ASSUME named, moves = checked.moves PROVE session[c] = session[Clicker]
      <4>1. Clicker \in there
        BY <3>1, <3>2 DEF HomeInv, ClientsOf, Here
      <4> QED
        BY <3>1, <3>2, <4>1, <2>2 DEF HomeInv
    <3> QED
      BY <1>8, <2>2, <3>1, <3>2 DEF HomeInv, TellStaysHome, worldVars
  <2> QED
    BY <1>8, <2>1, <2>2 DEF Speak
<1> QED
  BY <1>1, <1>2, <1>3, <1>4, <1>5, <1>6, <1>7, <1>8 DEF BrowserNext, BrowserStep, FailStep

(* Unless the clients move after the handler has asked for them, a message *)
(* is shown only in the session of the client that was clicked in          *)
(* (click.rs, tell).                                                       *)
THEOREM MessageStaysHome == LinkSpec => []TellStaysHome
<1>1. LinkInit => HomeInv
  BY DEF LinkInit, BrowserInit, HomeInv, TellStaysHome
<1>2. HomeInv => TellStaysHome
  BY DEF HomeInv
<1> QED
  BY <1>1, <1>2, HomeKept, LinkIsBrowser, PTL DEF LinkSpec
-----------------------------------------------------------------------------
(* An editor that stands is found.  Its registrations first: a live editor *)
(* has a marker and a record in both of its scopes, whatever the others    *)
(* write and delete, and also while it replaces its own records.           *)

Recorded(e, p) == \E r \in own[p] : r.owner = e
EditorInv ==
  /\ life \in [Editors -> {"none", "setup", "live", "leaving", "dead"}]
  /\ step \in [Editors -> Nat]
  /\ marker \subseteq Editors
  /\ DOMAIN own = Scopes
  /\ \A p \in Scopes : IsFiniteSet(own[p])
  /\ \A e \in Editors :
       /\ life[e] = "live" => e \in marker
       /\ life[e] = "live" \/ (life[e] = "setup" /\ step[e] >= 1) => Recorded(e, PaneOf[e])
       /\ life[e] = "live" \/ (life[e] = "setup" /\ step[e] >= 2) => Recorded(e, All)

LEMMA TwoScopes == \A e \in Editors : PaneOf[e] \in Scopes /\ All \in Scopes /\ PaneOf[e] # All
BY EditorAssumption DEF Scopes

LEMMA Replaced ==
  ASSUME NEW S, NEW r, IsFiniteSet(S)
  PROVE  IsFiniteSet(Replace(S, r)) /\ \E x \in Replace(S, r) : x.owner = r.owner
<1>1. IsFiniteSet({x \in S : x.owner # r.owner})
  BY FS_Subset
<1>2. IsFiniteSet(Replace(S, r))
  BY <1>1, FS_AddElement DEF Replace
<1> QED
  BY <1>2 DEF Replace

LEMMA ReplaceKeeps ==
  ASSUME NEW S, NEW r, NEW x \in S
  PROVE  \E y \in Replace(S, r) : y.owner = x.owner
BY DEF Replace

LEMMA Forgotten ==
  ASSUME NEW S, NEW f, IsFiniteSet(S)
  PROVE  IsFiniteSet(Forget(S, f))
BY FS_Subset DEF Forget

LEMMA ForgetKeeps ==
  ASSUME NEW S, NEW f, NEW x \in S, x.owner # f
  PROVE  x \in Forget(S, f)
BY DEF Forget

LEMMA InitRegistered == RegistryInit => EditorInv
<1> USE EditorAssumption
<1> SUFFICES ASSUME RegistryInit PROVE EditorInv
  OBVIOUS
<1>1. life \in [Editors -> {"none", "setup", "live", "leaving", "dead"}] /\ step \in [Editors -> Nat]
  BY DEF RegistryInit
<1>2. ASSUME NEW p \in Scopes PROVE IsFiniteSet(own[p])
  <2> DEFINE here == {x \in marker : p \in {PaneOf[x], All}}
             f == [e \in here |-> [owner |-> e, seq |-> 0]]
  <2>1. marker \subseteq Editors /\ own[p] = {[owner |-> e, seq |-> 0] : e \in here}
    BY DEF RegistryInit
  <2>2. IsFiniteSet(here)
    BY <2>1, FS_Subset
  <2>3. f \in [here -> own[p]] /\ \A r \in own[p] : \E e \in here : f[e] = r
    BY <2>1
  <2> HIDE DEF here, f
  <2>4. f \in Surjection(here, own[p])
    BY <2>3 DEF Surjection
  <2> QED
    BY <2>2, <2>4, FS_Surjection
<1>3. ASSUME NEW e \in Editors, e \in marker, NEW p \in {PaneOf[e], All} PROVE Recorded(e, p)
  <2>1. p \in Scopes
    BY TwoScopes
  <2>2. [owner |-> e, seq |-> 0] \in own[p]
    BY <1>3, <2>1 DEF RegistryInit
  <2> QED
    BY <2>2 DEF Recorded
<1>4. ASSUME NEW e \in Editors PROVE life[e] # "setup" /\ (life[e] = "live" => e \in marker)
  BY DEF RegistryInit
<1>5. DOMAIN own = Scopes /\ marker \subseteq Editors
  BY DEF RegistryInit
<1> QED
  BY <1>1, <1>2, <1>3, <1>4, <1>5 DEF EditorInv

LEMMA RegisteredKept == EditorInv /\ [RegistryNext]_registryVars => EditorInv'
<1> USE EditorAssumption
<1> SUFFICES ASSUME EditorInv, [RegistryNext]_registryVars PROVE EditorInv'
  OBVIOUS
<1>1. CASE UNCHANGED editorVars
  BY <1>1 DEF editorVars, EditorInv, Recorded
<1>2. ASSUME NEW e \in Editors, EditorStep(e) PROVE EditorInv'
  <2>1. CASE Publish(e)
    BY <2>1 DEF Publish, EditorInv, Recorded
  <2>2. CASE Leave(e) \/ Crash(e) \/ Block(e)
    BY <2>2 DEF Leave, Crash, Block, EditorInv, Recorded
  <2>3. CASE Cleanup(e)
    <3>1. /\ life' \in [Editors -> {"none", "setup", "live", "leaving", "dead"}]
          /\ step' \in [Editors -> Nat] /\ DOMAIN own' = Scopes
          /\ life[e] = "leaving" /\ life'[e] \in {"leaving", "dead"}
          /\ \A f \in Editors \ {e} : life'[f] = life[f] /\ step'[f] = step[f]
          /\ marker' = marker \ {e}
          /\ \A p \in Scopes : own'[p] = Forget(own[p], e) \/ own'[p] = own[p]
      BY <2>3 DEF Cleanup, EditorInv
    <3>2. \A p \in Scopes : IsFiniteSet(own'[p])
      BY <3>1, Forgotten DEF EditorInv
    <3>3. ASSUME NEW f \in Editors \ {e}, NEW p \in Scopes, Recorded(f, p) PROVE Recorded(f, p)'
      <4>1. PICK x \in own[p] : x.owner = f
        BY <3>3 DEF Recorded
      <4>2. x \in Forget(own[p], e)
        BY <4>1, ForgetKeeps
      <4> QED
        BY <3>1, <4>1, <4>2 DEF Recorded
    <3> QED
      BY <3>1, <3>2, <3>3, TwoScopes DEF EditorInv
  <2>4. CASE Write(e)
    <3> DEFINE r == [owner |-> e, seq |-> stamp[e]]
    <3>1. /\ life[e] \in {"setup", "live"} /\ step[e] \in Nat /\ step[e] < 5
          /\ step' = [step EXCEPT ![e] = step[e] + 1]
          /\ marker' = (IF step[e] = 4 THEN marker \cup {e} ELSE marker) /\ marker' \subseteq Editors
          /\ life' = IF step[e] = 4 THEN [life EXCEPT ![e] = "live"] ELSE life
      BY <2>4 DEF Write, EditorInv
    <3>2. /\ step[e] = 0 => own' = [own EXCEPT ![PaneOf[e]] = Replace(@, r)]
          /\ step[e] = 1 => own' = [own EXCEPT ![All] = Replace(@, r)]
          /\ step[e] \notin {0, 1} => own' = own
      BY <2>4 DEF Write
    <3>3. DOMAIN own' = Scopes
      BY <3>1, <3>2 DEF EditorInv
    <3>4. \A p \in Scopes : own'[p] = own[p] \/ own'[p] = Replace(own[p], r)
      BY <3>1, <3>2, TwoScopes DEF EditorInv
    <3>5. \A p \in Scopes : IsFiniteSet(own'[p])
      BY <3>4, Replaced DEF EditorInv
    <3>6. ASSUME NEW f \in Editors, NEW p \in Scopes, Recorded(f, p) PROVE Recorded(f, p)'
      <4>1. PICK x \in own[p] : x.owner = f
        BY <3>6 DEF Recorded
      <4>2. \E y \in Replace(own[p], r) : y.owner = f
        BY <4>1, ReplaceKeeps
      <4> QED
        BY <3>4, <4>1, <4>2 DEF Recorded
    <3>7. /\ step[e] = 0 => Recorded(e, PaneOf[e])'
          /\ step[e] = 1 => Recorded(e, All)'
      <4>1. r.owner = e
        OBVIOUS
      <4>2. /\ step[e] = 0 => own'[PaneOf[e]] = Replace(own[PaneOf[e]], r)
            /\ step[e] = 1 => own'[All] = Replace(own[All], r)
        BY <3>1, <3>2, TwoScopes DEF EditorInv
      <4> HIDE DEF r
      <4> QED
        BY <4>1, <4>2, Replaced, TwoScopes DEF EditorInv, Recorded
    <3>8. /\ life' \in [Editors -> {"none", "setup", "live", "leaving", "dead"}]
          /\ step' \in [Editors -> Nat]
      BY <3>1 DEF EditorInv
    <3>9. ASSUME NEW f \in Editors
          PROVE  /\ life'[f] = "live" => f \in marker'
                 /\ life'[f] = "live" \/ (life'[f] = "setup" /\ step'[f] >= 1) => Recorded(f, PaneOf[f])'
                 /\ life'[f] = "live" \/ (life'[f] = "setup" /\ step'[f] >= 2) => Recorded(f, All)'
      <4>1. /\ Recorded(f, PaneOf[f]) => Recorded(f, PaneOf[f])'
            /\ Recorded(f, All) => Recorded(f, All)'
        BY <3>6, TwoScopes
      <4>2. CASE f # e
        BY <3>1, <4>1, <4>2 DEF EditorInv
      <4>3. CASE f = e
        <5>1. step'[e] = step[e] + 1 /\ (life'[e] = "live" => e \in marker')
          BY <3>1 DEF EditorInv
        <5>2. life'[e] = "live" => life[e] = "live" \/ step[e] = 4
          BY <3>1 DEF EditorInv
        <5> QED
          BY <3>1, <3>7, <4>1, <4>3, <5>1, <5>2 DEF EditorInv
      <4> QED
        BY <4>2, <4>3
    <3> QED
      BY <3>1, <3>3, <3>5, <3>8, <3>9 DEF EditorInv
  <2> QED
    BY <1>2, <2>1, <2>2, <2>3, <2>4 DEF EditorStep
<1>3. ASSUME NEW e \in Editors, OpenLate(e) PROVE UNCHANGED editorVars
  BY <1>3 DEF OpenLate
<1>4. ASSUME OpenerStep PROVE UNCHANGED editorVars
  BY <1>4 DEF OpenerStep, AskHost, ListPanes, NextPane, Everywhere, ReadLatest, ReadOwners, ReadPath,
              AskEditor, Exhausted, TypeKeys, OverSsh, ByHelper
<1> QED
  BY <1>1, <1>2, <1>3, <1>4 DEF RegistryNext, registryVars
-----------------------------------------------------------------------------
(* Then the search.  A steady editor is due until the file is opened: its  *)
(* pane is still to be tried, or the records of its scope are being tried  *)
(* and its own is among those left, or it is being asked.                  *)

Searching == {"latest", "owners", "path", "ask"}
Left(e) == \E i \in 1..Len(paths) : paths[i] = e
Due(e) ==
  \/ PaneOf[e] \in panes
  \/ opener \in {"latest", "owners"} /\ scope \in {PaneOf[e], All}
  \/ opener \in {"path", "ask"} /\ scope \in {PaneOf[e], All} /\ e \notin seen /\ Left(e)
  \/ opener = "ask" /\ target = e
FoundInv ==
  /\ steady \subseteq Ready /\ panes \subseteq Panes
  /\ paths \in Seq(Editors \cup {Latest})
  /\ opener \in {"idle", "host", "list", "registry"} => panes = {}
  /\ opener \in {"idle", "host", "list", "registry", "ssh", "helper", "type", "failed"} => steady = {}
  /\ opener \in Searching => scope \in Panes \/ (scope = All /\ panes = {})
  /\ opener = "owners" => seen = {}
  /\ opener # "opened" => \A e \in steady : Due(e)

(* Whatever the order, all records are tried.                              *)
LEMMA AllTried ==
  ASSUME NEW S, IsFiniteSet(S), \A r \in S : r.owner \in Editors, NEW s \in NewestFirst(S)
  PROVE  s \in Seq(Editors \cup {Latest}) /\ \A r \in S : \E i \in 1..Len(s) : s[i] = r.owner
<1>1. PICK q \in SetToSeqs(S) : s = [i \in DOMAIN q |-> q[i].owner]
  BY DEF NewestFirst
<1> DEFINE n == Cardinality(S)
<1>2. n \in Nat
  BY FS_CardinalityType
<1>3. q \in [1..n -> S] /\ \A i, j \in 1..n : i # j => q[i] # q[j]
  BY DEF SetToSeqs
<1>4. IsFiniteSet(1..n) /\ Cardinality(1..n) = n
  BY <1>2, FS_Interval
<1>5. q \in Injection(1..n, S)
  BY <1>3 DEF Injection, IsInjective
<1>6. q \in Surjection(1..n, S)
  BY <1>4, <1>5, FS_Injection
<1>7. \A r \in S : \E i \in 1..n : q[i] = r
  BY <1>6 DEF Surjection
<1>8. s \in [1..n -> Editors \cup {Latest}] /\ \A i \in 1..n : s[i] = q[i].owner
  BY <1>1, <1>3
<1>9. s \in Seq(Editors \cup {Latest}) /\ Len(s) = n
  BY <1>2, <1>8
<1> QED
  BY <1>7, <1>8, <1>9

LEMMA LeftAfter ==
  ASSUME NEW S, NEW s \in Seq(S), NEW t \in Seq(S), NEW u, u = s \o t
  PROVE  u \in Seq(S) /\ \A i \in 1..Len(t) : \E k \in 1..Len(u) : u[k] = t[i]
<1>1. u \in Seq(S) /\ Len(u) = Len(s) + Len(t) /\ Len(s) \in Nat /\ Len(t) \in Nat
  OBVIOUS
<1>2. ASSUME NEW i \in 1..Len(t) PROVE Len(s) + i \in 1..Len(u) /\ u[Len(s) + i] = t[i]
  BY <1>1
<1> QED
  BY <1>1, <1>2

LEMMA LeftInTail ==
  ASSUME NEW S, NEW s \in Seq(S), NEW i \in 1..Len(s), s # <<>>
  PROVE  /\ Tail(s) \in Seq(S)
         /\ s[i] # Head(s) => \E k \in 1..Len(Tail(s)) : Tail(s)[k] = s[i]
<1>1. Tail(s) \in Seq(S) /\ Len(Tail(s)) = Len(s) - 1 /\ Head(s) = s[1]
  OBVIOUS
<1>2. ASSUME i # 1 PROVE i - 1 \in 1..Len(Tail(s)) /\ Tail(s)[i - 1] = s[i]
  BY <1>1, <1>2
<1> QED
  BY <1>1, <1>2

(* The records of an editor that stands are valid and name it.             *)
LEMMA SteadyRead ==
  ASSUME EditorInv, NEW e \in Ready, NEW p \in {PaneOf[e], All}
  PROVE  /\ e \in Editors /\ e \in marker /\ e \notin busy /\ Listening(e) /\ Recorded(e, p)
         /\ scope = p => ReadNow(e) = {e} /\ \E r \in Owners : r.owner = e
<1>1. e \in Editors /\ life[e] = "live" /\ e \in marker /\ e \notin busy /\ Recorded(e, p)
  BY DEF EditorInv, Ready
<1>2. Listening(e) /\ e # Latest
  BY <1>1, EditorAssumption DEF Listening, Latest
<1>3. ASSUME scope = p PROVE ReadNow(e) = {e} /\ \E r \in Owners : r.owner = e
  BY <1>1, <1>2, <1>3 DEF ReadNow, Owners, Valid, Recorded
<1> QED
  BY <1>1, <1>2, <1>3
(* Steps that neither look for an editor nor end the search.               *)
LEMMA FoundQuiet ==
  ASSUME FoundInv, steady' \subseteq steady, steady' \subseteq Ready',
         UNCHANGED <<panes, scope, paths, seen, target, opener>>
  PROVE  FoundInv'
BY DEF FoundInv, Due, Left

LEMMA FoundStart ==
  ASSUME FoundInv, UNCHANGED <<editorVars, openerVars, steady>>,
         opener \in {"idle", "host", "ssh", "helper", "type"},
         \/ opener' = "opened"
         \/ opener = "idle" /\ opener' \in {"host", "list", "registry", "ssh", "helper"}
         \/ opener = "host" /\ opener' = "list"
         \/ opener' \in {"ssh", "helper", "failed"}
  PROVE  FoundInv'
BY DEF FoundInv, Searching, Ready, editorVars, openerVars

(* An opener between two scopes has no steady editor but in a listed pane. *)
LEMMA FoundBetween ==
  ASSUME EditorInv, FoundInv, UNCHANGED editorVars, NextPane \/ Exhausted
  PROVE  FoundInv'
<1>1. UNCHANGED <<steady, paths, seen, target>> /\ Ready' = Ready
  BY DEF NextPane, Exhausted, openerVars, editorVars, Ready
<1>2. CASE NextPane /\ panes = {}
  <2>1. opener = "pane" /\ opener' \in {"failed", "type"} /\ UNCHANGED <<panes, scope>>
    BY <1>2 DEF NextPane, Goes, openerVars
  <2>2. steady = {}
    BY <1>2, <2>1 DEF FoundInv, Due
  <2> QED
    BY <1>1, <2>1, <2>2 DEF FoundInv, Searching
<1>3. CASE NextPane /\ panes # {}
  <2>1. PICK p \in panes : scope' = p /\ panes' = panes \ {p}
    BY <1>3 DEF NextPane
  <2>2. opener = "pane" /\ opener' = "latest"
    BY <1>3 DEF NextPane, Goes
  <2>3. ASSUME NEW e \in steady PROVE Due(e)'
    BY <2>1, <2>2, <2>3 DEF FoundInv, Due
  <2> QED
    BY <1>1, <2>1, <2>2, <2>3 DEF FoundInv, Searching
<1>4. CASE Exhausted
  <2>1. /\ opener = "path" /\ paths = <<>> /\ UNCHANGED <<panes, scope>>
        /\ opener' = IF scope = All THEN "failed" ELSE "pane"
    BY <1>4 DEF Exhausted, Goes, openerVars
  <2>2. \A e \in steady : PaneOf[e] \in panes
    BY <2>1 DEF FoundInv, Due, Left
  <2>3. scope = All => steady = {}
    BY <2>1, <2>2, EditorAssumption DEF FoundInv, Searching
  <2>4. opener' # "opened" => \A e \in steady : Due(e)'
    BY <2>1, <2>2 DEF Due
  <2> QED
    BY <1>1, <2>1, <2>3, <2>4 DEF FoundInv, Searching
<1> QED
  BY <1>2, <1>3, <1>4

LEMMA FoundRecords ==
  ASSUME EditorInv, FoundInv, UNCHANGED editorVars, ReadLatest \/ ReadOwners
  PROVE  FoundInv'
<1>1. UNCHANGED <<steady, panes, scope, target>> /\ Ready' = Ready
  BY DEF ReadLatest, ReadOwners, editorVars, Ready
<1>2. CASE ReadLatest
  <2>1. opener = "latest" /\ opener' = "owners" /\ seen' = {} /\ paths' \in {<<>>, <<Latest>>}
    BY <1>2 DEF ReadLatest, Goes
  <2>2. paths' \in Seq(Editors \cup {Latest})
    <3>1. <<>> \in Seq(Editors \cup {Latest}) /\ <<Latest>> \in Seq(Editors \cup {Latest})
      OBVIOUS
    <3> QED
      BY <2>1, <3>1
  <2> QED
    BY <1>1, <2>1, <2>2 DEF FoundInv, Due, Searching
<1>3. CASE ReadOwners
  <2>1. opener = "owners" /\ opener' = "path" /\ seen' = {} /\ seen = {}
    BY <1>3 DEF ReadOwners, Goes, FoundInv
  <2>2. PICK q \in NewestFirst(Owners) : paths' = paths \o q
    BY <1>3 DEF ReadOwners
  <2>3. IsFiniteSet(Owners) /\ \A r \in Owners : r.owner \in Editors
    <3>1. scope \in Scopes
      BY <2>1 DEF FoundInv, Searching, Scopes
    <3> QED
      BY <3>1, FS_Subset DEF EditorInv, Owners, Valid
  <2>4. q \in Seq(Editors \cup {Latest}) /\ \A r \in Owners : \E i \in 1..Len(q) : q[i] = r.owner
    BY <2>3, AllTried
  <2>5. paths \in Seq(Editors \cup {Latest})
    BY DEF FoundInv
  <2>6. /\ paths' \in Seq(Editors \cup {Latest})
        /\ \A i \in 1..Len(q) : \E k \in 1..Len(paths') : paths'[k] = q[i]
    <3> DEFINE S == Editors \cup {Latest}
    <3>1. q \in Seq(S) /\ paths \in Seq(S)
      BY <2>4, <2>5
    <3> HIDE DEF S
    <3>2. /\ paths' \in Seq(S)
          /\ \A i \in 1..Len(q) : \E k \in 1..Len(paths') : paths'[k] = q[i]
      BY <2>2, <3>1, LeftAfter
    <3> QED
      BY <3>2 DEF S
  <2>7. ASSUME NEW e \in steady PROVE Due(e)'
    <3>1. CASE PaneOf[e] \in panes
      BY <1>1, <3>1 DEF Due
    <3>2. CASE scope \in {PaneOf[e], All}
      <4>1. PICK r \in Owners : r.owner = e
        BY <3>2, <2>7, SteadyRead DEF FoundInv
      <4>2. Left(e)'
        BY <2>4, <2>6, <4>1 DEF Left
      <4> QED
        BY <1>1, <2>1, <3>2, <4>2 DEF Due
    <3> QED
      BY <2>1, <2>7, <3>1, <3>2 DEF FoundInv, Due
  <2> QED
    BY <1>1, <2>1, <2>6, <2>7 DEF FoundInv, Searching
<1> QED
  BY <1>2, <1>3

(* A steady editor whose record is read is asked, unless it has been.      *)
LEMMA FoundPath ==
  ASSUME EditorInv, FoundInv, ReadPath PROVE FoundInv'
<1>1. /\ opener = "path" /\ paths # <<>> /\ paths' = Tail(paths)
      /\ UNCHANGED <<steady, panes, scope>> /\ Ready' = Ready /\ opener' \in {"path", "ask"}
  BY DEF ReadPath, editorVars, Ready
<1>2. paths' \in Seq(Editors \cup {Latest})
  BY <1>1, LeftInTail DEF FoundInv
<1>3. ASSUME NEW e \in steady PROVE Due(e)'
  <2>1. CASE PaneOf[e] \in panes
    BY <1>1, <2>1 DEF Due
  <2>2. CASE scope \in {PaneOf[e], All} /\ e \notin seen /\ Left(e)
    <3>1. PICK i \in 1..Len(paths) : paths[i] = e
      BY <2>2 DEF Left
    <3>2. ReadNow(e) = {e}
      BY <1>3, <2>2, SteadyRead DEF FoundInv
    <3>3. CASE Head(paths) = e
      BY <2>2, <3>2, <3>3 DEF ReadPath, Due
    <3>4. CASE Head(paths) # e
      <4>1. Left(e)'
        BY <1>1, <3>1, <3>4, LeftInTail DEF Left, FoundInv
      <4>2. seen' = seen \/ \E f : seen' = seen \cup {f} /\ target' = f /\ opener' = "ask"
        BY DEF ReadPath
      <4> QED
        BY <1>1, <2>2, <4>1, <4>2 DEF Due
    <3> QED
      BY <3>3, <3>4
  <2> QED
    BY <1>1, <1>3, <2>1, <2>2 DEF FoundInv, Due
<1> QED
  BY <1>1, <1>2, <1>3 DEF FoundInv, Searching

(* An editor that stands answers.                                          *)
LEMMA FoundAsked ==
  ASSUME EditorInv, FoundInv, AskEditor PROVE FoundInv'
<1>1. /\ opener = "ask" /\ opener' \in {"path", "opened"} /\ Ready' = Ready
      /\ UNCHANGED <<steady, panes, scope, paths, seen>>
  BY DEF AskEditor, Ask, openerVars, editorVars, Ready
<1>2. target \in steady => opener' = "opened"
  BY SteadyRead DEF AskEditor, Ask, Late, FoundInv
<1>3. ASSUME NEW e \in steady, opener' = "path" PROVE Due(e)'
  BY <1>1, <1>2, <1>3 DEF FoundInv, Due, Left
<1> QED
  BY <1>1, <1>3 DEF FoundInv, Searching

LEMMA FoundKept == EditorInv /\ FoundInv /\ [RegistryNext]_registryVars => FoundInv'
<1> SUFFICES ASSUME EditorInv, FoundInv, [RegistryNext]_registryVars PROVE FoundInv'
  OBVIOUS
<1>1. CASE UNCHANGED registryVars
  BY <1>1, FoundQuiet DEF registryVars, openerVars, editorVars, FoundInv, Ready
<1>2. CASE /\ opener = "idle" /\ opener' \in {"host", "list", "registry", "ssh", "helper"}
           /\ UNCHANGED <<editorVars, openerVars, openVars, steady>>
  BY <1>2, FoundStart
<1>3. CASE AskHost
  BY <1>3, FoundStart DEF AskHost, Ask
<1>4. CASE TypeKeys \/ OverSsh \/ ByHelper
  BY <1>4, FoundStart DEF TypeKeys, OverSsh, SshLate, ByHelper, Goes
<1>5. CASE ListPanes
  <2>1. PICK P \in SUBSET {PaneOf[e] : e \in {x \in Editors : Listening(x)}} :
           panes' = P /\ steady' = {e \in Ready : PaneOf[e] \in P}
    BY <1>5 DEF ListPanes
  <2>2. P \subseteq Panes
    BY EditorAssumption
  <2>3. opener' = "pane" /\ Ready' = Ready /\ UNCHANGED paths
    BY <1>5 DEF ListPanes, Goes, editorVars, Ready
  <2> QED
    BY <2>1, <2>2, <2>3 DEF FoundInv, Searching, Due
<1>6. CASE Everywhere
  <2>1. /\ opener = "registry" /\ opener' = "latest" /\ scope' = All /\ steady' = Ready /\ Ready' = Ready
        /\ UNCHANGED <<panes, paths>>
    BY <1>6 DEF Everywhere, Goes, editorVars, Ready
  <2> QED
    BY <2>1 DEF FoundInv, Searching, Due
<1>7. CASE NextPane \/ Exhausted
  BY <1>7, FoundBetween DEF NextPane, Exhausted
<1>8. CASE ReadLatest \/ ReadOwners
  BY <1>8, FoundRecords DEF ReadLatest, ReadOwners
<1>9. CASE ReadPath
  BY <1>9, FoundPath
<1>10. CASE AskEditor
  BY <1>10, FoundAsked
<1>11. ASSUME NEW e \in Editors, EditorStep(e) PROVE FoundInv'
  BY <1>11, FoundQuiet DEF EditorStep, openerVars
<1>12. ASSUME NEW e \in Editors, OpenLate(e) PROVE FoundInv'
  BY <1>12, FoundQuiet DEF OpenLate, openerVars, editorVars, FoundInv, Ready
<1> QED
  BY <1>1, <1>2, <1>3, <1>4, <1>5, <1>6, <1>7, <1>8, <1>9, <1>10, <1>11, <1>12
  DEF RegistryNext, OpenerStep

(* As long as an editor answers that was there when the opener began to    *)
(* look, it is found: neither another editor's stale or half-written       *)
(* records nor the replacing of its own hide it (nvim/open.rs,             *)
(* ordered_records and open_records; nvim-tmux-open.lua, publish, cleanup).*)
THEOREM SteadyEditorFound == LinkSpec => []FoundIfThere
<1>1. LinkInit => EditorInv /\ FoundInv
  <2>1. <<>> \in Seq(Editors \cup {Latest})
    OBVIOUS
  <2>2. LinkInit => FoundInv
    BY <2>1 DEF LinkInit, RegistryInit, FoundInv, Searching
  <2> QED
    BY <2>2, InitRegistered DEF LinkInit
<1>2. FoundInv => FoundIfThere
  BY DEF FoundInv, FoundIfThere
<1>3. EditorInv /\ FoundInv /\ [LinkNext]_linkVars => (EditorInv /\ FoundInv)'
  BY LinkIsRegistry, RegisteredKept, FoundKept
<1> QED
  BY <1>1, <1>2, <1>3, PTL DEF LinkSpec

(* An editor that is live stands in the registry all the time, in the      *)
(* scope of its pane and in the one of all editors, with its marker: also  *)
(* while it publishes anew and whatever others write, delete or leave      *)
(* behind (nvim-tmux-open.lua, publish and cleanup).                       *)
LiveIsRegistered ==
  \A e \in Editors : life[e] = "live" => e \in marker /\ Recorded(e, PaneOf[e]) /\ Recorded(e, All)

THEOREM LiveEditorRegistered == LinkSpec => []LiveIsRegistered
<1>1. LinkInit => EditorInv
  BY InitRegistered DEF LinkInit
<1>2. EditorInv => LiveIsRegistered
  BY DEF EditorInv, LiveIsRegistered
<1>3. EditorInv /\ [LinkNext]_linkVars => EditorInv'
  BY LinkIsRegistry, RegisteredKept
<1> QED
  BY <1>1, <1>2, <1>3, PTL DEF LinkSpec

-----------------------------------------------------------------------------
(* The text of a click.  Three captures of a screen that may move are read *)
(* to find one run of cells.  The argument goes from how a text is laid    *)
(* out in rows and what of it is on the screen, over what is left of a run *)
(* when its line is cut and how Match walks down the rows, to what the     *)
(* handler knows of the screen between its steps.                          *)

(* Induction, from the least number that a set leaves out: the library's own*)
(* rule takes the set as an operator.                                      *)
LEMMA NatSetInduction ==
  ASSUME NEW S, 0 \in S, \A n \in Nat : n \in S => n + 1 \in S
  PROVE  Nat \subseteq S
<1> DEFINE T == Nat \ S
<1> SUFFICES ASSUME T # {} PROVE FALSE
  OBVIOUS
<1>1. PICK m \in T : \A y \in T : ~ (<<y, m>> \in OpToRel(<, Nat))
  BY NatLessThanWellFounded, WFMin
<1>2. m # 0 /\ m \in Nat
  BY <1>1
<1>3. m - 1 \in Nat /\ (m - 1) + 1 = m /\ m - 1 < m
  BY <1>2
<1>4. m - 1 \in T
  BY <1>1, <1>3
<1>5. <<m - 1, m>> \in OpToRel(<, Nat)
  BY <1>2, <1>3 DEF OpToRel
<1> QED
  BY <1>1, <1>4, <1>5

(* Multiplication and division by the width of the screen.                 *)
LEMMA Times ==
  ASSUME NEW r \in Nat, r >= 1, NEW w \in Nat
  PROVE  /\ (r - 1) * w + w = r * w /\ (r - 1) * w \in Nat /\ r * w \in Nat
         /\ (r + 1 - 1) * w = r * w
<1>1. r - 1 \in Nat /\ r + 1 - 1 = r
  OBVIOUS
<1>2. (r - 1) * w \in Nat /\ r * w \in Nat
  BY <1>1
<1>3. (r - 1) * w + w = r * w
  OBVIOUS
<1> QED
  BY <1>1, <1>2, <1>3

LEMMA TimesLeq ==
  ASSUME NEW r \in Nat, NEW h \in Nat, r <= h, NEW w \in Nat
  PROVE  r * w <= h * w
<1>1. (h - r) * w >= 0 /\ h * w = r * w + (h - r) * w
  OBVIOUS
<1>2. r * w \in Nat /\ h * w \in Nat /\ (h - r) * w \in Nat
  <2>1. h - r \in Nat
    OBVIOUS
  <2> QED
    BY <2>1
<1> QED
  BY <1>1, <1>2

LEMMA Div ==
  ASSUME NEW a \in Nat, NEW w \in Nat \ {0}
  PROVE  /\ a \div w \in Nat
         /\ w * (a \div w) <= a
         /\ a < w * (a \div w) + w
OBVIOUS

(* How many rows of w cells a line of l cells takes.                       *)
LEMMA Ceiling ==
  ASSUME NEW l \in Nat, l >= 1, NEW w \in Nat \ {0}, NEW h, h = (l + w - 1) \div w
  PROVE  /\ h \in Nat /\ h >= 1 /\ h * w >= l
         /\ \A q \in 0..h - 1 : q * w < l
<1> DEFINE a == l + w - 1
<1>1. a \in Nat /\ a >= w /\ a = l + w - 1
  OBVIOUS
<1> HIDE DEF a
<1>2. a \div w \in Nat /\ w * (a \div w) <= a /\ a < w * (a \div w) + w
  BY <1>1, Div
<1>3. h \in Nat /\ w * h <= a /\ a < w * h + w
  BY <1>2 DEF a
<1>4. w * h = h * w /\ h * w \in Nat
  BY <1>3
<1>5. h # 0
  <2>1. SUFFICES ASSUME h = 0 PROVE FALSE
    OBVIOUS
  <2>2. w * 0 = 0
    OBVIOUS
  <2> QED
    BY <1>1, <1>3, <2>1, <2>2
<1>6. h * w >= l
  BY <1>1, <1>3, <1>4
<1>7. ASSUME NEW q \in 0..h - 1 PROVE q * w < l
  <2> DEFINE r == q + 1
  <2>0. r \in Nat /\ r >= 1 /\ r <= h /\ r - 1 = q /\ w \in Nat
    BY <1>3
  <2> HIDE DEF r
  <2>1. q * w + w = r * w /\ q * w \in Nat /\ r * w \in Nat
    BY <2>0, Times
  <2>2. r * w <= h * w
    BY <1>3, <2>0, TimesLeq
  <2> QED
    BY <1>1, <1>3, <1>4, <2>1, <2>2
<1> QED
  BY <1>3, <1>5, <1>6, <1>7

(* FlattenSeq is its own recursion.                                        *)
LEMMA Flattened ==
  ASSUME NEW n \in Nat \ {0}, NEW seqs, Len(seqs) = n
  PROVE  \E F : /\ F = [i \in 1..n |-> IF i = 1 THEN seqs[i] ELSE F[i - 1] \o seqs[i]]
                /\ FlattenSeq(seqs) = F[n]
<1> DEFINE Body(F, i) == IF i = 1 THEN seqs[i] ELSE F[i - 1] \o seqs[i]
           S == {m \in Nat : \E F : \A i \in 1..n : i <= m => F[i] = Body(F, i)}
<1>1. 0 \in S
  OBVIOUS
<1>2. ASSUME NEW m \in Nat, m \in S PROVE m + 1 \in S
  <2>1. PICK F : \A i \in 1..n : i <= m => F[i] = Body(F, i)
    BY <1>2
  <2> DEFINE G == [i \in 1..n |-> Body(F, i)]
  <2>2. ASSUME NEW i \in 1..n, i <= m + 1 PROVE G[i] = Body(G, i)
    <3>1. CASE i = 1
      BY <3>1
    <3>2. CASE i # 1
      <4>1. i - 1 \in 1..n /\ i - 1 <= m
        BY <2>2, <3>2
      <4>2. G[i - 1] = F[i - 1]
        BY <2>1, <4>1
      <4> QED
        BY <3>2, <4>2
    <3> QED
      BY <3>1, <3>2
  <2> HIDE DEF G
  <2>3. \E H : \A i \in 1..n : i <= m + 1 => H[i] = Body(H, i)
    BY <2>2
  <2> QED
    BY <2>3
<1>3. n \in S
  <2> HIDE DEF S
  <2> QED
    BY <1>1, <1>2, NatSetInduction
<1>4. PICK F : \A i \in 1..n : F[i] = Body(F, i)
  BY <1>3
<1> DEFINE G == [i \in 1..n |-> F[i]]
<1>5. G = [i \in 1..n |-> Body(G, i)]
  <2>1. ASSUME NEW i \in 1..n PROVE F[i] = Body(G, i)
    BY <1>4
  <2> QED
    BY <2>1
<1> DEFINE R == CHOOSE f : f = [i \in 1..n |-> IF i = 1 THEN seqs[i] ELSE f[i - 1] \o seqs[i]]
<1> HIDE DEF G
<1>6. R = [i \in 1..n |-> IF i = 1 THEN seqs[i] ELSE R[i - 1] \o seqs[i]]
  BY <1>5
<1>7. FlattenSeq(seqs) = R[n]
  BY DEF FlattenSeq
<1> QED
  BY <1>6, <1>7

(* The rows of a text.                                                     *)
Row == [line : Nat, at : Nat, cells : Seq(Cells)]
Upto(m, k) == IF m < k THEN m ELSE k
Placed(t, r) ==
  /\ r \in Row /\ r.line \in 1..Len(t)
  /\ r.at < Len(t[r.line]) \/ (r.at = 0 /\ t[r.line] = <<>>)
  /\ r.cells = SubSeq(t[r.line], r.at + 1, Upto(r.at + Width, Len(t[r.line])))
EndsLine(t, q) == q.at + Width >= Len(t[q.line])
Follows(t, q, r) ==
  \/ r.line = q.line /\ r.at = q.at + Width /\ ~EndsLine(t, q)
  \/ r.line = q.line + 1 /\ r.at = 0 /\ EndsLine(t, q)
LaidOut(t, rows, i) ==
  /\ rows \in Seq(Row) /\ Len(rows) >= 1
  /\ \A j \in 1..Len(rows) : Placed(t, rows[j])
  /\ \A j \in 1..Len(rows) : j < Len(rows) => Follows(t, rows[j], rows[j + 1])
  /\ rows[Len(rows)].line = i /\ EndsLine(t, rows[Len(rows)])

(* Every row of a line but the first begins inside the line, and the last  *)
(* one reaches its end.                                                    *)
LEMMA RowCount ==
  ASSUME NEW t \in Seq(Seq(Cells)), NEW i \in 1..Len(t),
         NEW h, h = IF t[i] = <<>> THEN 1 ELSE (Len(t[i]) + Width - 1) \div Width
  PROVE  /\ h \in Nat /\ h >= 1 /\ h * Width >= Len(t[i])
         /\ \A q \in 0..h - 1 : q * Width < Len(t[i]) \/ (q = 0 /\ t[i] = <<>>)
<1>0. t[i] \in Seq(Cells) /\ Len(t[i]) \in Nat /\ Width \in Nat \ {0}
  BY TextAssumption
<1>1. CASE t[i] = <<>>
  BY <1>0, <1>1
<1>2. CASE t[i] # <<>>
  <2>1. Len(t[i]) >= 1
    BY <1>0, <1>2
  <2> DEFINE l == Len(t[i])
  <2>2. l \in Nat /\ l >= 1 /\ h = (l + Width - 1) \div Width
    BY <1>0, <1>2, <2>1
  <2> HIDE DEF l
  <2>3. h \in Nat /\ h >= 1 /\ h * Width >= l /\ \A q \in 0..h - 1 : q * Width < l
    BY <1>0, <2>2, Ceiling
  <2> QED
    BY <1>2, <2>3 DEF l
<1> QED
  BY <1>1, <1>2

(* The rows of one line, of two parts of a text, and of a whole text: each *)
(* is where it should be in its line and follows the one before it.        *)
LEMMA LineLaidOut ==
  ASSUME NEW t \in Seq(Seq(Cells)), NEW i \in 1..Len(t)
  PROVE  LaidOut(t, Wrapped(i, t[i]), i) /\ Wrapped(i, t[i])[1].line = i /\ Wrapped(i, t[i])[1].at = 0
<1> DEFINE h == IF t[i] = <<>> THEN 1 ELSE (Len(t[i]) + Width - 1) \div Width
           W == Wrapped(i, t[i])
           row(r) == [line |-> i, at |-> (r - 1) * Width,
                      cells |-> SubSeq(t[i], (r - 1) * Width + 1, IF r * Width < Len(t[i]) THEN r * Width ELSE Len(t[i]))]
<1>0. t[i] \in Seq(Cells) /\ Len(t[i]) \in Nat /\ Width \in Nat /\ Width >= 1
  BY TextAssumption
<1>1. /\ h \in Nat /\ h >= 1 /\ h * Width >= Len(t[i])
      /\ \A q \in 0..h - 1 : q * Width < Len(t[i]) \/ (q = 0 /\ t[i] = <<>>)
  <2>1. h = IF t[i] = <<>> THEN 1 ELSE (Len(t[i]) + Width - 1) \div Width
    OBVIOUS
  <2> HIDE DEF h
  <2> QED
    BY <2>1, RowCount
<1>2. W = [r \in 1..h |-> row(r)]
  BY DEF Wrapped
<1> HIDE DEF h, W
<1>3. ASSUME NEW r \in 1..h
      PROVE  /\ Placed(t, row(r)) /\ row(r).line = i /\ row(r).at + Width = r * Width
             /\ row(r + 1).at = r * Width /\ row(r + 1).line = i
  <2>1. (r - 1) * Width + Width = r * Width /\ (r - 1) * Width \in Nat /\ r * Width \in Nat
        /\ (r + 1 - 1) * Width = r * Width
    BY <1>0, <1>1, Times
  <2>2. row(r) \in Row
    <3> DEFINE a == (r - 1) * Width
               b == r * Width
               l == t[i]
               e == IF b < Len(l) THEN b ELSE Len(l)
               v == SubSeq(l, a + 1, e)
    <3>1. a \in Nat /\ b \in Nat /\ l \in Seq(Cells) /\ Len(l) \in Nat /\ i \in Nat
      BY <1>0, <2>1
    <3> HIDE DEF a, b, l
    <3>2. v \in Seq(Cells)
      <4>1. e \in Nat /\ e <= Len(l)
        BY <3>1
      <4> HIDE DEF e
      <4> QED
        BY <3>1, <4>1
    <3> HIDE DEF v
    <3>3. [line |-> i, at |-> a, cells |-> v] \in Row
      BY <3>1, <3>2 DEF Row
    <3> QED
      BY <3>3 DEF a, b, l, v
  <2>3. (r - 1) * Width < Len(t[i]) \/ ((r - 1) * Width = 0 /\ t[i] = <<>>)
    <3>1. PICK q \in 0..h - 1 : q = r - 1
      <4>1. r - 1 \in 0..h - 1
        BY <1>1
      <4> QED
        BY <4>1
    <3>2. q * Width < Len(t[i]) \/ (q * Width = 0 /\ t[i] = <<>>)
      <4>1. q = 0 => q * Width = 0
        BY <1>0
      <4> QED
        BY <1>1, <4>1
    <3> QED
      BY <3>1, <3>2
  <2>4. row(r).line = i /\ row(r).at = (r - 1) * Width /\ row(r + 1).at = r * Width /\ row(r + 1).line = i
    BY <2>1
  <2>5. row(r).cells = SubSeq(t[i], row(r).at + 1, Upto(row(r).at + Width, Len(t[i])))
    BY <2>1, <2>4 DEF Upto
  <2> HIDE DEF row
  <2>6. Placed(t, row(r))
    BY <2>2, <2>3, <2>4, <2>5 DEF Placed
  <2> QED
    BY <2>1, <2>4, <2>6
<1>4. \A r \in 1..h : W[r] = row(r)
  BY <1>2
<1>5. W \in Seq(Row) /\ Len(W) = h
  BY <1>1, <1>2, <1>3 DEF Placed
<1>6. ASSUME NEW r \in 1..h, r < h PROVE Follows(t, W[r], W[r + 1])
  <2>1. W[r] = row(r) /\ W[r + 1] = row(r + 1)
    <3>1. r + 1 \in 1..h
      BY <1>1, <1>6
    <3> QED
      BY <1>4, <3>1
  <2>2. r \in 0..h - 1 /\ r # 0
    BY <1>1, <1>6
  <2>3. r * Width < Len(t[i]) /\ r * Width \in Nat
    BY <1>0, <1>1, <2>2, Times
  <2> HIDE DEF row
  <2>4. /\ row(r).line = i /\ row(r).at + Width = r * Width
        /\ row(r + 1).at = r * Width /\ row(r + 1).line = i
    BY <1>3
  <2> DEFINE b == r * Width
  <2>5. ~EndsLine(t, row(r))
    <3>1. b < Len(t[i]) /\ b \in Nat /\ row(r).at + Width = b /\ row(r).line = i
      BY <2>3, <2>4
    <3> HIDE DEF b
    <3>2. ~(b >= Len(t[i]))
      BY <1>0, <3>1
    <3> QED
      BY <3>1, <3>2 DEF EndsLine
  <2>6. row(r + 1).at = row(r).at + Width /\ row(r + 1).line = row(r).line
    BY <2>4
  <2>7. Follows(t, row(r), row(r + 1))
    BY <2>5, <2>6 DEF Follows
  <2> QED
    BY <2>1, <2>7
<1>7. W[h].line = i /\ EndsLine(t, W[h])
  <2>1. h \in 1..h
    BY <1>1
  <2> HIDE DEF row
  <2> QED
    BY <1>1, <1>3, <1>4, <2>1 DEF EndsLine
<1>8. W[1].line = i /\ W[1].at = 0
  <2>1. 1 \in 1..h /\ row(1).line = i /\ row(1).at = 0
    BY <1>0, <1>1
  <2> QED
    BY <1>4, <2>1
<1>9. \A j \in 1..Len(W) : Placed(t, W[j])
  BY <1>3, <1>4, <1>5
<1> QED
  BY <1>1, <1>5, <1>6, <1>7, <1>8, <1>9 DEF LaidOut, W

LEMMA LaidOutNext ==
  ASSUME NEW t, NEW i \in Nat, NEW p, NEW w, LaidOut(t, p, i), LaidOut(t, w, i + 1),
         w[1].line = i + 1, w[1].at = 0
  PROVE  LaidOut(t, p \o w, i + 1)
<1> DEFINE c == p \o w
<1>1. /\ p \in Seq(Row) /\ w \in Seq(Row) /\ Len(p) \in Nat /\ Len(w) \in Nat /\ Len(p) >= 1 /\ Len(w) >= 1
  BY DEF LaidOut
<1>2. /\ c \in Seq(Row) /\ Len(c) = Len(p) + Len(w)
      /\ \A j \in 1..Len(c) : c[j] = IF j <= Len(p) THEN p[j] ELSE w[j - Len(p)]
  BY <1>1, ConcatProperties
<1> HIDE DEF c
<1>3. ASSUME NEW j \in 1..Len(c) PROVE Placed(t, c[j])
  <2>1. CASE j <= Len(p)
    BY <1>1, <1>2, <2>1 DEF LaidOut
  <2>2. CASE j > Len(p)
    <3>1. j - Len(p) \in 1..Len(w) /\ c[j] = w[j - Len(p)]
      BY <1>1, <1>2, <2>2
    <3> QED
      BY <3>1 DEF LaidOut
  <2> QED
    BY <1>1, <2>1, <2>2
<1>4. ASSUME NEW j \in 1..Len(c), j < Len(c) PROVE Follows(t, c[j], c[j + 1])
  <2>0. j + 1 \in 1..Len(c)
    BY <1>1, <1>2, <1>4
  <2>1. CASE j < Len(p)
    <3>1. c[j] = p[j] /\ c[j + 1] = p[j + 1] /\ j \in 1..Len(p)
      BY <1>1, <1>2, <2>0, <2>1
    <3> QED
      BY <2>1, <3>1 DEF LaidOut
  <2>2. CASE j = Len(p)
    <3>1. c[j] = p[Len(p)] /\ c[j + 1] = w[1]
      <4>1. j <= Len(p) /\ ~(j + 1 <= Len(p)) /\ j + 1 - Len(p) = 1
        BY <1>1, <2>2
      <4>2. c[j] = p[j]
        BY <1>2, <4>1
      <4>3. c[j + 1] = w[j + 1 - Len(p)]
        BY <1>2, <2>0, <4>1
      <4> QED
        BY <2>2, <4>1, <4>2, <4>3
    <3> QED
      BY <3>1 DEF LaidOut, Follows
  <2>3. CASE j > Len(p)
    <3>1. /\ j - Len(p) \in 1..Len(w) /\ j - Len(p) < Len(w)
          /\ c[j] = w[j - Len(p)] /\ c[j + 1] = w[j - Len(p) + 1]
      BY <1>1, <1>2, <1>4, <2>0, <2>3
    <3> QED
      BY <3>1 DEF LaidOut
  <2> QED
    BY <1>1, <2>1, <2>2, <2>3
<1>5. c[Len(c)] = w[Len(w)]
  BY <1>1, <1>2
<1>6. LaidOut(t, c, i + 1)
  BY <1>1, <1>2, <1>3, <1>4, <1>5 DEF LaidOut
<1> QED
  BY <1>6 DEF c

LEMMA RowsLaidOut ==
  ASSUME NEW t \in Seq(Seq(Cells)), t # <<>>
  PROVE  LaidOut(t, Rows(t), Len(t))
<1> DEFINE seqs == [i \in DOMAIN t |-> Wrapped(i, t[i])]
           n == Len(t)
<1>1. n \in Nat \ {0} /\ DOMAIN t = 1..n
  OBVIOUS
<1>2. Len(seqs) = n /\ \A i \in 1..n : seqs[i] = Wrapped(i, t[i])
  BY <1>1
<1>3. Rows(t) = FlattenSeq(seqs)
  BY DEF Rows
<1> HIDE DEF seqs
<1>4. PICK F : /\ F = [i \in 1..n |-> IF i = 1 THEN seqs[i] ELSE F[i - 1] \o seqs[i]]
               /\ FlattenSeq(seqs) = F[n]
  BY <1>1, <1>2, Flattened
<1>5. \A j \in 1..n : j # 1 => F[j] = F[j - 1] \o seqs[j]
  BY <1>4
<1> DEFINE S == {i \in Nat : i \in 1..n => LaidOut(t, F[i], i)}
<1>6. 0 \in S
  OBVIOUS
<1>7. ASSUME NEW i \in Nat, i \in S PROVE i + 1 \in S
  <2> SUFFICES ASSUME i + 1 \in 1..n PROVE LaidOut(t, F[i + 1], i + 1)
    OBVIOUS
  <2>1. LaidOut(t, seqs[i + 1], i + 1) /\ seqs[i + 1][1].line = i + 1 /\ seqs[i + 1][1].at = 0
    BY <1>2, LineLaidOut
  <2>2. CASE i = 0
    BY <1>4, <2>1, <2>2
  <2>3. CASE i # 0
    <3>1. F[i + 1] = F[i] \o seqs[i + 1]
      <4>1. i + 1 # 1 /\ i + 1 - 1 = i
        BY <2>3
      <4>2. PICK j \in 1..n : j = i + 1 /\ j # 1 /\ j - 1 = i
        BY <4>1
      <4>3. F[j] = F[j - 1] \o seqs[j]
        BY <1>5, <4>2
      <4> QED
        BY <4>2, <4>3
    <3>2. LaidOut(t, F[i], i)
      BY <1>1, <1>7, <2>3
    <3> QED
      BY <2>1, <3>1, <3>2, LaidOutNext
  <2> QED
    BY <2>2, <2>3
<1>8. n \in S
  <2> HIDE DEF S
  <2> QED
    BY <1>1, <1>6, <1>7, NatSetInduction
<1> QED
  BY <1>1, <1>3, <1>4, <1>8

(* Least and greatest elements, for what the model defines with CHOOSE.    *)
LEMMA Least ==
  ASSUME NEW S, S \subseteq Nat, S # {}
  PROVE  \E m \in S : \A k \in S : m <= k
<1>1. PICK m \in S : \A k \in S : ~ (<<k, m>> \in OpToRel(<, Nat))
  BY NatLessThanWellFounded, WFMin
<1>2. ASSUME NEW k \in S PROVE m <= k
  <2>1. k < m => <<k, m>> \in OpToRel(<, Nat)
    BY DEF OpToRel
  <2>2. ~(k < m)
    BY <1>1, <2>1, Zenon
  <2> QED
    BY <2>2
<1> QED
  BY <1>2

LEMMA Greatest ==
  ASSUME NEW S, NEW b \in Nat, S \subseteq 0..b, S # {}
  PROVE  \E m \in S : \A k \in S : k <= m
<1> DEFINE T == {n \in 0..b : b - n \in S}
<1>1. T \subseteq Nat
  OBVIOUS
<1>2. T # {}
  <2>1. PICK k \in S : TRUE
    OBVIOUS
  <2>2. b - k \in 0..b /\ b - (b - k) = k
    BY <2>1
  <2> QED
    BY <2>2
<1>3. PICK n \in T : \A k \in T : n <= k
  <2> HIDE DEF T
  <2> QED
    BY <1>1, <1>2, Least
<1>4. b - n \in S
  OBVIOUS
<1>5. ASSUME NEW k \in S PROVE k <= b - n
  <2>1. b - k \in 0..b /\ b - (b - k) = k
    OBVIOUS
  <2>2. b - k \in T
    BY <2>1
  <2>3. n <= b - k
    BY <1>3, <2>2
  <2> QED
    BY <2>1, <2>3
<1> QED
  BY <1>4, <1>5

(* What holds from one number of a range to the next holds up to its end.  *)
LEMMA RangeInduction ==
  ASSUME NEW a \in Nat, NEW b \in Nat, NEW S, a \in S,
         \A n \in a..b : n < b /\ n \in S => n + 1 \in S
  PROVE  a..b \subseteq S
<1> DEFINE T == {n \in Nat : a + n <= b => a + n \in S}
<1>1. 0 \in T
  OBVIOUS
<1>2. ASSUME NEW n \in Nat, n \in T PROVE n + 1 \in T
  <2> SUFFICES ASSUME a + (n + 1) <= b PROVE a + (n + 1) \in S
    OBVIOUS
  <2>1. a + n \in a..b /\ a + n < b /\ a + n \in S
    BY <1>2
  <2>2. a + n + 1 \in S
    BY <2>1
  <2> QED
    BY <2>2
<1>3. Nat \subseteq T
  <2> HIDE DEF T
  <2> QED
    BY <1>1, <1>2, NatSetInduction
<1> QED
  <2> SUFFICES ASSUME NEW n \in a..b PROVE n \in S
    OBVIOUS
  <2>1. n - a \in T /\ a + (n - a) = n
    BY <1>3
  <2> QED
    BY <2>1

(* The rows on the screen.                                                 *)
OnRow(t, r) == Placed(t, r) \/ (r \in Row /\ r.line > Len(t) /\ r.at = 0 /\ r.cells = <<>>)
NextRow(t, q, r) ==
  \/ Placed(t, q) /\ Placed(t, r) /\ r.line = q.line /\ r.at = q.at + Width /\ ~EndsLine(t, q)
  \/ r.line > q.line /\ r.at = 0 /\ (Placed(t, q) => EndsLine(t, q))
Scene(t, s) ==
  /\ \A y \in 1..Height : OnRow(t, s[y])
  /\ \A y, z \in 1..Height : z = y + 1 => NextRow(t, s[y], s[z])

Below(t, n, y) == [line |-> Len(t) + n + y, at |-> 0, cells |-> <<>>]

(* What is below the text is a row of its own.                             *)
LEMMA BelowText ==
  ASSUME NEW t \in Seq(Seq(Cells)), NEW n \in Nat, NEW y \in Nat, y >= 1
  PROVE  /\ Below(t, n, y) \in Row
         /\ Below(t, n, y).line = Len(t) + n + y /\ Below(t, n, y).line > Len(t)
         /\ Below(t, n, y).at = 0 /\ Below(t, n, y).cells = <<>>
<1>1. Len(t) \in Nat /\ <<>> \in Seq(Cells)
  OBVIOUS
<1>2. Len(t) + n + y \in Nat /\ Len(t) + n + y > Len(t)
  BY <1>1
<1> QED
  BY <1>1, <1>2 DEF Row, Below

(* The rows of the screen follow each other, and what is not empty is a row*)
(* of the text.                                                            *)
LEMMA ScreenRows ==
  ASSUME NEW t \in Seq(Seq(Cells)), NEW n \in Nat, n < Len(Rows(t))
  PROVE  /\ Scene(t, Screen(t, n))
         /\ \A y \in 1..Height : Screen(t, n)[y].cells # <<>> =>
              n + y \in 1..Len(Rows(t)) /\ Screen(t, n)[y] = Rows(t)[n + y]
<1> DEFINE rows == Rows(t)
           s == Screen(t, n)
           below(y) == Below(t, n, y)
<1>0. t # <<>>
  <2> SUFFICES ASSUME t = <<>> PROVE FALSE
    OBVIOUS
  <2> DEFINE none == [i \in DOMAIN t |-> Wrapped(i, t[i])]
  <2>1. Len(none) = 0
    OBVIOUS
  <2>2. Rows(t) = none
    <3> HIDE DEF none
    <3>1. Rows(t) = FlattenSeq(none)
      BY DEF Rows, none
    <3> QED
      BY <2>1, <3>1 DEF FlattenSeq
  <2> QED
    BY <2>1, <2>2
<1>1. LaidOut(t, rows, Len(t)) /\ Len(t) \in Nat
  BY <1>0, RowsLaidOut
<1>2. /\ rows \in Seq(Row) /\ Len(rows) \in Nat
      /\ \A j \in 1..Len(rows) : Placed(t, rows[j])
      /\ \A j \in 1..Len(rows) : j < Len(rows) => Follows(t, rows[j], rows[j + 1])
      /\ rows[Len(rows)].line = Len(t) /\ EndsLine(t, rows[Len(rows)])
  BY <1>1 DEF LaidOut
<1> HIDE DEF rows
<1>3. Height \in Nat /\ Height >= 1
  BY TextAssumption
<1>4. s = [y \in 1..Height |-> IF n + y <= Len(rows) THEN rows[n + y] ELSE below(y)]
  BY DEF Screen, rows, Below
<1> HIDE DEF s
<1>5. \A y \in 1..Height : s[y] = IF n + y <= Len(rows) THEN rows[n + y] ELSE below(y)
  BY <1>4
<1>6. ASSUME NEW y \in Nat, y >= 1
      PROVE  /\ below(y) \in Row /\ below(y).line = Len(t) + n + y /\ below(y).line > Len(t)
             /\ below(y).at = 0 /\ below(y).cells = <<>>
  BY <1>6, BelowText
<1> HIDE DEF below
<1>7. ASSUME NEW y \in 1..Height PROVE OnRow(t, s[y])
  <2>1. CASE n + y <= Len(rows)
    <3>1. n + y \in 1..Len(rows) /\ s[y] = rows[n + y]
      BY <1>2, <1>5, <2>1
    <3> QED
      BY <1>2, <3>1 DEF OnRow
  <2>2. CASE ~(n + y <= Len(rows))
    <3>1. s[y] = below(y)
      BY <1>5, <2>2
    <3>2. y \in Nat /\ y >= 1
      OBVIOUS
    <3> QED
      BY <1>6, <3>1, <3>2 DEF OnRow
  <2> QED
    BY <2>1, <2>2
<1>8. ASSUME NEW y \in 1..Height, NEW z \in 1..Height, z = y + 1 PROVE NextRow(t, s[y], s[z])
  <2>0. y \in Nat /\ y >= 1 /\ z \in Nat /\ z >= 1 /\ n + z = n + y + 1
    BY <1>8
  <2>1. CASE n + z <= Len(rows)
    <3>1. n + y \in 1..Len(rows) /\ n + y < Len(rows) /\ n + z \in 1..Len(rows)
      BY <1>2, <2>0, <2>1
    <3>2. s[y] = rows[n + y] /\ s[z] = rows[n + z]
      BY <1>5, <2>1, <3>1
    <3>3. Placed(t, s[y]) /\ Placed(t, s[z]) /\ Follows(t, s[y], s[z])
      BY <1>2, <2>0, <3>1, <3>2
    <3> QED
      BY <3>3 DEF Follows, NextRow, Placed, Row
  <2>2. CASE n + y = Len(rows)
    <3>1. n + y <= Len(rows) /\ ~(n + z <= Len(rows))
      BY <1>2, <2>0, <2>2
    <3>2. s[y] = rows[n + y] /\ s[z] = below(z)
      BY <1>5, <3>1
    <3>3. s[y].line = Len(t) /\ EndsLine(t, s[y])
      BY <1>2, <2>2, <3>2
    <3>4. s[z].line > Len(t) /\ s[z].at = 0
      BY <1>6, <2>0, <3>2
    <3> QED
      BY <3>3, <3>4 DEF NextRow
  <2>3. CASE n + y > Len(rows)
    <3>1. s[y] = below(y) /\ s[z] = below(z)
      BY <1>2, <1>5, <2>0, <2>3
    <3>2. s[y].line = Len(t) + n + y /\ s[z].line = Len(t) + n + z /\ s[z].at = 0 /\ s[y].line > Len(t)
      BY <1>6, <2>0, <3>1
    <3>3. s[z].line > s[y].line
      BY <1>1, <2>0, <3>2
    <3>4. ~Placed(t, s[y])
      BY <1>1, <3>2 DEF Placed
    <3> QED
      BY <3>2, <3>3, <3>4 DEF NextRow
  <2> QED
    BY <1>2, <2>0, <2>1, <2>2, <2>3
<1>9. ASSUME NEW y \in 1..Height, s[y].cells # <<>> PROVE n + y \in 1..Len(rows) /\ s[y] = rows[n + y]
  <2>1. n + y <= Len(rows)
    <3>1. y \in Nat /\ y >= 1
      OBVIOUS
    <3> QED
      BY <1>5, <1>6, <1>9, <3>1
  <2>2. n + y \in 1..Len(rows)
    BY <1>2, <2>1
  <2> QED
    BY <1>5, <2>1, <2>2
<1> QED
  BY <1>7, <1>8, <1>9 DEF Scene, s, rows

(* Which row begins the line of a row, and how many lines begin above it.  *)
Rank(s, y) == Cardinality({z \in Starts(s) : z <= y})

(* The lines that begin on the screen can be counted, and the count goes up*)
(* by one where a line begins and stays where none does.                   *)
LEMMA StartsFinite ==
  ASSUME NEW s
  PROVE  /\ IsFiniteSet(Starts(s)) /\ Starts(s) \subseteq 1..Height /\ Cardinality(Starts(s)) \in Nat
         /\ 1 \in Starts(s)
         /\ \A y : IsFiniteSet({z \in Starts(s) : z <= y}) /\ Rank(s, y) \in Nat
                   /\ Rank(s, y) <= Cardinality(Starts(s))
<1>1. Starts(s) \subseteq 1..Height /\ 1 \in Starts(s)
  BY TextAssumption DEF Starts
<1>2. IsFiniteSet(1..Height)
  BY FS_Interval, TextAssumption
<1>3. IsFiniteSet(Starts(s)) /\ Cardinality(Starts(s)) \in Nat
  BY <1>1, <1>2, FS_Subset, FS_CardinalityType
<1>4. ASSUME NEW y
      PROVE  /\ IsFiniteSet({z \in Starts(s) : z <= y}) /\ Rank(s, y) \in Nat
             /\ Rank(s, y) <= Cardinality(Starts(s))
  <2> DEFINE T == {z \in Starts(s) : z <= y}
  <2>1. T \subseteq Starts(s)
    OBVIOUS
  <2> HIDE DEF T
  <2>2. IsFiniteSet(T) /\ Cardinality(T) \in Nat /\ Cardinality(T) <= Cardinality(Starts(s))
    BY <1>3, <2>1, FS_Subset, FS_CardinalityType
  <2> QED
    BY <2>2 DEF Rank, T
<1> QED
  BY <1>1, <1>3, <1>4

LEMMA RankFirst == ASSUME NEW s PROVE Rank(s, 1) = 1
<1>1. {z \in Starts(s) : z <= 1} = {1}
  BY StartsFinite, TextAssumption
<1>2. Cardinality({1}) = 1
  BY FS_Singleton
<1> QED
  BY <1>1, <1>2 DEF Rank

LEMMA RankSame ==
  ASSUME NEW s, NEW p \in 1..Height, NEW q \in 1..Height, p <= q,
         \A z \in p + 1..q : z \notin Starts(s)
  PROVE  Rank(s, p) = Rank(s, q)
<1>1. {z \in Starts(s) : z <= p} = {z \in Starts(s) : z <= q}
  BY StartsFinite
<1> QED
  BY <1>1 DEF Rank

LEMMA RankLess ==
  ASSUME NEW s, NEW p \in 1..Height, NEW q \in Starts(s), p < q
  PROVE  Rank(s, p) < Rank(s, q)
<1> DEFINE P == {z \in Starts(s) : z <= p}
           Q == {z \in Starts(s) : z <= q}
<1>1. P \subseteq Q /\ q \in Q /\ q \notin P
  BY StartsFinite
<1>2. IsFiniteSet(Q) /\ IsFiniteSet(P)
  BY StartsFinite
<1> HIDE DEF P, Q
<1>3. Cardinality(P) \in Nat /\ Cardinality(Q) \in Nat /\ Cardinality(P) <= Cardinality(Q)
  BY <1>1, <1>2, FS_Subset, FS_CardinalityType
<1>4. Cardinality(P) # Cardinality(Q)
  BY <1>1, <1>2, FS_Subset
<1>5. Cardinality(P) < Cardinality(Q)
  BY <1>3, <1>4
<1> QED
  BY <1>5 DEF P, Q, Rank

LEMMA RankNext ==
  ASSUME NEW s, NEW p \in 1..Height, NEW q \in Starts(s), q = p + 1
  PROVE  Rank(s, q) = Rank(s, p) + 1
<1> DEFINE P == {z \in Starts(s) : z <= p}
           Q == {z \in Starts(s) : z <= q}
<1>1. Q = P \cup {q} /\ q \notin P
  BY StartsFinite
<1>2. IsFiniteSet(P)
  BY StartsFinite
<1> HIDE DEF P, Q
<1>3. Cardinality(Q) = Cardinality(P) + 1
  BY <1>1, <1>2, FS_AddElement
<1> QED
  BY <1>3 DEF P, Q, Rank

(* The line of a row begins at a row that the second capture counts there. *)
LEMMA BeginsAt ==
  ASSUME NEW s, NEW y \in 1..Height
  PROVE  \E h \in Starts(s) : /\ h <= y /\ \A z \in h + 1..y : z \notin Starts(s)
                              /\ Start(s, Rank(s, y)) = h
<1> DEFINE B == {z \in Starts(s) : z <= y}
<1>1. B \subseteq 0..y /\ B # {} /\ y \in Nat
  BY StartsFinite
<1>2. PICK h \in B : \A k \in B : k <= h
  <2> HIDE DEF B
  <2> QED
    BY <1>1, Greatest
<1>3. h \in Starts(s) /\ h \in 1..Height /\ h <= y
  BY StartsFinite
<1>4. ASSUME NEW z \in h + 1..y PROVE z \notin Starts(s)
  BY <1>2, <1>3
<1>5. Rank(s, h) = Rank(s, y)
  BY <1>3, <1>4, RankSame
<1>6. ASSUME NEW k \in Starts(s), Rank(s, k) = Rank(s, y) PROVE k = h
  <2>1. k \in 1..Height
    BY StartsFinite
  <2>2. ~(k < h) /\ ~(h < k)
    <3>1. Rank(s, h) = Rank(s, k) /\ Rank(s, h) \in Nat
      BY <1>5, <1>6, StartsFinite
    <3>2. k < h => Rank(s, k) < Rank(s, h)
      BY <1>3, <2>1, RankLess
    <3>3. h < k => Rank(s, h) < Rank(s, k)
      BY <1>3, <2>1, RankLess
    <3> QED
      BY <3>1, <3>2, <3>3
  <2> QED
    BY <1>3, <2>1, <2>2
<1>7. Start(s, Rank(s, y)) = h
  BY <1>3, <1>5, <1>6 DEF Start, Rank
<1> QED
  BY <1>3, <1>4, <1>7

(* A row shows its line from where it begins up to the width of the screen.*)
LEMMA RowCells ==
  ASSUME NEW t \in Seq(Seq(Cells)), NEW r, Placed(t, r)
  PROVE  /\ t[r.line] \in Seq(Cells) /\ Len(t[r.line]) \in Nat /\ r.at \in Nat /\ r.line \in Nat
         /\ Len(r.cells) = Upto(r.at + Width, Len(t[r.line])) - r.at /\ Len(r.cells) \in Nat
         /\ r.at + Len(r.cells) <= Len(t[r.line])
         /\ r.cells = SubSeq(t[r.line], r.at + 1, r.at + Len(r.cells))
         /\ r.cells = <<>> <=> t[r.line] = <<>>
         /\ r.cells # <<>> => Len(r.cells) >= 1
         /\ ~EndsLine(t, r) => Len(r.cells) = Width /\ r.at + Width < Len(t[r.line])
         /\ EndsLine(t, r) => r.at + Len(r.cells) = Len(t[r.line])
<1> DEFINE l == t[r.line]
           b == Upto(r.at + Width, Len(l))
<1>1. r \in Row /\ r.line \in 1..Len(t) /\ (r.at < Len(l) \/ (r.at = 0 /\ l = <<>>)) /\ r.cells = SubSeq(l, r.at + 1, b)
  BY DEF Placed
<1>2. l \in Seq(Cells) /\ r.at \in Nat /\ r.line \in Nat /\ Len(l) \in Nat /\ Width \in Nat /\ Width >= 1
  BY <1>1, TextAssumption DEF Row
<1>3. (l = <<>>) <=> Len(l) = 0
  BY <1>2
<1> HIDE DEF l
<1>4. b \in Nat /\ b <= Len(l) /\ r.at <= b /\ (l # <<>> => r.at < b)
      /\ (r.at + Width < Len(l) => b = r.at + Width) /\ (~(r.at + Width < Len(l)) => b = Len(l))
  BY <1>1, <1>2, <1>3 DEF Upto
<1> HIDE DEF b
<1>5. Len(r.cells) = b - r.at /\ r.cells \in Seq(Cells)
  <2>1. r.cells \in Seq(Cells)
    BY <1>1 DEF Row
  <2>2. PICK a \in Nat : a = r.at
    BY <1>2
  <2>3. Len(SubSeq(l, a + 1, b)) = b - a
    BY <1>2, <1>4, <2>2
  <2> QED
    BY <1>1, <2>1, <2>2, <2>3
<1>6. (r.cells = <<>>) <=> Len(r.cells) = 0
  BY <1>5
<1>7. Len(r.cells) \in Nat /\ r.at + Len(r.cells) = b
  BY <1>2, <1>4, <1>5
<1>8. (r.cells = <<>>) <=> l = <<>>
  BY <1>1, <1>2, <1>3, <1>4, <1>5, <1>6
<1>9. EndsLine(t, r) <=> ~(r.at + Width < Len(l))
  BY <1>2 DEF EndsLine, l
<1>10. r.cells # <<>> => Len(r.cells) >= 1
  BY <1>6, <1>7
<1>11. Len(r.cells) = Upto(r.at + Width, Len(l)) - r.at
  BY <1>5 DEF b
<1>12. ~EndsLine(t, r) => Len(r.cells) = Width /\ r.at + Width < Len(l)
  BY <1>2, <1>4, <1>5, <1>9
<1>13. EndsLine(t, r) => r.at + Len(r.cells) = Len(l)
  BY <1>4, <1>7, <1>9
<1>14. r.cells = SubSeq(l, r.at + 1, r.at + Len(r.cells)) /\ r.at + Len(r.cells) <= Len(l)
  BY <1>1, <1>4, <1>7
<1> QED
  BY <1>2, <1>7, <1>8, <1>10, <1>11, <1>12, <1>13, <1>14 DEF l

LEMMA EmptyRow ==
  ASSUME NEW t \in Seq(Seq(Cells)), NEW r, Placed(t, r), r.cells = <<>> \/ t[r.line] = <<>>
  PROVE  r.at = 0 /\ t[r.line] = <<>>
<1>1. t[r.line] = <<>> /\ r.at \in Nat
  BY RowCells
<1> QED
  BY <1>1 DEF Placed

(* Lines go down the screen in order.                                      *)
LEMMA LinesGrow ==
  ASSUME NEW t \in Seq(Seq(Cells)), NEW s, Scene(t, s), NEW p \in 1..Height, NEW q \in 1..Height, p <= q
  PROVE  s[p].line <= s[q].line
<1> DEFINE S == {z \in 1..Height : s[p].line <= s[z].line}
<1>0. \A z \in 1..Height : s[z].line \in Nat
  BY DEF Scene, OnRow, Placed, Row
<1> Height \in Nat /\ p \in Nat /\ q \in Nat
  BY TextAssumption
<1>1. p \in S
  BY <1>0
<1>2. ASSUME NEW z \in p..q, z < q /\ z \in S PROVE z + 1 \in S
  <2>1. z \in 1..Height /\ z + 1 \in 1..Height
    BY <1>2
  <2>2. NextRow(t, s[z], s[z + 1])
    BY <2>1 DEF Scene
  <2>3. s[z].line <= s[z + 1].line
    BY <1>0, <2>1, <2>2 DEF NextRow
  <2> QED
    BY <1>0, <1>2, <2>1, <2>3
<1>3. p..q \subseteq S
  <2> HIDE DEF S
  <2> QED
    BY <1>1, <1>2, RangeInduction
<1> QED
  BY <1>3

(* The rows between two starts are one line.                               *)
LEMMA SameLine ==
  ASSUME NEW t \in Seq(Seq(Cells)), NEW s, Scene(t, s), NEW p \in 1..Height, NEW q \in 1..Height, p <= q,
         \A z \in p + 1..q : z \notin Starts(s)
  PROVE  /\ s[q].line = s[p].line /\ s[p].at <= s[q].at
         /\ p < q => Placed(t, s[p]) /\ Placed(t, s[q]) /\ s[p].at + Width <= s[q].at
<1> DEFINE S == {z \in 1..Height : /\ s[z].line = s[p].line /\ s[p].at <= s[z].at
                                   /\ p < z => Placed(t, s[p]) /\ Placed(t, s[z]) /\ s[p].at + Width <= s[z].at}
<1>0. \A z \in 1..Height : s[z].line \in Nat /\ s[z].at \in Nat /\ Width \in Nat
  BY TextAssumption DEF Scene, OnRow, Placed, Row
<1> Height \in Nat /\ p \in Nat /\ q \in Nat
  BY TextAssumption
<1>1. p \in S
  BY <1>0
<1>2. ASSUME NEW z \in p..q, z < q /\ z \in S PROVE z + 1 \in S
  <2>1. z \in 1..Height /\ z + 1 \in 1..Height /\ z + 1 \in p + 1..q /\ z + 1 # 1 /\ z + 1 - 1 = z
    BY <1>2
  <2>2. NextRow(t, s[z], s[z + 1])
    BY <2>1 DEF Scene
  <2>3. s[z + 1].line = s[z].line
    BY <2>1 DEF Starts
  <2>4. Placed(t, s[z]) /\ Placed(t, s[z + 1]) /\ s[z + 1].at = s[z].at + Width
    BY <1>0, <2>1, <2>2, <2>3 DEF NextRow
  <2>5. s[z].line = s[p].line /\ s[p].at <= s[z].at
    BY <1>2
  <2>6. s[p].at + Width <= s[z + 1].at /\ s[p].at <= s[z + 1].at
    BY <1>0, <2>1, <2>4, <2>5
  <2>7. Placed(t, s[p])
    BY <1>2, <2>1, <2>4
  <2> QED
    BY <2>1, <2>3, <2>4, <2>5, <2>6, <2>7
<1>3. p..q \subseteq S
  <2> HIDE DEF S
  <2> QED
    BY <1>1, <1>2, RangeInduction
<1> QED
  BY <1>3

(* A line on the screen ends where the next one begins.                    *)
LEMMA EndsAt ==
  ASSUME NEW t \in Seq(Seq(Cells)), NEW s, Scene(t, s), NEW h \in Starts(s)
  PROVE  \E e \in h..Height : /\ e = Height \/ e + 1 \in Starts(s)
                              /\ \A z \in h + 1..e : z \notin Starts(s)
                              /\ End(s, h) = e
<1> DEFINE B == {z \in h..Height : z = Height \/ z + 1 \in Starts(s)}
<1>0. h \in 1..Height /\ Height \in Nat
  BY StartsFinite, TextAssumption
<1>1. B \subseteq Nat /\ B # {}
  <2>1. Height \in h..Height
    BY <1>0
  <2>2. Height \in B
    BY <2>1
  <2>3. h..Height \subseteq Nat
    BY <1>0
  <2> QED
    BY <2>2, <2>3
<1>2. PICK e \in B : \A k \in B : e <= k
  <2> HIDE DEF B
  <2> QED
    BY <1>1, Least
<1>3. e \in h..Height /\ (e = Height \/ e + 1 \in Starts(s))
  OBVIOUS
<1>4. ASSUME NEW z \in h + 1..e, z \in Starts(s) PROVE FALSE
  <2>1. z - 1 \in h..Height /\ z - 1 + 1 = z
    BY <1>0, <1>3
  <2>2. z - 1 \in B
    BY <1>4, <2>1
  <2>3. e <= z - 1
    BY <1>2, <2>2
  <2> QED
    BY <1>0, <1>3, <2>3
<1>5. ASSUME NEW z \in h..e PROVE s[z].line = s[h].line
  <2>1. z \in 1..Height /\ h <= z /\ \A w \in h + 1..z : w \notin Starts(s)
    BY <1>0, <1>3, <1>4
  <2> QED
    BY <1>0, <2>1, SameLine
<1>6. \A z \in 1..Height : s[z].line \in Nat
  BY DEF Scene, OnRow, Placed, Row
<1>7. e = Height \/ s[e + 1].line # s[h].line
  <2>1. e + 1 \in Starts(s) => s[e + 1].line # s[e].line
    BY <1>0, <1>3 DEF Starts
  <2> QED
    BY <1>0, <1>3, <1>5, <2>1
<1>8. ASSUME NEW z \in h..Height, s[z].line = s[h].line, z = Height \/ s[z + 1].line # s[h].line
      PROVE  z = e
  <2>1. ~(z < e)
    <3> SUFFICES ASSUME z < e PROVE FALSE
      OBVIOUS
    <3>1. z + 1 \in h..e /\ z # Height
      BY <1>0, <1>3
    <3> QED
      BY <1>5, <1>8, <3>1
  <2>2. ~(z > e)
    <3> SUFFICES ASSUME z > e PROVE FALSE
      OBVIOUS
    <3>1. e + 1 \in 1..Height /\ e + 1 <= z /\ z \in 1..Height /\ h <= e + 1 /\ e # Height
      BY <1>0, <1>3
    <3>2. s[h].line <= s[e + 1].line /\ s[e + 1].line <= s[z].line
      BY <1>0, <3>1, LinesGrow
    <3> QED
      BY <1>0, <1>6, <1>7, <1>8, <3>1, <3>2
  <2> QED
    BY <1>0, <1>3, <2>1, <2>2
<1>9. End(s, h) = e
  BY <1>0, <1>3, <1>5, <1>7, <1>8 DEF End
<1> QED
  BY <1>3, <1>4, <1>9

(* What the second capture shows of a row's line, and where the row is in  *)
(* it.                                                                     *)
LineStart(s, y) == Start(s, Rank(s, y))
Used(s, y) == s[y].at - s[LineStart(s, y)].at
IsLast(s, y) == y = Height \/ y + 1 \in Starts(s)
LineEnd(s, y) == s[End(s, LineStart(s, y))].at + Len(s[End(s, LineStart(s, y))].cells)

(* The joined line runs from where its first row begins to where its last  *)
(* one ends, which is the row itself if no other of the line is below it.  *)
LEMMA JoinedLine ==
  ASSUME NEW t \in Seq(Seq(Cells)), NEW s, Scene(t, s), NEW y \in 1..Height
  PROVE  /\ LineStart(s, y) \in Starts(s) /\ LineStart(s, y) <= y
         /\ Used(s, y) \in Nat /\ s[LineStart(s, y)].at \in Nat /\ s[y].at \in Nat
         /\ s[y].at = s[LineStart(s, y)].at + Used(s, y)
         /\ y \in Starts(s) => LineStart(s, y) = y
         /\ s[y].cells = <<>> => OnScreen(t, s, LineStart(s, y)) = <<>> /\ Used(s, y) = 0 /\ IsLast(s, y)
         /\ s[y].cells # <<>> =>
              /\ OnScreen(t, s, LineStart(s, y))
                   = SubSeq(t[s[y].line], s[LineStart(s, y)].at + 1, LineEnd(s, y))
              /\ Placed(t, s[y]) /\ LineEnd(s, y) \in Nat /\ LineEnd(s, y) <= Len(t[s[y].line])
              /\ s[y].at + Len(s[y].cells) <= LineEnd(s, y)
              /\ s[y].at + Len(s[y].cells) = LineEnd(s, y) <=> IsLast(s, y)
<1> DEFINE h == LineStart(s, y)
           u == Used(s, y)
           l == t[s[y].line]
           j == OnScreen(t, s, h)
           last == IsLast(s, y)
<1>0. /\ \A z \in 1..Height : s[z].line \in Nat /\ s[z].at \in Nat /\ OnRow(t, s[z])
      /\ Height \in Nat /\ Width \in Nat /\ Width >= 1
  <2>1. \A z \in 1..Height : OnRow(t, s[z])
    BY DEF Scene
  <2>2. \A z \in 1..Height : s[z].line \in Nat /\ s[z].at \in Nat
    BY <2>1 DEF OnRow, Placed, Row
  <2>3. Height \in Nat /\ Width \in Nat /\ Width >= 1
    BY TextAssumption
  <2> QED
    BY <2>1, <2>2, <2>3
<1>1. h \in Starts(s) /\ h \in 1..Height /\ h <= y /\ \A z \in h + 1..y : z \notin Starts(s)
  <2>1. PICK g \in Starts(s) : /\ g <= y /\ \A z \in g + 1..y : z \notin Starts(s)
                              /\ Start(s, Rank(s, y)) = g
    BY BeginsAt
  <2> QED
    BY <2>1, StartsFinite DEF LineStart
<1> HIDE DEF h
<1>2. /\ s[y].line = s[h].line /\ s[h].at <= s[y].at
      /\ h < y => Placed(t, s[h]) /\ Placed(t, s[y]) /\ s[h].at + Width <= s[y].at
  BY <1>1, SameLine
<1>3. PICK e \in h..Height : /\ e = Height \/ e + 1 \in Starts(s)
                             /\ \A z \in h + 1..e : z \notin Starts(s)
                             /\ End(s, h) = e
  BY <1>1, EndsAt
<1>4. y <= e /\ e \in 1..Height
  <2> SUFFICES ASSUME e < y PROVE FALSE
    BY <1>0, <1>1
  <2>1. e # Height /\ e + 1 \in h + 1..y
    BY <1>0, <1>1
  <2> QED
    BY <1>1, <1>3, <2>1
<1>5. /\ s[e].line = s[y].line
      /\ y < e => Placed(t, s[y]) /\ Placed(t, s[e]) /\ s[y].at + Width <= s[e].at
  <2>1. \A z \in y + 1..e : z \notin Starts(s)
    BY <1>0, <1>1, <1>3
  <2> QED
    BY <1>4, <2>1, SameLine
<1>6. last <=> y = e
  <2>1. y = e => last
    BY <1>3 DEF IsLast
  <2>2. y < e => y # Height /\ y + 1 \in h + 1..e
    BY <1>0, <1>1, <1>4
  <2>3. y < e => ~last
    BY <1>3, <2>2 DEF IsLast
  <2>4. y = e \/ y < e
    BY <1>0, <1>4
  <2> QED
    BY <2>1, <2>3, <2>4
<1> HIDE DEF last
<1>7. u \in Nat /\ s[y].at = s[h].at + u /\ s[h].at \in Nat /\ s[y].at \in Nat
  <2>1. u = s[y].at - s[h].at
    BY DEF Used, h
  <2> HIDE DEF u
  <2> QED
    BY <1>0, <1>1, <1>2, <2>1
<1> HIDE DEF u
<1>8. y \in Starts(s) => h = y
  BY <1>0, <1>1
<1>9. ASSUME s[y].cells = <<>> PROVE j = <<>> /\ u = 0 /\ last
  <2>1. Placed(t, s[y]) => s[y].at = 0 /\ l = <<>>
    BY <1>9, EmptyRow
  <2>2. h = y
    <3>1. s[h].at \in Nat /\ s[y].at \in Nat
      BY <1>0, <1>1
    <3>2. ~(h < y)
      <4> SUFFICES ASSUME h < y PROVE FALSE
        OBVIOUS
      <4>1. s[h].at + Width <= s[y].at /\ s[y].at = 0
        BY <1>2, <2>1
      <4>2. Width \in Nat /\ Width >= 1
        BY <1>0
      <4> QED
        BY <3>1, <4>1, <4>2
    <3> QED
      BY <1>0, <1>1, <3>2
  <2>3. y = e
    <3> SUFFICES ASSUME y < e PROVE FALSE
      BY <1>0, <1>4
    <3>1. Placed(t, s[y]) /\ Placed(t, s[e]) /\ s[y].at + Width <= s[e].at /\ t[s[e].line] = <<>>
      <4>1. y < e => t[s[e].line] = <<>>
        BY <1>5, <2>1
      <4> QED
        BY <1>5, <4>1
    <3>2. s[e].at = 0
      BY <3>1, EmptyRow
    <3>3. s[y].at \in Nat /\ Width \in Nat /\ Width >= 1
      BY <1>0
    <3>4. s[y].at + Width <= 0
      BY <3>1, <3>2
    <3> QED
      BY <3>3, <3>4
  <2>4. u = 0
    BY <1>7, <2>2
  <2>5. j = <<>>
    BY <1>9, <2>2 DEF OnScreen
  <2> QED
    BY <1>6, <2>3, <2>4, <2>5
<1> DEFINE b == LineEnd(s, y)
<1>10. ASSUME s[y].cells # <<>>
       PROVE  /\ j = SubSeq(l, s[h].at + 1, b)
              /\ Placed(t, s[y]) /\ b \in Nat /\ b <= Len(l)
              /\ s[y].at + Len(s[y].cells) <= b
              /\ s[y].at + Len(s[y].cells) = b <=> last
  <2>1. Placed(t, s[y])
    BY <1>0, <1>10 DEF OnRow
  <2>2. Placed(t, s[h]) /\ Placed(t, s[e])
    BY <1>0, <1>1, <1>2, <1>4, <1>5, <2>1
  <2>3. /\ l # <<>> /\ t[s[h].line] = l /\ t[s[e].line] = l
    BY <1>2, <1>5, <1>10, <2>1, RowCells
  <2>4. s[h].cells # <<>> /\ s[e].cells # <<>>
    BY <2>2, <2>3, RowCells
  <2>5. b = s[e].at + Len(s[e].cells)
    BY <1>3 DEF LineEnd, h
  <2> HIDE DEF b
  <2>6. j = SubSeq(l, s[h].at + 1, b)
    BY <1>3, <2>5, <2>3, <2>4 DEF OnScreen
  <2>7. b \in Nat /\ b <= Len(l) /\ Len(s[e].cells) >= 1 /\ Len(s[e].cells) \in Nat
    <3>1. /\ Len(s[e].cells) \in Nat /\ s[e].at \in Nat /\ s[e].at + Len(s[e].cells) <= Len(t[s[e].line])
          /\ s[e].cells # <<>> => Len(s[e].cells) >= 1
      BY <2>2, RowCells
    <3>2. Len(s[e].cells) >= 1 /\ s[e].at + Len(s[e].cells) <= Len(l)
      BY <2>3, <2>4, <3>1
    <3>3. s[e].at + Len(s[e].cells) \in Nat
      BY <3>1
    <3>4. b \in Nat /\ b <= Len(l)
      <4> HIDE DEF l
      <4> QED
        BY <2>5, <3>2, <3>3
    <3> QED
      BY <3>1, <3>2, <3>4
  <2>8. Len(s[y].cells) \in Nat /\ Len(s[y].cells) <= Width
    <3>1. /\ Len(s[y].cells) = Upto(s[y].at + Width, Len(t[s[y].line])) - s[y].at
          /\ Len(s[y].cells) \in Nat /\ s[y].at \in Nat /\ Len(t[s[y].line]) \in Nat
      BY <2>1, RowCells
    <3>2. \A a, w, k \in Nat : Upto(a + w, k) - a <= w
      BY DEF Upto
    <3>3. Width \in Nat
      BY <1>0
    <3> QED
      BY <3>1, <3>2, <3>3
  <2>9. y < e => s[y].at + Len(s[y].cells) < b
    <3>1. s[y].at \in Nat /\ s[e].at \in Nat
      BY <1>0, <1>4
    <3>2. SUFFICES ASSUME y < e PROVE s[y].at + Len(s[y].cells) < s[e].at + Len(s[e].cells)
      BY <2>5
    <3>3. s[y].at + Width <= s[e].at
      BY <1>5, <3>2
    <3>4. \A a, k, c, d, w \in Nat : a + w <= k /\ c <= w /\ d >= 1 => a + c < k + d
      OBVIOUS
    <3>5. Len(s[y].cells) \in Nat /\ Len(s[y].cells) <= Width /\ Len(s[e].cells) \in Nat /\ Len(s[e].cells) >= 1
      BY <2>7, <2>8
    <3> QED
      BY <1>0, <3>1, <3>3, <3>4, <3>5
  <2>10. y = e => s[y].at + Len(s[y].cells) = b
    BY <2>5
  <2>11. s[y].at + Len(s[y].cells) <= b /\ (s[y].at + Len(s[y].cells) = b <=> y = e)
    <3>1. s[y].at \in Nat /\ (y < e \/ y = e)
      BY <1>0, <1>4
    <3> QED
      BY <2>7, <2>8, <2>9, <2>10, <3>1
  <2>12. (s[y].at + Len(s[y].cells) = b) <=> last
    BY <1>6, <2>11
  <2> QED
    BY <2>1, <2>6, <2>7, <2>11, <2>12
<1> QED
  BY <1>1, <1>7, <1>8, <1>9, <1>10 DEF h, u, b, last

(* A row that begins no line goes on where the one above it ends.          *)
LEMMA LineGoesOn ==
  ASSUME NEW t \in Seq(Seq(Cells)), NEW s, Scene(t, s), NEW y \in 1..Height, NEW z \in 1..Height, z = y + 1,
         z \notin Starts(s)
  PROVE  s[z].at = s[y].at + Len(s[y].cells)
<1>1. s[z].line = s[y].line
  BY DEF Starts
<1>2. NextRow(t, s[y], s[z]) /\ s[y].line \in Nat
  BY DEF Scene, OnRow, Placed, Row
<1>3. Placed(t, s[y]) /\ s[z].at = s[y].at + Width /\ ~EndsLine(t, s[y])
  BY <1>1, <1>2 DEF NextRow
<1> QED
  BY <1>3, RowCells

-----------------------------------------------------------------------------
(* Runs of cells.                                                          *)

LEMMA Cut ==
  ASSUME NEW s \in Seq(Cells), NEW a \in Nat, NEW b \in Nat, 1 <= a, a <= b + 1, b <= Len(s)
  PROVE  /\ SubSeq(s, a, b) \in Seq(Cells) /\ Len(SubSeq(s, a, b)) = b - a + 1
         /\ \A k \in 1..b - a + 1 : SubSeq(s, a, b)[k] = s[a - 1 + k]
<1>1. Len(s) \in Nat /\ \A i \in 1..Len(s) : s[i] \in Cells
  OBVIOUS
<1>2. \A i \in a..b : s[i] \in Cells
  BY <1>1
<1>3. /\ SubSeq(s, a, b) \in Seq(Cells)
      /\ Len(SubSeq(s, a, b)) = IF a <= b THEN b - a + 1 ELSE 0
      /\ \A i \in 1..b - a + 1 : SubSeq(s, a, b)[i] = s[a + i - 1]
  BY <1>2, SubSeqProperties
<1> QED
  BY <1>3

(* A part of a part.                                                       *)
LEMMA CutOfCut ==
  ASSUME NEW s \in Seq(Cells), NEW a \in Nat, NEW b \in Nat, 1 <= a, a <= b + 1, b <= Len(s),
         NEW i \in Nat, NEW k \in Nat, 1 <= i, i <= k + 1, k <= b - a + 1
  PROVE  SubSeq(SubSeq(s, a, b), i, k) = SubSeq(s, a - 1 + i, a - 1 + k)
<1> DEFINE v == SubSeq(s, a, b)
           p == SubSeq(v, i, k)
           q == SubSeq(s, a - 1 + i, a - 1 + k)
<1>0. Len(s) \in Nat
  OBVIOUS
<1>1. v \in Seq(Cells) /\ Len(v) = b - a + 1 /\ \A n \in 1..b - a + 1 : v[n] = s[a - 1 + n]
  BY Cut
<1>2. p \in Seq(Cells) /\ Len(p) = k - i + 1 /\ \A n \in 1..k - i + 1 : p[n] = v[i - 1 + n]
  <2> HIDE DEF v
  <2> QED
    BY <1>1, Cut
<1>3. /\ q \in Seq(Cells) /\ Len(q) = k - i + 1
      /\ \A n \in 1..k - i + 1 : q[n] = s[a - 1 + i - 1 + n]
  <2> DEFINE c == a - 1 + i
             d == a - 1 + k
  <2>1. c \in Nat /\ d \in Nat /\ 1 <= c /\ c <= d + 1 /\ d <= Len(s) /\ d - c + 1 = k - i + 1
    BY <1>0
  <2> HIDE DEF c, d
  <2>2. /\ SubSeq(s, c, d) \in Seq(Cells) /\ Len(SubSeq(s, c, d)) = d - c + 1
        /\ \A n \in 1..d - c + 1 : SubSeq(s, c, d)[n] = s[c - 1 + n]
    BY <2>1, Cut
  <2> QED
    BY <2>1, <2>2 DEF c, d
<1>4. ASSUME NEW n \in 1..Len(p) PROVE p[n] = q[n]
  <2>1. n \in 1..k - i + 1 /\ i - 1 + n \in 1..b - a + 1 /\ a - 1 + (i - 1 + n) = a - 1 + i - 1 + n
    <3>1. n \in 1..k - i + 1
      BY <1>2
    <3> QED
      BY <3>1
  <2>2. p[n] = v[i - 1 + n] /\ q[n] = s[a - 1 + i - 1 + n]
    BY <1>2, <1>3, <2>1
  <2>3. v[i - 1 + n] = s[a - 1 + (i - 1 + n)]
    BY <1>1, <2>1
  <2> QED
    BY <2>1, <2>2, <2>3
<1> HIDE DEF p, q
<1>5. p = q
  BY <1>2, <1>3, <1>4, SeqEqual
<1> QED
  BY <1>5 DEF p, q, v

(* The run around a cell that is not blank.                                *)
LEMMA RunBounds ==
  ASSUME NEW s \in Seq(Cells), NEW m \in 1..Len(s), s[m] # Blank
  PROVE  \E f \in 1..m : \E e \in m..Len(s) :
           /\ RunAt(s, m) = SubSeq(s, f, e)
           /\ \A i \in f..e : s[i] # Blank
           /\ f = 1 \/ s[f - 1] = Blank
           /\ e = Len(s) \/ s[e + 1] = Blank
<1>0. Len(s) \in Nat /\ m \in Nat /\ 1 <= m /\ m <= Len(s)
  OBVIOUS
<1> DEFINE F(i) == (\A k \in i..m : s[k] # Blank) /\ (i = 1 \/ s[i - 1] = Blank)
           E(i) == (\A k \in m..i : s[k] # Blank) /\ (i = Len(s) \/ s[i + 1] = Blank)
           from == CHOOSE i \in 1..m : F(i)
           to == CHOOSE i \in m..Len(s) : E(i)
<1>1. \E i \in 1..m : F(i)
  <2> DEFINE S == {i \in 1..m : \A k \in i..m : s[k] # Blank}
  <2>1. S \subseteq Nat /\ m \in S
    BY <1>0
  <2>2. PICK i \in S : \A k \in S : i <= k
    <3> HIDE DEF S
    <3> QED
      BY <2>1, Least
  <2>3. i \in 1..m /\ \A k \in i..m : s[k] # Blank
    OBVIOUS
  <2>4. ASSUME i # 1, s[i - 1] # Blank PROVE FALSE
    <3>1. i - 1 \in 1..m /\ \A k \in i - 1..m : k = i - 1 \/ k \in i..m
      BY <1>0, <2>3, <2>4
    <3>2. i - 1 \in S
      BY <2>3, <2>4, <3>1
    <3>3. i <= i - 1
      BY <2>2, <3>2
    <3> QED
      BY <2>3, <3>3
  <2> QED
    BY <2>3, <2>4
<1>2. \E i \in m..Len(s) : E(i)
  <2> DEFINE S == {i \in m..Len(s) : \A k \in m..i : s[k] # Blank}
  <2>1. S \subseteq 0..Len(s) /\ m \in S
    BY <1>0
  <2>2. PICK i \in S : \A k \in S : k <= i
    <3> HIDE DEF S
    <3> QED
      BY <1>0, <2>1, Greatest
  <2>3. i \in m..Len(s) /\ \A k \in m..i : s[k] # Blank
    OBVIOUS
  <2>4. ASSUME i # Len(s), s[i + 1] # Blank PROVE FALSE
    <3>1. i + 1 \in m..Len(s) /\ \A k \in m..i + 1 : k = i + 1 \/ k \in m..i
      BY <1>0, <2>3, <2>4
    <3>2. i + 1 \in S
      BY <2>3, <2>4, <3>1
    <3>3. i + 1 <= i
      BY <2>2, <3>2
    <3> QED
      BY <1>0, <2>3, <3>3
  <2> QED
    BY <2>3, <2>4
<1>3. from \in 1..m /\ F(from)
  <2> HIDE DEF F
  <2> QED
    BY <1>1
<1>4. to \in m..Len(s) /\ E(to)
  <2> HIDE DEF E
  <2> QED
    BY <1>2
<1>5. RunAt(s, m) = SubSeq(s, from, to)
  <2>1. ~(m < 1 \/ m > Len(s)) /\ ~(s[m] = Blank)
    BY <1>0
  <2> QED
    BY <2>1, Zenon DEF RunAt
<1> HIDE DEF from, to
<1>6. \A i \in from..to : s[i] # Blank
  <2>1. \A i \in from..to : i \in from..m \/ i \in m..to
    BY <1>0, <1>3, <1>4
  <2> QED
    BY <1>3, <1>4, <2>1
<1> QED
  BY <1>3, <1>4, <1>5, <1>6

(* A part of a line, cut anywhere, shows a piece of the run under a cell,  *)
(* and all of it if none of its cells is cut off.                          *)
Part(s, a, b) == SubSeq(s, a, b)
Within(s, a, b, m) ==
  s \in Seq(Cells) /\ a \in 1..Len(s) /\ b \in a..Len(s) /\ m \in a..b /\ s[m] # Blank

LEMMA RunCut ==
  ASSUME NEW s, NEW a, NEW b, NEW m, Within(s, a, b, m), NEW v, v = Part(s, a, b), NEW n, n = m - a + 1
  PROVE  /\ RunAt(v, n) \in Pieces(RunAt(s, m)) /\ RunAt(v, n) # None
         /\ (\A i \in 1..Len(s) : (\A k \in (i..m) \cup (m..i) : s[k] # Blank) => i \in a..b)
              => RunAt(v, n) = RunAt(s, m)
<1> s \in Seq(Cells) /\ a \in 1..Len(s) /\ b \in a..Len(s) /\ m \in a..b /\ s[m] # Blank
  BY DEF Within
<1> v = SubSeq(s, a, b)
  BY DEF Part
<1>0. /\ Len(s) \in Nat /\ a \in Nat /\ b \in Nat /\ m \in Nat
      /\ 1 <= a /\ a <= m /\ m <= b /\ b <= Len(s) /\ m \in 1..Len(s)
  OBVIOUS
<1>1. v \in Seq(Cells) /\ Len(v) = b - a + 1 /\ \A k \in 1..b - a + 1 : v[k] = s[a - 1 + k]
  <2>1. a <= b + 1
    BY <1>0
  <2>2. /\ SubSeq(s, a, b) \in Seq(Cells) /\ Len(SubSeq(s, a, b)) = b - a + 1
        /\ \A k \in 1..b - a + 1 : SubSeq(s, a, b)[k] = s[a - 1 + k]
    BY <1>0, <2>1, Cut
  <2> QED
    BY <2>2
<1>2. n \in 1..Len(v) /\ v[n] # Blank /\ n \in Nat
  <2>1. n \in 1..b - a + 1 /\ a - 1 + n = m
    BY <1>0
  <2> QED
    BY <1>1, <2>1
<1>3. PICK f \in 1..m, e \in m..Len(s) :
           /\ RunAt(s, m) = SubSeq(s, f, e)
           /\ \A i \in f..e : s[i] # Blank
           /\ f = 1 \/ s[f - 1] = Blank
           /\ e = Len(s) \/ s[e + 1] = Blank
  BY <1>0, RunBounds
<1>4. PICK g \in 1..n, h \in n..Len(v) :
           /\ RunAt(v, n) = SubSeq(v, g, h)
           /\ \A i \in g..h : v[i] # Blank
           /\ g = 1 \/ v[g - 1] = Blank
           /\ h = Len(v) \/ v[h + 1] = Blank
  BY <1>1, <1>2, RunBounds
<1> DEFINE p == a - 1 + g
           q == a - 1 + h
<1>5. /\ p \in Nat /\ q \in Nat /\ a <= p /\ p <= m /\ m <= q /\ q <= b
      /\ f \in Nat /\ e \in Nat /\ 1 <= f /\ f <= m /\ m <= e /\ e <= Len(s)
      /\ g \in Nat /\ h \in Nat /\ 1 <= g /\ g <= h /\ h <= b - a + 1
  BY <1>0, <1>1, <1>2
<1>6. \A i \in p..q : s[i] # Blank
  <2> SUFFICES ASSUME NEW i \in p..q PROVE s[i] # Blank
    OBVIOUS
  <2>1. i - a + 1 \in g..h /\ i - a + 1 \in 1..b - a + 1 /\ a - 1 + (i - a + 1) = i
    BY <1>0, <1>5
  <2> QED
    BY <1>1, <1>4, <2>1
<1>7. f <= p
  <2> SUFFICES ASSUME p < f PROVE FALSE
    BY <1>5
  <2>1. f # 1 /\ f - 1 \in p..q
    BY <1>0, <1>5
  <2> QED
    BY <1>3, <1>6, <2>1
<1>8. q <= e
  <2> SUFFICES ASSUME e < q PROVE FALSE
    BY <1>5
  <2>1. e # Len(s) /\ e + 1 \in p..q
    BY <1>0, <1>5
  <2> QED
    BY <1>3, <1>6, <2>1
<1>9. RunAt(v, n) = SubSeq(s, p, q)
  <2>1. SubSeq(SubSeq(s, a, b), g, h) = SubSeq(s, a - 1 + g, a - 1 + h)
    BY <1>0, <1>5, CutOfCut
  <2> QED
    BY <1>4, <2>1
<1> HIDE DEF p, q
<1>10. RunAt(v, n) \in Pieces(RunAt(s, m))
  <2> DEFINE i == p - f + 1
             k == q - f + 1
  <2>1. i \in Nat /\ k \in Nat /\ 1 <= i /\ i <= k /\ k <= e - f + 1 /\ f - 1 + i = p /\ f - 1 + k = q
    BY <1>0, <1>5, <1>7, <1>8
  <2>2. Len(SubSeq(s, f, e)) = e - f + 1
    BY <1>5, Cut
  <2> HIDE DEF i, k
  <2>3. SubSeq(SubSeq(s, f, e), i, k) = SubSeq(s, f - 1 + i, f - 1 + k)
    BY <1>5, <2>1, CutOfCut
  <2>4. i \in 1..Len(RunAt(s, m)) /\ k \in 1..Len(RunAt(s, m))
    BY <1>3, <1>5, <2>1, <2>2
  <2>5. RunAt(v, n) = SubSeq(RunAt(s, m), i, k)
    BY <1>3, <1>9, <2>1, <2>3
  <2> QED
    BY <2>4, <2>5 DEF Pieces
<1>11. RunAt(v, n) # None
  <2>1. Len(SubSeq(s, p, q)) = q - p + 1
    BY <1>0, <1>5, Cut
  <2>2. Len(SubSeq(s, p, q)) >= 1
    BY <1>5, <2>1
  <2> QED
    <3>1. SubSeq(s, p, q) # <<>>
      <4>1. Len(<<>>) = 0 /\ ~(0 >= 1)
        OBVIOUS
      <4> QED
        BY <2>2, <4>1, Zenon
    <3> QED
      BY <1>9, <3>1 DEF None
<1>12. ASSUME \A i \in 1..Len(s) : (\A k \in (i..m) \cup (m..i) : s[k] # Blank) => i \in a..b
       PROVE  RunAt(v, n) = RunAt(s, m)
  <2>1. f \in a..b /\ e \in a..b
    <3>1. f \in 1..Len(s) /\ \A k \in (f..m) \cup (m..f) : k \in f..e
      BY <1>0, <1>5
    <3>2. e \in 1..Len(s) /\ \A k \in (e..m) \cup (m..e) : k \in f..e
      BY <1>0, <1>5
    <3> QED
      BY <1>3, <1>12, <3>1, <3>2
  <2>2. p <= f
    <3> SUFFICES ASSUME f < p PROVE FALSE
      BY <1>5
    <3>1. g # 1 /\ g - 1 \in 1..b - a + 1 /\ a - 1 + (g - 1) = p - 1 /\ p - 1 \in f..e
      BY <1>0, <1>5, <2>1 DEF p
    <3>2. v[g - 1] = s[p - 1] /\ v[g - 1] = Blank
      BY <1>1, <1>4, <3>1
    <3> QED
      BY <1>3, <3>1, <3>2
  <2>3. e <= q
    <3> SUFFICES ASSUME q < e PROVE FALSE
      BY <1>5
    <3>1. h # Len(v) /\ h + 1 \in 1..b - a + 1 /\ a - 1 + (h + 1) = q + 1 /\ q + 1 \in f..e
      BY <1>0, <1>1, <1>5, <2>1 DEF q
    <3>2. v[h + 1] = s[q + 1] /\ v[h + 1] = Blank
      BY <1>1, <1>4, <3>1
    <3> QED
      BY <1>3, <3>1, <3>2
  <2>4. p = f /\ q = e
    BY <1>5, <1>7, <1>8, <2>2, <2>3
  <2> QED
    BY <1>3, <1>9, <2>4
<1> QED
  BY <1>10, <1>11, <1>12

-----------------------------------------------------------------------------
(* The joined capture is read row by row.  What Match does at a place is   *)
(* its recursion taken once; that such a function exists goes by how far   *)
(* the place is from the end.                                              *)
MatchAt(rows, lines, row, x, from, p) ==
  IF p.line > Len(lines) \/ p.y > Len(rows) THEN None
  ELSE IF IsPrefix(rows[p.y], SubSeq(lines[p.line], p.used + 1, Len(lines[p.line])))
  THEN IF p.y = row THEN IF RunAt(lines[p.line], x + p.used) # None THEN RunAt(lines[p.line], x + p.used)
                         ELSE RunAt(rows[p.y], x)
       ELSE IF p.used + Len(rows[p.y]) >= Len(lines[p.line]) THEN from[Fresh(p.line + 1, p.y + 1)]
       ELSE from[Partway(p.line, p.y + 1, p.used + Len(rows[p.y]))]
  ELSE IF p.matched THEN from[Fresh(p.line + 1, p.y)]
  ELSE IF p.y = row THEN RunAt(rows[p.y], x)
  ELSE from[Fresh(p.line + 1, p.y + 1)]
Recurs(rows, lines, row, x, from) == \A p \in Place : from[p] = MatchAt(rows, lines, row, x, from, p)

(* One recursion depends only on the places it goes to.                    *)
LEMMA MatchAtSame ==
  ASSUME NEW rows, NEW lines, NEW row, NEW x, NEW f, NEW g, NEW p,
         ~(p.line > Len(lines) \/ p.y > Len(rows)) =>
           /\ f[Fresh(p.line + 1, p.y + 1)] = g[Fresh(p.line + 1, p.y + 1)]
           /\ f[Partway(p.line, p.y + 1, p.used + Len(rows[p.y]))]
                = g[Partway(p.line, p.y + 1, p.used + Len(rows[p.y]))]
           /\ f[Fresh(p.line + 1, p.y)] = g[Fresh(p.line + 1, p.y)]
  PROVE  MatchAt(rows, lines, row, x, f, p) = MatchAt(rows, lines, row, x, g, p)
BY DEF MatchAt

(* The recursion has a solution, and Match is what it is at the first place.*)
LEMMA MatchExists ==
  ASSUME NEW rows, NEW lines, NEW row, NEW x, Len(rows) \in Nat, Len(lines) \in Nat,
         \A y \in 1..Len(rows) : Len(rows[y]) \in Nat
  PROVE  \E f : f = [p \in Place |-> MatchAt(rows, lines, row, x, f, p)]
<1> DEFINE b == Len(rows) + Len(lines)
           M(f, p) == MatchAt(rows, lines, row, x, f, p)
           Done(f, n) == \A p \in Place : p.line + p.y + n > b => f[p] = M(f, p)
           S == {n \in Nat : \E f : Done(f, n)}
<1>0. b \in Nat /\ \A p \in Place : p.line \in Nat /\ p.y \in Nat /\ p.line >= 1 /\ p.y >= 1 /\ p.used \in Nat
  BY DEF Place
<1>1. 0 \in S
  <2> DEFINE f == [p \in Place |-> None]
  <2>1. ASSUME NEW p \in Place, p.line + p.y + 0 > b PROVE f[p] = M(f, p)
    <3>1. p.line > Len(lines) \/ p.y > Len(rows)
      BY <1>0, <2>1
    <3>2. M(f, p) = None
      BY <3>1 DEF MatchAt
    <3> QED
      BY <3>2
  <2> HIDE DEF f, M, b
  <2>2. \E g : Done(g, 0)
    BY <2>1
  <2> QED
    BY <2>2
<1>2. ASSUME NEW n \in Nat, n \in S PROVE n + 1 \in S
  <2>1. PICK f : Done(f, n)
    BY <1>2
  <2> DEFINE g == [p \in Place |-> M(f, p)]
  <2>2. ASSUME NEW p \in Place, p.line + p.y + (n + 1) > b PROVE g[p] = M(g, p)
    <3>1. ASSUME NEW q \in Place, q.line + q.y > p.line + p.y PROVE f[q] = g[q]
      <4>1. q.line + q.y + n > b
        BY <1>0, <2>2, <3>1
      <4> HIDE DEF M, b
      <4> QED
        BY <2>1, <4>1
    <3>2. ASSUME ~(p.line > Len(lines) \/ p.y > Len(rows))
          PROVE  /\ f[Fresh(p.line + 1, p.y + 1)] = g[Fresh(p.line + 1, p.y + 1)]
                 /\ f[Partway(p.line, p.y + 1, p.used + Len(rows[p.y]))]
                      = g[Partway(p.line, p.y + 1, p.used + Len(rows[p.y]))]
                 /\ f[Fresh(p.line + 1, p.y)] = g[Fresh(p.line + 1, p.y)]
      <4> DEFINE u == p.used + Len(rows[p.y])
                 q1 == Fresh(p.line + 1, p.y + 1)
                 q2 == Partway(p.line, p.y + 1, u)
                 q3 == Fresh(p.line + 1, p.y)
      <4>1. p.y \in 1..Len(rows) /\ u \in Nat
        BY <1>0, <3>2
      <4> HIDE DEF u
      <4>2. q1 \in Place /\ q1.line + q1.y > p.line + p.y
        BY <1>0 DEF Place, Fresh, Partway
      <4>3. q2 \in Place /\ q2.line + q2.y > p.line + p.y
        BY <1>0, <4>1 DEF Place, Fresh, Partway
      <4>4. q3 \in Place /\ q3.line + q3.y > p.line + p.y
        BY <1>0 DEF Place, Fresh, Partway
      <4> HIDE DEF q1, q2, q3, g
      <4>5. f[q1] = g[q1] /\ f[q2] = g[q2] /\ f[q3] = g[q3]
        BY <3>1, <4>2, <4>3, <4>4
      <4> QED
        BY <4>5 DEF q1, q2, q3, u
    <3>3. M(f, p) = M(g, p)
      <4> HIDE DEF g
      <4> QED
        BY <3>2, MatchAtSame
    <3> HIDE DEF M
    <3> QED
      BY <3>3
  <2> HIDE DEF g, M, b
  <2>3. \E h : Done(h, n + 1)
    BY <2>2
  <2> QED
    BY <2>3
<1>3. b \in S
  <2> HIDE DEF S, b
  <2> QED
    BY <1>0, <1>1, <1>2, NatSetInduction
<1>4. PICK f : Done(f, b)
  BY <1>3
<1>5. \A p \in Place : f[p] = M(f, p)
  <2>1. ASSUME NEW p \in Place PROVE p.line + p.y + b > b
    BY <1>0
  <2> HIDE DEF b, M
  <2> QED
    BY <1>4, <2>1
<1> DEFINE g == [p \in Place |-> f[p]]
<1>6. \A p \in Place : M(f, p) = M(g, p)
  <2> SUFFICES ASSUME NEW p \in Place PROVE M(f, p) = M(g, p)
    OBVIOUS
  <2>1. ASSUME NEW q \in Place PROVE f[q] = g[q]
    OBVIOUS
  <2>2. ASSUME ~(p.line > Len(lines) \/ p.y > Len(rows))
        PROVE  /\ f[Fresh(p.line + 1, p.y + 1)] = g[Fresh(p.line + 1, p.y + 1)]
               /\ f[Partway(p.line, p.y + 1, p.used + Len(rows[p.y]))]
                    = g[Partway(p.line, p.y + 1, p.used + Len(rows[p.y]))]
               /\ f[Fresh(p.line + 1, p.y)] = g[Fresh(p.line + 1, p.y)]
    <3>1. p.y \in 1..Len(rows)
      BY <1>0, <2>2
    <3>2. /\ Fresh(p.line + 1, p.y + 1) \in Place
          /\ Partway(p.line, p.y + 1, p.used + Len(rows[p.y])) \in Place
          /\ Fresh(p.line + 1, p.y) \in Place
      BY <1>0, <3>1 DEF Place, Fresh, Partway
    <3> HIDE DEF g
    <3> QED
      BY <2>1, <3>2
  <2> HIDE DEF g
  <2> QED
    BY <2>2, MatchAtSame
<1>7. g = [p \in Place |-> M(g, p)]
  <2> HIDE DEF M
  <2> QED
    BY <1>5, <1>6
<1> QED
  BY <1>7

LEMMA MatchSteps ==
  ASSUME NEW rows, NEW lines, NEW row, NEW x, Len(rows) \in Nat, Len(lines) \in Nat,
         \A y \in 1..Len(rows) : Len(rows[y]) \in Nat
  PROVE  \E from : Match(rows, lines, row, x) = from[Fresh(1, 1)] /\ Recurs(rows, lines, row, x, from)
<1> DEFINE R == CHOOSE from : from = [p \in Place |-> MatchAt(rows, lines, row, x, from, p)]
<1>1. Match(rows, lines, row, x) = R[Fresh(1, 1)]
  BY DEF Match, MatchAt
<1>2. R = [p \in Place |-> MatchAt(rows, lines, row, x, R, p)]
  BY MatchExists
<1> HIDE DEF R
<1>3. Recurs(rows, lines, row, x, R)
  BY <1>2 DEF Recurs
<1> QED
  BY <1>1, <1>3

(* A row is what its line goes on with.                                    *)
GoesOn(l, a, u, c, b) ==
  /\ l \in Seq(Cells) /\ a \in Nat /\ u \in Nat /\ c \in Nat /\ b \in Nat
  /\ c >= 1 /\ a + u + c <= b /\ b <= Len(l)

LEMMA PrefixOfRest ==
  ASSUME NEW l, NEW a, NEW u, NEW c, NEW b, GoesOn(l, a, u, c, b), NEW j, j = Part(l, a + 1, b)
  PROVE  /\ j \in Seq(Cells) /\ Len(j) = b - a
         /\ IsPrefix(Part(l, a + u + 1, a + u + c), Part(j, u + 1, Len(j)))
         /\ u + c >= Len(j) <=> a + u + c = b
<1> DEFINE p == a + 1
           q == a + u + 1
           d == b - q + 1
           k == SubSeq(l, a + u + 1, a + u + c)
<1> /\ l \in Seq(Cells) /\ a \in Nat /\ u \in Nat /\ c \in Nat /\ b \in Nat
    /\ c >= 1 /\ a + u + c <= b /\ b <= Len(l)
  BY DEF GoesOn
<1> j = SubSeq(l, a + 1, b)
  BY DEF Part
<1>0. /\ Len(l) \in Nat /\ p \in Nat /\ 1 <= p /\ p <= b + 1 /\ b - p + 1 = b - a /\ b - a \in Nat
      /\ q \in Nat /\ 1 <= q /\ q <= b + 1 /\ p - 1 + (u + 1) = q /\ p - 1 + (b - a) = b
      /\ d \in Nat /\ c <= d /\ 1 <= c + 1 /\ q - 1 + c = a + u + c /\ q - 1 + 1 = q
      /\ u + 1 \in Nat /\ 1 <= u + 1 /\ u + 1 <= (b - a) + 1
      /\ a + u + c \in Nat /\ q <= (a + u + c) + 1 /\ a + u + c <= Len(l) /\ (a + u + c) - q + 1 = c
  OBVIOUS
<1>1. j \in Seq(Cells) /\ Len(j) = b - a
  <2> HIDE DEF p
  <2>1. SubSeq(l, p, b) \in Seq(Cells) /\ Len(SubSeq(l, p, b)) = b - p + 1
    BY <1>0, Cut
  <2> QED
    BY <1>0, <2>1 DEF p
<1>2. SubSeq(j, u + 1, b - a) = SubSeq(l, q, b)
  <2> HIDE DEF p, q
  <2>1. SubSeq(SubSeq(l, p, b), u + 1, b - a) = SubSeq(l, p - 1 + (u + 1), p - 1 + (b - a))
    BY <1>0, CutOfCut
  <2> QED
    BY <1>0, <2>1 DEF p
<1>3. SubSeq(l, q, b) \in Seq(Cells) /\ Len(SubSeq(l, q, b)) = d
  <2> HIDE DEF q
  <2> QED
    BY <1>0, Cut DEF d
<1>4. k \in Seq(Cells) /\ Len(k) = c
  <2>1. k = SubSeq(l, q, a + u + c)
    OBVIOUS
  <2> HIDE DEF q, k
  <2>2. SubSeq(l, q, a + u + c) \in Seq(Cells) /\ Len(SubSeq(l, q, a + u + c)) = (a + u + c) - q + 1
    BY <1>0, Cut
  <2> QED
    BY <1>0, <2>1, <2>2
<1>5. SubSeq(SubSeq(l, q, b), 1, c) = k
  <2>1. k = SubSeq(l, q, a + u + c)
    OBVIOUS
  <2> HIDE DEF q, k
  <2>2. c <= b - q + 1
    BY <1>0 DEF d
  <2>3. SubSeq(SubSeq(l, q, b), 1, c) = SubSeq(l, q - 1 + 1, q - 1 + c)
    BY <1>0, <2>2, CutOfCut
  <2> QED
    BY <1>0, <2>1, <2>3
<1>6. SubSeq(k, 1, Len(k)) = k
  BY <1>4, SubSeqFull
<1> HIDE DEF k, q, d
<1>7. IsPrefix(k, SubSeq(l, q, b))
  BY <1>0, <1>3, <1>4, <1>5, <1>6 DEF IsPrefix
<1>8. IsPrefix(k, SubSeq(j, u + 1, Len(j)))
  BY <1>1, <1>2, <1>7
<1>9. u + c >= b - a <=> a + u + c = b
  OBVIOUS
<1>10. u + c >= Len(j) <=> a + u + c = b
  BY <1>1, <1>9
<1>11. IsPrefix(Part(l, a + u + 1, a + u + c), Part(j, u + 1, Len(j)))
  BY <1>8 DEF k, Part
<1> QED
  BY <1>1, <1>10, <1>11

(* So every row fits its joined line where the rows above it have left off.*)
LEMMA RowFits ==
  ASSUME NEW t \in Seq(Seq(Cells)), NEW s, Scene(t, s), NEW y \in 1..Height,
         NEW j, j = OnScreen(t, s, LineStart(s, y))
  PROVE  /\ Used(s, y) \in Nat /\ Len(s[y].cells) \in Nat /\ Len(j) \in Nat
         /\ IsPrefix(s[y].cells, SubSeq(j, Used(s, y) + 1, Len(j)))
         /\ Used(s, y) + Len(s[y].cells) >= Len(j) <=> IsLast(s, y)
<1> DEFINE c == s[y].cells
           l == t[s[y].line]
           a == s[LineStart(s, y)].at
           u == Used(s, y)
           b == LineEnd(s, y)
<1>1. /\ u \in Nat /\ a \in Nat /\ s[y].at \in Nat /\ s[y].at = a + u
      /\ c = <<>> => j = <<>> /\ u = 0 /\ IsLast(s, y)
      /\ c # <<>> =>
              /\ j = SubSeq(l, a + 1, b) /\ Placed(t, s[y]) /\ b \in Nat /\ b <= Len(l)
              /\ s[y].at + Len(c) <= b
              /\ s[y].at + Len(c) = b <=> IsLast(s, y)
  BY JoinedLine
<1>2. CASE c = <<>>
  <2>1. j = <<>> /\ u = 0 /\ IsLast(s, y) /\ Len(<<>>) = 0
    BY <1>1, <1>2
  <2>2. IsPrefix(<<>>, SubSeq(<<>>, 1, 0))
    BY DEF IsPrefix
  <2> HIDE DEF u
  <2> QED
    BY <1>2, <2>1, <2>2 DEF u
<1>3. CASE c # <<>>
  <2>1. Placed(t, s[y])
    BY <1>1, <1>3
  <2>2. /\ l \in Seq(Cells) /\ Len(l) \in Nat /\ Len(c) \in Nat /\ Len(c) >= 1
        /\ c = SubSeq(l, s[y].at + 1, s[y].at + Len(c))
    BY <1>3, <2>1, RowCells
  <2> HIDE DEF a, l, c, u, b
  <2>3. j = Part(l, a + 1, b)
    BY <1>1, <1>3 DEF Part
  <2>4. c = Part(l, a + u + 1, a + u + Len(c))
    BY <1>1, <2>2 DEF Part
  <2> DEFINE n == Len(c)
  <2>5. GoesOn(l, a, u, n, b)
    BY <1>1, <1>3, <2>2 DEF GoesOn
  <2>6. c = Part(l, a + u + 1, a + u + n) /\ n \in Nat
    BY <2>2, <2>4
  <2> HIDE DEF n
  <2>7. /\ Len(j) = b - a
        /\ IsPrefix(Part(l, a + u + 1, a + u + n), Part(j, u + 1, Len(j)))
        /\ u + n >= Len(j) <=> a + u + n = b
    BY <2>3, <2>5, PrefixOfRest
  <2>8. IsPrefix(c, Part(j, u + 1, Len(j)))
    BY <2>6, <2>7
  <2>9. a + u + n = b <=> IsLast(s, y)
    BY <1>1, <1>3 DEF n
  <2>10. a + u + n <= b /\ b \in Nat /\ u \in Nat /\ a \in Nat
    BY <1>1, <1>3, <2>5 DEF GoesOn
  <2>11. b - a \in Nat
    BY <2>6, <2>10
  <2>12. Len(j) \in Nat /\ (u + n >= Len(j) <=> IsLast(s, y))
    BY <2>7, <2>9, <2>11
  <2>13. IsPrefix(c, SubSeq(j, u + 1, Len(j)))
    BY <2>8 DEF Part
  <2> QED
    BY <1>1, <2>6, <2>12, <2>13 DEF u, c, n
<1> QED
  BY <1>2, <1>3

(* Where Match is when it comes to a row of the screen.                    *)
PlaceOf(s, y) == IF y \in Starts(s) THEN Fresh(Rank(s, y), y) ELSE Partway(Rank(s, y), y, Used(s, y))

(* Some line begins at or above every row.                                 *)
LEMMA RankPositive == ASSUME NEW s, NEW y \in 1..Height PROVE Rank(s, y) \in Nat /\ Rank(s, y) >= 1
<1> DEFINE B == {z \in Starts(s) : z <= y}
<1>1. 1 \in B /\ IsFiniteSet(B)
  BY StartsFinite
<1> HIDE DEF B
<1>2. Cardinality(B) \in Nat /\ Cardinality(B) # 0
  BY <1>1, FS_CardinalityType, FS_EmptySet
<1>3. Cardinality(B) >= 1
  BY <1>2
<1> QED
  BY <1>2, <1>3 DEF Rank, B

(* From one row to the next: into the next line, or on in the same one.    *)
LEMMA NextPlace ==
  ASSUME NEW t \in Seq(Seq(Cells)), NEW s, Scene(t, s), NEW y \in 1..Height, NEW z \in 1..Height, z = y + 1
  PROVE  PlaceOf(s, z) = IF IsLast(s, y) THEN Fresh(Rank(s, y) + 1, y + 1)
                         ELSE Partway(Rank(s, y), y + 1, Used(s, y) + Len(s[y].cells))
<1>0. Height \in Nat /\ y \in Nat /\ z \in Nat /\ y # Height /\ y <= z
  BY TextAssumption
<1>1. CASE IsLast(s, y)
  <2>1. z \in Starts(s)
    BY <1>0, <1>1 DEF IsLast
  <2>2. Rank(s, z) = Rank(s, y) + 1
    BY <2>1, RankNext
  <2>3. LineStart(s, z) = z /\ s[z].at \in Nat
    BY <2>1, JoinedLine
  <2>4. Used(s, z) = 0
    BY <2>3 DEF Used
  <2> QED
    BY <1>1, <2>1, <2>2, <2>4 DEF PlaceOf
<1>2. CASE ~IsLast(s, y)
  <2>1. z \notin Starts(s)
    BY <1>0, <1>2 DEF IsLast
  <2>2. Rank(s, y) = Rank(s, z)
    <3>1. \A k \in y + 1..z : k = z
      BY <1>0
    <3> QED
      BY <1>0, <2>1, <3>1, RankSame
  <2>3. LineStart(s, z) = LineStart(s, y)
    BY <2>2 DEF LineStart
  <2>4. s[z].at = s[y].at + Len(s[y].cells)
    BY <2>1, LineGoesOn
  <2>5. Len(s[y].cells) \in Nat
    BY RowFits
  <2>6. s[LineStart(s, y)].at \in Nat /\ s[y].at \in Nat
    BY JoinedLine
  <2> DEFINE a == s[LineStart(s, y)].at
             c == Len(s[y].cells)
  <2>7. Used(s, z) = s[z].at - a /\ Used(s, y) = s[y].at - a
    BY <2>3 DEF Used
  <2> HIDE DEF a, c
  <2>8. s[z].at = s[y].at + c /\ a \in Nat /\ s[y].at \in Nat /\ c \in Nat
    BY <2>4, <2>5, <2>6 DEF a, c
  <2>9. Used(s, z) = Used(s, y) + c
    BY <2>7, <2>8
  <2> QED
    BY <1>2, <2>1, <2>2, <2>9 DEF PlaceOf, c
<1> QED
  BY <1>1, <1>2

(* The run that the second capture shows under a cell of a row.            *)
LineRun(t, s, y, x) == RunAt(OnScreen(t, s, LineStart(s, y)), x + Used(s, y))

(* Both captures of one screen, and what Match does with them.             *)
Captured(t, s, rows, lines) ==
  /\ Len(rows) = Height /\ \A y \in 1..Height : rows[y] = s[y].cells
  /\ Len(lines) = Cardinality(Starts(s))
  /\ \A k \in 1..Len(lines) : lines[k] = OnScreen(t, s, Start(s, k))
Matching(t, s, rows, lines, row, x, from) ==
  /\ t \in Seq(Seq(Cells)) /\ Scene(t, s) /\ Captured(t, s, rows, lines)
  /\ Recurs(rows, lines, row, x, from)

(* What Match does in a row of the screen is what NextPlace says.          *)
LEMMA MatchHere ==
  ASSUME NEW t, NEW s, NEW rows, NEW lines, NEW row, NEW x, NEW from,
         Matching(t, s, rows, lines, row, x, from), NEW y \in 1..Height
  PROVE  from[PlaceOf(s, y)] =
           IF y = row THEN IF LineRun(t, s, y, x) # None THEN LineRun(t, s, y, x) ELSE RunAt(s[y].cells, x)
           ELSE IF IsLast(s, y) THEN from[Fresh(Rank(s, y) + 1, y + 1)]
           ELSE from[Partway(Rank(s, y), y + 1, Used(s, y) + Len(s[y].cells))]
<1> DEFINE p == PlaceOf(s, y)
           j == OnScreen(t, s, LineStart(s, y))
<1> /\ t \in Seq(Seq(Cells)) /\ Scene(t, s) /\ Captured(t, s, rows, lines)
    /\ Recurs(rows, lines, row, x, from)
  BY DEF Matching
<1>0. Height \in Nat /\ y \in Nat /\ y >= 1 /\ y <= Height
  BY TextAssumption
<1>1. /\ Used(s, y) \in Nat /\ Len(s[y].cells) \in Nat /\ Len(j) \in Nat
      /\ IsPrefix(s[y].cells, SubSeq(j, Used(s, y) + 1, Len(j)))
      /\ Used(s, y) + Len(s[y].cells) >= Len(j) <=> IsLast(s, y)
  BY RowFits
<1>2. Rank(s, y) \in Nat /\ Rank(s, y) >= 1 /\ Rank(s, y) <= Cardinality(Starts(s)) /\ Cardinality(Starts(s)) \in Nat
  BY RankPositive, StartsFinite
<1>3. p \in Place /\ p.line = Rank(s, y) /\ p.y = y /\ p.used = Used(s, y)
  <2>1. y \in Starts(s) => LineStart(s, y) = y /\ s[y].at \in Nat
    BY JoinedLine
  <2>2. y \in Starts(s) => Used(s, y) = 0
    BY <2>1 DEF Used
  <2> QED
  BY <1>0, <1>1, <1>2, <2>2 DEF PlaceOf, Place, Fresh, Partway
<1>4. rows[y] = s[y].cells /\ Len(rows) = Height /\ Len(lines) = Cardinality(Starts(s))
  BY DEF Captured
<1>5. lines[Rank(s, y)] = j
  BY <1>2 DEF Captured, LineStart
<1> HIDE DEF p, j
<1>6. from[p] = MatchAt(rows, lines, row, x, from, p)
  BY <1>3 DEF Recurs
<1>7. ~(p.line > Len(lines) \/ p.y > Len(rows))
  BY <1>0, <1>2, <1>3, <1>4
<1> DEFINE whole == LineRun(t, s, y, x)
<1>8. whole = RunAt(j, x + Used(s, y))
  BY DEF j, LineRun
<1> HIDE DEF whole
<1>9. from[p] =
           IF y = row THEN IF whole # None THEN whole ELSE RunAt(s[y].cells, x)
           ELSE IF IsLast(s, y) THEN from[Fresh(Rank(s, y) + 1, y + 1)]
           ELSE from[Partway(Rank(s, y), y + 1, Used(s, y) + Len(s[y].cells))]
  BY <1>1, <1>3, <1>4, <1>5, <1>6, <1>7, <1>8, Zenon DEF MatchAt
<1> QED
  BY <1>9 DEF p, whole

(* On captures of one screen Match finds the line of the row asked for.    *)
LEMMA MatchFinds ==
  ASSUME NEW t \in Seq(Seq(Cells)), NEW s, Scene(t, s), NEW rows, NEW lines, Captured(t, s, rows, lines),
         NEW row \in 1..Height, NEW x, LineRun(t, s, row, x) # None
  PROVE  Match(rows, lines, row, x) = LineRun(t, s, row, x)
<1>0. Height \in Nat /\ row \in Nat /\ 1 \in 1..Height /\ row >= 1
  BY TextAssumption
<1>1. Len(rows) \in Nat /\ Len(lines) \in Nat /\ \A y \in 1..Len(rows) : Len(rows[y]) \in Nat
  BY <1>0, StartsFinite, RowFits DEF Captured
<1>2. PICK from : Match(rows, lines, row, x) = from[Fresh(1, 1)] /\ Recurs(rows, lines, row, x, from)
  BY <1>1, MatchSteps
<1>3. Matching(t, s, rows, lines, row, x, from)
  BY <1>2 DEF Matching
<1> DEFINE S == {y \in 1..row : from[Fresh(1, 1)] = from[PlaceOf(s, y)]}
<1>4. 1 \in S
  <2>1. 1 \in Starts(s) /\ Rank(s, 1) = 1
    BY StartsFinite, RankFirst
  <2>2. PlaceOf(s, 1) = Fresh(1, 1)
    BY <2>1 DEF PlaceOf
  <2>3. 1 \in 1..row
    BY <1>0
  <2> QED
    BY <2>2, <2>3, Zenon
<1>5. ASSUME NEW y \in 1..row, y < row /\ y \in S PROVE y + 1 \in S
  <2>1. PICK z \in 1..row : z = y + 1
    BY <1>0, <1>5
  <2>2. y \in 1..Height /\ z \in 1..Height /\ y # row
    BY <1>0, <1>5, <2>1
  <2>3. from[PlaceOf(s, y)] = IF IsLast(s, y) THEN from[Fresh(Rank(s, y) + 1, y + 1)]
                              ELSE from[Partway(Rank(s, y), y + 1, Used(s, y) + Len(s[y].cells))]
    BY <1>3, <2>2, MatchHere
  <2>4. PlaceOf(s, z) = IF IsLast(s, y) THEN Fresh(Rank(s, y) + 1, y + 1)
                        ELSE Partway(Rank(s, y), y + 1, Used(s, y) + Len(s[y].cells))
    BY <2>1, <2>2, NextPlace
  <2>5. from[PlaceOf(s, y)] = from[PlaceOf(s, z)]
    <3>1. CASE IsLast(s, y)
      BY <2>3, <2>4, <3>1, Zenon
    <3>2. CASE ~IsLast(s, y)
      BY <2>3, <2>4, <3>2, Zenon
    <3> QED
      BY <3>1, <3>2
  <2>6. from[Fresh(1, 1)] = from[PlaceOf(s, z)]
    BY <1>5, <2>5, Zenon
  <2>7. z \in S
    BY <2>6, Zenon
  <2> QED
    BY <2>1, <2>7
<1>6. 1..row \subseteq S
  <2> HIDE DEF S
  <2> QED
    BY <1>0, <1>4, <1>5, RangeInduction
<1>7. row \in S
  <2> HIDE DEF S
  <2> QED
    BY <1>0, <1>6
<1>8. from[Fresh(1, 1)] = from[PlaceOf(s, row)]
  BY <1>7, Zenon
<1>9. from[PlaceOf(s, row)] = LineRun(t, s, row, x)
  BY <1>3, MatchHere
<1> QED
  BY <1>2, <1>8, <1>9, Zenon

-----------------------------------------------------------------------------
(* What is read of the run under a cell: in the row, and in the line as it *)
(* is on the screen.                                                       *)
LEMMA CellOfRow ==
  ASSUME NEW t \in Seq(Seq(Cells)), NEW s, Scene(t, s), NEW y \in 1..Height,
         NEW x \in 1..Len(s[y].cells), s[y].cells[x] # Blank
  PROVE  /\ Placed(t, s[y]) /\ s[y].cells # <<>> /\ Len(s[y].cells) \in Nat /\ x \in Nat
         /\ s[y].at \in Nat /\ t[s[y].line] \in Seq(Cells) /\ Len(t[s[y].line]) \in Nat
         /\ s[y].at + Len(s[y].cells) <= Len(t[s[y].line])
         /\ t[s[y].line][s[y].at + x] # Blank
<1>1. s[y].cells # <<>>
  <2> SUFFICES ASSUME s[y].cells = <<>> PROVE FALSE
    OBVIOUS
  <2>1. x \in 1..0
    OBVIOUS
  <2> QED
    BY <2>1
<1>2. Placed(t, s[y])
  BY <1>1 DEF Scene, OnRow
<1>3. /\ t[s[y].line] \in Seq(Cells) /\ Len(t[s[y].line]) \in Nat /\ s[y].at \in Nat
      /\ Len(s[y].cells) \in Nat /\ s[y].at + Len(s[y].cells) <= Len(t[s[y].line])
      /\ s[y].cells = SubSeq(t[s[y].line], s[y].at + 1, s[y].at + Len(s[y].cells))
  BY <1>2, RowCells
<1>4. t[s[y].line][s[y].at + x] # Blank
  <2> DEFINE l == t[s[y].line]
             p == s[y].at
             c == Len(s[y].cells)
             a == p + 1
             b == p + c
  <2>1. p \in Nat /\ c \in Nat /\ Len(l) \in Nat /\ p + c <= Len(l) /\ x \in 1..c
    BY <1>3
  <2>2. s[y].cells = SubSeq(l, a, b) /\ l \in Seq(Cells)
    BY <1>3
  <2> HIDE DEF l, p, c
  <2>3. a \in Nat /\ b \in Nat /\ 1 <= a /\ a <= b + 1 /\ b <= Len(l) /\ x \in 1..b - a + 1 /\ a - 1 + x = p + x
    BY <2>1
  <2> HIDE DEF a, b
  <2>4. SubSeq(l, a, b)[x] = l[a - 1 + x]
    BY <2>2, <2>3, Cut
  <2> QED
    BY <2>2, <2>3, <2>4 DEF l, p
<1> QED
  BY <1>1, <1>2, <1>3, <1>4

(* A row shows a piece of the run.                                         *)
LEMMA RowShowsPiece ==
  ASSUME NEW t \in Seq(Seq(Cells)), NEW s, Scene(t, s), NEW y \in 1..Height,
         NEW x \in 1..Len(s[y].cells), s[y].cells[x] # Blank
  PROVE  /\ RunAt(s[y].cells, x) \in Pieces(RunAt(t[s[y].line], s[y].at + x))
         /\ RunAt(s[y].cells, x) # None
<1> DEFINE l == t[s[y].line]
           v == s[y].cells
           a == s[y].at + 1
           b == s[y].at + Len(v)
           m == s[y].at + x
<1>1. Len(v) \in Nat /\ x \in 1..Len(v) /\ x \in Nat /\ s[y].at \in Nat /\ l \in Seq(Cells)
      /\ Len(l) \in Nat /\ b <= Len(l) /\ l[m] # Blank /\ Placed(t, s[y])
  BY CellOfRow
<1>2. v = Part(l, a, b)
  BY <1>1, RowCells DEF Part
<1>3. a \in 1..Len(l) /\ b \in a..Len(l) /\ m \in a..b /\ x = m - a + 1
  <2> DEFINE p == s[y].at
             c == Len(v)
             k == Len(l)
  <2>1. p \in Nat /\ c \in Nat /\ k \in Nat /\ p + c <= k /\ x \in 1..c
    BY <1>1
  <2> HIDE DEF p, c, k
  <2>2. p + 1 \in 1..k /\ p + c \in p + 1..k /\ p + x \in p + 1..p + c /\ x = p + x - (p + 1) + 1
    BY <2>1
  <2> QED
    BY <2>1, <2>2 DEF p, c, k
<1> HIDE DEF l, v, a, b, m
<1>4. Within(l, a, b, m)
  BY <1>1, <1>3 DEF Within
<1>5. RunAt(v, x) \in Pieces(RunAt(l, m)) /\ RunAt(v, x) # None
  BY <1>2, <1>3, <1>4, RunCut
<1> QED
  BY <1>5 DEF l, v, m

(* Rows of one line are in the same joined line.                           *)
LEMMA OneLine ==
  ASSUME NEW t \in Seq(Seq(Cells)), NEW s, Scene(t, s), NEW p \in 1..Height, NEW q \in 1..Height, p <= q,
         s[p].line = s[q].line
  PROVE  LineStart(s, p) = LineStart(s, q)
<1>0. Height \in Nat /\ p \in Nat /\ q \in Nat
  BY TextAssumption
<1>1. ASSUME NEW z \in p + 1..q PROVE z \notin Starts(s)
  <2>1. PICK w \in 1..Height : w = z - 1
    BY <1>0
  <2>2. z \in 1..Height /\ p <= w /\ w <= z /\ z <= q /\ z # 1
    BY <1>0, <2>1
  <2>3. s[p].line <= s[w].line /\ s[w].line <= s[z].line /\ s[z].line <= s[q].line
    BY <2>1, <2>2, LinesGrow
  <2>4. \A k \in 1..Height : s[k].line \in Nat
    BY DEF Scene, OnRow, Placed, Row
  <2>5. s[p].line \in Nat /\ s[w].line \in Nat /\ s[z].line \in Nat
    BY <2>2, <2>4
  <2>6. s[z].line = s[w].line
    BY <2>3, <2>5
  <2> QED
    BY <2>1, <2>2, <2>6 DEF Starts
<1>2. Rank(s, p) = Rank(s, q)
  BY <1>1, RankSame
<1> QED
  BY <1>2 DEF LineStart

OnSight(t, s, line, x) ==
  \A i \in 1..Len(t[line]) : (\A k \in (i..x) \cup (x..i) : t[line][k] # Blank) =>
    \E z \in 1..Height : s[z].line = line /\ i \in s[z].at + 1..s[z].at + Len(s[z].cells)

(* A joined line shows a piece of the run, and all of it if it is in sight.*)
LEMMA LineShowsPiece ==
  ASSUME NEW t \in Seq(Seq(Cells)), NEW s, Scene(t, s), NEW y \in 1..Height,
         NEW x \in 1..Len(s[y].cells), s[y].cells[x] # Blank
  PROVE  /\ LineRun(t, s, y, x) \in Pieces(RunAt(t[s[y].line], s[y].at + x)) /\ LineRun(t, s, y, x) # None
         /\ OnSight(t, s, s[y].line, s[y].at + x) => LineRun(t, s, y, x) = RunAt(t[s[y].line], s[y].at + x)
<1> DEFINE l == t[s[y].line]
           h == s[LineStart(s, y)].at
           a == h + 1
           b == LineEnd(s, y)
           m == s[y].at + x
           n == x + Used(s, y)
           v == Part(l, a, b)
           whole == LineRun(t, s, y, x)
<1>1. /\ Len(s[y].cells) \in Nat /\ x \in Nat /\ x >= 1 /\ x <= Len(s[y].cells) /\ s[y].at \in Nat /\ l \in Seq(Cells)
      /\ Len(l) \in Nat /\ l[m] # Blank /\ s[y].cells # <<>>
  BY CellOfRow
<1>2. /\ OnScreen(t, s, LineStart(s, y)) = SubSeq(l, a, b) /\ b \in Nat /\ b <= Len(l)
      /\ s[y].at + Len(s[y].cells) <= b /\ h \in Nat /\ Used(s, y) \in Nat /\ s[y].at = h + Used(s, y)
  BY <1>1, JoinedLine
<1>3. a \in 1..Len(l) /\ b \in a..Len(l) /\ m \in a..b /\ n = m - a + 1
  <2> DEFINE c == Len(s[y].cells)
             k == Len(l)
             g == Used(s, y)
  <2>1. /\ h \in Nat /\ g \in Nat /\ c \in Nat /\ k \in Nat /\ b \in Nat /\ b <= k /\ x \in 1..c
        /\ s[y].at = h + g /\ h + g + c <= b
    BY <1>1, <1>2
  <2> HIDE DEF h, b, k, c, g
  <2>2. /\ h + 1 \in 1..k /\ b \in h + 1..k /\ h + g + x \in h + 1..b
        /\ x + g = (h + g + x) - (h + 1) + 1
    BY <2>1
  <2> QED
    BY <2>1, <2>2 DEF k, g
<1>4. /\ whole \in Pieces(RunAt(l, m)) /\ whole # None
      /\ (\A i \in 1..Len(l) : (\A k \in (i..m) \cup (m..i) : l[k] # Blank) => i \in a..b) => whole = RunAt(l, m)
  <2>1. whole = RunAt(v, n) /\ v = Part(l, a, b)
    BY <1>2 DEF LineRun, Part
  <2>2. l \in Seq(Cells) /\ l[m] # Blank
    BY <1>1
  <2> HIDE DEF l, a, b, m, n, v, whole
  <2> QED
    <3>1. Within(l, a, b, m)
      BY <1>3, <2>2 DEF Within
    <3> QED
      BY <1>3, <2>1, <3>1, RunCut
<1>5. ASSUME OnSight(t, s, s[y].line, m),
             NEW i \in 1..Len(l), \A k \in (i..m) \cup (m..i) : l[k] # Blank
      PROVE  i \in a..b
  <2>1. PICK z \in 1..Height : s[z].line = s[y].line /\ i \in s[z].at + 1..s[z].at + Len(s[z].cells)
    BY <1>5 DEF OnSight
  <2>2. LineStart(s, z) = LineStart(s, y)
    <3>1. z <= y \/ y <= z
      BY TextAssumption
    <3> QED
      BY <2>1, <3>1, OneLine
  <2>3. LineEnd(s, z) = b
    BY <2>2 DEF LineEnd
  <2>4. s[z].cells # <<>>
    <3> SUFFICES ASSUME s[z].cells = <<>> PROVE FALSE
      OBVIOUS
    <3>1. s[z].at \in Nat
      BY JoinedLine
    <3>2. Len(s[z].cells) = 0
      OBVIOUS
    <3> QED
      BY <2>1, <3>1, <3>2
  <2>5. s[z].at + Len(s[z].cells) <= b /\ s[z].at = h + Used(s, z) /\ Used(s, z) \in Nat /\ s[z].at \in Nat
    <3>1. s[z].at + Len(s[z].cells) <= LineEnd(s, z)
      BY <2>4, JoinedLine
    <3>2. s[z].at = s[LineStart(s, z)].at + Used(s, z) /\ Used(s, z) \in Nat /\ s[z].at \in Nat
      BY JoinedLine
    <3> HIDE DEF b
    <3> QED
      BY <2>2, <2>3, <3>1, <3>2
  <2>6. Len(s[z].cells) \in Nat
    BY RowFits
  <2> DEFINE c == Len(s[z].cells)
             g == Used(s, z)
             p == s[z].at
  <2>7. /\ c \in Nat /\ g \in Nat /\ p \in Nat /\ b \in Nat /\ h \in Nat /\ p = h + g /\ p + c <= b
        /\ i \in p + 1..p + c
    BY <1>2, <2>1, <2>5, <2>6
  <2> HIDE DEF h, b, c, g, p
  <2>8. i \in h + 1..b
    BY <2>7
  <2> QED
    BY <2>8
<1> HIDE DEF l, a, b, m, whole
<1>6. OnSight(t, s, s[y].line, m) => whole = RunAt(l, m)
  BY <1>4, <1>5
<1> QED
  BY <1>4, <1>6 DEF l, m, whole

-----------------------------------------------------------------------------
(* The click handler.                                                      *)
ClickedAt(c, t, n) ==
  LET r == Screen(t, n)[c.y] IN
  /\ t \in Texts /\ n \in Nat /\ n < Len(Rows(t)) /\ c.y \in 1..Height
  /\ c.x \in 1..Len(r.cells) /\ r.cells[c.x] # Blank
  /\ c.row = Trim(r.cells) /\ c.meant = RunAt(t[r.line], r.at + c.x)
  /\ c.whole => Visible(t, n, r.line, r.at + c.x)

(* The rows of a text can be counted.                                      *)
LEMMA RowsLength == ASSUME NEW t \in Seq(Seq(Cells)) PROVE Len(Rows(t)) \in Nat /\ DOMAIN Rows(t) = 1..Len(Rows(t))
<1>1. CASE t = <<>>
  <2> DEFINE none == [i \in DOMAIN t |-> Wrapped(i, t[i])]
  <2>1. Len(none) = 0 /\ none = <<>>
    BY <1>1
  <2>2. Rows(t) = none
    <3> HIDE DEF none
    <3>1. Rows(t) = FlattenSeq(none)
      BY DEF Rows, none
    <3> QED
      BY <2>1, <3>1 DEF FlattenSeq
  <2> HIDE DEF none
  <2> QED
    BY <2>1, <2>2
<1>2. CASE t # <<>>
  <2>1. Rows(t) \in Seq(Row)
    BY <1>2, RowsLaidOut DEF LaidOut
  <2> QED
    BY <2>1
<1> QED
  BY <1>1, <1>2

(* The two captures of a screen whose rows end in no blank.                *)
LEMMA CapturedHere ==
  ASSUME NEW t \in Seq(Seq(Cells)), NEW n \in Nat, n < Len(Rows(t)),
         \A r \in Range(Rows(t)) : Trim(r.cells) = r.cells
  PROVE  /\ Scene(t, Screen(t, n)) /\ Captured(t, Screen(t, n), Capture(t, n), CaptureJoined(t, n))
         /\ DOMAIN Capture(t, n) = 1..Height
         /\ \A y \in 1..Height : Screen(t, n)[y].cells # <<>> => Screen(t, n)[y] \in Range(Rows(t))
<1> DEFINE s == Screen(t, n)
<1>1. /\ Scene(t, s)
      /\ \A y \in 1..Height : s[y].cells # <<>> => n + y \in 1..Len(Rows(t)) /\ s[y] = Rows(t)[n + y]
  BY ScreenRows
<1>2. DOMAIN Rows(t) = 1..Len(Rows(t))
  BY RowsLength
<1> HIDE DEF s
<1>3. ASSUME NEW y \in 1..Height, s[y].cells # <<>> PROVE s[y] \in Range(Rows(t))
  <2> DEFINE k == n + y
  <2>1. k \in DOMAIN Rows(t) /\ s[y] = Rows(t)[k]
    BY <1>1, <1>2, <1>3
  <2> HIDE DEF k
  <2> QED
    BY <2>1 DEF Range
<1>4. ASSUME NEW y \in 1..Height PROVE Trim(s[y].cells) = s[y].cells
  <2>1. CASE s[y].cells = <<>>
    <3>1. {i \in 1..Len(<<>>) : <<>>[i] # Blank} = {} /\ SubSeq(<<>>, 1, 0) = <<>>
      OBVIOUS
    <3>2. Trim(<<>>) = <<>>
      BY <3>1 DEF Trim
    <3> QED
      BY <2>1, <3>2
  <2>2. CASE s[y].cells # <<>>
    BY <1>3, <2>2
  <2> QED
    BY <2>1, <2>2
<1>5. Capture(t, n) = [y \in 1..Height |-> Trim(s[y].cells)]
  BY DEF Capture, s
<1>6. CaptureJoined(t, n) = [k \in 1..Cardinality(Starts(s)) |-> OnScreen(t, s, Start(s, k))]
  BY DEF CaptureJoined, s
<1>7. Height \in Nat /\ Cardinality(Starts(s)) \in Nat
  BY TextAssumption, StartsFinite
<1>8. Len(Capture(t, n)) = Height /\ \A y \in 1..Height : Capture(t, n)[y] = s[y].cells
  BY <1>4, <1>5, <1>7
<1>9. /\ Len(CaptureJoined(t, n)) = Cardinality(Starts(s))
      /\ \A k \in 1..Cardinality(Starts(s)) : CaptureJoined(t, n)[k] = OnScreen(t, s, Start(s, k))
  BY <1>6, <1>7
<1>10. Captured(t, s, Capture(t, n), CaptureJoined(t, n))
  BY <1>8, <1>9 DEF Captured
<1> QED
  BY <1>1, <1>3, <1>5, <1>10 DEF s

(* What the row as tmux reports it gives.                                  *)
LEMMA RowAnswer ==
  ASSUME Unpadded(Texts), NEW c, NEW t, NEW n, ClickedAt(c, t, n)
  PROVE  RunAt(c.row, c.x) \in Pieces(c.meant)
<1> DEFINE s == Screen(t, n)
<1>1. t \in Seq(Seq(Cells)) /\ n \in Nat /\ n < Len(Rows(t)) /\ \A r \in Range(Rows(t)) : Trim(r.cells) = r.cells
  BY TextAssumption DEF ClickedAt, Unpadded
<1>2. Scene(t, s) /\ \A y \in 1..Height : s[y].cells # <<>> => s[y] \in Range(Rows(t))
  BY <1>1, CapturedHere
<1>3. /\ c.y \in 1..Height /\ c.x \in 1..Len(s[c.y].cells) /\ s[c.y].cells[c.x] # Blank
      /\ c.row = Trim(s[c.y].cells) /\ c.meant = RunAt(t[s[c.y].line], s[c.y].at + c.x)
  BY DEF ClickedAt
<1> HIDE DEF s
<1>4. s[c.y].cells # <<>>
  BY <1>1, <1>2, <1>3, CellOfRow
<1>5. c.row = s[c.y].cells
  BY <1>1, <1>2, <1>3, <1>4
<1> QED
  BY <1>1, <1>2, <1>3, <1>5, RowShowsPiece


(* What the two captures of one screen give, in a row that shows what the  *)
(* clicked one showed.                                                     *)
LEMMA CapturesAnswer ==
  ASSUME Unpadded(Texts), NEW c, NEW t, NEW n, ClickedAt(c, t, n),
         NEW u \in Texts, NEW k \in Nat, k < Len(Rows(u)),
         NEW row \in 1..Height, Capture(u, k)[row] = c.row,
         NEW found, found = Match(Capture(u, k), CaptureJoined(u, k), row, c.x)
  PROVE  /\ found # None
         /\ \E r \in Range(Rows(u)) : /\ Trim(r.cells) = c.row
                                      /\ found \in Pieces(RunAt(u[r.line], r.at + c.x))
         /\ u = t /\ k = n /\ row = c.y => found \in Pieces(c.meant) /\ (c.whole => found = c.meant)
<1> DEFINE s == Screen(t, n)
           v == Screen(u, k)
           x == c.x
<1>1. t \in Seq(Seq(Cells)) /\ n \in Nat /\ n < Len(Rows(t)) /\ \A r \in Range(Rows(t)) : Trim(r.cells) = r.cells
  BY TextAssumption DEF ClickedAt, Unpadded
<1>2. u \in Seq(Seq(Cells)) /\ \A r \in Range(Rows(u)) : Trim(r.cells) = r.cells
  BY TextAssumption DEF Unpadded
<1>3. Scene(t, s) /\ \A y \in 1..Height : s[y].cells # <<>> => s[y] \in Range(Rows(t))
  BY <1>1, CapturedHere
<1>4. /\ Scene(u, v) /\ Captured(u, v, Capture(u, k), CaptureJoined(u, k))
      /\ \A y \in 1..Height : v[y].cells # <<>> => v[y] \in Range(Rows(u))
  BY <1>2, CapturedHere
<1>5. /\ c.y \in 1..Height /\ x \in 1..Len(s[c.y].cells) /\ s[c.y].cells[x] # Blank
      /\ c.row = Trim(s[c.y].cells) /\ c.meant = RunAt(t[s[c.y].line], s[c.y].at + x)
      /\ c.whole => Visible(t, n, s[c.y].line, s[c.y].at + x)
  BY DEF ClickedAt
<1>6. c.whole => OnSight(t, s, s[c.y].line, s[c.y].at + x)
  <2>1. ASSUME NEW l, NEW m, Visible(t, n, l, m) PROVE OnSight(t, s, l, m)
    BY <2>1 DEF Visible, OnSight, s
  <2> QED
    BY <1>5, <2>1
<1>7. u = t /\ k = n => v = s
  OBVIOUS
<1> HIDE DEF s, v, x
<1>8. s[c.y].cells # <<>>
  BY <1>1, <1>3, <1>5, CellOfRow
<1>9. c.row = s[c.y].cells
  BY <1>1, <1>3, <1>5, <1>8
<1>10. v[row].cells = c.row
  BY <1>4 DEF Captured
<1>11. x \in 1..Len(v[row].cells) /\ v[row].cells[x] # Blank /\ v[row].cells # <<>>
  BY <1>5, <1>8, <1>9, <1>10
<1> DEFINE whole == LineRun(u, v, row, x)
<1>12. /\ whole \in Pieces(RunAt(u[v[row].line], v[row].at + x)) /\ whole # None
       /\ OnSight(u, v, v[row].line, v[row].at + x) => whole = RunAt(u[v[row].line], v[row].at + x)
  <2> HIDE DEF whole
  <2> QED
    BY <1>2, <1>4, <1>11, LineShowsPiece DEF whole
<1>13. found = whole
  <2>1. found = Match(Capture(u, k), CaptureJoined(u, k), row, x)
    BY DEF x
  <2> HIDE DEF whole
  <2> QED
    BY <1>2, <1>4, <1>12, <2>1, MatchFinds DEF whole
<1> HIDE DEF whole
<1>14. v[row] \in Range(Rows(u)) /\ Trim(v[row].cells) = c.row
  BY <1>2, <1>4, <1>10, <1>11
<1>15. \E r \in Range(Rows(u)) : Trim(r.cells) = c.row /\ found \in Pieces(RunAt(u[r.line], r.at + c.x))
  BY <1>12, <1>13, <1>14 DEF x
<1>16. ASSUME u = t, k = n, row = c.y PROVE found \in Pieces(c.meant) /\ (c.whole => found = c.meant)
  BY <1>5, <1>6, <1>7, <1>12, <1>13, <1>16
<1> QED
  BY <1>12, <1>13, <1>15, <1>16

(* While the handler reads, its click is one that some screen showed, the  *)
(* one of now if nothing has changed; its first capture is the screen of   *)
(* now or has been left behind; and the screen it joined is the one it had *)
(* captured, or that one has been left behind.  A capture that was left    *)
(* and is there again is what CameBack excludes.                           *)
Seen == text \in Texts /\ top \in Nat /\ top < Len(Rows(text)) /\ changes \in Nat
ClickKnown ==
  reader \in {"first", "second", "third"} =>
    \E t \in Texts, n \in Nat : ClickedAt(click, t, n) /\ (changes = 0 => t = text /\ n = top)
PhysicalKnown ==
  reader \in {"second", "third"} => \/ physical = Capture(text, top)
                                    \/ physical \in past /\ changes # 0
JoinedKnown ==
  /\ reader \in {"idle", "first", "second"} => joined = <<>>
  /\ reader = "third" =>
       \E u \in Texts, k \in Nat :
         /\ k < Len(Rows(u)) /\ joined = CaptureJoined(u, k)
         /\ physical = Capture(u, k) \/ physical \in past
         /\ changes = 0 => u = text /\ k = top
TextInv ==
  /\ Seen /\ ClickKnown /\ PhysicalKnown /\ JoinedKnown /\ RightText
  /\ reader \in {"idle", "first", "second", "third", "resolved"}
  /\ reader = "idle" => changes = 0

(* What Link does with the text.                                           *)
LetGo ==
  /\ reader = "resolved" /\ answer' = None /\ Still /\ UNCHANGED reader
TextNext ==
  ReaderStep \/ LetGo \/ (reader \notin {"idle", "resolved"} /\ (Scroll \/ Redraw))

(* What Link does with the text is a step of the text.                     *)
LEMMA LinkIsText == [LinkNext]_linkVars => [TextNext]_textVars
<1> SUFFICES ASSUME [LinkNext]_linkVars PROVE TextNext \/ UNCHANGED textVars
  OBVIOUS
<1>1. CASE UNCHANGED linkVars
  BY <1>1 DEF linkVars
<1>2. CASE ReadClick
  BY <1>2 DEF ReadClick, TextNext
<1>3. CASE Follow
  BY <1>3 DEF Follow, TextNext, LetGo
<1>4. CASE OpenLink \/ OpenFile \/ EditorsMove
  BY <1>4 DEF OpenLink, OpenFile, EditorsMove
<1>5. CASE Report \/ Finish
  BY <1>5 DEF Report, Finish
<1>6. CASE OpenUrl \/ UsersMove
  BY <1>6 DEF OpenUrl, UsersMove
<1>7. CASE ScreenMoves
  BY <1>7 DEF ScreenMoves, TextNext
<1>8. CASE Ended
  BY <1>8 DEF Ended, linkVars
<1>9. CASE NameHost
  BY <1>9 DEF NameHost
<1> QED
  BY <1>1, <1>2, <1>3, <1>4, <1>5, <1>6, <1>7, <1>8, <1>9 DEF LinkNext, Handler

(* The screen moves.                                                       *)
LEMMA ScreenKeeps ==
  ASSUME TextInv, reader \in {"first", "second", "third"}, Scroll \/ Redraw
  PROVE  TextInv'
<1>1. PICK t \in Texts, n \in Nat : Shows(t, n)
  <2>1. text \in Texts /\ top \in Nat /\ top + 1 \in Nat
    BY DEF TextInv, Seen
  <2> QED
    BY <2>1 DEF Scroll, Redraw
<1>2. /\ changes' = changes + 1 /\ n < Len(Rows(t)) /\ text' = t /\ top' = n
      /\ UNCHANGED <<reader, click, physical, joined, answer>>
      /\ past' = IF Capture(t, n) = Capture(text, top) THEN past ELSE past \cup {Capture(text, top)}
  BY <1>1 DEF Shows
<1>3. Seen' /\ changes' # 0
  BY <1>2 DEF TextInv, Seen
<1>4. past \subseteq past' /\ (Capture(text, top) = Capture(text', top') \/ Capture(text, top) \in past')
  BY <1>2
<1>5. ClickKnown'
  BY <1>2, <1>3 DEF TextInv, ClickKnown
<1>6. PhysicalKnown'
  <2> SUFFICES ASSUME reader' \in {"second", "third"}
               PROVE  physical' = Capture(text', top') \/ (physical' \in past' /\ changes' # 0)
    BY DEF PhysicalKnown
  <2>1. physical = Capture(text, top) \/ physical \in past
    BY <1>2 DEF TextInv, PhysicalKnown
  <2> QED
    BY <1>2, <1>3, <1>4, <2>1
<1>7. JoinedKnown'
  <2>1. reader' \in {"idle", "first", "second"} => joined' = <<>>
    BY <1>2 DEF TextInv, JoinedKnown
  <2>2. ASSUME reader' = "third"
        PROVE  \E u \in Texts, k \in Nat :
                 /\ k < Len(Rows(u)) /\ joined' = CaptureJoined(u, k)
                 /\ physical' = Capture(u, k) \/ physical' \in past'
                 /\ changes' = 0 => u = text' /\ k = top'
    <3>1. PICK u \in Texts, k \in Nat :
                 /\ k < Len(Rows(u)) /\ joined = CaptureJoined(u, k)
                 /\ physical = Capture(u, k) \/ physical \in past
      BY <1>2, <2>2 DEF TextInv, JoinedKnown
    <3>2. physical' = Capture(u, k) \/ physical' \in past'
      BY <1>2, <1>4, <3>1
    <3> QED
      BY <1>2, <1>3, <3>1, <3>2
  <2> QED
    BY <2>1, <2>2 DEF JoinedKnown
<1>8. RightText' /\ reader' \in {"first", "second", "third"}
  BY <1>2 DEF RightText
<1> QED
  BY <1>3, <1>5, <1>6, <1>7, <1>8 DEF TextInv

(* The click.                                                              *)
LEMMA PressKeeps ==
  ASSUME TextInv, Press
  PROVE  TextInv'
<1>1. /\ reader = "idle" /\ reader' = "first"
      /\ UNCHANGED <<text, top, past, changes, physical, joined, answer>>
  BY DEF Press, Reads, Still
<1>2. PICK y \in 1..Height, x \in 1..Width :
        LET s == Screen(text, top)[y] IN
        /\ x <= Len(s.cells) /\ s.cells[x] # Blank
        /\ click' = [y |-> y, x |-> x, row |-> Trim(s.cells), meant |-> RunAt(text[s.line], s.at + x),
                     whole |-> Visible(text, top, s.line, s.at + x)]
  BY DEF Press
<1> DEFINE s == Screen(text, top)[y]
<1>3. text \in Texts /\ top \in Nat /\ top < Len(Rows(text))
  BY DEF TextInv, Seen
<1>4. /\ click'.y = y /\ click'.x = x /\ click'.row = Trim(s.cells)
      /\ click'.meant = RunAt(text[s.line], s.at + x)
      /\ click'.whole => Visible(text, top, s.line, s.at + x)
  BY <1>2, Zenon
<1>5. x \in 1..Len(s.cells) /\ s.cells[x] # Blank
  <2>1. Len(s.cells) \in Nat
    <3>1. Scene(text, Screen(text, top))
      BY <1>3, ScreenRows, TextAssumption
    <3> QED
      BY <3>1, <1>3, RowFits, TextAssumption
  <2>2. x \in Nat /\ 1 <= x
    BY TextAssumption
  <2> QED
    BY <1>2, <2>1, <2>2
<1>6. ClickedAt(click', text, top)
  BY <1>3, <1>4, <1>5 DEF ClickedAt
<1>7. ClickKnown'
  BY <1>1, <1>3, <1>6 DEF ClickKnown
<1> QED
  BY <1>1, <1>7 DEF TextInv, Seen, PhysicalKnown, JoinedKnown, RightText

(* Tmux's copy of the row is an answer as long as nothing was joined.      *)
LEMMA RowIsRight ==
  ASSUME Unpadded(Texts), TextInv, reader \in {"first", "second", "third"},
         reader' = "resolved", answer' = FromRow, UNCHANGED <<click, changes>>,
         joined' = <<>> \/ changes # 0
  PROVE  RightText'
<1>1. PICK t \in Texts, n \in Nat : ClickedAt(click, t, n)
  BY DEF TextInv, ClickKnown
<1>2. PICK c : c = click
  OBVIOUS
<1>3. RunAt(c.row, c.x) \in Pieces(c.meant)
  BY <1>1, <1>2, RowAnswer
<1>4. answer' \in Pieces(click'.meant)
  BY <1>2, <1>3 DEF FromRow
<1> QED
  BY <1>4 DEF RightText

(* The three captures.                                                     *)
LEMMA FirstKeeps ==
  ASSUME Unpadded(Texts), TextInv, FirstCapture
  PROVE  TextInv'
<1>1. /\ reader = "first" /\ UNCHANGED <<text, top, past, changes, click, joined>>
      /\ \/ reader' = "second" /\ physical' = Capture(text, top) /\ UNCHANGED answer
         \/ reader' = "resolved" /\ answer' = FromRow /\ UNCHANGED physical
  BY DEF FirstCapture, Reads, Still
<1>2. joined' = <<>> /\ Seen'
  BY <1>1 DEF TextInv, JoinedKnown, Seen
<1>3. CASE reader' = "second"
  <2>1. ClickKnown'
    BY <1>1, <1>3 DEF TextInv, ClickKnown
  <2> QED
    BY <1>1, <1>2, <1>3, <2>1 DEF TextInv, PhysicalKnown, JoinedKnown, RightText
<1>4. CASE reader' = "resolved"
  <2>1. RightText'
    BY <1>1, <1>2, <1>4, RowIsRight
  <2> QED
    BY <1>1, <1>2, <1>4, <2>1 DEF TextInv, ClickKnown, PhysicalKnown, JoinedKnown
<1> QED
  BY <1>1, <1>3, <1>4

LEMMA SecondKeeps ==
  ASSUME Unpadded(Texts), TextInv, SecondCapture
  PROVE  TextInv'
<1>1. /\ reader = "second" /\ UNCHANGED <<text, top, past, changes, click, physical>>
      /\ \/ reader' = "third" /\ joined' = CaptureJoined(text, top) /\ UNCHANGED answer
         \/ reader' = "resolved" /\ answer' = FromRow /\ UNCHANGED joined
  BY DEF SecondCapture, Reads, Still
<1>2. joined = <<>> /\ Seen' /\ Seen
  BY <1>1 DEF TextInv, JoinedKnown, Seen
<1>3. CASE reader' = "third"
  <2>1. ClickKnown'
    BY <1>1, <1>3 DEF TextInv, ClickKnown
  <2>2. PhysicalKnown'
    BY <1>1, <1>3 DEF TextInv, PhysicalKnown
  <2>3. physical' = Capture(text, top) \/ physical' \in past'
    BY <1>1 DEF TextInv, PhysicalKnown
  <2>4. JoinedKnown'
    BY <1>1, <1>2, <1>3, <2>3 DEF JoinedKnown, Seen
  <2> QED
    BY <1>1, <1>2, <1>3, <2>1, <2>2, <2>4 DEF TextInv, RightText
<1>4. CASE reader' = "resolved"
  <2>1. RightText'
    BY <1>1, <1>2, <1>4, RowIsRight
  <2> QED
    BY <1>1, <1>2, <1>4, <2>1 DEF TextInv, ClickKnown, PhysicalKnown, JoinedKnown
<1> QED
  BY <1>1, <1>3, <1>4

LEMMA ThirdKeeps ==
  ASSUME Unpadded(Texts), TextInv, ThirdCapture
  PROVE  TextInv'
<1>1. /\ reader = "third" /\ reader' = "resolved"
      /\ UNCHANGED <<text, top, past, changes, click, physical, joined>>
  BY DEF ThirdCapture, Reads, Still
<1>2. Seen' /\ Seen
  BY <1>1 DEF TextInv, Seen
<1>3. RightText'
  <2>1. CASE answer' = None
    BY <2>1 DEF RightText
  <2>2. CASE answer' # None
    <3>1. physical = Capture(text, top)
      BY <2>2 DEF ThirdCapture, Steady
    <3> DEFINE row == CHOOSE y \in ClickRow : TRUE
               found == Match(physical, joined, row, click.x)
    <3>2. answer' = IF ClickRow = {} THEN FromRow ELSE IF found = None THEN FromRow ELSE found
      BY <2>2, <3>1 DEF ThirdCapture, Steady
    <3>3. PICK t \in Texts, n \in Nat : ClickedAt(click, t, n) /\ (changes = 0 => t = text /\ n = top)
      BY <1>1 DEF TextInv, ClickKnown
    <3>4. PICK u \in Texts, k \in Nat :
            /\ k < Len(Rows(u)) /\ joined = CaptureJoined(u, k)
            /\ physical = Capture(u, k) \/ physical \in past
            /\ changes = 0 => u = text /\ k = top
      BY <1>1 DEF TextInv, JoinedKnown
    <3>5. PICK c : c = click
      OBVIOUS
    <3>6. DOMAIN physical = 1..Height
      BY <3>1 DEF Capture
    <3>7. ClickRow # {} => row \in 1..Height /\ physical[row] = c.row
      <4>1. ClickRow # {} => row \in ClickRow
        BY Zenon
      <4> HIDE DEF row
      <4>2. \A y \in ClickRow : y \in DOMAIN physical /\ physical[y] = click.row
        BY DEF ClickRow
      <4> QED
        BY <3>5, <3>6, <4>1, <4>2
    <3>8. changes = 0 => ClickRow = {c.y}
      <4> SUFFICES ASSUME changes = 0 PROVE ClickRow = {c.y}
        OBVIOUS
      <4>1. c.y \in 1..Height /\ c.row = Trim(Screen(text, top)[c.y].cells)
        BY <3>3, <3>5 DEF ClickedAt
      <4>2. physical[c.y] = c.row
        BY <3>1, <4>1 DEF Capture
      <4> QED
        BY <3>5, <3>6, <4>1, <4>2 DEF ClickRow
    <3>9. changes = 0 => row = c.y
      BY <3>8
    <3> HIDE DEF row, found
    <3>10. CASE ClickRow = {} 
      <4>1. changes # 0
        BY <3>8, <3>10
      <4>2. answer' = FromRow
        BY <3>2, <3>10
      <4> QED
        BY <1>1, <4>1, <4>2, RowIsRight
    <3>11. CASE ClickRow # {} /\ physical = Capture(u, k)
      <4>1. found = Match(Capture(u, k), CaptureJoined(u, k), row, c.x)
        BY <3>4, <3>5, <3>11 DEF found
      <4>2. ClickedAt(c, t, n) /\ row \in 1..Height /\ Capture(u, k)[row] = c.row
        BY <3>3, <3>5, <3>7, <3>11
      <4>3. PICK f : f = found
        OBVIOUS
      <4>4. /\ f # None
            /\ \E r \in Range(Rows(u)) : /\ Trim(r.cells) = c.row
                                         /\ f \in Pieces(RunAt(u[r.line], r.at + c.x))
            /\ u = t /\ k = n /\ row = c.y => f \in Pieces(c.meant) /\ (c.whole => f = c.meant)
        BY <3>4, <4>1, <4>2, <4>3, CapturesAnswer
      <4>5. answer' = f
        BY <3>2, <3>11, <4>3, <4>4
      <4>6. ASSUME changes = 0 PROVE f \in Pieces(c.meant) /\ (c.whole => f = c.meant)
        BY <3>3, <3>4, <3>9, <4>4, <4>6
      <4>7. ASSUME ~Twins' PROVE f \in Pieces(c.meant)
        <5>1. PICK r \in Range(Rows(u)) : /\ Trim(r.cells) = c.row
                                          /\ f \in Pieces(RunAt(u[r.line], r.at + c.x))
          BY <4>4
        <5>2. RunAt(u[r.line], r.at + c.x) = c.meant
          BY <1>1, <3>5, <4>7, <5>1 DEF Twins
        <5> QED
          BY <5>1, <5>2
      <4> QED
        BY <1>1, <3>5, <4>5, <4>6, <4>7 DEF RightText
    <3>12. CASE ClickRow # {} /\ physical # Capture(u, k)
      <4>1. physical \in past /\ changes # 0
        BY <3>1, <3>4, <3>12
      <4>2. CameBack'
        BY <1>1, <3>1, <4>1 DEF CameBack
      <4> QED
        BY <1>1, <4>1, <4>2 DEF RightText
    <3> QED
      BY <3>10, <3>11, <3>12
  <2> QED
    BY <2>1, <2>2
<1> QED
  BY <1>1, <1>2, <1>3 DEF TextInv, ClickKnown, PhysicalKnown, JoinedKnown

(* Every step keeps the invariant.                                         *)
LEMMA TextKept == Unpadded(Texts) /\ TextInv /\ [TextNext]_textVars => TextInv'
<1> SUFFICES ASSUME Unpadded(Texts), TextInv, [TextNext]_textVars PROVE TextInv'
  OBVIOUS
<1>1. CASE UNCHANGED textVars
  BY <1>1 DEF textVars, TextInv, Seen, ClickKnown, PhysicalKnown, JoinedKnown, RightText, Twins, CameBack
<1>2. CASE Press
  BY <1>2, PressKeeps
<1>3. CASE FirstCapture
  BY <1>3, FirstKeeps
<1>4. CASE SecondCapture
  BY <1>4, SecondKeeps
<1>5. CASE ThirdCapture
  BY <1>5, ThirdKeeps
<1>6. CASE LetGo
  BY <1>6 DEF LetGo, Still, TextInv, Seen, ClickKnown, PhysicalKnown, JoinedKnown, RightText
<1>7. CASE reader \notin {"idle", "resolved"} /\ (Scroll \/ Redraw)
  <2>1. reader \in {"first", "second", "third"}
    BY <1>7 DEF TextInv
  <2> QED
    BY <1>7, <2>1, ScreenKeeps
<1> QED
  BY <1>1, <1>2, <1>3, <1>4, <1>5, <1>6, <1>7 DEF TextNext, ReaderStep

(* A click opens what was clicked or nothing: while the screen is not seen *)
(* to come back and no other link looks the same, the answer is a piece of *)
(* the link under the click, and the whole link if the screen stood still  *)
(* and showed all of it (click.rs, resolve, from_joined_capture).          *)
THEOREM ClickedTextOpens ==
  ASSUME Unpadded(Texts)
  PROVE  LinkSpec => []RightText
<1>1. LinkInit => TextInv
  <2> SUFFICES ASSUME TextInit PROVE TextInv
    BY DEF LinkInit
  <2>1. text \in Texts /\ top \in 0..Len(Rows(text)) - 1
    BY DEF TextInit
  <2>2. top \in Nat /\ top < Len(Rows(text))
    <3>1. Len(Rows(text)) \in Nat
      BY <2>1, TextAssumption, RowsLength
    <3> QED
      BY <2>1, <3>1
  <2> QED
    BY <2>1, <2>2 DEF TextInit, TextInv, Seen, ClickKnown, PhysicalKnown, JoinedKnown, RightText
<1>2. TextInv => RightText
  BY DEF TextInv
<1>3. TextInv /\ [LinkNext]_linkVars => TextInv'
  BY LinkIsText, TextKept
<1> QED
  BY <1>1, <1>2, <1>3, PTL DEF LinkSpec
=============================================================================
