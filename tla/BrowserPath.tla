---------------------------- MODULE BrowserPath ----------------------------
(***************************************************************************)
(* A clicked URL goes to the terminal behind the tmux client that was      *)
(* clicked in (browser.rs, request_click): from client to the pane of the  *)
(* tmux server outside it, until a terminal is found that understands the  *)
(* request.  If there is none the $BROWSER commands are tried, and if they *)
(* fail the user is told (click.rs, open_url).  Clients attach, detach and *)
(* change sessions between any two calls.                                  *)
(***************************************************************************)
EXTENDS Naturals, Sequences, FiniteSets

CONSTANTS
  Clients,     \* tmux clients
  Servers,     \* tmux servers
  ServerOf,    \* the server of a client
  Clicker,     \* the client that received the click
  Terminals,   \* what clients run in: [says, proven, able, host, owns]
  MaxDepth,    \* tmux layers followed
  MaxBrowsers, \* bound on the entries of $BROWSER
  MaxMoves,    \* bound on what the clients do
  NoClient     \* no client, no server

ASSUME BrowserAssumption ==
  /\ ServerOf \in [Clients -> Servers] /\ Clicker \in Clients
  /\ NoClient \notin Clients \cup Servers
  /\ Terminals \in [Clients -> SUBSET [says : {"wezterm", "tmux", "other"}, proven : BOOLEAN,
                      able : BOOLEAN, host : Servers \cup {NoClient}, owns : BOOLEAN]]
  /\ MaxDepth \in Nat /\ MaxBrowsers \in Nat /\ MaxMoves \in Nat

VARIABLES
  terminal,   \* of a client: what it says it is, whether a reply of the terminal
              \* proves that, whether requests can be written to it, the server
              \* in whose pane it was started, whether that pane shows it
  attached,   \* the clients that are attached
  session,    \* the session a client shows
  shown,      \* the session the clicked or hosting pane of a server resolves to
  window,     \* the clients that show that pane's window
  newest,     \* the client used last on a server
  moves,      \* how often the clients have changed anything
  named,      \* whether tmux named the clicking client
  browser,    \* where the request stands
  hop,        \* the client whose terminal is looked at
  depth,      \* tmux layers followed so far
  servers,    \* the servers visited
  chain,      \* the clients the request went through, the first one first
  written,    \* the client whose terminal got the URL
  entries,    \* entries of $BROWSER still to be tried
  checked,    \* the session the message may be shown in, and when that was read
  told,       \* the client that was shown a message
  left        \* whether the clicking client has been away since the click

worldVars == <<terminal, attached, session, shown, window, newest, moves, left>>
requestVars == <<hop, depth, servers, chain, written>>
failVars == <<entries, checked, told>>
browserVars == <<worldVars, requestVars, failVars, named, browser>>

Sessions == {"home", "away"}
ClientsOf(s) == {c \in Clients : ServerOf[c] = s}
Here == ServerOf[Clicker]

BrowserInit ==
  /\ terminal \in [Clients -> UNION {Terminals[c] : c \in Clients}]
  /\ \A c \in Clients : terminal[c] \in Terminals[c]
  /\ attached \in SUBSET Clients /\ left = (Clicker \notin attached)
  /\ session \in [Clients -> Sessions]
  /\ shown = [s \in Servers |-> "home"]
  /\ window \in SUBSET Clients
  /\ newest \in [Servers -> Clients] /\ \A s \in Servers : ServerOf[newest[s]] = s
  /\ moves = 0 /\ named \in BOOLEAN
  /\ browser \in {"click", "tell"}     \* told at once of a URL that is not allowed
  /\ hop = NoClient /\ depth = 0 /\ servers = {} /\ chain = <<>>
  /\ written = NoClient /\ entries \in 0..MaxBrowsers
  /\ checked = [session |-> "none", moves |-> 0] /\ told = NoClient

-----------------------------------------------------------------------------
(* tmux and its users.                                                     *)

Moves == /\ moves < MaxMoves /\ moves' = moves + 1
         /\ UNCHANGED <<terminal, requestVars, failVars, named, browser>>
Detach(c) == /\ c \in attached /\ Moves /\ attached' = attached \ {c}
             /\ left' = (left \/ c = Clicker)
             /\ UNCHANGED <<session, shown, window, newest>>
Attach(c) == /\ c \notin attached /\ Moves /\ attached' = attached \cup {c}
             /\ newest' = [newest EXCEPT ![ServerOf[c]] = c]
             /\ UNCHANGED <<session, shown, window, left>>
Switch(c) == /\ c \in attached /\ Moves
             /\ session' = [session EXCEPT ![c] = CHOOSE s \in Sessions : s # session[c]]
             /\ newest' = [newest EXCEPT ![ServerOf[c]] = c]
             /\ UNCHANGED <<attached, shown, window, left>>
Relink(s) == /\ Moves    \* the pane resolves to another of the sessions it is linked to
             /\ shown' = [shown EXCEPT ![s] = CHOOSE t \in Sessions : t # shown[s]]
             /\ UNCHANGED <<attached, session, window, newest, left>>
ClientsMove == \E c \in Clients : Detach(c) \/ Attach(c) \/ Switch(c) \/ Relink(ServerOf[c])

-----------------------------------------------------------------------------
(* The request.                                                            *)

(* Places without a deadline.  A tmux call here ends with its output, which*)
(* a descendant of it may hold (output_timeout); the terminal's device is  *)
(* opened and written to as long as it takes (open_writer, write_all).     *)
Unbounded == {"click", "choose", "parent", "write", "tell", "check", "compare", "speak"}

Steps(from, to) == browser = from /\ browser' = to
NextEntry == IF entries = 0 THEN "tell" ELSE "browse"
Fails(from) == Steps(from, NextEntry) /\ UNCHANGED requestVars
From(c) == hop' = c /\ chain' = Append(chain, c)

(* select_client: eligible clients of the session, those that show the     *)
(* window before the others, the most recently used one first.             *)
Eligible(s) == {c \in attached \cap ClientsOf(s) : session[c] = shown[s] /\ terminal[c].able}
Preferred(s) == IF Eligible(s) \cap window # {} THEN Eligible(s) \cap window ELSE Eligible(s)
Selected(s) == IF newest[s] \in Preferred(s) THEN {newest[s]} ELSE Preferred(s)

(* fault: a client that cannot be written to is passed over                *)
ClickedOrGone == IF ~named \/ Clicker \notin attached \/ ~terminal[Clicker].able THEN "gone" ELSE "client"
(* request_click: the clicking client, or the pane's choice if it is gone. *)
Clicked == IF ~named \/ Clicker \notin attached THEN "gone"
           ELSE IF terminal[Clicker].able THEN "client" ELSE "ineligible"
FindClient ==
  \/ /\ Clicked = "client" /\ Steps("click", "follow") /\ From(Clicker)
     /\ servers' = {Here} /\ UNCHANGED <<depth, written>>
  \/ Clicked = "gone" /\ Steps("click", "choose") /\ UNCHANGED requestVars
  \/ Fails("click")         \* not eligible, or tmux did not answer
ChooseClient ==
  \/ \E c \in Selected(Here) : /\ Steps("choose", "follow") /\ From(c)
                               /\ servers' = {Here} /\ UNCHANGED <<depth, written>>
  \/ Fails("choose")        \* nobody is there, or the pane is not known

(* deliver: what the client's terminal is decides.                         *)
Inside(layers) == depth < MaxDepth /\ terminal[hop].says = layers
Deliver ==
  \/ Steps("follow", "write") /\ Inside("wezterm") /\ UNCHANGED requestVars
  \/ Steps("follow", "parent") /\ Inside("tmux") /\ UNCHANGED requestVars
  \/ Fails("follow") /\ ~Inside("wezterm") /\ ~Inside("tmux")

(* parent_client: the local tmux outside, whose pane must show the client. *)
Unrelated == IF terminal[hop].proven THEN Steps("parent", "write") /\ UNCHANGED requestVars ELSE Fails("parent")
Outside(p) ==      \* the hosting pane's server is p, which has not been visited
  \/ ~terminal[hop].owns /\ Selected(p) # {} /\ Unrelated
  \/ /\ terminal[hop].owns
     /\ \E c \in Selected(p) : Steps("parent", "follow") /\ From(c)
     /\ depth' = depth + 1 /\ servers' = servers \cup {p} /\ UNCHANGED written
  \/ Fails("parent")       \* nobody is there, or no answer
ParentClient ==
  /\ browser = "parent"
  /\ LET p == terminal[hop].host IN
     IF p = NoClient THEN Steps("parent", "write") /\ UNCHANGED requestVars
     ELSE IF p \in servers THEN Unrelated ELSE Outside(p)
(* write: stopped output may keep it for ever, so it is given no fairness. *)
WriteUrl == \/ Steps("write", "sent") /\ written' = hop /\ UNCHANGED <<hop, depth, servers, chain>>
            \/ Fails("write")

-----------------------------------------------------------------------------
(* When the terminal cannot take it.                                       *)

(* open_with_browser: an entry that ends with success, or still runs after *)
(* three seconds, has opened the URL.                                      *)
Browse ==
  \/ Steps("browse", "sent") /\ UNCHANGED <<requestVars, failVars>>
  \/ /\ entries > 0 /\ entries' = entries - 1 /\ Steps("browse", IF entries = 1 THEN "tell" ELSE "browse")
     /\ UNCHANGED <<requestVars, checked, told>>

(* tell: first on the clicking client, which tmux 3.2 does not allow.      *)
TellClient ==
  /\ \/ /\ named /\ Steps("tell", "told")
        /\ told' = IF Clicker \in attached THEN Clicker ELSE NoClient
     \/ Steps("tell", "check") /\ UNCHANGED told
  /\ UNCHANGED <<requestVars, entries, checked>>
(* Then on the pane's session, if it is the clicking client's.             *)
CheckSession ==
  /\ \/ /\ \E c \in attached \cap ClientsOf(Here) : session[c] = shown[Here]
        /\ Steps("check", IF named THEN "compare" ELSE "speak")
        /\ checked' = [session |-> shown[Here], moves |-> moves]
     \/ Steps("check", "told") /\ UNCHANGED checked          \* on stderr
  /\ UNCHANGED <<requestVars, entries, told>>
(* fault: any attached session will do                                     *)
Attended == TRUE
Own == Clicker \in attached /\ session[Clicker] = checked.session
CompareSession ==
  /\ \/ Own /\ Steps("compare", "speak")
     \/ Steps("compare", "told")
  /\ UNCHANGED <<requestVars, failVars>>
(* tmux shows it on a client of the session the pane resolves to, or, when *)
(* that session has no client, on the one used last anywhere.              *)
Speak ==
  LET there == {c \in attached \cap ClientsOf(Here) : session[c] = shown[Here]} IN
  /\ \/ \E c \in IF there # {} THEN there ELSE attached \cap {newest[Here]} : Steps("speak", "told") /\ told' = c
     \/ Steps("speak", "told") /\ UNCHANGED told             \* on stderr
  /\ UNCHANGED <<requestVars, entries, checked>>

RequestStep == (FindClient \/ ChooseClient \/ Deliver \/ ParentClient \/ WriteUrl) /\ UNCHANGED failVars
FailStep == Browse \/ TellClient \/ CheckSession \/ CompareSession \/ Speak
BrowserStep == (RequestStep \/ FailStep) /\ UNCHANGED <<worldVars, named>>
BrowserDone == browser \in {"sent", "told"}

-----------------------------------------------------------------------------
(* A URL leaves through the client that was clicked in, as long as that    *)
(* one stays attached, whoever else is attached or used last: it never     *)
(* opens at somebody else because the clicking client cannot show it       *)
(* (request_click, find_client, tmux_client).                              *)
ClickReaches == written # NoClient /\ named /\ ~left => chain[1] = Clicker

(* Unless the clients move after the handler has asked for them, a message *)
(* with the URL is shown only in the clicking client's session (tell).     *)
TellStaysHome ==
  told # NoClient /\ named /\ moves = checked.moves => session[told] = session[Clicker]
=============================================================================
