-------------------------------- MODULE Link --------------------------------
(***************************************************************************)
(* A click is followed (click.rs, follow): its text is resolved            *)
(* (ClickText), then a file is opened in an editor (EditorRegistry) or a   *)
(* URL in the browser of the user who clicked (BrowserPath).  A hyperlink  *)
(* of the terminal needs no text to be read, and editors and scripts open  *)
(* files without a click.                                                  *)
(***************************************************************************)
EXTENDS ClickText, EditorRegistry, BrowserPath

VARIABLE phase   \* text, name, file, page, done
linkVars == <<phase, textVars, registryVars, browserVars>>

Following(part) == phase = part /\ UNCHANGED phase
Ends(part) == phase = part /\ phase' = "done"

LinkInit == phase \in {"text", "name", "file", "page"} /\ TextInit /\ RegistryInit /\ BrowserInit

ReadClick == Following("text") /\ ReaderStep /\ UNCHANGED <<registryVars, browserVars>>
(* follow: what the text is decides where it goes.                         *)
Follow == /\ phase = "text" /\ reader = "resolved"
          /\ phase' \in IF answer = None THEN {"done"} ELSE {"file", "page"}
          /\ click' = NoClick /\ physical' = <<>> /\ joined' = <<>> /\ answer' = None /\ Still
          /\ UNCHANGED <<reader, registryVars, browserVars>>

(* local_file_host: a hyperlink may name a host that is neither the local  *)
(* one nor the kernel's name for it; then hostname(1) is asked.            *)
NameHost == phase = "name" /\ phase' = "file" /\ UNCHANGED <<textVars, registryVars, browserVars>>
(* open_link: in the editor clicked in, near the caller, or on the host    *)
(* that the link names.                                                    *)
OpenLink ==
  /\ Following("file") /\ opener = "idle"
  /\ opener' \in {"host", "list", "registry", "ssh", "helper"}
  /\ UNCHANGED <<textVars, browserVars, editorVars, openerVars, openVars, steady>>
OpenFile == Following("file") /\ OpenerStep /\ UNCHANGED <<textVars, browserVars>>
Report == /\ Ends("file") /\ OpenerDone      \* a failure is shown, wherever it can be
          /\ UNCHANGED <<textVars, registryVars, browserVars>>
OpenUrl == Following("page") /\ BrowserStep /\ UNCHANGED <<textVars, registryVars>>
Finish == Ends("page") /\ BrowserDone /\ UNCHANGED <<textVars, registryVars, browserVars>>

(* The worlds move as long as they are looked at.                          *)
ScreenMoves == Following("text") /\ reader \notin {"idle", "resolved"} /\ (Scroll \/ Redraw) /\ UNCHANGED <<registryVars, browserVars>>
EditorsMove ==
  /\ Following("file") /\ opener # "idle" /\ ~OpenerDone
  /\ \E e \in Editors : EditorStep(e) \/ OpenLate(e)
  /\ UNCHANGED <<textVars, browserVars>>
UsersMove == Following("page") /\ ~BrowserDone /\ ClientsMove /\ UNCHANGED <<textVars, registryVars>>

Handler == ReadClick \/ Follow \/ NameHost \/ OpenLink \/ OpenFile \/ Report \/ OpenUrl \/ Finish
(* Where the handler waits without a deadline.                             *)
Waits(place) == \/ place = phase /\ phase = "name"
                \/ place = browser /\ phase = "page" /\ browser \in Unbounded
Waiting == \E place \in {"name"} \cup Unbounded : Waits(place)
Deadlines == ~Waiting /\ Handler
Ended == phase = "done" /\ UNCHANGED linkVars
LinkNext == Handler \/ ScreenMoves \/ EditorsMove \/ UsersMove \/ Ended
LinkSpec == LinkInit /\ [][LinkNext]_linkVars /\ WF_linkVars(Deadlines)

-----------------------------------------------------------------------------
(* A click is dealt with, whatever tmux, the editors and the terminals do  *)
(* (tmux's mouse binding waits for it), unless it stands for ever in one of*)
(* the waits that have no deadline: for hostname(1) on the way of a link to*)
(* a file, for the end of the output of a tmux call (output_timeout), or   *)
(* for a terminal that takes the URL.  Everything else is bounded by those *)
(* who ask: open_socket, tmux_status, ssh_open, configured_open,           *)
(* open_with_browser and the captures; and the walk through nested tmux    *)
(* servers, the records and the $BROWSER entries has an end.               *)
ClickEnds ==
  <>(phase = "done") \/ \E place \in {"name"} \cup Unbounded : <>[]Waits(place)
=============================================================================
