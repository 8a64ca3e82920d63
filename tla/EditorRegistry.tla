--------------------------- MODULE EditorRegistry ---------------------------
(***************************************************************************)
(* Neovim instances publish where they can be reached                      *)
(* (lib/termnav/nvim/nvim-tmux-open.lua) and a link opener looks for one   *)
(* of them to open a file in (nvim/open.rs, nvim/remote.rs).  Records are  *)
(* replaced one file at a time and a dead editor leaves all of its files   *)
(* behind, so the opener reads a registry that is being written.           *)
(*                                                                         *)
(* Records of older plugin versions (the legacy files) are left out.       *)
(***************************************************************************)
EXTENDS Naturals, Sequences, FiniteSets, SequencesExt

CONSTANTS
  Editors,   \* Neovim processes
  Panes,     \* tmux panes
  PaneOf,    \* the pane an editor runs in
  All,       \* the registry's scope that holds every editor
  MaxSeq,    \* bound on the publications
  MaxUpsets, \* bound on the editors that end, or are blocked or freed
  Nobody     \* no editor, no pane

ASSUME EditorAssumption ==
  /\ IsFiniteSet(Editors) /\ "latest" \notin Editors
  /\ PaneOf \in [Editors -> Panes] /\ All \notin Panes
  /\ Nobody \notin Editors \cup Panes /\ MaxSeq \in Nat /\ MaxUpsets \in Nat

VARIABLES
  life,     \* of an editor: none, setup, live, leaving, dead
  step,     \* writes done of its publication, deletions done of its cleanup
  stamp,    \* the sequence number of its publication
  own,      \* owner records of a scope
  latest,   \* the latest record of a scope, a set of at most one
  marker,   \* the editors with an owner marker
  busy,     \* the editors that do not answer for now
  seq,      \* the clock publications are stamped with
  upsets,   \* how often an editor has ended, or been blocked or freed
  opener,   \* where the opener stands
  panes,    \* panes with a foreground nvim still to be tried
  first,    \* the first of them, to type into
  scope,    \* the scope whose records are tried
  paths,    \* the records to try, in order
  seen,     \* the sockets of this scope already tried
  target,   \* the editor to ask
  queue,    \* editors that hold a request nobody waits for any more
  opens,    \* how often an editor has taken on to open the file
  lost,     \* what has gone wrong after a request was sent
  steady    \* editors that have been ready since they could be found

editorVars == <<life, step, stamp, own, latest, marker, busy, seq, upsets>>
openerVars == <<panes, first, scope, paths, seen, target>>
openVars == <<queue, opens, lost>>
registryVars == <<editorVars, openerVars, openVars, opener, steady>>

Scopes == Panes \cup {All}
Replace(S, r) == {x \in S : x.owner # r.owner} \cup {r}
Forget(S, e) == {x \in S : x.owner # e}

RegistryInit ==
  /\ life \in [Editors -> {"none", "live", "dead"}]
  /\ step = [e \in Editors |-> IF life[e] = "none" THEN 0 ELSE 5]
  /\ stamp = [e \in Editors |-> 0]
  /\ marker = {e \in Editors : life[e] # "none"}
  /\ own = [p \in Scopes |-> {[owner |-> e, seq |-> 0] : e \in {x \in marker : p \in {PaneOf[x], All}}}]
  /\ latest \in [Scopes -> {{}} \cup {{r} : r \in [owner : Editors, seq : {0}]}]
  /\ \A p \in Scopes : latest[p] \subseteq own[p] /\ (own[p] # {} => latest[p] # {})
  /\ busy \in SUBSET Editors
  /\ seq = 0 /\ upsets = 0
  /\ opener = "idle" /\ panes = {} /\ first = Nobody /\ scope = Nobody
  /\ paths = <<>> /\ seen = {} /\ target = Nobody
  /\ queue = {} /\ opens = 0 /\ lost = {} /\ steady = {}

Listening(e) == life[e] \in {"setup", "live"} \/ (life[e] = "leaving" /\ step[e] < 4)

-----------------------------------------------------------------------------
(* What an editor does while the opener looks.                             *)

Upset == upsets < MaxUpsets /\ upsets' = upsets + 1

Ready == {e \in Editors : life[e] = "live" /\ e \notin busy}

(* setup() and, for a live editor, an autocommand: a new record.           *)
Publish(e) ==
  /\ life[e] \in {"none", "live"}
  /\ seq < MaxSeq /\ seq' = seq + 1
  /\ stamp' = [stamp EXCEPT ![e] = seq + 1]
  /\ step' = [step EXCEPT ![e] = 0]
  /\ life' = [life EXCEPT ![e] = IF @ = "none" THEN "setup" ELSE @]
  /\ UNCHANGED <<own, latest, marker, busy, upsets>>

(* The records are replaced one by one, the owner marker comes last.       *)
Write(e) ==
  /\ life[e] \in {"setup", "live"} /\ step[e] < 5
  /\ step' = [step EXCEPT ![e] = @ + 1]
  /\ LET r == [owner |-> e, seq |-> stamp[e]] IN
     CASE step[e] = 0 -> own' = [own EXCEPT ![PaneOf[e]] = Replace(@, r)] /\ UNCHANGED latest
       [] step[e] = 1 -> own' = [own EXCEPT ![All] = Replace(@, r)] /\ UNCHANGED latest
       [] step[e] = 2 -> latest' = [latest EXCEPT ![PaneOf[e]] = {r}] /\ UNCHANGED own
       [] step[e] = 3 -> latest' = [latest EXCEPT ![All] = {r}] /\ UNCHANGED own
       [] OTHER -> UNCHANGED <<own, latest>>
  /\ marker' = IF step[e] = 4 THEN marker \cup {e} ELSE marker
  /\ life' = IF step[e] = 4 THEN [life EXCEPT ![e] = "live"] ELSE life
  /\ UNCHANGED <<stamp, busy, seq, upsets>>

(* VimLeavePre, or a setup whose publication fails: cleanup() begins.      *)
Leave(e) ==
  /\ Upset
  /\ life[e] \in {"setup", "live"}
  /\ life' = [life EXCEPT ![e] = "leaving"]
  /\ step' = [step EXCEPT ![e] = 0]
  /\ UNCHANGED <<stamp, own, latest, marker, busy, seq>>
Cleanup(e) ==   \* the marker first; the latest records stay
  /\ life[e] = "leaving"
  /\ step' = [step EXCEPT ![e] = @ + 1]
  /\ marker' = marker \ {e}
  /\ own' = [p \in Scopes |-> IF (p = PaneOf[e] /\ step[e] = 1) \/ (p = All /\ step[e] = 2)
                              THEN Forget(own[p], e) ELSE own[p]]
  /\ life' = IF step[e] = 3 THEN [life EXCEPT ![e] = "dead"] ELSE life
  /\ UNCHANGED <<stamp, latest, busy, seq, upsets>>
Crash(e) ==     \* everything it has published stays
  /\ Upset
  /\ life[e] \in {"setup", "live", "leaving"}
  /\ life' = [life EXCEPT ![e] = "dead"]
  /\ UNCHANGED <<step, stamp, own, latest, marker, busy, seq>>
Block(e) ==
  /\ Upset
  /\ busy' = IF e \in busy THEN busy \ {e} ELSE busy \cup {e}
  /\ UNCHANGED <<life, step, stamp, own, latest, marker, seq>>

EditorStep(e) ==
  /\ Publish(e) \/ Write(e) \/ Leave(e) \/ Cleanup(e) \/ Crash(e) \/ Block(e)
  /\ steady' = steady \cap Ready'
  /\ UNCHANGED <<openerVars, openVars, opener>>

(* A request that waited in an editor's socket is executed after all.      *)
OpenLate(e) ==
  /\ e \in queue /\ Listening(e) /\ e \notin busy
  /\ queue' = queue \ {e} /\ opens' = opens + 1
  /\ UNCHANGED <<editorVars, openerVars, opener, lost, steady>>

-----------------------------------------------------------------------------
(* The opener.                                                             *)

Goes(from, to) == opener = from /\ opener' = to
Valid(r) == r.owner \in marker
Latest == "latest"

(* fault: an editor is waited for until it answers                         *)
NeverLate(e) == FALSE
Late(e) == e \in busy       \* no answer within three seconds
(* A socket is asked: the answer is an editor's success, or anything else. *)
(* M.open answers before the open it schedules has run; what the editor    *)
(* does then is not followed.                                              *)
Ask(e, then) ==
  \/ /\ Listening(e) /\ e \notin busy
     /\ opens' = opens + 1 /\ opener' = "opened" /\ UNCHANGED <<queue, lost>>
  \/ /\ Listening(e) /\ Late(e)
     /\ queue' \in {queue, queue \cup {e}} /\ lost' = lost \cup {"busy"}
     /\ opener' = then /\ UNCHANGED opens
  \/ ~Listening(e) /\ opener' = then /\ UNCHANGED openVars

(* A click on a terminal inside an editor asks that editor first.          *)
AskHost == /\ opener = "host"
           /\ \E e \in Editors : Ask(e, "list")
           /\ UNCHANGED <<editorVars, openerVars, steady>>

(* Inside tmux: the panes whose foreground command is nvim, one by one.    *)
ListPanes ==
  /\ Goes("list", "pane")
  /\ \E P \in SUBSET {PaneOf[e] : e \in {x \in Editors : Listening(x)}} :
       panes' = P /\ steady' = {e \in Ready : PaneOf[e] \in P}
  /\ UNCHANGED <<editorVars, openVars, first, scope, paths, seen, target>>
NextPane ==
  \/ /\ panes # {} /\ Goes("pane", "latest")
     /\ \E p \in panes : /\ scope' = p /\ panes' = panes \ {p}
                         /\ first' = IF first = Nobody THEN p ELSE first
     /\ UNCHANGED <<editorVars, openVars, paths, seen, target, steady>>
  \/ /\ panes = {} /\ Goes("pane", IF first = Nobody THEN "failed" ELSE "type")
     /\ UNCHANGED <<editorVars, openVars, openerVars, steady>>
(* Outside tmux: the newest editors of all.                                *)
Everywhere ==
  /\ Goes("registry", "latest") /\ scope' = All /\ steady' = Ready
  /\ UNCHANGED <<editorVars, openVars, panes, first, paths, seen, target>>

(* ordered_records: the latest record if it is valid, then the owners'.    *)
ReadLatest ==
  /\ Goes("latest", "owners")
  /\ paths' = IF \E r \in latest[scope] : Valid(r) THEN <<Latest>> ELSE <<>>
  /\ seen' = {}
  /\ UNCHANGED <<editorVars, openVars, panes, first, scope, target, steady>>
NewestFirst(S) ==
  {[i \in DOMAIN q |-> q[i].owner] :
     q \in {q \in SetToSeqs(S) : \A i \in 1..Len(q) - 1 : q[i].seq >= q[i + 1].seq}}
(* fault: the latest record speaks for the whole scope                     *)
OwnersIfNoLatest == IF paths = <<>> THEN {r \in own[scope] : Valid(r)} ELSE {}
Owners == {r \in own[scope] : Valid(r)}
ReadOwners ==
  /\ Goes("owners", "path")
  /\ \E q \in NewestFirst(Owners) : paths' = paths \o q
  /\ UNCHANGED <<editorVars, openVars, panes, first, scope, seen, target, steady>>

(* open_records: each is read again, and its socket tried once.            *)
ReadNow(p) == {r.owner : r \in {r \in IF p = Latest THEN latest[scope]
                                        ELSE {x \in own[scope] : x.owner = p} : Valid(r)}}
ReadPath ==
  /\ opener = "path" /\ paths # <<>> /\ paths' = Tail(paths)
  /\ \/ \E e \in ReadNow(Head(paths)) \ seen :
          seen' = seen \cup {e} /\ target' = e /\ opener' = "ask"
     \/ ReadNow(Head(paths)) \subseteq seen /\ UNCHANGED <<seen, target, opener>>
  /\ UNCHANGED <<editorVars, openVars, panes, first, scope, steady>>
AskEditor == /\ opener = "ask" /\ Ask(target, "path")
             /\ UNCHANGED <<editorVars, openerVars, steady>>
Exhausted ==
  /\ paths = <<>> /\ Goes("path", IF scope = All THEN "failed" ELSE "pane")
  /\ UNCHANGED <<editorVars, openVars, openerVars, steady>>

(* tmux_send: keys for the first pane, whatever runs there by now.         *)
TypeKeys ==
  /\ \/ /\ Goes("type", "opened")
        /\ IF \E e \in Editors : Listening(e) /\ PaneOf[e] = first
           THEN opens' = opens + 1 /\ UNCHANGED <<lost, queue>>
           ELSE lost' = lost \cup {"gone"} /\ UNCHANGED <<opens, queue>>
     \/ Goes("type", "failed") /\ UNCHANGED openVars
     \/ /\ Goes("type", "failed") /\ opens' = opens + 1     \* Enter's answer is late
        /\ lost' = lost \cup {"unanswered"} /\ UNCHANGED queue
  /\ UNCHANGED <<editorVars, openerVars, steady>>

(* Another host: over an ssh master that runs already, and by the          *)
(* configured helper.  ssh_open cannot tell why its command failed; that   *)
(* the command did not end in time is an error of its own.                 *)
(* fault: a command that did not end in time is taken for one that failed  *)
SshLateFallsThrough ==
  Goes("ssh", "helper") /\ opens' \in {opens, opens + 1} /\ UNCHANGED <<lost, queue>>
SshLate == Goes("ssh", "failed") /\ opens' \in {opens, opens + 1} /\ UNCHANGED <<lost, queue>>
OverSsh ==
  /\ \/ Goes("ssh", "opened") /\ opens' = opens + 1 /\ UNCHANGED <<lost, queue>>
     \/ Goes("ssh", "helper") /\ UNCHANGED openVars         \* none, not allowed, refused
     \/ /\ Goes("ssh", "helper") /\ opens' = opens + 1       \* the connection broke
        /\ lost' = lost \cup {"unanswered"} /\ UNCHANGED queue
     \/ SshLate
  /\ UNCHANGED <<editorVars, openerVars, steady>>
ByHelper ==
  /\ \/ Goes("helper", "opened") /\ opens' = opens + 1 /\ UNCHANGED <<lost, queue>>
     \/ Goes("helper", "failed") /\ opens' \in {opens, opens + 1} /\ UNCHANGED <<lost, queue>>
  /\ UNCHANGED <<editorVars, openerVars, steady>>

OpenerStep ==
  \/ AskHost \/ ListPanes \/ NextPane \/ Everywhere \/ ReadLatest \/ ReadOwners
  \/ ReadPath \/ AskEditor \/ Exhausted \/ TypeKeys \/ OverSsh \/ ByHelper
OpenerDone == opener \in {"opened", "failed"}

-----------------------------------------------------------------------------
(* A file is handed to one editor, once, and an opener that reports success*)
(* has handed it over, unless an editor did not answer in time, an answer  *)
(* was lost, or the editor left the pane it was found in (open_link,       *)
(* current_window, open_records, ssh_open).  An editor answers when it has *)
(* taken the request on: an open that fails in it later is its user's.     *)
OpensOnce == lost = {} => opens <= 1 /\ (opener = "opened" => opens = 1)

(* While there is an editor that answers, listed and ready since before    *)
(* the opener looked for it, the opener neither fails nor types keys into  *)
(* a pane: registrations that end, crash or are being replaced never hide  *)
(* one that stands (ordered_records, open_records; publish and cleanup).   *)
FoundIfThere == steady # {} => opener \notin {"type", "failed"}
=============================================================================
