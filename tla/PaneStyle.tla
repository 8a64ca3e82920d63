----------------------------- MODULE PaneStyle -----------------------------
(***************************************************************************)
(* The active style of one tmux pane (focus.rs): termnav dims the pane     *)
(* while a focused child claims it or no terminal client focuses it, and   *)
(* restores the pane's own override afterwards.  Two reasons share one     *)
(* saved style: the claim and the mark @termnav_client_unfocused.          *)
(*                                                                         *)
(* A mutation of the pane holds its lock and is one step here, made of one *)
(* to three tmux calls; whether a client focuses the pane is read before   *)
(* the lock.  A call that fails has had its whole effect or none.          *)
(***************************************************************************)
EXTENDS Naturals, FiniteSets

CONSTANTS
  Clients,    \* terminal clients that show the pane
  Tokens,     \* child claims
  Processes,  \* slots for `termnav tmux focus watch | stop | sync`
  Original,   \* the pane's own override before termnav came: Unset or another
  Inactive,   \* the style @termnav_inactive_style names
  Unset,      \* no pane-local override
  None,
  MayFail,    \* may a tmux call that writes report a failure
  MayMiss     \* may a tmux call that reads come back with nothing

ASSUME StylesAssumption == Inactive \notin {Original, Unset, None} /\ None \notin {Original, Unset}
ASSUME TokenAssumption == None \notin Tokens
ASSUME FaultAssumption == MayFail \in BOOLEAN /\ MayMiss \in BOOLEAN

VARIABLES
  focused,    \* which clients have the focus
  configured, \* is @termnav_inactive_style set
  pane,       \* the pane's options: style, saved, mark, claim
  at,         \* where each process stands
  hook,       \* why it was started
  client,     \* for which client
  saw,        \* did it see a client that focuses the pane
  failed,     \* history: a call that writes has failed
  missed      \* history: a call that reads has come back with nothing

procVars == <<at, hook, client, saw>>
faults == <<failed, missed>>
vars == <<focused, configured, pane, procVars, faults>>

Styles == {Original, Inactive, Unset}
Panes == [style : Styles, saved : Styles \cup {None}, mark : BOOLEAN, claim : Tokens \cup {None}]
Places == {"idle", "check", "look", "apply", "recheck", "look again", "apply again"}
Hooks == {"watch", "stop", "sync"}

Init ==
  /\ focused = [c \in Clients |-> FALSE]
  /\ configured \in BOOLEAN
  /\ pane = [style |-> Original, saved |-> None, mark |-> FALSE, claim |-> None]
  /\ at = [p \in Processes |-> "idle"]
  /\ hook = [p \in Processes |-> "sync"]
  /\ client \in [Processes -> Clients]
  /\ saw = [p \in Processes |-> FALSE]
  /\ failed = FALSE
  /\ missed = FALSE

-----------------------------------------------------------------------------
(* What a mutation reads: an option whose show-options fails looks absent. *)
Exact == [style |-> pane.style, saved |-> pane.saved, mark |-> pane.mark,
          claim |-> pane.claim, dims |-> configured]
Views ==
  IF MayMiss
  THEN [style : {pane.style, Unset}, saved : {pane.saved, None}, mark : {pane.mark, FALSE},
        claim : {pane.claim, None}, dims : {configured, FALSE}]
  ELSE {Exact}

(* One tmux call that takes the pane from `old` to `new`.                  *)
Calls(old, new) ==
  {[pane |-> new, ok |-> TRUE]} \cup
  (IF MayFail THEN {[pane |-> old, ok |-> FALSE], [pane |-> new, ok |-> FALSE]} ELSE {})

(* What the reads and writes of a mutation leave in the history.           *)
Record(view, ok) ==
  /\ failed' = (failed \/ ~ ok)
  /\ missed' = (missed \/ view # Exact)

(* Seeded fault: every reason saves the style it finds.                    *)
SavesAlways(view) == view.dims

(* inactive_style_setup: the style is saved once, by the first reason.     *)
Saves(view) == view.dims /\ view.saved = None
Setup(view) ==
  IF Saves(view) THEN [pane EXCEPT !.style = Inactive, !.saved = view.style] ELSE pane

(* restore_arguments with the removal of the saved style.                  *)
Restored(view) ==
  IF view.saved = None THEN pane ELSE [pane EXCEPT !.style = view.saved, !.saved = None]

(* Seeded fault: the rollback drops the marker without using it.           *)
UndoMarkerOnly(done, view) == [done EXCEPT !.saved = None]

Undo(done, view) == [done EXCEPT !.style = view.style, !.saved = None]
Bare(done) == [done EXCEPT !.style = Unset]

-----------------------------------------------------------------------------
(* claim(): a new token takes the pane over.  A renewal changes no style.  *)
Claim(t) ==
  /\ \E view \in Views :
       /\ view.claim # t
       /\ LET wanted == [Setup(view) EXCEPT !.claim = t]
              undone(done) == [Undo(done, view) EXCEPT !.claim = view.claim]
          IN \E call \in Calls(pane, wanted) :
               /\ Record(view, call.ok)
               /\ IF call.ok \/ ~ Saves(view)
                  THEN pane' = call.pane
                  ELSE \E back \in Calls(call.pane, undone(call.pane)) :
                       \E again \in Calls(back.pane, [back.pane EXCEPT !.claim = t]) :
                         pane' = again.pane
  /\ UNCHANGED <<focused, configured, procVars>>

(* Seeded fault: a released claim restores a pane nobody focuses.          *)
ClearIgnoresMark(t) ==
  /\ pane.claim = t
  /\ \E view \in Views : \E call \in Calls(pane, [Restored(view) EXCEPT !.claim = None]) :
       pane' = call.pane /\ Record(view, call.ok)
  /\ UNCHANGED <<focused, configured, procVars>>

(* clear_exact: the claim is released by its owner or has expired.         *)
Clear(t) ==
  /\ pane.claim = t
  /\ \E view \in Views :
       LET free == IF view.mark THEN pane ELSE Restored(view)
       IN \E call \in Calls(pane, [free EXCEPT !.claim = None]) :
            /\ Record(view, call.ok)
            /\ IF call.ok \/ view.saved = None
               THEN pane' = call.pane
               ELSE \E bare \in Calls(call.pane, Bare(call.pane)) : pane' = bare.pane
  /\ UNCHANGED <<focused, configured, procVars>>

(* set_client_unfocused                                                    *)
Dim ==
  \E view \in Views :
    \/ ~ view.dims /\ Record(view, TRUE) /\ UNCHANGED pane
    \/ /\ view.dims
       /\ \E call \in Calls(pane, [Setup(view) EXCEPT !.mark = TRUE]) :
            /\ Record(view, call.ok)
            /\ IF call.ok \/ ~ Saves(view)
               THEN pane' = call.pane
               ELSE \E back \in Calls(call.pane, [Undo(call.pane, view) EXCEPT !.mark = FALSE]) :
                      pane' = back.pane

(* clear_client_unfocused                                                  *)
Undim ==
  \E view \in Views :
    LET free == IF view.claim = None THEN Restored(view) ELSE pane
    IN \E call \in Calls(pane, [free EXCEPT !.mark = FALSE]) :
         /\ Record(view, call.ok)
         /\ IF call.ok
            THEN pane' = call.pane
            ELSE \E bare \in Calls(call.pane, Bare(call.pane)) : pane' = bare.pane

-----------------------------------------------------------------------------
(* Hooks of the tmux server start a process in the background.             *)
Launch(p, c, why) ==
  /\ at[p] = "idle"
  /\ at' = [at EXCEPT ![p] = IF why = "sync" THEN "look" ELSE "check"]
  /\ hook' = [hook EXCEPT ![p] = why]
  /\ client' = [client EXCEPT ![p] = c]
  /\ UNCHANGED <<configured, pane, saw, faults>>

FocusIn(c, p) ==
  /\ ~ focused[c]
  /\ focused' = [focused EXCEPT ![c] = TRUE]
  /\ Launch(p, c, "watch")

FocusOut(c, p) ==
  /\ focused[c]
  /\ focused' = [focused EXCEPT ![c] = FALSE]
  /\ Launch(p, c, "stop")

(* after-select-pane and its like, guarded by the mark.                    *)
Select(c, p) ==
  /\ pane.mark
  /\ Launch(p, c, "sync")
  /\ UNCHANGED focused

(* The user sets or unsets @termnav_inactive_style.                        *)
Configure ==
  /\ configured' = ~ configured
  /\ UNCHANGED <<focused, pane, procVars, faults>>

Go(p, place) == at' = [at EXCEPT ![p] = place]

(* A watcher goes on if its client is focused, a stop process if it is not.*)
Check(p) ==
  /\ at[p] = "check"
  /\ Go(p, IF focused[client[p]] = (hook[p] = "watch") THEN "look" ELSE "idle")
  /\ UNCHANGED <<focused, configured, pane, hook, client, saw, faults>>

(* sync_client_style: pane_has_focused_client, before the lock is taken.   *)
Look(p) ==
  /\ at[p] \in {"look", "look again"}
  /\ saw' = [saw EXCEPT ![p] = \E c \in Clients : focused[c]]
  /\ Go(p, IF at[p] = "look" THEN "apply" ELSE "apply again")
  /\ UNCHANGED <<focused, configured, pane, hook, client, faults>>

Apply(p) ==
  /\ at[p] \in {"apply", "apply again"}
  /\ IF saw[p] THEN Undim ELSE Dim
  /\ Go(p, IF at[p] = "apply" /\ hook[p] = "stop" THEN "recheck" ELSE "idle")
  /\ UNCHANGED <<focused, configured, hook, client, saw>>

(* stop_watch: a client that has come back is synchronised once more.      *)
Recheck(p) ==
  /\ at[p] = "recheck"
  /\ Go(p, IF focused[client[p]] THEN "look again" ELSE "idle")
  /\ UNCHANGED <<focused, configured, pane, hook, client, saw, faults>>

Process(p) == Check(p) \/ Look(p) \/ Apply(p) \/ Recheck(p)

Next ==
  \/ \E t \in Tokens : Claim(t) \/ Clear(t)
  \/ \E c \in Clients, p \in Processes : FocusIn(c, p) \/ FocusOut(c, p) \/ Select(c, p)
  \/ \E p \in Processes : Process(p)
  \/ Configure

Spec == Init /\ [][Next]_vars

(* The processes run; users and children owe nothing.                      *)
FairSpec == Spec /\ \A p \in Processes : WF_vars(Process(p))

-----------------------------------------------------------------------------
(* Every variable keeps its type.                                          *)
TypeOK ==
  /\ focused \in [Clients -> BOOLEAN]
  /\ configured \in BOOLEAN
  /\ pane \in Panes
  /\ at \in [Processes -> Places]
  /\ hook \in [Processes -> Hooks]
  /\ client \in [Processes -> Clients]
  /\ saw \in [Processes -> BOOLEAN]
  /\ failed \in BOOLEAN /\ missed \in BOOLEAN

(* The pane's own override survives every interleaving of claims, takeover,*)
(* release, expiry and focus changes: it is either in place or saved, until*)
(* a tmux call fails.                                                      *)
OriginalKept ==
  \/ failed \/ missed
  \/ pane.saved = None /\ pane.style = Original
  \/ pane.saved = Original /\ pane.style = Inactive

(* Also when writes fail: a dimmed pane always knows that termnav dimmed   *)
(* it, so the dim style is never taken for the pane's own.                 *)
NoStuckDim ==
  missed \/ (pane.saved # Inactive /\ (pane.saved = None => pane.style # Inactive))

(* A saved style has a reason that will one day restore it.                *)
DimHasReason == pane.saved # None => missed \/ pane.claim # None \/ pane.mark

(* A dim pane is accounted for, also when writes and their rollback fail:  *)
(* termnav knows that it dimmed it, and for what.                          *)
DimAccounted == NoStuckDim /\ DimHasReason

(* The reasons are independent: neither a focus change nor the end of a    *)
(* claim brightens a pane that the other reason still dims.                *)
Brightens == pane.saved # None /\ pane'.saved = None
RestoredOnlyWhenFree ==
  [][Brightens => missed' \/ (pane'.claim = None /\ ~ pane'.mark)]_vars

SomeFocus == \E c \in Clients : focused[c]

(* The dim style is applied when the focus has left the pane for good.     *)
UnfocusedDims ==
  []configured /\ <>SomeFocus /\ <>[](~ SomeFocus) => <>[](pane.style = Inactive)

(* The override is restored once the pane is again the focused leaf, at    *)
(* the latest when every process a hook has started is done.               *)
FocusedRestores ==
  SomeFocus /\ pane.claim = None /\ (\A p \in Processes : at[p] = "idle") => pane.saved = None
=============================================================================
