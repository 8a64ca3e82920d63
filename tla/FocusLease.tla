----------------------------- MODULE FocusLease -----------------------------
(***************************************************************************)
(* The focus claim on one pane of an outer tmux server (focus.rs): inner   *)
(* tmux clients that live in the pane publish that they have the focus,    *)
(* one watcher process per client renews the claim while its client stays  *)
(* focused, tmux hooks start watchers and stop processes, and expirer      *)
(* processes remove a claim whose lease has run out.                       *)
(*                                                                         *)
(* A claim is TOKEN:DEADLINE in the pane option @termnav_child_focus; each *)
(* watcher has its own token, so the watcher stands for it here.  A step   *)
(* is one tmux call, one critical section of the pane's mutation lock, or  *)
(* one access to a lock file.                                              *)
(***************************************************************************)
EXTENDS Naturals, FiniteSets

CONSTANTS
  Clients,    \* inner tmux clients whose parent is the pane
  Watchers,   \* `termnav tmux focus watch` processes, one token each
  Stoppers,   \* `termnav tmux focus stop` processes
  Expirers,   \* slots for `termnav tmux focus expire` processes
  None,
  MayKill,    \* are watchers ever killed with SIGKILL
  MaxFailures \* how many tmux calls may fail

ASSUME ProcessAssumption == None \notin Clients \cup Watchers
ASSUME FaultsAssumption == MayKill \in BOOLEAN /\ MaxFailures \in Nat

VARIABLES
  attached,   \* the inner clients that have not detached
  focused,    \* the client flag `focused` of each inner client
  watcher,    \* where each watcher stands
  serves,     \* the client of a watcher or of a stop process
  saw,        \* what a watcher last read of `focused`
  signalled,  \* WATCH_STOPPING of each watcher, and since when
  claimed,    \* the variable `claimed` of each watcher
  pidFile,    \* the watcher whose pid is in the client's lock file
  stopper,    \* where each stop process stands
  expirer,    \* where each expirer stands
  same,       \* is the claim still the very value the expirer has read
  claim,      \* the token of the claim on the pane
  overdue,    \* has the deadline of that claim passed
  failures    \* how many tmux calls have failed

clientVars == <<attached, focused, serves>>
watcherVars == <<watcher, saw, signalled, claimed>>
paneVars == <<claim, overdue, same>>
vars == <<clientVars, watcherVars, pidFile, stopper, expirer, paneVars, failures>>

-----------------------------------------------------------------------------
Locked == {"armed", "look", "clear", "decide", "claim", "expirer", "giveback",
           "sleep", "release"}
WatcherPlaces == {"unborn", "start", "lock", "over", "killed"} \cup Locked
(* WATCH_STOPPING is unset or set; "late" is history: it was set after the *)
(* watcher had dropped older signals and before it asked whether to go on. *)
Signals == {"none", "pending", "late"}
StopperPlaces == {"unborn", "check", "recheck", "kill", "over"}
Working == {"read", "wait", "remove", "quit"}
ExpirerPlaces == {"idle", "start"} \cup Working

Init ==
  /\ attached = Clients
  /\ focused = [c \in Clients |-> FALSE]
  /\ watcher = [w \in Watchers |-> "unborn"]
  /\ serves = [p \in Watchers \cup Stoppers |-> None]
  /\ saw = [w \in Watchers |-> FALSE]
  /\ signalled = [w \in Watchers |-> "none"]
  /\ claimed = [w \in Watchers |-> FALSE]
  /\ pidFile = [c \in Clients |-> None]
  /\ stopper = [s \in Stoppers |-> "unborn"]
  /\ expirer = [e \in Expirers |-> "idle"]
  /\ same = [e \in Expirers |-> FALSE]
  /\ claim = None
  /\ overdue = FALSE
  /\ failures = 0

(* The lock file of a client is held by the watcher past its lock step.    *)
LockFree(c) == \A w \in Watchers : serves[w] = c => watcher[w] \notin Locked

Fail == failures < MaxFailures /\ failures' = failures + 1

(* A list-clients that fails counts as no focus.                           *)
Reads(c, seen) ==
  \/ seen = focused[c] /\ UNCHANGED failures
  \/ Fail /\ seen = FALSE

Step(w, place) == watcher' = [watcher EXCEPT ![w] = place]

(* Every write of the option makes a new value, also a renewal.            *)
Write(token) ==
  /\ claim' = token
  /\ overdue' = FALSE
  /\ same' = [e \in Expirers |-> FALSE]

(* clear_exact removes the claim if it has the expected value.             *)
Remove(expected) ==
  \/ expected /\ Write(None) /\ UNCHANGED failures
  \/ ~ expected /\ UNCHANGED <<paneVars, failures>>
  \/ Fail /\ UNCHANGED paneVars

-----------------------------------------------------------------------------
(* The inner tmux server: focus events and the hooks they run.             *)

FocusIn(c, w) ==
  /\ c \in attached /\ ~ focused[c]
  /\ watcher[w] = "unborn"
  /\ focused' = [focused EXCEPT ![c] = TRUE]
  /\ serves' = [serves EXCEPT ![w] = c]
  /\ Step(w, "start")
  /\ UNCHANGED <<attached, saw, signalled, claimed, pidFile, stopper, expirer, paneVars, failures>>

FocusOut(c, s) ==
  /\ focused[c]
  /\ stopper[s] = "unborn"
  /\ focused' = [focused EXCEPT ![c] = FALSE]
  /\ serves' = [serves EXCEPT ![s] = c]
  /\ stopper' = [stopper EXCEPT ![s] = "check"]
  /\ UNCHANGED <<attached, watcherVars, pidFile, expirer, paneVars, failures>>

(* A client that has gone is resolved to nothing by the hook's command.    *)
Detach(c) ==
  /\ c \in attached
  /\ attached' = attached \ {c}
  /\ focused' = [focused EXCEPT ![c] = FALSE]
  /\ UNCHANGED <<serves, watcherVars, pidFile, stopper, expirer, paneVars, failures>>

-----------------------------------------------------------------------------
(* watch: publish while the client is focused.                             *)

WatchStart(w) ==
  /\ watcher[w] = "start"
  /\ \E seen \in BOOLEAN : Reads(serves[w], seen) /\ Step(w, IF seen THEN "lock" ELSE "over")
  /\ UNCHANGED <<clientVars, saw, signalled, claimed, pidFile, stopper, expirer, paneVars>>

(* The lock is tried once: a client has one watcher.                       *)
WatchLock(w) ==
  /\ watcher[w] = "lock"
  /\ IF LockFree(serves[w])
     THEN Step(w, "armed") /\ pidFile' = [pidFile EXCEPT ![serves[w]] = w]
     ELSE Step(w, "over") /\ UNCHANGED pidFile
  /\ UNCHANGED <<clientVars, saw, signalled, claimed, stopper, expirer, paneVars, failures>>

(* Until now SIGTERM ended the process.                                    *)
InstallSignals(w) ==
  /\ watcher[w] = "armed"
  /\ Step(w, "look")
  /\ UNCHANGED <<clientVars, saw, signalled, claimed, pidFile, stopper, expirer, paneVars, failures>>

Look(w) ==
  /\ watcher[w] = "look"
  /\ \E seen \in BOOLEAN : Reads(serves[w], seen) /\ saw' = [saw EXCEPT ![w] = seen]
  /\ Step(w, "clear")
  /\ UNCHANGED <<clientVars, signalled, claimed, pidFile, stopper, expirer, paneVars>>

(* Seeded fault: a stop signal is final.                                   *)
KeepSignal(w) ==
  /\ watcher[w] = "clear"
  /\ Step(w, "decide")
  /\ UNCHANGED <<clientVars, saw, signalled, claimed, pidFile, stopper, expirer, paneVars, failures>>

(* A delayed stop signal is dropped when the client is focused.            *)
DropSignal(w) ==
  /\ watcher[w] = "clear"
  /\ signalled' = [signalled EXCEPT ![w] = IF saw[w] THEN "none" ELSE @]
  /\ Step(w, "decide")
  /\ UNCHANGED <<clientVars, saw, claimed, pidFile, stopper, expirer, paneVars, failures>>

(* Seeded fault: only the signal ends a watcher.                           *)
DecideBySignal(w) ==
  /\ watcher[w] = "decide"
  /\ Step(w, IF signalled[w] = "none" THEN "claim" ELSE IF claimed[w] THEN "release" ELSE "over")
  /\ saw' = [saw EXCEPT ![w] = FALSE]
  /\ UNCHANGED <<clientVars, signalled, claimed, pidFile, stopper, expirer, paneVars, failures>>

Decide(w) ==
  /\ watcher[w] = "decide"
  /\ Step(w, IF saw[w] /\ signalled[w] = "none" THEN "claim"
             ELSE IF claimed[w] THEN "release" ELSE "over")
  /\ saw' = [saw EXCEPT ![w] = FALSE]
  /\ UNCHANGED <<clientVars, signalled, claimed, pidFile, stopper, expirer, paneVars, failures>>

(* Seeded fault: a renewal forgets that the watcher owns the claim.        *)
ClaimForgets(w) ==
  /\ watcher[w] = "claim"
  /\ Write(w)
  /\ claimed' = [claimed EXCEPT ![w] = FALSE]
  /\ Step(w, IF claim = w THEN "sleep" ELSE "expirer")
  /\ UNCHANGED <<clientVars, saw, signalled, pidFile, stopper, expirer, failures>>

(* claim(): a renewal is one write; a new owner needs an expirer.          *)
Claim(w) ==
  /\ watcher[w] = "claim"
  /\ Write(w)
  /\ \/ /\ claim = w
        /\ claimed' = [claimed EXCEPT ![w] = TRUE]
        /\ Step(w, "sleep")
        /\ UNCHANGED failures
     \/ /\ \/ claim # w /\ UNCHANGED failures
           \/ claim = w /\ Fail        \* show-options fails as well
        /\ claimed' = [claimed EXCEPT ![w] = FALSE]
        /\ Step(w, "expirer")
  /\ UNCHANGED <<clientVars, saw, signalled, pidFile, stopper, expirer>>

(* A tmux call that timed out may have taken effect.                       *)
ClaimFails(w) ==
  /\ Fail
  /\ watcher[w] = "claim"
  /\ Write(w) \/ UNCHANGED paneVars
  /\ claimed' = [claimed EXCEPT ![w] = FALSE]
  /\ Step(w, "sleep")
  /\ UNCHANGED <<clientVars, saw, signalled, pidFile, stopper, expirer>>

(* start_expirer: the outer tmux server starts the helper.                 *)
StartExpirer(w) ==
  /\ watcher[w] = "expirer"
  /\ \/ /\ \E e \in Expirers :
             /\ expirer[e] = "idle"
             /\ expirer' = [expirer EXCEPT ![e] = "start"]
        /\ claimed' = [claimed EXCEPT ![w] = TRUE]
        /\ Step(w, "sleep")
        /\ UNCHANGED failures
     \/ /\ Fail
        /\ Step(w, "giveback")
        /\ UNCHANGED <<claimed, expirer>>
  /\ UNCHANGED <<clientVars, saw, signalled, pidFile, stopper, paneVars>>

(* release(): only the generation of this very token.                      *)
Release(w) ==
  /\ watcher[w] \in {"release", "giveback"}
  /\ Remove(claim = w)
  /\ Step(w, IF watcher[w] = "release" THEN "over" ELSE "sleep")
  /\ UNCHANGED <<clientVars, saw, signalled, claimed, pidFile, stopper, expirer>>

Sleep(w) ==
  /\ watcher[w] = "sleep"
  /\ Step(w, "look")
  /\ UNCHANGED <<clientVars, saw, signalled, claimed, pidFile, stopper, expirer, paneVars, failures>>

Kill(w) ==
  /\ MayKill
  /\ watcher[w] \in Locked
  /\ Step(w, "killed")
  /\ UNCHANGED <<clientVars, saw, signalled, claimed, pidFile, stopper, expirer, paneVars, failures>>

-----------------------------------------------------------------------------
(* stop_watch: two looks at the client, with the style in between, then    *)
(* SIGTERM to the process in the lock file if it is a live watcher.        *)

StopLook(s) ==
  /\ stopper[s] \in {"check", "recheck"}
  /\ \E seen \in BOOLEAN :
       /\ Reads(serves[s], seen)
       /\ stopper' = [stopper EXCEPT ![s] =
                        IF seen THEN "over" ELSE IF @ = "check" THEN "recheck" ELSE "kill"]
  /\ UNCHANGED <<clientVars, watcherVars, pidFile, expirer, paneVars>>

StopKill(s) ==
  /\ stopper[s] = "kill"
  /\ stopper' = [stopper EXCEPT ![s] = "over"]
  /\ LET w == pidFile[serves[s]]
     IN IF w # None /\ watcher[w] = "armed"
        THEN Step(w, "killed") /\ UNCHANGED signalled
        ELSE /\ signalled' = [v \in Watchers |->
                  IF v = w /\ watcher[v] \in Locked /\ signalled[v] = "none"
                  THEN IF watcher[v] = "decide" THEN "late" ELSE "pending"
                  ELSE signalled[v]]
             /\ UNCHANGED watcher
  /\ UNCHANGED <<clientVars, saw, claimed, pidFile, expirer, paneVars, failures>>

-----------------------------------------------------------------------------
(* expire: one process per pane at a time, until no claim is left.         *)

ExpirerFree == \A e \in Expirers : expirer[e] \notin Working

ExpireLock(e) ==
  /\ expirer[e] = "start"
  /\ expirer' = [expirer EXCEPT ![e] = IF ExpirerFree THEN "read" ELSE "idle"]
  /\ UNCHANGED <<clientVars, watcherVars, pidFile, stopper, paneVars, failures>>

ExpireRead(e) ==
  /\ expirer[e] = "read"
  /\ expirer' = [expirer EXCEPT ![e] =
                   IF claim = None THEN "quit" ELSE IF overdue THEN "remove" ELSE "wait"]
  /\ same' = [same EXCEPT ![e] = claim # None]
  /\ UNCHANGED <<clientVars, watcherVars, pidFile, stopper, claim, overdue, failures>>

(* show-options fails: taken for no claim.                                 *)
ExpireReadFails(e) ==
  /\ Fail
  /\ expirer[e] = "read"
  /\ expirer' = [expirer EXCEPT ![e] = "quit"]
  /\ UNCHANGED <<clientVars, watcherVars, pidFile, stopper, paneVars>>

(* The sleep lasts until the deadline that was read; the next look starts  *)
(* afresh.                                                                 *)
ExpireWait(e) ==
  /\ expirer[e] = "wait"
  /\ same[e] => overdue
  /\ expirer' = [expirer EXCEPT ![e] = "read"]
  /\ same' = [same EXCEPT ![e] = FALSE]
  /\ UNCHANGED <<clientVars, watcherVars, pidFile, stopper, claim, overdue, failures>>

(* Seeded fault: whatever claim is there goes.                             *)
ExpireAny(e) ==
  /\ expirer[e] = "remove"
  /\ Remove(claim # None)
  /\ expirer' = [expirer EXCEPT ![e] = "read"]
  /\ UNCHANGED <<clientVars, watcherVars, pidFile, stopper>>

(* clear_exact: only the value that was found overdue.                     *)
ExpireRemove(e) ==
  /\ expirer[e] = "remove"
  /\ Remove(same[e])
  /\ expirer' = [expirer EXCEPT ![e] = "read"]
  /\ UNCHANGED <<clientVars, watcherVars, pidFile, stopper>>

(* The process ends; the lock goes with it.                                *)
ExpireQuit(e) ==
  /\ expirer[e] = "quit"
  /\ expirer' = [expirer EXCEPT ![e] = "idle"]
  /\ UNCHANGED <<clientVars, watcherVars, pidFile, stopper, paneVars, failures>>

DeadlinePasses ==
  /\ claim # None
  /\ ~ overdue
  /\ overdue' = TRUE
  /\ UNCHANGED <<clientVars, watcherVars, pidFile, stopper, expirer, claim, same, failures>>

-----------------------------------------------------------------------------
Watch(w) ==
  \/ WatchStart(w) \/ WatchLock(w) \/ InstallSignals(w)
  \/ Look(w) \/ DropSignal(w) \/ Decide(w)
  \/ Claim(w) \/ ClaimFails(w) \/ StartExpirer(w) \/ Release(w)
  \/ Sleep(w)

Stop(s) == StopLook(s) \/ StopKill(s)

Expire(e) ==
  \/ ExpireLock(e) \/ ExpireRead(e) \/ ExpireReadFails(e)
  \/ ExpireWait(e) \/ ExpireRemove(e) \/ ExpireQuit(e)

Next ==
  \/ \E c \in Clients : Detach(c)
  \/ \E c \in Clients, w \in Watchers : FocusIn(c, w)
  \/ \E c \in Clients, s \in Stoppers : FocusOut(c, s)
  \/ \E w \in Watchers : Watch(w) \/ Kill(w)
  \/ \E s \in Stoppers : Stop(s)
  \/ \E e \in Expirers : Expire(e)
  \/ DeadlinePasses

Spec == Init /\ [][Next]_vars

(* Processes run and time passes; users and kill signals owe nothing.  It  *)
(* is taken that a tmux call returns: its exit has a deadline, the end of  *)
(* its output has none (output_timeout; BoundedCall).                      *)
FairSpec ==
  /\ Spec
  /\ \A w \in Watchers : WF_vars(Watch(w))
  /\ \A s \in Stoppers : WF_vars(Stop(s))
  /\ \A e \in Expirers : WF_vars(Expire(e))
  /\ WF_vars(DeadlinePasses)

-----------------------------------------------------------------------------
(* Every variable keeps its type.                                          *)
TypeOK ==
  /\ attached \subseteq Clients
  /\ focused \in [Clients -> BOOLEAN]
  /\ watcher \in [Watchers -> WatcherPlaces]
  /\ serves \in [Watchers \cup Stoppers -> Clients \cup {None}]
  /\ saw \in [Watchers -> BOOLEAN]
  /\ signalled \in [Watchers -> Signals]
  /\ claimed \in [Watchers -> BOOLEAN]
  /\ pidFile \in [Clients -> Watchers \cup {None}]
  /\ stopper \in [Stoppers -> StopperPlaces]
  /\ expirer \in [Expirers -> ExpirerPlaces]
  /\ same \in [Expirers -> BOOLEAN]
  /\ claim \in Watchers \cup {None}
  /\ overdue \in BOOLEAN
  /\ failures \in 0 .. MaxFailures

(* Nobody but the publisher itself removes a claim before its deadline: a  *)
(* delayed release or an expirer that slept through a renewal leaves the   *)
(* newer generation alone.                                                 *)
Justified ==
  claim # None /\ claim' = None => overdue \/ watcher[claim] \in {"release", "giveback"}
RemovalJustified == [][Justified]_vars

(* A publisher that ends by itself leaves no claim of its own behind, as   *)
(* long as no tmux call has failed: `claimed` never forgets a claim it made.*)
CleanExit == failures # 0 \/ claim = None \/ watcher[claim] # "over"

ClaimOf(c) == claim # None /\ serves[claim] = c

(* A client that has lost the focus for good, also by detaching, does not  *)
(* keep the claim, unless its publisher was killed or a tmux call failed.  *)
Undisturbed == failures = 0 /\ (claim = None \/ watcher[claim] # "killed")

UnfocusedLetsGo ==
  \A c \in Clients : <>[](~ focused[c] /\ Undisturbed) => <>[](~ ClaimOf(c))

(* A publisher whose client stays focused goes on renewing the claim: the  *)
(* signal of a delayed stop does not end it, whatever the focus did before,*)
(* whichever stop processes are still on their way, and however often the  *)
(* lease runs out.  The exception is a signal that arrives between the test*)
(* that drops older ones and the test that ends the loop: the publisher of *)
(* a focused client then ends (DelayedStopHarmless is violated).           *)
KeepsPublishing ==
  \A c \in Clients, w \in Watchers :
    <>( /\ serves[w] = c /\ watcher[w] = "sleep"
        /\ [](focused[c] /\ watcher[w] # "killed" /\ failures = 0 /\ signalled[w] # "late"))
      => []<>(claim = w)

(* A delayed focus-out may signal the old watcher after a focus-in; the    *)
(* live tmux state is authoritative, so the renewed owner is kept.         *)
DelayedStopHarmless ==
  \A c \in Clients, w \in Watchers :
    <>( /\ serves[w] = c /\ watcher[w] = "sleep"
        /\ [](focused[c] /\ watcher[w] # "killed" /\ failures = 0))
      => []<>(claim = w)

(* A focused nested client publishes a lease on its parent pane.           *)
FocusedPublishes ==
  \A c \in Clients : <>[](focused[c]) => []<>(ClaimOf(c))

(* The lease is a crash fallback: the claim of a publisher that was killed *)
(* after it had been told it is claimed goes when the lease expires.       *)
KilledFailsClosed ==
  \A w \in Watchers : watcher[w] = "killed" /\ claimed[w] ~> claim # w
=============================================================================
