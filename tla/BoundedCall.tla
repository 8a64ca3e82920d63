---------------------------- MODULE BoundedCall ----------------------------
(***************************************************************************)
(* How termnav runs another program behind a deadline (process.rs).  There *)
(* are three kinds of call: output_timeout waits for the child and then    *)
(* reads what it wrote, status_timeout only waits, and                     *)
(* output_timeout_limited reads while it waits.  The child may start       *)
(* processes that keep its output open, in its process group or away from  *)
(* it, and it owes nobody an end.                                          *)
(***************************************************************************)
EXTENDS Naturals

CONSTANTS
  Callers,   \* the threads that make one call each
  PipeCap,   \* what fits into a pipe
  MaxOut     \* the byte cap of output_timeout_limited, and bound on the output

ASSUME CallAssumption == PipeCap \in Nat \ {0} /\ MaxOut \in Nat

VARIABLE call

Kinds == {"capture", "status", "drain"}
Unused == [kind |-> "capture", at |-> "idle", result |-> "none", child |-> "none",
           heir |-> "none", unread |-> 0, got |-> 0, wrote |-> 0, due |-> FALSE,
           closed |-> FALSE]
Spared == [Unused EXCEPT !.at = "over"]
CallInit == call \in [Callers -> {Unused, Spared}]

CallTypeOK ==
  call \in [Callers ->
    [kind : Kinds,
     at : {"idle", "loop", "wait", "looked", "collect", "reap", "over"},
     result : {"none", "ok", "late", "failed"},
     child : {"none", "running", "exited", "reaped"},
     heir : {"none", "group", "away"},       \* a descendant that holds the output open
     unread : 0..PipeCap, got : 0..MaxOut + 1, wrote : 0..MaxOut + 1,
     due : BOOLEAN, closed : BOOLEAN]]

Writers(x) == x.child = "running" \/ x.heir # "none"
Returned(c) == call[c].at = "over" /\ call[c].result # "none"
Becomes(c, x) == call' = [call EXCEPT ![c] = x]

(* kill_owned_group: the whole group at once, whoever is left in it.       *)
Killed(x) == [x EXCEPT !.child = IF @ = "running" THEN "exited" ELSE @,
                       !.heir = IF @ = "group" THEN "none" ELSE @]

-----------------------------------------------------------------------------
(* The child and its descendants.                                          *)
ChildWrites(c) ==
  /\ call[c].kind # "status" /\ Writers(call[c])
  /\ call[c].unread < PipeCap /\ call[c].wrote <= MaxOut
  /\ Becomes(c, [call[c] EXCEPT !.unread = @ + 1, !.wrote = @ + 1])
ChildForks(c) ==
  /\ call[c].child = "running" /\ call[c].heir = "none"
  /\ Becomes(c, [call[c] EXCEPT !.heir = "group"])
HeirLeaves(c) ==
  /\ call[c].heir = "group"
  /\ Becomes(c, [call[c] EXCEPT !.heir = "away"])
HeirEnds(c) ==
  /\ call[c].heir # "none"
  /\ Becomes(c, [call[c] EXCEPT !.heir = "none"])
ChildExits(c) ==
  /\ call[c].child = "running"
  /\ Becomes(c, [call[c] EXCEPT !.child = "exited"])
ChildStep(c) ==
  /\ call[c].at # "over"
  /\ ChildWrites(c) \/ ChildForks(c) \/ HeirLeaves(c) \/ HeirEnds(c) \/ ChildExits(c)

-----------------------------------------------------------------------------
(* The caller.                                                             *)
Begin(c, kind) ==
  /\ call[c].at = "idle"
  /\ \/ Becomes(c, [call[c] EXCEPT !.kind = kind, !.at = "loop", !.child = "running"])
     \/ Becomes(c, [call[c] EXCEPT !.kind = kind, !.at = "over", !.result = "failed"])

Deadline(c) ==
  /\ call[c].at \in {"loop", "wait", "looked"} /\ ~call[c].due
  /\ Becomes(c, [call[c] EXCEPT !.due = TRUE])

(* drain_available: everything that is there, up to the cap; no more       *)
(* writers is the end of the output, an empty pipe is not.                 *)
(* fault: an empty pipe taken for the end of the output.                   *)
DrainOnce(c) ==
  /\ call[c].at = "loop" /\ call[c].kind = "drain"
  /\ IF call[c].got + call[c].unread > MaxOut
     THEN Becomes(c, [Killed(call[c]) EXCEPT !.at = "reap", !.result = "failed"])
     ELSE Becomes(c, [call[c] EXCEPT !.at = "wait", !.got = @ + call[c].unread, !.unread = 0,
                                     !.closed = TRUE])
Drain(c) ==
  /\ call[c].at = "loop" /\ call[c].kind = "drain"
  /\ IF call[c].got + call[c].unread > MaxOut
     THEN Becomes(c, [Killed(call[c]) EXCEPT !.at = "reap", !.result = "failed"])
     ELSE Becomes(c, [call[c] EXCEPT !.at = "wait", !.got = @ + call[c].unread, !.unread = 0,
                                     !.closed = @ \/ ~Writers(call[c])])

(* try_wait, which reaps a child that has exited.                          *)
TryWait(c) ==
  LET x == call[c]
      y == IF x.child = "exited" THEN [x EXCEPT !.child = "reaped"] ELSE x
      done == x.kind = "status" \/ (x.kind = "drain" /\ x.closed) IN
  /\ x.at = IF x.kind = "drain" THEN "wait" ELSE "loop"
  /\ Becomes(c, IF y.child = "reaped" /\ done THEN [y EXCEPT !.at = "over", !.result = "ok"]
                ELSE IF y.child = "reaped" /\ x.kind = "capture" THEN [y EXCEPT !.at = "collect"]
                ELSE [y EXCEPT !.at = "looked"])

(* The end of a turn: kill what is late, or sleep and look again.          *)
(* fault: the deadline is only looked at while the child runs.             *)
TurnOfChild(c) ==
  /\ call[c].at = "looked"
  /\ Becomes(c, IF call[c].due /\ call[c].child # "reaped"
                THEN [Killed(call[c]) EXCEPT !.at = "reap", !.result = "late"]
                ELSE [call[c] EXCEPT !.at = "loop"])
Turn(c) ==
  /\ call[c].at = "looked"
  /\ Becomes(c, IF call[c].due THEN [Killed(call[c]) EXCEPT !.at = "reap", !.result = "late"]
                ELSE [call[c] EXCEPT !.at = "loop"])

(* wait_with_output, until the last writer has gone.                       *)
Collect(c) ==
  /\ call[c].at = "collect"
  /\ \/ /\ call[c].unread > 0
        /\ Becomes(c, [call[c] EXCEPT !.got = @ + call[c].unread, !.unread = 0])
     \/ /\ call[c].unread = 0 /\ ~Writers(call[c])
        /\ Becomes(c, [call[c] EXCEPT !.at = "over", !.result = "ok"])

(* The child that was killed is waited for.                                *)
Reap(c) ==
  /\ call[c].at = "reap"
  /\ Becomes(c, [call[c] EXCEPT !.child = "reaped", !.at = "over"])

(* try_wait fails: the group is killed and the child waited for.           *)
WaitError(c) ==
  /\ call[c].at = IF call[c].kind = "drain" THEN "wait" ELSE "loop"
  /\ Becomes(c, [Killed(call[c]) EXCEPT !.at = "reap", !.result = "failed"])

CallerStep(c) == WaitError(c) \/ Deadline(c) \/ Drain(c) \/ TryWait(c) \/ Turn(c) \/ Collect(c) \/ Reap(c)
CallStep(c) == ChildStep(c) \/ CallerStep(c)

-----------------------------------------------------------------------------
(* A call that succeeds has reaped its child and read all of the output,   *)
(* and one that fails leaves nothing of the process group it started       *)
(* (output_timeout, status_timeout, output_timeout_draining_limited).      *)
CallHonest ==
  \A c \in Callers : Returned(c) =>
    /\ call[c].child \in {"none", "reaped"}
    /\ call[c].result = "ok" /\ call[c].kind # "status" => call[c].got = call[c].wrote
    /\ call[c].result # "ok" => call[c].heir # "group"

(* A call ends whatever the program does, within its deadline; only the    *)
(* call that reads when the child is dead waits for whoever still holds    *)
(* the output open (wait_with_output has no deadline).                     *)
CallEnds ==
  \A c \in Callers :
    call[c].at = "loop" ~> \/ call[c].at = "over"
                           \/ call[c].at = "collect" /\ call[c].heir # "none"
=============================================================================
