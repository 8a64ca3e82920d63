--------------------------- MODULE DirectiveStore ---------------------------
(***************************************************************************)
(* The directive store of one tmux server (relay/store.rs) and the two     *)
(* kinds of process that meet in it: relay servers, whose navigation       *)
(* handlers arm a directive, commit it and wait for its receipt, and the   *)
(* short-lived `termnav relay commit` processes that tmux starts when a    *)
(* terminal reply arrives.  A terminal reply carries no nonce, so the      *)
(* store alone decides which gesture it stands for.                        *)
(*                                                                         *)
(* This is the one-hop case of a navigation request: the tmux client is    *)
(* attached to a terminal directly, and the query is written to its tty.   *)
(* A step is one critical section of the store lock, one file operation    *)
(* made outside of it, or one call to tmux.                                *)
(***************************************************************************)
EXTENDS Naturals, FiniteSets

CONSTANTS
  Nonces,   \* navigation requests, one nonce each
  Strays,   \* terminal replies nobody's commit query asked for
  Servers,  \* relay server processes (owner_pid), one per SSH connection
  Clients,  \* physical tmux clients: tty, pid and creation time
  Routes,   \* <<s, c>>: the pane of relay s is displayed by client c
  None      \* no server, no client, no directive

ASSUME RoutesAssumption == Routes \subseteq Servers \X Clients
ASSUME DistinctAssumption ==
  /\ Nonces \cap Strays = {}
  /\ None \notin Nonces \cup Strays \cup Servers \cup Clients

Replies == Nonces \cup Strays

VARIABLES
  pc,        \* where the handler of each request stands
  owner,     \* the relay server that handles the request
  client,    \* the physical client of a request, or of a stray reply
  dir,       \* NONCE.json: absent, prepared, ready or claimed
  seq,       \* the sequence number inside NONCE.json
  lastSeq,   \* .seq
  receipt,   \* NONCE.result: none, handled or error
  poison,    \* the clients that have a .poison- file
  alive,     \* the relay servers still running (pid_alive)
  reply,     \* where the commit process of each terminal reply stands
  target,    \* the directive a commit process has claimed
  effects    \* how often a request has moved the user's focus

vars == <<pc, owner, client, dir, seq, lastSeq, receipt, poison, alive,
          reply, target, effects>>

-----------------------------------------------------------------------------
(* A handler runs from Begin to one of its answers.  "armed" is the        *)
(* success reply of handle_navigate; every other answer is "error", told   *)
(* apart here by the return it came from.                                  *)

Running == {"arm", "commit", "emit", "take", "read", "wait",
            "remove", "unlink", "poison", "discard", "unreceipt"}
Answered == {"armed", "failed", "refused", "aborted", "gone", "lost"}
HandlerStates == {"idle", "crashed"} \cup Running \cup Answered

ReplyStates == {"quiet", "inflight", "spawned", "claimed",
                "ranHandled", "ranError", "retire", "done", "killed"}

Init ==
  /\ pc = [n \in Nonces |-> "idle"]
  /\ owner = [n \in Nonces |-> None]
  /\ client = [r \in Replies |-> None]
  /\ dir = [n \in Nonces |-> "absent"]
  /\ seq = [n \in Nonces |-> 0]
  /\ lastSeq = 0
  /\ receipt = [n \in Nonces |-> "none"]
  /\ poison = {}
  /\ alive = Servers
  /\ reply = [r \in Replies |-> IF r \in Strays THEN "inflight" ELSE "quiet"]
  /\ target = [r \in Replies |-> None]
  /\ effects = [n \in Nonces |-> 0]

-----------------------------------------------------------------------------
(* Directives of one client, as a scan of the directory sees them.         *)

Outstanding(c) == {n \in Nonces : dir[n] # "absent" /\ client[n] = c}
Ready(n) == dir[n] \in {"ready", "claimed"}
Dead(n) == owner[n] \notin alive

(* The entries matching_exists removes and goes on: unready ones that have *)
(* outlived PREPARE_STALE (which ones is the clock's choice) and unready   *)
(* ones of a dead owner.  Any other entry of the client stops the scan.    *)
Removable(c, stale) == {n \in Outstanding(c) :
                          dir[n] = "prepared" /\ (n \in stale \/ Dead(n))}
BlockingReadyOnly(c, stale) ==   \* fault: an unready entry does not stop the scan
  {n \in Outstanding(c) : Ready(n)}
Blocking(c, stale) == Outstanding(c) \ Removable(c, stale)

(* A lost directive that was ready poisons its client for good.            *)
PoisonFor(S) == {client[n] : n \in {m \in S : Ready(m)}}

Vacate(S) == [n \in Nonces |-> IF n \in S THEN "absent" ELSE dir[n]]

-----------------------------------------------------------------------------
(* The navigation handler.                                                 *)

(* A request reaches its turn at the server's order gate: one navigation   *)
(* handler of a server runs at a time.                                     *)
Begin(n, s, c) ==
  /\ pc[n] = "idle"
  /\ s \in alive
  /\ <<s, c>> \in Routes
  /\ \A m \in Nonces : owner[m] = s => pc[m] \notin Running
  /\ pc' = [pc EXCEPT ![n] = "arm"]
  /\ owner' = [owner EXCEPT ![n] = s]
  /\ client' = [client EXCEPT ![n] = c]
  /\ UNCHANGED <<dir, seq, lastSeq, receipt, poison, alive, reply, target, effects>>

(* Store::arm finds the client free and publishes NONCE.json, unready.     *)
Arm(n) ==
  /\ pc[n] = "arm"
  /\ client[n] \notin poison
  /\ receipt[n] = "none"
  /\ \E stale \in SUBSET Outstanding(client[n]) :
       /\ Blocking(client[n], stale) = {}
       /\ dir' = [Vacate(Removable(client[n], stale)) EXCEPT ![n] = "prepared"]
  /\ lastSeq' = lastSeq + 1
  /\ seq' = [seq EXCEPT ![n] = lastSeq + 1]
  /\ pc' = [pc EXCEPT ![n] = "commit"]
  /\ UNCHANGED <<owner, client, receipt, poison, alive, reply, target, effects>>

(* Store::arm refuses: the client is poisoned, or the scan met an entry    *)
(* that stops it, having removed some of the others.  A ready directive of *)
(* a dead owner becomes poison, and stops the scan as well.                *)
ArmRefused(n) ==
  /\ pc[n] = "arm"
  /\ \/ /\ client[n] \in poison \/ receipt[n] # "none"
        /\ UNCHANGED <<dir, poison>>
     \/ /\ client[n] \notin poison
        /\ \E stale \in SUBSET Outstanding(client[n]) :
             \E m \in Blocking(client[n], stale),
                swept \in SUBSET Removable(client[n], stale) :
               LET lost == {k \in {m} : Dead(k)}
               IN dir' = Vacate(swept \cup lost) /\ poison' = poison \cup PoisonFor(lost)
  /\ pc' = [pc EXCEPT ![n] = "refused"]
  /\ UNCHANGED <<owner, client, seq, lastSeq, receipt, alive, reply, target, effects>>

(* validate_directive_client, then Store::mark_committed: the client may   *)
(* have gone or changed pane, or another arm may have removed the entry.   *)
MarkCommitted(n) ==
  /\ pc[n] = "commit"
  /\ \/ /\ dir[n] # "absent"
        /\ dir' = [dir EXCEPT ![n] = IF @ = "prepared" THEN "ready" ELSE @]
        /\ pc' = [pc EXCEPT ![n] = "emit"]
     \/ /\ pc' = [pc EXCEPT ![n] = "discard"]
        /\ UNCHANGED dir
  /\ UNCHANGED <<owner, client, seq, lastSeq, receipt, poison, alive, reply, target, effects>>

(* emit_commit writes the query to the client's tty, or fails to open it.  *)
EmitCommit(n) ==
  /\ pc[n] = "emit"
  /\ \/ /\ reply' = [reply EXCEPT ![n] = "inflight"]
        /\ pc' = [pc EXCEPT ![n] = "take"]
     \/ /\ pc' = [pc EXCEPT ![n] = "discard"]
        /\ UNCHANGED reply
  /\ UNCHANGED <<owner, client, dir, seq, lastSeq, receipt, poison, alive, target, effects>>

(* Fault: an abandoned directive poisons its client.                       *)
DiscardDirectivePoison(n) ==
  /\ pc[n] = "discard"
  /\ dir' = Vacate({n})
  /\ poison' = poison \cup {client[n]}
  /\ pc' = [pc EXCEPT ![n] = "unreceipt"]
  /\ UNCHANGED <<owner, client, seq, lastSeq, receipt, alive, reply, target, effects>>

(* Store::discard: NONCE.json under the lock, NONCE.result after it.       *)
DiscardDirective(n) ==
  /\ pc[n] = "discard"
  /\ dir' = Vacate({n})
  /\ pc' = [pc EXCEPT ![n] = "unreceipt"]
  /\ UNCHANGED <<owner, client, seq, lastSeq, receipt, poison, alive, reply, target, effects>>

DiscardReceipt(n) ==
  /\ pc[n] = "unreceipt"
  /\ receipt' = [receipt EXCEPT ![n] = "none"]
  /\ pc' = [pc EXCEPT ![n] = "aborted"]
  /\ UNCHANGED <<owner, client, dir, seq, lastSeq, poison, alive, reply, target, effects>>

(* Fault: any receipt counts as success.                                   *)
TakeAnyReceipt(n) ==
  /\ pc[n] \in {"take", "wait"}
  /\ receipt[n] # "none"
  /\ receipt' = [receipt EXCEPT ![n] = "none"]
  /\ pc' = [pc EXCEPT ![n] = "armed"]
  /\ UNCHANGED <<owner, client, dir, seq, lastSeq, poison, alive, reply, target, effects>>

(* take_result finds the receipt, deletes it and answers with it: the      *)
(* first look of wait_for_consumption ("take") and its poll ("wait").      *)
TakeReceipt(n) ==
  /\ pc[n] \in {"take", "wait"}
  /\ receipt[n] # "none"
  /\ receipt' = [receipt EXCEPT ![n] = "none"]
  /\ pc' = [pc EXCEPT ![n] = IF receipt[n] = "handled" THEN "armed" ELSE "failed"]
  /\ UNCHANGED <<owner, client, dir, seq, lastSeq, poison, alive, reply, target, effects>>

(* The first look finds no receipt.                                        *)
NoReceiptYet(n) ==
  /\ pc[n] = "take"
  /\ receipt[n] = "none"
  /\ pc' = [pc EXCEPT ![n] = "read"]
  /\ UNCHANGED <<owner, client, dir, seq, lastSeq, receipt, poison, alive, reply, target, effects>>

(* Store::read: a directive that is already gone ends the wait with false. *)
ReadDirective(n) ==
  /\ pc[n] = "read"
  /\ pc' = [pc EXCEPT ![n] = IF dir[n] = "absent" THEN "gone" ELSE "wait"]
  /\ UNCHANGED <<owner, client, dir, seq, lastSeq, receipt, poison, alive, reply, target, effects>>

(* COMMIT_TIMEOUT passes.  The directive goes under the lock; the receipt  *)
(* and the poison file are separate steps outside of it.                   *)
TimeOutClaimed(n) ==   \* fault: the deadline counts from the claim
  /\ pc[n] = "wait"
  /\ dir[n] = "claimed"
  /\ pc' = [pc EXCEPT ![n] = "remove"]
  /\ UNCHANGED <<owner, client, dir, seq, lastSeq, receipt, poison, alive, reply, target, effects>>

TimeOut(n) ==
  /\ pc[n] = "wait"
  /\ pc' = [pc EXCEPT ![n] = "remove"]
  /\ UNCHANGED <<owner, client, dir, seq, lastSeq, receipt, poison, alive, reply, target, effects>>

RemoveExpiredUnclaimed(n) ==   \* fault: a claimed directive is left to its claimant
  /\ pc[n] = "remove"
  /\ dir' = IF dir[n] = "claimed" THEN dir ELSE Vacate({n})
  /\ pc' = [pc EXCEPT ![n] = "unlink"]
  /\ UNCHANGED <<owner, client, seq, lastSeq, receipt, poison, alive, reply, target, effects>>

RemoveExpired(n) ==
  /\ pc[n] = "remove"
  /\ dir' = Vacate({n})
  /\ pc' = [pc EXCEPT ![n] = "unlink"]
  /\ UNCHANGED <<owner, client, seq, lastSeq, receipt, poison, alive, reply, target, effects>>

UnlinkReceipt(n) ==
  /\ pc[n] = "unlink"
  /\ receipt' = [receipt EXCEPT ![n] = "none"]
  /\ pc' = [pc EXCEPT ![n] = "poison"]
  /\ UNCHANGED <<owner, client, dir, seq, lastSeq, poison, alive, reply, target, effects>>

PoisonForgotten(n) ==   \* fault: the poison file cannot be written
  /\ pc[n] = "poison"
  /\ pc' = [pc EXCEPT ![n] = "lost"]
  /\ UNCHANGED <<owner, client, dir, seq, lastSeq, receipt, poison, alive, reply, target, effects>>

PoisonClient(n) ==
  /\ pc[n] = "poison"
  /\ poison' = poison \cup {client[n]}
  /\ pc' = [pc EXCEPT ![n] = "lost"]
  /\ UNCHANGED <<owner, client, dir, seq, lastSeq, receipt, alive, reply, target, effects>>

(* A relay server is killed: its handlers stop where they stand.           *)
Crash(s) ==
  /\ s \in alive
  /\ alive' = alive \ {s}
  /\ pc' = [n \in Nonces |->
              IF owner[n] = s /\ pc[n] \in Running THEN "crashed" ELSE pc[n]]
  /\ UNCHANGED <<owner, client, dir, seq, lastSeq, receipt, poison, reply, target, effects>>

-----------------------------------------------------------------------------
(* The terminal, tmux and the commit process of one reply.                 *)

(* The reply never comes back, or reaches a tmux that no longer lists the  *)
(* client: commit() takes it as unmatched.                                 *)
LoseReply(r) ==
  /\ reply[r] = "inflight"
  /\ reply' = [reply EXCEPT ![r] = "done"]
  /\ UNCHANGED <<pc, owner, client, dir, seq, lastSeq, receipt, poison, alive, target, effects>>

(* The reply reaches tmux through some client, which starts commit().      *)
Spawn(r, c) ==
  /\ reply[r] = "inflight"
  /\ client[r] \in {None, c}
  /\ reply' = [reply EXCEPT ![r] = "spawned"]
  /\ client' = [client EXCEPT ![r] = c]
  /\ UNCHANGED <<pc, owner, dir, seq, lastSeq, receipt, poison, alive, target, effects>>

(* Store::claim walks the client's directives in sequence order.  It       *)
(* removes those of dead owners, poisoning the client for a ready one,     *)
(* skips what is unready or claimed, and stops at the first it can take.   *)
ClaimableAgain(c) ==   \* fault: a claim does not exclude the next one
  {n \in Outstanding(c) : Ready(n) /\ ~ Dead(n)}
Claimable(c) == {n \in Outstanding(c) : dir[n] = "ready" /\ ~ Dead(n)}
DeadBelow(n) == {m \in Outstanding(client[n]) : Dead(m) /\ seq[m] < seq[n]}

ClaimDirective(r, n) ==
  /\ reply[r] = "spawned"
  /\ n \in Claimable(client[r])
  /\ \A m \in Claimable(client[r]) : seq[n] <= seq[m]
  /\ dir' = [Vacate(DeadBelow(n)) EXCEPT ![n] = "claimed"]
  /\ poison' = poison \cup PoisonFor(DeadBelow(n))
  /\ target' = [target EXCEPT ![r] = n]
  /\ reply' = [reply EXCEPT ![r] = "claimed"]
  /\ UNCHANGED <<pc, owner, client, seq, lastSeq, receipt, alive, effects>>

ClaimNothing(r) ==
  /\ reply[r] = "spawned"
  /\ Claimable(client[r]) = {}
  /\ LET dead == {m \in Outstanding(client[r]) : Dead(m)}
     IN dir' = Vacate(dead) /\ poison' = poison \cup PoisonFor(dead)
  /\ reply' = [reply EXCEPT ![r] = "done"]
  /\ UNCHANGED <<pc, owner, client, seq, lastSeq, receipt, alive, target, effects>>

Claim(r) == ClaimNothing(r) \/ \E n \in Nonces : ClaimDirective(r, n)

(* The claimed directive no longer matches its client: recorded as an      *)
(* error without running anything.                                         *)
ClaimInvalid(r) ==
  /\ reply[r] = "claimed"
  /\ reply' = [reply EXCEPT ![r] = "ranError"]
  /\ UNCHANGED <<pc, owner, client, dir, seq, lastSeq, receipt, poison, alive, target, effects>>

(* execute_directive runs the tmux command; a command that times out may   *)
(* have taken effect all the same.                                         *)
Execute(r) ==
  /\ reply[r] = "claimed"
  /\ \E outcome \in {"ranHandled", "ranError"} :
       reply' = [reply EXCEPT ![r] = outcome]
  /\ effects' = [effects EXCEPT ![target[r]] = @ + 1]
  /\ UNCHANGED <<pc, owner, client, dir, seq, lastSeq, receipt, poison, alive, target>>

(* Store::record_result: the receipt first, unless there is one already,   *)
(* then the directive, under the lock.                                     *)
PublishReceipt(r) ==
  /\ reply[r] \in {"ranHandled", "ranError"}
  /\ receipt' = [receipt EXCEPT ![target[r]] =
                   IF @ # "none" THEN @
                   ELSE IF reply[r] = "ranHandled" THEN "handled" ELSE "error"]
  /\ reply' = [reply EXCEPT ![r] = "retire"]
  /\ UNCHANGED <<pc, owner, client, dir, seq, lastSeq, poison, alive, target, effects>>

RetireDirective(r) ==
  /\ reply[r] = "retire"
  /\ dir' = Vacate({target[r]})
  /\ reply' = [reply EXCEPT ![r] = "done"]
  /\ UNCHANGED <<pc, owner, client, seq, lastSeq, receipt, poison, alive, target, effects>>

(* The commit process is killed before it is done.                         *)
CommitCrash(r) ==
  /\ reply[r] \in {"spawned", "claimed", "ranHandled", "ranError", "retire"}
  /\ reply' = [reply EXCEPT ![r] = "killed"]
  /\ UNCHANGED <<pc, owner, client, dir, seq, lastSeq, receipt, poison, alive, target, effects>>

-----------------------------------------------------------------------------
Handler(n) ==
  \/ Arm(n) \/ ArmRefused(n)
  \/ MarkCommitted(n) \/ EmitCommit(n)
  \/ DiscardDirective(n) \/ DiscardReceipt(n)
  \/ TakeReceipt(n) \/ NoReceiptYet(n) \/ ReadDirective(n)
  \/ TimeOut(n) \/ RemoveExpired(n) \/ UnlinkReceipt(n) \/ PoisonClient(n)

CommitProcess(r) ==
  \/ Claim(r) \/ ClaimInvalid(r) \/ Execute(r)
  \/ PublishReceipt(r) \/ RetireDirective(r)

Next ==
  \/ \E n \in Nonces, s \in Servers, c \in Clients : Begin(n, s, c)
  \/ \E n \in Nonces : Handler(n)
  \/ \E s \in Servers : Crash(s)
  \/ \E r \in Replies : LoseReply(r) \/ CommitProcess(r) \/ CommitCrash(r)
  \/ \E r \in Replies, c \in Clients : Spawn(r, c)

Spec == Init /\ [][Next]_vars

(* Where a handler may wait for ever: for the end of the output of the tmux*)
(* call that validates the client, and for a terminal that takes no output.*)
Unbounded == {"commit", "emit"}

(* Anywhere else the handler, a thread of the relay server, goes on.       *)
(* Nothing is promised about terminals, tmux or the commit processes.      *)
FairSpec == Spec /\ \A n \in Nonces : WF_vars(pc[n] \notin Unbounded /\ Handler(n))

-----------------------------------------------------------------------------
(* Every variable keeps its type.                                          *)
TypeOK ==
  /\ pc \in [Nonces -> HandlerStates]
  /\ owner \in [Nonces -> Servers \cup {None}]
  /\ client \in [Replies -> Clients \cup {None}]
  /\ dir \in [Nonces -> {"absent", "prepared", "ready", "claimed"}]
  /\ seq \in [Nonces -> Nat]
  /\ lastSeq \in Nat
  /\ receipt \in [Nonces -> {"none", "handled", "error"}]
  /\ poison \subseteq Clients
  /\ alive \subseteq Servers
  /\ reply \in [Replies -> ReplyStates]
  /\ target \in [Replies -> Nonces \cup {None}]
  /\ effects \in [Nonces -> Nat]

(* Store::arm admits one directive per physical client, whoever arms it    *)
(* and whatever it had to sweep away first: the reply that carries no      *)
(* nonce can only mean that one.                                           *)
AtMostOneOutstanding ==
  \A m, n \in Nonces :
    dir[m] # "absent" /\ dir[n] # "absent" /\ client[m] = client[n] => m = n

(* A gesture moves the user's focus at most once, however many replies     *)
(* arrive and however many commit processes race to claim it.              *)
ExecutedAtMostOnce == \A n \in Nonces : effects[n] <= 1

(* "armed" is only ever answered for a gesture that has been executed.     *)
ArmedMeansHandled == \A n \in Nonces : pc[n] = "armed" => effects[n] = 1

(* Once a handler has answered, its directive is gone, or is about to be   *)
(* retired by the commit process that claimed it.  Only a commit process   *)
(* killed after it claimed can strand one: every later gesture of the      *)
(* client is then refused until the relay server ends.                     *)
NoStrandedDirective ==
  \A n \in Nonces :
    pc[n] \in Answered /\ dir[n] # "absent" =>
      \E r \in Replies : target[r] = n /\ reply[r] \in {"retire", "killed"}

(* A client is poisoned only for a gesture that went unanswered until the  *)
(* timeout, or on behalf of a relay server that died: never for one that a *)
(* living server refused, aborted or answered from its receipt.            *)
PoisonJustified ==
  \A c \in poison : \E n \in Nonces : client[n] = c /\ (pc[n] = "lost" \/ Dead(n))

(* A reply executes the gesture whose query it answers and no other.       *)
OwnReply == \A n \in Nonces : target[n] \in {n, None}

(* While a reply is under way, either its own directive still waits for    *)
(* it, or nothing can be armed in its place: the client is poisoned, or    *)
(* the one server that feeds it is about to poison it.                     *)
LateReplyGuarded ==
  \A n \in Nonces :
    reply[n] \in {"inflight", "spawned"} =>
      \/ dir[n] \in {"ready", "claimed"}
      \/ client[n] \in poison
      \/ pc[n] \in {"unlink", "poison"}
      \/ Dead(n)

(* A poisoned client is closed: no directive of it is left to claim.       *)
PoisonClosesClient ==
  \A n \in Nonces : client[n] \in poison => dir[n] = "absent"

(* Every step keeps the promise of Gesture for the requests it serves.     *)
AnswerOf(n) ==
  IF pc[n] = "armed" THEN "armed" ELSE IF pc[n] \in Answered THEN "error" ELSE "none"

Promise == INSTANCE Gesture WITH
  Requests <- Nonces,
  asked <- {n \in Nonces : reply[n] # "quiet"},
  moves <- effects,
  answer <- [n \in Nonces |-> AnswerOf(n)]

PromiseKept == Promise!GestureSpec

(* A request that has begun is answered, whatever becomes of its query and *)
(* of those that should answer it, unless its server is killed or the      *)
(* handler stands for ever in validate_directive_client or emit_commit.    *)
BegunIsAnswered ==
  \A n \in Nonces : []<>(pc[n] \notin Running) \/ \E place \in Unbounded : <>[](pc[n] = place)
=============================================================================
