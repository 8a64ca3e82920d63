----------------------------- MODULE RelayPath -----------------------------
(***************************************************************************)
(* A navigation request on its way outwards through nested SSH sessions    *)
(* (relay/server.rs).  Hop 1 is the relay of the innermost session, hop N  *)
(* the one beside the physical terminal.  A hop has a tmux client, with a  *)
(* directive store of its own, or is a plain shell that passes everything  *)
(* on.  The hop that can execute a gesture arms it, prepares every hop     *)
(* outside of it, and commits them outwards; the outermost hop asks the    *)
(* terminal, and the answer comes back inwards, one tmux client at a time, *)
(* as a key that names no request.                                         *)
(*                                                                         *)
(* Each hop is fed by one relay.  The store is coarser than in             *)
(* DirectiveStore: waiting and retiring a directive are one step each.     *)
(***************************************************************************)
EXTENDS Naturals, Sequences, FiniteSets

CONSTANTS
  N,         \* the number of hops
  Plain,     \* the hops without tmux
  Requests,  \* navigation requests, one nonce each
  Entry,     \* the hop whose relay the caller of a request talks to
  None       \* no request

ASSUME HopsAssumption == N \in Nat \ {0} /\ Plain \subseteq 1 .. N
ASSUME EntryAssumption == Entry \in [Requests -> 1 .. N] /\ None \notin Requests

Hops == 1 .. N

VARIABLES
  caller,     \* what the caller of a request knows: idle, waiting or an answer
  queue,      \* the requests that wait for their turn at a hop's order gate
  run,        \* the handler that has its turn
  alive,      \* the relays still running
  dir,        \* per hop, NONCE.json: absent, prepared, ready or claimed
  receipt,    \* per hop, NONCE.result
  poison,     \* the hops whose client has a .poison- file
  exec,       \* the hop that executes a request, 0 while there is none
  key,        \* per hop, the answer to a request's query on its way inwards
  target,     \* per hop, the directive that answer has claimed
  asked,      \* the requests on whose behalf a terminal was told anything
  moves,      \* how often each request has moved the user's focus
  disturbed   \* whether a call, a process or a deadline has ever failed

pathVars == <<queue, run, alive, caller>>
storeVars == <<dir, receipt, poison, exec>>
keyVars == <<key, target>>
userVars == <<asked, moves>>
vars == <<pathVars, storeVars, keyVars, userVars, disturbed>>

Ops == {"navigate", "prepare", "commit", "abort"}
Words == {"none", "armed", "declined", "error", "prepared", "emitted", "aborted"}
Messages == [n : Requests, op : Ops]
Places == {"start", "arm", "ask", "await", "heard", "commit", "emit", "wait",
           "discard", "dispatch", "dispatched"}

(* A handler: its request, where it stands, what it asks its parent for    *)
(* and what it has heard.                                                  *)
Idle == [n |-> None, op |-> "navigate", at |-> "start", want |-> "navigate", word |-> "none"]
Handlers == {Idle} \cup
  [n : Requests, op : Ops, at : Places, want : Ops, word : Words]

Init ==
  /\ caller = [n \in Requests |-> "idle"]
  /\ queue = [k \in Hops |-> <<>>]
  /\ run = [k \in Hops |-> Idle]
  /\ alive = Hops
  /\ dir = [k \in Hops |-> [n \in Requests |-> "absent"]]
  /\ receipt = [k \in Hops |-> [n \in Requests |-> "none"]]
  /\ poison = {}
  /\ exec = [n \in Requests |-> 0]
  /\ key = [k \in Hops |-> [n \in Requests |-> "none"]]
  /\ target = [k \in Hops |-> [n \in Requests |-> None]]
  /\ asked = {}
  /\ moves = [n \in Requests |-> 0]
  /\ disturbed = FALSE

Tmux(k) == k \notin Plain
Outermost(k) == k = N
At(k, place) == run[k] # Idle /\ run[k].at = place
Req(k) == run[k].n

-----------------------------------------------------------------------------
(* What a step does with its handler.                                      *)

Onwards(h, place, want, word) ==
  [n |-> h.n, op |-> h.op, at |-> place, want |-> want, word |-> word]
Becomes(k, place, want, word) ==
  run' = [run EXCEPT ![k] = Onwards(run[k], place, want, word)] /\ UNCHANGED caller
Go(k, place) == Becomes(k, place, run[k].want, run[k].word)

(* send() to the parent, as the handler's next step.                       *)
Ask(k, op) == Becomes(k, "ask", op, run[k].word)

(* The handler has its parent's answer, or knows that there is none.       *)
Hear(k, word) == Becomes(k, "heard", run[k].want, word)

(* The handler is done; its reply reaches whoever still waits for it.      *)
Waits(j, m) == At(j, "await") /\ run[j].n = m.n /\ run[j].want = m.op
Reply(k, word) ==
  LET m == run[k]
      home == m.op = "navigate" /\ Entry[m.n] = k
  IN /\ run' = [j \in Hops |->
                  IF j = k THEN Idle
                  ELSE IF j + 1 = k /\ ~ home /\ Waits(j, m)
                       THEN Onwards(run[j], "heard", run[j].want, word)
                       ELSE run[j]]
     /\ caller' = [n \in Requests |->
                     IF home /\ n = m.n /\ caller[n] = "waiting" THEN word ELSE caller[n]]

Fails == disturbed' = TRUE
Works == UNCHANGED disturbed

Without(k, S) == [dir EXCEPT ![k] = [n \in Requests |-> IF n \in S THEN "absent" ELSE @[n]]]
Forget(k) ==   \* Store::discard
  /\ dir' = Without(k, {Req(k)})
  /\ receipt' = [receipt EXCEPT ![k][Req(k)] = "none"]

(* The tmux client, if any, that a key written to the terminal side of hop *)
(* k meets.                                                                *)
Toward(k) == {j \in 1 .. k : Tmux(j) /\ \A i \in j + 1 .. k : ~ Tmux(i)}
Written(keys, k, n) ==
  [j \in Hops |-> IF j \in Toward(k) THEN [keys[j] EXCEPT ![n] = "flying"] ELSE keys[j]]
Fly(k, n) == key' = Written(key, k, n)

-----------------------------------------------------------------------------
(* send_navigation: the caller sends its request, or finds nobody.         *)
Call(n) ==
  /\ caller[n] = "idle"
  /\ \/ /\ Entry[n] \in alive
        /\ queue' = [queue EXCEPT ![Entry[n]] = Append(@, [n |-> n, op |-> "navigate"])]
        /\ caller' = [caller EXCEPT ![n] = "waiting"]
        /\ Works
     \/ /\ caller' = [caller EXCEPT ![n] = "error"]
        /\ Fails
        /\ UNCHANGED queue
  /\ UNCHANGED <<run, alive, storeVars, keyVars, userVars>>

(* RELAY_TIMEOUT passes; the request stays where it is.                    *)
CallerGivesUp(n) ==
  /\ caller[n] = "waiting"
  /\ caller' = [caller EXCEPT ![n] = "error"]
  /\ Fails
  /\ UNCHANGED <<queue, run, alive, storeVars, keyVars, userVars>>

(* The order gate gives the next request its turn.                         *)
Turn(k) ==
  /\ run[k] = Idle
  /\ queue[k] # <<>>
  /\ run' = [run EXCEPT ![k] = Onwards(Head(queue[k]), "start", "navigate", "none")]
  /\ queue' = [queue EXCEPT ![k] = Tail(@)]
  /\ UNCHANGED <<alive, caller, storeVars, keyVars, userVars, disturbed>>

Starts(k, op) == At(k, "start") /\ run[k].op = op

(* A tmux hop that finds no client, or cannot open its store, answers      *)
(* error to whatever it is asked.                                          *)
Unresolved(k) ==
  /\ At(k, "start") /\ Tmux(k)
  /\ Reply(k, "error")
  /\ Fails
  /\ UNCHANGED <<queue, alive, storeVars, keyVars, userVars>>

(* handle_navigate: execute here, or pass the request on, or, outermost,   *)
(* let the terminal do it.                                                 *)
NavigateHere(k) ==
  /\ Starts(k, "navigate") /\ Tmux(k)
  /\ Go(k, "arm")
  /\ UNCHANGED <<queue, alive, storeVars, keyVars, userVars, disturbed>>

NavigateOut(k) ==
  /\ Starts(k, "navigate")
  /\ IF Outermost(k) THEN Go(k, "dispatch") ELSE Ask(k, "navigate")
  /\ UNCHANGED <<queue, alive, storeVars, keyVars, userVars, disturbed>>

(* dispatch_terminal: the terminal is told, and may have moved whatever    *)
(* the outcome is.                                                         *)
Dispatch(k) ==
  /\ At(k, "dispatch")
  /\ \/ /\ asked' = asked \cup {Req(k)}
        /\ Go(k, "dispatched")
     \/ /\ Reply(k, "declined")
        /\ UNCHANGED asked
  /\ UNCHANGED <<queue, alive, storeVars, keyVars, moves, disturbed>>

Dispatched(k) ==
  /\ At(k, "dispatched")
  /\ \E moved \in {0, 1}, word \in {"armed", "declined", "error"} :
       /\ word = "armed" => moved = 1
       /\ word = "declined" => moved = 0
       /\ moves' = [moves EXCEPT ![Req(k)] = @ + moved]
       /\ Hear(k, word)
       /\ IF word = "error" THEN Fails ELSE Works
  /\ UNCHANGED <<queue, alive, storeVars, keyVars, asked>>

(* Store::arm, by handle_navigate where the gesture is executed and by     *)
(* handle_prepare where the answer is to be forwarded.  It may remove what *)
(* has outlived PREPARE_STALE, and refuses beside anything else.           *)
Arming(k) == At(k, "arm") \/ (Starts(k, "prepare") /\ Tmux(k))
Others(k) == {n \in Requests : dir[k][n] # "absent"}
ArmPoisoned(k) ==   \* fault: the poison file is not looked at
  /\ Arming(k)
  /\ Others(k) = {}
  /\ dir' = [dir EXCEPT ![k][Req(k)] = "prepared"]
  /\ exec' = IF run[k].op = "navigate" THEN [exec EXCEPT ![Req(k)] = k] ELSE exec
  /\ IF ~ Outermost(k) THEN Ask(k, "prepare")
     ELSE IF run[k].op = "navigate" THEN Go(k, "commit") ELSE Reply(k, "prepared")
  /\ UNCHANGED <<queue, alive, receipt, poison, keyVars, userVars, disturbed>>
Arm(k) ==
  /\ Arming(k)
  /\ \E stale \in SUBSET {n \in Others(k) : dir[k][n] = "prepared"} :
       LET free == k \notin poison /\ stale = Others(k) /\ receipt[k][Req(k)] = "none"
       IN /\ k \in poison => stale = {}
          /\ dir' = IF free THEN [Without(k, stale) EXCEPT ![k][Req(k)] = "prepared"]
                            ELSE Without(k, stale)
          /\ exec' = IF free /\ run[k].op = "navigate" THEN [exec EXCEPT ![Req(k)] = k] ELSE exec
          /\ disturbed' = (disturbed \/ stale # {})
          /\ \/ ~ free /\ Reply(k, "error")
             \/ free /\ ~ Outermost(k) /\ Ask(k, "prepare")
             \/ /\ free /\ Outermost(k)
                /\ IF run[k].op = "navigate" THEN Go(k, "commit") ELSE Reply(k, "prepared")
  /\ UNCHANGED <<queue, alive, receipt, poison, keyVars, userVars>>

(* A plain hop passes prepare-path and commit-path on; the outermost one   *)
(* has nothing to prepare, and commits by asking the terminal itself.      *)
PassOn(k) ==
  /\ ~ Tmux(k) /\ (Starts(k, "prepare") \/ Starts(k, "commit"))
  /\ IF ~ Outermost(k)
     THEN Ask(k, run[k].op) /\ UNCHANGED <<key, asked, disturbed>>
     ELSE \/ /\ run[k].op = "prepare" /\ Reply(k, "prepared")
             /\ UNCHANGED <<key, asked, disturbed>>
          \/ /\ run[k].op = "commit" /\ Reply(k, "emitted")
             /\ asked' = asked \cup {Req(k)} /\ Fly(k, Req(k)) /\ Works
          \/ /\ run[k].op = "commit" /\ Reply(k, "error")
             /\ Fails
             /\ UNCHANGED <<key, asked>>
  /\ UNCHANGED <<queue, alive, storeVars, target, moves>>

(* The parent's socket takes the message, or the connection fails.         *)
Send(k) ==
  /\ At(k, "ask")
  /\ \/ /\ k + 1 \in alive
        /\ queue' = [queue EXCEPT ![k + 1] = Append(@, [n |-> Req(k), op |-> run[k].want])]
        /\ Go(k, "await")
        /\ Works
     \/ /\ Hear(k, "error")
        /\ Fails
        /\ UNCHANGED queue
  /\ UNCHANGED <<alive, storeVars, keyVars, userVars>>

(* RELAY_TIMEOUT passes, or the parent is gone.                            *)
GivesUpReply(k) ==
  /\ At(k, "await")
  /\ Hear(k, "error")
  /\ Fails
  /\ UNCHANGED <<queue, alive, storeVars, keyVars, userVars>>

(* The parent's reply, or its absence, decides how the handler goes on.    *)
Hears(k, want) == At(k, "heard") /\ run[k].want = want
HearNavigateDeclines(k) ==   \* fault: no answer is taken for "declined"
  /\ Hears(k, "navigate")
  /\ Reply(k, IF run[k].word = "error" THEN "declined" ELSE run[k].word)
  /\ UNCHANGED <<queue, alive, storeVars, keyVars, userVars, disturbed>>
HearNavigate(k) ==
  /\ Hears(k, "navigate")
  /\ Reply(k, run[k].word)
  /\ UNCHANGED <<queue, alive, storeVars, keyVars, userVars, disturbed>>

HearPrepare(k) ==
  /\ Hears(k, "prepare")
  /\ IF Tmux(k) /\ run[k].word # "prepared" THEN Ask(k, "abort")
     ELSE IF run[k].op = "navigate" THEN Go(k, "commit") ELSE Reply(k, run[k].word)
  /\ UNCHANGED <<queue, alive, storeVars, keyVars, userVars, disturbed>>

HearAbort(k) ==
  /\ Hears(k, "abort")
  /\ IF run[k].op = "abort" THEN Reply(k, "aborted") ELSE Go(k, "discard")
  /\ UNCHANGED <<queue, alive, storeVars, keyVars, userVars, disturbed>>

(* Where a directive is ready the reply is advisory: the receipt decides.  *)
HearCommit(k) ==
  /\ Hears(k, "commit")
  /\ IF Tmux(k) THEN Go(k, "wait") ELSE Reply(k, run[k].word)
  /\ UNCHANGED <<queue, alive, storeVars, keyVars, userVars, disturbed>>

(* validate_directive_client and Store::mark_committed, then the hops      *)
(* further out.  handle_navigate aborts those when it fails, handle_commit *)
(* does not.                                                               *)
Committing(k) == At(k, "commit") \/ (Starts(k, "commit") /\ Tmux(k))
Commit(k) ==
  /\ Committing(k)
  /\ dir[k][Req(k)] # "absent"
  /\ dir' = [dir EXCEPT ![k][Req(k)] = IF @ = "prepared" THEN "ready" ELSE @]
  /\ IF Outermost(k) THEN Go(k, "emit") ELSE Ask(k, "commit")
  /\ UNCHANGED <<queue, alive, receipt, poison, exec, keyVars, userVars, disturbed>>

CommitFails(k) ==
  /\ Committing(k)
  /\ IF run[k].op = "navigate"
     THEN IF Outermost(k) THEN Go(k, "discard") ELSE Ask(k, "abort")
     ELSE IF dir[k][Req(k)] = "absent" THEN Reply(k, "error") ELSE Go(k, "discard")
  /\ Fails
  /\ UNCHANGED <<queue, alive, storeVars, keyVars, userVars>>

(* emit_commit, on the tty of the outermost tmux client.                   *)
EmitKeepsDirective(k) ==   \* fault: a query that fails leaves its directive
  /\ At(k, "emit")
  /\ Reply(k, "error")
  /\ Fails
  /\ UNCHANGED <<queue, alive, storeVars, keyVars, userVars>>
Emit(k) ==
  /\ At(k, "emit")
  /\ \/ asked' = asked \cup {Req(k)} /\ Fly(k, Req(k)) /\ Go(k, "wait") /\ Works
     \/ Go(k, "discard") /\ Fails /\ UNCHANGED <<key, asked>>
  /\ UNCHANGED <<queue, alive, storeVars, target, moves>>

Discard(k) ==
  /\ At(k, "discard")
  /\ Forget(k)
  /\ Reply(k, "error")
  /\ UNCHANGED <<queue, alive, poison, exec, keyVars, userVars, disturbed>>

(* handle_abort: forget the directive if there is one, then further out.   *)
AbortPath(k) ==
  /\ Starts(k, "abort")
  /\ IF Tmux(k) /\ dir[k][Req(k)] # "absent" THEN Forget(k) ELSE UNCHANGED <<dir, receipt>>
  /\ IF Outermost(k) THEN Reply(k, "aborted") ELSE Ask(k, "abort")
  /\ UNCHANGED <<queue, alive, poison, exec, keyVars, userVars, disturbed>>

(* wait_for_consumption: the receipt, or nothing to wait for, or           *)
(* COMMIT_TIMEOUT.                                                         *)
Success(k) == IF run[k].op = "navigate" THEN "armed" ELSE "emitted"
TakeReceipt(k) ==
  /\ At(k, "wait")
  /\ \/ receipt[k][Req(k)] # "none"
     \/ dir[k][Req(k)] = "absent"
  /\ Reply(k, IF receipt[k][Req(k)] = "handled" THEN Success(k) ELSE "error")
  /\ receipt' = [receipt EXCEPT ![k][Req(k)] = "none"]
  /\ UNCHANGED <<queue, alive, dir, poison, exec, keyVars, userVars, disturbed>>

GivesUpUnclaimed(k) ==   \* fault: a directive that is claimed has no deadline
  /\ At(k, "wait")
  /\ dir[k][Req(k)] # "claimed"
  /\ Forget(k)
  /\ poison' = poison \cup {k}
  /\ Reply(k, "error")
  /\ Fails
  /\ UNCHANGED <<queue, alive, exec, keyVars, userVars>>
GivesUpReceipt(k) ==
  /\ At(k, "wait")
  /\ Forget(k)
  /\ poison' = poison \cup {k}
  /\ Reply(k, "error")
  /\ Fails
  /\ UNCHANGED <<queue, alive, exec, keyVars, userVars>>

-----------------------------------------------------------------------------
(* The answer on its way inwards.                                          *)

(* Store::claim by the commit process of hop k: any ready directive of the *)
(* client.  Without one the answer goes to the pane and means nothing.     *)
Claim(k, r) ==
  /\ key[k][r] = "flying"
  /\ \/ \E m \in Requests :
          /\ dir[k][m] = "ready"
          /\ dir' = [dir EXCEPT ![k][m] = "claimed"]
          /\ target' = [target EXCEPT ![k][r] = m]
          /\ key' = [key EXCEPT ![k][r] = "running"]
     \/ /\ \A m \in Requests : dir[k][m] # "ready"
        /\ key' = [key EXCEPT ![k][r] = "done"]
        /\ UNCHANGED <<dir, target>>
  /\ UNCHANGED <<pathVars, receipt, poison, exec, userVars, disturbed>>

(* commit(): the gesture is executed, or the key is forwarded to the pane  *)
(* of the next hop inwards, and the result recorded.  A tmux command that  *)
(* failed may have worked; a process that is killed records nothing.       *)
RunForgetsKey(k, r) ==   \* fault: a forwarded key is recorded and not sent
  LET m == target[k][r] IN
  /\ key[k][r] = "running"
  /\ key' = [key EXCEPT ![k][r] = "done"]
  /\ moves' = IF exec[m] = k THEN [moves EXCEPT ![m] = @ + 1] ELSE moves
  /\ receipt' = [receipt EXCEPT ![k][m] = "handled"]
  /\ dir' = Without(k, {m})
  /\ UNCHANGED <<pathVars, poison, exec, target, asked, disturbed>>
Run(k, r) ==
  LET m == target[k][r]
      away == [key EXCEPT ![k][r] = "done"]
  IN
  /\ key[k][r] = "running"
  /\ \E acted \in BOOLEAN, result \in {"handled", "error", "none"} :
       /\ result = "handled" => acted
       /\ IF result = "handled" THEN Works ELSE Fails
       /\ moves' = IF acted /\ exec[m] = k THEN [moves EXCEPT ![m] = @ + 1] ELSE moves
       /\ key' = IF acted /\ exec[m] # k THEN Written(away, k - 1, r) ELSE away
       /\ receipt' = IF receipt[k][m] = "none" THEN [receipt EXCEPT ![k][m] = result] ELSE receipt
       /\ dir' = IF result = "none" THEN dir ELSE Without(k, {m})
  /\ UNCHANGED <<pathVars, poison, exec, target, asked>>

(* The terminal does not answer, or an ssh session swallows the key.       *)
LoseKey(k, r) ==
  /\ key[k][r] = "flying"
  /\ key' = [key EXCEPT ![k][r] = "done"]
  /\ Fails
  /\ UNCHANGED <<pathVars, storeVars, target, userVars>>

(* A relay is killed with its queue.                                       *)
Crash(k) ==
  /\ k \in alive
  /\ alive' = alive \ {k}
  /\ run' = [run EXCEPT ![k] = Idle]
  /\ queue' = [queue EXCEPT ![k] = <<>>]
  /\ Fails
  /\ UNCHANGED <<caller, storeVars, keyVars, userVars>>

-----------------------------------------------------------------------------
Handler(k) ==
  \/ Turn(k) \/ Unresolved(k) \/ NavigateHere(k) \/ NavigateOut(k) \/ Dispatch(k) \/ Dispatched(k)
  \/ Arm(k) \/ PassOn(k) \/ Send(k)
  \/ HearNavigate(k) \/ HearPrepare(k) \/ HearAbort(k) \/ HearCommit(k)
  \/ Commit(k) \/ CommitFails(k) \/ Emit(k) \/ Discard(k) \/ AbortPath(k) \/ TakeReceipt(k)

GivesUp(k) == GivesUpReply(k) \/ GivesUpReceipt(k)

Next ==
  \/ \E n \in Requests : Call(n) \/ CallerGivesUp(n)
  \/ \E k \in Hops : Handler(k) \/ GivesUp(k) \/ Crash(k)
  \/ \E k \in Hops, r \in Requests : Claim(k, r) \/ Run(k, r) \/ LoseKey(k, r)

Spec == Init /\ [][Next]_vars

(* A handler may stand for ever in a tmux call, which ends with its output *)
(* (client_for, validate_directive_client), and in a write to a terminal.  *)
Unbounded == {"start", "dispatch", "dispatched", "commit", "emit"}
Stands(k) == run[k] # Idle /\ run[k].at \in Unbounded

(* As long as another handler or a commit process can go on, one of them   *)
(* does.  Deadlines need not pass: there is always the chance of an answer.*)
Work ==
  \/ \E k \in Hops : ~ Stands(k) /\ Handler(k)
  \/ \E k \in Hops, r \in Requests : Claim(k, r) \/ Run(k, r)

FairSpec == Spec /\ WF_vars(Work)

-----------------------------------------------------------------------------
(* Every variable keeps its type.                                          *)
TypeOK ==
  /\ caller \in [Requests -> {"idle", "waiting", "armed", "declined", "error"}]
  /\ queue \in [Hops -> Seq(Messages)]
  /\ run \in [Hops -> Handlers]
  /\ alive \subseteq Hops
  /\ dir \in [Hops -> [Requests -> {"absent", "prepared", "ready", "claimed"}]]
  /\ receipt \in [Hops -> [Requests -> {"none", "handled", "error"}]]
  /\ poison \subseteq Hops
  /\ exec \in [Requests -> 0 .. N]
  /\ key \in [Hops -> [Requests -> {"none", "flying", "running", "done"}]]
  /\ target \in [Hops -> [Requests -> Requests \cup {None}]]
  /\ asked \subseteq Requests
  /\ moves \in [Requests -> 0 .. 1]
  /\ disturbed \in BOOLEAN

(* No hop takes the answer of one gesture for another.                     *)
OwnAnswer == \A k \in Hops, r \in Requests : target[k][r] \in {None, r}

(* When everyone is done, what is left at a hop that still serves is an    *)
(* entry that expires, or the claim of a commit process that was killed:   *)
(* nothing that a stray answer could execute.                              *)
Over ==
  /\ \A k \in Hops : run[k] = Idle /\ queue[k] = <<>>
  /\ \A k \in Hops, n \in Requests : key[k][n] \notin {"flying", "running"}
LeftoversHarmless ==
  Over => \A k \in alive, n \in Requests : dir[k][n] # "ready"

(* However many hops carry a request out, it keeps the promise of Gesture: *)
(* "declined" invites the caller to try something else, so nothing moves   *)
(* on its behalf, then or later.                                           *)
Promise == INSTANCE Gesture WITH
  answer <- [n \in Requests |->
               IF caller[n] \in {"idle", "waiting"} THEN "none"
               ELSE caller[n]]
KeepsPromise == Promise!GestureSpec

(* Requests from several hops queue and prepare across each other, yet     *)
(* never wait in a circle, nor refuse each other so that all of them fail: *)
(* with nothing lost, no deadline passed and no hop that stands for ever,  *)
(* one gets through.                                                       *)
OneGetsThrough ==
  [](~ disturbed) =>
    \/ (\E n \in Requests : caller[n] = "waiting")
         ~> \E n \in Requests : caller[n] \in {"armed", "declined"}
    \/ \E k \in Hops : <>[]Stands(k)

(* With deadlines that pass, every relay comes free, whatever is lost; one *)
(* that stands for ever keeps only its own gate.                           *)
GatesComeFree ==
  WF_vars(\E k \in Hops : GivesUp(k)) => \A k \in Hops : <>[](run[k] = Idle) \/ <>[]Stands(k)
=============================================================================
