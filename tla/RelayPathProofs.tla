-------------------------- MODULE RelayPathProofs --------------------------
(***************************************************************************)
(* What is proved of RelayPath, for any number of hops, any hops without   *)
(* tmux, any requests and any entries: that an answer that names no        *)
(* request only ever executes its own gesture, that nothing is left behind *)
(* which a stray answer could execute, and that the path keeps the promise *)
(* of Gesture.                                                             *)
(***************************************************************************)
EXTENDS RelayPath, TLAPS

-----------------------------------------------------------------------------
(* Types.  WellFormed says which places, and which questions to the        *)
(* parent, go with the operation of a handler.                             *)

Asking(h) == h.at \in {"ask", "await", "heard"}
WellFormed(k, h) ==
  /\ h.op = "commit" =>
       /\ h.at \in {"start", "ask", "await", "heard", "emit", "wait", "discard"}
       /\ Asking(h) => h.want = "commit"
  /\ h.op = "prepare" =>
       /\ h.at \in {"start", "ask", "await", "heard", "discard"}
       /\ Asking(h) => h.want \in {"prepare", "abort"}
  /\ h.op = "abort" =>
       /\ h.at \in {"start", "ask", "await", "heard"}
       /\ Asking(h) => h.want = "abort"
  /\ h.at = "heard" /\ h.want = "navigate" => h.word \in {"armed", "declined", "error"}
  /\ h.at \in {"dispatch", "dispatched", "emit"} => k = N
  /\ h.at \in {"arm", "commit", "emit", "wait", "discard"} => Tmux(k)
  /\ Asking(h) /\ h.op = "navigate" /\ h.want # "navigate" => Tmux(k)
  /\ h.at \in {"ask", "await"} \/ (h.at = "heard" /\ h.want # "navigate") => k # N
  /\ Asking(h) /\ h.want = "abort" /\ h.op # "abort" => Tmux(k)
  /\ h.at \in {"start", "arm", "dispatch", "dispatched"} => h.want = "navigate"
PathTypeOK ==
  /\ caller \in [Requests -> {"idle", "waiting", "armed", "declined", "error"}]
  /\ queue \in [Hops -> Seq(Messages)]
  /\ run \in [Hops -> Handlers]
  /\ alive \subseteq Hops
  /\ dir \in [Hops -> [Requests -> {"absent", "prepared", "ready", "claimed"}]]
  /\ receipt \in [Hops -> [Requests -> {"none", "handled", "error"}]]
  /\ poison \subseteq Hops
  /\ exec \in [Requests -> 0 .. N]
  /\ key \in [Hops -> [Requests -> {"none", "flying", "running", "done"}]]
  /\ target \in [Hops -> [Requests -> Requests \cup {None}]]
  /\ asked \subseteq Requests
  /\ moves \in [Requests -> Nat]
  /\ disturbed \in BOOLEAN
  /\ \A k \in Hops : run[k] # Idle => WellFormed(k, run[k])

-----------------------------------------------------------------------------
(* The frontier: at most one place from which a request still spreads.     *)

Slots(k) == 1 .. Len(queue[k])
(* A handler that may still send a message other than an abort, or ask or  *)
(* move the terminal.                                                      *)
Leads(h) ==
  \/ h.at = "start" /\ h.op # "abort"
  \/ h.at \in {"arm", "commit", "emit", "dispatch", "dispatched"}
  \/ h.at = "ask" /\ h.want # "abort"
  \/ h.at = "heard" /\ h.want = "prepare" /\ h.word = "prepared"

NoneQueued(k, n) == \A i \in Slots(k) : queue[k][i].n # n
Silent(k, n) == NoneQueued(k, n) /\ run[k].n # n
SilentBeyond(k, n) == \A j \in Hops : j > k => Silent(j, n)
NoAbort(k, n) ==
  /\ \A i \in Slots(k) : queue[k][i].n = n => queue[k][i].op # "abort"
  /\ run[k].n = n => run[k].op # "abort"

(* Nothing has been heard of a request further out than where it leads.    *)
FrontierInv ==
  /\ \A k \in Hops : \A i, j \in Slots(k) :
        i < j /\ queue[k][i].n = queue[k][j].n => queue[k][j].op = "abort"
  /\ \A k \in Hops : \A i \in Slots(k) :
        queue[k][i].n = run[k].n => queue[k][i].op = "abort"
  /\ \A k \in Hops : \A i \in Slots(k) :
        queue[k][i].op # "abort" => SilentBeyond(k, queue[k][i].n)
  /\ \A k \in Hops : run[k] # Idle /\ Leads(run[k]) => SilentBeyond(k, run[k].n)
  /\ \A k \in Hops :
        run[k] # Idle /\ run[k].at = "await" /\ run[k].want = "prepare" /\ k < N => NoAbort(k + 1, run[k].n)

-----------------------------------------------------------------------------
(* What a request is at each hop, before and after a hop executes it.      *)

Navigating(h) == h.op = "navigate" /\ \/ h.at \in {"start", "arm", "dispatch", "dispatched"}
                                      \/ Asking(h) /\ h.want = "navigate"
PassedOn(h) == h.op = "navigate" /\ h.at \in {"await", "heard"} /\ h.want = "navigate"
Executing(h) == h.op = "navigate" /\ \/ h.at \in {"commit", "emit", "wait", "discard"}
                                     \/ Asking(h) /\ h.want # "navigate"
BeforeExec(n) ==
  \A k \in Hops :
    /\ \A i \in Slots(k) : queue[k][i].n = n => queue[k][i].op = "navigate"
    /\ run[k].n = n => Navigating(run[k])
    /\ key[k][n] = "none" /\ dir[k][n] = "absent" /\ receipt[k][n] = "none"
AfterExec(n) ==
  \A k \in Hops :
    /\ \A i \in Slots(k) : queue[k][i].n = n => queue[k][i].op # "navigate" /\ k > exec[n]
    /\ run[k].n = n =>
         /\ k < exec[n] => PassedOn(run[k])
         /\ k = exec[n] => Executing(run[k])
         /\ k > exec[n] => run[k].op # "navigate"
ShapeOf(n) ==
  /\ caller[n] = "idle" => exec[n] = 0 /\ \A k \in Hops : Silent(k, n)
  /\ exec[n] = 0 => BeforeExec(n)
  /\ exec[n] # 0 => AfterExec(n) /\ Tmux(exec[n])
ShapeInv == \A n \in Requests : ShapeOf(n)

-----------------------------------------------------------------------------
(* The commit, and the answer.                                             *)

(* Nothing more is to come from a hop than what it hears or waits for.     *)
Settled(h) == h.at = "wait" \/ (h.at \in {"await", "heard"} /\ h.want \in {"navigate", "commit"})
Cleared(k, n) == NoneQueued(k, n) /\ (run[k].n = n => Settled(run[k]))
AllCleared(n) == \A k \in Hops : Cleared(k, n)
ClearedBelow(k, n) == \A j \in Hops : j < k => Cleared(j, n)
Answering(k, n) == key[k][n] \in {"flying", "running"}

CommitInv ==
  /\ \A k \in Hops : \A i \in Slots(k) :
       queue[k][i].op = "commit" =>
         /\ ClearedBelow(k, queue[k][i].n)
         /\ \A j \in Slots(k) : queue[k][j].n = queue[k][i].n => j = i
  /\ \A k \in Hops :
       run[k] # Idle /\ run[k].op = "commit" => ClearedBelow(k, run[k].n) /\ NoneQueued(k, run[k].n)
  /\ \A k, j \in Hops, n \in Requests : Answering(k, n) /\ Answering(j, n) => k = j
  /\ \A k \in Hops, n \in Requests :
       Answering(k, n) => AllCleared(n) /\ Tmux(k) /\ exec[n] # 0 /\ exec[n] <= k /\ n \in asked

-----------------------------------------------------------------------------
(* What the stores hold.                                                   *)

Committed(h) == \/ h.at \in {"emit", "wait"}
                \/ Asking(h) /\ h.want = "commit"
HoldsOn(h) == Committed(h) \/ h.at = "discard"
StoreInv ==
  /\ \A k \in Hops, n, m \in Requests : dir[k][n] # "absent" /\ dir[k][m] # "absent" => n = m
  /\ \A k \in Hops, n \in Requests : dir[k][n] # "absent" => Tmux(k) /\ k \notin poison
  /\ \A k \in Hops, n \in Requests : receipt[k][n] # "none" => dir[k][n] = "absent"
  /\ \A k \in Hops, n \in Requests : dir[k][n] = "claimed" => AllCleared(n)
  /\ \A k \in Hops, n \in Requests :
       dir[k][n] = "ready" /\ k \in alive =>
         run[k].n = n /\ HoldsOn(run[k])
  /\ \A k \in Hops : run[k] # Idle /\ Committed(run[k]) =>
       \A m \in Requests : dir[k][m] # "absent" => m = run[k].n

(* From the executing hop outwards, as far as the commit has come, the     *)
(* directive of the request is ready, or its client is poisoned.           *)
ReadyBelow(k, n) ==
  \A j \in Hops : exec[n] <= j /\ j < k /\ Tmux(j) => dir[j][n] = "ready" \/ j \in poison
KeyFine(k, n) ==
  /\ key[k][n] = "flying" => ReadyBelow(k + 1, n)
  /\ key[k][n] = "running" => ReadyBelow(k, n) /\ target[k][n] = n
  /\ target[k][n] \in {None, n}
ReadyInv ==
  /\ \A k \in Hops : \A i \in Slots(k) :
       queue[k][i].op = "commit" => ReadyBelow(k, queue[k][i].n)
  /\ \A k \in Hops : run[k] # Idle =>
       /\ run[k].op = "commit" /\ run[k].at = "start" => ReadyBelow(k, run[k].n)
       /\ run[k].at = "emit" \/ (run[k].at = "ask" /\ run[k].want = "commit") => ReadyBelow(k + 1, run[k].n)
  /\ \A k \in Hops, n \in Requests : KeyFine(k, n)

-----------------------------------------------------------------------------
(* What the user sees and what the caller hears.                           *)

Told(n, word) == \/ caller[n] = word
                 \/ \E k \in Hops : run[k].n = n /\ run[k].at = "heard" /\ run[k].want = "navigate" /\ run[k].word = word
Spent(n) == AllCleared(n) /\ (\A k \in Hops : ~ Answering(k, n)) /\ caller[n] # "idle"
UserInv ==
  \A n \in Requests :
    /\ moves[n] \in {0, 1}
    /\ moves[n] = 1 => Spent(n)
    /\ Told(n, "armed") => moves[n] = 1
    /\ Told(n, "declined") => moves[n] = 0 /\ Spent(n)
    /\ \A k \in Hops :
         /\ exec[n] = k /\ receipt[k][n] = "handled" => moves[n] = 1
         /\ run[k].n = n /\ run[k].at = "dispatched" => n \in asked

PathInv == PathTypeOK /\ FrontierInv /\ ShapeInv /\ CommitInv /\ StoreInv /\ ReadyInv /\ UserInv

-----------------------------------------------------------------------------
(* What the parts of the actions do to a handler, field by field.          *)

LEMMA HandlerIs ==
  ASSUME NEW h \in Handlers
  PROVE  /\ h # Idle => h \in [n : Requests, op : Ops, at : Places, want : Ops, word : Words]
         /\ h # Idle <=> h.n \in Requests
         /\ h.n \in Requests \cup {None}
         /\ h.n = None <=> h = Idle
BY EntryAssumption DEF Handlers, Idle

LEMMA OnwardsIs ==
  ASSUME NEW h \in Handlers, h # Idle,
         NEW place \in Places, NEW want \in Ops, NEW word \in Words
  PROVE  LET g == Onwards(h, place, want, word) IN
         /\ g \in Handlers /\ g # Idle
         /\ g.n = h.n /\ g.op = h.op /\ g.at = place /\ g.want = want /\ g.word = word
<1>1. h \in [n : Requests, op : Ops, at : Places, want : Ops, word : Words]
  BY HandlerIs
<1> QED
  BY <1>1, EntryAssumption DEF Onwards, Handlers, Idle

(* The handler of hop k goes on to a place, with a question and an answer. *)
GoesOn(k, place, want, word) ==
  /\ run' \in [Hops -> Handlers]
  /\ run'[k] # Idle
  /\ run'[k].n = run[k].n /\ run'[k].op = run[k].op
  /\ run'[k].at = place /\ run'[k].want = want /\ run'[k].word = word
  /\ \A j \in Hops : j # k => run'[j] = run[j]
  /\ caller' = caller

LEMMA BecomesGoesOn ==
  ASSUME run \in [Hops -> Handlers], NEW k \in Hops, run[k] # Idle,
         NEW place \in Places, NEW want \in Ops, NEW word \in Words,
         Becomes(k, place, want, word)
  PROVE  GoesOn(k, place, want, word)
<1> DEFINE g == Onwards(run[k], place, want, word)
<1>1. /\ g \in Handlers /\ g # Idle
      /\ g.n = run[k].n /\ g.op = run[k].op /\ g.at = place /\ g.want = want /\ g.word = word
  BY OnwardsIs
<1>2. run' = [run EXCEPT ![k] = g] /\ caller' = caller
  BY DEF Becomes
<1> HIDE DEF g
<1> QED
  BY <1>1, <1>2 DEF GoesOn

LEMMA GoGoesOn ==
  ASSUME run \in [Hops -> Handlers], NEW k \in Hops, run[k] # Idle
  PROVE  /\ run[k].want \in Ops /\ run[k].word \in Words /\ run[k].op \in Ops
         /\ \A place \in Places : Go(k, place) => GoesOn(k, place, run[k].want, run[k].word)
         /\ \A op \in Ops : Ask(k, op) => GoesOn(k, "ask", op, run[k].word)
         /\ \A word \in Words : Hear(k, word) => GoesOn(k, "heard", run[k].want, word)
<1>1. run[k].want \in Ops /\ run[k].word \in Words /\ run[k].op \in Ops
  BY HandlerIs
<1>2. "ask" \in Places /\ "heard" \in Places
  BY DEF Places
<1> QED
  BY <1>1, <1>2, BecomesGoesOn DEF Go, Ask, Hear

(* A reply frees the hop, and reaches the next hop inwards if its handler  *)
(* still waits for it, or the caller.                                      *)
Home(k) == run[k].op = "navigate" /\ Entry[run[k].n] = k
HearsOf(j, k, word) ==
  /\ j + 1 = k /\ ~ Home(k)
  /\ run[j] # Idle /\ run[j].n = run[k].n /\ run[j].at = "await" /\ run[j].want = run[k].op
  /\ run'[j] # Idle /\ run'[j].n = run[j].n /\ run'[j].op = run[j].op
  /\ run'[j].at = "heard" /\ run'[j].want = run[j].want /\ run'[j].word = word
Replied(k, word) ==
  /\ run' \in [Hops -> Handlers]
  /\ run'[k] = Idle
  /\ \A j \in Hops : j # k => run'[j] = run[j] \/ HearsOf(j, k, word)
  /\ caller' = [n \in Requests |-> caller'[n]]
  /\ \A n \in Requests :
       \/ caller'[n] = caller[n]
       \/ caller[n] = "waiting" /\ caller'[n] = word /\ n = run[k].n /\ Home(k)

LEMMA ReplyReplies ==
  ASSUME run \in [Hops -> Handlers], NEW k \in Hops, run[k] # Idle, NEW word \in Words, Reply(k, word)
  PROVE  Replied(k, word)
<1> DEFINE g(j) == Onwards(run[j], "heard", run[j].want, word)
           R(j) == IF j = k THEN Idle
                   ELSE IF j + 1 = k /\ ~ Home(k) /\ Waits(j, run[k]) THEN g(j)
                        ELSE run[j]
<1>1. run' = [j \in Hops |-> R(j)]
  BY DEF Reply, Home
<1>2. ASSUME NEW j \in Hops, j # k, R(j) # run[j]
      PROVE  R(j) \in Handlers /\ (run'[j] = R(j) => HearsOf(j, k, word))
  <2>1. R(j) = g(j) /\ j + 1 = k /\ ~ Home(k) /\ Waits(j, run[k])
    BY <1>2
  <2>2. run[j] # Idle /\ run[j].at = "await" /\ run[j].n = run[k].n /\ run[j].want = run[k].op
    BY <2>1 DEF Waits, At
  <2>3. run[j] \in Handlers /\ run[j].want \in Ops /\ "heard" \in Places
    BY <2>2, GoGoesOn DEF Places
  <2>4. /\ g(j) \in Handlers /\ g(j) # Idle
        /\ g(j).n = run[j].n /\ g(j).op = run[j].op
        /\ g(j).at = "heard" /\ g(j).want = run[j].want /\ g(j).word = word
    BY <2>2, <2>3, OnwardsIs
  <2> QED
    BY <2>1, <2>2, <2>4 DEF HearsOf
<1>3. Idle \in Handlers
  BY DEF Handlers
<1>4. ASSUME NEW j \in Hops
      PROVE  R(j) \in Handlers
  <2>1. CASE j = k
    BY <2>1, <1>3
  <2>2. CASE j # k /\ R(j) = run[j]
    BY <2>2
  <2>3. CASE j # k /\ R(j) # run[j]
    BY <2>3, <1>2
  <2> QED
    BY <2>1, <2>2, <2>3
<1>5. /\ run' \in [Hops -> Handlers]
      /\ run'[k] = Idle
      /\ \A j \in Hops : run'[j] = R(j)
  <2> HIDE DEF R
  <2>1. run' \in [Hops -> Handlers] /\ \A j \in Hops : run'[j] = R(j)
    BY <1>1, <1>4
  <2> QED
    BY <2>1 DEF R
<1>6. /\ caller' = [n \in Requests |-> caller'[n]]
      /\ \A n \in Requests :
           \/ caller'[n] = caller[n]
           \/ caller[n] = "waiting" /\ caller'[n] = word /\ n = run[k].n /\ Home(k)
  <2>1. caller' = [n \in Requests |->
                     IF Home(k) /\ n = run[k].n /\ caller[n] = "waiting" THEN word ELSE caller[n]]
    BY DEF Reply, Home
  <2> QED
    BY <2>1
<1>7. \A j \in Hops : j # k => run'[j] = run[j] \/ HearsOf(j, k, word)
  <2> HIDE DEF R
  <2> QED
    BY <1>2, <1>5
<1> QED
  BY <1>5, <1>6, <1>7 DEF Replied
-----------------------------------------------------------------------------
(* Most steps are calm: no message is sent or given its turn, and a        *)
(* handler goes on without spreading its request.                          *)

Setting(h) == \/ h.op = "commit" /\ h.at = "start"
              \/ h.at = "emit"
              \/ h.at = "ask" /\ h.want = "commit"
Follows(h, g) ==
  /\ h # Idle /\ g # Idle /\ g.n = h.n /\ g.op = h.op
  /\ Settled(h) => Settled(g)
  /\ PassedOn(h) => PassedOn(g)
  /\ Executing(h) => Executing(g)
  /\ HoldsOn(h) => HoldsOn(g)
  /\ g.at = "await" => g = h
Calm ==
  /\ \A k \in Hops : queue'[k] = queue[k] \/ queue'[k] = <<>>
  /\ \A k \in Hops : run'[k] = Idle \/ Follows(run[k], run'[k])
  /\ \A k \in Hops : run'[k] # Idle /\ Leads(run'[k]) => Leads(run[k]) \/ SilentBeyond(k, run[k].n)'

LEMMA CalmStaysSilent ==
  ASSUME Calm, NEW k \in Hops, NEW n \in Requests
  PROVE  /\ NoneQueued(k, n) => NoneQueued(k, n)'
         /\ Silent(k, n) => Silent(k, n)'
         /\ NoAbort(k, n) => NoAbort(k, n)'
         /\ Cleared(k, n) => Cleared(k, n)'
<1>1. run'[k].n = n => run[k].n = n /\ run'[k].op = run[k].op /\ (Settled(run[k]) => Settled(run'[k]))
  BY EntryAssumption DEF Calm, Follows, Idle
<1>2. queue'[k] = queue[k] \/ queue'[k] = <<>>
  BY DEF Calm
<1>3. queue'[k] = <<>> => 1 .. Len(queue'[k]) = {}
  OBVIOUS
<1>4. NoneQueued(k, n) => NoneQueued(k, n)'
  BY <1>2, <1>3 DEF NoneQueued, Slots
<1> QED
  BY <1>1, <1>2, <1>3, <1>4 DEF Silent, NoAbort, Cleared, Slots

LEMMA CalmStaysCleared ==
  ASSUME Calm, NEW n \in Requests
  PROVE  /\ \A k \in Hops : SilentBeyond(k, n) => SilentBeyond(k, n)'
         /\ \A k \in Nat : ClearedBelow(k, n) => ClearedBelow(k, n)'
         /\ AllCleared(n) => AllCleared(n)'
BY CalmStaysSilent DEF SilentBeyond, ClearedBelow, AllCleared

LEMMA CalmFrontier ==
  ASSUME PathTypeOK, FrontierInv, Calm, run' \in [Hops -> Handlers]
  PROVE  FrontierInv'
<1>1. ASSUME NEW k \in Hops, NEW i \in Slots(k)'
      PROVE  /\ queue'[k] = queue[k] /\ i \in Slots(k)
             /\ queue[k][i] \in Messages
  <2>1. queue'[k] = queue[k]
    BY <1>1 DEF Calm, Slots
  <2> QED
    BY <1>1, <2>1 DEF Slots, PathTypeOK
<1>2. ASSUME NEW k \in Hops, run'[k] # Idle
      PROVE  run[k] # Idle /\ run'[k].n = run[k].n /\ run[k].n \in Requests
  BY <1>2, HandlerIs DEF Calm, Follows, PathTypeOK
<1>3. (\A k \in Hops : \A i, j \in Slots(k) :
        i < j /\ queue[k][i].n = queue[k][j].n => queue[k][j].op = "abort")'
  BY <1>1 DEF FrontierInv
<1>4. (\A k \in Hops : \A i \in Slots(k) :
        queue[k][i].n = run[k].n => queue[k][i].op = "abort")'
  <2> SUFFICES ASSUME NEW k \in Hops, NEW i \in Slots(k)', queue'[k][i].n = run'[k].n
               PROVE  queue'[k][i].op = "abort"
    OBVIOUS
  <2>1. queue[k][i].n \in Requests
    BY <1>1 DEF Messages
  <2>2. run'[k] # Idle
    BY <1>1, <2>1, EntryAssumption DEF Idle
  <2> QED
    BY <1>1, <1>2, <2>2 DEF FrontierInv
<1>5. (\A k \in Hops : \A i \in Slots(k) :
        queue[k][i].op # "abort" => SilentBeyond(k, queue[k][i].n))'
  BY <1>1, CalmStaysCleared DEF FrontierInv, Messages
<1>6. (\A k \in Hops : run[k] # Idle /\ Leads(run[k]) => SilentBeyond(k, run[k].n))'
  BY <1>2, CalmStaysCleared DEF FrontierInv, Calm
<1>7. (\A k \in Hops : run[k] # Idle /\ run[k].at = "await" /\ run[k].want = "prepare" /\ k < N
        => NoAbort(k + 1, run[k].n))'
  <2> SUFFICES ASSUME NEW k \in Hops, run'[k] # Idle, run'[k].at = "await", run'[k].want = "prepare", k < N
               PROVE  NoAbort(k + 1, run[k].n)'
    OBVIOUS
  <2>1. run'[k] = run[k]
    BY DEF Calm, Follows
  <2>2. NoAbort(k + 1, run[k].n) /\ k + 1 \in Hops
    BY <2>1, HopsAssumption DEF FrontierInv, Hops
  <2> QED
    BY <1>2, <2>1, <2>2, CalmStaysSilent
<1> QED
  BY <1>3, <1>4, <1>5, <1>6, <1>7 DEF FrontierInv

(* A calm step, layer by layer.  What a step must add is what its          *)
(* hypotheses ask of the variables that Calm leaves open.                  *)
SamePhaseOf(n) ==
  /\ exec'[n] = exec[n]
  /\ caller'[n] = "idle" => caller[n] = "idle"
  /\ \A k \in Hops : run'[k] # Idle /\ run'[k].n = n /\ Navigating(run[k]) => Navigating(run'[k])
  /\ \A k \in Hops :
       exec[n] = 0 => key'[k][n] = key[k][n] /\ dir'[k][n] = dir[k][n] /\ receipt'[k][n] = receipt[k][n]
SamePhase == \A n \in Requests : SamePhaseOf(n)

LEMMA CalmShapeOf ==
  ASSUME NEW n \in Requests, ShapeOf(n), Calm, SamePhaseOf(n)
  PROVE  ShapeOf(n)'
<1>1. ASSUME NEW k \in Hops, NEW i \in Slots(k)'
      PROVE  queue'[k] = queue[k] /\ i \in Slots(k)
  BY <1>1 DEF Calm, Slots
<1>2. ASSUME NEW k \in Hops, run'[k].n = n
      PROVE  run'[k] # Idle /\ run[k].n = n /\ Follows(run[k], run'[k])
  BY <1>2, EntryAssumption DEF Calm, Follows, Idle
<1>3. ASSUME exec[n] = 0, BeforeExec(n)
      PROVE  BeforeExec(n)'
  BY <1>1, <1>2, <1>3 DEF BeforeExec, SamePhaseOf
<1>4. ASSUME AfterExec(n)
      PROVE  AfterExec(n)'
  <2>1. exec'[n] = exec[n]
    BY DEF SamePhaseOf
  <2>2. \A k \in Hops : \A i \in Slots(k)' : queue'[k][i].n = n => queue'[k][i].op # "navigate" /\ k > exec[n]
    BY <1>1, <1>4 DEF AfterExec
  <2>3. \A k \in Hops : run'[k].n = n =>
          /\ k < exec[n] => PassedOn(run'[k])
          /\ k = exec[n] => Executing(run'[k])
          /\ k > exec[n] => run'[k].op # "navigate"
    BY <1>2, <1>4 DEF AfterExec, Follows
  <2> QED
    BY <2>1, <2>2, <2>3 DEF AfterExec
<1> QED
  BY <1>3, <1>4, CalmStaysSilent DEF ShapeOf, SamePhaseOf, Tmux

LEMMA CalmShape ==
  ASSUME ShapeInv, Calm, SamePhase
  PROVE  ShapeInv'
BY CalmShapeOf DEF ShapeInv, SamePhase

(* At most one key of a request is on its way, and a step that writes it   *)
(* to another place does so when nothing else of the request goes on.      *)
AnswerMoves(n) ==
  \/ \A k \in Hops : Answering(k, n)' => Answering(k, n)
  \/ \E j \in Hops : /\ \A k \in Hops : Answering(k, n)' => k = j
                     /\ AllCleared(n)'
                     /\ Tmux(j) /\ exec[n] # 0 /\ exec[n] <= j /\ n \in asked'

LEMMA CalmCommit ==
  ASSUME PathTypeOK, CommitInv, Calm,
         \A n \in Requests : AnswerMoves(n),
         \A n \in Requests : exec[n] # 0 => exec'[n] = exec[n],
         asked \subseteq asked'
  PROVE  CommitInv'
<1>1. ASSUME NEW k \in Hops, NEW i \in Slots(k)'
      PROVE  queue'[k] = queue[k] /\ i \in Slots(k) /\ queue[k][i] \in Messages
  <2>1. queue'[k] = queue[k]
    BY <1>1 DEF Calm, Slots
  <2> QED
    BY <1>1, <2>1 DEF Slots, PathTypeOK
<1>2. (\A k \in Hops : \A i \in Slots(k) :
        queue[k][i].op = "commit" =>
          /\ ClearedBelow(k, queue[k][i].n)
          /\ \A j \in Slots(k) : queue[k][j].n = queue[k][i].n => j = i)'
  BY <1>1, CalmStaysCleared DEF CommitInv, Messages, Hops
<1>3. (\A k \in Hops :
        run[k] # Idle /\ run[k].op = "commit" => ClearedBelow(k, run[k].n) /\ NoneQueued(k, run[k].n))'
  <2> SUFFICES ASSUME NEW k \in Hops, run'[k] # Idle, run'[k].op = "commit"
               PROVE  (ClearedBelow(k, run[k].n) /\ NoneQueued(k, run[k].n))'
    OBVIOUS
  <2>1. run[k] # Idle /\ run'[k].n = run[k].n /\ run[k].op = "commit" /\ run[k].n \in Requests
    BY HandlerIs DEF Calm, Follows, PathTypeOK
  <2>2. ClearedBelow(k, run[k].n) /\ NoneQueued(k, run[k].n)
    BY <2>1 DEF CommitInv
  <2> QED
    BY <2>1, <2>2, CalmStaysCleared, CalmStaysSilent DEF Hops
<1>4. ASSUME NEW n \in Requests
      PROVE  (/\ \A k, j \in Hops : Answering(k, n) /\ Answering(j, n) => k = j
              /\ \A k \in Hops :
                   Answering(k, n) => AllCleared(n) /\ Tmux(k) /\ exec[n] # 0 /\ exec[n] <= k /\ n \in asked)'
  <2>1. CASE \A k \in Hops : Answering(k, n)' => Answering(k, n)
    BY <2>1, CalmStaysCleared DEF CommitInv, Tmux
  <2>2. CASE \E j \in Hops : /\ \A k \in Hops : Answering(k, n)' => k = j
                            /\ AllCleared(n)'
                            /\ Tmux(j) /\ exec[n] # 0 /\ exec[n] <= j /\ n \in asked'
    BY <2>2 DEF Tmux
  <2> QED
    BY <2>1, <2>2 DEF AnswerMoves
<1> QED
  BY <1>2, <1>3, <1>4 DEF CommitInv

LEMMA CalmStore ==
  ASSUME StoreInv, Calm,
         \A k \in Hops, n \in Requests :
           /\ dir'[k][n] # "absent" => dir[k][n] # "absent" /\ k \notin poison'
           /\ receipt'[k][n] # "none" => receipt[k][n] # "none" \/ dir'[k][n] = "absent"
           /\ dir'[k][n] = "claimed" => dir[k][n] = "claimed" \/ AllCleared(n)
           /\ dir'[k][n] = "ready" /\ k \in alive' => run'[k].n = n /\ HoldsOn(run'[k])
           /\ run'[k] # Idle /\ Committed(run'[k]) /\ dir'[k][n] # "absent" => n = run'[k].n
  PROVE  StoreInv'
BY CalmStaysCleared DEF StoreInv, Tmux

(* A directive that a commit further out relies on stays, or its client is *)
(* poisoned.                                                               *)
Holding(h) == Settled(h) \/ h.at = "emit" \/ (h.at = "ask" /\ h.want = "commit")
Keeps(j, n) ==
  (dir[j][n] = "ready" \/ j \in poison) /\ (run[j].n = n => Holding(run[j]))
    => dir'[j][n] = "ready" \/ j \in poison'

LEMMA KeepsReady ==
  ASSUME NEW n \in Requests, \A j \in Hops : Keeps(j, n), exec[n] <= exec'[n], exec[n] \in 0 .. N, exec'[n] \in 0 .. N,
         NEW k \in 1 .. N + 1, ReadyBelow(k, n),
         \A j \in Hops : exec[n] <= j /\ j < k /\ run[j].n = n => Holding(run[j])
  PROVE  ReadyBelow(k, n)'
<1> SUFFICES ASSUME NEW j \in Hops, exec'[n] <= j, j < k, Tmux(j)
             PROVE  dir'[j][n] = "ready" \/ j \in poison'
  BY DEF ReadyBelow, Tmux
<1>1. exec[n] <= j
  BY HopsAssumption DEF Hops
<1> QED
  BY <1>1 DEF ReadyBelow, Keeps

LEMMA CalmReady ==
  ASSUME PathTypeOK, PathTypeOK', ShapeInv, CommitInv, ReadyInv, Calm,
         \A n \in Requests : exec[n] <= exec'[n],
         \A n \in Requests : (\A j \in Hops : Keeps(j, n)) \/ (AllCleared(n) /\ \A k \in Hops : KeyFine(k, n)'),
         \A k \in Hops : run'[k] # Idle /\ Setting(run'[k]) =>
            \/ run'[k] = run[k]
            \/ ~ (run'[k].op = "commit" /\ run'[k].at = "start") /\ ReadyBelow(k + 1, run[k].n)',
         \A k \in Hops, n \in Requests :
            (key'[k][n] = key[k][n] /\ target'[k][n] = target[k][n]) \/ KeyFine(k, n)'
  PROVE  ReadyInv'
<1> USE HopsAssumption DEF Hops
<1>1. ASSUME NEW k \in Hops, NEW i \in Slots(k)'
      PROVE  queue'[k] = queue[k] /\ i \in Slots(k) /\ queue[k][i] \in Messages
  <2>1. queue'[k] = queue[k]
    BY <1>1 DEF Calm, Slots
  <2> QED
    BY <1>1, <2>1 DEF Slots, PathTypeOK
<1>2. \A n \in Requests : exec[n] \in 0 .. N /\ exec'[n] \in 0 .. N
  BY DEF PathTypeOK
<1>3. ASSUME NEW k \in Hops, NEW i \in Slots(k)', queue'[k][i].op = "commit"
      PROVE  ReadyBelow(k, queue[k][i].n)'
  <2> PICK n \in Requests : n = queue[k][i].n
    BY <1>1 DEF Messages
  <2>1. n \in Requests /\ ReadyBelow(k, n) /\ ClearedBelow(k, n) /\ ~ AllCleared(n)
    BY <1>1, <1>3 DEF ReadyInv, CommitInv, Messages, AllCleared, Cleared, NoneQueued
  <2>2. \A j \in Hops : j < k /\ run[j].n = n => Holding(run[j])
    BY <2>1 DEF ClearedBelow, Cleared, Holding
  <2>3. ReadyBelow(k, n)'
    BY <1>2, <2>1, <2>2, KeepsReady
  <2> QED
    BY <1>1, <2>3
<1>4. ASSUME NEW k \in Hops, run'[k] # Idle, run'[k].op = "commit", run'[k].at = "start"
      PROVE  ReadyBelow(k, run[k].n)' /\ run'[k].n = run[k].n
  <2>1. run'[k] = run[k]
    BY <1>4 DEF Setting
  <2> PICK n \in Requests : n = run[k].n
    BY <1>4, <2>1, HandlerIs DEF PathTypeOK
  <2>2. n \in Requests /\ ReadyBelow(k, n) /\ ClearedBelow(k, n) /\ ~ AllCleared(n)
    BY <1>4, <2>1, HandlerIs DEF ReadyInv, CommitInv, AllCleared, Cleared, Settled, PathTypeOK
  <2>3. \A j \in Hops : j < k /\ run[j].n = n => Holding(run[j])
    BY <2>2 DEF ClearedBelow, Cleared, Holding
  <2>4. ReadyBelow(k, n)'
    BY <1>2, <2>2, <2>3, KeepsReady
  <2> QED
    BY <2>1, <2>4
<1>5. ASSUME NEW k \in Hops, run'[k] # Idle, run'[k].at = "emit" \/ (run'[k].at = "ask" /\ run'[k].want = "commit")
      PROVE  ReadyBelow(k + 1, run[k].n)' /\ run'[k].n = run[k].n
  <2> PICK n \in Requests : n = run[k].n
    BY <1>5, HandlerIs DEF Calm, Follows, PathTypeOK
  <2>1. run'[k].n = run[k].n /\ run[k] # Idle /\ n \in Requests
    BY <1>5 DEF Calm, Follows
  <2>2. CASE run'[k] # run[k]
    BY <1>5, <2>1, <2>2 DEF Setting
  <2>3. CASE run'[k] = run[k]
    <3>1. ReadyBelow(k + 1, n) /\ ~ AllCleared(n)
      BY <1>5, <2>1, <2>3 DEF ReadyInv, AllCleared, Cleared, Settled
    <3>2. ASSUME NEW j \in Hops, exec[n] <= j, j < k + 1, run[j].n = n
          PROVE  Holding(run[j])
      <4>1. CASE j = k
        BY <1>5, <2>3, <4>1 DEF Holding
      <4>2. CASE j # k /\ run[k].op = "commit"
        <5>1. ClearedBelow(k, n)
          BY <2>1, <4>2 DEF CommitInv
        <5> QED
          BY <3>2, <4>2, <5>1 DEF ClearedBelow, Cleared, Holding
      <4>3. CASE j # k /\ run[k].op # "commit"
        <5>1. run[k].op = "navigate" /\ ~ Navigating(run[k]) /\ ~ PassedOn(run[k])
          BY <1>5, <2>1, <2>3, <4>3, HandlerIs DEF PathTypeOK, WellFormed, Asking, Navigating, PassedOn, Ops
        <5>2. exec[n] # 0 /\ AfterExec(n)
          BY <2>1, <5>1 DEF ShapeInv, ShapeOf, BeforeExec
        <5>3. ~ (k < exec[n]) /\ ~ (k > exec[n])
          BY <5>1, <5>2 DEF AfterExec
        <5>4. exec[n] = k
          BY <1>2, <2>1, <5>3
        <5> QED
          BY <3>2, <4>3, <5>4
      <4> QED
        BY <4>1, <4>2, <4>3
    <3>3. ReadyBelow(k + 1, n)'
      BY <1>2, <2>1, <3>1, <3>2, KeepsReady
    <3> QED
      BY <2>1, <3>3
  <2> QED
    BY <2>2, <2>3
<1>6. ASSUME NEW k \in Hops, NEW n \in Requests
      PROVE  KeyFine(k, n)'
  <2>1. CASE KeyFine(k, n)'
    BY <2>1
  <2>2. CASE /\ \A j \in Hops : Keeps(j, n)
             /\ key'[k][n] = key[k][n] /\ target'[k][n] = target[k][n]
    <3>1. KeyFine(k, n)
      BY DEF ReadyInv
    <3>2. ASSUME Answering(k, n), NEW i \in 1 .. N + 1, ReadyBelow(i, n)
          PROVE  ReadyBelow(i, n)'
      <4>1. \A j \in Hops : run[j].n = n => Holding(run[j])
        BY <3>2 DEF CommitInv, AllCleared, Cleared, Holding
      <4> QED
        BY <1>2, <2>2, <3>2, <4>1, KeepsReady
    <3>3. k \in 1 .. N + 1 /\ k + 1 \in 1 .. N + 1
      OBVIOUS
    <3> QED
      BY <2>2, <3>1, <3>2, <3>3 DEF KeyFine, Answering
  <2> QED
    BY <2>1, <2>2
<1> QED
  BY <1>1, <1>3, <1>4, <1>5, <1>6 DEF ReadyInv

LEMMA CalmUser ==
  ASSUME UserInv, Calm,
         \A n \in Requests :
           /\ caller'[n] = "idle" => caller[n] = "idle"
           /\ moves'[n] = moves[n]
           /\ (\A k \in Hops : Answering(k, n)' => Answering(k, n)) \/ ~ AllCleared(n)
           /\ Told(n, "armed")' => Told(n, "armed") \/ moves[n] = 1
           /\ Told(n, "declined")' => Told(n, "declined") \/ (moves[n] = 0 /\ Spent(n)')
           /\ \A k \in Hops :
                /\ exec'[n] = k /\ receipt'[k][n] = "handled" => exec[n] = k /\ receipt[k][n] = "handled"
                /\ run'[k].n = n /\ run'[k].at = "dispatched" => n \in asked'
  PROVE  UserInv'
<1> SUFFICES ASSUME NEW n \in Requests
             PROVE  (/\ moves[n] \in {0, 1}
                     /\ moves[n] = 1 => Spent(n)
                     /\ Told(n, "armed") => moves[n] = 1
                     /\ Told(n, "declined") => moves[n] = 0 /\ Spent(n)
                     /\ \A k \in Hops :
                          /\ exec[n] = k /\ receipt[k][n] = "handled" => moves[n] = 1
                          /\ run[k].n = n /\ run[k].at = "dispatched" => n \in asked)'
  BY DEF UserInv
<1>1. Spent(n) => Spent(n)'
  BY CalmStaysCleared DEF Spent
<1>2. moves'[n] = moves[n]
  OBVIOUS
<1>3. (Told(n, "armed") => moves[n] = 1)' /\ (Told(n, "declined") => moves[n] = 0 /\ Spent(n))'
  BY <1>1, <1>2 DEF UserInv
<1> QED
  BY <1>1, <1>2, <1>3 DEF UserInv
-----------------------------------------------------------------------------
(* Steps that only talk: a handler goes on or replies, and neither a store *)
(* nor a key changes, except that a receipt may be taken.                  *)

Quiet(k, h, g) ==
  /\ Committed(g) => Committed(h) \/ ~ Tmux(k)
  /\ Setting(g) => g = h \/ (h.op = "commit" /\ h.at = "start" /\ g.at = "ask" /\ ~ Tmux(k))
  /\ Navigating(h) => Navigating(g)

LEMMA TalkLayers ==
  ASSUME PathInv, PathTypeOK', Calm,
         UNCHANGED <<dir, poison, exec, key, target>>,
         asked \subseteq asked', alive' \subseteq alive,
         \A n \in Requests : caller'[n] = "idle" => caller[n] = "idle",
         \A k \in Hops, n \in Requests : receipt'[k][n] \in {receipt[k][n], "none"},
         \A k \in Hops : run'[k] # Idle => Quiet(k, run[k], run'[k]),
         \A k \in Hops :
           run'[k] = Idle /\ run[k] # Idle /\ HoldsOn(run[k]) => k \notin alive' \/ dir[k][run[k].n] # "ready"
  PROVE  FrontierInv' /\ ShapeInv' /\ CommitInv' /\ StoreInv' /\ ReadyInv'
<1> USE DEF PathInv
<1>1. run' \in [Hops -> Handlers]
  BY DEF PathTypeOK
<1>2. FrontierInv'
  BY <1>1, CalmFrontier
<1>3. SamePhase
  BY DEF SamePhase, SamePhaseOf, Quiet, ShapeInv, ShapeOf, BeforeExec
<1>4. ShapeInv'
  BY <1>3, CalmShape
<1>5. \A n \in Requests : \A k \in Hops : Answering(k, n)' => Answering(k, n)
  BY DEF Answering
<1>6. CommitInv'
  BY <1>5, CalmCommit DEF AnswerMoves
<1>7. StoreInv'
  <2> SUFFICES ASSUME NEW k \in Hops, NEW n \in Requests
               PROVE  /\ dir'[k][n] # "absent" => dir[k][n] # "absent" /\ k \notin poison'
                      /\ receipt'[k][n] # "none" => receipt[k][n] # "none" \/ dir'[k][n] = "absent"
                      /\ dir'[k][n] = "claimed" => dir[k][n] = "claimed" \/ AllCleared(n)
                      /\ dir'[k][n] = "ready" /\ k \in alive' => run'[k].n = n /\ HoldsOn(run'[k])
                      /\ run'[k] # Idle /\ Committed(run'[k]) /\ dir'[k][n] # "absent" => n = run'[k].n
    BY CalmStore
  <2>1. dir[k][n] # "absent" => k \notin poison /\ Tmux(k)
    BY DEF StoreInv
  <2>2. dir[k][n] = "ready" /\ k \in alive' => run'[k].n = n /\ HoldsOn(run'[k])
    <3> SUFFICES ASSUME dir[k][n] = "ready", k \in alive'
                 PROVE  run'[k].n = n /\ HoldsOn(run'[k])
      OBVIOUS
    <3>1. run[k].n = n /\ HoldsOn(run[k]) /\ run[k] # Idle
      BY EntryAssumption DEF StoreInv, Idle
    <3>2. run'[k] # Idle
      BY <3>1
    <3> QED
      BY <3>1, <3>2 DEF Calm, Follows
  <2>3. run'[k] # Idle /\ Committed(run'[k]) /\ dir[k][n] # "absent" => n = run'[k].n
    <3> SUFFICES ASSUME run'[k] # Idle, Committed(run'[k]), dir[k][n] # "absent"
                 PROVE  n = run'[k].n
      OBVIOUS
    <3>1. Committed(run[k]) /\ run[k] # Idle /\ run'[k].n = run[k].n
      BY <2>1 DEF Quiet, Calm, Follows
    <3> QED
      BY <3>1 DEF StoreInv
  <2> QED
    BY <2>1, <2>2, <2>3
<1>8. ReadyInv'
  <2>1. \A n \in Requests : exec[n] <= exec'[n]
    BY HopsAssumption DEF PathTypeOK
  <2>2. \A n \in Requests, j \in Hops : Keeps(j, n)
    BY DEF Keeps
  <2>3. ASSUME NEW k \in Hops, run'[k] # Idle, Setting(run'[k]), run'[k] # run[k]
        PROVE  ~ (run'[k].op = "commit" /\ run'[k].at = "start") /\ ReadyBelow(k + 1, run[k].n)'
    <3> PICK n \in Requests : n = run[k].n
      BY <1>1, <2>3, HandlerIs DEF Calm, Follows, PathTypeOK
    <3>1. run[k] # Idle /\ run'[k].n = n /\ run[k].op = "commit" /\ run[k].at = "start" /\ run'[k].at = "ask" /\ ~ Tmux(k)
      BY <2>3 DEF Quiet, Calm, Follows
    <3>2. ReadyBelow(k, n)
      BY <3>1 DEF ReadyInv
    <3>3. ReadyBelow(k + 1, n)'
      BY <3>1, <3>2, HopsAssumption DEF ReadyBelow, Hops, Tmux
    <3> QED
      BY <3>1, <3>3
  <2> QED
    BY <2>1, <2>2, <2>3, CalmReady
<1> QED
  BY <1>2, <1>4, <1>6, <1>7, <1>8

LEMMA TalkKeeps ==
  ASSUME PathInv, PathTypeOK', Calm,
         UNCHANGED <<dir, poison, exec, key, target, moves>>,
         asked \subseteq asked', alive' \subseteq alive,
         \A n \in Requests : caller'[n] = "idle" => caller[n] = "idle",
         \A k \in Hops, n \in Requests : receipt'[k][n] \in {receipt[k][n], "none"},
         \A k \in Hops : run'[k] # Idle => Quiet(k, run[k], run'[k]),
         \A k \in Hops :
           run'[k] = Idle /\ run[k] # Idle /\ HoldsOn(run[k]) => k \notin alive' \/ dir[k][run[k].n] # "ready",
         \A n \in Requests :
           /\ Told(n, "armed")' => Told(n, "armed") \/ moves[n] = 1
           /\ Told(n, "declined")' => Told(n, "declined") \/ (moves[n] = 0 /\ Spent(n)'),
         \A k \in Hops, n \in Requests : run'[k].n = n /\ run'[k].at = "dispatched" => n \in asked'
  PROVE  PathInv'
<1> USE DEF PathInv
<1>1. FrontierInv' /\ ShapeInv' /\ CommitInv' /\ StoreInv' /\ ReadyInv'
  BY TalkLayers
<1>2. \A n \in Requests : \A k \in Hops : Answering(k, n)' => Answering(k, n)
  BY DEF Answering
<1>3. \A k \in Hops, n \in Requests :
        exec'[n] = k /\ receipt'[k][n] = "handled" => exec[n] = k /\ receipt[k][n] = "handled"
  OBVIOUS
<1>4. UserInv'
  BY <1>2, <1>3, CalmUser
<1> QED
  BY <1>1, <1>4

LEMMA GoesOnTypes ==
  ASSUME PathTypeOK, NEW k \in Hops, NEW place, NEW want, NEW word,
         GoesOn(k, place, want, word), WellFormed(k, run'[k])
  PROVE  /\ run' \in [Hops -> Handlers]
         /\ caller' \in [Requests -> {"idle", "waiting", "armed", "declined", "error"}]
         /\ \A j \in Hops : run'[j] # Idle => WellFormed(j, run'[j])
BY DEF GoesOn, PathTypeOK

LEMMA GoesOnCalm ==
  ASSUME PathTypeOK, NEW k \in Hops, NEW place, NEW want, NEW word,
         GoesOn(k, place, want, word), UNCHANGED queue,
         Follows(run[k], run'[k]), Leads(run'[k]) => Leads(run[k])
  PROVE  Calm
<1>1. \A j \in Hops : run'[j] = Idle \/ Follows(run[j], run'[j])
  BY DEF GoesOn, Follows
<1> QED
  BY <1>1 DEF GoesOn, Calm

LEMMA RepliedTypes ==
  ASSUME PathTypeOK, NEW k \in Hops, NEW word \in Words, Replied(k, word),
         run[k].op = "navigate" => word \in {"armed", "declined", "error"}
  PROVE  /\ run' \in [Hops -> Handlers]
         /\ caller' \in [Requests -> {"idle", "waiting", "armed", "declined", "error"}]
         /\ \A j \in Hops : run'[j] # Idle => WellFormed(j, run'[j])
<1>1. ASSUME NEW j \in Hops, run'[j] # Idle
      PROVE  WellFormed(j, run'[j])
  <2>1. CASE run'[j] = run[j]
    BY <1>1, <2>1 DEF PathTypeOK
  <2>2. CASE HearsOf(j, k, word)
    <3>1. WellFormed(j, run[j])
      BY <2>2 DEF HearsOf, PathTypeOK
    <3> QED
      BY <2>2, <3>1 DEF HearsOf, WellFormed, Asking
  <2> QED
    BY <1>1, <2>1, <2>2 DEF Replied
<1>2. caller' \in [Requests -> {"idle", "waiting", "armed", "declined", "error"}]
  BY DEF Replied, Home, PathTypeOK
<1> QED
  BY <1>1, <1>2 DEF Replied

LEMMA RepliedCalm ==
  ASSUME PathTypeOK, FrontierInv, NEW k \in Hops, run[k] # Idle, NEW word \in Words, Replied(k, word),
         UNCHANGED queue,
         word = "prepared" /\ run[k].op = "prepare" => Leads(run[k])
  PROVE  /\ Calm
         /\ \A j \in Hops : run'[j] # Idle => Quiet(j, run[j], run'[j])
         /\ \A n \in Requests : caller'[n] = "idle" => caller[n] = "idle"
         /\ \A j \in Hops, n \in Requests : run'[j].n = n /\ run'[j].at = "dispatched" => run'[j] = run[j]
         /\ \A j \in Hops : j # k /\ run[j] # Idle => run'[j] # Idle
<1>1. \A j \in Hops : run'[j] = Idle \/ Follows(run[j], run'[j])
  <2> SUFFICES ASSUME NEW j \in Hops, run'[j] # Idle
               PROVE  Follows(run[j], run'[j])
    OBVIOUS
  <2>1. CASE run'[j] = run[j]
    BY <2>1 DEF Follows
  <2>2. CASE HearsOf(j, k, word)
    <3>1. WellFormed(j, run[j])
      BY <2>2 DEF HearsOf, PathTypeOK
    <3> QED
      BY <2>2, <3>1 DEF HearsOf, Follows, Settled, PassedOn, Executing, HoldsOn, Committed, Asking, WellFormed
  <2> QED
    BY <2>1, <2>2 DEF Replied
<1>2. ASSUME NEW j \in Hops, run'[j] # Idle, Leads(run'[j]), ~ Leads(run[j])
      PROVE  SilentBeyond(j, run[j].n)'
  <2> PICK n \in Requests : n = run[k].n
    BY HandlerIs DEF PathTypeOK
  <2>1. HearsOf(j, k, word)
    BY <1>2 DEF Replied
  <2>2. word = "prepared" /\ run[k].op = "prepare" /\ run[j].want = "prepare" /\ run[j].at = "await"
        /\ run[j].n = n /\ run'[j].n = n /\ run[j] # Idle /\ k = j + 1
    BY <1>2, <2>1 DEF HearsOf, Leads
  <2>3. SilentBeyond(k, n)
    BY <2>2 DEF FrontierInv
  <2>4. NoAbort(k, n)
    BY <2>2, HopsAssumption DEF FrontierInv, Hops
  <2>5. NoneQueued(k, n)
    BY <2>4 DEF NoneQueued, NoAbort, FrontierInv
  <2>6. ASSUME NEW i \in Hops, i > j
        PROVE  Silent(i, n)'
    <3>1. CASE i = k
      BY <2>5, <3>1, EntryAssumption DEF Silent, NoneQueued, Slots, Replied, Idle
    <3>2. CASE i > k
      <4>1. Silent(i, n)
        BY <2>3, <3>2 DEF SilentBeyond
      <4>2. run'[i] = run[i]
        BY <3>2, HopsAssumption DEF Replied, HearsOf, Hops
      <4> QED
        BY <4>1, <4>2 DEF Silent, NoneQueued, Slots
    <3> QED
      BY <2>2, <2>6, <3>1, <3>2, HopsAssumption DEF Hops
  <2>7. SilentBeyond(j, n)'
    BY <2>6 DEF SilentBeyond
  <2> QED
    BY <2>2, <2>7
<1>3. Calm
  BY <1>1, <1>2 DEF Calm
<1>4. \A j \in Hops : run'[j] # Idle => Quiet(j, run[j], run'[j])
  <2> SUFFICES ASSUME NEW j \in Hops, run'[j] # Idle
               PROVE  Quiet(j, run[j], run'[j])
    OBVIOUS
  <2>1. CASE run'[j] = run[j]
    BY <2>1 DEF Quiet
  <2>2. CASE HearsOf(j, k, word)
    BY <2>2 DEF HearsOf, Quiet, Committed, Setting, Navigating, Asking
  <2> QED
    BY <2>1, <2>2 DEF Replied
<1>5. \A n \in Requests : caller'[n] = "idle" => caller[n] = "idle"
  BY DEF Replied, Words
<1>6. \A j \in Hops, n \in Requests : run'[j].n = n /\ run'[j].at = "dispatched" => run'[j] = run[j]
  BY EntryAssumption DEF Replied, HearsOf, Idle
<1>7. \A j \in Hops : j # k /\ run[j] # Idle => run'[j] # Idle
  BY DEF Replied, HearsOf
<1> QED
  BY <1>3, <1>4, <1>5, <1>6, <1>7

LEMMA TalkGoesOn ==
  ASSUME PathInv, NEW k \in Hops, run[k] # Idle,
         NEW place, NEW want, NEW word, GoesOn(k, place, want, word),
         WellFormed(k, run'[k]), Follows(run[k], run'[k]),
         Leads(run'[k]) => Leads(run[k]), Quiet(k, run[k], run'[k]),
         place = "heard" /\ want = "navigate" => word \notin {"armed", "declined"},
         place = "dispatched" => run[k].n \in asked',
         UNCHANGED <<queue, alive, storeVars, keyVars, moves>>,
         asked \subseteq asked', asked' \subseteq Requests, disturbed' \in BOOLEAN
  PROVE  PathInv'
<1> USE DEF PathInv, storeVars, keyVars
<1>1. PathTypeOK'
  <2>1. /\ run' \in [Hops -> Handlers]
        /\ caller' \in [Requests -> {"idle", "waiting", "armed", "declined", "error"}]
        /\ \A j \in Hops : run'[j] # Idle => WellFormed(j, run'[j])
    BY GoesOnTypes
  <2> QED
    BY <2>1 DEF PathTypeOK
<1>2. Calm
  BY GoesOnCalm
<1>3. \A j \in Hops : run'[j] # Idle => Quiet(j, run[j], run'[j])
  BY DEF GoesOn, Quiet
<1>4. \A n \in Requests : caller'[n] = caller[n]
  BY DEF GoesOn
<1>5. \A j \in Hops : run[j] # Idle => run'[j] # Idle
  BY DEF GoesOn
<1>6. ASSUME NEW n \in Requests, NEW w \in {"armed", "declined"}, Told(n, w)'
      PROVE  Told(n, w)
  BY <1>4, <1>6 DEF Told, GoesOn
<1>7. ASSUME NEW j \in Hops, NEW n \in Requests, run'[j].n = n, run'[j].at = "dispatched"
      PROVE  n \in asked'
  BY <1>7 DEF GoesOn, UserInv
<1> QED
  BY <1>1, <1>2, <1>3, <1>4, <1>5, <1>6, <1>7, TalkKeeps

LEMMA TalkReplied ==
  ASSUME PathInv, NEW k \in Hops, run[k] # Idle, NEW m \in Requests, run[k].n = m, NEW word \in Words, Replied(k, word),
         run[k].op = "navigate" => word \in {"armed", "declined", "error"},
         word = "prepared" /\ run[k].op = "prepare" => Leads(run[k]),
         run[k].op = "navigate" /\ word = "armed" => Told(m, word) \/ moves[m] = 1,
         run[k].op = "navigate" /\ word = "declined" =>
           Told(m, word) \/ (moves[m] = 0 /\ Spent(m)'),
         HoldsOn(run[k]) => dir[k][m] # "ready",
         UNCHANGED <<queue, alive, dir, poison, exec, keyVars, moves>>,
         receipt' \in [Hops -> [Requests -> {"none", "handled", "error"}]],
         \A j \in Hops, n \in Requests : receipt'[j][n] \in {receipt[j][n], "none"},
         asked \subseteq asked', asked' \subseteq Requests, disturbed' \in BOOLEAN
  PROVE  PathInv'
<1> USE DEF PathInv, keyVars
<1>1. PathTypeOK'
  <2>1. /\ run' \in [Hops -> Handlers]
        /\ caller' \in [Requests -> {"idle", "waiting", "armed", "declined", "error"}]
        /\ \A j \in Hops : run'[j] # Idle => WellFormed(j, run'[j])
    BY RepliedTypes
  <2> QED
    BY <2>1 DEF PathTypeOK
<1>2. /\ Calm
      /\ \A j \in Hops : run'[j] # Idle => Quiet(j, run[j], run'[j])
      /\ \A n \in Requests : caller'[n] = "idle" => caller[n] = "idle"
      /\ \A j \in Hops, n \in Requests : run'[j].n = n /\ run'[j].at = "dispatched" => run'[j] = run[j]
      /\ \A j \in Hops : j # k /\ run[j] # Idle => run'[j] # Idle
  BY RepliedCalm
<1>3. ASSUME NEW n \in Requests, NEW w \in {"armed", "declined"}, Told(n, w)'
      PROVE  Told(n, w) \/ (n = m /\ w = word /\ run[k].op = "navigate")
  BY <1>3, EntryAssumption DEF Told, Replied, HearsOf, Home, Idle
<1>4. ASSUME NEW n \in Requests
      PROVE  /\ Told(n, "armed")' => Told(n, "armed") \/ moves[n] = 1
             /\ Told(n, "declined")' => Told(n, "declined") \/ (moves[n] = 0 /\ Spent(n)')
  <2>1. CASE n # m
    BY <1>3, <2>1
  <2>2. CASE n = m
    <3>1. Told(m, "armed")' => Told(m, "armed") \/ moves[m] = 1
      BY <1>3
    <3>2. ASSUME Told(m, "declined")', ~ Told(m, "declined")
          PROVE  moves[m] = 0 /\ Spent(m)'
      <4>1. run[k].op = "navigate" /\ word = "declined"
        BY <1>3, <3>2
      <4> QED
        BY <3>2, <4>1
    <3> QED
      BY <2>2, <3>1, <3>2
  <2> QED
    BY <2>1, <2>2
<1>5. ASSUME NEW j \in Hops, NEW n \in Requests, run'[j].n = n, run'[j].at = "dispatched"
      PROVE  n \in asked'
  BY <1>2, <1>5 DEF UserInv
<1> QED
  BY <1>1, <1>2, <1>4, <1>5, TalkKeeps
-----------------------------------------------------------------------------
(* The talking steps.                                                      *)

LEMMA HandlerFacts ==
  ASSUME PathInv, NEW k \in Hops, run[k] # Idle
  PROVE  /\ run \in [Hops -> Handlers]
         /\ WellFormed(k, run[k])
         /\ run[k].n \in Requests /\ run[k].op \in Ops /\ run[k].want \in Ops /\ run[k].word \in Words
         /\ asked \subseteq Requests /\ disturbed \in BOOLEAN
         /\ receipt \in [Hops -> [Requests -> {"none", "handled", "error"}]]
  BY HandlerIs DEF PathInv, PathTypeOK

(* What TalkGoesOn asks of the handler.                                    *)
GoesOnWell(k) ==
  /\ WellFormed(k, run'[k]) /\ Follows(run[k], run'[k])
  /\ Leads(run'[k]) => Leads(run[k])
  /\ Quiet(k, run[k], run'[k])


LEMMA UnresolvedKeeps ==
  ASSUME PathInv, NEW k \in Hops, Unresolved(k)
  PROVE  PathInv'
<1>1. run[k] # Idle /\ run[k].at = "start" /\ "error" \in Words
  BY DEF Unresolved, At, Words
<1>2. Replied(k, "error")
  BY <1>1, HandlerFacts, ReplyReplies DEF Unresolved
<1>3. ~ HoldsOn(run[k])
  BY <1>1 DEF HoldsOn, Committed, Asking
<1> QED
  BY <1>1, <1>2, <1>3, HandlerFacts, TalkReplied DEF Unresolved, Fails, storeVars, keyVars, userVars

LEMMA NavigateHereKeeps ==
  ASSUME PathInv, NEW k \in Hops, NavigateHere(k)
  PROVE  PathInv'
<1>1. run[k] # Idle /\ run[k].at = "start" /\ run[k].op = "navigate" /\ Tmux(k) /\ "arm" \in Places
  BY DEF NavigateHere, Starts, At, Places
<1>2. GoesOn(k, "arm", run[k].want, run[k].word)
  BY <1>1, HandlerFacts, GoGoesOn DEF NavigateHere
<1>3. GoesOnWell(k)
  BY <1>1, <1>2, HandlerFacts
     DEF GoesOnWell, GoesOn, WellFormed, Follows, Settled, PassedOn, Executing, HoldsOn,
         Committed, Asking, Leads, Quiet, Setting, Navigating
<1> QED
  BY <1>1, <1>2, <1>3, HandlerFacts, TalkGoesOn DEF GoesOnWell, NavigateHere, userVars

LEMMA NavigateOutKeeps ==
  ASSUME PathInv, NEW k \in Hops, NavigateOut(k)
  PROVE  PathInv'
<1>1. run[k] # Idle /\ run[k].at = "start" /\ run[k].op = "navigate" /\ "dispatch" \in Places /\ "navigate" \in Ops
  BY DEF NavigateOut, Starts, At, Places, Ops
<1>2. \/ k = N /\ GoesOn(k, "dispatch", run[k].want, run[k].word)
      \/ k # N /\ GoesOn(k, "ask", "navigate", run[k].word)
  BY <1>1, HandlerFacts, GoGoesOn DEF NavigateOut, Outermost
<1>3. GoesOnWell(k)
  BY <1>1, <1>2, HandlerFacts
     DEF GoesOnWell, GoesOn, WellFormed, Follows, Settled, PassedOn, Executing, HoldsOn,
         Committed, Asking, Leads, Quiet, Setting, Navigating
<1> QED
  BY <1>1, <1>2, <1>3, HandlerFacts, TalkGoesOn DEF GoesOnWell, NavigateOut, userVars

(* Nothing of a request is left at the hops below where it leads a         *)
(* navigation, nor anywhere else.                                          *)
LEMMA NavigatingAlone ==
  ASSUME PathInv, NEW k \in Hops, run[k] # Idle, run[k].op = "navigate", Leads(run[k]), Navigating(run[k]),
         NEW m \in Requests, run[k].n = m
  PROVE  /\ exec[m] = 0 /\ BeforeExec(m) /\ caller[m] # "idle"
         /\ \A j \in Hops : NoneQueued(j, m)
         /\ \A j \in Hops : j # k /\ run[j].n = m => j < k /\ PassedOn(run[j]) /\ ~ Leads(run[j])
<1> USE DEF PathInv
<1>1. exec[m] = 0
  <2> SUFFICES ASSUME exec[m] # 0
               PROVE  FALSE
    OBVIOUS
  <2>1. AfterExec(m)
    BY DEF ShapeInv, ShapeOf
  <2>2. /\ k < exec[m] => PassedOn(run[k])
        /\ k = exec[m] => Executing(run[k])
        /\ k > exec[m] => run[k].op # "navigate"
    BY <2>1 DEF AfterExec
  <2>3. ~ PassedOn(run[k]) /\ ~ Executing(run[k])
    BY DEF PassedOn, Executing, Navigating, Leads, Asking
  <2> QED
    BY <2>2, <2>3, HopsAssumption DEF PathTypeOK, Hops
<1>2. BeforeExec(m)
  BY <1>1 DEF ShapeInv, ShapeOf
<1>3. caller[m] # "idle"
  BY DEF ShapeInv, ShapeOf, Silent
<1>4. SilentBeyond(k, m)
  BY DEF FrontierInv
<1>5. ASSUME NEW j \in Hops, NEW i \in Slots(j), queue[j][i].n = m
      PROVE  FALSE
  <2>1. queue[j][i].op = "navigate"
    BY <1>2, <1>5 DEF BeforeExec
  <2>2. j # k
    BY <1>5, <2>1 DEF FrontierInv
  <2>3. ~ (j > k)
    BY <1>4, <1>5 DEF SilentBeyond, Silent, NoneQueued
  <2>4. SilentBeyond(j, m)
    BY <1>5, <2>1 DEF FrontierInv
  <2> QED
    BY <2>2, <2>3, <2>4, HopsAssumption DEF SilentBeyond, Silent, Hops
<1>6. ASSUME NEW j \in Hops, j # k, run[j].n = m
      PROVE  j < k /\ PassedOn(run[j]) /\ ~ Leads(run[j])
  <2>1. run[j] # Idle
    BY <1>6, EntryAssumption DEF Idle
  <2>2. j < k
    BY <1>4, <1>6, HopsAssumption DEF SilentBeyond, Silent, Hops
  <2>3. ~ Leads(run[j])
    BY <1>6, <2>1, <2>2 DEF FrontierInv, SilentBeyond, Silent
  <2>4. Navigating(run[j])
    BY <1>2, <1>6 DEF BeforeExec
  <2> QED
    BY <2>2, <2>3, <2>4 DEF Navigating, Leads, PassedOn, Asking
<1> QED
  BY <1>1, <1>2, <1>3, <1>5, <1>6 DEF NoneQueued

LEMMA DispatchKeeps ==
  ASSUME PathInv, NEW k \in Hops, Dispatch(k)
  PROVE  PathInv'
<1>1. /\ run[k] # Idle /\ run[k].at = "dispatch" /\ "dispatched" \in Places /\ "declined" \in Words
      /\ UNCHANGED <<queue, alive, storeVars, keyVars, moves, disturbed>>
  BY DEF Dispatch, At, Places, Words
<1> PICK m \in Requests : m = run[k].n
  BY <1>1, HandlerFacts
<1>2. run[k].op = "navigate"
  BY <1>1, HandlerFacts DEF WellFormed, Ops
<1>3. CASE asked' = asked \cup {Req(k)} /\ Go(k, "dispatched")
  <2>1. GoesOn(k, "dispatched", run[k].want, run[k].word)
    BY <1>1, <1>3, HandlerFacts, GoGoesOn
  <2>2. GoesOnWell(k)
    BY <1>1, <1>2, <2>1, HandlerFacts
       DEF GoesOnWell, GoesOn, WellFormed, Follows, Settled, PassedOn, Executing, HoldsOn,
           Committed, Asking, Leads, Quiet, Setting, Navigating
  <2>3. asked' \subseteq Requests /\ asked \subseteq asked' /\ m \in asked'
    BY <1>1, <1>3, HandlerFacts DEF Req
  <2> QED
    BY <1>1, <2>1, <2>2, <2>3, HandlerFacts, TalkGoesOn DEF GoesOnWell
<1>4. CASE Reply(k, "declined") /\ UNCHANGED asked
  <2>1. Replied(k, "declined")
    BY <1>1, <1>4, HandlerFacts, ReplyReplies
  <2>2. Leads(run[k]) /\ Navigating(run[k]) /\ ~ HoldsOn(run[k]) /\ ~ Settled(run[k])
    BY <1>1, <1>2 DEF Leads, Navigating, HoldsOn, Committed, Asking, Settled
  <2>3. /\ exec[m] = 0 /\ BeforeExec(m) /\ caller[m] # "idle"
        /\ \A j \in Hops : NoneQueued(j, m)
        /\ \A j \in Hops : j # k /\ run[j].n = m => j < k /\ PassedOn(run[j]) /\ ~ Leads(run[j])
    BY <1>1, <1>2, <2>2, NavigatingAlone
  <2>4. moves[m] = 0
    BY <2>2 DEF PathInv, UserInv, Spent, AllCleared, Cleared
  <2>5. Spent(m)'
    <3>1. caller'[m] # "idle"
      BY <2>1, <2>3 DEF Replied
    <3>2. \A j \in Hops : ~ Answering(j, m)'
      BY <1>1, <2>3 DEF Answering, BeforeExec, keyVars
    <3>3. ASSUME NEW j \in Hops
          PROVE  Cleared(j, m)'
      <4>1. NoneQueued(j, m)'
        BY <1>1, <2>3 DEF NoneQueued, Slots
      <4>2. run'[j].n = m => Settled(run'[j])
        BY <2>1, <2>3, EntryAssumption DEF Replied, HearsOf, PassedOn, Settled, Idle
      <4> QED
        BY <4>1, <4>2 DEF Cleared
    <3> QED
      BY <3>1, <3>2, <3>3 DEF Spent, AllCleared
  <2> QED
    BY <1>1, <1>2, <1>4, <2>1, <2>2, <2>4, <2>5, HandlerFacts, TalkReplied DEF storeVars
<1> QED
  BY <1>3, <1>4 DEF Dispatch

LEMMA GivesUpReplyKeeps ==
  ASSUME PathInv, NEW k \in Hops, GivesUpReply(k)
  PROVE  PathInv'
<1>1. run[k] # Idle /\ run[k].at = "await" /\ "error" \in Words
  BY DEF GivesUpReply, At, Words
<1>2. GoesOn(k, "heard", run[k].want, "error")
  BY <1>1, HandlerFacts, GoGoesOn DEF GivesUpReply
<1>3. GoesOnWell(k)
  BY <1>1, <1>2, HandlerFacts
     DEF GoesOnWell, GoesOn, WellFormed, Follows, Settled, PassedOn, Executing, HoldsOn,
         Committed, Asking, Leads, Quiet, Setting, Navigating
<1> QED
  BY <1>1, <1>2, <1>3, HandlerFacts, TalkGoesOn DEF GoesOnWell, GivesUpReply, Fails, userVars

LEMMA HearNavigateKeeps ==
  ASSUME PathInv, NEW k \in Hops, HearNavigate(k)
  PROVE  PathInv'
<1>1. run[k] # Idle /\ run[k].at = "heard" /\ run[k].want = "navigate"
  BY DEF HearNavigate, Hears, At
<1> PICK m \in Requests : m = run[k].n
  BY <1>1, HandlerFacts
<1>2. Replied(k, run[k].word) /\ run[k].word \in {"armed", "declined", "error"}
  BY <1>1, HandlerFacts, ReplyReplies DEF HearNavigate, WellFormed
<1>3. Told(m, run[k].word) /\ ~ HoldsOn(run[k])
  BY <1>1 DEF Told, HoldsOn, Committed, Asking
<1> QED
  BY <1>1, <1>2, <1>3, HandlerFacts, TalkReplied DEF HearNavigate, storeVars, keyVars, userVars

LEMMA HearPrepareKeeps ==
  ASSUME PathInv, NEW k \in Hops, HearPrepare(k)
  PROVE  PathInv'
<1>1. run[k] # Idle /\ run[k].at = "heard" /\ run[k].want = "prepare" /\ "commit" \in Places /\ "abort" \in Ops
  BY DEF HearPrepare, Hears, At, Places, Ops
<1>2. run[k].op \in {"navigate", "prepare"} /\ (run[k].op = "navigate" => Tmux(k)) /\ ~ HoldsOn(run[k])
  BY <1>1, HandlerFacts DEF WellFormed, Asking, Ops, HoldsOn, Committed
<1>3. CASE Tmux(k) /\ run[k].word # "prepared"
  <2>1. GoesOn(k, "ask", "abort", run[k].word)
    BY <1>1, <1>3, HandlerFacts, GoGoesOn DEF HearPrepare
  <2>2. GoesOnWell(k)
    BY <1>1, <1>2, <1>3, <2>1, HandlerFacts
     DEF GoesOnWell, GoesOn, WellFormed, Follows, Settled, PassedOn, Executing, HoldsOn,
         Committed, Asking, Leads, Quiet, Setting, Navigating
  <2> QED
    BY <1>1, <2>1, <2>2, HandlerFacts, TalkGoesOn DEF GoesOnWell, HearPrepare, userVars
<1>4. CASE ~ (Tmux(k) /\ run[k].word # "prepared") /\ run[k].op = "navigate"
  <2>1. GoesOn(k, "commit", run[k].want, run[k].word)
    BY <1>1, <1>4, HandlerFacts, GoGoesOn DEF HearPrepare
  <2>2. GoesOnWell(k)
    BY <1>1, <1>2, <1>4, <2>1, HandlerFacts
     DEF GoesOnWell, GoesOn, WellFormed, Follows, Settled, PassedOn, Executing, HoldsOn,
         Committed, Asking, Leads, Quiet, Setting, Navigating
  <2> QED
    BY <1>1, <2>1, <2>2, HandlerFacts, TalkGoesOn DEF GoesOnWell, HearPrepare, userVars
<1>5. CASE ~ (Tmux(k) /\ run[k].word # "prepared") /\ run[k].op # "navigate"
  <2>1. Replied(k, run[k].word)
    BY <1>1, <1>5, HandlerFacts, ReplyReplies DEF HearPrepare
  <2>2. run[k].word = "prepared" => Leads(run[k])
    BY <1>1 DEF Leads
  <2> QED
    BY <1>1, <1>2, <1>5, <2>1, <2>2, HandlerFacts, TalkReplied DEF HearPrepare, storeVars, keyVars, userVars
<1> QED
  BY <1>3, <1>4, <1>5

LEMMA HearAbortKeeps ==
  ASSUME PathInv, NEW k \in Hops, HearAbort(k)
  PROVE  PathInv'
<1>1. run[k] # Idle /\ run[k].at = "heard" /\ run[k].want = "abort" /\ "discard" \in Places /\ "aborted" \in Words
  BY DEF HearAbort, Hears, At, Places, Words
<1>2. run[k].op # "commit" /\ ~ HoldsOn(run[k])
  BY <1>1, HandlerFacts DEF WellFormed, Asking, HoldsOn, Committed
<1>3. CASE run[k].op = "abort"
  <2>1. Replied(k, "aborted")
    BY <1>1, <1>3, HandlerFacts, ReplyReplies DEF HearAbort
  <2> QED
    BY <1>1, <1>2, <1>3, <2>1, HandlerFacts, TalkReplied DEF HearAbort, storeVars, keyVars, userVars
<1>4. CASE run[k].op # "abort"
  <2>1. GoesOn(k, "discard", run[k].want, run[k].word)
    BY <1>1, <1>4, HandlerFacts, GoGoesOn DEF HearAbort
  <2>2. GoesOnWell(k)
    BY <1>1, <1>2, <1>4, <2>1, HandlerFacts
     DEF GoesOnWell, GoesOn, WellFormed, Follows, Settled, PassedOn, Executing, HoldsOn,
         Committed, Asking, Leads, Quiet, Setting, Navigating
  <2> QED
    BY <1>1, <2>1, <2>2, HandlerFacts, TalkGoesOn DEF GoesOnWell, HearAbort, userVars
<1> QED
  BY <1>3, <1>4

LEMMA HearCommitKeeps ==
  ASSUME PathInv, NEW k \in Hops, HearCommit(k)
  PROVE  PathInv'
<1>1. run[k] # Idle /\ run[k].at = "heard" /\ run[k].want = "commit" /\ "wait" \in Places
  BY DEF HearCommit, Hears, At, Places
<1>2. run[k].op \in {"navigate", "commit"} /\ (run[k].op = "navigate" => Tmux(k))
  BY <1>1, HandlerFacts DEF WellFormed, Asking, Ops
<1>3. CASE Tmux(k)
  <2>1. GoesOn(k, "wait", run[k].want, run[k].word)
    BY <1>1, <1>3, HandlerFacts, GoGoesOn DEF HearCommit
  <2>2. GoesOnWell(k)
    BY <1>1, <1>2, <1>3, <2>1, HandlerFacts
     DEF GoesOnWell, GoesOn, WellFormed, Follows, Settled, PassedOn, Executing, HoldsOn,
         Committed, Asking, Leads, Quiet, Setting, Navigating
  <2> QED
    BY <1>1, <2>1, <2>2, HandlerFacts, TalkGoesOn DEF GoesOnWell, HearCommit, userVars
<1>4. CASE ~ Tmux(k)
  <2>1. Replied(k, run[k].word)
    BY <1>1, <1>4, HandlerFacts, ReplyReplies DEF HearCommit
  <2>2. \A m \in Requests : dir[k][m] # "ready"
    BY <1>4 DEF PathInv, StoreInv
  <2> QED
    BY <1>1, <1>2, <1>4, <2>1, <2>2, HandlerFacts, TalkReplied DEF HearCommit, storeVars, keyVars, userVars
<1> QED
  BY <1>3, <1>4

LEMMA CommitFailsKeeps ==
  ASSUME PathInv, NEW k \in Hops, CommitFails(k)
  PROVE  PathInv'
<1>1. /\ run[k] # Idle /\ Tmux(k)
      /\ \/ run[k].at = "commit" /\ run[k].op = "navigate"
         \/ run[k].at = "start" /\ run[k].op = "commit"
      /\ "discard" \in Places /\ "abort" \in Ops /\ "error" \in Words
  BY HandlerFacts DEF CommitFails, Committing, Starts, At, Places, Ops, Words, WellFormed
<1>2. UNCHANGED <<queue, alive, storeVars, keyVars, userVars>> /\ disturbed' = TRUE
  BY DEF CommitFails, Fails
<1>3. CASE Go(k, "discard")
  <2>1. GoesOn(k, "discard", run[k].want, run[k].word)
    BY <1>1, <1>3, HandlerFacts, GoGoesOn
  <2>2. GoesOnWell(k)
    BY <1>1, <2>1, HandlerFacts
     DEF GoesOnWell, GoesOn, WellFormed, Follows, Settled, PassedOn, Executing, HoldsOn,
         Committed, Asking, Leads, Quiet, Setting, Navigating
  <2> QED
    BY <1>1, <1>2, <2>1, <2>2, HandlerFacts, TalkGoesOn DEF GoesOnWell, userVars
<1>4. CASE Ask(k, "abort") /\ run[k].op = "navigate" /\ k # N
  <2>1. GoesOn(k, "ask", "abort", run[k].word)
    BY <1>1, <1>4, HandlerFacts, GoGoesOn
  <2>2. GoesOnWell(k)
    BY <1>1, <1>4, <2>1, HandlerFacts
     DEF GoesOnWell, GoesOn, WellFormed, Follows, Settled, PassedOn, Executing, HoldsOn,
         Committed, Asking, Leads, Quiet, Setting, Navigating
  <2> QED
    BY <1>1, <1>2, <2>1, <2>2, HandlerFacts, TalkGoesOn DEF GoesOnWell, userVars
<1>5. CASE Reply(k, "error")
  <2>1. Replied(k, "error")
    BY <1>1, <1>5, HandlerFacts, ReplyReplies
  <2>2. ~ HoldsOn(run[k])
    BY <1>1 DEF HoldsOn, Committed, Asking
  <2> QED
    BY <1>1, <1>2, <2>1, <2>2, HandlerFacts, TalkReplied DEF storeVars, keyVars, userVars
<1> QED
  BY <1>3, <1>4, <1>5 DEF CommitFails, Outermost

LEMMA TakeReceiptKeeps ==
  ASSUME PathInv, NEW k \in Hops, TakeReceipt(k)
  PROVE  PathInv'
<1>1. /\ run[k] # Idle /\ run[k].at = "wait"
      /\ UNCHANGED <<queue, alive, dir, poison, exec, keyVars, userVars, disturbed>>
  BY DEF TakeReceipt, At
<1> PICK m \in Requests : m = run[k].n
  BY <1>1, HandlerFacts
<1> PICK word \in Words : word = IF receipt[k][m] = "handled" THEN Success(k) ELSE "error"
  BY DEF Success, Words
<1>2. /\ run[k].op \in {"navigate", "commit"}
      /\ run[k].op = "navigate" => word \in {"armed", "error"}
      /\ word # "prepared"
      /\ word = "armed" => receipt[k][m] = "handled"
  BY <1>1, HandlerFacts DEF WellFormed, Ops, Words, Success
<1>3. dir[k][m] # "ready"
  BY DEF TakeReceipt, PathInv, StoreInv, Req
<1>4. receipt' = [receipt EXCEPT ![k][m] = "none"]
  BY DEF TakeReceipt, Req
<1>5. /\ receipt' \in [Hops -> [Requests -> {"none", "handled", "error"}]]
      /\ \A j \in Hops, n \in Requests : receipt'[j][n] \in {receipt[j][n], "none"}
  BY <1>1, <1>4, HandlerFacts
<1>6. run[k].op = "navigate" => exec[m] = k
  <2> SUFFICES ASSUME run[k].op = "navigate"
               PROVE  exec[m] = k
    OBVIOUS
  <2>1. ~ Navigating(run[k]) /\ ~ PassedOn(run[k])
    BY <1>1 DEF Navigating, PassedOn, Asking
  <2>2. exec[m] # 0 /\ AfterExec(m)
    BY <2>1 DEF PathInv, ShapeInv, ShapeOf, BeforeExec
  <2>3. ~ (k < exec[m]) /\ ~ (k > exec[m])
    BY <2>1, <2>2 DEF AfterExec
  <2> QED
    BY <2>3, HopsAssumption DEF PathInv, PathTypeOK, Hops
<1>7. run[k].op = "navigate" /\ word = "armed" => moves[m] = 1
  BY <1>2, <1>6 DEF PathInv, UserInv
<1>8. Reply(k, word)
  BY DEF TakeReceipt, Req
<1>9. Replied(k, word)
  BY <1>1, <1>2, <1>8, HandlerFacts, ReplyReplies
<1>10. /\ asked \subseteq asked' /\ asked' \subseteq Requests /\ disturbed' \in BOOLEAN
       /\ UNCHANGED <<queue, alive, dir, poison, exec, keyVars, moves>>
  BY <1>1, HandlerFacts DEF userVars
<1>11. /\ run[k].op = "navigate" => word \in {"armed", "declined", "error"}
       /\ ~ (word = "prepared" /\ run[k].op = "prepare")
       /\ ~ (run[k].op = "navigate" /\ word = "declined")
  BY <1>2
<1> QED
  BY <1>1, <1>2, <1>3, <1>5, <1>7, <1>9, <1>10, <1>11, TalkReplied

LEMMA CallerGivesUpKeeps ==
  ASSUME PathInv, NEW m \in Requests, CallerGivesUp(m)
  PROVE  PathInv'
<1>1. /\ caller' = [caller EXCEPT ![m] = "error"] /\ caller[m] = "waiting" /\ disturbed' = TRUE
      /\ UNCHANGED <<queue, run, alive, dir, receipt, poison, exec, key, target, asked, moves>>
  BY DEF CallerGivesUp, Fails, storeVars, keyVars, userVars
<1>2. PathTypeOK'
  BY <1>1 DEF PathInv, PathTypeOK, Tmux, WellFormed
<1>3. \A k \in Hops : run'[k] # Idle => Follows(run[k], run'[k]) /\ Quiet(k, run[k], run'[k])
  BY <1>1 DEF Follows, Quiet
<1>4. Calm
  BY <1>1, <1>3 DEF Calm
<1>5. \A n \in Requests, word \in {"armed", "declined"} : Told(n, word)' => Told(n, word)
  BY <1>1 DEF Told, PathInv, PathTypeOK
<1>6. \A n \in Requests : caller'[n] = "idle" => caller[n] = "idle"
  BY <1>1 DEF PathInv, PathTypeOK
<1>7. \A k \in Hops, n \in Requests : run'[k].n = n /\ run'[k].at = "dispatched" => n \in asked'
  BY <1>1 DEF PathInv, UserInv
<1> QED
  BY <1>1, <1>2, <1>3, <1>4, <1>5, <1>6, <1>7, TalkKeeps

LEMMA CrashKeeps ==
  ASSUME PathInv, NEW k \in Hops, Crash(k)
  PROVE  PathInv'
<1>1. /\ alive' = alive \ {k} /\ run' = [run EXCEPT ![k] = Idle] /\ queue' = [queue EXCEPT ![k] = <<>>]
      /\ disturbed' = TRUE
      /\ UNCHANGED <<caller, dir, receipt, poison, exec, key, target, asked, moves>>
  BY DEF Crash, Fails, storeVars, keyVars, userVars
<1>2. run \in [Hops -> Handlers] /\ queue \in [Hops -> Seq(Messages)] /\ Idle \in Handlers
  BY DEF PathInv, PathTypeOK, Handlers
<1>3. /\ \A j \in Hops : run'[j] = run[j] \/ (j = k /\ run'[j] = Idle)
      /\ \A j \in Hops : queue'[j] = queue[j] \/ queue'[j] = <<>>
      /\ run' \in [Hops -> Handlers]
      /\ queue' \in [Hops -> Seq(Messages)]
  BY <1>1, <1>2
<1>4. PathTypeOK'
  BY <1>1, <1>3 DEF PathInv, PathTypeOK
<1>5. \A j \in Hops : run'[j] # Idle => Follows(run[j], run'[j]) /\ Quiet(j, run[j], run'[j])
  BY <1>3 DEF Follows, Quiet
<1>6. Calm
  BY <1>3, <1>5 DEF Calm
<1>7. \A n \in Requests, word \in {"armed", "declined"} : Told(n, word)' => Told(n, word)
  BY <1>1, <1>3, EntryAssumption DEF Told, Idle
<1>8. \A j \in Hops, n \in Requests : run'[j].n = n /\ run'[j].at = "dispatched" => n \in asked'
  BY <1>1, <1>3, EntryAssumption DEF PathInv, UserInv, Idle
<1>9. \A j \in Hops : run'[j] = Idle /\ run[j] # Idle => j \notin alive'
  BY <1>1, <1>3
<1>10. alive' \subseteq alive
  BY <1>1
<1> QED
  BY <1>1, <1>4, <1>5, <1>6, <1>7, <1>8, <1>9, <1>10, TalkKeeps
-----------------------------------------------------------------------------
(* The terminal is asked for the answer.                                   *)

LEMMA ExecutingHere ==
  ASSUME PathInv, NEW k \in Hops, NEW m \in Requests, run[k].n = m,
         run[k].op = "navigate", Executing(run[k])
  PROVE  /\ exec[m] = k /\ exec[m] # 0 /\ Tmux(k)
         /\ ClearedBelow(k, m) /\ NoneQueued(k, m)
         /\ \A j \in Hops : j < k /\ run[j].n = m => PassedOn(run[j])
<1> USE DEF PathInv
<1>1. ~ Navigating(run[k]) /\ ~ PassedOn(run[k])
  BY DEF Navigating, PassedOn, Executing, Asking
<1>2. exec[m] # 0 /\ AfterExec(m) /\ Tmux(exec[m])
  BY <1>1 DEF ShapeInv, ShapeOf, BeforeExec
<1>3. ~ (k < exec[m]) /\ ~ (k > exec[m])
  BY <1>1, <1>2 DEF AfterExec
<1>4. exec[m] = k
  BY <1>3, HopsAssumption DEF PathTypeOK, Hops
<1>5. \A j \in Hops : j <= k => NoneQueued(j, m)
  BY <1>2, <1>4, HopsAssumption DEF AfterExec, NoneQueued, Hops
<1>6. \A j \in Hops : j < k /\ run[j].n = m => PassedOn(run[j])
  BY <1>2, <1>4 DEF AfterExec
<1>7. ClearedBelow(k, m)
  BY <1>5, <1>6, HopsAssumption DEF ClearedBelow, Cleared, PassedOn, Settled, Hops
<1> QED
  BY <1>2, <1>4, <1>5, <1>6, <1>7, HopsAssumption DEF Hops

LEMMA WrittenKeys ==
  ASSUME NEW keys \in [Hops -> [Requests -> {"none", "flying", "running", "done"}]],
         NEW k \in 0 .. N, NEW m \in Requests
  PROVE  /\ Written(keys, k, m) \in [Hops -> [Requests -> {"none", "flying", "running", "done"}]]
         /\ \A j \in Hops, n \in Requests :
              Written(keys, k, m)[j][n] = IF j \in Toward(k) /\ n = m THEN "flying" ELSE keys[j][n]
         /\ \A i, j \in Toward(k) : i = j
         /\ \A j \in Toward(k) : j \in Hops /\ j <= k /\ Tmux(j)
         /\ \A j \in Toward(k), i \in Hops : Tmux(i) /\ i <= k => i <= j
<1>1. Written(keys, k, m) \in [Hops -> [Requests -> {"none", "flying", "running", "done"}]]
  BY DEF Written
<1>2. \A j \in Hops, n \in Requests :
        Written(keys, k, m)[j][n] = IF j \in Toward(k) /\ n = m THEN "flying" ELSE keys[j][n]
  BY DEF Written
<1>3. \A j \in Toward(k) : j \in Hops /\ j <= k /\ Tmux(j)
  BY HopsAssumption DEF Toward, Hops
<1>4. \A j \in Toward(k), i \in Hops : Tmux(i) /\ i <= k => i <= j
  BY HopsAssumption DEF Toward, Hops
<1>5. \A i, j \in Toward(k) : i = j
  BY <1>3, <1>4, HopsAssumption DEF Hops
<1> QED
  BY <1>1, <1>2, <1>3, <1>4, <1>5

LEMMA FlownKeys ==
  ASSUME PathTypeOK, NEW k \in Hops, NEW m \in Requests, Fly(k, m)
  PROVE  /\ key' \in [Hops -> [Requests -> {"none", "flying", "running", "done"}]]
         /\ \A j \in Hops, n \in Requests :
              key'[j][n] = IF j \in Toward(k) /\ n = m THEN "flying" ELSE key[j][n]
         /\ \A i, j \in Toward(k) : i = j
         /\ \A j \in Toward(k) : j \in Hops /\ j <= k /\ Tmux(j)
         /\ \A j \in Toward(k), i \in Hops : Tmux(i) /\ i <= k => i <= j
<1>1. k \in 0 .. N /\ key \in [Hops -> [Requests -> {"none", "flying", "running", "done"}]]
  BY HopsAssumption DEF Hops, PathTypeOK
<1>2. key' = Written(key, k, m)
  BY DEF Fly
<1> QED
  BY <1>1, <1>2, WrittenKeys

(* The last hop commits by asking the terminal, and settles.               *)
LEMMA FlyKeeps ==
  ASSUME PathInv, PathTypeOK', Calm, NEW k \in Hops, k = N, NEW m \in Requests,
         run[k] # Idle, run[k].n = m, ~ Settled(run[k]), run'[k].n = m => Settled(run'[k]),
         exec[m] # 0, ReadyBelow(k + 1, m), ClearedBelow(k, m), NoneQueued(k, m),
         asked' = asked \cup {m}, Fly(k, m),
         UNCHANGED <<alive, storeVars, target, moves>>,
         \A n \in Requests : caller'[n] = "idle" => caller[n] = "idle",
         \A j \in Hops : run'[j] # Idle => Quiet(j, run[j], run'[j]),
         \A j \in Hops : run'[j] # Idle /\ Committed(run'[j]) => Committed(run[j]) \/ ~ Tmux(j),
         \A j \in Hops : run'[j] = Idle /\ run[j] # Idle => ~ Tmux(j),
         \A j \in Hops : run'[j] # Idle /\ Setting(run'[j]) => run'[j] = run[j],
         \A n \in Requests, word \in {"armed", "declined"} : Told(n, word)' => Told(n, word),
         \A j \in Hops, n \in Requests : run'[j].n = n /\ run'[j].at = "dispatched" => n \in asked'
  PROVE  PathInv'
<1> USE DEF PathInv, storeVars
<1>2. /\ \A j \in Hops, n \in Requests :
            key'[j][n] = IF j \in Toward(k) /\ n = m THEN "flying" ELSE key[j][n]
      /\ \A i, j \in Toward(k) : i = j
      /\ \A j \in Toward(k) : j \in Hops /\ j <= k /\ Tmux(j)
      /\ \A j \in Toward(k), i \in Hops : Tmux(i) /\ i <= k => i <= j
  BY FlownKeys
<1>3. \A j \in Hops : ~ Answering(j, m)
  BY DEF CommitInv, AllCleared, Cleared
<1>4. exec[m] \in Hops /\ Tmux(exec[m]) /\ exec[m] <= k
  BY HopsAssumption DEF PathTypeOK, ShapeInv, ShapeOf, Hops
<1>5. AllCleared(m)'
  <2>1. ASSUME NEW j \in Hops, j # k
        PROVE  Cleared(j, m)'
    <3>1. j < k
      BY <2>1, HopsAssumption DEF Hops
    <3> QED
      BY <3>1, CalmStaysSilent DEF ClearedBelow
  <2>2. Cleared(k, m)'
    BY CalmStaysSilent DEF Cleared
  <2> QED
    BY <2>1, <2>2 DEF AllCleared
<1>6. FrontierInv'
  BY CalmFrontier DEF PathTypeOK
<1>7. ShapeInv'
  <2>1. SamePhase
    BY <1>2 DEF SamePhase, SamePhaseOf, Quiet
  <2> QED
    BY <2>1, CalmShape
<1>8. \A n \in Requests : n # m => \A j \in Hops : Answering(j, n)' => Answering(j, n)
  BY <1>2 DEF Answering
<1>9. AnswerMoves(m)
  <2>1. \A j \in Hops : Answering(j, m)' => j \in Toward(k)
    BY <1>2, <1>3 DEF Answering
  <2>2. CASE Toward(k) = {}
    BY <2>1, <2>2 DEF AnswerMoves
  <2>3. CASE Toward(k) # {}
    <3> PICK j \in Toward(k) : TRUE
      BY <2>3
    <3>1. j \in Hops /\ Tmux(j) /\ exec[m] <= j /\ m \in asked'
      BY <1>2, <1>4
    <3>2. \A i \in Hops : Answering(i, m)' => i = j
      BY <1>2, <2>1
    <3> QED
      BY <1>5, <3>1, <3>2 DEF AnswerMoves
  <2> QED
    BY <2>2, <2>3
<1>10. CommitInv'
  <2>1. \A n \in Requests : AnswerMoves(n)
    BY <1>8, <1>9 DEF AnswerMoves
  <2> QED
    BY <2>1, CalmCommit
<1>11. StoreInv'
  <2> SUFFICES ASSUME NEW j \in Hops, NEW n \in Requests, dir[j][n] # "absent"
               PROVE  /\ j \notin poison'
                      /\ dir[j][n] = "ready" /\ j \in alive' => run'[j].n = n /\ HoldsOn(run'[j])
                      /\ run'[j] # Idle /\ Committed(run'[j]) => n = run'[j].n
    BY CalmStore
  <2>1. Tmux(j) /\ j \notin poison
    BY DEF StoreInv
  <2>2. ASSUME dir[j][n] = "ready", j \in alive'
        PROVE  run'[j].n = n /\ HoldsOn(run'[j])
    <3>1. run[j].n = n /\ HoldsOn(run[j]) /\ run[j] # Idle
      BY <2>2, EntryAssumption DEF StoreInv, Idle
    <3>2. run'[j] # Idle
      BY <2>1, <3>1
    <3> QED
      BY <3>1, <3>2 DEF Calm, Follows
  <2>3. ASSUME run'[j] # Idle, Committed(run'[j])
        PROVE  n = run'[j].n
    <3>1. Committed(run[j]) /\ run[j] # Idle /\ run'[j].n = run[j].n
      BY <2>1, <2>3 DEF Calm, Follows
    <3> QED
      BY <3>1 DEF StoreInv
  <2> QED
    BY <2>1, <2>2, <2>3
<1>12. ReadyInv'
  <2>1. \A n \in Requests : exec[n] <= exec'[n]
    BY HopsAssumption DEF PathTypeOK
  <2>2. \A n \in Requests, j \in Hops : Keeps(j, n)
    BY DEF Keeps
  <2>3. ASSUME NEW j \in Toward(k)
        PROVE  KeyFine(j, m)'
    <3>1. ReadyBelow(j + 1, m)'
      BY <1>2, <2>3, HopsAssumption DEF ReadyBelow, Hops, Tmux
    <3>2. key'[j][m] = "flying" /\ target'[j][m] \in {None, m}
      BY <1>2, <2>3 DEF ReadyInv, KeyFine
    <3> QED
      BY <3>1, <3>2 DEF KeyFine
  <2>4. ASSUME NEW j \in Hops, NEW n \in Requests
        PROVE  (key'[j][n] = key[j][n] /\ target'[j][n] = target[j][n]) \/ KeyFine(j, n)'
    BY <1>2, <2>3
  <2> QED
    BY <2>1, <2>2, <2>4, CalmReady
<1>13. UserInv'
  <2>1. \A n \in Requests : (\A j \in Hops : Answering(j, n)' => Answering(j, n)) \/ ~ AllCleared(n)
    BY <1>8 DEF AllCleared, Cleared
  <2>2. \A j \in Hops, n \in Requests :
          exec'[n] = j /\ receipt'[j][n] = "handled" => exec[n] = j /\ receipt[j][n] = "handled"
    OBVIOUS
  <2> QED
    BY <2>1, <2>2, CalmUser
<1> QED
  BY <1>6, <1>7, <1>10, <1>11, <1>12, <1>13

LEMMA EmitKeeps ==
  ASSUME PathInv, NEW k \in Hops, Emit(k)
  PROVE  PathInv'
<1>1. /\ run[k] # Idle /\ run[k].at = "emit" /\ "discard" \in Places /\ "wait" \in Places
      /\ UNCHANGED <<queue, alive, storeVars, target, moves>>
  BY DEF Emit, At, Places
<1> PICK m \in Requests : m = run[k].n
  BY <1>1, HandlerFacts
<1>2. k = N /\ run[k].op \in {"navigate", "commit"} /\ Tmux(k) /\ ~ Settled(run[k])
  BY <1>1, HandlerFacts DEF WellFormed, Ops, Settled
<1>3. CASE Go(k, "discard") /\ Fails /\ UNCHANGED <<key, asked>>
  <2>1. GoesOn(k, "discard", run[k].want, run[k].word)
    BY <1>1, <1>3, HandlerFacts, GoGoesOn
  <2>2. GoesOnWell(k)
    BY <1>1, <1>2, <2>1, HandlerFacts
       DEF GoesOnWell, GoesOn, WellFormed, Follows, Settled, PassedOn, Executing, HoldsOn,
           Committed, Asking, Leads, Quiet, Setting, Navigating
  <2> QED
    BY <1>1, <1>3, <2>1, <2>2, HandlerFacts, TalkGoesOn DEF GoesOnWell, Fails, keyVars
<1>4. CASE asked' = asked \cup {Req(k)} /\ Fly(k, Req(k)) /\ Go(k, "wait") /\ Works
  <2>1. GoesOn(k, "wait", run[k].want, run[k].word)
    BY <1>1, <1>4, HandlerFacts, GoGoesOn
  <2>2. GoesOnWell(k) /\ Committed(run[k]) /\ Settled(run'[k]) /\ ~ Setting(run'[k])
    BY <1>1, <1>2, <2>1, HandlerFacts
       DEF GoesOnWell, GoesOn, WellFormed, Follows, Settled, PassedOn, Executing, HoldsOn,
           Committed, Asking, Leads, Quiet, Setting, Navigating
  <2>3. exec[m] # 0 /\ ClearedBelow(k, m) /\ NoneQueued(k, m)
    <3>1. CASE run[k].op = "navigate"
      BY <1>1, <3>1, ExecutingHere DEF Executing
    <3>2. CASE run[k].op = "commit"
      BY <1>1, <3>2 DEF PathInv, CommitInv, ShapeInv, ShapeOf, BeforeExec, Navigating
    <3> QED
      BY <1>2, <3>1, <3>2
  <2>4. ReadyBelow(k + 1, m)
    BY <1>1 DEF PathInv, ReadyInv
  <2>5. PathTypeOK'
    <3>1. /\ run' \in [Hops -> Handlers]
          /\ caller' \in [Requests -> {"idle", "waiting", "armed", "declined", "error"}]
          /\ \A j \in Hops : run'[j] # Idle => WellFormed(j, run'[j])
      BY <2>1, <2>2, GoesOnTypes DEF GoesOnWell, PathInv
    <3>2. key' \in [Hops -> [Requests -> {"none", "flying", "running", "done"}]]
      BY <1>4, FlownKeys DEF Req, PathInv
    <3> QED
      BY <1>1, <1>4, <3>1, <3>2 DEF PathInv, PathTypeOK, storeVars, Req, Works
  <2>6. Calm
    BY <1>1, <2>1, <2>2, GoesOnCalm DEF GoesOnWell, PathInv
  <2>7. /\ \A j \in Hops : run'[j] # Idle => Quiet(j, run[j], run'[j])
        /\ \A j \in Hops : run'[j] # Idle /\ Committed(run'[j]) => Committed(run[j])
        /\ \A j \in Hops : run[j] # Idle => run'[j] # Idle
        /\ \A j \in Hops : run'[j] # Idle /\ Setting(run'[j]) => run'[j] = run[j]
        /\ \A n \in Requests : caller'[n] = caller[n]
    BY <2>1, <2>2 DEF GoesOn, GoesOnWell, Quiet
  <2>8. \A n \in Requests, word \in {"armed", "declined"} : Told(n, word)' => Told(n, word)
    BY <2>1 DEF GoesOn, Told
  <2>9. \A j \in Hops, n \in Requests : run'[j].n = n /\ run'[j].at = "dispatched" => n \in asked'
    BY <1>4, <2>1 DEF GoesOn, PathInv, UserInv
  <2>10. asked' = asked \cup {m} /\ Fly(k, m)
    BY <1>4 DEF Req
  <2> QED
    BY <1>1, <1>2, <2>2, <2>3, <2>4, <2>5, <2>6, <2>7, <2>8, <2>9, <2>10, FlyKeeps
<1> QED
  BY <1>3, <1>4 DEF Emit

LEMMA PassOnKeeps ==
  ASSUME PathInv, NEW k \in Hops, PassOn(k)
  PROVE  PathInv'
<1>1. /\ run[k] # Idle /\ run[k].at = "start" /\ run[k].op \in {"prepare", "commit"} /\ ~ Tmux(k)
      /\ UNCHANGED <<queue, alive, storeVars, target, moves>>
      /\ "prepared" \in Words /\ "emitted" \in Words /\ "error" \in Words
  BY DEF PassOn, Starts, At, Words
<1> PICK m \in Requests : m = run[k].n
  BY <1>1, HandlerFacts
<1>2. ~ HoldsOn(run[k]) /\ Leads(run[k]) /\ ~ Settled(run[k])
  BY <1>1 DEF HoldsOn, Committed, Asking, Leads, Settled
<1>3. CASE k # N /\ Ask(k, run[k].op) /\ UNCHANGED <<key, asked, disturbed>>
  <2>1. GoesOn(k, "ask", run[k].op, run[k].word)
    BY <1>1, <1>3, HandlerFacts, GoGoesOn
  <2>2. GoesOnWell(k)
    BY <1>1, <1>3, <2>1, HandlerFacts
       DEF GoesOnWell, GoesOn, WellFormed, Follows, Settled, PassedOn, Executing, HoldsOn,
           Committed, Asking, Leads, Quiet, Setting, Navigating
  <2> QED
    BY <1>1, <1>3, <2>1, <2>2, HandlerFacts, TalkGoesOn DEF GoesOnWell, keyVars
<1>4. CASE run[k].op = "prepare" /\ Reply(k, "prepared") /\ UNCHANGED <<key, asked, disturbed>>
  <2>1. Replied(k, "prepared")
    BY <1>1, <1>4, HandlerFacts, ReplyReplies
  <2> QED
    BY <1>1, <1>2, <1>4, <2>1, HandlerFacts, TalkReplied DEF storeVars, keyVars
<1>5. CASE run[k].op = "commit" /\ Reply(k, "error") /\ Fails /\ UNCHANGED <<key, asked>>
  <2>1. Replied(k, "error")
    BY <1>1, <1>5, HandlerFacts, ReplyReplies
  <2> QED
    BY <1>1, <1>2, <1>5, <2>1, HandlerFacts, TalkReplied DEF storeVars, keyVars, Fails
<1>6. CASE /\ k = N /\ run[k].op = "commit" /\ Reply(k, "emitted")
           /\ asked' = asked \cup {Req(k)} /\ Fly(k, Req(k)) /\ Works
  <2>1. Replied(k, "emitted")
    BY <1>1, <1>6, HandlerFacts, ReplyReplies
  <2>2. /\ Calm
        /\ \A j \in Hops : run'[j] # Idle => Quiet(j, run[j], run'[j])
        /\ \A n \in Requests : caller'[n] = "idle" => caller[n] = "idle"
        /\ \A j \in Hops, n \in Requests : run'[j].n = n /\ run'[j].at = "dispatched" => run'[j] = run[j]
        /\ \A j \in Hops : j # k /\ run[j] # Idle => run'[j] # Idle
    BY <1>1, <1>2, <2>1, RepliedCalm DEF PathInv
  <2>3. exec[m] # 0 /\ ClearedBelow(k, m) /\ NoneQueued(k, m)
    BY <1>1, <1>6 DEF PathInv, CommitInv, ShapeInv, ShapeOf, BeforeExec, Navigating
  <2>4. ReadyBelow(k + 1, m)
    <3>1. ReadyBelow(k, m)
      BY <1>1, <1>6 DEF PathInv, ReadyInv
    <3> QED
      BY <1>1, <3>1, HopsAssumption DEF ReadyBelow, Hops
  <2>5. PathTypeOK'
    <3>1. /\ run' \in [Hops -> Handlers]
          /\ caller' \in [Requests -> {"idle", "waiting", "armed", "declined", "error"}]
          /\ \A j \in Hops : run'[j] # Idle => WellFormed(j, run'[j])
      BY <1>1, <1>6, <2>1, RepliedTypes DEF PathInv
    <3>2. key' \in [Hops -> [Requests -> {"none", "flying", "running", "done"}]]
      BY <1>6, FlownKeys DEF Req, PathInv
    <3> QED
      BY <1>1, <1>6, <3>1, <3>2 DEF PathInv, PathTypeOK, storeVars, Req, Works
  <2>6. ASSUME NEW n \in Requests, NEW w \in {"armed", "declined"}, Told(n, w)'
        PROVE  Told(n, w)
    BY <1>1, <1>6, <2>1, <2>6, EntryAssumption DEF Told, Replied, HearsOf, Home, Idle
  <2>7. \A j \in Hops, n \in Requests : run'[j].n = n /\ run'[j].at = "dispatched" => n \in asked'
    BY <1>6, <2>2 DEF PathInv, UserInv
  <2>8. \A j \in Hops : run'[j] # Idle /\ Setting(run'[j]) => run'[j] = run[j]
    BY <2>1 DEF Replied, HearsOf, Setting
  <2>9. /\ asked' = asked \cup {m} /\ Fly(k, m)
        /\ run'[k].n # m
        /\ \A j \in Hops : run'[j] # Idle /\ Committed(run'[j]) => Committed(run[j]) \/ ~ Tmux(j)
        /\ \A j \in Hops : run'[j] = Idle /\ run[j] # Idle => ~ Tmux(j)
    BY <1>1, <1>6, <2>1, <2>2, EntryAssumption DEF Req, Replied, Idle, Quiet
  <2> QED
    BY <1>1, <1>2, <1>6, <2>2, <2>3, <2>4, <2>5, <2>6, <2>7, <2>8, <2>9, FlyKeeps
<1> QED
  BY <1>1, <1>3, <1>4, <1>5, <1>6 DEF PassOn, Outermost

(* The terminal moves, and the outermost hop hears of it.                  *)
LEMMA DispatchedKeeps ==
  ASSUME PathInv, NEW k \in Hops, Dispatched(k)
  PROVE  PathInv'
<1> USE DEF PathInv
<1>1. /\ run[k] # Idle /\ run[k].at = "dispatched"
      /\ UNCHANGED <<queue, alive, dir, receipt, poison, exec, key, target, asked>>
  BY DEF Dispatched, At, storeVars, keyVars
<1> PICK m \in Requests : m = run[k].n
  BY <1>1, HandlerFacts
<1>2. PICK moved \in {0, 1}, word \in {"armed", "declined", "error"} :
        /\ word = "armed" => moved = 1
        /\ word = "declined" => moved = 0
        /\ moves' = [moves EXCEPT ![m] = @ + moved]
        /\ Hear(k, word)
        /\ IF word = "error" THEN Fails ELSE Works
  BY DEF Dispatched, Req
<1>3. run[k].op = "navigate" /\ run[k].want = "navigate"
  BY <1>1, HandlerFacts DEF WellFormed, Ops
<1>4. GoesOn(k, "heard", "navigate", word)
  BY <1>1, <1>2, <1>3, HandlerFacts, GoGoesOn DEF Words
<1>5. GoesOnWell(k)
  BY <1>1, <1>3, <1>4, HandlerFacts
     DEF GoesOnWell, GoesOn, WellFormed, Follows, Settled, PassedOn, Executing, HoldsOn,
         Committed, Asking, Leads, Quiet, Setting, Navigating
<1>6. Leads(run[k]) /\ Navigating(run[k]) /\ ~ Settled(run[k]) /\ Settled(run'[k])
  BY <1>1, <1>3, <1>4 DEF GoesOn, Leads, Navigating, Settled
<1>7. /\ exec[m] = 0 /\ BeforeExec(m) /\ caller[m] # "idle"
      /\ \A j \in Hops : NoneQueued(j, m)
      /\ \A j \in Hops : j # k /\ run[j].n = m => j < k /\ PassedOn(run[j]) /\ ~ Leads(run[j])
  BY <1>1, <1>3, <1>6, NavigatingAlone
<1>8. moves[m] = 0 /\ ~ Spent(m)
  BY <1>6 DEF UserInv, Spent, AllCleared, Cleared
<1>9. /\ moves'[m] = moved /\ \A n \in Requests : n # m => moves'[n] = moves[n]
      /\ moves' \in [Requests -> Nat]
  BY <1>2, <1>8 DEF PathTypeOK
<1>10. PathTypeOK'
  <2>1. /\ run' \in [Hops -> Handlers]
        /\ caller' \in [Requests -> {"idle", "waiting", "armed", "declined", "error"}]
        /\ \A j \in Hops : run'[j] # Idle => WellFormed(j, run'[j])
    BY <1>4, <1>5, GoesOnTypes DEF GoesOnWell
  <2>2. disturbed' \in BOOLEAN
    BY <1>2 DEF PathTypeOK, Fails, Works
  <2> QED
    BY <1>1, <1>9, <2>1, <2>2 DEF PathTypeOK
<1>11. Calm
  BY <1>1, <1>4, <1>5, GoesOnCalm DEF GoesOnWell
<1>12. /\ \A j \in Hops : run'[j] # Idle => Quiet(j, run[j], run'[j])
       /\ \A j \in Hops : run[j] # Idle => run'[j] # Idle
       /\ \A n \in Requests : caller'[n] = caller[n]
  BY <1>4, <1>5 DEF GoesOn, GoesOnWell, Quiet
<1>13. FrontierInv' /\ ShapeInv' /\ CommitInv' /\ StoreInv' /\ ReadyInv'
  BY <1>1, <1>10, <1>11, <1>12, TalkLayers
<1>14. \A n \in Requests : Spent(n) => Spent(n)'
  BY <1>1, <1>11, <1>12, CalmStaysCleared DEF Spent, Answering
<1>15. Spent(m)'
  <2>1. \A j \in Hops : ~ Answering(j, m)'
    BY <1>1, <1>7 DEF Answering, BeforeExec
  <2>2. ASSUME NEW j \in Hops
        PROVE  Cleared(j, m)'
    <3>1. NoneQueued(j, m)'
      BY <1>1, <1>7 DEF NoneQueued, Slots
    <3>2. run'[j].n = m => Settled(run'[j])
      BY <1>4, <1>6, <1>7 DEF GoesOn, PassedOn, Settled
    <3> QED
      BY <3>1, <3>2 DEF Cleared
  <2> QED
    BY <1>7, <1>12, <2>1, <2>2 DEF Spent, AllCleared
<1>16. UserInv'
  <2> SUFFICES ASSUME NEW n \in Requests
               PROVE  (/\ moves[n] \in {0, 1}
                       /\ moves[n] = 1 => Spent(n)
                       /\ Told(n, "armed") => moves[n] = 1
                       /\ Told(n, "declined") => moves[n] = 0 /\ Spent(n)
                       /\ \A j \in Hops :
                            /\ exec[n] = j /\ receipt[j][n] = "handled" => moves[n] = 1
                            /\ run[j].n = n /\ run[j].at = "dispatched" => n \in asked)'
    BY DEF UserInv
  <2>1. \A w \in {"armed", "declined"} : Told(n, w)' => Told(n, w) \/ (n = m /\ w = word)
    BY <1>4 DEF GoesOn, Told
  <2>2. \A j \in Hops : run'[j].n = n /\ run'[j].at = "dispatched" => n \in asked'
    BY <1>1, <1>4 DEF GoesOn, UserInv
  <2>3. CASE n = m
    <3>1. ~ Told(m, "armed") /\ ~ Told(m, "declined")
      BY <1>8 DEF UserInv
    <3>2. \A j \in Hops : ~ (exec'[m] = j)
      BY <1>1, <1>7, HopsAssumption DEF Hops
    <3> QED
      BY <1>2, <1>9, <1>15, <2>1, <2>2, <2>3, <3>1, <3>2
  <2>4. CASE n # m
    BY <1>1, <1>9, <1>14, <2>1, <2>2, <2>4 DEF UserInv
  <2> QED
    BY <2>3, <2>4
<1> QED
  BY <1>10, <1>13, <1>16
-----------------------------------------------------------------------------
(* A directive is forgotten.                                               *)

LEMMA WithoutIs ==
  ASSUME PathTypeOK, NEW k \in Hops, NEW S
  PROVE  /\ Without(k, S) \in [Hops -> [Requests -> {"absent", "prepared", "ready", "claimed"}]]
         /\ \A j \in Hops, n \in Requests :
              Without(k, S)[j][n] = IF j = k /\ n \in S THEN "absent" ELSE dir[j][n]
BY DEF Without, PathTypeOK

LEMMA ForgetIs ==
  ASSUME PathTypeOK, NEW k \in Hops, Forget(k)
  PROVE  /\ dir' \in [Hops -> [Requests -> {"absent", "prepared", "ready", "claimed"}]]
         /\ receipt' \in [Hops -> [Requests -> {"none", "handled", "error"}]]
         /\ \A j \in Hops, n \in Requests :
              /\ dir'[j][n] = IF j = k /\ n = run[k].n THEN "absent" ELSE dir[j][n]
              /\ receipt'[j][n] = IF j = k /\ n = run[k].n THEN "none" ELSE receipt[j][n]
<1>1. dir' = Without(k, {run[k].n}) /\ receipt' = [receipt EXCEPT ![k][run[k].n] = "none"]
  BY DEF Forget, Req
<1>2. receipt \in [Hops -> [Requests -> {"none", "handled", "error"}]]
  BY DEF PathTypeOK
<1>3. /\ receipt' \in [Hops -> [Requests -> {"none", "handled", "error"}]]
      /\ \A j \in Hops, n \in Requests :
           receipt'[j][n] = IF j = k /\ n = run[k].n THEN "none" ELSE receipt[j][n]
  BY <1>1, <1>2
<1> QED
  BY <1>1, <1>3, WithoutIs

LEMMA ForgetKeeps ==
  ASSUME PathInv, Calm, NEW k \in Hops, NEW m \in Requests, run[k].n = m, Forget(k),
         ~ Holding(run[k]) \/ k \in poison',
         \/ poison' = poison
         \/ poison' = poison \cup {k} /\ \A n \in Requests : dir[k][n] # "absent" => n = m,
         run' \in [Hops -> Handlers],
         caller' \in [Requests -> {"idle", "waiting", "armed", "declined", "error"}],
         disturbed' \in BOOLEAN,
         UNCHANGED <<queue, alive, exec, key, target, asked, moves>>,
         \A n \in Requests : caller'[n] = "idle" => caller[n] = "idle",
         \A j \in Hops : run'[j] # Idle => WellFormed(j, run'[j]) /\ Quiet(j, run[j], run'[j]),
         \A j \in Hops : run'[j] # Idle /\ Setting(run'[j]) => run'[j] = run[j],
         \A j \in Hops : j # k /\ run[j] # Idle => run'[j] # Idle,
         \A n \in Requests, word \in {"armed", "declined"} : Told(n, word)' => Told(n, word),
         \A j \in Hops, n \in Requests : run'[j].n = n /\ run'[j].at = "dispatched" => run'[j] = run[j]
  PROVE  PathInv'
<1> USE DEF PathInv
<1>1. /\ dir' \in [Hops -> [Requests -> {"absent", "prepared", "ready", "claimed"}]]
      /\ receipt' \in [Hops -> [Requests -> {"none", "handled", "error"}]]
      /\ \A j \in Hops, n \in Requests :
           /\ dir'[j][n] = IF j = k /\ n = m THEN "absent" ELSE dir[j][n]
           /\ receipt'[j][n] = IF j = k /\ n = m THEN "none" ELSE receipt[j][n]
  BY ForgetIs
<1>2. PathTypeOK'
  <2>1. poison' \subseteq Hops
    BY DEF PathTypeOK
  <2> QED
    BY <1>1, <2>1 DEF PathTypeOK
<1>3. FrontierInv'
  BY CalmFrontier
<1>4. ShapeInv'
  <2>1. SamePhase
    BY <1>1 DEF SamePhase, SamePhaseOf, Quiet, ShapeInv, ShapeOf, BeforeExec
  <2> QED
    BY <2>1, CalmShape
<1>5. \A n \in Requests : \A j \in Hops : Answering(j, n)' => Answering(j, n)
  BY DEF Answering
<1>6. CommitInv'
  BY <1>5, CalmCommit DEF AnswerMoves
<1>7. StoreInv'
  <2> SUFFICES ASSUME NEW j \in Hops, NEW n \in Requests, dir'[j][n] # "absent"
               PROVE  /\ dir[j][n] # "absent" /\ j \notin poison'
                      /\ receipt'[j][n] # "none" => receipt[j][n] # "none"
                      /\ dir'[j][n] = "claimed" => dir[j][n] = "claimed"
                      /\ dir'[j][n] = "ready" /\ j \in alive' => run'[j].n = n /\ HoldsOn(run'[j])
                      /\ run'[j] # Idle /\ Committed(run'[j]) => n = run'[j].n
    BY <1>1, CalmStore
  <2>1. dir[j][n] = dir'[j][n] /\ ~ (j = k /\ n = m) /\ receipt'[j][n] = receipt[j][n]
    BY <1>1
  <2>2. Tmux(j) /\ j \notin poison
    BY <2>1 DEF StoreInv
  <2>3. j \notin poison'
    BY <2>1, <2>2
  <2>4. ASSUME dir[j][n] = "ready", j \in alive'
        PROVE  run'[j].n = n /\ HoldsOn(run'[j])
    <3>1. run[j].n = n /\ HoldsOn(run[j]) /\ run[j] # Idle
      BY <2>4, EntryAssumption DEF StoreInv, Idle
    <3>2. run'[j] # Idle
      BY <2>1, <3>1
    <3> QED
      BY <3>1, <3>2 DEF Calm, Follows
  <2>5. ASSUME run'[j] # Idle, Committed(run'[j])
        PROVE  n = run'[j].n
    <3>1. Committed(run[j]) /\ run[j] # Idle /\ run'[j].n = run[j].n
      BY <2>2, <2>5 DEF Calm, Follows, Quiet
    <3> QED
      BY <2>1, <3>1 DEF StoreInv
  <2> QED
    BY <2>1, <2>3, <2>4, <2>5
<1>8. ReadyInv'
  <2>1. \A n \in Requests : exec[n] <= exec'[n]
    BY HopsAssumption DEF PathTypeOK
  <2>2. \A n \in Requests, j \in Hops : Keeps(j, n)
    BY <1>1 DEF Keeps
  <2> QED
    BY <1>2, <2>1, <2>2, CalmReady
<1>9. UserInv'
  <2>1. \A j \in Hops, n \in Requests :
          exec'[n] = j /\ receipt'[j][n] = "handled" => exec[n] = j /\ receipt[j][n] = "handled"
    BY <1>1
  <2>2. \A j \in Hops, n \in Requests : run'[j].n = n /\ run'[j].at = "dispatched" => n \in asked'
    BY DEF UserInv
  <2> QED
    BY <1>5, <2>1, <2>2, CalmUser
<1> QED
  BY <1>2, <1>3, <1>4, <1>6, <1>7, <1>8, <1>9

(* The same, where the handler replies.                                    *)
LEMMA ForgetReplied ==
  ASSUME PathInv, NEW k \in Hops, run[k] # Idle, NEW word \in {"error", "aborted"}, Replied(k, word),
         word = "aborted" => run[k].op # "navigate",
         Forget(k), ~ Holding(run[k]) \/ k \in poison',
         \/ poison' = poison
         \/ poison' = poison \cup {k} /\ \A n \in Requests : dir[k][n] # "absent" => n = run[k].n,
         disturbed' \in BOOLEAN,
         UNCHANGED <<queue, alive, exec, key, target, asked, moves>>
  PROVE  PathInv'
<1> PICK m \in Requests : m = run[k].n
  BY HandlerFacts
<1>1. word \in Words /\ (run[k].op = "navigate" => word \in {"armed", "declined", "error"}) /\ word # "prepared"
  BY DEF Words
<1>2. /\ Calm
      /\ \A j \in Hops : run'[j] # Idle => Quiet(j, run[j], run'[j])
      /\ \A n \in Requests : caller'[n] = "idle" => caller[n] = "idle"
      /\ \A j \in Hops, n \in Requests : run'[j].n = n /\ run'[j].at = "dispatched" => run'[j] = run[j]
      /\ \A j \in Hops : j # k /\ run[j] # Idle => run'[j] # Idle
  BY <1>1, RepliedCalm DEF PathInv
<1>3. /\ run' \in [Hops -> Handlers]
      /\ caller' \in [Requests -> {"idle", "waiting", "armed", "declined", "error"}]
      /\ \A j \in Hops : run'[j] # Idle => WellFormed(j, run'[j])
  BY <1>1, RepliedTypes DEF PathInv
<1>4. ASSUME NEW n \in Requests, NEW w \in {"armed", "declined"}, Told(n, w)'
      PROVE  Told(n, w)
  BY <1>4, EntryAssumption DEF Told, Replied, HearsOf, Home, Idle
<1>5. \A j \in Hops : run'[j] # Idle /\ Setting(run'[j]) => run'[j] = run[j]
  BY DEF Replied, HearsOf, Setting
<1> QED
  BY <1>2, <1>3, <1>4, <1>5, ForgetKeeps

LEMMA DiscardKeeps ==
  ASSUME PathInv, NEW k \in Hops, Discard(k)
  PROVE  PathInv'
<1>1. /\ run[k] # Idle /\ run[k].at = "discard" /\ "error" \in Words
      /\ UNCHANGED <<queue, alive, poison, exec, key, target, asked, moves, disturbed>>
  BY DEF Discard, At, Words, keyVars, userVars
<1>2. Replied(k, "error") /\ Forget(k)
  BY <1>1, HandlerFacts, ReplyReplies DEF Discard
<1>3. ~ Holding(run[k])
  BY <1>1 DEF Holding, Settled
<1> QED
  BY <1>1, <1>2, <1>3, HandlerFacts, ForgetReplied

LEMMA GivesUpReceiptKeeps ==
  ASSUME PathInv, NEW k \in Hops, GivesUpReceipt(k)
  PROVE  PathInv'
<1>1. /\ run[k] # Idle /\ run[k].at = "wait" /\ "error" \in Words
      /\ poison' = poison \cup {k} /\ disturbed' = TRUE
      /\ UNCHANGED <<queue, alive, exec, key, target, asked, moves>>
  BY DEF GivesUpReceipt, At, Words, keyVars, userVars, Fails
<1>2. Replied(k, "error") /\ Forget(k)
  BY <1>1, HandlerFacts, ReplyReplies DEF GivesUpReceipt
<1>3. \A n \in Requests : dir[k][n] # "absent" => n = run[k].n
  BY <1>1 DEF PathInv, StoreInv, Committed
<1> QED
  BY <1>1, <1>2, <1>3, ForgetReplied

LEMMA AbortPathKeeps ==
  ASSUME PathInv, NEW k \in Hops, AbortPath(k)
  PROVE  PathInv'
<1>1. /\ run[k] # Idle /\ run[k].at = "start" /\ run[k].op = "abort" /\ "aborted" \in Words /\ "abort" \in Ops
      /\ UNCHANGED <<queue, alive, poison, exec, key, target, asked, moves, disturbed>>
  BY DEF AbortPath, Starts, At, Words, Ops, keyVars, userVars
<1> PICK m \in Requests : m = run[k].n
  BY <1>1, HandlerFacts
<1>2. ~ Holding(run[k]) /\ ~ HoldsOn(run[k])
  BY <1>1 DEF Holding, Settled, HoldsOn, Committed, Asking
<1>3. Forget(k) \/ UNCHANGED <<dir, receipt>>
  BY DEF AbortPath
<1>4. CASE Reply(k, "aborted")
  <2>1. Replied(k, "aborted")
    BY <1>1, <1>4, HandlerFacts, ReplyReplies
  <2>2. CASE Forget(k)
    BY <1>1, <1>2, <2>1, <2>2, HandlerFacts, ForgetReplied
  <2>3. CASE UNCHANGED <<dir, receipt>>
    BY <1>1, <1>2, <2>1, <2>3, HandlerFacts, TalkReplied DEF keyVars
  <2> QED
    BY <1>3, <2>2, <2>3
<1>5. CASE k # N /\ Ask(k, "abort")
  <2>1. GoesOn(k, "ask", "abort", run[k].word)
    BY <1>1, <1>5, HandlerFacts, GoGoesOn
  <2>2. GoesOnWell(k) /\ ~ Setting(run'[k])
    BY <1>1, <1>5, <2>1, HandlerFacts
       DEF GoesOnWell, GoesOn, WellFormed, Follows, Settled, PassedOn, Executing, HoldsOn,
           Committed, Asking, Leads, Quiet, Setting, Navigating
  <2>3. CASE Forget(k)
    <3>1. Calm
      BY <1>1, <2>1, <2>2, GoesOnCalm DEF GoesOnWell, PathInv
    <3>2. /\ run' \in [Hops -> Handlers]
          /\ caller' \in [Requests -> {"idle", "waiting", "armed", "declined", "error"}]
          /\ \A j \in Hops : run'[j] # Idle => WellFormed(j, run'[j])
      BY <2>1, <2>2, GoesOnTypes DEF GoesOnWell, PathInv
    <3>3. /\ \A j \in Hops : run'[j] # Idle => Quiet(j, run[j], run'[j])
          /\ \A j \in Hops : run[j] # Idle => run'[j] # Idle
          /\ \A j \in Hops : run'[j] # Idle /\ Setting(run'[j]) => run'[j] = run[j]
          /\ \A n \in Requests : caller'[n] = caller[n]
          /\ \A j \in Hops, n \in Requests : run'[j].n = n /\ run'[j].at = "dispatched" => run'[j] = run[j]
      BY <2>1, <2>2 DEF GoesOn, GoesOnWell, Quiet
    <3>4. \A n \in Requests, w \in {"armed", "declined"} : Told(n, w)' => Told(n, w)
      BY <2>1 DEF GoesOn, Told
    <3> QED
      BY <1>1, <1>2, <2>3, <3>1, <3>2, <3>3, <3>4, HandlerFacts, ForgetKeeps
  <2>4. CASE UNCHANGED <<dir, receipt>>
    BY <1>1, <2>1, <2>2, <2>4, HandlerFacts, TalkGoesOn DEF GoesOnWell, storeVars, keyVars
  <2> QED
    BY <1>3, <2>3, <2>4
<1> QED
  BY <1>4, <1>5 DEF AbortPath, Outermost
-----------------------------------------------------------------------------
(* The answer on its way inwards: no handler takes part.                   *)

LEMMA AnswerStep ==
  ASSUME PathInv, UNCHANGED <<run, queue, caller, alive, poison, exec, asked>>
  PROVE  /\ Calm
         /\ \A n \in Requests : AllCleared(n)' <=> AllCleared(n)
         /\ \A n \in Requests, word \in {"armed", "declined"} : Told(n, word)' <=> Told(n, word)
         /\ (/\ dir \in [Hops -> [Requests -> {"absent", "prepared", "ready", "claimed"}]]
             /\ receipt \in [Hops -> [Requests -> {"none", "handled", "error"}]]
             /\ key \in [Hops -> [Requests -> {"none", "flying", "running", "done"}]]
             /\ target \in [Hops -> [Requests -> Requests \cup {None}]]
             /\ moves \in [Requests -> Nat]
             /\ disturbed \in BOOLEAN)' => PathTypeOK'
<1>1. \A k \in Hops : run'[k] = Idle \/ Follows(run[k], run'[k])
  BY DEF Follows
<1>2. Calm
  BY <1>1 DEF Calm
<1>3. \A n \in Requests : AllCleared(n)' <=> AllCleared(n)
  BY DEF AllCleared, Cleared, NoneQueued, Slots
<1>4. \A n \in Requests, word \in {"armed", "declined"} : Told(n, word)' <=> Told(n, word)
  BY DEF Told
<1> QED
  BY <1>2, <1>3, <1>4 DEF PathInv, PathTypeOK

(* What holds of a request while its answer is on its way.                 *)
LEMMA AnsweringIs ==
  ASSUME PathInv, NEW k \in Hops, NEW r \in Requests, Answering(k, r)
  PROVE  /\ AllCleared(r) /\ Tmux(k) /\ exec[r] # 0 /\ exec[r] <= k /\ r \in asked
         /\ exec[r] \in Hops /\ Tmux(exec[r])
         /\ \A j \in Hops : j # k => ~ Answering(j, r)
         /\ caller[r] # "idle" /\ moves[r] = 0
         /\ ~ Told(r, "armed") /\ ~ Told(r, "declined")
         /\ \A j \in Hops : target[j][r] \in {None, r}
<1> USE DEF PathInv
<1>1. AllCleared(r) /\ Tmux(k) /\ exec[r] # 0 /\ exec[r] <= k /\ r \in asked
  BY DEF CommitInv
<1>2. exec[r] \in Hops /\ Tmux(exec[r])
  BY <1>1, HopsAssumption DEF PathTypeOK, ShapeInv, ShapeOf, Hops
<1>3. \A j \in Hops : j # k => ~ Answering(j, r)
  BY DEF CommitInv
<1>4. caller[r] # "idle"
  BY <1>1 DEF ShapeInv, ShapeOf
<1>5. moves[r] = 0 /\ ~ Told(r, "armed") /\ ~ Told(r, "declined")
  BY DEF UserInv, Spent
<1>6. \A j \in Hops : target[j][r] \in {None, r}
  BY DEF ReadyInv, KeyFine
<1> QED
  BY <1>1, <1>2, <1>3, <1>4, <1>5, <1>6

(* An answer that ends its way, executing nothing.                         *)
LEMMA KeyEnds ==
  ASSUME PathInv, NEW k \in Hops, NEW r \in Requests, Answering(k, r),
         key' = [key EXCEPT ![k][r] = "done"], disturbed' \in BOOLEAN,
         UNCHANGED <<pathVars, storeVars, target, userVars>>
  PROVE  PathInv'
<1> USE DEF PathInv, pathVars, storeVars, userVars
<1>1. /\ key' \in [Hops -> [Requests -> {"none", "flying", "running", "done"}]]
      /\ \A j \in Hops, n \in Requests : key'[j][n] = IF j = k /\ n = r THEN "done" ELSE key[j][n]
  BY DEF PathTypeOK
<1>2. PathTypeOK'
  BY <1>1, AnswerStep DEF PathTypeOK
<1>3. Calm
  BY AnswerStep
<1>4. FrontierInv'
  BY <1>3, CalmFrontier DEF PathTypeOK
<1>5. ShapeInv'
  <2>1. SamePhase
    BY <1>1, AnsweringIs DEF SamePhase, SamePhaseOf
  <2> QED
    BY <1>3, <2>1, CalmShape
<1>6. \A n \in Requests : \A j \in Hops : Answering(j, n)' => Answering(j, n)
  BY <1>1 DEF Answering
<1>7. CommitInv'
  BY <1>3, <1>6, CalmCommit DEF AnswerMoves
<1>8. StoreInv'
  BY AnswerStep DEF StoreInv, Tmux
<1>9. ReadyInv'
  <2>1. \A n \in Requests : exec[n] <= exec'[n]
    BY HopsAssumption DEF PathTypeOK
  <2>2. \A n \in Requests, j \in Hops : Keeps(j, n)
    BY DEF Keeps
  <2>3. KeyFine(k, r)'
    BY <1>1, AnsweringIs DEF KeyFine
  <2> QED
    BY <1>1, <1>2, <1>3, <2>1, <2>2, <2>3, CalmReady
<1>10. UserInv'
  <2>1. \A n \in Requests : Spent(n) => Spent(n)'
    BY <1>6, AnswerStep DEF Spent
  <2> QED
    BY <2>1, AnswerStep DEF UserInv
<1> QED
  BY <1>2, <1>4, <1>5, <1>7, <1>8, <1>9, <1>10

LEMMA LoseKeyKeeps ==
  ASSUME PathInv, NEW k \in Hops, NEW r \in Requests, LoseKey(k, r)
  PROVE  PathInv'
BY KeyEnds DEF LoseKey, Answering, Fails

LEMMA ClaimKeeps ==
  ASSUME PathInv, NEW k \in Hops, NEW r \in Requests, Claim(k, r)
  PROVE  PathInv'
<1> USE DEF PathInv
<1>1. key[k][r] = "flying" /\ Answering(k, r)
  BY DEF Claim, Answering
<1>2. UNCHANGED <<pathVars, receipt, poison, exec, userVars, disturbed>>
  BY DEF Claim
<1>3. CASE key' = [key EXCEPT ![k][r] = "done"] /\ UNCHANGED <<dir, target>>
  BY <1>1, <1>2, <1>3, KeyEnds DEF storeVars, PathTypeOK
<1>4. ASSUME NEW m \in Requests, dir[k][m] = "ready",
             dir' = [dir EXCEPT ![k][m] = "claimed"],
             target' = [target EXCEPT ![k][r] = m],
             key' = [key EXCEPT ![k][r] = "running"]
      PROVE  PathInv'
  <2> USE DEF pathVars, userVars
  <2>1. /\ AllCleared(r) /\ Tmux(k) /\ exec[r] # 0 /\ exec[r] <= k /\ r \in asked
        /\ \A j \in Hops : j # k => ~ Answering(j, r)
        /\ \A j \in Hops : target[j][r] \in {None, r}
    BY <1>1, AnsweringIs
  <2>2. m = r
    <3>1. ReadyBelow(k + 1, r)
      BY <1>1 DEF ReadyInv, KeyFine
    <3>2. dir[k][r] = "ready" \/ k \in poison
      BY <2>1, <3>1, HopsAssumption DEF ReadyBelow, Hops
    <3>3. k \notin poison
      BY <1>4 DEF StoreInv
    <3> QED
      BY <1>4, <3>2, <3>3 DEF StoreInv
  <2>3. /\ key' \in [Hops -> [Requests -> {"none", "flying", "running", "done"}]]
        /\ \A j \in Hops, n \in Requests : key'[j][n] = IF j = k /\ n = r THEN "running" ELSE key[j][n]
    BY <1>4 DEF PathTypeOK
  <2>4. /\ dir' \in [Hops -> [Requests -> {"absent", "prepared", "ready", "claimed"}]]
        /\ \A j \in Hops, n \in Requests : dir'[j][n] = IF j = k /\ n = r THEN "claimed" ELSE dir[j][n]
    BY <1>4, <2>2 DEF PathTypeOK
  <2>5. /\ target' \in [Hops -> [Requests -> Requests \cup {None}]]
        /\ \A j \in Hops, n \in Requests : target'[j][n] = IF j = k /\ n = r THEN r ELSE target[j][n]
    BY <1>4, <2>2 DEF PathTypeOK
  <2>6. PathTypeOK'
    BY <1>2, <2>3, <2>4, <2>5, AnswerStep DEF PathTypeOK
  <2>7. Calm
    BY <1>2, AnswerStep
  <2>8. FrontierInv'
    BY <2>6, <2>7, CalmFrontier DEF PathTypeOK
  <2>9. ShapeInv'
    <3>1. SamePhase
      BY <1>2, <2>1, <2>3, <2>4 DEF SamePhase, SamePhaseOf
    <3> QED
      BY <2>7, <3>1, CalmShape
  <2>10. \A n \in Requests : \A j \in Hops : Answering(j, n)' => Answering(j, n)
    BY <1>1, <2>3 DEF Answering
  <2>11. CommitInv'
    BY <1>2, <2>7, <2>10, CalmCommit DEF AnswerMoves
  <2>12. StoreInv'
    <3>1. \A j \in Hops, n \in Requests :
            /\ dir'[j][n] # "absent" => dir[j][n] # "absent"
            /\ dir'[j][n] = "claimed" => dir[j][n] = "claimed" \/ AllCleared(n)
            /\ dir'[j][n] = "ready" => dir[j][n] = "ready"
      BY <1>4, <2>1, <2>2, <2>4
    <3> QED
      BY <1>2, <2>7, <3>1, CalmStore DEF StoreInv
  <2>13. ReadyInv'
    <3>1. \A n \in Requests : exec[n] <= exec'[n]
      BY <1>2, HopsAssumption DEF PathTypeOK
    <3>2. \A n \in Requests : n # r => \A j \in Hops : Keeps(j, n)
      BY <1>2, <2>4 DEF Keeps
    <3>3. KeyFine(k, r)'
      <4>1. ReadyBelow(k + 1, r)
        BY <1>1 DEF ReadyInv, KeyFine
      <4>2. ReadyBelow(k, r)'
        BY <1>2, <2>4, <4>1, HopsAssumption DEF ReadyBelow, Hops, Tmux
      <4> QED
        BY <2>3, <2>5, <4>2 DEF KeyFine
    <3>4. \A j \in Hops : KeyFine(j, r)'
      BY <2>1, <2>3, <2>5, <3>3 DEF KeyFine, Answering
    <3> QED
      BY <1>2, <2>1, <2>3, <2>5, <2>6, <2>7, <3>1, <3>2, <3>4, CalmReady
  <2>14. UserInv'
    <3>1. \A n \in Requests : Spent(n) => Spent(n)'
      BY <1>2, <2>10, AnswerStep DEF Spent
    <3> QED
      BY <1>2, <3>1, AnswerStep DEF UserInv
  <2> QED
    BY <2>6, <2>8, <2>9, <2>11, <2>12, <2>13, <2>14
<1> QED
  BY <1>3, <1>4 DEF Claim

LEMMA RunKeeps ==
  ASSUME PathInv, NEW k \in Hops, NEW r \in Requests, Run(k, r)
  PROVE  PathInv'
<1> USE DEF PathInv, pathVars
<1>1. /\ key[k][r] = "running" /\ Answering(k, r)
      /\ UNCHANGED <<pathVars, poison, exec, target, asked>>
  BY DEF Run, Answering
<1>2. target[k][r] = r /\ ReadyBelow(k, r)
  BY <1>1 DEF ReadyInv, KeyFine
<1>3. PICK acted \in BOOLEAN, result \in {"handled", "error", "none"} :
        /\ result = "handled" => acted
        /\ IF result = "handled" THEN Works ELSE Fails
        /\ moves' = IF acted /\ exec[r] = k THEN [moves EXCEPT ![r] = @ + 1] ELSE moves
        /\ key' = IF acted /\ exec[r] # k THEN Written([key EXCEPT ![k][r] = "done"], k - 1, r)
                  ELSE [key EXCEPT ![k][r] = "done"]
        /\ receipt' = IF receipt[k][r] = "none" THEN [receipt EXCEPT ![k][r] = result] ELSE receipt
        /\ dir' = IF result = "none" THEN dir ELSE Without(k, {r})
  BY <1>2 DEF Run
<1>4. /\ AllCleared(r) /\ Tmux(k) /\ exec[r] # 0 /\ exec[r] <= k /\ r \in asked
      /\ exec[r] \in Hops /\ Tmux(exec[r])
      /\ \A j \in Hops : j # k => ~ Answering(j, r)
      /\ caller[r] # "idle" /\ moves[r] = 0
      /\ ~ Told(r, "armed") /\ ~ Told(r, "declined")
      /\ \A j \in Hops : target[j][r] \in {None, r}
  BY <1>1, AnsweringIs
<1>5. /\ dir' \in [Hops -> [Requests -> {"absent", "prepared", "ready", "claimed"}]]
      /\ \A j \in Hops, n \in Requests : (j # k \/ n # r) => dir'[j][n] = dir[j][n]
      /\ dir'[k][r] \in {dir[k][r], "absent"}
      /\ result # "none" => dir'[k][r] = "absent"
  BY <1>3, WithoutIs, SMTT(20) DEF PathTypeOK
<1>6. /\ receipt' \in [Hops -> [Requests -> {"none", "handled", "error"}]]
      /\ \A j \in Hops, n \in Requests : (j # k \/ n # r) => receipt'[j][n] = receipt[j][n]
      /\ receipt'[k][r] = IF receipt[k][r] = "none" THEN result ELSE receipt[k][r]
  BY <1>3 DEF PathTypeOK
<1>7. /\ key' \in [Hops -> [Requests -> {"none", "flying", "running", "done"}]]
      /\ \A j \in Hops, n \in Requests : n # r => key'[j][n] = key[j][n]
      /\ \A j \in Hops : Answering(j, r)' =>
           key'[j][r] = "flying" /\ j \in Toward(k - 1) /\ acted /\ exec[r] # k
      /\ \A i, j \in Toward(k - 1) : i = j
      /\ \A j \in Toward(k - 1) : j \in Hops /\ j <= k - 1 /\ Tmux(j)
      /\ exec[r] # k => \A j \in Toward(k - 1) : exec[r] <= j
  <2> DEFINE away == [key EXCEPT ![k][r] = "done"]
  <2>1. /\ away \in [Hops -> [Requests -> {"none", "flying", "running", "done"}]]
        /\ \A j \in Hops, n \in Requests : away[j][n] = IF j = k /\ n = r THEN "done" ELSE key[j][n]
    BY DEF PathTypeOK
  <2>2. key' = IF acted /\ exec[r] # k THEN Written(away, k - 1, r) ELSE away
    BY <1>3
  <2> HIDE DEF away
  <2>3. k - 1 \in 0 .. N
    BY HopsAssumption DEF Hops
  <2>4. /\ Written(away, k - 1, r) \in [Hops -> [Requests -> {"none", "flying", "running", "done"}]]
        /\ \A j \in Hops, n \in Requests :
             Written(away, k - 1, r)[j][n] = IF j \in Toward(k - 1) /\ n = r THEN "flying" ELSE away[j][n]
        /\ \A i, j \in Toward(k - 1) : i = j
        /\ \A j \in Toward(k - 1) : j \in Hops /\ j <= k - 1 /\ Tmux(j)
        /\ \A j \in Toward(k - 1), i \in Hops : Tmux(i) /\ i <= k - 1 => i <= j
    BY <2>1, <2>3, WrittenKeys
  <2>5. ASSUME exec[r] # k, NEW j \in Toward(k - 1)
        PROVE  exec[r] <= j
    <3>1. exec[r] <= k - 1
      BY <1>4, <2>5, HopsAssumption DEF Hops
    <3> QED
      BY <1>4, <2>4, <3>1
  <2>6. \A j \in Hops : ~ (away[j][r] \in {"flying", "running"})
    BY <1>4, <2>1 DEF Answering
  <2>7. CASE acted /\ exec[r] # k
    BY <2>1, <2>2, <2>4, <2>5, <2>6, <2>7 DEF Answering
  <2>8. CASE ~ (acted /\ exec[r] # k)
    BY <2>1, <2>2, <2>4, <2>5, <2>6, <2>8 DEF Answering
  <2> QED
    BY <2>7, <2>8
<1>8. /\ moves' \in [Requests -> Nat]
      /\ \A n \in Requests : n # r => moves'[n] = moves[n]
      /\ moves'[r] = IF acted /\ exec[r] = k THEN 1 ELSE 0
  BY <1>3, <1>4 DEF PathTypeOK
<1>9. PathTypeOK'
  <2>1. disturbed' \in BOOLEAN
    BY <1>3 DEF PathTypeOK, Works, Fails
  <2> QED
    BY <1>1, <1>5, <1>6, <1>7, <1>8, <2>1, AnswerStep DEF PathTypeOK
<1>10. /\ Calm
       /\ \A n \in Requests : AllCleared(n)' <=> AllCleared(n)
       /\ \A n \in Requests, word \in {"armed", "declined"} : Told(n, word)' <=> Told(n, word)
  BY <1>1, AnswerStep
<1>11. FrontierInv'
  BY <1>9, <1>10, CalmFrontier DEF PathTypeOK
<1>12. ShapeInv'
  <2>1. SamePhase
    BY <1>1, <1>4, <1>5, <1>6, <1>7 DEF SamePhase, SamePhaseOf
  <2> QED
    BY <1>10, <2>1, CalmShape
<1>13. \A n \in Requests : n # r => \A j \in Hops : Answering(j, n)' => Answering(j, n)
  BY <1>7 DEF Answering
<1>14. CommitInv'
  <2>1. AnswerMoves(r)
    <3>1. CASE \A j \in Hops : ~ Answering(j, r)'
      BY <3>1 DEF AnswerMoves
    <3>2. ASSUME NEW j \in Hops, Answering(j, r)'
          PROVE  AnswerMoves(r)
      BY <1>1, <1>4, <1>7, <1>10, <3>2 DEF AnswerMoves
    <3> QED
      BY <3>1, <3>2
  <2>2. \A n \in Requests : AnswerMoves(n)
    BY <1>13, <2>1 DEF AnswerMoves
  <2> QED
    BY <1>1, <1>10, <2>2, CalmCommit
<1>15. StoreInv'
  <2>1. \A j \in Hops, n \in Requests :
          /\ dir'[j][n] # "absent" => dir'[j][n] = dir[j][n]
          /\ receipt'[j][n] # "none" => receipt[j][n] # "none" \/ dir'[j][n] = "absent"
    BY <1>5, <1>6
  <2> QED
    BY <1>1, <1>10, <2>1, CalmStore DEF StoreInv
<1>16. ReadyInv'
  <2>1. \A n \in Requests : exec[n] <= exec'[n]
    BY <1>1, HopsAssumption DEF PathTypeOK
  <2>2. \A n \in Requests : n # r => \A j \in Hops : Keeps(j, n)
    BY <1>1, <1>5 DEF Keeps
  <2>3. ASSUME NEW j \in Hops
        PROVE  KeyFine(j, r)'
    <3>1. j < k => ReadyBelow(j + 1, r)'
      BY <1>1, <1>2, <1>5, HopsAssumption DEF ReadyBelow, Hops, Tmux
    <3>2. key'[j][r] = "flying" => j < k
      BY <1>7, HopsAssumption DEF Answering, Hops
    <3>3. key'[j][r] # "running"
      BY <1>7 DEF Answering
    <3> QED
      BY <1>1, <1>4, <3>1, <3>2, <3>3 DEF KeyFine
  <2> QED
    BY <1>1, <1>4, <1>7, <1>9, <1>10, <2>1, <2>2, <2>3, CalmReady
<1>17. UserInv'
  <2> SUFFICES ASSUME NEW n \in Requests
               PROVE  (/\ moves[n] \in {0, 1}
                       /\ moves[n] = 1 => Spent(n)
                       /\ Told(n, "armed") => moves[n] = 1
                       /\ Told(n, "declined") => moves[n] = 0 /\ Spent(n)
                       /\ \A j \in Hops :
                            /\ exec[n] = j /\ receipt[j][n] = "handled" => moves[n] = 1
                            /\ run[j].n = n /\ run[j].at = "dispatched" => n \in asked)'
    BY DEF UserInv
  <2>1. \A j \in Hops : run'[j].n = n /\ run'[j].at = "dispatched" => n \in asked'
    BY <1>1 DEF UserInv
  <2>2. CASE n # r
    <3>1. Spent(n) => Spent(n)'
      BY <1>1, <1>10, <1>13, <2>2 DEF Spent
    <3> QED
      BY <1>1, <1>6, <1>8, <1>10, <2>1, <2>2, <3>1 DEF UserInv
  <2>3. CASE n = r
    <3>1. moves'[r] = 1 => Spent(r)'
      BY <1>1, <1>4, <1>7, <1>8, <1>10 DEF Spent
    <3>2. \A j \in Hops : exec'[r] = j /\ receipt'[j][r] = "handled" => moves'[r] = 1
      BY <1>1, <1>3, <1>4, <1>6, <1>8 DEF UserInv
    <3> QED
      BY <1>4, <1>8, <1>10, <2>1, <2>3, <3>1, <3>2
  <2> QED
    BY <2>2, <2>3
<1> QED
  BY <1>9, <1>11, <1>12, <1>14, <1>15, <1>16, <1>17
-----------------------------------------------------------------------------
(* A directive is committed, and one is prepared.                          *)

LEMMA CommitKeeps ==
  ASSUME PathInv, NEW k \in Hops, Commit(k)
  PROVE  PathInv'
<1> USE DEF PathInv
<1>1. /\ run[k] # Idle /\ Tmux(k)
      /\ \/ run[k].at = "commit" /\ run[k].op = "navigate"
         \/ run[k].at = "start" /\ run[k].op = "commit"
      /\ "emit" \in Places /\ "commit" \in Ops
      /\ UNCHANGED <<queue, alive, receipt, poison, exec, key, target, asked, moves, disturbed>>
  BY HandlerFacts DEF Commit, Committing, Starts, At, Places, Ops, WellFormed, keyVars, userVars
<1> PICK m \in Requests : m = run[k].n
  BY <1>1, HandlerFacts
<1>2. /\ dir[k][m] # "absent"
      /\ dir' = [dir EXCEPT ![k][m] = IF dir[k][m] = "prepared" THEN "ready" ELSE dir[k][m]]
  BY DEF Commit, Req
<1>3. ~ Settled(run[k]) /\ ~ Navigating(run[k])
  BY <1>1 DEF Settled, Navigating, Asking
<1>4. dir[k][m] # "claimed"
  BY <1>3 DEF StoreInv, AllCleared, Cleared
<1>5. /\ dir' \in [Hops -> [Requests -> {"absent", "prepared", "ready", "claimed"}]]
      /\ \A j \in Hops, n \in Requests : dir'[j][n] = IF j = k /\ n = m THEN "ready" ELSE dir[j][n]
  BY <1>2, <1>4 DEF PathTypeOK
<1>6. \/ k = N /\ GoesOn(k, "emit", run[k].want, run[k].word)
      \/ k # N /\ GoesOn(k, "ask", "commit", run[k].word)
  BY <1>1, HandlerFacts, GoGoesOn DEF Commit, Outermost
<1>7. /\ WellFormed(k, run'[k]) /\ Follows(run[k], run'[k]) /\ (Leads(run'[k]) => Leads(run[k]))
      /\ Committed(run'[k]) /\ run'[k] # Idle /\ run'[k].n = m /\ ~ (run'[k].op = "commit" /\ run'[k].at = "start")
  BY <1>1, <1>6, HandlerFacts
     DEF GoesOn, WellFormed, Follows, Settled, PassedOn, Executing, HoldsOn,
         Committed, Asking, Leads, Quiet, Setting, Navigating
<1>8. PathTypeOK'
  <2>1. /\ run' \in [Hops -> Handlers]
        /\ caller' \in [Requests -> {"idle", "waiting", "armed", "declined", "error"}]
        /\ \A j \in Hops : run'[j] # Idle => WellFormed(j, run'[j])
    BY <1>6, <1>7, GoesOnTypes
  <2> QED
    BY <1>1, <1>5, <2>1 DEF PathTypeOK
<1>9. Calm
  BY <1>1, <1>6, <1>7, GoesOnCalm
<1>10. /\ \A j \in Hops : j # k => run'[j] = run[j]
       /\ \A n \in Requests : caller'[n] = caller[n]
       /\ run'[k].at # "heard" /\ run'[k].at # "dispatched"
  BY <1>6 DEF GoesOn
<1>11. FrontierInv'
  BY <1>8, <1>9, CalmFrontier DEF PathTypeOK
<1>12. exec[m] # 0
  BY <1>1, <1>3 DEF ShapeInv, ShapeOf, BeforeExec
<1>13. ShapeInv'
  <2>1. SamePhase
    BY <1>1, <1>3, <1>5, <1>10, <1>12 DEF SamePhase, SamePhaseOf
  <2> QED
    BY <1>9, <2>1, CalmShape
<1>14. \A n \in Requests : \A j \in Hops : Answering(j, n)' => Answering(j, n)
  BY <1>1 DEF Answering
<1>15. CommitInv'
  BY <1>1, <1>9, <1>14, CalmCommit DEF AnswerMoves
<1>16. StoreInv'
  <2>1. \A j \in Hops, n \in Requests :
          /\ dir'[j][n] # "absent" => dir[j][n] # "absent"
          /\ dir'[j][n] = "claimed" => dir[j][n] = "claimed"
          /\ dir'[j][n] = "ready" => dir[j][n] = "ready" \/ (j = k /\ n = m)
    BY <1>2, <1>5
  <2>2. HoldsOn(run'[k])
    BY <1>7 DEF HoldsOn
  <2>3. \A n \in Requests : dir[k][n] # "absent" => n = m
    BY <1>2 DEF StoreInv
  <2> QED
    BY <1>1, <1>7, <1>9, <1>10, <2>1, <2>2, <2>3, CalmStore DEF StoreInv
<1>17. ReadyInv'
  <2>1. \A n \in Requests : exec[n] <= exec'[n]
    BY <1>1, HopsAssumption DEF PathTypeOK
  <2>2. \A n \in Requests, j \in Hops : Keeps(j, n)
    BY <1>1, <1>5 DEF Keeps
  <2>3. ReadyBelow(k + 1, m)'
    <3> SUFFICES ASSUME NEW j \in Hops, exec[m] <= j, j < k + 1, Tmux(j)
                 PROVE  dir'[j][m] = "ready" \/ j \in poison'
      BY <1>1 DEF ReadyBelow, Tmux
    <3>1. CASE j = k
      BY <1>5, <3>1
    <3>2. CASE j # k /\ run[k].op = "commit"
      BY <1>1, <1>5, <3>2, HopsAssumption DEF ReadyInv, ReadyBelow, Hops
    <3>3. CASE j # k /\ run[k].op = "navigate"
      <4>1. exec[m] = k
        BY <1>1, <3>3, ExecutingHere DEF Executing
      <4> QED
        BY <3>3, <4>1, HopsAssumption DEF Hops
    <3> QED
      BY <1>1, <3>1, <3>2, <3>3
  <2>4. \A j \in Hops : run'[j] # Idle /\ Setting(run'[j]) =>
            \/ run'[j] = run[j]
            \/ ~ (run'[j].op = "commit" /\ run'[j].at = "start") /\ ReadyBelow(j + 1, run[j].n)'
    BY <1>7, <1>10, <2>3
  <2> QED
    BY <1>1, <1>8, <1>9, <2>1, <2>2, <2>4, CalmReady
<1>18. UserInv'
  <2>1. \A n \in Requests, word \in {"armed", "declined"} : Told(n, word)' => Told(n, word)
    BY <1>10 DEF Told
  <2>2. \A j \in Hops, n \in Requests :
          /\ exec'[n] = j /\ receipt'[j][n] = "handled" => exec[n] = j /\ receipt[j][n] = "handled"
          /\ run'[j].n = n /\ run'[j].at = "dispatched" => n \in asked'
    BY <1>1, <1>10 DEF UserInv
  <2> QED
    BY <1>1, <1>9, <1>10, <1>14, <2>1, <2>2, CalmUser
<1> QED
  BY <1>8, <1>11, <1>13, <1>15, <1>16, <1>17, <1>18

(* What an arming hop does to its store and its handler, in whichever of   *)
(* its outcomes.                                                           *)
Arms(k, m) ==
  /\ \A j \in Hops, n \in Requests : j # k => dir'[j][n] = dir[j][n]
  /\ \A n \in Requests : dir[k][n] = "ready" => dir'[k][n] = "ready"
  /\ \/ \A n \in Requests : dir'[k][n] \in {dir[k][n], "absent"}
     \/ /\ k \notin poison /\ receipt[k][m] = "none"
        /\ \A n \in Requests : dir'[k][n] = IF n = m THEN "prepared" ELSE "absent"
  /\ \A n \in Requests : \/ exec'[n] = exec[n]
                         \/ n = m /\ exec[m] = 0 /\ exec'[m] = k /\ receipt[k][m] = "none"
ArmingTalks ==
  /\ \A n \in Requests : caller'[n] = "idle" => caller[n] = "idle"
  /\ \A j \in Hops : run'[j] # Idle /\ Committed(run'[j]) => Committed(run[j]) \/ ~ Tmux(j)
  /\ \A j \in Hops : run'[j] # Idle /\ Setting(run'[j]) => run'[j] = run[j]
  /\ \A n \in Requests, word \in {"armed", "declined"} : Told(n, word)' => Told(n, word)
  /\ \A j \in Hops, n \in Requests : run'[j].n = n /\ run'[j].at = "dispatched" => run'[j] = run[j]

LEMMA ArmedLayers ==
  ASSUME PathInv, PathTypeOK', Calm, ShapeInv', NEW k \in Hops, NEW m \in Requests, Tmux(k),
         run[k] # Idle, run[k].n = m, ~ HoldsOn(run[k]),
         Arms(k, m), ArmingTalks,
         UNCHANGED <<alive, receipt, poison, keyVars, userVars>>,
         \A j \in Hops : j # k /\ run[j] # Idle => run'[j] # Idle
  PROVE  PathInv'
<1> USE DEF PathInv, keyVars, userVars, Arms, ArmingTalks
<1>1. FrontierInv'
  BY CalmFrontier DEF PathTypeOK
<1>2. \A n \in Requests : \A j \in Hops : Answering(j, n)' => Answering(j, n)
  BY DEF Answering
<1>3. CommitInv'
  BY <1>2, CalmCommit DEF AnswerMoves
<1>4. ASSUME NEW j \in Hops, NEW n \in Requests, dir'[j][n] = "ready", j \in alive'
      PROVE  run'[j].n = n /\ HoldsOn(run'[j])
  <2>1. dir[j][n] = "ready"
    BY <1>4
  <2>2. run[j].n = n /\ HoldsOn(run[j]) /\ run[j] # Idle
    BY <1>4, <2>1, EntryAssumption DEF StoreInv, Idle
  <2>3. run'[j] # Idle
    BY <2>2
  <2> QED
    BY <2>2, <2>3 DEF Calm, Follows
<1>5. ASSUME NEW j \in Hops, NEW n \in Requests, run'[j] # Idle, Committed(run'[j]), dir'[j][n] # "absent"
      PROVE  n = run'[j].n
  <2>1. Tmux(j)
    BY <1>5 DEF StoreInv
  <2>2. Committed(run[j]) /\ run[j] # Idle /\ run'[j].n = run[j].n
    BY <1>5, <2>1 DEF Calm, Follows
  <2>3. j # k
    BY <2>2 DEF HoldsOn
  <2> QED
    BY <1>5, <2>2, <2>3 DEF StoreInv
<1>6. StoreInv'
  <2>1. CASE \A n \in Requests : dir'[k][n] \in {dir[k][n], "absent"}
    <3>1. \A j \in Hops, n \in Requests : dir'[j][n] # "absent" => dir'[j][n] = dir[j][n]
      BY <2>1
    <3>2. \A j \in Hops, n \in Requests :
            /\ dir'[j][n] # "absent" => dir[j][n] # "absent" /\ j \notin poison'
            /\ dir'[j][n] = "claimed" => dir[j][n] = "claimed"
      BY <3>1 DEF StoreInv
    <3> QED
      BY <1>4, <1>5, <3>2, CalmStore
  <2>2. CASE /\ k \notin poison /\ receipt[k][m] = "none"
             /\ \A n \in Requests : dir'[k][n] = IF n = m THEN "prepared" ELSE "absent"
    <3>1. (\A j \in Hops, n, i \in Requests : dir[j][n] # "absent" /\ dir[j][i] # "absent" => n = i)'
      BY <2>2 DEF StoreInv
    <3>2. (\A j \in Hops, n \in Requests : dir[j][n] # "absent" => Tmux(j) /\ j \notin poison)'
      BY <2>2 DEF StoreInv, Tmux
    <3>3. (\A j \in Hops, n \in Requests : receipt[j][n] # "none" => dir[j][n] = "absent")'
      BY <2>2 DEF StoreInv
    <3>4. (\A j \in Hops, n \in Requests : dir[j][n] = "claimed" => AllCleared(n))'
      BY <2>2, CalmStaysCleared DEF StoreInv
    <3> QED
      BY <1>4, <1>5, <3>1, <3>2, <3>3, <3>4 DEF StoreInv
  <2> QED
    BY <2>1, <2>2
<1>7. ReadyInv'
  <2>1. ASSUME NEW n \in Requests
        PROVE  exec[n] <= exec'[n]
    <3>1. exec[n] \in 0 .. N /\ exec'[n] \in 0 .. N
      BY DEF PathTypeOK
    <3>2. exec'[n] = exec[n] \/ exec[n] = 0
      OBVIOUS
    <3> QED
      BY <3>1, <3>2, HopsAssumption
  <2>2. \A n \in Requests, j \in Hops : Keeps(j, n)
    BY DEF Keeps
  <2> QED
    BY <2>1, <2>2, CalmReady
<1>8. UserInv'
  <2>1. \A j \in Hops, n \in Requests :
          /\ exec'[n] = j /\ receipt'[j][n] = "handled" => exec[n] = j /\ receipt[j][n] = "handled"
          /\ run'[j].n = n /\ run'[j].at = "dispatched" => n \in asked'
    BY DEF UserInv
  <2> QED
    BY <1>2, <2>1, CalmUser
<1> QED
  BY <1>1, <1>3, <1>6, <1>7, <1>8

LEMMA ArmKeeps ==
  ASSUME PathInv, NEW k \in Hops, Arm(k)
  PROVE  PathInv'
<1> USE DEF PathInv
<1>1. /\ run[k] # Idle /\ Tmux(k)
      /\ \/ run[k].at = "arm" /\ run[k].op = "navigate"
         \/ run[k].at = "start" /\ run[k].op = "prepare"
      /\ "commit" \in Places /\ "prepare" \in Ops /\ "error" \in Words /\ "prepared" \in Words
      /\ UNCHANGED <<queue, alive, receipt, poison, keyVars, userVars>>
  BY HandlerFacts DEF Arm, Arming, Starts, At, Places, Ops, Words, WellFormed
<1> PICK m \in Requests : m = run[k].n
  BY <1>1, HandlerFacts
<1> DEFINE free(stale) == k \notin poison /\ stale = Others(k) /\ receipt[k][m] = "none"
<1>2. PICK stale \in SUBSET {n \in Others(k) : dir[k][n] = "prepared"} :
        /\ dir' = IF free(stale) THEN [Without(k, stale) EXCEPT ![k][m] = "prepared"] ELSE Without(k, stale)
        /\ exec' = IF free(stale) /\ run[k].op = "navigate" THEN [exec EXCEPT ![m] = k] ELSE exec
        /\ disturbed' = (disturbed \/ stale # {})
        /\ \/ ~ free(stale) /\ Reply(k, "error")
           \/ free(stale) /\ k # N /\ Ask(k, "prepare")
           \/ /\ free(stale) /\ k = N
              /\ IF run[k].op = "navigate" THEN Go(k, "commit") ELSE Reply(k, "prepared")
  BY DEF Arm, Req, Outermost
<1>3. /\ ~ HoldsOn(run[k]) /\ ~ Settled(run[k]) /\ Leads(run[k])
      /\ run[k].op = "navigate" => Navigating(run[k])
      /\ run[k].op = "prepare" => ~ Navigating(run[k])
  BY <1>1 DEF HoldsOn, Committed, Asking, Settled, Leads, Navigating
<1>4. \A n \in stale : n \in Requests /\ dir[k][n] = "prepared"
  BY DEF Others
<1>5. disturbed' \in BOOLEAN
  BY <1>2 DEF PathTypeOK
<1>6. CASE ~ free(stale)
  <2>1. dir' = Without(k, stale) /\ exec' = exec /\ Reply(k, "error")
    BY <1>2, <1>6
  <2>2. /\ dir' \in [Hops -> [Requests -> {"absent", "prepared", "ready", "claimed"}]]
        /\ \A j \in Hops, n \in Requests : dir'[j][n] = IF j = k /\ n \in stale THEN "absent" ELSE dir[j][n]
    BY <2>1, WithoutIs
  <2>3. Replied(k, "error")
    BY <1>1, <2>1, HandlerFacts, ReplyReplies
  <2>4. /\ Calm
        /\ \A j \in Hops : run'[j] # Idle => Quiet(j, run[j], run'[j])
        /\ \A n \in Requests : caller'[n] = "idle" => caller[n] = "idle"
        /\ \A j \in Hops, n \in Requests : run'[j].n = n /\ run'[j].at = "dispatched" => run'[j] = run[j]
        /\ \A j \in Hops : j # k /\ run[j] # Idle => run'[j] # Idle
    BY <1>1, <2>3, RepliedCalm
  <2>5. PathTypeOK'
    <3>1. /\ run' \in [Hops -> Handlers]
          /\ caller' \in [Requests -> {"idle", "waiting", "armed", "declined", "error"}]
          /\ \A j \in Hops : run'[j] # Idle => WellFormed(j, run'[j])
      BY <1>1, <2>3, RepliedTypes
    <3> QED
      BY <1>1, <1>5, <2>1, <2>2, <3>1 DEF PathTypeOK, keyVars, userVars
  <2>6. ShapeInv'
    <3>1. SamePhase
      BY <1>1, <1>4, <2>1, <2>2, <2>4 DEF SamePhase, SamePhaseOf, Quiet, ShapeInv, ShapeOf, BeforeExec, keyVars
    <3> QED
      BY <2>4, <3>1, CalmShape
  <2>7. /\ \A j \in Hops, n \in Requests : j # k => dir'[j][n] = dir[j][n]
        /\ \A n \in Requests : dir[k][n] = "ready" => dir'[k][n] = "ready"
        /\ \A n \in Requests : dir'[k][n] \in {dir[k][n], "absent"}
    BY <1>4, <2>2
  <2>8. ASSUME NEW n \in Requests, NEW w \in {"armed", "declined"}, Told(n, w)'
        PROVE  Told(n, w)
    BY <2>3, <2>8, EntryAssumption DEF Told, Replied, HearsOf, Home, Idle
  <2>9. /\ \A j \in Hops : run'[j] # Idle /\ Setting(run'[j]) => run'[j] = run[j]
        /\ \A j \in Hops : run'[j] # Idle /\ Committed(run'[j]) => Committed(run[j]) \/ ~ Tmux(j)
    BY <2>3, <2>4 DEF Replied, HearsOf, Setting, Quiet
  <2>10. \A n \in Requests : exec'[n] = exec[n]
    BY <2>1
  <2>11. Arms(k, m)
    BY <2>7, <2>10 DEF Arms
  <2>12. ArmingTalks
    BY <2>4, <2>8, <2>9 DEF ArmingTalks
  <2> QED
    BY <1>1, <1>3, <2>4, <2>5, <2>6, <2>11, <2>12, ArmedLayers
<1>7. CASE free(stale)
  <2>1. /\ k \notin poison /\ stale = Others(k) /\ receipt[k][m] = "none"
        /\ dir' = [Without(k, stale) EXCEPT ![k][m] = "prepared"]
        /\ exec' = IF run[k].op = "navigate" THEN [exec EXCEPT ![m] = k] ELSE exec
    BY <1>2, <1>7
  <2>2. /\ dir' \in [Hops -> [Requests -> {"absent", "prepared", "ready", "claimed"}]]
        /\ \A j \in Hops, n \in Requests : j # k => dir'[j][n] = dir[j][n]
        /\ \A n \in Requests : dir'[k][n] = IF n = m THEN "prepared" ELSE "absent"
    <3>1. /\ Without(k, stale) \in [Hops -> [Requests -> {"absent", "prepared", "ready", "claimed"}]]
          /\ \A j \in Hops, n \in Requests :
               Without(k, stale)[j][n] = IF j = k /\ n \in stale THEN "absent" ELSE dir[j][n]
      BY WithoutIs
    <3>2. \A n \in Requests : n \notin stale => dir[k][n] = "absent"
      BY <2>1 DEF Others
    <3> QED
      BY <2>1, <3>1, <3>2
  <2>3. \A n \in Requests : dir[k][n] # "ready" /\ dir[k][n] # "claimed"
    BY <1>4, <2>1 DEF Others
  <2>4. CASE run[k].op = "prepare"
    <3>1. exec' = exec /\ exec[m] # 0
      BY <1>3, <2>1, <2>4 DEF ShapeInv, ShapeOf, BeforeExec
    <3>2. /\ PathTypeOK' /\ Calm
          /\ \A j \in Hops : run'[j] # Idle => Quiet(j, run[j], run'[j])
          /\ \A n \in Requests : caller'[n] = "idle" => caller[n] = "idle"
          /\ \A j \in Hops, n \in Requests : run'[j].n = n /\ run'[j].at = "dispatched" => run'[j] = run[j]
          /\ \A j \in Hops : j # k /\ run[j] # Idle => run'[j] # Idle
          /\ \A n \in Requests, w \in {"armed", "declined"} : Told(n, w)' => Told(n, w)
          /\ \A j \in Hops : run'[j] # Idle /\ Setting(run'[j]) => run'[j] = run[j]
      <4>1. CASE k # N /\ Ask(k, "prepare")
        <5>1. GoesOn(k, "ask", "prepare", run[k].word)
          BY <1>1, <4>1, HandlerFacts, GoGoesOn
        <5>2. GoesOnWell(k) /\ ~ Setting(run'[k])
          BY <1>1, <2>4, <4>1, <5>1, HandlerFacts
             DEF GoesOnWell, GoesOn, WellFormed, Follows, Settled, PassedOn, Executing, HoldsOn,
                 Committed, Asking, Leads, Quiet, Setting, Navigating
        <5>3. /\ run' \in [Hops -> Handlers]
              /\ caller' \in [Requests -> {"idle", "waiting", "armed", "declined", "error"}]
              /\ \A j \in Hops : run'[j] # Idle => WellFormed(j, run'[j])
          BY <5>1, <5>2, GoesOnTypes DEF GoesOnWell
        <5>4. PathTypeOK'
          BY <1>1, <1>5, <2>2, <3>1, <5>3 DEF PathTypeOK, keyVars, userVars
        <5>5. Calm
          BY <1>1, <5>1, <5>2, GoesOnCalm DEF GoesOnWell
        <5>6. /\ \A j \in Hops : run'[j] # Idle => Quiet(j, run[j], run'[j])
              /\ \A j \in Hops : run[j] # Idle => run'[j] # Idle
              /\ \A j \in Hops : run'[j] # Idle /\ Setting(run'[j]) => run'[j] = run[j]
              /\ \A n \in Requests : caller'[n] = caller[n]
              /\ \A j \in Hops, n \in Requests : run'[j].n = n /\ run'[j].at = "dispatched" => run'[j] = run[j]
          BY <5>1, <5>2 DEF GoesOn, GoesOnWell, Quiet
        <5>7. \A n \in Requests, w \in {"armed", "declined"} : Told(n, w)' => Told(n, w)
          BY <5>1 DEF GoesOn, Told
        <5> QED
          BY <5>4, <5>5, <5>6, <5>7
      <4>2. CASE Reply(k, "prepared")
        <5>1. Replied(k, "prepared")
          BY <1>1, <4>2, HandlerFacts, ReplyReplies
        <5>2. /\ Calm
              /\ \A j \in Hops : run'[j] # Idle => Quiet(j, run[j], run'[j])
              /\ \A n \in Requests : caller'[n] = "idle" => caller[n] = "idle"
              /\ \A j \in Hops, n \in Requests : run'[j].n = n /\ run'[j].at = "dispatched" => run'[j] = run[j]
              /\ \A j \in Hops : j # k /\ run[j] # Idle => run'[j] # Idle
          BY <1>1, <1>3, <5>1, RepliedCalm
        <5>3. /\ run' \in [Hops -> Handlers]
              /\ caller' \in [Requests -> {"idle", "waiting", "armed", "declined", "error"}]
              /\ \A j \in Hops : run'[j] # Idle => WellFormed(j, run'[j])
          BY <1>1, <2>4, <5>1, RepliedTypes
        <5>4. PathTypeOK'
          BY <1>1, <1>5, <2>2, <3>1, <5>3 DEF PathTypeOK, keyVars, userVars
        <5>5. ASSUME NEW n \in Requests, NEW w \in {"armed", "declined"}, Told(n, w)'
              PROVE  Told(n, w)
          BY <5>1, <5>5, EntryAssumption DEF Told, Replied, HearsOf, Home, Idle
        <5>6. \A j \in Hops : run'[j] # Idle /\ Setting(run'[j]) => run'[j] = run[j]
          BY <5>1 DEF Replied, HearsOf, Setting
        <5> QED
          BY <5>2, <5>4, <5>5, <5>6
      <4> QED
        BY <1>2, <1>7, <2>4, <4>1, <4>2
    <3>3. ShapeInv'
      <4>1. SamePhase
        BY <1>1, <2>2, <2>3, <3>1, <3>2 DEF SamePhase, SamePhaseOf, Quiet, ShapeInv, ShapeOf, BeforeExec, keyVars
      <4> QED
        BY <3>2, <4>1, CalmShape
    <3>4. /\ \A j \in Hops : run'[j] # Idle /\ Committed(run'[j]) => Committed(run[j]) \/ ~ Tmux(j)
          /\ \A n \in Requests : exec'[n] = exec[n]
      BY <3>1, <3>2 DEF Quiet
    <3>5. Arms(k, m)
      BY <2>1, <2>2, <2>3, <3>4 DEF Arms
    <3>6. ArmingTalks
      BY <3>2, <3>4 DEF ArmingTalks
    <3> QED
      BY <1>1, <1>3, <3>2, <3>3, <3>5, <3>6, ArmedLayers
  <2>5. CASE run[k].op = "navigate"
    <3>1. /\ exec[m] = 0 /\ BeforeExec(m) /\ caller[m] # "idle"
          /\ \A j \in Hops : NoneQueued(j, m)
          /\ \A j \in Hops : j # k /\ run[j].n = m => j < k /\ PassedOn(run[j]) /\ ~ Leads(run[j])
      BY <1>1, <1>3, <2>5, NavigatingAlone
    <3>2. /\ exec' \in [Requests -> 0 .. N]
          /\ exec'[m] = k /\ \A n \in Requests : n # m => exec'[n] = exec[n]
      BY <2>1, <2>5, HopsAssumption DEF PathTypeOK, Hops
    <3>3. \/ k # N /\ GoesOn(k, "ask", "prepare", run[k].word)
          \/ k = N /\ GoesOn(k, "commit", run[k].want, run[k].word)
      BY <1>1, <1>2, <1>7, <2>5, HandlerFacts, GoGoesOn
    <3>4. /\ WellFormed(k, run'[k]) /\ Follows(run[k], run'[k]) /\ (Leads(run'[k]) => Leads(run[k]))
          /\ ~ Committed(run'[k]) /\ ~ Setting(run'[k]) /\ Executing(run'[k])
          /\ run'[k].n = m /\ run'[k].at # "heard" /\ run'[k].at # "dispatched"
      BY <1>1, <2>5, <3>3, HandlerFacts
         DEF GoesOn, WellFormed, Follows, Settled, PassedOn, Executing, HoldsOn,
             Committed, Asking, Leads, Quiet, Setting, Navigating
    <3>5. /\ \A j \in Hops : j # k => run'[j] = run[j]
          /\ \A n \in Requests : caller'[n] = caller[n]
      BY <3>3 DEF GoesOn
    <3>6. PathTypeOK'
      <4>1. /\ run' \in [Hops -> Handlers]
            /\ caller' \in [Requests -> {"idle", "waiting", "armed", "declined", "error"}]
            /\ \A j \in Hops : run'[j] # Idle => WellFormed(j, run'[j])
        BY <3>3, <3>4, GoesOnTypes
      <4> QED
        BY <1>1, <1>5, <2>2, <3>2, <4>1 DEF PathTypeOK, keyVars, userVars
    <3>7. Calm
      BY <1>1, <3>3, <3>4, GoesOnCalm
    <3>8. ShapeInv'
      <4>1. ASSUME NEW n \in Requests, n # m
            PROVE  ShapeOf(n)'
        <5>1. SamePhaseOf(n)
          BY <1>1, <2>2, <2>3, <3>2, <3>4, <3>5, <4>1
             DEF SamePhaseOf, ShapeInv, ShapeOf, BeforeExec, keyVars
        <5> QED
          BY <3>7, <5>1, CalmShapeOf DEF ShapeInv
      <4>2. AfterExec(m)'
        <5>1. \A j \in Hops : NoneQueued(j, m)'
          BY <1>1, <3>1 DEF NoneQueued, Slots
        <5>2. ASSUME NEW j \in Hops, run'[j].n = m
              PROVE  /\ j < k => PassedOn(run'[j])
                     /\ j = k => Executing(run'[j])
                     /\ j > k => run'[j].op # "navigate"
          BY <3>1, <3>4, <3>5, <5>2, HopsAssumption DEF Hops
        <5> QED
          BY <3>2, <5>1, <5>2 DEF AfterExec, NoneQueued
      <4>3. ShapeOf(m)'
        BY <1>1, <3>1, <3>2, <3>5, <4>2, HopsAssumption DEF ShapeOf, Tmux, Hops
      <4> QED
        BY <4>1, <4>3 DEF ShapeInv
    <3>9. /\ \A n \in Requests, w \in {"armed", "declined"} : Told(n, w)' => Told(n, w)
          /\ \A j \in Hops, n \in Requests : run'[j].n = n /\ run'[j].at = "dispatched" => run'[j] = run[j]
      BY <3>4, <3>5 DEF Told
    <3>10. \A j \in Hops : j # k /\ run[j] # Idle => run'[j] # Idle
      BY <3>5
    <3>11. /\ \A j \in Hops : run'[j] # Idle /\ Committed(run'[j]) => Committed(run[j]) \/ ~ Tmux(j)
           /\ \A j \in Hops : run'[j] # Idle /\ Setting(run'[j]) => run'[j] = run[j]
           /\ \A n \in Requests : \/ exec'[n] = exec[n]
                                  \/ n = m /\ exec[m] = 0 /\ exec'[m] = k /\ receipt[k][m] = "none"
      BY <2>1, <3>1, <3>2, <3>4, <3>5
    <3>12. Arms(k, m)
      BY <2>1, <2>2, <2>3, <3>11 DEF Arms
    <3>13. ArmingTalks
      BY <3>5, <3>9, <3>11 DEF ArmingTalks
    <3> QED
      BY <1>1, <1>3, <3>6, <3>7, <3>8, <3>10, <3>12, <3>13, ArmedLayers
  <2> QED
    BY <1>1, <2>4, <2>5
<1> QED
  BY <1>6, <1>7
-----------------------------------------------------------------------------
(* A message gets its turn, or joins a queue.                              *)

LEMMA TailIs ==
  ASSUME NEW q \in Seq(Messages), q # <<>>
  PROVE  /\ Head(q) \in Messages /\ Head(q) = q[1] /\ 1 \in 1 .. Len(q)
         /\ Tail(q) \in Seq(Messages)
         /\ \A i \in 1 .. Len(Tail(q)) : i + 1 \in 1 .. Len(q) /\ Tail(q)[i] = q[i + 1] /\ 1 < i + 1
  OBVIOUS

LEMMA AppendIs ==
  ASSUME NEW q \in Seq(Messages), NEW e \in Messages
  PROVE  /\ Append(q, e) \in Seq(Messages)
         /\ \A i \in 1 .. Len(Append(q, e)) :
              \/ i \in 1 .. Len(q) /\ Append(q, e)[i] = q[i]
              \/ i = Len(q) + 1 /\ Append(q, e)[i] = e
         /\ \A i \in 1 .. Len(q) : i \in 1 .. Len(Append(q, e)) /\ i < Len(q) + 1
         /\ Len(q) + 1 \in 1 .. Len(Append(q, e))
         /\ Append(q, e)[Len(q) + 1] = e
  OBVIOUS

LEMMA TurnKeeps ==
  ASSUME PathInv, NEW k \in Hops, Turn(k)
  PROVE  PathInv'
<1> USE DEF PathInv
<1>1. /\ run[k] = Idle /\ queue[k] # <<>> /\ queue[k] \in Seq(Messages)
      /\ run' = [run EXCEPT ![k] = Onwards(Head(queue[k]), "start", "navigate", "none")]
      /\ queue' = [queue EXCEPT ![k] = Tail(queue[k])]
      /\ UNCHANGED <<alive, caller, dir, receipt, poison, exec, key, target, asked, moves, disturbed>>
  BY DEF Turn, storeVars, keyVars, userVars, PathTypeOK
<1>2. /\ Head(queue[k]) \in Messages /\ Head(queue[k]) = queue[k][1] /\ 1 \in Slots(k)
      /\ Tail(queue[k]) \in Seq(Messages)
  BY <1>1, TailIs DEF Slots
<1> PICK m \in Requests : m = queue[k][1].n
  BY <1>2 DEF Messages
<1> PICK op \in Ops : op = queue[k][1].op
  BY <1>2 DEF Messages
<1>3. /\ queue' \in [Hops -> Seq(Messages)]
      /\ \A j \in Hops : j # k => queue'[j] = queue[j]
      /\ \A i \in Slots(k)' : i + 1 \in Slots(k) /\ queue'[k][i] = queue[k][i + 1] /\ 1 < i + 1
  <2>1. queue' \in [Hops -> Seq(Messages)] /\ queue'[k] = Tail(queue[k]) /\ \A j \in Hops : j # k => queue'[j] = queue[j]
    BY <1>1, <1>2 DEF PathTypeOK
  <2> QED
    BY <1>1, <2>1, TailIs DEF Slots
<1>4. /\ run' \in [Hops -> Handlers]
      /\ \A j \in Hops : j # k => run'[j] = run[j]
      /\ run'[k] # Idle /\ run'[k].n = m /\ run'[k].op = op /\ run'[k].at = "start" /\ run'[k].want = "navigate"
  <2> DEFINE g == Onwards(Head(queue[k]), "start", "navigate", "none")
  <2>1. g = [n |-> m, op |-> op, at |-> "start", want |-> "navigate", word |-> "none"]
    BY <1>2 DEF Onwards
  <2>2. g \in Handlers /\ g # Idle /\ g.n = m /\ g.op = op /\ g.at = "start" /\ g.want = "navigate"
    BY <2>1, EntryAssumption DEF Handlers, Ops, Places, Words, Idle
  <2>3. run' = [run EXCEPT ![k] = g]
    BY <1>1
  <2> HIDE DEF g
  <2> QED
    BY <2>2, <2>3 DEF PathTypeOK
<1>5. PathTypeOK'
  <2>1. WellFormed(k, run'[k])
    BY <1>4 DEF WellFormed, Asking
  <2> QED
    BY <1>1, <1>3, <1>4, <2>1 DEF PathTypeOK
<1>9. ASSUME NEW j \in Hops, NEW i \in Slots(j)'
      PROVE  \E h \in Slots(j) : /\ queue'[j][i] = queue[j][h] /\ queue[j][h] \in Messages
                                 /\ j = k => h = i + 1
                                 /\ j # k => h = i
  <2>1. \A h \in Slots(j) : queue[j][h] \in Messages
    BY DEF PathTypeOK, Slots
  <2>2. CASE j = k
    BY <1>3, <2>1, <2>2
  <2>3. CASE j # k
    <3>1. queue'[j] = queue[j] /\ i \in Slots(j)
      BY <1>3, <2>3 DEF Slots
    <3> QED
      BY <2>1, <2>3, <3>1
  <2> QED
    BY <2>2, <2>3
<1>6. \A j \in Hops, n \in Requests :
        /\ NoneQueued(j, n) => NoneQueued(j, n)'
        /\ NoneQueued(k, n) => n # m
  <2>1. \A j \in Hops, n \in Requests : NoneQueued(j, n) => NoneQueued(j, n)'
    BY <1>9 DEF NoneQueued
  <2>2. \A n \in Requests : NoneQueued(k, n) => n # m
    BY <1>2 DEF NoneQueued
  <2> QED
    BY <2>1, <2>2
<1>7. ASSUME NEW n \in Requests
      PROVE  /\ \A j \in Hops : Silent(j, n) => Silent(j, n)'
             /\ \A j \in Hops : Cleared(j, n) => Cleared(j, n)'
  BY <1>4, <1>6 DEF Silent, Cleared
<1>8. ASSUME NEW n \in Requests
      PROVE  /\ \A j \in Hops : SilentBeyond(j, n) => SilentBeyond(j, n)'
             /\ \A j \in Hops : ClearedBelow(j, n) => ClearedBelow(j, n)'
             /\ AllCleared(n) => AllCleared(n)'
  BY <1>7 DEF SilentBeyond, ClearedBelow, AllCleared
<1>10. FrontierInv'
  <2>1. (\A j \in Hops : \A h, i \in Slots(j) :
          h < i /\ queue[j][h].n = queue[j][i].n => queue[j][i].op = "abort")'
    <3> SUFFICES ASSUME NEW j \in Hops, NEW h \in Slots(j)', NEW i \in Slots(j)', h < i, queue'[j][h].n = queue'[j][i].n
                 PROVE  queue'[j][i].op = "abort"
      OBVIOUS
    <3>1. CASE j = k
      <4>1. h + 1 \in Slots(k) /\ i + 1 \in Slots(k) /\ h + 1 < i + 1
        BY <1>3, <3>1 DEF Slots
      <4> QED
        BY <1>3, <3>1, <4>1 DEF FrontierInv
    <3>2. CASE j # k
      BY <1>3, <3>2 DEF FrontierInv, Slots
    <3> QED
      BY <3>1, <3>2
  <2>2. (\A j \in Hops : \A i \in Slots(j) : queue[j][i].n = run[j].n => queue[j][i].op = "abort")'
    <3> SUFFICES ASSUME NEW j \in Hops, NEW i \in Slots(j)', queue'[j][i].n = run'[j].n
                 PROVE  queue'[j][i].op = "abort"
      OBVIOUS
    <3>1. CASE j = k
      BY <1>2, <1>3, <1>4, <3>1 DEF FrontierInv
    <3>2. CASE j # k
      BY <1>3, <1>4, <3>2 DEF FrontierInv, Slots
    <3> QED
      BY <3>1, <3>2
  <2>3. (\A j \in Hops : \A i \in Slots(j) : queue[j][i].op # "abort" => SilentBeyond(j, queue[j][i].n))'
    <3> SUFFICES ASSUME NEW j \in Hops, NEW i \in Slots(j)', queue'[j][i].op # "abort"
                 PROVE  SilentBeyond(j, queue[j][i].n)'
      OBVIOUS
    <3> PICK h \in Slots(j) : queue'[j][i] = queue[j][h] /\ queue[j][h] \in Messages
      BY <1>9
    <3> PICK n \in Requests : n = queue[j][h].n
      BY DEF Messages
    <3>1. SilentBeyond(j, n)'
      BY <1>8 DEF FrontierInv
    <3> QED
      BY <3>1
  <2>4. (\A j \in Hops : run[j] # Idle /\ Leads(run[j]) => SilentBeyond(j, run[j].n))'
    <3> SUFFICES ASSUME NEW j \in Hops, run'[j] # Idle, Leads(run'[j])
                 PROVE  SilentBeyond(j, run[j].n)'
      OBVIOUS
    <3> PICK n \in Requests : n = run'[j].n
      BY <1>4, HandlerIs
    <3>1. CASE j = k
      <4>1. op # "abort" /\ n = m
        BY <1>4, <3>1 DEF Leads
      <4>2. SilentBeyond(k, m)
        BY <1>2, <4>1 DEF FrontierInv
      <4> QED
        BY <1>4, <1>8, <3>1, <4>1, <4>2
    <3>2. CASE j # k
      <4>1. SilentBeyond(j, n)
        BY <1>4, <3>2 DEF FrontierInv
      <4> QED
        BY <1>8, <4>1
    <3> QED
      BY <3>1, <3>2
  <2>5. (\A j \in Hops : run[j] # Idle /\ run[j].at = "await" /\ run[j].want = "prepare" /\ j < N
          => NoAbort(j + 1, run[j].n))'
    <3> SUFFICES ASSUME NEW j \in Hops, run'[j] # Idle, run'[j].at = "await", run'[j].want = "prepare", j < N
                 PROVE  NoAbort(j + 1, run[j].n)'
      OBVIOUS
    <3> PICK n \in Requests : n = run'[j].n
      BY <1>4, HandlerIs
    <3>1. run'[j] = run[j] /\ NoAbort(j + 1, n) /\ j + 1 \in Hops
      BY <1>4, HopsAssumption DEF FrontierInv, Hops
    <3>2. NoAbort(j + 1, n)'
      <4>1. \A i \in Slots(j + 1)' : queue'[j + 1][i].n = n => queue'[j + 1][i].op # "abort"
        BY <1>9, <3>1 DEF NoAbort
      <4>2. run'[j + 1].n = n => run'[j + 1].op # "abort"
        BY <1>2, <1>4, <3>1 DEF NoAbort
      <4> QED
        BY <4>1, <4>2 DEF NoAbort
    <3> QED
      BY <3>2
  <2> QED
    BY <2>1, <2>2, <2>3, <2>4, <2>5 DEF FrontierInv
<1>11. ShapeInv'
  <2> SUFFICES ASSUME NEW n \in Requests
               PROVE  ShapeOf(n)'
    BY DEF ShapeInv
  <2>1. BeforeExec(n) => BeforeExec(n)'
    <3> SUFFICES ASSUME BeforeExec(n), NEW j \in Hops
                 PROVE  /\ \A i \in Slots(j)' : queue'[j][i].n = n => queue'[j][i].op = "navigate"
                        /\ run'[j].n = n => Navigating(run'[j])
      BY <1>1 DEF BeforeExec
    <3>1. \A i \in Slots(j)' : queue'[j][i].n = n => queue'[j][i].op = "navigate"
      BY <1>9 DEF BeforeExec
    <3>2. run'[j].n = n => Navigating(run'[j])
      BY <1>2, <1>4 DEF BeforeExec, Navigating
    <3> QED
      BY <3>1, <3>2
  <2>2. AfterExec(n) => AfterExec(n)'
    <3> SUFFICES ASSUME AfterExec(n), NEW j \in Hops
                 PROVE  /\ \A i \in Slots(j)' : queue'[j][i].n = n => queue'[j][i].op # "navigate" /\ j > exec[n]
                        /\ run'[j].n = n =>
                             /\ j < exec[n] => PassedOn(run'[j])
                             /\ j = exec[n] => Executing(run'[j])
                             /\ j > exec[n] => run'[j].op # "navigate"
      BY <1>1 DEF AfterExec
    <3>1. \A i \in Slots(j)' : queue'[j][i].n = n => queue'[j][i].op # "navigate" /\ j > exec[n]
      BY <1>9 DEF AfterExec
    <3>2. CASE j = k /\ n = m
      <4>1. op # "navigate" /\ k > exec[n]
        BY <1>2, <3>2 DEF AfterExec
      <4>2. ~ (k < exec[n]) /\ k # exec[n]
        BY <4>1, HopsAssumption DEF PathTypeOK, Hops
      <4> QED
        BY <1>4, <3>1, <3>2, <4>1, <4>2
    <3>3. CASE ~ (j = k /\ n = m)
      BY <1>4, <3>1, <3>3 DEF AfterExec
    <3> QED
      BY <3>2, <3>3
  <2> QED
    BY <1>1, <1>7, <2>1, <2>2 DEF ShapeInv, ShapeOf, Tmux
<1>12. CommitInv'
  <2>1. (\A j \in Hops : \A i \in Slots(j) :
          queue[j][i].op = "commit" =>
            /\ ClearedBelow(j, queue[j][i].n)
            /\ \A h \in Slots(j) : queue[j][h].n = queue[j][i].n => h = i)'
    <3> SUFFICES ASSUME NEW j \in Hops, NEW i \in Slots(j)', queue'[j][i].op = "commit"
                 PROVE  /\ ClearedBelow(j, queue[j][i].n)'
                        /\ \A h \in Slots(j)' : queue'[j][h].n = queue'[j][i].n => h = i
      OBVIOUS
    <3> PICK g \in Slots(j) : /\ queue'[j][i] = queue[j][g] /\ queue[j][g] \in Messages
                              /\ j = k => g = i + 1
                              /\ j # k => g = i
      BY <1>9
    <3> PICK n \in Requests : n = queue[j][g].n
      BY DEF Messages
    <3>1. ClearedBelow(j, n)'
      BY <1>8 DEF CommitInv
    <3>2. ASSUME NEW h \in Slots(j)', queue'[j][h].n = n
          PROVE  h = i
      <4>1. PICK f \in Slots(j) : /\ queue'[j][h] = queue[j][f]
                                  /\ j = k => f = h + 1
                                  /\ j # k => f = h
        BY <1>9
      <4>2. f = g
        BY <3>2, <4>1 DEF CommitInv
      <4> QED
        BY <4>1, <4>2 DEF Slots
    <3> QED
      BY <3>1, <3>2
  <2>2. (\A j \in Hops :
          run[j] # Idle /\ run[j].op = "commit" => ClearedBelow(j, run[j].n) /\ NoneQueued(j, run[j].n))'
    <3> SUFFICES ASSUME NEW j \in Hops, run'[j] # Idle, run'[j].op = "commit"
                 PROVE  (ClearedBelow(j, run[j].n) /\ NoneQueued(j, run[j].n))'
      OBVIOUS
    <3> PICK n \in Requests : n = run'[j].n
      BY <1>4, HandlerIs
    <3>1. CASE j = k
      <4>1. ClearedBelow(k, m) /\ \A h \in Slots(k) : queue[k][h].n = m => h = 1
        BY <1>2, <1>4, <3>1 DEF CommitInv
      <4>2. NoneQueued(k, m)'
        BY <1>3, <4>1 DEF NoneQueued
      <4> QED
        BY <1>4, <1>8, <3>1, <4>1, <4>2
    <3>2. CASE j # k
      <4>1. ClearedBelow(j, n) /\ NoneQueued(j, n)
        BY <1>4, <3>2 DEF CommitInv
      <4> QED
        BY <1>6, <1>8, <4>1
    <3> QED
      BY <3>1, <3>2
  <2>3. \A j \in Hops, n \in Requests : Answering(j, n)' <=> Answering(j, n)
    BY <1>1 DEF Answering
  <2>4. (\A i, j \in Hops, n \in Requests : Answering(i, n) /\ Answering(j, n) => i = j)'
    BY <2>3 DEF CommitInv
  <2>5. (\A j \in Hops, n \in Requests :
          Answering(j, n) => AllCleared(n) /\ Tmux(j) /\ exec[n] # 0 /\ exec[n] <= j /\ n \in asked)'
    BY <1>1, <1>8, <2>3 DEF CommitInv, Tmux
  <2> QED
    BY <2>1, <2>2, <2>4, <2>5 DEF CommitInv
<1>13. StoreInv'
  <2>1. ASSUME NEW j \in Hops, NEW n \in Requests, dir'[j][n] = "ready", j \in alive'
        PROVE  run'[j].n = n /\ HoldsOn(run'[j])
    BY <1>1, <1>4, <2>1, EntryAssumption DEF StoreInv, Idle
  <2>2. ASSUME NEW j \in Hops, NEW n \in Requests, run'[j] # Idle, Committed(run'[j]), dir'[j][n] # "absent"
        PROVE  n = run'[j].n
    BY <1>1, <1>4, <2>2 DEF StoreInv, Committed, Asking
  <2>3. \A n \in Requests : AllCleared(n) => AllCleared(n)'
    BY <1>8
  <2> QED
    BY <1>1, <2>1, <2>2, <2>3 DEF StoreInv, Tmux
<1>14. ReadyInv'
  <2>1. \A j \in Hops, n \in Requests : /\ ReadyBelow(j, n) => ReadyBelow(j, n)'
                                        /\ ReadyBelow(j + 1, n) => ReadyBelow(j + 1, n)'
    BY <1>1 DEF ReadyBelow, Tmux
  <2>2. ASSUME NEW j \in Hops, NEW i \in Slots(j)', queue'[j][i].op = "commit"
        PROVE  ReadyBelow(j, queue[j][i].n)'
    <3> PICK h \in Slots(j) : queue'[j][i] = queue[j][h] /\ queue[j][h] \in Messages
      BY <1>9
    <3> PICK n \in Requests : n = queue[j][h].n
      BY DEF Messages
    <3>1. ReadyBelow(j, n)'
      BY <2>1, <2>2 DEF ReadyInv
    <3> QED
      BY <3>1
  <2>3. ASSUME NEW j \in Hops, run'[j] # Idle
        PROVE  (/\ run[j].op = "commit" /\ run[j].at = "start" => ReadyBelow(j, run[j].n)
                /\ run[j].at = "emit" \/ (run[j].at = "ask" /\ run[j].want = "commit") => ReadyBelow(j + 1, run[j].n))'
    <3> PICK n \in Requests : n = run'[j].n
      BY <1>4, <2>3, HandlerIs
    <3>1. CASE j = k
      <4>1. op = "commit" => ReadyBelow(k, m)
        BY <1>2 DEF ReadyInv
      <4> QED
        BY <1>4, <2>1, <3>1, <4>1
    <3>2. CASE j # k
      <4>1. run'[j] = run[j] /\ run[j] # Idle
        BY <1>4, <2>3, <3>2
      <4>2. /\ run[j].op = "commit" /\ run[j].at = "start" => ReadyBelow(j, n)
            /\ run[j].at = "emit" \/ (run[j].at = "ask" /\ run[j].want = "commit") => ReadyBelow(j + 1, n)
        BY <4>1 DEF ReadyInv
      <4>3. /\ run'[j].op = "commit" /\ run'[j].at = "start" => ReadyBelow(j, n)'
            /\ run'[j].at = "emit" \/ (run'[j].at = "ask" /\ run'[j].want = "commit") => ReadyBelow(j + 1, n)'
        BY <2>1, <4>1, <4>2
      <4> QED
        BY <4>3
    <3> QED
      BY <3>1, <3>2
  <2>4. \A j \in Hops, n \in Requests : KeyFine(j, n)'
    BY <1>1, <2>1 DEF ReadyInv, KeyFine
  <2> QED
    BY <2>2, <2>3, <2>4 DEF ReadyInv
<1>15. UserInv'
  <2> SUFFICES ASSUME NEW n \in Requests
               PROVE  (/\ moves[n] \in {0, 1}
                       /\ moves[n] = 1 => Spent(n)
                       /\ Told(n, "armed") => moves[n] = 1
                       /\ Told(n, "declined") => moves[n] = 0 /\ Spent(n)
                       /\ \A j \in Hops :
                            /\ exec[n] = j /\ receipt[j][n] = "handled" => moves[n] = 1
                            /\ run[j].n = n /\ run[j].at = "dispatched" => n \in asked)'
    BY DEF UserInv
  <2>1. Spent(n) => Spent(n)'
    BY <1>1, <1>8 DEF Spent, Answering
  <2>2. \A word \in {"armed", "declined"} : Told(n, word)' => Told(n, word)
    BY <1>1, <1>4 DEF Told
  <2>3. \A j \in Hops : run'[j].n = n /\ run'[j].at = "dispatched" => n \in asked
    BY <1>4 DEF UserInv
  <2> QED
    BY <1>1, <2>1, <2>2, <2>3 DEF UserInv
<1> QED
  BY <1>5, <1>10, <1>11, <1>12, <1>13, <1>14, <1>15

(* A message joins the queue of hop k; of the handlers, at most the one    *)
(* that sent it changes.                                                   *)
Posts(k, e) ==
  /\ queue' \in [Hops -> Seq(Messages)]
  /\ \A j \in Hops : \A i \in Slots(j)' :
       \/ i \in Slots(j) /\ queue'[j][i] = queue[j][i]
       \/ j = k /\ i = Len(queue[k]) + 1 /\ queue'[j][i] = e
  /\ \A j \in Hops : \A i \in Slots(j) :
       i \in Slots(j)' /\ queue'[j][i] = queue[j][i] /\ queue[j][i] \in Messages
  /\ \A i \in Slots(k) : i < Len(queue[k]) + 1

LEMMA AppendPosts ==
  ASSUME PathTypeOK, NEW k \in Hops, NEW e \in Messages,
         queue' = [queue EXCEPT ![k] = Append(queue[k], e)]
  PROVE  Posts(k, e)
<1>1. queue[k] \in Seq(Messages)
  BY DEF PathTypeOK
<1>2. /\ Append(queue[k], e) \in Seq(Messages)
      /\ queue' \in [Hops -> Seq(Messages)]
      /\ queue'[k] = Append(queue[k], e)
      /\ \A j \in Hops : j # k => queue'[j] = queue[j]
  BY <1>1, AppendIs DEF PathTypeOK
<1>3. ASSUME NEW j \in Hops, NEW i \in Slots(j)'
      PROVE  \/ i \in Slots(j) /\ queue'[j][i] = queue[j][i]
             \/ j = k /\ i = Len(queue[k]) + 1 /\ queue'[j][i] = e
  <2>1. CASE j = k
    BY <1>1, <1>2, <2>1, AppendIs DEF Slots
  <2>2. CASE j # k
    BY <1>2, <2>2 DEF Slots
  <2> QED
    BY <2>1, <2>2
<1>4. ASSUME NEW j \in Hops, NEW i \in Slots(j)
      PROVE  i \in Slots(j)' /\ queue'[j][i] = queue[j][i] /\ queue[j][i] \in Messages
  <2>1. queue[j][i] \in Messages
    BY DEF PathTypeOK, Slots
  <2>2. CASE j = k
    BY <1>1, <1>2, <2>1, <2>2, AppendIs DEF Slots
  <2>3. CASE j # k
    BY <1>2, <2>1, <2>3 DEF Slots
  <2> QED
    BY <2>2, <2>3
<1>5. \A i \in Slots(k) : i < Len(queue[k]) + 1
  BY <1>1, AppendIs DEF Slots
<1> QED
  BY <1>2, <1>3, <1>4, <1>5 DEF Posts

(* What a message of one request leaves alone of the others.               *)
LEMMA PostsElsewhere ==
  ASSUME NEW k \in Hops, NEW e \in Messages, Posts(k, e),
         \A j \in Hops : run'[j] = run[j] \/ (run[j].n = e.n /\ run'[j].n = e.n)
  PROVE  /\ \A j \in Hops, n \in Requests : j # k \/ n # e.n => (NoneQueued(j, n)' <=> NoneQueued(j, n))
         /\ \A n \in Requests : n # e.n =>
              /\ \A j \in Hops : /\ Silent(j, n) => Silent(j, n)'
                                 /\ NoAbort(j, n) => NoAbort(j, n)'
                                 /\ Cleared(j, n) => Cleared(j, n)'
                                 /\ SilentBeyond(j, n) => SilentBeyond(j, n)'
                                 /\ ClearedBelow(j, n) => ClearedBelow(j, n)'
              /\ AllCleared(n) => AllCleared(n)'
<1>1. ASSUME NEW j \in Hops, NEW n \in Requests, j # k \/ n # e.n
      PROVE  NoneQueued(j, n)' <=> NoneQueued(j, n)
  BY <1>1 DEF Posts, NoneQueued
<1>2. ASSUME NEW j \in Hops, NEW n \in Requests, n # e.n, run'[j].n = n
      PROVE  run'[j] = run[j]
  BY <1>2
<1>3. ASSUME NEW j \in Hops, NEW n \in Requests, n # e.n
      PROVE  /\ Silent(j, n) => Silent(j, n)'
             /\ Cleared(j, n) => Cleared(j, n)'
  BY <1>1, <1>2, <1>3 DEF Silent, Cleared
<1>4. ASSUME NEW j \in Hops, NEW n \in Requests, n # e.n, NoAbort(j, n)
      PROVE  NoAbort(j, n)'
  <2>1. run'[j].n = n => run'[j].op # "abort"
    BY <1>2, <1>4 DEF NoAbort
  <2>2. \A i \in Slots(j)' : queue'[j][i].n = n => queue'[j][i].op # "abort"
    BY <1>4 DEF NoAbort, Posts
  <2> QED
    BY <2>1, <2>2 DEF NoAbort
<1>5. ASSUME NEW n \in Requests, n # e.n
      PROVE  /\ \A j \in Hops : SilentBeyond(j, n) => SilentBeyond(j, n)'
             /\ \A j \in Hops : ClearedBelow(j, n) => ClearedBelow(j, n)'
             /\ AllCleared(n) => AllCleared(n)'
  BY <1>3, <1>5 DEF SilentBeyond, ClearedBelow, AllCleared
<1> QED
  BY <1>1, <1>3, <1>4, <1>5

LEMMA PostsShapeOf ==
  ASSUME NEW k \in Hops, NEW e \in Messages, Posts(k, e),
         \A j \in Hops : run'[j] = run[j] \/ (run[j].n = e.n /\ run'[j].n = e.n),
         NEW n \in Requests, n # e.n, ShapeOf(n),
         caller'[n] = caller[n], UNCHANGED <<exec, key, dir, receipt>>
  PROVE  ShapeOf(n)'
<1>1. \A j \in Hops : \A i \in Slots(j)' : queue'[j][i].n = n => i \in Slots(j) /\ queue'[j][i] = queue[j][i]
  BY DEF Posts
<1>2. \A j \in Hops : run'[j].n = n => run'[j] = run[j]
  OBVIOUS
<1>3. BeforeExec(n) => BeforeExec(n)'
  BY <1>1, <1>2 DEF BeforeExec
<1>4. AfterExec(n) => AfterExec(n)'
  BY <1>1, <1>2 DEF AfterExec
<1> QED
  BY <1>3, <1>4, PostsElsewhere DEF ShapeOf, Tmux

LEMMA CallSent ==
  ASSUME PathInv, NEW m \in Requests, caller[m] = "idle",
         queue' = [queue EXCEPT ![Entry[m]] = Append(@, [n |-> m, op |-> "navigate"])],
         caller' = [caller EXCEPT ![m] = "waiting"],
         UNCHANGED <<run, alive, dir, receipt, poison, exec, key, target, asked, moves, disturbed>>
  PROVE  PathInv'
<1> USE DEF PathInv
<1> DEFINE e == [n |-> m, op |-> "navigate"]
<1> PICK k \in Hops : k = Entry[m]
  BY EntryAssumption DEF Hops
<1>1. e \in Messages /\ e.n = m /\ e.op = "navigate"
  BY DEF Messages, Ops
<1>2. Posts(k, e)
  BY <1>1, AppendPosts
<1> HIDE DEF e
<1>3. /\ exec[m] = 0 /\ BeforeExec(m) /\ \A j \in Hops : Silent(j, m)
      /\ caller' \in [Requests -> {"idle", "waiting", "armed", "declined", "error"}]
      /\ caller'[m] = "waiting" /\ \A n \in Requests : n # m => caller'[n] = caller[n]
  BY DEF ShapeInv, ShapeOf, PathTypeOK
<1>4. \A j \in Hops : run'[j] = run[j] /\ run[j].n # m
  BY <1>3 DEF Silent
<1>5. PathTypeOK'
  BY <1>2, <1>3 DEF PathTypeOK, Posts, WellFormed, Tmux
<1>6. /\ \A n \in Requests : n # m =>
           /\ \A j \in Hops : /\ NoneQueued(j, n) => NoneQueued(j, n)'
                              /\ NoAbort(j, n) => NoAbort(j, n)'
                              /\ SilentBeyond(j, n) => SilentBeyond(j, n)'
                              /\ ClearedBelow(j, n) => ClearedBelow(j, n)'
           /\ AllCleared(n) => AllCleared(n)'
      /\ \A j \in Hops : j # k => NoneQueued(j, m)'
  <2>1. \A n \in Requests : n # m =>
           /\ \A j \in Hops : /\ NoneQueued(j, n) => NoneQueued(j, n)'
                              /\ NoAbort(j, n) => NoAbort(j, n)'
                              /\ SilentBeyond(j, n) => SilentBeyond(j, n)'
                              /\ ClearedBelow(j, n) => ClearedBelow(j, n)'
           /\ AllCleared(n) => AllCleared(n)'
    BY <1>1, <1>2, <1>4, PostsElsewhere
  <2>2. \A j \in Hops : j # k => (NoneQueued(j, m)' <=> NoneQueued(j, m))
    BY <1>1, <1>2, <1>4, PostsElsewhere
  <2> QED
    BY <1>3, <2>1, <2>2 DEF Silent
<1>7. ASSUME NEW j \in Hops, NEW i \in Slots(j)'
      PROVE  \/ i \in Slots(j) /\ queue'[j][i] = queue[j][i] /\ queue[j][i].n \in Requests /\ queue[j][i].n # m
             \/ j = k /\ i = Len(queue[k]) + 1 /\ queue'[j][i].n = m /\ queue'[j][i].op = "navigate"
  <2>1. CASE i \in Slots(j) /\ queue'[j][i] = queue[j][i]
    <3>1. queue[j][i] \in Messages
      BY <1>2, <2>1 DEF Posts
    <3>2. queue[j][i].n # m
      BY <1>3, <2>1 DEF Silent, NoneQueued
    <3> QED
      BY <2>1, <3>1, <3>2 DEF Messages
  <2>2. CASE j = k /\ i = Len(queue[k]) + 1 /\ queue'[j][i] = e
    BY <1>1, <2>2
  <2> QED
    BY <1>2, <2>1, <2>2 DEF Posts
<1>8. FrontierInv'
  <2>1. (\A j \in Hops : \A h, i \in Slots(j) :
          h < i /\ queue[j][h].n = queue[j][i].n => queue[j][i].op = "abort")'
    <3> SUFFICES ASSUME NEW j \in Hops, NEW h \in Slots(j)', NEW i \in Slots(j)', h < i, queue'[j][h].n = queue'[j][i].n
                 PROVE  queue'[j][i].op = "abort"
      OBVIOUS
    <3>1. h \in Nat /\ i \in Nat
      BY DEF Slots
    <3>2. \/ h \in Slots(j) /\ queue'[j][h] = queue[j][h] /\ queue[j][h].n # m
          \/ j = k /\ h = Len(queue[k]) + 1 /\ queue'[j][h].n = m
      BY <1>7
    <3>3. \/ i \in Slots(j) /\ queue'[j][i] = queue[j][i] /\ queue[j][i].n # m
          \/ j = k /\ i = Len(queue[k]) + 1 /\ queue'[j][i].n = m
      BY <1>7
    <3>4. \A g \in Slots(k) : g < Len(queue[k]) + 1
      BY <1>2 DEF Posts
    <3>5. i \in Slots(j) /\ h \in Slots(j) /\ queue'[j][i] = queue[j][i] /\ queue'[j][h] = queue[j][h]
      <4>1. ASSUME j = k, h = Len(queue[k]) + 1
            PROVE  FALSE
        <5>1. i = h \/ i < h
          BY <3>3, <3>4, <4>1
        <5> QED
          BY <3>1, <5>1
      <4> QED
        BY <3>2, <3>3, <4>1
    <3> QED
      BY <3>5 DEF FrontierInv
  <2>2. (\A j \in Hops : \A i \in Slots(j) : queue[j][i].n = run[j].n => queue[j][i].op = "abort")'
    <3> SUFFICES ASSUME NEW j \in Hops, NEW i \in Slots(j)', queue'[j][i].n = run'[j].n
                 PROVE  queue'[j][i].op = "abort"
      OBVIOUS
    <3>1. i \in Slots(j) /\ queue'[j][i] = queue[j][i]
      BY <1>4, <1>7
    <3> QED
      BY <1>4, <3>1 DEF FrontierInv
  <2>3. (\A j \in Hops : \A i \in Slots(j) : queue[j][i].op # "abort" => SilentBeyond(j, queue[j][i].n))'
    <3> SUFFICES ASSUME NEW j \in Hops, NEW i \in Slots(j)', queue'[j][i].op # "abort"
                 PROVE  SilentBeyond(j, queue[j][i].n)'
      OBVIOUS
    <3>1. CASE i \in Slots(j) /\ queue'[j][i] = queue[j][i] /\ queue[j][i].n \in Requests /\ queue[j][i].n # m
      <4> PICK n \in Requests : n = queue[j][i].n
        BY <3>1
      <4>1. SilentBeyond(j, n)'
        BY <1>6, <3>1 DEF FrontierInv
      <4> QED
        BY <3>1, <4>1
    <3>2. CASE j = k /\ i = Len(queue[k]) + 1 /\ queue'[j][i].n = m /\ queue'[j][i].op = "navigate"
      <4>1. SilentBeyond(k, m)'
        BY <1>3, <1>4, <1>6, HopsAssumption DEF SilentBeyond, Silent, Hops
      <4> QED
        BY <3>2, <4>1
    <3> QED
      BY <1>7, <3>1, <3>2
  <2>4. (\A j \in Hops : run[j] # Idle /\ Leads(run[j]) => SilentBeyond(j, run[j].n))'
    BY <1>4, <1>6, HandlerIs DEF FrontierInv, PathTypeOK
  <2>5. (\A j \in Hops : run[j] # Idle /\ run[j].at = "await" /\ run[j].want = "prepare" /\ j < N
          => NoAbort(j + 1, run[j].n))'
    BY <1>4, <1>6, HandlerIs, HopsAssumption DEF FrontierInv, PathTypeOK, Hops
  <2> QED
    BY <2>1, <2>2, <2>3, <2>4, <2>5 DEF FrontierInv
<1>9. ShapeInv'
  <2>1. ASSUME NEW n \in Requests, n # m
        PROVE  ShapeOf(n)'
    <3>1. ShapeOf(n) /\ n # e.n /\ caller'[n] = caller[n]
      BY <1>1, <1>3, <2>1 DEF ShapeInv
    <3> QED
      BY <1>1, <1>2, <1>4, <3>1, PostsShapeOf
  <2>2. BeforeExec(m)'
    <3> SUFFICES ASSUME NEW j \in Hops
                 PROVE  /\ \A i \in Slots(j)' : queue'[j][i].n = m => queue'[j][i].op = "navigate"
                        /\ run'[j].n = m => Navigating(run'[j])
                        /\ key'[j][m] = "none" /\ dir'[j][m] = "absent" /\ receipt'[j][m] = "none"
      BY DEF BeforeExec
    <3>1. \A i \in Slots(j)' : queue'[j][i].n = m => queue'[j][i].op = "navigate"
      BY <1>7
    <3>2. /\ run'[j].n # m
          /\ key'[j][m] = "none" /\ dir'[j][m] = "absent" /\ receipt'[j][m] = "none"
      BY <1>3, <1>4 DEF BeforeExec
    <3> QED
      BY <3>1, <3>2
  <2>3. ShapeOf(m)'
    BY <1>3, <2>2 DEF ShapeOf
  <2> QED
    BY <2>1, <2>3 DEF ShapeInv
<1>10. \A j \in Hops, n \in Requests : (Answering(j, n)' <=> Answering(j, n)) /\ (Answering(j, n) => n # m)
  BY <1>3 DEF Answering, BeforeExec
<1>11. CommitInv'
  <2>1. (\A j \in Hops : \A i \in Slots(j) :
          queue[j][i].op = "commit" =>
            /\ ClearedBelow(j, queue[j][i].n)
            /\ \A h \in Slots(j) : queue[j][h].n = queue[j][i].n => h = i)'
    <3> SUFFICES ASSUME NEW j \in Hops, NEW i \in Slots(j)', queue'[j][i].op = "commit"
                 PROVE  /\ ClearedBelow(j, queue[j][i].n)'
                        /\ \A h \in Slots(j)' : queue'[j][h].n = queue'[j][i].n => h = i
      OBVIOUS
    <3>1. i \in Slots(j) /\ queue'[j][i] = queue[j][i] /\ queue[j][i].n \in Requests /\ queue[j][i].n # m
      BY <1>7
    <3> PICK n \in Requests : n = queue[j][i].n
      BY <3>1
    <3>2. ClearedBelow(j, n)'
      BY <1>6, <3>1 DEF CommitInv
    <3>3. \A h \in Slots(j)' : queue'[j][h].n = queue'[j][i].n => h = i
      BY <1>7, <3>1, ZenonT(30) DEF CommitInv
    <3> QED
      BY <3>1, <3>2, <3>3
  <2>2. (\A j \in Hops :
          run[j] # Idle /\ run[j].op = "commit" => ClearedBelow(j, run[j].n) /\ NoneQueued(j, run[j].n))'
    BY <1>4, <1>6, HandlerIs DEF CommitInv, PathTypeOK
  <2>3. (\A i, j \in Hops, n \in Requests : Answering(i, n) /\ Answering(j, n) => i = j)'
    BY <1>10 DEF CommitInv
  <2>4. (\A j \in Hops, n \in Requests :
          Answering(j, n) => AllCleared(n) /\ Tmux(j) /\ exec[n] # 0 /\ exec[n] <= j /\ n \in asked)'
    BY <1>6, <1>10 DEF CommitInv, Tmux
  <2> QED
    BY <2>1, <2>2, <2>3, <2>4 DEF CommitInv
<1>12. StoreInv'
  <2>1. \A j \in Hops, n \in Requests : dir[j][n] = "claimed" => AllCleared(n)'
    BY <1>3, <1>6 DEF StoreInv, BeforeExec
  <2>2. \A j \in Hops : run'[j] = run[j]
    BY <1>4
  <2> QED
    BY <2>1, <2>2 DEF StoreInv, Tmux
<1>13. ReadyInv'
  <2>1. \A j \in Hops, n \in Requests : /\ ReadyBelow(j, n) => ReadyBelow(j, n)'
                                        /\ ReadyBelow(j + 1, n) => ReadyBelow(j + 1, n)'
    BY DEF ReadyBelow, Tmux
  <2>2. ASSUME NEW j \in Hops, NEW i \in Slots(j)', queue'[j][i].op = "commit"
        PROVE  ReadyBelow(j, queue[j][i].n)'
    <3>1. i \in Slots(j) /\ queue'[j][i] = queue[j][i] /\ queue[j][i].n \in Requests
      BY <1>7, <2>2
    <3> PICK n \in Requests : n = queue[j][i].n
      BY <3>1
    <3>2. ReadyBelow(j, n)'
      BY <2>1, <2>2, <3>1 DEF ReadyInv
    <3> QED
      BY <3>1, <3>2
  <2>3. ASSUME NEW j \in Hops, run'[j] # Idle
        PROVE  (/\ run[j].op = "commit" /\ run[j].at = "start" => ReadyBelow(j, run[j].n)
                /\ run[j].at = "emit" \/ (run[j].at = "ask" /\ run[j].want = "commit") => ReadyBelow(j + 1, run[j].n))'
    BY <1>4, <2>1, <2>3, HandlerIs DEF ReadyInv, PathTypeOK
  <2>4. \A j \in Hops, n \in Requests : KeyFine(j, n)'
    BY <2>1 DEF ReadyInv, KeyFine
  <2> QED
    BY <2>2, <2>3, <2>4 DEF ReadyInv
<1>14. UserInv'
  <2> SUFFICES ASSUME NEW n \in Requests
               PROVE  (/\ moves[n] \in {0, 1}
                       /\ moves[n] = 1 => Spent(n)
                       /\ Told(n, "armed") => moves[n] = 1
                       /\ Told(n, "declined") => moves[n] = 0 /\ Spent(n)
                       /\ \A j \in Hops :
                            /\ exec[n] = j /\ receipt[j][n] = "handled" => moves[n] = 1
                            /\ run[j].n = n /\ run[j].at = "dispatched" => n \in asked)'
    BY DEF UserInv
  <2>1. Spent(n) => Spent(n)'
    BY <1>3, <1>6, <1>10 DEF Spent
  <2>2. \A word \in {"armed", "declined"} : Told(n, word)' => Told(n, word)
    BY <1>3, <1>4 DEF Told
  <2> QED
    BY <1>4, <2>1, <2>2 DEF UserInv
<1> QED
  BY <1>5, <1>8, <1>9, <1>11, <1>12, <1>13, <1>14

LEMMA CallKeeps ==
  ASSUME PathInv, NEW m \in Requests, Call(m)
  PROVE  PathInv'
<1>1. CASE /\ queue' = [queue EXCEPT ![Entry[m]] = Append(@, [n |-> m, op |-> "navigate"])]
           /\ caller' = [caller EXCEPT ![m] = "waiting"]
           /\ Works
  BY <1>1, CallSent DEF Call, Works, storeVars, keyVars, userVars
<1>2. CASE /\ caller' = [caller EXCEPT ![m] = "error"]
           /\ Fails
           /\ UNCHANGED queue
  <2>1. /\ caller' = [caller EXCEPT ![m] = "error"] /\ caller[m] = "idle" /\ disturbed' = TRUE
        /\ UNCHANGED <<queue, run, alive, dir, receipt, poison, exec, key, target, asked, moves>>
    BY <1>2 DEF Call, Fails, storeVars, keyVars, userVars
  <2>2. PathTypeOK'
    BY <2>1 DEF PathInv, PathTypeOK, Tmux, WellFormed
  <2>3. \A k \in Hops : run'[k] # Idle => Follows(run[k], run'[k]) /\ Quiet(k, run[k], run'[k])
    BY <2>1 DEF Follows, Quiet
  <2>4. Calm
    BY <2>1, <2>3 DEF Calm
  <2>5. \A n \in Requests, word \in {"armed", "declined"} : Told(n, word)' => Told(n, word)
    BY <2>1 DEF Told, PathInv, PathTypeOK
  <2>6. \A n \in Requests : caller'[n] = "idle" => caller[n] = "idle"
    BY <2>1 DEF PathInv, PathTypeOK
  <2>7. \A k \in Hops, n \in Requests : run'[k].n = n /\ run'[k].at = "dispatched" => n \in asked'
    BY <2>1 DEF PathInv, UserInv
  <2> QED
    BY <2>1, <2>2, <2>3, <2>4, <2>5, <2>6, <2>7, TalkKeeps
<1> QED
  BY <1>1, <1>2 DEF Call

(* A handler that sends waits for the answer from then on.                 *)
LEMMA SendSent ==
  ASSUME PathInv, NEW k \in Hops, run[k] # Idle, run[k].at = "ask",
         queue' = [queue EXCEPT ![k + 1] = Append(@, [n |-> run[k].n, op |-> run[k].want])],
         Go(k, "await"),
         UNCHANGED <<alive, dir, receipt, poison, exec, key, target, asked, moves, disturbed>>
  PROVE  PathInv'
<1> USE DEF PathInv
<1> PICK m \in Requests : m = run[k].n
  BY HandlerFacts
<1> PICK op \in Ops : op = run[k].want
  BY HandlerFacts
<1> DEFINE e == [n |-> m, op |-> op]
<1>1. e \in Messages /\ e.n = m /\ e.op = op
  BY DEF Messages
<1>2. WellFormed(k, run[k]) /\ k + 1 \in Hops /\ k # k + 1 /\ k \in Nat
  BY HandlerFacts, HopsAssumption DEF WellFormed, Hops
<1>3. Posts(k + 1, e)
  BY <1>1, <1>2, AppendPosts
<1> HIDE DEF e
<1>4. GoesOn(k, "await", op, run[k].word)
  BY HandlerFacts, GoGoesOn DEF Places
<1>5. /\ \A j \in Hops : j # k => run'[j] = run[j]
      /\ run' \in [Hops -> Handlers]
      /\ run'[k] # Idle /\ run'[k].n = m /\ run'[k].op = run[k].op
      /\ run'[k].at = "await" /\ run'[k].want = op
      /\ caller' = caller
  BY <1>4 DEF GoesOn
<1>6. ~ Settled(run[k]) /\ (op # "abort" => Leads(run[k])) /\ ~ PassedOn(run[k]) /\ ~ Leads(run'[k])
      /\ (Navigating(run[k]) => op = "navigate" /\ Navigating(run'[k]))
      /\ (Executing(run[k]) => op # "navigate" /\ Executing(run'[k]))
      /\ (HoldsOn(run[k]) => HoldsOn(run'[k]))
      /\ (Committed(run'[k]) => Committed(run[k]))
  BY <1>5 DEF Settled, Leads, PassedOn, Navigating, Executing, HoldsOn, Committed, Asking
<1>7. PathTypeOK'
  <2>1. WellFormed(k, run'[k])
    BY <1>2, <1>5 DEF WellFormed, Asking
  <2>2. /\ run' \in [Hops -> Handlers]
        /\ caller' \in [Requests -> {"idle", "waiting", "armed", "declined", "error"}]
        /\ \A j \in Hops : run'[j] # Idle => WellFormed(j, run'[j])
    BY <1>4, <2>1, GoesOnTypes
  <2> QED
    BY <1>3, <2>2 DEF PathTypeOK, Posts
<1>8. \A j \in Hops : run'[j] = run[j] \/ (run[j].n = e.n /\ run'[j].n = e.n)
  BY <1>1, <1>5
<1>9. /\ \A j \in Hops, n \in Requests : j # k + 1 \/ n # m => (NoneQueued(j, n)' <=> NoneQueued(j, n))
      /\ \A n \in Requests : n # m =>
           /\ \A j \in Hops : /\ NoAbort(j, n) => NoAbort(j, n)'
                              /\ SilentBeyond(j, n) => SilentBeyond(j, n)'
                              /\ ClearedBelow(j, n) => ClearedBelow(j, n)'
           /\ AllCleared(n) => AllCleared(n)'
  BY <1>1, <1>2, <1>3, <1>8, PostsElsewhere
<1>10. ASSUME NEW j \in Hops, NEW i \in Slots(j)'
       PROVE  \/ i \in Slots(j) /\ queue'[j][i] = queue[j][i] /\ queue[j][i].n \in Requests
              \/ j = k + 1 /\ i = Len(queue[k + 1]) + 1 /\ queue'[j][i].n = m /\ queue'[j][i].op = op
  <2>1. CASE i \in Slots(j) /\ queue'[j][i] = queue[j][i]
    <3>1. queue[j][i] \in Messages
      BY <1>3, <2>1 DEF Posts
    <3> QED
      BY <2>1, <3>1 DEF Messages
  <2>2. CASE j = k + 1 /\ i = Len(queue[k + 1]) + 1 /\ queue'[j][i] = e
    BY <1>1, <2>2
  <2> QED
    BY <1>3, <2>1, <2>2 DEF Posts
(* Where the request is known when the message is more than an abort.      *)
<1>11. /\ op # "abort" => SilentBeyond(k, m) /\ Silent(k + 1, m)
       /\ \A j \in Hops : \A i \in Slots(j) :
            queue[j][i].n = m /\ queue[j][i].op # "abort" => k < j /\ op = "abort"
       /\ \A j \in Hops : j # k /\ run[j] # Idle /\ run[j].n = m /\ Leads(run[j]) => k < j /\ op = "abort"
  <2>1. op # "abort" => SilentBeyond(k, m)
    BY <1>6 DEF FrontierInv
  <2>2. SilentBeyond(k, m) => Silent(k + 1, m)
    BY <1>2 DEF SilentBeyond
  <2>3. ASSUME NEW j \in Hops, NEW i \in Slots(j), queue[j][i].n = m, queue[j][i].op # "abort"
        PROVE  k < j /\ op = "abort"
    <3>1. SilentBeyond(j, m) /\ j # k
      BY <2>3 DEF FrontierInv
    <3>2. ~ (k > j)
      BY <3>1 DEF SilentBeyond, Silent
    <3>3. k < j
      BY <1>2, <3>1, <3>2 DEF Hops
    <3>4. ~ SilentBeyond(k, m)
      BY <2>3, <3>3 DEF SilentBeyond, Silent, NoneQueued
    <3> QED
      BY <2>1, <3>3, <3>4
  <2>4. ASSUME NEW j \in Hops, j # k, run[j] # Idle, run[j].n = m, Leads(run[j])
        PROVE  k < j /\ op = "abort"
    <3>1. SilentBeyond(j, m)
      BY <2>4 DEF FrontierInv
    <3>2. ~ (k > j)
      BY <3>1 DEF SilentBeyond, Silent
    <3>3. k < j
      BY <1>2, <2>4, <3>2 DEF Hops
    <3>4. ~ SilentBeyond(k, m)
      BY <2>4, <3>3 DEF SilentBeyond, Silent
    <3> QED
      BY <2>1, <3>3, <3>4
  <2> QED
    BY <2>1, <2>2, <2>3, <2>4
<1>12. \A j \in Hops : k < j /\ SilentBeyond(j, m) => SilentBeyond(j, m)'
  <2> SUFFICES ASSUME NEW j \in Hops, k < j, SilentBeyond(j, m), NEW i \in Hops, i > j
               PROVE  Silent(i, m)'
    BY DEF SilentBeyond
  <2>1. i # k /\ i # k + 1
    BY <1>2 DEF Hops
  <2>2. Silent(i, m)
    BY DEF SilentBeyond
  <2> QED
    BY <1>5, <1>9, <2>1, <2>2 DEF Silent
<1>13. FrontierInv'
  <2>1. (\A j \in Hops : \A h, i \in Slots(j) :
          h < i /\ queue[j][h].n = queue[j][i].n => queue[j][i].op = "abort")'
    <3> SUFFICES ASSUME NEW j \in Hops, NEW h \in Slots(j)', NEW i \in Slots(j)', h < i, queue'[j][h].n = queue'[j][i].n
                 PROVE  queue'[j][i].op = "abort"
      OBVIOUS
    <3>1. h \in Nat /\ i \in Nat
      BY DEF Slots
    <3>2. \A g \in Slots(k + 1) : g < Len(queue[k + 1]) + 1
      BY <1>3 DEF Posts
    <3>3. h \in Slots(j) /\ queue'[j][h] = queue[j][h]
      <4>1. ASSUME j = k + 1, h = Len(queue[k + 1]) + 1
            PROVE  FALSE
        <5>1. i = h \/ i < h
          BY <1>10, <3>2, <4>1
        <5> QED
          BY <3>1, <5>1
      <4> QED
        BY <1>10, <4>1
    <3>4. CASE i \in Slots(j) /\ queue'[j][i] = queue[j][i]
      BY <3>3, <3>4 DEF FrontierInv
    <3>5. CASE j = k + 1 /\ queue'[j][i].n = m /\ queue'[j][i].op = op
      <4>1. ~ Silent(k + 1, m)
        BY <3>3, <3>5 DEF Silent, NoneQueued
      <4> QED
        BY <1>11, <3>5, <4>1
    <3> QED
      BY <1>10, <3>4, <3>5
  <2>2. (\A j \in Hops : \A i \in Slots(j) : queue[j][i].n = run[j].n => queue[j][i].op = "abort")'
    <3> SUFFICES ASSUME NEW j \in Hops, NEW i \in Slots(j)', queue'[j][i].n = run'[j].n
                 PROVE  queue'[j][i].op = "abort"
      OBVIOUS
    <3>1. run'[j].n = run[j].n
      BY <1>5
    <3>2. CASE i \in Slots(j) /\ queue'[j][i] = queue[j][i]
      BY <3>1, <3>2 DEF FrontierInv
    <3>3. CASE j = k + 1 /\ queue'[j][i].n = m /\ queue'[j][i].op = op
      <4>1. ~ Silent(k + 1, m)
        BY <3>1, <3>3 DEF Silent
      <4> QED
        BY <1>11, <3>3, <4>1
    <3> QED
      BY <1>10, <3>2, <3>3
  <2>3. (\A j \in Hops : \A i \in Slots(j) : queue[j][i].op # "abort" => SilentBeyond(j, queue[j][i].n))'
    <3> SUFFICES ASSUME NEW j \in Hops, NEW i \in Slots(j)', queue'[j][i].op # "abort"
                 PROVE  SilentBeyond(j, queue[j][i].n)'
      OBVIOUS
    <3>1. CASE i \in Slots(j) /\ queue'[j][i] = queue[j][i] /\ queue[j][i].n \in Requests
      <4> PICK n \in Requests : n = queue[j][i].n
        BY <3>1
      <4>1. SilentBeyond(j, n)
        BY <3>1 DEF FrontierInv
      <4>2. SilentBeyond(j, n)'
        <5>1. CASE n # m
          BY <1>9, <4>1, <5>1
        <5>2. CASE n = m
          <6>1. k < j
            BY <1>11, <3>1, <5>2
          <6> QED
            BY <1>12, <4>1, <5>2, <6>1
        <5> QED
          BY <5>1, <5>2
      <4> QED
        BY <3>1, <4>2
    <3>2. CASE j = k + 1 /\ queue'[j][i].n = m /\ queue'[j][i].op = op
      <4>1. SilentBeyond(k, m)
        BY <1>11, <3>2
      <4>2. SilentBeyond(k + 1, m)
        BY <1>2, <4>1 DEF SilentBeyond, Hops
      <4>3. SilentBeyond(k + 1, m)'
        BY <1>2, <1>12, <4>2
      <4> QED
        BY <3>2, <4>3
    <3> QED
      BY <1>10, <3>1, <3>2
  <2>4. (\A j \in Hops : run[j] # Idle /\ Leads(run[j]) => SilentBeyond(j, run[j].n))'
    <3> SUFFICES ASSUME NEW j \in Hops, run'[j] # Idle, Leads(run'[j])
                 PROVE  SilentBeyond(j, run[j].n)'
      OBVIOUS
    <3>1. j # k /\ run'[j] = run[j] /\ run[j] # Idle /\ Leads(run[j])
      BY <1>5, <1>6
    <3> PICK n \in Requests : n = run[j].n
      BY <3>1, HandlerFacts
    <3>2. SilentBeyond(j, n)
      BY <3>1 DEF FrontierInv
    <3>3. SilentBeyond(j, n)'
      <4>1. CASE n # m
        BY <1>9, <3>2, <4>1
      <4>2. CASE n = m
        <5>1. k < j
          BY <1>11, <3>1, <4>2
        <5> QED
          BY <1>12, <3>2, <4>2, <5>1
      <4> QED
        BY <4>1, <4>2
    <3> QED
      BY <3>1, <3>3
  <2>5. (\A j \in Hops : run[j] # Idle /\ run[j].at = "await" /\ run[j].want = "prepare" /\ j < N
          => NoAbort(j + 1, run[j].n))'
    <3> SUFFICES ASSUME NEW j \in Hops, run'[j] # Idle, run'[j].at = "await", run'[j].want = "prepare", j < N
                 PROVE  NoAbort(j + 1, run[j].n)'
      OBVIOUS
    <3>1. j + 1 \in Hops
      BY HopsAssumption DEF Hops
    <3>2. CASE j = k
      <4>1. op = "prepare" /\ Silent(k + 1, m)
        BY <1>5, <1>11, <3>2
      <4>2. \A i \in Slots(k + 1)' : queue'[k + 1][i].n = m => queue'[k + 1][i].op # "abort"
        BY <1>2, <1>10, <4>1 DEF Silent, NoneQueued
      <4>3. run'[k + 1].n # m
        BY <1>2, <1>5, <4>1 DEF Silent
      <4>4. NoAbort(k + 1, m)'
        BY <4>2, <4>3 DEF NoAbort
      <4> QED
        BY <1>5, <3>2, <4>4
    <3>3. CASE j # k
      <4>1. run'[j] = run[j] /\ run[j] # Idle
        BY <1>5, <3>3
      <4> PICK n \in Requests : n = run[j].n
        BY <4>1, HandlerFacts
      <4>2. NoAbort(j + 1, n)
        BY <4>1 DEF FrontierInv
      <4>3. NoAbort(j + 1, n)'
        <5>1. CASE n # m
          BY <1>9, <3>1, <4>2, <5>1
        <5>2. CASE n = m
          <6>1. j + 1 # k + 1
            BY <1>2, <3>3 DEF Hops
          <6>2. \A i \in Slots(j + 1)' : queue'[j + 1][i].n = m => queue'[j + 1][i].op # "abort"
            BY <1>10, <3>1, <4>2, <5>2, <6>1 DEF NoAbort
          <6>3. run'[j + 1].n = m => run'[j + 1].op # "abort"
            BY <1>5, <3>1, <4>2, <5>2 DEF NoAbort
          <6> QED
            BY <5>2, <6>2, <6>3 DEF NoAbort
        <5> QED
          BY <5>1, <5>2
      <4> QED
        BY <4>1, <4>3
    <3> QED
      BY <3>2, <3>3
  <2> QED
    BY <2>1, <2>2, <2>3, <2>4, <2>5 DEF FrontierInv
<1>14. ShapeInv'
  <2>1. ASSUME NEW n \in Requests, n # m
        PROVE  ShapeOf(n)'
    <3>1. ShapeOf(n) /\ n # e.n /\ caller'[n] = caller[n]
      BY <1>1, <1>5, <2>1 DEF ShapeInv
    <3> QED
      BY <1>1, <1>2, <1>3, <1>8, <3>1, PostsShapeOf
  <2>2. caller[m] # "idle"
    BY DEF ShapeInv, ShapeOf, Silent
  <2>3. exec[m] \in Nat
    BY HopsAssumption DEF PathTypeOK
  <2>4. exec[m] = 0 => BeforeExec(m)'
    <3> SUFFICES ASSUME exec[m] = 0, NEW j \in Hops
                 PROVE  /\ \A i \in Slots(j)' : queue'[j][i].n = m => queue'[j][i].op = "navigate"
                        /\ run'[j].n = m => Navigating(run'[j])
                        /\ key'[j][m] = "none" /\ dir'[j][m] = "absent" /\ receipt'[j][m] = "none"
      BY DEF BeforeExec
    <3>1. BeforeExec(m)
      BY DEF ShapeInv, ShapeOf
    <3>2. Navigating(run[k])
      BY <3>1 DEF BeforeExec
    <3>3. \A i \in Slots(j)' : queue'[j][i].n = m => queue'[j][i].op = "navigate"
      BY <1>6, <1>10, <3>1, <3>2, ZenonT(30) DEF BeforeExec
    <3>4. run'[j].n = m => Navigating(run'[j])
      BY <1>5, <1>6, <3>1, <3>2 DEF BeforeExec
    <3>5. key'[j][m] = "none" /\ dir'[j][m] = "absent" /\ receipt'[j][m] = "none"
      BY <3>1 DEF BeforeExec
    <3> QED
      BY <3>3, <3>4, <3>5
  <2>5. exec[m] # 0 => AfterExec(m)'
    <3> SUFFICES ASSUME exec[m] # 0, NEW j \in Hops
                 PROVE  /\ \A i \in Slots(j)' : queue'[j][i].n = m => queue'[j][i].op # "navigate" /\ j > exec[m]
                        /\ run'[j].n = m =>
                             /\ j < exec[m] => PassedOn(run'[j])
                             /\ j = exec[m] => Executing(run'[j])
                             /\ j > exec[m] => run'[j].op # "navigate"
      BY DEF AfterExec
    <3>1. AfterExec(m)
      BY DEF ShapeInv, ShapeOf
    <3>2. /\ ~ (k < exec[m])
          /\ k = exec[m] => Executing(run[k])
          /\ k > exec[m] => run[k].op # "navigate"
      BY <1>6, <3>1 DEF AfterExec
    <3>3. op # "navigate" /\ k + 1 > exec[m]
      <4>1. run[k].op # "navigate" => op # "navigate"
        BY <1>2, HandlerFacts DEF WellFormed, Asking, Ops
      <4>2. op # "navigate"
        BY <1>2, <1>6, <2>3, <3>2, <4>1
      <4> QED
        BY <1>2, <2>3, <3>2, <4>2
    <3>4. \A i \in Slots(j)' : queue'[j][i].n = m => queue'[j][i].op # "navigate" /\ j > exec[m]
      BY <1>10, <3>1, <3>3 DEF AfterExec
    <3>5. CASE j = k
      BY <1>5, <1>6, <3>2, <3>4, <3>5
    <3>6. CASE j # k
      BY <1>5, <3>1, <3>4, <3>6 DEF AfterExec
    <3> QED
      BY <3>5, <3>6
  <2>6. ShapeOf(m)'
    BY <1>5, <2>2, <2>4, <2>5 DEF ShapeInv, ShapeOf, Tmux
  <2> QED
    BY <2>1, <2>6 DEF ShapeInv
<1>15. \A j \in Hops, n \in Requests : (Answering(j, n)' <=> Answering(j, n))
  BY DEF Answering
<1>16. ~ AllCleared(m) /\ \A n \in Requests : AllCleared(n) => AllCleared(n)'
  BY <1>6, <1>9 DEF AllCleared, Cleared
<1>17. \A j \in Hops : ClearedBelow(j, m) => ~ (k < j) /\ ClearedBelow(j, m)'
  <2> SUFFICES ASSUME NEW j \in Hops, ClearedBelow(j, m)
               PROVE  ~ (k < j) /\ ClearedBelow(j, m)'
    OBVIOUS
  <2>1. ~ (k < j)
    BY <1>6 DEF ClearedBelow, Cleared
  <2>2. ASSUME NEW i \in Hops, i < j
        PROVE  Cleared(i, m)'
    <3>1. i # k /\ i # k + 1 /\ Cleared(i, m)
      BY <1>2, <2>1, <2>2 DEF ClearedBelow, Hops
    <3> QED
      BY <1>5, <1>9, <3>1 DEF Cleared
  <2> QED
    BY <2>1, <2>2 DEF ClearedBelow
<1>18. CommitInv'
  <2>1. (\A j \in Hops : \A i \in Slots(j) :
          queue[j][i].op = "commit" =>
            /\ ClearedBelow(j, queue[j][i].n)
            /\ \A h \in Slots(j) : queue[j][h].n = queue[j][i].n => h = i)'
    <3> SUFFICES ASSUME NEW j \in Hops, NEW i \in Slots(j)', queue'[j][i].op = "commit"
                 PROVE  /\ ClearedBelow(j, queue[j][i].n)'
                        /\ \A h \in Slots(j)' : queue'[j][h].n = queue'[j][i].n => h = i
      OBVIOUS
    <3>1. CASE i \in Slots(j) /\ queue'[j][i] = queue[j][i] /\ queue[j][i].n \in Requests
      <4> PICK n \in Requests : n = queue[j][i].n
        BY <3>1
      <4>1. ClearedBelow(j, n) /\ \A h \in Slots(j) : queue[j][h].n = n => h = i
        BY <3>1 DEF CommitInv
      <4>2. ClearedBelow(j, n)'
        BY <1>9, <1>17, <4>1
      <4>3. ~ (j = k + 1 /\ n = m)
        BY <1>2, <1>17, <4>1 DEF Hops
      <4>4. \A h \in Slots(j)' : queue'[j][h].n = queue'[j][i].n => h = i
        BY <1>10, <3>1, <4>1, <4>3
      <4> QED
        BY <3>1, <4>2, <4>4
    <3>2. CASE j = k + 1 /\ i = Len(queue[k + 1]) + 1 /\ queue'[j][i].n = m /\ queue'[j][i].op = op
      <4>1. op = "commit" /\ Silent(k + 1, m)
        BY <1>11, <3>2
      <4>2. \A h \in Slots(j)' : queue'[j][h].n = m => h = i
        <5> SUFFICES ASSUME NEW h \in Slots(j)', queue'[j][h].n = m
                     PROVE  h = i
          OBVIOUS
        <5>1. ~ (h \in Slots(k + 1) /\ queue'[j][h] = queue[k + 1][h])
          BY <4>1 DEF Silent, NoneQueued
        <5>2. h = Len(queue[k + 1]) + 1
          BY <1>10, <3>2, <5>1
        <5> QED
          BY <3>2, <5>2
      <4>3. ClearedBelow(k, m) /\ NoneQueued(k, m)
        <5>1. CASE run[k].op = "commit"
          BY <5>1 DEF CommitInv
        <5>2. CASE run[k].op = "navigate"
          <6>1. Executing(run[k])
            BY <4>1, <5>2 DEF Executing, Asking
          <6> QED
            BY <5>2, <6>1, ExecutingHere
        <5> QED
          BY <1>2, <4>1, <5>1, <5>2, HandlerFacts DEF WellFormed, Asking, Ops
      <4>4. ClearedBelow(k, m)' /\ NoneQueued(k, m)'
        BY <1>2, <1>9, <1>17, <4>3
      <4>5. Cleared(k, m)'
        BY <1>5, <4>1, <4>4 DEF Cleared, Settled
      <4>6. ClearedBelow(k + 1, m)'
        BY <1>2, <4>4, <4>5 DEF ClearedBelow, Hops
      <4> QED
        BY <3>2, <4>2, <4>6
    <3> QED
      BY <1>10, <3>1, <3>2
  <2>2. (\A j \in Hops :
          run[j] # Idle /\ run[j].op = "commit" => ClearedBelow(j, run[j].n) /\ NoneQueued(j, run[j].n))'
    <3> SUFFICES ASSUME NEW j \in Hops, run'[j] # Idle, run'[j].op = "commit"
                 PROVE  (ClearedBelow(j, run[j].n) /\ NoneQueued(j, run[j].n))'
      OBVIOUS
    <3>1. run[j] # Idle /\ run[j].op = "commit" /\ run'[j].n = run[j].n
      BY <1>5
    <3> PICK n \in Requests : n = run[j].n
      BY <3>1, HandlerFacts
    <3>2. ClearedBelow(j, n) /\ NoneQueued(j, n)
      BY <3>1 DEF CommitInv
    <3>3. ~ (j = k + 1 /\ n = m)
      BY <1>2, <1>17, <3>2 DEF Hops
    <3>4. ClearedBelow(j, n)' /\ NoneQueued(j, n)'
      BY <1>9, <1>17, <3>2, <3>3
    <3> QED
      BY <3>1, <3>4
  <2>3. (\A i, j \in Hops, n \in Requests : Answering(i, n) /\ Answering(j, n) => i = j)'
    BY <1>15 DEF CommitInv
  <2>4. (\A j \in Hops, n \in Requests :
          Answering(j, n) => AllCleared(n) /\ Tmux(j) /\ exec[n] # 0 /\ exec[n] <= j /\ n \in asked)'
    BY <1>15, <1>16 DEF CommitInv, Tmux
  <2> QED
    BY <2>1, <2>2, <2>3, <2>4 DEF CommitInv
<1>19. StoreInv'
  <2>1. \A j \in Hops, n \in Requests : dir[j][n] = "claimed" => AllCleared(n)'
    BY <1>16 DEF StoreInv
  <2>2. \A j \in Hops : /\ run'[j].n = run[j].n
                        /\ HoldsOn(run[j]) => HoldsOn(run'[j])
                        /\ run'[j] # Idle /\ Committed(run'[j]) => run[j] # Idle /\ Committed(run[j])
    BY <1>5, <1>6
  <2> QED
    BY <2>1, <2>2 DEF StoreInv, Tmux
<1>20. ReadyInv'
  <2>1. \A j \in Hops, n \in Requests : /\ ReadyBelow(j, n) => ReadyBelow(j, n)'
                                        /\ ReadyBelow(j + 1, n) => ReadyBelow(j + 1, n)'
    BY DEF ReadyBelow, Tmux
  <2>2. ASSUME NEW j \in Hops, NEW i \in Slots(j)', queue'[j][i].op = "commit"
        PROVE  ReadyBelow(j, queue[j][i].n)'
    <3>1. CASE i \in Slots(j) /\ queue'[j][i] = queue[j][i] /\ queue[j][i].n \in Requests
      <4> PICK n \in Requests : n = queue[j][i].n
        BY <3>1
      <4>1. ReadyBelow(j, n)'
        BY <2>1, <2>2, <3>1 DEF ReadyInv
      <4> QED
        BY <3>1, <4>1
    <3>2. CASE j = k + 1 /\ queue'[j][i].n = m /\ queue'[j][i].op = op
      <4>1. ReadyBelow(k + 1, m)'
        BY <2>1, <2>2, <3>2 DEF ReadyInv
      <4> QED
        BY <3>2, <4>1
    <3> QED
      BY <1>10, <3>1, <3>2
  <2>3. ASSUME NEW j \in Hops, run'[j] # Idle
        PROVE  (/\ run[j].op = "commit" /\ run[j].at = "start" => ReadyBelow(j, run[j].n)
                /\ run[j].at = "emit" \/ (run[j].at = "ask" /\ run[j].want = "commit") => ReadyBelow(j + 1, run[j].n))'
    <3>1. CASE j = k
      BY <1>5, <3>1
    <3>2. CASE j # k
      <4>1. run'[j] = run[j] /\ run[j] # Idle
        BY <1>5, <2>3, <3>2
      <4> PICK n \in Requests : n = run[j].n
        BY <4>1, HandlerFacts
      <4>2. /\ run[j].op = "commit" /\ run[j].at = "start" => ReadyBelow(j, n)
            /\ run[j].at = "emit" \/ (run[j].at = "ask" /\ run[j].want = "commit") => ReadyBelow(j + 1, n)
        BY <4>1 DEF ReadyInv
      <4>3. /\ run'[j].op = "commit" /\ run'[j].at = "start" => ReadyBelow(j, n)'
            /\ run'[j].at = "emit" \/ (run'[j].at = "ask" /\ run'[j].want = "commit") => ReadyBelow(j + 1, n)'
        BY <2>1, <4>1, <4>2
      <4> QED
        BY <4>1, <4>3
    <3> QED
      BY <3>1, <3>2
  <2>4. \A j \in Hops, n \in Requests : KeyFine(j, n)'
    BY <2>1 DEF ReadyInv, KeyFine
  <2> QED
    BY <2>2, <2>3, <2>4 DEF ReadyInv
<1>21. UserInv'
  <2> SUFFICES ASSUME NEW n \in Requests
               PROVE  (/\ moves[n] \in {0, 1}
                       /\ moves[n] = 1 => Spent(n)
                       /\ Told(n, "armed") => moves[n] = 1
                       /\ Told(n, "declined") => moves[n] = 0 /\ Spent(n)
                       /\ \A j \in Hops :
                            /\ exec[n] = j /\ receipt[j][n] = "handled" => moves[n] = 1
                            /\ run[j].n = n /\ run[j].at = "dispatched" => n \in asked)'
    BY DEF UserInv
  <2>1. Spent(n) => Spent(n)'
    BY <1>5, <1>15, <1>16 DEF Spent
  <2>2. \A word \in {"armed", "declined"} : Told(n, word)' => Told(n, word)
    BY <1>5 DEF Told
  <2>3. \A j \in Hops : run'[j].n = n /\ run'[j].at = "dispatched" => n \in asked
    BY <1>5 DEF UserInv
  <2> QED
    BY <2>1, <2>2, <2>3 DEF UserInv
<1> QED
  BY <1>7, <1>13, <1>14, <1>18, <1>19, <1>20, <1>21

LEMMA SendKeeps ==
  ASSUME PathInv, NEW k \in Hops, Send(k)
  PROVE  PathInv'
<1>1. /\ run[k] # Idle /\ run[k].at = "ask" /\ "error" \in Words
      /\ UNCHANGED <<alive, dir, receipt, poison, exec, key, target, asked, moves>>
  BY DEF Send, At, Words, storeVars, keyVars, userVars
<1>2. CASE /\ queue' = [queue EXCEPT ![k + 1] = Append(@, [n |-> Req(k), op |-> run[k].want])]
           /\ Go(k, "await")
           /\ Works
  BY <1>1, <1>2, SendSent DEF Works, Req
<1>3. CASE /\ Hear(k, "error")
           /\ Fails
           /\ UNCHANGED queue
  <2>1. GoesOn(k, "heard", run[k].want, "error")
    BY <1>1, <1>3, HandlerFacts, GoGoesOn
  <2>2. GoesOnWell(k)
    BY <1>1, <2>1, HandlerFacts
       DEF GoesOnWell, GoesOn, WellFormed, Follows, Settled, PassedOn, Executing, HoldsOn,
           Committed, Asking, Leads, Quiet, Setting, Navigating
  <2> QED
    BY <1>1, <1>3, <2>1, <2>2, HandlerFacts, TalkGoesOn DEF GoesOnWell, Fails, storeVars, keyVars
<1> QED
  BY <1>2, <1>3 DEF Send
-----------------------------------------------------------------------------
(* Every step keeps the invariant.                                         *)

LEMMA InitPath == Init => PathInv
<1> SUFFICES ASSUME Init PROVE PathInv
  OBVIOUS
<1> USE DEF Init
<1>1. \A k \in Hops, n \in Requests :
        /\ run[k] = Idle /\ run[k].n # n /\ Slots(k) = {} /\ queue[k] = <<>>
        /\ dir[k][n] = "absent" /\ receipt[k][n] = "none" /\ key[k][n] = "none" /\ target[k][n] = None
  BY EntryAssumption DEF Slots, Idle
<1>2. PathTypeOK
  <2>1. caller \in [Requests -> {"idle", "waiting", "armed", "declined", "error"}]
    OBVIOUS
  <2>2. queue \in [Hops -> Seq(Messages)]
    OBVIOUS
  <2>3. run \in [Hops -> Handlers] /\ \A k \in Hops : run[k] = Idle
    BY DEF Handlers
  <2>4. exec \in [Requests -> 0 .. N]
    BY HopsAssumption
  <2> QED
    BY <2>1, <2>2, <2>3, <2>4 DEF PathTypeOK
<1>3. FrontierInv
  <2>1. \A k \in Hops : run[k] = Idle /\ Slots(k) = {}
    BY DEF Slots
  <2> QED
    BY <2>1 DEF FrontierInv
<1>4. ShapeInv
  BY <1>1 DEF ShapeInv, ShapeOf, BeforeExec, Silent, NoneQueued
<1>5. CommitInv
  <2>1. \A k \in Hops : run[k] = Idle /\ Slots(k) = {}
    BY DEF Slots
  <2> QED
    BY <1>1, <2>1 DEF CommitInv, Answering
<1>6. StoreInv
  BY <1>1 DEF StoreInv
<1>7. ReadyInv
  <2>1. \A k \in Hops : run[k] = Idle /\ Slots(k) = {}
    BY DEF Slots
  <2> QED
    BY <1>1, <2>1 DEF ReadyInv, KeyFine
<1>8. UserInv
  BY <1>1 DEF UserInv, Told
<1> QED
  BY <1>2, <1>3, <1>4, <1>5, <1>6, <1>7, <1>8 DEF PathInv

LEMMA HandlerKeeps ==
  ASSUME PathInv, NEW k \in Hops, Handler(k)
  PROVE  PathInv'
<1>1. CASE Turn(k)
  BY <1>1, TurnKeeps
<1>2. CASE Unresolved(k)
  BY <1>2, UnresolvedKeeps
<1>3. CASE NavigateHere(k)
  BY <1>3, NavigateHereKeeps
<1>4. CASE NavigateOut(k)
  BY <1>4, NavigateOutKeeps
<1>5. CASE Dispatch(k)
  BY <1>5, DispatchKeeps
<1>6. CASE Dispatched(k)
  BY <1>6, DispatchedKeeps
<1>7. CASE Arm(k)
  BY <1>7, ArmKeeps
<1>8. CASE PassOn(k)
  BY <1>8, PassOnKeeps
<1>9. CASE Send(k)
  BY <1>9, SendKeeps
<1>10. CASE HearNavigate(k)
  BY <1>10, HearNavigateKeeps
<1>11. CASE HearPrepare(k)
  BY <1>11, HearPrepareKeeps
<1>12. CASE HearAbort(k)
  BY <1>12, HearAbortKeeps
<1>13. CASE HearCommit(k)
  BY <1>13, HearCommitKeeps
<1>14. CASE Commit(k)
  BY <1>14, CommitKeeps
<1>15. CASE CommitFails(k)
  BY <1>15, CommitFailsKeeps
<1>16. CASE Emit(k)
  BY <1>16, EmitKeeps
<1>17. CASE Discard(k)
  BY <1>17, DiscardKeeps
<1>18. CASE AbortPath(k)
  BY <1>18, AbortPathKeeps
<1>19. CASE TakeReceipt(k)
  BY <1>19, TakeReceiptKeeps
<1> QED
  BY <1>1, <1>2, <1>3, <1>4, <1>5, <1>6, <1>7, <1>8, <1>9, <1>10, <1>11, <1>12, <1>13, <1>14,
     <1>15, <1>16, <1>17, <1>18, <1>19 DEF Handler

LEMMA StutterKeeps ==
  ASSUME PathInv, UNCHANGED vars
  PROVE  PathInv'
<1>1. UNCHANGED <<queue, run, alive, caller, dir, receipt, poison, exec, key, target, asked, moves, disturbed>>
  BY DEF vars, pathVars, storeVars, keyVars, userVars
<1>2. PathTypeOK'
  BY <1>1 DEF PathInv, PathTypeOK, WellFormed, Tmux
<1>3. \A k \in Hops : run'[k] # Idle => Follows(run[k], run'[k]) /\ Quiet(k, run[k], run'[k])
  BY <1>1 DEF Follows, Quiet
<1>4. Calm
  BY <1>1, <1>3 DEF Calm
<1>5. \A n \in Requests, word \in {"armed", "declined"} : Told(n, word)' => Told(n, word)
  BY <1>1 DEF Told
<1>6. \A k \in Hops, n \in Requests : run'[k].n = n /\ run'[k].at = "dispatched" => n \in asked'
  BY <1>1 DEF PathInv, UserInv
<1> QED
  BY <1>1, <1>2, <1>3, <1>4, <1>5, <1>6, TalkKeeps

LEMMA StepKeeps ==
  ASSUME PathInv, [Next]_vars
  PROVE  PathInv'
<1>1. CASE \E n \in Requests : Call(n) \/ CallerGivesUp(n)
  BY <1>1, CallKeeps, CallerGivesUpKeeps
<1>2. CASE \E k \in Hops : Handler(k) \/ GivesUp(k) \/ Crash(k)
  BY <1>2, HandlerKeeps, GivesUpReplyKeeps, GivesUpReceiptKeeps, CrashKeeps DEF GivesUp
<1>3. CASE \E k \in Hops, r \in Requests : Claim(k, r) \/ Run(k, r) \/ LoseKey(k, r)
  BY <1>3, ClaimKeeps, RunKeeps, LoseKeyKeeps
<1>4. CASE UNCHANGED vars
  BY <1>4, StutterKeeps
<1> QED
  BY <1>1, <1>2, <1>3, <1>4 DEF Next

LEMMA PathAlways == Spec => []PathInv
<1>1. PathInv /\ [Next]_vars => PathInv'
  BY StepKeeps
<1> QED
  BY <1>1, InitPath, PTL DEF Spec

(* Every variable keeps its type, and no request moves the focus twice.    *)
THEOREM PathTypeCorrect == Spec => []TypeOK
<1>1. PathInv => TypeOK
  <2> SUFFICES ASSUME PathInv PROVE TypeOK
    OBVIOUS
  <2>1. PathTypeOK /\ \A n \in Requests : moves[n] \in 0 .. 1
    BY DEF PathInv, UserInv
  <2>2. moves \in [Requests -> 0 .. 1]
    BY <2>1 DEF PathTypeOK
  <2> QED
    BY <2>1, <2>2 DEF PathTypeOK, TypeOK
<1> QED
  BY <1>1, PathAlways, PTL

(* The answer to a query names no request, yet the directive that commit   *)
(* (relay/store.rs, claim) takes for it is always that of its own request. *)
THEOREM AnswerIsOwn == Spec => []OwnAnswer
<1>1. PathInv => OwnAnswer
  BY DEF PathInv, ReadyInv, KeyFine, OwnAnswer
<1> QED
  BY <1>1, PathAlways, PTL

(* When everyone is done, no relay that still serves has a directive ready *)
(* that a stray answer could execute.                                      *)
THEOREM LeftoversAreHarmless == Spec => []LeftoversHarmless
<1>1. PathInv => LeftoversHarmless
  <2> SUFFICES ASSUME PathInv, Over, NEW k \in alive, NEW n \in Requests, dir[k][n] = "ready"
               PROVE  FALSE
    BY DEF LeftoversHarmless
  <2>1. k \in Hops
    BY DEF PathInv, PathTypeOK
  <2>2. run[k].n = n
    BY <2>1 DEF PathInv, StoreInv
  <2> QED
    BY <2>1, <2>2, EntryAssumption DEF Over, Idle
<1> QED
  BY <1>1, PathAlways, PTL
-----------------------------------------------------------------------------
(* Every step is a step of Gesture, or leaves what it speaks of alone.     *)

Heard == [n \in Requests |-> IF caller[n] \in {"idle", "waiting"} THEN "none" ELSE caller[n]]
Fits == [Promise!GestureNext]_(Promise!gestureVars)

LEMMA FitsUnseen ==
  ASSUME UNCHANGED <<asked, moves, caller>>
  PROVE  Fits
BY DEF Fits, Promise!gestureVars

LEMMA FitsAnswer ==
  ASSUME PathInv, PathInv', UNCHANGED <<asked, moves>>, NEW m \in Requests,
         \A n \in Requests : n # m => caller'[n] = caller[n],
         caller'[m] = caller[m] \/ caller[m] \in {"idle", "waiting"}
  PROVE  Fits
<1>1. /\ caller \in [Requests -> {"idle", "waiting", "armed", "declined", "error"}]
      /\ caller' \in [Requests -> {"idle", "waiting", "armed", "declined", "error"}]
  BY DEF PathInv, PathTypeOK
<1>2. CASE caller'[m] = caller[m] \/ caller'[m] \in {"idle", "waiting"}
  <2>1. Heard' = Heard
    BY <1>1, <1>2 DEF Heard
  <2> QED
    BY <2>1 DEF Fits, Promise!gestureVars, Heard
<1>3. CASE caller[m] \in {"idle", "waiting"} /\ caller'[m] \in {"armed", "declined", "error"}
  <2>1. Heard[m] = "none" /\ Heard' = [Heard EXCEPT ![m] = caller'[m]]
    BY <1>1, <1>3 DEF Heard
  <2>2. /\ caller'[m] = "armed" => moves[m] = 1
        /\ caller'[m] = "declined" => moves[m] = 0
    BY DEF PathInv, UserInv, Told
  <2>3. \/ Promise!AnswerArmed(m) \/ Promise!AnswerDeclined(m) \/ Promise!AnswerError(m)
    <3>1. CASE caller'[m] = "armed"
      BY <2>1, <2>2, <3>1 DEF Promise!AnswerArmed, Heard
    <3>2. CASE caller'[m] = "declined"
      BY <2>1, <2>2, <3>2 DEF Promise!AnswerDeclined, Heard
    <3>3. CASE caller'[m] = "error"
      BY <2>1, <3>3 DEF Promise!AnswerError, Heard
    <3> QED
      BY <1>3, <3>1, <3>2, <3>3
  <2> QED
    BY <2>3 DEF Fits, Promise!GestureNext
<1> QED
  BY <1>1, <1>2, <1>3

LEMMA FitsReply ==
  ASSUME PathInv, PathInv', NEW k \in Hops, run[k] # Idle, NEW word \in Words, Reply(k, word),
         UNCHANGED <<asked, moves>>
  PROVE  Fits
<1> PICK m \in Requests : m = run[k].n
  BY HandlerFacts
<1>1. Replied(k, word)
  BY HandlerFacts, ReplyReplies
<1>2. /\ \A n \in Requests : n # m => caller'[n] = caller[n]
      /\ caller'[m] = caller[m] \/ caller[m] \in {"idle", "waiting"}
  BY <1>1 DEF Replied
<1> QED
  BY <1>2, FitsAnswer

(* As long as a handler may still spread its request, or the answer is on  *)
(* its way, nothing has moved and the caller has no answer to rely on.     *)
LEMMA FitsAsk ==
  ASSUME PathInv, NEW k \in Hops, NEW m \in Requests, run[k].n = m, ~ Settled(run[k]),
         asked' = asked \cup {m}, UNCHANGED <<moves, caller>>
  PROVE  Fits
<1>1. ~ Spent(m)
  BY DEF Spent, AllCleared, Cleared
<1>2. caller[m] \notin {"armed", "declined"}
  BY <1>1 DEF PathInv, UserInv, Told
<1>3. Heard' = Heard /\ Heard[m] \notin {"armed", "declined"}
  BY <1>2 DEF Heard
<1>4. CASE m \in asked
  BY <1>4, FitsUnseen
<1>5. CASE m \notin asked
  <2>1. Promise!Ask(m)
    BY <1>3, <1>5 DEF Promise!Ask, Heard
  <2> QED
    BY <2>1 DEF Fits, Promise!GestureNext
<1> QED
  BY <1>4, <1>5

LEMMA FitsMove ==
  ASSUME PathInv, NEW m \in Requests, m \in asked, moves[m] = 0, ~ Told(m, "armed"), ~ Told(m, "declined"),
         NEW moved \in {0, 1}, moves' = [moves EXCEPT ![m] = @ + moved],
         UNCHANGED <<asked, caller>>
  PROVE  Fits
<1>1. moves \in [Requests -> Nat]
  BY DEF PathInv, PathTypeOK
<1>2. Heard' = Heard /\ Heard[m] \notin {"armed", "declined"}
  BY DEF Heard, Told
<1>3. CASE moved = 0
  <2>1. moves' = moves
    BY <1>1, <1>3
  <2> QED
    BY <2>1, FitsUnseen
<1>4. CASE moved = 1
  <2>1. moves' = [moves EXCEPT ![m] = 1]
    BY <1>4
  <2>2. Promise!Move(m)
    BY <1>2, <2>1 DEF Promise!Move, Heard
  <2> QED
    BY <2>2 DEF Fits, Promise!GestureNext
<1> QED
  BY <1>3, <1>4

LEMMA HandlerFits ==
  ASSUME PathInv, PathInv', NEW k \in Hops, Handler(k)
  PROVE  Fits
<1> USE DEF userVars
<1>1. CASE Turn(k) \/ NavigateHere(k) \/ NavigateOut(k) \/ Send(k) \/ Commit(k)
  <2>1. UNCHANGED <<asked, moves, caller>>
    BY <1>1 DEF Turn, NavigateHere, NavigateOut, Send, Commit, Go, Ask, Hear, Becomes
  <2> QED
    BY <2>1, FitsUnseen
<1>2. ASSUME run[k] # Idle, UNCHANGED <<asked, moves>>,
             UNCHANGED caller \/ \E word \in Words : Reply(k, word)
      PROVE  Fits
  BY <1>2, FitsUnseen, FitsReply
<1>3. CASE ~ Turn(k)
  <2> SUFFICES ASSUME run[k] # Idle PROVE Fits
    BY <1>3 DEF Handler, Unresolved, NavigateHere, NavigateOut, Dispatch, Dispatched, Arm, Arming,
                PassOn, Send, HearNavigate, HearPrepare, HearAbort, HearCommit, Hears, Commit,
                CommitFails, Committing, Emit, Discard, AbortPath, TakeReceipt, Starts, At
  <2> PICK m \in Requests : m = run[k].n
    BY HandlerFacts
  <2>1. /\ run[k].word \in Words
        /\ {"armed", "declined", "error", "prepared", "emitted", "aborted"} \subseteq Words
    BY HandlerFacts DEF Words
  <2>2. CASE Unresolved(k) \/ HearNavigate(k) \/ Discard(k)
    BY <1>2, <2>1, <2>2 DEF Unresolved, HearNavigate, Discard
  <2>3. CASE HearPrepare(k) \/ HearAbort(k) \/ HearCommit(k)
    BY <1>2, <2>1, <2>3 DEF HearPrepare, HearAbort, HearCommit, Go, Ask, Becomes
  <2>4. CASE CommitFails(k) \/ AbortPath(k)
    BY <1>2, <2>1, <2>4 DEF CommitFails, AbortPath, Go, Ask, Becomes
  <2>5. CASE TakeReceipt(k)
    BY <1>2, <2>1, <2>5 DEF TakeReceipt, Success
  <2>6. CASE Arm(k)
    BY <1>2, <2>1, <2>6 DEF Arm, Go, Ask, Becomes
  <2>7. CASE Dispatch(k)
    <3>1. ~ Settled(run[k])
      BY <2>7 DEF Dispatch, At, Settled
    <3>2. CASE asked' = asked \cup {Req(k)} /\ Go(k, "dispatched")
      BY <2>7, <3>1, <3>2, FitsAsk DEF Dispatch, Go, Becomes, Req
    <3>3. CASE Reply(k, "declined") /\ UNCHANGED asked
      BY <1>2, <2>1, <2>7, <3>3 DEF Dispatch
    <3> QED
      BY <2>7, <3>2, <3>3 DEF Dispatch
  <2>8. CASE Dispatched(k)
    <3>1. run[k].at = "dispatched" /\ ~ Settled(run[k]) /\ UNCHANGED asked
      BY <2>8 DEF Dispatched, At, Settled
    <3>2. m \in asked
      BY <3>1 DEF PathInv, UserInv
    <3>3. ~ Spent(m)
      BY <3>1 DEF Spent, AllCleared, Cleared
    <3>4. moves[m] = 0 /\ ~ Told(m, "armed") /\ ~ Told(m, "declined")
      BY <3>3 DEF PathInv, UserInv
    <3>5. PICK moved \in {0, 1} : moves' = [moves EXCEPT ![m] = @ + moved] /\ UNCHANGED caller
      BY <2>8 DEF Dispatched, Hear, Becomes, Req
    <3> QED
      BY <3>1, <3>2, <3>4, <3>5, FitsMove
  <2>9. CASE PassOn(k)
    <3>1. run[k].at = "start" /\ ~ Settled(run[k]) /\ UNCHANGED moves
      BY <2>9 DEF PassOn, Starts, At, Settled
    <3>2. CASE UNCHANGED asked
      BY <1>2, <2>1, <2>9, <3>1, <3>2 DEF PassOn, Ask, Becomes
    <3>3. CASE run[k].op = "commit" /\ Reply(k, "emitted") /\ asked' = asked \cup {Req(k)}
      <4>1. Replied(k, "emitted")
        BY <2>1, <3>3, HandlerFacts, ReplyReplies
      <4>2. caller' = caller
        <5>1. \A n \in Requests : caller'[n] = caller[n]
          BY <3>3, <4>1 DEF Replied, Home
        <5> QED
          BY <4>1, <5>1 DEF Replied, PathInv, PathTypeOK
      <4> QED
        BY <3>1, <3>3, <4>2, FitsAsk DEF Req
    <3> QED
      BY <2>9, <3>2, <3>3 DEF PassOn
  <2>10. CASE Emit(k)
    <3>1. run[k].at = "emit" /\ ~ Settled(run[k]) /\ UNCHANGED <<moves, caller>>
      BY <2>10 DEF Emit, At, Settled, Go, Becomes
    <3> QED
      BY <2>10, <3>1, FitsAsk, FitsUnseen DEF Emit, Req
  <2> QED
    BY <1>1, <1>3, <2>2, <2>3, <2>4, <2>5, <2>6, <2>7, <2>8, <2>9, <2>10 DEF Handler
<1> QED
  BY <1>1, <1>3

LEMMA RunFits ==
  ASSUME PathInv, NEW k \in Hops, NEW r \in Requests, Run(k, r)
  PROVE  Fits
<1>1. key[k][r] = "running" /\ Answering(k, r) /\ UNCHANGED <<asked, caller>>
  BY DEF Run, Answering, pathVars
<1>2. target[k][r] = r
  BY <1>1 DEF PathInv, ReadyInv, KeyFine
<1>3. r \in asked /\ moves[r] = 0 /\ ~ Told(r, "armed") /\ ~ Told(r, "declined")
  BY <1>1, AnsweringIs
<1>4. PICK acted \in BOOLEAN :
        moves' = IF acted /\ exec[r] = k THEN [moves EXCEPT ![r] = @ + 1] ELSE moves
  BY <1>2 DEF Run
<1>5. CASE acted /\ exec[r] = k
  BY <1>1, <1>3, <1>4, <1>5, FitsMove
<1>6. CASE ~ (acted /\ exec[r] = k)
  BY <1>1, <1>4, <1>6, FitsUnseen
<1> QED
  BY <1>5, <1>6

LEMMA StepFits ==
  ASSUME PathInv, PathInv', [Next]_vars
  PROVE  Fits
<1>1. ASSUME NEW m \in Requests, Call(m) \/ CallerGivesUp(m)
      PROVE  Fits
  <2>1. /\ UNCHANGED <<asked, moves>> /\ caller[m] \in {"idle", "waiting"}
        /\ \A n \in Requests : n # m => caller'[n] = caller[n]
    BY <1>1 DEF Call, CallerGivesUp, userVars, PathInv, PathTypeOK
  <2> QED
    BY <2>1, FitsAnswer
<1>2. ASSUME NEW k \in Hops, GivesUp(k)
      PROVE  Fits
  <2>1. CASE GivesUpReply(k)
    BY <2>1, FitsUnseen DEF GivesUpReply, Hear, Becomes, userVars
  <2>2. CASE GivesUpReceipt(k)
    <3>1. run[k] # Idle /\ "error" \in Words /\ Reply(k, "error") /\ UNCHANGED <<asked, moves>>
      BY <2>2 DEF GivesUpReceipt, At, Words, userVars
    <3> QED
      BY <3>1, FitsReply
  <2> QED
    BY <1>2, <2>1, <2>2 DEF GivesUp
<1>3. ASSUME NEW k \in Hops, Crash(k)
      PROVE  Fits
  BY <1>3, FitsUnseen DEF Crash, userVars
<1>4. ASSUME NEW k \in Hops, NEW r \in Requests, Claim(k, r) \/ LoseKey(k, r)
      PROVE  Fits
  BY <1>4, FitsUnseen DEF Claim, LoseKey, pathVars, userVars
<1>5. CASE UNCHANGED vars
  BY <1>5, FitsUnseen DEF vars, pathVars, userVars
<1> QED
  BY <1>1, <1>2, <1>3, <1>4, <1>5, HandlerFits, RunFits DEF Next

(* However many hops carry a gesture out, whatever is lost and whoever is  *)
(* killed, the path keeps the promise of Gesture: one move at most, on     *)
(* behalf of a request for which a terminal was told; "armed" only after   *)
(* it, and after "declined" none.                                          *)
THEOREM PathKeepsPromise == Spec => KeepsPromise
<1>1. Init => Promise!GestureInit
  BY DEF Init, Promise!GestureInit
<1>2. PathInv /\ PathInv' /\ [Next]_vars => [Promise!GestureNext]_(Promise!gestureVars)
  BY StepFits DEF Fits
<1> QED
  BY <1>1, <1>2, PathAlways, PTL DEF Spec, KeepsPromise, Promise!GestureSpec
=============================================================================
