------------------------ MODULE SshSupervisorProofs ------------------------
(***************************************************************************)
(* What is proved of SshSupervisor and of BoundedCall in it, for any       *)
(* number of calls, any pipe and any cap.  TLC checks CallInv and SshInv   *)
(* on the small instance first.                                            *)
(***************************************************************************)
EXTENDS SshSupervisor, TLAPS

(* A call: what has been read and what has not is what was written; the    *)
(* end of the output is final; where the caller stands says whether the    *)
(* child has been reaped, and whether the group has been killed.           *)
CallRecord ==
    [kind : Kinds,
     at : {"idle", "loop", "wait", "looked", "collect", "reap", "over"},
     result : {"none", "ok", "late", "failed"},
     child : {"none", "running", "exited", "reaped"},
     heir : {"none", "group", "away"},
     unread : 0..PipeCap, got : 0..MaxOut + 1, wrote : 0..MaxOut + 1,
     due : BOOLEAN, closed : BOOLEAN]
Accounted(x) == x.got + x.unread = x.wrote
EndIsFinal(x) == x.closed => x.unread = 0 /\ ~Writers(x)
ResultAtEnd(x) ==
  /\ x.result # "none" => x.at \in {"reap", "over"}
  /\ x.result = "ok" => x.at = "over"
ChildKnown(x) ==
  /\ x.at = "idle" => x = Unused
  /\ x.at = "collect" => x.child = "reaped"
  /\ x.at = "over" /\ x.result # "none" => x.child \in {"none", "reaped"}
GroupKilled(x) ==
  x.result \in {"late", "failed"} => x.child # "running" /\ x.heir # "group"
AllRead(x) == x.result = "ok" /\ x.kind # "status" => x.unread = 0
Good(x) ==
  /\ x \in CallRecord
  /\ Accounted(x) /\ EndIsFinal(x) /\ ResultAtEnd(x) /\ ChildKnown(x) /\ GroupKilled(x)
  /\ AllRead(x)
CallInv == call \in [Callers -> CallRecord] /\ \A c \in Callers : Good(call[c])

(* The command: which of its two threads has what.  A path that is old has *)
(* been served, and a dead one has no server any more, so a sweep that has *)
(* found it dead takes it from nobody.                                     *)
Before == {"absent", "start", "probe", "setup"}
Waiting == {"ready", "giveup", "spawn"}
InSession == {"watch", "looked", "grace"}
ThreadKnown ==
  /\ main \in Before => thread = "none" /\ ~owner
  /\ main = "plain" => thread \in {"none", "ended"} /\ ~owner
  /\ main \in Waiting \cup InSession => thread # "none"
  /\ main \in {"join", "joinerr"} => thread # "none" /\ ~owner
  /\ main \in {"cancel", "returned"} => thread = "ended" /\ ~owner
  /\ main = "crashed" => thread \in {"none", "ended"}
SockKnown ==
  /\ thread \in {"none", "begin", "bind"} => sock = "none"
  /\ thread = "listen" => sock = "bound"
  /\ thread \in {"settle", "announce", "poll", "drain"} => sock = "listening"
  /\ thread = "ended" /\ main # "crashed" => sock = "none"
  /\ sock \in {"bound", "listening"} => thread \in {"listen", "settle", "announce", "poll", "drain"}
SweepKnown ==
  /\ old => thread \notin {"none", "begin", "bind", "listen"}
  /\ sweeper => thread \in {"remove", "ended"}
SessionKnown ==
  /\ main \in Before \cup Waiting \cup {"plain"} => session = "none"
  /\ main \in InSession => session \in {"running", "exited"}
  /\ main \in {"join", "cancel"} => session = "reaped"
  /\ main \in {"joinerr", "returned"} => session \in {"none", "reaped"}
ForwardKnown ==
  /\ session = "none" => forward = "none"
  /\ session = "reaped" => forward # "session"
  /\ ~mux => forward \notin {"master", "refused"}
  /\ main = "returned" => status # "none"
  /\ main = "returned" /\ status = "status" => forward # "master"
SshInv ==
  /\ SshTypeOK /\ ThreadKnown /\ SockKnown /\ SweepKnown /\ SessionKnown /\ ForwardKnown

-----------------------------------------------------------------------------
LEMMA GoodType == CallInv => CallTypeOK
BY DEF CallInv, CallTypeOK, CallRecord

(* A step that gives one call a good new value keeps all of them good.     *)
LEMMA OneBecomes ==
  ASSUME NEW c \in Callers, NEW y, CallInv, Good(y), Becomes(c, y)
  PROVE  CallInv'
<1>1. y \in CallRecord
  BY DEF Good
<1>2. call' \in [Callers -> CallRecord]
  BY <1>1 DEF CallInv, Becomes
<1>3. ASSUME NEW d \in Callers PROVE Good(call'[d])
  BY <1>3 DEF CallInv, Becomes
<1> QED
  BY <1>2, <1>3 DEF CallInv

LEMMA UnusedIsGood == Good(Unused) /\ Good(Spared)
<1>1. Unused \in CallRecord /\ Spared \in CallRecord
  <2>1. 0 \in 0..PipeCap /\ 0 \in 0..MaxOut + 1
    BY CallAssumption
  <2>2. Unused \in CallRecord
    BY <2>1 DEF Unused, CallRecord, Kinds
  <2> QED
    BY <2>2 DEF Spared, CallRecord
<1>2. Accounted(Unused) /\ Accounted(Spared) /\ EndIsFinal(Unused) /\ EndIsFinal(Spared)
  BY DEF Unused, Spared, Accounted, EndIsFinal
<1>3. /\ ResultAtEnd(Unused) /\ ResultAtEnd(Spared) /\ ChildKnown(Unused) /\ ChildKnown(Spared)
      /\ GroupKilled(Unused) /\ GroupKilled(Spared) /\ AllRead(Unused) /\ AllRead(Spared)
  BY DEF Unused, Spared, ResultAtEnd, ChildKnown, GroupKilled, AllRead
<1> QED
  BY <1>1, <1>2, <1>3 DEF Good

-----------------------------------------------------------------------------
(* The child and its descendants.                                          *)
LEMMA ChildStepGood ==
  ASSUME NEW c \in Callers, CallInv, ChildStep(c)
  PROVE  CallInv'
<1> DEFINE x == call[c]
<1>0. Good(x) /\ x \in CallRecord
  BY DEF CallInv, Good
<1> USE CallAssumption
<1>1. CASE ChildWrites(c)
  <2> DEFINE y == [x EXCEPT !.unread = @ + 1, !.wrote = @ + 1]
  <2>1. y \in CallRecord
    <3>1. x.unread + 1 \in 0..PipeCap /\ x.wrote + 1 \in 0..MaxOut + 1
      BY <1>0, <1>1 DEF ChildWrites, CallRecord
    <3> QED
      BY <1>0, <3>1 DEF CallRecord
  <2>2. Good(y)
    BY <1>0, <1>1, <2>1 DEF ChildWrites, ChildStep, CallRecord, Good, Accounted, EndIsFinal,
       ResultAtEnd, ChildKnown, GroupKilled, AllRead, Writers, Unused
  <2> QED
    BY <1>1, <2>2, OneBecomes DEF ChildWrites
<1>2. CASE ChildForks(c)
  <2> DEFINE y == [x EXCEPT !.heir = "group"]
  <2>1. y \in CallRecord
    BY <1>0 DEF CallRecord
  <2>2. Good(y)
    BY <1>0, <1>2, <2>1 DEF ChildForks, ChildStep, CallRecord, Good, Accounted, EndIsFinal,
       ResultAtEnd, ChildKnown, GroupKilled, AllRead, Writers, Unused
  <2> QED
    BY <1>2, <2>2, OneBecomes DEF ChildForks
<1>3. CASE HeirLeaves(c)
  <2> DEFINE y == [x EXCEPT !.heir = "away"]
  <2>1. y \in CallRecord
    BY <1>0 DEF CallRecord
  <2>2. Good(y)
    BY <1>0, <1>3, <2>1 DEF HeirLeaves, ChildStep, CallRecord, Good, Accounted, EndIsFinal,
       ResultAtEnd, ChildKnown, GroupKilled, AllRead, Writers, Unused
  <2> QED
    BY <1>3, <2>2, OneBecomes DEF HeirLeaves
<1>4. CASE HeirEnds(c)
  <2> DEFINE y == [x EXCEPT !.heir = "none"]
  <2>1. y \in CallRecord
    BY <1>0 DEF CallRecord
  <2>2. Good(y)
    BY <1>0, <1>4, <2>1 DEF HeirEnds, ChildStep, CallRecord, Good, Accounted, EndIsFinal,
       ResultAtEnd, ChildKnown, GroupKilled, AllRead, Writers, Unused
  <2> QED
    BY <1>4, <2>2, OneBecomes DEF HeirEnds
<1>5. CASE ChildExits(c)
  <2> DEFINE y == [x EXCEPT !.child = "exited"]
  <2>1. y \in CallRecord
    BY <1>0 DEF CallRecord
  <2>2. Good(y)
    BY <1>0, <1>5, <2>1 DEF ChildExits, ChildStep, CallRecord, Good, Accounted, EndIsFinal,
       ResultAtEnd, ChildKnown, GroupKilled, AllRead, Writers, Unused
  <2> QED
    BY <1>5, <2>2, OneBecomes DEF ChildExits
<1> QED
  BY <1>1, <1>2, <1>3, <1>4, <1>5 DEF ChildStep

(* A group that has been killed has no child that runs and nobody left in  *)
(* it, and nobody starts writing by being killed.                          *)
LEMMA KilledShape ==
  ASSUME NEW x \in CallRecord
  PROVE  /\ Killed(x) \in CallRecord
         /\ Killed(x).child # "running" /\ Killed(x).heir # "group"
         /\ Writers(Killed(x)) => Writers(x)
         /\ \A f \in {"kind", "at", "result", "unread", "got", "wrote", "due", "closed"} :
              Killed(x)[f] = x[f]
BY DEF Killed, CallRecord, Writers

(* The call that was killed and is about to be waited for.                 *)
LEMMA KilledIsGood ==
  ASSUME NEW x \in CallRecord, Good(x), x.at \notin {"idle", "over", "collect"},
         NEW r \in {"late", "failed"}
  PROVE  Good([Killed(x) EXCEPT !.at = "reap", !.result = r])
<1> DEFINE k == Killed(x)
           y == [k EXCEPT !.at = "reap", !.result = r]
<1>1. k \in CallRecord /\ k.child # "running" /\ k.heir # "group" /\ (Writers(k) => Writers(x))
  BY KilledShape
<1>2. k.got = x.got /\ k.unread = x.unread /\ k.wrote = x.wrote /\ k.closed = x.closed
  BY KilledShape
<1> HIDE DEF k
<1>3. y \in CallRecord
  BY <1>1 DEF CallRecord
<1>4. /\ y.at = "reap" /\ y.result = r /\ y.child = k.child /\ y.heir = k.heir
      /\ y.got = k.got /\ y.unread = k.unread /\ y.wrote = k.wrote /\ y.closed = k.closed
  BY <1>1 DEF CallRecord
<1> HIDE DEF y
<1>5. Accounted(y) /\ EndIsFinal(y)
  BY <1>1, <1>2, <1>4 DEF Good, Accounted, EndIsFinal, Writers
<1>6. ResultAtEnd(y) /\ ChildKnown(y) /\ GroupKilled(y) /\ AllRead(y)
  BY <1>1, <1>4 DEF ResultAtEnd, ChildKnown, GroupKilled, AllRead
<1>7. Good(y)
  BY <1>3, <1>5, <1>6 DEF Good
<1> QED
  BY <1>7 DEF k, y

(* A call begins.                                                          *)
LEMMA BeginGood ==
  ASSUME NEW c \in Callers, NEW k \in Kinds, CallInv, Begin(c, k)
  PROVE  CallInv'
<1>1. call[c] = Unused
  BY DEF CallInv, Good, ChildKnown, Begin
<1>2. Unused \in CallRecord /\ Accounted(Unused)
  BY UnusedIsGood DEF Good
<1> DEFINE y == [Unused EXCEPT !.kind = k, !.at = "loop", !.child = "running"]
           z == [Unused EXCEPT !.kind = k, !.at = "over", !.result = "failed"]
<1>3. Good(y)
  <2>1. y \in CallRecord
    BY <1>2 DEF CallRecord
  <2> QED
    BY <1>2, <2>1 DEF CallRecord, Good, Accounted, EndIsFinal,
       ResultAtEnd, ChildKnown, GroupKilled, AllRead, Writers, Unused
<1>4. Good(z)
  <2>1. z \in CallRecord
    BY <1>2 DEF CallRecord
  <2> QED
    BY <1>2, <2>1 DEF CallRecord, Good, Accounted, EndIsFinal,
       ResultAtEnd, ChildKnown, GroupKilled, AllRead, Writers, Unused
<1>5. Becomes(c, y) \/ Becomes(c, z)
  BY <1>1 DEF Begin
<1> QED
  BY <1>3, <1>4, <1>5, OneBecomes

LEMMA CallerStepGood ==
  ASSUME NEW c \in Callers, CallInv, CallerStep(c)
  PROVE  CallInv'
<1> DEFINE x == call[c]
<1>0. Good(x) /\ x \in CallRecord
  BY DEF CallInv, Good
<1> USE CallAssumption
<1>1. CASE WaitError(c)
  <2>1. x.at \in {"wait", "loop"}
    BY <1>1 DEF WaitError
  <2>2. Good([Killed(x) EXCEPT !.at = "reap", !.result = "failed"])
    BY <1>0, <2>1, KilledIsGood
  <2> QED
    BY <1>1, <2>2, OneBecomes DEF WaitError
<1>2. CASE Deadline(c)
  <2> DEFINE y == [x EXCEPT !.due = TRUE]
  <2>1. y \in CallRecord
    BY <1>0 DEF CallRecord
  <2>2. Good(y)
    BY <1>0, <1>2, <2>1 DEF Deadline, CallRecord, Good, Accounted, EndIsFinal,
       ResultAtEnd, ChildKnown, GroupKilled, AllRead, Writers, Unused
  <2> QED
    BY <1>2, <2>2, OneBecomes DEF Deadline
<1>3. CASE Drain(c)
  <2>1. x.at = "loop" /\ x.kind = "drain"
    BY <1>3 DEF Drain
  <2>2. CASE x.got + x.unread > MaxOut
    <3>1. Good([Killed(x) EXCEPT !.at = "reap", !.result = "failed"])
      BY <1>0, <2>1, KilledIsGood
    <3> QED
      BY <1>3, <2>2, <3>1, OneBecomes DEF Drain
  <2>3. CASE ~(x.got + x.unread > MaxOut)
    <3> DEFINE y == [x EXCEPT !.at = "wait", !.got = @ + x.unread, !.unread = 0,
                              !.closed = @ \/ ~Writers(x)]
    <3>1. y \in CallRecord
      <4>1. x.got + x.unread \in 0..MaxOut + 1 /\ 0 \in 0..PipeCap
        BY <1>0, <2>3 DEF CallRecord
      <4>2. (x.closed \/ ~Writers(x)) \in BOOLEAN
        BY <1>0 DEF CallRecord
      <4> QED
        BY <1>0, <4>1, <4>2 DEF CallRecord
    <3>2. Good(y)
      BY <1>0, <2>1, <3>1 DEF CallRecord, Good, Accounted, EndIsFinal,
         ResultAtEnd, ChildKnown, GroupKilled, AllRead, Writers, Unused
    <3> QED
      BY <1>3, <2>3, <3>2, OneBecomes DEF Drain
  <2> QED
    BY <2>2, <2>3
<1>4. CASE TryWait(c)
  <2> DEFINE y == IF x.child = "exited" THEN [x EXCEPT !.child = "reaped"] ELSE x
             done == x.kind = "status" \/ (x.kind = "drain" /\ x.closed)
             z == IF y.child = "reaped" /\ done THEN [y EXCEPT !.at = "over", !.result = "ok"]
                  ELSE IF y.child = "reaped" /\ x.kind = "capture"
                       THEN [y EXCEPT !.at = "collect"]
                  ELSE [y EXCEPT !.at = "looked"]
  <2>1. y \in CallRecord /\ Good(y) /\ y.at \in {"wait", "loop"}
    BY <1>0, <1>4 DEF TryWait, CallRecord, Good, Accounted, EndIsFinal,
       ResultAtEnd, ChildKnown, GroupKilled, AllRead, Writers, Unused
  <2>2. y.kind = x.kind /\ y.closed = x.closed
    BY <1>0 DEF CallRecord
  <2>3. Becomes(c, z)
    BY <1>4 DEF TryWait
  <2> HIDE DEF y, z
  <2>4. ASSUME z = [y EXCEPT !.at = "looked"] PROVE Good(z)
    <3>1. z \in CallRecord
      BY <2>1, <2>4 DEF CallRecord
    <3> QED
      BY <2>1, <2>4, <3>1 DEF CallRecord, Good, Accounted, EndIsFinal,
         ResultAtEnd, ChildKnown, GroupKilled, AllRead, Writers, Unused
  <2>5. ASSUME z = [y EXCEPT !.at = "over", !.result = "ok"], y.child = "reaped",
               y.kind = "status" \/ y.closed
        PROVE  Good(z)
    <3>1. z \in CallRecord
      BY <2>1, <2>5 DEF CallRecord
    <3> QED
      BY <2>1, <2>5, <3>1 DEF CallRecord, Good, Accounted, EndIsFinal,
         ResultAtEnd, ChildKnown, GroupKilled, AllRead, Writers, Unused
  <2>6. ASSUME z = [y EXCEPT !.at = "collect"], y.child = "reaped" PROVE Good(z)
    <3>1. z \in CallRecord
      BY <2>1, <2>6 DEF CallRecord
    <3> QED
      BY <2>1, <2>6, <3>1 DEF CallRecord, Good, Accounted, EndIsFinal,
         ResultAtEnd, ChildKnown, GroupKilled, AllRead, Writers, Unused
  <2>7. Good(z)
    <3>1. CASE y.child = "reaped" /\ done
      BY <2>2, <2>5, <3>1 DEF z
    <3>2. CASE ~(y.child = "reaped" /\ done) /\ y.child = "reaped" /\ x.kind = "capture"
      BY <2>6, <3>2 DEF z
    <3>3. CASE ~(y.child = "reaped" /\ done) /\ ~(y.child = "reaped" /\ x.kind = "capture")
      BY <2>4, <3>3 DEF z
    <3> QED
      BY <3>1, <3>2, <3>3
  <2> QED
    BY <2>3, <2>7, OneBecomes
<1>5. CASE Turn(c)
  <2>1. x.at = "looked"
    BY <1>5 DEF Turn
  <2>2. Good([Killed(x) EXCEPT !.at = "reap", !.result = "late"])
    BY <1>0, <2>1, KilledIsGood
  <2> DEFINE y == [x EXCEPT !.at = "loop"]
  <2>3. Good(y)
    <3>1. y \in CallRecord
      BY <1>0 DEF CallRecord
    <3> QED
      BY <1>0, <2>1, <3>1 DEF CallRecord, Good, Accounted, EndIsFinal,
         ResultAtEnd, ChildKnown, GroupKilled, AllRead, Writers, Unused
  <2> QED
    BY <1>5, <2>2, <2>3, OneBecomes DEF Turn
<1>6. CASE Collect(c)
  <2> DEFINE y == [x EXCEPT !.got = @ + x.unread, !.unread = 0]
             z == [x EXCEPT !.at = "over", !.result = "ok"]
  <2>1. Good(y)
    <3>1. y \in CallRecord
      <4>1. x.got + x.unread \in 0..MaxOut + 1 /\ 0 \in 0..PipeCap
        BY <1>0 DEF CallRecord, Good, Accounted
      <4> QED
        BY <1>0, <4>1 DEF CallRecord
    <3> QED
      BY <1>0, <1>6, <3>1 DEF Collect, CallRecord, Good, Accounted, EndIsFinal,
         ResultAtEnd, ChildKnown, GroupKilled, AllRead, Writers, Unused
  <2>2. ASSUME x.unread = 0 PROVE Good(z)
    <3>1. z \in CallRecord
      BY <1>0 DEF CallRecord
    <3> QED
      BY <1>0, <1>6, <2>2, <3>1 DEF Collect, CallRecord, Good, Accounted, EndIsFinal,
         ResultAtEnd, ChildKnown, GroupKilled, AllRead, Writers, Unused
  <2> QED
    BY <1>6, <2>1, <2>2, OneBecomes DEF Collect
<1>7. CASE Reap(c)
  <2> DEFINE y == [x EXCEPT !.child = "reaped", !.at = "over"]
  <2>1. y \in CallRecord
    BY <1>0 DEF CallRecord
  <2>2. Good(y)
    BY <1>0, <1>7, <2>1 DEF Reap, CallRecord, Good, Accounted, EndIsFinal,
       ResultAtEnd, ChildKnown, GroupKilled, AllRead, Writers, Unused
  <2> QED
    BY <1>7, <2>2, OneBecomes DEF Reap
<1> QED
  BY <1>1, <1>2, <1>3, <1>4, <1>5, <1>6, <1>7 DEF CallerStep

LEMMA CallsStayGood ==
  ASSUME CallInv, [SshNext]_sshVars
  PROVE  CallInv'
<1> USE SupervisorAssumption
<1>1. CASE \E c \in Callers : CallStep(c)
  BY <1>1, ChildStepGood, CallerStepGood DEF CallStep
<1>2. CASE \E c \in Callers, k \in Kinds : Begin(c, k)
  BY <1>2, BeginGood
<1>3. CASE Becomes(Supervisor, Spared)
  BY <1>3, UnusedIsGood, OneBecomes
<1>4. CASE UNCHANGED call
  BY <1>4 DEF CallInv
<1>5. CASE Classify
  BY <1>2, <1>4, <1>5 DEF Classify, AskConfig, Kinds
<1>6. CASE TakeConfig
  BY <1>3, <1>6 DEF TakeConfig
<1>7. CASE Crash
  BY <1>3, <1>4, <1>7 DEF Crash
<1>8. CASE SomeCall
  BY <1>1, <1>2, <1>8 DEF SomeCall, Others
<1>9. CASE SetUp \/ WaitReady \/ GiveUp \/ SpawnSession \/ Reaps \/ SeesRunning \/ KillSession
           \/ LooksForSignal \/ WaitFails \/ Join \/ GraceOver \/ KillDeadline \/ CancelForward
  BY <1>4, <1>9 DEF SetUp, WaitReady, GiveUp, SpawnSession, Reaps, Gone, SeesRunning, KillSession,
     LooksForSignal, WaitFails, Join, GraceOver, KillDeadline, CancelForward
<1>10. CASE RelayStep \/ Accept \/ HandlerEnds \/ PollFails
  BY <1>4, <1>10 DEF RelayStep, BeginRelay, Bind, Listen, Settle, Announce, StopPolling, Drained,
     RemovePath, Accept, HandlerEnds, PollFails, RestStill
<1>11. CASE SessionForwards \/ SessionExits \/ Signal \/ Ages \/ SweepLook \/ SweepRemove
  BY <1>4, <1>11 DEF SessionForwards, SessionExits, Signal, Ages, SweepLook, SweepRemove
<1>12. CASE UNCHANGED sshVars
  BY <1>4, <1>12 DEF sshVars
<1> QED
  BY <1>5, <1>6, <1>7, <1>8, <1>9, <1>10, <1>11, <1>12 DEF SshNext, MainStep, World

-----------------------------------------------------------------------------
LEMMA SshInitial == SshInit => CallInv /\ SshInv
<1> SUFFICES ASSUME SshInit PROVE CallInv /\ SshInv
  OBVIOUS
<1>1. CallInv
  <2>1. call \in [Callers -> CallRecord]
    BY UnusedIsGood DEF SshInit, CallInit, Good
  <2> QED
    BY <2>1, UnusedIsGood DEF SshInit, CallInit, CallInv
<1>2. SshTypeOK
  BY <1>1, GoodType DEF SshInit, SshTypeOK
<1> QED
  BY <1>1, <1>2 DEF SshInit, SshInv, ThreadKnown, SockKnown, SweepKnown, SessionKnown, ForwardKnown,
     Before, Waiting, InSession

(* The parts of SshInv that a step of the command can disturb, action by   *)
(* action.                                                                 *)
LEMMA SshInvStep ==
  ASSUME SshInv, CallTypeOK', [SshNext]_sshVars
  PROVE  SshInv'
<1> USE DEF SshInv, SshTypeOK, ThreadKnown, SockKnown, SweepKnown, SessionKnown, ForwardKnown,
        Before, Waiting, InSession, relayVars, sessionVars
<1>1. CASE Classify
  BY <1>1 DEF Classify, Plain, AskConfig
<1>2. CASE TakeConfig
  BY <1>2 DEF TakeConfig, Plain
<1>3. CASE SetUp
  <2>1. owner' \in BOOLEAN /\ (main' = "plain" => owner' = owner)
    BY <1>3, Zenon DEF SetUp, Plain
  <2>2. SshTypeOK'
    BY <1>3, <2>1 DEF SetUp, Plain
  <2>3. ThreadKnown' /\ SockKnown' /\ SweepKnown'
    BY <1>3, <2>1 DEF SetUp, Plain
  <2>4. SessionKnown' /\ ForwardKnown'
    BY <1>3, <2>1 DEF SetUp, Plain
  <2> QED
    BY <2>2, <2>3, <2>4
<1>4. CASE WaitReady
  BY <1>4 DEF WaitReady
<1>5. CASE GiveUp
  <2>1. owner' \in BOOLEAN /\ ~owner'
    BY <1>5, Zenon DEF GiveUp
  <2>2. SshTypeOK'
    BY <1>5, <2>1 DEF GiveUp, Plain
  <2>3. ThreadKnown' /\ SockKnown' /\ SweepKnown'
    BY <1>5, <2>1 DEF GiveUp, Plain
  <2>4. SessionKnown' /\ ForwardKnown'
    BY <1>5, <2>1 DEF GiveUp, Plain
  <2> QED
    BY <2>2, <2>3, <2>4
<1>6. CASE SpawnSession
  <2>1. owner' \in BOOLEAN /\ (main' = "joinerr" => ~owner')
    BY <1>6, Zenon DEF SpawnSession
  <2>2. SshTypeOK'
    BY <1>6, <2>1 DEF SpawnSession
  <2>3. ThreadKnown' /\ SockKnown' /\ SweepKnown'
    BY <1>6, <2>1 DEF SpawnSession
  <2>4. SessionKnown' /\ ForwardKnown'
    BY <1>6, <2>1 DEF SpawnSession
  <2> QED
    BY <2>2, <2>3, <2>4
<1>7. CASE Reaps
  <2>1. owner' \in BOOLEAN /\ ~owner'
    BY <1>7, Zenon DEF Reaps, Gone
  <2>2. SshTypeOK'
    BY <1>7, <2>1 DEF Reaps, Gone
  <2>3. ThreadKnown' /\ SockKnown' /\ SweepKnown'
    BY <1>7, <2>1 DEF Reaps, Gone
  <2>4. SessionKnown' /\ ForwardKnown'
    BY <1>7, <2>1 DEF Reaps, Gone
  <2> QED
    BY <2>2, <2>3, <2>4
<1>8. CASE SeesRunning
  BY <1>8 DEF SeesRunning
<1>9. CASE KillSession
  <2>1. owner' \in BOOLEAN /\ ~owner'
    BY <1>9, Zenon DEF KillSession, Gone
  <2>2. SshTypeOK'
    BY <1>9, <2>1 DEF KillSession, Gone
  <2>3. ThreadKnown' /\ SockKnown' /\ SweepKnown'
    BY <1>9, <2>1 DEF KillSession, Gone
  <2>4. SessionKnown' /\ ForwardKnown'
    BY <1>9, <2>1 DEF KillSession, Gone
  <2> QED
    BY <2>2, <2>3, <2>4
<1>10. CASE LooksForSignal
  BY <1>10 DEF LooksForSignal
<1>11. CASE WaitFails
  <2>1. owner' \in BOOLEAN /\ ~owner'
    BY <1>11, Zenon DEF WaitFails, Gone
  <2>2. SshTypeOK'
    BY <1>11, <2>1 DEF WaitFails, Gone
  <2>3. ThreadKnown' /\ SockKnown' /\ SweepKnown'
    BY <1>11, <2>1 DEF WaitFails, Gone
  <2>4. SessionKnown' /\ ForwardKnown'
    BY <1>11, <2>1 DEF WaitFails, Gone
  <2> QED
    BY <2>2, <2>3, <2>4
<1>12. CASE Join
  BY <1>12 DEF Join
<1>13. CASE GraceOver
  BY <1>13 DEF GraceOver
<1>14. CASE KillDeadline
  BY <1>14 DEF KillDeadline
<1>15. CASE CancelForward
  BY <1>15 DEF CancelForward
<1>16. CASE BeginRelay
  <2>1. signal' \in BOOLEAN
    BY <1>16, Zenon DEF BeginRelay
  <2>2. SshTypeOK'
    BY <1>16, <2>1 DEF BeginRelay, ThreadTo, RestStill
  <2>3. ThreadKnown' /\ SockKnown' /\ SweepKnown'
    BY <1>16, <2>1 DEF BeginRelay, ThreadTo, RestStill
  <2>4. SessionKnown' /\ ForwardKnown'
    BY <1>16, <2>1 DEF BeginRelay, ThreadTo, RestStill
  <2> QED
    BY <2>2, <2>3, <2>4
<1>17. CASE Bind
  BY <1>17 DEF Bind, ThreadTo, RestStill
<1>18. CASE Listen
  BY <1>18 DEF Listen, Present, ThreadTo, RestStill
<1>19. CASE Settle
  <2>1. handlers' \in BOOLEAN
    BY <1>19, Zenon DEF Settle
  <2>2. SshTypeOK'
    BY <1>19, <2>1 DEF Settle, ThreadTo, RestStill
  <2>3. ThreadKnown' /\ SockKnown' /\ SweepKnown'
    BY <1>19, <2>1 DEF Settle, ThreadTo, RestStill
  <2>4. SessionKnown' /\ ForwardKnown'
    BY <1>19, <2>1 DEF Settle, ThreadTo, RestStill
  <2> QED
    BY <2>2, <2>3, <2>4
<1>20. CASE Announce
  BY <1>20 DEF Announce, ThreadTo, RestStill
<1>21. CASE StopPolling
  BY <1>21 DEF StopPolling, ThreadTo, RestStill
<1>22. CASE Drained
  BY <1>22 DEF Drained, Present, ThreadTo, RestStill
<1>23. CASE RemovePath
  BY <1>23 DEF RemovePath, ThreadTo, RestStill
<1>24. CASE Accept
  BY <1>24 DEF Accept, ThreadTo, RestStill
<1>25. CASE HandlerEnds
  <2>1. busy' \in BOOLEAN
    BY <1>25, Zenon DEF HandlerEnds
  <2>2. SshTypeOK'
    BY <1>25, <2>1 DEF HandlerEnds, ThreadTo, RestStill
  <2>3. ThreadKnown' /\ SockKnown' /\ SweepKnown'
    BY <1>25, <2>1 DEF HandlerEnds, ThreadTo, RestStill
  <2>4. SessionKnown' /\ ForwardKnown'
    BY <1>25, <2>1 DEF HandlerEnds, ThreadTo, RestStill
  <2> QED
    BY <2>2, <2>3, <2>4
<1>26. CASE PollFails
  BY <1>26 DEF PollFails, ThreadTo, RestStill
<1>27. CASE SessionForwards
  BY <1>27 DEF SessionForwards
<1>28. CASE SessionExits
  BY <1>28 DEF SessionExits
<1>29. CASE Crash
  <2>1. owner' \in BOOLEAN /\ ~owner' /\ busy' \in BOOLEAN
    BY <1>29, Zenon DEF Crash
  <2>2. SshTypeOK'
    BY <1>29, <2>1 DEF Crash, Present, Alive
  <2>3. ThreadKnown' /\ SockKnown' /\ SweepKnown'
    BY <1>29, <2>1 DEF Crash, Present, Alive
  <2>4. SessionKnown' /\ ForwardKnown'
    BY <1>29, <2>1 DEF Crash, Present, Alive
  <2> QED
    BY <2>2, <2>3, <2>4
<1>30. CASE Signal
  BY <1>30 DEF Signal, Alive
<1>31. CASE Ages
  BY <1>31 DEF Ages
<1>32. CASE SweepLook
  BY <1>32 DEF SweepLook
<1>33. CASE SweepRemove
  <2>1. sweeper' \in BOOLEAN /\ ~sweeper'
    BY <1>33, Zenon DEF SweepRemove
  <2>2. SshTypeOK'
    BY <1>33, <2>1 DEF SweepRemove, Present
  <2>3. ThreadKnown' /\ SockKnown' /\ SweepKnown'
    BY <1>33, <2>1 DEF SweepRemove, Present
  <2>4. SessionKnown' /\ ForwardKnown'
    BY <1>33, <2>1 DEF SweepRemove, Present
  <2> QED
    BY <2>2, <2>3, <2>4
<1>34. CASE SomeCall
  BY <1>34 DEF SomeCall, Running
<1>35. CASE UNCHANGED sshVars
  BY <1>35 DEF sshVars
<1> QED
  BY <1>1, <1>2, <1>3, <1>4, <1>5, <1>6, <1>7, <1>8, <1>9, <1>10, <1>11,
     <1>12, <1>13, <1>14, <1>15, <1>16, <1>17, <1>18, <1>19, <1>20, <1>21,
     <1>22, <1>23, <1>24, <1>25, <1>26, <1>27, <1>28, <1>29, <1>30, <1>31,
     <1>32, <1>33, <1>34, <1>35
  DEF SshNext, MainStep, RelayStep, World

-----------------------------------------------------------------------------
LEMMA SshInvariant == SshSpec => [](CallInv /\ SshInv)
<1>1. CallInv /\ SshInv /\ [SshNext]_sshVars => CallInv' /\ SshInv'
  <2> SUFFICES ASSUME CallInv, SshInv, [SshNext]_sshVars PROVE CallInv' /\ SshInv'
    OBVIOUS
  <2>1. CallInv'
    BY CallsStayGood
  <2>2. CallTypeOK'
    BY <2>1, GoodType, PTL
  <2> QED
    BY <2>1, <2>2, SshInvStep
<1> QED
  BY <1>1, SshInitial, PTL DEF SshSpec

(* Type correctness of the command, of its relay and of the calls.         *)
THEOREM SshTypeCorrect == SshSpec => []SshTypeOK
<1>1. SshInv => SshTypeOK
  BY DEF SshInv
<1> QED
  BY <1>1, SshInvariant, PTL

(* When the command ends, or gives its process to the real ssh, no relay,  *)
(* no path, no pipe and no child of it is left, and no forward but one at  *)
(* the mux master of a command that ends with an error (run).              *)
THEOREM NothingIsLeft == SshSpec => []NothingLeft
<1>1. SshInv => NothingLeft
  <2> SUFFICES ASSUME SshInv PROVE NothingLeft
    OBVIOUS
  <2>1. main = "plain" => sock = "none" /\ session = "none" /\ thread \in {"none", "ended"} /\ ~owner
    BY DEF SshInv, ThreadKnown, SockKnown, SessionKnown
  <2>2. main = "returned" => sock = "none" /\ session \in {"none", "reaped"} /\ thread = "ended" /\ ~owner
    BY DEF SshInv, ThreadKnown, SockKnown, SessionKnown
  <2>3. main = "returned" => forward # "session" /\ status \in {"status", "error"}
    BY <2>2 DEF SshInv, SshTypeOK, SessionKnown, ForwardKnown
  <2>4. main = "returned" /\ forward = "master" => status = "error"
    BY <2>3 DEF SshInv, ForwardKnown
  <2>5. main = "plain" => forward = "none"
    BY <2>1 DEF SshInv, ForwardKnown
  <2> QED
    BY <2>1, <2>2, <2>3, <2>4, <2>5 DEF NothingLeft
<1> QED
  BY <1>1, SshInvariant, PTL

(* The sweep of another connection takes no path away from a relay that    *)
(* can be reached (sweep).                                                 *)
THEOREM PathIsKept == SshSpec => []PathKept
<1>1. SshInv => PathKept
  BY DEF SshInv, SockKnown, PathKept
<1> QED
  BY <1>1, SshInvariant, PTL

(* Whatever the program does, a call that succeeds has read all of its     *)
(* output and reaped it, and one that fails leaves nothing of its group    *)
(* (output_timeout, status_timeout, output_timeout_draining_limited).      *)
THEOREM CallsAreHonest == SshSpec => []CallHonest
<1>1. CallInv => CallHonest
  <2> SUFFICES ASSUME CallInv, NEW c \in Callers, Returned(c)
               PROVE  /\ call[c].child \in {"none", "reaped"}
                      /\ call[c].result = "ok" /\ call[c].kind # "status" => call[c].got = call[c].wrote
                      /\ call[c].result # "ok" => call[c].heir # "group"
    BY DEF CallHonest
  <2>1. Good(call[c]) /\ call[c].result \in {"none", "ok", "late", "failed"}
    BY DEF CallInv, CallRecord
  <2>2. call[c].child \in {"none", "reaped"}
    BY <2>1 DEF Good, ChildKnown, Returned
  <2>3. call[c].result = "ok" /\ call[c].kind # "status" => call[c].got = call[c].wrote
    BY <2>1 DEF Good, AllRead, Accounted, CallRecord
  <2>4. call[c].result # "ok" => call[c].heir # "group"
    BY <2>1 DEF Good, GroupKilled, Returned
  <2> QED
    BY <2>2, <2>3, <2>4
<1> QED
  BY <1>1, SshInvariant, PTL
=============================================================================
