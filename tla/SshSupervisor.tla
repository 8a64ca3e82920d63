--------------------------- MODULE SshSupervisor ---------------------------
(***************************************************************************)
(* termnav ssh (ssh.rs): a call that termnav does not enhance becomes the  *)
(* real ssh, any other runs beside a relay thread (server.rs, serve_inner) *)
(* whose socket the session forwards.  Signals reach the supervisor at any *)
(* time, the session ends when it likes, and the start of another          *)
(* connection sweeps sockets it takes for dead.                            *)
(***************************************************************************)
EXTENDS BoundedCall

CONSTANT Supervisor   \* the caller that asks ssh -G
ASSUME SupervisorAssumption == Supervisor \in Callers

VARIABLES
  main,      \* where run() stands
  thread,    \* where the relay thread stands
  sock,      \* the socket's path: none, bound, listening, dead, unlinked
  old,       \* the path is a minute old
  ready,     \* the relay has told run() that it serves
  owner,     \* the writer of the owner pipe is open
  handlers,  \* the signal handlers are installed
  signal,    \* LAST_SIGNAL and STOPPING
  busy,      \* a connection of the relay has a handler
  session,   \* the ssh child: none, running, exited, reaped
  patience,  \* what wait_for_ssh gives the child: all, grace, last, none
  mux,       \* ssh is configured with a ControlPath
  forward,   \* who holds the remote forward: none, session, master; refused
  status,    \* how run() has ended: none, status, error
  sweeper    \* another connection's sweep has found the path dead

relayVars == <<thread, sock, old, ready, handlers, busy>>
sessionVars == <<session, patience, forward>>
sshVars == <<call, main, relayVars, owner, signal, sessionVars, mux, status, sweeper>>

SshTypeOK ==
  /\ CallTypeOK
  /\ main \in {"absent", "start", "probe", "setup", "ready", "giveup", "plain", "spawn",
               "watch", "looked", "grace", "join", "joinerr", "cancel", "returned", "crashed"}
  /\ thread \in {"none", "begin", "bind", "listen", "settle", "announce", "poll", "drain",
                 "remove", "ended"}
  /\ sock \in {"none", "bound", "listening", "dead", "unlinked"}
  /\ old \in BOOLEAN /\ ready \in BOOLEAN /\ owner \in BOOLEAN /\ handlers \in BOOLEAN
  /\ signal \in BOOLEAN /\ busy \in BOOLEAN /\ mux \in BOOLEAN /\ sweeper \in BOOLEAN
  /\ session \in {"none", "running", "exited", "reaped"}
  /\ patience \in {"all", "grace", "last", "none"}
  /\ forward \in {"none", "session", "master", "refused"}
  /\ status \in {"none", "status", "error"}

SshInit ==
  /\ CallInit /\ main \in {"absent", "start"} /\ mux \in BOOLEAN
  /\ thread = "none" /\ sock = "none" /\ session = "none" /\ patience = "all"
  /\ forward = "none" /\ status = "none"
  /\ old = FALSE /\ ready = FALSE /\ owner = FALSE /\ handlers = FALSE /\ signal = FALSE
  /\ busy = FALSE /\ sweeper = FALSE

-----------------------------------------------------------------------------
(* run(): is this a call to enhance, what does ssh -G say, can the private *)
(* directory and the pipe be had.  Whatever is in the way makes it plain.  *)
Plain == main' = "plain"
AskConfig == main' = "probe" /\ Begin(Supervisor, "capture")
Classify ==
  /\ main = "start"
  /\ (Plain /\ UNCHANGED call) \/ AskConfig
  /\ UNCHANGED <<relayVars, owner, signal, sessionVars, mux, status, sweeper>>
TakeConfig ==
  /\ main = "probe" /\ Returned(Supervisor)
  /\ Plain \/ (call[Supervisor].result = "ok" /\ main' = "setup")
  /\ Becomes(Supervisor, Spared)
  /\ UNCHANGED <<relayVars, owner, signal, sessionVars, mux, status, sweeper>>
SetUp ==
  /\ main = "setup"
  /\ \/ Plain /\ UNCHANGED <<owner, thread>>
     \/ main' = "ready" /\ owner' = TRUE /\ thread' = "begin"
  /\ UNCHANGED <<call, sock, old, ready, handlers, busy, signal, sessionVars, mux, status, sweeper>>

(* wait_for_socket: ready in time, by a thread that has not ended since.   *)
WaitReady ==
  /\ main = "ready" /\ main' \in {"spawn", "giveup"}
  /\ main' = "spawn" => ready /\ thread # "ended"
  /\ main' = "giveup" => thread = "ended" \/ ~ready    \* ended, or not ready after a second
  /\ UNCHANGED <<call, relayVars, owner, signal, sessionVars, mux, status, sweeper>>
(* The owner pipe is closed and the thread joined before ssh takes over.   *)
(* fault: ssh takes over from a relay that is still there.                 *)
GiveUpNow ==
  /\ main = "giveup" /\ owner' = FALSE /\ Plain
  /\ UNCHANGED <<call, relayVars, signal, sessionVars, mux, status, sweeper>>
GiveUp ==
  /\ main = "giveup" /\ owner' = FALSE
  /\ IF ~owner /\ thread = "ended" THEN Plain ELSE UNCHANGED main
  /\ UNCHANGED <<call, relayVars, signal, sessionVars, mux, status, sweeper>>

SpawnSession ==
  /\ main = "spawn"
  /\ \/ main' = "watch" /\ session' = "running" /\ UNCHANGED owner
     \/ main' = "joinerr" /\ owner' = FALSE /\ UNCHANGED session
  /\ UNCHANGED <<call, relayVars, signal, patience, forward, mux, status, sweeper>>

-----------------------------------------------------------------------------
(* wait_for_ssh.                                                           *)
Gone(next) ==
  /\ session' = "reaped" /\ main' = next /\ owner' = FALSE
  /\ forward' = IF forward = "session" THEN "none" ELSE forward
  /\ UNCHANGED <<call, relayVars, signal, patience, mux, status, sweeper>>
Reaps == main \in {"watch", "grace"} /\ session = "exited" /\ Gone("join")
SeesRunning ==
  /\ main = "watch" /\ session = "running" /\ main' = "looked"
  /\ UNCHANGED <<call, relayVars, owner, signal, sessionVars, mux, status, sweeper>>
(* kill and wait, a second after the signal was passed on.                 *)
KillSession == main = "looked" /\ patience = "none" /\ Gone("join")
(* A signal starts the grace that ssh gets to end by itself.               *)
LooksForSignal ==
  /\ main = "looked" /\ patience # "none"
  /\ IF patience = "all" /\ signal THEN main' = "grace" /\ patience' = "grace"
     ELSE main' = "watch" /\ UNCHANGED patience
  /\ UNCHANGED <<call, relayVars, owner, signal, session, forward, mux, status, sweeper>>
(* fault: the signal is passed on, the deadline is not set.                *)
GraceForgets ==
  /\ main = "grace" /\ main' = "watch" /\ patience' = "all"
  /\ UNCHANGED <<call, relayVars, owner, signal, session, forward, mux, status, sweeper>>
GraceOver ==
  /\ main = "grace" /\ main' = "watch" /\ patience' = "last"
  /\ UNCHANGED <<call, relayVars, owner, signal, session, forward, mux, status, sweeper>>
KillDeadline ==
  /\ main \in {"watch", "looked"} /\ patience = "last" /\ patience' = "none"
  /\ UNCHANGED <<call, main, relayVars, owner, signal, session, forward, mux, status, sweeper>>
(* try_wait or wait fails: the child is killed and waited for.  From here  *)
(* the command ends with the error, and without CancelForward.             *)
WaitFails ==
  /\ main \in {"watch", "grace"} \/ (main = "looked" /\ patience = "none")
  /\ Gone("joinerr")

(* The relay is gone before the forward is cancelled.                      *)
Join ==
  /\ thread = "ended"
  /\ \/ main = "join" /\ main' = (IF mux THEN "cancel" ELSE "returned")
        /\ status' = IF mux THEN "none" ELSE "status"
     \/ main = "joinerr" /\ main' = "returned" /\ status' = "error"
  /\ UNCHANGED <<call, relayVars, owner, signal, sessionVars, mux, sweeper>>
(* The mux master may have gone, or refuse.                                *)
CancelForward ==
  /\ main = "cancel" /\ main' = "returned" /\ status' = "status"
  /\ forward' \in IF forward = "master" THEN {"none", "refused"} ELSE {forward}
  /\ UNCHANGED <<call, relayVars, owner, signal, session, patience, mux, sweeper>>

MainStep ==
  \/ Classify \/ TakeConfig \/ SetUp \/ WaitReady \/ GiveUp \/ SpawnSession \/ Reaps
  \/ SeesRunning \/ KillSession \/ LooksForSignal \/ WaitFails \/ Join

-----------------------------------------------------------------------------
(* serve_inner, on a thread.  A failure before it serves ends it, and the  *)
(* guard of the path removes what was bound.                               *)
Present == sock \in {"bound", "listening", "dead"}
ThreadTo(from, next) == thread = from /\ thread' = next
RestStill == UNCHANGED <<call, main, owner, sessionVars, mux, status, sweeper>>

BeginRelay ==
  /\ \/ ThreadTo("begin", "bind") \/ ThreadTo("begin", "ended")
  /\ signal' = FALSE /\ UNCHANGED <<sock, old, ready, handlers, busy>> /\ RestStill
Bind ==
  /\ \/ ThreadTo("bind", "listen") /\ sock' = "bound"
     \/ ThreadTo("bind", "ended") /\ UNCHANGED sock
  /\ UNCHANGED <<old, ready, handlers, busy, signal>> /\ RestStill
Listen ==
  /\ ThreadTo("listen", "settle") /\ sock' = IF Present THEN "listening" ELSE "unlinked"
  /\ UNCHANGED <<old, ready, handlers, busy, signal>> /\ RestStill
Settle ==
  /\ \/ ThreadTo("settle", "announce") /\ handlers' = TRUE /\ UNCHANGED sock
     \/ ThreadTo("settle", "ended") /\ sock' = "none" /\ UNCHANGED handlers
  /\ UNCHANGED <<old, ready, busy, signal>> /\ RestStill
Announce ==
  /\ ThreadTo("announce", "poll") /\ ready' = TRUE
  /\ UNCHANGED <<sock, old, handlers, busy, signal>> /\ RestStill
Accept ==
  /\ thread = "poll" /\ forward # "none" /\ session = "running" /\ sock = "listening"
  /\ ~busy /\ busy' = TRUE
  /\ UNCHANGED <<thread, sock, old, ready, handlers, signal>> /\ RestStill
HandlerEnds ==
  /\ busy /\ busy' = FALSE
  /\ UNCHANGED <<thread, sock, old, ready, handlers, signal>> /\ RestStill
(* poll_loop stops for a signal, for the owner, or because poll fails.     *)
StopPolling ==
  /\ ThreadTo("poll", "drain") /\ (signal \/ ~owner)
  /\ UNCHANGED <<sock, old, ready, handlers, busy, signal>> /\ RestStill
PollFails ==
  /\ ThreadTo("poll", "drain")
  /\ UNCHANGED <<sock, old, ready, handlers, busy, signal>> /\ RestStill
Drained ==
  /\ ~busy /\ ThreadTo("drain", "remove") /\ sock' = IF Present THEN "dead" ELSE "none"
  /\ UNCHANGED <<old, ready, handlers, busy, signal>> /\ RestStill
RemovePath ==
  /\ ThreadTo("remove", "ended") /\ sock' = "none"
  /\ UNCHANGED <<old, ready, handlers, busy, signal>> /\ RestStill

RelayStep ==
  \/ BeginRelay \/ Bind \/ Listen \/ Settle \/ Announce
  \/ StopPolling \/ Drained \/ RemovePath

-----------------------------------------------------------------------------
(* The ssh child: it asks for the forward itself or through its master,    *)
(* and owes nobody an end.                                                 *)
SessionForwards ==
  /\ session = "running" /\ forward = "none"
  /\ forward' \in IF mux THEN {"session", "master"} ELSE {"session"}
  /\ UNCHANGED <<call, main, relayVars, owner, signal, session, patience, mux, status, sweeper>>
SessionExits ==
  /\ session = "running" /\ session' = "exited"
  /\ forward' = IF forward = "session" THEN "none" ELSE forward
  /\ UNCHANGED <<call, main, relayVars, owner, signal, patience, mux, status, sweeper>>

(* The process ends without a cleanup: SIGKILL, SIGHUP, or a signal before *)
(* the handlers are there.  Its threads go with it.                        *)
Alive == main \notin {"absent", "start", "plain", "returned", "crashed"}
Crash ==
  /\ Alive /\ main' = "crashed" /\ owner' = FALSE /\ busy' = FALSE
  /\ thread' = (IF thread = "none" THEN "none" ELSE "ended")
  /\ sock' = IF Present THEN "dead" ELSE "none"
  /\ IF main = "probe" THEN Becomes(Supervisor, Spared) ELSE UNCHANGED call
  /\ UNCHANGED <<old, ready, handlers, signal, sessionVars, mux, status, sweeper>>
Signal ==
  /\ Alive /\ handlers /\ ~signal /\ signal' = TRUE
  /\ UNCHANGED <<call, main, relayVars, owner, sessionVars, mux, status, sweeper>>

(* sweep(), by another connection: it looks for a path that is old and     *)
(* refuses a connection, and removes it.  The path is not a minute old     *)
(* before bind has returned.                                               *)
Ages ==
  /\ ~old /\ sock \in {"listening", "dead"} /\ old' = TRUE
  /\ UNCHANGED <<call, main, thread, sock, ready, handlers, busy, owner, signal, sessionVars,
                 mux, status, sweeper>>
(* fault: the age is not looked at.                                        *)
SweepYoung ==
  /\ ~sweeper /\ sock \in {"bound", "dead"} /\ sweeper' = TRUE
  /\ UNCHANGED <<call, main, relayVars, owner, signal, sessionVars, mux, status>>
SweepLook ==
  /\ ~sweeper /\ old /\ sock \in {"bound", "dead"} /\ sweeper' = TRUE
  /\ UNCHANGED <<call, main, relayVars, owner, signal, sessionVars, mux, status>>
SweepRemove ==
  /\ sweeper /\ sweeper' = FALSE
  /\ sock' = IF sock = "listening" THEN "unlinked" ELSE IF Present THEN "none" ELSE sock
  /\ UNCHANGED <<call, main, thread, old, ready, handlers, busy, owner, signal, sessionVars,
                 mux, status>>

World == SessionForwards \/ SessionExits \/ Crash \/ Signal \/ Ages \/ SweepLook \/ SweepRemove
Others == Callers \ {Supervisor}
Running(c) ==
  /\ c = Supervisor => main = "probe"
  /\ UNCHANGED <<main, relayVars, owner, signal, sessionVars, mux, status, sweeper>>
SomeCall ==
  \/ \E c \in Callers : Running(c) /\ CallStep(c)
  \/ \E c \in Others, k \in Kinds : Running(c) /\ Begin(c, k)
SshNext ==
  MainStep \/ GraceOver \/ KillDeadline \/ CancelForward \/ RelayStep \/ Accept \/ HandlerEnds
  \/ PollFails \/ World \/ SomeCall

(* termnav's own threads run and time passes.  Nothing is owed by ssh, by  *)
(* the mux master, by a program that is called, or by a relay that drains: *)
(* its handlers and its last release may stand for ever (RelayServer).     *)
SshFairness ==
  /\ WF_sshVars(MainStep) /\ WF_sshVars(thread # "drain" /\ RelayStep)
  /\ WF_sshVars(GraceOver) /\ WF_sshVars(KillDeadline)
  /\ \A c \in Callers : WF_sshVars(Running(c) /\ CallerStep(c)) /\ WF_sshVars(Running(c) /\ Deadline(c))
SshSpec == SshInit /\ [][SshNext]_sshVars /\ SshFairness

-----------------------------------------------------------------------------
(* When the command ends or gives its process to the real ssh, the relay   *)
(* thread has ended, its path is gone, the owner pipe is closed, and the   *)
(* session has been reaped, whatever has failed on the way (run).  So has  *)
(* a forward of the session, and one at the mux master has been asked back *)
(* (refused: without success), unless waiting for ssh has failed: on that  *)
(* error run returns before it comes to cancel_forward, and a forward at   *)
(* the master stays.  A command that is killed cleans up nothing, and      *)
(* nothing is said of it; its path is left to the sweep.                   *)
NothingLeft ==
  /\ main \in {"plain", "returned"} =>
       /\ thread \in {"none", "ended"} /\ sock = "none" /\ ~owner
       /\ session \in {"none", "reaped"}
  /\ main = "plain" => session = "none" /\ forward = "none"
  /\ main = "returned" => forward # "session" /\ (forward = "master" => status = "error")

(* What NothingLeft leaves out, and the code does not keep: a forward at   *)
(* the mux master is asked back however the command returns (run).         *)
ForwardAskedBack == main = "returned" => forward \notin {"session", "master"}

(* No sweep of another connection takes the path away from a relay that    *)
(* can still be reached (sweep, serve_inner).  It takes that bind returns  *)
(* within a minute of making the path (Ages).                              *)
PathKept == thread \in {"settle", "announce", "poll", "drain"} => sock = "listening"

(* A signal for the supervisor ends the session and its relay, even when   *)
(* ssh ignores the signal (wait_for_ssh), unless the relay drains for ever.*)
SignalEndsSession ==
  \/ signal /\ main \in {"spawn", "watch", "looked", "grace"}
       ~> main \in {"cancel", "returned", "crashed"}
  \/ <>[](thread = "drain")
=============================================================================
