----------------------------- MODULE RelayServer -----------------------------
(***************************************************************************)
(* The threads of one relay server (relay/server.rs): the poll loop that   *)
(* accepts connections until the SSH supervisor closes the owner pipe or a *)
(* signal arrives, one handler thread per connection, the ticket gate that *)
(* serves navigation requests one at a time, and the focus claim the       *)
(* server gives back when it ends.                                         *)
(*                                                                         *)
(* What a navigation request does inside is DirectiveStore; here it is one *)
(* bounded step.  A step of this module is a critical section or a read of *)
(* shared state outside of one.                                            *)
(***************************************************************************)
EXTENDS Naturals, FiniteSets

CONSTANTS
  Navs,         \* connections that carry a navigation request
  Focuses,      \* connections that carry a focus update
  Tokens,       \* publishers of focus claims
  Other,        \* a claim of the pane by somebody who uses another relay
  None,         \* no thread, no token, no claim
  MaxHandlers,  \* MAX_CONNECTION_HANDLERS
  Spurious      \* may a condition variable wake up without a notification

ASSUME ConnectionsAssumption == Navs \cap Focuses = {} /\ None \notin Navs \cup Focuses
ASSUME TokensAssumption == {Other, None} \cap Tokens = {} /\ Other # None
ASSUME BoundsAssumption == MaxHandlers \in Nat \ {0} /\ Spurious \in BOOLEAN

Connections == Navs \cup Focuses

VARIABLES
  at,         \* where each connection, or the thread that handles it, stands
  handlers,   \* the threads the poll loop has not reaped yet
  ticket,     \* OrderGate: the ticket each navigation thread has drawn
  next,       \*   the next ticket
  serving,    \*   the ticket whose turn it is
  mutex,      \*   the thread that holds the mutex of `serving`
  stopping,   \*   the gate is closed
  loop,       \* where the poll loop stands
  signalled,  \* STOPPING
  ownerOpen,  \* the supervisor still holds its end of the owner pipe
  focusLock,  \* the thread that holds the mutex of RelayFocus
  token,      \* RelayFocus: the latest claim the server has accepted
  pane,       \* the claim that stands on the pane: @termnav_child_focus
  failed      \* history: the tokens for which some update ended in an error

gateVars == <<ticket, next, serving, mutex, stopping>>
focusVars == <<focusLock, token, pane, failed>>
loopVars == <<loop, signalled, ownerOpen>>
vars == <<at, handlers, gateVars, loopVars, focusVars>>

-----------------------------------------------------------------------------
Finished == {"answered", "closed"}
Admitted == {"admitted", "dispatch", "leave", "shut", "quit"}
Holding == {"lock", "sleep", "waiting"} \cup Admitted
Places == {"away", "backlog", "reading", "enter", "draw", "focus", "reply"}
            \cup Holding \cup Finished
LoopPlaces == {"poll", "accept", "stop", "join", "release", "unlink", "exited"}

Init ==
  /\ at = [c \in Connections |-> "away"]
  /\ handlers = {}
  /\ ticket = [c \in Navs |-> 0]
  /\ next = 0
  /\ serving = 0
  /\ mutex = None
  /\ stopping = FALSE
  /\ loop = "poll"
  /\ signalled = FALSE
  /\ ownerOpen = TRUE
  /\ focusLock = None
  /\ token = None
  /\ pane = None
  /\ failed = {}

Go(c, place) == at' = [at EXCEPT ![c] = place]

(* notify_all: every thread that waits has to look again.                  *)
NotifiedGo(c, place) ==
  at' = [d \in Connections |->
           IF d = c THEN place ELSE IF at[d] = "waiting" THEN "lock" ELSE at[d]]

-----------------------------------------------------------------------------
(* Outside: clients, the supervisor, signals, other claimants of the pane. *)

Connect(c) ==
  /\ at[c] = "away"
  /\ loop # "exited"
  /\ Go(c, "backlog")
  /\ UNCHANGED <<handlers, gateVars, loopVars, focusVars>>

OwnerCloses ==
  /\ ownerOpen
  /\ ownerOpen' = FALSE
  /\ UNCHANGED <<at, handlers, gateVars, loop, signalled, focusVars>>

Signal ==
  /\ ~ signalled
  /\ signalled' = TRUE
  /\ UNCHANGED <<at, handlers, gateVars, loop, ownerOpen, focusVars>>

(* Another publisher claims the pane, or its lease runs out.               *)
PaneChanges ==
  /\ pane' \in {Other, None}
  /\ UNCHANGED <<at, handlers, gateVars, loopVars, focusLock, token, failed>>

-----------------------------------------------------------------------------
(* The poll loop.                                                          *)

(* poll() returns for a connection, for the owner pipe or for the wake-up  *)
(* pipe of the signal handler; the latter two end the loop.                *)
PollReturns ==
  /\ loop = "poll"
  /\ \/ /\ signalled \/ ~ ownerOpen
        /\ loop' = "stop"
     \/ /\ ~ signalled /\ ownerOpen
        /\ \E c \in Connections : at[c] = "backlog"
        /\ loop' = "accept"
  /\ UNCHANGED <<at, handlers, gateVars, signalled, ownerOpen, focusVars>>

Unfinished == {c \in handlers : at[c] \notin Finished}

RoomFor(threads) == Cardinality(threads) < MaxHandlers

(* accept() after reap_finished: a thread for the connection, or the cap   *)
(* is reached and the connection is dropped.                               *)
Accept(c) ==
  /\ loop = "accept"
  /\ at[c] = "backlog"
  /\ IF RoomFor(Unfinished)
     THEN handlers' = Unfinished \cup {c} /\ Go(c, "reading")
     ELSE handlers' = Unfinished /\ Go(c, "closed")
  /\ loop' = "poll"
  /\ UNCHANGED <<gateVars, signalled, ownerOpen, focusVars>>

(* poll() or accept() fails for good: the loop ends with the error.        *)
LoopFails ==
  /\ loop \in {"poll", "accept"}
  /\ loop' = "stop"
  /\ UNCHANGED <<at, handlers, gateVars, signalled, ownerOpen, focusVars>>

(* OrderGate::stop by the loop.                                            *)
LoopStopUnlocked ==   \* fault: the flag is set without the mutex
  /\ loop = "stop"
  /\ stopping' = TRUE
  /\ at' = [d \in Connections |-> IF at[d] = "waiting" THEN "lock" ELSE at[d]]
  /\ loop' = "join"
  /\ UNCHANGED <<handlers, ticket, next, serving, mutex, signalled, ownerOpen, focusVars>>

LoopStop ==
  /\ loop = "stop"
  /\ mutex = None
  /\ stopping' = TRUE
  /\ at' = [d \in Connections |-> IF at[d] = "waiting" THEN "lock" ELSE at[d]]
  /\ loop' = "join"
  /\ UNCHANGED <<handlers, ticket, next, serving, mutex, signalled, ownerOpen, focusVars>>

Join ==
  /\ loop = "join"
  /\ Unfinished = {}
  /\ handlers' = {}
  /\ loop' = "release"
  /\ UNCHANGED <<at, gateVars, signalled, ownerOpen, focusVars>>

(* RelayFocus::release asks for the token it remembers; what comes of it   *)
(* is ignored.                                                             *)
ReleaseClaim ==
  /\ loop = "release"
  /\ focusLock = None
  /\ \/ /\ pane' = IF pane = token THEN None ELSE pane
        /\ UNCHANGED failed
     \/ /\ token # None
        /\ failed' = failed \cup {token}
        /\ UNCHANGED pane
  /\ token' = None
  /\ loop' = "unlink"
  /\ UNCHANGED <<at, handlers, gateVars, signalled, ownerOpen, focusLock>>

(* The listener is closed and its path removed: connections that were      *)
(* never accepted are reset.                                               *)
Unlink ==
  /\ loop = "unlink"
  /\ at' = [c \in Connections |-> IF at[c] = "backlog" THEN "closed" ELSE at[c]]
  /\ loop' = "exited"
  /\ UNCHANGED <<handlers, gateVars, signalled, ownerOpen, focusVars>>

-----------------------------------------------------------------------------
(* A handler thread: the request, then OrderGate for a navigation.         *)

(* The request line arrives in time and parses, or the thread gives up.    *)
ReadRequest(c) ==
  /\ at[c] = "reading"
  /\ \/ Go(c, IF c \in Navs THEN "enter" ELSE "focus")
     \/ Go(c, "closed")
  /\ UNCHANGED <<handlers, gateVars, loopVars, focusVars>>

Enter(c) ==
  /\ at[c] = "enter"
  /\ Go(c, IF stopping THEN "closed" ELSE "draw")
  /\ UNCHANGED <<handlers, gateVars, loopVars, focusVars>>

DrawTicket(c) ==
  /\ at[c] = "draw"
  /\ ticket' = [ticket EXCEPT ![c] = next]
  /\ next' = next + 1
  /\ Go(c, "lock")
  /\ UNCHANGED <<handlers, serving, mutex, stopping, loopVars, focusVars>>

(* The predicate of the wait loop, read with the mutex held.  A thread     *)
(* that has to wait still holds it when it turns to the condition variable.*)
LookOnlyForTurn(c) ==   \* fault: whoever's turn it is goes in, stopped or not
  /\ at[c] = "lock"
  /\ mutex = None
  /\ \/ /\ serving # ticket[c] /\ ~ stopping
        /\ mutex' = c
        /\ Go(c, "sleep")
     \/ /\ serving = ticket[c] \/ stopping
        /\ Go(c, IF serving = ticket[c] THEN "admitted" ELSE "closed")
        /\ UNCHANGED mutex
  /\ UNCHANGED <<handlers, ticket, next, serving, stopping, loopVars, focusVars>>

Look(c) ==
  /\ at[c] = "lock"
  /\ mutex = None
  /\ \/ /\ serving # ticket[c] /\ ~ stopping
        /\ mutex' = c
        /\ Go(c, "sleep")
     \/ /\ serving = ticket[c] \/ stopping
        /\ Go(c, IF stopping THEN "closed" ELSE "admitted")
        /\ UNCHANGED mutex
  /\ UNCHANGED <<handlers, ticket, next, serving, stopping, loopVars, focusVars>>

Sleep(c) ==
  /\ at[c] = "sleep"
  /\ mutex' = None
  /\ Go(c, "waiting")
  /\ UNCHANGED <<handlers, ticket, next, serving, stopping, loopVars, focusVars>>

WakeSpuriously(c) ==
  /\ Spurious
  /\ at[c] = "waiting"
  /\ Go(c, "lock")
  /\ UNCHANGED <<handlers, gateVars, loopVars, focusVars>>

(* The owner pipe is looked at again once the turn has come.               *)
CheckOwnerAndReturn(c) ==   \* fault: the early return keeps the turn
  /\ at[c] = "admitted"
  /\ Go(c, IF ownerOpen THEN "dispatch" ELSE "closed")
  /\ UNCHANGED <<handlers, gateVars, loopVars, focusVars>>

CheckOwner(c) ==
  /\ at[c] = "admitted"
  /\ Go(c, IF ownerOpen THEN "dispatch" ELSE "shut")
  /\ UNCHANGED <<handlers, gateVars, loopVars, focusVars>>

Dispatch(c) ==
  /\ at[c] = "dispatch"
  /\ Go(c, "leave")
  /\ UNCHANGED <<handlers, gateVars, loopVars, focusVars>>

(* OrderGate::stop by a thread that found the owner gone.                  *)
Shut(c) ==
  /\ at[c] = "shut"
  /\ mutex = None
  /\ stopping' = TRUE
  /\ NotifiedGo(c, "quit")
  /\ UNCHANGED <<handlers, ticket, next, serving, mutex, loopVars, focusVars>>

(* OrderGate::leave, on the way to the answer or out.                      *)
LeaveSilently(c) ==   \* fault: nobody is notified
  /\ at[c] \in {"leave", "quit"}
  /\ mutex = None
  /\ serving' = IF serving = ticket[c] THEN serving + 1 ELSE serving
  /\ Go(c, IF at[c] = "leave" THEN "reply" ELSE "closed")
  /\ UNCHANGED <<handlers, ticket, next, mutex, stopping, loopVars, focusVars>>

Leave(c) ==
  /\ at[c] \in {"leave", "quit"}
  /\ mutex = None
  /\ IF serving = ticket[c]
     THEN serving' = serving + 1 /\ NotifiedGo(c, IF at[c] = "leave" THEN "reply" ELSE "closed")
     ELSE UNCHANGED serving /\ Go(c, IF at[c] = "leave" THEN "reply" ELSE "closed")
  /\ UNCHANGED <<handlers, ticket, next, mutex, stopping, loopVars, focusVars>>

Reply(c) ==
  /\ at[c] = "reply"
  /\ Go(c, "answered")
  /\ UNCHANGED <<handlers, gateVars, loopVars, focusVars>>

-----------------------------------------------------------------------------
(* A focus update, with the mutex of RelayFocus held throughout.           *)

FocusBegin(c) ==
  /\ at[c] = "focus"
  /\ focusLock = None
  /\ IF stopping \/ ~ ownerOpen
     THEN Go(c, "closed") /\ UNCHANGED focusLock
     ELSE focusLock' = c /\ UNCHANGED at
  /\ UNCHANGED <<handlers, gateVars, loopVars, token, pane, failed>>

(* RelayFocus::handle remembers a claim when it was accepted; an update    *)
(* that ends in an error may have reached the pane all the same.           *)

FocusUpdateForgets(c) ==   \* fault: only a claim that repeats is remembered
  /\ at[c] = "focus"
  /\ focusLock = c
  /\ \E t \in Tokens :
       \/ pane' = t /\ token' = (IF pane = t THEN t ELSE token) /\ UNCHANGED failed
       \/ /\ pane' = IF pane = t THEN None ELSE pane
          /\ token' = IF token = t THEN None ELSE token
          /\ UNCHANGED failed
       \/ /\ pane' \in {pane, t}
          /\ failed' = failed \cup {t}
          /\ UNCHANGED token
  /\ focusLock' = None
  /\ Go(c, "reply")
  /\ UNCHANGED <<handlers, gateVars, loopVars>>

FocusUpdate(c) ==
  /\ at[c] = "focus"
  /\ focusLock = c
  /\ \E t \in Tokens :
       \/ pane' = t /\ token' = t /\ UNCHANGED failed
       \/ /\ pane' = IF pane = t THEN None ELSE pane
          /\ token' = IF token = t THEN None ELSE token
          /\ UNCHANGED failed
       \/ /\ pane' \in {pane, t}
          /\ failed' = failed \cup {t}
          /\ UNCHANGED token
  /\ focusLock' = None
  /\ Go(c, "reply")
  /\ UNCHANGED <<handlers, gateVars, loopVars>>

-----------------------------------------------------------------------------
Loop == PollReturns \/ (\E c \in Connections : Accept(c)) \/ LoopStop \/ Join
          \/ ReleaseClaim \/ Unlink

Thread(c) ==
  \/ ReadRequest(c) \/ Reply(c)
  \/ Enter(c) \/ DrawTicket(c) \/ Look(c) \/ Sleep(c)
  \/ CheckOwner(c) \/ Dispatch(c) \/ Shut(c) \/ Leave(c)
  \/ FocusBegin(c) \/ FocusUpdate(c)

Next ==
  \/ Loop \/ LoopFails
  \/ \E c \in Connections : Connect(c) \/ Thread(c) \/ WakeSpuriously(c)
  \/ OwnerCloses \/ Signal \/ PaneChanges

Spec == Init /\ [][Next]_vars

(* Where a thread may stand for ever: in dispatch or a focus update, for   *)
(* the end of the output of a tmux call or for a terminal that takes no    *)
(* output; the loop, in the tmux calls of the final release.               *)
Stands(c) == at[c] = "dispatch" \/ (at[c] = "focus" /\ focusLock = c)
LoopStands == loop = "release"

(* Anywhere else threads run; the supervisor, signals and clients owe      *)
(* nothing.  The mutex starves no thread that needs it again and again,    *)
(* also when others wake up for nothing.                                   *)
Locks(c) == Look(c) \/ Shut(c) \/ Leave(c)
FairSpec ==
  /\ Spec
  /\ WF_vars(~ LoopStands /\ Loop) /\ SF_vars(LoopStop)
  /\ \A c \in Connections : WF_vars(~ Stands(c) /\ Thread(c))
  /\ \A c \in Navs : SF_vars(Locks(c))

-----------------------------------------------------------------------------
(* Every variable keeps its type.                                          *)
TypeOK ==
  /\ at \in [Connections -> Places]
  /\ handlers \subseteq Connections
  /\ ticket \in [Navs -> Nat]
  /\ next \in Nat
  /\ serving \in Nat
  /\ mutex \in Navs \cup {None}
  /\ stopping \in BOOLEAN
  /\ loop \in LoopPlaces
  /\ signalled \in BOOLEAN
  /\ ownerOpen \in BOOLEAN
  /\ focusLock \in Focuses \cup {None}
  /\ token \in Tokens \cup {None}
  /\ pane \in Tokens \cup {None, Other}
  /\ failed \subseteq Tokens

(* The gate implements Turnstile: one navigation at a time, in ticket      *)
(* order, and none goes in once the gate has been stopped.                 *)
Gate == INSTANCE Turnstile WITH
  drawn <- next,
  left <- serving,
  inside <- \E c \in Navs : at[c] \in Admitted,
  closed <- stopping

GateKept == Gate!TurnstileSpec

(* The turn never falls on a ticket whose holder has gone away, unless the *)
(* gate is closed: everybody behind it would wait for ever.                *)
TurnHasHolder ==
  ~ stopping /\ serving < next =>
    \E c \in Navs : at[c] \in Holding /\ ticket[c] = serving

(* No more threads run at a time than the cap admits.                      *)
ThreadsBounded == Cardinality(Unfinished) <= MaxHandlers

(* When the server has exited, no claim it accepted is left on the pane,   *)
(* unless an update or the final release of that claim ended in an error:  *)
(* no update slips in behind the final release.                            *)
ClaimEndsWithServer == loop = "exited" => pane \in {None, Other} \cup failed

(* A server that is told to end does end: no thread sleeps through the     *)
(* closing of the gate, and nobody waits for a thread that waits for it.   *)
(* Only a call that never returns keeps it.                                *)
StopEnds ==
  \/ signalled \/ ~ ownerOpen ~> loop = "exited"
  \/ (\E c \in Connections : <>[]Stands(c)) \/ <>[]LoopStands

(* An accepted connection is answered or closed.  Navigations wait only    *)
(* for each other, and so do focus updates: one whose call never returns   *)
(* keeps those of its own kind.                                            *)
AcceptedIsFinished ==
  \A kind \in {Navs, Focuses} :
    \/ \A c \in kind : at[c] = "reading" ~> at[c] \in Finished
    \/ \E c \in kind : <>[]Stands(c)
=============================================================================
