------------------------------- MODULE Gesture -------------------------------
(***************************************************************************)
(* What the relay promises for one navigation request, however many        *)
(* processes and hops carry it out: the user's focus moves at most once,   *)
(* only after the terminal was asked on behalf of this very request, and   *)
(* the caller hears "armed" only when it has moved, and "declined" only    *)
(* when it has not and never will.  "error" promises nothing: a move may   *)
(* still follow.                                                           *)
(***************************************************************************)
EXTENDS Naturals

CONSTANT Requests

VARIABLES
  asked,   \* the requests whose query has been written to a terminal
  moves,   \* how often each request has moved the user's focus
  answer   \* what the caller has heard: none, armed, declined or error

gestureVars == <<asked, moves, answer>>

GestureInit ==
  /\ asked = {}
  /\ moves = [r \in Requests |-> 0]
  /\ answer = [r \in Requests |-> "none"]

Ask(r) ==
  /\ r \notin asked
  /\ answer[r] \notin {"armed", "declined"}
  /\ asked' = asked \cup {r}
  /\ UNCHANGED <<moves, answer>>

Move(r) ==
  /\ r \in asked
  /\ moves[r] = 0
  /\ answer[r] \notin {"armed", "declined"}
  /\ moves' = [moves EXCEPT ![r] = 1]
  /\ UNCHANGED <<asked, answer>>

AnswerArmed(r) ==
  /\ answer[r] = "none"
  /\ moves[r] = 1
  /\ answer' = [answer EXCEPT ![r] = "armed"]
  /\ UNCHANGED <<asked, moves>>

AnswerDeclined(r) ==
  /\ answer[r] = "none"
  /\ moves[r] = 0
  /\ answer' = [answer EXCEPT ![r] = "declined"]
  /\ UNCHANGED <<asked, moves>>

AnswerError(r) ==
  /\ answer[r] = "none"
  /\ answer' = [answer EXCEPT ![r] = "error"]
  /\ UNCHANGED <<asked, moves>>

GestureNext ==
  \E r \in Requests :
    Ask(r) \/ Move(r) \/ AnswerArmed(r) \/ AnswerDeclined(r) \/ AnswerError(r)

GestureSpec == GestureInit /\ [][GestureNext]_gestureVars
=============================================================================
