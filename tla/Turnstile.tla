------------------------------ MODULE Turnstile ------------------------------
(***************************************************************************)
(* What the order gate of a relay server promises: requests draw numbered  *)
(* tickets, one ticket holder is inside at a time, in the order of the     *)
(* numbers, and nobody goes in once the gate is closed.                    *)
(***************************************************************************)
EXTENDS Naturals

VARIABLES
  drawn,    \* how many tickets have been drawn: 0 .. drawn - 1
  left,     \* how many holders have been inside and left again
  inside,   \* is the holder of ticket `left` inside
  closed    \* has the gate been closed

turnstileVars == <<drawn, left, inside, closed>>

TurnstileInit == drawn = 0 /\ left = 0 /\ inside = FALSE /\ closed = FALSE

Draw == drawn' = drawn + 1 /\ UNCHANGED <<left, inside, closed>>

GoIn ==
  /\ ~ closed
  /\ ~ inside
  /\ left < drawn
  /\ inside' = TRUE
  /\ UNCHANGED <<drawn, left, closed>>

GoOut ==
  /\ inside
  /\ inside' = FALSE
  /\ left' = left + 1
  /\ UNCHANGED <<drawn, closed>>

Close == closed' = TRUE /\ UNCHANGED <<drawn, left, inside>>

TurnstileNext == Draw \/ GoIn \/ GoOut \/ Close

TurnstileSpec == TurnstileInit /\ [][TurnstileNext]_turnstileVars
=============================================================================
