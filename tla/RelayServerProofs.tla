-------------------------- MODULE RelayServerProofs --------------------------
(***************************************************************************)
(* Theorems about RelayServer for any connections, tokens and cap.  The    *)
(* invariant is built in four layers, each inductive given those before    *)
(* it: types and places, the ticket gate, the pool of threads, the claim.  *)
(***************************************************************************)
EXTENDS RelayServer, FiniteSetTheorems, TLAPS

-----------------------------------------------------------------------------
(* Navigation threads and focus threads keep to their own places, and a    *)
(* mutex is held by the thread that stands where it is held.               *)
PlaceInv ==
  /\ TypeOK
  /\ \A c \in Focuses : at[c] \in {"away", "backlog", "reading", "focus", "reply"} \cup Finished
  /\ \A c \in Navs : at[c] # "focus"
  /\ \A c \in Navs : at[c] = "sleep" <=> mutex = c
  /\ \A c \in Focuses : focusLock = c => at[c] = "focus"

(* Every ticket is held once, by nobody before its turn, and when the gate *)
(* is open the tickets still to be served are all held.                    *)
TicketInv ==
  /\ serving <= next
  /\ \A c \in Navs : at[c] \in Holding => serving <= ticket[c] /\ ticket[c] < next
  /\ \A c, d \in Navs : at[c] \in Holding /\ at[d] \in Holding /\ ticket[c] = ticket[d] => c = d
  /\ \A c \in Navs : at[c] \in Admitted => ticket[c] = serving

QueueInv ==
  ~ stopping =>
    \A k \in Nat : serving <= k /\ k < next =>
      \E c \in Navs : at[c] \in Holding /\ ticket[c] = k

(* A connection that is neither waiting to be accepted nor finished has a  *)
(* thread the loop has not reaped; after the join there is none.           *)
Outside == {"away", "backlog"} \cup Finished
PoolInv ==
  /\ \A c \in Connections : at[c] \notin Outside => c \in handlers
  /\ loop \in {"release", "unlink", "exited"} => \A c \in Connections : at[c] \in Outside

CountInv == IsFiniteSet(handlers) /\ ThreadsBounded

(* The pane carries no claim of this server but the one it remembers.      *)
ClaimInv ==
  /\ pane \in {None, Other, token} \cup failed
  /\ loop \in {"unlink", "exited"} => token = None

-----------------------------------------------------------------------------

(* The initial state satisfies every layer.                                *)
LEMMA InitInv ==
  Init => PlaceInv /\ TicketInv /\ QueueInv /\ PoolInv /\ CountInv /\ ClaimInv
<1> SUFFICES ASSUME Init
             PROVE  PlaceInv /\ TicketInv /\ QueueInv /\ PoolInv /\ CountInv /\ ClaimInv
  OBVIOUS
<1>1. PlaceInv
  BY ConnectionsAssumption DEF Init, PlaceInv, TypeOK, Places, LoopPlaces, Finished, Connections
<1>2. TicketInv /\ QueueInv
  BY DEF Init, TicketInv, QueueInv, Connections, Holding, Admitted
<1>3. PoolInv /\ ClaimInv
  BY DEF Init, PoolInv, ClaimInv, Outside
<1>4. CountInv
  <2>1. Unfinished = {} /\ handlers = {}
    BY DEF Init, Unfinished
  <2> QED
    BY <2>1, FS_EmptySet, BoundsAssumption DEF CountInv, ThreadsBounded
<1> QED
  BY <1>1, <1>2, <1>3, <1>4

(* Places and types are kept by every step.                                *)
LEMMA PlaceStep == PlaceInv /\ [Next]_vars => PlaceInv'
<1> SUFFICES ASSUME PlaceInv, [Next]_vars PROVE PlaceInv'
  OBVIOUS
<1> USE ConnectionsAssumption, TokensAssumption DEF PlaceInv, TypeOK, Go, NotifiedGo, Places, LoopPlaces, Holding, Admitted, Finished,
           Connections, gateVars, focusVars, loopVars, vars
<1>1. ASSUME NEW c \in Connections, Accept(c) PROVE PlaceInv'
  <2>1. Unfinished \subseteq handlers
    BY DEF Unfinished
  <2>2. CASE RoomFor(Unfinished)
    BY <1>1, <2>1, <2>2 DEF Accept
  <2>3. CASE ~ RoomFor(Unfinished)
    BY <1>1, <2>1, <2>3 DEF Accept
  <2> QED
    BY <2>2, <2>3
<1>2. ASSUME NEW c \in Connections, Connect(c) PROVE PlaceInv'
  BY <1>2 DEF Connect
<1>3. ASSUME NEW c \in Connections, WakeSpuriously(c) PROVE PlaceInv'
  BY <1>3 DEF WakeSpuriously
<1>4. ASSUME NEW c \in Connections, ReadRequest(c) PROVE PlaceInv'
  BY <1>4 DEF ReadRequest
<1>5. ASSUME NEW c \in Connections, Reply(c) PROVE PlaceInv'
  BY <1>5 DEF Reply
<1>6. ASSUME NEW c \in Connections, Enter(c) PROVE PlaceInv'
  BY <1>6 DEF Enter
<1>7. ASSUME NEW c \in Connections, DrawTicket(c) PROVE PlaceInv'
  BY <1>7 DEF DrawTicket
<1>8. ASSUME NEW c \in Connections, Look(c) PROVE PlaceInv'
  BY <1>8 DEF Look
<1>9. ASSUME NEW c \in Connections, Sleep(c) PROVE PlaceInv'
  BY <1>9 DEF Sleep
<1>10. ASSUME NEW c \in Connections, CheckOwner(c) PROVE PlaceInv'
  BY <1>10 DEF CheckOwner
<1>11. ASSUME NEW c \in Connections, Dispatch(c) PROVE PlaceInv'
  BY <1>11 DEF Dispatch
<1>12. ASSUME NEW c \in Connections, Shut(c) PROVE PlaceInv'
  BY <1>12 DEF Shut
<1>13. ASSUME NEW c \in Connections, Leave(c) PROVE PlaceInv'
  BY <1>13 DEF Leave
<1>14. ASSUME NEW c \in Connections, FocusBegin(c) PROVE PlaceInv'
  BY <1>14 DEF FocusBegin
<1>15. ASSUME NEW c \in Connections, FocusUpdate(c) PROVE PlaceInv'
  BY <1>15 DEF FocusUpdate
<1>16. CASE PollReturns
  BY <1>16 DEF PollReturns
<1>17. CASE LoopFails
  BY <1>17 DEF LoopFails
<1>18. CASE LoopStop
  BY <1>18 DEF LoopStop
<1>19. CASE Join
  BY <1>19 DEF Join
<1>20. CASE ReleaseClaim
  BY <1>20 DEF ReleaseClaim
<1>21. CASE Unlink
  BY <1>21 DEF Unlink
<1>22. CASE OwnerCloses
  BY <1>22 DEF OwnerCloses
<1>23. CASE Signal
  BY <1>23 DEF Signal
<1>24. CASE PaneChanges
  BY <1>24 DEF PaneChanges
<1>25. CASE UNCHANGED vars
  BY <1>25
<1> QED
  BY <1>1, <1>2, <1>3, <1>4, <1>5, <1>6, <1>7, <1>8, <1>9, <1>10, <1>11, <1>12, <1>13,
     <1>14, <1>15, <1>16, <1>17, <1>18, <1>19, <1>20, <1>21, <1>22, <1>23, <1>24,
     <1>25 DEF Next, Loop, Thread

(* Tickets stay distinct and in order.                                     *)
LEMMA TicketStep == PlaceInv /\ TicketInv /\ [Next]_vars => TicketInv'
<1> SUFFICES ASSUME PlaceInv, TicketInv, [Next]_vars PROVE TicketInv'
  OBVIOUS
<1> USE ConnectionsAssumption, TokensAssumption DEF TicketInv, PlaceInv, TypeOK, Go, NotifiedGo, Places, LoopPlaces, Holding, Admitted, Finished,
           Connections, gateVars, focusVars, loopVars, vars
<1>1. ASSUME NEW c \in Connections, Accept(c) PROVE TicketInv'
  BY <1>1 DEF Accept
<1>2. ASSUME NEW c \in Connections, Connect(c) PROVE TicketInv'
  BY <1>2 DEF Connect
<1>3. ASSUME NEW c \in Connections, WakeSpuriously(c) PROVE TicketInv'
  BY <1>3 DEF WakeSpuriously
<1>4. ASSUME NEW c \in Connections, ReadRequest(c) PROVE TicketInv'
  BY <1>4 DEF ReadRequest
<1>5. ASSUME NEW c \in Connections, Reply(c) PROVE TicketInv'
  BY <1>5 DEF Reply
<1>6. ASSUME NEW c \in Connections, Enter(c) PROVE TicketInv'
  BY <1>6 DEF Enter
<1>7. ASSUME NEW c \in Connections, DrawTicket(c) PROVE TicketInv'
  BY <1>7 DEF DrawTicket
<1>8. ASSUME NEW c \in Connections, Look(c) PROVE TicketInv'
  BY <1>8 DEF Look
<1>9. ASSUME NEW c \in Connections, Sleep(c) PROVE TicketInv'
  BY <1>9 DEF Sleep
<1>10. ASSUME NEW c \in Connections, CheckOwner(c) PROVE TicketInv'
  BY <1>10 DEF CheckOwner
<1>11. ASSUME NEW c \in Connections, Dispatch(c) PROVE TicketInv'
  BY <1>11 DEF Dispatch
<1>12. ASSUME NEW c \in Connections, Shut(c) PROVE TicketInv'
  BY <1>12 DEF Shut
<1>13. ASSUME NEW c \in Connections, Leave(c) PROVE TicketInv'
  BY <1>13 DEF Leave
<1>14. ASSUME NEW c \in Connections, FocusBegin(c) PROVE TicketInv'
  BY <1>14 DEF FocusBegin
<1>15. ASSUME NEW c \in Connections, FocusUpdate(c) PROVE TicketInv'
  BY <1>15 DEF FocusUpdate
<1>16. CASE PollReturns
  BY <1>16 DEF PollReturns
<1>17. CASE LoopFails
  BY <1>17 DEF LoopFails
<1>18. CASE LoopStop
  BY <1>18 DEF LoopStop
<1>19. CASE Join
  BY <1>19 DEF Join
<1>20. CASE ReleaseClaim
  BY <1>20 DEF ReleaseClaim
<1>21. CASE Unlink
  BY <1>21 DEF Unlink
<1>22. CASE OwnerCloses
  BY <1>22 DEF OwnerCloses
<1>23. CASE Signal
  BY <1>23 DEF Signal
<1>24. CASE PaneChanges
  BY <1>24 DEF PaneChanges
<1>25. CASE UNCHANGED vars
  BY <1>25
<1> QED
  BY <1>1, <1>2, <1>3, <1>4, <1>5, <1>6, <1>7, <1>8, <1>9, <1>10, <1>11, <1>12, <1>13,
     <1>14, <1>15, <1>16, <1>17, <1>18, <1>19, <1>20, <1>21, <1>22, <1>23, <1>24,
     <1>25 DEF Next, Loop, Thread

(* No ticket of an open gate loses its holder.                              *)
LEMMA QueueStep == PlaceInv /\ TicketInv /\ QueueInv /\ [Next]_vars => QueueInv'
<1> SUFFICES ASSUME PlaceInv, TicketInv, QueueInv, [Next]_vars PROVE QueueInv'
  OBVIOUS
<1> USE ConnectionsAssumption, TokensAssumption DEF QueueInv, TicketInv, PlaceInv, TypeOK, Go, NotifiedGo, Places, LoopPlaces, Holding, Admitted, Finished,
           Connections, gateVars, focusVars, loopVars, vars
<1>1. ASSUME NEW c \in Connections, Accept(c) PROVE QueueInv'
  BY <1>1 DEF Accept
<1>2. ASSUME NEW c \in Connections, Connect(c) PROVE QueueInv'
  BY <1>2 DEF Connect
<1>3. ASSUME NEW c \in Connections, WakeSpuriously(c) PROVE QueueInv'
  BY <1>3 DEF WakeSpuriously
<1>4. ASSUME NEW c \in Connections, ReadRequest(c) PROVE QueueInv'
  BY <1>4 DEF ReadRequest
<1>5. ASSUME NEW c \in Connections, Reply(c) PROVE QueueInv'
  BY <1>5 DEF Reply
<1>6. ASSUME NEW c \in Connections, Enter(c) PROVE QueueInv'
  BY <1>6 DEF Enter
<1>7. ASSUME NEW c \in Connections, DrawTicket(c) PROVE QueueInv'
  BY <1>7 DEF DrawTicket
<1>8. ASSUME NEW c \in Connections, Look(c) PROVE QueueInv'
  BY <1>8 DEF Look
<1>9. ASSUME NEW c \in Connections, Sleep(c) PROVE QueueInv'
  BY <1>9 DEF Sleep
<1>10. ASSUME NEW c \in Connections, CheckOwner(c) PROVE QueueInv'
  BY <1>10 DEF CheckOwner
<1>11. ASSUME NEW c \in Connections, Dispatch(c) PROVE QueueInv'
  BY <1>11 DEF Dispatch
<1>12. ASSUME NEW c \in Connections, Shut(c) PROVE QueueInv'
  BY <1>12 DEF Shut
<1>13. ASSUME NEW c \in Connections, Leave(c) PROVE QueueInv'
  BY <1>13 DEF Leave
<1>14. ASSUME NEW c \in Connections, FocusBegin(c) PROVE QueueInv'
  BY <1>14 DEF FocusBegin
<1>15. ASSUME NEW c \in Connections, FocusUpdate(c) PROVE QueueInv'
  BY <1>15 DEF FocusUpdate
<1>16. CASE PollReturns
  BY <1>16 DEF PollReturns
<1>17. CASE LoopFails
  BY <1>17 DEF LoopFails
<1>18. CASE LoopStop
  BY <1>18 DEF LoopStop
<1>19. CASE Join
  BY <1>19 DEF Join
<1>20. CASE ReleaseClaim
  BY <1>20 DEF ReleaseClaim
<1>21. CASE Unlink
  BY <1>21 DEF Unlink
<1>22. CASE OwnerCloses
  BY <1>22 DEF OwnerCloses
<1>23. CASE Signal
  BY <1>23 DEF Signal
<1>24. CASE PaneChanges
  BY <1>24 DEF PaneChanges
<1>25. CASE UNCHANGED vars
  BY <1>25
<1> QED
  BY <1>1, <1>2, <1>3, <1>4, <1>5, <1>6, <1>7, <1>8, <1>9, <1>10, <1>11, <1>12, <1>13,
     <1>14, <1>15, <1>16, <1>17, <1>18, <1>19, <1>20, <1>21, <1>22, <1>23, <1>24,
     <1>25 DEF Next, Loop, Thread

(* No thread escapes the list of handlers.                                 *)
LEMMA PoolStep == PlaceInv /\ PoolInv /\ [Next]_vars => PoolInv'
<1> SUFFICES ASSUME PlaceInv, PoolInv, [Next]_vars PROVE PoolInv'
  OBVIOUS
<1> USE ConnectionsAssumption, TokensAssumption DEF PoolInv, Outside, Unfinished, PlaceInv, TypeOK, Go, NotifiedGo, Places, LoopPlaces, Holding, Admitted, Finished,
           Connections, gateVars, focusVars, loopVars, vars
<1>1. ASSUME NEW c \in Connections, Accept(c) PROVE PoolInv'
  BY <1>1 DEF Accept
<1>2. ASSUME NEW c \in Connections, Connect(c) PROVE PoolInv'
  BY <1>2 DEF Connect
<1>3. ASSUME NEW c \in Connections, WakeSpuriously(c) PROVE PoolInv'
  BY <1>3 DEF WakeSpuriously
<1>4. ASSUME NEW c \in Connections, ReadRequest(c) PROVE PoolInv'
  BY <1>4 DEF ReadRequest
<1>5. ASSUME NEW c \in Connections, Reply(c) PROVE PoolInv'
  BY <1>5 DEF Reply
<1>6. ASSUME NEW c \in Connections, Enter(c) PROVE PoolInv'
  BY <1>6 DEF Enter
<1>7. ASSUME NEW c \in Connections, DrawTicket(c) PROVE PoolInv'
  BY <1>7 DEF DrawTicket
<1>8. ASSUME NEW c \in Connections, Look(c) PROVE PoolInv'
  BY <1>8 DEF Look
<1>9. ASSUME NEW c \in Connections, Sleep(c) PROVE PoolInv'
  BY <1>9 DEF Sleep
<1>10. ASSUME NEW c \in Connections, CheckOwner(c) PROVE PoolInv'
  BY <1>10 DEF CheckOwner
<1>11. ASSUME NEW c \in Connections, Dispatch(c) PROVE PoolInv'
  BY <1>11 DEF Dispatch
<1>12. ASSUME NEW c \in Connections, Shut(c) PROVE PoolInv'
  BY <1>12 DEF Shut
<1>13. ASSUME NEW c \in Connections, Leave(c) PROVE PoolInv'
  BY <1>13 DEF Leave
<1>14. ASSUME NEW c \in Connections, FocusBegin(c) PROVE PoolInv'
  BY <1>14 DEF FocusBegin
<1>15. ASSUME NEW c \in Connections, FocusUpdate(c) PROVE PoolInv'
  BY <1>15 DEF FocusUpdate
<1>16. CASE PollReturns
  BY <1>16 DEF PollReturns
<1>17. CASE LoopFails
  BY <1>17 DEF LoopFails
<1>18. CASE LoopStop
  BY <1>18 DEF LoopStop
<1>19. CASE Join
  BY <1>19 DEF Join
<1>20. CASE ReleaseClaim
  BY <1>20 DEF ReleaseClaim
<1>21. CASE Unlink
  BY <1>21 DEF Unlink
<1>22. CASE OwnerCloses
  BY <1>22 DEF OwnerCloses
<1>23. CASE Signal
  BY <1>23 DEF Signal
<1>24. CASE PaneChanges
  BY <1>24 DEF PaneChanges
<1>25. CASE UNCHANGED vars
  BY <1>25
<1> QED
  BY <1>1, <1>2, <1>3, <1>4, <1>5, <1>6, <1>7, <1>8, <1>9, <1>10, <1>11, <1>12, <1>13,
     <1>14, <1>15, <1>16, <1>17, <1>18, <1>19, <1>20, <1>21, <1>22, <1>23, <1>24,
     <1>25 DEF Next, Loop, Thread

(* Fewer handlers and fewer unfinished ones stay within the cap.           *)
LEMMA FewerThreads ==
  ASSUME CountInv, handlers' \subseteq handlers, Unfinished' \subseteq Unfinished
  PROVE  CountInv'
<1>1. IsFiniteSet(handlers')
  BY FS_Subset DEF CountInv
<1>2. IsFiniteSet(Unfinished)
  BY FS_Subset DEF CountInv, Unfinished
<1>3. /\ Cardinality(Unfinished') <= Cardinality(Unfinished)
      /\ Cardinality(Unfinished) \in Nat /\ Cardinality(Unfinished') \in Nat
  BY <1>2, FS_Subset, FS_CardinalityType
<1> QED
  BY <1>1, <1>3, BoundsAssumption DEF CountInv, ThreadsBounded

(* The cap holds: only Accept adds a thread, and only when there is room.  *)
LEMMA CountStep == PlaceInv /\ CountInv /\ [Next]_vars => CountInv'
<1> SUFFICES ASSUME PlaceInv, CountInv, [Next]_vars PROVE CountInv'
  OBVIOUS
<1> USE DEF PlaceInv, TypeOK, Go, NotifiedGo, Places, LoopPlaces, Holding, Admitted, Finished,
           Connections, gateVars, focusVars, loopVars, vars
<1>1. ASSUME NEW c \in Connections, Accept(c) PROVE CountInv'
  <2>1. IsFiniteSet(Unfinished)
    BY FS_Subset DEF CountInv, Unfinished
  <2>2. CASE RoomFor(Unfinished)
    <3>1. handlers' = Unfinished \cup {c} /\ Unfinished' \subseteq Unfinished \cup {c}
      BY <1>1, <2>2 DEF Accept, Unfinished
    <3>2. /\ IsFiniteSet(Unfinished \cup {c})
          /\ Cardinality(Unfinished \cup {c}) <= Cardinality(Unfinished) + 1
          /\ Cardinality(Unfinished) \in Nat /\ Cardinality(Unfinished \cup {c}) \in Nat
      BY <2>1, FS_AddElement, FS_CardinalityType, SMTT(20)
    <3>3. Cardinality(Unfinished') <= Cardinality(Unfinished \cup {c}) /\ Cardinality(Unfinished') \in Nat
      BY <3>1, <3>2, FS_Subset, FS_CardinalityType
    <3>4. Cardinality(Unfinished') <= MaxHandlers
      BY <2>2, <3>2, <3>3, BoundsAssumption DEF RoomFor
    <3> QED
      BY <3>1, <3>2, <3>4 DEF CountInv, ThreadsBounded
  <2>3. CASE ~ RoomFor(Unfinished)
    BY <1>1, <2>3, FewerThreads DEF Accept, Unfinished
  <2> QED
    BY <2>2, <2>3
<1>2. ASSUME NEW c \in Connections, Connect(c) PROVE CountInv'
  BY <1>2, FewerThreads DEF Connect, Unfinished
<1>3. ASSUME NEW c \in Connections, WakeSpuriously(c) PROVE CountInv'
  BY <1>3, FewerThreads DEF WakeSpuriously, Unfinished
<1>4. ASSUME NEW c \in Connections, ReadRequest(c) PROVE CountInv'
  BY <1>4, FewerThreads DEF ReadRequest, Unfinished
<1>5. ASSUME NEW c \in Connections, Reply(c) PROVE CountInv'
  BY <1>5, FewerThreads DEF Reply, Unfinished
<1>6. ASSUME NEW c \in Connections, Enter(c) PROVE CountInv'
  BY <1>6, FewerThreads DEF Enter, Unfinished
<1>7. ASSUME NEW c \in Connections, DrawTicket(c) PROVE CountInv'
  BY <1>7, FewerThreads DEF DrawTicket, Unfinished
<1>8. ASSUME NEW c \in Connections, Look(c) PROVE CountInv'
  BY <1>8, FewerThreads DEF Look, Unfinished
<1>9. ASSUME NEW c \in Connections, Sleep(c) PROVE CountInv'
  BY <1>9, FewerThreads DEF Sleep, Unfinished
<1>10. ASSUME NEW c \in Connections, CheckOwner(c) PROVE CountInv'
  BY <1>10, FewerThreads DEF CheckOwner, Unfinished
<1>11. ASSUME NEW c \in Connections, Dispatch(c) PROVE CountInv'
  BY <1>11, FewerThreads DEF Dispatch, Unfinished
<1>12. ASSUME NEW c \in Connections, Shut(c) PROVE CountInv'
  BY <1>12, FewerThreads DEF Shut, Unfinished
<1>13. ASSUME NEW c \in Connections, Leave(c) PROVE CountInv'
  BY <1>13, FewerThreads DEF Leave, Unfinished
<1>14. ASSUME NEW c \in Connections, FocusBegin(c) PROVE CountInv'
  BY <1>14, FewerThreads DEF FocusBegin, Unfinished
<1>15. ASSUME NEW c \in Connections, FocusUpdate(c) PROVE CountInv'
  BY <1>15, FewerThreads DEF FocusUpdate, Unfinished
<1>16. CASE PollReturns
  BY <1>16, FewerThreads DEF PollReturns, Unfinished
<1>17. CASE LoopFails
  BY <1>17, FewerThreads DEF LoopFails, Unfinished
<1>18. CASE LoopStop
  BY <1>18, FewerThreads DEF LoopStop, Unfinished
<1>19. CASE Join
  BY <1>19, FewerThreads DEF Join, Unfinished
<1>20. CASE ReleaseClaim
  BY <1>20, FewerThreads DEF ReleaseClaim, Unfinished
<1>21. CASE Unlink
  BY <1>21, FewerThreads DEF Unlink, Unfinished
<1>22. CASE OwnerCloses
  BY <1>22, FewerThreads DEF OwnerCloses, Unfinished
<1>23. CASE Signal
  BY <1>23, FewerThreads DEF Signal, Unfinished
<1>24. CASE PaneChanges
  BY <1>24, FewerThreads DEF PaneChanges, Unfinished
<1>25. CASE UNCHANGED vars
  BY <1>25, FewerThreads DEF Unfinished
<1> QED
  BY <1>1, <1>2, <1>3, <1>4, <1>5, <1>6, <1>7, <1>8, <1>9, <1>10, <1>11, <1>12, <1>13,
     <1>14, <1>15, <1>16, <1>17, <1>18, <1>19, <1>20, <1>21, <1>22, <1>23, <1>24,
     <1>25 DEF Next, Loop, Thread

(* The pane's claim is the remembered one, somebody else's or a failed one.*)
LEMMA ClaimStep == PlaceInv /\ PoolInv /\ ClaimInv /\ [Next]_vars => ClaimInv'
<1> SUFFICES ASSUME PlaceInv, PoolInv, ClaimInv, [Next]_vars PROVE ClaimInv'
  OBVIOUS
<1> USE ConnectionsAssumption, TokensAssumption DEF ClaimInv, PoolInv, Outside, PlaceInv, TypeOK, Go, NotifiedGo, Places, LoopPlaces, Holding, Admitted, Finished,
           Connections, gateVars, focusVars, loopVars, vars
<1>1. ASSUME NEW c \in Connections, Accept(c) PROVE ClaimInv'
  BY <1>1 DEF Accept
<1>2. ASSUME NEW c \in Connections, Connect(c) PROVE ClaimInv'
  BY <1>2 DEF Connect
<1>3. ASSUME NEW c \in Connections, WakeSpuriously(c) PROVE ClaimInv'
  BY <1>3 DEF WakeSpuriously
<1>4. ASSUME NEW c \in Connections, ReadRequest(c) PROVE ClaimInv'
  BY <1>4 DEF ReadRequest
<1>5. ASSUME NEW c \in Connections, Reply(c) PROVE ClaimInv'
  BY <1>5 DEF Reply
<1>6. ASSUME NEW c \in Connections, Enter(c) PROVE ClaimInv'
  BY <1>6 DEF Enter
<1>7. ASSUME NEW c \in Connections, DrawTicket(c) PROVE ClaimInv'
  BY <1>7 DEF DrawTicket
<1>8. ASSUME NEW c \in Connections, Look(c) PROVE ClaimInv'
  BY <1>8 DEF Look
<1>9. ASSUME NEW c \in Connections, Sleep(c) PROVE ClaimInv'
  BY <1>9 DEF Sleep
<1>10. ASSUME NEW c \in Connections, CheckOwner(c) PROVE ClaimInv'
  BY <1>10 DEF CheckOwner
<1>11. ASSUME NEW c \in Connections, Dispatch(c) PROVE ClaimInv'
  BY <1>11 DEF Dispatch
<1>12. ASSUME NEW c \in Connections, Shut(c) PROVE ClaimInv'
  BY <1>12 DEF Shut
<1>13. ASSUME NEW c \in Connections, Leave(c) PROVE ClaimInv'
  BY <1>13 DEF Leave
<1>14. ASSUME NEW c \in Connections, FocusBegin(c) PROVE ClaimInv'
  BY <1>14 DEF FocusBegin
<1>15. ASSUME NEW c \in Connections, FocusUpdate(c) PROVE ClaimInv'
  BY <1>15 DEF FocusUpdate
<1>16. CASE PollReturns
  BY <1>16 DEF PollReturns
<1>17. CASE LoopFails
  BY <1>17 DEF LoopFails
<1>18. CASE LoopStop
  BY <1>18 DEF LoopStop
<1>19. CASE Join
  BY <1>19 DEF Join
<1>20. CASE ReleaseClaim
  BY <1>20 DEF ReleaseClaim
<1>21. CASE Unlink
  BY <1>21 DEF Unlink
<1>22. CASE OwnerCloses
  BY <1>22 DEF OwnerCloses
<1>23. CASE Signal
  BY <1>23 DEF Signal
<1>24. CASE PaneChanges
  BY <1>24 DEF PaneChanges
<1>25. CASE UNCHANGED vars
  BY <1>25
<1> QED
  BY <1>1, <1>2, <1>3, <1>4, <1>5, <1>6, <1>7, <1>8, <1>9, <1>10, <1>11, <1>12, <1>13,
     <1>14, <1>15, <1>16, <1>17, <1>18, <1>19, <1>20, <1>21, <1>22, <1>23, <1>24,
     <1>25 DEF Next, Loop, Thread

ServerInv == PlaceInv /\ TicketInv /\ QueueInv /\ PoolInv /\ CountInv /\ ClaimInv

THEOREM ServerInvariant == Spec => []ServerInv
<1>1. Init => ServerInv
  BY InitInv DEF ServerInv
<1>2. ServerInv /\ [Next]_vars => ServerInv'
  BY PlaceStep, TicketStep, QueueStep, PoolStep, CountStep, ClaimStep DEF ServerInv
<1> QED
  BY <1>1, <1>2, PTL DEF Spec

-----------------------------------------------------------------------------
(* Every variable of the relay server keeps its type.                      *)
THEOREM ServerTypeOK == Spec => []TypeOK
<1>1. ServerInv => TypeOK
  BY DEF ServerInv, PlaceInv
<1> QED
  BY <1>1, ServerInvariant, PTL

(* OrderGate: while the gate is open, the ticket being served is held by a *)
(* thread that will leave, so the requests behind it get their turn.       *)
THEOREM TurnNeverLost == Spec => []TurnHasHolder
<1>1. ServerInv => TurnHasHolder
  BY DEF ServerInv, QueueInv, TurnHasHolder, PlaceInv, TypeOK
<1> QED
  BY <1>1, ServerInvariant, PTL

(* poll_loop: the cap on handler threads holds.                            *)
THEOREM ThreadCap == Spec => []ThreadsBounded
<1>1. ServerInv => ThreadsBounded
  BY DEF ServerInv, CountInv
<1> QED
  BY <1>1, ServerInvariant, PTL

(* poll_loop's shutdown: no claim the server accepted outlives it.         *)
THEOREM ClaimDoesNotOutlive == Spec => []ClaimEndsWithServer
<1>1. ServerInv => ClaimEndsWithServer
  BY DEF ServerInv, ClaimInv, ClaimEndsWithServer
<1> QED
  BY <1>1, ServerInvariant, PTL

-----------------------------------------------------------------------------
(* Refinement of Turnstile.                                                *)
Inside == \E c \in Navs : at[c] \in Admitted

(* Each step of the server is a step of the turnstile or leaves it alone.  *)
LEMMA GateStep ==
  PlaceInv /\ TicketInv /\ [Next]_vars => [Gate!TurnstileNext]_Gate!turnstileVars
<1> SUFFICES ASSUME PlaceInv, TicketInv, [Next]_vars PROVE [Gate!TurnstileNext]_Gate!turnstileVars
  OBVIOUS
<1> USE ConnectionsAssumption, TokensAssumption DEF PlaceInv, TypeOK, TicketInv, Inside, Go, NotifiedGo, Admitted, Holding, Finished, Connections,
           gateVars, focusVars, loopVars, vars, Gate!TurnstileNext, Gate!turnstileVars
<1>1. ASSUME NEW c \in Connections, Accept(c) PROVE [Gate!TurnstileNext]_Gate!turnstileVars
  <2>1. UNCHANGED <<next, serving, stopping>> /\ Inside' = Inside
    BY <1>1 DEF Accept
  <2> QED
    BY <2>1
<1>2. ASSUME NEW c \in Connections, Connect(c) PROVE [Gate!TurnstileNext]_Gate!turnstileVars
  <2>1. UNCHANGED <<next, serving, stopping>> /\ Inside' = Inside
    BY <1>2 DEF Connect
  <2> QED
    BY <2>1
<1>3. ASSUME NEW c \in Connections, WakeSpuriously(c) PROVE [Gate!TurnstileNext]_Gate!turnstileVars
  <2>1. UNCHANGED <<next, serving, stopping>> /\ Inside' = Inside
    BY <1>3 DEF WakeSpuriously
  <2> QED
    BY <2>1
<1>4. ASSUME NEW c \in Connections, ReadRequest(c) PROVE [Gate!TurnstileNext]_Gate!turnstileVars
  <2>1. UNCHANGED <<next, serving, stopping>> /\ Inside' = Inside
    BY <1>4 DEF ReadRequest
  <2> QED
    BY <2>1
<1>5. ASSUME NEW c \in Connections, Reply(c) PROVE [Gate!TurnstileNext]_Gate!turnstileVars
  <2>1. UNCHANGED <<next, serving, stopping>> /\ Inside' = Inside
    BY <1>5 DEF Reply
  <2> QED
    BY <2>1
<1>6. ASSUME NEW c \in Connections, Enter(c) PROVE [Gate!TurnstileNext]_Gate!turnstileVars
  <2>1. UNCHANGED <<next, serving, stopping>> /\ Inside' = Inside
    BY <1>6 DEF Enter
  <2> QED
    BY <2>1
<1>7. ASSUME NEW c \in Connections, DrawTicket(c) PROVE [Gate!TurnstileNext]_Gate!turnstileVars
  <2>1. next' = next + 1 /\ UNCHANGED <<serving, stopping>> /\ Inside' = Inside
    BY <1>7 DEF DrawTicket
  <2> QED
    BY <2>1 DEF Gate!Draw
<1>8. ASSUME NEW c \in Connections, Look(c) PROVE [Gate!TurnstileNext]_Gate!turnstileVars
  <2>1. CASE serving = ticket[c] /\ ~ stopping
    <3>1. ~ Inside /\ Inside' /\ serving < next
      BY <1>8, <2>1 DEF Look
    <3> QED
      BY <1>8, <2>1, <3>1 DEF Look, Gate!GoIn
  <2>2. CASE ~ (serving = ticket[c] /\ ~ stopping)
    <3>1. UNCHANGED <<next, serving, stopping>> /\ Inside' = Inside
      BY <1>8, <2>2 DEF Look
    <3> QED
      BY <3>1
  <2> QED
    BY <2>1, <2>2
<1>9. ASSUME NEW c \in Connections, Sleep(c) PROVE [Gate!TurnstileNext]_Gate!turnstileVars
  <2>1. UNCHANGED <<next, serving, stopping>> /\ Inside' = Inside
    BY <1>9 DEF Sleep
  <2> QED
    BY <2>1
<1>10. ASSUME NEW c \in Connections, CheckOwner(c) PROVE [Gate!TurnstileNext]_Gate!turnstileVars
  <2>1. UNCHANGED <<next, serving, stopping>> /\ Inside' = Inside
    BY <1>10 DEF CheckOwner
  <2> QED
    BY <2>1
<1>11. ASSUME NEW c \in Connections, Dispatch(c) PROVE [Gate!TurnstileNext]_Gate!turnstileVars
  <2>1. UNCHANGED <<next, serving, stopping>> /\ Inside' = Inside
    BY <1>11 DEF Dispatch
  <2> QED
    BY <2>1
<1>12. ASSUME NEW c \in Connections, Shut(c) PROVE [Gate!TurnstileNext]_Gate!turnstileVars
  <2>1. stopping' = TRUE /\ UNCHANGED <<next, serving>> /\ Inside' = Inside
    BY <1>12 DEF Shut
  <2> QED
    BY <2>1 DEF Gate!Close
<1>13. ASSUME NEW c \in Connections, Leave(c) PROVE [Gate!TurnstileNext]_Gate!turnstileVars
  <2>1. c \in Navs /\ ticket[c] = serving /\ Inside
    BY <1>13 DEF Leave
  <2>2. ~ Inside'
    BY <1>13, <2>1 DEF Leave
  <2>3. serving' = serving + 1 /\ UNCHANGED <<next, stopping>>
    BY <1>13, <2>1 DEF Leave
  <2> QED
    BY <2>1, <2>2, <2>3 DEF Gate!GoOut
<1>14. ASSUME NEW c \in Connections, FocusBegin(c) PROVE [Gate!TurnstileNext]_Gate!turnstileVars
  <2>1. UNCHANGED <<next, serving, stopping>> /\ Inside' = Inside
    BY <1>14 DEF FocusBegin
  <2> QED
    BY <2>1
<1>15. ASSUME NEW c \in Connections, FocusUpdate(c) PROVE [Gate!TurnstileNext]_Gate!turnstileVars
  <2>1. UNCHANGED <<next, serving, stopping>> /\ Inside' = Inside
    BY <1>15 DEF FocusUpdate
  <2> QED
    BY <2>1
<1>16. CASE PollReturns
  <2>1. UNCHANGED <<next, serving, stopping>> /\ Inside' = Inside
    BY <1>16 DEF PollReturns
  <2> QED
    BY <2>1
<1>17. CASE LoopFails
  <2>1. UNCHANGED <<next, serving, stopping>> /\ Inside' = Inside
    BY <1>17 DEF LoopFails
  <2> QED
    BY <2>1
<1>18. CASE LoopStop
  <2>1. stopping' = TRUE /\ UNCHANGED <<next, serving>> /\ Inside' = Inside
    BY <1>18 DEF LoopStop
  <2> QED
    BY <2>1 DEF Gate!Close
<1>19. CASE Join
  <2>1. UNCHANGED <<next, serving, stopping>> /\ Inside' = Inside
    BY <1>19 DEF Join
  <2> QED
    BY <2>1
<1>20. CASE ReleaseClaim
  <2>1. UNCHANGED <<next, serving, stopping>> /\ Inside' = Inside
    BY <1>20 DEF ReleaseClaim
  <2> QED
    BY <2>1
<1>21. CASE Unlink
  <2>1. UNCHANGED <<next, serving, stopping>> /\ Inside' = Inside
    BY <1>21 DEF Unlink
  <2> QED
    BY <2>1
<1>22. CASE OwnerCloses
  <2>1. UNCHANGED <<next, serving, stopping>> /\ Inside' = Inside
    BY <1>22 DEF OwnerCloses
  <2> QED
    BY <2>1
<1>23. CASE Signal
  <2>1. UNCHANGED <<next, serving, stopping>> /\ Inside' = Inside
    BY <1>23 DEF Signal
  <2> QED
    BY <2>1
<1>24. CASE PaneChanges
  <2>1. UNCHANGED <<next, serving, stopping>> /\ Inside' = Inside
    BY <1>24 DEF PaneChanges
  <2> QED
    BY <2>1
<1>25. CASE UNCHANGED vars
  BY <1>25
<1> QED
  BY <1>1, <1>2, <1>3, <1>4, <1>5, <1>6, <1>7, <1>8, <1>9, <1>10, <1>11, <1>12, <1>13,
     <1>14, <1>15, <1>16, <1>17, <1>18, <1>19, <1>20, <1>21, <1>22, <1>23, <1>24,
     <1>25 DEF Next, Loop, Thread

(* OrderGate keeps the promise of Turnstile: one navigation at a time, in  *)
(* the order the tickets were drawn, none after the gate was stopped.      *)
THEOREM GateImplementsTurnstile == Spec => GateKept
<1>1. Init => Gate!TurnstileInit
  BY ConnectionsAssumption DEF Init, Gate!TurnstileInit, Admitted, Connections
<1>2. ServerInv /\ [Next]_vars => [Gate!TurnstileNext]_Gate!turnstileVars
  BY GateStep DEF ServerInv
<1> QED
  BY <1>1, <1>2, ServerInvariant, PTL DEF Spec, GateKept, Gate!TurnstileSpec
=============================================================================
