-------------------------- MODULE FocusLeaseProofs --------------------------
(***************************************************************************)
(* Theorems about FocusLease for any clients, watchers, stop processes and *)
(* expirers, with and without kills and failing tmux calls.                *)
(***************************************************************************)
EXTENDS FocusLease, TLAPS

(* A process that was started serves a client.                             *)
ServesInv ==
  /\ \A w \in Watchers : watcher[w] # "unborn" => serves[w] \in Clients
  /\ \A s \in Stoppers : stopper[s] # "unborn" => serves[s] \in Clients

(* An expirer about to remove the value it read knows that it is overdue.  *)
RemoveInv ==
  \A e \in Expirers : expirer[e] = "remove" /\ same[e] => overdue

(* As long as no call has failed the owner of the claim is a watcher that knows *)
(* of its claim, is just about to record it, or was killed.                *)
Owning == {"sleep", "look", "clear", "decide", "claim", "release"}
OwnerInv ==
  failures = 0 /\ claim # None =>
    \/ watcher[claim] \in {"expirer", "killed"}
    \/ watcher[claim] \in Owning /\ claimed[claim]

LeaseInv == TypeOK /\ ServesInv /\ RemoveInv /\ OwnerInv

-----------------------------------------------------------------------------
(* The initial state satisfies the invariant.                              *)
LEMMA InitLease == Init => LeaseInv
<1> SUFFICES ASSUME Init PROVE LeaseInv
  OBVIOUS
<1>1. TypeOK
  <2>1. failures \in 0 .. MaxFailures
    BY FaultsAssumption DEF Init
  <2> QED
    BY <2>1 DEF Init, TypeOK, WatcherPlaces, Signals, StopperPlaces, ExpirerPlaces
<1>2. ServesInv /\ RemoveInv /\ OwnerInv
  BY DEF Init, ServesInv, RemoveInv, OwnerInv
<1> QED
  BY <1>1, <1>2 DEF LeaseInv

(* A failing call is one more failure, and there is a limit to them.       *)
LEMMA FailTyped ==
  ASSUME failures \in 0 .. MaxFailures, Fail \/ UNCHANGED failures
  PROVE  failures' \in 0 .. MaxFailures
  BY FaultsAssumption DEF Fail

(* Types are kept by every step.                                           *)
LEMMA TypeStep == TypeOK /\ ServesInv /\ [Next]_vars => TypeOK'
<1> SUFFICES ASSUME TypeOK, ServesInv, [Next]_vars PROVE TypeOK'
  OBVIOUS
<1> USE ProcessAssumption, FaultsAssumption DEF TypeOK, WatcherPlaces, Signals, Locked,
      StopperPlaces, ExpirerPlaces, Working,
      clientVars, watcherVars, paneVars, vars, Step, Write, Remove, Reads, ServesInv
<1>0. failures' \in 0 .. MaxFailures
  <2>1. Fail \/ UNCHANGED failures
    BY DEF Next, FocusIn, FocusOut, Detach, Watch, WatchStart, WatchLock, InstallSignals, Look,
       DropSignal, Decide, Claim, ClaimFails, StartExpirer, Release, Sleep, Kill, Stop, StopLook,
       StopKill, Expire, ExpireLock, ExpireRead, ExpireReadFails, ExpireWait, ExpireRemove,
       ExpireQuit, DeadlinePasses
  <2> QED
    BY <2>1, FailTyped
<1> USE <1>0
<1>1. ASSUME NEW c \in Clients, NEW w \in Watchers, FocusIn(c, w) PROVE TypeOK'
  BY <1>1 DEF FocusIn
<1>2. ASSUME NEW c \in Clients, NEW s \in Stoppers, FocusOut(c, s) PROVE TypeOK'
  BY <1>2 DEF FocusOut
<1>3. ASSUME NEW c \in Clients, Detach(c) PROVE TypeOK'
  BY <1>3 DEF Detach
<1>4. ASSUME NEW w \in Watchers, WatchStart(w) PROVE TypeOK'
  BY <1>4 DEF WatchStart
<1>5. ASSUME NEW w \in Watchers, WatchLock(w) PROVE TypeOK'
  BY <1>5 DEF WatchLock
<1>6. ASSUME NEW w \in Watchers, InstallSignals(w) PROVE TypeOK'
  BY <1>6 DEF InstallSignals
<1>7. ASSUME NEW w \in Watchers, Look(w) PROVE TypeOK'
  <2>1. serves[w] \in Clients /\ focused[serves[w]] \in BOOLEAN
    BY <1>7 DEF Look
  <2>2. PICK seen \in BOOLEAN : saw' = [saw EXCEPT ![w] = seen]
    BY <1>7, <2>1 DEF Look
  <2>3. saw' \in [Watchers -> BOOLEAN]
    BY <2>2
  <2> QED
    BY <1>7, <2>3 DEF Look
<1>8. ASSUME NEW w \in Watchers, DropSignal(w) PROVE TypeOK'
  BY <1>8 DEF DropSignal
<1>9. ASSUME NEW w \in Watchers, Decide(w) PROVE TypeOK'
  BY <1>9 DEF Decide
<1>10. ASSUME NEW w \in Watchers, Claim(w) PROVE TypeOK'
  BY <1>10 DEF Claim
<1>11. ASSUME NEW w \in Watchers, ClaimFails(w) PROVE TypeOK'
  BY <1>11 DEF ClaimFails
<1>12. ASSUME NEW w \in Watchers, StartExpirer(w) PROVE TypeOK'
  BY <1>12 DEF StartExpirer
<1>13. ASSUME NEW w \in Watchers, Release(w) PROVE TypeOK'
  BY <1>13 DEF Release
<1>14. ASSUME NEW w \in Watchers, Sleep(w) PROVE TypeOK'
  BY <1>14 DEF Sleep
<1>15. ASSUME NEW w \in Watchers, Kill(w) PROVE TypeOK'
  BY <1>15 DEF Kill
<1>16. ASSUME NEW s \in Stoppers, StopLook(s) PROVE TypeOK'
  BY <1>16 DEF StopLook
<1>17. ASSUME NEW s \in Stoppers, StopKill(s) PROVE TypeOK'
  BY <1>17 DEF StopKill
<1>18. ASSUME NEW e \in Expirers, ExpireLock(e) PROVE TypeOK'
  BY <1>18 DEF ExpireLock
<1>19. ASSUME NEW e \in Expirers, ExpireRead(e) PROVE TypeOK'
  BY <1>19 DEF ExpireRead
<1>20. ASSUME NEW e \in Expirers, ExpireReadFails(e) PROVE TypeOK'
  BY <1>20 DEF ExpireReadFails
<1>21. ASSUME NEW e \in Expirers, ExpireWait(e) PROVE TypeOK'
  BY <1>21 DEF ExpireWait
<1>22. ASSUME NEW e \in Expirers, ExpireRemove(e) PROVE TypeOK'
  BY <1>22 DEF ExpireRemove
<1>23. ASSUME NEW e \in Expirers, ExpireQuit(e) PROVE TypeOK'
  BY <1>23 DEF ExpireQuit
<1>24. CASE DeadlinePasses
  BY <1>24 DEF DeadlinePasses
<1>25. CASE UNCHANGED vars
  BY <1>25
<1> QED
    BY <1>1, <1>2, <1>3, <1>4, <1>5, <1>6, <1>7, <1>8, <1>9, <1>10, <1>11, <1>12, <1>13,
      <1>14, <1>15, <1>16, <1>17, <1>18, <1>19, <1>20, <1>21, <1>22, <1>23, <1>24, <1>25 DEF
      Next, Watch, Stop, Expire

(* A process keeps its client.                                             *)
LEMMA ServesStep == TypeOK /\ ServesInv /\ [Next]_vars => ServesInv'
<1> SUFFICES ASSUME TypeOK, ServesInv, [Next]_vars PROVE ServesInv'
  OBVIOUS
<1> USE ProcessAssumption, FaultsAssumption DEF TypeOK, WatcherPlaces, Signals, Locked,
      StopperPlaces, ExpirerPlaces, Working,
      clientVars, watcherVars, paneVars, vars, Step, Write, Remove, Fail, Reads, ServesInv
<1>1. ASSUME NEW c \in Clients, NEW w \in Watchers, FocusIn(c, w) PROVE ServesInv'
  BY <1>1 DEF FocusIn
<1>2. ASSUME NEW c \in Clients, NEW s \in Stoppers, FocusOut(c, s) PROVE ServesInv'
  BY <1>2 DEF FocusOut
<1>3. ASSUME NEW c \in Clients, Detach(c) PROVE ServesInv'
  BY <1>3 DEF Detach
<1>4. ASSUME NEW w \in Watchers, WatchStart(w) PROVE ServesInv'
  BY <1>4 DEF WatchStart
<1>5. ASSUME NEW w \in Watchers, WatchLock(w) PROVE ServesInv'
  BY <1>5 DEF WatchLock
<1>6. ASSUME NEW w \in Watchers, InstallSignals(w) PROVE ServesInv'
  BY <1>6 DEF InstallSignals
<1>7. ASSUME NEW w \in Watchers, Look(w) PROVE ServesInv'
  BY <1>7 DEF Look
<1>8. ASSUME NEW w \in Watchers, DropSignal(w) PROVE ServesInv'
  BY <1>8 DEF DropSignal
<1>9. ASSUME NEW w \in Watchers, Decide(w) PROVE ServesInv'
  BY <1>9 DEF Decide
<1>10. ASSUME NEW w \in Watchers, Claim(w) PROVE ServesInv'
  BY <1>10 DEF Claim
<1>11. ASSUME NEW w \in Watchers, ClaimFails(w) PROVE ServesInv'
  BY <1>11 DEF ClaimFails
<1>12. ASSUME NEW w \in Watchers, StartExpirer(w) PROVE ServesInv'
  BY <1>12 DEF StartExpirer
<1>13. ASSUME NEW w \in Watchers, Release(w) PROVE ServesInv'
  BY <1>13 DEF Release
<1>14. ASSUME NEW w \in Watchers, Sleep(w) PROVE ServesInv'
  BY <1>14 DEF Sleep
<1>15. ASSUME NEW w \in Watchers, Kill(w) PROVE ServesInv'
  BY <1>15 DEF Kill
<1>16. ASSUME NEW s \in Stoppers, StopLook(s) PROVE ServesInv'
  BY <1>16 DEF StopLook
<1>17. ASSUME NEW s \in Stoppers, StopKill(s) PROVE ServesInv'
  BY <1>17 DEF StopKill
<1>18. ASSUME NEW e \in Expirers, ExpireLock(e) PROVE ServesInv'
  BY <1>18 DEF ExpireLock
<1>19. ASSUME NEW e \in Expirers, ExpireRead(e) PROVE ServesInv'
  BY <1>19 DEF ExpireRead
<1>20. ASSUME NEW e \in Expirers, ExpireReadFails(e) PROVE ServesInv'
  BY <1>20 DEF ExpireReadFails
<1>21. ASSUME NEW e \in Expirers, ExpireWait(e) PROVE ServesInv'
  BY <1>21 DEF ExpireWait
<1>22. ASSUME NEW e \in Expirers, ExpireRemove(e) PROVE ServesInv'
  BY <1>22 DEF ExpireRemove
<1>23. ASSUME NEW e \in Expirers, ExpireQuit(e) PROVE ServesInv'
  BY <1>23 DEF ExpireQuit
<1>24. CASE DeadlinePasses
  BY <1>24 DEF DeadlinePasses
<1>25. CASE UNCHANGED vars
  BY <1>25
<1> QED
    BY <1>1, <1>2, <1>3, <1>4, <1>5, <1>6, <1>7, <1>8, <1>9, <1>10, <1>11, <1>12, <1>13,
      <1>14, <1>15, <1>16, <1>17, <1>18, <1>19, <1>20, <1>21, <1>22, <1>23, <1>24, <1>25 DEF
      Next, Watch, Stop, Expire

(* A fresh value is never the one an expirer has found overdue.            *)
LEMMA RemoveStep == TypeOK /\ RemoveInv /\ [Next]_vars => RemoveInv'
<1> SUFFICES ASSUME TypeOK, RemoveInv, [Next]_vars PROVE RemoveInv'
  OBVIOUS
<1> USE ProcessAssumption, FaultsAssumption DEF TypeOK, WatcherPlaces, Signals, Locked,
      StopperPlaces, ExpirerPlaces, Working,
      clientVars, watcherVars, paneVars, vars, Step, Write, Remove, Fail, Reads, RemoveInv
<1>1. ASSUME NEW c \in Clients, NEW w \in Watchers, FocusIn(c, w) PROVE RemoveInv'
  BY <1>1 DEF FocusIn
<1>2. ASSUME NEW c \in Clients, NEW s \in Stoppers, FocusOut(c, s) PROVE RemoveInv'
  BY <1>2 DEF FocusOut
<1>3. ASSUME NEW c \in Clients, Detach(c) PROVE RemoveInv'
  BY <1>3 DEF Detach
<1>4. ASSUME NEW w \in Watchers, WatchStart(w) PROVE RemoveInv'
  BY <1>4 DEF WatchStart
<1>5. ASSUME NEW w \in Watchers, WatchLock(w) PROVE RemoveInv'
  BY <1>5 DEF WatchLock
<1>6. ASSUME NEW w \in Watchers, InstallSignals(w) PROVE RemoveInv'
  BY <1>6 DEF InstallSignals
<1>7. ASSUME NEW w \in Watchers, Look(w) PROVE RemoveInv'
  BY <1>7 DEF Look
<1>8. ASSUME NEW w \in Watchers, DropSignal(w) PROVE RemoveInv'
  BY <1>8 DEF DropSignal
<1>9. ASSUME NEW w \in Watchers, Decide(w) PROVE RemoveInv'
  BY <1>9 DEF Decide
<1>10. ASSUME NEW w \in Watchers, Claim(w) PROVE RemoveInv'
  BY <1>10 DEF Claim
<1>11. ASSUME NEW w \in Watchers, ClaimFails(w) PROVE RemoveInv'
  BY <1>11 DEF ClaimFails
<1>12. ASSUME NEW w \in Watchers, StartExpirer(w) PROVE RemoveInv'
  BY <1>12 DEF StartExpirer
<1>13. ASSUME NEW w \in Watchers, Release(w) PROVE RemoveInv'
  BY <1>13 DEF Release
<1>14. ASSUME NEW w \in Watchers, Sleep(w) PROVE RemoveInv'
  BY <1>14 DEF Sleep
<1>15. ASSUME NEW w \in Watchers, Kill(w) PROVE RemoveInv'
  BY <1>15 DEF Kill
<1>16. ASSUME NEW s \in Stoppers, StopLook(s) PROVE RemoveInv'
  BY <1>16 DEF StopLook
<1>17. ASSUME NEW s \in Stoppers, StopKill(s) PROVE RemoveInv'
  BY <1>17 DEF StopKill
<1>18. ASSUME NEW e \in Expirers, ExpireLock(e) PROVE RemoveInv'
  BY <1>18 DEF ExpireLock
<1>19. ASSUME NEW e \in Expirers, ExpireRead(e) PROVE RemoveInv'
  BY <1>19 DEF ExpireRead
<1>20. ASSUME NEW e \in Expirers, ExpireReadFails(e) PROVE RemoveInv'
  BY <1>20 DEF ExpireReadFails
<1>21. ASSUME NEW e \in Expirers, ExpireWait(e) PROVE RemoveInv'
  BY <1>21 DEF ExpireWait
<1>22. ASSUME NEW e \in Expirers, ExpireRemove(e) PROVE RemoveInv'
  BY <1>22 DEF ExpireRemove
<1>23. ASSUME NEW e \in Expirers, ExpireQuit(e) PROVE RemoveInv'
  BY <1>23 DEF ExpireQuit
<1>24. CASE DeadlinePasses
  BY <1>24 DEF DeadlinePasses
<1>25. CASE UNCHANGED vars
  BY <1>25
<1> QED
    BY <1>1, <1>2, <1>3, <1>4, <1>5, <1>6, <1>7, <1>8, <1>9, <1>10, <1>11, <1>12, <1>13,
      <1>14, <1>15, <1>16, <1>17, <1>18, <1>19, <1>20, <1>21, <1>22, <1>23, <1>24, <1>25 DEF
      Next, Watch, Stop, Expire

(* `claimed` follows the claim through the loop of watch().                *)
LEMMA OwnerStep == TypeOK /\ OwnerInv /\ [Next]_vars => OwnerInv'
<1> SUFFICES ASSUME TypeOK, OwnerInv, [Next]_vars PROVE OwnerInv'
  OBVIOUS
<1> USE ProcessAssumption, FaultsAssumption DEF TypeOK, WatcherPlaces, Signals, Locked,
      StopperPlaces, ExpirerPlaces, Working,
      clientVars, watcherVars, paneVars, vars, Step, Write, Remove, Fail, Reads, OwnerInv, Owning
<1>1. ASSUME NEW c \in Clients, NEW w \in Watchers, FocusIn(c, w) PROVE OwnerInv'
  BY <1>1 DEF FocusIn
<1>2. ASSUME NEW c \in Clients, NEW s \in Stoppers, FocusOut(c, s) PROVE OwnerInv'
  BY <1>2 DEF FocusOut
<1>3. ASSUME NEW c \in Clients, Detach(c) PROVE OwnerInv'
  BY <1>3 DEF Detach
<1>4. ASSUME NEW w \in Watchers, WatchStart(w) PROVE OwnerInv'
  BY <1>4 DEF WatchStart
<1>5. ASSUME NEW w \in Watchers, WatchLock(w) PROVE OwnerInv'
  BY <1>5 DEF WatchLock
<1>6. ASSUME NEW w \in Watchers, InstallSignals(w) PROVE OwnerInv'
  BY <1>6 DEF InstallSignals
<1>7. ASSUME NEW w \in Watchers, Look(w) PROVE OwnerInv'
  BY <1>7 DEF Look
<1>8. ASSUME NEW w \in Watchers, DropSignal(w) PROVE OwnerInv'
  BY <1>8 DEF DropSignal
<1>9. ASSUME NEW w \in Watchers, Decide(w) PROVE OwnerInv'
  BY <1>9 DEF Decide
<1>10. ASSUME NEW w \in Watchers, Claim(w) PROVE OwnerInv'
  BY <1>10 DEF Claim
<1>11. ASSUME NEW w \in Watchers, ClaimFails(w) PROVE OwnerInv'
  BY <1>11 DEF ClaimFails
<1>12. ASSUME NEW w \in Watchers, StartExpirer(w) PROVE OwnerInv'
  BY <1>12 DEF StartExpirer
<1>13. ASSUME NEW w \in Watchers, Release(w) PROVE OwnerInv'
  BY <1>13 DEF Release
<1>14. ASSUME NEW w \in Watchers, Sleep(w) PROVE OwnerInv'
  BY <1>14 DEF Sleep
<1>15. ASSUME NEW w \in Watchers, Kill(w) PROVE OwnerInv'
  BY <1>15 DEF Kill
<1>16. ASSUME NEW s \in Stoppers, StopLook(s) PROVE OwnerInv'
  BY <1>16 DEF StopLook
<1>17. ASSUME NEW s \in Stoppers, StopKill(s) PROVE OwnerInv'
  BY <1>17 DEF StopKill
<1>18. ASSUME NEW e \in Expirers, ExpireLock(e) PROVE OwnerInv'
  BY <1>18 DEF ExpireLock
<1>19. ASSUME NEW e \in Expirers, ExpireRead(e) PROVE OwnerInv'
  BY <1>19 DEF ExpireRead
<1>20. ASSUME NEW e \in Expirers, ExpireReadFails(e) PROVE OwnerInv'
  BY <1>20 DEF ExpireReadFails
<1>21. ASSUME NEW e \in Expirers, ExpireWait(e) PROVE OwnerInv'
  BY <1>21 DEF ExpireWait
<1>22. ASSUME NEW e \in Expirers, ExpireRemove(e) PROVE OwnerInv'
  BY <1>22 DEF ExpireRemove
<1>23. ASSUME NEW e \in Expirers, ExpireQuit(e) PROVE OwnerInv'
  BY <1>23 DEF ExpireQuit
<1>24. CASE DeadlinePasses
  BY <1>24 DEF DeadlinePasses
<1>25. CASE UNCHANGED vars
  BY <1>25
<1> QED
    BY <1>1, <1>2, <1>3, <1>4, <1>5, <1>6, <1>7, <1>8, <1>9, <1>10, <1>11, <1>12, <1>13,
      <1>14, <1>15, <1>16, <1>17, <1>18, <1>19, <1>20, <1>21, <1>22, <1>23, <1>24, <1>25 DEF
      Next, Watch, Stop, Expire

-----------------------------------------------------------------------------
(* The inductive invariant holds in every reachable state.                 *)
THEOREM LeaseInvariant == Spec => []LeaseInv
<1>1. LeaseInv /\ [Next]_vars => LeaseInv'
  BY TypeStep, ServesStep, RemoveStep, OwnerStep DEF LeaseInv
<1> QED
  BY InitLease, <1>1, PTL DEF Spec

(* Every variable of the focus lease keeps its type.                       *)
THEOREM LeaseTypeOK == Spec => []TypeOK
<1>1. LeaseInv => TypeOK
  BY DEF LeaseInv
<1> QED
  BY <1>1, LeaseInvariant, PTL

(* watch(): a publisher that ends by itself leaves no claim behind when no *)
(* tmux call fails.                                                        *)
THEOREM PublisherCleansUp == Spec => []CleanExit
<1>1. LeaseInv => CleanExit
  BY FaultsAssumption DEF LeaseInv, OwnerInv, Owning, CleanExit
<1> QED
  BY <1>1, LeaseInvariant, PTL

-----------------------------------------------------------------------------
(* A step that removes the claim is its owner's, or finds it overdue.      *)
LEMMA RemovalStep == TypeOK /\ RemoveInv /\ [Next]_vars => Justified
<1> SUFFICES ASSUME TypeOK, RemoveInv, [Next]_vars PROVE Justified
  OBVIOUS
<1> USE ProcessAssumption, FaultsAssumption DEF TypeOK, WatcherPlaces, Signals, Locked,
      StopperPlaces, ExpirerPlaces, Working,
      clientVars, watcherVars, paneVars, vars, Step, Write, Remove, Fail, Reads, RemoveInv, Justified
<1>1. ASSUME NEW c \in Clients, NEW w \in Watchers, FocusIn(c, w) PROVE Justified
  BY <1>1 DEF FocusIn
<1>2. ASSUME NEW c \in Clients, NEW s \in Stoppers, FocusOut(c, s) PROVE Justified
  BY <1>2 DEF FocusOut
<1>3. ASSUME NEW c \in Clients, Detach(c) PROVE Justified
  BY <1>3 DEF Detach
<1>4. ASSUME NEW w \in Watchers, WatchStart(w) PROVE Justified
  BY <1>4 DEF WatchStart
<1>5. ASSUME NEW w \in Watchers, WatchLock(w) PROVE Justified
  BY <1>5 DEF WatchLock
<1>6. ASSUME NEW w \in Watchers, InstallSignals(w) PROVE Justified
  BY <1>6 DEF InstallSignals
<1>7. ASSUME NEW w \in Watchers, Look(w) PROVE Justified
  BY <1>7 DEF Look
<1>8. ASSUME NEW w \in Watchers, DropSignal(w) PROVE Justified
  BY <1>8 DEF DropSignal
<1>9. ASSUME NEW w \in Watchers, Decide(w) PROVE Justified
  BY <1>9 DEF Decide
<1>10. ASSUME NEW w \in Watchers, Claim(w) PROVE Justified
  BY <1>10 DEF Claim
<1>11. ASSUME NEW w \in Watchers, ClaimFails(w) PROVE Justified
  BY <1>11 DEF ClaimFails
<1>12. ASSUME NEW w \in Watchers, StartExpirer(w) PROVE Justified
  BY <1>12 DEF StartExpirer
<1>13. ASSUME NEW w \in Watchers, Release(w) PROVE Justified
  BY <1>13 DEF Release
<1>14. ASSUME NEW w \in Watchers, Sleep(w) PROVE Justified
  BY <1>14 DEF Sleep
<1>15. ASSUME NEW w \in Watchers, Kill(w) PROVE Justified
  BY <1>15 DEF Kill
<1>16. ASSUME NEW s \in Stoppers, StopLook(s) PROVE Justified
  BY <1>16 DEF StopLook
<1>17. ASSUME NEW s \in Stoppers, StopKill(s) PROVE Justified
  BY <1>17 DEF StopKill
<1>18. ASSUME NEW e \in Expirers, ExpireLock(e) PROVE Justified
  BY <1>18 DEF ExpireLock
<1>19. ASSUME NEW e \in Expirers, ExpireRead(e) PROVE Justified
  BY <1>19 DEF ExpireRead
<1>20. ASSUME NEW e \in Expirers, ExpireReadFails(e) PROVE Justified
  BY <1>20 DEF ExpireReadFails
<1>21. ASSUME NEW e \in Expirers, ExpireWait(e) PROVE Justified
  BY <1>21 DEF ExpireWait
<1>22. ASSUME NEW e \in Expirers, ExpireRemove(e) PROVE Justified
  BY <1>22 DEF ExpireRemove
<1>23. ASSUME NEW e \in Expirers, ExpireQuit(e) PROVE Justified
  BY <1>23 DEF ExpireQuit
<1>24. CASE DeadlinePasses
  BY <1>24 DEF DeadlinePasses
<1>25. CASE UNCHANGED vars
  BY <1>25
<1> QED
    BY <1>1, <1>2, <1>3, <1>4, <1>5, <1>6, <1>7, <1>8, <1>9, <1>10, <1>11, <1>12, <1>13,
      <1>14, <1>15, <1>16, <1>17, <1>18, <1>19, <1>20, <1>21, <1>22, <1>23, <1>24, <1>25 DEF
      Next, Watch, Stop, Expire

(* expire() and release(): nobody but its owner removes a claim before its *)
(* deadline has passed.                                                    *)
THEOREM NoEarlyRemoval == Spec => RemovalJustified
<1>1. LeaseInv /\ [Next]_vars => [Justified]_vars
  BY RemovalStep DEF LeaseInv
<1> QED
  BY <1>1, LeaseInvariant, PTL DEF Spec, RemovalJustified
=============================================================================
