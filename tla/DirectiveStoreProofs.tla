------------------------ MODULE DirectiveStoreProofs ------------------------
(***************************************************************************)
(* Proofs about DirectiveStore for any number of requests, relay servers,  *)
(* clients and stray replies.                                              *)
(***************************************************************************)
EXTENDS DirectiveStore, TLAPS

-----------------------------------------------------------------------------
(* The inductive invariant that needs no assumption on Routes.             *)

(* A request that has begun has a server and a client for good.            *)
Begun ==
  \A n \in Nonces :
    IF pc[n] = "idle" THEN client[n] = None
                      ELSE owner[n] \in Servers /\ client[n] \in Clients

(* Before it is armed, a request has left no trace in the store.           *)
Traceless ==
  \A n \in Nonces :
    pc[n] \in {"idle", "arm"} =>
      /\ dir[n] = "absent"
      /\ \A r \in Replies : target[r] # n

(* A reply is only under way once EmitCommit has asked for it.             *)
Unasked ==
  \A n \in Nonces :
    pc[n] \in {"idle", "arm", "commit", "emit", "discard", "unreceipt", "refused", "aborted"} =>
      reply[n] = "quiet"

(* A commit process has a target exactly while, and after, it holds one.   *)
TargetPhase ==
  \A r \in Replies :
    /\ reply[r] \in {"quiet", "inflight", "spawned"} => target[r] = None
    /\ reply[r] \in {"claimed", "ranHandled", "ranError", "retire"} => target[r] \in Nonces

(* A target is marked claimed, which makes it nobody else's, and nothing   *)
(* else is marked so.                                                      *)
TargetClaimed ==
  /\ \A r \in Replies : target[r] \in Nonces => dir[target[r]] \in {"claimed", "absent"}
  /\ \A n \in Nonces : dir[n] = "claimed" => \E r \in Replies : target[r] = n

TargetUnique ==
  \A q, r \in Replies : target[q] = target[r] /\ target[q] \in Nonces => q = r

(* The focus moves when the one commit process leaves "claimed".           *)
EffectsCounted ==
  \A n \in Nonces :
    /\ effects[n] <= 1
    /\ (\A r \in Replies : target[r] = n => reply[r] = "claimed") => effects[n] = 0

HandledIsDone ==
  /\ \A r \in Replies : reply[r] = "ranHandled" => effects[target[r]] = 1
  /\ \A n \in Nonces : receipt[n] = "handled" => effects[n] = 1
  /\ \A n \in Nonces : pc[n] = "armed" => effects[n] = 1

(* A receipt was published by the process that claimed the directive.      *)
ReceiptPhase ==
  \A n \in Nonces :
    receipt[n] # "none" =>
      \E r \in Replies : target[r] = n /\ reply[r] \in {"retire", "done", "killed"}

(* The directive outlives its receipt only until it is retired.            *)
Stranded(n) == \E r \in Replies : target[r] = n /\ reply[r] \in {"retire", "killed"}

Retired ==
  \A n \in Nonces :
    /\ pc[n] \in {"unreceipt", "unlink", "poison"} => dir[n] = "absent"
    /\ receipt[n] # "none" /\ dir[n] # "absent" => Stranded(n)
    /\ pc[n] \in Answered /\ dir[n] # "absent" => Stranded(n)

StoreInv ==
  /\ TypeOK
  /\ Begun
  /\ Traceless
  /\ Unasked
  /\ AtMostOneOutstanding
  /\ TargetPhase
  /\ TargetClaimed
  /\ TargetUnique
  /\ EffectsCounted
  /\ HandledIsDone
  /\ ReceiptPhase
  /\ Retired
  /\ PoisonJustified

-----------------------------------------------------------------------------
(* Every step keeps every variable in its type.                            *)
LEMMA TypeStep == StoreInv /\ [Next]_vars => TypeOK'
<1> SUFFICES ASSUME StoreInv, [Next]_vars PROVE TypeOK'
  OBVIOUS
<1> USE DistinctAssumption DEF StoreInv, TypeOK, Replies, HandlerStates,
    Running, Answered, ReplyStates, Begun, Traceless, TargetPhase
<1>1. CASE \E n \in Nonces, s \in Servers, c \in Clients : Begin(n, s, c)
  BY <1>1 DEF Begin
<1>2. CASE \E n \in Nonces : Arm(n)
  BY <1>2 DEF Arm, Vacate, Outstanding, Removable, Blocking
<1>3. CASE \E n \in Nonces : ArmRefused(n)
  BY <1>3 DEF ArmRefused, Vacate, Outstanding, Removable, Blocking, PoisonFor
<1>4. CASE \E n \in Nonces : \/ MarkCommitted(n) \/ EmitCommit(n)
                             \/ DiscardDirective(n)
  BY <1>4 DEF MarkCommitted, EmitCommit, DiscardDirective, Vacate
<1>5. CASE \E n \in Nonces : \/ DiscardReceipt(n) \/ TakeReceipt(n)
                             \/ NoReceiptYet(n)
  BY <1>5 DEF DiscardReceipt, TakeReceipt, NoReceiptYet
<1>6. CASE \E n \in Nonces : \/ ReadDirective(n) \/ TimeOut(n)
                             \/ RemoveExpired(n)
  BY <1>6 DEF ReadDirective, TimeOut, RemoveExpired, Vacate
<1>7. CASE \E n \in Nonces : \/ UnlinkReceipt(n) \/ PoisonClient(n)
  BY <1>7 DEF UnlinkReceipt, PoisonClient
<1>8. CASE \E s \in Servers : Crash(s)
  BY <1>8 DEF Crash
<1>9. CASE \E r \in Replies : \/ LoseReply(r) \/ ClaimInvalid(r) \/ Execute(r)
  BY <1>9 DEF LoseReply, ClaimInvalid, Execute
<1>10. CASE \E r \in Replies, n \in Nonces : ClaimDirective(r, n)
  BY <1>10 DEF ClaimDirective, Vacate, Outstanding, Claimable, DeadBelow,
    PoisonFor
<1>11. CASE \E r \in Replies : ClaimNothing(r)
  BY <1>11 DEF ClaimNothing, Vacate, Outstanding, Claimable, PoisonFor
<1>12. CASE \E r \in Replies : \/ PublishReceipt(r) \/ RetireDirective(r)
                               \/ CommitCrash(r)
  BY <1>12 DEF PublishReceipt, RetireDirective, CommitCrash, Vacate
<1>13. CASE \E r \in Replies, c \in Clients : Spawn(r, c)
  BY <1>13 DEF Spawn
<1>14. CASE UNCHANGED vars
  BY <1>14 DEF vars
<1> QED
  BY <1>1, <1>2, <1>3, <1>4, <1>5, <1>6, <1>7, <1>8, <1>9, <1>10, <1>11,
    <1>12, <1>13, <1>14
    DEF Next, Handler, CommitProcess, Claim

(* Owner and client are set by Begin and stay.                             *)
LEMMA BegunStep == StoreInv /\ [Next]_vars => Begun'
<1> SUFFICES ASSUME StoreInv, [Next]_vars PROVE Begun'
  OBVIOUS
<1> USE DistinctAssumption DEF StoreInv, TypeOK, Replies, Begun, Unasked,
    Running
<1>1. CASE \E n \in Nonces, s \in Servers, c \in Clients : Begin(n, s, c)
  BY <1>1 DEF Begin
<1>2. CASE \E n \in Nonces : Arm(n)
  BY <1>2 DEF Arm, Vacate, Outstanding, Removable, Blocking
<1>3. CASE \E n \in Nonces : ArmRefused(n)
  BY <1>3 DEF ArmRefused, Vacate, Outstanding, Removable, Blocking, PoisonFor
<1>4. CASE \E n \in Nonces : \/ MarkCommitted(n) \/ EmitCommit(n)
                             \/ DiscardDirective(n)
  BY <1>4 DEF MarkCommitted, EmitCommit, DiscardDirective, Vacate
<1>5. CASE \E n \in Nonces : \/ DiscardReceipt(n) \/ TakeReceipt(n)
                             \/ NoReceiptYet(n)
  BY <1>5 DEF DiscardReceipt, TakeReceipt, NoReceiptYet
<1>6. CASE \E n \in Nonces : \/ ReadDirective(n) \/ TimeOut(n)
                             \/ RemoveExpired(n)
  BY <1>6 DEF ReadDirective, TimeOut, RemoveExpired, Vacate
<1>7. CASE \E n \in Nonces : \/ UnlinkReceipt(n) \/ PoisonClient(n)
  BY <1>7 DEF UnlinkReceipt, PoisonClient
<1>8. CASE \E s \in Servers : Crash(s)
  BY <1>8 DEF Crash
<1>9. CASE \E r \in Replies, c \in Clients : Spawn(r, c)
  BY <1>9 DEF Spawn
<1>10. CASE
      \/ \E r \in Replies : \/ LoseReply(r) \/ ClaimNothing(r)
                            \/ ClaimInvalid(r) \/ Execute(r)
                            \/ PublishReceipt(r) \/ RetireDirective(r)
                            \/ CommitCrash(r)
      \/ \E r \in Replies, n \in Nonces : ClaimDirective(r, n)
  <2>1. UNCHANGED <<pc, owner, client>>
    BY <1>10 DEF LoseReply, ClaimDirective, ClaimNothing, ClaimInvalid,
      Execute, PublishReceipt, RetireDirective, CommitCrash
  <2> QED
    BY <2>1
<1>11. CASE UNCHANGED vars
  BY <1>11 DEF vars
<1> QED
  BY <1>1, <1>2, <1>3, <1>4, <1>5, <1>6, <1>7, <1>8, <1>9, <1>10, <1>11
    DEF Next, Handler, CommitProcess, Claim

(* Only Arm leaves a trace, and no reply can claim what is not armed.       *)
LEMMA TracelessStep == StoreInv /\ [Next]_vars => Traceless'
<1> SUFFICES ASSUME StoreInv, [Next]_vars PROVE Traceless'
  OBVIOUS
<1> USE DistinctAssumption DEF StoreInv, TypeOK, Replies, Traceless, Running
<1>1. CASE \E n \in Nonces, s \in Servers, c \in Clients : Begin(n, s, c)
  BY <1>1 DEF Begin
<1>2. CASE \E n \in Nonces : Arm(n)
  BY <1>2 DEF Arm, Vacate, Outstanding, Removable, Blocking
<1>3. CASE \E n \in Nonces : ArmRefused(n)
  BY <1>3 DEF ArmRefused, Vacate, Outstanding, Removable, Blocking, PoisonFor
<1>4. CASE \E n \in Nonces : \/ MarkCommitted(n) \/ EmitCommit(n)
                             \/ DiscardDirective(n)
  BY <1>4 DEF MarkCommitted, EmitCommit, DiscardDirective, Vacate
<1>5. CASE \E n \in Nonces : \/ DiscardReceipt(n) \/ TakeReceipt(n)
                             \/ NoReceiptYet(n)
  BY <1>5 DEF DiscardReceipt, TakeReceipt, NoReceiptYet
<1>6. CASE \E n \in Nonces : \/ ReadDirective(n) \/ TimeOut(n)
                             \/ RemoveExpired(n)
  BY <1>6 DEF ReadDirective, TimeOut, RemoveExpired, Vacate
<1>7. CASE \E n \in Nonces : \/ UnlinkReceipt(n) \/ PoisonClient(n)
  BY <1>7 DEF UnlinkReceipt, PoisonClient
<1>8. CASE \E s \in Servers : Crash(s)
  BY <1>8 DEF Crash
<1>9. CASE \E r \in Replies : \/ LoseReply(r) \/ ClaimInvalid(r) \/ Execute(r)
  BY <1>9 DEF LoseReply, ClaimInvalid, Execute
<1>10. CASE \E r \in Replies, n \in Nonces : ClaimDirective(r, n)
  BY <1>10 DEF ClaimDirective, Vacate, Outstanding, Claimable, DeadBelow,
    PoisonFor
<1>11. CASE \E r \in Replies : ClaimNothing(r)
  BY <1>11 DEF ClaimNothing, Vacate, Outstanding, Claimable, PoisonFor
<1>12. CASE \E r \in Replies : \/ PublishReceipt(r) \/ RetireDirective(r)
                               \/ CommitCrash(r)
  BY <1>12 DEF PublishReceipt, RetireDirective, CommitCrash, Vacate
<1>13. CASE \E r \in Replies, c \in Clients : Spawn(r, c)
  BY <1>13 DEF Spawn
<1>14. CASE UNCHANGED vars
  BY <1>14 DEF vars
<1> QED
  BY <1>1, <1>2, <1>3, <1>4, <1>5, <1>6, <1>7, <1>8, <1>9, <1>10, <1>11,
    <1>12, <1>13, <1>14
    DEF Next, Handler, CommitProcess, Claim

(* EmitCommit is the one step that asks the terminal.                      *)
LEMMA UnaskedStep == StoreInv /\ [Next]_vars => Unasked'
<1> SUFFICES ASSUME StoreInv, [Next]_vars PROVE Unasked'
  OBVIOUS
<1> USE DistinctAssumption DEF StoreInv, TypeOK, Replies, Unasked, Running
<1>1. CASE \E n \in Nonces, s \in Servers, c \in Clients : Begin(n, s, c)
  BY <1>1 DEF Begin
<1>2. CASE \E n \in Nonces : Arm(n)
  BY <1>2 DEF Arm, Vacate, Outstanding, Removable, Blocking
<1>3. CASE \E n \in Nonces : ArmRefused(n)
  BY <1>3 DEF ArmRefused, Vacate, Outstanding, Removable, Blocking, PoisonFor
<1>4. CASE \E n \in Nonces : \/ MarkCommitted(n) \/ EmitCommit(n)
                             \/ DiscardDirective(n)
  BY <1>4 DEF MarkCommitted, EmitCommit, DiscardDirective, Vacate
<1>5. CASE \E n \in Nonces : \/ DiscardReceipt(n) \/ TakeReceipt(n)
                             \/ NoReceiptYet(n)
  BY <1>5 DEF DiscardReceipt, TakeReceipt, NoReceiptYet
<1>6. CASE \E n \in Nonces : \/ ReadDirective(n) \/ TimeOut(n)
                             \/ RemoveExpired(n)
  BY <1>6 DEF ReadDirective, TimeOut, RemoveExpired, Vacate
<1>7. CASE \E n \in Nonces : \/ UnlinkReceipt(n) \/ PoisonClient(n)
  BY <1>7 DEF UnlinkReceipt, PoisonClient
<1>8. CASE \E s \in Servers : Crash(s)
  BY <1>8 DEF Crash
<1>9. CASE \E r \in Replies : \/ LoseReply(r) \/ ClaimInvalid(r) \/ Execute(r)
  BY <1>9 DEF LoseReply, ClaimInvalid, Execute
<1>10. CASE \E r \in Replies, n \in Nonces : ClaimDirective(r, n)
  BY <1>10 DEF ClaimDirective, Vacate, Outstanding, Claimable, DeadBelow,
    PoisonFor
<1>11. CASE \E r \in Replies : ClaimNothing(r)
  BY <1>11 DEF ClaimNothing, Vacate, Outstanding, Claimable, PoisonFor
<1>12. CASE \E r \in Replies : \/ PublishReceipt(r) \/ RetireDirective(r)
                               \/ CommitCrash(r)
  BY <1>12 DEF PublishReceipt, RetireDirective, CommitCrash, Vacate
<1>13. CASE \E r \in Replies, c \in Clients : Spawn(r, c)
  BY <1>13 DEF Spawn
<1>14. CASE UNCHANGED vars
  BY <1>14 DEF vars
<1> QED
  BY <1>1, <1>2, <1>3, <1>4, <1>5, <1>6, <1>7, <1>8, <1>9, <1>10, <1>11,
    <1>12, <1>13, <1>14
    DEF Next, Handler, CommitProcess, Claim

(* Arm publishes only where its scan found the client free.                *)
LEMMA UniqueStep == StoreInv /\ [Next]_vars => AtMostOneOutstanding'
<1> SUFFICES ASSUME StoreInv, [Next]_vars PROVE AtMostOneOutstanding'
  OBVIOUS
<1> USE DistinctAssumption DEF StoreInv, TypeOK, Replies,
    AtMostOneOutstanding, Traceless, Begun
<1>1. CASE \E n \in Nonces, s \in Servers, c \in Clients : Begin(n, s, c)
  BY <1>1 DEF Begin
<1>2. CASE \E n \in Nonces : Arm(n)
  BY <1>2 DEF Arm, Vacate, Outstanding, Removable, Blocking
<1>3. CASE \E n \in Nonces : ArmRefused(n)
  BY <1>3 DEF ArmRefused, Vacate, Outstanding, Removable, Blocking, PoisonFor
<1>4. CASE \E n \in Nonces : \/ MarkCommitted(n) \/ DiscardDirective(n)
                             \/ RemoveExpired(n)
  BY <1>4 DEF MarkCommitted, DiscardDirective, RemoveExpired, Vacate
<1>5. CASE \E r \in Replies, n \in Nonces : ClaimDirective(r, n)
  BY <1>5 DEF ClaimDirective, Vacate, Outstanding, Claimable, DeadBelow,
    PoisonFor
<1>6. CASE \E r \in Replies : ClaimNothing(r)
  BY <1>6 DEF ClaimNothing, Vacate, Outstanding, Claimable, PoisonFor
<1>7. CASE \E r \in Replies : RetireDirective(r)
  BY <1>7 DEF RetireDirective, Vacate
<1>8. CASE \E r \in Replies, c \in Clients : Spawn(r, c)
  BY <1>8 DEF Spawn
<1>9. CASE
      \/ \E n \in Nonces : \/ EmitCommit(n) \/ DiscardReceipt(n)
                           \/ TakeReceipt(n) \/ NoReceiptYet(n)
                           \/ ReadDirective(n) \/ TimeOut(n)
                           \/ UnlinkReceipt(n) \/ PoisonClient(n)
      \/ \E r \in Replies : \/ LoseReply(r) \/ ClaimInvalid(r) \/ Execute(r)
                            \/ PublishReceipt(r) \/ CommitCrash(r)
      \/ \E s \in Servers : Crash(s)
  <2>1. UNCHANGED <<dir, client>>
    BY <1>9 DEF EmitCommit, DiscardReceipt, TakeReceipt, NoReceiptYet,
      ReadDirective, TimeOut, UnlinkReceipt, PoisonClient, Crash, LoseReply,
      ClaimInvalid, Execute, PublishReceipt, CommitCrash
  <2> QED
    BY <2>1
<1>10. CASE UNCHANGED vars
  BY <1>10 DEF vars
<1> QED
  BY <1>1, <1>2, <1>3, <1>4, <1>5, <1>6, <1>7, <1>8, <1>9, <1>10
    DEF Next, Handler, CommitProcess, Claim

(* A claim sets the target of its process.                                 *)
LEMMA TargetPhaseStep == StoreInv /\ [Next]_vars => TargetPhase'
<1> SUFFICES ASSUME StoreInv, [Next]_vars PROVE TargetPhase'
  OBVIOUS
<1> USE DistinctAssumption DEF StoreInv, TypeOK, Replies, TargetPhase, Unasked
<1>1. CASE \E n \in Nonces : EmitCommit(n)
  BY <1>1 DEF EmitCommit
<1>2. CASE \E r \in Replies : \/ LoseReply(r) \/ ClaimInvalid(r) \/ Execute(r)
  BY <1>2 DEF LoseReply, ClaimInvalid, Execute
<1>3. CASE \E r \in Replies, n \in Nonces : ClaimDirective(r, n)
  BY <1>3 DEF ClaimDirective, Vacate, Outstanding, Claimable, DeadBelow,
    PoisonFor
<1>4. CASE \E r \in Replies : ClaimNothing(r)
  BY <1>4 DEF ClaimNothing, Vacate, Outstanding, Claimable, PoisonFor
<1>5. CASE \E r \in Replies : \/ PublishReceipt(r) \/ RetireDirective(r)
                              \/ CommitCrash(r)
  BY <1>5 DEF PublishReceipt, RetireDirective, CommitCrash, Vacate
<1>6. CASE \E r \in Replies, c \in Clients : Spawn(r, c)
  BY <1>6 DEF Spawn
<1>7. CASE
      \/ \E n \in Nonces : \/ Arm(n) \/ ArmRefused(n) \/ MarkCommitted(n)
                           \/ DiscardDirective(n) \/ DiscardReceipt(n)
                           \/ TakeReceipt(n) \/ NoReceiptYet(n)
                           \/ ReadDirective(n) \/ TimeOut(n)
                           \/ RemoveExpired(n) \/ UnlinkReceipt(n)
                           \/ PoisonClient(n)
      \/ \E n \in Nonces, s \in Servers, c \in Clients : Begin(n, s, c)
      \/ \E s \in Servers : Crash(s)
  <2>1. UNCHANGED <<reply, target>>
    BY <1>7 DEF Begin, Arm, ArmRefused, MarkCommitted, DiscardDirective,
      DiscardReceipt, TakeReceipt, NoReceiptYet, ReadDirective, TimeOut,
      RemoveExpired, UnlinkReceipt, PoisonClient, Crash
  <2> QED
    BY <2>1
<1>8. CASE UNCHANGED vars
  BY <1>8 DEF vars
<1> QED
  BY <1>1, <1>2, <1>3, <1>4, <1>5, <1>6, <1>7, <1>8
    DEF Next, Handler, CommitProcess, Claim

(* A claimed directive stays claimed until it is removed.                  *)
LEMMA TargetClaimedStep == StoreInv /\ [Next]_vars => TargetClaimed'
<1> SUFFICES ASSUME StoreInv, [Next]_vars PROVE TargetClaimed'
  OBVIOUS
<1> USE DistinctAssumption DEF StoreInv, TypeOK, Replies, TargetClaimed,
    TargetPhase, Traceless
<1>1. CASE \E n \in Nonces : Arm(n)
  BY <1>1 DEF Arm, Vacate, Outstanding, Removable, Blocking
<1>2. CASE \E n \in Nonces : ArmRefused(n)
  BY <1>2 DEF ArmRefused, Vacate, Outstanding, Removable, Blocking, PoisonFor
<1>3. CASE \E n \in Nonces : \/ MarkCommitted(n) \/ DiscardDirective(n)
                             \/ RemoveExpired(n)
  BY <1>3 DEF MarkCommitted, DiscardDirective, RemoveExpired, Vacate
<1>4. CASE \E r \in Replies, n \in Nonces : ClaimDirective(r, n)
  BY <1>4 DEF ClaimDirective, Vacate, Outstanding, Claimable, DeadBelow,
    PoisonFor
<1>5. CASE \E r \in Replies : ClaimNothing(r)
  BY <1>5 DEF ClaimNothing, Vacate, Outstanding, Claimable, PoisonFor
<1>6. CASE \E r \in Replies : RetireDirective(r)
  BY <1>6 DEF RetireDirective, Vacate
<1>7. CASE
      \/ \E n \in Nonces : \/ EmitCommit(n) \/ DiscardReceipt(n)
                           \/ TakeReceipt(n) \/ NoReceiptYet(n)
                           \/ ReadDirective(n) \/ TimeOut(n)
                           \/ UnlinkReceipt(n) \/ PoisonClient(n)
      \/ \E r \in Replies : \/ LoseReply(r) \/ ClaimInvalid(r) \/ Execute(r)
                            \/ PublishReceipt(r) \/ CommitCrash(r)
      \/ \E n \in Nonces, s \in Servers, c \in Clients : Begin(n, s, c)
      \/ \E s \in Servers : Crash(s)
      \/ \E r \in Replies, c \in Clients : Spawn(r, c)
  <2>1. UNCHANGED <<dir, target>>
    BY <1>7 DEF Begin, EmitCommit, DiscardReceipt, TakeReceipt, NoReceiptYet,
      ReadDirective, TimeOut, UnlinkReceipt, PoisonClient, Crash, LoseReply,
      ClaimInvalid, Execute, PublishReceipt, CommitCrash, Spawn
  <2> QED
    BY <2>1
<1>8. CASE UNCHANGED vars
  BY <1>8 DEF vars
<1> QED
  BY <1>1, <1>2, <1>3, <1>4, <1>5, <1>6, <1>7, <1>8
    DEF Next, Handler, CommitProcess, Claim

(* What is claimed cannot be claimed again.                                *)
LEMMA TargetUniqueStep == StoreInv /\ [Next]_vars => TargetUnique'
<1> SUFFICES ASSUME StoreInv, [Next]_vars PROVE TargetUnique'
  OBVIOUS
<1> USE DistinctAssumption DEF StoreInv, TypeOK, Replies, TargetUnique,
    TargetClaimed
<1>1. CASE \E r \in Replies, n \in Nonces : ClaimDirective(r, n)
  BY <1>1 DEF ClaimDirective, Vacate, Outstanding, Claimable, DeadBelow,
    PoisonFor
<1>2. CASE
      \/ \E n \in Nonces : \/ Arm(n) \/ ArmRefused(n) \/ MarkCommitted(n)
                           \/ EmitCommit(n) \/ DiscardDirective(n)
                           \/ DiscardReceipt(n) \/ TakeReceipt(n)
                           \/ NoReceiptYet(n) \/ ReadDirective(n)
                           \/ TimeOut(n) \/ RemoveExpired(n)
                           \/ UnlinkReceipt(n) \/ PoisonClient(n)
      \/ \E r \in Replies : \/ LoseReply(r) \/ ClaimNothing(r)
                            \/ ClaimInvalid(r) \/ Execute(r)
                            \/ PublishReceipt(r) \/ RetireDirective(r)
                            \/ CommitCrash(r)
      \/ \E n \in Nonces, s \in Servers, c \in Clients : Begin(n, s, c)
      \/ \E s \in Servers : Crash(s)
      \/ \E r \in Replies, c \in Clients : Spawn(r, c)
  <2>1. UNCHANGED <<target>>
    BY <1>2 DEF Begin, Arm, ArmRefused, MarkCommitted, EmitCommit,
      DiscardDirective, DiscardReceipt, TakeReceipt, NoReceiptYet,
      ReadDirective, TimeOut, RemoveExpired, UnlinkReceipt, PoisonClient,
      Crash, LoseReply, ClaimNothing, ClaimInvalid, Execute, PublishReceipt,
      RetireDirective, CommitCrash, Spawn
  <2> QED
    BY <2>1
<1>3. CASE UNCHANGED vars
  BY <1>3 DEF vars
<1> QED
  BY <1>1, <1>2, <1>3
    DEF Next, Handler, CommitProcess, Claim

(* The one process that holds a directive executes it once.                *)
LEMMA EffectsStep == StoreInv /\ [Next]_vars => EffectsCounted'
<1> SUFFICES ASSUME StoreInv, [Next]_vars PROVE EffectsCounted'
  OBVIOUS
<1> USE DistinctAssumption DEF StoreInv, TypeOK, Replies, EffectsCounted,
    Unasked, TargetUnique, TargetClaimed, TargetPhase
<1>1. CASE \E n \in Nonces : EmitCommit(n)
  BY <1>1 DEF EmitCommit
<1>2. CASE \E r \in Replies : \/ LoseReply(r) \/ ClaimInvalid(r) \/ Execute(r)
  BY <1>2 DEF LoseReply, ClaimInvalid, Execute
<1>3. CASE \E r \in Replies, n \in Nonces : ClaimDirective(r, n)
  BY <1>3 DEF ClaimDirective, Vacate, Outstanding, Claimable, DeadBelow,
    PoisonFor
<1>4. CASE \E r \in Replies : ClaimNothing(r)
  BY <1>4 DEF ClaimNothing, Vacate, Outstanding, Claimable, PoisonFor
<1>5. CASE \E r \in Replies : \/ PublishReceipt(r) \/ RetireDirective(r)
                              \/ CommitCrash(r)
  BY <1>5 DEF PublishReceipt, RetireDirective, CommitCrash, Vacate
<1>6. CASE \E r \in Replies, c \in Clients : Spawn(r, c)
  BY <1>6 DEF Spawn
<1>7. CASE
      \/ \E n \in Nonces : \/ Arm(n) \/ ArmRefused(n) \/ MarkCommitted(n)
                           \/ DiscardDirective(n) \/ DiscardReceipt(n)
                           \/ TakeReceipt(n) \/ NoReceiptYet(n)
                           \/ ReadDirective(n) \/ TimeOut(n)
                           \/ RemoveExpired(n) \/ UnlinkReceipt(n)
                           \/ PoisonClient(n)
      \/ \E n \in Nonces, s \in Servers, c \in Clients : Begin(n, s, c)
      \/ \E s \in Servers : Crash(s)
  <2>1. UNCHANGED <<effects, target, reply>>
    BY <1>7 DEF Begin, Arm, ArmRefused, MarkCommitted, DiscardDirective,
      DiscardReceipt, TakeReceipt, NoReceiptYet, ReadDirective, TimeOut,
      RemoveExpired, UnlinkReceipt, PoisonClient, Crash
  <2> QED
    BY <2>1
<1>8. CASE UNCHANGED vars
  BY <1>8 DEF vars
<1> QED
  BY <1>1, <1>2, <1>3, <1>4, <1>5, <1>6, <1>7, <1>8
    DEF Next, Handler, CommitProcess, Claim

(* A handled receipt is published after the execution it reports.          *)
LEMMA HandledStep == StoreInv /\ [Next]_vars => HandledIsDone'
<1> SUFFICES ASSUME StoreInv, [Next]_vars PROVE HandledIsDone'
  OBVIOUS
<1> USE DistinctAssumption DEF StoreInv, TypeOK, Replies, HandledIsDone,
    Unasked, EffectsCounted, TargetUnique, TargetPhase
<1>1. CASE \E n \in Nonces, s \in Servers, c \in Clients : Begin(n, s, c)
  BY <1>1 DEF Begin
<1>2. CASE \E n \in Nonces : Arm(n)
  BY <1>2 DEF Arm, Vacate, Outstanding, Removable, Blocking
<1>3. CASE \E n \in Nonces : ArmRefused(n)
  BY <1>3 DEF ArmRefused, Vacate, Outstanding, Removable, Blocking, PoisonFor
<1>4. CASE \E n \in Nonces : \/ MarkCommitted(n) \/ EmitCommit(n)
                             \/ DiscardDirective(n)
  BY <1>4 DEF MarkCommitted, EmitCommit, DiscardDirective, Vacate
<1>5. CASE \E n \in Nonces : \/ DiscardReceipt(n) \/ TakeReceipt(n)
                             \/ NoReceiptYet(n)
  BY <1>5 DEF DiscardReceipt, TakeReceipt, NoReceiptYet
<1>6. CASE \E n \in Nonces : \/ ReadDirective(n) \/ TimeOut(n)
                             \/ RemoveExpired(n)
  BY <1>6 DEF ReadDirective, TimeOut, RemoveExpired, Vacate
<1>7. CASE \E n \in Nonces : \/ UnlinkReceipt(n) \/ PoisonClient(n)
  BY <1>7 DEF UnlinkReceipt, PoisonClient
<1>8. CASE \E s \in Servers : Crash(s)
  BY <1>8 DEF Crash
<1>9. CASE \E r \in Replies : \/ LoseReply(r) \/ ClaimInvalid(r) \/ Execute(r)
  BY <1>9 DEF LoseReply, ClaimInvalid, Execute
<1>10. CASE \E r \in Replies, n \in Nonces : ClaimDirective(r, n)
  BY <1>10 DEF ClaimDirective, Vacate, Outstanding, Claimable, DeadBelow,
    PoisonFor
<1>11. CASE \E r \in Replies : ClaimNothing(r)
  BY <1>11 DEF ClaimNothing, Vacate, Outstanding, Claimable, PoisonFor
<1>12. CASE \E r \in Replies : \/ PublishReceipt(r) \/ RetireDirective(r)
                               \/ CommitCrash(r)
  BY <1>12 DEF PublishReceipt, RetireDirective, CommitCrash, Vacate
<1>13. CASE \E r \in Replies, c \in Clients : Spawn(r, c)
  BY <1>13 DEF Spawn
<1>14. CASE UNCHANGED vars
  BY <1>14 DEF vars
<1> QED
  BY <1>1, <1>2, <1>3, <1>4, <1>5, <1>6, <1>7, <1>8, <1>9, <1>10, <1>11,
    <1>12, <1>13, <1>14
    DEF Next, Handler, CommitProcess, Claim

(* Receipts come from the process that claimed the directive.              *)
LEMMA ReceiptStep == StoreInv /\ [Next]_vars => ReceiptPhase'
<1> SUFFICES ASSUME StoreInv, [Next]_vars PROVE ReceiptPhase'
  OBVIOUS
<1> USE DistinctAssumption DEF StoreInv, TypeOK, Replies, ReceiptPhase,
    TargetPhase, Unasked
<1>1. CASE \E n \in Nonces : \/ EmitCommit(n) \/ DiscardReceipt(n)
                             \/ TakeReceipt(n)
  BY <1>1 DEF EmitCommit, DiscardReceipt, TakeReceipt
<1>2. CASE \E n \in Nonces : UnlinkReceipt(n)
  BY <1>2 DEF UnlinkReceipt
<1>3. CASE \E r \in Replies : \/ LoseReply(r) \/ ClaimInvalid(r) \/ Execute(r)
  BY <1>3 DEF LoseReply, ClaimInvalid, Execute
<1>4. CASE \E r \in Replies, n \in Nonces : ClaimDirective(r, n)
  BY <1>4 DEF ClaimDirective, Vacate, Outstanding, Claimable, DeadBelow,
    PoisonFor
<1>5. CASE \E r \in Replies : ClaimNothing(r)
  BY <1>5 DEF ClaimNothing, Vacate, Outstanding, Claimable, PoisonFor
<1>6. CASE \E r \in Replies : \/ PublishReceipt(r) \/ RetireDirective(r)
                              \/ CommitCrash(r)
  BY <1>6 DEF PublishReceipt, RetireDirective, CommitCrash, Vacate
<1>7. CASE \E r \in Replies, c \in Clients : Spawn(r, c)
  BY <1>7 DEF Spawn
<1>8. CASE
      \/ \E n \in Nonces : \/ Arm(n) \/ ArmRefused(n) \/ MarkCommitted(n)
                           \/ DiscardDirective(n) \/ NoReceiptYet(n)
                           \/ ReadDirective(n) \/ TimeOut(n)
                           \/ RemoveExpired(n) \/ PoisonClient(n)
      \/ \E n \in Nonces, s \in Servers, c \in Clients : Begin(n, s, c)
      \/ \E s \in Servers : Crash(s)
  <2>1. UNCHANGED <<receipt, target, reply>>
    BY <1>8 DEF Begin, Arm, ArmRefused, MarkCommitted, DiscardDirective,
      NoReceiptYet, ReadDirective, TimeOut, RemoveExpired, PoisonClient, Crash
  <2> QED
    BY <2>1
<1>9. CASE UNCHANGED vars
  BY <1>9 DEF vars
<1> QED
  BY <1>1, <1>2, <1>3, <1>4, <1>5, <1>6, <1>7, <1>8, <1>9
    DEF Next, Handler, CommitProcess, Claim

(* A directive outlives its receipt only until it is retired.              *)
LEMMA RetiredStep == StoreInv /\ [Next]_vars => Retired'
<1> SUFFICES ASSUME StoreInv, [Next]_vars PROVE Retired'
  OBVIOUS
<1> USE DistinctAssumption DEF StoreInv, TypeOK, Replies, Retired, Unasked,
    ReceiptPhase, TargetPhase, TargetClaimed, TargetUnique, Traceless,
    Stranded, Answered, Running
<1>1. CASE \E n \in Nonces, s \in Servers, c \in Clients : Begin(n, s, c)
  BY <1>1 DEF Begin
<1>2. CASE \E n \in Nonces : Arm(n)
  BY <1>2 DEF Arm, Vacate, Outstanding, Removable, Blocking
<1>3. CASE \E n \in Nonces : ArmRefused(n)
  BY <1>3 DEF ArmRefused, Vacate, Outstanding, Removable, Blocking, PoisonFor
<1>4. CASE \E n \in Nonces : \/ MarkCommitted(n) \/ EmitCommit(n)
                             \/ DiscardDirective(n)
  BY <1>4 DEF MarkCommitted, EmitCommit, DiscardDirective, Vacate
<1>5. CASE \E n \in Nonces : \/ DiscardReceipt(n) \/ TakeReceipt(n)
                             \/ NoReceiptYet(n)
  BY <1>5 DEF DiscardReceipt, TakeReceipt, NoReceiptYet
<1>6. CASE \E n \in Nonces : \/ ReadDirective(n) \/ TimeOut(n)
                             \/ RemoveExpired(n)
  BY <1>6 DEF ReadDirective, TimeOut, RemoveExpired, Vacate
<1>7. CASE \E n \in Nonces : \/ UnlinkReceipt(n) \/ PoisonClient(n)
  BY <1>7 DEF UnlinkReceipt, PoisonClient
<1>8. CASE \E s \in Servers : Crash(s)
  BY <1>8 DEF Crash
<1>9. CASE \E r \in Replies : \/ LoseReply(r) \/ ClaimInvalid(r) \/ Execute(r)
  BY <1>9, SMTT(20) DEF LoseReply, ClaimInvalid, Execute
<1>10. CASE \E r \in Replies, n \in Nonces : ClaimDirective(r, n)
  BY <1>10 DEF ClaimDirective, Vacate, Outstanding, Claimable, DeadBelow,
    PoisonFor
<1>11. CASE \E r \in Replies : ClaimNothing(r)
  BY <1>11 DEF ClaimNothing, Vacate, Outstanding, Claimable, PoisonFor
<1>12. CASE \E r \in Replies : \/ PublishReceipt(r) \/ RetireDirective(r)
                               \/ CommitCrash(r)
  BY <1>12 DEF PublishReceipt, RetireDirective, CommitCrash, Vacate
<1>13. CASE \E r \in Replies, c \in Clients : Spawn(r, c)
  BY <1>13 DEF Spawn
<1>14. CASE UNCHANGED vars
  BY <1>14 DEF vars
<1> QED
  BY <1>1, <1>2, <1>3, <1>4, <1>5, <1>6, <1>7, <1>8, <1>9, <1>10, <1>11,
    <1>12, <1>13, <1>14
    DEF Next, Handler, CommitProcess, Claim

(* Whoever poisons names a lost gesture or a dead server's.                *)
LEMMA JustifiedStep == StoreInv /\ [Next]_vars => PoisonJustified'
<1> SUFFICES ASSUME StoreInv, [Next]_vars PROVE PoisonJustified'
  OBVIOUS
<1> USE DistinctAssumption DEF StoreInv, TypeOK, Replies, PoisonJustified,
    Begun, Traceless, Unasked, Dead, Running
<1>1. CASE \E n \in Nonces, s \in Servers, c \in Clients : Begin(n, s, c)
  BY <1>1 DEF Begin
<1>2. CASE \E n \in Nonces : Arm(n)
  BY <1>2 DEF Arm, Vacate, Outstanding, Removable, Blocking
<1>3. CASE \E n \in Nonces : ArmRefused(n)
  BY <1>3 DEF ArmRefused, Vacate, Outstanding, Removable, Blocking, PoisonFor
<1>4. CASE \E n \in Nonces : \/ MarkCommitted(n) \/ EmitCommit(n)
                             \/ DiscardDirective(n)
  BY <1>4 DEF MarkCommitted, EmitCommit, DiscardDirective, Vacate
<1>5. CASE \E n \in Nonces : \/ DiscardReceipt(n) \/ TakeReceipt(n)
                             \/ NoReceiptYet(n)
  BY <1>5 DEF DiscardReceipt, TakeReceipt, NoReceiptYet
<1>6. CASE \E n \in Nonces : \/ ReadDirective(n) \/ TimeOut(n)
                             \/ RemoveExpired(n)
  BY <1>6 DEF ReadDirective, TimeOut, RemoveExpired, Vacate
<1>7. CASE \E n \in Nonces : \/ UnlinkReceipt(n) \/ PoisonClient(n)
  BY <1>7 DEF UnlinkReceipt, PoisonClient
<1>8. CASE \E s \in Servers : Crash(s)
  BY <1>8 DEF Crash
<1>9. CASE \E r \in Replies, n \in Nonces : ClaimDirective(r, n)
  BY <1>9 DEF ClaimDirective, Vacate, Outstanding, Claimable, DeadBelow,
    PoisonFor
<1>10. CASE \E r \in Replies : ClaimNothing(r)
  BY <1>10 DEF ClaimNothing, Vacate, Outstanding, Claimable, PoisonFor
<1>11. CASE \E r \in Replies, c \in Clients : Spawn(r, c)
  BY <1>11 DEF Spawn
<1>12. CASE
      \/ \E r \in Replies : \/ LoseReply(r) \/ ClaimInvalid(r) \/ Execute(r)
                            \/ PublishReceipt(r) \/ RetireDirective(r)
                            \/ CommitCrash(r)
  <2>1. UNCHANGED <<poison, pc, alive, owner, client>>
    BY <1>12 DEF LoseReply, ClaimInvalid, Execute, PublishReceipt,
      RetireDirective, CommitCrash
  <2> QED
    BY <2>1
<1>13. CASE UNCHANGED vars
  BY <1>13 DEF vars
<1> QED
  BY <1>1, <1>2, <1>3, <1>4, <1>5, <1>6, <1>7, <1>8, <1>9, <1>10, <1>11,
    <1>12, <1>13
    DEF Next, Handler, CommitProcess, Claim

-----------------------------------------------------------------------------
(* The base theorems: what holds however many relays feed a client.        *)

LEMMA StoreInit == Init => StoreInv
  BY DistinctAssumption
  DEF Init, StoreInv, TypeOK, Replies, HandlerStates, Running, Answered, ReplyStates,
      Begun, Traceless, Unasked, AtMostOneOutstanding, TargetPhase, TargetClaimed,
      TargetUnique, EffectsCounted, HandledIsDone, ReceiptPhase, Retired, PoisonJustified

LEMMA StoreStep == StoreInv /\ [Next]_vars => StoreInv'
  BY TypeStep, BegunStep, TracelessStep, UnaskedStep, UniqueStep, TargetPhaseStep,
     TargetClaimedStep, TargetUniqueStep, EffectsStep, HandledStep, ReceiptStep,
     RetiredStep, JustifiedStep DEF StoreInv

(* The store's inductive invariant holds in every reachable state.         *)
THEOREM StoreInvariant == Spec => []StoreInv
  BY StoreInit, StoreStep, PTL DEF Spec

(* Every variable keeps its type.                                          *)
THEOREM StoreTypeOK == Spec => []TypeOK
<1>1. StoreInv => TypeOK
  BY DEF StoreInv
<1> QED
  BY <1>1, StoreInvariant, PTL

(* Store::arm never leaves two directives for one physical client.         *)
THEOREM ArmIsExclusive == Spec => []AtMostOneOutstanding
<1>1. StoreInv => AtMostOneOutstanding
  BY DEF StoreInv
<1> QED
  BY <1>1, StoreInvariant, PTL

(* No gesture is executed twice, whatever replies and processes race.      *)
THEOREM ExecutionIsUnique == Spec => []ExecutedAtMostOnce
<1>1. StoreInv => ExecutedAtMostOnce
  BY DEF StoreInv, EffectsCounted, ExecutedAtMostOnce
<1> QED
  BY <1>1, StoreInvariant, PTL

(* handle_navigate answers "armed" only for an executed gesture.           *)
THEOREM ArmedIsHandled == Spec => []ArmedMeansHandled
<1>1. StoreInv => ArmedMeansHandled
  BY DEF StoreInv, HandledIsDone, ArmedMeansHandled
<1> QED
  BY <1>1, StoreInvariant, PTL

(* An answered gesture leaves a directive behind only in the hands of the  *)
(* commit process that claimed it.                                         *)
THEOREM AnswersLeaveNothing == Spec => []NoStrandedDirective
<1>1. StoreInv => NoStrandedDirective
  BY DEF StoreInv, Retired, Stranded, NoStrandedDirective
<1> QED
  BY <1>1, StoreInvariant, PTL

(* Poison is only spread for a timeout or for a dead relay server.         *)
THEOREM PoisonIsJustified == Spec => []PoisonJustified
<1>1. StoreInv => PoisonJustified
  BY DEF StoreInv
<1> QED
  BY <1>1, StoreInvariant, PTL

-----------------------------------------------------------------------------
(* When each client is fed by one relay server and every reply answers a   *)
(* query of the store, a reply can only execute its own gesture.           *)

SoleFeeder ==
  \A s, t \in Servers, c \in Clients : <<s, c>> \in Routes /\ <<t, c>> \in Routes => s = t

(* A request's server displays on its client; a running one is alive.      *)
Routed ==
  \A n \in Nonces :
    /\ pc[n] # "idle" => <<owner[n], client[n]>> \in Routes
    /\ pc[n] \in Running => owner[n] \in alive

(* The order gate lets one handler of a server run at a time.              *)
Serial ==
  \A m, n \in Nonces :
    pc[m] \in Running /\ pc[n] \in Running /\ owner[m] = owner[n] => m = n

(* While its server lives, an unclaimed directive has a handler waiting.   *)
Attended ==
  \A n \in Nonces :
    /\ dir[n] = "prepared" =>
         reply[n] = "quiet" /\ (pc[n] \in {"commit", "discard"} \/ Dead(n))
    /\ dir[n] = "ready" =>
         pc[n] \in {"emit", "take", "read", "wait", "remove", "discard"} \/ Dead(n)
    /\ pc[n] = "emit" => dir[n] = "ready"
    /\ pc[n] \in {"take", "read", "wait", "remove"} => dir[n] # "prepared"

(* While a handler is past Store::arm, it has the client to itself.        *)
Alone ==
  \A m, n \in Nonces :
    pc[n] \in Running \ {"arm"} /\ client[m] = client[n] /\ m # n => dir[m] = "absent"

SoleInv ==
  /\ StoreInv
  /\ Routed
  /\ Serial
  /\ Attended
  /\ Alone
  /\ PoisonClosesClient
  /\ LateReplyGuarded
  /\ OwnReply

(* Begin picks the client by the route, a crash ends what runs.            *)
LEMMA RoutedStep ==
  ASSUME SoleFeeder, Strays = {}, SoleInv, [Next]_vars
  PROVE  Routed'
<1> USE DistinctAssumption DEF SoleInv, StoreInv, TypeOK, Replies, Routed,
    Running, Begun, Unasked
<1>1. CASE \E n \in Nonces, s \in Servers, c \in Clients : Begin(n, s, c)
  BY <1>1 DEF Begin
<1>2. CASE \E n \in Nonces : Arm(n)
  BY <1>2 DEF Arm, Vacate, Outstanding, Removable, Blocking
<1>3. CASE \E n \in Nonces : ArmRefused(n)
  BY <1>3 DEF ArmRefused, Vacate, Outstanding, Removable, Blocking, PoisonFor
<1>4. CASE \E n \in Nonces : \/ MarkCommitted(n) \/ EmitCommit(n)
                             \/ DiscardDirective(n)
  BY <1>4 DEF MarkCommitted, EmitCommit, DiscardDirective, Vacate
<1>5. CASE \E n \in Nonces : \/ DiscardReceipt(n) \/ TakeReceipt(n)
                             \/ NoReceiptYet(n)
  BY <1>5 DEF DiscardReceipt, TakeReceipt, NoReceiptYet
<1>6. CASE \E n \in Nonces : \/ ReadDirective(n) \/ TimeOut(n)
                             \/ RemoveExpired(n)
  BY <1>6 DEF ReadDirective, TimeOut, RemoveExpired, Vacate
<1>7. CASE \E n \in Nonces : \/ UnlinkReceipt(n) \/ PoisonClient(n)
  BY <1>7 DEF UnlinkReceipt, PoisonClient
<1>8. CASE \E s \in Servers : Crash(s)
  BY <1>8 DEF Crash
<1>9. CASE \E r \in Replies, c \in Clients : Spawn(r, c)
  BY <1>9 DEF Spawn
<1>10. CASE
      \/ \E r \in Replies : \/ LoseReply(r) \/ ClaimNothing(r)
                            \/ ClaimInvalid(r) \/ Execute(r)
                            \/ PublishReceipt(r) \/ RetireDirective(r)
                            \/ CommitCrash(r)
      \/ \E r \in Replies, n \in Nonces : ClaimDirective(r, n)
  <2>1. UNCHANGED <<pc, owner, client, alive>>
    BY <1>10 DEF LoseReply, ClaimDirective, ClaimNothing, ClaimInvalid,
      Execute, PublishReceipt, RetireDirective, CommitCrash
  <2> QED
    BY <2>1
<1>11. CASE UNCHANGED vars
  BY <1>11 DEF vars
<1> QED
  BY <1>1, <1>2, <1>3, <1>4, <1>5, <1>6, <1>7, <1>8, <1>9, <1>10, <1>11
    DEF Next, Handler, CommitProcess, Claim

(* Begin waits for the handler before it; nothing else starts one.         *)
LEMMA SerialStep ==
  ASSUME SoleFeeder, Strays = {}, SoleInv, [Next]_vars
  PROVE  Serial'
<1> USE DistinctAssumption DEF SoleInv, StoreInv, TypeOK, Replies, Serial,
    Running
<1>1. CASE \E n \in Nonces, s \in Servers, c \in Clients : Begin(n, s, c)
  BY <1>1 DEF Begin
<1>2. CASE \E n \in Nonces : Arm(n)
  BY <1>2 DEF Arm, Vacate, Outstanding, Removable, Blocking
<1>3. CASE \E n \in Nonces : ArmRefused(n)
  BY <1>3 DEF ArmRefused, Vacate, Outstanding, Removable, Blocking, PoisonFor
<1>4. CASE \E n \in Nonces : \/ MarkCommitted(n) \/ EmitCommit(n)
                             \/ DiscardDirective(n)
  BY <1>4 DEF MarkCommitted, EmitCommit, DiscardDirective, Vacate
<1>5. CASE \E n \in Nonces : \/ DiscardReceipt(n) \/ TakeReceipt(n)
                             \/ NoReceiptYet(n)
  BY <1>5 DEF DiscardReceipt, TakeReceipt, NoReceiptYet
<1>6. CASE \E n \in Nonces : \/ ReadDirective(n) \/ TimeOut(n)
                             \/ RemoveExpired(n)
  BY <1>6 DEF ReadDirective, TimeOut, RemoveExpired, Vacate
<1>7. CASE \E n \in Nonces : \/ UnlinkReceipt(n) \/ PoisonClient(n)
  BY <1>7 DEF UnlinkReceipt, PoisonClient
<1>8. CASE \E s \in Servers : Crash(s)
  BY <1>8 DEF Crash
<1>9. CASE
      \/ \E r \in Replies : \/ LoseReply(r) \/ ClaimNothing(r)
                            \/ ClaimInvalid(r) \/ Execute(r)
                            \/ PublishReceipt(r) \/ RetireDirective(r)
                            \/ CommitCrash(r)
      \/ \E r \in Replies, n \in Nonces : ClaimDirective(r, n)
      \/ \E r \in Replies, c \in Clients : Spawn(r, c)
  <2>1. UNCHANGED <<pc, owner>>
    BY <1>9 DEF LoseReply, ClaimDirective, ClaimNothing, ClaimInvalid,
      Execute, PublishReceipt, RetireDirective, CommitCrash, Spawn
  <2> QED
    BY <2>1
<1>10. CASE UNCHANGED vars
  BY <1>10 DEF vars
<1> QED
  BY <1>1, <1>2, <1>3, <1>4, <1>5, <1>6, <1>7, <1>8, <1>9, <1>10
    DEF Next, Handler, CommitProcess, Claim

(* The claim a reply makes is of its own directive.                        *)
LEMMA OwnReplyStep ==
  ASSUME SoleFeeder, Strays = {}, SoleInv, [Next]_vars
  PROVE  OwnReply'
<1> USE DistinctAssumption DEF SoleInv, StoreInv, TypeOK, Replies, OwnReply
<1>1. CASE \E r \in Replies, n \in Nonces : ClaimDirective(r, n)
  <2> PICK r \in Nonces, n \in Nonces : ClaimDirective(r, n)
    BY <1>1
  <2>1. n \in Claimable(client[r]) /\ reply[r] = "spawned"
    BY DEF ClaimDirective
  <2>2. client[n] = client[r] /\ dir[n] = "ready" /\ ~ Dead(n)
    BY <2>1 DEF Claimable, Outstanding
  <2>3. pc[n] \in Running /\ pc[n] # "unlink" /\ pc[n] # "poison"
    BY <2>2 DEF Attended, Running
  <2>4. pc[r] # "idle" /\ pc[n] # "idle"
    BY <2>1, <2>3 DEF Unasked, Running
  <2>5. owner[n] = owner[r]
    BY <2>2, <2>4 DEF Routed, SoleFeeder, Begun
  <2>6. n = r
    <3>1. CASE dir[r] \in {"ready", "claimed"}
      BY <3>1, <2>2 DEF AtMostOneOutstanding
    <3>2. CASE client[r] \in poison
      BY <3>2, <2>2 DEF PoisonClosesClient
    <3>3. CASE pc[r] \in {"unlink", "poison"}
      BY <3>3, <2>3, <2>5 DEF Serial, Running
    <3>4. CASE Dead(r)
      BY <3>4, <2>2, <2>5 DEF Dead
    <3> QED
      BY <2>1, <3>1, <3>2, <3>3, <3>4 DEF LateReplyGuarded
  <2> QED
    BY <2>6 DEF ClaimDirective, OwnReply
<1>2. CASE
      \/ \E n \in Nonces : \/ Arm(n) \/ ArmRefused(n) \/ MarkCommitted(n)
                           \/ EmitCommit(n) \/ DiscardDirective(n)
                           \/ DiscardReceipt(n) \/ TakeReceipt(n)
                           \/ NoReceiptYet(n) \/ ReadDirective(n)
                           \/ TimeOut(n) \/ RemoveExpired(n)
                           \/ UnlinkReceipt(n) \/ PoisonClient(n)
      \/ \E r \in Replies : \/ LoseReply(r) \/ ClaimNothing(r)
                            \/ ClaimInvalid(r) \/ Execute(r)
                            \/ PublishReceipt(r) \/ RetireDirective(r)
                            \/ CommitCrash(r)
      \/ \E n \in Nonces, s \in Servers, c \in Clients : Begin(n, s, c)
      \/ \E s \in Servers : Crash(s)
      \/ \E r \in Replies, c \in Clients : Spawn(r, c)
  <2>1. UNCHANGED <<target>>
    BY <1>2 DEF Begin, Arm, ArmRefused, MarkCommitted, EmitCommit,
      DiscardDirective, DiscardReceipt, TakeReceipt, NoReceiptYet,
      ReadDirective, TimeOut, RemoveExpired, UnlinkReceipt, PoisonClient,
      Crash, LoseReply, ClaimNothing, ClaimInvalid, Execute, PublishReceipt,
      RetireDirective, CommitCrash, Spawn
  <2> QED
    BY <2>1
<1>3. CASE UNCHANGED vars
  BY <1>3 DEF vars
<1> QED
  BY <1>1, <1>2, <1>3
    DEF Next, Handler, CommitProcess, Claim

(* Handlers leave an unclaimed directive only by removing it.              *)
LEMMA AttendedStep ==
  ASSUME SoleFeeder, Strays = {}, SoleInv, [Next]_vars
  PROVE  Attended'
<1> USE DistinctAssumption DEF SoleInv, StoreInv, TypeOK, Replies, Attended,
    Dead, Routed, OwnReply, Running, Unasked, Traceless, TargetClaimed,
    ReceiptPhase, TargetPhase
<1>1. CASE \E n \in Nonces, s \in Servers, c \in Clients : Begin(n, s, c)
  BY <1>1 DEF Begin
<1>2. CASE \E n \in Nonces : Arm(n)
  BY <1>2 DEF Arm, Vacate, Outstanding, Removable, Blocking
<1>3. CASE \E n \in Nonces : ArmRefused(n)
  <2>1. \A m \in Nonces :
          dir'[m] = dir[m] \/ (dir'[m] = "absent" /\ (dir[m] = "prepared" \/ Dead(m)))
    BY <1>3 DEF ArmRefused, Vacate, Outstanding, Removable, Blocking
  <2>2. PICK n \in Nonces :
          /\ pc[n] = "arm"
          /\ pc' = [pc EXCEPT ![n] = "refused"]
          /\ UNCHANGED <<reply, owner, alive>>
    BY <1>3 DEF ArmRefused
  <2>3. dir[n] = "absent" /\ dir'[n] = "absent" /\ pc'[n] = "refused"
    BY <2>1, <2>2
  <2>4. \A m \in Nonces : m # n => pc'[m] = pc[m]
    BY <2>2
  <2>5. \A m \in Nonces : pc[m] = "emit" => ~ Dead(m) /\ dir'[m] = "ready"
    <3> SUFFICES ASSUME NEW m \in Nonces, pc[m] = "emit"
                 PROVE  ~ Dead(m) /\ dir'[m] = "ready"
      OBVIOUS
    <3>1. dir[m] = "ready"
      BY DEF Attended
    <3>2. owner[m] \in alive
      BY DEF Routed
    <3> QED
      BY <3>1, <3>2, <2>1
  <2> SUFFICES ASSUME NEW m \in Nonces
               PROVE  /\ dir'[m] = "prepared" =>
                           reply[m] = "quiet" /\ (pc'[m] \in {"commit", "discard"} \/ Dead(m))
                      /\ dir'[m] = "ready" =>
                           pc'[m] \in {"emit", "take", "read", "wait", "remove", "discard"} \/ Dead(m)
                      /\ pc'[m] = "emit" => dir'[m] = "ready"
                      /\ pc'[m] \in {"take", "read", "wait", "remove"} => dir'[m] # "prepared"
    BY <2>2
  <2> QED
    BY <2>1, <2>2, <2>3, <2>4, <2>5
<1>4. CASE \E n \in Nonces : \/ MarkCommitted(n) \/ EmitCommit(n)
                             \/ DiscardDirective(n)
  BY <1>4 DEF MarkCommitted, EmitCommit, DiscardDirective, Vacate
<1>5. CASE \E n \in Nonces : \/ DiscardReceipt(n) \/ TakeReceipt(n)
                             \/ NoReceiptYet(n)
  BY <1>5 DEF DiscardReceipt, TakeReceipt, NoReceiptYet
<1>6. CASE \E n \in Nonces : \/ ReadDirective(n) \/ TimeOut(n)
                             \/ RemoveExpired(n)
  BY <1>6 DEF ReadDirective, TimeOut, RemoveExpired, Vacate
<1>7. CASE \E n \in Nonces : \/ UnlinkReceipt(n) \/ PoisonClient(n)
  BY <1>7 DEF UnlinkReceipt, PoisonClient
<1>8. CASE \E s \in Servers : Crash(s)
  BY <1>8 DEF Crash
<1>9. CASE \E r \in Replies : \/ LoseReply(r) \/ ClaimInvalid(r) \/ Execute(r)
  BY <1>9 DEF LoseReply, ClaimInvalid, Execute
<1>10. CASE \E r \in Replies, n \in Nonces : ClaimDirective(r, n)
  <2> PICK r \in Nonces, n \in Nonces : ClaimDirective(r, n)
    BY <1>10
  <2>1. n = r
    <3>1. OwnReply'
      BY OwnReplyStep
    <3> QED
      BY <3>1 DEF ClaimDirective, OwnReply
  <2>2. \A m \in Nonces :
          m # n => dir'[m] = dir[m] \/ (dir'[m] = "absent" /\ Dead(m))
    BY DEF ClaimDirective, Vacate, DeadBelow, Outstanding
  <2>3. dir'[n] = "claimed" /\ pc[n] # "emit"
    BY <2>1 DEF ClaimDirective, Vacate
  <2>4. /\ reply[r] = "spawned"
        /\ reply' = [reply EXCEPT ![r] = "claimed"]
        /\ UNCHANGED <<pc, owner, alive>>
    BY DEF ClaimDirective
  <2> HIDE DEF TargetClaimed, ReceiptPhase, OwnReply
  <2> QED
    BY <2>1, <2>2, <2>3, <2>4, ZenonT(30)
<1>11. CASE \E r \in Replies : ClaimNothing(r)
  <2>1. \A m \in Nonces : dir'[m] = dir[m] \/ (dir'[m] = "absent" /\ Dead(m))
    BY <1>11 DEF ClaimNothing, Vacate, Outstanding
  <2>2. PICK r \in Replies :
          /\ reply[r] = "spawned"
          /\ reply' = [reply EXCEPT ![r] = "done"]
          /\ UNCHANGED <<pc, owner, alive>>
    BY <1>11 DEF ClaimNothing
  <2> HIDE DEF TargetClaimed, ReceiptPhase, OwnReply
  <2> QED
    BY <2>1, <2>2, ZenonT(30)
<1>12. CASE \E r \in Replies : \/ PublishReceipt(r) \/ RetireDirective(r)
                               \/ CommitCrash(r)
  BY <1>12 DEF PublishReceipt, RetireDirective, CommitCrash, Vacate
<1>13. CASE \E r \in Replies, c \in Clients : Spawn(r, c)
  BY <1>13 DEF Spawn
<1>14. CASE UNCHANGED vars
  BY <1>14 DEF vars
<1> QED
  BY <1>1, <1>2, <1>3, <1>4, <1>5, <1>6, <1>7, <1>8, <1>9, <1>10, <1>11,
    <1>12, <1>13, <1>14
    DEF Next, Handler, CommitProcess, Claim

(* Nobody else can arm for the client of a running handler.                *)
LEMMA AloneStep ==
  ASSUME SoleFeeder, Strays = {}, SoleInv, [Next]_vars
  PROVE  Alone'
<1> USE DistinctAssumption DEF SoleInv, StoreInv, TypeOK, Replies, Alone,
    Running, Traceless, Begun, Unasked
<1>1. CASE \E n \in Nonces, s \in Servers, c \in Clients : Begin(n, s, c)
  BY <1>1 DEF Begin, Routed, Serial, SoleFeeder
<1>2. CASE \E n \in Nonces : Arm(n)
  <2> PICK n \in Nonces : Arm(n)
    BY <1>2
  <2>1. \A m \in Nonces : client[m] = client[n] => m = n \/ dir'[m] = "absent"
    BY DEF Arm, Vacate, Outstanding, Removable, Blocking
  <2>2. \A k \in Nonces : client[k] = client[n] /\ pc[k] \in Running => k = n
    <3> SUFFICES ASSUME NEW k \in Nonces, client[k] = client[n], pc[k] \in Running
                 PROVE  k = n
      OBVIOUS
    <3>1. pc[k] # "idle" /\ pc[n] = "arm"
      BY DEF Arm, Running
    <3>2. owner[k] = owner[n]
      BY <3>1 DEF Routed, SoleFeeder, Begun
    <3> QED
      BY <3>1, <3>2 DEF Serial, Running
  <2>3. \A m \in Nonces : dir'[m] # "absent" => dir[m] # "absent" \/ m = n
    BY DEF Arm, Vacate
  <2>4. client' = client /\ pc' = [pc EXCEPT ![n] = "commit"] /\ pc[n] = "arm"
    BY DEF Arm
  <2> QED
    BY <2>1, <2>2, <2>3, <2>4 DEF Alone, Running
<1>3. CASE \E n \in Nonces : ArmRefused(n)
  BY <1>3 DEF ArmRefused, Vacate, Outstanding, Removable, Blocking, PoisonFor
<1>4. CASE \E n \in Nonces : \/ MarkCommitted(n) \/ EmitCommit(n)
                             \/ DiscardDirective(n)
  BY <1>4 DEF MarkCommitted, EmitCommit, DiscardDirective, Vacate
<1>5. CASE \E n \in Nonces : \/ DiscardReceipt(n) \/ TakeReceipt(n)
                             \/ NoReceiptYet(n)
  BY <1>5 DEF DiscardReceipt, TakeReceipt, NoReceiptYet
<1>6. CASE \E n \in Nonces : \/ ReadDirective(n) \/ TimeOut(n)
                             \/ RemoveExpired(n)
  BY <1>6 DEF ReadDirective, TimeOut, RemoveExpired, Vacate
<1>7. CASE \E n \in Nonces : \/ UnlinkReceipt(n) \/ PoisonClient(n)
  BY <1>7 DEF UnlinkReceipt, PoisonClient
<1>8. CASE \E s \in Servers : Crash(s)
  BY <1>8 DEF Crash
<1>9. CASE \E r \in Replies, n \in Nonces : ClaimDirective(r, n)
  BY <1>9 DEF ClaimDirective, Vacate, Outstanding, Claimable, DeadBelow,
    PoisonFor
<1>10. CASE \E r \in Replies : ClaimNothing(r)
  BY <1>10 DEF ClaimNothing, Vacate, Outstanding, Claimable, PoisonFor
<1>11. CASE \E r \in Replies : RetireDirective(r)
  BY <1>11 DEF RetireDirective, Vacate
<1>12. CASE \E r \in Replies, c \in Clients : Spawn(r, c)
  BY <1>12 DEF Spawn
<1>13. CASE
      \/ \E r \in Replies : \/ LoseReply(r) \/ ClaimInvalid(r) \/ Execute(r)
                            \/ PublishReceipt(r) \/ CommitCrash(r)
  <2>1. UNCHANGED <<pc, dir, client, owner>>
    BY <1>13 DEF LoseReply, ClaimInvalid, Execute, PublishReceipt, CommitCrash
  <2> QED
    BY <2>1
<1>14. CASE UNCHANGED vars
  BY <1>14 DEF vars
<1> QED
  BY <1>1, <1>2, <1>3, <1>4, <1>5, <1>6, <1>7, <1>8, <1>9, <1>10, <1>11,
    <1>12, <1>13, <1>14
    DEF Next, Handler, CommitProcess, Claim

(* Poison finds nothing outstanding, and Arm refuses from then on.         *)
LEMMA PoisonStep ==
  ASSUME SoleFeeder, Strays = {}, SoleInv, [Next]_vars
  PROVE  PoisonClosesClient'
<1> USE DistinctAssumption DEF SoleInv, StoreInv, TypeOK, Replies,
    PoisonClosesClient, Begun, Unasked, Alone, Retired, Traceless,
    AtMostOneOutstanding, Running, Attended, Dead
<1>1. CASE \E n \in Nonces, s \in Servers, c \in Clients : Begin(n, s, c)
  BY <1>1 DEF Begin
<1>2. CASE \E n \in Nonces : Arm(n)
  BY <1>2 DEF Arm, Vacate, Outstanding, Removable, Blocking
<1>3. CASE \E n \in Nonces : ArmRefused(n)
  BY <1>3 DEF ArmRefused, Vacate, Outstanding, Removable, Blocking, PoisonFor
<1>4. CASE \E n \in Nonces : \/ MarkCommitted(n) \/ DiscardDirective(n)
                             \/ RemoveExpired(n)
  BY <1>4 DEF MarkCommitted, DiscardDirective, RemoveExpired, Vacate
<1>5. CASE \E n \in Nonces : PoisonClient(n)
  BY <1>5 DEF PoisonClient
<1>6. CASE \E r \in Replies, n \in Nonces : ClaimDirective(r, n)
  BY <1>6 DEF ClaimDirective, Vacate, Outstanding, Claimable, DeadBelow,
    PoisonFor
<1>7. CASE \E r \in Replies : ClaimNothing(r)
  BY <1>7 DEF ClaimNothing, Vacate, Outstanding, Claimable, PoisonFor
<1>8. CASE \E r \in Replies : RetireDirective(r)
  BY <1>8 DEF RetireDirective, Vacate
<1>9. CASE \E r \in Replies, c \in Clients : Spawn(r, c)
  BY <1>9 DEF Spawn
<1>10. CASE
      \/ \E n \in Nonces : \/ EmitCommit(n) \/ DiscardReceipt(n)
                           \/ TakeReceipt(n) \/ NoReceiptYet(n)
                           \/ ReadDirective(n) \/ TimeOut(n)
                           \/ UnlinkReceipt(n)
      \/ \E r \in Replies : \/ LoseReply(r) \/ ClaimInvalid(r) \/ Execute(r)
                            \/ PublishReceipt(r) \/ CommitCrash(r)
      \/ \E s \in Servers : Crash(s)
  <2>1. UNCHANGED <<poison, dir, client>>
    BY <1>10 DEF EmitCommit, DiscardReceipt, TakeReceipt, NoReceiptYet,
      ReadDirective, TimeOut, UnlinkReceipt, Crash, LoseReply, ClaimInvalid,
      Execute, PublishReceipt, CommitCrash
  <2> QED
    BY <2>1
<1>11. CASE UNCHANGED vars
  BY <1>11 DEF vars
<1> QED
  BY <1>1, <1>2, <1>3, <1>4, <1>5, <1>6, <1>7, <1>8, <1>9, <1>10, <1>11
    DEF Next, Handler, CommitProcess, Claim

(* A late reply finds its own directive, or a client that is closed.       *)
LEMMA GuardedStep ==
  ASSUME SoleFeeder, Strays = {}, SoleInv, [Next]_vars
  PROVE  LateReplyGuarded'
<1> USE DistinctAssumption DEF SoleInv, StoreInv, TypeOK, Replies,
    LateReplyGuarded, Begun, Attended, Unasked, Traceless, OwnReply,
    TargetPhase, Dead, Running, AtMostOneOutstanding
<1>1. CASE \E n \in Nonces, s \in Servers, c \in Clients : Begin(n, s, c)
  BY <1>1 DEF Begin
<1>2. CASE \E n \in Nonces : Arm(n)
  BY <1>2 DEF Arm, Vacate, Outstanding, Removable, Blocking
<1>3. CASE \E n \in Nonces : ArmRefused(n)
  BY <1>3 DEF ArmRefused, Vacate, Outstanding, Removable, Blocking, PoisonFor
<1>4. CASE \E n \in Nonces : \/ MarkCommitted(n) \/ EmitCommit(n)
                             \/ DiscardDirective(n)
  BY <1>4 DEF MarkCommitted, EmitCommit, DiscardDirective, Vacate
<1>5. CASE \E n \in Nonces : \/ DiscardReceipt(n) \/ TakeReceipt(n)
                             \/ NoReceiptYet(n)
  BY <1>5 DEF DiscardReceipt, TakeReceipt, NoReceiptYet
<1>6. CASE \E n \in Nonces : \/ ReadDirective(n) \/ TimeOut(n)
                             \/ RemoveExpired(n)
  BY <1>6 DEF ReadDirective, TimeOut, RemoveExpired, Vacate
<1>7. CASE \E n \in Nonces : \/ UnlinkReceipt(n) \/ PoisonClient(n)
  BY <1>7 DEF UnlinkReceipt, PoisonClient
<1>8. CASE \E s \in Servers : Crash(s)
  BY <1>8 DEF Crash
<1>9. CASE \E r \in Replies : \/ LoseReply(r) \/ ClaimInvalid(r) \/ Execute(r)
  BY <1>9 DEF LoseReply, ClaimInvalid, Execute
<1>10. CASE \E r \in Replies, n \in Nonces : ClaimDirective(r, n)
  BY <1>10 DEF ClaimDirective, Vacate, Outstanding, Claimable, DeadBelow,
    PoisonFor
<1>11. CASE \E r \in Replies : ClaimNothing(r)
  BY <1>11 DEF ClaimNothing, Vacate, Outstanding, Claimable, PoisonFor
<1>12. CASE \E r \in Replies : \/ PublishReceipt(r) \/ RetireDirective(r)
                               \/ CommitCrash(r)
  BY <1>12 DEF PublishReceipt, RetireDirective, CommitCrash, Vacate
<1>13. CASE \E r \in Replies, c \in Clients : Spawn(r, c)
  BY <1>13 DEF Spawn
<1>14. CASE UNCHANGED vars
  BY <1>14 DEF vars
<1> QED
  BY <1>1, <1>2, <1>3, <1>4, <1>5, <1>6, <1>7, <1>8, <1>9, <1>10, <1>11,
    <1>12, <1>13, <1>14
    DEF Next, Handler, CommitProcess, Claim

LEMMA SoleInit == Init => SoleInv
  BY StoreInit, DistinctAssumption
  DEF Init, SoleInv, Replies, Routed, Serial, Attended, Alone, PoisonClosesClient,
      LateReplyGuarded, OwnReply, Running

LEMMA SoleStep ==
  ASSUME SoleFeeder, Strays = {}, SoleInv, [Next]_vars
  PROVE  SoleInv'
<1>1. StoreInv'
  BY StoreStep DEF SoleInv
<1> QED
  BY <1>1, RoutedStep, SerialStep, AttendedStep, AloneStep, PoisonStep, GuardedStep,
     OwnReplyStep DEF SoleInv

(* With one relay server per client and no stray reply, a terminal reply   *)
(* never executes another gesture than its own, however late it arrives.   *)
THEOREM LateRepliesAreHarmless ==
  ASSUME SoleFeeder, Strays = {}
  PROVE  Spec => [](OwnReply /\ LateReplyGuarded /\ PoisonClosesClient)
<1>1. SoleInv /\ [Next]_vars => SoleInv'
  BY SoleStep
<1>2. SoleInv => OwnReply /\ LateReplyGuarded /\ PoisonClosesClient
  BY DEF SoleInv
<1> QED
  BY <1>1, <1>2, SoleInit, PTL DEF Spec

-----------------------------------------------------------------------------
(* Refinement: under the same assumptions the store keeps the promise.     *)

LEMMA PromiseInit == Init => Promise!GestureInit
  BY DistinctAssumption DEF Init, Promise!GestureInit, AnswerOf, Answered, Replies

LEMMA PromiseStep ==
  ASSUME Strays = {}, SoleInv, [Next]_vars
  PROVE  [Promise!GestureNext]_(Promise!gestureVars)
<1> DEFINE asked == {n \in Nonces : reply[n] # "quiet"}
           answer == [n \in Nonces |-> AnswerOf(n)]
<1> USE DEF SoleInv, StoreInv, TypeOK, Replies
<1>1. \A n \in Nonces : answer[n] = AnswerOf(n) /\ answer'[n] = AnswerOf(n)'
  OBVIOUS
<1>2. ASSUME UNCHANGED <<reply, effects>>, UNCHANGED answer
      PROVE  UNCHANGED Promise!gestureVars
  BY <1>2 DEF Promise!gestureVars
<1>3. ASSUME NEW n \in Nonces, UNCHANGED <<reply, effects>>,
             AnswerOf(n) = "none", AnswerOf(n)' = "error",
             \A m \in Nonces \ {n} : pc'[m] = pc[m]
      PROVE  Promise!GestureNext
  <2>1. answer' = [answer EXCEPT ![n] = "error"]
    BY <1>3 DEF AnswerOf
  <2> QED
    BY <1>3, <2>1 DEF Promise!GestureNext, Promise!AnswerError
<1>4. ASSUME NEW n \in Nonces, UNCHANGED <<reply, effects>>,
             AnswerOf(n)' = AnswerOf(n),
             \A m \in Nonces \ {n} : pc'[m] = pc[m]
      PROVE  UNCHANGED Promise!gestureVars
  <2>1. answer' = answer
    BY <1>4 DEF AnswerOf
  <2> QED
    BY <1>2, <1>4, <2>1
<1>5. ASSUME UNCHANGED <<pc, effects>>, asked' = asked
      PROVE  UNCHANGED Promise!gestureVars
  BY <1>5 DEF Promise!gestureVars, AnswerOf
<1>6. CASE \E n \in Nonces, s \in Servers, c \in Clients : Begin(n, s, c)
  BY <1>4, <1>6 DEF Begin, AnswerOf, Answered
<1>7. CASE \E n \in Nonces : \/ Arm(n) \/ MarkCommitted(n) \/ DiscardDirective(n)
                             \/ NoReceiptYet(n) \/ TimeOut(n) \/ RemoveExpired(n)
                             \/ UnlinkReceipt(n)
  BY <1>4, <1>7 DEF Arm, MarkCommitted, DiscardDirective, NoReceiptYet, TimeOut,
     RemoveExpired, UnlinkReceipt, AnswerOf, Answered
<1>8. CASE \E n \in Nonces : ArmRefused(n) \/ DiscardReceipt(n) \/ PoisonClient(n)
  BY <1>3, <1>8 DEF ArmRefused, DiscardReceipt, PoisonClient, AnswerOf, Answered
<1>9. CASE \E n \in Nonces : ReadDirective(n)
  <2> PICK n \in Nonces : ReadDirective(n)
    BY <1>9
  <2>1. CASE dir[n] = "absent"
    BY <1>3, <2>1 DEF ReadDirective, AnswerOf, Answered
  <2>2. CASE dir[n] # "absent"
    BY <1>4, <2>2 DEF ReadDirective, AnswerOf, Answered
  <2> QED
    BY <2>1, <2>2
<1>10. CASE \E n \in Nonces : TakeReceipt(n)
  <2> PICK n \in Nonces : TakeReceipt(n)
    BY <1>10
  <2>1. CASE receipt[n] = "handled"
    <3>1. answer' = [answer EXCEPT ![n] = "armed"]
      BY <2>1 DEF TakeReceipt, AnswerOf
    <3>2. answer[n] = "none" /\ effects[n] = 1
      BY <2>1 DEF TakeReceipt, AnswerOf, Answered, HandledIsDone
    <3> QED
      BY <3>1, <3>2 DEF TakeReceipt, Promise!GestureNext, Promise!AnswerArmed
  <2>2. CASE receipt[n] # "handled"
    BY <1>3, <2>2 DEF TakeReceipt, AnswerOf, Answered
  <2> QED
    BY <2>1, <2>2
<1>11. CASE \E n \in Nonces : EmitCommit(n)
  <2> PICK n \in Nonces : EmitCommit(n)
    BY <1>11
  <2>1. CASE UNCHANGED reply
    BY <1>4, <2>1 DEF EmitCommit, AnswerOf, Answered
  <2>2. CASE reply' = [reply EXCEPT ![n] = "inflight"] /\ pc' = [pc EXCEPT ![n] = "take"]
    <3>1. n \notin asked /\ asked' = asked \cup {n}
      BY <2>2 DEF EmitCommit, Unasked
    <3>2. answer[n] = "none" /\ answer' = answer
      BY <2>2 DEF EmitCommit, AnswerOf, Answered
    <3> QED
      BY <3>1, <3>2 DEF EmitCommit, Promise!GestureNext, Promise!Ask
  <2> QED
    BY <2>1, <2>2 DEF EmitCommit
<1>12. CASE \E s \in Servers : Crash(s)
  <2>1. answer' = answer
    BY <1>12 DEF Crash, AnswerOf, Answered, Running
  <2> QED
    BY <1>2, <1>12, <2>1 DEF Crash
<1>13. CASE \E r \in Replies : \/ LoseReply(r) \/ Claim(r) \/ ClaimInvalid(r)
                               \/ PublishReceipt(r) \/ RetireDirective(r)
                               \/ CommitCrash(r)
  <2>1. asked' = asked
    BY <1>13 DEF LoseReply, Claim, ClaimDirective, ClaimNothing, ClaimInvalid,
       PublishReceipt, RetireDirective, CommitCrash
  <2>2. UNCHANGED <<pc, effects>>
    BY <1>13 DEF LoseReply, Claim, ClaimDirective, ClaimNothing, ClaimInvalid,
       PublishReceipt, RetireDirective, CommitCrash
  <2> QED
    BY <1>5, <2>1, <2>2
<1>14. CASE \E r \in Replies, c \in Clients : Spawn(r, c)
  <2>1. asked' = asked
    BY <1>14 DEF Spawn
  <2> QED
    BY <1>5, <1>14, <2>1 DEF Spawn
<1>15. CASE \E r \in Replies : Execute(r)
  <2> PICK r \in Nonces : Execute(r)
    BY <1>15
  <2>1. target[r] = r
    BY DistinctAssumption DEF Execute, OwnReply, TargetPhase
  <2>2. r \in asked /\ asked' = asked
    BY DEF Execute
  <2>3. effects[r] = 0 /\ effects' = [effects EXCEPT ![r] = 1]
    <3>1. effects[r] = 0
      BY <2>1 DEF EffectsCounted, TargetUnique, Execute
    <3> QED
      BY <2>1, <3>1 DEF Execute
  <2>4. answer[r] \notin {"armed", "declined"} /\ answer' = answer
    BY <2>3 DEF Execute, AnswerOf, Answered, HandledIsDone
  <2> QED
    BY <2>2, <2>3, <2>4 DEF Promise!GestureNext, Promise!Move
<1>16. CASE UNCHANGED vars
  BY <1>5, <1>16 DEF vars
<1> QED
  BY <1>6, <1>7, <1>8, <1>9, <1>10, <1>11, <1>12, <1>13, <1>14, <1>15, <1>16
  DEF Next, Handler, CommitProcess

(* With one relay server per client and no stray reply, every request is   *)
(* served as Gesture promises.                                             *)
THEOREM StoreKeepsPromise ==
  ASSUME SoleFeeder, Strays = {}
  PROVE  Spec => PromiseKept
<1>1. SoleInv /\ [Next]_vars => SoleInv'
  BY SoleStep
<1>2. SoleInv /\ [Next]_vars => [Promise!GestureNext]_(Promise!gestureVars)
  BY PromiseStep
<1> QED
  BY <1>1, <1>2, SoleInit, PromiseInit, PTL DEF Spec, PromiseKept, Promise!GestureSpec
=============================================================================
