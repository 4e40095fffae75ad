-------------------------- MODULE WorkerPoolProofs --------------------------
(***************************************************************************)
(* Proofs about WorkerPool, for any number of threads, files, pids and     *)
(* stray deaths: type correctness, the ownership invariant behind the      *)
(* monitor's kills, that the pool implements ExtractionBatch, and that the *)
(* outcome of a file, and the verdict of the batch, depend on no schedule. *)
(***************************************************************************)
EXTENDS WorkerPool, TLAPS

-----------------------------------------------------------------------------
\* Type correctness.

LEMMA OutcomeIsAnOutcome ==
  ASSUME NEW answer \in Replying
  PROVE  Outcome(answer) \in Outcomes
  BY DEF Replying, Outcome, Outcomes

LEMMA ZeroIsAnItem == 0 \in Items
  BY PoolAssumption DEF Items

\* Pushing an outcome keeps the results vector and the thread's label typed.
LEMMA PushIsTyped ==
  ASSUME TypeOK, NEW t \in Threads, NEW o \in Outcomes, Push(t, o)
  PROVE  /\ results' \in [Items -> Seq(Outcomes)]
         /\ pc' \in [Threads -> Labels]
  BY DEF TypeOK, Push, Goto, Labels

USE DEF HasWork, FetchAdd, SetSlot, ClearSlot, Breached, AfterCheck

\* Every step keeps the ownership of processes in order.
LEMMA OwnershipStep ==
  ASSUME TypeOK, Ownership, [Next]_vars
  PROVE  Ownership'
<1> USE DEF TypeOK, threadVars, Labels, Working, Ownership, OwnershipOf,
            Exclusive, OwnedIffSpawned, ReadByOwner, JoinedIsDone
<1>1. ASSUME NEW t \in Threads, Claim(t) PROVE Ownership'
  <2>1. pc' = [pc EXCEPT ![t] = pc'[t]]
    BY <1>1 DEF Claim, Goto
  <2>2. pc'[t] \in {"clear", "session", "check"}
    BY <1>1 DEF Claim, Goto
  <2>3. pc'[t] = "session" => session[t] = NoPid
    BY <1>1 DEF Claim, Goto
  <2>4. pc'[t] = "check" => session[t] # NoPid
    BY <1>1 DEF Claim, Goto
  <2>5. pc[t] = "claim" /\ UNCHANGED <<registry, session, spare, process, reply, main>>
    BY <1>1 DEF Claim
  <2> QED BY <2>1, <2>2, <2>3, <2>4, <2>5, PoolAssumption
<1>2. ASSUME NEW t \in Threads, OpenSession(t) PROVE Ownership'
  BY <1>2, PoolAssumption DEF OpenSession, Goto
<1>3. ASSUME NEW t \in Threads, SpawnFails(t) PROVE Ownership'
  BY <1>3, PoolAssumption DEF SpawnFails, Push, Goto
<1>4. ASSUME NEW t \in Threads, Register(t) PROVE Ownership'
  BY <1>4, PoolAssumption DEF Register, Goto
<1>5. ASSUME NEW t \in Threads, DeadlineCheck(t) PROVE Ownership'
  BY <1>5, PoolAssumption DEF DeadlineCheck, Push, Goto
<1>6. ASSUME NEW t \in Threads, Send(t) PROVE Ownership'
  <2>1. CASE process[session[t]] = "dead"
    BY <1>6, <2>1, PoolAssumption DEF Send, Goto
  <2>2. CASE process[session[t]] # "dead"
    <3>1. session[t] \in Pids
      BY <1>6, PoolAssumption DEF Send
    <3>2. /\ process' = [process EXCEPT ![session[t]] = "busy"]
          /\ pc' = [pc EXCEPT ![t] = "read"]
          /\ pc[t] = "send"
          /\ UNCHANGED <<registry, session, spare, reply, main>>
      BY <1>6, <2>2 DEF Send, Goto
    <3>3. reply[session[t]] = "none"
      <4>1. SUFFICES ASSUME reply[session[t]] # "none" PROVE FALSE
        OBVIOUS
      <4>2. PICK u \in Threads : session[u] = session[t] /\ pc[u] = "read"
        BY <3>1, <4>1
      <4>3. u = t
        BY <3>1, <4>2, PoolAssumption
      <4> QED BY <3>2, <4>2, <4>3
    <3> QED BY <3>1, <3>2, <3>3, PoolAssumption
  <2> QED BY <2>1, <2>2
<1>7. ASSUME NEW t \in Threads, Read(t) PROVE Ownership'
  BY <1>7, PoolAssumption DEF Read, Push, Goto
<1>8. ASSUME NEW t \in Threads, ReadEof(t) PROVE Ownership'
  BY <1>8, PoolAssumption DEF ReadEof, Goto
<1>9. ASSUME NEW t \in Threads, Respawn(t) PROVE Ownership'
  BY <1>9, PoolAssumption DEF Respawn, Goto
<1>10. ASSUME NEW t \in Threads, Unslot(t) PROVE Ownership'
  BY <1>10, PoolAssumption DEF Unslot, Goto
<1>11. ASSUME NEW t \in Threads, ReplaceWorker(t) PROVE Ownership'
  BY <1>11, PoolAssumption DEF ReplaceWorker, Reap, Goto
<1>12. ASSUME NEW t \in Threads, Reslot(t) PROVE Ownership'
  <2>1. pc' = [pc EXCEPT ![t] = pc'[t]] /\ pc'[t] \in {"send", "claim"}
    BY <1>12 DEF Reslot, Push, Goto
  <2>2. /\ pc[t] = "reslot"
        /\ registry' = [registry EXCEPT ![t] = session[t]]
        /\ UNCHANGED <<session, spare, process, reply, main>>
    BY <1>12 DEF Reslot
  <2> QED BY <2>1, <2>2, PoolAssumption
<1>13. ASSUME NEW t \in Threads, DropSession(t) PROVE Ownership'
  <2>1. CASE session[t] = NoPid
    BY <1>13, <2>1, PoolAssumption DEF DropSession, Goto
  <2>2. CASE session[t] # NoPid
    <3>1. session[t] \in Pids
      BY <2>2
    <3>2. /\ process' = [process EXCEPT ![session[t]] = "free"]
          /\ reply' = [reply EXCEPT ![session[t]] = "none"]
          /\ session' = [session EXCEPT ![t] = NoPid]
          /\ pc' = [pc EXCEPT ![t] = "done"]
          /\ pc[t] = "drop"
          /\ UNCHANGED <<registry, spare, main>>
      BY <1>13, <2>2 DEF DropSession, Reap, Goto
    <3> QED BY <3>1, <3>2, PoolAssumption
  <2> QED BY <2>1, <2>2
<1>14. ASSUME NEW t \in Threads, WorkerReplies(t) PROVE Ownership'
  BY <1>14, PoolAssumption DEF WorkerReplies
<1>15. ASSUME NEW t \in Threads, WorkerCrashes(t) PROVE Ownership'
  BY <1>15, PoolAssumption DEF WorkerCrashes
<1>16. ASSUME NEW p \in Pids, StrayDeath(p) PROVE Ownership'
  BY <1>16, PoolAssumption DEF StrayDeath
<1>17. CASE KillAll
  <2>1. process' = [p \in Pids |->
                     IF \E t \in Threads : registry[t] = p THEN "dead"
                                                           ELSE process[p]]
    BY <1>17 DEF KillAll
  <2>2. UNCHANGED <<registry, threadVars, reply, main>>
    BY <1>17 DEF KillAll
  <2>3. \A p \in Pids : process[p] = "free" => process'[p] = "free"
    <3>1. \A t \in Threads : registry[t] # NoPid => process[registry[t]] # "free"
      OBVIOUS
    <3> QED BY <2>1, <3>1, PoolAssumption
  <2>4. \A p \in Pids : process[p] # "free" => process'[p] # "free"
    BY <2>1
  <2>5. \A p \in Pids : process'[p] = "busy" => process[p] = "busy"
    BY <2>1
  <2> QED BY <2>2, <2>3, <2>4, <2>5, PoolAssumption
<1>18. CASE Expire \/ JoinPool \/ MonitorExits \/ ReturnResults
  BY <1>18, PoolAssumption DEF Expire, JoinPool, MonitorExits, ReturnResults
<1>19. CASE Finished \/ UNCHANGED vars
  BY <1>19 DEF Finished, vars
<1> QED
  BY <1>1, <1>2, <1>3, <1>4, <1>5, <1>6, <1>7, <1>8, <1>9, <1>10, <1>11,
     <1>12, <1>13, <1>14, <1>15, <1>16, <1>17, <1>18, <1>19 DEF Next, ThreadStep

\* Every variable keeps its type: in particular no thread ever works on an
\* index outside the batch, and no handle or pipe leaves its domain.
THEOREM TypeCorrect == Spec => [](TypeOK /\ Ownership)
<1>1. Init => TypeOK
  <2> SUFFICES ASSUME Init PROVE TypeOK
    OBVIOUS
  <2>1. strays \in 0 .. MaxStrays
    <3>1. strays = 0
      BY DEF Init
    <3>2. MaxStrays \in Nat
      BY PoolAssumption
    <3> QED BY <3>1, <3>2
  <2>2. results \in [Items -> Seq(Outcomes)]
    <3>1. results = [i \in Items |-> <<>>]
      BY DEF Init
    <3>2. <<>> \in Seq(Outcomes)
      OBVIOUS
    <3> QED BY <3>1, <3>2
  <2>3. item \in [Threads -> Items]
    BY ZeroIsAnItem DEF Init
  <2> QED BY <2>1, <2>2, <2>3 DEF Init, TypeOK, Labels
<1>2. Init => Ownership
  BY PoolAssumption DEF Init, Ownership, OwnershipOf, Exclusive,
     OwnedIffSpawned, ReadByOwner, JoinedIsDone, Working
<1>3. TypeOK /\ Ownership /\ [Next]_vars => TypeOK' /\ Ownership'
  <2> SUFFICES ASSUME TypeOK, Ownership, [Next]_vars PROVE TypeOK'
    BY OwnershipStep
  <2> USE DEF TypeOK, threadVars
  <2>1. ASSUME NEW t \in Threads, Claim(t) PROVE TypeOK'
    <3>1. cursor' \in Nat
      BY <2>1 DEF Claim
    <3>2. item' \in [Threads -> Items] /\ attempt' \in [Threads -> {1, 2}]
      <4>1. WorkLen \in Nat
        BY PoolAssumption
      <4>2. HasWork => cursor \in Items
        BY <4>1 DEF Items
      <4> QED BY <2>1, <4>2 DEF Claim
    <3>3. pc' \in [Threads -> Labels]
      BY <2>1, ZenonT(40) DEF Claim, Goto, Labels
    <3> QED BY <2>1, <3>1, <3>2, <3>3 DEF Claim
  <2>2. ASSUME NEW t \in Threads, OpenSession(t) PROVE TypeOK'
    BY <2>2 DEF OpenSession, Goto, Labels
  <2>3. ASSUME NEW t \in Threads, SpawnFails(t) PROVE TypeOK'
    BY <2>3, PushIsTyped DEF SpawnFails, Outcomes
  <2>4. ASSUME NEW t \in Threads, Register(t) PROVE TypeOK'
    BY <2>4 DEF Register, Goto, Labels
  <2>5. ASSUME NEW t \in Threads, DeadlineCheck(t) PROVE TypeOK'
    <3>1. CASE Breached(t)
      BY <2>5, <3>1, PushIsTyped DEF DeadlineCheck, Outcomes
    <3>2. CASE ~Breached(t)
      BY <2>5, <3>2 DEF DeadlineCheck, Goto, Labels
    <3> QED BY <3>1, <3>2
  <2>6. ASSUME NEW t \in Threads, Send(t) PROVE TypeOK'
    BY <2>6 DEF Send, Goto, Labels
  <2>7. ASSUME NEW t \in Threads, Read(t) PROVE TypeOK'
    <3>1. reply[session[t]] \in Replying
      <4>1. session[t] \in Pids
        BY <2>7 DEF Read, Ownership, OwnershipOf, Working
      <4> QED BY <2>7, <4>1 DEF Read
    <3> QED BY <2>7, <3>1, PushIsTyped, OutcomeIsAnOutcome DEF Read
  <2>8. ASSUME NEW t \in Threads, ReadEof(t) PROVE TypeOK'
    BY <2>8 DEF ReadEof, Goto, Labels
  <2>9. ASSUME NEW t \in Threads, Respawn(t) PROVE TypeOK'
    BY <2>9 DEF Respawn, Goto, Labels
  <2>10. ASSUME NEW t \in Threads, Unslot(t) PROVE TypeOK'
    BY <2>10 DEF Unslot, Goto, Labels
  <2>11. ASSUME NEW t \in Threads, ReplaceWorker(t) PROVE TypeOK'
    BY <2>11 DEF ReplaceWorker, Reap, Goto, Labels
  <2>12. ASSUME NEW t \in Threads, Reslot(t) PROVE TypeOK'
    <3>1. CASE attempt[t] = 1
      BY <2>12, <3>1 DEF Reslot, Goto, Labels
    <3>2. CASE attempt[t] # 1
      BY <2>12, <3>2, PushIsTyped DEF Reslot, Outcomes
    <3> QED BY <3>1, <3>2
  <2>13. ASSUME NEW t \in Threads, DropSession(t) PROVE TypeOK'
    BY <2>13 DEF DropSession, Reap, Goto, Labels
  <2>14. ASSUME NEW t \in Threads, WorkerReplies(t) PROVE TypeOK'
    BY <2>14 DEF WorkerReplies
  <2>15. ASSUME NEW t \in Threads, WorkerCrashes(t) PROVE TypeOK'
    BY <2>15 DEF WorkerCrashes
  <2>16. ASSUME NEW p \in Pids, StrayDeath(p) PROVE TypeOK'
    BY <2>16, PoolAssumption DEF StrayDeath
  <2>17. CASE Expire \/ KillAll \/ JoinPool \/ MonitorExits \/ ReturnResults
    BY <2>17 DEF Expire, KillAll, JoinPool, MonitorExits, ReturnResults
  <2>18. CASE Finished \/ UNCHANGED vars
    BY <2>18 DEF Finished, vars
  <2> QED
    BY <2>1, <2>2, <2>3, <2>4, <2>5, <2>6, <2>7, <2>8, <2>9, <2>10, <2>11,
       <2>12, <2>13, <2>14, <2>15, <2>16, <2>17, <2>18 DEF Next, ThreadStep
<1> QED BY <1>1, <1>2, <1>3, PTL DEF Spec

-----------------------------------------------------------------------------
\* What the ownership invariant gives the monitor and the operating system.

\* `kill_all` only ever signals a process its owner has not reaped (HandlesAreLive).
THEOREM KillsHitOwnWorkers == Spec => []HandlesAreLive
<1>1. TypeOK /\ Ownership => HandlesAreLive
  BY PoolAssumption
  DEF TypeOK, Ownership, OwnershipOf, OwnedIffSpawned, HandlesAreLive
<1> QED BY <1>1, TypeCorrect, PTL

\* A worker that can block its thread is registered, so the monitor reaches it.
THEOREM BlockedReadsAreReachable == Spec => []BusyIsKillable
<1>1. TypeOK /\ Ownership => BusyIsKillable
  <2> SUFFICES ASSUME TypeOK, Ownership, NEW p \in Pids, process[p] = "busy"
               PROVE  \E t \in Threads : registry[t] = p
    BY DEF BusyIsKillable
  <2>1. PICK t \in Threads : session[t] = p /\ pc[t] = "read"
    BY DEF Ownership, ReadByOwner
  <2>2. registry[t] = session[t]
    BY <2>1 DEF Ownership, OwnershipOf
  <2> QED BY <2>1, <2>2
<1> QED BY <1>1, TypeCorrect, PTL

\* The pool returns only after every worker it spawned has been reaped.
THEOREM PoolReapsItsWorkers == Spec => []NoWorkerOutlivesPool
<1>1. TypeOK /\ Ownership => NoWorkerOutlivesPool
  <2> SUFFICES ASSUME TypeOK, Ownership, main = "returned", NEW p \in Pids
               PROVE  process[p] = "free"
    BY DEF NoWorkerOutlivesPool
  <2>1. \A t \in Threads : session[t] = NoPid /\ spare[t] = NoPid
    BY DEF Ownership, OwnershipOf, JoinedIsDone
  <2> QED BY <2>1, PoolAssumption DEF Ownership, OwnedIffSpawned
<1> QED BY <1>1, TypeCorrect, PTL

-----------------------------------------------------------------------------
\* The pool implements ExtractionBatch.

\* A push by a thread that holds an item is the one answer of that item.
LEMMA PushAnswers ==
  ASSUME TypeOK, Accounting, NEW t \in Threads, pc[t] \in Working,
         NEW o \in Outcomes, Push(t, o)
  PROVE  /\ item[t] \in Items
         /\ results[item[t]] = <<>>
         /\ results' = [results EXCEPT ![item[t]] = <<o>>]
         /\ pc' = [pc EXCEPT ![t] = "claim"]
<1>1. item[t] \in Items /\ results[item[t]] = <<>>
  BY DEF TypeOK, Accounting, ClaimsAreExclusive
<1>2. Append(results[item[t]], o) = <<o>>
  BY <1>1
<1> QED BY <1>1, <1>2 DEF Push, Goto

\* Pushing the answer of a held item keeps the books.
LEMMA AccountingPush ==
  ASSUME TypeOK, Accounting, NEW t \in Threads, pc[t] \in Working,
         NEW o \in Outcomes, Push(t, o), UNCHANGED <<cursor, item>>
  PROVE  Accounting'
<1> USE DEF Accounting, ClaimsAreExclusive, NothingLost, ExhaustedWhenLeaving
<1>1. /\ item[t] \in Items
      /\ results' = [results EXCEPT ![item[t]] = <<o>>]
      /\ pc' = [pc EXCEPT ![t] = "claim"]
  BY PushAnswers
<1>2. \A i \in Items : i # item[t] => results'[i] = results[i]
  BY <1>1 DEF TypeOK
<1>3. results'[item[t]] # <<>>
  BY <1>1 DEF TypeOK
<1>4. \A u \in Threads : pc'[u] \in Working => u # t /\ pc[u] \in Working /\ item[u] # item[t]
  BY <1>1 DEF TypeOK, Working
<1>5. ClaimsAreExclusive'
  BY <1>2, <1>4 DEF TypeOK
<1>6. NothingLost'
  <2>1. \A u \in Threads : u # t => pc'[u] = pc[u]
    BY <1>1 DEF TypeOK
  <2>2. item[t] < cursor
    OBVIOUS
  <2>3. \A i \in Items : cursor <= i => results'[i] = <<>>
    BY <1>2, <2>2 DEF TypeOK, Items
  <2>4. ASSUME NEW i \in Items, i < cursor, results'[i] = <<>>
        PROVE  \E u \in Threads : pc'[u] \in Working /\ item[u] = i
    <3>1. i # item[t] /\ results[i] = <<>>
      BY <1>2, <1>3, <2>4
    <3> QED BY <2>1, <2>4, <3>1
  <2> QED BY <2>3, <2>4
<1>7. ExhaustedWhenLeaving'
  BY <1>1 DEF TypeOK
<1> QED BY <1>5, <1>6, <1>7

\* A thread that moves on without answering keeps the books as well.
LEMMA AccountingMove ==
  ASSUME TypeOK, Accounting, NEW t \in Threads, NEW label \in Labels,
         pc[t] \in Working <=> label \in Working,
         label \in {"clear", "drop", "done"} => pc[t] \in {"clear", "drop", "done"},
         Goto(t, label), UNCHANGED <<cursor, item, results>>
  PROVE  Accounting'
  BY DEF TypeOK, Goto, Accounting, ClaimsAreExclusive, NothingLost, ExhaustedWhenLeaving

\* Claiming is the one step that moves the cursor.
LEMMA AccountingClaim ==
  ASSUME TypeOK, Accounting, NEW t \in Threads, Claim(t)
  PROVE  Accounting'
<1> USE DEF Accounting, ClaimsAreExclusive, NothingLost, ExhaustedWhenLeaving
<1>0. WorkLen \in Nat
  BY PoolAssumption
<1>1. /\ cursor' = cursor + 1
      /\ pc[t] = "claim"
      /\ results' = results
  BY DEF Claim
<1>2. CASE HasWork
  <2>1. /\ item' = [item EXCEPT ![t] = cursor]
        /\ pc' = [pc EXCEPT ![t] = pc'[t]]
        /\ pc'[t] \in {"session", "check"}
        /\ cursor \in Items
    BY <1>0, <1>2 DEF Claim, Goto, TypeOK, Items
  <2>2. \A u \in Threads : u # t => pc'[u] = pc[u] /\ item'[u] = item[u]
    BY <2>1 DEF TypeOK
  <2>3. item'[t] = cursor /\ pc'[t] \in Working /\ results[cursor] = <<>>
    BY <2>1 DEF TypeOK, Working
  <2>4. \A u \in Threads : u # t /\ pc'[u] \in Working => item'[u] < cursor
    BY <2>2
  <2>5. \A u \in Threads : item[u] \in Int /\ item'[u] \in Int
    BY <2>1, <1>0 DEF TypeOK, Items
  <2>6. cursor \in Nat
    BY DEF TypeOK
  <2>7. ClaimsAreExclusive'
    BY <1>1, <2>2, <2>3, <2>4, <2>5, <2>6
  <2>8. NothingLost'
    <3>1. \A i \in Items : cursor' <= i => results'[i] = <<>>
      BY <1>0, <1>1, <2>6 DEF Items
    <3>2. ASSUME NEW i \in Items, i < cursor', results'[i] = <<>>
          PROVE  \E u \in Threads : pc'[u] \in Working /\ item'[u] = i
      <4>1. CASE i = cursor
        BY <2>3, <4>1
      <4>2. CASE i < cursor
        <5>1. PICK u \in Threads : pc[u] \in Working /\ item[u] = i
          BY <1>1, <3>2, <4>2
        <5>2. u # t
          BY <1>1, <5>1 DEF Working
        <5> QED BY <2>2, <5>1, <5>2
      <4> QED BY <1>0, <1>1, <2>6, <3>2, <4>1, <4>2 DEF Items
    <3> QED BY <3>1, <3>2
  <2>9. ExhaustedWhenLeaving'
    BY <1>0, <1>1, <2>1, <2>2, <2>6
  <2> QED BY <2>7, <2>8, <2>9
<1>3. CASE ~HasWork
  <2>1. /\ item' = item
        /\ pc' = [pc EXCEPT ![t] = "clear"]
    BY <1>3 DEF Claim, Goto
  <2>2. \A u \in Threads : (pc'[u] \in Working <=> pc[u] \in Working)
    BY <1>1, <2>1 DEF TypeOK, Working
  <2>3. cursor \in Nat /\ WorkLen <= cursor
    BY <1>0, <1>3 DEF TypeOK
  <2>4. \A u \in Threads : item[u] \in Int /\ item[u] < WorkLen
    BY <1>0 DEF TypeOK, Items
  <2>5. \A i \in Items : i \in Int /\ i < WorkLen
    BY <1>0 DEF Items
  <2>6. ClaimsAreExclusive'
    BY <1>0, <1>1, <2>1, <2>2, <2>3, <2>4
  <2>7. NothingLost'
    BY <1>0, <1>1, <2>1, <2>2, <2>3, <2>5
  <2>8. ExhaustedWhenLeaving'
    BY <1>0, <1>1, <2>3
  <2> QED BY <2>6, <2>7, <2>8
<1> QED BY <1>2, <1>3

LEMMA AccountingStep ==
  ASSUME TypeOK, Ownership, Accounting, [Next]_vars
  PROVE  Accounting'
<1> USE DEF Labels, Working
<1>1. ASSUME NEW t \in Threads, Claim(t) PROVE Accounting'
  BY <1>1, AccountingClaim
<1>2. ASSUME NEW t \in Threads, SpawnFails(t) PROVE Accounting'
  BY <1>2, AccountingPush DEF SpawnFails, Outcomes
<1>3. ASSUME NEW t \in Threads, DeadlineCheck(t) PROVE Accounting'
  <2>1. CASE Breached(t)
    BY <1>3, <2>1, AccountingPush DEF DeadlineCheck, Outcomes
  <2>2. CASE ~Breached(t)
    <3>1. AfterCheck(pc[t]) \in Labels /\ AfterCheck(pc[t]) \in Working
      OBVIOUS
    <3> QED BY <1>3, <2>2, <3>1, AccountingMove DEF DeadlineCheck
  <2> QED BY <2>1, <2>2
<1>4. ASSUME NEW t \in Threads, Read(t) PROVE Accounting'
  <2>1. session[t] \in Pids
    BY <1>4 DEF Read, TypeOK, Ownership, OwnershipOf
  <2>2. Outcome(reply[session[t]]) \in Outcomes
    BY <1>4, <2>1, OutcomeIsAnOutcome DEF Read, TypeOK
  <2> QED BY <1>4, <2>2, AccountingPush DEF Read
<1>5. ASSUME NEW t \in Threads, Reslot(t) PROVE Accounting'
  <2>1. CASE attempt[t] = 1
    BY <1>5, <2>1, AccountingMove DEF Reslot
  <2>2. CASE attempt[t] # 1
    BY <1>5, <2>2, AccountingPush DEF Reslot, Outcomes
  <2> QED BY <2>1, <2>2
<1>6. ASSUME NEW t \in Threads, OpenSession(t) \/ Register(t) \/ Send(t)
        \/ ReadEof(t) \/ Respawn(t) \/ Unslot(t) \/ ReplaceWorker(t) \/ DropSession(t)
      PROVE Accounting'
  <2>1. PICK label \in Labels :
          /\ pc[t] \in Working <=> label \in Working
          /\ label \in {"clear", "drop", "done"} => pc[t] \in {"clear", "drop", "done"}
          /\ Goto(t, label)
    BY <1>6 DEF OpenSession, Register, Send, ReadEof, Respawn, Unslot, ReplaceWorker,
       DropSession
  <2>2. UNCHANGED <<cursor, item, results>>
    BY <1>6 DEF OpenSession, Register, Send, ReadEof, Respawn, Unslot, ReplaceWorker,
       DropSession
  <2> QED BY <2>1, <2>2, AccountingMove
<1>7. CASE UNCHANGED <<cursor, item, results, pc>>
  BY <1>7 DEF Accounting, ClaimsAreExclusive, NothingLost, ExhaustedWhenLeaving
<1>8. ASSUME NEW t \in Threads, WorkerReplies(t) \/ WorkerCrashes(t)
      PROVE UNCHANGED <<cursor, item, results, pc>>
  BY <1>8 DEF WorkerReplies, WorkerCrashes, threadVars
<1>9. ASSUME NEW p \in Pids, StrayDeath(p)
      PROVE UNCHANGED <<cursor, item, results, pc>>
  BY <1>9 DEF StrayDeath, threadVars
<1>10. ASSUME Expire \/ KillAll \/ JoinPool \/ MonitorExits \/ ReturnResults
              \/ Finished \/ UNCHANGED vars
       PROVE UNCHANGED <<cursor, item, results, pc>>
  BY <1>10 DEF Expire, KillAll, JoinPool, MonitorExits, ReturnResults, Finished,
     vars, threadVars
<1> QED
  BY <1>1, <1>2, <1>3, <1>4, <1>5, <1>6, <1>7, <1>8, <1>9, <1>10 DEF Next, ThreadStep

\* Every step of the pool answers one item, returns the batch, or leaves both
\* alone.
LEMMA BatchStep ==
  ASSUME TypeOK, Ownership, Accounting, [Next]_vars
  PROVE  [Batch!Next]_(Batch!vars)
<1> USE DEF Working, Batch!vars
<1>1. ASSUME NEW t \in Threads, pc[t] \in Working, NEW o \in Outcomes, Push(t, o),
             UNCHANGED main
      PROVE  Batch!Next
  BY <1>1, PushAnswers DEF Batch!Next, Batch!Answer
<1>2. ASSUME NEW t \in Threads, SpawnFails(t) PROVE Batch!Next
  BY <1>1, <1>2 DEF SpawnFails, Outcomes
<1>3. ASSUME NEW t \in Threads, DeadlineCheck(t)
      PROVE  Batch!Next \/ UNCHANGED Batch!vars
  BY <1>1, <1>3 DEF DeadlineCheck, Outcomes
<1>4. ASSUME NEW t \in Threads, Read(t) PROVE Batch!Next
  <2>1. session[t] \in Pids
    BY <1>4 DEF Read, TypeOK, Ownership, OwnershipOf
  <2>2. Outcome(reply[session[t]]) \in Outcomes
    BY <1>4, <2>1, OutcomeIsAnOutcome DEF Read, TypeOK
  <2> QED BY <1>1, <1>4, <2>2 DEF Read
<1>5. ASSUME NEW t \in Threads, Reslot(t)
      PROVE  Batch!Next \/ UNCHANGED Batch!vars
  BY <1>1, <1>5 DEF Reslot, Outcomes
<1>6. ASSUME ReturnResults PROVE Batch!Next
  <2>1. \A t \in Threads : pc[t] = "done"
    BY <1>6 DEF ReturnResults, Ownership, JoinedIsDone
  <2>2. WorkLen <= cursor
    BY <2>1, PoolAssumption DEF Accounting, ExhaustedWhenLeaving
  <2>3. \A i \in Items : results[i] # <<>>
    <3>1. \A i \in Items : i < cursor
      BY <2>2, PoolAssumption DEF Items, TypeOK
    <3> QED BY <2>1, <3>1 DEF Accounting, NothingLost
  <2> QED BY <1>6, <2>3 DEF ReturnResults, Batch!Next, Batch!Return
<1>7. ASSUME NEW t \in Threads, Claim(t) \/ OpenSession(t) \/ Register(t) \/ Send(t)
        \/ ReadEof(t) \/ Respawn(t) \/ Unslot(t) \/ ReplaceWorker(t)
        \/ DropSession(t) \/ WorkerReplies(t) \/ WorkerCrashes(t)
      PROVE  UNCHANGED Batch!vars
  BY <1>7 DEF Claim, OpenSession, Register, Send, ReadEof, Respawn, Unslot,
     ReplaceWorker, DropSession, WorkerReplies, WorkerCrashes
<1>8. ASSUME NEW p \in Pids, StrayDeath(p) PROVE UNCHANGED Batch!vars
  BY <1>8 DEF StrayDeath
<1>9. ASSUME Expire \/ KillAll \/ JoinPool \/ MonitorExits \/ Finished \/ UNCHANGED vars
      PROVE  UNCHANGED Batch!vars
  BY <1>9 DEF Expire, KillAll, JoinPool, MonitorExits, Finished, vars
<1> QED
  BY <1>2, <1>3, <1>4, <1>5, <1>6, <1>7, <1>8, <1>9 DEF Next, ThreadStep

\* Every work item is answered exactly once, and the pool returns only when all
\* are: `parallel_extract` implements ExtractionBatch (AnswersEveryItemOnce).
THEOREM PoolImplementsBatch == Spec => AnswersEveryItemOnce
<1>1. Init => Accounting
  BY PoolAssumption DEF Init, Accounting, ClaimsAreExclusive, NothingLost,
     ExhaustedWhenLeaving, Working, Items
<1>2. TypeOK /\ Ownership /\ Accounting /\ [Next]_vars => Accounting'
  BY AccountingStep
<1>3. Init => Batch!Init
  BY DEF Init, Batch!Init
<1>4. TypeOK /\ Ownership /\ Accounting /\ [Next]_vars => [Batch!Next]_(Batch!vars)
  BY BatchStep
<1> QED
  BY <1>1, <1>2, <1>3, <1>4, TypeCorrect, PTL DEF Spec, AnswersEveryItemOnce, Batch!Spec

-----------------------------------------------------------------------------
\* Containment: what a file comes to depends on that file only.

\* Answers, deadlines and disturbances are for good.
LEMMA OutcomesAreKept ==
  ASSUME TypeOK, Ownership, Accounting, [Next]_vars
  PROVE  /\ nature' = nature /\ disturbed \subseteq disturbed' /\ (expired => expired')
         /\ cursor <= cursor'
         /\ \A i \in Items : results[i] # <<>> => results'[i] = results[i]
<1> USE DEF TypeOK, Working, threadVars
<1>1. ASSUME NEW t \in Threads, pc[t] \in Working, NEW o \in Outcomes, Push(t, o)
      PROVE  \A i \in Items : results[i] # <<>> => results'[i] = results[i]
  BY <1>1, PushAnswers
<1>2. ASSUME NEW t \in Threads, SpawnFails(t)
      PROVE  \A i \in Items : results[i] # <<>> => results'[i] = results[i]
  BY <1>1, <1>2 DEF SpawnFails, Outcomes
<1>3. ASSUME NEW t \in Threads, DeadlineCheck(t)
      PROVE  \A i \in Items : results[i] # <<>> => results'[i] = results[i]
  BY <1>1, <1>3 DEF DeadlineCheck, Outcomes
<1>4. ASSUME NEW t \in Threads, Read(t)
      PROVE  \A i \in Items : results[i] # <<>> => results'[i] = results[i]
  <2>1. session[t] \in Pids
    BY <1>4 DEF Read, Ownership, OwnershipOf
  <2>2. Outcome(reply[session[t]]) \in Outcomes
    BY <1>4, <2>1, OutcomeIsAnOutcome DEF Read
  <2> QED BY <1>1, <1>4, <2>2 DEF Read
<1>5. ASSUME NEW t \in Threads, Reslot(t)
      PROVE  \A i \in Items : results[i] # <<>> => results'[i] = results[i]
  BY <1>1, <1>5 DEF Reslot, Outcomes
<1>6. ASSUME NEW t \in Threads, ThreadStep(t)
      PROVE  /\ nature' = nature /\ disturbed \subseteq disturbed' /\ expired' = expired
             /\ cursor <= cursor'
  BY <1>6 DEF ThreadStep, Claim, OpenSession, SpawnFails, Register, DeadlineCheck, Send, Read,
     ReadEof, Respawn, Unslot, ReplaceWorker, Reslot, DropSession
<1>7. ASSUME NEW t \in Threads, Claim(t) \/ OpenSession(t) \/ Register(t) \/ Send(t)
        \/ ReadEof(t) \/ Respawn(t) \/ Unslot(t) \/ ReplaceWorker(t) \/ DropSession(t)
      PROVE  results' = results
  BY <1>7 DEF Claim, OpenSession, Register, Send, ReadEof, Respawn, Unslot, ReplaceWorker,
     DropSession
<1>8. ASSUME NEW t \in Threads, WorkerReplies(t) \/ WorkerCrashes(t)
      PROVE  UNCHANGED <<nature, disturbed, expired, cursor, results>>
  BY <1>8 DEF WorkerReplies, WorkerCrashes
<1>9. ASSUME NEW p \in Pids, StrayDeath(p)
      PROVE  UNCHANGED <<nature, expired, cursor, results>> /\ disturbed \subseteq disturbed'
  BY <1>9 DEF StrayDeath
<1>10. ASSUME Expire \/ KillAll \/ JoinPool \/ MonitorExits \/ ReturnResults \/ Finished
              \/ UNCHANGED vars
       PROVE  UNCHANGED <<nature, disturbed, cursor, results>> /\ (expired => expired')
  BY <1>10 DEF Expire, KillAll, JoinPool, MonitorExits, ReturnResults, Finished, vars
<1> QED
  BY <1>2, <1>3, <1>4, <1>5, <1>6, <1>7, <1>8, <1>9, <1>10 DEF Next, ThreadStep

\* A spoilt stream stays spoilt, for later items too.
LEMMA SpoiltStays ==
  ASSUME TypeOK, Ownership, Accounting, [Next]_vars, NEW i, NEW j, i <= j, i \in Int, j \in Int,
         SpoiltBefore(i)
  PROVE  SpoiltBefore(j)'
<1>1. PICK k \in Items : k < i /\ nature[k] = "protocol" /\ results[k] = <<"fatal">>
  BY DEF SpoiltBefore
<1>2. nature' = nature /\ results'[k] = <<"fatal">>
  BY <1>1, OutcomesAreKept
<1>3. k \in Int
  BY PoolAssumption DEF Items
<1> QED BY <1>1, <1>2, <1>3 DEF SpoiltBefore

\* An answer that is deserved, expired, disturbed or spoilt keeps containment.
LEMMA ContainedPush ==
  ASSUME TypeOK, Ownership, Accounting, Contained, [Next]_vars,
         NEW t \in Threads, pc[t] \in Working, NEW o \in Outcomes, Push(t, o),
         \/ o \in PolicyOutcome(nature[item[t]])
         \/ o = "expired" /\ expired'
         \/ item[t] \in disturbed' /\ o \in {"worker-crash", "spawn-failed"}
         \/ o = "fatal" /\ SpoiltBefore(item[t])
  PROVE  Contained'
<1>1. /\ item[t] \in Items /\ results' = [results EXCEPT ![item[t]] = <<o>>]
      /\ nature' = nature /\ disturbed \subseteq disturbed' /\ (expired => expired')
      /\ \A i \in Items : results[i] # <<>> => results'[i] = results[i]
  BY PushAnswers, OutcomesAreKept
<1>2. results'[item[t]] = <<o>> /\ \A i \in Items : i # item[t] => results'[i] = results[i]
  BY <1>1 DEF TypeOK
<1>3. \A j \in Items : results[j] = <<"fatal">> => results'[j] = <<"fatal">>
  BY <1>1
<1>4. ASSUME NEW i \in Items, results'[i] # <<>>, i # item[t]
      PROVE  \/ results'[i][1] \in PolicyOutcome(nature'[i])
             \/ results'[i][1] = "expired" /\ expired'
             \/ i \in disturbed' /\ results'[i][1] \in {"worker-crash", "spawn-failed"}
             \/ results'[i][1] = "fatal" /\ \E j \in Items :
                  j < i /\ nature'[j] = "protocol" /\ results'[j] = <<"fatal">>
  BY <1>1, <1>2, <1>3, <1>4 DEF Contained
<1>5. \/ o \in PolicyOutcome(nature'[item[t]])
      \/ o = "expired" /\ expired'
      \/ item[t] \in disturbed' /\ o \in {"worker-crash", "spawn-failed"}
      \/ o = "fatal" /\ \E j \in Items :
           j < item[t] /\ nature'[j] = "protocol" /\ results'[j] = <<"fatal">>
  BY <1>1, <1>3 DEF SpoiltBefore
<1>6. results'[item[t]][1] = o
  BY <1>2
<1> QED BY <1>4, <1>5, <1>6 DEF Contained

LEMMA ContainedKept ==
  ASSUME TypeOK, Ownership, Accounting, Contained, [Next]_vars, UNCHANGED results
  PROVE  Contained'
<1>1. nature' = nature /\ disturbed \subseteq disturbed' /\ (expired => expired')
  BY OutcomesAreKept
<1> QED BY <1>1 DEF Contained

LEMMA ContainedStep ==
  ASSUME TypeOK, Ownership, Accounting, Containment, [Next]_vars
  PROVE  Contained'
<1> USE DEF Containment, Working
<1>1. ASSUME NEW t \in Threads, SpawnFails(t) PROVE Contained'
  <2>1. item[t] \in disturbed' /\ pc[t] \in Working /\ Push(t, "spawn-failed")
    BY <1>1 DEF SpawnFails
  <2> QED BY <2>1, ContainedPush DEF Outcomes
<1>2. ASSUME NEW t \in Threads, DeadlineCheck(t) PROVE Contained'
  <2>1. CASE Breached(t)
    <3>1. expired' /\ pc[t] \in Working /\ Push(t, "expired")
      BY <1>2, <2>1 DEF DeadlineCheck
    <3> QED BY <3>1, ContainedPush DEF Outcomes
  <2>2. CASE ~Breached(t)
    BY <1>2, <2>2, ContainedKept DEF DeadlineCheck
  <2> QED BY <2>1, <2>2
<1>3. ASSUME NEW t \in Threads, Read(t) PROVE Contained'
  <2>1. session[t] \in Pids /\ pc[t] \in Working /\ item[t] \in Items
    BY <1>3 DEF Read, TypeOK, Ownership, OwnershipOf
  <2>2. reply[session[t]] \in Replying /\ Outcome(reply[session[t]]) \in Outcomes
    BY <1>3, <2>1, OutcomeIsAnOutcome DEF Read, TypeOK
  <2>3. CASE reply[session[t]] = nature[item[t]]
    <3>1. Outcome(reply[session[t]]) \in PolicyOutcome(nature[item[t]])
      BY <2>2, <2>3 DEF PolicyOutcome
    <3> QED BY <1>3, <2>1, <2>2, <3>1, ContainedPush DEF Read
  <2>4. CASE reply[session[t]] = "protocol" /\ SpoiltBefore(item[t])
    <3>1. Outcome(reply[session[t]]) = "fatal"
      BY <2>4 DEF Outcome
    <3> QED BY <1>3, <2>1, <2>2, <2>4, <3>1, ContainedPush DEF Read
  <2> QED BY <1>3, <2>3, <2>4 DEF Read, RepliesAreDeserved
<1>4. ASSUME NEW t \in Threads, Reslot(t) PROVE Contained'
  <2>1. CASE attempt[t] = 1
    BY <1>4, <2>1, ContainedKept DEF Reslot
  <2>2. CASE attempt[t] # 1
    <3>1. attempt[t] = 2 /\ pc[t] = "reslot" /\ Push(t, "worker-crash")
          /\ disturbed \subseteq disturbed'
      BY <1>4, <2>2, OutcomesAreKept DEF Reslot, TypeOK
    <3>2. nature[item[t]] = "crash" \/ item[t] \in disturbed'
      BY <3>1 DEF SecondDeathsAreOwn, SecondDeathIsOwn, ItsOwnDeath
    <3>3. nature[item[t]] = "crash" => "worker-crash" \in PolicyOutcome(nature[item[t]])
      BY DEF PolicyOutcome, Replying
    <3> QED BY <3>1, <3>2, <3>3, ContainedPush DEF Outcomes
  <2> QED BY <2>1, <2>2
<1>5. ASSUME NEW t \in Threads, Claim(t) \/ OpenSession(t) \/ Register(t) \/ Send(t)
        \/ ReadEof(t) \/ Respawn(t) \/ Unslot(t) \/ ReplaceWorker(t)
        \/ DropSession(t) \/ WorkerReplies(t) \/ WorkerCrashes(t)
      PROVE  UNCHANGED results
  BY <1>5 DEF Claim, OpenSession, Register, Send, ReadEof, Respawn, Unslot,
     ReplaceWorker, DropSession, WorkerReplies, WorkerCrashes
<1>6. ASSUME (\E p \in Pids : StrayDeath(p)) \/ Expire \/ KillAll \/ JoinPool \/ MonitorExits
             \/ ReturnResults \/ Finished \/ UNCHANGED vars
      PROVE  UNCHANGED results
  BY <1>6 DEF StrayDeath, Expire, KillAll, JoinPool, MonitorExits, ReturnResults, Finished, vars
<1> QED
  BY <1>1, <1>2, <1>3, <1>4, <1>5, <1>6, ContainedKept DEF Next, ThreadStep

\* What a thread leaves alone when another one steps.
LEMMA OtherDeathsKept ==
  ASSUME TypeOK, Ownership, Accounting, [Next]_vars, NEW u \in Threads, SecondDeathIsOwn(u),
         pc'[u] = pc[u], item'[u] = item[u], attempt'[u] = attempt[u],
         session'[u] = session[u], spare'[u] = spare[u],
         session[u] \in Pids => (process'[session[u]] = "dead" <=> process[session[u]] = "dead"),
         spare[u] \in Pids => (process'[spare[u]] = "dead" <=> process[spare[u]] = "dead")
  PROVE  SecondDeathIsOwn(u)'
<1>1. nature' = nature /\ disturbed \subseteq disturbed' /\ (expired => expired')
  BY OutcomesAreKept
<1>2. ItsOwnDeath(u) => nature'[item'[u]] = "crash" \/ item'[u] \in disturbed'
  BY <1>1 DEF ItsOwnDeath
<1>3. pc[u] \in Working \ {"session"} => session[u] \in Pids
  BY DEF Ownership, OwnershipOf, TypeOK
<1>4. pc[u] \in {"unslot", "reap"} => spare[u] \in Pids
  BY DEF Ownership, OwnershipOf, TypeOK
<1> QED
  BY <1>1, <1>2, <1>3, <1>4 DEF SecondDeathIsOwn, ItsOwnDeath, Working

LEMMA SecondDeathsStep ==
  ASSUME TypeOK, Ownership, Accounting, Containment, [Next]_vars
  PROVE  SecondDeathsAreOwn'
<1> USE DEF Containment, SecondDeathsAreOwn
<1>0. /\ nature' = nature /\ disturbed \subseteq disturbed' /\ (expired => expired')
  BY OutcomesAreKept
<1>1. \A u \in Threads : /\ pc[u] \in Working \ {"session"} => session[u] \in Pids
                         /\ pc[u] \in {"unslot", "reap"} => spare[u] \in Pids
  BY DEF Ownership, OwnershipOf, TypeOK
<1>2. ASSUME NEW t \in Threads, ThreadStep(t), NEW u \in Threads, u # t
      PROVE  SecondDeathIsOwn(u)'
  <2>1. /\ pc'[u] = pc[u] /\ item'[u] = item[u] /\ attempt'[u] = attempt[u]
        /\ session'[u] = session[u] /\ spare'[u] = spare[u]
    BY <1>2 DEF ThreadStep, Claim, OpenSession, SpawnFails, Register, DeadlineCheck, Send, Read,
       ReadEof, Respawn, Unslot, ReplaceWorker, Reslot, DropSession, TypeOK, Goto, Push
  <2>2. ASSUME NEW p \in Pids, p \in {session[u], spare[u]}
        PROVE  process'[p] = "dead" <=> process[p] = "dead"
    <3>1. p # session[t] /\ p # spare[t] /\ process[p] # "free"
      BY <1>2, <2>2, PoolAssumption DEF Ownership, Exclusive, OwnedIffSpawned
    <3>2. process'[p] = process[p]
      BY <1>2, <3>1 DEF ThreadStep, Claim, OpenSession, SpawnFails, Register, DeadlineCheck,
         Send, Read, ReadEof, Respawn, Unslot, ReplaceWorker, Reslot, DropSession, TypeOK, Reap
    <3> QED BY <3>2
  <2> QED BY <2>1, <2>2, OtherDeathsKept
<1>3. ASSUME NEW t \in Threads, Claim(t) \/ SpawnFails(t) PROVE SecondDeathIsOwn(t)'
  <2>1. pc'[t] = "claim" \/ pc'[t] = "clear"
          \/ (pc'[t] \in {"session", "check"} /\ attempt'[t] = 1)
    BY <1>3 DEF Claim, SpawnFails, Goto, Push, TypeOK
  <2> QED BY <2>1 DEF SecondDeathIsOwn
<1>4. ASSUME NEW t \in Threads, OpenSession(t) \/ Register(t) \/ DropSession(t)
      PROVE  SecondDeathIsOwn(t)'
  <2>1. pc'[t] = "done" \/ (pc'[t] \in {"register", "check"} /\ attempt'[t] = 1)
    BY <1>4 DEF OpenSession, Register, DropSession, Goto, TypeOK, SecondDeathIsOwn
  <2> QED BY <2>1 DEF SecondDeathIsOwn
<1>5. ASSUME NEW t \in Threads, DeadlineCheck(t) PROVE SecondDeathIsOwn(t)'
  <2>1. CASE Breached(t)
    <3>1. pc'[t] = "claim"
      BY <1>5, <2>1 DEF DeadlineCheck, Push, Goto, TypeOK
    <3> QED BY <3>1 DEF SecondDeathIsOwn
  <2>2. CASE ~Breached(t)
    <3>1. /\ pc'[t] = IF pc[t] = "check" THEN "send" ELSE "respawn"
          /\ pc[t] \in {"check", "died"} /\ ~expired
          /\ UNCHANGED <<nature, disturbed, item, attempt, session, process, expired>>
      BY <1>5, <2>2 DEF DeadlineCheck, Goto, TypeOK
    <3> QED BY <3>1 DEF SecondDeathIsOwn, ItsOwnDeath
  <2> QED BY <2>1, <2>2
<1>6. ASSUME NEW t \in Threads, Send(t) PROVE SecondDeathIsOwn(t)'
  <2>1. /\ UNCHANGED <<nature, disturbed, item, attempt, session, expired>>
        /\ pc[t] = "send" /\ session[t] \in Pids
        /\ IF process[session[t]] = "dead"
           THEN pc'[t] = "died" /\ process' = process
           ELSE pc'[t] = "read" /\ process'[session[t]] = "busy"
    BY <1>1, <1>6 DEF Send, Goto, TypeOK, Working
  <2> QED BY <2>1 DEF SecondDeathIsOwn, ItsOwnDeath
<1>7. ASSUME NEW t \in Threads, Read(t) PROVE SecondDeathIsOwn(t)'
  <2>1. pc'[t] = "claim"
    BY <1>7 DEF Read, Push, Goto, TypeOK
  <2> QED BY <2>1 DEF SecondDeathIsOwn
<1>8. ASSUME NEW t \in Threads, ReadEof(t) PROVE SecondDeathIsOwn(t)'
  <2>1. /\ UNCHANGED <<nature, disturbed, item, attempt, session, process, expired>>
        /\ pc[t] = "read" /\ pc'[t] = "died" /\ process[session[t]] = "dead"
    BY <1>8 DEF ReadEof, Goto, TypeOK
  <2> QED BY <2>1 DEF SecondDeathIsOwn, ItsOwnDeath
<1>9. ASSUME NEW t \in Threads, Respawn(t) PROVE SecondDeathIsOwn(t)'
  <2>1. /\ UNCHANGED <<nature, disturbed, item, attempt, session, expired>>
        /\ pc[t] = "respawn" /\ pc'[t] = "unslot" /\ process'[spare'[t]] = "idle"
    BY <1>9 DEF Respawn, Goto, TypeOK
  <2> QED BY <2>1 DEF SecondDeathIsOwn, ItsOwnDeath
<1>10. ASSUME NEW t \in Threads, Unslot(t) PROVE SecondDeathIsOwn(t)'
  <2>1. /\ UNCHANGED <<nature, disturbed, item, attempt, session, spare, process, expired>>
        /\ (pc[t] = "unslot" /\ pc'[t] = "reap") \/ pc'[t] = "drop"
    BY <1>10 DEF Unslot, Goto, TypeOK
  <2> QED BY <2>1 DEF SecondDeathIsOwn, ItsOwnDeath
<1>11. ASSUME NEW t \in Threads, ReplaceWorker(t) PROVE SecondDeathIsOwn(t)'
  <2>1. /\ UNCHANGED <<nature, disturbed, item, attempt, expired>>
        /\ pc[t] = "reap" /\ pc'[t] = "reslot" /\ session'[t] = spare[t]
        /\ process' = [process EXCEPT ![session[t]] = "free"]
    BY <1>11 DEF ReplaceWorker, Reap, Goto, TypeOK
  <2>2. spare[t] \in Pids /\ spare[t] # session[t]
    BY <1>1, <2>1, PoolAssumption DEF Ownership, Exclusive, Working
  <2>3. process'[spare[t]] = process[spare[t]]
    BY <2>1, <2>2 DEF TypeOK
  <2> QED BY <2>1, <2>3 DEF SecondDeathIsOwn, ItsOwnDeath
<1>12. ASSUME NEW t \in Threads, Reslot(t) PROVE SecondDeathIsOwn(t)'
  <2>1. /\ UNCHANGED <<nature, disturbed, item, session, process, expired>>
        /\ pc[t] = "reslot" /\ pc'[t] \in {"claim", "send"}
    BY <1>12 DEF Reslot, Push, Goto, TypeOK
  <2> QED BY <1>12, <2>1 DEF SecondDeathIsOwn, ItsOwnDeath, Reslot
<1>13. ASSUME NEW t \in Threads, WorkerReplies(t), NEW u \in Threads
       PROVE  SecondDeathIsOwn(u)'
  <2>1. UNCHANGED <<pc, item, attempt, session, spare>>
        /\ process' = [process EXCEPT ![session[t]] = "idle"] /\ process[session[t]] = "busy"
    BY <1>13 DEF WorkerReplies, threadVars
  <2> QED BY <2>1, OtherDeathsKept DEF TypeOK
<1>14. ASSUME NEW t \in Threads, WorkerCrashes(t), NEW u \in Threads
       PROVE  SecondDeathIsOwn(u)'
  <2>1. /\ UNCHANGED <<pc, item, attempt, session, spare, nature, disturbed>>
        /\ process' = [process EXCEPT ![session[t]] = "dead"] /\ process[session[t]] = "busy"
        /\ nature[item[t]] = "crash" /\ session[t] \in Pids
    BY <1>14 DEF WorkerCrashes, threadVars, TypeOK
  <2>2. pc[t] = "read"
    <3>1. PICK v \in Threads : session[v] = session[t] /\ pc[v] = "read"
      BY <2>1 DEF Ownership, ReadByOwner
    <3> QED BY <2>1, <3>1, PoolAssumption DEF Ownership, Exclusive
  <2>3. CASE u = t
    BY <2>1, <2>2, <2>3 DEF SecondDeathIsOwn, ItsOwnDeath
  <2>4. CASE u # t
    <3>1. session[u] # session[t] /\ spare[u] # session[t]
      BY <2>1, <2>4, PoolAssumption DEF Ownership, Exclusive
    <3> QED BY <2>1, <3>1, OtherDeathsKept DEF TypeOK
  <2> QED BY <2>3, <2>4
<1>15. ASSUME NEW p \in Pids, StrayDeath(p), NEW u \in Threads PROVE SecondDeathIsOwn(u)'
  <2>1. /\ UNCHANGED <<pc, item, attempt, session, spare, nature, expired>>
        /\ process' = [process EXCEPT ![p] = "dead"]
        /\ pc[u] \in Working /\ p \in {session[u], spare[u]} => item[u] \in disturbed'
    BY <1>15 DEF StrayDeath, threadVars
  <2>2. CASE pc[u] \in Working /\ p \in {session[u], spare[u]}
    BY <1>1, <2>1, <2>2 DEF SecondDeathIsOwn, ItsOwnDeath, TypeOK, Working
  <2>3. CASE pc[u] \notin Working
    BY <2>1, <2>3 DEF SecondDeathIsOwn, Working
  <2>4. CASE p \notin {session[u], spare[u]}
    BY <2>1, <2>4, OtherDeathsKept DEF TypeOK
  <2> QED BY <2>2, <2>3, <2>4
<1>16. ASSUME KillAll, NEW u \in Threads PROVE SecondDeathIsOwn(u)'
  <2>1. /\ UNCHANGED <<pc, item, attempt, session, spare, nature, disturbed, expired>>
        /\ expired
        /\ process' = [p \in Pids |-> IF \E t \in Threads : registry[t] = p
                                      THEN "dead" ELSE process[p]]
    BY <1>16 DEF KillAll, threadVars
  <2>2. pc[u] \in {"unslot", "reap"} => \A t \in Threads : registry[t] # spare[u]
    BY <1>1, PoolAssumption DEF Ownership, OwnershipOf, Exclusive
  <2>3. pc[u] = "reslot" => \A t \in Threads : registry[t] # session[u]
    BY <1>1, PoolAssumption DEF Ownership, OwnershipOf, Exclusive, Working
  <2> QED
    BY <1>1, <2>1, <2>2, <2>3 DEF SecondDeathIsOwn, ItsOwnDeath, TypeOK, Working
<1>17. ASSUME Expire \/ JoinPool \/ MonitorExits \/ ReturnResults \/ Finished \/ UNCHANGED vars,
              NEW u \in Threads
       PROVE  SecondDeathIsOwn(u)'
  <2>1. UNCHANGED <<pc, item, attempt, session, spare, process>>
    BY <1>17 DEF Expire, JoinPool, MonitorExits, ReturnResults, Finished, vars, threadVars
  <2> QED BY <2>1, OtherDeathsKept
<1>18. ASSUME NEW t \in Threads, ThreadStep(t) PROVE SecondDeathIsOwn(t)'
  BY <1>3, <1>4, <1>5, <1>6, <1>7, <1>8, <1>9, <1>10, <1>11, <1>12, <1>18 DEF ThreadStep
<1>19. ASSUME NEW t \in Threads, ThreadStep(t) PROVE \A u \in Threads : SecondDeathIsOwn(u)'
  BY <1>2, <1>18, <1>19
<1>20. (\A u \in Threads : SecondDeathIsOwn(u)') => SecondDeathsAreOwn'
  OBVIOUS
<1> HIDE DEF SecondDeathsAreOwn
<1> QED
  BY <1>13, <1>14, <1>15, <1>16, <1>17, <1>19, <1>20 DEF Next

\* A worker that is busy belongs to the thread that reads from it, and its item is
\* claimed and unanswered.
LEMMA BusyIsRead ==
  ASSUME TypeOK, Ownership, Accounting, NEW t \in Threads,
         session[t] # NoPid, process[session[t]] = "busy" \/ reply[session[t]] # "none"
  PROVE  /\ pc[t] = "read" /\ session[t] \in Pids
         /\ process[session[t]] = "busy" => reply[session[t]] = "none"
         /\ item[t] \in Items /\ item[t] < cursor /\ results[item[t]] = <<>>
<1>1. session[t] \in Pids
  BY DEF TypeOK
<1>2. /\ process[session[t]] = "busy" => reply[session[t]] = "none"
      /\ \E v \in Threads : session[v] = session[t] /\ pc[v] = "read"
  BY <1>1 DEF Ownership, ReadByOwner
<1>3. pc[t] = "read"
  BY <1>2 DEF Ownership, Exclusive
<1> QED
  BY <1>1, <1>2, <1>3 DEF TypeOK, Accounting, ClaimsAreExclusive, Working

LEMMA RepliesStep ==
  ASSUME TypeOK, Ownership, Accounting, Containment, [Next]_vars
  PROVE  RepliesAreDeserved'
<1> DEFINE Deserved(u) ==
      pc[u] = "read" /\ reply[session[u]] # "none" =>
        \/ reply[session[u]] = nature[item[u]]
        \/ reply[session[u]] = "protocol" /\ SpoiltBefore(item[u])
<1>0. nature' = nature /\ \A u \in Threads : Deserved(u) /\ item[u] \in Int /\ cursor \in Int
  BY OutcomesAreKept, PoolAssumption DEF Containment, RepliesAreDeserved, TypeOK, Items
<1>1. ASSUME NEW u \in Threads, pc'[u] = "read" => pc[u] = "read",
             item'[u] = item[u], session'[u] = session[u],
             pc[u] = "read" => reply'[session[u]] \in {"none", reply[session[u]]}
      PROVE  Deserved(u)'
  <2>1. SpoiltBefore(item[u]) => SpoiltBefore(item[u])'
    BY <1>1, OutcomesAreKept DEF SpoiltBefore
  <2> QED BY <1>0, <1>1, <2>1
<1>2. ASSUME NEW u \in Threads, pc'[u] # "read" PROVE Deserved(u)'
  BY <1>2
<1>3. ASSUME NEW t \in Threads, ThreadStep(t), NEW u \in Threads, u # t PROVE Deserved(u)'
  <2>1. pc'[u] = pc[u] /\ item'[u] = item[u] /\ session'[u] = session[u]
    BY <1>3 DEF ThreadStep, Claim, OpenSession, SpawnFails, Register, DeadlineCheck, Send, Read,
       ReadEof, Respawn, Unslot, ReplaceWorker, Reslot, DropSession, TypeOK, Goto, Push
  <2>2. pc[u] = "read" => reply'[session[u]] \in {"none", reply[session[u]]}
    <3> SUFFICES ASSUME pc[u] = "read"
                 PROVE  reply'[session[u]] \in {"none", reply[session[u]]}
      OBVIOUS
    <3>1. session[u] \in Pids
      BY DEF Ownership, OwnershipOf, TypeOK, Working
    <3> QED
      BY <1>3, <3>1 DEF ThreadStep, Claim, OpenSession, SpawnFails, Register, DeadlineCheck,
         Send, Read, ReadEof, Respawn, Unslot, ReplaceWorker, Reslot, DropSession, TypeOK, Reap
  <2> QED BY <1>1, <2>1, <2>2
<1>4. ASSUME NEW t \in Threads, ThreadStep(t) PROVE Deserved(t)'
  <2>1. CASE Send(t)
    <3>1. /\ pc[t] = "send" /\ session'[t] = session[t] /\ reply' = reply
      BY <2>1 DEF Send
    <3>2. session[t] # NoPid
      BY <3>1 DEF Ownership, OwnershipOf, Working
    <3>3. reply[session[t]] = "none"
      BY <3>1, <3>2, BusyIsRead
    <3> QED BY <3>1, <3>3
  <2>2. CASE ~Send(t)
    <3>1. pc'[t] # "read"
      BY <1>4, <2>2 DEF ThreadStep, Claim, OpenSession, SpawnFails, Register, DeadlineCheck, Read,
         ReadEof, Respawn, Unslot, ReplaceWorker, Reslot, DropSession, TypeOK, Goto, Push
    <3> QED BY <1>2, <3>1
  <2> QED BY <2>1, <2>2
<1>5. ASSUME NEW t \in Threads, WorkerReplies(t), NEW u \in Threads PROVE Deserved(u)'
  <2> DEFINE answer == IF session[t] \in torn THEN "protocol" ELSE nature[item[t]]
  <2>1. /\ UNCHANGED <<pc, item, session, nature, results>>
        /\ process[session[t]] = "busy" /\ session[t] \in Pids
        /\ reply' = [reply EXCEPT ![session[t]] = answer]
    BY <1>5 DEF WorkerReplies, threadVars, TypeOK
  <2>2. CASE u = t
    <3>1. pc[t] = "read"
      BY <2>1, BusyIsRead, PoolAssumption
    <3>2. reply'[session[t]] = answer
      BY <2>1 DEF TypeOK
    <3>3. CASE session[t] \notin torn
      BY <2>1, <2>2, <3>2, <3>3
    <3>4. CASE session[t] \in torn
      <4>1. nature[item[t]] = "protocol" \/ SpoiltBefore(item[t])
        BY <3>1, <3>4 DEF Containment, TornByItsItems, Working
      <4>2. SpoiltBefore(item[t]) => SpoiltBefore(item[t])'
        BY <2>1 DEF SpoiltBefore
      <4> QED BY <2>1, <2>2, <3>2, <3>4, <4>1, <4>2
    <3> QED BY <3>3, <3>4
  <2>3. CASE u # t
    <3>1. session[u] # session[t]
      BY <2>1, <2>3, PoolAssumption DEF Ownership, Exclusive
    <3>2. pc[u] = "read" => session[u] \in Pids
      BY DEF Ownership, OwnershipOf, TypeOK, Working
    <3> QED BY <1>1, <2>1, <3>1, <3>2 DEF TypeOK
  <2> QED BY <2>2, <2>3
<1>6. ASSUME UNCHANGED <<pc, item, session, reply>>, NEW u \in Threads PROVE Deserved(u)'
  BY <1>1, <1>6
<1>7. ASSUME NEW t \in Threads, WorkerCrashes(t) PROVE UNCHANGED <<pc, item, session, reply>>
  BY <1>7 DEF WorkerCrashes, threadVars
<1>8. ASSUME (\E p \in Pids : StrayDeath(p)) \/ Expire \/ KillAll \/ JoinPool \/ MonitorExits
             \/ ReturnResults \/ Finished \/ UNCHANGED vars
      PROVE  UNCHANGED <<pc, item, session, reply>>
  BY <1>8 DEF StrayDeath, Expire, KillAll, JoinPool, MonitorExits, ReturnResults, Finished, vars,
     threadVars
<1>9. (\A u \in Threads : Deserved(u)') => RepliesAreDeserved'
  BY DEF RepliesAreDeserved
<1>10. ASSUME NEW t \in Threads, ThreadStep(t) PROVE \A u \in Threads : Deserved(u)'
  BY <1>3, <1>4, <1>10
<1> HIDE DEF Deserved
<1> QED
  BY <1>5, <1>6, <1>7, <1>8, <1>9, <1>10 DEF Next

LEMMA TornStep ==
  ASSUME TypeOK, Ownership, Accounting, Containment, [Next]_vars
  PROVE  TornByItsItems'
<1> DEFINE Own(u) == pc[u] = "read" /\ reply[session[u]] = "protocol"
                       /\ nature[item[u]] = "protocol"
           Older(u) == SpoiltBefore(cursor) /\ (pc[u] \in Working => SpoiltBefore(item[u]))
           TornOf(u) == session[u] \in torn => Own(u) \/ Older(u)
           Alive(p) == process[p] # "free" /\ \A u \in Threads : spare[u] # p
<1>0. /\ \A u \in Threads : TornOf(u)
      /\ \A p \in torn : Alive(p)
      /\ torn \subseteq Pids
  BY DEF Containment, TornByItsItems, TypeOK
<1>1. nature' = nature /\ \A i \in Int : SpoiltBefore(i) =>
        \E k \in Items : k < i /\ nature'[k] = "protocol" /\ results'[k] = <<"fatal">>
  BY OutcomesAreKept DEF SpoiltBefore
<1>2. SpoiltBefore(cursor) => SpoiltBefore(cursor)'
  <2>1. cursor \in Int /\ cursor' \in Int /\ cursor <= cursor' /\ Items \subseteq Int
    <3>1. cursor' = cursor + 1 \/ cursor' = cursor
      BY DEF Next, ThreadStep, Claim, OpenSession, SpawnFails, Register, DeadlineCheck, Send,
         Read, ReadEof, Respawn, Unslot, ReplaceWorker, Reslot, DropSession, WorkerReplies,
         WorkerCrashes, StrayDeath, Expire, KillAll, JoinPool, MonitorExits, ReturnResults,
         Finished, vars
    <3> QED BY <3>1, PoolAssumption DEF TypeOK, Items
  <2> QED BY <1>1, <2>1 DEF SpoiltBefore
<1>3. \A u \in Threads : item[u] \in Int
  BY PoolAssumption DEF TypeOK, Items
<1>4. ASSUME NEW u \in Threads, SpoiltBefore(item[u]), item'[u] = item[u]
      PROVE  SpoiltBefore(item[u])'
  BY <1>1, <1>3, <1>4 DEF SpoiltBefore
\* A thread whose own state, answer and stream are left alone.
<1>5. ASSUME NEW u \in Threads, pc'[u] = pc[u], item'[u] = item[u], session'[u] = session[u],
             session[u] \in Pids => reply'[session[u]] = reply[session[u]],
             session[u] \in torn' => session[u] \in torn
      PROVE  TornOf(u)'
  <2>1. CASE session[u] \notin torn
    BY <1>5, <2>1
  <2>2. CASE session[u] \in torn /\ Own(u)
    BY <1>0, <1>1, <1>5, <2>2
  <2>3. CASE session[u] \in torn /\ Older(u)
    <3>1. SpoiltBefore(cursor)'
      BY <1>2, <2>3
    <3>2. pc[u] \in Working => SpoiltBefore(item[u])'
      BY <1>4, <1>5, <2>3
    <3> QED BY <1>5, <3>1, <3>2 DEF Working
  <2> QED BY <1>0, <2>1, <2>2, <2>3
<1>6. ASSUME NEW t \in Threads, ThreadStep(t), NEW u \in Threads, u # t PROVE TornOf(u)'
  <2>1. pc'[u] = pc[u] /\ item'[u] = item[u] /\ session'[u] = session[u]
    BY <1>6 DEF ThreadStep, Claim, OpenSession, SpawnFails, Register, DeadlineCheck, Send, Read,
       ReadEof, Respawn, Unslot, ReplaceWorker, Reslot, DropSession, TypeOK, Goto, Push
  <2>2. session[u] \in Pids => reply'[session[u]] = reply[session[u]]
    <3>1. session[u] \in Pids => session[u] # session[t]
      BY <1>6, PoolAssumption DEF Ownership, Exclusive
    <3> QED
      BY <1>6, <3>1 DEF ThreadStep, Claim, OpenSession, SpawnFails, Register, DeadlineCheck,
         Send, Read, ReadEof, Respawn, Unslot, ReplaceWorker, Reslot, DropSession, TypeOK, Reap
  <2>3. torn' \subseteq torn
    BY <1>6 DEF ThreadStep, Claim, OpenSession, SpawnFails, Register, DeadlineCheck,
       Send, Read, ReadEof, Respawn, Unslot, ReplaceWorker, Reslot, DropSession, Reap
  <2> QED BY <1>5, <2>1, <2>2, <2>3
\* The thread that steps: a new worker's stream is whole, a spoilt one stays spoilt.
<1>7. ASSUME NEW t \in Threads, Claim(t) PROVE TornOf(t)'
  <2>1. /\ UNCHANGED <<session, torn>> /\ pc[t] = "claim"
        /\ pc'[t] = "clear" \/ item'[t] = cursor
    BY <1>7 DEF Claim, Goto, TypeOK
  <2>2. ASSUME SpoiltBefore(cursor), item'[t] = cursor PROVE SpoiltBefore(item[t])'
    <3>1. cursor \in Int
      BY DEF TypeOK
    <3>2. PICK k \in Items : k < cursor /\ nature'[k] = "protocol" /\ results'[k] = <<"fatal">>
      BY <1>1, <2>2, <3>1
    <3> QED BY <2>2, <3>2 DEF SpoiltBefore
  <2>3. pc'[t] = "clear" => pc'[t] \notin Working
    BY DEF Working
  <2> QED BY <1>0, <1>2, <2>1, <2>2, <2>3
<1>8. ASSUME NEW t \in Threads, OpenSession(t) PROVE TornOf(t)'
  <2>1. process[session'[t]] = "free" /\ torn' = torn
    BY <1>8 DEF OpenSession, TypeOK
  <2> QED BY <1>0, <2>1
<1>9. ASSUME NEW t \in Threads, SpawnFails(t) \/ Register(t) \/ DeadlineCheck(t) \/ Send(t)
        \/ ReadEof(t) \/ Respawn(t) \/ Unslot(t) \/ Reslot(t)
      PROVE  TornOf(t)'
  <2>1. /\ UNCHANGED <<item, session, torn>>
        /\ pc'[t] \in Working => pc[t] \in Working
    BY <1>9 DEF SpawnFails, Register, DeadlineCheck, Send, ReadEof, Respawn, Unslot, Reslot,
       TypeOK, Goto, Push, Working
  <2>2. ~Own(t)
    BY <1>9 DEF SpawnFails, Register, DeadlineCheck, Send, ReadEof, Respawn, Unslot, Reslot
  <2>3. Older(t) => Older(t)'
    BY <1>2, <1>4, <2>1 DEF Working
  <2> QED BY <1>0, <2>1, <2>2, <2>3
<1>10. ASSUME NEW t \in Threads, Read(t) PROVE TornOf(t)'
  <2>1. /\ UNCHANGED <<item, session, torn, cursor>>
        /\ pc[t] = "read" /\ pc'[t] = "claim" /\ Push(t, Outcome(reply[session[t]]))
    BY <1>10 DEF Read, Goto, Push, TypeOK
  <2>2. Own(t) => SpoiltBefore(cursor)'
    <3> SUFFICES ASSUME Own(t) PROVE SpoiltBefore(cursor)'
      OBVIOUS
    <3>1. Push(t, "fatal")
      BY <2>1 DEF Outcome
    <3>2. item[t] \in Items /\ results' = [results EXCEPT ![item[t]] = <<"fatal">>]
          /\ item[t] < cursor
      BY <2>1, <3>1, PushAnswers DEF Working, Outcomes, Accounting, ClaimsAreExclusive
    <3> QED BY <1>1, <2>1, <3>2 DEF SpoiltBefore, TypeOK
  <2> QED BY <1>0, <1>2, <2>1, <2>2 DEF Working
<1>11. ASSUME NEW t \in Threads, ReplaceWorker(t) PROVE TornOf(t)'
  <2>1. session'[t] = spare[t] /\ torn' \subseteq torn
    BY <1>11 DEF ReplaceWorker, Reap, TypeOK
  <2> QED BY <1>0, <2>1
<1>12. ASSUME NEW t \in Threads, DropSession(t) PROVE TornOf(t)'
  <2>1. session'[t] = NoPid /\ torn' \subseteq torn
    BY <1>12 DEF DropSession, Reap, TypeOK
  <2> QED BY <1>0, <2>1, PoolAssumption
<1>13. ASSUME NEW t \in Threads, ThreadStep(t) PROVE \A u \in Threads : TornOf(u)'
  <2>1. TornOf(t)'
    BY <1>7, <1>8, <1>9, <1>10, <1>11, <1>12, <1>13 DEF ThreadStep
  <2> HIDE DEF TornOf
  <2> QED BY <1>6, <1>13, <2>1
<1>14. ASSUME NEW t \in Threads, ThreadStep(t) PROVE \A p \in torn' : Alive(p)'
  <2>1. torn' \subseteq torn
    BY <1>14 DEF ThreadStep, Claim, OpenSession, SpawnFails, Register, DeadlineCheck,
       Send, Read, ReadEof, Respawn, Unslot, ReplaceWorker, Reslot, DropSession, Reap
  <2>2. ASSUME NEW p \in torn' PROVE process'[p] # "free"
    BY <1>0, <1>14, <2>1, <2>2 DEF ThreadStep, Claim, OpenSession, SpawnFails, Register,
       DeadlineCheck, Send, Read, ReadEof, Respawn, Unslot, ReplaceWorker, Reslot, DropSession,
       Reap, TypeOK
  <2>3. ASSUME NEW p \in torn', NEW u \in Threads PROVE spare'[u] # p
    BY <1>0, <1>14, <2>1, <2>3, PoolAssumption DEF ThreadStep, Claim, OpenSession, SpawnFails,
       Register, DeadlineCheck, Send, Read, ReadEof, Respawn, Unslot, ReplaceWorker, Reslot,
       DropSession, TypeOK
  <2> QED BY <2>2, <2>3
<1>15. ASSUME NEW t \in Threads, WorkerReplies(t)
       PROVE  (\A u \in Threads : TornOf(u)') /\ \A p \in torn' : Alive(p)'
  <2> DEFINE answer == IF session[t] \in torn THEN "protocol" ELSE nature[item[t]]
  <2>1. /\ UNCHANGED <<pc, item, session, spare>>
        /\ process[session[t]] = "busy" /\ session[t] \in Pids /\ session[t] # NoPid
        /\ process' = [process EXCEPT ![session[t]] = "idle"]
        /\ reply' = [reply EXCEPT ![session[t]] = answer]
        /\ torn' = torn \/ (answer = "protocol" /\ torn' = torn \cup {session[t]})
    BY <1>15 DEF WorkerReplies, threadVars, TypeOK
  <2>2. pc[t] = "read" /\ reply[session[t]] = "none"
    BY <2>1, BusyIsRead
  <2>3. ASSUME NEW u \in Threads, u # t PROVE TornOf(u)'
    <3>1. session[u] # session[t]
      BY <2>1, <2>3 DEF Ownership, Exclusive
    <3>2. session[u] \in Pids => reply'[session[u]] = reply[session[u]]
      BY <2>1, <3>1 DEF TypeOK
    <3>3. session[u] \in torn' => session[u] \in torn
      BY <2>1, <3>1
    <3> HIDE DEF TornOf, answer
    <3> QED BY <1>5, <2>1, <3>2, <3>3
  <2>4. TornOf(t)'
    <3>1. CASE session[t] \in torn
      <4>1. Older(t)
        BY <1>0, <2>2, <3>1
      <4>2. SpoiltBefore(cursor)' /\ SpoiltBefore(item[t])'
        BY <1>2, <1>4, <2>1, <2>2, <4>1 DEF Working
      <4> QED BY <4>2
    <3>2. CASE session[t] \notin torn
      <4>1. reply'[session[t]] = nature[item[t]]
        BY <2>1, <3>2 DEF TypeOK
      <4> QED BY <1>1, <2>1, <2>2, <3>2, <4>1
    <3> QED BY <3>1, <3>2
  <2>5. \A p \in torn' : Alive(p)'
    <3>1. ASSUME NEW u \in Threads PROVE spare[u] # session[t]
      BY <2>1, <3>1 DEF Ownership, Exclusive
    <3>2. ASSUME NEW p \in torn' PROVE process'[p] # "free"
      BY <1>0, <2>1, <3>2 DEF TypeOK
    <3>3. ASSUME NEW p \in torn', NEW u \in Threads PROVE spare'[u] # p
      BY <1>0, <2>1, <3>1, <3>3
    <3> QED BY <3>2, <3>3
  <2> HIDE DEF TornOf, Alive
  <2> QED BY <2>3, <2>4, <2>5
<1>16. ASSUME UNCHANGED <<pc, item, session, spare, reply, torn>>,
              \A p \in Pids : process[p] # "free" => process'[p] # "free"
       PROVE  (\A u \in Threads : TornOf(u)') /\ \A p \in torn' : Alive(p)'
  <2>1. \A p \in torn' : Alive(p)'
    BY <1>0, <1>16
  <2> HIDE DEF TornOf
  <2>2. ASSUME NEW u \in Threads PROVE TornOf(u)'
    BY <1>5, <1>16
  <2> QED BY <2>1, <2>2
<1>17. ASSUME NEW t \in Threads, WorkerCrashes(t)
       PROVE  /\ UNCHANGED <<pc, item, session, spare, reply, torn>>
              /\ \A p \in Pids : process[p] # "free" => process'[p] # "free"
  BY <1>17 DEF WorkerCrashes, threadVars, TypeOK
<1>18. ASSUME NEW p \in Pids, StrayDeath(p)
       PROVE  /\ UNCHANGED <<pc, item, session, spare, reply, torn>>
              /\ \A q \in Pids : process[q] # "free" => process'[q] # "free"
  BY <1>18 DEF StrayDeath, threadVars, TypeOK
<1>19. ASSUME KillAll
       PROVE  /\ UNCHANGED <<pc, item, session, spare, reply, torn>>
              /\ \A q \in Pids : process[q] # "free" => process'[q] # "free"
  BY <1>19 DEF KillAll, threadVars, TypeOK
<1>20. ASSUME Expire \/ JoinPool \/ MonitorExits \/ ReturnResults \/ Finished \/ UNCHANGED vars
       PROVE  /\ UNCHANGED <<pc, item, session, spare, reply, torn>>
              /\ \A q \in Pids : process[q] # "free" => process'[q] # "free"
  BY <1>20 DEF Expire, JoinPool, MonitorExits, ReturnResults, Finished, vars, threadVars
<1>21. (\A u \in Threads : TornOf(u)') /\ (\A p \in torn' : Alive(p)') => TornByItsItems'
  BY DEF TornByItsItems
<1> HIDE DEF TornOf, Alive
<1> QED
  BY <1>13, <1>14, <1>15, <1>16, <1>17, <1>18, <1>19, <1>20, <1>21 DEF Next

\* The pool's invariants together, on which containment and the serial verdict rest.
LEMMA BooksAndContainment == Spec => [](TypeOK /\ Ownership /\ Accounting /\ Containment)
<1>1. Init => Accounting
  BY PoolAssumption DEF Init, Accounting, ClaimsAreExclusive, NothingLost,
     ExhaustedWhenLeaving, Working, Items
<1>2. Init => Containment
  <2> SUFFICES ASSUME Init PROVE Containment
    OBVIOUS
  <2>1. Contained
    <3>1. \A i \in Items : results[i] = <<>>
      BY DEF Init
    <3> QED BY <3>1 DEF Contained
  <2>2. RepliesAreDeserved /\ TornByItsItems
    BY DEF Init, RepliesAreDeserved, TornByItsItems
  <2>3. SecondDeathsAreOwn
    <3>1. \A t \in Threads : pc[t] = "claim"
      BY DEF Init
    <3> QED BY <3>1 DEF SecondDeathsAreOwn, SecondDeathIsOwn
  <2> QED BY <2>1, <2>2, <2>3 DEF Containment
<1>3. TypeOK /\ Ownership /\ Accounting /\ [Next]_vars => Accounting'
  BY AccountingStep
<1>4. TypeOK /\ Ownership /\ Accounting /\ Containment /\ [Next]_vars => Containment'
  <2> SUFFICES ASSUME TypeOK, Ownership, Accounting, Containment, [Next]_vars
               PROVE  Containment'
    OBVIOUS
  <2> QED
    BY ContainedStep, RepliesStep, TornStep, SecondDeathsStep DEF Containment
<1> QED
  BY <1>1, <1>2, <1>3, <1>4, TypeCorrect, PTL DEF Spec

\* What a file comes to depends on that file, on the deadline, on the operating system
\* and on a stream that an earlier fatal answer left torn, and on nothing else: no
\* interleaving of crashes, respawns and kills omits a neighbour (Contained).
THEOREM FilesAreContained == Spec => []Contained
<1>1. Containment => Contained
  BY DEF Containment
<1> QED BY <1>1, BooksAndContainment, PTL

\* However the threads were scheduled, the first fatal answer in plan order is the one a
\* serial run would have met first (SerialVerdict).
THEOREM VerdictIsSerial == Spec => []SerialVerdict
<1>1. TypeOK /\ Ownership /\ Accounting /\ Containment => SerialVerdict
  <2> SUFFICES ASSUME TypeOK, Ownership, Accounting, Containment,
                      main = "returned", ~expired, disturbed = {}, NEW i \in Items,
                      \A j \in Items : j < i => ~Fatal(j)
               PROVE  Fatal(i) <=> nature[i] = "protocol"
    BY DEF SerialVerdict
  <2>1. results[i] # <<>>
    <3>1. \A t \in Threads : pc[t] = "done"
      BY DEF Ownership, JoinedIsDone
    <3>2. WorkLen <= cursor
      BY <3>1, PoolAssumption DEF Accounting, ExhaustedWhenLeaving
    <3>3. i < cursor
      BY <3>2, PoolAssumption DEF Items, TypeOK
    <3> QED BY <3>1, <3>3 DEF Accounting, NothingLost, Working
  <2>2. ~\E j \in Items : j < i /\ nature[j] = "protocol" /\ results[j] = <<"fatal">>
    <3> SUFFICES ASSUME NEW j \in Items, j < i, results[j] = <<"fatal">> PROVE FALSE
      OBVIOUS
    <3>1. results[j] # <<>> /\ results[j][1] = "fatal"
      OBVIOUS
    <3> QED BY <3>1 DEF Fatal
  <2>3. results[i][1] \in PolicyOutcome(nature[i])
    BY <2>1, <2>2 DEF Containment, Contained
  <2>4. nature[i] \in AllNatures
    BY PoolAssumption DEF TypeOK
  <2> QED
    BY <2>1, <2>3, <2>4 DEF Fatal, PolicyOutcome, Outcome, Replying, AllNatures
<1> QED BY <1>1, BooksAndContainment, PTL
=============================================================================
