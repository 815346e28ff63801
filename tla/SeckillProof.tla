---------------------------- MODULE SeckillProof ----------------------------
(***************************************************************************)
(* Proofs about Seckill, for any users, processes, stock, attempts, batch  *)
(* size, faults and bounds.                                                *)
(***************************************************************************)
EXTENDS Seckill, FiniteSetTheorems, FunctionTheorems, TLAPS

\* What the constants say of reservation numbers and of processes.
LEMMA Basics ==
    /\ SN \subseteq Nat /\ NoSN \in Nat /\ NoSN \notin SN
    /\ Workers \subseteq Processes
    /\ \A n \in 0..MaxSN : n < MaxSN => n + 1 \in 0..MaxSN /\ n + 1 \in SN
  BY SizesAssumption DEF SN, NoSN, Processes

\* A batch is taken from the messages there are.
LEMMA OldestIsSubset == ASSUME NEW S, NEW n PROVE Oldest(S, n) \subseteq S
  BY DEF Oldest

\* The scalar flags stay Boolean.
LEMMA FlagsStep == Flags /\ [Next]_vars => Flags'
<1>. SUFFICES ASSUME Flags, [Next]_vars PROVE Flags'
  OBVIOUS
<1>1. ASSUME UNCHANGED <<warmed, stockSet, group, enabled>> PROVE Flags'
  BY <1>1 DEF Flags
<1>2. ASSUME NEW u \in Users, Admit(u) \/ Refuse(u) PROVE Flags'
  BY <1>1, <1>2 DEF Admit, Refuse, stockVars, streamVars, mysqlVars
<1>3. ASSUME NEW p \in Processes, Start(p) \/ Crash(p) PROVE Flags'
  BY <1>1, <1>3 DEF Start, Crash, stockVars, streamVars, mysqlVars
<1>4. ASSUME NEW p \in Processes, Warmup(p) PROVE Flags'
  BY <1>4 DEF Flags, Warmup, streamVars, mysqlVars
<1>5. ASSUME NEW w \in Workers, Join(w) PROVE Flags'
  BY <1>5 DEF Flags, Join, stockVars, mysqlVars
<1>6. ASSUME NEW w \in Workers, Deliver(w) \/ Claim(w) \/ Poll(w) PROVE Flags'
  BY <1>1, <1>6 DEF Deliver, Claim, Poll, stockVars, streamVars, mysqlVars, vars
<1>7. ASSUME NEW w \in Workers, Handle(w) PROVE Flags'
  <2>1. CASE Begin(w) \/ BarrierRefuses(w) \/ DuplicateKey(w) \/ ScheduleClose(w)
    BY <1>1, <2>1 DEF Begin, BarrierRefuses, DuplicateKey, ScheduleClose, stockVars, streamVars, mysqlVars
  <2>2. CASE CommitOrder(w) \/ Fail(w) \/ Ack(w)
    BY <1>1, <2>2 DEF CommitOrder, Store, Fail, Ack, stockVars, streamVars, mysqlVars
  <2>3. CASE Complete(w)
    BY <2>3 DEF Flags, Complete, CompleteScript, streamVars, mysqlVars
  <2>4. CASE Compensate(w)
    BY <2>4 DEF Flags, Compensate, streamVars, mysqlVars
  <2>. QED
    BY <1>7, <2>1, <2>2, <2>3, <2>4 DEF Handle
<1>8. ASSUME NEW w \in Workers, Failure(w) PROVE Flags'
  <2>1. CASE BeginFails(w) \/ InsertFails(w) \/ CountFails(w) \/ CompensateFails(w)
    BY <1>1, <2>1 DEF BeginFails, InsertFails, CountFails, CompensateFails, stockVars, streamVars, mysqlVars
  <2>2. CASE CommitUnknown(w)
    BY <1>1, <2>2 DEF CommitUnknown, Store, stockVars, streamVars
  <2>3. CASE CompleteFails(w)
    BY <2>3 DEF Flags, CompleteFails, CompleteScript, stockVars, streamVars, mysqlVars
  <2>. QED
    BY <1>8, <2>1, <2>2, <2>3 DEF Failure
<1>9. CASE LoseRedis
  BY <1>9 DEF Flags, LoseRedis, mysqlVars
<1>10. CASE Tick
  BY <1>1, <1>10 DEF Tick, stockVars, streamVars, mysqlVars
<1>11. CASE Disable
  BY <1>11 DEF Flags, Disable, stockVars, streamVars
<1>12. CASE UNCHANGED vars
  BY <1>1, <1>12 DEF vars, stockVars, streamVars, mysqlVars
<1>. QED
  BY <1>2, <1>3, <1>4, <1>5, <1>6, <1>7, <1>8, <1>9, <1>10, <1>11, <1>12 DEF Next, Boot

\* The MySQL rows keep their types.
LEMMA RowsStep == Rows /\ Locals /\ [Next]_vars => Rows'
<1>. SUFFICES ASSUME Rows, Locals, [Next]_vars PROVE Rows'
  OBVIOUS
<1>. USE DEF Rows, mysqlVars
<1>1. ASSUME NEW u \in Users, Admit(u) \/ Refuse(u) PROVE Rows'
  BY <1>1 DEF Admit, Refuse
<1>2. ASSUME NEW p \in Processes, Start(p) \/ Warmup(p) \/ Crash(p) PROVE Rows'
  BY <1>2 DEF Start, Warmup, Crash
<1>3. ASSUME NEW w \in Workers, Join(w) \/ Deliver(w) \/ Claim(w) \/ Poll(w) PROVE Rows'
  BY <1>3 DEF Join, Deliver, Claim, Poll, vars
<1>4. ASSUME NEW w \in Workers, CommitOrder(w) \/ CommitUnknown(w) PROVE Rows'
  BY <1>4 DEF CommitOrder, CommitUnknown, Store, Locals
<1>5. ASSUME NEW w \in Workers, Handle(w), ~CommitOrder(w) PROVE Rows'
  BY <1>5 DEF Handle, Begin, BarrierRefuses, DuplicateKey, ScheduleClose, Complete, Fail, Compensate, Ack
<1>6. ASSUME NEW w \in Workers, Failure(w), ~CommitUnknown(w) PROVE Rows'
  BY <1>6 DEF Failure, BeginFails, InsertFails, CompleteFails, CountFails, CompensateFails
<1>7. CASE LoseRedis \/ Tick \/ Disable
  BY <1>7 DEF LoseRedis, Tick, Disable
<1>8. CASE UNCHANGED vars
  BY <1>8 DEF vars
<1>. QED
  BY <1>1, <1>2, <1>3, <1>4, <1>5, <1>6, <1>7, <1>8 DEF Next, Boot, Handle, Failure

\* The clock and the count of faults keep their types.
LEMMA SurroundingsStep == Surroundings /\ [Next]_vars => Surroundings'
<1>. SUFFICES ASSUME Surroundings, [Next]_vars PROVE Surroundings'
  OBVIOUS
<1>. USE DEF Surroundings, envVars
<1>1. ASSUME NEW u \in Users, Admit(u) \/ Refuse(u) PROVE Surroundings'
  BY <1>1 DEF Admit, Refuse
<1>2. ASSUME NEW p \in Processes, Start(p) \/ Warmup(p) PROVE Surroundings'
  BY <1>2 DEF Start, Warmup
<1>3. ASSUME NEW p \in Processes, Crash(p) PROVE Surroundings'
  BY <1>3 DEF Crash, Fault
<1>4. ASSUME NEW w \in Workers, Join(w) \/ Deliver(w) \/ Claim(w) \/ Poll(w) PROVE Surroundings'
  BY <1>4 DEF Join, Deliver, Claim, Poll, vars
<1>5. ASSUME NEW w \in Workers, Handle(w) PROVE Surroundings'
  BY <1>5 DEF Handle, Begin, CommitOrder, BarrierRefuses, DuplicateKey, ScheduleClose, Complete,
              Fail, Compensate, Ack, Fault
<1>6. ASSUME NEW w \in Workers, Failure(w) PROVE Surroundings'
  BY <1>6 DEF Failure, BeginFails, CommitUnknown, InsertFails, CompleteFails, CountFails,
              CompensateFails, Fault
<1>7. CASE LoseRedis \/ Tick \/ Disable
  BY <1>7 DEF LoseRedis, Tick, Disable, Fault
<1>8. CASE UNCHANGED vars
  BY <1>8 DEF vars
<1>. QED
  BY <1>1, <1>2, <1>3, <1>4, <1>5, <1>6, <1>7, <1>8 DEF Next, Boot

\* The Redis keys keep their types.
LEMMA KeysStep == TypeOK /\ [Next]_vars => Keys'
<1>. SUFFICES ASSUME TypeOK, [Next]_vars PROVE Keys'
  OBVIOUS
<1>. USE DEF TypeOK
<1>1. ASSUME UNCHANGED <<sequence, stockVars, users, resultVars, streamVars, owner, closeTasks>>
      PROVE Keys'
  BY <1>1 DEF Keys, stockVars, resultVars, streamVars
<1>2. ASSUME NEW u \in Users, Admit(u) PROVE Keys'
  BY <1>2, Basics DEF Keys, Admit, Admissible
<1>3. ASSUME NEW u \in Users, Refuse(u) PROVE Keys'
  BY <1>3, Basics DEF Keys, Refuse, stockVars, resultVars, streamVars
<1>4. ASSUME NEW p \in Processes, Warmup(p) PROVE Keys'
  <2>1. base' \in Nat /\ stock' \in Nat
    BY <1>4 DEF Keys, Locals, Warmup
  <2>. QED
    BY <1>4, <2>1 DEF Keys, Warmup, resultVars, streamVars
<1>5. ASSUME NEW w \in Workers, Deliver(w) PROVE Keys'
  BY <1>5, OldestIsSubset DEF Keys, Deliver, stockVars, resultVars
<1>6. ASSUME NEW w \in Workers, ScheduleClose(w) PROVE Keys'
  <2>1. order[w] \in SN \cup {NoSN}
    BY DEF Locals
  <2>2. closeTasks' \subseteq SN \cup {NoSN}
    BY <1>6, <2>1 DEF Keys, ScheduleClose
  <2>. QED
    BY <1>6, <2>2 DEF Keys, ScheduleClose, stockVars, resultVars, streamVars
<1>7. ASSUME NEW w \in Workers, NEW r \in SN, CompleteScript(w, r),
             UNCHANGED <<sequence, users, streamVars, owner, closeTasks>>
      PROVE Keys'
  <2>1. stock' = stock + 1 \/ stock' = stock
    BY <1>7 DEF CompleteScript
  <2>2. restored' \in [SN -> BOOLEAN]
    BY <1>7 DEF CompleteScript, Keys
  <2>3. orderSn' \in [SN -> SN \cup {NoSN}]
    BY <1>7 DEF CompleteScript, Keys, Locals
  <2>4. status' \in [SN -> {"none", "pending", "success", "failed"}]
    BY <1>7 DEF CompleteScript, Keys
  <2>. QED
    BY <1>7, <2>1, <2>2, <2>3, <2>4 DEF Keys, CompleteScript, streamVars
<1>8. ASSUME NEW w \in Workers, Fail(w) \/ CountFails(w) PROVE Keys'
  <2>1. attempts' \in [SN -> Nat]
    BY <1>8 DEF Keys, Locals, Fail, CountFails
  <2>. QED
    BY <1>8, <2>1 DEF Keys, Fail, CountFails, stockVars, streamVars
<1>9. ASSUME NEW w \in Workers, Compensate(w) PROVE Keys'
  <2>1. stock' \in Nat
    BY <1>9 DEF Keys, Compensate
  <2>2. users' \in [Users -> SN \cup {NoSN}] /\ status' \in [SN -> {"none", "pending", "success", "failed"}]
    BY <1>9 DEF Keys, Compensate
  <2>. QED
    BY <1>9, <2>1, <2>2 DEF Keys, Compensate, streamVars
<1>10. ASSUME NEW w \in Workers, Ack(w) PROVE Keys'
  <2>1. pel' \subseteq SN
    BY <1>10 DEF Keys, Ack
  <2>. QED
    BY <1>10, <2>1 DEF Keys, Ack, stockVars, resultVars
<1>11. CASE LoseRedis
  BY <1>11, Basics DEF Keys, LoseRedis
<1>12. ASSUME NEW p \in Processes, Start(p) \/ Crash(p) PROVE Keys'
  BY <1>1, <1>12 DEF Start, Crash
<1>13. ASSUME NEW w \in Workers, Claim(w) \/ Poll(w) PROVE Keys'
  BY <1>1, <1>13 DEF Claim, Poll, vars
<1>14. ASSUME NEW w \in Workers, Join(w) PROVE Keys'
  BY <1>14 DEF Keys, Join, stockVars, resultVars
<1>15. ASSUME NEW w \in Workers, Begin(w) \/ CommitOrder(w) \/ BarrierRefuses(w) \/ DuplicateKey(w)
       PROVE Keys'
  BY <1>1, <1>15 DEF Begin, CommitOrder, BarrierRefuses, DuplicateKey
<1>16. ASSUME NEW w \in Workers, BeginFails(w) \/ CommitUnknown(w) \/ InsertFails(w) \/ CompensateFails(w)
       PROVE Keys'
  BY <1>1, <1>16 DEF BeginFails, CommitUnknown, InsertFails, CompensateFails
<1>17. ASSUME NEW w \in Workers, Complete(w) PROVE Keys'
  BY <1>7, <1>17 DEF Complete, Locals
<1>18. ASSUME NEW w \in Workers, CompleteFails(w) PROVE Keys'
  BY <1>1, <1>7, <1>18 DEF CompleteFails, Locals
<1>19. CASE Tick \/ Disable
  BY <1>1, <1>19 DEF Tick, Disable
<1>20. CASE UNCHANGED vars
  BY <1>1, <1>20 DEF vars
<1>. QED
  BY <1>2, <1>3, <1>4, <1>5, <1>6, <1>8, <1>9, <1>10, <1>11, <1>12, <1>13, <1>14, <1>15, <1>16,
     <1>17, <1>18, <1>19, <1>20 DEF Next, Boot, Handle, Failure

\* What the processes hold keeps its type.
LEMMA LocalsStep == TypeOK /\ [Next]_vars => Locals'
<1>. SUFFICES ASSUME TypeOK, [Next]_vars PROVE Locals'
  OBVIOUS
<1>. USE DEF TypeOK
<1>1. ASSUME UNCHANGED <<pc, batch, localVars>> PROVE Locals'
  BY <1>1 DEF Locals, localVars
<1>2. ASSUME NEW p \in Processes, NEW l \in Labels, Goto(p, l), UNCHANGED <<batch, localVars>>
      PROVE Locals'
  BY <1>2 DEF Locals, Goto, localVars
<1>3. ASSUME NEW w \in Workers, NEW r \in SN, Finish(w, r) PROVE Locals'
  BY <1>3, Basics DEF Locals, Finish, Goto, Labels
<1>4. ASSUME NEW w \in Workers, NEW r \in SN, NEW n \in Nat, GiveUpOrLeave(w, r, n) PROVE Locals'
  BY <1>2, <1>3, <1>4, Basics DEF GiveUpOrLeave, Labels
<1>5. ASSUME NEW w \in Workers, Fails(w) PROVE Locals'
  BY <1>2, <1>5, Basics DEF Fails, Labels
<1>6. ASSUME NEW u \in Users, Admit(u) \/ Refuse(u) PROVE Locals'
  BY <1>1, <1>6 DEF Admit, Refuse
<1>7. ASSUME NEW p \in Processes, Start(p) PROVE Locals'
  <2>1. remaining' \in [Processes -> Nat]
    BY <1>7, SizesAssumption DEF Start, Locals, Keys, Rows
  <2>2. pc' \in [Processes -> Labels]
    BY <1>7 DEF Start, Locals, Goto, Started, Labels
  <2>. QED
    BY <1>7, <2>1, <2>2 DEF Start, Locals
<1>8. ASSUME NEW p \in Processes, Warmup(p) PROVE Locals'
  <2>1. Started(p) \in Labels
    BY DEF Started, Labels
  <2>. QED
    BY <1>2, <1>8, <2>1 DEF Warmup
<1>9. ASSUME NEW p \in Processes, Crash(p) PROVE Locals'
  <2>1. pc' \in [Processes -> Labels] /\ remaining' \in [Processes -> Nat]
    BY <1>9 DEF Crash, Locals, Goto, Labels
  <2>2. batch' \in [Workers -> SUBSET SN] /\ snapshot' \in [Workers -> SUBSET SN]
    BY <1>9 DEF Crash, Locals
  <2>3. order' \in [Workers -> SN \cup {NoSN}]
    BY <1>9 DEF Crash, Locals
  <2>4. restore' \in [Workers -> BOOLEAN] /\ soldOut' \in [Workers -> BOOLEAN]
    BY <1>9 DEF Crash, Locals
  <2>. QED
    BY <2>1, <2>2, <2>3, <2>4 DEF Locals
<1>10. ASSUME NEW w \in Workers, Join(w) PROVE Locals'
  BY <1>2, <1>10, Basics DEF Join, Labels
<1>11. ASSUME NEW w \in Workers, Deliver(w) PROVE Locals'
  <2>1. Oldest(stream, BatchSize) \subseteq SN
    BY OldestIsSubset DEF Keys
  <2>. QED
    BY <1>11, <2>1 DEF Deliver, Locals, localVars
<1>12. ASSUME NEW w \in Workers, Claim(w) PROVE Locals'
  <2>1. PICK idle \in SUBSET pel : batch' = [batch EXCEPT ![w] = Oldest(idle, BatchSize)]
    BY <1>12 DEF Claim
  <2>2. Oldest(idle, BatchSize) \subseteq SN
    BY OldestIsSubset DEF Keys
  <2>. QED
    BY <1>12, <2>1, <2>2 DEF Claim, Locals, localVars
<1>13. ASSUME NEW w \in Workers, Poll(w) PROVE Locals'
  BY <1>1, <1>13 DEF Poll, vars
<1>14. ASSUME NEW w \in Workers, Begin(w) PROVE Locals'
  <2>1. pc' \in [Processes -> Labels]
    BY <1>14, Basics DEF Begin, Locals, Goto, Labels
  <2>2. order' \in [Workers -> SN \cup {NoSN}]
    BY <1>14 DEF Begin, Locals
  <2>3. snapshot' \in [Workers -> SUBSET SN]
    BY <1>14 DEF Begin, Locals, OrdersOfUser, Rows
  <2>. QED
    BY <1>14, <2>1, <2>2, <2>3 DEF Begin, Locals
<1>15. ASSUME NEW w \in Workers, CommitOrder(w) PROVE Locals'
  <2>1. order' \in [Workers -> SN \cup {NoSN}]
    BY <1>15 DEF CommitOrder, Locals
  <2>. QED
    BY <1>15, <2>1, Basics DEF CommitOrder, Locals, Goto, Labels
<1>16. ASSUME NEW w \in Workers, BarrierRefuses(w) PROVE Locals'
  BY <1>16, Basics DEF BarrierRefuses, Locals, Goto, Labels
<1>17. ASSUME NEW w \in Workers, DuplicateKey(w) PROVE Locals'
  <2>1. CASE Fails(w)
    BY <1>5, <2>1
  <2>2. CASE ~Fails(w)
    <3>1. order' \in [Workers -> SN \cup {NoSN}]
      BY <1>17, <2>2 DEF DuplicateKey, Locals
    <3>2. restore' \in [Workers -> BOOLEAN]
      BY <1>17, <2>2 DEF DuplicateKey, Locals
    <3>. QED
      BY <1>17, <2>2, <3>1, <3>2, Basics DEF DuplicateKey, Locals, Goto, Labels
  <2>. QED
    BY <2>1, <2>2
<1>18. ASSUME NEW w \in Workers, ScheduleClose(w) \/ Complete(w) \/ Compensate(w) \/ CompensateFails(w)
       PROVE Locals'
  <2>1. \E l \in Labels : Goto(w, l)
    BY <1>18 DEF ScheduleClose, Complete, Compensate, CompensateFails, Labels
  <2>. QED
    BY <1>2, <1>18, <2>1, Basics DEF ScheduleClose, Complete, Compensate, CompensateFails
<1>19. ASSUME NEW w \in Workers, BeginFails(w) \/ CommitUnknown(w) \/ InsertFails(w) \/ CompleteFails(w)
       PROVE Locals'
  BY <1>5, <1>19 DEF BeginFails, CommitUnknown, InsertFails, CompleteFails
<1>20. ASSUME NEW w \in Workers, Fail(w) PROVE Locals'
  <2>1. PICK r \in SN : GiveUpOrLeave(w, r, attempts[r] + 1)
    BY <1>20 DEF Fail, Locals
  <2>2. attempts[r] + 1 \in Nat
    BY DEF Keys
  <2>. QED
    BY <1>4, <2>1, <2>2
<1>21. ASSUME NEW w \in Workers, CountFails(w) PROVE Locals'
  BY <1>4, <1>21 DEF CountFails, Locals
<1>22. ASSUME NEW w \in Workers, Ack(w) PROVE Locals'
  BY <1>3, <1>22 DEF Ack, Locals
<1>23. CASE LoseRedis \/ Tick \/ Disable
  BY <1>1, <1>23 DEF LoseRedis, Tick, Disable
<1>24. CASE UNCHANGED vars
  BY <1>1, <1>24 DEF vars
<1>. QED
  BY <1>6, <1>7, <1>8, <1>9, <1>10, <1>11, <1>12, <1>13, <1>14, <1>15, <1>16, <1>17, <1>18, <1>19,
     <1>20, <1>21, <1>22, <1>23, <1>24 DEF Next, Boot, Handle, Failure

\* Init has the types, and every action keeps them.
LEMMA TypeCorrect_Init == Init => TypeOK
<1>1. Init => Flags
  BY DEF Init, Flags
<1>2. Init => Keys
  BY Basics, SizesAssumption DEF Init, Keys
<1>3. Init => Rows /\ Surroundings
  BY DEF Init, Rows, Surroundings
<1>4. Init => Locals
  BY Basics DEF Init, Locals, Labels
<1>. QED
  BY <1>1, <1>2, <1>3, <1>4 DEF TypeOK

\* Every step keeps the type of every variable.
LEMMA TypeCorrect_Step == TypeOK /\ [Next]_vars => TypeOK'
  BY FlagsStep, KeysStep, RowsStep, LocalsStep, SurroundingsStep DEF TypeOK

\* Every variable keeps its type in every behaviour.
THEOREM TypeCorrect == Spec => []TypeOK
  BY TypeCorrect_Init, TypeCorrect_Step, PTL DEF Spec

-----------------------------------------------------------------------------
(* The inductive invariant behind the safety properties. *)

Admitted == {r \in SN : owner[r] # NoUser}

\* Messages, results, orders and what workers hold come from admitted requests,
\* and the next number of the counter is new.
Origins ==
    /\ \A r \in Admitted : r <= sequence
    /\ stream \cup pel \cup orders \subseteq Admitted
    /\ \A w \in Workers : batch[w] \subseteq Admitted
    /\ \A r \in SN : status[r] # "none" => r \in Admitted

\* What worker w brings back from MySQL belongs to the user it handles.
HoldsOrder(w) ==
    \A r \in batch[w] : Handles(w, r) =>
        /\ pc[w] \in {"schedule", "complete"} =>
            order[w] \in orders /\ owner[order[w]] = owner[r]
        /\ pc[w] = "insert" => snapshot[w] \subseteq OrdersOfUser(r)

InHand == \A w \in Workers : HoldsOrder(w)

NoStockNoUnits == ~stockSet => stock = 0 /\ base = 0

IInv == /\ TypeOK /\ Origins /\ InHand
        /\ NoOversell /\ OneOrderPerUser
        /\ NoStockNoUnits /\ PendingHoldsPlace /\ StockAccounting
        /\ SuccessHasOrder

-----------------------------------------------------------------------------
(* Footprints: which steps change what. *)

\* The owner of a number changes only when it is admitted.
LEMMA OwnerStep ==
  ASSUME [Next]_vars
  PROVE  (\E u \in Users : Admit(u)) \/ (UNCHANGED owner /\ sequence' \in {sequence, sequence + 1})
<1>1. ASSUME NEW u \in Users, Refuse(u) PROVE UNCHANGED owner /\ sequence' = sequence + 1
  BY <1>1 DEF Refuse
<1>2. ASSUME NEW p \in Processes, Boot(p) \/ Crash(p) PROVE UNCHANGED <<owner, sequence>>
  BY <1>2 DEF Boot, Start, Warmup, Crash
<1>3. ASSUME NEW w \in Workers, Join(w) \/ Deliver(w) \/ Claim(w) \/ Poll(w)
      PROVE UNCHANGED <<owner, sequence>>
  BY <1>3 DEF Join, Deliver, Claim, Poll, vars
<1>4. ASSUME NEW w \in Workers, Handle(w) PROVE UNCHANGED <<owner, sequence>>
  BY <1>4 DEF Handle, Begin, CommitOrder, BarrierRefuses, DuplicateKey, ScheduleClose, Complete,
              Fail, Compensate, Ack
<1>5. ASSUME NEW w \in Workers, Failure(w) PROVE UNCHANGED <<owner, sequence>>
  BY <1>5 DEF Failure, BeginFails, CommitUnknown, InsertFails, CompleteFails, CountFails, CompensateFails
<1>6. CASE LoseRedis \/ Tick \/ Disable \/ UNCHANGED vars
  BY <1>6 DEF LoseRedis, Tick, Disable, vars
<1>. QED
  BY <1>1, <1>2, <1>3, <1>4, <1>5, <1>6 DEF Next

\* Orders change only when a worker's transaction commits.
LEMMA OrdersStep ==
  ASSUME [Next]_vars
  PROVE  \/ UNCHANGED <<orders, sold>>
         \/ \E w \in Workers : \E r \in batch[w] : Store(r) /\ UNCHANGED owner
<1>. USE DEF mysqlVars
<1>1. ASSUME NEW u \in Users, Admit(u) \/ Refuse(u) PROVE UNCHANGED <<orders, sold>>
  BY <1>1 DEF Admit, Refuse
<1>2. ASSUME NEW p \in Processes, Boot(p) \/ Crash(p) PROVE UNCHANGED <<orders, sold>>
  BY <1>2 DEF Boot, Start, Warmup, Crash
<1>3. ASSUME NEW w \in Workers, Join(w) \/ Deliver(w) \/ Claim(w) \/ Poll(w)
      PROVE UNCHANGED <<orders, sold>>
  BY <1>3 DEF Join, Deliver, Claim, Poll, vars
<1>4. ASSUME NEW w \in Workers, CommitOrder(w) \/ CommitUnknown(w)
      PROVE \E r \in batch[w] : Store(r) /\ UNCHANGED owner
  BY <1>4 DEF CommitOrder, CommitUnknown
<1>5. ASSUME NEW w \in Workers, Handle(w), ~CommitOrder(w) PROVE UNCHANGED <<orders, sold>>
  BY <1>5 DEF Handle, Begin, BarrierRefuses, DuplicateKey, ScheduleClose, Complete, Fail, Compensate, Ack
<1>6. ASSUME NEW w \in Workers, Failure(w), ~CommitUnknown(w) PROVE UNCHANGED <<orders, sold>>
  BY <1>6 DEF Failure, BeginFails, InsertFails, CompleteFails, CountFails, CompensateFails
<1>7. CASE LoseRedis \/ Tick \/ Disable \/ UNCHANGED vars
  BY <1>7 DEF LoseRedis, Tick, Disable, vars
<1>. QED
  BY <1>1, <1>2, <1>3, <1>4, <1>5, <1>6, <1>7 DEF Next

\* The Redis stock, places and results change in five ways.
LEMMA ResultStep ==
  ASSUME [Next]_vars
  PROVE  \/ UNCHANGED <<stockSet, stock, base, users, status, restored, orderSn>>
         \/ \E u \in Users : Admit(u)
         \/ \E p \in Processes : Warmup(p)
         \/ \E w \in Workers : \E r \in batch[w] :
              /\ Handles(w, r) /\ pc[w] = "complete" /\ CompleteScript(w, r)
              /\ UNCHANGED <<users, owner, orders>>
         \/ \E w \in Workers : Compensate(w)
         \/ LoseRedis
<1> DEFINE Same == UNCHANGED <<stockSet, stock, base, users, status, restored, orderSn>>
           Completes(w) == \E r \in batch[w] :
              /\ Handles(w, r) /\ pc[w] = "complete" /\ CompleteScript(w, r)
              /\ UNCHANGED <<users, owner, orders>>
<1>. USE DEF stockVars, resultVars
<1>1. ASSUME NEW u \in Users, Refuse(u) PROVE Same
  BY <1>1 DEF Refuse
<1>2. ASSUME NEW p \in Processes, Start(p) \/ Crash(p) PROVE Same
  BY <1>2 DEF Start, Crash
<1>3. ASSUME NEW w \in Workers, Join(w) \/ Deliver(w) \/ Claim(w) \/ Poll(w) PROVE Same
  BY <1>3 DEF Join, Deliver, Claim, Poll, vars
<1>4. ASSUME NEW w \in Workers, Complete(w) PROVE Completes(w)
  BY <1>4 DEF Complete, mysqlVars
<1>5. ASSUME NEW w \in Workers, Handle(w), ~Complete(w), ~Compensate(w) PROVE Same
  BY <1>5 DEF Handle, Begin, CommitOrder, BarrierRefuses, DuplicateKey, ScheduleClose, Fail, Ack
<1>6. ASSUME NEW w \in Workers, CompleteFails(w) PROVE Same \/ Completes(w)
  BY <1>6 DEF CompleteFails, mysqlVars
<1>7. ASSUME NEW w \in Workers, Failure(w), ~CompleteFails(w) PROVE Same
  BY <1>7 DEF Failure, BeginFails, CommitUnknown, InsertFails, CountFails, CompensateFails
<1>8. CASE Tick \/ Disable \/ UNCHANGED vars
  BY <1>8 DEF Tick, Disable, vars
<1>. QED
  BY <1>1, <1>2, <1>3, <1>4, <1>5, <1>6, <1>7, <1>8 DEF Next, Boot

-----------------------------------------------------------------------------
(* One lemma for each part of IInv. *)

\* MySQL's part: a committed step adds one order, within the stock, of a user
\* who had none.
LEMMA SalesStep ==
  ASSUME TypeOK, Origins, NoOversell, OneOrderPerUser, [Next]_vars
  PROVE  NoOversell' /\ OneOrderPerUser'
<1>. USE DEF TypeOK, Rows, Keys
<1>1. IsFiniteSet(orders)
  <2>1. IsFiniteSet(SN)
    BY SizesAssumption, FS_Interval DEF SN
  <2>. QED
    BY <2>1, FS_Subset
<1>2. CASE UNCHANGED <<orders, sold>>
  <2>1. NoOversell'
    BY <1>2 DEF NoOversell
  <2>2. \A q \in orders : owner'[q] = owner[q]
    <3>1. CASE UNCHANGED owner
      BY <3>1
    <3>2. ASSUME NEW u \in Users, Admit(u) PROVE \A q \in orders : owner'[q] = owner[q]
      BY <3>2, Basics DEF Admit, Origins, Admitted
    <3>. QED
      BY <3>1, <3>2, OwnerStep
  <2>. QED
    BY <1>2, <2>1, <2>2 DEF OneOrderPerUser
<1>3. ASSUME NEW w \in Workers, NEW r \in batch[w], Store(r), UNCHANGED owner
      PROVE NoOversell' /\ OneOrderPerUser'
  <2>1. r \notin orders
    BY <1>3 DEF Store, OrdersOfUser
  <2>2. Cardinality(orders') = Cardinality(orders) + 1
    BY <1>1, <1>3, <2>1, FS_AddElement DEF Store
  <2>3. NoOversell'
    BY <1>3, <2>2, SizesAssumption DEF Store, NoOversell
  <2>4. OneOrderPerUser'
    BY <1>3 DEF Store, OrdersOfUser, OneOrderPerUser
  <2>. QED
    BY <2>3, <2>4
<1>. QED
  BY <1>2, <1>3, OrdersStep

\* Committed orders stay, and with them the users they belong to.
LEMMA OrdersStay ==
  ASSUME TypeOK, Origins, [Next]_vars
  PROVE  /\ orders \subseteq orders'
         /\ \A r \in Admitted : owner'[r] = owner[r] /\ r \in Admitted'
<1>1. orders \subseteq orders'
  BY OrdersStep DEF Store
<1>2. ASSUME NEW r \in Admitted PROVE owner'[r] = owner[r]
  <2>1. ASSUME NEW u \in Users, Admit(u) PROVE owner'[r] = owner[r]
    BY <1>2, <2>1, Basics DEF Admit, Origins, Admitted, TypeOK, Keys
  <2>. QED
    BY <2>1, OwnerStep
<1>. QED
  BY <1>1, <1>2 DEF Admitted

\* A user's place and the unit that was taken for it come and go together.
LEMMA AccountsStep ==
  ASSUME TypeOK, Origins, NoStockNoUnits, PendingHoldsPlace, StockAccounting, [Next]_vars
  PROVE  NoStockNoUnits' /\ PendingHoldsPlace' /\ StockAccounting'
<1> DEFINE Kept == NoStockNoUnits' /\ PendingHoldsPlace' /\ StockAccounting'
<1>1. IsFiniteSet(Users) /\ IsFiniteSet(SN)
  BY UsersAssumption, SizesAssumption, FS_Interval DEF SN
<1>2. IsFiniteSet(Places) /\ IsFiniteSet(Restored)
  BY <1>1, FS_Subset DEF Places, Restored
<1>3. Cardinality(Places) \in Nat /\ Cardinality(Restored) \in Nat
  BY <1>2, FS_CardinalityType
<1>4. \A r \in SN : status[r] = "pending" => owner[r] \in Users
  BY DEF Origins, Admitted, TypeOK, Keys
<1>5. CASE UNCHANGED <<stockSet, stock, base, users, status, restored, orderSn>>
  <2>1. \A r \in SN : status[r] = "pending" => owner'[r] = owner[r]
    BY OrdersStay DEF Origins
  <2>2. UNCHANGED <<Places, Restored>>
    BY <1>5 DEF Places, Restored
  <2>. QED
    BY <1>5, <2>1, <2>2 DEF NoStockNoUnits, PendingHoldsPlace, StockAccounting
<1>6. ASSUME NEW u \in Users, Admit(u) PROVE Kept
  <2> DEFINE new == sequence + 1
  <2>1. new \in SN /\ new \notin Admitted /\ new # NoSN
    BY <1>6, Basics DEF Admit, Origins, TypeOK, Keys
  <2>2. Places' = Places \cup {u} /\ u \notin Places
    BY <1>6, <2>1 DEF Admit, Admissible, Places, TypeOK, Keys
  <2>3. Cardinality(Places') = Cardinality(Places) + 1
    BY <1>2, <2>2, FS_AddElement
  <2>4. UNCHANGED Restored
    BY <1>6 DEF Admit, Restored
  <2>5. stock' = stock - 1 /\ base' = base /\ stock > 0
    BY <1>6 DEF Admit, Admissible
  <2>6. StockAccounting'
    BY <1>3, <2>3, <2>4, <2>5 DEF StockAccounting, TypeOK, Keys
  <2>7. PendingHoldsPlace'
    <3>1. ASSUME NEW r \in SN, status'[r] = "pending" PROVE users'[owner'[r]] = r
      <4>1. CASE r = new
        BY <1>6, <2>1, <4>1 DEF Admit, TypeOK, Keys
      <4>2. CASE r # new
        <5>1. status[r] = "pending" /\ owner'[r] = owner[r]
          BY <1>6, <3>1, <4>2 DEF Admit, TypeOK, Keys
        <5>2. users[owner[r]] = r /\ r # NoSN
          BY <5>1, Basics DEF PendingHoldsPlace
        <5>. QED
          BY <1>6, <5>1, <5>2, <1>4 DEF Admit, Admissible, TypeOK, Keys
      <4>. QED
        BY <4>1, <4>2
    <3>. QED
      BY <3>1 DEF PendingHoldsPlace
  <2>8. NoStockNoUnits'
    BY <1>6, <2>5 DEF Admit, NoStockNoUnits
  <2>. QED
    BY <2>6, <2>7, <2>8
<1>7. ASSUME NEW p \in Processes, Warmup(p) PROVE Kept
  <2>1. UNCHANGED <<users, status, restored, owner>>
    BY <1>7 DEF Warmup, resultVars
  <2>2. stock' + base = stock + base' /\ stock' \in Nat /\ base' \in Nat
    BY <1>7 DEF Warmup, NoStockNoUnits, TypeOK, Keys, Locals
  <2>3. UNCHANGED <<Places, Restored>>
    BY <2>1 DEF Places, Restored
  <2>4. StockAccounting'
    <3>1. stock \in Nat /\ base \in Nat
      BY DEF TypeOK, Keys
    <3>2. Cardinality(Places') = Cardinality(Places) /\ Cardinality(Restored') = Cardinality(Restored)
      BY <2>3
    <3>3. stock + Cardinality(Places) = base + Cardinality(Restored)
      BY DEF StockAccounting
    <3>4. stock' + Cardinality(Places) = base' + Cardinality(Restored)
      BY <1>3, <2>2, <3>1, <3>3
    <3>. QED
      BY <3>2, <3>4 DEF StockAccounting
  <2>5. stockSet'
    BY <1>7 DEF Warmup
  <2>. QED
    BY <2>1, <2>4, <2>5 DEF NoStockNoUnits, PendingHoldsPlace
<1>8. ASSUME NEW w \in Workers, NEW r \in batch[w], CompleteScript(w, r), UNCHANGED <<users, owner>>
      PROVE Kept
  <2>1. r \in SN
    BY DEF TypeOK, Locals
  <2>2. PendingHoldsPlace'
    BY <1>8, <2>1 DEF CompleteScript, PendingHoldsPlace, TypeOK, Keys
  <2>3. UNCHANGED <<base, Places>>
    BY <1>8 DEF CompleteScript, Places
  <2>4. CASE restore[w] /\ ~restored[r]
    <3>1. stock' = stock + 1 /\ stockSet'
      BY <1>8, <2>4 DEF CompleteScript
    <3>2. Restored' = Restored \cup {r} /\ r \notin Restored
      BY <1>8, <2>1, <2>4 DEF CompleteScript, Restored, TypeOK, Keys
    <3>3. Cardinality(Restored') = Cardinality(Restored) + 1
      BY <1>2, <3>2, FS_AddElement
    <3>4. StockAccounting'
      BY <1>3, <2>3, <3>1, <3>3 DEF StockAccounting, TypeOK, Keys
    <3>. QED
      BY <2>2, <3>1, <3>4 DEF NoStockNoUnits
  <2>5. CASE ~(restore[w] /\ ~restored[r])
    <3>1. UNCHANGED <<stock, stockSet, restored>>
      BY <1>8, <2>5 DEF CompleteScript
    <3>. QED
      BY <2>2, <2>3, <3>1 DEF NoStockNoUnits, StockAccounting, Restored
  <2>. QED
    BY <2>4, <2>5
<1>9. ASSUME NEW w \in Workers, Compensate(w) PROVE Kept
  <2>1. PICK r \in SN : IF Compensable(r)
                        THEN /\ stock' = stock + 1
                             /\ stockSet' = TRUE
                             /\ users' = [users EXCEPT ![owner[r]] = NoSN]
                             /\ status' = [status EXCEPT ![r] = "failed"]
                        ELSE UNCHANGED <<stock, stockSet, users, status>>
    BY <1>9 DEF Compensate, TypeOK, Locals
  <2>2. UNCHANGED <<base, restored, owner, Restored>>
    BY <1>9 DEF Compensate, Restored
  <2>3. CASE Compensable(r)
    <3>1. owner[r] \in Users /\ users[owner[r]] = r /\ r # NoSN
      BY <1>4, <2>3, Basics DEF Compensable, PendingHoldsPlace
    <3>2. Places' = Places \ {owner[r]} /\ owner[r] \in Places
      BY <2>1, <2>3, <3>1 DEF Places, TypeOK, Keys
    <3>3. Cardinality(Places') = Cardinality(Places) - 1
      BY <1>2, <3>2, FS_RemoveElement
    <3>4. StockAccounting'
      BY <1>3, <2>1, <2>2, <2>3, <3>3 DEF StockAccounting, TypeOK, Keys
    <3>5. PendingHoldsPlace'
      <4>1. ASSUME NEW q \in SN, status'[q] = "pending" PROVE users'[owner'[q]] = q
        <5>1. q # r /\ status[q] = "pending"
          BY <2>1, <2>3, <4>1 DEF TypeOK, Keys
        <5>2. users[owner[q]] = q /\ owner[q] \in Users
          BY <1>4, <5>1 DEF PendingHoldsPlace
        <5>3. owner[q] # owner[r]
          BY <3>1, <5>1, <5>2
        <5>. QED
          BY <2>1, <2>2, <2>3, <5>2, <5>3 DEF TypeOK, Keys
      <4>. QED
        BY <4>1 DEF PendingHoldsPlace
    <3>. QED
      BY <2>1, <2>3, <3>4, <3>5 DEF NoStockNoUnits
  <2>4. CASE ~Compensable(r)
    <3>1. UNCHANGED <<stock, stockSet, users, status, Places>>
      BY <2>1, <2>4 DEF Places
    <3>. QED
      BY <2>2, <3>1 DEF NoStockNoUnits, StockAccounting, PendingHoldsPlace
  <2>. QED
    BY <2>3, <2>4
<1>10. CASE LoseRedis
  <2>1. Places' = {} /\ Restored' = {}
    BY <1>10 DEF LoseRedis, Places, Restored
  <2>2. stock' = 0 /\ base' = 0
    BY <1>10 DEF LoseRedis
  <2>3. StockAccounting'
    BY <2>1, <2>2, FS_EmptySet DEF StockAccounting
  <2>4. PendingHoldsPlace'
    BY <1>10 DEF LoseRedis, PendingHoldsPlace
  <2>. QED
    BY <2>2, <2>3, <2>4 DEF NoStockNoUnits
<1>. QED
  BY <1>5, <1>6, <1>7, <1>8, <1>9, <1>10, ResultStep

\* Where messages and results come from.
LEMMA OriginsStep ==
  ASSUME TypeOK, Origins, [Next]_vars
  PROVE  Origins'
<1> DEFINE Shrinks ==
      /\ UNCHANGED owner /\ sequence' \in {sequence, sequence + 1}
      /\ stream' \subseteq stream /\ pel' \subseteq pel
      /\ \A w \in Workers : batch'[w] \subseteq batch[w]
      /\ \A r \in orders' : r \in orders \/ \E w \in Workers : r \in batch[w]
      /\ \A r \in SN : status'[r] = "none" \/ status'[r] = status[r]
                        \/ status[r] = "pending" \/ \E w \in Workers : r \in batch[w]
<1>1. ASSUME Shrinks PROVE Origins'
  <2>1. Admitted' = Admitted
    BY <1>1 DEF Admitted
  <2>2. \A r \in Admitted : r <= sequence'
    BY <1>1, Basics DEF Origins, Admitted, TypeOK, Keys
  <2>3. stream' \cup pel' \cup orders' \subseteq Admitted
    BY <1>1 DEF Origins
  <2>4. \A w \in Workers : batch'[w] \subseteq Admitted
    BY <1>1 DEF Origins
  <2>5. \A r \in SN : status'[r] # "none" => r \in Admitted
    BY <1>1 DEF Origins
  <2>. QED
    BY <2>1, <2>2, <2>3, <2>4, <2>5 DEF Origins
<1>. USE DEF stockVars, resultVars, streamVars, mysqlVars, localVars
<1>2. ASSUME NEW u \in Users, Admit(u) PROVE Origins'
  <2> DEFINE new == sequence + 1
  <2>1. new \in SN /\ sequence' = new
    BY <1>2, Basics DEF Admit, TypeOK, Keys
  <2>2. Admitted' = Admitted \cup {new}
    BY <1>2, <2>1, UsersAssumption DEF Admit, Admitted, TypeOK, Keys
  <2>3. \A r \in Admitted' : r <= sequence'
    BY <2>1, <2>2, Basics DEF Origins, Admitted, TypeOK, Keys
  <2>4. stream' \cup pel' \cup orders' \subseteq Admitted'
    BY <1>2, <2>2 DEF Admit, Origins
  <2>5. \A w \in Workers : batch'[w] \subseteq Admitted'
    BY <1>2, <2>2 DEF Admit, Origins
  <2>6. \A r \in SN : status'[r] # "none" => r \in Admitted'
    BY <1>2, <2>2 DEF Admit, Origins, TypeOK, Keys
  <2>. QED
    BY <2>3, <2>4, <2>5, <2>6 DEF Origins
<1>3. ASSUME NEW u \in Users, Refuse(u) PROVE Shrinks
  BY <1>3 DEF Refuse
<1>4. ASSUME NEW p \in Processes, Start(p) \/ Warmup(p) PROVE Shrinks
  BY <1>4 DEF Start, Warmup
<1>5. ASSUME NEW p \in Processes, Crash(p) PROVE Shrinks
  BY <1>5 DEF Crash
<1>6. ASSUME NEW w \in Workers, Join(w) \/ Poll(w) PROVE Shrinks
  BY <1>6 DEF Join, Poll, vars
<1>7. ASSUME NEW w \in Workers, NEW S \in SUBSET (stream \cup pel),
             batch' = [batch EXCEPT ![w] = Oldest(S, BatchSize)],
             stream' \cup pel' = stream \cup pel,
             UNCHANGED <<sequence, owner, status, orders>>
      PROVE Origins'
  <2>1. Admitted' = Admitted
    BY <1>7 DEF Admitted
  <2>2. Oldest(S, BatchSize) \subseteq Admitted
    BY OldestIsSubset DEF Origins
  <2>3. \A v \in Workers : batch'[v] \subseteq Admitted
    BY <1>7, <2>2 DEF Origins, TypeOK, Locals
  <2>. QED
    BY <1>7, <2>1, <2>3 DEF Origins
<1>8. ASSUME NEW w \in Workers, Deliver(w) PROVE Origins'
  <2>1. stream' \cup pel' = stream \cup pel
    BY <1>8, OldestIsSubset DEF Deliver
  <2>. QED
    BY <1>7, <1>8, <2>1 DEF Deliver
<1>9. ASSUME NEW w \in Workers, Claim(w) PROVE Origins'
  BY <1>7, <1>9 DEF Claim
<1>10. ASSUME NEW w \in Workers,
              Begin(w) \/ BarrierRefuses(w) \/ DuplicateKey(w) \/ ScheduleClose(w)
       PROVE Shrinks
  BY <1>10 DEF Begin, BarrierRefuses, DuplicateKey, ScheduleClose, Fails
<1>11. ASSUME NEW w \in Workers, CommitOrder(w) \/ CommitUnknown(w) PROVE Shrinks
  <2>1. \A r \in orders' : r \in orders \/ r \in batch[w]
    BY <1>11 DEF CommitOrder, CommitUnknown, Store
  <2>. QED
    BY <1>11, <2>1 DEF CommitOrder, CommitUnknown, Fails
<1>12. ASSUME NEW w \in Workers, Complete(w) \/ CompleteFails(w) PROVE Shrinks
  <2>1. \A r \in SN : status'[r] = status[r] \/ r \in batch[w]
    BY <1>12 DEF Complete, CompleteFails, CompleteScript, TypeOK, Keys
  <2>. QED
    BY <1>12, <2>1 DEF Complete, CompleteFails, Fails
<1>13. ASSUME NEW w \in Workers, NEW r \in SN, Finish(w, r) \/ UNCHANGED batch
       PROVE \A v \in Workers : batch'[v] \subseteq batch[v]
  BY <1>13 DEF Finish, TypeOK, Locals
<1>14. ASSUME NEW w \in Workers, Fail(w) \/ CountFails(w) PROVE Shrinks
  <2>1. \A v \in Workers : batch'[v] \subseteq batch[v]
    BY <1>13, <1>14 DEF Fail, CountFails, GiveUpOrLeave, TypeOK, Locals
  <2>. QED
    BY <1>14, <2>1 DEF Fail, CountFails
<1>15. ASSUME NEW w \in Workers, Ack(w) PROVE Shrinks
  <2>1. \A v \in Workers : batch'[v] \subseteq batch[v]
    BY <1>13, <1>15 DEF Ack, TypeOK, Locals
  <2>. QED
    BY <1>15, <2>1 DEF Ack
<1>16. ASSUME NEW w \in Workers, Compensate(w) PROVE Shrinks
  <2>1. \A r \in SN : status'[r] = status[r] \/ r \in batch[w]
    BY <1>16 DEF Compensate, TypeOK, Keys
  <2>. QED
    BY <1>16, <2>1 DEF Compensate
<1>17. ASSUME NEW w \in Workers, BeginFails(w) \/ InsertFails(w) \/ CompensateFails(w) PROVE Shrinks
  BY <1>17 DEF BeginFails, InsertFails, CompensateFails, Fails
<1>18. CASE LoseRedis
  BY <1>1, <1>18 DEF LoseRedis
<1>19. CASE Tick \/ Disable \/ UNCHANGED vars
  BY <1>1, <1>19 DEF Tick, Disable, vars
<1>20. (\E u \in Users : Admit(u)) \/ (\E w \in Workers : Deliver(w) \/ Claim(w)) \/ LoseRedis
       \/ Tick \/ Disable \/ UNCHANGED vars \/ Shrinks
  BY <1>3, <1>4, <1>5, <1>6, <1>10, <1>11, <1>12, <1>14, <1>15, <1>16, <1>17
     DEF Next, Boot, Handle, Failure
<1>. QED
  BY <1>1, <1>2, <1>8, <1>9, <1>18, <1>19, <1>20

\* What a worker holds from MySQL stays right while it holds it.
LEMMA InHandStep ==
  ASSUME TypeOK, Origins, InHand, [Next]_vars
  PROVE  InHand'
<1> DEFINE Holding == {"insert", "schedule", "complete"}
           Same(v) == /\ batch'[v] = batch[v] /\ pc'[v] = pc[v]
                      /\ order'[v] = order[v] /\ snapshot'[v] = snapshot[v]
           Others(w) == \A v \in Workers \ {w} : Same(v)
<1>1. ASSUME NEW v \in Workers, Same(v) PROVE HoldsOrder(v)'
  <2>1. ASSUME NEW r \in batch[v], Handles(v, r) PROVE Handles(v, r)' /\ owner'[r] = owner[r] /\ r \in Admitted
    BY <1>1, <2>1, OrdersStay DEF Handles, Origins
  <2>2. ASSUME NEW r \in batch'[v], Handles(v, r)' PROVE r \in batch[v] /\ Handles(v, r)
    BY <1>1, <2>2 DEF Handles
  <2>3. ASSUME NEW r \in batch[v], Handles(v, r), pc[v] \in {"schedule", "complete"}
        PROVE order[v] \in orders' /\ owner'[order[v]] = owner'[r]
    <3>1. order[v] \in orders /\ owner[order[v]] = owner[r]
      BY <2>3 DEF InHand, HoldsOrder
    <3>. QED
      BY <2>1, <2>3, <3>1, OrdersStay DEF Origins
  <2>4. ASSUME NEW r \in batch[v], Handles(v, r), pc[v] = "insert"
        PROVE snapshot[v] \subseteq {q \in orders' : owner'[q] = owner'[r]}
    <3>1. snapshot[v] \subseteq {q \in orders : owner[q] = owner[r]}
      BY <2>4 DEF InHand, HoldsOrder, OrdersOfUser
    <3>. QED
      BY <2>1, <2>4, <3>1, OrdersStay DEF Origins
  <2>. QED
    BY <1>1, <2>2, <2>3, <2>4 DEF HoldsOrder, OrdersOfUser
<1>2. ASSUME NEW v \in Workers, pc'[v] \notin Holding PROVE HoldsOrder(v)'
  BY <1>2 DEF HoldsOrder
<1>3. ASSUME NEW w \in Workers, Others(w), HoldsOrder(w)' PROVE InHand'
  BY <1>1, <1>3 DEF InHand
<1>4. ASSUME \A v \in Workers : Same(v) PROVE InHand'
  BY <1>1, <1>4 DEF InHand
<1>. USE DEF localVars
<1>5. ASSUME NEW u \in Users, Admit(u) \/ Refuse(u) PROVE InHand'
  BY <1>4, <1>5 DEF Admit, Refuse
<1>6. ASSUME NEW p \in Processes, Start(p) \/ Warmup(p) \/ Crash(p) PROVE InHand'
  <2>1. ASSUME NEW v \in Workers PROVE Same(v) \/ pc'[v] \notin Holding
    <3>1. CASE v = p
      BY <1>6, <3>1 DEF Start, Warmup, Crash, Goto, Started, TypeOK, Locals
    <3>2. CASE v # p
      BY <1>6, <3>2, Basics DEF Start, Warmup, Crash, Goto, TypeOK, Locals
    <3>. QED
      BY <3>1, <3>2
  <2>. QED
    BY <1>1, <1>2, <2>1 DEF InHand
<1>7. ASSUME NEW w \in Workers, Join(w) \/ Deliver(w) \/ Claim(w) PROVE InHand'
  <2>1. Others(w)
    BY <1>7, Basics DEF Join, Deliver, Claim, Goto, TypeOK, Locals
  <2>2. pc'[w] \notin Holding
    BY <1>7, Basics DEF Join, Deliver, Claim, Goto, TypeOK, Locals
  <2>. QED
    BY <1>2, <1>3, <2>1, <2>2
<1>8. ASSUME NEW w \in Workers, Begin(w) PROVE InHand'
  <2>1. Others(w)
    BY <1>8, Basics DEF Begin, Goto, TypeOK, Locals
  <2>2. PICK r \in batch[w] : Handles(w, r)
           /\ IF r \in orders
              THEN pc'[w] = "complete" /\ order'[w] = r
              ELSE pc'[w] = "insert" /\ snapshot'[w] = OrdersOfUser(r)
    BY <1>8, Basics DEF Begin, Goto, TypeOK, Locals
  <2>3. UNCHANGED <<batch, orders, owner>>
    BY <1>8 DEF Begin, mysqlVars
  <2>4. \A q \in batch'[w] : Handles(w, q)' => q = r
    BY <2>2, <2>3 DEF Handles, TypeOK, Locals, SN
  <2>5. HoldsOrder(w)'
    BY <2>2, <2>3, <2>4 DEF HoldsOrder, OrdersOfUser
  <2>. QED
    BY <1>3, <2>1, <2>5
<1>9. ASSUME NEW w \in Workers, CommitOrder(w) PROVE InHand'
  <2>1. Others(w)
    BY <1>9, Basics DEF CommitOrder, Goto, TypeOK, Locals
  <2>2. PICK r \in batch[w] : Handles(w, r) /\ order'[w] = r /\ r \in orders'
    BY <1>9 DEF CommitOrder, Store, TypeOK, Locals
  <2>3. UNCHANGED <<batch, owner>> /\ pc'[w] = "schedule"
    BY <1>9, Basics DEF CommitOrder, Goto, TypeOK, Locals
  <2>4. \A q \in batch'[w] : Handles(w, q)' => q = r
    BY <2>2, <2>3 DEF Handles, TypeOK, Locals, SN
  <2>5. HoldsOrder(w)'
    BY <2>2, <2>3, <2>4 DEF HoldsOrder
  <2>. QED
    BY <1>3, <2>1, <2>5
<1>10. ASSUME NEW w \in Workers, DuplicateKey(w) PROVE InHand'
  <2>1. Others(w)
    BY <1>10, Basics DEF DuplicateKey, Fails, Goto, TypeOK, Locals
  <2>2. CASE pc'[w] = "fail"
    BY <1>2, <1>3, <2>1, <2>2
  <2>3. CASE pc'[w] # "fail"
    <3>1. PICK q \in snapshot[w] : order'[w] = q /\ pc'[w] = "complete"
      BY <1>10, <2>3, Basics DEF DuplicateKey, Fails, Goto, TypeOK, Locals
    <3>2. UNCHANGED <<batch, orders, owner>> /\ pc[w] = "insert"
      BY <1>10 DEF DuplicateKey, Fails, mysqlVars
    <3>3. ASSUME NEW r \in batch[w], Handles(w, r) PROVE q \in orders /\ owner[q] = owner[r]
      BY <3>2, <3>3 DEF InHand, HoldsOrder, OrdersOfUser
    <3>4. HoldsOrder(w)'
      BY <3>1, <3>2, <3>3 DEF HoldsOrder, Handles
    <3>. QED
      BY <1>3, <2>1, <3>4
  <2>. QED
    BY <2>2, <2>3
<1>11. ASSUME NEW w \in Workers, ScheduleClose(w) PROVE InHand'
  <2>1. Others(w)
    BY <1>11, Basics DEF ScheduleClose, Goto, TypeOK, Locals
  <2>2. UNCHANGED <<batch, orders, owner, order>> /\ pc[w] = "schedule" /\ pc'[w] = "complete"
    BY <1>11, Basics DEF ScheduleClose, Goto, mysqlVars, TypeOK, Locals
  <2>3. HoldsOrder(w)'
    BY <2>2 DEF HoldsOrder, Handles, InHand
  <2>. QED
    BY <1>3, <2>1, <2>3
<1>12. ASSUME NEW w \in Workers,
              \/ BarrierRefuses(w) \/ Complete(w) \/ Compensate(w)
              \/ BeginFails(w) \/ CommitUnknown(w) \/ InsertFails(w) \/ CompleteFails(w)
              \/ CompensateFails(w)
       PROVE InHand'
  <2>1. \E l \in {"fail", "ack"} : Goto(w, l)
    BY <1>12 DEF BarrierRefuses, Complete, Compensate, BeginFails, CommitUnknown, InsertFails,
                 CompleteFails, CompensateFails, Fails
  <2>2. UNCHANGED <<batch, order, snapshot>>
    BY <1>12 DEF BarrierRefuses, Complete, Compensate, BeginFails, CommitUnknown, InsertFails,
                 CompleteFails, CompensateFails, Fails
  <2>3. Others(w) /\ pc'[w] \notin Holding
    BY <2>1, <2>2, Basics DEF Goto, TypeOK, Locals
  <2>. QED
    BY <1>2, <1>3, <2>3
<1>13. ASSUME NEW w \in Workers, NEW r \in SN, Finish(w, r) PROVE InHand'
  <2>1. Others(w) /\ pc'[w] \notin Holding
    BY <1>13, Basics DEF Finish, Goto, TypeOK, Locals
  <2>. QED
    BY <1>2, <1>3, <2>1
<1>14. ASSUME NEW w \in Workers, NEW r \in SN, NEW n \in Nat, GiveUpOrLeave(w, r, n) PROVE InHand'
  <2>1. CASE Finish(w, r)
    BY <1>13, <2>1
  <2>2. CASE ~Finish(w, r)
    <3>1. Others(w) /\ pc'[w] \notin Holding
      BY <1>14, <2>2, Basics DEF GiveUpOrLeave, Goto, TypeOK, Locals
    <3>. QED
      BY <1>2, <1>3, <3>1
  <2>. QED
    BY <2>1, <2>2
<1>15. ASSUME NEW w \in Workers, Fail(w) \/ CountFails(w) \/ Ack(w) PROVE InHand'
  <2>1. ASSUME NEW r \in SN PROVE attempts[r] + 1 \in Nat
    BY DEF TypeOK, Keys
  <2>2. CASE Fail(w)
    BY <1>14, <2>1, <2>2 DEF Fail, TypeOK, Locals
  <2>3. CASE CountFails(w)
    BY <1>14, <2>3 DEF CountFails, TypeOK, Locals
  <2>4. CASE Ack(w)
    BY <1>13, <2>4 DEF Ack, TypeOK, Locals
  <2>. QED
    BY <1>15, <2>2, <2>3, <2>4
<1>16. ASSUME NEW w \in Workers, Poll(w) PROVE InHand'
  BY <1>4, <1>16 DEF Poll, vars
<1>17. CASE LoseRedis \/ Tick \/ Disable \/ UNCHANGED vars
  BY <1>4, <1>17 DEF LoseRedis, Tick, Disable, vars
<1>. QED
  BY <1>5, <1>6, <1>7, <1>8, <1>9, <1>10, <1>11, <1>12, <1>15, <1>16, <1>17
     DEF Next, Boot, Handle, Failure

\* A result that says success names an order of its user.
LEMMA SuccessStep ==
  ASSUME TypeOK, Origins, InHand, SuccessHasOrder, [Next]_vars
  PROVE  SuccessHasOrder'
<1>. USE DEF TypeOK, Keys
<1>1. ASSUME NEW r \in SN, status[r] = "success", orderSn'[r] = orderSn[r]
      PROVE orderSn'[r] \in orders' /\ owner'[orderSn'[r]] = owner'[r]
  BY <1>1, OrdersStay DEF SuccessHasOrder, Origins
<1>2. ASSUME \A r \in SN : status'[r] = "success" => status[r] = "success" /\ orderSn'[r] = orderSn[r]
      PROVE SuccessHasOrder'
  BY <1>1, <1>2 DEF SuccessHasOrder
<1>3. CASE UNCHANGED <<stockSet, stock, base, users, status, restored, orderSn>>
  BY <1>2, <1>3
<1>4. ASSUME NEW u \in Users, Admit(u) PROVE SuccessHasOrder'
  BY <1>2, <1>4 DEF Admit
<1>5. ASSUME NEW p \in Processes, Warmup(p) PROVE SuccessHasOrder'
  BY <1>2, <1>5 DEF Warmup, resultVars
<1>6. ASSUME NEW w \in Workers, NEW r \in batch[w], Handles(w, r), pc[w] = "complete",
             CompleteScript(w, r), UNCHANGED <<users, owner, orders>>
      PROVE SuccessHasOrder'
  <2>1. r \in SN /\ order[w] \in orders /\ owner[order[w]] = owner[r]
    BY <1>6 DEF InHand, HoldsOrder, Locals
  <2>2. ASSUME NEW q \in SN, status'[q] = "success"
        PROVE orderSn'[q] \in orders' /\ owner'[orderSn'[q]] = owner'[q]
    <3>1. CASE q = r
      BY <1>6, <2>1, <3>1 DEF CompleteScript
    <3>2. CASE q # r
      <4>1. status[q] = "success" /\ orderSn'[q] = orderSn[q]
        BY <1>6, <2>2, <3>2 DEF CompleteScript
      <4>. QED
        BY <1>1, <4>1
    <3>. QED
      BY <3>1, <3>2
  <2>. QED
    BY <2>2 DEF SuccessHasOrder
<1>7. ASSUME NEW w \in Workers, Compensate(w) PROVE SuccessHasOrder'
  <2>1. \A r \in SN : status'[r] = "success" => status[r] = "success"
    BY <1>7 DEF Compensate, Locals
  <2>2. orderSn' = orderSn
    BY <1>7 DEF Compensate
  <2>. QED
    BY <1>2, <2>1, <2>2
<1>8. CASE LoseRedis
  BY <1>8 DEF LoseRedis, SuccessHasOrder
<1>. QED
  BY <1>3, <1>4, <1>5, <1>6, <1>7, <1>8, ResultStep

-----------------------------------------------------------------------------
\* The whole invariant is inductive.
THEOREM Invariance == Spec => []IInv
<1>1. Init => IInv
  <2>1. Init => TypeOK
    BY TypeCorrect_Init
  <2>2. Init => Origins /\ InHand
    BY DEF Init, Origins, Admitted, InHand, HoldsOrder
  <2>3. Init => NoOversell /\ OneOrderPerUser
    BY FS_EmptySet, SizesAssumption DEF Init, NoOversell, OneOrderPerUser
  <2>4. Init => NoStockNoUnits /\ PendingHoldsPlace /\ SuccessHasOrder
    BY DEF Init, NoStockNoUnits, PendingHoldsPlace, SuccessHasOrder
  <2>5. Init => StockAccounting
    <3>. SUFFICES ASSUME Init PROVE StockAccounting
      OBVIOUS
    <3>1. Places = {} /\ Restored = {}
      BY DEF Init, Places, Restored
    <3>2. stock = 0 /\ base = 0
      BY DEF Init
    <3>. QED
      BY <3>1, <3>2, FS_EmptySet DEF StockAccounting
  <2>. QED
    BY <2>1, <2>2, <2>3, <2>4, <2>5 DEF IInv
<1>2. IInv /\ [Next]_vars => IInv'
  BY TypeCorrect_Step, OriginsStep, InHandStep, SalesStep, AccountsStep, SuccessStep DEF IInv
<1>. QED
  BY <1>1, <1>2, PTL DEF Spec

\* Whatever the faults, MySQL never sells more than the stock.
THEOREM NeverOversold == Spec => []NoOversell
  BY Invariance, PTL DEF IInv

\* Whatever Redis forgets, a user has at most one order of the activity.
THEOREM OneEach == Spec => []OneOrderPerUser
  BY Invariance, PTL DEF IInv

\* No unit of the Redis stock is returned twice, and none is made up.
THEOREM StockAccounted == Spec => []StockAccounting
  BY Invariance, PTL DEF IInv

\* Compensation frees the place of the reservation it gives up.
THEOREM PlacesHeld == Spec => []PendingHoldsPlace
  BY Invariance, PTL DEF IInv

\* Success is only told of a committed order of the same user.
THEOREM SuccessBacked == Spec => []SuccessHasOrder
  BY Invariance, PTL DEF IInv

-----------------------------------------------------------------------------
(* Delivery, while Redis answers. *)

\* Worker v neither moves nor is given anything.
Still(v) == /\ pc'[v] = pc[v] /\ batch'[v] = batch[v] /\ snapshot'[v] = snapshot[v]
            /\ order'[v] = order[v] /\ soldOut'[v] = soldOut[v]

\* A step of one worker through its message does not touch another.
LEMMA OthersStill ==
  ASSUME TypeOK, NEW w \in Workers, Handle(w) \/ Failure(w), NEW v \in Workers \ {w}
  PROVE  Still(v)
<1>. USE DEF TypeOK, Locals, localVars
<1>1. ASSUME NEW l \in Labels, Goto(w, l), UNCHANGED <<batch, localVars>>
      PROVE Still(v)
  BY <1>1, Basics DEF Goto, Still
<1>2. ASSUME NEW r \in SN, Finish(w, r) PROVE Still(v)
  BY <1>2, Basics DEF Finish, Goto, Still
<1>3. CASE Handle(w)
  <2>1. CASE Begin(w)
    BY <2>1, Basics DEF Begin, Goto, Still
  <2>2. CASE CommitOrder(w)
    BY <2>2, Basics DEF CommitOrder, Goto, Still
  <2>3. CASE BarrierRefuses(w)
    BY <2>3, Basics DEF BarrierRefuses, Goto, Still
  <2>4. CASE DuplicateKey(w)
    <3>1. CASE Fails(w)
      BY <1>1, <3>1 DEF Fails, Labels
    <3>2. CASE ~Fails(w)
      BY <2>4, <3>2, Basics DEF DuplicateKey, Goto, Still
    <3>. QED
      BY <3>1, <3>2
  <2>5. CASE ScheduleClose(w) \/ Complete(w) \/ Compensate(w)
    BY <1>1, <2>5 DEF ScheduleClose, Complete, Compensate, Labels
  <2>6. CASE Fail(w)
    BY <1>1, <1>2, <2>6 DEF Fail, GiveUpOrLeave, Labels
  <2>7. CASE Ack(w)
    BY <1>2, <2>7 DEF Ack
  <2>. QED
    BY <1>3, <2>1, <2>2, <2>3, <2>4, <2>5, <2>6, <2>7 DEF Handle
<1>4. CASE Failure(w)
  <2>1. CASE BeginFails(w) \/ CommitUnknown(w) \/ InsertFails(w) \/ CompleteFails(w)
    BY <1>1, <2>1 DEF BeginFails, CommitUnknown, InsertFails, CompleteFails, Fails, Labels
  <2>2. CASE CountFails(w)
    BY <1>1, <1>2, <2>2 DEF CountFails, GiveUpOrLeave, Labels
  <2>3. CASE CompensateFails(w)
    BY <1>1, <2>3 DEF CompensateFails, Labels
  <2>. QED
    BY <1>4, <2>1, <2>2, <2>3 DEF Failure
<1>. QED
  BY <1>3, <1>4

\* Worker v comes to rest outside the loop, or between two messages.
Rests(v) == /\ pc'[v] \in {"off", "warmup", "serving", "join", "idle"}
            /\ soldOut'[v] => soldOut[v] /\ pc[v] \in {"off", "warmup", "join", "idle"}

\* A step moves one worker through its message, lets a worker rest, or does not touch it.
LEMMA WorkerStep ==
  ASSUME TypeOK, [Next]_vars, NEW v \in Workers
  PROVE  Still(v) \/ Rests(v) \/ Handle(v) \/ Failure(v)
<1>. USE DEF TypeOK, Locals, localVars
<1>1. ASSUME NEW u \in Users, Admit(u) \/ Refuse(u) PROVE Still(v)
  BY <1>1 DEF Admit, Refuse, Still
<1>2. ASSUME NEW p \in Processes, Boot(p) PROVE Still(v) \/ Rests(v)
  BY <1>2, Basics DEF Boot, Start, Warmup, Started, Goto, Still, Rests
<1>3. ASSUME NEW p \in Processes, Crash(p) PROVE Still(v) \/ Rests(v)
  BY <1>3, Basics DEF Crash, Goto, Still, Rests
<1>4. ASSUME NEW w \in Workers, Join(w) \/ Deliver(w) \/ Claim(w) \/ Poll(w)
      PROVE Still(v) \/ Rests(v)
  <2>1. CASE Join(w)
    BY <2>1, Basics DEF Join, Goto, Still, Rests
  <2>2. CASE Deliver(w)
    BY <2>2, Basics DEF Deliver, Still, Rests
  <2>3. CASE Claim(w)
    BY <2>3, Basics DEF Claim, Still, Rests
  <2>4. CASE Poll(w)
    BY <2>4 DEF Poll, vars, Still
  <2>. QED
    BY <1>4, <2>1, <2>2, <2>3, <2>4
<1>5. CASE LoseRedis \/ Tick \/ Disable \/ UNCHANGED vars
  BY <1>5 DEF LoseRedis, Tick, Disable, vars, Still
<1>. QED
  BY <1>1, <1>2, <1>3, <1>4, <1>5, OthersStill DEF Next

\* Nothing becomes pending a second time.
LEMMA PendingOnce ==
  ASSUME TypeOK, Origins, [Next]_vars, NEW r \in Admitted, status'[r] = "pending"
  PROVE  status[r] = "pending"
<1>. USE DEF TypeOK, Keys, Locals, Admitted
<1>1. ASSUME NEW u \in Users, Admit(u) PROVE status[r] = "pending"
  BY <1>1, Basics DEF Admit, Origins
<1>2. ASSUME NEW p \in Processes, Warmup(p) PROVE status[r] = "pending"
  BY <1>2 DEF Warmup, resultVars
<1>3. ASSUME NEW w \in Workers, NEW q \in batch[w], CompleteScript(w, q) PROVE status[r] = "pending"
  BY <1>3 DEF CompleteScript
<1>4. ASSUME NEW w \in Workers, Compensate(w) PROVE status[r] = "pending"
  BY <1>4 DEF Compensate
<1>5. CASE LoseRedis
  BY <1>5 DEF LoseRedis
<1>. QED
  BY <1>1, <1>2, <1>3, <1>4, <1>5, ResultStep

\* Whoever is about to acknowledge a message has written its result.
Answered == \A w \in Workers : \A r \in batch[w] :
                pc[w] = "ack" /\ Handles(w, r) => status[r] # "pending"

LEMMA AnsweredStep ==
  ASSUME "redis" \notin Faults, TypeOK, Origins, Answered, [Next]_vars
  PROVE  Answered'
<1>1. SUFFICES ASSUME NEW v \in Workers, NEW r \in batch'[v], pc'[v] = "ack", Handles(v, r)'
               PROVE status'[r] # "pending"
  BY DEF Answered
<1>. USE DEF TypeOK, Locals
<1>2. CASE Still(v)
  <2>1. r \in batch[v] /\ Handles(v, r) /\ pc[v] = "ack"
    BY <1>1, <1>2 DEF Still, Handles
  <2>2. r \in Admitted /\ status[r] # "pending"
    BY <2>1 DEF Origins, Answered
  <2>. QED
    BY <2>2, PendingOnce
<1>3. ASSUME Handle(v) PROVE status'[r] # "pending"
  <2>1. Complete(v) \/ Compensate(v)
    BY <1>1, <1>3, Basics DEF Handle, Begin, CommitOrder, BarrierRefuses, DuplicateKey, Fails,
                      ScheduleClose, Fail, GiveUpOrLeave, Finish, Ack, Goto
  <2>2. batch' = batch
    BY <2>1 DEF Complete, Compensate
  <2>3. \A q \in batch[v] : Handles(v, q) => q = r
    BY <1>1, <2>2 DEF Handles, SN
  <2>4. CASE Complete(v)
    BY <1>1, <2>2, <2>3, <2>4 DEF Complete, CompleteScript, Keys
  <2>5. CASE Compensate(v)
    BY <1>1, <2>2, <2>3, <2>5 DEF Compensate, Compensable, Keys
  <2>. QED
    BY <2>1, <2>4, <2>5
<1>4. ASSUME Failure(v) PROVE FALSE
  BY <1>1, <1>4, Basics DEF Failure, BeginFails, CommitUnknown, InsertFails, CompleteFails, Fails,
                    CountFails, CompensateFails, Fault, Goto
<1>. QED
  BY <1>1, <1>2, <1>3, <1>4, WorkerStep DEF Rests

\* A message leaves Redis only with everything else, or acknowledged.
LEMMA MessagesStay ==
  ASSUME TypeOK, [Next]_vars
  PROVE  \/ stream \cup pel \subseteq stream' \cup pel'
         \/ LoseRedis
         \/ \E w \in Workers : \E r \in batch[w] :
              /\ pc[w] = "ack" /\ Handles(w, r)
              /\ stream \cup pel \subseteq stream' \cup pel' \cup {r}
<1> DEFINE Stay == stream \cup pel \subseteq stream' \cup pel'
           Acks(w) == \E r \in batch[w] :
              /\ pc[w] = "ack" /\ Handles(w, r)
              /\ stream \cup pel \subseteq stream' \cup pel' \cup {r}
<1>. USE DEF streamVars
<1>1. ASSUME NEW u \in Users, Admit(u) \/ Refuse(u) PROVE Stay
  BY <1>1 DEF Admit, Refuse
<1>2. ASSUME NEW p \in Processes, Boot(p) \/ Crash(p) PROVE Stay
  BY <1>2 DEF Boot, Start, Warmup, Crash
<1>3. ASSUME NEW w \in Workers, Join(w) \/ Deliver(w) \/ Claim(w) \/ Poll(w) PROVE Stay
  BY <1>3 DEF Join, Deliver, Claim, Poll, vars
<1>4. ASSUME NEW w \in Workers, Handle(w), ~Ack(w) PROVE Stay
  BY <1>4 DEF Handle, Begin, CommitOrder, BarrierRefuses, DuplicateKey, ScheduleClose, Complete,
              Fail, Compensate
<1>5. ASSUME NEW w \in Workers, Ack(w) PROVE Acks(w)
  BY <1>5 DEF Ack
<1>6. ASSUME NEW w \in Workers, Failure(w) PROVE Stay
  BY <1>6 DEF Failure, BeginFails, CommitUnknown, InsertFails, CompleteFails, CountFails, CompensateFails
<1>7. CASE Tick \/ Disable \/ UNCHANGED vars
  BY <1>7 DEF Tick, Disable, vars
<1>. QED
  BY <1>1, <1>2, <1>3, <1>4, <1>5, <1>6, <1>7 DEF Next

\* What becomes pending has just been admitted.
LEMMA PendingNew ==
  ASSUME TypeOK, Origins, [Next]_vars, NEW r \in SN, r \notin Admitted, status'[r] = "pending"
  PROVE  \E u \in Users : Admit(u) /\ r = sequence + 1
<1>. USE DEF TypeOK, Keys
<1>1. status[r] = "none"
  BY DEF Origins
<1>2. ASSUME NEW w \in Workers, NEW q \in batch[w], CompleteScript(w, q) PROVE FALSE
  BY <1>1, <1>2 DEF CompleteScript
<1>3. ASSUME NEW w \in Workers, Compensate(w) PROVE FALSE
  BY <1>1, <1>3 DEF Compensate
<1>4. ASSUME NEW p \in Processes, Warmup(p) PROVE FALSE
  BY <1>1, <1>4 DEF Warmup, resultVars
<1>5. ASSUME LoseRedis PROVE FALSE
  BY <1>5 DEF LoseRedis
<1>6. ASSUME NEW u \in Users, Admit(u) PROVE r = sequence + 1
  BY <1>1, <1>6 DEF Admit
<1>. QED
  BY <1>1, <1>2, <1>3, <1>4, <1>5, <1>6, ResultStep

LEMMA DeliveryStep ==
  ASSUME TypeOK, Origins, Answered, PendingIsDelivered, [Next]_vars
  PROVE  PendingIsDelivered'
<1>1. SUFFICES ASSUME NEW r \in SN, status'[r] = "pending" PROVE r \in stream' \cup pel'
  BY DEF PendingIsDelivered
<1>2. CASE r \notin Admitted
  BY <1>1, <1>2, PendingNew DEF Admit
<1>3. CASE r \in Admitted
  <2>1. status[r] = "pending"
    BY <1>1, <1>3, PendingOnce
  <2>2. r \in stream \cup pel
    BY <2>1 DEF PendingIsDelivered
  <2>3. ASSUME LoseRedis PROVE FALSE
    BY <1>1, <2>3 DEF LoseRedis
  <2>4. ASSUME NEW w \in Workers, NEW q \in batch[w], pc[w] = "ack", Handles(w, q) PROVE q # r
    BY <2>1, <2>4 DEF Answered
  <2>. QED
    BY <2>2, <2>3, <2>4, MessagesStay
<1>. QED
  BY <1>2, <1>3

\* While every call of Redis that a worker makes is answered, a pending reservation has
\* a message that is still to be delivered or claimed: MySQL may fail, a commit may be
\* left in doubt, processes may stop and Redis may lose everything (XACK after Complete
\* or Compensate in processSeckillMessages).
THEOREM PendingDelivered ==
  ASSUME "redis" \notin Faults
  PROVE  Spec => []PendingIsDelivered
<1>1. Init => Answered /\ PendingIsDelivered
  BY DEF Init, Answered, PendingIsDelivered
<1>2. IInv /\ Answered /\ PendingIsDelivered /\ [Next]_vars
      => Answered' /\ PendingIsDelivered'
  BY AnsweredStep, DeliveryStep DEF IInv
<1>. QED
  BY <1>1, <1>2, Invariance, PTL DEF Spec

-----------------------------------------------------------------------------
(* A reservation with an order is not given up, as long as the workers and the faults *)
(* together are no more than the attempts a reservation has.                          *)

\* The kinds of fault that make no call fail.
Harmless == {"crash", "loss"}

\* A worker that loses a race costs an attempt, and a fault costs one.
EnoughAttempts ==
    /\ IsFiniteSet(Workers)
    /\ Cardinality(Workers) + (IF Faults \subseteq Harmless THEN 0 ELSE MaxFaults) <= MaxAttempts

\* Why an order is found again: gorm translates the duplicate key, or the place of every
\* order is still in Redis.
OrderIsFound == TranslateError \/ "loss" \notin Faults

\* The faults that may have cost an attempt.
Spent == IF Faults \subseteq Harmless THEN 0 ELSE faults

\* The stock barrier refuses everybody, from now on.
Closed == ~enabled \/ sold >= Stock

NeverSold(r) == Closed /\ OrdersOfUser(r) = {}

\* Workers that have failed with reservation r, or will when they try their INSERT.
Spoilt(r) ==
    {w \in Workers :
        /\ Handles(w, r)
        /\ \/ pc[w] = "fail" /\ ~soldOut[w]
           \/ OrdersOfUser(r) # {} /\ pc[w] = "insert" /\ (snapshot[w] = {} \/ ~TranslateError)}

\* What reservation r may have failed: once for each fault, and once an order has been
\* committed for its user, once for each worker that tried at the same time.
Allowance(r) == Spent + IF OrdersOfUser(r) = {} THEN 0 ELSE Cardinality(Workers) - 1

\* Nobody gives reservation r up.
Unspoilt(r) ==
    /\ attempts[r] + Cardinality(Spoilt(r)) <= Allowance(r)
    /\ \A w \in Workers : Handles(w, r) => pc[w] # "compensate" /\ ~soldOut[w]

\* A reservation can be given up only when nobody can have an order any more.
Careful == \A r \in SN : status[r] = "pending" => NeverSold(r) \/ Unspoilt(r)

SoldOutFails == \A w \in Workers : soldOut[w] => pc[w] \in {"fail", "compensate", "ack"}

FailedIsUnsold == \A r \in SN : status[r] = "failed" => NeverSold(r)

\* While Redis loses nothing, an order is the one of the reservation that holds its
\* user's place, and the place of a reservation that failed is free.
PlacesKept ==
    "loss" \notin Faults =>
        /\ \A q \in orders : users[owner[q]] = q
        /\ \A r \in Admitted : status[r] # "none"

\* The whole invariant of careful compensation.
Guarded == /\ Careful /\ SoldOutFails /\ FailedIsUnsold /\ PlacesKept
           /\ faults <= MaxFaults
           /\ orders # {} => Workers # {}

-----------------------------------------------------------------------------
(* Footprints. *)

\* Faults are counted, up to their bound.
LEMMA FaultsStep ==
  ASSUME Surroundings, faults <= MaxFaults, [Next]_vars
  PROVE  faults' \in Nat /\ faults <= faults' /\ faults' <= MaxFaults
<1>. USE SizesAssumption DEF Surroundings, envVars
<1>1. ASSUME NEW kind, Fault(kind) PROVE faults' = faults + 1 /\ faults < MaxFaults
  BY <1>1 DEF Fault
<1>2. SUFFICES faults' = faults \/ \E kind \in FaultKinds : Fault(kind)
  BY <1>1, <1>2
<1>3. ASSUME NEW u \in Users, Admit(u) \/ Refuse(u) PROVE faults' = faults
  BY <1>3 DEF Admit, Refuse
<1>4. ASSUME NEW p \in Processes, Boot(p) PROVE faults' = faults
  BY <1>4 DEF Boot, Start, Warmup
<1>5. ASSUME NEW p \in Processes, Crash(p) PROVE Fault("crash")
  BY <1>5 DEF Crash
<1>6. ASSUME NEW w \in Workers, Join(w) \/ Deliver(w) \/ Claim(w) \/ Poll(w) PROVE faults' = faults
  BY <1>6 DEF Join, Deliver, Claim, Poll, vars
<1>7. ASSUME NEW w \in Workers, Handle(w) PROVE faults' = faults \/ Fault("redis")
  BY <1>7 DEF Handle, Begin, CommitOrder, BarrierRefuses, DuplicateKey, ScheduleClose, Complete,
              Fail, Compensate, Ack
<1>8. ASSUME NEW w \in Workers, Failure(w) PROVE Fault("db") \/ Fault("commit") \/ Fault("redis")
  BY <1>8 DEF Failure, BeginFails, CommitUnknown, InsertFails, CompleteFails, CountFails, CompensateFails
<1>9. CASE LoseRedis
  BY <1>9 DEF LoseRedis, FaultKinds
<1>10. CASE Tick \/ Disable \/ UNCHANGED vars
  BY <1>10 DEF Tick, Disable, vars
<1>. QED
  BY <1>3, <1>4, <1>5, <1>6, <1>7, <1>8, <1>9, <1>10 DEF Next, FaultKinds

\* Orders change only when a worker's transaction commits.
LEMMA CommitStep ==
  ASSUME [Next]_vars
  PROVE  UNCHANGED <<orders, sold>> \/ \E w \in Workers : CommitOrder(w) \/ CommitUnknown(w)
<1>. USE DEF mysqlVars
<1>1. ASSUME NEW u \in Users, Admit(u) \/ Refuse(u) PROVE UNCHANGED <<orders, sold>>
  BY <1>1 DEF Admit, Refuse
<1>2. ASSUME NEW p \in Processes, Boot(p) \/ Crash(p) PROVE UNCHANGED <<orders, sold>>
  BY <1>2 DEF Boot, Start, Warmup, Crash
<1>3. ASSUME NEW w \in Workers, Join(w) \/ Deliver(w) \/ Claim(w) \/ Poll(w)
      PROVE UNCHANGED <<orders, sold>>
  BY <1>3 DEF Join, Deliver, Claim, Poll, vars
<1>4. ASSUME NEW w \in Workers, Handle(w), ~CommitOrder(w) PROVE UNCHANGED <<orders, sold>>
  BY <1>4 DEF Handle, Begin, BarrierRefuses, DuplicateKey, ScheduleClose, Complete, Fail, Compensate, Ack
<1>5. ASSUME NEW w \in Workers, Failure(w), ~CommitUnknown(w) PROVE UNCHANGED <<orders, sold>>
  BY <1>5 DEF Failure, BeginFails, InsertFails, CompleteFails, CountFails, CompensateFails
<1>6. CASE LoseRedis \/ Tick \/ Disable \/ UNCHANGED vars
  BY <1>6 DEF LoseRedis, Tick, Disable, vars
<1>. QED
  BY <1>1, <1>2, <1>3, <1>4, <1>5, <1>6 DEF Next

\* The activity is only ever disabled.
LEMMA EnabledStep == [Next]_vars => enabled' = enabled \/ enabled' = FALSE
<1>. SUFFICES ASSUME [Next]_vars PROVE enabled' = enabled \/ enabled' = FALSE
  OBVIOUS
<1>. USE DEF mysqlVars
<1>1. ASSUME NEW u \in Users, Admit(u) \/ Refuse(u) PROVE enabled' = enabled
  BY <1>1 DEF Admit, Refuse
<1>2. ASSUME NEW p \in Processes, Boot(p) \/ Crash(p) PROVE enabled' = enabled
  BY <1>2 DEF Boot, Start, Warmup, Crash
<1>3. ASSUME NEW w \in Workers, Join(w) \/ Deliver(w) \/ Claim(w) \/ Poll(w) PROVE enabled' = enabled
  BY <1>3 DEF Join, Deliver, Claim, Poll, vars
<1>4. ASSUME NEW w \in Workers, Handle(w) PROVE enabled' = enabled
  BY <1>4 DEF Handle, Begin, CommitOrder, Store, BarrierRefuses, DuplicateKey, ScheduleClose, Complete,
              Fail, Compensate, Ack
<1>5. ASSUME NEW w \in Workers, Failure(w) PROVE enabled' = enabled
  BY <1>5 DEF Failure, BeginFails, CommitUnknown, Store, InsertFails, CompleteFails, CountFails,
              CompensateFails
<1>6. CASE LoseRedis \/ Tick \/ Disable \/ UNCHANGED vars
  BY <1>6 DEF LoseRedis, Tick, Disable, vars
<1>. QED
  BY <1>1, <1>2, <1>3, <1>4, <1>5, <1>6 DEF Next

\* The attempts of a reservation are counted by a worker that has failed with it.
LEMMA AttemptsStep ==
  ASSUME TypeOK, Origins, [Next]_vars, NEW r \in Admitted
  PROVE  \/ attempts'[r] = attempts[r]
         \/ LoseRedis
         \/ \E w \in Workers : Handles(w, r) /\ (Fail(w) \/ CountFails(w))
                               /\ attempts'[r] \in {attempts[r], attempts[r] + 1}
<1> DEFINE Same == attempts'[r] = attempts[r]
<1>. USE DEF resultVars
<1>1. r \in SN /\ r <= sequence /\ sequence \in Nat
  BY DEF Admitted, Origins, TypeOK, Keys
<1>2. ASSUME NEW u \in Users, Admit(u) \/ Refuse(u) PROVE Same
  BY <1>1, <1>2 DEF Admit, Refuse, TypeOK, Keys
<1>3. ASSUME NEW p \in Processes, Boot(p) \/ Crash(p) PROVE Same
  BY <1>3 DEF Boot, Start, Warmup, Crash
<1>4. ASSUME NEW w \in Workers, Join(w) \/ Deliver(w) \/ Claim(w) \/ Poll(w) PROVE Same
  BY <1>4 DEF Join, Deliver, Claim, Poll, vars
<1>5. ASSUME NEW w \in Workers, Fail(w) \/ CountFails(w)
      PROVE  Same \/ (Handles(w, r) /\ attempts'[r] \in {attempts[r], attempts[r] + 1})
  BY <1>1, <1>5 DEF Fail, CountFails, TypeOK, Keys, Locals
<1>6. ASSUME NEW w \in Workers, Handle(w), ~Fail(w) PROVE Same
  BY <1>6 DEF Handle, Begin, CommitOrder, BarrierRefuses, DuplicateKey, ScheduleClose, Complete,
              CompleteScript, Compensate, Ack
<1>7. ASSUME NEW w \in Workers, Failure(w), ~CountFails(w) PROVE Same
  BY <1>7 DEF Failure, BeginFails, CommitUnknown, InsertFails, CompleteFails, CompleteScript,
              CompensateFails
<1>8. CASE Tick \/ Disable \/ UNCHANGED vars
  BY <1>8 DEF Tick, Disable, vars
<1>. QED
  BY <1>2, <1>3, <1>4, <1>5, <1>6, <1>7, <1>8 DEF Next

\* A worker handles one message.
LEMMA HandlesOne ==
  ASSUME TypeOK, NEW w \in Workers, NEW r, NEW q, Handles(w, r), Handles(w, q)
  PROVE  r = q
  BY DEF Handles, TypeOK, Locals, SN

\* Nothing is sold any more once the sale is closed.
LEMMA ClosedStays ==
  ASSUME TypeOK, [Next]_vars, Closed
  PROVE  Closed' /\ UNCHANGED <<orders, sold>>
<1>1. UNCHANGED <<orders, sold>>
  <2>1. ASSUME NEW w \in Workers, CommitOrder(w) \/ CommitUnknown(w) PROVE FALSE
    BY <2>1, SizesAssumption DEF CommitOrder, CommitUnknown, Store, Closed, TypeOK, Rows
  <2>. QED
    BY <2>1, CommitStep
<1>. QED
  BY <1>1, EnabledStep DEF Closed

\* The orders of the user of a reservation grow only by a commit for that user.
LEMMA UserOrdersStep ==
  ASSUME TypeOK, Origins, [Next]_vars, NEW r \in Admitted
  PROVE  /\ OrdersOfUser(r) \subseteq OrdersOfUser(r)'
         /\ \/ OrdersOfUser(r)' = OrdersOfUser(r)
            \/ /\ OrdersOfUser(r) = {} /\ ~Closed
               /\ \E w \in Workers : \E q \in batch[w] :
                    /\ CommitOrder(w) \/ CommitUnknown(w)
                    /\ Handles(w, q) /\ Store(q) /\ owner[q] = owner[r]
<1>1. \A q \in orders \cup {r} : owner'[q] = owner[q]
  BY OrdersStay DEF Origins
<1>2. OrdersOfUser(r) \subseteq OrdersOfUser(r)'
  BY <1>1, OrdersStay DEF OrdersOfUser
<1>3. CASE UNCHANGED <<orders, sold>>
  BY <1>1, <1>2, <1>3 DEF OrdersOfUser
<1>4. ASSUME NEW w \in Workers, CommitOrder(w) \/ CommitUnknown(w)
      PROVE  \/ OrdersOfUser(r)' = OrdersOfUser(r)
             \/ /\ OrdersOfUser(r) = {} /\ ~Closed
                /\ \E q \in batch[w] : Handles(w, q) /\ Store(q) /\ owner[q] = owner[r]
  <2>1. PICK q \in batch[w] : Handles(w, q) /\ Store(q)
    BY <1>4 DEF CommitOrder, CommitUnknown
  <2>2. owner' = owner
    BY <1>4 DEF CommitOrder, CommitUnknown
  <2>3. CASE owner[q] = owner[r]
    BY <2>1, <2>3, SizesAssumption DEF Store, OrdersOfUser, Closed, TypeOK, Rows
  <2>4. CASE owner[q] # owner[r]
    BY <2>1, <2>2, <2>4 DEF Store, OrdersOfUser
  <2>. QED
    BY <2>3, <2>4
<1>. QED
  BY <1>2, <1>3, <1>4, CommitStep

\* What will never be sold stays so.
LEMMA NeverSoldStays ==
  ASSUME TypeOK, Origins, [Next]_vars, NEW r \in Admitted, NeverSold(r)
  PROVE  NeverSold(r)'
<1>1. Closed' /\ UNCHANGED orders
  BY ClosedStays DEF NeverSold
<1>2. OrdersOfUser(r)' = OrdersOfUser(r)
  BY UserOrdersStep DEF NeverSold
<1>. QED
  BY <1>1, <1>2 DEF NeverSold

\* Only a refusal of the barrier makes the error in hand ErrSeckillSoldOut.
LEMMA SoldOutStep == ASSUME TypeOK, SoldOutFails, [Next]_vars PROVE SoldOutFails'
<1>1. SUFFICES ASSUME NEW v \in Workers, soldOut'[v] PROVE pc'[v] \in {"fail", "compensate", "ack"}
  BY DEF SoldOutFails
<1>. USE DEF TypeOK, Locals
<1>2. CASE Still(v)
  BY <1>1, <1>2 DEF Still, SoldOutFails
<1>3. ASSUME Rests(v) PROVE FALSE
  BY <1>1, <1>3 DEF Rests, SoldOutFails
<1>4. ASSUME NEW r \in SN, Finish(v, r) PROVE FALSE
  BY <1>1, <1>4 DEF Finish
<1>5. ASSUME NEW l \in {"fail", "compensate", "ack"}, Goto(v, l) PROVE pc'[v] = l
  BY <1>5, Basics DEF Goto
<1>6. CASE Handle(v)
  <2>1. CASE BarrierRefuses(v)
    BY <1>5, <2>1 DEF BarrierRefuses
  <2>2. CASE Fail(v)
    BY <1>4, <1>5, <2>2 DEF Fail, GiveUpOrLeave
  <2>3. CASE Ack(v)
    BY <1>4, <2>3 DEF Ack
  <2>4. CASE Compensate(v)
    BY <1>5, <2>4 DEF Compensate
  <2>5. CASE Begin(v) \/ CommitOrder(v) \/ DuplicateKey(v) \/ ScheduleClose(v) \/ Complete(v)
    <3>1. soldOut' = soldOut /\ pc[v] \notin {"fail", "compensate", "ack"}
      BY <2>5 DEF Begin, CommitOrder, DuplicateKey, Fails, ScheduleClose, Complete, localVars
    <3>. QED
      BY <1>1, <3>1 DEF SoldOutFails
  <2>. QED
    BY <1>6, <2>1, <2>2, <2>3, <2>4, <2>5 DEF Handle
<1>7. CASE Failure(v)
  <2>1. CASE CountFails(v)
    BY <1>4, <1>5, <2>1 DEF CountFails, GiveUpOrLeave
  <2>2. CASE ~CountFails(v)
    BY <1>5, <1>7, <2>2 DEF Failure, BeginFails, CommitUnknown, InsertFails, CompleteFails, CompensateFails,
                           Fails
  <2>. QED
    BY <2>1, <2>2
<1>. QED
  BY <1>2, <1>3, <1>6, <1>7, WorkerStep

-----------------------------------------------------------------------------
(* What a reservation has left. *)

LEMMA Room ==
  ASSUME TypeOK, EnoughAttempts, faults <= MaxFaults, Workers # {}, NEW r
  PROVE  /\ Cardinality(Workers) \in Nat /\ Cardinality(Workers) >= 1
         /\ Spent \in Nat /\ Allowance(r) \in Nat /\ Spent <= Allowance(r) /\ Allowance(r) < MaxAttempts
<1>1. Cardinality(Workers) \in Nat /\ Cardinality(Workers) # 0
  BY FS_CardinalityType, FS_EmptySet DEF EnoughAttempts
<1>2. Spent \in Nat /\ Spent + Cardinality(Workers) <= MaxAttempts
  BY <1>1, SizesAssumption DEF Spent, EnoughAttempts, TypeOK, Surroundings
<1>. QED
  BY <1>1, <1>2, SizesAssumption DEF Allowance

LEMMA SpoiltFinite ==
  ASSUME EnoughAttempts, NEW r
  PROVE  /\ IsFiniteSet(Spoilt(r)) /\ Cardinality(Spoilt(r)) \in Nat
         /\ Cardinality(Spoilt(r)) <= Cardinality(Workers)
<1>1. Spoilt(r) \subseteq Workers
  BY DEF Spoilt
<1>. QED
  BY <1>1, FS_Subset, FS_CardinalityType DEF EnoughAttempts

\* A worker that has failed with a reservation nobody may give up does not do so.
LEMMA NotYet ==
  ASSUME TypeOK, EnoughAttempts, faults <= MaxFaults, NEW r \in SN, Unspoilt(r),
         NEW w \in Workers, Handles(w, r), pc[w] = "fail"
  PROVE  ~soldOut[w] /\ w \in Spoilt(r) /\ attempts[r] + 1 < MaxAttempts /\ 1 < MaxAttempts
<1>1. ~soldOut[w] /\ w \in Spoilt(r)
  BY DEF Unspoilt, Spoilt
<1>2. Cardinality(Spoilt(r)) >= 1 /\ Cardinality(Spoilt(r)) \in Nat
  BY <1>1, SpoiltFinite, FS_EmptySet
<1>3. attempts[r] \in Nat /\ attempts[r] + Cardinality(Spoilt(r)) <= Allowance(r)
  BY DEF Unspoilt, TypeOK, Keys
<1>. QED
  BY <1>1, <1>2, <1>3, Room, SizesAssumption

\* A second reservation of a user who has an order finds it in its snapshot, and the
\* reservation that has the order finds it first.
LEMMA FindsOwn ==
  ASSUME OrderIsFound, TypeOK, PendingHoldsPlace, PlacesKept, ~TranslateError,
         NEW r \in SN, status[r] = "pending", OrdersOfUser(r) # {}
  PROVE  r \in orders
<1>1. PICK q \in orders : owner[q] = owner[r]
  BY DEF OrdersOfUser
<1>2. users[owner[q]] = q /\ users[owner[r]] = r
  BY DEF OrderIsFound, PlacesKept, PendingHoldsPlace
<1>. QED
  BY <1>1, <1>2

\* A worker is spoilt for a reservation by a fault of its own, or by the commit of
\* another worker while it is about to insert.
LEMMA SpoiltStep ==
  ASSUME OrderIsFound, IInv, Guarded, [Next]_vars,
         NEW r \in SN, status[r] = "pending", ~NeverSold(r)',
         NEW v \in Workers, v \in Spoilt(r)', v \notin Spoilt(r)
  PROVE  \/ BeginFails(v) \/ CommitUnknown(v) \/ InsertFails(v) \/ CompleteFails(v)
         \/ Still(v) /\ OrdersOfUser(r) = {} /\ OrdersOfUser(r)' # {}
<1>1. /\ Handles(v, r)'
      /\ \/ pc'[v] = "fail" /\ ~soldOut'[v]
         \/ OrdersOfUser(r)' # {} /\ pc'[v] = "insert" /\ (snapshot'[v] = {} \/ ~TranslateError)
  BY DEF Spoilt
<1>. USE DEF IInv, TypeOK, Locals
<1>2. CASE Still(v)
  BY <1>1, <1>2 DEF Still, Handles, Spoilt
<1>3. ASSUME Rests(v) PROVE FALSE
  BY <1>1, <1>3 DEF Rests
<1>4. ASSUME Begin(v) PROVE FALSE
  <2>1. PICK q \in batch[v] : Handles(v, q)
           /\ \/ q \in orders /\ pc'[v] = "complete"
              \/ q \notin orders /\ pc'[v] = "insert" /\ snapshot'[v] = OrdersOfUser(q)
    BY <1>4, Basics DEF Begin, Goto
  <2>2. UNCHANGED <<batch, orders, owner>>
    BY <1>4 DEF Begin, mysqlVars
  <2>3. q = r
    BY <1>1, <2>1, <2>2, HandlesOne DEF Handles
  <2>4. OrdersOfUser(r)' = OrdersOfUser(r)
    BY <2>2 DEF OrdersOfUser
  <2>5. OrdersOfUser(r) # {} /\ ~TranslateError /\ r \notin orders
    BY <1>1, <2>1, <2>3, <2>4
  <2>. QED
    BY <2>5, FindsOwn DEF Guarded
<1>5. ASSUME DuplicateKey(v) PROVE FALSE
  <2>1. Fails(v) /\ (~TranslateError \/ snapshot[v] = {}) /\ UNCHANGED batch
    BY <1>1, <1>5, Basics DEF DuplicateKey, Fails, Goto
  <2>2. PICK q \in batch[v] : Handles(v, q) /\ OrdersOfUser(q) # {}
    BY <1>5 DEF DuplicateKey
  <2>3. q = r
    BY <1>1, <2>1, <2>2, HandlesOne DEF Handles
  <2>. QED
    BY <1>5, <2>1, <2>2, <2>3 DEF DuplicateKey, Spoilt
<1>6. ASSUME BarrierRefuses(v) PROVE FALSE
  BY <1>1, <1>6, Basics DEF BarrierRefuses, Goto
<1>7. ASSUME CommitOrder(v) \/ ScheduleClose(v) \/ Complete(v) \/ Compensate(v) \/ CompensateFails(v) PROVE FALSE
  <2>1. \E l \in {"schedule", "complete", "ack"} : Goto(v, l)
    BY <1>7 DEF CommitOrder, ScheduleClose, Complete, Compensate, CompensateFails
  <2>. QED
    BY <1>1, <2>1, Basics DEF Goto
<1>8. ASSUME Fail(v) \/ CountFails(v) \/ Ack(v) PROVE FALSE
  <2>1. Goto(v, "compensate") \/ Goto(v, "idle")
    BY <1>8 DEF Fail, CountFails, Ack, GiveUpOrLeave, Finish
  <2>. QED
    BY <1>1, <2>1, Basics DEF Goto
<1>. QED
  BY <1>2, <1>3, <1>4, <1>5, <1>6, <1>7, <1>8, WorkerStep DEF Handle, Failure

\* Nobody begins to give up a reservation that may still have an order.
LEMMA NobodyGivesUp ==
  ASSUME EnoughAttempts, IInv, Guarded, [Next]_vars,
         NEW r \in SN, status[r] = "pending", Unspoilt(r), ~NeverSold(r)',
         NEW v \in Workers, Handles(v, r)'
  PROVE  pc'[v] # "compensate" /\ ~soldOut'[v]
<1>. USE DEF IInv, TypeOK, Locals
<1>1. SoldOutFails'
  BY SoldOutStep DEF Guarded
<1>2. SUFFICES ASSUME pc'[v] = "compensate" \/ soldOut'[v] PROVE FALSE
  OBVIOUS
<1>3. pc'[v] \in {"fail", "compensate", "ack"}
  BY <1>1, <1>2 DEF SoldOutFails
<1>4. CASE Still(v)
  BY <1>2, <1>4 DEF Still, Handles, Unspoilt
<1>5. CASE Rests(v)
  BY <1>3, <1>5 DEF Rests
<1>6. ASSUME Handles(v, r), pc[v] \notin {"fail", "compensate"}, Goto(v, "fail") \/ Goto(v, "ack"),
             soldOut' = soldOut
      PROVE FALSE
  BY <1>2, <1>6, Basics DEF Goto, Unspoilt
<1>7. CASE Begin(v) \/ CommitOrder(v) \/ ScheduleClose(v)
  <2>1. \E l \in {"insert", "schedule", "complete"} : Goto(v, l)
    BY <1>7 DEF Begin, CommitOrder, ScheduleClose
  <2>. QED
    BY <1>3, <2>1, Basics DEF Goto
<1>8. CASE BarrierRefuses(v)
  <2>1. UNCHANGED <<batch, owner, orders, sold, enabled>>
    BY <1>8 DEF BarrierRefuses, mysqlVars
  <2>2. PICK q \in batch[v] : Handles(v, q) /\ OrdersOfUser(q) = {}
    BY <1>8 DEF BarrierRefuses
  <2>3. q = r
    BY <2>1, <2>2, HandlesOne DEF Handles
  <2>4. Closed' /\ OrdersOfUser(r)' = {}
    BY <1>8, <2>1, <2>2, <2>3 DEF BarrierRefuses, Closed, OrdersOfUser
  <2>. QED
    BY <2>4 DEF NeverSold
<1>9. CASE DuplicateKey(v)
  <2>1. Goto(v, "fail") /\ UNCHANGED <<batch, soldOut>> /\ pc[v] = "insert"
    BY <1>3, <1>9, Basics DEF DuplicateKey, Fails, Goto, localVars
  <2>. QED
    BY <1>6, <2>1 DEF Handles
<1>10. CASE Complete(v)
  BY <1>6, <1>10 DEF Complete, Handles, localVars
<1>11. ASSUME Handles(v, r), pc[v] = "fail", NEW n, n < MaxAttempts, n \in Nat,
              NEW q, Handles(v, q), GiveUpOrLeave(v, q, n)
       PROVE FALSE
  <2>1. ~soldOut[v]
    BY <1>11 DEF Unspoilt
  <2>2. Goto(v, "idle")
    BY <1>11, <2>1, SizesAssumption DEF GiveUpOrLeave, Finish
  <2>. QED
    BY <1>3, <2>2, Basics DEF Goto
<1>12. CASE Fail(v) \/ CountFails(v)
  <2>1. PICK q \in batch[v] : /\ Handles(v, q) /\ pc[v] = "fail"
                              /\ \E n \in {1, attempts[q] + 1} : GiveUpOrLeave(v, q, n)
    BY <1>12 DEF Fail, CountFails
  <2>2. CASE Goto(v, "idle")
    BY <1>3, <2>2, Basics DEF Goto
  <2>3. CASE ~Goto(v, "idle")
    <3>1. UNCHANGED batch
      BY <2>1, <2>3 DEF GiveUpOrLeave, Finish
    <3>2. Handles(v, r) /\ q = r
      BY <2>1, <3>1, HandlesOne DEF Handles
    <3>3. attempts[r] + 1 < MaxAttempts /\ 1 < MaxAttempts /\ attempts[r] \in Nat
      BY <2>1, <3>2, NotYet DEF Guarded, Keys
    <3>. QED
      BY <1>11, <2>1, <3>2, <3>3
  <2>. QED
    BY <2>2, <2>3
<1>13. CASE Compensate(v) \/ CompensateFails(v)
  <2>1. pc[v] = "compensate" /\ UNCHANGED batch
    BY <1>13 DEF Compensate, CompensateFails
  <2>. QED
    BY <2>1 DEF Handles, Unspoilt
<1>14. CASE Ack(v)
  <2>1. Goto(v, "idle")
    BY <1>14 DEF Ack, Finish
  <2>. QED
    BY <1>3, <2>1, Basics DEF Goto
<1>15. CASE BeginFails(v) \/ CommitUnknown(v) \/ InsertFails(v) \/ CompleteFails(v)
  <2>1. Fails(v) /\ pc[v] \notin {"fail", "compensate"}
    BY <1>15 DEF BeginFails, CommitUnknown, InsertFails, CompleteFails
  <2>2. Handles(v, r) /\ soldOut' = soldOut
    BY <2>1 DEF Fails, localVars, Handles
  <2>. QED
    BY <1>6, <2>1, <2>2 DEF Fails
<1>. QED
  BY <1>4, <1>5, <1>7, <1>8, <1>9, <1>10, <1>12, <1>13, <1>14, <1>15, WorkerStep DEF Handle, Failure

\* Two workers do not fail in one step.
LEMMA FailsAlone ==
  ASSUME TypeOK, NEW v \in Workers,
         BeginFails(v) \/ CommitUnknown(v) \/ InsertFails(v) \/ CompleteFails(v)
  PROVE  ~Still(v) /\ \A w \in Workers : Handle(w) \/ Failure(w) => w = v
<1>1. pc'[v] = "fail" /\ pc[v] # "fail"
  BY Basics DEF BeginFails, CommitUnknown, InsertFails, CompleteFails, Fails, Goto, TypeOK, Locals
<1>. QED
  BY <1>1, OthersStill DEF Still

\* Each step leaves a reservation its attempts.
LEMMA BudgetStep ==
  ASSUME OrderIsFound, EnoughAttempts, IInv, Guarded, [Next]_vars,
         NEW r \in SN, status[r] = "pending", status'[r] = "pending", Unspoilt(r), ~NeverSold(r)'
  PROVE  attempts'[r] + Cardinality(Spoilt(r)') <= Allowance(r)'
<1> DEFINE Budget == attempts'[r] + Cardinality(Spoilt(r)') <= Allowance(r)'
           NoNew == Spoilt(r)' \subseteq Spoilt(r)
<1>. USE DEF IInv
<1>1. r \in Admitted
  BY DEF Origins
<1>2. /\ faults \in Nat /\ faults' \in Nat /\ faults <= faults' /\ MaxFaults \in Nat
      /\ Spent \in Nat /\ Spent' \in Nat /\ Spent <= Spent'
  BY FaultsStep, SizesAssumption DEF Guarded, Spent, TypeOK, Surroundings
<1>3. /\ Cardinality(Workers) \in Nat
      /\ attempts[r] \in Nat /\ attempts[r] + Cardinality(Spoilt(r)) <= Allowance(r)
      /\ IsFiniteSet(Spoilt(r)) /\ Cardinality(Spoilt(r)) \in Nat
  BY SpoiltFinite, FS_CardinalityType DEF EnoughAttempts, Unspoilt, TypeOK, Keys
<1>4. Spoilt(r)' \subseteq Workers
  BY DEF Spoilt
<1>5. /\ IsFiniteSet(Spoilt(r)') /\ Cardinality(Spoilt(r)') \in Nat
      /\ Cardinality(Spoilt(r)') <= Cardinality(Workers)
  BY <1>4, FS_Subset, FS_CardinalityType DEF EnoughAttempts
<1>6. ASSUME OrdersOfUser(r)' = OrdersOfUser(r) PROVE Allowance(r)' - Spent' = Allowance(r) - Spent
  BY <1>2, <1>3, <1>6 DEF Allowance
<1>7. Allowance(r) \in Int /\ Allowance(r)' \in Int
  BY <1>2, <1>3 DEF Allowance
<1>8. ASSUME OrdersOfUser(r)' = OrdersOfUser(r), attempts'[r] = attempts[r], NoNew PROVE Budget
  <2>1. Cardinality(Spoilt(r)') <= Cardinality(Spoilt(r))
    BY <1>3, <1>8, FS_Subset
  <2>. QED
    BY <1>2, <1>3, <1>5, <1>6, <1>7, <1>8, <2>1
<1>9. ASSUME NEW w \in Workers, BeginFails(w) \/ InsertFails(w) \/ CompleteFails(w) PROVE Budget
  <2>1. UNCHANGED <<orders, owner, attempts>>
    BY <1>9 DEF BeginFails, InsertFails, CompleteFails, CompleteScript, mysqlVars, resultVars
  <2>2. OrdersOfUser(r)' = OrdersOfUser(r)
    BY <2>1 DEF OrdersOfUser
  <2>3. faults' = faults + 1 /\ ~(Faults \subseteq Harmless)
    BY <1>9 DEF BeginFails, InsertFails, CompleteFails, Fault, Harmless
  <2>4. Spent' = Spent + 1
    BY <2>3 DEF Spent
  <2>5. Spoilt(r)' \subseteq Spoilt(r) \cup {w}
    BY <1>4, <1>9, <2>2, SpoiltStep, FailsAlone DEF Failure
  <2>6. Cardinality(Spoilt(r)') <= Cardinality(Spoilt(r)) + 1
    <3>1. /\ IsFiniteSet(Spoilt(r) \cup {w})
          /\ Cardinality(Spoilt(r) \cup {w}) \in {Cardinality(Spoilt(r)), Cardinality(Spoilt(r)) + 1}
      BY <1>3, FS_AddElement
    <3>2. Cardinality(Spoilt(r)') <= Cardinality(Spoilt(r) \cup {w})
      BY <2>5, <3>1, FS_Subset
    <3>. QED
      BY <1>3, <1>5, <3>1, <3>2
  <2>. QED
    BY <1>2, <1>3, <1>5, <1>6, <1>7, <2>1, <2>2, <2>4, <2>6
<1>10. ASSUME NEW w \in Workers, NEW q \in batch[w], CommitOrder(w) \/ CommitUnknown(w),
              Handles(w, q), Store(q), owner[q] = owner[r], OrdersOfUser(r) = {}
       PROVE  Budget
  <2>1. UNCHANGED <<owner, attempts, batch>>
    BY <1>10 DEF CommitOrder, CommitUnknown, Fails, resultVars
  <2>2. OrdersOfUser(r)' # {}
    BY <1>10, <2>1 DEF Store, OrdersOfUser
  <2>3. attempts[r] <= Spent
    BY <1>2, <1>3, <1>10 DEF Allowance
  <2>4. Allowance(r)' = Spent' + Cardinality(Workers) - 1
    BY <1>2, <1>3, <2>2 DEF Allowance
  <2>5. CASE CommitOrder(w)
    <3>1. w \notin Spoilt(r)'
      BY <2>5, Basics DEF CommitOrder, Goto, Spoilt, TypeOK, Locals
    <3>2. Spoilt(r)' \subseteq Workers \ {w}
      BY <1>4, <3>1
    <3>3. Cardinality(Workers \ {w}) = Cardinality(Workers) - 1 /\ IsFiniteSet(Workers \ {w})
      BY FS_RemoveElement DEF EnoughAttempts
    <3>4. Cardinality(Spoilt(r)') <= Cardinality(Workers) - 1
      BY <3>2, <3>3, FS_Subset
    <3>. QED
      BY <1>2, <1>3, <1>5, <1>7, <2>1, <2>3, <2>4, <3>4
  <2>6. CASE CommitUnknown(w)
    <3>1. Spent' = Spent + 1
      BY <2>6 DEF CommitUnknown, Fault, Harmless, Spent
    <3>. QED
      BY <1>2, <1>3, <1>5, <1>7, <2>1, <2>3, <2>4, <3>1
  <2>. QED
    BY <1>10, <2>5, <2>6
<1>11. ASSUME NEW w \in Workers, CommitOrder(w) \/ CommitUnknown(w),
              OrdersOfUser(r)' = OrdersOfUser(r)
       PROVE  Budget
  <2>1. UNCHANGED <<owner, attempts, batch>>
    BY <1>11 DEF CommitOrder, CommitUnknown, Fails, resultVars
  <2>2. PICK q \in batch[w] : Handles(w, q) /\ Store(q)
    BY <1>11 DEF CommitOrder, CommitUnknown
  <2>3. q # r
    BY <1>11, <2>1, <2>2 DEF Store, OrdersOfUser
  <2>4. w \notin Spoilt(r)'
    BY <2>1, <2>2, <2>3, HandlesOne DEF Spoilt, Handles
  <2>5. NoNew
    BY <1>4, <1>11, <2>4, SpoiltStep, FailsAlone DEF Handle, Failure
  <2>. QED
    BY <1>8, <1>11, <2>1, <2>5
<1>12. ASSUME NEW w \in Workers, Handles(w, r), Fail(w) \/ CountFails(w),
              attempts'[r] \in {attempts[r], attempts[r] + 1}
       PROVE  Budget
  <2>1. UNCHANGED <<orders, owner>> /\ pc[w] = "fail"
    BY <1>12 DEF Fail, CountFails, mysqlVars
  <2>2. OrdersOfUser(r)' = OrdersOfUser(r)
    BY <2>1 DEF OrdersOfUser
  <2>3. w \in Spoilt(r) /\ w \notin Spoilt(r)'
    <3>1. Goto(w, "compensate") \/ Goto(w, "idle")
      BY <1>12 DEF Fail, CountFails, GiveUpOrLeave, Finish
    <3>2. pc'[w] \in {"compensate", "idle"}
      BY <3>1, Basics DEF Goto, TypeOK, Locals
    <3>. QED
      BY <1>12, <2>1, <3>2, NotYet DEF Guarded, Spoilt
  <2>4. Spoilt(r)' \subseteq Spoilt(r) \ {w}
    BY <1>4, <1>12, <2>2, <2>3, SpoiltStep, FailsAlone DEF Handle, Failure
  <2>5. Cardinality(Spoilt(r)') <= Cardinality(Spoilt(r)) - 1
    <3>1. IsFiniteSet(Spoilt(r) \ {w}) /\ Cardinality(Spoilt(r) \ {w}) = Cardinality(Spoilt(r)) - 1
      BY <1>3, <2>3, FS_RemoveElement
    <3>. QED
      BY <2>4, <3>1, FS_Subset
  <2>. QED
    BY <1>2, <1>3, <1>5, <1>6, <1>7, <1>12, <2>2, <2>5
<1>13. ASSUME ~\E w \in Workers : BeginFails(w) \/ CommitUnknown(w) \/ InsertFails(w) \/ CompleteFails(w),
              OrdersOfUser(r)' = OrdersOfUser(r), attempts'[r] = attempts[r]
       PROVE  Budget
  <2>1. NoNew
    BY <1>4, <1>13, SpoiltStep
  <2>. QED
    BY <1>8, <1>13, <2>1
<1>14. ASSUME LoseRedis PROVE FALSE
  BY <1>14 DEF LoseRedis
<1>. QED
  BY <1>1, <1>9, <1>10, <1>11, <1>12, <1>13, <1>14, UserOrdersStep, AttemptsStep

\* What a reservation may have failed, after a step.
LEMMA AllowanceNext ==
  ASSUME Spent' \in Nat, Cardinality(Workers) \in Nat, NEW r
  PROVE  \/ Allowance(r)' = Spent'
         \/ OrdersOfUser(r)' # {} /\ Allowance(r)' = Spent' + Cardinality(Workers) - 1
<1>1. CASE OrdersOfUser(r)' = {}
  <2>1. Allowance(r)' = Spent' + 0
    BY <1>1, Zenon DEF Allowance
  <2>2. \A n \in Nat : n + 0 = n
    OBVIOUS
  <2>3. Allowance(r)' = Spent'
    BY <2>1, <2>2, Zenon
  <2>. QED
    BY <2>3
<1>2. CASE OrdersOfUser(r)' # {}
  BY <1>2 DEF Allowance
<1>. QED
  BY <1>1, <1>2

\* A reservation that gets its message handled is not given up, or will never be sold.
LEMMA CarefulStep ==
  ASSUME OrderIsFound, EnoughAttempts, IInv, Guarded, [Next]_vars
  PROVE  Careful'
<1>1. SUFFICES ASSUME NEW r \in SN, status'[r] = "pending" PROVE NeverSold(r)' \/ Unspoilt(r)'
  BY DEF Careful
<1>. USE DEF IInv
<1>2. CASE r \in Admitted
  <2>1. status[r] = "pending"
    BY <1>1, <1>2, PendingOnce
  <2>2. CASE NeverSold(r)
    BY <1>2, <2>2, NeverSoldStays
  <2>3. CASE Unspoilt(r) /\ ~NeverSold(r)'
    <3>1. attempts'[r] + Cardinality(Spoilt(r)') <= Allowance(r)'
      BY <1>1, <2>1, <2>3, BudgetStep
    <3>2. \A v \in Workers : Handles(v, r)' => pc'[v] # "compensate" /\ ~soldOut'[v]
      BY <2>1, <2>3, NobodyGivesUp
    <3>. QED
      BY <3>1, <3>2 DEF Unspoilt
  <2>. QED
    BY <2>1, <2>2, <2>3 DEF Guarded, Careful
<1>3. CASE r \notin Admitted
  <2>1. PICK u \in Users : Admit(u) /\ r = sequence + 1
    BY <1>1, <1>3, PendingNew
  <2>2. \A w \in Workers : ~Handles(w, r)'
    BY <1>3, <2>1 DEF Admit, Handles, Origins
  <2>3. Spoilt(r)' = {} /\ attempts'[r] = 0
    BY <2>1, <2>2 DEF Spoilt, Admit, TypeOK, Keys
  <2>4. Cardinality(Spoilt(r)') = 0
    BY <2>3, FS_EmptySet
  <2>5. Allowance(r)' >= 0
    <3>1. Spent' \in Nat
      BY FaultsStep DEF Guarded, Spent, TypeOK
    <3>2. OrdersOfUser(r)' # {} => Cardinality(Workers) >= 1
      <4>1. OrdersOfUser(r)' # {} => orders # {}
        BY <2>1 DEF OrdersOfUser, Admit, mysqlVars
      <4>. QED
        BY <4>1, Room DEF Guarded
    <3>3. Cardinality(Workers) \in Nat
      BY FS_CardinalityType DEF EnoughAttempts
    <3>. QED
      BY <3>1, <3>2, <3>3, AllowanceNext
  <2>. QED
    BY <2>2, <2>3, <2>4, <2>5 DEF Unspoilt
<1>. QED
  BY <1>2, <1>3

\* A reservation that failed will never be sold.
LEMMA FailedStep ==
  ASSUME IInv, Guarded, [Next]_vars
  PROVE  FailedIsUnsold'
<1>1. SUFFICES ASSUME NEW r \in SN, status'[r] = "failed" PROVE NeverSold(r)'
  BY DEF FailedIsUnsold
<1>. USE DEF IInv, TypeOK, Keys, Locals
<1>2. SUFFICES r \in Admitted /\ NeverSold(r)
  BY NeverSoldStays
<1>3. CASE status[r] = "failed"
  BY <1>3 DEF Guarded, FailedIsUnsold, Origins
<1>4. CASE status[r] # "failed"
  <2>1. ASSUME NEW u \in Users, Admit(u) PROVE FALSE
    BY <1>1, <1>4, <2>1 DEF Admit
  <2>2. ASSUME NEW p \in Processes, Warmup(p) PROVE FALSE
    BY <1>1, <1>4, <2>2 DEF Warmup, resultVars
  <2>3. ASSUME NEW w \in Workers, NEW q \in batch[w], CompleteScript(w, q) PROVE FALSE
    BY <1>1, <1>4, <2>3 DEF CompleteScript
  <2>4. ASSUME LoseRedis PROVE FALSE
    BY <1>1, <2>4 DEF LoseRedis
  <2>5. ASSUME NEW w \in Workers, Compensate(w) PROVE r \in Admitted /\ NeverSold(r)
    <3>1. Handles(w, r) /\ status[r] = "pending" /\ pc[w] = "compensate"
      BY <1>1, <1>4, <2>5 DEF Compensate, Compensable
    <3>. QED
      BY <3>1 DEF Guarded, Careful, Unspoilt, Origins
  <2>. QED
    BY <1>1, <1>4, <2>1, <2>2, <2>3, <2>4, <2>5, ResultStep
<1>. QED
  BY <1>3, <1>4

\* An order is made for the reservation that holds its user's place.
LEMMA PlacesStep ==
  ASSUME IInv, Guarded, [Next]_vars
  PROVE  PlacesKept'
<1>1. SUFFICES ASSUME "loss" \notin Faults
               PROVE  /\ \A q \in orders' : users'[owner'[q]] = q
                      /\ \A r \in Admitted' : status'[r] # "none"
  BY DEF PlacesKept
<1>. USE DEF IInv, TypeOK, Keys, Locals, Rows
<1>2. /\ \A q \in orders : users[owner[q]] = q /\ q # NoSN
      /\ \A r \in Admitted : status[r] # "none"
  BY <1>1, Basics DEF Guarded, PlacesKept
<1>3. ASSUME NEW q \in orders' PROVE q \in orders \/ (users[owner[q]] = q /\ q \in Admitted /\ owner' = owner)
  <2>1. ASSUME NEW w \in Workers, CommitOrder(w) \/ CommitUnknown(w), q \notin orders
        PROVE users[owner[q]] = q /\ q \in Admitted /\ owner' = owner
    <3>1. q \in batch[w] /\ Store(q) /\ owner' = owner
      BY <2>1 DEF CommitOrder, CommitUnknown, Store
    <3>2. q \in Admitted /\ q \in SN /\ OrdersOfUser(q) = {} /\ ~Closed
      BY <3>1, SizesAssumption DEF Store, Origins, Closed
    <3>3. status[q] = "pending"
      BY <1>2, <3>2 DEF Guarded, FailedIsUnsold, NeverSold, SuccessHasOrder, OrdersOfUser
    <3>. QED
      BY <3>1, <3>2, <3>3 DEF PendingHoldsPlace
  <2>. QED
    BY <2>1, CommitStep
<1>4. \A q \in orders : owner'[q] = owner[q]
  BY OrdersStay DEF Origins
<1>5. ASSUME NEW u \in Users, Admit(u)
      PROVE  /\ \A q \in orders' : users'[owner'[q]] = q
             /\ \A r \in Admitted' : status'[r] # "none"
  <2>1. UNCHANGED orders /\ users[u] = NoSN /\ sequence + 1 \in SN
    BY <1>5, Basics DEF Admit, Admissible, mysqlVars
  <2>2. \A q \in orders' : users'[owner'[q]] = q
    BY <1>2, <1>4, <1>5, <2>1 DEF Admit
  <2>3. \A r \in Admitted' : status'[r] # "none"
    BY <1>2, <1>5, <2>1 DEF Admit, Admitted
  <2>. QED
    BY <2>2, <2>3
<1>6. ASSUME users' = users, \A r \in SN : status[r] # "none" => status'[r] # "none", owner' = owner
      PROVE  /\ \A q \in orders' : users'[owner'[q]] = q
             /\ \A r \in Admitted' : status'[r] # "none"
  BY <1>2, <1>3, <1>6 DEF Admitted
<1>7. ASSUME NEW p \in Processes, Warmup(p) PROVE users' = users /\ status' = status /\ owner' = owner
  BY <1>7 DEF Warmup, resultVars
<1>8. ASSUME NEW w \in Workers, NEW r \in batch[w], CompleteScript(w, r)
      PROVE \A q \in SN : status[q] # "none" => status'[q] # "none"
  BY <1>8 DEF CompleteScript
<1>9. ASSUME NEW w \in Workers, Compensate(w)
      PROVE  /\ \A q \in orders' : users'[owner'[q]] = q
             /\ \A r \in Admitted' : status'[r] # "none"
  <2>1. PICK r \in batch[w] :
          /\ Handles(w, r)
          /\ IF Compensable(r)
             THEN /\ users' = [users EXCEPT ![owner[r]] = NoSN]
                  /\ status' = [status EXCEPT ![r] = "failed"]
             ELSE UNCHANGED <<users, status>>
    BY <1>9 DEF Compensate
  <2>2. UNCHANGED <<orders, owner>> /\ pc[w] = "compensate"
    BY <1>9 DEF Compensate, mysqlVars
  <2>3. Compensable(r) => OrdersOfUser(r) = {}
    BY <2>1, <2>2 DEF Compensable, Guarded, Careful, Unspoilt, NeverSold
  <2>4. r \in SN /\ owner[r] \in Users
    BY DEF Origins, Admitted
  <2>5. \A q \in orders' : users'[owner'[q]] = q
    <3>1. CASE Compensable(r)
      <4>1. \A q \in orders : owner[q] # owner[r]
        BY <2>3, <3>1 DEF OrdersOfUser
      <4>. QED
        <5>1. orders' = orders /\ owner' = owner /\ users' = [users EXCEPT ![owner[r]] = NoSN]
          BY <2>1, <2>2, <3>1
        <5>2. \A q \in orders : owner[q] \in Users
          BY DEF Origins, Admitted
        <5>. QED
          BY <1>2, <4>1, <5>1, <5>2
    <3>2. CASE ~Compensable(r)
      BY <1>2, <2>1, <2>2, <3>2
    <3>. QED
      BY <3>1, <3>2
  <2>6. \A q \in Admitted' : status'[q] # "none"
    BY <1>2, <2>1, <2>2, <2>4 DEF Admitted
  <2>. QED
    BY <2>5, <2>6
<1>10. ASSUME LoseRedis PROVE FALSE
  BY <1>1, <1>10 DEF LoseRedis, Fault
<1>. QED
  BY <1>5, <1>6, <1>7, <1>8, <1>9, <1>10, ResultStep, OwnerStep

\* The invariant of careful compensation is inductive.
LEMMA GuardedStep ==
  ASSUME OrderIsFound, EnoughAttempts, IInv, Guarded, [Next]_vars
  PROVE  Guarded'
<1>1. faults' <= MaxFaults
  BY FaultsStep DEF IInv, TypeOK, Guarded
<1>2. orders' # {} => Workers # {}
  BY CommitStep DEF Guarded
<1>3. SoldOutFails'
  BY SoldOutStep DEF IInv, Guarded
<1>. QED
  BY <1>1, <1>2, <1>3, CarefulStep, FailedStep, PlacesStep DEF Guarded

LEMMA GuardedAlways ==
  ASSUME OrderIsFound, EnoughAttempts
  PROVE  Spec => []Guarded
<1>1. Init => Guarded
  BY SizesAssumption DEF Init, Guarded, Careful, SoldOutFails, FailedIsUnsold, PlacesKept, Admitted
<1>2. IInv /\ Guarded /\ [Next]_vars => Guarded'
  BY GuardedStep
<1>. QED
  BY <1>1, <1>2, Invariance, PTL DEF Spec

\* As long as the workers and the faults that make a call fail are together no more
\* than MaxAttempts, and an order that is there is found again, no reservation is
\* reported failed to a user who has an order, however its message is delivered,
\* claimed and handled at the same time (processSeckillMessages, CreateSeckillOrder,
\* compensateScript).
THEOREM OrderIsReturned ==
  ASSUME OrderIsFound, EnoughAttempts
  PROVE  Spec => NoBuyerFails
<1>1. ASSUME IInv, Guarded, [Next]_vars, NEW r \in SN, status[r] = "pending", status'[r] = "failed"
      PROVE  OrdersOfUser(r) = {}
  <2>. USE DEF IInv, TypeOK, Keys, Locals
  <2>1. ASSUME NEW u \in Users, Admit(u) PROVE FALSE
    BY <1>1, <2>1 DEF Admit
  <2>2. ASSUME NEW p \in Processes, Warmup(p) PROVE FALSE
    BY <1>1, <2>2 DEF Warmup, resultVars
  <2>3. ASSUME NEW w \in Workers, NEW q \in batch[w], CompleteScript(w, q) PROVE FALSE
    BY <1>1, <2>3 DEF CompleteScript
  <2>4. ASSUME LoseRedis PROVE FALSE
    BY <1>1, <2>4 DEF LoseRedis
  <2>5. ASSUME NEW w \in Workers, Compensate(w) PROVE OrdersOfUser(r) = {}
    <3>1. Handles(w, r) /\ pc[w] = "compensate"
      BY <1>1, <2>5 DEF Compensate, Compensable
    <3>. QED
      BY <1>1, <3>1 DEF Guarded, Careful, Unspoilt, NeverSold
  <2>. QED
    BY <1>1, <2>1, <2>2, <2>3, <2>4, <2>5, ResultStep
<1>2. IInv /\ Guarded /\ [Next]_vars
      => [\A r \in SN : status[r] = "pending" /\ status'[r] = "failed" => OrdersOfUser(r) = {}]_vars
  BY <1>1
<1>. QED
  BY <1>2, Invariance, GuardedAlways, PTL DEF Spec, NoBuyerFails

-----------------------------------------------------------------------------
(* Redis and MySQL agree on the stock, while Redis keeps its data. *)

\* Redis knows every order, and by its own reservation.
OrdersKnown == \A r \in SN : status[r] = "success" => r \in orders

\* A place is held by its user's reservation, until that one fails.
PlacesMatch == \A u \in Users : users[u] # NoSN =>
                   owner[users[u]] = u /\ status[users[u]] \in {"pending", "success"}

\* No duplicate is ever found, so no unit is given back for one.
NoDuplicates == /\ \A r \in SN : ~restored[r]
                /\ \A w \in Workers : snapshot[w] = {} /\ ~restore[w]

\* The stock key is created before anything is admitted or sold, with the whole stock.
WholeStock == /\ stockSet => base = Stock
              /\ ~stockSet => Admitted = {} /\ sold = 0
              /\ \A p \in Processes : pc[p] = "warmup" /\ ~stockSet => remaining[p] = Stock

Intact == OrdersKnown /\ PlacesMatch /\ NoDuplicates /\ WholeStock

\* What the lemmas below assume.
Sound == IInv /\ Guarded /\ Intact /\ "loss" \notin Faults

\* The user of a reservation has no other order than the reservation's own.
LEMMA OwnOrder ==
  ASSUME Sound, NEW r \in Admitted, OrdersOfUser(r) # {}
  PROVE  r \in orders
<1>. USE DEF Sound, Guarded, IInv
<1>1. PICK q \in orders : owner[q] = owner[r]
  BY DEF OrdersOfUser
<1>2. users[owner[r]] = q /\ status[r] # "none" /\ r \in SN
  BY <1>1 DEF PlacesKept, Admitted
<1>3. status[r] # "failed"
  BY <1>2 DEF FailedIsUnsold, NeverSold
<1>4. CASE status[r] = "pending"
  BY <1>2, <1>4 DEF PendingHoldsPlace
<1>5. CASE status[r] = "success"
  BY <1>2, <1>5 DEF Intact, OrdersKnown
<1>. QED
  BY <1>2, <1>3, <1>4, <1>5 DEF TypeOK, Keys

\* A snapshot shows only orders there are, and a duplicate is found in a snapshot.
LEMMA SnapshotStep ==
  ASSUME TypeOK, [Next]_vars, NEW v \in Workers, snapshot[v] = {}, ~restore[v],
         \A r \in batch[v] : OrdersOfUser(r) # {} => r \in orders
  PROVE  snapshot'[v] = {} /\ ~restore'[v]
<1> DEFINE Clean == snapshot'[v] = {} /\ ~restore'[v]
<1>. USE DEF TypeOK, Locals, localVars
<1>1. ASSUME UNCHANGED <<snapshot, restore>> PROVE Clean
  BY <1>1
<1>2. ASSUME NEW u \in Users, Admit(u) \/ Refuse(u) PROVE Clean
  BY <1>2 DEF Admit, Refuse
<1>3. ASSUME NEW p \in Processes, Boot(p) \/ Crash(p) PROVE Clean
  BY <1>3 DEF Boot, Start, Warmup, Crash
<1>4. ASSUME NEW w \in Workers, Join(w) \/ Deliver(w) \/ Claim(w) \/ Poll(w) PROVE Clean
  BY <1>4 DEF Join, Deliver, Claim, Poll, vars
<1>5. ASSUME NEW w \in Workers, NEW r \in SN, Finish(w, r) PROVE Clean
  BY <1>5 DEF Finish
<1>6. ASSUME NEW w \in Workers, Begin(w) PROVE Clean
  BY <1>6 DEF Begin
<1>7. ASSUME NEW w \in Workers, DuplicateKey(w) PROVE Clean
  BY <1>7 DEF DuplicateKey, Fails
<1>8. ASSUME NEW w \in Workers, Handle(w), ~Begin(w), ~DuplicateKey(w) PROVE Clean
  BY <1>5, <1>8 DEF Handle, CommitOrder, BarrierRefuses, ScheduleClose, Complete, Fail,
                    GiveUpOrLeave, Compensate, Ack
<1>9. ASSUME NEW w \in Workers, Failure(w) PROVE Clean
  BY <1>5, <1>9 DEF Failure, BeginFails, CommitUnknown, InsertFails, CompleteFails, Fails,
                    CountFails, GiveUpOrLeave, CompensateFails
<1>10. CASE LoseRedis \/ Tick \/ Disable \/ UNCHANGED vars
  BY <1>10 DEF LoseRedis, Tick, Disable, vars
<1>. QED
  BY <1>2, <1>3, <1>4, <1>6, <1>7, <1>8, <1>9, <1>10 DEF Next

LEMMA NoDuplicatesStep == ASSUME Sound, [Next]_vars PROVE NoDuplicates'
<1>. USE DEF Sound, IInv, TypeOK, Keys, Locals
<1>1. ASSUME NEW v \in Workers PROVE snapshot'[v] = {} /\ ~restore'[v]
  BY OwnOrder, SnapshotStep DEF Origins, Intact, NoDuplicates
<1>2. ASSUME NEW r \in SN PROVE ~restored'[r]
  <2>1. ~restored[r] /\ \A w \in Workers : ~restore[w]
    BY DEF Intact, NoDuplicates
  <2>2. ASSUME NEW w \in Workers, NEW q \in batch[w], CompleteScript(w, q) PROVE restored' = restored
    BY <2>1, <2>2 DEF CompleteScript
  <2>3. ASSUME LoseRedis PROVE ~restored'[r]
    BY <2>3 DEF LoseRedis
  <2>. QED
    BY <2>1, <2>2, <2>3, ResultStep DEF Admit, Warmup, resultVars, Compensate
<1>. QED
  BY <1>1, <1>2 DEF NoDuplicates

LEMMA OrdersKnownStep == ASSUME Sound, [Next]_vars PROVE OrdersKnown'
<1>. USE DEF Sound, IInv, TypeOK, Keys, Locals
<1>1. SUFFICES ASSUME NEW r \in SN, status'[r] = "success" PROVE r \in orders
  BY OrdersStay DEF OrdersKnown
<1>2. CASE status[r] = "success"
  BY <1>2 DEF Intact, OrdersKnown
<1>3. CASE status[r] # "success"
  <2>1. ASSUME NEW w \in Workers, NEW q \in batch[w], CompleteScript(w, q), Handles(w, q), pc[w] = "complete"
        PROVE r \in orders
    <3>1. q = r
      BY <1>1, <1>3, <2>1 DEF CompleteScript
    <3>2. r \in Admitted /\ OrdersOfUser(r) # {}
      BY <2>1, <3>1 DEF Origins, InHand, HoldsOrder, OrdersOfUser
    <3>. QED
      BY <3>2, OwnOrder
  <2>2. ASSUME NEW u \in Users, Admit(u) PROVE FALSE
    BY <1>1, <1>3, <2>2 DEF Admit
  <2>3. ASSUME NEW p \in Processes, Warmup(p) PROVE FALSE
    BY <1>1, <1>3, <2>3 DEF Warmup, resultVars
  <2>4. ASSUME NEW w \in Workers, Compensate(w) PROVE FALSE
    BY <1>1, <1>3, <2>4 DEF Compensate
  <2>5. ASSUME LoseRedis PROVE FALSE
    BY <1>1, <2>5 DEF LoseRedis
  <2>. QED
    BY <1>1, <1>3, <2>1, <2>2, <2>3, <2>4, <2>5, ResultStep
<1>. QED
  BY <1>2, <1>3

LEMMA PlacesMatchStep == ASSUME Sound, [Next]_vars PROVE PlacesMatch'
<1>. USE DEF Sound, IInv, TypeOK, Keys, Locals
<1>1. SUFFICES ASSUME NEW u \in Users, users'[u] # NoSN
               PROVE  owner'[users'[u]] = u /\ status'[users'[u]] \in {"pending", "success"}
  BY DEF PlacesMatch
<1> DEFINE Matches == owner'[users'[u]] = u /\ status'[users'[u]] \in {"pending", "success"}
<1>2. ASSUME users[u] # NoSN
      PROVE  /\ users[u] \in Admitted /\ owner[users[u]] = u /\ owner'[users[u]] = u
             /\ status[users[u]] \in {"pending", "success"}
  <2>1. users[u] \in SN /\ owner[users[u]] = u /\ status[users[u]] \in {"pending", "success"}
    BY <1>2 DEF Intact, PlacesMatch
  <2>2. users[u] \in Admitted
    BY <2>1 DEF Origins
  <2>. QED
    BY <2>1, <2>2, OrdersStay DEF Origins
<1>3. CASE UNCHANGED <<users, status>>
  BY <1>1, <1>2, <1>3
<1>4. ASSUME NEW v \in Users, Admit(v) PROVE Matches
  <2>1. /\ sequence + 1 \in SN /\ sequence + 1 \notin Admitted
        /\ users' = [users EXCEPT ![v] = sequence + 1]
        /\ status' = [status EXCEPT ![sequence + 1] = "pending"]
        /\ owner' = [owner EXCEPT ![sequence + 1] = v]
    BY <1>4, Basics DEF Admit, Origins
  <2>2. CASE u = v
    BY <2>1, <2>2
  <2>3. CASE u # v
    <3>1. users'[u] = users[u] /\ users[u] # NoSN
      BY <1>1, <2>1, <2>3
    <3>. QED
      BY <1>2, <2>1, <3>1
  <2>. QED
    BY <2>2, <2>3
<1>5. ASSUME NEW p \in Processes, Warmup(p) PROVE UNCHANGED <<users, status>>
  BY <1>5 DEF Warmup, resultVars
<1>6. ASSUME NEW w \in Workers, NEW q \in batch[w], CompleteScript(w, q), UNCHANGED users PROVE Matches
  BY <1>1, <1>2, <1>6 DEF CompleteScript, Admitted
<1>7. ASSUME NEW w \in Workers, Compensate(w) PROVE Matches
  <2>1. PICK r \in batch[w] : IF Compensable(r)
                              THEN /\ users' = [users EXCEPT ![owner[r]] = NoSN]
                                   /\ status' = [status EXCEPT ![r] = "failed"]
                              ELSE UNCHANGED <<users, status>>
    BY <1>7 DEF Compensate
  <2>2. CASE Compensable(r)
    <3>1. r \in Admitted
      BY DEF Origins
    <3>2. owner[r] # u /\ users'[u] = users[u]
      BY <1>1, <2>1, <2>2, <3>1 DEF Admitted
    <3>3. users[u] # NoSN /\ users[u] # r
      BY <1>1, <1>2, <3>2
    <3>. QED
      BY <1>2, <2>1, <2>2, <3>2, <3>3 DEF Admitted
  <2>. QED
    BY <1>3, <2>1, <2>2
<1>8. ASSUME LoseRedis PROVE FALSE
  BY <1>8 DEF LoseRedis, Fault
<1>. QED
  BY <1>3, <1>4, <1>5, <1>6, <1>7, <1>8, ResultStep

\* A process that makes the stock key has read MySQL before, when nothing was sold.
LEMMA RemainingStep ==
  ASSUME TypeOK, [Next]_vars, NEW p \in Processes, pc'[p] = "warmup"
  PROVE  \/ pc[p] = "warmup" /\ remaining'[p] = remaining[p]
         \/ remaining'[p] = IF sold < Stock THEN Stock - sold ELSE 0
<1> DEFINE Read == \/ pc[p] = "warmup" /\ remaining'[p] = remaining[p]
                   \/ remaining'[p] = IF sold < Stock THEN Stock - sold ELSE 0
<1>. USE DEF TypeOK, Locals, localVars
<1>1. CASE UNCHANGED <<pc, remaining>>
  BY <1>1
<1>2. ASSUME NEW w, NEW l \in Labels \ {"warmup"}, Goto(w, l), UNCHANGED remaining PROVE Read
  BY <1>2 DEF Goto
<1>3. ASSUME NEW w, NEW r, Finish(w, r) PROVE Read
  BY <1>3 DEF Finish, Goto
<1>4. ASSUME NEW u \in Users, Admit(u) \/ Refuse(u) PROVE Read
  BY <1>1, <1>4 DEF Admit, Refuse
<1>5. ASSUME NEW q \in Processes, Start(q) PROVE Read
  BY <1>5 DEF Start, Started, Goto
<1>6. ASSUME NEW q \in Processes, Warmup(q) PROVE Read
  BY <1>6 DEF Warmup, Started, Goto
<1>7. ASSUME NEW q \in Processes, Crash(q) PROVE Read
  BY <1>7 DEF Crash, Goto
<1>8. ASSUME NEW w \in Workers, Join(w) \/ Deliver(w) \/ Claim(w) \/ Poll(w) PROVE Read
  BY <1>1, <1>2, <1>8 DEF Join, Deliver, Claim, Poll, vars, Labels
<1>9. ASSUME NEW w \in Workers, Handle(w) PROVE Read
  <2>1. CASE Begin(w) \/ BarrierRefuses(w) \/ DuplicateKey(w)
    BY <1>2, <2>1 DEF Begin, BarrierRefuses, DuplicateKey, Fails, Labels
  <2>2. CASE CommitOrder(w) \/ ScheduleClose(w) \/ Complete(w) \/ Compensate(w)
    BY <1>2, <2>2 DEF CommitOrder, ScheduleClose, Complete, Compensate, Labels
  <2>3. CASE Fail(w) \/ Ack(w)
    BY <1>2, <1>3, <2>3 DEF Fail, GiveUpOrLeave, Ack, Labels
  <2>. QED
    BY <1>9, <2>1, <2>2, <2>3 DEF Handle
<1>10. ASSUME NEW w \in Workers, Failure(w) PROVE Read
  <2>1. CASE BeginFails(w) \/ CommitUnknown(w) \/ InsertFails(w) \/ CompleteFails(w) \/ CompensateFails(w)
    BY <1>2, <2>1 DEF BeginFails, CommitUnknown, InsertFails, CompleteFails, CompensateFails, Fails, Labels
  <2>2. CASE CountFails(w)
    BY <1>2, <1>3, <2>2 DEF CountFails, GiveUpOrLeave, Labels
  <2>. QED
    BY <1>10, <2>1, <2>2 DEF Failure
<1>11. CASE LoseRedis \/ Tick \/ Disable \/ UNCHANGED vars
  BY <1>1, <1>11 DEF LoseRedis, Tick, Disable, vars
<1>. QED
  BY <1>4, <1>5, <1>6, <1>7, <1>8, <1>9, <1>10, <1>11 DEF Next, Boot

LEMMA WholeStockStep == ASSUME Sound, [Next]_vars PROVE WholeStock'
<1>. USE DEF Sound, IInv, TypeOK, Keys, Rows, Locals
<1>1. WholeStock
  BY DEF Intact
<1>2. ASSUME NEW w \in Workers, NEW r \in batch[w] PROVE stockSet
  BY <1>1, <1>2 DEF Origins, WholeStock
<1>3. ASSUME NEW u \in Users, Admit(u) PROVE stockSet /\ UNCHANGED <<stockSet, base>>
  BY <1>3 DEF Admit, Admissible, NoStockNoUnits
<1>4. ASSUME LoseRedis PROVE FALSE
  BY <1>4 DEF LoseRedis, Fault
<1>5. ASSUME NEW w \in Workers, Compensate(w) PROVE stockSet /\ stockSet' /\ UNCHANGED base
  BY <1>2, <1>5 DEF Compensate
<1>6. ASSUME NEW w \in Workers, NEW r \in batch[w], CompleteScript(w, r) PROVE UNCHANGED <<stockSet, base>>
  BY <1>6 DEF CompleteScript, Intact, NoDuplicates
<1>7. ASSUME NEW p \in Processes, Warmup(p) PROVE stockSet' /\ base' = Stock
  BY <1>1, <1>7 DEF Warmup, WholeStock
<1>8. stockSet' => base' = Stock
  BY <1>1, <1>3, <1>4, <1>5, <1>6, <1>7, ResultStep DEF WholeStock
<1>9. ASSUME ~stockSet' PROVE ~stockSet
  BY <1>3, <1>4, <1>5, <1>6, <1>7, <1>9, ResultStep
<1>10. ASSUME ~stockSet' PROVE Admitted' = {} /\ sold' = 0
  <2>1. ~stockSet /\ Admitted = {} /\ sold = 0
    BY <1>1, <1>9, <1>10 DEF WholeStock
  <2>2. owner' = owner
    BY <1>3, <2>1, OwnerStep
  <2>3. UNCHANGED <<orders, sold>>
    BY <1>2, <2>1, OrdersStep
  <2>. QED
    BY <2>1, <2>2, <2>3 DEF Admitted
<1>11. ASSUME NEW p \in Processes, pc'[p] = "warmup", ~stockSet' PROVE remaining'[p] = Stock
  <2>1. sold = 0 /\ (pc[p] = "warmup" => remaining[p] = Stock)
    BY <1>1, <1>9, <1>11 DEF WholeStock
  <2>2. (IF sold < Stock THEN Stock - sold ELSE 0) = Stock
    BY <2>1, SizesAssumption
  <2>. QED
    BY <1>11, <2>1, <2>2, RemainingStep
<1>. QED
  BY <1>8, <1>10, <1>11 DEF WholeStock

\* Users with a place and units sold or in flight are as many.
LEMMA PlacesAreUnits ==
  ASSUME Sound
  PROVE  Cardinality(orders \cup Pending) = Cardinality(Places)
<1>. USE DEF Sound, IInv, TypeOK, Keys, Rows
<1> DEFINE Units == orders \cup Pending
           Place == [u \in Places |-> users[u]]
<1>1. IsFiniteSet(Places)
  BY UsersAssumption, FS_Subset DEF Places
<1>2. \A u \in Places : users[u] \in SN /\ owner[users[u]] = u /\ users[u] \in Units
  BY DEF Places, Intact, PlacesMatch, OrdersKnown, Pending
<1>3. \A r \in Units : owner[r] \in Places /\ users[owner[r]] = r
  <2>. SUFFICES ASSUME NEW r \in Units PROVE owner[r] \in Places /\ users[owner[r]] = r
    OBVIOUS
  <2>1. r \in Admitted /\ r \in SN /\ r # NoSN
    BY Basics DEF Origins, Pending
  <2>2. users[owner[r]] = r
    BY DEF Guarded, PlacesKept, PendingHoldsPlace, Pending
  <2>. QED
    BY <2>1, <2>2 DEF Admitted, Places
<1>4. Place \in [Places -> Units] /\ \A u, v \in Places : Place[u] = Place[v] => u = v
  BY <1>2
<1>5. \A r \in Units : \E u \in Places : Place[u] = r
  BY <1>3
<1>6. Place \in Bijection(Places, Units)
  BY <1>4, <1>5, Fun_IsBij
<1>7. ExistsBijection(Places, Units)
  BY <1>6 DEF ExistsBijection
<1>. QED
  BY <1>1, <1>7, FS_Bijection

\* While Redis keeps its data, and the workers and the faults that make a call fail are
\* together no more than MaxAttempts, the Redis stock, the orders in MySQL and the
\* reservations in flight make up the activity's stock: no retry, claim, lost answer,
\* compensation or restart makes the two sides disagree about a unit (reserveScript,
\* CreateSeckillOrder, completeScript, compensateScript, Warmup).
THEOREM StockAgreed ==
  ASSUME EnoughAttempts, "loss" \notin Faults
  PROVE  Spec => []StockAgrees
<1>1. OrderIsFound
  BY DEF OrderIsFound
<1>2. Init => Intact
  BY Basics, SizesAssumption DEF Init, Intact, OrdersKnown, PlacesMatch, NoDuplicates, WholeStock, Admitted
<1>3. IInv /\ Guarded /\ Intact /\ [Next]_vars => Intact'
  BY OrdersKnownStep, PlacesMatchStep, NoDuplicatesStep, WholeStockStep DEF Sound, Intact
<1>4. IInv /\ Guarded /\ Intact => StockAgrees
  <2>. SUFFICES ASSUME IInv, Guarded, Intact, stockSet
                PROVE  stock + Cardinality(orders \cup Pending) = Stock
    BY DEF StockAgrees
  <2>1. Restored = {} /\ base = Stock
    BY DEF Restored, Intact, NoDuplicates, WholeStock
  <2>2. stock + Cardinality(Places) = Stock + 0
    BY <2>1, FS_EmptySet DEF IInv, StockAccounting
  <2>3. Cardinality(orders \cup Pending) = Cardinality(Places)
    BY PlacesAreUnits DEF Sound
  <2>. QED
    BY <2>2, <2>3, SizesAssumption
<1>. QED
  BY <1>1, <1>2, <1>3, <1>4, Invariance, GuardedAlways, PTL DEF Spec

-----------------------------------------------------------------------------
(* Close tasks, while Redis keeps its data. *)

\* Fewer orders are without a close task, or a fault leaves at most one more without.
Scheduling ==
    \/ Unscheduled' \subseteq Unscheduled /\ faults' \in {faults, faults + 1}
    \/ \E r \in SN \cup {NoSN} : Unscheduled' \subseteq Unscheduled \cup {r} /\ faults' = faults + 1

\* An order loses its chance of a close task only in a step that is a fault: a lost
\* answer, a failed enqueue, or a crash before it.
LEMMA SchedulingStep ==
  ASSUME TypeOK, "loss" \notin Faults, [Next]_vars
  PROVE  Scheduling
<1>. USE DEF TypeOK, Locals, Rows, localVars, mysqlVars, envVars
<1>1. ASSUME NEW kind, Fault(kind) PROVE faults' = faults + 1
  BY <1>1 DEF Fault
<1> DEFINE Keep == UNCHANGED <<orders, closeTasks>> /\ faults' \in {faults, faults + 1}
           Stays(v) == pc[v] = "schedule" => pc'[v] = "schedule" /\ order'[v] = order[v]
<1>2. ASSUME Keep, \A v \in Workers : Stays(v) PROVE Scheduling
  BY <1>2 DEF Unscheduled, Scheduling
<1>3. ASSUME NEW w \in Workers, Handle(w) \/ Failure(w) PROVE \A v \in Workers \ {w} : Stays(v)
  BY <1>3, OthersStill DEF Still
<1>4. ASSUME NEW u \in Users, Admit(u) \/ Refuse(u) PROVE Scheduling
  BY <1>2, <1>4 DEF Admit, Refuse
<1>5. ASSUME NEW p \in Processes, Boot(p) PROVE Scheduling
  <2>1. Keep
    BY <1>5 DEF Boot, Start, Warmup
  <2>2. \A v \in Workers : Stays(v)
    BY <1>5, Basics DEF Boot, Start, Warmup, Goto
  <2>. QED
    BY <1>2, <2>1, <2>2
<1>6. ASSUME NEW p \in Processes, Crash(p) PROVE Scheduling
  <2>1. faults' = faults + 1 /\ UNCHANGED <<orders, closeTasks>>
    BY <1>1, <1>6 DEF Crash
  <2>2. \A v \in Workers : v # p => pc'[v] = pc[v] /\ order'[v] = order[v]
    BY <1>6, Basics DEF Crash, Goto
  <2>3. CASE p \in Workers
    <3>1. Unscheduled' \subseteq Unscheduled \cup {order[p]}
      BY <2>1, <2>2 DEF Unscheduled
    <3>. QED
      BY <2>1, <2>3, <3>1 DEF Scheduling
  <2>4. CASE p \notin Workers
    BY <1>2, <2>1, <2>2, <2>4
  <2>. QED
    BY <2>3, <2>4
<1>7. ASSUME NEW w \in Workers, Join(w) \/ Deliver(w) \/ Claim(w) \/ Poll(w) PROVE Scheduling
  <2>1. Keep
    BY <1>7 DEF Join, Deliver, Claim, Poll, vars
  <2>2. \A v \in Workers : Stays(v)
    <3>1. CASE Join(w)
      BY <3>1, Basics DEF Join, Goto
    <3>2. CASE Deliver(w) \/ Claim(w) \/ Poll(w)
      BY <3>2 DEF Deliver, Claim, Poll, vars
    <3>. QED
      BY <1>7, <3>1, <3>2
  <2>. QED
    BY <1>2, <2>1, <2>2
<1>8. ASSUME NEW w \in Workers, CommitOrder(w) PROVE Scheduling
  <2>1. PICK r \in SN : order' = [order EXCEPT ![w] = r] /\ orders' = orders \cup {r}
    BY <1>8 DEF CommitOrder, Store
  <2>2. pc'[w] = "schedule" /\ order'[w] = r
    BY <1>8, <2>1, Basics DEF CommitOrder, Goto
  <2>3. pc[w] # "schedule" /\ UNCHANGED <<closeTasks, faults>>
    BY <1>8 DEF CommitOrder
  <2>4. \A v \in Workers : Stays(v)
    BY <1>3, <1>8, <2>3 DEF Handle
  <2>5. Unscheduled' \subseteq Unscheduled
    BY <2>1, <2>2, <2>3, <2>4 DEF Unscheduled
  <2>. QED
    BY <2>3, <2>5 DEF Scheduling
<1>9. ASSUME NEW w \in Workers, CommitUnknown(w) PROVE Scheduling
  <2>1. PICK r \in SN : orders' = orders \cup {r}
    BY <1>9 DEF CommitUnknown, Store
  <2>2. pc[w] # "schedule" /\ UNCHANGED closeTasks /\ faults' = faults + 1
    BY <1>1, <1>9 DEF CommitUnknown
  <2>3. \A v \in Workers : Stays(v)
    BY <1>3, <1>9, <2>2 DEF Failure
  <2>4. Unscheduled' \subseteq Unscheduled \cup {r}
    BY <2>1, <2>2, <2>3 DEF Unscheduled
  <2>. QED
    BY <2>2, <2>4 DEF Scheduling
<1>10. ASSUME NEW w \in Workers, ScheduleClose(w) PROVE Scheduling
  <2>1. \A v \in Workers \ {w} : Stays(v)
    BY <1>3, <1>10 DEF Handle
  <2>2. UNCHANGED orders
    BY <1>10 DEF ScheduleClose
  <2>3. CASE closeTasks' = closeTasks \cup {order[w]} /\ UNCHANGED faults
    <3>1. Unscheduled' \subseteq Unscheduled
      BY <2>1, <2>2, <2>3 DEF Unscheduled
    <3>. QED
      BY <2>3, <3>1 DEF Scheduling
  <2>4. CASE Fault("redis") /\ UNCHANGED closeTasks
    <3>1. Unscheduled' \subseteq Unscheduled \cup {order[w]}
      BY <2>1, <2>2, <2>4 DEF Unscheduled
    <3>. QED
      BY <1>1, <2>4, <3>1 DEF Scheduling
  <2>. QED
    BY <1>10, <2>3, <2>4 DEF ScheduleClose
<1>11. ASSUME NEW w \in Workers, Handle(w), ~CommitOrder(w), ~ScheduleClose(w) PROVE Scheduling
  <2>1. Keep /\ pc[w] # "schedule"
    BY <1>1, <1>11 DEF Handle, Begin, BarrierRefuses, DuplicateKey, Complete, Fail, Compensate, Ack
  <2>. QED
    BY <1>2, <1>3, <1>11, <2>1
<1>12. ASSUME NEW w \in Workers, Failure(w), ~CommitUnknown(w) PROVE Scheduling
  <2>1. Keep /\ pc[w] # "schedule"
    BY <1>1, <1>12 DEF Failure, BeginFails, InsertFails, CompleteFails, CountFails, CompensateFails
  <2>. QED
    BY <1>2, <1>3, <1>12, <2>1
<1>13. CASE Tick \/ Disable \/ UNCHANGED vars
  BY <1>2, <1>13 DEF Tick, Disable, vars
<1>14. ~LoseRedis
  BY DEF LoseRedis, Fault
<1>. QED
  BY <1>4, <1>5, <1>6, <1>7, <1>8, <1>9, <1>10, <1>11, <1>12, <1>13, <1>14 DEF Next

\* While Redis keeps its data, at most one order for every fault is left without a close
\* task and without a worker about to schedule one: a retry that finds the order existing
\* schedules nothing, and still no interleaving of retries and claims adds to what the
\* faults did (CreateSeckill, processSeckillMessages).
THEOREM ClosesAccounted ==
  ASSUME "loss" \notin Faults
  PROVE  Spec => []ClosesScheduled
<1>1. Init => ClosesScheduled
  <2>1. Init => Unscheduled = {}
    BY DEF Init, Unscheduled
  <2>. QED
    BY <2>1, FS_EmptySet DEF Init, ClosesScheduled
<1>2. TypeOK /\ ClosesScheduled /\ [Next]_vars => ClosesScheduled'
  <2>. SUFFICES ASSUME TypeOK, ClosesScheduled, [Next]_vars PROVE ClosesScheduled'
    OBVIOUS
  <2>1. IsFiniteSet(SN) /\ Unscheduled \subseteq SN /\ faults \in Nat
    <3>1. IsFiniteSet(1..MaxSN)
      BY SizesAssumption, FS_Interval
    <3>. QED
      BY <3>1 DEF SN, Unscheduled, TypeOK, Rows, Surroundings
  <2>2. IsFiniteSet(Unscheduled) /\ Cardinality(Unscheduled) \in Nat
    BY <2>1, FS_Subset, FS_CardinalityType
  <2>3. CASE Unscheduled' \subseteq Unscheduled /\ faults' \in {faults, faults + 1}
    <3>1. Cardinality(Unscheduled') <= Cardinality(Unscheduled) /\ Cardinality(Unscheduled') \in Nat
      BY <2>2, <2>3, FS_Subset, FS_CardinalityType
    <3>. QED
      BY <2>1, <2>2, <2>3, <3>1 DEF ClosesScheduled
  <2>4. ASSUME NEW r, Unscheduled' \subseteq Unscheduled \cup {r}, faults' = faults + 1
        PROVE  ClosesScheduled'
    <3>1. /\ IsFiniteSet(Unscheduled \cup {r})
          /\ Cardinality(Unscheduled \cup {r}) \in Nat
          /\ Cardinality(Unscheduled \cup {r}) <= Cardinality(Unscheduled) + 1
      BY <2>2, FS_AddElement, FS_CardinalityType
    <3>2. Cardinality(Unscheduled') <= Cardinality(Unscheduled \cup {r}) /\ Cardinality(Unscheduled') \in Nat
      BY <2>4, <3>1, FS_Subset, FS_CardinalityType
    <3>. QED
      BY <2>1, <2>2, <2>4, <3>1, <3>2 DEF ClosesScheduled
  <2>. QED
    BY <2>3, <2>4, SchedulingStep DEF Scheduling
<1>. QED
  BY <1>1, <1>2, TypeCorrect, PTL DEF Spec

-----------------------------------------------------------------------------
(* The promise of a flash sale. *)

\* What SeckillSale sees changes in five ways.
LEMMA SaleFootprint ==
  ASSUME [Next]_vars
  PROVE  \/ UNCHANGED <<owner, status, orders>>
         \/ \E u \in Users : Admit(u)
         \/ \E w \in Workers : \E r \in batch[w] : Store(r) /\ UNCHANGED <<owner, status>>
         \/ \E w \in Workers : \E r \in batch[w] :
              /\ Handles(w, r) /\ pc[w] = "complete" /\ CompleteScript(w, r)
              /\ UNCHANGED <<owner, orders>>
         \/ \E w \in Workers : Compensate(w)
         \/ LoseRedis
<1> DEFINE Same == UNCHANGED <<owner, status, orders>>
           Stores(w) == \E r \in batch[w] : Store(r) /\ UNCHANGED <<owner, status>>
           Completes(w) == \E r \in batch[w] :
              /\ Handles(w, r) /\ pc[w] = "complete" /\ CompleteScript(w, r)
              /\ UNCHANGED <<owner, orders>>
<1>. USE DEF resultVars, mysqlVars
<1>1. ASSUME NEW u \in Users, Refuse(u) PROVE Same
  BY <1>1 DEF Refuse
<1>2. ASSUME NEW p \in Processes, Boot(p) \/ Crash(p) PROVE Same
  BY <1>2 DEF Boot, Start, Warmup, Crash
<1>3. ASSUME NEW w \in Workers, Join(w) \/ Deliver(w) \/ Claim(w) \/ Poll(w) PROVE Same
  BY <1>3 DEF Join, Deliver, Claim, Poll, vars
<1>4. ASSUME NEW w \in Workers, CommitOrder(w) \/ CommitUnknown(w) PROVE Stores(w)
  BY <1>4 DEF CommitOrder, CommitUnknown
<1>5. ASSUME NEW w \in Workers, Complete(w) \/ CompleteFails(w) PROVE Same \/ Completes(w)
  BY <1>5 DEF Complete, CompleteFails
<1>6. ASSUME NEW w \in Workers, Handle(w), ~CommitOrder(w), ~Complete(w), ~Compensate(w) PROVE Same
  BY <1>6 DEF Handle, Begin, BarrierRefuses, DuplicateKey, ScheduleClose, Fail, Ack
<1>7. ASSUME NEW w \in Workers, Failure(w), ~CommitUnknown(w), ~CompleteFails(w) PROVE Same
  BY <1>7 DEF Failure, BeginFails, InsertFails, CountFails, CompensateFails
<1>8. CASE Tick \/ Disable \/ UNCHANGED vars
  BY <1>8 DEF Tick, Disable, vars
<1>. QED
  BY <1>1, <1>2, <1>3, <1>4, <1>5, <1>6, <1>7, <1>8 DEF Next

\* Each of these is the step of the promise that it should be, or none.
LEMMA SaleStep ==
  ASSUME IInv, [Next]_vars
  PROVE  Sale!SaleNext \/ UNCHANGED <<owner, status, orders>>
<1>. USE DEF IInv, TypeOK, Keys, Locals, Rows
<1>1. ASSUME NEW u \in Users, Admit(u) PROVE Sale!SaleNext
  <2>1. sequence + 1 \in SN /\ owner[sequence + 1] = NoUser
    BY <1>1, Basics DEF Admit, Origins, Admitted
  <2>2. \A q \in SN : owner[q] = u => status[q] # "pending"
    BY <1>1, Basics DEF Admit, Admissible, PendingHoldsPlace
  <2>3. UNCHANGED orders
    BY <1>1 DEF Admit, mysqlVars
  <2>4. \E r \in SN : Sale!Accept(u, r)
    BY <1>1, <2>1, <2>2, <2>3 DEF Admit, Sale!Accept
  <2>. QED
    BY <2>4 DEF Sale!SaleNext
<1>2. ASSUME NEW w \in Workers, NEW r \in batch[w], Store(r), UNCHANGED <<owner, status>>
      PROVE Sale!SaleNext
  <2>1. r \in SN /\ owner[r] # NoUser
    BY DEF Origins, Admitted
  <2>2. Cardinality(orders) < Stock /\ \A q \in orders : owner[q] # owner[r]
    BY <1>2 DEF Store, OrdersOfUser, NoOversell
  <2>3. orders' = orders \cup {r} /\ UNCHANGED <<owner, status>>
    BY <1>2 DEF Store
  <2>4. Sale!Sell(r)
    <3>1. Sale!Cardinality(orders) = Cardinality(orders)
      BY DEF Sale!Cardinality, Cardinality
    <3>. QED
      BY <2>1, <2>2, <2>3, <3>1 DEF Sale!Sell
  <2>. QED
    BY <2>1, <2>4 DEF Sale!SaleNext
<1>3. ASSUME NEW w \in Workers, NEW r \in batch[w], Handles(w, r), pc[w] = "complete",
             CompleteScript(w, r), UNCHANGED <<owner, orders>>
      PROVE Sale!SaleNext
  <2>1. r \in SN /\ order[w] \in orders /\ owner[order[w]] = owner[r]
    BY <1>3 DEF InHand, HoldsOrder
  <2>2. \E x \in SN : Sale!Confirm(x)
    BY <1>3, <2>1 DEF CompleteScript, Sale!Confirm
  <2>. QED
    BY <2>2 DEF Sale!SaleNext
<1>4. ASSUME NEW w \in Workers, Compensate(w)
      PROVE Sale!SaleNext \/ UNCHANGED <<owner, status, orders>>
  <2>1. UNCHANGED <<owner, orders>>
    BY <1>4 DEF Compensate, mysqlVars
  <2>2. PICK r \in batch[w] : IF Compensable(r) THEN status' = [status EXCEPT ![r] = "failed"]
                                                ELSE UNCHANGED status
    BY <1>4 DEF Compensate
  <2>3. CASE ~Compensable(r)
    BY <2>1, <2>2, <2>3
  <2>4. CASE Compensable(r)
    <3>1. \E x \in SN : Sale!Reject(x)
      BY <2>1, <2>2, <2>4 DEF Compensable, Sale!Reject
    <3>. QED
      BY <3>1 DEF Sale!SaleNext
  <2>. QED
    BY <2>3, <2>4
<1>5. CASE LoseRedis
  BY <1>5 DEF LoseRedis, mysqlVars, Sale!Forget, Sale!SaleNext
<1>. QED
  BY <1>1, <1>2, <1>3, <1>4, <1>5, SaleFootprint

\* The flash sale keeps the promise of SeckillSale, whatever the number of users,
\* workers and faults: sales within the stock, one for each user, each open
\* reservation told one outcome, and success only with a sale (reserveScript,
\* CreateSeckillOrder, completeScript, compensateScript).
THEOREM KeepsPromise == Spec => ImplementsSale
<1>1. Init => Sale!SaleInit
  BY DEF Init, Sale!SaleInit
<1>2. IInv /\ [Next]_vars => [Sale!SaleNext]_(Sale!saleVars)
  BY SaleStep DEF Sale!saleVars
<1>. QED
  BY <1>1, <1>2, Invariance, PTL DEF Spec, ImplementsSale, Sale!SaleSpec
=============================================================================
