------------------------------- MODULE Seckill -------------------------------
(***************************************************************************)
(* The flash sale (seckill) of one activity: the Redis scripts that admit, *)
(* complete and compensate a reservation, the stream and its consumer      *)
(* group, the worker processes that turn a delivered reservation into a    *)
(* MySQL order, and what can go wrong between any two of their steps.      *)
(*                                                                         *)
(* A reservation, its stream message and the order made from it carry the  *)
(* same number: makeReservationSN derives the reservation number from one  *)
(* Redis counter and seckillOrderSN derives the order number from it.      *)
(***************************************************************************)
EXTENDS Integers, FiniteSets

CONSTANTS
    Users,           \* users that ask for a reservation
    NoUser,          \* owner of a number that was never admitted
    Apis,            \* api processes, which serve Reserve
    Workers,         \* worker processes, each one consumer of the group
    Stock,           \* seckill_activity.stock
    MaxAttempts,     \* attempts after which a reservation is given up: 5 in worker.go
    BatchSize,       \* COUNT of XREADGROUP and XAUTOCLAIM: 20 in worker.go
    TranslateError,  \* does gorm map a duplicate key to ErrDuplicatedKey? FALSE as OpenDB configures it
    Faults,          \* the kinds of fault that may happen
    MaxFaults,       \* bound: how many faults happen
    MaxSN            \* bound: how many reservation requests are made

FaultKinds == {"db", "commit", "redis", "crash", "loss"}

ASSUME UsersAssumption == IsFiniteSet(Users) /\ NoUser \notin Users
ASSUME ProcessesAssumption == Apis \cap Workers = {}
ASSUME SizesAssumption == /\ Stock \in Nat /\ MaxSN \in Nat /\ MaxFaults \in Nat
                          /\ MaxAttempts \in Nat \ {0} /\ BatchSize \in Nat \ {0}
ASSUME SwitchesAssumption == TranslateError \in BOOLEAN /\ Faults \subseteq FaultKinds

Processes == Apis \cup Workers
SN == 1..MaxSN
NoSN == 0

VARIABLES
    \* Redis
    sequence,   \* the counter behind reservation numbers
    warmed,     \* the activity hash exists
    stockSet,   \* the stock key exists
    stock,      \* its value, 0 when it does not exist
    base,       \* history: the value SETNX stored when the stock key was created
    users,      \* users hash: the reservation that holds each user's place
    status,     \* result hash: none, pending, success or failed
    attempts,   \* result hash: attempts
    restored,   \* result hash: stockRestored
    orderSn,    \* result hash: orderSn
    group,      \* the consumer group exists
    stream,     \* messages the group has not delivered yet
    pel,        \* messages delivered and not acknowledged
    owner,      \* userId in the message of each admitted reservation
    closeTasks, \* orders with a delayed close task in asynq
    \* MySQL
    enabled,    \* seckill_activity.status = 1
    sold,       \* seckill_activity.sold_count
    orders,     \* reservations with a committed seckill_order row and its order
    \* processes
    pc,         \* where the process is
    remaining,  \* stock - sold_count as its Warmup read it
    batch,      \* messages a worker has in hand, taken in stream order
    snapshot,   \* the user's orders in the snapshot of its transaction
    order,      \* orderSN that CreateSeckill returned
    restore,    \* restoreStock that CreateSeckill returned
    soldOut,    \* is the error in hand ErrSeckillSoldOut?
    \* environment
    phase,      \* the clock against the activity's window
    faults      \* faults that have happened

resultVars == <<status, attempts, restored, orderSn>>
stockVars  == <<warmed, stockSet, stock, base>>
streamVars == <<group, stream, pel>>
mysqlVars  == <<enabled, sold, orders>>
localVars  == <<remaining, snapshot, order, restore, soldOut>>
envVars    == <<phase, faults>>
vars == <<sequence, stockVars, users, resultVars, streamVars, owner, closeTasks,
          mysqlVars, pc, batch, localVars, envVars>>

-----------------------------------------------------------------------------
(* Helpers. An operator whose name ends in _Bug is a mutated form of the one     *)
(* after it, with a plausible mistake: a property must fail when it takes over.   *)

\* The first n messages of S in stream order, which is the order of their numbers.
Oldest(S, n) == {m \in S : Cardinality({k \in S : k < m}) < n}

\* The message worker w handles: processSeckillMessages goes through its batch in order.
Handles(w, r) == r \in batch[w] /\ \A m \in batch[w] : r <= m

\* The orders of the user of reservation r, itself included: what uk_activity_user
\* and uk_reservation_sn compare an INSERT for r with.
OrdersOfUser(r) == {q \in orders : owner[q] = owner[r]}

Fault(kind) == kind \in Faults /\ faults < MaxFaults /\ faults' = faults + 1

Goto(w, label) == pc' = [pc EXCEPT ![w] = label]

\* Worker w is through with message r and its locals go out of scope.
Finish(w, r) ==
    /\ batch' = [batch EXCEPT ![w] = @ \ {r}]
    /\ Goto(w, "idle")
    /\ snapshot' = [snapshot EXCEPT ![w] = {}]
    /\ order' = [order EXCEPT ![w] = NoSN]
    /\ restore' = [restore EXCEPT ![w] = FALSE]
    /\ soldOut' = [soldOut EXCEPT ![w] = FALSE]
    /\ UNCHANGED remaining

\* Process returns an error other than ErrSeckillSoldOut.
Fails(w) == Goto(w, "fail") /\ UNCHANGED <<batch, localVars>>

Init ==
    /\ sequence = 0
    /\ warmed = FALSE /\ stockSet = FALSE /\ stock = 0 /\ base = 0
    /\ users = [u \in Users |-> NoSN]
    /\ status = [r \in SN |-> "none"]
    /\ attempts = [r \in SN |-> 0]
    /\ restored = [r \in SN |-> FALSE]
    /\ orderSn = [r \in SN |-> NoSN]
    /\ group = FALSE /\ stream = {} /\ pel = {}
    /\ owner = [r \in SN |-> NoUser]
    /\ closeTasks = {}
    /\ enabled = TRUE /\ sold = 0 /\ orders = {}
    /\ pc = [p \in Processes |-> "off"]
    /\ remaining = [p \in Processes |-> 0]
    /\ batch = [w \in Workers |-> {}]
    /\ snapshot = [w \in Workers |-> {}]
    /\ order = [w \in Workers |-> NoSN]
    /\ restore = [w \in Workers |-> FALSE]
    /\ soldOut = [w \in Workers |-> FALSE]
    /\ phase = "before" /\ faults = 0

-----------------------------------------------------------------------------
(* Process start: Bootstrap calls Warmup in both programs, then cmd/api serves *)
(* and cmd/worker makes the consumer group.                                    *)

Started(p) == IF p \in Apis THEN "serving" ELSE "join"

\* Warmup reads the active activities from MySQL.
Start(p) ==
    /\ pc[p] = "off"
    /\ IF enabled /\ phase # "ended"
       THEN /\ Goto(p, "warmup")
            /\ remaining' = [remaining EXCEPT ![p] = IF sold < Stock THEN Stock - sold ELSE 0]
       ELSE Goto(p, Started(p)) /\ UNCHANGED remaining
    /\ UNCHANGED <<sequence, stockVars, users, resultVars, streamVars, owner, closeTasks,
                   mysqlVars, batch, snapshot, order, restore, soldOut, envVars>>

\* Mutant: SET for SETNX.
Warmup_Bug(p) ==
    /\ pc[p] = "warmup"
    /\ Goto(p, Started(p))
    /\ warmed' = TRUE
    /\ stockSet' = TRUE /\ stock' = remaining[p] /\ base' = remaining[p]
    /\ UNCHANGED <<sequence, users, resultVars, streamVars, owner, closeTasks,
                   mysqlVars, batch, localVars, envVars>>

\* Warmup's MULTI: HSET the activity, SETNX the stock.
Warmup(p) ==
    /\ pc[p] = "warmup"
    /\ Goto(p, Started(p))
    /\ warmed' = TRUE
    /\ IF stockSet
       THEN UNCHANGED <<stockSet, stock, base>>
       ELSE stockSet' = TRUE /\ stock' = remaining[p] /\ base' = remaining[p]
    /\ UNCHANGED <<sequence, users, resultVars, streamVars, owner, closeTasks,
                   mysqlVars, batch, localVars, envVars>>

\* XGroupCreateMkStream from "0"; BUSYGROUP when it exists is not an error.
Join(w) ==
    /\ pc[w] = "join"
    /\ Goto(w, "idle")
    /\ group' = TRUE
    /\ UNCHANGED <<sequence, stockVars, users, resultVars, stream, pel, owner, closeTasks,
                   mysqlVars, batch, localVars, envVars>>

-----------------------------------------------------------------------------
(* Reserve, by an api process: INCR the sequence, then reserveScript. *)

Serving == \E a \in Apis : pc[a] = "serving"

\* Mutant: stock < 0 for stock <= 0.
Admissible_Stock_Bug(u) == warmed /\ phase = "open" /\ users[u] = NoSN /\ stock >= 0

\* The script's checks, in its order: activity, window, place, stock.
Admissible(u) == warmed /\ phase = "open" /\ users[u] = NoSN /\ stock > 0

\* The script admits the request: stock, place, result and message at once.
Admit(u) ==
    /\ Serving /\ sequence < MaxSN
    /\ Admissible(u)
    /\ sequence' = sequence + 1
    /\ stock' = stock - 1
    /\ users' = [users EXCEPT ![u] = sequence + 1]
    /\ status' = [status EXCEPT ![sequence + 1] = "pending"]
    /\ attempts' = [attempts EXCEPT ![sequence + 1] = 0]
    /\ owner' = [owner EXCEPT ![sequence + 1] = u]
    /\ stream' = stream \cup {sequence + 1}
    /\ UNCHANGED <<warmed, stockSet, base, restored, orderSn, group, pel, closeTasks,
                   mysqlVars, pc, batch, localVars, envVars>>

\* It refuses, or answers with the reservation the user holds; the number is spent.
Refuse(u) ==
    /\ Serving /\ sequence < MaxSN
    /\ ~Admissible(u)
    /\ sequence' = sequence + 1
    /\ UNCHANGED <<stockVars, users, resultVars, streamVars, owner, closeTasks,
                   mysqlVars, pc, batch, localVars, envVars>>

-----------------------------------------------------------------------------
(* consumeSeckill: reading and claiming messages. *)

\* XREADGROUP ">": the oldest undelivered messages enter the pending list.
Deliver(w) ==
    /\ pc[w] = "idle" /\ batch[w] = {}
    /\ group /\ stream # {}
    /\ batch' = [batch EXCEPT ![w] = Oldest(stream, BatchSize)]
    /\ stream' = stream \ Oldest(stream, BatchSize)
    /\ pel' = pel \cup Oldest(stream, BatchSize)
    /\ UNCHANGED <<sequence, stockVars, users, resultVars, group, owner, closeTasks,
                   mysqlVars, pc, localVars, envVars>>

\* Mutant: pending messages are claimed only while new ones arrive.
Claim_Bug(w) ==
    /\ pc[w] = "idle" /\ batch[w] = {}
    /\ stream # {}
    /\ \E idle \in (SUBSET pel) \ {{}} : batch' = [batch EXCEPT ![w] = Oldest(idle, BatchSize)]
    /\ UNCHANGED <<sequence, stockVars, users, resultVars, streamVars, owner, closeTasks,
                   mysqlVars, pc, localVars, envVars>>

\* XAUTOCLAIM: the oldest of the messages that have been idle for 30 seconds,
\* whichever they are. Nothing says that their consumer has stopped.
Claim(w) ==
    /\ pc[w] = "idle" /\ batch[w] = {}
    /\ \E idle \in (SUBSET pel) \ {{}} : batch' = [batch EXCEPT ![w] = Oldest(idle, BatchSize)]
    /\ UNCHANGED <<sequence, stockVars, users, resultVars, streamVars, owner, closeTasks,
                   mysqlVars, pc, localVars, envVars>>

\* The loop turns with nothing to read, or with NOGROUP.
Poll(w) ==
    /\ pc[w] = "idle" /\ batch[w] = {}
    /\ stream = {} \/ ~group
    /\ UNCHANGED vars

-----------------------------------------------------------------------------
(* Process: the MySQL transaction, the close task, completeScript. *)

\* Mutant: the transaction does not look for an order of its reservation.
Begin_Bug(w) ==
    /\ pc[w] = "idle"
    /\ \E r \in batch[w] :
        /\ Handles(w, r)
        /\ Goto(w, "insert")
        /\ snapshot' = [snapshot EXCEPT ![w] = OrdersOfUser(r)]
    /\ UNCHANGED <<sequence, stockVars, users, resultVars, streamVars, owner, closeTasks,
                   mysqlVars, batch, remaining, order, restore, soldOut, envVars>>

\* The transaction's first SELECT takes its snapshot: an order of this very
\* reservation is returned as it is, otherwise the transaction goes on.
Begin(w) ==
    /\ pc[w] = "idle"
    /\ \E r \in batch[w] :
        /\ Handles(w, r)
        /\ IF r \in orders
           THEN /\ Goto(w, "complete")
                /\ order' = [order EXCEPT ![w] = r]
                /\ UNCHANGED snapshot
           ELSE /\ Goto(w, "insert")
                /\ snapshot' = [snapshot EXCEPT ![w] = OrdersOfUser(r)]
                /\ UNCHANGED order
    /\ UNCHANGED <<sequence, stockVars, users, resultVars, streamVars, owner, closeTasks,
                   mysqlVars, batch, remaining, restore, soldOut, envVars>>

\* A query before the INSERT fails: the activity, the homestay or the first SELECT.
BeginFails(w) ==
    /\ pc[w] = "idle" /\ batch[w] # {}
    /\ Fault("db") /\ Fails(w)
    /\ UNCHANGED <<sequence, stockVars, users, resultVars, streamVars, owner, closeTasks,
                   mysqlVars, phase>>

\* Mutant: the UPDATE does not look at sold_count.
Store_Bug(r) ==
    /\ OrdersOfUser(r) = {}
    /\ enabled
    /\ sold' = sold + 1
    /\ orders' = orders \cup {r}
    /\ UNCHANGED enabled

\* INSERT passes both unique keys and the stock barrier lets one more through:
\* seckill_order, sold_count and the order are committed together.
Store(r) ==
    /\ OrdersOfUser(r) = {}
    /\ enabled /\ sold < Stock
    /\ sold' = sold + 1
    /\ orders' = orders \cup {r}
    /\ UNCHANGED enabled

\* Mutant: only an order that existed is scheduled to be closed.
CommitOrder_Bug(w) ==
    /\ pc[w] = "insert"
    /\ \E r \in batch[w] :
        /\ Handles(w, r)
        /\ Store(r)
        /\ order' = [order EXCEPT ![w] = r]
    /\ Goto(w, "complete")
    /\ UNCHANGED <<sequence, stockVars, users, resultVars, streamVars, owner, closeTasks,
                   batch, remaining, snapshot, restore, soldOut, envVars>>

\* An order this call has created is to be scheduled.
CommitOrder(w) ==
    /\ pc[w] = "insert"
    /\ \E r \in batch[w] :
        /\ Handles(w, r)
        /\ Store(r)
        /\ order' = [order EXCEPT ![w] = r]
    /\ Goto(w, "schedule")
    /\ UNCHANGED <<sequence, stockVars, users, resultVars, streamVars, owner, closeTasks,
                   batch, remaining, snapshot, restore, soldOut, envVars>>

\* The commit is applied and its answer is lost.
CommitUnknown(w) ==
    /\ pc[w] = "insert"
    /\ \E r \in batch[w] : Handles(w, r) /\ Store(r)
    /\ Fault("commit") /\ Fails(w)
    /\ UNCHANGED <<sequence, stockVars, users, resultVars, streamVars, owner, closeTasks, phase>>

\* No row updated by the stock barrier: roll back with ErrSeckillSoldOut.
BarrierRefuses(w) ==
    /\ pc[w] = "insert"
    /\ \E r \in batch[w] : Handles(w, r) /\ OrdersOfUser(r) = {}
    /\ ~enabled \/ sold >= Stock
    /\ soldOut' = [soldOut EXCEPT ![w] = TRUE]
    /\ Goto(w, "fail")
    /\ UNCHANGED <<sequence, stockVars, users, resultVars, streamVars, owner, closeTasks,
                   mysqlVars, batch, remaining, snapshot, order, restore, envVars>>

\* Duplicate key. Only ErrDuplicatedKey leads to the second SELECT, and that one
\* still reads the snapshot: an order committed since is not found.
DuplicateKey(w) ==
    /\ pc[w] = "insert"
    /\ \E r \in batch[w] : Handles(w, r) /\ OrdersOfUser(r) # {}
    /\ \/ /\ TranslateError
          /\ \E q \in snapshot[w] : order' = [order EXCEPT ![w] = q]
          /\ restore' = [restore EXCEPT ![w] = TRUE]
          /\ Goto(w, "complete")
          /\ UNCHANGED <<batch, remaining, snapshot, soldOut>>
       \/ /\ ~TranslateError \/ snapshot[w] = {}
          /\ Fails(w)
    /\ UNCHANGED <<sequence, stockVars, users, resultVars, streamVars, owner, closeTasks,
                   mysqlVars, envVars>>

\* Mutant: the transaction's error is lost on the way out.
InsertFails_Bug(w) ==
    /\ pc[w] = "insert"
    /\ Fault("db")
    /\ \E r \in batch[w] : Handles(w, r) /\ order' = [order EXCEPT ![w] = r]
    /\ Goto(w, "complete")
    /\ UNCHANGED <<sequence, stockVars, users, resultVars, streamVars, owner, closeTasks,
                   mysqlVars, batch, remaining, snapshot, restore, soldOut, phase>>

\* Any statement of the transaction fails: roll back.
InsertFails(w) ==
    /\ pc[w] = "insert"
    /\ Fault("db") /\ Fails(w)
    /\ UNCHANGED <<sequence, stockVars, users, resultVars, streamVars, owner, closeTasks,
                   mysqlVars, phase>>

\* scheduleClose, for an order this call created; a failed enqueue is only logged.
ScheduleClose(w) ==
    /\ pc[w] = "schedule"
    /\ Goto(w, "complete")
    /\ \/ closeTasks' = closeTasks \cup {order[w]} /\ UNCHANGED faults
       \/ Fault("redis") /\ UNCHANGED closeTasks
    /\ UNCHANGED <<sequence, stockVars, users, resultVars, streamVars, owner,
                   mysqlVars, batch, localVars, phase>>

\* completeScript, which looks at no other status than stockRestored.
CompleteScript(w, r) ==
    /\ IF restore[w] /\ ~restored[r]
       THEN /\ stock' = stock + 1
            /\ stockSet' = TRUE
            /\ restored' = [restored EXCEPT ![r] = TRUE]
       ELSE UNCHANGED <<stock, stockSet, restored>>
    /\ status' = [status EXCEPT ![r] = "success"]
    /\ orderSn' = [orderSn EXCEPT ![r] = order[w]]
    /\ UNCHANGED <<warmed, base, attempts>>

Complete(w) ==
    /\ pc[w] = "complete"
    /\ \E r \in batch[w] : Handles(w, r) /\ CompleteScript(w, r)
    /\ Goto(w, "ack")
    /\ UNCHANGED <<sequence, users, streamVars, owner, closeTasks,
                   mysqlVars, batch, localVars, envVars>>

\* The call fails, with or without having run the script.
CompleteFails(w) ==
    /\ pc[w] = "complete"
    /\ Fault("redis") /\ Fails(w)
    /\ \/ \E r \in batch[w] : Handles(w, r) /\ CompleteScript(w, r)
       \/ UNCHANGED <<stockVars, resultVars>>
    /\ UNCHANGED <<sequence, users, streamVars, owner, closeTasks, mysqlVars, phase>>

-----------------------------------------------------------------------------
(* The error path of processSeckillMessages. *)

\* Mutant: a reservation is given up without compensation.
GiveUpOrLeave_Ack_Bug(w, r, n) ==
    IF soldOut[w] \/ n >= MaxAttempts
    THEN Goto(w, "ack") /\ UNCHANGED <<batch, localVars>>
    ELSE Finish(w, r)

\* Mutant: a reservation is given up one attempt early.
GiveUpOrLeave_Early_Bug(w, r, n) ==
    IF soldOut[w] \/ n + 1 >= MaxAttempts
    THEN Goto(w, "compensate") /\ UNCHANGED <<batch, localVars>>
    ELSE Finish(w, r)

\* What the worker does when IncrementAttempts returned n: give the reservation
\* up, or leave the message unacknowledged for a later claim.
GiveUpOrLeave(w, r, n) ==
    IF soldOut[w] \/ n >= MaxAttempts
    THEN Goto(w, "compensate") /\ UNCHANGED <<batch, localVars>>
    ELSE Finish(w, r)

Fail(w) ==
    /\ pc[w] = "fail"
    /\ \E r \in batch[w] :
        /\ Handles(w, r)
        /\ attempts' = [attempts EXCEPT ![r] = @ + 1]
        /\ GiveUpOrLeave(w, r, attempts[r] + 1)
    /\ UNCHANGED <<sequence, stockVars, users, status, restored, orderSn, streamVars, owner,
                   closeTasks, mysqlVars, envVars>>

\* HINCRBY fails, counted or not: IncrementAttempts returns 1.
CountFails(w) ==
    /\ pc[w] = "fail"
    /\ Fault("redis")
    /\ \E r \in batch[w] :
        /\ Handles(w, r)
        /\ \E n \in {0, 1} : attempts' = [attempts EXCEPT ![r] = @ + n]
        /\ GiveUpOrLeave(w, r, 1)
    /\ UNCHANGED <<sequence, stockVars, users, status, restored, orderSn, streamVars, owner,
                   closeTasks, mysqlVars, phase>>

\* Mutant: compensation does not look at the status.
Compensable_Status_Bug(r) == TRUE

\* Mutant: a failed reservation can be compensated again.
Compensable_Failed_Bug(r) == status[r] # "success"

\* compensateScript acts on a reservation that is still pending, and on no other.
Compensable(r) == status[r] = "pending"

\* It gives the unit and the user's place back.
Compensate(w) ==
    /\ pc[w] = "compensate"
    /\ Goto(w, "ack")
    /\ \E r \in batch[w] :
        /\ Handles(w, r)
        /\ IF Compensable(r)
           THEN /\ stock' = stock + 1
                /\ stockSet' = TRUE
                /\ users' = [users EXCEPT ![owner[r]] = NoSN]
                /\ status' = [status EXCEPT ![r] = "failed"]
           ELSE UNCHANGED <<stock, stockSet, users, status>>
    /\ UNCHANGED <<sequence, warmed, base, attempts, restored, orderSn, streamVars, owner,
                   closeTasks, mysqlVars, batch, localVars, envVars>>

\* The script does not run; the worker drops the error and acknowledges.
CompensateFails(w) ==
    /\ pc[w] = "compensate"
    /\ Fault("redis")
    /\ Goto(w, "ack")
    /\ UNCHANGED <<sequence, stockVars, users, resultVars, streamVars, owner, closeTasks,
                   mysqlVars, batch, localVars, phase>>

\* XACK, whose error is dropped too.
Ack(w) ==
    /\ pc[w] = "ack"
    /\ \E r \in batch[w] :
        /\ Handles(w, r)
        /\ Finish(w, r)
        /\ \/ pel' = pel \ {r} /\ UNCHANGED faults
           \/ Fault("redis") /\ UNCHANGED pel
    /\ UNCHANGED <<sequence, stockVars, users, resultVars, group, stream, owner, closeTasks,
                   mysqlVars, phase>>

-----------------------------------------------------------------------------
(* The environment. *)

\* A process stops at any point; an open transaction rolls back.
Crash(p) ==
    /\ pc[p] # "off"
    /\ Fault("crash")
    /\ Goto(p, "off")
    /\ remaining' = [remaining EXCEPT ![p] = 0]
    /\ batch' = [w \in Workers |-> IF w = p THEN {} ELSE batch[w]]
    /\ snapshot' = [w \in Workers |-> IF w = p THEN {} ELSE snapshot[w]]
    /\ order' = [w \in Workers |-> IF w = p THEN NoSN ELSE order[w]]
    /\ restore' = [w \in Workers |-> IF w = p THEN FALSE ELSE restore[w]]
    /\ soldOut' = [w \in Workers |-> IF w = p THEN FALSE ELSE soldOut[w]]
    /\ UNCHANGED <<sequence, stockVars, users, resultVars, streamVars, owner, closeTasks,
                   mysqlVars, phase>>

\* Redis loses its data: every key, the stream, its group and the asynq queues.
\* The counter restarts too, but the time in a reservation number keeps it new.
LoseRedis ==
    /\ Fault("loss")
    /\ warmed' = FALSE /\ stockSet' = FALSE /\ stock' = 0 /\ base' = 0
    /\ users' = [u \in Users |-> NoSN]
    /\ status' = [r \in SN |-> "none"]
    /\ attempts' = [r \in SN |-> 0]
    /\ restored' = [r \in SN |-> FALSE]
    /\ orderSn' = [r \in SN |-> NoSN]
    /\ group' = FALSE /\ stream' = {} /\ pel' = {}
    /\ closeTasks' = {}
    /\ UNCHANGED <<sequence, owner, mysqlVars, pc, batch, localVars, phase>>

\* The activity starts, and ends.
Tick ==
    /\ \/ phase = "before" /\ phase' = "open"
       \/ phase = "open" /\ phase' = "ended"
    /\ UNCHANGED <<sequence, stockVars, users, resultVars, streamVars, owner, closeTasks,
                   mysqlVars, pc, batch, localVars, faults>>

\* An operator disables the activity in MySQL; nothing tells Redis.
Disable ==
    /\ enabled /\ enabled' = FALSE
    /\ UNCHANGED <<sequence, stockVars, users, resultVars, streamVars, owner, closeTasks,
                   sold, orders, pc, batch, localVars, envVars>>

-----------------------------------------------------------------------------
Boot(p) == Start(p) \/ Warmup(p)

Handle(w) == \/ Begin(w) \/ CommitOrder(w) \/ BarrierRefuses(w) \/ DuplicateKey(w)
             \/ ScheduleClose(w) \/ Complete(w) \/ Fail(w) \/ Compensate(w) \/ Ack(w)

Failure(w) == \/ BeginFails(w) \/ CommitUnknown(w) \/ InsertFails(w) \/ CompleteFails(w)
              \/ CountFails(w) \/ CompensateFails(w)

Next ==
    \/ \E u \in Users : Admit(u) \/ Refuse(u)
    \/ \E p \in Processes : Boot(p) \/ Crash(p)
    \/ \E w \in Workers : Join(w) \/ Deliver(w) \/ Claim(w) \/ Poll(w) \/ Handle(w) \/ Failure(w)
    \/ LoseRedis \/ Tick \/ Disable

Spec == Init /\ [][Next]_vars

\* Processes are restarted, and a running one goes on: each step is the next
\* statement of its only goroutine for the stream. The loop reads again and again,
\* and XAUTOCLAIM starts from the oldest entry every 15 seconds, so a message that
\* can be claimed again and again is claimed.
Fairness ==
    /\ \A p \in Processes : WF_vars(Boot(p))
    /\ \A w \in Workers : WF_vars(Join(w)) /\ WF_vars(Handle(w)) /\ WF_vars(Deliver(w))
    /\ \A r \in SN : SF_vars(\E w \in Workers : Claim(w) /\ r \in batch'[w])

FairSpec == Spec /\ Fairness
-----------------------------------------------------------------------------
(* Properties. *)

Labels == {"off", "warmup", "serving", "join", "idle", "insert", "schedule", "complete",
           "fail", "compensate", "ack"}

Flags == /\ warmed \in BOOLEAN /\ stockSet \in BOOLEAN /\ group \in BOOLEAN
         /\ enabled \in BOOLEAN

Keys == /\ sequence \in 0..MaxSN /\ stock \in Nat /\ base \in Nat
        /\ users \in [Users -> SN \cup {NoSN}]
        /\ status \in [SN -> {"none", "pending", "success", "failed"}]
        /\ attempts \in [SN -> Nat]
        /\ restored \in [SN -> BOOLEAN]
        /\ orderSn \in [SN -> SN \cup {NoSN}]
        /\ stream \subseteq SN /\ pel \subseteq SN
        /\ owner \in [SN -> Users \cup {NoUser}]
        /\ closeTasks \subseteq SN \cup {NoSN}

Rows == sold \in Nat /\ orders \subseteq SN

Locals == /\ pc \in [Processes -> Labels]
          /\ remaining \in [Processes -> Nat]
          /\ batch \in [Workers -> SUBSET SN]
          /\ snapshot \in [Workers -> SUBSET SN]
          /\ order \in [Workers -> SN \cup {NoSN}]
          /\ restore \in [Workers -> BOOLEAN]
          /\ soldOut \in [Workers -> BOOLEAN]

Surroundings == phase \in {"before", "open", "ended"} /\ faults \in Nat

\* Every variable has its type: keys hold what the scripts write, and the Redis
\* stock is never negative.
TypeOK == Flags /\ Keys /\ Rows /\ Locals /\ Surroundings

\* The flash sale never sells more than its stock, and sold_count is the number of
\* orders: however far the Redis stock has drifted, the conditional UPDATE and the
\* INSERT commit together (repository.go, CreateSeckillOrder).
NoOversell == sold = Cardinality(orders) /\ sold <= Stock

\* A user has at most one order of the activity, however often a message is
\* handled and whatever Redis forgot (uk_activity_user, uk_reservation_sn).
OneOrderPerUser == \A q, r \in orders : owner[q] = owner[r] => q = r

\* A pending reservation still holds its user's place, so compensation frees the
\* place of the reservation it gives up and never that of a later one: HDEL in
\* compensateScript does not look at the value it deletes.
PendingHoldsPlace == \A r \in SN : status[r] = "pending" => users[owner[r]] = r

Places == {u \in Users : users[u] # NoSN}
Restored == {r \in SN : restored[r]}

\* Every unit that left the Redis stock is some user's place, or was given back
\* once for a duplicate: no order of retries, claims and restarts returns a unit
\* twice (compensateScript, completeScript) or resets the stock (Warmup's SETNX).
StockAccounting == stock + Cardinality(Places) = base + Cardinality(Restored)

Pending == {r \in SN : status[r] = "pending"}

\* Redis and MySQL agree on the stock: every unit is in the Redis stock, sold in MySQL,
\* or held by a reservation still in flight, so once nothing is pending the Redis stock
\* and sold_count add up to the activity's stock (reserveScript, CreateSeckillOrder,
\* compensateScript). Holds while Redis keeps its data and the workers and the faults
\* together are no more than MaxAttempts.
StockAgrees == stockSet => stock + Cardinality(orders \cup Pending) = Stock

\* The order a successful result names is committed, and is the order of the user
\* that asked: Result never sends a user to an order that was rolled back.
SuccessHasOrder ==
    \A r \in SN : status[r] = "success" =>
        orderSn[r] \in orders /\ owner[orderSn[r]] = owner[r]

\* A pending reservation has a message that some worker will still be given: it is
\* acknowledged only after its result is written. Holds while Redis answers.
PendingIsDelivered == \A r \in SN : status[r] = "pending" => r \in stream \cup pel

\* Every accepted reservation ends as success or failed.
Settles == \A r \in SN : (status[r] = "pending") ~> (status[r] # "pending")

\* A reservation is never reported failed to a user who has an order: a retry finds the
\* order its reservation has, and a reservation made after Redis forgot the user's place
\* returns the order there is (CreateSeckillOrder). Holds while Redis keeps its data and
\* the workers and the faults together are no more than MaxAttempts. After a loss it
\* needs TranslateError, which OpenDB leaves off.
NoBuyerFails ==
    [][\A r \in SN : status[r] = "pending" /\ status'[r] = "failed"
                     => OrdersOfUser(r) = {}]_vars

Unscheduled ==
    {r \in orders : /\ r \notin closeTasks
                    /\ \A w \in Workers : pc[w] = "schedule" => order[w] # r}

\* An order has its close task, or the worker that made it is about to schedule one: an
\* order is left without only for a fault of its own, although every retry finds the
\* order existing and schedules nothing (CreateSeckill). Holds while Redis keeps its data.
ClosesScheduled == Cardinality(Unscheduled) <= faults

\* The flash sale does what SeckillSale promises, with a reservation's owner, its
\* result and the committed orders for the state of the promise.
Sale == INSTANCE SeckillSale WITH Reservations <- SN, user <- owner,
                                  outcome <- status, sales <- orders
ImplementsSale == Sale!SaleSpec
=============================================================================
