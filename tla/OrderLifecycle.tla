--------------------------- MODULE OrderLifecycle ---------------------------
(***************************************************************************)
(* The life of homestay orders: creation with its close task, and the      *)
(* goroutines that move an order along its state machine with UpdateState, *)
(* which reads the order, decides, and writes under an optimistic lock.    *)
(* Three kinds of goroutine call it: api requests that cancel, asynq       *)
(* handlers of close tasks, and consumers of payment events.               *)
(***************************************************************************)
EXTENDS Naturals, FiniteSets

CONSTANTS
    Orders,        \* order numbers
    NoOrder,       \* none of them
    Requests,      \* goroutines of api requests
    TaskHandlers,  \* goroutines of asynq that run close tasks
    Consumers,     \* goroutines that consume payment events, one for each worker
    Faults,        \* the kinds of fault that may happen
    MaxFaults      \* bound: how many faults happen

OrderFaultKinds == {"db", "commit", "queue", "crash"}

ASSUME OrdersAssumption == NoOrder \notin Orders
ASSUME CallersAssumption == /\ Requests \cap TaskHandlers = {}
                            /\ (Requests \cup TaskHandlers) \cap Consumers = {}
ASSUME FaultsAssumption == MaxFaults \in Nat

Callers == Requests \cup TaskHandlers \cup Consumers

TradeStates == {"waitPay", "cancel", "waitUse", "used", "refund", "expire"}
EventTargets == {"waitUse", "refund"}   \* the states consumePayments asks for
NoTarget == "none"

VARIABLES
    tradeState,  \* homestay_order.trade_state, "none" before the order exists
    version,     \* homestay_order.version
    closeTask,   \* the order's close task
    notices,     \* payment notifications enqueued for the order
    step,        \* where a caller is in UpdateState
    subject,     \* the order it is called with
    target,      \* the state it is called with
    seen,        \* the version it has read
    faults       \* faults that have happened

rowVars  == <<tradeState, version>>
taskVars == <<closeTask, notices>>
callVars == <<step, subject, target, seen>>
orderVars == <<rowVars, taskVars, callVars>>
vars == <<orderVars, faults>>

-----------------------------------------------------------------------------
(* Helpers. An operator whose name ends in _Bug is a mutated form of the one     *)
(* after it, with a plausible mistake: a property must fail when it takes over.   *)

Fault(kind) == kind \in Faults /\ faults < MaxFaults /\ faults' = faults + 1

\* verifyState.
Allowed(old, new) ==
    \/ new \in {"cancel", "waitUse"} /\ old = "waitPay"
    \/ new \in {"used", "refund", "expire"} /\ old = "waitUse"

Goto(c, label) == step' = [step EXCEPT ![c] = label]

\* Caller c calls UpdateState(o, new).
BeginCall(c, o, new) ==
    /\ step[c] = "idle"
    /\ Goto(c, "read")
    /\ subject' = [subject EXCEPT ![c] = o]
    /\ target' = [target EXCEPT ![c] = new]
    /\ UNCHANGED seen

\* The call of c is over and its locals go out of scope.
EndCall(c) ==
    /\ Goto(c, "idle")
    /\ subject' = [subject EXCEPT ![c] = NoOrder]
    /\ target' = [target EXCEPT ![c] = NoTarget]
    /\ seen' = [seen EXCEPT ![c] = 0]

Init ==
    /\ tradeState = [o \in Orders |-> "none"]
    /\ version = [o \in Orders |-> 0]
    /\ closeTask = [o \in Orders |-> "none"]
    /\ notices = [o \in Orders |-> 0]
    /\ step = [c \in Callers |-> "idle"]
    /\ subject = [c \in Callers |-> NoOrder]
    /\ target = [c \in Callers |-> NoTarget]
    /\ seen = [c \in Callers |-> 0]
    /\ faults = 0

-----------------------------------------------------------------------------
(* Create: the INSERT, then scheduleClose. *)

\* Mutant: Create goes on after an INSERT that failed.
Create_Bug(o) ==
    /\ tradeState[o] = "none" /\ closeTask[o] = "none"
    /\ closeTask' = [closeTask EXCEPT ![o] = "due"]
    /\ \/ tradeState' = [tradeState EXCEPT ![o] = "waitPay"] /\ UNCHANGED faults
       \/ Fault("db") /\ UNCHANGED tradeState
    /\ UNCHANGED <<version, notices, callVars>>

Create(o) ==
    /\ tradeState[o] = "none"
    /\ tradeState' = [tradeState EXCEPT ![o] = "waitPay"]
    /\ closeTask' = [closeTask EXCEPT ![o] = "due"]
    /\ UNCHANGED <<version, notices, callVars, faults>>

\* The INSERT is applied and its answer is lost: Create returns an error and
\* schedules nothing.
CreateUnknown(o) ==
    /\ tradeState[o] = "none"
    /\ Fault("commit")
    /\ tradeState' = [tradeState EXCEPT ![o] = "waitPay"]
    /\ closeTask' = [closeTask EXCEPT ![o] = "lost"]
    /\ UNCHANGED <<version, notices, callVars>>

ScheduleClose(o) ==
    /\ closeTask[o] = "due"
    /\ closeTask' = [closeTask EXCEPT ![o] = "queued"]
    /\ UNCHANGED <<rowVars, notices, callVars, faults>>

\* The enqueue fails and is only logged, or the process stops before it.
ScheduleFails(o) ==
    /\ closeTask[o] = "due"
    /\ Fault("queue") \/ Fault("crash")
    /\ closeTask' = [closeTask EXCEPT ![o] = "lost"]
    /\ UNCHANGED <<rowVars, notices, callVars>>

-----------------------------------------------------------------------------
(* The callers of UpdateState. *)

\* OrderCancel, asked for by the order's user.
Cancel(q, o) ==
    /\ tradeState[o] # "none"
    /\ BeginCall(q, o, "cancel")
    /\ UNCHANGED <<rowVars, taskVars, faults>>

\* Mutant: the handler cancels only what it finds cancelled or in use.
CloseOrder_Bug(h, o) ==
    /\ closeTask[o] = "queued" /\ step[h] = "idle"
    /\ closeTask' = [closeTask EXCEPT ![o] = "done"]
    /\ UNCHANGED <<callVars, rowVars, notices, faults>>

\* closeOrder, run by asynq at least once: only an order that still waits for
\* its payment is cancelled.
CloseOrder(h, o) ==
    /\ closeTask[o] = "queued" /\ step[h] = "idle"
    /\ \/ /\ tradeState[o] = "waitPay"
          /\ BeginCall(h, o, "cancel")
          /\ UNCHANGED closeTask
       \/ /\ tradeState[o] # "waitPay"
          /\ closeTask' = [closeTask EXCEPT ![o] = "done"]
          /\ UNCHANGED callVars
    /\ UNCHANGED <<rowVars, notices, faults>>

\* closeOrder cannot read the order: asynq retries.
CloseReadFails(h, o) ==
    /\ closeTask[o] = "queued" /\ step[h] = "idle"
    /\ Fault("db")
    /\ UNCHANGED orderVars

\* consumePayments acts on an event.
Consume(k, o, new) ==
    /\ tradeState[o] # "none"
    /\ BeginCall(k, o, new)
    /\ UNCHANGED <<rowVars, taskVars, faults>>

-----------------------------------------------------------------------------
(* UpdateState. *)

\* Mutant: an order that is in the wanted state already is notified of again.
Read_Bug(c) ==
    /\ step[c] = "read"
    /\ LET old == tradeState[subject[c]] IN
       \/ old = target[c] /\ Goto(c, IF old = "waitUse" THEN "notify" ELSE "ok") /\ UNCHANGED seen
       \/ /\ old # target[c] /\ Allowed(old, target[c])
          /\ Goto(c, "write")
          /\ seen' = [seen EXCEPT ![c] = version[subject[c]]]
       \/ old # target[c] /\ ~Allowed(old, target[c]) /\ Goto(c, "failed") /\ UNCHANGED seen
    /\ UNCHANGED <<rowVars, taskVars, subject, target, faults>>

\* Detail, and what follows from it.
Read(c) ==
    /\ step[c] = "read"
    /\ LET old == tradeState[subject[c]] IN
       \/ old = target[c] /\ Goto(c, "ok") /\ UNCHANGED seen
       \/ /\ old # target[c] /\ Allowed(old, target[c])
          /\ Goto(c, "write")
          /\ seen' = [seen EXCEPT ![c] = version[subject[c]]]
       \/ old # target[c] /\ ~Allowed(old, target[c]) /\ Goto(c, "failed") /\ UNCHANGED seen
    /\ UNCHANGED <<rowVars, taskVars, subject, target, faults>>

\* Mutant: the UPDATE does not compare the version.
Move_Bug(c) ==
    /\ tradeState' = [tradeState EXCEPT ![subject[c]] = target[c]]
    /\ version' = [version EXCEPT ![subject[c]] = @ + 1]

\* UpdateOrderState finds the version it was given.
Move(c) ==
    /\ version[subject[c]] = seen[c]
    /\ tradeState' = [tradeState EXCEPT ![subject[c]] = target[c]]
    /\ version' = [version EXCEPT ![subject[c]] = @ + 1]

Write(c) ==
    /\ step[c] = "write"
    /\ Move(c)
    /\ Goto(c, IF target[c] = "waitUse" THEN "notify" ELSE "ok")
    /\ UNCHANGED <<taskVars, subject, target, seen, faults>>

\* Another caller was faster.
Conflict(c) ==
    /\ step[c] = "write"
    /\ version[subject[c]] # seen[c]
    /\ Goto(c, "failed")
    /\ UNCHANGED <<rowVars, taskVars, subject, target, seen, faults>>

\* The UPDATE is applied and its answer is lost.
WriteUnknown(c) ==
    /\ step[c] = "write"
    /\ Move(c)
    /\ Fault("commit")
    /\ Goto(c, "failed")
    /\ UNCHANGED <<taskVars, subject, target, seen>>

\* A statement of UpdateState fails.
CallFails(c) ==
    /\ step[c] \in {"read", "write"}
    /\ Fault("db")
    /\ Goto(c, "failed")
    /\ UNCHANGED <<rowVars, taskVars, subject, target, seen>>

\* The notification task; a failed enqueue is dropped.
Notify(c) ==
    /\ step[c] = "notify"
    /\ Goto(c, "ok")
    /\ \/ notices' = [notices EXCEPT ![subject[c]] = @ + 1] /\ UNCHANGED faults
       \/ Fault("queue") /\ UNCHANGED notices
    /\ UNCHANGED <<rowVars, closeTask, subject, target, seen>>

\* Mutant: the handler of a close task drops the error of UpdateState.
Return_Bug(c) ==
    /\ step[c] \in {"ok", "failed"}
    /\ EndCall(c)
    /\ IF c \in TaskHandlers
       THEN closeTask' = [closeTask EXCEPT ![subject[c]] = "done"]
       ELSE UNCHANGED closeTask
    /\ UNCHANGED <<rowVars, notices, faults>>

\* UpdateState returns. An asynq task that succeeded is done; one that failed
\* stays for a retry.
Return(c) ==
    /\ step[c] \in {"ok", "failed"}
    /\ EndCall(c)
    /\ IF c \in TaskHandlers /\ step[c] = "ok"
       THEN closeTask' = [closeTask EXCEPT ![subject[c]] = "done"]
       ELSE UNCHANGED closeTask
    /\ UNCHANGED <<rowVars, notices, faults>>

\* The goroutine's process stops. Goroutines share no memory, so a process that
\* stops is each of its goroutines stopping.
Crash(c) ==
    /\ step[c] # "idle"
    /\ Fault("crash")
    /\ EndCall(c)
    /\ UNCHANGED <<rowVars, taskVars>>

-----------------------------------------------------------------------------
Update(c) == Read(c) \/ Write(c) \/ Conflict(c) \/ Notify(c)

Failure(c) == WriteUnknown(c) \/ CallFails(c) \/ Crash(c)

Next ==
    \/ \E o \in Orders :
        \/ Create(o) \/ CreateUnknown(o) \/ ScheduleClose(o) \/ ScheduleFails(o)
        \/ \E q \in Requests : Cancel(q, o)
        \/ \E h \in TaskHandlers : CloseOrder(h, o) \/ CloseReadFails(h, o)
        \/ \E k \in Consumers, new \in EventTargets : Consume(k, o, new)
    \/ \E c \in Callers : Update(c) \/ Return(c) \/ Failure(c)

Spec == Init /\ [][Next]_vars

\* A goroutine goes on, and asynq runs a task again until it succeeds: its 25
\* retries are more than the faults that happen.
Fairness ==
    /\ \A o \in Orders : /\ WF_vars(ScheduleClose(o))
                         /\ SF_vars(\E h \in TaskHandlers : CloseOrder(h, o))
    /\ \A c \in Callers : WF_vars(Update(c)) /\ WF_vars(Return(c))

FairSpec == Spec /\ Fairness

-----------------------------------------------------------------------------
(* Properties. *)

\* The types; an order and its close task come into being together (Create).
TypeOK ==
    /\ tradeState \in [Orders -> TradeStates \cup {"none"}]
    /\ version \in [Orders -> Nat]
    /\ closeTask \in [Orders -> {"none", "due", "queued", "lost", "done"}]
    /\ \A o \in Orders : tradeState[o] = "none" <=> closeTask[o] = "none"
    /\ notices \in [Orders -> Nat]
    /\ step \in [Callers -> {"idle", "read", "write", "notify", "ok", "failed"}]
    /\ subject \in [Callers -> Orders \cup {NoOrder}]
    /\ target \in [Callers -> {"cancel", NoTarget} \cup EventTargets]
    /\ seen \in [Callers -> Nat]
    /\ faults \in Nat

\* However old the state is that a caller decided on, an order moves only along
\* the state machine: no cancellation overwrites a payment and no payment
\* overwrites a cancellation (UpdateState, UpdateOrderState).
FollowsStateMachine ==
    [][\A o \in Orders : tradeState[o] # "none" /\ tradeState'[o] # tradeState[o]
                         => Allowed(tradeState[o], tradeState'[o])]_vars

\* The user is told of a payment once at most, and only when the order became
\* usable, whatever the number of events and consumers.
NotifiedOnce ==
    \A o \in Orders : /\ notices[o] <= 1
                      /\ notices[o] = 1 => tradeState[o] \notin {"none", "waitPay", "cancel"}

Forgotten == {o \in Orders : closeTask[o] = "lost"}

\* An order that waits for its payment has a close task ahead of it: asynq drops a task
\* only when its order is decided, whoever else was moving it (closeOrder), and an order
\* comes without one only for a fault of its own, a lost answer, a failed enqueue or a
\* process that stopped (Create, scheduleClose).
UnpaidIsWatched ==
    /\ \A o \in Orders : tradeState[o] = "waitPay" => closeTask[o] # "done"
    /\ Cardinality(Forgotten) <= faults

\* An order whose close task is queued does not wait for its payment for ever.
UnpaidIsClosed ==
    \A o \in Orders : (tradeState[o] = "waitPay" /\ closeTask[o] = "queued")
                        ~> (tradeState[o] # "waitPay")
=============================================================================
