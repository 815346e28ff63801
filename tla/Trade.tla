-------------------------------- MODULE Trade --------------------------------
(***************************************************************************)
(* Orders, payments and the consumers of the payment topic together: an    *)
(* order is paid while users and the close task may cancel it, and its     *)
(* event moves it to waitUse once a consumer of the group reads it.        *)
(***************************************************************************)
EXTENDS Naturals, Sequences

CONSTANTS
    Orders, NoOrder, Requests, TaskHandlers,  \* of OrderLifecycle
    Payers, Notifiers, Publishers,            \* of PaymentOutbox
    PayTimeNullable,
    Consumers,  \* goroutines that run consumePayments, one for each worker
    Faults,     \* the kinds of fault that may happen
    MaxFaults   \* bound: how many faults happen

ASSUME NamesAssumption == /\ NoOrder \notin Orders
                          /\ Requests \cap TaskHandlers = {}
                          /\ (Requests \cup TaskHandlers) \cap Consumers = {}
ASSUME ValuesAssumption == PayTimeNullable \in BOOLEAN /\ MaxFaults \in Nat

VARIABLES tradeState, version, closeTask, notices, step, subject, target, seen
VARIABLES flow, flowVersion, outbox, published, late, topic, offered, charged, answered,
          paying, prepay, settling, flowSeen, batch, marking
VARIABLES
    owner,      \* the consumer that has the topic's partition
    position,   \* how far it has read
    committed,  \* the committed offset of the group
    handling,   \* the offset a consumer has in hand, 0 for none
    faults      \* faults that have happened, of all kinds

Ord == INSTANCE OrderLifecycle
Pay == INSTANCE PaymentOutbox

orderVars == <<tradeState, version, closeTask, notices, step, subject, target, seen>>
paymentVars == <<flow, flowVersion, outbox, published, late, topic, offered, charged, answered,
                 paying, prepay, settling, flowSeen, batch, marking>>
kafkaVars == <<owner, position, committed, handling>>
vars == <<orderVars, paymentVars, kafkaVars, faults>>

Init ==
    /\ Ord!Init /\ Pay!Init
    /\ owner \in Consumers
    /\ position = 0 /\ committed = 0
    /\ handling = [k \in Consumers |-> 0]

-----------------------------------------------------------------------------
(* Steps of one component. *)

\* An order is created, cancelled or closed, or a call of UpdateState goes on.
OrderStep ==
    /\ \/ \E o \in Orders :
            \/ Ord!Create(o) \/ Ord!CreateUnknown(o) \/ Ord!ScheduleClose(o) \/ Ord!ScheduleFails(o)
            \/ \E q \in Requests : Ord!Cancel(q, o)
            \/ \E h \in TaskHandlers : Ord!CloseOrder(h, o) \/ Ord!CloseReadFails(h, o)
       \/ \E c \in Ord!Callers : Ord!Update(c) \/ Ord!WriteUnknown(c) \/ Ord!CallFails(c)
       \/ \E c \in Requests \cup TaskHandlers : Ord!Return(c) \/ Ord!Crash(c)
    /\ UNCHANGED <<paymentVars, kafkaVars>>

\* WeChat, Prepay, HandleNotify and publishOutbox go on.
PaymentStep == Pay!PaymentNext /\ UNCHANGED <<orderVars, kafkaVars>>

\* Prepay reads the order and finds it payable.
StartPrepay(q, o) ==
    /\ tradeState[o] = "waitPay"
    /\ Pay!StartPrepay(q, o)
    /\ UNCHANGED <<orderVars, kafkaVars>>

-----------------------------------------------------------------------------
(* consumePayments. The events of an order have its number as key, so they are in  *)
(* one partition; the model has one partition for all.                             *)

\* Mutant: the offset is committed as soon as the event is read.
Fetch_Bug(k) ==
    /\ k = owner /\ position < Len(topic)
    /\ Ord!Consume(k, topic[position + 1], "waitUse")
    /\ position' = position + 1 /\ committed' = position + 1
    /\ handling' = [handling EXCEPT ![k] = position + 1]
    /\ UNCHANGED <<paymentVars, owner>>

\* FetchMessage returns an event of a successful payment: HandleNotify stores no
\* other.
Fetch(k) ==
    /\ k = owner /\ position < Len(topic)
    /\ Ord!Consume(k, topic[position + 1], "waitUse")
    /\ position' = position + 1
    /\ handling' = [handling EXCEPT ![k] = position + 1]
    /\ UNCHANGED <<paymentVars, owner, committed>>

Finish(k) == handling' = [handling EXCEPT ![k] = 0] /\ UNCHANGED <<owner, position>>

\* CommitMessages after an update that succeeded. A consumer that has lost the
\* partition meanwhile commits, or is refused.
Commit(k) ==
    /\ step[k] = "ok"
    /\ Ord!Return(k)
    /\ \/ committed' = handling[k]
       \/ k # owner /\ UNCHANGED committed
    /\ Finish(k)
    /\ UNCHANGED paymentVars

CommitFails(k) ==
    /\ step[k] = "ok"
    /\ Ord!Fault("kafka")
    /\ Ord!EndCall(k)
    /\ Finish(k)
    /\ UNCHANGED <<tradeState, version, closeTask, notices, committed, paymentVars>>

\* The update failed: the loop goes on with the next event, without a commit.
Skip(k) ==
    /\ step[k] = "failed"
    /\ Ord!Return(k)
    /\ Finish(k)
    /\ UNCHANGED <<committed, paymentVars>>

\* The group gives the partition to k, which starts at the committed offset;
\* what another consumer has in hand it goes on with.
Rebalance(k) ==
    /\ Ord!Fault("rebalance")
    /\ owner' = k /\ position' = committed
    /\ UNCHANGED <<orderVars, paymentVars, committed, handling>>

\* Consumer k stops with an event in hand, and the group rebalances.
ConsumerCrash(k) ==
    /\ Ord!Crash(k)
    /\ handling' = [handling EXCEPT ![k] = 0]
    /\ IF k = owner THEN owner' \in Consumers /\ position' = committed
                    ELSE UNCHANGED <<owner, position>>
    /\ UNCHANGED <<committed, paymentVars>>

ConsumerStep ==
    \E k \in Consumers :
        \/ Fetch(k) \/ Commit(k) \/ CommitFails(k) \/ Skip(k)
        \/ Rebalance(k) \/ ConsumerCrash(k)

-----------------------------------------------------------------------------
Next ==
    \/ OrderStep
    \/ PaymentStep
    \/ \E q \in Payers, o \in Orders : StartPrepay(q, o)
    \/ ConsumerStep

Spec == Init /\ [][Next]_vars

FairSpec ==
    /\ Spec
    /\ Ord!Fairness /\ Pay!PaymentFairness
    /\ \A k \in Consumers : WF_vars(Fetch(k))

-----------------------------------------------------------------------------
(* Properties. *)

\* The types of the consumer's part; the group reads no further than the topic.
TypeOK ==
    /\ Ord!TypeOK /\ Pay!TypeOK
    /\ owner \in Consumers
    /\ position \in 0..Len(topic) /\ committed \in 0..Len(topic)
    /\ handling \in [Consumers -> 0..Len(topic)]

Promise == INSTANCE Booking WITH phase <- tradeState, paid <- charged, told <- notices

\* The orders and payments, with the interleavings and failures of all their
\* goroutines, keep the promise of Booking.
ImplementsBooking == Promise!Spec

\* Every event below the committed offset has had its effect: its order waits for
\* its payment no more (consumePayments commits after UpdateState).
EventsApplied == \A i \in 1..committed : tradeState[topic[i]] # "waitPay"

\* A payment makes its order usable.
PaidIsUsable == \A o \in Orders : (o \in charged) ~> (tradeState[o] = "waitUse")

\* An order whose payment is on record is not closed.
PaidNotClosed ==
    [][\A o \in Orders : flow[o] = "success" /\ tradeState[o] = "waitPay" => tradeState'[o] # "cancel"]_vars
=============================================================================
