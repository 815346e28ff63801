---------------------------- MODULE PaymentOutbox ----------------------------
(***************************************************************************)
(* Payments of orders and the outbox that carries them to Kafka: Prepay,   *)
(* WeChat's notifications, the transaction that settles a payment and      *)
(* stores its event, and the publishers that move events to the topic.     *)
(***************************************************************************)
EXTENDS Naturals, Sequences, Functions

CONSTANTS
    Orders,          \* order numbers: an order has one payment, uk_order_service
    NoOrder,         \* none of them
    Payers,          \* goroutines of api requests that run Prepay
    Notifiers,       \* goroutines of api requests that run HandleNotify
    Publishers,      \* goroutines that run publishOutbox, one for each worker
    PayTimeNullable, \* whether third_payment.pay_time takes NULL
    Faults,          \* the kinds of fault that may happen
    MaxFaults        \* bound: how many faults happen

PaymentFaultKinds == {"payment db", "commit", "kafka", "wechat", "crash"}

ASSUME OrdersAssumption == NoOrder \notin Orders
ASSUME SchemaAssumption == PayTimeNullable \in BOOLEAN
ASSUME FaultsAssumption == MaxFaults \in Nat

VARIABLES
    flow,         \* third_payment.pay_status of the order's row, "none" without one
    flowVersion,  \* third_payment.version
    outbox,       \* event_outbox: the orders of its events, by id
    published,    \* orders whose event has status 1
    late,         \* orders whose event waits for next_retry_at
    topic,        \* the events in Kafka, by offset
    offered,      \* orders WeChat accepts money for
    charged,      \* orders WeChat has taken the money for
    answered,     \* orders whose notification was answered without an error
    paying,       \* what a payer's Prepay is for
    prepay,       \* where it is
    settling,     \* the order of the notification a notifier has in hand
    flowSeen,     \* the version it has read
    batch,        \* the orders of the events a publisher has read and not handled
    marking,      \* the event it has written to Kafka and not marked
    faults        \* faults that have happened

dbVars      == <<flow, flowVersion, outbox>>
relayVars   == <<published, late, topic>>
wechatVars  == <<offered, charged, answered>>
payerVars   == <<paying, prepay>>
notifyVars  == <<settling, flowSeen>>
publishVars == <<batch, marking>>
paymentVars == <<dbVars, relayVars, wechatVars, payerVars, notifyVars, publishVars>>
vars == <<paymentVars, faults>>

-----------------------------------------------------------------------------
(* Helpers. An operator whose name ends in _Bug is a mutated form of the one     *)
(* after it, with a plausible mistake: a property must fail when it takes over.   *)

Fault(kind) == kind \in Faults /\ faults < MaxFaults /\ faults' = faults + 1

\* The rows PendingOutbox selects.
Due == Range(outbox) \ (published \cup late)

\* The event of order o is the first of those in hand, by id.
IsFirst(o, events) ==
    \E i \in DOMAIN outbox :
        outbox[i] = o /\ \A j \in DOMAIN outbox : outbox[j] \in events => i <= j

Init ==
    /\ flow = [o \in Orders |-> "none"]
    /\ flowVersion = [o \in Orders |-> 0]
    /\ outbox = <<>> /\ topic = <<>>
    /\ published = {} /\ late = {}
    /\ offered = {} /\ charged = {} /\ answered = {}
    /\ paying = [q \in Payers |-> NoOrder]
    /\ prepay = [q \in Payers |-> "idle"]
    /\ settling = [n \in Notifiers |-> NoOrder]
    /\ flowSeen = [n \in Notifiers |-> 0]
    /\ batch = [p \in Publishers |-> {}]
    /\ marking = [p \in Publishers |-> NoOrder]
    /\ faults = 0

-----------------------------------------------------------------------------
(* Prepay. *)

\* The order has been read and is payable.
StartPrepay(q, o) ==
    /\ prepay[q] = "idle"
    /\ prepay' = [prepay EXCEPT ![q] = "flow"]
    /\ paying' = [paying EXCEPT ![q] = o]
    /\ UNCHANGED <<dbVars, relayVars, wechatVars, notifyVars, publishVars, faults>>

EndPrepay(q) ==
    /\ prepay' = [prepay EXCEPT ![q] = "idle"]
    /\ paying' = [paying EXCEPT ![q] = NoOrder]

\* Mutant: Prepay goes on after it could not store the payment.
EnsureFlow_Bug(q) ==
    /\ prepay[q] = "flow"
    /\ flow[paying[q]] # "success"
    /\ flow' \in {flow, [flow EXCEPT ![paying[q]] = "wait"]}
    /\ prepay' = [prepay EXCEPT ![q] = "offer"]
    /\ UNCHANGED <<paying, flowVersion, outbox, relayVars, wechatVars, notifyVars, publishVars, faults>>

\* FirstOrCreatePayment inserts a row, or finds the one uk_order_service has kept
\* it from inserting. The row is new without a pay_time, which the column must take.
EnsureFlow(q) ==
    /\ prepay[q] = "flow"
    /\ LET o == paying[q] IN
       \/ /\ flow[o] = "none" /\ PayTimeNullable
          /\ flow' = [flow EXCEPT ![o] = "wait"]
          /\ prepay' = [prepay EXCEPT ![q] = "offer"] /\ UNCHANGED paying
       \/ /\ flow[o] = "wait"
          /\ prepay' = [prepay EXCEPT ![q] = "offer"] /\ UNCHANGED <<flow, paying>>
       \/ /\ flow[o] = "success" \/ (flow[o] = "none" /\ ~PayTimeNullable)
          /\ EndPrepay(q) /\ UNCHANGED flow
    /\ UNCHANGED <<flowVersion, outbox, relayVars, wechatVars, notifyVars, publishVars, faults>>

\* WeChat takes the order for payment, and refuses one that is paid.
Offer(q) ==
    /\ prepay[q] = "offer"
    /\ offered' = IF paying[q] \in charged THEN offered ELSE offered \cup {paying[q]}
    /\ EndPrepay(q)
    /\ UNCHANGED <<dbVars, relayVars, charged, answered, notifyVars, publishVars, faults>>

\* A statement or WeChat's call fails, or the process stops.
PrepayFails(q) ==
    /\ \/ prepay[q] = "flow" /\ Fault("payment db")
       \/ prepay[q] = "offer" /\ Fault("wechat")
       \/ prepay[q] # "idle" /\ Fault("crash")
    /\ EndPrepay(q)
    /\ UNCHANGED <<dbVars, relayVars, wechatVars, notifyVars, publishVars>>

\* The user pays at WeChat.
Charge(o) ==
    /\ o \in offered \ charged
    /\ charged' = charged \cup {o}
    /\ UNCHANGED <<dbVars, relayVars, offered, answered, payerVars, notifyVars, publishVars, faults>>

-----------------------------------------------------------------------------
(* HandleNotify. WeChat repeats a notification until it is answered without an    *)
(* error; of one that does not report success the code keeps nothing.             *)

\* Mutant: a notification that does not report success counts as one that does.
ReadFlow_Bug(n, o) ==
    /\ o \in offered \ answered
    /\ settling[n] = NoOrder
    /\ \/ /\ flow[o] = "wait"
          /\ settling' = [settling EXCEPT ![n] = o]
          /\ flowSeen' = [flowSeen EXCEPT ![n] = flowVersion[o]]
          /\ UNCHANGED answered
       \/ /\ flow[o] # "wait"
          /\ answered' = answered \cup {o}
          /\ UNCHANGED notifyVars
    /\ UNCHANGED <<dbVars, relayVars, offered, charged, payerVars, publishVars, faults>>

\* PaymentBySN, and the return when the payment is settled already.
ReadFlow(n, o) ==
    /\ o \in charged \ answered
    /\ settling[n] = NoOrder
    /\ \/ /\ flow[o] = "wait"
          /\ settling' = [settling EXCEPT ![n] = o]
          /\ flowSeen' = [flowSeen EXCEPT ![n] = flowVersion[o]]
          /\ UNCHANGED answered
       \/ /\ flow[o] # "wait"
          /\ answered' = answered \cup {o}
          /\ UNCHANGED notifyVars
    /\ UNCHANGED <<dbVars, relayVars, offered, charged, payerVars, publishVars, faults>>

EndNotify(n) ==
    /\ settling' = [settling EXCEPT ![n] = NoOrder]
    /\ flowSeen' = [flowSeen EXCEPT ![n] = 0]

\* Mutant: the event is not in the payment's transaction and may be lost.
StoreSettlement_Bug(o, seen) ==
    /\ flowVersion[o] = seen
    /\ o \notin Range(outbox)
    /\ flow' = [flow EXCEPT ![o] = "success"]
    /\ flowVersion' = [flowVersion EXCEPT ![o] = @ + 1]
    /\ outbox' \in {outbox, Append(outbox, o)}

\* The transaction of UpdatePaymentWithOutbox, where the row still has the version
\* that was read and uk_event_key has no event of the payment.
StoreSettlement(o, seen) ==
    /\ flowVersion[o] = seen
    /\ o \notin Range(outbox)
    /\ flow' = [flow EXCEPT ![o] = "success"]
    /\ flowVersion' = [flowVersion EXCEPT ![o] = @ + 1]
    /\ outbox' = Append(outbox, o)

Settle(n) ==
    /\ settling[n] # NoOrder
    /\ StoreSettlement(settling[n], flowSeen[n])
    /\ answered' = answered \cup {settling[n]}
    /\ EndNotify(n)
    /\ UNCHANGED <<relayVars, offered, charged, payerVars, publishVars, faults>>

\* Another notification of the payment was faster.
SettleConflict(n) ==
    /\ settling[n] # NoOrder
    /\ flowVersion[settling[n]] # flowSeen[n] \/ settling[n] \in Range(outbox)
    /\ EndNotify(n)
    /\ UNCHANGED <<dbVars, relayVars, wechatVars, payerVars, publishVars, faults>>

\* The commit is applied and its answer is lost.
SettleUnknown(n) ==
    /\ settling[n] # NoOrder
    /\ Fault("commit")
    /\ StoreSettlement(settling[n], flowSeen[n])
    /\ EndNotify(n)
    /\ UNCHANGED <<relayVars, wechatVars, payerVars, publishVars>>

\* Mutant: WeChat is told all is well after a transaction that failed.
SettleFails_Bug(n) ==
    /\ settling[n] # NoOrder
    /\ Fault("payment db") \/ Fault("crash")
    /\ answered' = answered \cup {settling[n]}
    /\ EndNotify(n)
    /\ UNCHANGED <<dbVars, relayVars, offered, charged, payerVars, publishVars>>

\* A statement fails or the process stops.
SettleFails(n) ==
    /\ settling[n] # NoOrder
    /\ Fault("payment db") \/ Fault("crash")
    /\ EndNotify(n)
    /\ UNCHANGED <<dbVars, relayVars, wechatVars, payerVars, publishVars>>

-----------------------------------------------------------------------------
(* publishOutbox. *)

Poll(p) ==
    /\ batch[p] = {} /\ marking[p] = NoOrder
    /\ batch' = [batch EXCEPT ![p] = Due]
    /\ UNCHANGED <<dbVars, relayVars, wechatVars, payerVars, notifyVars, marking, faults>>

\* WriteMessages, for the next row of the batch.
Write(p, o) ==
    /\ o \in batch[p] /\ IsFirst(o, batch[p]) /\ marking[p] = NoOrder
    /\ topic' = Append(topic, o)
    /\ marking' = [marking EXCEPT ![p] = o]
    /\ batch' = [batch EXCEPT ![p] = @ \ {o}]
    /\ UNCHANGED <<dbVars, published, late, wechatVars, payerVars, notifyVars, faults>>

\* Mutant: an event that could not be written is marked like the others.
WriteFails_Bug(p, o) ==
    /\ o \in batch[p] /\ IsFirst(o, batch[p]) /\ marking[p] = NoOrder
    /\ Fault("kafka")
    /\ UNCHANGED topic
    /\ marking' = [marking EXCEPT ![p] = o]
    /\ batch' = [batch EXCEPT ![p] = @ \ {o}]
    /\ UNCHANGED <<dbVars, published, late, wechatVars, payerVars, notifyVars>>

\* WriteMessages reports an error, whether Kafka has the message or not, and
\* RetryOutbox puts the row off; a row put off in vain is one that is due again.
WriteFails(p, o) ==
    /\ o \in batch[p] /\ IsFirst(o, batch[p]) /\ marking[p] = NoOrder
    /\ Fault("kafka")
    /\ topic' \in {topic, Append(topic, o)}
    /\ late' = IF o \in published THEN late ELSE late \cup {o}
    /\ batch' = [batch EXCEPT ![p] = @ \ {o}]
    /\ UNCHANGED <<dbVars, published, wechatVars, payerVars, notifyVars, marking>>

\* The delay of RetryOutbox is over.
RetryDue(o) ==
    /\ o \in late
    /\ late' = late \ {o}
    /\ UNCHANGED <<dbVars, published, topic, wechatVars, payerVars, notifyVars, publishVars, faults>>

\* MarkOutboxPublished.
Mark(p) ==
    /\ marking[p] # NoOrder
    /\ published' = published \cup {marking[p]}
    /\ marking' = [marking EXCEPT ![p] = NoOrder]
    /\ UNCHANGED <<dbVars, late, topic, wechatVars, payerVars, notifyVars, batch, faults>>

MarkFails(p) ==
    /\ marking[p] # NoOrder
    /\ Fault("payment db")
    /\ marking' = [marking EXCEPT ![p] = NoOrder]
    /\ UNCHANGED <<dbVars, relayVars, wechatVars, payerVars, notifyVars, batch>>

\* The publisher stops between any two of its steps.
PublisherCrash(p) ==
    /\ batch[p] # {} \/ marking[p] # NoOrder
    /\ Fault("crash")
    /\ batch' = [batch EXCEPT ![p] = {}]
    /\ marking' = [marking EXCEPT ![p] = NoOrder]
    /\ UNCHANGED <<dbVars, relayVars, wechatVars, payerVars, notifyVars>>

-----------------------------------------------------------------------------
Prepay(q) == EnsureFlow(q) \/ Offer(q) \/ PrepayFails(q)

Notify(n) ==
    \/ \E o \in Orders : ReadFlow(n, o)
    \/ Settle(n) \/ SettleConflict(n) \/ SettleUnknown(n) \/ SettleFails(n)

Publish(p) ==
    \/ \E o \in Orders : Write(p, o) \/ WriteFails(p, o)
    \/ Poll(p) \/ Mark(p) \/ MarkFails(p) \/ PublisherCrash(p)

\* The steps that do not begin with a read of the order.
PaymentNext ==
    \/ \E o \in Orders : Charge(o) \/ RetryDue(o)
    \/ \E q \in Payers : Prepay(q)
    \/ \E n \in Notifiers : Notify(n)
    \/ \E p \in Publishers : Publish(p)

Next == PaymentNext \/ \E q \in Payers, o \in Orders : StartPrepay(q, o)

Spec == Init /\ [][Next]_vars

\* A goroutine goes on, the publisher's ticker ticks, a delay passes, and WeChat
\* repeats a notification until it is answered.
PaymentFairness ==
    /\ \A q \in Payers : WF_vars(EnsureFlow(q)) /\ WF_vars(Offer(q))
    /\ \A n \in Notifiers : WF_vars(Settle(n) \/ SettleConflict(n))
    /\ \A p \in Publishers : WF_vars(Poll(p)) /\ WF_vars(Mark(p)) /\ WF_vars(\E o \in Orders : Write(p, o))
    /\ \A o \in Orders : /\ WF_vars(RetryDue(o))
                         /\ SF_vars(\E n \in Notifiers : ReadFlow(n, o))

FairSpec == Spec /\ PaymentFairness

-----------------------------------------------------------------------------
(* Properties. *)

TypeOK ==
    /\ flow \in [Orders -> {"none", "wait", "success"}]
    /\ flowVersion \in [Orders -> Nat]
    /\ outbox \in Seq(Orders) /\ topic \in Seq(Orders)
    /\ published \subseteq Orders /\ late \subseteq Orders
    /\ answered \subseteq charged /\ charged \subseteq offered /\ offered \subseteq Orders
    /\ paying \in [Payers -> Orders \cup {NoOrder}]
    /\ prepay \in [Payers -> {"idle", "flow", "offer"}]
    /\ settling \in [Notifiers -> Orders \cup {NoOrder}]
    /\ flowSeen \in [Notifiers -> Nat]
    /\ batch \in [Publishers -> SUBSET Orders]
    /\ marking \in [Publishers -> Orders \cup {NoOrder}]
    /\ faults \in Nat

\* A payment is settled exactly when its event is stored, once, and only after
\* WeChat took the money, however many notifications race
\* (UpdatePaymentWithOutbox).
EventWithPayment ==
    /\ \A o \in Orders : /\ flow[o] = "success" <=> o \in Range(outbox)
                         /\ flow[o] = "success" => o \in charged
    /\ \A i, j \in DOMAIN outbox : outbox[i] = outbox[j] => i = j

\* WeChat never takes money for an order without a local payment to credit it to
\* (Prepay stores the row before it calls WeChat).
ChargedHasFlow == \A o \in charged : flow[o] # "none"

\* An event marked as published is in Kafka, and Kafka has events of settled
\* payments only (publishOutbox).
PublishedIsInTopic ==
    /\ published \subseteq Range(topic)
    /\ \A o \in Range(topic) : flow[o] = "success"

\* Money taken is credited and its event ends up in Kafka, and is not published
\* for ever (HandleNotify, publishOutbox).
ChargedIsPublished == \A o \in Orders : (o \in charged) ~> (o \in published)
=============================================================================
