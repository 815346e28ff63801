---------------------------- MODULE PaymentProof ----------------------------
(***************************************************************************)
(* Proofs about PaymentOutbox, for any orders, goroutines, publishers,     *)
(* schema and faults.                                                      *)
(***************************************************************************)
EXTENDS PaymentOutbox, TLAPS

\* Who has an order in hand: a Prepay that calls WeChat has stored the payment, a
\* notification is of money taken, a publisher has events of the outbox, and the
\* one it will mark is in Kafka.
InHand ==
    /\ \A q \in Payers : /\ prepay[q] # "idle" => paying[q] \in Orders
                         /\ prepay[q] = "offer" => flow[paying[q]] # "none"
    /\ \A n \in Notifiers : settling[n] # NoOrder => settling[n] \in charged
    /\ \A p \in Publishers : /\ batch[p] \subseteq Range(outbox)
                             /\ marking[p] # NoOrder => marking[p] \in Range(topic)

\* WeChat takes money only for payments on record.
OfferedHasFlow == \A o \in offered : flow[o] # "none"

\* The inductive invariant.
IInv ==
    /\ TypeOK
    /\ EventWithPayment
    /\ OfferedHasFlow
    /\ PublishedIsInTopic
    /\ InHand

-----------------------------------------------------------------------------
(* Sequences of events. *)

\* Appending an event adds it, and it alone.
LEMMA RangeAppend ==
    ASSUME NEW s \in Seq(Orders), NEW o \in Orders
    PROVE  /\ Append(s, o) \in Seq(Orders)
           /\ Range(Append(s, o)) = Range(s) \cup {o}
           /\ Range(s) \subseteq Orders
<1>1. /\ Append(s, o) \in Seq(Orders)
      /\ DOMAIN Append(s, o) = 1..(Len(s) + 1)
      /\ \A i \in 1..Len(s) : Append(s, o)[i] = s[i]
      /\ Append(s, o)[Len(s) + 1] = o
      /\ DOMAIN s = 1..Len(s) /\ Len(s) \in Nat
      /\ \A i \in 1..Len(s) : s[i] \in Orders
  OBVIOUS
<1>2. Range(s) \subseteq Orders
  BY <1>1 DEF Range
<1>3. Range(Append(s, o)) \subseteq Range(s) \cup {o}
  BY <1>1 DEF Range
<1>4. Range(s) \cup {o} \subseteq Range(Append(s, o))
  BY <1>1 DEF Range
<1>. QED
  BY <1>1, <1>2, <1>3, <1>4

\* A new event does not repeat an old one.
LEMMA AppendInjective ==
    ASSUME NEW s \in Seq(Orders), NEW o \in Orders, o \notin Range(s),
           \A i, j \in DOMAIN s : s[i] = s[j] => i = j
    PROVE  \A i, j \in DOMAIN Append(s, o) : Append(s, o)[i] = Append(s, o)[j] => i = j
<1>1. /\ DOMAIN Append(s, o) = 1..(Len(s) + 1)
      /\ \A i \in 1..Len(s) : Append(s, o)[i] = s[i]
      /\ Append(s, o)[Len(s) + 1] = o
      /\ DOMAIN s = 1..Len(s) /\ Len(s) \in Nat
  OBVIOUS
<1>2. \A i \in 1..Len(s) : s[i] # o
  BY <1>1 DEF Range
<1>. QED
  BY <1>1, <1>2

-----------------------------------------------------------------------------
(* The steps. *)

\* A fault is counted.
LEMMA FaultCounts == ASSUME faults \in Nat, NEW kind, Fault(kind) PROVE faults' \in Nat
  BY DEF Fault

\* The invariant holds at the start.
LEMMA Invariance_Init == Init => IInv
<1>. SUFFICES ASSUME Init PROVE IInv
  OBVIOUS
<1>1. Range(outbox) = {} /\ Range(topic) = {} /\ DOMAIN outbox = {}
  BY DEF Init, Range
<1>2. TypeOK
  BY FaultsAssumption DEF Init, TypeOK
<1>3. EventWithPayment /\ OfferedHasFlow /\ PublishedIsInTopic
  BY <1>1, <1>2 DEF Init, EventWithPayment, OfferedHasFlow, PublishedIsInTopic
<1>4. InHand
  BY <1>1 DEF Init, InHand
<1>. QED
  BY <1>2, <1>3, <1>4 DEF IInv

\* Prepay keeps the invariant: a record is made and never taken back.
LEMMA PrepayStep ==
    ASSUME IInv, NEW q \in Payers, Prepay(q) \/ \E o \in Orders : StartPrepay(q, o)
    PROVE  IInv'
<1>. USE DEF IInv, TypeOK
<1>1. CASE \E o \in Orders : StartPrepay(q, o)
  <2>1. PICK o \in Orders : StartPrepay(q, o)
    BY <1>1
  <2>2. UNCHANGED <<flow, flowVersion, outbox, published, late, topic, offered, charged, answered,
                    settling, flowSeen, batch, marking, faults>>
    BY <2>1 DEF StartPrepay, dbVars, relayVars, wechatVars, notifyVars, publishVars
  <2>3. TypeOK'
    BY <2>1, <2>2 DEF StartPrepay
  <2>4. EventWithPayment' /\ OfferedHasFlow' /\ PublishedIsInTopic'
    BY <2>2 DEF EventWithPayment, OfferedHasFlow, PublishedIsInTopic
  <2>5. InHand'
    BY <2>1, <2>2 DEF InHand, StartPrepay
  <2>. QED
    BY <2>3, <2>4, <2>5
<1>2. CASE EnsureFlow(q)
  <2>. DEFINE o == paying[q]
  <2>1. /\ o \in Orders
        /\ UNCHANGED <<flowVersion, outbox, published, late, topic, offered, charged, answered,
                       settling, flowSeen, batch, marking, faults>>
        /\ \/ flow[o] = "none" /\ flow' = [flow EXCEPT ![o] = "wait"]
           \/ flow' = flow
        /\ \/ /\ prepay' = [prepay EXCEPT ![q] = "offer"] /\ paying' = paying
              /\ flow'[o] # "none"
           \/ EndPrepay(q)
    BY <1>2 DEF EnsureFlow, InHand, relayVars, wechatVars, notifyVars, publishVars
  <2>2. TypeOK'
    <3>1. flow' \in [Orders -> {"none", "wait", "success"}]
      BY <2>1
    <3>2. /\ prepay' \in [Payers -> {"idle", "flow", "offer"}]
          /\ paying' \in [Payers -> Orders \cup {NoOrder}]
      BY <2>1 DEF EndPrepay
    <3>. QED
      BY <2>1, <3>1, <3>2
  <2>3. \A x \in Orders : /\ flow'[x] = "success" <=> flow[x] = "success"
                          /\ flow[x] # "none" => flow'[x] # "none"
    BY <2>1
  <2>4. EventWithPayment' /\ OfferedHasFlow'
    BY <2>1, <2>3 DEF EventWithPayment, OfferedHasFlow
  <2>5. PublishedIsInTopic'
    <3>1. Range(topic) \subseteq Orders
      BY DEF Range
    <3>. QED
      BY <2>1, <2>3, <3>1 DEF PublishedIsInTopic
  <2>6. InHand'
    BY <2>1, <2>3 DEF InHand, EndPrepay
  <2>. QED
    BY <2>2, <2>4, <2>5, <2>6
<1>3. CASE Offer(q) \/ PrepayFails(q)
  <2>1. /\ UNCHANGED <<flow, flowVersion, outbox, published, late, topic, charged, answered,
                       settling, flowSeen, batch, marking>>
        /\ EndPrepay(q)
        /\ faults' \in Nat
        /\ \/ offered' = offered
           \/ offered' = offered \cup {paying[q]} /\ prepay[q] = "offer"
    <3>1. CASE Offer(q)
      BY <3>1 DEF Offer, dbVars, relayVars, notifyVars, publishVars
    <3>2. CASE PrepayFails(q)
      <4>1. faults' \in Nat
        BY <3>2, FaultCounts DEF PrepayFails
      <4>2. /\ UNCHANGED <<flow, flowVersion, outbox, published, late, topic, offered, charged, answered,
                           settling, flowSeen, batch, marking>>
            /\ EndPrepay(q)
        BY <3>2 DEF PrepayFails, dbVars, relayVars, wechatVars, notifyVars, publishVars
      <4>. QED
        BY <4>1, <4>2
    <3>. QED
      BY <1>3, <3>1, <3>2
  <2>2. TypeOK' /\ OfferedHasFlow'
    BY <2>1 DEF EndPrepay, InHand, OfferedHasFlow
  <2>3. EventWithPayment' /\ PublishedIsInTopic'
    BY <2>1 DEF EventWithPayment, PublishedIsInTopic
  <2>4. InHand'
    BY <2>1 DEF InHand, EndPrepay
  <2>. QED
    BY <2>2, <2>3, <2>4
<1>. QED
  BY <1>1, <1>2, <1>3 DEF Prepay

\* WeChat's charge and the passing of a delay keep the invariant.
LEMMA OutsideStep ==
    ASSUME IInv, NEW o \in Orders, Charge(o) \/ RetryDue(o) PROVE IInv'
<1>1. UNCHANGED <<flow, flowVersion, outbox, published, topic, offered, answered, paying, prepay,
                  settling, flowSeen, batch, marking, faults>>
  BY DEF Charge, RetryDue, dbVars, relayVars, wechatVars, payerVars, notifyVars, publishVars
<1>2. late' \subseteq late /\ charged \subseteq charged' /\ charged' \subseteq offered
  BY DEF IInv, TypeOK, Charge, RetryDue, relayVars, wechatVars
<1>3. TypeOK'
  BY <1>1, <1>2 DEF IInv, TypeOK
<1>4. EventWithPayment' /\ OfferedHasFlow' /\ PublishedIsInTopic'
  BY <1>1, <1>2 DEF IInv, EventWithPayment, OfferedHasFlow, PublishedIsInTopic
<1>5. InHand'
  BY <1>1, <1>2 DEF IInv, InHand
<1>. QED
  BY <1>3, <1>4, <1>5 DEF IInv

\* A settlement stores the payment's status and its only event together.
LEMMA SettleStep ==
    ASSUME IInv, NEW n \in Notifiers, settling[n] # NoOrder,
           StoreSettlement(settling[n], flowSeen[n]), EndNotify(n),
           answered' = answered \/ answered' = answered \cup {settling[n]}, faults' \in Nat,
           UNCHANGED <<published, late, topic, offered, charged, paying, prepay, batch, marking>>
    PROVE  IInv'
<1>. DEFINE o == settling[n]
<1>1. o \in Orders /\ o \in charged /\ o \notin Range(outbox)
  BY DEF IInv, TypeOK, InHand, StoreSettlement
<1>2. /\ outbox' = Append(outbox, o) /\ outbox' \in Seq(Orders)
      /\ Range(outbox') = Range(outbox) \cup {o}
  BY <1>1, RangeAppend DEF IInv, TypeOK, StoreSettlement
<1>3. TypeOK'
  BY <1>1, <1>2 DEF IInv, TypeOK, StoreSettlement, EndNotify
<1>4. \A x \in Orders : /\ flow'[x] = "success" <=> flow[x] = "success" \/ x = o
                        /\ flow[x] # "none" => flow'[x] # "none"
  BY <1>1 DEF IInv, TypeOK, StoreSettlement
<1>5. EventWithPayment'
  <2>1. \A i, j \in DOMAIN outbox' : outbox'[i] = outbox'[j] => i = j
    BY <1>1, <1>2, AppendInjective DEF IInv, TypeOK, EventWithPayment
  <2>. QED
    BY <1>1, <1>2, <1>4, <2>1 DEF IInv, EventWithPayment
<1>6. OfferedHasFlow'
  BY <1>4 DEF IInv, TypeOK, OfferedHasFlow
<1>7. PublishedIsInTopic'
  <2>1. Range(topic) \subseteq Orders
    BY DEF IInv, TypeOK, Range
  <2>. QED
    BY <1>4, <2>1 DEF IInv, PublishedIsInTopic
<1>8. InHand'
  BY <1>2, <1>4 DEF IInv, TypeOK, InHand, EndNotify
<1>. QED
  BY <1>3, <1>5, <1>6, <1>7, <1>8 DEF IInv

\* Every step of HandleNotify keeps the invariant.
LEMMA NotifyStep == ASSUME IInv, NEW n \in Notifiers, Notify(n) PROVE IInv'
<1>1. CASE Settle(n) \/ SettleUnknown(n)
  <2>1. /\ settling[n] # NoOrder /\ StoreSettlement(settling[n], flowSeen[n]) /\ EndNotify(n)
        /\ answered' = answered \/ answered' = answered \cup {settling[n]}
        /\ faults' \in Nat
        /\ UNCHANGED <<published, late, topic, offered, charged, paying, prepay, batch, marking>>
    BY <1>1 DEF IInv, TypeOK, Settle, SettleUnknown, Fault, relayVars, wechatVars, payerVars, publishVars
  <2>. QED
    BY <2>1, SettleStep
<1>2. CASE (\E o \in Orders : ReadFlow(n, o)) \/ SettleConflict(n) \/ SettleFails(n)
  <2>1. /\ UNCHANGED <<flow, flowVersion, outbox, published, late, topic, offered, charged,
                       paying, prepay, batch, marking>>
        /\ answered' \subseteq charged
    <3>1. CASE \E o \in Orders : ReadFlow(n, o)
      BY <3>1 DEF IInv, TypeOK, ReadFlow, dbVars, relayVars, payerVars, publishVars
    <3>2. CASE SettleConflict(n)
      BY <3>2 DEF IInv, TypeOK, SettleConflict, dbVars, relayVars, wechatVars, payerVars, publishVars
    <3>3. CASE SettleFails(n)
      BY <3>3 DEF IInv, TypeOK, SettleFails, dbVars, relayVars, wechatVars, payerVars, publishVars
    <3>. QED
      BY <1>2, <3>1, <3>2, <3>3
  <2>2. faults' \in Nat
    BY <1>2, FaultCounts DEF IInv, TypeOK, ReadFlow, SettleConflict, SettleFails
  <2>3. \/ EndNotify(n)
        \/ UNCHANGED <<settling, flowSeen>>
        \/ \E o \in charged : /\ settling' = [settling EXCEPT ![n] = o]
                              /\ flowSeen' = [flowSeen EXCEPT ![n] = flowVersion[o]]
    BY <1>2 DEF ReadFlow, SettleConflict, SettleFails, notifyVars
  <2>4. /\ settling' \in [Notifiers -> Orders \cup {NoOrder}]
        /\ flowSeen' \in [Notifiers -> Nat]
        /\ \A m \in Notifiers : settling'[m] # NoOrder => settling'[m] \in charged
    <3>1. charged \subseteq Orders
      BY DEF IInv, TypeOK
    <3>2. CASE EndNotify(n)
      BY <3>2 DEF IInv, TypeOK, InHand, EndNotify
    <3>3. CASE UNCHANGED <<settling, flowSeen>>
      BY <3>3 DEF IInv, TypeOK, InHand
    <3>4. ASSUME NEW o \in charged, settling' = [settling EXCEPT ![n] = o],
                 flowSeen' = [flowSeen EXCEPT ![n] = flowVersion[o]]
          PROVE  /\ settling' \in [Notifiers -> Orders \cup {NoOrder}]
                 /\ flowSeen' \in [Notifiers -> Nat]
                 /\ \A m \in Notifiers : settling'[m] # NoOrder => settling'[m] \in charged
      BY <3>1, <3>4 DEF IInv, TypeOK, InHand
    <3>. QED
      BY <2>3, <3>2, <3>3, <3>4
  <2>5. TypeOK'
    BY <2>1, <2>2, <2>4 DEF IInv, TypeOK
  <2>6. EventWithPayment' /\ OfferedHasFlow' /\ PublishedIsInTopic'
    BY <2>1 DEF IInv, EventWithPayment, OfferedHasFlow, PublishedIsInTopic
  <2>7. InHand'
    BY <2>1, <2>4 DEF IInv, InHand
  <2>. QED
    BY <2>5, <2>6, <2>7 DEF IInv
<1>. QED
  BY <1>1, <1>2 DEF Notify

\* Every step of publishOutbox keeps the invariant.
LEMMA PublishStep == ASSUME IInv, NEW p \in Publishers, Publish(p) PROVE IInv'
<1>1. /\ UNCHANGED <<flow, flowVersion, outbox, offered, charged, answered, paying, prepay,
                     settling, flowSeen>>
      /\ faults' \in Nat
  <2>. USE DEF IInv, TypeOK, dbVars, wechatVars, payerVars, notifyVars
  <2>1. CASE \E o \in Orders : Write(p, o) \/ WriteFails(p, o)
    BY <2>1, FaultCounts DEF Write, WriteFails
  <2>2. CASE Poll(p) \/ Mark(p)
    BY <2>2 DEF Poll, Mark
  <2>3. CASE MarkFails(p) \/ PublisherCrash(p)
    <3>1. faults' \in Nat
      BY <2>3, FaultCounts DEF MarkFails, PublisherCrash
    <3>2. UNCHANGED <<dbVars, wechatVars, payerVars, notifyVars>>
      BY <2>3 DEF MarkFails, PublisherCrash
    <3>. QED
      BY <3>1, <3>2
  <2>. QED
    BY <2>1, <2>2, <2>3 DEF Publish
<1>2. EventWithPayment' /\ OfferedHasFlow'
  BY <1>1 DEF IInv, EventWithPayment, OfferedHasFlow
<1>3. Range(outbox) \subseteq Orders /\ Range(topic) \subseteq Orders
  BY DEF IInv, TypeOK, Range
<1>4. ASSUME NEW o \in Orders, Write(p, o) \/ WriteFails(p, o) PROVE IInv'
  <2>1. /\ o \in batch[p] /\ flow[o] = "success"
        /\ batch' = [batch EXCEPT ![p] = @ \ {o}]
        /\ published' = published /\ late' \subseteq Orders
    BY <1>4 DEF IInv, TypeOK, InHand, EventWithPayment, Write, WriteFails
  <2>2. /\ topic' \in Seq(Orders) /\ Range(topic) \subseteq Range(topic')
        /\ Range(topic') \subseteq Range(topic) \cup {o}
    BY <1>4, RangeAppend DEF IInv, TypeOK, Write, WriteFails
  <2>3. \/ marking' = marking
        \/ marking' = [marking EXCEPT ![p] = o] /\ o \in Range(topic')
    BY <1>4, RangeAppend DEF IInv, TypeOK, Write, WriteFails
  <2>4. TypeOK'
    BY <1>1, <2>1, <2>2, <2>3 DEF IInv, TypeOK
  <2>5. PublishedIsInTopic'
    BY <1>1, <2>1, <2>2 DEF IInv, PublishedIsInTopic
  <2>6. InHand'
    BY <1>1, <2>1, <2>2, <2>3 DEF IInv, TypeOK, InHand
  <2>. QED
    BY <1>2, <2>4, <2>5, <2>6 DEF IInv
<1>5. CASE Poll(p) \/ Mark(p) \/ MarkFails(p) \/ PublisherCrash(p)
  <2>1. /\ UNCHANGED <<topic, late>>
        /\ \/ published' = published
           \/ published' = published \cup {marking[p]} /\ marking[p] # NoOrder
        /\ \/ batch' = batch
           \/ \E S \in SUBSET Range(outbox) : batch' = [batch EXCEPT ![p] = S]
        /\ marking' = marking \/ marking' = [marking EXCEPT ![p] = NoOrder]
    BY <1>5 DEF Poll, Mark, MarkFails, PublisherCrash, Due, relayVars
  <2>2. TypeOK'
    BY <1>1, <1>3, <2>1 DEF IInv, TypeOK
  <2>3. PublishedIsInTopic'
    BY <1>1, <2>1 DEF IInv, InHand, PublishedIsInTopic
  <2>4. InHand'
    BY <1>1, <2>1 DEF IInv, TypeOK, InHand
  <2>. QED
    BY <1>2, <2>2, <2>3, <2>4 DEF IInv
<1>. QED
  BY <1>4, <1>5 DEF Publish

\* Every step keeps the invariant.
LEMMA Invariance_Step == IInv /\ [Next]_vars => IInv'
<1>. SUFFICES ASSUME IInv, [Next]_vars PROVE IInv'
  OBVIOUS
<1>1. CASE UNCHANGED vars
  <2>1. UNCHANGED <<flow, flowVersion, outbox, published, late, topic, offered, charged, answered,
                    paying, prepay, settling, flowSeen, batch, marking, faults>>
    BY <1>1 DEF vars, paymentVars, dbVars, relayVars, wechatVars, payerVars, notifyVars, publishVars
  <2>. QED
    BY <2>1 DEF IInv, TypeOK, EventWithPayment, OfferedHasFlow, PublishedIsInTopic, InHand
<1>. QED
  BY <1>1, PrepayStep, OutsideStep, NotifyStep, PublishStep DEF Next, PaymentNext

-----------------------------------------------------------------------------
(* The theorems. *)

\* The inductive invariant holds in every state of every execution.
THEOREM Invariance == Spec => []IInv
  BY Invariance_Init, Invariance_Step, PTL DEF Spec

\* Every variable keeps its type, and WeChat answers no notification of money it
\* has not taken.
THEOREM TypeCorrect == Spec => []TypeOK
<1>1. IInv => TypeOK
  BY DEF IInv
<1>. QED
  BY <1>1, Invariance, PTL

\* A payment and its event are stored together, once, and only for money taken
\* (UpdatePaymentWithOutbox).
THEOREM EventsMatchPayments == Spec => []EventWithPayment
<1>1. IInv => EventWithPayment
  BY DEF IInv
<1>. QED
  BY <1>1, Invariance, PTL

\* No money is taken for an order without a payment on record (Prepay).
THEOREM ChargesRecorded == Spec => []ChargedHasFlow
<1>1. IInv => ChargedHasFlow
  BY DEF IInv, TypeOK, OfferedHasFlow, ChargedHasFlow
<1>. QED
  BY <1>1, Invariance, PTL

\* An event marked as published is in Kafka, whoever of the publishers fails or
\* stops (publishOutbox).
THEOREM PublishedEventsAreSent == Spec => []PublishedIsInTopic
<1>1. IInv => PublishedIsInTopic
  BY DEF IInv
<1>. QED
  BY <1>1, Invariance, PTL
=============================================================================
