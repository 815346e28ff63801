------------------------------ MODULE TradeProof ------------------------------
(***************************************************************************)
(* Proofs about Trade, for any orders, goroutines, consumers and faults:   *)
(* it implements Booking. What the two components keep when they are alone *)
(* they keep together; their theorems are those of OrderProof and          *)
(* PaymentProof, and what is left is what ties them to each other.         *)
(***************************************************************************)
EXTENDS Trade, TLAPS

OP == INSTANCE OrderProof
PP == INSTANCE PaymentProof

-----------------------------------------------------------------------------
(* The components that Trade composes are those of the two proofs.                *)

\* A step of orders in Trade is one of the module that is proved about.
LEMMA OrderActions ==
    /\ Ord!Init => OP!Init
    /\ Ord!Callers = OP!Callers
    /\ \A o \in Orders :
          /\ Ord!Create(o) => OP!Create(o)
          /\ Ord!CreateUnknown(o) => OP!CreateUnknown(o)
          /\ Ord!ScheduleClose(o) => OP!ScheduleClose(o)
          /\ Ord!ScheduleFails(o) => OP!ScheduleFails(o)
          /\ \A q \in Requests : Ord!Cancel(q, o) => OP!Cancel(q, o)
          /\ \A h \in TaskHandlers : /\ Ord!CloseOrder(h, o) => OP!CloseOrder(h, o)
                                     /\ Ord!CloseReadFails(h, o) => OP!CloseReadFails(h, o)
          /\ \A k \in Consumers : Ord!Consume(k, o, "waitUse") => OP!Consume(k, o, "waitUse")
    /\ \A c \in OP!Callers :
          /\ Ord!Update(c) => OP!Update(c)
          /\ Ord!WriteUnknown(c) => OP!WriteUnknown(c)
          /\ Ord!CallFails(c) => OP!CallFails(c)
          /\ Ord!Return(c) => OP!Return(c)
          /\ Ord!Crash(c) => OP!Crash(c)
          /\ Ord!EndCall(c) => OP!EndCall(c)
<1> USE DEF Ord!Goto, OP!Goto, Ord!Fault, OP!Fault, Ord!BeginCall, OP!BeginCall, Ord!EndCall, OP!EndCall,
            Ord!rowVars, OP!rowVars, Ord!taskVars, OP!taskVars, Ord!callVars, OP!callVars,
            Ord!orderVars, OP!orderVars, Ord!Callers, OP!Callers, Ord!NoTarget, OP!NoTarget
<1>1. Ord!Init => OP!Init
  BY DEF Ord!Init, OP!Init
<1>2. ASSUME NEW o \in Orders
      PROVE  /\ Ord!Create(o) => OP!Create(o)
             /\ Ord!CreateUnknown(o) => OP!CreateUnknown(o)
             /\ Ord!ScheduleClose(o) => OP!ScheduleClose(o)
             /\ Ord!ScheduleFails(o) => OP!ScheduleFails(o)
  BY DEF Ord!Create, OP!Create, Ord!CreateUnknown, OP!CreateUnknown, Ord!ScheduleClose, OP!ScheduleClose,
         Ord!ScheduleFails, OP!ScheduleFails
<1>3. ASSUME NEW o \in Orders, NEW c
      PROVE  /\ Ord!Cancel(c, o) => OP!Cancel(c, o)
             /\ Ord!CloseOrder(c, o) => OP!CloseOrder(c, o)
             /\ Ord!CloseReadFails(c, o) => OP!CloseReadFails(c, o)
             /\ Ord!Consume(c, o, "waitUse") => OP!Consume(c, o, "waitUse")
  BY DEF Ord!Cancel, OP!Cancel, Ord!CloseOrder, OP!CloseOrder, Ord!CloseReadFails, OP!CloseReadFails,
         Ord!Consume, OP!Consume
<1>4. ASSUME NEW c \in OP!Callers
      PROVE  /\ Ord!Update(c) => OP!Update(c)
             /\ Ord!WriteUnknown(c) => OP!WriteUnknown(c)
             /\ Ord!CallFails(c) => OP!CallFails(c)
             /\ Ord!Return(c) => OP!Return(c)
             /\ Ord!Crash(c) => OP!Crash(c)
             /\ Ord!EndCall(c) => OP!EndCall(c)
  <2>1. Ord!Update(c) => OP!Update(c)
    BY DEF Ord!Update, OP!Update, Ord!Read, OP!Read, Ord!Write, OP!Write, Ord!Conflict, OP!Conflict,
           Ord!Notify, OP!Notify, Ord!Move, OP!Move, Ord!Allowed, OP!Allowed
  <2>2. /\ Ord!WriteUnknown(c) => OP!WriteUnknown(c)
        /\ Ord!CallFails(c) => OP!CallFails(c)
    BY DEF Ord!WriteUnknown, OP!WriteUnknown, Ord!CallFails, OP!CallFails, Ord!Move, OP!Move
  <2>3. /\ Ord!Return(c) => OP!Return(c)
        /\ Ord!Crash(c) => OP!Crash(c)
        /\ Ord!EndCall(c) => OP!EndCall(c)
    BY DEF Ord!Return, OP!Return, Ord!Crash, OP!Crash
  <2> QED
    BY <2>1, <2>2, <2>3
<1> QED
  BY <1>1, <1>2, <1>3, <1>4

\* And a step of payments.
LEMMA PaymentActions ==
    /\ Pay!Init => PP!Init
    /\ \A q \in Payers, o \in Orders : Pay!StartPrepay(q, o) => PP!StartPrepay(q, o)
    /\ Pay!PaymentNext => PP!PaymentNext
<1> USE DEF Pay!Fault, PP!Fault, Pay!Due, PP!Due, Pay!IsFirst, PP!IsFirst, Pay!Range, PP!Range,
            Pay!dbVars, PP!dbVars, Pay!relayVars, PP!relayVars, Pay!wechatVars, PP!wechatVars,
            Pay!payerVars, PP!payerVars, Pay!notifyVars, PP!notifyVars, Pay!publishVars, PP!publishVars,
            Pay!EndPrepay, PP!EndPrepay, Pay!EndNotify, PP!EndNotify,
            Pay!StoreSettlement, PP!StoreSettlement
<1>1. Pay!Init => PP!Init
  BY DEF Pay!Init, PP!Init
<1>2. ASSUME NEW q \in Payers, NEW o \in Orders
      PROVE  Pay!StartPrepay(q, o) => PP!StartPrepay(q, o)
  BY DEF Pay!StartPrepay, PP!StartPrepay
<1>3. ASSUME NEW o \in Orders
      PROVE  (Pay!Charge(o) => PP!Charge(o)) /\ (Pay!RetryDue(o) => PP!RetryDue(o))
  BY DEF Pay!Charge, PP!Charge, Pay!RetryDue, PP!RetryDue
<1>4. ASSUME NEW q \in Payers PROVE Pay!Prepay(q) => PP!Prepay(q)
  BY DEF Pay!Prepay, PP!Prepay, Pay!EnsureFlow, PP!EnsureFlow, Pay!Offer, PP!Offer,
         Pay!PrepayFails, PP!PrepayFails
<1>5. ASSUME NEW n \in Notifiers PROVE Pay!Notify(n) => PP!Notify(n)
  BY DEF Pay!Notify, PP!Notify, Pay!ReadFlow, PP!ReadFlow, Pay!Settle, PP!Settle, Pay!SettleConflict,
         PP!SettleConflict, Pay!SettleUnknown, PP!SettleUnknown, Pay!SettleFails, PP!SettleFails
<1>6. ASSUME NEW p \in Publishers PROVE Pay!Publish(p) => PP!Publish(p)
  BY DEF Pay!Publish, PP!Publish, Pay!Write, PP!Write, Pay!WriteFails, PP!WriteFails, Pay!Poll, PP!Poll,
         Pay!Mark, PP!Mark, Pay!MarkFails, PP!MarkFails, Pay!PublisherCrash, PP!PublisherCrash
<1>7. Pay!PaymentNext => PP!PaymentNext
  BY <1>3, <1>4, <1>5, <1>6 DEF Pay!PaymentNext, PP!PaymentNext
<1> QED
  BY <1>1, <1>2, <1>7

-----------------------------------------------------------------------------
(* What ties the components to each other. *)

\* What the offsets of the consumer group are.
Offsets ==
    /\ owner \in Consumers
    /\ position \in 0..Len(topic) /\ committed \in 0..Len(topic)
    /\ handling \in [Consumers -> 0..Len(topic)]

\* Nobody asks for more than a cancellation or, with money taken, a confirmation.
Asks(c) ==
    /\ target[c] \in {"cancel", "waitUse", "none"}
    /\ step[c] # "idle" /\ target[c] = "waitUse" => subject[c] \in charged

\* WeChat is asked for money for orders that exist.
PayableExist ==
    /\ \A o \in offered : tradeState[o] # "none"
    /\ \A q \in Payers : prepay[q] # "idle" => tradeState[paying[q]] # "none"

Links ==
    /\ \A o \in Orders : tradeState[o] \in {"none", "waitPay", "cancel", "waitUse"}
    /\ \A c \in OP!Callers : Asks(c)
    /\ PayableExist

\* The inductive invariant.
IInv == OP!IInv /\ PP!IInv /\ Links /\ Offsets

\* A step that Booking makes, or does not see.
Kept == Promise!Next \/ UNCHANGED <<tradeState, charged, notices>>

-----------------------------------------------------------------------------
(* A component keeps its invariant while the other one moves. *)

\* Orders, at a fault of the payments or of the consumer group.
LEMMA OrdersWait == ASSUME OP!IInv, UNCHANGED orderVars, faults' \in Nat PROVE OP!IInv'
<1>1. UNCHANGED <<tradeState, version, closeTask, notices, step, subject, target, seen>>
  BY DEF orderVars
<1>2. OP!TypeOK'
  BY <1>1 DEF OP!IInv, OP!TypeOK
<1> QED
  BY <1>1, <1>2 DEF OP!IInv, OP!VersionCountsMoves, OP!NotifiedOnce, OP!InCall, OP!Decided, OP!Telling

\* Payments, at a fault of the orders or of the consumer group.
LEMMA PaymentsWait == ASSUME PP!IInv, UNCHANGED paymentVars, faults' \in Nat PROVE PP!IInv'
<1>1. UNCHANGED <<flow, flowVersion, outbox, published, late, topic, offered, charged, answered,
                  paying, prepay, settling, flowSeen, batch, marking>>
  BY DEF paymentVars
<1>2. PP!TypeOK'
  BY <1>1 DEF PP!IInv, PP!TypeOK
<1> QED
  BY <1>1, <1>2 DEF PP!IInv, PP!EventWithPayment, PP!OfferedHasFlow, PP!PublishedIsInTopic, PP!InHand,
                    PP!Range

\* The types of the components are those of the composition.
LEMMA Types == IInv => TypeOK
<1> SUFFICES ASSUME IInv PROVE TypeOK
  OBVIOUS
<1>1. Ord!TypeOK
  BY DEF IInv, OP!IInv, Ord!TypeOK, OP!TypeOK, Ord!Callers, OP!Callers, Ord!TradeStates, OP!TradeStates,
         Ord!EventTargets, OP!EventTargets, Ord!NoTarget, OP!NoTarget
<1>2. Pay!TypeOK
  BY DEF IInv, PP!IInv, Pay!TypeOK, PP!TypeOK
<1> QED
  BY <1>1, <1>2 DEF IInv, Offsets, TypeOK

-----------------------------------------------------------------------------
(* The steps of orders. *)

\* The payments wait while an order moves.
LEMMA OrderStepKeeps ==
    ASSUME IInv, OP!IInv', Links', Offsets', UNCHANGED paymentVars
    PROVE  IInv'
<1>1. faults' \in Nat
  BY DEF OP!IInv, OP!TypeOK
<1>2. PP!IInv'
  BY <1>1, PaymentsWait DEF IInv
<1> QED
  BY <1>2 DEF IInv

\* A new order is one that Booking places.
LEMMA PlaceKeeps ==
    ASSUME IInv, NEW o \in Orders, tradeState[o] = "none",
           tradeState' = [tradeState EXCEPT ![o] = "waitPay"],
           UNCHANGED <<notices, step, subject, target, offered, charged, paying, prepay>>
    PROVE  Links' /\ Kept
<1>1. tradeState \in [Orders -> OP!TradeStates \cup {"none"}] /\ offered \subseteq Orders
      /\ \A q \in Payers : prepay[q] # "idle" => paying[q] \in Orders
  BY DEF IInv, OP!IInv, OP!TypeOK, PP!IInv, PP!TypeOK, PP!InHand
<1>2. Links'
  BY <1>1 DEF IInv, Links, Asks, PayableExist
<1>3. Promise!Place(o)
  BY DEF Promise!Place
<1> QED
  BY <1>2, <1>3 DEF Kept, Promise!Next

\* The write of a caller closes an order that waits for its payment, or confirms a
\* paid one: its decision was made on the current version.
LEMMA MoveKeeps ==
    ASSUME IInv, NEW c \in OP!Callers, step[c] = "write", OP!Move(c),
           NEW label, step' = [step EXCEPT ![c] = label],
           UNCHANGED <<notices, subject, target, offered, charged, paying, prepay>>
    PROVE  Links' /\ Kept
<1> DEFINE s == subject[c]
<1>1. /\ tradeState \in [Orders -> OP!TradeStates \cup {"none"}] /\ offered \subseteq Orders
      /\ step \in [OP!Callers -> {"idle", "read", "write", "notify", "ok", "failed"}]
      /\ \A q \in Payers : prepay[q] # "idle" => paying[q] \in Orders
  BY DEF IInv, OP!IInv, OP!TypeOK, PP!IInv, PP!TypeOK, PP!InHand
<1>2. s \in Orders /\ OP!Allowed(tradeState[s], target[c])
  BY DEF IInv, OP!IInv, OP!InCall, OP!Decided, OP!Move
<1>3. /\ target[c] \in {"cancel", "waitUse"} /\ tradeState[s] = "waitPay"
      /\ target[c] = "waitUse" => s \in charged
  BY <1>2 DEF IInv, Links, Asks, OP!Allowed
<1>4. tradeState' = [tradeState EXCEPT ![s] = target[c]]
  BY DEF OP!Move
<1>5. \A d \in OP!Callers : step'[d] # "idle" => step[d] # "idle"
  BY <1>1
<1>6. Links'
  <2>1. \A o \in Orders : /\ tradeState'[o] \in {"none", "waitPay", "cancel", "waitUse"}
                          /\ tradeState[o] # "none" => tradeState'[o] # "none"
    BY <1>1, <1>2, <1>3, <1>4 DEF IInv, Links
  <2>2. \A d \in OP!Callers : Asks(d)'
    BY <1>5 DEF IInv, Links, Asks
  <2>3. PayableExist'
    BY <1>1, <2>1 DEF IInv, Links, PayableExist
  <2> QED
    BY <2>1, <2>2, <2>3 DEF Links
<1>7. Kept
  <2>1. CASE target[c] = "cancel"
    <3>1. Promise!Close(s)
      BY <1>3, <1>4, <2>1 DEF Promise!Close
    <3> QED
      BY <1>2, <3>1 DEF Kept, Promise!Next
  <2>2. CASE target[c] = "waitUse"
    <3>1. Promise!Confirm(s)
      BY <1>3, <1>4, <2>2 DEF Promise!Confirm
    <3> QED
      BY <1>2, <3>1 DEF Kept, Promise!Next
  <2> QED
    BY <1>3, <2>1, <2>2
<1> QED
  BY <1>6, <1>7

\* A caller that begins, goes on with or ends a call, while the rows stay.
LEMMA CallKeeps ==
    ASSUME IInv, NEW c \in OP!Callers,
           \A d \in OP!Callers \ {c} : /\ step'[d] = step[d] /\ subject'[d] = subject[d]
                                       /\ target'[d] = target[d],
           Asks(c)',
           UNCHANGED <<tradeState, offered, charged, paying, prepay>>
    PROVE  Links'
<1>1. \A d \in OP!Callers : Asks(d)'
  BY DEF IInv, Links, Asks
<1> QED
  BY <1>1 DEF IInv, Links, PayableExist

\* The notification is the only one of an order that is confirmed.
LEMMA TellKeeps ==
    ASSUME IInv, NEW c \in OP!Callers, OP!Notify(c), UNCHANGED charged
    PROVE  Kept
<1> DEFINE s == subject[c]
<1>1. s \in Orders /\ notices[s] = 0 /\ tradeState[s] = "waitUse" /\ notices \in [Orders -> Nat]
  BY DEF IInv, OP!IInv, OP!TypeOK, OP!InCall, OP!Telling, OP!Notify, Links
<1>2. tradeState' = tradeState
  BY DEF OP!Notify, OP!rowVars
<1>3. CASE notices' = [notices EXCEPT ![s] = @ + 1]
  <2>1. Promise!Tell(s)
    BY <1>1, <1>2, <1>3 DEF Promise!Tell
  <2> QED
    BY <1>1, <2>1 DEF Kept, Promise!Next
<1>4. CASE notices' = notices
  BY <1>2, <1>4 DEF Kept
<1> QED
  BY <1>3, <1>4 DEF OP!Notify

\* Every step of an order, of its close task, or of a goroutine that is no consumer.
LEMMA OrderSteps == ASSUME IInv, OrderStep PROVE IInv' /\ Kept
<1>1. /\ UNCHANGED <<flow, offered, charged, paying, prepay>> /\ Offsets'
      /\ UNCHANGED paymentVars
  BY DEF IInv, Offsets, OrderStep, paymentVars, kafkaVars
<1>2. /\ step \in [OP!Callers -> {"idle", "read", "write", "notify", "ok", "failed"}]
      /\ subject \in [OP!Callers -> Orders \cup {NoOrder}]
      /\ target \in [OP!Callers -> {"cancel", OP!NoTarget} \cup OP!EventTargets]
  BY DEF IInv, OP!IInv, OP!TypeOK
<1>3. ASSUME OP!Next, Links', Kept PROVE IInv' /\ Kept
  <2>1. OP!IInv'
    BY <1>3, OP!Invariance_Step, NamesAssumption, ValuesAssumption DEF IInv
  <2> QED
    BY <1>1, <1>3, <2>1, OrderStepKeeps
<1>4. ASSUME UNCHANGED <<tradeState, notices, step, subject, target>> PROVE Links' /\ Kept
  BY <1>1, <1>4 DEF IInv, Links, Asks, PayableExist, Kept
<1>5. ASSUME NEW o \in Orders, OP!Create(o) \/ OP!CreateUnknown(o) PROVE IInv' /\ Kept
  <2>1. /\ tradeState[o] = "none" /\ tradeState' = [tradeState EXCEPT ![o] = "waitPay"]
        /\ UNCHANGED <<notices, step, subject, target>>
    BY <1>5 DEF OP!Create, OP!CreateUnknown, OP!callVars
  <2> QED
    BY <1>1, <1>3, <1>5, <2>1, PlaceKeeps DEF OP!Next
<1>6. ASSUME NEW o \in Orders, OP!ScheduleClose(o) \/ OP!ScheduleFails(o) PROVE IInv' /\ Kept
  <2>1. UNCHANGED <<tradeState, notices, step, subject, target>>
    BY <1>6 DEF OP!ScheduleClose, OP!ScheduleFails, OP!rowVars, OP!callVars
  <2> QED
    BY <1>3, <1>4, <1>6, <2>1 DEF OP!Next
<1>7. ASSUME NEW c \in OP!Callers, NEW o \in Orders, OP!BeginCall(c, o, "cancel"),
             UNCHANGED <<tradeState, notices>>
      PROVE  Links' /\ Kept
  <2>1. /\ Asks(c)'
        /\ \A d \in OP!Callers \ {c} : /\ step'[d] = step[d] /\ subject'[d] = subject[d]
                                       /\ target'[d] = target[d]
    BY <1>2, <1>7 DEF OP!BeginCall, OP!Goto, Asks
  <2>2. Links'
    BY <1>1, <1>7, <2>1, CallKeeps
  <2> QED
    BY <1>1, <1>7, <2>2 DEF Kept
<1>8. ASSUME NEW q \in Requests, NEW o \in Orders, OP!Cancel(q, o) PROVE IInv' /\ Kept
  <2>1. OP!BeginCall(q, o, "cancel") /\ UNCHANGED <<tradeState, notices>> /\ q \in OP!Callers
    BY <1>8 DEF OP!Cancel, OP!rowVars, OP!taskVars, OP!Callers
  <2> QED
    BY <1>3, <1>7, <1>8, <2>1 DEF OP!Next
<1>9. ASSUME NEW h \in TaskHandlers, NEW o \in Orders, OP!CloseOrder(h, o) \/ OP!CloseReadFails(h, o)
      PROVE  IInv' /\ Kept
  <2>1. /\ UNCHANGED <<tradeState, notices>> /\ h \in OP!Callers
        /\ OP!BeginCall(h, o, "cancel") \/ UNCHANGED <<step, subject, target>>
    BY <1>9 DEF OP!CloseOrder, OP!CloseReadFails, OP!orderVars, OP!rowVars, OP!taskVars, OP!callVars,
                OP!Callers
  <2>2. OP!Next
    BY <1>9 DEF OP!Next
  <2> QED
    BY <1>3, <1>4, <1>7, <2>1, <2>2
<1>10. ASSUME NEW c \in OP!Callers, OP!Write(c) \/ OP!WriteUnknown(c) PROVE IInv' /\ Kept
  <2>1. /\ step[c] = "write" /\ OP!Move(c) /\ UNCHANGED <<notices, subject, target>>
        /\ \E label \in {"notify", "ok", "failed"} : step' = [step EXCEPT ![c] = label]
    BY <1>10 DEF OP!Write, OP!WriteUnknown, OP!Goto, OP!taskVars
  <2>2. Links' /\ Kept
    BY <1>1, <2>1, MoveKeeps
  <2>3. OP!Next
    BY <1>10 DEF OP!Next, OP!Update, OP!Failure
  <2> QED
    BY <1>3, <2>2, <2>3
<1>11. ASSUME NEW c \in OP!Callers, OP!Read(c) \/ OP!Conflict(c) \/ OP!CallFails(c) \/ OP!Notify(c)
       PROVE  IInv' /\ Kept
  <2>1. /\ UNCHANGED <<tradeState, subject, target>> /\ step[c] # "idle"
        /\ \E label \in {"write", "ok", "failed"} : step' = [step EXCEPT ![c] = label]
    BY <1>11 DEF OP!Read, OP!Conflict, OP!CallFails, OP!Notify, OP!Goto, OP!rowVars
  <2>2. Asks(c)'
    BY <1>1, <2>1 DEF IInv, Links, Asks
  <2>3. Links'
    BY <1>1, <1>2, <2>1, <2>2, CallKeeps
  <2>4. Kept
    <3>1. CASE OP!Notify(c)
      BY <1>1, <3>1, TellKeeps
    <3>2. CASE ~OP!Notify(c)
      BY <1>1, <1>11, <2>1, <3>2 DEF OP!Read, OP!Conflict, OP!CallFails, OP!taskVars, Kept
    <3> QED
      BY <3>1, <3>2
  <2>5. OP!Next
    BY <1>11 DEF OP!Next, OP!Update, OP!Failure
  <2> QED
    BY <1>3, <2>3, <2>4, <2>5
<1>12. ASSUME NEW c \in OP!Callers, OP!EndCall(c), UNCHANGED <<tradeState, notices>>
       PROVE  Links' /\ Kept
  <2>1. /\ Asks(c)'
        /\ \A d \in OP!Callers \ {c} : /\ step'[d] = step[d] /\ subject'[d] = subject[d]
                                       /\ target'[d] = target[d]
    BY <1>2, <1>12 DEF OP!EndCall, OP!Goto, OP!NoTarget, Asks
  <2>2. Links'
    BY <1>1, <1>12, <2>1, CallKeeps
  <2> QED
    BY <1>1, <1>12, <2>2 DEF Kept
<1>13. ASSUME NEW c \in OP!Callers, OP!Return(c) \/ OP!Crash(c) PROVE IInv' /\ Kept
  <2>1. OP!EndCall(c) /\ UNCHANGED <<tradeState, notices>>
    BY <1>13 DEF OP!Return, OP!Crash, OP!rowVars, OP!taskVars
  <2>2. OP!Next
    BY <1>13 DEF OP!Next, OP!Failure
  <2> QED
    BY <1>3, <1>12, <2>1, <2>2
<1>14. CASE \E o \in Orders :
               \/ Ord!Create(o) \/ Ord!CreateUnknown(o) \/ Ord!ScheduleClose(o) \/ Ord!ScheduleFails(o)
               \/ \E q \in Requests : Ord!Cancel(q, o)
               \/ \E h \in TaskHandlers : Ord!CloseOrder(h, o) \/ Ord!CloseReadFails(h, o)
  BY <1>5, <1>6, <1>8, <1>9, <1>14, OrderActions
<1>15. CASE \E c \in Ord!Callers : Ord!Update(c) \/ Ord!WriteUnknown(c) \/ Ord!CallFails(c)
  <2>1. \E c \in OP!Callers : OP!Update(c) \/ OP!WriteUnknown(c) \/ OP!CallFails(c)
    BY <1>15, OrderActions
  <2> QED
    BY <1>10, <1>11, <2>1 DEF OP!Update
<1>16. CASE \E c \in Requests \cup TaskHandlers : Ord!Return(c) \/ Ord!Crash(c)
  <2>1. Requests \cup TaskHandlers \subseteq OP!Callers
    BY DEF OP!Callers
  <2> QED
    BY <1>13, <1>16, <2>1, OrderActions
<1> QED
  BY <1>14, <1>15, <1>16 DEF OrderStep

-----------------------------------------------------------------------------
(* The steps of payments. *)

\* What a step of payments may do to what the orders know of: WeChat offers what
\* Prepay asks for and takes money for what it offers, and the topic grows.
LEMMA PaymentEffects ==
    ASSUME PP!IInv, PP!PaymentNext
    PROVE  /\ charged' = charged \/ \E o \in offered : charged' = charged \cup {o}
           /\ \/ offered' = offered
              \/ \E q \in Payers : prepay[q] # "idle" /\ offered' = offered \cup {paying[q]}
           /\ \A q \in Payers : prepay'[q] # "idle" => prepay[q] # "idle" /\ paying'[q] = paying[q]
           /\ Len(topic) <= Len(topic') /\ Len(topic') \in Nat
<1> DEFINE Effects ==
        /\ charged' = charged \/ \E o \in offered : charged' = charged \cup {o}
        /\ \/ offered' = offered
           \/ \E q \in Payers : prepay[q] # "idle" /\ offered' = offered \cup {paying[q]}
        /\ \A q \in Payers : prepay'[q] # "idle" => prepay[q] # "idle" /\ paying'[q] = paying[q]
        /\ Len(topic) <= Len(topic') /\ Len(topic') \in Nat
<1>1. /\ topic \in Seq(Orders) /\ Len(topic) \in Nat
      /\ paying \in [Payers -> Orders \cup {NoOrder}] /\ prepay \in [Payers -> {"idle", "flow", "offer"}]
  BY DEF PP!IInv, PP!TypeOK
<1> USE DEF PP!dbVars, PP!relayVars, PP!wechatVars, PP!payerVars, PP!notifyVars, PP!publishVars
<1>2. ASSUME NEW o \in Orders, PP!Charge(o) \/ PP!RetryDue(o) PROVE Effects
  BY <1>1, <1>2 DEF PP!Charge, PP!RetryDue
<1>3. ASSUME NEW q \in Payers, PP!Prepay(q) PROVE Effects
  <2>1. UNCHANGED <<charged, topic>>
    BY <1>3 DEF PP!Prepay, PP!EnsureFlow, PP!Offer, PP!PrepayFails
  <2>2. offered' = offered \/ (prepay[q] # "idle" /\ offered' = offered \cup {paying[q]})
    BY <1>3 DEF PP!Prepay, PP!EnsureFlow, PP!Offer, PP!PrepayFails
  <2>3. \/ PP!EndPrepay(q)
        \/ prepay[q] = "flow" /\ prepay' = [prepay EXCEPT ![q] = "offer"] /\ paying' = paying
    BY <1>3 DEF PP!Prepay, PP!EnsureFlow, PP!Offer, PP!PrepayFails
  <2> QED
    BY <1>1, <2>1, <2>2, <2>3 DEF PP!EndPrepay
<1>4. ASSUME NEW n \in Notifiers, PP!Notify(n) PROVE Effects
  <2>1. UNCHANGED <<charged, offered, prepay, paying, topic>>
    BY <1>4 DEF PP!Notify, PP!ReadFlow, PP!Settle, PP!SettleConflict, PP!SettleUnknown, PP!SettleFails
  <2> QED
    BY <1>1, <2>1
<1>5. ASSUME NEW p \in Publishers, PP!Publish(p) PROVE Effects
  <2>1. /\ UNCHANGED <<charged, offered, prepay, paying>>
        /\ topic' = topic \/ \E o \in Orders : topic' = Append(topic, o)
    BY <1>5 DEF PP!Publish, PP!Write, PP!WriteFails, PP!Poll, PP!Mark, PP!MarkFails, PP!PublisherCrash
  <2>2. Len(topic) <= Len(topic') /\ Len(topic') \in Nat
    BY <1>1, <2>1
  <2> QED
    BY <2>1, <2>2
<1> QED
  BY <1>2, <1>3, <1>4, <1>5 DEF PP!PaymentNext

\* The orders and the offsets wait while a payment moves.
LEMMA PaymentStepKeeps ==
    ASSUME IInv, PP!Next, Links', UNCHANGED <<orderVars, kafkaVars>>, Len(topic) <= Len(topic'),
           Len(topic') \in Nat
    PROVE  IInv'
<1>1. PP!IInv'
  BY PP!Invariance_Step, NamesAssumption, ValuesAssumption DEF IInv
<1>2. faults' \in Nat
  BY <1>1 DEF PP!IInv, PP!TypeOK
<1>3. OP!IInv'
  BY <1>2, OrdersWait DEF IInv
<1>4. Len(topic) \in Nat
  BY DEF IInv, PP!IInv, PP!TypeOK
<1>5. Offsets'
  BY <1>4 DEF IInv, Offsets, kafkaVars
<1> QED
  BY <1>1, <1>3, <1>5 DEF IInv

\* Every step of WeChat, Prepay, HandleNotify and publishOutbox: Booking sees the
\* order paid.
LEMMA PaymentSteps == ASSUME IInv, PaymentStep PROVE IInv' /\ Kept
<1>1. PP!PaymentNext /\ UNCHANGED <<orderVars, kafkaVars>>
  BY PaymentActions DEF PaymentStep
<1>2. UNCHANGED <<tradeState, notices, step, subject, target>>
  BY <1>1 DEF orderVars
<1>3. /\ charged' = charged \/ \E o \in offered : charged' = charged \cup {o}
      /\ \/ offered' = offered
         \/ \E q \in Payers : prepay[q] # "idle" /\ offered' = offered \cup {paying[q]}
      /\ \A q \in Payers : prepay'[q] # "idle" => prepay[q] # "idle" /\ paying'[q] = paying[q]
      /\ Len(topic) <= Len(topic') /\ Len(topic') \in Nat
  BY <1>1, PaymentEffects DEF IInv
<1>4. Links'
  BY <1>2, <1>3 DEF IInv, Links, Asks, PayableExist
<1>5. IInv'
  BY <1>1, <1>3, <1>4, PaymentStepKeeps DEF PP!Next
<1>6. CASE charged' = charged
  BY <1>2, <1>5, <1>6 DEF Kept
<1>7. ASSUME NEW o \in offered, charged' = charged \cup {o} PROVE Kept
  <2>1. o \in Orders /\ tradeState[o] # "none"
    BY DEF IInv, PP!IInv, PP!TypeOK, Links, PayableExist
  <2>2. \E x \in Orders : Promise!Pay(x)
    BY <1>2, <1>7, <2>1 DEF Promise!Pay
  <2> QED
    BY <2>2 DEF Kept, Promise!Next
<1> QED
  BY <1>3, <1>5, <1>6, <1>7

\* Prepay begins with an order that it finds payable.
LEMMA PrepayBegins ==
    ASSUME IInv, NEW q \in Payers, NEW o \in Orders, StartPrepay(q, o) PROVE IInv' /\ Kept
<1>1. PP!StartPrepay(q, o) /\ tradeState[o] = "waitPay" /\ UNCHANGED <<orderVars, kafkaVars>>
  BY PaymentActions DEF StartPrepay
<1>2. UNCHANGED <<tradeState, notices, step, subject, target, offered, charged, topic>>
  BY <1>1 DEF orderVars, PP!StartPrepay, PP!wechatVars, PP!relayVars
<1>3. PayableExist'
  BY <1>1, <1>2 DEF IInv, PP!IInv, PP!TypeOK, Links, PayableExist, PP!StartPrepay
<1>4. Links'
  BY <1>2, <1>3 DEF IInv, Links, Asks
<1>5. IInv'
  <2>1. Len(topic) \in Nat
    BY DEF IInv, PP!IInv, PP!TypeOK
  <2> QED
    BY <1>1, <1>2, <1>4, <2>1, PaymentStepKeeps DEF PP!Next
<1> QED
  BY <1>2, <1>5 DEF Kept

-----------------------------------------------------------------------------
(* The steps of consumers. *)

\* A call of a consumer ends, whatever becomes of the offset.
LEMMA ConsumerEnds ==
    ASSUME IInv, NEW k \in Consumers, OP!EndCall(k),
           UNCHANGED <<tradeState, version, closeTask, notices, paymentVars>>,
           faults' \in Nat, Offsets'
    PROVE  IInv' /\ Kept
<1>1. /\ k \in OP!Callers /\ step'[k] = "idle"
      /\ \A d \in OP!Callers \ {k} : /\ step'[d] = step[d] /\ subject'[d] = subject[d]
                                     /\ target'[d] = target[d] /\ seen'[d] = seen[d]
  BY DEF IInv, OP!IInv, OP!TypeOK, OP!EndCall, OP!Goto, OP!Callers
<1>2. OP!TypeOK'
  BY DEF IInv, OP!IInv, OP!TypeOK, OP!EndCall, OP!Goto
<1>3. OP!IInv'
  <2>1. OP!InCall(k)'
    BY <1>1 DEF OP!InCall
  <2> QED
    BY <1>1, <1>2, <2>1, OP!CallStep, NamesAssumption, ValuesAssumption DEF IInv
<1>4. UNCHANGED <<offered, charged, paying, prepay>>
  BY DEF paymentVars
<1>5. Asks(k)'
  BY <1>1 DEF IInv, OP!IInv, OP!TypeOK, OP!EndCall, OP!NoTarget, Asks
<1>6. Links'
  BY <1>1, <1>4, <1>5, CallKeeps
<1> QED
  BY <1>3, <1>4, <1>6, OrderStepKeeps DEF Kept

\* A consumer reads an event: its order is one that was paid for.
LEMMA FetchKeeps == ASSUME IInv, NEW k \in Consumers, Fetch(k) PROVE IInv' /\ Kept
<1> DEFINE o == topic[position + 1]
<1>1. /\ topic \in Seq(Orders) /\ Len(topic) \in Nat /\ position \in 0..Len(topic)
      /\ position < Len(topic) /\ position + 1 \in 1..Len(topic)
  BY DEF IInv, PP!IInv, PP!TypeOK, Offsets, Fetch
<1>2. o \in Orders /\ o \in charged
  BY <1>1 DEF IInv, PP!IInv, PP!PublishedIsInTopic, PP!EventWithPayment, PP!Range
<1>3. /\ OP!Consume(k, o, "waitUse") /\ k \in OP!Callers
      /\ UNCHANGED <<paymentVars, owner, committed>>
      /\ position' = position + 1 /\ handling' = [handling EXCEPT ![k] = position + 1]
  BY <1>2, OrderActions DEF Fetch, OP!Callers
<1>4. OP!IInv'
  <2>1. OP!Next
    BY <1>2, <1>3 DEF OP!Next, OP!EventTargets
  <2> QED
    BY <2>1, OP!Invariance_Step, NamesAssumption, ValuesAssumption DEF IInv
<1>5. UNCHANGED <<tradeState, notices, topic, offered, charged, paying, prepay>>
  BY <1>3 DEF OP!Consume, OP!rowVars, OP!taskVars, paymentVars
<1>6. /\ Asks(k)'
      /\ \A d \in OP!Callers \ {k} : /\ step'[d] = step[d] /\ subject'[d] = subject[d]
                                     /\ target'[d] = target[d]
  BY <1>2, <1>3, <1>5 DEF IInv, OP!IInv, OP!TypeOK, OP!Consume, OP!BeginCall, OP!Goto, Asks
<1>7. Links'
  BY <1>3, <1>5, <1>6, CallKeeps
<1>8. Offsets'
  BY <1>1, <1>3, <1>5 DEF IInv, Offsets
<1> QED
  BY <1>3, <1>4, <1>5, <1>7, <1>8, OrderStepKeeps DEF Kept

\* A consumer commits, fails to commit, passes over an event or stops.
LEMMA HandlingEnds ==
    ASSUME IInv, NEW k \in Consumers,
           Commit(k) \/ CommitFails(k) \/ Skip(k) \/ ConsumerCrash(k)
    PROVE  IInv' /\ Kept
<1>1. k \in OP!Callers
  BY DEF OP!Callers
<1>2. Len(topic) \in Nat /\ faults \in Nat
  BY DEF IInv, OP!IInv, OP!TypeOK, PP!IInv, PP!TypeOK
<1>3. /\ OP!EndCall(k) /\ faults' \in Nat
      /\ UNCHANGED <<tradeState, version, notices, paymentVars>>
      /\ closeTask' = closeTask
  BY <1>1, <1>2, OrderActions, NamesAssumption
     DEF Commit, CommitFails, Skip, ConsumerCrash, Ord!Fault, OP!Return, OP!Crash, OP!Fault,
         OP!rowVars, OP!taskVars
<1>4. Offsets'
  <2>1. /\ owner' \in Consumers /\ position' \in {position, committed}
        /\ committed' \in {committed, handling[k]}
        /\ handling' = [handling EXCEPT ![k] = 0]
    BY DEF IInv, Offsets, Commit, CommitFails, Skip, ConsumerCrash, Finish
  <2>2. topic' = topic
    BY <1>3 DEF paymentVars
  <2> QED
    BY <1>2, <2>1, <2>2 DEF IInv, Offsets
<1> QED
  BY <1>3, <1>4, ConsumerEnds

\* A rebalance moves no order.
LEMMA RebalanceKeeps == ASSUME IInv, NEW k \in Consumers, Rebalance(k) PROVE IInv' /\ Kept
<1>1. /\ UNCHANGED <<orderVars, paymentVars, committed, handling>>
      /\ owner' = k /\ position' = committed /\ faults' \in Nat
  BY DEF IInv, OP!IInv, OP!TypeOK, Rebalance, Ord!Fault
<1>2. UNCHANGED <<tradeState, notices, step, subject, target, topic, offered, charged, paying, prepay>>
  BY <1>1 DEF orderVars, paymentVars
<1>3. OP!IInv' /\ PP!IInv'
  BY <1>1, OrdersWait, PaymentsWait DEF IInv
<1>4. Links' /\ Offsets'
  BY <1>1, <1>2 DEF IInv, Links, Asks, PayableExist, Offsets
<1> QED
  BY <1>2, <1>3, <1>4 DEF IInv, Kept

-----------------------------------------------------------------------------
(* The theorems. *)

\* The invariant holds at the start, where Booking starts.
LEMMA Invariance_Init == Init => IInv /\ Promise!Init
<1> SUFFICES ASSUME Init PROVE IInv /\ Promise!Init
  OBVIOUS
<1>1. OP!Init /\ PP!Init
  BY OrderActions, PaymentActions DEF Init
<1>2. OP!IInv /\ PP!IInv
  BY <1>1, OP!Invariance_Init, PP!Invariance_Init, NamesAssumption, ValuesAssumption
<1>3. Links
  BY <1>1 DEF OP!Init, PP!Init, OP!NoTarget, Links, Asks, PayableExist
<1>4. Offsets
  <2>1. Len(topic) \in Nat
    BY <1>2 DEF PP!IInv, PP!TypeOK
  <2> QED
    BY <2>1 DEF Init, Offsets
<1>5. Promise!Init
  BY <1>1 DEF OP!Init, PP!Init, Promise!Init
<1> QED
  BY <1>2, <1>3, <1>4, <1>5 DEF IInv

\* Every step keeps the invariant, and is a step of Booking or none.
LEMMA Invariance_Step == IInv /\ [Next]_vars => IInv' /\ [Promise!Next]_(Promise!vars)
<1> SUFFICES ASSUME IInv, [Next]_vars PROVE IInv' /\ Kept
  BY DEF Kept, Promise!vars
<1>1. CASE UNCHANGED vars
  <2>1. UNCHANGED <<orderVars, paymentVars, kafkaVars, faults>>
    BY <1>1 DEF vars
  <2>2. faults' \in Nat
    BY <2>1 DEF IInv, OP!IInv, OP!TypeOK
  <2>3. OP!IInv' /\ PP!IInv'
    BY <2>1, <2>2, OrdersWait, PaymentsWait DEF IInv
  <2>4. Links' /\ Offsets'
    BY <2>1 DEF IInv, Links, Asks, PayableExist, Offsets, orderVars, paymentVars, kafkaVars
  <2>5. Kept
    BY <2>1 DEF Kept, orderVars, paymentVars
  <2> QED
    BY <2>3, <2>4, <2>5 DEF IInv
<1>2. CASE ConsumerStep
  BY <1>2, FetchKeeps, HandlingEnds, RebalanceKeeps DEF ConsumerStep
<1> QED
  BY <1>1, <1>2, OrderSteps, PaymentSteps, PrepayBegins DEF Next

\* The inductive invariant holds in every state of every execution.
THEOREM Invariance == Spec => []IInv
<1>1. Init => IInv
  BY Invariance_Init
<1>2. IInv /\ [Next]_vars => IInv'
  BY Invariance_Step
<1> QED
  BY <1>1, <1>2, PTL DEF Spec

\* The types of both components, and offsets that never pass the end of the topic
\* (consumePayments).
THEOREM TypeCorrect == Spec => []TypeOK
  BY Invariance, Types, PTL

\* Orders and payments keep the promise of Booking, whatever the number of orders,
\* requests, workers and consumers and whatever fails: a confirmed order is paid
\* for, it and a closed one stay what they are, and the user is told once
\* (UpdateState, HandleNotify, publishOutbox, consumePayments).
THEOREM KeepsPromise == Spec => ImplementsBooking
<1>1. Init => Promise!Init
  BY Invariance_Init
<1>2. IInv /\ [Next]_vars => [Promise!Next]_(Promise!vars)
  BY Invariance_Step
<1> QED
  BY <1>1, <1>2, Invariance, PTL DEF Spec, ImplementsBooking, Promise!Spec

-----------------------------------------------------------------------------
(* What the committed offset says, while no statement of UpdateState fails. *)

\* The payment of order o has had its effect, or comes too late for one.
Applied(o) == tradeState[o] \in {"cancel", "waitUse"}

Prefix(n) == \A i \in 1..n : Applied(topic[i])

\* A consumer with an event in hand has it in UpdateState, and has read nothing
\* further that was not applied; it decides to write only for an order that no
\* caller has moved yet.
InHand(k) ==
    /\ handling[k] = 0 <=> step[k] = "idle"
    /\ handling[k] > 0 => /\ subject[k] = topic[handling[k]] /\ target[k] = "waitUse"
                          /\ Prefix(handling[k] - 1)
    /\ step[k] = "write" => seen[k] = 0
    /\ step[k] \in {"ok", "notify", "failed"} => Applied(subject[k])

\* The offsets of the group and of its consumers stay behind what is applied.
Consumed ==
    /\ Prefix(committed)
    /\ Prefix(position) \/ position = handling[owner]
    /\ \A k \in Consumers : InHand(k)

\* Orders that are confirmed or closed stay so, and the topic only grows.
Stays ==
    /\ \A o \in Orders : Applied(o) => Applied(o)'
    /\ \A i \in 1..Len(topic) : topic'[i] = topic[i]

\* Messages stay where they are in the topic.
LEMMA TopicGrows ==
    ASSUME IInv, [Next]_vars
    PROVE  \A i \in 1..Len(topic) : topic'[i] = topic[i]
<1>1. topic \in Seq(Orders)
  BY DEF IInv, PP!IInv, PP!TypeOK
<1>2. SUFFICES topic' = topic \/ \E o \in Orders : topic' = Append(topic, o)
  BY <1>1
<1> USE DEF PP!dbVars, PP!relayVars, PP!wechatVars, PP!payerVars, PP!notifyVars, PP!publishVars
<1>3. ASSUME PP!PaymentNext PROVE topic' = topic \/ \E o \in Orders : topic' = Append(topic, o)
  <2>1. ASSUME NEW o \in Orders, PP!Charge(o) \/ PP!RetryDue(o) PROVE topic' = topic
    BY <2>1 DEF PP!Charge, PP!RetryDue
  <2>2. ASSUME NEW q \in Payers, PP!Prepay(q) PROVE topic' = topic
    BY <2>2 DEF PP!Prepay, PP!EnsureFlow, PP!Offer, PP!PrepayFails
  <2>3. ASSUME NEW n \in Notifiers, PP!Notify(n) PROVE topic' = topic
    BY <2>3 DEF PP!Notify, PP!ReadFlow, PP!Settle, PP!SettleConflict, PP!SettleUnknown, PP!SettleFails
  <2>4. ASSUME NEW p \in Publishers, PP!Publish(p)
        PROVE  topic' = topic \/ \E o \in Orders : topic' = Append(topic, o)
    BY <2>4 DEF PP!Publish, PP!Write, PP!WriteFails, PP!Poll, PP!Mark, PP!MarkFails, PP!PublisherCrash
  <2> QED
    BY <1>3, <2>1, <2>2, <2>3, <2>4 DEF PP!PaymentNext
<1>4. ASSUME NEW q \in Payers, NEW o \in Orders, PP!StartPrepay(q, o) PROVE topic' = topic
  BY <1>4 DEF PP!StartPrepay
<1>5. CASE PaymentStep
  BY <1>3, <1>5, PaymentActions DEF PaymentStep
<1>6. CASE \E q \in Payers, o \in Orders : StartPrepay(q, o)
  BY <1>4, <1>6, PaymentActions DEF StartPrepay
<1>7. CASE OrderStep \/ ConsumerStep \/ UNCHANGED vars
  BY <1>7 DEF OrderStep, ConsumerStep, Fetch, Commit, CommitFails, Skip, Rebalance, ConsumerCrash,
              vars, paymentVars
<1> QED
  BY <1>5, <1>6, <1>7 DEF Next

\* What was applied stays applied, by the promise of Booking.
LEMMA StaysStep == ASSUME IInv, [Next]_vars PROVE Stays
<1>1. [Promise!Next]_(Promise!vars)
  BY Invariance_Step
<1>2. \A o \in Orders : Applied(o) => Applied(o)'
  <2>1. tradeState \in [Orders -> OP!TradeStates \cup {"none"}]
    BY DEF IInv, OP!IInv, OP!TypeOK
  <2> QED
    BY <1>1, <2>1 DEF Promise!Next, Promise!vars, Promise!Place, Promise!Pay, Promise!Confirm,
                      Promise!Close, Promise!Tell, Applied
<1> QED
  BY <1>2, TopicGrows DEF Stays

\* The orders in the topic are orders.
LEMMA TopicOrders == IInv => /\ Len(topic) \in Nat /\ \A i \in 1..Len(topic) : topic[i] \in Orders
                             /\ \A k \in Consumers : step[k] # "idle" => subject[k] \in Orders
<1> SUFFICES ASSUME IInv
             PROVE  /\ Len(topic) \in Nat /\ \A i \in 1..Len(topic) : topic[i] \in Orders
                    /\ \A k \in Consumers : step[k] # "idle" => subject[k] \in Orders
  OBVIOUS
<1>1. topic \in Seq(Orders)
  BY DEF IInv, PP!IInv, PP!TypeOK
<1>2. ASSUME NEW k \in Consumers, step[k] # "idle" PROVE subject[k] \in Orders
  BY <1>2 DEF IInv, OP!IInv, OP!InCall, OP!Callers
<1> QED
  BY <1>1, <1>2

\* The first n messages are applied after the step.
PrefixNext(n) == \A i \in 1..n : Applied(topic[i])'

\* Prefixes and events in hand outlast the steps of others.
LEMMA PrefixStays ==
    ASSUME IInv, Stays, NEW n \in 0..Len(topic), Prefix(n)
    PROVE  PrefixNext(n)
  BY TopicOrders DEF Stays, Prefix, PrefixNext, Applied

LEMMA ConsumedNext ==
    ASSUME PrefixNext(committed'), PrefixNext(position') \/ position' = handling'[owner'],
           \A k \in Consumers : InHand(k)'
    PROVE  Consumed'
  BY DEF Consumed, Prefix, PrefixNext

LEMMA InHandStays ==
    ASSUME IInv, Stays, NEW k \in Consumers, InHand(k),
           handling'[k] = handling[k], step'[k] = step[k], subject'[k] = subject[k],
           target'[k] = target[k], seen'[k] = seen[k]
    PROVE  InHand(k)'
<1>1. handling[k] \in 0..Len(topic)
  BY DEF IInv, Offsets
<1>2. handling[k] > 0 => topic'[handling[k]] = topic[handling[k]] /\ PrefixNext(handling[k] - 1)
  BY <1>1, TopicOrders, PrefixStays DEF Stays, InHand
<1>3. step[k] \in {"ok", "notify", "failed"} => Applied(subject[k])'
  BY TopicOrders DEF Stays, InHand, Applied
<1> QED
  BY <1>2, <1>3 DEF InHand, Prefix, PrefixNext

\* Whoever makes no call of UpdateState moves no offset either.
LEMMA OthersWait ==
    ASSUME IInv, Stays, Consumed, UNCHANGED <<step, subject, target, seen, kafkaVars>>
    PROVE  Consumed'
<1>1. UNCHANGED <<owner, position, committed, handling>>
  BY DEF kafkaVars
<1>2. \A k \in Consumers : InHand(k)'
  BY <1>1, InHandStays DEF Consumed
<1>3. position \in 0..Len(topic) /\ committed \in 0..Len(topic)
  BY DEF IInv, Offsets
<1> QED
  BY <1>1, <1>2, <1>3, PrefixStays, ConsumedNext DEF Consumed

\* A consumer goes on in UpdateState: it is through with an event only when the order
\* does not wait for its payment any more.
LEMMA CallAdvances ==
    ASSUME "db" \notin Faults, IInv, Stays, NEW k \in Consumers, InHand(k),
           OP!Update(k) \/ OP!WriteUnknown(k) \/ OP!CallFails(k), handling' = handling
    PROVE  InHand(k)'
<1> DEFINE s == subject[k]
<1>1. /\ k \in OP!Callers /\ step[k] # "idle" /\ s \in Orders
      /\ handling[k] \in 0..Len(topic) /\ handling[k] > 0 /\ target[k] = "waitUse"
  BY TopicOrders DEF IInv, Offsets, InHand, OP!Callers, OP!Update, OP!Read, OP!Write, OP!Conflict, OP!Notify,
                     OP!WriteUnknown, OP!CallFails
<1>2. /\ step \in [OP!Callers -> {"idle", "read", "write", "notify", "ok", "failed"}]
      /\ tradeState \in [Orders -> OP!TradeStates \cup {"none"}] /\ seen \in [OP!Callers -> Nat]
      /\ version[s] = OP!Moves(tradeState[s])
  BY <1>1 DEF IInv, OP!IInv, OP!TypeOK, OP!VersionCountsMoves
<1>3. tradeState[s] \in {"waitPay", "cancel", "waitUse"}
  <2>1. s \in offered
    BY <1>1 DEF IInv, Links, Asks, PP!IInv, PP!TypeOK
  <2> QED
    BY <1>1, <2>1 DEF IInv, Links, PayableExist
<1>4. /\ UNCHANGED <<subject, target>> /\ step'[k] # "idle"
      /\ step'[k] = "write" => seen'[k] = 0
      /\ step'[k] \in {"ok", "notify", "failed"} => Applied(s)'
  <2>1. CASE OP!Read(k)
    <3>1. UNCHANGED <<subject, target, tradeState>>
      BY <2>1 DEF OP!Read, OP!rowVars
    <3>2. CASE tradeState[s] = "waitPay"
      BY <1>1, <1>2, <2>1, <3>1, <3>2 DEF OP!Read, OP!Allowed, OP!Goto, OP!Moves
    <3>3. CASE tradeState[s] \in {"cancel", "waitUse"}
      BY <1>1, <1>2, <2>1, <3>1, <3>3 DEF OP!Read, OP!Allowed, OP!Goto, Applied
    <3> QED
      BY <1>3, <3>2, <3>3
  <2>2. CASE OP!Write(k) \/ OP!WriteUnknown(k)
    BY <1>1, <1>2, <2>2 DEF OP!Write, OP!WriteUnknown, OP!Move, OP!Goto, Applied
  <2>3. CASE OP!Conflict(k)
    <3>1. Applied(s)
      BY <1>2, <1>3, <2>3 DEF OP!Conflict, OP!Moves, InHand, Applied
    <3> QED
      BY <1>1, <1>2, <2>3, <3>1 DEF OP!Conflict, OP!Goto, OP!rowVars, Applied
  <2>4. CASE OP!Notify(k)
    BY <1>1, <1>2, <2>4 DEF OP!Notify, OP!Goto, OP!rowVars, InHand, Applied
  <2>5. ASSUME OP!CallFails(k) PROVE FALSE
    BY <2>5 DEF OP!CallFails, OP!Fault
  <2> QED
    BY <2>1, <2>2, <2>3, <2>4, <2>5 DEF OP!Update
<1>5. topic'[handling[k]] = topic[handling[k]] /\ PrefixNext(handling[k] - 1)
  BY <1>1, TopicOrders, PrefixStays DEF Stays, InHand
<1> QED
  BY <1>1, <1>4, <1>5 DEF InHand, Prefix, PrefixNext

\* What a step of a caller leaves alone.
LEMMA OneCaller ==
    ASSUME IInv, NEW c \in OP!Callers, NEW d \in OP!Callers \ {c},
           \/ OP!Update(c) \/ OP!WriteUnknown(c) \/ OP!CallFails(c) \/ OP!EndCall(c)
           \/ \E o, new : OP!BeginCall(c, o, new)
    PROVE  step'[d] = step[d] /\ subject'[d] = subject[d] /\ target'[d] = target[d] /\ seen'[d] = seen[d]
  BY DEF IInv, OP!IInv, OP!TypeOK, OP!Update, OP!Read, OP!Write, OP!Conflict, OP!Notify, OP!WriteUnknown,
         OP!CallFails, OP!EndCall, OP!BeginCall, OP!Goto

\* A step of orders moves no offset, and no event but that of a consumer that goes on.
LEMMA OrderStepConsumes ==
    ASSUME "db" \notin Faults, IInv, Stays, Consumed, OrderStep
    PROVE  Consumed'
<1>1. UNCHANGED <<owner, position, committed, handling>>
  BY DEF OrderStep, kafkaVars
<1>2. SUFFICES \A k \in Consumers : InHand(k)'
  <2>1. position \in 0..Len(topic) /\ committed \in 0..Len(topic)
    BY DEF IInv, Offsets
  <2> QED
    BY <1>1, <1>2, <2>1, PrefixStays, ConsumedNext DEF Consumed
<1>3. ASSUME NEW k \in Consumers, step'[k] = step[k], subject'[k] = subject[k],
             target'[k] = target[k], seen'[k] = seen[k]
      PROVE  InHand(k)'
  BY <1>1, <1>3, InHandStays DEF Consumed
<1>4. ASSUME NEW c \in OP!Callers \ Consumers,
             OP!EndCall(c) \/ \E o, new : OP!BeginCall(c, o, new)
      PROVE  \A k \in Consumers : InHand(k)'
  BY <1>3, <1>4, OneCaller DEF OP!Callers
<1>5. Requests \cup TaskHandlers \subseteq OP!Callers \ Consumers
  BY NamesAssumption DEF OP!Callers
<1>6. CASE \E o \in Orders :
              \/ Ord!Create(o) \/ Ord!CreateUnknown(o) \/ Ord!ScheduleClose(o) \/ Ord!ScheduleFails(o)
              \/ \E q \in Requests : Ord!Cancel(q, o)
              \/ \E h \in TaskHandlers : Ord!CloseOrder(h, o) \/ Ord!CloseReadFails(h, o)
  <2>1. PICK o \in Orders :
              \/ OP!Create(o) \/ OP!CreateUnknown(o) \/ OP!ScheduleClose(o) \/ OP!ScheduleFails(o)
              \/ \E q \in Requests : OP!Cancel(q, o)
              \/ \E h \in TaskHandlers : OP!CloseOrder(h, o) \/ OP!CloseReadFails(h, o)
    BY <1>6, OrderActions
  <2>2. CASE UNCHANGED <<step, subject, target, seen>>
    BY <1>3, <2>2
  <2>3. CASE ~UNCHANGED <<step, subject, target, seen>>
    <3>1. \E c \in Requests \cup TaskHandlers : OP!BeginCall(c, o, "cancel")
      BY <2>1, <2>3 DEF OP!Create, OP!CreateUnknown, OP!ScheduleClose, OP!ScheduleFails, OP!Cancel,
                        OP!CloseOrder, OP!CloseReadFails, OP!callVars, OP!orderVars
    <3> QED
      BY <1>4, <1>5, <3>1
  <2> QED
    BY <2>2, <2>3
<1>7. CASE \E c \in Ord!Callers : Ord!Update(c) \/ Ord!WriteUnknown(c) \/ Ord!CallFails(c)
  <2>1. PICK c \in OP!Callers : OP!Update(c) \/ OP!WriteUnknown(c) \/ OP!CallFails(c)
    BY <1>7, OrderActions
  <2>2. ASSUME NEW k \in Consumers, k # c PROVE InHand(k)'
    BY <1>3, <2>1, <2>2, OneCaller DEF OP!Callers
  <2>3. ASSUME c \in Consumers PROVE InHand(c)'
    BY <1>1, <2>1, <2>3, CallAdvances DEF Consumed
  <2> QED
    BY <2>2, <2>3
<1>8. CASE \E c \in Requests \cup TaskHandlers : Ord!Return(c) \/ Ord!Crash(c)
  <2>1. \E c \in Requests \cup TaskHandlers : OP!EndCall(c)
    BY <1>5, <1>8, OrderActions DEF OP!Return, OP!Crash
  <2> QED
    BY <1>4, <1>5, <2>1
<1> QED
  BY <1>6, <1>7, <1>8 DEF OrderStep

\* A consumer reads the next event, with all events before it applied.
LEMMA FetchConsumes ==
    ASSUME IInv, Stays, Consumed, NEW k \in Consumers, Fetch(k)
    PROVE  Consumed'
<1>1. /\ topic \in Seq(Orders) /\ position \in 0..Len(topic) /\ position < Len(topic)
      /\ committed \in 0..Len(topic) /\ position + 1 \in 1..Len(topic) /\ k = owner
  BY DEF IInv, PP!IInv, PP!TypeOK, Offsets, Fetch
<1>2. topic[position + 1] \in Orders
  BY <1>1
<1>3. OP!Consume(k, topic[position + 1], "waitUse")
  BY <1>2, OrderActions DEF Fetch
<1>4. OP!BeginCall(k, topic[position + 1], "waitUse") /\ k \in OP!Callers
  BY <1>3 DEF OP!Consume, OP!Callers
<1>5. /\ UNCHANGED <<paymentVars, owner, committed>> /\ handling \in [Consumers -> 0..Len(topic)]
      /\ position' = position + 1 /\ handling' = [handling EXCEPT ![k] = position + 1]
  BY DEF Fetch, IInv, Offsets
<1>6. ASSUME NEW j \in Consumers, j # k PROVE InHand(j)'
  BY <1>4, <1>5, <1>6, OneCaller, InHandStays DEF Consumed, OP!Callers
<1>7. InHand(k)'
  <2>1. step[k] = "idle" /\ handling[k] = 0
    BY <1>4 DEF OP!BeginCall, Consumed, InHand
  <2>2. Prefix(position)
    <3>1. CASE position = 0
      BY <3>1 DEF Prefix
    <3>2. CASE position # 0
      BY <1>1, <2>1, <3>2 DEF Consumed
    <3> QED
      BY <3>1, <3>2
  <2>3. PrefixNext(position)
    BY <1>1, <2>2, PrefixStays
  <2>4. topic' = topic
    BY <1>5 DEF paymentVars
  <2>5. /\ step'[k] = "read" /\ subject'[k] = topic[position + 1] /\ target'[k] = "waitUse"
        /\ handling'[k] = position + 1
    BY <1>4, <1>5 DEF OP!BeginCall, OP!Goto, IInv, OP!IInv, OP!TypeOK
  <2>6. handling'[k] > 0 /\ handling'[k] - 1 = position
    BY <1>1, <2>5
  <2> QED
    BY <2>3, <2>4, <2>5, <2>6 DEF InHand, Prefix, PrefixNext
<1>8. PrefixNext(committed')
  BY <1>1, <1>5, PrefixStays DEF Consumed
<1>9. position' = handling'[owner']
  BY <1>1, <1>5
<1> QED
  BY <1>6, <1>7, <1>8, <1>9, ConsumedNext

\* An event that a consumer is through with is applied, and so are those before it.
LEMMA Through ==
    ASSUME IInv, Consumed, NEW k \in Consumers, step[k] \in {"ok", "failed"}
    PROVE  handling[k] \in 1..Len(topic) /\ Prefix(handling[k])
<1>1. handling[k] \in 1..Len(topic)
  BY TopicOrders DEF IInv, Offsets, Consumed, InHand
<1>2. Prefix(handling[k] - 1) /\ Applied(topic[handling[k]])
  BY <1>1 DEF Consumed, InHand
<1>3. \A i \in 1..handling[k] : i = handling[k] \/ i \in 1..(handling[k] - 1)
  BY <1>1, TopicOrders
<1> QED
  BY <1>1, <1>2, <1>3 DEF Prefix

\* A consumer commits, fails to, passes an event over, or stops.
LEMMA HandlingConsumes ==
    ASSUME IInv, Stays, Consumed, NEW k \in Consumers,
           Commit(k) \/ CommitFails(k) \/ Skip(k) \/ ConsumerCrash(k)
    PROVE  Consumed'
<1>1. k \in OP!Callers
  BY DEF OP!Callers
<1>2. OP!EndCall(k)
  BY <1>1, OrderActions DEF Commit, CommitFails, Skip, ConsumerCrash, OP!Return, OP!Crash
<1>3. handling' = [handling EXCEPT ![k] = 0] /\ handling \in [Consumers -> 0..Len(topic)]
  BY DEF Commit, CommitFails, Skip, ConsumerCrash, Finish, IInv, Offsets
<1>4. ASSUME NEW j \in Consumers, j # k PROVE InHand(j)'
  BY <1>1, <1>2, <1>3, <1>4, OneCaller, InHandStays DEF Consumed, OP!Callers
<1>5. InHand(k)'
  <2>1. step'[k] = "idle" /\ handling'[k] = 0
    BY <1>1, <1>2, <1>3 DEF OP!EndCall, OP!Goto, IInv, OP!IInv, OP!TypeOK
  <2> QED
    BY <2>1 DEF InHand
<1>6. /\ position \in 0..Len(topic) /\ committed \in 0..Len(topic) /\ owner \in Consumers
      /\ PrefixNext(committed)
  BY PrefixStays DEF Consumed, IInv, Offsets
<1>7. CASE ConsumerCrash(k)
  <2>1. committed' = committed /\ (position' = committed \/ (k # owner /\ UNCHANGED <<owner, position>>))
    BY <1>7 DEF ConsumerCrash
  <2>2. PrefixNext(committed')
    BY <1>6, <2>1
  <2>3. PrefixNext(position') \/ position' = handling'[owner']
    BY <1>3, <1>6, <2>1, PrefixStays DEF Consumed
  <2> QED
    BY <1>4, <1>5, <2>2, <2>3, ConsumedNext
<1>8. CASE ~ConsumerCrash(k)
  <2>1. step[k] \in {"ok", "failed"} /\ UNCHANGED <<owner, position>> /\ committed' \in {committed, handling[k]}
    BY <1>8 DEF Commit, CommitFails, Skip, Finish
  <2>2. handling[k] \in 0..Len(topic) /\ PrefixNext(handling[k])
    <3>1. Len(topic) \in Nat
      BY TopicOrders
    <3> QED
      BY <2>1, <3>1, Through, PrefixStays
  <2>3. PrefixNext(committed')
    BY <1>6, <2>1, <2>2
  <2>4. PrefixNext(position') \/ position' = handling'[owner']
    BY <1>3, <1>6, <2>1, <2>2, PrefixStays DEF Consumed
  <2> QED
    BY <1>4, <1>5, <2>3, <2>4, ConsumedNext
<1> QED
  BY <1>7, <1>8

\* After a rebalance the group goes on from the committed offset.
LEMMA RebalanceConsumes ==
    ASSUME IInv, Stays, Consumed, NEW k \in Consumers, Rebalance(k)
    PROVE  Consumed'
<1>1. UNCHANGED <<step, subject, target, seen, committed, handling>> /\ position' = committed
  BY DEF Rebalance, orderVars
<1>2. \A j \in Consumers : InHand(j)'
  BY <1>1, InHandStays DEF Consumed
<1>3. committed \in 0..Len(topic)
  BY DEF IInv, Offsets
<1>4. PrefixNext(committed') /\ PrefixNext(position')
  BY <1>1, <1>3, PrefixStays DEF Consumed
<1> QED
  BY <1>2, <1>4, ConsumedNext

LEMMA ConsumedStep ==
    ASSUME "db" \notin Faults, IInv, Consumed, [Next]_vars
    PROVE  Consumed'
<1>1. Stays
  BY StaysStep
<1>2. CASE PaymentStep \/ (\E q \in Payers, o \in Orders : StartPrepay(q, o)) \/ UNCHANGED vars
  <2>1. UNCHANGED <<step, subject, target, seen, kafkaVars>>
    BY <1>2 DEF PaymentStep, StartPrepay, vars, orderVars
  <2> QED
    BY <1>1, <2>1, OthersWait
<1>3. CASE OrderStep
  BY <1>1, <1>3, OrderStepConsumes
<1>4. CASE ConsumerStep
  BY <1>1, <1>4, FetchConsumes, HandlingConsumes, RebalanceConsumes DEF ConsumerStep
<1> QED
  BY <1>2, <1>3, <1>4 DEF Next

\* While no statement of UpdateState fails, every event below the committed offset has
\* had its effect, whatever the number of consumers, cancellations, rebalances, crashes,
\* failed commits of the offset and updates whose answer is lost (consumePayments).
THEOREM CommittedApplied ==
    ASSUME "db" \notin Faults
    PROVE  Spec => []EventsApplied
<1>1. Init => Consumed
  <2>1. SUFFICES ASSUME Init PROVE Consumed
    OBVIOUS
  <2>2. /\ owner \in Consumers /\ position = 0 /\ committed = 0
        /\ \A k \in Consumers : handling[k] = 0 /\ step[k] = "idle"
    BY <2>1, OrderActions DEF Init, OP!Init, OP!Callers
  <2> QED
    BY <2>2 DEF Consumed, Prefix, InHand
<1>2. IInv /\ Consumed /\ [Next]_vars => Consumed'
  BY ConsumedStep
<1>3. Consumed => EventsApplied
  BY DEF Consumed, Prefix, Applied, EventsApplied
<1> QED
  BY <1>1, <1>2, <1>3, Invariance, PTL DEF Spec
=============================================================================
