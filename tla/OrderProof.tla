----------------------------- MODULE OrderProof -----------------------------
(***************************************************************************)
(* Proofs about OrderLifecycle, for any orders, goroutines and faults.     *)
(***************************************************************************)
EXTENDS OrderLifecycle, FiniteSetTheorems, TLAPS

\* The version counts the moves, so a caller that holds the current version holds
\* the current state.
Moves(state) == IF state \in {"none", "waitPay"} THEN 0
                ELSE IF state \in {"cancel", "waitUse"} THEN 1 ELSE 2
VersionCountsMoves == \A o \in Orders : version[o] = Moves(tradeState[o])

CallTargets == {"cancel"} \cup EventTargets

\* A caller in UpdateState has an order that exists, and a state to move it to.
InCall(c) ==
    step[c] # "idle" => /\ subject[c] \in Orders
                        /\ target[c] \in CallTargets
                        /\ tradeState[subject[c]] # "none"

\* A decision is right as long as the version it was made on is the current one.
Decided(c) ==
    step[c] = "write" =>
        /\ seen[c] <= version[subject[c]]
        /\ seen[c] = version[subject[c]] => Allowed(tradeState[subject[c]], target[c])

\* A caller about to notify has made the only move to waitUse, and nobody else
\* notifies for its order.
Telling(c) ==
    step[c] = "notify" =>
        /\ target[c] = "waitUse"
        /\ notices[subject[c]] = 0
        /\ tradeState[subject[c]] \notin {"none", "waitPay", "cancel"}
        /\ \A d \in Callers : step[d] = "notify" /\ subject[d] = subject[c] => d = c

\* The inductive invariant.
IInv ==
    /\ TypeOK
    /\ VersionCountsMoves
    /\ NotifiedOnce
    /\ \A c \in Callers : InCall(c) /\ Decided(c) /\ Telling(c)

-----------------------------------------------------------------------------
(* The state machine. *)

\* An allowed move is one of the moves of the diagram, and counts one.
LEMMA AllowedMoves ==
    ASSUME NEW old \in TradeStates \cup {"none"}, NEW new \in CallTargets, Allowed(old, new)
    PROVE  /\ old \in {"waitPay", "waitUse"}
           /\ new = "waitUse" => old = "waitPay"
           /\ Moves(new) = Moves(old) + 1
  BY DEF Allowed, Moves, TradeStates, CallTargets, EventTargets

-----------------------------------------------------------------------------
(* Types. *)

\* The types hold at the start.
THEOREM TypeCorrect_Init == Init => TypeOK
  BY FaultsAssumption DEF Init, TypeOK, NoTarget

\* Every step keeps the types.
LEMMA TypeCorrect_Step == TypeOK /\ (\A c \in Callers : InCall(c)) /\ [Next]_vars => TypeOK'
<1>. SUFFICES ASSUME TypeOK, \A c \in Callers : InCall(c), [Next]_vars PROVE TypeOK'
  OBVIOUS
<1>. USE DEF TypeOK, TradeStates, EventTargets, NoTarget
<1>1. ASSUME NEW o \in Orders, Create(o) PROVE TypeOK'
  BY <1>1 DEF Create, callVars
<1>2. ASSUME NEW o \in Orders, CreateUnknown(o) PROVE TypeOK'
  BY <1>2 DEF CreateUnknown, callVars, Fault
<1>3. ASSUME NEW o \in Orders, ScheduleClose(o) PROVE TypeOK'
  BY <1>3 DEF ScheduleClose, callVars, rowVars
<1>4. ASSUME NEW o \in Orders, ScheduleFails(o) PROVE TypeOK'
  BY <1>4 DEF ScheduleFails, callVars, rowVars, Fault
<1>5. ASSUME NEW c \in Callers, NEW o \in Orders, NEW new \in CallTargets,
             BeginCall(c, o, new), UNCHANGED <<rowVars, taskVars, faults>>
      PROVE  TypeOK'
  BY <1>5 DEF BeginCall, Goto, rowVars, taskVars, CallTargets
<1>6. ASSUME NEW q \in Requests, NEW o \in Orders, Cancel(q, o) PROVE TypeOK'
  BY <1>5, <1>6 DEF Cancel, Callers, CallTargets
<1>7. ASSUME NEW k \in Consumers, NEW o \in Orders, NEW new \in EventTargets, Consume(k, o, new)
      PROVE  TypeOK'
  BY <1>5, <1>7 DEF Consume, Callers, CallTargets
<1>8. ASSUME NEW h \in TaskHandlers, NEW o \in Orders, CloseOrder(h, o) PROVE TypeOK'
  <2>1. CASE tradeState[o] = "waitPay"
    BY <1>5, <1>8, <2>1 DEF CloseOrder, Callers, CallTargets, taskVars
  <2>2. CASE tradeState[o] # "waitPay"
    BY <1>8, <2>2 DEF CloseOrder, callVars, rowVars
  <2>. QED
    BY <2>1, <2>2
<1>9. ASSUME NEW h \in TaskHandlers, NEW o \in Orders, CloseReadFails(h, o) PROVE TypeOK'
  BY <1>9 DEF CloseReadFails, orderVars, rowVars, taskVars, callVars, Fault
<1>10. ASSUME NEW c \in Callers, Read(c) PROVE TypeOK'
  <2>1. subject[c] \in Orders
    BY <1>10 DEF Read, InCall
  <2>. QED
    BY <1>10, <2>1 DEF Read, Goto, rowVars, taskVars
<1>11. ASSUME NEW c \in Callers, step[c] = "write", Move(c), UNCHANGED taskVars
       PROVE  /\ tradeState' \in [Orders -> TradeStates \cup {"none"}]
              /\ version' \in [Orders -> Nat]
              /\ closeTask' \in [Orders -> {"none", "due", "queued", "lost", "done"}]
              /\ \A o \in Orders : tradeState'[o] = "none" <=> closeTask'[o] = "none"
              /\ notices' \in [Orders -> Nat]
  <2>1. /\ subject[c] \in Orders /\ target[c] \in CallTargets
        /\ tradeState[subject[c]] # "none"
    BY <1>11 DEF InCall
  <2>. QED
    BY <1>11, <2>1 DEF Move, taskVars, CallTargets
<1>12. ASSUME NEW c \in Callers, Write(c) PROVE TypeOK'
  BY <1>11, <1>12 DEF Write, Goto
<1>13. ASSUME NEW c \in Callers, WriteUnknown(c) PROVE TypeOK'
  BY <1>11, <1>13 DEF WriteUnknown, Goto, Fault
<1>14. ASSUME NEW c \in Callers, Conflict(c) \/ CallFails(c) PROVE TypeOK'
  BY <1>14 DEF Conflict, CallFails, Goto, Fault, rowVars, taskVars
<1>15. ASSUME NEW c \in Callers, Notify(c) PROVE TypeOK'
  BY <1>15 DEF Notify, Goto, Fault, rowVars, InCall
<1>16. ASSUME NEW c \in Callers, Return(c) PROVE TypeOK'
  <2>1. subject[c] \in Orders /\ closeTask[subject[c]] # "none"
    BY <1>16 DEF Return, InCall
  <2>. QED
    BY <1>16, <2>1 DEF Return, EndCall, Goto, rowVars
<1>17. ASSUME NEW c \in Callers, Crash(c) PROVE TypeOK'
  BY <1>17 DEF Crash, EndCall, Goto, Fault, rowVars, taskVars
<1>18. CASE UNCHANGED vars
  BY <1>18 DEF vars, orderVars, rowVars, taskVars, callVars
<1>. QED
  BY <1>1, <1>2, <1>3, <1>4, <1>6, <1>7, <1>8, <1>9, <1>10, <1>12, <1>13, <1>14, <1>15, <1>16,
     <1>17, <1>18 DEF Next, Update, Failure

-----------------------------------------------------------------------------
(* The step of the inductive invariant. *)

CallInv == \A c \in Callers : InCall(c) /\ Decided(c) /\ Telling(c)

\* A move by the decision of a caller follows the state machine, and leaves the
\* decisions of the others either on another order or out of date.
LEMMA MoveStep ==
    ASSUME IInv, NEW c \in Callers, step[c] = "write", Move(c),
           NEW label \in {"notify", "ok", "failed"}, Goto(c, label),
           label = "notify" => target[c] = "waitUse",
           UNCHANGED <<taskVars, subject, target, seen>>, TypeOK'
    PROVE  /\ Allowed(tradeState[subject[c]], tradeState'[subject[c]])
           /\ IInv'
<1>. DEFINE s == subject[c]
<1>. USE DEF TypeOK
<1>1. /\ s \in Orders /\ target[c] \in CallTargets
      /\ Allowed(tradeState[s], target[c])
  BY DEF IInv, InCall, Decided, Move
<1>2. /\ tradeState' = [tradeState EXCEPT ![s] = target[c]]
      /\ version' = [version EXCEPT ![s] = @ + 1]
      /\ step' = [step EXCEPT ![c] = label]
      /\ UNCHANGED <<closeTask, notices, subject, target, seen>>
  BY DEF Move, Goto, taskVars
<1>3. /\ tradeState[s] \in {"waitPay", "waitUse"}
      /\ target[c] = "waitUse" => tradeState[s] = "waitPay"
      /\ Moves(target[c]) = Moves(tradeState[s]) + 1
  BY <1>1, AllowedMoves DEF IInv
<1>4. VersionCountsMoves'
  BY <1>1, <1>2, <1>3 DEF IInv, VersionCountsMoves
<1>5. notices[s] = 1 => tradeState[s] = "waitUse"
  BY <1>1, <1>3 DEF IInv, NotifiedOnce
<1>6. NotifiedOnce'
  <2>1. target[c] \in {"cancel", "waitUse"} => notices[s] # 1
    BY <1>1, <1>3, <1>5 DEF Allowed
  <2>. QED
    BY <1>1, <1>2, <1>3, <2>1 DEF IInv, NotifiedOnce, CallTargets, EventTargets
<1>7. ASSUME NEW d \in Callers PROVE InCall(d)' /\ Decided(d)' /\ Telling(d)'
  <2>1. InCall(d)'
    BY <1>1, <1>2 DEF IInv, InCall, CallTargets, EventTargets
  <2>2. Decided(d)'
    <3>. SUFFICES ASSUME step'[d] = "write" PROVE Decided(d)'
      BY DEF Decided
    <3>1. d # c /\ step[d] = "write" /\ subject[d] \in Orders
      BY <1>2 DEF IInv, InCall
    <3>2. CASE subject[d] = s
      BY <1>1, <1>2, <3>1, <3>2 DEF IInv, Decided
    <3>3. CASE subject[d] # s
      BY <1>1, <1>2, <3>1, <3>3 DEF IInv, Decided
    <3>. QED
      BY <3>2, <3>3
  <2>3. Telling(d)'
    <3>. SUFFICES ASSUME step'[d] = "notify" PROVE Telling(d)'
      BY DEF Telling
    <3>1. ASSUME NEW e \in Callers, step[e] = "notify", subject[e] = s
          PROVE  tradeState[s] = "waitUse"
      BY <1>3, <3>1 DEF IInv, Telling
    <3>2. CASE d = c
      <4>1. target[c] = "waitUse" /\ tradeState[s] = "waitPay"
        BY <1>2, <1>3, <3>2
      <4>2. notices[s] = 0
        BY <1>1, <4>1 DEF IInv, NotifiedOnce
      <4>3. \A e \in Callers : step[e] = "notify" => subject[e] # s
        BY <3>1, <4>1
      <4>. QED
        BY <1>1, <1>2, <3>2, <4>1, <4>2, <4>3 DEF Telling
    <3>3. CASE d # c
      <4>1. step[d] = "notify" /\ Telling(d) /\ subject[d] \in Orders
        BY <1>2, <3>3 DEF IInv, InCall
      <4>2. CASE subject[d] = s
        <5>1. tradeState[s] = "waitUse" /\ target[c] = "refund"
          BY <1>1, <3>1, <4>1, <4>2 DEF Allowed, CallTargets, EventTargets
        <5>. QED
          BY <1>1, <1>2, <3>3, <4>1, <4>2, <5>1 DEF Telling
      <4>3. CASE subject[d] # s
        BY <1>1, <1>2, <3>3, <4>1, <4>3 DEF Telling
      <4>. QED
        BY <4>2, <4>3
    <3>. QED
      BY <3>2, <3>3
  <2>. QED
    BY <2>1, <2>2, <2>3
<1>. QED
  BY <1>1, <1>2, <1>4, <1>6, <1>7 DEF IInv

\* A caller that moves to a step before its decision or after its notification
\* keeps what is known of every caller, while the rows stay.
LEMMA CallStep ==
    ASSUME IInv, TypeOK', NEW c \in Callers,
           \A d \in Callers \ {c} : /\ step'[d] = step[d] /\ subject'[d] = subject[d]
                                    /\ target'[d] = target[d] /\ seen'[d] = seen[d],
           step'[c] \in {"idle", "read", "ok", "failed"}, InCall(c)',
           UNCHANGED <<tradeState, version, notices>>
    PROVE  IInv'
<1>1. VersionCountsMoves' /\ NotifiedOnce'
  BY DEF IInv, VersionCountsMoves, NotifiedOnce
<1>2. ASSUME NEW d \in Callers PROVE InCall(d)' /\ Decided(d)' /\ Telling(d)'
  <2>1. CASE d = c
    BY <2>1 DEF Decided, Telling
  <2>2. CASE d # c
    BY <2>2 DEF IInv, InCall, Decided, Telling
  <2>. QED
    BY <2>1, <2>2
<1>. QED
  BY <1>1, <1>2 DEF IInv

\* A new order disturbs no caller: nobody is called with an order that does not exist.
LEMMA CreateStep ==
    ASSUME IInv, TypeOK', NEW o \in Orders, tradeState[o] = "none",
           tradeState' = [tradeState EXCEPT ![o] = "waitPay"],
           UNCHANGED <<version, notices, callVars>>
    PROVE  IInv'
<1>. USE DEF callVars, TypeOK
<1>1. VersionCountsMoves'
  BY DEF IInv, VersionCountsMoves, Moves
<1>2. NotifiedOnce'
  BY DEF IInv, NotifiedOnce
<1>3. ASSUME NEW c \in Callers PROVE InCall(c)' /\ Decided(c)' /\ Telling(c)'
  <2>1. step[c] # "idle" => subject[c] \in Orders /\ subject[c] # o
    BY DEF IInv, InCall
  <2>. QED
    BY <2>1 DEF IInv, InCall, Decided, Telling
<1>. QED
  BY <1>1, <1>2, <1>3 DEF IInv

\* Every caller's program counter is at the start of a call or past its end.
LEMMA CallsStep ==
    ASSUME IInv, TypeOK', NEW c \in Callers,
           \/ Read(c) \/ Conflict(c) \/ CallFails(c) \/ Return(c) \/ Crash(c)
    PROVE  IInv'
<1>. USE DEF TypeOK
<1>1. InCall(c) /\ Decided(c)
  BY DEF IInv
<1>2. CASE Read(c)
  <2>. DEFINE s == subject[c]
  <2>1. /\ s \in Orders /\ InCall(c)' /\ UNCHANGED <<tradeState, version, notices>>
        /\ \A d \in Callers \ {c} : /\ step'[d] = step[d] /\ subject'[d] = subject[d]
                                    /\ target'[d] = target[d] /\ seen'[d] = seen[d]
    BY <1>1, <1>2 DEF Read, Goto, InCall, rowVars, taskVars
  <2>2. CASE step'[c] # "write"
    <3>1. step'[c] \in {"ok", "failed"}
      BY <1>2, <2>2 DEF Read, Goto
    <3>. QED
      BY <2>1, <3>1, CallStep
  <2>3. CASE step'[c] = "write"
    <3>1. Allowed(tradeState[s], target[c]) /\ seen'[c] = version[s] /\ UNCHANGED <<subject, target>>
      BY <1>2, <2>3 DEF Read, Goto
    <3>2. Decided(c)' /\ Telling(c)'
      BY <2>1, <2>3, <3>1 DEF Decided, Telling
    <3>3. ASSUME NEW d \in Callers \ {c} PROVE InCall(d)' /\ Decided(d)' /\ Telling(d)'
      BY <2>1, <2>3 DEF IInv, InCall, Decided, Telling
    <3>4. VersionCountsMoves' /\ NotifiedOnce'
      BY <2>1 DEF IInv, VersionCountsMoves, NotifiedOnce
    <3>. QED
      BY <2>1, <3>2, <3>3, <3>4 DEF IInv
  <2>. QED
    BY <2>2, <2>3
<1>3. CASE Conflict(c) \/ CallFails(c)
  <2>1. step[c] # "idle" /\ step' = [step EXCEPT ![c] = "failed"]
        /\ UNCHANGED <<tradeState, version, notices, subject, target, seen>>
    BY <1>3 DEF Conflict, CallFails, Goto, rowVars, taskVars
  <2>2. InCall(c)'
    BY <1>1, <2>1 DEF InCall
  <2>. QED
    BY <2>1, <2>2, CallStep
<1>4. CASE Return(c) \/ Crash(c)
  <2>1. step' = [step EXCEPT ![c] = "idle"] /\ UNCHANGED <<tradeState, version, notices>>
        /\ \A d \in Callers \ {c} : /\ subject'[d] = subject[d]
                                    /\ target'[d] = target[d] /\ seen'[d] = seen[d]
    BY <1>4 DEF Return, Crash, EndCall, Goto, rowVars, taskVars
  <2>2. InCall(c)'
    BY <2>1 DEF InCall
  <2>. QED
    BY <2>1, <2>2, CallStep
<1>. QED
  BY <1>2, <1>3, <1>4

\* Telling the user once uses up the only notification of the order.
LEMMA NotifyStep == ASSUME IInv, TypeOK', NEW c \in Callers, Notify(c) PROVE IInv'
<1>. DEFINE s == subject[c]
<1>. USE DEF TypeOK
<1>1. InCall(c) /\ Telling(c) /\ step[c] = "notify" /\ s \in Orders
  BY DEF IInv, InCall, Notify
<1>2. /\ step' = [step EXCEPT ![c] = "ok"]
      /\ UNCHANGED <<tradeState, version, subject, target, seen>>
      /\ notices' = [notices EXCEPT ![s] = @ + 1] \/ notices' = notices
  BY DEF Notify, Goto, rowVars
<1>3. VersionCountsMoves'
  BY <1>2 DEF IInv, VersionCountsMoves
<1>4. NotifiedOnce'
  BY <1>1, <1>2 DEF IInv, NotifiedOnce, Telling
<1>5. ASSUME NEW d \in Callers PROVE InCall(d)' /\ Decided(d)' /\ Telling(d)'
  <2>1. CASE d = c
    BY <1>1, <1>2, <2>1 DEF InCall, Decided, Telling
  <2>2. CASE d # c
    <3>1. step[d] = "notify" => subject[d] # s /\ subject[d] \in Orders
      BY <1>1, <2>2 DEF IInv, Telling, InCall
    <3>. QED
      BY <1>1, <1>2, <2>2, <3>1 DEF IInv, InCall, Decided, Telling
  <2>. QED
    BY <2>1, <2>2
<1>. QED
  BY <1>3, <1>4, <1>5 DEF IInv

\* The invariant holds at the start.
LEMMA Invariance_Init == Init => IInv
<1>. SUFFICES ASSUME Init PROVE IInv
  OBVIOUS
<1>1. TypeOK
  BY TypeCorrect_Init
<1>. QED
  BY <1>1 DEF Init, IInv, VersionCountsMoves, NotifiedOnce, Moves, InCall, Decided, Telling

\* Every step keeps the invariant, and moves an order only as the state machine allows.
LEMMA Invariance_Step ==
    IInv /\ [Next]_vars =>
        /\ IInv'
        /\ \A o \in Orders : tradeState[o] # "none" /\ tradeState'[o] # tradeState[o]
                             => Allowed(tradeState[o], tradeState'[o])
<1>. DEFINE Follows == \A o \in Orders : tradeState[o] # "none" /\ tradeState'[o] # tradeState[o]
                                        => Allowed(tradeState[o], tradeState'[o])
<1>. SUFFICES ASSUME IInv, [Next]_vars PROVE IInv' /\ Follows
  OBVIOUS
<1>. USE DEF TypeOK
<1>0. TypeOK'
  BY TypeCorrect_Step DEF IInv
<1>1. CASE UNCHANGED <<tradeState, version, notices, callVars>>
  BY <1>0, <1>1 DEF IInv, VersionCountsMoves, NotifiedOnce, InCall, Decided, Telling, callVars
<1>2. ASSUME NEW o \in Orders, Create(o) \/ CreateUnknown(o) PROVE IInv' /\ Follows
  <2>1. /\ tradeState[o] = "none" /\ tradeState' = [tradeState EXCEPT ![o] = "waitPay"]
        /\ UNCHANGED <<version, notices, callVars>>
    BY <1>2 DEF Create, CreateUnknown
  <2>2. Follows
    BY <2>1 DEF IInv
  <2>. QED
    BY <1>0, <2>1, <2>2, CreateStep
<1>3. ASSUME NEW o \in Orders, ScheduleClose(o) \/ ScheduleFails(o) PROVE IInv' /\ Follows
  BY <1>1, <1>3 DEF ScheduleClose, ScheduleFails, rowVars
<1>4. ASSUME NEW c \in Callers, NEW o \in Orders, NEW new \in CallTargets, BeginCall(c, o, new),
             tradeState[o] # "none", UNCHANGED <<rowVars, notices>>
      PROVE  IInv' /\ Follows
  <2>1. /\ step'[c] = "read" /\ InCall(c)' /\ UNCHANGED <<tradeState, version, notices>>
        /\ \A d \in Callers \ {c} : /\ step'[d] = step[d] /\ subject'[d] = subject[d]
                                    /\ target'[d] = target[d] /\ seen'[d] = seen[d]
    BY <1>4 DEF IInv, BeginCall, Goto, InCall, rowVars
  <2>. QED
    BY <1>0, <2>1, CallStep
<1>5. ASSUME NEW q \in Requests, NEW o \in Orders, Cancel(q, o) PROVE IInv' /\ Follows
  BY <1>4, <1>5 DEF Cancel, Callers, CallTargets, taskVars
<1>6. ASSUME NEW k \in Consumers, NEW o \in Orders, NEW new \in EventTargets, Consume(k, o, new)
      PROVE  IInv' /\ Follows
  BY <1>4, <1>6 DEF Consume, Callers, CallTargets, taskVars
<1>7. ASSUME NEW h \in TaskHandlers, NEW o \in Orders, CloseOrder(h, o) PROVE IInv' /\ Follows
  <2>1. CASE tradeState[o] = "waitPay"
    BY <1>4, <1>7, <2>1 DEF CloseOrder, Callers, CallTargets
  <2>2. CASE tradeState[o] # "waitPay"
    BY <1>1, <1>7, <2>2 DEF CloseOrder, rowVars
  <2>. QED
    BY <2>1, <2>2
<1>8. ASSUME NEW h \in TaskHandlers, NEW o \in Orders, CloseReadFails(h, o) PROVE IInv' /\ Follows
  BY <1>1, <1>8 DEF CloseReadFails, orderVars, rowVars, taskVars
<1>9. ASSUME NEW c \in Callers, Read(c) \/ Conflict(c) \/ CallFails(c) \/ Return(c) \/ Crash(c)
      PROVE  IInv' /\ Follows
  <2>1. UNCHANGED tradeState
    BY <1>9 DEF Read, Conflict, CallFails, Return, Crash, rowVars
  <2>2. IInv'
    BY <1>0, <1>9, CallsStep
  <2>. QED
    BY <2>1, <2>2
<1>10. ASSUME NEW c \in Callers, Write(c) \/ WriteUnknown(c) PROVE IInv' /\ Follows
  <2>1. /\ step[c] = "write" /\ Move(c) /\ UNCHANGED <<taskVars, subject, target, seen>>
        /\ \E label \in {"notify", "ok", "failed"} :
              Goto(c, label) /\ (label = "notify" => target[c] = "waitUse")
    BY <1>10 DEF Write, WriteUnknown
  <2>2. IInv' /\ Allowed(tradeState[subject[c]], tradeState'[subject[c]])
    BY <1>0, <2>1, MoveStep
  <2>3. Follows
    BY <2>1, <2>2 DEF IInv, Move
  <2>. QED
    BY <2>2, <2>3
<1>11. ASSUME NEW c \in Callers, Notify(c) PROVE IInv' /\ Follows
  <2>1. UNCHANGED tradeState
    BY <1>11 DEF Notify, rowVars
  <2>. QED
    BY <1>0, <1>11, <2>1, NotifyStep
<1>12. CASE UNCHANGED vars
  BY <1>1, <1>12 DEF vars, orderVars, rowVars, taskVars
<1>. QED
  BY <1>2, <1>3, <1>5, <1>6, <1>7, <1>8, <1>9, <1>10, <1>11, <1>12 DEF Next, Update, Failure

-----------------------------------------------------------------------------
(* Close tasks. *)

\* A close handler asks for a cancellation, and reports success when somebody has
\* decided the order.
Closes(h) == /\ step[h] # "idle" => target[h] = "cancel"
             /\ step[h] = "ok" => tradeState[subject[h]] # "waitPay"

\* The inductive invariant behind UnpaidIsWatched.
Watched == /\ UnpaidIsWatched /\ IsFiniteSet(Forgotten)
           /\ \A h \in TaskHandlers : Closes(h)

\* What a step does to the close tasks.
LEMMA TaskStep ==
    ASSUME [Next]_vars
    PROVE  \/ closeTask' = closeTask /\ faults' \in {faults, faults + 1}
           \/ \E o \in Orders : /\ tradeState[o] = "none"
                                /\ closeTask' = [closeTask EXCEPT ![o] = "due"]
                                /\ faults' = faults
           \/ \E o \in Orders : /\ closeTask' = [closeTask EXCEPT ![o] = "lost"]
                                /\ faults' = faults + 1
           \/ \E o \in Orders : /\ closeTask' = [closeTask EXCEPT ![o] = "queued"]
                                /\ faults' = faults
           \/ \E o \in Orders : /\ closeTask' = [closeTask EXCEPT ![o] = "done"]
                                /\ tradeState[o] # "waitPay"
                                /\ UNCHANGED <<tradeState, faults>>
           \/ \E h \in TaskHandlers : /\ step[h] = "ok"
                                      /\ closeTask' = [closeTask EXCEPT ![subject[h]] = "done"]
                                      /\ UNCHANGED <<tradeState, faults>>
<1> DEFINE Same == closeTask' = closeTask /\ faults' \in {faults, faults + 1}
<1>. USE DEF taskVars, Fault
<1>1. ASSUME NEW q \in Requests, NEW o \in Orders, Cancel(q, o) PROVE Same
  BY <1>1 DEF Cancel
<1>2. ASSUME NEW h \in TaskHandlers, NEW o \in Orders, CloseReadFails(h, o) PROVE Same
  BY <1>2 DEF CloseReadFails, orderVars
<1>3. ASSUME NEW k \in Consumers, NEW o \in Orders, NEW new \in EventTargets, Consume(k, o, new) PROVE Same
  BY <1>3 DEF Consume
<1>4. ASSUME NEW c \in Callers, Update(c) PROVE Same
  BY <1>4 DEF Update, Read, Write, Conflict, Notify
<1>5. ASSUME NEW c \in Callers, Failure(c) PROVE Same
  BY <1>5 DEF Failure, WriteUnknown, CallFails, Crash
<1>6. CASE UNCHANGED vars
  BY <1>6 DEF vars, orderVars
<1>. QED
  BY <1>1, <1>2, <1>3, <1>4, <1>5, <1>6
     DEF Next, Create, CreateUnknown, ScheduleClose, ScheduleFails, CloseOrder, Return, rowVars

\* What a step does to a close handler.
LEMMA HandlerStep ==
    ASSUME IInv, [Next]_vars, NEW h \in TaskHandlers, Closes(h)
    PROVE  Closes(h)'
<1> DEFINE Kept == step'[h] = step[h] /\ subject'[h] = subject[h] /\ target'[h] = target[h]
<1>. USE DEF IInv, TypeOK, callVars
<1>1. ASSUME NEW o \in Orders, tradeState[o] # "none", tradeState[o] # "waitPay"
      PROVE  tradeState'[o] # "waitPay"
  BY <1>1, Invariance_Step DEF Allowed
<1>2. h \in Callers /\ InCall(h)
  BY DEF Callers
<1>3. CASE Kept
  BY <1>1, <1>2, <1>3 DEF Closes, InCall
<1>4. ASSUME NEW c \in Callers \ {h}, NEW l, Goto(c, l), UNCHANGED <<subject, target>> PROVE Kept
  BY <1>4 DEF Goto
<1>5. ASSUME NEW c \in Callers \ {h}, EndCall(c) PROVE Kept
  BY <1>5 DEF EndCall, Goto
<1>6. ASSUME NEW c \in Callers \ {h}, NEW o, NEW new, BeginCall(c, o, new) PROVE Kept
  BY <1>6 DEF BeginCall, Goto
<1>7. ASSUME NEW o \in Orders, Create(o) \/ CreateUnknown(o) \/ ScheduleClose(o) \/ ScheduleFails(o)
      PROVE  Kept
  BY <1>7 DEF Create, CreateUnknown, ScheduleClose, ScheduleFails
<1>8. ASSUME NEW q \in Requests, NEW o \in Orders, Cancel(q, o) PROVE Kept
  BY <1>6, <1>8, CallersAssumption DEF Cancel, Callers
<1>9. ASSUME NEW k \in Consumers, NEW o \in Orders, NEW new \in EventTargets, Consume(k, o, new) PROVE Kept
  BY <1>6, <1>9, CallersAssumption DEF Consume, Callers
<1>10. ASSUME NEW g \in TaskHandlers, NEW o \in Orders, CloseOrder(g, o) PROVE Closes(h)'
  <2>1. CASE g = h /\ tradeState[o] = "waitPay"
    BY <1>2, <1>10, <2>1 DEF CloseOrder, BeginCall, Goto, Closes
  <2>2. CASE g # h \/ tradeState[o] # "waitPay"
    BY <1>3, <1>6, <1>10, <2>2 DEF CloseOrder, Callers
  <2>. QED
    BY <2>1, <2>2
<1>11. ASSUME NEW g \in TaskHandlers, NEW o \in Orders, CloseReadFails(g, o) PROVE Kept
  BY <1>11 DEF CloseReadFails, orderVars
<1>12. ASSUME NEW c \in Callers \ {h}, Update(c) \/ Return(c) \/ Failure(c) PROVE Kept
  <2>1. CASE Update(c) \/ WriteUnknown(c) \/ CallFails(c)
    <3>1. UNCHANGED <<subject, target>> /\ \E l : Goto(c, l)
      BY <2>1 DEF Update, Read, Write, Conflict, Notify, WriteUnknown, CallFails
    <3>. QED
      BY <1>4, <3>1
  <2>2. CASE Return(c) \/ Crash(c)
    BY <1>5, <2>2 DEF Return, Crash
  <2>. QED
    BY <1>12, <2>1, <2>2 DEF Failure
<1>13. CASE Return(h) \/ Crash(h)
  BY <1>2, <1>13 DEF Return, Crash, EndCall, Goto, Closes
<1>14. CASE CallFails(h) \/ WriteUnknown(h) \/ Conflict(h)
  <2>1. step[h] # "idle" /\ step' = [step EXCEPT ![h] = "failed"] /\ target' = target
    BY <1>14 DEF CallFails, WriteUnknown, Conflict, Goto
  <2>. QED
    BY <1>2, <2>1 DEF Closes
<1>15. CASE Read(h)
  <2>1. /\ step[h] = "read" /\ target[h] = "cancel" /\ UNCHANGED <<tradeState, subject, target>>
        /\ step' = [step EXCEPT ![h] = step'[h]]
        /\ step'[h] = "ok" => tradeState[subject[h]] = "cancel"
    BY <1>2, <1>15 DEF Read, Goto, Closes, rowVars
  <2>. QED
    BY <2>1 DEF Closes
<1>16. CASE Write(h)
  <2>1. /\ step[h] = "write" /\ target[h] = "cancel" /\ UNCHANGED <<subject, target>>
        /\ tradeState' = [tradeState EXCEPT ![subject[h]] = "cancel"] /\ subject[h] \in Orders
    BY <1>2, <1>16 DEF Write, Move, Closes, InCall
  <2>. QED
    BY <2>1 DEF Closes
<1>17. CASE Notify(h)
  <2>1. step[h] = "notify" /\ target[h] = "cancel"
    BY <1>17 DEF Notify, Closes
  <2>2. target[h] = "waitUse"
    BY <1>2, <2>1 DEF Telling
  <2>. QED
    BY <2>1, <2>2
<1>18. CASE UNCHANGED vars
  BY <1>3, <1>18 DEF vars, orderVars
<1>19. ASSUME NEW c \in Callers, Update(c) \/ Return(c) \/ Failure(c) PROVE Closes(h)'
  <2>1. CASE c = h
    BY <1>13, <1>14, <1>15, <1>16, <1>17, <1>19, <2>1 DEF Update, Failure
  <2>2. CASE c # h
    BY <1>3, <1>12, <1>19, <2>2
  <2>. QED
    BY <2>1, <2>2
<1>. QED
  BY <1>3, <1>7, <1>8, <1>9, <1>10, <1>11, <1>18, <1>19 DEF Next

\* Every step keeps orders that wait for their payment watched.
LEMMA WatchedStep == ASSUME IInv, Watched, [Next]_vars PROVE Watched'
<1>. USE DEF IInv, TypeOK
<1>1. \A h \in TaskHandlers : Closes(h)'
  BY HandlerStep DEF Watched
<1>2. /\ IsFiniteSet(Forgotten) /\ Cardinality(Forgotten) \in Nat /\ Cardinality(Forgotten) <= faults
      /\ \A o \in Orders : tradeState[o] = "waitPay" => closeTask[o] # "done"
  BY FS_CardinalityType DEF Watched, UnpaidIsWatched
<1>3. ASSUME NEW o \in Orders, tradeState'[o] = "waitPay" PROVE closeTask[o] # "done"
  <2>1. tradeState[o] \in {"none", "waitPay"}
    BY <1>3, Invariance_Step DEF Allowed
  <2>. QED
    BY <1>2, <2>1
<1>4. ASSUME Forgotten' \subseteq Forgotten, faults' \in {faults, faults + 1},
             \A o \in Orders : tradeState'[o] = "waitPay" => closeTask'[o] # "done"
      PROVE  Watched'
  <2>1. IsFiniteSet(Forgotten') /\ Cardinality(Forgotten') <= Cardinality(Forgotten)
        /\ Cardinality(Forgotten') \in Nat
    BY <1>2, <1>4, FS_Subset, FS_CardinalityType
  <2>2. Cardinality(Forgotten') <= faults'
    BY <1>2, <1>4, <2>1
  <2>. QED
    BY <1>1, <1>4, <2>1, <2>2 DEF Watched, UnpaidIsWatched
<1>5. CASE closeTask' = closeTask /\ faults' \in {faults, faults + 1}
  <2>1. Forgotten' = Forgotten
    BY <1>5 DEF Forgotten
  <2>. QED
    BY <1>3, <1>4, <1>5, <2>1
<1>6. ASSUME NEW o \in Orders, NEW t \in {"due", "queued"},
             closeTask' = [closeTask EXCEPT ![o] = t], faults' = faults
      PROVE  Watched'
  <2>1. Forgotten' \subseteq Forgotten
    BY <1>6 DEF Forgotten
  <2>. QED
    BY <1>3, <1>4, <1>6, <2>1
<1>7. ASSUME NEW o \in Orders, closeTask' = [closeTask EXCEPT ![o] = "lost"], faults' = faults + 1
      PROVE  Watched'
  <2>1. Forgotten' = Forgotten \cup {o}
    BY <1>7 DEF Forgotten
  <2>2. IsFiniteSet(Forgotten') /\ Cardinality(Forgotten') <= faults'
    <3>1. IsFiniteSet(Forgotten') /\ Cardinality(Forgotten') \in {Cardinality(Forgotten), Cardinality(Forgotten) + 1}
      BY <1>2, <2>1, FS_AddElement
    <3>. QED
      BY <1>2, <1>7, <3>1
  <2>3. \A q \in Orders : tradeState'[q] = "waitPay" => closeTask'[q] # "done"
    BY <1>3, <1>7
  <2>. QED
    BY <1>1, <2>2, <2>3 DEF Watched, UnpaidIsWatched
<1>8. ASSUME NEW o \in Orders, closeTask' = [closeTask EXCEPT ![o] = "done"],
             tradeState[o] # "waitPay", UNCHANGED <<tradeState, faults>>
      PROVE  Watched'
  <2>1. Forgotten' \subseteq Forgotten
    BY <1>8 DEF Forgotten
  <2>. QED
    BY <1>3, <1>4, <1>8, <2>1
<1>9. ASSUME NEW h \in TaskHandlers, step[h] = "ok" PROVE subject[h] \in Orders /\ tradeState[subject[h]] # "waitPay"
  BY <1>9 DEF InCall, Callers, Watched, Closes
<1>. QED
  BY <1>5, <1>6, <1>7, <1>8, <1>9, TaskStep

-----------------------------------------------------------------------------
(* The theorems. *)

\* The inductive invariant holds in every state of every execution.
THEOREM Invariance == Spec => []IInv
  BY Invariance_Init, Invariance_Step, PTL DEF Spec

\* Every variable keeps its type, and an order exists exactly when its close task
\* has been thought of (Create).
THEOREM TypeCorrect == Spec => []TypeOK
<1>1. IInv => TypeOK
  BY DEF IInv
<1>. QED
  BY <1>1, Invariance, PTL

\* The version is a faithful witness of the state: it counts the order's moves
\* (UpdateOrderState).
THEOREM VersionsCount == Spec => []VersionCountsMoves
<1>1. IInv => VersionCountsMoves
  BY DEF IInv
<1>. QED
  BY <1>1, Invariance, PTL

\* No number of events, consumers and faults notifies the user twice, or of an
\* order that is not paid (UpdateState).
THEOREM NotifiedAtMostOnce == Spec => []NotifiedOnce
<1>1. IInv => NotifiedOnce
  BY DEF IInv
<1>. QED
  BY <1>1, Invariance, PTL

\* No order waits for a payment without a close task, except for one lost answer, failed
\* enqueue or crash each: a task is dropped only when its order is decided (Create,
\* scheduleClose, closeOrder).
THEOREM UnpaidWatched == Spec => []UnpaidIsWatched
<1>1. Init => Watched
  <2>. SUFFICES ASSUME Init PROVE Watched
    OBVIOUS
  <2>1. Forgotten = {}
    BY DEF Init, Forgotten
  <2>. QED
    BY <2>1, FS_EmptySet DEF Init, Watched, UnpaidIsWatched, Closes, Callers
<1>2. IInv /\ Watched /\ [Next]_vars => Watched'
  BY WatchedStep
<1>3. Watched => UnpaidIsWatched
  BY DEF Watched
<1>. QED
  BY <1>1, <1>2, <1>3, Invariance, PTL DEF Spec

\* However stale the reads of concurrent callers are, an order moves along the
\* state machine only (UpdateState, UpdateOrderState).
THEOREM StateMachineFollowed == Spec => FollowsStateMachine
<1>1. IInv /\ [Next]_vars =>
        [\A o \in Orders : tradeState[o] # "none" /\ tradeState'[o] # tradeState[o]
                          => Allowed(tradeState[o], tradeState'[o])]_vars
  BY Invariance_Step
<1>. QED
  BY <1>1, Invariance, PTL DEF Spec, FollowsStateMachine
=============================================================================
