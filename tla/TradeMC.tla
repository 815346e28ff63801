------------------------------ MODULE TradeMC ------------------------------
(* Small instances of Trade for TLC. *)
EXTENDS Trade, TLC

CONSTANTS o1, o2, r1, h1, q1, n1, n2, p1, k1, k2

OneOrder == {o1}
TwoOrders == {o1, o2}
NoCaller == {}
OneRequest == {r1}
OneHandler == {h1}
OnePayer == {q1}
OneNotifier == {n1}
OnePublisher == {p1}
OneConsumer == {k1}
TwoConsumers == {k1, k2}

AnyFault == {"db", "commit", "queue", "crash", "payment db", "kafka", "wechat", "rebalance"}
GroupFaults == {"rebalance", "kafka", "crash"}
NoFault == {}

\* For the instance in section 6 of the README that passes over an event.
DatabaseFailure == {"db"}

ConsumerSymmetry == Permutations({k1, k2})
=============================================================================
