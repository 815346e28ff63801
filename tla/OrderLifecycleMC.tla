-------------------------- MODULE OrderLifecycleMC --------------------------
(* Small instances of OrderLifecycle for TLC. *)
EXTENDS OrderLifecycle, TLC

CONSTANTS o1, q1, h1, h2, k1, k2

OneOrder == {o1}
OneRequest == {q1}
TwoHandlers == {h1, h2}
TwoConsumers == {k1, k2}
AnyFault == OrderFaultKinds
=============================================================================
