-------------------------- MODULE PaymentOutboxMC --------------------------
(* Small instances of PaymentOutbox for TLC. *)
EXTENDS PaymentOutbox, TLC

CONSTANTS o1, o2, q1, n1, n2, p1, p2

TwoOrders == {o1, o2}
OnePayer == {q1}
TwoNotifiers == {n1, n2}
TwoPublishers == {p1, p2}
AnyFault == PaymentFaultKinds
=============================================================================
