---------------------------- MODULE SearchOutboxMC --------------------------
(* Small instances of SearchOutbox for TLC. *)
EXTENDS SearchOutbox

CONSTANTS h1, p1, p2

OneHomestay == {h1}
OnePublisher == {p1}

AnyFault == SearchFaultKinds

\* For the instance in section 6 of the README in which an older document wins.
TwoPublishers == {p1, p2}
NoFault == {}
=============================================================================
