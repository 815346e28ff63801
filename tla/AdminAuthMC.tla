----------------------------- MODULE AdminAuthMC -----------------------------
(* Small instances of AdminAuth for TLC. *)
EXTENDS AdminAuth, TLC

CONSTANTS a1, a2, super, r1, edit, b1, q1, q2, s1, s2

TwoAdmins == {a1, a2}
TwoRoles == {super, r1}
OnePerm == {edit}
OneHome == {b1}
TwoRequests == {q1, q2}
TwoStarters == {s1, s2}

\* A role that lets edit, and gives one's own business.
OneForm == {[perms |-> {edit}, scope |-> {Own}]}
AnyFault == AdminFaultKinds
=============================================================================
