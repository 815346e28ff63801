------------------------------ MODULE AccountMC ------------------------------
(* Small instances of Account for TLC. *)
EXTENDS Account

CONSTANTS m1, m2, o1, s1, s2, avatar, zero, v1, q1, q2

TwoUsers == 1..2
TwoMobiles == {m1, m2}
OneOpenId == {o1}
TwoSecrets == {s1, s2}
OneField == {avatar}
TwoValues == {zero, v1}
TwoRequests == {q1, q2}

\* One user from before, with a hash of MD5.
OneOld ==
    [u \in TwoUsers |-> IF u = 1 THEN [mobile |-> m1, hash |-> [kind |-> "md5", of |-> s1], 
                                                profile |-> [f \in OneField |-> v1]]
                        ELSE NoUser]
AnyFault == AccountFaultKinds
=============================================================================
