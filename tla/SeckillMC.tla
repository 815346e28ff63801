------------------------------ MODULE SeckillMC ------------------------------
(* Small instances of Seckill for TLC. *)
EXTENDS Seckill, TLC

CONSTANTS u1, u2, w1, w2, a1

OneApi == {a1}
OneUser == {u1}
TwoUsers == {u1, u2}
TwoWorkers == {w1, w2}

AnyFault == FaultKinds
StoreFaults == {"db", "commit", "crash"}
OnlyLoss == {"loss"}

\* For the instance in section 6 of the README that leaves a reservation pending.
OneWorker == {w1}
RedisFaults == {"redis"}

UserWorkerSymmetry == Permutations({u1, u2}) \cup Permutations({w1, w2})
=============================================================================
