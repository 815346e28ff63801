----------------------------- MODULE TokenBucket -----------------------------
(***************************************************************************)
(* What a rate limiter promises: for each key a bucket that is never       *)
(* forgotten. A request that is let through puts Interval into it, it      *)
(* loses one in each unit of time, and there is room for Burst requests.   *)
(***************************************************************************)
EXTENDS Integers, Sequences

CONSTANTS Keys, Watched, Interval, Burst

VARIABLES
    now,    \* the time
    debt,   \* what is in each bucket
    log     \* history: when requests of the watched key were let through

vars == <<now, debt, log>>

Room == Burst * Interval

Init ==
    /\ now = 0
    /\ debt = [k \in Keys |-> 0]
    /\ log = <<>>

Tick ==
    /\ now' = now + 1
    /\ debt' = [k \in Keys |-> IF debt[k] > 0 THEN debt[k] - 1 ELSE 0]
    /\ UNCHANGED log

Allow(k) ==
    /\ debt[k] + Interval <= Room
    /\ debt' = [debt EXCEPT ![k] = @ + Interval]
    /\ log' = IF k = Watched THEN Append(log, now) ELSE log
    /\ UNCHANGED now

Next == Tick \/ \E k \in Keys : Allow(k)

Spec == Init /\ [][Next]_vars
=============================================================================
