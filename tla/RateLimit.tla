------------------------------ MODULE RateLimit ------------------------------
(***************************************************************************)
(* LoginRateLimit and AgentRateLimit: a map from keys (address and mobile, *)
(* or user) to limiters, one for each process, which forgets the ones that *)
(* were not seen for some time. The request looks at the clock first; then *)
(* the login reads its body, for as long as the server lets it, and waits  *)
(* for the lock. TokenBucket says what the two of them promise.            *)
(***************************************************************************)
EXTENDS Integers, Sequences

CONSTANTS
    Keys,       \* what requests are counted by
    Requests,   \* requests in progress at a time
    Interval,   \* time for one token: 12 or 20 seconds
    Burst,      \* tokens a limiter can hold: 5 or 3
    Idle,       \* age at which a visitor is forgotten: ten minutes
    Sweep,      \* time between two cleanups: a minute
    Skew,       \* from the clock to the lock: the 15 seconds of ReadTimeout, or none
    Watched,    \* the key whose requests are counted; any key may be it
    Nobody,     \* no visitor, no key
    MaxTime     \* bound: the time

Room == Burst * Interval

ASSUME TimesAssumption ==
    /\ Interval \in Nat \ {0} /\ Burst \in Nat \ {0} /\ Idle \in Nat /\ Sweep \in Nat
    /\ Skew \in Nat /\ MaxTime \in Nat

\* A limiter is full again, and the late clock of its last request does not count,
\* before it is forgotten.
ASSUME IdleAssumption == Room + Skew <= Idle

ASSUME KeysAssumption == Nobody \notin Keys \cup Nat /\ Watched \in Keys

VARIABLES
    now,          \* the time
    visitors,     \* for each key, when it was last seen, or Nobody
    full,         \* when its limiter will be full, if nothing more is taken
    lastCleanup,  \* when the map was last cleaned
    key,          \* the key of each request, Nobody when there is none
    clock,        \* what the request saw on the clock
    log           \* history: when requests of the watched key were let through

vars == <<now, visitors, full, lastCleanup, key, clock, log>>

-----------------------------------------------------------------------------
(* Helpers. An operator whose name ends in _Bug is a mutated form of the one     *)
(* after it, with a plausible mistake: a property must fail when it takes over.   *)

\* What a limiter lacks.
Lacks(k) == IF visitors[k] # Nobody /\ full[k] > now THEN full[k] - now ELSE 0

Init ==
    /\ now = 0 /\ lastCleanup = 0
    /\ visitors = [k \in Keys |-> Nobody] /\ full = [k \in Keys |-> 0]
    /\ key = [q \in Requests |-> Nobody] /\ clock = [q \in Requests |-> 0]
    /\ log = <<>>

-----------------------------------------------------------------------------
\* Nobody waits for the lock longer than Skew.
Tick ==
    /\ now < MaxTime
    /\ \A q \in Requests : key[q] # Nobody => now < clock[q] + Skew
    /\ now' = now + 1
    /\ UNCHANGED <<visitors, full, lastCleanup, key, clock, log>>

\* A request looks at the clock, and finds its key in the body and the address.
Arrive(q, k) ==
    /\ key[q] = Nobody
    /\ key' = [key EXCEPT ![q] = k] /\ clock' = [clock EXCEPT ![q] = now]
    /\ UNCHANGED <<now, visitors, full, lastCleanup, log>>

\* Mutant: every visitor is forgotten.
Kept_Bug(q) == {k \in Keys : visitors[k] # Nobody /\ clock[q] - lastCleanup <= Sweep}

\* The visitors that stay in the map when a request has cleaned it, if it is time to.
Kept(q) ==
    {k \in Keys : visitors[k] # Nobody
                  /\ (clock[q] - lastCleanup > Sweep => clock[q] - visitors[k] <= Idle)}

\* Mutant: the time of the cleanup is noted and nothing is forgotten.
Clean_Bug(q) ==
    /\ lastCleanup' = IF clock[q] - lastCleanup > Sweep THEN clock[q] ELSE lastCleanup
    /\ visitors' = [visitors EXCEPT ![key[q]] = clock[q]]

\* The map after a request, which counts as seen when it saw the clock.
Clean(q) ==
    /\ lastCleanup' = IF clock[q] - lastCleanup > Sweep THEN clock[q] ELSE lastCleanup
    /\ visitors' = [k \in Keys |-> IF k = key[q] THEN clock[q]
                                   ELSE IF k \in Kept(q) THEN visitors[k] ELSE Nobody]

\* Mutant: the limiter that has been made is not the one that is asked.
Before_Bug(q) == now

\* When the limiter of a request would be full: a new one is.
Before(q) ==
    IF key[q] \in Kept(q) /\ full[key[q]] > now THEN full[key[q]] ELSE now

\* Mutant: one token too many.
Allow_Bug(q) == Before(q) - now <= Room

\* Limiter.Allow, with the time it is then.
Allow(q) == Before(q) - now + Interval <= Room

\* Under the lock: the map is cleaned, the limiter found or made, and asked.
Admit(q) ==
    /\ key[q] # Nobody
    /\ Clean(q)
    /\ IF Allow(q)
       THEN /\ full' = [full EXCEPT ![key[q]] = Before(q) + Interval]
            /\ log' = IF key[q] = Watched THEN Append(log, now) ELSE log
       ELSE UNCHANGED <<full, log>>
    /\ key' = [key EXCEPT ![q] = Nobody] /\ clock' = [clock EXCEPT ![q] = 0]
    /\ UNCHANGED now

-----------------------------------------------------------------------------
Next ==
    \/ Tick
    \/ \E q \in Requests : Admit(q) \/ \E k \in Keys : Arrive(q, k)

Spec == Init /\ [][Next]_vars

-----------------------------------------------------------------------------
(* Properties. *)

\* Types; no limiter lacks more than it can hold, and nothing was seen in the future
\* (Limiter.Allow, LoginRateLimit).
TypeOK ==
    /\ now \in Nat /\ lastCleanup \in 0..now
    /\ visitors \in [Keys -> Nat \cup {Nobody}]
    /\ \A k \in Keys : visitors[k] # Nobody => visitors[k] <= now
    /\ full \in [Keys -> 0..(now + Room)]
    /\ key \in [Requests -> Keys \cup {Nobody}]
    /\ clock \in [Requests -> 0..now]
    /\ \A q \in Requests : key[q] # Nobody => now <= clock[q] + Skew
    /\ log \in Seq(Nat)

\* The map does not fill up with visitors that have gone: whoever is in it was seen
\* within Idle of the last cleanup, whatever the order in which the requests that
\* looked at the clock get the lock (LoginRateLimit).
MapIsSwept == \A k \in Keys : visitors[k] # Nobody => lastCleanup - visitors[k] <= Idle

\* Of any n consecutive requests that were let through, the last came at least
\* n - Burst intervals after the first (LoginRateLimit, AgentRateLimit).
AtMost ==
    \A j \in 1..Len(log) : \A i \in 1..j :
        (j - i + 1 - Burst) * Interval <= log[j] - log[i]

\* Forgetting a visitor gives it no token it would not have: the map is as good as a
\* bucket for each key that is never forgotten.
Ideal == INSTANCE TokenBucket WITH debt <- [k \in Keys |-> Lacks(k)]
NeverForgets == Ideal!Spec
=============================================================================
