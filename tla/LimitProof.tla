------------------------------ MODULE LimitProof ------------------------------
(***************************************************************************)
(* Proofs about RateLimit, for any keys, requests, rates and times that    *)
(* fit together as IdleAssumption says.                                    *)
(***************************************************************************)
EXTENDS RateLimit, TLAPS

\* Who is in the map was seen, by its own clock, late enough for its limiter to be
\* full before it is forgotten.
SeenLate == \A k \in Keys : visitors[k] # Nobody => full[k] <= visitors[k] + Skew + Room

\* The requests let through since any of them are what the limiter lacks and what it
\* has got back.
Counted ==
    \A i \in 1..Len(log) :
        (Len(log) - i + 1) * Interval <= Lacks(Watched) + (now - log[i])

\* The inductive invariant.
IInv == TypeOK /\ SeenLate /\ MapIsSwept /\ Counted /\ AtMost

-----------------------------------------------------------------------------
\* A limiter has room for one request at least.
LEMMA RoomForOne == Room \in Nat /\ Interval \in Nat /\ Interval > 0 /\ Interval <= Room
<1>1. Interval \in Nat /\ Burst \in Nat /\ Interval > 0 /\ Burst > 0
  BY TimesAssumption
<1>2. Burst * Interval \in Nat /\ Interval <= Burst * Interval
  BY <1>1
<1> QED
  BY <1>1, <1>2 DEF Room

\* What a limiter lacks is a number it can lack.
LEMMA LacksType ==
    ASSUME TypeOK, NEW k \in Keys
    PROVE  Lacks(k) \in 0..Room
  BY RoomForOne DEF TypeOK, Lacks

\* The initial state has the types (Init).
LEMMA TypeCorrect_Init == Init => TypeOK
  BY RoomForOne, KeysAssumption DEF Init, TypeOK

\* The decision of a limiter is about what it lacks, and about the right one: a visitor
\* that is forgotten lacks nothing (Admit).
LEMMA Admit_Lacks ==
    ASSUME TypeOK, SeenLate, NEW q \in Requests, Admit(q)
    PROVE  /\ Before(q) - now = Lacks(key[q]) /\ Before(q) \in Nat
           /\ Allow(q) <=> Lacks(key[q]) + Interval <= Room
           /\ ~Allow(q) => key[q] \in Kept(q)
<1> DEFINE k == key[q]
<1>1. k \in Keys /\ clock[q] \in Nat /\ clock[q] <= now /\ now \in Nat /\ lastCleanup \in Nat
  BY DEF TypeOK, Admit
<1>2. full[k] \in Nat /\ Room \in Nat /\ Skew \in Nat /\ Idle \in Nat /\ Sweep \in Nat
  BY <1>1, RoomForOne, TimesAssumption DEF TypeOK
<1>3. Before(q) - now = Lacks(k) /\ Before(q) \in Nat
  <2>1. Before(q) - now = Lacks(k)
    <3>1. CASE k \in Kept(q)
      <4>1. visitors[k] # Nobody
        BY <3>1 DEF Kept
      <4> QED
        BY <1>1, <1>2, <3>1, <4>1 DEF Before, Lacks
    <3>2. CASE k \notin Kept(q) /\ visitors[k] = Nobody
      BY <1>1, <1>2, <3>2 DEF Before, Lacks
    <3>3. CASE k \notin Kept(q) /\ visitors[k] # Nobody
      <4>1. visitors[k] \in Nat /\ full[k] <= visitors[k] + Skew + Room
        BY <1>1, <3>3 DEF TypeOK, SeenLate
      <4>2. clock[q] - visitors[k] > Idle
        BY <1>1, <1>2, <3>3, <4>1 DEF Kept
      <4>3. full[k] <= now
        BY <1>1, <1>2, <4>1, <4>2, IdleAssumption
      <4> QED
        BY <1>1, <1>2, <3>3, <4>3 DEF Before, Lacks
    <3> QED
      BY <3>1, <3>2, <3>3
  <2>2. Before(q) \in Nat
    BY <1>1, <1>2 DEF Before
  <2> QED
    BY <2>1, <2>2
<1>4. k \notin Kept(q) => Before(q) = now
  BY DEF Before
<1> QED
  BY <1>1, <1>2, <1>3, <1>4, RoomForOne DEF Allow

\* The other limiters lack what they lacked.
LEMMA Admit_Others ==
    ASSUME TypeOK, SeenLate, NEW q \in Requests, Admit(q), NEW k \in Keys, k # key[q]
    PROVE  Lacks(k)' = Lacks(k)
<1>1. now' = now /\ full'[k] = full[k]
  BY DEF Admit, TypeOK
<1>2. visitors'[k] = IF k \in Kept(q) THEN visitors[k] ELSE Nobody
  BY DEF Admit, Clean
<1>3. /\ full[k] \in Nat /\ now \in Nat /\ clock[q] \in Nat /\ clock[q] <= now
      /\ Room \in Nat /\ Skew \in Nat /\ Idle \in Nat
  BY RoomForOne, TimesAssumption DEF TypeOK
<1>4. CASE visitors[k] = Nobody \/ k \in Kept(q)
  BY <1>1, <1>2, <1>4 DEF Lacks, Kept
<1>5. CASE visitors[k] # Nobody /\ k \notin Kept(q)
  <2>1. visitors[k] \in Nat /\ full[k] <= visitors[k] + Skew + Room
    BY <1>5 DEF TypeOK, SeenLate
  <2>2. clock[q] - visitors[k] > Idle
    BY <1>3, <1>5, <2>1 DEF Kept
  <2>3. full[k] <= now
    BY <1>3, <2>1, <2>2, IdleAssumption
  <2> QED
    BY <1>1, <1>2, <1>3, <1>5, <2>3 DEF Lacks
<1> QED
  BY <1>4, <1>5

\* The limiter that is asked lacks one more when it lets the request through.
LEMMA Admit_Asked ==
    ASSUME TypeOK, SeenLate, NEW q \in Requests, Admit(q), NEW k \in Keys, k = key[q]
    PROVE  Lacks(k)' = IF Allow(q) THEN Lacks(k) + Interval ELSE Lacks(k)
<1>1. clock[q] \in Nat /\ now \in Nat /\ full[k] \in Nat /\ Nobody \notin Nat
  BY KeysAssumption DEF TypeOK, Admit
<1>2. visitors'[k] = clock[q] /\ now' = now
  BY <1>1 DEF Admit, Clean
<1>3. Interval \in Nat /\ Interval > 0
  BY RoomForOne
<1>4. CASE Allow(q)
  <2>1. full'[k] = Before(q) + Interval
    BY <1>1, <1>4 DEF Admit, TypeOK
  <2>2. Before(q) - now = Lacks(k) /\ Before(q) \in Nat /\ Lacks(k) \in Nat
    BY <1>1, Admit_Lacks, LacksType, RoomForOne
  <2>3. full'[k] > now
    BY <1>1, <1>3, <2>1, <2>2
  <2>4. Lacks(k)' = full'[k] - now
    BY <1>1, <1>2, <2>3 DEF Lacks
  <2> QED
    BY <1>1, <1>3, <1>4, <2>1, <2>2, <2>4
<1>5. CASE ~Allow(q)
  <2>1. full'[k] = full[k] /\ visitors[k] # Nobody
    BY <1>5, Admit_Lacks DEF Admit, Kept
  <2> QED
    BY <1>1, <1>2, <1>5, <2>1 DEF Lacks
<1> QED
  BY <1>4, <1>5

\* What a limiter lacks goes down by one in a unit of time.
LEMMA Tick_Lacks ==
    ASSUME TypeOK, Tick, NEW k \in Keys
    PROVE  Lacks(k)' = IF Lacks(k) > 0 THEN Lacks(k) - 1 ELSE 0
<1>1. now \in Nat /\ full[k] \in Nat /\ now' = now + 1 /\ full' = full /\ visitors' = visitors
  BY DEF TypeOK, Tick
<1> QED
  BY <1>1 DEF Lacks

-----------------------------------------------------------------------------
(* The steps keep the invariant. *)

\* The limiter that lets a request through has room for it, so it lacks no more than
\* it can hold.
LEMMA TypeCorrect_Step ==
    ASSUME TypeOK, SeenLate, [Next]_vars
    PROVE  TypeOK'
<1> USE RoomForOne, TimesAssumption
<1>1. CASE Tick
  BY <1>1 DEF TypeOK, Tick
<1>2. ASSUME NEW q \in Requests, NEW k \in Keys, Arrive(q, k) PROVE TypeOK'
  BY <1>2 DEF TypeOK, Arrive
<1>3. ASSUME NEW q \in Requests, Admit(q) PROVE TypeOK'
  <2>1. /\ key[q] \in Keys /\ clock[q] \in 0..now /\ now' = now /\ now \in Nat
        /\ lastCleanup \in 0..now
    BY <1>3 DEF TypeOK, Admit
  <2>2. lastCleanup' \in 0..now
    BY <1>3, <2>1 DEF Admit, Clean
  <2>3. /\ visitors' \in [Keys -> Nat \cup {Nobody}]
        /\ \A k \in Keys : visitors'[k] # Nobody => visitors'[k] <= now
    BY <1>3, <2>1 DEF Admit, Clean, TypeOK
  <2>4. full' \in [Keys -> 0..(now + Room)]
    <3>1. CASE Allow(q)
      <4>1. Before(q) + Interval \in 0..(now + Room)
        BY <1>3, <2>1, <3>1, Admit_Lacks DEF Allow
      <4> QED
        BY <1>3, <2>1, <3>1, <4>1 DEF Admit, TypeOK
    <3>2. CASE ~Allow(q)
      BY <1>3, <3>2 DEF Admit, TypeOK
    <3> QED
      BY <3>1, <3>2
  <2>5. /\ key' \in [Requests -> Keys \cup {Nobody}] /\ clock' \in [Requests -> 0..now]
        /\ \A p \in Requests : key'[p] # Nobody => now <= clock'[p] + Skew
    BY <1>3, <2>1 DEF Admit, TypeOK
  <2>6. log' \in Seq(Nat)
    <3>1. log' = Append(log, now) \/ log' = log
      BY <1>3 DEF Admit
    <3>2. log \in Seq(Nat) /\ now \in Nat
      BY DEF TypeOK
    <3> QED
      BY <3>1, <3>2
  <2> QED
    BY <2>1, <2>2, <2>3, <2>4, <2>5, <2>6 DEF TypeOK
<1>4. CASE UNCHANGED vars
  BY <1>4 DEF TypeOK, vars
<1> QED
  BY <1>1, <1>2, <1>3, <1>4 DEF Next

\* A request that looked at the clock earlier may be the later one to have the lock: it
\* counts as seen when it looked, which is not long ago.
LEMMA Seen_Step ==
    ASSUME TypeOK, SeenLate, MapIsSwept, [Next]_vars
    PROVE  SeenLate' /\ MapIsSwept'
<1>1. CASE Tick \/ UNCHANGED vars \/ \E q \in Requests, k \in Keys : Arrive(q, k)
  BY <1>1 DEF SeenLate, MapIsSwept, Tick, Arrive, vars
<1>2. ASSUME NEW q \in Requests, Admit(q) PROVE SeenLate' /\ MapIsSwept'
  <2>1. TypeOK'
    BY TypeCorrect_Step
  <2>2. /\ key[q] \in Keys /\ clock[q] \in 0..now /\ now' = now /\ now \in Nat
        /\ lastCleanup \in 0..now /\ now <= clock[q] + Skew
    BY <1>2 DEF TypeOK, Admit
  <2>3. Room \in Nat /\ Skew \in Nat /\ Idle \in Nat /\ Sweep \in Nat /\ Skew <= Idle
    BY RoomForOne, TimesAssumption, IdleAssumption
  <2> SUFFICES ASSUME NEW k \in Keys, visitors'[k] # Nobody
               PROVE  /\ full'[k] <= visitors'[k] + Skew + Room
                      /\ lastCleanup' - visitors'[k] <= Idle
    BY DEF SeenLate, MapIsSwept
  <2>4. CASE k = key[q]
    <3>1. visitors'[k] = clock[q] /\ full'[k] \in 0..(now + Room)
      BY <1>2, <2>1, <2>2, <2>4 DEF Admit, Clean, TypeOK
    <3>2. lastCleanup' \in 0..now
      BY <2>1, <2>2 DEF TypeOK
    <3> QED
      BY <2>2, <2>3, <3>1, <3>2
  <2>5. CASE k # key[q]
    <3>1. k \in Kept(q) /\ visitors'[k] = visitors[k] /\ full'[k] = full[k]
      BY <1>2, <2>5 DEF Admit, Clean, TypeOK
    <3>2. visitors[k] \in Nat /\ full[k] <= visitors[k] + Skew + Room
      BY <3>1 DEF Kept, TypeOK, SeenLate
    <3>3. lastCleanup - visitors[k] <= Idle
      BY <3>1 DEF Kept, MapIsSwept
    <3>4. CASE clock[q] - lastCleanup > Sweep
      BY <1>2, <2>2, <3>1, <3>2, <3>4 DEF Admit, Clean, Kept
    <3>5. CASE ~(clock[q] - lastCleanup > Sweep)
      BY <1>2, <3>1, <3>2, <3>3, <3>5 DEF Admit, Clean
    <3> QED
      BY <3>4, <3>5
  <2> QED
    BY <2>4, <2>5
<1> QED
  BY <1>1, <1>2 DEF Next

\* The requests that were let through are counted right, and so they are few.
LEMMA Counted_Step ==
    ASSUME TypeOK, SeenLate, Counted, AtMost, [Next]_vars
    PROVE  Counted' /\ AtMost'
<1> DEFINE n == Len(log)
<1>0. /\ log \in Seq(Nat) /\ n \in Nat /\ now \in Nat /\ Interval \in Nat /\ Burst \in Nat
      /\ Lacks(Watched) \in Nat /\ Watched \in Keys /\ \A i \in 1..n : log[i] \in Nat
  BY LacksType, RoomForOne, TimesAssumption, KeysAssumption DEF TypeOK
<1>1. ASSUME log' = log, Lacks(Watched)' \in Nat,
             Lacks(Watched)' + now' >= Lacks(Watched) + now, now' \in Nat
      PROVE  Counted' /\ AtMost'
  <2>1. Counted'
    <3> SUFFICES ASSUME NEW i \in 1..n
                 PROVE  (n - i + 1) * Interval <= Lacks(Watched)' + (now' - log[i])
      BY <1>1 DEF Counted
    <3>1. (n - i + 1) * Interval <= Lacks(Watched) + (now - log[i])
      BY DEF Counted
    <3>2. (n - i + 1) * Interval \in Int /\ log[i] \in Nat
      BY <1>0
    <3>3. ASSUME NEW x \in Int, NEW l \in Nat, x <= Lacks(Watched) + (now - l)
          PROVE  x <= Lacks(Watched)' + (now' - l)
      BY <1>0, <1>1, <3>3
    <3> QED
      BY <3>1, <3>2, <3>3
  <2> QED
    BY <1>1, <2>1 DEF AtMost
<1>2. CASE Tick
  <2>1. Lacks(Watched)' = IF Lacks(Watched) > 0 THEN Lacks(Watched) - 1 ELSE 0
    BY <1>0, <1>2, Tick_Lacks
  <2> QED
    BY <1>0, <1>1, <1>2, <2>1 DEF Tick
<1>3. CASE UNCHANGED vars \/ \E q \in Requests, k \in Keys : Arrive(q, k)
  BY <1>0, <1>1, <1>3 DEF Arrive, vars, Lacks
<1>4. ASSUME NEW q \in Requests, Admit(q) PROVE Counted' /\ AtMost'
  <2>1. CASE key[q] # Watched
    <3>1. log' = log /\ now' = now
      BY <1>4, <2>1 DEF Admit
    <3>2. Lacks(Watched)' = Lacks(Watched)
      BY <1>0, <1>4, <2>1, Admit_Others
    <3> QED
      BY <1>0, <1>1, <3>1, <3>2
  <2>2. CASE key[q] = Watched /\ ~Allow(q)
    <3>1. log' = log /\ now' = now
      BY <1>4, <2>2 DEF Admit
    <3>2. Lacks(Watched)' = Lacks(Watched)
      BY <1>0, <1>4, <2>2, Admit_Asked
    <3> QED
      BY <1>0, <1>1, <3>1, <3>2
  <2>3. CASE key[q] = Watched /\ Allow(q)
    <3>1. log' = Append(log, now) /\ now' = now /\ Lacks(Watched)' = Lacks(Watched) + Interval
      <4>1. log' = Append(log, now) /\ now' = now
        BY <1>4, <2>3 DEF Admit
      <4> QED
        BY <1>0, <1>4, <2>3, <4>1, Admit_Asked
    <3>2. Lacks(Watched) + Interval <= Room
      BY <1>4, <2>3, Admit_Lacks
    <3>3. /\ Len(log') = n + 1 /\ log'[n + 1] = now /\ \A i \in 1..n : log'[i] = log[i]
      BY <1>0, <3>1
    <3> HIDE DEF n
    <3>4. ASSUME NEW i \in 1..(n + 1)
          PROVE  (n + 1 - i + 1) * Interval <= Lacks(Watched) + Interval + (now - log'[i])
      <4>1. CASE i = n + 1
        BY <1>0, <3>3, <4>1
      <4>2. CASE i \in 1..n
        <5>1. (n - i + 1) * Interval <= Lacks(Watched) + (now - log[i])
          BY <4>2 DEF Counted, n
        <5>2. (n + 1 - i + 1) * Interval = (n - i + 1) * Interval + Interval
          BY <1>0, <4>2
        <5>3. (n - i + 1) * Interval \in Int /\ log'[i] = log[i] /\ log[i] \in Nat
          BY <1>0, <3>3, <4>2
        <5> QED
          BY <1>0, <5>1, <5>2, <5>3
      <4> QED
        BY <1>0, <4>1, <4>2
    <3>5. Counted'
      BY <1>0, <3>1, <3>3, <3>4 DEF Counted
    <3>6. AtMost'
      <4> SUFFICES ASSUME NEW j \in 1..(n + 1), NEW i \in 1..j
                   PROVE  (j - i + 1 - Burst) * Interval <= log'[j] - log'[i]
        BY <3>3 DEF AtMost
      <4>1. CASE j \in 1..n
        <5>1. i \in 1..n /\ log'[j] = log[j] /\ log'[i] = log[i]
          BY <1>0, <3>3, <4>1
        <5> QED
          BY <4>1, <5>1 DEF AtMost, n
      <4>2. CASE j = n + 1
        <5>1. (n + 1 - i + 1) * Interval <= Burst * Interval + (now - log'[i])
          <6>1. Burst * Interval \in Int /\ (n + 1 - i + 1) * Interval \in Int /\ log'[i] \in Nat
            BY <1>0, <3>3, <4>2
          <6> QED
            BY <1>0, <3>2, <3>4, <4>2, <6>1 DEF Room
        <5>2. (n + 1 - i + 1 - Burst) * Interval = (n + 1 - i + 1) * Interval - Burst * Interval
          BY <1>0, <4>2
        <5>3. (n + 1 - i + 1) * Interval \in Int /\ Burst * Interval \in Int /\ log'[i] \in Nat
          BY <1>0, <3>3, <4>2
        <5> QED
          BY <1>0, <3>3, <4>2, <5>1, <5>2, <5>3
      <4> QED
        BY <1>0, <4>1, <4>2
    <3> QED
      BY <3>5, <3>6
  <2> QED
    BY <2>1, <2>2, <2>3
<1> QED
  BY <1>2, <1>3, <1>4 DEF Next

\* The initial state (Init).
LEMMA Inv_Init == Init => IInv
<1> SUFFICES ASSUME Init PROVE IInv
  OBVIOUS
<1>1. TypeOK
  BY TypeCorrect_Init
<1>2. log = <<>> /\ Len(log) = 0
  BY DEF Init
<1>3. SeenLate /\ MapIsSwept
  BY DEF Init, SeenLate, MapIsSwept
<1>4. Counted /\ AtMost
  BY <1>2 DEF Counted, AtMost
<1> QED
  BY <1>1, <1>3, <1>4 DEF IInv

\* The inductive invariant holds (RateLimit).
THEOREM Invariance == Spec => []IInv
<1>1. IInv /\ [Next]_vars => IInv'
  BY TypeCorrect_Step, Seen_Step, Counted_Step DEF IInv
<1> QED
  BY <1>1, Inv_Init, PTL DEF Spec

\* Types, and no limiter lacks more than it can hold (Limiter.Allow).
THEOREM TypeCorrect == Spec => []TypeOK
<1>1. IInv => TypeOK
  BY DEF IInv
<1> QED
  BY <1>1, Invariance, PTL

\* Visitors that have gone leave the map, whatever the order of the clocks and the
\* lock (LoginRateLimit).
THEOREM Swept == Spec => []MapIsSwept
<1>1. IInv => MapIsSwept
  BY DEF IInv
<1> QED
  BY <1>1, Invariance, PTL

\* Of any n consecutive requests let through, the last came n - Burst intervals
\* after the first at least (LoginRateLimit, AgentRateLimit).
THEOREM FewAreLetThrough == Spec => []AtMost
<1>1. IInv => AtMost
  BY DEF IInv
<1> QED
  BY <1>1, Invariance, PTL

\* The map with its cleanup implements a bucket for each key that is never forgotten
\* (LoginRateLimit, TokenBucket).
THEOREM Implements == Spec => NeverForgets
<1>1. Init => Ideal!Init
  BY KeysAssumption DEF Init, Ideal!Init, Lacks
<1>2. ASSUME IInv, [Next]_vars PROVE [Ideal!Next]_(Ideal!vars)
  <2> DEFINE debt == [k \in Keys |-> Lacks(k)]
  <2>0. TypeOK /\ SeenLate /\ now \in Nat /\ \A k \in Keys : Lacks(k) \in Nat
    BY <1>2, LacksType, RoomForOne DEF IInv, TypeOK
  <2>1. CASE Tick
    <3>1. debt' = [k \in Keys |-> IF debt[k] > 0 THEN debt[k] - 1 ELSE 0]
      BY <2>0, <2>1, Tick_Lacks
    <3> QED
      BY <2>1, <3>1 DEF Tick, Ideal!Next, Ideal!Tick
  <2>2. CASE UNCHANGED vars \/ \E q \in Requests, k \in Keys : Arrive(q, k)
    BY <2>2 DEF Arrive, vars, Lacks, Ideal!vars
  <2>3. ASSUME NEW q \in Requests, Admit(q) PROVE [Ideal!Next]_(Ideal!vars)
    <3>1. key[q] \in Keys
      BY <2>0, <2>3 DEF Admit, TypeOK
    <3>2. CASE Allow(q)
      <4>1. debt[key[q]] + Interval <= Ideal!Room
        BY <2>0, <2>3, <3>1, <3>2, Admit_Lacks DEF Room, Ideal!Room
      <4>2. debt' = [debt EXCEPT ![key[q]] = @ + Interval]
        BY <2>0, <2>3, <3>1, <3>2, Admit_Others, Admit_Asked
      <4>3. log' = (IF key[q] = Watched THEN Append(log, now) ELSE log) /\ now' = now
        BY <2>3, <3>2 DEF Admit
      <4>4. Ideal!Allow(key[q])
        BY <4>1, <4>2, <4>3 DEF Ideal!Allow
      <4> QED
        BY <3>1, <4>4 DEF Ideal!Next
    <3>3. CASE ~Allow(q)
      <4>1. debt' = debt
        BY <2>0, <2>3, <3>1, <3>3, Admit_Others, Admit_Asked
      <4> QED
        BY <2>3, <3>3, <4>1 DEF Admit, Ideal!vars
    <3> QED
      BY <3>2, <3>3
  <2> QED
    BY <1>2, <2>1, <2>2, <2>3 DEF Next
<1> QED
  BY <1>1, <1>2, Invariance, PTL DEF Spec, NeverForgets, Ideal!Spec
=============================================================================
