---------------------------- MODULE AccountProof ----------------------------
(***************************************************************************)
(* Proofs about Account, for any users, requests and faults: the types,    *)
(* one account for each mobile and key, and passwords that no update of a  *)
(* profile can touch. The invariant says who shares an object with whom,   *)
(* and what each place of a request needs to be there.                     *)
(***************************************************************************)
EXTENDS Account, TLAPS

Reads == {"select", "store", "wait", "change", "update"}
Signs == {"mobile", "create", "upgrade"}

\* Sharing an object is an equivalence, and is about one user.
Sharing ==
    \A p, q \in Requests : p \in mates[q] => q \in mates[p] /\ mates[p] = mates[q] /\ user[p] = user[q]

\* A registration with a password is by its mobile.
ByItsMobile(f) == f.secret # Nothing => f.type = "system" /\ f.key = f.mobile

\* What a request has where it is. Who shares the object of a flight waits for it.
Places(q) ==
    /\ at[q] \in Reads => q \in mates[q]
    /\ at[q] \notin Reads => mates[q] = {}
    /\ at[q] \in Signs => form[q] \in Forms
    /\ at[q] \in {"mobile", "create"} => ByItsMobile(form[q])
    /\ at[q] \in {"store", "change", "update"} => \A p \in mates[q] : held[p] \in Objects
    /\ at[q] \in {"select", "store"} => \A p \in mates[q] : p = q \/ at[p] = "wait"
    /\ at[q] = "change" => wish[q] \in Wishes
    /\ at[q] = "wait" => \E l \in mates[q] : at[l] \in {"select", "store"} /\ user[l] = user[q]

Flow ==
    /\ at \in [Requests -> {"idle"} \cup Signs \cup Reads]
    /\ form \in [Requests -> Forms \cup {Nothing}]
    /\ user \in [Requests -> Ids \cup {Nothing}]
    /\ wish \in [Requests -> Wishes \cup {Nothing}]
    /\ mates \in [Requests -> SUBSET Requests]
    /\ held \in [Requests -> Objects \cup {Nothing}]
    /\ Sharing
    /\ \A q \in Requests : Places(q)

\* The user of a request is there; one whose hash is being replaced gave the password.
Known(q) ==
    /\ at[q] \in Reads \cup {"upgrade"} => user[q] \in Present
    /\ at[q] = "upgrade" =>
          /\ users[user[q]].hash \in Hashes /\ users[user[q]].hash.of = form[q].secret
          /\ users[user[q]].mobile = form[q].mobile

\* Whoever has a password signs in with the mobile.
WithMobile ==
    \A u \in Present : users[u].hash # Nothing
                       => [user |-> u, type |-> "system", key |-> users[u].mobile] \in auths

Data ==
    /\ users \in [Ids -> UserRows \cup {NoUser}]
    /\ auths \subseteq AuthRows
    /\ cached \in [Ids -> Profiles \cup {Nothing}]
    /\ changes \in Nat /\ faults \in Nat
    /\ OneAccount /\ WithMobile

IInv == Flow /\ Data /\ \A q \in Requests : Known(q)

-----------------------------------------------------------------------------
LEMMA Inv_Types == IInv => TypeOK /\ OneAccount
  BY DEF IInv, Flow, Data, OneAccount, TypeOK, Places, Signs, Reads

LEMMA Inv_Init == Init => IInv
<1> SUFFICES ASSUME Init PROVE IInv
  OBVIOUS
<1> USE DEF Init
<1>1. Flow
  BY DEF Flow, Sharing, Places, Signs, Reads
<1>2. \A u \in Present : Old[u] \in UserRows /\ Old[u].mobile \in Mobiles
  BY OldAssumption DEF Present, UserRows
<1>3. Present = {v \in Ids : Old[v] # NoUser}
  BY DEF Present
<1>4. auths \subseteq AuthRows
  BY <1>2, <1>3 DEF AuthRows
<1>5. OneAccount
  <2>1. \A u, v \in Present : users[u].mobile = users[v].mobile => u = v
    BY <1>3, OldAssumption
  <2>2. \A r \in auths : /\ r.user \in Present /\ r.type = "system"
                         /\ r.key = Old[r.user].mobile
                         /\ r = [user |-> r.user, type |-> "system", key |-> Old[r.user].mobile]
    BY <1>3
  <2>3. \A r, s \in auths : r.user = s.user \/ (r.type = s.type /\ r.key = s.key) => r = s
    BY <2>1, <2>2
  <2>4. {r.user : r \in auths} = Present
    <3>1. ASSUME NEW u \in Present PROVE \E r \in auths : r.user = u
      <4> DEFINE r == [user |-> u, type |-> "system", key |-> Old[u].mobile]
      <4>1. r \in auths
        BY <1>3
      <4>2. r.user = u
        OBVIOUS
      <4> QED
        BY <4>1, <4>2
    <3> QED
      BY <2>2, <3>1
  <2> QED
    BY <2>1, <2>3, <2>4 DEF OneAccount
<1>6. WithMobile
  BY <1>3 DEF WithMobile
<1>7. Data
  BY <1>4, <1>5, <1>6, OldAssumption DEF Data
<1> QED
  BY <1>1, <1>7 DEF IInv, Known, Reads

-----------------------------------------------------------------------------
\* Requests that end leave the others what they need, when nobody waits for them.
LEMMA End_Flow ==
    ASSUME Flow, NEW Q \in SUBSET Requests, End(Q),
           \A l \in Q : at[l] \in {"select", "store"} => mates[l] \subseteq Q
    PROVE  Flow'
<1> USE DEF End
<1>1. Sharing'
  BY DEF Flow, Sharing
<1>2. ASSUME NEW q \in Requests PROVE Places(q)'
  <2>1. CASE q \in Q
    BY <2>1 DEF Flow, Places, Reads, Signs
  <2>2. CASE q \notin Q
    <3>1. Places(q) /\ at'[q] = at[q] /\ mates'[q] = mates[q] \ Q /\ form'[q] = form[q]
          /\ wish'[q] = wish[q] /\ user'[q] = user[q]
      BY <2>2 DEF Flow
    <3>2. \A p \in mates'[q] : p \in Requests /\ at'[p] = at[p] /\ held'[p] = held[p]
                               /\ user'[p] = user[p]
      BY <3>1, <2>2 DEF Flow
    <3>3. at[q] = "wait" => \E l \in mates'[q] : at'[l] \in {"select", "store"} /\ user'[l] = user'[q]
      <4> SUFFICES ASSUME at[q] = "wait"
                   PROVE  \E l \in mates'[q] : at'[l] \in {"select", "store"} /\ user'[l] = user'[q]
        OBVIOUS
      <4>1. PICK l \in mates[q] : at[l] \in {"select", "store"} /\ user[l] = user[q]
        BY <3>1 DEF Places
      <4>2. l \in Requests /\ q \in mates[l]
        BY <4>1 DEF Flow, Sharing
      <4>3. l \notin Q
        BY <4>1, <4>2, <2>2
      <4> QED
        BY <4>1, <4>3, <3>1, <3>2
    <3> QED
      BY <3>1, <3>2, <3>3, <2>2 DEF Places, ByItsMobile
  <2> QED
    BY <2>1, <2>2
<1> QED
  BY <1>1, <1>2 DEF Flow

LEMMA End_Known ==
    ASSUME Flow, NEW Q \in SUBSET Requests, End(Q), NEW q \in Requests, Known(q), UNCHANGED users
    PROVE  Known(q)'
  BY DEF End, Flow, Known, Present, Reads

\* Rows that stay are good rows.
LEMMA Same_Data ==
    ASSUME Data, UNCHANGED <<users, auths, cached>>, tokens' \subseteq auths,
           changes' \in Nat, faults' \in Nat
    PROVE  Data'
  BY DEF Data, OneAccount, WithMobile, Present

LEMMA Fault_Nat == ASSUME NEW k, faults \in Nat, Fault(k) \/ UNCHANGED faults PROVE faults' \in Nat
  BY DEF Fault

-----------------------------------------------------------------------------
(* Registration and login. *)

\* A request without an object goes to a place of signing in, with its form.
LEMMA Sign_Flow ==
    ASSUME Flow, NEW q \in Requests, at[q] \notin Reads, NEW place \in Signs, Go(q, place),
           form' \in [Requests -> Forms \cup {Nothing}], form'[q] \in Forms, ByItsMobile(form'[q]),
           \A p \in Requests \ {q} : form'[p] = form[p],
           user' \in [Requests -> Ids \cup {Nothing}],
           \A p \in Requests \ {q} : user'[p] = user[p],
           KeepObjects
    PROVE  Flow'
<1> USE DEF Go, KeepObjects
<1>1. mates[q] = {} /\ \A p \in Requests : q \notin mates[p]
  BY DEF Flow, Sharing, Places
<1>2. Sharing'
  BY <1>1 DEF Flow, Sharing
<1>3. ASSUME NEW p \in Requests PROVE Places(p)'
  <2>1. CASE p = q
    BY <2>1, <1>1 DEF Flow, Places, Signs, Reads, ByItsMobile
  <2>2. CASE p # q
    <3>1. Places(p)
      BY DEF Flow
    <3>2. \A l \in mates[p] : l # q /\ l \in Requests
      BY <1>1 DEF Flow
    <3> QED
      BY <2>2, <3>1, <3>2 DEF Flow, Places, ByItsMobile
  <2> QED
    BY <2>1, <2>2
<1> QED
  BY <1>2, <1>3 DEF Flow

LEMMA Register_Inv ==
    ASSUME IInv, NEW q \in Requests, NEW f \in Forms, ByItsMobile(f), at[q] \in {"idle", "mobile"},
           Register(q, f)
    PROVE  IInv'
<1> USE DEF Register
<1>1. Flow'
  <2>1. "create" \in Signs /\ at[q] \notin Reads
    BY DEF Signs, Reads
  <2>2. /\ form' \in [Requests -> Forms \cup {Nothing}] /\ form'[q] = f
        /\ \A p \in Requests \ {q} : form'[p] = form[p]
    BY DEF IInv, Flow
  <2>3. Flow /\ Go(q, "create") /\ KeepObjects /\ UNCHANGED user
    BY DEF IInv
  <2>4. user' \in [Requests -> Ids \cup {Nothing}]
    BY <2>3 DEF Flow
  <2> QED
    BY <2>1, <2>2, <2>3, <2>4, Sign_Flow
<1>2. Data'
  BY Same_Data DEF IInv, Data, KeepData, KeepRows, OneAccount
<1>3. \A p \in Requests : Known(p)'
  BY DEF IInv, Flow, Known, Present, KeepData, KeepRows, Go, Reads
<1> QED
  BY <1>1, <1>2, <1>3 DEF IInv

\* A request ends that shares no flight with anybody who waits for it, and the rows stay.
LEMMA End_Inv ==
    ASSUME IInv, NEW Q \in SUBSET Requests, End(Q), Data', UNCHANGED users,
           \A l \in Q : at[l] \in {"select", "store"} => mates[l] \subseteq Q
    PROVE  IInv'
  BY End_Flow, End_Known DEF IInv

\* A key gets a token.
LEMMA Give_Data ==
    ASSUME Data, NEW u, NEW type, NEW k, [user |-> u, type |-> type, key |-> k] \in auths,
           Give(u, type, k), UNCHANGED <<users, auths, cached, changes>>, faults' \in Nat
    PROVE  Data'
<1>1. tokens' \subseteq auths /\ changes' \in Nat
  BY DEF Give, Data, OneAccount
<1> QED
  BY <1>1, Same_Data

LEMMA WXMiniAuth_Inv ==
    ASSUME IInv, NEW q \in Requests, NEW o \in OpenIds, NEW m \in Mobiles, WXMiniAuth(q, o, m)
    PROVE  IInv'
<1> USE DEF WXMiniAuth
<1>1. CASE ByKey("wxMini", o) # {}
  <2>1. PICK r \in ByKey("wxMini", o) : Give(r.user, "wxMini", o)
    BY <1>1
  <2>2. r \in AuthRows /\ r.type = "wxMini" /\ r.key = o /\ r \in auths
    BY DEF ByKey, IInv, Data
  <2>3. r = [user |-> r.user, type |-> "wxMini", key |-> o]
    BY <2>2 DEF AuthRows
  <2>4. UNCHANGED <<users, auths, cached, changes, at, flowVars, faults>>
    BY <1>1
  <2>5. Data'
    BY <2>1, <2>2, <2>3, <2>4, Give_Data DEF IInv, Data
  <2> QED
    BY <2>4, <2>5 DEF IInv, Flow, Sharing, Places, ByItsMobile, Known, Present, flowVars
<1>2. CASE ByKey("wxMini", o) = {}
  <2> DEFINE f == [mobile |-> m, secret |-> Nothing, type |-> "wxMini", key |-> o]
  <2>1. f \in Forms /\ ByItsMobile(f)
    BY DEF Forms, ByItsMobile
  <2>2. Go(q, "mobile") /\ form' = [form EXCEPT ![q] = f] /\ UNCHANGED <<user, faults>> /\ KeepData
        /\ KeepObjects /\ at[q] = "idle"
    BY <1>2
  <2> HIDE DEF f
  <2>3. Flow'
    <3>1. "mobile" \in Signs /\ at[q] \notin Reads
      BY <2>2 DEF Signs, Reads
    <3>2. form' \in [Requests -> Forms \cup {Nothing}] /\ form'[q] = f
          /\ \A p \in Requests \ {q} : form'[p] = form[p]
      BY <2>1, <2>2 DEF IInv, Flow
    <3>3. Flow /\ user' \in [Requests -> Ids \cup {Nothing}]
      BY <2>2 DEF IInv, Flow
    <3> QED
      BY <2>1, <2>2, <3>1, <3>2, <3>3, Sign_Flow
  <2>4. Data'
    BY <2>2, Same_Data DEF IInv, Data, KeepData, KeepRows, OneAccount
  <2>5. \A p \in Requests : Known(p)'
    BY <2>2 DEF IInv, Flow, Known, Present, KeepData, KeepRows, Go, Reads
  <2> QED
    BY <2>3, <2>4, <2>5 DEF IInv
<1> QED
  BY <1>1, <1>2

LEMMA SignIn_Inv ==
    ASSUME IInv, NEW q \in Requests,
           \/ \E m \in Mobiles, s \in Secrets : RegisterSystem(q, m, s)
           \/ WXRegister(q)
           \/ \E u \in Ids, s \in Secrets : Login(q, u, s)
    PROVE  IInv'
<1>1. ASSUME NEW m \in Mobiles, NEW s \in Secrets, RegisterSystem(q, m, s) PROVE IInv'
  <2> DEFINE f == [mobile |-> m, secret |-> s, type |-> "system", key |-> m]
  <2>1. f \in Forms /\ ByItsMobile(f)
    BY DEF Forms, ByItsMobile
  <2>2. at[q] = "idle" /\ Register(q, f)
    BY <1>1 DEF RegisterSystem
  <2> QED
    BY <2>1, <2>2, Register_Inv
<1>2. CASE WXRegister(q)
  <2>1. at[q] = "mobile" /\ form[q] \in Forms /\ ByItsMobile(form[q])
    BY <1>2 DEF WXRegister, IInv, Flow, Places, Signs
  <2>2. CASE Register(q, form[q])
    BY <2>1, <2>2, Register_Inv
  <2>3. CASE End({q}) /\ UNCHANGED faults /\ KeepData
    <3>1. Data'
      BY <2>3, Same_Data DEF IInv, Data, KeepData, KeepRows, OneAccount
    <3> QED
      BY <2>1, <2>3, <3>1, End_Inv DEF KeepData, KeepRows
  <2> QED
    BY <1>2, <2>2, <2>3 DEF WXRegister
<1>3. ASSUME NEW u \in Ids, NEW s \in Secrets, Login(q, u, s) PROVE IInv'
  <2>1. at[q] = "idle" /\ u \in Present /\ users[u] \in UserRows /\ users[u].mobile \in Mobiles
    BY <1>3 DEF Login, Present, IInv, Data, UserRows
  <2>2. CASE /\ users[u].hash = [kind |-> "bcrypt", of |-> s]
             /\ Give(u, "system", users[u].mobile)
             /\ UNCHANGED <<users, auths, cached, changes, at, flowVars, faults>>
    <3>1. users[u].hash # Nothing
      <4>1. users[u].hash \in Hashes
        BY <2>2 DEF Hashes
      <4> QED
        BY <4>1, ValuesAssumption
    <3>2. Data'
      BY <2>1, <2>2, <3>1, Give_Data DEF IInv, Data, WithMobile
    <3> QED
      BY <2>2, <3>2 DEF IInv, Flow, Sharing, Places, ByItsMobile, Known, Present, flowVars
  <2>3. CASE /\ users[u].hash = [kind |-> "md5", of |-> s]
             /\ Go(q, "upgrade") /\ user' = [user EXCEPT ![q] = u]
             /\ form' = [form EXCEPT ![q] = [mobile |-> users[u].mobile, secret |-> s,
                                            type |-> "system", key |-> users[u].mobile]]
             /\ UNCHANGED faults /\ KeepData /\ KeepObjects
    <3> DEFINE f == [mobile |-> users[u].mobile, secret |-> s, type |-> "system",
                     key |-> users[u].mobile]
    <3>1. f \in Forms /\ ByItsMobile(f) /\ f.secret = s /\ f.mobile = users[u].mobile
      BY <2>1 DEF Forms, ByItsMobile
    <3>2. users[u].hash \in Hashes /\ users[u].hash.of = s
      BY <2>3 DEF Hashes
    <3>3. form' = [form EXCEPT ![q] = f]
      BY <2>3
    <3> HIDE DEF f
    <3>4. Flow'
      <4>1. "upgrade" \in Signs /\ at[q] \notin Reads
        BY <2>1 DEF Signs, Reads
      <4>2. form' \in [Requests -> Forms \cup {Nothing}] /\ form'[q] = f
            /\ \A p \in Requests \ {q} : form'[p] = form[p]
        BY <3>1, <3>3 DEF IInv, Flow
      <4>3. Flow /\ user' \in [Requests -> Ids \cup {Nothing}]
            /\ \A p \in Requests \ {q} : user'[p] = user[p]
        BY <2>3 DEF IInv, Flow
      <4> QED
        BY <2>3, <3>1, <4>1, <4>2, <4>3, Sign_Flow
    <3>5. Data'
      BY <2>3, Same_Data DEF IInv, Data, KeepData, KeepRows, OneAccount
    <3>6. ASSUME NEW p \in Requests PROVE Known(p)'
      <4>1. CASE p = q
        <5>1. user'[p] = u /\ at'[p] = "upgrade" /\ form'[p] = f /\ users' = users
          BY <4>1, <2>3, <3>3 DEF IInv, Flow, Go, KeepData, KeepRows
        <5> QED
          BY <5>1, <2>1, <3>1, <3>2 DEF Known, Present, Reads
      <4>2. CASE p # q
        BY <4>2, <2>3, <3>3 DEF IInv, Flow, Known, Present, KeepData, KeepRows, Go
      <4> QED
        BY <4>1, <4>2
    <3> QED
      BY <3>4, <3>5, <3>6 DEF IInv
  <2> QED
    BY <1>3, <2>2, <2>3 DEF Login
<1> QED
  BY <1>1, <1>2, <1>3

\* A new row, and the only key for it.
LEMMA CreateUser_Inv ==
    ASSUME IInv, NEW q \in Requests, CreateUser(q)
    PROVE  IInv'
<1> USE DEF CreateUser
<1> DEFINE f == form[q]
<1>1. at[q] = "create" /\ f \in Forms /\ ByItsMobile(f)
  BY DEF IInv, Flow, Places, Signs
<1>2. /\ f.mobile \in Mobiles /\ f.secret \in Secrets \cup {Nothing}
      /\ f.type \in {"system", "wxMini"} /\ f.key \in Mobiles \cup OpenIds
  BY <1>1 DEF Forms
<1>3. Flow'
  BY <1>1, End_Flow DEF IInv
<1>4. CASE ByMobile(f.mobile) = {} /\ ByKey(f.type, f.key) = {}
  <2> DEFINE row(u) == [user |-> u, type |-> f.type, key |-> f.key]
  <2>1. PICK u \in NextId :
            /\ users' = [users EXCEPT ![u] = NewRow(f)]
            /\ auths' = auths \cup {row(u)}
            /\ \/ Give(u, f.type, f.key) /\ UNCHANGED faults
               \/ Fault("db") /\ UNCHANGED tokens
    BY <1>4
  <2>2. u \in Ids /\ u \notin Present
    BY DEF NextId
  <2>3. NewRow(f) \in UserRows /\ NewRow(f).mobile = f.mobile
        /\ (NewRow(f).hash # Nothing => f.secret # Nothing)
    <3>1. [x \in Fields |-> Zero] \in Profiles
      BY ValuesAssumption DEF Profiles
    <3>2. f.secret # Nothing => [kind |-> "bcrypt", of |-> f.secret] \in Hashes
      BY <1>2 DEF Hashes
    <3> QED
      BY <1>2, <3>1, <3>2 DEF NewRow, UserRows
  <2>4. users' \in [Ids -> UserRows \cup {NoUser}] /\ users'[u] = NewRow(f)
        /\ \A v \in Ids \ {u} : users'[v] = users[v]
    BY <2>1, <2>2, <2>3 DEF IInv, Data
  <2>5. Present' = Present \cup {u}
    BY <2>2, <2>3, <2>4, ValuesAssumption DEF Present
  <2>6. row(u).user = u /\ row(u).type = f.type /\ row(u).key = f.key /\ row(u) \in AuthRows
    BY <1>2, <2>2 DEF AuthRows
  <2> HIDE DEF row
  <2>7. OneAccount'
    <3>1. \A v, w \in Present' : users'[v].mobile = users'[w].mobile => v = w
      BY <1>4, <2>2, <2>3, <2>4, <2>5 DEF ByMobile, IInv, Data, OneAccount, Present
    <3>2. \A r \in auths : r.user # u /\ ~(r.type = f.type /\ r.key = f.key)
      BY <1>4, <2>2 DEF ByKey, IInv, Data, OneAccount
    <3>3. \A r, s \in auths' : r.user = s.user \/ (r.type = s.type /\ r.key = s.key) => r = s
      BY <2>1, <2>6, <3>2 DEF IInv, Data, OneAccount
    <3>4. {r.user : r \in auths'} = Present'
      BY <2>1, <2>5, <2>6 DEF IInv, Data, OneAccount
    <3>5. tokens' \subseteq auths'
      BY <2>1 DEF Give, row, IInv, Data, OneAccount
    <3> QED
      BY <3>1, <3>3, <3>4, <3>5 DEF OneAccount
  <2>8. WithMobile'
    <3>1. ASSUME NEW v \in Present', users'[v].hash # Nothing
          PROVE  [user |-> v, type |-> "system", key |-> users'[v].mobile] \in auths'
      <4>1. CASE v = u
        <5>1. f.type = "system" /\ f.key = f.mobile
          BY <4>1, <3>1, <2>3, <2>4, <1>1 DEF ByItsMobile
        <5> QED
          BY <4>1, <5>1, <2>1, <2>3, <2>4 DEF row
      <4>2. CASE v # u
        BY <4>2, <3>1, <2>1, <2>4, <2>5 DEF IInv, Data, WithMobile, Present
      <4> QED
        BY <4>1, <4>2
    <3> QED
      BY <3>1 DEF WithMobile
  <2>9. Data'
    <3>1. auths' \subseteq AuthRows
      BY <2>1, <2>6 DEF IInv, Data
    <3>2. faults' \in Nat
      BY <2>1, Fault_Nat DEF IInv, Data
    <3> QED
      BY <2>4, <2>7, <2>8, <3>1, <3>2 DEF IInv, Data
  <2>10. \A p \in Requests : Known(p)'
    BY <2>2, <2>4, <2>5 DEF IInv, Flow, Known, End, Present, Reads
  <2> QED
    BY <1>3, <2>9, <2>10 DEF IInv
<1>5. CASE ~(ByMobile(f.mobile) = {} /\ ByKey(f.type, f.key) = {})
  <2>1. End({q}) /\ UNCHANGED <<users, auths, tokens, faults, cached, changes>>
    BY <1>5
  <2>2. Data'
    BY <2>1, Same_Data DEF IInv, Data, OneAccount
  <2> QED
    BY <1>1, <2>1, <2>2, End_Inv
<1> QED
  BY <1>4, <1>5

\* Rows of user that change their hashes or their profiles only are still good rows.
LEMMA Rows_Data ==
    ASSUME Data, users' \in [Ids -> UserRows \cup {NoUser}], Present' = Present,
           \A u \in Present : /\ users'[u].mobile = users[u].mobile
                              /\ users'[u].hash # Nothing => users[u].hash # Nothing,
           UNCHANGED <<auths, cached, changes>>, tokens' \subseteq auths, faults' \in Nat
    PROVE  Data'
<1>1. \A u, v \in Present' : users'[u].mobile = users'[v].mobile => u = v
  BY DEF Data, OneAccount
<1>2. \A r, s \in auths' : r.user = s.user \/ (r.type = s.type /\ r.key = s.key) => r = s
  BY DEF Data, OneAccount
<1>3. {r.user : r \in auths'} = Present' /\ tokens' \subseteq auths'
  BY DEF Data, OneAccount
<1>4. ASSUME NEW u \in Present', users'[u].hash # Nothing
      PROVE  [user |-> u, type |-> "system", key |-> users'[u].mobile] \in auths'
  BY <1>4 DEF Data, WithMobile
<1>5. auths' \subseteq AuthRows /\ cached' \in [Ids -> Profiles \cup {Nothing}] /\ changes' \in Nat
  BY DEF Data
<1>6. OneAccount' /\ WithMobile'
  BY <1>1, <1>2, <1>3, <1>4 DEF OneAccount, WithMobile
<1> QED
  BY <1>5, <1>6 DEF Data

LEMMA UpdatePasswordHash_Inv ==
    ASSUME IInv, NEW q \in Requests, UpdatePasswordHash(q)
    PROVE  IInv'
<1> USE DEF UpdatePasswordHash
<1> DEFINE u == user[q]
           hash == [kind |-> "bcrypt", of |-> form[q].secret]
<1>1. /\ at[q] = "upgrade" /\ u \in Present /\ u \in Ids /\ users[u] \in UserRows
      /\ users[u].hash \in Hashes /\ users[u].hash.of = form[q].secret
      /\ users[u].mobile = form[q].mobile
  BY DEF IInv, Known, Present, Data
<1>2. hash \in Hashes /\ hash.of = form[q].secret
  BY <1>1 DEF Hashes
<1> HIDE DEF hash
<1>3. /\ users' = [users EXCEPT ![u].hash = hash] /\ End({q})
      /\ UNCHANGED <<auths, cached, changes>>
  BY DEF hash
<1>4. [users[u] EXCEPT !.hash = hash] \in UserRows
  BY <1>1, <1>2 DEF UserRows
<1>5. /\ users' \in [Ids -> UserRows \cup {NoUser}]
      /\ users'[u].hash = hash /\ users'[u].mobile = users[u].mobile /\ users'[u] \in UserRows
      /\ \A v \in Ids \ {u} : users'[v] = users[v]
  BY <1>1, <1>3, <1>4 DEF IInv, Data, UserRows
<1>6. Present' = Present
  BY <1>1, <1>5, ValuesAssumption DEF Present
<1>7. Flow'
  BY <1>1, <1>3, End_Flow DEF IInv
<1>8. Data'
  <2>1. users[u].hash # Nothing
    BY <1>1, ValuesAssumption
  <2>2. tokens' \subseteq auths
    <3>1. [user |-> u, type |-> "system", key |-> form[q].mobile] \in auths
      BY <1>1, <2>1 DEF IInv, Data, WithMobile
    <3> QED
      BY <3>1 DEF Give, IInv, Data, OneAccount
  <2>3. faults' \in Nat
    BY Fault_Nat DEF IInv, Data
  <2>4. \A v \in Present : /\ users'[v].mobile = users[v].mobile
                           /\ users'[v].hash # Nothing => users[v].hash # Nothing
    BY <1>5, <2>1 DEF Present
  <2> QED
    BY <1>3, <1>5, <1>6, <2>2, <2>3, <2>4, Rows_Data DEF IInv
<1>9. ASSUME NEW p \in Requests PROVE Known(p)'
  <2>1. Known(p)
    BY DEF IInv
  <2>2. CASE p = q
    BY <2>2, <1>3 DEF End, IInv, Flow, Known, Reads
  <2>3. CASE p # q
    <3>1. at'[p] = at[p] /\ user'[p] = user[p] /\ form'[p] = form[p]
      BY <2>3, <1>3 DEF End
    <3>2. CASE user[p] = u
      BY <2>1, <3>1, <3>2, <1>1, <1>2, <1>5, <1>6 DEF Known
    <3>3. CASE user[p] # u
      BY <2>1, <3>1, <3>3, <1>5, <1>6 DEF Known, Present
    <3> QED
      BY <3>2, <3>3
  <2> QED
    BY <2>2, <2>3
<1> QED
  BY <1>7, <1>8, <1>9 DEF IInv

-----------------------------------------------------------------------------
(* The profile. *)

\* A token is of a user that is there.
LEMMA Authenticated_Present == ASSUME IInv, NEW u, Authenticated(u) PROVE u \in Present
  BY DEF IInv, Data, OneAccount, Authenticated

\* The invariant when the rows stay, for the steps of a profile.
LEMMA Quiet_Inv ==
    ASSUME IInv, Flow', KeepRows, changes' \in Nat, faults' \in Nat,
           \A p \in Requests : \/ at'[p] = at[p] /\ user'[p] = user[p] /\ form'[p] = form[p]
                               \/ at'[p] \notin Reads \cup {"upgrade"}
                               \/ at'[p] # "upgrade" /\ user'[p] \in Present
    PROVE  IInv'
<1>1. Data'
  BY Same_Data DEF IInv, Data, KeepRows, OneAccount
<1>2. ASSUME NEW p \in Requests PROVE Known(p)'
  BY DEF IInv, Known, KeepRows, Present
<1> QED
  BY <1>1, <1>2 DEF IInv

LEMMA Begin_Inv ==
    ASSUME IInv, NEW q \in Requests, NEW u \in Ids, NEW w \in Wishes \cup {Nothing},
           NEW place \in Reads, Begin(q, u, w, place), Flow', faults' \in Nat
    PROVE  IInv'
<1>1. u \in Present
  BY Authenticated_Present DEF Begin
<1>2. changes' \in Nat /\ KeepRows
  BY DEF IInv, Data, Begin
<1>3. ASSUME NEW p \in Requests
      PROVE  \/ at'[p] = at[p] /\ user'[p] = user[p] /\ form'[p] = form[p]
             \/ at'[p] \notin Reads \cup {"upgrade"}
             \/ at'[p] # "upgrade" /\ user'[p] \in Present
  BY <1>1 DEF IInv, Flow, Begin, Go, Reads
<1> QED
  BY <1>2, <1>3, Quiet_Inv

\* A request with an object of its own.
LEMMA Alone_Flow ==
    ASSUME Flow, NEW q \in Requests, NEW u \in Ids, NEW w \in Wishes \cup {Nothing},
           NEW place \in {"select", "change"}, Begin(q, u, w, place),
           mates' = [mates EXCEPT ![q] = {q}],
           held' \in [Requests -> Objects \cup {Nothing}],
           \A p \in Requests \ {q} : held'[p] = held[p],
           place = "change" => held'[q] \in Objects /\ w # Nothing
    PROVE  Flow'
<1> USE DEF Begin, Go
<1>1. mates[q] = {} /\ \A p \in Requests : q \notin mates[p]
  BY DEF Flow, Sharing, Places, Reads
<1>2. Sharing'
  BY <1>1 DEF Flow, Sharing
<1>3. ASSUME NEW p \in Requests PROVE Places(p)'
  <2>1. CASE p = q
    BY <2>1 DEF Flow, Places, Reads, Signs
  <2>2. CASE p # q
    <3>1. Places(p)
      BY DEF Flow
    <3>2. \A l \in mates[p] : l # q /\ l \in Requests
      BY <1>1 DEF Flow
    <3> QED
      BY <2>2, <3>1, <3>2 DEF Flow, Places, ByItsMobile
  <2> QED
    BY <2>1, <2>2
<1> QED
  BY <1>2, <1>3 DEF Flow, Reads

LEMMA HitMiss_Inv ==
    ASSUME IInv, NEW q \in Requests, NEW u \in Ids, NEW w \in Wishes \cup {Nothing},
           Hit(q, u, w) \/ Miss(q, u, w)
    PROVE  IInv'
<1>1. CASE Hit(q, u, w)
  <2> USE <1>1 DEF Hit
  <2>1. [profile |-> cached[u], hash |-> Nothing] \in Objects
    BY DEF IInv, Data, Objects
  <2>2. Flow'
    BY <2>1, Alone_Flow DEF IInv, Flow
  <2> QED
    BY <2>2, Begin_Inv DEF IInv, Data, Reads
<1>2. CASE Miss(q, u, w)
  <2> USE <1>2 DEF Miss
  <2>1. Flow'
    BY Alone_Flow DEF IInv, Flow
  <2>2. faults' \in Nat
    BY Fault_Nat DEF NoEntry, IInv, Data
  <2> QED
    BY <2>1, <2>2, Begin_Inv DEF Reads
<1> QED
  BY <1>1, <1>2

LEMMA Join_Inv ==
    ASSUME IInv, NEW q \in Requests, NEW u \in Ids, NEW w \in Wishes \cup {Nothing}, Join(q, u, w)
    PROVE  IInv'
<1> USE DEF Join, Begin, Go
<1>1. at[q] = "idle" /\ Flow
  BY DEF IInv
<1>2. PICK l \in Requests :
          /\ at[l] \in {"select", "store"} /\ user[l] = u
          /\ mates' = [p \in Requests |-> IF p \in mates[l] \cup {q} THEN mates[l] \cup {q} ELSE mates[p]]
          /\ held' = [held EXCEPT ![q] = held[l]]
  OBVIOUS
<1> DEFINE Q == mates[l] \cup {q}
<1>3. q # l /\ l \in mates[l] /\ mates[l] \subseteq Requests
  BY <1>1, <1>2 DEF Flow, Places, Reads
<1>4. mates[q] = {} /\ \A p \in Requests : q \notin mates[p]
  BY <1>1 DEF Flow, Sharing, Places, Reads
<1>5. \A p \in mates[l] : user[p] = u /\ mates[p] = mates[l]
  BY <1>1, <1>2 DEF Flow, Sharing
<1>6. \A p \in Requests : mates'[p] = IF p \in Q THEN Q ELSE mates[p]
  BY <1>2
<1>7. \A p \in Requests \ Q : mates[p] \cap Q = {}
  BY <1>1, <1>4 DEF Flow, Sharing
<1>8. user' = [user EXCEPT ![q] = u] /\ at' = [at EXCEPT ![q] = "wait"] /\ form' = form
      /\ wish' = [wish EXCEPT ![q] = w]
  OBVIOUS
<1>9. user' \in [Requests -> Ids \cup {Nothing}] /\ at' \in [Requests -> {"idle"} \cup Signs \cup Reads]
      /\ wish' \in [Requests -> Wishes \cup {Nothing}] /\ held' \in [Requests -> Objects \cup {Nothing}]
      /\ mates' \in [Requests -> SUBSET Requests] /\ form' \in [Requests -> Forms \cup {Nothing}]
  BY <1>1, <1>2, <1>3, <1>8 DEF Flow, Reads
<1>10. Sharing'
  <2>1. \A p \in Q : user'[p] = u
    BY <1>1, <1>3, <1>5, <1>8 DEF Flow
  <2>2. \A p \in Requests \ Q : user'[p] = user[p]
    BY <1>1, <1>8 DEF Flow
  <2> QED
    BY <1>1, <1>6, <1>7, <1>3, <2>1, <2>2 DEF Sharing, Flow
<1>11. ASSUME NEW p \in Requests PROVE Places(p)'
  <2>1. Places(p)
    BY <1>1 DEF Flow
  <2>2. CASE p = q
    <3>1. at'[p] = "wait" /\ user'[p] = u /\ l \in mates'[p] /\ p \in mates'[p]
      BY <2>2, <1>1, <1>3, <1>6, <1>8 DEF Flow
    <3>2. at'[l] = at[l] /\ user'[l] = u
      BY <1>1, <1>2, <1>3, <1>8 DEF Flow
    <3> QED
      BY <3>1, <3>2, <1>2 DEF Places, Reads, Signs
  <2>3. CASE p \in mates[l]
    <3>1. p # q /\ at'[p] = at[p] /\ form'[p] = form[p] /\ wish'[p] = wish[p] /\ user'[p] = u
          /\ mates'[p] = Q /\ mates[p] = mates[l] /\ user[p] = u
      BY <2>3, <1>1, <1>4, <1>5, <1>6, <1>8, <1>9, <1>2 DEF Flow
    <3>2. p = l \/ at[p] = "wait"
      BY <2>3, <1>1, <1>2 DEF Flow, Places
    <3>3. at'[l] = at[l] /\ l \in Q /\ user'[l] = u
      BY <1>1, <1>2, <1>3, <1>8 DEF Flow
    <3>4. \A r \in Q : \/ r = q /\ at'[r] = "wait" /\ held'[r] = held[l]
                       \/ r # q /\ r \in mates[l] /\ at'[r] = at[r] /\ held'[r] = held[r]
      <4>1. at'[q] = "wait" /\ held'[q] = held[l]
        BY <1>1, <1>2, <1>8 DEF Flow
      <4>2. \A r \in Requests : r # q => at'[r] = at[r] /\ held'[r] = held[r]
        BY <1>1, <1>2, <1>8 DEF Flow
      <4> QED
        BY <4>1, <4>2, <1>3
    <3>5. p = l /\ at[l] = "store" => \A r \in Q : held'[r] \in Objects
      BY <2>1, <3>1, <3>4, <1>3 DEF Places
    <3>6. p = l => \A r \in Q : r = p \/ at'[r] = "wait"
      BY <2>1, <3>1, <3>4, <1>2 DEF Places
    <3>7. CASE p = l
      BY <2>1, <3>1, <3>5, <3>6, <3>7, <1>2, <2>3 DEF Places, Reads, Signs
    <3>8. CASE at[p] = "wait"
      BY <2>1, <3>1, <3>3, <3>8, <1>2, <2>3 DEF Places, Reads, Signs
    <3> QED
      BY <3>2, <3>7, <3>8
  <2>4. CASE p \notin Q
    <3>1. \A r \in mates[p] : r # q /\ at'[r] = at[r] /\ held'[r] = held[r] /\ user'[r] = user[r]
      BY <1>1, <1>2, <1>4, <1>8 DEF Flow
    <3>2. mates'[p] = mates[p] /\ at'[p] = at[p] /\ form'[p] = form[p] /\ wish'[p] = wish[p]
          /\ user'[p] = user[p]
      BY <2>4, <1>1, <1>6, <1>8 DEF Flow
    <3> QED
      BY <2>1, <3>1, <3>2 DEF Places, ByItsMobile
  <2> QED
    BY <2>2, <2>3, <2>4
<1>12. Flow'
  BY <1>9, <1>10, <1>11 DEF Flow
<1>13. faults' \in Nat
  BY Fault_Nat DEF NoEntry, IInv, Data
<1> QED
  <2>1. Begin(q, u, w, "wait") /\ "wait" \in Reads
    BY DEF Reads
  <2> QED
    BY <1>12, <1>13, <2>1, Begin_Inv

LEMMA SelectUser_Inv ==
    ASSUME IInv, NEW q \in Requests, SelectUser(q)
    PROVE  IInv'
<1> USE DEF SelectUser
<1>1. /\ at[q] = "select" /\ q \in mates[q] /\ mates[q] \subseteq Requests /\ user[q] \in Present
      /\ \A p \in mates[q] : p = q \/ at[p] = "wait"
  BY DEF IInv, Flow, Places, Known, Reads
<1>2. \A p \in mates[q] : mates[p] = mates[q] /\ user[p] = user[q]
  BY <1>1 DEF IInv, Flow, Sharing
<1>3. CASE Fault("db") /\ End(mates[q])
  <2>1. Data'
    BY <1>3, Fault_Nat, Same_Data DEF IInv, Data, KeepData, KeepRows, OneAccount
  <2> QED
    BY <1>1, <1>2, <1>3, <2>1, End_Inv DEF KeepData, KeepRows
<1>4. ASSUME Go(q, "store"), UNCHANGED <<form, user, wish, mates, faults>>,
             held' = [p \in Requests |->
                         IF p \in mates[q]
                         THEN [profile |-> users[user[q]].profile, hash |-> users[user[q]].hash]
                         ELSE held[p]]
      PROVE  IInv'
  <2>1. [profile |-> users[user[q]].profile, hash |-> users[user[q]].hash] \in Objects
    BY <1>1 DEF IInv, Data, Present, UserRows, Objects
  <2>2. /\ \A p \in mates[q] : held'[p] \in Objects
        /\ \A p \in Requests \ mates[q] : held'[p] = held[p]
        /\ held' \in [Requests -> Objects \cup {Nothing}]
    BY <1>4, <1>1, <2>1 DEF IInv, Flow
  <2>3. /\ at'[q] = "store" /\ \A p \in Requests \ {q} : at'[p] = at[p]
        /\ at' \in [Requests -> {"idle"} \cup Signs \cup Reads]
    BY <1>4 DEF IInv, Flow, Go, Reads
  <2>4. ASSUME NEW p \in Requests PROVE Places(p)'
    <3>1. Places(p)
      BY DEF IInv, Flow
    <3>2. CASE p = q
      BY <3>2, <1>1, <1>4, <2>2, <2>3 DEF Places, Reads, Signs
    <3>3. CASE p # q /\ p \in mates[q]
      BY <3>1, <3>3, <1>1, <1>2, <1>4, <2>3 DEF Places, Reads, Signs
    <3>4. CASE p \notin mates[q]
      <4>1. \A r \in mates[p] : r \in Requests /\ r \notin mates[q]
        BY <3>4, <1>1 DEF IInv, Flow, Sharing
      <4>2. \A r \in mates[p] : r # q /\ at'[r] = at[r] /\ held'[r] = held[r]
        BY <4>1, <1>1, <2>2, <2>3
      <4> QED
        BY <3>1, <3>4, <4>2, <1>1, <1>4, <2>3 DEF Places, ByItsMobile
    <3> QED
      BY <3>2, <3>3, <3>4
  <2>5. Flow'
    BY <1>4, <2>2, <2>3, <2>4 DEF IInv, Flow, Sharing
  <2>6. \A p \in Requests : \/ at'[p] = at[p] /\ user'[p] = user[p] /\ form'[p] = form[p]
                            \/ at'[p] # "upgrade" /\ user'[p] \in Present
    BY <1>1, <1>4, <2>3
  <2>7. KeepRows /\ changes' \in Nat /\ faults' \in Nat
    BY <1>4 DEF KeepData, IInv, Data
  <2> QED
    BY <2>5, <2>6, <2>7, Quiet_Inv
<1> QED
  BY <1>3, <1>4

\* Those who only looked leave; the others hold the object.
LEMMA StoreUser_Inv ==
    ASSUME IInv, NEW q \in Requests, StoreUser(q)
    PROVE  IInv'
<1> USE DEF StoreUser
<1> DEFINE M == mates[q]
           Q == {p \in M : wish[p] = Nothing}
<1>1. /\ at[q] = "store" /\ q \in M /\ M \subseteq Requests /\ user[q] \in Present
      /\ \A p \in M : held[p] \in Objects
  BY DEF IInv, Flow, Places, Known, Reads
<1>2. \A p \in M : mates[p] = M /\ user[p] = user[q]
  BY <1>1 DEF IInv, Flow, Sharing
<1>3. /\ at' = [p \in Requests |-> IF p \in Q THEN "idle" ELSE IF p \in M THEN "change" ELSE at[p]]
      /\ user' = [p \in Requests |-> IF p \in Q THEN Nothing ELSE user[p]]
      /\ mates' = [p \in Requests |-> IF p \in Q THEN {} ELSE mates[p] \ Q]
      /\ held' = [p \in Requests |-> IF p \in Q THEN Nothing ELSE held[p]]
      /\ UNCHANGED <<users, auths, tokens, form, wish, changes>>
  OBVIOUS
<1>4. Q \subseteq M /\ \A p \in M \ Q : wish[p] \in Wishes
  BY <1>1 DEF IInv, Flow
<1> HIDE DEF Q, StoreUser
<1>5. Sharing'
  BY <1>3 DEF IInv, Flow, Sharing
<1>6. ASSUME NEW p \in Requests PROVE Places(p)'
  <2>1. Places(p)
    BY DEF IInv, Flow
  <2>2. CASE p \in Q
    BY <2>2, <1>3 DEF Places, Reads, Signs
  <2>3. CASE p \in M \ Q
    <3>1. at'[p] = "change" /\ mates'[p] = M \ Q /\ wish'[p] \in Wishes
      BY <2>3, <1>2, <1>3, <1>4
    <3>2. \A r \in M \ Q : held'[r] \in Objects
      BY <1>1, <1>3
    <3> QED
      BY <3>1, <3>2, <2>3 DEF Places, Reads, Signs
  <2>4. CASE p \notin M
    <3>1. \A r \in mates[p] : r \in Requests /\ r \notin M
      BY <2>4, <1>1 DEF IInv, Flow, Sharing
    <3>2. mates'[p] = mates[p] /\ at'[p] = at[p] /\ user'[p] = user[p] /\ form'[p] = form[p]
          /\ wish'[p] = wish[p]
      BY <2>4, <3>1, <1>3, <1>4
    <3>3. \A r \in mates[p] : at'[r] = at[r] /\ user'[r] = user[r] /\ held'[r] = held[r]
      BY <3>1, <1>3, <1>4
    <3> QED
      BY <2>1, <3>2, <3>3 DEF Places, ByItsMobile
  <2> QED
    BY <2>2, <2>3, <2>4
<1>7. Flow'
  <2>1. at' \in [Requests -> {"idle"} \cup Signs \cup Reads] /\ user' \in [Requests -> Ids \cup {Nothing}]
        /\ mates' \in [Requests -> SUBSET Requests] /\ held' \in [Requests -> Objects \cup {Nothing}]
    BY <1>3 DEF IInv, Flow, Reads
  <2> QED
    BY <2>1, <1>3, <1>5, <1>6 DEF IInv, Flow
<1>8. Data'
  <2>1. held[q].profile \in Profiles
    BY <1>1 DEF Objects
  <2>2. cached' \in [Ids -> Profiles \cup {Nothing}] /\ faults' \in Nat
    BY <2>1, Fault_Nat DEF StoreUser, IInv, Data
  <2> QED
    BY <2>2, <1>3 DEF IInv, Data, OneAccount, WithMobile, Present
<1>9. ASSUME NEW p \in Requests PROVE Known(p)'
  <2>1. Known(p) /\ Present' = Present
    BY <1>3 DEF IInv, Present
  <2>2. CASE p \in Q
    BY <2>2, <1>3 DEF Known, Reads
  <2>3. CASE p \in M \ Q
    BY <2>1, <2>3, <1>1, <1>2, <1>3 DEF Known
  <2>4. CASE p \notin M
    BY <2>1, <2>4, <1>3, <1>4 DEF Known
  <2> QED
    BY <2>2, <2>3, <2>4
<1> QED
  BY <1>7, <1>8, <1>9 DEF IInv

LEMMA UpdateProfile_Inv ==
    ASSUME IInv, NEW q \in Requests, UpdateProfile(q)
    PROVE  IInv'
<1> USE DEF UpdateProfile
<1> DEFINE M == mates[q]
           new(p) == [held[p] EXCEPT !.profile[wish[q].field] = wish[q].value]
<1>1. /\ at[q] = "change" /\ q \in M /\ M \subseteq Requests /\ wish[q] \in Wishes
      /\ \A p \in M : held[p] \in Objects
  BY DEF IInv, Flow, Places, Reads
<1>2. \A p \in M : new(p) \in Objects
  BY <1>1 DEF Objects, Profiles, Wishes
<1> HIDE DEF new
<1>3. held' = [p \in Requests |-> IF p \in M THEN new(p) ELSE held[p]]
  BY DEF new
<1>4. /\ at'[q] = "update" /\ \A p \in Requests \ {q} : at'[p] = at[p]
      /\ at' \in [Requests -> {"idle"} \cup Signs \cup Reads]
      /\ UNCHANGED <<form, user, wish, mates, faults>> /\ KeepRows /\ UNCHANGED changes
  BY DEF Go, KeepData, IInv, Flow, Reads
<1>5. ASSUME NEW p \in Requests, held[p] \in Objects PROVE held'[p] \in Objects
  BY <1>2, <1>3, <1>5
<1>6. ASSUME NEW p \in Requests PROVE Places(p)'
  <2>1. Places(p) /\ mates[p] \subseteq Requests
    BY DEF IInv, Flow
  <2>2. CASE p = q
    BY <2>2, <1>1, <1>4, <1>5 DEF Places, Reads, Signs
  <2>3. CASE p # q
    <3>1. at'[p] \in {"store", "change", "update"} => \A r \in mates'[p] : held'[r] \in Objects
      BY <2>1, <2>3, <1>4, <1>5 DEF Places
    <3>2. \A r \in mates[p] : at[r] \in {"select", "store", "wait"} => at'[r] = at[r] /\ r # q
      BY <2>1, <1>1, <1>4
    <3>3. at[p] = "wait" => \E l \in mates'[p] : at'[l] \in {"select", "store"} /\ user'[l] = user'[p]
      BY <2>1, <3>2, <1>4 DEF Places
    <3>4. at[p] \in {"select", "store"} => \A r \in mates'[p] : r = p \/ at'[r] = "wait"
      BY <2>1, <3>2, <1>4 DEF Places
    <3> QED
      BY <2>1, <2>3, <3>1, <3>3, <3>4, <1>4 DEF Places, ByItsMobile
  <2> QED
    BY <2>2, <2>3
<1>7. Flow'
  <2>1. held' \in [Requests -> Objects \cup {Nothing}]
    BY <1>2, <1>3 DEF IInv, Flow
  <2> QED
    BY <2>1, <1>4, <1>6 DEF IInv, Flow, Sharing
<1>8. \A p \in Requests : \/ at'[p] = at[p] /\ user'[p] = user[p] /\ form'[p] = form[p]
                          \/ at'[p] # "upgrade" /\ user'[p] \in Present
  BY <1>1, <1>4 DEF IInv, Known, Reads
<1>9. changes' \in Nat /\ faults' \in Nat
  BY <1>4 DEF IInv, Data
<1> QED
  BY <1>4, <1>7, <1>8, <1>9, Quiet_Inv

\* An UPDATE of a profile keeps the password and the mobile.
LEMMA UpdateUser_Rows ==
    ASSUME IInv, NEW q \in Requests, at[q] = "update",
           users' = [users EXCEPT ![user[q]].profile = Written(@, held[q].profile)]
    PROVE  /\ users' \in [Ids -> UserRows \cup {NoUser}] /\ Present' = Present
           /\ \A v \in Present : users'[v].hash = users[v].hash /\ users'[v].mobile = users[v].mobile
<1> DEFINE u == user[q]
           new == Written(users[u].profile, held[q].profile)
<1>1. u \in Present /\ u \in Ids /\ users[u] \in UserRows /\ held[q] \in Objects
  BY DEF IInv, Flow, Places, Known, Reads, Present, Data
<1>2. new \in Profiles
  BY <1>1 DEF Written, Profiles, Objects, UserRows
<1> HIDE DEF new
<1>3. users' = [users EXCEPT ![u].profile = new]
  BY DEF new
<1>4. /\ users'[u].hash = users[u].hash /\ users'[u].mobile = users[u].mobile /\ users'[u] \in UserRows
      /\ \A v \in Ids \ {u} : users'[v] = users[v]
      /\ users' \in [Ids -> UserRows \cup {NoUser}]
  BY <1>1, <1>2, <1>3 DEF UserRows, IInv, Data
<1> QED
  BY <1>1, <1>4, ValuesAssumption DEF Present

LEMMA UpdateUser_Inv ==
    ASSUME IInv, NEW q \in Requests, UpdateUser(q)
    PROVE  IInv'
<1> USE DEF UpdateUser
<1>1. at[q] = "update" /\ End({q}) /\ UNCHANGED <<auths, cached, tokens, changes>>
  OBVIOUS
<1>2. CASE UNCHANGED users
  <2>1. faults' \in Nat
    BY Fault_Nat DEF IInv, Data
  <2>2. Data'
    BY <1>1, <1>2, <2>1, Same_Data DEF IInv, Data, OneAccount
  <2> QED
    BY <1>1, <1>2, <2>2, End_Inv
<1>3. ASSUME users' = [users EXCEPT ![user[q]].profile = Written(@, held[q].profile)], UNCHANGED faults
      PROVE  IInv'
  <2>1. /\ users' \in [Ids -> UserRows \cup {NoUser}] /\ Present' = Present
        /\ \A v \in Present : users'[v].hash = users[v].hash /\ users'[v].mobile = users[v].mobile
    BY <1>1, <1>3, UpdateUser_Rows
  <2>2. Flow'
    BY <1>1, End_Flow DEF IInv
  <2>3. tokens' \subseteq auths /\ faults' \in Nat
    BY <1>1, <1>3 DEF IInv, Data, OneAccount
  <2>4. Data'
    BY <1>1, <2>1, <2>3, Rows_Data DEF IInv
  <2>5. ASSUME NEW p \in Requests PROVE Known(p)'
    <3>1. Known(p)
      BY DEF IInv
    <3>2. CASE p = q
      BY <3>2, <1>1 DEF End, IInv, Flow, Known, Reads
    <3>3. CASE p # q
      BY <3>1, <3>3, <1>1, <2>1 DEF End, Known
    <3> QED
      BY <3>2, <3>3
  <2> QED
    BY <2>2, <2>4, <2>5 DEF IInv
<1> QED
  BY <1>2, <1>3

LEMMA Crash_Inv ==
    ASSUME IInv, NEW q \in Requests, Crash(q)
    PROVE  IInv'
<1> USE DEF Crash
<1>1. \A l \in mates[q] : mates[l] = mates[q]
  BY DEF IInv, Flow, Sharing
<1>2. Data'
  BY Fault_Nat, Same_Data DEF IInv, Data, KeepData, KeepRows, OneAccount
<1> DEFINE Q == {q} \cup mates[q]
<1>3. Q \in SUBSET Requests /\ End(Q) /\ \A l \in Q : mates[l] \subseteq Q
  BY <1>1 DEF IInv, Flow
<1> HIDE DEF Q
<1> QED
  BY <1>2, <1>3, End_Inv DEF KeepData, KeepRows

-----------------------------------------------------------------------------
\* Every step keeps the invariant.
LEMMA Inv_Step == IInv /\ [Next]_vars => IInv'
<1> SUFFICES ASSUME IInv, [Next]_vars PROVE IInv'
  OBVIOUS
<1>1. ASSUME NEW q \in Requests, SignIn(q) PROVE IInv'
  BY <1>1, SignIn_Inv, WXMiniAuth_Inv, CreateUser_Inv, UpdatePasswordHash_Inv DEF SignIn
<1>2. ASSUME NEW q \in Requests, UserByID(q) PROVE IInv'
  BY <1>2, HitMiss_Inv, Join_Inv, SelectUser_Inv, StoreUser_Inv DEF UserByID
<1>3. ASSUME NEW q \in Requests, UpdateProfile(q) \/ UpdateUser(q) \/ Crash(q) PROVE IInv'
  BY <1>3, UpdateProfile_Inv, UpdateUser_Inv, Crash_Inv
<1>4. ASSUME NEW u \in Ids, Expire(u) PROVE IInv'
  <2>1. UNCHANGED <<users, auths, tokens, at, form, user, wish, mates, held, changes, faults>>
        /\ cached' \in [Ids -> Profiles \cup {Nothing}]
    BY <1>4 DEF Expire, flowVars, IInv, Data
  <2> QED
    BY <2>1 DEF IInv, Flow, Sharing, Places, ByItsMobile, Data, OneAccount, WithMobile, Known, Present
<1>5. CASE UNCHANGED vars
  BY <1>5 DEF vars, flowVars, IInv, Flow, Sharing, Places, ByItsMobile, Data, OneAccount, WithMobile,
              Known, Present
<1> QED
  BY <1>1, <1>2, <1>3, <1>4, <1>5 DEF Next

\* Who changes a row, and how.
LEMMA Password_Step ==
    ASSUME IInv, [Next]_vars, NEW u \in Present
    PROVE  /\ users'[u] # NoUser
           /\ users[u].hash # Nothing =>
                 /\ users'[u].hash # Nothing /\ users'[u].hash.of = users[u].hash.of
                 /\ users[u].hash.kind = "bcrypt" => users'[u].hash.kind = "bcrypt"
           /\ users[u].hash = Nothing => users'[u].hash = Nothing
<1>1. u \in Ids /\ users[u] # NoUser /\ u \in DOMAIN users
  BY DEF Present, IInv, Data
<1>2. CASE UNCHANGED users
  BY <1>1, <1>2
<1>3. ASSUME NEW q \in Requests, CreateUser(q), users' # users PROVE users'[u] = users[u]
  <2>1. PICK v \in NextId : users' = [users EXCEPT ![v] = NewRow(form[q])]
    BY <1>3 DEF CreateUser
  <2>2. v # u
    BY <2>1 DEF NextId
  <2> QED
    BY <2>1, <2>2, <1>1
<1>4. ASSUME NEW q \in Requests, UpdatePasswordHash(q), user[q] = u
      PROVE  /\ users[u].hash \in Hashes /\ users'[u] = [users[u] EXCEPT !.hash = users'[u].hash]
             /\ users'[u].hash = [kind |-> "bcrypt", of |-> users[u].hash.of] /\ users'[u] # NoUser
             /\ users'[u].hash # Nothing
  <2> DEFINE hash == [kind |-> "bcrypt", of |-> form[q].secret]
  <2>1. at[q] = "upgrade" /\ users' = [users EXCEPT ![u].hash = hash]
    BY <1>4 DEF UpdatePasswordHash
  <2>2. users[u].hash \in Hashes /\ users[u].hash.of = form[q].secret /\ users[u] \in UserRows
    BY <2>1, <1>1, <1>4 DEF IInv, Known, Data
  <2>3. hash \in Hashes
    BY <2>2 DEF Hashes
  <2> HIDE DEF hash
  <2>4. users'[u] = [users[u] EXCEPT !.hash = hash]
    BY <2>1, <1>1
  <2>5. users'[u].hash = hash /\ users'[u] \in UserRows
    BY <2>2, <2>3, <2>4 DEF UserRows
  <2> QED
    BY <2>2, <2>3, <2>4, <2>5, ValuesAssumption DEF hash
<1>5. ASSUME NEW q \in Requests, UpdatePasswordHash(q), user[q] # u PROVE users'[u] = users[u]
  BY <1>5, <1>1 DEF UpdatePasswordHash
<1>6. ASSUME NEW q \in Requests, UpdateUser(q), users' # users
      PROVE  users'[u] # NoUser /\ users'[u].hash = users[u].hash
  <2>1. Present' = Present /\ \A v \in Present : users'[v].hash = users[v].hash
    BY <1>6, UpdateUser_Rows DEF UpdateUser
  <2> QED
    BY <2>1 DEF Present
<1>7. users' = users \/ \E q \in Requests : CreateUser(q) \/ UpdatePasswordHash(q) \/ UpdateUser(q)
  <2>1. ASSUME NEW q \in Requests, SignIn(q), ~CreateUser(q), ~UpdatePasswordHash(q) PROVE users' = users
    BY <2>1 DEF SignIn, RegisterSystem, Register, WXMiniAuth, WXRegister, Login, KeepData, KeepRows
  <2>2. ASSUME NEW q \in Requests, UserByID(q) PROVE users' = users
    <3>1. ASSUME NEW v \in Ids, NEW w, Hit(q, v, w) \/ Miss(q, v, w) \/ Join(q, v, w) PROVE users' = users
      BY <3>1 DEF Hit, Miss, Join, Begin, KeepRows
    <3> QED
      BY <2>2, <3>1 DEF UserByID, SelectUser, StoreUser, KeepData, KeepRows
  <2>3. ASSUME NEW q \in Requests, UpdateProfile(q) \/ Crash(q) PROVE users' = users
    BY <2>3 DEF UpdateProfile, Crash, KeepData, KeepRows
  <2>4. ASSUME NEW v \in Ids, Expire(v) PROVE users' = users
    BY <2>4 DEF Expire
  <2> QED
    BY <2>1, <2>2, <2>3, <2>4 DEF Next, vars
<1>8. ASSUME NEW q \in Requests, UpdatePasswordHash(q), user[q] = u
      PROVE  /\ users'[u] # NoUser /\ users[u].hash # Nothing /\ users'[u].hash # Nothing
             /\ users'[u].hash.of = users[u].hash.of /\ users'[u].hash.kind = "bcrypt"
  BY <1>4, <1>8, ValuesAssumption
<1> QED
  BY <1>1, <1>2, <1>3, <1>5, <1>6, <1>7, <1>8

\* The invariant holds in every state of every behaviour: who shares an object of a
\* flight, and what each step of a registration, a login or an update finds.
THEOREM Invariance == Spec => []IInv
  BY Inv_Init, Inv_Step, PTL DEF Spec

\* Every variable has its type, and whoever waits for a flight shares its object.
THEOREM TypeCorrect == Spec => []TypeOK
<1>1. IInv => TypeOK
  BY Inv_Types
<1> QED
  BY <1>1, Invariance, PTL

\* No mobile and no key ever has two users, every user has one way to sign in, and a
\* token names the user of its key, whatever registrations race and fail.
THEOREM OneAccountEach == Spec => []OneAccount
<1>1. IInv => OneAccount
  BY Inv_Types
<1> QED
  BY <1>1, Invariance, PTL

\* No step changes the password of a hash, or replaces a bcrypt hash by one of MD5.
THEOREM PasswordsKept == Spec => PasswordKept
<1>1. IInv /\ [Next]_vars =>
          [\A u \in Present :
              /\ users'[u] # NoUser
              /\ users[u].hash # Nothing =>
                    /\ users'[u].hash # Nothing /\ users'[u].hash.of = users[u].hash.of
                    /\ users[u].hash.kind = "bcrypt" => users'[u].hash.kind = "bcrypt"
              /\ users[u].hash = Nothing => users'[u].hash = Nothing]_vars
  BY Password_Step
<1> QED
  BY <1>1, Invariance, PTL DEF Spec, PasswordKept
=============================================================================
