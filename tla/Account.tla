------------------------------- MODULE Account -------------------------------
(***************************************************************************)
(* The users: registration and login by mobile and password or by WeChat,  *)
(* the password hashes that are replaced when their users log in, and the  *)
(* profile, which is read through a Redis entry of ten minutes and a       *)
(* singleflight whose callers share one object. No update deletes the      *)
(* entry.                                                                  *)
(***************************************************************************)
EXTENDS Naturals

CONSTANTS
    Ids,         \* ids of rows of user there are or may be, numbers
    Mobiles, OpenIds,
    Secrets,     \* passwords people choose
    Fields,      \* what a user may change: sex, avatar, info; nickname, which
                 \* registration sets, is like them
    Values,      \* what they can say
    Zero,        \* the value of a field nobody has set, and of an empty wish
    NoUser,      \* no such row
    Nothing,     \* nothing in the cache, no password, nothing asked for, nobody
    Old,         \* the users there were before, with their rows
    Requests,    \* requests in progress at a time
    MaxChanges,  \* bound: requests to change a profile
    Faults,      \* the kinds of fault that may happen
    MaxFaults    \* bound: how many faults happen

AccountFaultKinds == {"db", "redis", "crash"}

\* A hash says how it was made. People who came by WeChat have none, and the entry of
\* the cache leaves it out.
Hashes == [kind : {"md5", "bcrypt"}, of : Secrets]
Profiles == [Fields -> Values]
UserRows == [mobile : Mobiles, hash : Hashes \cup {Nothing}, profile : Profiles]
AuthRows == [user : Ids, type : {"system", "wxMini"}, key : Mobiles \cup OpenIds]

\* Registrations and logins: the mobile, the password, the kind of account and its key.
Forms == [mobile : Mobiles, secret : Secrets \cup {Nothing}, type : {"system", "wxMini"},
          key : Mobiles \cup OpenIds]

\* A request changes one field, or more in turn.
Wishes == [field : Fields, value : Values]

ASSUME BoundsAssumption == MaxChanges \in Nat /\ MaxFaults \in Nat
ASSUME ValuesAssumption ==
    /\ NoUser \notin UserRows /\ Nothing \notin Hashes \cup Profiles \cup Secrets \cup Forms \cup Ids \cup Wishes
    /\ Zero \in Values /\ Ids \subseteq Nat /\ Mobiles \cap OpenIds = {}

\* Each has its mobile, and signs in with it.
ASSUME OldAssumption ==
    /\ Old \in [Ids -> UserRows \cup {NoUser}]
    /\ \A u, v \in Ids : Old[u] # NoUser /\ Old[v] # NoUser /\ u # v => Old[u].mobile # Old[v].mobile

VARIABLES
    users,    \* the table user
    auths,    \* the rows of user_auth
    cached,   \* the Redis entry of each user
    tokens,   \* history: who was given a token for which key
    at,       \* where each request is
    form,     \* the registration or login it is about
    user,     \* the user it is about
    wish,     \* the change it asks for, Nothing when it only looks
    mates,    \* the requests that share the object it has in hand, itself included
    held,     \* that object: a profile and a hash
    changes,  \* requests to change a profile so far
    faults    \* faults that have happened

flowVars == <<form, user, wish, mates, held>>
vars == <<users, auths, cached, tokens, at, flowVars, changes, faults>>

-----------------------------------------------------------------------------
(* Helpers. An operator whose name ends in _Bug is a mutated form of the one     *)
(* after it, with a plausible mistake: a property must fail when it takes over.   *)

Fault(kind) == kind \in Faults /\ faults < MaxFaults /\ faults' = faults + 1

Present == {u \in Ids : users[u] # NoUser}

\* AUTO_INCREMENT.
NextId == {u \in Ids \ Present : \A v \in Ids \ Present : u <= v}

ByMobile(m) == {u \in Present : users[u].mobile = m}
ByKey(type, k) == {r \in auths : r.type = type /\ r.key = k}

Go(q, place) == at' = [at EXCEPT ![q] = place]

\* A set of requests ends, and forgets.
End(Q) ==
    /\ at' = [q \in Requests |-> IF q \in Q THEN "idle" ELSE at[q]]
    /\ form' = [q \in Requests |-> IF q \in Q THEN Nothing ELSE form[q]]
    /\ user' = [q \in Requests |-> IF q \in Q THEN Nothing ELSE user[q]]
    /\ wish' = [q \in Requests |-> IF q \in Q THEN Nothing ELSE wish[q]]
    /\ mates' = [q \in Requests |-> IF q \in Q THEN {} ELSE mates[q] \ Q]
    /\ held' = [q \in Requests |-> IF q \in Q THEN Nothing ELSE held[q]]

\* A token for the user of a key; it says who that is.
Give(u, type, k) == tokens' = tokens \cup {[user |-> u, type |-> type, key |-> k]}

Objects == [profile : Profiles, hash : Hashes \cup {Nothing}]

\* Users there were may have logged in to a version that hashed with MD5.
Init ==
    /\ users = Old
    /\ auths = {[user |-> u, type |-> "system", key |-> Old[u].mobile] : u \in {v \in Ids : Old[v] # NoUser}}
    /\ cached = [u \in Ids |-> Nothing]
    /\ tokens \in SUBSET auths
    /\ at = [q \in Requests |-> "idle"] /\ form = [q \in Requests |-> Nothing]
    /\ user = [q \in Requests |-> Nothing] /\ wish = [q \in Requests |-> Nothing]
    /\ mates = [q \in Requests |-> {}] /\ held = [q \in Requests |-> Nothing]
    /\ changes = 0 /\ faults = 0

KeepRows == UNCHANGED <<users, auths, cached, tokens>>
KeepData == KeepRows /\ UNCHANGED changes
KeepObjects == UNCHANGED <<wish, mates, held>>

-----------------------------------------------------------------------------
(* Registration and login. *)

\* Register: the mobile is free, for now.
Register(q, f) ==
    /\ ByMobile(f.mobile) = {}
    /\ Go(q, "create") /\ form' = [form EXCEPT ![q] = f]
    /\ UNCHANGED <<user, faults>> /\ KeepData /\ KeepObjects

\* The route of registration.
RegisterSystem(q, m, s) ==
    /\ at[q] = "idle"
    /\ Register(q, [mobile |-> m, secret |-> s, type |-> "system", key |-> m])

\* WXMiniAuth, behind JWT: an open id that is known gets its token, another goes on with the mobile
\* that WeChat says, and no password.
WXMiniAuth(q, o, m) ==
    /\ at[q] = "idle" /\ tokens # {}
    /\ IF ByKey("wxMini", o) # {}
       THEN /\ \E r \in ByKey("wxMini", o) : Give(r.user, "wxMini", o)
            /\ UNCHANGED <<users, auths, cached, changes, at, flowVars, faults>>
       ELSE /\ Go(q, "mobile")
            /\ form' = [form EXCEPT ![q] = [mobile |-> m, secret |-> Nothing, type |-> "wxMini", key |-> o]]
            /\ UNCHANGED <<user, faults>> /\ KeepData /\ KeepObjects

\* The mobile of a WeChat account is looked up; one that is registered is refused.
WXRegister(q) ==
    /\ at[q] = "mobile"
    /\ \/ Register(q, form[q])
       \/ ByMobile(form[q].mobile) # {} /\ End({q}) /\ UNCHANGED faults /\ KeepData

\* The row of a registration.
NewRow(f) ==
    [mobile |-> f.mobile,
     hash |-> IF f.secret = Nothing THEN Nothing ELSE [kind |-> "bcrypt", of |-> f.secret],
     profile |-> [x \in Fields |-> Zero]]

\* Mutant: two statements, not one transaction.
CreateUser_Bug(q) ==
    LET f == form[q] IN
    /\ at[q] = "create"
    /\ ByMobile(f.mobile) = {} /\ ByKey(f.type, f.key) = {}
    /\ \E u \in NextId :
          /\ users' = [users EXCEPT ![u] = NewRow(f)]
          /\ \/ /\ auths' = auths \cup {[user |-> u, type |-> f.type, key |-> f.key]}
                /\ Give(u, f.type, f.key) /\ UNCHANGED faults
             \/ Fault("db") /\ UNCHANGED <<auths, tokens>>
    /\ End({q})
    /\ UNCHANGED <<cached, changes>>

\* Both INSERTs are one transaction, which idx_mobile and idx_type_key may refuse; its
\* answer may be lost.
CreateUser(q) ==
    LET f == form[q] IN
    /\ at[q] = "create"
    /\ IF ByMobile(f.mobile) = {} /\ ByKey(f.type, f.key) = {}
       THEN \E u \in NextId :
               /\ users' = [users EXCEPT ![u] = NewRow(f)]
               /\ auths' = auths \cup {[user |-> u, type |-> f.type, key |-> f.key]}
               /\ \/ Give(u, f.type, f.key) /\ UNCHANGED faults
                  \/ Fault("db") /\ UNCHANGED tokens
       ELSE UNCHANGED <<users, auths, tokens, faults>>
    /\ End({q})
    /\ UNCHANGED <<cached, changes>>

\* Login. The hash is of the password; one of MD5 will be replaced first. Whoever has
\* none, and any other password, is refused.
Login(q, u, s) ==
    /\ at[q] = "idle" /\ u \in Present
    /\ \/ /\ users[u].hash = [kind |-> "bcrypt", of |-> s]
          /\ Give(u, "system", users[u].mobile)
          /\ UNCHANGED <<users, auths, cached, changes, at, flowVars, faults>>
       \/ /\ users[u].hash = [kind |-> "md5", of |-> s]
          /\ Go(q, "upgrade") /\ user' = [user EXCEPT ![q] = u]
          /\ form' = [form EXCEPT ![q] = [mobile |-> users[u].mobile, secret |-> s,
                                         type |-> "system", key |-> users[u].mobile]]
          /\ UNCHANGED faults /\ KeepData /\ KeepObjects

\* The UPDATE of the hash; without its answer there is no token.
UpdatePasswordHash(q) ==
    /\ at[q] = "upgrade"
    /\ users' = [users EXCEPT ![user[q]].hash = [kind |-> "bcrypt", of |-> form[q].secret]]
    /\ \/ Give(user[q], "system", form[q].mobile) /\ UNCHANGED faults
       \/ Fault("db") /\ UNCHANGED tokens
    /\ End({q})
    /\ UNCHANGED <<auths, cached, changes>>

-----------------------------------------------------------------------------
(* The profile. A request of a user looks at it, or changes it.                   *)

\* JWT: the user has a token.
Authenticated(u) == \E t \in tokens : t.user = u

\* A request of a user begins.
Begin(q, u, w, place) ==
    /\ at[q] = "idle" /\ Authenticated(u)
    /\ Go(q, place) /\ user' = [user EXCEPT ![q] = u] /\ wish' = [wish EXCEPT ![q] = w]
    /\ IF w = Nothing THEN UNCHANGED changes ELSE changes < MaxChanges /\ changes' = changes + 1
    /\ UNCHANGED form /\ KeepRows

\* UserByID: the entry is a fresh object, without the hash.
Hit(q, u, w) ==
    /\ cached[u] # Nothing /\ w # Nothing
    /\ Begin(q, u, w, "change")
    /\ mates' = [mates EXCEPT ![q] = {q}]
    /\ held' = [held EXCEPT ![q] = [profile |-> cached[u], hash |-> Nothing]]
    /\ UNCHANGED faults

NoEntry(u) == (cached[u] = Nothing /\ UNCHANGED faults) \/ (cached[u] # Nothing /\ Fault("redis"))

\* There is no entry, or Redis fails: the request begins a flight ...
Miss(q, u, w) ==
    /\ NoEntry(u)
    /\ Begin(q, u, w, "select")
    /\ mates' = [mates EXCEPT ![q] = {q}]
    /\ UNCHANGED held

\* ... or joins one of its process. Requests that do not join are in another process.
Join(q, u, w) ==
    /\ NoEntry(u)
    /\ Begin(q, u, w, "wait")
    /\ \E l \in Requests :
          LET Q == mates[l] \cup {q} IN
          /\ at[l] \in {"select", "store"} /\ user[l] = u
          /\ mates' = [p \in Requests |-> IF p \in Q THEN Q ELSE mates[p]]
          /\ held' = [held EXCEPT ![q] = held[l]]

\* The SELECT of the flight; an error is the answer of all its callers.
SelectUser(q) ==
    /\ at[q] = "select"
    /\ \/ /\ Go(q, "store")
          /\ held' = [p \in Requests |->
                         IF p \in mates[q]
                         THEN [profile |-> users[user[q]].profile, hash |-> users[user[q]].hash]
                         ELSE held[p]]
          /\ UNCHANGED <<form, user, wish, mates, faults>>
       \/ Fault("db") /\ End(mates[q])
    /\ KeepData

\* Mutant: only the caller that ran the flight gets its answer.
StoreUser_Bug(q) ==
    /\ at[q] = "store"
    /\ cached' = [cached EXCEPT ![user[q]] = held[q].profile]
    /\ IF wish[q] = Nothing THEN End({q})
       ELSE Go(q, "change") /\ UNCHANGED <<form, user, wish, mates, held>>
    /\ UNCHANGED <<users, auths, tokens, changes, faults>>

\* The SET, for ten minutes; its error is dropped. Every caller of the flight that
\* wants to change the profile has the object in hand now; the others are done.
StoreUser(q) ==
    /\ at[q] = "store"
    /\ \/ cached' = [cached EXCEPT ![user[q]] = held[q].profile] /\ UNCHANGED faults
       \/ Fault("redis") /\ UNCHANGED cached
    /\ LET Q == {p \in mates[q] : wish[p] = Nothing} IN
       /\ at' = [p \in Requests |-> IF p \in Q THEN "idle"
                                    ELSE IF p \in mates[q] THEN "change" ELSE at[p]]
       /\ user' = [p \in Requests |-> IF p \in Q THEN Nothing ELSE user[p]]
       /\ mates' = [p \in Requests |-> IF p \in Q THEN {} ELSE mates[p] \ Q]
       /\ held' = [p \in Requests |-> IF p \in Q THEN Nothing ELSE held[p]]
    /\ UNCHANGED <<users, auths, tokens, form, wish, changes>>

\* UpdateProfile writes the wish into the object, for all who share it.
UpdateProfile(q) ==
    /\ at[q] = "change"
    /\ held' = [p \in Requests |-> IF p \in mates[q] THEN [held[p] EXCEPT !.profile[wish[q].field] = wish[q].value]
                                 ELSE held[p]]
    /\ Go(q, "update")
    /\ UNCHANGED <<form, user, wish, mates, faults>> /\ KeepData

\* What an UPDATE leaves in a profile: a field that is zero is not written.
Written(p, q) == [x \in Fields |-> IF q[x] = Zero THEN p[x] ELSE q[x]]

\* Mutant: the column password is written like the others.
UpdateUser_Bug(q) ==
    /\ at[q] = "update"
    /\ users' = [users EXCEPT ![user[q]].profile = Written(@, held[q].profile),
                              ![user[q]].hash = IF held[q].hash = Nothing THEN @ ELSE held[q].hash]
    /\ End({q})
    /\ UNCHANGED <<auths, cached, tokens, changes, faults>>

\* UpdateUser writes all the object says, but not the password. The statement may fail.
UpdateUser(q) ==
    /\ at[q] = "update"
    /\ \/ /\ users' = [users EXCEPT ![user[q]].profile = Written(@, held[q].profile)]
          /\ UNCHANGED faults
       \/ Fault("db") /\ UNCHANGED users
    /\ End({q})
    /\ UNCHANGED <<auths, cached, tokens, changes>>

\* Mutant: SET without a time to live.
Expire_Bug(u) == u \notin Ids /\ UNCHANGED vars

\* The ten minutes are over.
Expire(u) ==
    /\ cached[u] # Nothing
    /\ cached' = [cached EXCEPT ![u] = Nothing]
    /\ UNCHANGED <<users, auths, tokens, at, flowVars, changes, faults>>

\* A process stops with a request, and the flight it shares.
Crash(q) ==
    /\ at[q] # "idle"
    /\ Fault("crash")
    /\ End({q} \cup mates[q])
    /\ KeepData

-----------------------------------------------------------------------------
SignIn(q) ==
    \/ \E m \in Mobiles, s \in Secrets : RegisterSystem(q, m, s)
    \/ \E o \in OpenIds, m \in Mobiles : WXMiniAuth(q, o, m)
    \/ WXRegister(q) \/ CreateUser(q)
    \/ \E u \in Ids, s \in Secrets : Login(q, u, s)
    \/ UpdatePasswordHash(q)

UserByID(q) ==
    \/ \E u \in Ids, w \in Wishes \cup {Nothing} : Hit(q, u, w) \/ Miss(q, u, w) \/ Join(q, u, w)
    \/ SelectUser(q) \/ StoreUser(q)

Next ==
    \/ \E q \in Requests : SignIn(q) \/ UserByID(q) \/ UpdateProfile(q) \/ UpdateUser(q) \/ Crash(q)
    \/ \E u \in Ids : Expire(u)

Spec == Init /\ [][Next]_vars

\* Entries expire, and what a request has begun goes on.
Fairness ==
    /\ \A u \in Ids : WF_vars(Expire(u))
    /\ \A q \in Requests :
          /\ WF_vars(SelectUser(q)) /\ WF_vars(StoreUser(q))
          /\ WF_vars(UpdateProfile(q)) /\ WF_vars(UpdateUser(q))

FairSpec == Spec /\ Fairness

-----------------------------------------------------------------------------
(* Properties. *)

\* Types, and whoever waits shares the object of a flight.
TypeOK ==
    /\ users \in [Ids -> UserRows \cup {NoUser}]
    /\ auths \subseteq AuthRows /\ tokens \subseteq AuthRows
    /\ cached \in [Ids -> Profiles \cup {Nothing}]
    /\ at \in [Requests -> {"idle", "mobile", "create", "upgrade", "select", "store", "wait",
                             "change", "update"}]
    /\ form \in [Requests -> Forms \cup {Nothing}]
    /\ user \in [Requests -> Ids \cup {Nothing}]
    /\ wish \in [Requests -> Wishes \cup {Nothing}]
    /\ mates \in [Requests -> SUBSET Requests]
    /\ held \in [Requests -> Objects \cup {Nothing}]
    /\ changes \in Nat /\ faults \in Nat
    /\ \A q \in Requests :
          at[q] = "wait" => \E l \in mates[q] : at[l] \in {"select", "store"} /\ user[l] = user[q]

\* One account: no mobile and no key has two users, every user has exactly one way to
\* sign in, which no crash, duplicate or race can leave without its user, and a token
\* names the user of the key it was given for (CreateUser, Register, WXMiniAuth).
OneAccount ==
    /\ \A u, v \in Present : users[u].mobile = users[v].mobile => u = v
    /\ \A r, s \in auths : r.user = s.user \/ (r.type = s.type /\ r.key = s.key) => r = s
    /\ {r.user : r \in auths} = Present
    /\ tokens \subseteq auths

\* A hash stays of the same password, and one that was replaced stays replaced,
\* whatever updates of the profile were under way (UpdateUser, User.Password).
PasswordKept ==
    [][\A u \in Present :
          /\ users'[u] # NoUser
          /\ users[u].hash # Nothing =>
                /\ users'[u].hash # Nothing /\ users'[u].hash.of = users[u].hash.of
                /\ users[u].hash.kind = "bcrypt" => users'[u].hash.kind = "bcrypt"
          /\ users[u].hash = Nothing => users'[u].hash = Nothing]_vars

\* When changes end, nobody sees an old profile for ever, although no update deletes
\* the entry and a slow reader may store one (UserByID).
CacheSettles == <>[](\A u \in Present : cached[u] \in {Nothing, users[u].profile})
=============================================================================
