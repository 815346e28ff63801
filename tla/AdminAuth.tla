------------------------------ MODULE AdminAuth ------------------------------
(***************************************************************************)
(* The administrators, their roles and what they may do. Each request to   *)
(* the administration first asks for the authorization of its              *)
(* administrator, which Redis keeps for five minutes; an edit of a user or *)
(* of a role deletes the entries of the administrators it concerns, after  *)
(* its transaction. The first administrator is made by the processes that  *)
(* start.                                                                  *)
(***************************************************************************)
EXTENDS Naturals

CONSTANTS
    Admins,        \* ids of rows of admin_user there are or may be
    First,         \* the one with the configured initial name
    Roles,         \* ids of rows of admin_role there are or may be
    Super,         \* the role super_admin, which the migration inserts
    Perms,         \* permission codes
    Edit,          \* the code the editing routes require; it stands for those of them all
    Homes,         \* businesses: an administrator belongs to one, a role may name some
    All, Own,      \* the data scopes "all" and "own business (or user)"
    NoAdmin, NoRole, NoAuth,  \* no such row; nothing in the cache
    RoleForms,     \* bound: the permissions and scopes that editors give to roles
    Requests,      \* requests to the administration in progress at a time
    Starters,      \* processes of cmd/api and cmd/worker
    DeleteWorks,   \* whether gorm can delete the rows of a structure without a name
    MaxEdits,      \* bound: edits
    Faults,        \* the kinds of fault that may happen
    MaxFaults      \* bound: how many faults happen

AdminFaultKinds == {"db", "redis", "crash"}

ASSUME BoundsAssumption == MaxEdits \in Nat /\ MaxFaults \in Nat /\ DeleteWorks \in BOOLEAN
ASSUME IdsAssumption == First \in Admins /\ Super \in Roles /\ Edit \in Perms /\ Own \notin Homes \cup {All}

\* A row of admin_user: enabled or not, and its business. A role: one that is
\* disabled gives nothing, like one with empty sets. An authorization: permissions
\* and data.
AdminRows == [enabled : BOOLEAN, home : Homes]
RoleRows == [perms : SUBSET Perms, scope : SUBSET (Homes \cup {All, Own})]
Auths == [perms : SUBSET Perms, data : SUBSET (Homes \cup {All})]

ASSUME RowsAssumption ==
    NoAdmin \notin AdminRows /\ NoRole \notin RoleRows /\ NoAuth \notin Auths
    /\ RoleForms \subseteq RoleRows

VARIABLES
    admins,    \* admin_user
    rolesOf,   \* admin_user_role
    roles,     \* admin_role with its permissions and scopes
    cached,    \* the Redis entry of each administrator
    tokens,    \* administrators that have logged in
    stage,     \* where each process is: "off", "create", "assign" or "serve"
    at,        \* where each request is
    who,       \* its administrator
    home,      \* the business it has read
    got,       \* the authorization it has read so far
    target,    \* the administrator it has created, or the role it configures
    todo,      \* the entries it deletes when its edit is done
    outdated,  \* history: what it has read of its administrator has changed since
    excused,   \* history: entries that no edit will delete any more
    edits,     \* edits so far
    faults     \* faults that have happened

rbacVars == <<admins, rolesOf, roles>>
flowVars == <<who, home, got, target>>
vars == <<rbacVars, cached, tokens, stage, at, flowVars, todo, outdated, excused, edits, faults>>

-----------------------------------------------------------------------------
(* Helpers. An operator whose name ends in _Bug is a mutated form of the one     *)
(* after it, with a plausible mistake: a property must fail when it takes over.   *)

Fault(kind) == kind \in Faults /\ faults < MaxFaults /\ faults' = faults + 1

Held(a) == {r \in rolesOf[a] : roles[r] # NoRole}

\* The three queries of AdminAuthorization: the row, the permissions of all its
\* roles, and their scopes, resolved with the business of the row that was read.
PermissionsOf(a) == UNION {roles[r].perms : r \in Held(a)}
ScopesOf(a, business) ==
    LET S == UNION {roles[r].scope : r \in Held(a)}
    IN  IF Own \in S THEN (S \ {Own}) \cup {business} ELSE S

\* What MySQL gives an administrator now.
Effective(a) ==
    IF admins[a] = NoAdmin \/ ~admins[a].enabled THEN NoAuth
    ELSE [perms |-> PermissionsOf(a), data |-> ScopesOf(a, admins[a].home)]

Cached == {a \in Admins : cached[a] # NoAuth}

\* History. A request that is reading is outdated by a commit that changes what
\* the authorization of its administrator is made of.
Same(a) ==
    /\ admins'[a] = admins[a] /\ rolesOf'[a] = rolesOf[a]
    /\ \A r \in rolesOf[a] : roles'[r] = roles[r]
Reading(q) == at[q] \in {"perms", "scopes", "store"}
Commit ==
    /\ edits < MaxEdits /\ edits' = edits + 1
    /\ outdated' = [q \in Requests |-> Reading(q) /\ (outdated[q] \/ ~Same(who[q]))]

Go(q, place) == at' = [at EXCEPT ![q] = place]

\* A request ends, and forgets.
Done(q) ==
    /\ Go(q, "idle")
    /\ who' = [who EXCEPT ![q] = NoAdmin]
    /\ home' = [home EXCEPT ![q] = NoAdmin]
    /\ got' = [got EXCEPT ![q] = NoAuth]
    /\ target' = [target EXCEPT ![q] = NoRole]
    /\ todo' = [todo EXCEPT ![q] = {}]

Init ==
    /\ admins = [a \in Admins |-> NoAdmin]
    /\ rolesOf = [a \in Admins |-> {}]
    /\ roles = [r \in Roles |-> IF r = Super THEN [perms |-> Perms, scope |-> {All}]
                                ELSE NoRole]
    /\ cached = [a \in Admins |-> NoAuth] /\ tokens = {}
    /\ stage = [s \in Starters |-> "off"]
    /\ at = [q \in Requests |-> "idle"]
    /\ who = [q \in Requests |-> NoAdmin] /\ home = [q \in Requests |-> NoAdmin]
    /\ got = [q \in Requests |-> NoAuth] /\ target = [q \in Requests |-> NoRole]
    /\ todo = [q \in Requests |-> {}] /\ outdated = [q \in Requests |-> FALSE]
    /\ excused = {} /\ edits = 0 /\ faults = 0

-----------------------------------------------------------------------------
(* A process starts: bootstrap.New, whose steps after the administrator are in   *)
(* SearchOutbox and Seckill. A failure of any step ends the process.              *)

StartersOnly == UNCHANGED <<cached, tokens, at, flowVars, todo>>
Move(s, place) == stage' = [stage EXCEPT ![s] = place]

Idle == UNCHANGED <<rbacVars, outdated, excused, edits>> /\ StartersOnly

\* Databases and Redis are open; the administrators are counted.
CountAdmins(s) ==
    /\ stage[s] = "off"
    /\ Move(s, IF \E a \in Admins : admins[a] # NoAdmin THEN "serve" ELSE "create")
    /\ UNCHANGED faults /\ Idle

\* The INSERT of the initial name, which uk_admin_username lets one process do.
CreateFirst(s) ==
    /\ stage[s] = "create"
    /\ IF admins[First] = NoAdmin
       THEN /\ \E b \in Homes :
                   admins' = [admins EXCEPT ![First] = [enabled |-> TRUE, home |-> b]]
            /\ Move(s, "assign")
       ELSE Move(s, "off") /\ UNCHANGED admins
    /\ UNCHANGED <<rolesOf, roles, excused, outdated, edits, faults>> /\ StartersOnly

\* RoleByCode and AssignAdminRoles.
AssignFirst(s) ==
    /\ stage[s] = "assign"
    /\ IF DeleteWorks
       THEN /\ rolesOf' = [rolesOf EXCEPT ![First] = {Super}]
            /\ excused' = excused \cup ({First} \cap Cached)
            /\ outdated' = [q \in Requests |-> Reading(q) /\ (outdated[q] \/ who[q] = First)]
            /\ Move(s, "serve")
       ELSE Move(s, "off") /\ UNCHANGED <<rolesOf, excused, outdated>>
    /\ UNCHANGED <<admins, roles, edits, faults>> /\ StartersOnly

\* A step of the start fails, or the process stops.
Stop(s) ==
    /\ stage[s] # "off"
    /\ Fault("crash") \/ Fault("db")
    /\ Move(s, "off")
    /\ Idle

-----------------------------------------------------------------------------
(* A request: RequirePermission asks for the authorization, then the handler runs. *)

RequestsOnly == UNCHANGED <<stage, tokens>>
KeepData == UNCHANGED <<rbacVars, cached, excused, outdated, edits>>
KeepFlow == UNCHANGED <<flowVars, todo>>

\* A token is given to an administrator that is enabled, and outlives that.
Login(a) ==
    /\ \E s \in Starters : stage[s] = "serve"
    /\ admins[a] # NoAdmin /\ admins[a].enabled
    /\ tokens' = tokens \cup {a}
    /\ UNCHANGED <<stage, at, faults>> /\ KeepData /\ KeepFlow

\* RequirePermission: on to the handler, or refused.
Decide(q, a, auth) ==
    IF Edit \in auth.perms
    THEN /\ Go(q, "work")
         /\ who' = [who EXCEPT ![q] = a]
         /\ got' = [got EXCEPT ![q] = NoAuth] /\ home' = [home EXCEPT ![q] = NoAdmin]
         /\ UNCHANGED <<target, todo>>
    ELSE Done(q)

\* A request with a token that says who its administrator is.
AdminJWT(q, a) == at[q] = "idle" /\ a \in tokens /\ \E s \in Starters : stage[s] = "serve"

\* Authorization: the GET finds an entry.
Hit(q, a) ==
    /\ AdminJWT(q, a)
    /\ cached[a] # NoAuth
    /\ Decide(q, a, cached[a])
    /\ UNCHANGED faults /\ KeepData /\ RequestsOnly

\* It finds none, or fails.
Miss(q, a) ==
    /\ AdminJWT(q, a)
    /\ (cached[a] = NoAuth /\ UNCHANGED faults) \/ Fault("redis")
    /\ Go(q, "row")
    /\ who' = [who EXCEPT ![q] = a]
    /\ UNCHANGED <<home, got, target, todo>> /\ KeepData /\ RequestsOnly

\* AdminByID: one that is disabled ends the request.
ReadAdmin(q) ==
    /\ at[q] = "row"
    /\ IF Effective(who[q]) = NoAuth THEN Done(q)
       ELSE /\ Go(q, "perms")
            /\ home' = [home EXCEPT ![q] = admins[who[q]].home]
            /\ UNCHANGED <<who, got, target, todo>>
    /\ UNCHANGED faults /\ KeepData /\ RequestsOnly

ReadPermissions(q) ==
    /\ at[q] = "perms"
    /\ Go(q, "scopes")
    /\ got' = [got EXCEPT ![q] = [perms |-> PermissionsOf(who[q]), data |-> {}]]
    /\ UNCHANGED <<who, home, target, todo, faults>> /\ KeepData /\ RequestsOnly

ReadScopes(q) ==
    /\ at[q] = "scopes"
    /\ Go(q, "store")
    /\ got' = [got EXCEPT ![q].data = ScopesOf(who[q], home[q])]
    /\ UNCHANGED <<who, home, target, todo, faults>> /\ KeepData /\ RequestsOnly

\* SET with five minutes to live; its error is dropped.
StoreAuth(q) ==
    /\ at[q] = "store"
    /\ \/ /\ cached' = [cached EXCEPT ![who[q]] = got[q]]
          /\ excused' = IF outdated[q] THEN excused \cup {who[q]} ELSE excused \ {who[q]}
          /\ UNCHANGED faults
       \/ Fault("redis") /\ UNCHANGED <<cached, excused>>
    /\ Decide(q, who[q], got[q])
    /\ outdated' = [outdated EXCEPT ![q] = FALSE]
    /\ UNCHANGED <<rbacVars, edits>> /\ RequestsOnly

\* Mutant: SET without a time to live.
Expire_Bug(a) == a \notin Admins /\ UNCHANGED vars

\* The five minutes are over.
Expire(a) ==
    /\ cached[a] # NoAuth
    /\ cached' = [cached EXCEPT ![a] = NoAuth] /\ excused' = excused \ {a}
    /\ UNCHANGED <<rbacVars, at, outdated, edits, faults>> /\ KeepFlow /\ RequestsOnly

-----------------------------------------------------------------------------
(* The edits. A form that is refused, a version that has moved on or a statement   *)
(* that fails changes nothing and ends the request.                                 *)

Refuse(q) ==
    /\ at[q] \in {"work", "assign", "configure"}
    /\ Done(q)
    /\ UNCHANGED faults /\ KeepData /\ RequestsOnly

\* An edit is committed. Its request goes on to delete the entries of ids, those of
\* missed have nobody; when the answer of the commit is lost none is deleted.
Committed(q, ids, missed) ==
    /\ Commit
    /\ \/ /\ Go(q, "del") /\ todo' = [todo EXCEPT ![q] = ids]
          /\ excused' = excused \cup (missed \cap Cached)
          /\ UNCHANGED <<flowVars, faults>>
       \/ /\ Fault("db") /\ Done(q)
          /\ excused' = excused \cup ((ids \cup missed) \cap Cached)
    /\ UNCHANGED cached /\ RequestsOnly

\* UpdateUser.
UpdateUser(q, a, row) ==
    /\ at[q] = "work" /\ admins[a] # NoAdmin
    /\ admins' = [admins EXCEPT ![a] = row]
    /\ UNCHANGED <<rolesOf, roles>>
    /\ Committed(q, {a}, {})

\* Mutant: the entry of the editor is deleted.
AssignRoles_Bug(q, a, R) ==
    /\ at[q] = "work" /\ DeleteWorks
    /\ rolesOf' = [rolesOf EXCEPT ![a] = R]
    /\ UNCHANGED <<admins, roles>>
    /\ Committed(q, {who[q]}, {})

\* AssignRoles. Nothing asks whether the roles, or the user, exist.
AssignRoles(q, a, R) ==
    /\ at[q] = "work" /\ DeleteWorks
    /\ rolesOf' = [rolesOf EXCEPT ![a] = R]
    /\ UNCHANGED <<admins, roles>>
    /\ Committed(q, {a}, {})

\* Mutant: the id of the new row is not kept.
CreateUser_Bug(q, a, row) ==
    /\ at[q] = "work" /\ admins[a] = NoAdmin
    /\ admins' = [admins EXCEPT ![a] = row]
    /\ UNCHANGED <<rolesOf, roles>>
    /\ Commit
    /\ Go(q, "assign")
    /\ UNCHANGED <<cached, excused, flowVars, todo, faults>> /\ RequestsOnly

\* CreateUser commits the row ...
CreateUser(q, a, row) ==
    /\ at[q] = "work" /\ admins[a] = NoAdmin
    /\ admins' = [admins EXCEPT ![a] = row]
    /\ UNCHANGED <<rolesOf, roles>>
    /\ Commit
    /\ Go(q, "assign") /\ target' = [target EXCEPT ![q] = a]
    /\ UNCHANGED <<cached, excused, who, home, got, todo, faults>> /\ RequestsOnly

\* ... then the roles, and deletes no entry.
AssignNew(q, R) ==
    /\ at[q] = "assign" /\ DeleteWorks
    /\ rolesOf' = [rolesOf EXCEPT ![target[q]] = R]
    /\ UNCHANGED <<admins, roles>>
    /\ Commit
    /\ excused' = excused \cup ({target[q]} \cap Cached)
    /\ Done(q)
    /\ UNCHANGED <<cached, faults>> /\ RequestsOnly

\* CreateRole gives a scope and no permission. An id that was assigned before is held.
CreateRole(q, r, form) ==
    /\ at[q] = "work" /\ roles[r] = NoRole
    /\ roles' = [roles EXCEPT ![r] = [form EXCEPT !.perms = {}]]
    /\ UNCHANGED <<admins, rolesOf>>
    /\ Committed(q, {}, {a \in Admins : r \in rolesOf[a]})

Holders(r) == {a \in Admins : r \in rolesOf[a]}

\* ConfigureRole reads who holds the role ...
AdminIDsByRole(q, r) ==
    /\ at[q] = "work" /\ roles[r] # NoRole
    /\ Go(q, "configure")
    /\ target' = [target EXCEPT ![q] = r] /\ todo' = [todo EXCEPT ![q] = Holders(r)]
    /\ UNCHANGED <<who, home, got, faults>> /\ KeepData /\ RequestsOnly

\* ... and changes it. Whoever was given it in between is missed.
ConfigureRole(q, form) ==
    /\ at[q] = "configure" /\ DeleteWorks
    /\ roles' = [roles EXCEPT ![target[q]] = form]
    /\ UNCHANGED <<admins, rolesOf>>
    /\ Committed(q, todo[q], Holders(target[q]) \ todo[q])

\* DEL, or an error that is dropped.
InvalidateAuthorization(q) ==
    /\ at[q] = "del"
    /\ \/ /\ cached' = [a \in Admins |-> IF a \in todo[q] THEN NoAuth ELSE cached[a]]
          /\ excused' = excused \ todo[q] /\ UNCHANGED faults
       \/ /\ Fault("redis") /\ UNCHANGED cached
          /\ excused' = excused \cup (todo[q] \cap Cached)
    /\ Done(q)
    /\ UNCHANGED <<rbacVars, outdated, edits>> /\ RequestsOnly

\* The process stops with the request in hand, or a read fails.
Abort(q) ==
    /\ at[q] # "idle"
    /\ Fault("crash") \/ (Fault("db") /\ at[q] \in {"row", "perms", "scopes"})
    /\ excused' = IF at[q] = "del" THEN excused \cup (todo[q] \cap Cached) ELSE excused
    /\ Done(q)
    /\ outdated' = [outdated EXCEPT ![q] = FALSE]
    /\ UNCHANGED <<rbacVars, cached, edits>> /\ RequestsOnly

-----------------------------------------------------------------------------
StartUp(s) == CountAdmins(s) \/ CreateFirst(s) \/ AssignFirst(s) \/ Stop(s)

Authorization(q) ==
    \/ \E a \in Admins : Hit(q, a) \/ Miss(q, a)
    \/ ReadAdmin(q) \/ ReadPermissions(q) \/ ReadScopes(q) \/ StoreAuth(q)

Handle(q) ==
    \/ \E a \in Admins, row \in AdminRows : UpdateUser(q, a, row) \/ CreateUser(q, a, row)
    \/ \E a \in Admins, R \in SUBSET Roles : AssignRoles(q, a, R)
    \/ \E R \in SUBSET Roles : AssignNew(q, R)
    \/ \E r \in Roles, form \in RoleForms : CreateRole(q, r, form)
    \/ \E r \in Roles : AdminIDsByRole(q, r)
    \/ \E form \in RoleForms : ConfigureRole(q, form)
    \/ Refuse(q) \/ InvalidateAuthorization(q) \/ Abort(q)

Next ==
    \/ \E s \in Starters : StartUp(s)
    \/ \E a \in Admins : Login(a) \/ Expire(a)
    \/ \E q \in Requests : Authorization(q) \/ Handle(q)

Spec == Init /\ [][Next]_vars

\* Entries expire, and what a request has begun goes on. Nobody has to ask anything.
Fairness ==
    /\ \A a \in Admins : WF_vars(Expire(a))
    /\ \A q \in Requests :
          /\ WF_vars(ReadAdmin(q)) /\ WF_vars(ReadPermissions(q)) /\ WF_vars(ReadScopes(q))
          /\ WF_vars(StoreAuth(q)) /\ WF_vars(InvalidateAuthorization(q))

FairSpec == Spec /\ Fairness

-----------------------------------------------------------------------------
(* Properties. *)

\* What a request has in hand fits where it is.
Fits(q) ==
    /\ at[q] \in {"row", "perms", "scopes", "store"} => who[q] \in Admins
    /\ Reading(q) => home[q] \in Homes
    /\ at[q] \in {"scopes", "store"} => got[q] \in Auths
    /\ at[q] = "assign" => target[q] \in Admins
    /\ at[q] = "configure" => target[q] \in Roles

\* Types; a request has read what it stores, and knows the administrator or the role
\* it goes on with (Authorization, CreateUser, ConfigureRole).
TypeOK ==
    /\ admins \in [Admins -> AdminRows \cup {NoAdmin}]
    /\ rolesOf \in [Admins -> SUBSET Roles]
    /\ roles \in [Roles -> RoleRows \cup {NoRole}]
    /\ cached \in [Admins -> Auths \cup {NoAuth}]
    /\ tokens \subseteq Admins
    /\ stage \in [Starters -> {"off", "create", "assign", "serve"}]
    /\ at \in [Requests -> {"idle", "row", "perms", "scopes", "store", "work", "assign",
                             "configure", "del"}]
    /\ who \in [Requests -> Admins \cup {NoAdmin}]
    /\ home \in [Requests -> Homes \cup {NoAdmin}]
    /\ got \in [Requests -> Auths \cup {NoAuth}]
    /\ target \in [Requests -> Admins \cup Roles \cup {NoRole}]
    /\ todo \in [Requests -> SUBSET Admins]
    /\ outdated \in [Requests -> BOOLEAN]
    /\ excused \subseteq Admins /\ edits \in Nat /\ faults \in Nat
    /\ \A q \in Requests : Fits(q)

\* An entry that says something else than MySQL is about to be deleted by the edit
\* that made it wrong, unless it is one of the known exceptions: it was stored by a
\* request whose reading an edit overlapped, the DEL or the answer of the commit was
\* lost, the administrator was given the role while it was being configured, or it
\* logged in before CreateUser gave it its roles (InvalidateAuthorization and all
\* its callers).
StaleExplained ==
    \A a \in Cached :
        cached[a] # Effective(a)
        => a \in excused \/ \E q \in Requests : at[q] = "del" /\ a \in todo[q]

\* Where gorm cannot delete the rows of a structure without a name, which is how the
\* code has it, nobody ever has a role, the first administrator neither, and no request
\* gets past RequirePermission (AssignAdminRoles, Bootstrap).
NobodyEdits ==
    /\ \A a \in Admins : rolesOf[a] = {}
    /\ \A q \in Requests : at[q] \notin {"work", "assign", "configure", "del"}

\* When edits end, every entry says what MySQL says, for good: what was revoked is
\* revoked, whatever raced with it or failed (authCacheTTL).
AuthorizationSettles ==
    <>[](\A a \in Cached : cached[a] = Effective(a))
=============================================================================
