------------------------------ MODULE AdminProof ------------------------------
(***************************************************************************)
(* Proofs about AdminAuth, for any administrators, roles, requests,        *)
(* processes, edits and faults.                                            *)
(***************************************************************************)
EXTENDS AdminAuth, TLAPS

\* What a request has read so far is what MySQL has, unless an edit of its
\* administrator has been committed since: so what it stores is, too.
Accurate ==
    \A q \in Requests :
        Reading(q) /\ ~outdated[q] =>
            /\ admins[who[q]] # NoAdmin /\ admins[who[q]].enabled
            /\ home[q] = admins[who[q]].home
            /\ at[q] \in {"scopes", "store"} => got[q].perms = PermissionsOf(who[q])
            /\ at[q] = "store" => got[q].data = ScopesOf(who[q], home[q])

\* The inductive invariant.
IInv == TypeOK /\ Accurate /\ StaleExplained

-----------------------------------------------------------------------------
(* Types. *)

\* The two unions are sets of permissions and of scopes.
LEMMA UnionTypes ==
    ASSUME TypeOK, NEW a \in Admins
    PROVE  /\ PermissionsOf(a) \in SUBSET Perms
           /\ \A b \in Homes : ScopesOf(a, b) \in SUBSET (Homes \cup {All})
<1>1. \A r \in Held(a) : roles[r] \in RoleRows
  BY DEF TypeOK, Held
<1>2. \A r \in Held(a) : /\ roles[r].perms \in SUBSET Perms
                         /\ roles[r].scope \in SUBSET (Homes \cup {All, Own})
  BY <1>1 DEF RoleRows
<1> QED
  BY <1>2, IdsAssumption DEF PermissionsOf, ScopesOf

\* The initial state has the types (Init).
LEMMA TypeCorrect_Init == Init => TypeOK
  BY BoundsAssumption, RowsAssumption, IdsAssumption DEF Init, TypeOK, Fits, Reading, RoleRows

\* A step that no request takes changes nothing for any.
LEMMA Fits_Kept ==
    ASSUME \A q \in Requests : Fits(q), UNCHANGED <<at, flowVars>>
    PROVE  \A q \in Requests : Fits(q)'
  BY DEF Fits, Reading, flowVars

\* A step of a request concerns that one only.
LEMMA Fits_Moved ==
    ASSUME TypeOK, NEW q \in Requests, Fits(q)',
           \A p \in Requests \ {q} : /\ at'[p] = at[p] /\ who'[p] = who[p] /\ home'[p] = home[p]
                                     /\ got'[p] = got[p] /\ target'[p] = target[p]
    PROVE  \A p \in Requests : Fits(p)'
<1> SUFFICES ASSUME NEW p \in Requests, p # q PROVE Fits(p)'
  OBVIOUS
<1>1. Fits(p)
  BY DEF TypeOK
<1> QED
  BY <1>1 DEF Fits, Reading

\* The end of a request.
LEMMA Done_Types ==
    ASSUME TypeOK, NEW q \in Requests, Done(q)
    PROVE  /\ at' \in [Requests -> {"idle", "row", "perms", "scopes", "store", "work", "assign",
                                    "configure", "del"}]
           /\ who' \in [Requests -> Admins \cup {NoAdmin}]
           /\ home' \in [Requests -> Homes \cup {NoAdmin}]
           /\ got' \in [Requests -> Auths \cup {NoAuth}]
           /\ target' \in [Requests -> Admins \cup Roles \cup {NoRole}]
           /\ todo' \in [Requests -> SUBSET Admins]
           /\ \A p \in Requests : Fits(p)'
<1>1. Fits(q)'
  BY DEF TypeOK, Done, Go, Fits, Reading
<1>2. \A p \in Requests \ {q} : /\ at'[p] = at[p] /\ who'[p] = who[p] /\ home'[p] = home[p]
                                /\ got'[p] = got[p] /\ target'[p] = target[p]
  BY DEF TypeOK, Done, Go
<1>3. \A p \in Requests : Fits(p)'
  BY <1>1, <1>2, Fits_Moved
<1> QED
  BY <1>3 DEF TypeOK, Done, Go

\* The decision of RequirePermission.
LEMMA Decide_Types ==
    ASSUME TypeOK, NEW q \in Requests, NEW a \in Admins, NEW auth, Decide(q, a, auth)
    PROVE  /\ at' \in [Requests -> {"idle", "row", "perms", "scopes", "store", "work", "assign",
                                    "configure", "del"}]
           /\ who' \in [Requests -> Admins \cup {NoAdmin}]
           /\ home' \in [Requests -> Homes \cup {NoAdmin}]
           /\ got' \in [Requests -> Auths \cup {NoAuth}]
           /\ target' \in [Requests -> Admins \cup Roles \cup {NoRole}]
           /\ todo' \in [Requests -> SUBSET Admins]
           /\ \A p \in Requests : Fits(p)'
<1>1. CASE Edit \in auth.perms
  <2>1. Fits(q)'
    BY <1>1 DEF TypeOK, Decide, Go, Fits, Reading
  <2>2. \A p \in Requests \ {q} : /\ at'[p] = at[p] /\ who'[p] = who[p] /\ home'[p] = home[p]
                                  /\ got'[p] = got[p] /\ target'[p] = target[p]
    BY <1>1 DEF TypeOK, Decide, Go
  <2>3. \A p \in Requests : Fits(p)'
    BY <2>1, <2>2, Fits_Moved
  <2> QED
    BY <1>1, <2>3 DEF TypeOK, Decide, Go
<1>2. CASE Edit \notin auth.perms
  BY <1>2, Done_Types DEF Decide
<1> QED
  BY <1>1, <1>2

\* The processes that start keep the types.
LEMMA TypeCorrect_StartUp ==
    ASSUME TypeOK, NEW s \in Starters, StartUp(s)
    PROVE  TypeOK'
<1>1. \A q \in Requests : Fits(q)'
  BY Fits_Kept DEF TypeOK, StartUp, CountAdmins, CreateFirst, AssignFirst, Stop, Idle, StartersOnly
<1> USE <1>1 DEF Move, Idle, StartersOnly, rbacVars, flowVars
<1>2. CASE CountAdmins(s)
  BY <1>2 DEF TypeOK, CountAdmins
<1>3. CASE CreateFirst(s)
  <2>1. admins' \in [Admins -> AdminRows \cup {NoAdmin}]
    <3>1. CASE admins[First] # NoAdmin
      BY <1>3, <3>1 DEF TypeOK, CreateFirst
    <3>2. CASE admins[First] = NoAdmin
      <4>1. PICK b \in Homes : admins' = [admins EXCEPT ![First] = [enabled |-> TRUE, home |-> b]]
        BY <1>3, <3>2 DEF CreateFirst
      <4>2. [enabled |-> TRUE, home |-> b] \in AdminRows
        BY DEF AdminRows
      <4> QED
        BY <4>1, <4>2 DEF TypeOK
    <3> QED
      BY <3>1, <3>2
  <2> QED
    BY <1>3, <2>1 DEF TypeOK, CreateFirst
<1>4. CASE AssignFirst(s)
  <2>1. outdated' \in [Requests -> BOOLEAN]
    BY <1>4 DEF TypeOK, AssignFirst, Reading
  <2>2. rolesOf' \in [Admins -> SUBSET Roles]
    BY <1>4, IdsAssumption DEF TypeOK, AssignFirst
  <2> QED
    BY <1>4, <2>1, <2>2, IdsAssumption DEF TypeOK, AssignFirst, Cached
<1>5. CASE Stop(s)
  BY <1>5 DEF TypeOK, Stop, Fault
<1> QED
  BY <1>2, <1>3, <1>4, <1>5 DEF StartUp

\* So do logins and the time.
LEMMA TypeCorrect_Admins ==
    ASSUME TypeOK, NEW a \in Admins, Login(a) \/ Expire(a)
    PROVE  TypeOK'
<1>1. \A q \in Requests : Fits(q)'
  BY Fits_Kept DEF TypeOK, Login, Expire, KeepFlow
<1> USE <1>1 DEF KeepData, KeepFlow, RequestsOnly, rbacVars, flowVars
<1>2. CASE Login(a)
  BY <1>2 DEF TypeOK, Login
<1>3. CASE Expire(a)
  BY <1>3 DEF TypeOK, Expire
<1> QED
  BY <1>2, <1>3

\* The steps of a request up to the handler.
LEMMA TypeCorrect_Authorization ==
    ASSUME TypeOK, NEW q \in Requests, Authorization(q)
    PROVE  TypeOK'
<1> USE DEF KeepData, KeepFlow, RequestsOnly, rbacVars, flowVars
<1> DEFINE Others == \A p \in Requests \ {q} :
                        /\ at'[p] = at[p] /\ who'[p] = who[p] /\ home'[p] = home[p]
                        /\ got'[p] = got[p] /\ target'[p] = target[p]
<1>0. TypeOK => Fits(q)
  BY DEF TypeOK
<1>1. ASSUME NEW a \in Admins, Hit(q, a) PROVE TypeOK'
  <2>1. Decide(q, a, cached[a])
    BY <1>1 DEF Hit, AdminJWT
  <2> QED
    BY <1>1, <2>1, Decide_Types DEF TypeOK, Hit, AdminJWT
<1>2. ASSUME NEW a \in Admins, Miss(q, a) PROVE TypeOK'
  <2>1. Others /\ Fits(q)'
    BY <1>2 DEF TypeOK, Miss, AdminJWT, Go, Fits, Reading
  <2>2. \A p \in Requests : Fits(p)'
    BY <2>1, Fits_Moved
  <2> QED
    BY <1>2, <2>2 DEF TypeOK, Miss, AdminJWT, Fault, Go
<1>3. CASE ReadAdmin(q)
  <2>1. CASE Effective(who[q]) = NoAuth
    BY <1>3, <2>1, Done_Types DEF TypeOK, ReadAdmin
  <2>2. CASE Effective(who[q]) # NoAuth
    <3>1. who[q] \in Admins /\ admins[who[q]].home \in Homes
      BY <1>0, <1>3, <2>2 DEF TypeOK, Fits, ReadAdmin, Effective, AdminRows
    <3>2. Others /\ Fits(q)'
      BY <1>3, <2>2, <3>1 DEF TypeOK, ReadAdmin, Go, Fits, Reading
    <3>3. \A p \in Requests : Fits(p)'
      BY <3>2, Fits_Moved
    <3> QED
      BY <1>3, <2>2, <3>1, <3>3 DEF TypeOK, ReadAdmin, Go
  <2> QED
    BY <2>1, <2>2
<1>4. CASE ReadPermissions(q)
  <2>1. who[q] \in Admins /\ home[q] \in Homes
    BY <1>0, <1>4 DEF Fits, Reading, ReadPermissions
  <2>2. [perms |-> PermissionsOf(who[q]), data |-> {}] \in Auths
    BY <2>1, UnionTypes DEF Auths
  <2>3. Others /\ Fits(q)'
    BY <1>4, <2>1, <2>2 DEF TypeOK, ReadPermissions, Go, Fits, Reading
  <2>4. \A p \in Requests : Fits(p)'
    BY <2>3, Fits_Moved
  <2> QED
    BY <1>4, <2>2, <2>4 DEF TypeOK, ReadPermissions, Go
<1>5. CASE ReadScopes(q)
  <2>1. who[q] \in Admins /\ home[q] \in Homes /\ got[q] \in Auths
    BY <1>0, <1>5 DEF Fits, Reading, ReadScopes
  <2>2. [got[q] EXCEPT !.data = ScopesOf(who[q], home[q])] \in Auths
    BY <2>1, UnionTypes DEF Auths
  <2>3. Others /\ Fits(q)'
    BY <1>5, <2>1, <2>2 DEF TypeOK, ReadScopes, Go, Fits, Reading
  <2>4. \A p \in Requests : Fits(p)'
    BY <2>3, Fits_Moved
  <2> QED
    BY <1>5, <2>2, <2>4 DEF TypeOK, ReadScopes, Go
<1>6. CASE StoreAuth(q)
  <2>1. who[q] \in Admins /\ got[q] \in Auths
    BY <1>0, <1>6 DEF Fits, StoreAuth
  <2>2. Decide(q, who[q], got[q])
    BY <1>6 DEF StoreAuth
  <2>3. /\ cached' \in [Admins -> Auths \cup {NoAuth}] /\ excused' \subseteq Admins
        /\ outdated' \in [Requests -> BOOLEAN] /\ faults' \in Nat
    BY <1>6, <2>1 DEF TypeOK, StoreAuth, Fault
  <2> QED
    BY <1>6, <2>1, <2>2, <2>3, Decide_Types DEF TypeOK, StoreAuth
<1> QED
  BY <1>1, <1>2, <1>3, <1>4, <1>5, <1>6 DEF Authorization

\* An edit whose request goes on to delete entries keeps the types.
LEMMA TypeCorrect_Committed ==
    ASSUME TypeOK, NEW q \in Requests, NEW ids \in SUBSET Admins, NEW missed \in SUBSET Admins,
           Committed(q, ids, missed),
           admins' \in [Admins -> AdminRows \cup {NoAdmin}],
           rolesOf' \in [Admins -> SUBSET Roles],
           roles' \in [Roles -> RoleRows \cup {NoRole}]
    PROVE  TypeOK'
<1>1. /\ cached' = cached /\ stage' = stage /\ tokens' = tokens /\ edits' \in Nat
      /\ faults' \in Nat /\ excused' \subseteq Admins /\ outdated' \in [Requests -> BOOLEAN]
  BY DEF TypeOK, Committed, Commit, Cached, Fault, RequestsOnly, Reading
<1>2. CASE Done(q)
  BY <1>1, <1>2, Done_Types DEF TypeOK
<1>3. CASE Go(q, "del") /\ todo' = [todo EXCEPT ![q] = ids] /\ UNCHANGED flowVars
  <2>1. Fits(q)'
    BY <1>3 DEF TypeOK, Go, Fits, Reading
  <2>2. \A p \in Requests \ {q} : /\ at'[p] = at[p] /\ who'[p] = who[p] /\ home'[p] = home[p]
                                  /\ got'[p] = got[p] /\ target'[p] = target[p]
    BY <1>3 DEF TypeOK, Go, flowVars
  <2>3. \A p \in Requests : Fits(p)'
    BY <2>1, <2>2, Fits_Moved
  <2> QED
    BY <1>1, <1>3, <2>3 DEF TypeOK, Go, flowVars
<1> QED
  BY <1>2, <1>3 DEF Committed

\* The handlers.
LEMMA TypeCorrect_Handle ==
    ASSUME TypeOK, NEW q \in Requests, Handle(q)
    PROVE  TypeOK'
<1> USE DEF KeepData, RequestsOnly, rbacVars
<1> DEFINE Others == \A p \in Requests \ {q} :
                        /\ at'[p] = at[p] /\ who'[p] = who[p] /\ home'[p] = home[p]
                        /\ got'[p] = got[p] /\ target'[p] = target[p]
<1>0. Fits(q)
  BY DEF TypeOK
<1>1. ASSUME NEW a \in Admins, NEW row \in AdminRows, UpdateUser(q, a, row) PROVE TypeOK'
  <2>1. /\ admins' \in [Admins -> AdminRows \cup {NoAdmin}]
        /\ rolesOf' \in [Admins -> SUBSET Roles] /\ roles' \in [Roles -> RoleRows \cup {NoRole}]
    BY <1>1 DEF TypeOK, UpdateUser
  <2>2. Committed(q, {a}, {})
    BY <1>1 DEF UpdateUser
  <2> QED
    BY <2>1, <2>2, TypeCorrect_Committed
<1>2. ASSUME NEW a \in Admins, NEW row \in AdminRows, CreateUser(q, a, row) PROVE TypeOK'
  <2>1. Others /\ at'[q] = "assign" /\ target'[q] = a
    BY <1>2 DEF TypeOK, CreateUser, Go
  <2>2. \A p \in Requests : Fits(p)'
    BY <2>1, Fits_Moved DEF Fits, Reading
  <2>3. edits' \in Nat /\ outdated' \in [Requests -> BOOLEAN]
    BY <1>2 DEF TypeOK, CreateUser, Commit, Reading
  <2> QED
    BY <1>2, <2>2, <2>3 DEF TypeOK, CreateUser, Go
<1>3. ASSUME NEW a \in Admins, NEW R \in SUBSET Roles, AssignRoles(q, a, R) PROVE TypeOK'
  <2>1. /\ admins' \in [Admins -> AdminRows \cup {NoAdmin}]
        /\ rolesOf' \in [Admins -> SUBSET Roles] /\ roles' \in [Roles -> RoleRows \cup {NoRole}]
    BY <1>3 DEF TypeOK, AssignRoles
  <2>2. Committed(q, {a}, {})
    BY <1>3 DEF AssignRoles
  <2> QED
    BY <2>1, <2>2, TypeCorrect_Committed
<1>4. ASSUME NEW R \in SUBSET Roles, AssignNew(q, R) PROVE TypeOK'
  <2>1. edits' \in Nat /\ outdated' \in [Requests -> BOOLEAN] /\ excused' \subseteq Admins
    BY <1>4 DEF TypeOK, AssignNew, Commit, Reading, Cached
  <2> QED
    BY <1>4, <2>1, Done_Types DEF TypeOK, AssignNew
<1>5. ASSUME NEW r \in Roles, NEW form \in RoleForms, CreateRole(q, r, form) PROVE TypeOK'
  <2>1. [form EXCEPT !.perms = {}] \in RoleRows
    BY RowsAssumption DEF RoleRows
  <2>2. /\ admins' \in [Admins -> AdminRows \cup {NoAdmin}]
        /\ rolesOf' \in [Admins -> SUBSET Roles] /\ roles' \in [Roles -> RoleRows \cup {NoRole}]
    BY <1>5, <2>1 DEF TypeOK, CreateRole
  <2>3. Committed(q, {}, {a \in Admins : r \in rolesOf[a]})
    BY <1>5 DEF CreateRole
  <2> QED
    BY <2>2, <2>3, TypeCorrect_Committed
<1>6. ASSUME NEW r \in Roles, AdminIDsByRole(q, r) PROVE TypeOK'
  <2>1. Others /\ at'[q] = "configure" /\ target'[q] = r
    BY <1>6 DEF TypeOK, AdminIDsByRole, Go
  <2>2. \A p \in Requests : Fits(p)'
    BY <2>1, Fits_Moved DEF Fits, Reading
  <2> QED
    BY <1>6, <2>2 DEF TypeOK, AdminIDsByRole, Holders, Go
<1>7. ASSUME NEW form \in RoleForms, ConfigureRole(q, form) PROVE TypeOK'
  <2>1. /\ admins' \in [Admins -> AdminRows \cup {NoAdmin}]
        /\ rolesOf' \in [Admins -> SUBSET Roles] /\ roles' \in [Roles -> RoleRows \cup {NoRole}]
    BY <1>7, RowsAssumption DEF TypeOK, ConfigureRole
  <2>2. Committed(q, todo[q], Holders(target[q]) \ todo[q])
    BY <1>7 DEF ConfigureRole
  <2>3. todo[q] \in SUBSET Admins /\ Holders(target[q]) \ todo[q] \in SUBSET Admins
    BY DEF TypeOK, Holders
  <2> QED
    BY <2>1, <2>2, <2>3, TypeCorrect_Committed
<1>8. CASE Refuse(q)
  BY <1>8, Done_Types DEF TypeOK, Refuse
<1>9. CASE InvalidateAuthorization(q)
  BY <1>9, Done_Types DEF TypeOK, InvalidateAuthorization, Fault, Cached
<1>10. CASE Abort(q)
  BY <1>10, Done_Types DEF TypeOK, Abort, Fault, Cached
<1> QED
  BY <1>1, <1>2, <1>3, <1>4, <1>5, <1>6, <1>7, <1>8, <1>9, <1>10 DEF Handle

\* Every step keeps the types.
LEMMA TypeCorrect_Step == TypeOK /\ [Next]_vars => TypeOK'
<1> SUFFICES ASSUME TypeOK, [Next]_vars PROVE TypeOK'
  OBVIOUS
<1>1. CASE Next
  BY <1>1, TypeCorrect_StartUp, TypeCorrect_Admins, TypeCorrect_Authorization,
     TypeCorrect_Handle DEF Next
<1>2. CASE UNCHANGED vars
  BY <1>2, Fits_Kept DEF TypeOK, vars, rbacVars, flowVars
<1> QED
  BY <1>1, <1>2

\* Types, for any administrators, roles and requests (AdminAuth).
THEOREM TypeCorrect == Spec => []TypeOK
  BY TypeCorrect_Init, TypeCorrect_Step, PTL DEF Spec

-----------------------------------------------------------------------------
(* The entries. *)

\* What an authorization is made of decides it.
LEMMA Same_Effective ==
    ASSUME NEW a \in Admins, Same(a)
    PROVE  /\ Effective(a)' = Effective(a)
           /\ PermissionsOf(a)' = PermissionsOf(a)
           /\ \A b : ScopesOf(a, b)' = ScopesOf(a, b)
<1>1. Held(a)' = Held(a) /\ \A r \in Held(a) : roles'[r] = roles[r]
  BY DEF Same, Held
<1>2. {roles[r].perms : r \in Held(a)}' = {roles[r].perms : r \in Held(a)}
  BY <1>1
<1>3. {roles[r].scope : r \in Held(a)}' = {roles[r].scope : r \in Held(a)}
  BY <1>1
<1>4. PermissionsOf(a)' = PermissionsOf(a) /\ \A b : ScopesOf(a, b)' = ScopesOf(a, b)
  BY <1>2, <1>3 DEF PermissionsOf, ScopesOf
<1>5. admins'[a] = admins[a]
  BY DEF Same
<1> QED
  BY <1>4, <1>5 DEF Effective

\* A request that keeps what it has read, of an administrator nothing has changed
\* for, stays accurate.
LEMMA Accurate_Kept ==
    ASSUME IInv, NEW p \in Requests, Same(who[p]),
           at'[p] = at[p], who'[p] = who[p], home'[p] = home[p], got'[p] = got[p],
           Reading(p), ~outdated[p]
    PROVE  /\ admins'[who'[p]] # NoAdmin /\ admins'[who'[p]].enabled
           /\ home'[p] = admins'[who'[p]].home
           /\ at'[p] \in {"scopes", "store"} => got'[p].perms = PermissionsOf(who[p])'
           /\ at'[p] = "store" => got'[p].data = ScopesOf(who[p], home[p])'
<1>1. who[p] \in Admins
  BY DEF IInv, TypeOK, Fits, Reading
<1>2. admins'[who[p]] = admins[who[p]]
  BY DEF Same
<1> QED
  BY <1>1, <1>2, Same_Effective DEF IInv, Accurate

\* The initial state (Init).
LEMMA Inv_Init == Init => IInv
<1> SUFFICES ASSUME Init PROVE IInv
  OBVIOUS
<1>1. Accurate /\ StaleExplained
  BY DEF Init, Accurate, StaleExplained, Reading, Cached
<1> QED
  BY <1>1, TypeCorrect_Init DEF IInv

\* A commit keeps the invariant when every administrator it concerns is among those
\* whose entries are deleted or known to be missed (Committed).
LEMMA Inv_Committed ==
    ASSUME IInv, NEW q \in Requests, at[q] \in {"work", "configure"},
           NEW ids \in SUBSET Admins, NEW missed \in SUBSET Admins, Committed(q, ids, missed),
           \A a \in Admins \ (ids \cup missed) : Same(a)
    PROVE  Accurate' /\ StaleExplained'
<1>1. at'[q] \in {"del", "idle"} /\ cached' = cached
  BY DEF IInv, TypeOK, Committed, Go, Done
<1>2. \A p \in Requests \ {q} : /\ at'[p] = at[p] /\ who'[p] = who[p] /\ home'[p] = home[p]
                                /\ got'[p] = got[p] /\ todo'[p] = todo[p]
  BY DEF IInv, TypeOK, Committed, Go, Done, flowVars
<1>3. \A p \in Requests : Reading(p) /\ ~outdated'[p] => ~outdated[p] /\ Same(who[p])
  BY DEF Committed, Commit
<1>4. Accurate'
  <2> SUFFICES ASSUME NEW p \in Requests, Reading(p)', ~outdated'[p]
               PROVE  /\ admins'[who'[p]] # NoAdmin /\ admins'[who'[p]].enabled
                      /\ home'[p] = admins'[who'[p]].home
                      /\ at'[p] \in {"scopes", "store"} => got'[p].perms = PermissionsOf(who[p])'
                      /\ at'[p] = "store" => got'[p].data = ScopesOf(who[p], home[p])'
    BY DEF Accurate
  <2>1. p # q
    BY <1>1 DEF Reading
  <2>2. Reading(p)
    BY <1>2, <2>1 DEF Reading
  <2> QED
    BY <1>2, <1>3, <2>1, <2>2, Accurate_Kept
<1>5. StaleExplained'
  <2> SUFFICES ASSUME NEW a \in Admins, cached'[a] # NoAuth, cached'[a] # Effective(a)'
               PROVE  a \in excused' \/ \E p \in Requests : at'[p] = "del" /\ a \in todo'[p]
    BY DEF StaleExplained, Cached
  <2>1. a \in Cached /\ excused \subseteq excused'
    BY <1>1 DEF Cached, Committed
  <2>2. CASE a \in ids \cup missed
    BY <2>1, <2>2 DEF IInv, TypeOK, Committed, Go
  <2>3. CASE a \notin ids \cup missed
    <3>1. cached[a] # Effective(a)
      BY <1>1, <2>3, Same_Effective
    <3>2. CASE a \in excused
      BY <2>1, <3>2
    <3>3. CASE \E p \in Requests : at[p] = "del" /\ a \in todo[p]
      <4>1. PICK p \in Requests : at[p] = "del" /\ a \in todo[p]
        BY <3>3
      <4> QED
        BY <1>2, <4>1
    <3> QED
      BY <2>1, <3>1, <3>2, <3>3 DEF IInv, StaleExplained
  <2> QED
    BY <2>2, <2>3
<1> QED
  BY <1>4, <1>5

\* Steps that change neither MySQL nor an entry, and after which a request has read
\* nothing more than before, keep the invariant.
LEMMA Inv_Quiet ==
    ASSUME IInv, UNCHANGED <<rbacVars, cached>>, excused \subseteq excused',
           \A p \in Requests :
               /\ at[p] = "del" => \/ at'[p] = "del" /\ todo'[p] = todo[p]
                                   \/ todo[p] \cap Cached \subseteq excused'
               /\ Reading(p)' => /\ at'[p] = at[p] /\ who'[p] = who[p] /\ home'[p] = home[p]
                                 /\ got'[p] = got[p] /\ outdated'[p] = outdated[p]
    PROVE  Accurate' /\ StaleExplained'
<1>1. \A a \in Admins : Same(a)
  BY DEF Same, rbacVars
<1>2. Accurate'
  <2> SUFFICES ASSUME NEW p \in Requests, Reading(p)', ~outdated'[p]
               PROVE  /\ admins'[who'[p]] # NoAdmin /\ admins'[who'[p]].enabled
                      /\ home'[p] = admins'[who'[p]].home
                      /\ at'[p] \in {"scopes", "store"} => got'[p].perms = PermissionsOf(who[p])'
                      /\ at'[p] = "store" => got'[p].data = ScopesOf(who[p], home[p])'
    BY DEF Accurate
  <2>1. Reading(p) /\ ~outdated[p]
    BY DEF Reading
  <2>2. who[p] \in Admins
    BY <2>1 DEF IInv, TypeOK, Fits, Reading
  <2> QED
    BY <1>1, <2>1, <2>2, Accurate_Kept
<1>3. StaleExplained'
  <2> SUFFICES ASSUME NEW a \in Admins, cached'[a] # NoAuth, cached'[a] # Effective(a)'
               PROVE  a \in excused' \/ \E p \in Requests : at'[p] = "del" /\ a \in todo'[p]
    BY DEF StaleExplained, Cached
  <2>1. a \in Cached /\ cached[a] # Effective(a)
    BY <1>1, Same_Effective DEF Cached
  <2>2. a \in excused \/ \E p \in Requests : at[p] = "del" /\ a \in todo[p]
    BY <2>1 DEF IInv, StaleExplained
  <2> QED
    BY <2>1, <2>2
<1> QED
  BY <1>2, <1>3

\* The processes that start change the first administrator, which nobody has an
\* entry of but by mistake, and then its role.
LEMMA Inv_StartUp ==
    ASSUME IInv, NEW s \in Starters, StartUp(s)
    PROVE  Accurate' /\ StaleExplained'
<1> USE DEF StartersOnly, rbacVars, flowVars
<1>1. CASE CountAdmins(s) \/ Stop(s)
  BY <1>1, Inv_Quiet DEF CountAdmins, Stop, Idle, Reading
<1>2. CASE CreateFirst(s) /\ admins[First] # NoAdmin
  BY <1>2, Inv_Quiet DEF CreateFirst, Reading
<1>3. CASE CreateFirst(s) /\ admins[First] = NoAdmin
  <2>1. \A a \in Admins \ {First} : Same(a)
    BY <1>3, IdsAssumption DEF CreateFirst, Same, IInv, TypeOK
  <2>2. Effective(First) = NoAuth
    BY <1>3 DEF Effective
  <2>3. Accurate'
    <3> SUFFICES ASSUME NEW p \in Requests, Reading(p)', ~outdated'[p]
                 PROVE  /\ admins'[who'[p]] # NoAdmin /\ admins'[who'[p]].enabled
                        /\ home'[p] = admins'[who'[p]].home
                        /\ at'[p] \in {"scopes", "store"}
                           => got'[p].perms = PermissionsOf(who[p])'
                        /\ at'[p] = "store" => got'[p].data = ScopesOf(who[p], home[p])'
      BY DEF Accurate
    <3>1. Reading(p) /\ ~outdated[p]
      BY <1>3 DEF CreateFirst, Reading
    <3>2. who[p] \in Admins /\ who[p] # First
      BY <1>3, <3>1 DEF IInv, TypeOK, Fits, Reading, Accurate
    <3> QED
      BY <1>3, <2>1, <3>1, <3>2, Accurate_Kept DEF CreateFirst
  <2>4. StaleExplained'
    <3> SUFFICES ASSUME NEW a \in Admins, cached'[a] # NoAuth, cached'[a] # Effective(a)'
                 PROVE  a \in excused' \/ \E p \in Requests : at'[p] = "del" /\ a \in todo'[p]
      BY DEF StaleExplained, Cached
    <3>1. a \in Cached /\ cached[a] # Effective(a)
      BY <1>3, <2>1, <2>2, Same_Effective DEF CreateFirst, Cached
    <3> QED
      BY <1>3, <3>1 DEF CreateFirst, IInv, StaleExplained
  <2> QED
    BY <2>3, <2>4
<1>4. CASE AssignFirst(s) /\ ~DeleteWorks
  BY <1>4, Inv_Quiet DEF AssignFirst, Reading
<1>5. CASE AssignFirst(s) /\ DeleteWorks
  <2>1. \A a \in Admins \ {First} : Same(a)
    BY <1>5, IdsAssumption DEF AssignFirst, Same, IInv, TypeOK
  <2>2. Accurate'
    <3> SUFFICES ASSUME NEW p \in Requests, Reading(p)', ~outdated'[p]
                 PROVE  /\ admins'[who'[p]] # NoAdmin /\ admins'[who'[p]].enabled
                        /\ home'[p] = admins'[who'[p]].home
                        /\ at'[p] \in {"scopes", "store"}
                           => got'[p].perms = PermissionsOf(who[p])'
                        /\ at'[p] = "store" => got'[p].data = ScopesOf(who[p], home[p])'
      BY DEF Accurate
    <3>1. Reading(p) /\ ~outdated[p] /\ who[p] # First
      BY <1>5 DEF AssignFirst, Reading
    <3>2. who[p] \in Admins
      BY <3>1 DEF IInv, TypeOK, Fits, Reading
    <3> QED
      BY <1>5, <2>1, <3>1, <3>2, Accurate_Kept DEF AssignFirst
  <2>3. StaleExplained'
    <3> SUFFICES ASSUME NEW a \in Admins, cached'[a] # NoAuth, cached'[a] # Effective(a)'
                 PROVE  a \in excused' \/ \E p \in Requests : at'[p] = "del" /\ a \in todo'[p]
      BY DEF StaleExplained, Cached
    <3>1. CASE a = First
      BY <1>5, <3>1 DEF AssignFirst, Cached
    <3>2. CASE a # First
      <4>1. a \in Cached /\ cached[a] # Effective(a)
        BY <1>5, <2>1, <3>2, Same_Effective DEF AssignFirst, Cached
      <4> QED
        BY <1>5, <4>1 DEF AssignFirst, IInv, StaleExplained
    <3> QED
      BY <3>1, <3>2
  <2> QED
    BY <2>2, <2>3
<1> QED
  BY <1>1, <1>2, <1>3, <1>4, <1>5 DEF StartUp

\* The end of a request that deletes nothing is quiet.
LEMMA Inv_Ends ==
    ASSUME IInv, NEW q \in Requests, Done(q), UNCHANGED <<rbacVars, cached>>,
           excused \subseteq excused', \A p \in Requests \ {q} : outdated'[p] = outdated[p],
           at[q] = "del" => todo[q] \cap Cached \subseteq excused'
    PROVE  Accurate' /\ StaleExplained'
<1>1. at'[q] = "idle"
  BY DEF IInv, TypeOK, Done, Go
<1>2. \A p \in Requests \ {q} : /\ at'[p] = at[p] /\ who'[p] = who[p] /\ home'[p] = home[p]
                                /\ got'[p] = got[p] /\ todo'[p] = todo[p]
  BY DEF IInv, TypeOK, Done, Go
<1> QED
  BY <1>1, <1>2, Inv_Quiet DEF Reading

\* So is the decision of RequirePermission.
LEMMA Inv_Decides ==
    ASSUME IInv, NEW q \in Requests, at[q] # "del", NEW a \in Admins, NEW auth,
           Decide(q, a, auth), UNCHANGED <<rbacVars, cached>>, excused' = excused,
           \A p \in Requests \ {q} : outdated'[p] = outdated[p]
    PROVE  Accurate' /\ StaleExplained'
<1>1. CASE Edit \notin auth.perms
  BY <1>1, Inv_Ends DEF Decide
<1>2. CASE Edit \in auth.perms
  <2>1. at'[q] = "work"
    BY <1>2 DEF IInv, TypeOK, Decide, Go
  <2>2. \A p \in Requests \ {q} : /\ at'[p] = at[p] /\ who'[p] = who[p] /\ home'[p] = home[p]
                                  /\ got'[p] = got[p] /\ todo'[p] = todo[p]
    BY <1>2 DEF IInv, TypeOK, Decide, Go
  <2> QED
    BY <2>1, <2>2, Inv_Quiet DEF Reading
<1> QED
  BY <1>1, <1>2

\* A request that reads on keeps the invariant when what it has read is right.
LEMMA Inv_Reads ==
    ASSUME IInv, NEW q \in Requests, at[q] # "del", UNCHANGED <<rbacVars, cached, excused, outdated, todo>>,
           who'[q] = who[q], who[q] \in Admins,
           \A p \in Requests \ {q} : /\ at'[p] = at[p] /\ who'[p] = who[p] /\ home'[p] = home[p]
                                     /\ got'[p] = got[p],
           ~outdated[q] => /\ admins[who[q]] # NoAdmin /\ admins[who[q]].enabled
                           /\ home'[q] = admins[who[q]].home
                           /\ at'[q] \in {"scopes", "store"} => got'[q].perms = PermissionsOf(who[q])
                           /\ at'[q] = "store" => got'[q].data = ScopesOf(who[q], home'[q])
    PROVE  Accurate' /\ StaleExplained'
<1>1. \A a \in Admins : Same(a)
  BY DEF Same, rbacVars
<1>2. Accurate'
  <2> SUFFICES ASSUME NEW p \in Requests, Reading(p)', ~outdated'[p]
               PROVE  /\ admins'[who'[p]] # NoAdmin /\ admins'[who'[p]].enabled
                      /\ home'[p] = admins'[who'[p]].home
                      /\ at'[p] \in {"scopes", "store"} => got'[p].perms = PermissionsOf(who[p])'
                      /\ at'[p] = "store" => got'[p].data = ScopesOf(who[p], home[p])'
    BY DEF Accurate
  <2>1. CASE p = q
    <3>1. /\ PermissionsOf(who[q])' = PermissionsOf(who[q])
          /\ ScopesOf(who[q], home[q])' = ScopesOf(who[q], home'[q])
      BY <1>1 DEF PermissionsOf, ScopesOf, Held, rbacVars
    <3> QED
      BY <2>1, <3>1 DEF rbacVars
  <2>2. CASE p # q
    <3>1. Reading(p) /\ ~outdated[p]
      BY <2>2 DEF Reading
    <3>2. who[p] \in Admins
      BY <3>1 DEF IInv, TypeOK, Fits, Reading
    <3> QED
      BY <1>1, <2>2, <3>1, <3>2, Accurate_Kept
  <2> QED
    BY <2>1, <2>2
<1>3. StaleExplained'
  <2> SUFFICES ASSUME NEW a \in Admins, cached'[a] # NoAuth, cached'[a] # Effective(a)'
               PROVE  a \in excused' \/ \E p \in Requests : at'[p] = "del" /\ a \in todo'[p]
    BY DEF StaleExplained, Cached
  <2>1. a \in Cached /\ cached[a] # Effective(a)
    BY <1>1, Same_Effective DEF Cached
  <2> QED
    BY <2>1 DEF IInv, StaleExplained
<1> QED
  BY <1>2, <1>3

\* The steps of a request up to the handler keep the invariant: what it stores is
\* what MySQL has, or it is known that an edit has overlapped its reading.
LEMMA Inv_Authorization ==
    ASSUME IInv, NEW q \in Requests, Authorization(q)
    PROVE  Accurate' /\ StaleExplained'
<1> USE DEF KeepData, RequestsOnly
<1> DEFINE Others == \A p \in Requests \ {q} :
                        /\ at'[p] = at[p] /\ who'[p] = who[p] /\ home'[p] = home[p]
                        /\ got'[p] = got[p]
<1>0. Fits(q)
  BY DEF IInv, TypeOK
<1>1. ASSUME NEW a \in Admins, Hit(q, a) PROVE Accurate' /\ StaleExplained'
  BY <1>1, Inv_Decides DEF Hit, AdminJWT
<1>2. ASSUME NEW a \in Admins, Miss(q, a) PROVE Accurate' /\ StaleExplained'
  BY <1>2, Inv_Quiet DEF Miss, AdminJWT, Go, IInv, TypeOK, Reading
<1>3. CASE ReadAdmin(q)
  <2>1. who[q] \in Admins
    BY <1>0, <1>3 DEF Fits, ReadAdmin
  <2>2. CASE Effective(who[q]) = NoAuth
    BY <1>3, <2>2, Inv_Ends DEF ReadAdmin
  <2>3. CASE Effective(who[q]) # NoAuth
    <3>1. admins[who[q]] # NoAdmin /\ admins[who[q]].enabled
      BY <2>3 DEF Effective
    <3>2. Others /\ at'[q] = "perms" /\ home'[q] = admins[who[q]].home /\ who' = who
      BY <1>3, <2>3 DEF ReadAdmin, Go, IInv, TypeOK
    <3> QED
      BY <1>3, <2>1, <2>3, <3>1, <3>2, Inv_Reads DEF ReadAdmin
  <2> QED
    BY <2>2, <2>3
<1>4. CASE ReadPermissions(q)
  <2>1. who[q] \in Admins
    BY <1>0, <1>4 DEF Fits, ReadPermissions
  <2>2. /\ Others /\ at'[q] = "scopes" /\ who' = who /\ home' = home
        /\ got'[q].perms = PermissionsOf(who[q])
    BY <1>4 DEF ReadPermissions, Go, IInv, TypeOK
  <2>3. ~outdated[q] => /\ admins[who[q]] # NoAdmin /\ admins[who[q]].enabled
                        /\ home[q] = admins[who[q]].home
    BY <1>4 DEF IInv, Accurate, Reading, ReadPermissions
  <2> QED
    BY <1>4, <2>1, <2>2, <2>3, Inv_Reads DEF ReadPermissions
<1>5. CASE ReadScopes(q)
  <2>1. who[q] \in Admins /\ got[q] \in Auths
    BY <1>0, <1>5 DEF Fits, ReadScopes
  <2>2. /\ Others /\ at'[q] = "store" /\ who' = who /\ home' = home
        /\ got'[q].perms = got[q].perms /\ got'[q].data = ScopesOf(who[q], home[q])
    BY <1>5, <2>1 DEF ReadScopes, Go, IInv, TypeOK, Auths
  <2>3. ~outdated[q] => /\ admins[who[q]] # NoAdmin /\ admins[who[q]].enabled
                        /\ home[q] = admins[who[q]].home
                        /\ got[q].perms = PermissionsOf(who[q])
    BY <1>5 DEF IInv, Accurate, Reading, ReadScopes
  <2> QED
    BY <1>5, <2>1, <2>2, <2>3, Inv_Reads DEF ReadScopes
<1>6. CASE StoreAuth(q)
  <2> DEFINE a == who[q]
  <2>1. a \in Admins /\ got[q] \in Auths /\ at[q] = "store"
    BY <1>0, <1>6 DEF Fits, StoreAuth
  <2>2. Decide(q, a, got[q]) /\ \A p \in Requests \ {q} : outdated'[p] = outdated[p]
    BY <1>6 DEF StoreAuth, IInv, TypeOK
  <2>3. CASE UNCHANGED <<cached, excused>>
    BY <1>6, <2>1, <2>2, <2>3, Inv_Decides DEF StoreAuth
  <2>4. CASE /\ cached' = [cached EXCEPT ![a] = got[q]]
             /\ excused' = IF outdated[q] THEN excused \cup {a} ELSE excused \ {a}
    <3>1. /\ at'[q] \in {"work", "idle"}
          /\ \A p \in Requests \ {q} : /\ at'[p] = at[p] /\ who'[p] = who[p] /\ home'[p] = home[p]
                                       /\ got'[p] = got[p] /\ todo'[p] = todo[p]
      BY <2>2 DEF IInv, TypeOK, Decide, Done, Go
    <3>2. \A b \in Admins : Same(b)
      BY <1>6 DEF Same, StoreAuth, rbacVars
    <3>3. Accurate'
      <4> SUFFICES ASSUME NEW p \in Requests, Reading(p)', ~outdated'[p]
                   PROVE  /\ admins'[who'[p]] # NoAdmin /\ admins'[who'[p]].enabled
                          /\ home'[p] = admins'[who'[p]].home
                          /\ at'[p] \in {"scopes", "store"}
                             => got'[p].perms = PermissionsOf(who[p])'
                          /\ at'[p] = "store" => got'[p].data = ScopesOf(who[p], home[p])'
        BY DEF Accurate
      <4>1. p # q /\ Reading(p) /\ ~outdated[p]
        BY <2>2, <3>1 DEF Reading
      <4>2. who[p] \in Admins
        BY <4>1 DEF IInv, TypeOK, Fits, Reading
      <4> QED
        BY <3>1, <3>2, <4>1, <4>2, Accurate_Kept
    <3>4. ~outdated[q] => got[q] = Effective(a)
      <4> SUFFICES ASSUME ~outdated[q] PROVE got[q] = Effective(a)
        OBVIOUS
      <4>1. /\ admins[a] # NoAdmin /\ admins[a].enabled
            /\ got[q].perms = PermissionsOf(a) /\ got[q].data = ScopesOf(a, admins[a].home)
        BY <2>1 DEF IInv, Accurate, Reading
      <4>2. got[q] = [perms |-> got[q].perms, data |-> got[q].data]
        BY <2>1 DEF Auths
      <4> QED
        BY <4>1, <4>2 DEF Effective
    <3>5. StaleExplained'
      <4> SUFFICES ASSUME NEW b \in Admins, cached'[b] # NoAuth, cached'[b] # Effective(b)'
                   PROVE  b \in excused' \/ \E p \in Requests : at'[p] = "del" /\ b \in todo'[p]
        BY DEF StaleExplained, Cached
      <4>1. CASE b = a
        BY <2>1, <2>4, <3>2, <3>4, <4>1, Same_Effective DEF IInv, TypeOK
      <4>2. CASE b # a
        <5>1. b \in Cached /\ cached[b] # Effective(b)
          BY <2>4, <3>2, <4>2, Same_Effective DEF IInv, TypeOK, Cached
        <5>2. b \in excused \/ \E p \in Requests : at[p] = "del" /\ b \in todo[p]
          BY <5>1 DEF IInv, StaleExplained
        <5>3. excused \ {a} \subseteq excused'
          BY <2>4
        <5> QED
          BY <2>1, <3>1, <4>2, <5>2, <5>3
      <4> QED
        BY <4>1, <4>2
    <3> QED
      BY <3>3, <3>5
  <2> QED
    BY <1>6, <2>3, <2>4 DEF StoreAuth
<1> QED
  BY <1>1, <1>2, <1>3, <1>4, <1>5, <1>6 DEF Authorization

\* Entries that go away leave nothing to explain.
LEMMA Inv_Forgets ==
    ASSUME IInv, NEW gone \in SUBSET Admins, UNCHANGED rbacVars,
           cached' = [a \in Admins |-> IF a \in gone THEN NoAuth ELSE cached[a]],
           excused' = excused \ gone,
           \A p \in Requests :
               /\ at[p] = "del" => \/ at'[p] = "del" /\ todo'[p] = todo[p]
                                   \/ todo[p] \subseteq gone
               /\ Reading(p)' => /\ at'[p] = at[p] /\ who'[p] = who[p] /\ home'[p] = home[p]
                                 /\ got'[p] = got[p] /\ outdated'[p] = outdated[p]
    PROVE  Accurate' /\ StaleExplained'
<1>1. \A a \in Admins : Same(a)
  BY DEF Same, rbacVars
<1>2. Accurate'
  <2> SUFFICES ASSUME NEW p \in Requests, Reading(p)', ~outdated'[p]
               PROVE  /\ admins'[who'[p]] # NoAdmin /\ admins'[who'[p]].enabled
                      /\ home'[p] = admins'[who'[p]].home
                      /\ at'[p] \in {"scopes", "store"} => got'[p].perms = PermissionsOf(who[p])'
                      /\ at'[p] = "store" => got'[p].data = ScopesOf(who[p], home[p])'
    BY DEF Accurate
  <2>1. Reading(p) /\ ~outdated[p]
    BY DEF Reading
  <2>2. who[p] \in Admins
    BY <2>1 DEF IInv, TypeOK, Fits, Reading
  <2> QED
    BY <1>1, <2>1, <2>2, Accurate_Kept
<1>3. StaleExplained'
  <2> SUFFICES ASSUME NEW a \in Admins, cached'[a] # NoAuth, cached'[a] # Effective(a)'
               PROVE  a \in excused' \/ \E p \in Requests : at'[p] = "del" /\ a \in todo'[p]
    BY DEF StaleExplained, Cached
  <2>1. a \notin gone /\ a \in Cached /\ cached[a] # Effective(a)
    BY <1>1, Same_Effective DEF Cached
  <2>2. a \in excused \/ \E p \in Requests : at[p] = "del" /\ a \in todo[p]
    BY <2>1 DEF IInv, StaleExplained
  <2> QED
    BY <2>1, <2>2
<1> QED
  BY <1>2, <1>3

\* Logins change nothing here; the time makes entries go away.
LEMMA Inv_Admins ==
    ASSUME IInv, NEW a \in Admins, Login(a) \/ Expire(a)
    PROVE  Accurate' /\ StaleExplained'
<1>1. CASE Login(a)
  BY <1>1, Inv_Quiet DEF Login, KeepData, KeepFlow, RequestsOnly, flowVars
<1>2. CASE Expire(a)
  <2>1. cached' = [b \in Admins |-> IF b \in {a} THEN NoAuth ELSE cached[b]]
    BY <1>2 DEF Expire, IInv, TypeOK
  <2> QED
    BY <1>2, <2>1, Inv_Forgets DEF Expire, KeepFlow, flowVars
<1> QED
  BY <1>1, <1>2

\* CreateUser changes an administrator that did not exist: an entry it may have is
\* known to be wrong already.
LEMMA Inv_CreateUser ==
    ASSUME IInv, NEW q \in Requests, NEW a \in Admins, NEW row, CreateUser(q, a, row)
    PROVE  Accurate' /\ StaleExplained'
<1> USE DEF RequestsOnly
<1>1. at'[q] = "assign" /\ \A p \in Requests \ {q} : at'[p] = at[p]
  BY DEF IInv, TypeOK, CreateUser, Go
<1>2. \A b \in Admins \ {a} : Same(b)
  BY DEF Same, CreateUser, IInv, TypeOK
<1>3. Effective(a) = NoAuth
  BY DEF Effective, CreateUser
<1>4. Accurate'
  <2> SUFFICES ASSUME NEW p \in Requests, Reading(p)', ~outdated'[p]
               PROVE  /\ admins'[who'[p]] # NoAdmin /\ admins'[who'[p]].enabled
                      /\ home'[p] = admins'[who'[p]].home
                      /\ at'[p] \in {"scopes", "store"} => got'[p].perms = PermissionsOf(who[p])'
                      /\ at'[p] = "store" => got'[p].data = ScopesOf(who[p], home[p])'
    BY DEF Accurate
  <2>1. p # q /\ Reading(p)
    BY <1>1 DEF Reading
  <2>2. ~outdated[p] /\ Same(who[p])
    BY <2>1 DEF CreateUser, Commit
  <2> QED
    BY <1>1, <2>1, <2>2, Accurate_Kept DEF CreateUser
<1>5. StaleExplained'
  <2> SUFFICES ASSUME NEW b \in Admins, cached'[b] # NoAuth, cached'[b] # Effective(b)'
               PROVE  b \in excused' \/ \E p \in Requests : at'[p] = "del" /\ b \in todo'[p]
    BY DEF StaleExplained, Cached
  <2>1. b \in Cached /\ cached[b] # Effective(b)
    BY <1>2, <1>3, Same_Effective DEF CreateUser, Cached
  <2>2. b \in excused \/ \E p \in Requests : at[p] = "del" /\ b \in todo[p]
    BY <2>1 DEF IInv, StaleExplained
  <2> QED
    BY <1>1, <2>2 DEF CreateUser
<1> QED
  BY <1>4, <1>5

\* Its roles: whoever has an entry is a known exception.
LEMMA Inv_AssignNew ==
    ASSUME IInv, NEW q \in Requests, NEW R, AssignNew(q, R)
    PROVE  Accurate' /\ StaleExplained'
<1> USE DEF RequestsOnly
<1>1. /\ at'[q] = "idle"
      /\ \A p \in Requests \ {q} : /\ at'[p] = at[p] /\ who'[p] = who[p] /\ home'[p] = home[p]
                                   /\ got'[p] = got[p] /\ todo'[p] = todo[p]
  BY DEF IInv, TypeOK, AssignNew, Done, Go
<1>2. \A b \in Admins \ {target[q]} : Same(b)
  BY DEF Same, AssignNew, IInv, TypeOK
<1>3. Accurate'
  <2> SUFFICES ASSUME NEW p \in Requests, Reading(p)', ~outdated'[p]
               PROVE  /\ admins'[who'[p]] # NoAdmin /\ admins'[who'[p]].enabled
                      /\ home'[p] = admins'[who'[p]].home
                      /\ at'[p] \in {"scopes", "store"} => got'[p].perms = PermissionsOf(who[p])'
                      /\ at'[p] = "store" => got'[p].data = ScopesOf(who[p], home[p])'
    BY DEF Accurate
  <2>1. p # q /\ Reading(p)
    BY <1>1 DEF Reading
  <2>2. ~outdated[p] /\ Same(who[p])
    BY <2>1 DEF AssignNew, Commit
  <2> QED
    BY <1>1, <2>1, <2>2, Accurate_Kept
<1>4. StaleExplained'
  <2> SUFFICES ASSUME NEW b \in Admins, cached'[b] # NoAuth, cached'[b] # Effective(b)'
               PROVE  b \in excused' \/ \E p \in Requests : at'[p] = "del" /\ b \in todo'[p]
    BY DEF StaleExplained, Cached
  <2>1. b \in Cached /\ excused' = excused \cup ({target[q]} \cap Cached)
    BY DEF AssignNew, Cached
  <2>2. CASE b # target[q]
    <3>1. cached[b] # Effective(b)
      BY <1>2, <2>2, Same_Effective DEF AssignNew
    <3>2. b \in excused \/ \E p \in Requests : at[p] = "del" /\ b \in todo[p]
      BY <2>1, <3>1 DEF IInv, StaleExplained
    <3>3. at[q] # "del"
      BY DEF AssignNew
    <3> QED
      BY <1>1, <2>1, <3>2, <3>3
  <2> QED
    BY <2>1, <2>2
<1> QED
  BY <1>3, <1>4

\* The handlers keep the invariant.
LEMMA Inv_Handle ==
    ASSUME IInv, NEW q \in Requests, Handle(q)
    PROVE  Accurate' /\ StaleExplained'
<1> USE DEF KeepData, RequestsOnly
<1>1. ASSUME NEW a \in Admins, NEW row \in AdminRows, UpdateUser(q, a, row)
      PROVE  Accurate' /\ StaleExplained'
  <2>1. \A b \in Admins \ ({a} \cup {}) : Same(b)
    BY <1>1 DEF Same, UpdateUser, IInv, TypeOK
  <2> QED
    BY <1>1, <2>1, Inv_Committed DEF UpdateUser
<1>2. ASSUME NEW a \in Admins, NEW R \in SUBSET Roles, AssignRoles(q, a, R)
      PROVE  Accurate' /\ StaleExplained'
  <2>1. \A b \in Admins \ ({a} \cup {}) : Same(b)
    BY <1>2 DEF Same, AssignRoles, IInv, TypeOK
  <2> QED
    BY <1>2, <2>1, Inv_Committed DEF AssignRoles
<1>3. ASSUME NEW r \in Roles, NEW form \in RoleForms, CreateRole(q, r, form)
      PROVE  Accurate' /\ StaleExplained'
  <2> DEFINE missed == {a \in Admins : r \in rolesOf[a]}
  <2>1. \A b \in Admins \ ({} \cup missed) : Same(b)
    BY <1>3 DEF Same, CreateRole, IInv, TypeOK
  <2> QED
    BY <1>3, <2>1, Inv_Committed DEF CreateRole
<1>4. ASSUME NEW form \in RoleForms, ConfigureRole(q, form)
      PROVE  Accurate' /\ StaleExplained'
  <2> DEFINE missed == Holders(target[q]) \ todo[q]
  <2>1. \A b \in Admins \ (todo[q] \cup missed) : Same(b)
    BY <1>4 DEF Same, ConfigureRole, Holders, IInv, TypeOK
  <2>2. todo[q] \in SUBSET Admins /\ missed \in SUBSET Admins
    BY DEF IInv, TypeOK, Holders
  <2> QED
    BY <1>4, <2>1, <2>2, Inv_Committed DEF ConfigureRole
<1>5. ASSUME NEW r \in Roles, AdminIDsByRole(q, r)
      PROVE  Accurate' /\ StaleExplained'
  <2>1. /\ at'[q] = "configure" /\ at[q] = "work"
        /\ \A p \in Requests \ {q} : at'[p] = at[p] /\ todo'[p] = todo[p]
    BY <1>5 DEF AdminIDsByRole, Go, IInv, TypeOK
  <2> QED
    BY <1>5, <2>1, Inv_Quiet DEF AdminIDsByRole, Reading
<1>6. CASE Refuse(q)
  BY <1>6, Inv_Ends DEF Refuse
<1>7. CASE InvalidateAuthorization(q)
  <2>1. /\ at[q] = "del" /\ at'[q] = "idle" /\ todo[q] \in SUBSET Admins
        /\ \A p \in Requests \ {q} : /\ at'[p] = at[p] /\ who'[p] = who[p] /\ home'[p] = home[p]
                                     /\ got'[p] = got[p] /\ todo'[p] = todo[p]
    BY <1>7 DEF InvalidateAuthorization, Done, Go, IInv, TypeOK
  <2>2. CASE UNCHANGED cached /\ excused' = excused \cup (todo[q] \cap Cached)
    BY <1>7, <2>2, Inv_Ends DEF InvalidateAuthorization
  <2>3. CASE /\ cached' = [a \in Admins |-> IF a \in todo[q] THEN NoAuth ELSE cached[a]]
             /\ excused' = excused \ todo[q]
    BY <1>7, <2>1, <2>3, Inv_Forgets DEF InvalidateAuthorization, Reading
  <2> QED
    BY <1>7, <2>2, <2>3 DEF InvalidateAuthorization
<1>8. CASE Abort(q)
  <2>1. \A p \in Requests \ {q} : outdated'[p] = outdated[p]
    BY <1>8 DEF Abort, IInv, TypeOK
  <2> QED
    BY <1>8, <2>1, Inv_Ends DEF Abort
<1> QED
  BY <1>1, <1>2, <1>3, <1>4, <1>5, <1>6, <1>7, <1>8, Inv_CreateUser, Inv_AssignNew DEF Handle

\* Every step keeps the invariant.
LEMMA Inv_Step == IInv /\ [Next]_vars => IInv'
<1> SUFFICES ASSUME IInv, [Next]_vars PROVE IInv'
  OBVIOUS
<1>1. TypeOK'
  BY TypeCorrect_Step DEF IInv
<1>2. CASE Next
  <2>1. Accurate' /\ StaleExplained'
    BY <1>2, Inv_StartUp, Inv_Admins, Inv_Authorization, Inv_Handle DEF Next
  <2> QED
    BY <1>1, <2>1 DEF IInv
<1>3. CASE UNCHANGED vars
  <2>1. Accurate' /\ StaleExplained'
    BY <1>3, Inv_Quiet DEF vars, flowVars
  <2> QED
    BY <1>1, <2>1 DEF IInv
<1> QED
  BY <1>2, <1>3

\* What a request is about to store agrees with MySQL unless an edit overlapped its
\* reading; with that, the entries that disagree are explained (Authorization).
THEOREM Invariance == Spec => []IInv
  BY Inv_Init, Inv_Step, PTL DEF Spec

\* An entry that disagrees with MySQL is about to be deleted or one of the named
\* exceptions (InvalidateAuthorization and its callers).
THEOREM StaleIsExplained == Spec => []StaleExplained
<1>1. IInv => StaleExplained
  BY DEF IInv
<1> QED
  BY <1>1, Invariance, PTL

-----------------------------------------------------------------------------
(* The roles, as gorm deletes them. *)

\* Whoever has no role has no permission: not in MySQL, not in the cache, and not in
\* what a request has read.
Powerless ==
    /\ NobodyEdits
    /\ \A a \in Cached : Edit \notin cached[a].perms
    /\ \A q \in Requests : at[q] \in {"scopes", "store"} => Edit \notin got[q].perms

\* Nobody is let through who is not permitted.
LEMMA Decide_Powerless ==
    ASSUME TypeOK, Powerless, NEW q \in Requests, NEW a, NEW auth, Edit \notin auth.perms,
           Decide(q, a, auth), UNCHANGED rolesOf
    PROVE  /\ NobodyEdits'
           /\ \A p \in Requests : at'[p] \in {"scopes", "store"} => Edit \notin got'[p].perms
<1>1. Done(q)
  BY DEF Decide
<1> QED
  BY <1>1 DEF TypeOK, Powerless, NobodyEdits, Done, Go

\* The steps of a request up to the handler, which it does not reach.
LEMMA Powerless_Authorization ==
    ASSUME TypeOK, Powerless, NEW q \in Requests, Authorization(q)
    PROVE  Powerless'
<1> USE DEF KeepData, RequestsOnly, rbacVars
<1>0. Fits(q)
  BY DEF TypeOK
<1>1. ASSUME NEW a \in Admins, Hit(q, a) PROVE Powerless'
  <2>1. Edit \notin cached[a].perms
    BY <1>1 DEF Hit, Powerless, Cached
  <2> QED
    BY <1>1, <2>1, Decide_Powerless DEF Hit, Powerless, Cached
<1>2. ASSUME NEW a \in Admins, Miss(q, a) PROVE Powerless'
  BY <1>2 DEF Miss, Go, TypeOK, Powerless, NobodyEdits, Cached
<1>3. CASE ReadAdmin(q)
  BY <1>3 DEF ReadAdmin, Done, Go, TypeOK, Powerless, NobodyEdits, Cached
<1>4. CASE ReadPermissions(q)
  <2>1. PermissionsOf(who[q]) = {}
    BY <1>0, <1>4 DEF ReadPermissions, Fits, PermissionsOf, Held, Powerless, NobodyEdits
  <2> QED
    BY <1>4, <2>1 DEF ReadPermissions, Go, TypeOK, Powerless, NobodyEdits, Cached
<1>5. CASE ReadScopes(q)
  <2>1. got'[q].perms = got[q].perms
    BY <1>0, <1>5 DEF ReadScopes, TypeOK, Fits, Auths
  <2> QED
    BY <1>5, <2>1 DEF ReadScopes, Go, TypeOK, Powerless, NobodyEdits, Cached
<1>6. CASE StoreAuth(q)
  <2>1. Edit \notin got[q].perms /\ who[q] \in Admins
    BY <1>0, <1>6 DEF StoreAuth, Powerless, Fits
  <2>2. \A a \in Cached' : Edit \notin cached'[a].perms
    BY <1>6, <2>1 DEF StoreAuth, Powerless, Cached, TypeOK
  <2> QED
    BY <1>6, <2>1, <2>2, Decide_Powerless DEF StoreAuth, Powerless
<1> QED
  BY <1>1, <1>2, <1>3, <1>4, <1>5, <1>6 DEF Authorization

\* No step gives anybody a role.
LEMMA Powerless_Step ==
    ASSUME ~DeleteWorks, TypeOK, Powerless, [Next]_vars
    PROVE  Powerless'
<1> USE DEF rbacVars
<1>1. ASSUME NEW s \in Starters, StartUp(s) PROVE Powerless'
  BY <1>1 DEF StartUp, CountAdmins, CreateFirst, AssignFirst, Stop, Idle, StartersOnly, flowVars,
              Powerless, NobodyEdits, Cached
<1>2. ASSUME NEW a \in Admins, Login(a) PROVE Powerless'
  BY <1>2 DEF Login, KeepData, KeepFlow, flowVars, Powerless, NobodyEdits, Cached
<1>3. ASSUME NEW a \in Admins, Expire(a) PROVE Powerless'
  BY <1>3 DEF Expire, KeepFlow, RequestsOnly, flowVars, TypeOK, Powerless, NobodyEdits, Cached
<1>4. ASSUME NEW q \in Requests, Handle(q) PROVE Powerless'
  <2>1. Abort(q)
    BY <1>4 DEF Handle, UpdateUser, CreateUser, AssignRoles, AssignNew, CreateRole, AdminIDsByRole,
                ConfigureRole, Refuse, InvalidateAuthorization, Powerless, NobodyEdits
  <2> QED
    BY <2>1 DEF Abort, Done, Go, RequestsOnly, TypeOK, Powerless, NobodyEdits, Cached
<1>5. CASE UNCHANGED vars
  BY <1>5 DEF vars, flowVars, Powerless, NobodyEdits, Cached
<1> QED
  BY <1>1, <1>2, <1>3, <1>4, <1>5, Powerless_Authorization DEF Next

\* With the deletes of the code, which name no table, the first administrator never gets
\* the role super_admin, nor anybody else any role, and no request of the administration
\* reaches its handler: however often the processes start, and without any fault as well
\* as with any (Bootstrap, AssignAdminRoles, RequirePermission).
THEOREM LockedOut ==
    ASSUME ~DeleteWorks
    PROVE  Spec => []NobodyEdits
<1>1. Init => Powerless
  BY DEF Init, Powerless, NobodyEdits, Cached
<1>2. TypeOK /\ Powerless /\ [Next]_vars => Powerless'
  BY Powerless_Step
<1>3. Powerless => NobodyEdits
  BY DEF Powerless
<1> QED
  BY <1>1, <1>2, <1>3, TypeCorrect, PTL DEF Spec
=============================================================================
