----------------------------- MODULE SeckillSale -----------------------------
(***************************************************************************)
(* What the flash sale of one activity promises, without Redis, messages   *)
(* or workers: users get reservations, at most one open at a time; some    *)
(* reservations become sales, at most one for each user and never more     *)
(* than the stock; and each open reservation is told one outcome.          *)
(***************************************************************************)
EXTENDS Naturals, FiniteSets

CONSTANTS Users, NoUser, Reservations, Stock

VARIABLES
    user,      \* whose reservation it is
    outcome,   \* what its user is told
    sales      \* reservations that became an order

saleVars == <<user, outcome, sales>>

SaleInit ==
    /\ user = [r \in Reservations |-> NoUser]
    /\ outcome = [r \in Reservations |-> "none"]
    /\ sales = {}

\* A user without an open reservation gets a fresh one.
Accept(u, r) ==
    /\ user[r] = NoUser
    /\ \A q \in Reservations : user[q] = u => outcome[q] # "pending"
    /\ user' = [user EXCEPT ![r] = u]
    /\ outcome' = [outcome EXCEPT ![r] = "pending"]
    /\ UNCHANGED sales

\* A reservation becomes a sale while there is stock and its user has none.
Sell(r) ==
    /\ user[r] # NoUser
    /\ \A q \in sales : user[q] # user[r]
    /\ Cardinality(sales) < Stock
    /\ sales' = sales \cup {r}
    /\ UNCHANGED <<user, outcome>>

\* The user is told of a sale that is theirs.
Confirm(r) ==
    /\ \E q \in sales : user[q] = user[r]
    /\ outcome' = [outcome EXCEPT ![r] = "success"]
    /\ UNCHANGED <<user, sales>>

\* An open reservation is given up.
Reject(r) ==
    /\ outcome[r] = "pending"
    /\ outcome' = [outcome EXCEPT ![r] = "failed"]
    /\ UNCHANGED <<user, sales>>

\* The outcomes are forgotten; the sales are not.
Forget ==
    /\ outcome' = [r \in Reservations |-> "none"]
    /\ UNCHANGED <<user, sales>>

SaleNext ==
    \/ \E r \in Reservations :
        \/ \E u \in Users : Accept(u, r)
        \/ Sell(r) \/ Confirm(r) \/ Reject(r)
    \/ Forget

SaleSpec == SaleInit /\ [][SaleNext]_saleVars
=============================================================================
