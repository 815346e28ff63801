------------------------------- MODULE Booking -------------------------------
(***************************************************************************)
(* What the orders and payments promise together: an order is placed, and  *)
(* then either confirmed, after its user has paid, or closed, for ever;    *)
(* the user is told at most once, of a confirmed order.                    *)
(***************************************************************************)
EXTENDS Naturals

CONSTANT Orders

VARIABLES
    phase,  \* the state of the order
    paid,   \* orders that are paid
    told    \* how often the user of the order has been told of the payment

vars == <<phase, paid, told>>

Init == phase = [o \in Orders |-> "none"] /\ paid = {} /\ told = [o \in Orders |-> 0]

Place(o) ==
    /\ phase[o] = "none"
    /\ phase' = [phase EXCEPT ![o] = "waitPay"]
    /\ UNCHANGED <<paid, told>>

\* Nothing promises that an order is still open when its payment arrives.
Pay(o) ==
    /\ phase[o] # "none"
    /\ paid' = paid \cup {o}
    /\ UNCHANGED <<phase, told>>

Confirm(o) ==
    /\ phase[o] = "waitPay" /\ o \in paid
    /\ phase' = [phase EXCEPT ![o] = "waitUse"]
    /\ UNCHANGED <<paid, told>>

Close(o) ==
    /\ phase[o] = "waitPay"
    /\ phase' = [phase EXCEPT ![o] = "cancel"]
    /\ UNCHANGED <<paid, told>>

Tell(o) ==
    /\ phase[o] = "waitUse" /\ told[o] = 0
    /\ told' = [told EXCEPT ![o] = 1]
    /\ UNCHANGED <<phase, paid>>

Next == \E o \in Orders : Place(o) \/ Pay(o) \/ Confirm(o) \/ Close(o) \/ Tell(o)

Spec == Init /\ [][Next]_vars
=============================================================================
