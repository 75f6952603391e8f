---------------------------- MODULE Entitlement ----------------------------
(***************************************************************************)
(* What the webhook endpoint promises of each purchase, whatever the order *)
(* and the number of times its messages arrive: an order belongs to one    *)
(* purchase and one delivery item for good, and a cancelled order is never *)
(* granted.                                                                *)
(***************************************************************************)
CONSTANTS OrderIds, Purchases, Items, Null

VARIABLES
  grant,      \* order -> the purchase it was accepted for
  item,       \* order -> the delivery item its key is sent to
  withdrawn   \* orders cancelled or refunded

Init ==
  /\ grant = [o \in OrderIds |-> Null]
  /\ item = [o \in OrderIds |-> Null]
  /\ withdrawn = {}

\* An order that was not withdrawn accepts a purchase, once.
Grant(o, p) ==
  /\ o \notin withdrawn
  /\ grant[o] = Null
  /\ grant' = [grant EXCEPT ![o] = p]

\* Its delivery item is named once, with the purchase or later.
Name(o, d) ==
  /\ item[o] = Null
  /\ item' = [item EXCEPT ![o] = d]

Withdraw(o) == withdrawn' = withdrawn \cup {o}

Next ==
  \E o \in OrderIds :
    \/ /\ \E p \in Purchases : Grant(o, p)
       /\ UNCHANGED item \/ \E d \in Items : Name(o, d)
       /\ UNCHANGED withdrawn
    \/ /\ \E d \in Items : Name(o, d)
       /\ UNCHANGED <<grant, withdrawn>>
    \/ /\ Withdraw(o)
       /\ UNCHANGED <<grant, item>>

Spec == Init /\ [][Next]_<<grant, item, withdrawn>>
=============================================================================
