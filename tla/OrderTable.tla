----------------------------- MODULE OrderTable -----------------------------
(***************************************************************************)
(* The columns of the orders table (models.py) that webhooks and delivery  *)
(* share.  A key is the g2g_order_id; NoRow stands for an order the table  *)
(* has no row of.                                                          *)
(***************************************************************************)
EXTENDS Integers, FiniteSets

CONSTANTS
  OrderIds,     \* g2g_order_id
  Identities,   \* digests of buyer, seller, offer and quantity
  DeliveryIds,  \* g2g_delivery_id
  Manual,       \* the delivery_id of an order created by hand
  Null

ASSUME TableAssumption ==
  /\ Null \notin OrderIds \cup Identities \cup DeliveryIds \cup {Manual}
  /\ Manual \notin DeliveryIds

VARIABLE orders

RowStatus == {"active", "expired", "revoked"}
DeliveryStatus == {"pending", "delivering", "delivered", "failed", "manual"}

Row == [status : RowStatus, delivery_status : DeliveryStatus,
        delivery_id : DeliveryIds \cup {Manual, Null},
        identity : Identities \cup {Null}]

NoRow == [status |-> "none", delivery_status |-> "pending",
          delivery_id |-> Null, identity |-> Null]

HasRow(o) == orders[o].status # "none"

\* Rows in the table when the service starts: none, or one that the previous
\* release wrote, which has no identity digest (migration 0001).
Legacy == [status |-> "active", delivery_status |-> "pending",
           delivery_id |-> Null, identity |-> Null]

OrdersInit == orders \in [OrderIds -> {NoRow, Legacy}]

OrdersTypeOK == orders \in [OrderIds -> Row \cup {NoRow}]

----------------------------------------------------------------------------
(* What may happen to a row, by whom.  Each component takes these steps of *)
(* the others for granted, and is shown to take no other ones itself.      *)

\* The buyer portal and the administrator: expiry, reactivation, revocation, and
\* an expiry that overwrites a revocation (see BuyerAccess).
StatusTurns ==
  {<<"active", "expired">>, <<"expired", "active">>, <<"active", "revoked">>,
   <<"expired", "revoked">>, <<"revoked", "expired">>}

PortalChangesStatus(o) ==
  \E s \in RowStatus :
    /\ HasRow(o)
    /\ <<orders[o].status, s>> \in StatusTurns
    /\ orders' = [orders EXCEPT ![o].status = s]

\* A fulfilment event, or an administrator, creates the row.
Purchased == [status : {"active"}, delivery_status : {"pending"},
              delivery_id : DeliveryIds \cup {Null}, identity : Identities]

ByHand == [status |-> "active", delivery_status |-> "manual",
           delivery_id |-> Manual, identity |-> Null]

RowArrives(o) ==
  /\ ~HasRow(o)
  /\ \E row \in Purchased \cup {ByHand} : orders' = [orders EXCEPT ![o] = row]

\* A message adds what the row lacks, and may report that the key is delivered
\* (_process_fulfillment, _process_delivery_status).
MessageChangesRow(o) ==
  /\ HasRow(o)
  /\ \E p \in Identities \cup {Null}, d \in DeliveryIds \cup {Null},
        s \in {orders[o].delivery_status, "delivered"} :
       orders' = [orders EXCEPT
                    ![o].identity = IF @ = Null THEN p ELSE @,
                    ![o].delivery_id = IF @ = Null THEN d ELSE @,
                    ![o].delivery_status = s]

\* An attempt, or a reconciliation: never on a row created by hand
\* (attempt_delivery, _finish_delivery, reconcile_delivery).
DeliveryChangesRow(o) ==
  /\ HasRow(o)
  /\ orders[o].delivery_status # "manual"
  /\ \E s \in {"delivering", "delivered", "failed"}, d \in DeliveryIds \cup {Null} :
       orders' = [orders EXCEPT
                    ![o].delivery_status = s,
                    ![o].delivery_id = IF @ = Null THEN d ELSE @]
=============================================================================
