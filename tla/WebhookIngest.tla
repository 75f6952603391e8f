--------------------------- MODULE WebhookIngest ---------------------------
(***************************************************************************)
(* POST /webhooks/g2g: the event ledger, the cancellation tombstones and   *)
(* what each event does to the orders table (webhook_service.py).          *)
(*                                                                         *)
(* ingest_webhook is one transaction under two PostgreSQL advisory locks,  *)
(* the event's and then the order's, and reads only after it has both, so  *)
(* it is one step.  The marketplace may send any message at any time, any  *)
(* number of times and in any order.                                       *)
(***************************************************************************)
EXTENDS OrderTable

\* The message bodies in play: [event_id, kind, order, identity, delivery_id,
\* fault, complete].  A body stands for its digest.  Fault "invalid" is a
\* payload that is refused, "rejected" an offer or a quantity not on sale.
CONSTANTS Webhooks, EventIds

ASSUME WebhookAssumption ==
  Webhooks \subseteq [event_id : EventIds,
                      kind : {"fulfil", "revoke", "status", "other"},
                      order : OrderIds,
                      identity : Identities,
                      delivery_id : DeliveryIds \cup {Null},
                      fault : {"none", "invalid", "rejected"},
                      complete : BOOLEAN]

VARIABLES
  events,      \* event_id -> its row: status and the body first received
  tombstones,  \* orders cancelled or refunded
  overridden   \* history: tombstoned orders changed by the portal since, or
               \* created by hand

ingestVars == <<orders, events, tombstones, overridden>>

NoEvent == [status |-> "none", body |-> Null]

IngestInit ==
  /\ OrdersInit
  /\ events = [e \in EventIds |-> NoEvent]
  /\ tombstones = {}
  /\ overridden = {}

----------------------------------------------------------------------------

Finished(e) == events[e].status \in {"processed", "ignored"}

\* _event_record: the body is the first one received under the identifier.
Record(m, status) ==
  events' = [events EXCEPT ![m.event_id] = [status |-> status, body |-> m]]

\* The identifier was used with another body.
Clashes(m) == events[m.event_id].body \notin {Null, m}

IngestClash(m) ==
  /\ Clashes(m)
  /\ events' = [events EXCEPT ![m.event_id].status = "conflict"]
  /\ UNCHANGED <<orders, tombstones, overridden>>

\* A finished event is acknowledged again and changes nothing.
IngestDuplicate(m) ==
  /\ ~Clashes(m)
  /\ Finished(m.event_id)
  /\ UNCHANGED ingestVars

\* The event is new, or its last processing failed.
MustProcess(m) == ~Clashes(m) /\ ~Finished(m.event_id)

\* _record_tombstone and revoke_order, in one transaction.
ProcessRevocation(m) ==
  /\ MustProcess(m)
  /\ m.kind = "revoke"
  /\ tombstones' = tombstones \cup {m.order}
  /\ orders' = IF HasRow(m.order)
               THEN [orders EXCEPT ![m.order].status = "revoked"] ELSE orders
  /\ overridden' = overridden \ {m.order}
  /\ Record(m, "processed")

\* create_g2g_order
NewRow(m) == [status |-> "active", delivery_status |-> "pending",
              delivery_id |-> m.delivery_id, identity |-> m.identity]

\* Faulty variant: the digests are not compared.
SamePurchase_Any(m) == TRUE

SamePurchase(m) == orders[m.order].identity \in {Null, m.identity}

Tombstoned(o) == o \in tombstones

\* An event that adds what the row of its order lacks.
FillRow(m) ==
  [orders[m.order] EXCEPT
     !.identity = IF @ = Null THEN m.identity ELSE @,
     !.delivery_id = IF @ = Null THEN m.delivery_id ELSE @]

\* _process_fulfillment and the errors ingest_webhook turns into a status.
ProcessFulfilment(m) ==
  /\ MustProcess(m)
  /\ m.kind = "fulfil"
  /\ \/ /\ m.fault = "invalid"
        /\ Record(m, "failed")
        /\ UNCHANGED orders
     \/ /\ m.fault # "invalid"
        /\ Tombstoned(m.order)
        /\ Record(m, "processed")
        /\ UNCHANGED orders
     \/ /\ m.fault # "invalid"
        /\ ~Tombstoned(m.order)
        /\ IF HasRow(m.order) THEN ~SamePurchase(m) ELSE m.fault = "rejected"
        /\ Record(m, "conflict")
        /\ UNCHANGED orders
     \/ /\ m.fault # "invalid"
        /\ ~Tombstoned(m.order)
        /\ IF HasRow(m.order) THEN SamePurchase(m) ELSE m.fault = "none"
        /\ Record(m, "processed")
        /\ orders' = [orders EXCEPT ![m.order] =
                        IF HasRow(m.order) THEN FillRow(m) ELSE NewRow(m)]
  /\ UNCHANGED <<tombstones, overridden>>

\* The item a status event names is not the one on record.
OtherItem(m) ==
  /\ m.delivery_id # Null
  /\ orders[m.order].delivery_id \notin {Null, m.delivery_id}

\* _process_delivery_status
ProcessStatus(m) ==
  /\ MustProcess(m)
  /\ m.kind = "status"
  /\ \/ /\ ~HasRow(m.order)
        /\ Record(m, "processed")
        /\ UNCHANGED orders
     \/ /\ HasRow(m.order)
        /\ OtherItem(m)
        /\ Record(m, "conflict")
        /\ UNCHANGED orders
     \/ /\ HasRow(m.order)
        /\ ~OtherItem(m)
        /\ Record(m, "processed")
        /\ orders' = [orders EXCEPT
             ![m.order].delivery_id = IF @ = Null THEN m.delivery_id ELSE @,
             ![m.order].delivery_status = IF m.complete THEN "delivered" ELSE @]
  /\ UNCHANGED <<tombstones, overridden>>

ProcessOther(m) ==
  /\ MustProcess(m)
  /\ m.kind = "other"
  /\ Record(m, "ignored")
  /\ UNCHANGED <<orders, tombstones, overridden>>

Ingest(m) ==
  \/ IngestClash(m)
  \/ IngestDuplicate(m)
  \/ ProcessRevocation(m)
  \/ ProcessFulfilment(m)
  \/ ProcessStatus(m)
  \/ ProcessOther(m)

----------------------------------------------------------------------------
(* What other components do to the table between two webhooks; see         *)
(* OrderTable.                                                             *)

\* create_manual_order (the admin portal, manage.py): no tombstone is looked at.
CreateManual(o) ==
  /\ ~HasRow(o)
  /\ orders' = [orders EXCEPT ![o] = ByHand]
  /\ overridden' = overridden \cup {o}
  /\ UNCHANGED <<events, tombstones>>

\* Expiry, reactivation and revocation.
PortalStep(o) ==
  /\ PortalChangesStatus(o)
  /\ overridden' = overridden \cup {o}
  /\ UNCHANGED <<events, tombstones>>

\* A delivery attempt or a reconciliation.
DeliveryStep(o) ==
  /\ DeliveryChangesRow(o)
  /\ UNCHANGED <<events, tombstones, overridden>>

IngestNext ==
  \/ \E m \in Webhooks : Ingest(m)
  \/ \E o \in OrderIds : CreateManual(o) \/ PortalStep(o) \/ DeliveryStep(o)

IngestSpec == IngestInit /\ [][IngestNext]_ingestVars

----------------------------------------------------------------------------
(* Properties.                                                             *)

\* The type of the state.
IngestTypeOK ==
  /\ OrdersTypeOK
  /\ events \in [EventIds -> [status : {"none", "processed", "ignored",
                                        "conflict", "failed"},
                              body : Webhooks \cup {Null}]]
  /\ tombstones \subseteq OrderIds
  /\ overridden \subseteq OrderIds

\* The ledger tells the truth: an event marked processed has had its effect,
\* whatever came before or after it.  A fulfilment's purchase owns the row of
\* its order, or the order was cancelled; a cancellation left a tombstone
\* (ingest_webhook, which acknowledges a processed event without another look).
LedgerSound ==
  \A e \in EventIds :
    events[e].status = "processed" =>
      LET m == events[e].body IN
      /\ m.kind = "fulfil" =>
           \/ HasRow(m.order) /\ orders[m.order].identity = m.identity
           \/ m.order \in tombstones
      /\ m.kind = "revoke" => m.order \in tombstones

\* Fulfilment and cancellation may arrive in either order and be repeated: an
\* order that was cancelled has no row or a revoked one, unless the portal or
\* an administrator has changed it since (tombstones and revoke_order).
CancellationWins ==
  \A o \in tombstones \ overridden : orders[o].status \in {"none", "revoked"}

\* A message does no more to the table than the other components expect: it
\* adds a row, fills in what a row lacks, reports it delivered or revokes it,
\* whatever was committed since it read the row (ingest_webhook).
MessagesKeepToRows ==
  [][events' # events =>
       \/ orders' = orders
       \/ \E o \in OrderIds :
            \/ RowArrives(o)
            \/ MessageChangesRow(o)
            \/ PortalChangesStatus(o) /\ orders'[o].status = "revoked"]_ingestVars

\* The endpoint implements Entitlement: the identity digest of a row is the
\* grant, its delivery_id the item, its tombstone the withdrawal.
E == INSTANCE Entitlement WITH
       Purchases <- Identities,
       Items <- DeliveryIds \cup {Manual},
       grant <- [o \in OrderIds |-> orders[o].identity],
       item <- [o \in OrderIds |-> orders[o].delivery_id],
       withdrawn <- tombstones

ImplementsEntitlement == E!Spec
=============================================================================
