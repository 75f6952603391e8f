------------------------ MODULE WebhookIngestProofs ------------------------
(***************************************************************************)
(* Proofs about WebhookIngest, for any set of messages: the types, the     *)
(* ledger, the tombstones, and that the endpoint implements Entitlement.   *)
(***************************************************************************)
EXTENDS WebhookIngest, TLAPS

EventType == [status : {"none", "processed", "ignored", "conflict", "failed"},
              body : Webhooks \cup {Null}]

\* An event on record has a body.
Recorded == \A e \in EventIds : events[e].status # "none" => events[e].body \in Webhooks

IngestInv == IngestTypeOK /\ Recorded /\ LedgerSound /\ CancellationWins

----------------------------------------------------------------------------
(* The shape of rows and messages.                                         *)

\* What a message is made of.
LEMMA MessageType ==
  ASSUME NEW m \in Webhooks
  PROVE  /\ m.event_id \in EventIds
         /\ m.order \in OrderIds
         /\ m.identity \in Identities
         /\ m.identity # Null
         /\ m.delivery_id \in DeliveryIds \cup {Null}
  BY WebhookAssumption, TableAssumption

\* An order without a row is NoRow, and NoRow is not a row.
LEMMA NoRowIsNone ==
  ASSUME OrdersTypeOK, NEW o \in OrderIds
  PROVE  /\ HasRow(o) => orders[o] \in Row
         /\ ~HasRow(o) => orders[o] = NoRow
  BY DEF OrdersTypeOK, HasRow, NoRow, Row, RowStatus

\* create_g2g_order makes a row.
LEMMA NewRowType ==
  ASSUME NEW m \in Webhooks
  PROVE  NewRow(m) \in Row
  BY MessageType DEF NewRow, Row, RowStatus, DeliveryStatus

\* A later event leaves a row, with the same status and delivery status.
LEMMA FillRowType ==
  ASSUME OrdersTypeOK, NEW m \in Webhooks, HasRow(m.order)
  PROVE  /\ FillRow(m) \in Row
         /\ FillRow(m).status = orders[m.order].status
         /\ FillRow(m).identity = IF orders[m.order].identity = Null
                                  THEN m.identity ELSE orders[m.order].identity
         /\ FillRow(m).delivery_id = IF orders[m.order].delivery_id = Null
                                     THEN m.delivery_id ELSE orders[m.order].delivery_id
<1>1. m.order \in OrderIds /\ orders[m.order] \in Row
  BY MessageType, NoRowIsNone
<1> QED BY <1>1, MessageType DEF FillRow, Row

----------------------------------------------------------------------------
(* How an action changes the rows, the events and the tombstones.          *)

\* A step of the system, whoever takes it.
Acts == \/ \E m \in Webhooks : Ingest(m)
        \/ \E o \in OrderIds : CreateManual(o) \/ PortalStep(o) \/ DeliveryStep(o)

\* What a step may do to the row of o: leave it, accept a purchase and name an
\* item, give or change a status, record a delivery.
RowStep(o) ==
  /\ orders'[o] \in Row \cup {NoRow}
  /\ HasRow(o) => HasRow(o)'
  /\ \/ orders'[o].identity = orders[o].identity
     \/ orders[o].identity = Null /\ o \notin tombstones
  /\ \/ orders'[o].delivery_id = orders[o].delivery_id
     \/ orders[o].delivery_id = Null
  /\ \/ orders'[o].status = orders[o].status
     \/ o \notin tombstones
     \/ o \in overridden'
     \/ orders'[o].status = "revoked"

\* A fulfilment event changes the row of its order only.
LEMMA FulfilmentRows ==
  ASSUME OrdersTypeOK, NEW m \in Webhooks, ProcessFulfilment(m), NEW o \in OrderIds
  PROVE  RowStep(o)
<1>1. m.order \in OrderIds /\ orders[o] \in Row \cup {NoRow}
  BY MessageType DEF OrdersTypeOK
<1>2. CASE UNCHANGED orders
  BY <1>1, <1>2 DEF RowStep, HasRow
<1>3. CASE /\ ~Tombstoned(m.order)
           /\ HasRow(m.order) => SamePurchase(m)
           /\ orders' = [orders EXCEPT ![m.order] =
                           IF HasRow(m.order) THEN FillRow(m) ELSE NewRow(m)]
  <2>1. CASE o # m.order
    BY <1>1, <1>3, <2>1 DEF RowStep, HasRow, OrdersTypeOK
  <2>2. CASE o = m.order /\ HasRow(o)
    <3>1. orders'[o] = FillRow(m)
      BY <1>1, <1>3, <2>2 DEF OrdersTypeOK
    <3>2. FillRow(m).status # "none"
      BY <2>2, FillRowType DEF HasRow
    <3> QED BY <1>3, <2>2, <3>1, <3>2, FillRowType DEF RowStep, HasRow, Tombstoned
  <2>3. CASE o = m.order /\ ~HasRow(o)
    <3>1. orders'[o] = NewRow(m)
      BY <1>1, <1>3, <2>3 DEF OrdersTypeOK
    <3>2. orders[o].identity = Null /\ orders[o].delivery_id = Null
      BY <2>3, NoRowIsNone DEF NoRow
    <3> QED BY <1>3, <2>3, <3>1, <3>2, NewRowType DEF RowStep, HasRow, Tombstoned
  <2> QED BY <2>1, <2>2, <2>3
<1> QED BY <1>2, <1>3 DEF ProcessFulfilment

\* So does a delivery-status event.
LEMMA StatusRows ==
  ASSUME OrdersTypeOK, NEW m \in Webhooks, ProcessStatus(m), NEW o \in OrderIds
  PROVE  RowStep(o)
<1>1. m.order \in OrderIds /\ orders[o] \in Row \cup {NoRow}
  BY MessageType DEF OrdersTypeOK
<1>2. CASE UNCHANGED orders
  BY <1>1, <1>2 DEF RowStep, HasRow
<1>3. CASE /\ HasRow(m.order)
           /\ orders' = [orders EXCEPT
                ![m.order].delivery_id = IF @ = Null THEN m.delivery_id ELSE @,
                ![m.order].delivery_status = IF m.complete THEN "delivered" ELSE @]
  <2>1. CASE o # m.order
    BY <1>1, <1>3, <2>1 DEF RowStep, HasRow, OrdersTypeOK
  <2>2. CASE o = m.order
    <3>1. orders[o] \in Row
      BY <1>3, <2>2, NoRowIsNone
    <3>2. orders'[o] = [status |-> orders[o].status,
                        delivery_status |-> IF m.complete THEN "delivered"
                                            ELSE orders[o].delivery_status,
                        delivery_id |-> IF orders[o].delivery_id = Null
                                        THEN m.delivery_id ELSE orders[o].delivery_id,
                        identity |-> orders[o].identity]
      BY <1>1, <1>3, <2>2, <3>1 DEF OrdersTypeOK, Row
    <3> QED BY <3>1, <3>2, MessageType DEF RowStep, HasRow, Row, DeliveryStatus
  <2> QED BY <2>1, <2>2
<1> QED BY <1>2, <1>3 DEF ProcessStatus

\* A cancellation revokes the row of its order.
LEMMA RevocationRows ==
  ASSUME OrdersTypeOK, NEW m \in Webhooks, ProcessRevocation(m), NEW o \in OrderIds
  PROVE  RowStep(o)
<1>1. m.order \in OrderIds /\ orders[o] \in Row \cup {NoRow}
  BY MessageType DEF OrdersTypeOK
<1>2. CASE UNCHANGED orders
  BY <1>1, <1>2 DEF RowStep, HasRow
<1>3. CASE /\ HasRow(m.order)
           /\ orders' = [orders EXCEPT ![m.order].status = "revoked"]
  <2>1. CASE o # m.order
    BY <1>1, <1>3, <2>1 DEF RowStep, HasRow, OrdersTypeOK
  <2>2. CASE o = m.order
    <3>1. orders[o] \in Row
      BY <1>3, <2>2, NoRowIsNone
    <3>2. orders'[o] = [orders[o] EXCEPT !.status = "revoked"]
      BY <1>1, <1>3, <2>2 DEF OrdersTypeOK
    <3> QED BY <3>1, <3>2 DEF RowStep, HasRow, Row, RowStatus
  <2> QED BY <2>1, <2>2
<1> QED BY <1>2, <1>3 DEF ProcessRevocation

\* What the portal, an administrator and the delivery do to a row.
LEMMA OtherRows ==
  ASSUME OrdersTypeOK, NEW p \in OrderIds, NEW o \in OrderIds,
         CreateManual(p) \/ PortalStep(p) \/ DeliveryStep(p)
  PROVE  RowStep(o)
<1>1. orders[o] \in Row \cup {NoRow}
  BY DEF OrdersTypeOK
<1>2. CASE CreateManual(p)
  <2>1. CASE o # p
    BY <1>1, <1>2, <2>1 DEF CreateManual, RowStep, HasRow, OrdersTypeOK
  <2>2. CASE o = p
    <3>1. orders[o] = NoRow
      BY <1>2, <2>2, NoRowIsNone DEF CreateManual
    <3>2. orders'[o] = [status |-> "active", delivery_status |-> "manual",
                        delivery_id |-> Manual, identity |-> Null]
      BY <1>2, <2>2 DEF CreateManual, ByHand, OrdersTypeOK
    <3>3. orders'[o] \in Row
      BY <3>2 DEF Row, RowStatus, DeliveryStatus
    <3> QED BY <1>2, <2>2, <3>1, <3>2, <3>3 DEF CreateManual, RowStep, HasRow, NoRow
  <2> QED BY <2>1, <2>2
<1>3. CASE PortalStep(p)
  <2>1. PICK s \in RowStatus : /\ HasRow(p)
                               /\ orders' = [orders EXCEPT ![p].status = s]
    BY <1>3 DEF PortalStep, PortalChangesStatus
  <2>2. CASE o # p
    BY <1>1, <2>1, <2>2 DEF RowStep, HasRow, OrdersTypeOK
  <2>3. CASE o = p
    <3>1. orders[o] \in Row
      BY <2>1, <2>3, NoRowIsNone
    <3>2. orders'[o] = [orders[o] EXCEPT !.status = s]
      BY <2>1, <2>3 DEF OrdersTypeOK
    <3>3. orders'[o] \in Row /\ HasRow(o)'
      BY <3>1, <3>2 DEF Row, RowStatus, HasRow
    <3> QED BY <1>3, <2>3, <3>1, <3>2, <3>3 DEF PortalStep, RowStep, Row
  <2> QED BY <2>2, <2>3
<1>4. CASE DeliveryStep(p)
  <2>1. PICK s \in {"delivering", "delivered", "failed"}, d \in DeliveryIds \cup {Null} :
          orders' = [orders EXCEPT ![p].delivery_status = s,
                                   ![p].delivery_id = IF @ = Null THEN d ELSE @]
    BY <1>4 DEF DeliveryStep, DeliveryChangesRow
  <2>2. CASE o # p
    BY <1>1, <2>1, <2>2 DEF RowStep, HasRow, OrdersTypeOK
  <2>3. CASE o = p
    <3>1. orders[o] \in Row
      BY <1>4, <2>3, NoRowIsNone DEF DeliveryStep, DeliveryChangesRow
    <3>2. orders'[o] = [status |-> orders[o].status, delivery_status |-> s,
                        delivery_id |-> IF orders[o].delivery_id = Null THEN d
                                        ELSE orders[o].delivery_id,
                        identity |-> orders[o].identity]
      BY <2>1, <2>3, <3>1 DEF OrdersTypeOK, Row
    <3> QED BY <3>1, <3>2 DEF RowStep, HasRow, Row, DeliveryStatus
  <2> QED BY <2>2, <2>3
<1> QED BY <1>2, <1>3, <1>4

\* Every action changes every row in one of these ways.
LEMMA RowsStep ==
  ASSUME OrdersTypeOK, Acts, NEW o \in OrderIds
  PROVE  RowStep(o)
<1>1. ASSUME NEW m \in Webhooks, Ingest(m) PROVE RowStep(o)
  <2>1. CASE UNCHANGED orders
    BY <2>1 DEF RowStep, HasRow, OrdersTypeOK
  <2>2. CASE ProcessRevocation(m)
    BY <2>2, RevocationRows
  <2>3. CASE ProcessFulfilment(m)
    BY <2>3, FulfilmentRows
  <2>4. CASE ProcessStatus(m)
    BY <2>4, StatusRows
  <2> QED BY <1>1, <2>1, <2>2, <2>3, <2>4
          DEF Ingest, IngestClash, IngestDuplicate, ProcessOther, ingestVars
<1> QED BY <1>1, OtherRows DEF Acts

\* What an event must have done once it is processed.
Effect(m) ==
  /\ m.kind = "fulfil" =>
       \/ HasRow(m.order) /\ orders[m.order].identity = m.identity
       \/ m.order \in tombstones
  /\ m.kind = "revoke" => m.order \in tombstones

\* A step leaves the record of e, takes it out of "processed", or processes it.
EventStep(e) ==
  \/ events'[e] = events[e]
  \/ \E m \in Webhooks, t \in {"ignored", "conflict", "failed"} :
       events'[e] = [status |-> t, body |-> m]
  \/ \E m \in Webhooks :
       events'[e] = [status |-> "processed", body |-> m] /\ Effect(m)'

\* _event_record writes one row.
LEMMA RecordStep ==
  ASSUME events \in [EventIds -> EventType], NEW m \in Webhooks, NEW t, Record(m, t),
         NEW e \in EventIds
  PROVE  events'[e] = events[e] \/ events'[e] = [status |-> t, body |-> m]
  BY MessageType DEF Record

\* A processed fulfilment event has had its effect.
LEMMA FulfilmentEffect ==
  ASSUME OrdersTypeOK, NEW m \in Webhooks, ProcessFulfilment(m), NEW e \in EventIds,
         events \in [EventIds -> EventType]
  PROVE  EventStep(e)
<1>1. m.order \in OrderIds /\ m.event_id \in EventIds
  BY MessageType
<1>2. ASSUME NEW t \in {"failed", "conflict"}, Record(m, t) PROVE EventStep(e)
  <2>1. events'[e] = events[e] \/ events'[e] = [status |-> t, body |-> m]
    BY <1>2, RecordStep
  <2> QED BY <1>2, <2>1 DEF EventStep
<1>3. CASE Tombstoned(m.order) /\ Record(m, "processed") /\ UNCHANGED tombstones
  <2>1. m.kind = "fulfil"
    BY DEF ProcessFulfilment
  <2>2. Effect(m)'
    BY <1>3, <2>1 DEF Effect, Tombstoned
  <2>3. events'[e] = events[e] \/ events'[e] = [status |-> "processed", body |-> m]
    BY <1>3, RecordStep
  <2> QED BY <2>2, <2>3 DEF EventStep
<1>4. CASE /\ HasRow(m.order) => SamePurchase(m)
           /\ Record(m, "processed")
           /\ orders' = [orders EXCEPT ![m.order] =
                           IF HasRow(m.order) THEN FillRow(m) ELSE NewRow(m)]
  <2>1. orders'[m.order] = IF HasRow(m.order) THEN FillRow(m) ELSE NewRow(m)
    BY <1>1, <1>4 DEF OrdersTypeOK
  <2>2. orders'[m.order].identity = m.identity /\ HasRow(m.order)'
    <3>1. CASE HasRow(m.order)
      BY <1>4, <2>1, <3>1, FillRowType DEF SamePurchase, HasRow
    <3>2. CASE ~HasRow(m.order)
      BY <2>1, <3>2 DEF NewRow, HasRow
    <3> QED BY <3>1, <3>2
  <2>3. m.kind = "fulfil"
    BY DEF ProcessFulfilment
  <2>4. Effect(m)'
    BY <2>2, <2>3 DEF Effect
  <2>5. events'[e] = events[e] \/ events'[e] = [status |-> "processed", body |-> m]
    BY <1>4, RecordStep
  <2> QED BY <2>4, <2>5 DEF EventStep
<1> QED BY <1>2, <1>3, <1>4 DEF ProcessFulfilment

\* Every action changes the ledger in one of these ways.
LEMMA EventsStep ==
  ASSUME IngestTypeOK, Acts, NEW e \in EventIds
  PROVE  EventStep(e)
<1>0. OrdersTypeOK /\ events \in [EventIds -> EventType]
  BY DEF IngestTypeOK, EventType
<1>1. ASSUME NEW m \in Webhooks, Ingest(m) PROVE EventStep(e)
  <2>0. m.order \in OrderIds /\ m.event_id \in EventIds
    BY MessageType
  <2>1. CASE IngestClash(m)
    <3>1. events[m.event_id].body \in Webhooks
      BY <1>0, <2>0, <2>1 DEF IngestClash, Clashes, EventType
    <3>2. events' = [events EXCEPT ![m.event_id].status = "conflict"]
      BY <2>1 DEF IngestClash
    <3>3. CASE e = m.event_id
      <4>1. events'[e] = [events[e] EXCEPT !.status = "conflict"]
        BY <1>0, <3>2, <3>3
      <4>2. events'[e] = [status |-> "conflict", body |-> events[e].body]
        BY <1>0, <4>1 DEF EventType
      <4> QED BY <3>1, <3>3, <4>2 DEF EventStep
    <3>4. CASE e # m.event_id
      BY <1>0, <3>2, <3>4 DEF EventStep
    <3> QED BY <3>3, <3>4
  <2>2. CASE UNCHANGED events
    BY <2>2 DEF EventStep
  <2>3. CASE ProcessRevocation(m)
    <3>1. events'[e] = events[e] \/ events'[e] = [status |-> "processed", body |-> m]
      BY <1>0, <2>3, RecordStep DEF ProcessRevocation
    <3>2. Effect(m)'
      BY <2>3 DEF ProcessRevocation, Effect
    <3> QED BY <3>1, <3>2 DEF EventStep
  <2>4. CASE ProcessFulfilment(m)
    BY <1>0, <2>4, FulfilmentEffect
  <2>5. CASE ProcessStatus(m)
    <3>1. events'[e] \in {events[e], [status |-> "processed", body |-> m],
                          [status |-> "conflict", body |-> m]}
      BY <1>0, <2>5, RecordStep DEF ProcessStatus
    <3>2. Effect(m)'
      BY <2>5 DEF ProcessStatus, Effect
    <3> QED BY <3>1, <3>2 DEF EventStep
  <2>6. CASE ProcessOther(m)
    <3>1. events'[e] = events[e] \/ events'[e] = [status |-> "ignored", body |-> m]
      BY <1>0, <2>6, RecordStep DEF ProcessOther
    <3> QED BY <3>1 DEF EventStep
  <2> QED BY <1>1, <2>1, <2>2, <2>3, <2>4, <2>5, <2>6
          DEF Ingest, IngestDuplicate, ingestVars
<1>2. ASSUME NEW o \in OrderIds, CreateManual(o) \/ PortalStep(o) \/ DeliveryStep(o)
      PROVE  EventStep(e)
  BY <1>2 DEF CreateManual, PortalStep, DeliveryStep, EventStep
<1> QED BY <1>1, <1>2 DEF Acts

\* Tombstones are only added, by a cancellation, which revokes the row; and an
\* order stays overridden until it is cancelled again.
TombstoneStep ==
  /\ tombstones \subseteq tombstones'
  /\ tombstones' \subseteq OrderIds
  /\ overridden' \subseteq OrderIds
  /\ \A o \in OrderIds :
       o \in tombstones' \ overridden' =>
         \/ o \in tombstones \ overridden
         \/ orders'[o].status \in {"none", "revoked"}

\* Every action changes the tombstones in this way.
LEMMA TombstonesStep ==
  ASSUME IngestTypeOK, Acts
  PROVE  TombstoneStep
<1>0. OrdersTypeOK /\ tombstones \subseteq OrderIds /\ overridden \subseteq OrderIds
  BY DEF IngestTypeOK
<1>1. ASSUME NEW m \in Webhooks, Ingest(m)
      PROVE  \/ UNCHANGED <<tombstones, overridden>>
             \/ /\ m.order \in OrderIds
                /\ tombstones' = tombstones \cup {m.order}
                /\ overridden' = overridden \ {m.order}
                /\ orders'[m.order].status \in {"none", "revoked"}
  <2>1. CASE ProcessRevocation(m)
    <3>1. m.order \in OrderIds
      BY MessageType
    <3>2. orders'[m.order].status \in {"none", "revoked"}
      <4>1. CASE HasRow(m.order)
        <5>1. orders[m.order] \in Row
          BY <1>0, <3>1, <4>1, NoRowIsNone
        <5>2. orders' = [orders EXCEPT ![m.order].status = "revoked"]
          BY <2>1, <4>1 DEF ProcessRevocation
        <5> QED BY <1>0, <3>1, <5>1, <5>2 DEF OrdersTypeOK, Row
      <4>2. CASE ~HasRow(m.order)
        BY <2>1, <4>2 DEF ProcessRevocation, HasRow
      <4> QED BY <4>1, <4>2
    <3> QED BY <2>1, <3>1, <3>2 DEF ProcessRevocation
  <2>2. CASE ~ProcessRevocation(m)
    BY <1>1, <2>2 DEF Ingest, IngestClash, IngestDuplicate, ProcessFulfilment,
                      ProcessStatus, ProcessOther, ingestVars
  <2> QED BY <2>1, <2>2
<1>2. ASSUME NEW o \in OrderIds, CreateManual(o) \/ PortalStep(o) \/ DeliveryStep(o)
      PROVE  /\ UNCHANGED tombstones
             /\ overridden' \in {overridden, overridden \cup {o}}
  BY <1>2 DEF CreateManual, PortalStep, DeliveryStep
<1> QED BY <1>0, <1>1, <1>2 DEF Acts, TombstoneStep

\* A step touches the row of x only, and a tombstone of x comes without a
\* grant or an item.
Touches(x) ==
  /\ \A o \in OrderIds \ {x} : orders'[o] = orders[o]
  /\ \/ UNCHANGED tombstones
     \/ /\ tombstones' = tombstones \cup {x}
        /\ orders'[x].identity = orders[x].identity
        /\ orders'[x].delivery_id = orders[x].delivery_id

\* Every action touches the row of one order.
LEMMA OneRow ==
  ASSUME OrdersTypeOK, Acts
  PROVE  \E x \in OrderIds : Touches(x)
<1>1. ASSUME NEW m \in Webhooks, Ingest(m) PROVE Touches(m.order)
  <2>0. m.order \in OrderIds
    BY MessageType
  <2>1. CASE ProcessRevocation(m)
    <3>1. CASE HasRow(m.order)
      <4>1. orders[m.order] \in Row
        BY <2>0, <3>1, NoRowIsNone
      <4>2. orders' = [orders EXCEPT ![m.order].status = "revoked"]
        BY <2>1, <3>1 DEF ProcessRevocation
      <4> QED BY <2>0, <2>1, <4>1, <4>2 DEF ProcessRevocation, OrdersTypeOK, Touches, Row
    <3>2. CASE ~HasRow(m.order)
      BY <2>1, <3>2 DEF ProcessRevocation, Touches
    <3> QED BY <3>1, <3>2
  <2>2. CASE UNCHANGED <<orders, tombstones>>
    BY <2>2 DEF Touches
  <2>3. CASE ProcessFulfilment(m) \/ ProcessStatus(m)
    BY <2>0, <2>3 DEF ProcessFulfilment, ProcessStatus, Touches, OrdersTypeOK
  <2> QED BY <1>1, <2>1, <2>2, <2>3
          DEF Ingest, IngestClash, IngestDuplicate, ProcessOther, ingestVars
<1>2. ASSUME NEW o \in OrderIds, CreateManual(o) \/ PortalStep(o) \/ DeliveryStep(o)
      PROVE  Touches(o)
  BY <1>2 DEF CreateManual, PortalStep, PortalChangesStatus, DeliveryStep,
              DeliveryChangesRow, Touches, OrdersTypeOK
<1> QED BY <1>1, <1>2, MessageType DEF Acts

\* What a step that handles messages may do, in one piece or by statements.
Allowed ==
  /\ orders' = [o \in OrderIds |-> orders'[o]]
  /\ events' = [e \in EventIds |-> events'[e]]
  /\ \A o \in OrderIds : RowStep(o)
  /\ \A e \in EventIds : EventStep(e)
  /\ TombstoneStep
  /\ \E x \in OrderIds : Touches(x)

\* Every action is allowed.
LEMMA ActsAllowed ==
  ASSUME IngestTypeOK, Acts
  PROVE  Allowed
<1>0. OrdersTypeOK /\ events \in [EventIds -> EventType]
  BY DEF IngestTypeOK, EventType
<1>1. orders' = [o \in OrderIds |-> orders'[o]]
  BY <1>0 DEF Acts, Ingest, IngestClash, IngestDuplicate, ProcessRevocation,
     ProcessFulfilment, ProcessStatus, ProcessOther, CreateManual, PortalStep,
     PortalChangesStatus, DeliveryStep, DeliveryChangesRow, OrdersTypeOK, ingestVars
<1>2. events' = [e \in EventIds |-> events'[e]]
  BY <1>0 DEF Acts, Ingest, IngestClash, IngestDuplicate, ProcessRevocation,
     ProcessFulfilment, ProcessStatus, ProcessOther, CreateManual, PortalStep,
     DeliveryStep, Record, ingestVars
<1> QED BY <1>0, <1>1, <1>2, RowsStep, EventsStep, TombstonesStep, OneRow DEF Allowed

----------------------------------------------------------------------------
(* What a message may do to the table (the contract of OrderTable).        *)

\* The table after a message.
KeptTable ==
  \/ orders' = orders
  \/ \E o \in OrderIds :
       \/ RowArrives(o)
       \/ MessageChangesRow(o)
       \/ PortalChangesStatus(o) /\ orders'[o].status = "revoked"

\* A row with what a message adds to it.
Supplied(row, p, d, s) ==
  [status |-> row.status, delivery_status |-> s,
   delivery_id |-> IF row.delivery_id = Null THEN d ELSE row.delivery_id,
   identity |-> IF row.identity = Null THEN p ELSE row.identity]

\* What becomes of the row of its order.
KeptRow(o, row) ==
  \/ row = orders[o]
  \/ ~HasRow(o) /\ row \in Purchased
  \/ HasRow(o) /\ row = [orders[o] EXCEPT !.status = "revoked"]
  \/ /\ HasRow(o)
     /\ \E p \in Identities \cup {Null}, d \in DeliveryIds \cup {Null},
           s \in {orders[o].delivery_status, "delivered"} :
          row = Supplied(orders[o], p, d, s)

\* A row is its columns.
LEMMA RowIs ==
  ASSUME NEW row \in Row
  PROVE  row = [status |-> row.status, delivery_status |-> row.delivery_status,
                delivery_id |-> row.delivery_id, identity |-> row.identity]
  BY DEF Row

\* What a fulfilment adds, written out.
LEMMA FilledIs ==
  ASSUME NEW row \in Row, NEW p \in Identities \cup {Null}, NEW d \in DeliveryIds \cup {Null}
  PROVE  Supplied(row, p, d, row.delivery_status) =
           [row EXCEPT !.identity = IF @ = Null THEN p ELSE @,
                       !.delivery_id = IF @ = Null THEN d ELSE @]
<1> DEFINE x == IF row.identity = Null THEN p ELSE row.identity
           y == IF row.delivery_id = Null THEN d ELSE row.delivery_id
           new == [row EXCEPT !.identity = x, !.delivery_id = y]
<1>1. x \in Identities \cup {Null} /\ y \in DeliveryIds \cup {Manual, Null}
  BY DEF Row
<1>2. /\ new \in Row /\ new.status = row.status /\ new.delivery_status = row.delivery_status
      /\ new.delivery_id = y /\ new.identity = x
  <2> HIDE DEF x, y
  <2> QED BY <1>1 DEF Row
<1>3. Supplied(row, p, d, row.delivery_status) =
        [status |-> row.status, delivery_status |-> row.delivery_status,
         delivery_id |-> y, identity |-> x]
  BY DEF Supplied
<1>4. Supplied(row, p, d, row.delivery_status) = new
  <2> HIDE DEF new, x, y
  <2> QED BY <1>2, <1>3, RowIs
<1> QED BY <1>4, Zenon

\* What a report on a delivery writes, written out.
LEMMA ReportedIs ==
  ASSUME NEW row \in Row, NEW d \in DeliveryIds \cup {Null}, NEW s \in DeliveryStatus
  PROVE  Supplied(row, Null, d, s) =
           [row EXCEPT !.delivery_id = IF @ = Null THEN d ELSE @, !.delivery_status = s]
<1> DEFINE y == IF row.delivery_id = Null THEN d ELSE row.delivery_id
           new == [row EXCEPT !.delivery_id = y, !.delivery_status = s]
<1>1. y \in DeliveryIds \cup {Manual, Null}
  BY DEF Row
<1>2. /\ new \in Row /\ new.status = row.status /\ new.delivery_status = s
      /\ new.delivery_id = y /\ new.identity = row.identity
  <2> HIDE DEF y
  <2> QED BY <1>1 DEF Row
<1>3. Supplied(row, Null, d, s) =
        [status |-> row.status, delivery_status |-> s,
         delivery_id |-> y, identity |-> row.identity]
  BY DEF Supplied
<1>4. Supplied(row, Null, d, s) = new
  <2> HIDE DEF new, y
  <2> QED BY <1>2, <1>3, RowIs
<1> QED BY <1>4, Zenon

\* A kept row makes a kept table.
LEMMA RowKeepsTable ==
  ASSUME OrdersTypeOK, NEW o \in OrderIds, NEW row, KeptRow(o, row),
         orders' = [orders EXCEPT ![o] = row]
  PROVE  KeptTable
<1>1. CASE row = orders[o]
  BY <1>1 DEF OrdersTypeOK, KeptTable
<1>2. CASE ~HasRow(o) /\ row \in Purchased
  BY <1>2 DEF RowArrives, KeptTable
<1>3. CASE HasRow(o) /\ row = [orders[o] EXCEPT !.status = "revoked"] /\ row # orders[o]
  <2>1. orders[o] \in Row /\ orders[o].status # "revoked"
    BY <1>3, NoRowIsNone DEF Row
  <2>2. <<orders[o].status, "revoked">> \in StatusTurns
    BY <2>1 DEF Row, RowStatus, StatusTurns
  <2>3. orders' = [orders EXCEPT ![o].status = "revoked"] /\ orders'[o].status = "revoked"
    BY <1>3, <2>1 DEF OrdersTypeOK, Row
  <2>4. PortalChangesStatus(o)
    BY <1>3, <2>2, <2>3 DEF PortalChangesStatus, RowStatus
  <2> QED BY <2>3, <2>4 DEF KeptTable
<1>4. ASSUME HasRow(o), NEW p \in Identities \cup {Null}, NEW d \in DeliveryIds \cup {Null},
             NEW s \in {orders[o].delivery_status, "delivered"},
             row = Supplied(orders[o], p, d, s)
      PROVE  KeptTable
  <2>1. orders[o] \in Row
    BY <1>4, NoRowIsNone
  <2>2. orders' = [orders EXCEPT ![o].identity = IF @ = Null THEN p ELSE @,
                                 ![o].delivery_id = IF @ = Null THEN d ELSE @,
                                 ![o].delivery_status = s]
    BY <1>4, <2>1 DEF OrdersTypeOK, Row, Supplied
  <2>3. MessageChangesRow(o)
    BY <1>4, <2>2 DEF MessageChangesRow
  <2> QED BY <2>3 DEF KeptTable
<1> QED BY <1>1, <1>2, <1>3, <1>4 DEF KeptRow

\* A message keeps to it.
LEMMA MessageKeeps ==
  ASSUME OrdersTypeOK, NEW m \in Webhooks, Ingest(m)
  PROVE  KeptTable
<1>1. m.order \in OrderIds /\ m.identity \in Identities /\ m.delivery_id \in DeliveryIds \cup {Null}
  BY MessageType
<1>2. CASE orders' = orders
  BY <1>2 DEF KeptTable
<1>3. CASE ProcessRevocation(m) /\ HasRow(m.order)
  <2>1. orders[m.order] \in Row
    BY <1>1, <1>3, NoRowIsNone
  <2> DEFINE row == [orders[m.order] EXCEPT !.status = "revoked"]
  <2>2. orders' = [orders EXCEPT ![m.order] = row]
    BY <1>3 DEF ProcessRevocation
  <2>3. KeptRow(m.order, row)
    BY <1>3 DEF KeptRow
  <2> HIDE DEF row
  <2> QED BY <1>1, <2>2, <2>3, RowKeepsTable
<1>4. CASE ProcessFulfilment(m) /\ orders' # orders
  <2>1. orders' = [orders EXCEPT ![m.order] = IF HasRow(m.order) THEN FillRow(m) ELSE NewRow(m)]
    BY <1>4 DEF ProcessFulfilment
  <2>2. CASE HasRow(m.order)
    <3>1. orders[m.order] \in Row
      BY <1>1, <2>2, NoRowIsNone
    <3>2. FillRow(m) = Supplied(orders[m.order], m.identity, m.delivery_id,
                                orders[m.order].delivery_status)
      BY <1>1, <3>1, FilledIs DEF FillRow
    <3>3. KeptRow(m.order, FillRow(m))
      BY <1>1, <2>2, <3>2 DEF KeptRow
    <3> QED BY <1>1, <2>1, <2>2, <3>3, RowKeepsTable
  <2>3. CASE ~HasRow(m.order)
    <3>1. KeptRow(m.order, NewRow(m))
      BY <1>1, <2>3 DEF KeptRow, NewRow, Purchased
    <3> QED BY <1>1, <2>1, <2>3, <3>1, RowKeepsTable
  <2> QED BY <2>2, <2>3
<1>5. CASE ProcessStatus(m) /\ orders' # orders
  <2>1. /\ HasRow(m.order)
        /\ orders' = [orders EXCEPT
             ![m.order].delivery_id = IF @ = Null THEN m.delivery_id ELSE @,
             ![m.order].delivery_status = IF m.complete THEN "delivered" ELSE @]
    BY <1>5 DEF ProcessStatus
  <2> DEFINE s == IF m.complete THEN "delivered" ELSE orders[m.order].delivery_status
             row == Supplied(orders[m.order], Null, m.delivery_id, s)
  <2>2. orders[m.order] \in Row
    BY <1>1, <2>1, NoRowIsNone
  <2>3. orders' = [orders EXCEPT ![m.order] = row]
    <3>1. row = [orders[m.order] EXCEPT !.delivery_id = IF @ = Null THEN m.delivery_id ELSE @,
                                        !.delivery_status = s]
      <4>1. s \in DeliveryStatus
        BY <2>2 DEF Row, DeliveryStatus
      <4>2. m.delivery_id \in DeliveryIds \cup {Null}
        BY <1>1
      <4>3. PICK old, d, t : old = orders[m.order] /\ d = m.delivery_id /\ t = s
        OBVIOUS
      <4>4. old \in Row /\ d \in DeliveryIds \cup {Null} /\ t \in DeliveryStatus
        BY <2>2, <4>1, <4>2, <4>3
      <4>5. Supplied(old, Null, d, t) =
              [old EXCEPT !.delivery_id = IF @ = Null THEN d ELSE @, !.delivery_status = t]
        BY <4>4, ReportedIs
      <4> QED BY <4>3, <4>5
    <3>2. orders' = [orders EXCEPT ![m.order] = [orders[m.order] EXCEPT
                       !.delivery_id = IF @ = Null THEN m.delivery_id ELSE @,
                       !.delivery_status = s]]
      BY <1>1, <2>1, <2>2 DEF OrdersTypeOK, Row
    <3> QED BY <3>1, <3>2
  <2>4. KeptRow(m.order, row)
    BY <1>1, <2>1 DEF KeptRow
  <2> HIDE DEF row
  <2> QED BY <1>1, <2>3, <2>4, RowKeepsTable
<1> QED BY <1>2, <1>3, <1>4, <1>5 DEF Ingest, IngestClash, IngestDuplicate, ProcessOther,
           ProcessRevocation, ingestVars

----------------------------------------------------------------------------
(* The inductive invariant.                                                *)

\* The invariant holds initially.
LEMMA IngestInitially == IngestInit => IngestInv
<1> SUFFICES ASSUME IngestInit PROVE IngestInv
  OBVIOUS
<1>1. OrdersTypeOK
  BY DEF IngestInit, OrdersInit, OrdersTypeOK, Legacy, Row, RowStatus, DeliveryStatus
<1>2. \A e \in EventIds : events[e].status = "none"
  BY DEF IngestInit, NoEvent
<1>3. events \in [EventIds -> EventType]
  BY DEF IngestInit, NoEvent, EventType
<1> QED BY <1>1, <1>2, <1>3 DEF IngestInit, IngestInv, IngestTypeOK, EventType, Recorded,
           LedgerSound, CancellationWins

\* Every step keeps the types and the bodies of recorded events.
LEMMA IngestTypeStep ==
  ASSUME IngestInv, Allowed
  PROVE  IngestTypeOK' /\ Recorded'
<1>0. IngestTypeOK /\ OrdersTypeOK /\ Recorded /\ events \in [EventIds -> EventType]
  BY DEF IngestInv, IngestTypeOK, EventType
<1>1. OrdersTypeOK'
  BY DEF Allowed, RowStep, OrdersTypeOK
<1>2. ASSUME NEW e \in EventIds
      PROVE  /\ events'[e] \in EventType
             /\ events'[e].status # "none" => events'[e].body \in Webhooks
  <2>1. CASE events'[e] = events[e]
    BY <1>0, <2>1 DEF Recorded
  <2>2. CASE \E m \in Webhooks : events'[e] = [status |-> "processed", body |-> m]
    BY <2>2 DEF EventType
  <2>3. CASE \E m \in Webhooks, t \in {"ignored", "conflict", "failed"} :
               events'[e] = [status |-> t, body |-> m]
    BY <2>3 DEF EventType
  <2> QED BY <1>0, <2>1, <2>2, <2>3 DEF Allowed, EventStep
<1>3. events' \in [EventIds -> EventType]
  BY <1>2 DEF Allowed
<1>4. tombstones' \subseteq OrderIds /\ overridden' \subseteq OrderIds
  BY DEF Allowed, TombstoneStep
<1> QED BY <1>1, <1>2, <1>3, <1>4 DEF IngestTypeOK, EventType, Recorded

\* An effect lasts: no step gives a row another purchase or takes a tombstone
\* away.
LEMMA EffectLasts ==
  ASSUME IngestInv, Allowed, NEW m \in Webhooks, Effect(m)
  PROVE  Effect(m)'
<1>0. IngestTypeOK /\ OrdersTypeOK /\ m.order \in OrderIds /\ m.identity # Null
  BY MessageType DEF IngestInv, IngestTypeOK
<1>1. RowStep(m.order)
  BY <1>0 DEF Allowed
<1>2. tombstones \subseteq tombstones'
  BY DEF Allowed, TombstoneStep
<1> QED BY <1>0, <1>1, <1>2 DEF Effect, RowStep

\* Every step keeps the ledger sound.
LEMMA LedgerStep ==
  ASSUME IngestInv, Allowed
  PROVE  LedgerSound'
<1>1. ASSUME NEW e \in EventIds, events'[e].status = "processed"
      PROVE  \E m \in Webhooks : events'[e].body = m /\ Effect(m)'
  <2>1. CASE events'[e] = events[e]
    <3>1. events[e].body \in Webhooks /\ Effect(events[e].body)
      BY <1>1, <2>1 DEF IngestInv, Recorded, LedgerSound, Effect
    <3>2. PICK m \in Webhooks : events[e].body = m
      BY <3>1
    <3>3. Effect(m)'
      BY <3>1, <3>2, EffectLasts
    <3> QED BY <2>1, <3>2, <3>3
  <2>2. CASE \E m \in Webhooks :
               events'[e] = [status |-> "processed", body |-> m] /\ Effect(m)'
    <3>1. PICK m \in Webhooks :
            events'[e] = [status |-> "processed", body |-> m] /\ Effect(m)'
      BY <2>2
    <3>2. events'[e].body = m
      BY <3>1
    <3> QED BY <3>1, <3>2
  <2>3. ~\E m \in Webhooks, t \in {"ignored", "conflict", "failed"} :
           events'[e] = [status |-> t, body |-> m]
    <3> SUFFICES ASSUME NEW m \in Webhooks, NEW t \in {"ignored", "conflict", "failed"},
                        events'[e] = [status |-> t, body |-> m]
                 PROVE  FALSE
      OBVIOUS
    <3>1. events'[e].status = t
      OBVIOUS
    <3> QED BY <1>1, <3>1
  <2>4. EventStep(e)
    BY DEF Allowed
  <2> QED BY <2>1, <2>2, <2>3, <2>4 DEF EventStep
<1> QED BY <1>1 DEF LedgerSound, Effect

\* Every step keeps cancelled orders without a row or revoked.
LEMMA CancellationStep ==
  ASSUME IngestInv, Allowed
  PROVE  CancellationWins'
<1>1. IngestTypeOK /\ OrdersTypeOK /\ CancellationWins
  BY DEF IngestInv, IngestTypeOK
<1>2. ASSUME NEW o \in tombstones' \ overridden'
      PROVE  orders'[o].status \in {"none", "revoked"}
  <2>1. o \in OrderIds
    BY <1>2 DEF Allowed, TombstoneStep
  <2>2. CASE o \in tombstones \ overridden
    BY <1>1, <1>2, <2>1, <2>2 DEF Allowed, CancellationWins, RowStep
  <2> QED BY <1>2, <2>1, <2>2 DEF Allowed, TombstoneStep
<1> QED BY <1>2 DEF CancellationWins

\* A step that is allowed keeps the invariant.
LEMMA AllowedKeeps ==
  ASSUME IngestInv, Allowed
  PROVE  IngestInv'
  BY IngestTypeStep, LedgerStep, CancellationStep DEF IngestInv

\* The invariant is inductive.
LEMMA IngestStep == IngestInv /\ [IngestNext]_ingestVars => IngestInv'
<1>1. CASE IngestInv /\ IngestNext
  <2>1. Acts
    BY <1>1 DEF IngestNext, Acts
  <2> QED BY <1>1, <2>1, ActsAllowed, AllowedKeeps DEF IngestInv
<1>2. CASE IngestInv /\ UNCHANGED ingestVars
  BY <1>2 DEF ingestVars, IngestInv, IngestTypeOK, OrdersTypeOK, Recorded, LedgerSound,
     CancellationWins, HasRow
<1> QED BY <1>1, <1>2

----------------------------------------------------------------------------
(* The refinement of Entitlement.                                          *)

\* The mapping of the rows.
Grants == [o \in OrderIds |-> orders[o].identity]
Items == [o \in OrderIds |-> orders[o].delivery_id]

\* What is allowed is a step of Entitlement or leaves its variables alone.
LEMMA EntitlementStep ==
  ASSUME OrdersTypeOK, Allowed
  PROVE  E!Next \/ UNCHANGED <<Grants, Items, tombstones>>
<1>1. PICK x \in OrderIds : Touches(x)
  BY DEF Allowed
<1>2. RowStep(x)
  BY DEF Allowed
<1>3. /\ \A o \in OrderIds \ {x} : Grants'[o] = Grants[o] /\ Items'[o] = Items[o]
      /\ Grants'[x] = orders'[x].identity
      /\ Items'[x] = orders'[x].delivery_id
  BY <1>1 DEF Touches, Grants, Items
<1>4. orders'[x].identity \in Identities \cup {Null}
      /\ orders'[x].delivery_id \in DeliveryIds \cup {Manual, Null}
  BY <1>2 DEF RowStep, Row, NoRow
<1>5. /\ Grants' = [Grants EXCEPT ![x] = orders'[x].identity]
      /\ Items' = [Items EXCEPT ![x] = orders'[x].delivery_id]
  BY <1>3 DEF Grants, Items
<1>6. CASE tombstones' = tombstones \cup {x} /\ ~UNCHANGED tombstones
  BY <1>1, <1>3, <1>6 DEF Touches, Grants, Items, E!Next, E!Withdraw
<1>7. CASE UNCHANGED tombstones
  <2>1. CASE orders'[x].identity = orders[x].identity
    <3>1. UNCHANGED Grants
      BY <1>3, <2>1 DEF Grants
    <3>2. CASE orders'[x].delivery_id = orders[x].delivery_id
      <4>1. UNCHANGED Items
        BY <1>3, <3>2 DEF Items
      <4> QED BY <1>7, <3>1, <4>1
    <3>3. CASE orders'[x].delivery_id # orders[x].delivery_id
      <4>1. PICK d \in DeliveryIds \cup {Manual} : d = orders'[x].delivery_id
        BY <1>2, <1>4, <3>3 DEF RowStep
      <4>2. E!Name(x, d)
        BY <1>2, <1>5, <3>3, <4>1 DEF RowStep, E!Name, Items
      <4>3. \E c \in DeliveryIds \cup {Manual} : E!Name(x, c)
        BY <4>2
      <4> QED BY <1>7, <3>1, <4>3 DEF E!Next, Grants
    <3> QED BY <3>2, <3>3
  <2>2. CASE orders'[x].identity # orders[x].identity
    <3>1. PICK p \in Identities : p = orders'[x].identity
      BY <1>2, <1>4, <2>2 DEF RowStep
    <3>2. E!Grant(x, p)
      BY <1>2, <1>5, <2>2, <3>1 DEF RowStep, E!Grant, Grants
    <3>2a. \E q \in Identities : E!Grant(x, q)
      BY <3>2
    <3>3. CASE orders'[x].delivery_id = orders[x].delivery_id
      <4>1. UNCHANGED Items
        BY <1>3, <3>3 DEF Items
      <4> QED BY <1>7, <3>2a, <4>1 DEF E!Next, Items
    <3>4. CASE orders'[x].delivery_id # orders[x].delivery_id
      <4>1. PICK d \in DeliveryIds \cup {Manual} : d = orders'[x].delivery_id
        BY <1>2, <1>4, <3>4 DEF RowStep
      <4>2. E!Name(x, d)
        BY <1>2, <1>5, <3>4, <4>1 DEF RowStep, E!Name, Items
      <4>3. \E c \in DeliveryIds \cup {Manual} : E!Name(x, c)
        BY <4>2
      <4> QED BY <1>7, <3>2a, <4>3 DEF E!Next
    <3> QED BY <3>3, <3>4
  <2> QED BY <2>1, <2>2
<1> QED BY <1>1, <1>6, <1>7 DEF Touches

----------------------------------------------------------------------------
(* The theorems.                                                           *)

\* The inductive invariant holds whatever messages arrive, in whatever order
\* and however often.
THEOREM IngestInvariant == IngestSpec => []IngestInv
  BY IngestInitially, IngestStep, PTL DEF IngestSpec

\* Every state of the webhook endpoint has its type.
THEOREM IngestTypeCorrect == IngestSpec => []IngestTypeOK
<1>1. IngestInv => IngestTypeOK
  BY DEF IngestInv
<1> QED BY <1>1, IngestInvariant, PTL

\* An event recorded as processed has had its effect, for good (ingest_webhook
\* acknowledges it from then on without another look).
THEOREM LedgerAlwaysSound == IngestSpec => []LedgerSound
<1>1. IngestInv => LedgerSound
  BY DEF IngestInv
<1> QED BY <1>1, IngestInvariant, PTL

\* A cancelled order has no row or a revoked one until the portal or an
\* administrator changes it, whichever event came first (_record_tombstone).
THEOREM CancellationAlwaysWins == IngestSpec => []CancellationWins
<1>1. IngestInv => CancellationWins
  BY DEF IngestInv
<1> QED BY <1>1, IngestInvariant, PTL

\* Whatever the message and whatever became of its order before, the endpoint
\* adds a row, fills in what one lacks, reports it delivered or revokes it.
THEOREM MessagesStayOnTheirRows == IngestSpec => MessagesKeepToRows
<1>1. IngestInv /\ [IngestNext]_ingestVars => [events' # events => KeptTable]_ingestVars
  <2>1. ASSUME IngestInv, NEW m \in Webhooks, Ingest(m)
        PROVE  KeptTable
    BY <2>1, MessageKeeps DEF IngestInv, IngestTypeOK
  <2>2. ASSUME NEW o \in OrderIds, CreateManual(o) \/ PortalStep(o) \/ DeliveryStep(o)
        PROVE  events' = events
    BY <2>2 DEF CreateManual, PortalStep, DeliveryStep
  <2> QED BY <2>1, <2>2 DEF IngestNext
<1>2. IngestSpec => [][events' # events => KeptTable]_ingestVars
  BY <1>1, IngestInvariant, PTL DEF IngestSpec
<1> QED BY <1>2 DEF MessagesKeepToRows, KeptTable

\* The endpoint implements Entitlement: every step grants a purchase, names an
\* item, withdraws an order, or changes none of them.
THEOREM IngestRefinesEntitlement == IngestSpec => ImplementsEntitlement
<1>1. IngestInit => E!Init
  BY DEF IngestInit, OrdersInit, E!Init, NoRow, Legacy
<1>2. IngestInv /\ [IngestNext]_ingestVars =>
        [E!Next]_<<[o \in OrderIds |-> orders[o].identity],
                   [o \in OrderIds |-> orders[o].delivery_id], tombstones>>
  <2>1. CASE IngestInv /\ IngestNext
    BY <2>1, ActsAllowed, EntitlementStep
       DEF IngestNext, Acts, IngestInv, IngestTypeOK, Grants, Items
  <2>2. CASE UNCHANGED ingestVars
    BY <2>2 DEF ingestVars
  <2> QED BY <2>1, <2>2
<1>3. IngestSpec => E!Spec
  BY <1>1, <1>2, IngestInvariant, PTL DEF IngestSpec, E!Spec
<1> QED BY <1>3 DEF ImplementsEntitlement
=============================================================================
