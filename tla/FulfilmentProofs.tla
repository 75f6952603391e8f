-------------------------- MODULE FulfilmentProofs --------------------------
(***************************************************************************)
(* Proofs about Fulfilment, for any messages, orders, items and senders:   *)
(* endpoint and attempts implement WebhookIngest, a cancellation lets one  *)
(* attempt at most send its key, and the row names the item the key was    *)
(* handed over under.  And about G2GPayload, for documents of any length:  *)
(* what the portal reads in them is what they say.                         *)
(***************************************************************************)
EXTENDS Fulfilment, WebhookIngestProofs, G2GPayload, FiniteSetTheorems, WellFoundedInduction

Upsets == {"renamed", "outlived", "killed"}

Attempt == [pc : {"idle", "lookup", "post", "finish"},
            order : OrderIds \cup {Null},
            item : DeliveryIds \cup {Null},
            source : {"none", "fulfil", "revoke", "status", "other", "g2g"},
            ok : BOOLEAN]

AttemptsTypeOK ==
  /\ ledger \in Seq(EventIds)
  /\ \A i \in DOMAIN ledger : events[ledger[i]].body \in Webhooks
  /\ senders \in [Senders -> Attempt]
  /\ \A w \in Senders : senders[w].pc # "idle" => senders[w].order \in OrderIds
  /\ lapsed \subseteq OrderIds
  /\ sentUnder \in [OrderIds -> SUBSET (DeliveryIds \cup {Null})]
  /\ late \in [OrderIds -> Nat]
  /\ upset \in [OrderIds -> SUBSET Upsets]

\* A row created by hand is not handed over, unless a message said it was.
ByHandOnly ==
  \A o \in OrderIds :
    orders[o].delivery_id = Manual => orders[o].delivery_status \in {"manual", "delivered"}

\* An order that is being attempted has a row that is not one of those.
AttemptedRows ==
  \A w \in Senders, o \in OrderIds :
    Attempting(w, o) => /\ HasRow(o)
                        /\ orders[o].delivery_status # "manual"
                        /\ orders[o].delivery_id # Manual

\* The attempt that may still send the key of a cancelled order has not yet.
LateInv ==
  \A o \in OrderIds :
    /\ o \notin tombstones \ overridden => late[o] = 0
    /\ "outlived" \notin upset[o] =>
         /\ \A v, w \in Senders : Attempting(v, o) /\ Attempting(w, o) => v = w
         /\ late[o] <= 1
         /\ \A w \in Senders :
              Attempting(w, o) /\ senders[w].pc # "finish" => late[o] = 0

\* The items of the row, of the attempt, and of the keys that were sent agree.
ItemInv ==
  \A o \in OrderIds :
    upset[o] = {} =>
      /\ Null \notin sentUnder[o]
      /\ ~HasRow(o) => sentUnder[o] = {}
      /\ (\A w \in Senders : ~Attempting(w, o)) => sentUnder[o] \subseteq {orders[o].delivery_id}
      /\ \A w \in Senders :
           Attempting(w, o) =>
             /\ orders[o].delivery_id \in {Null, senders[w].item}
             /\ sentUnder[o] \subseteq {senders[w].item}
             /\ senders[w].pc = "lookup" => senders[w].item = Null
             /\ senders[w].pc = "post" => /\ senders[w].item # Null
                                          /\ sentUnder[o] \subseteq {orders[o].delivery_id}

FulfilInv == AttemptsTypeOK /\ ByHandOnly /\ AttemptedRows /\ LateInv /\ ItemInv

FullInv == IngestInv /\ FulfilInv

----------------------------------------------------------------------------
(* What each action does.                                                  *)

\* What the endpoint and the portal do to the row of an order: nothing, insert
\* it, or record a delivery and name an item where none is named.
RowTurn(o) ==
  \/ /\ HasRow(o) /\ HasRow(o)'
     /\ orders'[o].delivery_status \in {orders[o].delivery_status, "delivered"}
     /\ \/ orders'[o].delivery_id = orders[o].delivery_id
        \/ orders[o].delivery_id = Null /\ orders'[o].delivery_id \in DeliveryIds
  \/ orders'[o] = orders[o]
  \/ /\ ~HasRow(o) /\ HasRow(o)'
     /\ orders'[o].delivery_id = Manual => orders'[o].delivery_status = "manual"

\* A message turns the row of its order at most.
LEMMA MessageTurns ==
  ASSUME OrdersTypeOK, NEW m \in Webhooks, Ingest(m), NEW o \in OrderIds
  PROVE  RowTurn(o)
<1>1. m.order \in OrderIds /\ m.delivery_id \in DeliveryIds \cup {Null}
  BY MessageType
<1>2. CASE UNCHANGED orders
  BY <1>2 DEF RowTurn
<1>3. CASE o # m.order
  BY <1>1, <1>3 DEF Ingest, IngestClash, IngestDuplicate, ProcessRevocation,
     ProcessFulfilment, ProcessStatus, ProcessOther, ingestVars, OrdersTypeOK, RowTurn
<1>4. CASE o = m.order /\ HasRow(o) /\ orders' = [orders EXCEPT ![o].status = "revoked"]
  <2>1. orders[o] \in Row
    BY <1>4, NoRowIsNone
  <2>2. orders'[o] = [orders[o] EXCEPT !.status = "revoked"]
    BY <1>4 DEF OrdersTypeOK
  <2> QED BY <1>4, <2>1, <2>2 DEF Row, RowTurn, HasRow
<1>5. CASE o = m.order /\ HasRow(o) /\ orders' = [orders EXCEPT ![o] = FillRow(m)]
  <2>1. orders[o] \in Row
    BY <1>5, NoRowIsNone
  <2>2. orders'[o] = FillRow(m)
    BY <1>5 DEF OrdersTypeOK
  <2>3. FillRow(m).delivery_status = orders[m.order].delivery_status
    BY <1>5, <2>1 DEF FillRow, Row
  <2> QED BY <1>1, <1>5, <2>2, <2>3, FillRowType DEF RowTurn, HasRow
<1>6. CASE o = m.order /\ ~HasRow(o) /\ orders' = [orders EXCEPT ![o] = NewRow(m)]
  <2>1. orders'[o] = NewRow(m)
    BY <1>6 DEF OrdersTypeOK
  <2>2. m.delivery_id # Manual
    BY <1>1, TableAssumption
  <2> QED BY <1>6, <2>1, <2>2 DEF RowTurn, HasRow, NewRow
<1>7. CASE /\ o = m.order /\ HasRow(o)
           /\ orders' = [orders EXCEPT
                ![o].delivery_id = IF @ = Null THEN m.delivery_id ELSE @,
                ![o].delivery_status = IF m.complete THEN "delivered" ELSE @]
  <2>1. orders[o] \in Row
    BY <1>7, NoRowIsNone
  <2>2. orders'[o] = [status |-> orders[o].status,
                      delivery_status |-> IF m.complete THEN "delivered"
                                          ELSE orders[o].delivery_status,
                      delivery_id |-> IF orders[o].delivery_id = Null THEN m.delivery_id
                                      ELSE orders[o].delivery_id,
                      identity |-> orders[o].identity]
    BY <1>7, <2>1 DEF OrdersTypeOK, Row
  <2> QED BY <1>1, <1>7, <2>2 DEF RowTurn, HasRow
<1>8. CASE ProcessRevocation(m)
  BY <1>2, <1>3, <1>4, <1>8 DEF ProcessRevocation
<1>9. CASE ProcessFulfilment(m)
  BY <1>2, <1>3, <1>5, <1>6, <1>9 DEF ProcessFulfilment
<1>10. CASE ProcessStatus(m)
  BY <1>2, <1>3, <1>7, <1>10 DEF ProcessStatus
<1> QED BY <1>2, <1>8, <1>9, <1>10
        DEF Ingest, IngestClash, IngestDuplicate, ProcessOther, ingestVars

\* So does the portal.
LEMMA PortalTurns ==
  ASSUME OrdersTypeOK, NEW p \in OrderIds, CreateManual(p) \/ PortalStep(p),
         NEW o \in OrderIds
  PROVE  RowTurn(o)
<1>1. CASE o # p
  BY <1>1 DEF CreateManual, PortalStep, PortalChangesStatus, OrdersTypeOK, RowTurn
<1>2. CASE o = p /\ CreateManual(p)
  <2>1. orders'[o] = [status |-> "active", delivery_status |-> "manual",
                      delivery_id |-> Manual, identity |-> Null]
    BY <1>2 DEF CreateManual, ByHand, OrdersTypeOK
  <2> QED BY <1>2, <2>1 DEF CreateManual, RowTurn, HasRow
<1>3. CASE o = p /\ PortalStep(p)
  <2>1. PICK s \in RowStatus : HasRow(p) /\ orders' = [orders EXCEPT ![p].status = s]
    BY <1>3 DEF PortalStep, PortalChangesStatus
  <2>2. orders[o] \in Row
    BY <1>3, <2>1, NoRowIsNone
  <2>3. orders'[o] = [status |-> s, delivery_status |-> orders[o].delivery_status,
                      delivery_id |-> orders[o].delivery_id,
                      identity |-> orders[o].identity]
    BY <1>3, <2>1, <2>2 DEF OrdersTypeOK, Row
  <2> QED BY <1>3, <2>1, <2>3 DEF RowTurn, HasRow, RowStatus
<1> QED BY <1>1, <1>2, <1>3

\* The endpoint and the portal, as the attempts see them.
Outside ==
  /\ \A o \in OrderIds : RowTurn(o)
  /\ Observe
  /\ UNCHANGED <<senders, lapsed, sentUnder>>

\* A message or a step of the portal is such a step.
LEMMA IsOutside ==
  ASSUME OrdersTypeOK,
         \/ \E m \in Webhooks : HandleWebhook(m)
         \/ \E o \in OrderIds : Portal(o)
  PROVE  Outside
  BY MessageTurns, PortalTurns DEF HandleWebhook, Portal, Outside

\* A claim marks the row and makes the sender's attempt.
LEMMA ClaimDoes ==
  ASSUME OrdersTypeOK, AttemptsTypeOK, ByHandOnly, NEW w \in Senders, NEW o \in OrderIds,
         Claim(w, o)
  PROVE  /\ orders[o] \in Row
         /\ HasRow(o)
         /\ orders[o].status = "active"
         /\ orders[o].delivery_id \in DeliveryIds \cup {Null}
         /\ orders[o].delivery_id # Manual
         /\ orders[o].delivery_status # "manual"
         /\ orders'[o] = [status |-> orders[o].status, delivery_status |-> "delivering",
                          delivery_id |-> orders[o].delivery_id,
                          identity |-> orders[o].identity]
         /\ orders'[o].status = orders[o].status
         /\ orders'[o].delivery_id = orders[o].delivery_id
         /\ \A p \in OrderIds \ {o} : orders'[p] = orders[p]
         /\ senders'[w] = [pc |-> IF orders[o].delivery_id = Null THEN "lookup" ELSE "post",
                           order |-> o, item |-> orders[o].delivery_id,
                           source |-> "none", ok |-> FALSE]
         /\ senders'[w].pc = IF orders[o].delivery_id = Null THEN "lookup" ELSE "post"
         /\ senders'[w].order = o
         /\ senders'[w].item = orders[o].delivery_id
         /\ \A v \in Senders \ {w} : senders'[v] = senders[v]
<1>1. /\ orders[o].status = "active"
      /\ orders[o].delivery_status \in {"pending", "failed", "delivering"}
  BY DEF Claim, Eligible
<1>2. HasRow(o) /\ orders[o] \in Row
  BY <1>1, NoRowIsNone DEF HasRow
<1>3. orders[o].delivery_id \in DeliveryIds \cup {Null}
  BY <1>1, <1>2 DEF ByHandOnly, Row
<1>4. orders'[o] = [orders[o] EXCEPT !.delivery_status = "delivering"]
  BY DEF Claim, OrdersTypeOK
<1>5. \A p \in OrderIds \ {o} : orders'[p] = orders[p]
  BY DEF Claim, OrdersTypeOK
<1>6. senders'[w] = [Idle EXCEPT !.order = o, !.item = orders[o].delivery_id,
                       !.pc = IF orders[o].delivery_id = Null THEN "lookup" ELSE "post"]
  BY DEF Claim, AttemptsTypeOK
<1>7. \A v \in Senders \ {w} : senders'[v] = senders[v]
  BY DEF Claim, AttemptsTypeOK
<1>8. senders'[w] = [pc |-> IF orders[o].delivery_id = Null THEN "lookup" ELSE "post",
                     order |-> o, item |-> orders[o].delivery_id,
                     source |-> "none", ok |-> FALSE]
  BY <1>6 DEF Idle
<1>9. orders'[o] = [status |-> orders[o].status, delivery_status |-> "delivering",
                    delivery_id |-> orders[o].delivery_id, identity |-> orders[o].identity]
  BY <1>2, <1>4 DEF Row
<1>10. orders[o].delivery_id # Manual /\ orders[o].delivery_status # "manual"
  BY <1>1, <1>3, TableAssumption
<1> QED BY <1>1, <1>2, <1>3, <1>5, <1>7, <1>8, <1>9, <1>10

\* The end of an attempt gives the row a status and, where it has none, an item.
LEMMA FinishDoes ==
  ASSUME OrdersTypeOK, AttemptsTypeOK, AttemptedRows, NEW w \in Senders, Finish(w),
         NEW o, o = senders[w].order
  PROVE  /\ o \in OrderIds
         /\ Attempting(w, o)
         /\ HasRow(o)
         /\ orders[o] \in Row
         /\ orders'[o] = [status |-> orders[o].status,
                          delivery_status |-> IF senders[w].ok THEN "delivered" ELSE "failed",
                          delivery_id |-> IF orders[o].delivery_id = Null
                                          THEN senders[w].item ELSE orders[o].delivery_id,
                          identity |-> orders[o].identity]
         /\ orders'[o].status = orders[o].status
         /\ orders[o].delivery_id = Null => orders'[o].delivery_id = senders[w].item
         /\ orders[o].delivery_id # Null => orders'[o].delivery_id = orders[o].delivery_id
         /\ \A p \in OrderIds \ {o} : orders'[p] = orders[p]
         /\ senders'[w] = Idle
         /\ \A v \in Senders \ {w} : senders'[v] = senders[v]
<1>1. o \in OrderIds /\ Attempting(w, o)
  BY DEF Finish, AttemptsTypeOK, Attempting
<1>2. HasRow(o) /\ orders[o] \in Row
  BY <1>1, NoRowIsNone DEF AttemptedRows
<1>3. orders' = [orders EXCEPT
        ![o].delivery_status = IF senders[w].ok THEN "delivered" ELSE "failed",
        ![o].delivery_id = IF orders[o].delivery_id = Null THEN senders[w].item
                           ELSE orders[o].delivery_id]
  BY DEF Finish, ItemOnRecord
<1>4. orders'[o] = [status |-> orders[o].status,
                    delivery_status |-> IF senders[w].ok THEN "delivered" ELSE "failed",
                    delivery_id |-> IF orders[o].delivery_id = Null
                                    THEN senders[w].item ELSE orders[o].delivery_id,
                    identity |-> orders[o].identity]
  BY <1>1, <1>2, <1>3 DEF OrdersTypeOK, Row
<1>5. \A p \in OrderIds \ {o} : orders'[p] = orders[p]
  BY <1>3 DEF OrdersTypeOK
<1>6. /\ senders'[w] = Idle
      /\ \A v \in Senders \ {w} : senders'[v] = senders[v]
  BY DEF Finish, AttemptsTypeOK
<1> QED BY <1>1, <1>2, <1>4, <1>5, <1>6

\* A look-up finds an item of the marketplace or ends the attempt.
LEMMA LookUpDoes ==
  ASSUME AttemptsTypeOK, NEW w \in Senders, LookUp(w)
  PROVE  /\ senders[w].pc = "lookup"
         /\ senders'[w] \in Attempt
         /\ senders'[w].order = senders[w].order
         /\ \/ senders'[w].pc = "finish" /\ senders'[w].item = senders[w].item
            \/ senders'[w].pc = "post" /\ senders'[w].item \in DeliveryIds
         /\ senders' = [senders EXCEPT ![w] = senders'[w]]
<1>1. senders[w] \in Attempt /\ senders[w].pc = "lookup"
  BY DEF AttemptsTypeOK, LookUp
<1>2. ASSUME NEW d \in DeliveryIds,
             NEW k \in {"fulfil", "revoke", "status", "other", "g2g"},
             Take(w, d, k)
      PROVE  senders'[w] = [pc |-> "post", order |-> senders[w].order, item |-> d,
                            source |-> k, ok |-> senders[w].ok]
             /\ senders' = [senders EXCEPT ![w] = senders'[w]]
  BY <1>1, <1>2 DEF Take, AttemptsTypeOK, Attempt
<1>3. CASE Fail(w)
  <2>1. senders'[w] = [pc |-> "finish", order |-> senders[w].order, item |-> senders[w].item,
                       source |-> senders[w].source, ok |-> senders[w].ok]
        /\ senders' = [senders EXCEPT ![w] = senders'[w]]
    BY <1>1, <1>3 DEF Fail, AttemptsTypeOK, Attempt
  <2> QED BY <1>1, <2>1 DEF Attempt
<1>4. CASE \E i \in LatestOf(senders[w].order) :
             \E d \in Found[events[ledger[i]].body] :
               Take(w, d, events[ledger[i]].body.kind)
  <2>1. PICK i \in DOMAIN ledger : \E d \in Found[events[ledger[i]].body] :
               Take(w, d, events[ledger[i]].body.kind)
    BY <1>4 DEF LatestOf
  <2>2. PICK m \in Webhooks : m = events[ledger[i]].body
    BY DEF AttemptsTypeOK
  <2>3. PICK d \in Found[m] : Take(w, d, m.kind)
    BY <2>1, <2>2
  <2>4. d \in DeliveryIds /\ m.kind \in {"fulfil", "revoke", "status", "other", "g2g"}
    BY <2>2, FoundAssumption, WebhookAssumption
  <2>5. senders'[w] = [pc |-> "post", order |-> senders[w].order, item |-> d,
                       source |-> m.kind, ok |-> senders[w].ok]
        /\ senders' = [senders EXCEPT ![w] = senders'[w]]
    BY <1>2, <2>3, <2>4
  <2> QED BY <1>1, <2>4, <2>5 DEF Attempt
<1>5. CASE \E d \in DeliveryIds : Take(w, d, "g2g")
  <2>1. PICK d \in DeliveryIds : Take(w, d, "g2g")
    BY <1>5
  <2>2. senders'[w] = [pc |-> "post", order |-> senders[w].order, item |-> d,
                       source |-> "g2g", ok |-> senders[w].ok]
        /\ senders' = [senders EXCEPT ![w] = senders'[w]]
    BY <1>2, <2>1
  <2> QED BY <1>1, <2>2 DEF Attempt
<1> QED BY <1>3, <1>4, <1>5 DEF LookUp

\* The marketplace takes the key or not.
LEMMA PostDoes ==
  ASSUME AttemptsTypeOK, NEW w \in Senders, Post(w), NEW o, o = senders[w].order
  PROVE  /\ o \in OrderIds
         /\ senders[w].pc = "post"
         /\ senders'[w].pc = "finish"
         /\ senders'[w].order = o
         /\ senders'[w].item = senders[w].item
         /\ \A v \in Senders \ {w} : senders'[v] = senders[v]
         /\ \A p \in OrderIds \ {o} : sentUnder'[p] = sentUnder[p] /\ late'[p] = late[p]
         /\ sentUnder'[o] \in {sentUnder[o], sentUnder[o] \cup {senders[w].item}}
         /\ \/ late'[o] = late[o]
            \/ late'[o] = late[o] + 1 /\ o \in tombstones \ overridden
<1>1. senders[w] \in Attempt /\ o \in OrderIds /\ senders[w].pc = "post"
  BY DEF AttemptsTypeOK, Post
<1>2. PICK ok \in BOOLEAN : senders' = [senders EXCEPT ![w].pc = "finish", ![w].ok = ok]
  BY DEF Post
<1>3. senders'[w] = [pc |-> "finish", order |-> o, item |-> senders[w].item,
                     source |-> senders[w].source, ok |-> ok]
  BY <1>1, <1>2 DEF AttemptsTypeOK, Attempt
<1>4. \A v \in Senders \ {w} : senders'[v] = senders[v]
  BY <1>2 DEF AttemptsTypeOK
<1>5. /\ \A p \in OrderIds \ {o} : sentUnder'[p] = sentUnder[p] /\ late'[p] = late[p]
      /\ sentUnder'[o] \in {sentUnder[o], sentUnder[o] \cup {senders[w].item}}
      /\ \/ late'[o] = late[o]
         \/ late'[o] = late[o] + 1 /\ o \in tombstones \ overridden
  BY <1>1 DEF Post, AttemptsTypeOK
<1> QED BY <1>1, <1>3, <1>4, <1>5

\* A crash ends an attempt.
LEMMA CrashDoes ==
  ASSUME AttemptsTypeOK, NEW w \in Senders, Crash(w), NEW o, o = senders[w].order
  PROVE  /\ o \in OrderIds
         /\ senders'[w] = Idle
         /\ \A v \in Senders \ {w} : senders'[v] = senders[v]
         /\ \A p \in OrderIds : upset[p] \subseteq upset'[p]
         /\ senders[w].pc = "finish" => "killed" \in upset'[o]
  BY DEF Crash, AttemptsTypeOK

\* Every step of the endpoint, the portal and the attempts.
FulfilActs ==
  \/ \E m \in Webhooks : HandleWebhook(m)
  \/ \E o \in OrderIds : Portal(o) \/ Lapse(o)
  \/ \E w \in Senders :
       \/ \E o \in OrderIds : Claim(w, o)
       \/ LookUp(w) \/ Post(w) \/ Finish(w) \/ Crash(w)

----------------------------------------------------------------------------
(* The refinement of WebhookIngest, step by step.                          *)

\* A step of the endpoint is its own, a claim and the end of an attempt are
\* delivery steps, and nothing else changes the tables.
LEMMA StepIsIngest ==
  ASSUME OrdersTypeOK, FulfilInv, FulfilActs
  PROVE  IngestNext \/ UNCHANGED ingestVars
<1>0. AttemptsTypeOK /\ ByHandOnly /\ AttemptedRows
  BY DEF FulfilInv
<1>1. ASSUME NEW m \in Webhooks, HandleWebhook(m) PROVE IngestNext
  BY <1>1 DEF HandleWebhook, IngestNext
<1>2. ASSUME NEW o \in OrderIds, Portal(o) PROVE IngestNext
  BY <1>2 DEF Portal, IngestNext
<1>3. ASSUME NEW w \in Senders, NEW o \in OrderIds, Claim(w, o) PROVE IngestNext
  <2>1. HasRow(o) /\ orders[o].delivery_status # "manual" /\ orders[o] \in Row
    BY <1>0, <1>3, ClaimDoes
  <2>2. orders' = [orders EXCEPT
                     ![o].delivery_status = "delivering",
                     ![o].delivery_id = IF @ = Null THEN Null ELSE @]
    BY <1>3, <2>1 DEF Claim, OrdersTypeOK, Row
  <2>3. UNCHANGED <<events, tombstones, overridden>>
    BY <1>3 DEF Claim
  <2>4. DeliveryStep(o)
    BY <2>1, <2>2, <2>3 DEF DeliveryStep, DeliveryChangesRow
  <2> QED BY <2>4 DEF IngestNext
<1>4. ASSUME NEW w \in Senders, Finish(w) PROVE IngestNext
  <2>1. PICK o : o = senders[w].order
    OBVIOUS
  <2>2. o \in OrderIds /\ HasRow(o) /\ orders[o].delivery_status # "manual"
    BY <1>0, <1>4, <2>1, FinishDoes DEF AttemptedRows
  <2>3. senders[w].item \in DeliveryIds \cup {Null}
    BY <1>0 DEF AttemptsTypeOK, Attempt
  <2>4. orders' = [orders EXCEPT
                     ![o].delivery_status = IF senders[w].ok THEN "delivered" ELSE "failed",
                     ![o].delivery_id = IF @ = Null THEN senders[w].item ELSE @]
    <3>1. orders[o] \in Row
      BY <1>0, <1>4, <2>1, FinishDoes
    <3> QED BY <1>4, <2>1, <2>2, <3>1 DEF Finish, ItemOnRecord, OrdersTypeOK, Row
  <2>5. UNCHANGED <<events, tombstones, overridden>>
    BY <1>4 DEF Finish
  <2>6. DeliveryStep(o)
    BY <2>2, <2>3, <2>4, <2>5 DEF DeliveryStep, DeliveryChangesRow
  <2> QED BY <2>2, <2>6 DEF IngestNext
<1>5. ASSUME NEW w \in Senders, LookUp(w) \/ Post(w) \/ Crash(w) PROVE UNCHANGED ingestVars
  BY <1>5 DEF LookUp, Post, Crash
<1>6. ASSUME NEW o \in OrderIds, Lapse(o) PROVE UNCHANGED ingestVars
  BY <1>6 DEF Lapse
<1> QED BY <1>1, <1>2, <1>3, <1>4, <1>5, <1>6 DEF FulfilActs

----------------------------------------------------------------------------
(* The inductive invariant.                                                *)

\* The invariant holds initially.
LEMMA FulfilInitially == FulfilInit => FulfilInv
<1> SUFFICES ASSUME FulfilInit PROVE FulfilInv
  OBVIOUS
<1>1. OrdersTypeOK
  BY DEF FulfilInit, IngestInit, OrdersInit, OrdersTypeOK, Legacy, Row, RowStatus,
         DeliveryStatus
<1>2. AttemptsTypeOK
  BY DEF FulfilInit, AttemptsTypeOK, Idle, Attempt
<1>3. \A o \in OrderIds : orders[o].delivery_id # Manual
  BY TableAssumption DEF FulfilInit, IngestInit, OrdersInit, Legacy, NoRow
<1>4. \A w \in Senders, o \in OrderIds : ~Attempting(w, o)
  BY DEF FulfilInit, Idle, Attempting
<1> QED BY <1>2, <1>3, <1>4
        DEF FulfilInit, FulfilInv, ByHandOnly, AttemptedRows, LateInv, ItemInv

\* An event on the ledger keeps a body.
LEMMA BodyLasts ==
  ASSUME IngestInv, Acts, NEW e \in EventIds, events[e].body \in Webhooks
  PROVE  events'[e].body \in Webhooks
<1>1. EventStep(e)
  BY EventsStep DEF IngestInv
<1>2. CASE \E m \in Webhooks : events'[e].body = m
  BY <1>2
<1>3. ASSUME NEW m \in Webhooks, NEW t, events'[e] = [status |-> t, body |-> m]
      PROVE  events'[e].body = m
  BY <1>3
<1> QED BY <1>1, <1>2, <1>3 DEF EventStep

\* An event that a message puts on the ledger has a body.
LEMMA NewBody ==
  ASSUME IngestInv, NEW m \in Webhooks, Ingest(m)
  PROVE  events'[m.event_id].body \in Webhooks
<1>0. /\ m.event_id \in EventIds
      /\ events \in [EventIds -> EventType]
  BY MessageType DEF IngestInv, IngestTypeOK, EventType
<1>1. CASE IngestClash(m)
  BY <1>0, <1>1 DEF IngestClash, Clashes, EventType
<1>2. CASE IngestDuplicate(m)
  <2>1. events[m.event_id].status # "none"
    BY <1>2 DEF IngestDuplicate, Finished
  <2>2. events[m.event_id].body \in Webhooks
    BY <1>0, <2>1 DEF IngestInv, Recorded
  <2> QED BY <1>2, <2>2 DEF IngestDuplicate, ingestVars
<1>3. ASSUME NEW t, Record(m, t) PROVE events'[m.event_id].body = m
  BY <1>0, <1>3 DEF Record
<1> QED BY <1>1, <1>2, <1>3
        DEF Ingest, ProcessRevocation, ProcessFulfilment, ProcessStatus, ProcessOther

\* Messages and portal keep the types of the attempts.
LEMMA ObserveType ==
  ASSUME AttemptsTypeOK, Observe
  PROVE  /\ late' \in [OrderIds -> Nat]
         /\ upset' \in [OrderIds -> SUBSET Upsets]
         /\ \A o \in OrderIds : upset[o] \subseteq upset'[o]
         /\ \A o \in OrderIds : late'[o] = IF o \in tombstones' \ overridden'
                                           THEN late[o] ELSE 0
  BY DEF AttemptsTypeOK, Observe, Upsets

\* Every step keeps the types of the attempts.
LEMMA AttemptsTypeStep ==
  ASSUME IngestInv, FulfilInv, FulfilActs
  PROVE  AttemptsTypeOK'
<1>0. AttemptsTypeOK /\ ByHandOnly /\ AttemptedRows /\ OrdersTypeOK
  BY DEF FulfilInv, IngestInv, IngestTypeOK
<1>1. ASSUME NEW m \in Webhooks, HandleWebhook(m) PROVE AttemptsTypeOK'
  <2>1. Ingest(m) /\ Acts /\ m.event_id \in EventIds
    BY <1>1, MessageType DEF HandleWebhook, Acts
  <2>2. events'[m.event_id].body \in Webhooks
    BY <2>1, NewBody
  <2>3. ledger' \in Seq(EventIds)
    BY <1>0, <1>1, <2>1 DEF HandleWebhook, AttemptsTypeOK
  <2>4. ASSUME NEW i \in DOMAIN ledger' PROVE events'[ledger'[i]].body \in Webhooks
    <3>1. CASE i \in DOMAIN ledger /\ ledger'[i] = ledger[i]
      BY <1>0, <2>1, <3>1, BodyLasts DEF AttemptsTypeOK
    <3>2. CASE ledger'[i] = m.event_id
      BY <2>2, <3>2
    <3>3. \/ i \in DOMAIN ledger /\ ledger'[i] = ledger[i]
          \/ ledger'[i] = m.event_id
      BY <1>0, <1>1, <2>1 DEF HandleWebhook, AttemptsTypeOK
    <3> QED BY <3>1, <3>2, <3>3
  <2>5. UNCHANGED <<senders, lapsed, sentUnder>> /\ Observe
    BY <1>1 DEF HandleWebhook
  <2> QED BY <1>0, <2>3, <2>4, <2>5, ObserveType DEF AttemptsTypeOK
<1>2. ASSUME NEW o \in OrderIds, Portal(o) PROVE AttemptsTypeOK'
  <2>1. Observe /\ UNCHANGED <<ledger, senders, lapsed, sentUnder, events>>
    BY <1>2 DEF Portal, CreateManual, PortalStep
  <2> QED BY <1>0, <2>1, ObserveType DEF AttemptsTypeOK
<1>3. ASSUME NEW o \in OrderIds, Lapse(o) PROVE AttemptsTypeOK'
  BY <1>0, <1>3 DEF Lapse, AttemptsTypeOK, ingestVars
<1>4. ASSUME NEW w \in Senders, NEW o \in OrderIds, Claim(w, o) PROVE AttemptsTypeOK'
  <2>1. /\ senders'[w] = [pc |-> IF orders[o].delivery_id = Null THEN "lookup" ELSE "post",
                          order |-> o, item |-> orders[o].delivery_id,
                          source |-> "none", ok |-> FALSE]
        /\ \A v \in Senders \ {w} : senders'[v] = senders[v]
        /\ orders[o].delivery_id \in DeliveryIds \cup {Null}
    BY <1>0, <1>4, ClaimDoes
  <2>2. senders'[w] \in Attempt
    BY <2>1 DEF Attempt
  <2>3. senders' = [v \in Senders |-> senders'[v]]
    BY <1>0, <1>4 DEF Claim, AttemptsTypeOK
  <2>4. senders' \in [Senders -> Attempt]
    BY <1>0, <2>1, <2>2, <2>3 DEF AttemptsTypeOK
  <2>5. upset' \in [OrderIds -> SUBSET Upsets]
    BY <1>0, <1>4 DEF Claim, AttemptsTypeOK, Upsets
  <2>6. lapsed' \subseteq OrderIds /\ UNCHANGED <<events, ledger, sentUnder, late>>
    BY <1>0, <1>4 DEF Claim, AttemptsTypeOK
  <2>7. \A v \in Senders : senders'[v].pc # "idle" => senders'[v].order \in OrderIds
    BY <1>0, <2>1 DEF AttemptsTypeOK
  <2> QED BY <1>0, <2>4, <2>5, <2>6, <2>7 DEF AttemptsTypeOK
<1>5. ASSUME NEW w \in Senders, LookUp(w) PROVE AttemptsTypeOK'
  <2>1. /\ senders' = [senders EXCEPT ![w] = senders'[w]]
        /\ senders'[w] \in Attempt
        /\ senders'[w].order = senders[w].order
        /\ senders[w].pc = "lookup"
    BY <1>0, <1>5, LookUpDoes
  <2>2. UNCHANGED <<events, ledger, lapsed, sentUnder, late, upset>>
    BY <1>5 DEF LookUp, ingestVars
  <2>3. senders' \in [Senders -> Attempt]
    BY <1>0, <2>1 DEF AttemptsTypeOK
  <2>4. \A v \in Senders : senders'[v].pc # "idle" => senders'[v].order \in OrderIds
    BY <1>0, <2>1 DEF AttemptsTypeOK
  <2> QED BY <1>0, <2>2, <2>3, <2>4 DEF AttemptsTypeOK
<1>6. ASSUME NEW w \in Senders, Post(w) PROVE AttemptsTypeOK'
  <2>0. PICK o : o = senders[w].order
    OBVIOUS
  <2>1. PICK ok \in BOOLEAN : senders' = [senders EXCEPT ![w].pc = "finish", ![w].ok = ok]
    BY <1>6 DEF Post
  <2>2. o \in OrderIds /\ senders[w] \in Attempt
    BY <1>0, <1>6, <2>0, PostDoes DEF AttemptsTypeOK
  <2>3. senders' \in [Senders -> Attempt]
    BY <1>0, <2>1, <2>2 DEF AttemptsTypeOK, Attempt
  <2>4. \A v \in Senders : senders'[v].pc # "idle" => senders'[v].order \in OrderIds
    BY <1>0, <2>0, <2>1, <2>2 DEF AttemptsTypeOK, Attempt
  <2>5. sentUnder' \in [OrderIds -> SUBSET (DeliveryIds \cup {Null})]
    <3>1. senders[w].item \in DeliveryIds \cup {Null}
      BY <2>2 DEF Attempt
    <3>2. \/ sentUnder' = sentUnder
          \/ sentUnder' = [sentUnder EXCEPT ![o] = @ \cup {senders[w].item}]
      BY <1>6, <2>0 DEF Post
    <3> QED BY <1>0, <2>2, <3>1, <3>2 DEF AttemptsTypeOK
  <2>5a. late' \in [OrderIds -> Nat]
    <3>1. late' = late \/ late' = [late EXCEPT ![o] = @ + 1]
      BY <1>6, <2>0 DEF Post
    <3> QED BY <1>0, <2>2, <3>1 DEF AttemptsTypeOK
  <2>6. UNCHANGED <<events, ledger, lapsed, upset>>
    BY <1>6 DEF Post, ingestVars
  <2> QED BY <1>0, <2>3, <2>4, <2>5, <2>5a, <2>6 DEF AttemptsTypeOK
<1>7. ASSUME NEW w \in Senders, Finish(w) PROVE AttemptsTypeOK'
  <2>1. /\ senders' = [senders EXCEPT ![w] = Idle]
        /\ UNCHANGED <<events, ledger, lapsed, sentUnder, late, upset>>
    BY <1>7 DEF Finish
  <2>2. Idle \in Attempt /\ Idle.pc = "idle"
    BY DEF Idle, Attempt
  <2> QED BY <1>0, <2>1, <2>2 DEF AttemptsTypeOK
<1>8. ASSUME NEW w \in Senders, Crash(w) PROVE AttemptsTypeOK'
  <2>1. /\ senders' = [senders EXCEPT ![w] = Idle]
        /\ UNCHANGED <<events, ledger, lapsed, sentUnder, late>>
    BY <1>8 DEF Crash, ingestVars
  <2>2. Idle \in Attempt /\ Idle.pc = "idle"
    BY DEF Idle, Attempt
  <2>3. upset' \in [OrderIds -> SUBSET Upsets]
    BY <1>0, <1>8 DEF Crash, AttemptsTypeOK, Upsets
  <2> QED BY <1>0, <2>1, <2>2, <2>3 DEF AttemptsTypeOK
<1> QED BY <1>1, <1>2, <1>3, <1>4, <1>5, <1>6, <1>7, <1>8 DEF FulfilActs

\* Every step leaves the rows created by hand to the messages, and an order that
\* is attempted with a row of its own.
LEMMA RowsKept ==
  ASSUME IngestInv, FulfilInv, FulfilActs
  PROVE  ByHandOnly' /\ AttemptedRows'
<1>0. AttemptsTypeOK /\ ByHandOnly /\ AttemptedRows /\ OrdersTypeOK
  BY DEF FulfilInv, IngestInv, IngestTypeOK
<1>1. CASE Outside
  <2>1. ASSUME NEW o \in OrderIds
        PROVE  orders'[o].delivery_id = Manual
                 => orders'[o].delivery_status \in {"manual", "delivered"}
    <3>1. RowTurn(o)
      BY <1>1 DEF Outside
    <3>2. CASE HasRow(o) /\ HasRow(o)' /\ orders'[o].delivery_id \in DeliveryIds
      BY <3>2, TableAssumption
    <3> QED BY <1>0, <3>1, <3>2 DEF RowTurn, ByHandOnly
  <2>2. ASSUME NEW w \in Senders, NEW o \in OrderIds, Attempting(w, o)'
        PROVE  HasRow(o)' /\ orders'[o].delivery_status # "manual"
                 /\ orders'[o].delivery_id # Manual
    <3>1. RowTurn(o)
      BY <1>1 DEF Outside
    <3>2. Attempting(w, o)
      BY <1>1, <2>2 DEF Outside, Attempting
    <3>3. HasRow(o) /\ orders[o].delivery_status # "manual" /\ orders[o].delivery_id # Manual
      BY <1>0, <3>2 DEF AttemptedRows
    <3> QED BY <3>1, <3>3, TableAssumption DEF RowTurn, HasRow
  <2> QED BY <2>1, <2>2 DEF ByHandOnly, AttemptedRows
<1>2. ASSUME NEW w \in Senders, NEW o \in OrderIds, Claim(w, o)
      PROVE  ByHandOnly' /\ AttemptedRows'
  <2>1. /\ HasRow(o)
        /\ orders[o].delivery_id # Manual
        /\ orders'[o] = [status |-> orders[o].status, delivery_status |-> "delivering",
                         delivery_id |-> orders[o].delivery_id,
                         identity |-> orders[o].identity]
        /\ \A p \in OrderIds \ {o} : orders'[p] = orders[p]
        /\ senders'[w].order = o
        /\ \A v \in Senders \ {w} : senders'[v] = senders[v]
    <3>1. /\ HasRow(o)
          /\ orders[o].delivery_id # Manual
          /\ orders'[o] = [status |-> orders[o].status, delivery_status |-> "delivering",
                           delivery_id |-> orders[o].delivery_id,
                           identity |-> orders[o].identity]
      BY <1>0, <1>2, ClaimDoes
    <3>2. \A p \in OrderIds \ {o} : orders'[p] = orders[p]
      BY <1>0, <1>2 DEF Claim, OrdersTypeOK
    <3>3. /\ senders'[w].order = o
          /\ \A v \in Senders \ {w} : senders'[v] = senders[v]
      BY <1>0, <1>2 DEF Claim, Idle, AttemptsTypeOK
    <3> QED BY <3>1, <3>2, <3>3
  <2>2. \A v \in Senders, p \in OrderIds \ {o} : Attempting(v, p)' => Attempting(v, p)
    BY <2>1 DEF Attempting
  <2>3. ByHandOnly'
    BY <1>0, <2>1 DEF ByHandOnly
  <2>4. AttemptedRows'
    BY <1>0, <2>1, <2>2 DEF AttemptedRows, HasRow
  <2> QED BY <2>3, <2>4
<1>3. ASSUME NEW w \in Senders, Finish(w) PROVE ByHandOnly' /\ AttemptedRows'
  <2>0. PICK o : o = senders[w].order
    OBVIOUS
  <2>1. /\ o \in OrderIds
        /\ Attempting(w, o)
        /\ HasRow(o)
        /\ orders'[o] = [status |-> orders[o].status,
                         delivery_status |-> IF senders[w].ok THEN "delivered" ELSE "failed",
                         delivery_id |-> IF orders[o].delivery_id = Null
                                         THEN senders[w].item ELSE orders[o].delivery_id,
                         identity |-> orders[o].identity]
        /\ \A p \in OrderIds \ {o} : orders'[p] = orders[p]
        /\ senders'[w] = Idle
        /\ \A v \in Senders \ {w} : senders'[v] = senders[v]
    BY <1>0, <1>3, <2>0, FinishDoes
  <2>2. \A v \in Senders, p \in OrderIds : Attempting(v, p)' => Attempting(v, p)
    BY <2>1 DEF Attempting, Idle
  <2>3. senders[w].item # Manual /\ orders[o].delivery_id # Manual
    BY <1>0, <2>1, TableAssumption DEF AttemptsTypeOK, Attempt, AttemptedRows
  <2>4. HasRow(o)' /\ orders'[o].delivery_id # Manual /\ orders'[o].delivery_status # "manual"
    BY <2>1, <2>3 DEF HasRow
  <2>5. \A p \in OrderIds \ {o} : HasRow(p)' <=> HasRow(p)
    BY <2>1 DEF HasRow
  <2> QED BY <1>0, <2>1, <2>2, <2>4, <2>5 DEF ByHandOnly, AttemptedRows
<1>4. ASSUME UNCHANGED orders,
             \A v \in Senders, p \in OrderIds : Attempting(v, p)' => Attempting(v, p)
      PROVE  ByHandOnly' /\ AttemptedRows'
  BY <1>0, <1>4 DEF ByHandOnly, AttemptedRows, HasRow
<1>5. ASSUME NEW w \in Senders, LookUp(w) PROVE ByHandOnly' /\ AttemptedRows'
  <2>1. /\ senders[w].pc = "lookup"
        /\ senders'[w].order = senders[w].order
        /\ senders' = [senders EXCEPT ![w] = senders'[w]]
    BY <1>0, <1>5, LookUpDoes
  <2>2. \A v \in Senders, p \in OrderIds : Attempting(v, p)' => Attempting(v, p)
    BY <1>0, <2>1 DEF Attempting, AttemptsTypeOK
  <2> QED BY <1>4, <1>5, <2>2 DEF LookUp, ingestVars
<1>6. ASSUME NEW w \in Senders, Post(w) PROVE ByHandOnly' /\ AttemptedRows'
  <2>0. PICK o : o = senders[w].order
    OBVIOUS
  <2>1. /\ senders[w].pc = "post"
        /\ senders'[w].order = o
        /\ \A v \in Senders \ {w} : senders'[v] = senders[v]
    BY <1>0, <1>6, <2>0, PostDoes
  <2>2. \A v \in Senders, p \in OrderIds : Attempting(v, p)' => Attempting(v, p)
    BY <2>0, <2>1 DEF Attempting
  <2> QED BY <1>4, <1>6, <2>2 DEF Post, ingestVars
<1>7. ASSUME NEW w \in Senders, Crash(w) PROVE ByHandOnly' /\ AttemptedRows'
  <2>2. \A v \in Senders, p \in OrderIds : Attempting(v, p)' => Attempting(v, p)
    BY <1>0, <1>7, CrashDoes DEF Attempting, Idle
  <2> QED BY <1>4, <1>7, <2>2 DEF Crash, ingestVars
<1>8. ASSUME NEW o \in OrderIds, Lapse(o) PROVE ByHandOnly' /\ AttemptedRows'
  BY <1>4, <1>8 DEF Lapse, ingestVars, Attempting
<1> QED BY <1>0, <1>1, <1>2, <1>3, <1>5, <1>6, <1>7, <1>8, IsOutside DEF FulfilActs

\* What a cancellation leaves of the hand-over is kept by every step.
LEMMA LateKept ==
  ASSUME IngestInv, FulfilInv, FulfilActs
  PROVE  LateInv'
<1>0. /\ AttemptsTypeOK /\ ByHandOnly /\ AttemptedRows /\ LateInv
      /\ OrdersTypeOK /\ CancellationWins /\ tombstones \subseteq OrderIds
  BY DEF FulfilInv, IngestInv, IngestTypeOK
<1> DEFINE Bounded(o) ==
      /\ o \notin tombstones \ overridden => late[o] = 0
      /\ "outlived" \notin upset[o] =>
           /\ \A v, w \in Senders : Attempting(v, o) /\ Attempting(w, o) => v = w
           /\ late[o] <= 1
           /\ \A w \in Senders :
                Attempting(w, o) /\ senders[w].pc # "finish" => late[o] = 0
<1>a. \A o \in OrderIds : Bounded(o)
  BY <1>0 DEF LateInv
<1>b. ASSUME NEW o \in OrderIds,
             upset[o] \subseteq upset'[o],
             tombstones' = tombstones, overridden' = overridden,
             late'[o] = late[o],
             \A w \in Senders : Attempting(w, o)' =>
               /\ Attempting(w, o)
               /\ senders'[w].pc # "finish" => senders[w].pc # "finish"
      PROVE  Bounded(o)'
  BY <1>a, <1>b
<1>1. CASE Outside
  <2> SUFFICES ASSUME NEW o \in OrderIds PROVE Bounded(o)'
    BY DEF LateInv
  <2>1. /\ senders' = senders
        /\ upset[o] \subseteq upset'[o]
        /\ late'[o] = IF o \in tombstones' \ overridden' THEN late[o] ELSE 0
    BY <1>0, <1>1, ObserveType DEF Outside
  <2>2. late[o] \in Nat
    BY <1>0 DEF AttemptsTypeOK
  <2> QED BY <1>a, <2>1, <2>2 DEF Attempting
<1>2. ASSUME NEW w \in Senders, NEW o \in OrderIds, Claim(w, o) PROVE LateInv'
  <2> SUFFICES ASSUME NEW p \in OrderIds PROVE Bounded(p)'
    BY DEF LateInv
  <2>1. /\ orders[o].status = "active"
        /\ senders'[w].order = o
        /\ senders'[w].pc # "idle"
        /\ \A v \in Senders \ {w} : senders'[v] = senders[v]
    BY <1>0, <1>2, ClaimDoes
  <2>2. /\ tombstones' = tombstones /\ overridden' = overridden /\ late' = late
        /\ senders[w].pc = "idle"
        /\ upset' = IF \E v \in Senders : Attempting(v, o)
                    THEN [upset EXCEPT ![o] = @ \cup {"outlived"}] ELSE upset
    BY <1>2 DEF Claim
  <2>3. CASE p # o
    <3>1. \A v \in Senders : Attempting(v, p)' => Attempting(v, p) /\ senders'[v] = senders[v]
      BY <2>1, <2>3 DEF Attempting
    <3>2. upset'[p] = upset[p]
      BY <1>0, <2>2, <2>3 DEF AttemptsTypeOK
    <3> QED BY <1>b, <2>2, <3>1, <3>2
  <2>4. CASE p = o
    <3>1. o \notin tombstones \ overridden
      BY <1>0, <2>1 DEF CancellationWins
    <3>2. late'[o] = 0
      BY <1>a, <2>2, <3>1
    <3>3. CASE \E v \in Senders : Attempting(v, o)
      <4>1. "outlived" \in upset'[o]
        BY <1>0, <2>2, <3>3 DEF AttemptsTypeOK
      <4> QED BY <2>4, <3>2, <4>1
    <3>4. CASE \A v \in Senders : ~Attempting(v, o)
      <4>1. \A v \in Senders : Attempting(v, o)' => v = w
        BY <2>1, <3>4 DEF Attempting
      <4> QED BY <2>4, <3>2, <4>1
    <3> QED BY <3>3, <3>4
  <2> QED BY <2>3, <2>4
<1>3. ASSUME NEW w \in Senders, LookUp(w) PROVE LateInv'
  <2> SUFFICES ASSUME NEW p \in OrderIds PROVE Bounded(p)'
    BY DEF LateInv
  <2>1. /\ senders[w].pc = "lookup"
        /\ senders'[w].order = senders[w].order
        /\ senders' = [senders EXCEPT ![w] = senders'[w]]
    BY <1>0, <1>3, LookUpDoes
  <2>2. \A v \in Senders : Attempting(v, p)' =>
          /\ Attempting(v, p)
          /\ senders'[v].pc # "finish" => senders[v].pc # "finish"
    BY <1>0, <2>1 DEF Attempting, AttemptsTypeOK
  <2>3. /\ tombstones' = tombstones /\ overridden' = overridden
        /\ late' = late /\ upset' = upset
    BY <1>3 DEF LookUp, ingestVars
  <2> QED BY <1>b, <2>2, <2>3
<1>4. ASSUME NEW w \in Senders, Post(w) PROVE LateInv'
  <2> SUFFICES ASSUME NEW p \in OrderIds PROVE Bounded(p)'
    BY DEF LateInv
  <2>0. PICK o : o = senders[w].order
    OBVIOUS
  <2>1. /\ o \in OrderIds
        /\ senders[w].pc = "post"
        /\ senders'[w].order = o
        /\ senders'[w].pc = "finish"
        /\ \A v \in Senders \ {w} : senders'[v] = senders[v]
        /\ \A q \in OrderIds \ {o} : late'[q] = late[q]
        /\ \/ late'[o] = late[o]
           \/ late'[o] = late[o] + 1 /\ o \in tombstones \ overridden
    BY <1>0, <1>4, <2>0, PostDoes
  <2>2. /\ tombstones' = tombstones /\ overridden' = overridden /\ upset' = upset
    BY <1>4 DEF Post, ingestVars
  <2>3. \A v \in Senders : Attempting(v, p)' =>
          /\ Attempting(v, p)
          /\ senders'[v].pc # "finish" => senders[v].pc # "finish"
    BY <2>0, <2>1 DEF Attempting
  <2>4. CASE late'[p] = late[p]
    BY <1>b, <2>2, <2>3, <2>4
  <2>5. CASE p = o /\ late'[o] = late[o] + 1 /\ o \in tombstones \ overridden
    <3>1. Attempting(w, o)
      BY <2>0, <2>1 DEF Attempting
    <3>2. CASE "outlived" \notin upset[o]
      <4>1. late[o] = 0 /\ \A v \in Senders : Attempting(v, o) => v = w
        BY <1>a, <2>1, <3>1, <3>2
      <4>2. \A v \in Senders : Attempting(v, o)' => v = w
        BY <2>3, <2>5, <4>1
      <4>3. late'[o] = 1
        BY <2>5, <4>1
      <4> QED BY <2>1, <2>2, <2>5, <4>2, <4>3
    <3> QED BY <2>2, <2>5, <3>2
  <2> QED BY <2>1, <2>4, <2>5
<1>5. ASSUME NEW w \in Senders, Finish(w) \/ Crash(w) PROVE LateInv'
  <2> SUFFICES ASSUME NEW p \in OrderIds PROVE Bounded(p)'
    BY DEF LateInv
  <2>1. senders' = [senders EXCEPT ![w] = Idle]
    BY <1>5 DEF Finish, Crash
  <2>2. \A v \in Senders : Attempting(v, p)' => Attempting(v, p) /\ senders'[v] = senders[v]
    BY <1>0, <2>1 DEF Attempting, Idle, AttemptsTypeOK
  <2>3. tombstones' = tombstones /\ overridden' = overridden /\ late' = late
    BY <1>5 DEF Finish, Crash, ingestVars
  <2>4. upset[p] \subseteq upset'[p]
    BY <1>0, <1>5, CrashDoes DEF Finish
  <2> QED BY <1>b, <2>2, <2>3, <2>4
<1>6. ASSUME NEW o \in OrderIds, Lapse(o) PROVE LateInv'
  BY <1>0, <1>6 DEF Lapse, ingestVars, LateInv, Attempting
<1> QED BY <1>0, <1>1, <1>2, <1>3, <1>4, <1>5, <1>6, IsOutside DEF FulfilActs

\* The items of the row, of the attempt and of the keys stay in agreement.
LEMMA ItemsKept ==
  ASSUME IngestInv, FulfilInv, FulfilActs
  PROVE  ItemInv'
<1>0. /\ AttemptsTypeOK /\ ByHandOnly /\ AttemptedRows /\ LateInv /\ ItemInv
      /\ OrdersTypeOK
  BY DEF FulfilInv, IngestInv, IngestTypeOK
<1> DEFINE
      Agree(o) ==
        upset[o] = {} =>
          /\ Null \notin sentUnder[o]
          /\ ~HasRow(o) => sentUnder[o] = {}
          /\ (\A w \in Senders : ~Attempting(w, o))
               => sentUnder[o] \subseteq {orders[o].delivery_id}
          /\ \A w \in Senders :
               Attempting(w, o) =>
                 /\ orders[o].delivery_id \in {Null, senders[w].item}
                 /\ sentUnder[o] \subseteq {senders[w].item}
                 /\ senders[w].pc = "lookup" => senders[w].item = Null
                 /\ senders[w].pc = "post" =>
                      /\ senders[w].item # Null
                      /\ sentUnder[o] \subseteq {orders[o].delivery_id}
<1>a. \A o \in OrderIds : Agree(o)
  BY <1>0 DEF ItemInv
<1>b. \A o \in OrderIds :
        upset[o] = {} =>
          \A v, w \in Senders : Attempting(v, o) /\ Attempting(w, o) => v = w
  BY <1>0 DEF LateInv
<1>c. ASSUME NEW o \in OrderIds,
             upset'[o] = {} => upset[o] = {},
             orders'[o] = orders[o],
             sentUnder'[o] = sentUnder[o],
             \A w \in Senders : /\ Attempting(w, o)' <=> Attempting(w, o)
                                /\ Attempting(w, o) => senders'[w] = senders[w]
      PROVE  Agree(o)'
  BY <1>a, <1>c DEF HasRow
<1>1. CASE Outside
  <2> SUFFICES ASSUME NEW o \in OrderIds, upset'[o] = {} PROVE Agree(o)'
    BY DEF ItemInv
  <2>1. senders' = senders /\ sentUnder' = sentUnder /\ RowTurn(o) /\ upset[o] = {}
    BY <1>0, <1>1, ObserveType DEF Outside
  <2>2. \A w \in Senders : Attempting(w, o)' <=> Attempting(w, o)
    BY <2>1 DEF Attempting
  <2>3. CASE orders'[o].delivery_id = orders[o].delivery_id /\ (HasRow(o) => HasRow(o)')
    BY <1>a, <2>1, <2>2, <2>3
  <2>4. CASE orders'[o].delivery_id # orders[o].delivery_id
    <3>1. \A w \in Senders : Attempting(w, o) => senders[w].item = orders'[o].delivery_id
      BY <1>1, <2>1, <2>4 DEF Outside, Observe
    <3>2. CASE HasRow(o)
      <4>1. orders[o].delivery_id = Null /\ HasRow(o)' /\ orders'[o].delivery_id # Null
        BY <2>1, <2>4, <3>2, TableAssumption DEF RowTurn
      <4>2. \A w \in Senders : Attempting(w, o) => senders[w].item # Null
        BY <3>1, <4>1
      <4>3. (\A w \in Senders : ~Attempting(w, o)) => sentUnder[o] = {}
        BY <1>a, <2>1, <4>1
      <4>4. \A w \in Senders : Attempting(w, o) => sentUnder[o] \subseteq {orders'[o].delivery_id}
        BY <1>a, <2>1, <3>1
      <4> QED BY <1>a, <2>1, <2>2, <3>1, <4>1, <4>2, <4>3, <4>4
    <3>3. CASE ~HasRow(o)
      <4>1. sentUnder[o] = {} /\ \A w \in Senders : ~Attempting(w, o)
        BY <1>0, <1>a, <2>1, <3>3 DEF AttemptedRows
      <4> QED BY <2>1, <2>2, <4>1
    <3> QED BY <3>2, <3>3
  <2> QED BY <2>1, <2>3, <2>4 DEF RowTurn, HasRow
<1>2. ASSUME NEW w \in Senders, NEW o \in OrderIds, Claim(w, o) PROVE ItemInv'
  <2> SUFFICES ASSUME NEW p \in OrderIds PROVE Agree(p)'
    BY DEF ItemInv
  <2>0. OrdersTypeOK /\ AttemptsTypeOK /\ ByHandOnly
    BY <1>0
  <2>1. /\ HasRow(o)
        /\ orders'[o].delivery_id = orders[o].delivery_id
        /\ orders'[o].status = orders[o].status
        /\ \A q \in OrderIds \ {o} : orders'[q] = orders[q]
        /\ senders'[w].pc = IF orders[o].delivery_id = Null THEN "lookup" ELSE "post"
        /\ senders'[w].order = o
        /\ senders'[w].item = orders[o].delivery_id
        /\ \A v \in Senders \ {w} : senders'[v] = senders[v]
    <3>1. /\ HasRow(o)
          /\ orders'[o].delivery_id = orders[o].delivery_id
          /\ orders'[o].status = orders[o].status
      BY <2>0, <1>2, ClaimDoes
    <3>2. \A q \in OrderIds \ {o} : orders'[q] = orders[q]
      BY <2>0, <1>2 DEF Claim, OrdersTypeOK
    <3>3. /\ senders'[w].pc = IF orders[o].delivery_id = Null THEN "lookup" ELSE "post"
          /\ senders'[w].order = o
          /\ senders'[w].item = orders[o].delivery_id
      BY <2>0, <1>2 DEF Claim, Idle, AttemptsTypeOK
    <3>4. \A v \in Senders \ {w} : senders'[v] = senders[v]
      BY <2>0, <1>2 DEF Claim, AttemptsTypeOK
    <3> QED BY <3>1, <3>2, <3>3, <3>4
  <2>2. /\ senders[w].pc = "idle"
        /\ sentUnder' = sentUnder
        /\ upset' = IF \E v \in Senders : Attempting(v, o)
                    THEN [upset EXCEPT ![o] = @ \cup {"outlived"}] ELSE upset
    BY <1>2 DEF Claim
  <2>3. CASE p # o
    <3>1. upset'[p] = upset[p]
      BY <1>0, <2>2, <2>3 DEF AttemptsTypeOK
    <3>2. \A v \in Senders : /\ Attempting(v, p)' <=> Attempting(v, p)
                             /\ Attempting(v, p) => senders'[v] = senders[v]
      BY <2>1, <2>2, <2>3 DEF Attempting
    <3> QED BY <1>c, <2>1, <2>2, <2>3, <3>1, <3>2
  <2>4. CASE p = o /\ \E v \in Senders : Attempting(v, o)
    <3>1. upset'[o] # {}
      BY <1>0, <2>2, <2>4 DEF AttemptsTypeOK
    <3> QED BY <2>4, <3>1
  <2>5. CASE p = o /\ \A v \in Senders : ~Attempting(v, o)
    <3>1. upset' = upset
      BY <2>2, <2>5
    <3>2. \A v \in Senders : Attempting(v, o)' <=> v = w
      BY <2>1, <2>5 DEF Attempting
    <3>3. HasRow(o)'
      BY <2>1 DEF HasRow
    <3>4. upset[o] = {} => /\ Null \notin sentUnder[o]
                           /\ sentUnder[o] \subseteq {orders[o].delivery_id}
      BY <1>a, <2>5
    <3> QED BY <2>1, <2>2, <2>5, <3>1, <3>2, <3>3, <3>4
  <2> QED BY <2>3, <2>4, <2>5
<1>3. ASSUME NEW w \in Senders, LookUp(w) PROVE ItemInv'
  <2> SUFFICES ASSUME NEW p \in OrderIds PROVE Agree(p)'
    BY DEF ItemInv
  <2>0. PICK o : o = senders[w].order
    OBVIOUS
  <2>1. /\ senders[w].pc = "lookup"
        /\ senders'[w].order = o
        /\ \/ senders'[w].pc = "finish" /\ senders'[w].item = senders[w].item
           \/ senders'[w].pc = "post" /\ senders'[w].item \in DeliveryIds
        /\ senders' = [senders EXCEPT ![w] = senders'[w]]
    BY <1>0, <1>3, <2>0, LookUpDoes
  <2>2. orders' = orders /\ sentUnder' = sentUnder /\ upset' = upset
    BY <1>3 DEF LookUp, ingestVars
  <2>3. /\ o \in OrderIds /\ Attempting(w, o)
        /\ \A v \in Senders \ {w} : senders'[v] = senders[v]
    BY <1>0, <2>0, <2>1 DEF AttemptsTypeOK, Attempting
  <2>4. \A v \in Senders : Attempting(v, p)' <=> Attempting(v, p)
    BY <2>0, <2>1, <2>3 DEF Attempting
  <2>5. CASE p # o
    <3>1. \A v \in Senders : Attempting(v, p) => senders'[v] = senders[v]
      BY <2>0, <2>3, <2>5 DEF Attempting
    <3> QED BY <1>c, <2>2, <2>4, <3>1
  <2>6. CASE p = o /\ upset[o] = {}
    <3>1. \A v \in Senders : Attempting(v, o) => v = w
      BY <1>b, <2>3, <2>6
    <3>2. /\ senders[w].item = Null /\ orders[o].delivery_id = Null
          /\ sentUnder[o] = {}
      BY <1>a, <2>1, <2>3, <2>6
    <3>3. senders'[w].pc = "post" => senders'[w].item # Null
      BY <2>1, TableAssumption
    <3>4. \A v \in Senders : Attempting(v, o)' => v = w
      BY <2>4, <2>6, <3>1
    <3>5. orders'[o].delivery_id = Null /\ sentUnder'[o] = {}
      BY <2>2, <3>2
    <3>6. Attempting(w, o)'
      BY <2>3, <2>4, <2>6
    <3>7. senders'[w].pc # "lookup"
      BY <2>1
    <3> QED BY <2>3, <2>6, <3>3, <3>4, <3>5, <3>6, <3>7
  <2> QED BY <2>2, <2>5, <2>6
<1>4. ASSUME NEW w \in Senders, Post(w) PROVE ItemInv'
  <2> SUFFICES ASSUME NEW p \in OrderIds PROVE Agree(p)'
    BY DEF ItemInv
  <2>0. PICK o : o = senders[w].order
    OBVIOUS
  <2>1. /\ o \in OrderIds
        /\ senders[w].pc = "post"
        /\ senders'[w].order = o
        /\ senders'[w].item = senders[w].item
        /\ senders'[w].pc = "finish"
        /\ \A v \in Senders \ {w} : senders'[v] = senders[v]
        /\ \A q \in OrderIds \ {o} : sentUnder'[q] = sentUnder[q]
        /\ sentUnder'[o] \in {sentUnder[o], sentUnder[o] \cup {senders[w].item}}
    BY <1>0, <1>4, <2>0, PostDoes
  <2>2. orders' = orders /\ upset' = upset
    BY <1>4 DEF Post, ingestVars
  <2>3. \A v \in Senders : Attempting(v, p)' <=> Attempting(v, p)
    BY <2>0, <2>1 DEF Attempting
  <2>4. CASE p # o
    <3>1. \A v \in Senders : Attempting(v, p) => senders'[v] = senders[v]
      BY <2>0, <2>1, <2>4 DEF Attempting
    <3> QED BY <1>c, <2>1, <2>2, <2>3, <2>4, <3>1
  <2>5. CASE p = o /\ upset[o] = {}
    <3>1. Attempting(w, o)
      BY <2>0, <2>1 DEF Attempting
    <3>2. \A v \in Senders : Attempting(v, o)' => v = w
      BY <1>b, <2>1, <2>3, <2>5, <3>1
    <3>3. /\ senders[w].item # Null
          /\ orders[o].delivery_id \in {Null, senders[w].item}
          /\ sentUnder[o] \subseteq {senders[w].item}
          /\ Null \notin sentUnder[o]
      BY <1>a, <2>1, <2>5, <3>1
    <3>4. HasRow(o)' /\ Attempting(w, o)'
      BY <1>0, <2>1, <2>2, <2>3, <2>5, <3>1 DEF AttemptedRows, HasRow
    <3> QED BY <2>1, <2>2, <2>5, <3>2, <3>3, <3>4
  <2> QED BY <2>2, <2>4, <2>5
<1>5. ASSUME NEW w \in Senders, Finish(w) PROVE ItemInv'
  <2> SUFFICES ASSUME NEW p \in OrderIds PROVE Agree(p)'
    BY DEF ItemInv
  <2>0. PICK o : o = senders[w].order
    OBVIOUS
  <2>1. /\ o \in OrderIds
        /\ Attempting(w, o)
        /\ HasRow(o)
        /\ senders'[w] = Idle
        /\ \A v \in Senders \ {w} : senders'[v] = senders[v]
    BY <1>0, <1>5, <2>0, FinishDoes
  <2>1a. /\ orders'[o].status = orders[o].status
         /\ orders[o].delivery_id = Null => orders'[o].delivery_id = senders[w].item
         /\ orders[o].delivery_id # Null => orders'[o].delivery_id = orders[o].delivery_id
         /\ \A q \in OrderIds \ {o} : orders'[q] = orders[q]
    BY <1>0, <1>5, <2>0, FinishDoes
  <2>2. sentUnder' = sentUnder /\ upset' = upset
    BY <1>5 DEF Finish
  <2>3. CASE p # o
    <3>1. \A v \in Senders : /\ Attempting(v, p)' <=> Attempting(v, p)
                             /\ Attempting(v, p) => senders'[v] = senders[v]
      BY <2>0, <2>1, <2>3 DEF Attempting, Idle
    <3> QED BY <1>c, <2>1, <2>1a, <2>2, <2>3, <3>1
  <2>4. CASE p = o /\ upset[o] = {}
    <3>1. \A v \in Senders : ~Attempting(v, o)'
      BY <1>b, <2>1, <2>4 DEF Attempting, Idle
    <3>2. /\ orders[o].delivery_id \in {Null, senders[w].item}
          /\ sentUnder[o] \subseteq {senders[w].item}
          /\ Null \notin sentUnder[o]
      BY <1>a, <2>1, <2>4
    <3>3. orders'[o].delivery_id = senders[w].item
      BY <2>1a, <3>2
    <3>4. HasRow(o)'
      BY <2>1, <2>1a DEF HasRow
    <3> QED BY <2>2, <2>4, <3>1, <3>2, <3>3, <3>4
  <2> QED BY <2>2, <2>3, <2>4
<1>6. ASSUME NEW w \in Senders, Crash(w) PROVE ItemInv'
  <2> SUFFICES ASSUME NEW p \in OrderIds PROVE Agree(p)'
    BY DEF ItemInv
  <2>0. PICK o : o = senders[w].order
    OBVIOUS
  <2>1. /\ o \in OrderIds
        /\ senders'[w] = Idle
        /\ \A v \in Senders \ {w} : senders'[v] = senders[v]
        /\ upset[p] \subseteq upset'[p]
        /\ senders[w].pc = "finish" => "killed" \in upset'[o]
    BY <1>0, <1>6, <2>0, CrashDoes
  <2>2. orders' = orders /\ sentUnder' = sentUnder /\ senders[w].pc # "idle"
    BY <1>6 DEF Crash, ingestVars
  <2>3. Attempting(w, o)
    BY <2>0, <2>2 DEF Attempting
  <2>4. CASE p # o
    <3>1. \A v \in Senders : /\ Attempting(v, p)' <=> Attempting(v, p)
                             /\ Attempting(v, p) => senders'[v] = senders[v]
      BY <2>0, <2>1, <2>4 DEF Attempting, Idle
    <3> QED BY <1>c, <2>1, <2>2, <3>1
  <2>5. CASE p = o /\ upset'[o] = {}
    <3>1. upset[o] = {} /\ senders[w].pc # "finish"
      BY <2>1, <2>5
    <3>2. \A v \in Senders : ~Attempting(v, o)'
      BY <1>b, <2>1, <2>3, <3>1 DEF Attempting, Idle
    <3>3. senders[w].pc \in {"lookup", "post"}
      BY <1>0, <2>2, <3>1 DEF AttemptsTypeOK, Attempt
    <3>4. sentUnder[o] \subseteq {orders[o].delivery_id}
      <4>1. CASE senders[w].pc = "post"
        BY <1>a, <2>1, <2>3, <3>1, <4>1
      <4>2. CASE senders[w].pc = "lookup"
        BY <1>a, <2>1, <2>3, <3>1, <4>2
      <4> QED BY <3>3, <4>1, <4>2
    <3>5. Null \notin sentUnder[o] /\ HasRow(o)
      BY <1>0, <1>a, <2>1, <2>3, <3>1 DEF AttemptedRows
    <3>6. HasRow(o)'
      BY <2>2, <3>5 DEF HasRow
    <3> QED BY <2>2, <2>5, <3>2, <3>4, <3>5, <3>6
  <2> QED BY <2>4, <2>5
<1>7. ASSUME NEW o \in OrderIds, Lapse(o) PROVE ItemInv'
  BY <1>0, <1>7 DEF Lapse, ingestVars, ItemInv, Attempting, HasRow
<1> QED BY <1>0, <1>1, <1>2, <1>3, <1>4, <1>5, <1>6, <1>7, IsOutside DEF FulfilActs

----------------------------------------------------------------------------
(* The theorems.                                                           *)

\* A step of the whole is one of the endpoint, as WebhookIngest describes it.
LEMMA StepRefines ==
  FullInv /\ [FulfilNext]_fulfilVars => [IngestNext]_ingestVars
<1>1. CASE FullInv /\ FulfilNext
  <2>1. FulfilActs /\ OrdersTypeOK /\ FulfilInv
    BY <1>1 DEF FulfilNext, FulfilActs, FullInv, IngestInv, IngestTypeOK
  <2> QED BY <2>1, StepIsIngest
<1>2. CASE UNCHANGED fulfilVars
  BY <1>2 DEF fulfilVars
<1> QED BY <1>1, <1>2

\* The invariant of the endpoint and that of the attempts are inductive together.
LEMMA FulfilStep == FullInv /\ [FulfilNext]_fulfilVars => FullInv'
<1>1. FullInv /\ [FulfilNext]_fulfilVars => IngestInv'
  BY StepRefines, IngestStep DEF FullInv
<1>2. CASE FullInv /\ FulfilNext
  <2>1. FulfilActs /\ IngestInv /\ FulfilInv
    BY <1>2 DEF FulfilNext, FulfilActs, FullInv
  <2>2. FulfilInv'
    BY <2>1, AttemptsTypeStep, RowsKept, LateKept, ItemsKept DEF FulfilInv
  <2> QED BY <1>1, <1>2, <2>2 DEF FullInv
<1>3. CASE FullInv /\ UNCHANGED fulfilVars
  BY <1>1, <1>3 DEF fulfilVars, attemptVars, ingestVars, FullInv, FulfilInv,
     AttemptsTypeOK, ByHandOnly, AttemptedRows, LateInv, ItemInv, Attempting, HasRow
<1> QED BY <1>2, <1>3

\* Messages, portal and delivery attempts keep the invariant, however they are
\* interleaved and wherever an attempt is killed.
THEOREM FulfilInvariant == FulfilSpec => []FullInv
<1>1. FulfilInit => FullInv
  BY FulfilInitially, IngestInitially DEF FulfilInit, FullInv
<1> QED BY <1>1, FulfilStep, PTL DEF FulfilSpec

\* Endpoint and attempts together implement WebhookIngest: what it assumes of a
\* delivery attempt is what attempt_delivery and _finish_delivery do.
THEOREM FulfilmentRefinesIngest == FulfilSpec => ImplementsIngest
<1>1. FulfilInit => IngestInit
  BY DEF FulfilInit
<1>2. FulfilSpec => IngestSpec
  BY <1>1, StepRefines, FulfilInvariant, PTL DEF FulfilSpec, IngestSpec
<1> QED BY <1>2 DEF ImplementsIngest

\* So the composed system keeps cancelled orders without a row or revoked and
\* its ledger sound, with the attempts beside the endpoint.
THEOREM FulfilmentKeepsLedger == FulfilSpec => [](LedgerSound /\ CancellationWins)
<1>1. FullInv => LedgerSound /\ CancellationWins
  BY DEF FullInv, IngestInv
<1> QED BY <1>1, FulfilInvariant, PTL

\* With the attempts beside the endpoint, too, a message does no more to the
\* table than the other components expect (ingest_webhook, OrderTable).
THEOREM FulfilmentKeepsToRows == FulfilSpec => MessagesKeepToRows
  BY FulfilmentRefinesIngest, MessagesStayOnTheirRows DEF ImplementsIngest

\* After a cancellation one attempt at most sends the key of its order, unless
\* an attempt outlives its time (attempt_delivery).
THEOREM OneLateKeyAtMost == FulfilSpec => []AtMostOneLateKey
<1>1. FullInv => AtMostOneLateKey
  BY DEF FullInv, FulfilInv, LateInv, AtMostOneLateKey
<1> QED BY <1>1, FulfilInvariant, PTL

\* Between attempts the row names the one item that its key was handed over
\* under (resolve_delivery_id, _finish_delivery).
THEOREM KeyAlwaysUnderItem == FulfilSpec => []KeyUnderItemOnRecord
<1>1. FullInv => KeyUnderItemOnRecord
  BY DEF FullInv, FulfilInv, ItemInv, KeyUnderItemOnRecord
<1> QED BY <1>1, FulfilInvariant, PTL

----------------------------------------------------------------------------
(* The marketplace's documents (G2GPayload).  No place in a document is    *)
(* singled out by induction over it: what the code meets first is the      *)
(* least place there is, because < is well-founded.                        *)

\* A place of a set that has any is found, and it is the least (First).
LEMMA FirstIsLeast ==
  ASSUME NEW places, places \subseteq Nat, places # {}
  PROVE  First(places) \in places /\ \A j \in places : First(places) <= j
<1> DEFINE before == OpToRel(<, Nat)
<1>1. \A i, j \in Nat : <<j, i>> \in before <=> j < i
  BY DEF OpToRel
<1>2. IsWellFoundedOn(before, Nat)
  BY NatLessThanWellFounded
<1> HIDE DEF before
<1>3. PICK i \in places : \A j \in places : <<j, i>> \notin before
  BY <1>2, WFMin
<1>4. ASSUME NEW j \in places
      PROVE  i <= j
  <2>1. i \in Nat /\ j \in Nat /\ <<j, i>> \notin before
    BY <1>3
  <2>2. ~ (j < i)
    BY <1>1, <2>1
  <2> QED
    BY <2>1, <2>2
<1> QED
  BY <1>4 DEF First

\* Zero stands for no place (First).
LEMMA FirstOfNone ==
  ASSUME NEW places, places \subseteq Nat \ {0}
  PROVE  First(places) > 0 <=> places # {}
<1>1. CASE places = {}
  BY <1>1 DEF First
<1>2. CASE places # {}
  <2>1. First(places) \in places
    BY <1>2, FirstIsLeast
  <2>2. First(places) \in Nat /\ First(places) # 0
    BY <2>1
  <2> QED
    BY <1>2, <2>2
<1> QED
  BY <1>1, <1>2

\* A document whose objects say something of a delivery is given one of the
\* reports, and one that says nothing is given none (delivery_status_value).
LEMMA StatusIsAReport ==
  ASSUME NEW doc \in Seq(Object)
  PROVE  IF Reports(doc) = {} THEN StatusValue(doc) = Absent
                              ELSE StatusValue(doc) \in Reports(doc)
<1> DEFINE explicit == {i \in DOMAIN doc : doc[i].delivery_status # Absent}
           implied == {i \in DOMAIN doc : doc[i].delivery_id # Absent /\ doc[i].status # Absent}
<1>1. explicit \subseteq Nat \ {0} /\ implied \subseteq Nat \ {0}
  OBVIOUS
<1>2. /\ First(explicit) > 0 <=> explicit # {}
      /\ First(implied) > 0 <=> implied # {}
      /\ explicit # {} => First(explicit) \in explicit
      /\ implied # {} => First(implied) \in implied
  BY <1>1, FirstOfNone, FirstIsLeast
<1>3. \A i \in explicit : doc[i].delivery_status \in Reports(doc)
  BY DEF Reports, Objects
<1>4. \A i \in implied : doc[i].status \in Reports(doc)
  BY DEF Reports, Objects
<1>5. ASSUME NEW said \in Reports(doc)
      PROVE  explicit # {} \/ implied # {}
  BY DEF Reports, Objects
<1>6. StatusValue(doc) = IF First(explicit) > 0 THEN doc[First(explicit)].delivery_status
                         ELSE IF First(implied) > 0 THEN doc[First(implied)].status ELSE Absent
  BY DEF StatusValue
<1> HIDE DEF explicit, implied
<1>7. CASE explicit # {}
  BY <1>2, <1>3, <1>6, <1>7
<1>8. CASE explicit = {} /\ implied # {}
  BY <1>2, <1>4, <1>6, <1>8
<1>9. CASE explicit = {} /\ implied = {}
  BY <1>2, <1>5, <1>6, <1>9
<1> QED
  BY <1>7, <1>8, <1>9

\* What is said of deliveries is a finite set of words.
LEMMA ReportsFinite ==
  ASSUME NEW doc \in Seq(Object)
  PROVE  IsFiniteSet(Reports(doc)) /\ Absent \notin Reports(doc)
<1> DEFINE S == DOMAIN doc
           f == [i \in S |-> doc[i].delivery_status]
           g == [i \in S |-> doc[i].status]
           F == {f[i] : i \in S}
           G == {g[i] : i \in S}
<1>1. IsFiniteSet(S)
  BY FS_Interval, Len(doc) \in Nat, DOMAIN doc = 1 .. Len(doc)
<1>2. f \in Surjection(S, F) /\ g \in Surjection(S, G)
  BY DEF Surjection
<1>3. Reports(doc) \subseteq F \cup G /\ Absent \notin Reports(doc)
  BY DEF Reports, Objects
<1> HIDE DEF f, g, F, G, S
<1>4. IsFiniteSet(F) /\ IsFiniteSet(G)
  BY <1>1, <1>2, FS_Surjection
<1>5. IsFiniteSet(F \cup G)
  BY <1>4, FS_Union
<1> QED
  BY <1>3, <1>5, FS_Subset

\* A set of at most one member is empty or a singleton.
LEMMA AtMostOne ==
  ASSUME NEW S, IsFiniteSet(S), Cardinality(S) <= 1
  PROVE  S = {} \/ \E x : S = {x}
<1>1. Cardinality(S) = 0 \/ Cardinality(S) = 1
  BY FS_CardinalityType
<1> QED
  BY <1>1, FS_EmptySet, FS_Singleton

\* A document that says one thing of its deliveries is understood so
\* (delivery_status_value, delivery_is_complete).
LEMMA OneReportUnderstood ==
  ASSUME NEW doc \in Seq(Object), Cardinality(Reports(doc)) <= 1
  PROVE  /\ StatusValue(doc) = IF Reports(doc) = {} THEN Absent
                               ELSE CHOOSE said \in Reports(doc) : TRUE
         /\ IsComplete(doc) <=> Reports(doc) \in {{"delivered"}, {"complete"}}
<1>1. CASE Reports(doc) = {}
  <2>1. StatusValue(doc) = Absent
    BY <1>1, StatusIsAReport
  <2> QED
    BY <1>1, <2>1, PayloadAssumption DEF IsComplete
<1>2. CASE Reports(doc) # {}
  <2>1. PICK said : Reports(doc) = {said}
    BY <1>2, ReportsFinite, AtMostOne
  <2>2. StatusValue(doc) = said
    BY <1>2, <2>1, StatusIsAReport
  <2> QED
    BY <2>1, <2>2 DEF IsComplete
<1> QED
  BY <1>1, <1>2

\* The candidates of a document: an object of each item that is named, and it
\* is the one that the code meets first (delivery_candidates).
LEMMA CandidateOfEachItem ==
  ASSUME NEW doc \in Seq(Object)
  PROVE  /\ {c.delivery_id : c \in Candidates(doc)} = Named(doc)
         /\ \A c \in Candidates(doc) :
              /\ c \in About(doc, c.delivery_id)
              /\ c = doc[First({i \in DOMAIN doc : doc[i].delivery_id = c.delivery_id})]
<1> DEFINE Places(d) == {i \in DOMAIN doc : doc[i].delivery_id = d}
<1>1. ASSUME NEW d \in Named(doc)
      PROVE  doc[First(Places(d))] \in Candidates(doc) /\ doc[First(Places(d))].delivery_id = d
  <2>1. Places(d) \subseteq Nat /\ Places(d) # {} /\ d # Absent
    BY PayloadAssumption DEF Named, About, Objects
  <2>2. PICK i : i = First(Places(d)) /\ i \in Places(d) /\ \A j \in Places(d) : i <= j
    BY <2>1, FirstIsLeast
  <2>3. ASSUME NEW k \in 1 .. i - 1, doc[k].delivery_id = doc[i].delivery_id
        PROVE  FALSE
    <3>1. i \in 1 .. Len(doc)
      BY <2>2
    <3>2. k \in Places(d) /\ k < i
      BY <2>2, <2>3, <3>1
    <3> QED
      BY <2>2, <3>1, <3>2
  <2> QED
    BY <2>1, <2>2, <2>3 DEF Candidates
<1>2. ASSUME NEW c \in Candidates(doc)
      PROVE  /\ c.delivery_id \in Named(doc)
             /\ c \in About(doc, c.delivery_id)
             /\ c = doc[First(Places(c.delivery_id))]
  <2>1. PICK i \in DOMAIN doc :
          /\ c = doc[i]
          /\ doc[i].delivery_id # Absent
          /\ \A k \in 1 .. i - 1 : doc[k].delivery_id # doc[i].delivery_id
    BY DEF Candidates
  <2>2. c \in About(doc, c.delivery_id) /\ c.delivery_id \in ItemIds
    <3>1. doc[i] \in Object
      BY <2>1
    <3>2. doc[i].delivery_id \in ItemIds
      BY <2>1, <3>1 DEF Object
    <3> QED
      BY <2>1, <3>2 DEF About, Objects
  <2>3. i \in Places(c.delivery_id) /\ Places(c.delivery_id) \subseteq 1 .. Len(doc)
    BY <2>1
  <2>4. PICK f : /\ f = First(Places(c.delivery_id))
                 /\ f \in Places(c.delivery_id)
                 /\ \A j \in Places(c.delivery_id) : f <= j
    BY <2>3, FirstIsLeast, 1 .. Len(doc) \subseteq Nat
  <2>5. f = i
    <3>1. f \in 1 .. Len(doc) /\ i \in 1 .. Len(doc) /\ f <= i
      BY <2>3, <2>4
    <3>2. f \notin 1 .. i - 1
      BY <2>1, <2>4
    <3> QED
      BY <3>1, <3>2
  <2> QED
    BY <2>1, <2>2, <2>4, <2>5 DEF Named
<1> QED
  BY <1>1, <1>2

\* If the first object of each item says all there is, what the code picks from
\* the candidates is what the document means (resolve_delivery_id).
LEMMA PoolIsWhatIsMeant ==
  ASSUME NEW doc \in Seq(Object), FirstSaysAll(doc),
         \A obj \in Objects(doc) : Word(obj) # "complete"
  PROVE  {c.delivery_id : c \in Pool(Candidates(doc))} = Meant(doc)
<1> DEFINE C == Candidates(doc)
           N == Named(doc)
           matchingC == OrElse({c \in C : c.offer_id = offer}, C)
           matchingN == OrElse({d \in N : ForOffer(doc, d)}, N)
<1>1. {c.delivery_id : c \in C} = N
  BY CandidateOfEachItem
<1>2. ASSUME NEW c \in C
      PROVE  /\ c.offer_id = offer <=> ForOffer(doc, c.delivery_id)
             /\ LooksPending(c) <=> ~Delivered(doc, c.delivery_id)
  <2>1. /\ c.delivery_id \in N
        /\ c \in About(doc, c.delivery_id)
        /\ c = doc[First({i \in DOMAIN doc : doc[i].delivery_id = c.delivery_id})]
    BY <1>1, CandidateOfEachItem
  <2>2. /\ ForOffer(doc, c.delivery_id) => c.offer_id = offer
        /\ Delivered(doc, c.delivery_id) => Word(c) \in {"delivered", "complete"}
    BY <2>1 DEF FirstSaysAll
  <2>3. Word(c) # "complete"
    BY <2>1 DEF About
  <2>4. LooksPending(c) <=> Word(c) # "delivered"
    BY DEF LooksPending, Word
  <2> QED
    BY <2>1, <2>2, <2>3, <2>4 DEF ForOffer, Delivered
<1>3. {c.delivery_id : c \in matchingC} = matchingN
  BY <1>1, <1>2 DEF OrElse
<1>4. \A c \in matchingC : LooksPending(c) <=> ~Delivered(doc, c.delivery_id)
  BY <1>2 DEF OrElse
<1>5. /\ Pool(C) = OrElse({c \in matchingC : LooksPending(c)}, matchingC)
      /\ Meant(doc) = OrElse({d \in matchingN : ~Delivered(doc, d)}, matchingN)
  BY DEF Pool, Meant
<1> HIDE DEF matchingC, matchingN, C, N
<1> QED
  BY <1>3, <1>4, <1>5 DEF OrElse, C

\* The code goes by the payload if that names an item, and else by the answer.
LEMMA CandidatesOfSource ==
  ASSUME payload \in Seq(Object), answer \in Seq(Object)
  PROVE  OrElse(Candidates(payload), Candidates(answer)) = Candidates(Source)
<1>1. Candidates(payload) = {} <=> Named(payload) = {}
  <2>1. {c.delivery_id : c \in Candidates(payload)} = Named(payload)
    BY CandidateOfEachItem
  <2> QED
    BY <2>1
<1> QED
  BY <1>1 DEF OrElse, Source

\* The documents are sequences of objects.
LEMMA DocumentsTypeCorrect == Spec => [](payload \in Seq(Object) /\ answer \in Seq(Object))
<1> DEFINE Inv == payload \in Seq(Object) /\ answer \in Seq(Object)
<1>1. Init => Inv
  BY DEF Init
<1>2. Inv /\ [Next]_vars => Inv'
  <2> SUFFICES ASSUME Inv, [Next]_vars PROVE Inv'
    OBVIOUS
  <2>1. CASE AddToPayload
    BY <2>1 DEF AddToPayload
  <2>2. CASE AddToAnswer
    BY <2>2 DEF AddToAnswer
  <2>3. CASE UNCHANGED vars
    BY <2>3 DEF vars
  <2> QED
    BY <2>1, <2>2, <2>3 DEF Next
<1> QED
  BY <1>1, <1>2, PTL DEF Spec

\* Whatever the two documents and however long, the code chooses the item they
\* mean and refuses when they mean none or several (resolve_delivery_id).
THEOREM ItemMeantIsResolved == Spec => []ResolvesWhatIsMeant
<1>1. ASSUME payload \in Seq(Object), answer \in Seq(Object)
      PROVE  ResolvesWhatIsMeant
  <2> SUFFICES ASSUME FirstSaysAll(Source), \A obj \in Objects(Source) : Word(obj) # "complete"
               PROVE  Resolve = IF Cardinality(Meant(Source)) = 1
                                THEN CHOOSE d \in Meant(Source) : TRUE ELSE Absent
    BY DEF ResolvesWhatIsMeant
  <2>1. Source \in Seq(Object)
    BY <1>1 DEF Source
  <2>2. {c.delivery_id : c \in Pool(OrElse(Candidates(payload), Candidates(answer)))}
          = Meant(Source)
    BY <1>1, <2>1, CandidatesOfSource, PoolIsWhatIsMeant
  <2> DEFINE chosen == {c.delivery_id : c \in Pool(OrElse(Candidates(payload), Candidates(answer)))}
  <2>3. Resolve = IF Cardinality(chosen) = 1 THEN CHOOSE d \in chosen : TRUE ELSE Absent
    BY Zenon DEF Resolve
  <2>4. chosen = Meant(Source)
    BY <2>2
  <2> HIDE DEF chosen
  <2> QED
    BY <2>3, <2>4
<1> QED
  BY <1>1, DocumentsTypeCorrect, PTL

\* Whatever the two documents and however long, a document whose reports agree
\* is understood so (delivery_status_value, delivery_is_complete).
THEOREM StatusUnderstood == Spec => []StatusAsReported
<1>1. ASSUME payload \in Seq(Object), answer \in Seq(Object)
      PROVE  StatusAsReported
  BY <1>1, OneReportUnderstood DEF StatusAsReported
<1> QED
  BY <1>1, DocumentsTypeCorrect, PTL
=============================================================================
