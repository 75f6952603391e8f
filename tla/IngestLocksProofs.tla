-------------------------- MODULE IngestLocksProofs --------------------------
(***************************************************************************)
(* Proofs about IngestLocks, for any number of threads and any messages:   *)
(* what the webhook endpoint promises holds of its statements, although    *)
(* the portal changes rows under no lock between a read and the commit.    *)
(***************************************************************************)
EXTENDS IngestLocks, WebhookIngestProofs

HandlerType ==
  [pc : {"idle", "lock", "event", "tombstone", "order", "commit"},
   msg : Webhooks \cup {Null}, held : {0, 1, 2}, event : EventType,
   cancelled : BOOLEAN, row : Row \cup {NoRow}]

\* A thread reads when it has both locks.
Placed(h) ==
  /\ h.pc # "idle" => h.msg \in Webhooks
  /\ h.pc = "idle" => h.held = 0
  /\ h.pc = "lock" => h.held \in {0, 1}
  /\ h.pc \in {"event", "tombstone", "order", "commit"} => h.held = 2

\* The locks a thread waits for or has are its own.
Exclusive == \A t, u \in Threads : t # u => Held(t) \cap Held(u) = {}

\* The copy of a row is true, but for a row that was created by hand since, or
\* a status that the portal has changed; then the order is overridden.
TrueRow(o, row) ==
  \/ row = orders[o]
  \/ o \in overridden /\ HasRow(o) /\ row = NoRow
  \/ /\ o \in overridden /\ HasRow(o) /\ row \in Row
     /\ orders[o] = [row EXCEPT !.status = orders[o].status]

\* What a thread has read is still so.
TrueCopies(h) ==
  /\ h.pc \in {"tombstone", "order", "commit"} => h.event = events[h.msg.event_id]
  /\ h.pc \in {"order", "commit"} => (h.cancelled <=> h.msg.order \in tombstones)
  /\ h.pc = "commit" => TrueRow(h.msg.order, h.row)

HandlersInv ==
  /\ handlers \in [Threads -> HandlerType]
  /\ \A t \in Threads : Placed(handlers[t])
  /\ Exclusive

LocksInv == IngestInv /\ HandlersInv /\ \A t \in Threads : TrueCopies(handlers[t])

----------------------------------------------------------------------------
(* The locks.                                                              *)

\* The locks of a thread, by their number.
LEMMA HeldIs ==
  ASSUME NEW t \in Threads
  PROVE  LET m == handlers[t].msg IN
         /\ handlers[t].held = 0 => Held(t) = {}
         /\ handlers[t].held = 1 => Held(t) = {<<"event", m.event_id>>}
         /\ handlers[t].held = 2 => Held(t) = {<<"event", m.event_id>>, <<"order", m.order>>}
<1> DEFINE m == handlers[t].msg
<1>1. /\ Needs(m)[1] = <<"event", m.event_id>>
      /\ Needs(m)[2] = <<"order", m.order>>
  BY DEF Needs
<1>2. 1 .. 0 = {} /\ 1 .. 1 = {1} /\ 1 .. 2 = {1, 2}
  OBVIOUS
<1>3. CASE handlers[t].held = 0
  BY <1>2, <1>3 DEF Held
<1>4. CASE handlers[t].held = 1
  BY <1>1, <1>2, <1>4 DEF Held
<1>5. CASE handlers[t].held = 2
  BY <1>1, <1>2, <1>5 DEF Held
<1> QED BY <1>3, <1>4, <1>5

\* The same of the next state.
LEMMA HeldNext ==
  ASSUME NEW t \in Threads
  PROVE  LET m == handlers'[t].msg IN
         /\ handlers'[t].held = 0 => Held(t)' = {}
         /\ handlers'[t].held = 1 => Held(t)' = {<<"event", m.event_id>>}
         /\ handlers'[t].held = 2 => Held(t)' = {<<"event", m.event_id>>, <<"order", m.order>>}
<1> DEFINE m == handlers'[t].msg
<1>1. /\ Needs(m)[1] = <<"event", m.event_id>>
      /\ Needs(m)[2] = <<"order", m.order>>
  BY DEF Needs
<1>2. 1 .. 0 = {} /\ 1 .. 1 = {1} /\ 1 .. 2 = {1, 2}
  OBVIOUS
<1>3. CASE handlers'[t].held = 0
  BY <1>2, <1>3 DEF Held
<1>4. CASE handlers'[t].held = 1
  BY <1>1, <1>2, <1>4 DEF Held
<1>5. CASE handlers'[t].held = 2
  BY <1>1, <1>2, <1>5 DEF Held
<1> QED BY <1>3, <1>4, <1>5

\* Two threads that have their locks are about different events and orders.
LEMMA Apart ==
  ASSUME HandlersInv, NEW t \in Threads, NEW u \in Threads, t # u,
         handlers[t].held = 2, handlers[u].held = 2
  PROVE  /\ handlers[t].msg.event_id # handlers[u].msg.event_id
         /\ handlers[t].msg.order # handlers[u].msg.order
<1>1. /\ Held(t) = {<<"event", handlers[t].msg.event_id>>, <<"order", handlers[t].msg.order>>}
      /\ Held(u) = {<<"event", handlers[u].msg.event_id>>, <<"order", handlers[u].msg.order>>}
  BY HeldIs
<1>2. Held(t) \cap Held(u) = {}
  BY DEF HandlersInv, Exclusive
<1> QED BY <1>1, <1>2

\* An attempt that has the lock of its order is not about a thread's.
LEMMA AttemptApart ==
  ASSUME HandlersInv, NEW o, Free(<<"order", o>>), NEW t \in Threads, handlers[t].held = 2
  PROVE  handlers[t].msg.order # o
  BY HeldIs DEF Free

\* One thread goes on: its new state keeps to the locks.
LEMMA HandlerGoesOn ==
  ASSUME HandlersInv, NEW t \in Threads, NEW new \in HandlerType, Placed(new),
         handlers' = [handlers EXCEPT ![t] = new],
         \/ new.held = 0
         \/ new.held = handlers[t].held /\ new.msg = handlers[t].msg
         \/ /\ new.held = handlers[t].held + 1 /\ new.msg = handlers[t].msg
            /\ Free(Needs(new.msg)[new.held])
  PROVE  /\ HandlersInv'
         /\ handlers'[t] = new
         /\ \A u \in Threads \ {t} : handlers'[u] = handlers[u]
<1>1. /\ handlers' \in [Threads -> HandlerType] /\ handlers'[t] = new
      /\ \A u \in Threads \ {t} : handlers'[u] = handlers[u]
  BY DEF HandlersInv
<1>2. \A u \in Threads : Placed(handlers'[u])
  BY <1>1 DEF HandlersInv
<1>3. \A u \in Threads \ {t} : Held(u)' = Held(u)
  BY <1>1 DEF Held
<1>4. ASSUME NEW k \in Held(t)', k \notin Held(t)
      PROVE  Free(k)
  <2>1. handlers[t].held \in {0, 1, 2} /\ new.held \in {0, 1, 2}
    BY DEF HandlersInv, HandlerType
  <2>2. CASE new.held = 0
    BY <1>1, <1>4, <2>2, HeldNext
  <2>3. CASE new.held = handlers[t].held /\ new.msg = handlers[t].msg
    BY <1>1, <1>4, <2>3 DEF Held
  <2>4. CASE /\ new.held = handlers[t].held + 1 /\ new.msg = handlers[t].msg
             /\ Free(Needs(new.msg)[new.held])
    <3>1. CASE new.held = 1
      BY <1>1, <1>4, <2>4, <3>1, HeldNext DEF Needs
    <3>2. CASE new.held = 2
      <4>1. handlers[t].held = 1
        BY <2>1, <2>4, <3>2
      <4>2. k = <<"order", new.msg.order>>
        BY <1>1, <1>4, <2>4, <3>2, <4>1, HeldIs, HeldNext
      <4> QED BY <2>4, <3>2, <4>2 DEF Needs
    <3> QED BY <2>1, <2>4, <3>1, <3>2
  <2> QED BY <2>2, <2>3, <2>4
<1>5. Exclusive'
  BY <1>3, <1>4 DEF HandlersInv, Exclusive, Free
<1> QED BY <1>1, <1>2, <1>5 DEF HandlersInv

----------------------------------------------------------------------------
(* What a commit writes.                                                   *)

\* A fulfilment that is accepted, and an event that may name the item.
Accepts(h) == h.msg.kind = "fulfil" /\ Verdict(h) = "processed" /\ ~h.cancelled

Names(h) == Accepts(h) \/ (h.msg.kind = "status" /\ Verdict(h) = "processed")

\* The statuses an event can get; a cancellation is always processed, and an
\* accepted fulfilment is of the purchase on record.
LEMMA Verdicts ==
  ASSUME NEW h, h.msg \in Webhooks
  PROVE  /\ Verdict(h) \in {"processed", "ignored", "conflict", "failed"}
         /\ h.msg.kind = "revoke" => Verdict(h) = "processed"
         /\ Verdict(h) = "processed" => h.msg.kind \in {"fulfil", "revoke", "status"}
         /\ Accepts(h) /\ Found(h) => h.row.identity \in {Null, h.msg.identity}
<1>1. h.msg.kind \in {"fulfil", "revoke", "status", "other"}
  BY WebhookAssumption
<1>2. CASE h.msg.kind = "fulfil"
  BY <1>2 DEF Verdict, Accepts
<1>3. CASE h.msg.kind # "fulfil"
  BY <1>1, <1>3 DEF Verdict, Accepts
<1> QED BY <1>2, <1>3

\* Without a row to see, a fulfilment that is accepted makes one.
LEMMA AfterNoRow ==
  ASSUME NEW h, h.msg \in Webhooks, h.row = NoRow
  PROVE  RowAfter(h) = IF Accepts(h) THEN NewRow(h.msg) ELSE NoRow
<1>1. ~Found(h)
  BY DEF Found, NoRow
<1>2. CASE Verdict(h) # "processed"
  BY <1>2 DEF RowAfter, Accepts
<1>3. CASE Verdict(h) = "processed" /\ h.msg.kind = "fulfil"
  BY <1>1, <1>3 DEF RowAfter, Accepts
<1>4. CASE Verdict(h) = "processed" /\ h.msg.kind \in {"revoke", "status"}
  BY <1>1, <1>4 DEF RowAfter, Accepts
<1> QED BY <1>2, <1>3, <1>4, Verdicts

\* What becomes of a row that was seen.
LEMMA AfterRow ==
  ASSUME NEW h, h.msg \in Webhooks, h.row \in Row
  PROVE  RowAfter(h) =
           [status |-> IF h.msg.kind = "revoke" THEN "revoked" ELSE h.row.status,
            delivery_status |->
              IF h.msg.kind = "status" /\ Verdict(h) = "processed" /\ h.msg.complete
              THEN "delivered" ELSE h.row.delivery_status,
            delivery_id |-> IF Names(h) /\ h.row.delivery_id = Null
                            THEN h.msg.delivery_id ELSE h.row.delivery_id,
            identity |-> IF Accepts(h) /\ h.row.identity = Null
                         THEN h.msg.identity ELSE h.row.identity]
<1>1. Found(h)
  BY DEF Found, Row, RowStatus
<1>2. /\ Filled(h.row, "identity", h.msg.identity) =
           IF h.row.identity = Null THEN h.msg.identity ELSE h.row.identity
      /\ Filled(h.row, "delivery_id", h.msg.delivery_id) =
           IF h.row.delivery_id = Null THEN h.msg.delivery_id ELSE h.row.delivery_id
  BY DEF Filled, Row
<1>3. CASE Verdict(h) # "processed"
  <2>1. RowAfter(h) = h.row /\ h.msg.kind # "revoke"
    BY <1>3, Verdicts DEF RowAfter
  <2> QED BY <1>3, <2>1 DEF Accepts, Names, Row
<1>4. CASE Verdict(h) = "processed" /\ h.msg.kind = "revoke"
  <2>1. RowAfter(h) = [h.row EXCEPT !.status = "revoked"]
    BY <1>1, <1>4 DEF RowAfter
  <2> QED BY <1>4, <2>1 DEF Accepts, Names, Row
<1>5. CASE Verdict(h) = "processed" /\ h.msg.kind = "fulfil" /\ h.cancelled
  <2>1. RowAfter(h) = h.row
    BY <1>5 DEF RowAfter
  <2> QED BY <1>5, <2>1 DEF Accepts, Names, Row
<1>6. CASE Accepts(h)
  <2>1. RowAfter(h) = [h.row EXCEPT
                         !.identity = Filled(h.row, "identity", h.msg.identity),
                         !.delivery_id = Filled(h.row, "delivery_id", h.msg.delivery_id)]
    BY <1>1, <1>6 DEF RowAfter, Accepts
  <2> QED BY <1>2, <1>6, <2>1 DEF Accepts, Names, Row
<1>7. CASE Verdict(h) = "processed" /\ h.msg.kind = "status"
  <2>1. RowAfter(h) = [h.row EXCEPT
                         !.delivery_id = Filled(h.row, "delivery_id", h.msg.delivery_id),
                         !.delivery_status = IF h.msg.complete THEN "delivered" ELSE @]
    BY <1>1, <1>7 DEF RowAfter
  <2> QED BY <1>2, <1>7, <2>1 DEF Accepts, Names, Row
<1> QED BY <1>3, <1>4, <1>5, <1>6, <1>7, Verdicts DEF Accepts

\* The columns that the session of the ORM writes.
LEMMA FlushedIs ==
  ASSUME NEW h, NEW q \in Row \cup {NoRow}
  PROVE  LET a == RowAfter(h)  r == h.row IN
         Flushed(h, q) =
           [status |-> IF a.status # r.status THEN a.status ELSE q.status,
            delivery_status |-> IF a.delivery_status # r.delivery_status
                                THEN a.delivery_status ELSE q.delivery_status,
            delivery_id |-> IF a.delivery_id # r.delivery_id
                            THEN a.delivery_id ELSE q.delivery_id,
            identity |-> IF a.identity # r.identity THEN a.identity ELSE q.identity]
<1>1. DOMAIN q = {"status", "delivery_status", "delivery_id", "identity"}
  BY DEF Row, NoRow
<1> QED BY <1>1 DEF Flushed

\* What a commit makes of the row of its order.
LEMMA CommittedRow ==
  ASSUME LocksInv, NEW t \in Threads, CommitProcessed(t),
         NEW h, h = handlers[t], NEW m, m = h.msg, NEW o, o = m.order
  PROVE  /\ o \in OrderIds
         /\ \A p \in OrderIds \ {o} : orders'[p] = orders[p]
         /\ RowStep(o)
         /\ KeptRow(o, orders'[o])
         /\ Accepts(h) => HasRow(o)' /\ orders'[o].identity = m.identity
         /\ m.kind = "revoke" =>
              /\ orders'[o].identity = orders[o].identity
              /\ orders'[o].delivery_id = orders[o].delivery_id
              /\ orders'[o].status \in {"none", "revoked"} \/ o \in overridden
<1> DEFINE q == orders[o]
           new == orders'[o]
<1>1. /\ m \in Webhooks /\ o \in OrderIds /\ h.row \in Row \cup {NoRow} /\ h.cancelled \in BOOLEAN
      /\ (h.cancelled <=> o \in tombstones) /\ TrueRow(o, h.row)
      /\ OrdersTypeOK /\ q \in Row \cup {NoRow}
  <2>1. h \in HandlerType /\ h.pc = "commit" /\ Placed(h) /\ TrueCopies(h)
    BY DEF LocksInv, HandlersInv, CommitProcessed
  <2>2. m \in Webhooks /\ OrdersTypeOK
    BY <2>1 DEF Placed, LocksInv, IngestInv, IngestTypeOK
  <2>3. o \in OrderIds
    BY <2>2, MessageType
  <2> QED BY <2>1, <2>2, <2>3 DEF HandlerType, TrueCopies, OrdersTypeOK
<1>2. new = Flushed(h, q) /\ \A p \in OrderIds \ {o} : orders'[p] = orders[p]
  BY <1>1 DEF CommitProcessed, OrdersTypeOK
<1>3. ~InsertFails(h)
  BY DEF CommitProcessed
<1>4. m.identity \in Identities /\ m.identity # Null /\ m.delivery_id \in DeliveryIds \cup {Null}
  BY <1>1, MessageType
<1> SUFFICES /\ RowStep(o)
             /\ KeptRow(o, new)
             /\ Accepts(h) => HasRow(o)' /\ new.identity = m.identity
             /\ m.kind = "revoke" =>
                  /\ new.identity = q.identity
                  /\ new.delivery_id = q.delivery_id
                  /\ new.status \in {"none", "revoked"} \/ o \in overridden
  BY <1>1, <1>2
<1>5. CASE h.row = NoRow
  <2>1. RowAfter(h) = IF Accepts(h) THEN NewRow(m) ELSE NoRow
    BY <1>1, <1>5, AfterNoRow
  <2>2. CASE Accepts(h)
    <3>1. q = NoRow
      <4>1. RowAfter(h) # h.row /\ ~Found(h)
        BY <1>5, <2>1, <2>2 DEF NewRow, NoRow, Found
      <4>2. ~HasRow(o)
        BY <1>3, <4>1 DEF InsertFails
      <4> QED BY <1>1, <4>2, NoRowIsNone
    <3>2. new = NewRow(m)
      BY <1>1, <1>2, <1>5, <2>1, <2>2, <3>1, FlushedIs DEF NewRow, NoRow
    <3>3. o \notin tombstones /\ m.kind # "revoke"
      BY <1>1, <2>2 DEF Accepts
    <3>4. new \in Row /\ new.status = "active" /\ new.identity = m.identity
      BY <1>1, <3>2, NewRowType DEF NewRow
    <3>5. KeptRow(o, new)
      BY <1>4, <3>1, <3>2 DEF KeptRow, NewRow, Purchased, HasRow, NoRow
    <3> QED BY <3>1, <3>3, <3>4, <3>5 DEF RowStep, HasRow, NoRow
  <2>3. CASE ~Accepts(h)
    <3>1. new = [status |-> q.status, delivery_status |-> q.delivery_status,
                 delivery_id |-> q.delivery_id, identity |-> q.identity]
      BY <1>1, <1>2, <1>5, <2>1, <2>3, FlushedIs
    <3>2. new = q
      BY <1>1, <3>1 DEF Row, NoRow
    <3>3. q.status = "none" \/ o \in overridden
      BY <1>1, <1>5 DEF TrueRow, NoRow, Row
    <3>4. KeptRow(o, new)
      BY <3>2 DEF KeptRow
    <3> QED BY <1>1, <2>3, <3>2, <3>3, <3>4 DEF RowStep, HasRow
  <2> QED BY <2>2, <2>3
<1>6. CASE h.row \in Row
  <2> DEFINE r == h.row
  <2>1. q \in Row /\ q = [r EXCEPT !.status = q.status] /\ (q = r \/ o \in overridden)
    <3>1. CASE r = q
      BY <1>6, <3>1 DEF Row
    <3>2. CASE o \in overridden /\ HasRow(o) /\ r = NoRow
      BY <1>6, <3>2 DEF NoRow, Row, RowStatus
    <3>3. CASE o \in overridden /\ HasRow(o) /\ q = [r EXCEPT !.status = q.status]
      BY <1>1, <3>3, NoRowIsNone
    <3> QED BY <1>1, <3>1, <3>2, <3>3 DEF TrueRow
  <2>2. /\ q.delivery_status = r.delivery_status /\ q.delivery_id = r.delivery_id
        /\ q.identity = r.identity
    BY <1>6, <2>1 DEF Row
  <2>3. new = [status |-> IF m.kind = "revoke" /\ r.status # "revoked" THEN "revoked"
                          ELSE q.status,
               delivery_status |->
                 IF m.kind = "status" /\ Verdict(h) = "processed" /\ m.complete
                 THEN "delivered" ELSE q.delivery_status,
               delivery_id |-> IF Names(h) /\ q.delivery_id = Null
                               THEN m.delivery_id ELSE q.delivery_id,
               identity |-> IF Accepts(h) /\ q.identity = Null
                            THEN m.identity ELSE q.identity]
    <3> DEFINE a == RowAfter(h)
    <3>1. /\ a.status = IF m.kind = "revoke" THEN "revoked" ELSE r.status
          /\ a.delivery_status =
               IF m.kind = "status" /\ Verdict(h) = "processed" /\ m.complete
               THEN "delivered" ELSE r.delivery_status
          /\ a.delivery_id = IF Names(h) /\ r.delivery_id = Null
                             THEN m.delivery_id ELSE r.delivery_id
          /\ a.identity = IF Accepts(h) /\ r.identity = Null THEN m.identity ELSE r.identity
      BY <1>1, <1>6, AfterRow
    <3>2. new = [status |-> IF a.status # r.status THEN a.status ELSE q.status,
                 delivery_status |-> IF a.delivery_status # r.delivery_status
                                     THEN a.delivery_status ELSE q.delivery_status,
                 delivery_id |-> IF a.delivery_id # r.delivery_id
                                 THEN a.delivery_id ELSE q.delivery_id,
                 identity |-> IF a.identity # r.identity THEN a.identity ELSE q.identity]
      BY <1>1, <1>2, FlushedIs
    <3> HIDE DEF a, q, r, new
    <3>3. /\ (IF a.status # r.status THEN a.status ELSE q.status)
               = IF m.kind = "revoke" /\ r.status # "revoked" THEN "revoked" ELSE q.status
          /\ (IF a.delivery_status # r.delivery_status
              THEN a.delivery_status ELSE q.delivery_status)
               = IF m.kind = "status" /\ Verdict(h) = "processed" /\ m.complete
                 THEN "delivered" ELSE q.delivery_status
          /\ (IF a.delivery_id # r.delivery_id THEN a.delivery_id ELSE q.delivery_id)
               = IF Names(h) /\ q.delivery_id = Null THEN m.delivery_id ELSE q.delivery_id
          /\ (IF a.identity # r.identity THEN a.identity ELSE q.identity)
               = IF Accepts(h) /\ q.identity = Null THEN m.identity ELSE q.identity
      BY <2>2, <3>1
    <3> QED BY <3>2, <3>3
  <2>4. new \in Row
    BY <1>4, <2>1, <2>3 DEF Row, RowStatus, DeliveryStatus
  <2>5. Accepts(h) => r.identity \in {Null, m.identity} /\ o \notin tombstones
    <3>1. Found(h)
      BY <1>6 DEF Found, Row, RowStatus
    <3> QED BY <1>1, <3>1, Verdicts DEF Accepts
  <2>6. HasRow(o)'
    BY <2>4 DEF HasRow, Row, RowStatus
  <2>7. Accepts(h) => new.identity = m.identity
    BY <2>2, <2>3, <2>5
  <2>8. m.kind = "revoke" => /\ ~Accepts(h) /\ ~Names(h)
                             /\ new.status = "revoked" \/ o \in overridden
    BY <2>1, <2>3 DEF Accepts, Names
  <2>9. RowStep(o)
    <3>1. /\ new.identity = q.identity \/ (q.identity = Null /\ Accepts(h))
          /\ new.delivery_id = q.delivery_id \/ q.delivery_id = Null
          /\ new.status = q.status \/ new.status = "revoked"
      BY <2>3
    <3> HIDE DEF new, q
    <3>2. Accepts(h) => o \notin tombstones
      BY <2>5
    <3> QED BY <2>4, <2>6, <3>1, <3>2 DEF RowStep, new, q
  <2>10. KeptRow(o, new)
    <3>1. HasRow(o)
      BY <2>1 DEF HasRow, Row, RowStatus
    <3>2. CASE m.kind = "revoke"
      <4>1. new = [status |-> IF r.status # "revoked" THEN "revoked" ELSE q.status,
                   delivery_status |-> q.delivery_status,
                   delivery_id |-> q.delivery_id, identity |-> q.identity]
        BY <2>3, <2>8, <3>2
      <4>2. CASE r.status # "revoked"
        <5>1. new = [q EXCEPT !.status = "revoked"]
          BY <2>1, <4>1, <4>2 DEF Row
        <5> QED BY <3>1, <5>1 DEF KeptRow
      <4>3. CASE r.status = "revoked"
        <5>1. new = q
          BY <2>1, <4>1, <4>3, RowIs
        <5> QED BY <5>1 DEF KeptRow
      <4> QED BY <4>2, <4>3
    <3>3. CASE m.kind # "revoke"
      <4> DEFINE buyer == IF Accepts(h) THEN m.identity ELSE Null
                 item == IF Names(h) THEN m.delivery_id ELSE Null
                 s == IF m.kind = "status" /\ Verdict(h) = "processed" /\ m.complete
                      THEN "delivered" ELSE q.delivery_status
      <4>1. /\ buyer \in Identities \cup {Null} /\ item \in DeliveryIds \cup {Null}
            /\ s \in {q.delivery_status, "delivered"}
        BY <1>4
      <4>2. new = Supplied(q, buyer, item, s)
        BY <2>3, <3>3 DEF Supplied
      <4> HIDE DEF buyer, item, s
      <4> QED BY <3>1, <4>1, <4>2 DEF KeptRow
    <3> QED BY <3>2, <3>3
  <2>11. m.kind = "revoke" => /\ new.identity = q.identity
                              /\ new.delivery_id = q.delivery_id
                              /\ new.status \in {"none", "revoked"} \/ o \in overridden
    BY <2>3, <2>8
  <2> HIDE DEF new, q
  <2> QED BY <2>6, <2>7, <2>9, <2>10, <2>11
<1> QED BY <1>1, <1>5, <1>6

\* A commit that processes a message is allowed by what the endpoint promises.
LEMMA CommitAllowed ==
  ASSUME LocksInv, NEW t \in Threads, CommitProcessed(t)
  PROVE  Allowed
<1>1. PICK h : h = handlers[t]
  OBVIOUS
<1>2. PICK m : m = h.msg
  OBVIOUS
<1>3. PICK o : o = m.order
  OBVIOUS
<1>4. /\ m \in Webhooks /\ h.cancelled \in BOOLEAN /\ (h.cancelled <=> o \in tombstones)
      /\ TrueRow(o, h.row)
  <2>1. h \in HandlerType /\ h.pc = "commit" /\ Placed(h) /\ TrueCopies(h)
    BY <1>1 DEF LocksInv, HandlersInv, CommitProcessed
  <2> QED BY <1>2, <1>3, <2>1 DEF HandlerType, Placed, TrueCopies
<1>5. /\ o \in OrderIds /\ m.event_id \in EventIds
      /\ \A p \in OrderIds \ {o} : orders'[p] = orders[p]
      /\ RowStep(o)
      /\ Accepts(h) => HasRow(o)' /\ orders'[o].identity = m.identity
      /\ m.kind = "revoke" =>
           /\ orders'[o].identity = orders[o].identity
           /\ orders'[o].delivery_id = orders[o].delivery_id
           /\ orders'[o].status \in {"none", "revoked"} \/ o \in overridden
  BY <1>1, <1>2, <1>3, <1>4, CommittedRow, MessageType
<1>6. /\ OrdersTypeOK /\ events \in [EventIds -> EventType]
      /\ tombstones \subseteq OrderIds /\ overridden \subseteq OrderIds
  BY DEF LocksInv, IngestInv, IngestTypeOK, EventType
<1>7. /\ Record(m, Verdict(h))
      /\ orders' = [orders EXCEPT ![o] = Flushed(h, @)]
      /\ IF m.kind = "revoke"
         THEN /\ tombstones' = tombstones \cup {o}
              /\ overridden' = IF orders'[o].status \in {"none", "revoked"}
                               THEN overridden \ {o} ELSE overridden
         ELSE UNCHANGED <<tombstones, overridden>>
  BY <1>1, <1>2, <1>3 DEF CommitProcessed
<1>8. /\ orders' = [p \in OrderIds |-> orders'[p]]
      /\ events' = [e \in EventIds |-> events'[e]]
  BY <1>6, <1>7 DEF OrdersTypeOK, Record
<1>9. ASSUME NEW p \in OrderIds
      PROVE  RowStep(p)
  <2>1. CASE p = o
    BY <1>5, <2>1
  <2>2. CASE p # o
    BY <1>5, <1>6, <2>2 DEF RowStep, HasRow, OrdersTypeOK
  <2> QED BY <2>1, <2>2
<1>10. ASSUME NEW e \in EventIds
       PROVE  EventStep(e)
  <2>1. events'[e] = events[e] \/ events'[e] = [status |-> Verdict(h), body |-> m]
    BY <1>4, <1>6, <1>7, RecordStep
  <2>2. Verdict(h) \in {"processed", "ignored", "conflict", "failed"}
    BY <1>2, <1>4, Verdicts
  <2>3. ASSUME Verdict(h) = "processed"
        PROVE  Effect(m)'
    <3>1. CASE m.kind = "fulfil" /\ h.cancelled
      BY <1>3, <1>4, <1>7, <3>1 DEF Effect
    <3>2. CASE m.kind = "fulfil" /\ ~h.cancelled
      <4>1. Accepts(h)
        BY <1>2, <2>3, <3>2 DEF Accepts
      <4> QED BY <1>3, <1>5, <3>2, <4>1 DEF Effect
    <3>3. CASE m.kind # "fulfil"
      BY <1>3, <1>7, <3>3 DEF Effect
    <3> QED BY <1>4, <3>1, <3>2, <3>3
  <2> QED BY <1>4, <2>1, <2>2, <2>3 DEF EventStep
<1>11. TombstoneStep
  <2>1. CASE m.kind = "revoke"
    BY <1>5, <1>6, <1>7, <2>1 DEF TombstoneStep
  <2>2. CASE m.kind # "revoke"
    BY <1>6, <1>7, <2>2 DEF TombstoneStep
  <2> QED BY <2>1, <2>2
<1>12. Touches(o)
  BY <1>5, <1>7 DEF Touches
<1> QED BY <1>5, <1>8, <1>9, <1>10, <1>11, <1>12 DEF Allowed

\* A clash and a repeated event are answered as WebhookIngest answers them.
LEMMA RepeatedIngests ==
  ASSUME LocksInv, NEW t \in Threads, CommitRepeated(t)
  PROVE  Acts
<1>1. PICK m : m = handlers[t].msg
  OBVIOUS
<1>2. /\ m \in Webhooks /\ handlers[t].event = events[m.event_id]
      /\ m.event_id \in EventIds
  <2>1. Placed(handlers[t]) /\ TrueCopies(handlers[t]) /\ handlers[t].pc = "commit"
    BY DEF LocksInv, HandlersInv, CommitRepeated
  <2> QED BY <1>1, <2>1, MessageType DEF Placed, TrueCopies
<1>3. /\ ClashSeen(t) <=> Clashes(m)
      /\ Seen(t) => Finished(m.event_id)
  BY <1>1, <1>2 DEF ClashSeen, Clashes, Seen, Finished
<1>4. CASE ClashSeen(t)
  <2>1. IngestClash(m)
    BY <1>1, <1>3, <1>4 DEF CommitRepeated, IngestClash
  <2> QED BY <1>2, <2>1 DEF Acts, Ingest
<1>5. CASE ~ClashSeen(t)
  <2>1. IngestDuplicate(m)
    BY <1>1, <1>3, <1>5 DEF CommitRepeated, IngestDuplicate, ingestVars
  <2> QED BY <1>2, <2>1 DEF Acts, Ingest
<1> QED BY <1>4, <1>5

----------------------------------------------------------------------------
(* The copies.                                                             *)

\* A thread that stays where it is keeps true copies if nobody touches its event
\* or its tombstone, and its row only by hand.
LEMMA CopiesKept ==
  ASSUME LocksInv, NEW t \in Threads, handlers'[t] = handlers[t],
         handlers[t].held = 2 =>
           LET m == handlers[t].msg IN
           /\ events'[m.event_id] = events[m.event_id]
           /\ m.order \in tombstones' <=> m.order \in tombstones
           /\ \A row : TrueRow(m.order, row) =>
                \/ row = orders'[m.order]
                \/ m.order \in overridden' /\ orders'[m.order].status # "none" /\ row = NoRow
                \/ /\ m.order \in overridden' /\ orders'[m.order].status # "none" /\ row \in Row
                   /\ orders'[m.order] = [row EXCEPT !.status = orders'[m.order].status]
  PROVE  TrueCopies(handlers[t])'
<1>1. PICK h : h = handlers[t]
  OBVIOUS
<1>2. PICK m : m = h.msg
  OBVIOUS
<1>3. Placed(h) /\ TrueCopies(h)
  BY <1>1 DEF LocksInv, HandlersInv
<1>4. TrueRow(m.order, h.row) /\ h.held = 2 => TrueRow(m.order, h.row)'
  BY <1>1, <1>2 DEF TrueRow, HasRow
<1>5. TrueCopies(h)'
  BY <1>1, <1>2, <1>3, <1>4 DEF Placed, TrueCopies
<1> QED BY <1>1, <1>5

\* So it does when the database does not change.
LEMMA CopiesRest ==
  ASSUME LocksInv, NEW t \in Threads, handlers'[t] = handlers[t], UNCHANGED ingestVars
  PROVE  TrueCopies(handlers[t])'
<1>1. UNCHANGED <<orders, events, tombstones, overridden>>
  BY DEF ingestVars
<1>2. TrueCopies(handlers[t])
  BY DEF LocksInv
<1> QED BY <1>1, <1>2 DEF TrueCopies, TrueRow, HasRow

\* Threads take messages, wait for locks and read, or lose what they have read.
LEMMA ReadStep ==
  ASSUME LocksInv, NEW t \in Threads,
         \/ \E m \in Webhooks : Arrive(t, m)
         \/ Lock(t) \/ ReadEvent(t) \/ ReadTombstone(t) \/ ReadOrder(t) \/ Rollback(t)
  PROVE  LocksInv' /\ UNCHANGED ingestVars
<1> DEFINE h == handlers[t]
           Moves(new) ==
             /\ new \in HandlerType /\ Placed(new)
             /\ handlers' = [handlers EXCEPT ![t] = new]
             /\ \/ new.held = 0
                \/ new.held = h.held /\ new.msg = h.msg
                \/ /\ new.held = h.held + 1 /\ new.msg = h.msg
                   /\ Free(Needs(new.msg)[new.held])
             /\ TrueCopies(new)
<1>0. Idle \in HandlerType /\ Placed(Idle) /\ TrueCopies(Idle) /\ Idle.held = 0
  BY DEF Idle, HandlerType, NoEvent, EventType, Placed, TrueCopies
<1>1. /\ HandlersInv /\ h \in HandlerType /\ Placed(h) /\ TrueCopies(h) /\ IngestInv
      /\ OrdersTypeOK /\ events \in [EventIds -> EventType]
      /\ handlers = [handlers EXCEPT ![t] = h]
  BY DEF LocksInv, HandlersInv, IngestInv, IngestTypeOK, EventType
<1>2. UNCHANGED ingestVars
  BY DEF Arrive, Lock, ReadEvent, ReadTombstone, ReadOrder, Rollback
<1>3. ASSUME NEW new, Moves(new)
      PROVE  LocksInv'
  <2>1. /\ HandlersInv' /\ handlers'[t] = new
        /\ \A u \in Threads \ {t} : handlers'[u] = handlers[u]
    BY <1>1, <1>3, HandlerGoesOn
  <2>2. TrueCopies(handlers[t])'
    BY <1>2, <1>3, <2>1 DEF TrueCopies, TrueRow, HasRow, ingestVars
  <2>3. \A u \in Threads \ {t} : TrueCopies(handlers[u])'
    BY <1>2, <2>1, CopiesRest
  <2>4. IngestInv'
    BY <1>1, <1>2, IngestStep
  <2> QED BY <2>1, <2>2, <2>3, <2>4 DEF LocksInv
<1>4. ASSUME NEW m \in Webhooks, Arrive(t, m)
      PROVE  \E new : Moves(new)
  <2> DEFINE new == [Idle EXCEPT !.pc = "lock", !.msg = m]
  <2>1. new \in HandlerType /\ new.pc = "lock" /\ new.msg = m /\ new.held = 0
    BY <1>0 DEF HandlerType
  <2>2. handlers' = [handlers EXCEPT ![t] = new]
    BY <1>4 DEF Arrive
  <2> HIDE DEF new
  <2>3. Placed(new) /\ TrueCopies(new)
    BY <2>1 DEF Placed, TrueCopies
  <2> QED BY <2>1, <2>2, <2>3
<1>5. ASSUME Rollback(t)
      PROVE  \E new : Moves(new)
  BY <1>0, <1>5 DEF Rollback, Answer
<1>6. ASSUME Lock(t)
      PROVE  \E new : Moves(new)
  <2> DEFINE n == h.held + 1
             new == [h EXCEPT !.held = n, !.pc = IF n = 2 THEN "event" ELSE @]
  <2>1. h.held \in {0, 1} /\ h.pc = "lock" /\ h.msg \in Webhooks /\ Free(Needs(h.msg)[n])
    BY <1>1, <1>6 DEF Lock, Placed
  <2>1a. n \in {1, 2} /\ n = h.held + 1
    BY <2>1
  <2> HIDE DEF n
  <2>2. /\ new \in HandlerType /\ new.held = n /\ new.msg = h.msg
        /\ new.pc = IF n = 2 THEN "event" ELSE "lock"
    BY <1>1, <2>1, <2>1a DEF HandlerType
  <2>3. handlers' = [handlers EXCEPT ![t] = new]
    BY <1>1, <1>6 DEF Lock, HandlersInv, HandlerType, n
  <2> HIDE DEF new, h
  <2>4. Placed(new) /\ TrueCopies(new)
    BY <2>1, <2>1a, <2>2 DEF Placed, TrueCopies
  <2> QED BY <2>1, <2>1a, <2>2, <2>3, <2>4
<1>7. ASSUME ReadEvent(t)
      PROVE  \E new : Moves(new)
  <2> DEFINE new == [h EXCEPT !.event = events[h.msg.event_id], !.pc = "tombstone"]
  <2>1. h.held = 2 /\ h.msg \in Webhooks /\ events[h.msg.event_id] \in EventType
    BY <1>1, <1>7, MessageType DEF ReadEvent, Placed
  <2>2. /\ new \in HandlerType /\ new.held = 2 /\ new.msg = h.msg /\ new.pc = "tombstone"
        /\ new.event = events[h.msg.event_id]
    BY <1>1, <2>1 DEF HandlerType
  <2>3. handlers' = [handlers EXCEPT ![t] = new]
    BY <1>1, <1>7 DEF ReadEvent, HandlersInv, HandlerType
  <2> HIDE DEF new, h
  <2> QED BY <2>1, <2>2, <2>3 DEF Placed, TrueCopies
<1>8. ASSUME ReadTombstone(t)
      PROVE  \E new : Moves(new)
  <2>1. h.held = 2 /\ h.msg \in Webhooks /\ h.event = events[h.msg.event_id]
    BY <1>1, <1>8 DEF ReadTombstone, Placed, TrueCopies
  <2>2. PICK c \in BOOLEAN : c = (h.msg.order \in tombstones)
    <3>1. (h.msg.order \in tombstones) \in BOOLEAN
      OBVIOUS
    <3>2. (h.msg.order \in tombstones) = (h.msg.order \in tombstones)
      OBVIOUS
    <3> QED BY <3>1, <3>2, Zenon
  <2>3. PICK new : new = [h EXCEPT !.cancelled = c, !.pc = "order"]
    OBVIOUS
  <2>4. handlers' = [handlers EXCEPT ![t] = new]
    BY <1>1, <1>8, <2>2, <2>3 DEF ReadTombstone, HandlersInv, HandlerType
  <2> HIDE DEF h
  <2>5. /\ new \in HandlerType /\ new.held = 2 /\ new.msg = h.msg /\ new.pc = "order"
        /\ new.event = h.event /\ new.cancelled = c
    BY <1>1, <2>1, <2>3 DEF HandlerType
  <2>6. Placed(new)
    BY <2>1, <2>5 DEF Placed
  <2>7. new.cancelled <=> new.msg.order \in tombstones
    BY <2>2, <2>5
  <2>8. TrueCopies(new)
    BY <2>1, <2>5, <2>7 DEF TrueCopies
  <2> QED BY <2>1, <2>4, <2>5, <2>6, <2>8
<1>9. ASSUME ReadOrder(t)
      PROVE  \E new : Moves(new)
  <2> DEFINE new == [h EXCEPT !.row = orders[h.msg.order], !.pc = "commit"]
  <2>1. /\ h.held = 2 /\ h.msg \in Webhooks /\ h.event = events[h.msg.event_id]
        /\ h.cancelled <=> h.msg.order \in tombstones
        /\ orders[h.msg.order] \in Row \cup {NoRow}
    BY <1>1, <1>9, MessageType DEF ReadOrder, Placed, TrueCopies, OrdersTypeOK
  <2>2. /\ new \in HandlerType /\ new.held = 2 /\ new.msg = h.msg /\ new.pc = "commit"
        /\ new.event = h.event /\ new.cancelled = h.cancelled
        /\ new.row = orders[h.msg.order]
    BY <1>1, <2>1 DEF HandlerType
  <2>3. handlers' = [handlers EXCEPT ![t] = new]
    BY <1>1, <1>9 DEF ReadOrder, HandlersInv, HandlerType
  <2> HIDE DEF new, h
  <2>4. Placed(new) /\ TrueCopies(new)
    BY <2>1, <2>2 DEF Placed, TrueCopies, TrueRow
  <2> QED BY <2>1, <2>2, <2>3, <2>4
<1> HIDE DEF Moves
<1> QED BY <1>2, <1>3, <1>4, <1>5, <1>6, <1>7, <1>8, <1>9

\* A commit writes the event and the order of its own thread only, and what the
\* others have read stays true.
LEMMA CommitStep ==
  ASSUME LocksInv, NEW t \in Threads, CommitProcessed(t) \/ CommitRepeated(t)
  PROVE  LocksInv' /\ Allowed
<1>1. PICK m : m = handlers[t].msg
  OBVIOUS
<1>2. /\ HandlersInv /\ IngestInv /\ IngestTypeOK /\ OrdersTypeOK
      /\ handlers[t].pc = "commit" /\ Placed(handlers[t])
      /\ events \in [EventIds -> EventType]
  BY DEF LocksInv, HandlersInv, IngestInv, IngestTypeOK, EventType, CommitProcessed,
         CommitRepeated
<1>3. handlers[t].held = 2 /\ m \in Webhooks /\ m.event_id \in EventIds /\ m.order \in OrderIds
  BY <1>1, <1>2, MessageType DEF Placed
<1>4. Allowed
  BY <1>2, CommitAllowed, RepeatedIngests, ActsAllowed
<1>5. /\ \A e \in EventIds \ {m.event_id} : events'[e] = events[e]
      /\ \A o \in OrderIds \ {m.order} :
           /\ orders'[o] = orders[o]
           /\ o \in tombstones' <=> o \in tombstones
           /\ o \in overridden' <=> o \in overridden
  <2>1. CASE CommitProcessed(t)
    BY <1>1, <1>2, <1>3, <2>1 DEF CommitProcessed, Record, OrdersTypeOK
  <2>2. CASE CommitRepeated(t)
    BY <1>1, <1>2, <1>3, <2>2 DEF CommitRepeated
  <2> QED BY <2>1, <2>2
<1>6. /\ HandlersInv' /\ handlers'[t] = Idle
      /\ \A u \in Threads \ {t} : handlers'[u] = handlers[u]
  <2>1. handlers' = [handlers EXCEPT ![t] = Idle]
    BY DEF CommitProcessed, CommitRepeated, Answer
  <2>2. Idle \in HandlerType /\ Placed(Idle) /\ Idle.held = 0
    BY DEF Idle, HandlerType, NoEvent, EventType, Placed
  <2> QED BY <1>2, <2>1, <2>2, HandlerGoesOn
<1>7. TrueCopies(handlers[t])'
  BY <1>6 DEF TrueCopies, Idle
<1>8. ASSUME NEW u \in Threads \ {t}
      PROVE  TrueCopies(handlers[u])'
  <2>1. CASE handlers[u].held = 2
    <3>1. PICK n : n = handlers[u].msg
      OBVIOUS
    <3>2. n.event_id # m.event_id /\ n.order # m.order
      BY <1>1, <1>2, <1>3, <2>1, <3>1, Apart
    <3>3. n.event_id \in EventIds /\ n.order \in OrderIds
      BY <1>2, <2>1, <3>1, MessageType DEF HandlersInv, Placed
    <3>4. /\ events'[n.event_id] = events[n.event_id] /\ orders'[n.order] = orders[n.order]
          /\ n.order \in tombstones' <=> n.order \in tombstones
          /\ n.order \in overridden' <=> n.order \in overridden
      BY <1>5, <3>2, <3>3
    <3> QED BY <1>6, <3>1, <3>4, CopiesKept DEF TrueRow, HasRow
  <2>2. CASE handlers[u].held # 2
    BY <1>6, <2>2, CopiesKept
  <2> QED BY <2>1, <2>2
<1>9. IngestInv'
  BY <1>2, <1>4, AllowedKeeps
<1> QED BY <1>4, <1>6, <1>7, <1>8, <1>9 DEF LocksInv

\* The portal and the attempts: an order whose copy is held changes its status
\* only, or is created by hand, and is overridden from then on.
LEMMA OthersStep ==
  ASSUME LocksInv, NEW o \in OrderIds, UNCHANGED handlers,
         CreateManual(o) \/ PortalStep(o) \/ AttemptStep(o)
  PROVE  LocksInv' /\ Allowed
<1>1. /\ HandlersInv /\ IngestInv /\ IngestTypeOK /\ OrdersTypeOK
  BY DEF LocksInv, IngestInv, IngestTypeOK
<1>2. Allowed
  BY <1>1, ActsAllowed DEF Acts, AttemptStep
<1>3. IngestInv'
  BY <1>1, <1>2, AllowedKeeps
<1>4. HandlersInv'
  BY <1>1 DEF HandlersInv, Exclusive, Held
<1>5. UNCHANGED <<events, tombstones>>
  BY DEF CreateManual, PortalStep, AttemptStep, DeliveryStep
<1>6. \A p \in OrderIds \ {o} : orders'[p] = orders[p] /\ (p \in overridden' <=> p \in overridden)
  BY <1>1 DEF CreateManual, PortalStep, PortalChangesStatus, AttemptStep, DeliveryStep,
     DeliveryChangesRow, OrdersTypeOK
<1>7. ASSUME NEW t \in Threads
      PROVE  TrueCopies(handlers[t])'
  <2>1. PICK p : p = handlers[t].msg.order
    OBVIOUS
  <2>2. ASSUME handlers[t].held = 2, NEW row, TrueRow(p, row)
        PROVE  \/ row = orders'[p]
               \/ p \in overridden' /\ orders'[p].status # "none" /\ row = NoRow
               \/ /\ p \in overridden' /\ orders'[p].status # "none" /\ row \in Row
                  /\ orders'[p] = [row EXCEPT !.status = orders'[p].status]
    <3>1. p \in OrderIds
      BY <1>1, <2>1, <2>2, MessageType DEF HandlersInv, Placed
    <3>2. CASE p # o
      BY <1>6, <2>2, <3>1, <3>2 DEF TrueRow, HasRow
    <3>3. CASE p = o /\ CreateManual(o)
      <4>1. row = NoRow
        BY <1>1, <2>2, <3>3, NoRowIsNone DEF CreateManual, TrueRow
      <4>2. orders'[o].status = "active" /\ o \in overridden'
        BY <1>1, <3>3 DEF CreateManual, ByHand, OrdersTypeOK
      <4> QED BY <3>3, <4>1, <4>2
    <3>4. CASE p = o /\ PortalStep(o)
      <4>1. PICK s \in RowStatus : HasRow(o) /\ orders' = [orders EXCEPT ![o].status = s]
        BY <3>4 DEF PortalStep, PortalChangesStatus
      <4>2. orders[o] \in Row /\ o \in overridden'
        BY <1>1, <3>4, <4>1, NoRowIsNone DEF PortalStep
      <4>3. orders'[o] = [orders[o] EXCEPT !.status = s]
        BY <1>1, <4>1 DEF OrdersTypeOK
      <4>4. orders'[o].status = s /\ s # "none"
        BY <4>2, <4>3 DEF Row, RowStatus
      <4>5. row = NoRow \/ (row \in Row /\ orders[o] = [row EXCEPT !.status = orders[o].status])
        <5>1. CASE row = orders[o]
          BY <4>2, <5>1 DEF Row
        <5> QED BY <2>2, <3>4, <5>1 DEF TrueRow
      <4>6. CASE row \in Row /\ orders[o] = [row EXCEPT !.status = orders[o].status]
        <5>1. orders'[o] = [row EXCEPT !.status = s]
          BY <4>3, <4>6 DEF Row
        <5> QED BY <3>4, <4>2, <4>4, <4>6, <5>1
      <4> QED BY <3>4, <4>2, <4>4, <4>5, <4>6
    <3>5. CASE AttemptStep(o)
      <4>1. p # o
        BY <1>1, <2>1, <2>2, <3>5, AttemptApart DEF AttemptStep
      <4> QED BY <3>2, <4>1
    <3> QED BY <3>2, <3>3, <3>4, <3>5
  <2> QED BY <1>5, <2>1, <2>2, CopiesKept
<1> QED BY <1>2, <1>3, <1>4, <1>7 DEF LocksInv

----------------------------------------------------------------------------
(* The inductive invariant.                                                *)

\* The invariant holds initially.
LEMMA LocksInitially == LocksInit => LocksInv
<1> SUFFICES ASSUME LocksInit PROVE LocksInv
  OBVIOUS
<1>1. IngestInv
  BY IngestInitially DEF LocksInit
<1>2. /\ Idle \in HandlerType /\ Placed(Idle) /\ TrueCopies(Idle)
      /\ \A t \in Threads : handlers[t] = Idle
      /\ handlers = [t \in Threads |-> Idle]
  BY DEF LocksInit, Idle, HandlerType, NoEvent, EventType, Placed, TrueCopies
<1>3. \A t \in Threads : Held(t) = {}
  BY <1>2, HeldIs DEF Idle
<1> QED BY <1>1, <1>2, <1>3 DEF LocksInv, HandlersInv, Exclusive

\* The invariant is inductive, and every step is allowed or leaves the database
\* alone.
LEMMA LocksStep ==
  LocksInv /\ [LocksNext]_lockVars => LocksInv' /\ (Allowed \/ UNCHANGED ingestVars)
<1>1. ASSUME LocksInv, NEW t \in Threads,
             (\E m \in Webhooks : Arrive(t, m)) \/ Handle(t) \/ Rollback(t)
      PROVE  LocksInv' /\ (Allowed \/ UNCHANGED ingestVars)
  <2>1. CASE CommitProcessed(t) \/ CommitRepeated(t)
    BY <1>1, <2>1, CommitStep
  <2>2. CASE \/ \E m \in Webhooks : Arrive(t, m)
             \/ Lock(t) \/ ReadEvent(t) \/ ReadTombstone(t) \/ ReadOrder(t) \/ Rollback(t)
    BY <1>1, <2>2, ReadStep
  <2> QED BY <1>1, <2>1, <2>2 DEF Handle
<1>2. ASSUME LocksInv, NEW o \in OrderIds, UNCHANGED handlers,
             CreateManual(o) \/ PortalStep(o) \/ AttemptStep(o)
      PROVE  LocksInv' /\ Allowed
  BY <1>2, OthersStep
<1>3. CASE LocksInv /\ LocksNext
  BY <1>1, <1>2, <1>3 DEF LocksNext
<1>4. CASE LocksInv /\ UNCHANGED lockVars
  <2>1. UNCHANGED ingestVars /\ UNCHANGED handlers
    BY <1>4 DEF lockVars, ingestVars
  <2>2. IngestInv' /\ HandlersInv'
    BY <1>4, <2>1, IngestStep DEF LocksInv, HandlersInv, Exclusive, Held
  <2> QED BY <1>4, <2>1, <2>2, CopiesRest DEF LocksInv
<1> QED BY <1>3, <1>4

----------------------------------------------------------------------------
(* The theorems.                                                           *)

\* What a thread has read under its locks stays true until it commits, but for
\* the status of the row, and whatever it then writes keeps the ledger.
THEOREM LocksInvariant == LocksSpec => []LocksInv
  BY LocksInitially, LocksStep, PTL DEF LocksSpec

\* Every state between two statements has its type.
THEOREM StatementsTypeCorrect == LocksSpec => []IngestTypeOK
<1>1. LocksInv => IngestTypeOK
  BY DEF LocksInv, IngestInv
<1> QED BY <1>1, LocksInvariant, PTL

\* Between any two statements of any number of requests, an event recorded as
\* processed has had its effect (ingest_webhook under _advisory_lock).
THEOREM StatementsKeepLedger == LocksSpec => []LedgerSound
<1>1. LocksInv => LedgerSound
  BY DEF LocksInv, IngestInv
<1> QED BY <1>1, LocksInvariant, PTL

\* A commit that writes copies read before the portal changed the row leaves a
\* cancelled order without a row or revoked, unless the portal changed it
\* (revoke_order, on the copy it selected).
THEOREM StatementsKeepCancellation == LocksSpec => []CancellationWins
<1>1. LocksInv => CancellationWins
  BY DEF LocksInv, IngestInv
<1> QED BY <1>1, LocksInvariant, PTL

\* What a request writes at its commit, from copies that may be stale, is no
\* more than the other components expect of a message (the columns the session
\* of the ORM found changed, under _advisory_lock).
THEOREM StatementsStayOnTheirRows == LocksSpec => MessagesKeepToRows
<1>1. ASSUME LocksInv, NEW t \in Threads, CommitProcessed(t)
      PROVE  KeptTable
  <2>1. PICK h : h = handlers[t]
    OBVIOUS
  <2>2. PICK m : m = h.msg
    OBVIOUS
  <2>3. PICK o : o = m.order
    OBVIOUS
  <2>4. o \in OrderIds /\ KeptRow(o, orders'[o])
        /\ \A p \in OrderIds \ {o} : orders'[p] = orders[p]
    BY <1>1, <2>1, <2>2, <2>3, CommittedRow
  <2>5. OrdersTypeOK
    BY <1>1 DEF LocksInv, IngestInv, IngestTypeOK
  <2>6. orders' = [orders EXCEPT ![o] = orders'[o]]
    BY <1>1, <2>1, <2>2, <2>3, <2>4, <2>5 DEF CommitProcessed, OrdersTypeOK
  <2> QED BY <2>4, <2>5, <2>6, RowKeepsTable
<1>2. LocksInv /\ [LocksNext]_lockVars => [events' # events => KeptTable]_ingestVars
  <2>1. ASSUME NEW t \in Threads, CommitRepeated(t)
        PROVE  KeptTable
    BY <2>1 DEF CommitRepeated, KeptTable
  <2>2. ASSUME NEW t \in Threads,
               \/ \E m \in Webhooks : Arrive(t, m)
               \/ Lock(t) \/ ReadEvent(t) \/ ReadTombstone(t) \/ ReadOrder(t) \/ Rollback(t)
        PROVE  UNCHANGED ingestVars
    BY <2>2 DEF Arrive, Lock, ReadEvent, ReadTombstone, ReadOrder, Rollback
  <2>3. ASSUME NEW o \in OrderIds, CreateManual(o) \/ PortalStep(o) \/ AttemptStep(o)
        PROVE  events' = events
    BY <2>3 DEF CreateManual, PortalStep, AttemptStep, DeliveryStep
  <2>4. UNCHANGED lockVars => UNCHANGED ingestVars
    BY DEF lockVars, ingestVars
  <2> QED BY <1>1, <2>1, <2>2, <2>3, <2>4 DEF LocksNext, Handle
<1>3. LocksSpec => [][events' # events => KeptTable]_ingestVars
  BY <1>2, LocksInvariant, PTL DEF LocksSpec
<1> QED BY <1>3 DEF MessagesKeepToRows, KeptTable

\* The statements implement Entitlement, as the endpoint taken for one step does.
THEOREM StatementsRefineEntitlement == LocksSpec => ImplementsEntitlement
<1>1. LocksInit => E!Init
  BY DEF LocksInit, IngestInit, OrdersInit, E!Init, NoRow, Legacy
<1>2. LocksInv /\ [LocksNext]_lockVars =>
        [E!Next]_<<[o \in OrderIds |-> orders[o].identity],
                   [o \in OrderIds |-> orders[o].delivery_id], tombstones>>
  <2>1. CASE LocksInv /\ Allowed
    BY <2>1, EntitlementStep DEF LocksInv, IngestInv, IngestTypeOK, Grants, Items
  <2>2. CASE UNCHANGED ingestVars
    BY <2>2 DEF ingestVars
  <2> QED BY <2>1, <2>2, LocksStep
<1>3. LocksSpec => E!Spec
  BY <1>1, <1>2, LocksInvariant, PTL DEF LocksSpec, E!Spec
<1> QED BY <1>3 DEF ImplementsEntitlement
=============================================================================
