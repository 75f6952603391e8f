----------------------------- MODULE IngestLocks -----------------------------
(***************************************************************************)
(* ingest_webhook statement by statement, on PostgreSQL at READ COMMITTED: *)
(* the advisory locks of the event and of the order, the reads, and one    *)
(* commit that writes the columns in which the copies were changed.        *)
(*                                                                         *)
(* WebhookIngest takes the whole for one step.  Here what it promises is   *)
(* checked of the statements themselves, between those of other messages,  *)
(* of attempts (under the lock of the order) and of the portal (under no   *)
(* advisory lock, so that a copy may be out of date when it is written).   *)
(***************************************************************************)
EXTENDS WebhookIngest, Sequences

CONSTANT Threads

VARIABLE handlers  \* thread -> the message it handles and what it has read

lockVars == <<ingestVars, handlers>>

Idle == [pc |-> "idle", msg |-> Null, held |-> 0, event |-> NoEvent,
         cancelled |-> FALSE, row |-> NoRow]

LocksInit == IngestInit /\ handlers = [t \in Threads |-> Idle]

----------------------------------------------------------------------------
(* _advisory_lock                                                          *)

\* Faulty variant: a revocation locks its order before its event.
Needs_RevokeFirst(m) ==
  IF m.kind = "revoke" THEN <<<<"order", m.order>>, <<"event", m.event_id>>>>
  ELSE <<<<"event", m.event_id>>, <<"order", m.order>>>>

\* The locks a message takes, in this order.
Needs(m) == <<<<"event", m.event_id>>, <<"order", m.order>>>>

Held(t) ==
  {Needs(handlers[t].msg)[i] : i \in 1 .. handlers[t].held}

\* Faulty variant: the locks of orders are not taken.
Free_EventsOnly(k) == k[1] = "order" \/ \A t \in Threads : k \notin Held(t)

Free(k) == \A t \in Threads : k \notin Held(t)

Arrive(t, m) ==
  /\ handlers[t].pc = "idle"
  /\ handlers' = [handlers EXCEPT ![t] = [Idle EXCEPT !.pc = "lock", !.msg = m]]
  /\ UNCHANGED ingestVars

Lock(t) ==
  LET n == handlers[t].held + 1 IN
  /\ handlers[t].pc = "lock"
  /\ Free(Needs(handlers[t].msg)[n])
  /\ handlers' = [handlers EXCEPT ![t].held = n, ![t].pc = IF n = 2 THEN "event" ELSE @]
  /\ UNCHANGED ingestVars

----------------------------------------------------------------------------
(* The reads.                                                              *)

Seen(t) ==
  /\ handlers[t].event.body \in {Null, handlers[t].msg}
  /\ handlers[t].event.status \in {"processed", "ignored"}

ClashSeen(t) == handlers[t].event.body \notin {Null, handlers[t].msg}

\* _event_record
ReadEvent(t) ==
  /\ handlers[t].pc = "event"
  /\ handlers' = [handlers EXCEPT ![t].event = events[handlers[t].msg.event_id],
                                  ![t].pc = "tombstone"]
  /\ UNCHANGED ingestVars

ReadTombstone(t) ==
  /\ handlers[t].pc = "tombstone"
  /\ handlers' = [handlers EXCEPT ![t].cancelled = handlers[t].msg.order \in tombstones,
                                  ![t].pc = "order"]
  /\ UNCHANGED ingestVars

ReadOrder(t) ==
  /\ handlers[t].pc = "order"
  /\ handlers' = [handlers EXCEPT ![t].row = orders[handlers[t].msg.order],
                                  ![t].pc = "commit"]
  /\ UNCHANGED ingestVars

----------------------------------------------------------------------------
(* What the copies make of the message: the status of the event and, where *)
(* the message is accepted, the row of the order.                          *)

Found(h) == h.row.status # "none"

Verdict(h) ==
  LET m == h.msg IN
  CASE m.kind = "other" -> "ignored"
    [] m.kind = "revoke" -> "processed"
    [] m.kind = "fulfil" /\ m.fault = "invalid" -> "failed"
    [] m.kind = "fulfil" /\ m.fault # "invalid" /\ h.cancelled -> "processed"
    [] m.kind = "fulfil" /\ m.fault # "invalid" /\ ~h.cancelled ->
         IF IF Found(h) THEN h.row.identity \in {Null, m.identity} ELSE m.fault = "none"
         THEN "processed" ELSE "conflict"
    [] m.kind = "status" ->
         IF Found(h) /\ m.delivery_id # Null
                     /\ h.row.delivery_id \notin {Null, m.delivery_id}
         THEN "conflict" ELSE "processed"

\* Faulty variant: the value on record is replaced.
Filled_Replaced(row, column, value) == IF value # Null THEN value ELSE row[column]

Filled(row, column, value) == IF row[column] = Null THEN value ELSE row[column]

RowAfter(h) ==
  LET m == h.msg IN
  CASE Verdict(h) # "processed" -> h.row
    [] Verdict(h) = "processed" /\ m.kind = "revoke" ->
         IF Found(h) THEN [h.row EXCEPT !.status = "revoked"] ELSE h.row
    [] Verdict(h) = "processed" /\ m.kind = "fulfil" ->
         IF h.cancelled THEN h.row
         ELSE IF Found(h)
         THEN [h.row EXCEPT !.identity = Filled(h.row, "identity", m.identity),
                            !.delivery_id = Filled(h.row, "delivery_id", m.delivery_id)]
         ELSE NewRow(m)
    [] Verdict(h) = "processed" /\ m.kind = "status" ->
         IF Found(h)
         THEN [h.row EXCEPT
                !.delivery_id = Filled(h.row, "delivery_id", m.delivery_id),
                !.delivery_status = IF m.complete THEN "delivered" ELSE @]
         ELSE h.row

\* Faulty variant: all columns are written.
Flushed_WholeRow(h, row) == RowAfter(h)

\* The session of the ORM writes the columns that differ from the copy.
Flushed(h, row) ==
  [c \in DOMAIN row |-> IF RowAfter(h)[c] # h.row[c] THEN RowAfter(h)[c] ELSE row[c]]

----------------------------------------------------------------------------
(* COMMIT                                                                  *)

Answer(t) == handlers' = [handlers EXCEPT ![t] = Idle]

\* A clash or a repeated event.
CommitRepeated(t) ==
  LET m == handlers[t].msg IN
  /\ handlers[t].pc = "commit"
  /\ ClashSeen(t) \/ Seen(t)
  /\ events' = IF ClashSeen(t)
               THEN [events EXCEPT ![m.event_id].status = "conflict"] ELSE events
  /\ Answer(t)
  /\ UNCHANGED <<orders, tombstones, overridden>>

\* The row to be inserted has been created by hand meanwhile.
InsertFails(h) == ~Found(h) /\ RowAfter(h) # h.row /\ HasRow(h.msg.order)

CommitProcessed(t) ==
  LET h == handlers[t]
      m == h.msg
  IN /\ h.pc = "commit"
     /\ ~ClashSeen(t)
     /\ ~Seen(t)
     /\ ~InsertFails(h)
     /\ Record(m, Verdict(h))
     /\ orders' = [orders EXCEPT ![m.order] = Flushed(h, @)]
     /\ IF m.kind = "revoke"
        THEN /\ tombstones' = tombstones \cup {m.order}
             /\ overridden' = IF orders'[m.order].status \in {"none", "revoked"}
                              THEN overridden \ {m.order} ELSE overridden
        ELSE UNCHANGED <<tombstones, overridden>>
     /\ Answer(t)

\* The insert fails, or the thread is killed: everything is rolled back.
Rollback(t) ==
  /\ handlers[t].pc # "idle"
  /\ Answer(t)
  /\ UNCHANGED ingestVars

\* The transactions of an attempt hold the lock of their order.
AttemptStep(o) == Free(<<"order", o>>) /\ DeliveryStep(o)

Handle(t) ==
  \/ Lock(t)
  \/ ReadEvent(t)
  \/ ReadTombstone(t)
  \/ ReadOrder(t)
  \/ CommitRepeated(t)
  \/ CommitProcessed(t)

LocksNext ==
  \/ \E t \in Threads :
       \/ \E m \in Webhooks : Arrive(t, m)
       \/ Handle(t)
       \/ Rollback(t)
  \/ \E o \in OrderIds :
       \/ CreateManual(o) /\ UNCHANGED handlers
       \/ PortalStep(o) /\ UNCHANGED handlers
       \/ AttemptStep(o) /\ UNCHANGED handlers

LocksSpec == LocksInit /\ [][LocksNext]_lockVars

\* A thread goes on unless it is killed; PostgreSQL grants locks in the order
\* in which they are asked for; a failed insert is answered.
LocksFairness ==
  \A t \in Threads :
    /\ WF_lockVars(Handle(t))
    /\ SF_lockVars(Lock(t))
    /\ WF_lockVars(handlers[t].pc = "commit" /\ InsertFails(handlers[t]) /\ Rollback(t))

----------------------------------------------------------------------------
(* Properties.                                                             *)

\* Every message is answered: the locks are always taken in one order, so that
\* no two messages wait for each other.
EveryMessageAnswered ==
  \A t \in Threads : handlers[t].pc # "idle" ~> handlers[t].pc = "idle"
=============================================================================
