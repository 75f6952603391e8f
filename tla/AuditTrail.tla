----------------------------- MODULE AuditTrail -----------------------------
(***************************************************************************)
(* What the administrators do to orders, and the audit log of it           *)
(* (admin.py).  Changes of the expiration and reactivations are one        *)
(* transaction with their record, under the lock of the row.  A revocation *)
(* and the creation of a key commit first and are recorded in a second     *)
(* transaction; a worker can be killed between the two.  Keys are numbers, *)
(* no two orders are given the same one.                                   *)
(***************************************************************************)
EXTENDS Integers, Sequences

CONSTANTS
  Orders,   \* order references
  Admins,   \* requests of administrators under way at once
  Latest,   \* bound: the last moment, and the latest expiration
  MaxLog    \* bound: records

ASSUME AuditAssumption == {Latest, MaxLog} \subseteq Nat \ {0}

VARIABLES
  orders,   \* order -> its row
  log,      \* the rows of admin_audit, by id
  requests, \* request -> where it is
  keys,     \* number of keys given to orders
  now,
  shown,    \* history: the pages that have shown a key, with their records
  cut       \* history: what was done when a request was killed before its record

auditVars == <<orders, log, requests, keys, now, shown, cut>>

Times == 0 .. Latest

\* endedBy and first, the expiration at creation, are history.
NoOrder == [key |-> 0, status |-> "none", expires |-> 0, manual |-> FALSE,
          bought |-> 0, endedBy |-> "nobody", first |-> 0]

NewOrder(key, expires, manual) ==
  [NoOrder EXCEPT !.key = key, !.status = "active", !.expires = expires,
                !.manual = manual, !.bought = now,
                !.first = expires]

HasRow(o) == orders[o].status # "none"

Idle == [pc |-> "idle", op |-> "none", order |-> "none", row |-> NoOrder, key |-> 0,
         record |-> 0]

AuditInit ==
  /\ orders = [o \in Orders |-> NoOrder]
  /\ log = <<>>
  /\ requests = [a \in Admins |-> Idle]
  /\ keys = 0
  /\ now = 0
  /\ shown = <<>>
  /\ cut = {}

----------------------------------------------------------------------------

\* Faulty variant: the row is read without FOR UPDATE.
Unlocked_Always(o) == TRUE

\* No request holds the row's lock.
Unlocked(o) ==
  \A a \in Admins : requests[a].pc = "locked" => requests[a].order # o

Goto(a, pc, op, o, key) ==
  requests' = [requests EXCEPT ![a] = [pc |-> pc, op |-> op, order |-> o,
                                       row |-> orders[o], key |-> key,
                                       record |-> Len(log) + 1]]

Leave(a) == requests' = [requests EXCEPT ![a] = Idle]

\* audit(), flushed and committed with what the transaction has changed.
Audit(action, o, old, new) ==
  /\ Len(log) < MaxLog
  /\ log' = Append(log, [action |-> action, order |-> o, old |-> old, new |-> new])

(* One transaction: expiration and reactivation.                           *)

\* _locked_order
LockOrder(a, o, op) ==
  /\ requests[a].pc = "idle"
  /\ HasRow(o)
  /\ Unlocked(o)
  /\ Goto(a, "locked", op, o, 0)
  /\ UNCHANGED <<orders, log, keys, now, shown, cut>>

\* The tests on the locked row, and of the form.
Reject(a) ==
  /\ requests[a].pc = "locked"
  /\ Leave(a)
  /\ UNCHANGED <<orders, log, keys, now, shown, cut>>

\* What may be set, or reached by an extension, which starts at the old
\* expiration or now, whichever is later.
NewExpirations(row) ==
  ((row.bought + 1) .. Latest)
    \cup {IF row.expires > now THEN row.expires + 1 ELSE now + 1}

UpdateExpiration(a) ==
  LET r == requests[a]
      o == r.order
  IN /\ r.pc = "locked"
     /\ r.op = "expiration"
     /\ r.row.status # "revoked"
     /\ \E new \in NewExpirations(r.row) \cap Times :
          /\ orders' = [orders EXCEPT
               ![o].expires = new,
               ![o].status = IF /\ r.row.status = "active"
                                /\ r.row.expires <= now \/ new <= now
                             THEN "expired" ELSE @]
          /\ Audit("expiration", o, r.row.expires, new)
     /\ Leave(a)
     /\ UNCHANGED <<keys, now, shown, cut>>

ReactivateOrder(a) ==
  LET r == requests[a]
      o == r.order
  IN /\ r.pc = "locked"
     /\ r.op = "reactivation"
     /\ r.row.status = "expired"
     /\ r.row.expires > now
     /\ orders' = [orders EXCEPT ![o].status = "active"]
     /\ Audit("reactivation", o, r.row.expires, r.row.expires)
     /\ Leave(a)
     /\ UNCHANGED <<keys, now, shown, cut>>

(* Two transactions: revocation and creation.                              *)

\* Faulty variant: the revocation is not recorded.
Revoke_Unrecorded(a, o) ==
  /\ requests[a].pc = "idle"
  /\ HasRow(o)
  /\ Unlocked(o)
  /\ orders' = [orders EXCEPT ![o].status = "revoked", ![o].endedBy = "admin"]
  /\ UNCHANGED <<log, requests, keys, now, shown, cut>>

Revoke(a, o) ==
  /\ requests[a].pc = "idle"
  /\ HasRow(o)
  /\ Unlocked(o)
  /\ orders' = [orders EXCEPT ![o].status = "revoked", ![o].endedBy = "admin"]
  /\ Goto(a, "audit", "revoke", o, 0)
  /\ UNCHANGED <<log, keys, now, shown, cut>>

\* create_manual_key: the reference is free when the form is tested.
CheckReference(a, o) ==
  /\ requests[a].pc = "idle"
  /\ ~HasRow(o)
  /\ Goto(a, "insert", "create", o, 0)
  /\ UNCHANGED <<orders, log, keys, now, shown, cut>>

\* Faulty variant: nothing makes the reference unique.
Taken_Never(o) == FALSE

\* It is looked up again, and the column is unique.
Taken(o) == HasRow(o)

CreateManual(a) ==
  LET r == requests[a] IN
  /\ r.pc = "insert"
  /\ IF Taken(r.order)
     THEN Leave(a) /\ UNCHANGED <<orders, keys>>
     ELSE /\ keys' = keys + 1
          /\ \E expires \in (now + 1) .. Latest :
               orders' = [orders EXCEPT ![r.order] = NewOrder(keys', expires, TRUE)]
          /\ requests' = [requests EXCEPT ![a].pc = "audit", ![a].key = keys']
  /\ UNCHANGED <<log, now, shown, cut>>

\* The second transaction.
Record(a) ==
  LET r == requests[a] IN
  /\ r.pc = "audit"
  /\ Audit(r.op, r.order, 0, 0)
  /\ requests' = [requests EXCEPT ![a] =
       IF r.op = "create" THEN [r EXCEPT !.pc = "show", !.record = Len(log')]
       ELSE Idle]
  /\ UNCHANGED <<orders, keys, now, shown, cut>>

(* The pages that show a key.                                              *)

\* reveal_order_key
Reveal(a, o) ==
  /\ requests[a].pc = "idle"
  /\ HasRow(o)
  /\ Audit("reveal", o, 0, 0)
  /\ Goto(a, "show", "reveal", o, orders[o].key)
  /\ UNCHANGED <<orders, keys, now, shown, cut>>

Show(a) ==
  LET r == requests[a] IN
  /\ r.pc = "show"
  /\ shown' = Append(shown, [order |-> r.order, key |-> r.key, record |-> r.record])
  /\ Leave(a)
  /\ UNCHANGED <<orders, log, keys, now, cut>>

\* The worker is killed, or the commit fails.
Kill(a) ==
  LET r == requests[a] IN
  /\ r.pc # "idle"
  /\ cut' = IF r.pc = "audit" THEN cut \cup {<<r.op, r.order>>} ELSE cut
  /\ Leave(a)
  /\ UNCHANGED <<orders, log, keys, now, shown>>

(* What happens to orders without an administrator.                        *)

\* create_g2g_order
Purchase(o) ==
  /\ ~HasRow(o)
  /\ keys' = keys + 1
  /\ \E expires \in (now + 1) .. Latest :
       orders' = [orders EXCEPT ![o] = NewOrder(keys', expires, FALSE)]
  /\ UNCHANGED <<log, requests, now, shown, cut>>

\* revoke_order for a cancellation or refund.
Cancel(o) ==
  /\ HasRow(o)
  /\ Unlocked(o)
  /\ orders' = [orders EXCEPT ![o].status = "revoked", ![o].endedBy = "webhook"]
  /\ UNCHANGED <<log, requests, keys, now, shown, cut>>

\* ensure_order_state and expire_due_orders (how they race: BuyerAccess).
Lapse(o) ==
  /\ orders[o].status = "active"
  /\ orders[o].expires <= now
  /\ Unlocked(o)
  /\ orders' = [orders EXCEPT ![o].status = "expired"]
  /\ UNCHANGED <<log, requests, keys, now, shown, cut>>

Tick ==
  /\ now < Latest
  /\ now' = now + 1
  /\ UNCHANGED <<orders, log, requests, keys, shown, cut>>

AuditNext ==
  \/ \E a \in Admins :
       \/ \E o \in Orders :
            \/ \E op \in {"expiration", "reactivation"} : LockOrder(a, o, op)
            \/ Revoke(a, o)
            \/ CheckReference(a, o)
            \/ Reveal(a, o)
       \/ Reject(a)
       \/ UpdateExpiration(a)
       \/ ReactivateOrder(a)
       \/ CreateManual(a)
       \/ Record(a)
       \/ Show(a)
       \/ Kill(a)
  \/ \E o \in Orders : Purchase(o) \/ Cancel(o) \/ Lapse(o)
  \/ Tick

AuditSpec == AuditInit /\ [][AuditNext]_auditVars

----------------------------------------------------------------------------
(* Properties.                                                             *)

\* The expiration the log gives for o before its i-th record.
Gives(o, i, time) ==
  LET moves == {j \in DOMAIN log :
                  /\ j < i
                  /\ log[j].order = o
                  /\ log[j].action \in {"expiration", "reactivation"}}
  IN \/ moves = {} /\ time = orders[o].first
     \/ \E j \in moves : time = log[j].new /\ \A k \in moves : k <= j

\* The history of an order's expiration can be read from the log without a
\* gap: each record starts from the expiration the one before has set, the
\* first from that of the purchase, and the last has set the one in force
\* ("every expiration change and reactivation is recorded": _locked_order, and
\* audit in the transaction of the change).
ExpirationsOnRecord ==
  \A o \in Orders : HasRow(o) =>
    /\ Gives(o, Len(log) + 1, orders[o].expires)
    /\ \A i \in DOMAIN log :
         /\ log[i].order = o
         /\ log[i].action \in {"expiration", "reactivation"}
         => Gives(o, i, log[i].old)

\* Every key an administrator has seen opens the order it was shown for, and
\* each page that showed one has a record of its own (create_manual_key,
\* reveal_order_key).
KeysOnRecord ==
  \A i \in DOMAIN shown :
    /\ shown[i].key = orders[shown[i].order].key
    /\ shown[i].record \in DOMAIN log
    /\ log[shown[i].record].order = shown[i].order
    /\ log[shown[i].record].action \in {"create", "reveal"}
    /\ \A j \in DOMAIN shown : shown[j].record = shown[i].record => j = i

\* The action is on record, or its request was killed between its two
\* transactions or has yet to go from the first to the second.
Accounted(op, o) ==
  \/ \E i \in DOMAIN log : log[i].action = op /\ log[i].order = o
  \/ <<op, o>> \in cut
  \/ \E a \in Admins :
       requests[a].pc = "audit" /\ requests[a].op = op /\ requests[a].order = o

\* Of what is done in the portal, every revocation and every key made by hand is
\* on record, but for those whose request was killed, or is under way, between
\* the two transactions (revoke_order_route, create_manual_key).  The commands
\* revoke-order and create-test-key of manage.py keep no record and are left out.
EffectsOnRecord ==
  \A o \in Orders :
    /\ orders[o].endedBy = "admin" => Accounted("revoke", o)
    /\ orders[o].manual => Accounted("create", o)
=============================================================================
