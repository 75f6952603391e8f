---------------------------- MODULE BuyerAccess ----------------------------
(***************************************************************************)
(* Buyer access to one-time codes: the life of an order's access key and   *)
(* of the buyer sessions opened with it (services.py, app.py, admin.py).   *)
(*                                                                         *)
(* Several requests run at once: gunicorn threads and management commands. *)
(* The database runs at READ COMMITTED and the ORM writes back only the    *)
(* columns a request changed, WHERE id = ..., with no version check.  So a *)
(* request is modelled as a read step, which copies the order's columns; a *)
(* step that sends its UPDATE, which takes the row lock, and lists the     *)
(* sessions to revoke; and a commit, which overwrites the row whatever it  *)
(* had become before the lock, and revokes the listed sessions.            *)
(* Only the two renewal handlers of the admin portal read under the row    *)
(* lock (SELECT ... FOR UPDATE, which also makes an INSERT of a session of *)
(* that order wait) and are therefore single steps.                        *)
(***************************************************************************)
EXTENDS Integers, FiniteSets

CONSTANTS
  Orders,           \* orders; each has one access key
  Sessions,         \* rows available in buyer_sessions
  Durations,        \* duration_seconds of the products
  Requests,         \* requests or commands in progress at the same time
  Addresses,        \* client IP addresses
  SessionLifetime,  \* PERMANENT_SESSION_LIFETIME
  MaxExtension,     \* the 10-year limit on expirations
  MaxSessions,      \* MAX_ACTIVE_SESSIONS_PER_ORDER, 0 for no limit
  MaxAddresses,     \* MAX_DISTINCT_IPS_PER_ORDER, 0 for no limit
  Retention,        \* age at which the clean-up removes a session
  Horizon,          \* bound: the clock stops here
  None

OrderStatus == {"active", "expired", "revoked"}

ASSUME AccessAssumption ==
  /\ {SessionLifetime, MaxExtension, MaxSessions, MaxAddresses,
      Retention, Horizon} \subseteq Nat
  /\ Durations \subseteq Nat \ {0}
  /\ None \notin Orders \cup Addresses \cup OrderStatus

VARIABLES
  now,        \* the clock
  orders,     \* order -> its row: status and expires_at
  sessions,   \* session -> its row
  requests,   \* request -> where it is and what it has read
  dead,       \* history: orders that lapsed or left "active", until reactivated
  doomed,     \* history: requests that began when their order was dead
  late,       \* history: sessions inserted when their order was not active, or
              \* when a transaction that may end it had listed its sessions
  withdrawn   \* history: orders that were "revoked" at some time

history == <<dead, doomed, late, withdrawn>>
vars == <<now, orders, sessions, requests, dead, doomed, late, withdrawn>>

SessionState == {"absent", "open", "revoked", "deleted"}
PC == {"idle", "verify", "reload", "insert", "order", "ensure", "served",
       "detail", "expire", "revoke", "commit"}

\* A request: where it is, the copy it has read, the orders it writes and
\* their new status (None: left as it is), and the sessions it will revoke.
Idle == [pc |-> "idle", order |-> None, status |-> "active", expires_at |-> 0,
         address |-> None, due |-> {}, to |-> None, marked |-> {}]
NoSession == [state |-> "absent", order |-> None, address |-> None,
              expires_at |-> 0]

\* Times are counted from the purchase.
purchased_at == 0

Init ==
  /\ now = 0
  /\ orders \in [Orders -> [status : {"active"}, expires_at : Durations]]
  /\ sessions = [s \in Sessions |-> NoSession]
  /\ requests = [r \in Requests |-> Idle]
  /\ dead = [o \in Orders |-> FALSE]
  /\ doomed = {}
  /\ late = {}
  /\ withdrawn = {}

----------------------------------------------------------------------------
(* What handlers share.                                                    *)

Return(r) == requests' = [requests EXCEPT ![r] = Idle]

\* SELECT of order o by request r, which goes on at pc.
ReadOrder(r, o, pc) ==
  requests' = [requests EXCEPT ![r].pc = pc, ![r].order = o,
                               ![r].status = orders[o].status,
                               ![r].expires_at = orders[o].expires_at]

OpenSessions(S) ==
  {s \in Sessions : sessions[s].state = "open" /\ sessions[s].order \in S}

\* A transaction has sent an UPDATE of o and has not committed yet.
Locked(o) == \E r \in Requests : requests[r].pc = "commit" /\ o \in requests[r].due

\* Faulty variant: the status is written, the sessions are left alone.
Collect_NoSessions(r, S, L, to) ==
  /\ \A o \in L : ~Locked(o)
  /\ requests' = [requests EXCEPT
                    ![r] = [Idle EXCEPT !.pc = "commit", !.order = requests[r].order,
                                        !.due = L, !.to = to]]
  /\ UNCHANGED <<orders, sessions>>

\* revoke_buyer_sessions for the orders in S: the SELECT first flushes the new
\* status of those in L, which waits for their locks, then lists the sessions.
Collect(r, S, L, to) ==
  /\ \A o \in L : ~Locked(o)
  /\ requests' = [requests EXCEPT
                    ![r] = [Idle EXCEPT !.pc = "commit", !.order = requests[r].order,
                                        !.due = L, !.to = to,
                                        !.marked = OpenSessions(S)]]
  /\ UNCHANGED <<orders, sessions>>

\* COMMIT.  It is rolled back if a listed session has been deleted meanwhile
\* (the ORM finds that its UPDATE matched no row).
Commit(r) ==
  LET q == requests[r]
      ok == \A s \in q.marked : sessions[s].state # "deleted"
  IN /\ q.pc = "commit"
     /\ orders' = [o \in Orders |->
                     IF ok /\ o \in q.due /\ q.to # None
                     THEN [orders[o] EXCEPT !.status = q.to] ELSE orders[o]]
     /\ sessions' = [s \in Sessions |->
                     IF ok /\ s \in q.marked
                     THEN [sessions[s] EXCEPT !.state = "revoked"] ELSE sessions[s]]
     /\ Return(r)

\* Faulty variant: an order counts as lapsed one moment early.
Lapsed_Early(r) == requests[r].status = "active" /\ now + 1 >= requests[r].expires_at

Lapsed(r) == requests[r].status = "active" /\ now >= requests[r].expires_at

Usable(r) == requests[r].status = "active" /\ now < requests[r].expires_at

\* ensure_order_state on the copy r has read: a lapsed order is written back
\* as expired, a usable one lets r continue at next, any other ends r.
EnsureOrderState(r, next) ==
  \/ /\ Lapsed(r)
     /\ Collect(r, {requests[r].order}, {requests[r].order}, "expired")
  \/ /\ ~Lapsed(r)
     /\ requests' = [requests EXCEPT
                       ![r] = IF Usable(r) /\ next # "idle"
                              THEN [Idle EXCEPT !.pc = next, !.order = requests[r].order,
                                                !.address = requests[r].address]
                              ELSE Idle]
     /\ UNCHANGED <<orders, sessions>>

----------------------------------------------------------------------------
(* POST /unlock: verify_buyer_key, then create_buyer_session.              *)

UnlockLookup(r, o, a) ==
  /\ requests[r].pc = "idle"
  /\ orders[o].status # "revoked"
  /\ requests' = [requests EXCEPT
                    ![r] = [Idle EXCEPT !.pc = "verify", !.order = o,
                                        !.address = a,
                                        !.status = orders[o].status,
                                        !.expires_at = orders[o].expires_at]]
  /\ UNCHANGED <<orders, sessions>>

UnlockVerify(r) ==
  /\ requests[r].pc = "verify"
  /\ EnsureOrderState(r, "reload")

\* _active_session_filter: the sessions that count against the limits.
ActiveSessions(o) ==
  {s \in Sessions : /\ sessions[s].state = "open"
                    /\ sessions[s].order = o
                    /\ sessions[s].expires_at > now}

ActiveAddresses(o) == {sessions[s].address : s \in ActiveSessions(o)}

\* Faulty variant: the limits are exceeded by one.
WithinLimits_OffByOne(o, a) ==
  MaxSessions > 0 => Cardinality(ActiveSessions(o)) <= MaxSessions

WithinLimits(o, a) ==
  /\ MaxSessions > 0 => Cardinality(ActiveSessions(o)) < MaxSessions
  /\ MaxAddresses > 0 => \/ Cardinality(ActiveAddresses(o)) < MaxAddresses
                         \/ a \in ActiveAddresses(o)

\* The commit of the verification expired the ORM copy, so the order is read
\* again; its status is not looked at.
UnlockReload(r) ==
  LET o == requests[r].order IN
  /\ requests[r].pc = "reload"
  /\ IF WithinLimits(o, requests[r].address)
     THEN requests' = [requests EXCEPT
            ![r].pc = "insert",
            ![r].expires_at = IF orders[o].expires_at <= now + SessionLifetime
                              THEN orders[o].expires_at
                              ELSE now + SessionLifetime]
     ELSE Return(r)
  /\ UNCHANGED <<orders, sessions>>

UnlockInsert(r, s) ==
  /\ requests[r].pc = "insert"
  /\ sessions[s].state = "absent"
  /\ sessions' = [sessions EXCEPT
                    ![s] = [state |-> "open", order |-> requests[r].order,
                            address |-> requests[r].address,
                            expires_at |-> requests[r].expires_at]]
  /\ Return(r)
  /\ UNCHANGED orders

----------------------------------------------------------------------------
(* GET /api/code and GET /: active_buyer_session.                          *)

\* A session past its own expiration is revoked; another lets r continue.
CodeSession(r, s) ==
  /\ requests[r].pc = "idle"
  /\ sessions[s].state = "open"
  /\ IF now >= sessions[s].expires_at
     THEN /\ sessions' = [sessions EXCEPT ![s].state = "revoked"]
          /\ UNCHANGED requests
     ELSE /\ requests' = [requests EXCEPT
                            ![r] = [Idle EXCEPT !.pc = "order",
                                                !.order = sessions[s].order]]
          /\ UNCHANGED sessions
  /\ UNCHANGED orders

CodeOrder(r) ==
  /\ requests[r].pc = "order"
  /\ ReadOrder(r, requests[r].order, "ensure")
  /\ UNCHANGED <<orders, sessions>>

CodeEnsure(r) ==
  /\ requests[r].pc = "ensure"
  /\ EnsureOrderState(r, "served")

\* The response with the code has left.
CodeServed(r) ==
  /\ requests[r].pc = "served"
  /\ Return(r)
  /\ UNCHANGED <<orders, sessions>>

----------------------------------------------------------------------------
(* Lazy and batch expiry outside the buyer's requests.                     *)

\* GET /admin/orders/<id> calls ensure_order_state too.
DetailRead(r, o) ==
  /\ requests[r].pc = "idle"
  /\ ReadOrder(r, o, "detail")
  /\ UNCHANGED <<orders, sessions>>

DetailEnsure(r) ==
  /\ requests[r].pc = "detail"
  /\ EnsureOrderState(r, "idle")

\* manage.py expire-orders: one SELECT, then an UPDATE of each order found, all
\* in one transaction (taken together here).
ExpireDueRead(r) ==
  LET due == {o \in Orders : orders[o].status = "active"
                              /\ orders[o].expires_at <= now}
  IN /\ requests[r].pc = "idle"
     /\ due # {}
     /\ requests' = [requests EXCEPT ![r] = [Idle EXCEPT !.pc = "expire",
                                                         !.due = due]]
     /\ UNCHANGED <<orders, sessions>>

ExpireDueWrite(r) ==
  /\ requests[r].pc = "expire"
  /\ Collect(r, requests[r].due, requests[r].due, "expired")

----------------------------------------------------------------------------
(* revoke_order: an admin, a command, or a cancellation webhook.           *)

RevokeRead(r, o) ==
  /\ requests[r].pc = "idle"
  /\ ReadOrder(r, o, "revoke")
  /\ UNCHANGED <<orders, sessions>>

\* The status column is written only if the copy read differs from "revoked".
RevokeWrite(r) ==
  /\ requests[r].pc = "revoke"
  /\ Collect(r, {requests[r].order}, {requests[r].order},
             IF requests[r].status = "revoked" THEN None ELSE "revoked")

RevokeSession(s) ==
  /\ sessions[s].state = "open"
  /\ sessions' = [sessions EXCEPT ![s].state = "revoked"]
  /\ UNCHANGED <<orders, requests>>

\* The admin revokes the sessions of an order and leaves its row alone.
RevokeOrderSessions(r, o) ==
  /\ requests[r].pc = "idle"
  /\ Collect(r, {o}, {}, None)

----------------------------------------------------------------------------
(* The admin's renewal controls, under the row lock.                       *)

\* Faulty variant: an order that lapsed unnoticed is simply extended.
EndsAccess_LapseMissed(o, t) == orders[o].status = "active" /\ t <= now

\* The new expiration t leaves an active order expired: the order had already
\* lapsed, or t is in the past.
EndsAccess(o, t) ==
  /\ orders[o].status = "active"
  /\ orders[o].expires_at <= now \/ t <= now

MoveExpiration(o, t) ==
  /\ ~Locked(o)
  /\ orders[o].status # "revoked"
  /\ t > purchased_at
  /\ t <= now + MaxExtension
  /\ orders' = [orders EXCEPT
                  ![o].status = IF EndsAccess(o, t) THEN "expired" ELSE @,
                  ![o].expires_at = t]
  /\ sessions' = [s \in Sessions |->
                    IF EndsAccess(o, t) /\ s \in OpenSessions({o})
                    THEN [sessions[s] EXCEPT !.state = "revoked"]
                    ELSE sessions[s]]
  /\ UNCHANGED requests

SetExpiration(o) == \E t \in 0 .. now + MaxExtension + 1 : MoveExpiration(o, t)

ExtendExpiration(o, d) ==
  LET base == IF orders[o].expires_at >= now THEN orders[o].expires_at ELSE now
  IN /\ base < now + MaxExtension
     /\ MoveExpiration(o, base + d)

\* Faulty variant: any inactive order may be reactivated.
MayReactivate_Any(o) == orders[o].status # "active" /\ orders[o].expires_at > now

MayReactivate(o) == orders[o].status = "expired" /\ orders[o].expires_at > now

Reactivate(o) ==
  /\ ~Locked(o)
  /\ MayReactivate(o)
  /\ orders' = [orders EXCEPT ![o].status = "active"]
  /\ UNCHANGED <<sessions, requests>>

----------------------------------------------------------------------------

\* cleanup_operational_data removes sessions that expired long ago.
Cleanup ==
  /\ sessions' = [s \in Sessions |->
                    IF /\ sessions[s].state # "absent"
                       /\ sessions[s].expires_at + Retention < now
                    THEN [NoSession EXCEPT !.state = "deleted"]
                    ELSE sessions[s]]
  /\ UNCHANGED <<orders, requests>>

\* A worker is killed between two transactions of a request.
Abort(r) ==
  /\ requests[r].pc # "idle"
  /\ Return(r)
  /\ UNCHANGED <<orders, sessions>>

Tick ==
  /\ now < Horizon
  /\ now' = now + 1
  /\ UNCHANGED <<orders, sessions, requests>>

Request(r) ==
  \/ \E o \in Orders, a \in Addresses : UnlockLookup(r, o, a)
  \/ UnlockVerify(r)
  \/ UnlockReload(r)
  \/ \E s \in Sessions : UnlockInsert(r, s)
  \/ \E s \in Sessions : CodeSession(r, s)
  \/ CodeOrder(r)
  \/ CodeEnsure(r)
  \/ CodeServed(r)
  \/ \E o \in Orders : DetailRead(r, o)
  \/ DetailEnsure(r)
  \/ ExpireDueRead(r)
  \/ ExpireDueWrite(r)
  \/ \E o \in Orders : RevokeRead(r, o)
  \/ RevokeWrite(r)
  \/ \E o \in Orders : RevokeOrderSessions(r, o)
  \/ Commit(r)
  \/ Abort(r)

Renewal(o) ==
  \/ SetExpiration(o)
  \/ \E d \in 1 .. MaxExtension : ExtendExpiration(o, d)
  \/ Reactivate(o)

Upkeep ==
  \/ \E s \in Sessions : RevokeSession(s)
  \/ Cleanup

Live(o) == orders[o].status = "active" /\ now < orders[o].expires_at

Reactivated(o) == orders[o].status = "expired" /\ orders'[o].status = "active"

\* The history variables follow every step; no handler reads them.
History ==
  /\ dead' = [o \in Orders |-> \/ ~Live(o)'
                               \/ dead[o] /\ ~Reactivated(o)]
  /\ doomed' = {r \in Requests :
                  /\ requests'[r].order \in Orders
                  /\ IF requests[r].pc = "idle"
                     THEN dead[requests'[r].order]
                     ELSE r \in doomed /\ ~Reactivated(requests'[r].order)}
  /\ late' = {s \in Sessions :
                /\ sessions'[s].state # "absent"
                /\ IF sessions[s].state = "absent"
                   THEN \/ orders[sessions'[s].order].status # "active"
                        \/ Locked(sessions'[s].order)
                   ELSE s \in late}
  /\ withdrawn' = withdrawn \cup {o \in Orders : orders'[o].status = "revoked"}

Next ==
  /\ \/ /\ \/ \E r \in Requests : Request(r)
           \/ \E o \in Orders : Renewal(o)
           \/ Upkeep
        /\ UNCHANGED now
     \/ Tick
  /\ History

Spec == Init /\ [][Next]_vars

----------------------------------------------------------------------------
(* Properties.                                                             *)

\* The type of the state.
TypeOK ==
  /\ now \in 0 .. Horizon
  /\ orders \in [Orders -> [status : OrderStatus, expires_at : Nat]]
  /\ sessions \in [Sessions -> [state : SessionState, order : Orders \cup {None},
                                address : Addresses \cup {None},
                                expires_at : Nat]]
  /\ requests \in [Requests -> [pc : PC, order : Orders \cup {None},
                                status : OrderStatus, expires_at : Nat,
                                address : Addresses \cup {None},
                                due : SUBSET Orders,
                                to : OrderStatus \cup {None},
                                marked : SUBSET Sessions]]
  /\ dead \in [Orders -> BOOLEAN]
  /\ doomed \subseteq Requests
  /\ late \subseteq Sessions
  /\ withdrawn \subseteq Orders

\* An order that lapsed or was ended gives no access until an administrator
\* reactivates it: a request that began after that gets neither a session nor
\* a code, however its reads interleave with expiry, extension and revocation
\* by others (ensure_order_state, update_order_expiration; the portal's promise
\* that revoking an order stops future codes).
NoAccessOnceDead ==
  \A r \in doomed : requests[r].pc \notin {"reload", "insert", "served"}

\* Ending an order leaves no session open: a session of an order that is not
\* active is revoked, unless it was inserted after the transaction that ended
\* the order had listed the sessions (revoke_buyer_sessions in every handler
\* that changes the status).
NoSurvivor ==
  \A s \in Sessions :
    /\ sessions[s].state = "open"
    /\ orders[sessions[s].order].status # "active"
    => s \in late

\* A revocation is undone by nothing but an expiry in flight: the only step
\* that takes an order out of "revoked" is the commit of a request that had
\* read it as active, and it leaves the order expired, never active
\* (revoke_order against ensure_order_state, expire_due_orders,
\* update_order_expiration and reactivate_order).
RevokedLeavesOnlyByStaleExpiry ==
  [][\A o \in Orders :
       orders[o].status = "revoked" /\ orders'[o].status # "revoked"
       => /\ orders'[o].status = "expired"
          /\ \E r \in Requests : /\ requests[r].pc = "commit"
                                 /\ requests[r].to = "expired"
                                 /\ o \in requests[r].due]_vars

Inserting(o) == {r \in Requests : requests[r].pc = "insert" /\ requests[r].order = o}

InsertingAddresses(o) == {requests[r].address : r \in Inserting(o)}

\* The limits are tested in one transaction and the session is inserted in the
\* next, so they can be exceeded, but by no more than the other unlocks that
\* run at the same time (create_buyer_session, MAX_ACTIVE_SESSIONS_PER_ORDER
\* and MAX_DISTINCT_IPS_PER_ORDER).
BoundedOvershoot ==
  \A o \in Orders :
    /\ MaxSessions > 0 =>
         Cardinality(ActiveSessions(o)) + Cardinality(Inserting(o))
           <= MaxSessions + Cardinality(Requests) - 1
    /\ MaxAddresses > 0 =>
         Cardinality(ActiveAddresses(o) \cup InsertingAddresses(o))
           <= MaxAddresses + Cardinality(Requests) - 1

\* What .env.example says of MAX_ACTIVE_SESSIONS_PER_ORDER ("Zero means
\* unlimited. Set positive values only if desired.") and create_buyer_session
\* ("This order has reached its active-session limit."): a positive limit is
\* never exceeded.
SessionLimit ==
  MaxSessions > 0 =>
    \A o \in Orders : Cardinality(ActiveSessions(o)) <= MaxSessions

\* What README.md says of the renewal controls: "Cancelled, refunded, or
\* manually revoked orders cannot be renewed through these controls."
NeverRenewed == \A o \in withdrawn : orders[o].status # "active"
=============================================================================
