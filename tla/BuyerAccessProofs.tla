------------------------- MODULE BuyerAccessProofs -------------------------
(***************************************************************************)
(* Proofs about BuyerAccess and Renewal, for any number of orders,         *)
(* sessions, requests and addresses and any limits.  The last part shows,  *)
(* on top of the inductive invariant of BuyerAccess, that no order is cut  *)
(* short by an expiry that read it after its expiration was last moved.    *)
(***************************************************************************)
EXTENDS Renewal, FiniteSetTheorems, TLAPS

\* The steps of the system, without the history variables.
SystemNext ==
  \/ \E r \in Requests : Request(r) /\ UNCHANGED now
  \/ \E o \in Orders : Renewal(o) /\ UNCHANGED now
  \/ Upkeep /\ UNCHANGED now
  \/ Tick

\* A step is a step of the system together with the step of the history.
LEMMA NextSplits == Next <=> SystemNext /\ History
  BY DEF Next, SystemNext

----------------------------------------------------------------------------
(* Type correctness.                                                       *)

RequestType == [pc : PC, order : Orders \cup {None}, status : OrderStatus,
                expires_at : Nat, address : Addresses \cup {None},
                due : SUBSET Orders, to : OrderStatus \cup {None},
                marked : SUBSET Sessions]

SessionType == [state : SessionState, order : Orders \cup {None},
                address : Addresses \cup {None}, expires_at : Nat]

OrderType == [status : OrderStatus, expires_at : Nat]

\* The state of the system, without the history variables, has its type.
SystemTypeOK ==
  /\ now \in 0 .. Horizon
  /\ orders \in [Orders -> OrderType]
  /\ sessions \in [Sessions -> SessionType]
  /\ requests \in [Requests -> RequestType]

\* The record of an idle request has the type of a request.
LEMMA IdleType == Idle \in RequestType
  BY DEF Idle, RequestType, PC, OrderStatus

\* An unused session row has the type of a session.
LEMMA NoSessionType == NoSession \in SessionType
  BY DEF NoSession, SessionType, SessionState

\* A request that lists sessions and writes a known status keeps its type.
LEMMA CollectType ==
  ASSUME SystemTypeOK, NEW r \in Requests, NEW S, NEW L \in SUBSET Orders,
         NEW to \in OrderStatus \cup {None}, Collect(r, S, L, to)
  PROVE  requests' \in [Requests -> RequestType] /\ UNCHANGED <<orders, sessions>>
<1> DEFINE new == [Idle EXCEPT !.pc = "commit", !.order = requests[r].order,
                               !.due = L, !.to = to, !.marked = OpenSessions(S)]
<1>1. requests[r].order \in Orders \cup {None}
  BY DEF SystemTypeOK, RequestType
<1>2. OpenSessions(S) \in SUBSET Sessions
  BY DEF OpenSessions
<1>3. new \in RequestType
  BY <1>1, <1>2, IdleType DEF RequestType, PC
<1>4. requests' = [requests EXCEPT ![r] = new] /\ UNCHANGED <<orders, sessions>>
  BY DEF Collect
<1> QED BY <1>3, <1>4 DEF SystemTypeOK

\* A request that returns keeps the type of the requests.
LEMMA ReturnType ==
  ASSUME SystemTypeOK, NEW r \in Requests, Return(r)
  PROVE  requests' \in [Requests -> RequestType]
  BY IdleType DEF Return, SystemTypeOK

\* The copy a request reads of an order has the type of the row.
LEMMA ReadOrderType ==
  ASSUME SystemTypeOK, NEW r \in Requests, NEW o \in Orders, NEW pc \in PC,
         ReadOrder(r, o, pc)
  PROVE  requests' \in [Requests -> RequestType]
<1>1. orders[o].status \in OrderStatus /\ orders[o].expires_at \in Nat
  BY DEF SystemTypeOK, OrderType
<1> DEFINE new == [requests[r] EXCEPT !.pc = pc, !.order = o,
                                      !.status = orders[o].status,
                                      !.expires_at = orders[o].expires_at]
<1>2. new \in RequestType
  BY <1>1 DEF SystemTypeOK, RequestType
<1>3. requests' = [requests EXCEPT ![r] = new]
  BY DEF ReadOrder, SystemTypeOK, RequestType
<1> QED BY <1>2, <1>3 DEF SystemTypeOK

\* ensure_order_state keeps the type of the state.
LEMMA EnsureType ==
  ASSUME SystemTypeOK, NEW r \in Requests, NEW next \in PC,
         requests[r].order \in Orders, EnsureOrderState(r, next)
  PROVE  requests' \in [Requests -> RequestType] /\ UNCHANGED <<orders, sessions>>
<1>1. CASE Lapsed(r) /\ Collect(r, {requests[r].order}, {requests[r].order}, "expired")
  BY <1>1, CollectType DEF OrderStatus
<1>2. CASE ~Lapsed(r)
  <2> DEFINE on == [Idle EXCEPT !.pc = next, !.order = requests[r].order,
                                !.address = requests[r].address]
  <2>1. requests[r].address \in Addresses \cup {None}
    BY DEF SystemTypeOK, RequestType
  <2>2. on \in RequestType
    BY <2>1, IdleType DEF RequestType
  <2>3. /\ requests' = [requests EXCEPT ![r] = IF Usable(r) /\ next # "idle"
                                                THEN on ELSE Idle]
        /\ UNCHANGED <<orders, sessions>>
    BY <1>2 DEF EnsureOrderState
  <2> QED BY <2>2, <2>3, IdleType DEF SystemTypeOK
<1> QED BY <1>1, <1>2 DEF EnsureOrderState

\* A request has an order wherever its order is used, and writes no "active";
\* an open session has one.
Placed ==
  /\ \A r \in Requests :
       /\ requests[r].pc \in {"verify", "reload", "insert", "order", "ensure",
                             "served", "detail", "revoke"} => requests[r].order \in Orders
       /\ requests[r].pc = "idle" => requests[r] = Idle
       /\ requests[r].to # "active"
  /\ \A s \in Sessions :
       sessions[s].state = "open" => sessions[s].order \in Orders

\* The initial states have their type.
LEMMA TypeInit == Init => SystemTypeOK /\ Placed
<1> SUFFICES ASSUME Init PROVE SystemTypeOK /\ Placed
  OBVIOUS
<1>1. now \in 0 .. Horizon
  BY AccessAssumption DEF Init
<1>2. orders \in [Orders -> OrderType]
  BY AccessAssumption DEF Init, OrderType, OrderStatus
<1>3. sessions \in [Sessions -> SessionType] /\ requests \in [Requests -> RequestType]
  BY IdleType, NoSessionType DEF Init
<1>4. Placed
  <2>1. \A r \in Requests : requests[r] = Idle
    BY DEF Init
  <2>2. \A s \in Sessions : sessions[s].state = "absent"
    BY DEF Init, NoSession
  <2>3. Idle.pc = "idle" /\ Idle.to # "active"
    BY AccessAssumption DEF Idle, OrderStatus
  <2> QED BY <2>1, <2>2, <2>3 DEF Placed
<1> QED BY <1>1, <1>2, <1>3, <1>4 DEF SystemTypeOK

\* A commit keeps the type of the rows and the sessions it writes.
LEMMA CommitType ==
  ASSUME SystemTypeOK, NEW r \in Requests, Commit(r)
  PROVE  /\ orders' \in [Orders -> OrderType]
         /\ sessions' \in [Sessions -> SessionType]
         /\ requests' \in [Requests -> RequestType]
<1>1. requests[r].to \in OrderStatus \cup {None}
  BY DEF SystemTypeOK, RequestType
<1>2. orders' \in [Orders -> OrderType]
  BY <1>1 DEF Commit, SystemTypeOK, OrderType
<1>3. sessions' \in [Sessions -> SessionType]
  BY DEF Commit, SystemTypeOK, SessionType, SessionState
<1>4. Return(r)
  BY DEF Commit
<1> QED BY <1>2, <1>3, <1>4, ReturnType

\* No step of a request leaves the types.
LEMMA RequestTypePreserved ==
  ASSUME SystemTypeOK, Placed, NEW r \in Requests, Request(r)
  PROVE  /\ orders' \in [Orders -> OrderType]
         /\ sessions' \in [Sessions -> SessionType]
         /\ requests' \in [Requests -> RequestType]
<1>0. /\ requests[r] \in RequestType
      /\ \A o \in Orders : orders[o] \in OrderType
      /\ \A s \in Sessions : sessions[s] \in SessionType
  BY DEF SystemTypeOK
<1>t. /\ orders \in [Orders -> OrderType]
      /\ sessions \in [Sessions -> SessionType]
      /\ requests \in [Requests -> RequestType]
  BY DEF SystemTypeOK
<1>1. ASSUME NEW o \in Orders, NEW a \in Addresses, UnlockLookup(r, o, a)
      PROVE  requests' \in [Requests -> RequestType] /\ UNCHANGED <<orders, sessions>>
  BY <1>0, <1>1, <1>t DEF UnlockLookup, RequestType, OrderType, Idle, PC, OrderStatus
<1>2. ASSUME UnlockVerify(r)
      PROVE  requests' \in [Requests -> RequestType] /\ UNCHANGED <<orders, sessions>>
  BY <1>2, EnsureType DEF UnlockVerify, Placed, PC
<1>3. ASSUME UnlockReload(r)
      PROVE  requests' \in [Requests -> RequestType] /\ UNCHANGED <<orders, sessions>>
  <2>1. requests[r].order \in Orders
    BY <1>3 DEF UnlockReload, Placed
  <2>2. now + SessionLifetime \in Nat
    BY AccessAssumption DEF SystemTypeOK
  <2>3. CASE WithinLimits(requests[r].order, requests[r].address)
    BY <1>0, <1>3, <1>t, <2>1, <2>2, <2>3 DEF UnlockReload, RequestType, OrderType, PC
  <2>4. CASE ~WithinLimits(requests[r].order, requests[r].address)
    BY <1>3, <2>4, ReturnType DEF UnlockReload
  <2> QED BY <2>3, <2>4
<1>4. ASSUME NEW s \in Sessions, UnlockInsert(r, s)
      PROVE  /\ requests' \in [Requests -> RequestType]
             /\ sessions' \in [Sessions -> SessionType]
             /\ UNCHANGED orders
  <2>1. sessions' \in [Sessions -> SessionType] /\ Return(r)
    BY <1>0, <1>4, <1>t DEF UnlockInsert, RequestType, SessionType, SessionState
  <2> QED BY <1>4, <2>1, ReturnType DEF UnlockInsert
<1>5. ASSUME NEW s \in Sessions, CodeSession(r, s)
      PROVE  /\ requests' \in [Requests -> RequestType]
             /\ sessions' \in [Sessions -> SessionType]
             /\ UNCHANGED orders
  <2>1. CASE now >= sessions[s].expires_at
    BY <1>0, <1>5, <1>t, <2>1 DEF CodeSession, SessionType, SessionState
  <2>2. CASE ~(now >= sessions[s].expires_at)
    <3>1. [Idle EXCEPT !.pc = "order", !.order = sessions[s].order] \in RequestType
      BY <1>0, IdleType DEF RequestType, SessionType, PC
    <3> QED BY <1>5, <1>t, <2>2, <3>1 DEF CodeSession
  <2> QED BY <2>1, <2>2
<1>6. ASSUME CodeOrder(r)
      PROVE  requests' \in [Requests -> RequestType] /\ UNCHANGED <<orders, sessions>>
  BY <1>6, ReadOrderType DEF CodeOrder, Placed, PC
<1>7. ASSUME CodeEnsure(r)
      PROVE  requests' \in [Requests -> RequestType] /\ UNCHANGED <<orders, sessions>>
  BY <1>7, EnsureType DEF CodeEnsure, Placed, PC
<1>8. ASSUME CodeServed(r) \/ Abort(r)
      PROVE  requests' \in [Requests -> RequestType] /\ UNCHANGED <<orders, sessions>>
  BY <1>8, ReturnType DEF CodeServed, Abort
<1>9. ASSUME NEW o \in Orders, DetailRead(r, o) \/ RevokeRead(r, o)
      PROVE  requests' \in [Requests -> RequestType] /\ UNCHANGED <<orders, sessions>>
  BY <1>9, ReadOrderType DEF DetailRead, RevokeRead, PC
<1>10. ASSUME DetailEnsure(r)
       PROVE  requests' \in [Requests -> RequestType] /\ UNCHANGED <<orders, sessions>>
  BY <1>10, EnsureType DEF DetailEnsure, Placed, PC
<1>11. ASSUME ExpireDueRead(r)
       PROVE  requests' \in [Requests -> RequestType] /\ UNCHANGED <<orders, sessions>>
  <2> DEFINE due == {o \in Orders : orders[o].status = "active"
                                     /\ orders[o].expires_at <= now}
  <2>1. [Idle EXCEPT !.pc = "expire", !.due = due] \in RequestType
    BY IdleType DEF RequestType, PC
  <2> QED BY <1>11, <1>t, <2>1 DEF ExpireDueRead
<1>12. ASSUME ExpireDueWrite(r)
       PROVE  requests' \in [Requests -> RequestType] /\ UNCHANGED <<orders, sessions>>
  BY <1>0, <1>12, CollectType DEF ExpireDueWrite, RequestType, OrderStatus
<1>13. ASSUME RevokeWrite(r)
       PROVE  requests' \in [Requests -> RequestType] /\ UNCHANGED <<orders, sessions>>
  BY <1>13, CollectType DEF RevokeWrite, Placed, OrderStatus
<1>14. ASSUME NEW o \in Orders, RevokeOrderSessions(r, o)
       PROVE  requests' \in [Requests -> RequestType] /\ UNCHANGED <<orders, sessions>>
  BY <1>14, CollectType DEF RevokeOrderSessions
<1> QED
  BY <1>t, <1>1, <1>2, <1>3, <1>4, <1>5, <1>6, <1>7, <1>8, <1>9, <1>10, <1>11,
     <1>12, <1>13, <1>14, CommitType DEF Request

\* No renewal leaves the types.
LEMMA RenewalType ==
  ASSUME SystemTypeOK, NEW o \in Orders, Renewal(o)
  PROVE  /\ orders' \in [Orders -> OrderType]
         /\ sessions' \in [Sessions -> SessionType]
         /\ UNCHANGED requests
<1>1. ASSUME NEW t \in Nat, MoveExpiration(o, t)
      PROVE  /\ orders' \in [Orders -> OrderType]
             /\ sessions' \in [Sessions -> SessionType]
             /\ UNCHANGED requests
  <2> DEFINE row == [orders[o] EXCEPT
                       !.status = IF EndsAccess(o, t) THEN "expired" ELSE @,
                       !.expires_at = t]
  <2>1. orders' = [orders EXCEPT ![o] = row]
    BY <1>1 DEF MoveExpiration, SystemTypeOK, OrderType
  <2>2. row \in OrderType
    BY DEF SystemTypeOK, OrderType, OrderStatus
  <2>3. orders' \in [Orders -> OrderType]
    BY <2>1, <2>2 DEF SystemTypeOK
  <2>4. sessions' \in [Sessions -> SessionType]
    BY <1>1 DEF MoveExpiration, SystemTypeOK, SessionType, SessionState
  <2> QED BY <1>1, <2>3, <2>4 DEF MoveExpiration
<1>2. CASE SetExpiration(o)
  <2>1. PICK t \in 0 .. now + MaxExtension + 1 : MoveExpiration(o, t)
    BY <1>2 DEF SetExpiration
  <2>2. t \in Nat
    BY AccessAssumption DEF SystemTypeOK
  <2> QED BY <1>1, <2>1, <2>2
<1>3. ASSUME NEW d \in 1 .. MaxExtension, ExtendExpiration(o, d)
      PROVE  /\ orders' \in [Orders -> OrderType]
             /\ sessions' \in [Sessions -> SessionType]
             /\ UNCHANGED requests
  <2> DEFINE base == IF orders[o].expires_at >= now THEN orders[o].expires_at ELSE now
  <2>1. base + d \in Nat
    BY AccessAssumption DEF SystemTypeOK, OrderType
  <2>2. MoveExpiration(o, base + d)
    BY <1>3 DEF ExtendExpiration
  <2> QED BY <1>1, <2>1, <2>2
<1>4. CASE Reactivate(o)
  BY <1>4 DEF Reactivate, SystemTypeOK, OrderType, OrderStatus
<1> QED BY <1>2, <1>3, <1>4 DEF Renewal

\* Neither the revocation of a session nor the clean-up leaves the types.
LEMMA UpkeepType ==
  ASSUME SystemTypeOK, Upkeep
  PROVE  sessions' \in [Sessions -> SessionType] /\ UNCHANGED <<orders, requests>>
<1>1. ASSUME NEW s \in Sessions, RevokeSession(s)
      PROVE  sessions' \in [Sessions -> SessionType] /\ UNCHANGED <<orders, requests>>
  BY <1>1 DEF RevokeSession, SystemTypeOK, SessionType, SessionState
<1>2. CASE Cleanup
  <2>1. [NoSession EXCEPT !.state = "deleted"] \in SessionType
    BY NoSessionType DEF SessionType, SessionState
  <2> QED BY <1>2, <2>1 DEF Cleanup, SystemTypeOK
<1> QED BY <1>1, <1>2 DEF Upkeep

\* No step of the system leaves the types.
LEMMA SystemTypePreserved ==
  ASSUME SystemTypeOK, Placed, SystemNext
  PROVE  SystemTypeOK'
<1>1. CASE \E r \in Requests : Request(r) /\ UNCHANGED now
  BY <1>1, RequestTypePreserved DEF SystemTypeOK
<1>2. CASE \E o \in Orders : Renewal(o) /\ UNCHANGED now
  BY <1>2, RenewalType DEF SystemTypeOK
<1>3. CASE Upkeep /\ UNCHANGED now
  BY <1>3, UpkeepType DEF SystemTypeOK
<1>4. CASE Tick
  BY <1>4, AccessAssumption DEF Tick, SystemTypeOK
<1> QED BY <1>1, <1>2, <1>3, <1>4 DEF SystemNext

----------------------------------------------------------------------------
(* How a request moves.  Each step of a request changes its own record in  *)
(* one of these ways; the invariants below look at nothing else of it.     *)

Copied(r) ==
  LET o == requests'[r].order IN
  /\ o \in Orders
  /\ requests'[r].status = orders[o].status
  /\ requests'[r].expires_at = orders[o].expires_at

\* It starts with a copy of an order's row, or with a session of the order.
Starts(r) ==
  /\ requests[r].pc = "idle"
  /\ \/ requests'[r].pc \in {"verify", "detail", "revoke"} /\ Copied(r)
     \/ requests'[r].pc = "order" /\ requests'[r].order \in Orders
     \/ requests'[r].pc = "expire" /\ requests'[r].order = None
  /\ requests'[r].to = None

\* It goes on with the order it has; access is gained only from a usable copy.
GoesOn(r) ==
  /\ requests'[r].order = requests[r].order
  /\ requests[r].order \in Orders
  /\ requests'[r].to # "active"
  /\ \/ requests[r].pc = "order" /\ requests'[r].pc = "ensure" /\ Copied(r)
     \/ requests[r].pc = "verify" /\ requests'[r].pc = "reload" /\ Usable(r)
     \/ requests[r].pc = "ensure" /\ requests'[r].pc = "served" /\ Usable(r)
     \/ requests[r].pc = "reload" /\ requests'[r].pc = "insert"

\* It lists the sessions to revoke.
Collects(r) ==
  /\ requests'[r].pc = "commit"
  /\ requests'[r].order = requests[r].order
  /\ requests'[r].to # "active"
  /\ requests'[r].due # {} => requests'[r].marked = OpenSessions(requests'[r].due)

Moves(r) ==
  /\ \A q \in Requests \ {r} : requests'[q] = requests[q]
  /\ \/ requests'[r] = requests[r]
     \/ requests'[r] = Idle
     \/ Starts(r)
     \/ GoesOn(r)
     \/ Collects(r)

\* Collect is a move of its request to the commit.
LEMMA CollectMoves ==
  ASSUME SystemTypeOK, NEW r \in Requests, NEW S, NEW L \in SUBSET Orders,
         NEW to \in OrderStatus \cup {None}, to # "active",
         L = S \/ L = {}, Collect(r, S, L, to)
  PROVE  Moves(r)
<1> DEFINE new == [Idle EXCEPT !.pc = "commit", !.order = requests[r].order,
                               !.due = L, !.to = to, !.marked = OpenSessions(S)]
<1>1. requests' = [requests EXCEPT ![r] = new]
  BY DEF Collect
<1>2. requests'[r] = new /\ \A q \in Requests \ {r} : requests'[q] = requests[q]
  BY <1>1 DEF SystemTypeOK
<1>3. /\ new.pc = "commit"
      /\ new.order = requests[r].order
      /\ new.due = L
      /\ new.to = to
      /\ new.marked = OpenSessions(S)
  BY DEF Idle
<1> QED BY <1>2, <1>3 DEF Moves, Collects

\* A return is a move of its request.
LEMMA ReturnMoves ==
  ASSUME SystemTypeOK, NEW r \in Requests, Return(r)
  PROVE  Moves(r)
  BY DEF Return, Moves, SystemTypeOK

\* Reading an order is a move of its request, with a true copy.
LEMMA ReadMoves ==
  ASSUME SystemTypeOK, Placed, NEW r \in Requests, NEW o \in Orders,
         NEW pc \in PC, ReadOrder(r, o, pc)
  PROVE  /\ \A q \in Requests \ {r} : requests'[q] = requests[q]
         /\ requests'[r].pc = pc
         /\ requests'[r].order = o
         /\ requests'[r].to = requests[r].to
         /\ Copied(r)
<1> DEFINE new == [requests[r] EXCEPT !.pc = pc, !.order = o,
                                      !.status = orders[o].status,
                                      !.expires_at = orders[o].expires_at]
<1>1. requests' = [requests EXCEPT ![r] = new]
  BY DEF ReadOrder, SystemTypeOK, RequestType
<1>2. requests'[r] = new /\ \A q \in Requests \ {r} : requests'[q] = requests[q]
  BY <1>1 DEF SystemTypeOK
<1>3. requests[r] \in RequestType
  BY DEF SystemTypeOK
<1>4. /\ new.pc = pc /\ new.order = o /\ new.to = requests[r].to
      /\ new.status = orders[o].status
      /\ new.expires_at = orders[o].expires_at
  BY <1>3 DEF RequestType
<1> QED BY <1>2, <1>4 DEF Copied

\* ensure_order_state goes on only with a usable copy.
LEMMA EnsureMoves ==
  ASSUME SystemTypeOK, NEW r \in Requests, NEW next \in PC,
         requests[r].order \in Orders, EnsureOrderState(r, next),
         \/ next = "idle"
         \/ requests[r].pc = "verify" /\ next = "reload"
         \/ requests[r].pc = "ensure" /\ next = "served"
  PROVE  Moves(r)
<1>1. CASE Lapsed(r) /\ Collect(r, {requests[r].order}, {requests[r].order}, "expired")
  BY <1>1, CollectMoves DEF OrderStatus
<1>2. CASE ~Lapsed(r)
  <2> DEFINE on == [Idle EXCEPT !.pc = next, !.order = requests[r].order,
                                !.address = requests[r].address]
  <2>1. requests' = [requests EXCEPT ![r] = IF Usable(r) /\ next # "idle"
                                             THEN on ELSE Idle]
    BY <1>2 DEF EnsureOrderState
  <2>2. /\ requests'[r] = IF Usable(r) /\ next # "idle" THEN on ELSE Idle
        /\ \A q \in Requests \ {r} : requests'[q] = requests[q]
    BY <2>1 DEF SystemTypeOK
  <2>3. on.pc = next /\ on.order = requests[r].order /\ on.to # "active"
    BY AccessAssumption DEF Idle, OrderStatus
  <2> QED BY <2>2, <2>3 DEF Moves, GoesOn
<1> QED BY <1>1, <1>2 DEF EnsureOrderState

\* Every step of a request moves it in one of the ways above.
LEMMA RequestMoves ==
  ASSUME SystemTypeOK, Placed, NEW r \in Requests, Request(r)
  PROVE  Moves(r)
<1>0. /\ requests \in [Requests -> RequestType]
      /\ requests[r] \in RequestType
      /\ requests[r].pc = "idle" => requests[r] = Idle
      /\ requests[r].to # "active"
  BY DEF SystemTypeOK, Placed
<1>1. ASSUME NEW o \in Orders, NEW a \in Addresses, UnlockLookup(r, o, a)
      PROVE  Moves(r)
  <2> DEFINE new == [Idle EXCEPT !.pc = "verify", !.order = o, !.address = a,
                                 !.status = orders[o].status,
                                 !.expires_at = orders[o].expires_at]
  <2>1. requests'[r] = new /\ \A q \in Requests \ {r} : requests'[q] = requests[q]
    BY <1>0, <1>1 DEF UnlockLookup
  <2>2. /\ new.pc = "verify" /\ new.order = o /\ new.to = None
        /\ new.status = orders[o].status
        /\ new.expires_at = orders[o].expires_at
    BY DEF Idle
  <2> QED BY <1>1, <2>1, <2>2 DEF Moves, Starts, Copied, UnlockLookup
<1>2. CASE UnlockVerify(r)
  BY <1>2, EnsureMoves DEF UnlockVerify, Placed, PC
<1>3. CASE UnlockReload(r)
  <2>1. CASE WithinLimits(requests[r].order, requests[r].address)
    BY <1>0, <1>3, <2>1 DEF UnlockReload, Placed, Moves, GoesOn, RequestType
  <2>2. CASE ~WithinLimits(requests[r].order, requests[r].address)
    BY <1>3, <2>2, ReturnMoves DEF UnlockReload
  <2> QED BY <2>1, <2>2
<1>4. ASSUME NEW s \in Sessions, UnlockInsert(r, s) PROVE Moves(r)
  BY <1>4, ReturnMoves DEF UnlockInsert
<1>5. ASSUME NEW s \in Sessions, CodeSession(r, s) PROVE Moves(r)
  <2>1. CASE now >= sessions[s].expires_at
    BY <1>5, <2>1 DEF CodeSession, Moves
  <2>2. CASE ~(now >= sessions[s].expires_at)
    <3> DEFINE new == [Idle EXCEPT !.pc = "order", !.order = sessions[s].order]
    <3>1. requests'[r] = new /\ \A q \in Requests \ {r} : requests'[q] = requests[q]
      BY <1>0, <1>5, <2>2 DEF CodeSession
    <3>2. new.pc = "order" /\ new.order = sessions[s].order /\ new.to = None
      BY DEF Idle
    <3>3. sessions[s].order \in Orders /\ requests[r].pc = "idle"
      BY <1>5 DEF CodeSession, Placed
    <3> QED BY <3>1, <3>2, <3>3 DEF Moves, Starts
  <2> QED BY <2>1, <2>2
<1>6. CASE CodeOrder(r)
  BY <1>0, <1>6, ReadMoves DEF CodeOrder, Placed, PC, Moves, GoesOn
<1>7. CASE CodeEnsure(r)
  BY <1>7, EnsureMoves DEF CodeEnsure, Placed, PC
<1>8. CASE CodeServed(r) \/ Abort(r) \/ Commit(r)
  BY <1>8, ReturnMoves DEF CodeServed, Abort, Commit
<1>9. ASSUME NEW o \in Orders, DetailRead(r, o) \/ RevokeRead(r, o)
      PROVE  Moves(r)
  <2>1. requests[r].pc = "idle" /\ requests[r].to = None
    BY <1>0, <1>9 DEF DetailRead, RevokeRead, Idle
  <2>2. CASE DetailRead(r, o)
    BY <2>1, <2>2, ReadMoves DEF DetailRead, PC, Moves, Starts
  <2>3. CASE RevokeRead(r, o)
    BY <2>1, <2>3, ReadMoves DEF RevokeRead, PC, Moves, Starts
  <2> QED BY <1>9, <2>2, <2>3
<1>10. CASE DetailEnsure(r)
  BY <1>10, EnsureMoves DEF DetailEnsure, Placed, PC
<1>11. CASE ExpireDueRead(r)
  <2> DEFINE due == {o \in Orders : orders[o].status = "active"
                                     /\ orders[o].expires_at <= now}
             new == [Idle EXCEPT !.pc = "expire", !.due = due]
  <2>1. requests'[r] = new /\ \A q \in Requests \ {r} : requests'[q] = requests[q]
    BY <1>0, <1>11 DEF ExpireDueRead
  <2>2. new.pc = "expire" /\ new.order = None /\ new.to = None
    BY DEF Idle
  <2> QED BY <1>11, <2>1, <2>2 DEF Moves, Starts, ExpireDueRead
<1>12. CASE ExpireDueWrite(r)
  BY <1>0, <1>12, CollectMoves DEF ExpireDueWrite, RequestType, OrderStatus
<1>13. CASE RevokeWrite(r)
  <2>1. (IF requests[r].status = "revoked" THEN None ELSE "revoked")
          \in (OrderStatus \cup {None}) \ {"active"}
    BY AccessAssumption DEF OrderStatus
  <2> QED BY <1>13, <2>1, CollectMoves DEF RevokeWrite, Placed
<1>14. ASSUME NEW o \in Orders, RevokeOrderSessions(r, o) PROVE Moves(r)
  BY <1>14, CollectMoves, AccessAssumption DEF RevokeOrderSessions, OrderStatus
<1> QED
  BY <1>1, <1>2, <1>3, <1>4, <1>5, <1>6, <1>7, <1>8, <1>9, <1>10, <1>11, <1>12,
     <1>13, <1>14 DEF Request

\* Every step of the system moves each request so, or leaves it alone.
LEMMA RequestsStep ==
  ASSUME SystemTypeOK, Placed, SystemNext
  PROVE  \/ UNCHANGED requests
         \/ \E r \in Requests : Request(r) /\ Moves(r)
<1>1. ASSUME NEW o \in Orders, Renewal(o) PROVE UNCHANGED requests
  BY <1>1, RenewalType
<1>2. CASE Upkeep
  BY <1>2, UpkeepType
<1> QED BY <1>1, <1>2, RequestMoves DEF SystemNext, Tick

----------------------------------------------------------------------------
(* How rows and sessions change.                                           *)

\* A session that is open after a step was open before it, with the same
\* order, or is new; then nothing happens to orders and no request starts to
\* commit.
Inserted(s) ==
  /\ sessions[s].state = "absent"
  /\ sessions'[s].order \in Orders
  /\ UNCHANGED orders
  /\ \A r \in Requests :
       requests'[r].pc = "commit" => requests'[r] = requests[r]

\* Where an open session comes from, with the request that opened it.
LEMMA OpenedBy ==
  ASSUME SystemTypeOK, SystemNext, NEW s \in Sessions, sessions'[s].state = "open"
  PROVE  \/ sessions'[s] = sessions[s]
         \/ \E r \in Requests : UnlockInsert(r, s) /\ UNCHANGED now
<1> DEFINE Stays == sessions'[s] = sessions[s]
<1>0. sessions \in [Sessions -> SessionType]
  BY DEF SystemTypeOK
<1>1. ASSUME NEW r \in Requests, Request(r), UNCHANGED now
      PROVE  Stays \/ UnlockInsert(r, s)
  <2>1. ASSUME NEW q \in Sessions, UnlockInsert(r, q) PROVE Stays \/ UnlockInsert(r, s)
    <3>1. CASE q = s
      BY <2>1, <3>1
    <3>2. CASE q # s
      BY <1>0, <2>1, <3>2 DEF UnlockInsert
    <3> QED BY <3>1, <3>2
  <2>2. CASE Commit(r)
    BY <1>0, <2>2 DEF Commit, SessionType
  <2>3. ASSUME NEW q \in Sessions, CodeSession(r, q) PROVE Stays
    BY <1>0, <2>3 DEF CodeSession, SessionType
  <2>4. CASE UNCHANGED sessions
    BY <2>4
  <2>5. \/ UNCHANGED sessions
        \/ Commit(r)
        \/ \E q \in Sessions : UnlockInsert(r, q)
        \/ \E q \in Sessions : CodeSession(r, q)
    BY <1>1 DEF Request, UnlockLookup, UnlockVerify, EnsureOrderState, Collect,
                UnlockReload, CodeOrder, CodeEnsure, CodeServed, DetailRead,
                DetailEnsure, ExpireDueRead, ExpireDueWrite, RevokeRead,
                RevokeWrite, RevokeOrderSessions, Abort
  <2> QED BY <2>1, <2>2, <2>3, <2>4, <2>5
<1>2. ASSUME NEW o \in Orders, Renewal(o) PROVE Stays
  <2>1. ASSUME NEW t, MoveExpiration(o, t) PROVE Stays
    BY <1>0, <2>1 DEF MoveExpiration, SessionType
  <2>2. CASE Reactivate(o)
    BY <2>2 DEF Reactivate
  <2> QED BY <1>2, <2>1, <2>2 DEF Renewal, SetExpiration, ExtendExpiration
<1>3. CASE Upkeep
  <2>1. ASSUME NEW q \in Sessions, RevokeSession(q) PROVE Stays
    BY <1>0, <2>1 DEF RevokeSession, SessionType
  <2>2. CASE Cleanup
    BY <1>0, <2>2 DEF Cleanup, SessionType, NoSession
  <2> QED BY <1>3, <2>1, <2>2 DEF Upkeep
<1>4. CASE Tick
  BY <1>4 DEF Tick
<1> QED BY <1>1, <1>2, <1>3, <1>4 DEF SystemNext

\* What opens a session does nothing else.
LEMMA OpenSession ==
  ASSUME SystemTypeOK, Placed, SystemNext, NEW s \in Sessions,
         sessions'[s].state = "open"
  PROVE  \/ sessions[s].state = "open" /\ sessions'[s].order = sessions[s].order
         \/ Inserted(s)
<1>1. ASSUME NEW r \in Requests, UnlockInsert(r, s) PROVE Inserted(s)
  <2>1. requests' = [requests EXCEPT ![r] = Idle]
    BY <1>1 DEF UnlockInsert, Return
  <2>2. \A v \in Requests : requests'[v] = IF v = r THEN Idle ELSE requests[v]
    BY <2>1 DEF SystemTypeOK
  <2>3. requests[r].order \in Orders
    BY <1>1 DEF UnlockInsert, Placed
  <2>4. sessions'[s].order = requests[r].order
    BY <1>1 DEF UnlockInsert, SystemTypeOK
  <2> QED BY <1>1, <2>2, <2>3, <2>4 DEF UnlockInsert, Inserted, Idle
<1> QED BY <1>1, OpenedBy

\* What a step does to the row of an order.
RowKept(o) == orders'[o] = orders[o]

RowCommitted(o) ==
  \E r \in Requests :
    /\ Commit(r)
    /\ o \in requests[r].due
    /\ orders'[o].status # "active"
    /\ orders'[o].status = requests[r].to
    /\ UNCHANGED now

RowMoved(o) ==
  /\ \E t \in Nat : MoveExpiration(o, t)
  /\ orders'[o].status = IF orders[o].status = "active" /\ orders[o].expires_at <= now
                         THEN "expired"
                         ELSE IF orders[o].status = "active" /\ orders'[o].expires_at <= now
                              THEN "expired" ELSE orders[o].status
  /\ UNCHANGED now

RowReactivated(o) ==
  /\ Reactivated(o)
  /\ UNCHANGED <<sessions, requests, now>>

\* A step keeps, commits, moves or reactivates the row of an order.
LEMMA RowStep ==
  ASSUME SystemTypeOK, Placed, SystemNext, NEW o \in Orders
  PROVE  RowKept(o) \/ RowCommitted(o) \/ RowMoved(o) \/ RowReactivated(o)
<1>0. orders \in [Orders -> OrderType]
  BY DEF SystemTypeOK
<1>1. ASSUME NEW r \in Requests, Request(r), UNCHANGED now
      PROVE  RowKept(o) \/ RowCommitted(o)
  <2>1. CASE Commit(r)
    <3>1. requests[r].to # "active"
      BY DEF Placed
    <3>2. CASE orders'[o] = [orders[o] EXCEPT !.status = requests[r].to]
               /\ o \in requests[r].due
      <4>1. orders'[o].status = requests[r].to
        BY <1>0, <3>2 DEF OrderType
      <4> QED BY <1>1, <2>1, <3>1, <3>2, <4>1 DEF RowCommitted
    <3>3. \/ orders'[o] = orders[o]
          \/ orders'[o] = [orders[o] EXCEPT !.status = requests[r].to]
             /\ o \in requests[r].due
      BY <2>1 DEF Commit
    <3> QED BY <3>2, <3>3 DEF RowKept
  <2>2. UNCHANGED orders \/ Commit(r)
    BY <1>1 DEF Request, UnlockLookup, UnlockVerify, EnsureOrderState, Collect,
                UnlockReload, UnlockInsert, CodeSession, CodeOrder, CodeEnsure,
                CodeServed, DetailRead, DetailEnsure, ExpireDueRead,
                ExpireDueWrite, RevokeRead, RevokeWrite, RevokeOrderSessions, Abort
  <2> QED BY <2>1, <2>2 DEF RowKept
<1>2. ASSUME NEW p \in Orders, Renewal(p), UNCHANGED now
      PROVE  RowKept(o) \/ RowMoved(o) \/ RowReactivated(o)
  <2>1. ASSUME NEW t \in Nat, MoveExpiration(p, t)
        PROVE  RowKept(o) \/ RowMoved(o)
    <3>1. CASE p = o
      <4>1. orders'[o].status = IF EndsAccess(o, t) THEN "expired" ELSE orders[o].status
        BY <1>0, <2>1, <3>1 DEF MoveExpiration, OrderType
      <4>2. orders'[o].expires_at = t
        BY <1>0, <2>1, <3>1 DEF MoveExpiration, OrderType
      <4> QED BY <1>2, <2>1, <3>1, <4>1, <4>2 DEF RowMoved, EndsAccess
    <3>2. CASE p # o
      BY <1>0, <2>1, <3>2 DEF MoveExpiration, RowKept
    <3> QED BY <3>1, <3>2
  <2>2. CASE SetExpiration(p)
    <3>1. PICK t \in 0 .. now + MaxExtension + 1 : MoveExpiration(p, t)
      BY <2>2 DEF SetExpiration
    <3>2. t \in Nat
      BY AccessAssumption DEF SystemTypeOK
    <3> QED BY <2>1, <3>1, <3>2
  <2>3. ASSUME NEW d \in 1 .. MaxExtension, ExtendExpiration(p, d)
        PROVE  RowKept(o) \/ RowMoved(o)
    <3> DEFINE base == IF orders[p].expires_at >= now THEN orders[p].expires_at ELSE now
    <3>1. base + d \in Nat
      BY AccessAssumption DEF SystemTypeOK, OrderType
    <3>2. MoveExpiration(p, base + d)
      BY <2>3 DEF ExtendExpiration
    <3> QED BY <2>1, <3>1, <3>2
  <2>4. CASE Reactivate(p)
    <3>1. CASE p = o
      <4>1. orders[o].status = "expired" /\ orders'[o].status = "active"
        BY <1>0, <2>4, <3>1 DEF Reactivate, MayReactivate, OrderType
      <4> QED BY <1>2, <2>4, <4>1 DEF Reactivate, RowReactivated, Reactivated
    <3>2. CASE p # o
      BY <1>0, <2>4, <3>2 DEF Reactivate, RowKept
    <3> QED BY <3>1, <3>2
  <2> QED BY <1>2, <2>2, <2>3, <2>4 DEF Renewal
<1>3. CASE Upkeep
  BY <1>3, UpkeepType DEF RowKept
<1>4. CASE Tick
  BY <1>4 DEF Tick, RowKept
<1> QED BY <1>1, <1>2, <1>3, <1>4 DEF SystemNext

----------------------------------------------------------------------------
(* The inductive invariant.                                                *)

\* An order that is dead has no access now: extending it is not enough.
DeadNotLive == \A o \in Orders : dead[o] => ~Live(o)

\* A request that began when its order was dead holds no copy that is usable
\* and has not got past the test of the copy.
DoomedStale ==
  \A r \in doomed :
    /\ requests[r].order \in Orders
    /\ dead[requests[r].order]
    /\ requests[r].pc \notin {"reload", "insert", "served"}
    /\ requests[r].pc \in {"verify", "ensure", "detail"} => ~Usable(r)

\* A transaction about to end an order has listed every session of it that is
\* open, but those inserted since.
ListedOrLate ==
  \A r \in Requests, s \in Sessions :
    /\ requests[r].pc = "commit"
    /\ sessions[s].state = "open"
    /\ sessions[s].order \in requests[r].due
    => s \in requests[r].marked \cup late

AccessInv ==
  TypeOK /\ Placed /\ DeadNotLive /\ DoomedStale /\ ListedOrLate /\ NoSurvivor

\* TypeOK speaks of the system and of its history.
LEMMA TypeSplits ==
  TypeOK <=> /\ SystemTypeOK
             /\ dead \in [Orders -> BOOLEAN]
             /\ doomed \subseteq Requests
             /\ late \subseteq Sessions
             /\ withdrawn \subseteq Orders
  BY DEF TypeOK, SystemTypeOK, OrderType, SessionType, RequestType

\* The invariant holds initially.
LEMMA AccessInit == Init => AccessInv
<1> SUFFICES ASSUME Init PROVE AccessInv
  OBVIOUS
<1>1. TypeOK /\ Placed
  BY TypeInit, TypeSplits DEF Init
<1>2. DeadNotLive /\ DoomedStale
  BY DEF Init, DeadNotLive, DoomedStale
<1>3. ListedOrLate /\ NoSurvivor
  BY DEF Init, ListedOrLate, NoSurvivor, NoSession
<1> QED BY <1>1, <1>2, <1>3 DEF AccessInv

\* Every step keeps the types.
LEMMA TypeStep ==
  ASSUME TypeOK, Placed, SystemNext, History
  PROVE  TypeOK'
<1>1. SystemTypeOK'
  BY SystemTypePreserved, TypeSplits
<1>2. dead' \in [Orders -> BOOLEAN]
  <2> DEFINE D(o) == ~Live(o)' \/ (dead[o] /\ ~Reactivated(o))
  <2>1. dead' = [o \in Orders |-> D(o)]
    BY DEF History
  <2>2. \A o \in Orders : D(o) \in BOOLEAN
    OBVIOUS
  <2> HIDE DEF D
  <2> QED BY <2>1, <2>2
<1>3. doomed' \subseteq Requests /\ late' \subseteq Sessions
  BY DEF History
<1>4. withdrawn' \subseteq Orders
  BY TypeSplits DEF History
<1> QED
  BY <1>1, <1>2, <1>3, <1>4 DEF TypeOK, SystemTypeOK, OrderType, SessionType,
                                RequestType

\* Every step keeps requests and sessions placed.
LEMMA PlacedStep ==
  ASSUME SystemTypeOK, Placed, SystemNext
  PROVE  Placed'
<1>1. ASSUME NEW r \in Requests
      PROVE  /\ requests'[r].pc \in {"verify", "reload", "insert", "order", "ensure",
                             "served", "detail", "revoke"} => requests'[r].order \in Orders
             /\ requests'[r].pc = "idle" => requests'[r] = Idle
             /\ requests'[r].to # "active"
  <2>1. CASE requests'[r] = requests[r]
    BY <2>1 DEF Placed
  <2>2. CASE requests'[r] # requests[r]
    <3>1. Moves(r)
      BY <2>2, RequestsStep DEF Moves
    <3>2. CASE requests'[r] = Idle
      BY <3>2, AccessAssumption DEF Idle, OrderStatus
    <3>3. CASE Starts(r)
      BY <3>3, AccessAssumption DEF Starts, Copied, OrderStatus
    <3>4. CASE GoesOn(r)
      BY <3>4 DEF GoesOn
    <3>5. CASE Collects(r)
      BY <3>5 DEF Collects
    <3> QED BY <2>2, <3>1, <3>2, <3>3, <3>4, <3>5 DEF Moves
  <2> QED BY <2>1, <2>2
<1>2. ASSUME NEW s \in Sessions, sessions'[s].state = "open"
      PROVE  sessions'[s].order \in Orders
  BY <1>2, OpenSession DEF Placed, Inserted
<1> QED BY <1>1, <1>2 DEF Placed

\* Access comes back only by reactivation.
LEMMA LiveAgain ==
  ASSUME SystemTypeOK, Placed, SystemNext, NEW o \in Orders, Live(o)', ~Live(o)
  PROVE  Reactivated(o)
<1>0. /\ orders[o].expires_at \in Nat /\ orders'[o].expires_at \in Nat
      /\ now \in Nat /\ now' \in Nat /\ now <= now'
  <2>1. SystemTypeOK'
    BY SystemTypePreserved
  <2>2. now <= now'
    BY DEF SystemNext, Tick, SystemTypeOK
  <2> QED BY <2>1, <2>2 DEF SystemTypeOK, OrderType
<1>1. CASE RowKept(o)
  BY <1>0, <1>1 DEF RowKept, Live
<1>2. CASE RowCommitted(o)
  BY <1>2 DEF RowCommitted, Live
<1>3. CASE RowMoved(o)
  BY <1>0, <1>3 DEF RowMoved, Live
<1> QED BY <1>1, <1>2, <1>3, RowStep DEF RowReactivated

\* An order that is dead stays unusable until it is reactivated.
LEMMA DeadStep ==
  ASSUME SystemTypeOK, Placed, SystemNext, History, DeadNotLive
  PROVE  DeadNotLive'
  BY LiveAgain DEF DeadNotLive, History

\* A request that began on a dead order never holds a usable copy of it.
LEMMA DoomedStep ==
  ASSUME SystemTypeOK, Placed, SystemNext, History, DeadNotLive, DoomedStale
  PROVE  DoomedStale'
<1> SUFFICES ASSUME NEW r \in doomed'
             PROVE  /\ requests'[r].order \in Orders
                    /\ dead'[requests'[r].order]
                    /\ requests'[r].pc \notin {"reload", "insert", "served"}
                    /\ requests'[r].pc \in {"verify", "ensure", "detail"} => ~Usable(r)'
  BY DEF DoomedStale
<1> DEFINE o == requests'[r].order
<1>1. /\ r \in Requests
      /\ o \in Orders
      /\ IF requests[r].pc = "idle" THEN dead[o] ELSE r \in doomed /\ ~Reactivated(o)
  BY DEF History
<1>2. requests'[r] # Idle
  BY <1>1, AccessAssumption DEF Idle
<1>3. requests[r].pc = "idle" => requests[r] = Idle /\ requests'[r] # requests[r]
  BY <1>1, <1>2 DEF Placed
<1>4. UNCHANGED requests \/ \E q \in Requests : Request(q) /\ Moves(q)
  BY RequestsStep
<1>5. requests'[r] # requests[r] => Moves(r)
  BY <1>1, <1>4 DEF Moves
<1>6. requests'[r] # requests[r] => ~Reactivated(o)
  <2>1. RowReactivated(o) => UNCHANGED requests
    BY DEF RowReactivated
  <2>2. orders[o].status = "expired" /\ RowKept(o) => orders'[o].status # "active"
    BY DEF RowKept
  <2>3. RowCommitted(o) => orders'[o].status # "active"
    BY DEF RowCommitted
  <2>4. orders[o].status = "expired" /\ RowMoved(o) => orders'[o].status # "active"
    BY DEF RowMoved
  <2> QED BY <1>1, <2>1, <2>2, <2>3, <2>4, RowStep DEF Reactivated
<1>7. requests[r].pc # "idle" => o = requests[r].order /\ dead[o] /\ r \in doomed
  <2>1. requests[r].pc # "idle" => r \in doomed
    BY <1>1
  <2>2. requests[r].pc # "idle" /\ requests'[r] # requests[r] => o = requests[r].order
    BY <1>2, <1>5 DEF Moves, Starts, GoesOn, Collects
  <2> QED BY <2>1, <2>2 DEF DoomedStale
<1>8. dead[o] /\ ~Live(o)
  BY <1>1, <1>7 DEF DeadNotLive
<1>9. dead'[o]
  BY <1>1, <1>3, <1>6, <1>8 DEF History
<1>10. now \in Nat /\ now' \in Nat /\ now <= now' /\ requests[r].expires_at \in Nat
  <2>1. SystemTypeOK'
    BY SystemTypePreserved
  <2>2. now <= now'
    BY DEF SystemNext, Tick, SystemTypeOK
  <2> QED BY <1>1, <2>1, <2>2 DEF SystemTypeOK, RequestType
<1>11. CASE requests'[r] = requests[r]
  BY <1>1, <1>3, <1>7, <1>9, <1>10, <1>11 DEF DoomedStale, Usable
<1>12. CASE requests'[r] # requests[r]
  <2>0. now' = now
    BY <1>1, <1>12 DEF SystemNext, Tick
  <2>1. CASE Starts(r)
    BY <1>1, <1>8, <1>9, <2>0, <2>1 DEF Starts, Copied, Live, Usable
  <2>2. CASE GoesOn(r)
    <3>1. requests[r].pc = "order" /\ requests'[r].pc = "ensure" /\ Copied(r)
      BY <1>7, <2>2 DEF GoesOn, DoomedStale
    <3> QED BY <1>1, <1>8, <1>9, <2>0, <3>1 DEF Copied, Live, Usable
  <2>3. CASE Collects(r)
    BY <1>1, <1>9, <2>3 DEF Collects
  <2> QED BY <1>2, <1>5, <1>12, <2>1, <2>2, <2>3 DEF Moves
<1> QED BY <1>11, <1>12

\* While a transaction that ends an order waits to commit, it has listed
\* every open session of the order but the late ones.
LEMMA ListedStep ==
  ASSUME SystemTypeOK, Placed, SystemNext, History, ListedOrLate
  PROVE  ListedOrLate'
<1> SUFFICES ASSUME NEW r \in Requests, NEW s \in Sessions,
                    requests'[r].pc = "commit",
                    sessions'[s].state = "open",
                    sessions'[s].order \in requests'[r].due
             PROVE  s \in requests'[r].marked \/ s \in late'
  BY DEF ListedOrLate
<1>1. CASE Inserted(s)
  <2>1. Locked(sessions'[s].order)
    BY <1>1 DEF Inserted, Locked
  <2> QED BY <1>1, <2>1 DEF Inserted, History
<1>2. CASE sessions[s].state = "open" /\ sessions'[s].order = sessions[s].order
  <2>1. s \in late => s \in late'
    BY <1>2 DEF History
  <2>2. CASE requests'[r] = requests[r]
    BY <1>2, <2>1, <2>2 DEF ListedOrLate
  <2>3. CASE requests'[r] # requests[r]
    <3>1. Moves(r)
      BY <2>3, RequestsStep DEF Moves
    <3>2. Collects(r)
      BY <2>3, <3>1 DEF Moves, Starts, GoesOn, Idle
    <3> QED BY <1>2, <3>2 DEF Collects, OpenSessions
  <2> QED BY <2>2, <2>3
<1> QED BY <1>1, <1>2, OpenSession

\* No step leaves a session open when its order ends, but the late ones.
LEMMA SurvivorStep ==
  ASSUME SystemTypeOK, Placed, SystemNext, History, ListedOrLate, NoSurvivor
  PROVE  NoSurvivor'
<1> SUFFICES ASSUME NEW s \in Sessions,
                    sessions'[s].state = "open",
                    orders'[sessions'[s].order].status # "active"
             PROVE  s \in late'
  BY DEF NoSurvivor
<1> DEFINE o == sessions'[s].order
<1>1. CASE Inserted(s)
  BY <1>1 DEF Inserted, History
<1>2. CASE sessions[s].state = "open" /\ sessions'[s].order = sessions[s].order
  <2>1. s \in late => s \in late'
    BY <1>2 DEF History
  <2>2. o \in Orders
    BY <1>2 DEF Placed
  <2>3. CASE orders[o].status # "active"
    BY <1>2, <2>1, <2>3 DEF NoSurvivor
  <2>4. CASE orders[o].status = "active"
    <3>1. CASE RowKept(o)
      BY <2>4, <3>1 DEF RowKept
    <3>2. CASE RowCommitted(o)
      <4>1. PICK r \in Requests : /\ Commit(r)
                                  /\ o \in requests[r].due
                                  /\ orders'[o].status # "active"
        BY <3>2 DEF RowCommitted
      <4>2. \A q \in requests[r].marked : sessions[q].state # "deleted"
        BY <2>2, <2>4, <4>1 DEF Commit
      <4>3. s \notin requests[r].marked
        BY <4>1, <4>2 DEF Commit, SystemTypeOK, SessionType
      <4> QED BY <1>2, <2>1, <4>1, <4>3 DEF ListedOrLate, Commit
    <3>3. CASE RowMoved(o)
      <4>1. PICK t \in Nat : MoveExpiration(o, t)
        BY <3>3 DEF RowMoved
      <4>2. EndsAccess(o, t)
        BY <2>2, <2>4, <4>1 DEF MoveExpiration, SystemTypeOK, OrderType
      <4>3. s \in OpenSessions({o})
        BY <1>2 DEF OpenSessions
      <4>4. sessions'[s].state = "revoked"
        BY <4>1, <4>2, <4>3 DEF MoveExpiration, SystemTypeOK, SessionType
      <4> QED BY <4>4
    <3>4. CASE RowReactivated(o)
      BY <2>4, <3>4 DEF RowReactivated, Reactivated
    <3> QED BY <2>2, <3>1, <3>2, <3>3, <3>4, RowStep
  <2> QED BY <2>3, <2>4
<1> QED BY <1>1, <1>2, OpenSession

\* The invariant is inductive.
LEMMA AccessStep == AccessInv /\ [Next]_vars => AccessInv'
<1> SUFFICES ASSUME AccessInv, [Next]_vars PROVE AccessInv'
  OBVIOUS
<1>0. SystemTypeOK
  BY TypeSplits DEF AccessInv
<1>1. CASE Next
  <2>1. SystemNext /\ History
    BY <1>1, NextSplits
  <2>2. TypeOK' /\ Placed'
    BY <1>0, <2>1, TypeStep, PlacedStep DEF AccessInv
  <2>3. DeadNotLive' /\ DoomedStale'
    BY <1>0, <2>1, DeadStep, DoomedStep DEF AccessInv
  <2>4. ListedOrLate' /\ NoSurvivor'
    BY <1>0, <2>1, ListedStep, SurvivorStep DEF AccessInv
  <2> QED BY <2>2, <2>3, <2>4 DEF AccessInv
<1>2. CASE UNCHANGED vars
  <2>1. /\ TypeOK' /\ Placed' /\ NoSurvivor' /\ ListedOrLate'
    BY <1>2 DEF AccessInv, vars, TypeOK, Placed, NoSurvivor, ListedOrLate
  <2>2. DeadNotLive' /\ DoomedStale'
    BY <1>2 DEF AccessInv, vars, DeadNotLive, DoomedStale, Live, Usable
  <2> QED BY <2>1, <2>2 DEF AccessInv
<1> QED BY <1>1, <1>2

----------------------------------------------------------------------------
(* The limits on sessions and addresses.                                   *)

\* The request has found room within the limits, and will insert a session.
Reserves(r) ==
  /\ requests[r].pc = "reload"
  /\ WithinLimits(requests[r].order, requests[r].address)
  /\ requests'[r].order = requests[r].order
  /\ requests'[r].address = requests[r].address
  /\ \A q \in Requests \ {r} : requests'[q] = requests[q]
  /\ UNCHANGED <<sessions, now>>

\* Where a request that is about to insert a session comes from.
LEMMA InsertingMoves ==
  ASSUME SystemTypeOK, Placed, SystemNext, NEW r \in Requests,
         requests'[r].pc = "insert"
  PROVE  requests'[r] = requests[r] \/ Reserves(r)
<1>1. CASE UNCHANGED requests
  BY <1>1
<1>2. ASSUME NEW q \in Requests, Request(q), UNCHANGED now, Moves(q)
      PROVE  requests'[r] = requests[r] \/ Reserves(r)
  <2>1. CASE q # r
    BY <1>2, <2>1 DEF Moves
  <2>2. CASE q = r /\ requests'[r] # requests[r]
    <3>1. requests[r].pc = "reload"
      BY <1>2, <2>2 DEF Moves, Starts, GoesOn, Collects, Idle
    <3>2. ~Return(r)
      BY DEF Return, SystemTypeOK, Idle
    <3>3. UnlockReload(r)
      BY <1>2, <2>2, <3>1, <3>2 DEF Request, UnlockLookup, UnlockVerify, UnlockInsert,
        CodeSession, CodeOrder, CodeEnsure, CodeServed, DetailRead, DetailEnsure,
        ExpireDueRead, ExpireDueWrite, RevokeRead, RevokeWrite, RevokeOrderSessions,
        Collect, Commit, Abort, Idle, SystemTypeOK
    <3>4. WithinLimits(requests[r].order, requests[r].address)
      BY <3>2, <3>3 DEF UnlockReload
    <3>5. requests'[r].order = requests[r].order /\ requests'[r].address = requests[r].address
      BY <3>3, <3>4 DEF UnlockReload, SystemTypeOK, RequestType
    <3> QED BY <1>2, <2>2, <3>1, <3>3, <3>4, <3>5 DEF Reserves, Moves, UnlockReload
  <2> QED BY <2>1, <2>2
<1>3. \/ UNCHANGED requests
      \/ \E q \in Requests : Request(q) /\ UNCHANGED now
  BY RenewalType, UpkeepType DEF SystemNext, Tick
<1> QED BY <1>1, <1>2, <1>3, RequestMoves

\* T is finite and no larger than S.
Small(T, S) ==
  IsFiniteSet(T) /\ Cardinality(T) \in Nat /\ Cardinality(T) <= Cardinality(S)

\* A part of a finite set, and the values a function takes on it, are finite
\* and no more than the set.
LEMMA Counts ==
  ASSUME NEW S, IsFiniteSet(S), NEW f
  PROVE  \A T \in SUBSET S : Small(T, S) /\ Small({f[x] : x \in T}, S)
<1> SUFFICES ASSUME NEW T \in SUBSET S
             PROVE  Small(T, S) /\ Small({f[x] : x \in T}, S)
  OBVIOUS
<1> DEFINE V == {f[x] : x \in T}
           g == [x \in T |-> f[x]]
<1>1. IsFiniteSet(T) /\ Cardinality(T) <= Cardinality(S)
  BY FS_Subset
<1>2. g \in Surjection(T, V)
  BY DEF Surjection
<1> HIDE DEF g, V
<1>3. IsFiniteSet(V) /\ Cardinality(V) <= Cardinality(T)
  BY <1>1, <1>2, FS_Surjection
<1>4. Cardinality(T) \in Nat /\ Cardinality(V) \in Nat /\ Cardinality(S) \in Nat
  BY <1>1, <1>3, FS_CardinalityType
<1> QED BY <1>1, <1>3, <1>4 DEF V, Small

\* What the limits are about, counted: everything is finite.
Counted(o) ==
  /\ IsFiniteSet(ActiveSessions(o)) /\ Cardinality(ActiveSessions(o)) \in Nat
  /\ IsFiniteSet(Inserting(o)) /\ Cardinality(Inserting(o)) \in Nat
  /\ IsFiniteSet(ActiveAddresses(o)) /\ Cardinality(ActiveAddresses(o)) \in Nat
  /\ IsFiniteSet(InsertingAddresses(o)) /\ Cardinality(InsertingAddresses(o)) \in Nat
  /\ Cardinality(Inserting(o)) <= Cardinality(Requests)
  /\ Cardinality(InsertingAddresses(o)) <= Cardinality(Requests)
  /\ Cardinality(Requests) \in Nat

\* There are finitely many requests and sessions, hence all of these.
LEMMA AllCounted ==
  ASSUME IsFiniteSet(Requests), IsFiniteSet(Sessions), NEW o
  PROVE  Counted(o) /\ Counted(o)'
<1> DEFINE at == [s \in Sessions |-> sessions[s].address]
           by == [r \in Requests |-> requests[r].address]
<1>1. Counted(o)
  <2>1. ActiveAddresses(o) = {at[s] : s \in ActiveSessions(o)}
    BY DEF ActiveAddresses, ActiveSessions
  <2>2. InsertingAddresses(o) = {by[r] : r \in Inserting(o)}
    BY DEF InsertingAddresses, Inserting
  <2>3. ActiveSessions(o) \in SUBSET Sessions /\ Inserting(o) \in SUBSET Requests
    BY DEF ActiveSessions, Inserting
  <2> HIDE DEF at, by
  <2>4. Small(ActiveSessions(o), Sessions) /\ Small(ActiveAddresses(o), Sessions)
    BY <2>1, <2>3, Counts
  <2>5. Small(Inserting(o), Requests) /\ Small(InsertingAddresses(o), Requests)
    BY <2>2, <2>3, Counts
  <2> QED BY <2>4, <2>5, FS_CardinalityType DEF Counted, Small
<1>2. Counted(o)'
  <2>1. ActiveAddresses(o)' = {at'[s] : s \in ActiveSessions(o)'}
    BY DEF ActiveAddresses, ActiveSessions
  <2>2. InsertingAddresses(o)' = {by'[r] : r \in Inserting(o)'}
    BY DEF InsertingAddresses, Inserting
  <2>3. ActiveSessions(o)' \in SUBSET Sessions /\ Inserting(o)' \in SUBSET Requests
    BY DEF ActiveSessions, Inserting
  <2> HIDE DEF at, by
  <2>4. Small(ActiveSessions(o)', Sessions) /\ Small(ActiveAddresses(o)', Sessions)
    BY <2>1, <2>3, Counts
  <2>5. Small(Inserting(o)', Requests) /\ Small(InsertingAddresses(o)', Requests)
    BY <2>2, <2>3, Counts
  <2> QED BY <2>4, <2>5, FS_CardinalityType DEF Counted, Small
<1> QED BY <1>1, <1>2

\* The two limits, each with the room the unlocks in progress can take.
SessionsBounded(o) ==
  MaxSessions > 0 =>
    Cardinality(ActiveSessions(o)) + Cardinality(Inserting(o))
      <= MaxSessions + Cardinality(Requests) - 1

AddressesBounded(o) ==
  MaxAddresses > 0 =>
    Cardinality(ActiveAddresses(o) \cup InsertingAddresses(o))
      <= MaxAddresses + Cardinality(Requests) - 1

\* At first nobody has a session.
LEMMA OvershootInit ==
  ASSUME IsFiniteSet(Requests), IsFiniteSet(Sessions), Init
  PROVE  BoundedOvershoot
<1> SUFFICES ASSUME NEW o \in Orders
             PROVE  SessionsBounded(o) /\ AddressesBounded(o)
  BY DEF BoundedOvershoot, SessionsBounded, AddressesBounded
<1>1. ActiveSessions(o) = {} /\ Inserting(o) = {}
  BY DEF Init, ActiveSessions, Inserting, NoSession, Idle
<1>2. ActiveAddresses(o) \cup InsertingAddresses(o) = {}
  BY <1>1 DEF ActiveAddresses, InsertingAddresses
<1>3. Cardinality({}) = 0
  BY FS_EmptySet
<1>4. Cardinality(Requests) \in Nat
  BY FS_CardinalityType
<1>5. MaxSessions \in Nat /\ MaxAddresses \in Nat
  BY AccessAssumption
<1>6. SessionsBounded(o)
  BY <1>1, <1>3, <1>4, <1>5 DEF SessionsBounded
<1>7. AddressesBounded(o)
  <2> DEFINE n == Cardinality(ActiveAddresses(o) \cup InsertingAddresses(o))
  <2>1. n = 0
    BY <1>2, <1>3
  <2> HIDE DEF n
  <2>2. MaxAddresses > 0 => n <= MaxAddresses + Cardinality(Requests) - 1
    BY <1>4, <1>5, <2>1
  <2> QED BY <2>2 DEF n, AddressesBounded
<1> QED BY <1>6, <1>7

\* Fewer addresses, within the limit as before.
LEMMA FewerAddresses ==
  ASSUME NEW o, Counted(o), AddressesBounded(o),
         (ActiveAddresses(o) \cup InsertingAddresses(o))'
           \in SUBSET (ActiveAddresses(o) \cup InsertingAddresses(o))
  PROVE  AddressesBounded(o)'
<1>1. /\ IsFiniteSet(ActiveAddresses(o) \cup InsertingAddresses(o))
      /\ Cardinality(ActiveAddresses(o) \cup InsertingAddresses(o)) \in Nat
  BY FS_Union, FS_CardinalityType DEF Counted
<1>2. /\ Cardinality((ActiveAddresses(o) \cup InsertingAddresses(o))')
           <= Cardinality(ActiveAddresses(o) \cup InsertingAddresses(o))
      /\ Cardinality((ActiveAddresses(o) \cup InsertingAddresses(o))') \in Nat
  BY <1>1, FS_Subset, FS_CardinalityType
<1> QED BY <1>1, <1>2, AccessAssumption DEF AddressesBounded, Counted

\* Finding room: the sessions are below the limit, whatever is under way.
LEMMA BoundedWhenReserving ==
  ASSUME IsFiniteSet(Requests), IsFiniteSet(Sessions), SystemTypeOK,
         NEW o \in Orders, SessionsBounded(o), AddressesBounded(o),
         NEW r \in Requests, Reserves(r), requests[r].order = o
  PROVE  SessionsBounded(o)' /\ AddressesBounded(o)'
<1> DEFINE a == requests[r].address
<1>1. Counted(o) /\ Counted(o)'
  BY AllCounted
<1>2. ActiveSessions(o)' = ActiveSessions(o) /\ ActiveAddresses(o)' = ActiveAddresses(o)
  BY DEF Reserves, ActiveSessions, ActiveAddresses
<1>3. SessionsBounded(o)'
  <2>1. MaxSessions > 0 => Cardinality(ActiveSessions(o)) < MaxSessions
    BY DEF Reserves, WithinLimits
  <2> QED BY <1>1, <1>2, <2>1, AccessAssumption DEF Counted, SessionsBounded
<1>4. AddressesBounded(o)'
  <2>1. CASE a \in ActiveAddresses(o)
    <3>1. InsertingAddresses(o)' \subseteq ActiveAddresses(o) \cup InsertingAddresses(o)
      BY <2>1 DEF Reserves, InsertingAddresses, Inserting
    <3>2. (ActiveAddresses(o) \cup InsertingAddresses(o))'
            \in SUBSET (ActiveAddresses(o) \cup InsertingAddresses(o))
      BY <1>2, <3>1
    <3> QED BY <1>1, <3>2, FewerAddresses
  <2>2. CASE a \notin ActiveAddresses(o)
    <3>1. MaxAddresses > 0 => Cardinality(ActiveAddresses(o)) < MaxAddresses
      BY <2>2 DEF Reserves, WithinLimits
    <3>2. Cardinality(ActiveAddresses(o)' \cup InsertingAddresses(o)')
            <= Cardinality(ActiveAddresses(o)') + Cardinality(InsertingAddresses(o)')
      <4>1. /\ Cardinality(ActiveAddresses(o)' \cup InsertingAddresses(o)')
                 = Cardinality(ActiveAddresses(o)') + Cardinality(InsertingAddresses(o)')
                     - Cardinality(ActiveAddresses(o)' \cap InsertingAddresses(o)')
            /\ IsFiniteSet(ActiveAddresses(o)' \cup InsertingAddresses(o)')
        BY <1>1, FS_Union DEF Counted
      <4>2. Cardinality(ActiveAddresses(o)' \cap InsertingAddresses(o)') \in Nat
        <5>1. ActiveAddresses(o)' \cap InsertingAddresses(o)' \in SUBSET ActiveAddresses(o)'
          OBVIOUS
        <5> QED BY <1>1, <5>1, FS_Subset, FS_CardinalityType DEF Counted
      <4> QED BY <1>1, <4>1, <4>2 DEF Counted
    <3>3. Cardinality(ActiveAddresses(o)' \cup InsertingAddresses(o)') \in Nat
      BY <1>1, FS_Union, FS_CardinalityType DEF Counted
    <3> QED BY <1>1, <1>2, <3>1, <3>2, <3>3, AccessAssumption DEF AddressesBounded, Counted
  <2> QED BY <2>1, <2>2
<1> QED BY <1>3, <1>4

\* Otherwise a session comes only from a request that had room reserved, which
\* then stops counting; nothing else adds to what the limits are about.
LEMMA BoundedOtherwise ==
  ASSUME IsFiniteSet(Requests), IsFiniteSet(Sessions), SystemTypeOK, Placed,
         SystemNext, NEW o \in Orders, SessionsBounded(o), AddressesBounded(o),
         ~ \E r \in Requests : Reserves(r) /\ requests[r].order = o
  PROVE  SessionsBounded(o)' /\ AddressesBounded(o)'
<1>1. Counted(o) /\ Counted(o)'
  BY AllCounted
<1>2. \A r \in Inserting(o)' : requests'[r] = requests[r] /\ r \in Inserting(o)
  <2> SUFFICES ASSUME NEW r \in Requests, requests'[r].pc = "insert",
                      requests'[r].order = o
               PROVE  requests'[r] = requests[r]
    BY DEF Inserting
  <2>1. ~Reserves(r)
    BY DEF Reserves
  <2> QED BY <2>1, InsertingMoves
<1>3. now' >= now /\ now' \in Int /\ now \in Int
  BY SystemTypePreserved DEF SystemNext, Tick, SystemTypeOK
<1>4. ASSUME NEW s \in ActiveSessions(o)', sessions'[s] = sessions[s]
      PROVE  s \in ActiveSessions(o)
  BY <1>3, <1>4, SystemTypePreserved DEF ActiveSessions, SystemTypeOK, SessionType
<1>5. CASE \A s \in ActiveSessions(o)' : sessions'[s] = sessions[s]
  <2>1. /\ ActiveSessions(o)' \in SUBSET ActiveSessions(o)
        /\ Inserting(o)' \in SUBSET Inserting(o)
    BY <1>2, <1>4, <1>5
  <2>2. /\ Cardinality(ActiveSessions(o)') <= Cardinality(ActiveSessions(o))
        /\ Cardinality(Inserting(o)') <= Cardinality(Inserting(o))
    BY <1>1, <2>1, FS_Subset DEF Counted
  <2>3. SessionsBounded(o)'
    BY <1>1, <2>2, AccessAssumption DEF SessionsBounded, Counted
  <2>4. (ActiveAddresses(o) \cup InsertingAddresses(o))'
          \in SUBSET (ActiveAddresses(o) \cup InsertingAddresses(o))
    BY <1>2, <1>5, <2>1 DEF ActiveAddresses, InsertingAddresses
  <2> QED BY <1>1, <2>3, <2>4, FewerAddresses
<1>6. ASSUME NEW s \in ActiveSessions(o)', sessions'[s] # sessions[s]
      PROVE  SessionsBounded(o)' /\ AddressesBounded(o)'
  <2>1. s \in Sessions /\ sessions'[s].state = "open" /\ sessions'[s].order = o
    BY <1>6 DEF ActiveSessions
  <2>2. PICK r \in Requests : UnlockInsert(r, s)
    BY <1>6, <2>1, OpenedBy
  <2>3. /\ sessions'[s].order = requests[r].order
        /\ sessions'[s].address = requests[r].address
        /\ \A q \in Sessions \ {s} : sessions'[q] = sessions[q]
        /\ requests'[r] = Idle
    BY <2>1, <2>2 DEF UnlockInsert, Return, SystemTypeOK
  <2>4. r \in Inserting(o) /\ r \notin Inserting(o)'
    BY <2>1, <2>2, <2>3 DEF Inserting, UnlockInsert, Idle
  <2>5. /\ ActiveSessions(o)' \in SUBSET (ActiveSessions(o) \cup {s})
        /\ Inserting(o)' \in SUBSET (Inserting(o) \ {r})
    <3>1. \A q \in ActiveSessions(o)' : q # s => q \in ActiveSessions(o)
      <4> SUFFICES ASSUME NEW q \in ActiveSessions(o)', q # s
                   PROVE  q \in ActiveSessions(o)
        OBVIOUS
      <4>1. q \in Sessions
        BY DEF ActiveSessions
      <4> QED BY <1>4, <2>3, <4>1
    <3> QED BY <1>2, <2>4, <3>1
  <2>6. SessionsBounded(o)'
    <3>0. IsFiniteSet(ActiveSessions(o)) /\ Cardinality(ActiveSessions(o)) \in Nat
      BY <1>1 DEF Counted
    <3>1. /\ IsFiniteSet(ActiveSessions(o) \cup {s})
          /\ Cardinality(ActiveSessions(o) \cup {s}) <= Cardinality(ActiveSessions(o)) + 1
          /\ Cardinality(ActiveSessions(o) \cup {s}) \in Nat
      <4>1. /\ IsFiniteSet(ActiveSessions(o) \cup {s})
            /\ Cardinality(ActiveSessions(o) \cup {s})
                 = IF s \in ActiveSessions(o) THEN Cardinality(ActiveSessions(o))
                   ELSE Cardinality(ActiveSessions(o)) + 1
        BY <3>0, FS_AddElement
      <4> QED BY <3>0, <4>1
    <3>2. /\ IsFiniteSet(Inserting(o) \ {r})
          /\ Cardinality(Inserting(o) \ {r}) = Cardinality(Inserting(o)) - 1
      BY <1>1, <2>4, FS_RemoveElement DEF Counted
    <3>3. /\ Cardinality(ActiveSessions(o)') <= Cardinality(ActiveSessions(o) \cup {s})
          /\ Cardinality(Inserting(o)') <= Cardinality(Inserting(o) \ {r})
      BY <2>5, <3>1, <3>2, FS_Subset
    <3> QED BY <1>1, <3>1, <3>2, <3>3, AccessAssumption DEF SessionsBounded, Counted
  <2>7. (ActiveAddresses(o) \cup InsertingAddresses(o))'
          \in SUBSET (ActiveAddresses(o) \cup InsertingAddresses(o))
    <3>1. ActiveAddresses(o)' \subseteq ActiveAddresses(o) \cup {requests[r].address}
      <4> SUFFICES ASSUME NEW q \in ActiveSessions(o)'
                   PROVE  sessions'[q].address
                            \in ActiveAddresses(o) \cup {requests[r].address}
        BY DEF ActiveAddresses
      <4>1. CASE q = s
        BY <2>3, <4>1
      <4>2. CASE q # s
        <5>1. q \in ActiveSessions(o) /\ q \in Sessions
          BY <2>5, <4>2 DEF ActiveSessions
        <5> QED BY <2>3, <4>2, <5>1 DEF ActiveAddresses
      <4> QED BY <4>1, <4>2
    <3>2. requests[r].address \in InsertingAddresses(o)
      BY <2>4 DEF InsertingAddresses
    <3>3. InsertingAddresses(o)' \subseteq InsertingAddresses(o)
      BY <1>2 DEF InsertingAddresses
    <3> QED BY <3>1, <3>2, <3>3
  <2> QED BY <1>1, <2>6, <2>7, FewerAddresses
<1> QED BY <1>5, <1>6

\* The limits are kept, up to the unlocks in progress, by every step.
LEMMA OvershootStep ==
  ASSUME IsFiniteSet(Requests), IsFiniteSet(Sessions), SystemTypeOK, Placed,
         SystemNext, BoundedOvershoot
  PROVE  BoundedOvershoot'
<1> SUFFICES ASSUME NEW o \in Orders
             PROVE  SessionsBounded(o)' /\ AddressesBounded(o)'
  BY DEF BoundedOvershoot, SessionsBounded, AddressesBounded
<1>1. SessionsBounded(o) /\ AddressesBounded(o)
  BY DEF BoundedOvershoot, SessionsBounded, AddressesBounded
<1> QED BY <1>1, BoundedWhenReserving, BoundedOtherwise

----------------------------------------------------------------------------
(* The theorems.                                                           *)

\* The inductive invariant holds in every state the system reaches: the
\* handlers of buyer access never leave it, whatever their interleaving.
THEOREM AccessInvariant == Spec => []AccessInv
  BY AccessInit, AccessStep, PTL DEF Spec

\* Every state of the buyer-access handlers has its type.
THEOREM AccessTypeCorrect == Spec => []TypeOK
<1>1. AccessInv => TypeOK
  BY DEF AccessInv
<1> QED BY <1>1, AccessInvariant, PTL

\* A request that began after its order lapsed or was ended never gains a
\* session or a code (verify_buyer_key, active_buyer_session, the renewals).
THEOREM AccessEndsWithOrder == Spec => []NoAccessOnceDead
<1>1. AccessInv => NoAccessOnceDead
  BY DEF AccessInv, DoomedStale, NoAccessOnceDead
<1> QED BY <1>1, AccessInvariant, PTL

\* Ending an order revokes every session that was open when its transaction
\* listed them (revoke_buyer_sessions).
THEOREM SessionsEndWithOrder == Spec => []NoSurvivor
<1>1. AccessInv => NoSurvivor
  BY DEF AccessInv
<1> QED BY <1>1, AccessInvariant, PTL

\* Nothing takes an order out of "revoked" but the commit of an expiry, and it
\* does not become active (revoke_order, expire_due_orders, reactivate_order).
THEOREM RevocationUndoneOnlyByExpiry == Spec => RevokedLeavesOnlyByStaleExpiry
<1> DEFINE Undone ==
      \A o \in Orders :
        orders[o].status = "revoked" /\ orders'[o].status # "revoked"
        => /\ orders'[o].status = "expired"
           /\ \E r \in Requests : /\ requests[r].pc = "commit"
                                  /\ requests[r].to = "expired"
                                  /\ o \in requests[r].due
<1>1. AccessInv /\ [Next]_vars => [Undone]_vars
  <2> SUFFICES ASSUME AccessInv, Next, NEW o \in Orders,
                      orders[o].status = "revoked", orders'[o].status # "revoked"
               PROVE  /\ orders'[o].status = "expired"
                      /\ \E r \in Requests : /\ requests[r].pc = "commit"
                                             /\ requests[r].to = "expired"
                                             /\ o \in requests[r].due
    BY DEF vars
  <2>1. SystemTypeOK /\ Placed /\ SystemNext
    BY NextSplits, TypeSplits DEF AccessInv
  <2>2. RowCommitted(o)
    BY <2>1, RowStep DEF RowKept, RowMoved, RowReactivated, Reactivated
  <2>3. PICK r \in Requests : /\ Commit(r)
                              /\ o \in requests[r].due
                              /\ orders'[o].status # "active"
                              /\ orders'[o].status = requests[r].to
    BY <2>2 DEF RowCommitted
  <2>4. SystemTypeOK'
    BY <2>1, SystemTypePreserved
  <2>5. orders'[o].status = "expired"
    BY <2>3, <2>4 DEF SystemTypeOK, OrderType, OrderStatus
  <2> QED BY <2>3, <2>5 DEF Commit
<1>2. Spec => [][Undone]_vars
  BY <1>1, AccessInvariant, PTL DEF Spec
<1> QED BY <1>2 DEF RevokedLeavesOnlyByStaleExpiry

\* The turns of a status that the webhooks and the delivery expect of the portal
\* (StatusTurns of OrderTable).
PortalTurns ==
  {<<"active", "expired">>, <<"expired", "active">>, <<"active", "revoked">>,
   <<"expired", "revoked">>, <<"revoked", "expired">>}

\* However many orders one commit of the portal changes, it turns each status in
\* one of these ways, whatever was committed since it was read
\* (expire_due_orders, ensure_order_state, revoke_order, reactivate_order).
THEOREM PortalTakesItsTurns ==
  Spec => [][\A o \in Orders :
               orders'[o].status # orders[o].status
               => <<orders[o].status, orders'[o].status>> \in PortalTurns]_vars
<1> DEFINE Kept ==
      \A o \in Orders : orders[o].status = "revoked" /\ orders'[o].status # "revoked"
                       => orders'[o].status = "expired"
           Turned ==
      \A o \in Orders : orders'[o].status # orders[o].status
                       => <<orders[o].status, orders'[o].status>> \in PortalTurns
<1>1. RevokedLeavesOnlyByStaleExpiry => [][Kept]_vars
  <2>1. (\A o \in Orders :
           orders[o].status = "revoked" /\ orders'[o].status # "revoked"
           => /\ orders'[o].status = "expired"
              /\ \E r \in Requests : /\ requests[r].pc = "commit"
                                     /\ requests[r].to = "expired"
                                     /\ o \in requests[r].due)
        => Kept
    OBVIOUS
  <2> QED BY <2>1, PTL DEF RevokedLeavesOnlyByStaleExpiry
<1>2. TypeOK /\ TypeOK' /\ [Kept]_vars => [Turned]_vars
  <2> SUFFICES ASSUME TypeOK, TypeOK', Kept, NEW o \in Orders,
                      orders'[o].status # orders[o].status
               PROVE  <<orders[o].status, orders'[o].status>> \in PortalTurns
    BY DEF vars
  <2>1. orders[o].status \in OrderStatus /\ orders'[o].status \in OrderStatus
    BY DEF TypeOK
  <2> QED BY <2>1 DEF OrderStatus, PortalTurns
<1>3. Spec => []TypeOK /\ [][Kept]_vars
  BY <1>1, AccessTypeCorrect, RevocationUndoneOnlyByExpiry
<1>4. Spec => [][Turned]_vars
  BY <1>2, <1>3, PTL
<1> QED BY <1>4

\* The limits are exceeded by no more than the other unlocks in progress,
\* however many they are (create_buyer_session).
THEOREM LimitsBarelyExceeded ==
  ASSUME IsFiniteSet(Requests), IsFiniteSet(Sessions)
  PROVE  Spec => []BoundedOvershoot
<1>1. Init => BoundedOvershoot
  BY OvershootInit
<1>2. AccessInv /\ BoundedOvershoot /\ [Next]_vars => BoundedOvershoot'
  <2>1. CASE UNCHANGED vars
    BY <2>1 DEF vars, BoundedOvershoot, ActiveSessions, Inserting, ActiveAddresses,
                InsertingAddresses
  <2>2. CASE Next
    BY <2>2, NextSplits, TypeSplits, OvershootStep DEF AccessInv
  <2> QED BY <2>1, <2>2
<1> QED BY <1>1, <1>2, AccessInvariant, PTL DEF Spec

----------------------------------------------------------------------------
(* Renewal: the copies that requests hold of the orders.                   *)

\* A copy that no renewal has overtaken is what the row holds.
TrueCopy(r, o) ==
  requests[r].pc \in {"verify", "ensure", "detail"} /\ requests[r].order = o
  => requests[r].expires_at = orders[o].expires_at

\* An expiry in progress that no renewal has overtaken is due.
TrulyDue(r, o) ==
  /\ \/ requests[r].pc = "expire"
     \/ requests[r].pc = "commit" /\ requests[r].to = "expired"
  /\ o \in requests[r].due
  => orders[o].expires_at <= now

FreshInv ==
  \A r \in Requests, o \in Orders :
    <<r, o>> \notin overtaken => TrueCopy(r, o) /\ TrulyDue(r, o)

----------------------------------------------------------------------------

\* A request moves no expiration and takes no time.
LEMMA RequestKeepsTerms ==
  ASSUME SystemTypeOK, NEW r \in Requests, Request(r), NEW o \in Orders
  PROVE  orders'[o].expires_at = orders[o].expires_at
<1>1. CASE Commit(r)
  BY <1>1 DEF Commit, SystemTypeOK, OrderType
<1>2. UNCHANGED orders \/ Commit(r)
  BY DEF Request, UnlockLookup, UnlockVerify, EnsureOrderState, Collect,
         UnlockReload, UnlockInsert, CodeSession, CodeOrder, CodeEnsure,
         CodeServed, DetailRead, DetailEnsure, ExpireDueRead,
         ExpireDueWrite, RevokeRead, RevokeWrite, RevokeOrderSessions, Abort
<1> QED BY <1>1, <1>2

\* What Collect leaves in the record of its request.
LEMMA CollectRecord ==
  ASSUME SystemTypeOK, NEW r \in Requests, NEW S, NEW L, NEW to, Collect(r, S, L, to)
  PROVE  requests'[r].pc = "commit" /\ requests'[r].due = L /\ requests'[r].to = to
<1>1. requests'[r] = [Idle EXCEPT !.pc = "commit", !.order = requests[r].order,
                                  !.due = L, !.to = to, !.marked = OpenSessions(S)]
  BY DEF Collect, SystemTypeOK
<1> QED BY <1>1 DEF Idle

\* Where the decision to expire an order comes from: the row itself, a due
\* list, or a lapsed copy.
Decided(r, o) ==
  \/ requests[r].pc = "idle" /\ orders[o].expires_at <= now
  \/ requests[r].pc = "expire" /\ o \in requests[r].due
  \/ /\ requests[r].pc \in {"verify", "ensure", "detail"}
     /\ requests[r].order = o
     /\ Lapsed(r)

Expiring(r, o) ==
  /\ \/ requests[r].pc = "expire"
     \/ requests[r].pc = "commit" /\ requests[r].to = "expired"
  /\ o \in requests[r].due

\* ensure_order_state expires the order of the request, from a lapsed copy.
LEMMA EnsureDecides ==
  ASSUME SystemTypeOK, NEW r \in Requests, NEW o \in Orders,
         NEW next \in {"idle", "reload", "served"},
         requests[r].pc \in {"verify", "ensure", "detail"},
         EnsureOrderState(r, next), Expiring(r, o)'
  PROVE  Decided(r, o)
<1>1. CASE Lapsed(r) /\ Collect(r, {requests[r].order}, {requests[r].order}, "expired")
  BY <1>1, CollectRecord DEF Expiring, Decided
<1>2. CASE ~Lapsed(r)
  <2> DEFINE on == [Idle EXCEPT !.pc = next, !.order = requests[r].order,
                                !.address = requests[r].address]
  <2>1. requests'[r] = on \/ requests'[r] = Idle
    BY <1>2 DEF EnsureOrderState, SystemTypeOK
  <2>2. on.pc = next /\ Idle.pc = "idle"
    BY DEF Idle
  <2> QED BY <2>1, <2>2 DEF Expiring
<1> QED BY <1>1, <1>2 DEF EnsureOrderState

\* No request expires an order without one of these grounds.
LEMMA ExpiryDecided ==
  ASSUME SystemTypeOK, Placed, NEW r \in Requests, Request(r), NEW o \in Orders,
         requests'[r] # requests[r], Expiring(r, o)'
  PROVE  Decided(r, o)
<1>0. requests \in [Requests -> RequestType] /\ Idle.pc = "idle"
  BY DEF SystemTypeOK, Idle
<1>1. CASE UnlockVerify(r) \/ CodeEnsure(r) \/ DetailEnsure(r)
  BY <1>1, EnsureDecides DEF UnlockVerify, CodeEnsure, DetailEnsure
<1>2. CASE ExpireDueRead(r)
  <2> DEFINE due == {p \in Orders : orders[p].status = "active"
                                     /\ orders[p].expires_at <= now}
             new == [Idle EXCEPT !.pc = "expire", !.due = due]
  <2>1. requests'[r] = new /\ requests[r].pc = "idle"
    BY <1>0, <1>2 DEF ExpireDueRead
  <2>2. new.due = due
    BY DEF Idle
  <2> QED BY <2>1, <2>2 DEF Expiring, Decided
<1>3. CASE ExpireDueWrite(r)
  BY <1>3, CollectRecord DEF ExpireDueWrite, Expiring, Decided
<1>4. CASE RevokeWrite(r)
  <2>1. requests'[r].pc = "commit" /\ requests'[r].to \in {None, "revoked"}
    BY <1>4, CollectRecord DEF RevokeWrite
  <2> QED BY <2>1, AccessAssumption DEF Expiring, OrderStatus
<1>5. ASSUME NEW p \in Orders, RevokeOrderSessions(r, p) PROVE Decided(r, o)
  BY <1>5, CollectRecord DEF RevokeOrderSessions, Expiring
<1>6. CASE Commit(r) \/ Abort(r) \/ CodeServed(r)
  BY <1>0, <1>6 DEF Commit, Abort, CodeServed, Return, Expiring
<1>7. CASE CodeOrder(r)
  BY <1>7, ReadMoves DEF CodeOrder, Placed, PC, Expiring
<1>8. ASSUME NEW p \in Orders, DetailRead(r, p) \/ RevokeRead(r, p)
      PROVE  Decided(r, o)
  BY <1>8, ReadMoves DEF DetailRead, RevokeRead, PC, Expiring
<1>9. ASSUME NEW p \in Orders, NEW a \in Addresses, UnlockLookup(r, p, a)
      PROVE  Decided(r, o)
  <2>1. requests'[r].pc = "verify"
    BY <1>0, <1>9 DEF UnlockLookup, Idle
  <2> QED BY <2>1 DEF Expiring
<1>10. CASE UnlockReload(r)
  <2>1. requests'[r].pc = "insert" \/ requests'[r] = Idle
    BY <1>0, <1>10 DEF UnlockReload, Return, RequestType
  <2> QED BY <1>0, <2>1 DEF Expiring
<1>11. ASSUME NEW s \in Sessions, UnlockInsert(r, s) PROVE Decided(r, o)
  BY <1>0, <1>11 DEF UnlockInsert, Return, Expiring
<1>12. ASSUME NEW s \in Sessions, CodeSession(r, s) PROVE Decided(r, o)
  <2> DEFINE new == [Idle EXCEPT !.pc = "order", !.order = sessions[s].order]
  <2>1. requests'[r] = new \/ requests'[r] = requests[r]
    BY <1>0, <1>12 DEF CodeSession
  <2>2. new.pc = "order"
    BY DEF Idle
  <2> QED BY <2>1, <2>2 DEF Expiring
<1> QED
  BY <1>1, <1>2, <1>3, <1>4, <1>5, <1>6, <1>7, <1>8, <1>9, <1>10, <1>11, <1>12
     DEF Request

----------------------------------------------------------------------------

\* While a request keeps its copy of an order, the history keeps what happened
\* to the order since.
LEMMA OvertakenKept ==
  ASSUME Overtake, NEW r \in Requests, NEW o \in Orders,
         o \in Copies(r), o \in Copies(r)', <<r, o>> \notin overtaken'
  PROVE  <<r, o>> \notin overtaken /\ orders'[o].expires_at = orders[o].expires_at
<1> DEFINE p == <<r, o>>
<1>1. p \in Requests \X Orders /\ p[1] = r /\ p[2] = o
  OBVIOUS
<1> QED BY <1>1 DEF Overtake

\* The invariant of the copies is kept by every step.
LEMMA FreshStep ==
  ASSUME SystemTypeOK, Placed, SystemNext, Overtake, FreshInv
  PROVE  FreshInv'
<1> SUFFICES ASSUME NEW r \in Requests, NEW o \in Orders, <<r, o>> \notin overtaken'
             PROVE  TrueCopy(r, o)' /\ TrulyDue(r, o)'
  BY DEF FreshInv
<1>0. /\ requests[r] \in RequestType /\ requests'[r] \in RequestType
      /\ orders[o].expires_at \in Nat /\ orders'[o].expires_at \in Nat
      /\ now \in Nat /\ now' \in Nat /\ now <= now'
  <2>1. SystemTypeOK'
    BY SystemTypePreserved
  <2>2. now <= now'
    BY DEF SystemNext, Tick, SystemTypeOK
  <2> QED BY <2>1, <2>2 DEF SystemTypeOK, OrderType
<1>1. CASE requests'[r] = requests[r]
  <2>1. CASE o \in Copies(r)
    <3>1. o \in Copies(r)'
      BY <1>1, <2>1 DEF Copies
    <3>2. <<r, o>> \notin overtaken /\ orders'[o].expires_at = orders[o].expires_at
      BY <2>1, <3>1, OvertakenKept
    <3>3. TrueCopy(r, o) /\ TrulyDue(r, o)
      BY <3>2 DEF FreshInv
    <3> QED BY <1>0, <1>1, <3>2, <3>3 DEF TrueCopy, TrulyDue
  <2>2. CASE o \notin Copies(r)
    BY <1>1, <2>2 DEF Copies, TrueCopy, TrulyDue
  <2> QED BY <2>1, <2>2
<1>2. CASE requests'[r] # requests[r]
  <2>1. Request(r) /\ Moves(r)
    BY <1>2, RequestsStep DEF Moves
  <2>2. orders'[o].expires_at = orders[o].expires_at
    BY <2>1, RequestKeepsTerms
  <2>3. now' = now
    BY <1>2 DEF SystemNext, Tick
  <2>4. TrueCopy(r, o)'
    BY <1>2, <2>1, <2>2 DEF TrueCopy, Moves, Starts, GoesOn, Collects, Copied, Idle
  <2>5. TrulyDue(r, o)'
    <3> SUFFICES ASSUME Expiring(r, o)' PROVE orders'[o].expires_at <= now'
      BY DEF Expiring, TrulyDue
    <3>1. Decided(r, o)
      BY <1>2, <2>1, ExpiryDecided
    <3>2. o \in Copies(r)'
      BY DEF Expiring, Copies
    <3>3. CASE requests[r].pc = "idle" /\ orders[o].expires_at <= now
      BY <2>2, <2>3, <3>3
    <3>4. CASE requests[r].pc = "expire" /\ o \in requests[r].due
      <4>1. <<r, o>> \notin overtaken
        BY <3>2, <3>4, OvertakenKept DEF Copies
      <4> QED BY <2>2, <2>3, <3>4, <4>1 DEF FreshInv, TrulyDue
    <3>5. CASE /\ requests[r].pc \in {"verify", "ensure", "detail"}
               /\ requests[r].order = o
               /\ Lapsed(r)
      <4>1. <<r, o>> \notin overtaken
        BY <3>2, <3>5, OvertakenKept DEF Copies
      <4>2. requests[r].expires_at = orders[o].expires_at
        BY <3>5, <4>1 DEF FreshInv, TrueCopy
      <4> QED BY <1>0, <2>2, <2>3, <3>5, <4>2 DEF Lapsed
    <3> QED BY <3>1, <3>3, <3>4, <3>5 DEF Decided
  <2> QED BY <2>4, <2>5
<1> QED BY <1>1, <1>2

RenewalInv == AccessInv /\ FreshInv

\* The invariant holds initially.
LEMMA RenewalInitInv == RenewalInit => RenewalInv
<1> SUFFICES ASSUME RenewalInit PROVE RenewalInv
  OBVIOUS
<1>1. AccessInv
  BY AccessInit DEF RenewalInit
<1>2. \A r \in Requests : requests[r].pc = "idle"
  BY DEF RenewalInit, Init, Idle
<1> QED BY <1>1, <1>2 DEF RenewalInv, FreshInv, TrueCopy, TrulyDue

\* The invariant is inductive.
LEMMA RenewalStep == RenewalInv /\ [RenewalNext]_renewalVars => RenewalInv'
<1> SUFFICES ASSUME RenewalInv, [RenewalNext]_renewalVars PROVE RenewalInv'
  OBVIOUS
<1>1. AccessInv'
  BY AccessStep DEF RenewalInv, RenewalNext, renewalVars
<1>2. CASE RenewalNext
  <2>1. SystemTypeOK /\ Placed /\ SystemNext /\ Overtake
    BY <1>2, NextSplits, TypeSplits DEF RenewalNext, RenewalInv, AccessInv
  <2> QED BY <1>1, <2>1, FreshStep DEF RenewalInv
<1>3. CASE UNCHANGED renewalVars
  <2>1. FreshInv'
    BY <1>3 DEF RenewalInv, FreshInv, TrueCopy, TrulyDue, renewalVars, vars
  <2> QED BY <1>1, <2>1 DEF RenewalInv
<1> QED BY <1>2, <1>3

\* The copies of the requests are true, unless a renewal has overtaken them.
THEOREM RenewalInvariant == RenewalSpec => []RenewalInv
  BY RenewalInitInv, RenewalStep, PTL DEF RenewalSpec

\* A live order is never cut short but by an administrator's move into the past
\* or by an expiry decided before the expiration was last moved
\* (ensure_order_state, expire_due_orders, update_order_expiration).
THEOREM RenewalNotCutShort == RenewalSpec => LiveNotCutShort
<1> DEFINE Kept ==
      \A o \in Orders :
        Live(o) /\ orders'[o].status = "expired"
        => \/ orders'[o].expires_at <= now
           \/ \E r \in Requests : /\ requests[r].pc = "commit"
                                  /\ o \in requests[r].due
                                  /\ <<r, o>> \in overtaken
<1>1. RenewalInv /\ [RenewalNext]_renewalVars => [Kept]_renewalVars
  <2> SUFFICES ASSUME RenewalInv, RenewalNext, NEW o \in Orders,
                      Live(o), orders'[o].status = "expired"
               PROVE  \/ orders'[o].expires_at <= now
                      \/ \E r \in Requests : /\ requests[r].pc = "commit"
                                             /\ o \in requests[r].due
                                             /\ <<r, o>> \in overtaken
    OBVIOUS
  <2>1. SystemTypeOK /\ Placed /\ SystemNext
    BY NextSplits, TypeSplits DEF RenewalNext, RenewalInv, AccessInv
  <2>2. orders[o].status = "active" /\ ~(orders[o].expires_at <= now)
    BY <2>1 DEF Live, SystemTypeOK, OrderType
  <2>3. CASE RowCommitted(o)
    <3>1. PICK r \in Requests : /\ Commit(r)
                                /\ o \in requests[r].due
                                /\ orders'[o].status = requests[r].to
      BY <2>3 DEF RowCommitted
    <3>2. requests[r].pc = "commit" /\ requests[r].to = "expired"
      BY <3>1 DEF Commit
    <3>3. <<r, o>> \in overtaken
      BY <2>2, <3>1, <3>2 DEF RenewalInv, FreshInv, TrulyDue
    <3> QED BY <3>1, <3>2, <3>3
  <2>4. CASE RowMoved(o)
    BY <2>2, <2>4 DEF RowMoved
  <2>5. ~RowKept(o) /\ ~RowReactivated(o)
    BY <2>2 DEF RowKept, RowReactivated, Reactivated
  <2> QED BY <2>1, <2>3, <2>4, <2>5, RowStep
<1>2. RenewalSpec => [][Kept]_renewalVars
  BY <1>1, RenewalInvariant, PTL DEF RenewalSpec
<1> QED BY <1>2 DEF LiveNotCutShort
=============================================================================
