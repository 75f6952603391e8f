------------------------------ MODULE Delivery ------------------------------
(***************************************************************************)
(* Handing an order's key to the marketplace: attempt_delivery, its retry  *)
(* by cron and by hand, and the reconciliation with the marketplace's own  *)
(* delivery status (webhook_service.py, g2g.py).                           *)
(*                                                                         *)
(* An attempt is a transaction that claims the order, calls to the         *)
(* marketplace outside any transaction, and a transaction that records the *)
(* outcome.  Both transactions hold the order's advisory lock and read the *)
(* row after they have it, so each is one step.  A web thread or the cron  *)
(* job can be killed between them.  Times are relative: an age counts up   *)
(* to StaleAge, a wait counts down to 0.                                   *)
(***************************************************************************)
EXTENDS OrderTable, Sequences

CONSTANTS
  Web,          \* threads of the web service
  Cron,         \* processes running retry-deliveries
  MaxAttempts,  \* G2G_DELIVERY_MAX_ATTEMPTS
  RetryBase,    \* G2G_DELIVERY_RETRY_BASE_SECONDS
  MaxDelay,     \* the limit of 3600 seconds between attempts
  StaleAge,     \* G2G_DELIVERY_STALE_SECONDS
  AttemptCap    \* bound: attempts on one order, forced ones included

ASSUME DeliveryAssumption ==
  /\ {MaxAttempts, RetryBase, MaxDelay, StaleAge, AttemptCap} \subseteq Nat \ {0}
  /\ Web \cap Cron = {}

VARIABLES
  pace,     \* order -> attempts made, age of the last, wait until the next
  rows,     \* order -> its rows in delivery_attempts
  threads,  \* thread -> where it is in an attempt or a reconciliation
  g2g,      \* order -> what the marketplace holds: nothing, the key, or a
            \* completed delivery
  bared     \* history: attempts under way whose claim the failure of another
            \* attempt has overwritten

deliveryVars == <<orders, pace, rows, threads, g2g, bared>>

Threads == Web \cup Cron

Idle == [pc |-> "idle", order |-> Null, force |-> FALSE, number |-> 0,
         item |-> Null, ok |-> FALSE, age |-> 0, seen |-> "pending"]

NoPace == [attempts |-> 0, age |-> StaleAge, wait |-> 0]

DeliveryInit ==
  /\ OrdersInit
  /\ pace = [o \in OrderIds |-> NoPace]
  /\ rows = [o \in OrderIds |-> <<>>]
  /\ threads = [w \in Threads |-> Idle]
  /\ g2g = [o \in OrderIds |-> "none"]
  /\ bared = {}

----------------------------------------------------------------------------

Goto(w, pc) == threads' = [threads EXCEPT ![w].pc = pc]

Outcome(w, ok) == threads' = [threads EXCEPT ![w].pc = "finish", ![w].ok = ok]

\* The thread is between the two transactions of an attempt.
InFlight(w) == threads[w].pc \in {"prepare", "post", "confirm", "finish"}

\* Faulty variant: the delay is not limited.
RetryDelay_NoCap(n) == RetryBase * 2 ^ (n - 1)

\* _retry_delay: exponential, at most MaxDelay.
RetryDelay(n) ==
  LET delay == RetryBase * 2 ^ (n - 1)
  IN IF delay < MaxDelay THEN delay ELSE MaxDelay

(* Who asks for an attempt.                                                *)

Queue(w, o, force) ==
  /\ threads[w].pc = "idle"
  /\ threads' = [threads EXCEPT
                   ![w] = [Idle EXCEPT !.pc = "queued", !.order = o, !.force = force]]
  /\ UNCHANGED <<orders, pace, rows, g2g, bared>>

\* handle_webhook after a fulfilment event, new or repeated.
Submit(w, o) == w \in Web /\ HasRow(o) /\ Queue(w, o, FALSE)

\* The administrator retries, whatever the number of attempts.
AdminRetry(w, o) == w \in Web /\ HasRow(o) /\ Queue(w, o, TRUE)

\* Faulty variant: an attempt that was cut off is not selected again.
Due_NotInterrupted(o) ==
  /\ orders[o].status = "active"
  /\ orders[o].delivery_status \in {"pending", "failed"}
  /\ pace[o].wait = 0

\* retry_due_deliveries: what the query selects.
Due(o) ==
  /\ orders[o].status = "active"
  /\ orders[o].delivery_status \in {"pending", "failed", "delivering"}
  /\ pace[o].wait = 0
  /\ orders[o].delivery_status = "delivering" => pace[o].age = StaleAge

RetryDue(w, o) == w \in Cron /\ Due(o) /\ Queue(w, o, FALSE)

----------------------------------------------------------------------------
(* attempt_delivery                                                        *)

\* Faulty variant: an attempt in progress is not waited for.
Fresh_Never(o) == FALSE

Fresh(o) == orders[o].delivery_status = "delivering" /\ pace[o].age < StaleAge

\* Faulty variant: only orders made by hand are left alone.
Settled_ManualOnly(o) == orders[o].delivery_status = "manual"

\* Faulty variant: orders made by hand are handed over too.
Settled_DeliveredOnly(o) == orders[o].delivery_status = "delivered"

Settled(o) == orders[o].delivery_status \in {"delivered", "manual"}

Eligible(o, force) ==
  /\ orders[o].status = "active"
  /\ ~Settled(o)
  /\ ~Fresh(o)
  /\ force \/ pace[o].attempts < MaxAttempts

\* First transaction: the order is claimed, or left alone.
Begin(w) ==
  LET o == threads[w].order
      n == pace[o].attempts + 1
  IN /\ threads[w].pc = "queued"
     /\ IF Eligible(o, threads[w].force)
        THEN /\ n <= AttemptCap
             /\ orders' = [orders EXCEPT ![o].delivery_status = "delivering"]
             /\ pace' = [pace EXCEPT ![o] = [attempts |-> n, age |-> 0, wait |-> 0]]
             /\ rows' = [rows EXCEPT ![o] = Append(@, "started")]
             /\ threads' = [threads EXCEPT
                              ![w].pc = "prepare", ![w].number = n,
                              ![w].item = orders[o].delivery_id]
        ELSE /\ threads' = [threads EXCEPT ![w] = Idle]
             /\ UNCHANGED <<orders, pace, rows>>
     /\ UNCHANGED <<g2g, bared>>

\* The text is built and a missing item is looked up, which can fail.
Prepare(w) ==
  /\ threads[w].pc = "prepare"
  /\ \/ Outcome(w, FALSE)
     \/ \E d \in DeliveryIds :
          /\ threads[w].item \in {Null, d}
          /\ threads' = [threads EXCEPT ![w].pc = "post", ![w].item = d]
  /\ UNCHANGED <<orders, pace, rows, g2g, bared>>

\* deliver_code: the marketplace takes the key and says so.
PostAccepted(w) ==
  LET o == threads[w].order IN
  /\ threads[w].pc = "post"
  /\ \E s \in {"received", "delivered"} :
       g2g' = [g2g EXCEPT ![o] = IF @ = "none" THEN s ELSE @]
  /\ Outcome(w, TRUE)
  /\ UNCHANGED <<orders, pace, rows, bared>>

\* It takes the key, but the answer is lost.
PostAnswerLost(w) ==
  LET o == threads[w].order IN
  /\ threads[w].pc = "post"
  /\ g2g' = [g2g EXCEPT ![o] = IF @ = "none" THEN "received" ELSE @]
  /\ Outcome(w, FALSE)
  /\ UNCHANGED <<orders, pace, rows, bared>>

PostRefused(w) ==
  /\ threads[w].pc = "post"
  /\ Outcome(w, FALSE)
  /\ UNCHANGED <<orders, pace, rows, g2g, bared>>

\* HTTP 409: the marketplace already holds a delivery, or will take none now.
PostConflict(w) ==
  /\ threads[w].pc = "post"
  /\ Goto(w, "confirm")
  /\ UNCHANGED <<orders, pace, rows, g2g, bared>>

\* Faulty variant: a conflict is taken for a delivery.
Complete_Assumed(o) == TRUE

\* delivery_is_complete, of the marketplace's answer.
Complete(o) == g2g[o] = "delivered"

\* The conflict is settled by get_delivery_status, which can fail too.
Confirm(w) ==
  /\ threads[w].pc = "confirm"
  /\ \E ok \in {FALSE, Complete(threads[w].order)} : Outcome(w, ok)
  /\ UNCHANGED <<orders, pace, rows, g2g, bared>>

OthersOn(o, w) == {u \in Threads \ {w} : InFlight(u) /\ threads[u].order = o}

\* _finish_delivery.  A success that cannot be recorded is recorded as a
\* failure (the handler of unexpected exceptions).  Whose claim it is that the
\* outcome overwrites is not looked at.
Finish(w) ==
  LET o == threads[w].order IN
  /\ threads[w].pc = "finish"
  /\ \E ok \in {FALSE, threads[w].ok} :
       /\ orders' = [orders EXCEPT
            ![o].delivery_status = IF ok THEN "delivered" ELSE "failed",
            ![o].delivery_id = IF @ = Null THEN threads[w].item ELSE @]
       /\ pace' = [pace EXCEPT ![o].wait =
                     IF ok THEN 0 ELSE RetryDelay(pace[o].attempts)]
       /\ rows' = [rows EXCEPT ![o][threads[w].number] =
                     IF ok THEN "delivered" ELSE "failed"]
       /\ bared' = (bared \cup IF ok THEN {} ELSE OthersOn(o, w)) \ {w}
  /\ threads' = [threads EXCEPT ![w] = Idle]
  /\ UNCHANGED g2g

\* The thread or process is killed.
Crash(w) ==
  /\ threads[w].pc # "idle"
  /\ threads' = [threads EXCEPT ![w] = Idle]
  /\ bared' = bared \ {w}
  /\ UNCHANGED <<orders, pace, rows, g2g>>

----------------------------------------------------------------------------
(* reconcile_delivery                                                      *)

ReconcileAsk(w, o) ==
  /\ threads[w].pc = "idle"
  /\ w \in Web
  /\ HasRow(o)
  /\ orders[o].delivery_id # Null
  /\ threads' = [threads EXCEPT ![w] = [Idle EXCEPT !.pc = "ask", !.order = o]]
  /\ UNCHANGED <<orders, pace, rows, g2g, bared>>

ReconcileAnswer(w) ==
  /\ threads[w].pc = "ask"
  /\ IF Complete(threads[w].order)
     THEN Goto(w, "read") ELSE threads' = [threads EXCEPT ![w] = Idle]
  /\ UNCHANGED <<orders, pace, rows, g2g, bared>>

\* The row is read before the advisory lock is taken and not refreshed.
ReconcileRead(w) ==
  /\ threads[w].pc = "read"
  /\ threads' = [threads EXCEPT
                   ![w].pc = "record",
                   ![w].seen = orders[threads[w].order].delivery_status]
  /\ UNCHANGED <<orders, pace, rows, g2g, bared>>

\* A status that was read as "delivered" is not written.  (Whether the wait is
\* reset makes no difference: the wait of a delivered order is not looked at.)
ReconcileWrite(w) ==
  LET o == threads[w].order IN
  /\ threads[w].pc = "record"
  /\ orders' = IF threads[w].seen = "delivered" THEN orders
               ELSE [orders EXCEPT ![o].delivery_status = "delivered"]
  /\ pace' = IF threads[w].seen = "delivered" THEN pace
             ELSE [pace EXCEPT ![o].wait = 0]
  /\ threads' = [threads EXCEPT ![w] = Idle]
  /\ UNCHANGED <<rows, g2g, bared>>

----------------------------------------------------------------------------
(* What others do: the marketplace, the webhooks, the portal, the clock;   *)
(* see OrderTable for what they do to a row.                               *)

G2GCompletes(o) ==
  /\ g2g[o] = "received"
  /\ g2g' = [g2g EXCEPT ![o] = "delivered"]
  /\ UNCHANGED <<orders, pace, rows, threads, bared>>

OrderArrives(o) ==
  /\ RowArrives(o)
  /\ UNCHANGED <<pace, rows, threads, g2g, bared>>

\* A message names the item or the purchase, or reports a delivery, which only
\* a completed one is.
MessageArrives(o) ==
  /\ MessageChangesRow(o)
  /\ LET reported == orders'[o].delivery_status # orders[o].delivery_status IN
     /\ reported => Complete(o)
     /\ pace' = IF reported THEN [pace EXCEPT ![o].wait = 0] ELSE pace
  /\ UNCHANGED <<rows, threads, g2g, bared>>

PortalStep(o) ==
  /\ PortalChangesStatus(o)
  /\ UNCHANGED <<pace, rows, threads, g2g, bared>>

Older(age) == IF age < StaleAge THEN age + 1 ELSE age

Tick ==
  /\ pace' = [o \in OrderIds |->
                [pace[o] EXCEPT !.age = Older(@), !.wait = IF @ > 0 THEN @ - 1 ELSE 0]]
  /\ threads' = [w \in Threads |->
                   IF InFlight(w) THEN [threads[w] EXCEPT !.age = Older(@)]
                   ELSE threads[w]]
  /\ UNCHANGED <<orders, rows, g2g, bared>>

Attempt(w) ==
  \/ Begin(w)
  \/ Prepare(w)
  \/ PostAccepted(w)
  \/ PostAnswerLost(w)
  \/ PostRefused(w)
  \/ PostConflict(w)
  \/ Confirm(w)
  \/ Finish(w)

Reconcile(w) ==
  \/ \E o \in OrderIds : ReconcileAsk(w, o)
  \/ ReconcileAnswer(w)
  \/ ReconcileRead(w)
  \/ ReconcileWrite(w)

DeliveryNext ==
  \/ \E w \in Threads :
       \/ \E o \in OrderIds : Submit(w, o) \/ AdminRetry(w, o) \/ RetryDue(w, o)
       \/ Attempt(w)
       \/ Reconcile(w)
       \/ Crash(w)
  \/ \E o \in OrderIds :
       \/ G2GCompletes(o)
       \/ OrderArrives(o)
       \/ MessageArrives(o)
       \/ PortalStep(o)
  \/ Tick

DeliverySpec == DeliveryInit /\ [][DeliveryNext]_deliveryVars

----------------------------------------------------------------------------
(* Fairness.  Time passes.  A thread carries its attempt on (every call to *)
(* the marketplace has a timeout).  The cron job runs again and again and  *)
(* walks through all the orders it selected, so an order that is due again *)
(* and again is taken up, and the job is not killed each time just before  *)
(* it claims the order.  Nothing is assumed of kills during an attempt, of *)
(* the marketplace's answers, of webhooks or of the administrator.         *)
BeginFor(w, o) == threads[w].order = o /\ Begin(w)

Fairness ==
  /\ WF_deliveryVars(Tick)
  /\ \A w \in Threads : WF_deliveryVars(Attempt(w))
  /\ \A o \in OrderIds :
       /\ SF_deliveryVars(\E w \in Cron : RetryDue(w, o))
       /\ SF_deliveryVars(\E w \in Cron : BeginFor(w, o))

FairDeliverySpec == DeliverySpec /\ Fairness

----------------------------------------------------------------------------
(* Properties.                                                             *)

\* The type of the state.
DeliveryTypeOK ==
  /\ OrdersTypeOK
  /\ pace \in [OrderIds -> [attempts : 0 .. AttemptCap, age : 0 .. StaleAge,
                            wait : 0 .. MaxDelay]]
  /\ rows \in [OrderIds -> Seq({"started", "delivered", "failed"})]
  /\ threads \in [Threads ->
       [pc : {"idle", "queued", "prepare", "post", "confirm", "finish",
              "ask", "read", "record"},
        order : OrderIds \cup {Null}, force : BOOLEAN, number : 0 .. AttemptCap,
        item : DeliveryIds \cup {Manual, Null}, ok : BOOLEAN,
        age : 0 .. StaleAge, seen : DeliveryStatus]]
  /\ g2g \in [OrderIds -> {"none", "received", "delivered"}]
  /\ bared \subseteq Threads

\* A key that the portal says was delivered is with the marketplace: neither
\* a conflict, a lost answer, a stale attempt nor a reconciliation that comes
\* late makes it up (attempt_delivery, reconcile_delivery, status events).
HonestDelivery ==
  \A o \in OrderIds :
    /\ orders[o].delivery_status = "delivered" => g2g[o] # "none"
    /\ \A n \in 1 .. Len(rows[o]) : rows[o][n] = "delivered" => g2g[o] # "none"

\* Two attempts run on one order at the same time only if one of the two has
\* itself run for as long as the portal takes an attempt to be lost, or has
\* had its claim overwritten by the failure of an attempt it overlapped with:
\* webhook, cron and administrator may all ask for one at once (the claim in
\* attempt_delivery, G2G_DELIVERY_STALE_SECONDS, and _finish_delivery, which
\* writes "failed" whoever holds the claim).
OneAttemptAtATime ==
  \A v, w \in Threads :
    /\ v # w
    /\ InFlight(v)
    /\ InFlight(w)
    /\ threads[v].order = threads[w].order
    => \/ StaleAge \in {threads[v].age, threads[w].age}
       \/ {v, w} \cap bared # {}

\* An order recorded as delivered is not sent again: nothing takes it out of
\* that status but the failure of an attempt that was under way before it was
\* recorded (attempt_delivery, _finish_delivery).
DeliveredLostOnlyToFailure ==
  [][\A o \in OrderIds :
       orders[o].delivery_status = "delivered" /\ orders'[o].delivery_status # "delivered"
       => /\ orders'[o].delivery_status = "failed"
          /\ \E w \in Threads : threads[w].pc = "finish" /\ threads[w].order = o]_deliveryVars

\* Whatever comes between their transactions, an attempt or a reconciliation
\* changes no more of a row than its delivery, replaces no item, and leaves the
\* rows created by hand alone (what WebhookIngest expects of attempt_delivery
\* and reconcile_delivery).
AttemptsKeepToRows ==
  [][threads' # threads => orders' = orders \/ \E o \in OrderIds : DeliveryChangesRow(o)]_deliveryVars

\* No order is forgotten: an active order whose key is not delivered is in the
\* end delivered, or ended, or has used up its attempts, although threads are
\* killed in the middle of attempts and answers are lost (retry_due_deliveries).
NoOrderForgotten ==
  \A o \in OrderIds :
    (orders[o].status = "active" /\ ~Settled(o))
      ~> \/ Settled(o)
         \/ orders[o].status # "active"
         \/ pace[o].attempts >= MaxAttempts
=============================================================================
