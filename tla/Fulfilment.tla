----------------------------- MODULE Fulfilment -----------------------------
(***************************************************************************)
(* handle_webhook: the endpoint of WebhookIngest composed with the delivery *)
(* attempts that hand the key of an order to the marketplace, and the      *)
(* choice of the delivery item it is handed over under.                    *)
(*                                                                         *)
(* An order without a delivery_id takes its item from the event last       *)
(* recorded for it, and else from the marketplace, between the two         *)
(* transactions of the attempt.  Messages, the portal and other attempts   *)
(* come in between.  How often an order is attempted and when it is due    *)
(* again is the subject of Delivery: here it may be at any time.           *)
(***************************************************************************)
EXTENDS WebhookIngest, Sequences

CONSTANTS
  Senders,  \* web threads and cron processes
  Found     \* body -> the items resolve_delivery_id can return for it: the one
            \* it names, none when its records are ambiguous, any of the
            \* marketplace's when it names none

ASSUME FoundAssumption == Found \in [Webhooks -> SUBSET DeliveryIds]

VARIABLES
  ledger,     \* identifiers of the events, in the order of their rows
  senders,    \* sender -> the attempt it makes
  lapsed,     \* orders whose attempt is older than G2G_DELIVERY_STALE_SECONDS
  sentUnder,  \* order -> the items the marketplace received its key under
  late,       \* history: order -> keys sent since it was cancelled
  upset       \* history: order -> what has come between the steps of an attempt

attemptVars == <<ledger, senders, lapsed, sentUnder, late, upset>>
fulfilVars == <<ingestVars, attemptVars>>

Idle == [pc |-> "idle", order |-> Null, item |-> Null, source |-> "none", ok |-> FALSE]

FulfilInit ==
  /\ IngestInit
  /\ ledger = <<>>
  /\ senders = [w \in Senders |-> Idle]
  /\ lapsed = {}
  /\ sentUnder = [o \in OrderIds |-> {}]
  /\ late = [o \in OrderIds |-> 0]
  /\ upset = [o \in OrderIds |-> {}]

Attempting(w, o) == senders[w].pc # "idle" /\ senders[w].order = o

----------------------------------------------------------------------------
(* The endpoint and the portal, with what the attempts make of them.       *)

\* History: a cancellation that was overridden is not counted from any more,
\* and an item is named although an attempt does not use it.
Observe ==
  /\ late' = [o \in OrderIds |-> IF o \in tombstones' \ overridden' THEN late[o] ELSE 0]
  /\ upset' = [o \in OrderIds |->
       IF /\ orders'[o].delivery_id # orders[o].delivery_id
          /\ \E w \in Senders : /\ Attempting(w, o)
                                /\ senders[w].item # orders'[o].delivery_id
       THEN upset[o] \cup {"renamed"} ELSE upset[o]]

\* A message: its event takes the next row of the ledger when it is new.
HandleWebhook(m) ==
  /\ Ingest(m)
  /\ ledger' = IF events[m.event_id].body = Null THEN Append(ledger, m.event_id)
               ELSE ledger
  /\ Observe
  /\ UNCHANGED <<senders, lapsed, sentUnder>>

Portal(o) ==
  /\ CreateManual(o) \/ PortalStep(o)
  /\ Observe
  /\ UNCHANGED <<ledger, senders, lapsed, sentUnder>>

----------------------------------------------------------------------------
(* attempt_delivery                                                        *)

\* Faulty variant: only what was delivered already is left alone.
Eligible_AnyStatus(o) ==
  /\ orders[o].delivery_status \in {"pending", "failed", "delivering"}
  /\ orders[o].delivery_status = "delivering" => o \in lapsed

Eligible(o) ==
  /\ orders[o].status = "active"
  /\ orders[o].delivery_status \in {"pending", "failed", "delivering"}
  /\ orders[o].delivery_status = "delivering" => o \in lapsed

\* First transaction; an attempt that is turned away changes nothing.
Claim(w, o) ==
  /\ senders[w].pc = "idle"
  /\ Eligible(o)
  /\ orders' = [orders EXCEPT ![o].delivery_status = "delivering"]
  /\ senders' = [senders EXCEPT
       ![w] = [Idle EXCEPT !.order = o, !.item = orders[o].delivery_id,
                           !.pc = IF orders[o].delivery_id = Null THEN "lookup" ELSE "post"]]
  /\ lapsed' = lapsed \ {o}
  /\ upset' = IF \E v \in Senders : Attempting(v, o)
              THEN [upset EXCEPT ![o] = @ \cup {"outlived"}] ELSE upset
  /\ UNCHANGED <<events, tombstones, overridden, ledger, sentUnder, late>>

\* The delivery in progress counts as lost from now on.
Lapse(o) ==
  /\ orders[o].delivery_status = "delivering"
  /\ lapsed' = lapsed \cup {o}
  /\ UNCHANGED <<ingestVars, ledger, senders, sentUnder, late, upset>>

\* The last of the order's rows in the ledger.
LatestOf(o) ==
  {i \in DOMAIN ledger :
     /\ events[ledger[i]].body.order = o
     /\ \A j \in DOMAIN ledger : j > i => events[ledger[j]].body.order # o}

Take(w, item, source) ==
  senders' = [senders EXCEPT ![w].pc = "post", ![w].item = item, ![w].source = source]

Fail(w) == senders' = [senders EXCEPT ![w].pc = "finish"]

\* The item is looked up in the last event, whatever its type and outcome.
LookUp(w) ==
  LET latest == LatestOf(senders[w].order) IN
  /\ senders[w].pc = "lookup"
  /\ \/ Fail(w)
     \/ \E i \in latest :
          LET m == events[ledger[i]].body IN \E d \in Found[m] : Take(w, d, m.kind)
     \/ latest = {} /\ \E d \in DeliveryIds : Take(w, d, "g2g")
  /\ UNCHANGED <<ingestVars, ledger, lapsed, sentUnder, late, upset>>

\* deliver_code and, after a conflict, get_delivery_status: the marketplace
\* takes the key or not, and the sender hears of a success or not.
Post(w) ==
  LET o == senders[w].order IN
  /\ senders[w].pc = "post"
  /\ \E ok \in BOOLEAN : senders' = [senders EXCEPT ![w].pc = "finish", ![w].ok = ok]
  /\ \/ UNCHANGED <<sentUnder, late>>
     \/ /\ sentUnder' = [sentUnder EXCEPT ![o] = @ \cup {senders[w].item}]
        /\ late' = IF o \in tombstones \ overridden
                   THEN [late EXCEPT ![o] = @ + 1] ELSE late
  /\ UNCHANGED <<ingestVars, ledger, lapsed, upset>>

\* Faulty variant: a failed attempt leaves no item.
ItemOnRecord_OnSuccess(s) ==
  IF orders[s.order].delivery_id = Null /\ s.ok THEN s.item
  ELSE orders[s.order].delivery_id

\* Faulty variant: the item of the attempt replaces the one on record.
ItemOnRecord_Latest(s) == s.item

ItemOnRecord(s) ==
  IF orders[s.order].delivery_id = Null THEN s.item ELSE orders[s.order].delivery_id

\* _finish_delivery
Finish(w) ==
  LET s == senders[w] IN
  /\ s.pc = "finish"
  /\ orders' = [orders EXCEPT
       ![s.order].delivery_status = IF s.ok THEN "delivered" ELSE "failed",
       ![s.order].delivery_id = ItemOnRecord(s)]
  /\ senders' = [senders EXCEPT ![w] = Idle]
  /\ UNCHANGED <<events, tombstones, overridden, ledger, lapsed, sentUnder,
                 late, upset>>

\* The thread or process is killed.
Crash(w) ==
  /\ senders[w].pc # "idle"
  /\ senders' = [senders EXCEPT ![w] = Idle]
  /\ upset' = IF senders[w].pc = "finish"
              THEN [upset EXCEPT ![senders[w].order] = @ \cup {"killed"}] ELSE upset
  /\ UNCHANGED <<ingestVars, ledger, lapsed, sentUnder, late>>

FulfilNext ==
  \/ \E m \in Webhooks : HandleWebhook(m)
  \/ \E o \in OrderIds : Portal(o) \/ Lapse(o)
  \/ \E w \in Senders :
       \/ \E o \in OrderIds : Claim(w, o)
       \/ LookUp(w)
       \/ Post(w)
       \/ Finish(w)
       \/ Crash(w)

FulfilSpec == FulfilInit /\ [][FulfilNext]_fulfilVars

----------------------------------------------------------------------------
(* Properties.                                                             *)

\* A cancellation stops the hand-over: of an order that was cancelled and not
\* restored by the portal, at most the one attempt that had claimed it before
\* still sends its key, whatever is redelivered or retried (attempt_delivery,
\* which looks at the order only when it claims it).
AtMostOneLateKey ==
  \A o \in OrderIds : "outlived" \notin upset[o] => late[o] <= 1

\* Between attempts the row names the item its key was handed over under, and
\* no other: a lost answer or a failure does not make the retry choose anew.
\* Only a kill before the item is recorded, a message that names another item
\* meanwhile, or an attempt that outlives its time can bring them apart
\* (resolve_delivery_id, _finish_delivery).
KeyUnderItemOnRecord ==
  \A o \in OrderIds :
    /\ upset[o] = {}
    /\ \A w \in Senders : ~Attempting(w, o)
    => sentUnder[o] \subseteq {orders[o].delivery_id}

\* What WebhookIngest assumes of delivery attempts is what they do: endpoint
\* and attempts together implement it, so that its properties hold of both.
ImplementsIngest == IngestSpec

\* A key is never handed over under an item taken from an event of a type that
\* is only stored and acknowledged (README.md:64-65).
UnknownNeverFulfil ==
  \A w \in Senders : senders[w].pc = "post" => senders[w].source # "other"
=============================================================================
