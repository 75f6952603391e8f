----------------------------- MODULE RetryQueue -----------------------------
(***************************************************************************)
(* retry_due_deliveries (webhook_service.py): which orders a run of the    *)
(* retry job takes up.  A run selects at most Limit active orders that are *)
(* due, in the order of next_delivery_attempt_at with NULL first, and then *)
(* attempts them one by one; attempt_delivery turns those away that have   *)
(* used up their attempts.                                                 *)
(*                                                                         *)
(* Only the order of the times matters here, so the undelivered orders     *)
(* form a sequence in that order, whose first `due' members are due.       *)
(* Orders with the same time, or with NULL, are given a fixed order, which *)
(* SQL leaves open.  A time that a transaction reads is that of its        *)
(* commit.  What an attempt does between its two transactions is in        *)
(* Delivery.                                                               *)
(***************************************************************************)
EXTENDS Naturals, SequencesExt

CONSTANTS
  Orders,
  WebThreads,            \* threads of the web service
  DeliveryMaxAttempts,  \* G2G_DELIVERY_MAX_ATTEMPTS
  Limit,                \* --limit of manage.py retry-deliveries
  QueueCap              \* bound: attempts on one order, forced ones included

ASSUME QueueAssumption ==
  /\ {DeliveryMaxAttempts, Limit, QueueCap} \subseteq Nat \ {0}
  /\ DeliveryMaxAttempts <= QueueCap

VARIABLES
  known,        \* orders that have arrived
  queue,        \* orders to be delivered, by next_delivery_attempt_at
  due,          \* how many of them are due
  claimed,      \* orders claimed by an attempt that is not stale yet
  ended,        \* orders that are not active: they keep their time
  attempts,     \* order -> attempts made
  underway,     \* <<thread of the web service, order it attempts>>
  batch,        \* what the running job has still to do
  busy          \* whether it is in an attempt on the first of these

queueVars == <<known, queue, due, claimed, ended, attempts, underway, batch, busy>>

QueueInit ==
  /\ known = {}
  /\ queue = <<>>
  /\ due = 0
  /\ claimed = {}
  /\ ended = {}
  /\ attempts = [o \in Orders |-> 0]
  /\ underway = {}
  /\ batch = <<>>
  /\ busy = FALSE

----------------------------------------------------------------------------

Queued(o) == Contains(queue, o)

Waiting(o) == Queued(o) /\ o \notin ended

Place(o) == CHOOSE i \in 1 .. Len(queue) : queue[i] = o

\* The orders that a run selects before o.
Ahead(o) == {queue[i] : i \in 1 .. Place(o) - 1} \ ended

Without(o) == IF Queued(o) THEN RemoveAt(queue, Place(o)) ELSE queue

Exhausted(o) == attempts[o] >= DeliveryMaxAttempts

\* The number of due orders without o.
DueWithout(o) == IF Queued(o) /\ Place(o) <= due THEN due - 1 ELSE due

\* The delivery status or the time of o no longer match the query.
Leave(o) ==
  /\ queue' = Without(o)
  /\ due' = DueWithout(o)

\* Faulty variant: next_delivery_attempt_at stays NULL, as the claim set it.
PutBack_NoDelay(o) ==
  /\ queue' = <<o>> \o Without(o)
  /\ due' = DueWithout(o) + 1

\* A failure: the next attempt is later than now, so the order goes behind all
\* that are due.
PutBack(o) ==
  /\ \E i \in DueWithout(o) + 1 .. Len(Without(o)) + 1 :
       queue' = InsertAt(Without(o), i, o)
  /\ due' = DueWithout(o)

\* The first transaction of an attempt: the status is "delivering" and
\* next_delivery_attempt_at NULL.
Claim(o) ==
  /\ attempts[o] < QueueCap
  /\ attempts' = [attempts EXCEPT ![o] = @ + 1]
  /\ Leave(o)
  /\ claimed' = claimed \cup {o}
  /\ UNCHANGED <<known, ended>>

\* _finish_delivery: delivered, or failed, whatever has become of the order
\* since the claim.
Record(o) ==
  /\ Leave(o) \/ PutBack(o)
  /\ claimed' = claimed \ {o}
  /\ UNCHANGED <<known, ended, attempts>>

\* The claim is stale, whether or not its attempt still runs: the order is
\* selected again, NULL first.
BecomesStale(o) ==
  /\ o \in claimed
  /\ claimed' = claimed \ {o}
  /\ queue' = <<o>> \o queue
  /\ due' = due + 1
  /\ UNCHANGED <<known, ended, attempts, underway, batch, busy>>

----------------------------------------------------------------------------
(* The retry job.                                                          *)

\* The due orders that the query finds.
Found == SelectSeq(SubSeq(queue, 1, due), LAMBDA o : o \notin ended)

\* Faulty variant: one order fewer.
Selected_OneShort(n) == SubSeq(Found, 1, n - 1)

Selected(n) == SubSeq(Found, 1, n)

JobSelect ==
  /\ batch = <<>>
  /\ Found # <<>>
  /\ batch' = Selected(IF Len(Found) < Limit THEN Len(Found) ELSE Limit)
  /\ UNCHANGED <<known, queue, due, claimed, ended, attempts, underway, busy>>

\* attempt_delivery looks at the order again: it may be exhausted, or no longer
\* waiting.  Its time is not looked at.
JobClaim ==
  /\ batch # <<>> /\ ~busy
  /\ Waiting(Head(batch)) /\ ~Exhausted(Head(batch))
  /\ Claim(Head(batch))
  /\ busy' = TRUE
  /\ UNCHANGED <<underway, batch>>

JobPasses ==
  /\ batch # <<>> /\ ~busy
  /\ ~Waiting(Head(batch)) \/ Exhausted(Head(batch))
  /\ batch' = Tail(batch)
  /\ UNCHANGED <<known, queue, due, claimed, ended, attempts, underway, busy>>

JobRecords ==
  /\ busy
  /\ Record(Head(batch))
  /\ batch' = Tail(batch)
  /\ busy' = FALSE
  /\ UNCHANGED underway

\* The job is killed during an attempt.  (Killed between two, it loses no more
\* than its batch, and the next run selects again.)
JobKilled ==
  /\ busy
  /\ batch' = <<>>
  /\ busy' = FALSE
  /\ UNCHANGED <<known, queue, due, claimed, ended, attempts, underway>>

----------------------------------------------------------------------------
(* What others do.                                                         *)

\* A fulfilment event creates an order, due at once.
Arrives(o) ==
  /\ o \notin known
  /\ known' = known \cup {o}
  /\ queue' = InsertAt(queue, due + 1, o)
  /\ due' = due + 1
  /\ UNCHANGED <<claimed, ended, attempts, underway, batch, busy>>

\* A webhook, new or repeated, attempts a delivery whatever its time, and so
\* does the administrator, whatever the number of attempts.
WebClaims(w, o, force) ==
  /\ \A p \in Orders : <<w, p>> \notin underway
  /\ Waiting(o)
  /\ force \/ ~Exhausted(o)
  /\ Claim(o)
  /\ underway' = underway \cup {<<w, o>>}
  /\ UNCHANGED <<batch, busy>>

WebRecords(w, o) ==
  /\ <<w, o>> \in underway
  /\ Record(o)
  /\ underway' = underway \ {<<w, o>>}
  /\ UNCHANGED <<batch, busy>>

WebKilled(w, o) ==
  /\ <<w, o>> \in underway
  /\ underway' = underway \ {<<w, o>>}
  /\ UNCHANGED <<known, queue, due, claimed, ended, attempts, batch, busy>>

\* A delivery-status event or a reconciliation.
Settles(o) ==
  /\ Queued(o) \/ o \in claimed
  /\ Leave(o)
  /\ claimed' = claimed \ {o}
  /\ UNCHANGED <<known, ended, attempts, underway, batch, busy>>

\* The order expires or is revoked.
Ends(o) ==
  /\ o \in known \ ended
  /\ ended' = ended \cup {o}
  /\ UNCHANGED <<known, queue, due, claimed, attempts, underway, batch, busy>>

\* The administrator extends or reactivates it: it has its old place again.
Returns(o) ==
  /\ o \in ended
  /\ ended' = ended \ {o}
  /\ UNCHANGED <<known, queue, due, claimed, attempts, underway, batch, busy>>

\* Time passes: the next order becomes due.
NextDue ==
  /\ due < Len(queue)
  /\ due' = due + 1
  /\ UNCHANGED <<known, queue, claimed, ended, attempts, underway, batch, busy>>

QueueNext ==
  \/ JobSelect
  \/ JobClaim
  \/ JobPasses
  \/ JobRecords
  \/ JobKilled
  \/ NextDue
  \/ \E o \in Orders :
       \/ Arrives(o)
       \/ BecomesStale(o)
       \/ Settles(o)
       \/ Ends(o)
       \/ Returns(o)
       \/ \E w \in WebThreads :
            \/ \E force \in BOOLEAN : WebClaims(w, o, force)
            \/ WebRecords(w, o)
            \/ WebKilled(w, o)

QueueSpec == QueueInit /\ [][QueueNext]_queueVars

\* The job runs again and again and works through what it selected (every call
\* of an attempt has a timeout); time passes.  Kills, webhooks and the
\* administrator are left free.
FairQueueSpec ==
  /\ QueueSpec
  /\ WF_queueVars(JobSelect)
  /\ WF_queueVars(JobClaim \/ JobPasses \/ JobRecords)
  /\ WF_queueVars(NextDue)
  /\ \A o \in Orders : WF_queueVars(BecomesStale(o))

----------------------------------------------------------------------------
(* Properties.                                                             *)

\* An active order with attempts left whose key is not delivered.
Pending(o) == (Waiting(o) \/ o \in claimed \ ended) /\ ~Exhausted(o)

\* Orders that have used up their attempts and still take a place in a batch.
Blocking == {o \in Orders : Waiting(o) /\ Exhausted(o)}

\* The administrator does not go on for ever bringing orders back.
ReturnsStop == <>[][ended \subseteq ended']_ended

\* Every order the retry job is responsible for has its turn: none waits for
\* ever with attempts left, neither delivered nor ended, provided that in the
\* end fewer orders than the limit have used up theirs and are left in the
\* table (the ORDER BY and LIMIT of retry_due_deliveries, which does not look
\* at delivery_attempts).
ServedUnlessBlocked ==
  <>[](Cardinality(Blocking) < Limit) /\ ReturnsStop
    => \A o \in Orders : []<>~Pending(o)

\* Who is in an attempt on o.
Attempting(o) ==
  <<{w \in WebThreads : <<w, o>> \in underway}, busy /\ Head(batch) = o>>

\* Orders that are claimed and on which no attempt begins or is over in a step.
Forgotten == {o \in claimed : Attempting(o)' = Attempting(o)}

\* A due order stays due and nothing overtakes it, as long as no attempt on it
\* begins or is over: neither a new order nor one that failed gets in front of
\* it, however often job, webhooks and administrator attempt others, and
\* however late they finish; only an order whose claim has become stale does,
\* and one that comes back after its end (the time _finish_delivery sets, and
\* ORDER BY next_delivery_attempt_at NULLS FIRST).
NoOvertaking ==
  [][\A o \in Orders :
       /\ Waiting(o) /\ Place(o) <= due
       /\ Waiting(o)' /\ Attempting(o)' = Attempting(o)
       => /\ Place(o)' <= due'
          /\ Ahead(o)' \subseteq Ahead(o) \cup Forgotten \cup ended]_queueVars

\* What README.md asks of the job, "Schedule `python manage.py
\* retry-deliveries --limit 50` every five minutes": every order has its turn.
EveryOrderServed == ReturnsStop => \A o \in Orders : []<>~Pending(o)
=============================================================================
