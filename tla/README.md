# Verification of the TOTP access portal

The program is a small Flask service with a PostgreSQL database.  A seller sells time-limited
access to a one-time-code (TOTP) generator on the G2G marketplace.  G2G announces a sale with a
webhook; the portal creates an *order* with an access key and hands the key to G2G; the buyer
unlocks a *buyer session* with the key and reads codes until the order expires or is revoked.  An
administrator extends, reactivates and revokes orders, retries deliveries and edits the account
that is sold.

The service runs as `alembic upgrade head && gunicorn --workers 2 --threads 4` (`render.yaml`),
next to cron jobs that run `manage.py` commands.  So up to eight request threads and several
commands share the database, which runs at READ COMMITTED.  That is where the hard behaviour is,
and what this project is about.

Contents: [inventory](#inventory), [modules](#modules-and-how-they-correspond-to-the-code),
[runs](#runs), [proofs](#proofs), [findings](#findings), [not modelled](#not-modelled),
[plan](#plan).

## Inventory

| Component | State | Operations | What makes it correct |
|---|---|---|---|
| Buyer access (`services.py`, `app.py`, `admin.py`) | `orders.status`, `expires_at`; `buyer_sessions` | unlock, read a code, lazy and batch expiry, revoke order or session, set / extend expiration, reactivate, clean-up | access ends with the order, and not before; revocation is final; the limits on sessions and addresses |
| Webhook ingestion (`webhook_service.py`) | `webhook_events`, `cancellation_tombstones`, `orders` | `ingest_webhook`: fulfilment, revocation, delivery status, other; its two advisory locks | an event counts once and for good; one purchase per order; a cancellation wins whatever the order of arrival; every message is answered |
| Delivery (`webhook_service.py`, `g2g.py`) | `orders.delivery_*`; `delivery_attempts`; G2G's own state | `attempt_delivery`, `reconcile_delivery`, status events, retries by webhook, cron and administrator | no false "delivered"; one attempt at a time; no order forgotten |
| Webhook hand-over (`app.py`, `handle_webhook`) | none of its own | ingests, then attempts the delivery outside the transaction | the key goes out under the item on record; a cancellation stops it |
| Retry queue (`webhook_service.py`) | which failed orders are due, in which order | `retry_due_deliveries` with `--limit` | every order has its turn |
| Marketplace payloads (`g2g.py`) | none | `delivery_candidates`, `resolve_delivery_id`, `delivery_status_value`, `delivery_is_complete` | the item the document means is found, or none |
| Rate limiting and access log (`services.py`, `admin.py`) | `access_attempts`; the `login_failed` rows of `admin_audit` | count, verify, record | failures are bounded; a lock-out ends |
| One-time codes (`totp.py`, `static/app.js`, `/api/code`) | the page's code, countdown and timers | poll, countdown, answer, failure | no code shown for long after its end; the page follows the order |
| Account settings (`settings_service.py`) | one row of `portal_settings`, over the environment | read with defaults, save, restart | the fields shown belong to one account; a save never breaks a working portal |
| Administrator sessions (`admin.py`) | the signed cookie, shared with the buyer's pages | login, expiry, CSRF test, logout, language | a login ends in time; a form is good for its own login only |
| Audit log (`admin.py`) | `admin_audit` | a record with, or after, each change | the history of an expiration has no gap; every key shown has its record |
| Migrations (`migrations/versions`, `/ready`) | schema objects, `alembic_version` | upgrade and downgrade of two revisions, readiness test | a service that says it is ready has its whole schema |
| Visitor log, cryptography, signatures, configuration, localisation, pages | see [not modelled](#not-modelled) | | |

How they interact:

- G2G → `POST /webhooks/g2g` → signature test → `ingest_webhook` (one transaction) →
  `attempt_delivery` (transaction, calls to G2G, transaction) for a fulfilment, new or repeated.
- cron → `manage.py retry-deliveries`, `expire-orders`, `cleanup-data`.
- administrator → revocation, renewal, retry, reconciliation, manual orders, settings, each with a
  row of `admin_audit`.
- buyer → `POST /unlock` → a row of `buyer_sessions` and a cookie; the page polls
  `GET /api/code` → code and seconds left.
- All of them meet in the row of an order.  Ingestion and delivery take PostgreSQL advisory locks
  (the event's, then the order's); the administrator's renewal takes the row lock (`SELECT … FOR
  UPDATE`); everything else reads, decides, and writes later what it decided.
- Buyer and administrator pages of one browser meet in its cookie.

What is hard here, with the line of each in `PROJECT.json` under `hazards`: decisions from a row
that has changed since it was read; sessions inserted while the order ends; limits counted in one
statement and used in a later one; messages repeated, reordered and contradicting each other; two
locks per message; a worker killed between the two transactions of an attempt, or of a change and
its record; the marketplace's answer lost after it took the key; an attempt that outlives the time
after which it is given up for lost, and finishes all the same; the retry batch at its limit;
responses that bring an older cookie back; a page that counts down from an answer of unknown age; statements of a migration that
are committed one by one, or run by two deployments at once.

## Modules and how they correspond to the code

```
Entitlement          what the webhook endpoint promises (abstract)
    ^ implements
WebhookIngest        POST /webhooks/g2g, a message a step  -----+
    ^ implements           \ EXTENDS                            |
Fulfilment           IngestLocks                                +--> OrderTable
endpoint + attempts  the same, statement by statement           |    the row, and who may
Delivery             attempt_delivery, reconcile_delivery  -----+    do what to it
RetryQueue           retry_due_deliveries, across orders
G2GPayload           what is read out of G2G's documents

BuyerAccess          unlock, code, expiry, revocation, renewal
    ^ EXTENDS
Renewal              ... and which requests a renewal has overtaken (history)
RateLimit            the limit on failed keys and logins
CodePage             the buyer's page, /api/code, the period of a code
PortalSession        the cookie, login, CSRF, logout, language
AccountSettings      the shared account: row, environment, settings form
AuditTrail           the administrators' changes and their records
Migration            upgrade, downgrade, readiness

MC*                  instances for TLC              *Proofs   theorems
```

The components meet in the order row, which each module sees in part.  `BuyerAccess` has
`status`, `expires_at` and the sessions; `WebhookIngest` and `Delivery` share `OrderTable`.  What
each component may do to a row is stated once, there: `PortalChangesStatus`, `RowArrives`,
`MessageChangesRow`, `DeliveryChangesRow`.  The others take these steps freely as steps of their
environment (`PortalStep` and `DeliveryStep` in `WebhookIngest`; `PortalStep`, `OrderArrives` and
`MessageArrives` in `Delivery`), so a property of a module holds whatever the others do; and the
component itself is shown to take no others: `MessagesKeepToRows` and `AttemptsKeepToRows` are
checked and proved, `PortalTakesItsTurns` is proved of `BuyerAccess`, whose rows are another part of
the table.  That is not by construction: a commit writes what was decided from a copy, after others
have committed.  `Fulfilment` composes the endpoint with the attempts that follow it and shows
(`ImplementsIngest`) that the composition is a behaviour of `WebhookIngest`.

*Parts side by side.*  Four of the `MC` modules hold two components that share no state (`MCDatabase`,
`MCFulfilment`, `MCPortal`, `MCOffice`), and `MCWebhookIngest` one component in two degrees of detail.  A variable that the initial state chooses and no step changes
(`part`, `grain`, `traffic`) says which of them moves; the other one rests.  So one run explores
the sum of the two state spaces, not their product.

### How transactions are modelled

- *Handlers that read, decide and write* (`BuyerAccess`).  The ORM holds a copy of the row, writes
  only the columns that were changed, `WHERE id = …`, and no column carries a version.  So a
  handler is three steps: a read that copies `status` and `expires_at`; a step (`Collect`) that
  decides from the copy, sends the UPDATE of the order, which waits for its row lock, and lists the
  open sessions (the SELECT of `revoke_buyer_sessions` flushes the update first); and a commit
  (`Commit`) that writes the status, whatever it was before, and revokes the listed sessions.  The
  row lock is held between the last two (`Locked`).  If the clean-up has deleted one of the listed
  sessions, the ORM finds that an UPDATE matched no row and the transaction rolls back, status
  included.  Expiry of several orders in one transaction is taken with all its row locks at once.
- *Renewal* (`SetExpiration`, `ExtendExpiration`, `Reactivate`) reads under `FOR UPDATE`; in
  `BuyerAccess` it is one step that waits for `Locked`.  In `AuditTrail`, where the record written
  with it matters, taking the lock (`LockOrder`) and the change are two steps.
- *Advisory locks* (`WebhookIngest`, the claim and the record of an attempt in `Delivery`).  The
  order is read after the lock is taken, and every other writer of the delivery columns takes the
  same lock, so the transaction is one step.  `IngestLocks` takes it apart again: two locks, three
  reads, and a commit that writes the columns in which the copies were changed.  The portal changes
  the status under no advisory lock and so comes between these steps.
  `reconcile_delivery` reads *before* it takes the lock and does not refresh: it is two steps,
  `ReconcileRead` and `ReconcileWrite`, and a column that was read as `delivered` is not written.
- *Migrations.*  On PostgreSQL a run is one transaction, whose writes `open` holds until `Finish`;
  on SQLite every statement is committed as it is executed.
- *Time.*  `BuyerAccess`, `PortalSession`, `CodePage` and `AuditTrail` have a clock up to a bound.
  `Delivery` and `RateLimit` need only ages and waits relative to now, so they count them up to an
  age where nothing changes any more, and down to 0, and need no horizon.  `attempt_delivery` reads
  the clock just before it waits for the lock; the model uses the time of the claim.  `RetryQueue`
  needs only the order of the due times.

### BuyerAccess and Renewal

| Model | Code |
|---|---|
| `UnlockLookup`, `UnlockVerify` | `verify_buyer_key` and its `ensure_order_state` |
| `UnlockReload`, `WithinLimits`, `UnlockInsert` | `create_buyer_session`; the commit of the verification expired the ORM copy, so the order is read again |
| `CodeSession` … `CodeServed` | `active_buyer_session` for `GET /` and `GET /api/code` |
| `EnsureOrderState` | `ensure_order_state` (also called by the admin's order page: `DetailRead`, `DetailEnsure`) |
| `ExpireDueRead`, `ExpireDueWrite` | `expire_due_orders` |
| `RevokeRead`, `RevokeWrite` | `revoke_order`, whoever calls it |
| `RevokeSession`, `RevokeOrderSessions` | the admin's session controls |
| `MoveExpiration`, `Reactivate` | `update_order_expiration`, `reactivate_order` |
| `Cleanup` | the sessions part of `cleanup_operational_data` |
| `Abort` | a worker killed between two transactions |

The variables `dead`, `doomed`, `late` and `withdrawn` are history: no action reads them.  `doomed`
holds the requests that *began* when their order had lapsed or been ended; `late` the sessions
inserted after an order's end had listed its sessions.  `Renewal` adds `overtaken`: the requests
whose copy of an order is older than the last move of its expiration.

### WebhookIngest, OrderTable, Entitlement, IngestLocks

`Webhooks` is the set of message bodies that G2G may send, any of them at any time, any number of
times.  A message is a record of what the handlers tell apart: identifier, kind, order, identity
digest (buyer, seller, offer and quantity), delivery item, whether it is refused, whether it
reports a completed delivery.  Each branch of `ingest_webhook` is an action: a clash of bodies, a
repeated event, and the processing by kind.  `Entitlement` is the promise with no messages in it:
an order is granted to one purchase, once, and not after it was withdrawn; its item is named once.
`ImplementsEntitlement` maps the identity digest to the grant, `g2g_delivery_id` to the item and the
tombstones to the withdrawn orders.  Rows of the release before the digest existed (`Legacy`) are
initial states.

`IngestLocks` has a handler per thread: `Arrive`, `Lock` (twice), `ReadEvent`, `ReadTombstone`,
`ReadOrder`, then `CommitRepeated` or `CommitProcessed`, or `Rollback` (a kill, or the insert of a
row that an administrator has created meanwhile).  `Verdict` and `RowAfter` are what the copies make
of the message, `Flushed` is what the ORM writes of it.  Because the portal may change the status
between a read and the commit, a step of `IngestLocks` is not always a step of `WebhookIngest`; so
the promises themselves (`LedgerSound`, `CancellationWins`, `ImplementsEntitlement`) are checked of
the statements again, in the same run, and proved of them for any number of threads.

### Delivery

A thread claims the order (`Begin`), prepares the text and looks up a missing item (`Prepare`),
calls G2G (`Post…`, with the key taken, taken but the answer lost, refused, or a 409), settles a
409 with `get_delivery_status` (`Confirm`) and records the outcome (`Finish`).  `Crash` kills it
anywhere.  `g2g` is what the marketplace holds; it is external and moves on its own
(`G2GCompletes`).  `Finish` does not ask whose claim the row shows, as the code does not: an attempt
that was overtaken writes "failed" over the claim of the one that overtook it, and the order can be
claimed once more beside that one.  `bared` (history) has the attempts under way whose claim was
overwritten so; an attempt leaves it when it ends.

### Fulfilment

`HandleWebhook` is `Ingest` of `WebhookIngest`, and keeps the order in which events took their rows
(`ledger`).  Senders (web threads and cron) `Claim` an order, `LookUp` its item in the event *last*
recorded for it, whatever its type and outcome, or ask G2G, `Post` the key and `Finish`.  How often
and when is the subject of `Delivery`; here an order may be attempted at any time.  `sentUnder` is
what the marketplace received; `late` counts keys sent after a cancellation; `upset` names what came
between the steps of an attempt, so that properties can say exactly what they do not cover.

### RetryQueue

The undelivered orders form a sequence sorted by `next_delivery_attempt_at`, NULL first, whose first
`due` members are due.  A run of the job takes the first `Limit` due ones that are active
(`JobSelect`) and attempts them one by one: `JobClaim` and `JobRecords` are the two transactions of an
attempt, `JobPasses` is an order that is no longer waiting or is exhausted, `JobKilled` a kill.
Threads of the web service attempt at the same time, for webhooks and for the administrator
(`WebClaims`, `WebRecords`, `WebKilled`).  A claim takes the order out of the queue; after the stale
time it is at the front again (`BecomesStale`) *whether or not its attempt still runs*; an attempt that
was overtaken records its outcome whenever it ends, and its failure moves the order behind those
that are due (`Record`).  An order that expires or is revoked keeps its time (`Ends`), and has its old
place again when an administrator extends and reactivates it (`Returns`).  `Place` and `Ahead` say
where an order stands and which stand before it.  A new time goes anywhere behind the due orders, so
the order of equal times is open; among orders with NULL, which SQL leaves in any order, the last to
become stale comes first.

### G2GPayload

A document is the sequence of its JSON objects in the order the code walks them; an object has the
four fields that are read.  The operators `Candidates`, `Pool`, `Resolve`, `StatusValue` and
`IsComplete` follow the code; `Meant` and `Reports` say, without walking, what the document states.
The states of the module are pairs of documents of any size, which the runs bound by `MaxObjects`,
so an invariant compares the two on each.

### RateLimit

`Admit` is the count of the failures in the window, `Fail` and `Leave` the end of the request, with
or without a row; `TurnAway` a request that is refused and leaves none.  `_login_rate_limited` and
`login` do the same on `admin_audit`, with their own numbers.

### CodePage

The browser runs one thread: the countdown's timer (`Render`), the poll (`PollCode`), and the
answers to fetches (`ReceiveCode`, `LeavePage` for a 401 or 403, `FetchFails`).  The server answers in
`CodeApi`.  A code is the number of its period; the names of the variables are the script's.
`sentAt`, `newest` and `blankSince` are history.

### PortalSession

A request takes a copy of the cookie along (`Send`), the handler works on the copy (`Serve…`), and
the response brings it back (`Receive`) if the handler wrote to it, and always when the session is
permanent, as Flask does by default.  A refused login writes to it without changing it: its message
passes through the session (`Flashes`).  `ServeCode`, `ServeUnlock`, `ServeLogout`, `ServeLanguage`
are the buyer's handlers, the others the administrator's; `ServeAdminPost` stands for every form of
the portal.  `ran` is history: the login under which the last request took effect, the login its
form was written for, and how old the login was.

### AccountSettings

`Open`, `Post`, `Save` and `Refuse` are the settings page, with a form of any age.  Whatever the form
shows, any login may be typed, and each secret of any account, of spaces, not parseable or left
empty (`Inputs`).  A save tests what it typed against the columns it found set when it read the row
(`found`) and writes the columns that were filled in; `Redeploy` restarts the service with another
environment.  Login, password and secret stand for the account they belong to.  `mixing` (history)
says that fields of two accounts may have come together: `Mixing` and `Redeploy` set it, in three
cases, and a save of one account with both its secrets clears it.

### AuditTrail

`LockOrder` with `UpdateExpiration`, `ReactivateOrder` or `Reject` is one transaction with its record.
`Revoke` and `CreateManual` commit and are recorded by `Record` in a second transaction.  `Reveal`
records first; `Show` is the page with the key.  `Kill` may come anywhere.  `Purchase`, `Cancel` and
`Lapse` are the webhook's and the expiry's effects.  Only the portal's routes keep records: `manage.py
revoke-order` and `create-test-key` write none and are left out.

### Migration

The objects of both revisions are listed one by one, in the order of the scripts: tables, columns
added to an existing table, indexes.  A run (`Start`) goes through the groups of a revision: it
inspects (`Inspect`), creates or drops what is missing or there (`Create`, `Drop`), and writes the
version (`Stamp`); `Finish` is PostgreSQL's commit, `Kill` a kill.  What was found missing is a set
(`todo`), and `NextObject` takes its members in the order of the script.  `Objects` is what a
revision creates, `Ready` the test of `/ready`.

## Runs

Eight runs pass, four exhibit a [finding](#findings).

| Run | Question | Bounds, and why they are enough |
|---|---|---|
| `access` | Does access end with the order, sessions included, and not before? Can a revocation be undone? By how much are the limits exceeded? | 1 order, 2 sessions, 2 addresses, 2 requests at once, limits of 1, times 0..1. Each race is between two requests about one order; a third repeats one of the two. One time unit separates "not yet lapsed" from "lapsed", and `MaxExtension` 1 lets a renewal reach past the clock's last moment. |
| `webhooks` | Is the ledger sound, does a cancellation win, is `Entitlement` implemented, in every order of arrival with repetitions? Does a message do to a row only what the others expect? Is every message answered? | 1 order. A message a step: 9 messages, 6 identifiers, three of them used for two bodies; every pair of conflicting kinds occurs. Statement by statement: 2 threads and the 3 messages that share the order, two of which share their identifier too, so that both locks are contended; kills anywhere. |
| `delivery` | Is "delivered" ever made up? Do attempts overlap? Is a delivered order sent again, or an order forgotten? Does an attempt do to a row only what the others expect? | 1 order, 1 web thread and 1 cron process, 2 attempts of its own and 1 forced, `StaleAge` 2. Orders share no delivery state, so one is enough; two threads are enough for one attempt to overtake another. `MaxDelay` 2 is reached by the second failure. |
| `retry_queue` | Does each order have its turn as long as fewer than `Limit` orders are exhausted? Does anything overtake an order that is due? | 3 orders, 2 places, 2 attempts, the job and 1 web thread: more orders than places, fewer exhausted ones than places, and an order can be claimed again while an overtaken attempt on it is under way. No attempt is forced beyond the limit of 2, to keep the graph of states small enough for liveness; `TurnsAreKept` is proved of any number of them. |
| `fulfilment` | Under which item does the key go out, what is sent after a cancellation, and do the attempts keep to what `WebhookIngest` assumes? Is the right item read out of a document? | 1 order, 2 senders, two sets of messages (a purchase without an item, one with several records and a report that names an item; a purchase and its cancellation). All pairs of documents with 3 objects in total, 2 items, one offer or none, 2 statuses: one object more than it takes for an item to be repeated or contradicted. |
| `database` | Does "ready" mean complete? Do repeated upgrades get there? Is the failure limit kept, and does a lock-out end? | Empty and older databases; two runners on PostgreSQL with and without downgrades, one on SQLite; 2 kills, so that a run that repairs a killed run is killed too. Rate limit: 2 requests, limit 3, window 3, and one row more than can be counted. |
| `portal` | Does a login end in time? Do forms die with their login? Does a logout hold? How long is an old code shown, or none? | One browser with 2 requests at once (each race is between two responses), a lifetime of 1 in 3 moments, 3 tokens. The page: periods of 3 seconds of 2 ticks, a poll of 3, trips of up to 4 ticks (longer than a poll), 1 failure, about 3 periods. |
| `office` | Do buyers get one account? Does a save break a working portal? Is the audit log without gaps? | 2 accounts, 2 open forms, each field typed or not, independently; environments that are unset, complete or partial: one form is saved under the other, or after a restart. 1 order, 2 administrators, 3 records, times 0..2: a second change on top of a first, and a third overlapping it. |
| `access_limit_doc` | Is the session limit ever exceeded? (violated) | limit 1, 2 sessions, 2 requests |
| `access_renewal_doc` | Can a revoked order be renewed? (violated) | 1 order, 2 requests |
| `retry_queue_doc` | Does each order have its turn? (violated) | 3 orders, 2 places, 1 attempt, 1 web thread |
| `fulfilment_unknown_doc` | Can an event of an unknown type decide about a hand-over? (violated) | a purchase without an item and an unknown event with one |

The named bounds are `Horizon`, `Latest`, `LastTick` (clocks), `AttemptCap` and `QueueCap`
(attempts on one order, the forced ones included), `MaxExtension`, `Durations`, `CrashCap` (kills of migrations), `MaxIssued`
(tokens), `MaxTrip` and `MaxFailures` (fetches), `Fetches` (requests the browser has under way),
`MaxLog` (records), `MaxObjects` (objects in documents), and the sets of orders, sessions, threads and
messages.

Symmetry is used over requests, sessions and addresses (`access`), senders (`fulfilment`), the slots of
the browser (`portal`), and accounts, open forms and administrators (`office`, whose environments are
symmetric too): values nothing tells apart, in runs that check no liveness.

`CHECK_DEADLOCK FALSE` is said where the system may really come to rest: in `retry_queue`
and `retry_queue_doc` when every order is delivered or settled; in `fulfilment` and
`fulfilment_unknown_doc` when documents have reached their bound; in `database` when there is no
revision left to run; in `portal` when the clocks have reached their bounds.

Every property of a passing run has a faulty variant of one definition (in the modules, named
`<Definition>_<Fault>`), with which TLC finds the property violated: the property depends on
the code it is about.

What the properties say, in a sentence each:

- *Access.*  `NoAccessOnceDead`: a request that began after its order lapsed or was ended obtains
  neither a session nor a code, however it interleaves with expiry, extension and revocation.
  `NoSurvivor`: a session left open on an ended order was inserted after the end had listed the
  sessions (it gives no code, for the order is tested again on every request).
  `RevokedLeavesOnlyByStaleExpiry`: the one way out of "revoked" is an expiry that read the order
  before; it leaves it expired.  `BoundedOvershoot`: the limits are exceeded by no more than the other
  unlocks in progress.  `LiveNotCutShort`: an order becomes expired before its time only when an
  administrator moved its expiration to the past, or when the expiry was decided before the
  expiration was last moved and committed after it.
- *Webhooks.*  `LedgerSound`: an event called processed has had its effect, for good.
  `CancellationWins`: a cancelled order has no row or a revoked one, until the portal or an
  administrator changes it (this includes a key created by hand under the cancelled order's
  reference).  `MessagesKeepToRows`: a message adds a row, fills in what a row lacks, reports it
  delivered or revokes it, and no more, whatever was committed since it read.
  `ImplementsEntitlement`: see above.  `EveryMessageAnswered`: no two messages wait for
  each other.
- *Delivery.*  `HonestDelivery`: a key called delivered is with the marketplace.
  `OneAttemptAtATime`: two attempts on one order overlap only if one of the two has itself outlived the
  stale time, or has had its claim overwritten, while it was under way, by the failure of another
  attempt on the order.
  `DeliveredLostOnlyToFailure`: only an attempt that was under way before takes an order out of
  "delivered".  `AttemptsKeepToRows`: an attempt or a reconciliation changes no more of a row than its
  delivery, replaces no item, and leaves the rows made by hand alone.  `NoOrderForgotten`,
  `ServedUnlessBlocked`: no order is left without its turn.  `NoOvertaking`: as long as no
  attempt on it begins or is over, a due order stays due, and only an order whose claim has become
  stale, or that comes back after its end, gets in front of it.  (The failure of an attempt that was
  overtaken does move a due order behind the others: there an attempt on it is over.)
- *Hand-over.*  `KeyUnderItemOnRecord`: the row names the item its key went out under, unless a kill,
  another message or an outlived attempt came between.  `AtMostOneLateKey`: after a cancellation at
  most the one attempt that had claimed the order sends its key.  `ImplementsIngest`: see above.
  `ResolvesWhatIsMeant`, `StatusAsReported`: item and status are read as the document means them.
- *Database.*  `ReadyMeansComplete`, `OneVersion`, `EventuallyReady`; `BoundedFailures`: at most
  `Limit - 1` failures in a window and one for each concurrent request; `LockEnds`: attempts that are
  turned away do not prolong a lock-out.
- *Browser.*  `AdminWithinLifetime`, `FormsDieWithTheirLogin` hold for overlapping requests.
  `LogoutHoldsAlone` holds for requests one at a time only, and so does `LanguageStays`, which is
  proved and has no run: see [findings](#findings).  `StaleAtMost`, `NeverBackwards`, `PageFollowsOrder`, `BlankBriefly`: the page
  shows no code for longer after its end than its answer was under way and the second the server
  rounds off, never goes back to an older one, is left when the order ends, and does not stay blank.
- *Office.*  `OneAccount`: login, password and secret come apart in three ways only: a save that
  leaves a secret empty, or names two accounts, names one that its page did not show; such a save
  comes from a page whose account is no longer the one in use; or the environment changes under a row
  that was saved without one of the secrets.  A save of one account with both secrets ends it.
  `ConfiguredStays`: no save takes a working portal out of service but one with a password of spaces
  (see findings).  `ExpirationsOnRecord`: the history of an expiration can be read from the log without a
  gap.  `EffectsOnRecord`: a revocation or a manual key of the portal is on record unless its request was killed
  between its two transactions.  `KeysOnRecord`: each page that showed a key has a record of its own.

### Fairness

- `FairDeliverySpec`: time passes; a thread that has started an attempt carries it on (every call
  to G2G has a timeout), unless it is killed; the cron job, which is scheduled every five minutes,
  runs again and again, and an order that is due again and again is at some time taken up and
  claimed (strong fairness of `RetryDue` and `BeginFor` per order: a job walks through everything
  it selected, and it is not killed each time just before the claim).  With one order in the model
  the batch limit plays no part; `RetryQueue` is about it.  Nothing is assumed of kills during an
  attempt, of G2G's answers, of webhooks or of the administrator.
- `FairQueueSpec`: the job runs again and again and works through its batch (weak fairness of
  `JobSelect` and of the steps of a batch together: every call of an attempt has a timeout); time
  passes (`NextDue`, `BecomesStale`).  Kills during an attempt are free, but each uses an attempt up;
  a kill between two attempts loses the batch and is left out.  Webhooks, administrators and ends of
  orders are free; `ServedUnlessBlocked` assumes that orders are not brought back for ever
  (`ReturnsStop`).
- `LocksFairness`: a thread goes on unless it is killed; PostgreSQL grants a lock in the order in
  which it is asked for (strong fairness of `Lock`).
- `MigrationFairness`: a run carries on, a deployment that failed is repeated, and runners are
  killed `CrashCap` times at most.
- `RateFairness`: time passes, and nothing else.

## Proofs

Proved by TLAPS for every value of the constants: any number of orders, sessions, requests,
addresses, threads, messages and records, any limits, times and bounds.

| Theorem | Statement | Provided that |
|---|---|---|
| `AccessTypeCorrect` | `Spec => []TypeOK` | |
| `AccessEndsWithOrder` | `Spec => []NoAccessOnceDead` | |
| `SessionsEndWithOrder` | `Spec => []NoSurvivor` | |
| `RevocationUndoneOnlyByExpiry` | `Spec => RevokedLeavesOnlyByStaleExpiry` | |
| `LimitsBarelyExceeded` | `Spec => []BoundedOvershoot` | requests and sessions are finitely many |
| `RenewalInvariant` | `RenewalSpec => []RenewalInv` | |
| `RenewalNotCutShort` | `RenewalSpec => LiveNotCutShort` | |
| `IngestTypeCorrect` | `IngestSpec => []IngestTypeOK` | |
| `LedgerAlwaysSound` | `IngestSpec => []LedgerSound` | |
| `CancellationAlwaysWins` | `IngestSpec => []CancellationWins` | |
| `IngestRefinesEntitlement` | `IngestSpec => ImplementsEntitlement` | |
| `LocksInvariant` | `LocksSpec => []LocksInv` | |
| `StatementsTypeCorrect` | `LocksSpec => []IngestTypeOK` | |
| `StatementsKeepLedger` | `LocksSpec => []LedgerSound` | |
| `StatementsKeepCancellation` | `LocksSpec => []CancellationWins` | |
| `StatementsRefineEntitlement` | `LocksSpec => ImplementsEntitlement` | |
| `DeliveryTypeCorrect` | `DeliverySpec => []DeliveryTypeOK` | |
| `DeliveryAlwaysHonest` | `DeliverySpec => []HonestDelivery` | |
| `AttemptsDoNotOverlap` | `DeliverySpec => []OneAttemptAtATime` | |
| `DeliveryUndoneOnlyByFailure` | `DeliverySpec => DeliveredLostOnlyToFailure` | |
| `FulfilInvariant` | `FulfilSpec => []FullInv` | |
| `FulfilmentRefinesIngest` | `FulfilSpec => ImplementsIngest` | |
| `FulfilmentKeepsLedger` | `FulfilSpec => [](LedgerSound /\ CancellationWins)` | |
| `OneLateKeyAtMost` | `FulfilSpec => []AtMostOneLateKey` | |
| `KeyAlwaysUnderItem` | `FulfilSpec => []KeyUnderItemOnRecord` | |
| `MessagesStayOnTheirRows` | `IngestSpec => MessagesKeepToRows` | |
| `StatementsStayOnTheirRows` | `LocksSpec => MessagesKeepToRows` | |
| `FulfilmentKeepsToRows` | `FulfilSpec => MessagesKeepToRows` | |
| `AttemptsStayOnTheirRows` | `DeliverySpec => AttemptsKeepToRows` | |
| `PortalTakesItsTurns` | `Spec => [][every status that changes takes one of PortalTurns]_vars` | |
| `QueueInvariant` | `QueueSpec => []QueueInv` | |
| `TurnsAreKept` | `QueueSpec => NoOvertaking` | |
| `ItemMeantIsResolved` | `Spec => []ResolvesWhatIsMeant` of `G2GPayload` | |
| `StatusUnderstood` | `Spec => []StatusAsReported` of `G2GPayload` | |
| `FailuresBounded` | `RateSpec => []BoundedFailures` | |
| `MigrationInvariant` | `MigrationSpec => []MigrationInv` | `DowngradesRollBack`: deployments that are downgraded are on PostgreSQL |
| `ReadyAlwaysComplete` | `MigrationSpec => []ReadyMeansComplete` | `DowngradesRollBack` |
| `AlwaysOneVersion` | `MigrationSpec => []OneVersion` | `DowngradesRollBack` |
| `AdminAlwaysWithinLifetime` | `SessionSpec => []AdminWithinLifetime` | |
| `FormsAlwaysDieWithTheirLogin` | `SessionSpec => []FormsDieWithTheirLogin` | |
| `OneAtATime` | `SessionInit /\ [][SessionNext /\ Alone']_sessionVars => [](LogoutHolds /\ LanguageStays)` | |
| `LogoutAlwaysHolds` | `MCSpec => []LogoutHoldsAlone` | |
| `PageInvariant` | `PageSpec => []PageInv` | |
| `CodeNeverBackwards` | `PageSpec => []NeverBackwards` | |
| `CodeNotStale` | `PageSpec => []StaleAtMost` | |
| `PageAlwaysFollows` | `PageSpec => []PageFollowsOrder` | |
| `ScreenBlankBriefly` | `PageSpec => []BlankBriefly` | |
| `SettingsOneAccount` | `SettingsSpec => []OneAccount` | `EnvironmentsAgree`: no environment holds fields of two accounts |
| `SettingsStayConfigured` | `SettingsSpec => ConfiguredStays` | `EnvironmentsAgree` |
| `ExpirationsAlwaysOnRecord` | `AuditSpec => []ExpirationsOnRecord` | |
| `KeysAlwaysOnRecord` | `AuditSpec => []KeysOnRecord` | |
| `EffectsAlwaysOnRecord` | `AuditSpec => []EffectsOnRecord` | |

The other assumptions are the modules' own `ASSUME`s (numbers are naturals, the null values are not
data, and the like).  TLC evaluates them in the runs.

*Buyer access.*  The inductive invariant is `AccessInv`:

- `TypeOK`, and `Placed`: a request has an order wherever one is used, and no transaction writes
  "active" (that is why only `Reactivate` can bring an order back).
- `DeadNotLive`: an order that is dead in the history is not live now.  It survives the races
  because nothing but a reactivation makes an order live again (`LiveAgain`): in particular an
  extension of an order that lapsed unnoticed writes it expired (`EndsAccess`).
- `DoomedStale`: what a doomed request has copied is lapsed or not active too.  `NoAccessOnceDead`
  alone is not inductive: a request is only kept out because the copy it decides from
  was read after the order died.
- `ListedOrLate`: while a transaction that ends an order is under way, every open session of the
  order is in its list or inserted late.  It is what makes `NoSurvivor` hold at the commit.

The proof has a lemma for how each action moves a request (`RequestsStep`), opens a session
(`OpenSession`) and changes a row (`RowStep`); each conjunct is preserved by a lemma over those.

`BoundedOvershoot` is inductive beside the types: what counts is the number of open sessions (or of
addresses) and of requests between their test and their insertion.  A step that enters this stretch
tested that there was room (`BoundedWhenReserving`); an insertion turns a request into a session, so
the sum stays (`InsertingMoves`); no other step adds to either (`BoundedOtherwise`).  The counting
is why the sets have to be finite.

*Renewal.*  `RenewalInv` adds to `AccessInv` that the copy of a request no renewal has overtaken
has the row's own expiration (`TrueCopy`), and that a transaction that writes "expired" does so
because its copy was due (`TrulyDue`).  So an early end needs an overtaken copy.

*Webhooks.*  The inductive invariant is `IngestInv`: the types, `Recorded` (an event on record has
a body), `LedgerSound` and `CancellationWins`.  `RowsStep`, `EventsStep` and `TombstonesStep` say
what any step can do to a row, an event and a tombstone, and `OneRow` that it touches one order.
Together they are `Allowed`, which is all that the invariant (`AllowedKeeps`) and the refinement
(`EntitlementStep`) need; `EffectLasts` is the core of it: an identity, once on record, stays.

*Webhooks, statement by statement.*  `LocksInv` adds to `IngestInv` that no lock has two holders
(`Exclusive`), that a thread reads with both of its locks (`Placed`), and that what it has read is
still so (`TrueCopies`): the event and the tombstone exactly, the row but for a status that the
portal has changed or a row made by hand since, and then the order is `overridden`.  From this, a
commit is `Allowed` (`CommitAllowed`), though it need not be a step of `WebhookIngest`: the ORM
writes only the columns in which the copy was changed (`FlushedIs`), and in the columns that decide
the copy agrees with the row (`CommittedRow`).  A commit leaves the copies of the others true
because messages under way are about different events and orders (`Apart`), and an attempt does
because it waits for the order's lock (`AttemptApart`).

*Delivery.*  `DeliveryInv` adds to the types and the two invariants: an order has as many rows of
attempts as it counts (`Numbered`); a thread in an attempt has an order, and one that has seen its
key accepted is about an order the marketplace knows of (`Working`); and while an attempt is `Live`,
that is, has not outlived the stale time and has not lost its claim to the failure of another one, the
row shows its claim, as old as the attempt is, or is settled (`Claimed`).  `Claimed` is what makes
`OneAttemptAtATime` inductive: a second claim beside a live attempt is not possible.  `HandsOff` is
there for `AttemptsKeepToRows`: between its transactions an
attempt is never about an order made by hand or without a row, no thread carries the item "manual",
and the marketplace has no key of such an order, so a reconciliation of it has nothing to write.
The step that records an outcome does not look at the row for this, so only the invariant says
that it is not written over a row made by hand.

*The row.*  What a message makes of the row of its order is `KeptRow`, and a table of which one row is
kept is `KeptTable` (`RowKeepsTable`), which is `MessagesKeepToRows` of one step.  Each branch of the
endpoint gives such a row (`MessageKeeps`).  Statement by statement the row is what `Flushed` writes
of a copy that may be out of date in its status; `CommittedRow` shows of it that it is kept, because
`LocksInv` has the copy agree in every other column.  The portal's five turns are restated in
`BuyerAccessProofs` (`PortalTurns`), as that module sees another part of the table; given the types, the
theorem comes down to what can leave "revoked", which `RevocationUndoneOnlyByExpiry` says.

*Retry queue.*  `QueueInv` is the types, that no order stands in the queue twice or is both queued
and freshly claimed (`QueueForm`), and that attempts under way are about orders that have arrived
(`WorkForm`).  `TurnKept` says of two queues, place by place, that an order due in the one is due in
the other, behind none but those that were before it and the named ones.  A removal keeps it
(`RemovedKeepsTurn`), and so does an insertion behind what is due (`InsertedKeepsTurn`); a failed
attempt is a removal and such an insertion.  `Turns` says of a step which orders it names: a claim that
became stale, and the order on which an attempt is over.  `NoOvertaking` is one step of it.

*Documents.*  No induction over documents is needed: what the code meets first is the least place of
its kind, and < is well-founded (`FirstIsLeast`).  `CandidateOfEachItem` says that the candidates hold
one object of each item that is named, the first; `PoolIsWhatIsMeant` that, where these objects say all
there is to say, the pool the code chooses from is what the document means.

*Hand-over.*  `FullInv` is the endpoint's `IngestInv` and, of the attempts, `FulfilInv`.  The two are
inductive together only: `IngestInv` is kept by an attempt because each of its steps is a step of
`WebhookIngest` or a stutter (`StepRefines`, which is the refinement as well), and an attempt keeps
to what `WebhookIngest` expects of it because its order has a row that was not made by hand
(`ByHandOnly`, `AttemptedRows`), which the endpoint must not undo.  `LateInv`: attempts on an order
do not overlap unless one outlived its time, and the one under way at a cancellation has not sent
anything late before it posts.  `ItemInv`: while nothing upset the order, the items of its row, of
its attempt and of the keys that were sent agree, where the row may still be without one.

*Rate limit.*  The number of failures does not bound itself, for it grows after the count it was
admitted by.  The strengthening `Charged` charges each admitted request as if it had failed already.

*Migrations.*  What is *committed* is `Sound`: it has one version at most, and all that the
revisions up to it create.  What a transaction sees need not be: a run that read the version before
another one committed finds every object in place and writes the first revision's row beside the
head's.  It cannot commit that, for `UpInv` leaves it no way to write the second
one.  `Coming` says what a group that was inspected leaves to do: each of its objects is there, or
about to be created, if need be with the table of the orders.  It is kept although the inspection is
old when it is used, because upgrades only add and downgrades have the database to themselves
(`Beside`).  While a downgrade undoes the first revision the row says more than there is; so its
deletion and the dropped objects must be committed as one, and that is what `DowngradesRollBack` is
for.  On SQLite the statement fails: see [findings](#findings).  The objects are named one by one in
the model, and the lemmas about them (`FirstRevision`, `SecondApart`, `UpgradeGroups`) are of these
lists.

*Administrator sessions.*  A cookie that says since when its owner is logged in, be it in the browser
or on its way, tells the truth (`Genuine`); and a token that a cookie or a form holds belongs to one
login (`OneLogin`), because it is new when it is issued.  Neither property is inductive by itself,
for responses bring old cookies back.

*Requests one at a time.*  `AloneInv`: the cookie a request has taken along is the browser's, and an
answer differs from it in what its handler may change and in nothing else (`Fits`): a language only
in the answer to a choice of one, a buyer's session only in that to an unlock, a login only in that
to a login.  `OneAtATime` is for any requests that run alone, `LogoutAlwaysHolds` for the way in
which `MCPortal` runs them.

*The page.*  `PageInv` says what makes the timing work: one fetch is under way at most and
`fetchInFlight` knows of it (`OneFetch`); an answer is the code of a moment between question and
now (`FetchInv`); the timers are due now or later (`TimerInv`); the screen is blanked by the render
at the end of what was left of the code (`ScreenInv`).  `NeverBackwards` and `StaleAtMost` follow
from these.  The two bounds on the page's reaction are inductive in the form `AskedBy`: the next
fetch, be it under way or due at the next poll, was or will be asked for by a certain time, which
each failure moves by a poll and a trip.

*Account settings.*  As long as nothing has mixed accounts, any two fields in force that name an
account name the same one (`Agreed`), whether they come from the row or from the environment.
`OneAccount` says this of a configured portal only, and a save may make a portal configured.
`SavedCurrent` says what is in force after a save, and `InputAgrees` that a save that does not set
`mixing` leaves the fields agreed: what it fills in is one account, and either nothing else is left or
it is the account in force.

*Audit log.*  All three rest on `AuditCore`: a locked row has one holder, whose copy of it is true;
a record is about an order that exists; a key under way is that of its order.  `ExpirationsOnRecord`
is then inductive (`GivesPast`, `GivesStill`, `GivesNew` say what a further record changes in what
the log gives), `EffectsOnRecord` too (`StaysAccounted`); `KeysOnRecord` needs `Showing`: a page
under way has a record that no other page has.

*Only model-checked:* liveness (`NoOrderForgotten`, `ServedUnlessBlocked`, `EveryMessageAnswered`,
`EventuallyReady`, `LockEnds`), which is beyond the prover.  Everything else that a passing run checks
is proved.  The types (`TypeOK`, `IngestTypeOK`) and `LanguageStays` are proved and have no place in a run
of their own.

## Findings

1. **A revocation can be undone** (`access_renewal_doc`).  `ensure_order_state`
   (`src/services.py:109`) and `expire_due_orders` (`:448`) write "expired" over whatever the row
   has become since they read it.  If a revocation committed between, the order is left expired,
   and an administrator can extend and reactivate it.  `README.md:275-276` says revoked orders
   cannot be renewed.  What does hold, and is proved: nothing but such an expiry undoes a
   revocation, and it gives no access by itself.
2. **The session limit can be exceeded** (`access_limit_doc`).  `create_buyer_session`
   (`src/services.py:181`) counts and inserts without a lock.  `BoundedOvershoot` says by how much.
3. **Exhausted orders can starve the retry job** (`retry_queue_doc`).  `retry_due_deliveries`
   (`src/webhook_service.py:783`) does not look at the number of attempts, and
   `attempt_delivery` (`:609-616`) turns exhausted orders away without changing them, so they stay
   at the front of the batch.  As soon as there are as many of them as the limit, no other order is
   retried.  `ServedUnlessBlocked` shows that this is the only way to starve, if
   orders are not ended and brought back for ever.
4. **An event of an unknown type can decide about a hand-over** (`fulfilment_unknown_doc`).  When an
   order has no item on record, `attempt_delivery` (`src/webhook_service.py:653`) takes it from the
   last event recorded for the order, of whatever type and outcome.  `README.md:64-65` says that
   unknown events never fulfil an order.

Met while modelling, and without a run of their own:

- *A password of spaces takes the portal out of service*: `save_account_settings` stores it
  (`src/settings_service.py:93`) and its test at `:99-107` finds a password on record;
  `get_account_settings` strips it (`:57`) and refuses the account as incomplete.  The run `office`
  has such saves; `ConfiguredStays` names this one as its exception and shows that no other save does
  it.
- *The downgrade of the second revision fails on SQLite*
  (`src/migrations/versions/20260724_0002_admin_order_visitors.py:89`), and as SQLite commits each
  statement, it leaves the newer version over an incomplete schema, which `/ready` then calls ready.
  `ReadyMeansComplete` is checked for deployments that are not downgraded on SQLite.
- *The response to a poll can bring an older cookie back* (`src/app.py:284`): it undoes a choice of
  language, or a logout, whose response overtook it.  `README.md:245-246` says the choice is
  stored in the browser session and continues across key unlocks.  `LogoutHoldsAlone` and
  `LanguageStays` hold where the browser's requests do not overlap.

## Not modelled

- *Visitor log*: rows that nothing but a report reads, and that no decision rests on.
- *Cryptography*: a key, its hash and its encrypted form stand for each other; a change of the
  encryption key between releases is not modelled.
- *Webhook signatures, configuration*: comparisons and parsing, without state.
- *Localisation, pages and styles*: presentation.  The language of a page is in `PortalSession`.
- *Marketplace payloads*: `parse_webhook` and the alternative names of fields it accepts; a message
  is what it returns.
- *One-time codes*: the digest; a code is the number of its period.
- *Audit log*: retry, reconciliation, revocation of sessions, clean-up and settings record in a
  second transaction, as `Revoke` does, and are not actions of their own.  Nor are the commands of
  `manage.py`, which record nothing.
- *Buyer sessions*: `last_seen` and the data of the visit, from which nothing decides; the clean-up
  of logs.
- *Administrator sessions*: the end of a permanent cookie after 12 hours without a response
  (`PERMANENT_SESSION_LIFETIME`, `src/config.py:103`), with which the language is lost too.
- *Migrations*: offline mode, which prints SQL.

## Plan

What could be added:

1. `parse_webhook` with its alternative field names, against a statement of what a body means.
2. The audit actions that are left, together with `Delivery`, whose forced retry they record.
