------------------------------ MODULE Migration ------------------------------
(***************************************************************************)
(* The schema migrations (migrations/versions) as `alembic upgrade head`   *)
(* and `alembic downgrade` run them, and the readiness test of app.py.     *)
(*                                                                         *)
(* A migration asks the database which objects exist and creates those     *)
(* that are missing, one statement after the other, in an order that is    *)
(* fixed.  PostgreSQL runs all of it in one transaction; SQLite commits    *)
(* each statement.  A runner can be killed anywhere, two can run at once   *)
(* (a deployment that starts several instances), and each run starts from  *)
(* what the last one left.                                                 *)
(***************************************************************************)
EXTENDS Integers, FiniteSets, SequencesExt

CONSTANTS
  Runners,      \* processes that run alembic
  Deployments,  \* the databases, each with the commands in use
  CrashCap      \* bound: how often a runner is killed

ASSUME MigrationAssumption ==
  /\ Deployments \subseteq
       [backend : {"postgresql", "sqlite"}, commands : SUBSET {"up", "down"}]
  /\ CrashCap \in Nat
  /\ "nobody" \notin Runners

VARIABLES
  deployment,  \* the one that runs, fixed
  db,       \* what is committed: the objects and the rows of alembic_version
  open,     \* PostgreSQL: the transaction that has written, and what it sees
  runners,  \* runner -> where it is
  crashes   \* times a runner was killed

migrationVars == <<deployment, db, open, runners, crashes>>

----------------------------------------------------------------------------
(* The objects: tables <<t>>, columns <<t, c>> that a migration may add to *)
(* an existing table, indexes <<"ix", t, c>>.                              *)

AddedColumns == <<
  <<"orders", "source_payload_digest">>, <<"orders", "last_event_id">>,
  <<"orders", "delivery_attempts">>, <<"orders", "delivery_started_at">>,
  <<"orders", "next_delivery_attempt_at">>, <<"orders", "delivered_at">>,
  <<"orders", "last_delivery_check_at">>, <<"orders", "revoked_at">> >>

NewTables == <<
  <<"buyer_sessions">>, <<"webhook_events">>, <<"cancellation_tombstones">>,
  <<"delivery_attempts">>, <<"portal_settings">>, <<"admin_audit">> >>

BuyerUsername == <<"orders", "buyer_username">>

Indexes(t, columns) == [i \in DOMAIN columns |-> <<"ix", t, columns[i]>>]

\* INDEXES of the first revision, table by table.
IndexGroups == <<
  Indexes("orders", <<"g2g_order_id", "g2g_delivery_id", "offer_id", "expires_at",
    "status", "delivery_status", "access_key_hash", "next_delivery_attempt_at">>),
  Indexes("access_attempts", <<"ip_address", "result", "created_at">>),
  Indexes("buyer_sessions", <<"token_hash", "order_id", "ip_address",
    "last_seen_at", "expires_at", "revoked_at">>),
  Indexes("webhook_events", <<"event_id", "event_type", "g2g_order_id", "status">>),
  Indexes("cancellation_tombstones", <<"g2g_order_id">>),
  Indexes("delivery_attempts", <<"order_id", "status">>),
  Indexes("admin_audit", <<"action", "created_at">>) >>

\* The groups of a revision: what it looks for at once, and then creates.
Upgrade0001 ==
  << << <<"orders">> >> \o AddedColumns, << <<"access_attempts">> >>, NewTables >>
    \o IndexGroups

Upgrade0002 ==
  << <<BuyerUsername>>,
     Indexes("orders", <<"buyer_username">>),
     << <<"visitor_events">> >>,
     Indexes("visitor_events", <<"ip_address", "visited_at">>) >>

\* What a downgrade removes: the newest tables first, then the columns.
Downgrade0001 ==
  [i \in 1 .. Len(NewTables) |-> <<Reverse(NewTables)[i]>>] \o <<Reverse(AddedColumns)>>

Downgrade0002 == << << <<"visitor_events">> >>, <<BuyerUsername>> >>

Groups(dir, revision) ==
  IF dir = "up"
  THEN IF revision = "0001" THEN Upgrade0001 ELSE Upgrade0002
  ELSE IF revision = "0001" THEN Downgrade0001 ELSE Downgrade0002

HeadVersion == "0002"

\* What a revision creates.
Objects(revision) == UNION {ToSet(group) : group \in ToSet(Groups("up", revision))}

\* Everything the models of the application rely on.
AllObjects == Objects("0001") \cup Objects("0002")

Complete(objects) == AllObjects \subseteq objects

\* Databases to start from: an empty one, and the previous release's, whose
\* tables may have their indexes.
LegacyTables == { <<"orders">>, <<"access_attempts">> }

LegacyIndexes ==
  (ToSet(IndexGroups[1]) \ { <<"ix", "orders", "next_delivery_attempt_at">> })
    \cup ToSet(IndexGroups[2])

Idle == [pc |-> "idle", dir |-> "up", todo |-> {}, group |-> 0, revisions |-> <<>>]

Committed(objects, versions) == [objects |-> objects, versions |-> versions]

NoTransaction == [by |-> "nobody", state |-> Committed({}, {})]

MigrationInit ==
  /\ deployment \in Deployments
  /\ db \in {Committed(o, {}) :
               o \in {{}, LegacyTables, LegacyTables \cup LegacyIndexes}}
  /\ open = NoTransaction
  /\ runners = [r \in Runners |-> Idle]
  /\ crashes = 0

----------------------------------------------------------------------------
(* Reading and writing.                                                    *)

\* What a runner sees: its own writes, and what others have committed.
View(r) == IF open.by = r THEN open.state ELSE db

\* A statement of another transaction that has written waits for its end: the
\* runners go through the objects in the same order, so both want the same.
CanWrite(r) == open.by \in {"nobody", r}

Transactional == deployment.backend = "postgresql"

Write(r, state) ==
  IF Transactional
  THEN open' = [by |-> r, state |-> state] /\ UNCHANGED db
  ELSE db' = state /\ UNCHANGED open

\* The run ends without a commit.
RollBack(r) ==
  /\ open' = IF open.by = r THEN NoTransaction ELSE open
  /\ runners' = [runners EXCEPT ![r] = Idle]
  /\ UNCHANGED db

\* What goes with an object: the columns of a table that is created, ...
With(x) == IF x = <<"orders">> THEN {x} \cup ToSet(AddedColumns) ELSE {x}

\* ... and the indexes of what is dropped.
Dependents(x) ==
  {y \in AllObjects : /\ Len(y) = 3
                      /\ y[2] = x[1]
                      /\ Len(x) = 2 => y[3] = x[2]}

\* Faulty variant: the columns that an old table lacks are not looked for.
Missing_TablesOnly(group, objects) ==
  {x \in ToSet(group) \ objects : Len(x) # 2}

\* Faulty variant: what is there is not looked for.
Missing_All(group, objects) ==
  IF group[1] = <<"orders">> THEN { <<"orders">> } ELSE ToSet(group)

\* The inspection at the start of a group.  A table is created with all of its
\* columns; those of an existing one are added one by one.
Missing(group, objects) ==
  IF group[1] = <<"orders">> /\ <<"orders">> \notin objects
  THEN { <<"orders">> }
  ELSE ToSet(group) \ objects

Present(group, objects) == ToSet(group) \cap objects

----------------------------------------------------------------------------
(* A run of alembic.                                                       *)

\* alembic reads the version and plans the revisions; it does nothing when
\* there are none, and refuses versions that overlap.
Plan(dir, versions) ==
  CASE dir = "up" /\ versions = {} -> {<<"0001", "0002">>}
    [] dir = "up" /\ versions = {"0001"} -> {<<"0002">>}
    [] dir = "down" /\ versions = {"0002"} -> {<<"0002">>, <<"0002", "0001">>}
    [] dir = "down" /\ versions = {"0001"} -> {<<"0001">>}
    [] OTHER -> {}

\* The table of the version, which a run looks for first.
VersionTable == << <<"alembic_version">> >>

\* Deployments on PostgreSQL may upgrade at the same time.  A downgrade is run
\* by hand, with nothing beside it, and so is everything on SQLite, the file of
\* one instance.
Start(r, dir) ==
  /\ runners[r].pc = "idle"
  /\ dir \in deployment.commands
  /\ \A q \in Runners :
       runners[q].pc # "idle" => Transactional /\ dir = "up" /\ runners[q].dir = "up"
  /\ \E revisions \in Plan(dir, db.versions) :
       runners' = [runners EXCEPT ![r] =
         [pc |-> "inspect", dir |-> dir, group |-> 1, revisions |-> revisions,
          todo |-> Missing(VersionTable, db.objects)]]
  /\ UNCHANGED <<deployment, db, open, crashes>>

GroupsOf(r) == Groups(runners[r].dir, Head(runners[r].revisions))

Inspect(r) ==
  LET group == GroupsOf(r)[runners[r].group] IN
  /\ runners[r].pc = "inspect"
  /\ runners[r].todo = {}
  /\ runners[r].group <= Len(GroupsOf(r))
  /\ runners' = [runners EXCEPT
       ![r].group = @ + 1,
       ![r].todo = IF runners[r].dir = "up"
                   THEN Missing(group, View(r).objects)
                   ELSE Present(group, View(r).objects)]
  /\ UNCHANGED <<deployment, db, open, crashes>>

\* The statements follow the order of the group that was inspected last.
NextObject(r, x) ==
  LET group == IF runners[r].group = 1 THEN VersionTable
               ELSE GroupsOf(r)[runners[r].group - 1]
  IN \E i \in DOMAIN group :
       /\ group[i] = x
       /\ \A j \in 1 .. i - 1 : group[j] \notin runners[r].todo

\* CREATE TABLE, ADD COLUMN, CREATE INDEX: an error if the object is there.
Create(r) ==
  \E x \in runners[r].todo :
    /\ NextObject(r, x)
    /\ runners[r].dir = "up"
    /\ CanWrite(r)
    /\ IF x \in View(r).objects
       THEN RollBack(r)
       ELSE /\ Write(r, [View(r) EXCEPT !.objects = @ \cup With(x)])
            /\ runners' = [runners EXCEPT ![r].todo = @ \ {x}]
    /\ UNCHANGED <<deployment, crashes>>

\* DROP TABLE, DROP COLUMN.  PostgreSQL drops the indexes of a column with it,
\* SQLite refuses to drop a column that has one.
Drop(r) ==
  \E x \in runners[r].todo :
    /\ NextObject(r, x)
    /\ runners[r].dir = "down"
    /\ CanWrite(r)
    /\ IF \/ x \notin View(r).objects
          \/ ~Transactional /\ Len(x) = 2 /\ Dependents(x) \cap View(r).objects # {}
       THEN RollBack(r)
       ELSE /\ Write(r, [View(r) EXCEPT !.objects = @ \ ({x} \cup Dependents(x))])
            /\ runners' = [runners EXCEPT ![r].todo = @ \ {x}]
    /\ UNCHANGED <<deployment, crashes>>

\* Faulty variant: the row is written whatever the table holds.
Stamped_Unchecked(dir, revision, versions) ==
  {versions \cup {revision}}

\* The row of alembic_version: INSERT, UPDATE of the row that was there, or
\* DELETE.  No result when the row is missing or the new one exists.
Stamped(dir, revision, versions) ==
  CASE dir = "up" /\ revision = "0001" /\ "0001" \notin versions -> {versions \cup {"0001"}}
    [] dir = "up" /\ revision = "0002" /\ "0001" \in versions /\ "0002" \notin versions
         -> {(versions \ {"0001"}) \cup {"0002"}}
    [] dir = "down" /\ revision = "0002" /\ "0002" \in versions /\ "0001" \notin versions
         -> {(versions \ {"0002"}) \cup {"0001"}}
    [] dir = "down" /\ revision = "0001" /\ "0001" \in versions -> {versions \ {"0001"}}
    [] OTHER -> {}

\* The end of a revision.
Stamp(r) ==
  LET seen == View(r)
      stamped == Stamped(runners[r].dir, Head(runners[r].revisions), seen.versions)
  IN /\ runners[r].pc = "inspect"
     /\ runners[r].todo = {}
     /\ runners[r].group > Len(GroupsOf(r))
     /\ CanWrite(r)
     /\ IF stamped = {}
        THEN RollBack(r)
        ELSE /\ \E versions \in stamped : Write(r, [seen EXCEPT !.versions = versions])
             /\ runners' = [runners EXCEPT
                  ![r].revisions = Tail(@), ![r].group = 1,
                  ![r].pc = IF Len(runners[r].revisions) = 1 THEN "commit" ELSE @]
     /\ UNCHANGED <<deployment, crashes>>

\* The end of the run: PostgreSQL's only commit.
Finish(r) ==
  /\ runners[r].pc = "commit"
  /\ db' = IF open.by = r THEN open.state ELSE db
  /\ open' = IF open.by = r THEN NoTransaction ELSE open
  /\ runners' = [runners EXCEPT ![r] = Idle]
  /\ UNCHANGED <<deployment, crashes>>

Kill(r) ==
  /\ runners[r].pc # "idle"
  /\ crashes < CrashCap
  /\ crashes' = crashes + 1
  /\ RollBack(r)
  /\ UNCHANGED deployment

Step(r) == Inspect(r) \/ Create(r) \/ Drop(r) \/ Stamp(r) \/ Finish(r)

MigrationNext ==
  \E r \in Runners : \/ \E dir \in deployment.commands : Start(r, dir)
                     \/ Step(r)
                     \/ Kill(r)

MigrationSpec == MigrationInit /\ [][MigrationNext]_migrationVars

\* A deployment is repeated until it succeeds, a run carries on, and runners
\* are killed CrashCap times at most.
MigrationFairness ==
  \A r \in Runners : /\ WF_migrationVars(Step(r))
                     /\ WF_migrationVars(Start(r, "up"))

----------------------------------------------------------------------------
(* Properties.                                                             *)

\* readiness: exactly one version row, and it is the expected head.
Ready == db.versions = {HeadVersion}

\* A service that reports ready has its whole schema: no run that failed, was
\* killed or ran beside another one has left the head version over a schema
\* that lacks something (readiness and both migrations).
ReadyMeansComplete == Ready => Complete(db.objects)

\* Runs at the same time leave one version at most: a runner that read the
\* version before another one committed finds every object in place, and must
\* not record its own version beside the other's.
OneVersion == Cardinality(db.versions) <= 1

\* Whatever database it started from and wherever runs were killed, repeated
\* upgrades make the service ready, and it stays so unless it is downgraded.
EventuallyReady == "down" \notin deployment.commands => <>[]Ready
=============================================================================
