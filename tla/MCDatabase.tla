----------------------------- MODULE MCDatabase -----------------------------
(* Instances of Migration and RateLimit for model checking.  The two share *)
(* no state: each is explored with the other one at rest.                  *)
EXTENDS Migration, RateLimit

\* PostgreSQL with and without downgrades; on SQLite a downgrade fails.
DeploymentSet ==
  {[backend |-> "postgresql", commands |-> {"up", "down"}],
   [backend |-> "postgresql", commands |-> {"up"}],
   [backend |-> "sqlite", commands |-> {"up"}]}

VARIABLE part  \* the one that runs

MCInit ==
  /\ MigrationInit /\ RateInit
  /\ part \in {"migration", "rate limit"}
  /\ part = "rate limit" =>
       db.objects = {} /\ "down" \in deployment.commands

MCNext ==
  /\ \/ part = "migration" /\ MigrationNext /\ UNCHANGED rateVars
     \/ part = "rate limit" /\ RateNext /\ UNCHANGED migrationVars
  /\ UNCHANGED part

MCFairness ==
  /\ part = "migration" => MigrationFairness
  /\ part = "rate limit" => RateFairness

MCSpec == MCInit /\ [][MCNext]_<<part, migrationVars, rateVars>> /\ MCFairness
=============================================================================
