-------------------------- MODULE MCWebhookIngest --------------------------
(* Instances of WebhookIngest and IngestLocks for model checking: the      *)
(* messages, each handled in one step or statement by statement.           *)
EXTENDS IngestLocks

CONSTANTS x1, e1, e2, e3, e4, e5, e6, p1, p2, d1, d2

Message(e, kind) ==
  [event_id |-> e, kind |-> kind, order |-> x1, identity |-> p1,
   delivery_id |-> Null, fault |-> "none", complete |-> FALSE]

\* A purchase with and without an item, one that is not on sale, a conflicting
\* one, an invalid one, a cancellation, a report on each item, an event of no
\* known type; identifiers used twice.
Messages == {
  [Message(e1, "fulfil") EXCEPT !.delivery_id = d1],
  [Message(e1, "fulfil") EXCEPT !.identity = p2, !.fault = "rejected"],
  Message(e2, "fulfil"),
  [Message(e3, "fulfil") EXCEPT !.identity = p2, !.delivery_id = d2],
  Message(e4, "revoke"),
  [Message(e4, "status") EXCEPT !.delivery_id = d2],
  [Message(e5, "status") EXCEPT !.delivery_id = d1, !.complete = TRUE],
  [Message(e6, "fulfil") EXCEPT !.fault = "invalid"],
  Message(e6, "other")}

\* A purchase, and a cancellation and a report that share both their locks.
Contending == {
  [Message(e1, "fulfil") EXCEPT !.delivery_id = d1],
  Message(e4, "revoke"),
  [Message(e4, "status") EXCEPT !.delivery_id = d2]}

VARIABLE grain  \* whether messages are handled in one step or by statements

MCInit == LocksInit /\ grain \in {"message", "statement"}

MCNext ==
  /\ \/ grain = "message" /\ IngestNext /\ UNCHANGED handlers
     \/ /\ grain = "statement"
        /\ LocksNext
        /\ \A t \in Threads : handlers'[t].msg \in Contending \cup {Null}
  /\ UNCHANGED grain

MCSpec == MCInit /\ [][MCNext]_<<lockVars, grain>> /\ LocksFairness
=============================================================================
