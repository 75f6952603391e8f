---------------------------- MODULE MCFulfilment ----------------------------
(* Instances of Fulfilment for model checking.                             *)
EXTENDS Fulfilment, G2GPayload, TLC

CONSTANTS x1, e1, e2, e3, e4, e5, e6, p1, p2, d1, d2

Message(e, kind) ==
  [event_id |-> e, kind |-> kind, order |-> x1, identity |-> p1,
   delivery_id |-> Null, fault |-> "none", complete |-> FALSE]

Purchase == Message(e1, "fulfil")
WithItem == [Message(e6, "fulfil") EXCEPT !.delivery_id = d1]
WithRecords == [Message(e2, "fulfil") EXCEPT !.identity = p2]
NamesItem == [Message(e3, "status") EXCEPT !.delivery_id = d2]
Cancels == Message(e4, "revoke")
Unknown == [Message(e5, "other") EXCEPT !.delivery_id = d2]

\* A purchase without an item, a conflicting one with several records of which
\* one is open, and an event that names an item.
Items == {Purchase, WithRecords, NamesItem}

\* A purchase with its item, and its cancellation.
Cancellations == {WithItem, Cancels}

\* A purchase and an event of a type the endpoint does not know.
Unknowns == {Purchase, Unknown}

Messages == Items \cup Cancellations \cup Unknowns

FoundIn ==
  [m \in Webhooks |-> CASE m = WithRecords -> {d1}
                        [] m.delivery_id # Null -> {m.delivery_id}
                        [] OTHER -> DeliveryIds]

Symmetry == Permutations(Senders)

\* The sets of messages that are tried.
Known == {Items, Cancellations}
UnknownToo == {Unknowns}

CONSTANT Traffics

VARIABLE traffic  \* the messages that arrive; none: documents are read

MCInit ==
  /\ FulfilInit
  /\ Init
  /\ traffic \in Traffics \cup {{}}
  /\ traffic = {} => \A o \in OrderIds : ~HasRow(o)

MCNext ==
  /\ \/ /\ traffic # {}
        /\ FulfilNext
        /\ \A e \in EventIds : events'[e].body \in traffic \cup {Null}
        /\ UNCHANGED vars
     \/ traffic = {} /\ Next /\ UNCHANGED fulfilVars
  /\ UNCHANGED traffic

MCSpec == MCInit /\ [][MCNext]_<<fulfilVars, traffic, vars>>
=============================================================================
