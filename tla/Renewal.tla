------------------------------ MODULE Renewal ------------------------------
(***************************************************************************)
(* Expiry against renewal.  The portal writes "expired" from a copy of the *)
(* order that it read some statements before (ensure_order_state,          *)
(* expire_due_orders), while an administrator moves the expiration under a *)
(* row lock the reader did not take.  A history variable added to          *)
(* BuyerAccess tells which requests such a move has overtaken.             *)
(***************************************************************************)
EXTENDS BuyerAccess

VARIABLE overtaken  \* history: <<request, order>>: the order's expiration was
                    \* moved after the request had read it

renewalVars == <<vars, overtaken>>

RenewalInit == Init /\ overtaken = {}

\* The orders of which r has a copy: of a running session it has none yet.
Copies(r) ==
  IF requests[r].pc \in {"idle", "order"} THEN {}
  ELSE requests[r].due \cup ({requests[r].order} \cap Orders)

Overtake ==
  overtaken' = {p \in Requests \X Orders :
                  /\ p[2] \in Copies(p[1]) /\ p[2] \in Copies(p[1])'
                  /\ \/ p \in overtaken
                     \/ orders'[p[2]].expires_at # orders[p[2]].expires_at}

RenewalNext == Next /\ Overtake

RenewalSpec == RenewalInit /\ [][RenewalNext]_renewalVars

----------------------------------------------------------------------------

\* A live order is not cut short: it becomes expired before its time only when
\* the administrator moves its expiration to the past, or when the expiry was
\* decided before the expiration was last moved and is committed after it.  No
\* other overlap of unlocks, codes, order pages, batch expiry and renewals ends
\* the access of a buyer early (expire_due_orders, ensure_order_state,
\* update_order_expiration).
LiveNotCutShort ==
  [][\A o \in Orders :
       Live(o) /\ orders'[o].status = "expired"
       => \/ orders'[o].expires_at <= now
          \/ \E r \in Requests : /\ requests[r].pc = "commit"
                                 /\ o \in requests[r].due
                                 /\ <<r, o>> \in overtaken]_renewalVars
=============================================================================
