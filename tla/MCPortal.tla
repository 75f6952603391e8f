------------------------------ MODULE MCPortal ------------------------------
(* Instances of PortalSession and CodePage for model checking.  The two    *)
(* share no state: each is explored with the other one at rest.            *)
EXTENDS PortalSession, CodePage, TLC

AdminKinds == {"login_page", "login", "admin_page", "admin_post", "admin_logout"}

Symmetry == Permutations(Slots)

VARIABLE part  \* an administrator's tabs, one request at a time, or the page

MCInit ==
  /\ SessionInit /\ PageInit
  /\ part \in {"tabs", "alone", "page"}
  /\ part # "page" => clock = 0

\* The responses of several tabs can bring back any cookie; what is promised
\* of every request is promised of those that run alone.
Alone == \A t, u \in Slots : requests[t].pc # "idle" /\ requests[u].pc # "idle" => t = u

MCNext ==
  /\ \/ /\ part = "tabs"
        /\ SessionNext
        /\ \A t \in Slots : requests'[t].kind \in AdminKinds \cup {"none"}
        /\ UNCHANGED pageVars
     \/ part = "alone" /\ SessionNext /\ Alone' /\ UNCHANGED pageVars
     \/ part = "page" /\ PageNext /\ UNCHANGED sessionVars
  /\ UNCHANGED part

MCSpec == MCInit /\ [][MCNext]_<<part, sessionVars, pageVars>>

\* See PortalSession: only tabs that wait for each other are told the truth.
LogoutHoldsAlone == part = "alone" => LogoutHolds
=============================================================================
