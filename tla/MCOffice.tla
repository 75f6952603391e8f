------------------------------ MODULE MCOffice ------------------------------
(* Instances of AccountSettings and AuditTrail for model checking.  The    *)
(* two share no state: each is explored with the other one at rest.        *)
EXTENDS AccountSettings, AuditTrail, TLC

Unset == [login |-> Null, password |-> Null, totp |-> Null]

\* Nothing is set; one account is; a login without a password, with a secret
\* that cannot be parsed.
EnvironmentSets ==
  {Unset}
    \cup {[login |-> a, password |-> a, totp |-> a] : a \in Accounts}
    \cup {[login |-> a, password |-> Null, totp |-> Broken] : a \in Accounts}

Interchangeable == Permutations(Accounts) \cup Permutations(Tabs) \cup Permutations(Admins)

VARIABLE part  \* the one that runs

MCInit ==
  /\ SettingsInit /\ AuditInit
  /\ part \in {"settings", "orders"}
  /\ part = "orders" => env = Unset

MCNext ==
  /\ \/ part = "settings" /\ SettingsNext /\ UNCHANGED auditVars
     \/ part = "orders" /\ AuditNext /\ UNCHANGED settingsVars
  /\ UNCHANGED part

MCSpec == MCInit /\ [][MCNext]_<<part, settingsVars, auditVars>>
=============================================================================
