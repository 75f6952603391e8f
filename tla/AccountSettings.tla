--------------------------- MODULE AccountSettings ---------------------------
(***************************************************************************)
(* The shared software account that buyers receive: one row of             *)
(* portal_settings, written by the administrator's form, over fallbacks    *)
(* from the environment (settings_service.py, the settings page).          *)
(*                                                                         *)
(* Login (provider and e-mail), password and TOTP secret stand for the     *)
(* account they belong to.  A save reads the row and writes, in one        *)
(* transaction, the login and those secrets that were filled in: both, one *)
(* or none.  Pages stay open, saves overlap, and the service is restarted  *)
(* with another environment.                                               *)
(***************************************************************************)

CONSTANTS
  Accounts,
  Environments,  \* what the environment may set
  Tabs           \* settings pages the administrators have open

Null == "none"      \* NULL in the row, unset in the environment, left empty
Blank == "blank"    \* a password of nothing but spaces
Broken == "broken"  \* a TOTP secret that cannot be parsed

ASSUME SettingsAssumption ==
  /\ Accounts \cap {Null, Blank, Broken} = {}
  /\ Environments \subseteq [login : Accounts \cup {Null},
                             password : Accounts \cup {Null},
                             totp : Accounts \cup {Null, Broken}]

VARIABLES
  env,     \* the environment the service was started with
  row,     \* the row of portal_settings
  tabs,    \* tab -> its form, or the save it has under way
  mixing   \* history: fields of two accounts may have come together

settingsVars == <<env, row, tabs, mixing>>

NoRow == [exists |-> FALSE, login |-> Null, password |-> Null, totp |-> Null]

Closed == [pc |-> "closed", shown |-> Null, input |-> NoRow, found |-> {}]

SettingsInit ==
  /\ env \in Environments
  /\ row = NoRow
  /\ tabs = [t \in Tabs |-> Closed]
  /\ mixing = FALSE

----------------------------------------------------------------------------
(* get_account_settings                                                    *)

Fields == {"login", "password", "totp"}

\* _decrypt_or_default
Current(f) == IF row[f] # Null THEN row[f] ELSE env[f]

Configured ==
  /\ \A f \in Fields : Current(f) \notin {Null, Blank}
  /\ Current("totp") # Broken

----------------------------------------------------------------------------
(* The settings page.                                                      *)

Open(t) ==
  /\ tabs[t].pc = "closed"
  /\ tabs' = [tabs EXCEPT
       ![t].pc = "form", ![t].shown = IF Configured THEN Current("login") ELSE Null]
  /\ UNCHANGED <<env, row, mixing>>

\* What may be typed, whatever the page shows: a login, and each secret or not.
\* (A secret of spaces counts as left empty.)
Inputs ==
  [login : Accounts, password : Accounts \cup {Null, Blank},
   totp : Accounts \cup {Null, Broken}]

\* The columns that are set.
Filled(r) == {f \in Fields : r[f] # Null}

\* POST: the transaction begins by reading the row (get_settings_record).
Post(t) ==
  /\ tabs[t].pc = "form"
  /\ \E input \in Inputs :
       tabs' = [tabs EXCEPT ![t].pc = "save", ![t].input = input, ![t].found = Filled(row)]
  /\ UNCHANGED <<env, row, mixing>>

\* Faulty variant: the new secret is not parsed.
Accepted_Unparsed(input, found) ==
  {"password", "totp"} \subseteq Filled(input) \cup found \cup Filled(env)

\* The tests of save_account_settings; found are the columns it found set.
Accepted(input, found) ==
  /\ input.totp # Broken
  /\ {"password", "totp"} \subseteq Filled(input) \cup found \cup Filled(env)

\* Faulty variant: a secret that is on record is not replaced.
Written_FirstSecret(input) ==
  [exists |-> TRUE, login |-> input.login,
   password |-> IF input.password # Null THEN input.password ELSE row.password,
   totp |-> IF row.totp = Null THEN input.totp ELSE row.totp]

\* The columns the UPDATE or INSERT sets.
Written(input) ==
  [exists |-> TRUE, login |-> input.login,
   password |-> IF input.password # Null THEN input.password ELSE row.password,
   totp |-> IF input.totp # Null THEN input.totp ELSE row.totp]

\* The accounts that an input names.
Named(input) == {input[f] : f \in Fields} \cap Accounts

\* History: a save that fills everything in with one account ends any mixture.
\* Another one may begin one: where it names an account that its page did not
\* show, and where the account its page showed is not the one of now.
Mixing(input, shown) ==
  /\ Filled(input) # Fields \/ Named(input) # {input.login}
  /\ mixing \/ Named(input) # {shown} \/ shown # Current("login")

Save(t) ==
  LET s == tabs[t] IN
  /\ s.pc = "save"
  /\ Accepted(s.input, s.found)
  /\ (s.found # {}) = row.exists
  /\ row' = Written(s.input)
  /\ mixing' = Mixing(s.input, s.shown)
  /\ tabs' = [tabs EXCEPT ![t] = Closed]
  /\ UNCHANGED env

\* The save is refused, or fails because two have inserted the row: nothing is
\* committed, and the page is opened anew.
Refuse(t) ==
  LET s == tabs[t] IN
  /\ s.pc = "save"
  /\ ~Accepted(s.input, s.found) \/ (s.found # {}) # row.exists
  /\ tabs' = [tabs EXCEPT ![t] = Closed]
  /\ UNCHANGED <<env, row, mixing>>

\* The service is restarted: saves under way are lost, forms stay open.
Redeploy(e) ==
  /\ env' = e
  /\ tabs' = [t \in Tabs |-> IF tabs[t].pc = "save" THEN Closed ELSE tabs[t]]
  /\ mixing' = (mixing \/ (e # env /\ row.exists /\ Filled(row) # Fields))
  /\ UNCHANGED row

SettingsNext ==
  \/ \E t \in Tabs : Open(t) \/ Post(t) \/ Save(t) \/ Refuse(t)
  \/ \E e \in Environments : Redeploy(e)

SettingsSpec == SettingsInit /\ [][SettingsNext]_settingsVars

----------------------------------------------------------------------------
(* Properties.                                                             *)

\* Buyers receive login, password and TOTP secret of one account, whatever
\* pages, saves and restarts come between.  The fields come apart in three ways
\* only: a save that leaves a secret empty, or names two accounts, names one
\* that its page did not show; such a save comes from a page whose account is
\* no longer the one in use; or the environment changes under a row that was
\* saved without one of the secrets.  A save of one account with both secrets
\* puts it right again (save_account_settings, get_account_settings).
OneAccount ==
  Configured /\ ~mixing
    => Current("login") = Current("password") /\ Current("password") = Current("totp")

\* No save takes a portal that serves an account out of service, whatever is
\* saved beside it, but one with a password of nothing but spaces (the tests of
\* save_account_settings cover those of get_account_settings except that one).
ConfiguredStays ==
  [][Configured /\ ~Configured' => env' # env \/ row'.password = Blank]_settingsVars
=============================================================================
