---------------------------- MODULE OfficeProofs -----------------------------
(***************************************************************************)
(* Proofs about the administrators' forms.                                 *)
(*                                                                         *)
(* AccountSettings, for any accounts, any environments and any number of   *)
(* open pages: the account is one account, and stays configured.           *)
(*                                                                         *)
(* AuditTrail, for any number of orders, administrators and records and    *)
(* any times: the three properties of the log, each from AuditCore.  A     *)
(* step is described once for the rows (OrdersStep), the log (LogStep) and *)
(* the requests (RequestsStep).                                            *)
(***************************************************************************)
EXTENDS AccountSettings, AuditTrail, TLAPS

----------------------------------------------------------------------------
(* AccountSettings.                                                        *)

\* What the environment sets belongs to one account.  The code cannot see to
\* that; it is the assumption under which OneAccount can hold at all.
EnvironmentsAgree ==
  \A e \in Environments : \A f, g \in Fields :
    e[f] \in Accounts /\ e[g] \in Accounts => e[f] = e[g]

RowType ==
  [exists : BOOLEAN, login : Accounts \cup {Null},
   password : Accounts \cup {Null, Blank}, totp : Accounts \cup {Null}]

TabType ==
  [pc : {"closed", "form", "save"}, shown : Accounts \cup {Null},
   input : Inputs \cup {NoRow}, found : SUBSET Fields]

SettingsTypes ==
  /\ env \in Environments
  /\ row \in RowType
  /\ row.exists => row.login # Null
  /\ ~row.exists => row = NoRow
  /\ tabs \in [Tabs -> TabType]
  /\ \A t \in Tabs : tabs[t].pc = "save" => tabs[t].input \in Inputs

\* The fields that name an account name the same one.
Agreed ==
  \A f, g \in Fields :
    Current(f) \in Accounts /\ Current(g) \in Accounts => Current(f) = Current(g)

SettingsInv == SettingsTypes /\ mixing \in BOOLEAN /\ (~mixing => Agreed)

----------------------------------------------------------------------------

\* An environment, field by field.
LEMMA EnvironmentType ==
  ASSUME NEW e \in Environments
  PROVE  /\ e.login \in Accounts \cup {Null}
         /\ e.password \in Accounts \cup {Null}
         /\ e.totp \in Accounts \cup {Null, Broken}
  BY SettingsAssumption

\* What is current, field by field.
LEMMA CurrentType ==
  ASSUME SettingsTypes
  PROVE  /\ Current("login") \in Accounts \cup {Null}
         /\ Current("password") \in Accounts \cup {Null, Blank}
         /\ Current("totp") \in Accounts \cup {Null, Broken}
  BY EnvironmentType DEF SettingsTypes, RowType, Current

\* Without a row, the environment is current.
LEMMA FromEnvironment ==
  ASSUME EnvironmentsAgree, env \in Environments, row = NoRow
  PROVE  Agreed
<1>1. \A f \in Fields : Current(f) = env[f]
  BY DEF Fields, Current, NoRow
<1> QED BY <1>1 DEF EnvironmentsAgree, Agreed

\* What is current after a save: what it fills in, and what was current before.
LEMMA SavedCurrent ==
  ASSUME SettingsTypes, NEW input \in Inputs, input.totp # Broken,
         row' = Written(input), env' = env
  PROVE  /\ row' \in RowType /\ row'.exists /\ row'.login # Null
         /\ \A f \in Fields :
              Current(f)' = IF input[f] # Null THEN input[f] ELSE Current(f)
<1>1. /\ input.login \in Accounts /\ input.login # Null
      /\ input.password \in Accounts \cup {Null, Blank}
      /\ input.totp \in Accounts \cup {Null}
  BY SettingsAssumption DEF Inputs
<1>2. row' = [exists |-> TRUE, login |-> input.login,
              password |-> IF input.password # Null THEN input.password ELSE row.password,
              totp |-> IF input.totp # Null THEN input.totp ELSE row.totp]
  BY DEF Written
<1>3. /\ row'.exists /\ row'.login = input.login
      /\ row'.password = IF input.password # Null THEN input.password ELSE row.password
      /\ row'.totp = IF input.totp # Null THEN input.totp ELSE row.totp
  BY <1>2
<1>4. row' \in RowType
  BY <1>1, <1>2 DEF SettingsTypes, RowType
<1>5. Current("login")' = input.login
  BY <1>1, <1>3 DEF Current
<1>6. Current("password")' = IF input.password # Null THEN input.password ELSE Current("password")
  BY <1>3 DEF Current
<1>7. Current("totp")' = IF input.totp # Null THEN input.totp ELSE Current("totp")
  BY <1>3 DEF Current
<1> QED BY <1>1, <1>3, <1>4, <1>5, <1>6, <1>7 DEF Fields

\* What is filled in names one account: the only one, or the current one.
LEMMA InputAgrees ==
  ASSUME NEW input \in Inputs, NEW offered, input.totp # Broken, ~Mixing(input, offered),
         ~mixing => Agreed, NEW f \in Fields, NEW g \in Fields
  PROVE  LET after(h) == IF input[h] # Null THEN input[h] ELSE Current(h)
         IN  after(f) \in Accounts /\ after(g) \in Accounts => after(f) = after(g)
<1> DEFINE after(h) == IF input[h] # Null THEN input[h] ELSE Current(h)
<1>1. input.login \in Accounts /\ Null \notin Accounts
  BY SettingsAssumption DEF Inputs
<1>2. input.login \in Named(input)
  BY <1>1 DEF Named, Fields
<1>3. CASE Filled(input) = Fields /\ Named(input) = {input.login}
  <2>1. \A h \in Fields : input[h] # Null
    BY <1>3 DEF Filled
  <2>2. \A h \in Fields : input[h] \in Accounts => input[h] = input.login
    BY <1>3 DEF Named
  <2> QED BY <2>1, <2>2
<1>4. CASE ~mixing /\ Named(input) = {offered} /\ offered = Current("login")
  <2>1. \A h \in Fields : input[h] \in Accounts => input[h] = Current("login")
    BY <1>4 DEF Named
  <2>2. Current("login") \in Accounts
    BY <1>1, <1>2, <1>4
  <2>3. \A h \in Fields : Current(h) \in Accounts => Current(h) = Current("login")
    BY <1>4, <2>2 DEF Agreed, Fields
  <2>4. \A h \in Fields : after(h) \in Accounts => after(h) = Current("login")
    BY <2>1, <2>3
  <2> QED BY <2>4
<1> QED BY <1>3, <1>4 DEF Mixing

\* One tab goes on, and how far.
LEMMA TabStep ==
  ASSUME SettingsTypes, NEW t \in Tabs, NEW new \in TabType,
         new.pc = "save" => new.input \in Inputs,
         tabs' = [tabs EXCEPT ![t] = new]
  PROVE  /\ tabs' \in [Tabs -> TabType]
         /\ \A u \in Tabs : tabs'[u].pc = "save" => tabs'[u].input \in Inputs
<1>1. tabs'[t] = new /\ \A u \in Tabs \ {t} : tabs'[u] = tabs[u]
  BY DEF SettingsTypes
<1> QED BY <1>1 DEF SettingsTypes

\* A page that is closed has its type.
LEMMA ClosedType == Closed \in TabType /\ Closed.pc = "closed"
  BY DEF Closed, TabType, NoRow, RowType

\* The initial states satisfy the invariant.
LEMMA SettingsInitInv == EnvironmentsAgree /\ SettingsInit => SettingsInv
<1> SUFFICES ASSUME EnvironmentsAgree, SettingsInit PROVE SettingsInv
  OBVIOUS
<1>1. env \in Environments /\ row = NoRow
  BY DEF SettingsInit
<1>2. row \in RowType /\ ~row.exists
  BY <1>1 DEF NoRow, RowType
<1>3. tabs \in [Tabs -> TabType] /\ \A t \in Tabs : tabs[t].pc = "closed"
  BY ClosedType DEF SettingsInit
<1>4. Agreed
  BY <1>1, FromEnvironment
<1>5. mixing \in BOOLEAN
  BY DEF SettingsInit
<1> QED BY <1>1, <1>2, <1>3, <1>4, <1>5 DEF SettingsInv, SettingsTypes

\* Opening a page and sending its form change nothing that buyers receive.
LEMMA PageStep ==
  ASSUME SettingsInv, NEW t \in Tabs, Open(t) \/ Post(t) \/ Refuse(t)
  PROVE  SettingsInv' /\ UNCHANGED <<env, row, mixing>>
<1>0. SettingsTypes /\ tabs[t] \in TabType
  BY DEF SettingsInv, SettingsTypes
<1>1. UNCHANGED <<env, row, mixing>>
  BY DEF Open, Post, Refuse
<1>2. ASSUME NEW new \in TabType,
             new.pc = "save" => new.input \in Inputs,
             tabs' = [tabs EXCEPT ![t] = new]
      PROVE  SettingsInv'
  <2>1. /\ tabs' \in [Tabs -> TabType]
        /\ \A u \in Tabs : tabs'[u].pc = "save" => tabs'[u].input \in Inputs
    BY <1>0, <1>2, TabStep
  <2> QED BY <1>1, <2>1 DEF SettingsInv, SettingsTypes, Agreed, Current
<1>3. CASE Open(t)
  <2> DEFINE login == IF Configured THEN Current("login") ELSE Null
             new == [tabs[t] EXCEPT !.pc = "form", !.shown = login]
  <2>1. login \in Accounts \cup {Null}
    BY <1>0, CurrentType
  <2>2. tabs' = [tabs EXCEPT ![t] = new]
    BY <1>0, <1>3 DEF Open, SettingsTypes
  <2>3. new \in TabType /\ new.pc = "form"
    <3> HIDE DEF login
    <3> QED BY <1>0, <2>1 DEF TabType
  <2> HIDE DEF new
  <2> QED BY <1>1, <1>2, <2>2, <2>3
<1>4. CASE Post(t)
  <2>1. PICK input \in Inputs :
          tabs' = [tabs EXCEPT ![t].pc = "save", ![t].input = input, ![t].found = Filled(row)]
    BY <1>4 DEF Post
  <2> DEFINE new == [tabs[t] EXCEPT !.pc = "save", !.input = input, !.found = Filled(row)]
  <2>2. tabs' = [tabs EXCEPT ![t] = new]
    BY <1>0, <2>1 DEF SettingsTypes
  <2>3. Filled(row) \subseteq Fields
    BY DEF Filled
  <2>4. new \in TabType /\ new.input = input
    BY <1>0, <2>3 DEF TabType
  <2> HIDE DEF new
  <2> QED BY <1>1, <1>2, <2>2, <2>4
<1>5. CASE Refuse(t)
  BY <1>1, <1>2, <1>5, ClosedType DEF Refuse
<1> QED BY <1>1, <1>3, <1>4, <1>5

\* A save that mixes nothing leaves the fields agreed, and one without a password
\* of spaces leaves a portal that was configured so.
LEMMA SaveStep ==
  ASSUME SettingsInv, NEW t \in Tabs, Save(t)
  PROVE  /\ SettingsInv'
         /\ Configured => Configured' \/ row'.password = Blank
<1>0. SettingsTypes /\ tabs[t] \in TabType
  BY DEF SettingsInv, SettingsTypes
<1>1. PICK input, offered : input = tabs[t].input /\ offered = tabs[t].shown
  OBVIOUS
<1>2. /\ input.totp # Broken /\ row' = Written(input) /\ mixing' = Mixing(input, offered)
      /\ tabs' = [tabs EXCEPT ![t] = Closed] /\ env' = env /\ tabs[t].pc = "save"
  BY <1>1 DEF Save, Accepted
<1>3. input \in Inputs
  BY <1>0, <1>1, <1>2 DEF SettingsTypes
<1>4. /\ row' \in RowType /\ row'.exists /\ row'.login # Null
      /\ \A f \in Fields : Current(f)' = IF input[f] # Null THEN input[f] ELSE Current(f)
  BY <1>0, <1>2, <1>3, SavedCurrent
<1>5. SettingsTypes'
  <2>1. /\ tabs' \in [Tabs -> TabType]
        /\ \A u \in Tabs : tabs'[u].pc = "save" => tabs'[u].input \in Inputs
    BY <1>0, <1>2, TabStep, ClosedType
  <2> QED BY <1>0, <1>2, <1>4, <2>1 DEF SettingsTypes
<1>6. mixing' \in BOOLEAN
  BY <1>2 DEF Mixing
<1>7. ~mixing' => Agreed'
  <2> SUFFICES ASSUME ~mixing', NEW f \in Fields, NEW g \in Fields,
                      Current(f)' \in Accounts, Current(g)' \in Accounts
               PROVE  Current(f)' = Current(g)'
    BY DEF Agreed
  <2>1. ~Mixing(input, offered) /\ (~mixing => Agreed)
    BY <1>2 DEF SettingsInv
  <2> QED BY <1>2, <1>3, <1>4, <2>1, InputAgrees
<1>8. Configured => Configured' \/ row'.password = Blank
  <2> SUFFICES ASSUME Configured, row'.password # Blank PROVE Configured'
    OBVIOUS
  <2>1. /\ input.login \in Accounts /\ input.password \in Accounts \cup {Null, Blank}
        /\ input.totp \in Accounts \cup {Null}
    BY <1>2, <1>3 DEF Inputs
  <2>2. Accounts \cap {Null, Blank, Broken} = {} /\ Null # Blank
    BY SettingsAssumption DEF Null, Blank
  <2>3. input.password # Blank
    BY <1>2, <2>2 DEF Written
  <2>4. Current("login")' \in Accounts
    BY <1>4, <2>1, <2>2 DEF Fields
  <2>5. Current("password")' \in Accounts \/ Current("password")' = Current("password")
    BY <1>4, <2>1, <2>3 DEF Fields
  <2>6. Current("totp")' \in Accounts \/ Current("totp")' = Current("totp")
    BY <1>4, <2>1 DEF Fields
  <2> QED BY <2>2, <2>4, <2>5, <2>6 DEF Configured, Fields
<1> QED BY <1>5, <1>6, <1>7, <1>8 DEF SettingsInv

\* A restart brings in another environment: where the row has a gap, that is
\* remembered; where it has none, nothing changes.
LEMMA RedeployStep ==
  ASSUME SettingsInv, EnvironmentsAgree, NEW e \in Environments, Redeploy(e)
  PROVE  SettingsInv'
<1>0. SettingsTypes
  BY DEF SettingsInv
<1>1. env' = e /\ row' = row
  BY DEF Redeploy
<1>2. SettingsTypes'
  <2>1. \A t \in Tabs : tabs'[t] = tabs[t] \/ tabs'[t] = Closed
    BY DEF Redeploy
  <2>2. tabs' = [t \in Tabs |-> tabs'[t]]
    BY DEF Redeploy
  <2>3. tabs' \in [Tabs -> TabType]
    BY <1>0, <2>1, <2>2, ClosedType DEF SettingsTypes
  <2>4. \A t \in Tabs : tabs'[t].pc = "save" => tabs'[t].input \in Inputs
    BY <1>0, <2>1, ClosedType DEF SettingsTypes
  <2> QED BY <1>0, <1>1, <2>3, <2>4 DEF SettingsTypes
<1>3. mixing' \in BOOLEAN
  BY DEF Redeploy, SettingsInv
<1>4. CASE ~row.exists
  <2>1. row' = NoRow /\ env' \in Environments
    BY <1>0, <1>1, <1>4 DEF SettingsTypes
  <2>2. \A f \in Fields : Current(f)' = e[f]
    BY <1>1, <2>1 DEF Fields, Current, NoRow
  <2>3. Agreed'
    BY <2>2 DEF EnvironmentsAgree, Agreed
  <2> QED BY <1>2, <1>3, <2>3 DEF SettingsInv
<1>5. CASE e # env /\ row.exists /\ Filled(row) # Fields
  <2>1. mixing'
    BY <1>5 DEF Redeploy
  <2> QED BY <1>2, <1>3, <2>1 DEF SettingsInv
<1>6. CASE e = env \/ Filled(row) = Fields
  <2>1. \A f \in Fields : Current(f)' = Current(f)
    BY <1>1, <1>6 DEF Current, Filled
  <2>2. mixing' = mixing
    BY <1>6 DEF Redeploy, SettingsInv
  <2> QED BY <1>2, <1>3, <2>1, <2>2 DEF SettingsInv, Agreed
<1> QED BY <1>4, <1>5, <1>6

\* The invariant is preserved.
LEMMA SettingsStepInv ==
  EnvironmentsAgree /\ SettingsInv /\ [SettingsNext]_settingsVars => SettingsInv'
<1> SUFFICES ASSUME EnvironmentsAgree, SettingsInv, [SettingsNext]_settingsVars
             PROVE  SettingsInv'
  OBVIOUS
<1>1. CASE UNCHANGED settingsVars
  BY <1>1 DEF settingsVars, SettingsInv, SettingsTypes, Agreed, Current
<1>2. CASE SettingsNext
  BY <1>2, PageStep, SaveStep, RedeployStep DEF SettingsNext
<1> QED BY <1>1, <1>2

----------------------------------------------------------------------------

\* Buyers receive one account but for the three named ways to mix two, provided
\* the environment never holds parts of two: for any number of pages, whatever is
\* typed into them, and however pages, saves and restarts interleave.
THEOREM SettingsOneAccount == EnvironmentsAgree => (SettingsSpec => []OneAccount)
<1> SUFFICES ASSUME EnvironmentsAgree PROVE SettingsSpec => []OneAccount
  OBVIOUS
<1>1. SettingsInit => SettingsInv
  BY SettingsInitInv
<1>2. SettingsInv /\ [SettingsNext]_settingsVars => SettingsInv'
  BY SettingsStepInv
<1>3. SettingsInv => OneAccount
  <2> SUFFICES ASSUME SettingsInv, Configured, ~mixing
               PROVE  Current("login") = Current("password") /\ Current("password") = Current("totp")
    BY DEF OneAccount
  <2>1. \A f \in Fields : Current(f) \in Accounts
    BY CurrentType DEF SettingsInv, Configured, Fields
  <2> QED BY <2>1 DEF SettingsInv, Agreed, Fields
<1> QED BY <1>1, <1>2, <1>3, PTL DEF SettingsSpec

\* No save takes a portal out of service but one with a password of spaces.
THEOREM SettingsStayConfigured ==
  EnvironmentsAgree => (SettingsSpec => ConfiguredStays)
<1> SUFFICES ASSUME EnvironmentsAgree PROVE SettingsSpec => ConfiguredStays
  OBVIOUS
<1> DEFINE Stays == Configured /\ ~Configured' => env' # env \/ row'.password = Blank
<1>1. SettingsInit => SettingsInv
  BY SettingsInitInv
<1>2. SettingsInv /\ [SettingsNext]_settingsVars => SettingsInv'
  BY SettingsStepInv
<1>3. SettingsInv /\ [SettingsNext]_settingsVars => [Stays]_settingsVars
  <2> SUFFICES ASSUME SettingsInv, SettingsNext, Configured, env' = env, row'.password # Blank
               PROVE  Configured'
    OBVIOUS
  <2>1. CASE \E t \in Tabs : Open(t) \/ Post(t) \/ Refuse(t)
    <3>1. row' = row
      BY <2>1, PageStep
    <3> QED BY <3>1 DEF Configured, Current
  <2>2. CASE \E t \in Tabs : Save(t)
    BY <2>2, SaveStep
  <2>3. CASE \E e \in Environments : Redeploy(e)
    <3>1. row' = row
      BY <2>3 DEF Redeploy
    <3> QED BY <3>1 DEF Configured, Current
  <2> QED BY <2>1, <2>2, <2>3 DEF SettingsNext
<1>4. SettingsSpec => [][Stays]_settingsVars
  BY <1>1, <1>2, <1>3, PTL DEF SettingsSpec
<1> QED BY <1>4 DEF ConfiguredStays

----------------------------------------------------------------------------
(* AuditTrail.                                                             *)

OrderType ==
  [key : Nat, status : {"none", "active", "expired", "revoked"}, expires : Nat,
   manual : BOOLEAN, bought : Nat, endedBy : {"nobody", "admin", "webhook"},
   first : Nat]

TermActions == {"expiration", "reactivation"}

Actions == TermActions \cup {"revoke", "create", "reveal"}

RecordType == [action : Actions, order : Orders, old : Nat, new : Nat]

RequestType ==
  [pc : {"idle", "locked", "insert", "audit", "show"}, op : Actions \cup {"none"},
   order : Orders \cup {"none"}, row : OrderType, key : Nat, record : Nat]

PageType == [order : Orders, key : Nat, record : Nat]

AuditTypes ==
  /\ orders \in [Orders -> OrderType]
  /\ log \in Seq(RecordType)
  /\ requests \in [Admins -> RequestType]
  /\ keys \in Nat
  /\ now \in Nat
  /\ shown \in Seq(PageType)

\* What a request is about at each place: it holds a true copy of the row it
\* has locked, and a key only of the order it is about.
Busy(a) ==
  LET r == requests[a] IN
  /\ r.pc # "idle" => r.order \in Orders
  /\ r.pc \in {"locked", "audit", "show"} => HasRow(r.order)
  /\ r.pc = "locked" => /\ r.op \in TermActions
                        /\ r.row.expires = orders[r.order].expires
  /\ r.pc = "insert" => r.op = "create"
  /\ r.pc = "audit" => r.op \in {"revoke", "create"}
  /\ r.pc = "show" \/ (r.pc = "audit" /\ r.op = "create")
       => r.key = orders[r.order].key

\* A row is locked by one request at most.
OneLock ==
  \A a, b \in Admins :
    /\ requests[a].pc = "locked" /\ requests[b].pc = "locked"
    /\ requests[a].order = requests[b].order
    => a = b

\* Records are about orders that have a row.
Grounded == \A i \in DOMAIN log : HasRow(log[i].order)

AuditCore == AuditTypes /\ (\A a \in Admins : Busy(a)) /\ OneLock /\ Grounded

\* The steps of one request, and those nobody asks for.
AdminStep(a) ==
  \/ \E o \in Orders :
       \/ \E op \in TermActions : LockOrder(a, o, op)
       \/ Revoke(a, o)
       \/ CheckReference(a, o)
       \/ Reveal(a, o)
  \/ Reject(a)
  \/ UpdateExpiration(a)
  \/ ReactivateOrder(a)
  \/ CreateManual(a)
  \/ Record(a)
  \/ Show(a)
  \/ Kill(a)

OtherStep == (\E o \in Orders : Purchase(o) \/ Cancel(o) \/ Lapse(o)) \/ Tick

\* Every step is a step of one request or nobody's.
LEMMA NextSplits == AuditNext <=> (\E a \in Admins : AdminStep(a)) \/ OtherStep
  BY DEF AuditNext, AdminStep, OtherStep, TermActions

----------------------------------------------------------------------------
(* Types.                                                                  *)

\* The values a row and a request start from have their types.
LEMMA StartTypes == NoOrder \in OrderType /\ Idle \in RequestType
  BY DEF NoOrder, Idle, OrderType, RequestType

\* AuditCore holds at the start.
LEMMA CoreInit == AuditInit => AuditCore
<1> SUFFICES ASSUME AuditInit PROVE AuditCore
  OBVIOUS
<1>1. log \in Seq(RecordType) /\ shown \in Seq(PageType)
  BY DEF AuditInit
<1>2. orders \in [Orders -> OrderType] /\ requests \in [Admins -> RequestType]
  BY StartTypes DEF AuditInit
<1> QED BY <1>1, <1>2 DEF AuditInit, AuditCore, AuditTypes, Busy, Idle, OneLock, Grounded

\* A new row has its type.
LEMMA NewOrderType ==
  ASSUME NEW key \in Nat, NEW expires \in Nat, NEW manual \in BOOLEAN, now \in Nat
  PROVE  /\ NewOrder(key, expires, manual) \in OrderType
         /\ NewOrder(key, expires, manual).key = key
         /\ NewOrder(key, expires, manual).expires = expires
         /\ NewOrder(key, expires, manual).first = expires
         /\ NewOrder(key, expires, manual).status = "active"
         /\ NewOrder(key, expires, manual).manual = manual
         /\ NewOrder(key, expires, manual).endedBy = "nobody"
  BY DEF NewOrder, NoOrder, OrderType

\* What Goto makes of the requests.
LEMMA GotoType ==
  ASSUME AuditTypes, NEW a \in Admins, NEW o \in Orders, NEW key \in Nat,
         NEW pc \in {"locked", "insert", "audit", "show"}, NEW op \in Actions,
         Goto(a, pc, op, o, key)
  PROVE  /\ requests' \in [Admins -> RequestType]
         /\ requests'[a] = [pc |-> pc, op |-> op, order |-> o, row |-> orders[o],
                            key |-> key, record |-> Len(log) + 1]
         /\ \A b \in Admins \ {a} : requests'[b] = requests[b]
<1>1. Len(log) + 1 \in Nat /\ orders[o] \in OrderType
  BY DEF AuditTypes
<1> QED BY <1>1 DEF Goto, AuditTypes, RequestType

\* An idle request is about nothing.
LEMMA LeaveType ==
  ASSUME AuditTypes, NEW a \in Admins, Leave(a)
  PROVE  /\ requests' \in [Admins -> RequestType]
         /\ requests'[a] = Idle
         /\ \A b \in Admins \ {a} : requests'[b] = requests[b]
  BY StartTypes DEF Leave, AuditTypes

\* One more record.
LEMMA AuditType ==
  ASSUME AuditTypes, NEW action \in Actions, NEW o \in Orders, NEW old \in Nat,
         NEW new \in Nat, Audit(action, o, old, new)
  PROVE  /\ [action |-> action, order |-> o, old |-> old, new |-> new] \in RecordType
         /\ log' = Append(log, [action |-> action, order |-> o, old |-> old, new |-> new])
         /\ log' \in Seq(RecordType)
  BY DEF Audit, AuditTypes, RecordType

----------------------------------------------------------------------------
(* What a step does to the row of an order.                                *)

\* Nothing the properties look at, but for who ended it.
Same(o) ==
  /\ orders'[o].key = orders[o].key
  /\ orders'[o].expires = orders[o].expires
  /\ orders'[o].first = orders[o].first
  /\ HasRow(o)' <=> HasRow(o)

Made(o) ==
  /\ ~HasRow(o)
  /\ HasRow(o)'
  /\ orders'[o].first = orders'[o].expires
  /\ UNCHANGED log

\* A request that has the lock sets the expiration, with a record of it.
Moved(o) ==
  /\ HasRow(o) /\ HasRow(o)'
  /\ orders'[o].key = orders[o].key
  /\ orders'[o].first = orders[o].first
  /\ \E a \in Admins, action \in TermActions :
       /\ requests[a].pc = "locked"
       /\ requests[a].order = o
       /\ requests'[a] = Idle
       /\ log' = Append(log, [action |-> action, order |-> o,
                              old |-> requests[a].row.expires,
                              new |-> orders'[o].expires])

\* Who is to answer for what has become of it.
Attributed(o) ==
  /\ \/ orders'[o].endedBy = "admin" => orders[o].endedBy = "admin"
     \/ \E a \in Admins : /\ requests'[a].pc = "audit" /\ requests'[a].op = "revoke"
                          /\ requests'[a].order = o
  /\ \/ orders'[o].manual => orders[o].manual
     \/ \E a \in Admins : /\ requests'[a].pc = "audit" /\ requests'[a].op = "create"
                          /\ requests'[a].order = o

\* The two changes that have the lock of the row.
LEMMA MoveStep ==
  ASSUME AuditCore, NEW a \in Admins, NEW o \in Orders, o = requests[a].order,
         UpdateExpiration(a) \/ ReactivateOrder(a)
  PROVE  /\ orders' \in [Orders -> OrderType]
         /\ Moved(o) /\ Attributed(o)
         /\ \A p \in Orders \ {o} : Same(p) /\ Attributed(p)
<1> USE DEF AuditCore
<1> DEFINE r == requests[a]
<1>0. /\ HasRow(o) /\ r.row.expires = orders[o].expires
      /\ r.pc = "locked" /\ r.order = o /\ r.row.expires \in Nat
  BY DEF UpdateExpiration, ReactivateOrder, Busy, AuditTypes, RequestType, OrderType
<1>1. requests'[a] = Idle
  BY LeaveType DEF UpdateExpiration, ReactivateOrder
<1>2. CASE UpdateExpiration(a)
  <2>1. PICK new \in Times :
          /\ orders' = [orders EXCEPT ![o].expires = new,
               ![o].status = IF /\ r.row.status = "active"
                                /\ r.row.expires <= now \/ new <= now
                             THEN "expired" ELSE @]
          /\ Audit("expiration", o, r.row.expires, new)
    BY <1>2 DEF UpdateExpiration
  <2>2. new \in Nat
    BY AuditAssumption DEF Times
  <2> DEFINE status == IF /\ r.row.status = "active"
                          /\ r.row.expires <= now \/ new <= now
                       THEN "expired" ELSE orders[o].status
             n == [orders[o] EXCEPT !.expires = new, !.status = status]
  <2>a. orders[o] \in OrderType /\ orders[o].status # "none"
    BY <1>0 DEF AuditTypes, HasRow
  <2>b. status \in {"active", "expired", "revoked"}
    BY <2>a DEF OrderType
  <2>c. orders' = [orders EXCEPT ![o] = n]
    BY <1>0, <2>1 DEF AuditTypes
  <2> HIDE DEF status
  <2>d. /\ n \in OrderType /\ n.expires = new /\ n.key = orders[o].key
        /\ n.first = orders[o].first /\ n.manual = orders[o].manual
        /\ n.endedBy = orders[o].endedBy /\ n.status # "none"
    BY <2>2, <2>a, <2>b DEF OrderType
  <2> HIDE DEF n
  <2>3. orders' \in [Orders -> OrderType]
    BY <2>c, <2>d DEF AuditTypes
  <2>4. /\ orders'[o].expires = new /\ orders'[o].key = orders[o].key
        /\ orders'[o].first = orders[o].first /\ HasRow(o)'
        /\ orders'[o].endedBy = orders[o].endedBy /\ orders'[o].manual = orders[o].manual
    <3>1. orders'[o] = n
      BY <1>0, <2>c DEF AuditTypes
    <3> QED BY <2>d, <3>1 DEF HasRow
  <2>5. Moved(o)
    BY <1>0, <1>1, <2>1, <2>4 DEF Moved, Audit, TermActions
  <2>6. \A p \in Orders \ {o} : Same(p) /\ Attributed(p)
    BY <2>1 DEF AuditTypes, Same, HasRow, Attributed
  <2>7. Attributed(o)
    BY <2>4 DEF Attributed
  <2> QED BY <2>3, <2>5, <2>6, <2>7
<1>3. CASE ReactivateOrder(a)
  <2>1. /\ orders' = [orders EXCEPT ![o].status = "active"]
        /\ Audit("reactivation", o, r.row.expires, r.row.expires)
    BY <1>3 DEF ReactivateOrder
  <2> DEFINE n == [orders[o] EXCEPT !.status = "active"]
  <2>a. orders[o] \in OrderType
    BY <1>0 DEF AuditTypes
  <2>b. /\ n \in OrderType /\ n.expires = orders[o].expires /\ n.key = orders[o].key
        /\ n.first = orders[o].first /\ n.manual = orders[o].manual
        /\ n.endedBy = orders[o].endedBy /\ n.status # "none"
    BY <2>a DEF OrderType
  <2>c. orders' = [orders EXCEPT ![o] = n]
    BY <1>0, <2>1 DEF AuditTypes
  <2> HIDE DEF n
  <2>2. orders' \in [Orders -> OrderType]
    BY <2>b, <2>c DEF AuditTypes
  <2>3. /\ orders'[o].expires = r.row.expires /\ orders'[o].key = orders[o].key
        /\ orders'[o].first = orders[o].first /\ HasRow(o)'
        /\ orders'[o].endedBy = orders[o].endedBy /\ orders'[o].manual = orders[o].manual
    <3>1. orders'[o] = n
      BY <1>0, <2>c DEF AuditTypes
    <3> QED BY <1>0, <2>b, <3>1 DEF HasRow
  <2>4. Moved(o)
    BY <1>0, <1>1, <2>1, <2>3 DEF Moved, Audit, TermActions
  <2>5. \A p \in Orders \ {o} : Same(p) /\ Attributed(p)
    BY <2>1 DEF AuditTypes, Same, HasRow, Attributed
  <2>6. Attributed(o)
    BY <2>3 DEF Attributed
  <2> QED BY <2>2, <2>4, <2>5, <2>6
<1> QED BY <1>2, <1>3

\* Every step leaves a row as it is, or makes it, or moves its expiration.
LEMMA OrdersStep ==
  ASSUME AuditCore, AuditNext
  PROVE  /\ orders' \in [Orders -> OrderType]
         /\ \A o \in Orders : (Same(o) \/ Made(o) \/ Moved(o)) /\ Attributed(o)
<1> DEFINE Goal == /\ orders' \in [Orders -> OrderType]
                   /\ \A o \in Orders : (Same(o) \/ Made(o) \/ Moved(o)) /\ Attributed(o)
<1> USE DEF AuditCore
<1>1. CASE UNCHANGED orders
  BY <1>1 DEF AuditTypes, Same, Attributed, HasRow
<1>2. ASSUME NEW o \in Orders, NEW key \in Nat, NEW expires \in Nat, NEW manual \in BOOLEAN,
             ~HasRow(o), UNCHANGED log,
             orders' = [orders EXCEPT ![o] = NewOrder(key, expires, manual)],
             \/ ~manual
             \/ \E a \in Admins : /\ requests'[a].pc = "audit" /\ requests'[a].op = "create"
                                  /\ requests'[a].order = o
      PROVE  Goal
  <2> DEFINE n == NewOrder(key, expires, manual)
  <2>1. /\ n \in OrderType /\ n.expires = expires /\ n.first = expires
        /\ n.status = "active" /\ n.manual = manual /\ n.endedBy = "nobody"
    BY NewOrderType DEF AuditTypes
  <2> HIDE DEF n
  <2>2. orders' = [orders EXCEPT ![o] = n]
    BY <1>2 DEF n
  <2>3. Made(o) /\ Attributed(o)
    BY <1>2, <2>1, <2>2 DEF AuditTypes, Made, HasRow, Attributed
  <2>4. \A p \in Orders \ {o} : Same(p) /\ Attributed(p)
    BY <2>2 DEF AuditTypes, Same, HasRow, Attributed
  <2>5. orders' \in [Orders -> OrderType]
    BY <2>1, <2>2 DEF AuditTypes
  <2> QED BY <2>3, <2>4, <2>5
<1>3. ASSUME NEW o \in Orders, HasRow(o),
             NEW status \in {"active", "expired", "revoked"},
             NEW endedBy \in {"nobody", "admin", "webhook"},
             orders' = [orders EXCEPT ![o].status = status, ![o].endedBy = endedBy],
             \/ endedBy = "admin" => orders[o].endedBy = "admin"
             \/ \E a \in Admins : /\ requests'[a].pc = "audit" /\ requests'[a].op = "revoke"
                                  /\ requests'[a].order = o
      PROVE  Goal
  <2> DEFINE n == [orders[o] EXCEPT !.status = status, !.endedBy = endedBy]
  <2>1. orders[o] \in OrderType
    BY DEF AuditTypes
  <2>2. /\ n \in OrderType /\ n.key = orders[o].key /\ n.expires = orders[o].expires
        /\ n.first = orders[o].first /\ n.manual = orders[o].manual
        /\ n.status = status /\ n.endedBy = endedBy
    BY <2>1 DEF OrderType
  <2>3. orders' = [orders EXCEPT ![o] = n]
    BY <1>3 DEF AuditTypes
  <2> HIDE DEF n
  <2>4. orders' \in [Orders -> OrderType] /\ \A p \in Orders \ {o} : orders'[p] = orders[p]
    BY <2>2, <2>3 DEF AuditTypes
  <2>5. orders'[o] = n
    BY <2>3 DEF AuditTypes
  <2>6. Same(o) /\ Attributed(o)
    BY <1>3, <2>2, <2>5 DEF Same, HasRow, Attributed
  <2>7. \A p \in Orders \ {o} : Same(p) /\ Attributed(p)
    BY <2>4 DEF Same, HasRow, Attributed
  <2> QED BY <2>4, <2>6, <2>7
<1>4. ASSUME NEW a \in Admins, NEW o \in Orders, Revoke(a, o) PROVE Goal
  <2>1. Goto(a, "audit", "revoke", o, 0) /\ "revoke" \in Actions /\ 0 \in Nat
    BY <1>4 DEF Revoke, Actions
  <2>a. requests'[a] = [pc |-> "audit", op |-> "revoke", order |-> o, row |-> orders[o],
                        key |-> 0, record |-> Len(log) + 1]
    BY <2>1 DEF Goto, AuditTypes
  <2>2. requests'[a].pc = "audit" /\ requests'[a].op = "revoke" /\ requests'[a].order = o
    BY <2>a
  <2> QED BY <1>3, <1>4, <2>2 DEF Revoke
<1>5. ASSUME NEW a \in Admins, CreateManual(a) PROVE Goal
  <2>1. CASE Taken(requests[a].order)
    BY <1>1, <1>5, <2>1 DEF CreateManual
  <2>2. CASE ~Taken(requests[a].order)
    <3> DEFINE o == requests[a].order
    <3>1. o \in Orders /\ requests[a].op = "create" /\ ~HasRow(o) /\ keys + 1 \in Nat
      BY <1>5, <2>2 DEF CreateManual, Busy, Taken, AuditTypes
    <3>2. PICK expires \in (now + 1) .. Latest :
            orders' = [orders EXCEPT ![o] = NewOrder(keys + 1, expires, TRUE)]
      BY <1>5, <2>2 DEF CreateManual
    <3>3. expires \in Nat
      BY <3>2, AuditAssumption DEF AuditTypes
    <3>4. /\ requests'[a].pc = "audit" /\ requests'[a].op = "create"
          /\ requests'[a].order = o /\ UNCHANGED log
      BY <1>5, <2>2, <3>1 DEF CreateManual, AuditTypes, RequestType
    <3> QED BY <1>2, <3>1, <3>2, <3>3, <3>4
  <2> QED BY <2>1, <2>2
<1>6. ASSUME NEW a \in Admins, UpdateExpiration(a) \/ ReactivateOrder(a) PROVE Goal
  <2>1. requests[a].order \in Orders
    BY <1>6 DEF UpdateExpiration, ReactivateOrder, Busy
  <2> QED BY <1>6, <2>1, MoveStep
<1>7. ASSUME NEW a \in Admins, AdminStep(a) PROVE Goal
  BY <1>1, <1>4, <1>5, <1>6, <1>7
    DEF AdminStep, LockOrder, CheckReference, Reveal, Reject, Record, Show, Kill
<1>8. CASE OtherStep
  <2>1. ASSUME NEW o \in Orders, Purchase(o) PROVE Goal
    <3>1. PICK expires \in (now + 1) .. Latest :
            orders' = [orders EXCEPT ![o] = NewOrder(keys + 1, expires, FALSE)]
      BY <2>1 DEF Purchase
    <3>2. expires \in Nat /\ keys + 1 \in Nat
      BY <3>1, AuditAssumption DEF AuditTypes
    <3> QED BY <1>2, <2>1, <3>1, <3>2 DEF Purchase
  <2>2. ASSUME NEW o \in Orders, Cancel(o) PROVE Goal
    BY <1>3, <2>2 DEF Cancel
  <2>3. ASSUME NEW o \in Orders, Lapse(o) PROVE Goal
    BY <2>3 DEF Lapse, AuditTypes, OrderType, Same, HasRow, Attributed
  <2>4. CASE Tick
    BY <1>1, <2>4 DEF Tick
  <2> QED BY <1>8, <2>1, <2>2, <2>3, <2>4 DEF OtherStep
<1> QED BY <1>7, <1>8, NextSplits

----------------------------------------------------------------------------
(* What a step does to the log.                                            *)

\* A record is about an order with a row; one of an expiration goes with its
\* move.
Recorded(rec) ==
  /\ rec \in RecordType
  /\ log' = Append(log, rec)
  /\ HasRow(rec.order)
  /\ rec.action \in TermActions => Moved(rec.order)

\* What Audit records of an order that has a row.
LEMMA PlainRecord ==
  ASSUME AuditTypes, NEW o \in Orders, HasRow(o), NEW action \in Actions \ TermActions,
         Audit(action, o, 0, 0)
  PROVE  \E rec \in RecordType : /\ Recorded(rec)
                                 /\ rec.action = action
                                 /\ rec.order = o
<1> DEFINE rec == [action |-> action, order |-> o, old |-> 0, new |-> 0]
<1>1. rec \in RecordType /\ rec.order = o /\ rec.action = action
  BY DEF RecordType
<1>2. log' = Append(log, rec)
  BY DEF Audit
<1> HIDE DEF rec
<1> QED BY <1>1, <1>2 DEF Recorded

\* The log stays as it is or has one more record.
LEMMA LogStep ==
  ASSUME AuditCore, AuditNext
  PROVE  UNCHANGED log \/ \E rec \in RecordType : Recorded(rec)
<1> USE DEF AuditCore
<1>1. ASSUME NEW a \in Admins, NEW o \in Orders, Reveal(a, o)
      PROVE  \E rec \in RecordType : Recorded(rec)
  BY <1>1, PlainRecord DEF Reveal, Actions, TermActions
<1>2. ASSUME NEW a \in Admins, Record(a)
      PROVE  \E rec \in RecordType : Recorded(rec)
  <2>1. /\ requests[a].order \in Orders /\ HasRow(requests[a].order)
        /\ requests[a].op \in Actions \ TermActions
        /\ Audit(requests[a].op, requests[a].order, 0, 0)
    BY <1>2 DEF Record, Busy, Actions, TermActions
  <2> QED BY <2>1, PlainRecord
<1>3. ASSUME NEW a \in Admins, UpdateExpiration(a) \/ ReactivateOrder(a)
      PROVE  \E rec \in RecordType : Recorded(rec)
  <2>1. PICK o \in Orders : o = requests[a].order
    BY <1>3 DEF UpdateExpiration, ReactivateOrder, Busy
  <2>2. Moved(o)
    BY <1>3, <2>1, MoveStep
  <2>3. PICK b \in Admins, action \in TermActions :
          log' = Append(log, [action |-> action, order |-> o,
                              old |-> requests[b].row.expires, new |-> orders'[o].expires])
    BY <2>2 DEF Moved
  <2>4. orders'[o].expires \in Nat /\ requests[b].row.expires \in Nat
    BY <1>3, <2>1, MoveStep DEF AuditTypes, OrderType, RequestType
  <2> DEFINE rec == [action |-> action, order |-> o,
                     old |-> requests[b].row.expires, new |-> orders'[o].expires]
  <2>5. rec \in RecordType /\ rec.order = o
    BY <2>4 DEF RecordType, Actions
  <2>6. log' = Append(log, rec)
    BY <2>3
  <2> HIDE DEF rec
  <2> QED BY <2>2, <2>5, <2>6 DEF Recorded, Moved
<1>4. ASSUME NEW a \in Admins, AdminStep(a)
      PROVE  UNCHANGED log \/ \E rec \in RecordType : Recorded(rec)
  BY <1>1, <1>2, <1>3, <1>4
    DEF AdminStep, LockOrder, Revoke, CheckReference, CreateManual, Reject, Show, Kill
<1>5. CASE OtherStep
  BY <1>5 DEF OtherStep, Purchase, Cancel, Lapse, Tick
<1> QED BY <1>4, <1>5, NextSplits

\* The records there were stay.
LEMMA LogGrows ==
  ASSUME AuditCore, AuditNext
  PROVE  /\ log' \in Seq(RecordType)
         /\ Len(log) <= Len(log')
         /\ \A i \in DOMAIN log : i \in DOMAIN log' /\ log'[i] = log[i]
<1> USE DEF AuditCore, AuditTypes
<1>1. CASE UNCHANGED log
  BY <1>1
<1>2. ASSUME NEW rec \in RecordType, Recorded(rec)
      PROVE  /\ log' \in Seq(RecordType)
             /\ Len(log) <= Len(log')
             /\ \A i \in DOMAIN log : i \in DOMAIN log' /\ log'[i] = log[i]
  BY <1>2 DEF Recorded
<1> QED BY <1>1, <1>2, LogStep

----------------------------------------------------------------------------
(* What a step does to a request.                                          *)

\* The action is on record, or cut off.
Settled(op, o) ==
  \/ <<op, o>> \in cut'
  \/ \E i \in DOMAIN log' : log'[i].action = op /\ log'[i].order = o

Locks(a) ==
  \E o \in Orders, op \in TermActions :
    /\ HasRow(o) /\ Unlocked(o)
    /\ UNCHANGED orders
    /\ requests'[a].pc = "locked" /\ requests'[a].op = op
    /\ requests'[a].order = o /\ requests'[a].row = orders[o]

Inserts(a) ==
  /\ requests'[a].pc = "insert" /\ requests'[a].op = "create"
  /\ requests'[a].order \in Orders

Audits(a) ==
  \E o \in Orders, op \in {"revoke", "create"} :
    /\ HasRow(o)'
    /\ requests'[a].pc = "audit" /\ requests'[a].op = op /\ requests'[a].order = o
    /\ op = "create" => requests'[a].key = orders'[o].key

Shows(a) ==
  \E rec \in RecordType :
    /\ Recorded(rec)
    /\ rec.action \in {"create", "reveal"}
    /\ UNCHANGED orders
    /\ requests'[a].pc = "show" /\ requests'[a].order = rec.order
    /\ requests'[a].key = orders[rec.order].key
    /\ requests'[a].record = Len(log')

Becomes(a) ==
  /\ requests[a].pc = "audit" => Settled(requests[a].op, requests[a].order)
  /\ requests'[a] = Idle \/ Locks(a) \/ Inserts(a) \/ Audits(a) \/ Shows(a)

\* A step moves one request at most.
LEMMA RequestsStep ==
  ASSUME AuditCore, AuditNext
  PROVE  /\ requests' \in [Admins -> RequestType]
         /\ \/ UNCHANGED requests
            \/ \E a \in Admins : /\ Becomes(a)
                                 /\ \A b \in Admins \ {a} : requests'[b] = requests[b]
<1> USE DEF AuditCore
<1> DEFINE Goal(a) == /\ requests' \in [Admins -> RequestType]
                      /\ Becomes(a)
                      /\ \A b \in Admins \ {a} : requests'[b] = requests[b]
<1>1. ASSUME NEW a \in Admins, Leave(a),
             requests[a].pc = "audit" => Settled(requests[a].op, requests[a].order)
      PROVE  Goal(a)
  BY <1>1, LeaveType DEF Becomes
<1>2. ASSUME NEW a \in Admins, NEW o \in Orders, NEW op \in TermActions, LockOrder(a, o, op)
      PROVE  Goal(a)
  <2>1. Goto(a, "locked", op, o, 0) /\ op \in Actions
    BY <1>2 DEF LockOrder, Actions
  <2>2. /\ requests' \in [Admins -> RequestType]
        /\ requests'[a] = [pc |-> "locked", op |-> op, order |-> o, row |-> orders[o],
                           key |-> 0, record |-> Len(log) + 1]
        /\ \A b \in Admins \ {a} : requests'[b] = requests[b]
    BY <2>1, GotoType
  <2>3. Locks(a)
    BY <1>2, <2>2 DEF LockOrder, Locks
  <2> QED BY <1>2, <2>2, <2>3 DEF LockOrder, Becomes
<1>3. ASSUME NEW a \in Admins, NEW o \in Orders, CheckReference(a, o) PROVE Goal(a)
  <2>1. Goto(a, "insert", "create", o, 0) /\ "create" \in Actions
    BY <1>3 DEF CheckReference, Actions
  <2>2. /\ requests' \in [Admins -> RequestType]
        /\ requests'[a] = [pc |-> "insert", op |-> "create", order |-> o, row |-> orders[o],
                           key |-> 0, record |-> Len(log) + 1]
        /\ \A b \in Admins \ {a} : requests'[b] = requests[b]
    BY <2>1, GotoType
  <2> QED BY <1>3, <2>2 DEF CheckReference, Becomes, Inserts
<1>4. ASSUME NEW a \in Admins, NEW o \in Orders, Revoke(a, o) PROVE Goal(a)
  <2>1. Goto(a, "audit", "revoke", o, 0) /\ "revoke" \in Actions
    BY <1>4 DEF Revoke, Actions
  <2>2. /\ requests' \in [Admins -> RequestType]
        /\ requests'[a] = [pc |-> "audit", op |-> "revoke", order |-> o, row |-> orders[o],
                           key |-> 0, record |-> Len(log) + 1]
        /\ \A b \in Admins \ {a} : requests'[b] = requests[b]
    BY <2>1, GotoType
  <2>3. HasRow(o)'
    BY <1>4, OrdersStep DEF Revoke, Same, Made, Moved
  <2> QED BY <1>4, <2>2, <2>3 DEF Revoke, Becomes, Audits
<1>5. ASSUME NEW a \in Admins, NEW o \in Orders, Reveal(a, o) PROVE Goal(a)
  <2>1. /\ Goto(a, "show", "reveal", o, orders[o].key) /\ "reveal" \in Actions
        /\ orders[o].key \in Nat
    BY <1>5 DEF Reveal, Actions, AuditTypes, OrderType
  <2>2. /\ requests' \in [Admins -> RequestType]
        /\ requests'[a] = [pc |-> "show", op |-> "reveal", order |-> o, row |-> orders[o],
                           key |-> orders[o].key, record |-> Len(log) + 1]
        /\ \A b \in Admins \ {a} : requests'[b] = requests[b]
    BY <2>1, GotoType
  <2>3. PICK rec \in RecordType : Recorded(rec) /\ rec.action = "reveal" /\ rec.order = o
    BY <1>5, PlainRecord DEF Reveal, Actions, TermActions
  <2>4. Len(log') = Len(log) + 1
    BY <2>3 DEF Recorded, AuditTypes
  <2>5. Shows(a)
    BY <1>5, <2>2, <2>3, <2>4 DEF Reveal, Shows
  <2> QED BY <1>5, <2>2, <2>5 DEF Reveal, Becomes
<1>6. ASSUME NEW a \in Admins, CreateManual(a) PROVE Goal(a)
  <2>1. requests[a].pc = "insert"
    BY <1>6 DEF CreateManual
  <2>2. CASE Taken(requests[a].order)
    BY <1>1, <1>6, <2>1, <2>2 DEF CreateManual
  <2>3. CASE ~Taken(requests[a].order)
    <3>1. PICK o \in Orders : o = requests[a].order
      BY <2>1 DEF Busy
    <3>2. PICK expires \in (now + 1) .. Latest :
            orders' = [orders EXCEPT ![o] = NewOrder(keys + 1, expires, TRUE)]
      BY <1>6, <2>3, <3>1 DEF CreateManual
    <3>3. expires \in Nat /\ keys + 1 \in Nat
      BY <3>2, AuditAssumption DEF AuditTypes
    <3>4. orders'[o].key = keys + 1 /\ HasRow(o)'
      <4> DEFINE n == NewOrder(keys + 1, expires, TRUE)
      <4>1. n.key = keys + 1 /\ n.status = "active"
        BY DEF NewOrder, NoOrder
      <4>2. orders' = [orders EXCEPT ![o] = n]
        BY <3>2
      <4> HIDE DEF n
      <4> QED BY <4>1, <4>2 DEF AuditTypes, HasRow
    <3>5. requests' = [requests EXCEPT ![a].pc = "audit", ![a].key = keys + 1]
      BY <1>6, <2>3 DEF CreateManual
    <3>6. requests[a] \in RequestType /\ requests[a].op = "create"
      BY <2>1 DEF Busy, AuditTypes
    <3>7. /\ requests' \in [Admins -> RequestType]
          /\ \A b \in Admins \ {a} : requests'[b] = requests[b]
          /\ requests'[a].pc = "audit" /\ requests'[a].op = "create"
          /\ requests'[a].order = o /\ requests'[a].key = keys + 1
      BY <3>1, <3>3, <3>5, <3>6 DEF AuditTypes, RequestType
    <3>8. Audits(a)
      BY <3>4, <3>7 DEF Audits
    <3> QED BY <2>1, <3>7, <3>8 DEF Becomes
  <2> QED BY <2>2, <2>3
<1>7. ASSUME NEW a \in Admins, Record(a) PROVE Goal(a)
  <2>1. PICK o \in Orders : o = requests[a].order
    BY <1>7 DEF Record, Busy
  <2>2. /\ HasRow(o) /\ requests[a].op \in {"revoke", "create"}
        /\ requests[a].op \in Actions \ TermActions
        /\ Audit(requests[a].op, o, 0, 0)
    BY <1>7, <2>1 DEF Record, Busy, Actions, TermActions
  <2>3. PICK rec \in RecordType :
          Recorded(rec) /\ rec.action = requests[a].op /\ rec.order = o
    BY <2>2, PlainRecord
  <2>4. Len(log') \in Nat /\ Len(log') \in DOMAIN log' /\ log'[Len(log')] = rec
    BY <2>3 DEF Recorded, AuditTypes
  <2>5. Settled(requests[a].op, requests[a].order)
    BY <2>1, <2>3, <2>4 DEF Settled
  <2>6. CASE requests[a].op = "create"
    <3>1. requests' = [requests EXCEPT ![a] = [requests[a] EXCEPT !.pc = "show",
                                                                  !.record = Len(log')]]
      BY <1>7, <2>6 DEF Record
    <3>2. requests[a] \in RequestType /\ requests[a].key = orders[o].key
      BY <1>7, <2>1, <2>6 DEF Record, Busy, AuditTypes
    <3>3. /\ requests' \in [Admins -> RequestType]
          /\ \A b \in Admins \ {a} : requests'[b] = requests[b]
          /\ requests'[a].pc = "show" /\ requests'[a].order = o
          /\ requests'[a].key = orders[o].key /\ requests'[a].record = Len(log')
      BY <2>1, <2>4, <3>1, <3>2 DEF AuditTypes, RequestType
    <3>4. Shows(a)
      BY <1>7, <2>3, <2>6, <3>3 DEF Record, Shows
    <3> QED BY <2>5, <3>3, <3>4 DEF Becomes
  <2>7. CASE requests[a].op # "create"
    <3>1. Leave(a)
      BY <1>7, <2>7 DEF Record, Leave
    <3> QED BY <1>1, <2>5, <3>1
  <2> QED BY <2>6, <2>7
<1>8. ASSUME NEW a \in Admins, Kill(a) PROVE Goal(a)
  <2>1. requests[a].pc = "audit" => Settled(requests[a].op, requests[a].order)
    BY <1>8 DEF Kill, Settled
  <2> QED BY <1>1, <1>8, <2>1 DEF Kill
<1>9. ASSUME NEW a \in Admins, Reject(a) \/ UpdateExpiration(a) \/ ReactivateOrder(a) \/ Show(a)
      PROVE  Goal(a)
  BY <1>1, <1>9 DEF Reject, UpdateExpiration, ReactivateOrder, Show
<1>10. ASSUME NEW a \in Admins, AdminStep(a) PROVE Goal(a)
  BY <1>2, <1>3, <1>4, <1>5, <1>6, <1>7, <1>8, <1>9, <1>10 DEF AdminStep
<1>11. CASE OtherStep
  BY <1>11 DEF OtherStep, Purchase, Cancel, Lapse, Tick, AuditTypes
<1> QED BY <1>10, <1>11, NextSplits

----------------------------------------------------------------------------
(* The invariant that the three properties rest on.                        *)

\* A request that does not move is not disturbed by the others.
LEMMA Undisturbed ==
  ASSUME AuditCore, AuditNext, NEW b \in Admins, requests'[b] = requests[b]
  PROVE  Busy(b)'
<1> USE DEF AuditCore
<1>1. CASE requests[b].pc = "idle"
  BY <1>1 DEF Busy
<1>2. CASE requests[b].pc # "idle"
  <2>1. PICK o \in Orders : o = requests[b].order
    BY <1>2 DEF Busy
  <2>2. CASE Same(o)
    BY <1>2, <2>1, <2>2 DEF Same, Busy, HasRow
  <2>3. CASE Made(o)
    BY <1>2, <2>1, <2>3 DEF Made, Busy, HasRow
  <2>4. CASE Moved(o)
    <3>1. requests[b].pc # "locked"
      BY <2>1, <2>4 DEF Moved, OneLock, Idle
    <3> QED BY <1>2, <2>1, <2>4, <3>1 DEF Moved, Busy, HasRow
  <2> QED BY <2>2, <2>3, <2>4, OrdersStep
<1> QED BY <1>1, <1>2

\* A request that moves is where it may be.
LEMMA Placed ==
  ASSUME AuditCore, AuditNext, NEW a \in Admins, Becomes(a),
         \A b \in Admins \ {a} : requests'[b] = requests[b]
  PROVE  Busy(a)'
<1>1. CASE requests'[a] = Idle
  BY <1>1 DEF Busy, Idle
<1>2. CASE Locks(a)
  BY <1>2 DEF Locks, Busy, HasRow
<1>3. CASE Inserts(a)
  BY <1>3 DEF Inserts, Busy
<1>4. CASE Audits(a)
  BY <1>4 DEF Audits, Busy, HasRow
<1>5. CASE Shows(a)
  BY <1>5 DEF Shows, Recorded, RecordType, Busy, HasRow
<1> QED BY <1>1, <1>2, <1>3, <1>4, <1>5 DEF Becomes

\* No step of a handler or of an order's own life breaks AuditCore.
LEMMA CoreStep == AuditCore /\ [AuditNext]_auditVars => AuditCore'
<1> SUFFICES ASSUME AuditCore, [AuditNext]_auditVars PROVE AuditCore'
  OBVIOUS
<1>1. CASE UNCHANGED auditVars
  BY <1>1 DEF auditVars, AuditCore, AuditTypes, Busy, OneLock, Grounded, HasRow
<1>2. CASE AuditNext
  <2>1. AuditTypes'
    <3>1. keys' \in {keys, keys + 1} /\ now' \in {now, now + 1}
      BY <1>2, Zenon DEF AuditNext, LockOrder, Reject, UpdateExpiration,
        ReactivateOrder, Revoke, CheckReference, CreateManual, Record, Reveal, Show, Kill,
        Purchase, Cancel, Lapse, Tick
    <3>a. keys' \in Nat /\ now' \in Nat
      BY <3>1 DEF AuditCore, AuditTypes
    <3>2. shown' \in Seq(PageType)
      <4>1. ASSUME NEW a \in Admins, Show(a) PROVE shown' \in Seq(PageType)
        <5>1. /\ requests[a].order \in Orders /\ requests[a].key \in Nat
              /\ requests[a].record \in Nat
          BY <4>1 DEF Show, AuditCore, Busy, AuditTypes, RequestType
        <5> QED BY <4>1, <5>1 DEF Show, AuditCore, AuditTypes, PageType
      <4>2. CASE UNCHANGED shown
        BY <4>2 DEF AuditCore, AuditTypes
      <4> QED BY <1>2, <4>1, <4>2 DEF AuditNext, LockOrder, Reject, UpdateExpiration,
        ReactivateOrder, Revoke, CheckReference, CreateManual, Record, Reveal, Kill,
        Purchase, Cancel, Lapse, Tick
    <3> QED BY <1>2, <3>a, <3>2, OrdersStep, LogGrows, RequestsStep DEF AuditTypes
  <2>2. ASSUME NEW b \in Admins PROVE Busy(b)'
    BY <1>2, RequestsStep, Undisturbed, Placed
  <2>3. OneLock'
    <3>1. CASE UNCHANGED requests
      BY <3>1 DEF AuditCore, OneLock
    <3>2. ASSUME NEW a \in Admins, Becomes(a),
                 \A b \in Admins \ {a} : requests'[b] = requests[b]
          PROVE  OneLock'
      <4>1. CASE Locks(a)
        BY <3>2, <4>1 DEF Locks, Unlocked, AuditCore, OneLock
      <4>2. CASE ~Locks(a)
        <5>1. requests'[a].pc # "locked"
          BY <3>2, <4>2 DEF Becomes, Idle, Inserts, Audits, Shows
        <5> QED BY <3>2, <5>1 DEF AuditCore, OneLock
      <4> QED BY <4>1, <4>2
    <3> QED BY <1>2, <3>1, <3>2, RequestsStep
  <2>4. Grounded'
    <3>1. \A o \in Orders : HasRow(o) => HasRow(o)'
      BY <1>2, OrdersStep DEF Same, Made, Moved
    <3>2. \A i \in DOMAIN log : log[i].order \in Orders
      <4>1. \A i \in DOMAIN log : log[i] \in RecordType
        BY DEF AuditCore, AuditTypes
      <4> QED BY <4>1 DEF RecordType
    <3>3. CASE UNCHANGED log
      BY <3>1, <3>2, <3>3 DEF AuditCore, Grounded, HasRow
    <3>4. ASSUME NEW rec \in RecordType, Recorded(rec) PROVE Grounded'
      <4>1. \A i \in DOMAIN log' : log'[i] = rec \/ (i \in DOMAIN log /\ log'[i] = log[i])
        <5>1. log' = Append(log, rec) /\ log \in Seq(RecordType)
          BY <3>4 DEF Recorded, AuditCore, AuditTypes
        <5> QED BY <5>1
      <4>2. rec.order \in Orders
        BY DEF RecordType
      <4> QED BY <3>1, <3>2, <3>4, <4>1, <4>2 DEF Recorded, AuditCore, Grounded, HasRow
    <3> QED BY <1>2, <3>3, <3>4, LogStep
  <2> QED BY <2>1, <2>2, <2>3, <2>4 DEF AuditCore
<1> QED BY <1>1, <1>2

\* AuditCore holds always: types, true copies, one lock, records of real orders.
LEMMA CoreAlways == AuditSpec => []AuditCore
  BY CoreInit, CoreStep, PTL DEF AuditSpec

----------------------------------------------------------------------------
(* Revocations and manual keys are on record.                              *)

\* What is accounted for stays so.
LEMMA StaysAccounted ==
  ASSUME AuditCore, AuditNext, NEW op \in {"revoke", "create"}, NEW o \in Orders,
         Accounted(op, o)
  PROVE  Accounted(op, o)'
<1>1. CASE \E i \in DOMAIN log : log[i].action = op /\ log[i].order = o
  BY <1>1, LogGrows DEF Accounted
<1>2. CASE <<op, o>> \in cut
  <2>1. cut \subseteq cut'
    BY DEF AuditNext, LockOrder, Reject, UpdateExpiration, ReactivateOrder, Revoke,
      CheckReference, CreateManual, Record, Reveal, Show, Kill, Purchase, Cancel, Lapse, Tick
  <2> QED BY <1>2, <2>1 DEF Accounted
<1>3. ASSUME NEW a \in Admins, requests[a].pc = "audit", requests[a].op = op,
             requests[a].order = o
      PROVE  Accounted(op, o)'
  <2>1. CASE requests'[a] = requests[a]
    BY <1>3, <2>1 DEF Accounted
  <2>2. CASE requests'[a] # requests[a]
    <3>1. Becomes(a)
      BY <2>2, RequestsStep
    <3> QED BY <1>3, <3>1 DEF Becomes, Settled, Accounted
  <2> QED BY <2>1, <2>2
<1> QED BY <1>1, <1>2, <1>3 DEF Accounted

\* With the record, or with its loss, comes the end of the request.
LEMMA EffectsStep ==
  AuditCore /\ EffectsOnRecord /\ [AuditNext]_auditVars => EffectsOnRecord'
<1> SUFFICES ASSUME AuditCore, EffectsOnRecord, [AuditNext]_auditVars PROVE EffectsOnRecord'
  OBVIOUS
<1>1. CASE UNCHANGED auditVars
  <2>1. UNCHANGED orders /\ UNCHANGED log /\ UNCHANGED requests /\ UNCHANGED cut
    BY <1>1 DEF auditVars
  <2>2. ASSUME NEW op, NEW o, Accounted(op, o) PROVE Accounted(op, o)'
    BY <2>1, <2>2 DEF Accounted
  <2> QED BY <2>1, <2>2 DEF EffectsOnRecord
<1>2. CASE AuditNext
  <2>1. ASSUME NEW o \in Orders, orders'[o].endedBy = "admin" PROVE Accounted("revoke", o)'
    <3>1. CASE orders[o].endedBy = "admin"
      BY <1>2, <3>1, StaysAccounted DEF EffectsOnRecord
    <3>2. CASE orders[o].endedBy # "admin"
      BY <1>2, <2>1, <3>2, OrdersStep DEF Attributed, Accounted
    <3> QED BY <3>1, <3>2
  <2>2. ASSUME NEW o \in Orders, orders'[o].manual PROVE Accounted("create", o)'
    <3>1. CASE orders[o].manual
      BY <1>2, <3>1, StaysAccounted DEF EffectsOnRecord
    <3>2. CASE ~orders[o].manual
      BY <1>2, <2>2, <3>2, OrdersStep DEF Attributed, Accounted
    <3> QED BY <3>1, <3>2
  <2> QED BY <2>1, <2>2 DEF EffectsOnRecord
<1> QED BY <1>1, <1>2

\* Every revocation and every key made by hand is on record, unless its
\* request was killed, or is under way, between the two transactions.
THEOREM EffectsAlwaysOnRecord == AuditSpec => []EffectsOnRecord
<1>1. AuditInit => EffectsOnRecord
  <2>1. ~NoOrder.manual /\ NoOrder.endedBy = "nobody"
    BY DEF NoOrder
  <2>2. AuditInit => \A o \in Orders : orders[o] = NoOrder
    BY DEF AuditInit
  <2> QED BY <2>1, <2>2 DEF EffectsOnRecord
<1> QED BY <1>1, CoreAlways, EffectsStep, PTL DEF AuditSpec

----------------------------------------------------------------------------
(* Every key that was shown has its record.                                *)

\* A page under way has a record that no other page has.
Showing(a) ==
  requests[a].pc = "show" =>
    /\ requests[a].record \in DOMAIN log
    /\ log[requests[a].record].order = requests[a].order
    /\ log[requests[a].record].action \in {"create", "reveal"}
    /\ \A i \in DOMAIN shown : shown[i].record # requests[a].record
    /\ \A b \in Admins :
         requests[b].pc = "show" /\ requests[b].record = requests[a].record => b = a

\* The keys shown are of orders that have a row.
Opened == \A i \in DOMAIN shown : shown[i].order \in Orders /\ HasRow(shown[i].order)

KeysInv == KeysOnRecord /\ (\A a \in Admins : Showing(a)) /\ Opened

\* A new page has a new record.
LEMMA ShowingStep ==
  ASSUME AuditCore, KeysInv, AuditNext, UNCHANGED shown
  PROVE  \A a \in Admins : Showing(a)'
<1> USE DEF AuditCore, KeysInv
<1>1. /\ \A i \in DOMAIN log : i \in DOMAIN log' /\ log'[i] = log[i]
  BY LogGrows
<1>2. ASSUME NEW b \in Admins, requests'[b] = requests[b], requests[b].pc = "show"
      PROVE  /\ requests'[b].record \in DOMAIN log'
             /\ log'[requests'[b].record].order = requests'[b].order
             /\ log'[requests'[b].record].action \in {"create", "reveal"}
             /\ \A i \in DOMAIN shown' : shown'[i].record # requests'[b].record
  BY <1>1, <1>2 DEF Showing
<1>3. CASE UNCHANGED requests
  BY <1>2, <1>3 DEF Showing
<1>4. ASSUME NEW a \in Admins, Becomes(a), \A b \in Admins \ {a} : requests'[b] = requests[b]
      PROVE  \A b \in Admins : Showing(b)'
  <2>1. CASE Shows(a)
    <3>1. PICK rec \in RecordType :
            /\ log' = Append(log, rec) /\ rec.action \in {"create", "reveal"}
            /\ requests'[a].pc = "show" /\ requests'[a].order = rec.order
            /\ requests'[a].record = Len(log')
      BY <2>1 DEF Shows, Recorded
    <3>2. /\ Len(log') \in DOMAIN log' /\ Len(log') \notin DOMAIN log
          /\ log'[Len(log')] = rec
      BY <3>1 DEF AuditTypes
    <3>3. \A i \in DOMAIN shown : shown[i].record # Len(log')
      BY <3>2 DEF KeysOnRecord
    <3>4. \A b \in Admins \ {a} : requests'[b].pc = "show" => requests'[b].record # Len(log')
      BY <1>4, <3>2 DEF Showing
    <3>5. Showing(a)'
      BY <3>1, <3>2, <3>3, <3>4 DEF Showing
    <3>6. ASSUME NEW b \in Admins \ {a} PROVE Showing(b)'
      BY <1>2, <1>4, <3>1, <3>4 DEF Showing
    <3> QED BY <3>5, <3>6
  <2>2. CASE ~Shows(a)
    <3>1. requests'[a].pc # "show"
      BY <1>4, <2>2 DEF Becomes, Idle, Locks, Inserts, Audits
    <3>2. ASSUME NEW b \in Admins \ {a} PROVE Showing(b)'
      BY <1>2, <1>4, <3>1 DEF Showing
    <3> QED BY <3>1, <3>2 DEF Showing
  <2> QED BY <2>1, <2>2
<1> QED BY <1>3, <1>4, RequestsStep

\* A page that is shown uses its record up.
LEMMA KeysStep == AuditCore /\ KeysInv /\ [AuditNext]_auditVars => KeysInv'
<1> SUFFICES ASSUME AuditCore, KeysInv, [AuditNext]_auditVars PROVE KeysInv'
  OBVIOUS
<1>1. CASE UNCHANGED auditVars
  <2>1. /\ UNCHANGED orders /\ UNCHANGED log /\ UNCHANGED requests /\ UNCHANGED shown
    BY <1>1 DEF auditVars
  <2> QED BY <2>1 DEF KeysInv, KeysOnRecord, Showing, Opened, HasRow
<1>2. CASE AuditNext /\ UNCHANGED shown
  <2>1. \A o \in Orders : HasRow(o) => HasRow(o)' /\ orders'[o].key = orders[o].key
    BY <1>2, OrdersStep DEF Same, Made, Moved
  <2>2. \A i \in DOMAIN log : i \in DOMAIN log' /\ log'[i] = log[i]
    BY <1>2, LogGrows
  <2>3. KeysOnRecord'
    BY <1>2, <2>1, <2>2 DEF KeysInv, KeysOnRecord, Opened
  <2>4. Opened'
    BY <1>2, <2>1 DEF KeysInv, Opened, HasRow
  <2>5. \A a \in Admins : Showing(a)'
    BY <1>2, ShowingStep
  <2> QED BY <2>3, <2>4, <2>5 DEF KeysInv
<1>3. ASSUME NEW a \in Admins, Show(a) PROVE KeysInv'
  <2> DEFINE page == [order |-> requests[a].order, key |-> requests[a].key,
                      record |-> requests[a].record]
  <2>1. /\ page.order \in Orders /\ HasRow(page.order)
        /\ page.key = orders[page.order].key
        /\ page.record \in DOMAIN log
        /\ log[page.record].order = page.order
        /\ log[page.record].action \in {"create", "reveal"}
        /\ \A i \in DOMAIN shown : shown[i].record # page.record
    BY <1>3 DEF Show, KeysInv, Showing, AuditCore, Busy
  <2>2. page.record = requests[a].record
    OBVIOUS
  <2>3. /\ shown' = Append(shown, page) /\ UNCHANGED orders /\ UNCHANGED log
        /\ requests'[a] = Idle /\ \A b \in Admins \ {a} : requests'[b] = requests[b]
    BY <1>3, LeaveType DEF Show, AuditCore
  <2> HIDE DEF page
  <2>4. shown \in Seq(PageType)
    BY DEF AuditCore, AuditTypes
  <2>5. /\ \A i \in DOMAIN shown' :
             (i = Len(shown') /\ shown'[i] = page)
             \/ (i \in DOMAIN shown /\ shown'[i] = shown[i])
        /\ Len(shown') \notin DOMAIN shown
    BY <2>3, <2>4
  <2>6. KeysOnRecord'
    BY <2>1, <2>3, <2>5 DEF KeysInv, KeysOnRecord
  <2>7. Opened'
    BY <2>1, <2>3, <2>5 DEF KeysInv, Opened, HasRow
  <2>8. ASSUME NEW b \in Admins PROVE Showing(b)'
    <3>1. CASE b = a
      BY <2>3, <3>1 DEF Showing, Idle
    <3>2. CASE b # a
      <4>1. requests[b].pc = "show" => requests[b].record # page.record
        BY <1>3, <2>2, <3>2 DEF Show, KeysInv, Showing
      <4> QED BY <2>3, <2>5, <3>2, <4>1 DEF KeysInv, Showing, Idle
    <3> QED BY <3>1, <3>2
  <2> QED BY <2>6, <2>7, <2>8 DEF KeysInv
<1>4. AuditNext => UNCHANGED shown \/ \E a \in Admins : Show(a)
  BY DEF AuditNext, LockOrder, Reject, UpdateExpiration, ReactivateOrder, Revoke,
    CheckReference, CreateManual, Record, Reveal, Kill, Purchase, Cancel, Lapse, Tick
<1> QED BY <1>1, <1>2, <1>3, <1>4

\* Every key an administrator has seen opens its order and has a record of its
\* own.
THEOREM KeysAlwaysOnRecord == AuditSpec => []KeysOnRecord
<1>1. AuditInit => KeysInv
  BY DEF AuditInit, Idle, KeysInv, KeysOnRecord, Showing, Opened
<1>2. KeysInv => KeysOnRecord
  BY DEF KeysInv
<1> QED BY <1>1, <1>2, CoreAlways, KeysStep, PTL DEF AuditSpec

----------------------------------------------------------------------------
(* The history of an expiration has no gap.                                *)

\* A later step does not change what the log gave for an earlier record.
LEMMA GivesPast ==
  ASSUME AuditCore, AuditNext, NEW o \in Orders, HasRow(o),
         NEW i \in 1 .. Len(log) + 1, NEW time, Gives(o, i, time)
  PROVE  Gives(o, i, time)'
<1> DEFINE moves == {j \in DOMAIN log : /\ j < i
                                        /\ log[j].order = o
                                        /\ log[j].action \in {"expiration", "reactivation"}}
           moved == {j \in DOMAIN log' : /\ j < i
                                         /\ log'[j].order = o
                                         /\ log'[j].action \in {"expiration", "reactivation"}}
<1>1. /\ \A j \in DOMAIN log : j \in DOMAIN log' /\ log'[j] = log[j]
      /\ \A j \in DOMAIN log' : j < i => j \in DOMAIN log
  <2>1. log \in Seq(RecordType) /\ log' \in Seq(RecordType)
    BY LogGrows DEF AuditCore, AuditTypes
  <2>2. \A j \in DOMAIN log' : j < i => j \in DOMAIN log
    BY <2>1
  <2> QED BY <2>2, LogGrows
<1>2. moved = moves /\ \A j \in moves : log'[j] = log[j]
  BY <1>1
<1>3. orders'[o].first = orders[o].first
  BY OrdersStep DEF Same, Made, Moved
<1> QED BY <1>2, <1>3 DEF Gives

\* A record of something else leaves the expiration that the log gives last.
LEMMA GivesStill ==
  ASSUME AuditCore, AuditNext, NEW o \in Orders, HasRow(o),
         NEW rec \in RecordType, log' = Append(log, rec),
         rec.order # o \/ rec.action \notin TermActions,
         NEW time, Gives(o, Len(log) + 1, time), NEW next, next = Len(log') + 1
  PROVE  Gives(o, next, time)'
<1> DEFINE moves == {j \in DOMAIN log : /\ j < Len(log) + 1
                                        /\ log[j].order = o
                                        /\ log[j].action \in {"expiration", "reactivation"}}
           moved == {j \in DOMAIN log' : /\ j < next
                                         /\ log'[j].order = o
                                         /\ log'[j].action \in {"expiration", "reactivation"}}
<1>1. log \in Seq(RecordType)
  BY DEF AuditCore, AuditTypes
<1>2. /\ \A j \in DOMAIN log : j \in DOMAIN log' /\ log'[j] = log[j] /\ j < next
      /\ \A j \in DOMAIN log : j < Len(log) + 1
      /\ \A j \in DOMAIN log' : (log'[j] = rec /\ j = Len(log')) \/ j \in DOMAIN log
  BY <1>1
<1>3. moved = moves /\ \A j \in moves : log'[j] = log[j]
  BY <1>2 DEF TermActions
<1>4. orders'[o].first = orders[o].first
  BY OrdersStep DEF Same, Made, Moved
<1> HIDE DEF moves, moved
<1>5. \/ moves = {} /\ time = orders[o].first
      \/ \E j \in moves : time = log[j].new /\ \A k \in moves : k <= j
  BY DEF Gives, moves
<1>6. \/ moved = {} /\ time = orders'[o].first
      \/ \E j \in moved : time = log'[j].new /\ \A k \in moved : k <= j
  BY <1>3, <1>4, <1>5
<1> QED BY <1>6 DEF Gives, moved

\* A record of a move gives the expiration it has set.
LEMMA GivesNew ==
  ASSUME AuditCore, NEW o \in Orders, NEW rec \in RecordType, log' = Append(log, rec),
         rec.order = o, rec.action \in TermActions, NEW next, next = Len(log') + 1
  PROVE  Gives(o, next, rec.new)'
<1> DEFINE moved == {j \in DOMAIN log' : /\ j < next
                                         /\ log'[j].order = o
                                         /\ log'[j].action \in {"expiration", "reactivation"}}
<1>1. log \in Seq(RecordType)
  BY DEF AuditCore, AuditTypes
<1>2. /\ Len(log') \in DOMAIN log' /\ log'[Len(log')] = rec
      /\ Len(log') < next
      /\ \A k \in DOMAIN log' : k <= Len(log')
  BY <1>1
<1>3. Len(log') \in moved /\ \A k \in moved : k <= Len(log')
  BY <1>2 DEF TermActions
<1> QED BY <1>2, <1>3 DEF Gives

\* What ExpirationsOnRecord says of one order.
History(o) ==
  /\ Gives(o, Len(log) + 1, orders[o].expires)
  /\ \A i \in DOMAIN log :
       log[i].order = o /\ log[i].action \in TermActions => Gives(o, i, log[i].old)

\* A move starts its record from the expiration in force, which its copy of the
\* locked row holds.
LEMMA HistoryStep ==
  ASSUME AuditCore, AuditNext, NEW o \in Orders, HasRow(o) => History(o), HasRow(o)'
  PROVE  History(o)'
<1> PICK next : next = Len(log') + 1
  OBVIOUS
<1> PICK expires : expires = orders'[o].expires
  OBVIOUS
<1>1. log \in Seq(RecordType) /\ \A i \in DOMAIN log : i \in 1 .. Len(log) + 1
  BY DEF AuditCore, AuditTypes
<1>2. CASE Made(o)
  <2>1. UNCHANGED log /\ \A i \in DOMAIN log : log[i].order # o
    BY <1>2 DEF Made, AuditCore, Grounded
  <2>2. orders'[o].first = expires
    BY <1>2 DEF Made
  <2>3. Gives(o, next, expires)'
    BY <2>1, <2>2 DEF Gives
  <2> QED BY <2>1, <2>3 DEF History
<1>3. ASSUME HasRow(o), NEW i \in DOMAIN log, log[i].order = o, log[i].action \in TermActions,
             NEW old, old = log[i].old
      PROVE  Gives(o, i, old)'
  <2>1. Gives(o, i, old)
    BY <1>3 DEF History
  <2> QED BY <1>1, <1>3, <2>1, GivesPast
<1>4. CASE HasRow(o) /\ UNCHANGED log /\ orders'[o].expires = orders[o].expires
  <2>1. next \in 1 .. Len(log) + 1
    BY <1>1, <1>4
  <2>2. Gives(o, next, expires)
    BY <1>4 DEF History
  <2>3. Gives(o, next, expires)'
    BY <1>4, <2>1, <2>2, GivesPast
  <2>4. ASSUME NEW i \in DOMAIN log, log[i].order = o, log[i].action \in TermActions,
               NEW old, old = log'[i].old
        PROVE  Gives(o, i, old)'
    BY <1>3, <1>4, <2>4
  <2> QED BY <1>4, <2>3, <2>4 DEF History
<1>5. ASSUME HasRow(o), NEW rec \in RecordType, log' = Append(log, rec),
             Gives(o, next, expires)',
             rec.order = o /\ rec.action \in TermActions => rec.old = orders[o].expires
      PROVE  History(o)'
  <2>1. ASSUME NEW i \in DOMAIN log', log'[i].order = o, log'[i].action \in TermActions,
               NEW old, old = log'[i].old
        PROVE  Gives(o, i, old)'
    <3>1. (i \in DOMAIN log /\ log'[i] = log[i]) \/ (i = Len(log) + 1 /\ log'[i] = rec)
      BY <1>1, <1>5
    <3>2. CASE i \in DOMAIN log /\ log'[i] = log[i]
      BY <1>3, <1>5, <2>1, <3>2
    <3>3. CASE i = Len(log) + 1 /\ log'[i] = rec
      <4>1. Gives(o, i, old) /\ i \in 1 .. Len(log) + 1
        BY <1>1, <1>5, <2>1, <3>3 DEF History
      <4> QED BY <1>5, <4>1, GivesPast
    <3> QED BY <3>1, <3>2, <3>3
  <2> QED BY <1>5, <2>1 DEF History
<1>6. CASE Moved(o)
  <2>1. PICK a \in Admins, action \in TermActions :
          /\ requests[a].pc = "locked" /\ requests[a].order = o
          /\ log' = Append(log, [action |-> action, order |-> o,
                                 old |-> requests[a].row.expires,
                                 new |-> orders'[o].expires])
    BY <1>6 DEF Moved
  <2> DEFINE rec == [action |-> action, order |-> o, old |-> requests[a].row.expires,
                     new |-> orders'[o].expires]
  <2>2. rec.old = orders[o].expires /\ rec.new = expires
    BY <2>1 DEF AuditCore, Busy
  <2>3. rec.old \in Nat /\ rec.new \in Nat
    BY <2>2, OrdersStep DEF AuditCore, AuditTypes, OrderType
  <2>4. rec \in RecordType /\ rec.order = o /\ rec.action \in TermActions
    BY <2>3 DEF RecordType, Actions
  <2>5. log' = Append(log, rec)
    BY <2>1
  <2> HIDE DEF rec
  <2>6. PICK set \in RecordType : set = rec
    BY <2>4
  <2>7. Gives(o, next, set.new)'
    BY <2>4, <2>5, <2>6, GivesNew
  <2>8. set.new = expires /\ log' = Append(log, set) /\ set.old = orders[o].expires
    BY <2>2, <2>5, <2>6
  <2> QED BY <1>5, <1>6, <2>7, <2>8 DEF Moved
<1>7. CASE Same(o) /\ ~Moved(o)
  <2>1. HasRow(o) /\ orders'[o].expires = orders[o].expires
    BY <1>7 DEF Same
  <2>2. ASSUME NEW rec \in RecordType, Recorded(rec) PROVE History(o)'
    <3>1. log' = Append(log, rec) /\ (rec.order # o \/ rec.action \notin TermActions)
      BY <1>7, <2>2 DEF Recorded
    <3>2. Gives(o, Len(log) + 1, expires)
      BY <2>1 DEF History
    <3>3. Gives(o, next, expires)'
      BY <2>1, <3>1, <3>2, GivesStill
    <3> QED BY <1>5, <2>1, <3>1, <3>3
  <2> QED BY <1>4, <2>1, <2>2, LogStep
<1> QED BY <1>2, <1>6, <1>7, OrdersStep

\* The history of an order's expiration can be read from the log without a gap.
THEOREM ExpirationsAlwaysOnRecord == AuditSpec => []ExpirationsOnRecord
<1>1. AuditInit => ExpirationsOnRecord
  BY DEF AuditInit, ExpirationsOnRecord, HasRow, NoOrder
<1>2. ExpirationsOnRecord <=> \A o \in Orders : HasRow(o) => History(o)
  BY DEF ExpirationsOnRecord, History, TermActions
<1>3. AuditCore /\ ExpirationsOnRecord /\ [AuditNext]_auditVars => ExpirationsOnRecord'
  <2>1. CASE UNCHANGED auditVars
    <3>1. UNCHANGED orders /\ UNCHANGED log
      BY <2>1 DEF auditVars
    <3> QED BY <3>1 DEF ExpirationsOnRecord, Gives, HasRow
  <2>2. ASSUME AuditCore, AuditNext, \A o \in Orders : HasRow(o) => History(o)
        PROVE  (\A o \in Orders : HasRow(o) => History(o))'
    BY <2>2, HistoryStep
  <2>3. ExpirationsOnRecord' <=> (\A o \in Orders : HasRow(o) => History(o))'
    BY DEF ExpirationsOnRecord, History, TermActions
  <2> QED BY <1>2, <2>1, <2>2, <2>3
<1> QED BY <1>1, <1>3, CoreAlways, PTL DEF AuditSpec
=============================================================================
