--------------------------- MODULE DatabaseProofs ---------------------------
(***************************************************************************)
(* Proofs about what the database is left with: the failures an address    *)
(* can have on record, whatever the limit, the window and the number of    *)
(* threads, and the schema, whatever databases are migrated, however many  *)
(* runs of alembic there are at once and wherever they are killed.         *)
(***************************************************************************)
EXTENDS Migration, RateLimit, FiniteSetTheorems, TLAPS

----------------------------------------------------------------------------
(* The limit on failed access keys.                                        *)

\* The strengthening: a request that has been admitted is charged for in
\* advance, so that recording its failure changes nothing.
Charged ==
  Cardinality(Counted) + Cardinality(Admitted)
    <= Limit - 1 + Cardinality(Requests)

RateInv == RateTypeOK /\ Charged

\* The sets that are counted are finite, and their sizes numbers.
LEMMA Finite ==
  /\ IsFiniteSet(Counted) /\ Cardinality(Counted) \in Nat
  /\ IsFiniteSet(Admitted) /\ Cardinality(Admitted) \in Nat
  /\ Cardinality(Requests) \in Nat /\ Cardinality(Rows) \in Nat
  <1>1. Counted \subseteq Rows /\ Admitted \subseteq Requests
    BY DEF Counted, Admitted
  <1> QED
    BY <1>1, RateAssumption, FS_Subset, FS_CardinalityType DEF RateAssumption

\* The same of the next state.
LEMMA FiniteNext ==
  /\ IsFiniteSet(Counted') /\ Cardinality(Counted') \in Nat
  /\ IsFiniteSet(Admitted') /\ Cardinality(Admitted') \in Nat
  <1>1. Counted' \subseteq Rows /\ Admitted' \subseteq Requests
    BY DEF Counted, Admitted
  <1> QED
    BY <1>1, RateAssumption, FS_Subset, FS_CardinalityType DEF RateAssumption

\* While a request is admitted, a row is free to record its failure.
LEMMA RoomForFailure ==
  ASSUME RateInv, NEW r \in Admitted
  PROVE  \E i \in Rows : age[i] = Gone
  <1>1. Cardinality(Admitted) >= 1
    <2>1. Cardinality(Admitted) # 0
      BY Finite, FS_EmptySet
    <2> QED
      BY <2>1, Finite
  <1>2. Cardinality(Counted) < Cardinality(Rows)
    BY <1>1, Finite, RateAssumption DEF RateInv, Charged, RateAssumption
  <1>3. Counted # Rows
    BY <1>2, Finite
  <1>4. PICK i \in Rows : ~(age[i] <= Window)
    BY <1>3 DEF Counted
  <1>5. age[i] \in 0 .. Window + 1
    BY DEF RateInv, RateTypeOK, Gone
  <1> QED
    BY <1>4, <1>5, RateAssumption DEF Gone, RateAssumption

\* What recording a failure does to the rows and to their number.
LEMMA OneMoreRow ==
  ASSUME RateInv, NEW r \in Admitted, LogAttempt
  PROVE  /\ age' \in [Rows -> 0 .. Gone]
         /\ Cardinality(Counted') = Cardinality(Counted) + 1
  <1> DEFINE i == CHOOSE i \in Rows : \A j \in Rows : age[j] <= age[i]
  <1>1. i \in Rows /\ age[i] = Gone
    <2>1. PICK k \in Rows : age[k] = Gone
      BY RoomForFailure
    <2>2. \A j \in Rows : age[j] \in 0 .. Gone /\ Gone \in Nat
      BY RateAssumption DEF RateInv, RateTypeOK, Gone, RateAssumption
    <2>3. \A j \in Rows : age[j] <= age[k]
      BY <2>1, <2>2
    <2>4. i \in Rows /\ \A j \in Rows : age[j] <= age[i]
      BY <2>3
    <2> QED
      BY <2>1, <2>2, <2>4
  <1>2. age' = [age EXCEPT ![i] = 0]
    BY DEF LogAttempt
  <1> HIDE DEF i
  <1>3. age \in [Rows -> 0 .. Gone] /\ Window \in Nat
    BY RateAssumption DEF RateInv, RateTypeOK, RateAssumption
  <1>4. age' \in [Rows -> 0 .. Gone]
    BY <1>1, <1>2, <1>3 DEF Gone
  <1>5. i \notin Counted
    BY <1>1, <1>3 DEF Counted, Gone
  <1>6. Counted' = Counted \cup {i}
    BY <1>1, <1>2, <1>3 DEF Counted
  <1> QED
    BY <1>4, <1>5, <1>6, Finite, FS_AddElement

\* The initial state.
LEMMA RateInitial == RateInit => RateInv
  <1> SUFFICES ASSUME RateInit PROVE RateInv
    OBVIOUS
  <1>1. Counted = {} /\ Admitted = {}
    BY RateAssumption DEF RateInit, Counted, Admitted, Gone, RateAssumption
  <1>2. Charged
    BY <1>1, FS_EmptySet, Finite, RateAssumption DEF Charged, RateAssumption
  <1>3. RateTypeOK
    BY RateAssumption DEF RateInit, RateTypeOK, Gone, Failing, RateAssumption
  <1> QED
    BY <1>2, <1>3 DEF RateInv

\* Every step keeps the strengthening.
LEMMA RateStep == RateInv /\ [RateNext]_rateVars => RateInv'
  <1> SUFFICES ASSUME RateInv, [RateNext]_rateVars PROVE RateInv'
    OBVIOUS
  <1> USE DEF RateInv
  <1>1. ASSUME NEW r \in Requests, Admit(r) PROVE RateInv'
    <2>1. RateTypeOK'
      BY <1>1 DEF Admit, RateTypeOK
    <2>2. Counted' = Counted
      BY <1>1 DEF Admit, Counted
    <2>3. Cardinality(Counted) <= Limit - 1
      BY <1>1, Finite, RateAssumption DEF Admit, IsRateLimited, RateAssumption
    <2>4. Cardinality(Admitted') <= Cardinality(Requests)
      <3>1. Admitted' \subseteq Requests
        BY DEF Admitted
      <3> QED
        BY <3>1, FS_Subset, RateAssumption DEF RateAssumption
    <2>5. Charged'
      BY <2>2, <2>3, <2>4, Finite, FiniteNext, RateAssumption
         DEF Charged, RateAssumption
    <2> QED
      BY <2>1, <2>5
  <1>2. ASSUME NEW r \in Requests, TurnAway(r) PROVE RateInv'
    BY <1>2 DEF TurnAway, rateVars, RateTypeOK, Charged, Counted, Admitted
  <1>3. ASSUME NEW r \in Requests, guess[r] # "none",
               guess' = [guess EXCEPT ![r] = "none"]
        PROVE  /\ guess' \in [Requests -> Failing \cup {"none", "good"}]
               /\ Cardinality(Admitted') = Cardinality(Admitted) - 1
    <2>1. guess \in [Requests -> Failing \cup {"none", "good"}]
      BY DEF RateTypeOK
    <2>2. guess' \in [Requests -> Failing \cup {"none", "good"}]
      BY <1>3, <2>1
    <2>3. r \in Admitted /\ Admitted' = Admitted \ {r}
      BY <1>3, <2>1 DEF Admitted
    <2> QED
      BY <2>2, <2>3, Finite, FS_RemoveElement
  <1>4. ASSUME NEW r \in Requests, Fail(r) PROVE RateInv'
    <2>1. guess[r] # "none" /\ guess' = [guess EXCEPT ![r] = "none"] /\ LogAttempt
      BY <1>4 DEF Fail, Failing
    <2>2. r \in Admitted
      BY <2>1 DEF Admitted
    <2>3. /\ age' \in [Rows -> 0 .. Gone]
          /\ Cardinality(Counted') = Cardinality(Counted) + 1
      BY <2>1, <2>2, OneMoreRow
    <2>4. /\ guess' \in [Requests -> Failing \cup {"none", "good"}]
          /\ Cardinality(Admitted') = Cardinality(Admitted) - 1
      BY <2>1, <1>3
    <2> QED
      BY <2>3, <2>4, Finite, RateAssumption DEF RateTypeOK, Charged, RateAssumption
  <1>5. ASSUME NEW r \in Requests, Leave(r) PROVE RateInv'
    <2>1. guess[r] # "none" /\ guess' = [guess EXCEPT ![r] = "none"] /\ age' = age
      BY <1>5 DEF Leave
    <2>2. /\ guess' \in [Requests -> Failing \cup {"none", "good"}]
          /\ Cardinality(Admitted') = Cardinality(Admitted) - 1
      BY <2>1, <1>3
    <2>3. Counted' = Counted
      BY <2>1 DEF Counted
    <2> QED
      BY <2>1, <2>2, <2>3, Finite, RateAssumption
         DEF RateTypeOK, Charged, RateAssumption
  <1>6. ASSUME Tick PROVE RateInv'
    <2>1. age \in [Rows -> 0 .. Gone] /\ Window \in Nat
      BY RateAssumption DEF RateTypeOK, RateAssumption
    <2>2. age' \in [Rows -> 0 .. Gone]
      BY <1>6, <2>1 DEF Tick, Gone
    <2>3. Counted' \subseteq Counted
      BY <1>6, <2>1 DEF Tick, Counted, Gone
    <2>4. Cardinality(Counted') <= Cardinality(Counted)
      BY <2>3, Finite, FS_Subset
    <2>5. Admitted' = Admitted /\ guess' = guess
      BY <1>6 DEF Tick, Admitted
    <2> QED
      BY <2>2, <2>4, <2>5, Finite, FiniteNext, RateAssumption
         DEF RateTypeOK, Charged, RateAssumption
  <1>7. CASE UNCHANGED rateVars
    BY <1>7 DEF rateVars, RateTypeOK, Charged, Counted, Admitted
  <1> QED
    BY <1>1, <1>2, <1>4, <1>5, <1>6, <1>7 DEF RateNext

\* The state is well typed (access_attempts and the requests in flight).
THEOREM RateTypeCorrect == RateSpec => []RateTypeOK
  <1>1. RateInv => RateTypeOK
    BY DEF RateInv
  <1> QED
    BY RateInitial, RateStep, <1>1, PTL DEF RateSpec

\* The bound on failed keys holds for every limit, window and number of
\* concurrent requests (is_rate_limited, log_attempt).
THEOREM FailuresBounded == RateSpec => []BoundedFailures
  <1>1. RateInv => BoundedFailures
    BY Finite, RateAssumption DEF RateInv, Charged, BoundedFailures, RateAssumption
  <1> QED
    BY RateInitial, RateStep, <1>1, PTL DEF RateSpec

----------------------------------------------------------------------------
(* The objects of the migrations.                                          *)

\* What the downgrade of the second revision drops, and the table of the version.
Second == {<<"visitor_events">>, BuyerUsername, <<"alembic_version">>}

\* Two sequences, one after the other.
LEMMA Concat ==
  ASSUME NEW S, NEW s \in Seq(S), NEW t \in Seq(S)
  PROVE  /\ s \o t \in Seq(S) /\ Len(s \o t) = Len(s) + Len(t)
         /\ \A n \in 1 .. Len(s) : (s \o t)[n] = s[n]
         /\ \A n \in 1 .. Len(t) : (s \o t)[Len(s) + n] = t[n]
  OBVIOUS

\* The groups of the first revision, one by one.
LEMMA FirstRevision ==
  /\ DOMAIN Upgrade0001 = 1 .. 10 /\ Len(Upgrade0001) = 10
  /\ Upgrade0001[1] = << <<"orders">> >> \o AddedColumns
  /\ Upgrade0001[2] = << <<"access_attempts">> >>
  /\ Upgrade0001[3] = NewTables
  /\ \A n \in 1 .. 7 : Upgrade0001[3 + n] = IndexGroups[n]
<1> DEFINE first == << <<"orders">> >> \o AddedColumns
           second == << <<"access_attempts">> >>
           s == <<first, second, NewTables>>
<1>1. PICK d, e, f, g, h, i, j : IndexGroups = <<d, e, f, g, h, i, j>>
  BY DEF IndexGroups
<1> DEFINE t == <<d, e, f, g, h, i, j>>
           S == {first, second, NewTables, d, e, f, g, h, i, j}
<1> HIDE DEF first, second
<1>2. Len(s) = 3 /\ Len(t) = 7
  OBVIOUS
<1>2a. s \in Seq(S) /\ t \in Seq(S)
  OBVIOUS
<1>3. s[1] = first /\ s[2] = second /\ s[3] = NewTables
  OBVIOUS
<1>4. Upgrade0001 = s \o t
  BY <1>1 DEF Upgrade0001, first, second
<1> HIDE DEF S, s, t
<1>5. /\ s \o t \in Seq(S) /\ Len(s \o t) = Len(s) + Len(t)
  BY <1>2a, Concat
<1>5a. \A n \in 1 .. Len(s) : (s \o t)[n] = s[n]
  BY <1>2a, Concat
<1>5b. \A n \in 1 .. Len(t) : (s \o t)[Len(s) + n] = t[n]
  BY <1>2a, Concat
<1>6. IndexGroups = t
  BY <1>1 DEF t
<1>7. Len(Upgrade0001) = 10 /\ DOMAIN Upgrade0001 = 1 .. 10
  <2>1. Upgrade0001 \in Seq(S) /\ Len(Upgrade0001) = 10
    BY <1>2, <1>4, <1>5
  <2> QED BY <2>1
<1>8. /\ Upgrade0001[1] = first /\ Upgrade0001[2] = second /\ Upgrade0001[3] = NewTables
      /\ \A n \in 1 .. 7 : Upgrade0001[3 + n] = IndexGroups[n]
  <2>1. \A n \in 1 .. 3 : Upgrade0001[n] = s[n]
    BY <1>2, <1>4, <1>5a
  <2>2. \A n \in 1 .. 7 : Upgrade0001[3 + n] = t[n]
    BY <1>2, <1>4, <1>5b
  <2> QED BY <1>3, <1>6, <2>1, <2>2
<1> QED BY <1>7, <1>8 DEF first, second

\* Its first group is the table of the orders with the columns added to it.
LEMMA OrdersGroup == ToSet(<< <<"orders">> >> \o AddedColumns) = With(<<"orders">>)
<1>1. PICK b, c, d, e, f, g, h, i : AddedColumns = <<b, c, d, e, f, g, h, i>>
  BY DEF AddedColumns
<1> DEFINE a == <<"orders">>
           s == <<a>>
           t == <<b, c, d, e, f, g, h, i>>
           S == {a, b, c, d, e, f, g, h, i}
<1>2. With(a) = {a} \cup ToSet(AddedColumns)
  BY DEF With
<1>3. ToSet(t) = {b, c, d, e, f, g, h, i}
  BY DEF ToSet
<1> HIDE DEF a
<1>4. Len(s) = 1 /\ s[1] = a /\ Len(t) = 8
  OBVIOUS
<1>4a. s \in Seq(S) /\ t \in Seq(S)
  OBVIOUS
<1>5. \A n \in 1 .. 8 : t[n] \in ToSet(t)
  BY DEF ToSet
<1>6. \A x \in ToSet(t) : \E n \in 1 .. 8 : x = t[n]
  BY DEF ToSet
<1> HIDE DEF S, s, t
<1>7. /\ DOMAIN (s \o t) = 1 .. 9 /\ (s \o t)[1] = a
      /\ \A n \in 1 .. 8 : (s \o t)[1 + n] = t[n]
  <2>1. s \o t \in Seq(S) /\ Len(s \o t) = Len(s) + Len(t)
    BY <1>4a, Concat
  <2>2. \A n \in 1 .. Len(s) : (s \o t)[n] = s[n]
    BY <1>4a, Concat
  <2>3. \A n \in 1 .. Len(t) : (s \o t)[Len(s) + n] = t[n]
    BY <1>4a, Concat
  <2>4. DOMAIN (s \o t) = 1 .. 9
    BY <1>4, <2>1
  <2> QED BY <1>4, <2>2, <2>3, <2>4
<1>8. \A n \in 1 .. 9 : n = 1 \/ (n - 1 \in 1 .. 8 /\ n = 1 + (n - 1))
  OBVIOUS
<1>9. ToSet(s \o t) = {a} \cup ToSet(t)
  <2>1. ASSUME NEW n \in 1 .. 9
        PROVE  (s \o t)[n] \in {a} \cup ToSet(t)
    BY <1>5, <1>7, <1>8
  <2>2. a \in ToSet(s \o t)
    BY <1>7 DEF ToSet
  <2>3. ASSUME NEW x \in ToSet(t)
        PROVE  x \in ToSet(s \o t)
    <3>1. PICK n \in 1 .. 8 : x = t[n]
      BY <1>6
    <3>2. 1 + n \in 1 .. 9
      OBVIOUS
    <3>3. (s \o t)[1 + n] = x
      BY <1>7, <3>1
    <3> QED BY <1>7, <3>2, <3>3 DEF ToSet
  <2>4. ToSet(s \o t) \subseteq {a} \cup ToSet(t)
    BY <1>7, <2>1 DEF ToSet
  <2> QED BY <2>2, <2>3, <2>4
<1> QED BY <1>1, <1>2, <1>9 DEF a, s, t

\* The tables and columns of the first revision.
LEMMA TablesAndColumns ==
  /\ \A x \in ToSet(AddedColumns) : Len(x) = 2 /\ x # BuyerUsername
  /\ \A x \in ToSet(NewTables) : Len(x) = 1 /\ x \notin Second
  /\ \A x \in Second : Len(x) \in {1, 2}
<1>1. \A x \in ToSet(AddedColumns) : Len(x) = 2 /\ x # BuyerUsername
  BY DEF ToSet, AddedColumns, BuyerUsername
<1>2. \A x \in ToSet(NewTables) : Len(x) = 1 /\ x \notin Second
  BY DEF ToSet, NewTables, Second, BuyerUsername
<1>3. \A x \in Second : Len(x) \in {1, 2}
  BY DEF Second, BuyerUsername
<1> QED BY <1>1, <1>2, <1>3

\* Its indexes.
LEMMA FirstIndexes ==
  ASSUME NEW n \in 1 .. 7, NEW y \in ToSet(IndexGroups[n])
  PROVE  /\ Len(y) = 3
         /\ y[2] \notin {"visitor_events", "alembic_version"}
         /\ y[2] = "orders" => y[3] # "buyer_username"
<1> DEFINE Fits(z) == /\ Len(z) = 3
                      /\ z[2] \notin {"visitor_events", "alembic_version"}
                      /\ z[2] = "orders" => z[3] # "buyer_username"
<1>1. ASSUME NEW t \in {"access_attempts", "buyer_sessions", "webhook_events",
                        "cancellation_tombstones", "delivery_attempts", "admin_audit"},
             NEW columns, NEW z \in ToSet(Indexes(t, columns))
      PROVE  Fits(z)
  <2>1. PICK i \in DOMAIN columns : z = <<"ix", t, columns[i]>>
    BY DEF ToSet, Indexes
  <2>2. Len(z) = 3 /\ z[2] = t
    BY <2>1
  <2> QED BY <2>2
<1>2. ASSUME NEW z \in ToSet(IndexGroups[1])
      PROVE  Fits(z)
  <2> DEFINE columns == <<"g2g_order_id", "g2g_delivery_id", "offer_id", "expires_at",
               "status", "delivery_status", "access_key_hash", "next_delivery_attempt_at">>
  <2>1. IndexGroups[1] = Indexes("orders", columns)
    BY DEF IndexGroups
  <2>2. PICK i \in DOMAIN columns : z = <<"ix", "orders", columns[i]>>
    BY <2>1 DEF ToSet, Indexes
  <2>3. columns[i] # "buyer_username"
    OBVIOUS
  <2> HIDE DEF columns
  <2>4. Len(z) = 3 /\ z[2] = "orders" /\ z[3] = columns[i]
    BY <2>2
  <2> QED BY <2>3, <2>4
<1> SUFFICES Fits(y)
  OBVIOUS
<1> HIDE DEF Fits
<1>3. CASE n = 1
  BY <1>2, <1>3
<1>4. CASE n # 1
  <2>1. \E t \in {"access_attempts", "buyer_sessions", "webhook_events",
                  "cancellation_tombstones", "delivery_attempts", "admin_audit"} :
          \E columns : IndexGroups[n] = Indexes(t, columns)
    <3>1. n \in {2, 3, 4, 5, 6, 7}
      BY <1>4
    <3> QED BY <3>1 DEF IndexGroups
  <2> QED BY <1>1, <2>1
<1> QED BY <1>3, <1>4

\* The downgrade of the second revision leaves the objects of the first alone.
LEMMA SecondApart ==
  ASSUME NEW x \in Second
  PROVE  ({x} \cup Dependents(x)) \cap Objects("0001") = {}
<1> SUFFICES ASSUME NEW y \in Objects("0001") PROVE y # x /\ y \notin Dependents(x)
  OBVIOUS
<1>1. PICK n \in 1 .. 10 : y \in ToSet(Upgrade0001[n])
  BY FirstRevision DEF Objects, Groups, ToSet
<1>2. CASE n = 1
  <2>1. y = <<"orders">> \/ y \in ToSet(AddedColumns)
    BY <1>1, <1>2, FirstRevision, OrdersGroup DEF With
  <2>2. y # x /\ Len(y) # 3
    BY <2>1, TablesAndColumns DEF Second, BuyerUsername
  <2> QED BY <2>2 DEF Dependents
<1>3. CASE n = 2
  <2>1. y = <<"access_attempts">>
    BY <1>1, <1>3, FirstRevision DEF ToSet
  <2> QED BY <2>1 DEF Second, BuyerUsername, Dependents
<1>4. CASE n = 3
  <2>1. y \in ToSet(NewTables)
    BY <1>1, <1>4, FirstRevision
  <2> QED BY <2>1, TablesAndColumns DEF Dependents
<1>5. CASE n \in 4 .. 10
  <2>1. n - 3 \in 1 .. 7 /\ n = 3 + (n - 3)
    BY <1>5
  <2>2. y \in ToSet(IndexGroups[n - 3])
    BY <1>1, <2>1, FirstRevision
  <2>3. /\ Len(y) = 3
        /\ y[2] \notin {"visitor_events", "alembic_version"}
        /\ y[2] = "orders" => y[3] # "buyer_username"
    BY <2>1, <2>2, FirstIndexes
  <2>4. y # x
    BY <2>3, TablesAndColumns
  <2>5. \/ x[1] \in {"visitor_events", "alembic_version"}
        \/ x[1] = "orders" /\ Len(x) = 2 /\ x[2] = "buyer_username"
    BY DEF Second, BuyerUsername
  <2> QED BY <2>3, <2>4, <2>5 DEF Dependents
<1> QED BY <1>2, <1>3, <1>4, <1>5

\* What the downgrade of the second revision looks for.
LEMMA SecondDowngrade ==
  ASSUME NEW i \in DOMAIN Downgrade0002, NEW objects
  PROVE  Present(Downgrade0002[i], objects) \subseteq Second
<1>1. Downgrade0002[i] \in {<< <<"visitor_events">> >>, <<BuyerUsername>>}
  BY DEF Downgrade0002
<1>2. ToSet(Downgrade0002[i]) \subseteq Second
  BY <1>1 DEF ToSet, Second
<1> QED BY <1>2 DEF Present

\* The groups of an upgrade are numbered, and only the first of the first
\* revision creates the table of the orders.
LEMMA UpgradeGroups ==
  ASSUME NEW revision \in {"0001", "0002"}
  PROVE  LET groups == Groups("up", revision) IN
         /\ Len(groups) \in Nat /\ DOMAIN groups = 1 .. Len(groups)
         /\ Objects(revision) = UNION {ToSet(groups[i]) : i \in DOMAIN groups}
         /\ \A i \in DOMAIN groups :
              groups[i][1] = <<"orders">> => ToSet(groups[i]) \subseteq With(<<"orders">>)
<1> DEFINE groups == Groups("up", revision)
<1>1. Objects(revision) = UNION {ToSet(groups[i]) : i \in DOMAIN groups}
  BY DEF Objects, ToSet
<1>2. CASE revision = "0001"
  <2>1. groups = Upgrade0001
    BY <1>2 DEF Groups
  <2>2. ASSUME NEW i \in 1 .. 10, Upgrade0001[i][1] = <<"orders">>
        PROVE  i = 1
    <3>1. i # 2
      <4>1. << <<"access_attempts">> >>[1] # <<"orders">>
        OBVIOUS
      <4> QED BY <2>2, <4>1, FirstRevision
    <3>2. i # 3
      BY <2>2, FirstRevision DEF NewTables
    <3>3. CASE i \in 4 .. 10
      <4>1. i - 3 \in 1 .. 7 /\ i = 3 + (i - 3)
        BY <3>3
      <4>2. Len(IndexGroups[i - 3][1]) = 3
        <5>1. 1 \in DOMAIN IndexGroups[i - 3]
          BY <4>1 DEF IndexGroups, Indexes
        <5> QED BY <4>1, <5>1, FirstIndexes DEF ToSet
      <4>3. Upgrade0001[i] = IndexGroups[i - 3]
        BY <4>1, FirstRevision
      <4>4. Len(<<"orders">>) = 1
        OBVIOUS
      <4> QED BY <2>2, <4>2, <4>3, <4>4
    <3>4. i \in {1, 2, 3} \/ i \in 4 .. 10
      OBVIOUS
    <3> QED BY <3>1, <3>2, <3>3, <3>4
  <2>3. Len(Upgrade0001) \in Nat /\ DOMAIN Upgrade0001 = 1 .. Len(Upgrade0001)
    BY FirstRevision
  <2>4. \A i \in DOMAIN Upgrade0001 :
          Upgrade0001[i][1] = <<"orders">> => ToSet(Upgrade0001[i]) \subseteq With(<<"orders">>)
    <3>1. DOMAIN Upgrade0001 = 1 .. 10 /\ Upgrade0001[1] = << <<"orders">> >> \o AddedColumns
      BY FirstRevision
    <3>2. ToSet(Upgrade0001[1]) \subseteq With(<<"orders">>)
      BY <3>1, OrdersGroup
    <3> QED BY <2>2, <3>1, <3>2
  <2> QED BY <1>1, <2>1, <2>3, <2>4
<1>3. CASE revision = "0002"
  <2>1. groups = Upgrade0002
    BY <1>3 DEF Groups
  <2>2. Len(Upgrade0002) = 4 /\ DOMAIN Upgrade0002 = 1 .. 4
    BY DEF Upgrade0002
  <2>3. \A i \in 1 .. 4 : Upgrade0002[i][1] # <<"orders">>
    BY DEF Upgrade0002, BuyerUsername, Indexes
  <2> QED BY <1>1, <2>1, <2>2, <2>3
<1> QED BY <1>2, <1>3

----------------------------------------------------------------------------
(* The runs.                                                               *)

\* A downgrade is rolled back when it fails (see README.md for SQLite).
DowngradesRollBack ==
  \A d \in Deployments : "down" \in d.commands => d.backend = "postgresql"

\* What a database with a version holds.
Sound(state) ==
  /\ state.versions \in {{}, {"0001"}, {"0002"}}
  /\ state.versions # {} => Objects("0001") \subseteq state.objects
  /\ "0002" \in state.versions => Objects("0002") \subseteq state.objects

\* A runner with these fields.
Runner(pc, dir, todo, group, revisions) ==
  [pc |-> pc, dir |-> dir, todo |-> todo, group |-> group, revisions |-> revisions]

\* What the fields of a runner may be; only one that inspects has objects to do.
RunnerShape(q) ==
  /\ q = Runner(q.pc, q.dir, q.todo, q.group, q.revisions)
  /\ q.pc \in {"idle", "inspect", "commit"}
  /\ q.dir \in {"up", "down"}
  /\ q.group \in Nat
  /\ q.pc = "inspect" => q.group >= 1
  /\ q.pc # "inspect" => q.todo = {}

\* The shape of the state.
MigrationShape ==
  /\ deployment \in Deployments
  /\ db = Committed(db.objects, db.versions)
  /\ open = [by |-> open.by, state |-> Committed(open.state.objects, open.state.versions)]
  /\ runners = [r \in Runners |-> runners[r]]
  /\ \A r \in Runners : RunnerShape(runners[r])

\* Only upgrades on PostgreSQL run beside each other.
Beside ==
  \A r, q \in Runners :
    r # q /\ runners[r].pc # "idle" /\ runners[q].pc # "idle"
      => Transactional /\ runners[r].dir = "up"

\* The transaction is that of a run, and an upgrade only adds to the database.
OpenInv ==
  open.by # "nobody" =>
    /\ Transactional
    /\ open.by \in Runners
    /\ runners[open.by].pc # "idle"
    /\ runners[open.by].dir = "up" => db.objects \subseteq open.state.objects

\* Object x is there or about to be created.
Coming(r, x) ==
  \/ x \in View(r).objects
  \/ x \in runners[r].todo
  \/ x \in With(<<"orders">>) /\ <<"orders">> \in runners[r].todo

\* An upgrade in its run: what the revisions that are done create is there, and
\* what the groups already inspected hold is there or coming.  A run that read
\* the version before another one committed sees two rows for a while, and is
\* rolled back at its second revision.
UpInv(r) ==
  /\ runners[r].revisions \in {<<"0001", "0002">>, <<"0002">>}
  /\ View(r).versions \subseteq {"0001", "0002"}
  /\ runners[r].revisions = <<"0002">> => Objects("0001") \subseteq View(r).objects
  /\ \A i \in DOMAIN GroupsOf(r) :
       i < runners[r].group => \A x \in ToSet(GroupsOf(r)[i]) : Coming(r, x)
  /\ ~Transactional =>
       View(r).versions = IF runners[r].revisions = <<"0002">> THEN {"0001"} ELSE {}

\* A downgrade in its run: while it undoes the second revision, the first is
\* untouched.  While it undoes the first, the row says more than there is, but
\* what is committed does not change until the run has deleted the row.
DownInv(r) ==
  /\ Transactional
  /\ \/ /\ runners[r].revisions \in {<<"0002">>, <<"0002", "0001">>}
        /\ View(r).versions = {"0002"}
        /\ Objects("0001") \subseteq View(r).objects
        /\ runners[r].todo \subseteq Second
     \/ runners[r].revisions = <<"0001">> /\ View(r).versions = {"0001"}

\* A run about to commit has written, and what it commits is sound.
CommitInv(r) == Sound(View(r)) /\ (Transactional => open.by = r)

\* The part of the invariant about one runner.
RunnerInv(r) ==
  /\ runners[r].pc = "inspect" /\ runners[r].dir = "up" => UpInv(r)
  /\ runners[r].pc = "inspect" /\ runners[r].dir = "down" => DownInv(r)
  /\ runners[r].pc = "commit" => CommitInv(r)

\* The strengthening.  What is committed is sound; what a transaction sees need
\* not be until its run reaches the commit.
MigrationInv ==
  /\ MigrationShape
  /\ Sound(db)
  /\ Beside
  /\ OpenInv
  /\ \A r \in Runners : RunnerInv(r)

\* One runner goes on.
LEMMA RunnerGoesOn ==
  ASSUME MigrationShape, NEW r \in Runners, NEW new, RunnerShape(new),
         runners' = [runners EXCEPT ![r] = new]
  PROVE  /\ runners'[r] = new
         /\ \A q \in Runners \ {r} : runners'[q] = runners[q]
         /\ runners' = [q \in Runners |-> runners'[q]]
         /\ \A q \in Runners : RunnerShape(runners[q])'
<1>1. runners = [q \in Runners |-> runners[q]]
  BY DEF MigrationShape
<1>2. /\ runners'[r] = new /\ \A q \in Runners \ {r} : runners'[q] = runners[q]
      /\ runners' = [q \in Runners |-> runners'[q]]
  BY <1>1
<1>3. \A q \in Runners : RunnerShape(runners[q])'
  BY <1>2 DEF MigrationShape, RunnerShape
<1> QED BY <1>2, <1>3

\* What a runner that does not move relies on.
LEMMA OthersKeep ==
  ASSUME MigrationInv, NEW q \in Runners, runners'[q] = runners[q], deployment' = deployment,
         runners[q].pc # "idle" =>
           /\ open.by = q => open'.by = q
           /\ \/ View(q)' = View(q)
              \/ /\ Transactional /\ runners[q].dir = "up" /\ runners[q].pc = "inspect"
                 /\ View(q).objects \subseteq View(q)'.objects
                 /\ View(q)'.versions \subseteq {"0001", "0002"}
  PROVE  RunnerInv(q)'
<1>1. RunnerInv(q) /\ Transactional' = Transactional
  BY DEF MigrationInv, Transactional
<1>2. GroupsOf(q)' = GroupsOf(q)
  BY DEF GroupsOf
<1>3. CASE runners[q].pc = "inspect" /\ runners[q].dir = "up"
  <2>1. /\ View(q).objects \subseteq View(q)'.objects
        /\ View(q)'.versions \subseteq {"0001", "0002"}
        /\ ~Transactional => View(q)'.versions = View(q).versions
    BY <1>1, <1>3 DEF RunnerInv, UpInv
  <2>2. \A x : Coming(q, x) => Coming(q, x)'
    BY <2>1 DEF Coming
  <2>3. UpInv(q)
    BY <1>1, <1>3 DEF RunnerInv
  <2>4. UpInv(q)'
    BY <1>1, <1>2, <2>1, <2>2, <2>3 DEF UpInv
  <2> QED BY <1>3, <2>4 DEF RunnerInv
<1>4. CASE runners[q].pc = "inspect" /\ runners[q].dir = "down"
  BY <1>1, <1>4 DEF RunnerInv, DownInv
<1>5. CASE runners[q].pc = "commit"
  BY <1>1, <1>5 DEF RunnerInv, CommitInv, Sound
<1>6. CASE runners[q].pc = "idle"
  BY <1>6 DEF RunnerInv
<1>7. runners[q].pc \in {"idle", "inspect", "commit"} /\ runners[q].dir \in {"up", "down"}
  BY DEF MigrationInv, MigrationShape, RunnerShape
<1> QED BY <1>3, <1>4, <1>5, <1>6, <1>7

\* What a runner sees of the database: an upgrade sees all of it.
LEMMA Views ==
  ASSUME MigrationInv, NEW r \in Runners
  PROVE  /\ View(r) = Committed(View(r).objects, View(r).versions)
         /\ runners[r].dir = "up" => db.objects \subseteq View(r).objects
         /\ ~Transactional => open.by = "nobody" /\ View(r) = db
         /\ runners[r].pc = "idle" => open.by # r /\ View(r) = db
         /\ r # "nobody"
<1>1. r # "nobody"
  BY MigrationAssumption
<1>2. /\ db = Committed(db.objects, db.versions)
      /\ open.state = Committed(open.state.objects, open.state.versions)
  BY DEF MigrationInv, MigrationShape
<1>3. View(r) = Committed(View(r).objects, View(r).versions)
  BY <1>2 DEF View
<1> QED BY <1>1, <1>3 DEF MigrationInv, OpenInv, View

\* A statement of runner r.
LEMMA WriteStep ==
  ASSUME MigrationInv, NEW r \in Runners, runners[r].pc # "idle", CanWrite(r),
         NEW objects, NEW versions, Write(r, Committed(objects, versions)),
         NEW new, RunnerShape(new), new.pc # "idle", new.dir = runners[r].dir,
         runners' = [runners EXCEPT ![r] = new], deployment' = deployment,
         View(r)' = Committed(objects, versions) /\ (Transactional => open'.by = r)
           => RunnerInv(r)',
         ~Transactional => Sound(Committed(objects, versions)),
         runners[r].dir = "up" => View(r).objects \subseteq objects
  PROVE  MigrationInv'
<1> DEFINE state == Committed(objects, versions)
<1>0. state.objects = objects /\ state.versions = versions
  BY DEF Committed
<1>1. /\ runners'[r] = new
      /\ \A q \in Runners \ {r} : runners'[q] = runners[q]
      /\ runners' = [q \in Runners |-> runners'[q]]
      /\ \A q \in Runners : RunnerShape(runners[q])'
  BY RunnerGoesOn DEF MigrationInv
<1>2. Transactional' = Transactional /\ r # "nobody"
  BY Views DEF Transactional
<1>3. CASE Transactional
  <2>1. open' = [by |-> r, state |-> state] /\ db' = db
    BY <1>3 DEF Write
  <2>2. open'.by = r /\ open'.state = state /\ View(r)' = state
    BY <2>1 DEF View
  <2> HIDE DEF state
  <2>3. MigrationShape'
    BY <1>0, <1>1, <2>1 DEF MigrationInv, MigrationShape, state
  <2>4. Sound(db)'
    BY <2>1 DEF MigrationInv, Sound
  <2>5. Beside'
    BY <1>1, <1>2 DEF MigrationInv, Beside
  <2>6. OpenInv'
    <3>1. runners[r].dir = "up" => db.objects \subseteq objects
      BY Views
    <3> QED BY <1>0, <1>1, <1>2, <1>3, <2>1, <2>2, <3>1 DEF OpenInv
  <2>7. RunnerInv(r)'
    BY <2>2 DEF state
  <2>8. ASSUME NEW q \in Runners \ {r}
        PROVE  RunnerInv(q)'
    <3>1. q # "nobody" /\ open.by # q
      BY MigrationAssumption DEF CanWrite
    <3>2. View(q)' = View(q)
      BY <2>1, <2>2, <3>1 DEF View
    <3> QED BY <1>1, <3>1, <3>2, OthersKeep
  <2> QED BY <2>3, <2>4, <2>5, <2>6, <2>7, <2>8 DEF MigrationInv
<1>4. CASE ~Transactional
  <2>1. open.by = "nobody" /\ open' = open /\ db' = state
    BY <1>4, Views DEF Write
  <2>2. View(r)' = state
    BY <1>2, <2>1 DEF View
  <2>3. Sound(db)'
    BY <1>4, <2>1 DEF Sound
  <2> HIDE DEF state
  <2>4. MigrationShape'
    BY <1>0, <1>1, <2>1 DEF MigrationInv, MigrationShape, state
  <2>5. Beside'
    BY <1>1, <1>2 DEF MigrationInv, Beside
  <2>6. OpenInv'
    BY <2>1 DEF OpenInv
  <2>7. RunnerInv(r)'
    BY <1>4, <2>2 DEF state
  <2>8. ASSUME NEW q \in Runners \ {r}
        PROVE  RunnerInv(q)'
    <3>1. runners[q].pc = "idle"
      BY <1>4 DEF MigrationInv, Beside
    <3> QED BY <1>1, <3>1, OthersKeep
  <2> QED BY <2>3, <2>4, <2>5, <2>6, <2>7, <2>8 DEF MigrationInv
<1> QED BY <1>3, <1>4

\* A run ends without a commit.
LEMMA RollBackStep ==
  ASSUME MigrationInv, NEW r \in Runners, RollBack(r), deployment' = deployment
  PROVE  MigrationInv'
<1>1. RunnerShape(Idle) /\ Idle.pc = "idle"
  BY DEF RunnerShape, Idle, Runner
<1>2. /\ runners'[r] = Idle
      /\ \A q \in Runners \ {r} : runners'[q] = runners[q]
      /\ runners' = [q \in Runners |-> runners'[q]]
      /\ \A q \in Runners : RunnerShape(runners[q])'
  BY <1>1, RunnerGoesOn DEF MigrationInv, RollBack
<1>3. /\ db' = db /\ Transactional' = Transactional
      /\ open.by # r => open' = open
      /\ open.by = r => open' = NoTransaction
  BY DEF RollBack, Transactional
<1>4. MigrationShape'
  BY <1>2, <1>3 DEF MigrationInv, MigrationShape, NoTransaction, Committed
<1>5. Sound(db)' /\ Beside'
  BY <1>1, <1>2, <1>3 DEF MigrationInv, Sound, Beside
<1>6. OpenInv'
  BY <1>2, <1>3 DEF MigrationInv, OpenInv, NoTransaction
<1>7. ASSUME NEW q \in Runners \ {r}
      PROVE  RunnerInv(q)'
  <2>1. q # "nobody"
    BY MigrationAssumption
  <2>2. View(q)' = View(q) /\ (open.by = q => open'.by = q)
    BY <1>3, <2>1 DEF View, NoTransaction
  <2> QED BY <1>2, <2>2, OthersKeep DEF RollBack
<1>8. RunnerInv(r)'
  BY <1>1, <1>2 DEF RunnerInv
<1> QED BY <1>4, <1>5, <1>6, <1>7, <1>8 DEF MigrationInv

\* The initial states.
LEMMA MigrationInitially == MigrationInit => MigrationInv
<1> SUFFICES ASSUME MigrationInit PROVE MigrationInv
  OBVIOUS
<1>1. RunnerShape(Idle) /\ Idle.pc = "idle"
  BY DEF RunnerShape, Idle, Runner
<1>2. \A r \in Runners : runners[r] = Idle
  BY DEF MigrationInit
<1>3. MigrationShape
  <2>1. db = Committed(db.objects, db.versions)
    BY DEF MigrationInit, Committed
  <2>2. open = [by |-> open.by, state |-> Committed(open.state.objects, open.state.versions)]
    BY DEF MigrationInit, NoTransaction, Committed
  <2>3. runners = [r \in Runners |-> runners[r]] /\ deployment \in Deployments
    BY DEF MigrationInit
  <2> QED BY <1>1, <1>2, <2>1, <2>2, <2>3 DEF MigrationShape
<1>4. Sound(db) /\ db.versions = {}
  BY DEF MigrationInit, Sound, Committed
<1>5. Beside /\ OpenInv
  BY <1>1, <1>2 DEF MigrationInit, Beside, OpenInv, NoTransaction
<1> QED BY <1>1, <1>2, <1>3, <1>4, <1>5 DEF MigrationInv, RunnerInv

\* alembic starts.
LEMMA StartStep ==
  ASSUME MigrationInv, DowngradesRollBack, NEW r \in Runners, NEW dir, Start(r, dir)
  PROVE  MigrationInv'
<1>1. /\ runners[r].pc = "idle" /\ dir \in deployment.commands
      /\ UNCHANGED <<deployment, db, open>>
      /\ \A q \in Runners :
           runners[q].pc # "idle" => Transactional /\ dir = "up" /\ runners[q].dir = "up"
  BY DEF Start
<1> DEFINE todo == Missing(VersionTable, db.objects)
<1>2. PICK revisions \in Plan(dir, db.versions) :
        runners' = [runners EXCEPT ![r] = Runner("inspect", dir, todo, 1, revisions)]
  BY DEF Start, Runner
<1>3. dir \in {"up", "down"} /\ (dir = "down" => Transactional)
  BY <1>1, MigrationAssumption
     DEF MigrationInv, MigrationShape, DowngradesRollBack, Transactional
<1>4. todo \subseteq Second
  <2>1. VersionTable[1] # <<"orders">> /\ ToSet(VersionTable) \subseteq Second
    BY DEF VersionTable, ToSet, Second
  <2> QED BY <2>1 DEF Missing
<1> DEFINE new == Runner("inspect", dir, todo, 1, revisions)
<1> HIDE DEF todo
<1>5. /\ new.pc = "inspect" /\ new.dir = dir /\ new.todo = todo /\ new.group = 1
      /\ new.revisions = revisions
  BY DEF Runner
<1>6. RunnerShape(new)
  BY <1>3 DEF RunnerShape, Runner
<1> HIDE DEF new
<1>7. /\ runners'[r] = new
      /\ \A q \in Runners \ {r} : runners'[q] = runners[q]
      /\ runners' = [q \in Runners |-> runners'[q]]
      /\ \A q \in Runners : RunnerShape(runners[q])'
  BY <1>2, <1>6, RunnerGoesOn DEF MigrationInv, new
<1>8. /\ Transactional' = Transactional
      /\ \A q \in Runners : View(q)' = View(q)
  BY <1>1 DEF Transactional, View
<1>9. MigrationShape'
  BY <1>1, <1>7 DEF MigrationInv, MigrationShape
<1>10. Sound(db)' /\ Sound(db) /\ View(r) = db
  BY <1>1, Views DEF MigrationInv, Sound
<1>11. Beside'
  BY <1>1, <1>5, <1>7, <1>8 DEF MigrationInv, Beside
<1>12. OpenInv'
  <2>1. open.by # r
    BY <1>1, Views
  <2> QED BY <1>1, <1>7, <1>8, <2>1 DEF MigrationInv, OpenInv
<1>13. ASSUME NEW q \in Runners \ {r}
       PROVE  RunnerInv(q)'
  BY <1>1, <1>7, <1>8, OthersKeep
<1>14. CASE dir = "up"
  <2>1. \/ revisions = <<"0001", "0002">> /\ db.versions = {}
        \/ revisions = <<"0002">> /\ db.versions = {"0001"}
    BY <1>2, <1>14 DEF Plan
  <2>2. /\ revisions \in {<<"0001", "0002">>, <<"0002">>}
        /\ revisions = <<"0002">> => db.versions = {"0001"}
        /\ revisions # <<"0002">> => db.versions = {}
    BY <2>1
  <2>3. \A i \in DOMAIN GroupsOf(r)' : ~(i < 1)
    <3>1. PICK revision \in {"0001", "0002"} : GroupsOf(r)' = Groups("up", revision)
      BY <1>5, <1>7, <1>14, <2>2 DEF GroupsOf
    <3> QED BY <3>1, UpgradeGroups
  <2>4. UpInv(r)'
    BY <1>5, <1>7, <1>8, <1>10, <2>2, <2>3 DEF UpInv, Sound
  <2>5. RunnerInv(r)'
    BY <1>5, <1>7, <1>14, <2>4 DEF RunnerInv
  <2> QED BY <1>9, <1>10, <1>11, <1>12, <1>13, <2>5 DEF MigrationInv
<1>15. CASE dir = "down"
  <2>1. \/ revisions \in {<<"0002">>, <<"0002", "0001">>} /\ db.versions = {"0002"}
        \/ revisions = <<"0001">> /\ db.versions = {"0001"}
    BY <1>2, <1>15 DEF Plan
  <2>2. DownInv(r)'
    BY <1>3, <1>4, <1>5, <1>7, <1>8, <1>10, <1>15, <2>1 DEF DownInv, Sound
  <2>3. RunnerInv(r)'
    BY <1>5, <1>7, <1>15, <2>2 DEF RunnerInv
  <2> QED BY <1>9, <1>10, <1>11, <1>12, <1>13, <2>3 DEF MigrationInv
<1> QED BY <1>3, <1>14, <1>15

\* The objects of the next group are looked for.
LEMMA InspectStep ==
  ASSUME MigrationInv, NEW r \in Runners, Inspect(r)
  PROVE  MigrationInv'
<1> DEFINE q0 == runners[r]
           group == GroupsOf(r)[q0.group]
           todo == IF q0.dir = "up" THEN Missing(group, View(r).objects)
                   ELSE Present(group, View(r).objects)
           new == Runner(q0.pc, q0.dir, todo, q0.group + 1, q0.revisions)
<1>1. /\ q0.pc = "inspect" /\ q0.todo = {} /\ q0.group <= Len(GroupsOf(r))
      /\ UNCHANGED <<deployment, db, open>>
  BY DEF Inspect
<1>2. RunnerShape(q0) /\ runners = [q \in Runners |-> runners[q]]
  BY DEF MigrationInv, MigrationShape
<1>3. runners' = [runners EXCEPT ![r] = new]
  <2>1. runners' = [runners EXCEPT ![r].group = @ + 1, ![r].todo = todo]
    BY DEF Inspect
  <2> HIDE DEF todo
  <2>2. runners' = [runners EXCEPT ![r] = [q0 EXCEPT !.group = q0.group + 1, !.todo = todo]]
    BY <1>2, <2>1
  <2>3. q0 = Runner(q0.pc, q0.dir, q0.todo, q0.group, q0.revisions)
    BY <1>2 DEF RunnerShape
  <2>4. [q0 EXCEPT !.group = q0.group + 1, !.todo = todo] = new
    <3>1. [q0 EXCEPT !.group = q0.group + 1]
            = Runner(q0.pc, q0.dir, q0.todo, q0.group + 1, q0.revisions)
      BY <2>3 DEF Runner
    <3> DEFINE q1 == Runner(q0.pc, q0.dir, q0.todo, q0.group + 1, q0.revisions)
    <3>2. [q1 EXCEPT !.todo = todo] = new
      <4> HIDE DEF todo
      <4> QED BY DEF Runner, new
    <3> HIDE DEF q0, todo, q1, new
    <3>3. [q0 EXCEPT !.group = q0.group + 1, !.todo = todo]
            = [[q0 EXCEPT !.group = q0.group + 1] EXCEPT !.todo = todo]
      OBVIOUS
    <3> QED BY <3>1, <3>2, <3>3 DEF q1
  <2> QED BY <2>2, <2>4
<1>4. /\ new.pc = q0.pc /\ new.dir = q0.dir /\ new.todo = todo
      /\ new.group = q0.group + 1 /\ new.revisions = q0.revisions
  BY DEF Runner
<1>5. RunnerShape(new)
  <2> HIDE DEF todo
  <2> QED BY <1>1, <1>2 DEF RunnerShape, Runner
<1> HIDE DEF new
<1>6. /\ runners'[r] = new
      /\ \A q \in Runners \ {r} : runners'[q] = runners[q]
      /\ runners' = [q \in Runners |-> runners'[q]]
      /\ \A q \in Runners : RunnerShape(runners[q])'
  BY <1>3, <1>5, RunnerGoesOn DEF MigrationInv
<1>7. /\ Transactional' = Transactional
      /\ \A q \in Runners : View(q)' = View(q)
  BY <1>1 DEF Transactional, View
<1>8. MigrationShape'
  BY <1>1, <1>6 DEF MigrationInv, MigrationShape
<1>9. Sound(db)'
  BY <1>1 DEF MigrationInv, Sound
<1>10. Beside'
  BY <1>1, <1>4, <1>6, <1>7 DEF MigrationInv, Beside
<1>11. OpenInv'
  BY <1>1, <1>4, <1>6, <1>7 DEF MigrationInv, OpenInv
<1>12. ASSUME NEW q \in Runners \ {r}
       PROVE  RunnerInv(q)'
  BY <1>1, <1>6, <1>7, OthersKeep
<1>13. GroupsOf(r)' = GroupsOf(r)
  BY <1>4, <1>6 DEF GroupsOf
<1>14. q0.group \in Nat \ {0}
  BY <1>1, <1>2 DEF RunnerShape
<1>15. CASE q0.dir = "up"
  <2>1. UpInv(r)
    BY <1>1, <1>15 DEF MigrationInv, RunnerInv
  <2>2. PICK revision \in {"0001", "0002"} : GroupsOf(r) = Groups("up", revision)
    BY <1>15, <2>1 DEF UpInv, GroupsOf
  <2>3. /\ Len(GroupsOf(r)) \in Nat /\ DOMAIN GroupsOf(r) = 1 .. Len(GroupsOf(r))
        /\ \A i \in DOMAIN GroupsOf(r) :
             GroupsOf(r)[i][1] = <<"orders">> => ToSet(GroupsOf(r)[i]) \subseteq With(<<"orders">>)
    BY <2>2, UpgradeGroups
  <2>4. q0.group \in DOMAIN GroupsOf(r)
    BY <1>1, <1>14, <2>3
  <2>5. todo = Missing(group, View(r).objects)
    BY <1>15
  <2>6. \A x \in ToSet(group) : Coming(r, x)'
    <3>1. group[1] = <<"orders">> => ToSet(group) \subseteq With(<<"orders">>)
      BY <2>3, <2>4
    <3> HIDE DEF group, todo
    <3> QED BY <1>4, <1>6, <1>7, <2>5, <3>1 DEF Missing, Coming
  <2>7. ASSUME NEW i \in DOMAIN GroupsOf(r), i < q0.group + 1
        PROVE  \A x \in ToSet(GroupsOf(r)[i]) : Coming(r, x)'
    <3>1. CASE i = q0.group
      BY <2>6, <3>1
    <3>2. CASE i < q0.group
      BY <1>1, <1>7, <2>1, <3>2 DEF UpInv, Coming
    <3>3. i \in Nat
      BY <2>3
    <3> QED BY <1>14, <2>7, <3>1, <3>2, <3>3
  <2> HIDE DEF todo, group
  <2>8. UpInv(r)'
    BY <1>4, <1>6, <1>7, <1>13, <2>1, <2>7 DEF UpInv
  <2>9. RunnerInv(r)'
    BY <1>1, <1>4, <1>6, <1>15, <2>8 DEF RunnerInv
  <2> QED BY <1>8, <1>9, <1>10, <1>11, <1>12, <2>9 DEF MigrationInv
<1>16. CASE q0.dir = "down"
  <2>1. DownInv(r)
    BY <1>1, <1>16 DEF MigrationInv, RunnerInv
  <2>2. q0.revisions # <<"0001">> => todo \subseteq Second
    <3> SUFFICES ASSUME q0.revisions # <<"0001">> PROVE todo \subseteq Second
      OBVIOUS
    <3>1. GroupsOf(r) = Downgrade0002
      BY <1>16, <2>1 DEF DownInv, GroupsOf, Groups
    <3>2. q0.group \in DOMAIN Downgrade0002
      BY <1>1, <1>14, <3>1 DEF Downgrade0002
    <3>3. todo = Present(Downgrade0002[q0.group], View(r).objects)
      BY <1>16, <3>1
    <3> HIDE DEF todo, group
    <3> QED BY <3>2, <3>3, SecondDowngrade
  <2> HIDE DEF todo, group
  <2>3. DownInv(r)'
    BY <1>4, <1>6, <1>7, <2>1, <2>2 DEF DownInv
  <2>4. RunnerInv(r)'
    BY <1>1, <1>4, <1>6, <1>16, <2>3 DEF RunnerInv
  <2> QED BY <1>8, <1>9, <1>10, <1>11, <1>12, <2>4 DEF MigrationInv
<1> QED BY <1>2, <1>15, <1>16 DEF RunnerShape

\* An object is created.
LEMMA CreateStep ==
  ASSUME MigrationInv, NEW r \in Runners, Create(r)
  PROVE  MigrationInv'
<1>1. PICK x \in runners[r].todo :
        /\ runners[r].dir = "up" /\ CanWrite(r) /\ deployment' = deployment
        /\ IF x \in View(r).objects
           THEN RollBack(r)
           ELSE /\ Write(r, [View(r) EXCEPT !.objects = @ \cup With(x)])
                /\ runners' = [runners EXCEPT ![r].todo = @ \ {x}]
  BY DEF Create
<1>2. CASE x \in View(r).objects
  BY <1>1, <1>2, RollBackStep
<1>3. CASE x \notin View(r).objects
  <2> DEFINE q0 == runners[r]
             objects == View(r).objects \cup With(x)
             versions == View(r).versions
             new == Runner(q0.pc, q0.dir, q0.todo \ {x}, q0.group, q0.revisions)
  <2>1. RunnerShape(q0) /\ runners = [q \in Runners |-> runners[q]]
    BY DEF MigrationInv, MigrationShape
  <2>2. q0.pc = "inspect" /\ UpInv(r)
    BY <1>1, <2>1 DEF RunnerShape, MigrationInv, RunnerInv
  <2>3. runners' = [runners EXCEPT ![r] = new]
    BY <1>1, <1>3, <2>1 DEF RunnerShape, Runner
  <2>4. Write(r, Committed(objects, versions))
    <3>1. View(r) = Committed(View(r).objects, View(r).versions)
      BY Views
    <3>2. [View(r) EXCEPT !.objects = @ \cup With(x)] = Committed(objects, versions)
      BY <3>1 DEF Committed
    <3> QED BY <1>1, <1>3, <3>2
  <2>5. /\ new.pc = q0.pc /\ new.dir = q0.dir /\ new.todo = q0.todo \ {x}
        /\ new.group = q0.group /\ new.revisions = q0.revisions
    BY DEF Runner
  <2>6. RunnerShape(new)
    BY <2>1, <2>2 DEF RunnerShape, Runner
  <2> HIDE DEF new
  <2>7. runners'[r] = new /\ GroupsOf(r)' = GroupsOf(r) /\ Transactional' = Transactional
    BY <1>1, <2>1, <2>3, <2>5 DEF GroupsOf, Transactional
  <2>8. View(r)' = Committed(objects, versions) => RunnerInv(r)'
    <3> SUFFICES ASSUME View(r)' = Committed(objects, versions) PROVE UpInv(r)'
      BY <1>1, <2>2, <2>5, <2>7 DEF RunnerInv
    <3>1. View(r)'.objects = View(r).objects \cup With(x) /\ View(r)'.versions = View(r).versions
      BY DEF Committed
    <3>2. x \in With(x)
      BY DEF With
    <3>3. \A y : Coming(r, y) => Coming(r, y)'
      BY <2>5, <2>7, <3>1, <3>2 DEF Coming
    <3> QED BY <2>2, <2>5, <2>7, <3>1, <3>3 DEF UpInv
  <2>9. ~Transactional => Sound(Committed(objects, versions))
    <3>1. ~Transactional => Sound(View(r))
      BY Views DEF MigrationInv
    <3> QED BY <3>1 DEF Sound, Committed
  <2>10. View(r).objects \subseteq objects
    OBVIOUS
  <2> HIDE DEF objects, versions
  <2> QED BY <1>1, <2>2, <2>3, <2>4, <2>5, <2>6, <2>8, <2>9, <2>10, WriteStep
<1> QED BY <1>2, <1>3

\* An object is dropped.
LEMMA DropStep ==
  ASSUME MigrationInv, NEW r \in Runners, Drop(r)
  PROVE  MigrationInv'
<1>1. PICK x \in runners[r].todo :
        /\ runners[r].dir = "down" /\ CanWrite(r) /\ deployment' = deployment
        /\ \/ RollBack(r)
           \/ /\ Write(r, [View(r) EXCEPT !.objects = @ \ ({x} \cup Dependents(x))])
              /\ runners' = [runners EXCEPT ![r].todo = @ \ {x}]
  BY DEF Drop
<1>2. CASE RollBack(r)
  BY <1>1, <1>2, RollBackStep
<1>3. CASE /\ Write(r, [View(r) EXCEPT !.objects = @ \ ({x} \cup Dependents(x))])
           /\ runners' = [runners EXCEPT ![r].todo = @ \ {x}]
  <2> DEFINE q0 == runners[r]
             objects == View(r).objects \ ({x} \cup Dependents(x))
             versions == View(r).versions
             new == Runner(q0.pc, q0.dir, q0.todo \ {x}, q0.group, q0.revisions)
  <2>1. RunnerShape(q0) /\ runners = [q \in Runners |-> runners[q]]
    BY DEF MigrationInv, MigrationShape
  <2>2. q0.pc = "inspect" /\ DownInv(r)
    BY <1>1, <2>1 DEF RunnerShape, MigrationInv, RunnerInv
  <2>3. runners' = [runners EXCEPT ![r] = new]
    <3>1. runners' = [runners EXCEPT ![r] = [q0 EXCEPT !.todo = q0.todo \ {x}]]
      BY <1>3, <2>1
    <3>2. q0 = Runner(q0.pc, q0.dir, q0.todo, q0.group, q0.revisions)
      BY <2>1 DEF RunnerShape
    <3>3. [q0 EXCEPT !.todo = q0.todo \ {x}] = new
      BY <3>2 DEF Runner
    <3> QED BY <3>1, <3>3
  <2>4. Write(r, Committed(objects, versions))
    <3>1. View(r) = Committed(View(r).objects, View(r).versions)
      BY Views
    <3>2. [View(r) EXCEPT !.objects = @ \ ({x} \cup Dependents(x))]
            = Committed(objects, versions)
      BY <3>1 DEF Committed
    <3> QED BY <1>3, <3>2
  <2>5. /\ new.pc = q0.pc /\ new.dir = q0.dir /\ new.todo = q0.todo \ {x}
        /\ new.group = q0.group /\ new.revisions = q0.revisions
    BY DEF Runner
  <2>6. RunnerShape(new)
    BY <2>1, <2>2 DEF RunnerShape, Runner
  <2> HIDE DEF new
  <2>7. runners'[r] = new /\ Transactional' = Transactional
    BY <1>1, <2>1, <2>3 DEF Transactional
  <2>8. View(r)' = Committed(objects, versions) => RunnerInv(r)'
    <3> SUFFICES ASSUME View(r)' = Committed(objects, versions) PROVE DownInv(r)'
      BY <1>1, <2>2, <2>5, <2>7 DEF RunnerInv
    <3>1. /\ View(r)'.objects = View(r).objects \ ({x} \cup Dependents(x))
          /\ View(r)'.versions = View(r).versions
      BY DEF Committed
    <3>2. x \in Second => ({x} \cup Dependents(x)) \cap Objects("0001") = {}
      BY SecondApart
    <3> QED BY <2>2, <2>5, <2>7, <3>1, <3>2 DEF DownInv
  <2>9. /\ ~Transactional => Sound(Committed(objects, versions))
        /\ runners[r].dir = "up" => View(r).objects \subseteq objects
    BY <1>1, <2>2 DEF DownInv
  <2> HIDE DEF objects, versions
  <2> QED BY <1>1, <2>2, <2>3, <2>4, <2>5, <2>6, <2>8, <2>9, WriteStep
<1> QED BY <1>1, <1>2, <1>3

\* What a version is replaced by.
LEMMA StampedDoes ==
  ASSUME NEW versions, NEW new
  PROVE  /\ new \in Stamped("up", "0001", versions) => new = versions \cup {"0001"}
         /\ new \in Stamped("up", "0002", versions)
              => "0001" \in versions /\ new = (versions \ {"0001"}) \cup {"0002"}
         /\ new \in Stamped("down", "0002", versions)
              => new = (versions \ {"0002"}) \cup {"0001"}
         /\ new \in Stamped("down", "0001", versions) => new = versions \ {"0001"}
  BY DEF Stamped

\* The last group of an upgrade is done: its objects are there.
LEMMA UpgradeDone ==
  ASSUME MigrationInv, NEW r \in Runners, runners[r].pc = "inspect", runners[r].dir = "up",
         runners[r].todo = {}, runners[r].group > Len(GroupsOf(r))
  PROVE  Objects(Head(runners[r].revisions)) \subseteq View(r).objects
<1>1. UpInv(r) /\ runners[r].group \in Nat
  BY DEF MigrationInv, MigrationShape, RunnerShape, RunnerInv
<1> DEFINE revision == Head(runners[r].revisions)
<1>2. revision \in {"0001", "0002"}
  BY <1>1 DEF UpInv
<1>3. GroupsOf(r) = Groups("up", revision)
  BY DEF GroupsOf
<1> HIDE DEF revision
<1>4. /\ Len(GroupsOf(r)) \in Nat /\ DOMAIN GroupsOf(r) = 1 .. Len(GroupsOf(r))
      /\ Objects(revision) = UNION {ToSet(GroupsOf(r)[i]) : i \in DOMAIN GroupsOf(r)}
  BY <1>2, <1>3, UpgradeGroups
<1>5. ASSUME NEW i \in DOMAIN GroupsOf(r)
      PROVE  ToSet(GroupsOf(r)[i]) \subseteq View(r).objects
  <2>1. i < runners[r].group
    BY <1>1, <1>4
  <2> QED BY <1>1, <2>1 DEF UpInv, Coming
<1>6. Objects(revision) \subseteq View(r).objects
  BY <1>4, <1>5
<1> QED BY <1>6 DEF revision

\* The end of a revision.
LEMMA StampStep ==
  ASSUME MigrationInv, NEW r \in Runners, Stamp(r)
  PROVE  MigrationInv'
<1> DEFINE q0 == runners[r]
           done == Len(q0.revisions) = 1
           pc == IF done THEN "commit" ELSE q0.pc
           new == Runner(pc, q0.dir, q0.todo, 1, Tail(q0.revisions))
<1>1. /\ q0.pc = "inspect" /\ q0.todo = {} /\ q0.group > Len(GroupsOf(r)) /\ CanWrite(r)
      /\ deployment' = deployment
      /\ \/ RollBack(r)
         \/ /\ \E versions \in Stamped(q0.dir, Head(q0.revisions), View(r).versions) :
                 Write(r, [View(r) EXCEPT !.versions = versions])
            /\ runners' = [runners EXCEPT
                 ![r].revisions = Tail(@), ![r].group = 1,
                 ![r].pc = IF Len(runners[r].revisions) = 1 THEN "commit" ELSE @]
  BY DEF Stamp
<1>2. CASE RollBack(r)
  BY <1>1, <1>2, RollBackStep
<1>3. ASSUME NEW versions \in Stamped(q0.dir, Head(q0.revisions), View(r).versions),
             Write(r, [View(r) EXCEPT !.versions = versions]),
             runners' = [runners EXCEPT
               ![r].revisions = Tail(@), ![r].group = 1,
               ![r].pc = IF Len(runners[r].revisions) = 1 THEN "commit" ELSE @]
      PROVE  MigrationInv'
  <2>1. RunnerShape(q0) /\ runners = [q \in Runners |-> runners[q]]
    BY DEF MigrationInv, MigrationShape
  <2>2. runners' = [runners EXCEPT ![r] = new]
    <3>1. runners' = [runners EXCEPT ![r] =
            [q0 EXCEPT !.revisions = Tail(q0.revisions), !.group = 1, !.pc = pc]]
      BY <1>3, <2>1
    <3>2. q0 = Runner(q0.pc, q0.dir, q0.todo, q0.group, q0.revisions)
      BY <2>1 DEF RunnerShape
    <3> DEFINE rest == Tail(q0.revisions)
               q1 == Runner(q0.pc, q0.dir, q0.todo, q0.group, rest)
               q2 == Runner(q0.pc, q0.dir, q0.todo, 1, rest)
    <3> HIDE DEF q0, rest, pc
    <3>3. [q0 EXCEPT !.revisions = rest] = q1
      BY <3>2 DEF Runner
    <3>4. [q1 EXCEPT !.group = 1] = q2
      BY DEF Runner
    <3>5. [q2 EXCEPT !.pc = pc] = Runner(pc, q0.dir, q0.todo, 1, rest)
      BY DEF Runner
    <3> HIDE DEF q1, q2
    <3>6. [q0 EXCEPT !.revisions = rest, !.group = 1, !.pc = pc]
            = [[[q0 EXCEPT !.revisions = rest] EXCEPT !.group = 1] EXCEPT !.pc = pc]
      OBVIOUS
    <3>7. [q0 EXCEPT !.revisions = rest, !.group = 1, !.pc = pc]
            = Runner(pc, q0.dir, q0.todo, 1, rest)
      BY <3>3, <3>4, <3>5, <3>6
    <3> QED BY <3>1, <3>7 DEF rest
  <2>3. Write(r, Committed(View(r).objects, versions))
    <3>1. View(r) = Committed(View(r).objects, View(r).versions)
      BY Views
    <3>2. [View(r) EXCEPT !.versions = versions] = Committed(View(r).objects, versions)
      BY <3>1 DEF Committed
    <3> QED BY <1>3, <3>2
  <2>4. /\ new.pc = pc /\ new.dir = q0.dir /\ new.todo = {} /\ new.group = 1
        /\ new.revisions = Tail(q0.revisions) /\ pc \in {"inspect", "commit"}
    BY <1>1 DEF Runner
  <2>5. RunnerShape(new)
    BY <1>1, <2>1, <2>4 DEF RunnerShape, Runner
  <2>6. done => pc = "commit"
    OBVIOUS
  <2>7. ~done => pc = "inspect"
    BY <1>1
  <2> DEFINE objects == View(r).objects
  <2> HIDE DEF new, pc
  <2>8. runners'[r] = new /\ Transactional' = Transactional
    BY <1>1, <2>1, <2>2 DEF Transactional
  <2>9. CASE q0.dir = "up"
    <3>1. UpInv(r) /\ Objects(Head(q0.revisions)) \subseteq objects
      BY <1>1, <2>9, UpgradeDone DEF MigrationInv, RunnerInv
    <3>2. CASE q0.revisions = <<"0001", "0002">>
      <4>1. ~done /\ Head(q0.revisions) = "0001" /\ Tail(q0.revisions) = <<"0002">>
        BY <3>2
      <4>2. versions = View(r).versions \cup {"0001"} /\ Objects("0001") \subseteq objects
        BY <1>3, <2>9, <3>1, <4>1, StampedDoes
      <4>3. View(r).versions \subseteq {"0001", "0002"} /\ (~Transactional => versions = {"0001"})
        BY <3>1, <3>2, <4>2 DEF UpInv
      <4>4. ~Transactional => Sound(Committed(objects, versions))
        BY <4>2, <4>3 DEF Sound, Committed
      <4>5. View(r)' = Committed(objects, versions) => RunnerInv(r)'
        <5> SUFFICES ASSUME View(r)' = Committed(objects, versions) PROVE UpInv(r)'
          BY <2>4, <2>7, <2>8, <2>9, <4>1 DEF RunnerInv
        <5>1. View(r)'.objects = objects /\ View(r)'.versions = versions
          BY DEF Committed
        <5>2. runners'[r].revisions = <<"0002">> /\ runners'[r].group = 1
          BY <2>4, <2>8, <4>1
        <5>3. \A i \in DOMAIN GroupsOf(r)' : ~(i < 1)
          <6>1. GroupsOf(r)' = Groups("up", "0002")
            BY <2>4, <2>8, <2>9, <5>2 DEF GroupsOf
          <6> QED BY <6>1, UpgradeGroups
        <5> HIDE DEF objects
        <5> QED BY <2>8, <4>2, <4>3, <5>1, <5>2, <5>3 DEF UpInv
      <4>6. objects \subseteq objects /\ new.pc # "idle"
        BY <2>4
      <4> QED BY <1>1, <2>2, <2>3, <2>4, <2>5, <4>4, <4>5, <4>6, WriteStep
    <3>3. CASE q0.revisions = <<"0002">>
      <4>1. done /\ Head(q0.revisions) = "0002"
        BY <3>3
      <4>2. versions = (View(r).versions \ {"0001"}) \cup {"0002"}
        BY <1>3, <2>9, <4>1, StampedDoes
      <4>3. /\ versions = {"0002"}
            /\ Objects("0001") \subseteq objects /\ Objects("0002") \subseteq objects
        BY <3>1, <3>3, <4>1, <4>2 DEF UpInv
      <4>4. Sound(Committed(objects, versions))
        BY <4>3 DEF Sound, Committed
      <4>5. View(r)' = Committed(objects, versions) /\ (Transactional => open'.by = r)
              => RunnerInv(r)'
        BY <2>4, <2>6, <2>8, <4>1, <4>4 DEF RunnerInv, CommitInv
      <4>6. objects \subseteq objects /\ new.pc # "idle"
        BY <2>4
      <4> QED BY <1>1, <2>2, <2>3, <2>4, <2>5, <4>4, <4>5, <4>6, WriteStep
    <3> QED BY <3>1, <3>2, <3>3 DEF UpInv
  <2>10. CASE q0.dir = "down"
    <3>1. DownInv(r)
      BY <1>1, <2>10 DEF MigrationInv, RunnerInv
    <3>2. /\ new.pc # "idle"
          /\ ~Transactional => Sound(Committed(objects, versions))
          /\ runners[r].dir = "up" => View(r).objects \subseteq objects
      BY <2>4, <2>10, <3>1 DEF DownInv
    <3>3. CASE q0.revisions = <<"0002", "0001">>
      <4>1. ~done /\ Head(q0.revisions) = "0002" /\ Tail(q0.revisions) = <<"0001">>
        BY <3>3
      <4>2. versions = {"0001"}
        BY <1>3, <2>10, <3>1, <3>3, <4>1, StampedDoes DEF DownInv
      <4>3. View(r)' = Committed(objects, versions) => RunnerInv(r)'
        <5> SUFFICES ASSUME View(r)' = Committed(objects, versions) PROVE DownInv(r)'
          BY <2>4, <2>7, <2>8, <2>10, <4>1 DEF RunnerInv
        <5>1. View(r)'.versions = versions
          BY DEF Committed
        <5> QED BY <2>4, <2>8, <3>1, <4>1, <4>2, <5>1 DEF DownInv
      <4> QED BY <1>1, <2>2, <2>3, <2>4, <2>5, <3>2, <4>3, WriteStep
    <3>4. CASE q0.revisions \in {<<"0002">>, <<"0001">>}
      <4>1. done /\ Head(q0.revisions) \in {"0001", "0002"}
        BY <3>4
      <4>2. versions = {} \/ (versions = {"0001"} /\ Objects("0001") \subseteq objects)
        <5>1. CASE q0.revisions = <<"0002">>
          <6>1. Head(q0.revisions) = "0002"
            BY <5>1
          <6>2. View(r).versions = {"0002"} /\ Objects("0001") \subseteq objects
            BY <3>1, <5>1 DEF DownInv
          <6> QED BY <1>3, <2>10, <6>1, <6>2, StampedDoes
        <5>2. CASE q0.revisions = <<"0001">>
          <6>1. Head(q0.revisions) = "0001"
            BY <5>2
          <6>2. View(r).versions = {"0001"}
            BY <3>1, <5>2 DEF DownInv
          <6> QED BY <1>3, <2>10, <6>1, <6>2, StampedDoes
        <5> QED BY <3>4, <5>1, <5>2
      <4>3. Sound(Committed(objects, versions))
        BY <4>2 DEF Sound, Committed
      <4>4. View(r)' = Committed(objects, versions) /\ (Transactional => open'.by = r)
              => RunnerInv(r)'
        BY <2>4, <2>6, <2>8, <4>1, <4>3 DEF RunnerInv, CommitInv
      <4> QED BY <1>1, <2>2, <2>3, <2>4, <2>5, <3>2, <4>3, <4>4, WriteStep
    <3> QED BY <3>1, <3>3, <3>4 DEF DownInv
  <2> QED BY <2>1, <2>9, <2>10 DEF RunnerShape
<1> QED BY <1>1, <1>2, <1>3

\* The commit.
LEMMA FinishStep ==
  ASSUME MigrationInv, NEW r \in Runners, Finish(r)
  PROVE  MigrationInv'
<1>1. /\ runners[r].pc = "commit" /\ deployment' = deployment
      /\ db' = View(r) /\ runners' = [runners EXCEPT ![r] = Idle]
      /\ open' = IF open.by = r THEN NoTransaction ELSE open
  BY DEF Finish, View
<1>2. RunnerShape(Idle) /\ Idle.pc = "idle"
  BY DEF RunnerShape, Idle, Runner
<1>3. /\ runners'[r] = Idle
      /\ \A q \in Runners \ {r} : runners'[q] = runners[q]
      /\ runners' = [q \in Runners |-> runners'[q]]
      /\ \A q \in Runners : RunnerShape(runners[q])'
  BY <1>1, <1>2, RunnerGoesOn DEF MigrationInv
<1>4. CommitInv(r) /\ Transactional' = Transactional
  BY <1>1 DEF MigrationInv, RunnerInv, Transactional
<1>5. MigrationShape'
  <2>1. db' = Committed(db'.objects, db'.versions)
    BY <1>1, Views
  <2>2. open' = [by |-> open'.by, state |-> Committed(open'.state.objects, open'.state.versions)]
    BY <1>1 DEF MigrationInv, MigrationShape, NoTransaction, Committed
  <2> QED BY <1>1, <1>3, <2>1, <2>2 DEF MigrationInv, MigrationShape
<1>6. Sound(db)'
  BY <1>1, <1>4 DEF CommitInv, Sound
<1>7. Beside'
  BY <1>2, <1>3, <1>4 DEF MigrationInv, Beside
<1>8. open'.by = "nobody"
  BY <1>1, <1>4, Views DEF CommitInv, NoTransaction
<1>9. OpenInv'
  BY <1>8 DEF OpenInv
<1>10. ASSUME NEW q \in Runners \ {r}
       PROVE  RunnerInv(q)'
  <2>1. CASE runners[q].pc = "idle"
    BY <1>1, <1>3, <2>1, OthersKeep
  <2>2. CASE runners[q].pc # "idle"
    <3>1. Transactional /\ runners[q].dir = "up" /\ runners[r].dir = "up"
      BY <1>1, <2>2 DEF MigrationInv, Beside
    <3>2. open.by = r /\ open.by # q
      BY <1>4, <3>1 DEF CommitInv
    <3>3. runners[q].pc = "inspect"
      BY <2>2, <3>1, <3>2 DEF MigrationInv, RunnerInv, CommitInv, MigrationShape, RunnerShape
    <3>4. View(q) = db /\ View(q)' = db'
      <4>1. q # "nobody"
        BY MigrationAssumption
      <4> QED BY <1>8, <3>2, <4>1 DEF View
    <3>5. View(q).objects \subseteq View(q)'.objects
      BY <1>1, <3>1, <3>4, Views
    <3>6. View(q)'.versions \subseteq {"0001", "0002"}
      BY <1>6, <3>4 DEF Sound
    <3> QED BY <1>1, <1>3, <3>1, <3>2, <3>3, <3>5, <3>6, OthersKeep
  <2> QED BY <2>1, <2>2
<1>11. RunnerInv(r)'
  BY <1>2, <1>3 DEF RunnerInv
<1> QED BY <1>5, <1>6, <1>7, <1>9, <1>10, <1>11 DEF MigrationInv

\* The invariant is preserved.
LEMMA MigrationStep ==
  ASSUME DowngradesRollBack, MigrationInv, [MigrationNext]_migrationVars
  PROVE  MigrationInv'
<1>1. CASE UNCHANGED migrationVars
  <2>1. /\ UNCHANGED <<deployment, db, open, runners>> /\ Transactional' = Transactional
        /\ \A r \in Runners : View(r)' = View(r)
    BY <1>1 DEF migrationVars, Transactional, View
  <2>2. \A r \in Runners : RunnerInv(r)'
    BY <2>1, OthersKeep
  <2> QED BY <2>1, <2>2 DEF MigrationInv, MigrationShape, RunnerShape, Sound, Beside, OpenInv
<1>2. ASSUME NEW r \in Runners, Step(r) \/ Kill(r)
      PROVE  MigrationInv'
  BY <1>2, InspectStep, CreateStep, DropStep, StampStep, FinishStep, RollBackStep
     DEF Step, Kill
<1> QED BY <1>1, <1>2, StartStep DEF MigrationNext

\* The invariant holds for any number of runners, any deployments and any
\* number of kills.
THEOREM MigrationInvariant ==
  ASSUME DowngradesRollBack
  PROVE  MigrationSpec => []MigrationInv
<1>1. MigrationInv /\ [MigrationNext]_migrationVars => MigrationInv'
  BY MigrationStep
<1> QED BY <1>1, MigrationInitially, PTL DEF MigrationSpec

\* A service that reports ready has its whole schema, wherever runs were killed
\* or rolled back and however many ran at once (readiness, both migrations).
THEOREM ReadyAlwaysComplete ==
  ASSUME DowngradesRollBack
  PROVE  MigrationSpec => []ReadyMeansComplete
<1>1. MigrationInv => ReadyMeansComplete
  BY DEF MigrationInv, Sound, ReadyMeansComplete, Ready, HeadVersion, Complete, AllObjects
<1> QED BY <1>1, MigrationInvariant, PTL

\* Runs at the same time leave one version at most.
THEOREM AlwaysOneVersion ==
  ASSUME DowngradesRollBack
  PROVE  MigrationSpec => []OneVersion
<1>1. MigrationInv => OneVersion
  <2>1. Cardinality({}) = 0 /\ Cardinality({"0001"}) = 1 /\ Cardinality({"0002"}) = 1
    BY FS_EmptySet, FS_Singleton
  <2> QED BY <2>1 DEF MigrationInv, Sound, OneVersion
<1> QED BY <1>1, MigrationInvariant, PTL
=============================================================================
