--------------------------- MODULE DeliveryProofs ---------------------------
(***************************************************************************)
(* Proofs about Delivery, for any number of orders, threads and cron       *)
(* processes and any limits, and about RetryQueue: the turns of the orders *)
(* that wait for the retry job.                                            *)
(***************************************************************************)
EXTENDS Delivery, RetryQueue, FiniteSetTheorems, SequenceTheorems, TLAPS

ThreadType ==
  [pc : {"idle", "queued", "prepare", "post", "confirm", "finish",
         "ask", "read", "record"},
   order : OrderIds \cup {Null}, force : BOOLEAN, number : 0 .. AttemptCap,
   item : DeliveryIds \cup {Manual, Null}, ok : BOOLEAN,
   age : 0 .. StaleAge, seen : DeliveryStatus]

PaceType == [attempts : 0 .. AttemptCap, age : 0 .. StaleAge, wait : 0 .. MaxDelay]

Progress == {"started", "delivered", "failed"}

\* A thread at work has an order with a row and, during an attempt, a row of
\* its own in delivery_attempts; a success it will record is one.
Working(w) ==
  LET o == threads[w].order IN
  /\ threads[w].pc # "idle" => o \in OrderIds /\ orders[o] \in Row
  /\ threads[w].pc = "queued" => threads[w].age = 0
  /\ InFlight(w) => threads[w].number \in 1 .. Len(rows[o])
  /\ threads[w].pc = "finish" /\ threads[w].ok => g2g[o] # "none"
  /\ threads[w].pc \in {"read", "record"} => g2g[o] # "none"

\* Every attempt has its row.
Numbered == \A o \in OrderIds : Len(rows[o]) = pace[o].attempts

\* An attempt that has neither run for StaleAge nor lost its claim.
Live(w) == InFlight(w) /\ w \notin bared /\ threads[w].age # StaleAge

\* The order of a live attempt is claimed, since as long as the attempt runs,
\* or its delivery is settled.
Claimed ==
  \A w \in Threads :
    LET o == threads[w].order IN
    Live(w) => \/ Settled(o)
               \/ /\ orders[o].delivery_status = "delivering"
                  /\ pace[o].age = threads[w].age

\* No attempt is ever made on an order created by hand, and none on an order
\* before its row: the marketplace holds no key of it, and no thread carries
\* the item "manual" or works on it between the transactions of an attempt.
HandsOff ==
  /\ \A o \in OrderIds :
       /\ orders[o].delivery_id = Manual => orders[o].delivery_status = "manual"
       /\ ~HasRow(o) \/ orders[o].delivery_status = "manual"
          => /\ g2g[o] = "none"
             /\ \A w \in Threads : InFlight(w) => threads[w].order # o
  /\ \A w \in Threads : InFlight(w) => threads[w].item # Manual

DeliveryInv ==
  /\ DeliveryTypeOK
  /\ Numbered
  /\ \A w \in Threads : Working(w)
  /\ HonestDelivery
  /\ Claimed
  /\ OneAttemptAtATime
  /\ HandsOff

----------------------------------------------------------------------------
(* Types.                                                                  *)

\* Two to the power of a natural number is one: the number of the subsets of
\* an interval.
LEMMA PowerType ==
  ASSUME NEW n \in Nat
  PROVE  2 ^ n \in Nat
<1>1. IsFiniteSet(1 .. n) /\ Cardinality(1 .. n) = n
  <2>1. Cardinality(1 .. n) = IF 1 > n THEN 0 ELSE n - 1 + 1
    BY FS_Interval
  <2> QED BY <2>1, FS_Interval
<1>2. IsFiniteSet(SUBSET (1 .. n)) /\ Cardinality(SUBSET (1 .. n)) = 2 ^ n
  BY <1>1, FS_SUBSET
<1> QED BY <1>2, FS_CardinalityType

\* The delay between attempts stays within its limit, whatever their number.
LEMMA DelayType ==
  ASSUME NEW n \in Nat \ {0}
  PROVE  RetryDelay(n) \in 0 .. MaxDelay
<1>1. 2 ^ (n - 1) \in Nat
  BY PowerType
<1> DEFINE p == 2 ^ (n - 1)
<1>2. RetryBase * p \in Nat /\ MaxDelay \in Nat
  BY <1>1, DeliveryAssumption
<1> HIDE DEF p
<1> QED BY <1>2 DEF RetryDelay, p

\* A row and the absence of one are told apart by the status.
LEMMA RowOrNone ==
  ASSUME NEW o \in OrderIds, OrdersTypeOK
  PROVE  /\ HasRow(o) <=> orders[o] \in Row
         /\ orders[o] \in Row \cup {NoRow}
         /\ orders[o].delivery_status \in DeliveryStatus
         /\ orders[o].delivery_id \in DeliveryIds \cup {Manual, Null}
  BY DEF OrdersTypeOK, HasRow, Row, NoRow, RowStatus, DeliveryStatus

\* The initial states satisfy the invariant.
LEMMA DeliveryInitInv == DeliveryInit => DeliveryInv
<1> SUFFICES ASSUME DeliveryInit PROVE DeliveryInv
  OBVIOUS
<1>1. Legacy \in Row /\ NoRow.delivery_status = "pending" /\ Legacy.delivery_status = "pending"
  BY DEF Legacy, Row, NoRow, RowStatus, DeliveryStatus
<1>2. OrdersTypeOK /\ \A o \in OrderIds : orders[o].delivery_status = "pending"
  BY <1>1 DEF DeliveryInit, OrdersInit, OrdersTypeOK
<1>3. Idle \in ThreadType /\ Idle.pc = "idle"
  BY DeliveryAssumption DEF Idle, ThreadType, DeliveryStatus
<1>4. NoPace \in PaceType /\ NoPace.attempts = 0
  BY DeliveryAssumption DEF NoPace, PaceType
<1>5. \A w \in Threads : threads[w] = Idle
  BY DEF DeliveryInit
<1>6. \A o \in OrderIds : rows[o] = <<>> /\ Len(rows[o]) = 0 /\ pace[o] = NoPace
  BY DEF DeliveryInit
<1>7. DeliveryTypeOK
  <2>1. rows \in [OrderIds -> Seq(Progress)]
    BY DEF DeliveryInit
  <2> QED BY <1>2, <1>3, <1>4, <2>1 DEF DeliveryInit, DeliveryTypeOK, ThreadType,
                                        PaceType, Progress
<1>8. Numbered
  BY <1>4, <1>6 DEF Numbered
<1>9. \A w \in Threads : Working(w) /\ ~InFlight(w)
  BY <1>3, <1>5 DEF Working, InFlight
<1>10. HonestDelivery
  BY <1>2, <1>6 DEF HonestDelivery
<1>11. HandsOff
  <2>1. \A o \in OrderIds : orders[o].delivery_id # Manual
    BY TableAssumption DEF DeliveryInit, OrdersInit, NoRow, Legacy
  <2> QED BY <1>2, <1>9, <2>1 DEF HandsOff, DeliveryInit
<1> QED BY <1>7, <1>8, <1>9, <1>10, <1>11 DEF DeliveryInv, Claimed, Live, OneAttemptAtATime

\* The state in parts, as the proofs below use it.
Types ==
  /\ orders \in [OrderIds -> Row \cup {NoRow}]
  /\ pace \in [OrderIds -> PaceType]
  /\ rows \in [OrderIds -> Seq(Progress)]
  /\ threads \in [Threads -> ThreadType]
  /\ g2g \in [OrderIds -> {"none", "received", "delivered"}]
  /\ bared \subseteq Threads

\* The type invariant is its parts.
LEMMA TypesAre == DeliveryTypeOK <=> Types
  BY DEF DeliveryTypeOK, OrdersTypeOK, Types, PaceType, Progress, ThreadType

\* Whatever becomes of it, a thread that is not in an attempt any more, or not
\* yet, and has a row to work on does no harm.
SideStep(w) ==
  /\ threads' \in [Threads -> ThreadType]
  /\ ~InFlight(w)'
  /\ Working(w)'
  /\ \A v \in Threads \ {w} : threads'[v] = threads[v]
  /\ bared' \in {bared, bared \ {w}}
  /\ UNCHANGED <<orders, pace, rows, g2g>>

\* An idle thread has its type.
LEMMA IdleType == Idle \in ThreadType /\ Idle.pc = "idle" /\ Idle.age = 0
  BY DeliveryAssumption DEF Idle, ThreadType, DeliveryStatus

\* A thread can always stop.
LEMMA QuitStep ==
  ASSUME Types, NEW w \in Threads, threads' = [threads EXCEPT ![w] = Idle],
         bared' \in {bared, bared \ {w}}, UNCHANGED <<orders, pace, rows, g2g>>
  PROVE  SideStep(w)
<1>1. threads'[w] = Idle /\ threads' \in [Threads -> ThreadType]
  BY IdleType DEF Types
<1>2. ~InFlight(w)' /\ Working(w)'
  BY <1>1, IdleType DEF InFlight, Working
<1>3. \A v \in Threads \ {w} : threads'[v] = threads[v]
  BY DEF Types
<1> QED BY <1>1, <1>2, <1>3 DEF SideStep

\* A thread asks for an attempt or begins to reconcile.
LEMMA StartStep ==
  ASSUME Types, NEW w \in Threads, NEW o \in OrderIds, HasRow(o), OrdersTypeOK,
         NEW new \in ThreadType, new.pc \in {"queued", "ask"}, new.order = o, new.age = 0,
         threads' = [threads EXCEPT ![w] = new],
         UNCHANGED <<orders, pace, rows, g2g, bared>>
  PROVE  SideStep(w)
<1>4. threads'[w] = new /\ threads' \in [Threads -> ThreadType]
  BY DEF Types
<1>5. orders'[o] \in Row
  BY RowOrNone
<1>6. ~InFlight(w)' /\ Working(w)'
  BY <1>4, <1>5 DEF InFlight, Working
<1>7. \A v \in Threads \ {w} : threads'[v] = threads[v]
  BY DEF Types
<1> QED BY <1>4, <1>6, <1>7 DEF SideStep

\* The first transaction of an attempt on an order it may claim.
ClaimStep(w, o) ==
  /\ threads[w].pc = "queued"
  /\ threads[w].order = o
  /\ Eligible(o, threads[w].force)
  /\ orders' = [orders EXCEPT ![o].delivery_status = "delivering"]
  /\ pace'[o].attempts = pace[o].attempts + 1
  /\ pace'[o].age = 0
  /\ \A p \in OrderIds \ {o} : pace'[p] = pace[p]
  /\ rows' = [rows EXCEPT ![o] = Append(rows[o], "started")]
  /\ threads'[w].pc = "prepare"
  /\ threads'[w].order = o
  /\ threads'[w].number = pace[o].attempts + 1
  /\ threads'[w].item = orders[o].delivery_id
  /\ threads'[w].age = threads[w].age
  /\ \A v \in Threads \ {w} : threads'[v] = threads[v]
  /\ UNCHANGED <<g2g, bared>>

\* A step between the transactions.
CallStep(w) ==
  /\ InFlight(w)
  /\ threads'[w].pc \in {"post", "confirm", "finish"}
  /\ threads'[w].order = threads[w].order
  /\ threads'[w].number = threads[w].number
  /\ threads'[w].age = threads[w].age
  /\ threads'[w].pc = "finish" /\ threads'[w].ok => g2g'[threads[w].order] # "none"
  /\ \A v \in Threads \ {w} : threads'[v] = threads[v]
  /\ threads'[w].item \in {threads[w].item} \cup DeliveryIds
  /\ \A o \in OrderIds : g2g[o] # "none" => g2g'[o] # "none"
  /\ \A o \in OrderIds \ {threads[w].order} : g2g'[o] = g2g[o]
  /\ UNCHANGED <<orders, pace, rows, bared>>

\* The row with an outcome and, if it named none, the item.
Recorded(o, verdict, item) ==
  [orders[o] EXCEPT !.delivery_status = verdict,
                    !.delivery_id = IF @ = Null THEN item ELSE @]

\* The last transaction of an attempt.
FinishStep(w, o) ==
  /\ threads[w].pc = "finish"
  /\ threads[w].order = o
  /\ \E ok \in {FALSE, threads[w].ok} :
       /\ orders'[o] = Recorded(o, IF ok THEN "delivered" ELSE "failed", threads[w].item)
       /\ orders'[o].delivery_status = IF ok THEN "delivered" ELSE "failed"
       /\ rows' = [rows EXCEPT ![o] = [rows[o] EXCEPT ![threads[w].number] =
                     IF ok THEN "delivered" ELSE "failed"]]
       /\ bared' = (bared \cup IF ok THEN {} ELSE OthersOn(o, w)) \ {w}
  /\ orders'[o].status = orders[o].status
  /\ \A p \in OrderIds \ {o} : orders'[p] = orders[p]
  /\ \A p \in OrderIds : pace'[p].attempts = pace[p].attempts /\ pace'[p].age = pace[p].age
  /\ threads'[w] = Idle
  /\ \A v \in Threads \ {w} : threads'[v] = threads[v]
  /\ g2g' = g2g

\* A thread at work always has the row of its order.
Busy(w) == threads[w].order \in OrderIds /\ orders[threads[w].order] \in Row

\* Begin claims the order or gives up.
LEMMA BeginStep ==
  ASSUME Types, NEW w \in Threads, Begin(w), Busy(w)
  PROVE  /\ Types'
         /\ ClaimStep(w, threads[w].order) \/ SideStep(w)
<1> DEFINE o == threads[w].order
           n == pace[o].attempts + 1
<1>0. /\ o \in OrderIds /\ orders[o] \in Row /\ pace[o] \in PaceType
      /\ threads[w] \in ThreadType /\ rows[o] \in Seq(Progress)
      /\ n \in Nat
  BY DeliveryAssumption DEF Types, Busy, PaceType
<1>1. CASE Eligible(o, threads[w].force)
  <2> DEFINE row == [orders[o] EXCEPT !.delivery_status = "delivering"]
             step == [attempts |-> n, age |-> 0, wait |-> 0]
             new == [threads[w] EXCEPT !.pc = "prepare", !.number = n,
                                       !.item = orders[o].delivery_id]
  <2>1. /\ n <= AttemptCap
        /\ orders' = [orders EXCEPT ![o] = row]
        /\ pace' = [pace EXCEPT ![o] = step]
        /\ rows' = [rows EXCEPT ![o] = Append(rows[o], "started")]
        /\ threads' = [threads EXCEPT ![w] = new]
        /\ UNCHANGED <<g2g, bared>>
    BY <1>0, <1>1 DEF Begin, Types, Row, ThreadType
  <2>2. row \in Row /\ orders[o].delivery_id \in DeliveryIds \cup {Manual, Null}
    BY <1>0 DEF Row, DeliveryStatus
  <2>3. step \in PaceType
    BY <1>0, <2>1, DeliveryAssumption DEF PaceType
  <2>4. new \in ThreadType
    <3>1. n \in 0 .. AttemptCap
      BY <1>0, <2>1, DeliveryAssumption
    <3> HIDE DEF n
    <3> QED BY <1>0, <2>2, <3>1 DEF ThreadType
  <2>5. Append(rows[o], "started") \in Seq(Progress)
    BY <1>0 DEF Progress
  <2>6. Types'
    BY <1>0, <2>1, <2>2, <2>3, <2>4, <2>5 DEF Types
  <2>7. /\ new.pc = "prepare" /\ new.order = o /\ new.number = n
        /\ new.item = orders[o].delivery_id /\ new.age = threads[w].age
    BY <1>0 DEF ThreadType
  <2>11. step.attempts = n /\ step.age = 0
    OBVIOUS
  <2>8. pace'[o] = step /\ \A p \in OrderIds \ {o} : pace'[p] = pace[p]
    BY <1>0, <2>1 DEF Types
  <2>9. threads'[w] = new /\ \A v \in Threads \ {w} : threads'[v] = threads[v]
    BY <2>1 DEF Types
  <2>10. threads[w].pc = "queued"
    BY DEF Begin
  <2> HIDE DEF new, step
  <2>12. ClaimStep(w, o)
    BY <1>1, <2>1, <2>7, <2>8, <2>9, <2>10, <2>11 DEF ClaimStep
  <2> QED BY <2>6, <2>12
<1>2. CASE ~Eligible(o, threads[w].force)
  <2>1. threads' = [threads EXCEPT ![w] = Idle] /\ UNCHANGED <<orders, pace, rows, g2g, bared>>
    BY <1>2 DEF Begin
  <2>2. SideStep(w)
    BY <2>1, QuitStep
  <2> QED BY <2>1, <2>2 DEF Types, SideStep
<1> QED BY <1>1, <1>2

\* The calls of an attempt.
LEMMA CallsStep ==
  ASSUME Types, NEW w \in Threads, threads[w].order \in OrderIds, HonestDelivery,
         \/ Prepare(w) \/ PostAccepted(w) \/ PostAnswerLost(w)
         \/ PostRefused(w) \/ PostConflict(w) \/ Confirm(w)
  PROVE  Types' /\ CallStep(w)
<1> DEFINE o == threads[w].order
<1>0. threads[w] \in ThreadType
  BY DEF Types
<1>1. ASSUME NEW ok \in BOOLEAN, Outcome(w, ok)
      PROVE  /\ threads' \in [Threads -> ThreadType]
             /\ threads'[w].pc = "finish" /\ threads'[w].ok = ok
             /\ threads'[w].order = o /\ threads'[w].number = threads[w].number
             /\ threads'[w].age = threads[w].age /\ threads'[w].item = threads[w].item
             /\ \A v \in Threads \ {w} : threads'[v] = threads[v]
  <2> DEFINE new == [threads[w] EXCEPT !.pc = "finish", !.ok = ok]
  <2>1. /\ new \in ThreadType /\ new.pc = "finish" /\ new.ok = ok /\ new.order = o
        /\ new.number = threads[w].number /\ new.age = threads[w].age
        /\ new.item = threads[w].item
    BY <1>0 DEF ThreadType
  <2>2. threads' = [threads EXCEPT ![w] = new]
    BY <1>0, <1>1 DEF Outcome, ThreadType, Types
  <2> QED BY <2>1, <2>2 DEF Types
<1>2. CASE Prepare(w)
  <2>1. InFlight(w) /\ UNCHANGED <<orders, pace, rows, g2g, bared>>
    BY <1>2 DEF Prepare, InFlight
  <2>2. CASE Outcome(w, FALSE)
    BY <1>1, <2>1, <2>2 DEF Types, CallStep
  <2>3. ASSUME NEW d \in DeliveryIds,
               threads' = [threads EXCEPT ![w].pc = "post", ![w].item = d]
        PROVE  Types' /\ CallStep(w)
    <3> DEFINE new == [threads[w] EXCEPT !.pc = "post", !.item = d]
    <3>1. /\ new \in ThreadType /\ new.pc = "post" /\ new.order = o
          /\ new.number = threads[w].number /\ new.age = threads[w].age
          /\ new.item \in DeliveryIds
      BY <1>0 DEF ThreadType
    <3>2. threads' = [threads EXCEPT ![w] = new]
      BY <1>0, <2>3 DEF ThreadType, Types
    <3> QED BY <2>1, <3>1, <3>2 DEF Types, CallStep
  <2> QED BY <1>2, <2>2, <2>3 DEF Prepare
<1>3. CASE PostAccepted(w)
  <2>1. /\ InFlight(w) /\ UNCHANGED <<orders, pace, rows, bared>>
        /\ Outcome(w, TRUE)
    BY <1>3 DEF PostAccepted, InFlight
  <2>2. PICK s \in {"received", "delivered"} :
          g2g' = [g2g EXCEPT ![o] = IF g2g[o] = "none" THEN s ELSE g2g[o]]
    BY <1>3 DEF PostAccepted, Types
  <2>3. /\ g2g' \in [OrderIds -> {"none", "received", "delivered"}]
        /\ g2g'[o] # "none"
        /\ \A p \in OrderIds : g2g[p] # "none" => g2g'[p] # "none"
        /\ \A p \in OrderIds \ {o} : g2g'[p] = g2g[p]
    BY <2>2 DEF Types
  <2> QED BY <1>1, <2>1, <2>3 DEF Types, CallStep
<1>4. CASE PostAnswerLost(w)
  <2>1. /\ InFlight(w) /\ UNCHANGED <<orders, pace, rows, bared>>
        /\ Outcome(w, FALSE)
        /\ g2g' = [g2g EXCEPT ![o] = IF g2g[o] = "none" THEN "received" ELSE g2g[o]]
    BY <1>4 DEF PostAnswerLost, InFlight, Types
  <2>2. /\ g2g' \in [OrderIds -> {"none", "received", "delivered"}]
        /\ \A p \in OrderIds : g2g[p] # "none" => g2g'[p] # "none"
        /\ \A p \in OrderIds \ {o} : g2g'[p] = g2g[p]
    BY <2>1 DEF Types
  <2> QED BY <1>1, <2>1, <2>2 DEF Types, CallStep
<1>5. CASE PostRefused(w)
  BY <1>1, <1>5 DEF PostRefused, InFlight, Types, CallStep
<1>6. CASE PostConflict(w)
  <2> DEFINE new == [threads[w] EXCEPT !.pc = "confirm"]
  <2>1. /\ new \in ThreadType /\ new.pc = "confirm" /\ new.order = o
        /\ new.number = threads[w].number /\ new.age = threads[w].age
        /\ new.item = threads[w].item
    BY <1>0 DEF ThreadType
  <2>2. threads' = [threads EXCEPT ![w] = new]
    BY <1>0, <1>6 DEF PostConflict, Goto, ThreadType, Types
  <2> QED BY <1>6, <2>1, <2>2 DEF PostConflict, InFlight, Types, CallStep
<1>7. CASE Confirm(w)
  <2>1. PICK ok \in {FALSE, Complete(o)} : Outcome(w, ok)
    BY <1>7 DEF Confirm
  <2>2. ok \in BOOLEAN /\ (ok => g2g[o] # "none")
    BY <2>1 DEF Complete
  <2>3. InFlight(w) /\ UNCHANGED <<orders, pace, rows, g2g, bared>>
    BY <1>7 DEF Confirm, InFlight
  <2> QED BY <1>1, <2>1, <2>2, <2>3 DEF Types, CallStep
<1> QED BY <1>2, <1>3, <1>4, <1>5, <1>6, <1>7

\* _finish_delivery records the outcome of its own attempt.
LEMMA FinishesStep ==
  ASSUME Types, NEW w \in Threads, Finish(w), Busy(w),
         threads[w].number \in 1 .. Len(rows[threads[w].order]),
         Len(rows[threads[w].order]) = pace[threads[w].order].attempts
  PROVE  Types' /\ FinishStep(w, threads[w].order)
<1> DEFINE o == threads[w].order
           n == threads[w].number
<1>0. /\ o \in OrderIds /\ orders[o] \in Row /\ pace[o] \in PaceType
      /\ threads[w] \in ThreadType /\ rows[o] \in Seq(Progress)
      /\ n \in 1 .. Len(rows[o]) /\ Len(rows[o]) = pace[o].attempts
  BY DEF Types, Busy
<1>1. PICK ok \in {FALSE, threads[w].ok} :
        /\ orders' = [orders EXCEPT
             ![o].delivery_status = IF ok THEN "delivered" ELSE "failed",
             ![o].delivery_id = IF @ = Null THEN threads[w].item ELSE @]
        /\ pace' = [pace EXCEPT ![o].wait =
                      IF ok THEN 0 ELSE RetryDelay(pace[o].attempts)]
        /\ rows' = [rows EXCEPT ![o][n] = IF ok THEN "delivered" ELSE "failed"]
        /\ bared' = (bared \cup IF ok THEN {} ELSE OthersOn(o, w)) \ {w}
  BY DEF Finish
<1> DEFINE verdict == IF ok THEN "delivered" ELSE "failed"
           item == IF orders[o].delivery_id = Null THEN threads[w].item
                   ELSE orders[o].delivery_id
           row == [orders[o] EXCEPT !.delivery_status = verdict, !.delivery_id = item]
           wait == IF ok THEN 0 ELSE RetryDelay(pace[o].attempts)
           step == [pace[o] EXCEPT !.wait = wait]
           line == [rows[o] EXCEPT ![n] = verdict]
<1>2. ok \in BOOLEAN /\ verdict \in Progress /\ verdict \in DeliveryStatus
  BY <1>0 DEF Progress, DeliveryStatus, ThreadType
<1>3. item \in DeliveryIds \cup {Manual, Null}
  BY <1>0 DEF Row, ThreadType
<1>4. wait \in 0 .. MaxDelay
  <2>1. pace[o].attempts \in Nat \ {0}
    BY <1>0, DeliveryAssumption DEF PaceType
  <2>2. RetryDelay(pace[o].attempts) \in 0 .. MaxDelay
    BY <2>1, DelayType
  <2>3. 0 \in 0 .. MaxDelay
    BY DeliveryAssumption
  <2> QED BY <2>2, <2>3
<1>5. /\ row \in Row /\ row.delivery_status = verdict /\ row.status = orders[o].status
  <2> HIDE DEF verdict, item
  <2> QED BY <1>0, <1>2, <1>3 DEF Row
<1>6. /\ step \in PaceType /\ step.attempts = pace[o].attempts
      /\ step.age = pace[o].age
  <2> HIDE DEF wait
  <2> QED BY <1>0, <1>4 DEF PaceType
<1>7. line \in Seq(Progress)
  <2> HIDE DEF verdict
  <2> QED BY <1>0, <1>2
<1>8. orders' = [orders EXCEPT ![o] = row]
  <2>1. orders' = [orders EXCEPT ![o] = [orders[o] EXCEPT !.delivery_status = verdict,
                                                          !.delivery_id = item]]
    BY <1>0, <1>1 DEF Types, Row
  <2> QED BY <2>1
<1>9. pace' = [pace EXCEPT ![o] = step]
  BY <1>1
<1>10. rows' = [rows EXCEPT ![o] = line]
  BY <1>1
<1>11. threads' = [threads EXCEPT ![w] = Idle] /\ g2g' = g2g
  BY DEF Finish
<1>12. threads[w].pc = "finish"
  BY DEF Finish
<1> HIDE DEF row, step, line
<1>17. bared' \subseteq Threads
  BY <1>1 DEF OthersOn, Types
<1>13. Types'
  BY <1>17, <1>0, <1>5, <1>6, <1>7, <1>8, <1>9, <1>10, <1>11, IdleType DEF Types
<1>14. /\ orders'[o] = row /\ \A p \in OrderIds \ {o} : orders'[p] = orders[p]
       /\ pace'[o] = step /\ \A p \in OrderIds \ {o} : pace'[p] = pace[p]
       /\ threads'[w] = Idle /\ \A v \in Threads \ {w} : threads'[v] = threads[v]
  BY <1>0, <1>8, <1>9, <1>11 DEF Types
<1>15. \A p \in OrderIds : pace'[p].attempts = pace[p].attempts /\ pace'[p].age = pace[p].age
  BY <1>6, <1>14
<1>16. \E yes \in {FALSE, threads[w].ok} :
         /\ orders'[o] = Recorded(o, IF yes THEN "delivered" ELSE "failed", threads[w].item)
         /\ orders'[o].delivery_status = IF yes THEN "delivered" ELSE "failed"
         /\ rows' = [rows EXCEPT ![o] = [rows[o] EXCEPT ![n] =
                       IF yes THEN "delivered" ELSE "failed"]]
         /\ bared' = (bared \cup IF yes THEN {} ELSE OthersOn(o, w)) \ {w}
  <2>1. rows' = [rows EXCEPT ![o] = [rows[o] EXCEPT ![n] = IF ok THEN "delivered" ELSE "failed"]]
    BY <1>10 DEF line
  <2>2. orders'[o] = Recorded(o, verdict, threads[w].item)
    <3>1. row = [orders[o] EXCEPT !.delivery_status = verdict, !.delivery_id = item]
      BY DEF row
    <3>2. orders[o].delivery_id \in DeliveryIds \cup {Manual, Null}
      BY <1>0 DEF Row
    <3> HIDE DEF verdict
    <3> QED BY <1>0, <1>14, <3>1, <3>2 DEF Recorded, Row
  <2> QED BY <1>1, <2>1, <2>2, <1>5, <1>14
<1> QED BY <1>5, <1>11, <1>12, <1>13, <1>14, <1>15, <1>16 DEF FinishStep

\* What changes a row from outside an attempt: it stays, and its delivery
\* status too, unless it becomes "delivered" of a key the marketplace holds.
RowStep(o) ==
  /\ orders'[o] \in Row
  /\ \A p \in OrderIds \ {o} : orders'[p] = orders[p]
  /\ HasRow(o) => orders'[o].delivery_status \in {orders[o].delivery_status, "delivered"}
  /\ orders'[o].delivery_status = "delivered"
     => g2g[o] # "none" \/ orders[o].delivery_status = "delivered"
  /\ orders'[o].delivery_id = Manual
     => (HasRow(o) /\ orders[o].delivery_id = Manual) \/ orders'[o].delivery_status = "manual"
  /\ threads' # threads /\ orders' # orders
     => g2g[o] # "none" /\ orders' = [orders EXCEPT ![o].delivery_status = "delivered"]
  /\ \A p \in OrderIds : pace'[p].attempts = pace[p].attempts /\ pace'[p].age = pace[p].age
  /\ \A v \in Threads : threads'[v] = threads[v] \/ threads'[v] = Idle
  /\ UNCHANGED <<rows, g2g, bared>>

\* The steps of a reconciliation that only carry it on.
LEMMA ReconcilesStep ==
  ASSUME Types, NEW w \in Threads, Busy(w), Working(w),
         ReconcileAnswer(w) \/ ReconcileRead(w)
  PROVE  SideStep(w)
<1> DEFINE o == threads[w].order
<1>0. threads[w] \in ThreadType /\ o \in OrderIds /\ orders[o] \in Row
  BY DEF Types, Busy
<1>1. UNCHANGED <<orders, pace, rows, g2g, bared>>
  BY DEF ReconcileAnswer, ReconcileRead
<1>2. ASSUME NEW new \in ThreadType, new.pc \in {"read", "record"}, new.order = o,
             g2g[o] # "none", threads' = [threads EXCEPT ![w] = new]
      PROVE  SideStep(w)
  BY <1>0, <1>1, <1>2 DEF Types, SideStep, InFlight, Working
<1>3. CASE ReconcileAnswer(w)
  <2>1. CASE Complete(o)
    <3> DEFINE new == [threads[w] EXCEPT !.pc = "read"]
    <3>1. new \in ThreadType /\ new.pc = "read" /\ new.order = o
      BY <1>0 DEF ThreadType
    <3>2. threads' = [threads EXCEPT ![w] = new]
      BY <1>3, <2>1 DEF ReconcileAnswer, Goto
    <3>3. g2g[o] # "none"
      BY <2>1 DEF Complete
    <3> HIDE DEF new
    <3> QED BY <1>2, <3>1, <3>2, <3>3
  <2>2. CASE ~Complete(o)
    BY <1>1, <1>3, <2>2, QuitStep DEF ReconcileAnswer
  <2> QED BY <2>1, <2>2
<1>4. CASE ReconcileRead(w)
  <2> DEFINE new == [threads[w] EXCEPT !.pc = "record", !.seen = orders[o].delivery_status]
  <2>1. orders[o].delivery_status \in DeliveryStatus
    BY <1>0 DEF Row
  <2>2. new \in ThreadType /\ new.pc = "record" /\ new.order = o
    BY <1>0, <2>1 DEF ThreadType
  <2>3. threads' = [threads EXCEPT ![w] = new]
    BY <1>4 DEF ReconcileRead
  <2>4. g2g[o] # "none"
    BY <1>4 DEF ReconcileRead, Working
  <2> HIDE DEF new
  <2> QED BY <1>2, <2>2, <2>3, <2>4
<1> QED BY <1>3, <1>4

\* A reconciliation records a delivery, or finds it recorded.
LEMMA ReconcileWritesStep ==
  ASSUME Types, NEW w \in Threads, Busy(w), Working(w), HonestDelivery, ReconcileWrite(w)
  PROVE  Types' /\ RowStep(threads[w].order)
<1> DEFINE o == threads[w].order
           row == [orders[o] EXCEPT !.delivery_status = "delivered"]
           step == [pace[o] EXCEPT !.wait = 0]
<1>0. o \in OrderIds /\ orders[o] \in Row /\ pace[o] \in PaceType
  BY DEF Types, Busy
<1>1. /\ threads' = [threads EXCEPT ![w] = Idle]
      /\ UNCHANGED <<rows, g2g, bared>>
      /\ g2g[o] # "none"
  BY DEF ReconcileWrite, Working
<1>2. /\ threads' \in [Threads -> ThreadType]
      /\ \A v \in Threads : threads'[v] = threads[v] \/ threads'[v] = Idle
  BY <1>1, IdleType DEF Types
<1>3. CASE threads[w].seen = "delivered"
  <2>1. orders' = orders /\ pace' = pace
    BY <1>3 DEF ReconcileWrite
  <2>2. HasRow(o)
    BY <1>0 DEF HasRow, Row, RowStatus
  <2> QED BY <1>0, <1>1, <1>2, <2>1, <2>2 DEF Types, RowStep
<1>4. CASE threads[w].seen # "delivered"
  <2>1. orders' = [orders EXCEPT ![o] = row] /\ pace' = [pace EXCEPT ![o] = step]
    BY <1>4 DEF ReconcileWrite
  <2>2. /\ row \in Row /\ row.delivery_status = "delivered"
        /\ row.delivery_id = orders[o].delivery_id /\ HasRow(o)
    BY <1>0 DEF Row, RowStatus, DeliveryStatus, HasRow
  <2>7. orders' = [orders EXCEPT ![o].delivery_status = "delivered"]
    BY <1>4 DEF ReconcileWrite
  <2>3. step \in PaceType /\ step.attempts = pace[o].attempts /\ step.age = pace[o].age
    BY <1>0, DeliveryAssumption DEF PaceType
  <2> HIDE DEF row, step
  <2>4. /\ orders'[o] = row /\ \A p \in OrderIds \ {o} : orders'[p] = orders[p]
        /\ pace'[o] = step /\ \A p \in OrderIds \ {o} : pace'[p] = pace[p]
    BY <1>0, <2>1 DEF Types
  <2>5. Types'
    BY <1>0, <1>1, <1>2, <2>1, <2>2, <2>3 DEF Types
  <2>6. \A p \in OrderIds : pace'[p].attempts = pace[p].attempts /\ pace'[p].age = pace[p].age
    BY <2>3, <2>4
  <2> QED BY <1>1, <1>2, <2>2, <2>4, <2>5, <2>6, <2>7 DEF RowStep
<1> QED BY <1>3, <1>4

\* The webhooks and the portal.
LEMMA OutsideStep ==
  ASSUME Types, NEW o \in OrderIds, OrderArrives(o) \/ MessageArrives(o) \/ PortalStep(o)
  PROVE  Types' /\ RowStep(o)
<1>0. pace[o] \in PaceType /\ orders[o] \in Row \cup {NoRow} /\ OrdersTypeOK
  BY TypesAre DEF Types, DeliveryTypeOK
<1>1. UNCHANGED <<rows, threads, g2g, bared>>
  BY DEF OrderArrives, MessageArrives, PortalStep
<1>2. ASSUME NEW row \in Row, orders' = [orders EXCEPT ![o] = row]
      PROVE  /\ orders' \in [OrderIds -> Row \cup {NoRow}]
             /\ orders'[o] = row /\ \A p \in OrderIds \ {o} : orders'[p] = orders[p]
  BY <1>2 DEF Types
<1>3. CASE OrderArrives(o)
  <2>1. PICK row \in Purchased \cup {ByHand} : orders' = [orders EXCEPT ![o] = row]
    BY <1>3 DEF OrderArrives, RowArrives
  <2>2. /\ row \in Row /\ row.delivery_status # "delivered"
        /\ row.delivery_id = Manual => row.delivery_status = "manual"
    BY <2>1, TableAssumption DEF Purchased, ByHand, Row, RowStatus, DeliveryStatus
  <2>3. ~HasRow(o) /\ pace' = pace
    BY <1>3 DEF OrderArrives, RowArrives
  <2> QED BY <1>1, <1>2, <2>1, <2>2, <2>3 DEF Types, RowStep
<1>4. CASE MessageArrives(o)
  <2>1. PICK p \in Identities \cup {Null}, d \in DeliveryIds \cup {Null},
             s \in {orders[o].delivery_status, "delivered"} :
          orders' = [orders EXCEPT ![o].identity = IF @ = Null THEN p ELSE @,
                                   ![o].delivery_id = IF @ = Null THEN d ELSE @,
                                   ![o].delivery_status = s]
    BY <1>4 DEF MessageArrives, MessageChangesRow
  <2> DEFINE buyer == IF orders[o].identity = Null THEN p ELSE orders[o].identity
             item == IF orders[o].delivery_id = Null THEN d ELSE orders[o].delivery_id
             row == [orders[o] EXCEPT !.identity = buyer, !.delivery_id = item,
                                      !.delivery_status = s]
  <2>2. orders[o] \in Row /\ HasRow(o)
    BY <1>0, <1>4, RowOrNone DEF MessageArrives, MessageChangesRow
  <2>3. /\ buyer \in Identities \cup {Null}
        /\ item \in DeliveryIds \cup {Manual, Null}
        /\ item = Manual => orders[o].delivery_id = Manual
        /\ s \in DeliveryStatus
    BY <2>2, TableAssumption DEF Row, DeliveryStatus
  <2>4. orders' = [orders EXCEPT ![o] = row]
    <3>1. orders' = [orders EXCEPT ![o] = [orders[o] EXCEPT
                       !.identity = buyer, !.delivery_id = item, !.delivery_status = s]]
      BY <2>1, <2>2 DEF Types, Row
    <3> QED BY <3>1
  <2>5. row \in Row /\ row.delivery_status = s /\ row.delivery_id = item
    <3> HIDE DEF item, buyer
    <3> QED BY <2>2, <2>3 DEF Row
  <2> HIDE DEF row
  <2>6. orders'[o] = row
    BY <1>2, <2>4, <2>5
  <2>7. s # orders[o].delivery_status => g2g[o] # "none"
    BY <1>4, <2>5, <2>6 DEF MessageArrives, Complete
  <2>8. /\ pace' \in [OrderIds -> PaceType]
        /\ \A q \in OrderIds : pace'[q].attempts = pace[q].attempts /\ pace'[q].age = pace[q].age
    <3> DEFINE step == [pace[o] EXCEPT !.wait = 0]
    <3>1. step \in PaceType /\ step.attempts = pace[o].attempts /\ step.age = pace[o].age
      BY <1>0, DeliveryAssumption DEF PaceType
    <3>2. pace' = pace \/ pace' = [pace EXCEPT ![o] = step]
      BY <1>4 DEF MessageArrives
    <3> HIDE DEF step
    <3> QED BY <3>1, <3>2 DEF Types
  <2>9. s \in {orders[o].delivery_status, "delivered"}
    BY <2>1
  <2> QED BY <1>1, <1>2, <2>2, <2>3, <2>4, <2>5, <2>7, <2>8, <2>9 DEF Types, RowStep
<1>5. CASE PortalStep(o)
  <2>1. PICK s \in RowStatus : HasRow(o) /\ orders' = [orders EXCEPT ![o].status = s]
    BY <1>5 DEF PortalStep, PortalChangesStatus
  <2> DEFINE row == [orders[o] EXCEPT !.status = s]
  <2>2. orders[o] \in Row
    BY <1>0, <2>1, RowOrNone
  <2>3. /\ row \in Row /\ row.delivery_status = orders[o].delivery_status
        /\ row.delivery_id = orders[o].delivery_id
    BY <2>2 DEF Row
  <2>4. orders' = [orders EXCEPT ![o] = row] /\ pace' = pace
    BY <1>5, <2>1 DEF PortalStep
  <2> HIDE DEF row
  <2> QED BY <1>1, <1>2, <2>1, <2>3, <2>4 DEF Types, RowStep
<1> QED BY <1>3, <1>4, <1>5

\* Time passes.
LEMMA TimeStep ==
  ASSUME Types, Tick
  PROVE  /\ Types'
         /\ \A p \in OrderIds : /\ pace'[p].attempts = pace[p].attempts
                                /\ pace'[p].age = Older(pace[p].age)
         /\ \A w \in Threads :
              /\ InFlight(w)' <=> InFlight(w)
              /\ ~InFlight(w) => threads'[w] = threads[w]
              /\ InFlight(w) => threads'[w] = [threads[w] EXCEPT !.age = Older(threads[w].age)]
<1>1. \A a \in 0 .. StaleAge : Older(a) \in 0 .. StaleAge
  BY DeliveryAssumption DEF Older
<1>2. ASSUME NEW p \in OrderIds
      PROVE  /\ pace'[p] \in PaceType
             /\ pace'[p].attempts = pace[p].attempts
             /\ pace'[p].age = Older(pace[p].age)
  <2> DEFINE age == Older(pace[p].age)
             wait == IF pace[p].wait > 0 THEN pace[p].wait - 1 ELSE 0
  <2>1. pace[p] \in PaceType
    BY DEF Types
  <2>2. pace'[p] = [pace[p] EXCEPT !.age = age, !.wait = wait]
    BY <2>1 DEF Tick, PaceType
  <2>3. age \in 0 .. StaleAge /\ wait \in 0 .. MaxDelay
    BY <1>1, <2>1, DeliveryAssumption DEF PaceType
  <2> HIDE DEF age, wait
  <2>4. pace'[p] \in PaceType /\ pace'[p].attempts = pace[p].attempts /\ pace'[p].age = age
    BY <2>1, <2>2, <2>3 DEF PaceType
  <2> QED BY <2>4 DEF age
<1>3. ASSUME NEW w \in Threads
      PROVE  /\ threads'[w] \in ThreadType
             /\ InFlight(w)' <=> InFlight(w)
             /\ ~InFlight(w) => threads'[w] = threads[w]
             /\ InFlight(w) => threads'[w] = [threads[w] EXCEPT !.age = Older(threads[w].age)]
  <2> DEFINE age == Older(threads[w].age)
             new == [threads[w] EXCEPT !.age = age]
  <2>1. threads[w] \in ThreadType
    BY DEF Types
  <2>2. age \in 0 .. StaleAge
    BY <1>1, <2>1 DEF ThreadType
  <2>3. threads'[w] = IF InFlight(w) THEN new ELSE threads[w]
    BY DEF Tick
  <2> HIDE DEF age
  <2>4. new \in ThreadType /\ new.pc = threads[w].pc
    BY <2>1, <2>2 DEF ThreadType
  <2>5. threads'[w] \in ThreadType /\ threads'[w].pc = threads[w].pc
    BY <2>1, <2>3, <2>4
  <2> QED BY <2>3, <2>5 DEF InFlight, age
<1>4. Types'
  <2>1. pace' \in [OrderIds -> PaceType] /\ threads' \in [Threads -> ThreadType]
    <3>1. DOMAIN pace' = OrderIds /\ DOMAIN threads' = Threads
      BY DEF Tick
    <3>2. pace' = [p \in OrderIds |-> pace'[p]] /\ threads' = [w \in Threads |-> threads'[w]]
      BY DEF Tick
    <3> QED BY <1>2, <1>3, <3>2
  <2>2. UNCHANGED <<orders, rows, g2g>> /\ bared' \subseteq Threads
    BY DEF Tick, Types
  <2> QED BY <2>1, <2>2 DEF Types
<1> QED BY <1>2, <1>3, <1>4

\* The marketplace only gets further.
G2GStep ==
  /\ \A o \in OrderIds : g2g[o] # "none" <=> g2g'[o] # "none"
  /\ UNCHANGED <<orders, pace, rows, threads, bared>>

\* Every step is one of seven kinds, and keeps the types.
LEMMA StepKinds ==
  ASSUME DeliveryInv, DeliveryNext
  PROVE  /\ Types'
         /\ \/ \E w \in Threads :
                 \/ SideStep(w)
                 \/ /\ Busy(w)
                    /\ \/ ClaimStep(w, threads[w].order)
                       \/ CallStep(w)
                       \/ FinishStep(w, threads[w].order)
                 \/ Busy(w) /\ RowStep(threads[w].order)
            \/ \E o \in OrderIds : RowStep(o)
            \/ G2GStep
            \/ Tick
<1>0. Types /\ OrdersTypeOK /\ HonestDelivery /\ \A w \in Threads : Working(w)
  BY TypesAre DEF DeliveryInv, DeliveryTypeOK
<1>1. ASSUME NEW w \in Threads, SideStep(w)
      PROVE  Types'
  BY <1>0, <1>1 DEF SideStep, Types
<1>2. ASSUME NEW w \in Threads, NEW o \in OrderIds,
             Submit(w, o) \/ AdminRetry(w, o) \/ RetryDue(w, o)
      PROVE  SideStep(w)
  <2>1. PICK force \in BOOLEAN : Queue(w, o, force)
    BY <1>2 DEF Submit, AdminRetry, RetryDue
  <2>2. HasRow(o)
    BY <1>2 DEF Submit, AdminRetry, RetryDue, Due, HasRow
  <2> DEFINE new == [Idle EXCEPT !.pc = "queued", !.order = o, !.force = force]
  <2>3. new \in ThreadType /\ new.pc = "queued" /\ new.order = o /\ new.age = 0
    BY IdleType DEF ThreadType
  <2>4. threads' = [threads EXCEPT ![w] = new] /\ UNCHANGED <<orders, pace, rows, g2g, bared>>
    BY <2>1 DEF Queue
  <2> HIDE DEF new
  <2> QED BY <1>0, <2>2, <2>3, <2>4, StartStep
<1>3. ASSUME NEW w \in Threads, NEW o \in OrderIds, ReconcileAsk(w, o)
      PROVE  SideStep(w)
  <2> DEFINE new == [Idle EXCEPT !.pc = "ask", !.order = o]
  <2>1. new \in ThreadType /\ new.pc = "ask" /\ new.order = o /\ new.age = 0
    BY IdleType DEF ThreadType
  <2>2. /\ HasRow(o) /\ UNCHANGED <<orders, pace, rows, g2g, bared>>
        /\ threads' = [threads EXCEPT ![w] = new]
    BY <1>3 DEF ReconcileAsk
  <2> HIDE DEF new
  <2> QED BY <1>0, <2>1, <2>2, StartStep
<1>4. ASSUME NEW w \in Threads, threads[w].pc # "idle"
      PROVE  Busy(w)
  BY <1>0, <1>4 DEF Working, Busy
<1>5. ASSUME NEW w \in Threads, Begin(w)
      PROVE  Types' /\ Busy(w) /\ (ClaimStep(w, threads[w].order) \/ SideStep(w))
  <2>1. Busy(w)
    BY <1>4, <1>5 DEF Begin
  <2> QED BY <1>0, <1>5, <2>1, BeginStep
<1>6. ASSUME NEW w \in Threads,
             \/ Prepare(w) \/ PostAccepted(w) \/ PostAnswerLost(w)
             \/ PostRefused(w) \/ PostConflict(w) \/ Confirm(w)
      PROVE  Types' /\ Busy(w) /\ CallStep(w)
  <2>1. Busy(w)
    BY <1>4, <1>6 DEF Prepare, PostAccepted, PostAnswerLost, PostRefused, PostConflict, Confirm
  <2> QED BY <1>0, <1>6, <2>1, CallsStep DEF Busy
<1>7. ASSUME NEW w \in Threads, Finish(w)
      PROVE  Types' /\ Busy(w) /\ FinishStep(w, threads[w].order)
  <2>1. Busy(w)
    BY <1>4, <1>7 DEF Finish
  <2>2. /\ threads[w].number \in 1 .. Len(rows[threads[w].order])
        /\ Len(rows[threads[w].order]) = pace[threads[w].order].attempts
    BY <1>0, <1>7, <2>1 DEF Finish, Working, InFlight, Busy, DeliveryInv, Numbered
  <2> QED BY <1>0, <1>7, <2>1, <2>2, FinishesStep
<1>8. ASSUME NEW w \in Threads, Reconcile(w)
      PROVE  Types' /\ (SideStep(w) \/ (Busy(w) /\ RowStep(threads[w].order)))
  <2>1. CASE \E o \in OrderIds : ReconcileAsk(w, o)
    BY <1>1, <1>3, <2>1
  <2>2. CASE ReconcileAnswer(w) \/ ReconcileRead(w)
    <3>1. Busy(w)
      BY <1>4, <2>2 DEF ReconcileAnswer, ReconcileRead
    <3> QED BY <1>0, <1>1, <2>2, <3>1, ReconcilesStep
  <2>3. CASE ReconcileWrite(w)
    <3>1. Busy(w)
      BY <1>4, <2>3 DEF ReconcileWrite
    <3> QED BY <1>0, <2>3, <3>1, ReconcileWritesStep
  <2> QED BY <1>8, <2>1, <2>2, <2>3 DEF Reconcile
<1>9. ASSUME NEW w \in Threads, Crash(w)
      PROVE  SideStep(w)
  BY <1>0, <1>9, QuitStep DEF Crash
<1>10. ASSUME NEW o \in OrderIds, OrderArrives(o) \/ MessageArrives(o) \/ PortalStep(o)
       PROVE  Types' /\ RowStep(o)
  BY <1>0, <1>10, OutsideStep
<1>11. ASSUME NEW o \in OrderIds, G2GCompletes(o)
       PROVE  Types' /\ G2GStep
  BY <1>0, <1>11 DEF G2GCompletes, Types, G2GStep
<1>12. ASSUME Tick
       PROVE  Types'
  BY <1>0, <1>12, TimeStep
<1> QED BY <1>1, <1>2, <1>5, <1>6, <1>7, <1>8, <1>9, <1>10, <1>11, <1>12
        DEF DeliveryNext, Attempt

----------------------------------------------------------------------------
(* Each kind of step preserves the invariant.                              *)

\* What the invariant says besides the types.
Sound ==
  /\ Numbered
  /\ \A w \in Threads : Working(w)
  /\ HonestDelivery
  /\ Claimed
  /\ OneAttemptAtATime
  /\ HandsOff

\* A thread that stops, is queued or reconciles disturbs no attempt.
LEMMA SideSound ==
  ASSUME Types, Sound, NEW w \in Threads, SideStep(w)
  PROVE  Sound'
<1>1. Numbered' /\ HonestDelivery'
  BY DEF Sound, SideStep, Numbered, HonestDelivery
<1>2. \A v \in Threads : Working(v)'
  BY DEF Sound, SideStep, Working, InFlight
<1>3. \A v \in Threads : InFlight(v)' => v # w /\ InFlight(v) /\ threads'[v] = threads[v]
  BY DEF SideStep, InFlight
<1>4. Claimed' /\ OneAttemptAtATime'
  BY <1>3 DEF Sound, SideStep, Claimed, Live, OneAttemptAtATime, Settled
<1>5. HandsOff'
  BY <1>3 DEF Sound, SideStep, HandsOff, HasRow
<1> QED BY <1>1, <1>2, <1>4, <1>5 DEF Sound

\* A claim is made only when no attempt that counts is under way: an order
\* under a live attempt is settled or freshly claimed, so not eligible.
LEMMA ClaimSound ==
  ASSUME Types, Sound, NEW w \in Threads, Busy(w), ClaimStep(w, threads[w].order), Types'
  PROVE  Sound'
<1> DEFINE o == threads[w].order
<1>0. /\ o \in OrderIds /\ rows[o] \in Seq(Progress) /\ orders[o] \in Row
      /\ Len(rows[o]) = pace[o].attempts
      /\ threads[w].age = 0 /\ threads'[w].age = 0
  BY DEF Busy, Types, Sound, Numbered, Working, ClaimStep
<1>1. /\ orders'[o].delivery_status = "delivering"
      /\ \A p \in OrderIds \ {o} : orders'[p] = orders[p]
      /\ orders'[o] \in Row
  BY <1>0 DEF ClaimStep, Types, Row, DeliveryStatus
<1>2. /\ rows'[o] = Append(rows[o], "started")
      /\ \A p \in OrderIds \ {o} : rows'[p] = rows[p]
      /\ Len(rows'[o]) = Len(rows[o]) + 1
      /\ rows'[o][Len(rows[o]) + 1] = "started"
      /\ \A n \in 1 .. Len(rows[o]) : rows'[o][n] = rows[o][n]
  <2>1. /\ rows'[o] = Append(rows[o], "started")
        /\ \A p \in OrderIds \ {o} : rows'[p] = rows[p]
    BY <1>0 DEF ClaimStep, Types
  <2>2. PICK s \in Seq(Progress) : s = rows[o]
    BY <1>0
  <2>3. /\ Len(Append(s, "started")) = Len(s) + 1
        /\ Append(s, "started")[Len(s) + 1] = "started"
        /\ \A n \in 1 .. Len(s) : Append(s, "started")[n] = s[n]
    OBVIOUS
  <2> QED BY <2>1, <2>2, <2>3
<1>3. Numbered'
  <2>1. Len(rows'[o]) = pace'[o].attempts
    BY <1>0, <1>2 DEF ClaimStep
  <2>2. \A p \in OrderIds \ {o} : Len(rows'[p]) = pace'[p].attempts
    BY <1>2 DEF Sound, Numbered, ClaimStep
  <2> QED BY <2>1, <2>2 DEF Numbered
<1>4. ASSUME NEW v \in Threads
      PROVE  Working(v)'
  <2>1. CASE v = w
    <3>1. Len(rows[o]) \in Nat
      BY <1>0
    <3>2. /\ threads'[v].pc = "prepare" /\ threads'[v].order = o
          /\ threads'[v].number = Len(rows[o]) + 1
      BY <1>0, <2>1 DEF ClaimStep
    <3>3. threads'[v].number \in 1 .. Len(rows'[o])
      BY <1>2, <3>1, <3>2
    <3> QED BY <1>0, <1>1, <3>2, <3>3 DEF Working, InFlight
  <2>2. CASE v # w
    <3>1. threads'[v] = threads[v] /\ Working(v)
      BY <2>2 DEF ClaimStep, Sound
    <3> DEFINE p == threads[v].order
    <3>2. threads[v].pc # "idle" => p \in OrderIds /\ orders'[p] \in Row
      BY <1>1, <3>1 DEF Working
    <3>3. InFlight(v) => threads[v].number \in 1 .. Len(rows'[p])
      <4>1. Len(rows[o]) \in Nat
        BY <1>0
      <4>2. InFlight(v) => p \in OrderIds /\ threads[v].number \in 1 .. Len(rows[p])
        BY <3>1 DEF Working, InFlight
      <4>3. CASE p = o
        BY <1>2, <4>1, <4>2, <4>3
      <4>4. CASE p # o
        BY <1>2, <4>2, <4>4
      <4> QED BY <4>3, <4>4
    <3>4. g2g' = g2g
      BY DEF ClaimStep
    <3> QED BY <3>1, <3>2, <3>3, <3>4 DEF Working, InFlight
  <2> QED BY <2>1, <2>2
<1>5. HonestDelivery'
  <2>1. g2g' = g2g
    BY DEF ClaimStep
  <2>2. ASSUME NEW p \in OrderIds
        PROVE  orders'[p].delivery_status = "delivered" => g2g[p] # "none"
    BY <1>1 DEF Sound, HonestDelivery
  <2>3. ASSUME NEW p \in OrderIds, NEW n \in 1 .. Len(rows'[p]), rows'[p][n] = "delivered"
        PROVE  g2g[p] # "none"
    <3>1. CASE p = o
      <4>1. n \in 1 .. Len(rows[o])
        <5>1. Len(rows[o]) \in Nat
          BY <1>0
        <5>2. n \in 1 .. Len(rows[o]) + 1
          BY <1>2, <2>3, <3>1
        <5>3. n # Len(rows[o]) + 1
          BY <1>2, <2>3, <3>1
        <5> QED BY <5>1, <5>2, <5>3
      <4> QED BY <1>2, <2>3, <3>1, <4>1 DEF Sound, HonestDelivery
    <3>2. CASE p # o
      BY <1>2, <2>3, <3>2 DEF Sound, HonestDelivery
    <3> QED BY <3>1, <3>2
  <2> QED BY <2>1, <2>2, <2>3 DEF HonestDelivery
<1>6. ASSUME NEW v \in Threads, v # w, InFlight(v), threads[v].order = o
      PROVE  ~Live(v)
  <2>1. threads[v] \in ThreadType /\ ~Settled(o) /\ ~Fresh(o)
    BY DEF Types, ClaimStep, Eligible
  <2> QED BY <1>6, <2>1, DeliveryAssumption DEF Sound, Claimed, Live, Fresh, ThreadType
<1>7. \A v \in Threads \ {w} : threads'[v] = threads[v] /\ (InFlight(v)' <=> InFlight(v))
  BY DEF ClaimStep, InFlight
<1>8. Claimed'
  <2>1. bared' = bared
    BY DEF ClaimStep
  <2>2. threads'[w].order = o /\ pace'[o].age = threads'[w].age
    BY <1>0, <2>1 DEF ClaimStep
  <2>3. ASSUME NEW v \in Threads \ {w}, Live(v)
        PROVE  /\ threads[v].order \in OrderIds /\ threads[v].order # o
               /\ orders'[threads[v].order] = orders[threads[v].order]
               /\ pace'[threads[v].order] = pace[threads[v].order]
    <3>1. threads[v].order \in OrderIds
      BY <2>3 DEF Sound, Working, InFlight, Live
    <3> QED BY <1>1, <1>6, <2>3, <3>1 DEF ClaimStep, Live
  <2>4. ASSUME NEW v \in Threads, Live(v)'
        PROVE  \/ Settled(threads[v].order)'
               \/ /\ orders'[threads'[v].order].delivery_status = "delivering"
                  /\ pace'[threads'[v].order].age = threads'[v].age
    <3>1. CASE v = w
      BY <1>1, <2>2, <3>1
    <3>2. CASE v # w
      BY <1>7, <2>1, <2>3, <2>4, <3>2 DEF Sound, Claimed, Live, Settled
    <3> QED BY <3>1, <3>2
  <2>5. ASSUME NEW v \in Threads
        PROVE  threads'[v].order = threads[v].order
    BY DEF ClaimStep
  <2> QED BY <2>4, <2>5 DEF Claimed, Settled
<1>9. OneAttemptAtATime'
  BY <1>6, <1>7 DEF Sound, OneAttemptAtATime, ClaimStep, Live
<1>10. HandsOff'
  <2>1. orders[o].delivery_status # "manual" /\ orders[o].delivery_id # Manual
    BY <1>0 DEF ClaimStep, Eligible, Settled, Sound, HandsOff
  <2>2. orders'[o].delivery_id = orders[o].delivery_id /\ orders'[o].status # "none"
    BY <1>0, <1>1 DEF ClaimStep, Types, Row, RowStatus
  <2>3. threads'[w].order = o /\ threads'[w].item # Manual /\ g2g' = g2g
    BY <2>1 DEF ClaimStep
  <2> QED BY <1>1, <1>7, <2>1, <2>2, <2>3 DEF Sound, HandsOff, HasRow
<1> QED BY <1>3, <1>4, <1>5, <1>8, <1>9, <1>10 DEF Sound

\* The calls between the transactions touch neither rows nor claims.
LEMMA CallSound ==
  ASSUME Types, Sound, NEW w \in Threads, Busy(w), CallStep(w)
  PROVE  Sound'
<1>1. Numbered' /\ HonestDelivery'
  BY DEF Sound, CallStep, Numbered, HonestDelivery
<1>2. \A v \in Threads : Working(v)'
  <2>1. Working(w)'
    BY DEF Sound, CallStep, Working, InFlight
  <2>2. ASSUME NEW v \in Threads \ {w}
        PROVE  Working(v)'
    BY DEF Sound, CallStep, Working, InFlight
  <2> QED BY <2>1, <2>2
<1>3. \A v \in Threads : /\ InFlight(v)' => InFlight(v)
                         /\ threads'[v].order = threads[v].order
                         /\ threads'[v].age = threads[v].age
  BY DEF CallStep, InFlight
<1>4. Claimed' /\ OneAttemptAtATime'
  BY <1>3 DEF Sound, CallStep, Claimed, Live, OneAttemptAtATime, Settled
<1>5. HandsOff'
  <2>1. InFlight(w) /\ orders' = orders
    BY DEF CallStep
  <2>2. \A v \in Threads : InFlight(v)' => threads'[v].item # Manual
    BY <1>3, TableAssumption DEF Sound, HandsOff, CallStep
  <2>3. ASSUME NEW o \in OrderIds, ~HasRow(o) \/ orders[o].delivery_status = "manual"
        PROVE  g2g'[o] = "none" /\ \A v \in Threads : InFlight(v)' => threads'[v].order # o
    <3>1. threads[w].order # o
      BY <2>1, <2>3 DEF Sound, HandsOff
    <3> QED BY <1>3, <2>3, <3>1 DEF Sound, HandsOff, CallStep
  <2> QED BY <2>1, <2>2, <2>3 DEF Sound, HandsOff, HasRow
<1> QED BY <1>1, <1>2, <1>4, <1>5 DEF Sound

\* An outcome is recorded over another attempt's claim only as a delivery, or
\* that attempt is not live any more.
LEMMA FinishSound ==
  ASSUME Types, Sound, NEW w \in Threads, Busy(w), FinishStep(w, threads[w].order), Types'
  PROVE  Sound'
<1> DEFINE o == threads[w].order
           k == threads[w].number
<1>0. /\ o \in OrderIds /\ rows[o] \in Seq(Progress) /\ Len(rows[o]) = pace[o].attempts
      /\ orders'[o] \in Row \cup {NoRow} /\ orders'[o].status = orders[o].status
      /\ orders[o] \in Row
      /\ k \in 1 .. Len(rows[o])
  BY DEF Busy, Types, Sound, Numbered, Working, InFlight, FinishStep
<1>1. orders'[o] \in Row
  BY <1>0 DEF Row, NoRow, RowStatus
<1>2. PICK ok \in {FALSE, threads[w].ok} :
        /\ orders'[o].delivery_status = IF ok THEN "delivered" ELSE "failed"
        /\ rows' = [rows EXCEPT ![o] = [rows[o] EXCEPT ![k] =
                      IF ok THEN "delivered" ELSE "failed"]]
        /\ bared' = (bared \cup IF ok THEN {} ELSE OthersOn(o, w)) \ {w}
  BY DEF FinishStep
<1>3. ok => g2g[o] # "none"
  BY DEF Sound, Working, FinishStep
<1>4. /\ \A p \in OrderIds \ {o} : rows'[p] = rows[p] /\ orders'[p] = orders[p]
      /\ \A p \in OrderIds : Len(rows'[p]) = Len(rows[p])
      /\ \A n \in 1 .. Len(rows[o]) :
           rows'[o][n] = IF n = k THEN IF ok THEN "delivered" ELSE "failed" ELSE rows[o][n]
  BY <1>0, <1>2 DEF FinishStep, Types
<1>5. g2g' = g2g
  BY DEF FinishStep
<1>6. threads'[w].pc = "idle" /\ \A v \in Threads \ {w} : threads'[v] = threads[v]
  BY IdleType DEF FinishStep
<1>7. Numbered'
  BY <1>4 DEF Sound, Numbered, FinishStep
<1>8. \A v \in Threads : Working(v)'
  BY <1>1, <1>4, <1>5, <1>6 DEF Sound, Working, InFlight
<1>9. HonestDelivery'
  <2>1. ASSUME NEW p \in OrderIds, orders'[p].delivery_status = "delivered"
        PROVE  g2g[p] # "none"
    BY <1>2, <1>3, <1>4, <2>1 DEF Sound, HonestDelivery
  <2>2. ASSUME NEW p \in OrderIds, NEW n \in 1 .. Len(rows'[p]), rows'[p][n] = "delivered"
        PROVE  g2g[p] # "none"
    BY <1>3, <1>4, <2>2 DEF Sound, HonestDelivery
  <2> QED BY <1>5, <2>1, <2>2 DEF HonestDelivery
<1>10. OneAttemptAtATime'
  BY <1>2, <1>6 DEF Sound, OneAttemptAtATime, InFlight
<1>11. Claimed'
  <2>1. ASSUME NEW v \in Threads, Live(v)'
        PROVE  /\ Live(v) /\ threads'[v] = threads[v]
               /\ threads[v].order \in OrderIds
               /\ threads[v].order = o => orders'[o].delivery_status = "delivered"
    <3>1. v # w /\ InFlight(v) /\ threads'[v] = threads[v]
      BY <1>6, <2>1 DEF InFlight, Live
    <3>2. v \notin bared /\ (threads[v].order = o => ok)
      BY <1>2, <2>1, <3>1 DEF Live, OthersOn
    <3>3. threads[v].order \in OrderIds
      BY <3>1 DEF Sound, Working, InFlight
    <3>4. Live(v)
      BY <2>1, <3>1, <3>2 DEF Live
    <3> QED BY <1>2, <3>1, <3>2, <3>3, <3>4
  <2>2. \A p \in OrderIds : pace'[p].age = pace[p].age
    BY DEF FinishStep
  <2>3. ASSUME NEW v \in Threads, Live(v)',
               orders'[threads[v].order].delivery_status \notin {"delivered", "manual"}
        PROVE  /\ orders'[threads[v].order].delivery_status = "delivering"
               /\ pace'[threads[v].order].age = threads[v].age
    <3>1. Live(v) /\ threads[v].order \in OrderIds \ {o}
      BY <2>1, <2>3
    <3>2. orders'[threads[v].order] = orders[threads[v].order]
      BY <1>4, <3>1
    <3> QED BY <2>2, <2>3, <3>1, <3>2 DEF Sound, Claimed, Settled
  <2> QED BY <2>1, <2>3 DEF Claimed, Settled
<1>12. HandsOff'
  <2>1. InFlight(w)
    BY DEF FinishStep, InFlight
  <2>2. threads[w].item # Manual /\ orders[o].delivery_status # "manual"
        /\ orders[o].delivery_id # Manual
    BY <1>0, <2>1 DEF Sound, HandsOff
  <2>3. orders'[o].delivery_status # "manual" /\ orders'[o].delivery_id # Manual
    <3>1. PICK verdict \in {"delivered", "failed"} :
            orders'[o] = Recorded(o, verdict, threads[w].item)
      BY DEF FinishStep
    <3>2. orders'[o].delivery_id \in {orders[o].delivery_id, threads[w].item}
      BY <1>0, <3>1 DEF Recorded, Row
    <3> QED BY <1>2, <2>2, <3>2
  <2>4. orders'[o].status # "none" /\ \A p \in OrderIds \ {o} : orders'[p] = orders[p]
    BY <1>1, <1>4 DEF Row, RowStatus
  <2>5. \A v \in Threads : InFlight(v)' => InFlight(v) /\ threads'[v] = threads[v]
    BY <1>6 DEF InFlight
  <2> QED BY <1>2, <1>5, <2>3, <2>4, <2>5 DEF Sound, HandsOff, HasRow
<1> QED BY <1>7, <1>8, <1>9, <1>10, <1>11, <1>12 DEF Sound

\* Webhooks, portal and reconciliation keep a claim or settle the order.
LEMMA RowSound ==
  ASSUME Types, Sound, NEW o \in OrderIds, RowStep(o), Types'
  PROVE  Sound'
<1>1. \A v \in Threads : threads'[v] = threads[v] \/ threads'[v].pc = "idle"
  BY IdleType DEF RowStep
<1>2. \A v \in Threads : threads'[v].pc # "idle" => threads'[v] = threads[v]
  BY <1>1
<1>3. Numbered'
  BY DEF Sound, Numbered, RowStep
<1>4. \A v \in Threads : Working(v)'
  BY <1>2 DEF Sound, Working, InFlight, RowStep
<1>5. HonestDelivery'
  BY DEF Sound, HonestDelivery, RowStep
<1>6. OneAttemptAtATime'
  BY <1>2 DEF Sound, OneAttemptAtATime, InFlight, RowStep
<1>7. ASSUME NEW v \in Threads, Live(v)'
      PROVE  /\ threads'[v] = threads[v] /\ Live(v)
             /\ threads[v].order \in OrderIds
             /\ orders'[threads[v].order].delivery_status
                \in {orders[threads[v].order].delivery_status, "delivered"}
             /\ pace'[threads[v].order].age = pace[threads[v].order].age
  <2>1. threads'[v] = threads[v] /\ Live(v)
    BY <1>2, <1>7 DEF InFlight, Live, RowStep
  <2>2. threads[v].order \in OrderIds /\ orders[threads[v].order] \in Row
    BY <2>1 DEF Sound, Working, InFlight, Live
  <2>3. HasRow(threads[v].order)
    BY <2>2 DEF HasRow, Row, RowStatus
  <2> QED BY <2>1, <2>2, <2>3 DEF RowStep
<1>8. Claimed'
  BY <1>7 DEF Sound, Claimed, Settled
<1>9. HandsOff'
  <2>1. \A v \in Threads : InFlight(v)' => InFlight(v) /\ threads'[v] = threads[v]
    BY <1>2 DEF InFlight
  <2>2. g2g' = g2g /\ \A p \in OrderIds \ {o} : orders'[p] = orders[p]
    BY DEF RowStep
  <2>3. ASSUME orders'[o].delivery_id = Manual
        PROVE  orders'[o].delivery_status = "manual"
    <3>1. CASE HasRow(o) /\ orders[o].delivery_id = Manual
      <4>1. orders[o].delivery_status = "manual" /\ g2g[o] = "none"
        BY <3>1 DEF Sound, HandsOff
      <4> QED BY <3>1, <4>1 DEF RowStep
    <3> QED BY <2>3, <3>1 DEF RowStep
  <2>4. ASSUME orders'[o].delivery_status = "manual"
        PROVE  ~HasRow(o) \/ orders[o].delivery_status = "manual"
    BY <2>4 DEF RowStep
  <2>5. HasRow(o)'
    BY DEF RowStep, HasRow, Row, RowStatus
  <2>6. \A p \in OrderIds \ {o} : HasRow(p)' = HasRow(p)
    BY <2>2 DEF HasRow
  <2> QED BY <2>1, <2>2, <2>3, <2>4, <2>5, <2>6 DEF Sound, HandsOff
<1> QED BY <1>3, <1>4, <1>5, <1>6, <1>8, <1>9 DEF Sound

\* The marketplace does not forget a key.
LEMMA G2GSound ==
  ASSUME Types, Sound, G2GStep
  PROVE  Sound'
<1>1. Numbered' /\ HonestDelivery' /\ Claimed' /\ OneAttemptAtATime'
  BY DEF Sound, G2GStep, Numbered, HonestDelivery, Claimed, Live, OneAttemptAtATime,
         Settled, InFlight
<1>2. \A v \in Threads : Working(v)'
  BY DEF Sound, Working, InFlight, G2GStep
<1>3. HandsOff'
  BY DEF Sound, HandsOff, G2GStep, HasRow, InFlight
<1> QED BY <1>1, <1>2, <1>3 DEF Sound

\* A claim and the attempt that made it age together.
LEMMA TickSound ==
  ASSUME Types, Sound, Tick
  PROVE  Sound'
<1>1. UNCHANGED <<orders, rows, g2g>>
  BY DEF Tick
<1>2. \A p \in OrderIds : /\ pace'[p].attempts = pace[p].attempts
                         /\ pace'[p].age = Older(pace[p].age)
  BY TimeStep
<1>3. ASSUME NEW w \in Threads
      PROVE  /\ InFlight(w)' <=> InFlight(w)
             /\ threads'[w].pc = threads[w].pc
             /\ threads'[w].order = threads[w].order
             /\ threads'[w].number = threads[w].number
             /\ threads'[w].ok = threads[w].ok
             /\ threads'[w].item = threads[w].item
             /\ threads'[w].age = IF InFlight(w) THEN Older(threads[w].age) ELSE threads[w].age
  <2>1. threads[w] \in ThreadType
    BY DEF Types
  <2>2. CASE InFlight(w)
    <3>1. threads'[w] = [threads[w] EXCEPT !.age = Older(threads[w].age)]
          /\ (InFlight(w)' <=> InFlight(w))
      BY <2>2, TimeStep
    <3> DEFINE age == Older(threads[w].age)
    <3> HIDE DEF age
    <3>2. threads'[w] = [threads[w] EXCEPT !.age = age]
      BY <3>1 DEF age
    <3>3. /\ threads'[w].pc = threads[w].pc /\ threads'[w].order = threads[w].order
          /\ threads'[w].number = threads[w].number /\ threads'[w].ok = threads[w].ok
          /\ threads'[w].item = threads[w].item /\ threads'[w].age = age
      BY <2>1, <3>2 DEF ThreadType
    <3> QED BY <2>2, <3>1, <3>3 DEF age
  <2>3. CASE ~InFlight(w)
    BY <2>3, TimeStep
  <2> QED BY <2>2, <2>3
<1>4. Numbered' /\ HonestDelivery'
  BY <1>1, <1>2 DEF Sound, Numbered, HonestDelivery
<1>5. \A v \in Threads : Working(v)'
  BY <1>1, <1>3 DEF Sound, Working, InFlight
<1>6. bared' = bared
  BY DEF Tick
<1>7. ASSUME NEW v \in Threads, InFlight(v), threads[v].age = StaleAge
      PROVE  threads'[v].age = StaleAge
  BY <1>3, <1>7, DeliveryAssumption DEF Older
<1>11. OneAttemptAtATime'
  BY <1>3, <1>6, <1>7 DEF Sound, OneAttemptAtATime
<1>8. ASSUME NEW v \in Threads, Live(v)'
      PROVE  \/ Settled(threads[v].order)
             \/ /\ orders[threads[v].order].delivery_status = "delivering"
                /\ pace'[threads[v].order].age = threads'[v].age
  <2>1. Live(v)
    BY <1>3, <1>6, <1>7, <1>8 DEF Live
  <2>2. threads[v].order \in OrderIds /\ InFlight(v)
    BY <2>1 DEF Sound, Working, InFlight, Live
  <2>3. pace[threads[v].order].age = threads[v].age
        => pace'[threads[v].order].age = threads'[v].age
    BY <1>2, <1>3, <2>2
  <2> QED BY <2>1, <2>3 DEF Sound, Claimed
<1>9. Claimed'
  BY <1>1, <1>3, <1>8 DEF Claimed, Settled
<1>10. HandsOff'
  BY <1>1, <1>3 DEF Sound, HandsOff, HasRow
<1> QED BY <1>4, <1>5, <1>9, <1>10, <1>11 DEF Sound

\* The invariant is preserved.
LEMMA DeliveryStepInv == DeliveryInv /\ [DeliveryNext]_deliveryVars => DeliveryInv'
<1> SUFFICES ASSUME DeliveryInv, [DeliveryNext]_deliveryVars PROVE DeliveryInv'
  OBVIOUS
<1>0. Types /\ Sound
  BY TypesAre DEF DeliveryInv, Sound
<1>1. CASE DeliveryNext
  <2>1. Types'
    BY <1>1, StepKinds
  <2>2. Sound'
    <3>1. \A w \in Threads : Busy(w) => threads[w].order \in OrderIds
      BY DEF Busy
    <3> QED BY <1>0, <1>1, <2>1, <3>1, StepKinds, SideSound, ClaimSound, CallSound,
               FinishSound, RowSound, G2GSound, TickSound
  <2>3. DeliveryTypeOK'
    BY <2>1 DEF DeliveryTypeOK, OrdersTypeOK, Types, PaceType, Progress, ThreadType
  <2> QED BY <2>2, <2>3 DEF DeliveryInv, Sound
<1>2. CASE UNCHANGED deliveryVars
  <2>1. Types' /\ Numbered' /\ (\A w \in Threads : Working(w)') /\ HonestDelivery'
    BY <1>0, <1>2 DEF deliveryVars, Types, Sound, Numbered, Working, InFlight, HonestDelivery
  <2>2. Claimed' /\ OneAttemptAtATime'
    BY <1>0, <1>2 DEF deliveryVars, Sound, Claimed, Live, OneAttemptAtATime, InFlight, Settled
  <2>3. DeliveryTypeOK'
    BY <2>1 DEF DeliveryTypeOK, OrdersTypeOK, Types, PaceType, Progress, ThreadType
  <2>4. HandsOff'
    BY <1>0, <1>2 DEF deliveryVars, Sound, HandsOff, HasRow, InFlight
  <2> QED BY <2>1, <2>2, <2>3, <2>4 DEF DeliveryInv
<1> QED BY <1>1, <1>2

----------------------------------------------------------------------------

\* The invariant holds for any number of orders, threads and cron processes.
THEOREM DeliveryInvariant == DeliverySpec => []DeliveryInv
<1> QED BY DeliveryInitInv, DeliveryStepInv, PTL DEF DeliverySpec

\* The state of attempts, rows and threads stays within its types and bounds.
THEOREM DeliveryTypeCorrect == DeliverySpec => []DeliveryTypeOK
<1>1. DeliveryInv => DeliveryTypeOK
  BY DEF DeliveryInv
<1> QED BY <1>1, DeliveryInvariant, PTL

\* The portal never makes up a delivery.
THEOREM DeliveryAlwaysHonest == DeliverySpec => []HonestDelivery
<1>1. DeliveryInv => HonestDelivery
  BY DEF DeliveryInv
<1> QED BY <1>1, DeliveryInvariant, PTL

\* Two attempts on an order overlap only if one of the two has run for StaleAge
\* or has had its claim overwritten by the failure of another.
THEOREM AttemptsDoNotOverlap == DeliverySpec => []OneAttemptAtATime
<1>1. DeliveryInv => OneAttemptAtATime
  BY DEF DeliveryInv
<1> QED BY <1>1, DeliveryInvariant, PTL

\* Nothing undoes a recorded delivery but the failure of an attempt that was
\* already under way.
THEOREM DeliveryUndoneOnlyByFailure == DeliverySpec => DeliveredLostOnlyToFailure
<1> DEFINE Kept ==
      \A o \in OrderIds :
        orders[o].delivery_status = "delivered" /\ orders'[o].delivery_status # "delivered"
        => /\ orders'[o].delivery_status = "failed"
           /\ \E w \in Threads : threads[w].pc = "finish" /\ threads[w].order = o
<1>1. ASSUME DeliveryInv, [DeliveryNext]_deliveryVars
      PROVE  [Kept]_deliveryVars
  <2>0. Types /\ Sound /\ \A p \in OrderIds : orders[p] \in Row \cup {NoRow}
    BY <1>1, TypesAre DEF DeliveryInv, Sound, Types
  <2>1. CASE UNCHANGED deliveryVars
    BY <2>1
  <2>2. CASE DeliveryNext
    <3> SUFFICES ASSUME NEW o \in OrderIds,
                        orders[o].delivery_status = "delivered",
                        orders'[o].delivery_status # "delivered"
                 PROVE  /\ orders'[o].delivery_status = "failed"
                        /\ \E w \in Threads : threads[w].pc = "finish" /\ threads[w].order = o
      BY <2>2
    <3>1. HasRow(o) /\ orders'[o] # orders[o]
      BY <2>0 DEF HasRow, NoRow, Row, RowStatus
    <3>2. \A w \in Threads : ~SideStep(w) /\ ~CallStep(w)
      BY <3>1 DEF SideStep, CallStep
    <3>3. ~G2GStep /\ ~Tick
      BY <3>1 DEF G2GStep, Tick
    <3>4. \A p \in OrderIds : ~RowStep(p)
      BY <3>1 DEF RowStep
    <3>5. ASSUME NEW w \in Threads, Busy(w), ClaimStep(w, threads[w].order)
          PROVE  FALSE
      <4>1. Eligible(threads[w].order, threads[w].force)
        BY <3>5 DEF ClaimStep
      <4>2. threads[w].order # o
        BY <4>1 DEF Eligible, Settled
      <4>3. orders'[o] = orders[o]
        BY <3>5, <4>2, <2>0 DEF ClaimStep, Types
      <4> QED BY <3>1, <4>3
    <3>6. ASSUME NEW w \in Threads, Busy(w), FinishStep(w, threads[w].order)
          PROVE  orders'[o].delivery_status = "failed" /\ threads[w].pc = "finish"
                 /\ threads[w].order = o
      <4>1. threads[w].order = o
        BY <3>1, <3>6 DEF FinishStep
      <4> QED BY <3>6, <4>1 DEF FinishStep
    <3>7. \A w \in Threads : Busy(w) => threads[w].order \in OrderIds
      BY DEF Busy
    <3> QED BY <1>1, <2>2, <3>2, <3>3, <3>4, <3>5, <3>6, <3>7, StepKinds
  <2> QED BY <1>1, <2>1, <2>2
<1>2. DeliverySpec => [][Kept]_deliveryVars
  BY <1>1, DeliveryInvariant, PTL DEF DeliverySpec
<1> QED BY <1>2 DEF DeliveredLostOnlyToFailure

\* Attempts and reconciliations touch no more of a row than its delivery, and
\* never a row that an administrator created by hand, whatever the other
\* threads, the webhooks and the portal did since they read it.
THEOREM AttemptsStayOnTheirRows == DeliverySpec => AttemptsKeepToRows
<1> DEFINE Stays == threads' # threads
                    => orders' = orders \/ \E o \in OrderIds : DeliveryChangesRow(o)
<1>1. ASSUME DeliveryInv, [DeliveryNext]_deliveryVars
      PROVE  [Stays]_deliveryVars
  <2>0. Types /\ Sound
    BY <1>1, TypesAre DEF DeliveryInv, Sound
  <2>1. CASE UNCHANGED deliveryVars
    BY <2>1
  <2>2. CASE DeliveryNext
    <3> SUFFICES ASSUME threads' # threads, orders' # orders
                 PROVE  \E o \in OrderIds : DeliveryChangesRow(o)
      BY <2>2
    <3>1. \A w \in Threads : ~SideStep(w) /\ ~CallStep(w)
      BY DEF SideStep, CallStep
    <3>2. ~G2GStep /\ ~Tick
      BY DEF G2GStep, Tick
    <3>3. ASSUME NEW o \in OrderIds, orders[o] \in Row,
                 NEW s \in {"delivering", "delivered", "failed"},
                 NEW d \in DeliveryIds \cup {Manual, Null},
                 orders[o].delivery_status # "manual",
                 orders' = [orders EXCEPT ![o] = Recorded(o, s, d)],
                 d # Manual
          PROVE  DeliveryChangesRow(o)
      <4>1. orders' = [orders EXCEPT ![o].delivery_status = s,
                                     ![o].delivery_id = IF @ = Null THEN d ELSE @]
        BY <2>0, <3>3 DEF Types, Row, Recorded
      <4>2. HasRow(o)
        BY <3>3 DEF HasRow, Row, RowStatus
      <4> QED BY <3>3, <4>1, <4>2 DEF DeliveryChangesRow
    <3>4. ASSUME NEW o \in OrderIds, orders[o] \in Row, NEW s,
                 orders' = [orders EXCEPT ![o].delivery_status = s]
          PROVE  orders' = [orders EXCEPT ![o] = Recorded(o, s, Null)]
      <4>1. Recorded(o, s, Null) = [orders[o] EXCEPT !.delivery_status = s]
        BY <3>4 DEF Recorded, Row
      <4> QED BY <3>4, <4>1
    <3>5. ASSUME NEW o \in OrderIds, RowStep(o)
          PROVE  DeliveryChangesRow(o)
      <4>1. g2g[o] = "none" => FALSE
        BY <3>5 DEF RowStep
      <4>2. HasRow(o) /\ orders[o].delivery_status # "manual"
        BY <4>1, <2>0 DEF Sound, HandsOff
      <4>3. orders[o] \in Row
        BY <2>0, <4>2 DEF Types, HasRow, NoRow
      <4>4. orders' = [orders EXCEPT ![o].delivery_status = "delivered"]
        BY <3>5 DEF RowStep
      <4> QED BY <3>3, <3>4, <4>2, <4>3, <4>4, TableAssumption
    <3>6. ASSUME NEW w \in Threads, Busy(w), ClaimStep(w, threads[w].order)
          PROVE  DeliveryChangesRow(threads[w].order)
      <4>1. orders[threads[w].order].delivery_status # "manual"
        BY <3>6 DEF ClaimStep, Eligible, Settled
      <4>2. orders' = [orders EXCEPT ![threads[w].order].delivery_status = "delivering"]
        BY <3>6 DEF ClaimStep
      <4> QED BY <3>3, <3>4, <3>6, <4>1, <4>2, TableAssumption DEF Busy
    <3>7. ASSUME NEW w \in Threads, Busy(w), FinishStep(w, threads[w].order)
          PROVE  DeliveryChangesRow(threads[w].order)
      <4> DEFINE o == threads[w].order
      <4>1. InFlight(w) /\ o \in OrderIds /\ orders[o] \in Row
        BY <3>7 DEF FinishStep, InFlight, Busy
      <4>2. orders[o].delivery_status # "manual" /\ threads[w].item # Manual
        BY <2>0, <4>1 DEF Sound, HandsOff
      <4>3. PICK s \in {"delivered", "failed"} : orders'[o] = Recorded(o, s, threads[w].item)
        BY <3>7 DEF FinishStep
      <4>4. threads[w].item \in DeliveryIds \cup {Manual, Null}
        BY <2>0 DEF Types, ThreadType
      <4>5. orders' = [orders EXCEPT ![o] = Recorded(o, s, threads[w].item)]
        <5>1. orders' \in [OrderIds -> Row \cup {NoRow}]
          BY <1>1, <2>2, StepKinds DEF Types
        <5>2. \A p \in OrderIds \ {o} : orders'[p] = orders[p]
          BY <3>7 DEF FinishStep
        <5> QED BY <2>0, <4>1, <4>3, <5>1, <5>2 DEF Types
      <4> QED BY <3>3, <4>1, <4>2, <4>3, <4>4, <4>5
    <3>8. \A w \in Threads : Busy(w) => threads[w].order \in OrderIds
      BY DEF Busy
    <3> QED BY <1>1, <2>2, <3>1, <3>2, <3>5, <3>6, <3>7, <3>8, StepKinds
  <2> QED BY <1>1, <2>1, <2>2
<1>2. DeliverySpec => [][Stays]_deliveryVars
  BY <1>1, DeliveryInvariant, PTL DEF DeliverySpec
<1> QED BY <1>2 DEF AttemptsKeepToRows

----------------------------------------------------------------------------
(* The retry queue (RetryQueue).  What the operators on sequences do is    *)
(* said place by place; nothing is proved by induction over a sequence.    *)

\* No member twice.
Distinct(s) == \A i, j \in 1 .. Len(s) : s[i] = s[j] => i = j

\* The members of t at places up to e: each was among the first d of s, unless
\* it is in Y, and those in front of it were in front of it or are in X.
TurnKept(s, d, t, e, X, Y) ==
  \A i \in 1 .. Len(s), k \in 1 .. Len(t) :
    i <= d /\ t[k] = s[i] /\ s[i] \notin Y =>
      /\ k <= e
      /\ \A m \in 1 .. k - 1 : t[m] \in X \/ \E j \in 1 .. i - 1 : t[m] = s[j]

\* What RemoveAt makes of a sequence.
LEMMA RemoveAtFacts ==
  ASSUME NEW S, NEW s \in Seq(S), NEW p \in 1 .. Len(s)
  PROVE  /\ RemoveAt(s, p) \in Seq(S)
         /\ Len(RemoveAt(s, p)) = Len(s) - 1
         /\ \A k \in 1 .. Len(s) - 1 :
              RemoveAt(s, p)[k] = IF k < p THEN s[k] ELSE s[k + 1]
<1> DEFINE a == SubSeq(s, 1, p - 1)
           b == SubSeq(s, p + 1, Len(s))
<1>1. /\ a \in Seq(S) /\ Len(a) = p - 1
      /\ \A k \in 1 .. p - 1 : a[k] = s[k]
  OBVIOUS
<1>2. /\ b \in Seq(S) /\ Len(b) = Len(s) - p
      /\ \A k \in 1 .. Len(s) - p : b[k] = s[k + p]
  OBVIOUS
<1>3. RemoveAt(s, p) = a \o b
  BY DEF RemoveAt
<1> HIDE DEF a, b
<1>4. /\ a \o b \in Seq(S)
      /\ Len(a \o b) = Len(a) + Len(b)
      /\ \A k \in 1 .. Len(a) + Len(b) :
           (a \o b)[k] = IF k <= Len(a) THEN a[k] ELSE b[k - Len(a)]
  BY <1>1, <1>2, ConcatProperties
<1>5. ASSUME NEW k \in 1 .. Len(s) - 1
      PROVE  (a \o b)[k] = IF k < p THEN s[k] ELSE s[k + 1]
  <2>1. CASE k < p
    BY <1>1, <1>2, <1>4, <2>1
  <2>2. CASE ~ (k < p)
    <3>1. /\ k - Len(a) \in 1 .. Len(s) - p
          /\ (a \o b)[k] = b[k - Len(a)]
      BY <1>1, <1>2, <1>4, <2>2
    <3>2. b[k - Len(a)] = s[k - Len(a) + p] /\ k - Len(a) + p = k + 1
      BY <1>1, <1>2, <3>1
    <3> QED
      BY <2>2, <3>1, <3>2
  <2> QED
    BY <2>1, <2>2
<1> QED
  BY <1>1, <1>2, <1>3, <1>4, <1>5

\* The sequence t over S is s with e at place p.
Inserted(S, s, p, e, t) ==
  /\ t \in Seq(S)
  /\ Len(t) = Len(s) + 1
  /\ \A k \in 1 .. Len(s) + 1 :
       t[k] = IF k < p THEN s[k] ELSE IF k = p THEN e ELSE s[k - 1]

\* What InsertAt makes of a sequence.
LEMMA InsertAtFacts ==
  ASSUME NEW S, NEW s \in Seq(S), NEW p \in 1 .. Len(s) + 1, NEW e \in S
  PROVE  Inserted(S, s, p, e, InsertAt(s, p, e))
<1> DEFINE a == SubSeq(s, 1, p - 1)
           b == SubSeq(s, p, Len(s))
           c == a \o <<e>>
<1>1. /\ a \in Seq(S) /\ Len(a) = p - 1
      /\ \A k \in 1 .. p - 1 : a[k] = s[k]
  OBVIOUS
<1>2. /\ b \in Seq(S) /\ Len(b) = Len(s) - p + 1
      /\ \A k \in 1 .. Len(s) - p + 1 : b[k] = s[k + p - 1]
  OBVIOUS
<1>3. InsertAt(s, p, e) = c \o b
  BY DEF InsertAt
<1>4. /\ c \in Seq(S) /\ Len(c) = p
      /\ \A k \in 1 .. p : c[k] = IF k < p THEN s[k] ELSE e
  <2> HIDE DEF a
  <2>1. c \in Seq(S) /\ Len(c) = p
    BY <1>1
  <2>2. \A k \in 1 .. p : c[k] = IF k <= Len(a) THEN a[k] ELSE <<e>>[k - Len(a)]
    BY <1>1, <<e>> \in Seq(S), Len(<<e>>) = 1, ConcatProperties
  <2> QED
    BY <1>1, <2>1, <2>2
<1> HIDE DEF c, b
<1>5. /\ c \o b \in Seq(S)
      /\ Len(c \o b) = Len(c) + Len(b)
      /\ \A k \in 1 .. Len(c) + Len(b) :
           (c \o b)[k] = IF k <= Len(c) THEN c[k] ELSE b[k - Len(c)]
  BY <1>2, <1>4, ConcatProperties
<1>6. ASSUME NEW k \in 1 .. Len(s) + 1
      PROVE  (c \o b)[k] = IF k < p THEN s[k] ELSE IF k = p THEN e ELSE s[k - 1]
  <2>1. CASE k <= p
    BY <1>2, <1>4, <1>5, <2>1
  <2>2. CASE ~ (k <= p)
    <3>1. /\ k - p \in 1 .. Len(s) - p + 1
          /\ (c \o b)[k] = b[k - p]
      BY <1>2, <1>4, <1>5, <2>2
    <3>2. b[k - p] = s[k - p + p - 1] /\ k - p + p - 1 = k - 1
      BY <1>2, <3>1
    <3> QED
      BY <2>2, <3>1, <3>2
  <2> QED
    BY <2>1, <2>2
<1>7. Len(c) + Len(b) = Len(s) + 1
  BY <1>2, <1>4
<1>8. Inserted(S, s, p, e, c \o b)
  BY <1>5, <1>6, <1>7 DEF Inserted
<1> QED
  BY <1>3, <1>8

\* The sequence t over S, of which e are due, is s, of which d are due, with the
\* one at place p taken out; the others keep their turn.
ShorterBy(S, s, d, p, t, e) ==
  /\ t \in Seq(S) /\ Len(t) = Len(s) - 1 /\ Distinct(t) /\ e \in 0 .. Len(t)
  /\ \A k \in 1 .. Len(t) : t[k] # s[p] /\ \E i \in 1 .. Len(s) : t[k] = s[i]
  /\ TurnKept(s, d, t, e, {}, {})

\* Taking one out keeps the turn of the others (Leave).
LEMMA RemovedKeepsTurn ==
  ASSUME NEW S, NEW s \in Seq(S), Distinct(s), NEW p \in 1 .. Len(s), NEW d \in 0 .. Len(s),
         NEW t, t = RemoveAt(s, p), NEW e, e = IF p <= d THEN d - 1 ELSE d
  PROVE  ShorterBy(S, s, d, p, t, e)
<1>1. t = RemoveAt(s, p)
  OBVIOUS
<1>2. e = IF p <= d THEN d - 1 ELSE d
  OBVIOUS
<1>3. /\ t \in Seq(S) /\ Len(t) = Len(s) - 1
      /\ \A k \in 1 .. Len(t) : t[k] = IF k < p THEN s[k] ELSE s[k + 1]
  BY <1>1, RemoveAtFacts
<1>4. e \in 0 .. Len(t)
  BY <1>2, <1>3
<1>5. PICK from : from = [k \in 1 .. Len(t) |-> IF k < p THEN k ELSE k + 1]
  OBVIOUS
<1>6. \A k \in 1 .. Len(t) :
        /\ from[k] \in 1 .. Len(s) /\ from[k] # p
        /\ t[k] = s[from[k]]
        /\ from[k] = IF k < p THEN k ELSE k + 1
  BY <1>3, <1>5
<1>7. \A k \in 1 .. Len(t) : t[k] # s[p] /\ \E i \in 1 .. Len(s) : t[k] = s[i]
  BY <1>6 DEF Distinct
<1>8. Distinct(t)
  <2> SUFFICES ASSUME NEW i \in 1 .. Len(t), NEW j \in 1 .. Len(t), t[i] = t[j]
               PROVE  i = j
    BY DEF Distinct
  <2>1. from[i] = from[j]
    BY <1>6 DEF Distinct
  <2> QED
    BY <1>3, <1>6, <2>1
<1>9. TurnKept(s, d, t, e, {}, {})
  <2> SUFFICES ASSUME NEW i \in 1 .. Len(s), NEW k \in 1 .. Len(t), i <= d, t[k] = s[i]
               PROVE  /\ k <= e
                      /\ \A m \in 1 .. k - 1 : \E j \in 1 .. i - 1 : t[m] = s[j]
    BY DEF TurnKept
  <2>1. from[k] = i
    BY <1>6 DEF Distinct
  <2>2. i = IF k < p THEN k ELSE k + 1
    BY <1>6, <2>1
  <2>3. k <= e
    BY <1>2, <1>3, <2>2
  <2>4. ASSUME NEW m \in 1 .. k - 1
        PROVE  \E j \in 1 .. i - 1 : t[m] = s[j]
    <3>1. m \in 1 .. Len(t) /\ t[m] = s[from[m]] /\ from[m] = IF m < p THEN m ELSE m + 1
      BY <1>3, <1>6
    <3>2. from[m] \in 1 .. i - 1
      BY <2>2, <3>1
    <3> QED
      BY <3>1, <3>2
  <2> QED
    BY <2>3, <2>4
<1> QED
  BY <1>3, <1>4, <1>7, <1>8, <1>9 DEF ShorterBy

\* The sequence t over S is s with o added, wherever.
LongerBy(S, s, t, o) ==
  /\ t \in Seq(S) /\ Len(t) = Len(s) + 1 /\ Distinct(t)
  /\ \A k \in 1 .. Len(t) : t[k] = o \/ \E i \in 1 .. Len(s) : t[k] = s[i]

\* Inserting a new one into a sequence (Arrives, PutBack, BecomesStale).
LEMMA InsertedForm ==
  ASSUME NEW S, NEW s \in Seq(S), Distinct(s), NEW o \in S,
         \A k \in 1 .. Len(s) : s[k] # o,
         NEW p \in 1 .. Len(s) + 1, NEW t, t = InsertAt(s, p, o)
  PROVE  LongerBy(S, s, t, o)
<1>1. t = InsertAt(s, p, o)
  OBVIOUS
<1>2. /\ t \in Seq(S) /\ Len(t) = Len(s) + 1
      /\ \A k \in 1 .. Len(t) : t[k] = IF k < p THEN s[k] ELSE IF k = p THEN o ELSE s[k - 1]
  <2>1. Inserted(S, s, p, o, InsertAt(s, p, o))
    BY InsertAtFacts
  <2>2. Inserted(S, s, p, o, t)
    BY <1>1, <2>1
  <2> QED
    BY <2>2 DEF Inserted
<1>3. PICK from : from = [k \in 1 .. Len(t) |-> IF k < p THEN k ELSE k - 1]
  OBVIOUS
<1>4. \A k \in 1 .. Len(t) :
        /\ from[k] = IF k < p THEN k ELSE k - 1
        /\ k # p => from[k] \in 1 .. Len(s) /\ t[k] = s[from[k]]
        /\ t[p] = o
  BY <1>2, <1>3
<1>5. \A k \in 1 .. Len(t) : t[k] = o \/ \E i \in 1 .. Len(s) : t[k] = s[i]
  BY <1>4
<1>6. \A k \in 1 .. Len(t) : t[k] = o => k = p
  BY <1>4
<1>7. Distinct(t)
  <2> SUFFICES ASSUME NEW i \in 1 .. Len(t), NEW j \in 1 .. Len(t), t[i] = t[j], i # p, j # p
               PROVE  i = j
    BY <1>4, <1>6 DEF Distinct
  <2>1. /\ from[i] \in 1 .. Len(s) /\ from[j] \in 1 .. Len(s)
        /\ s[from[i]] = s[from[j]]
    BY <1>4
  <2>2. from[i] = from[j]
    BY <2>1 DEF Distinct
  <2> QED
    BY <1>2, <1>4, <2>2
<1> QED
  BY <1>2, <1>5, <1>7 DEF LongerBy

\* Inserting one behind the due ones, or in front of all, keeps the turn of the
\* others, but for the one in front (Arrives, PutBack, BecomesStale).
LEMMA InsertedKeepsTurn ==
  ASSUME NEW S, NEW s \in Seq(S), Distinct(s), NEW d \in 0 .. Len(s), NEW o \in S,
         \A k \in 1 .. Len(s) : s[k] # o,
         NEW p \in 1 .. Len(s) + 1, NEW t, t = InsertAt(s, p, o)
  PROVE  /\ p > d => TurnKept(s, d, t, d, {}, {}) /\ TurnKept(s, d, t, d + 1, {}, {})
         /\ TurnKept(s, d, t, d + 1, {o}, {})
<1>1. t = InsertAt(s, p, o)
  OBVIOUS
<1>2. /\ t \in Seq(S) /\ Len(t) = Len(s) + 1
      /\ \A k \in 1 .. Len(t) : t[k] = IF k < p THEN s[k] ELSE IF k = p THEN o ELSE s[k - 1]
  <2>1. Inserted(S, s, p, o, InsertAt(s, p, o))
    BY InsertAtFacts
  <2>2. Inserted(S, s, p, o, t)
    BY <1>1, <2>1
  <2> QED
    BY <2>2 DEF Inserted
<1>3. PICK from : from = [k \in 1 .. Len(t) |-> IF k < p THEN k ELSE k - 1]
  OBVIOUS
<1>4. \A k \in 1 .. Len(t) :
        /\ from[k] = IF k < p THEN k ELSE k - 1
        /\ k # p => from[k] \in 1 .. Len(s) /\ t[k] = s[from[k]]
        /\ t[p] = o
  BY <1>2, <1>3
<1>8. ASSUME NEW i \in 1 .. Len(s), NEW k \in 1 .. Len(t), i <= d, t[k] = s[i]
      PROVE  /\ k <= d + 1
             /\ p > d => k <= d
             /\ \A m \in 1 .. k - 1 : (t[m] = o /\ p <= d) \/ \E j \in 1 .. i - 1 : t[m] = s[j]
  <2>1. k # p /\ from[k] = i
    <3>1. k # p
      BY <1>4, <1>8
    <3>2. from[k] \in 1 .. Len(s) /\ s[from[k]] = s[i]
      BY <1>4, <1>8, <3>1
    <3> QED
      BY <3>1, <3>2 DEF Distinct
  <2>2. i = IF k < p THEN k ELSE k - 1
    BY <1>4, <2>1
  <2>3. k <= d + 1 /\ (p > d => k <= d)
    BY <1>2, <1>8, <2>1, <2>2
  <2>4. ASSUME NEW m \in 1 .. k - 1
        PROVE  (t[m] = o /\ p <= d) \/ \E j \in 1 .. i - 1 : t[m] = s[j]
    <3>1. m \in 1 .. Len(t)
      BY <1>2
    <3>2. CASE m = p
      BY <1>2, <1>4, <1>8, <2>3, <3>1, <3>2
    <3>3. CASE m # p
      <4>1. t[m] = s[from[m]] /\ from[m] = IF m < p THEN m ELSE m - 1
        BY <1>4, <3>1, <3>3
      <4>2. from[m] \in 1 .. i - 1
        BY <2>1, <2>2, <3>1, <3>3, <4>1
      <4> QED
        BY <4>1, <4>2
    <3> QED
      BY <3>2, <3>3
  <2> QED
    BY <2>3, <2>4
<1>9. p > d => TurnKept(s, d, t, d, {}, {}) /\ TurnKept(s, d, t, d + 1, {}, {})
  BY <1>8 DEF TurnKept
<1>10. TurnKept(s, d, t, d + 1, {o}, {})
  BY <1>8 DEF TurnKept
<1> QED
  BY <1>9, <1>10

\* Each order is in the queue once, and not while its claim is fresh; all that
\* is queued, claimed or ended has arrived.
QueueForm ==
  /\ known \subseteq Orders
  /\ queue \in Seq(Orders)
  /\ due \in 0 .. Len(queue)
  /\ claimed \subseteq known
  /\ ended \subseteq known
  /\ attempts \in [Orders -> 0 .. QueueCap]
  /\ Distinct(queue)
  /\ \A i \in 1 .. Len(queue) : queue[i] \in known \ claimed

\* Whoever is in an attempt has an order that has arrived.
WorkForm ==
  /\ underway \subseteq WebThreads \X known
  /\ busy \in BOOLEAN
  /\ busy => batch # <<>> /\ Head(batch) \in known

QueueInv == QueueForm /\ WorkForm

\* A step of the queue: it keeps its form, and the turn of all but those in Y,
\* of which those in X get in front.
QueueStep(X, Y) ==
  /\ queue' \in Seq(Orders)
  /\ due' \in 0 .. Len(queue')
  /\ Distinct(queue')
  /\ TurnKept(queue, due, queue', due', X, Y)

\* Where a queued order stands.
LEMMA PlaceOfQueued ==
  ASSUME QueueForm, NEW o, Queued(o)
  PROVE  Place(o) \in 1 .. Len(queue) /\ queue[Place(o)] = o
BY DEF Queued, Contains, Place

\* Nothing happens to the queue.
LEMMA QueueRests ==
  ASSUME QueueForm, UNCHANGED <<queue, due>>
  PROVE  QueueStep({}, {})
BY DEF QueueForm, QueueStep, TurnKept, Distinct

\* The queue, of which d are due, without o.
Rest(o, rest, d) ==
  /\ rest \in Seq(Orders) /\ Distinct(rest) /\ d \in 0 .. Len(rest)
  /\ \A k \in 1 .. Len(rest) :
       rest[k] # o /\ \E i \in 1 .. Len(queue) : rest[k] = queue[i]
  /\ TurnKept(queue, due, rest, d, {}, {})

\* What is left when an order is taken out, if it is there at all.
LEMMA RestForm ==
  ASSUME QueueForm, NEW o \in Orders,
         NEW rest, rest = Without(o), NEW d, d = DueWithout(o)
  PROVE  Rest(o, rest, d)
<1>1. queue \in Seq(Orders) /\ Distinct(queue) /\ due \in 0 .. Len(queue)
  BY DEF QueueForm
<1>2. CASE Queued(o)
  <2>1. PICK p \in 1 .. Len(queue) : p = Place(o) /\ queue[p] = o
    BY <1>2, PlaceOfQueued
  <2>2. rest = RemoveAt(queue, p) /\ d = IF p <= due THEN due - 1 ELSE due
    BY <1>2, <2>1 DEF Without, DueWithout
  <2>3. ShorterBy(Orders, queue, due, p, rest, d)
    BY <1>1, <2>2, RemovedKeepsTurn
  <2> QED
    BY <2>1, <2>3 DEF ShorterBy, Rest
<1>3. CASE ~Queued(o)
  <2>1. rest = queue /\ d = due
    BY <1>3 DEF Without, DueWithout
  <2>2. \A k \in 1 .. Len(queue) : queue[k] # o
    BY <1>3 DEF Queued, Contains
  <2>3. TurnKept(queue, due, queue, due, {}, {})
    BY <1>1 DEF TurnKept, Distinct
  <2> QED
    BY <1>1, <2>1, <2>2, <2>3 DEF Rest
<1> QED
  BY <1>2, <1>3

\* An order leaves.
LEMMA LeaveStep ==
  ASSUME QueueForm, NEW o \in Orders, Leave(o)
  PROVE  /\ QueueStep({}, {})
         /\ \A k \in 1 .. Len(queue') :
              queue'[k] # o /\ \E i \in 1 .. Len(queue) : queue'[k] = queue[i]
<1>1. PICK rest, d : rest = Without(o) /\ d = DueWithout(o)
  OBVIOUS
<1>2. Rest(o, rest, d)
  BY <1>1, RestForm
<1>3. queue' = rest /\ due' = d
  BY <1>1 DEF Leave
<1> QED
  BY <1>2, <1>3 DEF QueueStep, Rest

\* An order goes behind all that are due, wherever it was.
LEMMA PutBackStep ==
  ASSUME QueueForm, NEW o \in Orders, PutBack(o)
  PROVE  /\ QueueStep({}, {o})
         /\ \A k \in 1 .. Len(queue') :
              queue'[k] = o \/ \E i \in 1 .. Len(queue) : queue'[k] = queue[i]
<1>1. PICK rest, d : rest = Without(o) /\ d = DueWithout(o)
  OBVIOUS
<1>2. Rest(o, rest, d)
  BY <1>1, RestForm
<1>3. /\ rest \in Seq(Orders) /\ Distinct(rest) /\ d \in 0 .. Len(rest)
      /\ \A k \in 1 .. Len(rest) :
           rest[k] # o /\ \E i \in 1 .. Len(queue) : rest[k] = queue[i]
      /\ TurnKept(queue, due, rest, d, {}, {})
  BY <1>2 DEF Rest
<1>6. PICK i \in d + 1 .. Len(rest) + 1 : queue' = InsertAt(rest, i, o) /\ due' = d
  BY <1>1 DEF PutBack
<1>7. i \in 1 .. Len(rest) + 1 /\ i > d
  BY <1>3, <1>6
<1>8. /\ queue' \in Seq(Orders) /\ Len(queue') = Len(rest) + 1 /\ Distinct(queue')
      /\ \A k \in 1 .. Len(queue') : queue'[k] = o \/ \E j \in 1 .. Len(rest) : queue'[k] = rest[j]
      /\ TurnKept(rest, d, queue', due', {}, {})
  <2>1. PICK q : q = InsertAt(rest, i, o)
    OBVIOUS
  <2>2. LongerBy(Orders, rest, q, o)
    BY <1>3, <1>7, <2>1, InsertedForm
  <2>3. TurnKept(rest, d, q, d, {}, {})
    BY <1>3, <1>7, <2>1, InsertedKeepsTurn
  <2>4. queue' = q /\ due' = d
    BY <1>6, <2>1
  <2> QED
    BY <2>2, <2>3, <2>4 DEF LongerBy
<1>9. TurnKept(queue, due, queue', due', {}, {o})
  <2> SUFFICES ASSUME NEW j \in 1 .. Len(queue), NEW k \in 1 .. Len(queue'),
                      j <= due, queue'[k] = queue[j], queue[j] # o
               PROVE  /\ k <= due'
                      /\ \A m \in 1 .. k - 1 : \E h \in 1 .. j - 1 : queue'[m] = queue[h]
    BY DEF TurnKept
  <2>1. PICK l \in 1 .. Len(rest) : queue'[k] = rest[l]
    BY <1>8
  <2>2. /\ l <= d
        /\ \A m \in 1 .. l - 1 : \E h \in 1 .. j - 1 : rest[m] = queue[h]
    BY <1>3, <2>1 DEF TurnKept
  <2>3. /\ k <= due'
        /\ \A m \in 1 .. k - 1 : \E h \in 1 .. l - 1 : queue'[m] = rest[h]
    BY <1>8, <2>1, <2>2 DEF TurnKept
  <2>4. ASSUME NEW m \in 1 .. k - 1
        PROVE  \E h \in 1 .. j - 1 : queue'[m] = queue[h]
    <3>1. PICK n \in 1 .. l - 1 : queue'[m] = rest[n]
      BY <2>3
    <3>2. PICK h \in 1 .. j - 1 : rest[n] = queue[h]
      BY <2>2
    <3> QED
      BY <3>1, <3>2
  <2> QED
    BY <2>3, <2>4
<1>10. due' \in 0 .. Len(queue')
  BY <1>3, <1>6, <1>8
<1>11. \A k \in 1 .. Len(queue') :
         queue'[k] = o \/ \E j \in 1 .. Len(queue) : queue'[k] = queue[j]
  BY <1>3, <1>8
<1> QED
  BY <1>8, <1>9, <1>10, <1>11 DEF QueueStep

\* A claim takes the order out of the queue.
LEMMA ClaimKeeps ==
  ASSUME QueueForm, NEW o \in Orders, Waiting(o), Claim(o)
  PROVE  QueueForm' /\ QueueStep({}, {}) /\ o \in known
<1>1. /\ attempts' = [attempts EXCEPT ![o] = @ + 1]
      /\ attempts[o] < QueueCap
      /\ attempts \in [Orders -> 0 .. QueueCap]
      /\ QueueCap \in Nat
      /\ claimed' = claimed \cup {o} /\ UNCHANGED <<known, ended>>
  BY QueueAssumption DEF Claim, QueueForm
<1>2. attempts' \in [Orders -> 0 .. QueueCap]
  BY <1>1
<1>3. /\ QueueStep({}, {})
      /\ \A k \in 1 .. Len(queue') :
           queue'[k] # o /\ \E i \in 1 .. Len(queue) : queue'[k] = queue[i]
  BY LeaveStep DEF Claim
<1>4. o \in known
  BY DEF Waiting, Queued, Contains, QueueForm
<1>5. \A k \in 1 .. Len(queue') : queue'[k] \in known' \ claimed'
  BY <1>1, <1>3 DEF QueueForm
<1> QED
  BY <1>1, <1>2, <1>3, <1>4, <1>5 DEF QueueForm, QueueStep

\* An outcome, recorded in time or late, takes the order out of the queue or
\* puts it behind all that are due.
LEMMA RecordKeeps ==
  ASSUME QueueForm, NEW o \in known, Record(o)
  PROVE  QueueForm' /\ (QueueStep({}, {}) \/ QueueStep({}, {o}))
<1>1. claimed' = claimed \ {o} /\ UNCHANGED <<known, ended, attempts>> /\ o \in Orders
  BY DEF Record, QueueForm
<1>2. /\ QueueStep({}, {}) \/ QueueStep({}, {o})
      /\ \A k \in 1 .. Len(queue') :
           queue'[k] = o \/ \E i \in 1 .. Len(queue) : queue'[k] = queue[i]
  BY <1>1, LeaveStep, PutBackStep DEF Record
<1>3. \A k \in 1 .. Len(queue') : queue'[k] \in known' \ claimed'
  BY <1>1, <1>2 DEF QueueForm
<1> QED
  BY <1>1, <1>2, <1>3 DEF QueueForm, QueueStep

\* A delivery recorded otherwise takes the order out.
LEMMA SettlesKeeps ==
  ASSUME QueueForm, NEW o \in Orders, Settles(o)
  PROVE  QueueForm' /\ QueueStep({}, {})
<1>1. claimed' = claimed \ {o} /\ UNCHANGED <<known, ended, attempts>>
  BY DEF Settles
<1>2. /\ QueueStep({}, {})
      /\ \A k \in 1 .. Len(queue') : \E i \in 1 .. Len(queue) : queue'[k] = queue[i]
  BY LeaveStep DEF Settles
<1>3. \A k \in 1 .. Len(queue') : queue'[k] \in known' \ claimed'
  BY <1>1, <1>2 DEF QueueForm
<1> QED
  BY <1>1, <1>2, <1>3 DEF QueueForm, QueueStep

\* A new order, behind those that are due.
LEMMA ArrivesKeeps ==
  ASSUME QueueForm, NEW o \in Orders, Arrives(o)
  PROVE  QueueForm' /\ QueueStep({}, {})
<1>1. /\ UNCHANGED <<claimed, ended, attempts>>
      /\ known' = known \cup {o} /\ o \notin known
      /\ attempts \in [Orders -> 0 .. QueueCap]
      /\ known \subseteq Orders /\ claimed \subseteq known /\ ended \subseteq known
      /\ queue \in Seq(Orders) /\ Distinct(queue) /\ due \in 0 .. Len(queue)
      /\ \A k \in 1 .. Len(queue) : queue[k] \in known \ claimed
  BY DEF Arrives, QueueForm
<1>2. PICK q : q = InsertAt(queue, due + 1, o)
  OBVIOUS
<1>3. queue' = q /\ due' = due + 1
  BY <1>2 DEF Arrives
<1>4. /\ q \in Seq(Orders) /\ Len(q) = Len(queue) + 1 /\ Distinct(q)
      /\ \A k \in 1 .. Len(q) : q[k] = o \/ \E i \in 1 .. Len(queue) : q[k] = queue[i]
      /\ TurnKept(queue, due, q, due + 1, {}, {})
  <2>1. due + 1 \in 1 .. Len(queue) + 1 /\ due + 1 > due
    BY <1>1
  <2>2. \A k \in 1 .. Len(queue) : queue[k] # o
    BY <1>1
  <2>3. LongerBy(Orders, queue, q, o)
    BY <1>1, <1>2, <2>1, <2>2, InsertedForm
  <2>4. TurnKept(queue, due, q, due + 1, {}, {})
    BY <1>1, <1>2, <2>1, <2>2, InsertedKeepsTurn
  <2> QED
    BY <2>3, <2>4 DEF LongerBy
<1>5. QueueStep({}, {})
  BY <1>1, <1>3, <1>4 DEF QueueStep
<1>6. \A k \in 1 .. Len(queue') : queue'[k] \in known' \ claimed'
  BY <1>1, <1>3, <1>4
<1> QED
  BY <1>1, <1>5, <1>6 DEF QueueForm, QueueStep

\* An order whose claim is stale comes back, in front of all.
LEMMA StaleKeeps ==
  ASSUME QueueForm, NEW o \in Orders, BecomesStale(o)
  PROVE  QueueForm' /\ o \in claimed /\ QueueStep({o}, {})
<1>1. /\ UNCHANGED <<known, ended, attempts>>
      /\ claimed' = claimed \ {o} /\ o \in claimed
      /\ attempts \in [Orders -> 0 .. QueueCap]
      /\ known \subseteq Orders /\ claimed \subseteq known /\ ended \subseteq known
      /\ queue \in Seq(Orders) /\ Distinct(queue) /\ due \in 0 .. Len(queue)
      /\ \A k \in 1 .. Len(queue) : queue[k] \in known \ claimed
  BY DEF BecomesStale, QueueForm
<1>2. PICK q : q = InsertAt(queue, 1, o)
  OBVIOUS
<1>3. queue' = q /\ due' = due + 1
  <2>1. InsertAt(queue, 1, o) = <<o>> \o queue
    <3>1. SubSeq(queue, 1, 1 - 1) = <<>> /\ SubSeq(queue, 1, Len(queue)) = queue
      BY <1>1, SubSeqFull, SubSeqEmpty
    <3>2. <<>> \o <<o>> = <<o>>
      BY <<o>> \in Seq(Orders), ConcatEmptySeq
    <3> QED
      BY <3>1, <3>2 DEF InsertAt
  <2> QED
    BY <1>2, <2>1 DEF BecomesStale
<1>4. /\ q \in Seq(Orders) /\ Len(q) = Len(queue) + 1 /\ Distinct(q)
      /\ \A k \in 1 .. Len(q) : q[k] = o \/ \E i \in 1 .. Len(queue) : q[k] = queue[i]
      /\ TurnKept(queue, due, q, due + 1, {o}, {})
  <2>1. \A k \in 1 .. Len(queue) : queue[k] # o
    BY <1>1
  <2>2. LongerBy(Orders, queue, q, o)
    BY <1>1, <1>2, <2>1, InsertedForm
  <2>3. TurnKept(queue, due, q, due + 1, {o}, {})
    BY <1>1, <1>2, <2>1, InsertedKeepsTurn
  <2> QED
    BY <2>2, <2>3 DEF LongerBy
<1>5. QueueStep({o}, {})
  BY <1>1, <1>3, <1>4 DEF QueueStep
<1>6. \A k \in 1 .. Len(queue') : queue'[k] \in known' \ claimed'
  BY <1>1, <1>3, <1>4
<1> QED
  BY <1>1, <1>5, <1>6 DEF QueueForm, QueueStep

\* Time passes.
LEMMA NextDueKeeps ==
  ASSUME QueueForm, NextDue
  PROVE  QueueForm' /\ QueueStep({}, {})
<1>1. TurnKept(queue, due, queue', due', {}, {})
  BY DEF NextDue, TurnKept, QueueForm, Distinct
<1>2. QueueStep({}, {})
  BY <1>1 DEF NextDue, QueueStep, QueueForm, Distinct
<1> QED
  BY <1>2 DEF NextDue, QueueForm, QueueStep

\* What a step may do to the queue: whoever gets in front of a due order had a
\* claim, and on whoever loses a turn an attempt is over.
Turns ==
  \E X \in SUBSET Forgotten, Y \in SUBSET {o \in Orders : Attempting(o)' # Attempting(o)} :
    QueueStep(X, Y)

\* Every step keeps the invariant, and the turns.
LEMMA QueueNextTurns ==
  ASSUME QueueInv, [QueueNext]_queueVars
  PROVE  QueueInv' /\ Turns
<1>0. QueueForm /\ WorkForm
  BY DEF QueueInv
<1>1. QueueStep({}, {}) => Turns
  BY DEF Turns
<1>2. ASSUME UNCHANGED <<known, queue, due, claimed, attempts>>, ended' \subseteq known
      PROVE  QueueForm' /\ Turns
  <2>1. QueueForm'
    BY <1>0, <1>2 DEF QueueForm, Distinct
  <2> QED
    BY <1>0, <1>1, <1>2, <2>1, QueueRests
<1>3. ASSUME known \subseteq known', UNCHANGED <<underway, batch, busy>>
      PROVE  WorkForm'
  BY <1>0, <1>3 DEF WorkForm
<1>4. CASE JobSelect
  <2>1. ~busy
    BY <1>0, <1>4 DEF JobSelect, WorkForm
  <2>2. WorkForm'
    BY <1>0, <1>4, <2>1 DEF JobSelect, WorkForm
  <2> QED
    BY <1>0, <1>2, <1>4, <2>2 DEF JobSelect, QueueInv, QueueForm
<1>5. CASE JobClaim
  <2>1. PICK o : o = Head(batch)
    OBVIOUS
  <2>2. Waiting(o) /\ Claim(o) /\ o \in Orders
    BY <1>0, <1>5, <2>1 DEF JobClaim, Waiting, Queued, Contains, QueueForm
  <2>3. QueueForm' /\ QueueStep({}, {}) /\ o \in known
    BY <1>0, <2>2, ClaimKeeps
  <2>4. known' = known
    BY <2>2 DEF Claim
  <2>5. WorkForm'
    BY <1>0, <1>5, <2>1, <2>3, <2>4 DEF JobClaim, WorkForm
  <2> QED
    BY <1>1, <2>3, <2>5 DEF QueueInv
<1>6. CASE JobPasses
  <2>1. WorkForm'
    BY <1>0, <1>6 DEF JobPasses, WorkForm
  <2> QED
    BY <1>0, <1>2, <1>6, <2>1 DEF JobPasses, QueueInv, QueueForm
<1>7. CASE JobRecords
  <2>1. PICK o : o = Head(batch)
    OBVIOUS
  <2>2. busy /\ busy' = FALSE /\ Record(o) /\ o \in known /\ o \in Orders
    BY <1>0, <1>7, <2>1 DEF JobRecords, WorkForm, QueueForm
  <2>3. QueueForm' /\ (QueueStep({}, {}) \/ QueueStep({}, {o}))
    BY <1>0, <2>2, RecordKeeps
  <2>4. Attempting(o)' # Attempting(o)
    BY <2>1, <2>2 DEF Attempting
  <2>5. Turns
    BY <1>1, <2>2, <2>3, <2>4 DEF Turns
  <2>6. WorkForm'
    BY <1>0, <1>7, <2>2 DEF JobRecords, WorkForm, Record
  <2> QED
    BY <2>3, <2>5, <2>6 DEF QueueInv
<1>8. CASE JobKilled
  <2>1. WorkForm'
    BY <1>0, <1>8 DEF JobKilled, WorkForm
  <2> QED
    BY <1>0, <1>2, <1>8, <2>1 DEF JobKilled, QueueInv, QueueForm
<1>9. CASE NextDue
  BY <1>0, <1>1, <1>3, <1>9, NextDueKeeps DEF NextDue, QueueInv
<1>10. ASSUME NEW o \in Orders, Arrives(o)
       PROVE  QueueInv' /\ Turns
  <2>1. known \subseteq known' /\ UNCHANGED <<underway, batch, busy>>
    BY <1>10 DEF Arrives
  <2> QED
    BY <1>0, <1>1, <1>3, <1>10, <2>1, ArrivesKeeps DEF QueueInv
<1>11. ASSUME NEW o \in Orders, BecomesStale(o)
       PROVE  QueueInv' /\ Turns
  <2>1. QueueForm' /\ o \in claimed /\ QueueStep({o}, {})
    BY <1>0, <1>11, StaleKeeps
  <2>2. UNCHANGED <<known, underway, batch, busy>>
    BY <1>11 DEF BecomesStale
  <2>3. o \in Forgotten
    BY <2>1, <2>2 DEF Forgotten, Attempting
  <2>4. Turns
    BY <2>1, <2>3 DEF Turns
  <2> QED
    BY <1>3, <2>1, <2>2, <2>4 DEF QueueInv
<1>12. ASSUME NEW o \in Orders, Settles(o)
       PROVE  QueueInv' /\ Turns
  BY <1>0, <1>1, <1>3, <1>12, SettlesKeeps DEF Settles, QueueInv
<1>13. ASSUME NEW o \in Orders, Ends(o) \/ Returns(o)
       PROVE  QueueInv' /\ Turns
  <2>1. /\ UNCHANGED <<known, queue, due, claimed, attempts>> /\ ended' \subseteq known
        /\ UNCHANGED <<underway, batch, busy>>
    BY <1>0, <1>13 DEF Ends, Returns, QueueForm
  <2> QED
    BY <1>2, <1>3, <2>1 DEF QueueInv
<1>14. ASSUME NEW w \in WebThreads, NEW o \in Orders, NEW force \in BOOLEAN,
              WebClaims(w, o, force)
       PROVE  QueueInv' /\ Turns
  <2>1. QueueForm' /\ QueueStep({}, {}) /\ o \in known
    BY <1>0, <1>14, ClaimKeeps DEF WebClaims
  <2>2. known' = known
    BY <1>14 DEF WebClaims, Claim
  <2>3. WorkForm'
    BY <1>0, <1>14, <2>1, <2>2 DEF WebClaims, WorkForm
  <2> QED
    BY <1>1, <2>1, <2>3 DEF QueueInv
<1>15. ASSUME NEW w \in WebThreads, NEW o \in Orders, WebRecords(w, o)
       PROVE  QueueInv' /\ Turns
  <2>1. <<w, o>> \in underway /\ <<w, o>> \notin underway' /\ o \in known
    BY <1>0, <1>15 DEF WebRecords, WorkForm
  <2>2. QueueForm' /\ (QueueStep({}, {}) \/ QueueStep({}, {o}))
    BY <1>0, <1>15, <2>1, RecordKeeps DEF WebRecords
  <2>3. Attempting(o)' # Attempting(o)
    BY <2>1 DEF Attempting
  <2>4. Turns
    BY <1>1, <2>2, <2>3 DEF Turns
  <2>5. WorkForm'
    BY <1>0, <1>15 DEF WebRecords, WorkForm, Record
  <2> QED
    BY <2>2, <2>4, <2>5 DEF QueueInv
<1>16. ASSUME NEW w \in WebThreads, NEW o \in Orders, WebKilled(w, o)
       PROVE  QueueInv' /\ Turns
  <2>1. WorkForm'
    BY <1>0, <1>16 DEF WebKilled, WorkForm
  <2> QED
    BY <1>0, <1>2, <1>16, <2>1 DEF WebKilled, QueueInv, QueueForm
<1>17. CASE UNCHANGED queueVars
  BY <1>0, <1>2, <1>3, <1>17 DEF queueVars, QueueInv, QueueForm
<1> QED
  BY <1>4, <1>5, <1>6, <1>7, <1>8, <1>9, <1>10, <1>11, <1>12, <1>13, <1>14, <1>15, <1>16,
     <1>17 DEF QueueNext

\* An order is in the queue once at most, and not while its claim is fresh
\* (retry_due_deliveries).
THEOREM QueueInvariant == QueueSpec => []QueueInv
<1>1. ASSUME QueueInit
      PROVE  QueueInv
  <2>1. queue = <<>> /\ queue \in Seq(Orders) /\ Len(queue) = 0
    BY <1>1 DEF QueueInit
  <2>2. Distinct(queue)
    BY <2>1 DEF Distinct
  <2>3. attempts \in [Orders -> 0 .. QueueCap]
    BY <1>1, QueueAssumption DEF QueueInit
  <2>4. QueueForm
    BY <1>1, <2>1, <2>2, <2>3 DEF QueueInit, QueueForm
  <2>5. WorkForm
    BY <1>1 DEF QueueInit, WorkForm
  <2> QED
    BY <2>4, <2>5 DEF QueueInv
<1>2. QueueInv /\ [QueueNext]_queueVars => QueueInv'
  BY QueueNextTurns
<1> QED
  BY <1>1, <1>2, PTL DEF QueueSpec

\* A due order keeps its turn until an attempt on it begins or is over: for any
\* number of orders and threads and any limits, whoever attempts others and
\* however late they finish, nothing gets in front of it but an order whose
\* claim has become stale or that comes back after its end
\* (retry_due_deliveries, _finish_delivery).
THEOREM TurnsAreKept == QueueSpec => NoOvertaking
<1>1. ASSUME QueueInv, QueueInv', Turns, NEW o \in Orders,
             Waiting(o), Place(o) <= due, Waiting(o)', Attempting(o)' = Attempting(o)
      PROVE  Place(o)' <= due' /\ Ahead(o)' \subseteq Ahead(o) \cup Forgotten \cup ended
  <2>1. PICK X \in SUBSET Forgotten,
             Y \in SUBSET {p \in Orders : Attempting(p)' # Attempting(p)} :
          QueueStep(X, Y)
    BY <1>1 DEF Turns
  <2>2. PICK i : i = Place(o) /\ i \in 1 .. Len(queue) /\ queue[i] = o
    BY <1>1, PlaceOfQueued DEF QueueInv, Waiting
  <2>3. PICK k : k = Place(o)' /\ k \in 1 .. Len(queue') /\ queue'[k] = o
    BY <1>1 DEF Waiting, Queued, Contains, Place
  <2>4. /\ k <= due'
        /\ \A m \in 1 .. k - 1 : queue'[m] \in X \/ \E j \in 1 .. i - 1 : queue'[m] = queue[j]
    BY <1>1, <2>1, <2>2, <2>3 DEF QueueStep, TurnKept
  <2>5. /\ Ahead(o) = {queue[j] : j \in 1 .. i - 1} \ ended
        /\ Ahead(o)' = {queue'[m] : m \in 1 .. k - 1} \ ended'
    BY <2>2, <2>3 DEF Ahead
  <2> QED
    BY <2>1, <2>3, <2>4, <2>5
<1>2. QueueInv /\ [QueueNext]_queueVars
        => [\A o \in Orders :
              /\ Waiting(o) /\ Place(o) <= due
              /\ Waiting(o)' /\ Attempting(o)' = Attempting(o)
              => /\ Place(o)' <= due'
                 /\ Ahead(o)' \subseteq Ahead(o) \cup Forgotten \cup ended]_queueVars
  BY <1>1, QueueNextTurns
<1> QED
  BY <1>2, QueueInvariant, PTL DEF QueueSpec, NoOvertaking
=============================================================================
