----------------------------- MODULE G2GPayload -----------------------------
(***************************************************************************)
(* What the portal reads out of the marketplace's documents (g2g.py): the  *)
(* delivery item an order's key is handed over under, and whether an item  *)
(* is delivered.                                                           *)
(*                                                                         *)
(* A document is JSON whose shape the code leaves open: it walks all       *)
(* objects, an object before those in it.  Here it is the sequence of      *)
(* objects in that order, and an object is the four fields that are read   *)
(* (Absent: not there, or empty).  A step adds an object to one of the two *)
(* documents, so that the states are all documents of a bounded size.      *)
(***************************************************************************)
EXTENDS Naturals, Sequences, FiniteSets

CONSTANTS
  ItemIds,     \* delivery item ids
  Offers,      \* offer ids
  offer,       \* offer_id of the order
  Statuses,    \* what status fields say: of pending, delivered (for four
               \* words of the code that it treats alike) and complete
  MaxObjects,  \* bound: objects in both documents
  Absent       \* a field that is not there, or empty

ASSUME PayloadAssumption == Absent \notin ItemIds \cup Statuses \cup {"delivered", "complete"}

VARIABLES
  payload,  \* the payload of the order's last event
  answer    \* what Get Deliveries or Get Delivery Status answers

vars == <<payload, answer>>

Object == [delivery_id : ItemIds \cup {Absent}, offer_id : Offers \cup {Absent},
           delivery_status : Statuses \cup {Absent}, status : Statuses \cup {Absent}]

Init == payload = <<>> /\ answer = <<>>

AddToPayload ==
  /\ Len(payload) + Len(answer) < MaxObjects
  /\ \E obj \in Object : payload' = Append(payload, obj)
  /\ UNCHANGED answer

AddToAnswer ==
  /\ Len(payload) + Len(answer) < MaxObjects
  /\ \E obj \in Object : answer' = Append(answer, obj)
  /\ UNCHANGED payload

Next == AddToPayload \/ AddToAnswer

Spec == Init /\ [][Next]_vars

----------------------------------------------------------------------------
(* The code.                                                               *)

\* Faulty variant: an object that repeats an item is a candidate too.
Candidates_Repeated(doc) ==
  {doc[i] : i \in {j \in DOMAIN doc : doc[j].delivery_id # Absent}}

\* delivery_candidates: for each item the first object that names it.
Candidates(doc) ==
  {doc[i] : i \in {j \in DOMAIN doc :
                     /\ doc[j].delivery_id # Absent
                     /\ \A k \in 1 .. j - 1 : doc[k].delivery_id # doc[j].delivery_id}}

OrElse(S, T) == IF S # {} THEN S ELSE T

\* Not one of delivered, completed, success, succeeded.
LooksPending(c) ==
  LET said == IF c.delivery_status # Absent THEN c.delivery_status ELSE c.status
  IN said # "delivered"

Pool(candidates) ==
  LET matching == OrElse({c \in candidates : c.offer_id = offer}, candidates)
  IN OrElse({c \in matching : LooksPending(c)}, matching)

\* resolve_delivery_id: an item, or Absent for the two errors.
Resolve ==
  LET candidates == OrElse(Candidates(payload), Candidates(answer))
      identifiers == {c.delivery_id : c \in Pool(candidates)}
  IN IF Cardinality(identifiers) = 1 THEN CHOOSE d \in identifiers : TRUE ELSE Absent

\* The first of a set of places in a document; 0 if there is none.
First(places) ==
  IF places = {} THEN 0 ELSE CHOOSE i \in places : \A j \in places : i <= j

\* Faulty variant: the status of any object is taken for a delivery's.
StatusValue_Generic(doc) ==
  LET explicit == First({i \in DOMAIN doc : doc[i].delivery_status # Absent})
      implied == First({i \in DOMAIN doc : doc[i].status # Absent})
  IN IF explicit > 0 THEN doc[explicit].delivery_status
     ELSE IF implied > 0 THEN doc[implied].status ELSE Absent

\* delivery_status_value: the status of the first object with a delivery_status,
\* else of the first that names an item and has a status.
StatusValue(doc) ==
  LET explicit == First({i \in DOMAIN doc : doc[i].delivery_status # Absent})
      implied == First({i \in DOMAIN doc : doc[i].delivery_id # Absent /\ doc[i].status # Absent})
  IN IF explicit > 0 THEN doc[explicit].delivery_status
     ELSE IF implied > 0 THEN doc[implied].status ELSE Absent

\* delivery_is_complete
IsComplete(doc) == StatusValue(doc) \in {"delivered", "complete"}

----------------------------------------------------------------------------
(* What the documents mean.                                                *)

Objects(doc) == {doc[i] : i \in DOMAIN doc}

\* What a document says of an item, whichever object says it.
About(doc, d) == {obj \in Objects(doc) : obj.delivery_id = d}
Named(doc) == {d \in ItemIds : About(doc, d) # {}}
ForOffer(doc, d) == \E obj \in About(doc, d) : obj.offer_id = offer
Word(obj) == IF obj.delivery_status # Absent THEN obj.delivery_status ELSE obj.status
Delivered(doc, d) == \E obj \in About(doc, d) : Word(obj) \in {"delivered", "complete"}

\* The items the order can mean: those of its offer if any is, and of these
\* the ones not delivered yet if there are any.
Meant(doc) ==
  LET matching == OrElse({d \in Named(doc) : ForOffer(doc, d)}, Named(doc))
  IN OrElse({d \in matching : ~Delivered(doc, d)}, matching)

\* The document resolve_delivery_id goes by.
Source == IF Named(payload) # {} THEN payload ELSE answer

\* The first object that names an item says all that later ones say of it.
FirstSaysAll(doc) ==
  \A d \in Named(doc) :
    LET c == doc[First({i \in DOMAIN doc : doc[i].delivery_id = d})] IN
    /\ ForOffer(doc, d) => c.offer_id = offer
    /\ Delivered(doc, d) => Word(c) \in {"delivered", "complete"}

\* What is said of deliveries: every delivery_status, and the status of an item.
Reports(doc) ==
  ({obj.delivery_status : obj \in Objects(doc)}
     \cup {obj.status : obj \in {x \in Objects(doc) : x.delivery_id # Absent}}) \ {Absent}

----------------------------------------------------------------------------
(* Properties.                                                             *)

\* If the first object of each item says all there is and no status is
\* "complete", the code chooses exactly the item that the document means and
\* refuses when it means none or several, wherever items stand, are repeated
\* or carry their status (resolve_delivery_id, delivery_candidates).
ResolvesWhatIsMeant ==
  /\ FirstSaysAll(Source)
  /\ \A obj \in Objects(Source) : Word(obj) # "complete"
  => Resolve = IF Cardinality(Meant(Source)) = 1
               THEN CHOOSE d \in Meant(Source) : TRUE ELSE Absent

\* A document whose reports on deliveries all say the same is understood so,
\* in whichever objects and fields they stand and whatever the status of the
\* answer itself is (delivery_status_value; the test
\* test_reconciliation_ignores_generic_api_success_status).
StatusAsReported ==
  \A doc \in {payload, answer} :
    Cardinality(Reports(doc)) <= 1 =>
      /\ StatusValue(doc) = IF Reports(doc) = {} THEN Absent
                            ELSE CHOOSE said \in Reports(doc) : TRUE
      /\ IsComplete(doc) <=> Reports(doc) \in {{"delivered"}, {"complete"}}
=============================================================================
