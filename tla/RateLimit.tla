------------------------------ MODULE RateLimit ------------------------------
(***************************************************************************)
(* The limit on failed access keys (services.py), for one client address.  *)
(*                                                                         *)
(* verify_buyer_key counts the failures of the address in one statement,   *)
(* looks the key up, and records the result when it commits.  The threads  *)
(* of the service run it concurrently, and nothing is locked in between.   *)
(* Time is relative: the age of a recorded failure counts up to Gone,      *)
(* where it is no longer in the window.                                    *)
(***************************************************************************)
EXTENDS Integers, FiniteSets

CONSTANTS
  Requests,  \* requests the service can run at once
  Rows,      \* places for rows of access_attempts, reused
  Limit,     \* RATE_LIMIT_ATTEMPTS
  Window     \* RATE_LIMIT_WINDOW_SECONDS

ASSUME RateAssumption ==
  /\ Limit \in Nat \ {0}
  /\ Window \in Nat
  /\ IsFiniteSet(Requests)
  /\ IsFiniteSet(Rows)
  /\ Cardinality(Rows) >= Limit - 1 + Cardinality(Requests)

VARIABLES
  age,    \* row -> its age, or Gone when it is free or out of the window
  guess   \* request -> what the key it tries turns out to be

rateVars == <<age, guess>>

Gone == Window + 1

\* The keys that count when they are refused, and the one that opens.
Failing == {"unknown", "revoked", "expired"}

RateInit ==
  /\ age = [i \in Rows |-> Gone]
  /\ guess = [r \in Requests |-> "none"]

\* Rows the query of is_rate_limited counts.
Counted == {i \in Rows : age[i] <= Window}

Admitted == {r \in Requests : guess[r] # "none"}

\* Faulty variant: the limit itself is still allowed.
IsRateLimited_OffByOne == Cardinality(Counted) > Limit

IsRateLimited == Cardinality(Counted) >= Limit

\* verify_buyer_key up to the look-up of the key.
Admit(r) ==
  /\ guess[r] = "none"
  /\ ~IsRateLimited
  /\ \E k \in Failing \cup {"good"} : guess' = [guess EXCEPT ![r] = k]
  /\ UNCHANGED age

\* A row for the failure, created now, in a place that is free.
LogAttempt ==
  LET i == CHOOSE i \in Rows : \A j \in Rows : age[j] <= age[i]
  IN age' = [age EXCEPT ![i] = 0]

\* Faulty variant: an attempt that is turned away is recorded as well.
TurnAway_Logged(r) ==
  /\ guess[r] = "none"
  /\ IsRateLimited
  /\ LogAttempt
  /\ UNCHANGED guess

\* An attempt that is turned away leaves no trace.
TurnAway(r) ==
  /\ guess[r] = "none"
  /\ IsRateLimited
  /\ UNCHANGED rateVars

\* The key is refused and the failure committed.
Fail(r) ==
  /\ guess[r] \in Failing
  /\ LogAttempt
  /\ guess' = [guess EXCEPT ![r] = "none"]

\* The key is good: the row says "success" and is never counted.  Or the
\* request is killed before its commit, and the buyer has no answer.
Leave(r) ==
  /\ guess[r] # "none"
  /\ guess' = [guess EXCEPT ![r] = "none"]
  /\ UNCHANGED age

Tick ==
  /\ age' = [i \in Rows |-> IF age[i] <= Window THEN age[i] + 1 ELSE Gone]
  /\ UNCHANGED guess

RateNext ==
  \/ \E r \in Requests : Admit(r) \/ TurnAway(r) \/ Fail(r) \/ Leave(r)
  \/ Tick

RateSpec == RateInit /\ [][RateNext]_rateVars

\* Time passes; that is all the return of a locked address relies on.
RateFairness == WF_rateVars(Tick)

----------------------------------------------------------------------------
(* Properties.                                                             *)

\* The type of the state.
RateTypeOK ==
  /\ age \in [Rows -> 0 .. Gone]
  /\ guess \in [Requests -> Failing \cup {"none", "good"}]

\* However requests interleave, an address has less than Limit failures in
\* any window plus one for each request the service runs at once: counting
\* before and recording after the look-up costs no more than that
\* (is_rate_limited and log_attempt in verify_buyer_key).
BoundedFailures == Cardinality(Counted) <= Limit - 1 + Cardinality(Requests)

\* An address that is locked out is let in again, even if it never stops
\* trying meanwhile: attempts that are turned away do not prolong the lock-out
\* (verify_buyer_key raises before it records).
LockEnds == IsRateLimited ~> ~IsRateLimited
=============================================================================
