--------------------------- MODULE MCBuyerAccess ---------------------------
(* Instances of BuyerAccess for model checking.                            *)
EXTENDS Renewal, TLC

\* Requests, sessions and addresses are interchangeable.
Symmetry ==
  Permutations(Requests) \cup Permutations(Sessions) \cup Permutations(Addresses)
=============================================================================
