------------------------------- MODULE MCHiring -------------------------------
(* Hiring with candidates who share one address. *)
EXTENDS Hiring, TLC

CONSTANTS shared
SharedEmail == [k \in Hires |-> shared]

\* The second offer is made while only one of them has applied.
OffersInTurn == Cardinality(OffersMade) <= 1 \/ \E k \in Candidates : stage[k] = "NONE"
MCSpec == Init /\ [][Next /\ OffersInTurn']_vars

Symmetry == Permutations(Calls) \cup Permutations(Hires)
===============================================================================
