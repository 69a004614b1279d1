--------------------------- MODULE MCOfferBidding ---------------------------
(* Instance of OfferBidding for TLC: the symmetry of its sets of ids. *)
EXTENDS OfferBidding, TLC

Symmetry == Permutations(Offers) \cup Permutations(Rows) \cup
            Permutations(Drivers) \cup Permutations(Staff) \cup
            Permutations(Loads) \cup Permutations(Reqs)

=============================================================================
