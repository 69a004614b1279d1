---------------------------- MODULE MCBidAuction ----------------------------
(* Instance of BidAuction for TLC: its slots and the other members are alike. *)
EXTENDS BidAuction, TLC

Symmetry == Permutations(Users \ {Owner}) \cup Permutations(Reqs \ Cron) \cup
            Permutations(Cron)

=============================================================================
