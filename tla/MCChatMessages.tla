--------------------------- MODULE MCChatMessages ---------------------------
(* Instances of ChatMessages for TLC: users, ids and slots are exchangeable. *)
EXTENDS ChatMessages, TLC

Symmetry ==
  Permutations(Users \ (Drivers \cup Movers)) \cup Permutations(Messages)
    \cup Permutations(ClientIds) \cup Permutations(Reqs)

=============================================================================
