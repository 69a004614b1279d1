----------------------------- MODULE MCChatRooms -----------------------------
(* Instances of ChatRooms for TLC. *)
EXTENDS ChatRooms, TLC

CONSTANTS u1, u2, u3, p1, p2

M(kinds, users, rooms) == [kinds |-> kinds, users |-> users, rooms |-> rooms]

Mixed ==
  {M({"open", "delete", "send"}, {u1, u2}, 1),
   M({"bulk", "delete"}, {u1, u2}, 2),
   M({"bulk"}, {u1, u2, u3}, 2),
   M({"offer", "delete", "send"}, {u1, u2}, 1),
   M({"open", "add", "remove", "delete"}, {u1, u2, u3}, 1),
   M({"group", "add", "remove", "delete"}, {u1, u2, u3}, 1),
   M({"group", "mute", "pin", "muteRooms"}, {u1, u2}, 1),
   M({"open", "delete"}, {u1, u2}, 3),
   M({"open", "archive"}, {u1, u2}, 2)}

Symmetry == Permutations({p1, p2}) \cup Permutations({u1, u2})

=============================================================================
