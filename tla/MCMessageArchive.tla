--------------------------- MODULE MCMessageArchive ---------------------------
(* Instances of MessageArchive for TLC. *)
EXTENDS MessageArchive

CONSTANTS a, b

P(room, local, utc) == [room |-> room, local |-> local, utc |-> utc]

\* Two messages of one day and one of the next; a message that is a day ahead in
\* UTC; one day only; two rooms.
TwoDays == <<P(a, 1, 1), P(a, 1, 1), P(a, 2, 2)>>
Shifted == <<P(a, 1, 1), P(a, 1, 2)>>
OneDay == <<P(a, 1, 1), P(a, 1, 1)>>
TwoRooms == <<P(a, 1, 1), P(b, 1, 1), P(a, 1, 1)>>

M(kinds, posts, heads, fails, crash, removes) ==
  [kinds |-> kinds, posts |-> posts, heads |-> heads, fails |-> fails,
   crash |-> crash, removes |-> removes]

M1 == M({"daily", "weekly"}, TwoDays, FALSE, FALSE, FALSE, FALSE)
M2 == M({"daily"}, OneDay, TRUE, TRUE, TRUE, TRUE)
M3 == M({"daily", "full"}, Shifted, FALSE, FALSE, FALSE, FALSE)
M4 == M({"full"}, TwoDays, FALSE, TRUE, TRUE, FALSE)
M5 == M({"full", "restore"}, OneDay, FALSE, TRUE, FALSE, FALSE)
M6 == M({"daily", "cleanup"}, OneDay, FALSE, TRUE, FALSE, FALSE)
M7 == M({"weekly", "restore"}, OneDay, TRUE, FALSE, FALSE, TRUE)
M8 == M({"weekly", "full"}, OneDay, FALSE, TRUE, FALSE, TRUE)
M9 == M({"weekly"}, TwoRooms, FALSE, TRUE, FALSE, FALSE)

Mixed == {M1, M2, M3, M4, M5, M6, M7, M8, M9}
Plain == {M({"daily", "full"}, TwoDays, FALSE, FALSE, FALSE, FALSE)}

=============================================================================
