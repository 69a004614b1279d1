---------------------------- MODULE MCChatGateway ------------------------------
(* Instances of ChatGateway for TLC. *)
EXTENDS ChatGateway, TLC

CONSTANTS u1, u2, p1, p2, s1, s2, s3, r1, r2

\* The first user has two sockets.
All == {s1, s2, s3}

Base ==
  [socks |-> All, up |-> {}, stay |-> {}, events |-> {}, typing |-> {}, kinds |-> {}, fails |-> FALSE,
   owner |-> (s1 :> u1 @@ s2 :> u1 @@ s3 :> u2), newest |-> (u1 :> s2 @@ u2 :> s3),
   chat |-> r1, part |-> [r \in Chats |-> IF r = r1 THEN Users ELSE {}]]

\* Presence, in two chats, with failures, and with a user who types.
M1 == [Base EXCEPT !.part = [r \in Chats |-> Users]]
M2 == [Base EXCEPT !.fails = TRUE]
M3 == [Base EXCEPT !.up = {s1, s3}, !.stay = {s3}, !.socks = {s2},
                   !.newest = (u1 :> s1 @@ u2 :> s3),
                   !.events = {"start", "stop"}, !.typing = {u1}]

\* Clients that stay connected while the rows of their chat, a group, change.
M4 == [Base EXCEPT !.up = All, !.stay = All, !.kinds = {"send", "open", "read", "unread", "delete"}]
M5 == [Base EXCEPT !.up = All, !.stay = All, !.kinds = {"add", "remove", "leave", "erase"},
                   !.events = {"join"}, !.typing = {u1}]
M6 == [M5 EXCEPT !.kinds = {"create", "add", "remove"}, !.events = {},
                 !.part = [r \in Chats |-> {}]]
M7 == [M4 EXCEPT !.kinds = {"send", "read"}, !.fails = TRUE]

\* The same for a direct chat, which is hidden, shown and opened again.
M8 == [M5 EXCEPT !.kinds = {"hide", "restore", "reopen", "erase"}]

Mixed == {M1, M2, M3, M4, M5, M6, M7, M8}

=============================================================================
