---------------------------- MODULE ChatMessages ----------------------------
(***************************************************************************)
(* Messages, read receipts and unread counters of one chat room:           *)
(* src/src/chats/messages.service.ts.                                      *)
(*                                                                         *)
(* State: the messages of the room, with their readBy column (a JSON       *)
(* array, here the set of its members), the participants with their        *)
(* unreadCount, and the requests in flight.  A counter and the messages it *)
(* counts are written by separate statements, and readBy is sometimes      *)
(* written whole, from a value that was read before.                       *)
(*                                                                         *)
(* torn is a history variable: the users whose counter has missed the      *)
(* second statement of a request, or was raised by hand, since they last   *)
(* opened the chat.                                                        *)
(***************************************************************************)
EXTENDS Integers, FiniteSets

CONSTANTS
  Users,
  Drivers,      \* users who see messages only from the time they joined
  Movers,       \* users who are added and removed while the room is in use
  Messages,     \* ids of messages, not reused
  ClientIds,    \* the ids clients give their messages, so that they may retry
  Reqs,         \* slots for requests that run at the same time
  Traffic,      \* the kinds of requests that come in (first stages)
  MaxUnread,    \* no message is marked as unread at a higher counter
  Horizon,      \* when the clock stops
  NULL

ASSUME UsersAssumption ==
  /\ Drivers \subseteq Users /\ Movers \subseteq Users
  /\ NULL \notin Users \cup Messages \cup ClientIds
  /\ IsFiniteSet(Messages) /\ IsFiniteSet(Reqs)
ASSUME BoundsAssumption == MaxUnread \in Nat /\ Horizon \in Nat

VARIABLES
  roomType,  \* "DIRECT" stands for DIRECT and OFFER, "GROUP" for the others
  message,   \* rows of messages
  part,      \* rows of chat_room_participants; NULL where a user has none
  req,       \* the requests in flight
  now,       \* the wall clock that createdAt and joinedAt are taken from
  torn

vars == <<roomType, message, part, req, now, torn>>

-----------------------------------------------------------------------------
(* Types and lookups.                                                      *)

MsgRecord ==
  [st: {"none", "stored", "deleted"}, sender: Users \cup {NULL},
   clientMessageId: ClientIds \cup {NULL}, createdAt: Nat,
   readBy: SUBSET Users, isRead: BOOLEAN]

PartRecord == [joinedAt: Nat, unreadCount: Nat]

Stages == {"idle", "create", "read", "decrement", "unread",
           "increment", "markAll", "reset", "uncount"}

\* by asked, about message mid; users is the readBy that was read, or whom a
\* deletion still has to uncount; stamp is createdAt, or a driver's joinedAt.
ReqRecord ==
  [at: Stages, by: Users \cup {NULL}, mid: Messages \cup {NULL},
   clientMessageId: ClientIds \cup {NULL}, users: SUBSET Users, stamp: Nat]

NoMessage == [st |-> "none", sender |-> NULL, clientMessageId |-> NULL,
              createdAt |-> 0, readBy |-> {}, isRead |-> FALSE]

Idle == [at |-> "idle", by |-> NULL, mid |-> NULL, clientMessageId |-> NULL,
         users |-> {}, stamp |-> 0]

Joined(t) == [joinedAt |-> t, unreadCount |-> 0]

Row(u) == part[u] # NULL

Stored(m) == message[m].st = "stored"

Unread(u) ==
  {m \in Messages : /\ Stored(m) /\ message[m].sender # u
                    /\ u \notin message[m].readBy}

Enter(p, r) ==
  /\ req[p].at = "idle"
  /\ r.at \in Traffic
  /\ req' = [req EXCEPT ![p] = r]

\* Only the counter of the user is left to be written.
Finish(p, stage) ==
  req' = [req EXCEPT ![p] = [Idle EXCEPT !.at = stage, !.by = req[p].by]]

Leave(p) == req' = [req EXCEPT ![p] = Idle]

\* Without the floor.
DecrementedBelowZero(u) ==
  IF Row(u) THEN [part EXCEPT ![u].unreadCount = @ - 1] ELSE part

\* decrementParticipantUnreadCount(): GREATEST("unreadCount" - 1, 0)
Decremented(u) ==
  IF Row(u) /\ part[u].unreadCount > 0
  THEN [part EXCEPT ![u].unreadCount = @ - 1]
  ELSE part

\* incrementUnreadCountForOtherParticipants()
CountedByOthers(sender) ==
  [u \in Users |-> IF Row(u) /\ u # sender
                   THEN [part[u] EXCEPT !.unreadCount = @ + 1] ELSE part[u]]

-----------------------------------------------------------------------------
Init ==
  /\ roomType \in {"DIRECT", "GROUP"}
  /\ message = [m \in Messages |-> NoMessage]
  /\ \E S \in SUBSET Users :
       /\ Users \ Movers \subseteq S
       /\ roomType = "DIRECT" => Cardinality(S) = 2
       /\ part = [u \in Users |-> IF u \in S THEN Joined(0) ELSE NULL]
  /\ req = [p \in Reqs |-> Idle]
  /\ now = 0
  /\ torn = {}

-----------------------------------------------------------------------------
(* sendMessage()                                                           *)

\* The unique key on (chatRoomId, clientMessageId); NULLs are distinct.
Taken(c) == c # NULL /\ \E m \in Messages : Stored(m) /\ message[m].clientMessageId = c

\* The sender is a participant when the request comes in, and may have left
\* when the message is stored.  A message of the sender's that is there already
\* is the answer (findExistingClientOutboundMessage), and nothing is written.
SendBegin(p, u, c) ==
  /\ Row(u)
  /\ c # NULL => \A m \in Messages : /\ Stored(m) /\ message[m].sender = u
                                     => message[m].clientMessageId # c
  /\ Enter(p, [Idle EXCEPT !.at = "create", !.by = u, !.clientMessageId = c,
                           !.stamp = now])
  /\ UNCHANGED <<roomType, message, part, now, torn>>

\* A replay that counts again.
SendCreateCountsReplay(p) ==
  LET c == req[p].clientMessageId
      u == req[p].by
  IN /\ req[p].at = "create"
     /\ \/ /\ Taken(c) /\ UNCHANGED message
        \/ /\ ~Taken(c)
           /\ \E m \in Messages :
                /\ message[m].st = "none"
                /\ message' = [message EXCEPT ![m] =
                     [st |-> "stored", sender |-> u, clientMessageId |-> c,
                      createdAt |-> req[p].stamp, readBy |-> {u},
                      isRead |-> FALSE]]
     /\ part' = CountedByOthers(u)
     /\ Leave(p)
     /\ UNCHANGED <<roomType, now, torn>>

\* One transaction: the message and the counters.  P2002 undoes it, and the
\* message that is there is the answer.
SendCreate(p) ==
  LET c == req[p].clientMessageId
      u == req[p].by
  IN /\ req[p].at = "create"
     /\ \/ /\ Taken(c)
           /\ UNCHANGED <<message, part>>
        \/ /\ ~Taken(c)
           /\ \E m \in Messages :
                /\ message[m].st = "none"
                /\ message' = [message EXCEPT ![m] =
                     [st |-> "stored", sender |-> u, clientMessageId |-> c,
                      createdAt |-> req[p].stamp, readBy |-> {u},
                      isRead |-> FALSE]]
           /\ part' = CountedByOthers(u)
     /\ Leave(p)
     /\ UNCHANGED <<roomType, now, torn>>

-----------------------------------------------------------------------------
(* markMessageAsRead(), markMessageAsUnread()                              *)

ReadBegin(p, u, m) ==
  /\ Stored(m)
  /\ message[m].sender # u
  /\ u \notin message[m].readBy
  /\ Enter(p, [Idle EXCEPT !.at = "read", !.by = u, !.mid = m,
                           !.users = message[m].readBy])
  /\ UNCHANGED <<roomType, message, part, now, torn>>

\* The whole array is written, as it was read plus oneself.
ReadWrite(p) ==
  LET m == req[p].mid
  IN /\ req[p].at = "read"
     /\ Stored(m)
     /\ message' = [message EXCEPT ![m].readBy = req[p].users \cup {req[p].by},
                                   ![m].isRead = TRUE]
     /\ Finish(p, "decrement")
     /\ UNCHANGED <<roomType, part, now, torn>>

ReadDecrement(p) ==
  /\ req[p].at = "decrement"
  /\ part' = Decremented(req[p].by)
  /\ Leave(p)
  /\ UNCHANGED <<roomType, message, now, torn>>

UnreadBegin(p, u, m) ==
  /\ Stored(m)
  /\ message[m].sender # u
  /\ u \in message[m].readBy
  /\ Row(u) => part[u].unreadCount < MaxUnread
  /\ Enter(p, [Idle EXCEPT !.at = "unread", !.by = u, !.mid = m,
                           !.users = message[m].readBy])
  /\ UNCHANGED <<roomType, message, part, now, torn>>

UnreadWriteForgetsFlag(p) ==
  LET m == req[p].mid
  IN /\ req[p].at = "unread"
     /\ Stored(m)
     /\ message' = [message EXCEPT ![m].readBy = req[p].users \ {req[p].by}]
     /\ Finish(p, "increment")
     /\ UNCHANGED <<roomType, part, now, torn>>

\* In a direct room the message is unread again; elsewhere somebody read it.
UnreadWrite(p) ==
  LET m == req[p].mid
  IN /\ req[p].at = "unread"
     /\ Stored(m)
     /\ message' = [message EXCEPT
          ![m].readBy = req[p].users \ {req[p].by},
          ![m].isRead = roomType # "DIRECT" /\ message[m].isRead]
     /\ Finish(p, "increment")
     /\ UNCHANGED <<roomType, part, now, torn>>

UnreadIncrement(p) ==
  LET u == req[p].by
  IN /\ req[p].at = "increment"
     /\ Row(u)
     /\ part' = [part EXCEPT ![u].unreadCount = @ + 1]
     /\ torn' = torn \cup {u}
     /\ Leave(p)
     /\ UNCHANGED <<roomType, message, now>>

-----------------------------------------------------------------------------
(* markMessagesAsRead(), markAllMessagesAsReadByChatRooms()                *)

AllBegin(p, u) ==
  /\ Row(u)
  /\ Enter(p, [Idle EXCEPT !.at = "markAll", !.by = u,
                           !.stamp = IF u \in Drivers THEN part[u].joinedAt ELSE 0])
  /\ UNCHANGED <<roomType, message, part, now, torn>>

\* batchMarkUnreadMessagesAsReadForUser(): one UPDATE that appends to readBy.
\* excludeOwnMessages makes no difference: a sender is in readBy from the start.
AllMark(p) ==
  LET u == req[p].by
      unread(m) == /\ Stored(m)
                   /\ u \notin message[m].readBy
                   /\ message[m].createdAt >= req[p].stamp
  IN /\ req[p].at = "markAll"
     /\ message' = [m \in Messages |->
          IF unread(m) THEN [message[m] EXCEPT !.readBy = @ \cup {u},
                                               !.isRead = TRUE]
                       ELSE message[m]]
     /\ Finish(p, "reset")
     /\ UNCHANGED <<roomType, part, now, torn>>

\* resetParticipantUnreadCount()
AllReset(p) ==
  LET u == req[p].by
  IN /\ req[p].at = "reset"
     /\ part' = IF Row(u) THEN [part EXCEPT ![u].unreadCount = 0] ELSE part
     /\ torn' = torn \ {u}
     /\ Leave(p)
     /\ UNCHANGED <<roomType, message, now>>

-----------------------------------------------------------------------------
(* deleteMessage()                                                         *)

DeleteBegin(p, m) ==
  /\ Stored(m)
  /\ Enter(p, [Idle EXCEPT !.at = "uncount", !.mid = m,
       !.users = {u \in Users : /\ Row(u) /\ u # message[m].sender
                                /\ u \notin message[m].readBy}])
  /\ UNCHANGED <<roomType, message, part, now, torn>>

\* One statement for each participant who had not read the message.
DeleteUncount(p, u) ==
  /\ req[p].at = "uncount"
  /\ u \in req[p].users
  /\ part' = Decremented(u)
  /\ req' = [req EXCEPT ![p].users = @ \ {u}]
  /\ UNCHANGED <<roomType, message, now, torn>>

DeleteWrite(p) ==
  LET m == req[p].mid
  IN /\ req[p].at = "uncount"
     /\ req[p].users = {}
     /\ Stored(m)
     /\ message' = [message EXCEPT ![m] = [NoMessage EXCEPT !.st = "deleted"]]
     /\ Leave(p)
     /\ UNCHANGED <<roomType, part, now, torn>>

-----------------------------------------------------------------------------
(* Participants come and go (chat-rooms.service.ts); time and failure.     *)

\* The archive takes messages of an earlier day away, read or not.
Archive ==
  \E S \in SUBSET {m \in Messages : Stored(m) /\ message[m].createdAt < now} :
    /\ S # {}
    /\ message' = [m \in Messages |-> IF m \in S
                                     THEN [NoMessage EXCEPT !.st = "deleted"]
                                     ELSE message[m]]
    /\ torn' = torn \cup {u \in Users : Unread(u) \cap S # {}}
    /\ UNCHANGED <<roomType, part, req, now>>

\* addParticipantsToRoom()
Join(u) ==
  /\ ~Row(u)
  /\ part' = [part EXCEPT ![u] = Joined(now)]
  /\ torn' = torn \ {u}
  /\ UNCHANGED <<roomType, message, req, now>>

\* removeParticipant()
Quit(u) ==
  /\ Row(u)
  /\ part' = [part EXCEPT ![u] = NULL]
  /\ UNCHANGED <<roomType, message, req, now, torn>>

Tick ==
  /\ now < Horizon
  /\ now' = now + 1
  /\ UNCHANGED <<roomType, message, part, req, torn>>

\* A request ends where it stands: a row is gone, the database fails, or the
\* process stops.  The statements before it stay.
Fail(p) ==
  /\ req[p].at # "idle"
  /\ torn' = IF req[p].at \in {"decrement", "reset"}
             THEN torn \cup {req[p].by} ELSE torn
  /\ Leave(p)
  /\ UNCHANGED <<roomType, message, part, now>>

-----------------------------------------------------------------------------
\* A request comes in.
Begin(p) ==
  \/ \E u \in Users, c \in ClientIds \cup {NULL} : SendBegin(p, u, c)
  \/ \E u \in Users, m \in Messages : ReadBegin(p, u, m) \/ UnreadBegin(p, u, m)
  \/ \E u \in Users : AllBegin(p, u)
  \/ \E m \in Messages : DeleteBegin(p, m)

\* A request goes on, or ends.
Proceed(p) ==
  \/ SendCreate(p)
  \/ ReadWrite(p) \/ ReadDecrement(p)
  \/ UnreadWrite(p) \/ UnreadIncrement(p)
  \/ AllMark(p) \/ AllReset(p)
  \/ \E u \in Users : DeleteUncount(p, u)
  \/ DeleteWrite(p)
  \/ Fail(p)

Next ==
  \/ \E p \in Reqs : Begin(p) \/ Proceed(p)
  \/ \E u \in Movers : Join(u) \/ Quit(u)
  \/ Archive
  \/ Tick

Spec == Init /\ [][Next]_vars

-----------------------------------------------------------------------------
(* Properties.                                                             *)

\* The rows and the requests keep their shape.
TypeOK ==
  /\ roomType \in {"DIRECT", "GROUP"}
  /\ message \in [Messages -> MsgRecord]
  /\ part \in [Users -> PartRecord \cup {NULL}]
  /\ req \in [Reqs -> ReqRecord]
  /\ now \in Nat
  /\ torn \subseteq Users

\* Requests that have marked a message for u and not yet counted it.
Reading(u) == {p \in Reqs : req[p].at = "decrement" /\ req[p].by = u}

\* The unread badge never promises more than there is: retried sends count
\* once, and lost readBy entries, replayed reads and deletions at the same time
\* only take from it.  A request that dies half-way, or a message marked as
\* unread by hand, may leave it too high until the user opens the chat.
BadgeBacked ==
  \A u \in Users :
    /\ Row(u) /\ u \notin torn
    /\ \A p \in Reqs : ~(req[p].at = "reset" /\ req[p].by = u)
    => part[u].unreadCount <= Cardinality(Unread(u)) + Cardinality(Reading(u))

\* The flag isRead and the list of readers are written together, by requests
\* that overwrite each other's list.  The flag of a room of two never speaks of
\* a reader who is not on the list, and no reader is on it without the flag
\* where the flag is never taken back.
ReceiptAgrees ==
  \A m \in Messages : Stored(m) =>
    LET others == message[m].readBy \ {message[m].sender}
    IN IF roomType = "DIRECT" THEN message[m].isRead => others # {}
                              ELSE others # {} => message[m].isRead

=============================================================================
