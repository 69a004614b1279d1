------------------------- MODULE ChatMessagesProofs -------------------------
(***************************************************************************)
(* Theorems about ChatMessages, for any users, messages and requests.      *)
(*                                                                         *)
(* BadgeBacked is not inductive: a request that has read the list of       *)
(* readers of a message may still take the message away from users it      *)
(* counts for.  Counted leaves these messages out.                         *)
(***************************************************************************)
EXTENDS ChatMessages, FiniteSetTheorems, TLAPS

USE UsersAssumption, BoundsAssumption

-----------------------------------------------------------------------------
(* How a slot changes.                                                     *)

\* A request comes into its slot, and the other slots wait.
LEMMA EnterSlot ==
  ASSUME TypeOK, NEW p \in Reqs, NEW r, Enter(p, r)
  PROVE  /\ req[p].at = "idle" /\ req'[p] = r
         /\ \A q \in Reqs : q # p => req'[q] = req[q]
         /\ r \in ReqRecord => req' \in [Reqs -> ReqRecord]
BY DEF TypeOK, Enter

\* A slot is idle when its request leaves.
LEMMA LeaveSlot ==
  ASSUME TypeOK, NEW p \in Reqs, Leave(p)
  PROVE  /\ req'[p] = Idle
         /\ \A q \in Reqs : q # p => req'[q] = req[q]
         /\ req' \in [Reqs -> ReqRecord]
<1>1. Idle \in ReqRecord  BY DEF Idle, ReqRecord, Stages
<1> QED  BY <1>1 DEF TypeOK, Leave

\* Only the user is kept until the counter is written.
LEMMA FinishSlot ==
  ASSUME TypeOK, NEW p \in Reqs, NEW stage \in Stages, Finish(p, stage)
  PROVE  /\ req'[p] = [Idle EXCEPT !.at = stage, !.by = req[p].by]
         /\ req'[p].at = stage /\ req'[p].by = req[p].by
         /\ \A q \in Reqs : q # p => req'[q] = req[q]
         /\ req' \in [Reqs -> ReqRecord]
<1>1. req[p] \in ReqRecord  BY DEF TypeOK
<1>2. [Idle EXCEPT !.at = stage, !.by = req[p].by] \in ReqRecord
  BY <1>1 DEF Idle, ReqRecord, Stages
<1>3. /\ [Idle EXCEPT !.at = stage, !.by = req[p].by].at = stage
      /\ [Idle EXCEPT !.at = stage, !.by = req[p].by].by = req[p].by
  BY DEF Idle
<1> QED  BY <1>2, <1>3 DEF TypeOK, Finish

-----------------------------------------------------------------------------
(* Types.                                                                  *)

\* Writing one counter, or none, keeps the rows well-formed.
LEMMA CounterTypes ==
  ASSUME TypeOK, NEW u \in Users
  PROVE  /\ Decremented(u) \in [Users -> PartRecord \cup {NULL}]
         /\ CountedByOthers(u) \in [Users -> PartRecord \cup {NULL}]
         /\ Row(u) => [part EXCEPT ![u].unreadCount = @ + 1]
                        \in [Users -> PartRecord \cup {NULL}]
         /\ Row(u) => [part EXCEPT ![u].unreadCount = 0]
                        \in [Users -> PartRecord \cup {NULL}]
<1>1. part \in [Users -> PartRecord \cup {NULL}]  BY DEF TypeOK
<1>2. \A v \in Users : Row(v) =>
        /\ part[v] \in PartRecord
        /\ [part[v] EXCEPT !.unreadCount = @ + 1] \in PartRecord
        /\ [part[v] EXCEPT !.unreadCount = 0] \in PartRecord
        /\ part[v].unreadCount > 0 =>
             [part[v] EXCEPT !.unreadCount = @ - 1] \in PartRecord
  BY <1>1 DEF Row, PartRecord
<1>3. Decremented(u) \in [Users -> PartRecord \cup {NULL}]
  <2>1. CASE Row(u) /\ part[u].unreadCount > 0
    <3>1. Decremented(u) = [part EXCEPT ![u] =
                              [part[u] EXCEPT !.unreadCount = @ - 1]]
      BY <2>1 DEF Decremented
    <3>2. [part[u] EXCEPT !.unreadCount = @ - 1] \in PartRecord \cup {NULL}
      BY <1>2, <2>1
    <3> QED  BY <1>1, <3>1, <3>2
  <2>2. CASE ~(Row(u) /\ part[u].unreadCount > 0)
    BY <1>1, <2>2 DEF Decremented
  <2> QED  BY <2>1, <2>2
<1>4. CountedByOthers(u) \in [Users -> PartRecord \cup {NULL}]
  BY <1>1, <1>2 DEF CountedByOthers
<1>5. Row(u) => [part EXCEPT ![u].unreadCount = @ + 1]
                  \in [Users -> PartRecord \cup {NULL}]
  <2>1. Row(u) => [part[u] EXCEPT !.unreadCount = @ + 1] \in PartRecord \cup {NULL}
    BY <1>2
  <2> QED  BY <1>1, <2>1
<1>6. Row(u) => [part EXCEPT ![u].unreadCount = 0]
                  \in [Users -> PartRecord \cup {NULL}]
  <2>1. Row(u) => [part[u] EXCEPT !.unreadCount = 0] \in PartRecord \cup {NULL}
    BY <1>2
  <2> QED  BY <1>1, <2>1
<1> QED  BY <1>3, <1>4, <1>5, <1>6

\* Requests in flight know who asked and which message it is about.
Informed ==
  \A p \in Reqs :
    /\ req[p].at \in {"create", "read", "decrement", "unread", "increment",
                      "markAll", "reset"} => req[p].by \in Users
    /\ req[p].at \in {"read", "unread", "uncount"} =>
         /\ req[p].mid \in Messages
         /\ message[req[p].mid].st # "none"

TypeInv == TypeOK /\ Informed

\* A step that changes one slot only has to tell the request in it.
LEMMA InformedSlot ==
  ASSUME Informed, NEW p \in Reqs,
         \A q \in Reqs : q # p => req'[q] = req[q],
         \A k \in Messages : message[k].st # "none" => message'[k].st # "none",
         req'[p].at \in {"create", "read", "decrement", "unread", "increment",
                         "markAll", "reset"} => req'[p].by \in Users,
         req'[p].at \in {"read", "unread", "uncount"} =>
           /\ req'[p].mid \in Messages
           /\ message'[req'[p].mid].st # "none"
  PROVE  Informed'
<1> SUFFICES ASSUME NEW q \in Reqs
             PROVE /\ req'[q].at \in {"create", "read", "decrement", "unread",
                        "increment", "markAll", "reset"} => req'[q].by \in Users
                   /\ req'[q].at \in {"read", "unread", "uncount"} =>
                        /\ req'[q].mid \in Messages
                        /\ message'[req'[q].mid].st # "none"
  BY DEF Informed
<1>1. CASE q = p  BY <1>1
<1>2. CASE q # p
  <2>1. req'[q] = req[q]  BY <1>2
  <2> QED  BY <2>1 DEF Informed
<1> QED  BY <1>1, <1>2

\* The list of readers and the flag may be written with any value.
LEMMA ReceiptTypes ==
  ASSUME NEW r \in MsgRecord, NEW S \in SUBSET Users, NEW b \in BOOLEAN
  PROVE  [r EXCEPT !.readBy = S, !.isRead = b] \in MsgRecord
BY DEF MsgRecord

LEMMA TypeInitially == Init => TypeInv
<1> SUFFICES ASSUME Init PROVE TypeInv
  OBVIOUS
<1>1. NoMessage \in MsgRecord /\ Idle \in ReqRecord /\ Joined(0) \in PartRecord
  BY DEF NoMessage, MsgRecord, Idle, ReqRecord, Stages, Joined, PartRecord
<1>2. TypeOK  BY <1>1 DEF Init, TypeOK
<1>3. Informed  BY DEF Init, Informed, Idle
<1> QED  BY <1>2, <1>3 DEF TypeInv

\* What a step does to requests: one that goes on keeps what it knows, one that
\* begins is told.
LEMMA TypeStep == TypeInv /\ [Next]_vars => TypeInv'
<1> SUFFICES ASSUME TypeInv, [Next]_vars PROVE TypeInv'
  OBVIOUS
<1> USE DEF TypeInv
<1>a. /\ message \in [Messages -> MsgRecord] /\ req \in [Reqs -> ReqRecord]
      /\ part \in [Users -> PartRecord \cup {NULL}] /\ now \in Nat
      /\ torn \subseteq Users /\ roomType \in {"DIRECT", "GROUP"}
  BY DEF TypeOK
<1>b. ASSUME NEW p \in Reqs, Leave(p), message' = message  PROVE Informed'
  BY <1>b, LeaveSlot DEF Informed, Idle
<1>1. ASSUME NEW p \in Reqs, NEW u \in Users, NEW c \in ClientIds \cup {NULL},
             SendBegin(p, u, c)
      PROVE  TypeInv'
  <2> DEFINE r == [Idle EXCEPT !.at = "create", !.by = u,
                               !.clientMessageId = c, !.stamp = now]
  <2>1. r \in ReqRecord  BY <1>a DEF Idle, ReqRecord, Stages
  <2>2. Enter(p, r)  BY <1>1 DEF SendBegin
  <2>3. TypeOK'  BY <1>1, <2>1, <2>2, EnterSlot DEF SendBegin, TypeOK
  <2>4. r.at = "create" /\ r.by = u  BY DEF Idle
  <2>5. message' = message /\ req'[p] = r /\ \A q \in Reqs : q # p => req'[q] = req[q]
    BY <1>1, <2>2, EnterSlot DEF SendBegin
  <2>6. Informed'
    <3> HIDE DEF r
    <3> QED  BY <2>4, <2>5, InformedSlot
  <2> QED  BY <2>3, <2>6
<1>2. ASSUME NEW p \in Reqs, SendCreate(p)  PROVE TypeInv'
  <2>0. Leave(p) /\ req[p].by \in Users
    BY <1>2 DEF SendCreate, Informed
  <2>1. part' \in [Users -> PartRecord \cup {NULL}]
    <3>1. PICK u \in Users : u = req[p].by  BY <2>0
    <3>2. part' = part \/ part' = CountedByOthers(u)
      BY <1>2, <3>1 DEF SendCreate
    <3>3. CountedByOthers(u) \in [Users -> PartRecord \cup {NULL}]
      BY CounterTypes
    <3> QED  BY <1>a, <3>2, <3>3
  <2>2. CASE message' = message
    <3>1. TypeOK'  BY <1>2, <2>0, <2>1, <2>2, LeaveSlot DEF SendCreate, TypeOK
    <3> QED  BY <1>b, <2>0, <2>2, <3>1
  <2>3. CASE message' # message
    <3>1. PICK m \in Messages : message' = [message EXCEPT ![m] =
                     [st |-> "stored", sender |-> req[p].by,
                      clientMessageId |-> req[p].clientMessageId,
                      createdAt |-> req[p].stamp, readBy |-> {req[p].by},
                      isRead |-> FALSE]]
      BY <1>2, <2>3 DEF SendCreate
    <3>2. [st |-> "stored", sender |-> req[p].by,
           clientMessageId |-> req[p].clientMessageId,
           createdAt |-> req[p].stamp, readBy |-> {req[p].by},
           isRead |-> FALSE] \in MsgRecord
      BY <1>a, <2>0 DEF MsgRecord, ReqRecord
    <3>3. message' \in [Messages -> MsgRecord]
      BY <1>a, <3>1, <3>2
    <3>4. TypeOK'  BY <1>2, <2>0, <2>1, <3>3, LeaveSlot DEF SendCreate, TypeOK
    <3>5. \A k \in Messages : message'[k].st # message[k].st => message'[k].st = "stored"
      BY <1>a, <3>1
    <3>6. Informed'
      BY <2>0, <3>5, LeaveSlot DEF Informed, Idle
    <3> QED  BY <3>4, <3>6
  <2> QED  BY <2>2, <2>3
<1>3. ASSUME NEW p \in Reqs, NEW u \in Users, NEW m \in Messages,
             ReadBegin(p, u, m) \/ UnreadBegin(p, u, m)
      PROVE  TypeInv'
  <2> DEFINE r(s) == [Idle EXCEPT !.at = s, !.by = u, !.mid = m,
                                  !.users = message[m].readBy]
  <2>1. PICK s \in {"read", "unread"} : Enter(p, r(s))
    BY <1>3 DEF ReadBegin, UnreadBegin
  <2>2. r(s) \in ReqRecord
    BY <1>a DEF Idle, ReqRecord, Stages, MsgRecord
  <2>3. /\ message' = message /\ Stored(m)
        /\ UNCHANGED <<roomType, message, part, now, torn>>
    BY <1>3 DEF ReadBegin, UnreadBegin
  <2>4. TypeOK'
    <3> HIDE DEF r
    <3> QED  BY <2>1, <2>2, <2>3, EnterSlot DEF TypeOK
  <2>5. r(s).at = s /\ r(s).by = u /\ r(s).mid = m  BY DEF Idle
  <2>6. req'[p] = r(s) /\ \A q \in Reqs : q # p => req'[q] = req[q]
    <3> HIDE DEF r
    <3> QED  BY <2>1, EnterSlot
  <2>7. Informed'
    <3> HIDE DEF r
    <3> QED  BY <2>3, <2>5, <2>6, InformedSlot DEF Stored
  <2> QED  BY <2>4, <2>7
<1>4. ASSUME NEW p \in Reqs, ReadWrite(p) \/ UnreadWrite(p)  PROVE TypeInv'
  <2> DEFINE m == req[p].mid
  <2>1. m \in Messages /\ Stored(m) /\ req[p].by \in Users
        /\ req[p].users \subseteq Users
    BY <1>4, <1>a DEF ReadWrite, UnreadWrite, Informed, ReqRecord
  <2>2. PICK S \in SUBSET Users, b \in BOOLEAN :
          message' = [message EXCEPT ![m] = [message[m] EXCEPT !.readBy = S,
                                                               !.isRead = b]]
    <3>1. message[m] \in MsgRecord  BY <1>a, <2>1
    <3>2. CASE ReadWrite(p)
      BY <1>a, <2>1, <3>1, <3>2 DEF ReadWrite, MsgRecord
    <3>3. CASE UnreadWrite(p)
      BY <1>a, <2>1, <3>1, <3>3 DEF UnreadWrite, MsgRecord
    <3> QED  BY <1>4, <3>2, <3>3
  <2>3. message' \in [Messages -> MsgRecord]
    <3>1. message[m] \in MsgRecord  BY <1>a, <2>1
    <3>2. [message[m] EXCEPT !.readBy = S, !.isRead = b] \in MsgRecord
      BY <3>1, ReceiptTypes
    <3> QED  BY <1>a, <2>2, <3>2
  <2>4. PICK stage \in {"decrement", "increment"} : Finish(p, stage)
    BY <1>4 DEF ReadWrite, UnreadWrite
  <2>5. stage \in Stages  BY DEF Stages
  <2>6. UNCHANGED <<roomType, part, now, torn>>
    BY <1>4 DEF ReadWrite, UnreadWrite
  <2>7. TypeOK'  BY <2>3, <2>4, <2>5, <2>6, FinishSlot DEF TypeOK
  <2>8. \A k \in Messages : message'[k].st = message[k].st
    BY <1>a, <2>1, <2>2 DEF MsgRecord
  <2>9. Informed'
    <3>1. /\ req'[p].at = stage /\ req'[p].by = req[p].by
          /\ \A q \in Reqs : q # p => req'[q] = req[q]
      BY <2>4, <2>5, FinishSlot
    <3> QED  BY <2>1, <2>8, <3>1, InformedSlot
  <2> QED  BY <2>7, <2>9
<1>5. ASSUME NEW p \in Reqs, ReadDecrement(p) \/ UnreadIncrement(p) \/ AllReset(p)
      PROVE  TypeInv'
  <2>1. Leave(p) /\ req[p].by \in Users /\ UNCHANGED <<roomType, message, now>>
    BY <1>5 DEF ReadDecrement, UnreadIncrement, AllReset, Informed
  <2>2. part' \in [Users -> PartRecord \cup {NULL}]
    <3>1. PICK u \in Users : u = req[p].by  BY <2>1
    <3>2. \/ part' = Decremented(u)
          \/ Row(u) /\ part' = [part EXCEPT ![u].unreadCount = @ + 1]
          \/ Row(u) /\ part' = [part EXCEPT ![u].unreadCount = 0]
          \/ part' = part
      BY <1>5, <3>1 DEF ReadDecrement, UnreadIncrement, AllReset
    <3>3. /\ Decremented(u) \in [Users -> PartRecord \cup {NULL}]
          /\ Row(u) => [part EXCEPT ![u].unreadCount = @ + 1]
                         \in [Users -> PartRecord \cup {NULL}]
          /\ Row(u) => [part EXCEPT ![u].unreadCount = 0]
                         \in [Users -> PartRecord \cup {NULL}]
      BY CounterTypes
    <3> QED  BY <1>a, <3>2, <3>3
  <2>3. torn' \subseteq Users
    BY <1>5, <1>a, <2>1 DEF ReadDecrement, UnreadIncrement, AllReset
  <2>4. TypeOK'  BY <2>1, <2>2, <2>3, LeaveSlot DEF TypeOK
  <2> QED  BY <1>b, <2>1, <2>4
<1>6. ASSUME NEW p \in Reqs, NEW u \in Users, AllBegin(p, u)  PROVE TypeInv'
  <2> DEFINE r == [Idle EXCEPT !.at = "markAll", !.by = u,
                     !.stamp = IF u \in Drivers THEN part[u].joinedAt ELSE 0]
  <2>1. r \in ReqRecord
    BY <1>6, <1>a DEF AllBegin, Row, PartRecord, Idle, ReqRecord, Stages
  <2>2. Enter(p, r)  BY <1>6 DEF AllBegin
  <2>3. TypeOK'
    <3> HIDE DEF r
    <3> QED  BY <1>6, <2>1, <2>2, EnterSlot DEF AllBegin, TypeOK
  <2>4. r.at = "markAll" /\ r.by = u  BY DEF Idle
  <2>5. Informed'
    <3> HIDE DEF r
    <3>1. message' = message /\ req'[p] = r /\ \A q \in Reqs : q # p => req'[q] = req[q]
      BY <1>6, <2>2, EnterSlot DEF AllBegin
    <3> QED  BY <2>4, <3>1, InformedSlot
  <2> QED  BY <2>3, <2>5
<1>7. ASSUME NEW p \in Reqs, AllMark(p)  PROVE TypeInv'
  <2>1. req[p].by \in Users /\ Finish(p, "reset") /\ "reset" \in Stages
    BY <1>7 DEF AllMark, Informed, Stages
  <2>2. ASSUME NEW k \in Messages
        PROVE  [message[k] EXCEPT !.readBy = @ \cup {req[p].by}, !.isRead = TRUE]
                 \in MsgRecord
    <3>1. message[k] \in MsgRecord  BY <1>a
    <3>2. message[k].readBy \cup {req[p].by} \in SUBSET Users
      BY <2>1, <3>1 DEF MsgRecord
    <3> QED  BY <3>1, <3>2, ReceiptTypes
  <2>3. message' \in [Messages -> MsgRecord]
    BY <1>7, <1>a, <2>2 DEF AllMark
  <2>4. \A k \in Messages : message'[k].st = message[k].st
    <3>1. ASSUME NEW k \in Messages  PROVE message'[k].st = message[k].st
      <4>1. message[k] \in MsgRecord  BY <1>a
      <4>2. \/ message'[k] = message[k]
            \/ message'[k] = [message[k] EXCEPT !.readBy = @ \cup {req[p].by},
                                                !.isRead = TRUE]
        BY <1>7 DEF AllMark
      <4> QED  BY <4>1, <4>2 DEF MsgRecord
    <3> QED  BY <3>1
  <2>5. TypeOK'  BY <1>7, <2>1, <2>3, FinishSlot DEF AllMark, TypeOK
  <2>6. Informed'
    <3>1. /\ req'[p].at = "reset" /\ req'[p].by = req[p].by
          /\ \A q \in Reqs : q # p => req'[q] = req[q]
      BY <2>1, FinishSlot
    <3> QED  BY <2>1, <2>4, <3>1, InformedSlot
  <2> QED  BY <2>5, <2>6
<1>8. ASSUME NEW p \in Reqs, NEW m \in Messages, DeleteBegin(p, m)
      PROVE  TypeInv'
  <2> DEFINE r == [Idle EXCEPT !.at = "uncount", !.mid = m,
       !.users = {u \in Users : /\ Row(u) /\ u # message[m].sender
                                /\ u \notin message[m].readBy}]
  <2>1. r \in ReqRecord  BY DEF Idle, ReqRecord, Stages
  <2>2. Enter(p, r) /\ Stored(m) /\ message' = message  BY <1>8 DEF DeleteBegin
  <2>3. r.at = "uncount" /\ r.mid = m  BY DEF Idle
  <2> HIDE DEF r
  <2>4. TypeOK'  BY <1>8, <2>1, <2>2, EnterSlot DEF DeleteBegin, TypeOK
  <2>5. Informed'  BY <2>2, <2>3, EnterSlot DEF Informed, Stored
  <2> QED  BY <2>4, <2>5
<1>9. ASSUME NEW p \in Reqs, NEW u \in Users, DeleteUncount(p, u)
      PROVE  TypeInv'
  <2>1. part' \in [Users -> PartRecord \cup {NULL}]
    BY <1>9, CounterTypes DEF DeleteUncount
  <2>2. req' \in [Reqs -> ReqRecord]
    <3>1. [req[p] EXCEPT !.users = @ \ {u}] \in ReqRecord
      BY <1>a DEF ReqRecord
    <3>2. req' = [req EXCEPT ![p] = [req[p] EXCEPT !.users = @ \ {u}]]
      BY <1>9 DEF DeleteUncount
    <3> QED  BY <1>a, <3>1, <3>2
  <2>3. \A q \in Reqs : /\ req'[q].at = req[q].at /\ req'[q].by = req[q].by
                        /\ req'[q].mid = req[q].mid
    BY <1>9, <1>a DEF DeleteUncount, ReqRecord
  <2>4. TypeOK'  BY <1>9, <2>1, <2>2 DEF DeleteUncount, TypeOK
  <2>5. Informed'  BY <1>9, <2>3 DEF DeleteUncount, Informed
  <2> QED  BY <2>4, <2>5
<1>10. ASSUME NEW p \in Reqs, DeleteWrite(p)  PROVE TypeInv'
  <2>1. req[p].mid \in Messages /\ Leave(p)
    BY <1>10 DEF DeleteWrite, Informed
  <2>2. [NoMessage EXCEPT !.st = "deleted"] \in MsgRecord
    BY DEF NoMessage, MsgRecord
  <2>3. message' \in [Messages -> MsgRecord]
    BY <1>10, <1>a, <2>1, <2>2 DEF DeleteWrite
  <2>4. \A k \in Messages : message[k].st # "none" => message'[k].st # "none"
    BY <1>10, <1>a, <2>1 DEF DeleteWrite, NoMessage
  <2>5. TypeOK'  BY <1>10, <2>1, <2>3, LeaveSlot DEF DeleteWrite, TypeOK
  <2>6. Informed'  BY <2>1, <2>4, LeaveSlot DEF Informed, Idle
  <2> QED  BY <2>5, <2>6
<1>11. ASSUME Archive  PROVE TypeInv'
  <2>1. PICK S \in SUBSET Messages :
          /\ message' = [m \in Messages |-> IF m \in S
                                     THEN [NoMessage EXCEPT !.st = "deleted"]
                                     ELSE message[m]]
          /\ torn' = torn \cup {u \in Users : Unread(u) \cap S # {}}
          /\ UNCHANGED <<roomType, part, req, now>>
    BY <1>11 DEF Archive
  <2>2. [NoMessage EXCEPT !.st = "deleted"] \in MsgRecord
    BY DEF NoMessage, MsgRecord
  <2>3. message' \in [Messages -> MsgRecord]  BY <1>a, <2>1, <2>2
  <2>4. \A k \in Messages : message[k].st # "none" => message'[k].st # "none"
    BY <2>1 DEF NoMessage
  <2>5. TypeOK'  BY <1>a, <2>1, <2>3 DEF TypeOK
  <2>6. Informed'  BY <2>1, <2>4 DEF Informed
  <2> QED  BY <2>5, <2>6
<1>12. ASSUME NEW u \in Movers, Join(u) \/ Quit(u)  PROVE TypeInv'
  <2>1. Joined(now) \in PartRecord  BY <1>a DEF Joined, PartRecord
  <2>2. u \in Users  OBVIOUS
  <2>3. TypeOK'  BY <1>12, <1>a, <2>1, <2>2 DEF Join, Quit, TypeOK
  <2>4. Informed'  BY <1>12 DEF Join, Quit, Informed
  <2> QED  BY <2>3, <2>4
<1>13. ASSUME Tick  PROVE TypeInv'
  BY <1>13, <1>a DEF Tick, TypeOK, Informed
<1>14. ASSUME NEW p \in Reqs, Fail(p)  PROVE TypeInv'
  <2>1. torn' \subseteq Users  BY <1>14, <1>a DEF Fail, Informed
  <2>2. TypeOK'  BY <1>14, <2>1, LeaveSlot DEF Fail, TypeOK
  <2> QED  BY <1>14, <1>b, <2>2 DEF Fail
<1>15. CASE UNCHANGED vars
  BY <1>15 DEF vars, TypeOK, Informed
<1> QED
  BY <1>1, <1>2, <1>3, <1>4, <1>5, <1>6, <1>7, <1>8, <1>9, <1>10, <1>11,
     <1>12, <1>13, <1>14, <1>15 DEF Next, Begin, Proceed

\* The rows of the room, its requests and the clock keep their shape, for any
\* users, messages and number of requests.
THEOREM TypeCorrect == Spec => []TypeOK
<1>1. TypeInv => TypeOK  BY DEF TypeInv
<1> QED  BY <1>1, TypeInitially, TypeStep, PTL DEF Spec

-----------------------------------------------------------------------------
(* How a message and a request change.                                     *)

\* A message is created unread, written by one of three requests, or removed.
MessageWritten(m) ==
  \/ message'[m] = message[m]
  \/ /\ message[m].st = "none" /\ message'[m].st = "stored"
     /\ message'[m].readBy = {message'[m].sender} /\ ~message'[m].isRead
  \/ /\ message'[m].st = "deleted"
     /\ Archive \/ \E p \in Reqs : DeleteWrite(p) /\ req[p].mid = m
  \/ /\ Stored(m) /\ message'[m].st = "stored"
     /\ message'[m].sender = message[m].sender
     /\ \E p \in Reqs :
          \/ /\ ReadWrite(p) /\ req[p].mid = m
             /\ message'[m].readBy = req[p].users \cup {req[p].by}
             /\ message'[m].isRead
          \/ /\ UnreadWrite(p) /\ req[p].mid = m
             /\ message'[m].readBy = req[p].users \ {req[p].by}
             /\ message'[m].isRead <=> roomType # "DIRECT" /\ message[m].isRead
          \/ /\ AllMark(p)
             /\ req[p].by \notin message[m].readBy
             /\ message'[m].readBy = message[m].readBy \cup {req[p].by}
             /\ message'[m].isRead

LEMMA MessageStep ==
  ASSUME TypeInv, [Next]_vars, NEW m \in Messages
  PROVE  MessageWritten(m)
<1> USE DEF TypeInv
<1>a. /\ message \in [Messages -> MsgRecord]
      /\ message[m] \in MsgRecord
  BY DEF TypeOK
<1>1. ASSUME NEW p \in Reqs, SendCreate(p)  PROVE MessageWritten(m)
  <2>1. CASE message' = message  BY <2>1 DEF MessageWritten
  <2>2. CASE message' # message
    <3>1. PICK k \in Messages :
            /\ message[k].st = "none"
            /\ message' = [message EXCEPT ![k] =
                     [st |-> "stored", sender |-> req[p].by,
                      clientMessageId |-> req[p].clientMessageId,
                      createdAt |-> req[p].stamp, readBy |-> {req[p].by},
                      isRead |-> FALSE]]
      BY <1>1, <2>2 DEF SendCreate
    <3> QED  BY <1>a, <3>1 DEF MessageWritten
  <2> QED  BY <2>1, <2>2
<1>2. ASSUME NEW p \in Reqs, ReadWrite(p)  PROVE MessageWritten(m)
  <2>1. req[p].mid \in Messages  BY <1>2 DEF ReadWrite, Informed
  <2>2. CASE req[p].mid = m
    <3>1. message'[m] = [message[m] EXCEPT !.readBy = req[p].users \cup {req[p].by},
                                           !.isRead = TRUE]
      BY <1>2, <1>a, <2>2 DEF ReadWrite
    <3>2. /\ message'[m].readBy = req[p].users \cup {req[p].by}
          /\ message'[m].isRead /\ message'[m].st = message[m].st
          /\ message'[m].sender = message[m].sender
      BY <1>a, <3>1 DEF MsgRecord
    <3> QED  BY <1>2, <2>2, <3>2 DEF MessageWritten, ReadWrite, Stored
  <2>3. CASE req[p].mid # m
    BY <1>2, <1>a, <2>3 DEF ReadWrite, MessageWritten
  <2> QED  BY <2>2, <2>3
<1>3. ASSUME NEW p \in Reqs, UnreadWrite(p)  PROVE MessageWritten(m)
  <2>1. req[p].mid \in Messages  BY <1>3 DEF UnreadWrite, Informed
  <2>2. CASE req[p].mid = m
    <3>1. message'[m] = [message[m] EXCEPT
                           !.readBy = req[p].users \ {req[p].by},
                           !.isRead = roomType # "DIRECT" /\ message[m].isRead]
      BY <1>3, <1>a, <2>2 DEF UnreadWrite
    <3>2. /\ message'[m].readBy = req[p].users \ {req[p].by}
          /\ message'[m].isRead <=> roomType # "DIRECT" /\ message[m].isRead
          /\ message'[m].st = message[m].st
          /\ message'[m].sender = message[m].sender
      BY <1>a, <3>1 DEF MsgRecord
    <3> QED  BY <1>3, <2>2, <3>2 DEF MessageWritten, UnreadWrite, Stored
  <2>3. CASE req[p].mid # m
    BY <1>3, <1>a, <2>3 DEF UnreadWrite, MessageWritten
  <2> QED  BY <2>2, <2>3
<1>4. ASSUME NEW p \in Reqs, AllMark(p)  PROVE MessageWritten(m)
  <2>1. CASE message'[m] = message[m]  BY <2>1 DEF MessageWritten
  <2>2. CASE message'[m] # message[m]
    <3>1. /\ Stored(m) /\ req[p].by \notin message[m].readBy
          /\ message'[m] = [message[m] EXCEPT
                              !.readBy = @ \cup {req[p].by}, !.isRead = TRUE]
      BY <1>4, <2>2 DEF AllMark
    <3>2. /\ message'[m].readBy = message[m].readBy \cup {req[p].by}
          /\ message'[m].isRead /\ message'[m].st = message[m].st
          /\ message'[m].sender = message[m].sender
      BY <1>a, <3>1 DEF MsgRecord
    <3> QED  BY <1>4, <3>1, <3>2 DEF MessageWritten, Stored
  <2> QED  BY <2>1, <2>2
<1>5. ASSUME NEW p \in Reqs, DeleteWrite(p)  PROVE MessageWritten(m)
  <2>1. req[p].mid \in Messages  BY <1>5 DEF DeleteWrite, Informed
  <2> QED  BY <1>5, <1>a, <2>1 DEF DeleteWrite, MessageWritten, NoMessage
<1>6. ASSUME Archive  PROVE MessageWritten(m)
  BY <1>6 DEF Archive, MessageWritten, NoMessage
<1>7. CASE message' = message  BY <1>7 DEF MessageWritten
<1> QED
  BY <1>1, <1>2, <1>3, <1>4, <1>5, <1>6, <1>7
  DEF Next, Begin, Proceed, vars, SendBegin, ReadBegin, UnreadBegin, AllBegin,
      DeleteBegin, ReadDecrement, UnreadIncrement, AllReset, DeleteUncount,
      Join, Quit, Tick, Fail

\* What a request knows of a message it read when it came in, or of the users
\* it still has to uncount.
RequestWritten(p) ==
  \/ req'[p].at \notin {"read", "unread", "uncount"}
  \/ req'[p] = req[p]
  \/ \E u \in Users, m \in Messages :
       /\ \/ ReadBegin(p, u, m) /\ req'[p].at = "read"
          \/ UnreadBegin(p, u, m) /\ req'[p].at = "unread"
       /\ req'[p].by = u /\ req'[p].mid = m /\ req'[p].users = message[m].readBy
  \/ \E m \in Messages :
       /\ DeleteBegin(p, m)
       /\ req'[p].at = "uncount" /\ req'[p].mid = m
       /\ req'[p].users = {u \in Users : /\ Row(u) /\ u # message[m].sender
                                         /\ u \notin message[m].readBy}
  \/ \E u \in Users :
       /\ DeleteUncount(p, u)
       /\ req[p].at = "uncount" /\ req'[p].at = "uncount"
       /\ req'[p].mid = req[p].mid /\ req'[p].users = req[p].users \ {u}

LEMMA RequestStep ==
  ASSUME TypeInv, [Next]_vars, NEW p \in Reqs
  PROVE  RequestWritten(p)
<1> USE DEF TypeInv
<1>a. req \in [Reqs -> ReqRecord] /\ req[p] \in ReqRecord  BY DEF TypeOK
<1>1. ASSUME NEW q \in Reqs, NEW u \in Users, NEW m \in Messages,
             ReadBegin(q, u, m) \/ UnreadBegin(q, u, m)
      PROVE  RequestWritten(p)
  <2>1. CASE q = p
    <3>1. CASE ReadBegin(q, u, m)
      <4>1. /\ req'[p].at = "read" /\ req'[p].by = u /\ req'[p].mid = m
            /\ req'[p].users = message[m].readBy
        BY <1>a, <2>1, <3>1 DEF ReadBegin, Enter, Idle
      <4> QED  BY <2>1, <3>1, <4>1 DEF RequestWritten
    <3>2. CASE UnreadBegin(q, u, m)
      <4>1. /\ req'[p].at = "unread" /\ req'[p].by = u /\ req'[p].mid = m
            /\ req'[p].users = message[m].readBy
        BY <1>a, <2>1, <3>2 DEF UnreadBegin, Enter, Idle
      <4> QED  BY <2>1, <3>2, <4>1 DEF RequestWritten
    <3> QED  BY <1>1, <3>1, <3>2
  <2>2. CASE q # p
    BY <1>1, <1>a, <2>2 DEF ReadBegin, UnreadBegin, Enter, RequestWritten
  <2> QED  BY <2>1, <2>2
<1>2. ASSUME NEW q \in Reqs, NEW m \in Messages, DeleteBegin(q, m)
      PROVE  RequestWritten(p)
  <2>1. CASE q = p
    BY <1>2, <1>a, <2>1 DEF DeleteBegin, Enter, Idle, RequestWritten
  <2>2. CASE q # p
    BY <1>2, <1>a, <2>2 DEF DeleteBegin, Enter, RequestWritten
  <2> QED  BY <2>1, <2>2
<1>3. ASSUME NEW q \in Reqs, NEW u \in Users, DeleteUncount(q, u)
      PROVE  RequestWritten(p)
  <2>1. CASE q = p
    <3>1. req'[p] = [req[p] EXCEPT !.users = @ \ {u}]
      BY <1>3, <1>a, <2>1 DEF DeleteUncount
    <3> QED  BY <1>3, <1>a, <2>1, <3>1 DEF DeleteUncount, RequestWritten, ReqRecord
  <2>2. CASE q # p
    BY <1>3, <1>a, <2>2 DEF DeleteUncount, RequestWritten
  <2> QED  BY <2>1, <2>2
<1>4. ASSUME NEW q \in Reqs, NEW r, r.at \notin {"read", "unread", "uncount"},
             req' = [req EXCEPT ![q] = r]
      PROVE  RequestWritten(p)
  BY <1>4, <1>a DEF RequestWritten
<1>5. ASSUME NEW q \in Reqs, NEW u \in Users, NEW c \in ClientIds \cup {NULL},
             SendBegin(q, u, c) \/ AllBegin(q, u)
      PROVE  RequestWritten(p)
  <2>1. CASE SendBegin(q, u, c)
    <3> DEFINE r == [Idle EXCEPT !.at = "create", !.by = u,
                                 !.clientMessageId = c, !.stamp = now]
    <3>1. r.at = "create"  BY DEF Idle
    <3>2. req' = [req EXCEPT ![q] = r]  BY <2>1 DEF SendBegin, Enter
    <3> HIDE DEF r
    <3> QED  BY <1>4, <3>1, <3>2
  <2>2. CASE AllBegin(q, u)
    <3> DEFINE r == [Idle EXCEPT !.at = "markAll", !.by = u,
                       !.stamp = IF u \in Drivers THEN part[u].joinedAt ELSE 0]
    <3>1. r.at = "markAll"  BY DEF Idle
    <3>2. req' = [req EXCEPT ![q] = r]  BY <2>2 DEF AllBegin, Enter
    <3> HIDE DEF r
    <3> QED  BY <1>4, <3>1, <3>2
  <2> QED  BY <1>5, <2>1, <2>2
<1>6. ASSUME NEW q \in Reqs, Leave(q)  PROVE RequestWritten(p)
  <2>1. Idle.at = "idle"  BY DEF Idle
  <2> QED  BY <1>4, <1>6, <2>1 DEF Leave
<1>7. ASSUME NEW q \in Reqs, NEW stage \in {"decrement", "increment", "reset"},
             Finish(q, stage)
      PROVE  RequestWritten(p)
  <2> DEFINE r == [Idle EXCEPT !.at = stage, !.by = req[q].by]
  <2>1. r.at = stage  BY DEF Idle
  <2>2. req' = [req EXCEPT ![q] = r]  BY <1>7 DEF Finish
  <2> HIDE DEF r
  <2> QED  BY <1>4, <2>1, <2>2
<1>8. CASE req' = req  BY <1>8 DEF RequestWritten
<1>9. ASSUME NEW q \in Reqs, Proceed(q)  PROVE RequestWritten(p)
  BY <1>9, <1>3, <1>6, <1>7
  DEF Proceed, SendCreate, ReadWrite, ReadDecrement, UnreadWrite,
      UnreadIncrement, AllMark, AllReset, DeleteWrite, Fail
<1>10. ASSUME NEW q \in Reqs, Begin(q)  PROVE RequestWritten(p)
  <2>1. NULL \in ClientIds \cup {NULL}  OBVIOUS
  <2> QED  BY <1>10, <1>1, <1>2, <1>5, <2>1 DEF Begin
<1> QED
  BY <1>8, <1>9, <1>10 DEF Next, vars, Archive, Join, Quit, Tick

-----------------------------------------------------------------------------
(* The flag and the list of readers.                                       *)

\* A message and the flag that goes with its readers.
Receipt(m) ==
  LET others == message[m].readBy \ {message[m].sender}
  IN IF roomType = "DIRECT" THEN message[m].isRead => others # {}
                            ELSE others # {} => message[m].isRead

\* The sender is a reader of its message, in the row and in every list that
\* was read; nobody marks a message of its own; in a room of many, a message
\* that was read when it is marked as unread keeps its flag.
Receipts ==
  /\ \A m \in Messages : Stored(m) =>
       message[m].sender \in message[m].readBy /\ Receipt(m)
  /\ \A p \in Reqs :
       req[p].at \in {"read", "unread"} /\ Stored(req[p].mid) =>
         /\ req[p].by # message[req[p].mid].sender
         /\ message[req[p].mid].sender \in req[p].users
         /\ req[p].at = "unread" /\ roomType # "DIRECT"
              => message[req[p].mid].isRead

LEMMA ReceiptStep ==
  ASSUME TypeInv, Receipts, [Next]_vars
  PROVE  Receipts'
<1>0. roomType' = roomType
  <2>1. ASSUME NEW p \in Reqs, Begin(p)  PROVE roomType' = roomType
    BY <2>1 DEF Begin, SendBegin, ReadBegin, UnreadBegin, AllBegin, DeleteBegin
  <2>2. ASSUME NEW p \in Reqs, Proceed(p)  PROVE roomType' = roomType
    BY <2>2 DEF Proceed, SendCreate, ReadWrite, ReadDecrement, UnreadWrite,
                UnreadIncrement, AllMark, AllReset, DeleteUncount, DeleteWrite,
                Fail
  <2> QED  BY <2>1, <2>2 DEF Next, vars, Join, Quit, Archive, Tick
<1>1. ASSUME NEW m \in Messages, Stored(m)'
      PROVE  message'[m].sender \in message'[m].readBy /\ Receipt(m)'
  <2>0. MessageWritten(m)  BY MessageStep
  <2>1. CASE message'[m] = message[m]
    BY <1>0, <1>1, <2>1 DEF Stored, Receipts, Receipt
  <2>2. CASE message'[m].readBy = {message'[m].sender} /\ ~message'[m].isRead
    BY <2>2 DEF Receipt
  <2>3. ASSUME Stored(m), message'[m].sender = message[m].sender,
               NEW p \in Reqs, ReadWrite(p), req[p].mid = m,
               message'[m].readBy = req[p].users \cup {req[p].by},
               message'[m].isRead
        PROVE  message'[m].sender \in message'[m].readBy /\ Receipt(m)'
    <3>1. req[p].by # message[m].sender /\ message[m].sender \in req[p].users
      BY <2>3 DEF Receipts, ReadWrite
    <3> QED  BY <2>3, <3>1 DEF Receipt
  <2>4. ASSUME Stored(m), message'[m].sender = message[m].sender,
               NEW p \in Reqs, UnreadWrite(p), req[p].mid = m,
               message'[m].readBy = req[p].users \ {req[p].by},
               message'[m].isRead <=> roomType # "DIRECT" /\ message[m].isRead
        PROVE  message'[m].sender \in message'[m].readBy /\ Receipt(m)'
    <3>1. /\ req[p].by # message[m].sender /\ message[m].sender \in req[p].users
          /\ roomType # "DIRECT" => message[m].isRead
      BY <2>4 DEF Receipts, UnreadWrite
    <3> QED  BY <1>0, <2>4, <3>1 DEF Receipt
  <2>5. ASSUME Stored(m), message'[m].sender = message[m].sender,
               NEW p \in Reqs, req[p].by \notin message[m].readBy,
               message'[m].readBy = message[m].readBy \cup {req[p].by},
               message'[m].isRead
        PROVE  message'[m].sender \in message'[m].readBy /\ Receipt(m)'
    <3>1. message[m].sender \in message[m].readBy  BY <2>5 DEF Receipts
    <3> QED  BY <2>5, <3>1 DEF Receipt
  <2>6. message'[m].st # "deleted"  BY <1>1 DEF Stored
  <2> QED  BY <2>0, <2>1, <2>2, <2>3, <2>4, <2>5, <2>6 DEF MessageWritten
\* While it is stored, a message keeps its sender, and in a room of many its flag.
<1>2. ASSUME NEW m \in Messages, message[m].st # "none", Stored(m)'
      PROVE  /\ Stored(m) /\ message'[m].sender = message[m].sender
             /\ roomType # "DIRECT" /\ message[m].isRead => message'[m].isRead
  <2>1. MessageWritten(m)  BY MessageStep
  <2> QED  BY <1>2, <2>1 DEF MessageWritten, Stored
<1>3. ASSUME NEW p \in Reqs, req'[p].at \in {"read", "unread"},
             Stored(req[p].mid)'
      PROVE  /\ req'[p].by # message'[req'[p].mid].sender
             /\ message'[req'[p].mid].sender \in req'[p].users
             /\ req'[p].at = "unread" /\ roomType' # "DIRECT"
                  => message'[req'[p].mid].isRead
  <2>0. RequestWritten(p)  BY RequestStep
  <2>1. CASE req'[p] = req[p]
    <3>1. PICK m \in Messages : m = req[p].mid /\ message[m].st # "none"
      BY <1>3, <2>1 DEF TypeInv, Informed
    <3>2. Stored(m)'  BY <1>3, <2>1, <3>1
    <3>3. /\ Stored(m) /\ message'[m].sender = message[m].sender
          /\ roomType # "DIRECT" /\ message[m].isRead => message'[m].isRead
      BY <1>2, <3>1, <3>2
    <3> QED  BY <1>0, <1>3, <2>1, <3>1, <3>3 DEF Receipts
  <2>2. ASSUME NEW u \in Users, NEW m \in Messages,
               \/ ReadBegin(p, u, m) /\ req'[p].at = "read"
               \/ UnreadBegin(p, u, m) /\ req'[p].at = "unread",
               req'[p].by = u, req'[p].mid = m, req'[p].users = message[m].readBy
        PROVE  /\ req'[p].by # message'[req'[p].mid].sender
               /\ message'[req'[p].mid].sender \in req'[p].users
               /\ req'[p].at = "unread" /\ roomType' # "DIRECT"
                    => message'[req'[p].mid].isRead
    <3>1. message' = message /\ Stored(m) /\ u # message[m].sender
      BY <2>2 DEF ReadBegin, UnreadBegin
    <3>2. message[m].sender \in message[m].readBy /\ Receipt(m)
      BY <3>1 DEF Receipts
    <3>3. req'[p].at = "unread" => u \in message[m].readBy
      BY <2>2 DEF UnreadBegin
    <3> QED  BY <1>0, <2>2, <3>1, <3>2, <3>3 DEF Receipt
  <2> QED  BY <1>3, <2>0, <2>1, <2>2 DEF RequestWritten
<1> QED  BY <1>1, <1>3 DEF Receipts

\* However many requests overwrite each other's list of readers, the flag of a
\* message agrees with the list that is there.
THEOREM ReceiptsAgree == Spec => []ReceiptAgrees
<1>1. Init => Receipts
  BY DEF Init, Receipts, Stored, NoMessage, Idle
<1>2. TypeInv /\ Receipts /\ [Next]_vars => (TypeInv /\ Receipts)'
  BY TypeStep, ReceiptStep
<1>3. Receipts => ReceiptAgrees
  BY DEF Receipts, Receipt, ReceiptAgrees
<1> QED  BY <1>1, <1>2, <1>3, TypeInitially, PTL DEF Spec

-----------------------------------------------------------------------------
(* The counters.                                                           *)

\* Request p will take message m away from u, by writing a list of readers with
\* u on it, or by deleting the message without uncounting u.
Takes(p, m, u) ==
  /\ req[p].mid = m
  /\ \/ req[p].at = "uncount" /\ u \notin req[p].users
     \/ req[p].at \in {"read", "unread"} /\ u \in req[p].users

Covered(m, u) == m \in Unread(u) /\ \A p \in Reqs : ~Takes(p, m, u)

Cover(u) == {m \in Messages : Covered(m, u)}

\* The counter of u is not being reset, and has missed no statement.
Settled(u) ==
  /\ Row(u) /\ u \notin torn
  /\ \A p \in Reqs : ~(req[p].at = "reset" /\ req[p].by = u)

Counted ==
  \A u \in Users : Settled(u) =>
    part[u].unreadCount <= Cardinality(Cover(u)) + Cardinality(Reading(u))

\* The sets that are counted are finite.
LEMMA CountedSets ==
  ASSUME NEW u \in Users
  PROVE  /\ IsFiniteSet(Cover(u)) /\ Cardinality(Cover(u)) \in Nat
         /\ IsFiniteSet(Unread(u)) /\ Cardinality(Unread(u)) \in Nat
         /\ IsFiniteSet(Reading(u)) /\ Cardinality(Reading(u)) \in Nat
<1>1. /\ Cover(u) \subseteq Messages /\ Unread(u) \subseteq Messages
      /\ Reading(u) \subseteq Reqs
  BY DEF Cover, Unread, Reading
<1> QED  BY <1>1, FS_Subset, FS_CardinalityType

LEMMA CountedSetsNext ==
  ASSUME NEW u \in Users
  PROVE  /\ IsFiniteSet(Cover(u)') /\ Cardinality(Cover(u)') \in Nat
         /\ IsFiniteSet(Reading(u)') /\ Cardinality(Reading(u)') \in Nat
<1>1. Cover(u)' \subseteq Messages /\ Reading(u)' \subseteq Reqs
  BY DEF Cover, Reading
<1> QED  BY <1>1, FS_Subset, FS_CardinalityType

\* A message that is covered stays so, unless the user reads it, is being
\* uncounted for it, opens the chat, or loses it to the archive.
LEMMA CoverStep ==
  ASSUME TypeInv, [Next]_vars, NEW u \in Users, NEW m \in Messages,
         Row(u), Covered(m, u),
         \A p \in Reqs : /\ ~(ReadWrite(p) /\ req[p].by = u /\ req[p].mid = m)
                         /\ ~(DeleteUncount(p, u) /\ req[p].mid = m)
                         /\ ~(AllMark(p) /\ req[p].by = u),
         u \notin torn' \/ ~Archive
  PROVE  Covered(m, u)'
<1>1. /\ Stored(m) /\ message[m].sender # u /\ u \notin message[m].readBy
      /\ \A p \in Reqs : ~Takes(p, m, u)
  BY DEF Covered, Unread
<1>2. MessageWritten(m)  BY MessageStep
<1>3. ASSUME NEW p \in Reqs, DeleteWrite(p)  PROVE req[p].mid # m
  BY <1>1, <1>3 DEF DeleteWrite, Takes
<1>4. ASSUME Archive, message'[m].st = "deleted"  PROVE FALSE
  <2>1. PICK S \in SUBSET Messages :
          /\ message' = [k \in Messages |-> IF k \in S
                                   THEN [NoMessage EXCEPT !.st = "deleted"]
                                   ELSE message[k]]
          /\ torn' = torn \cup {v \in Users : Unread(v) \cap S # {}}
    BY <1>4 DEF Archive
  <2>2. m \in Unread(u) /\ u \notin torn'  BY <1>4 DEF Covered
  <2>3. m \notin S  BY <2>1, <2>2
  <2> QED  BY <1>1, <1>4, <2>1, <2>3 DEF Stored
\* It is still unread: a list that is written has no u on it, or u wrote it.
<1>5. m \in Unread(u)'
  <2>1. CASE message'[m] = message[m]  BY <1>1, <2>1 DEF Unread, Stored
  <2>2. ASSUME Stored(m), message'[m].st = "stored",
               message'[m].sender = message[m].sender,
               NEW p \in Reqs, req[p].mid = m,
               \/ ReadWrite(p) /\ message'[m].readBy = req[p].users \cup {req[p].by}
               \/ UnreadWrite(p) /\ message'[m].readBy = req[p].users \ {req[p].by}
        PROVE  m \in Unread(u)'
    <3>1. u \notin req[p].users
      BY <1>1, <2>2 DEF Takes, ReadWrite, UnreadWrite
    <3>2. ReadWrite(p) => u # req[p].by  BY <2>2
    <3> QED  BY <1>1, <2>2, <3>1, <3>2 DEF Unread, Stored
  <2>3. ASSUME Stored(m), message'[m].st = "stored",
               message'[m].sender = message[m].sender,
               NEW p \in Reqs, AllMark(p),
               message'[m].readBy = message[m].readBy \cup {req[p].by}
        PROVE  m \in Unread(u)'
    BY <1>1, <2>3 DEF Unread, Stored
  <2> QED  BY <1>1, <1>2, <1>3, <1>4, <2>1, <2>2, <2>3 DEF MessageWritten, Stored
\* No request that comes in, or goes on, takes it away.
<1>6. ASSUME NEW p \in Reqs, Takes(p, m, u)'  PROVE FALSE
  <2>0. RequestWritten(p)  BY RequestStep
  <2>1. CASE req'[p] = req[p]  BY <1>1, <1>6, <2>1 DEF Takes
  <2>2. ASSUME NEW v \in Users, NEW k \in Messages,
               req'[p].mid = k, req'[p].users = message[k].readBy,
               req'[p].at \in {"read", "unread"}
        PROVE  FALSE
    BY <1>1, <1>6, <2>2 DEF Takes
  <2>3. ASSUME NEW k \in Messages, req'[p].at = "uncount", req'[p].mid = k,
               req'[p].users = {v \in Users : /\ Row(v) /\ v # message[k].sender
                                              /\ v \notin message[k].readBy}
        PROVE  FALSE
    BY <1>1, <1>6, <2>3 DEF Takes
  <2>4. ASSUME NEW v \in Users, DeleteUncount(p, v), req[p].at = "uncount",
               req'[p].at = "uncount", req'[p].mid = req[p].mid,
               req'[p].users = req[p].users \ {v}
        PROVE  FALSE
    <3>1. v # u  BY <1>6, <2>4 DEF Takes
    <3> QED  BY <1>1, <1>6, <2>4, <3>1 DEF Takes
  <2>5. req'[p].at \in {"read", "unread", "uncount"}  BY <1>6 DEF Takes
  <2> QED  BY <2>0, <2>1, <2>2, <2>3, <2>4, <2>5 DEF RequestWritten
<1> QED  BY <1>5, <1>6 DEF Covered

\* A request that is to count or to reset goes on by doing so, or fails.
LEMMA StageStep ==
  ASSUME TypeInv, [Next]_vars, NEW p \in Reqs,
         req[p].at \in {"decrement", "reset"}
  PROVE  \/ req'[p] = req[p] \/ Fail(p)
         \/ req[p].at = "decrement" /\ ReadDecrement(p)
         \/ req[p].at = "reset" /\ AllReset(p)
<1>0. req \in [Reqs -> ReqRecord]  BY DEF TypeInv, TypeOK
<1>1. ASSUME NEW q \in Reqs, Begin(q)  PROVE req'[p] = req[p]
  <2>1. req[q].at = "idle" /\ \E r : req' = [req EXCEPT ![q] = r]
    BY <1>1 DEF Begin, SendBegin, ReadBegin, UnreadBegin, AllBegin, DeleteBegin,
                Enter
  <2> QED  BY <1>0, <2>1
<1>2. ASSUME NEW q \in Reqs, Proceed(q), q # p  PROVE req'[p] = req[p]
  BY <1>0, <1>2
  DEF Proceed, SendCreate, ReadWrite, ReadDecrement, UnreadWrite,
      UnreadIncrement, AllMark, AllReset, DeleteUncount, DeleteWrite, Fail,
      Leave, Finish
<1>3. ASSUME Proceed(p)
      PROVE  \/ Fail(p)
             \/ req[p].at = "decrement" /\ ReadDecrement(p)
             \/ req[p].at = "reset" /\ AllReset(p)
  BY <1>3
  DEF Proceed, SendCreate, ReadWrite, ReadDecrement, UnreadWrite,
      UnreadIncrement, AllMark, AllReset, DeleteUncount, DeleteWrite
<1>4. CASE req' = req  BY <1>4
<1> QED
  BY <1>1, <1>2, <1>3, <1>4 DEF Next, vars, Archive, Join, Quit, Tick

\* A row is written by a message of another, by a request of or about its user,
\* and by who adds and removes it.
LEMMA PartStep ==
  ASSUME TypeInv, [Next]_vars, NEW u \in Users
  PROVE  \/ part'[u] = part[u]
         \/ Join(u) \/ Quit(u)
         \/ \E p \in Reqs :
              \/ SendCreate(p) /\ part' = CountedByOthers(req[p].by)
                   /\ message' # message
              \/ DeleteUncount(p, u)
              \/ /\ req[p].by = u
                 /\ ReadDecrement(p) \/ UnreadIncrement(p) \/ AllReset(p)
<1>0. part \in [Users -> PartRecord \cup {NULL}]  BY DEF TypeInv, TypeOK
<1>1. ASSUME NEW v \in Users, v # u  PROVE Decremented(v)[u] = part[u]
  BY <1>0, <1>1 DEF Decremented
<1>2. ASSUME NEW p \in Reqs, SendCreate(p)
      PROVE  \/ part' = part
             \/ part' = CountedByOthers(req[p].by) /\ message' # message
  <2>1. CASE part' # part
    <3>1. PICK m \in Messages :
            /\ message[m].st = "none"
            /\ message' = [message EXCEPT ![m] =
                     [st |-> "stored", sender |-> req[p].by,
                      clientMessageId |-> req[p].clientMessageId,
                      createdAt |-> req[p].stamp, readBy |-> {req[p].by},
                      isRead |-> FALSE]]
            /\ part' = CountedByOthers(req[p].by)
      BY <1>2, <2>1 DEF SendCreate
    <3>2. message'[m].st = "stored"  BY <3>1 DEF TypeInv, TypeOK
    <3> QED  BY <3>1, <3>2
  <2>2. CASE part' = part  BY <2>2
  <2> QED  BY <2>1, <2>2
<1>3. ASSUME NEW p \in Reqs, req[p].by # u,
             ReadDecrement(p) \/ UnreadIncrement(p) \/ AllReset(p)
      PROVE  part'[u] = part[u]
  <2>1. PICK v \in Users : v = req[p].by
    BY <1>3 DEF TypeInv, Informed, ReadDecrement, UnreadIncrement, AllReset
  <2>2. v # u  BY <1>3, <2>1
  <2> QED
    BY <1>0, <1>1, <1>3, <2>1, <2>2 DEF ReadDecrement, UnreadIncrement, AllReset
<1>4. ASSUME NEW p \in Reqs, NEW v \in Users, v # u, DeleteUncount(p, v)
      PROVE  part'[u] = part[u]
  BY <1>1, <1>4 DEF DeleteUncount
<1>5. ASSUME NEW v \in Movers, v # u, Join(v) \/ Quit(v)
      PROVE  part'[u] = part[u]
  BY <1>0, <1>5 DEF Join, Quit
<1>6. CASE part' = part  BY <1>6
<1> DEFINE Written == \/ part'[u] = part[u]
                      \/ Join(u) \/ Quit(u)
                      \/ \E p \in Reqs :
                           \/ SendCreate(p) /\ part' = CountedByOthers(req[p].by)
                                /\ message' # message
                           \/ DeleteUncount(p, u)
                           \/ /\ req[p].by = u
                              /\ ReadDecrement(p) \/ UnreadIncrement(p) \/ AllReset(p)
<1>7. ASSUME NEW p \in Reqs, Begin(p)  PROVE part' = part
  BY <1>7 DEF Begin, SendBegin, ReadBegin, UnreadBegin, AllBegin, DeleteBegin
<1>8. ASSUME NEW p \in Reqs, Proceed(p)  PROVE Written
  <2>1. CASE ReadWrite(p) \/ UnreadWrite(p) \/ AllMark(p) \/ DeleteWrite(p)
               \/ Fail(p)
    BY <2>1 DEF ReadWrite, UnreadWrite, AllMark, DeleteWrite, Fail
  <2>2. CASE SendCreate(p)  BY <1>2, <2>2
  <2>3. CASE ReadDecrement(p) \/ UnreadIncrement(p) \/ AllReset(p)
    BY <1>3, <2>3
  <2>4. CASE \E v \in Users : DeleteUncount(p, v)  BY <1>4, <2>4
  <2> QED  BY <1>8, <2>1, <2>2, <2>3, <2>4 DEF Proceed
<1>9. ASSUME NEW v \in Movers, Join(v) \/ Quit(v)  PROVE Written
  BY <1>5, <1>9
<1> QED  BY <1>6, <1>7, <1>8, <1>9 DEF Next, vars, Archive, Tick

\* torn ends with a reset or a new row.
LEMMA TornStep ==
  ASSUME TypeInv, [Next]_vars, NEW u \in Users, u \in torn, u \notin torn'
  PROVE  Join(u) \/ \E p \in Reqs : AllReset(p) /\ req[p].by = u
<1>1. ASSUME NEW p \in Reqs, Begin(p)  PROVE torn' = torn
  BY <1>1 DEF Begin, SendBegin, ReadBegin, UnreadBegin, AllBegin, DeleteBegin
<1>2. ASSUME NEW p \in Reqs, Proceed(p), ~(AllReset(p) /\ req[p].by = u)
      PROVE  FALSE
  BY <1>2 DEF Proceed, SendCreate, ReadWrite, ReadDecrement, UnreadWrite,
              UnreadIncrement, AllMark, AllReset, DeleteUncount, DeleteWrite,
              Fail
<1>3. ASSUME NEW v \in Movers, Join(v) \/ Quit(v)  PROVE Join(u)
  BY <1>3 DEF Join, Quit
<1> QED  BY <1>1, <1>2, <1>3 DEF Next, vars, Archive, Tick

\* A request that did not move did none of these.
LEMMA Unmoved ==
  ASSUME TypeInv, NEW p \in Reqs, req'[p] = req[p], NEW u \in Users
  PROVE  /\ ~ReadWrite(p) /\ ~AllMark(p) /\ ~DeleteUncount(p, u)
         /\ ~ReadDecrement(p)
<1>0. req \in [Reqs -> ReqRecord]  BY DEF TypeInv, TypeOK
<1>1. ~ReadWrite(p) /\ ~AllMark(p)
  <2>1. "reset" \in Stages /\ "decrement" \in Stages  BY DEF Stages
  <2> QED  BY <2>1, FinishSlot DEF TypeInv, ReadWrite, AllMark
<1>2. ~DeleteUncount(p, u)
  <2>1. SUFFICES ASSUME DeleteUncount(p, u) PROVE FALSE  OBVIOUS
  <2>2. u \in req[p].users /\ req'[p].users = req[p].users \ {u}
    BY <1>0, <2>1 DEF DeleteUncount, ReqRecord
  <2> QED  BY <2>2
<1>3. ~ReadDecrement(p)  BY LeaveSlot DEF TypeInv, ReadDecrement, Idle
<1> QED  BY <1>1, <1>2, <1>3

\* The promise to one user.
Bound(u) ==
  Settled(u) =>
    part[u].unreadCount <= Cardinality(Cover(u)) + Cardinality(Reading(u))

\* A user who is settled after a step was settled before it, or has just opened
\* the chat or been added.
LEMMA SettledStep ==
  ASSUME TypeInv, [Next]_vars, NEW u \in Users, Settled(u)'
  PROVE  \/ Join(u)
         \/ \E p \in Reqs : AllReset(p) /\ req[p].by = u
         \/ /\ Settled(u) /\ ~Quit(u)
            /\ \A p \in Reqs : req[p].by = u => ~AllMark(p) /\ ~UnreadIncrement(p)
            /\ \/ Reading(u) \subseteq Reading(u)'
               \/ \E p \in Reqs : ReadDecrement(p) /\ req[p].by = u
<1> SUFFICES ASSUME ~Join(u), \A p \in Reqs : ~(AllReset(p) /\ req[p].by = u)
             PROVE  /\ Settled(u) /\ ~Quit(u)
                    /\ \A p \in Reqs : req[p].by = u =>
                         ~AllMark(p) /\ ~UnreadIncrement(p)
                    /\ \/ Reading(u) \subseteq Reading(u)'
                       \/ \E p \in Reqs : ReadDecrement(p) /\ req[p].by = u
  OBVIOUS
<1>0. /\ part \in [Users -> PartRecord \cup {NULL}] /\ torn \subseteq Users
      /\ req \in [Reqs -> ReqRecord]
  BY DEF TypeInv, TypeOK
<1>1. part'[u] # NULL /\ u \notin torn'
      /\ \A p \in Reqs : ~(req'[p].at = "reset" /\ req'[p].by = u)
  BY DEF Settled, Row
<1>2. ~Quit(u)  BY <1>0, <1>1 DEF Quit
<1>3. \A p \in Reqs : req[p].by = u => ~UnreadIncrement(p)
  BY <1>1 DEF UnreadIncrement
<1>4. ASSUME NEW p \in Reqs, req[p].by = u, AllMark(p)  PROVE FALSE
  <2>1. "reset" \in Stages  BY DEF Stages
  <2>2. req'[p].at = "reset" /\ req'[p].by = u
    BY <1>4, <2>1, FinishSlot DEF AllMark, TypeInv
  <2> QED  BY <1>1, <2>2
<1>5. Row(u)
  <2>1. ASSUME NEW p \in Reqs, part' = CountedByOthers(req[p].by)  PROVE Row(u)
    BY <1>1, <2>1 DEF CountedByOthers, Row
  <2>2. ASSUME Decremented(u)[u] # NULL  PROVE Row(u)
    BY <1>0, <2>2 DEF Decremented, Row
  <2>3. ASSUME NEW p \in Reqs, req[p].by = u, ReadDecrement(p) \/ UnreadIncrement(p)
        PROVE  Row(u)
    BY <1>1, <2>2, <2>3 DEF ReadDecrement, UnreadIncrement
  <2>4. ASSUME NEW p \in Reqs, DeleteUncount(p, u)  PROVE Row(u)
    BY <1>1, <2>2, <2>4 DEF DeleteUncount
  <2> QED  BY <1>1, <1>2, <2>1, <2>3, <2>4, PartStep DEF Row
<1>6. u \notin torn  BY <1>1, TornStep
\* A request of the user fails only at the price of torn.
<1>7. ASSUME NEW p \in Reqs, Fail(p), req[p].by = u,
             req[p].at \in {"decrement", "reset"}
      PROVE  FALSE
  BY <1>1, <1>7 DEF Fail
<1>8. ASSUME NEW p \in Reqs, req[p].at = "reset", req[p].by = u  PROVE FALSE
  BY <1>1, <1>7, <1>8, StageStep
<1>9. \/ Reading(u) \subseteq Reading(u)'
      \/ \E p \in Reqs : ReadDecrement(p) /\ req[p].by = u
  <2>1. SUFFICES ASSUME \A p \in Reqs : ~(ReadDecrement(p) /\ req[p].by = u),
                        NEW p \in Reading(u)
                 PROVE  p \in Reading(u)'
    OBVIOUS
  <2>2. p \in Reqs /\ req[p].at = "decrement" /\ req[p].by = u  BY DEF Reading
  <2>3. req'[p] = req[p]  BY <1>7, <2>1, <2>2, StageStep
  <2> QED  BY <2>2, <2>3 DEF Reading
<1> QED  BY <1>2, <1>3, <1>4, <1>5, <1>6, <1>8, <1>9 DEF Settled

\* Two sets that only grow, but for one element that may go.
LEMMA Lose ==
  ASSUME NEW S, NEW T, IsFiniteSet(S), IsFiniteSet(T), NEW x, S \ {x} \subseteq T
  PROVE  Cardinality(S) <= Cardinality(T) + 1
<1>1. IsFiniteSet(S \ {x})
  BY FS_Subset
<1>2. Cardinality(S \ {x}) <= Cardinality(T)  BY FS_Subset
<1>3. Cardinality(S) <= Cardinality(S \ {x}) + 1
  <2>1. CASE x \in S
    BY <2>1, FS_RemoveElement, FS_CardinalityType, <1>1
  <2>2. CASE x \notin S
    <3>1. S \ {x} = S /\ Cardinality(S) \in Nat  BY <2>2, FS_CardinalityType
    <3> QED  BY <3>1
  <2> QED  BY <2>1, <2>2
<1> QED  BY <1>1, <1>2, <1>3, FS_CardinalityType

LEMMA Gain ==
  ASSUME NEW S, NEW T, IsFiniteSet(S), IsFiniteSet(T),
         NEW x \in T, x \notin S, S \subseteq T
  PROVE  Cardinality(S) + 1 <= Cardinality(T)
<1>1. /\ IsFiniteSet(S \cup {x})
      /\ Cardinality(S \cup {x}) = Cardinality(S) + 1
  BY FS_AddElement
<1>2. S \cup {x} \subseteq T  OBVIOUS
<1> QED  BY <1>1, <1>2, FS_Subset

\* A counter grows with a message that is stored, and shrinks before or after
\* one is taken away.
LEMMA BoundStep ==
  ASSUME TypeInv, [Next]_vars, NEW u \in Users, Bound(u)
  PROVE  Bound(u)'
<1> SUFFICES ASSUME Settled(u)'
             PROVE part'[u].unreadCount
                     <= Cardinality(Cover(u)') + Cardinality(Reading(u)')
  BY DEF Bound
<1>0. /\ part \in [Users -> PartRecord \cup {NULL}]
      /\ req \in [Reqs -> ReqRecord]
      /\ message \in [Messages -> MsgRecord]
  BY DEF TypeInv, TypeOK
<1>a. /\ IsFiniteSet(Cover(u)') /\ Cardinality(Cover(u)') \in Nat
      /\ IsFiniteSet(Reading(u)') /\ Cardinality(Reading(u)') \in Nat
  BY CountedSetsNext
<1>b. /\ IsFiniteSet(Cover(u)) /\ Cardinality(Cover(u)) \in Nat
      /\ IsFiniteSet(Reading(u)) /\ Cardinality(Reading(u)) \in Nat
  BY CountedSets
<1>c. part'[u] # NULL /\ u \notin torn'  BY DEF Settled, Row
<1>1. CASE part'[u].unreadCount = 0  BY <1>1, <1>a
<1>2. CASE Join(u)
  <2>1. part'[u].unreadCount = 0  BY <1>0, <1>2 DEF Join, Joined
  <2> QED  BY <1>1, <2>1
<1>3. ASSUME NEW p \in Reqs, AllReset(p), req[p].by = u
      PROVE  part'[u].unreadCount = 0
  <2>1. part' = IF Row(u) THEN [part EXCEPT ![u].unreadCount = 0] ELSE part
    BY <1>3 DEF AllReset
  <2>2. Row(u)  BY <1>c, <2>1 DEF Row
  <2>3. part[u] \in PartRecord  BY <1>0, <2>2 DEF Row
  <2>4. part'[u] = [part[u] EXCEPT !.unreadCount = 0]  BY <1>0, <2>1, <2>2
  <2> QED  BY <2>3, <2>4 DEF PartRecord
\* From here on the user was settled before the step.
<1>4. ASSUME ~Join(u), \A p \in Reqs : ~(AllReset(p) /\ req[p].by = u)
      PROVE part'[u].unreadCount
              <= Cardinality(Cover(u)') + Cardinality(Reading(u)')
  <2>1. /\ Settled(u) /\ ~Quit(u)
        /\ \A p \in Reqs : req[p].by = u => ~AllMark(p) /\ ~UnreadIncrement(p)
        /\ \/ Reading(u) \subseteq Reading(u)'
           \/ \E p \in Reqs : ReadDecrement(p) /\ req[p].by = u
    BY <1>4, SettledStep
  <2>2. /\ part[u] \in PartRecord /\ part[u].unreadCount \in Nat /\ Row(u)
        /\ part[u].unreadCount <= Cardinality(Cover(u)) + Cardinality(Reading(u))
    BY <1>0, <2>1 DEF Settled, Row, PartRecord, Bound
  <2>3. ASSUME NEW m \in Cover(u),
               \A p \in Reqs : /\ ~(ReadWrite(p) /\ req[p].by = u /\ req[p].mid = m)
                               /\ ~(DeleteUncount(p, u) /\ req[p].mid = m)
        PROVE  m \in Cover(u)'
    <3>1. m \in Messages /\ Covered(m, u)  BY DEF Cover
    <3>2. Covered(m, u)'  BY <1>c, <2>1, <2>2, <2>3, <3>1, CoverStep
    <3> QED  BY <3>1, <3>2 DEF Cover
  \* The request that moves is the only one.
  <2>4. ASSUME NEW p \in Reqs, \A q \in Reqs : q # p => req'[q] = req[q],
               req[p].at \notin {"read", "uncount"}
        PROVE  Cover(u) \subseteq Cover(u)'
    <3>1. \A q \in Reqs : ~ReadWrite(q) /\ ~DeleteUncount(q, u)
      BY <2>4, Unmoved DEF ReadWrite, DeleteUncount
    <3> QED  BY <2>3, <3>1
  <2>5. ASSUME NEW p \in Reqs, SendCreate(p), message' # message,
               part' = CountedByOthers(req[p].by)
        PROVE part'[u].unreadCount
                <= Cardinality(Cover(u)') + Cardinality(Reading(u)')
    <3>1. PICK m \in Messages :
            /\ message[m].st = "none"
            /\ message' = [message EXCEPT ![m] =
                     [st |-> "stored", sender |-> req[p].by,
                      clientMessageId |-> req[p].clientMessageId,
                      createdAt |-> req[p].stamp, readBy |-> {req[p].by},
                      isRead |-> FALSE]]
      BY <2>5 DEF SendCreate
    <3>2. /\ message'[m].st = "stored" /\ message'[m].sender = req[p].by
          /\ message'[m].readBy = {req[p].by}
      BY <1>0, <3>1
    <3>3. req[p].at = "create" /\ Leave(p)  BY <2>5 DEF SendCreate
    <3>4. /\ \A q \in Reqs : q # p => req'[q] = req[q]
          /\ req'[p].at = "idle"
      BY <3>3, LeaveSlot DEF TypeInv, Idle
    <3>5. Cover(u) \subseteq Cover(u)'  BY <2>4, <3>3, <3>4
    <3>6. \A q \in Reqs : ~ReadDecrement(q)
      BY <3>3, <3>4, Unmoved DEF ReadDecrement
    <3>7. Reading(u) \subseteq Reading(u)'  BY <2>1, <3>6
    <3>8. /\ Cardinality(Cover(u)) <= Cardinality(Cover(u)')
          /\ Cardinality(Reading(u)) <= Cardinality(Reading(u)')
      BY <1>a, <3>5, <3>7, FS_Subset
    <3>9. CASE u = req[p].by
      <4>1. part'[u] = part[u]  BY <2>5, <3>9 DEF CountedByOthers
      <4> QED  BY <1>a, <1>b, <2>2, <3>8, <4>1
    <3>10. CASE u # req[p].by
      <4>1. part'[u].unreadCount = part[u].unreadCount + 1
        BY <2>2, <2>5, <3>10 DEF CountedByOthers, PartRecord
      <4>2. m \notin Cover(u)
        BY <3>1 DEF Cover, Covered, Unread, Stored
      <4>3. ASSUME NEW q \in Reqs  PROVE ~Takes(q, m, u)'
        <5>1. CASE q = p  BY <3>4, <5>1 DEF Takes
        <5>2. CASE q # p
          <6>1. req'[q] = req[q]  BY <3>4, <5>2
          <6> QED  BY <3>1, <6>1 DEF Takes, TypeInv, Informed
        <5> QED  BY <5>1, <5>2
      <4>4. m \in Unread(u)'  BY <3>2, <3>10 DEF Unread, Stored
      <4>5. m \in Cover(u)'  BY <4>3, <4>4 DEF Cover, Covered
      <4>6. Cardinality(Cover(u)) + 1 <= Cardinality(Cover(u)')
        BY <1>a, <1>b, <3>5, <4>2, <4>5, Gain
      <4> QED  BY <1>a, <1>b, <2>2, <3>8, <4>1, <4>6
    <3> QED  BY <3>9, <3>10
  <2>6. ASSUME NEW p \in Reqs, ReadWrite(p), req[p].by = u
        PROVE part'[u].unreadCount
                <= Cardinality(Cover(u)') + Cardinality(Reading(u)')
    <3>1. PICK m \in Messages : m = req[p].mid
      BY <2>6 DEF ReadWrite, TypeInv, Informed
    <3>2. "decrement" \in Stages  BY DEF Stages
    <3>3. /\ \A q \in Reqs : q # p => req'[q] = req[q]
          /\ req'[p].at = "decrement" /\ req'[p].by = u
          /\ req[p].at = "read" /\ part' = part
      BY <2>6, <3>2, FinishSlot DEF ReadWrite, TypeInv
    <3>4. p \in Reading(u)' /\ p \notin Reading(u)
      BY <3>3 DEF Reading
    <3>5. \A q \in Reqs : ~ReadDecrement(q)
      BY <3>3, Unmoved DEF ReadDecrement
    <3>6. Reading(u) \subseteq Reading(u)'  BY <2>1, <3>5
    <3>7. Cardinality(Reading(u)) + 1 <= Cardinality(Reading(u)')
      BY <1>a, <1>b, <3>4, <3>6, Gain
    <3>8. \A k \in Messages, q \in Reqs : k # m =>
            /\ ~(ReadWrite(q) /\ req[q].by = u /\ req[q].mid = k)
            /\ ~(DeleteUncount(q, u) /\ req[q].mid = k)
      BY <3>1, <3>3, Unmoved DEF DeleteUncount
    <3>9. Cover(u) \ {m} \subseteq Cover(u)'
      <4>1. Cover(u) \subseteq Messages  BY DEF Cover
      <4> QED  BY <2>3, <3>8, <4>1
    <3>10. Cardinality(Cover(u)) <= Cardinality(Cover(u)') + 1
      BY <1>a, <1>b, <3>9, Lose
    <3> QED  BY <1>a, <1>b, <2>2, <3>3, <3>7, <3>10
  \* A counter above zero is one less, another stays at zero.
  <2>7. ASSUME part' = Decremented(u)
         PROVE  \/ part'[u].unreadCount + 1 = part[u].unreadCount
                     /\ part'[u].unreadCount \in Nat
                \/ part'[u].unreadCount = 0
    <3>1. CASE part[u].unreadCount > 0
      <4>1. part'[u] = [part[u] EXCEPT !.unreadCount = @ - 1]
        BY <1>0, <2>2, <2>7, <3>1 DEF Decremented
      <4>2. part'[u].unreadCount = part[u].unreadCount - 1
        BY <2>2, <4>1 DEF PartRecord
      <4> QED  BY <2>2, <3>1, <4>2
    <3>2. CASE ~(part[u].unreadCount > 0)
      BY <2>2, <2>7, <3>2 DEF Decremented
    <3> QED  BY <3>1, <3>2
  <2>8. ASSUME NEW p \in Reqs, ReadDecrement(p), req[p].by = u
        PROVE part'[u].unreadCount
                <= Cardinality(Cover(u)') + Cardinality(Reading(u)')
    <3>1. req[p].at = "decrement" /\ Leave(p) /\ part' = Decremented(u)
      BY <2>8 DEF ReadDecrement
    <3>2. \A q \in Reqs : q # p => req'[q] = req[q]
      BY <3>1, LeaveSlot DEF TypeInv
    <3>3. Cover(u) \subseteq Cover(u)'  BY <2>4, <3>1, <3>2
    <3>4. Reading(u) \ {p} \subseteq Reading(u)'  BY <3>2 DEF Reading
    <3>5. /\ Cardinality(Cover(u)) <= Cardinality(Cover(u)')
          /\ Cardinality(Reading(u)) <= Cardinality(Reading(u)') + 1
      BY <1>a, <1>b, <3>3, <3>4, FS_Subset, Lose
    <3> QED  BY <1>a, <1>b, <2>2, <2>7, <3>1, <3>5
  <2>9. ASSUME NEW p \in Reqs, DeleteUncount(p, u)
        PROVE part'[u].unreadCount
                <= Cardinality(Cover(u)') + Cardinality(Reading(u)')
    <3>1. PICK m \in Messages : m = req[p].mid
      BY <2>9 DEF DeleteUncount, TypeInv, Informed
    <3>2. /\ \A q \in Reqs : q # p => req'[q] = req[q]
          /\ \A q \in Reqs : req'[q].at = req[q].at /\ req'[q].by = req[q].by
          /\ req[p].at = "uncount" /\ part' = Decremented(u)
      BY <1>0, <2>9 DEF DeleteUncount, ReqRecord
    <3>3. \A k \in Messages, q \in Reqs : k # m =>
            /\ ~(ReadWrite(q) /\ req[q].by = u /\ req[q].mid = k)
            /\ ~(DeleteUncount(q, u) /\ req[q].mid = k)
      BY <3>1, <3>2, Unmoved DEF ReadWrite
    <3>4. Cover(u) \ {m} \subseteq Cover(u)'
      <4>1. Cover(u) \subseteq Messages  BY DEF Cover
      <4> QED  BY <2>3, <3>3, <4>1
    <3>5. Reading(u) \subseteq Reading(u)'  BY <3>2 DEF Reading
    <3>6. /\ Cardinality(Cover(u)) <= Cardinality(Cover(u)') + 1
          /\ Cardinality(Reading(u)) <= Cardinality(Reading(u)')
      BY <1>a, <1>b, <3>4, <3>5, FS_Subset, Lose
    <3> QED  BY <1>a, <1>b, <2>2, <2>7, <3>2, <3>6
  <2>10. ASSUME \A p \in Reqs :
                 /\ ~(ReadWrite(p) /\ req[p].by = u)
                 /\ ~(ReadDecrement(p) /\ req[p].by = u)
                 /\ ~DeleteUncount(p, u),
               part'[u] = part[u]
        PROVE part'[u].unreadCount
                <= Cardinality(Cover(u)') + Cardinality(Reading(u)')
    <3>1. Cover(u) \subseteq Cover(u)'  BY <2>3, <2>10
    <3>2. Reading(u) \subseteq Reading(u)'  BY <2>1, <2>10
    <3>3. /\ Cardinality(Cover(u)) <= Cardinality(Cover(u)')
          /\ Cardinality(Reading(u)) <= Cardinality(Reading(u)')
      BY <1>a, <3>1, <3>2, FS_Subset
    <3> QED  BY <1>a, <1>b, <2>2, <2>10, <3>3
  <2> QED  BY <1>4, <2>1, <2>5, <2>6, <2>8, <2>9, <2>10, PartStep
<1> QED  BY <1>1, <1>2, <1>3, <1>4

LEMMA CountedStep == TypeInv /\ Counted /\ [Next]_vars => Counted'
BY BoundStep DEF Counted, Bound

\* However many requests run at the same time, are retried or fail, the badge
\* of a user promises no more than there is to read, unless a request of the
\* user's died half-way.
THEOREM BadgesBacked == Spec => []BadgeBacked
<1>1. ASSUME Init  PROVE Counted
  <2>1. ASSUME NEW u \in Users, Settled(u)
        PROVE  part[u].unreadCount <= Cardinality(Cover(u)) + Cardinality(Reading(u))
    <3>1. part[u].unreadCount = 0
      BY <1>1, <2>1 DEF Init, Settled, Row, Joined
    <3> QED  BY <3>1, CountedSets
  <2> QED  BY <2>1 DEF Counted
<1>2. TypeInv /\ Counted /\ [Next]_vars => (TypeInv /\ Counted)'
  BY TypeStep, CountedStep
<1>3. ASSUME TypeInv, Counted  PROVE BadgeBacked
  <2>1. ASSUME NEW u \in Users, Settled(u)
        PROVE  part[u].unreadCount
                 <= Cardinality(Unread(u)) + Cardinality(Reading(u))
    <3>1. part[u].unreadCount <= Cardinality(Cover(u)) + Cardinality(Reading(u))
      BY <1>3, <2>1 DEF Counted
    <3>2. Cover(u) \subseteq Unread(u)  BY DEF Cover, Covered
    <3>3. Cardinality(Cover(u)) <= Cardinality(Unread(u))
      BY <3>2, CountedSets, FS_Subset
    <3>4. part[u].unreadCount \in Nat
      BY <1>3, <2>1 DEF TypeInv, TypeOK, Settled, Row, PartRecord
    <3> QED  BY <3>1, <3>3, <3>4, CountedSets
  <2> QED  BY <2>1 DEF BadgeBacked, Settled
<1> QED  BY <1>1, <1>2, <1>3, TypeInitially, PTL DEF Spec

=============================================================================
