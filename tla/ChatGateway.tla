----------------------------- MODULE ChatGateway -----------------------------
(***************************************************************************)
(* The WebSocket gateway (src/src/chats/chat.gateway.ts): who is online,   *)
(* who is typing, and what its clients are told of a chat's participants   *)
(* and unread counters, which other requests change in the database.       *)
(*                                                                         *)
(* A socket connects once.  The gateway remembers one socket per user, the *)
(* last to connect, and one timer per user after a disconnection.  A       *)
(* handler runs in pieces, cut at its awaits; what it emits reaches every  *)
(* open socket of a channel in the order of emission.  shown, typist,      *)
(* lists and badge are what the clients display by those events.           *)
(***************************************************************************)
EXTENDS Naturals, FiniteSets

CONSTANTS
  Users, Sockets, Chats,
  Reqs,        \* slots for requests that run at the same time
  MaxUnread,   \* no counter is raised above it
  Mixes,       \* who takes part in what, and the requests looked at
  MaxAsked,    \* bounds the typing events under way
  NULL

ASSUME NullAssumption == NULL \notin Users \cup Sockets \cup Chats
ASSUME MixesAssumption ==
  \A m \in Mixes : /\ m.part \in [Chats -> SUBSET Users]
                   /\ m.owner \in [Sockets -> Users]

VARIABLES
  sock,      \* what the handler of each connection is about
  isOpen,    \* sockets the transport holds open
  in,        \* the chat channels each socket has joined
  userSockets, offlineTimeouts,
  notice,    \* offline notices on their way, by the socket they are about
  asked,     \* typing events between their check and their effect
  typing,    \* the chat that each socket's typing timeout will stop
  shown,     \* the users that the client of a socket shows as online
  typist,    \* the users that it shows as typing, and where
  doubled,   \* users who have had two sockets open at once
  late,      \* users announced as gone once back, as here once gone, or not at all
  part,      \* chat_room_participants
  hidden,    \* those of them that have hidden the chat
  unread,    \* the unread counters of mix.chat
  lists,     \* the chats that the client of a socket lists
  badge,     \* the unread count it shows for mix.chat
  job,       \* requests between their change of the database and their events
  crossed,   \* users about whom two of them ran at once, one died half-way, or who
             \* are not told: a handler that tells nobody, or another socket only
  mix

gateway == <<userSockets, offlineTimeouts, notice>>
display == <<shown, typist>>
rows == <<part, hidden, unread>>
chat == <<part, hidden, unread, lists, badge, job, crossed>>
presence == <<sock, isOpen, in, gateway, asked, typing, display, doubled, late, mix>>
vars == <<presence, chat>>

-----------------------------------------------------------------------------
Owner(s) == mix.owner[s]
Stages == {"new", "reading", "joining", "done"}

\* getUserChatRooms(): the chats in the user's list, with all their participants.
Listed(u) == {r \in Chats : u \in part[r] /\ <<r, u>> \notin hidden}
Peers(R) == UNION {part[r] : r \in R}

\* The sockets that an event to the channels R reaches.
Hearing(R) == {t \in isOpen : in[t] \cap R # {}}

NotShowing(T, u) == [t \in Sockets |-> IF t \in T THEN shown[t] \ {u} ELSE shown[t]]

\* The channel without the socket itself hears who is typing.
Typing(s, r, on) ==
  [t \in Sockets |->
    IF t \notin Hearing({r}) \ {s} THEN typist[t]
    ELSE IF on THEN typist[t] \cup {<<Owner(s), r>>}
    ELSE typist[t] \ {<<Owner(s), r>>}]

-----------------------------------------------------------------------------
\* handleConnection() up to its await: the newest socket is the user's.
Connect(s) ==
  LET u == Owner(s)
  IN /\ sock[s] = "new"
     /\ sock' = [sock EXCEPT ![s] = "reading"]
     /\ doubled' = IF \E t \in isOpen : Owner(t) = u THEN doubled \cup {u} ELSE doubled
     /\ isOpen' = isOpen \cup {s}
     /\ userSockets' = [userSockets EXCEPT ![u] = s]
     /\ offlineTimeouts' = [offlineTimeouts EXCEPT ![u] = NULL]
     /\ UNCHANGED <<in, notice, asked, typing, display, late, chat, mix>>

ReadChats(s) ==
  /\ sock[s] = "reading"
  /\ sock' = [sock EXCEPT ![s] = "joining"]
  /\ UNCHANGED <<isOpen, in, gateway, asked, typing, display, doubled, late, chat, mix>>

\* Mutant: the client is not told who is online already.
JoinUntold(s) ==
  LET u == Owner(s)
      R == Listed(u)
      hears == IF R = {} THEN {} ELSE (Hearing(R) \cup ({s} \cap isOpen))
  IN /\ sock[s] = "joining"
     /\ sock' = [sock EXCEPT ![s] = "done"]
     /\ in' = [in EXCEPT ![s] = @ \cup R]
     /\ shown' = [t \in Sockets |-> IF t \in hears THEN shown[t] \cup {u} ELSE shown[t]]
     /\ late' = IF userSockets[u] = NULL THEN late \cup {u} ELSE late
     /\ UNCHANGED <<isOpen, gateway, asked, typing, typist, doubled, chat, mix>>

\* The rest of it, even if the socket has closed meanwhile: the chats hear that
\* the user is online, and the client who of their participants is.
Join(s) ==
  LET u == Owner(s)
      R == Listed(u)
      hears == IF R = {} THEN {} ELSE (Hearing(R) \cup ({s} \cap isOpen))
      online == {v \in Peers(R) \ {u} : userSockets[v] # NULL}
  IN /\ sock[s] = "joining"
     /\ sock' = [sock EXCEPT ![s] = "done"]
     /\ in' = [in EXCEPT ![s] = @ \cup R]
     /\ shown' = [t \in Sockets |->
                   (IF t \in hears THEN shown[t] \cup {u} ELSE shown[t])
                   \cup (IF t = s /\ s \in isOpen THEN online ELSE {})]
     /\ late' = IF userSockets[u] = NULL THEN late \cup {u} ELSE late
     /\ UNCHANGED <<isOpen, gateway, asked, typing, typist, doubled, chat, mix>>

\* Mutant: the user of a refused connection is forgotten before it is closed.
RefuseUntimed(s) ==
  /\ mix.fails /\ sock[s] = "reading" /\ s \in isOpen
  /\ sock' = [sock EXCEPT ![s] = "done"]
  /\ isOpen' = isOpen \ {s}
  /\ in' = [in EXCEPT ![s] = {}]
  /\ late' = late \cup {Owner(s)}
  /\ UNCHANGED <<userSockets, offlineTimeouts, notice, asked, typing, display, doubled,
                 chat, mix>>

\* The list cannot be read: the client is disconnected.
Refuse(s) ==
  /\ mix.fails /\ sock[s] = "reading" /\ s \in isOpen
  /\ sock' = [sock EXCEPT ![s] = "done"]
  /\ isOpen' = isOpen \ {s}
  /\ in' = [in EXCEPT ![s] = {}]
  /\ offlineTimeouts' = [offlineTimeouts EXCEPT ![Owner(s)] = s]
  /\ late' = late \cup {Owner(s)}
  /\ UNCHANGED <<userSockets, notice, asked, typing, display, doubled, chat, mix>>

\* handleDisconnect(): the user's timer starts anew, whichever socket is closed.
Disconnect(s) ==
  /\ s \in isOpen \ mix.stay
  /\ isOpen' = isOpen \ {s}
  /\ in' = [in EXCEPT ![s] = {}]
  /\ offlineTimeouts' = [offlineTimeouts EXCEPT ![Owner(s)] = s]
  /\ UNCHANGED <<sock, userSockets, notice, asked, typing, display, doubled,
                 late, chat, mix>>

\* The timer fires: the user is offline unless another socket is the user's now.
Fire(u) ==
  LET s == offlineTimeouts[u]
  IN /\ s # NULL
     /\ offlineTimeouts' = [offlineTimeouts EXCEPT ![u] = NULL]
     /\ IF userSockets[u] = s
        THEN /\ userSockets' = [userSockets EXCEPT ![u] = NULL]
             /\ notice' = [notice EXCEPT ![s] = "reading"]
        ELSE UNCHANGED <<userSockets, notice>>
     /\ UNCHANGED <<sock, isOpen, in, asked, typing, display, doubled, late, chat, mix>>

\* The chats that are to hear of it are read, or cannot be and never hear of it.
ReadNotice(s) ==
  /\ notice[s] = "reading"
  /\ notice' = [notice EXCEPT ![s] = "sending"]
  /\ UNCHANGED <<sock, isOpen, in, userSockets, offlineTimeouts, asked, typing,
                 display, doubled, late, chat, mix>>

LoseNotice(s) ==
  /\ mix.fails /\ notice[s] = "reading"
  /\ notice' = [notice EXCEPT ![s] = "none"]
  /\ late' = late \cup {Owner(s)}
  /\ UNCHANGED <<sock, isOpen, in, userSockets, offlineTimeouts, asked, typing,
                 display, doubled, chat, mix>>

\* It is sent though the user may be back.
SendNotice(s) ==
  LET u == Owner(s)
  IN /\ notice[s] = "sending"
     /\ notice' = [notice EXCEPT ![s] = "none"]
     /\ shown' = NotShowing(Hearing(Listed(u)), u)
     /\ late' = IF userSockets[u] # NULL THEN late \cup {u} ELSE late
     /\ UNCHANGED <<sock, isOpen, in, userSockets, offlineTimeouts, asked,
                    typing, typist, doubled, chat, mix>>

-----------------------------------------------------------------------------
\* joinChatRoom and typing events first ask whether the user takes part.
Ask(s, what, r) ==
  /\ s \in isOpen /\ what \in mix.events /\ Owner(s) \in mix.typing
  /\ Cardinality(asked) < MaxAsked
  /\ Owner(s) \in part[r]
  /\ asked' = asked \cup {[by |-> s, what |-> what, room |-> r]}
  /\ UNCHANGED <<sock, isOpen, in, gateway, typing, display, doubled, late, chat, mix>>

JoinRoom(a) ==
  /\ a \in asked /\ a.what = "join"
  /\ asked' = asked \ {a}
  /\ in' = IF a.by \in isOpen THEN [in EXCEPT ![a.by] = @ \cup {a.room}] ELSE in
  /\ UNCHANGED <<sock, isOpen, gateway, typing, display, doubled, late, chat, mix>>

LeaveRoom(s, r) ==
  /\ "join" \in mix.events /\ s \in isOpen
  /\ in' = [in EXCEPT ![s] = @ \ {r}]
  /\ UNCHANGED <<sock, isOpen, gateway, asked, typing, display, doubled, late, chat, mix>>

\* handleTyping(): one timeout per socket, whatever the chat.
StartTyping(a) ==
  /\ a \in asked /\ a.what = "start"
  /\ asked' = asked \ {a}
  /\ typist' = Typing(a.by, a.room, TRUE)
  /\ typing' = [typing EXCEPT ![a.by] = a.room]
  /\ UNCHANGED <<sock, isOpen, in, gateway, shown, doubled, late, chat, mix>>

StopTyping(a) ==
  /\ a \in asked /\ a.what = "stop"
  /\ asked' = asked \ {a}
  /\ typist' = Typing(a.by, a.room, FALSE)
  /\ typing' = [typing EXCEPT ![a.by] = NULL]
  /\ UNCHANGED <<sock, isOpen, in, gateway, shown, doubled, late, chat, mix>>

TypingTimeout(s) ==
  /\ typing[s] # NULL
  /\ typist' = Typing(s, typing[s], FALSE)
  /\ typing' = [typing EXCEPT ![s] = NULL]
  /\ UNCHANGED <<sock, isOpen, in, gateway, asked, shown, doubled, late, chat, mix>>

-----------------------------------------------------------------------------
\* Requests that change the rows of mix.chat, here or over HTTP, and then emit.
Crossing(A) == A \cap UNION {job[p].about : p \in {q \in Reqs : job[q] # NULL}}

Zeros == [u \in Users |-> 0]

Begun(kind, by, at, A) ==
  [kind |-> kind, by |-> by, at |-> at, about |-> A, read |-> {}, count |-> Zeros]

Enter(p, kind, by, at, A) ==
  /\ job[p] = NULL /\ kind \in mix.kinds
  /\ job' = [job EXCEPT ![p] = Begun(kind, by, at, A)]
  /\ crossed' = crossed \cup Crossing(A)

Personal(u) == {s \in isOpen : Owner(s) = u}       \* the channel user_<id>
Newest(u) == {userSockets[u]} \cap isOpen
Members == part[mix.chat]

\* A message is stored, and counted by the others; the chat is shown again first
\* to those who have hidden it (RestoreRoom).
SendMessage(p, u) ==
  /\ u \in Members /\ hidden = {} /\ \A v \in Members : unread[v] < MaxUnread
  /\ Enter(p, "send", u, "count", Members \ {u})
  /\ unread' = [v \in Users |-> IF v \in Members \ {u} THEN unread[v] + 1 ELSE unread[v]]
  /\ UNCHANGED <<part, hidden, lists, badge, presence>>

\* markMessagesAsRead(), whose callers tell a zero.
OpenChat(p, u) ==
  /\ u \in Members
  /\ Enter(p, "open", u, "tell", {u})
  /\ unread' = [unread EXCEPT ![u] = 0]
  /\ UNCHANGED <<part, hidden, lists, badge, presence>>

ReadMessage(p, u) ==
  /\ u \in Members /\ unread[u] > 0
  /\ Enter(p, "read", u, "count", {u})
  /\ unread' = [unread EXCEPT ![u] = @ - 1]
  /\ UNCHANGED <<part, hidden, lists, badge, presence>>

MarkUnread(p, u) ==
  /\ u \in Members /\ unread[u] < MaxUnread
  /\ Enter(p, "unread", u, "count", {u})
  /\ unread' = [unread EXCEPT ![u] = @ + 1]
  /\ UNCHANGED <<part, hidden, lists, badge, presence>>

\* A message goes that the users D have not read.  A client that has just read
\* it (G) is told nothing, as handleMessageRead() finds the message no more.
DeleteMessage(p, D, G) ==
  /\ "delete" \in mix.kinds /\ job[p] = NULL /\ D \cup G # {}
  /\ D \subseteq {u \in Members : unread[u] > 0}
  /\ \A q \in G : /\ job[q] # NULL /\ job[q].kind = "read" /\ job[q].at = "count"
                  /\ job[q].by \notin D
  /\ job' = [q \in Reqs |-> IF q \in G THEN NULL
                            ELSE IF q = p /\ D # {} THEN Begun("delete", NULL, "count", D)
                            ELSE job[q]]
  /\ crossed' = crossed \cup Crossing(D) \cup {job[q].by : q \in G}
  /\ unread' = [u \in Users |-> IF u \in D THEN unread[u] - 1 ELSE unread[u]]
  /\ UNCHANGED <<part, hidden, lists, badge, presence>>

\* The counters are read again: those of all at once after a new message, one by
\* one after a deletion.
Count(p) ==
  /\ job[p] # NULL /\ job[p].at = "count"
  /\ \E A \in (IF job[p].kind = "send" THEN {Members \ {job[p].by}}
               ELSE {{u} : u \in job[p].about}) :
       job' = [job EXCEPT ![p].at = "tell", ![p].read = A,
             ![p].count = [u \in Users |-> IF u \in A THEN unread[u] ELSE 0]]
  /\ UNCHANGED <<rows, lists, badge, crossed, presence>>

\* Mutant: only the newest socket of a user is told.
TellCountNewest(p) ==
  LET j == job[p]
      told == IF j.kind = "open" THEN j.about ELSE j.read
      rest == IF j.kind = "delete" THEN j.about \ told ELSE {}
  IN /\ j # NULL /\ j.at = "tell"
     /\ badge' = [s \in Sockets |->
                   IF s \notin isOpen \/ Owner(s) \notin told \/ userSockets[Owner(s)] # s
                   THEN badge[s]
                   ELSE IF j.kind = "open" THEN 0 ELSE j.count[Owner(s)]]
     /\ job' = [job EXCEPT ![p] = IF rest = {} THEN NULL
                                  ELSE [j EXCEPT !.at = "count", !.about = rest,
                                                   !.read = {}, !.count = Zeros]]
     /\ UNCHANGED <<rows, lists, crossed, presence>>

\* chatUnreadCountUpdated goes to every socket of the user.
TellCount(p) ==
  LET j == job[p]
      told == IF j.kind = "open" THEN j.about ELSE j.read
      rest == IF j.kind = "delete" THEN j.about \ told ELSE {}
  IN /\ j # NULL /\ j.at = "tell"
     /\ badge' = [s \in Sockets |->
                   IF s \notin isOpen \/ Owner(s) \notin told THEN badge[s]
                   ELSE IF j.kind = "open" THEN 0 ELSE j.count[Owner(s)]]
     /\ job' = [job EXCEPT ![p] = IF rest = {} THEN NULL
                                  ELSE [j EXCEPT !.at = "count", !.about = rest,
                                                   !.read = {}, !.count = Zeros]]
     /\ UNCHANGED <<rows, lists, crossed, presence>>

-----------------------------------------------------------------------------
CreateRoom(p, A) ==
  /\ A # {} /\ Members = {} /\ \A s \in Sockets : mix.chat \notin in[s] \cup lists[s]
  /\ Enter(p, "create", NULL, "event", A)
  /\ part' = [part EXCEPT ![mix.chat] = A]
  /\ UNCHANGED <<hidden, unread, lists, badge, presence>>

AddParticipant(p, u) ==
  /\ Members # {} /\ u \notin Members
  /\ Enter(p, "add", u, "event", {u})
  /\ part' = [part EXCEPT ![mix.chat] = @ \cup {u}]
  /\ unread' = [unread EXCEPT ![u] = 0]
  /\ UNCHANGED <<hidden, lists, badge, presence>>

\* Over HTTP a participant is added and nobody is told.
AddUntold(u) ==
  /\ "add" \in mix.kinds /\ Members # {} /\ u \notin Members
  /\ part' = [part EXCEPT ![mix.chat] = @ \cup {u}]
  /\ unread' = [unread EXCEPT ![u] = 0]
  /\ crossed' = crossed \cup {u}
  /\ UNCHANGED <<hidden, lists, badge, job, presence>>

RemoveParticipant(p, u) ==
  /\ u \in Members /\ Members # {u}
  /\ Enter(p, "remove", u, "event", {u})
  /\ part' = [part EXCEPT ![mix.chat] = @ \ {u}]
  /\ hidden' = hidden \ {<<mix.chat, u>>}
  /\ UNCHANGED <<unread, lists, badge, presence>>

\* deleteChatRoom() by a member of a group who is not its admin.
LeaveGroup(p, u) ==
  /\ u \in Members
  /\ Enter(p, "leave", u, "event", {u})
  /\ part' = [part EXCEPT ![mix.chat] = @ \ {u}]
  /\ hidden' = hidden \ {<<mix.chat, u>>}
  /\ UNCHANGED <<unread, lists, badge, presence>>

\* deleteChatRoom(): the last to hide a chat deletes it.
HideRoom(p, u) ==
  /\ mix.chat \in Listed(u)
  /\ IF \A v \in Members \ {u} : <<mix.chat, v>> \in hidden
     THEN /\ Enter(p, "erase", NULL, "event", Members)
          /\ part' = [part EXCEPT ![mix.chat] = {}] /\ hidden' = {}
     ELSE /\ Enter(p, "hide", u, "event", {u})
          /\ hidden' = hidden \cup {<<mix.chat, u>>} /\ UNCHANGED part
  /\ UNCHANGED <<unread, lists, badge, presence>>

EraseRoom(p) ==
  /\ Members # {}
  /\ Enter(p, "erase", NULL, "event", Members)
  /\ part' = [part EXCEPT ![mix.chat] = {}] /\ hidden' = {}
  /\ UNCHANGED <<unread, lists, badge, presence>>

\* A message to a hidden chat shows it again.
RestoreRoom(p, u) ==
  /\ <<mix.chat, u>> \in hidden
  /\ Enter(p, "restore", u, "event", {u})
  /\ hidden' = hidden \ {<<mix.chat, u>>}
  /\ UNCHANGED <<part, unread, lists, badge, presence>>

\* createChatRoom() of a direct chat that exists: it is shown again to both.
ReopenRoom(p, u) ==
  /\ u \in Members
  /\ Enter(p, "reopen", u, "event", {u} \cup {v \in Users : <<mix.chat, v>> \in hidden})
  /\ hidden' = hidden \ {<<mix.chat, v>> : v \in Users}
  /\ UNCHANGED <<part, unread, lists, badge, presence>>

\* All sockets of some users, and the newest of each.
Personals(A) == UNION {Personal(u) : u \in A}
Created(A) == UNION {Newest(u) : u \in A}

\* The sockets that learn of the chat, or of its end: which of them depends on the
\* handler that makes the change, over the gateway, over HTTP or for a load.
Told(j) ==
  LET channel == {s \in Hearing({mix.chat}) : Owner(s) = j.by}
  IN CASE j.kind \in {"add", "create"} -> {Personals(j.about), Created(j.about)}
       [] j.kind = "remove" -> {Newest(j.by) \cup channel, Personal(j.by) \cup channel}
       [] j.kind = "leave" -> {channel}
       [] j.kind \in {"hide", "restore"} -> {Newest(j.by)}
       [] j.kind = "reopen" -> {Personal(j.by)} \cup {{s} : s \in Personal(j.by)}
       [] j.kind = "erase" -> {Hearing({mix.chat}), Personals(j.about)}

TellRoom(p) ==
  LET j == job[p]
  IN /\ j # NULL /\ j.at = "event"
     /\ \E T \in Told(j) :
          /\ lists' = [s \in Sockets |->
                        IF s \notin T THEN lists[s]
                        ELSE IF j.kind \in {"add", "create", "restore", "reopen"}
                          THEN lists[s] \cup {mix.chat} ELSE lists[s] \ {mix.chat}]
          /\ crossed' = IF j.kind \notin {"leave", "reopen", "erase"} THEN crossed
                        ELSE crossed \cup {u \in j.about : userSockets[u] \notin T}
     /\ job' = [job EXCEPT ![p] = NULL]
     /\ UNCHANGED <<rows, badge, presence>>

\* A request fails after it has changed the rows, and nothing is told.
Lose(p) ==
  /\ mix.fails /\ job[p] # NULL
  /\ job' = [job EXCEPT ![p] = NULL]
  /\ crossed' = crossed \cup job[p].about
  /\ UNCHANGED <<rows, lists, badge, presence>>

Request(p) ==
  \/ \E u \in Users : \/ SendMessage(p, u) \/ OpenChat(p, u) \/ ReadMessage(p, u)
                      \/ MarkUnread(p, u) \/ AddParticipant(p, u)
                      \/ RemoveParticipant(p, u) \/ LeaveGroup(p, u) \/ HideRoom(p, u)
                      \/ RestoreRoom(p, u) \/ ReopenRoom(p, u)
  \/ \E A \in SUBSET Users : \/ CreateRoom(p, A)
                             \/ \E G \in SUBSET Reqs : DeleteMessage(p, A, G)
  \/ EraseRoom(p) \/ Count(p) \/ TellCount(p) \/ TellRoom(p) \/ Lose(p)

-----------------------------------------------------------------------------
Init ==
  /\ mix \in Mixes
  /\ part = mix.part /\ hidden = {}
  /\ sock = [s \in Sockets |-> IF s \in mix.up THEN "done" ELSE "new"]
  /\ isOpen = mix.up
  /\ in = [s \in Sockets |-> IF s \in mix.up THEN Listed(Owner(s)) ELSE {}]
  /\ userSockets = [u \in Users |-> IF mix.up = {} THEN NULL ELSE mix.newest[u]]
  /\ offlineTimeouts = [u \in Users |-> NULL]
  /\ notice = [s \in Sockets |-> "none"]
  /\ asked = {} /\ typing = [s \in Sockets |-> NULL]
  /\ shown = [s \in Sockets |-> {}] /\ typist = [s \in Sockets |-> {}]
  /\ doubled = {u \in Users : Cardinality({s \in mix.up : Owner(s) = u}) > 1}
  /\ late = {} /\ crossed = {}
  /\ unread = Zeros /\ badge = [s \in Sockets |-> 0]
  /\ lists = in
  /\ job = [p \in Reqs |-> NULL]

\* What the server does by itself.
Server(s) ==
  \/ ReadChats(s) \/ Join(s) \/ Refuse(s) \/ TypingTimeout(s)
  \/ ReadNotice(s) \/ LoseNotice(s) \/ SendNotice(s)

Events ==
  \E a \in asked : JoinRoom(a) \/ StartTyping(a) \/ StopTyping(a)

Next ==
  \/ \E s \in Sockets :
       \/ Connect(s) \/ Disconnect(s) \/ Server(s)
       \/ \E r \in Chats : LeaveRoom(s, r)
       \/ \E r \in Chats, what \in {"start", "stop", "join"} : Ask(s, what, r)
  \/ \E u \in Users : Fire(u)
  \/ Events
  \/ \E p \in Reqs : Request(p)
  \/ \E u \in Users : AddUntold(u)

\* Timers fire and queries return.
Spec ==
  /\ Init /\ [][Next]_vars
  /\ \A s \in Sockets : WF_vars(Server(s))
  /\ \A u \in Users : WF_vars(Fire(u))
  /\ WF_vars(Events)

-----------------------------------------------------------------------------
\* TypeOK: the maps hold sockets of their user, only open sockets are in channels
\* unless they closed while they were being joined, and every handler is in one
\* of its stages.
TypeOK ==
  /\ mix \in Mixes
  /\ sock \in [Sockets -> Stages]
  /\ isOpen \subseteq Sockets /\ in \in [Sockets -> SUBSET Chats]
  /\ notice \in [Sockets -> {"none", "reading", "sending"}]
  /\ \A u \in Users : {userSockets[u], offlineTimeouts[u]} \subseteq
                        {s \in Sockets : Owner(s) = u} \cup {NULL}
  /\ asked \subseteq [by : Sockets, what : {"start", "stop", "join"}, room : Chats]
  /\ typing \in [Sockets -> Chats \cup {NULL}]
  /\ shown \in [Sockets -> SUBSET Users] /\ typist \in [Sockets -> SUBSET (Users \X Chats)]
  /\ doubled \subseteq Users /\ late \subseteq Users
  /\ part \in [Chats -> SUBSET Users]
  /\ \A x \in hidden : x[2] \in part[x[1]]
  /\ unread \in [Users -> 0..MaxUnread] /\ badge \in [Sockets -> 0..MaxUnread]
  /\ lists \in [Sockets -> SUBSET Chats] /\ crossed \subseteq Users
  /\ \A p \in Reqs : job[p] # NULL =>
       /\ job[p].at \in {"count", "tell", "event"}
       /\ job[p].about \subseteq Users /\ job[p].read \subseteq Users

\* PresenceAgrees: of a user who never had two sockets open at once, the map holds
\* a socket that is open, or one whose timer runs; and an open socket is in it.
\* Reconnections, timers of closed sockets and refused connections cross freely.
PresenceAgrees ==
  \A u \in Users \ doubled :
    /\ userSockets[u] # NULL =>
         userSockets[u] \in isOpen \/ offlineTimeouts[u] = userSockets[u]
    /\ \A s \in isOpen : Owner(s) = u => userSockets[u] = s

\* NewestStays: the gateway takes a user for offline only when the newest socket
\* is closed: the disconnection of an older one, or a timer that was started
\* before the user came back, does not do it.
NewestStays ==
  [][\A u \in Users :
       userSockets[u] # NULL /\ userSockets'[u] = NULL => userSockets[u] \notin isOpen]_vars

\* ShownAgrees: with nothing on its way, a client shows exactly those it shares a
\* chat channel with as online that the gateway takes for online; unless a notice
\* was lost, or was sent after its user had come back.
Settled(u) ==
  /\ \A s \in Sockets : /\ notice[s] # "none" => Owner(s) # u
                        /\ Owner(s) = u => sock[s] \in {"new", "done"}

ShownAgrees ==
  mix.up = {} => \A s \in isOpen, u \in Users \ late :
    /\ sock[s] = "done" /\ Settled(u) /\ u # Owner(s)
    /\ \E r \in in[s] : u \in part[r]
    => (u \in shown[s] <=> userSockets[u] # NULL)

\* TypingTimed: a client that shows somebody as typing will be told that it is
\* over: a timeout of a socket of that user is set for that chat, if a user types
\* in one chat only.
TypingTimed ==
  Cardinality({r \in Chats : part[r] # {}}) = 1 =>
    \A t \in isOpen : \A x \in typist[t] :
      \E s \in Sockets : Owner(s) = x[1] /\ typing[s] = x[2]

\* BadgeTold: at rest, every client of a user shows the counter that is stored,
\* unless two requests about that user ran at once, one failed half-way, or the
\* message just read was deleted: no other handler changes a counter, for anybody,
\* without telling the new one.
AtRest == \A p \in Reqs : job[p] = NULL

BadgeTold ==
  AtRest => \A s \in isOpen \cap mix.up :
    Owner(s) \in Members \ crossed => badge[s] = unread[Owner(s)]

\* ListTold: likewise the newest socket of a user lists the chat exactly as long as
\* the user takes part and has not hidden it.  Not told, and so excepted, are those
\* added over HTTP, the other user of a direct chat that is opened again, and who
\* leaves a group, or has a chat deleted, with that socket out of its channel.
ListTold ==
  AtRest => \A u \in Users \ crossed :
    \A s \in {userSockets[u]} \cap mix.up :
      mix.chat \in lists[s] <=> mix.chat \in Listed(u)

\* OfflineShown: a user who has closed the last socket, and does not come back,
\* ends as offline in the gateway.
OfflineShown ==
  \A u \in Users :
    (u \notin doubled /\ ~\E s \in isOpen : Owner(s) = u)
      ~> (userSockets[u] = NULL \/ u \in doubled \/ \E s \in isOpen : Owner(s) = u)

\* Who is here, what each client shows of it and what is being typed agree.
PresenceSound == TypeOK /\ PresenceAgrees /\ ShownAgrees /\ TypingTimed

\* Clients that stay connected show what the database says of counters and chats.
ChangesTold == BadgeTold /\ ListTold

\* The newest socket of a user is not forgotten, and who is gone is shown as gone in the end.
OfflineRight == NewestStays /\ OfflineShown

=============================================================================
