-------------------------------- MODULE Notices --------------------------------
(***************************************************************************)
(* What users are told while they look elsewhere: notices with the count   *)
(* of those unread (src/src/notifications/notifications.service.ts),       *)
(* pushes for notices, messages and reactions, the two background queues   *)
(* (custom-push-background.service.ts, offer-post-create-background        *)
(* .service.ts), and the reactions to a message.                           *)
(*                                                                         *)
(* There is one chat room with one message in it.  The text of notices and *)
(* pushes is left out, and so is what FCM and Expo make of them.  `work'   *)
(* holds what is done for one user on behalf of one call; an action is a   *)
(* piece of it between two awaits.                                         *)
(***************************************************************************)
EXTENDS Naturals, Sequences, FiniteSets, Functions, FiniteSetsExt

CONSTANTS
  Batch,     \* USER_BATCH_SIZE
  Mixes,     \* users, tokens, notices and the room to begin with, and the calls looked at
  NULL

VARIABLES
  person,    \* rows of users: role, enabled (notificationsEnabled), status (driverStatus), active
  token,     \* push tokens, each with its user
  note,      \* rows of notifications: user, kind, read, old
  member,    \* participants of the room, and whether they muted it
  reaction,  \* rows of message_reactions, by user
  badge,     \* the count of unread notices each user was told last
  shown,     \* the reactions that clients show
  work,      \* what is being done, by call and user
  rest,      \* recipients a loop has not come to
  queue,     \* the two background queues
  loose,     \* history: users whose badge was overtaken; NULL for the reactions shown
  bothered,  \* history: who got what was not for them
  missed,    \* history: targets a job left out
  todo, faults, mix

vars == <<person, token, note, member, reaction, badge, shown, work, rest, queue, loose, bothered, missed, todo, faults, mix>>
rows == <<person, token, note, member, reaction>>
told == <<badge, shown, loose>>

-----------------------------------------------------------------------------
Without(f, x) == Restrict(f, DOMAIN f \ {x})
With(f, x, v) == [y \in DOMAIN f \cup {x} |-> IF y = x THEN v ELSE f[y]]
Take(c, kinds) == c \in todo /\ c.kind \in kinds /\ todo' = todo \ {c}

\* OFFER_NOTIFICATION_TYPES, GROUP_CHAT_NOTIFICATION_TYPES
OfferKinds == {"offer_staff", "offer_driver"}
GroupKinds == {"group_created", "participants_added", "participant_removed", "user_left"}
Excluded == OfferKinds \cup GroupKinds

\* isAdministratorUser(); whoever is gone is none.
IsAdmin(u) == u \in DOMAIN person /\ person[u].role = "admin"

\* What speaks against telling a user something.
Reasons == {"admin", "disabled", "muted", "left", "blocked", "expired", "unheard"}
Heard == {"admin", "recruiter"}  \* allowedRolesForExpiredDocuments
Holds(r, u, p, m) ==
  \/ r = "unheard" /\ (u \in DOMAIN p => p[u].role \notin Heard)
  \/ r = "left" /\ u \notin DOMAIN m
  \/ r = "muted" /\ u \in DOMAIN m /\ m[u]
  \/ /\ u \in DOMAIN p
     /\ \/ r = "admin" /\ p[u].role = "admin"
        \/ r = "disabled" /\ ~p[u].enabled
        \/ r \in {"blocked", "expired"} /\ p[u].role = "driver" /\ p[u].status = r
Against(u, p, m) == {r \in Reasons : Holds(r, u, p, m)}

\* A piece of work: adm, n, to, seen are what it has read; was, late: history, how many notices
\* were unread when it counted, and whether the role had changed; off: history, what spoke
\* against telling each user ever since it began.
Begun(at) == [at |-> at, first |-> at, adm |-> FALSE, n |-> 0, was |-> 0, late |-> FALSE, to |-> {}, seen |-> <<>>,
              off |-> [u \in mix.users |-> Against(u, person, member)]]
At(c, u, at) == <<c, u>> \in DOMAIN work /\ work[<<c, u>>].at = at
Pass(c, u, at) == work' = [work EXCEPT ![<<c, u>>].at = at] /\ UNCHANGED rest

\* The work is done; a loop goes on to its next recipient, unless this one failed.
End(c, u) ==
  IF c \in DOMAIN rest /\ rest[c] # <<>>
  THEN /\ work' = With(Without(work, <<c, u>>), <<c, Head(rest[c])>>, Begun(work[<<c, u>>].first))
       /\ rest' = [rest EXCEPT ![c] = Tail(@)]
  ELSE work' = Without(work, <<c, u>>) /\ rest' = Without(rest, c)

Fail(c, u) == work' = Without(work, <<c, u>>) /\ rest' = Without(rest, c)

\* One recipient after the other, or all at once.
InTurn(c, to, at) ==
  /\ work' = IF to = <<>> THEN work ELSE With(work, <<c, Head(to)>>, Begun(at))
  /\ rest' = IF to = <<>> THEN rest ELSE With(rest, c, Tail(to))
AtOnce(c, to, at) ==
  /\ work' = [t \in DOMAIN work \cup {<<c, u>> : u \in to} |-> IF t \in DOMAIN work THEN work[t] ELSE Begun(at)]
  /\ UNCHANGED rest

-----------------------------------------------------------------------------
\* createPrivateChatNotification() and its like: who is told, and what is looked at first.
NotifyPrivate(c) == Take(c, {"private_created"}) /\ InTurn(c, c.to, "insert")
NotifyGroup(c) == Take(c, {"group_created"}) /\ AtOnce(c, {u \in Range(c.to) : u # c.by /\ ~IsAdmin(u)}, "role")
NotifyLeft(c) == Take(c, {"user_left"}) /\ InTurn(c, c.to, "role")
NotifyAdded(c) == Take(c, {"participants_added"}) /\ InTurn(c, SelectSeq(c.to, LAMBDA u : u # c.by), "role")
NotifyRemoved(c) == Take(c, {"participant_removed"}) /\ InTurn(c, SelectSeq(c.to, LAMBDA u : u # c.by), "role")
NotifyLoad(c) == Take(c, {"load"}) /\ InTurn(c, c.to, "insert")
NotifyStaff(c) == Take(c, {"offer_staff"}) /\ AtOnce(c, Range(c.to), "offer")
NotifyDriver(c) == Take(c, {"offer_driver"}) /\ AtOnce(c, Range(c.to), "offer")
Notify(c) ==
  /\ \/ NotifyPrivate(c) \/ NotifyGroup(c) \/ NotifyLeft(c) \/ NotifyAdded(c)
     \/ NotifyRemoved(c) \/ NotifyLoad(c) \/ NotifyStaff(c) \/ NotifyDriver(c)
  /\ UNCHANGED <<rows, told, queue, bothered, missed, faults, mix>>

\* The offer's own look at the role, and that of createNotification().
OfferRole(c, u) ==
  /\ At(c, u, "offer")
  /\ IF IsAdmin(u) THEN End(c, u) ELSE Pass(c, u, "role")
  /\ UNCHANGED <<rows, told, queue, bothered, missed, todo, faults, mix>>

RoleRead(c, u) ==
  /\ At(c, u, "role")
  /\ IF IsAdmin(u) THEN End(c, u) ELSE Pass(c, u, "insert")
  /\ UNCHANGED <<rows, told, queue, bothered, missed, todo, faults, mix>>

\* The job of the offer queue has told this one.
Kind(c) == IF c.kind = "offer_job" THEN "offer_driver" ELSE c.kind
Reached(c, u) == [q \in DOMAIN queue |-> IF queue[q].job = c THEN [queue[q] EXCEPT !.sent = @ \cup {u}] ELSE queue[q]]
Twice(c, u) == \E q \in DOMAIN queue : queue[q].job = c /\ u \in queue[q].sent

\* prisma.notification.create() fails for a user who is gone, and a loop ends with it.
Insert(c, u) ==
  /\ At(c, u, "insert")
  /\ IF u \in DOMAIN person
     THEN /\ note' = Append(note, [user |-> u, kind |-> Kind(c), read |-> FALSE, old |-> FALSE])
          /\ Pass(c, u, "countRole")
          /\ queue' = Reached(c, u)
          /\ bothered' = IF Twice(c, u) \/ (Kind(c) \in Excluded /\ "admin" \in work[<<c, u>>].off[u]) THEN bothered \cup {u} ELSE bothered
     ELSE Fail(c, u) /\ UNCHANGED <<note, queue, bothered>>
  /\ UNCHANGED <<person, token, member, reaction, told, missed, todo, faults, mix>>

\* The notices counted for a user who is, or is not, an administrator.
UnreadFor(n, u, adm) == Cardinality({i \in DOMAIN n : n[i].user = u /\ ~n[i].read /\ (adm => n[i].kind \notin Excluded)})
Unread(u) == UnreadFor(note, u, IsAdmin(u))

\* administratorNotificationWhere(), getUnreadCount(): the role, then the count, then the event.
CountRole(c, u) ==
  /\ At(c, u, "countRole")
  /\ work' = [work EXCEPT ![<<c, u>>].adm = IsAdmin(u), ![<<c, u>>].at = "count"]
  /\ UNCHANGED <<rows, told, rest, queue, bothered, missed, todo, faults, mix>>

\* Mutant: an administrator's count holds what he is not shown.
CountAll(c, u) ==
  /\ At(c, u, "count")
  /\ work' = [work EXCEPT ![<<c, u>>] = [@ EXCEPT !.n = UnreadFor(note, u, FALSE), !.at = "tell",
                                                    !.was = Unread(u), !.late = work[<<c, u>>].adm # IsAdmin(u)]]
  /\ UNCHANGED <<rows, told, rest, queue, bothered, missed, todo, faults, mix>>

Count(c, u) ==
  /\ At(c, u, "count")
  /\ work' = [work EXCEPT ![<<c, u>>] = [@ EXCEPT !.n = UnreadFor(note, u, work[<<c, u>>].adm), !.at = "tell",
                                                    !.was = Unread(u), !.late = work[<<c, u>>].adm # IsAdmin(u)]]
  /\ UNCHANGED <<rows, told, rest, queue, bothered, missed, todo, faults, mix>>

\* sendUnreadCountToUser(); the answer to getUserNotifications() tells the same.
TellCount(u, n, w) ==
  /\ badge' = [badge EXCEPT ![u] = n]
  /\ loose' = IF w.was = Unread(u) /\ ~w.late THEN loose \ {u} ELSE loose \cup {u}
  /\ UNCHANGED shown
Tell(c, u) ==
  /\ At(c, u, "tell")
  /\ TellCount(u, work[<<c, u>>].n, work[<<c, u>>])
  /\ IF Kind(c) \in OfferKinds THEN Pass(c, u, "prefs") ELSE End(c, u)
  /\ UNCHANGED <<rows, queue, bothered, missed, todo, faults, mix>>

-----------------------------------------------------------------------------
\* markAsRead(), markAllAsRead(), getUserNotifications()
Ask(c) ==
  /\ Take(c, {"read", "read_all", "list"})
  /\ AtOnce(c, {c.by}, IF c.kind = "list" THEN "countRole" ELSE "update")
  /\ UNCHANGED <<rows, told, queue, bothered, missed, faults, mix>>

MarkRead(c, u) ==
  /\ At(c, u, "update")
  /\ c.kind = "read"
  /\ note' = [i \in DOMAIN note |-> IF i = c.n /\ note[i].user = u THEN [note[i] EXCEPT !.read = TRUE] ELSE note[i]]
  /\ Pass(c, u, "countRole")
  /\ UNCHANGED <<person, token, member, reaction, told, queue, bothered, missed, todo, faults, mix>>

MarkAll(c, u) ==
  /\ At(c, u, "update")
  /\ c.kind = "read_all"
  /\ note' = [i \in DOMAIN note |-> IF note[i].user = u THEN [note[i] EXCEPT !.read = TRUE] ELSE note[i]]
  /\ Pass(c, u, "zero")
  /\ UNCHANGED <<person, token, member, reaction, told, queue, bothered, missed, todo, faults, mix>>

\* No count is taken: there should be none.
TellZero(c, u) ==
  /\ At(c, u, "zero")
  /\ TellCount(u, 0, work[<<c, u>>])
  /\ End(c, u)
  /\ UNCHANGED <<rows, queue, bothered, missed, todo, faults, mix>>

\* Whose badge no longer says what the notices n do, and nobody tells.
Overtaken(n, p) == {u \in DOMAIN p : UnreadFor(n, u, p[u].role = "admin") # Unread(u)}

\* deleteOldNotifications()
Cleanup(c) ==
  /\ Take(c, {"cleanup"})
  /\ note' = [i \in DOMAIN note |-> IF note[i].old THEN [note[i] EXCEPT !.user = NULL] ELSE note[i]]
  /\ loose' = loose \cup Overtaken(note', person)
  /\ UNCHANGED <<person, token, member, reaction, badge, shown, work, rest, queue, bothered, missed, faults, mix>>

-----------------------------------------------------------------------------
\* sendPushToUser(): preferences, tokens, then FCM and Expo; it never fails.
PushOne(c) ==
  /\ Take(c, {"push"})
  /\ AtOnce(c, {c.by}, "prefs")
  /\ UNCHANGED <<rows, told, queue, bothered, missed, faults, mix>>

\* sendTmsPushByExternalId() looks for a user with tokens first.
PushTms(c) ==
  /\ Take(c, {"push_tms"})
  /\ AtOnce(c, {u \in {c.by} \cap DOMAIN person : u \in Range(token)}, "prefs")
  /\ UNCHANGED <<rows, told, queue, bothered, missed, faults, mix>>

\* Mutant: everybody is willing.
PrefsNot(c, u) ==
  /\ At(c, u, "prefs")
  /\ Pass(c, u, "tokens")
  /\ UNCHANGED <<rows, told, queue, bothered, missed, todo, faults, mix>>

Prefs(c, u) ==
  /\ At(c, u, "prefs")
  /\ IF u \in DOMAIN person /\ ~person[u].enabled THEN End(c, u) ELSE Pass(c, u, "tokens")
  /\ UNCHANGED <<rows, told, queue, bothered, missed, todo, faults, mix>>

Tokens(c, u) ==
  /\ At(c, u, "tokens")
  /\ IF u \in Range(token) THEN work' = [work EXCEPT ![<<c, u>>].to = {u}, ![<<c, u>>].at = "send"] /\ UNCHANGED rest
     ELSE End(c, u)
  /\ UNCHANGED <<rows, told, queue, bothered, missed, todo, faults, mix>>

\* What a user does not want, by the kind of push.
Unwanted(c, u) ==
  CASE c.kind = "message" ->
         {"left", "muted", "disabled", "blocked"}
         \cup IF c.system \/ (mix.type \in {"DIRECT", "OFFER"} /\ "unheard" \notin work[<<c, u>>].off[u]) THEN {} ELSE {"expired"}
    [] c.kind = "react" -> {"left", "muted", "disabled"}
    [] Kind(c) \in OfferKinds -> {"admin", "disabled"}
    [] OTHER -> {"disabled"}

Send(c, u) ==
  /\ At(c, u, "send")
  /\ LET to == work[<<c, u>>].to
         annoyed == {v \in to : work[<<c, u>>].off[v] \cap Unwanted(c, u) # {} \/ (c.kind = "broadcast" /\ Twice(c, v))}
     IN bothered' = bothered \cup annoyed \cup (IF c.kind = "message" /\ mix.type = "BID" THEN to ELSE {})
  /\ queue' = IF c.kind = "broadcast" THEN Reached(c, u) ELSE queue
  /\ End(c, u)
  /\ UNCHANGED <<rows, told, missed, todo, faults, mix>>

-----------------------------------------------------------------------------
\* sendPushToParticipants()
PushMessage(c) ==
  /\ Take(c, {"message"})
  /\ AtOnce(c, {c.by}, "members")
  /\ UNCHANGED <<rows, told, queue, bothered, missed, faults, mix>>

\* Participants who have not muted the room; no push for a BID chat.
Members(c, u) ==
  /\ At(c, u, "members")
  /\ LET to == {v \in DOMAIN member : v # u /\ ~member[v]}
     IN IF to = {} \/ mix.type = "BID" THEN End(c, u)
        ELSE work' = [work EXCEPT ![<<c, u>>].to = to, ![<<c, u>>].at = "receivers"] /\ UNCHANGED rest
  /\ UNCHANGED <<rows, told, queue, bothered, missed, todo, faults, mix>>

Receivers(c, u) ==
  /\ At(c, u, "receivers")
  /\ work' = [work EXCEPT ![<<c, u>>].seen = Restrict(person, work[<<c, u>>].to \cap DOMAIN person), ![<<c, u>>].at = "sender"]
  /\ UNCHANGED <<rows, told, rest, queue, bothered, missed, todo, faults, mix>>

\* Drivers with expired documents are reached by some roles, and in a room of two.
Reachable(c, row) ==
  /\ row.enabled
  /\ row.role = "driver" => row.status # "blocked"
  /\ \/ c.system \/ row.role # "driver" \/ row.status # "expired"
     \/ mix.type \in {"DIRECT", "OFFER"} /\ c.by \in DOMAIN person /\ person[c.by].role \in Heard

Sender(c, u) ==
  /\ At(c, u, "sender")
  /\ LET seen == work[<<c, u>>].seen
         to == {v \in DOMAIN seen : Reachable(c, seen[v])}
     IN IF to = {} THEN End(c, u)
        ELSE work' = [work EXCEPT ![<<c, u>>].to = to, ![<<c, u>>].at = "message_tokens"] /\ UNCHANGED rest
  /\ UNCHANGED <<rows, told, queue, bothered, missed, todo, faults, mix>>

MessageTokens(c, u) ==
  /\ At(c, u, "message_tokens")
  /\ LET to == work[<<c, u>>].to \cap Range(token)
     IN IF to = {} THEN End(c, u)
        ELSE work' = [work EXCEPT ![<<c, u>>].to = to, ![<<c, u>>].at = "send"] /\ UNCHANGED rest
  /\ UNCHANGED <<rows, told, queue, bothered, missed, todo, faults, mix>>

-----------------------------------------------------------------------------
\* setReaction(), removeReaction(): assertMessageAccess() and what is not allowed.
React(c) ==
  /\ Take(c, {"react", "unreact"})
  /\ AtOnce(c, IF mix.type # "BID" /\ c.by # mix.author /\ c.by \in DOMAIN member THEN {c.by} ELSE {}, "write")
  /\ UNCHANGED <<rows, told, queue, bothered, missed, faults, mix>>

ReactionsLoose(r) == IF r = shown THEN loose \ {NULL} ELSE loose \cup {NULL}

\* upsert() and deleteMany() by message and user; a user who is gone cannot have one.
SetReaction(c, u) ==
  /\ At(c, u, "write")
  /\ c.kind = "react"
  /\ IF u \in DOMAIN person THEN reaction' = With(reaction, u, c.emoji) /\ Pass(c, u, "again")
     ELSE UNCHANGED reaction /\ End(c, u)
  /\ UNCHANGED <<person, token, note, member, told, queue, bothered, missed, todo, faults, mix>>
RemoveReaction(c, u) ==
  /\ At(c, u, "write")
  /\ c.kind = "unreact"
  /\ reaction' = Without(reaction, u)
  /\ Pass(c, u, "again")
  /\ UNCHANGED <<person, token, note, member, told, queue, bothered, missed, todo, faults, mix>>

\* getReactionsForMessage() asks for access once more: whoever left meanwhile gets an error, and nobody is told.
AccessAgain(c, u) ==
  /\ At(c, u, "again")
  /\ IF u \in DOMAIN member THEN Pass(c, u, "rows") /\ UNCHANGED loose
     ELSE End(c, u) /\ loose' = ReactionsLoose(reaction)
  /\ UNCHANGED <<rows, badge, shown, queue, bothered, missed, todo, faults, mix>>

\* The rows that will be broadcast; the author's push starts and is not waited for.
ReadReactions(c, u) ==
  /\ At(c, u, "rows")
  /\ LET read == [work EXCEPT ![<<c, u>>].seen = reaction, ![<<c, u>>].at = "broadcast"]
     IN work' = IF c.kind = "react" THEN With(read, <<c, mix.author>>, Begun("mute")) ELSE read
  /\ UNCHANGED <<rows, told, rest, queue, bothered, missed, todo, faults, mix>>

\* broadcastMessageReactions()
Broadcast(c, u) ==
  /\ At(c, u, "broadcast")
  /\ shown' = work[<<c, u>>].seen
  /\ loose' = IF shown' = reaction THEN loose \ {NULL} ELSE loose \cup {NULL}
  /\ End(c, u)
  /\ UNCHANGED <<rows, badge, queue, bothered, missed, todo, faults, mix>>

\* sendReactionPush()
ReactionPush(c, u) ==
  /\ At(c, u, "mute")
  /\ IF u \in DOMAIN member /\ ~member[u] THEN Pass(c, u, "prefs") ELSE End(c, u)
  /\ UNCHANGED <<rows, told, queue, bothered, missed, todo, faults, mix>>

-----------------------------------------------------------------------------
\* The two queues: pushes to all, and what follows a new offer.
QueueOf(c) == IF c.kind = "broadcast" THEN "broadcast" ELSE "offer"
PushJobs == {"broadcast", "offer_job"}
Idle == [pending |-> <<>>, draining |-> FALSE, job |-> NULL, at |-> NULL, left |-> {}, steady |-> {}, sent |-> {}]
Start(q, c) == [q EXCEPT !.job = c, !.at = "fetch", !.draining = TRUE]

\* Who a job is for: ACTIVE users with a token on the platform, or the drivers of the offer.
Target(c, u, p, t) ==
  /\ u \in DOMAIN p
  /\ IF c.kind = "broadcast" THEN p[u].active /\ u \in Range(t) /\ u \in mix.platform[c.n] ELSE u \in Range(c.to)
Targets(c, p, t) == {u \in DOMAIN p : Target(c, u, p, t)}
\* History: those who a job must reach as long as nothing changes.
Steady(c, p, t) == {u \in Targets(c, p, t) : IF c.kind = "broadcast" THEN p[u].enabled ELSE p[u].role # "admin"}

\* enqueueBroadcast(), enqueue(): the drain starts unless it is under way.
Enqueue(c) ==
  /\ Take(c, PushJobs)
  /\ LET k == QueueOf(c)  q == queue[k]
     IN queue' = [queue EXCEPT ![k] = IF q.draining THEN [q EXCEPT !.pending = Append(@, c)] ELSE Start(q, c)]
  /\ UNCHANGED <<rows, told, work, rest, bothered, missed, faults, mix>>

\* drainQueue(): the next job, or none.
NextJob(q) == IF q.pending = <<>> THEN Idle ELSE Start([Idle EXCEPT !.pending = Tail(q.pending)], Head(q.pending))

\* processJob(): its targets.
Fetch(k) ==
  /\ queue[k].at = "fetch"
  /\ LET c == queue[k].job  to == Targets(c, person, token)
     IN /\ queue' = [queue EXCEPT ![k] = [@ EXCEPT !.at = IF k = "broadcast" THEN "batch" ELSE "chats", !.steady = Steady(c, person, token),
                                                   !.left = IF k = "broadcast" THEN to ELSE {}]]
        /\ IF k = "offer" THEN AtOnce(c, to, "offer") ELSE UNCHANGED <<work, rest>>
  /\ UNCHANGED <<rows, told, bothered, missed, todo, faults, mix>>

\* An error anywhere ends the job alone.
JobFails(k) ==
  /\ queue[k].at \in {"fetch", "chats"}
  /\ faults > 0
  /\ faults' = faults - 1
  /\ \A t \in DOMAIN work : t[1] # queue[k].job
  /\ queue' = [queue EXCEPT ![k] = NextJob(@)]
  /\ UNCHANGED <<rows, told, work, rest, bothered, missed, todo, mix>>

Ends(k) ==
  /\ queue' = [queue EXCEPT ![k] = NextJob(@)]
  /\ missed' = missed \cup (queue[k].steady \ queue[k].sent)

\* The next batch when all of the last one have settled; the order of the users is arbitrary.
Batches(k) ==
  /\ queue[k].at = "batch"
  /\ \A t \in DOMAIN work : t[1] # queue[k].job
  /\ IF queue[k].left = {} THEN Ends(k) /\ UNCHANGED <<work, rest>>
     ELSE \E now \in kSubset(Min({Batch, Cardinality(queue[k].left)}), queue[k].left) :
            /\ queue' = [queue EXCEPT ![k].left = @ \ now]
            /\ AtOnce(queue[k].job, now, "prefs")
            /\ UNCHANGED missed
  /\ UNCHANGED <<rows, told, bothered, todo, faults, mix>>

\* All drivers are told; the chats of the offer come last.
OfferChats(k) ==
  /\ queue[k].at = "chats"
  /\ \A t \in DOMAIN work : t[1] # queue[k].job
  /\ Ends(k)
  /\ UNCHANGED <<rows, told, work, rest, bothered, todo, faults, mix>>

-----------------------------------------------------------------------------
\* What users, administrators and TMS change meanwhile.
Worn(p, m) == [t \in DOMAIN work |-> [work[t] EXCEPT !.off = [u \in DOMAIN @ |-> @[u] \cap Against(u, p, m)]]]
Unsteady(p, t) == [k \in DOMAIN queue |-> IF queue[k].job = NULL THEN queue[k]
                                          ELSE [queue[k] EXCEPT !.steady = @ \cap Steady(queue[k].job, p, t)]]
Become(p, t, m) ==
  /\ person' = p /\ token' = t /\ member' = m
  /\ work' = Worn(p, m)
  /\ queue' = Unsteady(p, t)

\* updateNotificationPreferences(), and what TMS says of role and status.
ChangePerson(c) ==
  /\ Take(c, {"person"})
  /\ c.by \in DOMAIN person
  /\ Become([person EXCEPT ![c.by] = c.row], token, member)
  /\ loose' = loose \cup Overtaken(note, person')
  /\ UNCHANGED <<note, reaction, badge, shown, rest, bothered, missed, faults, mix>>

\* The row of a user goes, and what hangs on it.
RemovePerson(c) ==
  /\ Take(c, {"remove"})
  /\ c.by \in DOMAIN person
  /\ Become(Without(person, c.by), Restrict(token, {d \in DOMAIN token : token[d] # c.by}), Without(member, c.by))
  /\ note' = [i \in DOMAIN note |-> IF note[i].user = c.by THEN [note[i] EXCEPT !.user = NULL] ELSE note[i]]
  /\ reaction' = Without(reaction, c.by)
  /\ loose' = (loose \ {c.by}) \cup (IF reaction' = shown THEN {} ELSE {NULL})
  /\ UNCHANGED <<badge, shown, rest, bothered, missed, faults, mix>>

\* registerToken() moves a token to who registers it, unregisterToken() takes one or all.
RegisterToken(c) ==
  /\ Take(c, {"register"})
  /\ c.by \in DOMAIN person
  /\ Become(person, With(token, c.device, c.by), member)
  /\ UNCHANGED <<note, reaction, told, rest, bothered, missed, faults, mix>>
UnregisterToken(c) ==
  /\ Take(c, {"unregister"})
  /\ Become(person, Restrict(token, {d \in DOMAIN token : token[d] # c.by \/ c.device \notin {NULL, d}}), member)
  /\ UNCHANGED <<note, reaction, told, rest, bothered, missed, faults, mix>>

\* A participant mutes the room or goes (ChatRooms).
ChangeMember(c) ==
  /\ Take(c, {"mute", "leave"})
  /\ c.by \in DOMAIN member
  /\ Become(person, token, IF c.kind = "leave" THEN Without(member, c.by) ELSE [member EXCEPT ![c.by] = ~@])
  /\ UNCHANGED <<note, reaction, told, rest, bothered, missed, faults, mix>>

\* The process ends: the queues live in its memory, and so does all work.
Restart(c) ==
  /\ Take(c, {"restart"})
  /\ work' = <<>> /\ rest' = <<>>
  /\ queue' = [k \in DOMAIN queue |-> Idle]
  /\ loose' = loose \cup {t[2] : t \in DOMAIN work} \cup (IF reaction = shown THEN {} ELSE {NULL})
  /\ UNCHANGED <<rows, badge, shown, bothered, missed, faults, mix>>

-----------------------------------------------------------------------------
Init ==
  /\ mix \in Mixes
  /\ person = mix.person /\ token = mix.token /\ note = mix.note
  /\ member = mix.member /\ reaction = <<>>
  /\ badge = [u \in mix.users |-> Unread(u)]
  /\ shown = <<>>
  /\ work = <<>> /\ rest = <<>>
  /\ queue = [k \in {"broadcast", "offer"} |-> Idle]
  /\ loose = {} /\ bothered = {} /\ missed = {}
  /\ todo = mix.calls /\ faults = mix.faults

Telling(c, u) ==
  \/ OfferRole(c, u) \/ RoleRead(c, u) \/ Insert(c, u) \/ CountRole(c, u) \/ Count(c, u) \/ Tell(c, u)
  \/ MarkRead(c, u) \/ MarkAll(c, u) \/ TellZero(c, u)
Pushing(c, u) ==
  \/ Prefs(c, u) \/ Tokens(c, u) \/ Send(c, u)
  \/ Members(c, u) \/ Receivers(c, u) \/ Sender(c, u) \/ MessageTokens(c, u) \/ ReactionPush(c, u)
Reacting(c, u) == SetReaction(c, u) \/ RemoveReaction(c, u) \/ AccessAgain(c, u) \/ ReadReactions(c, u) \/ Broadcast(c, u)
Draining(k) == Fetch(k) \/ JobFails(k) \/ Batches(k) \/ OfferChats(k)
Serving == \/ \E c \in mix.calls, u \in mix.users : Telling(c, u) \/ Pushing(c, u) \/ Reacting(c, u)
           \/ \E k \in DOMAIN queue : Draining(k)

Next ==
  \/ \E c \in mix.calls :
       \/ Notify(c) \/ Ask(c) \/ Cleanup(c) \/ PushOne(c) \/ PushTms(c) \/ PushMessage(c) \/ React(c) \/ Enqueue(c)
       \/ ChangePerson(c) \/ RemovePerson(c) \/ RegisterToken(c) \/ UnregisterToken(c) \/ ChangeMember(c) \/ Restart(c)
  \/ Serving

\* What was begun goes on.
Spec == Init /\ [][Next]_vars /\ WF_vars(Serving)

-----------------------------------------------------------------------------
\* Type correctness of the rows, the work and the queues; one reaction for each user, of
\* users who are there.
TypeOK ==
  /\ Range(token) \subseteq DOMAIN person /\ DOMAIN member \subseteq DOMAIN person
  /\ DOMAIN reaction \subseteq DOMAIN person
  /\ \A i \in DOMAIN note : note[i].user \in {NULL} \cup DOMAIN person /\ note[i].read \in BOOLEAN
  /\ \A u \in DOMAIN badge : badge[u] \in 0 .. Len(note)
  /\ \A t \in DOMAIN work : work[t].to \subseteq mix.users
  /\ \A c \in DOMAIN rest : \E t \in DOMAIN work : t[1] = c
  /\ \A k \in DOMAIN queue : queue[k].draining <=> queue[k].job # NULL

\* Whenever nothing is under way for a user his badge says how many notices he has not read,
\* unless what told him last had been overtaken when it came, or the nightly cleanup or a new
\* role changed the number, of which nobody tells; likewise for the reactions clients show.
ToldAgrees ==
  /\ \A u \in DOMAIN person \ loose : (\A t \in DOMAIN work : t[2] # u) => badge[u] = Unread(u)
  /\ (NULL \notin loose /\ \A t \in DOMAIN work : t[1].kind \notin {"react", "unreact"}) => shown = reaction

\* No notice and no push comes to anyone who, from the call that began it until it came, was
\* not to have it: an administrator, notifications off, the room muted or left, the account
\* blocked, documents expired; and no job comes to anyone twice.
NobodyBothered == bothered = {}

\* A job that ends without an error has come to all who, since it looked for them, were to have
\* it, and no job waits while nobody works off its queue.
JobsReach == missed = {} /\ \A k \in DOMAIN queue : queue[k].pending # <<>> => queue[k].draining

\* Again and again nothing is under way: every job queued is worked off, or its process ends.
Quiet == work = <<>> /\ \A k \in DOMAIN queue : queue[k] = Idle

=============================================================================
