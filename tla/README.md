# Odysseia backend: TLA+ specifications

The backend (`src/src`, NestJS, Prisma on PostgreSQL, socket.io) serves the dispatchers and
drivers of a freight company: offers and bids, chats, load tracking, notifications. One Node
process runs all HTTP and WebSocket handlers, cron jobs and in-process queues; it may be
restarted at any time and may run in several instances. Every handler is a sequence of
`await`s, and between two of them any other handler may run. There are few transactions and
fewer locks, so what a handler has read may be outdated when it writes. That is what these
specifications are about.

Paths below are relative to `src/`.

## 1. Inventory

§§3 to 14 say which modules model them: offers 3 and 4, auction 5 and 6, messages 7 and 8, rooms 9, load
chats with cleanup, status webhook and transfer 10, archive 11, gateway 12, accounts and devices 13, users, imports,
notifications, load board, templates and locations 14.

| Component | State it keeps | Operations | What is hard | What makes it correct |
|---|---|---|---|---|
| Offers and driver bidding (`src/offers/offers.service.ts`) | tables offers, rate_offers, rate_offer_counter_offers; load drafts in TMS | create, update, add / remove / return drivers, bid, lower the bid, change the ETA, extend, counter-offer, answer, select a driver | reads long before writes; a call to TMS between read and transaction; limits checked by counting | one accepted driver per offer, whose TMS load the offer names; limits; timers and bids go together |
| Offers cleanup (`src/offers/offers-cleanup.service.ts`), `loaded_enroute` webhook (`src/tms/tms.controller.ts`) | deletes offers | nightly job, webhook | deletes by ids read earlier | deletes only what qualifies |
| Bid rates auction (`src/bid-rates`) | bid_rates, bid_rate_participants with votes as JSON | create, remove, +1, extend, offer, set the price, vote, resolve expired offers, archive, purge | unix-time windows, votes written as whole arrays, several resolvers | each offer applied once; timers bounded; offers settle |
| Chat rooms (`src/chats/chat-rooms.service.ts`) | chat_rooms, chat_room_participants | create (direct, group, load), fork per driver, add / remove participants, hide, delete, unhide | find-then-create, hide racing with send, advisory locks for load chats | one direct chat per pair; a message never lands in a room that disappears; one room per load and driver |
| Chat messages (`src/chats/messages.service.ts`, gateway) | messages with readBy as JSON, unread counters | send (idempotent by clientMessageId), read, unread, batch read, delete | read-modify-write of readBy; counters beside the messages they count | counters agree with unread messages; a retried send stores one message |
| Message archive (`messages-archive.service.ts`, `services/archive-background.service.ts`) | objects in S3, messages | copy then delete, by day and room | crash between copy and delete; messages that arrive meanwhile | nothing is deleted that was not copied |
| Delivered load chat cleanup | isLoadArchived of rooms | daily job | room reactivated between read and delete | deletes only empty, delivered chats |
| Authentication (`src/auth`) | users.password, otp_codes, password_reset_tokens, refresh tokens | login by email and password, one-time code, reset, mobile variants | a code used twice, a temporary password mailed and rolled back | a code logs in once; a failed mail leaves the password as it was |
| User devices (`src/common/upsert-user-device.ts`) | user_devices | register, block, log out elsewhere | read-then-create upsert | one row per device; a blocked device stays out |
| Users (`src/users`) | users | CRUD, location pings, deletion | pings through a semaphore; deletion after device logouts | the semaphore admits at most its number |
| User imports (`src/users/services`) | jobs in memory | start, page through the TMS list | one job at a time, restart loses it | a job ends |
| TMS integration (`src/tms`) | users.isTracking, trackingLoadId, driverStatus; batch state | webhooks, batch schedulers with advisory locks | webhooks out of order; session locks through a connection pool | tracking follows the current load; one batch at a time |
| Tracking transfer (`src/tracking`) | participants of chats | move a tracker's chats to a colleague | reads before a transaction, partial failure | nobody loses a chat |
| Notifications (`src/notifications`) | notifications, push queue in memory | create, push | queue lost on restart | each job is run once |
| Load board shipments (`src/load-board-shipments`) | load_board_shipments | create, edit, post, unpost, remove; the sweep, every minute and before a list | an edit writes back the status it read; the sweep writes by ids it chose earlier | a shipment is posted as asked for last, never out of its pickup window |
| Message templates (`src/message-templates`) | message_templates | save, delete, list by role and group | the id templates belong to and the role of their owner may change | nobody changes a template that was never his |
| App settings | one table | CRUD | nothing concurrent that matters | |
| Geocoding, storage, S3, mail, Firebase, public pages, scripts | caches, external services | calls | external failures | |

Components interact through the database (a handler reads rows another writes), by calls
(auction to chat messages, offers to TMS and notifications, webhooks to chats and offers) and
through socket.io events, which carry copies of the state and are never read back.

The hazards are listed, each at its line, in `PROJECT.json`; every property was written for one.

## 2. Modelling conventions

* A handler that awaits several times is one record in `req`: the stage it has reached and the
  values it has read. `...Begin` (or `...Read`) is its first read, later stages are the awaits
  whose result is used, or whose check may be outdated, before the final write. Checks in a row
  over values of the *same* read are one step. Reads of columns that never change (the owner of
  a bid, the chat of a bid) are merged with the next step.
* `Fail` ends a request at any stage: a check that does not hold, a row that is gone, an error
  of the database or of TMS, or the end of the process. A crash is every request failing; the
  tables stay. This is so in `OfferBidding`, `BidAuction`, `ChatMessages`, `ChatRooms`, `LoadChats`
  and `MessageArchive`; in `Accounts`, `ChatGateway` and the parts of `Office` only the failures
  that their sections name happen.
* An interactive Prisma transaction is one step. It runs at READ COMMITTED, which gives no
  snapshot, so this needs an argument per transaction: where two of them write a common row,
  the row lock serialises them or PostgreSQL aborts one (`Fail`), as they take the same locks
  in the same or in the opposite order; what a transaction reads before it holds a lock is
  read in a separate step. `update()` of an offer locks the offer row first; `addDriversToOffer`
  inserts rows of its own and then locks the offer; `selectDriverForOffer` locks the rows of the
  offer and then the offer. The `loaded_enroute` transaction reads without a lock before it
  deletes, so it is two steps.
* Amounts are naturals of a small set, names and payloads are model values or left out.
  Notifications, socket events and logs are left out unless a property is about them.
* `Traffic` is the set of request kinds that come in. It is a constant, so that a run can
  concentrate on the handlers that interact in the question it asks. Later modules have `Mixes`, a
  set of such choices (kinds, users, bounds, sometimes the initial rows and the very requests), of
  which a behaviour takes one, so that one run covers many. The theorems hold for every value of both.
* Every cfg has `CHECK_DEADLOCK FALSE`: the systems may rest, and in the models they do when the
  ids or the clock run out.
* Symmetry sets are declared in the `MC` modules, over sets of ids that the specification only
  compares for equality. Runs of liveness properties do not use it.

## 3. Offers and driver bidding: `OfferBidding`, `OfferAssignment`

`offer`, `row` and `sent` are the tables offers, rate_offers and (counted per offer, driver and
member of the staff) rate_offer_counter_offers; `draft` is what TMS knows of the loads it
drafted. Ids come from finite sets and are not reused: a deleted row keeps the name of its offer.
`stale` of an offer abstracts update_time, which only the cleanup reads. `actionTime` and
`driverEta` are reduced to "set or not"; their arithmetic is not modelled here. Create, Update,
Add, Remove, Return, Rate/Bid/Edit, Eta, Extend, Counter, Respond, Select, Cleanup and Enroute
are the handlers of the same names in `offers.service.ts`, `offers-cleanup.service.ts` and
`tms.controller.ts`.

`OfferAssignment` is what the assignment of drivers promises: TMS drafts a load once, for one
offer and one driver, and an offer is assigned only a load that was drafted for it and the driver
it was drafted for. `ImplementsAssignment` maps an offer to the selected row's driver and its load.

| Run | Shows |
|---|---|
| `offer_assign` | two concurrent requests, two drivers, two loads, with edits, additions, removals, cleanup and webhook: at most one accepted driver, flag, load and row agree, the abstract assignment is implemented |
| `offer_negotiate` | two requests of bids, ETAs, counter-offers, answers and edits: types, the limit on counter-offers is exceeded by racing requests only, a bid without timer comes only of an acceptance, or of a change of price, on a row that has lost its bid meanwhile |

Bounds: one offer suffices for the assignment, as offers meet only in a driver's count of open
bids; two rows and two drivers give a choice and a duplicate; two
requests give every pairwise race.
`MaxCounterOffers` is 1 and `MaxOpen` 2, so that the limits are reached.

What these handlers do not keep: a counter-offer "must not exceed `rate`" (schema.prisma, and the check at
offers.service.ts:734), but it is compared with a rate that the driver may lower before it is written,
so the row may end with the counter-offer above the rate; two counter-offers of one member of the staff
that count together exceed the limit of six (offers.service.ts:718); first bids of a driver on
several offers that count together exceed the limit on open bids (:586); accepting a counter-offer
that outlived the reset of its bid makes a bid without timer and ETA (:806), and so does a change of price
that read the bid before its reset (both are the exceptions of `BidsTimed`); two additions at the
same time link a driver twice, as rate_offers has no unique key (:1766); the nightly job deletes an
offer that was edited after the job read it (offers-cleanup.service.ts:84). TLC shows each of them
when the plain statement is checked in place of the weaker one that holds.

## 4. The theorems of `OfferBiddingProofs`

For every value of the constants (assumptions: amounts are naturals, NULL is none of the ids,
the limits are positive, finitely many requests):

* `TypeCorrect`, by the actions.
* `CounterLimitSlackHolds`: `sent` alone is not inductive, since a request that has counted may
  still write. `SlackInv` bounds what was sent *plus* the requests about to write; a request that
  is admitted finds `sent` below the limit and fewer than all requests writing.
* `SelectionInvariant`, and from it `OneDriverPerOffer` and `LoadMatchesDriver`: the two
  properties need to know that the row a selecting request holds is still a row of its offer and
  driver (`RequestsKnowTheirRow`, which needs that ids are not reused, `RowsOfKnownOffers`) and
  that the load it drafted was drafted for them (`DraftsInFlight`).
* `Refinement`: `Spec => ImplementsAssignment`, from the same invariant: every step is an abstract
  step or a stutter.
* `TimerKept`: `BidsTimed`, from two lemmas over the actions: what stops a timer removes the bid
  (`TimerStep`), and what writes a bid where there was none starts a timer, but for an acceptance
  and a change of price (`BidStep`).

## 5. Bid rates auction: `BidAuction`

One bid (bids share no rows), its participants and their offers. `bid` is the row of bid_rates,
`part` the rows of bid_rate_participants, where `userVotes` and `cycles` are the JSON column
user_votes: the vote of each user ("out" when not in the snapshot) and its plusOneCreatedAt.
A vote of `false` is never stored, because it clears the offer. `now` is the unix clock, in ticks:
the stored times are values of it, so windows, expiry and extensions are computed as in the code,
with `>` and `>=` where the code has them. Chat messages posted along the way are left out: their
errors are swallowed and nothing reads them back.

The branch of `updateNewPrice` for an empty voter snapshot of a member is not in the model: the
owner is always in a member's snapshot, so the branch runs only when the bid has just been
deleted, and then its transaction fails.

`Stall` bounds how long a request is in flight, and is assumed to be less than the four-minute
window. Each query waits at most 20 seconds for a connection (`prisma.service.ts`), and a request
makes about ten. Without the bound an offer could be written minutes after its time stamp was
taken. `LastRequest` and `Horizon` bound the clock, and leave time for the last offers to expire.

| Run | Shows |
|---|---|
| `bid_safety` | two clients and a slot of the job of expired offers, two members, two prices, two offers at once, and the extension of a participant's timer: each expired offer is applied once and at its own price; a new offer undercuts the active ones written before its request came in; a timer outlives its extensions by no more than `Stall` (the excess is real, as a restart may be written with an older time than an extension has read) |
| `bid_live` | two users, two prices, two clients and two slots of the jobs, with votes, the extension of the bid, archive and purge, and a limit of one offer: two offers that count together exceed it, by one and no more; an archived bid was idle, or its price was written while the job ran; every offer is settled, unless its bid is archived |

In `bid_live` the clock reaches 5 and `ArchiveIdle` is 3, more than two stalls, so that a bid can be
read as active and turn idle before the job writes; all requests of clients come in at time 0, and
the last ones run into the windows of the jobs. In `bid_safety` everything ends with the second
tick: two windows of 2 with their extension and a request that straddles each of their ends.

Fairness (`bid_live`): requests proceed and time passes (weak); the 15-second job keeps coming, so
its first step is taken, in one slot or another, for each expired offer that stays in its way, and
its reads and claims do not fail for ever (strong, since each try may fail). The advisory lock around the job is not modelled:
it only keeps two instances of the job apart, and the claims are safe without it; a slot in `Cron`
stands for one offer of a batch (`Promise.allSettled`).

What these handlers do not keep: `voteOnOffer` reads the array user_votes, changes one entry and writes the
whole array, so of two users who vote at the same time the vote of one is lost; of two expired offers that are resolved
together the second may overwrite a lower price with its own, although the method's comment says "only if not higher"; a crash
between the claim of an expired offer and the write of its price loses the offer (`ApplyExclusive` is
about the claims, and covers neither of these two); offers that count together exceed the limit
of three active offers, and offers that compare together do not undercut each other
(`OfferLimitSlack` and `UndercutsEarlier` are what remains); two accepting votes of one voter sent
together both count, although a voter is meant to be locked to the first; a bid whose price is
written while the archiving job runs is archived.

## 6. The theorems of `BidAuctionProofs`

For every value of the constants (assumptions: finitely many users and slots, NULL is none of
them, times are naturals, the limit is positive, and `Stall < Fresh`):

* `TypeCorrect`: types need `OffersTimed` (an offer has a time) and `Attributed` (a request knows
  its user), `TypeInv` together.
* Everything else is proved from four summaries of a step, so that the actions are looked at
  once: `RequestStep` (a slot is idle again, has just begun, has advanced, or has read an expired
  offer, and no other slot changes), `ClockStep`, `BidStep` (the cycle of the bid restarts at a
  recent time, is extended by a request in flight, or is archived) and `RowStep` (the same for a
  participant's timer; the offer stays, goes, or is written by `PriceOffer`).
* `AuctionInvariant`: `AuctionInv` adds `Timed` (no request is older than `Stall`, its stamp is its
  start), `Resolving` (what is claimed had expired) and `Extending` (an extension in flight fits
  the cycle it will meet). `AppliedOnce` and `OwnPriceApplied` follow because a new offer's stamp is
  younger than `Stall` and so cannot equal an expired one: this is where `Stall < Fresh` is used.
  `TimersBounded` follows from `Extending`.
* `NewOffersUndercut`, by `Undercutting`: the comparison that a request has passed stays good,
  except against offers of requests that ran at the same time.
* `ArchivedIdle`, by `Archiving`.
* `OffersBounded`: `OfferLimitSlack` counts the offers there are *and* the requests that have passed
  the count, and keeps the sum below the limit plus the number of clients; `OfferSlack` adds the
  stages of the jobs' slots, and is inductive by a counting argument.

`OffersSettle` is a liveness property and model-checked only.

## 7. Chat messages: `ChatMessages`

One room (rooms share no rows), its messages, its participants and the requests about them.
`message[m]` is a row of messages: readBy, a JSON array in the code, is the set of its members (a
user is never added twice by the code's own test, and no query looks at the order). `part[u]` is the
row of chat_room_participants. `roomType` is "DIRECT" for the types DIRECT and OFFER and "GROUP"
for the others, the one distinction that these handlers make.

| Handler (`src/chats/messages.service.ts`) | Actions |
|---|---|
| `sendMessage` | `SendBegin` (participant check, time stamp, lookup of clientMessageId), `SendCreate` (the transaction, or the answer after a violation of the unique key) |
| `markMessageAsRead` | `ReadBegin`, `ReadWrite`, `ReadDecrement` |
| `markMessageAsUnread` | `UnreadBegin`, `UnreadWrite`, `UnreadIncrement` |
| `markMessagesAsRead`, `markAllMessagesAsReadByChatRooms` (one room of it) | `AllBegin`, `AllMark`, `AllReset` |
| `deleteMessage` | `DeleteBegin`, `DeleteUncount` (one per user), `DeleteWrite` |
| `addParticipants`, `removeParticipant` (`chat-rooms.service.ts`) | `Join`, `Quit` |
| `archiveMessagesForDay` (`messages-archive.service.ts`) | `Archive` |

`SendBegin` joins the participant check with the lookup, two reads in a row: if the sender leaves
between them, either the message exists, and nothing is written, or the order is that of a sender
who leaves after the lookup. The transaction of `SendCreate` is one step: its last statement locks
the counters until the commit that makes the message visible, so a reset falls before or after
both. `Archive` removes any messages of an earlier day; how they are copied first is not in this
module. A request ends in `Fail` at any stage. Ids of messages are not reused.

`torn` is a history variable: users whose counter has missed the second statement of one of their
requests, whose counter was raised by marking a message as unread, or whose unread messages were
archived, since they last opened the chat. It appears in no guard.

| Run | Shows |
|---|---|
| `chat_badge` | three users, one of them a driver who comes and goes, one message with a client id or without, two requests of any kind: the counter of a user who is not torn is at most the number of unread messages, counting those whose request has yet to decrement; the flag isRead agrees with readBy |

One message is enough for the run because counters and lists of readers are compared message by
message, and the id that a client gives is retried while the first request runs, after it, and
after a deletion; more messages are what the theorem is for. `MaxUnread` keeps users from marking
a message as unread for ever, `Horizon` lets one day pass, `Movers` are the users who are added and
removed. `Movers`, `MaxUnread` and `Horizon` may have any value in the theorems.

What these handlers do not keep: a message stored between the two statements of "read all" is unread and
uncounted, so the badge is not the number of unread messages, although `getUnreadCount` is documented
as "Gets total count of unread messages" (`src/chats/README.md`); of two users who read a message at the same
time one is lost from readBy, and the counter of that user has gone down all the same; a user who
reads a message twice at the same time is uncounted twice; two requests that mark a message as
unread count twice; an archived message stays counted; a send that is retried after the message was
deleted stores it again. All but the third and fourth lower the badge or leave it.

## 8. The theorems of `ChatMessagesProofs`

Assumptions: finitely many messages and slots, NULL is none of the ids, the bounds are naturals.

* `TypeCorrect`: `TypeInv` adds `Informed`, that a request in flight has a user and a message that
  was once stored.
* `MessageStep`, `RequestStep`, `StageStep`, `PartStep`, `TornStep` say what one step does to a
  message, a slot, a row and `torn`; the actions are looked at there, and hardly again.
* `ReceiptsAgree`: the flag is decided by a request from a list that may be old, so the invariant
  `Receipts` also says what is true of the lists in flight: the sender is on each of them, and in a
  room of many the message that is being marked as unread has its flag.
* `BadgesBacked`: the promise is not inductive. A deletion that has uncounted a user has not
  yet removed the message, and a reader may write a list that takes the message away from a user
  who has just marked it as unread. `Counted` compares the counter with `Cover`, the unread messages
  that no request in flight is about to take, and this is inductive: `CoverStep` shows that a
  covered message stays covered unless the user reads it or is uncounted, and `BoundStep` balances
  the counter against `Cover` and `Reading` in the four cases that move it. `TypeInv`, `Receipts`
  and `Counted` were checked as invariants of `chat_badge` as well.
## 9. Chat rooms: `ChatRooms`

DIRECT, OFFER and GROUP rooms and their participants. `room` is the table chat_rooms (rooms are
numbered in the order of creation, which is what `orderBy: createdAt` looks at), `member[r][u]` the
row of chat_room_participants with isHidden, mute and pin. Names, avatars, and what a message does
to counters are left out (§7).

| Handler (`src/chats/chat-rooms.service.ts`) | Actions |
|---|---|
| `createChatRoom` for DIRECT | `OpenBegin`, `OpenFind`, then `OpenReopen` (unhide the chat found) or `OpenTxFind`, `OpenReopenTx`, `OpenInsert`; `OpenReload` |
| `createBulkDirectChats` (+ its first message) | `BulkBegin`, `BulkNext` for each driver, `BulkSend` |
| `createChatRoom` for GROUP, `createOfferChatsForNewOffer` | `CreateGroup`; `OfferBegin`, `OfferNext` |
| `handleSendMessage` of the gateway | `SendBegin` (context), `UnhideRead`, `UnhideWrite` for each member, `Post` |
| `deleteChatRoom` | `DeleteBegin`, `DeleteHide`, `DeleteReadAll`, `DeleteDrop`; `DeleteLeave` for a member of a group |
| `addParticipants`, `removeParticipant` | `AddBegin`, `AddRow`; `RemoveBegin`, `RemoveRow` |
| `toggleMuteChatRoom`, `togglePinChatRoom`, `muteChatRooms`, `archiveChatRoom` | `Toggle...`, `MuteRooms...`, `Archive...` |

| Run | Shows |
|---|---|
| `rooms_all` | two requests at a time of nine mixes of kinds. `ChatsBounded`: rows keep their shape, a chat all have hidden is about to be deleted, and two users have no more DIRECT chats than requests that looked at once. `ShownToMembers`: a chat is deleted under a member who shows it only if it came back after the deletion looked; a message stays hidden only from those who hid the chat meanwhile; an opened chat is listed |

Bounds: a mix takes at most three users and three rooms; two requests are a race of any two handlers,
and the duplicates of `ChatsBounded` need no third. Kinds that touch different columns (mute and
pin against archive, say) are in different mixes.

What the code does not keep: `findDirectChat` in the transaction locks nothing and there is no key
for a pair, so two requests that open a chat together create two, although the lookup is meant
"to prevent creating duplicate direct chats"; the bound says how many. Two toggles that overlap
are one toggle. A chat that was archived is found, unhidden and returned by `createChatRoom`, and
stays archived, so it is not in the list. A deletion that dies between hiding and looking leaves
a chat nobody sees (`torn`).

### The theorems of `ChatRoomsProofs`

For any users, rooms, requests and mixes (assumptions: users and requests are
finitely many, NULL is neither a user, a number nor a row, and a mix speaks of known users), `ChatsStayBounded` states `ChatsBounded` and `ChatsShown` states
`ShownToMembers`. Both follow from one inductive invariant:

* `Known` and `Finds`: what a request knows at each stage; the chat it has at hand was created
  before and keeps its type, so that only DIRECT and OFFER chats are hidden and deleted for all.
* `Sees`: what a request has read of who hides a chat stays true but for the users in `moved`,
  whose rows others have set since. Each step records that (`Spares`, and `Steps` for the
  request that took it), and this is what makes a deletion, a message or an opened chat right
  after so many awaits.
* `RoomKept`: chats are numbered as they are created, a GROUP chat is hidden by nobody.
* `Goes`: a chat all have hidden has a deletion under way, or the deletion failed (`torn`). A
  step keeps it if the chat has somebody who shows it, or if the one deletion that leaves its stage
  takes the chat with it (`Leaves`).
* `PairsKept`: the bound on duplicates is inductive only when the requests that have found no chat
  and are about to insert one (`Inserting`) are counted with the chats: when one of them finds none,
  there is none, and an insertion turns one of them into a chat.

`PairsKept` is proved apart from the rest (`PairsNumber`), as it is about numbers, and each step is
sorted by what it does to the chats of two users (`PairsSteps`): none come, there are none, or a request is
turned into a chat.

## 10. Load chats: `LoadChats`

LOAD rooms of one or two loads. `room` has type, load, isArchived, isLoadArchived, delivered ("no",
"now", "past": since when, as far as the cleanup asks) and whether there are messages; `member` the set of
participants; `lock` the transaction's advisory lock on (load, driver); `tracking` the column
trackingLoadId; `offers` the loads that still have an offer.

| Code | Actions |
|---|---|
| `createLoadChat` (from `load-chat.controller.ts`) | `CreateBegin`, `CreateOffer`, `CreateDoomed`, `CreateNext` per driver, `LockFind` (lock, look), `ConvertWrite` or `CreateWrite`, `Tell` (dispatch message) |
| `addParticipants` with a driver | `AddBegin`; `AttachFind` in place, or `ForkRead`, `LockFind`, `ForkWrite` (`forkLoadChatWithDriver`); `AddRow` |
| `updateLoadChatParticipants` | `SyncRead`, `SyncRoom` per chat |
| `tracking-transfer.service.ts` | `TransferBegin`, `TransferRoles`, `TransferPresent`, `TransferWrite` |
| status webhook (`tms.controller.ts`) | `StatusBegin`, `Terminal` (delivered, tonu, cancelled) or `ReactivateRead`, `Reactivate`, `StartTracking`, `CleanOffers` |
| `delivered-load-chat-cleanup.scheduler.ts` | `SweepRead`, `SweepRoom` |
| `removeParticipant`, `deleteChatRoom`, `updateChatRoom`, `sendMessage` | `Leave`, `Delete`, `Archive`, `Say` |

A request comes with the users its participants resolve to: the resolution by name and role, the
list of staff kept because a key did not resolve, `hideParticipant`, room names, log entries and
socket events are left out. A transfer replaces one role; an offer has one selected driver. The 24
hour cache of teams is left out: a transfer takes any team of the mix.

| Run | Shows |
|---|---|
| `loads_chats` | two requests at a time, twelve mixes. `LoadChatsAgree`: one chat per load and driver (unless a driver is attached in place, or chats are archived by hand), a chat is archived only while its load is delivered, and the chats of a load a driver is tracked for are active, but for those `raced`, whose delivery was decided on an older read. `StaffAgrees`: after an update or a transfer a chat has the staff wanted, but for what others changed since it was read. `DeletesJustified`: the cleanup deletes only chats long delivered and without messages, or changed since; the selected driver's offer chat is never deleted |

Bounds: two drivers and one load give every pair of chats, the second load is for handing over
(M6) and for tracking that moves on (M8); three offered drivers give an offer chat that is
converted and two that are deleted.

What the code does not keep: a driver attached to a room without one takes no lock, so two such
requests, or one beside a creation, give a driver two chats of a load; so does a chat archived
between two creations, as the lookup ignores archived chats. The webhooks of one load are not
ordered: a late "delivered" marks chats that were reactivated. An update stops at the first room
whose participants another transaction has removed, and leaves the rest as they were. The message
that tells of a new load chat is sent after the commit, and is lost if the process ends in between.

### The theorems of `LoadChatsProofs`

For any number of drivers, staff, loads, rooms and requests, and every mix (assumptions: drivers are
finitely many, no driver is staff, NULL is nobody, and a mix speaks of known users and loads), the
three properties of `loads_chats` hold, from an inductive invariant in five parts:

* `TypeInv`, with what a request knows at each stage (`TypeCorrect`).
* `RoomsInv`: how chats move (`Rows`: one stays, goes, comes, is converted or changed, and by whom)
  and what a request knows of the chats it has at hand (`Aware`). Chats keep their load, LOAD chats stay LOAD chats, and an OFFER chat has
  at most the driver of its bid, so the one that is created for the selected driver has no OFFER
  chat of his to delete.
* `LocksInv`: who writes a chat for a driver holds the lock of the load and the driver and has found no
  chat under it. A driver comes into a LOAD chat only through such a request (`DriverTaken`), and two requests
  cannot both hold the lock (`OneWriter`).
* `ReadsInv`: each step tells the requests in flight of every row it changes (`StepCovers`, about
  all actions), so what the clean-up, an update or a transfer has read of a row is true, or is on its list of what
  others have moved.
* `DeliveryInv`: what a step makes of a chat's delivery (`MarksStep`); only the report that a load
  is delivered takes an active load out of `Calm`, and it clears the tracking in the same step.

`ChatsAgree` states `LoadChatsAgree`, `StaffFollows` states `StaffAgrees`, and `DeletesRight` states
`DeletesJustified`. The uniqueness needs the absence of the two mixes that get around the lock, as in the run.
## 11. Message archive: `MessageArchive`

Messages are numbered by creation and belong to a room and to a day, on the server's clock and in
UTC: the daily and weekly jobs group by local day, the full archive asks for UTC days, and the
object of both is named by the number of the day. `db` are the messages in the table, `object` and
`file` what is in the objects and in the temporary files. `old` says how many messages are past
retention, `expired` up to which day objects are older than a year.

| Code | Actions |
|---|---|
| `archive-background.service.ts`: daily job | `DailyBegin`, `NextRoom`, `NextDay`, `Check` (HEAD), `NextBatch`, `Write`, `Send`, `Put`, `DeleteDay` |
| `messages-archive.service.ts`: weekly job | `WeeklyBegin`, the same stages without file, `Verify` |
| full archive and deletion of a LOAD chat | `FullBegin`, `Look`, `Check`, `DropDay`, `ReadDay`, ..., `DeleteRoom` |
| restore | `RestoreBegin`, `Load`, `Insert` |
| `cleanupOldArchives` | `CleanupBegin`, `CleanupList`, `Purge` |
| S3 or the database fails; the process ends | `Fail`, `Crash` |

| Run | Shows |
|---|---|
| `archive_jobs` | two jobs at a time of nine mixes with failures and restarts. `Kept`: a message gone from the table is in the object of its day, or was deleted by a user, or dropped by a full archive with a day that had an object, or its object expired, or its day was taken on by two jobs at once (`blurred`). `JobsSound`: what a background job uploads holds all it will delete. `CascadeLate`: what goes with the room was posted or restored after the last look. `FullEnds`: a full archive comes to an end |
| `archive_full_drops` | violation (see `findings`): the full archive deletes a day without archiving it when the day has an object |

Bounds: three messages give a day with two (and `Batch` = 1 two writes of the file), a second day, a
second room, a local and a UTC day that differ. The order of rooms is arbitrary.

Fairness: a job that was begun goes on (`Works`), as one promise chain does; a failing call is a
step too, so fairness asks for no success.

What the code does not keep: two jobs on the same day and room, both past the HEAD request, upload
one after the other, and the second object, which holds what was left, replaces the first; a HEAD
request that fails counts as "no archive". The temporary file has one name for all jobs of a room
and day. On the day of the cutoff only the older messages are archived, and the rest of that day
is skipped by the next job, as the object is there: they are deleted by the full archive only.
The restore skips messages whose sender is gone; that check, the unused monthly methods
(`archiveMessagesForMonth`, `appendToExistingArchive`, `splitLargeArchive`) and the read paths are
left out.

### The theorems of `MessageArchiveProofs`

For any rooms, days (numbers), messages, jobs and mixes (assumptions: the messages of a mix are in
the order of their days, and NULL is neither a room, a day nor a set of messages), `NothingLost`
states `Kept`, `JobsWhole` states `JobsSound` and `RoomsGoLate` states `CascadeLate`.

`Kept` alone is not inductive: that a deletion loses nothing depends on what the job did three
stages earlier. The inductive invariant `IInv` follows a job and its day:

* `Sound` and `Filed`: what a job has read, written or sent are messages of its room and day, and so
  is what an object or a temporary file holds.
* `Alone` and `Absent`: while a job is at work on a day that is not `blurred`, nobody else is, and
  before it stores the day there is no object of it. `Check` is what makes this so: it blurs
  the day if another job has it or if there is an object all the same.
* `Written`, `SentWhole`, `Stored`: on such a day the file holds what was written, the upload what
  was read, and the object what will be deleted, unless the day is past its year.
* `Emptied`: a full archive that found the room empty has seen all messages posted until then.

Every action of a job is first shown to be a `Step`: how the job moves (`Moves`) and what becomes of
the objects, the files and the messages (`ObjectStep`, `FileStep`, `DbStep`). The invariants are
preserved by any `Step`, and by what users, time and restarts do (`Outside`). `FullEnds` is
liveness and stays with TLC.

## 12. WebSocket gateway: `ChatGateway`

A socket connects once. `userSockets` and `offlineTimeouts` are the gateway's maps; `in` the
channels; `shown`, `typist`, `lists` and `badge` are what clients display according to the events
they were sent, which is how the properties speak of the order of events.

| Code (`src/chats/chat.gateway.ts`) | Actions |
|---|---|
| `handleConnection` | `Connect`, `ReadChats`, `Join`, or `Refuse` |
| `handleDisconnect` | `Disconnect`, `Fire` (after five seconds), `ReadNotice`, `SendNotice` or `LoseNotice` |
| `handleTyping` | `Ask`, `StartTyping`, `StopTyping`, `TypingTimeout` |
| `handleJoinChatRoom`, `handleLeaveChatRoom` | `JoinRoom`, `LeaveRoom` |
| send, read, unread, delete, add, remove, leave, hide, restore, reopen, erase, create: the change in the database, then the events | `SendMessage`, `OpenChat`, `ReadMessage`, `MarkUnread`, `DeleteMessage`, `CreateRoom`, `AddParticipant`, `LeaveGroup`, ..., with `Count`, `TellCount`, `TellRoom`, `Lose` |
| `ChatRoomsController.addParticipants` | `AddUntold` |

Who hears of a change depends on the handler that made it: all sockets of a user (`user_` channel),
the newest only (`userSockets`), or the channel of the chat. `Told` lists the possibilities of each kind
of change, and `TellRoom` takes any of them.

| Run | Shows |
|---|---|
| `gateway_events` | `PresenceSound`: a user with one socket at a time is in the map exactly while a socket is open or its timer runs, clients at rest show as online whom the gateway takes for online, and a typing indicator has a timeout that will end it. `ChangesTold`: at rest the clients of users about whom no two requests ran at once show the stored counters, and list the chats of their user. `OfflineRight`: only the closing of the newest socket makes a user offline, and a user who is gone ends as offline |

Presence mixes (M1 to M3) have fixed participants and one request at a time fewer; event mixes (M4 to
M8) have clients that stay connected, of a group (M5, M6) or of a direct chat (M8). Two sockets of one user and one of another give a reconnection
before and after the timer, a closed older socket, and somebody to watch. Fairness: handlers and
timers that were begun go on, as the event loop does. Connections without token, the stub
`messages/:id/read`, edited messages, a message that two requests delete at once (the second lowers
the counters again and then fails), and the end of a load chat by its archiving
(`delete-load-chat.controller.ts` tells all sockets first, and a job deletes the room later) are
left out; that a client fetches its lists when it connects is external.

What the code does not keep: a socket that closes while its chats are read is joined and announced
all the same (`late`); of a user with two sockets the gateway knows the newest only, so the other
hears nothing of new chats; the typing timeout belongs to the socket, so whoever types in two chats
leaves the first indicator on (`TypingTimed` asks for one chat); counters told by two requests may
arrive out of order (`crossed`). Some changes are not told to everybody they concern, and
`ChangesTold` excepts these users (`crossed` again; the run fails without any of these exceptions):
`handleMessageRead` tells no counter when the message it has just marked was deleted meanwhile, so
the badge stays; a member who leaves a group (`notifyChatRoomDeleted`), or whose chat is deleted, is
told through the channel of the chat only, so a client that has left the channel keeps listing the
chat; a participant added over HTTP is told nothing; and when a direct chat that both had hidden is
opened again by `createChatRoom`, only the one who asked is told.

## 13. Accounts and devices: `Accounts`

One account. A request names the password, link or code it makes, so a credential is the number of
a request. `known` are the passwords the owner was given or has chosen; `stuck` those written whose
mail failed and that were not taken back. `rows` are the rows of user_devices with device id, model,
blocked and owner; `app`, `session` and `news` the installations, the tokens they hold, and the
forced logouts on their way.

| Code | Actions |
|---|---|
| `loginWithEmail`, `handleGoogleCallback`, `resetPasswordForMobile`, `changePassword` | `EmailLogin`, `CheckAccess`, `AskPassword`, `WritePassword`, `MailPassword`, `FailPassword`, `Rollback`, `Activate` |
| `forgotPassword`, `resetPassword` | `Forgot`, `ClearLinks`, `MakeLink`, `Send`; `Present`, `ResetPassword`, `Expire` |
| `loginWithOtp`, `verifyOtp`, `setDriverPasswordAndOtp` | `Login`, `MakeCode`, `Sent`; `Present`, `SpendCode`, `SignIn`; `SetDriver` |
| `registerMobileDevice`, `upsertUserDeviceSnapshot` | `Register`, `FindRow`, `UpdateRow`, `DropOrphans`, `FindLegacy`, `Merge`, `Create` |
| `recordUserLastActiveApp` | `Sync` |
| block, unblock, delete a device, sign out the others | `AskRow`, `TellRows`, `MarkRow`, `DeleteRows`, `Hear`, `Miss` |

| Run | Shows |
|---|---|
| `accounts_all` | three requests about credentials, or two about devices, in seven mixes with failing mail. `CredentialsSound`: at rest the password is one the owner knows, else its mail failed and it could not be taken back, or an overlapping login put it back; an activated account has a password, unless it never had one, an administrator set its status, or a login that overlapped the activating request put back that there was none. `ProofsServeOnce`: what served a request serves none that begins later, and no two links work that were not made at once. `DevicesRight`: the row of a phone goes, changes hands and is unblocked only by a request that ends with this step and was about this row (`RowsKept`), and a device that is removed or blocked is signed out (`ThrownOut`) |

Bounds: three requests are a login, an overlapping one and one that comes later; three rows are two
phones and the legacy row they share. Fairness: the server works requests off, and an installed app
comes to the foreground again and again, which is external (`mix.syncs` says whose).

Left out: refresh and access tokens, test accounts and their bypass codes, the notice to TMS on
activation, role guards, the flag whether a device is linked, the hard deletion of a user (in
`UserDirectory`); the end of the process between two steps of a request, which would leave a
password that is written and never mailed nor taken back, as a mail that fails does when the
rollback fails too.

What the code does not keep: two requests that present one code or link at the same time are both
served; a login that fails to mail takes back the password of one that overlapped; two phones of
one model that register together both take the legacy row, and the first loses it until it comes to
the foreground.

### The theorems of `AccountsProofs`

For any slots of requests, phones, rows and mixes, `CredentialsRight` states `CredentialsSound`,
`ProofsRight` states `ProofsServeOnce`, and `RowsRight` states `RowsKept`, the part of `DevicesRight`
that is about single steps; `ThrownOut` is liveness and stays with TLC. The assumptions: slots and
row ids are numbers and no phone is one; an account begins with no password or with one that its
owner knows; NULL and `Gone` are none of the ids, kinds and rows.

All three rest on `Steady`: the state is typed, every request is at a stage its kind passes
through (`Passes`) and holds what that stage needs (`About`), and what was before it is done. That
`Steady` is inductive needs the schema's unique device id: `Merge` and `Create` refuse a second row.
Every step is also shown to be a `Flow`: a slot stands still, is taken, goes on with what it
read, or is given back if it is about a device. So what a request about credentials has read, and who
was before it, lasts as long as the slot (`Lasting`).

`CredentialsAgree` speaks of moments at which no request runs, so it is far from inductive. The
invariant `CredentialsInv` speaks of every moment, and of the passwords that may come back:

* `HeldNow`: the password of the account is `Accounted` for (known, stuck, or put back by a login
  that overlapped its request), or its mail is still on its way or failing.
* `HeldRead`: what a request read, and a login may put back, was written by another request, and is
  accounted for if that one was done by then. So a rollback either puts back what is
  accounted for or overlaps the request that wrote it, and that is the excuse.
* `EmptyNow` and `EmptyRead`: the same of having no password, for those who have activated the
  account (`Activated`) or are about to (`Wrote`).
* `FirstPassword`, `ActiveBy` and `Origins`: an account that had a password keeps one; who made the
  account active; and a password that is known or stuck comes from a request about credentials.

Steps that concern no password are `Quiet`, and one lemma does for all of them.

For `ProofsServeOnce`, `Made` says who made a code or link, and that those who show it were sent it;
`Spent` that what has served, what an administrator's credentials replaced and what a later link
cleared is no longer good, and that no one who came later has it in hand. A step renews a code or link
only while the request that makes it is not done (`Renewed`), so what is spent stays spent.

## 14. Five smaller parts: `Office`

`Office` composes five modules by INSTANCE. They share the database and the process, but none of
the state that is looked at, so a behaviour of `Office` is one of one part (`part`) while the
others stand still. Each part has its `MC` module of mixes: rows to begin with, the calls that may
come (`todo`), and how many of them may fail (`faults`). One run, `office_all`, checks them all.
The assumptions on the constants are stated in `Office`.

**`DriverLocation`** is a driver's place and status in the database and in TMS:
`updateUserLocation` with the semaphore for background pings (`Arrive`, `Finish`, `Save`,
`Look`, `AddPoint`, `Tell`), the driver webhook (`HookFind`, `HookSave`), and the two batch jobs
under their advisory lock (`LocationTick`, `AppTick`, `Grant`, `ReadDrivers`, `SendChunk`, `Unlock`).
A place, a status and an hour stand for the columns they summarise, all clocks are one, and the
interval of the job is a flag (`cool`). TMS is external: it takes a post, or answers too late, so
that a post that was given up is worked on afterwards (`PostLands`). `LocationKept`: runs of one job
never go on in two instances, and points of a load's history that fall in one interval are no more
than calls that looked at once. `StatusAgrees`: at rest both copies of a driver's status agree,
unless writers crossed, one failed, or a ping brought a status (`torn`). Fairness: calls, webhooks, jobs and late posts that were begun
go on; the job's tick comes again and again, and the pool eventually hands it a connection that
gets the lock.
What the code does not keep: the lock is of a session, and is released by whatever connection the
pool hands out, so it may stay behind, and the job does not run in other instances until that
connection closes; `lastRunAtMs` is set at the end of a run and the lock is re-entrant, so runs of one instance may overlap; two pings within the interval may both add a
point; a ping that brings a status changes
it in the database only, for the DTO merely asks to leave it out (update-user-location.dto.ts:74); a batch that read a driver before a newer status was sent overwrites it in TMS until the
next batch.

**`UserDirectory`** is who is a user: webhooks that find a user by external id and role
(`HookFind`, `HookEmail`, `HookCreate`, `HookUpdate`, `HookDevices`, `HookWipe`, `HookDrop`), the
imports, which page through a list that moves and find users by e-mail (`FetchPage`,
`FindByEmail`, `WriteUser`, one loop for each of the four), and the backfills of devices and of
driver activations, which page by an offset (`FillCount`, `FillPage`, `LinkDevices`, `TellDriver`).
An employee webhook looks among those who are no drivers, and writes the role that
`mapTmsRolesToUserRole` makes of the slugs that come (`Written`), which is DRIVER when it knows none
of them (`Fallback`). `DirectoryAgrees`: webhooks never give an identity to two users, unless an import
or two crossing webhooks made one of the rows, or an employee webhook made a driver of its user; an import that is complete
has been through its pages; a backfill passes over no more rows than moved under it.
What the code does not keep: an employee webhook none of whose roles is known writes DRIVER
(users.service.ts:2750, map-tms-role.util.ts:147), and findEmployeeForWebhook sees no drivers
(users.service.ts:2331): the next webhook about this employee does not find the row and makes
another, and beside a driver with the same id there are two drivers who share it (mix `L10`); "Email may change on TMS side and must not be used for matching"
(users.service.ts:2306, :2321), but imports match by it, so one person may have two rows; two of
the imports stop after five pages and say that they are complete; an import of drivers that fails
never says `isComplete`; a hard deletion wipes devices by external id, those of a namesake with
the other role included; jobs live in memory and are lost on restart.
Left out: the failure path of `startBackfill`, backfilling by single requests, and
`import-drivers-queue.service.ts` with its processor, which nothing starts.

**`Notices`** is what users are told: notices and their unread count (`Insert`, `CountRole`, `Count`,
`TellCount`, `MarkRead`, `MarkAll`, `TellZero`, `Cleanup`), pushes to users and to participants
(`Prefs`, `Tokens`, `Send`; `Members`, `Receivers`, `Reachable`), the reactions to a message, and
the two queues drained by one loop each (`Enqueue`, `NextJob`, `JobFails`, `Batches`, `OfferChats`, `Restart`).
One room with one message; texts and what FCM and Expo answer are left out. `ToldAgrees`: with
nothing under way a badge is the number of unread notices, and clients show the reactions stored,
unless an answer was overtaken: whoever was told a count out of order is in `loose` and excepted, so of counts
this says that every change is followed by one, and that nothing else puts badge and notices apart. `NoticesRight`: nobody gets what, all along, was not for him, and a job
reaches all it was for.
Failures are a user who is gone when his notice is made (`Insert`), a job's query that fails
(`JobFails`), and the end of the process (`Restart`), which drops all work. Left out: an error of the
database in one statement of a handler, between a notice and its count included, and the errors about
single users that the loops catch and log, after which such a user gets no push.
What the code does not keep: counts told by two requests may arrive in the wrong order; a loop over
recipients ends at the first user who is gone, and the later ones are not told; a token that moves to another user
between read and send takes the push along.

**`Templates`**: a template belongs to an external id, which webhooks may give to another user, as
they may give him another role. A request goes by the role the guard has read (`Admit`) to its end, and reads the
id and the row apart: `Upsert`, `UpsertFind`, `UpsertWrite`, `UpsertCreate`; `Delete`, `DeleteUser`,
`DeleteRow`. `Identify` is the webhook; it writes id and role. `TemplatesOwned`: nobody but an
administrator changes a template that was in no list of his since his request began, and an author
who keeps his id, and for a template of the company his role, finds it and may change and delete it.
What the code does not keep: a template of the company goes by the role its author has now, not by
the one he wrote it in (message-templates.service.ts:256-268): an EXPEDITE_MANAGER who becomes
DISPATCHER still finds his template, as all of the group do, but may neither change nor delete it; as
TRACKING_TL he does not even find it.

**`LoadBoard`**: `Create`/`Insert`, `Edit`/`WriteEdit`, `ChangeStatus`/`WriteStatus`,
`Remove`/`Delete` are the requests in their two pieces, `List` and `CronSweep` read what has
expired, `Unpost` writes it later. Time is counted in parts of a day. `BoardKept`: the status of a
shipment is what was asked last, unless an edit wrote back an older one (`crossed`), and nobody posts
a shipment whose window had passed when he looked, nor does the sweep unpost one whose window is open,
unless it was edited meanwhile.

`Settles`: again and again imports and backfills have ended, queues are empty and no shipment is
posted past its window; in the end TMS shows what the database says of drivers who update by themselves.

### The theorems of `OfficeProofs`

Each part has an inductive invariant of its own, of the form `part = ... => ...`; a step of another
part leaves it alone.

`BoardRight` states `BoardKept`, for any rows, requests and lengths of a day (`BoardAssumption`: a
form has days and hours, rows begin with their status as asked for and their days in order).
`BoardKept` compares a request with a row that others write meanwhile, so `BoardInv` says what a
request knows of the row it has read: as long as the row has the revision that was read, its status
and its window are those that were read (`Serves`). `DeadlineIsLast` shows that the deadline of
`resolveLoadBoardPickupDeadline` is the last moment of a window, for any window.

`TemplatesRight` states `TemplatesOwned`, for any users, roles, ids and templates
(`TemplateAssumption`: a row is as creation leaves it, with a group exactly if it is a company's).
`TemplateInv` has three parts: whose a template is and how its group goes with its author's role
(`Owned`), what a request has read (`Asks`), and why it may write what it read (`Own`): the template
has been, at some time since the request began, in a list of its user. For this the request is told
of every id and group that its user or the template has had, those of a template made meanwhile
included. The role is the one the request began with. An author who gets another id, or for a template
of the company another role, is an author no longer (`Disowned`, `StillAuthor`); of the others `Owned` says that the
row has their id and the group that goes with their role.

`LocationRight` states `LocationKept`, for any instances, connections, loads and calls, of which
there are finitely many, and for any number of permits. The exclusion of instances rests on
`LocksInv`: at most one session holds the lock of a job, and if two runs go on, it holds it twice.
That points keep their distance rests on `CallsInv`, which counts calls: those that hold a
permit and those that are by hand (`PermitCount`, `WaitQueue`) are the only ones that can be about
to add a point, and a call that looks when the interval has a point does not become one of them. So in
any interval the calls that made a point and those that will are no more than permits and manual
updates (`Spaced`).

`StatusRight` states `StatusAgrees`, for any drivers, instances, calls and numbers of failures; a row
has the columns of the model, and the rows of the database are finitely many (`InstancesAssumption`,
`LocationAssumption`). `StatusAgrees` speaks of states at rest and is far from inductive. `StatusInv`
says what holds on the way there, for every id that is not in `torn`: the statuses on their way to
TMS (`Carried`: those of calls that are to be sent, `Telling`; of batches that have read the driver,
`Sending`; of posts given up but still worked on, `Delayed`) are the one the database has; as long as
a webhook about the driver is on its way (`Hooked`) there are none, and it says what TMS shows; and
with neither a webhook nor a call on its way TMS shows what the database says. Each step either
carries no more than before (`CarriesLess`, `StaysKept`) or begins to write, and then `Tear` marks the
id unless nobody else is about to write it. A ping that brings a status was found by this proof: the
copies differ then although nobody crossed, so `Overwrites` marks its id, and mix `L13` has one.

`PushesRight` states `NoticesRight`, for any users, persons, participants, tokens, calls, platforms and
batch sizes; every person and participant of a mix is among its users (`NoticeAssumption`).
A piece of work decides at its first reads and acts on them much later, while others change what it
read. `NoticeInv` therefore says of each stage of it what the stages before must have learnt (`Heeds`
for work that is for one user, `Spares` for the push of a message, which is for all it has gathered
at once): a reason on which an earlier stage turns back is no longer in `off`, the set of reasons that
have held ever since the work began. The set only shrinks, to what still holds (`LessAgainst`), so a
reason that comes up after the read is not in it, and the push that goes out all the same bothers
nobody. Of the queues `JobsKept` says that whoever a job must reach as long as nothing changes
(`steady`) has been reached, is yet to come, or is being worked on at a stage that ends in reaching
him (`QueueKept`); that a job's work is for nobody it has reached or has left (`JobWork`), which is why
none comes twice; and that a queue whose drain() is not under way is empty, which is why the flag
leaves no job behind.

`BadgesRight` states `ToldAgrees`, for the same constants; the notices a mix starts with are of its
users (`NoticeAssumption`). `ToldAgrees` speaks of users to whom nothing is on its way. What holds
meanwhile is `ToldInv`, which needs four facts. Whoever is not in `loose` has a badge that is the
number of his unread notices, or there is work for him at a stage from which the badge will be told
(`BadgesKept`, `BadgeDue`); the same of reactions (`ShownKept`, `ShownDue`). A count on its
way is the number that was unread when it was taken, if the role had not changed since it was read,
and a zero is told as current only where nothing is unread (`ToldWork`): so whoever is told without
being put into `loose` is told what is true at that moment. Work on a reaction is for the user who reacts,
who is not the author of the message, so the push that follows it is a piece of work of its own and
takes no other's place. And a loop over recipients is at one of them at a time (`OneEach`): when
it goes on to the next one it takes the place of no work that is still to tell somebody. Cleanups,
changes of accounts and restarts put whom they touch into `loose` (`UnderTold`, `RestartTold`); a step of work tells, or
leaves what is due as it was (`BadgeTold`, `ReactionTold`, `NoteTold`, `ToldSteps`).

## 15. What is proved, what is model-checked, what is not modelled

Proved by TLAPS for every value of the constants: the theorems of `OfferBiddingProofs`,
`BidAuctionProofs`, `ChatMessagesProofs`, `ChatRoomsProofs`, `LoadChatsProofs`,
`MessageArchiveProofs`, `AccountsProofs` and `OfficeProofs`, each described after its component. They rest on the ASSUMEs of the
modules they are about, which are facts of the bounds (numbers are naturals, sets are finite), of
the stand-ins (NULL is nobody's id) and of the data a behaviour of `Office` starts with (its rows are
as their creation leaves them), and on nothing else.

Only model-checked:

* liveness: `OffersSettle`, `FullEnds`, `Settles`, `ThrownOut`. The prover has neither fairness nor ENABLED.
* `FullArchives`, whose counterexample is the point.
* `ChatGateway`; of `Office` its `TypeOK` and `DirectoryAgrees`.
* the properties of the offers that §4 does not name.

No module declares a RECURSIVE operator, so all of them can be proved about; what a recursive
definition computes for every input could not be, as induction over data is out of the prover's
reach.

Where the code does not keep what one would expect, the section of the component says so under "What
the code does not keep", and the property is stated with exactly that exception (a history
variable such as `raced`, `blurred`, `moved` or `crossed`), so that the run shows there is no other.

Not modelled, for good: searching and listing beyond who sees what, formatting of names and texts,
adapters of external services (S3, FCM, Expo, mail, geocoders) beyond the fact that a call may fail,
app settings, public pages, framework glue and one-off scripts.

## 16. Plan

The components were taken in the order of the harm a race does; all of the plan's models are written. What is left
is:

1. Proofs about `ChatGateway` and the rest of `Office`.
2. Route points and rate calculations (`src/offers/offer-miles.util.ts`, `src/offers/offer-route-time.util.ts`) as operators against a reference definition, if they
   come to carry decisions; today they are display data.
