----------------------------- MODULE BidAuction -----------------------------
(***************************************************************************)
(* The dispatchers' auction on one bid rate:                               *)
(* src/src/bid-rates/bid-rates.service.ts and its two cron jobs.           *)
(*                                                                         *)
(* State: the row of bid_rates, the rows of bid_rate_participants (one per *)
(* user, kept by a unique key), the requests in flight and the clock.      *)
(* Rows of different bids never meet, so there is one bid.  Users are the  *)
(* members of its chat.  Every await whose result is used later, or whose  *)
(* check another request may outdate, is a step of its own.                *)
(*                                                                         *)
(* now counts ticks of the unix clock the code stores and compares; LastRequest *)
(* and Horizon bound it.                                                   *)
(***************************************************************************)
EXTENDS Naturals, FiniteSets

CONSTANTS
  Users,        \* members of the bid's chat
  Owner,        \* the creator of the bid
  Rates,        \* prices
  Reqs,         \* slots for requests that run at the same time
  Cron,         \* the slots the 15-second job uses for its batch
  Traffic,      \* the kinds of requests that come in (first stages)
  Fresh,        \* BID_RATE_VOTE_FRESH_SEC
  Timer,        \* BID_TIMER_SEC
  MaxExtend,    \* BID_MAX_EXTEND_SEC
  MaxOffers,    \* BID_MAX_ACTIVE_OFFERS
  ArchiveIdle,  \* BID_ARCHIVE_IDLE_HOURS
  PurgeAfter,   \* BID_PURGE_ARCHIVED_HOURS
  Stall,        \* how long a request is in flight at most
  LastRequest,  \* when the last request of a client comes in
  Horizon,      \* when the clock stops
  NULL

ASSUME UsersAssumption ==
  /\ Owner \in Users
  /\ Cron \subseteq Reqs
  /\ NULL \notin Users
  /\ IsFiniteSet(Users) /\ IsFiniteSet(Reqs)
ASSUME RatesAssumption == Rates \subseteq Nat /\ NULL \notin Nat
ASSUME TimesAssumption ==
  /\ {Fresh, Timer, MaxExtend, ArchiveIdle, PurgeAfter, MaxOffers} \subseteq Nat
  /\ {Stall, LastRequest, Horizon} \subseteq Nat
  /\ MaxOffers > 0
\* Four minutes against queries that each give up after at most 20 seconds of
\* waiting for a connection (poolTimeoutSeconds).
ASSUME StallAssumption == Stall < Fresh

VARIABLES
  bid,    \* the row of bid_rates
  part,   \* rows of bid_rate_participants; NULL where a user has none
  req,    \* the requests in flight
  now

vars == <<bid, part, req, now>>

-----------------------------------------------------------------------------
(* Types and lookups.                                                      *)

Votes == [Users -> {"out", "open", "yes"}]

\* plusOneCreatedAt of each vote of a snapshot.
Cycles == [Users -> Nat]

BidRecord ==
  [st: {"none", "live", "deleted"}, rate: Rates \cup {NULL},
   isDoNotBid: BOOLEAN, isArchive: BOOLEAN, createdAt: Nat, updatedAt: Nat]

PartRecord ==
  [rate: Rates \cup {NULL}, createdRateAt: Nat \cup {NULL},
   userVotes: Votes, cycles: Cycles, createdAt: Nat, updatedAt: Nat]

Stages ==
  {"idle", "join", "extendBid", "extendPart", "price", "plusOne", "ownOffer",
   "min", "snapshot", "offer", "setRate", "vote", "voteLock", "reject",
   "clearOthers", "record", "resetTimer", "accept", "resolve", "claim",
   "apply", "archive", "purge"}

\* by asked, about the offer or row of target; amount is a price, base the bid
\* price that was read, stamp a time that was read or computed.
ReqRecord ==
  [at: Stages, by: Users \cup {NULL}, target: Users \cup {NULL},
   amount: Rates \cup {NULL}, base: Rates \cup {NULL}, stamp: Nat,
   userVotes: Votes, cycles: Cycles, accept: BOOLEAN, start: Nat]

NoVotes == [v \in Users |-> "out"]

NoCycles == [v \in Users |-> 0]

NoBid == [st |-> "none", rate |-> NULL, isDoNotBid |-> FALSE,
          isArchive |-> FALSE, createdAt |-> 0, updatedAt |-> 0]

JoinedNullTimer(t) ==
  [rate |-> NULL, createdRateAt |-> NULL, userVotes |-> NoVotes,
   cycles |-> NoCycles, createdAt |-> t, updatedAt |-> NULL]

\* A participant who joins at time t.
Joined(t) ==
  [rate |-> NULL, createdRateAt |-> NULL, userVotes |-> NoVotes,
   cycles |-> NoCycles, createdAt |-> t, updatedAt |-> t]

Idle == [at |-> "idle", by |-> NULL, target |-> NULL, amount |-> NULL,
         base |-> NULL, stamp |-> 0, userVotes |-> NoVotes,
         cycles |-> NoCycles, accept |-> FALSE, start |-> 0]

Live == bid.st = "live"

Row(u) == part[u] # NULL

HasOffer(u) == Row(u) /\ part[u].rate # NULL

\* isPlusOneTimerActive(), against the clock t of the caller.
TimerActive(u, t) == Row(u) /\ part[u].updatedAt + Timer > t

\* isOfferFresh()
IsFresh(u) == HasOffer(u) /\ part[u].createdRateAt + Fresh > now

\* The queries on active offers compare with >= where isOfferFresh() has >.
ActiveOffers == {u \in Users : HasOffer(u) /\ part[u].createdRateAt + Fresh >= now}

Cleared(u) == [part[u] EXCEPT !.rate = NULL, !.createdRateAt = NULL,
                              !.userVotes = NoVotes, !.cycles = NoCycles]

\* The +1 timer of u starts again at time t.
Restarted(u, t) == [part[u] EXCEPT !.createdAt = t, !.updatedAt = t]

\* The fields every write of the official price sets.
Priced(amount, t) ==
  [bid EXCEPT !.rate = amount, !.createdAt = t, !.updatedAt = t,
              !.isArchive = FALSE]

\* What the scheduled jobs do.
CronWork == {"resolve", "archive", "purge"}

Enter(p, r) ==
  /\ req[p].at = "idle"
  /\ r.at \in Traffic
  /\ p \in Cron => r.at \in CronWork
  /\ p \notin Cron => now <= LastRequest
  /\ req' = [req EXCEPT ![p] = [r EXCEPT !.start = now]]

Goto(p, stage) == req' = [req EXCEPT ![p].at = stage]

Leave(p) == req' = [req EXCEPT ![p] = Idle]

-----------------------------------------------------------------------------
Init ==
  /\ bid = NoBid
  /\ part = [u \in Users |-> NULL]
  /\ req = [p \in Reqs |-> Idle]
  /\ now = 0

-----------------------------------------------------------------------------
(* The bid and the timers.                                                 *)

Create(amount, doNotBid) ==
  /\ bid.st = "none"
  /\ bid' = [st |-> "live", rate |-> amount, isDoNotBid |-> doNotBid,
             isArchive |-> FALSE, createdAt |-> now, updatedAt |-> now]
  /\ part' = [part EXCEPT ![Owner] = Joined(now)]
  /\ UNCHANGED <<req, now>>

Delete ==
  /\ bid' = [NoBid EXCEPT !.st = "deleted"]
  /\ part' = [u \in Users |-> NULL]

Remove ==
  /\ Live
  /\ Delete
  /\ UNCHANGED <<req, now>>

\* joinByChatId(): a press while the timer runs, or of the creator, does
\* nothing.  The time is taken before the write.
JoinBegin(p, u) ==
  /\ Live /\ ~bid.isDoNotBid
  /\ u # Owner
  /\ ~TimerActive(u, now)
  /\ Enter(p, [Idle EXCEPT !.at = "join", !.by = u, !.stamp = now,
                           !.accept = Row(u)])
  /\ UNCHANGED <<bid, part, now>>

\* accept remembers that the row was found.  A first press that meets the row
\* of a simultaneous one (P2002) leaves it alone.
JoinWrite(p) ==
  LET u == req[p].by
      t == req[p].stamp
  IN /\ req[p].at = "join"
     /\ Live
     /\ \/ /\ req[p].accept /\ Row(u)
           /\ part' = [part EXCEPT ![u] = Restarted(u, t)]
        \/ /\ ~req[p].accept /\ ~Row(u)
           /\ part' = [part EXCEPT ![u] = Joined(t)]
     /\ Leave(p)
     /\ UNCHANGED <<bid, now>>

ExtensibleOnceMore(r) ==
  /\ r.updatedAt + Timer > now
  /\ r.updatedAt <= r.createdAt + MaxExtend

\* The three checks of extendTime() and of extendParticipantTimeByChatId().
Extensible(r) ==
  /\ r.updatedAt + Timer > now
  /\ r.updatedAt + Timer <= r.createdAt + MaxExtend

ExtendBidBegin(p) ==
  /\ Live
  /\ Extensible(bid)
  /\ Enter(p, [Idle EXCEPT !.at = "extendBid", !.by = Owner,
                           !.stamp = bid.updatedAt + Timer])
  /\ UNCHANGED <<bid, part, now>>

ExtendBidWrite(p) ==
  /\ req[p].at = "extendBid"
  /\ Live
  /\ bid' = [bid EXCEPT !.updatedAt = req[p].stamp]
  /\ Leave(p)
  /\ UNCHANGED <<part, now>>

ExtendPartBegin(p, u) ==
  /\ Live
  /\ u # Owner /\ Row(u)
  /\ Extensible(part[u])
  /\ \E who \in {u, Owner} :
       Enter(p, [Idle EXCEPT !.at = "extendPart", !.by = who, !.target = u,
                             !.stamp = part[u].updatedAt + Timer])
  /\ UNCHANGED <<bid, part, now>>

ExtendPartWrite(p) ==
  LET u == req[p].target
  IN /\ req[p].at = "extendPart"
     /\ Row(u)
     /\ part' = [part EXCEPT ![u].updatedAt = req[p].stamp]
     /\ Leave(p)
     /\ UNCHANGED <<bid, now>>

-----------------------------------------------------------------------------
(* updateNewPrice(): an offer, or the official price.                      *)

PriceBegin(p, u, amount) ==
  /\ Live /\ ~bid.isDoNotBid
  /\ Enter(p, [Idle EXCEPT !.at = "price", !.by = u, !.target = u,
                           !.amount = amount, !.base = bid.rate, !.stamp = now])
  /\ UNCHANGED <<bid, part, now>>

PriceCountOffByOne(p) ==
  /\ req[p].at = "price"
  /\ Cardinality(ActiveOffers) <= MaxOffers
  /\ Goto(p, "plusOne")
  /\ UNCHANGED <<bid, part, now>>

\* assertActiveOffersBelowMax()
PriceCount(p) ==
  /\ req[p].at = "price"
  /\ Cardinality(ActiveOffers) < MaxOffers
  /\ Goto(p, "plusOne")
  /\ UNCHANGED <<bid, part, now>>

\* A member needs a running timer.  The owner offers while anyone's timer
\* runs, and else sets the official price.
PricePlusOne(p) ==
  LET u == req[p].by
      anyone == \E v \in Users \ {Owner} : TimerActive(v, req[p].stamp)
  IN /\ req[p].at = "plusOne"
     /\ IF u # Owner
        THEN TimerActive(u, now) /\ Goto(p, "ownOffer")
        ELSE Goto(p, IF anyone THEN "ownOffer" ELSE "setRate")
     /\ UNCHANGED <<bid, part, now>>

\* assertRequesterHasNoActiveOffer(), assertNewOfferBelowBidRate()
PriceOwnOffer(p) ==
  /\ req[p].at = "ownOffer"
  /\ ~IsFresh(req[p].by)
  /\ req[p].amount < req[p].base
  /\ Goto(p, "min")
  /\ UNCHANGED <<bid, part, now>>

PriceMinEqual(p) ==
  /\ req[p].at = "min"
  /\ \A v \in ActiveOffers : req[p].amount <= part[v].rate
  /\ Goto(p, "snapshot")
  /\ UNCHANGED <<bid, part, now>>

\* assertNewOfferBelowActiveMin()
PriceMin(p) ==
  /\ req[p].at = "min"
  /\ \A v \in ActiveOffers : req[p].amount < part[v].rate
  /\ Goto(p, "snapshot")
  /\ UNCHANGED <<bid, part, now>>

\* buildOfferUserVotesSnapshot(): the others whose timer runs, and the owner.
\* The branch of updateNewPrice() for an empty snapshot of a member cannot run.
PriceSnapshot(p) ==
  LET u == req[p].by
      voters == {v \in Users \ {u} : v = Owner \/ TimerActive(v, req[p].stamp)}
  IN /\ req[p].at = "snapshot"
     /\ Live
     /\ req' = [req EXCEPT ![p] = [@ EXCEPT
          !.at = "offer",
          !.userVotes = [v \in Users |-> IF v \in voters THEN "open" ELSE "out"],
          !.cycles = [v \in Users |-> IF v \in voters \ {Owner}
                                      THEN part[v].createdAt ELSE 0]]]
     /\ UNCHANGED <<bid, part, now>>

PriceOffer(p) ==
  LET u == req[p].by
  IN /\ req[p].at = "offer"
     /\ Row(u)
     /\ part' = [part EXCEPT ![u] =
                   [@ EXCEPT !.rate = req[p].amount,
                             !.createdRateAt = req[p].stamp,
                             !.userVotes = req[p].userVotes,
                             !.cycles = req[p].cycles]]
     /\ Leave(p)
     /\ UNCHANGED <<bid, now>>

PriceSetRate(p) ==
  /\ req[p].at = "setRate"
  /\ Live
  /\ bid' = Priced(req[p].amount, req[p].stamp)
  /\ Leave(p)
  /\ UNCHANGED <<part, now>>

-----------------------------------------------------------------------------
(* voteOnOffer()                                                           *)

\* The owner may vote on an offer whose snapshot lacks them.
Ballot(v, u) == IF v = Owner /\ part[u].userVotes[v] = "out"
                THEN "open" ELSE part[u].userVotes[v]

VoteBegin(p, v, u, accept) ==
  /\ Live /\ ~bid.isDoNotBid
  /\ u # v
  /\ IsFresh(u)
  /\ Ballot(v, u) = "open"
  /\ Enter(p, [Idle EXCEPT
       !.at = IF v = Owner THEN "voteLock" ELSE "vote",
       !.by = v, !.target = u, !.amount = part[u].rate, !.accept = accept,
       !.stamp = part[u].createdRateAt, !.cycles = part[u].cycles,
       !.userVotes = [part[u].userVotes EXCEPT ![v] = "yes"]])
  /\ UNCHANGED <<bid, part, now>>

\* canUserVoteOnOffer(): the timer of the cycle in the snapshot still runs.
VotePlusOne(p) ==
  LET v == req[p].by
  IN /\ req[p].at = "vote"
     /\ TimerActive(v, now)
     /\ part[v].createdAt = req[p].cycles[v]
     /\ Goto(p, "voteLock")
     /\ UNCHANGED <<bid, part, now>>

\* findActiveAcceptVoteLock(), before the message in the chat.
VoteLock(p) ==
  LET v == req[p].by
      u == req[p].target
  IN /\ req[p].at = "voteLock"
     /\ \A w \in ActiveOffers \ {u} : part[w].userVotes[v] # "yes"
     /\ Goto(p, IF req[p].accept THEN "clearOthers" ELSE "reject")
     /\ UNCHANGED <<bid, part, now>>

VoteReject(p) ==
  LET u == req[p].target
  IN /\ req[p].at = "reject"
     /\ Row(u)
     /\ part' = [part EXCEPT ![u] = Cleared(u)]
     /\ Leave(p)
     /\ UNCHANGED <<bid, now>>

\* clearOtherActiveOffers()
VoteClearOthers(p) ==
  /\ req[p].at = "clearOthers"
  /\ part' = [w \in Users |-> IF w # req[p].target /\ HasOffer(w)
                              THEN Cleared(w) ELSE part[w]]
  /\ Goto(p, "record")
  /\ UNCHANGED <<bid, now>>

\* The whole array of votes is written, as it was read plus one's own.
VoteRecord(p) ==
  LET u == req[p].target
      unanimous == \A v \in Users : req[p].userVotes[v] # "open"
  IN /\ req[p].at = "record"
     /\ Row(u)
     /\ part' = [part EXCEPT ![u] = [@ EXCEPT !.userVotes = req[p].userVotes,
                                             !.cycles = req[p].cycles]]
     /\ IF req[p].by # Owner THEN Goto(p, "resetTimer")
        ELSE IF unanimous THEN Goto(p, "accept") ELSE Leave(p)
     /\ UNCHANGED <<bid, now>>

\* resetPlusOneParticipantTimer()
VoteResetTimer(p) ==
  LET v == req[p].by
      unanimous == \A w \in Users : req[p].userVotes[w] # "open"
  IN /\ req[p].at = "resetTimer"
     /\ Row(v)
     /\ part' = [part EXCEPT ![v] = Restarted(v, now)]
     /\ IF unanimous THEN Goto(p, "accept") ELSE Leave(p)
     /\ UNCHANGED <<bid, now>>

\* acceptParticipantOffer(): one transaction.
VoteAccept(p) ==
  LET u == req[p].target
  IN /\ req[p].at = "accept"
     /\ Live /\ Row(u)
     /\ bid' = Priced(req[p].amount, now)
     /\ part' = [part EXCEPT ![u] = Cleared(u)]
     /\ Leave(p)
     /\ UNCHANGED now

-----------------------------------------------------------------------------
(* resolveExpiredOffer(), called by any client and by the 15-second job.   *)

ExpiredOnTimer(u) == HasOffer(u) /\ ~IsFresh(u) /\ TimerActive(u, now)

Expired(u) == HasOffer(u) /\ ~IsFresh(u)

\* The job starts with the expired offers of bids that are not archived.
ResolveBegin(p, u) ==
  /\ Live
  /\ p \in Cron => Expired(u) /\ ~bid.isArchive
  /\ Enter(p, [Idle EXCEPT !.at = "resolve", !.target = u, !.base = bid.rate])
  /\ UNCHANGED <<bid, part, now>>

ResolveRead(p) ==
  LET u == req[p].target
  IN /\ req[p].at = "resolve"
     /\ Expired(u)
     /\ req' = [req EXCEPT ![p] = [@ EXCEPT !.at = "claim",
                                           !.amount = part[u].rate,
                                           !.stamp = part[u].createdRateAt]]
     /\ UNCHANGED <<bid, part, now>>

ClaimableAnyOffer(p) == HasOffer(req[p].target)

\* The atomic claim: only the offer that was read.
Claimable(p) == /\ HasOffer(req[p].target)
                /\ part[req[p].target].createdRateAt = req[p].stamp

ResolveClaim(p) ==
  LET u == req[p].target
  IN /\ req[p].at = "claim"
     /\ Claimable(p)
     /\ part' = [part EXCEPT ![u] = Cleared(u)]
     /\ IF req[p].amount <= req[p].base THEN Goto(p, "apply") ELSE Leave(p)
     /\ UNCHANGED <<bid, now>>

\* writeMainBidRate()
ResolveApply(p) ==
  /\ req[p].at = "apply"
  /\ Live
  /\ bid' = Priced(req[p].amount, now)
  /\ Leave(p)
  /\ UNCHANGED <<part, now>>

-----------------------------------------------------------------------------
(* The three-hour job, time and failure.                                   *)

ArchiveReadAny(p) ==
  /\ Live /\ ~bid.isArchive
  /\ Enter(p, [Idle EXCEPT !.at = "archive", !.stamp = now])
  /\ UNCHANGED <<bid, part, now>>

ArchiveRead(p) ==
  /\ Live /\ ~bid.isArchive
  /\ bid.updatedAt + ArchiveIdle < now
  /\ Enter(p, [Idle EXCEPT !.at = "archive", !.stamp = now])
  /\ UNCHANGED <<bid, part, now>>

ArchiveWrite(p) ==
  /\ req[p].at = "archive"
  /\ Live
  /\ bid' = [bid EXCEPT !.isArchive = TRUE, !.updatedAt = req[p].stamp]
  /\ Leave(p)
  /\ UNCHANGED <<part, now>>

PurgeRead(p) ==
  /\ Live /\ bid.isArchive
  /\ bid.updatedAt + PurgeAfter < now
  /\ Enter(p, [Idle EXCEPT !.at = "purge"])
  /\ UNCHANGED <<bid, part, now>>

PurgeWrite(p) ==
  /\ req[p].at = "purge"
  /\ Live
  /\ Delete
  /\ Leave(p)
  /\ UNCHANGED now

\* No request outlives Stall.
Tick ==
  /\ now < Horizon
  /\ \A p \in Reqs : req[p].at # "idle" => now < req[p].start + Stall
  /\ now' = now + 1
  /\ UNCHANGED <<bid, part, req>>

\* A request ends where it stands: a check fails, its row is gone, the
\* database fails, or the process stops.
Fail(p) ==
  /\ req[p].at # "idle"
  /\ Leave(p)
  /\ UNCHANGED <<bid, part, now>>

-----------------------------------------------------------------------------
\* A request comes in.
Begin(p) ==
  \/ \E u \in Users : JoinBegin(p, u) \/ ExtendPartBegin(p, u) \/ ResolveBegin(p, u)
  \/ \E u \in Users, a \in Rates : PriceBegin(p, u, a)
  \/ \E v, u \in Users, accept \in BOOLEAN : VoteBegin(p, v, u, accept)
  \/ ExtendBidBegin(p) \/ ArchiveRead(p) \/ PurgeRead(p)

\* A request goes on, or ends.
Proceed(p) ==
  \/ JoinWrite(p) \/ ExtendBidWrite(p) \/ ExtendPartWrite(p)
  \/ PriceCount(p) \/ PricePlusOne(p) \/ PriceOwnOffer(p) \/ PriceMin(p)
  \/ PriceSnapshot(p) \/ PriceOffer(p) \/ PriceSetRate(p)
  \/ VotePlusOne(p) \/ VoteLock(p) \/ VoteReject(p) \/ VoteClearOthers(p)
  \/ VoteRecord(p) \/ VoteResetTimer(p) \/ VoteAccept(p)
  \/ ResolveRead(p) \/ ResolveClaim(p) \/ ResolveApply(p)
  \/ ArchiveWrite(p) \/ PurgeWrite(p)
  \/ Fail(p)

Next ==
  \/ \E a \in Rates, dnb \in BOOLEAN : Create(a, dnb)
  \/ Remove
  \/ \E p \in Reqs : Begin(p) \/ Proceed(p)
  \/ Tick

Spec == Init /\ [][Next]_vars

\* Requests go on and time passes.  The job comes every 15 seconds, and its
\* reads and claims do not fail for ever.
Fairness ==
  /\ WF_vars(Tick)
  /\ \A p \in Reqs : WF_vars(Proceed(p))
  /\ SF_vars(\E p \in Cron : ResolveRead(p))
  /\ SF_vars(\E p \in Cron : ResolveClaim(p))
  /\ \A u \in Users : SF_vars(\E p \in Cron : ResolveBegin(p, u))

FairSpec == Spec /\ Fairness

-----------------------------------------------------------------------------
(* Properties.                                                             *)

\* The rows, the requests and the clock keep their shape.
TypeOK ==
  /\ bid \in BidRecord
  /\ part \in [Users -> PartRecord \cup {NULL}]
  /\ req \in [Reqs -> ReqRecord]
  /\ now \in Nat

\* An expired offer is applied by one request only, and not while it could
\* still be claimed by another: clients and the job may all try.
ApplyExclusive ==
  \A p \in Reqs : req[p].at = "apply" =>
    /\ HasOffer(req[p].target) =>
         part[req[p].target].createdRateAt # req[p].stamp
    /\ \A q \in Reqs \ {p} :
         req[q].at = "apply" /\ req[q].target = req[p].target
           => req[q].stamp # req[p].stamp

\* The price that a resolving request carries is the price of the offer it
\* claims, although it read the offer earlier.
ClaimsPriceRead ==
  \A p \in Reqs : req[p].at = "claim" /\ Claimable(p)
                     => part[req[p].target].rate = req[p].amount

\* Three extensions at most: racing resets and extensions stretch a running
\* timer by no more than a request lasts.  Archiving restarts updated_at.
TimerSlack ==
  /\ Live /\ ~bid.isArchive =>
       bid.updatedAt <= bid.createdAt + MaxExtend + Stall
  /\ \A u \in Users : Row(u) =>
       part[u].updatedAt <= part[u].createdAt + MaxExtend + Stall

\* The requests for an offer that have passed assertActiveOffersBelowMax().
Admitted ==
  {p \in Reqs : req[p].at \in {"plusOne", "ownOffer", "min", "snapshot", "offer"}}

\* Requests that count the active offers at the same time exceed the limit
\* together; but the offers there are, and those that have passed the count and
\* are about to be written, exceed it by less than there are clients in flight.
OfferLimitSlack ==
  Cardinality(ActiveOffers) + Cardinality(Admitted)
    < MaxOffers + Cardinality(Reqs \ Cron)

\* Two offers that compare at the same time need not undercut each other, but a
\* new offer undercuts every active one that was written before it came in.
\* An offer with time t is written by t + Stall.
UndercutsEarlier ==
  [][\A p \in Reqs : PriceOffer(p) =>
       \A v \in ActiveOffers :
         part[v].createdRateAt + Stall < req[p].start
           => req[p].amount < part[v].rate]_vars

\* The job archives by id, so a price set after it read the bid does not stop
\* it; any other bid it archives is idle.
ArchivesIdleOrRaced ==
  [][\A p \in Reqs : ArchiveWrite(p) =>
       \/ bid.updatedAt + ArchiveIdle < now
       \/ bid.updatedAt + 2 * Stall >= now]_vars

\* An offer does not stay open for ever: a vote, another offer's acceptance, a
\* client or the job settles it, unless its bid is archived first.
OffersSettle ==
  \A u \in Users : HasOffer(u) ~> ~HasOffer(u) \/ bid.isArchive

-----------------------------------------------------------------------------
(* The inductive invariants behind these properties.                       *)

\* An offer has a time, and a request knows who asked and whom it is about.
OffersTimed ==
  \A u \in Users : HasOffer(u) => part[u].createdRateAt \in Nat

About ==
  {"extendPart", "vote", "voteLock", "reject", "clearOthers", "record",
   "resetTimer", "accept", "resolve", "claim", "apply"}

Attributed ==
  \A p \in Reqs :
    /\ req[p].at \notin {"idle", "resolve", "claim", "apply", "archive", "purge"}
         => req[p].by \in Users
    /\ req[p].at \in About => req[p].target \in Users

TypeInv == TypeOK /\ OffersTimed /\ Attributed

Pricing ==
  {"price", "plusOne", "ownOffer", "min", "snapshot", "offer", "setRate"}

\* No request is older than Stall, its time stamp is its start or, for an
\* extension, close to it, and no cycle starts in the future.
Timed ==
  /\ \A p \in Reqs : req[p].at # "idle" =>
       req[p].start <= now /\ now <= req[p].start + Stall
  /\ \A p \in Reqs : req[p].at \in Pricing \cup {"join", "archive"} =>
       req[p].stamp = req[p].start
  /\ \A p \in Reqs : req[p].at \in {"extendBid", "extendPart"} =>
       req[p].start < req[p].stamp /\ req[p].stamp <= req[p].start + MaxExtend
  /\ Live => bid.createdAt <= now
  /\ \A u \in Users : Row(u) => part[u].createdAt <= now

\* What a resolving request knows of the offer it read.  A new offer is too
\* young to be taken for an expired one.
Resolving ==
  \A p \in Reqs :
    req[p].at \in {"claim", "apply"} => req[p].stamp + Fresh <= now

\* An extension in flight fits the cycle it will extend.
Extending ==
  \A p \in Reqs :
    /\ req[p].at = "extendBid" /\ Live =>
         req[p].stamp <= bid.createdAt + MaxExtend + Stall
    /\ req[p].at = "extendPart" /\ Row(req[p].target) =>
         req[p].stamp <= part[req[p].target].createdAt + MaxExtend + Stall

AuctionInv ==
  /\ TypeInv /\ Timed /\ Resolving /\ Extending
  /\ ApplyExclusive /\ ClaimsPriceRead /\ TimerSlack

\* A request that has passed the comparison undercuts what was there before.
Undercutting ==
  \A p \in Reqs : req[p].at \in {"snapshot", "offer"} =>
    \A v \in ActiveOffers :
      part[v].createdRateAt + Stall < req[p].start
        => req[p].amount < part[v].rate

\* A bid that is being archived was idle, or was touched since it was read.
Archiving ==
  \A p \in Reqs : req[p].at = "archive" /\ Live =>
    \/ bid.updatedAt + ArchiveIdle < req[p].start
    \/ req[p].start <= bid.updatedAt + Stall

\* The job makes no offers.
OfferSlack ==
  /\ \A p \in Cron : req[p].at \in {"idle", "claim", "apply"} \cup CronWork
  /\ OfferLimitSlack

=============================================================================
