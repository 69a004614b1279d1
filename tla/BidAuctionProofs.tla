-------------------------- MODULE BidAuctionProofs --------------------------
(***************************************************************************)
(* Theorems about BidAuction, for every value of its constants.            *)
(*                                                                         *)
(* TypeInv is inductive by the actions.  The other invariants are proved   *)
(* from four summaries of a step: what a request does (RequestStep), what  *)
(* becomes of the clock, of the bid (BidStep) and of a row (RowStep).      *)
(***************************************************************************)
EXTENDS BidAuction, FiniteSetTheorems, TLAPS

USE UsersAssumption, RatesAssumption, TimesAssumption

\* NULL is no user and no number.
LEMMA NullAssumption == NULL \notin Users /\ NULL \notin Nat /\ NULL \notin Rates
  OBVIOUS

-----------------------------------------------------------------------------
(* How a slot changes.                                                     *)

\* A new request is in its slot, with its start, and other slots wait.
LEMMA EnterSlot ==
  ASSUME TypeOK, NEW p \in Reqs, NEW r, Enter(p, r)
  PROVE  /\ req'[p] = [r EXCEPT !.start = now]
         /\ \A q \in Reqs : q # p => req'[q] = req[q]
         /\ req[p].at = "idle"
         /\ p \in Cron => r.at \in CronWork
         /\ r \in ReqRecord => req' \in [Reqs -> ReqRecord]
<1>1. req \in [Reqs -> ReqRecord] /\ now \in Nat  BY DEF TypeOK
<1>2. r \in ReqRecord => [r EXCEPT !.start = now] \in ReqRecord
  BY <1>1 DEF ReqRecord
<1> QED  BY <1>1, <1>2 DEF Enter

\* Only the stage of the request that goes on changes.
LEMMA GotoSlot ==
  ASSUME TypeOK, NEW p \in Reqs, NEW stage \in Stages, Goto(p, stage)
  PROVE  /\ req'[p] = [req[p] EXCEPT !.at = stage]
         /\ \A q \in Reqs : q # p => req'[q] = req[q]
         /\ req' \in [Reqs -> ReqRecord]
<1>1. req \in [Reqs -> ReqRecord]  BY DEF TypeOK
<1>2. [req[p] EXCEPT !.at = stage] \in ReqRecord  BY <1>1 DEF ReqRecord
<1> QED  BY <1>1, <1>2 DEF Goto

\* A slot is idle when its request leaves.
LEMMA LeaveSlot ==
  ASSUME TypeOK, NEW p \in Reqs, Leave(p)
  PROVE  /\ req'[p] = Idle
         /\ \A q \in Reqs : q # p => req'[q] = req[q]
         /\ req' \in [Reqs -> ReqRecord]
<1>1. req \in [Reqs -> ReqRecord]  BY DEF TypeOK
<1>2. Idle \in ReqRecord
  BY DEF Idle, ReqRecord, Stages, Votes, Cycles, NoVotes, NoCycles
<1> QED  BY <1>1, <1>2 DEF Leave

\* Writing one row leaves the others alone.
LEMMA WriteRow ==
  ASSUME TypeOK, NEW u \in Users, NEW r, part' = [part EXCEPT ![u] = r]
  PROVE  /\ part'[u] = r
         /\ \A v \in Users : v # u => part'[v] = part[v]
         /\ r \in PartRecord \cup {NULL} =>
              part' \in [Users -> PartRecord \cup {NULL}]
BY DEF TypeOK

\* The rows that are written are rows.
LEMMA RowTypes ==
  ASSUME TypeOK, NEW u \in Users
  PROVE  /\ \A t \in Nat : Joined(t) \in PartRecord
         /\ Row(u) => /\ part[u] \in PartRecord
                      /\ Cleared(u) \in PartRecord
                      /\ \A t \in Nat : Restarted(u, t) \in PartRecord
<1>1. NoVotes \in Votes /\ NoCycles \in Cycles
  BY DEF NoVotes, NoCycles, Votes, Cycles
<1>2. \A t \in Nat : Joined(t) \in PartRecord  BY <1>1 DEF Joined, PartRecord
<1>3. ASSUME Row(u)
      PROVE  /\ part[u] \in PartRecord
             /\ Cleared(u) \in PartRecord
             /\ \A t \in Nat : Restarted(u, t) \in PartRecord
  <2>1. part[u] \in PartRecord  BY <1>3 DEF Row, TypeOK
  <2>2. Cleared(u) \in PartRecord  BY <1>1, <2>1 DEF Cleared, PartRecord
  <2>3. \A t \in Nat : Restarted(u, t) \in PartRecord
    BY <2>1 DEF Restarted, PartRecord
  <2> QED  BY <2>1, <2>2, <2>3
<1> QED  BY <1>2, <1>3

-----------------------------------------------------------------------------
(* Types.                                                                  *)

\* The record of a vote is a request.
LEMMA VoteStartType ==
  ASSUME TypeInv, NEW v \in Users, NEW u \in Users, NEW b \in BOOLEAN,
         NEW stage \in {"vote", "voteLock"}, HasOffer(u)
  PROVE  [Idle EXCEPT
           !.at = stage, !.by = v, !.target = u, !.amount = part[u].rate,
           !.accept = b, !.stamp = part[u].createdRateAt,
           !.cycles = part[u].cycles,
           !.userVotes = [part[u].userVotes EXCEPT ![v] = "yes"]]
         \in ReqRecord
<1> DEFINE amount == part[u].rate
           stamp == part[u].createdRateAt
           cycles == part[u].cycles
           votes == [part[u].userVotes EXCEPT ![v] = "yes"]
           r == [Idle EXCEPT !.at = stage, !.by = v, !.target = u,
                             !.amount = amount]
           q == [r EXCEPT !.accept = b, !.stamp = stamp, !.cycles = cycles,
                          !.userVotes = votes]
<1>1. part[u] \in PartRecord  BY RowTypes DEF TypeInv, HasOffer
<1>2. /\ amount \in Rates \cup {NULL} /\ stamp \in Nat
      /\ cycles \in Cycles /\ votes \in Votes
  BY <1>1 DEF TypeInv, OffersTimed, PartRecord, Votes
<1>3. Idle \in ReqRecord
  BY DEF Idle, ReqRecord, Stages, Votes, Cycles, NoVotes, NoCycles
<1> HIDE DEF amount, stamp, cycles, votes
<1>4. r \in ReqRecord  BY <1>2, <1>3 DEF ReqRecord, Stages
<1>5. q \in ReqRecord
  <2> HIDE DEF r
  <2> QED  BY <1>2, <1>4 DEF ReqRecord
<1>6. q = [Idle EXCEPT !.at = stage, !.by = v, !.target = u, !.amount = amount,
                       !.accept = b, !.stamp = stamp, !.cycles = cycles,
                       !.userVotes = votes]
  BY ZenonT(60) DEF Idle
<1> HIDE DEF r, q
<1> QED  BY <1>5, <1>6 DEF amount, stamp, cycles, votes

\* Every kind of request starts with a well-typed record.
LEMMA StartTypes ==
  ASSUME TypeInv
  PROVE  /\ \A u \in Users, b \in BOOLEAN :
              [Idle EXCEPT !.at = "join", !.by = u, !.stamp = now,
                           !.accept = b] \in ReqRecord
         /\ Live => [Idle EXCEPT !.at = "extendBid", !.by = Owner,
                                 !.stamp = bid.updatedAt + Timer] \in ReqRecord
         /\ \A u, who \in Users : Row(u) =>
              [Idle EXCEPT !.at = "extendPart", !.by = who, !.target = u,
                           !.stamp = part[u].updatedAt + Timer] \in ReqRecord
         /\ \A u \in Users, a \in Rates :
              [Idle EXCEPT !.at = "price", !.by = u, !.target = u, !.amount = a,
                           !.base = bid.rate, !.stamp = now] \in ReqRecord
         /\ \A v, u \in Users, b \in BOOLEAN, stage \in {"vote", "voteLock"} :
              HasOffer(u) =>
                [Idle EXCEPT
                  !.at = stage, !.by = v, !.target = u, !.amount = part[u].rate,
                  !.accept = b, !.stamp = part[u].createdRateAt,
                  !.cycles = part[u].cycles,
                  !.userVotes = [part[u].userVotes EXCEPT ![v] = "yes"]]
                \in ReqRecord
         /\ \A u \in Users :
              [Idle EXCEPT !.at = "resolve", !.target = u, !.base = bid.rate]
              \in ReqRecord
         /\ [Idle EXCEPT !.at = "archive", !.stamp = now] \in ReqRecord
         /\ [Idle EXCEPT !.at = "purge"] \in ReqRecord
<1>1. NoVotes \in Votes /\ NoCycles \in Cycles
  BY DEF NoVotes, NoCycles, Votes, Cycles
<1>2. Idle \in ReqRecord  BY <1>1 DEF Idle, ReqRecord, Stages
<1>3. /\ now \in Nat
      /\ bid.rate \in Rates \cup {NULL} /\ bid.updatedAt + Timer \in Nat
  BY DEF TypeInv, TypeOK, BidRecord
<1>4. \A u \in Users : Row(u) => part[u] \in PartRecord
  BY RowTypes DEF TypeInv
<1>5. \A u \in Users : Row(u) => part[u].updatedAt + Timer \in Nat
  BY <1>4 DEF PartRecord
<1>6. \A u, v \in Users : HasOffer(u) =>
        /\ part[u].rate \in Rates \cup {NULL}
        /\ part[u].createdRateAt \in Nat
        /\ part[u].cycles \in Cycles
        /\ [part[u].userVotes EXCEPT ![v] = "yes"] \in Votes
  BY <1>4 DEF HasOffer, TypeInv, OffersTimed, PartRecord, Votes
<1>7. \A u \in Users, b \in BOOLEAN :
        [Idle EXCEPT !.at = "join", !.by = u, !.stamp = now, !.accept = b]
        \in ReqRecord
  BY <1>2, <1>3 DEF ReqRecord, Stages
<1>8. [Idle EXCEPT !.at = "extendBid", !.by = Owner,
                   !.stamp = bid.updatedAt + Timer] \in ReqRecord
  BY <1>2, <1>3 DEF ReqRecord, Stages
<1>9. \A u, who \in Users : Row(u) =>
        [Idle EXCEPT !.at = "extendPart", !.by = who, !.target = u,
                     !.stamp = part[u].updatedAt + Timer] \in ReqRecord
  BY <1>2, <1>5, ZenonT(60) DEF ReqRecord, Stages
<1>10. \A u \in Users, a \in Rates :
         [Idle EXCEPT !.at = "price", !.by = u, !.target = u, !.amount = a,
                      !.base = bid.rate, !.stamp = now] \in ReqRecord
  BY <1>2, <1>3 DEF ReqRecord, Stages
<1>11. \A v, u \in Users, b \in BOOLEAN, stage \in {"vote", "voteLock"} :
         HasOffer(u) =>
           [Idle EXCEPT
             !.at = stage, !.by = v, !.target = u, !.amount = part[u].rate,
             !.accept = b, !.stamp = part[u].createdRateAt,
             !.cycles = part[u].cycles,
             !.userVotes = [part[u].userVotes EXCEPT ![v] = "yes"]]
           \in ReqRecord
  BY VoteStartType
<1>12. \A u \in Users :
         [Idle EXCEPT !.at = "resolve", !.target = u, !.base = bid.rate]
         \in ReqRecord
  BY <1>2, <1>3 DEF ReqRecord, Stages
<1>13. /\ [Idle EXCEPT !.at = "archive", !.stamp = now] \in ReqRecord
       /\ [Idle EXCEPT !.at = "purge"] \in ReqRecord
  BY <1>2, <1>3 DEF ReqRecord, Stages
<1> QED  BY <1>7, <1>8, <1>9, <1>10, <1>11, <1>12, <1>13

\* The official price is written with a time.
LEMMA PricedType ==
  ASSUME TypeOK, NEW a \in Rates \cup {NULL}, NEW t \in Nat
  PROVE  Priced(a, t) \in BidRecord
BY DEF Priced, TypeOK, BidRecord

\* Every step keeps the types.
LEMMA TypeStep ==
  ASSUME TypeInv, [Next]_vars
  PROVE  TypeOK'
<1> USE DEF TypeInv
<1>0. /\ bid \in BidRecord /\ now \in Nat
      /\ part \in [Users -> PartRecord \cup {NULL}]
      /\ req \in [Reqs -> ReqRecord]
  BY DEF TypeOK
<1>1. CASE UNCHANGED vars  BY <1>1 DEF vars, TypeOK
<1>2. ASSUME NEW a \in Rates, NEW dnb \in BOOLEAN, Create(a, dnb)
      PROVE  TypeOK'
  <2>1. bid' \in BidRecord  BY <1>0, <1>2 DEF Create, BidRecord
  <2>2. part' \in [Users -> PartRecord \cup {NULL}]
    BY <1>0, <1>2, RowTypes, WriteRow DEF Create
  <2> QED  BY <1>0, <1>2, <2>1, <2>2 DEF Create, TypeOK
<1>3. ASSUME Delete
      PROVE  bid' \in BidRecord /\ part' \in [Users -> PartRecord \cup {NULL}]
  BY <1>3 DEF Delete, NoBid, BidRecord
<1>4. CASE Remove  BY <1>0, <1>3, <1>4 DEF Remove, TypeOK
<1>5. CASE Tick  BY <1>0, <1>5 DEF Tick, TypeOK
<1>6. ASSUME NEW p \in Reqs, Begin(p)  PROVE TypeOK'
  <2>1. UNCHANGED <<bid, part, now>>
    BY <1>6 DEF Begin, JoinBegin, ExtendPartBegin, ResolveBegin, PriceBegin,
                VoteBegin, ExtendBidBegin, ArchiveRead, PurgeRead
  <2>2. \E r \in ReqRecord : Enter(p, r)
    <3>1. ASSUME NEW u \in Users, JoinBegin(p, u)
          PROVE  \E r \in ReqRecord : Enter(p, r)
      <4>1. Row(u) \in BOOLEAN  BY DEF Row
      <4> QED  BY <3>1, <4>1, StartTypes DEF JoinBegin
    <3>2. ASSUME NEW u \in Users, ExtendPartBegin(p, u)
          PROVE  \E r \in ReqRecord : Enter(p, r)
      BY <3>2, StartTypes DEF ExtendPartBegin
    <3>3. ASSUME NEW u \in Users, ResolveBegin(p, u)
          PROVE  \E r \in ReqRecord : Enter(p, r)
      BY <3>3, StartTypes DEF ResolveBegin
    <3>4. ASSUME NEW u \in Users, NEW a \in Rates, PriceBegin(p, u, a)
          PROVE  \E r \in ReqRecord : Enter(p, r)
      BY <3>4, StartTypes DEF PriceBegin
    <3>5. ASSUME NEW v \in Users, NEW u \in Users, NEW b \in BOOLEAN,
                 VoteBegin(p, v, u, b)
          PROVE  \E r \in ReqRecord : Enter(p, r)
      <4>1. HasOffer(u)  BY <3>5 DEF VoteBegin, IsFresh
      <4>2. CASE v = Owner  BY <3>5, <4>1, <4>2, StartTypes DEF VoteBegin
      <4>3. CASE v # Owner  BY <3>5, <4>1, <4>3, StartTypes DEF VoteBegin
      <4> QED  BY <4>2, <4>3
    <3>6. CASE ExtendBidBegin(p)  BY <3>6, StartTypes DEF ExtendBidBegin
    <3>7. CASE ArchiveRead(p)  BY <3>7, StartTypes DEF ArchiveRead
    <3>8. CASE PurgeRead(p)  BY <3>8, StartTypes DEF PurgeRead
    <3> QED  BY <1>6, <3>1, <3>2, <3>3, <3>4, <3>5, <3>6, <3>7, <3>8 DEF Begin
  <2> QED  BY <1>0, <2>1, <2>2, EnterSlot DEF TypeOK
<1>7. ASSUME NEW p \in Reqs, NEW stage \in Stages, Goto(p, stage),
             UNCHANGED <<bid, part, now>>
      PROVE  TypeOK'
  BY <1>0, <1>7, GotoSlot DEF TypeOK
<1>8. ASSUME NEW p \in Reqs, Proceed(p)  PROVE TypeOK'
  <2>0. req[p] \in ReqRecord  BY <1>0
  <2>1. /\ req[p].amount \in Rates \cup {NULL} /\ req[p].stamp \in Nat
        /\ req[p].userVotes \in Votes /\ req[p].cycles \in Cycles
    BY <2>0 DEF ReqRecord
  <2>2. CASE JoinWrite(p)
    <3>1. req[p].by \in Users  BY <2>2 DEF JoinWrite, Attributed
    <3>2. part' \in [Users -> PartRecord \cup {NULL}]
      BY <2>1, <2>2, <3>1, RowTypes, WriteRow DEF JoinWrite
    <3> QED  BY <1>0, <2>2, <3>2, LeaveSlot DEF JoinWrite, TypeOK
  <2>3. CASE ExtendBidWrite(p)
    <3>1. bid' \in BidRecord  BY <1>0, <2>1, <2>3 DEF ExtendBidWrite, BidRecord
    <3> QED  BY <1>0, <2>3, <3>1, LeaveSlot DEF ExtendBidWrite, TypeOK
  <2>4. CASE ExtendPartWrite(p)
    <3>1. req[p].target \in Users  BY <2>4 DEF ExtendPartWrite, Attributed, About
    <3>2. part[req[p].target] \in PartRecord
      BY <2>4, <3>1, RowTypes DEF ExtendPartWrite
    <3>3. [part[req[p].target] EXCEPT !.updatedAt = req[p].stamp] \in PartRecord
      BY <2>1, <3>2 DEF PartRecord
    <3>4. part' = [part EXCEPT ![req[p].target] =
                     [part[req[p].target] EXCEPT !.updatedAt = req[p].stamp]]
      BY <2>4 DEF ExtendPartWrite
    <3>5. part' \in [Users -> PartRecord \cup {NULL}]
      BY <3>1, <3>3, <3>4, WriteRow
    <3> QED  BY <1>0, <2>4, <3>5, LeaveSlot DEF ExtendPartWrite, TypeOK
  <2>5. CASE \/ PriceCount(p) \/ PricePlusOne(p) \/ PriceOwnOffer(p)
             \/ PriceMin(p) \/ VotePlusOne(p) \/ VoteLock(p)
    <3>1. UNCHANGED <<bid, part, now>>
      BY <2>5 DEF PriceCount, PricePlusOne, PriceOwnOffer, PriceMin,
                  VotePlusOne, VoteLock
    <3>2. \E stage \in Stages : Goto(p, stage)
      BY <2>5 DEF PriceCount, PricePlusOne, PriceOwnOffer, PriceMin,
                  VotePlusOne, VoteLock, Stages
    <3> QED  BY <1>7, <3>1, <3>2
  <2>6. CASE PriceSnapshot(p)
    <3>1. PICK votes \in Votes, cycles \in Cycles :
            req' = [req EXCEPT ![p] = [@ EXCEPT !.at = "offer",
                                                !.userVotes = votes,
                                                !.cycles = cycles]]
      <4> DEFINE voters == {v \in Users \ {req[p].by} :
                              v = Owner \/ TimerActive(v, req[p].stamp)}
                 votes == [v \in Users |-> IF v \in voters THEN "open" ELSE "out"]
                 cycles == [v \in Users |-> IF v \in voters \ {Owner}
                                            THEN part[v].createdAt ELSE 0]
      <4>1. \A v \in voters \ {Owner} : part[v].createdAt \in Nat
        BY RowTypes DEF TimerActive, PartRecord
      <4>2. votes \in Votes /\ cycles \in Cycles
        BY <4>1 DEF Votes, Cycles
      <4>3. req' = [req EXCEPT ![p] = [@ EXCEPT !.at = "offer",
                                                !.userVotes = votes,
                                                !.cycles = cycles]]
        BY <2>6 DEF PriceSnapshot
      <4> HIDE DEF votes, cycles
      <4> QED  BY <4>2, <4>3
    <3>2. [req[p] EXCEPT !.at = "offer", !.userVotes = votes, !.cycles = cycles]
          \in ReqRecord
      BY <2>0, <3>1 DEF ReqRecord, Stages
    <3>3. req' \in [Reqs -> ReqRecord]  BY <1>0, <3>1, <3>2
    <3> QED  BY <1>0, <2>6, <3>3 DEF PriceSnapshot, TypeOK
  <2>7. CASE PriceOffer(p)
    <3>1. req[p].by \in Users  BY <2>7 DEF PriceOffer, Attributed
    <3>2. part[req[p].by] \in PartRecord
      BY <2>7, <3>1, RowTypes DEF PriceOffer
    <3>3. [part[req[p].by] EXCEPT
             !.rate = req[p].amount, !.createdRateAt = req[p].stamp,
             !.userVotes = req[p].userVotes, !.cycles = req[p].cycles]
          \in PartRecord
      BY <2>1, <3>2 DEF PartRecord
    <3>4. part' \in [Users -> PartRecord \cup {NULL}]
      BY <1>0, <2>7, <3>1, <3>3 DEF PriceOffer
    <3> QED  BY <1>0, <2>7, <3>4, LeaveSlot DEF PriceOffer, TypeOK
  <2>8. CASE PriceSetRate(p)
    BY <1>0, <2>1, <2>8, PricedType, LeaveSlot DEF PriceSetRate, TypeOK
  <2>9. CASE VoteReject(p)
    <3>1. req[p].target \in Users  BY <2>9 DEF VoteReject, Attributed, About
    <3>2. part' \in [Users -> PartRecord \cup {NULL}]
      BY <2>9, <3>1, RowTypes, WriteRow DEF VoteReject
    <3> QED  BY <1>0, <2>9, <3>2, LeaveSlot DEF VoteReject, TypeOK
  <2>10. CASE VoteClearOthers(p)
    <3>1. part' \in [Users -> PartRecord \cup {NULL}]
      BY <1>0, <2>10, RowTypes DEF VoteClearOthers, HasOffer
    <3>2. "record" \in Stages  BY DEF Stages
    <3> QED  BY <1>0, <2>10, <3>1, <3>2, GotoSlot DEF VoteClearOthers, TypeOK
  <2>11. CASE VoteRecord(p)
    <3>1. req[p].target \in Users  BY <2>11 DEF VoteRecord, Attributed, About
    <3>2. part[req[p].target] \in PartRecord
      BY <2>11, <3>1, RowTypes DEF VoteRecord
    <3>3. [part[req[p].target] EXCEPT !.userVotes = req[p].userVotes,
                                      !.cycles = req[p].cycles] \in PartRecord
      BY <2>1, <3>2 DEF PartRecord
    <3>4. part' \in [Users -> PartRecord \cup {NULL}]
      BY <1>0, <2>11, <3>1, <3>3 DEF VoteRecord
    <3>5. Leave(p) \/ \E stage \in Stages : Goto(p, stage)
      BY <2>11 DEF VoteRecord, Stages
    <3> QED  BY <1>0, <2>11, <3>4, <3>5, LeaveSlot, GotoSlot DEF VoteRecord, TypeOK
  <2>12. CASE VoteResetTimer(p)
    <3>1. req[p].by \in Users  BY <2>12 DEF VoteResetTimer, Attributed
    <3>2. part' \in [Users -> PartRecord \cup {NULL}]
      BY <1>0, <2>12, <3>1, RowTypes, WriteRow DEF VoteResetTimer
    <3>3. Leave(p) \/ \E stage \in Stages : Goto(p, stage)
      BY <2>12 DEF VoteResetTimer, Stages
    <3> QED  BY <1>0, <2>12, <3>2, <3>3, LeaveSlot, GotoSlot
             DEF VoteResetTimer, TypeOK
  <2>13. CASE VoteAccept(p)
    <3>1. req[p].target \in Users  BY <2>13 DEF VoteAccept, Attributed, About
    <3>2. part' \in [Users -> PartRecord \cup {NULL}]
      BY <2>13, <3>1, RowTypes, WriteRow DEF VoteAccept
    <3>3. bid' \in BidRecord  BY <1>0, <2>1, <2>13, PricedType DEF VoteAccept
    <3> QED  BY <1>0, <2>13, <3>2, <3>3, LeaveSlot DEF VoteAccept, TypeOK
  <2>14. CASE ResolveRead(p)
    <3>1. req[p].target \in Users  BY <2>14 DEF ResolveRead, Attributed, About
    <3>2. /\ part[req[p].target] \in PartRecord
          /\ part[req[p].target].createdRateAt \in Nat
      BY <2>14, <3>1, RowTypes DEF ResolveRead, Expired, HasOffer, OffersTimed
    <3>3. [req[p] EXCEPT !.at = "claim", !.amount = part[req[p].target].rate,
                         !.stamp = part[req[p].target].createdRateAt]
          \in ReqRecord
      BY <2>0, <3>2 DEF ReqRecord, PartRecord, Stages
    <3>4. req' \in [Reqs -> ReqRecord]  BY <1>0, <2>14, <3>3 DEF ResolveRead
    <3> QED  BY <1>0, <2>14, <3>4 DEF ResolveRead, TypeOK
  <2>15. CASE ResolveClaim(p)
    <3>1. req[p].target \in Users  BY <2>15 DEF ResolveClaim, Attributed, About
    <3>2. part' \in [Users -> PartRecord \cup {NULL}]
      BY <2>15, <3>1, RowTypes, WriteRow DEF ResolveClaim, Claimable, HasOffer
    <3>3. Leave(p) \/ \E stage \in Stages : Goto(p, stage)
      BY <2>15 DEF ResolveClaim, Stages
    <3> QED  BY <1>0, <2>15, <3>2, <3>3, LeaveSlot, GotoSlot
             DEF ResolveClaim, TypeOK
  <2>16. CASE ResolveApply(p)
    BY <1>0, <2>1, <2>16, PricedType, LeaveSlot DEF ResolveApply, TypeOK
  <2>17. CASE ArchiveWrite(p)
    <3>1. bid' \in BidRecord  BY <1>0, <2>1, <2>17 DEF ArchiveWrite, BidRecord
    <3> QED  BY <1>0, <2>17, <3>1, LeaveSlot DEF ArchiveWrite, TypeOK
  <2>18. CASE PurgeWrite(p)
    BY <1>0, <1>3, <2>18, LeaveSlot DEF PurgeWrite, TypeOK
  <2>19. CASE Fail(p)  BY <1>0, <2>19, LeaveSlot DEF Fail, TypeOK
  <2> QED  BY <1>8, <2>2, <2>3, <2>4, <2>5, <2>6, <2>7, <2>8, <2>9, <2>10,
              <2>11, <2>12, <2>13, <2>14, <2>15, <2>16, <2>17, <2>18, <2>19
           DEF Proceed
<1> QED  BY <1>1, <1>2, <1>4, <1>5, <1>6, <1>8 DEF Next

-----------------------------------------------------------------------------
(* What a step does to a request.                                          *)

Untouched == UNCHANGED <<bid, part, now>>

VoteStages ==
  {"vote", "voteLock", "reject", "clearOthers", "record", "resetTimer", "accept"}

\* The request in slot q has just come in, with what it read.
Began(q) ==
  /\ req[q].at = "idle" /\ Untouched
  /\ req'[q].start = now
  /\ \/ /\ req'[q].at \in {"join", "price"}
        /\ req'[q].stamp = now /\ req'[q].by \in Users
     \/ /\ req'[q].at = "archive"
        /\ req'[q].stamp = now /\ bid.updatedAt + ArchiveIdle < now
     \/ /\ req'[q].at = "extendBid" /\ req'[q].by \in Users
        /\ Live /\ Extensible(bid) /\ req'[q].stamp = bid.updatedAt + Timer
     \/ /\ req'[q].at = "extendPart" /\ req'[q].by \in Users
        /\ req'[q].target \in Users
        /\ Row(req'[q].target) /\ Extensible(part[req'[q].target])
        /\ req'[q].stamp = part[req'[q].target].updatedAt + Timer
     \/ /\ req'[q].at \in {"vote", "voteLock"}
        /\ req'[q].by \in Users /\ req'[q].target \in Users
     \/ req'[q].at = "resolve" /\ req'[q].target \in Users
     \/ req'[q].at = "purge"
  /\ q \in Cron => req'[q].at \in CronWork

\* The check that a price passes between two stages.
PriceChecked(q) ==
  /\ Untouched
  /\ \/ /\ req[q].at = "price" /\ req'[q].at = "plusOne"
        /\ Cardinality(ActiveOffers) < MaxOffers
     \/ req[q].at = "plusOne" /\ req'[q].at \in {"ownOffer", "setRate"}
     \/ req[q].at = "ownOffer" /\ req'[q].at = "min"
     \/ /\ req[q].at = "min" /\ req'[q].at = "snapshot"
        /\ \A v \in ActiveOffers : req[q].amount < part[v].rate
     \/ req[q].at = "snapshot" /\ req'[q].at = "offer"

\* The request goes on with what it knows.
Advanced(q) ==
  /\ req'[q].start = req[q].start /\ req'[q].stamp = req[q].stamp
  /\ req'[q].by = req[q].by /\ req'[q].target = req[q].target
  /\ req'[q].amount = req[q].amount
  /\ \/ PriceChecked(q)
     \/ req[q].at \in VoteStages /\ req'[q].at \in VoteStages
     \/ ResolveClaim(q) /\ req'[q].at = "apply"

\* The request has read the expired offer it will claim.
OfferRead(q) ==
  /\ ResolveRead(q)
  /\ req'[q].start = req[q].start /\ req'[q].target = req[q].target
  /\ req'[q].at = "claim"
  /\ req'[q].amount = part[req[q].target].rate
  /\ req'[q].stamp = part[req[q].target].createdRateAt

Moved(q) ==
  \/ req'[q] = req[q]
  \/ req'[q] = Idle
  \/ Began(q)
  \/ Advanced(q)
  \/ OfferRead(q)

\* A new request keeps the fields it comes with, except its start.
LEMMA EnterFields ==
  ASSUME TypeInv, NEW p \in Reqs, NEW r \in ReqRecord, Enter(p, r)
  PROVE  /\ req[p].at = "idle" /\ req'[p].start = now
         /\ req'[p].at = r.at /\ req'[p].stamp = r.stamp
         /\ req'[p].by = r.by /\ req'[p].target = r.target
         /\ p \in Cron => r.at \in CronWork
         /\ \A q \in Reqs : q # p => req'[q] = req[q]
<1>1. /\ req'[p] = [r EXCEPT !.start = now]
      /\ \A q \in Reqs : q # p => req'[q] = req[q]
      /\ req[p].at = "idle"
      /\ p \in Cron => r.at \in CronWork
  BY EnterSlot DEF TypeInv
<1> QED  BY <1>1 DEF ReqRecord

\* A request comes in.
LEMMA BeginStep ==
  ASSUME TypeInv, NEW p \in Reqs, Begin(p)
  PROVE  Began(p) /\ \A q \in Reqs : q # p => req'[q] = req[q]
<1> DEFINE Goal == Began(p) /\ \A q \in Reqs : q # p => req'[q] = req[q]
<1>1. ASSUME NEW u \in Users, JoinBegin(p, u)  PROVE Goal
  <2> DEFINE r == [Idle EXCEPT !.at = "join", !.by = u, !.stamp = now,
                             !.accept = Row(u)]
  <2>1. Enter(p, r)  BY <1>1 DEF JoinBegin
  <2>2. r \in ReqRecord
    <3>1. Row(u) \in BOOLEAN  BY DEF Row
    <3> QED  BY <3>1, StartTypes
  <2>3. r.at = "join" /\ r.by = u /\ r.stamp = now  BY DEF Idle
  <2> HIDE DEF r
  <2> QED  BY <1>1, <2>1, <2>2, <2>3, EnterFields DEF JoinBegin, Began, Untouched
<1>2. ASSUME NEW u \in Users, ExtendPartBegin(p, u)  PROVE Goal
  <2>1. PICK who \in {u, Owner} :
          Enter(p, [Idle EXCEPT !.at = "extendPart", !.by = who, !.target = u,
                                !.stamp = part[u].updatedAt + Timer])
    BY <1>2 DEF ExtendPartBegin
  <2> DEFINE r == [Idle EXCEPT !.at = "extendPart", !.by = who, !.target = u,
                               !.stamp = part[u].updatedAt + Timer]
  <2>2. r \in ReqRecord  BY <1>2, StartTypes DEF ExtendPartBegin
  <2>3. /\ r.at = "extendPart" /\ r.by = who /\ r.target = u
        /\ r.stamp = part[u].updatedAt + Timer
    BY DEF Idle
  <2>4. Enter(p, r)  BY <2>1
  <2> HIDE DEF r
  <2> QED  BY <1>2, <2>2, <2>3, <2>4, EnterFields
           DEF ExtendPartBegin, Began, Untouched
<1>3. ASSUME NEW u \in Users, ResolveBegin(p, u)  PROVE Goal
  <2> DEFINE r == [Idle EXCEPT !.at = "resolve", !.target = u, !.base = bid.rate]
  <2>1. Enter(p, r)  BY <1>3 DEF ResolveBegin
  <2>2. r \in ReqRecord  BY <1>3, StartTypes DEF ResolveBegin
  <2>3. r.at = "resolve" /\ r.target = u  BY DEF Idle
  <2> HIDE DEF r
  <2> QED  BY <1>3, <2>1, <2>2, <2>3, EnterFields DEF ResolveBegin, Began, Untouched
<1>4. ASSUME NEW u \in Users, NEW a \in Rates, PriceBegin(p, u, a)
      PROVE  Goal
  <2> DEFINE r == [Idle EXCEPT !.at = "price", !.by = u, !.target = u,
                             !.amount = a, !.base = bid.rate, !.stamp = now]
  <2>1. Enter(p, r)  BY <1>4 DEF PriceBegin
  <2>2. r \in ReqRecord  BY <1>4, StartTypes DEF PriceBegin
  <2>3. r.at = "price" /\ r.by = u /\ r.stamp = now  BY DEF Idle
  <2> HIDE DEF r
  <2> QED  BY <1>4, <2>1, <2>2, <2>3, EnterFields DEF PriceBegin, Began, Untouched
<1>5. ASSUME NEW v \in Users, NEW u \in Users, NEW b \in BOOLEAN,
             VoteBegin(p, v, u, b)
      PROVE  Goal
  <2> DEFINE stage == IF v = Owner THEN "voteLock" ELSE "vote"
             r == [Idle EXCEPT
                    !.at = stage, !.by = v, !.target = u, !.amount = part[u].rate,
                    !.accept = b, !.stamp = part[u].createdRateAt,
                    !.cycles = part[u].cycles,
                    !.userVotes = [part[u].userVotes EXCEPT ![v] = "yes"]]
  <2>1. stage \in {"vote", "voteLock"}  OBVIOUS
  <2>2. Enter(p, r)  BY <1>5 DEF VoteBegin
  <2>3. HasOffer(u)  BY <1>5 DEF VoteBegin, IsFresh
  <2> HIDE DEF stage
  <2>4. r \in ReqRecord  BY <2>1, <2>3, VoteStartType
  <2>5. r.at = stage /\ r.by = v /\ r.target = u  BY DEF Idle
  <2> HIDE DEF r
  <2> QED  BY <1>5, <2>1, <2>2, <2>4, <2>5, EnterFields
           DEF VoteBegin, Began, Untouched
<1>6. CASE ExtendBidBegin(p)
  <2> DEFINE r == [Idle EXCEPT !.at = "extendBid", !.by = Owner,
                             !.stamp = bid.updatedAt + Timer]
  <2>1. Enter(p, r)  BY <1>6 DEF ExtendBidBegin
  <2>2. r \in ReqRecord  BY <1>6, StartTypes DEF ExtendBidBegin
  <2>3. r.at = "extendBid" /\ r.by = Owner /\ r.stamp = bid.updatedAt + Timer  BY DEF Idle
  <2> HIDE DEF r
  <2> QED  BY <1>6, <2>1, <2>2, <2>3, EnterFields DEF ExtendBidBegin, Began, Untouched
<1>7. CASE ArchiveRead(p)
  <2> DEFINE r == [Idle EXCEPT !.at = "archive", !.stamp = now]
  <2>1. Enter(p, r)  BY <1>7 DEF ArchiveRead
  <2>2. r \in ReqRecord  BY <1>7, StartTypes DEF ArchiveRead
  <2>3. r.at = "archive" /\ r.stamp = now  BY DEF Idle
  <2> HIDE DEF r
  <2> QED  BY <1>7, <2>1, <2>2, <2>3, EnterFields DEF ArchiveRead, Began, Untouched
<1>8. CASE PurgeRead(p)
  <2> DEFINE r == [Idle EXCEPT !.at = "purge"]
  <2>1. Enter(p, r)  BY <1>8 DEF PurgeRead
  <2>2. r \in ReqRecord  BY <1>8, StartTypes DEF PurgeRead
  <2>3. r.at = "purge"  BY DEF Idle
  <2> HIDE DEF r
  <2> QED  BY <1>8, <2>1, <2>2, <2>3, EnterFields DEF PurgeRead, Began, Untouched
<1> QED  BY <1>1, <1>2, <1>3, <1>4, <1>5, <1>6, <1>7, <1>8 DEF Begin

\* A request goes on or ends.
LEMMA ProceedStep ==
  ASSUME TypeInv, NEW p \in Reqs, Proceed(p)
  PROVE  /\ req'[p] = Idle \/ Advanced(p) \/ OfferRead(p)
         /\ \A q \in Reqs : q # p => req'[q] = req[q]
<1> USE DEF TypeInv
<1> DEFINE Others == \A q \in Reqs : q # p => req'[q] = req[q]
<1>0. req \in [Reqs -> ReqRecord] /\ req[p] \in ReqRecord  BY DEF TypeOK
<1>1. ASSUME NEW stage \in Stages, Goto(p, stage)
      PROVE  /\ Others
             /\ req'[p].at = stage
             /\ req'[p].start = req[p].start /\ req'[p].stamp = req[p].stamp
             /\ req'[p].by = req[p].by /\ req'[p].target = req[p].target
             /\ req'[p].amount = req[p].amount
  <2>1. /\ req'[p] = [req[p] EXCEPT !.at = stage]
        /\ Others
    BY <1>1, GotoSlot
  <2> QED  BY <1>0, <2>1 DEF ReqRecord
<1>2. ASSUME Leave(p)  PROVE req'[p] = Idle /\ Others
  BY <1>2, LeaveSlot
<1>3. CASE PriceCount(p)
  BY <1>1, <1>3 DEF PriceCount, Advanced, PriceChecked, Untouched, Stages
<1>4. CASE PricePlusOne(p)
  <2>1. \/ Goto(p, "ownOffer")
        \/ Goto(p, "setRate")
    BY <1>4 DEF PricePlusOne
  <2> QED  BY <1>1, <1>4, <2>1
           DEF PricePlusOne, Advanced, PriceChecked, Untouched, Stages
<1>5. CASE PriceOwnOffer(p)
  BY <1>1, <1>5 DEF PriceOwnOffer, Advanced, PriceChecked, Untouched, Stages
<1>6. CASE PriceMin(p)
  BY <1>1, <1>6 DEF PriceMin, Advanced, PriceChecked, Untouched, Stages
<1>7. CASE PriceSnapshot(p)
  <2>1. PICK w, c : req' = [req EXCEPT ![p] = [@ EXCEPT !.at = "offer",
                                                        !.userVotes = w,
                                                        !.cycles = c]]
    BY <1>7 DEF PriceSnapshot
  <2>2. req'[p] = [req[p] EXCEPT !.at = "offer", !.userVotes = w, !.cycles = c]
    BY <1>0, <2>1
  <2>3. Others  BY <1>0, <2>1
  <2>4. /\ req'[p].at = "offer"
        /\ req'[p].start = req[p].start /\ req'[p].stamp = req[p].stamp
        /\ req'[p].by = req[p].by /\ req'[p].target = req[p].target
        /\ req'[p].amount = req[p].amount
    BY <1>0, <2>2 DEF ReqRecord
  <2> QED  BY <1>7, <2>3, <2>4
           DEF PriceSnapshot, Advanced, PriceChecked, Untouched
<1>8. CASE \/ VotePlusOne(p) \/ VoteLock(p) \/ VoteClearOthers(p)
           \/ VoteRecord(p) \/ VoteResetTimer(p)
  <2>1. req[p].at \in VoteStages
    BY <1>8 DEF VotePlusOne, VoteLock, VoteClearOthers, VoteRecord,
                VoteResetTimer, VoteStages
  <2>2. Leave(p) \/ \E stage \in VoteStages : Goto(p, stage)
    BY <1>8 DEF VotePlusOne, VoteLock, VoteClearOthers, VoteRecord,
                VoteResetTimer, VoteStages
  <2>3. VoteStages \subseteq Stages  BY DEF VoteStages, Stages
  <2> QED  BY <1>1, <1>2, <2>1, <2>2, <2>3 DEF Advanced
<1>9. CASE ResolveClaim(p)
  <2>1. Leave(p) \/ Goto(p, "apply")  BY <1>9 DEF ResolveClaim
  <2> QED  BY <1>1, <1>2, <1>9, <2>1 DEF Advanced, Stages
<1>10. CASE ResolveRead(p)
  <2>1. req'[p] = [req[p] EXCEPT !.at = "claim",
                                 !.amount = part[req[p].target].rate,
                                 !.stamp = part[req[p].target].createdRateAt]
    BY <1>0, <1>10 DEF ResolveRead
  <2>2. Others  BY <1>0, <1>10 DEF ResolveRead
  <2> QED  BY <1>0, <1>10, <2>1, <2>2 DEF OfferRead, ReqRecord
<1>11. CASE \/ JoinWrite(p) \/ ExtendBidWrite(p) \/ ExtendPartWrite(p)
            \/ PriceOffer(p) \/ PriceSetRate(p) \/ VoteReject(p)
            \/ VoteAccept(p) \/ ResolveApply(p) \/ ArchiveWrite(p)
            \/ PurgeWrite(p) \/ Fail(p)
  <2>1. Leave(p)
    BY <1>11 DEF JoinWrite, ExtendBidWrite, ExtendPartWrite, PriceOffer,
                 PriceSetRate, VoteReject, VoteAccept, ResolveApply,
                 ArchiveWrite, PurgeWrite, Fail
  <2> QED  BY <1>2, <2>1
<1> QED  BY <1>3, <1>4, <1>5, <1>6, <1>7, <1>8, <1>9, <1>10, <1>11 DEF Proceed

\* A step touches the request of one slot at most.
LEMMA RequestStep ==
  ASSUME TypeInv, [Next]_vars
  PROVE  /\ \A q \in Reqs : Moved(q)
         /\ \A p, q \in Reqs :
              p # q => req'[p] = req[p] \/ req'[q] = req[q]
<1>1. ASSUME NEW p \in Reqs, Begin(p) \/ Proceed(p)
      PROVE  /\ Moved(p)
             /\ \A q \in Reqs : q # p => req'[q] = req[q]
  BY <1>1, BeginStep, ProceedStep DEF Moved
<1>2. \/ UNCHANGED req
      \/ \E p \in Reqs : Begin(p) \/ Proceed(p)
  BY DEF Next, vars, Create, Remove, Tick
<1> QED  BY <1>1, <1>2 DEF Moved

-----------------------------------------------------------------------------
(* What a step does to the clock, the bid and the rows.                    *)

\* Only Tick moves the clock, and it leaves the rest alone.
LEMMA ClockStep ==
  ASSUME [Next]_vars
  PROVE  UNCHANGED now \/ Tick
<1>1. \A p \in Reqs : Begin(p) => UNCHANGED now
  BY DEF Begin, JoinBegin, ExtendPartBegin, ResolveBegin, PriceBegin,
         VoteBegin, ExtendBidBegin, ArchiveRead, PurgeRead
<1>2. \A p \in Reqs : Proceed(p) => UNCHANGED now
  BY DEF Proceed, JoinWrite, ExtendBidWrite, ExtendPartWrite, PriceCount,
         PricePlusOne, PriceOwnOffer, PriceMin, PriceSnapshot, PriceOffer,
         PriceSetRate, VotePlusOne, VoteLock, VoteReject, VoteClearOthers,
         VoteRecord, VoteResetTimer, VoteAccept, ResolveRead, ResolveClaim,
         ResolveApply, ArchiveWrite, PurgeWrite, Fail
<1> QED  BY <1>1, <1>2 DEF Next, vars, Create, Remove

\* The last steps that write the bid or a row.
Writes(p) ==
  \/ JoinWrite(p) \/ ExtendBidWrite(p) \/ ExtendPartWrite(p)
  \/ PriceOffer(p) \/ PriceSetRate(p) \/ VoteReject(p)
  \/ VoteClearOthers(p) \/ VoteRecord(p) \/ VoteResetTimer(p)
  \/ VoteAccept(p) \/ ResolveClaim(p) \/ ResolveApply(p)
  \/ ArchiveWrite(p)

\* The bid and its rows change when it is created or deleted, or by a request.
LEMMA WriteStep ==
  ASSUME [Next]_vars
  PROVE  \/ UNCHANGED <<bid, part>>
         \/ \E a \in Rates, dnb \in BOOLEAN : Create(a, dnb)
         \/ Delete
         \/ \E p \in Reqs : Writes(p)
<1>1. \A p \in Reqs : Begin(p) => UNCHANGED <<bid, part>>
  BY DEF Begin, JoinBegin, ExtendPartBegin, ResolveBegin, PriceBegin,
         VoteBegin, ExtendBidBegin, ArchiveRead, PurgeRead
<1>2. \A p \in Reqs : PurgeWrite(p) => Delete  BY DEF PurgeWrite
<1>3. ASSUME NEW p \in Reqs, Proceed(p)
      PROVE  UNCHANGED <<bid, part>> \/ Delete \/ Writes(p)
  <2>1. CASE \/ PriceCount(p) \/ PricePlusOne(p) \/ PriceOwnOffer(p)
             \/ PriceMin(p) \/ PriceSnapshot(p) \/ VotePlusOne(p)
             \/ VoteLock(p) \/ ResolveRead(p) \/ Fail(p)
    BY <2>1 DEF PriceCount, PricePlusOne, PriceOwnOffer, PriceMin,
                PriceSnapshot, VotePlusOne, VoteLock, ResolveRead, Fail
  <2>2. CASE PurgeWrite(p)  BY <1>2, <2>2
  <2>3. CASE Writes(p)  BY <2>3
  <2> QED  BY <1>3, <2>1, <2>2, <2>3 DEF Proceed, Writes
<1> QED  BY <1>1, <1>3 DEF Next, vars, Remove, Tick

\* A time the row of the bid or of a participant is restarted with.
Recent(t) == t \in Nat /\ t <= now /\ now <= t + Stall

\* The stamp of a request that restarts a timer is recent.
LEMMA RecentStamp ==
  ASSUME TypeInv, Timed, NEW p \in Reqs,
         req[p].at \in Pricing \cup {"join", "archive"}
  PROVE  Recent(req[p].stamp)
<1>1. req[p] \in ReqRecord /\ now \in Nat  BY DEF TypeInv, TypeOK
<1>2. req[p].start \in Nat  BY <1>1 DEF ReqRecord
<1>3. req[p].at # "idle"  BY DEF Pricing
<1> QED  BY <1>1, <1>2, <1>3 DEF Timed, Recent

\* The current time is recent.
LEMMA RecentNow ==
  ASSUME TypeInv
  PROVE  Recent(now)
BY DEF TypeInv, TypeOK, Recent

\* The cycle of the bid starts again, or its timer is extended or archived.
LEMMA BidStep ==
  ASSUME TypeInv, Timed, [Next]_vars
  PROVE  \/ UNCHANGED bid
         \/ ~Live'
         \/ \E t : Recent(t) /\ bid'.createdAt = t /\ bid'.updatedAt = t
         \/ \E p \in Reqs :
              /\ req[p].at = "extendBid" /\ Live
              /\ bid'.createdAt = bid.createdAt
              /\ bid'.updatedAt = req[p].stamp
              /\ bid'.isArchive = bid.isArchive
         \/ \E p \in Reqs :
              /\ req[p].at = "archive" /\ Live
              /\ bid'.createdAt = bid.createdAt
              /\ bid'.updatedAt = req[p].stamp
              /\ bid'.isArchive
<1> DEFINE Restart ==
             \E t : Recent(t) /\ bid'.createdAt = t /\ bid'.updatedAt = t
<1>0. bid \in BidRecord  BY DEF TypeInv, TypeOK
<1>1. ASSUME NEW a \in Rates, NEW dnb \in BOOLEAN, Create(a, dnb)
      PROVE  Restart
  BY <1>1, RecentNow DEF Create
<1>2. ASSUME Delete  PROVE ~Live'
  BY <1>2 DEF Delete, NoBid, Live
<1>3. \A a, t : Priced(a, t).createdAt = t /\ Priced(a, t).updatedAt = t
  BY <1>0 DEF Priced, BidRecord
<1>4. ASSUME NEW p \in Reqs, PriceSetRate(p)  PROVE Restart
  <2>1. Recent(req[p].stamp)
    BY <1>4, RecentStamp DEF PriceSetRate, Pricing
  <2> QED  BY <1>3, <1>4, <2>1 DEF PriceSetRate
<1>5. ASSUME NEW p \in Reqs, VoteAccept(p) \/ ResolveApply(p)  PROVE Restart
  BY <1>3, <1>5, RecentNow DEF VoteAccept, ResolveApply
<1>6. ASSUME NEW p \in Reqs, ExtendBidWrite(p)
      PROVE  /\ req[p].at = "extendBid" /\ Live
             /\ bid'.createdAt = bid.createdAt
             /\ bid'.updatedAt = req[p].stamp
             /\ bid'.isArchive = bid.isArchive
  BY <1>0, <1>6 DEF ExtendBidWrite, BidRecord
<1>7. ASSUME NEW p \in Reqs, ArchiveWrite(p)
      PROVE  /\ req[p].at = "archive" /\ Live
             /\ bid'.createdAt = bid.createdAt
             /\ bid'.updatedAt = req[p].stamp
             /\ bid'.isArchive
  BY <1>0, <1>7 DEF ArchiveWrite, BidRecord
<1>8. ASSUME NEW p \in Reqs,
             \/ JoinWrite(p) \/ ExtendPartWrite(p) \/ PriceOffer(p)
             \/ VoteReject(p) \/ VoteClearOthers(p) \/ VoteRecord(p)
             \/ VoteResetTimer(p) \/ ResolveClaim(p)
      PROVE  UNCHANGED bid
  BY <1>8 DEF JoinWrite, ExtendPartWrite, PriceOffer, VoteReject,
              VoteClearOthers, VoteRecord, VoteResetTimer, ResolveClaim
<1> HIDE DEF Restart
<1>9. ASSUME NEW p \in Reqs, Writes(p)
      PROVE  UNCHANGED bid \/ Restart \/ ExtendBidWrite(p) \/ ArchiveWrite(p)
  BY <1>4, <1>5, <1>8, <1>9 DEF Writes
<1>10. \/ UNCHANGED bid \/ ~Live' \/ Restart
       \/ \E p \in Reqs : ExtendBidWrite(p) \/ ArchiveWrite(p)
  BY WriteStep, <1>1, <1>2, <1>9
<1> QED  BY <1>6, <1>7, <1>10 DEF Restart

\* What a step does to the row of one user.
SameTimer(u) ==
  /\ Row(u)
  /\ part'[u].createdAt = part[u].createdAt
  /\ part'[u].updatedAt = part[u].updatedAt

SameOffer(u) ==
  /\ HasOffer(u)
  /\ part'[u].rate = part[u].rate
  /\ part'[u].createdRateAt = part[u].createdRateAt

TimerRestarted(u) ==
  \E t : Recent(t) /\ part'[u].createdAt = t /\ part'[u].updatedAt = t

TimerExtended(u) ==
  \E p \in Reqs :
    /\ req[p].at = "extendPart" /\ req[p].target = u /\ Row(u)
    /\ part'[u].createdAt = part[u].createdAt
    /\ part'[u].updatedAt = req[p].stamp

OfferWritten(u) ==
  \E p \in Reqs :
    /\ PriceOffer(p) /\ req[p].by = u
    /\ part'[u].rate = req[p].amount
    /\ part'[u].createdRateAt = req[p].stamp

\* A row keeps its timer, restarts it or extends it; its offer stays, goes or
\* is a new one.
LEMMA RowStep ==
  ASSUME TypeInv, Timed, [Next]_vars, NEW u \in Users
  PROVE  /\ ~Row(u)' \/ SameTimer(u) \/ TimerRestarted(u) \/ TimerExtended(u)
         /\ ~HasOffer(u)' \/ SameOffer(u) \/ OfferWritten(u)
<1> DEFINE Goal ==
      /\ ~Row(u)' \/ SameTimer(u) \/ TimerRestarted(u) \/ TimerExtended(u)
      /\ ~HasOffer(u)' \/ SameOffer(u) \/ OfferWritten(u)
<1>0. part \in [Users -> PartRecord \cup {NULL}]  BY DEF TypeInv, TypeOK
<1>1. ASSUME part'[u] = part[u]  PROVE Goal
  BY <1>1 DEF SameTimer, SameOffer, Row, HasOffer
<1>2. \A t : /\ Joined(t).createdAt = t /\ Joined(t).updatedAt = t
             /\ Joined(t).rate = NULL
  BY DEF Joined
<1>3. ASSUME Row(u)
      PROVE  /\ part[u] \in PartRecord
             /\ \A t : /\ Restarted(u, t).createdAt = t
                       /\ Restarted(u, t).updatedAt = t
                       /\ Restarted(u, t).rate = part[u].rate
                       /\ Restarted(u, t).createdRateAt = part[u].createdRateAt
             /\ Cleared(u).createdAt = part[u].createdAt
             /\ Cleared(u).updatedAt = part[u].updatedAt
             /\ Cleared(u).rate = NULL
  <2>1. part[u] \in PartRecord  BY <1>3, RowTypes DEF TypeInv
  <2> QED  BY <2>1 DEF PartRecord, Restarted, Cleared
<1>4. ASSUME Row(u), part'[u] = Cleared(u)  PROVE Goal
  BY <1>3, <1>4 DEF SameTimer, HasOffer
<1>5. ASSUME Row(u), NEW t, Recent(t), part'[u] = Restarted(u, t)  PROVE Goal
  BY <1>3, <1>5 DEF TimerRestarted, SameOffer, HasOffer, Row
<1>6. ASSUME NEW t, Recent(t), part'[u] = Joined(t)  PROVE Goal
  BY <1>2, <1>6 DEF TimerRestarted, HasOffer
<1>7. ASSUME NEW a \in Rates, NEW dnb \in BOOLEAN, Create(a, dnb)  PROVE Goal
  <2>1. part' = [part EXCEPT ![Owner] = Joined(now)]  BY <1>7 DEF Create
  <2> QED  BY <1>0, <1>1, <1>6, <2>1, RecentNow
<1>8. ASSUME Delete  PROVE Goal
  BY <1>8 DEF Delete, Row, HasOffer
<1>9. ASSUME NEW p \in Reqs,
             PriceSetRate(p) \/ ExtendBidWrite(p) \/ ResolveApply(p)
               \/ ArchiveWrite(p)
      PROVE  Goal
  BY <1>1, <1>9 DEF PriceSetRate, ExtendBidWrite, ResolveApply, ArchiveWrite
<1>10. ASSUME NEW p \in Reqs, JoinWrite(p)  PROVE Goal
  <2>1. Recent(req[p].stamp)  BY <1>10, RecentStamp DEF JoinWrite
  <2>2. PICK w \in Users :
          /\ w = req[p].by
          /\ \/ /\ Row(w) /\ part' = [part EXCEPT ![w] = Restarted(w, req[p].stamp)]
             \/ part' = [part EXCEPT ![w] = Joined(req[p].stamp)]
    BY <1>10 DEF JoinWrite, TypeInv, Attributed
  <2> QED  BY <1>0, <1>1, <1>5, <1>6, <2>1, <2>2
<1>11. ASSUME NEW p \in Reqs, ExtendPartWrite(p)  PROVE Goal
  <2>1. CASE req[p].target # u
    BY <1>0, <1>1, <1>11, <2>1 DEF ExtendPartWrite
  <2>2. CASE req[p].target = u
    <3>1. Row(u) /\ part'[u] = [part[u] EXCEPT !.updatedAt = req[p].stamp]
      BY <1>0, <1>11, <2>2 DEF ExtendPartWrite
    <3>2. /\ part'[u].createdAt = part[u].createdAt
          /\ part'[u].updatedAt = req[p].stamp
          /\ part'[u].rate = part[u].rate
          /\ part'[u].createdRateAt = part[u].createdRateAt
      BY <1>3, <3>1 DEF PartRecord
    <3> QED  BY <1>11, <2>2, <3>1, <3>2
             DEF ExtendPartWrite, TimerExtended, SameOffer, HasOffer
  <2> QED  BY <2>1, <2>2
<1>12. ASSUME NEW p \in Reqs, PriceOffer(p)  PROVE Goal
  <2>1. CASE req[p].by # u
    BY <1>0, <1>1, <1>12, <2>1 DEF PriceOffer
  <2>2. CASE req[p].by = u
    <3>1. /\ Row(u)
          /\ part'[u] = [part[u] EXCEPT
                           !.rate = req[p].amount, !.createdRateAt = req[p].stamp,
                           !.userVotes = req[p].userVotes, !.cycles = req[p].cycles]
      BY <1>0, <1>12, <2>2 DEF PriceOffer
    <3>2. /\ part'[u].createdAt = part[u].createdAt
          /\ part'[u].updatedAt = part[u].updatedAt
          /\ part'[u].rate = req[p].amount
          /\ part'[u].createdRateAt = req[p].stamp
      BY <1>3, <3>1 DEF PartRecord
    <3> QED  BY <1>12, <2>2, <3>1, <3>2 DEF SameTimer, OfferWritten
  <2> QED  BY <2>1, <2>2
<1>13. ASSUME NEW p \in Reqs, VoteReject(p) \/ VoteAccept(p) \/ ResolveClaim(p)
       PROVE  Goal
  <2>1. PICK w : Row(w) /\ part' = [part EXCEPT ![w] = Cleared(w)]
    BY <1>13 DEF VoteReject, VoteAccept, ResolveClaim, Claimable, HasOffer
  <2> QED  BY <1>0, <1>1, <1>4, <2>1
<1>14. ASSUME NEW p \in Reqs, VoteClearOthers(p)  PROVE Goal
  <2>1. part'[u] = part[u] \/ (Row(u) /\ part'[u] = Cleared(u))
    BY <1>14 DEF VoteClearOthers, HasOffer
  <2> QED  BY <1>1, <1>4, <2>1
<1>15. ASSUME NEW p \in Reqs, VoteRecord(p)  PROVE Goal
  <2>1. CASE req[p].target # u
    BY <1>0, <1>1, <1>15, <2>1 DEF VoteRecord
  <2>2. CASE req[p].target = u
    <3>1. /\ Row(u)
          /\ part'[u] = [part[u] EXCEPT !.userVotes = req[p].userVotes,
                                        !.cycles = req[p].cycles]
      BY <1>0, <1>15, <2>2 DEF VoteRecord
    <3>2. /\ part'[u].createdAt = part[u].createdAt
          /\ part'[u].updatedAt = part[u].updatedAt
          /\ part'[u].rate = part[u].rate
          /\ part'[u].createdRateAt = part[u].createdRateAt
      BY <1>3, <3>1 DEF PartRecord
    <3> QED  BY <3>1, <3>2 DEF SameTimer, SameOffer, HasOffer
  <2> QED  BY <2>1, <2>2
<1>16. ASSUME NEW p \in Reqs, VoteResetTimer(p)  PROVE Goal
  <2>1. PICK w : Row(w) /\ part' = [part EXCEPT ![w] = Restarted(w, now)]
    BY <1>16 DEF VoteResetTimer
  <2> QED  BY <1>0, <1>1, <1>5, <2>1, RecentNow
<1> HIDE DEF Goal
<1>17. ASSUME NEW p \in Reqs, Writes(p)  PROVE Goal
  BY <1>9, <1>10, <1>11, <1>12, <1>13, <1>14, <1>15, <1>16, <1>17 DEF Writes
<1>18. Goal  BY WriteStep, <1>1, <1>7, <1>8, <1>17
<1> QED  BY <1>18 DEF Goal

-----------------------------------------------------------------------------
(* Types and times.                                                        *)

\* Requests stay attributed.
LEMMA AttributedStep ==
  ASSUME TypeInv, [Next]_vars
  PROVE  Attributed'
<1> SUFFICES ASSUME NEW q \in Reqs
             PROVE  /\ req'[q].at \notin {"idle", "resolve", "claim", "apply",
                                          "archive", "purge"}
                         => req'[q].by \in Users
                    /\ req'[q].at \in About => req'[q].target \in Users
  BY DEF Attributed
<1>0. /\ req[q].at \notin {"idle", "resolve", "claim", "apply", "archive", "purge"}
            => req[q].by \in Users
      /\ req[q].at \in About => req[q].target \in Users
  BY DEF TypeInv, Attributed
<1>1. CASE req'[q] = req[q]  BY <1>0, <1>1
<1>2. CASE req'[q] = Idle  BY <1>2 DEF Idle, About
<1>3. CASE Began(q)  BY <1>3 DEF Began, About
<1>4. CASE Advanced(q)
  <2>1. CASE PriceChecked(q)  BY <1>0, <1>4, <2>1 DEF Advanced, PriceChecked, About
  <2>2. CASE req[q].at \in VoteStages /\ req'[q].at \in VoteStages
    BY <1>0, <1>4, <2>2 DEF Advanced, VoteStages, About
  <2>3. CASE ResolveClaim(q) /\ req'[q].at = "apply"
    BY <1>0, <1>4, <2>3 DEF Advanced, ResolveClaim, About
  <2> QED  BY <1>4, <2>1, <2>2, <2>3 DEF Advanced
<1>5. CASE OfferRead(q)  BY <1>0, <1>5 DEF OfferRead, ResolveRead, About
<1> QED  BY <1>1, <1>2, <1>3, <1>4, <1>5, RequestStep DEF Moved

\* Types and times are an inductive invariant.
LEMMA TimedInitially ==
  ASSUME Init
  PROVE  TypeInv /\ Timed
<1>1. Idle \in ReqRecord /\ NoBid \in BidRecord
  BY DEF Idle, ReqRecord, Stages, Votes, Cycles, NoVotes, NoCycles, NoBid,
         BidRecord
<1>2. TypeOK  BY <1>1 DEF Init, TypeOK
<1>3. \A p \in Reqs : req[p] = Idle  BY DEF Init
<1>4. \A u \in Users : ~Row(u) /\ ~HasOffer(u)  BY DEF Init, Row, HasOffer
<1>5. ~Live  BY DEF Init, NoBid, Live
<1>6. TypeInv  BY <1>2, <1>3, <1>4 DEF TypeInv, OffersTimed, Attributed, Idle, About
<1>7. Timed  BY <1>3, <1>4, <1>5 DEF Timed, Idle, Pricing
<1> QED  BY <1>6, <1>7

\* What a request knows of the time stays true.
LEMMA RequestTimed ==
  ASSUME TypeInv, Timed, [Next]_vars, NEW q \in Reqs
  PROVE  /\ req'[q].at # "idle" =>
              req'[q].start <= now' /\ now' <= req'[q].start + Stall
         /\ req'[q].at \in Pricing \cup {"join", "archive"} =>
              req'[q].stamp = req'[q].start
         /\ req'[q].at \in {"extendBid", "extendPart"} =>
              /\ req'[q].start < req'[q].stamp
              /\ req'[q].stamp <= req'[q].start + MaxExtend
<1>0. /\ req[q] \in ReqRecord /\ now \in Nat /\ bid \in BidRecord
  BY DEF TypeInv, TypeOK
<1>1. /\ req[q].start \in Nat /\ req[q].stamp \in Nat
      /\ bid.createdAt \in Nat /\ bid.updatedAt \in Nat
  BY <1>0 DEF ReqRecord, BidRecord
<1>2. /\ req[q].at # "idle" =>
            req[q].start <= now /\ now <= req[q].start + Stall
      /\ req[q].at \in Pricing \cup {"join", "archive"} =>
           req[q].stamp = req[q].start
      /\ req[q].at \in {"extendBid", "extendPart"} =>
           req[q].start < req[q].stamp /\ req[q].stamp <= req[q].start + MaxExtend
  BY DEF Timed
<1>3. CASE Tick
  <2>1. req' = req /\ now' = now + 1  BY <1>3 DEF Tick
  <2>2. req[q].at # "idle" => now < req[q].start + Stall  BY <1>3 DEF Tick
  <2> QED  BY <1>0, <1>1, <1>2, <2>1, <2>2
<1>4. CASE now' = now
  <2>1. CASE req'[q] = req[q]  BY <1>2, <1>4, <2>1
  <2>2. CASE req'[q] = Idle  BY <2>2 DEF Idle, Pricing
  <2>3. CASE Began(q)
    <3>1. /\ req'[q].start = now
          /\ req'[q].at \in Pricing \cup {"join", "archive"} =>
               req'[q].stamp = now
      BY <2>3 DEF Began, Pricing
    <3>2. ASSUME req'[q].at = "extendBid"
          PROVE  now < req'[q].stamp /\ req'[q].stamp <= now + MaxExtend
      <4>1. /\ Live /\ Extensible(bid)
            /\ req'[q].stamp = bid.updatedAt + Timer
        BY <2>3, <3>2 DEF Began
      <4>2. bid.createdAt <= now  BY <4>1 DEF Timed
      <4> QED  BY <1>0, <1>1, <4>1, <4>2 DEF Extensible
    <3>3. ASSUME req'[q].at = "extendPart"
          PROVE  now < req'[q].stamp /\ req'[q].stamp <= now + MaxExtend
      <4>1. PICK u \in Users :
              /\ Row(u) /\ Extensible(part[u])
              /\ req'[q].stamp = part[u].updatedAt + Timer
        BY <2>3, <3>3 DEF Began
      <4>2. part[u].createdAt <= now  BY <4>1 DEF Timed
      <4>3. part[u].createdAt \in Nat /\ part[u].updatedAt \in Nat
        BY <4>1, RowTypes DEF TypeInv, PartRecord
      <4> QED  BY <1>0, <4>1, <4>2, <4>3 DEF Extensible
    <3> QED  BY <1>0, <1>4, <3>1, <3>2, <3>3
  <2>4. CASE Advanced(q)
    <3>1. CASE PriceChecked(q)
      BY <1>2, <1>4, <2>4, <3>1 DEF Advanced, PriceChecked, Pricing
    <3>2. CASE req[q].at \in VoteStages /\ req'[q].at \in VoteStages
      BY <1>2, <1>4, <2>4, <3>2 DEF Advanced, VoteStages, Pricing
    <3>3. CASE ResolveClaim(q) /\ req'[q].at = "apply"
      BY <1>2, <1>4, <2>4, <3>3 DEF Advanced, ResolveClaim, Pricing
    <3> QED  BY <2>4, <3>1, <3>2, <3>3 DEF Advanced
  <2>5. CASE OfferRead(q)
    BY <1>2, <1>4, <2>5 DEF OfferRead, ResolveRead, Pricing
  <2> QED  BY <2>1, <2>2, <2>3, <2>4, <2>5, RequestStep DEF Moved
<1> QED  BY <1>3, <1>4, ClockStep

\* The clock never falls behind.
LEMMA ClockGrows ==
  ASSUME TypeInv, [Next]_vars
  PROVE  now' \in Nat /\ now <= now'
<1>1. now \in Nat  BY DEF TypeInv, TypeOK
<1> QED  BY <1>1, ClockStep DEF Tick

\* Types and times are kept by every step.
LEMMA TimedStep ==
  ASSUME TypeInv, Timed, [Next]_vars
  PROVE  TypeInv' /\ Timed'
<1>0. now \in Nat /\ now' \in Nat /\ now <= now'
  BY ClockGrows DEF TypeInv, TypeOK
<1>1. OffersTimed'
  <2> SUFFICES ASSUME NEW u \in Users, HasOffer(u)'
               PROVE  part'[u].createdRateAt \in Nat
    BY DEF OffersTimed
  <2>1. CASE SameOffer(u)  BY <2>1 DEF SameOffer, TypeInv, OffersTimed
  <2>2. ASSUME NEW p \in Reqs, part'[u].createdRateAt = req[p].stamp
        PROVE  part'[u].createdRateAt \in Nat
    BY <2>2 DEF TypeInv, TypeOK, ReqRecord
  <2> QED  BY <2>1, <2>2, RowStep DEF OfferWritten
<1>2. TypeInv'  BY <1>1, TypeStep, AttributedStep DEF TypeInv
<1>3. Live' => bid'.createdAt <= now'
  <2>1. bid.createdAt \in Nat  BY DEF TypeInv, TypeOK, BidRecord
  <2>2. CASE UNCHANGED bid  BY <1>0, <2>1, <2>2 DEF Timed, Live
  <2>3. ASSUME NEW t, Recent(t), bid'.createdAt = t
        PROVE  bid'.createdAt <= now'
    BY <1>0, <2>3 DEF Recent
  <2>4. ASSUME Live, bid'.createdAt = bid.createdAt
        PROVE  bid'.createdAt <= now'
    BY <1>0, <2>1, <2>4 DEF Timed
  <2> QED  BY <2>2, <2>3, <2>4, BidStep
<1>4. ASSUME NEW u \in Users, Row(u)'
      PROVE  part'[u].createdAt <= now'
  <2>1. ASSUME Row(u), part'[u].createdAt = part[u].createdAt
        PROVE  part'[u].createdAt <= now'
    <3>1. part[u].createdAt \in Nat
      BY <2>1, RowTypes DEF TypeInv, PartRecord
    <3> QED  BY <1>0, <2>1, <3>1 DEF Timed
  <2>2. ASSUME NEW t, Recent(t), part'[u].createdAt = t
        PROVE  part'[u].createdAt <= now'
    BY <1>0, <2>2 DEF Recent
  <2> QED  BY <1>4, <2>1, <2>2, RowStep
           DEF SameTimer, TimerRestarted, TimerExtended
<1> QED  BY <1>2, <1>3, <1>4, RequestTimed DEF Timed

-----------------------------------------------------------------------------
(* An expired offer is applied once and at its price.                      *)

\* A request that resolves an offer has just read it, or knows what it knew.
LEMMA ResolvingMove ==
  ASSUME TypeInv, [Next]_vars, NEW q \in Reqs, req'[q].at \in {"claim", "apply"}
  PROVE  \/ OfferRead(q)
         \/ /\ req'[q].target = req[q].target /\ req'[q].stamp = req[q].stamp
            /\ req'[q].amount = req[q].amount
            /\ \/ req'[q].at = req[q].at
               \/ ResolveClaim(q) /\ req'[q].at = "apply"
<1>1. CASE req'[q] = Idle  BY <1>1 DEF Idle
<1>2. CASE Began(q)  BY <1>2 DEF Began
<1>3. CASE Advanced(q)
  <2>1. ~PriceChecked(q)  BY DEF PriceChecked
  <2>2. req'[q].at \notin VoteStages  BY DEF VoteStages
  <2> QED  BY <1>3, <2>1, <2>2 DEF Advanced
<1> QED  BY <1>1, <1>2, <1>3, RequestStep DEF Moved

\* An offer that has just been written is fresh.
LEMMA NewOfferYoung ==
  ASSUME TypeInv, Timed, NEW u \in Users, OfferWritten(u)
  PROVE  now < part'[u].createdRateAt + Fresh
<1>1. PICK p \in Reqs :
        req[p].at = "offer" /\ part'[u].createdRateAt = req[p].stamp
  BY DEF OfferWritten, PriceOffer
<1>2. req[p].stamp \in Nat /\ now \in Nat
  BY DEF TypeInv, TypeOK, ReqRecord
<1>3. now <= req[p].stamp + Stall  BY <1>1 DEF Timed, Pricing
<1> QED  BY <1>1, <1>2, <1>3, StallAssumption

\* A resolving request has seen its offer expired.
LEMMA ResolvingStep ==
  ASSUME TypeInv, Timed, Resolving, [Next]_vars
  PROVE  Resolving'
<1> SUFFICES ASSUME NEW q \in Reqs, req'[q].at \in {"claim", "apply"}
             PROVE  req'[q].stamp + Fresh <= now'
  BY DEF Resolving
<1>0. now \in Nat /\ now' \in Nat /\ now <= now'
  BY ClockGrows DEF TypeInv, TypeOK
<1>1. req[q].stamp \in Nat  BY DEF TypeInv, TypeOK, ReqRecord
<1>2. CASE OfferRead(q)
  <2>1. req[q].target \in Users
    BY <1>2 DEF OfferRead, ResolveRead, TypeInv, Attributed, About
  <2>2. /\ HasOffer(req[q].target) /\ ~IsFresh(req[q].target)
        /\ req'[q].stamp = part[req[q].target].createdRateAt
    BY <1>2 DEF OfferRead, ResolveRead, Expired
  <2>3. part[req[q].target].createdRateAt \in Nat
    BY <2>1, <2>2 DEF TypeInv, OffersTimed
  <2> QED  BY <1>0, <2>2, <2>3 DEF IsFresh
<1>3. CASE req'[q].stamp = req[q].stamp /\ req[q].at \in {"claim", "apply"}
  BY <1>0, <1>1, <1>3 DEF Resolving
<1> QED  BY <1>2, <1>3, ResolvingMove DEF ResolveClaim

\* A claim never meets another offer than the one that was read.
LEMMA ClaimStep ==
  ASSUME TypeInv, Timed, Resolving, ClaimsPriceRead, [Next]_vars
  PROVE  ClaimsPriceRead'
<1> SUFFICES ASSUME NEW q \in Reqs, req'[q].at = "claim", Claimable(q)'
             PROVE  part'[req'[q].target].rate = req'[q].amount
  BY DEF ClaimsPriceRead
<1>1. CASE OfferRead(q)
  BY <1>1 DEF OfferRead, ResolveRead
<1>2. CASE /\ req'[q].target = req[q].target /\ req'[q].stamp = req[q].stamp
           /\ req'[q].amount = req[q].amount /\ req[q].at = "claim"
  <2>1. PICK u \in Users : u = req[q].target
    BY <1>2 DEF TypeInv, Attributed, About
  <2>2. HasOffer(u)' /\ part'[u].createdRateAt = req[q].stamp
    BY <1>2, <2>1 DEF Claimable, HasOffer, Row
  <2>3. req[q].stamp + Fresh <= now  BY <1>2 DEF Resolving
  <2>4. req[q].stamp \in Nat /\ now \in Nat
    BY DEF TypeInv, TypeOK, ReqRecord
  <2>5. ~OfferWritten(u)  BY <2>2, <2>3, <2>4, NewOfferYoung
  <2>6. SameOffer(u)  BY <2>2, <2>5, RowStep
  <2>7. Claimable(q)  BY <2>1, <2>2, <2>6 DEF SameOffer, Claimable
  <2> QED  BY <1>2, <2>1, <2>6, <2>7 DEF ClaimsPriceRead, SameOffer
<1> QED  BY <1>1, <1>2, ResolvingMove

\* A claim clears the offer that it takes.
LEMMA ClaimClears ==
  ASSUME TypeInv, NEW p \in Reqs, ResolveClaim(p)
  PROVE  \E u \in Users :
           /\ req[p].at = "claim" /\ req[p].target = u
           /\ HasOffer(u) /\ part[u].createdRateAt = req[p].stamp
           /\ ~HasOffer(u)'
<1>1. PICK u \in Users : u = req[p].target
  BY DEF ResolveClaim, TypeInv, Attributed, About
<1>2. /\ HasOffer(u) /\ part[u].createdRateAt = req[p].stamp
      /\ part' = [part EXCEPT ![u] = Cleared(u)]
  BY <1>1 DEF ResolveClaim, Claimable
<1>3. part'[u] = Cleared(u)  BY <1>2, WriteRow DEF TypeInv
<1>4. part[u] \in PartRecord  BY <1>2, RowTypes DEF TypeInv, HasOffer
<1>5. Cleared(u).rate = NULL  BY <1>4 DEF Cleared, PartRecord
<1>6. ~HasOffer(u)'  BY <1>3, <1>5 DEF HasOffer
<1> QED  BY <1>1, <1>2, <1>6 DEF ResolveClaim

\* An offer is claimed by one request at most.
LEMMA ApplyStep ==
  ASSUME TypeInv, Timed, Resolving, ApplyExclusive, [Next]_vars
  PROVE  ApplyExclusive'
<1> DEFINE Kept(p) == /\ req[p].at = "apply"
                      /\ req'[p].target = req[p].target
                      /\ req'[p].stamp = req[p].stamp
           Claims(p) == /\ ResolveClaim(p)
                        /\ req'[p].target = req[p].target
                        /\ req'[p].stamp = req[p].stamp
<1>1. ASSUME NEW p \in Reqs, req'[p].at = "apply"
      PROVE  Kept(p) \/ Claims(p)
  BY <1>1, ResolvingMove DEF OfferRead
<1>2. ASSUME NEW p \in Reqs, req'[p].at = "apply", HasOffer(req[p].target)'
      PROVE  part'[req'[p].target].createdRateAt # req'[p].stamp
  <2>1. PICK u \in Users : u = req[p].target /\ u = req'[p].target
    BY <1>1, <1>2 DEF ResolveClaim, TypeInv, Attributed, About
  <2>2. HasOffer(u)'  BY <1>2, <2>1 DEF HasOffer, Row
  <2>3. CASE Claims(p)  BY <2>1, <2>2, <2>3, ClaimClears
  <2>4. CASE Kept(p)
    <3>1. CASE SameOffer(u)
      BY <2>1, <2>4, <3>1 DEF SameOffer, ApplyExclusive
    <3>2. CASE OfferWritten(u)
      <4>1. now < part'[u].createdRateAt + Fresh  BY <3>2, NewOfferYoung
      <4>2. req[p].stamp + Fresh <= now  BY <2>4 DEF Resolving
      <4>3. req[p].stamp \in Nat /\ now \in Nat
        BY DEF TypeInv, TypeOK, ReqRecord
      <4> QED  BY <2>1, <2>4, <4>1, <4>2, <4>3
    <3> QED  BY <2>2, <3>1, <3>2, RowStep
  <2> QED  BY <1>1, <1>2, <2>3, <2>4
<1>3. ASSUME NEW p \in Reqs, NEW q \in Reqs, Claims(p), Kept(q),
             req[p].target = req[q].target
      PROVE  req[p].stamp # req[q].stamp
  BY <1>3, ClaimClears DEF ApplyExclusive
<1>4. ASSUME NEW p \in Reqs, NEW q \in Reqs, p # q,
             req'[p].at = "apply", req'[q].at = "apply", Claims(p)
      PROVE  ~Claims(q)
  BY <1>4, ClaimClears, RequestStep
<1>5. ASSUME NEW p \in Reqs, NEW q \in Reqs \ {p},
             req'[p].at = "apply", req'[q].at = "apply",
             req'[q].target = req'[p].target
      PROVE  req'[q].stamp # req'[p].stamp
  <2>1. CASE Kept(p) /\ Kept(q)  BY <1>5, <2>1 DEF ApplyExclusive
  <2>2. CASE Claims(p) /\ Kept(q)  BY <1>3, <1>5, <2>2
  <2>3. CASE Kept(p) /\ Claims(q)  BY <1>3, <1>5, <2>3
  <2> QED  BY <1>1, <1>4, <1>5, <2>1, <2>2, <2>3
<1> QED  BY <1>2, <1>5 DEF ApplyExclusive

-----------------------------------------------------------------------------
(* Timers stretch by no more than a request lasts.                         *)

\* An extension in flight still fits the cycle, or the one that replaced it.
LEMMA ExtendingStep ==
  ASSUME TypeInv, Timed, Extending, [Next]_vars
  PROVE  Extending'
<1>0. /\ now \in Nat /\ bid \in BidRecord
      /\ \A q \in Reqs : req[q].start \in Nat /\ req[q].stamp \in Nat
  BY DEF TypeInv, TypeOK, ReqRecord
<1>1. ASSUME NEW q \in Reqs, req'[q].at \in {"extendBid", "extendPart"}
      PROVE  req'[q] = req[q] \/ Began(q)
  <2>1. CASE req'[q] = Idle  BY <1>1, <2>1 DEF Idle
  <2>2. CASE Advanced(q)
    BY <1>1, <2>2 DEF Advanced, PriceChecked, VoteStages
  <2>3. CASE OfferRead(q)  BY <1>1, <2>3 DEF OfferRead
  <2> QED  BY <2>1, <2>2, <2>3, RequestStep DEF Moved
<1>2. ASSUME NEW q \in Reqs, NEW t, Recent(t), req[q].at # "idle",
             req[q].stamp <= req[q].start + MaxExtend
      PROVE  req[q].stamp <= t + MaxExtend + Stall
  BY <1>0, <1>2 DEF Timed, Recent
<1>3. ASSUME NEW q \in Reqs, req'[q].at = "extendBid", Live'
      PROVE  req'[q].stamp <= bid'.createdAt + MaxExtend + Stall
  <2>0. bid.createdAt \in Nat /\ bid.updatedAt \in Nat
    BY <1>0 DEF BidRecord
  <2>1. CASE Began(q)
    BY <1>3, <2>0, <2>1 DEF Began, Untouched, Extensible
  <2>2. CASE req'[q] = req[q]
    <3>1. CASE Live /\ bid'.createdAt = bid.createdAt
      BY <1>3, <2>2, <3>1 DEF Extending
    <3>2. ASSUME NEW t, Recent(t), bid'.createdAt = t
          PROVE  req'[q].stamp <= bid'.createdAt + MaxExtend + Stall
      BY <1>2, <1>3, <2>2, <3>2 DEF Timed
    <3> QED  BY <1>3, <3>1, <3>2, BidStep DEF Live
  <2> QED  BY <1>1, <1>3, <2>1, <2>2
<1>4. ASSUME NEW q \in Reqs, req'[q].at = "extendPart",
             NEW u \in Users, u = req'[q].target, Row(u)'
      PROVE  req'[q].stamp <= part'[u].createdAt + MaxExtend + Stall
  <2>1. CASE Began(q)
    <3>1. /\ Row(u) /\ Extensible(part[u]) /\ part' = part
          /\ req'[q].stamp = part[u].updatedAt + Timer
      BY <1>4, <2>1 DEF Began, Untouched
    <3>2. part[u].createdAt \in Nat /\ part[u].updatedAt \in Nat
      BY <3>1, RowTypes DEF TypeInv, PartRecord
    <3> QED  BY <3>1, <3>2 DEF Extensible
  <2>2. CASE req'[q] = req[q]
    <3>1. CASE Row(u) /\ part'[u].createdAt = part[u].createdAt
      BY <1>4, <2>2, <3>1 DEF Extending
    <3>2. ASSUME NEW t, Recent(t), part'[u].createdAt = t
          PROVE  req'[q].stamp <= part'[u].createdAt + MaxExtend + Stall
      BY <1>2, <1>4, <2>2, <3>2 DEF Timed
    <3> QED  BY <1>4, <3>1, <3>2, RowStep
             DEF SameTimer, TimerRestarted, TimerExtended
  <2> QED  BY <1>1, <1>4, <2>1, <2>2
<1>5. ASSUME NEW q \in Reqs, req'[q].at = "extendPart", Row(req[q].target)'
      PROVE  req'[q].stamp
               <= part'[req'[q].target].createdAt + MaxExtend + Stall
  <2>1. PICK u \in Users : u = req'[q].target
    BY <1>5, AttributedStep DEF Attributed, About
  <2>2. Row(u)'  BY <1>5, <2>1 DEF Row
  <2> QED  BY <1>4, <1>5, <2>1, <2>2
<1> QED  BY <1>3, <1>5 DEF Extending

\* No timer is stretched beyond its extensions and one Stall.
LEMMA TimerStep ==
  ASSUME TypeInv, Timed, Extending, TimerSlack, [Next]_vars
  PROVE  TimerSlack'
<1>1. ASSUME Live', ~bid'.isArchive
      PROVE  bid'.updatedAt <= bid'.createdAt + MaxExtend + Stall
  <2>1. CASE UNCHANGED bid  BY <1>1, <2>1 DEF TimerSlack, Live
  <2>2. ASSUME NEW t, Recent(t), bid'.createdAt = t, bid'.updatedAt = t
        PROVE  bid'.updatedAt <= bid'.createdAt + MaxExtend + Stall
    BY <2>2 DEF Recent
  <2>3. ASSUME NEW p \in Reqs, req[p].at = "extendBid", Live,
               bid'.createdAt = bid.createdAt, bid'.updatedAt = req[p].stamp
        PROVE  bid'.updatedAt <= bid'.createdAt + MaxExtend + Stall
    BY <2>3 DEF Extending
  <2> QED  BY <1>1, <2>1, <2>2, <2>3, BidStep
<1>2. ASSUME NEW u \in Users, Row(u)'
      PROVE  part'[u].updatedAt <= part'[u].createdAt + MaxExtend + Stall
  <2>1. CASE SameTimer(u)  BY <2>1 DEF SameTimer, TimerSlack
  <2>2. ASSUME NEW t, Recent(t), part'[u].createdAt = t, part'[u].updatedAt = t
        PROVE  part'[u].updatedAt <= part'[u].createdAt + MaxExtend + Stall
    BY <2>2 DEF Recent
  <2>3. CASE TimerExtended(u)  BY <2>3 DEF TimerExtended, Extending
  <2> QED  BY <1>2, <2>1, <2>2, <2>3, RowStep DEF TimerRestarted
<1> QED  BY <1>1, <1>2 DEF TimerSlack

-----------------------------------------------------------------------------
(* The theorems.                                                           *)

\* AuctionInv is inductive: the start, and a step.
LEMMA AuctionInitially ==
  ASSUME Init
  PROVE  AuctionInv
<1>1. TypeInv /\ Timed  BY TimedInitially
<1>2. \A p \in Reqs : req[p].at = "idle"  BY DEF Init, Idle
<1>3. \A u \in Users : ~Row(u)  BY DEF Init, Row
<1>4. ~Live  BY DEF Init, NoBid, Live
<1> QED  BY <1>1, <1>2, <1>3, <1>4
         DEF AuctionInv, Resolving, Extending, ApplyExclusive, ClaimsPriceRead,
             TimerSlack

\* AuctionInv is kept by every step.
LEMMA AuctionStep ==
  ASSUME AuctionInv, [Next]_vars
  PROVE  AuctionInv'
BY TimedStep, ResolvingStep, ExtendingStep, ApplyStep, ClaimStep, TimerStep
   DEF AuctionInv

\* The rows, the requests and the clock keep their shape, for any members,
\* prices, requests and windows.
THEOREM TypeCorrect == Spec => []TypeOK
<1>1. Init => TypeInv /\ Timed  BY TimedInitially
<1>2. TypeInv /\ Timed /\ [Next]_vars => (TypeInv /\ Timed)'
  BY TimedStep
<1>3. TypeInv => TypeOK  BY DEF TypeInv
<1> QED  BY <1>1, <1>2, <1>3, PTL DEF Spec

\* AuctionInv holds throughout: what requests know of offers, of cycles and of
\* the time stays true whatever they interleave with.
THEOREM AuctionInvariant == Spec => []AuctionInv
<1> QED  BY AuctionInitially, AuctionStep, PTL DEF Spec

\* An expired offer is applied by one request only, however many clients and
\* runs of the job resolve it at the same time.
THEOREM AppliedOnce == Spec => []ApplyExclusive
<1>1. AuctionInv => ApplyExclusive  BY DEF AuctionInv
<1> QED  BY <1>1, AuctionInvariant, PTL

\* The price that is applied is the price of the offer that was claimed.
THEOREM OwnPriceApplied == Spec => []ClaimsPriceRead
<1>1. AuctionInv => ClaimsPriceRead  BY DEF AuctionInv
<1> QED  BY <1>1, AuctionInvariant, PTL

\* Racing extensions and restarts stretch a timer by no more than a request
\* lasts.
THEOREM TimersBounded == Spec => []TimerSlack
<1>1. AuctionInv => TimerSlack  BY DEF AuctionInv
<1> QED  BY <1>1, AuctionInvariant, PTL

-----------------------------------------------------------------------------
(* New offers undercut what was there when they came in.                   *)

\* An offer of the next state is an active one, or has just been written.
LEMMA ActiveStep ==
  ASSUME TypeInv, Timed, [Next]_vars, NEW v \in Users, v \in ActiveOffers'
  PROVE  (v \in ActiveOffers /\ SameOffer(v)) \/ OfferWritten(v)
<1>1. HasOffer(v)' /\ part'[v].createdRateAt + Fresh >= now'
  BY DEF ActiveOffers
<1>2. CASE SameOffer(v)
  <2>1. HasOffer(v)  BY <1>2 DEF SameOffer
  <2>2. part[v].createdRateAt \in Nat  BY <2>1 DEF TypeInv, OffersTimed
  <2>3. now \in Nat /\ now' \in Nat /\ now <= now'
    BY ClockGrows DEF TypeInv, TypeOK
  <2> QED  BY <1>1, <1>2, <2>1, <2>2, <2>3 DEF SameOffer, ActiveOffers
<1> QED  BY <1>1, <1>2, RowStep

\* The comparison with the active offers stays good.
LEMMA UndercuttingStep ==
  ASSUME TypeInv, Timed, Undercutting, [Next]_vars
  PROVE  Undercutting'
<1> SUFFICES ASSUME NEW p \in Reqs, req'[p].at \in {"snapshot", "offer"},
                    NEW v \in ActiveOffers',
                    part'[v].createdRateAt + Stall < req'[p].start
             PROVE  req'[p].amount < part'[v].rate
  BY DEF Undercutting
<1>0. v \in Users /\ now \in Nat /\ \A q \in Reqs : req[q].start \in Nat
  BY DEF ActiveOffers, TypeInv, TypeOK, ReqRecord
<1>1. CASE /\ Untouched /\ req'[p].amount = req[p].amount
           /\ \A w \in ActiveOffers : req[p].amount < part[w].rate
  <2>1. part' = part /\ now' = now  BY <1>1 DEF Untouched
  <2>2. v \in ActiveOffers  BY <2>1 DEF ActiveOffers, HasOffer, Row, IsFresh
  <2> QED  BY <1>1, <2>1, <2>2
<1>2. CASE /\ req[p].at \in {"snapshot", "offer"}
           /\ req'[p].start = req[p].start /\ req'[p].amount = req[p].amount
  <2>1. CASE v \in ActiveOffers /\ SameOffer(v)
    BY <1>2, <2>1 DEF SameOffer, Undercutting
  <2>2. CASE OfferWritten(v)
    <3>1. PICK q \in Reqs :
            req[q].at = "offer" /\ part'[v].createdRateAt = req[q].stamp
      BY <2>2 DEF OfferWritten, PriceOffer
    <3>2. req[q].stamp = req[q].start /\ now <= req[q].start + Stall
      BY <3>1 DEF Timed, Pricing
    <3>3. req[p].start <= now  BY <1>2 DEF Timed
    <3> QED  BY <1>0, <1>2, <3>1, <3>2, <3>3
  <2> QED  BY <1>0, <2>1, <2>2, ActiveStep
<1>3. CASE req'[p] = Idle  BY <1>3 DEF Idle
<1>4. CASE Began(p)  BY <1>4 DEF Began
<1>5. CASE Advanced(p)
  BY <1>1, <1>2, <1>5 DEF Advanced, PriceChecked, VoteStages
<1>6. CASE OfferRead(p)  BY <1>6 DEF OfferRead
<1> QED  BY <1>2, <1>3, <1>4, <1>5, <1>6, RequestStep DEF Moved

\* A new offer undercuts every active offer that was written before its
\* request came in, for any interleaving of offers and any prices.
THEOREM NewOffersUndercut == Spec => UndercutsEarlier
<1>1. Init => TypeInv /\ Timed /\ Undercutting
  <2>1. Init => Undercutting  BY DEF Init, Undercutting, Idle
  <2> QED  BY <2>1, TimedInitially
<1>2. TypeInv /\ Timed /\ Undercutting /\ [Next]_vars
        => (TypeInv /\ Timed /\ Undercutting)'
  BY TimedStep, UndercuttingStep
<1>3. Undercutting =>
        [\A p \in Reqs : PriceOffer(p) =>
           \A v \in ActiveOffers :
             part[v].createdRateAt + Stall < req[p].start
               => req[p].amount < part[v].rate]_vars
  BY DEF Undercutting, PriceOffer
<1> QED  BY <1>1, <1>2, <1>3, PTL DEF Spec, UndercutsEarlier

-----------------------------------------------------------------------------
(* What the three-hour job archives.                                       *)

\* A bid that is being archived was idle, or was written to since.
LEMMA ArchivingStep ==
  ASSUME TypeInv, Timed, Archiving, [Next]_vars
  PROVE  Archiving'
<1> SUFFICES ASSUME NEW p \in Reqs, req'[p].at = "archive", Live'
             PROVE  \/ bid'.updatedAt + ArchiveIdle < req'[p].start
                    \/ req'[p].start <= bid'.updatedAt + Stall
  BY DEF Archiving
<1>0. /\ now \in Nat
      /\ \A q \in Reqs : req[q].start \in Nat /\ req[q].stamp \in Nat
  BY DEF TypeInv, TypeOK, ReqRecord
<1>1. CASE Began(p)  BY <1>1 DEF Began, Untouched
<1>2. CASE req'[p] = req[p]
  <2>1. req[p].start <= now  BY <1>2 DEF Timed
  <2>2. CASE UNCHANGED bid  BY <1>2, <2>2 DEF Archiving, Live
  <2>3. ASSUME NEW t, Recent(t), bid'.updatedAt = t
        PROVE  req'[p].start <= bid'.updatedAt + Stall
    BY <1>0, <1>2, <2>1, <2>3 DEF Recent
  <2>4. ASSUME NEW q \in Reqs, req[q].at \in {"extendBid", "archive"},
               bid'.updatedAt = req[q].stamp
        PROVE  req'[p].start <= bid'.updatedAt + Stall
    <3>1. req[q].start <= req[q].stamp /\ now <= req[q].start + Stall
      BY <1>0, <2>4 DEF Timed
    <3> QED  BY <1>0, <1>2, <2>1, <2>4, <3>1
  <2> QED  BY <2>2, <2>3, <2>4, BidStep
<1>3. CASE req'[p] = Idle  BY <1>3 DEF Idle
<1>4. CASE Advanced(p)  BY <1>4 DEF Advanced, PriceChecked, VoteStages
<1>5. CASE OfferRead(p)  BY <1>5 DEF OfferRead
<1> QED  BY <1>1, <1>2, <1>3, <1>4, <1>5, RequestStep DEF Moved

\* The job archives an idle bid, or one whose time was written while it ran.
THEOREM ArchivedIdle == Spec => ArchivesIdleOrRaced
<1>1. Init => TypeInv /\ Timed /\ Archiving
  <2>1. Init => Archiving  BY DEF Init, Archiving, Idle
  <2> QED  BY <2>1, TimedInitially
<1>2. TypeInv /\ Timed /\ Archiving /\ [Next]_vars
        => (TypeInv /\ Timed /\ Archiving)'
  BY TimedStep, ArchivingStep
<1>3. ASSUME TypeInv, Timed, Archiving, NEW p \in Reqs, ArchiveWrite(p)
      PROVE  \/ bid.updatedAt + ArchiveIdle < now
             \/ bid.updatedAt + 2 * Stall >= now
  <2>1. /\ now \in Nat /\ bid.updatedAt \in Nat /\ req[p].start \in Nat
    BY <1>3 DEF TypeInv, TypeOK, BidRecord, ReqRecord
  <2>2. req[p].at = "archive" /\ Live  BY <1>3 DEF ArchiveWrite
  <2>3. req[p].start <= now /\ now <= req[p].start + Stall
    BY <1>3, <2>2 DEF Timed
  <2>4. \/ bid.updatedAt + ArchiveIdle < req[p].start
        \/ req[p].start <= bid.updatedAt + Stall
    BY <1>3, <2>2 DEF Archiving
  <2> QED  BY <2>1, <2>3, <2>4
<1>4. TypeInv /\ Timed /\ Archiving =>
        [\A p \in Reqs : ArchiveWrite(p) =>
           \/ bid.updatedAt + ArchiveIdle < now
           \/ bid.updatedAt + 2 * Stall >= now]_vars
  BY <1>3
<1> QED  BY <1>1, <1>2, <1>4, PTL DEF Spec, ArchivesIdleOrRaced

-----------------------------------------------------------------------------
(* The limit of active offers.                                             *)

\* The sets that are counted are finite, and requests of the job never count.
LEMMA CountedSets ==
  ASSUME TypeInv, OfferSlack
  PROVE  /\ IsFiniteSet(ActiveOffers) /\ IsFiniteSet(Admitted)
         /\ Admitted \subseteq Reqs \ Cron
         /\ IsFiniteSet(Reqs \ Cron)
         /\ Cardinality(ActiveOffers) \in Nat /\ Cardinality(Admitted) \in Nat
         /\ Cardinality(Reqs \ Cron) \in Nat
<1>1. ActiveOffers \subseteq Users /\ Admitted \subseteq Reqs
  BY DEF ActiveOffers, Admitted
<1>2. Admitted \subseteq Reqs \ Cron  BY DEF Admitted, OfferSlack, OfferLimitSlack, CronWork
<1>3. (Reqs \ Cron) \subseteq Reqs  OBVIOUS
<1>4. IsFiniteSet(ActiveOffers) /\ IsFiniteSet(Admitted) /\ IsFiniteSet(Reqs \ Cron)
  BY <1>1, <1>3, FS_Subset
<1> QED  BY <1>2, <1>4, FS_CardinalityType

\* The slots of the job only resolve offers.
LEMMA CronStep ==
  ASSUME TypeInv, OfferSlack, [Next]_vars, NEW p \in Cron
  PROVE  req'[p].at \in {"idle", "claim", "apply"} \cup CronWork
<1>0. p \in Reqs /\ req[p].at \in {"idle", "claim", "apply"} \cup CronWork
  BY DEF OfferSlack, OfferLimitSlack
<1>1. CASE req'[p] = Idle  BY <1>1 DEF Idle, CronWork
<1>2. CASE Began(p)  BY <1>2 DEF Began, CronWork
<1>3. CASE Advanced(p)  BY <1>0, <1>3 DEF Advanced, PriceChecked, VoteStages, CronWork
<1>4. CASE OfferRead(p)  BY <1>4 DEF OfferRead
<1> QED  BY <1>0, <1>1, <1>2, <1>3, <1>4, RequestStep DEF Moved

\* A request is admitted only below the limit, and leaves the offers alone.
LEMMA AdmittedStep ==
  ASSUME TypeInv, [Next]_vars, NEW p \in Reqs, p \in Admitted', p \notin Admitted
  PROVE  Untouched /\ Cardinality(ActiveOffers) < MaxOffers
<1>0. /\ req'[p].at \in {"plusOne", "ownOffer", "min", "snapshot", "offer"}
      /\ req[p].at \notin {"plusOne", "ownOffer", "min", "snapshot", "offer"}
  BY DEF Admitted
<1>1. req'[p] # Idle  BY <1>0 DEF Idle
<1>2. ~Began(p) /\ ~OfferRead(p)  BY <1>0 DEF Began, OfferRead
<1>3. Advanced(p)  BY <1>0, <1>1, <1>2, RequestStep DEF Moved
<1> QED  BY <1>0, <1>3 DEF Advanced, PriceChecked, VoteStages

\* An offer that is written takes the place of its request.
LEMMA OfferStep ==
  ASSUME TypeInv, Timed, OfferSlack, [Next]_vars, NEW p \in Reqs, PriceOffer(p)
  PROVE  Cardinality(ActiveOffers') + Cardinality(Admitted')
           < MaxOffers + Cardinality(Reqs \ Cron)
<1>1. /\ req[p].at = "offer" /\ req'[p] = Idle
      /\ \A q \in Reqs : q # p => req'[q] = req[q]
  <2>1. req[p].at = "offer" /\ Leave(p)  BY DEF PriceOffer
  <2> QED  BY <2>1, LeaveSlot DEF TypeInv
<1>2. PICK u \in Users : u = req[p].by
  BY <1>1 DEF TypeInv, Attributed
<1>3. Admitted' \subseteq Admitted \ {p} /\ p \in Admitted
  BY <1>1 DEF Admitted, Idle
<1>4. ActiveOffers' \subseteq ActiveOffers \cup {u}
  <2> SUFFICES ASSUME NEW v \in Users, v \in ActiveOffers'
               PROVE  v \in ActiveOffers \cup {u}
    BY DEF ActiveOffers
  <2>1. CASE OfferWritten(v)
    <3>1. PICK q \in Reqs : PriceOffer(q) /\ req[q].by = v
      BY <2>1 DEF OfferWritten
    <3>2. req'[q] = Idle /\ req[q].at = "offer"
      BY <3>1, LeaveSlot DEF PriceOffer, TypeInv
    <3>3. q = p  BY <1>1, <3>2 DEF Idle
    <3> QED  BY <1>2, <3>1, <3>3
  <2> QED  BY <2>1, ActiveStep
<1>5. /\ IsFiniteSet(ActiveOffers) /\ IsFiniteSet(Admitted)
      /\ Cardinality(ActiveOffers) \in Nat /\ Cardinality(Admitted) \in Nat
      /\ Cardinality(Reqs \ Cron) \in Nat
  BY CountedSets
<1>6. Cardinality(Admitted') <= Cardinality(Admitted) - 1
  <2>1. /\ IsFiniteSet(Admitted \ {p})
        /\ Cardinality(Admitted \ {p}) = Cardinality(Admitted) - 1
    BY <1>3, <1>5, FS_RemoveElement
  <2> QED  BY <1>3, <2>1, FS_Subset
<1>7. Cardinality(ActiveOffers') <= Cardinality(ActiveOffers) + 1
  <2>1. /\ IsFiniteSet(ActiveOffers \cup {u})
        /\ Cardinality(ActiveOffers \cup {u}) <= Cardinality(ActiveOffers) + 1
    <3>1. /\ IsFiniteSet(ActiveOffers \cup {u})
          /\ Cardinality(ActiveOffers \cup {u}) =
               IF u \in ActiveOffers THEN Cardinality(ActiveOffers)
                                     ELSE Cardinality(ActiveOffers) + 1
      BY <1>5, FS_AddElement
    <3> QED  BY <1>5, <3>1
  <2>2. Cardinality(ActiveOffers') <= Cardinality(ActiveOffers \cup {u})
    BY <1>4, <2>1, FS_Subset
  <2>3. /\ Cardinality(ActiveOffers \cup {u}) \in Nat
        /\ Cardinality(ActiveOffers') \in Nat
    <3>1. IsFiniteSet(ActiveOffers')  BY <1>4, <2>1, FS_Subset
    <3> QED  BY <2>1, <3>1, FS_CardinalityType
  <2> QED  BY <1>5, <2>1, <2>2, <2>3
<1>8. Cardinality(ActiveOffers') \in Nat /\ Cardinality(Admitted') \in Nat
  <2>1. IsFiniteSet(ActiveOffers \cup {u}) /\ IsFiniteSet(Admitted \ {p})
    BY <1>5, FS_AddElement, FS_RemoveElement
  <2>2. IsFiniteSet(ActiveOffers') /\ IsFiniteSet(Admitted')
    BY <1>3, <1>4, <2>1, FS_Subset
  <2> QED  BY <2>2, FS_CardinalityType
<1> QED  BY <1>5, <1>6, <1>7, <1>8 DEF OfferSlack, OfferLimitSlack

\* The offers there are and those about to be written stay below the bound.
LEMMA SlackStep ==
  ASSUME TypeInv, Timed, OfferSlack, [Next]_vars
  PROVE  OfferSlack'
<1> DEFINE Bounded == Cardinality(ActiveOffers') + Cardinality(Admitted')
                        < MaxOffers + Cardinality(Reqs \ Cron)
<1>1. \A p \in Cron : req'[p].at \in {"idle", "claim", "apply"} \cup CronWork
  BY CronStep
<1>2. CASE \E p \in Reqs : PriceOffer(p)
  <2>1. Bounded  BY <1>2, OfferStep
  <2> QED  BY <1>1, <2>1 DEF OfferSlack, OfferLimitSlack
<1>3. CASE \A p \in Reqs : ~PriceOffer(p)
  <2>0. /\ IsFiniteSet(ActiveOffers) /\ IsFiniteSet(Admitted)
        /\ IsFiniteSet(Reqs \ Cron)
        /\ Cardinality(ActiveOffers) \in Nat /\ Cardinality(Admitted) \in Nat
        /\ Cardinality(Reqs \ Cron) \in Nat
    BY CountedSets
  <2>1. ActiveOffers' \subseteq ActiveOffers
    <3>1. \A v \in ActiveOffers' : v \in Users  BY DEF ActiveOffers
    <3> QED  BY <1>3, <3>1, ActiveStep DEF OfferWritten
  <2>2. /\ Cardinality(ActiveOffers') <= Cardinality(ActiveOffers)
        /\ Cardinality(ActiveOffers') \in Nat
    BY <2>0, <2>1, FS_Subset, FS_CardinalityType
  <2>3. CASE Admitted' \subseteq Admitted
    <3>1. /\ Cardinality(Admitted') <= Cardinality(Admitted)
          /\ Cardinality(Admitted') \in Nat
      BY <2>0, <2>3, FS_Subset, FS_CardinalityType
    <3>2. Bounded  BY <2>0, <2>2, <3>1 DEF OfferSlack, OfferLimitSlack
    <3> QED  BY <1>1, <3>2 DEF OfferSlack, OfferLimitSlack
  <2>4. CASE ~(Admitted' \subseteq Admitted)
    <3>1. \A p \in Admitted' : p \in Reqs  BY DEF Admitted
    <3>2. Cardinality(ActiveOffers) < MaxOffers  BY <2>4, <3>1, AdmittedStep
    <3>3. Admitted' \subseteq Reqs \ Cron  BY <1>1 DEF Admitted, CronWork
    <3>4. /\ Cardinality(Admitted') <= Cardinality(Reqs \ Cron)
          /\ Cardinality(Admitted') \in Nat
      BY <2>0, <3>3, FS_Subset, FS_CardinalityType
    <3>5. Bounded  BY <2>0, <2>2, <3>2, <3>4
    <3> QED  BY <1>1, <3>5 DEF OfferSlack, OfferLimitSlack
  <2> QED  BY <2>3, <2>4
<1> QED  BY <1>2, <1>3

\* For any limit and any number of requests, offers exceed the limit by less
\* than the number of requests that run at the same time.
THEOREM OffersBounded == Spec => []OfferLimitSlack
<1>1. ASSUME Init  PROVE OfferSlack
  <2>1. \A p \in Reqs : req[p].at = "idle"  BY <1>1 DEF Init, Idle
  <2>2. \A u \in Users : ~HasOffer(u)  BY <1>1 DEF Init, HasOffer, Row
  <2>3. ActiveOffers = {} /\ Admitted = {}
    BY <2>1, <2>2 DEF ActiveOffers, Admitted
  <2>4. Cardinality(Reqs \ Cron) \in Nat
    BY FS_Subset, FS_CardinalityType
  <2>5. Cardinality(ActiveOffers) = 0 /\ Cardinality(Admitted) = 0
    BY <2>3, FS_EmptySet
  <2> QED  BY <2>1, <2>4, <2>5 DEF OfferSlack, OfferLimitSlack
<1>2. TypeInv /\ Timed /\ OfferSlack /\ [Next]_vars
        => (TypeInv /\ Timed /\ OfferSlack)'
  BY TimedStep, SlackStep
<1>3. TypeInv /\ OfferSlack => OfferLimitSlack
  BY DEF OfferSlack
<1> QED  BY <1>1, <1>2, <1>3, TimedInitially, PTL DEF Spec

=============================================================================
