---------------------------- MODULE OfferBidding ----------------------------
(***************************************************************************)
(* Driver bidding on freight offers: src/src/offers/offers.service.ts, the *)
(* nightly offers cleanup, and the TMS load-status webhook that deletes    *)
(* the offers of a load.                                                   *)
(*                                                                         *)
(* State: the rows of the tables offers, rate_offers and                   *)
(* rate_offer_counter_offers, the load drafts TMS holds, and the HTTP      *)
(* requests in flight.  A handler that awaits the database several times   *)
(* is one step per await whose result it uses later: between two of them   *)
(* any other request may run.  An interactive Prisma transaction is one    *)
(* step (the README argues why), and so is a handler whose earlier reads   *)
(* can only fail in the way its write fails.                               *)
(***************************************************************************)
EXTENDS Naturals, FiniteSets, Functions

CONSTANTS
  Offers,            \* ids the offers table hands out (autoincrement)
  Rows,              \* ids the rate_offers table hands out (autoincrement)
  Drivers,           \* external ids of drivers
  Staff,             \* users.id of the staff who send counter-offers
  Loads,             \* post ids TMS gives to load drafts
  Rates,             \* amounts a bid or a counter-offer may have
  Reqs,              \* slots for requests that run at the same time
  Traffic,           \* the kinds of requests that come in (first stages)
  MaxCounterOffers,  \* MAX_COUNTER_OFFERS_PER_DRIVER
  MaxOpen,           \* app_settings.maxDriverOpenOfferParticipations
  NULL

ASSUME RatesAssumption == Rates \subseteq Nat /\ NULL \notin Nat
ASSUME NullAssumption ==
  NULL \notin Offers \cup Rows \cup Drivers \cup Staff \cup Loads
ASSUME LimitsAssumption ==
  MaxCounterOffers \in Nat \ {0} /\ MaxOpen \in Nat \ {0}
ASSUME ReqsAssumption == IsFiniteSet(Reqs)

VARIABLES
  offer,     \* table offers
  row,       \* table rate_offers
  sent,      \* rate_offer_counter_offers, counted per (offer, driver, staff)
  draft,     \* load drafts held by TMS
  req        \* the requests in flight

vars == <<offer, row, sent, draft, req>>

-----------------------------------------------------------------------------
(* Types and lookups.                                                      *)

Lifecycle == {"none", "live", "deleted"}

OfferRecord ==
  [st: Lifecycle, active: BOOLEAN, isDriverSelected: BOOLEAN,
   loadId: Loads \cup {NULL}, stale: BOOLEAN]

RowRecord ==
  [offer: Offers \cup {NULL}, driver: Drivers \cup {NULL}, active: BOOLEAN,
   isSelected: BOOLEAN, rate: Rates \cup {NULL},
   counterOffer: Rates \cup {NULL}, actionTime: BOOLEAN, driverEta: BOOLEAN]

DraftRecord == [offer: Offers \cup {NULL}, driver: Drivers \cup {NULL}]

Stages ==
  {"idle", "update", "add", "edit", "bid", "bidWrite", "counter",
   "counterWrite", "accept", "decline", "eta", "etaRefresh", "extend",
   "select", "selectWrite", "cleanup", "enroute"}

ReqRecord ==
  [at: Stages, offer: Offers \cup {NULL}, driver: Drivers \cup {NULL},
   row: Rows \cup {NULL}, staff: Staff \cup {NULL}, amount: Rates \cup {NULL},
   load: Loads \cup {NULL}, ids: SUBSET Drivers, doomed: SUBSET Offers]

NoOffer ==
  [st |-> "none", active |-> FALSE, isDriverSelected |-> FALSE,
   loadId |-> NULL, stale |-> FALSE]

NoDraft == [offer |-> NULL, driver |-> NULL]

NoRow ==
  [offer |-> NULL, driver |-> NULL, active |-> FALSE, isSelected |-> FALSE,
   rate |-> NULL, counterOffer |-> NULL, actionTime |-> FALSE,
   driverEta |-> FALSE]

Idle ==
  [at |-> "idle", offer |-> NULL, driver |-> NULL, row |-> NULL,
   staff |-> NULL, amount |-> NULL, load |-> NULL, ids |-> {}, doomed |-> {}]

Live(o) == offer[o].st = "live"

\* A deleted row keeps only the name of its offer, so that its id is not
\* handed out again: a request that still holds the id finds nothing.
Exists(r) == row[r].offer # NULL /\ Live(row[r].offer)

RowsOf(o) == {r \in Rows : row[r].offer = o /\ Live(o)}

RowsOfDriver(o, d) == {r \in RowsOf(o) : row[r].driver = d}

ActiveRows(o, d) == {r \in RowsOfDriver(o, d) : row[r].active}

FreeRows == {r \in Rows : row[r].offer = NULL}

FreshRowSwapped(o, d) ==
  [NoRow EXCEPT !.offer = d, !.driver = o, !.active = TRUE]

FreshRow(o, d) ==
  [NoRow EXCEPT !.offer = o, !.driver = d, !.active = TRUE]

\* rateOffer.count of setDriverRate: bids that take part in the open limit.
OpenBids(d) ==
  {r \in Rows : /\ Exists(r)
                /\ row[r].driver = d
                /\ row[r].rate # NULL
                /\ ~row[r].isSelected
                /\ row[r].active
                /\ offer[row[r].offer].active
                /\ ~offer[row[r].offer].isDriverSelected}

Touch(o) == [offer EXCEPT ![o].stale = FALSE]

\* The request that works for driver d on row r.
For(stage, r) ==
  [Idle EXCEPT !.at = stage, !.offer = row[r].offer,
               !.driver = row[r].driver, !.row = r]

Enter(p, r) == /\ req[p].at = "idle"
               /\ r.at \in Traffic
               /\ req' = [req EXCEPT ![p] = r]

Leave(p) == req' = [req EXCEPT ![p] = Idle]

-----------------------------------------------------------------------------
Init ==
  /\ offer = [o \in Offers |-> NoOffer]
  /\ row = [r \in Rows |-> NoRow]
  /\ sent = [k \in Offers \X Drivers \X Staff |-> 0]
  /\ draft = [l \in Loads |-> NoDraft]
  /\ req = [p \in Reqs |-> Idle]

-----------------------------------------------------------------------------
(* Staff: create, edit, extend the driver list, deactivate.                *)

\* create(): one transaction; driverIds is taken as it comes, so a driver
\* listed twice gets two rows.  who maps the new rows to the listed drivers.
Create(o) ==
  /\ offer[o].st = "none"
  /\ offer' = [offer EXCEPT ![o] = [NoOffer EXCEPT !.st = "live", !.active = TRUE]]
  /\ \E S \in (SUBSET FreeRows) \ {{}} : \E who \in [S -> Drivers] :
       row' = [r \in Rows |-> IF r \in S THEN FreshRow(o, who[r]) ELSE row[r]]
  /\ UNCHANGED <<sent, draft, req>>

\* update(): the offer is looked up and the driver ids resolved before the
\* transaction; ids that are no driver's are dropped, so none may remain.
UpdateBegin(p, o, ids) ==
  /\ Live(o)
  /\ Enter(p, [Idle EXCEPT !.at = "update", !.offer = o, !.ids = ids])
  /\ UNCHANGED <<offer, row, sent, draft>>

ResetRow(r) ==
  [row[r] EXCEPT !.active = TRUE, !.rate = NULL, !.actionTime = FALSE,
                 !.driverEta = FALSE, !.isSelected = FALSE]

ClearedRow(r) ==
  [row[r] EXCEPT !.active = FALSE, !.rate = NULL, !.actionTime = FALSE,
                 !.driverEta = FALSE, !.isSelected = FALSE]

ReopenedKeepsLoad(o) ==
  [offer EXCEPT ![o].isDriverSelected = FALSE, ![o].stale = FALSE]

Reopened(o) ==
  [offer EXCEPT ![o].isDriverSelected = FALSE, ![o].loadId = NULL,
                ![o].stale = FALSE]

\* The transaction keeps one row per listed driver (the Map keeps the last of
\* several), inserts the missing ones and clears the rows of the others.
\* counter_offer is in neither set of columns.
UpdateCommit(p) ==
  LET o == req[p].offer
      ids == req[p].ids
      missing == {d \in ids : RowsOfDriver(o, d) = {}}
  IN /\ req[p].at = "update"
     /\ Live(o)
     /\ offer' = Reopened(o)
     /\ \E keep \in [ids \ missing -> RowsOf(o)], S \in SUBSET FreeRows :
        \E who \in Bijection(S, missing) :
          /\ \A d \in ids \ missing : row[keep[d]].driver = d
          /\ row' = [r \in Rows |->
                       IF r \in S THEN FreshRow(o, who[r])
                       ELSE IF r \in Range(keep) THEN ResetRow(r)
                       ELSE IF r \in RowsOf(o) /\ row[r].driver \notin ids
                            THEN ClearedRow(r)
                       ELSE row[r]]
     /\ Leave(p)
     /\ UNCHANGED <<sent, draft>>

\* addDriversToOffer(): the drivers without a row are computed from a read
\* made before the transaction that inserts them.
AddBegin(p, o, ids) ==
  LET new == {d \in ids : RowsOfDriver(o, d) = {}}
  IN /\ Live(o)
     /\ new # {}
     /\ Enter(p, [Idle EXCEPT !.at = "add", !.offer = o, !.ids = new])
     /\ UNCHANGED <<offer, row, sent, draft>>

AddCommit(p) ==
  LET o == req[p].offer
  IN /\ req[p].at = "add"
     /\ Live(o)
     /\ offer' = Touch(o)
     /\ \E S \in SUBSET FreeRows : \E who \in Bijection(S, req[p].ids) :
          row' = [r \in Rows |-> IF r \in S THEN FreshRow(o, who[r])
                                            ELSE row[r]]
     /\ Leave(p)
     /\ UNCHANGED <<sent, draft>>

DeactivateOffer(o) ==
  /\ Live(o)
  /\ offer' = [offer EXCEPT ![o].active = FALSE, ![o].stale = FALSE]
  /\ UNCHANGED <<row, sent, draft, req>>

\* removeDriverFromOffer(): neither is_selected nor counter_offer is cleared.
RemovedKeepsRate(r) ==
  [row[r] EXCEPT !.active = FALSE, !.actionTime = FALSE, !.driverEta = FALSE]

RemovedRow(r) ==
  [row[r] EXCEPT !.active = FALSE, !.rate = NULL, !.actionTime = FALSE,
                 !.driverEta = FALSE]

RemoveDriver(o, d) ==
  /\ RowsOfDriver(o, d) # {}
  /\ row' = [r \in Rows |-> IF r \in RowsOfDriver(o, d) THEN RemovedRow(r)
                                                       ELSE row[r]]
  /\ UNCHANGED <<offer, sent, draft, req>>

ReturnDriver(o, d) ==
  /\ RowsOfDriver(o, d) # {}
  /\ row' = [r \in Rows |-> IF r \in RowsOfDriver(o, d)
                            THEN [row[r] EXCEPT !.active = TRUE]
                            ELSE row[r]]
  /\ offer' = Touch(o)
  /\ UNCHANGED <<sent, draft, req>>

-----------------------------------------------------------------------------
(* Drivers: bid, lower the bid, change the ETA.                            *)

\* setDriverRate(): the row is read; a row with a rate takes the edit path,
\* which accepts only a lower amount than the one just read.
RateBegin(p, o, d, amount) ==
  \E r \in ActiveRows(o, d) :
    /\ row[r].rate # NULL => amount < row[r].rate
    /\ Enter(p, [For(IF row[r].rate = NULL THEN "bid" ELSE "edit", r)
                   EXCEPT !.amount = amount])
    /\ UNCHANGED <<offer, row, sent, draft>>

\* First bid: the open bids of the driver are counted, and only then written.
BidCount(p) ==
  /\ req[p].at = "bid"
  /\ Cardinality(OpenBids(req[p].driver)) < MaxOpen
  /\ req' = [req EXCEPT ![p].at = "bidWrite"]
  /\ UNCHANGED <<offer, row, sent, draft>>

BidWrite(p) ==
  LET r == req[p].row
  IN /\ req[p].at = "bidWrite"
     /\ Exists(r)
     /\ \E eta \in BOOLEAN :   \* a blank ETA is stored as null
          row' = [row EXCEPT ![r].rate = req[p].amount,
                             ![r].actionTime = TRUE, ![r].driverEta = eta]
     /\ Leave(p)
     /\ UNCHANGED <<offer, sent, draft>>

EditWrite(p) ==
  LET r == req[p].row
  IN /\ req[p].at = "edit"
     /\ Exists(r)
     /\ row' = [row EXCEPT ![r].rate = req[p].amount]
     /\ Leave(p)
     /\ UNCHANGED <<offer, sent, draft>>

\* updateDriverEta(): the timer is refreshed when the row that was read had an
\* ETA and the new one is far from it.
EtaBegin(p, o, d) ==
  \E r \in ActiveRows(o, d) :
    /\ row[r].rate # NULL
    /\ \E stage \in IF row[r].driverEta THEN {"eta", "etaRefresh"} ELSE {"eta"} :
         Enter(p, For(stage, r))
    /\ UNCHANGED <<offer, row, sent, draft>>

EtaWrite(p) ==
  LET r == req[p].row
  IN /\ req[p].at \in {"eta", "etaRefresh"}
     /\ Exists(r)
     /\ row' = [row EXCEPT ![r].driverEta = TRUE,
                           ![r].actionTime = (req[p].at = "etaRefresh") \/ @]
     /\ Leave(p)
     /\ UNCHANGED <<offer, sent, draft>>

\* extendDriverTime(): also sets a timer on a row that has no bid.
ExtendBegin(p, o, d) ==
  \E r \in ActiveRows(o, d) :
    /\ Enter(p, For("extend", r))
    /\ UNCHANGED <<offer, row, sent, draft>>

ExtendWrite(p) ==
  LET r == req[p].row
  IN /\ req[p].at = "extend"
     /\ Exists(r)
     /\ row' = [row EXCEPT ![r].actionTime = TRUE]
     /\ Leave(p)
     /\ UNCHANGED <<offer, sent, draft>>

-----------------------------------------------------------------------------
(* Negotiation: a counter-offer of the staff, the answer of the driver.    *)

\* setDriverCounterOffer(): compared with the rate that was read.
CounterBegin(p, o, d, s, amount) ==
  \E r \in ActiveRows(o, d) :
    /\ row[r].rate # NULL
    /\ amount <= row[r].rate
    /\ Enter(p, [For("counter", r) EXCEPT !.staff = s, !.amount = amount])
    /\ UNCHANGED <<offer, row, sent, draft>>

\* The history rows are those of one offer, driver and member of the staff.
HistoryKey(p) == <<req[p].offer, req[p].driver, req[p].staff>>

UnderLimitOffByOne(p) == sent[HistoryKey(p)] <= MaxCounterOffers

UnderLimit(p) == sent[HistoryKey(p)] < MaxCounterOffers

CounterCount(p) ==
  /\ req[p].at = "counter"
  /\ UnderLimit(p)
  /\ req' = [req EXCEPT ![p].at = "counterWrite"]
  /\ UNCHANGED <<offer, row, sent, draft>>

\* One transaction: a history row, and the amount on the rate_offers row.
CounterWrite(p) ==
  /\ req[p].at = "counterWrite"
  /\ Exists(req[p].row)
  /\ sent' = [sent EXCEPT ![HistoryKey(p)] = @ + 1]
  /\ row' = [row EXCEPT ![req[p].row].counterOffer = req[p].amount]
  /\ Leave(p)
  /\ UNCHANGED <<offer, draft>>

\* respondDriverCounterOffer(): accepts the amount that was read.
RespondBegin(p, o, d, answer) ==
  \E r \in ActiveRows(o, d) :
    /\ row[r].counterOffer # NULL
    /\ Enter(p, [For(answer, r) EXCEPT !.amount = IF answer = "accept"
                                                  THEN row[r].counterOffer
                                                  ELSE NULL])
    /\ UNCHANGED <<offer, row, sent, draft>>

AcceptWrite(p) ==
  LET r == req[p].row
  IN /\ req[p].at = "accept"
     /\ Exists(r)
     /\ row' = [row EXCEPT ![r].rate = req[p].amount, ![r].counterOffer = NULL]
     /\ Leave(p)
     /\ UNCHANGED <<offer, sent, draft>>

DeclineWrite(p) ==
  LET r == req[p].row
  IN /\ req[p].at = "decline"
     /\ Exists(r)
     /\ row' = [row EXCEPT ![r].counterOffer = NULL]
     /\ Leave(p)
     /\ UNCHANGED <<offer, sent, draft>>

-----------------------------------------------------------------------------
(* Assignment: the staff accepts one driver.                               *)

\* selectDriverForOffer(): any row of the driver that has a rate, active or
\* not; neither active nor isDriverSelected of the offer is looked at.
SelectBegin(p, o, d) ==
  \E r \in RowsOfDriver(o, d) :
    /\ row[r].rate # NULL
    /\ Enter(p, For("select", r))
    /\ UNCHANGED <<offer, row, sent, draft>>

\* createLoadDraft(): TMS answers with the id of a new load.
SelectDraft(p, l) ==
  /\ req[p].at = "select"
  /\ draft[l] = NoDraft
  /\ draft' = [draft EXCEPT ![l] = [offer |-> req[p].offer,
                                    driver |-> req[p].driver]]
  /\ req' = [req EXCEPT ![p].at = "selectWrite", ![p].load = l]
  /\ UNCHANGED <<offer, row, sent>>

PassedOverKeepsFlag(r) == [row[r] EXCEPT !.active = FALSE]

PassedOver(r) == [row[r] EXCEPT !.active = FALSE, !.isSelected = FALSE]

SelectCommit(p) ==
  LET o == req[p].offer
      r == req[p].row
  IN /\ req[p].at = "selectWrite"
     /\ Exists(r)
     /\ row' = [q \in Rows |->
                  IF q = r
                  THEN [row[q] EXCEPT !.active = TRUE, !.isSelected = TRUE]
                  ELSE IF q \in RowsOf(o) THEN PassedOver(q)
                  ELSE row[q]]
     /\ offer' = [offer EXCEPT ![o].isDriverSelected = TRUE,
                               ![o].loadId = req[p].load, ![o].stale = FALSE]
     /\ Leave(p)
     /\ UNCHANGED <<sent, draft>>

-----------------------------------------------------------------------------
(* Deletion, time and failure.                                             *)

\* The foreign keys of rate_offers and rate_offer_counter_offers cascade.
Delete(S) ==
  /\ offer' = [o \in Offers |-> IF o \in S /\ Live(o)
                                THEN [NoOffer EXCEPT !.st = "deleted"]
                                ELSE offer[o]]
  /\ row' = [r \in Rows |-> IF row[r].offer \in S
                            THEN [NoRow EXCEPT !.offer = row[r].offer]
                            ELSE row[r]]
  /\ sent' = [k \in DOMAIN sent |-> IF k[1] \in S THEN 0 ELSE sent[k]]

\* deleteOffersForCleanup(): the ids are chosen before the transaction that
\* deletes them.
CleanupRead(p) ==
  LET doomed == {o \in Offers : Live(o) /\ (~offer[o].active \/ offer[o].stale)}
  IN /\ doomed # {}
     /\ Enter(p, [Idle EXCEPT !.at = "cleanup", !.doomed = doomed])
     /\ UNCHANGED <<offer, row, sent, draft>>

\* Webhook loaded_enroute of TMS: the ids are read in the transaction that
\* deletes them, but at READ COMMITTED nothing keeps the offers as they were.
EnrouteRead(p, l) ==
  LET doomed == {o \in Offers : offer[o].loadId = l}
  IN /\ doomed # {}
     /\ Enter(p, [Idle EXCEPT !.at = "enroute", !.doomed = doomed])
     /\ UNCHANGED <<offer, row, sent, draft>>

PurgeDoomed(p) ==
  /\ req[p].at \in {"cleanup", "enroute"}
  /\ Delete(req[p].doomed)
  /\ Leave(p)
  /\ UNCHANGED draft

\* Twelve hours without a write to update_time; only the cleanup reads it.
Age(o) ==
  /\ "cleanup" \in Traffic
  /\ Live(o)
  /\ offer' = [offer EXCEPT ![o].stale = TRUE]
  /\ UNCHANGED <<row, sent, draft, req>>

\* A request ends where it stands: its row is gone, a limit is reached, TMS
\* or the database fails, or the process stops.
Fail(p) ==
  /\ req[p].at # "idle"
  /\ Leave(p)
  /\ UNCHANGED <<offer, row, sent, draft>>

-----------------------------------------------------------------------------
StaffStep ==
  \/ \E o \in Offers : Create(o)
  \/ \E p \in Reqs, o \in Offers, ids \in SUBSET Drivers :
       UpdateBegin(p, o, ids) \/ AddBegin(p, o, ids)
  \/ \E o \in Offers : DeactivateOffer(o)
  \/ \E o \in Offers, d \in Drivers : RemoveDriver(o, d) \/ ReturnDriver(o, d)
  \/ \E p \in Reqs, o \in Offers, d \in Drivers, s \in Staff, a \in Rates :
       CounterBegin(p, o, d, s, a)
  \/ \E p \in Reqs, o \in Offers, d \in Drivers : SelectBegin(p, o, d)

DriverStep ==
  \E p \in Reqs, o \in Offers, d \in Drivers :
    \/ \E a \in Rates : RateBegin(p, o, d, a)
    \/ EtaBegin(p, o, d)
    \/ ExtendBegin(p, o, d)
    \/ \E answer \in {"accept", "decline"} : RespondBegin(p, o, d, answer)

RequestStep ==
  \E p \in Reqs :
    \/ UpdateCommit(p) \/ AddCommit(p)
    \/ BidCount(p) \/ BidWrite(p) \/ EditWrite(p) \/ EtaWrite(p) \/ ExtendWrite(p)
    \/ CounterCount(p) \/ CounterWrite(p) \/ AcceptWrite(p) \/ DeclineWrite(p)
    \/ \E l \in Loads : SelectDraft(p, l)
    \/ SelectCommit(p)
    \/ CleanupRead(p) \/ PurgeDoomed(p)
    \/ \E l \in Loads : EnrouteRead(p, l)
    \/ Fail(p)

Next ==
  StaffStep \/ DriverStep \/ RequestStep \/ (\E o \in Offers : Age(o))

Spec == Init /\ [][Next]_vars

-----------------------------------------------------------------------------
(* Properties.                                                             *)

\* Every table, draft and request keeps its shape.
TypeOK ==
  /\ offer \in [Offers -> OfferRecord]
  /\ row \in [Rows -> RowRecord]
  /\ sent \in [Offers \X Drivers \X Staff -> Nat]
  /\ draft \in [Loads -> DraftRecord]
  /\ req \in [Reqs -> ReqRecord]

SelectedRows(o) == {r \in RowsOf(o) : row[r].isSelected}

\* However selections, edits of the offer and removals of drivers interleave,
\* an offer never shows two accepted drivers.
AtMostOneSelected ==
  \A o \in Offers : \A r, q \in SelectedRows(o) : r = q

\* The three places that record an assignment agree: the flag of the offer,
\* its load, and a selected row whose driver is the one TMS drafted the load
\* for, whatever happened between the draft and the commit.
LoadMatchesSelection ==
  \A o \in Offers :
    /\ offer[o].isDriverSelected <=> offer[o].loadId # NULL
    /\ offer[o].isDriverSelected =>
         \E r \in SelectedRows(o) :
           draft[offer[o].loadId] = [offer |-> o, driver |-> row[r].driver]

\* Requests that run at the same time may each pass the check of the
\* counter-offer limit, so it is exceeded by at most one less than their number.
CounterLimitSlack ==
  \A k \in Offers \X Drivers \X Staff :
    sent[k] < MaxCounterOffers + Cardinality(Reqs)

\* A bid without a timer never runs out.  No step stops a timer under a bid, and
\* the only ones to write a bid where no timer runs are the acceptance of a
\* counter-offer and a change of price, whose rows have lost their bid meanwhile.
Untimed(R) == R.rate # NULL /\ ~R.actionTime

BidsTimed ==
  [][\A r \in Rows : Untimed(row'[r]) =>
       \/ Untimed(row[r])
       \/ /\ row[r].rate = NULL /\ ~row[r].actionTime
          /\ \E p \in Reqs : (AcceptWrite(p) \/ EditWrite(p)) /\ req[p].row = r]_vars

\* Accepting drivers through reads, a call to TMS and a transaction implements
\* the abstract assignment.
Assignment(o) ==
  IF offer[o].isDriverSelected
  THEN [driver |-> row[CHOOSE r \in SelectedRows(o) : TRUE].driver,
        load |-> offer[o].loadId]
  ELSE NULL

Abstract == INSTANCE OfferAssignment
  WITH phase <- [o \in Offers |-> offer[o].st],
       holder <- draft,
       assignment <- [o \in Offers |-> Assignment(o)]

ImplementsAssignment == Abstract!ASpec

-----------------------------------------------------------------------------
(* The inductive invariants behind these properties.                       *)

\* A row belongs to an offer that exists or existed: ids are not reused.
RowsOfKnownOffers ==
  \A r \in Rows : row[r].offer # NULL => offer[row[r].offer].st # "none"

OnRow ==
  Stages \ {"idle", "update", "add", "cleanup", "enroute"}

\* The row a request read is still a row of that offer and, unless the offer
\* is gone, of that driver.
RequestsKnowTheirRow ==
  \A p \in Reqs :
    /\ req[p].at \in OnRow =>
         /\ req[p].row \in Rows
         /\ req[p].offer \in Offers
         /\ req[p].driver \in Drivers
         /\ row[req[p].row].offer = req[p].offer
         /\ Live(req[p].offer) => row[req[p].row].driver = req[p].driver
    /\ req[p].at \in {"update", "add"} => req[p].offer \in Offers

\* Between the draft and the commit, the load is drafted for this request.
DraftsInFlight ==
  \A p \in Reqs :
    req[p].at = "selectWrite" =>
      /\ req[p].load \in Loads
      /\ draft[req[p].load] = [offer |-> req[p].offer, driver |-> req[p].driver]

SelectionInv ==
  /\ TypeOK
  /\ RowsOfKnownOffers
  /\ RequestsKnowTheirRow
  /\ DraftsInFlight
  /\ AtMostOneSelected
  /\ LoadMatchesSelection

Writing(k) == {p \in Reqs : req[p].at = "counterWrite" /\ HistoryKey(p) = k}

\* What was sent and what is about to be sent, together.
SlackInv ==
  \A k \in Offers \X Drivers \X Staff :
    sent[k] + Cardinality(Writing(k)) < MaxCounterOffers + Cardinality(Reqs)

=============================================================================
