------------------------- MODULE OfferBiddingProofs -------------------------
(***************************************************************************)
(* Proofs about OfferBidding, for any number of offers, rows, drivers,     *)
(* staff, loads and concurrent requests.                                   *)
(***************************************************************************)
EXTENDS OfferBidding, FiniteSetTheorems, TLAPS

-----------------------------------------------------------------------------
(* Types.                                                                  *)

\* The initial values of the records have their types.
LEMMA BlankTypes ==
  /\ Idle \in ReqRecord
  /\ NoRow \in RowRecord
  /\ NoOffer \in OfferRecord
  /\ NoDraft \in DraftRecord
BY DEF Idle, ReqRecord, Stages, NoRow, RowRecord, NoOffer, OfferRecord,
       Lifecycle, NoDraft, DraftRecord

\* A request that enters or leaves keeps the table of requests well typed.
LEMMA EnterType ==
  ASSUME TypeOK, NEW p, NEW r \in ReqRecord, Enter(p, r)
  PROVE  req' \in [Reqs -> ReqRecord]
BY DEF TypeOK, Enter

\* A request that ends keeps the table of requests well typed.
LEMMA LeaveType ==
  ASSUME TypeOK, NEW p, Leave(p)
  PROVE  req' \in [Reqs -> ReqRecord]
BY BlankTypes DEF TypeOK, Leave

\* The request that works on a row is well typed.
LEMMA ForType ==
  ASSUME TypeOK, NEW r \in Rows, NEW stage \in Stages
  PROVE  For(stage, r) \in ReqRecord
<1>1. row[r] \in RowRecord  BY DEF TypeOK
<1>2. row[r].offer \in Offers \cup {NULL} /\ row[r].driver \in Drivers \cup {NULL}
  BY <1>1 DEF RowRecord
<1> QED  BY <1>2 DEF For, Idle, ReqRecord

\* A new row is well typed.
LEMMA FreshRowType ==
  ASSUME NEW o \in Offers \cup {NULL}, NEW d \in Drivers
  PROVE  FreshRow(o, d) \in RowRecord
BY DEF FreshRow, NoRow, RowRecord

\* Deleting offers keeps the tables well typed.
LEMMA DeleteType ==
  ASSUME TypeOK, NEW S, Delete(S)
  PROVE  /\ offer' \in [Offers -> OfferRecord]
         /\ row' \in [Rows -> RowRecord]
         /\ sent' \in [Offers \X Drivers \X Staff -> Nat]
<1>1. offer' \in [Offers -> OfferRecord]
  BY BlankTypes DEF TypeOK, Delete, NoOffer, OfferRecord, Lifecycle
<1>2. ASSUME NEW r \in Rows  PROVE row'[r] \in RowRecord
  <2>1. row[r] \in RowRecord  BY DEF TypeOK
  <2>2. row[r].offer \in Offers \cup {NULL}  BY <2>1 DEF RowRecord
  <2> QED  BY <2>1, <2>2 DEF Delete, NoRow, RowRecord
<1>3. row' \in [Rows -> RowRecord]  BY <1>2 DEF Delete
<1>4. DOMAIN sent = Offers \X Drivers \X Staff  BY DEF TypeOK
<1>5. ASSUME NEW k \in Offers \X Drivers \X Staff
      PROVE  (IF k[1] \in S THEN 0 ELSE sent[k]) \in Nat
  BY DEF TypeOK
<1>6. sent' \in [Offers \X Drivers \X Staff -> Nat]
  BY <1>4, <1>5 DEF Delete
<1> QED  BY <1>1, <1>3, <1>6

\* Incrementing one entry of a table of counters.
LEMMA IncrementType ==
  ASSUME NEW K, NEW k, NEW f \in [K -> Nat]
  PROVE  [f EXCEPT ![k] = f[k] + 1] \in [K -> Nat]
<1> DEFINE g == [f EXCEPT ![k] = f[k] + 1]
<1>1. g = [x \in K |-> IF x = k THEN f[k] + 1 ELSE f[x]]  OBVIOUS
<1>2. ASSUME NEW x \in K  PROVE (IF x = k THEN f[k] + 1 ELSE f[x]) \in Nat
  <2>1. CASE x = k
    <3>1. f[k] \in Nat  BY <2>1
    <3> QED  BY <2>1, <3>1
  <2>2. CASE x # k  BY <2>2
  <2> QED  BY <2>1, <2>2
<1> HIDE DEF g
<1> QED  BY <1>1, <1>2 DEF g

\* Every step keeps the shape of the tables, the drafts and the requests.
LEMMA TypeStep == TypeOK /\ [Next]_vars => TypeOK'
<1> SUFFICES ASSUME TypeOK, [Next]_vars PROVE TypeOK'  OBVIOUS
<1>1. ASSUME NEW o \in Offers, Create(o)  PROVE TypeOK'
  <2>1. offer' \in [Offers -> OfferRecord]
    BY <1>1 DEF Create, TypeOK, NoOffer, OfferRecord, Lifecycle
  <2>2. PICK S \in (SUBSET FreeRows) \ {{}} : \E who \in [S -> Drivers] :
          row' = [r \in Rows |-> IF r \in S THEN FreshRow(o, who[r]) ELSE row[r]]
    BY <1>1 DEF Create
  <2>3. row' \in [Rows -> RowRecord]
    BY <2>2, FreshRowType DEF TypeOK, FreeRows
  <2> QED  BY <1>1, <2>1, <2>3 DEF Create, TypeOK
<1>2. ASSUME NEW p \in Reqs, NEW o \in Offers, NEW ids \in SUBSET Drivers,
             UpdateBegin(p, o, ids) \/ AddBegin(p, o, ids)
      PROVE  TypeOK'
  <2>1. CASE UpdateBegin(p, o, ids)
    <3>1. [Idle EXCEPT !.at = "update", !.offer = o, !.ids = ids] \in ReqRecord
      BY DEF Idle, ReqRecord, Stages
    <3>2. req' \in [Reqs -> ReqRecord]
      BY <2>1, <3>1, EnterType DEF UpdateBegin
    <3> QED  BY <2>1, <3>2 DEF UpdateBegin, TypeOK
  <2>2. CASE AddBegin(p, o, ids)
    <3> DEFINE fresh == {d \in ids : RowsOfDriver(o, d) = {}}
    <3>1. [Idle EXCEPT !.at = "add", !.offer = o, !.ids = fresh] \in ReqRecord
      BY DEF Idle, ReqRecord, Stages
    <3>2. req' \in [Reqs -> ReqRecord]
      BY <2>2, <3>1, EnterType DEF AddBegin
    <3> QED  BY <2>2, <3>2 DEF AddBegin, TypeOK
  <2> QED  BY <1>2, <2>1, <2>2
<1>3. ASSUME NEW o \in Offers, DeactivateOffer(o)  PROVE TypeOK'
  BY ZenonT(60), <1>3 DEF DeactivateOffer, TypeOK, OfferRecord
<1>4. ASSUME NEW o \in Offers, NEW d \in Drivers,
             RemoveDriver(o, d) \/ ReturnDriver(o, d)
      PROVE  TypeOK'
  <2>1. CASE RemoveDriver(o, d)
    BY ZenonT(60), <2>1 DEF RemoveDriver, RemovedRow, TypeOK, RowRecord
  <2>2. CASE ReturnDriver(o, d)
    BY ZenonT(60), <2>2 DEF ReturnDriver, Touch, TypeOK, RowRecord, OfferRecord
  <2> QED  BY <1>4, <2>1, <2>2
<1>5. ASSUME NEW p \in Reqs, NEW o \in Offers, NEW d \in Drivers,
             NEW s \in Staff, NEW a \in Rates, CounterBegin(p, o, d, s, a)
      PROVE  TypeOK'
  <2>1. PICK r \in Rows :
          Enter(p, [For("counter", r) EXCEPT !.staff = s, !.amount = a])
    BY <1>5 DEF CounterBegin, ActiveRows, RowsOfDriver, RowsOf
  <2>2. [For("counter", r) EXCEPT !.staff = s, !.amount = a] \in ReqRecord
    <3>1. For("counter", r) \in ReqRecord  BY ForType DEF Stages
    <3> QED  BY <3>1 DEF ReqRecord
  <2>3. req' \in [Reqs -> ReqRecord]  BY <2>1, <2>2, EnterType
  <2> QED  BY <1>5, <2>3 DEF CounterBegin, TypeOK
<1>6. ASSUME NEW p \in Reqs, NEW o \in Offers, NEW d \in Drivers,
             SelectBegin(p, o, d) \/ EtaBegin(p, o, d) \/ ExtendBegin(p, o, d)
      PROVE  TypeOK'
  <2>1. PICK r \in Rows, stage \in Stages : Enter(p, For(stage, r))
    BY <1>6 DEF SelectBegin, EtaBegin, ExtendBegin, ActiveRows, RowsOfDriver,
                RowsOf, Stages
  <2>2. req' \in [Reqs -> ReqRecord]  BY <2>1, ForType, EnterType
  <2> QED  BY <1>6, <2>2 DEF SelectBegin, EtaBegin, ExtendBegin, TypeOK
<1>7. ASSUME NEW p \in Reqs, NEW o \in Offers, NEW d \in Drivers,
             NEW a \in Rates, RateBegin(p, o, d, a)
      PROVE  TypeOK'
  <2>1. PICK r \in Rows, stage \in Stages :
          Enter(p, [For(stage, r) EXCEPT !.amount = a])
    BY <1>7 DEF RateBegin, ActiveRows, RowsOfDriver, RowsOf, Stages
  <2>2. [For(stage, r) EXCEPT !.amount = a] \in ReqRecord
    BY ForType DEF ReqRecord
  <2>3. req' \in [Reqs -> ReqRecord]  BY <2>1, <2>2, EnterType
  <2> QED  BY <1>7, <2>3 DEF RateBegin, TypeOK
<1>8. ASSUME NEW p \in Reqs, NEW o \in Offers, NEW d \in Drivers,
             NEW answer \in {"accept", "decline"}, RespondBegin(p, o, d, answer)
      PROVE  TypeOK'
  <2>1. PICK r \in Rows :
          Enter(p, [For(answer, r) EXCEPT !.amount = IF answer = "accept"
                                                     THEN row[r].counterOffer
                                                     ELSE NULL])
    BY <1>8 DEF RespondBegin, ActiveRows, RowsOfDriver, RowsOf
  <2>2. row[r].counterOffer \in Rates \cup {NULL}  BY DEF TypeOK, RowRecord
  <2>3. [For(answer, r) EXCEPT !.amount = IF answer = "accept"
                                          THEN row[r].counterOffer
                                          ELSE NULL] \in ReqRecord
    BY <2>2, ForType DEF Stages, ReqRecord
  <2>4. req' \in [Reqs -> ReqRecord]  BY <2>1, <2>3, EnterType
  <2> QED  BY <1>8, <2>4 DEF RespondBegin, TypeOK
<1>9. ASSUME NEW p \in Reqs, UpdateCommit(p)  PROVE TypeOK'
  <2> DEFINE o == req[p].offer
             missing == {d \in req[p].ids : RowsOfDriver(o, d) = {}}
  <2>1. req[p] \in ReqRecord  BY DEF TypeOK
  <2>2. o \in Offers \cup {NULL} /\ missing \subseteq Drivers
    BY <2>1 DEF ReqRecord
  <2>3. offer' \in [Offers -> OfferRecord]
    <3>1. offer' = [offer EXCEPT ![req[p].offer].isDriverSelected = FALSE,
                                 ![req[p].offer].loadId = NULL,
                                 ![req[p].offer].stale = FALSE]
      BY <1>9 DEF Reopened, UpdateCommit
    <3> QED  BY ZenonT(60), <3>1 DEF TypeOK, OfferRecord
  <2>4. PICK keep \in [req[p].ids \ missing -> RowsOf(o)], S \in SUBSET FreeRows :
        \E who \in Bijection(S, missing) :
          row' = [r \in Rows |->
                    IF r \in S THEN FreshRow(o, who[r])
                    ELSE IF r \in Range(keep) THEN ResetRow(r)
                    ELSE IF r \in RowsOf(o) /\ row[r].driver \notin req[p].ids
                         THEN ClearedRow(r)
                    ELSE row[r]]
    BY ZenonT(60), <1>9 DEF UpdateCommit
  <2>5. ASSUME NEW who \in Bijection(S, missing)
        PROVE  \A r \in S : who[r] \in Drivers
    BY <2>2, <2>5 DEF Bijection, Injection
  <2>6. \A r \in Rows : /\ ResetRow(r) \in RowRecord
                        /\ ClearedRow(r) \in RowRecord
                        /\ row[r] \in RowRecord
    BY ZenonT(60) DEF ResetRow, ClearedRow, TypeOK, RowRecord
  <2>7. row' \in [Rows -> RowRecord]
    <3> HIDE DEF o, missing
    <3> QED  BY <2>2, <2>4, <2>5, <2>6, FreshRowType
  <2> QED  BY <1>9, <2>3, <2>7, LeaveType DEF UpdateCommit, Reopened, TypeOK
<1>10. ASSUME NEW p \in Reqs, AddCommit(p)  PROVE TypeOK'
  <2> DEFINE o == req[p].offer
  <2>1. req[p] \in ReqRecord  BY DEF TypeOK
  <2>2. o \in Offers \cup {NULL} /\ req[p].ids \subseteq Drivers
    BY <2>1 DEF ReqRecord
  <2>3. offer' \in [Offers -> OfferRecord]
    BY ZenonT(60), <1>10 DEF AddCommit, Touch, TypeOK, OfferRecord
  <2>4. PICK S \in SUBSET FreeRows :
        \E who \in Bijection(S, req[p].ids) :
          row' = [r \in Rows |-> IF r \in S THEN FreshRow(o, who[r]) ELSE row[r]]
    BY <1>10 DEF AddCommit
  <2>5. ASSUME NEW who \in Bijection(S, req[p].ids)
        PROVE  \A r \in S : who[r] \in Drivers
    BY <2>2, <2>5 DEF Bijection, Injection
  <2>6. row' \in [Rows -> RowRecord]
    <3> HIDE DEF o
    <3> QED  BY <2>2, <2>4, <2>5, FreshRowType DEF TypeOK
  <2> QED  BY <1>10, <2>3, <2>6, LeaveType DEF AddCommit, TypeOK
<1>11. ASSUME NEW p \in Reqs, BidCount(p) \/ CounterCount(p)  PROVE TypeOK'
  <2>1. PICK stage \in Stages : req' = [req EXCEPT ![p].at = stage]
    BY <1>11 DEF BidCount, CounterCount, Stages
  <2>2. req' \in [Reqs -> ReqRecord]  BY SMTT(60), <2>1 DEF TypeOK, ReqRecord
  <2> QED  BY <1>11, <2>2 DEF BidCount, CounterCount, TypeOK
<1>12. ASSUME NEW p \in Reqs,
              BidWrite(p) \/ EditWrite(p) \/ EtaWrite(p) \/ ExtendWrite(p)
              \/ AcceptWrite(p) \/ DeclineWrite(p)
       PROVE  TypeOK'
  <2>1. req[p] \in ReqRecord  BY DEF TypeOK
  <2>2. req[p].amount \in Rates \cup {NULL}  BY <2>1 DEF ReqRecord
  <2>3. req' \in [Reqs -> ReqRecord]
    BY <1>12, LeaveType DEF BidWrite, EditWrite, EtaWrite, ExtendWrite,
                            AcceptWrite, DeclineWrite
  <2>4. row' \in [Rows -> RowRecord]
    <3>1. CASE BidWrite(p)
      <4>1. PICK eta \in BOOLEAN :
              row' = [row EXCEPT ![req[p].row].rate = req[p].amount,
                                 ![req[p].row].actionTime = TRUE,
                                 ![req[p].row].driverEta = eta]
        BY <3>1 DEF BidWrite
      <4>2. \A r \in Rows :
              [row[r] EXCEPT !.rate = req[p].amount, !.actionTime = TRUE,
                             !.driverEta = eta] \in RowRecord
        BY ZenonT(60), <2>2 DEF TypeOK, RowRecord
      <4> QED  BY <4>1, <4>2 DEF TypeOK
    <3>2. CASE EditWrite(p)    BY ZenonT(60), <3>2, <2>2 DEF EditWrite, TypeOK, RowRecord
    <3>3. CASE EtaWrite(p)
      <4>1. \A r \in Rows : row[r].actionTime \in BOOLEAN
        BY DEF TypeOK, RowRecord
      <4>2. \A r \in Rows :
              ((req[p].at = "etaRefresh") \/ row[r].actionTime) \in BOOLEAN
        BY <4>1
      <4>3. row' = [row EXCEPT ![req[p].row].driverEta = TRUE,
                               ![req[p].row].actionTime =
                                  (req[p].at = "etaRefresh") \/ @]
        BY <3>3 DEF EtaWrite
      <4>4. \A r \in Rows :
              [row[r] EXCEPT !.driverEta = TRUE,
                             !.actionTime = (req[p].at = "etaRefresh") \/ @]
              \in RowRecord
        BY <4>2 DEF TypeOK, RowRecord
      <4> QED  BY <4>3, <4>4 DEF TypeOK
    <3>4. CASE ExtendWrite(p)  BY ZenonT(60), <3>4 DEF ExtendWrite, TypeOK, RowRecord
    <3>5. CASE AcceptWrite(p)
      <4>1. row' = [row EXCEPT ![req[p].row].rate = req[p].amount,
                               ![req[p].row].counterOffer = NULL]
        BY <3>5 DEF AcceptWrite
      <4>2. \A r \in Rows :
              [row[r] EXCEPT !.rate = req[p].amount, !.counterOffer = NULL]
              \in RowRecord
        BY <2>2 DEF TypeOK, RowRecord
      <4> QED  BY <4>1, <4>2 DEF TypeOK
    <3>6. CASE DeclineWrite(p) BY ZenonT(60), <3>6 DEF DeclineWrite, TypeOK, RowRecord
    <3> QED  BY <1>12, <3>1, <3>2, <3>3, <3>4, <3>5, <3>6
  <2> QED  BY <1>12, <2>3, <2>4
           DEF BidWrite, EditWrite, EtaWrite, ExtendWrite, AcceptWrite,
               DeclineWrite, TypeOK
<1>13. ASSUME NEW p \in Reqs, CounterWrite(p)  PROVE TypeOK'
  <2>1. req[p] \in ReqRecord  BY DEF TypeOK
  <2>2. req[p].amount \in Rates \cup {NULL}  BY <2>1 DEF ReqRecord
  <2>3. row' \in [Rows -> RowRecord]
    BY ZenonT(60), <1>13, <2>2 DEF CounterWrite, TypeOK, RowRecord
  <2>4. sent' \in [Offers \X Drivers \X Staff -> Nat]
    <3> HIDE DEF HistoryKey
    <3>1. sent' = [sent EXCEPT ![HistoryKey(p)] = sent[HistoryKey(p)] + 1]
      BY <1>13 DEF CounterWrite
    <3>2. sent \in [Offers \X Drivers \X Staff -> Nat]  BY DEF TypeOK
    <3> QED  BY <3>1, <3>2, IncrementType
  <2> QED  BY <1>13, <2>3, <2>4, LeaveType DEF CounterWrite, TypeOK
<1>14. ASSUME NEW p \in Reqs, NEW l \in Loads, SelectDraft(p, l)  PROVE TypeOK'
  <2>1. req[p] \in ReqRecord  BY DEF TypeOK
  <2>2. req[p].offer \in Offers \cup {NULL} /\ req[p].driver \in Drivers \cup {NULL}
    BY <2>1 DEF ReqRecord
  <2>3. draft' \in [Loads -> DraftRecord]
    BY <1>14, <2>2 DEF SelectDraft, TypeOK, DraftRecord
  <2>4. req' \in [Reqs -> ReqRecord]
    BY ZenonT(60), <1>14, <2>1 DEF SelectDraft, TypeOK, ReqRecord, Stages
  <2> QED  BY <1>14, <2>3, <2>4 DEF SelectDraft, TypeOK
<1>15. ASSUME NEW p \in Reqs, SelectCommit(p)  PROVE TypeOK'
  <2>1. req[p] \in ReqRecord  BY DEF TypeOK
  <2>2. req[p].load \in Loads \cup {NULL}  BY <2>1 DEF ReqRecord
  <2>3. offer' \in [Offers -> OfferRecord]
    BY ZenonT(60), <1>15, <2>2 DEF SelectCommit, TypeOK, OfferRecord
  <2>4. row' \in [Rows -> RowRecord]
    BY ZenonT(60), <1>15 DEF SelectCommit, PassedOver, TypeOK, RowRecord
  <2> QED  BY <1>15, <2>3, <2>4, LeaveType DEF SelectCommit, TypeOK
<1>16. ASSUME NEW p \in Reqs, CleanupRead(p)  PROVE TypeOK'
  <2> DEFINE doomed ==
        {o \in Offers : Live(o) /\ (~offer[o].active \/ offer[o].stale)}
  <2>1. [Idle EXCEPT !.at = "cleanup", !.doomed = doomed] \in ReqRecord
    BY DEF Idle, ReqRecord, Stages
  <2>2. req' \in [Reqs -> ReqRecord]
    BY <1>16, <2>1, EnterType DEF CleanupRead
  <2> QED  BY <1>16, <2>2 DEF CleanupRead, TypeOK
<1>17. ASSUME NEW p \in Reqs, PurgeDoomed(p)  PROVE TypeOK'
  BY <1>17, DeleteType, LeaveType DEF PurgeDoomed, TypeOK
<1>18. ASSUME NEW p \in Reqs, Fail(p)  PROVE TypeOK'
  BY <1>18, LeaveType DEF Fail, TypeOK
<1>19. ASSUME NEW p \in Reqs, NEW l \in Loads, EnrouteRead(p, l)  PROVE TypeOK'
  <2> DEFINE doomed == {o \in Offers : offer[o].loadId = l}
  <2>1. [Idle EXCEPT !.at = "enroute", !.doomed = doomed] \in ReqRecord
    BY DEF Idle, ReqRecord, Stages
  <2>2. req' \in [Reqs -> ReqRecord]
    BY <1>19, <2>1, EnterType DEF EnrouteRead
  <2> QED  BY <1>19, <2>2 DEF EnrouteRead, TypeOK
<1>20. ASSUME NEW o \in Offers, Age(o)  PROVE TypeOK'
  BY <1>20 DEF Age, TypeOK, OfferRecord
<1>21. CASE UNCHANGED vars
  BY <1>21 DEF vars, TypeOK
<1> QED
  BY <1>1, <1>2, <1>3, <1>4, <1>5, <1>6, <1>7, <1>8, <1>9, <1>10, <1>11,
     <1>12, <1>13, <1>14, <1>15, <1>16, <1>17, <1>18, <1>19, <1>20, <1>21
  DEF Next, StaffStep, DriverStep, RequestStep

\* The initial tables have their shape.
LEMMA InitType == Init => TypeOK
<1> SUFFICES ASSUME Init PROVE TypeOK  OBVIOUS
<1> QED  BY BlankTypes DEF Init, TypeOK

\* The tables, the drafts and the requests always have their shape.
THEOREM TypeCorrect == Spec => []TypeOK
BY InitType, TypeStep, PTL DEF Spec

-----------------------------------------------------------------------------
(* The limit on counter-offers.                                            *)

\* A request that comes in is not about to write a counter-offer.
LEMMA EnterWriting ==
  ASSUME TypeOK, NEW p \in Reqs, NEW r, Enter(p, r),
         r.at # "counterWrite", NEW k
  PROVE  Writing(k)' \subseteq Writing(k)
<1>1. req'[p].at # "counterWrite"  BY DEF Enter, TypeOK
<1>2. \A q \in Reqs : q # p => req'[q] = req[q]  BY DEF Enter, TypeOK
<1> QED  BY <1>1, <1>2 DEF Writing, HistoryKey

\* A request that ends is no longer about to write a counter-offer.
LEMMA LeaveWriting ==
  ASSUME TypeOK, NEW p \in Reqs, Leave(p), NEW k
  PROVE  Writing(k)' = Writing(k) \ {p}
<1>1. req'[p].at # "counterWrite"  BY DEF Leave, TypeOK, Idle
<1>2. \A q \in Reqs : q # p => req'[q] = req[q]  BY DEF Leave, TypeOK
<1> QED  BY <1>1, <1>2 DEF Writing, HistoryKey

\* The writers are some of the requests.
LEMMA WritingFinite ==
  ASSUME NEW k
  PROVE  /\ IsFiniteSet(Writing(k))
         /\ Cardinality(Writing(k)) \in Nat
         /\ Cardinality(Writing(k)) <= Cardinality(Reqs)
<1>1. Writing(k) \subseteq Reqs  BY DEF Writing
<1> QED  BY <1>1, ReqsAssumption, FS_Subset, FS_CardinalityType

\* A step that neither sends nor gets ready to send keeps the sum in bounds.
LEMMA SlackKept ==
  ASSUME TypeOK, TypeOK', SlackInv,
         \A k \in Offers \X Drivers \X Staff :
            sent'[k] <= sent[k] /\ Writing(k)' \subseteq Writing(k)
  PROVE  SlackInv'
<1> SUFFICES ASSUME NEW k \in Offers \X Drivers \X Staff
             PROVE  sent'[k] + Cardinality(Writing(k)')
                      < MaxCounterOffers + Cardinality(Reqs)
  BY DEF SlackInv
<1>1. sent[k] \in Nat /\ sent'[k] \in Nat  BY DEF TypeOK
<1>2. Cardinality(Writing(k)') <= Cardinality(Writing(k))
  BY WritingFinite, FS_Subset
<1>3. Cardinality(Writing(k)') \in Nat /\ Cardinality(Writing(k)) \in Nat
  BY WritingFinite, FS_Subset, FS_CardinalityType
<1>4. Cardinality(Reqs) \in Nat /\ MaxCounterOffers \in Nat
  BY ReqsAssumption, LimitsAssumption, FS_CardinalityType
<1>5. sent[k] + Cardinality(Writing(k)) < MaxCounterOffers + Cardinality(Reqs)
  BY DEF SlackInv
<1> QED  BY <1>1, <1>2, <1>3, <1>4, <1>5

\* Every step keeps what was sent and is about to be sent within the slack.
LEMMA SlackStep == TypeOK /\ SlackInv /\ [Next]_vars => SlackInv'
<1> SUFFICES ASSUME TypeOK, SlackInv, [Next]_vars  PROVE SlackInv'
  OBVIOUS
<1> DEFINE K == Offers \X Drivers \X Staff
<1>1. TypeOK'  BY TypeStep
<1>2. \A k \in K : sent[k] \in Nat  BY DEF TypeOK
<1>3. ASSUME UNCHANGED <<sent, req>>  PROVE SlackInv'
  BY <1>1, <1>2, <1>3, SlackKept DEF Writing, HistoryKey
<1>4. ASSUME NEW p \in Reqs, NEW r, Enter(p, r), r.at # "counterWrite",
             UNCHANGED sent
      PROVE  SlackInv'
  BY <1>1, <1>2, <1>4, EnterWriting, SlackKept
<1>5. ASSUME NEW p \in Reqs, Leave(p), UNCHANGED sent  PROVE SlackInv'
  BY <1>1, <1>2, <1>5, LeaveWriting, SlackKept
<1>6. ASSUME NEW S, Delete(S)  PROVE \A k \in K : sent'[k] <= sent[k]
  <2> SUFFICES ASSUME NEW k \in K  PROVE sent'[k] <= sent[k]  OBVIOUS
  <2>1. DOMAIN sent = K  BY DEF TypeOK
  <2>2. sent'[k] = IF k[1] \in S THEN 0 ELSE sent[k]
    BY <1>6, <2>1 DEF Delete
  <2> QED  BY <1>2, <2>2
<1>7. ASSUME NEW p \in Reqs, CounterCount(p)  PROVE SlackInv'
  <2> SUFFICES ASSUME NEW k \in K
               PROVE  sent'[k] + Cardinality(Writing(k)')
                        < MaxCounterOffers + Cardinality(Reqs)
    BY DEF SlackInv
  <2>1. CASE k = HistoryKey(p)
    <3>1. sent'[k] = sent[k] /\ sent[k] < MaxCounterOffers
      BY <1>7, <2>1 DEF CounterCount, UnderLimit
    <3>2. Writing(k)' \subseteq Reqs  BY DEF Writing
    <3>3. Cardinality(Writing(k)') \in Nat /\ Cardinality(Reqs) \in Nat
          /\ Cardinality(Writing(k)') <= Cardinality(Reqs)
      BY <3>2, ReqsAssumption, FS_Subset, FS_CardinalityType
    <3> QED  BY <1>2, <3>1, <3>3, LimitsAssumption
  <2>2. CASE k # HistoryKey(p)
    <3>1. \A q \in Reqs : /\ HistoryKey(q)' = HistoryKey(q)
                          /\ q # p => req'[q] = req[q]
      BY <1>7 DEF CounterCount, HistoryKey, TypeOK
    <3>2. Writing(k)' = Writing(k)
      BY <2>2, <3>1 DEF Writing
    <3>3. sent' = sent  BY <1>7 DEF CounterCount
    <3>4. sent[k] + Cardinality(Writing(k)) < MaxCounterOffers + Cardinality(Reqs)
      BY DEF SlackInv
    <3> QED  BY <3>2, <3>3, <3>4
  <2> QED  BY <2>1, <2>2
<1>8. ASSUME NEW p \in Reqs, CounterWrite(p)  PROVE SlackInv'
  <2> SUFFICES ASSUME NEW k \in K
               PROVE  sent'[k] + Cardinality(Writing(k)')
                        < MaxCounterOffers + Cardinality(Reqs)
    BY DEF SlackInv
  <2>1. Leave(p)  BY <1>8 DEF CounterWrite
  <2>2. Writing(k)' = Writing(k) \ {p}  BY <2>1, LeaveWriting
  <2>3. sent[k] + Cardinality(Writing(k)) < MaxCounterOffers + Cardinality(Reqs)
    BY DEF SlackInv
  <2>4. Cardinality(Reqs) \in Nat /\ Cardinality(Writing(k)) \in Nat
    BY ReqsAssumption, FS_CardinalityType, WritingFinite
  <2>5. sent' = [sent EXCEPT ![HistoryKey(p)] = @ + 1]
    BY <1>8 DEF CounterWrite
  <2>6. CASE k = HistoryKey(p)
    <3>1. p \in Writing(k)  BY <1>8, <2>6 DEF CounterWrite, Writing
    <3>2. Cardinality(Writing(k)') = Cardinality(Writing(k)) - 1
      BY <2>2, <3>1, WritingFinite, FS_RemoveElement
    <3>3. sent'[k] = sent[k] + 1
      <4> HIDE DEF HistoryKey
      <4> QED  BY <2>5, <2>6 DEF TypeOK
    <3> QED  BY <1>2, <2>3, <2>4, <3>2, <3>3, LimitsAssumption
  <2>7. CASE k # HistoryKey(p)
    <3>1. p \notin Writing(k)  BY <2>7 DEF Writing
    <3>2. Writing(k)' = Writing(k)  BY <2>2, <3>1
    <3>3. sent'[k] = sent[k]
      <4> HIDE DEF HistoryKey
      <4> QED  BY <2>5, <2>7 DEF TypeOK
    <3> QED  BY <2>3, <3>2, <3>3
  <2> QED  BY <2>6, <2>7
<1>9. CASE StaffStep
  <2>1. ASSUME NEW p \in Reqs, NEW o \in Offers, NEW ids, UpdateBegin(p, o, ids)
        PROVE  SlackInv'
    <3>1. Enter(p, [Idle EXCEPT !.at = "update", !.offer = o, !.ids = ids])
      BY <2>1 DEF UpdateBegin
    <3> QED  BY <1>4, <2>1, <3>1 DEF UpdateBegin, Idle
  <2>2. ASSUME NEW p \in Reqs, NEW o \in Offers, NEW ids, AddBegin(p, o, ids)
        PROVE  SlackInv'
    <3>1. PICK fresh : Enter(p, [Idle EXCEPT !.at = "add", !.offer = o, !.ids = fresh])
      BY <2>2 DEF AddBegin
    <3> QED  BY <1>4, <2>2, <3>1 DEF AddBegin, Idle
  <2>3. ASSUME NEW p \in Reqs, NEW o \in Offers, NEW d \in Drivers,
               NEW s \in Staff, NEW a \in Rates, CounterBegin(p, o, d, s, a)
        PROVE  SlackInv'
    <3>1. PICK r : Enter(p, [For("counter", r) EXCEPT !.staff = s, !.amount = a])
      BY <2>3 DEF CounterBegin
    <3> QED  BY <1>4, <2>3, <3>1 DEF CounterBegin, For, Idle
  <2>4. ASSUME NEW p \in Reqs, NEW o \in Offers, NEW d \in Drivers,
               SelectBegin(p, o, d)
        PROVE  SlackInv'
    <3>1. PICK r : Enter(p, For("select", r))  BY <2>4 DEF SelectBegin
    <3> QED  BY <1>4, <2>4, <3>1 DEF SelectBegin, For, Idle
  <2> QED  BY <1>3, <1>9, <2>1, <2>2, <2>3, <2>4
           DEF StaffStep, Create, DeactivateOffer, RemoveDriver, ReturnDriver
<1>10. CASE DriverStep
  <2> PICK p \in Reqs, o \in Offers, d \in Drivers :
        \/ \E a \in Rates : RateBegin(p, o, d, a)
        \/ EtaBegin(p, o, d)
        \/ ExtendBegin(p, o, d)
        \/ \E answer \in {"accept", "decline"} : RespondBegin(p, o, d, answer)
    BY <1>10 DEF DriverStep
  <2>1. ASSUME NEW a \in Rates, RateBegin(p, o, d, a)  PROVE SlackInv'
    <3>1. PICK r :
            Enter(p, [For(IF row[r].rate = NULL THEN "bid" ELSE "edit", r)
                        EXCEPT !.amount = a])
      BY <2>1 DEF RateBegin
    <3> QED  BY <1>4, <2>1, <3>1 DEF RateBegin, For, Idle
  <2>2. CASE EtaBegin(p, o, d)
    <3>1. PICK r : \E stage \in {"eta", "etaRefresh"} : Enter(p, For(stage, r))
      BY <2>2 DEF EtaBegin
    <3> QED  BY <1>4, <2>2, <3>1 DEF EtaBegin, For, Idle
  <2>3. CASE ExtendBegin(p, o, d)
    <3>1. PICK r : Enter(p, For("extend", r))  BY <2>3 DEF ExtendBegin
    <3> QED  BY <1>4, <2>3, <3>1 DEF ExtendBegin, For, Idle
  <2>4. ASSUME NEW answer \in {"accept", "decline"}, RespondBegin(p, o, d, answer)
        PROVE  SlackInv'
    <3>1. PICK r, a : Enter(p, [For(answer, r) EXCEPT !.amount = a])
      BY <2>4 DEF RespondBegin
    <3> QED  BY <1>4, <2>4, <3>1 DEF RespondBegin, For, Idle
  <2> QED  BY <2>1, <2>2, <2>3, <2>4
<1>11. ASSUME NEW p \in Reqs,
              UpdateCommit(p) \/ AddCommit(p) \/ BidWrite(p) \/ EditWrite(p)
              \/ EtaWrite(p) \/ ExtendWrite(p) \/ AcceptWrite(p)
              \/ DeclineWrite(p) \/ SelectCommit(p) \/ Fail(p)
       PROVE  SlackInv'
  BY <1>5, <1>11 DEF UpdateCommit, AddCommit, BidWrite, EditWrite, EtaWrite,
     ExtendWrite, AcceptWrite, DeclineWrite, SelectCommit, Fail
<1>12. ASSUME NEW p \in Reqs, NEW l \in Loads, SelectDraft(p, l)
       PROVE  SlackInv'
  <2>1. req'[p].at # "counterWrite"  BY <1>12 DEF SelectDraft, TypeOK
  <2>2. \A q \in Reqs : q # p => req'[q] = req[q]
    BY <1>12 DEF SelectDraft, TypeOK
  <2>3. \A k : Writing(k)' \subseteq Writing(k)
    BY <2>1, <2>2 DEF Writing, HistoryKey
  <2>4. sent' = sent  BY <1>12 DEF SelectDraft
  <2> QED  BY <1>1, <1>2, <2>3, <2>4, SlackKept
<1>13. ASSUME NEW p \in Reqs, BidCount(p)  PROVE SlackInv'
  <2>1. req'[p].at # "counterWrite"  BY <1>13 DEF BidCount, TypeOK
  <2>2. \A q \in Reqs : q # p => req'[q] = req[q]  BY <1>13 DEF BidCount, TypeOK
  <2>3. \A k : Writing(k)' \subseteq Writing(k)
    BY <2>1, <2>2 DEF Writing, HistoryKey
  <2>4. sent' = sent  BY <1>13 DEF BidCount
  <2> QED  BY <1>1, <1>2, <2>3, <2>4, SlackKept
<1>14. ASSUME NEW p \in Reqs, CleanupRead(p)  PROVE SlackInv'
  <2>1. PICK doomed : Enter(p, [Idle EXCEPT !.at = "cleanup", !.doomed = doomed])
    BY <1>14 DEF CleanupRead
  <2> QED  BY <1>4, <1>14, <2>1 DEF CleanupRead, Idle
<1>15. ASSUME NEW p \in Reqs, PurgeDoomed(p)  PROVE SlackInv'
  <2>1. PICK S : Delete(S)  BY <1>15 DEF PurgeDoomed
  <2>2. Leave(p)  BY <1>15 DEF PurgeDoomed
  <2> QED  BY <1>1, <1>6, <2>1, <2>2, LeaveWriting, SlackKept
<1>16. ASSUME NEW p \in Reqs, NEW l \in Loads, EnrouteRead(p, l)  PROVE SlackInv'
  <2>1. PICK doomed : Enter(p, [Idle EXCEPT !.at = "enroute", !.doomed = doomed])
    BY <1>16 DEF EnrouteRead
  <2> QED  BY <1>4, <1>16, <2>1 DEF EnrouteRead, Idle
<1>18. ASSUME NEW o \in Offers, Age(o)  PROVE SlackInv'
  BY <1>3, <1>18 DEF Age
<1>17. CASE UNCHANGED vars  BY <1>3, <1>17 DEF vars
<1> QED
  BY <1>7, <1>8, <1>9, <1>10, <1>11, <1>12, <1>13, <1>14, <1>15, <1>16, <1>17, <1>18
  DEF Next, RequestStep

\* Racing requests exceed the limit on counter-offers by less than their number.
THEOREM CounterLimitSlackHolds == Spec => []CounterLimitSlack
<1>1. Init => SlackInv
  <2> SUFFICES ASSUME Init, NEW k \in Offers \X Drivers \X Staff
               PROVE  sent[k] + Cardinality(Writing(k))
                        < MaxCounterOffers + Cardinality(Reqs)
    BY DEF SlackInv
  <2>1. sent[k] = 0  BY DEF Init
  <2>2. Writing(k) = {}  BY DEF Init, Writing, Idle
  <2>3. Cardinality(Writing(k)) = 0  BY <2>2, FS_EmptySet
  <2> QED
    BY <2>1, <2>3, ReqsAssumption, LimitsAssumption, FS_CardinalityType
<1>2. TypeOK /\ SlackInv => CounterLimitSlack
  <2> SUFFICES ASSUME TypeOK, SlackInv, NEW k \in Offers \X Drivers \X Staff
               PROVE  sent[k] < MaxCounterOffers + Cardinality(Reqs)
    BY DEF CounterLimitSlack
  <2>1. sent[k] + Cardinality(Writing(k)) < MaxCounterOffers + Cardinality(Reqs)
    BY DEF SlackInv
  <2>2. sent[k] \in Nat /\ Cardinality(Writing(k)) \in Nat
        /\ Cardinality(Reqs) \in Nat /\ MaxCounterOffers \in Nat
    BY WritingFinite, ReqsAssumption, LimitsAssumption, FS_CardinalityType
       DEF TypeOK
  <2> QED  BY <2>1, <2>2
<1> QED  BY <1>1, <1>2, TypeCorrect, SlackStep, PTL DEF Spec

-----------------------------------------------------------------------------
(* Who owns a row.                                                         *)

\* A step never moves a row to another offer, nor to another driver while its
\* offer is live; it adds rows to live offers only; and it never reopens one.
Ownership ==
  /\ \A r \in Rows :
       row[r].offer # NULL =>
         /\ row'[r].offer = row[r].offer
         /\ offer'[row[r].offer].st = "live" => row'[r].driver = row[r].driver
  /\ \A r \in Rows :
       row[r].offer = NULL /\ row'[r].offer # NULL
         => offer'[row'[r].offer].st = "live"
  /\ \A o \in Offers :
       offer[o].st # "none" => /\ offer'[o].st # "none"
                               /\ offer'[o].st = "live" => Live(o)

\* The step leaves offers, drivers and selections of rows as they are.
SelectionKept ==
  /\ \A r \in Rows : /\ row'[r].offer = row[r].offer
                     /\ row'[r].driver = row[r].driver
                     /\ row'[r].isSelected = row[r].isSelected
  /\ \A o \in Offers : /\ offer'[o].st = offer[o].st
                       /\ offer'[o].isDriverSelected = offer[o].isDriverSelected
                       /\ offer'[o].loadId = offer[o].loadId

\* Changing the other columns of a row changes neither owner nor existence.
LEMMA KeptOwnership ==
  ASSUME TypeOK, SelectionKept  PROVE Ownership
<1>1. \A r \in Rows : row[r].offer \in Offers \cup {NULL}
  BY DEF TypeOK, RowRecord
<1> QED  BY <1>1 DEF SelectionKept, Ownership, Live

\* The steps that leave the selection alone.
QuietStep ==
  \/ UNCHANGED <<offer, row>>
  \/ \E o \in Offers : DeactivateOffer(o) \/ Age(o)
  \/ \E o \in Offers, d \in Drivers : RemoveDriver(o, d) \/ ReturnDriver(o, d)
  \/ \E p \in Reqs :
       \/ BidWrite(p) \/ EditWrite(p) \/ EtaWrite(p) \/ ExtendWrite(p)
       \/ CounterWrite(p) \/ AcceptWrite(p) \/ DeclineWrite(p)

\* The steps of drivers and of the negotiation leave owners and selections.
LEMMA QuietKept ==
  ASSUME TypeOK, QuietStep  PROVE SelectionKept
<1>1. CASE UNCHANGED <<offer, row>>  BY <1>1 DEF SelectionKept
<1>2. ASSUME NEW o \in Offers, DeactivateOffer(o) \/ Age(o)  PROVE SelectionKept
  <2>1. CASE DeactivateOffer(o)
    BY <2>1 DEF DeactivateOffer, SelectionKept, TypeOK, OfferRecord
  <2>2. CASE Age(o)
    BY <2>2 DEF Age, SelectionKept, TypeOK, OfferRecord
  <2> QED  BY <1>2, <2>1, <2>2
<1>3. ASSUME NEW o \in Offers, NEW d \in Drivers, RemoveDriver(o, d)
      PROVE  SelectionKept
  BY ZenonT(60), <1>3 DEF RemoveDriver, RemovedRow, SelectionKept, TypeOK, RowRecord
<1>4. ASSUME NEW o \in Offers, NEW d \in Drivers, ReturnDriver(o, d)
      PROVE  SelectionKept
  BY <1>4 DEF ReturnDriver, Touch, SelectionKept, TypeOK, RowRecord, OfferRecord
<1>5. ASSUME NEW p \in Reqs, BidWrite(p)  PROVE SelectionKept
  <2>1. PICK eta \in BOOLEAN :
          row' = [row EXCEPT ![req[p].row].rate = req[p].amount,
                             ![req[p].row].actionTime = TRUE,
                             ![req[p].row].driverEta = eta]
    BY <1>5 DEF BidWrite
  <2>2. offer' = offer  BY <1>5 DEF BidWrite
  <2> QED  BY SMTT(60), <2>1, <2>2 DEF SelectionKept, TypeOK, RowRecord
<1>6. ASSUME NEW p \in Reqs, EditWrite(p)  PROVE SelectionKept
  BY <1>6 DEF EditWrite, SelectionKept, TypeOK, RowRecord
<1>7. ASSUME NEW p \in Reqs, EtaWrite(p)  PROVE SelectionKept
  <2>1. PICK timer :
          row' = [row EXCEPT ![req[p].row].driverEta = TRUE,
                             ![req[p].row].actionTime = timer]
    BY <1>7 DEF EtaWrite
  <2>2. offer' = offer  BY <1>7 DEF EtaWrite
  <2> QED  BY <2>1, <2>2 DEF SelectionKept, TypeOK, RowRecord
<1>8. ASSUME NEW p \in Reqs, ExtendWrite(p)  PROVE SelectionKept
  BY <1>8 DEF ExtendWrite, SelectionKept, TypeOK, RowRecord
<1>9. ASSUME NEW p \in Reqs, CounterWrite(p)  PROVE SelectionKept
  BY <1>9 DEF CounterWrite, SelectionKept, TypeOK, RowRecord
<1>10. ASSUME NEW p \in Reqs, AcceptWrite(p)  PROVE SelectionKept
  BY <1>10 DEF AcceptWrite, SelectionKept, TypeOK, RowRecord
<1>11. ASSUME NEW p \in Reqs, DeclineWrite(p)  PROVE SelectionKept
  BY <1>11 DEF DeclineWrite, SelectionKept, TypeOK, RowRecord
<1> QED
  BY <1>1, <1>2, <1>3, <1>4, <1>5, <1>6, <1>7, <1>8, <1>9, <1>10, <1>11
  DEF QuietStep

\* Every other step creates, edits, fills, assigns or deletes an offer.
LEMMA StepKinds ==
  ASSUME [Next]_vars
  PROVE  \/ QuietStep
         \/ \E o \in Offers : Create(o)
         \/ \E p \in Reqs : UpdateCommit(p) \/ AddCommit(p) \/ SelectCommit(p)
         \/ \E S : Delete(S) /\ UNCHANGED draft
<1>1. CASE StaffStep
  BY <1>1 DEF StaffStep, QuietStep, UpdateBegin, AddBegin, CounterBegin, SelectBegin
<1>2. CASE DriverStep
  BY <1>2 DEF DriverStep, QuietStep, RateBegin, EtaBegin, ExtendBegin, RespondBegin
<1>3. CASE RequestStep
  BY <1>3 DEF RequestStep, QuietStep, BidCount, CounterCount, SelectDraft,
              CleanupRead, EnrouteRead, PurgeDoomed, Fail
<1>4. CASE \E o \in Offers : Age(o)
  BY <1>4 DEF QuietStep
<1>5. CASE UNCHANGED vars  BY <1>5 DEF vars, QuietStep
<1> QED  BY <1>1, <1>2, <1>3, <1>4, <1>5 DEF Next

\* A row keeps its offer for good, and its driver while the offer lives.
LEMMA OwnershipStep ==
  ASSUME TypeOK, RowsOfKnownOffers, RequestsKnowTheirRow, [Next]_vars
  PROVE  Ownership
<1>0. \A r \in Rows : row[r].offer \in Offers \cup {NULL}  BY DEF TypeOK, RowRecord
<1>1. CASE QuietStep  BY <1>1, QuietKept, KeptOwnership
<1>2. ASSUME NEW o \in Offers, Create(o)  PROVE Ownership
  <2>1. PICK S \in SUBSET FreeRows : \E who \in [S -> Drivers] :
          row' = [r \in Rows |-> IF r \in S THEN FreshRow(o, who[r]) ELSE row[r]]
    BY <1>2 DEF Create
  <2>2. \A r \in Rows : \/ row'[r] = row[r]
                        \/ row[r].offer = NULL /\ row'[r].offer = o
    BY <2>1 DEF FreeRows, FreshRow, NoRow
  <2>3. /\ offer[o].st = "none" /\ offer'[o].st = "live"
        /\ \A q \in Offers : q # o => offer'[q] = offer[q]
    BY <1>2 DEF Create, NoOffer, TypeOK
  <2> QED  BY <1>0, <2>2, <2>3 DEF Ownership, Live
<1>3. ASSUME NEW p \in Reqs, UpdateCommit(p)  PROVE Ownership
  <2> DEFINE o == req[p].offer
             missing == {d \in req[p].ids : RowsOfDriver(o, d) = {}}
  <2>1. PICK keep \in [req[p].ids \ missing -> RowsOf(o)], S \in SUBSET FreeRows :
        \E who \in Bijection(S, missing) :
          row' = [r \in Rows |->
                    IF r \in S THEN FreshRow(o, who[r])
                    ELSE IF r \in Range(keep) THEN ResetRow(r)
                    ELSE IF r \in RowsOf(o) /\ row[r].driver \notin req[p].ids
                         THEN ClearedRow(r)
                    ELSE row[r]]
    BY ZenonT(60), <1>3 DEF UpdateCommit
  <2>2. o \in Offers /\ Live(o)
    BY <1>3 DEF UpdateCommit, RequestsKnowTheirRow
  <2>3. \A r \in Rows : /\ ResetRow(r).offer = row[r].offer
                        /\ ResetRow(r).driver = row[r].driver
                        /\ ClearedRow(r).offer = row[r].offer
                        /\ ClearedRow(r).driver = row[r].driver
    BY DEF ResetRow, ClearedRow, TypeOK, RowRecord
  <2>4. \A r \in Rows : \/ row'[r].offer = row[r].offer
                           /\ row'[r].driver = row[r].driver
                        \/ row[r].offer = NULL /\ row'[r].offer = o
    <3> HIDE DEF o, missing
    <3> QED  BY ZenonT(60), <2>1, <2>3 DEF FreeRows, FreshRow, NoRow
  <2>5. \A q \in Offers : offer'[q].st = offer[q].st
    BY <1>3 DEF UpdateCommit, Reopened, OfferRecord, TypeOK
  <2> QED  BY <1>0, <2>2, <2>4, <2>5 DEF Ownership, Live
<1>4. ASSUME NEW p \in Reqs, AddCommit(p)  PROVE Ownership
  <2> DEFINE o == req[p].offer
  <2>1. PICK S \in SUBSET FreeRows : \E who \in Bijection(S, req[p].ids) :
          row' = [r \in Rows |-> IF r \in S THEN FreshRow(o, who[r]) ELSE row[r]]
    BY <1>4 DEF AddCommit
  <2>2. o \in Offers /\ Live(o)
    BY <1>4 DEF AddCommit, RequestsKnowTheirRow
  <2>3. \A r \in Rows : \/ row'[r] = row[r]
                        \/ row[r].offer = NULL /\ row'[r].offer = o
    BY <2>1 DEF FreeRows, FreshRow, NoRow
  <2>4. \A q \in Offers : offer'[q].st = offer[q].st
    BY <1>4 DEF AddCommit, Touch, OfferRecord, TypeOK
  <2> QED  BY <1>0, <2>2, <2>3, <2>4 DEF Ownership, Live
<1>5. ASSUME NEW p \in Reqs, SelectCommit(p)  PROVE Ownership
  <2>1. \A r \in Rows : /\ row'[r].offer = row[r].offer
                        /\ row'[r].driver = row[r].driver
    BY <1>5 DEF SelectCommit, PassedOver, RowRecord, TypeOK
  <2>2. \A q \in Offers : offer'[q].st = offer[q].st
    BY ZenonT(60), <1>5 DEF SelectCommit, OfferRecord, TypeOK
  <2> QED  BY <1>0, <2>1, <2>2 DEF Ownership, Live
<1>6. ASSUME NEW S, Delete(S)  PROVE Ownership
  <2>1. \A r \in Rows : /\ row'[r].offer = row[r].offer
                        /\ row[r].offer \notin S => row'[r] = row[r]
    BY <1>6 DEF Delete, NoRow, TypeOK
  <2>2. \A q \in Offers : /\ q \notin S => offer'[q] = offer[q]
                          /\ q \in S => offer'[q].st # "live"
                          /\ offer[q].st # "none" => offer'[q].st # "none"
    BY <1>6 DEF Delete, NoOffer, Live, TypeOK
  <2> QED  BY <1>0, <2>1, <2>2 DEF Ownership, Live
<1> QED  BY <1>1, <1>2, <1>3, <1>4, <1>5, <1>6, StepKinds

\* Rows are added to live offers only, and an offer that exists stays known.
LEMMA KnownOffersStep ==
  ASSUME TypeOK, RowsOfKnownOffers, RequestsKnowTheirRow, [Next]_vars
  PROVE  RowsOfKnownOffers'
<1>1. Ownership  BY OwnershipStep
<1>2. TypeOK'  BY TypeStep
<1>3. \A r \in Rows : /\ row[r].offer \in Offers \cup {NULL}
                      /\ row'[r].offer \in Offers \cup {NULL}
  BY <1>2 DEF TypeOK, RowRecord
<1> QED  BY <1>1, <1>3 DEF Ownership, RowsOfKnownOffers

-----------------------------------------------------------------------------
(* What a step does to a request.                                          *)

\* A request that works on a row went on with it, or has just read it.
Moved(q) ==
  \/ req'[q] = req[q]
  \/ req'[q].at \in {"idle", "cleanup", "enroute"}
  \/ req'[q].at \in {"update", "add"} /\ req'[q].offer \in Offers
  \/ /\ {req[q].at, req'[q].at} \subseteq OnRow
     /\ req'[q].row = req[q].row
     /\ req'[q].offer = req[q].offer
     /\ req'[q].driver = req[q].driver
     /\ req'[q].at = "selectWrite" => \E l \in Loads : SelectDraft(q, l)
  \/ /\ req'[q].at \in OnRow \ {"selectWrite"}
     /\ UNCHANGED <<offer, row>>
     /\ \E o \in Offers, d \in Drivers :
          /\ req'[q].row \in RowsOfDriver(o, d)
          /\ req'[q].offer = o
          /\ req'[q].driver = d

\* Only one request moves.
LEMMA OthersWait ==
  ASSUME TypeOK, NEW p \in Reqs, Leave(p) \/ \E r : Enter(p, r)
  PROVE  \A q \in Reqs : q # p => req'[q] = req[q]
BY DEF TypeOK, Leave, Enter

\* A request that comes in changes its own slot only.
LEMMA EnterMoves ==
  ASSUME TypeOK, NEW p \in Reqs, NEW o \in Offers, NEW d \in Drivers,
         NEW r \in RowsOfDriver(o, d), NEW stage \in OnRow \ {"selectWrite"},
         NEW rec, Enter(p, rec), rec.at = stage, rec.row = r,
         rec.offer = row[r].offer, rec.driver = row[r].driver,
         UNCHANGED <<offer, row>>
  PROVE  \A q \in Reqs : Moved(q)
<1>1. \A q \in Reqs : q # p => req'[q] = req[q]  BY OthersWait
<1>2. req'[p] = rec  BY DEF Enter, TypeOK
<1>3. row[r].offer = o /\ row[r].driver = d  BY DEF RowsOfDriver, RowsOf
<1> QED  BY <1>1, <1>2, <1>3 DEF Moved

\* A request that ends changes its own slot only.
LEMMA LeaveMoves ==
  ASSUME TypeOK, NEW p \in Reqs, Leave(p)
  PROVE  \A q \in Reqs : Moved(q)
<1>1. \A q \in Reqs : q # p => req'[q] = req[q]  BY OthersWait
<1>2. req'[p].at = "idle"  BY DEF Leave, TypeOK, Idle
<1> QED  BY <1>1, <1>2 DEF Moved

\* Every step of a request moves that request on, or brings it in or ends it.
LEMMA RequestMoves ==
  ASSUME TypeOK, [Next]_vars
  PROVE  \A q \in Reqs : Moved(q)
<1> DEFINE Goal == \A q \in Reqs : Moved(q)
<1>1. ASSUME UNCHANGED req  PROVE Goal
  BY <1>1 DEF Moved
<1>2. ASSUME NEW p \in Reqs, NEW o \in Offers, NEW ids,
             UpdateBegin(p, o, ids) \/ AddBegin(p, o, ids)
      PROVE  Goal
  <2>1. PICK stage \in {"update", "add"} :
          \E fresh : Enter(p, [Idle EXCEPT !.at = stage, !.offer = o,
                                          !.ids = fresh])
    BY <1>2 DEF UpdateBegin, AddBegin
  <2>2. req'[p].at = stage /\ req'[p].offer = o
    BY <2>1 DEF Enter, Idle, TypeOK
  <2>3. \A q \in Reqs : q # p => req'[q] = req[q]  BY <2>1, OthersWait
  <2> QED  BY <2>2, <2>3 DEF Moved
<1>3. ASSUME NEW p \in Reqs, NEW o \in Offers, NEW d \in Drivers,
             NEW s \in Staff, NEW a \in Rates, CounterBegin(p, o, d, s, a)
      PROVE  Goal
  <2>1. PICK r \in ActiveRows(o, d) :
          Enter(p, [For("counter", r) EXCEPT !.staff = s, !.amount = a])
    BY <1>3 DEF CounterBegin
  <2> DEFINE rec == [For("counter", r) EXCEPT !.staff = s, !.amount = a]
  <2>2. /\ rec.at = "counter" /\ rec.row = r
        /\ rec.offer = row[r].offer /\ rec.driver = row[r].driver
    BY DEF For, Idle
  <2>3. UNCHANGED <<offer, row>>  BY <1>3 DEF CounterBegin
  <2> HIDE DEF rec
  <2> QED  BY <2>1, <2>2, <2>3, EnterMoves DEF rec, OnRow, Stages, ActiveRows
<1>4. ASSUME NEW p \in Reqs, NEW o \in Offers, NEW d \in Drivers,
             NEW r \in RowsOfDriver(o, d), NEW stage \in OnRow \ {"selectWrite"},
             Enter(p, For(stage, r)), UNCHANGED <<offer, row>>
      PROVE  Goal
  <2> DEFINE rec == For(stage, r)
  <2>1. /\ rec.at = stage /\ rec.row = r
        /\ rec.offer = row[r].offer /\ rec.driver = row[r].driver
    BY DEF For, Idle
  <2>2. Enter(p, rec)  BY <1>4
  <2> HIDE DEF rec
  <2> QED  BY <1>4, <2>1, <2>2, EnterMoves
<1>5. ASSUME NEW p \in Reqs, NEW o \in Offers, NEW d \in Drivers,
             NEW r \in RowsOfDriver(o, d), NEW stage \in OnRow \ {"selectWrite"},
             NEW a, Enter(p, [For(stage, r) EXCEPT !.amount = a]),
             UNCHANGED <<offer, row>>
      PROVE  Goal
  <2> DEFINE rec == [For(stage, r) EXCEPT !.amount = a]
  <2>1. /\ rec.at = stage /\ rec.row = r
        /\ rec.offer = row[r].offer /\ rec.driver = row[r].driver
    BY DEF For, Idle
  <2>2. Enter(p, rec)  BY <1>5
  <2> HIDE DEF rec
  <2> QED  BY <1>5, <2>1, <2>2, EnterMoves
<1>6. ASSUME NEW p \in Reqs, NEW o \in Offers, NEW d \in Drivers,
             SelectBegin(p, o, d) \/ EtaBegin(p, o, d) \/ ExtendBegin(p, o, d)
      PROVE  Goal
  <2>1. PICK r \in RowsOfDriver(o, d) :
          \E stage \in {"select", "eta", "etaRefresh", "extend"} :
            Enter(p, For(stage, r))
    BY <1>6 DEF SelectBegin, EtaBegin, ExtendBegin, ActiveRows
  <2>2. UNCHANGED <<offer, row>>
    BY <1>6 DEF SelectBegin, EtaBegin, ExtendBegin
  <2> QED  BY <1>4, <2>1, <2>2 DEF OnRow, Stages
<1>7. ASSUME NEW p \in Reqs, NEW o \in Offers, NEW d \in Drivers, NEW a \in Rates,
             RateBegin(p, o, d, a)
      PROVE  Goal
  <2>1. PICK r \in RowsOfDriver(o, d) :
          Enter(p, [For(IF row[r].rate = NULL THEN "bid" ELSE "edit", r)
                      EXCEPT !.amount = a])
    BY <1>7 DEF RateBegin, ActiveRows
  <2>2. UNCHANGED <<offer, row>>  BY <1>7 DEF RateBegin
  <2>3. (IF row[r].rate = NULL THEN "bid" ELSE "edit") \in OnRow \ {"selectWrite"}
    BY DEF OnRow, Stages
  <2> QED  BY <1>5, <2>1, <2>2, <2>3
<1>8. ASSUME NEW p \in Reqs, NEW o \in Offers, NEW d \in Drivers,
             NEW answer \in {"accept", "decline"}, RespondBegin(p, o, d, answer)
      PROVE  Goal
  <2>1. PICK r \in RowsOfDriver(o, d) :
          Enter(p, [For(answer, r) EXCEPT !.amount = IF answer = "accept"
                                                     THEN row[r].counterOffer
                                                     ELSE NULL])
    BY <1>8 DEF RespondBegin, ActiveRows
  <2>2. UNCHANGED <<offer, row>>  BY <1>8 DEF RespondBegin
  <2>3. answer \in OnRow \ {"selectWrite"}  BY DEF OnRow, Stages
  <2> QED  BY <1>5, <2>1, <2>2, <2>3
<1>9. ASSUME NEW p \in Reqs, Leave(p)  PROVE Goal
  BY <1>9, LeaveMoves
<1>10. ASSUME NEW p \in Reqs, BidCount(p) \/ CounterCount(p)  PROVE Goal
  <2>1. PICK stage \in {"bidWrite", "counterWrite"} :
          req' = [req EXCEPT ![p].at = stage]
    BY <1>10 DEF BidCount, CounterCount
  <2>2. req[p].at \in {"bid", "counter"}  BY <1>10 DEF BidCount, CounterCount
  <2>3. \A q \in Reqs : q # p => req'[q] = req[q]  BY <2>1 DEF TypeOK
  <2>4. /\ req'[p].at = stage /\ req'[p].row = req[p].row
        /\ req'[p].offer = req[p].offer /\ req'[p].driver = req[p].driver
    BY <2>1 DEF TypeOK, ReqRecord
  <2> QED  BY <2>2, <2>3, <2>4 DEF Moved, OnRow, Stages
<1>11. ASSUME NEW p \in Reqs, NEW l \in Loads, SelectDraft(p, l)  PROVE Goal
  <2>1. \A q \in Reqs : q # p => req'[q] = req[q]
    BY <1>11 DEF SelectDraft, TypeOK
  <2>2. /\ req[p].at = "select" /\ req'[p].at = "selectWrite"
        /\ req'[p].row = req[p].row
        /\ req'[p].offer = req[p].offer /\ req'[p].driver = req[p].driver
    BY <1>11 DEF SelectDraft, TypeOK, ReqRecord
  <2> QED  BY <1>11, <2>1, <2>2 DEF Moved, OnRow, Stages
<1>12. ASSUME NEW p \in Reqs, CleanupRead(p)  PROVE Goal
  <2>1. PICK doomed : Enter(p, [Idle EXCEPT !.at = "cleanup", !.doomed = doomed])
    BY <1>12 DEF CleanupRead
  <2>2. req'[p].at = "cleanup"  BY <2>1 DEF Enter, Idle, TypeOK
  <2>3. \A q \in Reqs : q # p => req'[q] = req[q]  BY <2>1, OthersWait
  <2> QED  BY <2>2, <2>3 DEF Moved
<1>18. ASSUME NEW p \in Reqs, NEW l \in Loads, EnrouteRead(p, l)  PROVE Goal
  <2>1. PICK doomed : Enter(p, [Idle EXCEPT !.at = "enroute", !.doomed = doomed])
    BY <1>18 DEF EnrouteRead
  <2>2. req'[p].at = "enroute"  BY <2>1 DEF Enter, Idle, TypeOK
  <2>3. \A q \in Reqs : q # p => req'[q] = req[q]  BY <2>1, OthersWait
  <2> QED  BY <2>2, <2>3 DEF Moved
<1>13. CASE StaffStep
  BY <1>1, <1>2, <1>3, <1>6, <1>13
  DEF StaffStep, Create, DeactivateOffer, RemoveDriver, ReturnDriver
<1>14. CASE DriverStep  BY <1>6, <1>7, <1>8, <1>14 DEF DriverStep
<1>15. CASE RequestStep
  BY <1>9, <1>10, <1>11, <1>12, <1>15, <1>18
  DEF RequestStep, UpdateCommit, AddCommit, BidWrite, EditWrite, EtaWrite,
      ExtendWrite, CounterWrite, AcceptWrite, DeclineWrite, SelectCommit,
      PurgeDoomed, Fail
<1>16. CASE \E o \in Offers : Age(o)  BY <1>1, <1>16 DEF Age
<1>17. CASE UNCHANGED vars  BY <1>1, <1>17 DEF vars
<1> QED  BY <1>13, <1>14, <1>15, <1>16, <1>17 DEF Next

\* The row a request has read stays the row of its offer and driver.
LEMMA KnowTheirRowStep ==
  ASSUME TypeOK, RowsOfKnownOffers, RequestsKnowTheirRow, [Next]_vars
  PROVE  RequestsKnowTheirRow'
<1>1. Ownership  BY OwnershipStep
<1>2. \A q \in Reqs : Moved(q)  BY RequestMoves
<1> SUFFICES ASSUME NEW q \in Reqs
             PROVE  /\ req'[q].at \in OnRow =>
                         /\ req'[q].row \in Rows
                         /\ req'[q].offer \in Offers
                         /\ req'[q].driver \in Drivers
                         /\ row'[req'[q].row].offer = req'[q].offer
                         /\ offer'[req'[q].offer].st = "live" =>
                              row'[req'[q].row].driver = req'[q].driver
                    /\ req'[q].at \in {"update", "add"} => req'[q].offer \in Offers
  BY DEF RequestsKnowTheirRow, Live
<1>3. \A r \in Rows : row[r].offer \in Offers =>
        /\ row[r].offer # NULL
        /\ offer[row[r].offer].st # "none"
  BY NullAssumption DEF RowsOfKnownOffers
<1>4. ASSUME req[q].at \in OnRow, req'[q].at \in OnRow, req'[q].row = req[q].row,
             req'[q].offer = req[q].offer, req'[q].driver = req[q].driver
      PROVE  /\ req'[q].row \in Rows
             /\ req'[q].offer \in Offers
             /\ req'[q].driver \in Drivers
             /\ row'[req'[q].row].offer = req'[q].offer
             /\ offer'[req'[q].offer].st = "live" =>
                  row'[req'[q].row].driver = req'[q].driver
  <2>1. /\ req[q].row \in Rows /\ req[q].offer \in Offers /\ req[q].driver \in Drivers
        /\ row[req[q].row].offer = req[q].offer
        /\ Live(req[q].offer) => row[req[q].row].driver = req[q].driver
    BY <1>4 DEF RequestsKnowTheirRow
  <2> QED  BY <1>1, <1>3, <1>4, <2>1 DEF Ownership, Live
<1>5. "update" \notin OnRow /\ "add" \notin OnRow /\ "idle" \notin OnRow
      /\ "cleanup" \notin OnRow /\ "enroute" \notin OnRow
  BY DEF OnRow
<1>6. CASE req'[q] = req[q]
  BY <1>4, <1>6 DEF RequestsKnowTheirRow
<1>7. CASE req'[q].at \in {"idle", "cleanup", "enroute"}  BY <1>5, <1>7
<1>8. CASE req'[q].at \in {"update", "add"} /\ req'[q].offer \in Offers
  BY <1>5, <1>8
<1>9. CASE {req[q].at, req'[q].at} \subseteq OnRow
           /\ req'[q].row = req[q].row
           /\ req'[q].offer = req[q].offer
           /\ req'[q].driver = req[q].driver
  BY <1>4, <1>5, <1>9
<1>10. CASE /\ req'[q].at \in OnRow
            /\ UNCHANGED <<offer, row>>
            /\ \E o \in Offers, d \in Drivers :
                 /\ req'[q].row \in RowsOfDriver(o, d)
                 /\ req'[q].offer = o
                 /\ req'[q].driver = d
  BY <1>5, <1>10 DEF RowsOfDriver, RowsOf
<1> QED  BY <1>2, <1>6, <1>7, <1>8, <1>9, <1>10 DEF Moved

-----------------------------------------------------------------------------
(* The selection.                                                          *)

\* TMS drafts a load once.
LEMMA DraftsKept ==
  ASSUME TypeOK, [Next]_vars, NEW l \in Loads, draft[l] # NoDraft
  PROVE  draft'[l] = draft[l]
<1>1. ASSUME NEW p \in Reqs, NEW k \in Loads, SelectDraft(p, k)
      PROVE  draft'[l] = draft[l]
  BY <1>1 DEF SelectDraft, TypeOK
<1>2. CASE StaffStep
  BY <1>2 DEF StaffStep, Create, UpdateBegin, AddBegin, DeactivateOffer,
              RemoveDriver, ReturnDriver, CounterBegin, SelectBegin
<1>3. CASE DriverStep
  BY <1>3 DEF DriverStep, RateBegin, EtaBegin, ExtendBegin, RespondBegin
<1>4. CASE RequestStep
  BY <1>1, <1>4 DEF RequestStep, UpdateCommit, AddCommit, BidCount, BidWrite,
     EditWrite, EtaWrite, ExtendWrite, CounterCount, CounterWrite, AcceptWrite,
     DeclineWrite, SelectCommit, CleanupRead, EnrouteRead,
     PurgeDoomed, Fail
<1>5. CASE \E o \in Offers : Age(o)  BY <1>5 DEF Age
<1>6. CASE UNCHANGED vars  BY <1>6 DEF vars
<1> QED  BY <1>2, <1>3, <1>4, <1>5, <1>6 DEF Next

\* Until it commits, a selection keeps the load it drafted.
LEMMA DraftsInFlightStep ==
  ASSUME TypeOK, RequestsKnowTheirRow, DraftsInFlight, [Next]_vars
  PROVE  DraftsInFlight'
<1> SUFFICES ASSUME NEW q \in Reqs, req'[q].at = "selectWrite"
             PROVE  /\ req'[q].load \in Loads
                    /\ draft'[req'[q].load] =
                         [offer |-> req'[q].offer, driver |-> req'[q].driver]
  BY DEF DraftsInFlight
<1>1. req'[q] = req[q] \/ \E l \in Loads : SelectDraft(q, l)
  <2>1. Moved(q)  BY RequestMoves
  <2> QED  BY <2>1 DEF Moved
<1>2. CASE req'[q] = req[q]
  <2>1. /\ req[q].load \in Loads
        /\ draft[req[q].load] = [offer |-> req[q].offer, driver |-> req[q].driver]
    BY <1>2 DEF DraftsInFlight
  <2>2. req[q].offer \in Offers
    BY <1>2 DEF RequestsKnowTheirRow, OnRow, Stages
  <2>3. draft[req[q].load] # NoDraft
    BY <2>1, <2>2, NullAssumption DEF NoDraft
  <2> QED  BY <1>2, <2>1, <2>3, DraftsKept
<1>3. ASSUME NEW l \in Loads, SelectDraft(q, l)
      PROVE  /\ req'[q].load \in Loads
             /\ draft'[req'[q].load] =
                  [offer |-> req'[q].offer, driver |-> req'[q].driver]
  BY <1>3 DEF SelectDraft, TypeOK, ReqRecord
<1> QED  BY <1>1, <1>2, <1>3

\* The two halves of the selection, for one offer.
OneSelected(o) == \A r, q \in SelectedRows(o) : r = q

Matches(o) ==
  /\ offer[o].isDriverSelected <=> offer[o].loadId # NULL
  /\ offer[o].isDriverSelected =>
       \E r \in SelectedRows(o) :
         draft[offer[o].loadId] = [offer |-> o, driver |-> row[r].driver]

\* An offer whose row of the table and whose selected rows stay as they are.
LEMMA SelectionFrame ==
  ASSUME TypeOK, [Next]_vars, NEW o \in Offers, OneSelected(o), Matches(o),
         offer'[o].isDriverSelected = offer[o].isDriverSelected,
         offer'[o].loadId = offer[o].loadId,
         SelectedRows(o)' = SelectedRows(o),
         \A r \in SelectedRows(o) : row'[r].driver = row[r].driver
  PROVE  OneSelected(o)' /\ Matches(o)'
<1>1. OneSelected(o)'  BY DEF OneSelected
<1>2. ASSUME offer[o].isDriverSelected
      PROVE  \E r \in SelectedRows(o) :
               draft'[offer[o].loadId] = [offer |-> o, driver |-> row'[r].driver]
  <2>1. PICK r \in SelectedRows(o) :
          draft[offer[o].loadId] = [offer |-> o, driver |-> row[r].driver]
    BY <1>2 DEF Matches
  <2>2. offer[o].loadId \in Loads
    BY <1>2 DEF Matches, TypeOK, OfferRecord
  <2>3. draft[offer[o].loadId] # NoDraft
    BY <2>1, NullAssumption DEF NoDraft
  <2>4. draft'[offer[o].loadId] = draft[offer[o].loadId]
    BY <2>2, <2>3, DraftsKept
  <2> QED  BY <2>1, <2>4
<1> QED  BY <1>1, <1>2 DEF Matches

\* An offer that is not, or no longer, assigned.
LEMMA Unassigned ==
  ASSUME NEW o \in Offers, offer'[o].isDriverSelected = FALSE,
         offer'[o].loadId = NULL, OneSelected(o)'
  PROVE  OneSelected(o)' /\ Matches(o)'
BY DEF Matches

\* Every step keeps one driver at most, and flag, load and row in agreement.
LEMMA SelectionStep ==
  ASSUME SelectionInv, [Next]_vars, NEW o \in Offers
  PROVE  OneSelected(o)' /\ Matches(o)'
<1> USE DEF SelectionInv
<1>0. OneSelected(o) /\ Matches(o)
  BY DEF AtMostOneSelected, LoadMatchesSelection, OneSelected, Matches
<1>1. CASE QuietStep
  <2>1. SelectionKept  BY <1>1, QuietKept
  <2>2. SelectedRows(o)' = SelectedRows(o)
    BY <2>1 DEF SelectionKept, SelectedRows, RowsOf, Live
  <2> QED  BY <1>0, <2>1, <2>2, SelectionFrame
           DEF SelectionKept, SelectedRows, RowsOf
<1>2. ASSUME NEW w \in Offers, Create(w)  PROVE OneSelected(o)' /\ Matches(o)'
  <2>1. PICK S \in SUBSET FreeRows : \E who \in [S -> Drivers] :
          row' = [r \in Rows |-> IF r \in S THEN FreshRow(w, who[r]) ELSE row[r]]
    BY <1>2 DEF Create
  <2>2. \A r \in Rows : \/ row'[r] = row[r]
                        \/ /\ row[r].offer = NULL
                           /\ row'[r].offer = w /\ ~row'[r].isSelected
    BY <2>1 DEF FreeRows, FreshRow, NoRow
  <2>3. CASE o = w
    <3>1. /\ offer'[o].isDriverSelected = FALSE /\ offer'[o].loadId = NULL
          /\ offer[o].st = "none"
      BY <1>2, <2>3 DEF Create, NoOffer, TypeOK
    <3>2. \A r \in Rows : row[r].offer # o
      BY <3>1, NullAssumption DEF RowsOfKnownOffers
    <3>3. SelectedRows(o)' = {}
      BY <2>2, <3>2 DEF SelectedRows, RowsOf
    <3> QED  BY <3>1, <3>3, Unassigned DEF OneSelected
  <2>4. CASE o # w
    <3>1. offer'[o] = offer[o]  BY <1>2, <2>4 DEF Create, TypeOK
    <3>2. SelectedRows(o)' = SelectedRows(o)
      BY <2>2, <2>4, <3>1, NullAssumption DEF SelectedRows, RowsOf, Live
    <3>3. \A r \in SelectedRows(o) : row'[r].driver = row[r].driver
      BY <2>2, NullAssumption DEF SelectedRows, RowsOf
    <3> QED  BY <1>0, <3>1, <3>2, <3>3, SelectionFrame
  <2> QED  BY <2>3, <2>4
<1>3. ASSUME NEW p \in Reqs, AddCommit(p)  PROVE OneSelected(o)' /\ Matches(o)'
  <2>1. PICK S \in SUBSET FreeRows : \E who \in Bijection(S, req[p].ids) :
          row' = [r \in Rows |-> IF r \in S THEN FreshRow(req[p].offer, who[r])
                                            ELSE row[r]]
    BY <1>3 DEF AddCommit
  <2>2. \A r \in Rows : \/ row'[r] = row[r]
                        \/ row[r].offer = NULL /\ ~row'[r].isSelected
    BY ZenonT(60), <2>1 DEF FreeRows, FreshRow, NoRow
  <2>3. /\ offer'[o].st = offer[o].st /\ offer'[o].loadId = offer[o].loadId
        /\ offer'[o].isDriverSelected = offer[o].isDriverSelected
    BY <1>3 DEF AddCommit, Touch, TypeOK, OfferRecord
  <2>4. SelectedRows(o)' = SelectedRows(o)
    BY <2>2, <2>3, NullAssumption DEF SelectedRows, RowsOf, Live
  <2>5. \A r \in SelectedRows(o) : row'[r].driver = row[r].driver
    BY <2>2, NullAssumption DEF SelectedRows, RowsOf
  <2> QED  BY <1>0, <2>3, <2>4, <2>5, SelectionFrame
<1>4. ASSUME NEW p \in Reqs, UpdateCommit(p)  PROVE OneSelected(o)' /\ Matches(o)'
  <2> DEFINE w == req[p].offer
             missing == {d \in req[p].ids : RowsOfDriver(w, d) = {}}
  <2>1. PICK keep \in [req[p].ids \ missing -> RowsOf(w)], S \in SUBSET FreeRows :
        \E who \in Bijection(S, missing) :
          row' = [r \in Rows |->
                    IF r \in S THEN FreshRow(w, who[r])
                    ELSE IF r \in Range(keep) THEN ResetRow(r)
                    ELSE IF r \in RowsOf(w) /\ row[r].driver \notin req[p].ids
                         THEN ClearedRow(r)
                    ELSE row[r]]
    BY ZenonT(60), <1>4 DEF UpdateCommit
  <2>2. Range(keep) \subseteq RowsOf(w)  BY <2>1 DEF Range
  <2>3. \A r \in Rows :
          \/ row'[r] = row[r]
          \/ row[r].offer = NULL /\ ~row'[r].isSelected
          \/ /\ row[r].offer = w /\ row'[r].offer = w
             /\ row'[r].driver = row[r].driver /\ ~row'[r].isSelected
    <3>1. \A r \in Rows : /\ ResetRow(r).offer = row[r].offer
                          /\ ResetRow(r).driver = row[r].driver
                          /\ ClearedRow(r).offer = row[r].offer
                          /\ ClearedRow(r).driver = row[r].driver
                          /\ ~ResetRow(r).isSelected
                          /\ ~ClearedRow(r).isSelected
      BY DEF ResetRow, ClearedRow, TypeOK, RowRecord
    <3>2. \A r \in RowsOf(w) : row[r].offer = w  BY DEF RowsOf
    <3>3. \A d : ~FreshRow(w, d).isSelected  BY DEF FreshRow, NoRow
    <3>4. \A r \in S : row[r].offer = NULL  BY <2>1 DEF FreeRows
    <3> HIDE DEF w, missing
    <3>5. TAKE r \in Rows
    <3>6. PICK who :
            row'[r] = IF r \in S THEN FreshRow(w, who[r])
                      ELSE IF r \in Range(keep) THEN ResetRow(r)
                      ELSE IF r \in RowsOf(w) /\ row[r].driver \notin req[p].ids
                           THEN ClearedRow(r)
                      ELSE row[r]
      BY <2>1
    <3>7. CASE r \in S  BY <3>3, <3>4, <3>6, <3>7
    <3>8. CASE r \notin S  BY <2>2, <3>1, <3>2, <3>6, <3>8
    <3> QED  BY <3>7, <3>8
  <2>4. \A q \in Offers : offer'[q].st = offer[q].st
    BY <1>4 DEF UpdateCommit, Reopened, TypeOK, OfferRecord
  <2>5. CASE o = w
    <3>1. offer'[o].isDriverSelected = FALSE /\ offer'[o].loadId = NULL
      BY <1>4, <2>5 DEF UpdateCommit, Reopened, TypeOK, OfferRecord
    <3>2. SelectedRows(o)' \subseteq SelectedRows(o)
      BY <2>3, <2>4, <2>5, NullAssumption DEF SelectedRows, RowsOf, Live
    <3> QED  BY <1>0, <3>1, <3>2, Unassigned DEF OneSelected
  <2>6. CASE o # w
    <3>1. offer'[o] = offer[o]  BY <1>4, <2>6 DEF UpdateCommit, Reopened, TypeOK
    <3>2. SelectedRows(o)' = SelectedRows(o)
      BY <2>3, <2>6, <3>1, NullAssumption DEF SelectedRows, RowsOf, Live
    <3>3. \A r \in SelectedRows(o) : row'[r].driver = row[r].driver
      BY <2>3, NullAssumption DEF SelectedRows, RowsOf
    <3> QED  BY <1>0, <3>1, <3>2, <3>3, SelectionFrame
  <2> QED  BY <2>5, <2>6
<1>5. ASSUME NEW p \in Reqs, SelectCommit(p)  PROVE OneSelected(o)' /\ Matches(o)'
  <2> DEFINE w == req[p].offer
             c == req[p].row
  <2>1. /\ req[p].at = "selectWrite" /\ Exists(c)
        /\ w \in Offers /\ c \in Rows /\ row[c].offer = w /\ Live(w)
        /\ row[c].driver = req[p].driver
    BY <1>5 DEF SelectCommit, RequestsKnowTheirRow, OnRow, Stages, Exists
  <2>2. \A r \in Rows : /\ row'[r].offer = row[r].offer
                        /\ row'[r].driver = row[r].driver
                        /\ row[r].offer # w => row'[r].isSelected = row[r].isSelected
                        /\ row[r].offer = w => (row'[r].isSelected <=> r = c)
    <3>1. row' = [q \in Rows |->
                    IF q = c
                    THEN [row[q] EXCEPT !.active = TRUE, !.isSelected = TRUE]
                    ELSE IF q \in RowsOf(w)
                    THEN PassedOver(q)
                    ELSE row[q]]
      BY <1>5 DEF SelectCommit
    <3>2. \A r \in Rows : r \in RowsOf(w) <=> row[r].offer = w
      BY <2>1 DEF RowsOf
    <3> HIDE DEF w, c
    <3> QED  BY ZenonT(60), <2>1, <3>1, <3>2 DEF PassedOver, TypeOK, RowRecord
  <2>3. \A q \in Offers : offer'[q].st = offer[q].st
    BY ZenonT(60), <1>5 DEF SelectCommit, TypeOK, OfferRecord
  <2>4. CASE o = w
    <3>1. SelectedRows(o)' = {c}
      BY <2>1, <2>2, <2>3, <2>4 DEF SelectedRows, RowsOf, Live
    <3>2. /\ req[p].load \in Loads
          /\ draft[req[p].load] = [offer |-> o, driver |-> row[c].driver]
      BY <2>1, <2>4 DEF DraftsInFlight
    <3>3. /\ offer'[o].isDriverSelected = TRUE /\ offer'[o].loadId = req[p].load
          /\ draft' = draft
      BY <1>5, <2>4 DEF SelectCommit, TypeOK, OfferRecord
    <3> HIDE DEF c
    <3> QED  BY <2>1, <2>2, <3>1, <3>2, <3>3, NullAssumption
             DEF OneSelected, Matches
  <2>5. CASE o # w
    <3>1. offer'[o] = offer[o]  BY <1>5, <2>5 DEF SelectCommit, TypeOK
    <3>2. SelectedRows(o)' = SelectedRows(o)
      BY <2>2, <2>3, <2>5 DEF SelectedRows, RowsOf, Live
    <3>3. \A r \in SelectedRows(o) : row'[r].driver = row[r].driver
      BY <2>2 DEF SelectedRows, RowsOf
    <3> QED  BY <1>0, <3>1, <3>2, <3>3, SelectionFrame
  <2> QED  BY <2>4, <2>5
<1>6. ASSUME NEW S, Delete(S)  PROVE OneSelected(o)' /\ Matches(o)'
  <2>1. CASE o \in S /\ Live(o)
    <3>1. /\ offer'[o].st = "deleted" /\ offer'[o].isDriverSelected = FALSE
          /\ offer'[o].loadId = NULL
      BY <1>6, <2>1 DEF Delete, NoOffer
    <3>2. SelectedRows(o)' = {}  BY <3>1 DEF SelectedRows, RowsOf, Live
    <3> QED  BY <3>1, <3>2, Unassigned DEF OneSelected
  <2>2. CASE ~(o \in S /\ Live(o))
    <3>1. offer'[o] = offer[o]  BY <1>6, <2>2 DEF Delete
    <3>2. \A r \in Rows : /\ row'[r].offer = row[r].offer
                          /\ row[r].offer \notin S => row'[r] = row[r]
      BY <1>6 DEF Delete, NoRow
    <3>3. SelectedRows(o)' = SelectedRows(o)
      BY <2>2, <3>1, <3>2 DEF SelectedRows, RowsOf, Live
    <3>4. \A r \in SelectedRows(o) : row'[r].driver = row[r].driver
      BY <2>2, <3>2 DEF SelectedRows, RowsOf
    <3> QED  BY <1>0, <3>1, <3>3, <3>4, SelectionFrame
  <2> QED  BY <2>1, <2>2
<1> QED  BY <1>1, <1>2, <1>3, <1>4, <1>5, <1>6, StepKinds

\* The invariant of the assignment is inductive.
LEMMA SelectionInvStep == SelectionInv /\ [Next]_vars => SelectionInv'
<1> SUFFICES ASSUME SelectionInv, [Next]_vars  PROVE SelectionInv'
  OBVIOUS
<1>1. TypeOK'  BY TypeStep DEF SelectionInv
<1>2. RowsOfKnownOffers'  BY KnownOffersStep DEF SelectionInv
<1>3. RequestsKnowTheirRow'  BY KnowTheirRowStep DEF SelectionInv
<1>4. DraftsInFlight'  BY DraftsInFlightStep DEF SelectionInv
<1>5. \A o \in Offers : OneSelected(o)' /\ Matches(o)'  BY SelectionStep
<1>6. AtMostOneSelected' /\ LoadMatchesSelection'
  BY <1>5 DEF AtMostOneSelected, LoadMatchesSelection, OneSelected, Matches
<1> QED  BY <1>1, <1>2, <1>3, <1>4, <1>6 DEF SelectionInv

\* The invariant of the assignment holds at the start.
LEMMA SelectionInvInit == Init => SelectionInv
<1> SUFFICES ASSUME Init  PROVE SelectionInv  OBVIOUS
<1>1. TypeOK  BY InitType
<1>2. RowsOfKnownOffers  BY DEF Init, RowsOfKnownOffers, NoRow
<1>3. RequestsKnowTheirRow /\ DraftsInFlight
  BY DEF Init, Idle, RequestsKnowTheirRow, DraftsInFlight, OnRow
<1>4. \A o \in Offers : SelectedRows(o) = {}
  BY DEF Init, SelectedRows, RowsOf, NoRow
<1>5. AtMostOneSelected  BY <1>4 DEF AtMostOneSelected
<1>6. LoadMatchesSelection  BY DEF Init, NoOffer, LoadMatchesSelection
<1> QED  BY <1>1, <1>2, <1>3, <1>5, <1>6 DEF SelectionInv

\* The invariant of the assignment, and the two properties it is made for.
THEOREM SelectionInvariant == Spec => []SelectionInv
BY SelectionInvInit, SelectionInvStep, PTL DEF Spec

\* An offer never shows two accepted drivers, whatever requests interleave.
THEOREM OneDriverPerOffer == Spec => []AtMostOneSelected
<1>1. SelectionInv => AtMostOneSelected  BY DEF SelectionInv
<1> QED  BY <1>1, SelectionInvariant, PTL

\* The flag of an offer, its load and its selected row always agree.
THEOREM LoadMatchesDriver == Spec => []LoadMatchesSelection
<1>1. SelectionInv => LoadMatchesSelection  BY DEF SelectionInv
<1> QED  BY <1>1, SelectionInvariant, PTL

-----------------------------------------------------------------------------
(* Refinement: accepting a driver implements OfferAssignment.              *)

Phases == [o \in Offers |-> offer[o].st]
Assignments == [o \in Offers |-> Assignment(o)]

\* An assigned offer is live.
LEMMA AssignedLive ==
  ASSUME SelectionInv, NEW o \in Offers, offer[o].isDriverSelected
  PROVE  Live(o)
BY DEF SelectionInv, LoadMatchesSelection, SelectedRows, RowsOf

\* An offer whose entry and selected rows stay as they are stays as assigned.
LEMMA SameAssignment ==
  ASSUME NEW o \in Offers,
         offer'[o].isDriverSelected = offer[o].isDriverSelected,
         offer'[o].loadId = offer[o].loadId,
         offer[o].isDriverSelected =>
           /\ SelectedRows(o)' = SelectedRows(o)
           /\ SelectedRows(o) # {}
           /\ \A r \in SelectedRows(o) : row'[r].driver = row[r].driver
  PROVE  Assignment(o)' = Assignment(o)
<1>1. CASE ~offer[o].isDriverSelected  BY <1>1 DEF Assignment
<1>2. CASE offer[o].isDriverSelected
  <2>1. (CHOOSE r \in SelectedRows(o) : TRUE) \in SelectedRows(o)  BY <1>2
  <2>2. (CHOOSE r \in SelectedRows(o)' : TRUE) = (CHOOSE r \in SelectedRows(o) : TRUE)
    BY <1>2
  <2> QED  BY <1>2, <2>1, <2>2 DEF Assignment
<1> QED  BY <1>1, <1>2

\* An assigned offer has a selected row.
LEMMA HasSelected ==
  ASSUME SelectionInv, NEW o \in Offers, offer[o].isDriverSelected
  PROVE  SelectedRows(o) # {}
BY DEF SelectionInv, LoadMatchesSelection

\* Drafting a load at TMS is the abstract Draft.
LEMMA DraftSteps ==
  ASSUME [Next]_vars
  PROVE  draft' = draft \/ \E p \in Reqs, l \in Loads : SelectDraft(p, l)
<1>1. CASE StaffStep
  BY <1>1 DEF StaffStep, Create, UpdateBegin, AddBegin, DeactivateOffer,
              RemoveDriver, ReturnDriver, CounterBegin, SelectBegin
<1>2. CASE DriverStep
  BY <1>2 DEF DriverStep, RateBegin, EtaBegin, ExtendBegin, RespondBegin
<1>3. CASE RequestStep
  BY ZenonT(60), <1>3 DEF RequestStep, UpdateCommit, AddCommit, BidCount, BidWrite,
     EditWrite, EtaWrite, ExtendWrite, CounterCount, CounterWrite, AcceptWrite,
     DeclineWrite, SelectCommit, CleanupRead, EnrouteRead,
     PurgeDoomed, Fail
<1>4. CASE \E o \in Offers : Age(o)  BY <1>4 DEF Age
<1>5. CASE UNCHANGED vars  BY <1>5 DEF vars
<1> QED  BY <1>1, <1>2, <1>3, <1>4, <1>5 DEF Next

\* A step that changes neither phases nor assignments.
LEMMA QuietRefines ==
  ASSUME SelectionInv, [Next]_vars, Phases' = Phases, Assignments' = Assignments
  PROVE  [Abstract!ANext]_(Abstract!avars)
<1>1. CASE draft' = draft
  BY <1>1 DEF Abstract!avars, Phases, Assignments
<1>2. ASSUME NEW p \in Reqs, NEW l \in Loads, SelectDraft(p, l)
      PROVE  Abstract!ANext
  <2>1. req[p].offer \in Offers /\ req[p].driver \in Drivers
    BY <1>2 DEF SelectDraft, SelectionInv, RequestsKnowTheirRow, OnRow, Stages
  <2>2. Abstract!Draft(req[p].offer, req[p].driver, l)
    BY <1>2 DEF SelectDraft, NoDraft, Abstract!Draft, Abstract!Nobody, Phases,
                Assignments
  <2> QED  BY <2>1, <2>2 DEF Abstract!ANext
<1> QED  BY <1>1, <1>2, DraftSteps

\* An edit leaves the rows of other offers alone.
LEMMA UpdateElsewhere ==
  ASSUME TypeOK, NEW p \in Reqs, UpdateCommit(p), NEW r \in Rows,
         NEW o \in Offers, o # req[p].offer
  PROVE  /\ row[r].offer = o => row'[r] = row[r]
         /\ row[r].offer # o => row'[r].offer # o
<1> DEFINE w == req[p].offer
           missing == {d \in req[p].ids : RowsOfDriver(w, d) = {}}
<1>1. PICK keep \in [req[p].ids \ missing -> RowsOf(w)], S \in SUBSET FreeRows :
      \E who \in Bijection(S, missing) :
        row' = [q \in Rows |->
                  IF q \in S THEN FreshRow(w, who[q])
                  ELSE IF q \in Range(keep) THEN ResetRow(q)
                  ELSE IF q \in RowsOf(w) /\ row[q].driver \notin req[p].ids
                       THEN ClearedRow(q)
                  ELSE row[q]]
  BY ZenonT(60) DEF UpdateCommit
<1>2. Range(keep) \subseteq RowsOf(w)  BY <1>1 DEF Range
<1>3. PICK who :
        row'[r] = IF r \in S THEN FreshRow(w, who[r])
                  ELSE IF r \in Range(keep) THEN ResetRow(r)
                  ELSE IF r \in RowsOf(w) /\ row[r].driver \notin req[p].ids
                       THEN ClearedRow(r)
                  ELSE row[r]
  <2> HIDE DEF w, missing
  <2> QED  BY <1>1
<1>4. CASE r \in S
  <2>1. row[r].offer = NULL /\ row'[r].offer = w
    BY <1>1, <1>3, <1>4 DEF FreeRows, FreshRow, NoRow
  <2> QED  BY <2>1, NullAssumption
<1>5. CASE r \notin S /\ r \in RowsOf(w)
  <2>1. row[r].offer = w  BY <1>5 DEF RowsOf
  <2>2. row'[r].offer = w
    BY <1>3, <1>5, <2>1 DEF ResetRow, ClearedRow, TypeOK, RowRecord
  <2> QED  BY <2>1, <2>2
<1>6. CASE r \notin S /\ r \notin RowsOf(w)
  <2>1. row'[r] = row[r]  BY <1>2, <1>3, <1>6
  <2> QED  BY <2>1
<1> QED  BY <1>4, <1>5, <1>6

\* Every step is a step of the abstract assignment, or a stutter.
LEMMA RefinementStep ==
  SelectionInv /\ SelectionInv' /\ [Next]_vars => [Abstract!ANext]_(Abstract!avars)
<1> SUFFICES ASSUME SelectionInv, SelectionInv', [Next]_vars
             PROVE  [Abstract!ANext]_(Abstract!avars)
  OBVIOUS
<1>0. TypeOK /\ TypeOK'  BY DEF SelectionInv
<1>1. CASE QuietStep
  <2>1. SelectionKept  BY <1>0, <1>1, QuietKept
  <2>2. \A o \in Offers : SelectedRows(o)' = SelectedRows(o)
    BY <2>1 DEF SelectionKept, SelectedRows, RowsOf, Live
  <2>3. ASSUME NEW o \in Offers  PROVE Assignment(o)' = Assignment(o)
    BY <2>1, <2>2, SameAssignment, HasSelected
       DEF SelectionKept, SelectedRows, RowsOf
  <2>4. Phases' = Phases  BY <2>1 DEF SelectionKept, Phases
  <2>5. Assignments' = Assignments  BY <2>3 DEF Assignments
  <2> QED  BY <2>4, <2>5, QuietRefines
<1>2. ASSUME NEW w \in Offers, Create(w)  PROVE Abstract!ANext
  <2>1. /\ offer[w].st = "none" /\ offer'[w].st = "live"
        /\ offer'[w].isDriverSelected = FALSE
        /\ offer' = [offer EXCEPT ![w] = offer'[w]]
        /\ draft' = draft
    BY <1>0, <1>2 DEF Create, NoOffer, TypeOK
  <2>2. ~offer[w].isDriverSelected  BY <2>1, AssignedLive DEF Live
  <2>3. \A r \in Rows : \/ row'[r] = row[r]
                        \/ row[r].offer = NULL /\ row'[r].offer = w
    BY <1>2 DEF Create, FreeRows, FreshRow, NoRow
  <2>4. ASSUME NEW o \in Offers  PROVE Assignment(o)' = Assignment(o)
    <3>1. CASE o = w  BY <2>1, <2>2, <3>1 DEF Assignment
    <3>2. CASE o # w
      <4>1. offer'[o] = offer[o]  BY <1>0, <2>1, <3>2 DEF TypeOK
      <4>2. SelectedRows(o)' = SelectedRows(o)
        BY <2>3, <3>2, <4>1, NullAssumption DEF SelectedRows, RowsOf, Live
      <4>3. \A r \in SelectedRows(o) : row'[r].driver = row[r].driver
        BY <2>3, NullAssumption DEF SelectedRows, RowsOf
      <4> QED  BY <4>1, <4>2, <4>3, SameAssignment, HasSelected
    <3> QED  BY <3>1, <3>2
  <2>5. Assignments' = Assignments  BY <2>4 DEF Assignments
  <2>6. Phases' = [Phases EXCEPT ![w] = "live"]
    BY <1>0, <2>1 DEF Phases, TypeOK
  <2>7. Abstract!Open(w)
    BY <2>1, <2>5, <2>6 DEF Abstract!Open, Phases, Assignments
  <2> QED  BY <2>7 DEF Abstract!ANext
<1>3. ASSUME NEW p \in Reqs, AddCommit(p)
      PROVE  [Abstract!ANext]_(Abstract!avars)
  <2>1. \A o \in Offers :
          /\ offer'[o].st = offer[o].st /\ offer'[o].loadId = offer[o].loadId
          /\ offer'[o].isDriverSelected = offer[o].isDriverSelected
    BY <1>0, <1>3 DEF AddCommit, Touch, TypeOK, OfferRecord
  <2>2. \A r \in Rows : \/ row'[r] = row[r]
                        \/ row[r].offer = NULL /\ ~row'[r].isSelected
    BY ZenonT(60), <1>3 DEF AddCommit, FreeRows, FreshRow, NoRow
  <2>3. ASSUME NEW o \in Offers  PROVE Assignment(o)' = Assignment(o)
    <3>1. SelectedRows(o)' = SelectedRows(o)
      BY <2>1, <2>2, NullAssumption DEF SelectedRows, RowsOf, Live
    <3>2. \A r \in SelectedRows(o) : row'[r].driver = row[r].driver
      BY <2>2, NullAssumption DEF SelectedRows, RowsOf
    <3> QED  BY <2>1, <3>1, <3>2, SameAssignment, HasSelected
  <2>4. Phases' = Phases /\ Assignments' = Assignments
    BY <2>1, <2>3 DEF Phases, Assignments
  <2> QED  BY <2>4, QuietRefines
<1>4. ASSUME NEW p \in Reqs, UpdateCommit(p)  PROVE Abstract!ANext
  <2>0. PICK w \in Offers : w = req[p].offer
    BY <1>4 DEF UpdateCommit, SelectionInv, RequestsKnowTheirRow
  <2>1. Live(w) /\ draft' = draft
    BY <1>4, <2>0 DEF UpdateCommit
  <2>2. /\ offer'[w].isDriverSelected = FALSE
        /\ \A o \in Offers : /\ offer'[o].st = offer[o].st
                             /\ o # w => offer'[o] = offer[o]
    BY <1>0, <1>4, <2>0 DEF UpdateCommit, Reopened, TypeOK, OfferRecord
  <2>3. ASSUME NEW o \in Offers, o # w, offer[o].isDriverSelected
        PROVE  /\ SelectedRows(o)' = SelectedRows(o)
               /\ \A r \in SelectedRows(o) : row'[r].driver = row[r].driver
    <3>1. \A r \in Rows : row[r].offer = o => row'[r] = row[r]
      BY <1>0, <1>4, <2>0, <2>3, UpdateElsewhere
    <3>2. \A r \in Rows : row[r].offer # o => row'[r].offer # o
      BY <1>0, <1>4, <2>0, <2>3, UpdateElsewhere
    <3> QED  BY <2>2, <2>3, <3>1, <3>2 DEF SelectedRows, RowsOf, Live
  <2>4. ASSUME NEW o \in Offers, o # w  PROVE Assignment(o)' = Assignment(o)
    BY <2>2, <2>3, <2>4, SameAssignment, HasSelected
  <2>5. Assignment(w)' = NULL  BY <2>2 DEF Assignment
  <2>6. Assignments' = [Assignments EXCEPT ![w] = NULL]
    BY <2>4, <2>5 DEF Assignments
  <2>7. Phases' = Phases  BY <2>2 DEF Phases
  <2>8. Abstract!Unassign(w)
    BY <2>1, <2>6, <2>7 DEF Abstract!Unassign, Phases, Assignments, Live
  <2> QED  BY <2>1, <2>8 DEF Abstract!ANext
<1>5. ASSUME NEW p \in Reqs, SelectCommit(p)  PROVE Abstract!ANext
  <2>0. PICK w \in Offers, c \in Rows, l \in Loads, d \in Drivers :
          req[p].offer = w /\ req[p].row = c /\ req[p].load = l /\ req[p].driver = d
    BY <1>5 DEF SelectCommit, SelectionInv, RequestsKnowTheirRow, OnRow, Stages,
                DraftsInFlight
  <2>1. /\ row[c].offer = w /\ Live(w) /\ row[c].driver = d
        /\ draft[l] = [offer |-> w, driver |-> d]
        /\ draft' = draft
    BY <1>5, <2>0 DEF SelectCommit, SelectionInv, RequestsKnowTheirRow, OnRow,
                      Stages, Exists, DraftsInFlight
  <2>2. /\ offer'[w].isDriverSelected = TRUE
        /\ offer'[w].loadId = l
        /\ \A o \in Offers : /\ offer'[o].st = offer[o].st
                             /\ o # w => offer'[o] = offer[o]
    BY <1>0, <1>5, <2>0 DEF SelectCommit, TypeOK, OfferRecord
  <2>3. row' = [q \in Rows |->
                  IF q = c
                  THEN [row[q] EXCEPT !.active = TRUE, !.isSelected = TRUE]
                  ELSE IF q \in RowsOf(w)
                  THEN PassedOver(q)
                  ELSE row[q]]
    BY <1>5, <2>0 DEF SelectCommit
  <2>4. ASSUME NEW o \in Offers, o # w  PROVE Assignment(o)' = Assignment(o)
    <3>1. \A r \in Rows : /\ row'[r].offer = row[r].offer
                          /\ row[r].offer = o => row'[r] = row[r]
      BY ZenonT(60), <1>0, <2>1, <2>3, <2>4 DEF RowsOf, PassedOver, TypeOK, RowRecord
    <3>2. /\ SelectedRows(o)' = SelectedRows(o)
          /\ \A r \in SelectedRows(o) : row'[r].driver = row[r].driver
      BY <2>2, <3>1 DEF SelectedRows, RowsOf, Live
    <3> QED  BY <2>2, <2>4, <3>2, SameAssignment, HasSelected
  <2>5. Assignment(w)' = [driver |-> draft[l].driver, load |-> l]
    <3>1. row'[c].isSelected /\ row'[c].offer = w
          /\ row'[c].driver = d
      BY <1>0, <2>1, <2>3 DEF TypeOK, RowRecord
    <3>2. c \in SelectedRows(w)'
      BY <2>1, <2>2, <3>1 DEF SelectedRows, RowsOf, Live
    <3>3. \A r \in SelectedRows(w)' : r = c
      BY <2>1, <3>2 DEF SelectionInv, AtMostOneSelected
    <3>4. SelectedRows(w)' = {c}  BY <3>2, <3>3
    <3>5. (CHOOSE r \in {c} : TRUE) = c  OBVIOUS
    <3>6. Assignment(w)' =
            [driver |-> row'[CHOOSE r \in SelectedRows(w)' : TRUE].driver,
             load |-> offer'[w].loadId]
      BY <2>2 DEF Assignment
    <3>7. Assignment(w)' = [driver |-> row'[c].driver, load |-> l]
      BY <2>2, <3>4, <3>5, <3>6
    <3> QED  BY <2>1, <3>1, <3>7
  <2>6. Assignments' =
          [Assignments EXCEPT ![w] = [driver |-> draft[l].driver, load |-> l]]
    BY <2>4, <2>5 DEF Assignments
  <2>7. Phases' = Phases  BY <2>2 DEF Phases
  <2>8. Abstract!Assign(w, l)
    BY <2>1, <2>6, <2>7 DEF Abstract!Assign, Phases, Assignments, Live
  <2> QED  BY <2>1, <2>8 DEF Abstract!ANext
<1>6. ASSUME NEW S, Delete(S), draft' = draft
      PROVE  [Abstract!ANext]_(Abstract!avars)
  <2>0. PICK D : D = {o \in Offers : o \in S /\ Live(o)}  OBVIOUS
  <2>1. \A o \in Offers :
          /\ o \in D => /\ offer'[o].st = "deleted"
                        /\ offer'[o].isDriverSelected = FALSE
          /\ o \notin D => offer'[o] = offer[o]
    BY <1>6, <2>0 DEF Delete, NoOffer
  <2>2. \A r \in Rows : /\ row'[r].offer = row[r].offer
                        /\ row[r].offer \notin S => row'[r] = row[r]
    BY <1>0, <1>6 DEF Delete, NoRow, TypeOK
  <2>3. ASSUME NEW o \in Offers, o \notin D  PROVE Assignment(o)' = Assignment(o)
    <3>1. offer'[o] = offer[o]  BY <2>1, <2>3
    <3>2. ASSUME offer[o].isDriverSelected
          PROVE  /\ SelectedRows(o)' = SelectedRows(o)
                 /\ \A r \in SelectedRows(o) : row'[r].driver = row[r].driver
      <4>1. o \notin S  BY <2>0, <2>3, <3>2, AssignedLive
      <4> QED  BY <2>2, <3>1, <4>1 DEF SelectedRows, RowsOf, Live
    <3> QED  BY <3>1, <3>2, SameAssignment, HasSelected
  <2>4. \A o \in D : Assignment(o)' = NULL  BY <2>0, <2>1 DEF Assignment
  <2>5. Phases' = [o \in Offers |-> IF o \in D THEN "deleted" ELSE Phases[o]]
    BY <2>1 DEF Phases
  <2>6. Assignments' = [o \in Offers |-> IF o \in D THEN NULL ELSE Assignments[o]]
    BY <2>3, <2>4 DEF Assignments
  <2>7. CASE D = {}
    <3>1. Phases' = Phases /\ Assignments' = Assignments
      BY <2>5, <2>6, <2>7 DEF Phases, Assignments
    <3> QED  BY <3>1, QuietRefines
  <2>8. CASE D # {}
    <3>1. \A o \in D : Phases[o] = "live"  BY <2>0 DEF Phases, Live
    <3>2. Abstract!Close(D)
      BY <1>6, <2>5, <2>6, <3>1 DEF Abstract!Close, Phases, Assignments
    <3>3. D \in (SUBSET Offers) \ {{}}  BY <2>0, <2>8
    <3> QED  BY <3>2, <3>3 DEF Abstract!ANext
  <2> QED  BY <2>7, <2>8
<1> QED  BY <1>1, <1>2, <1>3, <1>4, <1>5, <1>6, StepKinds

\* Selecting drivers implements the abstract assignment.
THEOREM Refinement == Spec => ImplementsAssignment
<1>1. Init => Abstract!AInit
  BY DEF Init, NoOffer, NoDraft, Assignment, Abstract!AInit, Abstract!Nobody
<1> QED
  BY <1>1, SelectionInvariant, RefinementStep, PTL
     DEF Spec, ImplementsAssignment, Abstract!ASpec

-----------------------------------------------------------------------------
(* The bid timer.                                                          *)

\* Every step that stops a timer removes the bid with it.
LEMMA TimerStep ==
  ASSUME TypeOK, [Next]_vars, NEW r \in Rows, row[r].actionTime, ~row'[r].actionTime
  PROVE  row'[r].rate = NULL
<1>1. CASE row'[r] = row[r]  BY <1>1
<1>2. ASSUME NEW p \in Reqs,
             BidWrite(p) \/ EditWrite(p) \/ EtaWrite(p) \/ ExtendWrite(p)
             \/ CounterWrite(p) \/ AcceptWrite(p) \/ DeclineWrite(p)
             \/ SelectCommit(p)
      PROVE  row'[r].actionTime
  <2>1. CASE BidWrite(p)  BY <2>1 DEF BidWrite, TypeOK, RowRecord
  <2>2. CASE EditWrite(p)  BY <2>2 DEF EditWrite, TypeOK, RowRecord
  <2>3. CASE EtaWrite(p)
    <3>1. row' = [row EXCEPT ![req[p].row].driverEta = TRUE,
                             ![req[p].row].actionTime =
                                (req[p].at = "etaRefresh") \/ @]
      BY <2>3 DEF EtaWrite
    <3>2. CASE r = req[p].row
      <4>1. row'[r].actionTime = ((req[p].at = "etaRefresh") \/ row[r].actionTime)
        BY <3>1, <3>2 DEF TypeOK, RowRecord
      <4> QED  BY <4>1
    <3>3. CASE r # req[p].row  BY <3>1, <3>3 DEF TypeOK
    <3> QED  BY <3>2, <3>3
  <2>4. CASE ExtendWrite(p)  BY <2>4 DEF ExtendWrite, TypeOK, RowRecord
  <2>5. CASE CounterWrite(p)  BY <2>5 DEF CounterWrite, TypeOK, RowRecord
  <2>6. CASE AcceptWrite(p)  BY <2>6 DEF AcceptWrite, TypeOK, RowRecord
  <2>7. CASE DeclineWrite(p)  BY <2>7 DEF DeclineWrite, TypeOK, RowRecord
  <2>8. CASE SelectCommit(p)  BY <2>8 DEF SelectCommit, PassedOver, TypeOK, RowRecord
  <2> QED  BY <1>2, <2>1, <2>2, <2>3, <2>4, <2>5, <2>6, <2>7, <2>8
<1>3. ASSUME NEW o \in Offers, NEW d \in Drivers, RemoveDriver(o, d)
      PROVE  row'[r].rate = NULL
  BY <1>3 DEF RemoveDriver, RemovedRow, TypeOK, RowRecord
<1>4. ASSUME NEW o \in Offers, NEW d \in Drivers, ReturnDriver(o, d)
      PROVE  row'[r].actionTime
  BY <1>4 DEF ReturnDriver, TypeOK, RowRecord
<1>5. ASSUME NEW o \in Offers, Create(o)  PROVE row'[r].rate = NULL
  BY <1>5 DEF Create, FreshRow, NoRow
<1>6. ASSUME NEW p \in Reqs, AddCommit(p)  PROVE row'[r].rate = NULL
  BY <1>6 DEF AddCommit, FreshRow, NoRow
<1>7. ASSUME NEW p \in Reqs, UpdateCommit(p)  PROVE row'[r].rate = NULL
  <2>1. ResetRow(r).rate = NULL /\ ClearedRow(r).rate = NULL
    BY DEF ResetRow, ClearedRow, TypeOK, RowRecord
  <2>2. \A o, d : FreshRow(o, d).rate = NULL  BY DEF FreshRow, NoRow
  <2>3. PICK o, keep, S, who :
          row'[r] = IF r \in S THEN FreshRow(o, who[r])
                    ELSE IF r \in Range(keep) THEN ResetRow(r)
                    ELSE IF r \in RowsOf(o) /\ row[r].driver \notin req[p].ids
                         THEN ClearedRow(r)
                    ELSE row[r]
    BY <1>7 DEF UpdateCommit
  <2> QED  BY <2>1, <2>2, <2>3
<1>8. ASSUME NEW S, Delete(S)  PROVE row'[r].rate = NULL
  BY <1>8 DEF Delete, NoRow
<1> QED
  BY <1>1, <1>2, <1>3, <1>4, <1>5, <1>6, <1>7, <1>8, StepKinds
  DEF QuietStep, DeactivateOffer, Age

\* A bid comes to a row without timer only by an acceptance or a change of price.
LEMMA BidStep ==
  ASSUME TypeOK, [Next]_vars, NEW r \in Rows,
         row[r].rate = NULL, Untimed(row'[r])
  PROVE  \E p \in Reqs : (AcceptWrite(p) \/ EditWrite(p)) /\ req[p].row = r
<1>0. row'[r].rate # NULL /\ ~row'[r].actionTime  BY DEF Untimed
<1>1. CASE row'[r] = row[r]  BY <1>0, <1>1
<1>2. ASSUME NEW p \in Reqs, AcceptWrite(p) \/ EditWrite(p)
      PROVE  row'[r] = row[r] \/ req[p].row = r
  <2>1. CASE AcceptWrite(p)  BY <2>1 DEF AcceptWrite, TypeOK
  <2>2. CASE EditWrite(p)  BY <2>2 DEF EditWrite, TypeOK
  <2> QED  BY <1>2, <2>1, <2>2
<1>3. ASSUME NEW p \in Reqs, BidWrite(p)
      PROVE  row'[r] = row[r] \/ row'[r].actionTime
  BY <1>3 DEF BidWrite, TypeOK, RowRecord
<1>4. ASSUME NEW p \in Reqs,
             EtaWrite(p) \/ ExtendWrite(p) \/ CounterWrite(p) \/ DeclineWrite(p)
             \/ SelectCommit(p)
      PROVE  row'[r].rate = row[r].rate
  <2>1. CASE EtaWrite(p)  BY <2>1 DEF EtaWrite, TypeOK, RowRecord
  <2>2. CASE ExtendWrite(p)  BY <2>2 DEF ExtendWrite, TypeOK, RowRecord
  <2>3. CASE CounterWrite(p)  BY <2>3 DEF CounterWrite, TypeOK, RowRecord
  <2>4. CASE DeclineWrite(p)  BY <2>4 DEF DeclineWrite, TypeOK, RowRecord
  <2>5. CASE SelectCommit(p)
    <3>1. row'[r] = IF r = req[p].row
                    THEN [row[r] EXCEPT !.active = TRUE, !.isSelected = TRUE]
                    ELSE IF r \in RowsOf(req[p].offer) THEN PassedOver(r) ELSE row[r]
      BY <2>5 DEF SelectCommit
    <3> QED  BY <3>1 DEF PassedOver, TypeOK, RowRecord
  <2> QED  BY <1>4, <2>1, <2>2, <2>3, <2>4, <2>5
<1>5. ASSUME NEW o \in Offers, NEW d \in Drivers, RemoveDriver(o, d) \/ ReturnDriver(o, d)
      PROVE  row'[r].rate = row[r].rate \/ row'[r].rate = NULL
  <2>1. CASE RemoveDriver(o, d)
    <3>1. row'[r] = IF r \in RowsOfDriver(o, d) THEN RemovedRow(r) ELSE row[r]
      BY <2>1 DEF RemoveDriver
    <3> QED  BY <3>1 DEF RemovedRow, TypeOK, RowRecord
  <2>2. CASE ReturnDriver(o, d)
    BY <2>2 DEF ReturnDriver, TypeOK, RowRecord
  <2> QED  BY <1>5, <2>1, <2>2
<1> DEFINE Emptied == row'[r].rate = NULL \/ row'[r] = row[r]
<1>10. \A o, d : FreshRow(o, d).rate = NULL  BY DEF FreshRow, NoRow
<1>6. ASSUME NEW o \in Offers, Create(o)  PROVE Emptied
  <2>1. PICK S, who : row'[r] = IF r \in S THEN FreshRow(o, who[r]) ELSE row[r]
    BY <1>6 DEF Create
  <2> QED  BY <2>1, <1>10
<1>7. ASSUME NEW p \in Reqs, AddCommit(p)  PROVE Emptied
  <2>1. PICK S, who : row'[r] = IF r \in S THEN FreshRow(req[p].offer, who[r]) ELSE row[r]
    BY <1>7 DEF AddCommit
  <2> QED  BY <2>1, <1>10
<1>8. ASSUME NEW p \in Reqs, UpdateCommit(p)  PROVE row'[r].rate = NULL \/ row'[r] = row[r]
  <2>1. ResetRow(r).rate = NULL /\ ClearedRow(r).rate = NULL
    BY DEF ResetRow, ClearedRow, TypeOK, RowRecord
  <2>2. \A o, d : FreshRow(o, d).rate = NULL  BY DEF FreshRow, NoRow
  <2>3. PICK o, keep, S, who :
          row'[r] = IF r \in S THEN FreshRow(o, who[r])
                    ELSE IF r \in Range(keep) THEN ResetRow(r)
                    ELSE IF r \in RowsOf(o) /\ row[r].driver \notin req[p].ids
                         THEN ClearedRow(r)
                    ELSE row[r]
    BY <1>8 DEF UpdateCommit
  <2> QED  BY <2>1, <2>2, <2>3
<1>9. ASSUME NEW S, Delete(S)  PROVE row'[r].rate = NULL \/ row'[r] = row[r]
  BY <1>9 DEF Delete, NoRow
<1> QED
  BY <1>0, <1>1, <1>2, <1>3, <1>4, <1>5, <1>6, <1>7, <1>8, <1>9, StepKinds
  DEF QuietStep, DeactivateOffer, Age

\* A timer is stopped only together with its bid, and a bid is written where no
\* timer runs only by accepting a counter-offer or changing a price.
THEOREM TimerKept == Spec => BidsTimed
<1>1. ASSUME TypeOK, [Next]_vars, NEW r \in Rows, Untimed(row'[r]), ~Untimed(row[r])
      PROVE  /\ row[r].rate = NULL /\ ~row[r].actionTime
             /\ \E p \in Reqs : (AcceptWrite(p) \/ EditWrite(p)) /\ req[p].row = r
  <2>1. row'[r].rate # NULL /\ ~row'[r].actionTime  BY <1>1 DEF Untimed
  <2>2. ~row[r].actionTime  BY <1>1, <2>1, TimerStep
  <2>3. row[r].rate = NULL  BY <1>1, <2>2 DEF Untimed
  <2> QED  BY <1>1, <2>2, <2>3, BidStep
<1>2. TypeOK /\ [Next]_vars =>
        [\A r \in Rows : Untimed(row'[r]) =>
           \/ Untimed(row[r])
           \/ /\ row[r].rate = NULL /\ ~row[r].actionTime
              /\ \E p \in Reqs : (AcceptWrite(p) \/ EditWrite(p)) /\ req[p].row = r]_vars
  BY <1>1
<1> QED  BY <1>2, TypeCorrect, PTL DEF Spec, BidsTimed

=============================================================================
