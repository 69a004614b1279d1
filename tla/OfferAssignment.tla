-------------------------- MODULE OfferAssignment ---------------------------
(***************************************************************************)
(* What accepting a driver promises.  TMS drafts each load once, for one   *)
(* offer and one driver; an offer is assigned at most one driver, and only *)
(* together with a load that was drafted for exactly this offer and this   *)
(* driver.                                                                 *)
(***************************************************************************)
CONSTANTS Offers, Drivers, Loads, NULL

VARIABLES
  phase,       \* of each offer: not yet created, open to bids, or closed
  holder,      \* the offer and the driver each load was drafted for
  assignment   \* the driver and the load of each offer, or NULL

avars == <<phase, holder, assignment>>

Nobody == [offer |-> NULL, driver |-> NULL]

AInit ==
  /\ phase = [o \in Offers |-> "none"]
  /\ holder = [l \in Loads |-> Nobody]
  /\ assignment = [o \in Offers |-> NULL]

Open(o) ==
  /\ phase[o] = "none"
  /\ phase' = [phase EXCEPT ![o] = "live"]
  /\ UNCHANGED <<holder, assignment>>

Draft(o, d, l) ==
  /\ holder[l] = Nobody
  /\ holder' = [holder EXCEPT ![l] = [offer |-> o, driver |-> d]]
  /\ UNCHANGED <<phase, assignment>>

\* Also a second choice, which replaces the first one.
Assign(o, l) ==
  /\ phase[o] = "live"
  /\ holder[l].offer = o
  /\ assignment' = [assignment EXCEPT
                      ![o] = [driver |-> holder[l].driver, load |-> l]]
  /\ UNCHANGED <<phase, holder>>

Unassign(o) ==
  /\ phase[o] = "live"
  /\ assignment' = [assignment EXCEPT ![o] = NULL]
  /\ UNCHANGED <<phase, holder>>

Close(S) ==
  /\ \A o \in S : phase[o] = "live"
  /\ phase' = [o \in Offers |-> IF o \in S THEN "deleted" ELSE phase[o]]
  /\ assignment' = [o \in Offers |-> IF o \in S THEN NULL ELSE assignment[o]]
  /\ UNCHANGED holder

ANext ==
  \/ \E o \in Offers : Open(o) \/ Unassign(o)
  \/ \E o \in Offers, d \in Drivers, l \in Loads : Draft(o, d, l)
  \/ \E o \in Offers, l \in Loads : Assign(o, l)
  \/ \E S \in (SUBSET Offers) \ {{}} : Close(S)

ASpec == AInit /\ [][ANext]_avars

=============================================================================
