--------------------------- MODULE BiddingProofs ---------------------------
(***************************************************************************)
(* The invariants of Bidding for any number of passengers, drivers,        *)
(* sessions and rides and any capacity, and that the transactions of       *)
(* BiddingTx implement Bidding, for any number of them.                    *)
(*                                                                         *)
(* TypeOK /\ OneActiveBooking, TypeOK /\ CapacityRespected and             *)
(* TypeOK /\ AcceptanceConsistent are inductive in Bidding.                *)
(*                                                                         *)
(* TxInv is inductive in BiddingTx.  It says what every transaction knows  *)
(* from the rows it has locked (Known), which a step of another one leaves *)
(* true (Keeps, KnownKept).  By it a commit is an action of Bidding; every *)
(* other step of a transaction changes no committed row.                   *)
(***************************************************************************)
EXTENDS BiddingTx, FiniteSetTheorems, TLAPS

\* Rejecting pending offers leaves every offer with a status of bid_offers.
LEMMA RejectPendingType ==
  ASSUME TypeOK, NEW ss, NEW missed
  PROVE  RejectPending(ss, missed) \in [Session -> [Driver -> OfferStatus]]
BY DEF TypeOK, RejectPending, OfferStatus

\* Every transaction writes rows of the declared types.
LEMMA TypeStep == TypeOK /\ [Next]_vars => TypeOK'
<1> SUFFICES ASSUME TypeOK, [Next]_vars PROVE TypeOK'
  OBVIOUS
<1>1. ASSUME NEW p \in Passenger, NEW s \in Session, NEW t \in Driver \cup {None},
             CreateSession(p, s, t)
      PROVE  TypeOK'
  <2>1. oStatus' \in [Session -> [Driver -> OfferStatus]]
    BY <1>1, RejectPendingType DEF CreateSession
  <2>2. sStatus' \in [Session -> SessionStatus]
    BY <1>1 DEF CreateSession, TypeOK, SessionStatus
  <2> QED
    BY <1>1, <2>1, <2>2 DEF CreateSession, TypeOK, rideVars
<1>2. ASSUME NEW p \in Passenger, NEW r \in Ride, CreateRide(p, r)
      PROVE  TypeOK'
  <2>1. oStatus' \in [Session -> [Driver -> OfferStatus]]
    BY <1>2, RejectPendingType DEF CreateRide
  <2>2. sStatus' \in [Session -> SessionStatus]
    BY <1>2 DEF CreateRide, TypeOK, SessionStatus
  <2> QED
    BY <1>2, <2>1, <2>2 DEF CreateRide, TypeOK, RideStatus
<1>3. ASSUME NEW p \in Passenger, ExpireBidSessions(p)
      PROVE  TypeOK'
  <2>1. oStatus' \in [Session -> [Driver -> OfferStatus]]
    BY <1>3, RejectPendingType DEF ExpireBidSessions
  <2>2. sStatus' \in [Session -> SessionStatus]
    BY <1>3 DEF ExpireBidSessions, TypeOK, SessionStatus
  <2> QED
    BY <1>3, <2>1, <2>2 DEF ExpireBidSessions, TypeOK, rideVars
<1>4. ASSUME NEW p \in Passenger, NEW s \in Session, CancelBidSession(p, s)
      PROVE  TypeOK'
  <2>1. oStatus' \in [Session -> [Driver -> OfferStatus]]
    BY <1>4, RejectPendingType DEF CancelBidSession
  <2> QED
    BY <1>4, <2>1 DEF CancelBidSession, TypeOK, SessionStatus, rideVars
<1>5. ASSUME NEW s \in Session, NEW d \in Driver, NEW r \in Ride, AcceptOffer(s, d, r)
      PROVE  TypeOK'
  BY <1>5 DEF AcceptOffer, TypeOK, SessionStatus, OfferStatus, RideStatus
<1>6. ASSUME NEW d \in Driver, NEW s \in Session, PlaceOffer(d, s)
      PROVE  TypeOK'
  BY <1>6 DEF PlaceOffer, TypeOK, OfferStatus, sessionVars, rideVars
<1>7. ASSUME NEW d \in Driver, NEW s \in Session, CancelOffer(d, s)
      PROVE  TypeOK'
  BY <1>7 DEF CancelOffer, TypeOK, OfferStatus, sessionVars, rideVars
<1>8. ASSUME NEW d \in Driver, NEW s \in Session, DeclineSession(d, s)
      PROVE  TypeOK'
  BY <1>8 DEF DeclineSession, TypeOK, SessionStatus, rideVars
<1>9. ASSUME NEW d \in Driver, NEW r \in Ride, AcceptRide(d, r)
      PROVE  TypeOK'
  BY <1>9 DEF AcceptRide, TypeOK, RideStatus, sessionVars
<1>10. ASSUME NEW r \in Ride, EndRide(r)
       PROVE  TypeOK'
  BY <1>10 DEF EndRide, TypeOK, RideStatus, sessionVars
<1>11. ASSUME NEW d \in Driver, SetPresence(d)
       PROVE  TypeOK'
  BY <1>11 DEF SetPresence, TypeOK, sessionVars, rideVars
<1>12. ASSUME NEW s \in Session, PassDeadline(s)
       PROVE  TypeOK'
  BY <1>12 DEF PassDeadline, TypeOK, Clock, rideVars
<1>13. CASE UNCHANGED vars
  BY <1>13 DEF TypeOK, vars, sessionVars, rideVars
<1> QED
  BY <1>1, <1>2, <1>3, <1>4, <1>5, <1>6, <1>7, <1>8, <1>9, <1>10, <1>11, <1>12, <1>13
     DEF Next

\* Every reachable row has the type its columns declare.
THEOREM TypeCorrect == Spec => []TypeOK
<1>1. Init => TypeOK
  BY DEF Init, TypeOK, SessionStatus, OfferStatus, RideStatus, Clock
<1> QED
  BY <1>1, TypeStep, PTL DEF Spec

----------------------------------------------------------------------------
(* One active booking *)

ActiveRideOf(p, r) == rOwner[r] = p /\ rStatus[r] \in {"requested", "accepted"}

\* OneActiveBooking of one passenger, element by element.
OneBooking(p) ==
  /\ \A s, t \in Session : s \in OpenSessions(p) /\ t \in OpenSessions(p) => s = t
  /\ \A r, q \in Ride : ActiveRideOf(p, r) /\ ActiveRideOf(p, q) => r = q
  /\ \A r \in Ride, s \in Session : ~(ActiveRideOf(p, r) /\ s \in OpenSessions(p))

\* The one-booking policy, passenger by passenger and without set equalities.
LEMMA BookingByPassenger == OneActiveBooking <=> \A p \in Passenger : OneBooking(p)
BY DEF OneActiveBooking, OneBooking, OpenSessions, HasActivePassengerRide, ActiveRideOf

\* Every transaction keeps the one-booking policy of all passengers.
LEMMA BookingStep == TypeOK /\ OneActiveBooking /\ [Next]_vars => OneActiveBooking'
<1> SUFFICES ASSUME TypeOK, OneActiveBooking, [Next]_vars, NEW b \in Passenger
             PROVE  OneBooking(b)'
  BY DEF OneActiveBooking, OneBooking, OpenSessions, HasActivePassengerRide, ActiveRideOf
<1> DEFINE NoneOpened == \A x \in Session : x \in OpenSessions(b)' => x \in OpenSessions(b)
           NoneBegun  == \A z \in Ride : ActiveRideOf(b, z)' => ActiveRideOf(b, z)
<1>a. OneBooking(b)
  BY BookingByPassenger
<1>b. ASSUME NoneOpened, NoneBegun PROVE OneBooking(b)'
  BY <1>a, <1>b DEF OneBooking
<1>c. ASSUME UNCHANGED <<rOwner, rStatus>> PROVE NoneBegun
  BY <1>c DEF ActiveRideOf
<1>d. ASSUME UNCHANGED <<sOwner, sStatus>> PROVE NoneOpened
  BY <1>d DEF OpenSessions
<1>1. ASSUME NEW p \in Passenger, NEW s \in Session, NEW t \in Driver \cup {None},
             CreateSession(p, s, t)
      PROVE  OneBooking(b)'
  <2>1. \A z \in Ride : ActiveRideOf(b, z)' => ActiveRideOf(b, z)
    BY <1>1, <1>c DEF CreateSession, rideVars
  <2>2. \A x \in Session : x \in OpenSessions(b)' => IF b = p THEN x = s ELSE x \in OpenSessions(b)
    BY <1>1 DEF CreateSession, OpenSessions, TypeOK
  <2>3. \A z \in Ride : ~ActiveRideOf(p, z)
    BY <1>1 DEF CreateSession, HasActivePassengerRide, ActiveRideOf
  <2> QED
    BY <1>a, <2>1, <2>2, <2>3 DEF OneBooking
<1>2. ASSUME NEW p \in Passenger, NEW r \in Ride, CreateRide(p, r)
      PROVE  OneBooking(b)'
  <2>1. \A x \in Session : x \in OpenSessions(b)' => b # p /\ x \in OpenSessions(b)
    BY <1>2 DEF CreateRide, OpenSessions, TypeOK
  <2>2. \A z \in Ride : ActiveRideOf(b, z)' => IF b = p THEN z = r ELSE ActiveRideOf(b, z)
    BY <1>2 DEF CreateRide, HasActivePassengerRide, ActiveRideOf, TypeOK
  <2> QED
    BY <1>a, <2>1, <2>2 DEF OneBooking
<1>3. ASSUME NEW p \in Passenger, ExpireBidSessions(p)
      PROVE  OneBooking(b)'
  <2>1. NoneOpened
    BY <1>3 DEF ExpireBidSessions, OpenSessions, TypeOK
  <2> QED
    BY <1>3, <1>b, <1>c, <2>1 DEF ExpireBidSessions, rideVars
<1>4. ASSUME NEW p \in Passenger, NEW s \in Session, CancelBidSession(p, s)
      PROVE  OneBooking(b)'
  <2>1. NoneOpened
    BY <1>4 DEF CancelBidSession, OpenSessions, TypeOK
  <2> QED
    BY <1>4, <1>b, <1>c, <2>1 DEF CancelBidSession, rideVars
<1>5. ASSUME NEW s \in Session, NEW d \in Driver, NEW r \in Ride, AcceptOffer(s, d, r)
      PROVE  OneBooking(b)'
  <2>1. s \in OpenSessions(sOwner[s])
    BY <1>5 DEF AcceptOffer, OpenSessions
  <2>2. \A x \in Session : x \in OpenSessions(b)' => x # s /\ x \in OpenSessions(b)
    BY <1>5 DEF AcceptOffer, OpenSessions, TypeOK
  <2>3. \A z \in Ride : ActiveRideOf(b, z)' =>
          IF b = sOwner[s] THEN z = r ELSE ActiveRideOf(b, z)
    BY <1>5 DEF AcceptOffer, HasActivePassengerRide, ActiveRideOf, TypeOK
  <2> QED
    BY <1>a, <2>1, <2>2, <2>3 DEF OneBooking
<1>6. ASSUME NEW d \in Driver, NEW s \in Session,
             PlaceOffer(d, s) \/ CancelOffer(d, s) \/ DeclineSession(d, s)
      PROVE  OneBooking(b)'
  <2>1. NoneOpened /\ UNCHANGED <<rOwner, rStatus>>
    BY <1>6 DEF PlaceOffer, CancelOffer, DeclineSession, OpenSessions, TypeOK, sessionVars, rideVars
  <2> QED
    BY <1>b, <1>c, <2>1
<1>7. ASSUME NEW r \in Ride, EndRide(r) \/ \E d \in Driver : AcceptRide(d, r)
      PROVE  OneBooking(b)'
  <2>1. NoneBegun /\ UNCHANGED <<sOwner, sStatus>>
    BY <1>7 DEF AcceptRide, EndRide, ActiveRideOf, TypeOK, sessionVars
  <2> QED
    BY <1>b, <1>d, <2>1
<1>8. ASSUME \/ \E d \in Driver : SetPresence(d)
             \/ \E s \in Session : PassDeadline(s)
             \/ UNCHANGED vars
      PROVE  OneBooking(b)'
  <2>1. UNCHANGED <<sOwner, sStatus, rOwner, rStatus>>
    BY <1>8 DEF SetPresence, PassDeadline, vars, sessionVars, rideVars
  <2> QED
    BY <1>b, <1>c, <1>d, <2>1
<1> QED
  BY <1>1, <1>2, <1>3, <1>4, <1>5, <1>6, <1>7, <1>8 DEF Next

\* A passenger never has two open sessions, two active rides, or one of each
\* (CreateSession, CreateRide and AcceptOffer on three different tables).
THEOREM OneActiveBookingHolds == Spec => []OneActiveBooking
<1>1. Init => OneActiveBooking
  BY DEF Init, OneActiveBooking, OpenSessions, HasActivePassengerRide
<1> QED
  BY <1>1, TypeCorrect, BookingStep, PTL DEF Spec

----------------------------------------------------------------------------
(* Capacity *)

\* What CountActiveRidesForAcceptance counts is a finite set of rides.
LEMMA ActiveRidesFinite ==
  ASSUME NEW d
  PROVE  /\ IsFiniteSet(ActiveRides(d)) /\ CountActiveRides(d) \in Nat
         /\ IsFiniteSet(ActiveRides(d)') /\ CountActiveRides(d)' \in Nat
<1>1. ActiveRides(d) \subseteq Ride /\ ActiveRides(d)' \subseteq Ride
  BY DEF ActiveRides
<1> QED
  BY <1>1, BiddingConstants, FS_Subset, FS_CardinalityType DEF CountActiveRides

\* Fewer rides need less capacity.
LEMMA CountMonotone ==
  ASSUME NEW d, ActiveRides(d)' \subseteq ActiveRides(d)
  PROVE  CountActiveRides(d)' <= CountActiveRides(d)
BY ActiveRidesFinite, FS_Subset DEF CountActiveRides

\* One more ride needs one more unit.
LEMMA CountPlusOne ==
  ASSUME NEW d, NEW r, ActiveRides(d)' \subseteq ActiveRides(d) \cup {r}
  PROVE  CountActiveRides(d)' <= CountActiveRides(d) + 1
<1> DEFINE S == ActiveRides(d)
           T == S \cup {r}
<1>1. IsFiniteSet(S) /\ Cardinality(S) \in Nat
  BY ActiveRidesFinite DEF CountActiveRides
<1>2. IsFiniteSet(T) /\ Cardinality(T) \in {Cardinality(S), Cardinality(S) + 1}
  BY <1>1, FS_AddElement
<1>3. Cardinality(ActiveRides(d)') <= Cardinality(T)
  BY <1>2, FS_Subset
<1>4. Cardinality(ActiveRides(d)') \in Nat
  BY ActiveRidesFinite DEF CountActiveRides
<1> QED
  BY <1>1, <1>2, <1>3, <1>4 DEF CountActiveRides

\* Every transaction keeps every driver within the capacity.
LEMMA CapacityStep == TypeOK /\ CapacityRespected /\ [Next]_vars => CapacityRespected'
<1> SUFFICES ASSUME TypeOK, CapacityRespected, [Next]_vars, NEW e \in Driver
             PROVE  CountActiveRides(e)' <= MaxActive
  BY DEF CapacityRespected
<1> DEFINE NoneTaken == ActiveRides(e)' \subseteq ActiveRides(e)
<1>a. CountActiveRides(e) <= MaxActive /\ MaxActive \in Nat
  BY BiddingConstants DEF CapacityRespected
<1>b. ASSUME NoneTaken PROVE CountActiveRides(e)' <= MaxActive
  BY <1>a, <1>b, CountMonotone, ActiveRidesFinite
<1>1. ASSUME NEW d \in Driver, NEW r \in Ride,
             AcceptRide(d, r) \/ \E s \in Session : AcceptOffer(s, d, r)
      PROVE  CountActiveRides(e)' <= MaxActive
  <2>1. CASE e = d
    <3>1. ActiveRides(d)' \subseteq ActiveRides(d) \cup {r}
      BY <1>1 DEF AcceptRide, AcceptOffer, ActiveRides, TypeOK
    <3>2. CountActiveRides(d) < MaxActive
      BY <1>1 DEF AcceptRide, AcceptOffer
    <3>3. CountActiveRides(d)' <= CountActiveRides(d) + 1
      BY <3>1, CountPlusOne
    <3> QED
      BY <2>1, <3>2, <3>3, <1>a, ActiveRidesFinite
  <2>2. CASE e # d
    <3>1. NoneTaken
      BY <1>1, <2>2 DEF AcceptRide, AcceptOffer, ActiveRides, TypeOK
    <3> QED
      BY <1>b, <3>1
  <2> QED
    BY <2>1, <2>2
<1>2. ASSUME NEW p \in Passenger, NEW r \in Ride, CreateRide(p, r)
      PROVE  NoneTaken
  BY <1>2 DEF CreateRide, ActiveRides, TypeOK
<1>3. ASSUME NEW r \in Ride, EndRide(r)
      PROVE  NoneTaken
  BY <1>3 DEF EndRide, ActiveRides, TypeOK
<1>4. ASSUME \/ \E p \in Passenger, s \in Session, t \in Driver \cup {None} : CreateSession(p, s, t)
             \/ \E p \in Passenger : ExpireBidSessions(p)
             \/ \E p \in Passenger, s \in Session : CancelBidSession(p, s)
             \/ \E d \in Driver, s \in Session :
                  PlaceOffer(d, s) \/ CancelOffer(d, s) \/ DeclineSession(d, s)
             \/ \E d \in Driver : SetPresence(d)
             \/ \E s \in Session : PassDeadline(s)
             \/ UNCHANGED vars
      PROVE  NoneTaken
  <2>1. UNCHANGED rideVars
    BY <1>4 DEF CreateSession, ExpireBidSessions, CancelBidSession, PlaceOffer, CancelOffer,
                DeclineSession, SetPresence, PassDeadline, vars
  <2> QED
    BY <2>1 DEF rideVars, ActiveRides
<1> QED
  BY <1>b, <1>1, <1>2, <1>3, <1>4 DEF Next

\* No driver ever carries more than MaxActive rides, whichever of AcceptOffer and
\* AcceptRide assigned them.
THEOREM CapacityRespectedHolds == Spec => []CapacityRespected
<1>1. Init => CapacityRespected
  <2> SUFFICES ASSUME Init, NEW d \in Driver PROVE CountActiveRides(d) <= MaxActive
    BY DEF CapacityRespected
  <2>1. ActiveRides(d) = {}
    BY DEF Init, ActiveRides
  <2> QED
    BY <2>1, FS_EmptySet, BiddingConstants DEF CountActiveRides
<1> QED
  BY <1>1, TypeCorrect, CapacityStep, PTL DEF Spec

----------------------------------------------------------------------------
(* Acceptance *)

\* The parts of AcceptanceConsistent.
SessionHasRide == \A s \in Session : sStatus[s] = "accepted" => AcceptedHasRide(s)
RideHasSession == \A s \in Session : sStatus[s] # "accepted" => \A r \in Ride : rSession[r] # s
OfferHasSession ==
  \A s \in Session, d \in Driver :
    oStatus[s][d] = "accepted" <=> (sStatus[s] = "accepted" /\ sDriver[s] = d)
WaitingRides == \A r \in Ride : rStatus[r] \in {"absent", "requested"} => rSession[r] = None

\* The four parts of AcceptanceConsistent, proved one by one below.
LEMMA AcceptanceParts ==
  AcceptanceConsistent <=> SessionHasRide /\ RideHasSession /\ OfferHasSession /\ WaitingRides
BY DEF AcceptanceConsistent, SessionHasRide, RideHasSession, OfferHasSession, WaitingRides

\* A step that creates no link, keeps the accepted sessions and touches only
\* rides that came from no session keeps the links.
LEMMA LinksKept ==
  ASSUME TypeOK, SessionHasRide, RideHasSession, WaitingRides,
         UNCHANGED <<sDriver, rSession>>,
         \A s \in Session : sStatus'[s] = "accepted" <=> sStatus[s] = "accepted",
         \A s \in Session : sStatus[s] = "accepted" => sOwner'[s] = sOwner[s],
         \A r \in Ride : rSession[r] # None => rOwner'[r] = rOwner[r] /\ rDriver'[r] = rDriver[r]
  PROVE  SessionHasRide' /\ RideHasSession'
<1>1. RideHasSession'
  BY DEF RideHasSession
<1>2. ASSUME NEW s \in Session, sStatus'[s] = "accepted"
      PROVE  AcceptedHasRide(s)'
  <2>1. PICK r \in Ride : /\ rSession[r] = s /\ rOwner[r] = sOwner[s] /\ rDriver[r] = sDriver[s]
                          /\ \A q \in Ride : rSession[q] = s => q = r
    BY <1>2 DEF SessionHasRide, AcceptedHasRide
  <2>2. rSession[r] # None
    BY <2>1, BiddingConstants
  <2> QED
    BY <1>2, <2>1, <2>2 DEF AcceptedHasRide
<1> QED
  BY <1>1, <1>2 DEF SessionHasRide

\* Rejecting pending offers neither makes nor unmakes an accepted one.
LEMMA RejectKeepsAccepted ==
  ASSUME TypeOK, NEW ss, NEW missed, NEW s \in Session, NEW d \in Driver
  PROVE  RejectPending(ss, missed)[s][d] = "accepted" <=> oStatus[s][d] = "accepted"
BY DEF RejectPending, TypeOK

\* Every transaction keeps accepted sessions, offers and rides in agreement.
LEMMA AcceptanceStep == TypeOK /\ AcceptanceConsistent /\ [Next]_vars => AcceptanceConsistent'
<1> SUFFICES ASSUME TypeOK, SessionHasRide, RideHasSession, OfferHasSession, WaitingRides,
                    [Next]_vars
             PROVE  SessionHasRide' /\ RideHasSession' /\ OfferHasSession' /\ WaitingRides'
  BY AcceptanceParts
     DEF AcceptanceConsistent, SessionHasRide, RideHasSession, OfferHasSession, WaitingRides
<1> DEFINE Goal == SessionHasRide' /\ RideHasSession' /\ OfferHasSession' /\ WaitingRides'
           SameAccepted == \A s \in Session : sStatus'[s] = "accepted" <=> sStatus[s] = "accepted"
           SameOffers == \A s \in Session, d \in Driver :
                           oStatus'[s][d] = "accepted" <=> oStatus[s][d] = "accepted"
<1>a. ASSUME SameAccepted, SameOffers, UNCHANGED sDriver PROVE OfferHasSession'
  BY <1>a DEF OfferHasSession
<1>1. ASSUME NEW p \in Passenger, NEW s \in Session, NEW t \in Driver \cup {None},
             CreateSession(p, s, t)
      PROVE  Goal
  <2>1. SameAccepted
    BY <1>1 DEF CreateSession, Expirable, OpenSessions, TypeOK
  <2>2. SameOffers
    BY <1>1, RejectKeepsAccepted DEF CreateSession
  <2>3. /\ UNCHANGED <<sDriver, rideVars>>
        /\ \A x \in Session : sStatus[x] = "accepted" => sOwner'[x] = sOwner[x]
    BY <1>1 DEF CreateSession, TypeOK
  <2> QED
    BY <1>a, <2>1, <2>2, <2>3, LinksKept DEF WaitingRides, rideVars
<1>2. ASSUME NEW p \in Passenger, NEW r \in Ride, CreateRide(p, r)
      PROVE  Goal
  <2>1. SameAccepted
    BY <1>2 DEF CreateRide, Expirable, OpenSessions, TypeOK
  <2>2. SameOffers
    BY <1>2, RejectKeepsAccepted DEF CreateRide
  <2>3. /\ UNCHANGED <<sDriver, sOwner, rSession, rDriver>>
        /\ \A z \in Ride : rSession[z] # None => rOwner'[z] = rOwner[z]
        /\ WaitingRides'
    BY <1>2 DEF CreateRide, WaitingRides, TypeOK
  <2> QED
    BY <1>a, <2>1, <2>2, <2>3, LinksKept
<1>3. ASSUME NEW p \in Passenger, ExpireBidSessions(p)
      PROVE  Goal
  <2>1. SameAccepted
    BY <1>3 DEF ExpireBidSessions, Expirable, OpenSessions, TypeOK
  <2>2. SameOffers
    BY <1>3, RejectKeepsAccepted DEF ExpireBidSessions
  <2>3. UNCHANGED <<sDriver, sOwner, rideVars>>
    BY <1>3 DEF ExpireBidSessions
  <2> QED
    BY <1>a, <2>1, <2>2, <2>3, LinksKept DEF WaitingRides, rideVars
<1>4. ASSUME NEW p \in Passenger, NEW s \in Session, CancelBidSession(p, s)
      PROVE  Goal
  <2>1. SameAccepted
    BY <1>4 DEF CancelBidSession, TypeOK
  <2>2. SameOffers
    BY <1>4, RejectKeepsAccepted DEF CancelBidSession
  <2>3. UNCHANGED <<sDriver, sOwner, rideVars>>
    BY <1>4 DEF CancelBidSession
  <2> QED
    BY <1>a, <2>1, <2>2, <2>3, LinksKept DEF WaitingRides, rideVars
<1>5. ASSUME NEW s \in Session, NEW d \in Driver, NEW r \in Ride, AcceptOffer(s, d, r)
      PROVE  Goal
  <2>1. rSession[r] = None /\ sStatus[s] # "accepted"
    BY <1>5 DEF AcceptOffer, WaitingRides
  <2>2. SessionHasRide'
    <3> SUFFICES ASSUME NEW x \in Session, sStatus'[x] = "accepted"
                 PROVE  AcceptedHasRide(x)'
      BY DEF SessionHasRide
    <3>1. CASE x = s
      <4>1. /\ rSession'[r] = s /\ rOwner'[r] = sOwner'[s] /\ rDriver'[r] = sDriver'[s]
            /\ \A q \in Ride : rSession'[q] = s => q = r
        BY <1>5, <2>1 DEF AcceptOffer, TypeOK, RideHasSession
      <4> QED
        BY <3>1, <4>1 DEF AcceptedHasRide
    <3>2. CASE x # s
      <4>1. sStatus[x] = "accepted"
        BY <1>5, <3>2 DEF AcceptOffer, TypeOK
      <4>2. PICK z \in Ride : /\ rSession[z] = x /\ rOwner[z] = sOwner[x] /\ rDriver[z] = sDriver[x]
                              /\ \A q \in Ride : rSession[q] = x => q = z
        BY <4>1 DEF SessionHasRide, AcceptedHasRide
      <4>3. z # r
        BY <2>1, <4>2, BiddingConstants
      <4>4. /\ rSession'[z] = x /\ rOwner'[z] = sOwner'[x] /\ rDriver'[z] = sDriver'[x]
            /\ \A q \in Ride : rSession'[q] = x => q = z
        BY <1>5, <3>2, <4>2, <4>3 DEF AcceptOffer, TypeOK
      <4> QED
        BY <4>4 DEF AcceptedHasRide
    <3> QED
      BY <3>1, <3>2
  <2>3. RideHasSession'
    BY <1>5 DEF AcceptOffer, RideHasSession, TypeOK
  <2>4. OfferHasSession'
    BY <1>5, <2>1 DEF AcceptOffer, OfferHasSession, TypeOK
  <2>5. WaitingRides'
    BY <1>5 DEF AcceptOffer, WaitingRides, TypeOK
  <2> QED
    BY <2>2, <2>3, <2>4, <2>5
<1>6. ASSUME NEW d \in Driver, NEW s \in Session,
             PlaceOffer(d, s) \/ CancelOffer(d, s) \/ DeclineSession(d, s)
      PROVE  Goal
  <2>1. SameAccepted
    BY <1>6 DEF PlaceOffer, CancelOffer, DeclineSession, TypeOK, sessionVars
  <2>2. SameOffers
    BY <1>6 DEF PlaceOffer, CancelOffer, DeclineSession, TypeOK, OfferHasSession
  <2>3. UNCHANGED <<sDriver, sOwner, rideVars>>
    BY <1>6 DEF PlaceOffer, CancelOffer, DeclineSession, sessionVars
  <2> QED
    BY <1>a, <2>1, <2>2, <2>3, LinksKept DEF WaitingRides, rideVars
<1>7. ASSUME NEW r \in Ride, EndRide(r) \/ \E d \in Driver : AcceptRide(d, r)
      PROVE  Goal
  <2>1. /\ UNCHANGED <<sStatus, sDriver, sOwner, oStatus, rSession, rOwner>>
        /\ \A z \in Ride : rSession[z] # None => rDriver'[z] = rDriver[z]
        /\ WaitingRides'
    BY <1>7 DEF AcceptRide, EndRide, WaitingRides, TypeOK, sessionVars
  <2> QED
    BY <1>a, <2>1, LinksKept
<1>8. ASSUME \/ \E d \in Driver : SetPresence(d)
             \/ \E s \in Session : PassDeadline(s)
             \/ UNCHANGED vars
      PROVE  Goal
  <2>1. UNCHANGED <<sStatus, sDriver, sOwner, oStatus, rideVars>>
    BY <1>8 DEF SetPresence, PassDeadline, vars, sessionVars
  <2> QED
    BY <1>a, <2>1, LinksKept DEF WaitingRides, rideVars
<1> QED
  BY <1>1, <1>2, <1>3, <1>4, <1>5, <1>6, <1>7, <1>8 DEF Next

\* A session, the offer that won it and the ride it became agree for ever, and
\* every session becomes at most one ride (AcceptOffer's transaction).
THEOREM AcceptanceConsistentHolds == Spec => []AcceptanceConsistent
<1>1. Init => AcceptanceConsistent
  BY BiddingConstants DEF Init, AcceptanceConsistent
<1> QED
  BY <1>1, TypeCorrect, AcceptanceStep, PTL DEF Spec

----------------------------------------------------------------------------
(* A session is decided once *)

\* No transaction changes the decision of a decided session.
LEMMA DecidedStep ==
  ASSUME TypeOK, Next, NEW s \in Session, sStatus[s] \notin {"absent", "open"}
  PROVE  sStatus'[s] = sStatus[s] /\ sDriver'[s] = sDriver[s]
<1>1. ASSUME NEW p \in Passenger, NEW x \in Session, NEW t \in Driver \cup {None},
             CreateSession(p, x, t)
      PROVE  sStatus'[s] = sStatus[s] /\ sDriver'[s] = sDriver[s]
  BY <1>1 DEF CreateSession, Expirable, OpenSessions, TypeOK
<1>2. ASSUME NEW p \in Passenger, NEW r \in Ride, CreateRide(p, r)
      PROVE  sStatus'[s] = sStatus[s] /\ sDriver'[s] = sDriver[s]
  BY <1>2 DEF CreateRide, Expirable, OpenSessions, TypeOK
<1>3. ASSUME NEW p \in Passenger, ExpireBidSessions(p)
      PROVE  sStatus'[s] = sStatus[s] /\ sDriver'[s] = sDriver[s]
  BY <1>3 DEF ExpireBidSessions, Expirable, OpenSessions, TypeOK
<1>4. ASSUME NEW p \in Passenger, NEW x \in Session, CancelBidSession(p, x)
      PROVE  sStatus'[s] = sStatus[s] /\ sDriver'[s] = sDriver[s]
  BY <1>4 DEF CancelBidSession, TypeOK
<1>5. ASSUME NEW x \in Session, NEW d \in Driver, NEW r \in Ride, AcceptOffer(x, d, r)
      PROVE  sStatus'[s] = sStatus[s] /\ sDriver'[s] = sDriver[s]
  BY <1>5 DEF AcceptOffer, TypeOK
<1>6. ASSUME NEW d \in Driver, NEW x \in Session, DeclineSession(d, x)
      PROVE  sStatus'[s] = sStatus[s] /\ sDriver'[s] = sDriver[s]
  BY <1>6 DEF DeclineSession, TypeOK
<1>7. ASSUME \/ \E d \in Driver, x \in Session : PlaceOffer(d, x) \/ CancelOffer(d, x)
             \/ \E d \in Driver, r \in Ride : AcceptRide(d, r)
             \/ \E r \in Ride : EndRide(r)
             \/ \E d \in Driver : SetPresence(d)
             \/ \E x \in Session : PassDeadline(x)
      PROVE  sStatus'[s] = sStatus[s] /\ sDriver'[s] = sDriver[s]
  BY <1>7 DEF PlaceOffer, CancelOffer, AcceptRide, EndRide, SetPresence, PassDeadline, sessionVars
<1> QED
  BY <1>1, <1>2, <1>3, <1>4, <1>5, <1>6, <1>7 DEF Next

\* Acceptance, cancellation, expiry and decline never overwrite one another.
THEOREM DecidedOnceHolds == Spec => DecidedOnce
<1>1. TypeOK /\ [Next]_vars =>
        [\A s \in Session : sStatus[s] \notin {"absent", "open"} =>
            sStatus'[s] = sStatus[s] /\ sDriver'[s] = sDriver[s]]_vars
  BY DecidedStep
<1> QED
  BY <1>1, TypeCorrect, PTL DEF Spec, DecidedOnce

----------------------------------------------------------------------------
(* BiddingTx implements Bidding: what a transaction in progress knows *)

\* Whether t has read the clock that it goes by.
InProgress(t) == tx[t].pc \notin {"idle", "done", "user"}

Rows ==
  {UserRow(p) : p \in Passenger} \cup {DriverRow(d) : d \in Driver} \cup {RideRow(r) : r \in Ride}
    \cup {SessionRow(s) : s \in Session} \cup {OfferRow(x[1], x[2]) : x \in Session \X Driver}

Statements ==
  {"idle", "done", "user", "session", "driver", "offer", "ride", "expire", "expireOffers", "cancel",
   "rivals", "others", "checkRides", "commit"}

TxRecord ==
  [op : {"none", "AcceptOffer", "PlaceOffer", "CreateSession", "CreateRide", "CancelSession", "AcceptRide"},
   pc : Statements,
   p : Passenger \cup {None}, s : Session \cup {None}, d : Driver \cup {None}, r : Ride \cup {None},
   past : SUBSET Session, locks : SUBSET Rows, todo : SUBSET Rows, snap : SUBSET Rows,
   closing : SUBSET Session, rejecting : SUBSET (Session \X Driver), full : BOOLEAN]

TxType == tx \in [Tx -> TxRecord]

\* No two transactions hold a row.
RowsExclusive == \A t, u \in Tx : t # u => tx[t].locks \cap tx[u].locks = {}

\* The deadline of a session is ahead when its row is inserted.
NewIsBefore == \A s \in Session : sStatus[s] = "absent" => sClock[s] = "before"

\* What t takes for past has been passed, and what everybody finds past is among it.
PastRight(t) ==
  InProgress(t) => \A s \in Session : /\ s \in tx[t].past => sClock[s] # "before"
                                      /\ sClock[s] = "after" => s \in tx[t].past

\* Nobody locks a row that does not match, and while it is locked it does.
LocksHold(t) ==
  /\ \A s \in Session : SessionRow(s) \in tx[t].locks => sStatus[s] = "open"
  /\ \A s \in Session, d \in Driver : OfferRow(s, d) \in tx[t].locks => oStatus[s][d] = "pending"
  /\ \A d \in Driver : DriverRow(d) \in tx[t].locks => d \in online
  /\ \A r \in Ride : RideRow(r) \in tx[t].locks => rStatus[r] = "requested"

\* What t has written it has locked.
WritesLocked(t) ==
  /\ \A s \in tx[t].closing : SessionRow(s) \in tx[t].locks /\ sOwner[s] = tx[t].p
  /\ \A s \in Session, d \in Driver : <<s, d>> \in tx[t].rejecting => OfferRow(s, d) \in tx[t].locks

Outside(t) ==
  tx[t].op = "none" => tx[t].pc \in {"idle", "done"} /\ tx[t].locks = {} /\ tx[t].todo = {}

\* An acceptance: what each lock it holds tells, and that the two statements that reject offers
\* find every offer they should although they go by a snapshot.
Accepting(t) ==
  tx[t].op = "AcceptOffer" =>
    LET s == tx[t].s  d == tx[t].d  pc == tx[t].pc IN
    /\ tx[t].p \in Passenger /\ s \in Session /\ d \in Driver /\ tx[t].closing = {}
    /\ pc \in {"session", "driver", "offer", "rivals", "others", "commit"}
    /\ pc \in {"session", "driver", "offer"} => tx[t].rejecting = {} /\ tx[t].todo = {}
    /\ pc # "session" => SessionRow(s) \in tx[t].locks /\ s \notin tx[t].past /\ sOwner[s] = tx[t].p
    /\ pc \in {"offer", "rivals", "others", "commit"} => DriverRow(d) \in tx[t].locks
    /\ pc \in {"rivals", "others", "commit"} =>
         /\ OfferRow(s, d) \in tx[t].locks /\ sTarget[s] \in {None, d}
         /\ CountActiveRides(d) < MaxActive /\ ~HasActivePassengerRide(tx[t].p)
         /\ CountActiveRides(d) + 1 >= MaxActive => tx[t].full
         /\ \A e \in Driver \ {d} : oStatus[s][e] = "pending" =>
              <<s, e>> \in tx[t].rejecting \/ (pc = "rivals" /\ OfferRow(s, e) \in tx[t].todo)
         /\ \A y \in Session, e \in Driver : <<y, e>> \in tx[t].rejecting =>
              (y = s /\ e # d) \/ (y # s /\ e = d /\ tx[t].full)
    /\ pc = "rivals" => \A row \in tx[t].todo : \E e \in Driver \ {d} : row = OfferRow(s, e)
    /\ pc = "others" => /\ tx[t].full
                        /\ \A row \in tx[t].todo : \E y \in Session \ {s} : row = OfferRow(y, d)
    /\ pc = "commit" => tx[t].todo = {}
    /\ pc = "others" \/ (pc = "commit" /\ tx[t].full) =>
         \A y \in Session \ {s} : oStatus[y][d] = "pending" =>
           <<y, d>> \in tx[t].rejecting \/ (pc = "others" /\ OfferRow(y, d) \in tx[t].todo)

Placing(t) ==
  tx[t].op = "PlaceOffer" =>
    LET s == tx[t].s  d == tx[t].d  pc == tx[t].pc IN
    /\ s \in Session /\ d \in Driver /\ pc \in {"session", "driver", "commit"}
    /\ tx[t].closing = {} /\ tx[t].rejecting = {} /\ tx[t].todo = {}
    /\ pc # "session" =>
         SessionRow(s) \in tx[t].locks /\ s \notin tx[t].past /\ sTarget[s] \in {None, d}
    /\ pc = "commit" => /\ DriverRow(d) \in tx[t].locks /\ CountActiveRides(d) < MaxActive
                        /\ oStatus[s][d] # "pending"

AcceptingRide(t) ==
  tx[t].op = "AcceptRide" =>
    /\ tx[t].d \in Driver /\ tx[t].r \in Ride /\ tx[t].pc \in {"driver", "ride", "commit"}
    /\ tx[t].closing = {} /\ tx[t].rejecting = {} /\ tx[t].todo = {}
    /\ tx[t].pc # "driver" =>
         DriverRow(tx[t].d) \in tx[t].locks /\ CountActiveRides(tx[t].d) < MaxActive
    /\ tx[t].pc = "commit" => RideRow(tx[t].r) \in tx[t].locks

\* ExpireBidSessions of t is running: it closes the passenger's sessions that are past, all of them.
Expiring(t) ==
  tx[t].pc \in {"expire", "expireOffers"} =>
    LET due == OpenSessions(tx[t].p) \cap tx[t].past IN
    /\ tx[t].op \in {"CreateSession", "CreateRide", "CancelSession"}
    /\ tx[t].closing \subseteq tx[t].past
    /\ tx[t].pc = "expire" =>
         /\ tx[t].rejecting = {}
         /\ \A row \in tx[t].todo :
              \E s \in tx[t].past : row = SessionRow(s) /\ sStatus[s] # "absent" /\ sOwner[s] = tx[t].p
         /\ \A row \in tx[t].snap : \E s \in Session, d \in Driver : row = OfferRow(s, d)
         /\ \A s \in due : s \in tx[t].closing \/ SessionRow(s) \in tx[t].todo
    /\ tx[t].pc = "expireOffers" =>
         /\ due \subseteq tx[t].closing
         /\ \A row \in tx[t].todo : \E s \in tx[t].closing, d \in Driver : row = OfferRow(s, d)
         /\ \A s \in Session, d \in Driver : <<s, d>> \in tx[t].rejecting => s \in tx[t].closing

\* A new booking, under the lock of the passenger's users row.
Creating(t) ==
  tx[t].op \in {"CreateSession", "CreateRide"} =>
    LET p == tx[t].p  pc == tx[t].pc IN
    /\ p \in Passenger /\ pc \in {"user", "expire", "expireOffers", "checkRides", "commit"}
    /\ pc = "user" => tx[t].closing = {} /\ tx[t].rejecting = {} /\ tx[t].todo = {} /\ tx[t].locks = {}
    /\ pc # "user" => UserRow(p) \in tx[t].locks
    /\ pc \in {"checkRides", "commit"} =>
         /\ tx[t].todo = {} /\ tx[t].closing \subseteq tx[t].past
         /\ OpenSessions(p) \subseteq tx[t].closing
         /\ \A s \in Session, d \in Driver : <<s, d>> \in tx[t].rejecting => s \in tx[t].closing
    /\ pc = "commit" => ~HasActivePassengerRide(p)

\* A cancellation: ExpireBidSessions, then CancelBidSession of the one session.
Cancelling(t) ==
  tx[t].op = "CancelSession" =>
    LET p == tx[t].p  s == tx[t].s  pc == tx[t].pc
        mine == sStatus[s] = "open" /\ sOwner[s] = p IN
    /\ p \in Passenger /\ s \in Session /\ sStatus[s] # "absent"
    /\ pc \in {"expire", "expireOffers", "cancel", "commit"}
    /\ pc \in {"cancel", "commit"} => tx[t].closing \subseteq {s}
    /\ pc = "cancel" =>
         /\ tx[t].rejecting = {}
         /\ \A row \in tx[t].todo : row = SessionRow(s) /\ sOwner[s] = p
         /\ \A row \in tx[t].snap : \E d \in Driver : row = OfferRow(s, d)
         /\ mine => s \in tx[t].closing \/ SessionRow(s) \in tx[t].todo
    /\ pc = "commit" =>
         /\ \A row \in tx[t].todo : \E d \in Driver : row = OfferRow(s, d)
         /\ \A y \in Session, d \in Driver : <<y, d>> \in tx[t].rejecting => y = s
         /\ mine => s \in tx[t].closing

Known(t) ==
  /\ PastRight(t) /\ LocksHold(t) /\ WritesLocked(t) /\ Outside(t) /\ Accepting(t) /\ Placing(t)
  /\ AcceptingRide(t) /\ Expiring(t) /\ Creating(t) /\ Cancelling(t)

TxInv ==
  /\ TypeOK /\ OneActiveBooking /\ TxType /\ RowsExclusive /\ NewIsBefore
  /\ \A t \in Tx : Known(t)

\* Rows of different tables, and of different keys, are different rows.
LEMMA RowNames ==
  /\ \A x, y : /\ UserRow(x) = UserRow(y) => x = y
               /\ SessionRow(x) = SessionRow(y) => x = y
               /\ DriverRow(x) = DriverRow(y) => x = y
               /\ RideRow(x) = RideRow(y) => x = y
               /\ SessionRow(x) # UserRow(y) /\ SessionRow(x) # DriverRow(y) /\ SessionRow(x) # RideRow(y)
               /\ UserRow(x) # DriverRow(y) /\ UserRow(x) # RideRow(y) /\ DriverRow(x) # RideRow(y)
  /\ \A x, y, v, w : OfferRow(x, y) = OfferRow(v, w) => x = v /\ y = w
  /\ \A x, y, v : /\ OfferRow(x, y) # SessionRow(v) /\ OfferRow(x, y) # UserRow(v)
                  /\ OfferRow(x, y) # DriverRow(v) /\ OfferRow(x, y) # RideRow(v)
<1>1. \A x, y : OfferRow(x, y)[1] = "bid_offers" /\ OfferRow(x, y)[2] = x /\ OfferRow(x, y)[3] = y
  BY DEF OfferRow
<1>2. \A x : /\ SessionRow(x)[1] = "bid_sessions" /\ SessionRow(x)[2] = x
             /\ UserRow(x)[1] = "users" /\ UserRow(x)[2] = x
             /\ DriverRow(x)[1] = "driver_profiles" /\ DriverRow(x)[2] = x
             /\ RideRow(x)[1] = "rides" /\ RideRow(x)[2] = x
  BY DEF SessionRow, UserRow, DriverRow, RideRow
<1> QED
  BY <1>1, <1>2

\* What a step of another transaction, or of nobody's, leaves to t: the rows t has locked, what
\* follows from them, and the history of every session.
KeepsSessions(t) ==
  \A s \in Session : SessionRow(s) \in tx[t].locks =>
    /\ sStatus'[s] = sStatus[s]
    /\ \A d \in Driver : oStatus'[s][d] = "pending" => oStatus[s][d] = "pending"
    /\ \A p \in Passenger :
         sOwner[s] = p /\ HasActivePassengerRide(p)' => HasActivePassengerRide(p)

KeepsOffers(t) ==
  \A s \in Session, d \in Driver : OfferRow(s, d) \in tx[t].locks => oStatus'[s][d] = oStatus[s][d]

KeepsDrivers(t) ==
  \A d \in Driver : DriverRow(d) \in tx[t].locks =>
    /\ d \in online => d \in online'
    /\ \A s \in Session : oStatus'[s][d] = "pending" => oStatus[s][d] = "pending"
    /\ CountActiveRides(d)' <= CountActiveRides(d)

KeepsRides(t) == \A r \in Ride : RideRow(r) \in tx[t].locks => rStatus'[r] = rStatus[r]

KeepsUsers(t) ==
  \A p \in Passenger : UserRow(p) \in tx[t].locks =>
    /\ OpenSessions(p)' \subseteq OpenSessions(p)
    /\ HasActivePassengerRide(p)' => HasActivePassengerRide(p)

KeepsHistory(t) ==
  \A s \in Session :
    /\ sStatus[s] # "absent" => /\ sOwner'[s] = sOwner[s] /\ sTarget'[s] = sTarget[s]
                                /\ sStatus'[s] # "absent"
                                /\ sStatus'[s] = "open" => sStatus[s] = "open"
    /\ sStatus[s] = "absent" => sClock'[s] = "before"
    /\ sClock[s] # "before" => sClock'[s] # "before"
    /\ InProgress(t) /\ sClock'[s] = "after" => sClock[s] = "after" \/ s \in tx[t].past

Keeps(t) ==
  /\ KeepsSessions(t) /\ KeepsOffers(t) /\ KeepsDrivers(t) /\ KeepsRides(t)
  /\ KeepsUsers(t) /\ KeepsHistory(t)

\* What t knows survives the steps of the others.
LEMMA KnownKept ==
  ASSUME TxInv, TypeOK', NEW t \in Tx, tx'[t] = tx[t], Keeps(t)
  PROVE  Known(t)'
<1> USE DEF Keeps, KeepsSessions, KeepsOffers, KeepsDrivers, KeepsRides, KeepsUsers, KeepsHistory
<1>0. Known(t) /\ tx[t] \in TxRecord
  BY DEF TxInv, TxType
<1>1. PastRight(t)'
  BY <1>0 DEF Known, PastRight, InProgress, TxInv, TypeOK, NewIsBefore
<1>2. LocksHold(t)'
  BY <1>0 DEF Known, LocksHold
<1>3. WritesLocked(t)'
  BY <1>0 DEF Known, LocksHold, WritesLocked, TxRecord
<1>4. Outside(t)'
  BY <1>0 DEF Known, Outside
<1>5. Accepting(t)'
  <2> SUFFICES ASSUME tx[t].op = "AcceptOffer" PROVE Accepting(t)'
    BY DEF Accepting
  <2> PICK s, d, p : s = tx[t].s /\ d = tx[t].d /\ p = tx[t].p
    OBVIOUS
  <2>1. s \in Session /\ d \in Driver /\ p \in Passenger
    BY <1>0 DEF Known, Accepting
  <2>2. CountActiveRides(d) \in Nat /\ CountActiveRides(d)' \in Nat /\ MaxActive \in Nat
    BY ActiveRidesFinite, BiddingConstants
  <2>3. SessionRow(s) \in tx[t].locks => /\ sStatus[s] = "open" /\ sOwner'[s] = sOwner[s] /\ sTarget'[s] = sTarget[s]
                                         /\ \A e \in Driver : oStatus'[s][e] = "pending" => oStatus[s][e] = "pending"
                                         /\ sOwner[s] = p /\ HasActivePassengerRide(p)' => HasActivePassengerRide(p)
    BY <1>0, <2>1 DEF Known, LocksHold
  <2>4. DriverRow(d) \in tx[t].locks => /\ CountActiveRides(d)' <= CountActiveRides(d)
                                        /\ \A y \in Session : oStatus'[y][d] = "pending" => oStatus[y][d] = "pending"
    BY <2>1
  <2>5. tx[t].pc \in {"rivals", "others", "commit"} =>
          /\ CountActiveRides(d)' < MaxActive /\ ~HasActivePassengerRide(p)'
          /\ CountActiveRides(d)' + 1 >= MaxActive => tx[t].full
    BY <1>0, <2>2, <2>3, <2>4 DEF Known, Accepting
  <2>6. HasActivePassengerRide(tx[t].p)' <=> HasActivePassengerRide(p)'
    BY DEF HasActivePassengerRide
  <2>7. CountActiveRides(tx[t].d)' = CountActiveRides(d)'
    BY DEF CountActiveRides, ActiveRides
  <2> QED
    BY <1>0, <2>1, <2>3, <2>4, <2>5, <2>6, <2>7 DEF Known, Accepting
<1>6. Placing(t)'
  <2> SUFFICES ASSUME tx[t].op = "PlaceOffer" PROVE Placing(t)'
    BY DEF Placing
  <2> PICK s, d : s = tx[t].s /\ d = tx[t].d
    OBVIOUS
  <2>1. s \in Session /\ d \in Driver
    BY <1>0 DEF Known, Placing
  <2>2. CountActiveRides(d) \in Nat /\ CountActiveRides(d)' \in Nat /\ MaxActive \in Nat
    BY ActiveRidesFinite, BiddingConstants
  <2>3. SessionRow(s) \in tx[t].locks => /\ sTarget'[s] = sTarget[s]
                                         /\ oStatus'[s][d] = "pending" => oStatus[s][d] = "pending"
    BY <1>0, <2>1 DEF Known, LocksHold
  <2>4. tx[t].pc = "commit" => CountActiveRides(d)' < MaxActive
    BY <1>0, <2>1, <2>2 DEF Known, Placing
  <2>5. CountActiveRides(tx[t].d)' = CountActiveRides(d)'
    BY DEF CountActiveRides, ActiveRides
  <2> QED
    BY <1>0, <2>1, <2>3, <2>4, <2>5 DEF Known, Placing
<1>7. AcceptingRide(t)'
  <2> SUFFICES ASSUME tx[t].op = "AcceptRide" PROVE AcceptingRide(t)'
    BY DEF AcceptingRide
  <2> PICK d : d = tx[t].d
    OBVIOUS
  <2>1. d \in Driver
    BY <1>0 DEF Known, AcceptingRide
  <2>2. CountActiveRides(d) \in Nat /\ CountActiveRides(d)' \in Nat /\ MaxActive \in Nat
    BY ActiveRidesFinite, BiddingConstants
  <2>3. tx[t].pc # "driver" => CountActiveRides(d)' < MaxActive
    BY <1>0, <2>1, <2>2 DEF Known, AcceptingRide
  <2>4. CountActiveRides(tx[t].d)' = CountActiveRides(d)'
    BY DEF CountActiveRides, ActiveRides
  <2> QED
    BY <1>0, <2>3, <2>4 DEF Known, AcceptingRide
<1>8. Expiring(t)'
  <2> SUFFICES ASSUME tx[t].pc \in {"expire", "expireOffers"} PROVE Expiring(t)'
    BY DEF Expiring
  <2>1. \A s \in tx[t].past : sClock[s] # "before" /\ sStatus[s] # "absent"
    BY <1>0 DEF Known, PastRight, InProgress, TxRecord, TxInv, NewIsBefore
  <2>2. \A s \in tx[t].past : /\ s \in Session /\ sOwner'[s] = sOwner[s] /\ sStatus'[s] # "absent"
                              /\ sStatus'[s] = "open" => sStatus[s] = "open"
    BY <1>0, <2>1 DEF TxRecord
  <2>3. (OpenSessions(tx[t].p) \cap tx[t].past)' \subseteq OpenSessions(tx[t].p) \cap tx[t].past
    BY <2>2 DEF OpenSessions
  <2> QED
    BY <1>0, <2>2, <2>3 DEF Known, Expiring
<1>9. Creating(t)'
  <2> SUFFICES ASSUME tx[t].op \in {"CreateSession", "CreateRide"} PROVE Creating(t)'
    BY DEF Creating
  <2> PICK p : p = tx[t].p
    OBVIOUS
  <2>1. p \in Passenger
    BY <1>0 DEF Known, Creating
  <2>2. UserRow(p) \in tx[t].locks => /\ OpenSessions(p)' \subseteq OpenSessions(p)
                                      /\ HasActivePassengerRide(p)' => HasActivePassengerRide(p)
    BY <2>1
  <2>3. OpenSessions(tx[t].p)' = OpenSessions(p)'
    BY DEF OpenSessions
  <2>4. HasActivePassengerRide(tx[t].p)' <=> HasActivePassengerRide(p)'
    BY DEF HasActivePassengerRide
  <2> QED
    BY <1>0, <2>2, <2>3, <2>4 DEF Known, Creating
<1>10. Cancelling(t)'
  BY <1>0 DEF Known, Cancelling
<1> QED
  BY <1>1, <1>2, <1>3, <1>4, <1>5, <1>6, <1>7, <1>8, <1>9, <1>10 DEF Known

\* PendingRows are the rows of the pending offers it is asked for.
LEMMA PendingRowsAre ==
  ASSUME NEW ss \in SUBSET Session, NEW ds \in SUBSET Driver
  PROVE  /\ PendingRows(ss, ds) \subseteq Rows
         /\ \A row \in PendingRows(ss, ds) : \E s \in ss, d \in ds : row = OfferRow(s, d)
         /\ \A s \in ss, d \in ds : oStatus[s][d] = "pending" => OfferRow(s, d) \in PendingRows(ss, ds)
<1>1. ASSUME NEW row \in PendingRows(ss, ds)
      PROVE  row \in Rows /\ \E s \in ss, d \in ds : row = OfferRow(s, d)
  <2> PICK x \in ss \X ds : row = OfferRow(x[1], x[2])
    BY DEF PendingRows
  <2> QED
    BY DEF Rows
<1>2. ASSUME NEW s \in ss, NEW d \in ds, oStatus[s][d] = "pending"
      PROVE  OfferRow(s, d) \in PendingRows(ss, ds)
  <2> PICK x \in ss \X ds : x = <<s, d>>
    OBVIOUS
  <2> QED
    BY <1>2 DEF PendingRows
<1> QED
  BY <1>1, <1>2

\* Rows are rows.
LEMMA RowTypes ==
  /\ \A p \in Passenger : UserRow(p) \in Rows
  /\ \A d \in Driver : DriverRow(d) \in Rows
  /\ \A r \in Ride : RideRow(r) \in Rows
  /\ \A s \in Session : SessionRow(s) \in Rows
  /\ \A s \in Session, d \in Driver : OfferRow(s, d) \in Rows
<1>1. ASSUME NEW s \in Session, NEW d \in Driver PROVE OfferRow(s, d) \in Rows
  <2> PICK x \in Session \X Driver : x = <<s, d>>
    OBVIOUS
  <2> QED
    BY DEF Rows
<1> QED
  BY <1>1 DEF Rows

\* A step that changes no committed row takes nothing from the others.
LEMMA SameRows ==
  ASSUME TxInv, UNCHANGED vars, NEW t \in Tx
  PROVE  Keeps(t)
<1>1. UNCHANGED <<sStatus, sOwner, sTarget, sDriver, sClock, oStatus, rStatus, rOwner, rDriver, rSession, online>>
  BY DEF vars, sessionVars, rideVars
<1>2. \A p : OpenSessions(p)' = OpenSessions(p) /\ (HasActivePassengerRide(p)' <=> HasActivePassengerRide(p))
  BY <1>1 DEF OpenSessions, HasActivePassengerRide
<1>3. \A d : CountActiveRides(d)' <= CountActiveRides(d)
  BY <1>1, CountMonotone DEF ActiveRides
<1> QED
  BY <1>1, <1>2, <1>3
     DEF Keeps, KeepsSessions, KeepsOffers, KeepsDrivers, KeepsRides, KeepsUsers, KeepsHistory,
         TxInv, NewIsBefore

\* Rows stay exclusive when t takes only rows that nobody holds.
LEMMA ExclusiveKept ==
  ASSUME RowsExclusive, NEW t \in Tx, \A u \in Tx \ {t} : tx'[u] = tx[u],
         \A row \in tx'[t].locks \ tx[t].locks : Free(row, t)
  PROVE  RowsExclusive'
<1> SUFFICES ASSUME NEW u \in Tx, u # t, NEW row \in tx'[t].locks, row \in tx[u].locks PROVE FALSE
  BY DEF RowsExclusive
<1> QED
  BY DEF RowsExclusive, Free

\* A step of t inside its transaction.
LEMMA QuietStep ==
  ASSUME TxInv, UNCHANGED vars, NEW t \in Tx, \A u \in Tx \ {t} : tx'[u] = tx[u], TxType',
         \A row \in tx'[t].locks \ tx[t].locks : Free(row, t),
         Known(t)'
  PROVE  TxInv'
<1>1. RowsExclusive'
  BY ExclusiveKept DEF TxInv
<1>2. TypeOK' /\ OneActiveBooking' /\ NewIsBefore'
  BY TypeStep, BookingStep DEF TxInv, NewIsBefore, vars, sessionVars
<1>3. \A u \in Tx \ {t} : Known(u)'
  BY <1>2, SameRows, KnownKept
<1> QED
  BY <1>1, <1>2, <1>3 DEF TxInv

\* A transaction that has ended knows nothing.
LEMMA DoneKnown ==
  ASSUME NEW t \in Tx, tx'[t] = Done
  PROVE  Known(t)' /\ tx'[t].locks = {} /\ Done \in TxRecord
<1>1. /\ tx'[t].op = "none" /\ tx'[t].pc = "done" /\ tx'[t].locks = {} /\ tx'[t].closing = {}
      /\ tx'[t].rejecting = {} /\ tx'[t].todo = {}
  BY DEF Done, Idle
<1>2. Done \in TxRecord
  BY DEF Done, Idle, TxRecord, Statements
<1> QED
  BY <1>1, <1>2 DEF Known, PastRight, InProgress, LocksHold, WritesLocked, Outside, Accepting, Placing,
                    AcceptingRide, Expiring, Creating, Cancelling

\* A transaction that rolls back leaves everything as it was.
LEMMA FailStep ==
  ASSUME TxInv, NEW t \in Tx, Fail(t)
  PROVE  TxInv' /\ UNCHANGED vars
<1>1. tx'[t] = Done /\ (\A u \in Tx \ {t} : tx'[u] = tx[u]) /\ UNCHANGED vars
  BY DEF Fail, Set, TxInv, TxType
<1>2. TxType'
  BY <1>1, DoneKnown DEF Fail, Set, TxInv, TxType
<1> QED
  BY <1>1, <1>2, DoneKnown, QuietStep

\* A transaction commits: its locks go, and the others keep what they know.
LEMMA CommitStep ==
  ASSUME TxInv, [Next]_vars, NEW t \in Tx, \A u \in Tx \ {t} : tx'[u] = tx[u], TxType',
         tx'[t].locks = {}, Known(t)', NewIsBefore', \A u \in Tx \ {t} : Keeps(u)
  PROVE  TxInv'
<1>1. RowsExclusive'
  BY ExclusiveKept DEF TxInv
<1>2. TypeOK' /\ OneActiveBooking'
  BY TypeStep, BookingStep DEF TxInv
<1>3. \A u \in Tx \ {t} : Known(u)'
  BY <1>2, KnownKept
<1> QED
  BY <1>1, <1>2, <1>3 DEF TxInv

----------------------------------------------------------------------------
(* The steps inside a transaction *)

\* A clock reading is right when it is made.
LEMMA PastSetsRight ==
  ASSUME TypeOK, NEW past \in PastSets
  PROVE  /\ past \subseteq Session
         /\ \A s \in Session : /\ s \in past => sClock[s] # "before"
                               /\ sClock[s] = "after" => s \in past
BY DEF PastSets, ReadsExpired, ReadsUnexpired

\* A request that starts knows its arguments and the clock.
LEMMA StartStep ==
  ASSUME TxInv, NEW t \in Tx, NEW op, NEW pc, NEW p, NEW s, NEW d, NEW r, Start(t, op, pc, p, s, d, r),
         \/ /\ op = "AcceptOffer" /\ pc = "session" /\ p \in Passenger /\ s \in Session /\ d \in Driver
            /\ r = None
         \/ op = "PlaceOffer" /\ pc = "session" /\ p = None /\ s \in Session /\ d \in Driver /\ r = None
         \/ /\ op \in {"CreateSession", "CreateRide"} /\ pc = "user" /\ p \in Passenger /\ s = None
            /\ d \in Driver \cup {None} /\ r = None
         \/ op = "AcceptRide" /\ pc = "driver" /\ p = None /\ s = None /\ d \in Driver /\ r \in Ride
  PROVE  TxInv' /\ UNCHANGED vars
<1> PICK past \in PastSets :
      tx' = [tx EXCEPT ![t] = [Idle EXCEPT !.op = op, !.pc = pc, !.p = p, !.s = s, !.d = d, !.r = r, !.past = past]]
  BY DEF Start, Set
<1> PICK x : x = [Idle EXCEPT !.op = op, !.pc = pc, !.p = p, !.s = s, !.d = d, !.r = r, !.past = past]
  OBVIOUS
<1>1. tx'[t] = x /\ (\A u \in Tx \ {t} : tx'[u] = tx[u]) /\ UNCHANGED vars
  BY DEF Start, TxInv, TxType
<1>2. /\ x.op = op /\ x.pc = pc /\ x.p = p /\ x.s = s /\ x.d = d /\ x.r = r /\ x.past = past
      /\ x.locks = {} /\ x.todo = {} /\ x.snap = {} /\ x.closing = {} /\ x.rejecting = {} /\ x.full = FALSE
  BY DEF Idle
<1>3. x \in TxRecord
  BY PastSetsRight DEF Idle, TxRecord, Statements, TxInv
<1>4. TxType'
  BY <1>3 DEF TxInv, TxType
<1>5. PastRight(t)'
  <2>1. \A y \in Session : (y \in past => sClock[y] # "before") /\ (sClock[y] = "after" => y \in past)
    BY PastSetsRight DEF TxInv
  <2> QED
    BY <1>1, <1>2, <2>1 DEF PastRight, vars, sessionVars
<1>6. Known(t)'
  BY <1>1, <1>2, <1>5 DEF Known, LocksHold, WritesLocked, Outside, Accepting, Placing, AcceptingRide,
                          Expiring, Creating, Cancelling
<1> QED
  BY <1>1, <1>2, <1>4, <1>6, QuietStep

\* The offers of a snapshot are offers.
LEMMA SnapshotRows ==
  ASSUME NEW ss \in SUBSET Session
  PROVE  /\ PendingRows(ss, Driver) \subseteq Rows
         /\ \A row \in PendingRows(ss, Driver) : \E s \in Session, d \in Driver : row = OfferRow(s, d)
<1>1. Driver \in SUBSET Driver
  OBVIOUS
<1>2. PendingRows(ss, Driver) \subseteq Rows
  BY <1>1, PendingRowsAre
<1>3. \A row \in PendingRows(ss, Driver) : \E s \in ss, d \in Driver : row = OfferRow(s, d)
  BY <1>1, PendingRowsAre
<1> QED
  BY <1>2, <1>3

\* The state of t when its ExpireBidSessions begins, with the fields of x.
ExpireBegun(t, x) ==
  /\ tx'[t].op = x.op /\ tx'[t].pc = "expire" /\ tx'[t].p = x.p /\ tx'[t].s = x.s
  /\ tx'[t].past = x.past /\ tx'[t].locks = x.locks
  /\ tx'[t].closing = {} /\ tx'[t].rejecting = {}
  /\ \A u \in Tx \ {t} : tx'[u] = tx[u]
  /\ TxType' /\ Expiring(t)'

\* ExpireBidSessions starts: the rows of its snapshot are all the sessions it has to close.
LEMMA ExpireStarts ==
  ASSUME TxInv, NEW t \in Tx, UNCHANGED vars, NEW x \in TxRecord, Set(t, ExpireStatement(x)),
         x.op \in {"CreateSession", "CreateRide", "CancelSession"}, x.p \in Passenger,
         x.closing = {}, x.rejecting = {}
  PROVE  ExpireBegun(t, x)
<1>0. tx' = [tx EXCEPT ![t] = ExpireStatement(x)]
  BY DEF Set
<1> PICK due : due = OpenSessions(x.p) \cap x.past
  OBVIOUS
<1>1. due \in SUBSET Session /\ \A s \in due : sStatus[s] = "open" /\ sOwner[s] = x.p /\ s \in x.past
  BY DEF OpenSessions
<1> PICK snap : snap = PendingRows(due, Driver)
  OBVIOUS
<1>2. snap \subseteq Rows /\ \A row \in snap : \E s \in Session, d \in Driver : row = OfferRow(s, d)
  BY <1>1, SnapshotRows
<1> PICK todo : todo = {SessionRow(s) : s \in due}
  OBVIOUS
<1>3. todo \subseteq Rows
  BY <1>1, RowTypes
<1>4. ExpireStatement(x) = [x EXCEPT !.pc = "expire", !.todo = todo, !.snap = snap]
  BY DEF ExpireStatement
<1>5. [x EXCEPT !.pc = "expire", !.todo = todo, !.snap = snap] \in TxRecord
  BY <1>2, <1>3 DEF TxRecord, Statements
<1>6. /\ tx'[t].op = x.op /\ tx'[t].pc = "expire" /\ tx'[t].p = x.p /\ tx'[t].s = x.s
      /\ tx'[t].past = x.past /\ tx'[t].locks = x.locks
      /\ tx'[t].closing = {} /\ tx'[t].rejecting = {} /\ tx'[t].todo = todo /\ tx'[t].snap = snap
  BY <1>0, <1>4 DEF TxInv, TxType, TxRecord
<1>7. TxType' /\ \A u \in Tx \ {t} : tx'[u] = tx[u]
  BY <1>0, <1>4, <1>5 DEF TxInv, TxType
<1>8. UNCHANGED <<sStatus, sOwner>>
  BY DEF vars, sessionVars
<1>9. (OpenSessions(tx[t].p) \cap tx[t].past)' = due
  BY <1>6, <1>8 DEF OpenSessions
<1>10. /\ \A row \in todo : \E s \in x.past : row = SessionRow(s) /\ sStatus[s] # "absent" /\ sOwner[s] = x.p
       /\ \A s \in due : SessionRow(s) \in todo
  BY <1>1
<1>11. Expiring(t)'
  BY <1>2, <1>6, <1>8, <1>9, <1>10 DEF Expiring
<1> QED
  BY <1>6, <1>7, <1>11 DEF ExpireBegun

\* With the committed rows the answers of the queries stay.
LEMMA Unmoved ==
  ASSUME UNCHANGED vars
  PROVE  /\ UNCHANGED <<sStatus, sOwner, sTarget, sDriver, sClock, oStatus, rStatus, rOwner, rDriver, rSession, online>>
         /\ \A p : OpenSessions(p)' = OpenSessions(p) /\ (HasActivePassengerRide(p)' <=> HasActivePassengerRide(p))
         /\ \A d : CountActiveRides(d)' = CountActiveRides(d)
<1>1. UNCHANGED <<sStatus, sOwner, sTarget, sDriver, sClock, oStatus, rStatus, rOwner, rDriver, rSession, online>>
  BY DEF vars, sessionVars, rideVars
<1>2. \A p : OpenSessions(p)' = OpenSessions(p) /\ (HasActivePassengerRide(p)' <=> HasActivePassengerRide(p))
  BY <1>1 DEF OpenSessions, HasActivePassengerRide
<1>3. \A d : ActiveRides(d)' = ActiveRides(d)
  BY <1>1 DEF ActiveRides
<1>4. \A d : CountActiveRides(d)' = CountActiveRides(d)
  BY <1>3 DEF CountActiveRides
<1> QED
  BY <1>1, <1>2, <1>4

\* A request arrives.
LEMMA ArrivalStep ==
  ASSUME TxInv, NEW t \in Tx, Arrival(t)
  PROVE  TxInv' /\ UNCHANGED vars
<1>1. ASSUME NEW p \in Passenger, NEW s \in Session, NEW d \in Driver, StartAcceptOffer(t, p, s, d)
      PROVE  TxInv' /\ UNCHANGED vars
  BY <1>1, StartStep DEF StartAcceptOffer
<1>2. ASSUME NEW s \in Session, NEW d \in Driver, StartPlaceOffer(t, d, s)
      PROVE  TxInv' /\ UNCHANGED vars
  BY <1>2, StartStep DEF StartPlaceOffer
<1>3. ASSUME NEW p \in Passenger, NEW d \in Driver \cup {None}, StartCreateSession(t, p, d)
      PROVE  TxInv' /\ UNCHANGED vars
  BY <1>3, StartStep DEF StartCreateSession
<1>4. ASSUME NEW p \in Passenger, StartCreateRide(t, p)
      PROVE  TxInv' /\ UNCHANGED vars
  BY <1>4, StartStep DEF StartCreateRide
<1>5. ASSUME NEW d \in Driver, NEW r \in Ride, StartAcceptRide(t, d, r)
      PROVE  TxInv' /\ UNCHANGED vars
  BY <1>5, StartStep DEF StartAcceptRide
<1>6. ASSUME NEW p \in Passenger, NEW s \in Session, StartCancelSession(t, p, s)
      PROVE  TxInv' /\ UNCHANGED vars
  <2> PICK past \in PastSets :
        Set(t, ExpireStatement([Idle EXCEPT !.op = "CancelSession", !.p = p, !.s = s, !.past = past]))
    BY <1>6 DEF StartCancelSession
  <2> PICK x : x = [Idle EXCEPT !.op = "CancelSession", !.p = p, !.s = s, !.past = past]
    OBVIOUS
  <2>1. UNCHANGED vars /\ sStatus[s] # "absent"
    BY <1>6 DEF StartCancelSession
  <2>2. \A y \in Session : (y \in past => sClock[y] # "before") /\ (sClock[y] = "after" => y \in past)
    BY PastSetsRight DEF TxInv
  <2>3. x \in TxRecord
    BY PastSetsRight DEF Idle, TxRecord, Statements, TxInv
  <2>4. /\ x.op = "CancelSession" /\ x.p = p /\ x.s = s /\ x.past = past /\ x.locks = {}
        /\ x.closing = {} /\ x.rejecting = {}
    BY DEF Idle
  <2>5. ExpireBegun(t, x)
    <3>1. Set(t, ExpireStatement(x))
      OBVIOUS
    <3> QED
      BY <2>1, <2>3, <2>4, <3>1, ExpireStarts
  <2>6. /\ tx'[t].op = "CancelSession" /\ tx'[t].pc = "expire" /\ tx'[t].p = p /\ tx'[t].s = s
        /\ tx'[t].past = past /\ tx'[t].locks = {} /\ tx'[t].closing = {} /\ tx'[t].rejecting = {}
        /\ \A u \in Tx \ {t} : tx'[u] = tx[u]
        /\ TxType' /\ Expiring(t)'
    BY <2>4, <2>5 DEF ExpireBegun
  <2>7. PastRight(t)' /\ Cancelling(t)'
    BY <2>1, <2>2, <2>6, Unmoved DEF PastRight, Cancelling
  <2>8. Known(t)'
    BY <2>6, <2>7 DEF Known, LocksHold, WritesLocked, Outside, Accepting, Placing, AcceptingRide, Creating
  <2> QED
    BY <2>1, <2>6, <2>8, QuietStep
<1> QED
  BY <1>1, <1>2, <1>3, <1>4, <1>5, <1>6 DEF Arrival

\* LockUserForBidSession, and ExpireBidSessions starts.
LEMMA LockUserStep ==
  ASSUME TxInv, NEW t \in Tx, LockUser(t)
  PROVE  TxInv' /\ UNCHANGED vars
<1> PICK past \in PastSets :
      Set(t, ExpireStatement([tx[t] EXCEPT !.past = past, !.locks = Holding(t, UserRow(tx[t].p))]))
  BY DEF LockUser
<1> PICK x : x = [tx[t] EXCEPT !.past = past, !.locks = Holding(t, UserRow(tx[t].p))]
  OBVIOUS
<1>1. UNCHANGED vars /\ Free(UserRow(tx[t].p), t) /\ tx[t].pc = "user"
  BY DEF LockUser
<1>2. tx[t] \in TxRecord /\ Known(t)
  BY DEF TxInv, TxType
<1>3. tx[t].op \in {"CreateSession", "CreateRide"}
  BY <1>1, <1>2 DEF Known, TxRecord, Outside, Accepting, Placing, AcceptingRide, Creating, Cancelling
<1>4. tx[t].p \in Passenger /\ tx[t].locks = {} /\ tx[t].closing = {} /\ tx[t].rejecting = {}
  BY <1>1, <1>2, <1>3 DEF Known, Creating
<1>5. \A y \in Session : (y \in past => sClock[y] # "before") /\ (sClock[y] = "after" => y \in past)
  BY PastSetsRight DEF TxInv
<1>6. x \in TxRecord
  <2>1. past \subseteq Session
    BY PastSetsRight DEF TxInv
  <2>2. Holding(t, UserRow(tx[t].p)) \subseteq Rows
    BY <1>4, RowTypes DEF Holding
  <2> QED
    BY <1>2, <2>1, <2>2 DEF TxRecord
<1>7. /\ x.op = tx[t].op /\ x.p = tx[t].p /\ x.past = past /\ x.locks = {UserRow(tx[t].p)}
      /\ x.closing = {} /\ x.rejecting = {}
  BY <1>2, <1>4 DEF TxRecord, Holding
<1>8. ExpireBegun(t, x)
  <2>1. Set(t, ExpireStatement(x))
    OBVIOUS
  <2> QED
    BY <1>1, <1>3, <1>4, <1>6, <1>7, <2>1, ExpireStarts
<1>9. /\ tx'[t].op = tx[t].op /\ tx'[t].pc = "expire" /\ tx'[t].p = tx[t].p
      /\ tx'[t].past = past /\ tx'[t].locks = {UserRow(tx[t].p)} /\ tx'[t].closing = {} /\ tx'[t].rejecting = {}
      /\ \A u \in Tx \ {t} : tx'[u] = tx[u]
      /\ TxType' /\ Expiring(t)'
  BY <1>7, <1>8 DEF ExpireBegun
<1>10. PastRight(t)' /\ Creating(t)'
  BY <1>1, <1>3, <1>4, <1>5, <1>9, Unmoved DEF PastRight, Creating
<1>11. LocksHold(t)'
  BY <1>9, RowNames DEF LocksHold
<1>12. Known(t)'
  BY <1>3, <1>9, <1>10, <1>11 DEF Known, WritesLocked, Outside, Accepting, Placing, AcceptingRide, Cancelling
<1> QED
  BY <1>1, <1>9, <1>12, QuietStep

\* t is the same request, by the same clock, and nobody else moved.
SameRequest(t) ==
  /\ tx'[t].op = tx[t].op /\ tx'[t].p = tx[t].p /\ tx'[t].s = tx[t].s /\ tx'[t].d = tx[t].d
  /\ tx'[t].r = tx[t].r /\ tx'[t].past = tx[t].past
  /\ \A u \in Tx \ {t} : tx'[u] = tx[u]

\* t gets a row, and the statement is over.
LEMMA RowTaken ==
  ASSUME TxType, NEW t \in Tx, NEW row \in Rows, NEW pc \in Statements,
         Set(t, [tx[t] EXCEPT !.pc = pc, !.locks = Holding(t, row)])
  PROVE  /\ SameRequest(t) /\ TxType'
         /\ tx'[t].pc = pc /\ tx'[t].locks = tx[t].locks \cup {row}
         /\ tx'[t].todo = tx[t].todo /\ tx'[t].closing = tx[t].closing
         /\ tx'[t].rejecting = tx[t].rejecting /\ tx'[t].full = tx[t].full
<1>1. tx[t] \in TxRecord
  BY DEF TxType
<1>2. Holding(t, row) \subseteq Rows /\ Holding(t, row) = tx[t].locks \cup {row}
  BY <1>1 DEF Holding, TxRecord
<1> PICK y : y = [tx[t] EXCEPT !.pc = pc, !.locks = Holding(t, row)]
  OBVIOUS
<1>3. y \in TxRecord /\ y.pc = pc /\ y.locks = tx[t].locks \cup {row}
  BY <1>1, <1>2 DEF TxRecord
<1>4. /\ y.op = tx[t].op /\ y.p = tx[t].p /\ y.s = tx[t].s /\ y.d = tx[t].d /\ y.r = tx[t].r
      /\ y.past = tx[t].past /\ y.todo = tx[t].todo /\ y.closing = tx[t].closing
      /\ y.rejecting = tx[t].rejecting /\ y.full = tx[t].full
  BY <1>1 DEF TxRecord
<1>5. tx'[t] = y /\ (\A u \in Tx \ {t} : tx'[u] = tx[u]) /\ TxType'
  BY <1>3 DEF Set, TxType
<1> QED
  BY <1>3, <1>4, <1>5 DEF SameRequest

\* The clock reading of a request stays right while the rows stay.
LEMMA ReadingKept ==
  ASSUME TxInv, NEW t \in Tx, UNCHANGED vars, InProgress(t), tx'[t].past = tx[t].past
  PROVE  PastRight(t)'
<1>1. PastRight(t) /\ UNCHANGED sClock
  BY Unmoved DEF TxInv, Known
<1>2. \A s \in Session : (s \in tx[t].past => sClock[s] # "before") /\ (sClock[s] = "after" => s \in tx[t].past)
  BY <1>1 DEF PastRight
<1>3. \A s \in Session : (s \in tx'[t].past => sClock'[s] # "before") /\ (sClock'[s] = "after" => s \in tx'[t].past)
  BY <1>1, <1>2
<1> QED
  BY <1>3 DEF PastRight

\* Taking more rows leaves the writes of a transaction locked.
LEMMA WritesKept ==
  ASSUME TxInv, NEW t \in Tx, UNCHANGED vars, tx[t].locks \subseteq tx'[t].locks, tx'[t].p = tx[t].p,
         tx'[t].closing = tx[t].closing, tx'[t].rejecting = tx[t].rejecting
  PROVE  WritesLocked(t)'
<1>1. WritesLocked(t) /\ UNCHANGED sOwner
  BY Unmoved DEF TxInv, Known
<1> QED
  BY <1>1 DEF WritesLocked

\* The rows a transaction holds match, and so does the one it gets.
LEMMA LockMatches ==
  ASSUME TxInv, NEW t \in Tx, UNCHANGED vars, NEW row, tx'[t].locks \subseteq tx[t].locks \cup {row},
         \A s \in Session : row = SessionRow(s) => sStatus[s] = "open",
         \A s \in Session, d \in Driver : row = OfferRow(s, d) => oStatus[s][d] = "pending",
         \A d \in Driver : row = DriverRow(d) => d \in online,
         \A r \in Ride : row = RideRow(r) => rStatus[r] = "requested"
  PROVE  LocksHold(t)'
<1>1. LocksHold(t) /\ UNCHANGED <<sStatus, oStatus, online, rStatus>>
  BY Unmoved DEF TxInv, Known
<1>2. \A x \in tx'[t].locks : x \in tx[t].locks \/ x = row
  OBVIOUS
<1>3. \A s \in Session : SessionRow(s) \in tx'[t].locks => sStatus'[s] = "open"
  BY <1>1, <1>2 DEF LocksHold
<1>4. \A s \in Session, d \in Driver : OfferRow(s, d) \in tx'[t].locks => oStatus'[s][d] = "pending"
  BY <1>1, <1>2 DEF LocksHold
<1>5. \A d \in Driver : DriverRow(d) \in tx'[t].locks => d \in online'
  BY <1>1, <1>2 DEF LocksHold
<1>6. \A r \in Ride : RideRow(r) \in tx'[t].locks => rStatus'[r] = "requested"
  BY <1>1, <1>2 DEF LocksHold
<1> QED
  BY <1>3, <1>4, <1>5, <1>6 DEF LocksHold

\* LockActiveBidSessionForOffer.
LEMMA LockSessionStep ==
  ASSUME TxInv, NEW t \in Tx, LockSession(t)
  PROVE  TxInv' /\ UNCHANGED vars
<1>1. CASE Fail(t)
  BY <1>1, FailStep
<1>2. CASE ~Fail(t)
  <2> PICK s : s = tx[t].s
    OBVIOUS
  <2>1. /\ tx[t].pc = "session" /\ Free(SessionRow(s), t) /\ sStatus[s] = "open" /\ s \notin tx[t].past
        /\ tx[t].op = "AcceptOffer" => sOwner[s] = tx[t].p
        /\ tx[t].op # "AcceptOffer" => sTarget[s] \in {None, tx[t].d}
        /\ UNCHANGED vars
        /\ Set(t, [tx[t] EXCEPT !.pc = "driver", !.locks = Holding(t, SessionRow(s))])
    BY <1>2 DEF LockSession
  <2>2. tx[t] \in TxRecord /\ Known(t) /\ TxType
    BY DEF TxInv, TxType
  <2>3. tx[t].op \in {"AcceptOffer", "PlaceOffer"}
    BY <2>1, <2>2 DEF Known, TxRecord, Outside, AcceptingRide, Creating, Cancelling
  <2>4. s \in Session /\ SessionRow(s) \in Rows
    BY <2>2, <2>3, RowTypes DEF Known, Accepting, Placing
  <2>5. /\ SameRequest(t) /\ TxType'
        /\ tx'[t].pc = "driver" /\ tx'[t].locks = tx[t].locks \cup {SessionRow(s)}
        /\ tx'[t].todo = tx[t].todo /\ tx'[t].closing = tx[t].closing
        /\ tx'[t].rejecting = tx[t].rejecting /\ tx'[t].full = tx[t].full
    BY <2>1, <2>2, <2>4, RowTaken DEF Statements
  <2>6. PastRight(t)' /\ WritesLocked(t)'
    BY <2>1, <2>5, ReadingKept, WritesKept DEF InProgress, SameRequest
  <2>7. LocksHold(t)'
    BY <2>1, <2>5, LockMatches, RowNames
  <2>8. Accepting(t)' /\ Placing(t)'
    BY <2>1, <2>2, <2>4, <2>5, Unmoved DEF Known, Accepting, Placing, SameRequest
  <2>9. Known(t)'
    BY <2>3, <2>5, <2>6, <2>7, <2>8
       DEF Known, Outside, AcceptingRide, Expiring, Creating, Cancelling, SameRequest
  <2> QED
    BY <2>1, <2>5, <2>9, QuietStep DEF SameRequest
<1> QED
  BY <1>1, <1>2

\* LockOnlineDriverProfileForBidding and the count of the driver's rides.
LEMMA LockDriverStep ==
  ASSUME TxInv, NEW t \in Tx, LockDriver(t)
  PROVE  TxInv' /\ UNCHANGED vars
<1>1. CASE Fail(t)
  BY <1>1, FailStep
<1>2. CASE ~Fail(t)
  <2> PICK d : d = tx[t].d
    OBVIOUS
  <2> PICK pc : pc = [AcceptOffer |-> "offer", PlaceOffer |-> "commit", AcceptRide |-> "ride"][tx[t].op]
    OBVIOUS
  <2>1. /\ tx[t].pc = "driver" /\ Free(DriverRow(d), t) /\ d \in online
        /\ tx[t].op # "AcceptOffer" => CountActiveRides(d) < MaxActive
        /\ tx[t].op = "PlaceOffer" => oStatus[tx[t].s][d] # "pending"
        /\ UNCHANGED vars
        /\ Set(t, [tx[t] EXCEPT !.pc = pc, !.locks = Holding(t, DriverRow(d))])
    BY <1>2 DEF LockDriver
  <2>2. tx[t] \in TxRecord /\ Known(t) /\ TxType
    BY DEF TxInv, TxType
  <2>3. tx[t].op \in {"AcceptOffer", "PlaceOffer", "AcceptRide"}
    BY <2>1, <2>2 DEF Known, TxRecord, Outside, Creating, Cancelling
  <2>4. /\ tx[t].op = "AcceptOffer" => pc = "offer"
        /\ tx[t].op = "PlaceOffer" => pc = "commit"
        /\ tx[t].op = "AcceptRide" => pc = "ride"
    OBVIOUS
  <2>5. d \in Driver /\ DriverRow(d) \in Rows /\ pc \in Statements
    BY <2>2, <2>3, <2>4, RowTypes DEF Known, Accepting, Placing, AcceptingRide, Statements
  <2>6. /\ SameRequest(t) /\ TxType'
        /\ tx'[t].pc = pc /\ tx'[t].locks = tx[t].locks \cup {DriverRow(d)}
        /\ tx'[t].todo = tx[t].todo /\ tx'[t].closing = tx[t].closing
        /\ tx'[t].rejecting = tx[t].rejecting /\ tx'[t].full = tx[t].full
    BY <2>1, <2>2, <2>5, RowTaken
  <2>7. PastRight(t)' /\ WritesLocked(t)'
    BY <2>1, <2>6, ReadingKept, WritesKept DEF InProgress, SameRequest
  <2>8. LocksHold(t)'
    BY <2>1, <2>6, LockMatches, RowNames
  <2>9. CountActiveRides(tx[t].d)' = CountActiveRides(d)
    <3>1. tx'[t].d = d
      BY <2>6 DEF SameRequest
    <3>2. CountActiveRides(tx[t].d)' = CountActiveRides(d)'
      BY <3>1 DEF CountActiveRides, ActiveRides
    <3> QED
      BY <2>1, <3>2, Unmoved
  <2>10. Accepting(t)'
    BY <2>1, <2>2, <2>4, <2>5, <2>6, Unmoved DEF Known, Accepting, SameRequest
  <2>11. Placing(t)' /\ AcceptingRide(t)'
    BY <2>1, <2>2, <2>4, <2>5, <2>6, <2>9, Unmoved DEF Known, Placing, AcceptingRide, SameRequest
  <2>12. Known(t)'
    BY <2>3, <2>4, <2>6, <2>7, <2>8, <2>10, <2>11
       DEF Known, Outside, Expiring, Creating, Cancelling, SameRequest
  <2> QED
    BY <2>1, <2>6, <2>12, QuietStep DEF SameRequest
<1> QED
  BY <1>1, <1>2

\* LockRequestedRideForAcceptance.
LEMMA LockRideStep ==
  ASSUME TxInv, NEW t \in Tx, LockRide(t)
  PROVE  TxInv' /\ UNCHANGED vars
<1>1. CASE Fail(t)
  BY <1>1, FailStep
<1>2. CASE ~Fail(t)
  <2> PICK r : r = tx[t].r
    OBVIOUS
  <2>1. /\ tx[t].pc = "ride" /\ Free(RideRow(r), t) /\ rStatus[r] = "requested" /\ UNCHANGED vars
        /\ Set(t, [tx[t] EXCEPT !.pc = "commit", !.locks = Holding(t, RideRow(r))])
    BY <1>2 DEF LockRide
  <2>2. tx[t] \in TxRecord /\ Known(t) /\ TxType
    BY DEF TxInv, TxType
  <2>3. tx[t].op = "AcceptRide"
    BY <2>1, <2>2 DEF Known, TxRecord, Outside, Accepting, Placing, Creating, Cancelling
  <2>4. r \in Ride /\ RideRow(r) \in Rows
    BY <2>2, <2>3, RowTypes DEF Known, AcceptingRide
  <2>5. /\ SameRequest(t) /\ TxType'
        /\ tx'[t].pc = "commit" /\ tx'[t].locks = tx[t].locks \cup {RideRow(r)}
        /\ tx'[t].todo = tx[t].todo /\ tx'[t].closing = tx[t].closing
        /\ tx'[t].rejecting = tx[t].rejecting /\ tx'[t].full = tx[t].full
    BY <2>1, <2>2, <2>4, RowTaken DEF Statements
  <2>6. PastRight(t)' /\ WritesLocked(t)'
    BY <2>1, <2>5, ReadingKept, WritesKept DEF InProgress, SameRequest
  <2>7. LocksHold(t)'
    BY <2>1, <2>5, LockMatches, RowNames
  <2>8. CountActiveRides(tx[t].d)' = CountActiveRides(tx[t].d)
    <3> PICK d : d = tx[t].d
      OBVIOUS
    <3>1. CountActiveRides(tx[t].d)' = CountActiveRides(d)'
      BY <2>5 DEF CountActiveRides, ActiveRides, SameRequest
    <3> QED
      BY <2>1, <3>1, Unmoved
  <2>9. AcceptingRide(t)'
    BY <2>1, <2>2, <2>3, <2>5, <2>8 DEF Known, AcceptingRide, SameRequest
  <2>10. Known(t)'
    BY <2>3, <2>5, <2>6, <2>7, <2>9
       DEF Known, Outside, Accepting, Placing, Expiring, Creating, Cancelling, SameRequest
  <2> QED
    BY <2>1, <2>5, <2>10, QuietStep DEF SameRequest
<1> QED
  BY <1>1, <1>2

\* The offers on session s that an acceptance of driver d's offer rejects.
Rivals(s, d) == PendingRows({s}, Driver \ {d})

\* They are the pending offers of the other drivers.
LEMMA RivalRows ==
  ASSUME NEW s \in Session, NEW d \in Driver
  PROVE  /\ Rivals(s, d) \subseteq Rows
         /\ \A row \in Rivals(s, d) : \E e \in Driver \ {d} : row = OfferRow(s, e)
         /\ \A e \in Driver \ {d} : oStatus[s][e] = "pending" => OfferRow(s, e) \in Rivals(s, d)
<1> PICK ss \in SUBSET Session : ss = {s}
  OBVIOUS
<1> PICK ds \in SUBSET Driver : ds = Driver \ {d}
  OBVIOUS
<1>1. /\ PendingRows(ss, ds) \subseteq Rows
      /\ \A row \in PendingRows(ss, ds) : \E x \in ss, e \in ds : row = OfferRow(x, e)
      /\ \A x \in ss, e \in ds : oStatus[x][e] = "pending" => OfferRow(x, e) \in PendingRows(ss, ds)
  BY PendingRowsAre
<1>2. Rivals(s, d) = PendingRows(ss, ds)
  BY DEF Rivals
<1>3. s \in ss /\ (\A x \in ss : x = s) /\ (\A e : e \in ds <=> e \in Driver \ {d})
  OBVIOUS
<1> QED
  BY <1>1, <1>2, <1>3

\* t gets the row of the offer and starts to reject the rivals.
Rejecting(t, row, todo, full) ==
  [tx[t] EXCEPT !.pc = "rivals", !.full = full, !.locks = Holding(t, row), !.todo = todo]

\* One more ride fills the driver's capacity.
Fills(d) == CountActiveRides(d) + 1 >= MaxActive

LEMMA OfferTaken ==
  ASSUME TxType, NEW t \in Tx, NEW row \in Rows, NEW full \in BOOLEAN, NEW todo \in SUBSET Rows,
         Set(t, Rejecting(t, row, todo, full))
  PROVE  /\ SameRequest(t) /\ TxType'
         /\ tx'[t].pc = "rivals" /\ tx'[t].locks = tx[t].locks \cup {row}
         /\ tx'[t].todo = todo /\ tx'[t].closing = tx[t].closing
         /\ tx'[t].rejecting = tx[t].rejecting /\ tx'[t].full = full
<1>1. tx[t] \in TxRecord
  BY DEF TxType
<1>2. Holding(t, row) \subseteq Rows /\ Holding(t, row) = tx[t].locks \cup {row}
  BY <1>1 DEF Holding, TxRecord
<1> PICK y : y = Rejecting(t, row, todo, full)
  OBVIOUS
<1>3. y \in TxRecord /\ y.pc = "rivals" /\ y.locks = tx[t].locks \cup {row} /\ y.todo = todo /\ y.full = full
  BY <1>1, <1>2 DEF TxRecord, Statements, Rejecting
<1>4. /\ y.op = tx[t].op /\ y.p = tx[t].p /\ y.s = tx[t].s /\ y.d = tx[t].d /\ y.r = tx[t].r
      /\ y.past = tx[t].past /\ y.closing = tx[t].closing /\ y.rejecting = tx[t].rejecting
  BY <1>1 DEF TxRecord, Rejecting
<1>5. tx'[t] = y /\ (\A u \in Tx \ {t} : tx'[u] = tx[u]) /\ TxType'
  BY <1>3 DEF Set, TxType
<1> QED
  BY <1>3, <1>4, <1>5 DEF SameRequest

\* LockPendingBidOfferForAcceptance, its checks, and RejectOtherPendingBidOffers starts.
LEMMA LockOfferStep ==
  ASSUME TxInv, NEW t \in Tx, LockOffer(t)
  PROVE  TxInv' /\ UNCHANGED vars
<1>1. CASE Fail(t)
  BY <1>1, FailStep
<1>2. CASE ~Fail(t)
  <2> PICK s, d : s = tx[t].s /\ d = tx[t].d
    OBVIOUS
  <2> PICK todo : todo = Rivals(s, d)
    OBVIOUS
  <2>1. /\ tx[t].pc = "offer" /\ Free(OfferRow(s, d), t) /\ oStatus[s][d] = "pending"
        /\ sTarget[s] \in {None, d} /\ CountActiveRides(d) < MaxActive /\ ~HasActivePassengerRide(sOwner[s])
        /\ UNCHANGED vars
        /\ Set(t, Rejecting(t, OfferRow(s, d), todo, Fills(d)))
    BY <1>2 DEF LockOffer, Rivals, Rejecting, Fills
  <2>2. tx[t] \in TxRecord /\ Known(t) /\ TxType
    BY DEF TxInv, TxType
  <2>3. tx[t].op = "AcceptOffer"
    BY <2>1, <2>2 DEF Known, TxRecord, Outside, Placing, AcceptingRide, Creating, Cancelling
  <2>4. s \in Session /\ d \in Driver /\ OfferRow(s, d) \in Rows
    BY <2>2, <2>3, RowTypes DEF Known, Accepting
  <2>5. Fills(d) \in BOOLEAN /\ (CountActiveRides(d) + 1 >= MaxActive => Fills(d))
    BY DEF Fills
  <2>6. /\ todo \subseteq Rows
        /\ \A row \in todo : \E e \in Driver \ {d} : row = OfferRow(s, e)
        /\ \A e \in Driver \ {d} : oStatus[s][e] = "pending" => OfferRow(s, e) \in todo
    BY <2>4, RivalRows
  <2>7. /\ SameRequest(t) /\ TxType'
        /\ tx'[t].pc = "rivals" /\ tx'[t].locks = tx[t].locks \cup {OfferRow(s, d)}
        /\ tx'[t].todo = todo /\ tx'[t].closing = tx[t].closing
        /\ tx'[t].rejecting = tx[t].rejecting
        /\ tx'[t].full = Fills(d)
    <3>1. TxType /\ OfferRow(s, d) \in Rows /\ Fills(d) \in BOOLEAN /\ todo \in SUBSET Rows
          /\ Set(t, Rejecting(t, OfferRow(s, d), todo, Fills(d)))
      BY <2>1, <2>2, <2>4, <2>5, <2>6
    <3> QED
      BY <3>1, OfferTaken
  <2>8. CountActiveRides(d) + 1 >= MaxActive => tx'[t].full
    BY <2>5, <2>7
  <2>9. PastRight(t)' /\ WritesLocked(t)'
    BY <2>1, <2>7, ReadingKept, WritesKept DEF InProgress, SameRequest
  <2>10. LocksHold(t)'
    BY <2>1, <2>7, LockMatches, RowNames
  <2>11. Accepting(t)'
    <3>1. /\ tx[t].p \in Passenger /\ tx[t].closing = {} /\ tx[t].rejecting = {}
          /\ SessionRow(s) \in tx[t].locks /\ s \notin tx[t].past /\ sOwner[s] = tx[t].p
          /\ DriverRow(d) \in tx[t].locks
      BY <2>1, <2>2, <2>3 DEF Known, Accepting
    <3>2. CountActiveRides(tx[t].d)' = CountActiveRides(d)
      <4>1. tx'[t].d = d
        BY <2>7 DEF SameRequest
      <4>2. CountActiveRides(tx[t].d)' = CountActiveRides(d)'
        BY <4>1 DEF CountActiveRides, ActiveRides
      <4> QED
        BY <2>1, <4>2, Unmoved
    <3>3. ~HasActivePassengerRide(tx[t].p)'
      <4>1. tx'[t].p = sOwner[s]
        BY <2>7, <3>1 DEF SameRequest
      <4>2. HasActivePassengerRide(tx[t].p)' <=> HasActivePassengerRide(sOwner[s])
        BY <2>1, <4>1, Unmoved DEF HasActivePassengerRide
      <4> QED
        BY <2>1, <4>2
    <3>4. UNCHANGED <<sOwner, sTarget, oStatus>>
      BY <2>1, Unmoved
    <3>5. /\ CountActiveRides(tx[t].d)' < MaxActive
          /\ CountActiveRides(tx[t].d)' + 1 >= MaxActive => tx'[t].full
      BY <2>1, <2>8, <3>2
    <3>6. /\ tx'[t].s = s /\ tx'[t].d = d /\ tx'[t].p = tx[t].p /\ tx'[t].closing = {} /\ tx'[t].rejecting = {}
          /\ tx'[t].op = "AcceptOffer" /\ tx'[t].pc = "rivals" /\ tx'[t].past = tx[t].past
          /\ tx'[t].locks = tx[t].locks \cup {OfferRow(s, d)} /\ tx'[t].todo = todo
      BY <2>3, <2>7, <3>1 DEF SameRequest
    <3> QED
      BY <2>1, <2>4, <2>6, <3>1, <3>3, <3>4, <3>5, <3>6 DEF Accepting
  <2>12. Known(t)'
    BY <2>3, <2>7, <2>9, <2>10, <2>11
       DEF Known, Outside, AcceptingRide, Placing, Expiring, Creating, Cancelling, SameRequest
  <2> QED
    BY <2>1, <2>7, <2>12, QuietStep DEF SameRequest
<1> QED
  BY <1>1, <1>2

----------------------------------------------------------------------------
(* Updates over several rows *)

\* t is at the same statement, and is through with the row.
Through(t, row) ==
  /\ SameRequest(t) /\ TxType' /\ tx'[t].pc = tx[t].pc /\ tx'[t].full = tx[t].full
  /\ tx'[t].snap = tx[t].snap /\ tx'[t].todo = tx[t].todo \ {row}

\* The row does not match any more.
Skipped(t, row) ==
  /\ Through(t, row)
  /\ tx'[t].locks = tx[t].locks /\ tx'[t].closing = tx[t].closing /\ tx'[t].rejecting = tx[t].rejecting

SessionClosed(t, s) ==
  /\ Through(t, SessionRow(s)) /\ sStatus[s] = "open"
  /\ tx'[t].locks = tx[t].locks \cup {SessionRow(s)}
  /\ tx'[t].closing = tx[t].closing \cup {s} /\ tx'[t].rejecting = tx[t].rejecting

OfferRejected(t, s, d) ==
  /\ Through(t, OfferRow(s, d)) /\ oStatus[s][d] = "pending"
  /\ tx'[t].locks = tx[t].locks \cup {OfferRow(s, d)}
  /\ tx'[t].closing = tx[t].closing /\ tx'[t].rejecting = tx[t].rejecting \cup {<<s, d>>}

\* Updates go over sessions and offers.
LEMMA TodoRows ==
  ASSUME TxInv, NEW t \in Tx, NEW row \in tx[t].todo
  PROVE  \/ \E s \in Session : row = SessionRow(s)
         \/ \E s \in Session, d \in Driver : row = OfferRow(s, d)
<1>1. tx[t] \in TxRecord /\ Known(t) /\ row \in Rows
  BY DEF TxInv, TxType, TxRecord
<1>2. CASE tx[t].op = "AcceptOffer"
  BY <1>1, <1>2 DEF Known, Accepting
<1>3. CASE tx[t].pc \in {"expire", "expireOffers"}
  BY <1>1, <1>3 DEF Known, Expiring, TxRecord
<1>4. CASE tx[t].op = "CancelSession" /\ tx[t].pc \in {"cancel", "commit"}
  BY <1>1, <1>4 DEF Known, Cancelling
<1>5. tx[t].op # "none"
  BY <1>1 DEF Known, Outside, TxRecord
<1> QED
  BY <1>1, <1>2, <1>3, <1>4, <1>5 DEF Known, TxRecord, Placing, AcceptingRide, Creating, Cancelling

\* The record of a transaction that wrote a session row, and an offer row.
WithSession(rec, row, s)  == [rec EXCEPT !.locks = @ \cup {row}, !.closing = @ \cup {s}]
WithOffer(rec, row, s, d) == [rec EXCEPT !.locks = @ \cup {row}, !.rejecting = @ \cup {<<s, d>>}]

LEMMA SessionWritten ==
  ASSUME NEW rec \in TxRecord, NEW row \in Rows, NEW s \in Session, NEW y, y = WithSession(rec, row, s)
  PROVE  /\ y \in TxRecord /\ y.todo = rec.todo /\ y.op = rec.op /\ y.pc = rec.pc /\ y.p = rec.p
         /\ y.s = rec.s /\ y.d = rec.d /\ y.r = rec.r /\ y.past = rec.past /\ y.snap = rec.snap
         /\ y.locks = rec.locks \cup {row} /\ y.closing = rec.closing \cup {s} /\ y.rejecting = rec.rejecting /\ y.full = rec.full
BY DEF TxRecord, WithSession

LEMMA OfferWritten ==
  ASSUME NEW rec \in TxRecord, NEW row \in Rows, NEW s \in Session, NEW d \in Driver, NEW y,
         y = WithOffer(rec, row, s, d)
  PROVE  /\ y \in TxRecord /\ y.todo = rec.todo /\ y.op = rec.op /\ y.pc = rec.pc /\ y.p = rec.p
         /\ y.s = rec.s /\ y.d = rec.d /\ y.r = rec.r /\ y.past = rec.past /\ y.snap = rec.snap
         /\ y.locks = rec.locks \cup {row} /\ y.closing = rec.closing /\ y.rejecting = rec.rejecting \cup {<<s, d>>} /\ y.full = rec.full
<1> PICK x \in Session \X Driver : x = <<s, d>>
  OBVIOUS
<1>1. PICK rejecting \in SUBSET (Session \X Driver) : rejecting = rec.rejecting \cup {x}
  BY DEF TxRecord
<1>2. PICK locks \in SUBSET Rows : locks = rec.locks \cup {row}
  BY DEF TxRecord
<1>3. y = [rec EXCEPT !.locks = locks, !.rejecting = rejecting]
  BY <1>1, <1>2 DEF WithOffer
<1>4. /\ y \in TxRecord /\ y.todo = rec.todo /\ y.op = rec.op /\ y.pc = rec.pc /\ y.p = rec.p
      /\ y.s = rec.s /\ y.d = rec.d /\ y.r = rec.r /\ y.past = rec.past /\ y.snap = rec.snap
      /\ y.locks = locks /\ y.closing = rec.closing /\ y.rejecting = rejecting /\ y.full = rec.full
  BY <1>3 DEF TxRecord
<1> QED
  BY <1>1, <1>2, <1>4

\* The record of a transaction that is through with a row.
LEMMA RowDropped ==
  ASSUME NEW w \in TxRecord, NEW row, NEW rec, rec = [w EXCEPT !.todo = @ \ {row}]
  PROVE  /\ rec \in TxRecord /\ rec.todo = w.todo \ {row} /\ rec.op = w.op /\ rec.pc = w.pc /\ rec.p = w.p
         /\ rec.s = w.s /\ rec.d = w.d /\ rec.r = w.r /\ rec.past = w.past /\ rec.locks = w.locks
         /\ rec.snap = w.snap /\ rec.closing = w.closing /\ rec.rejecting = w.rejecting /\ rec.full = w.full
BY DEF TxRecord

\* What an update does to the transaction at one row.
LEMMA RowUpdated ==
  ASSUME TxInv, NEW t \in Tx, NEW row, UpdateRow(t, row)
  PROVE  \/ /\ \E s \in Session : row = SessionRow(s) /\ sStatus[s] # "open"
            /\ Skipped(t, row)
         \/ /\ \E s \in Session, d \in Driver : row = OfferRow(s, d) /\ oStatus[s][d] # "pending"
            /\ Skipped(t, row)
         \/ \E s \in Session : row = SessionRow(s) /\ SessionClosed(t, s)
         \/ \E s \in Session, d \in Driver : row = OfferRow(s, d) /\ OfferRejected(t, s, d)
<1> PICK w : w = tx[t]
  OBVIOUS
<1>1. w \in TxRecord /\ row \in w.todo /\ row \in Rows /\ TxType
  BY DEF TxInv, TxType, TxRecord, UpdateRow
<1>2. PICK rec :
        /\ rec \in TxRecord /\ rec.todo = w.todo \ {row} /\ rec.op = w.op /\ rec.pc = w.pc /\ rec.p = w.p
        /\ rec.s = w.s /\ rec.d = w.d /\ rec.r = w.r /\ rec.past = w.past /\ rec.locks = w.locks
        /\ rec.snap = w.snap /\ rec.closing = w.closing /\ rec.rejecting = w.rejecting /\ rec.full = w.full
        /\ Set(t, IF ~StillMatches(row) THEN rec
                  ELSE IF row[1] = "bid_sessions" THEN WithSession(rec, row, row[2])
                  ELSE WithOffer(rec, row, row[2], row[3]))
  <2> PICK rec : rec = [w EXCEPT !.todo = @ \ {row}]
    OBVIOUS
  <2>1. Set(t, IF ~StillMatches(row) THEN rec
               ELSE IF row[1] = "bid_sessions" THEN WithSession(rec, row, row[2])
               ELSE WithOffer(rec, row, row[2], row[3]))
    BY DEF UpdateRow, WithSession, WithOffer
  <2> QED
    BY <1>1, <2>1, RowDropped
<1>4. CASE ~StillMatches(row)
  <2>1. tx'[t] = rec /\ (\A u \in Tx \ {t} : tx'[u] = tx[u]) /\ TxType'
    BY <1>1, <1>2, <1>4 DEF Set, TxType
  <2>2. Skipped(t, row)
    BY <1>2, <2>1 DEF Skipped, Through, SameRequest
  <2>3. \/ \E s \in Session : row = SessionRow(s) /\ sStatus[s] # "open"
        \/ \E s \in Session, d \in Driver : row = OfferRow(s, d) /\ oStatus[s][d] # "pending"
    BY <1>1, <1>4, TodoRows DEF StillMatches, SessionRow, OfferRow
  <2> QED
    BY <2>2, <2>3
<1>5. ASSUME StillMatches(row), NEW s \in Session, row = SessionRow(s)
      PROVE  SessionClosed(t, s)
  <2>1. row[1] = "bid_sessions" /\ row[2] = s /\ sStatus[s] = "open"
    BY <1>5 DEF StillMatches, SessionRow
  <2> PICK y : y = WithSession(rec, row, s)
    OBVIOUS
  <2>2. /\ y \in TxRecord /\ y.todo = rec.todo /\ y.op = rec.op /\ y.pc = rec.pc /\ y.p = rec.p
        /\ y.s = rec.s /\ y.d = rec.d /\ y.r = rec.r /\ y.past = rec.past /\ y.snap = rec.snap
        /\ y.locks = rec.locks \cup {row} /\ y.closing = rec.closing \cup {s} /\ y.rejecting = rec.rejecting /\ y.full = rec.full
    BY <1>1, <1>2, SessionWritten
  <2>3. Set(t, y)
    BY <1>2, <1>5, <2>1
  <2>4. tx'[t] = y /\ (\A u \in Tx \ {t} : tx'[u] = tx[u]) /\ TxType'
    BY <1>1, <2>2, <2>3 DEF Set, TxType
  <2> QED
    BY <1>2, <1>5, <2>1, <2>2, <2>4 DEF SessionClosed, Through, SameRequest
<1>6. ASSUME StillMatches(row), NEW s \in Session, NEW d \in Driver, row = OfferRow(s, d)
      PROVE  OfferRejected(t, s, d)
  <2>1. row[1] # "bid_sessions" /\ row[2] = s /\ row[3] = d /\ oStatus[s][d] = "pending"
    BY <1>6 DEF StillMatches, OfferRow
  <2> PICK y : y = WithOffer(rec, row, s, d)
    OBVIOUS
  <2>2. /\ y \in TxRecord /\ y.todo = rec.todo /\ y.op = rec.op /\ y.pc = rec.pc /\ y.p = rec.p
        /\ y.s = rec.s /\ y.d = rec.d /\ y.r = rec.r /\ y.past = rec.past /\ y.snap = rec.snap
        /\ y.locks = rec.locks \cup {row} /\ y.closing = rec.closing /\ y.rejecting = rec.rejecting \cup {<<s, d>>} /\ y.full = rec.full
    BY <1>1, <1>2, OfferWritten
  <2>3. Set(t, y)
    BY <1>2, <1>6, <2>1
  <2>4. tx'[t] = y /\ (\A u \in Tx \ {t} : tx'[u] = tx[u]) /\ TxType'
    BY <1>1, <2>2, <2>3 DEF Set, TxType
  <2> QED
    BY <1>2, <1>6, <2>1, <2>2, <2>4 DEF OfferRejected, Through, SameRequest
<1> QED
  BY <1>1, <1>4, <1>5, <1>6, TodoRows

\* Only these methods update several rows, at these statements.
LEMMA TodoWhere ==
  ASSUME TxInv, NEW t \in Tx, tx[t].todo # {}
  PROVE  /\ InProgress(t)
         /\ \/ tx[t].op = "AcceptOffer" /\ tx[t].pc \in {"rivals", "others"}
            \/ /\ tx[t].op \in {"CreateSession", "CreateRide", "CancelSession"}
               /\ tx[t].pc \in {"expire", "expireOffers"}
            \/ tx[t].op = "CancelSession" /\ tx[t].pc \in {"cancel", "commit"}
<1>1. tx[t] \in TxRecord /\ Known(t)
  BY DEF TxInv, TxType
<1>2. \/ tx[t].op = "AcceptOffer" /\ tx[t].pc \in {"rivals", "others"}
      \/ /\ tx[t].op \in {"CreateSession", "CreateRide", "CancelSession"}
         /\ tx[t].pc \in {"expire", "expireOffers"}
      \/ tx[t].op = "CancelSession" /\ tx[t].pc \in {"cancel", "commit"}
  BY <1>1 DEF Known, TxRecord, Outside, Accepting, Placing, AcceptingRide, Creating, Cancelling
<1> QED
  BY <1>2 DEF InProgress

\* The queries of a request are answered as before.
LEMMA SameAnswers ==
  ASSUME UNCHANGED vars, NEW t \in Tx, tx'[t].p = tx[t].p, tx'[t].d = tx[t].d
  PROVE  /\ CountActiveRides(tx[t].d)' = CountActiveRides(tx[t].d)
         /\ HasActivePassengerRide(tx[t].p)' <=> HasActivePassengerRide(tx[t].p)
         /\ OpenSessions(tx[t].p)' = OpenSessions(tx[t].p)
<1> PICK d : d = tx[t].d
  OBVIOUS
<1> PICK p : p = tx[t].p
  OBVIOUS
<1>1. /\ CountActiveRides(tx[t].d)' = CountActiveRides(d)'
      /\ HasActivePassengerRide(tx[t].p)' <=> HasActivePassengerRide(p)'
      /\ OpenSessions(tx[t].p)' = OpenSessions(p)'
  BY DEF CountActiveRides, ActiveRides, HasActivePassengerRide, OpenSessions
<1> QED
  BY <1>1, Unmoved

\* A row that does not match any more is none of those the statement has to write.
LEMMA SkipKnown ==
  ASSUME TxInv, NEW t \in Tx, UNCHANGED vars, NEW row \in tx[t].todo, Skipped(t, row),
         \/ \E s \in Session : row = SessionRow(s) /\ sStatus[s] # "open"
         \/ \E s \in Session, d \in Driver : row = OfferRow(s, d) /\ oStatus[s][d] # "pending"
  PROVE  Known(t)'
<1>1. tx[t] \in TxRecord /\ Known(t) /\ tx[t].todo # {}
  BY DEF TxInv, TxType
<1>2. /\ SameRequest(t) /\ tx'[t].pc = tx[t].pc /\ tx'[t].full = tx[t].full /\ tx'[t].snap = tx[t].snap
      /\ tx'[t].todo = tx[t].todo \ {row}
      /\ tx'[t].locks = tx[t].locks /\ tx'[t].closing = tx[t].closing /\ tx'[t].rejecting = tx[t].rejecting
  BY DEF Skipped, Through
<1>3. /\ tx'[t].op = tx[t].op /\ tx'[t].p = tx[t].p /\ tx'[t].s = tx[t].s /\ tx'[t].d = tx[t].d
      /\ tx'[t].past = tx[t].past
  BY <1>2 DEF SameRequest
<1>4. PastRight(t)' /\ WritesLocked(t)'
  BY <1>1, <1>2, <1>3, TodoWhere, ReadingKept, WritesKept
<1>5. LocksHold(t)'
  BY <1>1, <1>2, Unmoved DEF Known, LocksHold
<1>6. /\ \A s \in Session : row = SessionRow(s) => sStatus[s] # "open"
      /\ \A s \in Session, d \in Driver : row = OfferRow(s, d) => oStatus[s][d] # "pending"
  BY RowNames
<1>7. UNCHANGED <<sStatus, sOwner, sTarget, oStatus>>
  BY Unmoved
<1>8. Accepting(t)'
  <2> SUFFICES ASSUME tx[t].op = "AcceptOffer" PROVE Accepting(t)'
    BY <1>3 DEF Accepting
  <2>1. /\ CountActiveRides(tx[t].d)' = CountActiveRides(tx[t].d)
        /\ HasActivePassengerRide(tx[t].p)' <=> HasActivePassengerRide(tx[t].p)
    BY <1>3, SameAnswers
  <2>2. tx[t].pc \in {"rivals", "others"}
    BY <1>1, TodoWhere
  <2> PICK s, d : s = tx[t].s /\ d = tx[t].d
    OBVIOUS
  <2>3. s \in Session /\ d \in Driver
    BY <1>1 DEF Known, Accepting
  <2>4. ASSUME NEW e \in Driver \ {d}, oStatus'[s][e] = "pending"
        PROVE  \/ <<s, e>> \in tx'[t].rejecting
               \/ tx'[t].pc = "rivals" /\ OfferRow(s, e) \in tx'[t].todo
    BY <1>1, <1>2, <1>6, <1>7, <2>2, <2>3, <2>4 DEF Known, Accepting
  <2>5. ASSUME tx[t].pc = "others", NEW y \in Session \ {s}, oStatus'[y][d] = "pending"
        PROVE  <<y, d>> \in tx'[t].rejecting \/ OfferRow(y, d) \in tx'[t].todo
    BY <1>1, <1>2, <1>6, <1>7, <2>2, <2>3, <2>5 DEF Known, Accepting
  <2>6. /\ tx[t].pc = "rivals" => \A x \in tx'[t].todo : \E e \in Driver \ {d} : x = OfferRow(s, e)
        /\ tx[t].pc = "others" => /\ tx'[t].full
                                  /\ \A x \in tx'[t].todo : \E y \in Session \ {s} : x = OfferRow(y, d)
    BY <1>1, <1>2 DEF Known, Accepting
  <2> QED
    BY <1>1, <1>2, <1>3, <1>7, <2>1, <2>2, <2>3, <2>4, <2>5, <2>6 DEF Known, Accepting
<1>9. Expiring(t)'
  <2> SUFFICES ASSUME tx[t].pc \in {"expire", "expireOffers"} PROVE Expiring(t)'
    BY <1>2 DEF Expiring
  <2>1. OpenSessions(tx[t].p)' = OpenSessions(tx[t].p)
    BY <1>3, SameAnswers
  <2>2. \A s \in OpenSessions(tx[t].p) : s \in Session /\ sStatus[s] = "open"
    BY DEF OpenSessions
  <2> QED
    BY <1>1, <1>2, <1>3, <1>6, <1>7, <2>1, <2>2 DEF Known, Expiring
<1>10. Creating(t)'
  BY <1>1, <1>2, <1>3, SameAnswers, TodoWhere DEF Known, Creating
<1>11. Cancelling(t)'
  BY <1>1, <1>2, <1>3, <1>6, <1>7 DEF Known, Cancelling
<1> QED
  BY <1>1, <1>2, <1>3, <1>4, <1>5, <1>8, <1>9, <1>10, <1>11, TodoWhere
     DEF Known, Outside, Placing, AcceptingRide

\* A session row is written by the updates of sessions only, and is the passenger's.
LEMMA CloseKnown ==
  ASSUME TxInv, NEW t \in Tx, UNCHANGED vars, NEW s \in Session, SessionRow(s) \in tx[t].todo,
         SessionClosed(t, s)
  PROVE  Known(t)'
<1>1. tx[t] \in TxRecord /\ Known(t) /\ tx[t].todo # {}
  BY DEF TxInv, TxType
<1>2. /\ SameRequest(t) /\ tx'[t].pc = tx[t].pc /\ tx'[t].full = tx[t].full /\ tx'[t].snap = tx[t].snap
      /\ tx'[t].todo = tx[t].todo \ {SessionRow(s)} /\ sStatus[s] = "open"
      /\ tx'[t].locks = tx[t].locks \cup {SessionRow(s)}
      /\ tx'[t].closing = tx[t].closing \cup {s} /\ tx'[t].rejecting = tx[t].rejecting
  BY DEF SessionClosed, Through
<1>3. /\ tx'[t].op = tx[t].op /\ tx'[t].p = tx[t].p /\ tx'[t].s = tx[t].s /\ tx'[t].d = tx[t].d
      /\ tx'[t].past = tx[t].past
  BY <1>2 DEF SameRequest
<1>4. \A y \in Session, d \in Driver : SessionRow(s) # OfferRow(y, d)
  BY RowNames
<1>5. /\ tx[t].op \in {"CreateSession", "CreateRide", "CancelSession"}
      /\ tx[t].pc = "expire" \/ (tx[t].op = "CancelSession" /\ tx[t].pc = "cancel")
  <2>1. tx[t].op # "AcceptOffer"
    <3> SUFFICES ASSUME tx[t].op = "AcceptOffer" PROVE FALSE
      OBVIOUS
    <3>1. tx[t].pc \in {"rivals", "others"} /\ tx[t].s \in Session /\ tx[t].d \in Driver
      BY <1>1, TodoWhere DEF Known, Accepting
    <3> QED
      BY <1>1, <1>4, <3>1 DEF Known, Accepting
  <2>2. tx[t].pc # "expireOffers"
    BY <1>1, <1>4 DEF Known, Expiring, TxRecord
  <2>3. ~(tx[t].op = "CancelSession" /\ tx[t].pc = "commit")
    BY <1>1, <1>4 DEF Known, Cancelling
  <2> QED
    BY <1>1, <2>1, <2>2, <2>3, TodoWhere
<1>6. tx[t].pc = "expire" => s \in tx[t].past /\ sOwner[s] = tx[t].p
  BY <1>1, RowNames DEF Known, Expiring
<1>7. tx[t].pc = "cancel" => s = tx[t].s /\ sOwner[s] = tx[t].p
  BY <1>1, <1>5, RowNames DEF Known, Cancelling
<1>8. UNCHANGED <<sStatus, sOwner, sTarget, oStatus>>
  BY Unmoved
<1>9. PastRight(t)'
  BY <1>1, <1>2, <1>3, TodoWhere, ReadingKept
<1>10. WritesLocked(t)'
  BY <1>1, <1>2, <1>3, <1>5, <1>6, <1>7, <1>8 DEF Known, WritesLocked
<1>11. LocksHold(t)'
  BY <1>2, LockMatches, RowNames
<1>12. Expiring(t)'
  <2> SUFFICES ASSUME tx[t].pc = "expire" PROVE Expiring(t)'
    BY <1>2, <1>5 DEF Expiring
  <2>1. OpenSessions(tx[t].p)' = OpenSessions(tx[t].p)
    BY <1>3, SameAnswers
  <2>2. \A y \in Session : SessionRow(y) = SessionRow(s) => y = s
    BY RowNames
  <2>3. \A y \in OpenSessions(tx[t].p) : y \in Session
    BY DEF OpenSessions
  <2> QED
    BY <1>1, <1>2, <1>3, <1>5, <1>6, <1>8, <2>1, <2>2, <2>3 DEF Known, Expiring
<1>13. Creating(t)'
  BY <1>1, <1>2, <1>3, <1>5, SameAnswers DEF Known, Creating
<1>14. Cancelling(t)'
  BY <1>1, <1>2, <1>3, <1>5, <1>7, <1>8 DEF Known, Cancelling
<1> QED
  BY <1>1, <1>2, <1>3, <1>5, <1>9, <1>10, <1>11, <1>12, <1>13, <1>14
     DEF Known, Outside, Accepting, Placing, AcceptingRide

\* An offer row is written by the updates of offers only, and is one of those the statement is for.
LEMMA RejectKnown ==
  ASSUME TxInv, NEW t \in Tx, UNCHANGED vars, NEW s \in Session, NEW d \in Driver,
         OfferRow(s, d) \in tx[t].todo, OfferRejected(t, s, d)
  PROVE  Known(t)'
<1>1. tx[t] \in TxRecord /\ Known(t) /\ tx[t].todo # {}
  BY DEF TxInv, TxType
<1>2. /\ SameRequest(t) /\ tx'[t].pc = tx[t].pc /\ tx'[t].full = tx[t].full /\ tx'[t].snap = tx[t].snap
      /\ tx'[t].todo = tx[t].todo \ {OfferRow(s, d)} /\ oStatus[s][d] = "pending"
      /\ tx'[t].locks = tx[t].locks \cup {OfferRow(s, d)}
      /\ tx'[t].closing = tx[t].closing /\ tx'[t].rejecting = tx[t].rejecting \cup {<<s, d>>}
  BY DEF OfferRejected, Through
<1>3. /\ tx'[t].op = tx[t].op /\ tx'[t].p = tx[t].p /\ tx'[t].s = tx[t].s /\ tx'[t].d = tx[t].d
      /\ tx'[t].past = tx[t].past
  BY <1>2 DEF SameRequest
<1>4. /\ \A y \in Session : OfferRow(s, d) # SessionRow(y)
      /\ \A y \in Session, e \in Driver : OfferRow(s, d) = OfferRow(y, e) => y = s /\ e = d
  BY RowNames
<1>5. \A y, e : <<y, e>> \in tx'[t].rejecting => <<y, e>> \in tx[t].rejecting \/ (y = s /\ e = d)
  BY <1>2
<1>6. UNCHANGED <<sStatus, sOwner, sTarget, oStatus>>
  BY Unmoved
<1>7. PastRight(t)'
  BY <1>1, <1>2, <1>3, TodoWhere, ReadingKept
<1>8. WritesLocked(t)'
  BY <1>1, <1>2, <1>3, <1>5, <1>6 DEF Known, WritesLocked
<1>9. LocksHold(t)'
  BY <1>2, LockMatches, RowNames
<1>10. Accepting(t)'
  <2> SUFFICES ASSUME tx[t].op = "AcceptOffer" PROVE Accepting(t)'
    BY <1>3 DEF Accepting
  <2>1. /\ CountActiveRides(tx[t].d)' = CountActiveRides(tx[t].d)
        /\ HasActivePassengerRide(tx[t].p)' <=> HasActivePassengerRide(tx[t].p)
    BY <1>3, SameAnswers
  <2>2. tx[t].pc \in {"rivals", "others"}
    BY <1>1, TodoWhere
  <2> PICK x, c : x = tx[t].s /\ c = tx[t].d
    OBVIOUS
  <2>3. x \in Session /\ c \in Driver
    BY <1>1 DEF Known, Accepting
  <2>4. ASSUME NEW e \in Driver \ {c}, oStatus'[x][e] = "pending"
        PROVE  \/ <<x, e>> \in tx'[t].rejecting
               \/ tx'[t].pc = "rivals" /\ OfferRow(x, e) \in tx'[t].todo
    BY <1>1, <1>2, <1>4, <1>6, <2>2, <2>3, <2>4 DEF Known, Accepting
  <2>5. ASSUME tx[t].pc = "others", NEW y \in Session \ {x}, oStatus'[y][c] = "pending"
        PROVE  <<y, c>> \in tx'[t].rejecting \/ OfferRow(y, c) \in tx'[t].todo
    BY <1>1, <1>2, <1>4, <1>6, <2>2, <2>3, <2>5 DEF Known, Accepting
  <2>6. /\ tx[t].pc = "rivals" => \A z \in tx'[t].todo : \E e \in Driver \ {c} : z = OfferRow(x, e)
        /\ tx[t].pc = "others" => /\ tx'[t].full
                                  /\ \A z \in tx'[t].todo : \E y \in Session \ {x} : z = OfferRow(y, c)
    BY <1>1, <1>2 DEF Known, Accepting
  <2>7. \/ tx[t].pc = "rivals" /\ s = x /\ d # c
        \/ tx[t].pc = "others" /\ s # x /\ d = c /\ tx'[t].full
    <3>1. CASE tx[t].pc = "rivals"
      <4>1. PICK e \in Driver \ {c} : OfferRow(s, d) = OfferRow(x, e)
        BY <1>1, <3>1 DEF Known, Accepting
      <4> QED
        BY <1>4, <2>3, <3>1, <4>1
    <3>2. CASE tx[t].pc = "others"
      <4>1. PICK y \in Session \ {x} : OfferRow(s, d) = OfferRow(y, c)
        BY <1>1, <3>2 DEF Known, Accepting
      <4> QED
        BY <1>4, <2>3, <2>6, <3>2, <4>1
    <3> QED
      BY <2>2, <3>1, <3>2
  <2>8. \A y \in Session, e \in Driver : <<y, e>> \in tx'[t].rejecting =>
          (y = x /\ e # c) \/ (y # x /\ e = c /\ tx'[t].full)
    <3>1. \A y \in Session, e \in Driver : <<y, e>> \in tx[t].rejecting =>
            (y = x /\ e # c) \/ (y # x /\ e = c /\ tx'[t].full)
      BY <1>1, <1>2, <2>2 DEF Known, Accepting
    <3> QED
      BY <1>5, <2>7, <3>1
  <2> QED
    BY <1>1, <1>2, <1>3, <1>6, <2>1, <2>2, <2>3, <2>4, <2>5, <2>6, <2>8 DEF Known, Accepting
<1>11. Expiring(t)'
  <2> SUFFICES ASSUME tx[t].pc = "expireOffers" PROVE Expiring(t)'
    BY <1>1, <1>2, <1>4 DEF Known, Expiring, TxRecord
  <2>1. OpenSessions(tx[t].p)' = OpenSessions(tx[t].p)
    BY <1>3, SameAnswers
  <2>2. s \in tx[t].closing
    BY <1>1, <1>4 DEF Known, Expiring, TxRecord
  <2> QED
    BY <1>1, <1>2, <1>3, <1>5, <1>6, <2>1, <2>2 DEF Known, Expiring
<1>12. Creating(t)'
  BY <1>1, <1>2, <1>3, SameAnswers, TodoWhere DEF Known, Creating
<1>13. Cancelling(t)'
  <2> SUFFICES ASSUME tx[t].op = "CancelSession" PROVE Cancelling(t)'
    BY <1>3 DEF Cancelling
  <2>1. tx[t].pc # "cancel" /\ (tx[t].pc = "commit" => s = tx[t].s)
    BY <1>1, <1>4 DEF Known, Cancelling
  <2> QED
    BY <1>1, <1>2, <1>3, <1>5, <1>6, <2>1 DEF Known, Cancelling
<1> QED
  BY <1>1, <1>2, <1>3, <1>7, <1>8, <1>9, <1>10, <1>11, <1>12, <1>13, TodoWhere
     DEF Known, Outside, Placing, AcceptingRide

\* An update gets its next row.
LEMMA UpdateRowStep ==
  ASSUME TxInv, NEW t \in Tx, NEW row, UpdateRow(t, row)
  PROVE  TxInv' /\ UNCHANGED vars
<1>1. UNCHANGED vars /\ row \in tx[t].todo /\ Free(row, t)
  BY DEF UpdateRow
<1>2. Known(t)'
  BY <1>1, RowUpdated, SkipKnown, CloseKnown, RejectKnown
<1>3. /\ TxType' /\ \A u \in Tx \ {t} : tx'[u] = tx[u]
      /\ \A x \in tx'[t].locks \ tx[t].locks : Free(x, t)
  <2>1. CASE Skipped(t, row)
    BY <2>1 DEF Skipped, Through, SameRequest
  <2>2. ASSUME NEW s \in Session, row = SessionRow(s), SessionClosed(t, s)
        PROVE  /\ TxType' /\ \A u \in Tx \ {t} : tx'[u] = tx[u]
               /\ \A x \in tx'[t].locks \ tx[t].locks : Free(x, t)
    BY <1>1, <2>2 DEF SessionClosed, Through, SameRequest
  <2>3. ASSUME NEW s \in Session, NEW d \in Driver, row = OfferRow(s, d), OfferRejected(t, s, d)
        PROVE  /\ TxType' /\ \A u \in Tx \ {t} : tx'[u] = tx[u]
               /\ \A x \in tx'[t].locks \ tx[t].locks : Free(x, t)
    BY <1>1, <2>3 DEF OfferRejected, Through, SameRequest
  <2> QED
    BY <2>1, <2>2, <2>3, RowUpdated
<1> QED
  BY <1>1, <1>2, <1>3, QuietStep

----------------------------------------------------------------------------
(* From statement to statement *)

\* t holds and has written what it had, and goes on with another statement.
GoesOn(t) ==
  /\ SameRequest(t) /\ TxType' /\ tx'[t].locks = tx[t].locks /\ tx'[t].closing = tx[t].closing
  /\ tx'[t].rejecting = tx[t].rejecting /\ tx'[t].full = tx[t].full

LEMMA NextStatement ==
  ASSUME TxType, NEW t \in Tx, NEW pc \in Statements
  PROVE  /\ Set(t, [tx[t] EXCEPT !.pc = pc]) =>
              GoesOn(t) /\ tx'[t].pc = pc /\ tx'[t].todo = tx[t].todo
         /\ \A todo \in SUBSET Rows :
              /\ Set(t, [tx[t] EXCEPT !.pc = pc, !.todo = todo]) =>
                   GoesOn(t) /\ tx'[t].pc = pc /\ tx'[t].todo = todo
              /\ Set(t, [tx[t] EXCEPT !.pc = pc, !.todo = todo, !.snap = {}]) =>
                   GoesOn(t) /\ tx'[t].pc = pc /\ tx'[t].todo = todo
<1> PICK w : w = tx[t]
  OBVIOUS
<1>0. w \in TxRecord
  BY DEF TxType
<1>1. ASSUME NEW y \in TxRecord, Set(t, y), y.op = w.op, y.p = w.p, y.s = w.s, y.d = w.d, y.r = w.r,
             y.past = w.past, y.locks = w.locks, y.closing = w.closing, y.rejecting = w.rejecting,
             y.full = w.full
      PROVE  GoesOn(t) /\ tx'[t] = y
  <2>1. tx'[t] = y /\ (\A u \in Tx \ {t} : tx'[u] = tx[u]) /\ TxType'
    BY <1>1 DEF Set, TxType
  <2> QED
    BY <1>1, <2>1 DEF GoesOn, SameRequest
<1>2. ASSUME Set(t, [w EXCEPT !.pc = pc])
      PROVE  GoesOn(t) /\ tx'[t].pc = pc /\ tx'[t].todo = w.todo
  <2> PICK y : y = [w EXCEPT !.pc = pc]
    OBVIOUS
  <2>1. y \in TxRecord /\ y.pc = pc /\ y.todo = w.todo
    BY <1>0 DEF TxRecord
  <2>2. /\ y.op = w.op /\ y.p = w.p /\ y.s = w.s /\ y.d = w.d /\ y.r = w.r /\ y.past = w.past
        /\ y.locks = w.locks /\ y.closing = w.closing /\ y.rejecting = w.rejecting /\ y.full = w.full
    BY <1>0 DEF TxRecord
  <2> QED
    BY <1>1, <1>2, <2>1, <2>2
<1>3. ASSUME NEW todo \in SUBSET Rows, Set(t, [w EXCEPT !.pc = pc, !.todo = todo])
      PROVE  GoesOn(t) /\ tx'[t].pc = pc /\ tx'[t].todo = todo
  <2> PICK y : y = [w EXCEPT !.pc = pc, !.todo = todo]
    OBVIOUS
  <2>1. y \in TxRecord /\ y.pc = pc /\ y.todo = todo
    BY <1>0 DEF TxRecord
  <2>2. /\ y.op = w.op /\ y.p = w.p /\ y.s = w.s /\ y.d = w.d /\ y.r = w.r /\ y.past = w.past
        /\ y.locks = w.locks /\ y.closing = w.closing /\ y.rejecting = w.rejecting /\ y.full = w.full
    BY <1>0 DEF TxRecord
  <2> QED
    BY <1>1, <1>3, <2>1, <2>2
<1>4. ASSUME NEW todo \in SUBSET Rows, Set(t, [w EXCEPT !.pc = pc, !.todo = todo, !.snap = {}])
      PROVE  GoesOn(t) /\ tx'[t].pc = pc /\ tx'[t].todo = todo
  <2> PICK y : y = [w EXCEPT !.pc = pc, !.todo = todo, !.snap = {}]
    OBVIOUS
  <2>1. y \in TxRecord /\ y.pc = pc /\ y.todo = todo
    BY <1>0 DEF TxRecord
  <2>2. /\ y.op = w.op /\ y.p = w.p /\ y.s = w.s /\ y.d = w.d /\ y.r = w.r /\ y.past = w.past
        /\ y.locks = w.locks /\ y.closing = w.closing /\ y.rejecting = w.rejecting /\ y.full = w.full
    BY <1>0 DEF TxRecord
  <2> QED
    BY <1>1, <1>4, <2>1, <2>2
<1> QED
  BY <1>2, <1>3, <1>4

\* What stays true of a transaction that goes on.
LEMMA GoesOnKnows ==
  ASSUME TxInv, NEW t \in Tx, UNCHANGED vars, InProgress(t), GoesOn(t)
  PROVE  PastRight(t)' /\ LocksHold(t)' /\ WritesLocked(t)'
<1>1. PastRight(t)' /\ WritesLocked(t)'
  BY ReadingKept, WritesKept DEF GoesOn, SameRequest
<1>2. LocksHold(t)'
  BY Unmoved DEF GoesOn, TxInv, Known, LocksHold
<1> QED
  BY <1>1, <1>2

\* The offers on other sessions that an acceptance of driver d's offer on s rejects when it fills
\* the driver's capacity.
Bids(s, d) == PendingRows(Session \ {s}, {d})

\* They are the driver's pending offers there.
LEMMA BidRows ==
  ASSUME NEW s \in Session, NEW d \in Driver
  PROVE  /\ Bids(s, d) \subseteq Rows
         /\ \A row \in Bids(s, d) : \E y \in Session \ {s} : row = OfferRow(y, d)
         /\ \A y \in Session \ {s} : oStatus[y][d] = "pending" => OfferRow(y, d) \in Bids(s, d)
<1> PICK ss \in SUBSET Session : ss = Session \ {s}
  OBVIOUS
<1> PICK ds \in SUBSET Driver : ds = {d}
  OBVIOUS
<1>1. /\ PendingRows(ss, ds) \subseteq Rows
      /\ \A row \in PendingRows(ss, ds) : \E x \in ss, e \in ds : row = OfferRow(x, e)
      /\ \A x \in ss, e \in ds : oStatus[x][e] = "pending" => OfferRow(x, e) \in PendingRows(ss, ds)
  BY PendingRowsAre
<1>2. Bids(s, d) = PendingRows(ss, ds)
  BY DEF Bids
<1>3. d \in ds /\ (\A e \in ds : e = d) /\ (\A y : y \in ss <=> y \in Session \ {s})
  OBVIOUS
<1>4. \A row \in Bids(s, d) : \E y \in Session \ {s} : row = OfferRow(y, d)
  BY <1>1, <1>2, <1>3
<1>5. ASSUME NEW y \in ss, oStatus[y][d] = "pending" PROVE OfferRow(y, d) \in Bids(s, d)
  <2>1. \A e \in ds : oStatus[y][e] = "pending" => OfferRow(y, e) \in PendingRows(ss, ds)
    BY <1>1
  <2> QED
    BY <1>2, <1>3, <1>5, <2>1
<1>6. \A y \in Session \ {s} : oStatus[y][d] = "pending" => OfferRow(y, d) \in Bids(s, d)
  BY <1>5
<1>7. Bids(s, d) \subseteq Rows
  BY <1>1, <1>2
<1> QED
  BY <1>4, <1>6, <1>7

\* RejectOtherPendingBidOffers is over.
LEMMA RivalsRejectedStep ==
  ASSUME TxInv, NEW t \in Tx, RivalsRejected(t)
  PROVE  TxInv' /\ UNCHANGED vars
<1> PICK s, d : s = tx[t].s /\ d = tx[t].d
  OBVIOUS
<1>1. /\ UNCHANGED vars /\ tx[t].pc = "rivals" /\ tx[t].todo = {}
      /\ tx[t].full => Set(t, [tx[t] EXCEPT !.pc = "others", !.todo = Bids(s, d)])
      /\ ~tx[t].full => Set(t, [tx[t] EXCEPT !.pc = "commit"])
  BY DEF RivalsRejected, Bids
<1>2. tx[t] \in TxRecord /\ Known(t) /\ TxType /\ InProgress(t)
  BY <1>1 DEF TxInv, TxType, InProgress
<1>3. tx[t].op = "AcceptOffer"
  BY <1>1, <1>2 DEF Known, TxRecord, Outside, Placing, AcceptingRide, Creating, Cancelling
<1>4. s \in Session /\ d \in Driver
  BY <1>2, <1>3 DEF Known, Accepting
<1>5. /\ Bids(s, d) \in SUBSET Rows
      /\ \A row \in Bids(s, d) : \E y \in Session \ {s} : row = OfferRow(y, d)
      /\ \A y \in Session \ {s} : oStatus[y][d] = "pending" => OfferRow(y, d) \in Bids(s, d)
  BY <1>4, BidRows
<1>6. "others" \in Statements /\ "commit" \in Statements
  BY DEF Statements
<1>7. /\ GoesOn(t)
      /\ tx[t].full => tx'[t].pc = "others" /\ tx'[t].todo = Bids(s, d)
      /\ ~tx[t].full => tx'[t].pc = "commit" /\ tx'[t].todo = {}
  BY <1>1, <1>2, <1>5, <1>6, NextStatement
<1>8. /\ tx'[t].op = tx[t].op /\ tx'[t].p = tx[t].p /\ tx'[t].s = s /\ tx'[t].d = d
      /\ tx'[t].past = tx[t].past /\ tx'[t].locks = tx[t].locks /\ tx'[t].closing = tx[t].closing
      /\ tx'[t].rejecting = tx[t].rejecting /\ tx'[t].full = tx[t].full
      /\ TxType' /\ \A u \in Tx \ {t} : tx'[u] = tx[u]
  BY <1>7 DEF GoesOn, SameRequest
<1>9. Accepting(t)'
  <2>1. /\ CountActiveRides(tx[t].d)' = CountActiveRides(tx[t].d)
        /\ HasActivePassengerRide(tx[t].p)' <=> HasActivePassengerRide(tx[t].p)
    BY <1>1, <1>8, SameAnswers
  <2>2. UNCHANGED <<sOwner, sTarget, oStatus>>
    BY <1>1, Unmoved
  <2> QED
    BY <1>1, <1>2, <1>3, <1>4, <1>5, <1>7, <1>8, <2>1, <2>2 DEF Known, Accepting
<1>10. tx'[t].pc \in {"others", "commit"}
  BY <1>7
<1>11. Known(t)'
  BY <1>1, <1>2, <1>3, <1>7, <1>8, <1>9, <1>10, GoesOnKnows
     DEF Known, Outside, Placing, AcceptingRide, Expiring, Creating, Cancelling
<1> QED
  BY <1>1, <1>8, <1>11, QuietStep

\* RejectDriverPendingBidOffers is over.
LEMMA OthersRejectedStep ==
  ASSUME TxInv, NEW t \in Tx, OthersRejected(t)
  PROVE  TxInv' /\ UNCHANGED vars
<1>1. /\ UNCHANGED vars /\ tx[t].pc = "others" /\ tx[t].todo = {}
      /\ Set(t, [tx[t] EXCEPT !.pc = "commit"])
  BY DEF OthersRejected
<1>2. tx[t] \in TxRecord /\ Known(t) /\ TxType /\ InProgress(t) /\ "commit" \in Statements
  BY <1>1 DEF TxInv, TxType, InProgress, Statements
<1>3. tx[t].op = "AcceptOffer"
  BY <1>1, <1>2 DEF Known, TxRecord, Outside, Placing, AcceptingRide, Creating, Cancelling
<1>4. GoesOn(t) /\ tx'[t].pc = "commit" /\ tx'[t].todo = {}
  BY <1>1, <1>2, NextStatement
<1>5. /\ tx'[t].op = tx[t].op /\ tx'[t].p = tx[t].p /\ tx'[t].s = tx[t].s /\ tx'[t].d = tx[t].d
      /\ tx'[t].past = tx[t].past /\ tx'[t].locks = tx[t].locks /\ tx'[t].closing = tx[t].closing
      /\ tx'[t].rejecting = tx[t].rejecting /\ tx'[t].full = tx[t].full
      /\ TxType' /\ \A u \in Tx \ {t} : tx'[u] = tx[u]
  BY <1>4 DEF GoesOn, SameRequest
<1>6. Accepting(t)'
  <2>1. /\ CountActiveRides(tx[t].d)' = CountActiveRides(tx[t].d)
        /\ HasActivePassengerRide(tx[t].p)' <=> HasActivePassengerRide(tx[t].p)
    BY <1>1, <1>5, SameAnswers
  <2>2. UNCHANGED <<sOwner, sTarget, oStatus>>
    BY <1>1, Unmoved
  <2> QED
    BY <1>1, <1>2, <1>3, <1>4, <1>5, <2>1, <2>2 DEF Known, Accepting
<1>7. Known(t)'
  BY <1>1, <1>2, <1>3, <1>4, <1>5, <1>6, GoesOnKnows
     DEF Known, Outside, Placing, AcceptingRide, Expiring, Creating, Cancelling
<1> QED
  BY <1>1, <1>5, <1>7, QuietStep

\* The offers of t's snapshot that are on sessions it has closed.
LeftOpen(t) == {row \in tx[t].snap : row[2] \in tx[t].closing}

\* The update of bid_sessions is over, and the update of bid_offers starts.
LEMMA SessionsClosedStep ==
  ASSUME TxInv, NEW t \in Tx, SessionsClosed(t)
  PROVE  TxInv' /\ UNCHANGED vars
<1>1. /\ UNCHANGED vars /\ tx[t].pc \in {"expire", "cancel"} /\ tx[t].todo = {}
  BY DEF SessionsClosed
<1>2. /\ tx[t] \in TxRecord /\ Known(t) /\ TxType /\ InProgress(t)
      /\ "commit" \in Statements /\ "expireOffers" \in Statements
      /\ LeftOpen(t) \in SUBSET Rows /\ tx[t].snap \in SUBSET Rows
  BY <1>1 DEF TxInv, TxType, TxRecord, InProgress, Statements, LeftOpen
<1>3. CASE tx[t].pc = "expire"
  <2>1. Set(t, [tx[t] EXCEPT !.pc = "expireOffers", !.todo = LeftOpen(t), !.snap = {}])
    BY <1>3 DEF SessionsClosed, LeftOpen
  <2>2. GoesOn(t) /\ tx'[t].pc = "expireOffers" /\ tx'[t].todo = LeftOpen(t)
    BY <1>2, <2>1, NextStatement
  <2>3. /\ tx'[t].op = tx[t].op /\ tx'[t].p = tx[t].p /\ tx'[t].s = tx[t].s /\ tx'[t].d = tx[t].d
        /\ tx'[t].past = tx[t].past /\ tx'[t].locks = tx[t].locks /\ tx'[t].closing = tx[t].closing
        /\ tx'[t].rejecting = tx[t].rejecting /\ TxType' /\ \A u \in Tx \ {t} : tx'[u] = tx[u]
    BY <2>2 DEF GoesOn, SameRequest
  <2>4. ASSUME NEW row \in LeftOpen(t)
        PROVE  \E s \in tx[t].closing, d \in Driver : row = OfferRow(s, d)
    <3>1. PICK s \in Session, d \in Driver : row = OfferRow(s, d)
      BY <1>2, <1>3 DEF Known, Expiring, LeftOpen
    <3>2. row[2] = s
      BY <3>1 DEF OfferRow
    <3> QED
      BY <3>1, <3>2 DEF LeftOpen
  <2>5. /\ tx[t].op \in {"CreateSession", "CreateRide", "CancelSession"}
        /\ tx[t].closing \subseteq tx[t].past /\ tx[t].rejecting = {}
        /\ OpenSessions(tx[t].p) \cap tx[t].past \subseteq tx[t].closing
    BY <1>1, <1>2, <1>3 DEF Known, Expiring
  <2>6. OpenSessions(tx[t].p)' = OpenSessions(tx[t].p)
    BY <1>1, <2>3, SameAnswers
  <2>7. Expiring(t)'
    BY <2>2, <2>3, <2>4, <2>5, <2>6 DEF Expiring
  <2>8. Creating(t)'
    BY <1>2, <1>3, <2>2, <2>3 DEF Known, Creating
  <2>9. Cancelling(t)'
    BY <1>1, <1>2, <1>3, <2>2, <2>3, Unmoved DEF Known, Cancelling
  <2>10. Known(t)'
    BY <1>1, <1>2, <2>2, <2>3, <2>5, <2>7, <2>8, <2>9, GoesOnKnows
       DEF Known, Outside, Accepting, Placing, AcceptingRide
  <2> QED
    BY <1>1, <2>3, <2>10, QuietStep
<1>4. CASE tx[t].pc = "cancel"
  <2>1. Set(t, [tx[t] EXCEPT !.pc = "commit", !.todo = tx[t].snap, !.snap = {}])
    BY <1>4 DEF SessionsClosed
  <2>2. GoesOn(t) /\ tx'[t].pc = "commit" /\ tx'[t].todo = tx[t].snap
    BY <1>2, <2>1, NextStatement
  <2>3. /\ tx'[t].op = tx[t].op /\ tx'[t].p = tx[t].p /\ tx'[t].s = tx[t].s /\ tx'[t].d = tx[t].d
        /\ tx'[t].past = tx[t].past /\ tx'[t].locks = tx[t].locks /\ tx'[t].closing = tx[t].closing
        /\ tx'[t].rejecting = tx[t].rejecting /\ TxType' /\ \A u \in Tx \ {t} : tx'[u] = tx[u]
    BY <2>2 DEF GoesOn, SameRequest
  <2>4. tx[t].op = "CancelSession"
    BY <1>2, <1>4 DEF Known, TxRecord, Outside, Accepting, Placing, AcceptingRide, Creating
  <2>5. Cancelling(t)'
    BY <1>1, <1>2, <1>4, <2>2, <2>3, <2>4, Unmoved DEF Known, Cancelling
  <2>6. Known(t)'
    BY <1>1, <1>2, <2>2, <2>3, <2>4, <2>5, GoesOnKnows
       DEF Known, Outside, Accepting, Placing, AcceptingRide, Expiring, Creating
  <2> QED
    BY <1>1, <2>3, <2>6, QuietStep
<1> QED
  BY <1>1, <1>3, <1>4

\* HasActiveBidSession: with nothing past left open and nothing else open, all is closed.
LEMMA CheckSessionsStep ==
  ASSUME TxInv, NEW t \in Tx, CheckSessions(t)
  PROVE  TxInv' /\ UNCHANGED vars
<1>1. CASE Fail(t)
  BY <1>1, FailStep
<1>2. CASE ~Fail(t)
  <2>1. /\ UNCHANGED vars /\ tx[t].pc = "expireOffers" /\ tx[t].todo = {}
        /\ tx[t].op \in {"CreateSession", "CreateRide"}
        /\ OpenSessions(tx[t].p) \subseteq tx[t].past \cup tx[t].closing
        /\ Set(t, [tx[t] EXCEPT !.pc = "checkRides"])
    BY <1>2 DEF CheckSessions
  <2>2. /\ tx[t] \in TxRecord /\ Known(t) /\ TxType /\ InProgress(t) /\ "checkRides" \in Statements
    BY <2>1 DEF TxInv, TxType, InProgress, Statements
  <2>3. GoesOn(t) /\ tx'[t].pc = "checkRides" /\ tx'[t].todo = {}
    BY <2>1, <2>2, NextStatement
  <2>4. /\ tx'[t].op = tx[t].op /\ tx'[t].p = tx[t].p /\ tx'[t].s = tx[t].s /\ tx'[t].d = tx[t].d
        /\ tx'[t].past = tx[t].past /\ tx'[t].locks = tx[t].locks /\ tx'[t].closing = tx[t].closing
        /\ tx'[t].rejecting = tx[t].rejecting /\ TxType' /\ \A u \in Tx \ {t} : tx'[u] = tx[u]
    BY <2>3 DEF GoesOn, SameRequest
  <2>5. OpenSessions(tx[t].p)' = OpenSessions(tx[t].p)
    BY <2>1, <2>4, SameAnswers
  <2>6. /\ OpenSessions(tx[t].p) \cap tx[t].past \subseteq tx[t].closing
        /\ tx[t].closing \subseteq tx[t].past
        /\ \A s \in Session, d \in Driver : <<s, d>> \in tx[t].rejecting => s \in tx[t].closing
    BY <2>1, <2>2 DEF Known, Expiring
  <2>7. OpenSessions(tx[t].p) \subseteq tx[t].closing
    BY <2>1, <2>6
  <2>8. Creating(t)'
    BY <2>1, <2>2, <2>3, <2>4, <2>5, <2>6, <2>7 DEF Known, Creating
  <2>9. Known(t)'
    BY <2>1, <2>2, <2>3, <2>4, <2>8, GoesOnKnows
       DEF Known, Outside, Accepting, Placing, AcceptingRide, Expiring, Cancelling
  <2> QED
    BY <2>1, <2>4, <2>9, QuietStep
<1> QED
  BY <1>1, <1>2

\* HasActivePassengerRide.
LEMMA CheckRidesStep ==
  ASSUME TxInv, NEW t \in Tx, CheckRides(t)
  PROVE  TxInv' /\ UNCHANGED vars
<1>1. CASE Fail(t)
  BY <1>1, FailStep
<1>2. CASE ~Fail(t)
  <2>1. /\ UNCHANGED vars /\ tx[t].pc = "checkRides" /\ ~HasActivePassengerRide(tx[t].p)
        /\ Set(t, [tx[t] EXCEPT !.pc = "commit"])
    BY <1>2 DEF CheckRides
  <2>2. /\ tx[t] \in TxRecord /\ Known(t) /\ TxType /\ InProgress(t) /\ "commit" \in Statements
    BY <2>1 DEF TxInv, TxType, InProgress, Statements
  <2>3. tx[t].op \in {"CreateSession", "CreateRide"}
    BY <2>1, <2>2 DEF Known, TxRecord, Outside, Accepting, Placing, AcceptingRide, Cancelling
  <2>4. GoesOn(t) /\ tx'[t].pc = "commit" /\ tx'[t].todo = tx[t].todo
    BY <2>1, <2>2, NextStatement
  <2>5. /\ tx'[t].op = tx[t].op /\ tx'[t].p = tx[t].p /\ tx'[t].s = tx[t].s /\ tx'[t].d = tx[t].d
        /\ tx'[t].past = tx[t].past /\ tx'[t].locks = tx[t].locks /\ tx'[t].closing = tx[t].closing
        /\ tx'[t].rejecting = tx[t].rejecting /\ TxType' /\ \A u \in Tx \ {t} : tx'[u] = tx[u]
    BY <2>4 DEF GoesOn, SameRequest
  <2>6. /\ OpenSessions(tx[t].p)' = OpenSessions(tx[t].p)
        /\ HasActivePassengerRide(tx[t].p)' <=> HasActivePassengerRide(tx[t].p)
    BY <2>1, <2>5, SameAnswers
  <2>7. Creating(t)'
    BY <2>1, <2>2, <2>3, <2>4, <2>5, <2>6 DEF Known, Creating
  <2>8. Known(t)'
    BY <2>1, <2>2, <2>3, <2>4, <2>5, <2>7, GoesOnKnows
       DEF Known, Outside, Accepting, Placing, AcceptingRide, Expiring, Cancelling
  <2> QED
    BY <2>1, <2>5, <2>8, QuietStep
<1> QED
  BY <1>1, <1>2

----------------------------------------------------------------------------
(* The commits *)

\* Nobody else holds a row that t holds.
LEMMA OnlyHolder ==
  ASSUME TxInv, NEW t \in Tx, NEW u \in Tx, u # t, NEW row \in tx[t].locks
  PROVE  row \notin tx[u].locks
BY DEF TxInv, RowsExclusive

\* A transaction that ends with a commit.
LEMMA CommitDone ==
  ASSUME TxInv, Next, NEW t \in Tx, Set(t, Done), NewIsBefore', \A u \in Tx \ {t} : Keeps(u)
  PROVE  TxInv' /\ Next
<1>1. tx'[t] = Done /\ (\A u \in Tx \ {t} : tx'[u] = tx[u])
  BY DEF Set, TxInv, TxType
<1>2. TxType'
  BY <1>1, DoneKnown DEF Set, TxInv, TxType
<1> QED
  BY <1>1, <1>2, DoneKnown, CommitStep

\* A booking of a passenger is the passenger's only one.
LEMMA OneOpenSession ==
  ASSUME TxInv, NEW s \in Session, NEW y \in Session, sStatus[s] = "open", sStatus[y] = "open",
         sOwner[s] \in Passenger, sOwner[y] = sOwner[s]
  PROVE  s = y
BY DEF TxInv, OneActiveBooking, OpenSessions

\* AcceptRide commits.
LEMMA CommitAcceptRideStep ==
  ASSUME TxInv, NEW t \in Tx, CommitAcceptRide(t)
  PROVE  TxInv' /\ Next
<1> PICK d, r : d = tx[t].d /\ r = tx[t].r
  OBVIOUS
<1>1. /\ tx[t].op = "AcceptRide" /\ tx[t].pc = "commit"
      /\ rStatus' = [rStatus EXCEPT ![r] = "accepted"]
      /\ rDriver' = [rDriver EXCEPT ![r] = d]
      /\ Set(t, Done)
      /\ UNCHANGED <<sStatus, sOwner, sTarget, sDriver, sClock, oStatus, rOwner, rSession, online>>
  BY DEF CommitAcceptRide, Committing, sessionVars
<1>2. /\ d \in Driver /\ r \in Ride /\ DriverRow(d) \in tx[t].locks /\ RideRow(r) \in tx[t].locks
      /\ CountActiveRides(d) < MaxActive
  BY <1>1 DEF TxInv, Known, AcceptingRide
<1>3. d \in online /\ rStatus[r] = "requested"
  BY <1>2 DEF TxInv, Known, LocksHold
<1>4. Next
  <2>1. AcceptRide(d, r)
    BY <1>1, <1>2, <1>3 DEF AcceptRide, sessionVars
  <2> QED
    BY <1>2, <2>1 DEF Next
<1>5. NewIsBefore'
  BY <1>1 DEF TxInv, NewIsBefore
<1>6. ASSUME NEW u \in Tx \ {t} PROVE Keeps(u)
  <2>0. Known(u) /\ DriverRow(d) \notin tx[u].locks /\ RideRow(r) \notin tx[u].locks
    BY <1>2, OnlyHolder DEF TxInv
  <2>1. \A p \in Passenger : HasActivePassengerRide(p)' => HasActivePassengerRide(p)
    BY <1>1, <1>2, <1>3 DEF HasActivePassengerRide, TxInv, TypeOK
  <2>2. KeepsSessions(u) /\ KeepsOffers(u) /\ KeepsHistory(u)
    BY <1>1, <2>1 DEF KeepsSessions, KeepsOffers, KeepsHistory, TxInv, NewIsBefore
  <2>3. KeepsDrivers(u)
    <3> SUFFICES ASSUME NEW e \in Driver, DriverRow(e) \in tx[u].locks
                 PROVE  CountActiveRides(e)' <= CountActiveRides(e)
      BY <1>1 DEF KeepsDrivers
    <3>1. e # d
      BY <2>0
    <3>2. ActiveRides(e)' \subseteq ActiveRides(e)
      BY <1>1, <1>2, <3>1 DEF ActiveRides, TxInv, TypeOK
    <3> QED
      BY <3>2, CountMonotone
  <2>4. KeepsRides(u)
    BY <1>1, <2>0 DEF KeepsRides, TxInv, TypeOK
  <2>5. KeepsUsers(u)
    <3>1. \A p : OpenSessions(p)' = OpenSessions(p)
      BY <1>1 DEF OpenSessions
    <3> QED
      BY <2>1, <3>1 DEF KeepsUsers
  <2> QED
    BY <2>2, <2>3, <2>4, <2>5 DEF Keeps
<1> QED
  BY <1>1, <1>4, <1>5, <1>6, CommitDone

\* PlaceOffer commits.
LEMMA CommitPlaceOfferStep ==
  ASSUME TxInv, NEW t \in Tx, CommitPlaceOffer(t)
  PROVE  TxInv' /\ Next
<1> PICK s, d : s = tx[t].s /\ d = tx[t].d
  OBVIOUS
<1>1. /\ tx[t].op = "PlaceOffer" /\ tx[t].pc = "commit"
      /\ oStatus' = [oStatus EXCEPT ![s][d] = "pending"]
      /\ Set(t, Done)
      /\ UNCHANGED <<sStatus, sOwner, sTarget, sDriver, sClock, rStatus, rOwner, rDriver, rSession, online>>
  BY DEF CommitPlaceOffer, Committing, sessionVars, rideVars
<1>2. /\ s \in Session /\ d \in Driver /\ SessionRow(s) \in tx[t].locks /\ DriverRow(d) \in tx[t].locks
      /\ CountActiveRides(d) < MaxActive /\ oStatus[s][d] # "pending"
      /\ s \notin tx[t].past /\ sTarget[s] \in {None, d}
  BY <1>1 DEF TxInv, Known, Placing
<1>3. d \in online /\ sStatus[s] = "open" /\ sClock[s] # "after"
  BY <1>1, <1>2 DEF TxInv, Known, LocksHold, PastRight, InProgress
<1>4. Next
  <2>1. PlaceOffer(d, s)
    BY <1>1, <1>2, <1>3 DEF PlaceOffer, ReadsUnexpired, sessionVars, rideVars
  <2> QED
    BY <1>2, <2>1 DEF Next
<1>5. NewIsBefore'
  BY <1>1 DEF TxInv, NewIsBefore
<1>6. ASSUME NEW u \in Tx \ {t} PROVE Keeps(u)
  <2>0. Known(u) /\ DriverRow(d) \notin tx[u].locks /\ SessionRow(s) \notin tx[u].locks
    BY <1>2, OnlyHolder DEF TxInv
  <2>1. \A y \in Session, e \in Driver : y # s \/ e # d => oStatus'[y][e] = oStatus[y][e]
    BY <1>1, <1>2 DEF TxInv, TypeOK
  <2>2. \A p : /\ OpenSessions(p)' = OpenSessions(p)
               /\ HasActivePassengerRide(p)' <=> HasActivePassengerRide(p)
    BY <1>1 DEF OpenSessions, HasActivePassengerRide
  <2>3. KeepsSessions(u)
    BY <1>1, <2>0, <2>1, <2>2 DEF KeepsSessions
  <2>4. KeepsOffers(u)
    BY <1>2, <2>0, <2>1 DEF KeepsOffers, Known, LocksHold
  <2>5. KeepsDrivers(u)
    <3>1. \A e \in Driver : ActiveRides(e)' \subseteq ActiveRides(e)
      BY <1>1 DEF ActiveRides
    <3> QED
      BY <1>1, <2>0, <2>1, <3>1, CountMonotone DEF KeepsDrivers
  <2>6. KeepsRides(u) /\ KeepsUsers(u) /\ KeepsHistory(u)
    BY <1>1, <2>2 DEF KeepsRides, KeepsUsers, KeepsHistory, TxInv, NewIsBefore
  <2> QED
    BY <2>3, <2>4, <2>5, <2>6 DEF Keeps
<1> QED
  BY <1>1, <1>4, <1>5, <1>6, CommitDone

\* What t has rejected was pending, and the offers that t has not rejected stay.
LEMMA RejectedRows ==
  ASSUME TxInv, NEW t \in Tx, NEW s \in Session, NEW d \in Driver
  PROVE  /\ Rejected(t) \in [Session -> [Driver -> OfferStatus]]
         /\ <<s, d>> \in tx[t].rejecting =>
              /\ Rejected(t)[s][d] = "rejected" /\ oStatus[s][d] = "pending"
              /\ OfferRow(s, d) \in tx[t].locks
         /\ <<s, d>> \notin tx[t].rejecting => Rejected(t)[s][d] = oStatus[s][d]
<1>1. Rejected(t) \in [Session -> [Driver -> OfferStatus]]
  BY DEF Rejected, TxInv, TypeOK, OfferStatus
<1>2. <<s, d>> \in tx[t].rejecting => OfferRow(s, d) \in tx[t].locks /\ oStatus[s][d] = "pending"
  BY DEF TxInv, Known, WritesLocked, LocksHold
<1> QED
  BY <1>1, <1>2 DEF Rejected

\* AcceptOffer commits.
LEMMA CommitAcceptOfferStep ==
  ASSUME TxInv, NEW t \in Tx, CommitAcceptOffer(t)
  PROVE  TxInv' /\ Next
<1> PICK s, d, p : s = tx[t].s /\ d = tx[t].d /\ p = tx[t].p
  OBVIOUS
<1>1. PICK r \in Ride :
        /\ tx[t].op = "AcceptOffer" /\ tx[t].pc = "commit" /\ Free(UserRow(p), t)
        /\ rStatus[r] = "absent"
        /\ rStatus'  = [rStatus EXCEPT ![r] = "accepted"]
        /\ rOwner'   = [rOwner EXCEPT ![r] = sOwner[s]]
        /\ rDriver'  = [rDriver EXCEPT ![r] = d]
        /\ rSession' = [rSession EXCEPT ![r] = s]
        /\ sStatus'  = [sStatus EXCEPT ![s] = "accepted"]
        /\ sDriver'  = [sDriver EXCEPT ![s] = d]
        /\ oStatus'  = [Rejected(t) EXCEPT ![s][d] = "accepted"]
        /\ Set(t, Done)
        /\ UNCHANGED <<sOwner, sTarget, sClock, online>>
  BY DEF CommitAcceptOffer, Committing
<1>2. /\ s \in Session /\ d \in Driver /\ p \in Passenger
      /\ SessionRow(s) \in tx[t].locks /\ DriverRow(d) \in tx[t].locks /\ OfferRow(s, d) \in tx[t].locks
      /\ s \notin tx[t].past /\ sOwner[s] = p /\ sTarget[s] \in {None, d}
      /\ ~HasActivePassengerRide(p)
  BY <1>1 DEF TxInv, Known, Accepting
<1>3. /\ CountActiveRides(d) < MaxActive /\ (CountActiveRides(d) + 1 >= MaxActive => tx[t].full)
      /\ tx[t].full \in BOOLEAN
  BY <1>1 DEF TxInv, Known, Accepting, TxType, TxRecord
<1>4. /\ \A e \in Driver \ {d} : oStatus[s][e] = "pending" => <<s, e>> \in tx[t].rejecting
      /\ tx[t].full => \A y \in Session \ {s} : oStatus[y][d] = "pending" => <<y, d>> \in tx[t].rejecting
      /\ \A y \in Session, e \in Driver : <<y, e>> \in tx[t].rejecting =>
           (y = s /\ e # d) \/ (y # s /\ e = d /\ tx[t].full)
  BY <1>1, <1>2 DEF TxInv, Known, Accepting
<1>5. d \in online /\ sStatus[s] = "open" /\ sClock[s] # "after" /\ oStatus[s][d] = "pending"
  BY <1>1, <1>2 DEF TxInv, Known, LocksHold, PastRight, InProgress
<1>6. /\ oStatus' \in [Session -> [Driver -> OfferStatus]] /\ oStatus'[s][d] = "accepted"
      /\ \A y \in Session, e \in Driver : y # s \/ e # d => oStatus'[y][e] = Rejected(t)[y][e]
  <2>1. Rejected(t) \in [Session -> [Driver -> OfferStatus]] /\ "accepted" \in OfferStatus
    BY <1>2, RejectedRows DEF OfferStatus
  <2> QED
    BY <1>1, <1>2, <2>1
<1>7. ASSUME NEW y \in Session, NEW e \in Driver
      PROVE  /\ <<y, e>> \in tx[t].rejecting =>
                  /\ oStatus'[y][e] = "rejected" /\ oStatus[y][e] = "pending"
                  /\ OfferRow(y, e) \in tx[t].locks
             /\ <<y, e>> \notin tx[t].rejecting => (y = s /\ e = d) \/ oStatus'[y][e] = oStatus[y][e]
  <2>1. /\ <<y, e>> \in tx[t].rejecting =>
             /\ Rejected(t)[y][e] = "rejected" /\ oStatus[y][e] = "pending"
             /\ OfferRow(y, e) \in tx[t].locks
        /\ <<y, e>> \notin tx[t].rejecting => Rejected(t)[y][e] = oStatus[y][e]
    BY RejectedRows
  <2>2. y # s \/ e # d => oStatus'[y][e] = Rejected(t)[y][e]
    BY <1>6
  <2>3. <<y, e>> \in tx[t].rejecting => y # s \/ e # d
    BY <1>4
  <2> QED
    BY <2>1, <2>2, <2>3
<1>8. Next
  <2>1. oStatus' = [x \in Session |-> [e \in Driver |->
           IF x = s /\ e = d THEN "accepted"
           ELSE IF oStatus[x][e] = "pending" /\ (x = s \/ (e = d /\ tx[t].full)) THEN "rejected"
           ELSE oStatus[x][e]]]
    <3> PICK full : full = tx[t].full
      OBVIOUS
    <3> DEFINE W == [x \in Session |-> [e \in Driver |->
           IF x = s /\ e = d THEN "accepted"
           ELSE IF oStatus[x][e] = "pending" /\ (x = s \/ (e = d /\ full)) THEN "rejected"
           ELSE oStatus[x][e]]]
    <3>1. ASSUME NEW x \in Session, NEW e \in Driver PROVE oStatus'[x][e] = W[x][e]
      <4>1. CASE x = s /\ e = d
        BY <1>6, <4>1
      <4>2. CASE <<x, e>> \in tx[t].rejecting
        BY <1>4, <1>7, <4>2
      <4>3. CASE ~(x = s /\ e = d) /\ <<x, e>> \notin tx[t].rejecting
        <5>1. oStatus'[x][e] = oStatus[x][e]
          BY <1>7, <4>3
        <5>2. ~(oStatus[x][e] = "pending" /\ (x = s \/ (e = d /\ full)))
          BY <1>4, <4>3
        <5> QED
          BY <4>3, <5>1, <5>2
      <4> QED
        BY <4>1, <4>2, <4>3
    <3>2. W \in [Session -> [Driver -> OfferStatus]]
      BY DEF TxInv, TypeOK, OfferStatus
    <3> HIDE DEF W
    <3>3. ASSUME NEW x \in Session PROVE oStatus'[x] = W[x]
      BY <1>6, <3>1, <3>2
    <3>4. oStatus' = W
      BY <1>6, <3>2, <3>3
    <3> QED
      BY <3>4 DEF W
  <2>2. AcceptOffer(s, d, r)
    BY <1>1, <1>2, <1>3, <1>5, <2>1 DEF AcceptOffer, ReadsUnexpired
  <2> QED
    BY <1>2, <2>2 DEF Next
<1>9. NewIsBefore'
  BY <1>1, <1>2 DEF TxInv, NewIsBefore, TypeOK
<1>10. ASSUME NEW u \in Tx \ {t} PROVE Keeps(u)
  <2>0. /\ Known(u) /\ UserRow(p) \notin tx[u].locks
        /\ DriverRow(d) \notin tx[u].locks /\ SessionRow(s) \notin tx[u].locks
        /\ OfferRow(s, d) \notin tx[u].locks
    BY <1>1, <1>2, OnlyHolder DEF TxInv, Free
  <2>1. \A q : q # p /\ HasActivePassengerRide(q)' => HasActivePassengerRide(q)
    BY <1>1, <1>2 DEF HasActivePassengerRide, TxInv, TypeOK
  <2>2. \A y \in Session, e \in Driver : oStatus'[y][e] = "pending" => oStatus[y][e] = "pending"
    BY <1>6, <1>7
  <2>3. KeepsSessions(u)
    <3> SUFFICES ASSUME NEW y \in Session, SessionRow(y) \in tx[u].locks
                 PROVE  /\ sStatus'[y] = sStatus[y]
                        /\ \A q \in Passenger :
                             sOwner[y] = q /\ HasActivePassengerRide(q)' => HasActivePassengerRide(q)
      BY <2>2 DEF KeepsSessions
    <3>1. y # s /\ sStatus[y] = "open"
      BY <2>0 DEF Known, LocksHold
    <3>2. sOwner[y] # p
      BY <1>2, <1>5, <3>1, OneOpenSession
    <3> QED
      BY <1>1, <2>1, <3>1, <3>2 DEF TxInv, TypeOK
  <2>4. KeepsOffers(u)
    <3> SUFFICES ASSUME NEW y \in Session, NEW e \in Driver, OfferRow(y, e) \in tx[u].locks
                 PROVE  oStatus'[y][e] = oStatus[y][e]
      BY DEF KeepsOffers
    <3>1. OfferRow(y, e) \notin tx[t].locks
      BY OnlyHolder
    <3> QED
      BY <1>2, <1>7, <3>1
  <2>5. KeepsDrivers(u)
    <3> SUFFICES ASSUME NEW e \in Driver, DriverRow(e) \in tx[u].locks
                 PROVE  CountActiveRides(e)' <= CountActiveRides(e)
      BY <1>1, <2>2 DEF KeepsDrivers
    <3>1. e # d
      BY <2>0
    <3>2. ActiveRides(e)' \subseteq ActiveRides(e)
      BY <1>1, <1>2, <3>1 DEF ActiveRides, TxInv, TypeOK
    <3> QED
      BY <3>2, CountMonotone
  <2>6. KeepsRides(u)
    BY <1>1, <2>0 DEF KeepsRides, Known, LocksHold, TxInv, TypeOK
  <2>7. KeepsUsers(u)
    <3>1. \A q : OpenSessions(q)' \subseteq OpenSessions(q)
      BY <1>1, <1>2 DEF OpenSessions, TxInv, TypeOK
    <3> QED
      BY <2>0, <2>1, <3>1 DEF KeepsUsers
  <2>8. KeepsHistory(u)
    BY <1>1, <1>2 DEF KeepsHistory, TxInv, TypeOK, NewIsBefore
  <2> QED
    BY <2>3, <2>4, <2>5, <2>6, <2>7, <2>8 DEF Keeps
<1> QED
  BY <1>1, <1>8, <1>9, <1>10, CommitDone

\* A passenger has one open session at most, so no statement closes two.
LEMMA ClosingOne ==
  ASSUME TxInv, NEW t \in Tx, tx[t].p \in Passenger
  PROVE  /\ tx[t].closing \subseteq OpenSessions(tx[t].p)
         /\ \A x, y \in tx[t].closing : x = y
<1>1. \A x \in tx[t].closing : x \in Session /\ SessionRow(x) \in tx[t].locks /\ sOwner[x] = tx[t].p
  BY DEF TxInv, TxType, TxRecord, Known, WritesLocked
<1>2. \A x \in tx[t].closing : sStatus[x] = "open"
  BY <1>1 DEF TxInv, Known, LocksHold
<1> QED
  BY <1>1, <1>2, OneOpenSession DEF OpenSessions

\* The offers that t has rejected are the pending ones on its session, but for those it missed.
LEMMA RejectedMatches ==
  ASSUME TxInv, NEW t \in Tx, NEW ss \in SUBSET Session, \A x, y \in ss : x = y,
         \A s \in Session, d \in Driver : <<s, d>> \in tx[t].rejecting => s \in ss
  PROVE  \E missed \in SUBSET Driver : Rejected(t) = RejectPending(ss, missed)
<1> DEFINE missed == {d \in Driver : \A x \in ss : <<x, d>> \notin tx[t].rejecting}
           W == RejectPending(ss, missed)
<1>1. ASSUME NEW s \in Session, NEW d \in Driver PROVE Rejected(t)[s][d] = W[s][d]
  <2>1. CASE <<s, d>> \in tx[t].rejecting
    <3>1. Rejected(t)[s][d] = "rejected" /\ oStatus[s][d] = "pending"
      BY <2>1, RejectedRows
    <3>2. s \in ss /\ d \notin missed
      BY <2>1
    <3> QED
      BY <3>1, <3>2 DEF RejectPending
  <2>2. CASE <<s, d>> \notin tx[t].rejecting
    <3>1. Rejected(t)[s][d] = oStatus[s][d]
      BY <2>2, RejectedRows
    <3>2. s \in ss => d \in missed
      BY <2>2
    <3> QED
      BY <3>1, <3>2 DEF RejectPending
  <2> QED
    BY <2>1, <2>2
<1>2. W \in [Session -> [Driver -> OfferStatus]]
  BY DEF RejectPending, TxInv, TypeOK, OfferStatus
<1>3. Rejected(t) \in [Session -> [Driver -> OfferStatus]]
  BY DEF Rejected, TxInv, TypeOK, OfferStatus
<1> HIDE DEF W
<1>4. \A s \in Session : Rejected(t)[s] = W[s]
  BY <1>1, <1>2, <1>3
<1>5. Rejected(t) = W
  BY <1>2, <1>3, <1>4
<1>6. missed \in SUBSET Driver
  OBVIOUS
<1> QED
  BY <1>5, <1>6 DEF W

\* A statement that closed what was due at t's clock reading closed what Bidding lets it close.
LEMMA ClosingExpirable ==
  ASSUME TxInv, NEW t \in Tx, InProgress(t), tx[t].p \in Passenger, tx[t].closing \subseteq tx[t].past,
         OpenSessions(tx[t].p) \cap tx[t].past \subseteq tx[t].closing
  PROVE  tx[t].closing \in Expirable(tx[t].p)
<1>1. tx[t].closing \subseteq OpenSessions(tx[t].p)
  BY ClosingOne
<1>2. \A s \in Session : (s \in tx[t].past => sClock[s] # "before") /\ (sClock[s] = "after" => s \in tx[t].past)
  BY DEF TxInv, Known, PastRight
<1> QED
  BY <1>1, <1>2 DEF Expirable, OpenSessions, ReadsExpired, ReadsUnexpired

\* What a commit that closes sessions and rejects offers leaves to the others.
LEMMA ClosingKeeps ==
  ASSUME TxInv, NEW t \in Tx, NEW u \in Tx, u # t, NEW status \in {"expired", "cancelled"},
         \A s \in Session : sStatus[s] # "absent" =>
            sStatus'[s] = Closed(t, status)[s] /\ sOwner'[s] = sOwner[s] /\ sTarget'[s] = sTarget[s],
         oStatus' = Rejected(t), UNCHANGED sClock
  PROVE  /\ KeepsOffers(u) /\ KeepsHistory(u)
         /\ \A s \in Session : SessionRow(s) \in tx[u].locks => sStatus'[s] = sStatus[s]
         /\ \A s \in Session, d \in Driver : oStatus'[s][d] = "pending" => oStatus[s][d] = "pending"
<1>1. \A s \in tx[t].closing : SessionRow(s) \in tx[t].locks /\ sStatus[s] = "open" /\ s \in Session
  BY DEF TxInv, TxType, TxRecord, Known, WritesLocked, LocksHold
<1>2. \A s \in Session : Closed(t, status)[s] = IF s \in tx[t].closing THEN status ELSE sStatus[s]
  BY DEF Closed
<1>3. ASSUME NEW s \in Session, NEW d \in Driver
      PROVE  /\ oStatus'[s][d] = "pending" => oStatus[s][d] = "pending"
             /\ OfferRow(s, d) \in tx[u].locks => oStatus'[s][d] = oStatus[s][d]
  BY RejectedRows, OnlyHolder
<1>4. KeepsOffers(u)
  BY <1>3 DEF KeepsOffers
<1>5. KeepsHistory(u)
  BY <1>1, <1>2 DEF KeepsHistory, TxInv, NewIsBefore
<1>6. ASSUME NEW s \in Session, SessionRow(s) \in tx[u].locks PROVE sStatus'[s] = sStatus[s]
  <2>1. s \notin tx[t].closing
    BY <1>1, <1>6, OnlyHolder
  <2>2. sStatus[s] = "open"
    BY <1>6 DEF TxInv, Known, LocksHold
  <2> QED
    BY <1>2, <2>1, <2>2
<1> QED
  BY <1>3, <1>4, <1>5, <1>6

\* Of the same rides the same driver has as many.
LEMMA SameRides ==
  ASSUME UNCHANGED <<rStatus, rOwner, rDriver>>
  PROVE  /\ \A d : CountActiveRides(d)' <= CountActiveRides(d)
         /\ \A p : HasActivePassengerRide(p)' <=> HasActivePassengerRide(p)
<1>1. \A d : ActiveRides(d)' \subseteq ActiveRides(d)
  BY DEF ActiveRides
<1> QED
  BY <1>1, CountMonotone DEF HasActivePassengerRide

\* CancelBidSession commits.
LEMMA CommitCancelStep ==
  ASSUME TxInv, NEW t \in Tx, CommitCancel(t)
  PROVE  TxInv' /\ Next
<1> PICK s, p : s = tx[t].s /\ p = tx[t].p
  OBVIOUS
<1>1. /\ tx[t].op = "CancelSession" /\ tx[t].pc = "commit" /\ tx[t].todo = {}
      /\ sStatus' = Closed(t, "cancelled") /\ oStatus' = Rejected(t) /\ Set(t, Done)
      /\ UNCHANGED <<sOwner, sTarget, sDriver, sClock, rStatus, rOwner, rDriver, rSession, online>>
  BY DEF CommitCancel, Committing, rideVars
<1>2. /\ p \in Passenger /\ s \in Session /\ sStatus[s] # "absent" /\ tx[t].closing \subseteq {s}
      /\ \A y \in Session, d \in Driver : <<y, d>> \in tx[t].rejecting => y = s
      /\ sStatus[s] = "open" /\ sOwner[s] = p => s \in tx[t].closing
  BY <1>1 DEF TxInv, Known, Cancelling
<1>3. Next
  <2>1. \E missed \in SUBSET Driver : oStatus' = RejectPending({s}, missed)
    BY <1>1, <1>2, RejectedMatches
  <2>2. s \in tx[t].closing => sStatus[s] = "open" /\ sOwner[s] = p
    BY <1>2, ClosingOne DEF OpenSessions
  <2>3. sStatus' = IF sOwner[s] = p /\ sStatus[s] = "open"
                   THEN [sStatus EXCEPT ![s] = "cancelled"] ELSE sStatus
    BY <1>1, <1>2, <2>2 DEF Closed, TxInv, TypeOK
  <2>4. CancelBidSession(p, s)
    BY <1>1, <1>2, <2>1, <2>3 DEF CancelBidSession, rideVars
  <2> QED
    BY <1>2, <2>4 DEF Next
<1>4. NewIsBefore'
  BY <1>1 DEF Closed, TxInv, NewIsBefore
<1>5. ASSUME NEW u \in Tx \ {t} PROVE Keeps(u)
  <2>1. /\ KeepsOffers(u) /\ KeepsHistory(u)
        /\ \A y \in Session : SessionRow(y) \in tx[u].locks => sStatus'[y] = sStatus[y]
        /\ \A y \in Session, d \in Driver : oStatus'[y][d] = "pending" => oStatus[y][d] = "pending"
    BY <1>1, ClosingKeeps
  <2>2. /\ \A d : CountActiveRides(d)' <= CountActiveRides(d)
        /\ \A q : HasActivePassengerRide(q)' <=> HasActivePassengerRide(q)
    BY <1>1, SameRides
  <2>3. \A q : OpenSessions(q)' \subseteq OpenSessions(q)
    BY <1>1 DEF OpenSessions, Closed
  <2>4. KeepsSessions(u) /\ KeepsDrivers(u) /\ KeepsRides(u) /\ KeepsUsers(u)
    BY <1>1, <2>1, <2>2, <2>3 DEF KeepsSessions, KeepsDrivers, KeepsRides, KeepsUsers
  <2> QED
    BY <2>1, <2>4 DEF Keeps
<1> QED
  BY <1>1, <1>3, <1>4, <1>5, CommitDone

\* The state of t when CancelBidSession starts, by the rows as they are then.
CancelBegun(t, p, s, past) ==
  /\ tx'[t].op = "CancelSession" /\ tx'[t].pc = "cancel" /\ tx'[t].p = p /\ tx'[t].s = s
  /\ tx'[t].past = past /\ tx'[t].locks = {} /\ tx'[t].closing = {} /\ tx'[t].rejecting = {}
  /\ tx'[t].todo = IF sStatus'[s] = "open" /\ sOwner'[s] = p THEN {SessionRow(s)} ELSE {}
  /\ \A row \in tx'[t].snap : \E d \in Driver : row = OfferRow(s, d)
  /\ TxType' /\ \A u \in Tx \ {t} : tx'[u] = tx[u]

LEMMA CancelStarts ==
  ASSUME TxType, NEW t \in Tx, NEW p \in Passenger, NEW s \in Session, NEW past \in SUBSET Session,
         UNCHANGED sOwner,
         Set(t, [Idle EXCEPT !.op = "CancelSession", !.p = p, !.s = s, !.past = past, !.pc = "cancel",
                   !.todo = IF sStatus'[s] = "open" /\ sOwner[s] = p THEN {SessionRow(s)} ELSE {},
                   !.snap = {OfferRow(s, d) : d \in {d \in Driver : oStatus'[s][d] = "pending"}}])
  PROVE  CancelBegun(t, p, s, past)
<1> PICK snap : snap = {OfferRow(s, d) : d \in {d \in Driver : oStatus'[s][d] = "pending"}}
  OBVIOUS
<1> PICK todo : todo = IF sStatus'[s] = "open" /\ sOwner[s] = p THEN {SessionRow(s)} ELSE {}
  OBVIOUS
<1>1. \A row \in snap : \E d \in Driver : row = OfferRow(s, d)
  OBVIOUS
<1>2. snap \subseteq Rows /\ todo \subseteq Rows
  BY <1>1, RowTypes
<1> PICK y : y = [Idle EXCEPT !.op = "CancelSession", !.p = p, !.s = s, !.past = past, !.pc = "cancel",
                              !.todo = todo, !.snap = snap]
  OBVIOUS
<1>3. y \in TxRecord
  BY <1>2 DEF Idle, TxRecord, Statements
<1>4. /\ y.op = "CancelSession" /\ y.pc = "cancel" /\ y.p = p /\ y.s = s /\ y.past = past /\ y.locks = {}
      /\ y.closing = {} /\ y.rejecting = {} /\ y.todo = todo /\ y.snap = snap
  BY DEF Idle
<1>5. tx'[t] = y /\ (\A u \in Tx \ {t} : tx'[u] = tx[u]) /\ TxType'
  BY <1>3 DEF Set, TxType
<1> QED
  BY <1>1, <1>4, <1>5 DEF CancelBegun

\* ExpireBidSessions of a cancellation commits.
LEMMA CommitExpireStep ==
  ASSUME TxInv, NEW t \in Tx, CommitExpire(t)
  PROVE  TxInv' /\ Next
<1> PICK s, p, past : s = tx[t].s /\ p = tx[t].p /\ past = tx[t].past
  OBVIOUS
<1>1. /\ tx[t].op = "CancelSession" /\ tx[t].pc = "expireOffers" /\ tx[t].todo = {}
      /\ sStatus' = Closed(t, "expired") /\ oStatus' = Rejected(t)
      /\ UNCHANGED <<sOwner, sTarget, sDriver, sClock, rStatus, rOwner, rDriver, rSession, online>>
  BY DEF CommitExpire, rideVars
<1>2. /\ p \in Passenger /\ s \in Session /\ sStatus[s] # "absent" /\ past \subseteq Session
      /\ tx[t].closing \subseteq past /\ OpenSessions(p) \cap past \subseteq tx[t].closing
      /\ \A y \in Session, d \in Driver : <<y, d>> \in tx[t].rejecting => y \in tx[t].closing
      /\ TxType /\ InProgress(t) /\ tx[t].closing \in SUBSET Session
  BY <1>1 DEF TxInv, TxType, TxRecord, Known, Cancelling, Expiring, InProgress
<1>3. CancelBegun(t, p, s, past)
  <2>1. Set(t, [Idle EXCEPT !.op = "CancelSession", !.p = p, !.s = s, !.past = past, !.pc = "cancel",
                  !.todo = IF sStatus'[s] = "open" /\ sOwner[s] = p THEN {SessionRow(s)} ELSE {},
                  !.snap = {OfferRow(s, d) : d \in {d \in Driver : oStatus'[s][d] = "pending"}}])
    BY DEF CommitExpire
  <2> QED
    BY <1>1, <1>2, <2>1, CancelStarts
<1>4. ExpireBidSessions(p)
  <2>1. tx[t].closing \in Expirable(p)
    BY <1>2, ClosingExpirable
  <2>2. \E missed \in SUBSET Driver : oStatus' = RejectPending(tx[t].closing, missed)
    BY <1>1, <1>2, ClosingOne, RejectedMatches
  <2>3. sStatus' = [x \in Session |-> IF x \in tx[t].closing THEN "expired" ELSE sStatus[x]]
    BY <1>1 DEF Closed
  <2> QED
    BY <1>1, <2>1, <2>2, <2>3 DEF ExpireBidSessions, rideVars
<1>5. Next
  BY <1>2, <1>4 DEF Next
<1>6. NewIsBefore'
  BY <1>1 DEF Closed, TxInv, NewIsBefore
<1>7. ASSUME NEW u \in Tx \ {t} PROVE Keeps(u)
  <2>1. /\ KeepsOffers(u) /\ KeepsHistory(u)
        /\ \A y \in Session : SessionRow(y) \in tx[u].locks => sStatus'[y] = sStatus[y]
        /\ \A y \in Session, d \in Driver : oStatus'[y][d] = "pending" => oStatus[y][d] = "pending"
    BY <1>1, ClosingKeeps
  <2>2. /\ \A d : CountActiveRides(d)' <= CountActiveRides(d)
        /\ \A q : HasActivePassengerRide(q)' <=> HasActivePassengerRide(q)
    BY <1>1, SameRides
  <2>3. \A q : OpenSessions(q)' \subseteq OpenSessions(q)
    BY <1>1 DEF OpenSessions, Closed
  <2>4. KeepsSessions(u) /\ KeepsDrivers(u) /\ KeepsRides(u) /\ KeepsUsers(u)
    BY <1>1, <2>1, <2>2, <2>3 DEF KeepsSessions, KeepsDrivers, KeepsRides, KeepsUsers
  <2> QED
    BY <2>1, <2>4 DEF Keeps
<1>8. Known(t)'
  <2>1. /\ tx'[t].op = "CancelSession" /\ tx'[t].pc = "cancel" /\ tx'[t].p = p /\ tx'[t].s = s
        /\ tx'[t].past = past /\ tx'[t].locks = {} /\ tx'[t].closing = {} /\ tx'[t].rejecting = {}
        /\ tx'[t].todo = IF sStatus'[s] = "open" /\ sOwner'[s] = p THEN {SessionRow(s)} ELSE {}
        /\ \A row \in tx'[t].snap : \E d \in Driver : row = OfferRow(s, d)
    BY <1>3 DEF CancelBegun
  <2>2. PastRight(t)'
    <3>1. \A y \in Session : (y \in past => sClock[y] # "before") /\ (sClock[y] = "after" => y \in past)
      BY <1>2 DEF TxInv, Known, PastRight
    <3> QED
      BY <1>1, <2>1, <3>1 DEF PastRight
  <2>3. sStatus'[s] # "absent"
    BY <1>1, <1>2 DEF Closed
  <2>4. Cancelling(t)'
    BY <1>2, <2>1, <2>3 DEF Cancelling
  <2> QED
    BY <2>1, <2>2, <2>4
       DEF Known, LocksHold, WritesLocked, Outside, Accepting, Placing, AcceptingRide, Expiring, Creating
<1>9. tx'[t].locks = {} /\ TxType' /\ \A u \in Tx \ {t} : tx'[u] = tx[u]
  BY <1>3 DEF CancelBegun
<1> QED
  BY <1>5, <1>6, <1>7, <1>8, <1>9, CommitStep

\* A new booking: what t has closed is all the passenger had.
LEMMA BookingMatches ==
  ASSUME TxInv, NEW t \in Tx, tx[t].op \in {"CreateSession", "CreateRide"}, tx[t].pc = "commit"
  PROVE  /\ tx[t].p \in Passenger /\ UserRow(tx[t].p) \in tx[t].locks
         /\ ~HasActivePassengerRide(tx[t].p)
         /\ tx[t].closing = OpenSessions(tx[t].p)
         /\ tx[t].closing \in Expirable(tx[t].p)
         /\ \E missed \in SUBSET Driver : Rejected(t) = RejectPending(tx[t].closing, missed)
<1>1. /\ tx[t].p \in Passenger /\ UserRow(tx[t].p) \in tx[t].locks
      /\ ~HasActivePassengerRide(tx[t].p)
      /\ tx[t].closing \subseteq tx[t].past /\ OpenSessions(tx[t].p) \subseteq tx[t].closing
      /\ \A s \in Session, d \in Driver : <<s, d>> \in tx[t].rejecting => s \in tx[t].closing
      /\ InProgress(t) /\ tx[t].closing \in SUBSET Session
  BY DEF TxInv, TxType, TxRecord, Known, Creating, InProgress
<1>2. tx[t].closing \in Expirable(tx[t].p)
  BY <1>1, ClosingExpirable
<1>3. tx[t].closing \subseteq OpenSessions(tx[t].p) /\ \A x, y \in tx[t].closing : x = y
  BY <1>1, ClosingOne
<1>4. \E missed \in SUBSET Driver : Rejected(t) = RejectPending(tx[t].closing, missed)
  BY <1>1, <1>3, RejectedMatches
<1> QED
  BY <1>1, <1>2, <1>3, <1>4

\* CreateSession commits.
LEMMA CommitCreateSessionStep ==
  ASSUME TxInv, NEW t \in Tx, CommitCreateSession(t)
  PROVE  TxInv' /\ Next
<1> PICK p, d, closing : p = tx[t].p /\ d = tx[t].d /\ closing = tx[t].closing
  OBVIOUS
<1>1. PICK s \in Session :
        /\ tx[t].op = "CreateSession" /\ tx[t].pc = "commit"
        /\ sStatus[s] = "absent"
        /\ sStatus' = [Closed(t, "expired") EXCEPT ![s] = "open"]
        /\ sOwner'  = [sOwner EXCEPT ![s] = p]
        /\ sTarget' = [sTarget EXCEPT ![s] = d]
        /\ oStatus' = Rejected(t) /\ Set(t, Done)
        /\ UNCHANGED <<sDriver, sClock, rStatus, rOwner, rDriver, rSession, online>>
  BY DEF CommitCreateSession, Committing, rideVars
<1>2. /\ p \in Passenger /\ UserRow(p) \in tx[t].locks /\ ~HasActivePassengerRide(p)
      /\ closing = OpenSessions(p) /\ closing \in Expirable(p) /\ d \in Driver \cup {None}
      /\ \E missed \in SUBSET Driver : oStatus' = RejectPending(closing, missed)
  BY <1>1, BookingMatches DEF TxInv, TxType, TxRecord
<1>3. sStatus' = [x \in Session |-> IF x = s THEN "open" ELSE IF x \in closing THEN "expired" ELSE sStatus[x]]
  BY <1>1 DEF Closed
<1>4. Next
  <2>1. CreateSession(p, s, d)
    BY <1>1, <1>2, <1>3 DEF CreateSession, rideVars
  <2> QED
    BY <1>2, <2>1 DEF Next
<1>5. NewIsBefore'
  BY <1>1, <1>3 DEF TxInv, NewIsBefore
<1>6. ASSUME NEW u \in Tx \ {t} PROVE Keeps(u)
  <2>0. UserRow(p) \notin tx[u].locks /\ Known(u)
    BY <1>2, OnlyHolder DEF TxInv
  <2>1. \A y \in Session : sStatus[y] # "absent" =>
          sStatus'[y] = Closed(t, "expired")[y] /\ sOwner'[y] = sOwner[y] /\ sTarget'[y] = sTarget[y]
    BY <1>1, <1>3 DEF Closed, TxInv, TypeOK
  <2>2. /\ KeepsOffers(u) /\ KeepsHistory(u)
        /\ \A y \in Session : SessionRow(y) \in tx[u].locks => sStatus'[y] = sStatus[y]
        /\ \A y \in Session, e \in Driver : oStatus'[y][e] = "pending" => oStatus[y][e] = "pending"
    BY <1>1, <2>1, ClosingKeeps
  <2>3. /\ \A e : CountActiveRides(e)' <= CountActiveRides(e)
        /\ \A q : HasActivePassengerRide(q)' <=> HasActivePassengerRide(q)
    BY <1>1, SameRides
  <2>4. \A q \in Passenger : q # p => OpenSessions(q)' \subseteq OpenSessions(q)
    BY <1>1, <1>3 DEF OpenSessions, TxInv, TypeOK
  <2>5. KeepsSessions(u) /\ KeepsDrivers(u) /\ KeepsRides(u) /\ KeepsUsers(u)
    BY <1>1, <2>0, <2>2, <2>3, <2>4 DEF KeepsSessions, KeepsDrivers, KeepsRides, KeepsUsers
  <2> QED
    BY <2>2, <2>5 DEF Keeps
<1> QED
  BY <1>1, <1>4, <1>5, <1>6, CommitDone

\* CreateRide commits.
LEMMA CommitCreateRideStep ==
  ASSUME TxInv, NEW t \in Tx, CommitCreateRide(t)
  PROVE  TxInv' /\ Next
<1> PICK p, closing : p = tx[t].p /\ closing = tx[t].closing
  OBVIOUS
<1>1. PICK r \in Ride :
        /\ tx[t].op = "CreateRide" /\ tx[t].pc = "commit"
        /\ rStatus[r] = "absent"
        /\ rStatus' = [rStatus EXCEPT ![r] = "requested"]
        /\ rOwner'  = [rOwner EXCEPT ![r] = p]
        /\ sStatus' = Closed(t, "expired") /\ oStatus' = Rejected(t) /\ Set(t, Done)
        /\ UNCHANGED <<sOwner, sTarget, sDriver, sClock, rDriver, rSession, online>>
  BY DEF CommitCreateRide, Committing
<1>2. /\ p \in Passenger /\ UserRow(p) \in tx[t].locks /\ ~HasActivePassengerRide(p)
      /\ closing = OpenSessions(p) /\ closing \in Expirable(p)
      /\ \E missed \in SUBSET Driver : oStatus' = RejectPending(closing, missed)
  BY <1>1, BookingMatches
<1>3. sStatus' = [x \in Session |-> IF x \in closing THEN "expired" ELSE sStatus[x]]
  BY <1>1 DEF Closed
<1>4. Next
  <2>1. CreateRide(p, r)
    BY <1>1, <1>2, <1>3 DEF CreateRide
  <2> QED
    BY <1>2, <2>1 DEF Next
<1>5. NewIsBefore'
  BY <1>1, <1>3 DEF TxInv, NewIsBefore
<1>6. ASSUME NEW u \in Tx \ {t} PROVE Keeps(u)
  <2>0. UserRow(p) \notin tx[u].locks /\ Known(u)
    BY <1>2, OnlyHolder DEF TxInv
  <2>1. /\ KeepsOffers(u) /\ KeepsHistory(u)
        /\ \A y \in Session : SessionRow(y) \in tx[u].locks => sStatus'[y] = sStatus[y]
        /\ \A y \in Session, e \in Driver : oStatus'[y][e] = "pending" => oStatus[y][e] = "pending"
    BY <1>1, ClosingKeeps
  <2>2. \A e : CountActiveRides(e)' <= CountActiveRides(e)
    <3>1. \A e : ActiveRides(e)' \subseteq ActiveRides(e)
      BY <1>1 DEF ActiveRides, TxInv, TypeOK
    <3> QED
      BY <3>1, CountMonotone
  <2>3. \A q : q # p /\ HasActivePassengerRide(q)' => HasActivePassengerRide(q)
    BY <1>1 DEF HasActivePassengerRide, TxInv, TypeOK
  <2>4. \A q : OpenSessions(q)' \subseteq OpenSessions(q)
    BY <1>1, <1>3 DEF OpenSessions
  <2>5. \A y \in Session : SessionRow(y) \in tx[u].locks => sOwner[y] # p
    <3> SUFFICES ASSUME NEW y \in Session, SessionRow(y) \in tx[u].locks, sOwner[y] = p PROVE FALSE
      OBVIOUS
    <3>1. y \in closing
      BY <1>2, <2>0 DEF Known, LocksHold, OpenSessions
    <3>2. SessionRow(y) \in tx[t].locks
      BY <3>1 DEF TxInv, Known, WritesLocked
    <3> QED
      BY <3>2, OnlyHolder
  <2>6. KeepsSessions(u)
    BY <2>1, <2>3, <2>5 DEF KeepsSessions
  <2>7. KeepsDrivers(u) /\ KeepsUsers(u)
    BY <1>1, <2>0, <2>1, <2>2, <2>3, <2>4 DEF KeepsDrivers, KeepsUsers
  <2>8. KeepsRides(u)
    BY <1>1, <2>0 DEF KeepsRides, Known, LocksHold, TxInv, TypeOK
  <2> QED
    BY <2>1, <2>6, <2>7, <2>8 DEF Keeps
<1> QED
  BY <1>1, <1>4, <1>5, <1>6, CommitDone

----------------------------------------------------------------------------
(* BiddingTx implements Bidding *)

\* The single-row statements and the clock are steps of Bidding, and leave locked rows alone.
LEMMA OthersStep ==
  ASSUME TxInv, Others
  PROVE  TxInv' /\ Next
<1>1. UNCHANGED tx /\ TxType' /\ RowsExclusive'
  BY DEF Others, TxInv, TxType, RowsExclusive
<1> DEFINE Goal == Next /\ NewIsBefore' /\ \A t \in Tx : Keeps(t)
<1>2. ASSUME NEW d \in Driver, NEW s \in Session, CancelOffer(d, s),
             \A t \in Tx : OfferRow(s, d) \notin tx[t].locks
      PROVE  Goal
  <2>1. /\ Next /\ oStatus' = [oStatus EXCEPT ![s][d] = "rejected"]
        /\ UNCHANGED <<sStatus, sOwner, sTarget, sDriver, sClock, rStatus, rOwner, rDriver, rSession, online>>
    BY <1>2 DEF Next, CancelOffer, sessionVars, rideVars
  <2>2. \A y \in Session, e \in Driver :
          /\ oStatus'[y][e] = "pending" => oStatus[y][e] = "pending"
          /\ y # s \/ e # d => oStatus'[y][e] = oStatus[y][e]
    BY <2>1 DEF TxInv, TypeOK
  <2>3. /\ \A e : CountActiveRides(e)' <= CountActiveRides(e)
        /\ \A q : HasActivePassengerRide(q)' <=> HasActivePassengerRide(q)
        /\ \A q : OpenSessions(q)' = OpenSessions(q)
    BY <2>1, SameRides DEF OpenSessions
  <2>4. ASSUME NEW t \in Tx PROVE Keeps(t)
    <3>1. KeepsSessions(t) /\ KeepsDrivers(t) /\ KeepsRides(t) /\ KeepsUsers(t) /\ KeepsHistory(t)
      BY <2>1, <2>2, <2>3
         DEF KeepsSessions, KeepsDrivers, KeepsRides, KeepsUsers, KeepsHistory, TxInv, NewIsBefore
    <3>2. KeepsOffers(t)
      BY <1>2, <2>2 DEF KeepsOffers
    <3> QED
      BY <3>1, <3>2 DEF Keeps
  <2>5. NewIsBefore'
    BY <2>1 DEF TxInv, NewIsBefore
  <2> QED
    BY <2>1, <2>4, <2>5
<1>3. ASSUME NEW d \in Driver, NEW s \in Session, DeclineSession(d, s),
             \A t \in Tx : SessionRow(s) \notin tx[t].locks
      PROVE  Goal
  <2>1. /\ Next /\ sStatus' = [sStatus EXCEPT ![s] = "declined"] /\ sStatus[s] = "open"
        /\ UNCHANGED <<oStatus, sOwner, sTarget, sDriver, sClock, rStatus, rOwner, rDriver, rSession, online>>
    BY <1>3 DEF Next, DeclineSession, rideVars
  <2>2. \A y \in Session : /\ y # s => sStatus'[y] = sStatus[y]
                           /\ sStatus'[y] = "open" => sStatus[y] = "open"
                           /\ sStatus'[y] = "absent" <=> sStatus[y] = "absent"
    BY <2>1 DEF TxInv, TypeOK
  <2>3. /\ \A e : CountActiveRides(e)' <= CountActiveRides(e)
        /\ \A q : HasActivePassengerRide(q)' <=> HasActivePassengerRide(q)
        /\ \A q : OpenSessions(q)' \subseteq OpenSessions(q)
    BY <2>1, <2>2, SameRides DEF OpenSessions
  <2>4. ASSUME NEW t \in Tx PROVE Keeps(t)
    <3>1. KeepsOffers(t) /\ KeepsDrivers(t) /\ KeepsRides(t) /\ KeepsUsers(t) /\ KeepsHistory(t)
      BY <2>1, <2>2, <2>3
         DEF KeepsOffers, KeepsDrivers, KeepsRides, KeepsUsers, KeepsHistory, TxInv, NewIsBefore
    <3>2. KeepsSessions(t)
      BY <1>3, <2>1, <2>2, <2>3 DEF KeepsSessions
    <3> QED
      BY <3>1, <3>2 DEF Keeps
  <2>5. NewIsBefore'
    BY <2>1, <2>2 DEF TxInv, NewIsBefore
  <2> QED
    BY <2>1, <2>4, <2>5
<1>4. ASSUME NEW r \in Ride, EndRide(r), \A t \in Tx : RideRow(r) \notin tx[t].locks
      PROVE  Goal
  <2>1. /\ Next /\ rStatus' = [rStatus EXCEPT ![r] = "ended"]
        /\ UNCHANGED <<sStatus, sOwner, sTarget, sDriver, sClock, oStatus, rOwner, rDriver, rSession, online>>
        /\ rStatus[r] \in {"requested", "accepted"}
    BY <1>4 DEF Next, EndRide, sessionVars
  <2>2. \A e : CountActiveRides(e)' <= CountActiveRides(e)
    <3>1. \A e : ActiveRides(e)' \subseteq ActiveRides(e)
      BY <2>1 DEF ActiveRides, TxInv, TypeOK
    <3> QED
      BY <3>1, CountMonotone
  <2>3. /\ \A q : HasActivePassengerRide(q)' => HasActivePassengerRide(q)
        /\ \A q : OpenSessions(q)' = OpenSessions(q)
    BY <2>1 DEF HasActivePassengerRide, OpenSessions, TxInv, TypeOK
  <2>4. ASSUME NEW t \in Tx PROVE Keeps(t)
    <3>1. KeepsSessions(t) /\ KeepsOffers(t) /\ KeepsDrivers(t) /\ KeepsUsers(t) /\ KeepsHistory(t)
      BY <2>1, <2>2, <2>3
         DEF KeepsSessions, KeepsOffers, KeepsDrivers, KeepsUsers, KeepsHistory, TxInv, NewIsBefore
    <3>2. KeepsRides(t)
      BY <1>4, <2>1 DEF KeepsRides, TxInv, TypeOK
    <3> QED
      BY <3>1, <3>2 DEF Keeps
  <2>5. NewIsBefore'
    BY <2>1 DEF TxInv, NewIsBefore
  <2> QED
    BY <2>1, <2>4, <2>5
<1>5. ASSUME NEW d \in Driver, SetPresence(d), \A t \in Tx : DriverRow(d) \notin tx[t].locks
      PROVE  Goal
  <2>1. /\ Next /\ \A e \in Driver : e # d /\ e \in online => e \in online'
        /\ UNCHANGED <<sStatus, sOwner, sTarget, sDriver, sClock, oStatus, rStatus, rOwner, rDriver, rSession>>
    BY <1>5 DEF Next, SetPresence, sessionVars, rideVars
  <2>2. /\ \A e : CountActiveRides(e)' <= CountActiveRides(e)
        /\ \A q : HasActivePassengerRide(q)' <=> HasActivePassengerRide(q)
        /\ \A q : OpenSessions(q)' = OpenSessions(q)
    BY <2>1, SameRides DEF OpenSessions
  <2>3. ASSUME NEW t \in Tx PROVE Keeps(t)
    <3>1. KeepsSessions(t) /\ KeepsOffers(t) /\ KeepsRides(t) /\ KeepsUsers(t) /\ KeepsHistory(t)
      BY <2>1, <2>2
         DEF KeepsSessions, KeepsOffers, KeepsRides, KeepsUsers, KeepsHistory, TxInv, NewIsBefore
    <3>2. KeepsDrivers(t)
      BY <1>5, <2>1, <2>2 DEF KeepsDrivers
    <3> QED
      BY <3>1, <3>2 DEF Keeps
  <2>4. NewIsBefore'
    BY <2>1 DEF TxInv, NewIsBefore
  <2> QED
    BY <2>1, <2>3, <2>4
<1>6. ASSUME NEW s \in Session, PassDeadline(s),
             sClock'[s] = "after" =>
               \A t \in Tx : tx[t].pc \notin {"idle", "done", "user"} => s \in tx[t].past
      PROVE  Goal
  <2>1. /\ Next /\ sStatus[s] = "open"
        /\ sClock' = [sClock EXCEPT ![s] = IF @ = "before" THEN "around" ELSE "after"]
        /\ UNCHANGED <<sStatus, sOwner, sTarget, sDriver, oStatus, rStatus, rOwner, rDriver, rSession, online>>
    BY <1>6 DEF Next, PassDeadline, rideVars
  <2>2. /\ \A e : CountActiveRides(e)' <= CountActiveRides(e)
        /\ \A q : HasActivePassengerRide(q)' <=> HasActivePassengerRide(q)
        /\ \A q : OpenSessions(q)' = OpenSessions(q)
    BY <2>1, SameRides DEF OpenSessions
  <2>3. \A y \in Session : /\ y # s => sClock'[y] = sClock[y]
                           /\ sClock'[s] # "before"
    BY <2>1 DEF TxInv, TypeOK
  <2>4. ASSUME NEW t \in Tx PROVE Keeps(t)
    <3>1. KeepsSessions(t) /\ KeepsOffers(t) /\ KeepsDrivers(t) /\ KeepsRides(t) /\ KeepsUsers(t)
      BY <2>1, <2>2 DEF KeepsSessions, KeepsOffers, KeepsDrivers, KeepsRides, KeepsUsers
    <3>2. KeepsHistory(t)
      BY <1>6, <2>1, <2>3 DEF KeepsHistory, TxInv, NewIsBefore, InProgress
    <3> QED
      BY <3>1, <3>2 DEF Keeps
  <2>5. NewIsBefore'
    BY <2>1, <2>3 DEF TxInv, NewIsBefore
  <2> QED
    BY <2>1, <2>4, <2>5
<1>7. Goal
  BY <1>2, <1>3, <1>4, <1>5, <1>6 DEF Others
<1>8. TypeOK' /\ OneActiveBooking'
  BY <1>7, TypeStep, BookingStep DEF TxInv
<1>9. \A t \in Tx : Known(t)'
  BY <1>1, <1>7, <1>8, KnownKept
<1> QED
  BY <1>1, <1>7, <1>8, <1>9 DEF TxInv

\* Every step keeps the invariant, and is a step of Bidding or changes no row.
LEMMA TxStep == TxInv /\ [TxNext]_txVars => TxInv' /\ [Next]_vars
<1> SUFFICES ASSUME TxInv, [TxNext]_txVars PROVE TxInv' /\ [Next]_vars
  OBVIOUS
<1>1. CASE Others
  BY <1>1, OthersStep
<1>2. ASSUME NEW t \in Tx, Arrival(t) PROVE TxInv' /\ UNCHANGED vars
  BY <1>2, ArrivalStep
<1>3. ASSUME NEW t \in Tx, Step(t) PROVE TxInv' /\ [Next]_vars
  BY <1>3, LockUserStep, LockSessionStep, LockDriverStep, LockOfferStep, LockRideStep, UpdateRowStep,
     RivalsRejectedStep, OthersRejectedStep, SessionsClosedStep, CheckSessionsStep, CheckRidesStep,
     CommitAcceptOfferStep, CommitPlaceOfferStep, CommitCreateSessionStep, CommitCreateRideStep,
     CommitExpireStep, CommitCancelStep, CommitAcceptRideStep DEF Step
<1>4. ASSUME NEW t \in Tx, DetectDeadlock(t) \/ Abandon(t) PROVE TxInv' /\ UNCHANGED vars
  BY <1>4, FailStep DEF DetectDeadlock, Abandon
<1>5. CASE UNCHANGED txVars
  <2>1. UNCHANGED vars /\ UNCHANGED tx
    BY <1>5 DEF txVars
  <2>2. TxType' /\ RowsExclusive' /\ NewIsBefore' /\ TypeOK' /\ OneActiveBooking'
    BY <2>1, TypeStep, BookingStep, Unmoved DEF TxInv, TxType, RowsExclusive, NewIsBefore
  <2>3. \A t \in Tx : Known(t)'
    BY <2>1, <2>2, SameRows, KnownKept
  <2> QED
    BY <2>1, <2>2, <2>3 DEF TxInv
<1> QED
  BY <1>1, <1>2, <1>3, <1>4, <1>5 DEF TxNext

\* Before the first request nobody knows anything.
LEMMA TxStart == TxInit => TxInv
<1> SUFFICES ASSUME TxInit PROVE TxInv
  OBVIOUS
<1>1. Init /\ tx = [t \in Tx |-> Idle]
  BY DEF TxInit
<1>2. TypeOK /\ OneActiveBooking /\ NewIsBefore
  BY <1>1 DEF Init, TypeOK, SessionStatus, OfferStatus, RideStatus, Clock, OneActiveBooking,
              OpenSessions, HasActivePassengerRide, NewIsBefore
<1>3. /\ Idle \in TxRecord
      /\ Idle.op = "none" /\ Idle.pc = "idle" /\ Idle.locks = {} /\ Idle.todo = {} /\ Idle.closing = {}
      /\ Idle.rejecting = {}
  BY DEF Idle, TxRecord, Statements
<1>4. TxType /\ RowsExclusive
  BY <1>1, <1>3 DEF TxType, RowsExclusive
<1>5. ASSUME NEW t \in Tx PROVE Known(t)
  <2>1. /\ tx[t].op = "none" /\ tx[t].pc = "idle" /\ tx[t].locks = {} /\ tx[t].todo = {}
        /\ tx[t].closing = {} /\ tx[t].rejecting = {}
    BY <1>1, <1>3
  <2> QED
    BY <2>1 DEF Known, PastRight, InProgress, LocksHold, WritesLocked, Outside, Accepting, Placing,
                AcceptingRide, Expiring, Creating, Cancelling
<1> QED
  BY <1>2, <1>4, <1>5 DEF TxInv

\* The transactions with their row locks, snapshots, rechecks and commits do what the atomic
\* transactions of Bidding do: the stores' locking makes them serial.
THEOREM TxImplementsBidding == TxSpec => Spec
<1>1. TxInit => TxInv /\ Init
  BY TxStart DEF TxInit
<1>2. TxInv /\ [TxNext]_txVars => TxInv' /\ [Next]_vars
  BY TxStep
<1> QED
  BY <1>1, <1>2, PTL DEF TxSpec, Spec

\* The property the run checks, for every number of requests, users, sessions and rides.
THEOREM RefinesBiddingHolds == TxSpec => RefinesBidding
BY TxImplementsBidding, PTL DEF Spec, RefinesBidding

\* Hence what Bidding promises holds of the transactions as PostgreSQL interleaves them.
THEOREM TxKeepsPromises ==
  TxSpec => [](TypeOK /\ OneActiveBooking /\ CapacityRespected /\ AcceptanceConsistent) /\ DecidedOnce
BY TxImplementsBidding, TypeCorrect, OneActiveBookingHolds, CapacityRespectedHolds,
   AcceptanceConsistentHolds, DecidedOnceHolds, PTL
=============================================================================
