------------------------------ MODULE Bidding ------------------------------
(***************************************************************************)
(* What the booking tables of EasyRide promise: bid sessions, the drivers' *)
(* offers on them, and the rides that acceptances create.  Every action is *)
(* one database transaction at the instant it commits; BiddingTx refines   *)
(* this module with the row locks and the statement snapshots that make    *)
(* those instants exist.                                                   *)
(*                                                                         *)
(* A booking costs a driver one unit of capacity while the ride is         *)
(* assigned, accepted, arrived or in transit: the four statuses are one    *)
(* here ("accepted"); RideLifecycle tells them apart.                      *)
(***************************************************************************)
EXTENDS Naturals, FiniteSets

CONSTANTS
  Passenger, Driver,   \* user ids, by role
  Session, Ride,       \* primary keys bid_sessions and rides can hand out
  MaxActive,           \* domain.MaxActiveRidesPerDriver
  None                 \* SQL NULL

ASSUME BiddingConstants ==
  /\ MaxActive \in Nat \ {0}
  /\ IsFiniteSet(Ride)
  /\ None \notin Passenger \cup Driver \cup Session

VARIABLES
  sStatus,     \* bid_sessions.status, "absent" before the row exists
  sOwner,      \* bid_sessions.passenger_id
  sTarget,     \* bid_sessions.target_driver_id
  sDriver,     \* bid_sessions.accepted_driver_id
  sClock,      \* where the clock stands relative to bid_sessions.expires_at
  oStatus,     \* status of a driver's newest offer on a session
  rStatus,     \* rides.status
  rOwner,      \* rides.passenger_id
  rDriver,     \* rides.driver_id
  rSession,    \* rides.bid_session_id
  online       \* drivers whose profile LockOnlineDriverProfileForBidding finds

sessionVars == <<sStatus, sOwner, sTarget, sDriver, sClock>>
rideVars    == <<rStatus, rOwner, rDriver, rSession>>
vars        == <<sessionVars, oStatus, rideVars, online>>

SessionStatus == {"absent", "open", "accepted", "cancelled", "expired", "declined"}
OfferStatus   == {"none", "pending", "accepted", "rejected"}
RideStatus    == {"absent", "requested", "accepted", "ended"}

(***************************************************************************)
(* A request reads the clock once, when it starts, and compares that       *)
(* reading with expires_at later.  "before": every request in progress     *)
(* read a time before the deadline; "around": some read it before, some    *)
(* after; "after": all read it after.                                      *)
(***************************************************************************)
Clock == {"before", "around", "after"}
ReadsUnexpired(s) == sClock[s] # "after"
ReadsExpired(s)   == sClock[s] # "before"

TypeOK ==
  /\ sStatus  \in [Session -> SessionStatus]
  /\ sOwner   \in [Session -> Passenger \cup {None}]
  /\ sTarget  \in [Session -> Driver \cup {None}]
  /\ sDriver  \in [Session -> Driver \cup {None}]
  /\ sClock   \in [Session -> Clock]
  /\ oStatus  \in [Session -> [Driver -> OfferStatus]]
  /\ rStatus  \in [Ride -> RideStatus]
  /\ rOwner   \in [Ride -> Passenger \cup {None}]
  /\ rDriver  \in [Ride -> Driver \cup {None}]
  /\ rSession \in [Ride -> Session \cup {None}]
  /\ online   \in SUBSET Driver

Init ==
  /\ sStatus  = [s \in Session |-> "absent"]
  /\ sOwner   = [s \in Session |-> None]
  /\ sTarget  = [s \in Session |-> None]
  /\ sDriver  = [s \in Session |-> None]
  /\ sClock   = [s \in Session |-> "before"]
  /\ oStatus  = [s \in Session |-> [d \in Driver |-> "none"]]
  /\ rStatus  = [r \in Ride |-> "absent"]
  /\ rOwner   = [r \in Ride |-> None]
  /\ rDriver  = [r \in Ride |-> None]
  /\ rSession = [r \in Ride |-> None]
  /\ online   = {}

----------------------------------------------------------------------------
(* Queries *)

OpenSessions(p) == {s \in Session : sOwner[s] = p /\ sStatus[s] = "open"}

HasActivePassengerRide(p) ==
  \E r \in Ride : rOwner[r] = p /\ rStatus[r] \in {"requested", "accepted"}

ActiveRides(d) == {r \in Ride : rDriver[r] = d /\ rStatus[r] = "accepted"}

CountActiveRides(d) == Cardinality(ActiveRides(d))

\* The sets of sessions one ExpireBidSessions of passenger p may close,
\* depending on the clock reading it was given.
Expirable(p) ==
  {ex \in SUBSET {s \in OpenSessions(p) : ReadsExpired(s)} :
     {s \in OpenSessions(p) : ~ReadsUnexpired(s)} \subseteq ex}

\* Offers after the pending offers on the sessions of ss are rejected.  A
\* statement rejects the offers of its snapshot: an offer that a concurrent
\* PlaceOffer commits after the snapshot (a driver of missed) keeps its status.
RejectPending(ss, missed) ==
  [s \in Session |-> [d \in Driver |->
     IF s \in ss /\ d \notin missed /\ oStatus[s][d] = "pending"
     THEN "rejected" ELSE oStatus[s][d]]]

----------------------------------------------------------------------------
(* Transactions of the passenger *)

\* CreateSession: under the lock of the passenger's users row, expire what is
\* due, refuse a second booking, insert the open session.
CreateSession(p, s, target) ==
  /\ sStatus[s] = "absent"
  /\ ~HasActivePassengerRide(p)
  /\ \E ex \in Expirable(p), missed \in SUBSET Driver :
       /\ OpenSessions(p) \subseteq ex
       /\ sStatus' = [x \in Session |-> IF x = s THEN "open"
                                        ELSE IF x \in ex THEN "expired"
                                        ELSE sStatus[x]]
       /\ oStatus' = RejectPending(ex, missed)
  /\ sOwner'  = [sOwner EXCEPT ![s] = p]
  /\ sTarget' = [sTarget EXCEPT ![s] = target]
  /\ UNCHANGED <<sDriver, sClock, rideVars, online>>

\* CreateRide: a direct ride request, under the same lock and the same checks.
CreateRide(p, r) ==
  /\ rStatus[r] = "absent"
  /\ ~HasActivePassengerRide(p)
  /\ \E ex \in Expirable(p), missed \in SUBSET Driver :
       /\ OpenSessions(p) \subseteq ex
       /\ sStatus' = [x \in Session |-> IF x \in ex THEN "expired" ELSE sStatus[x]]
       /\ oStatus' = RejectPending(ex, missed)
  /\ rStatus' = [rStatus EXCEPT ![r] = "requested"]
  /\ rOwner'  = [rOwner EXCEPT ![r] = p]
  /\ UNCHANGED <<sOwner, sTarget, sDriver, sClock, rDriver, rSession, online>>

\* CancelSession is two statements, each a transaction of its own.  First the
\* passenger's due sessions expire ...
ExpireBidSessions(p) ==
  /\ \E ex \in Expirable(p), missed \in SUBSET Driver :
       /\ sStatus' = [x \in Session |-> IF x \in ex THEN "expired" ELSE sStatus[x]]
       /\ oStatus' = RejectPending(ex, missed)
  /\ UNCHANGED <<sOwner, sTarget, sDriver, sClock, rideVars, online>>

\* ... then the session is cancelled.  The statement's first part rejects the
\* session's pending offers whoever asks and whatever the session's status; only
\* its second part asks for the owner and for status open.
CancelBidSession(p, s) ==
  /\ sStatus[s] # "absent"
  /\ \E missed \in SUBSET Driver : oStatus' = RejectPending({s}, missed)
  /\ sStatus' = IF sOwner[s] = p /\ sStatus[s] = "open"
                THEN [sStatus EXCEPT ![s] = "cancelled"] ELSE sStatus
  /\ UNCHANGED <<sOwner, sTarget, sDriver, sClock, rideVars, online>>

\* AcceptOffer: the passenger takes driver d's pending offer.  Every other
\* pending offer on the session is rejected, and so is every other pending
\* offer of d when this ride fills d's capacity, by a count from which a ride
\* may have ended since; the ride is created.
AcceptOffer(s, d, r) ==
  /\ sStatus[s] = "open" /\ ReadsUnexpired(s)
  /\ oStatus[s][d] = "pending"
  /\ d \in online
  /\ sTarget[s] \in {None, d}
  /\ CountActiveRides(d) < MaxActive
  /\ ~HasActivePassengerRide(sOwner[s])
  /\ rStatus[r] = "absent"
  /\ \E full \in BOOLEAN :
       /\ CountActiveRides(d) + 1 >= MaxActive => full
       /\ oStatus' = [x \in Session |-> [e \in Driver |->
            IF x = s /\ e = d THEN "accepted"
            ELSE IF oStatus[x][e] = "pending" /\ (x = s \/ (e = d /\ full)) THEN "rejected"
            ELSE oStatus[x][e]]]
  /\ sStatus'  = [sStatus EXCEPT ![s] = "accepted"]
  /\ sDriver'  = [sDriver EXCEPT ![s] = d]
  /\ rStatus'  = [rStatus EXCEPT ![r] = "accepted"]
  /\ rOwner'   = [rOwner EXCEPT ![r] = sOwner[s]]
  /\ rDriver'  = [rDriver EXCEPT ![r] = d]
  /\ rSession' = [rSession EXCEPT ![r] = s]
  /\ UNCHANGED <<sOwner, sTarget, sClock, online>>

----------------------------------------------------------------------------
(* Transactions of the driver *)

\* PlaceOffer: an online driver below capacity bids on an open session that is
\* addressed to everyone or to this driver, unless an offer is already pending.
PlaceOffer(d, s) ==
  /\ sStatus[s] = "open" /\ ReadsUnexpired(s)
  /\ sTarget[s] \in {None, d}
  /\ d \in online
  /\ CountActiveRides(d) < MaxActive
  /\ oStatus[s][d] # "pending"
  /\ oStatus' = [oStatus EXCEPT ![s][d] = "pending"]
  /\ UNCHANGED <<sessionVars, rideVars, online>>

\* CancelOffer: the driver withdraws a pending offer from an open session.
CancelOffer(d, s) ==
  /\ oStatus[s][d] = "pending"
  /\ sStatus[s] = "open"
  /\ oStatus' = [oStatus EXCEPT ![s][d] = "rejected"]
  /\ UNCHANGED <<sessionVars, rideVars, online>>

\* Mutant: the predicate that the session is open is missing.
DeclineAnySession(d, s) ==
  /\ sTarget[s] = d
  /\ sStatus[s] # "absent" /\ ReadsUnexpired(s)
  /\ sStatus' = [sStatus EXCEPT ![s] = "declined"]
  /\ UNCHANGED <<sOwner, sTarget, sDriver, sClock, oStatus, rideVars, online>>

\* DeclineSession: the addressed driver refuses; offers are left as they are.
DeclineSession(d, s) ==
  /\ sTarget[s] = d
  /\ sStatus[s] = "open" /\ ReadsUnexpired(s)
  /\ sStatus' = [sStatus EXCEPT ![s] = "declined"]
  /\ UNCHANGED <<sOwner, sTarget, sDriver, sClock, oStatus, rideVars, online>>

\* AcceptRide: an online driver below capacity takes a direct request.
AcceptRide(d, r) ==
  /\ d \in online
  /\ CountActiveRides(d) < MaxActive
  /\ rStatus[r] = "requested"
  /\ rStatus' = [rStatus EXCEPT ![r] = "accepted"]
  /\ rDriver' = [rDriver EXCEPT ![r] = d]
  /\ UNCHANGED <<sessionVars, oStatus, rOwner, rSession, online>>

----------------------------------------------------------------------------
(* The rest of the system *)

\* The ride completes or is cancelled (RideLifecycle), freeing both sides.
EndRide(r) ==
  /\ rStatus[r] \in {"requested", "accepted"}
  /\ rStatus' = [rStatus EXCEPT ![r] = "ended"]
  /\ UNCHANGED <<sessionVars, oStatus, rOwner, rDriver, rSession, online>>

\* The driver's presence is switched on or off, or its heartbeat grows stale.
SetPresence(d) ==
  /\ online' = IF d \in online THEN online \ {d} ELSE online \cup {d}
  /\ UNCHANGED <<sessionVars, oStatus, rideVars>>

\* The clock reaches an open session's deadline, then leaves it behind (no
\* query compares the deadline of a session that is no longer open).
PassDeadline(s) ==
  /\ sStatus[s] = "open"
  /\ sClock[s] # "after"
  /\ sClock' = [sClock EXCEPT ![s] = IF @ = "before" THEN "around" ELSE "after"]
  /\ UNCHANGED <<sStatus, sOwner, sTarget, sDriver, oStatus, rideVars, online>>

Next ==
  \/ \E p \in Passenger, s \in Session, t \in Driver \cup {None} : CreateSession(p, s, t)
  \/ \E p \in Passenger, r \in Ride : CreateRide(p, r)
  \/ \E p \in Passenger : ExpireBidSessions(p)
  \/ \E p \in Passenger, s \in Session : CancelBidSession(p, s)
  \/ \E s \in Session, d \in Driver, r \in Ride : AcceptOffer(s, d, r)
  \/ \E d \in Driver, s \in Session : PlaceOffer(d, s)
  \/ \E d \in Driver, s \in Session : CancelOffer(d, s)
  \/ \E d \in Driver, s \in Session : DeclineSession(d, s)
  \/ \E d \in Driver, r \in Ride : AcceptRide(d, r)
  \/ \E r \in Ride : EndRide(r)
  \/ \E d \in Driver : SetPresence(d)
  \/ \E s \in Session : PassDeadline(s)

Spec == Init /\ [][Next]_vars

----------------------------------------------------------------------------
(* Properties *)

\* "the one-active-booking policy holds across both tables" (ride_writer.go):
\* a passenger's open sessions and active rides together are at most one, although
\* CreateSession, CreateRide and AcceptOffer check different tables.
OneActiveBooking ==
  \A p \in Passenger :
    /\ \A s, t \in OpenSessions(p) : s = t
    /\ \A r, q \in Ride :
         /\ rOwner[r] = p /\ rStatus[r] \in {"requested", "accepted"}
         /\ rOwner[q] = p /\ rStatus[q] \in {"requested", "accepted"}
         => r = q
    /\ HasActivePassengerRide(p) => OpenSessions(p) = {}

\* A driver never carries more than MaxActive rides, whether they came from
\* accepted bids, from direct requests or from both.
CapacityRespected == \A d \in Driver : CountActiveRides(d) <= MaxActive

\* An accepted session, its one accepted offer and its one ride agree on the
\* passenger and the driver, for good; no other session has either, and a ride
\* that still waits for a driver came from no session.
AcceptedHasRide(s) ==
  \E r \in Ride :
    /\ rSession[r] = s /\ rOwner[r] = sOwner[s] /\ rDriver[r] = sDriver[s]
    /\ \A q \in Ride : rSession[q] = s => q = r

AcceptanceConsistent ==
  /\ \A s \in Session :
       /\ sStatus[s] = "accepted" => AcceptedHasRide(s)
       /\ sStatus[s] # "accepted" => \A r \in Ride : rSession[r] # s
       /\ \A d \in Driver :
            oStatus[s][d] = "accepted" <=> (sStatus[s] = "accepted" /\ sDriver[s] = d)
  /\ \A r \in Ride : rStatus[r] \in {"absent", "requested"} => rSession[r] = None

\* "the predicate prevents either terminal transition from overwriting the
\* other" (DeclineSession): a session is decided once.
DecidedOnce ==
  [][\A s \in Session :
       sStatus[s] \notin {"absent", "open"} =>
         sStatus'[s] = sStatus[s] /\ sDriver'[s] = sDriver[s]]_vars
============================================================================
