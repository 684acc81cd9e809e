--------------------------- MODULE DriverPresence ---------------------------
(* One driver's profile row: the requests that save the profile, go online and
   offline, and the acceptances that give the driver rides (user/adapter/
   postgres/profile_repository.go, user/transport/http/handler.go, the
   LockOnlineDriverProfileForBidding of dispatch and ride). Each request is a
   PostgreSQL transaction under READ COMMITTED that takes row locks and keeps
   them until it ends; the steps of different requests interleave. *)
EXTENDS Naturals, FiniteSets

CONSTANTS Savers,      \* PUT /profile requests of the driver
          Togglers,    \* online status requests
          Accepters,   \* acceptances that would give the driver a ride
          Vehicles,    \* vehicle type and plate number
          MaxRides,    \* domain.MaxActiveRidesPerDriver
          None

VARIABLES
  online, fresh,    \* is_online; online_last_seen_at is after the cutoff
  vehicle,          \* vehicle_type and plate_number
  ride,             \* the vehicle copied into the active ride of an acceptance, or None
  userRow, profileRow,     \* the holder of the lock on the users row, on the driver_profiles row
  pc,
  input,            \* savers: [read, want]; togglers: whether to go online
  count             \* active rides a toggler counted

vars == <<online, fresh, vehicle, ride, userRow, profileRow, pc, input, count>>

ProfileRequests == Savers \cup Togglers \cup Accepters

PresenceConstants ==
  /\ MaxRides \in Nat /\ IsFiniteSet(Accepters)
  /\ Savers \cap Togglers = {} /\ Savers \cap Accepters = {} /\ Togglers \cap Accepters = {}
  /\ None \notin ProfileRequests \cup Vehicles

Active == {a \in Accepters : ride[a] # None}

TypeOK ==
  /\ {online, fresh} \subseteq BOOLEAN /\ vehicle \in Vehicles
  /\ ride \in [Accepters -> Vehicles \cup {None}]
  /\ {userRow, profileRow} \subseteq ProfileRequests \cup {None}
  /\ pc \in [ProfileRequests -> {"idle", "first", "second", "locked", "counted", "done"}]
  /\ \A s \in Savers : input[s] \in [read : Vehicles, want : Vehicles \cup {None}]
  /\ \A t \in Togglers : input[t] \in BOOLEAN /\ count[t] \in 0 .. MaxRides

Init ==
  /\ online = FALSE /\ fresh = FALSE /\ vehicle \in Vehicles
  /\ ride = [a \in Accepters |-> None]
  /\ userRow = None /\ profileRow = None
  /\ pc = [r \in ProfileRequests |-> "idle"]
  /\ input = [r \in ProfileRequests |-> IF r \in Savers THEN [read |-> vehicle, want |-> None] ELSE FALSE]
  /\ count = [t \in Togglers |-> 0]

Go(r, next) == pc' = [pc EXCEPT ![r] = next]

\* Commit and rollback both release what the transaction holds.
EndTransaction(r) ==
  /\ Go(r, "done")
  /\ userRow' = IF userRow = r THEN None ELSE userRow
  /\ profileRow' = IF profileRow = r THEN None ELSE profileRow

(***************************************************************************)
(* Handler.Update and ProfileRepository.Save                               *)
(***************************************************************************)

\* The handler reads the profile outside any transaction.
ReadProfile(s) ==
  /\ pc[s] = "idle"
  /\ \E want \in Vehicles \cup {None} : input' = [input EXCEPT ![s] = [read |-> vehicle, want |-> want]]
  /\ Go(s, "first")
  /\ UNCHANGED <<online, fresh, vehicle, ride, userRow, profileRow, count>>

\* applyProfileUpdate: what the request leaves out is what the handler read.
ProfileUpdate(s) == IF input[s].want = None THEN input[s].read ELSE input[s].want

\* UpdateUserProfile.
UpdateUserProfile(s) ==
  /\ pc[s] = "first" /\ userRow = None
  /\ userRow' = s /\ Go(s, "second")
  /\ UNCHANGED <<online, fresh, vehicle, ride, profileRow, input, count>>

\* LockDriverProfileByUserID.
LockDriverProfile(s) ==
  /\ pc[s] = "second" /\ profileRow = None
  /\ profileRow' = s /\ Go(s, "locked")
  /\ UNCHANGED <<online, fresh, vehicle, ride, userRow, input, count>>

\* The locked row is compared with the profile to be written.
VehicleChanges(s) == ProfileUpdate(s) # vehicle

UpdateDriverProfile(s) ==
  /\ pc[s] = "locked"
  /\ vehicle' = IF online /\ VehicleChanges(s) THEN vehicle ELSE ProfileUpdate(s)
  /\ EndTransaction(s)
  /\ UNCHANGED <<online, fresh, ride, input, count>>

(***************************************************************************)
(* ProfileRepository.UpdateOnlineStatus                                    *)
(***************************************************************************)

\* LockDriverProfileForOnlineStatus.
LockForOnlineStatus(t) ==
  /\ pc[t] = "idle" /\ profileRow = None
  /\ \E on \in BOOLEAN : input' = [input EXCEPT ![t] = on]
  /\ profileRow' = t /\ Go(t, "locked")
  /\ UNCHANGED <<online, fresh, vehicle, ride, userRow, count>>

\* (mutant: the rides are not counted)
CountNothing == 0

\* CountActiveRidesForDriver.
CountActiveRides == Cardinality(Active)

Count(t) ==
  /\ pc[t] = "locked" /\ ~input[t]
  /\ count' = [count EXCEPT ![t] = CountActiveRides]
  /\ Go(t, "counted")
  /\ UNCHANGED <<online, fresh, vehicle, ride, userRow, profileRow, input>>

\* Going offline with an active ride is ErrDriverAvailabilityBlocked.
Blocked(t) ==
  /\ pc[t] = "counted" /\ count[t] > 0
  /\ EndTransaction(t)
  /\ UNCHANGED <<online, fresh, vehicle, ride, input, count>>

UpdateDriverOnlineStatus(t) ==
  /\ IF input[t] THEN pc[t] = "locked" ELSE pc[t] = "counted" /\ count[t] = 0
  /\ online' = input[t] /\ fresh' = input[t]
  /\ EndTransaction(t)
  /\ UNCHANGED <<vehicle, ride, input, count>>

\* Time passes without a request.
PresenceAges ==
  /\ fresh /\ fresh' = FALSE
  /\ UNCHANGED <<online, vehicle, ride, userRow, profileRow, pc, input, count>>

(***************************************************************************)
(* AcceptOffer and AcceptRide                                              *)
(***************************************************************************)

\* LockOnlineDriverProfileForBidding: FOR UPDATE over the join takes the profile row and then the
\* users row; a driver that is not online, looked at under the lock, has no row to lock.
LockOnlineDriver(a) ==
  /\ pc[a] = "idle" /\ profileRow = None
  /\ IF online /\ fresh THEN profileRow' = a /\ Go(a, "first") ELSE UNCHANGED profileRow /\ Go(a, "done")
  /\ UNCHANGED <<online, fresh, vehicle, ride, userRow, input, count>>

LockAccount(a) ==
  /\ pc[a] = "first" /\ userRow = None
  /\ userRow' = a /\ Go(a, "locked")
  /\ UNCHANGED <<online, fresh, vehicle, ride, profileRow, input, count>>

\* The ride copies the vehicle of the locked profile.
AcceptRide(a) ==
  /\ pc[a] = "locked"
  /\ ride' = IF CountActiveRides < MaxRides THEN [ride EXCEPT ![a] = vehicle] ELSE ride
  /\ EndTransaction(a)
  /\ UNCHANGED <<online, fresh, vehicle, input, count>>

\* Completion or cancellation; neither touches the profile.
EndRide(a) ==
  /\ ride[a] # None /\ ride' = [ride EXCEPT ![a] = None]
  /\ UNCHANGED <<online, fresh, vehicle, userRow, profileRow, pc, input, count>>

(***************************************************************************)
(* Failures                                                                *)
(***************************************************************************)

\* A save and an acceptance lock the two rows in opposite orders.
Deadlocked(s, a) == profileRow = a /\ userRow = s /\ pc[s] = "second" /\ pc[a] = "first"

\* PostgreSQL's deadlock detector aborts one of the two.
BreakDeadlock(s, a) ==
  /\ Deadlocked(s, a)
  /\ \E victim \in {s, a} : EndTransaction(victim)
  /\ UNCHANGED <<online, fresh, vehicle, ride, input, count>>

\* The request is cancelled or a statement fails: the deferred rollback.
Rollback(r) ==
  /\ pc[r] \notin {"idle", "done"} /\ EndTransaction(r)
  /\ UNCHANGED <<online, fresh, vehicle, ride, input, count>>

Step(r) ==
  \/ r \in Savers /\ (ReadProfile(r) \/ UpdateUserProfile(r) \/ LockDriverProfile(r) \/ UpdateDriverProfile(r))
  \/ r \in Togglers /\ (LockForOnlineStatus(r) \/ Count(r) \/ Blocked(r) \/ UpdateDriverOnlineStatus(r))
  \/ r \in Accepters /\ (LockOnlineDriver(r) \/ LockAccount(r) \/ AcceptRide(r))

Next ==
  \/ \E r \in ProfileRequests : Step(r) \/ Rollback(r)
  \/ \E a \in Accepters : EndRide(a) \/ \E s \in Savers : BreakDeadlock(s, a)
  \/ PresenceAges

\* PostgreSQL queues the waiters of a row lock and detects deadlocks; the steps of a request are
\* its own goroutine's.
Fairness ==
  /\ \A r \in ProfileRequests : SF_vars(Step(r))
  /\ \A a \in Accepters, s \in Savers : WF_vars(BreakDeadlock(s, a))

Spec == Init /\ [][Next]_vars
FairSpec == Spec /\ Fairness

(***************************************************************************)
(* Properties                                                              *)
(***************************************************************************)

\* A driver with an active ride is online: going offline and an acceptance cannot both win (the
\* count of UpdateOnlineStatus and the check of the acceptance run under the same row lock).
RideNeedsOnline == Active # {} => online

\* The vehicle a passenger was told is the driver's vehicle for as long as the ride is active,
\* whatever profile saves, toggles and acceptances overlap.
RideShowsVehicle == \A a \in Active : ride[a] = vehicle

\* A driver with an active ride is online, with the vehicle its passenger was told.
RideHasItsDriver == TypeOK /\ RideNeedsOnline /\ RideShowsVehicle

\* Every request is answered, although saves and acceptances lock the same two rows in opposite
\* orders.
EveryRequestEnds == \A r \in ProfileRequests : pc[r] # "idle" ~> pc[r] = "done"
=============================================================================
