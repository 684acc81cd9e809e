------------------------------ MODULE Tracking ------------------------------
(* The location of one driver: the ingest pipeline (location/app/
   tracking_service.go) over the four Redis keys of the location store
   (location/adapter/redis/driver_location_store.go), the searches that clean
   up after expired points, and the points the two parties of a ride read of
   each other. A script or a MULTI is one step; everything between them
   interleaves. *)
EXTENDS Naturals, FiniteSets

CONSTANTS Ingest,    \* points the driver POSTs
          Search,    \* nearby searches
          Share,     \* points the passenger POSTs for the ride
          Read,      \* reads of the ride's points: the driver's and the passenger's
          TTL,       \* _driverLocationTTL
          MaxTime,   \* bound of the clock
          Faults,    \* whether Redis and presence calls fail
          None

ASSUME TrackingAssumption ==
  /\ TTL \in Nat \ {0} /\ MaxTime \in Nat
  /\ Share \cap Read = {}
  /\ None \notin Nat \cup Share \cup [seen : Nat, wrote : Nat]

VARIABLES
  clock,
  online,    \* what the presence reader finds in the driver's profile
  since,     \* history: when the driver last went offline
  payload,   \* driver:location:<id>: None or [seen, wrote]; expires TTL after it was written
  latest,    \* driver:location:observed-at:<id>: None or the time observed
  geo,       \* whether the driver is a member of drivers:locations
  expiry,    \* its score in drivers:locations:expiry, or None
  job,       \* ingests: [pc, seen]
  scan,      \* searches: where they are
  active,    \* the ride is active
  pax,       \* passenger:location:<ride>: None or the request that wrote it
  trip,      \* requests of the ride's parties: where they are
  posted,    \* history: the last of the passenger's requests to be received, or None
  swept,     \* history: a search removed the member of a driver with a point
  failed,    \* history: a call of an ingest failed
  crossed    \* history: two of the passenger's requests were in progress together

redis == <<payload, latest, geo, expiry>>
tripVars == <<active, pax, trip, posted, crossed>>
vars == <<clock, online, since, redis, job, scan, tripVars, swept, failed>>

Time == 0 .. MaxTime

TypeOK ==
  /\ clock \in Time /\ online \in BOOLEAN /\ since \in Time
  /\ payload \in [seen : Time, wrote : Time] \cup {None}
  /\ latest \in Time \cup {None} /\ geo \in BOOLEAN
  /\ expiry \in (TTL .. MaxTime + TTL) \cup {None}
  /\ job \in [Ingest -> [pc : {"idle", "check", "write", "recheck", "remove", "publish", "done"}, seen : Time]]
  /\ scan \in [Search -> {"idle", "geo", "get", "sweep", "done"}]
  /\ trip \in [Share \cup Read -> {"idle", "allowed", "given", "refused"}]
  /\ {pax, posted} \subseteq Share \cup {None}
  /\ {active, swept, failed, crossed} \subseteq BOOLEAN

Init ==
  /\ clock = 0 /\ online = TRUE /\ since = 0
  /\ payload = None /\ latest = None /\ geo = FALSE /\ expiry = None
  /\ job = [i \in Ingest |-> [pc |-> "idle", seen |-> 0]]
  /\ scan = [s \in Search |-> "idle"]
  /\ active = TRUE /\ pax = None /\ trip = [t \in Share \cup Read |-> "idle"]
  /\ posted = None /\ swept = FALSE /\ failed = FALSE /\ crossed = FALSE

Go(i, pc) == job' = [job EXCEPT ![i].pc = pc]

(***************************************************************************)
(* Presence and time                                                       *)
(***************************************************************************)

GoOnline ==
  /\ ~online /\ online' = TRUE
  /\ UNCHANGED <<clock, since, redis, job, scan, tripVars, swept, failed>>

\* The driver goes offline, or its presence is too old.
GoOffline ==
  /\ online /\ online' = FALSE /\ since' = clock
  /\ UNCHANGED <<clock, redis, job, scan, tripVars, swept, failed>>

\* Redis drops the payload and the observed-at key TTL after they were written; the members of the
\* sorted sets stay.
Tick ==
  LET dead == payload # None /\ payload.wrote + TTL <= clock + 1
  IN /\ clock < MaxTime /\ clock' = clock + 1
     /\ payload' = IF dead THEN None ELSE payload
     /\ latest' = IF dead THEN None ELSE latest
     /\ UNCHANGED <<online, since, geo, expiry, job, scan, tripVars, swept, failed>>

(***************************************************************************)
(* TrackingService.Ingest                                                  *)
(***************************************************************************)

\* A point observed at any time the age limit allows.
Receive(i) ==
  /\ job[i].pc = "idle"
  /\ \E seen \in 0 .. clock : job' = [job EXCEPT ![i] = [pc |-> "check", seen |-> seen]]
  /\ UNCHANGED <<clock, online, since, redis, scan, tripVars, swept, failed>>

\* requireOnlineDriver: a presence that cannot be read refuses the point as an offline driver does.
Presence == IF Faults THEN {online, FALSE} ELSE {online}

\* The check before the write.
Check(i) ==
  /\ job[i].pc = "check"
  /\ \E on \in Presence : Go(i, IF on THEN "write" ELSE "done")
  /\ UNCHANGED <<clock, online, since, redis, scan, tripVars, swept, failed>>

\* (mutant: points are stored in the order of their arrival)
UpsertAny(i, next) ==
  /\ payload' = [seen |-> job[i].seen, wrote |-> clock] /\ latest' = job[i].seen
  /\ geo' = TRUE /\ expiry' = clock + TTL /\ Go(i, next)

\* The upsert script: a point that is not newer than the latest is a silent no-op.
Upsert(i, next) ==
  IF latest # None /\ latest >= job[i].seen THEN UNCHANGED redis /\ Go(i, "done")
  ELSE /\ payload' = [seen |-> job[i].seen, wrote |-> clock] /\ latest' = job[i].seen
       /\ geo' = TRUE /\ expiry' = clock + TTL /\ Go(i, next)

Write(i) ==
  /\ job[i].pc = "write"
  /\ Upsert(i, "recheck")
  /\ UNCHANGED <<clock, online, since, scan, tripVars, swept, failed>>

\* The script runs and its answer is lost: Ingest returns without the second check.
WriteUnanswered(i) ==
  /\ Faults /\ job[i].pc = "write"
  /\ Upsert(i, "done") /\ failed' = TRUE
  /\ UNCHANGED <<clock, online, since, scan, tripVars, swept>>

\* (mutant: the presence is not read again)
RecheckSkipped(i) ==
  /\ job[i].pc = "recheck" /\ Go(i, "publish")
  /\ UNCHANGED <<clock, online, since, redis, scan, tripVars, swept, failed>>

\* The check after the write.
Recheck(i) ==
  /\ job[i].pc = "recheck"
  /\ \E on \in Presence : Go(i, IF on THEN "publish" ELSE "remove")
  /\ UNCHANGED <<clock, online, since, redis, scan, tripVars, swept, failed>>

\* (mutant: only the members of the sorted sets are removed)
RemoveMembers == geo' = FALSE /\ expiry' = None /\ UNCHANGED <<payload, latest>>

\* DriverLocationStore.Remove: all four keys, whichever point they hold.
RemoveKeys == payload' = None /\ latest' = None /\ geo' = FALSE /\ expiry' = None

Remove(i) ==
  /\ job[i].pc = "remove"
  /\ RemoveKeys /\ Go(i, "done")
  /\ UNCHANGED <<clock, online, since, scan, tripVars, swept, failed>>

RemoveFails(i) ==
  /\ Faults /\ job[i].pc = "remove"
  /\ Go(i, "done") /\ failed' = TRUE
  /\ UNCHANGED <<clock, online, since, redis, scan, tripVars, swept>>

\* The driver's DELETE request.
DeleteDriverLocation ==
  /\ payload # None /\ RemoveKeys
  /\ UNCHANGED <<clock, online, since, job, scan, tripVars, swept, failed>>

\* The event goes to the parties of the driver's rides; that its publication fails is logged.
Publish(i) ==
  /\ job[i].pc = "publish" /\ Go(i, "done")
  /\ UNCHANGED <<clock, online, since, redis, scan, tripVars, swept, failed>>

(***************************************************************************)
(* DriverLocationStore.Nearby                                              *)
(***************************************************************************)

\* cleanupExpiredDrivers: one script.
Cleanup(s) ==
  /\ scan[s] = "idle"
  /\ scan' = [scan EXCEPT ![s] = "geo"]
  /\ IF expiry # None /\ expiry <= clock THEN RemoveKeys ELSE UNCHANGED redis
  /\ UNCHANGED <<clock, online, since, job, tripVars, swept, failed>>

\* The search goes on without it when it fails.
CleanupFails(s) ==
  /\ Faults /\ scan[s] = "idle"
  /\ scan' = [scan EXCEPT ![s] = "geo"]
  /\ UNCHANGED <<clock, online, since, redis, job, tripVars, swept, failed>>

\* GEOSEARCH.
GeoSearch(s) ==
  /\ scan[s] = "geo"
  /\ scan' = [scan EXCEPT ![s] = IF geo THEN "get" ELSE "done"]
  /\ UNCHANGED <<clock, online, since, redis, job, tripVars, swept, failed>>

\* MGET: a member without a payload is stale, the others are the answer.
Load(s) ==
  /\ scan[s] = "get"
  /\ scan' = [scan EXCEPT ![s] = IF payload = None THEN "sweep" ELSE "done"]
  /\ UNCHANGED <<clock, online, since, redis, job, tripVars, swept, failed>>

\* The members found stale leave both sorted sets.
Sweep(s) ==
  /\ scan[s] = "sweep"
  /\ geo' = FALSE /\ expiry' = None /\ swept' = (swept \/ payload # None)
  /\ scan' = [scan EXCEPT ![s] = "done"]
  /\ UNCHANGED <<clock, online, since, payload, latest, job, tripVars, failed>>

SweepFails(s) ==
  /\ Faults /\ scan[s] = "sweep"
  /\ scan' = [scan EXCEPT ![s] = "done"]
  /\ UNCHANGED <<clock, online, since, redis, job, tripVars, swept, failed>>

(***************************************************************************)
(* The points of the ride                                                  *)
(***************************************************************************)

EndRide ==
  /\ active /\ active' = FALSE
  /\ UNCHANGED <<clock, online, since, redis, job, scan, pax, trip, posted, crossed, swept, failed>>

\* assignmentForRide, the first thing each request does: found, active, and the caller's own.
Authorize(t) ==
  /\ trip[t] = "idle"
  /\ trip' = [trip EXCEPT ![t] = IF active THEN "allowed" ELSE "refused"]
  /\ posted' = IF t \in Share /\ active THEN t ELSE posted
  /\ crossed' = (crossed \/ (t \in Share /\ \E u \in Share : trip[u] = "allowed"))
  /\ UNCHANGED <<clock, online, since, redis, job, scan, active, pax, swept, failed>>

\* A plain SET: the last write wins, whatever time it was observed at.
SetPassenger(t) == t

UpdatePassenger(t) ==
  /\ trip[t] = "allowed"
  /\ pax' = SetPassenger(t) /\ trip' = [trip EXCEPT ![t] = "given"]
  /\ UNCHANGED <<clock, online, since, redis, job, scan, active, posted, crossed, swept, failed>>

\* The key of the passenger's point expires.
ExpirePassenger ==
  /\ pax # None /\ pax' = None
  /\ UNCHANGED <<clock, online, since, redis, job, scan, active, trip, posted, crossed, swept, failed>>

\* GetPassengerForDriver and GetDriverForRide.
GetPoint(t) ==
  /\ trip[t] = "allowed"
  /\ \E point \in {pax, payload} : trip' = [trip EXCEPT ![t] = IF point = None THEN "refused" ELSE "given"]
  /\ UNCHANGED <<clock, online, since, redis, job, scan, active, pax, posted, crossed, swept, failed>>

Next ==
  \/ GoOnline \/ GoOffline \/ Tick \/ DeleteDriverLocation \/ EndRide \/ ExpirePassenger
  \/ \E i \in Ingest : \/ Receive(i) \/ Check(i) \/ Write(i) \/ WriteUnanswered(i) \/ Recheck(i)
                       \/ Remove(i) \/ RemoveFails(i) \/ Publish(i)
  \/ \E s \in Search : \/ Cleanup(s) \/ CleanupFails(s) \/ GeoSearch(s) \/ Load(s)
                       \/ Sweep(s) \/ SweepFails(s)
  \/ \E t \in Share \cup Read : Authorize(t)
  \/ \E t \in Share : UpdatePassenger(t)
  \/ \E t \in Read : GetPoint(t)

Spec == Init /\ [][Next]_vars

(***************************************************************************)
(* Properties                                                              *)
(***************************************************************************)

Quiet == \A i \in Ingest : job[i].pc \in {"idle", "done"}

\* The observed-at key the upsert script compares with is that of the stored point: the two are
\* written, expired, swept and removed together.
KeysAgree == latest = IF payload = None THEN None ELSE payload.seen

\* A driver that is offline with no ingest on its way has no point that was written after it went
\* offline, unless a call of an ingest failed (the second presence check of Ingest and its removal).
NothingWrittenOffline == Quiet /\ ~online /\ payload # None => payload.wrote <= since \/ failed

\* A stored point is never replaced by one observed earlier, in whatever order points arrive.
NeverOlder == [][payload # None /\ payload' # None => payload'.seen >= payload.seen]_vars

\* A driver with a live point can be found by searches, unless a search swept its member away in
\* the moment its new point came.
HiddenNeedsSweep == payload # None => geo \/ swept

\* The passenger's point is that of the request received last, once all are answered, unless two
\* of them overlapped: the store does not compare the times observed as it does for drivers.
PassengerPointIsLast ==
  pax # None /\ ~crossed /\ (\A t \in Share : trip[t] # "allowed") => pax = posted

\* The keys of a driver's point change together, a live point is found by searches unless a sweep
\* crossed it, and a passenger's point is the last one unless two crossed.
PointsHold == TypeOK /\ KeysAgree /\ HiddenNeedsSweep /\ PassengerPointIsLast
=============================================================================
