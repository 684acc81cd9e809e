--------------------------- MODULE TrackingProofs ---------------------------
(* The stored points of a driver and of a passenger, for any number of points,
   searches and requests, any time to live and with or without faults. *)
EXTENDS Tracking, TLAPS

\* A point that was written while its driver is offline still has an ingest that will look at the
\* presence again or remove it, unless a call failed.
WriterComesBack ==
  ~online /\ payload # None =>
    payload.wrote <= since \/ failed \/ \E i \in Ingest : job[i].pc \in {"recheck", "remove"}

\* While no two of the passenger's requests overlapped, the one on its way is the one received last,
\* and a stored point is of that request or will be replaced by it.
LastOnItsWay ==
  ~crossed => /\ \A u \in Share : trip[u] = "allowed" => u = posted
              /\ pax # None => pax = posted \/ (posted \in Share /\ trip[posted] = "allowed")

\* Nothing is dated after now.
Past == since <= clock /\ (payload # None => payload.wrote <= clock)

PointsInv == TypeOK /\ KeysAgree /\ HiddenNeedsSweep /\ Past /\ WriterComesBack /\ LastOnItsWay

----------------------------------------------------------------------------
(* Types *)

Flags ==
  /\ online \in BOOLEAN /\ geo \in BOOLEAN /\ active \in BOOLEAN
  /\ swept \in BOOLEAN /\ failed \in BOOLEAN /\ crossed \in BOOLEAN

Point == [seen : Time, wrote : Time]

Keys ==
  /\ clock \in Time /\ since \in Time
  /\ payload \in Point \cup {None}
  /\ latest \in Time \cup {None}
  /\ expiry \in (TTL .. MaxTime + TTL) \cup {None}

Places ==
  /\ job \in [Ingest -> [pc : {"idle", "check", "write", "recheck", "remove", "publish", "done"}, seen : Time]]
  /\ scan \in [Search -> {"idle", "geo", "get", "sweep", "done"}]
  /\ trip \in [Share \cup Read -> {"idle", "allowed", "given", "refused"}]
  /\ pax \in Share \cup {None} /\ posted \in Share \cup {None}

\* The type invariant in three parts: history and presence flags, Redis keys, and where requests are.
LEMMA TypeParts == TypeOK <=> Flags /\ Keys /\ Places
<1>1. {active, swept, failed, crossed} \subseteq BOOLEAN
        <=> active \in BOOLEAN /\ swept \in BOOLEAN /\ failed \in BOOLEAN /\ crossed \in BOOLEAN
  BY Zenon
<1>2. {pax, posted} \subseteq Share \cup {None}
        <=> pax \in Share \cup {None} /\ posted \in Share \cup {None}
  BY Zenon
<1> QED
  BY <1>1, <1>2, Zenon DEF TypeOK, Flags, Keys, Places, Point

\* Every step keeps the types: what is written is a time that has come, by a request of the system.
LEMMA TypeStep == TypeOK /\ [Next]_vars => TypeOK'
<1> SUFFICES ASSUME Flags, Keys, Places, [Next]_vars PROVE Flags' /\ Keys' /\ Places'
  BY TypeParts, PTL
<1>1. Flags'
  <2> USE DEF Flags, redis, tripVars
  <2>1. CASE GoOnline \/ GoOffline \/ Tick \/ DeleteDriverLocation \/ EndRide \/ ExpirePassenger
    BY <2>1, Zenon DEF GoOnline, GoOffline, Tick, DeleteDriverLocation, RemoveKeys, EndRide, ExpirePassenger
  <2>2. ASSUME NEW i \in Ingest,
               Receive(i) \/ Check(i) \/ Write(i) \/ WriteUnanswered(i) \/ Recheck(i)
                 \/ Remove(i) \/ RemoveFails(i) \/ Publish(i)
        PROVE  Flags'
    BY <2>2, Zenon DEF Receive, Check, Write, WriteUnanswered, Recheck, Remove, RemoveFails, Publish,
                       Upsert, RemoveKeys
  <2>3. ASSUME NEW s \in Search,
               Cleanup(s) \/ CleanupFails(s) \/ GeoSearch(s) \/ Load(s) \/ Sweep(s) \/ SweepFails(s)
        PROVE  Flags'
    BY <2>3, Zenon DEF Cleanup, CleanupFails, GeoSearch, Load, Sweep, SweepFails, RemoveKeys
  <2>4. ASSUME NEW t \in Share \cup Read, Authorize(t) \/ UpdatePassenger(t) \/ GetPoint(t)
        PROVE  Flags'
    BY <2>4, Zenon DEF Authorize, UpdatePassenger, GetPoint
  <2>5. CASE UNCHANGED vars
    BY <2>5, Zenon DEF vars
  <2> QED
    BY <2>1, <2>2, <2>3, <2>4, <2>5 DEF Next
<1>2. Keys'
  <2> USE TrackingAssumption DEF Keys, Point, Time, redis, tripVars
  <2>1. CASE Tick
    BY <2>1 DEF Tick
  <2>2. CASE GoOnline \/ GoOffline \/ DeleteDriverLocation \/ EndRide \/ ExpirePassenger
    BY <2>2 DEF GoOnline, GoOffline, DeleteDriverLocation, RemoveKeys, EndRide, ExpirePassenger
  <2>3. ASSUME NEW i \in Ingest, Write(i) \/ WriteUnanswered(i)
        PROVE  Keys'
    <3>1. job[i].seen \in Time
      BY DEF Places
    <3> QED
      BY <2>3, <3>1 DEF Write, WriteUnanswered, Upsert
  <2>4. ASSUME NEW i \in Ingest,
               Receive(i) \/ Check(i) \/ Recheck(i) \/ Remove(i) \/ RemoveFails(i) \/ Publish(i)
        PROVE  Keys'
    BY <2>4 DEF Receive, Check, Recheck, Remove, RemoveFails, Publish, RemoveKeys
  <2>5. ASSUME NEW s \in Search,
               Cleanup(s) \/ CleanupFails(s) \/ GeoSearch(s) \/ Load(s) \/ Sweep(s) \/ SweepFails(s)
        PROVE  Keys'
    BY <2>5 DEF Cleanup, CleanupFails, GeoSearch, Load, Sweep, SweepFails, RemoveKeys
  <2>6. ASSUME NEW t \in Share \cup Read, Authorize(t) \/ UpdatePassenger(t) \/ GetPoint(t)
        PROVE  Keys'
    BY <2>6 DEF Authorize, UpdatePassenger, GetPoint
  <2>7. CASE UNCHANGED vars
    BY <2>7 DEF vars
  <2> QED
    BY <2>1, <2>2, <2>3, <2>4, <2>5, <2>6, <2>7 DEF Next
<1>3. Places'
  <2> USE DEF Places, redis, tripVars
  <2>1. CASE GoOnline \/ GoOffline \/ Tick \/ DeleteDriverLocation \/ EndRide \/ ExpirePassenger
    BY <2>1 DEF GoOnline, GoOffline, Tick, DeleteDriverLocation, RemoveKeys, EndRide, ExpirePassenger
  <2>2. ASSUME NEW i \in Ingest, Receive(i) PROVE Places'
    BY <2>2, TrackingAssumption DEF Receive, Keys, Time
  <2>3. ASSUME NEW i \in Ingest,
               Check(i) \/ Write(i) \/ WriteUnanswered(i) \/ Recheck(i)
                 \/ Remove(i) \/ RemoveFails(i) \/ Publish(i)
        PROVE  Places'
    BY <2>3 DEF Check, Write, WriteUnanswered, Recheck, Remove, RemoveFails, Publish, Upsert, Go
  <2>4. ASSUME NEW s \in Search,
               Cleanup(s) \/ CleanupFails(s) \/ GeoSearch(s) \/ Load(s) \/ Sweep(s) \/ SweepFails(s)
        PROVE  Places'
    BY <2>4 DEF Cleanup, CleanupFails, GeoSearch, Load, Sweep, SweepFails
  <2>5. ASSUME NEW t \in Share \cup Read, Authorize(t) PROVE Places'
    BY <2>5 DEF Authorize
  <2>6. ASSUME NEW t \in Share, UpdatePassenger(t) PROVE Places'
    BY <2>6 DEF UpdatePassenger, SetPassenger
  <2>7. ASSUME NEW t \in Read, GetPoint(t) PROVE Places'
    BY <2>7 DEF GetPoint
  <2>8. CASE UNCHANGED vars
    BY <2>8 DEF vars
  <2> QED
    BY <2>1, <2>2, <2>3, <2>4, <2>5, <2>6, <2>7, <2>8 DEF Next
<1> QED
  BY <1>1, <1>2, <1>3

----------------------------------------------------------------------------
(* The invariants *)

\* The Redis keys change together and stay searchable, and nothing is dated after now.
LEMMA KeysStep ==
  TypeOK /\ KeysAgree /\ HiddenNeedsSweep /\ Past /\ [Next]_vars
    => KeysAgree' /\ HiddenNeedsSweep' /\ Past'
<1> SUFFICES ASSUME Flags, Keys, Places, KeysAgree, HiddenNeedsSweep, Past, [Next]_vars
             PROVE  KeysAgree' /\ HiddenNeedsSweep' /\ Past'
  BY TypeParts
<1> USE TrackingAssumption DEF Keys, Point, Time, KeysAgree, HiddenNeedsSweep, Past, redis, tripVars
<1>1. CASE Tick
  BY <1>1 DEF Tick
<1>2. CASE GoOnline \/ GoOffline \/ DeleteDriverLocation \/ EndRide \/ ExpirePassenger
  BY <1>2 DEF GoOnline, GoOffline, DeleteDriverLocation, RemoveKeys, EndRide, ExpirePassenger
<1>3. ASSUME NEW i \in Ingest, Write(i) \/ WriteUnanswered(i)
      PROVE  KeysAgree' /\ HiddenNeedsSweep' /\ Past'
  BY <1>3 DEF Write, WriteUnanswered, Upsert, Places
<1>4. ASSUME NEW i \in Ingest,
             Receive(i) \/ Check(i) \/ Recheck(i) \/ Remove(i) \/ RemoveFails(i) \/ Publish(i)
      PROVE  KeysAgree' /\ HiddenNeedsSweep' /\ Past'
  BY <1>4 DEF Receive, Check, Recheck, Remove, RemoveFails, Publish, RemoveKeys
<1>5. ASSUME NEW s \in Search,
             Cleanup(s) \/ CleanupFails(s) \/ GeoSearch(s) \/ Load(s) \/ Sweep(s) \/ SweepFails(s)
      PROVE  KeysAgree' /\ HiddenNeedsSweep' /\ Past'
  BY <1>5 DEF Cleanup, CleanupFails, GeoSearch, Load, Sweep, SweepFails, RemoveKeys
<1>6. ASSUME NEW t \in Share \cup Read, Authorize(t) \/ UpdatePassenger(t) \/ GetPoint(t)
      PROVE  KeysAgree' /\ HiddenNeedsSweep' /\ Past'
  BY <1>6 DEF Authorize, UpdatePassenger, GetPoint
<1>7. CASE UNCHANGED vars
  BY <1>7 DEF vars
<1> QED
  BY <1>1, <1>2, <1>3, <1>4, <1>5, <1>6, <1>7 DEF Next

\* Whoever writes a point comes back to it; a driver that goes offline does so after what is stored.
LEMMA WriterStep == TypeOK /\ Past /\ WriterComesBack /\ [Next]_vars => WriterComesBack'
<1> SUFFICES ASSUME Flags, Keys, Places, Past, WriterComesBack, [Next]_vars
             PROVE  WriterComesBack'
  BY TypeParts
<1> USE TrackingAssumption DEF Flags, Keys, Point, Time, Places, Past, WriterComesBack, redis, tripVars
<1>1. CASE GoOnline \/ GoOffline \/ Tick
  BY <1>1 DEF GoOnline, GoOffline, Tick
<1>2. CASE DeleteDriverLocation \/ EndRide \/ ExpirePassenger
  BY <1>2 DEF DeleteDriverLocation, RemoveKeys, EndRide, ExpirePassenger
<1>3. ASSUME NEW i \in Ingest, Write(i) \/ WriteUnanswered(i)
      PROVE  WriterComesBack'
  BY <1>3 DEF Write, WriteUnanswered, Upsert, Go
<1>4. ASSUME NEW i \in Ingest, Receive(i) \/ Check(i) \/ Publish(i)
      PROVE  WriterComesBack'
  BY <1>4 DEF Receive, Check, Publish, Go
<1>5. ASSUME NEW i \in Ingest, Recheck(i)
      PROVE  WriterComesBack'
  <2>1. ~online => Go(i, "remove")
    <3>1. PICK on \in Presence : Go(i, IF on THEN "publish" ELSE "remove")
      BY <1>5, Zenon DEF Recheck
    <3>2. ~online => ~on
      BY <3>1, Zenon DEF Presence
    <3> QED
      BY <3>1, <3>2, Zenon
  <2>2. UNCHANGED <<online, since, payload, failed>>
    BY <1>5 DEF Recheck
  <2> QED
    BY <2>1, <2>2 DEF Go
<1>6. ASSUME NEW i \in Ingest, Remove(i) \/ RemoveFails(i)
      PROVE  WriterComesBack'
  BY <1>6 DEF Remove, RemoveFails, RemoveKeys, Go
<1>7. ASSUME NEW s \in Search,
             Cleanup(s) \/ CleanupFails(s) \/ GeoSearch(s) \/ Load(s) \/ Sweep(s) \/ SweepFails(s)
      PROVE  WriterComesBack'
  BY <1>7 DEF Cleanup, CleanupFails, GeoSearch, Load, Sweep, SweepFails, RemoveKeys
<1>8. ASSUME NEW t \in Share \cup Read, Authorize(t) \/ UpdatePassenger(t) \/ GetPoint(t)
      PROVE  WriterComesBack'
  BY <1>8 DEF Authorize, UpdatePassenger, GetPoint
<1>9. CASE UNCHANGED vars
  BY <1>9 DEF vars
<1> QED
  BY <1>1, <1>2, <1>3, <1>4, <1>5, <1>6, <1>7, <1>8, <1>9 DEF Next

\* A request that is received while none is on its way becomes the last one; any other marks the
\* two as crossed.
LEMMA PassengerStep == TypeOK /\ LastOnItsWay /\ [Next]_vars => LastOnItsWay'
<1> SUFFICES ASSUME Flags, Places, LastOnItsWay, [Next]_vars
             PROVE  LastOnItsWay'
  BY TypeParts
<1> USE TrackingAssumption DEF Flags, Places, LastOnItsWay, redis, tripVars
<1>1. ASSUME UNCHANGED <<pax, trip, posted, crossed>> PROVE LastOnItsWay'
  BY <1>1
<1>2. ASSUME NEW t \in Share \cup Read, Authorize(t) PROVE LastOnItsWay'
  BY <1>2 DEF Authorize
<1>3. ASSUME NEW t \in Share, UpdatePassenger(t) PROVE LastOnItsWay'
  BY <1>3 DEF UpdatePassenger, SetPassenger
<1>4. ASSUME NEW t \in Read, GetPoint(t) PROVE LastOnItsWay'
  BY <1>4 DEF GetPoint
<1>5. CASE ExpirePassenger
  BY <1>5 DEF ExpirePassenger
<1>6. CASE GoOnline \/ GoOffline \/ Tick \/ DeleteDriverLocation \/ EndRide
  BY <1>1, <1>6 DEF GoOnline, GoOffline, Tick, DeleteDriverLocation, EndRide
<1>7. ASSUME NEW i \in Ingest,
             Receive(i) \/ Check(i) \/ Write(i) \/ WriteUnanswered(i) \/ Recheck(i)
               \/ Remove(i) \/ RemoveFails(i) \/ Publish(i)
      PROVE  LastOnItsWay'
  BY <1>1, <1>7 DEF Receive, Check, Write, WriteUnanswered, Recheck, Remove, RemoveFails, Publish
<1>8. ASSUME NEW s \in Search,
             Cleanup(s) \/ CleanupFails(s) \/ GeoSearch(s) \/ Load(s) \/ Sweep(s) \/ SweepFails(s)
      PROVE  LastOnItsWay'
  BY <1>1, <1>8 DEF Cleanup, CleanupFails, GeoSearch, Load, Sweep, SweepFails
<1>9. CASE UNCHANGED vars
  BY <1>1, <1>9 DEF vars
<1> QED
  BY <1>2, <1>3, <1>4, <1>5, <1>6, <1>7, <1>8, <1>9 DEF Next

\* Nothing is stored before the first request.
LEMMA PointsInit == Init => PointsInv
<1> SUFFICES ASSUME Init PROVE PointsInv
  OBVIOUS
<1>1. Flags
  BY Zenon DEF Init, Flags
<1>2. Keys /\ Places
  BY TrackingAssumption DEF Init, Keys, Places, Time
<1>3. KeysAgree /\ HiddenNeedsSweep /\ Past /\ WriterComesBack /\ LastOnItsWay
  BY DEF Init, KeysAgree, HiddenNeedsSweep, Past, WriterComesBack, LastOnItsWay
<1> QED
  BY <1>1, <1>2, <1>3, TypeParts DEF PointsInv

\* The whole invariant holds of every behaviour.
LEMMA PointsAlways == Spec => []PointsInv
<1>1. PointsInv /\ [Next]_vars => PointsInv'
  BY TypeStep, KeysStep, WriterStep, PassengerStep DEF PointsInv
<1> QED
  BY <1>1, PointsInit, PTL DEF Spec

\* Whatever ingests, searches, removals, expirations and failures interleave, the observed-at key is
\* that of the stored point, a live point is found by searches unless a sweep crossed its writing,
\* and the passenger's point is the last one received unless two requests crossed.
THEOREM PointsHoldAlways == Spec => []PointsHold
<1>1. PointsInv => PointsHold
  BY DEF PointsInv, PointsHold, TypeOK, LastOnItsWay, PassengerPointIsLast
<1> QED
  BY <1>1, PointsAlways, PTL

\* A driver that is offline, with no ingest on its way, has no point written after it went offline
\* unless a call failed: the second presence check of Ingest closes the gap of the first.
THEOREM OfflineKeepsNothing == Spec => []NothingWrittenOffline
<1>1. PointsInv => NothingWrittenOffline
  BY DEF PointsInv, WriterComesBack, NothingWrittenOffline, Quiet
<1> QED
  BY <1>1, PointsAlways, PTL

\* A stored point is only replaced by one observed later: the upsert script compares with a key that
\* KeysAgree makes that of the stored point.
THEOREM PointsNeverGoBack == Spec => NeverOlder
<1> DEFINE Forward == payload # None /\ payload' # None => payload'.seen >= payload.seen
<1>1. PointsInv /\ [Next]_vars => [Forward]_vars
  <2> SUFFICES ASSUME Keys, Places, KeysAgree, Next PROVE Forward
    BY TypeParts DEF PointsInv
  <2> USE TrackingAssumption DEF Keys, Point, Time, redis, tripVars
  <2>0. payload' = payload => Forward
    OBVIOUS
  <2>1. CASE GoOnline \/ GoOffline \/ Tick \/ DeleteDriverLocation \/ EndRide \/ ExpirePassenger
    BY <2>0, <2>1 DEF GoOnline, GoOffline, Tick, DeleteDriverLocation, RemoveKeys, EndRide, ExpirePassenger
  <2>2. ASSUME NEW i \in Ingest, Write(i) \/ WriteUnanswered(i)
        PROVE  Forward
    BY <2>0, <2>2 DEF Write, WriteUnanswered, Upsert, Places, KeysAgree
  <2>3. ASSUME NEW i \in Ingest,
               Receive(i) \/ Check(i) \/ Recheck(i) \/ Remove(i) \/ RemoveFails(i) \/ Publish(i)
        PROVE  Forward
    BY <2>0, <2>3 DEF Receive, Check, Recheck, Remove, RemoveFails, Publish, RemoveKeys
  <2>4. ASSUME NEW s \in Search,
               Cleanup(s) \/ CleanupFails(s) \/ GeoSearch(s) \/ Load(s) \/ Sweep(s) \/ SweepFails(s)
        PROVE  Forward
    BY <2>0, <2>4 DEF Cleanup, CleanupFails, GeoSearch, Load, Sweep, SweepFails, RemoveKeys
  <2>5. ASSUME NEW t \in Share \cup Read, Authorize(t) \/ UpdatePassenger(t) \/ GetPoint(t)
        PROVE  Forward
    BY <2>0, <2>5 DEF Authorize, UpdatePassenger, GetPoint
  <2> QED
    BY <2>1, <2>2, <2>3, <2>4, <2>5 DEF Next
<1> QED
  BY <1>1, PointsAlways, PTL DEF Spec, NeverOlder
=============================================================================
