--------------------------- MODULE ContentProofs ----------------------------
(* What is kept of a ride and its people. The driver's profile, for any number of
   saves, status requests and acceptances (a driver with a ride stays online with
   the vehicle the ride shows); the chat of the ride, for any number of requests;
   its reviews, for any number of them and any page; and private objects, for any
   uploads, downloads and runs of the migration. *)
EXTENDS DriverPresence, Chat, Reviews, PrivateObjects, FiniteSetTheorems, TLAPS

----------------------------------------------------------------------------
(* A driver with a ride is online, in the vehicle that its passenger was told *)

\* The transactions that are past their lock of the driver_profiles row.
PastRowLock(r) ==
  \/ r \in Savers /\ pc[r] = "locked"
  \/ r \in Togglers /\ pc[r] \in {"locked", "counted"}
  \/ r \in Accepters /\ pc[r] \in {"first", "locked"}

\* They hold it, so there is one of them at a time.
RowHeld == \A r \in ProfileRequests : PastRowLock(r) => profileRow = r

\* What they looked at under the lock still holds.
OnlineUnderLock == \A a \in Accepters : pc[a] \in {"first", "locked"} => online
CountUnderLock == \A t \in Togglers : pc[t] = "counted" /\ count[t] = 0 => Active = {}

\* TypeOK and what it leaves open: the domains of the functions, the rides of a driver.
Flags == online \in BOOLEAN /\ fresh \in BOOLEAN

Rows ==
  /\ vehicle \in Vehicles
  /\ ride \in [Accepters -> Vehicles \cup {None}]
  /\ userRow \in ProfileRequests \cup {None} /\ profileRow \in ProfileRequests \cup {None}
  /\ pc \in [ProfileRequests -> {"idle", "first", "second", "locked", "counted", "done"}]

Inputs ==
  /\ input = [r \in ProfileRequests |-> input[r]]
  /\ \A s \in Savers : input[s] \in [read : Vehicles, want : Vehicles \cup {None}]
  /\ \A t \in Togglers : input[t] \in BOOLEAN

Counts == count \in [Togglers -> 0 .. MaxRides] /\ CountActiveRides <= MaxRides

PresenceInv ==
  /\ Flags /\ Rows /\ Inputs /\ Counts
  /\ RowHeld /\ OnlineUnderLock /\ CountUnderLock /\ RideNeedsOnline /\ RideShowsVehicle

\* A finite set of acceptances has a number of active rides, which is zero when there is none.
LEMMA RidesCounted ==
  ASSUME PresenceConstants
  PROVE  IsFiniteSet(Active) /\ CountActiveRides \in Nat /\ (CountActiveRides = 0 => Active = {})
<1>1. IsFiniteSet(Active)
  BY FS_Subset DEF PresenceConstants, Active
<1> QED
  BY <1>1, FS_CardinalityType, FS_EmptySet DEF CountActiveRides

\* Of the rides, only an acceptance adds one, and only below the limit.
LEMMA CountStep ==
  ASSUME PresenceConstants, Counts, NEW a,
         Active' \subseteq Active \/ (Active' \subseteq Active \cup {a} /\ CountActiveRides < MaxRides)
  PROVE  (CountActiveRides <= MaxRides)'
<1>1. IsFiniteSet(Active) /\ CountActiveRides \in Nat
  BY RidesCounted
<1>2. CASE Active' \subseteq Active
  <2>1. Cardinality(Active') <= Cardinality(Active)
    BY <1>1, <1>2, FS_Subset
  <2> QED
    BY <1>1, <2>1, FS_CardinalityType, FS_Subset, <1>2 DEF CountActiveRides, Counts, PresenceConstants
<1>3. CASE Active' \subseteq Active \cup {a} /\ CountActiveRides < MaxRides
  <2>1. IsFiniteSet(Active \cup {a}) /\ Cardinality(Active \cup {a}) <= CountActiveRides + 1
    BY <1>1, FS_AddElement DEF CountActiveRides
  <2>2. Cardinality(Active') <= Cardinality(Active \cup {a}) /\ Cardinality(Active') \in Nat
    BY <1>3, <2>1, FS_Subset, FS_CardinalityType
  <2>3. Cardinality(Active \cup {a}) \in Nat
    BY <2>1, FS_CardinalityType
  <2> QED
    BY <1>1, <1>3, <2>1, <2>2, <2>3 DEF CountActiveRides, PresenceConstants
<1> QED
  BY <1>2, <1>3

----------------------------------------------------------------------------
(* Types *)

\* The presence flags stay Boolean.
LEMMA FlagsStep == Flags /\ Inputs /\ [Next]_vars => Flags'
<1> SUFFICES ASSUME Flags, Inputs, [Next]_vars PROVE Flags'
  OBVIOUS
<1> USE DEF Flags, Inputs
<1>1. ASSUME NEW s \in Savers,
             ReadProfile(s) \/ UpdateUserProfile(s) \/ LockDriverProfile(s) \/ UpdateDriverProfile(s)
      PROVE  Flags'
  BY <1>1, Zenon DEF ReadProfile, UpdateUserProfile, LockDriverProfile, UpdateDriverProfile
<1>2. ASSUME NEW t \in Togglers,
             LockForOnlineStatus(t) \/ Count(t) \/ Blocked(t) \/ UpdateDriverOnlineStatus(t)
      PROVE  Flags'
  BY <1>2, Zenon DEF LockForOnlineStatus, Count, Blocked, UpdateDriverOnlineStatus
<1>3. ASSUME NEW a \in Accepters, LockOnlineDriver(a) \/ LockAccount(a) \/ AcceptRide(a) \/ EndRide(a)
      PROVE  Flags'
  BY <1>3, Zenon DEF LockOnlineDriver, LockAccount, AcceptRide, EndRide
<1>4. ASSUME NEW r, Rollback(r) \/ \E s \in Savers : BreakDeadlock(s, r)
      PROVE  Flags'
  BY <1>4, Zenon DEF Rollback, BreakDeadlock
<1>5. CASE PresenceAges \/ UNCHANGED vars
  BY <1>5, Zenon DEF PresenceAges, vars
<1> QED
  BY <1>1, <1>2, <1>3, <1>4, <1>5 DEF Next, Step, ProfileRequests

\* The rows keep the types of their columns, and a request one of its places.
LEMMA RowsStep ==
  ASSUME PresenceConstants, Rows, Inputs, [Next]_vars
  PROVE  Rows'
<1> USE DEF PresenceConstants, Rows, ProfileRequests, Go, EndTransaction
<1>1. ASSUME NEW s \in Savers, ReadProfile(s) \/ UpdateUserProfile(s) \/ LockDriverProfile(s)
      PROVE  Rows'
  BY <1>1 DEF ReadProfile, UpdateUserProfile, LockDriverProfile
<1>2. ASSUME NEW s \in Savers, UpdateDriverProfile(s)
      PROVE  Rows'
  <2>1. ProfileUpdate(s) \in Vehicles
    BY DEF ProfileUpdate, Inputs
  <2>2. vehicle' \in Vehicles
    BY <1>2, <2>1 DEF UpdateDriverProfile
  <2> QED
    BY <1>2, <2>2 DEF UpdateDriverProfile
<1>3. ASSUME NEW t \in Togglers,
             LockForOnlineStatus(t) \/ Count(t) \/ Blocked(t) \/ UpdateDriverOnlineStatus(t)
      PROVE  Rows'
  BY <1>3 DEF LockForOnlineStatus, Count, Blocked, UpdateDriverOnlineStatus
<1>4. ASSUME NEW a \in Accepters, LockOnlineDriver(a) \/ LockAccount(a)
      PROVE  Rows'
  BY <1>4 DEF LockOnlineDriver, LockAccount
<1>5. ASSUME NEW a \in Accepters, AcceptRide(a) \/ EndRide(a)
      PROVE  Rows'
  BY <1>5 DEF AcceptRide, EndRide
<1>6. ASSUME NEW r \in ProfileRequests, Rollback(r)
      PROVE  Rows'
  BY <1>6 DEF Rollback
<1>7. ASSUME NEW s \in Savers, NEW a \in Accepters, BreakDeadlock(s, a)
      PROVE  Rows'
  BY <1>7 DEF BreakDeadlock
<1>8. CASE PresenceAges \/ UNCHANGED vars
  BY <1>8 DEF PresenceAges, vars
<1> QED
  BY <1>1, <1>2, <1>3, <1>4, <1>5, <1>6, <1>7, <1>8 DEF Next, Step

\* A saver keeps what its handler read and was asked for, a toggler what it was asked for.
LEMMA InputsStep ==
  ASSUME PresenceConstants, Rows, Inputs, [Next]_vars
  PROVE  Inputs'
<1> USE DEF PresenceConstants, Inputs
<1>0. ASSUME UNCHANGED input PROVE Inputs'
  BY <1>0
<1>1. ASSUME NEW s \in Savers, ReadProfile(s)
      PROVE  Inputs'
  <2>1. PICK want \in Vehicles \cup {None} : input' = [input EXCEPT ![s] = [read |-> vehicle, want |-> want]]
    BY <1>1 DEF ReadProfile
  <2>2. \A r \in ProfileRequests : input'[r] = IF r = s THEN [read |-> vehicle, want |-> want] ELSE input[r]
    BY <2>1 DEF ProfileRequests
  <2>3. \A t \in Togglers : input'[t] \in BOOLEAN
    BY <2>2, Zenon DEF ProfileRequests
  <2> QED
    BY <2>1, <2>2, <2>3 DEF ProfileRequests, Rows
<1>2. ASSUME NEW t \in Togglers, LockForOnlineStatus(t)
      PROVE  Inputs'
  <2>1. PICK on \in BOOLEAN : input' = [input EXCEPT ![t] = on]
    BY <1>2 DEF LockForOnlineStatus
  <2>2. \A r \in ProfileRequests : input'[r] = IF r = t THEN on ELSE input[r]
    BY <2>1 DEF ProfileRequests
  <2>3. \A u \in Togglers : input'[u] \in BOOLEAN
    BY <2>2, Zenon DEF ProfileRequests
  <2> QED
    BY <2>1, <2>2, <2>3 DEF ProfileRequests
<1>3. ASSUME NEW s \in Savers, UpdateUserProfile(s) \/ LockDriverProfile(s) \/ UpdateDriverProfile(s)
      PROVE  Inputs'
  BY <1>0, <1>3 DEF UpdateUserProfile, LockDriverProfile, UpdateDriverProfile
<1>4. ASSUME NEW t \in Togglers, Count(t) \/ Blocked(t) \/ UpdateDriverOnlineStatus(t)
      PROVE  Inputs'
  BY <1>0, <1>4 DEF Count, Blocked, UpdateDriverOnlineStatus
<1>5. ASSUME NEW a \in Accepters, LockOnlineDriver(a) \/ LockAccount(a) \/ AcceptRide(a) \/ EndRide(a)
      PROVE  Inputs'
  BY <1>0, <1>5 DEF LockOnlineDriver, LockAccount, AcceptRide, EndRide
<1>6. ASSUME NEW r, Rollback(r) \/ \E s \in Savers : BreakDeadlock(s, r)
      PROVE  Inputs'
  BY <1>0, <1>6 DEF Rollback, BreakDeadlock
<1>7. CASE PresenceAges \/ UNCHANGED vars
  BY <1>0, <1>7 DEF PresenceAges, vars
<1> QED
  BY <1>1, <1>2, <1>3, <1>4, <1>5, <1>6, <1>7 DEF Next, Step, ProfileRequests

\* A driver never has more active rides than the limit, nor is a larger number ever counted.
LEMMA CountsStep ==
  ASSUME PresenceConstants, Rows, Counts, [Next]_vars
  PROVE  Counts'
<1>a. ASSUME UNCHANGED <<count, ride>> PROVE Counts'
  BY <1>a DEF Counts, CountActiveRides, Active
<1>1. ASSUME NEW s \in Savers,
             ReadProfile(s) \/ UpdateUserProfile(s) \/ LockDriverProfile(s) \/ UpdateDriverProfile(s)
      PROVE  Counts'
  BY <1>a, <1>1 DEF ReadProfile, UpdateUserProfile, LockDriverProfile, UpdateDriverProfile
<1>2. ASSUME NEW t \in Togglers, LockForOnlineStatus(t) \/ Blocked(t) \/ UpdateDriverOnlineStatus(t)
      PROVE  Counts'
  BY <1>a, <1>2 DEF LockForOnlineStatus, Blocked, UpdateDriverOnlineStatus
<1>3. ASSUME NEW t \in Togglers, Count(t)
      PROVE  Counts'
  <2>1. CountActiveRides \in 0 .. MaxRides
    BY RidesCounted DEF Counts, PresenceConstants
  <2>2. CountActiveRides' = CountActiveRides
    BY <1>3 DEF Count, CountActiveRides, Active
  <2> QED
    BY <1>3, <2>1, <2>2 DEF Count, Counts
<1>4. ASSUME NEW a \in Accepters, LockOnlineDriver(a) \/ LockAccount(a)
      PROVE  Counts'
  BY <1>a, <1>4 DEF LockOnlineDriver, LockAccount
<1>5. ASSUME NEW a \in Accepters, AcceptRide(a) \/ EndRide(a)
      PROVE  Counts'
  <2>1. Active' \subseteq Active \/ (Active' \subseteq Active \cup {a} /\ CountActiveRides < MaxRides)
    BY <1>5 DEF AcceptRide, EndRide, Active, Rows
  <2>2. count' = count
    BY <1>5 DEF AcceptRide, EndRide
  <2> QED
    BY <2>1, <2>2, CountStep DEF Counts
<1>6. ASSUME NEW r, Rollback(r) \/ \E s \in Savers : BreakDeadlock(s, r)
      PROVE  Counts'
  BY <1>a, <1>6 DEF Rollback, BreakDeadlock
<1>7. CASE PresenceAges \/ UNCHANGED vars
  BY <1>a, <1>7 DEF PresenceAges, vars
<1> QED
  BY <1>1, <1>2, <1>3, <1>4, <1>5, <1>6, <1>7 DEF Next, Step, ProfileRequests

----------------------------------------------------------------------------
(* The profileRow lock and what holds under it *)

\* A lock is taken when it is free and given up with the transaction.
LEMMA LockStep ==
  ASSUME PresenceConstants, Rows, RowHeld, [Next]_vars
  PROVE  RowHeld'
<1> USE DEF PresenceConstants, Rows, ProfileRequests, RowHeld, PastRowLock, Go, EndTransaction
<1>1. ASSUME NEW s \in Savers, ReadProfile(s) \/ UpdateUserProfile(s) \/ LockDriverProfile(s)
      PROVE  RowHeld'
  BY <1>1 DEF ReadProfile, UpdateUserProfile, LockDriverProfile
<1>2. ASSUME NEW s \in Savers, UpdateDriverProfile(s)
      PROVE  RowHeld'
  BY <1>2 DEF UpdateDriverProfile
<1>3. ASSUME NEW t \in Togglers, LockForOnlineStatus(t) \/ Count(t)
      PROVE  RowHeld'
  BY <1>3 DEF LockForOnlineStatus, Count
<1>4. ASSUME NEW t \in Togglers, Blocked(t) \/ UpdateDriverOnlineStatus(t)
      PROVE  RowHeld'
  BY <1>4 DEF Blocked, UpdateDriverOnlineStatus
<1>5. ASSUME NEW a \in Accepters, LockOnlineDriver(a) \/ LockAccount(a)
      PROVE  RowHeld'
  BY <1>5 DEF LockOnlineDriver, LockAccount
<1>6. ASSUME NEW a \in Accepters, AcceptRide(a) \/ EndRide(a)
      PROVE  RowHeld'
  BY <1>6 DEF AcceptRide, EndRide
<1>7. ASSUME NEW r \in ProfileRequests, Rollback(r)
      PROVE  RowHeld'
  BY <1>7 DEF Rollback
<1>8. ASSUME NEW s \in Savers, NEW a \in Accepters, BreakDeadlock(s, a)
      PROVE  RowHeld'
  BY <1>8 DEF BreakDeadlock
<1>9. CASE PresenceAges \/ UNCHANGED vars
  BY <1>9 DEF PresenceAges, vars
<1> QED
  BY <1>1, <1>2, <1>3, <1>4, <1>5, <1>6, <1>7, <1>8, <1>9 DEF Next, Step

\* No two transactions are past the lock of the profile row.
LEMMA OnePastRowLock ==
  ASSUME RowHeld, NEW r \in ProfileRequests, NEW q \in ProfileRequests, PastRowLock(r), PastRowLock(q)
  PROVE  r = q
  BY DEF RowHeld

\* Only an acceptance that holds the row gives the driver a ride, and only a toggler that holds it
\* changes the presence: neither changes what another has seen under the lock.
LEMMA UnderLockStep ==
  ASSUME PresenceConstants, PresenceInv, [Next]_vars
  PROVE  OnlineUnderLock' /\ CountUnderLock' /\ RideNeedsOnline' /\ RideShowsVehicle'
<1> USE DEF PresenceConstants, PresenceInv, Flags, Rows, ProfileRequests, Go, EndTransaction
<1> DEFINE Goal == OnlineUnderLock' /\ CountUnderLock' /\ RideNeedsOnline' /\ RideShowsVehicle'
<1>a. \A t \in Togglers : count[t] \in 0 .. MaxRides
  BY DEF Counts
<1>b. ASSUME UNCHANGED <<online, vehicle, ride, count>>,
             \A a \in Accepters : pc'[a] \in {"first", "locked"} => pc[a] \in {"first", "locked"} \/ online,
             \A t \in Togglers : pc'[t] = "counted" => pc[t] = "counted"
      PROVE  Goal
  BY <1>b DEF OnlineUnderLock, CountUnderLock, RideNeedsOnline, RideShowsVehicle, Active
<1>1. ASSUME NEW s \in Savers, ReadProfile(s) \/ UpdateUserProfile(s) \/ LockDriverProfile(s)
      PROVE  Goal
  BY <1>b, <1>1 DEF ReadProfile, UpdateUserProfile, LockDriverProfile
<1>2. ASSUME NEW s \in Savers, UpdateDriverProfile(s)
      PROVE  Goal
  <2>1. online => vehicle' = vehicle
    BY <1>2 DEF UpdateDriverProfile, VehicleChanges
  <2>2. ~online => Active = {}
    BY DEF RideNeedsOnline
  <2> QED
    BY <1>2, <2>1, <2>2
       DEF UpdateDriverProfile, OnlineUnderLock, CountUnderLock, RideNeedsOnline, RideShowsVehicle, Active
<1>3. ASSUME NEW t \in Togglers, LockForOnlineStatus(t) \/ Blocked(t)
      PROVE  Goal
  BY <1>b, <1>3 DEF LockForOnlineStatus, Blocked
<1>4. ASSUME NEW t \in Togglers, Count(t)
      PROVE  Goal
  <2>1. CountActiveRides = 0 => Active = {}
    BY RidesCounted
  <2> QED
    BY <1>4, <2>1 DEF Count, Counts, OnlineUnderLock, CountUnderLock, RideNeedsOnline, RideShowsVehicle, Active
<1>5. ASSUME NEW t \in Togglers, UpdateDriverOnlineStatus(t)
      PROVE  Goal
  <2>1. PastRowLock(t)
    BY <1>5 DEF UpdateDriverOnlineStatus, PastRowLock
  <2>2. \A a \in Accepters : pc[a] \notin {"first", "locked"}
    BY <2>1, OnePastRowLock DEF PastRowLock
  <2>3. \A a \in Accepters : pc'[a] \notin {"first", "locked"}
    BY <1>5, <2>2 DEF UpdateDriverOnlineStatus
  <2>4. \A u \in Togglers : pc'[u] = "counted" => pc[u] = "counted"
    BY <1>5 DEF UpdateDriverOnlineStatus
  <2>5. Active # {} => online'
    BY <1>5 DEF UpdateDriverOnlineStatus, CountUnderLock, Inputs
  <2>6. UNCHANGED <<vehicle, ride, count>>
    BY <1>5 DEF UpdateDriverOnlineStatus
  <2> QED
    BY <2>3, <2>4, <2>5, <2>6 DEF OnlineUnderLock, CountUnderLock, RideNeedsOnline, RideShowsVehicle, Active
<1>6. ASSUME NEW a \in Accepters, LockOnlineDriver(a) \/ LockAccount(a)
      PROVE  Goal
  BY <1>b, <1>6 DEF LockOnlineDriver, LockAccount
<1>7. ASSUME NEW a \in Accepters, AcceptRide(a)
      PROVE  Goal
  <2>1. PastRowLock(a) /\ online
    BY <1>7 DEF AcceptRide, PastRowLock, OnlineUnderLock
  <2>2. \A t \in Togglers : pc[t] # "counted"
    BY <2>1, OnePastRowLock DEF PastRowLock
  <2>3. \A t \in Togglers : pc'[t] # "counted"
    BY <1>7, <2>2 DEF AcceptRide
  <2>4. online' /\ vehicle' = vehicle
    BY <1>7, <2>1 DEF AcceptRide
  <2>5. \A b \in Accepters : ride'[b] \in {ride[b], vehicle}
    BY <1>7 DEF AcceptRide
  <2> QED
    BY <2>3, <2>4, <2>5 DEF OnlineUnderLock, CountUnderLock, RideNeedsOnline, RideShowsVehicle, Active
<1>8. ASSUME NEW a \in Accepters, EndRide(a)
      PROVE  Goal
  <2>1. Active' \subseteq Active /\ \A b \in Active' : ride'[b] = ride[b]
    BY <1>8 DEF EndRide, Active
  <2> QED
    BY <1>8, <2>1 DEF EndRide, OnlineUnderLock, CountUnderLock, RideNeedsOnline, RideShowsVehicle
<1>9. ASSUME NEW r \in ProfileRequests, Rollback(r)
      PROVE  Goal
  BY <1>b, <1>9 DEF Rollback
<1>10. ASSUME NEW s \in Savers, NEW a \in Accepters, BreakDeadlock(s, a)
       PROVE  Goal
  BY <1>b, <1>10 DEF BreakDeadlock
<1>11. CASE PresenceAges \/ UNCHANGED vars
  BY <1>b, <1>11 DEF PresenceAges, vars
<1> QED
  BY <1>1, <1>2, <1>3, <1>4, <1>5, <1>6, <1>7, <1>8, <1>9, <1>10, <1>11 DEF Next, Step

\* A driver starts offline, without rides.
LEMMA PresenceInit == ASSUME PresenceConstants, Init PROVE PresenceInv
<1> USE DEF PresenceConstants, Init
<1>1. Flags
  BY Zenon DEF Flags
<1>2. Active = {}
  BY DEF Active
<1>3. Counts
  BY <1>2, FS_EmptySet DEF Counts, CountActiveRides
<1>4. Rows
  BY DEF Rows, ProfileRequests
<1>5. Inputs
  BY DEF Inputs, ProfileRequests
<1>6. RowHeld /\ OnlineUnderLock /\ CountUnderLock /\ RideNeedsOnline /\ RideShowsVehicle
  BY <1>2 DEF RowHeld, PastRowLock, OnlineUnderLock, CountUnderLock, RideNeedsOnline, RideShowsVehicle, ProfileRequests
<1> QED
  BY <1>1, <1>3, <1>4, <1>5, <1>6 DEF PresenceInv

\* However profile saves, online status requests, acceptances, endings of rides, rollbacks and
\* broken deadlocks interleave, a driver with an active ride is online and drives the vehicle its
\* passenger was told: everything that changes the one or adds to the other holds the profile row.
THEOREM RideHasItsDriverAlways == ASSUME PresenceConstants PROVE Spec => []RideHasItsDriver
<1>1. Init => PresenceInv
  BY PresenceInit
<1>2. PresenceInv /\ [Next]_vars => PresenceInv'
  BY FlagsStep, RowsStep, InputsStep, CountsStep, LockStep, UnderLockStep DEF PresenceInv
<1>3. PresenceInv => RideHasItsDriver
  <2> SUFFICES ASSUME PresenceInv PROVE TypeOK
    BY DEF PresenceInv, RideHasItsDriver
  <2>1. {online, fresh} \subseteq BOOLEAN
    BY Zenon DEF PresenceInv, Flags
  <2> QED
    BY <2>1 DEF PresenceInv, TypeOK, Rows, Inputs, Counts
<1> QED
  BY <1>1, <1>2, <1>3, PTL DEF Spec

----------------------------------------------------------------------------
(* Chat: the messages of a request, and what acknowledgements are made of *)

\* The list has a request's message once.
OneMessageEach == \A i, j \in DOMAIN history : history[i].id = history[j].id => i = j

\* Whose message is in the list has ended; before that it deletes its picture only after a lost answer.
HeldEnded ==
  \A i \in DOMAIN history :
    \/ talk[history[i].id].pc = "done"
    \/ talk[history[i].id].pc = "cleanup" /\ history[i].id \in broken

\* A picture is stored before its message is sent.
StoredFirst ==
  \A q \in Talker :
    /\ q \in objects => talk[q].op = "image" /\ talk[q].pc \notin {"idle", "assigned"}
    /\ talk[q].op = "image" /\ talk[q].pc \in {"stored", "open", "ready"} => q \in objects

\* Whatever was stamped was stamped after the clock began.
StampedLater ==
  /\ time > 0 /\ \A q \in Talker : talk[q].pc # "idle" => talk[q].stamp > 0
  /\ \A i \in DOMAIN history : history[i].at > 0

InKnown(u, stamp) == \E j \in DOMAIN history : j <= known[u] /\ history[j].at = stamp

\* An acknowledgement under way, and a watermark, name a message of the list its reader loaded.
ReadsKnown ==
  /\ \A q \in Talker : talk[q].op = "read" /\ talk[q].pc = "ready" => InKnown(talk[q].by, talk[q].stamp)
  /\ \A u \in User : watermark[u] = 0 \/ InKnown(u, watermark[u])

\* Only a room that exists is resolved.
ResolvedExists == room.locked => room.exists

ChatInv ==
  /\ ChatTypeOK /\ OneMessageEach /\ HeldEnded /\ StoredFirst /\ StampedLater /\ ReadsKnown /\ ResolvedExists
  /\ PictureMatchesMessage

LEMMA MessagesFit ==
  ASSUME ChatConstants, NEW h \in Seq(Message), \A i, j \in DOMAIN h : h[i].id = h[j].id => i = j
  PROVE  Len(h) <= Cardinality(Talker)
<1>1. SUFFICES ASSUME Cardinality(Talker) < Len(h) PROVE FALSE
  BY FS_CardinalityType DEF ChatConstants
<1> DEFINE f == [i \in 1 .. Len(h) |-> h[i].id]
<1>2. f \in [1 .. Len(h) -> Talker]
  <2>1. ASSUME NEW i \in 1 .. Len(h) PROVE h[i].id \in Talker
    <3>1. h[i] \in Message
      OBVIOUS
    <3> QED
      BY <3>1 DEF Message
  <2> QED
    BY <2>1
<1>3. IsFiniteSet(1 .. Len(h)) /\ Cardinality(1 .. Len(h)) = Len(h)
  <2>1. Len(h) \in Nat /\ Len(h) \in Int /\ 1 \in Int
    OBVIOUS
  <2>2. /\ IsFiniteSet(1 .. Len(h))
        /\ Cardinality(1 .. Len(h)) = IF 1 > Len(h) THEN 0 ELSE Len(h) - 1 + 1
    BY <2>1, FS_Interval, Zenon
  <2> QED
    BY <2>1, <2>2
<1>4. \E i, j \in 1 .. Len(h) : i # j /\ f[i] = f[j]
  <2> HIDE DEF f
  <2> QED
    BY <1>1, <1>2, <1>3, FS_PigeonHole DEF ChatConstants
<1> QED
  BY <1>4

LEMMA MessageParts ==
  ASSUME ChatTypeOK
  PROVE  /\ DOMAIN history = 1 .. Len(history) /\ Len(history) \in Nat
         /\ \A i \in DOMAIN history : /\ history[i].id \in Talker /\ history[i].by \in User
                                      /\ history[i].at \in 0 .. ChatTime
<1>1. \A i \in DOMAIN history : history[i] \in Message
  BY DEF ChatTypeOK
<1> QED
  BY <1>1 DEF ChatTypeOK, Message

\* A step of a request leaves the others alone, and what it asks for.
Advances(q) ==
  /\ talk' \in [Talker -> TalkState] /\ \A p \in Talker \ {q} : talk'[p] = talk[p]
  /\ talk'[q].op = talk[q].op /\ talk'[q].by = talk[q].by /\ talk'[q].stamp = talk[q].stamp

LEMMA MoveAdvances ==
  ASSUME ChatTypeOK, NEW q \in Talker, NEW to \in {"assigned", "stored", "open", "ready", "cleanup", "done"}, Move(q, to)
  PROVE  Advances(q) /\ talk'[q].pc = to
<1>0. talk[q] \in TalkState
  BY DEF ChatTypeOK
<1>1. [talk[q] EXCEPT !.pc = to] \in TalkState
  BY <1>0 DEF TalkState
<1>2. talk' = [talk EXCEPT ![q] = [talk[q] EXCEPT !.pc = to]]
  BY DEF Move, ChatTypeOK
<1> QED
  BY <1>0, <1>1, <1>2 DEF Advances, ChatTypeOK, TalkState

LEMMA LeaveAdvances ==
  ASSUME ChatTypeOK, NEW q \in Talker, NEW answer \in {"ok", "refused"}, Leave(q, answer)
  PROVE  Advances(q) /\ talk'[q].pc = "done"
<1>0. talk[q] \in TalkState
  BY DEF ChatTypeOK
<1>1. [talk[q] EXCEPT !.pc = "done", !.answer = answer] \in TalkState
  BY <1>0 DEF TalkState
<1>2. talk' = [talk EXCEPT ![q] = [talk[q] EXCEPT !.pc = "done", !.answer = answer]]
  BY DEF Leave, ChatTypeOK
<1> QED
  BY <1>0, <1>1, <1>2 DEF Advances, ChatTypeOK, TalkState

LEMMA RejectAdvances ==
  ASSUME ChatTypeOK, NEW q \in Talker, Reject(q)
  PROVE  Advances(q) /\ talk'[q].pc = IF talk[q].op = "image" THEN "cleanup" ELSE "done"
<1>1. CASE talk[q].op = "image"
  BY <1>1, MoveAdvances DEF Reject
<1>2. CASE talk[q].op # "image"
  BY <1>2, LeaveAdvances DEF Reject
<1> QED
  BY <1>1, <1>2

\* What a request may do before its message, its picture or its acknowledgement is at stake.
Proceeds(q) ==
  /\ talk[q].pc \in {"assigned", "stored", "open", "ready"} /\ Advances(q)
  /\ talk'[q].pc \in {"open", "ready", "cleanup", "done"}
  /\ talk[q].op = "image" => IF talk[q].pc = "assigned" THEN talk'[q].pc = "done" ELSE talk'[q].pc # "done"
  /\ talk[q].op = "read" => talk'[q].pc # "ready"

LEMMA ProceedsInv ==
  ASSUME ChatConstants, ChatInv, NEW q \in Talker, Proceeds(q),
         UNCHANGED <<contact, history, watermark, objects, time, broken, known>>,
         room' \in [exists : BOOLEAN, locked : BOOLEAN], ResolvedExists', members' \subseteq {Passenger, Driver}
  PROVE  ChatInv'
<1>1. ChatTypeOK'
  BY DEF ChatInv, ChatTypeOK, Proceeds, Advances
<1>2. ChatTypeOK /\ \A i \in DOMAIN history : history[i].id \in Talker \ {q}
  BY MessageParts DEF ChatInv, HeldEnded, Proceeds
<1>3. OneMessageEach'
  BY DEF ChatInv, OneMessageEach
<1>4. HeldEnded'
  BY <1>2 DEF ChatInv, HeldEnded, Proceeds, Advances
<1>5. StoredFirst'
  BY DEF ChatInv, StoredFirst, Proceeds, Advances
<1>6. StampedLater'
  BY DEF ChatInv, StampedLater, Proceeds, Advances
<1>7. ReadsKnown'
  BY DEF ChatInv, ReadsKnown, InKnown, Proceeds, Advances
<1>8. PictureMatchesMessage'
  <2> SUFFICES ASSUME NEW p \in Talker, talk'[p].pc = "done", talk'[p].op = "image", p \notin broken
               PROVE  p \in objects <=> \E i \in DOMAIN history : history[i].id = p
    BY DEF PictureMatchesMessage
  <2>1. CASE p = q
    BY <1>2, <2>1 DEF ChatInv, StoredFirst, Proceeds, Advances
  <2>2. CASE p # q
    BY <2>2 DEF ChatInv, PictureMatchesMessage, Proceeds, Advances
  <2> QED
    BY <2>1, <2>2
<1> QED
  BY <1>1, <1>3, <1>4, <1>5, <1>6, <1>7, <1>8 DEF ChatInv

LEMMA RedisFailsInv == ASSUME ChatConstants, ChatInv, NEW q \in Talker, RedisFails(q) PROVE ChatInv'
<1>1. Proceeds(q)
  BY MoveAdvances, LeaveAdvances, RejectAdvances DEF ChatInv, Proceeds, RedisFails
<1>2. /\ UNCHANGED <<contact, history, watermark, objects, time, broken, known>>
      /\ room' \in [exists : BOOLEAN, locked : BOOLEAN] /\ ResolvedExists' /\ members' \subseteq {Passenger, Driver}
  BY DEF ChatInv, ChatTypeOK, ResolvedExists, RedisFails
<1> QED
  BY <1>1, <1>2, ProceedsInv

LEMMA CheckLockInv == ASSUME ChatConstants, ChatInv, NEW q \in Talker, CheckLock(q) PROVE ChatInv'
<1>1. Proceeds(q)
  BY MoveAdvances, LeaveAdvances, RejectAdvances DEF ChatInv, Proceeds, CheckLock, Sends
<1>2. /\ UNCHANGED <<contact, history, watermark, objects, time, broken, known>>
      /\ room' \in [exists : BOOLEAN, locked : BOOLEAN] /\ ResolvedExists' /\ members' \subseteq {Passenger, Driver}
  BY DEF ChatInv, ChatTypeOK, ResolvedExists, CheckLock, Sends
<1> QED
  BY <1>1, <1>2, ProceedsInv

LEMMA CheckMemberInv == ASSUME ChatConstants, ChatInv, NEW q \in Talker, CheckMember(q) PROVE ChatInv'
<1>1. Proceeds(q)
  BY MoveAdvances, LeaveAdvances, RejectAdvances DEF ChatInv, Proceeds, CheckMember
<1>2. /\ UNCHANGED <<contact, history, watermark, objects, time, broken, known>>
      /\ room' \in [exists : BOOLEAN, locked : BOOLEAN] /\ ResolvedExists' /\ members' \subseteq {Passenger, Driver}
  BY DEF ChatInv, ChatTypeOK, ResolvedExists, CheckMember
<1> QED
  BY <1>1, <1>2, ProceedsInv

LEMMA LookUpRoomInv == ASSUME ChatConstants, ChatInv, NEW q \in Talker, LookUpRoom(q) PROVE ChatInv'
<1>1. Proceeds(q)
  BY MoveAdvances, LeaveAdvances, RejectAdvances DEF ChatInv, Proceeds, LookUpRoom
<1>2. /\ UNCHANGED <<contact, history, watermark, objects, time, broken, known>>
      /\ room' \in [exists : BOOLEAN, locked : BOOLEAN] /\ ResolvedExists' /\ members' \subseteq {Passenger, Driver}
  BY DEF ChatInv, ChatTypeOK, ResolvedExists, LookUpRoom
<1> QED
  BY <1>1, <1>2, ProceedsInv

LEMMA OpenExistingInv == ASSUME ChatConstants, ChatInv, NEW q \in Talker, OpenExisting(q) PROVE ChatInv'
<1>1. Proceeds(q)
  BY MoveAdvances, LeaveAdvances, RejectAdvances DEF ChatInv, Proceeds, OpenExisting
<1>2. /\ UNCHANGED <<contact, history, watermark, objects, time, broken, known>>
      /\ room' \in [exists : BOOLEAN, locked : BOOLEAN] /\ ResolvedExists' /\ members' \subseteq {Passenger, Driver}
  BY DEF ChatInv, ChatTypeOK, ResolvedExists, OpenExisting
<1> QED
  BY <1>1, <1>2, ProceedsInv

LEMMA CreateRoomInv == ASSUME ChatConstants, ChatInv, NEW q \in Talker, CreateRoom(q) PROVE ChatInv'
<1>1. Proceeds(q)
  BY MoveAdvances, LeaveAdvances, RejectAdvances DEF ChatInv, Proceeds, CreateRoom, CreateRoomScript
<1>2. /\ UNCHANGED <<contact, history, watermark, objects, time, broken, known>>
      /\ room' \in [exists : BOOLEAN, locked : BOOLEAN] /\ ResolvedExists' /\ members' \subseteq {Passenger, Driver}
  <2>1. CASE room.exists
    BY <2>1 DEF ChatInv, ChatTypeOK, ResolvedExists, CreateRoom, CreateRoomScript
  <2>2. CASE ~room.exists
    <3>1. room' = [exists |-> TRUE, locked |-> FALSE] /\ members' = {Passenger, Driver}
      BY <2>2 DEF CreateRoom, CreateRoomScript
    <3> QED
      BY <3>1 DEF ResolvedExists, CreateRoom
  <2> QED
    BY <2>1, <2>2
<1> QED
  BY <1>1, <1>2, ProceedsInv

LEMMA ResolveCheckMemberInv == ASSUME ChatConstants, ChatInv, NEW q \in Talker, ResolveCheckMember(q) PROVE ChatInv'
<1>1. Proceeds(q)
  BY MoveAdvances, LeaveAdvances, RejectAdvances DEF ChatInv, Proceeds, ResolveCheckMember
<1>2. /\ UNCHANGED <<contact, history, watermark, objects, time, broken, known>>
      /\ room' \in [exists : BOOLEAN, locked : BOOLEAN] /\ ResolvedExists' /\ members' \subseteq {Passenger, Driver}
  BY DEF ChatInv, ChatTypeOK, ResolvedExists, ResolveCheckMember
<1> QED
  BY <1>1, <1>2, ProceedsInv

LEMMA ResolveCheckLockInv == ASSUME ChatConstants, ChatInv, NEW q \in Talker, ResolveCheckLock(q) PROVE ChatInv'
<1>1. Proceeds(q)
  BY MoveAdvances, LeaveAdvances, RejectAdvances DEF ChatInv, Proceeds, ResolveCheckLock
<1>2. /\ UNCHANGED <<contact, history, watermark, objects, time, broken, known>>
      /\ room' \in [exists : BOOLEAN, locked : BOOLEAN] /\ ResolvedExists' /\ members' \subseteq {Passenger, Driver}
  BY DEF ChatInv, ChatTypeOK, ResolvedExists, ResolveCheckLock
<1> QED
  BY <1>1, <1>2, ProceedsInv

LEMMA ResolveInv == ASSUME ChatConstants, ChatInv, NEW q \in Talker, Resolve(q) PROVE ChatInv'
<1>1. Proceeds(q)
  BY MoveAdvances, LeaveAdvances, RejectAdvances DEF ChatInv, Proceeds, Resolve
<1>2. /\ UNCHANGED <<contact, history, watermark, objects, time, broken, known>>
      /\ room' \in [exists : BOOLEAN, locked : BOOLEAN] /\ ResolvedExists' /\ members' \subseteq {Passenger, Driver}
  BY DEF ChatInv, ChatTypeOK, ResolvedExists, Resolve
<1> QED
  BY <1>1, <1>2, ProceedsInv

LEMMA EnterInv ==
  ASSUME ChatConstants, ChatInv, NEW q \in Talker, NEW op \in ChatOps, NEW u \in User, Enter(q, op, u)
  PROVE  ChatInv'
<1>0. /\ ChatTypeOK /\ talk[q].pc = "idle"
      /\ UNCHANGED <<contact, room, members, history, watermark, objects, time, broken, known>>
  BY DEF ChatInv, Enter
<1>1. PICK t \in TalkState : talk' = [talk EXCEPT ![q] = t] /\ t.op = op /\ t.stamp = time /\ t.pc \in {"assigned", "done"}
  <2>1. PICK to \in {"assigned", "done"}, answer \in {"none", "refused"} :
          talk' = [talk EXCEPT ![q] = [op |-> op, by |-> u, stamp |-> time, pc |-> to, answer |-> answer]]
    BY DEF Enter
  <2> DEFINE t == [op |-> op, by |-> u, stamp |-> time, pc |-> to, answer |-> answer]
  <2>2. t \in TalkState
    BY <1>0 DEF TalkState, ChatTypeOK
  <2> QED
    BY <2>1, <2>2
<1>2. talk' \in [Talker -> TalkState] /\ talk'[q] = t /\ \A p \in Talker \ {q} : talk'[p] = talk[p]
  BY <1>0, <1>1 DEF ChatTypeOK
<1>3. ChatTypeOK'
  BY <1>0, <1>2 DEF ChatTypeOK
<1>4. \A i \in DOMAIN history : history[i].id \in Talker \ {q}
  BY <1>0, MessageParts DEF ChatInv, HeldEnded
<1>5. OneMessageEach' /\ ResolvedExists'
  BY <1>0 DEF ChatInv, OneMessageEach, ResolvedExists
<1>6. HeldEnded'
  BY <1>0, <1>2, <1>4 DEF ChatInv, HeldEnded
<1>7. StoredFirst'
  BY <1>0, <1>1, <1>2 DEF ChatInv, StoredFirst
<1>8. StampedLater'
  BY <1>0, <1>1, <1>2 DEF ChatInv, StampedLater
<1>9. ReadsKnown'
  BY <1>0, <1>1, <1>2 DEF ChatInv, ReadsKnown, InKnown
<1>10. PictureMatchesMessage'
  <2> SUFFICES ASSUME NEW p \in Talker, talk'[p].pc = "done", talk'[p].op = "image", p \notin broken
               PROVE  p \in objects <=> \E i \in DOMAIN history : history[i].id = p
    BY <1>0 DEF PictureMatchesMessage
  <2>1. CASE p = q
    BY <1>0, <1>4, <2>1 DEF ChatInv, StoredFirst
  <2>2. CASE p # q
    BY <1>2, <2>2 DEF ChatInv, PictureMatchesMessage
  <2> QED
    BY <2>1, <2>2
<1> QED
  BY <1>3, <1>5, <1>6, <1>7, <1>8, <1>9, <1>10 DEF ChatInv

LEMMA StoreImageInv == ASSUME ChatConstants, ChatInv, NEW q \in Talker, StoreImage(q) PROVE ChatInv'
<1>0. /\ ChatTypeOK /\ talk[q].op = "image" /\ talk[q].pc = "assigned" /\ objects' = objects \cup {q}
      /\ UNCHANGED <<contact, room, members, history, watermark, time, broken, known>>
  BY DEF ChatInv, StoreImage
<1>1. Advances(q) /\ talk'[q].pc \in {"stored", "cleanup"}
  BY <1>0, MoveAdvances DEF StoreImage
<1>2. ChatTypeOK'
  BY <1>0, <1>1 DEF ChatTypeOK, Advances
<1>3. \A i \in DOMAIN history : history[i].id \in Talker \ {q}
  BY <1>0, MessageParts DEF ChatInv, HeldEnded
<1>4. OneMessageEach' /\ ResolvedExists'
  BY <1>0 DEF ChatInv, OneMessageEach, ResolvedExists
<1>5. HeldEnded'
  BY <1>0, <1>1, <1>3 DEF ChatInv, HeldEnded, Advances
<1>6. StoredFirst'
  BY <1>0, <1>1 DEF ChatInv, StoredFirst, Advances
<1>7. StampedLater'
  BY <1>0, <1>1 DEF ChatInv, StampedLater, Advances
<1>8. ReadsKnown'
  BY <1>0, <1>1 DEF ChatInv, ReadsKnown, InKnown, Advances
<1>9. PictureMatchesMessage'
  BY <1>0, <1>1 DEF ChatInv, PictureMatchesMessage, Advances
<1> QED
  BY <1>2, <1>4, <1>5, <1>6, <1>7, <1>8, <1>9 DEF ChatInv

LEMMA CleanupInv == ASSUME ChatConstants, ChatInv, NEW q \in Talker, Cleanup(q) PROVE ChatInv'
<1>0. /\ ChatTypeOK /\ talk[q].pc = "cleanup"
      /\ UNCHANGED <<contact, room, members, history, watermark, time, known>>
      /\ \/ objects' = objects \ {q} /\ broken' = broken
         \/ broken' = broken \cup {q} /\ objects' = objects
  BY DEF ChatInv, Cleanup
<1>1. Advances(q) /\ talk'[q].pc = "done"
  BY <1>0, LeaveAdvances DEF Cleanup
<1>2. ChatTypeOK'
  BY <1>0, <1>1 DEF ChatTypeOK, Advances
<1>3. \A i \in DOMAIN history : history[i].id \in Talker /\ (history[i].id = q => q \in broken)
  BY <1>0, MessageParts DEF ChatInv, HeldEnded
<1>4. OneMessageEach' /\ ResolvedExists'
  BY <1>0 DEF ChatInv, OneMessageEach, ResolvedExists
<1>5. HeldEnded'
  BY <1>0, <1>1, <1>3 DEF ChatInv, HeldEnded, Advances
<1>6. StoredFirst'
  BY <1>0, <1>1 DEF ChatInv, StoredFirst, Advances
<1>7. StampedLater'
  BY <1>0, <1>1 DEF ChatInv, StampedLater, Advances
<1>8. ReadsKnown'
  BY <1>0, <1>1 DEF ChatInv, ReadsKnown, InKnown, Advances
<1>9. PictureMatchesMessage'
  <2> SUFFICES ASSUME NEW p \in Talker, talk'[p].pc = "done", talk'[p].op = "image", p \notin broken'
               PROVE  p \in objects' <=> \E i \in DOMAIN history : history[i].id = p
    BY <1>0 DEF PictureMatchesMessage
  <2>1. CASE p = q
    BY <1>0, <1>3, <2>1
  <2>2. CASE p # q
    BY <1>0, <1>1, <2>2 DEF ChatInv, PictureMatchesMessage, Advances
  <2> QED
    BY <2>1, <2>2
<1> QED
  BY <1>2, <1>4, <1>5, <1>6, <1>7, <1>8, <1>9 DEF ChatInv

LEMMA AppendMessageInv == ASSUME ChatConstants, ChatInv, NEW q \in Talker, AppendMessage(q) PROVE ChatInv'
<1>0. /\ ChatTypeOK /\ talk[q].op \in {"text", "image"} /\ talk[q].pc = "ready"
      /\ UNCHANGED <<contact, room, members, watermark, objects, time, known>>
  BY DEF ChatInv, AppendMessage
<1>1. CASE ~Appends(q)
  <2>1. Reject(q) /\ UNCHANGED <<history, broken>>
    BY <1>1 DEF AppendMessage
  <2>2. Proceeds(q)
    BY <1>0, <2>1, RejectAdvances DEF Proceeds
  <2>3. room' \in [exists : BOOLEAN, locked : BOOLEAN] /\ ResolvedExists' /\ members' \subseteq {Passenger, Driver}
    BY <1>0 DEF ChatInv, ChatTypeOK, ResolvedExists
  <2> QED
    BY <1>0, <2>1, <2>2, <2>3, ProceedsInv
<1>2. CASE Appends(q)
  <2> DEFINE m == [id |-> q, by |-> talk[q].by, image |-> talk[q].op = "image", at |-> talk[q].stamp]
  <2>1. history' = Append(history, m) /\ \/ Leave(q, "ok") /\ broken' = broken
                                         \/ Reject(q) /\ broken' = broken \cup {q}
    BY <1>2 DEF AppendMessage
  <2>2. Advances(q) /\ \/ talk'[q].pc = "done" /\ broken' = broken
                       \/ talk'[q].pc \in {"cleanup", "done"} /\ broken' = broken \cup {q}
    BY <1>0, <2>1, LeaveAdvances, RejectAdvances
  <2>3. m \in Message /\ m.id = q /\ m.at > 0
    BY <1>0 DEF ChatInv, ChatTypeOK, TalkState, Message, StampedLater
  <2> HIDE DEF m
  <2>4. /\ history' \in Seq(Message) /\ Len(history') = Len(history) + 1 /\ Len(history) \in Nat
        /\ \A i \in 1 .. Len(history) : history'[i] = history[i]
        /\ history'[Len(history) + 1] = m /\ DOMAIN history' = 1 .. Len(history) + 1 /\ DOMAIN history = 1 .. Len(history)
    BY <1>0, <2>1, <2>3 DEF ChatTypeOK
  <2>5. \A i \in DOMAIN history : history[i].id \in Talker \ {q}
    BY <1>0, MessageParts DEF ChatInv, HeldEnded
  <2>6. OneMessageEach'
    BY <2>3, <2>4, <2>5 DEF ChatInv, OneMessageEach
  <2>7. ChatTypeOK'
    <3>1. Len(history') <= Cardinality(Talker)
      BY <2>4, <2>6, MessagesFit DEF OneMessageEach
    <3> QED
      BY <1>0, <2>2, <2>4, <3>1 DEF ChatTypeOK, Advances
  <2>8. HeldEnded'
    <3> SUFFICES ASSUME NEW i \in 1 .. Len(history) + 1
                 PROVE  \/ talk'[history'[i].id].pc = "done"
                        \/ talk'[history'[i].id].pc = "cleanup" /\ history'[i].id \in broken'
      BY <2>4 DEF HeldEnded
    <3>1. CASE i \in 1 .. Len(history)
      BY <2>2, <2>4, <2>5, <3>1 DEF ChatInv, HeldEnded, Advances
    <3>2. CASE i = Len(history) + 1
      BY <2>2, <2>3, <2>4, <3>2
    <3> QED
      BY <2>4, <3>1, <3>2
  <2>9. StoredFirst'
    BY <1>0, <2>2 DEF ChatInv, StoredFirst, Advances
  <2>10. StampedLater'
    BY <1>0, <2>2, <2>3, <2>4 DEF ChatInv, StampedLater, Advances
  <2>11. ReadsKnown'
    <3>1. \A u \in User : \A stamp : InKnown(u, stamp) => InKnown(u, stamp)'
      BY <1>0, <2>4 DEF InKnown
    <3>2. \A p \in Talker : talk'[p].op = "read" /\ talk'[p].pc = "ready" => talk'[p] = talk[p] /\ talk[p].by \in User
      BY <1>0, <2>2 DEF ChatInv, ChatTypeOK, TalkState, Advances
    <3> QED
      BY <1>0, <3>1, <3>2 DEF ChatInv, ReadsKnown
  <2>12. PictureMatchesMessage'
    <3> SUFFICES ASSUME NEW p \in Talker, talk'[p].pc = "done", talk'[p].op = "image", p \notin broken'
                 PROVE  p \in objects <=> \E i \in DOMAIN history' : history'[i].id = p
      BY <1>0 DEF PictureMatchesMessage
    <3>1. CASE p = q
      BY <1>0, <2>2, <2>3, <2>4, <3>1 DEF ChatInv, StoredFirst, Advances
    <3>2. CASE p # q
      <4>1. (\E i \in DOMAIN history' : history'[i].id = p) <=> \E i \in DOMAIN history : history[i].id = p
        BY <2>3, <2>4, <3>2
      <4> QED
        BY <2>2, <3>2, <4>1 DEF ChatInv, PictureMatchesMessage, Advances
    <3> QED
      BY <3>1, <3>2
  <2> QED
    BY <1>0, <2>6, <2>7, <2>8, <2>9, <2>10, <2>11, <2>12 DEF ChatInv, ResolvedExists
<1> QED
  BY <1>1, <1>2

LEMMA LoadMessagesInv == ASSUME ChatConstants, ChatInv, NEW q \in Talker, LoadMessages(q) PROVE ChatInv'
<1>0. /\ ChatTypeOK /\ talk[q].op = "read" /\ talk[q].pc = "assigned"
      /\ UNCHANGED <<contact, room, members, history, watermark, objects, time, broken>>
  BY DEF ChatInv, LoadMessages
<1>1. CASE Leave(q, "refused") /\ UNCHANGED known
  <2>1. Proceeds(q)
    BY <1>0, <1>1, LeaveAdvances DEF Proceeds
  <2>2. room' \in [exists : BOOLEAN, locked : BOOLEAN] /\ ResolvedExists' /\ members' \subseteq {Passenger, Driver}
    BY <1>0 DEF ChatInv, ChatTypeOK, ResolvedExists
  <2> QED
    BY <1>0, <1>1, <2>1, <2>2, ProceedsInv
<1>2. ASSUME NEW i \in DOMAIN history,
             talk' = [talk EXCEPT ![q].pc = "ready", ![q].stamp = history[i].at],
             known' = [known EXCEPT ![talk[q].by] = IF Len(history) > @ THEN Len(history) ELSE @]
      PROVE  ChatInv'
  <2>0. PICK u \in User : u = talk[q].by
    BY <1>0 DEF ChatTypeOK, TalkState
  <2>1. /\ Len(history) \in Nat /\ DOMAIN history = 1 .. Len(history) /\ history[i].at \in 0 .. ChatTime
        /\ history[i].at > 0 /\ \A j \in DOMAIN history : history[j].id \in Talker
    BY <1>0, MessageParts DEF ChatInv, StampedLater
  <2>2. /\ talk' \in [Talker -> TalkState] /\ \A p \in Talker \ {q} : talk'[p] = talk[p]
        /\ talk'[q].op = "read" /\ talk'[q].by = u /\ talk'[q].stamp = history[i].at /\ talk'[q].pc = "ready"
    <3>1. talk[q] \in TalkState /\ [talk[q] EXCEPT !.pc = "ready", !.stamp = history[i].at] \in TalkState
      BY <1>0, <2>1 DEF ChatTypeOK, TalkState
    <3>2. talk' = [talk EXCEPT ![q] = [talk[q] EXCEPT !.pc = "ready", !.stamp = history[i].at]]
      BY <1>0, <1>2 DEF ChatTypeOK
    <3> QED
      BY <1>0, <2>0, <3>1, <3>2 DEF ChatTypeOK, TalkState
  <2>3. /\ known' \in [User -> Nat] /\ u \in User /\ known'[u] >= Len(history)
        /\ \A v \in User : known'[v] >= known[v]
    BY <1>0, <1>2, <2>0, <2>1 DEF ChatTypeOK, TalkState
  <2>4. ChatTypeOK'
    BY <1>0, <2>2, <2>3 DEF ChatTypeOK
  <2>5. OneMessageEach' /\ ResolvedExists'
    BY <1>0 DEF ChatInv, OneMessageEach, ResolvedExists
  <2>6. HeldEnded'
    BY <1>0, <2>1, <2>2 DEF ChatInv, HeldEnded
  <2>7. StoredFirst'
    BY <1>0, <2>2 DEF ChatInv, StoredFirst
  <2>8. StampedLater'
    BY <1>0, <2>1, <2>2 DEF ChatInv, StampedLater
  <2>9. ReadsKnown'
    <3>1. \A v \in User : \A stamp : InKnown(v, stamp) => InKnown(v, stamp)'
      BY <1>0, <2>1, <2>3 DEF InKnown, ChatTypeOK
    <3>2. ASSUME NEW p \in Talker, talk'[p].op = "read", talk'[p].pc = "ready"
          PROVE  InKnown(talk[p].by, talk[p].stamp)'
      <4>1. CASE p = q
        <5>1. i \in DOMAIN history' /\ i <= known'[u] /\ history'[i].at = talk'[q].stamp
          BY <1>0, <2>1, <2>2, <2>3
        <5> QED
          BY <2>2, <4>1, <5>1 DEF InKnown
      <4>2. CASE p # q
        <5>1. InKnown(talk[p].by, talk[p].stamp) /\ talk[p].by \in User /\ talk'[p] = talk[p]
          BY <1>0, <2>2, <3>2, <4>2 DEF ChatInv, ChatTypeOK, TalkState, ReadsKnown
        <5>2. \E j \in DOMAIN history' : j <= known'[talk[p].by] /\ history'[j].at = talk[p].stamp
          BY <3>1, <5>1 DEF InKnown
        <5> QED
          BY <5>1, <5>2 DEF InKnown
      <4> QED
        BY <4>1, <4>2
    <3>3. ASSUME NEW v \in User PROVE (watermark[v] = 0 \/ InKnown(v, watermark[v]))'
      <4>1. watermark'[v] = watermark[v] /\ (watermark[v] = 0 \/ InKnown(v, watermark[v]))
        BY <1>0 DEF ChatInv, ReadsKnown
      <4> QED
        BY <3>1, <4>1 DEF InKnown
    <3> QED
      BY <3>2, <3>3 DEF ReadsKnown
  <2>10. PictureMatchesMessage'
    BY <1>0, <2>2 DEF ChatInv, PictureMatchesMessage
  <2> QED
    BY <2>4, <2>5, <2>6, <2>7, <2>8, <2>9, <2>10 DEF ChatInv
<1> QED
  BY <1>1, <1>2 DEF LoadMessages

LEMMA MarkReadInv == ASSUME ChatConstants, ChatInv, NEW q \in Talker, MarkRead(q) PROVE ChatInv'
<1>0. /\ ChatTypeOK /\ talk[q].op = "read" /\ talk[q].pc = "ready"
      /\ UNCHANGED <<contact, room, members, history, objects, time, broken, known>>
  BY DEF ChatInv, MarkRead
<1>1. Advances(q) /\ talk'[q].pc = "done"
  BY <1>0, LeaveAdvances DEF MarkRead
<1>2. talk[q].by \in User /\ talk[q].stamp \in 0 .. ChatTime /\ InKnown(talk[q].by, talk[q].stamp)
  BY <1>0 DEF ChatInv, ChatTypeOK, TalkState, ReadsKnown
<1>3. /\ watermark' \in [User -> 0 .. ChatTime]
      /\ \A u \in User : watermark'[u] = watermark[u] \/ (u = talk[q].by /\ watermark'[u] = talk[q].stamp)
  BY <1>0, <1>2 DEF ChatTypeOK, MarkRead, Watermark
<1>4. ChatTypeOK'
  BY <1>0, <1>1, <1>3 DEF ChatTypeOK, Advances
<1>5. OneMessageEach' /\ ResolvedExists'
  BY <1>0 DEF ChatInv, OneMessageEach, ResolvedExists
<1>6. HeldEnded'
  BY <1>0, <1>1, MessageParts DEF ChatInv, HeldEnded, Advances
<1>7. StoredFirst'
  BY <1>0, <1>1 DEF ChatInv, StoredFirst, Advances
<1>8. StampedLater'
  BY <1>0, <1>1 DEF ChatInv, StampedLater, Advances
<1>9. ReadsKnown'
  BY <1>0, <1>1, <1>2, <1>3 DEF ChatInv, ReadsKnown, InKnown, Advances
<1>10. PictureMatchesMessage'
  BY <1>0, <1>1 DEF ChatInv, PictureMatchesMessage, Advances
<1> QED
  BY <1>4, <1>5, <1>6, <1>7, <1>8, <1>9, <1>10 DEF ChatInv

LEMMA ChatStepInv == ASSUME ChatConstants, ChatInv, [ChatNext]_chatVars PROVE ChatInv'
<1>1. ASSUME NEW q \in Talker, ChatStep(q) PROVE ChatInv'
  BY <1>1, EnterInv, RedisFailsInv, StoreImageInv, CheckLockInv, CheckMemberInv, AppendMessageInv, CleanupInv,
     LookUpRoomInv, OpenExistingInv, CreateRoomInv, ResolveCheckMemberInv, ResolveCheckLockInv, ResolveInv,
     LoadMessagesInv, MarkReadInv DEF ChatStep
<1>2. CASE CloseContact \/ ChatTick \/ UNCHANGED chatVars
  <2>1. /\ UNCHANGED <<room, members, history, watermark, objects, talk, broken, known>>
        /\ contact' \in BOOLEAN /\ time' \in 0 .. ChatTime /\ time' >= time
    <3>1. time \in 0 .. ChatTime /\ contact \in BOOLEAN /\ ChatTime \in Nat
      BY DEF ChatInv, ChatTypeOK, ChatConstants
    <3>2. CASE CloseContact
      <4>1. contact' = FALSE /\ UNCHANGED <<room, members, history, watermark, objects, time, talk, broken, known>>
        BY <3>2 DEF CloseContact
      <4>2. time' \in 0 .. ChatTime /\ time' >= time
        BY <3>1, <4>1
      <4>3. contact' \in BOOLEAN
        BY <4>1
      <4> QED
        BY <4>1, <4>2, <4>3
    <3>3. CASE ChatTick
      BY <3>1, <3>3 DEF ChatTick
    <3>4. CASE UNCHANGED chatVars
      BY <3>1, <3>4 DEF chatVars
    <3> QED
      BY <1>2, <3>2, <3>3, <3>4
  <2>2. ChatTypeOK' /\ OneMessageEach' /\ HeldEnded' /\ StoredFirst' /\ ResolvedExists' /\ PictureMatchesMessage'
    BY <2>1 DEF ChatInv, ChatTypeOK, OneMessageEach, HeldEnded, StoredFirst, ResolvedExists, PictureMatchesMessage
  <2>3. StampedLater' /\ ReadsKnown'
    BY <2>1 DEF ChatInv, ChatTypeOK, StampedLater, ReadsKnown, InKnown
  <2> QED
    BY <2>2, <2>3 DEF ChatInv
<1> QED
  BY <1>1, <1>2 DEF ChatNext

LEMMA ChatInitInv == ASSUME ChatConstants, ChatInit PROVE ChatInv
<1>1. NoTalk \in TalkState /\ NoTalk.pc = "idle" /\ NoTalk.op = "none"
  BY DEF NoTalk, TalkState, User, ChatConstants
<1>2. talk \in [Talker -> TalkState] /\ \A q \in Talker : talk[q].pc = "idle" /\ talk[q].op = "none"
  BY <1>1 DEF ChatInit
<1>3. Cardinality(Talker) \in Nat /\ history = <<>> /\ history \in Seq(Message) /\ Len(history) = 0 /\ DOMAIN history = {}
  BY FS_CardinalityType DEF ChatConstants, ChatInit
<1>4. ChatTypeOK
  BY <1>2, <1>3 DEF ChatTypeOK, ChatInit, ChatConstants
<1>5. OneMessageEach /\ HeldEnded /\ PictureMatchesMessage
  BY <1>2, <1>3 DEF OneMessageEach, HeldEnded, PictureMatchesMessage
<1>6. StoredFirst /\ StampedLater /\ ReadsKnown /\ ResolvedExists
  BY <1>2, <1>3 DEF StoredFirst, StampedLater, ReadsKnown, ResolvedExists, ChatInit
<1> QED
  BY <1>4, <1>5, <1>6 DEF ChatInv

\* What is seen was acknowledged with the watermark's message, which its reader had loaded.
LEMMA ChatInvHolds == ASSUME ChatConstants, ChatInv PROVE MessagesHold
<1>1. SUFFICES ASSUME NEW i \in DOMAIN history, Seen(history[i]), i > known[Peer(history[i].by)]
               PROVE  \E j \in 1 .. i - 1 : history[j].at >= history[i].at
  BY DEF ChatInv, MessagesHold, SeenUnlessOvertaken
<1> DEFINE u == Peer(history[i].by)
<1>2. u \in User
  BY DEF Peer, User
<1>3. /\ ChatTypeOK /\ DOMAIN history = 1 .. Len(history) /\ Len(history) \in Nat /\ history[i].at \in Nat /\ history[i].at > 0
      /\ watermark[u] \in Nat /\ known[u] \in Nat
  BY <1>2, MessageParts DEF ChatInv, ChatTypeOK, StampedLater
<1>4. watermark[u] >= history[i].at
  BY <1>1, <1>3 DEF Seen
<1>5. InKnown(u, watermark[u])
  BY <1>2, <1>3, <1>4 DEF ChatInv, ReadsKnown
<1> QED
  BY <1>1, <1>3, <1>4, <1>5 DEF InKnown

\* A picture is kept exactly when its message is, and a message shown as seen was in the list its
\* reader acknowledged from (SendImage, Relay, MarkRead and Messages interleaved).
THEOREM MessagesHoldAlways == ASSUME ChatConstants PROVE ChatSpec => []MessagesHold
<1>1. ChatInit => ChatInv
  BY ChatInitInv
<1>2. ChatInv /\ [ChatNext]_chatVars => ChatInv'
  BY ChatStepInv
<1>3. ChatInv => MessagesHold
  BY ChatInvHolds
<1> QED
  BY <1>1, <1>2, <1>3, PTL DEF ChatSpec

LEMMA TurnsNotBack ==
  ASSUME ChatConstants, ChatInv, [ChatNext]_chatVars
  PROVE  /\ room.locked => room'.locked /\ history' = history
         /\ \A u \in User : watermark'[u] >= watermark[u]
<1>1. room.locked => room'.locked
  <2>1. ASSUME NEW q \in Talker, CreateRoom(q) PROVE room.locked => room'.locked
    BY <2>1 DEF ChatInv, ResolvedExists, CreateRoom, CreateRoomScript
  <2>2. ASSUME NEW q \in Talker, Resolve(q) PROVE room'.locked
    BY <2>2 DEF Resolve
  <2>3. room' = room \/ \E q \in Talker : CreateRoom(q) \/ Resolve(q)
    BY DEF ChatNext, ChatStep, chatVars, Enter, RedisFails, StoreImage, CheckLock, CheckMember, AppendMessage,
       Cleanup, LookUpRoom, OpenExisting, ResolveCheckMember, ResolveCheckLock, LoadMessages, MarkRead,
       CloseContact, ChatTick
  <2> QED
    BY <2>1, <2>2, <2>3
<1>2. room.locked => history' = history
  <2>1. ASSUME NEW q \in Talker, AppendMessage(q) PROVE room.locked => history' = history
    BY <2>1 DEF AppendMessage, Appends
  <2>2. history' = history \/ \E q \in Talker : AppendMessage(q)
    BY DEF ChatNext, ChatStep, chatVars, Enter, RedisFails, StoreImage, CheckLock, CheckMember, CreateRoom, Resolve,
       Cleanup, LookUpRoom, OpenExisting, ResolveCheckMember, ResolveCheckLock, LoadMessages, MarkRead,
       CloseContact, ChatTick
  <2> QED
    BY <2>1, <2>2
<1>3. ASSUME NEW u \in User PROVE watermark'[u] >= watermark[u]
  <2>1. watermark[u] \in Nat
    BY DEF ChatInv, ChatTypeOK
  <2>2. ASSUME NEW q \in Talker, MarkRead(q) PROVE watermark'[u] >= watermark[u]
    <3>1. talk[q].stamp \in Nat
      BY DEF ChatInv, ChatTypeOK, TalkState
    <3> QED
      BY <2>1, <2>2, <3>1 DEF ChatInv, ChatTypeOK, MarkRead, Watermark
  <2>3. watermark' = watermark \/ \E q \in Talker : MarkRead(q)
    BY DEF ChatNext, ChatStep, chatVars, Enter, RedisFails, StoreImage, CheckLock, CheckMember, CreateRoom, Resolve,
       Cleanup, LookUpRoom, OpenExisting, ResolveCheckMember, ResolveCheckLock, LoadMessages, AppendMessage,
       CloseContact, ChatTick
  <2> QED
    BY <2>1, <2>2, <2>3
<1> QED
  BY <1>1, <1>2, <1>3

\* A resolved room gains no message and is not reopened, and a watermark never falls (the Append,
\* CreateRoom and MarkRead scripts).
THEOREM NeverTurnsBackAlways == ASSUME ChatConstants PROVE ChatSpec => NeverTurnsBack
<1>1. ChatInit => ChatInv
  BY ChatInitInv
<1>2. ChatInv /\ [ChatNext]_chatVars => ChatInv'
  BY ChatStepInv
<1>3. ChatInv /\ [ChatNext]_chatVars
        => [/\ room.locked => room'.locked /\ history' = history
            /\ \A u \in User : watermark'[u] >= watermark[u]]_chatVars
  BY TurnsNotBack
<1> QED
  BY <1>1, <1>2, <1>3, PTL DEF ChatSpec, NeverTurnsBack

----------------------------------------------------------------------------
(* Reviews: the order of the list, and where a page begins *)

\* What of the drivers' reviews a page after b is taken from.
Listed(b) == {w \in rows : w.kind = "driver" /\ (b = Blank \/ Older(w, b))}
SeenSet == {page.seen[i] : i \in DOMAIN page.seen}

\* The serial ids tell the rows apart.
Ordered(S) == S \subseteq Row /\ IsFiniteSet(S) /\ \A v, w \in S : v.id = w.id => v = w

RowsApart == Ordered(rows) /\ \A w \in rows : w.id < nextId

\* A request that has begun names its ride, and a row about to be inserted is complete.
RequestsNamed ==
  \A q \in Rater :
    /\ req[q].at # "idle" => req[q].kind \in Kind /\ req[q].ride \in Ride /\ req[q].rating \in Rating
    /\ req[q].at = "commit" => req[q].stamp \in 1 .. MaxClock

\* A client that has not begun has seen nothing.
PageBegins == page.there \subseteq Listed(Blank) /\ (page.mode = Blank => page = FirstPage)

\* With a cursor, the reviews still to come are those older than the boundary.
CursorKeeps ==
  page.mode = "cursor" =>
    /\ IsInjective(page.seen)
    /\ ~page.done =>
         /\ page.before = Blank => page.seen = <<>>
         /\ page.before # Blank => \A i \in DOMAIN page.seen : ~Older(page.seen[i], page.before)
         /\ \A w \in page.there : w \in SeenSet \/ page.before = Blank \/ Older(w, page.before)

\* By offset, those still to come have at least as many before them; unless reviews were added,
\* those seen have fewer.
OffsetKeeps ==
  page.mode = "offset" =>
    /\ page.offset <= Cardinality(Listed(Blank))
    /\ ~page.done => \A w \in page.there : w \in SeenSet \/ Place(w, Listed(Blank)) >= page.offset
    /\ ~page.grown => /\ IsInjective(page.seen)
                      /\ \A i \in DOMAIN page.seen : /\ page.seen[i] \in Listed(Blank)
                                                     /\ Place(page.seen[i], Listed(Blank)) < page.offset

ReviewInv ==
  /\ ReviewTypeOK /\ RowsApart /\ OneReviewPerRide /\ RequestsNamed /\ AnswerStands
  /\ PageBegins /\ CursorKeeps /\ OffsetKeeps /\ PagesComplete

LEMMA NewerOrders ==
  ASSUME NEW u \in Row, NEW v \in Row, NEW w \in Row
  PROVE  /\ Newer(u, v) /\ Newer(v, w) => Newer(u, w)
         /\ ~Newer(u, u)
         /\ u.id # v.id => Newer(u, v) \/ Newer(v, u)
<1>1. \A x \in Row : x.stamp \in Nat /\ x.id \in Nat
  BY DEF Row
<1>2. /\ u.stamp \in Nat /\ v.stamp \in Nat /\ w.stamp \in Nat
      /\ u.id \in Nat /\ v.id \in Nat /\ w.id \in Nat
  BY <1>1
<1> QED
  BY <1>2 DEF Newer

LEMMA PlaceFinite ==
  ASSUME NEW S, Ordered(S), NEW w \in S
  PROVE  /\ IsFiniteSet({v \in S : Newer(v, w)}) /\ Cardinality(S) \in Nat
         /\ Place(w, S) \in Nat /\ Place(w, S) < Cardinality(S)
<1> DEFINE B == {v \in S : Newer(v, w)}
<1>1. IsFiniteSet(S) /\ B \subseteq S /\ w \notin B
  BY NewerOrders DEF Ordered
<1>2. IsFiniteSet(B) /\ Cardinality(B) <= Cardinality(S) /\ Cardinality(B) # Cardinality(S)
  BY <1>1, FS_Subset
<1>3. Cardinality(B) \in Nat /\ Cardinality(S) \in Nat
  BY <1>1, <1>2, FS_CardinalityType
<1> QED
  BY <1>2, <1>3 DEF Place

LEMMA PlaceRises ==
  ASSUME NEW S, Ordered(S), NEW v \in S, NEW w \in S, Newer(v, w)
  PROVE  Place(v, S) < Place(w, S)
<1> DEFINE A == {x \in S : Newer(x, v)}
           B == {x \in S : Newer(x, w)}
<1>1. A \subseteq B /\ v \in B /\ v \notin A
  BY NewerOrders DEF Ordered
<1>2. IsFiniteSet(B)
  BY PlaceFinite
<1>3. Cardinality(A) <= Cardinality(B) /\ Cardinality(A) # Cardinality(B)
  BY <1>1, <1>2, FS_Subset
<1>4. Place(v, S) = Cardinality(A) /\ Place(w, S) = Cardinality(B) /\ Place(v, S) \in Nat /\ Place(w, S) \in Nat
  BY PlaceFinite DEF Place
<1> QED
  BY <1>3, <1>4

LEMMA PlaceOrders ==
  ASSUME NEW S, Ordered(S), NEW v \in S, NEW w \in S
  PROVE  /\ Place(v, S) = Place(w, S) => v = w
         /\ Place(v, S) < Place(w, S) => Newer(v, w)
<1>1. v = w \/ Newer(v, w) \/ Newer(w, v)
  BY NewerOrders DEF Ordered
<1>2. Newer(v, w) => Place(v, S) < Place(w, S)
  BY PlaceRises
<1>3. Newer(w, v) => Place(w, S) < Place(v, S)
  BY PlaceRises
<1>4. Place(v, S) \in Nat /\ Place(w, S) \in Nat
  BY PlaceFinite
<1> QED
  BY <1>1, <1>2, <1>3, <1>4

LEMMA PlaceTaken ==
  ASSUME NEW S, Ordered(S), NEW k \in Nat, k < Cardinality(S)
  PROVE  \E w \in S : Place(w, S) = k
<1>1. PICK n \in Nat : n = Cardinality(S)
  BY FS_CardinalityType DEF Ordered
<1> DEFINE T == 0 .. n - 1
           f == [w \in S |-> Place(w, S)]
<1>2. \A w \in S : Place(w, S) \in T
  <2>1. \A w \in S : Place(w, S) \in Nat /\ Place(w, S) < n
    BY <1>1, PlaceFinite
  <2> QED
    BY <2>1
<1>3. \A v, w \in S : Place(v, S) = Place(w, S) => v = w
  BY PlaceOrders
<1>4. f \in Injection(S, T)
  BY <1>2, <1>3 DEF Injection, IsInjective
<1>5. IsFiniteSet(S) /\ IsFiniteSet(T) /\ Cardinality(T) = n
  <2>1. 0 \in Int /\ n - 1 \in Int
    OBVIOUS
  <2>2. IsFiniteSet(T) /\ Cardinality(T) = IF 0 > n - 1 THEN 0 ELSE n - 1 - 0 + 1
    BY <2>1, FS_Interval
  <2> QED
    BY <2>2 DEF Ordered
<1>6. f \in Surjection(S, T)
  <2> HIDE DEF f, T
  <2> QED
    BY <1>1, <1>4, <1>5, FS_Injection
<1>7. k \in T
  BY <1>1
<1>8. \E w \in S : f[w] = k
  <2> HIDE DEF f, T
  <2> QED
    BY <1>6, <1>7 DEF Surjection
<1> QED
  BY <1>8

\* New reviews only move the others further back.
LEMMA PlaceKept ==
  ASSUME NEW S, NEW T, Ordered(T), S \subseteq T, NEW w \in S
  PROVE  Place(w, S) <= Place(w, T)
<1>1. IsFiniteSet({v \in T : Newer(v, w)})
  BY PlaceFinite
<1>2. {v \in S : Newer(v, w)} \subseteq {v \in T : Newer(v, w)}
  OBVIOUS
<1> QED
  BY <1>1, <1>2, FS_Subset DEF Place

\* A page holds the reviews at its places, in their order.
LEMMA ListHolds ==
  ASSUME NEW b, Ordered(Listed(b)), NEW o \in Nat, NEW l \in Nat, o <= Cardinality(Listed(b))
  PROVE  /\ List(b, o, l) \in Seq(Listed(b)) /\ Cardinality(Listed(b)) \in Nat
         /\ Len(List(b, o, l)) = IF o + l < Cardinality(Listed(b)) THEN l ELSE Cardinality(Listed(b)) - o
         /\ \A i \in 1 .. Len(List(b, o, l)) : /\ List(b, o, l)[i] \in Listed(b)
                                               /\ Place(List(b, o, l)[i], Listed(b)) = o + i - 1
<1> DEFINE match == Listed(b)
           total == Cardinality(match)
           n == IF o + l < total THEN l ELSE total - o
<1>1. total \in Nat /\ n \in Nat /\ \A i \in 1 .. n : o + i - 1 \in Nat /\ o + i - 1 < total
  BY FS_CardinalityType DEF Ordered
<1>2. List(b, o, l) = [i \in 1 .. n |-> CHOOSE w \in match : Place(w, match) = o + i - 1]
  <2>1. (IF o + l < total THEN o + l ELSE total) - o = n
    BY <1>1
  <2> QED
    BY <2>1 DEF List, Listed
<1>3. ASSUME NEW i \in 1 .. n
      PROVE  /\ (CHOOSE w \in match : Place(w, match) = o + i - 1) \in match
             /\ Place(CHOOSE w \in match : Place(w, match) = o + i - 1, match) = o + i - 1
  <2> HIDE DEF match
  <2>1. \E w \in match : Place(w, match) = o + i - 1
    BY <1>1, PlaceTaken DEF match
  <2> QED
    BY <2>1
<1> DEFINE g == [i \in 1 .. n |-> CHOOSE w \in match : Place(w, match) = o + i - 1]
<1>4. g \in [1 .. n -> match] /\ \A i \in 1 .. n : Place(g[i], match) = o + i - 1
  BY <1>3
<1>5. g \in Seq(match) /\ Len(g) = n
  <2> HIDE DEF g, match, n
  <2> QED
    BY <1>1, <1>4
<1>6. List(b, o, l) = g
  BY <1>2
<1> HIDE DEF g
<1> QED
  BY <1>1, <1>4, <1>5, <1>6

LEMMA ListedOrdered ==
  ASSUME RowsApart, NEW b
  PROVE  Ordered(Listed(b)) /\ Cardinality(Listed(b)) \in Nat
<1>1. IsFiniteSet(Listed(b))
  <2>1. Listed(b) \in SUBSET rows
    BY DEF Listed
  <2> QED
    BY <2>1, FS_Subset DEF RowsApart, Ordered
<1> QED
  BY <1>1, FS_CardinalityType DEF RowsApart, Ordered, Listed

ReqState ==
  [at : {"idle", "validate", "check", "insert", "commit", "load", "done"},
   kind : Kind \cup {Blank}, ride : Ride \cup {Blank}, rating : Rating \cup {Blank},
   stamp : (1 .. MaxClock) \cup {Blank}, answer : Rating \cup {Blank, "refused", "error"}]

\* A step of a request: its new state is a complete one.
RequestStep(q, t) ==
  /\ req' = [req EXCEPT ![q] = t] /\ t \in ReqState
  /\ t.at # "idle" => t.kind \in Kind /\ t.ride \in Ride /\ t.rating \in Rating
  /\ t.at = "commit" => t.stamp \in 1 .. MaxClock

\* Requests do not touch the page, and the rows only when they insert.
LEMMA RequestStepInv ==
  ASSUME ReviewConstants, ReviewInv, NEW q \in Rater, NEW t, RequestStep(q, t),
         t.answer \in Rating => \E w \in ReviewOf(t.kind, t.ride) : w.rating = t.answer,
         UNCHANGED <<over, rows, today, nextId, page>>
  PROVE  ReviewInv'
<1>1. req' \in [Rater -> ReqState] /\ req'[q] = t /\ \A p \in Rater \ {q} : req'[p] = req[p]
  BY DEF ReviewInv, ReviewTypeOK, ReqState, RequestStep
<1>2. ReviewTypeOK'
  BY <1>1 DEF ReviewInv, ReviewTypeOK, ReqState
<1>3. RequestsNamed'
  BY <1>1 DEF ReviewInv, RequestsNamed, RequestStep
<1>4. AnswerStands'
  BY <1>1 DEF ReviewInv, AnswerStands, ReviewOf
<1>5. RowsApart' /\ OneReviewPerRide'
  BY DEF ReviewInv, RowsApart, OneReviewPerRide
<1>6. PageBegins' /\ CursorKeeps' /\ OffsetKeeps' /\ PagesComplete'
  BY DEF ReviewInv, PageBegins, CursorKeeps, OffsetKeeps, PagesComplete, SeenSet, Listed
<1> QED
  BY <1>2, <1>3, <1>4, <1>5, <1>6 DEF ReviewInv

\* The rows an insert adds to are those of the page, too.
LEMMA InsertInv ==
  ASSUME ReviewConstants, ReviewInv, NEW q \in Rater, req[q].at = "commit",
         ReviewOf(req[q].kind, req[q].ride) = {}, NEW answer \in {req[q].rating, "error"}, Answer(q, answer),
         rows' = rows \cup {[kind |-> req[q].kind, ride |-> req[q].ride, rating |-> req[q].rating,
                             stamp |-> req[q].stamp, id |-> nextId]},
         nextId' = nextId + 1, Grows, UNCHANGED <<over, today>>
  PROVE  ReviewInv'
<1> DEFINE new == [kind |-> req[q].kind, ride |-> req[q].ride, rating |-> req[q].rating,
                   stamp |-> req[q].stamp, id |-> nextId]
<1>1. /\ req[q] \in ReqState /\ req[q].kind \in Kind /\ req[q].ride \in Ride /\ req[q].rating \in Rating
      /\ req[q].stamp \in 1 .. MaxClock /\ nextId \in Nat
  BY DEF ReviewInv, ReviewTypeOK, ReqState, RequestsNamed
<1>2. /\ new \in Row /\ new.id = nextId /\ new.rating = req[q].rating
      /\ new.kind = req[q].kind /\ new.ride = req[q].ride /\ rows' = rows \cup {new}
  BY <1>1 DEF Row
<1> HIDE DEF new
<1>3. PICK t \in ReqState : /\ req' = [req EXCEPT ![q] = t] /\ t.at = "done" /\ t.answer = answer
                            /\ t.kind = req[q].kind /\ t.ride = req[q].ride /\ t.rating = req[q].rating
  <2> DEFINE t == [req[q] EXCEPT !.at = "done", !.answer = answer]
  <2>1. t \in ReqState
    BY <1>1 DEF ReqState
  <2>2. req' = [req EXCEPT ![q] = t]
    BY DEF Answer, ReviewInv, ReviewTypeOK
  <2>3. t.at = "done" /\ t.answer = answer /\ t.kind = req[q].kind /\ t.ride = req[q].ride /\ t.rating = req[q].rating
    BY <1>1 DEF ReqState
  <2> HIDE DEF t
  <2> QED
    BY <2>1, <2>2, <2>3
<1>4. req' \in [Rater -> ReqState] /\ req'[q] = t /\ \A p \in Rater \ {q} : req'[p] = req[p]
  BY <1>3 DEF ReviewInv, ReviewTypeOK, ReqState
<1>5. /\ page' = [page EXCEPT !.grown = page'.grown] /\ page'.grown \in BOOLEAN
      /\ page'.mode = page.mode /\ page'.before = page.before /\ page'.offset = page.offset
      /\ page'.seen = page.seen /\ page'.there = page.there /\ page'.done = page.done
      /\ (page.mode = "offset" => page'.grown) /\ (page.mode = Blank => page' = page)
  <2>1. new \notin rows
    BY <1>2 DEF ReviewOf
  <2>2. rows' # rows
    BY <1>2, <2>1
  <2>3. PICK g \in BOOLEAN : page' = [page EXCEPT !.grown = g] /\ g = (page.grown \/ page.mode # Blank)
    BY <2>2 DEF Grows, ReviewInv, ReviewTypeOK
  <2>4. page.grown \in BOOLEAN /\ Blank # "offset"
    BY DEF ReviewInv, ReviewTypeOK, ReviewConstants, Mode
  <2> QED
    BY <2>3, <2>4 DEF ReviewInv, ReviewTypeOK
<1>6. page' \in [mode : Mode \cup {Blank}, before : Row \cup {Blank}, offset : Nat, seen : Seq(Row),
                 there : SUBSET Row, grown : BOOLEAN, done : BOOLEAN]
  <2>1. PICK g \in BOOLEAN : page' = [page EXCEPT !.grown = g]
    BY <1>5
  <2> QED
    BY <2>1 DEF ReviewInv, ReviewTypeOK
<1>7. ReviewTypeOK'
  BY <1>1, <1>2, <1>4, <1>6 DEF ReviewInv, ReviewTypeOK, ReqState
<1>8. RowsApart'
  <2>1. IsFiniteSet(rows')
    BY <1>2, FS_AddElement DEF ReviewInv, RowsApart, Ordered
  <2>2. \A w \in rows : w.id \in Nat /\ w.id < nextId
    BY DEF ReviewInv, RowsApart, Ordered, Row
  <2>3. \A w \in rows' : w.id < nextId'
    BY <1>1, <1>2, <2>2
  <2>4. \A v, w \in rows' : v.id = w.id => v = w
    BY <1>1, <1>2, <2>2 DEF ReviewInv, RowsApart, Ordered
  <2> QED
    BY <1>2, <2>1, <2>3, <2>4 DEF ReviewInv, RowsApart, Ordered
<1>9. OneReviewPerRide'
  BY <1>2 DEF ReviewInv, OneReviewPerRide, ReviewOf
<1>10. RequestsNamed'
  BY <1>1, <1>3, <1>4 DEF ReviewInv, RequestsNamed
<1>11. AnswerStands'
  <2> SUFFICES ASSUME NEW p \in Rater, req'[p].answer \in Rating
               PROVE  \E w \in rows' : w.kind = req'[p].kind /\ w.ride = req'[p].ride /\ w.rating = req'[p].answer
    BY DEF AnswerStands, ReviewOf
  <2>1. CASE p = q
    BY <1>2, <1>3, <1>4, <2>1 DEF ReviewConstants
  <2>2. CASE p # q
    BY <1>2, <1>4, <2>2 DEF ReviewInv, AnswerStands, ReviewOf
  <2> QED
    BY <2>1, <2>2
<1>12. /\ Listed(Blank) \subseteq Listed(Blank)' /\ Ordered(Listed(Blank)')
       /\ \A w \in Listed(Blank) : Place(w, Listed(Blank)) <= Place(w, Listed(Blank)')
       /\ Cardinality(Listed(Blank)) <= Cardinality(Listed(Blank)')
  <2>1. Listed(Blank) \subseteq Listed(Blank)'
    BY <1>2 DEF Listed
  <2>2. Ordered(Listed(Blank)')
    <3>1. Listed(Blank)' \in SUBSET rows'
      BY DEF Listed
    <3>2. IsFiniteSet(Listed(Blank)')
      BY <1>8, <3>1, FS_Subset DEF RowsApart, Ordered
    <3> QED
      BY <1>8, <3>1, <3>2 DEF RowsApart, Ordered
  <2>3. Cardinality(Listed(Blank)) <= Cardinality(Listed(Blank)')
    BY <2>1, <2>2, FS_Subset DEF Ordered
  <2> QED
    BY <2>1, <2>2, <2>3, PlaceKept
<1>13. PageBegins'
  BY <1>5, <1>12 DEF ReviewInv, PageBegins
<1>14. CursorKeeps' /\ PagesComplete'
  BY <1>5 DEF ReviewInv, CursorKeeps, PagesComplete, SeenSet
<1>15. OffsetKeeps'
  <2> SUFFICES ASSUME page.mode = "offset"
               PROVE  /\ page.offset <= Cardinality(Listed(Blank)')
                      /\ ~page.done => \A w \in page.there : w \in SeenSet \/ Place(w, Listed(Blank)') >= page.offset
    BY <1>5 DEF OffsetKeeps, SeenSet
  <2>1. page.offset \in Nat /\ Cardinality(Listed(Blank)) \in Nat /\ Cardinality(Listed(Blank)') \in Nat
    <3>1. page.offset \in Nat /\ RowsApart
      BY DEF ReviewInv, ReviewTypeOK
    <3> QED
      BY <1>12, <3>1, ListedOrdered, FS_CardinalityType DEF Ordered
  <2>2. \A w \in page.there : /\ w \in Listed(Blank) /\ Place(w, Listed(Blank)) \in Nat /\ Place(w, Listed(Blank)') \in Nat
                              /\ Place(w, Listed(Blank)) <= Place(w, Listed(Blank)')
    <3>1. page.there \subseteq Listed(Blank) /\ RowsApart
      BY DEF ReviewInv, PageBegins
    <3>2. Ordered(Listed(Blank))
      BY <3>1, ListedOrdered
    <3> QED
      BY <1>12, <3>1, <3>2, PlaceFinite
  <2>3. page.offset <= Cardinality(Listed(Blank))
    BY DEF ReviewInv, OffsetKeeps
  <2>4. page.offset <= Cardinality(Listed(Blank)')
    BY <1>12, <2>1, <2>3
  <2>5. ASSUME ~page.done, NEW w \in page.there PROVE w \in SeenSet \/ Place(w, Listed(Blank)') >= page.offset
    <3>1. w \in SeenSet \/ Place(w, Listed(Blank)) >= page.offset
      BY <2>5 DEF ReviewInv, OffsetKeeps
    <3> QED
      BY <2>1, <2>2, <3>1
  <2> QED
    BY <2>4, <2>5
<1> QED
  BY <1>7, <1>8, <1>9, <1>10, <1>11, <1>13, <1>14, <1>15 DEF ReviewInv

LEMMA OnwardInv ==
  ASSUME ReviewConstants, ReviewInv, NEW q \in Rater, req[q].at # "idle", NEW at \in {"check", "insert", "load"},
         Onward(q, at), UNCHANGED <<over, rows, today, nextId, page>>
  PROVE  ReviewInv'
<1> DEFINE t == [req[q] EXCEPT !.at = at]
<1>1. req[q] \in ReqState /\ req[q].kind \in Kind /\ req[q].ride \in Ride /\ req[q].rating \in Rating
  BY DEF ReviewInv, ReviewTypeOK, ReqState, RequestsNamed
<1>2. /\ t \in ReqState /\ t.at = at /\ t.kind = req[q].kind /\ t.ride = req[q].ride
      /\ t.rating = req[q].rating /\ t.answer = req[q].answer
  BY <1>1 DEF ReqState
<1>3. req' = [req EXCEPT ![q] = t]
  BY DEF Onward, ReviewInv, ReviewTypeOK
<1> HIDE DEF t
<1>4. RequestStep(q, t)
  BY <1>1, <1>2, <1>3 DEF RequestStep
<1>5. t.answer \in Rating => \E w \in ReviewOf(t.kind, t.ride) : w.rating = t.answer
  BY <1>2 DEF ReviewInv, AnswerStands
<1> QED
  BY <1>4, <1>5, RequestStepInv

LEMMA AnswerInv ==
  ASSUME ReviewConstants, ReviewInv, NEW q \in Rater, req[q].at # "idle", NEW a \in Rating \cup {"refused", "error"},
         Answer(q, a), a \in Rating => \E w \in ReviewOf(req[q].kind, req[q].ride) : w.rating = a,
         UNCHANGED <<over, rows, today, nextId, page>>
  PROVE  ReviewInv'
<1> DEFINE t == [req[q] EXCEPT !.at = "done", !.answer = a]
<1>1. req[q] \in ReqState /\ req[q].kind \in Kind /\ req[q].ride \in Ride /\ req[q].rating \in Rating
  BY DEF ReviewInv, ReviewTypeOK, ReqState, RequestsNamed
<1>2. /\ t \in ReqState /\ t.at = "done" /\ t.kind = req[q].kind /\ t.ride = req[q].ride
      /\ t.rating = req[q].rating /\ t.answer = a
  BY <1>1 DEF ReqState
<1>3. req' = [req EXCEPT ![q] = t]
  BY DEF Answer, ReviewInv, ReviewTypeOK
<1> HIDE DEF t
<1>4. RequestStep(q, t)
  BY <1>1, <1>2, <1>3 DEF RequestStep
<1> QED
  BY <1>2, <1>4, RequestStepInv

LEMMA FreshState ==
  ASSUME ReviewConstants
  PROVE  Fresh \in ReqState /\ Fresh.at = "idle" /\ Fresh.answer \notin Rating
  BY DEF Fresh, ReqState, ReviewConstants

LEMMA RequestsInv ==
  ASSUME ReviewConstants, ReviewInv, NEW q \in Rater,
         \/ \E k \in Kind, r \in Ride, n \in Rating : Submit(q, k, r, n)
         \/ Validate(q) \/ Check(q) \/ Stamp(q) \/ CommitReview(q) \/ CommitUnanswered(q)
         \/ Load(q) \/ Fail(q) \/ Retire(q)
  PROVE  ReviewInv'
<1>1. ASSUME NEW k \in Kind, NEW r \in Ride, NEW n \in Rating, Submit(q, k, r, n) PROVE ReviewInv'
  <2> DEFINE t == [Fresh EXCEPT !.at = "validate", !.kind = k, !.ride = r, !.rating = n]
  <2>1. t \in ReqState /\ t.at = "validate" /\ t.kind = k /\ t.ride = r /\ t.rating = n /\ t.answer \notin Rating
    BY DEF Fresh, ReqState, ReviewConstants
  <2>2. req' = [req EXCEPT ![q] = t] /\ UNCHANGED <<over, rows, today, nextId, page>>
    BY <1>1 DEF Submit
  <2> HIDE DEF t
  <2>3. RequestStep(q, t)
    BY <2>1, <2>2 DEF RequestStep
  <2> QED
    BY <2>1, <2>2, <2>3, RequestStepInv
<1>2. CASE Validate(q)
  <2>1. "refused" \notin Rating
    BY DEF ReviewConstants
  <2> QED
    BY <1>2, <2>1, OnwardInv, AnswerInv DEF Validate
<1>3. CASE Check(q)
  BY <1>3, OnwardInv DEF Check
<1>4. CASE Stamp(q)
  <2> DEFINE t == [req[q] EXCEPT !.at = "commit", !.stamp = today]
  <2>1. req[q] \in ReqState /\ req[q].kind \in Kind /\ req[q].ride \in Ride /\ req[q].rating \in Rating
    BY <1>4 DEF Stamp, ReviewInv, ReviewTypeOK, ReqState, RequestsNamed
  <2>2. /\ t \in ReqState /\ t.at = "commit" /\ t.kind = req[q].kind /\ t.ride = req[q].ride
        /\ t.rating = req[q].rating /\ t.answer = req[q].answer /\ t.stamp \in 1 .. MaxClock
    BY <2>1 DEF ReqState, ReviewInv, ReviewTypeOK
  <2>3. req' = [req EXCEPT ![q] = t] /\ UNCHANGED <<over, rows, today, nextId, page>>
    BY <1>4 DEF Stamp, ReviewInv, ReviewTypeOK
  <2> HIDE DEF t
  <2>4. RequestStep(q, t)
    BY <2>1, <2>2, <2>3 DEF RequestStep
  <2>5. t.answer \in Rating => \E w \in ReviewOf(t.kind, t.ride) : w.rating = t.answer
    BY <2>2 DEF ReviewInv, AnswerStands
  <2> QED
    BY <2>3, <2>4, <2>5, RequestStepInv
<1>5. CASE CommitReview(q)
  <2>1. CASE ReviewOf(req[q].kind, req[q].ride) = {}
    BY <1>5, <2>1, InsertInv DEF CommitReview, Insert
  <2>2. CASE ReviewOf(req[q].kind, req[q].ride) # {}
    <3>1. Onward(q, "load") /\ UNCHANGED <<over, rows, today, nextId>> /\ Grows /\ req[q].at # "idle"
      BY <1>5, <2>2 DEF CommitReview, Insert
    <3>2. page' = page
      BY <3>1 DEF Grows, ReviewInv, ReviewTypeOK
    <3> QED
      BY <3>1, <3>2, OnwardInv
  <2> QED
    BY <2>1, <2>2
<1>6. CASE CommitUnanswered(q)
  BY <1>6, InsertInv DEF CommitUnanswered
<1>7. CASE Load(q)
  <2>1. PICK w \in ReviewOf(req[q].kind, req[q].ride) : Answer(q, w.rating)
    BY <1>7 DEF Load
  <2>2. w.rating \in Rating
    BY <2>1 DEF ReviewOf, ReviewInv, ReviewTypeOK, Row
  <2> QED
    BY <1>7, <2>1, <2>2, AnswerInv DEF Load
<1>8. CASE Fail(q)
  <2>1. "error" \notin Rating
    BY DEF ReviewConstants
  <2> QED
    BY <1>8, <2>1, AnswerInv DEF Fail
<1>9. CASE Retire(q)
  <2>1. RequestStep(q, Fresh) /\ UNCHANGED <<over, rows, today, nextId, page>>
    BY <1>9, FreshState DEF Retire, RequestStep, Fresh
  <2> QED
    BY <2>1, FreshState, RequestStepInv
<1> QED
  BY <1>1, <1>2, <1>3, <1>4, <1>5, <1>6, <1>7, <1>8, <1>9

\* The page alone changes.
LEMMA PageStepInv ==
  ASSUME ReviewConstants, ReviewInv, UNCHANGED <<over, rows, today, nextId, req>>,
         page' \in [mode : Mode \cup {Blank}, before : Row \cup {Blank}, offset : Nat, seen : Seq(Row),
                    there : SUBSET Row, grown : BOOLEAN, done : BOOLEAN],
         PageBegins', CursorKeeps', OffsetKeeps', PagesComplete'
  PROVE  ReviewInv'
<1>1. ReviewTypeOK' /\ RowsApart' /\ OneReviewPerRide' /\ RequestsNamed' /\ AnswerStands'
  BY DEF ReviewInv, ReviewTypeOK, RowsApart, OneReviewPerRide, RequestsNamed, AnswerStands, ReviewOf
<1> QED
  BY <1>1 DEF ReviewInv

LEMMA OpenInv == ASSUME ReviewConstants, ReviewInv, NEW m \in Mode, Open(m) PROVE ReviewInv'
<1>1. UNCHANGED <<over, rows, today, nextId, req>> /\ Listed(Blank)' = Listed(Blank)
  BY DEF Open, Listed
<1>2. /\ page' = [FirstPage EXCEPT !.mode = m, !.there = Listed(Blank)] /\ Listed(Blank) \subseteq Row
  BY DEF Open, Listed, ReviewInv, ReviewTypeOK
<1>3. /\ page'.mode = m /\ page'.before = Blank /\ page'.offset = 0 /\ page'.seen = <<>> /\ page'.done = FALSE
      /\ page'.there = Listed(Blank) /\ page'.grown = FALSE
  BY <1>2 DEF FirstPage
<1>4. page' \in [mode : Mode \cup {Blank}, before : Row \cup {Blank}, offset : Nat, seen : Seq(Row),
                 there : SUBSET Row, grown : BOOLEAN, done : BOOLEAN]
  <2>1. page' = [mode |-> m, before |-> Blank, offset |-> 0, seen |-> <<>>, there |-> Listed(Blank),
                 grown |-> FALSE, done |-> FALSE]
    BY <1>2 DEF FirstPage
  <2>2. <<>> \in Seq(Row)
    OBVIOUS
  <2>3. /\ m \in Mode \cup {Blank} /\ Blank \in Row \cup {Blank} /\ 0 \in Nat /\ FALSE \in BOOLEAN
        /\ Listed(Blank) \in SUBSET Row
    BY <1>2
  <2> QED
    BY <2>1, <2>2, <2>3
<1>5. PageBegins' /\ PagesComplete'
  BY <1>1, <1>3 DEF PageBegins, PagesComplete, ReviewConstants
<1>6. CursorKeeps'
  BY <1>3 DEF CursorKeeps, IsInjective
<1>7. OffsetKeeps'
  <2>1. Ordered(Listed(Blank)) /\ Cardinality(Listed(Blank)) \in Nat
    BY ListedOrdered DEF ReviewInv
  <2>2. \A w \in Listed(Blank) : Place(w, Listed(Blank)) \in Nat
    BY <2>1, PlaceFinite
  <2> QED
    BY <1>1, <1>3, <2>1, <2>2 DEF OffsetKeeps, IsInjective
<1> QED
  BY <1>1, <1>4, <1>5, <1>6, <1>7, PageStepInv

\* What a longer list has seen.
LEMMA SeenAfter ==
  ASSUME page.seen \in Seq(Row), NEW b \in Seq(Row), page'.seen = page.seen \o b
  PROVE  /\ Len(page.seen) \in Nat /\ Len(b) \in Nat /\ DOMAIN page.seen = 1 .. Len(page.seen)
         /\ DOMAIN page'.seen = 1 .. Len(page.seen) + Len(b)
         /\ \A i \in 1 .. Len(page.seen) + Len(b) :
              \/ i \in 1 .. Len(page.seen) /\ page'.seen[i] = page.seen[i]
              \/ i - Len(page.seen) \in 1 .. Len(b) /\ page'.seen[i] = b[i - Len(page.seen)]
         /\ \A w : w \in SeenSet' <=> w \in SeenSet \/ \E i \in 1 .. Len(b) : b[i] = w
<1>0. PICK a \in Seq(Row) : page.seen = a /\ page'.seen = a \o b
  OBVIOUS
<1>1. /\ Len(a) \in Nat /\ Len(b) \in Nat /\ DOMAIN a = 1 .. Len(a) /\ DOMAIN b = 1 .. Len(b)
      /\ DOMAIN (a \o b) = 1 .. Len(a) + Len(b)
  OBVIOUS
<1>2. \A i \in 1 .. Len(a) + Len(b) : (a \o b)[i] = IF i <= Len(a) THEN a[i] ELSE b[i - Len(a)]
  OBVIOUS
<1>3. \A i \in 1 .. Len(a) : (a \o b)[i] = a[i]
  BY <1>1, <1>2
<1>4. \A i \in 1 .. Len(b) : (a \o b)[Len(a) + i] = b[i]
  BY <1>1, <1>2
<1>5. \A i \in 1 .. Len(a) + Len(b) : \/ i \in 1 .. Len(a) /\ (a \o b)[i] = a[i]
                                      \/ i - Len(a) \in 1 .. Len(b) /\ (a \o b)[i] = b[i - Len(a)]
  BY <1>1, <1>2
<1>6. \A w : w \in SeenSet' <=> w \in SeenSet \/ \E i \in 1 .. Len(b) : b[i] = w
  <2> SUFFICES ASSUME NEW w PROVE w \in SeenSet' <=> w \in SeenSet \/ \E i \in 1 .. Len(b) : b[i] = w
    OBVIOUS
  <2>1. w \in SeenSet' <=> \E i \in 1 .. Len(a) + Len(b) : (a \o b)[i] = w
    BY <1>0, <1>1 DEF SeenSet
  <2>2. w \in SeenSet <=> \E i \in 1 .. Len(a) : a[i] = w
    BY <1>0, <1>1 DEF SeenSet
  <2>3. ASSUME NEW i \in 1 .. Len(b) PROVE Len(a) + i \in 1 .. Len(a) + Len(b)
    BY <1>1
  <2>4. ASSUME NEW i \in 1 .. Len(a) PROVE i \in 1 .. Len(a) + Len(b)
    BY <1>1
  <2>5. ASSUME w \in SeenSet' PROVE w \in SeenSet \/ \E i \in 1 .. Len(b) : b[i] = w
    <3>1. PICK i \in 1 .. Len(a) + Len(b) : (a \o b)[i] = w
      BY <2>1, <2>5
    <3> QED
      BY <1>5, <2>2, <3>1
  <2>6. ASSUME w \in SeenSet PROVE w \in SeenSet'
    BY <1>3, <2>1, <2>2, <2>4, <2>6
  <2>7. ASSUME \E i \in 1 .. Len(b) : b[i] = w PROVE w \in SeenSet'
    BY <1>4, <2>1, <2>3, <2>7
  <2> QED
    BY <2>5, <2>6, <2>7
<1> QED
  BY <1>0, <1>1, <1>5, <1>6

LEMMA CursorPageInv == ASSUME ReviewConstants, ReviewInv, CursorPage PROVE ReviewInv'
<1> DEFINE S == Listed(page.before)
<1>1. /\ page.mode = "cursor" /\ ~page.done /\ UNCHANGED <<over, rows, today, nextId, req>>
      /\ Listed(Blank)' = Listed(Blank) /\ Ordered(S) /\ PageSize \in Nat /\ PageSize > 0
      /\ page.seen \in Seq(Row) /\ page.before \in Row \cup {Blank} /\ page.there \subseteq Listed(Blank)
      /\ Blank \notin Row /\ Blank # "cursor"
  <2>1. page.mode = "cursor" /\ ~page.done /\ UNCHANGED <<over, rows, today, nextId, req>>
    BY DEF CursorPage
  <2>2. Listed(Blank)' = Listed(Blank)
    BY <2>1 DEF Listed
  <2>3. PageSize \in Nat /\ PageSize > 0 /\ Blank \notin Row /\ Blank # "cursor"
    BY DEF ReviewConstants, Mode
  <2>4. page.seen \in Seq(Row) /\ page.before \in Row \cup {Blank} /\ page.there \subseteq Listed(Blank)
    BY DEF ReviewInv, ReviewTypeOK, PageBegins
  <2>5. Ordered(S)
    BY ListedOrdered DEF ReviewInv
  <2> QED
    BY <2>1, <2>2, <2>3, <2>4, <2>5
<1>2. PICK items \in Seq(S), total \in Nat :
        /\ items = List(page.before, 0, PageSize + 1) /\ total = Cardinality(S)
        /\ Len(items) = IF PageSize + 1 < total THEN PageSize + 1 ELSE total
        /\ \A i \in 1 .. Len(items) : items[i] \in S /\ Place(items[i], S) = i - 1
  <2>1. PageSize + 1 \in Nat /\ 0 \in Nat /\ Cardinality(S) \in Nat
    BY <1>1, ListedOrdered DEF ReviewInv
  <2> DEFINE it == List(page.before, 0, PageSize + 1)
  <2>2. /\ it \in Seq(S) /\ Len(it) = IF 0 + (PageSize + 1) < Cardinality(S) THEN PageSize + 1 ELSE Cardinality(S) - 0
        /\ \A i \in 1 .. Len(it) : it[i] \in S /\ Place(it[i], S) = 0 + i - 1
    <3>1. Ordered(Listed(page.before)) /\ 0 <= Cardinality(Listed(page.before)) /\ S = Listed(page.before)
      BY <1>1, <2>1
    <3> HIDE DEF S
    <3> QED
      BY <2>1, <3>1, ListHolds
  <2> HIDE DEF it
  <2>3. Len(it) = (IF PageSize + 1 < Cardinality(S) THEN PageSize + 1 ELSE Cardinality(S)) /\ Len(it) \in Nat
    BY <1>1, <2>1, <2>2
  <2>4. \A i \in 1 .. Len(it) : it[i] \in S /\ Place(it[i], S) = i - 1
    BY <2>2, <2>3
  <2> QED
    BY <2>1, <2>2, <2>3, <2>4 DEF it
<1> DEFINE more == Len(items) > PageSize
<1>3. PICK shown \in Seq(Row) :
        /\ Len(shown) = (IF more THEN PageSize ELSE total) /\ Len(shown) <= Len(items)
        /\ \A i \in 1 .. Len(shown) : shown[i] = items[i]
        /\ page' = [page EXCEPT !.seen = @ \o shown, !.before = IF more THEN items[PageSize] ELSE @, !.done = ~more]
  <2> DEFINE sh == IF Len(items) > PageSize THEN SubSeq(items, 1, PageSize) ELSE items
  <2>1. page' = [page EXCEPT !.seen = @ \o sh, !.before = IF Len(items) > PageSize THEN items[PageSize] ELSE @,
                             !.done = ~(Len(items) > PageSize)]
    BY <1>2 DEF CursorPage, Boundary
  <2>2. items \in Seq(Row)
    BY <1>1, <1>2 DEF Ordered
  <2>3. sh \in Seq(Row) /\ Len(sh) = (IF Len(items) > PageSize THEN PageSize ELSE total) /\ Len(sh) <= Len(items)
    BY <1>1, <1>2, <2>2
  <2>4. \A i \in 1 .. Len(sh) : sh[i] = items[i]
    BY <1>1, <1>2, <2>2
  <2> HIDE DEF sh
  <2> QED
    BY <2>1, <2>3, <2>4
<1>4. /\ page'.mode = "cursor" /\ page'.there = page.there /\ page'.seen = page.seen \o shown
      /\ page'.before = (IF more THEN items[PageSize] ELSE page.before) /\ page'.done = ~more
  BY <1>1, <1>3 DEF ReviewInv, ReviewTypeOK
<1>5. S \subseteq Row /\ (more => items[PageSize] \in S /\ Place(items[PageSize], S) = PageSize - 1)
  BY <1>1, <1>2, <1>3 DEF Ordered
<1>6. page' \in [mode : Mode \cup {Blank}, before : Row \cup {Blank}, offset : Nat, seen : Seq(Row),
                 there : SUBSET Row, grown : BOOLEAN, done : BOOLEAN]
  <2>1. PICK b2 \in Row \cup {Blank}, s2 \in Seq(Row), d2 \in BOOLEAN :
          page' = [page EXCEPT !.seen = s2, !.before = b2, !.done = d2]
    <3>1. page.seen \o shown \in Seq(Row) /\ (IF more THEN items[PageSize] ELSE page.before) \in Row \cup {Blank}
          /\ (~more) \in BOOLEAN
      BY <1>1, <1>3, <1>5
    <3> QED
      BY <1>3, <3>1
  <2> QED
    BY <2>1 DEF ReviewInv, ReviewTypeOK
<1>7. /\ Len(page.seen) \in Nat /\ Len(shown) \in Nat /\ DOMAIN page.seen = 1 .. Len(page.seen)
      /\ DOMAIN page'.seen = 1 .. Len(page.seen) + Len(shown)
      /\ \A i \in 1 .. Len(page.seen) + Len(shown) :
           \/ i \in 1 .. Len(page.seen) /\ page'.seen[i] = page.seen[i]
           \/ i - Len(page.seen) \in 1 .. Len(shown) /\ page'.seen[i] = shown[i - Len(page.seen)]
      /\ \A w : w \in SeenSet' <=> w \in SeenSet \/ \E i \in 1 .. Len(shown) : shown[i] = w
  BY <1>1, <1>4, SeenAfter
<1>8. \A i \in 1 .. Len(shown) : shown[i] \in S /\ Place(shown[i], S) = i - 1
  BY <1>2, <1>3, <1>7
<1>9. ASSUME NEW w \in page.there, w \notin SeenSet
      PROVE  w \in S /\ Place(w, S) \in Nat /\ Place(w, S) < total /\ (Place(w, S) < Len(shown) => w \in SeenSet')
  <2>1. w \in S
    BY <1>1, <1>9 DEF ReviewInv, CursorKeeps, Listed
  <2>2. Place(w, S) \in Nat /\ Place(w, S) < total
    BY <1>1, <1>2, <2>1, PlaceFinite
  <2>3. ASSUME Place(w, S) < Len(shown) PROVE w \in SeenSet'
    <3>1. PICK i \in 1 .. Len(shown) : i = Place(w, S) + 1
      BY <1>7, <2>2, <2>3
    <3>2. shown[i] \in S /\ Place(shown[i], S) = Place(w, S)
      BY <1>8, <2>2, <3>1
    <3> QED
      BY <1>1, <1>7, <2>1, <3>2, PlaceOrders
  <2> QED
    BY <2>1, <2>2, <2>3
<1>10. PageBegins'
  BY <1>1, <1>4 DEF PageBegins
<1>11. PagesComplete'
  <2> SUFFICES ASSUME ~more, NEW w \in page.there PROVE w \in SeenSet'
    BY <1>4 DEF PagesComplete, SeenSet
  <2>1. Len(shown) = total
    BY <1>3
  <2> QED
    BY <1>7, <1>9, <2>1
<1>12. CursorKeeps'
  <2>1. \A i \in 1 .. Len(page.seen) : /\ page.seen[i] \in Row /\ page.before # Blank
                                      /\ ~Older(page.seen[i], page.before)
    <3>1. page.before = Blank => Len(page.seen) = 0
      BY <1>1 DEF ReviewInv, CursorKeeps
    <3>2. page.before # Blank => \A i \in DOMAIN page.seen : ~Older(page.seen[i], page.before)
      BY <1>1 DEF ReviewInv, CursorKeeps
    <3> QED
      BY <1>1, <1>7, <3>1, <3>2
  <2>2. IsInjective(page'.seen)
    <3>1. \A i, j \in 1 .. Len(page.seen) : page.seen[i] = page.seen[j] => i = j
      BY <1>1, <1>7 DEF ReviewInv, CursorKeeps, IsInjective
    <3>2. \A i, j \in 1 .. Len(shown) : shown[i] = shown[j] => i = j
      <4> SUFFICES ASSUME NEW i \in 1 .. Len(shown), NEW j \in 1 .. Len(shown), shown[i] = shown[j] PROVE i = j
        OBVIOUS
      <4>1. i - 1 = Place(shown[i], S) /\ j - 1 = Place(shown[j], S)
        BY <1>8
      <4>2. i - 1 = j - 1
        BY <4>1
      <4> QED
        BY <1>7, <4>2
    <3>3. \A i \in 1 .. Len(page.seen), j \in 1 .. Len(shown) : page.seen[i] # shown[j]
      BY <1>8, <2>1 DEF Listed
    <3> SUFFICES ASSUME NEW i \in 1 .. Len(page.seen) + Len(shown), NEW j \in 1 .. Len(page.seen) + Len(shown),
                        page'.seen[i] = page'.seen[j]
                 PROVE  i = j
      BY <1>7 DEF IsInjective
    <3>4. CASE i \in 1 .. Len(page.seen) /\ page'.seen[i] = page.seen[i]
      <4>1. CASE j \in 1 .. Len(page.seen) /\ page'.seen[j] = page.seen[j]
        BY <3>1, <3>4, <4>1
      <4>2. CASE j - Len(page.seen) \in 1 .. Len(shown) /\ page'.seen[j] = shown[j - Len(page.seen)]
        BY <3>3, <3>4, <4>2
      <4> QED
        BY <1>7, <4>1, <4>2
    <3>5. CASE i - Len(page.seen) \in 1 .. Len(shown) /\ page'.seen[i] = shown[i - Len(page.seen)]
      <4>1. CASE j \in 1 .. Len(page.seen) /\ page'.seen[j] = page.seen[j]
        BY <3>3, <3>5, <4>1
      <4>2. CASE j - Len(page.seen) \in 1 .. Len(shown) /\ page'.seen[j] = shown[j - Len(page.seen)]
        <5>1. i - Len(page.seen) = j - Len(page.seen)
          BY <3>2, <3>5, <4>2
        <5> QED
          BY <1>7, <5>1
      <4> QED
        BY <1>7, <4>1, <4>2
    <3> QED
      BY <1>7, <3>4, <3>5
  <2> SUFFICES ASSUME more
               PROVE  /\ \A i \in DOMAIN page'.seen : ~Older(page'.seen[i], page'.before)
                      /\ \A w \in page.there : w \in SeenSet' \/ Older(w, page'.before)
    <3>1. more => page'.before # Blank
      BY <1>1, <1>4, <1>5
    <3> QED
      BY <1>4, <2>2, <3>1 DEF CursorKeeps, SeenSet
  <2>3. PICK b \in S : b = items[PageSize] /\ page'.before = b /\ Place(b, S) = PageSize - 1 /\ Len(shown) = PageSize
    BY <1>3, <1>4, <1>5
  <2>4. ASSUME NEW i \in 1 .. Len(page.seen) PROVE ~Older(page.seen[i], b)
    <3>1. /\ page.before \in Row /\ page.seen[i] \in Row /\ b \in Row
          /\ ~Older(page.seen[i], page.before) /\ Older(b, page.before)
      BY <1>1, <1>5, <2>1 DEF Listed
    <3> QED
      BY <3>1, NewerOrders DEF Older
  <2>5. ASSUME NEW i \in 1 .. Len(shown) PROVE ~Older(shown[i], b)
    <3>1. Older(shown[i], b) => Place(b, S) < Place(shown[i], S)
      BY <1>1, <1>8, PlaceRises DEF Older
    <3> QED
      BY <1>1, <1>8, <2>3, <3>1
  <2>6. ASSUME NEW w \in page.there, w \notin SeenSet' PROVE Older(w, b)
    <3>1. w \notin SeenSet
      BY <1>7, <2>6
    <3>2. Place(b, S) < Place(w, S) /\ w \in S
      BY <1>1, <1>9, <2>3, <2>6, <3>1
    <3> QED
      BY <1>1, <3>2, PlaceOrders DEF Older
  <2> QED
    BY <1>7, <2>3, <2>4, <2>5, <2>6
<1>13. OffsetKeeps'
  BY <1>4 DEF OffsetKeeps
<1> QED
  BY <1>1, <1>6, <1>10, <1>11, <1>12, <1>13, PageStepInv

LEMMA OffsetPageInv == ASSUME ReviewConstants, ReviewInv, OffsetPage PROVE ReviewInv'
<1> DEFINE S == Listed(Blank)
<1>1. /\ page.mode = "offset" /\ ~page.done /\ UNCHANGED <<over, rows, today, nextId, req>>
      /\ Listed(Blank)' = Listed(Blank) /\ Ordered(S) /\ PageSize \in Nat /\ PageSize > 0
      /\ page.seen \in Seq(Row) /\ page.offset \in Nat /\ page.there \subseteq Listed(Blank)
      /\ Blank # "offset"
  <2>1. page.mode = "offset" /\ ~page.done /\ UNCHANGED <<over, rows, today, nextId, req>>
    BY DEF OffsetPage
  <2>2. Listed(Blank)' = Listed(Blank)
    BY <2>1 DEF Listed
  <2>3. PageSize \in Nat /\ PageSize > 0 /\ Blank # "offset"
    BY DEF ReviewConstants, Mode
  <2>4. page.seen \in Seq(Row) /\ page.offset \in Nat /\ page.there \subseteq Listed(Blank)
    BY DEF ReviewInv, ReviewTypeOK, PageBegins
  <2>5. Ordered(S)
    BY ListedOrdered DEF ReviewInv
  <2> QED
    BY <2>1, <2>2, <2>3, <2>4, <2>5
<1>2. PICK items \in Seq(S), total \in Nat, o \in Nat :
        /\ items = List(Blank, page.offset, PageSize) /\ total = Cardinality(S) /\ o = page.offset /\ o <= total
        /\ Len(items) = IF o + PageSize < total THEN PageSize ELSE total - o
        /\ \A i \in 1 .. Len(items) : items[i] \in S /\ Place(items[i], S) = o + i - 1
  <2>1. Cardinality(S) \in Nat /\ page.offset <= Cardinality(S)
    BY <1>1, ListedOrdered DEF ReviewInv, OffsetKeeps
  <2> DEFINE it == List(Blank, page.offset, PageSize)
  <2>2. PICK o \in Nat : o = page.offset
    BY <1>1
  <2>3. /\ it \in Seq(S) /\ Len(it) = IF o + PageSize < Cardinality(S) THEN PageSize ELSE Cardinality(S) - o
        /\ \A i \in 1 .. Len(it) : it[i] \in S /\ Place(it[i], S) = o + i - 1
    <3>1. /\ Ordered(Listed(Blank)) /\ o <= Cardinality(Listed(Blank)) /\ S = Listed(Blank)
          /\ o \in Nat /\ PageSize \in Nat /\ o = page.offset
      BY <1>1, <2>1, <2>2
    <3> HIDE DEF S
    <3> QED
      BY <3>1, ListHolds
  <2> HIDE DEF it
  <2>4. /\ it = List(Blank, page.offset, PageSize) /\ Cardinality(S) = Cardinality(S) /\ o = page.offset
        /\ o <= Cardinality(S)
    BY <2>1, <2>2 DEF it
  <2> HIDE DEF S
  <2> QED
    BY <2>1, <2>2, <2>3, <2>4
<1>3. /\ items \in Seq(Row) /\ Len(items) \in Nat
      /\ page' = [page EXCEPT !.seen = @ \o items, !.offset = @ + Len(items), !.done = Len(items) < PageSize]
  BY <1>1, <1>2 DEF OffsetPage, Ordered
<1>4. /\ page'.mode = "offset" /\ page'.there = page.there /\ page'.seen = page.seen \o items
      /\ page'.offset = o + Len(items) /\ page'.done = (Len(items) < PageSize) /\ page'.grown = page.grown
  BY <1>1, <1>2, <1>3 DEF ReviewInv, ReviewTypeOK
<1>5. page' \in [mode : Mode \cup {Blank}, before : Row \cup {Blank}, offset : Nat, seen : Seq(Row),
                 there : SUBSET Row, grown : BOOLEAN, done : BOOLEAN]
  <2>1. PICK o2 \in Nat, s2 \in Seq(Row), d2 \in BOOLEAN :
          page' = [page EXCEPT !.seen = s2, !.offset = o2, !.done = d2]
    <3>1. page.seen \o items \in Seq(Row) /\ page.offset + Len(items) \in Nat /\ (Len(items) < PageSize) \in BOOLEAN
      BY <1>1, <1>3
    <3> QED
      BY <1>3, <3>1
  <2> QED
    BY <2>1 DEF ReviewInv, ReviewTypeOK
<1>6. /\ Len(page.seen) \in Nat /\ DOMAIN page.seen = 1 .. Len(page.seen)
      /\ DOMAIN page'.seen = 1 .. Len(page.seen) + Len(items)
      /\ \A i \in 1 .. Len(page.seen) + Len(items) :
           \/ i \in 1 .. Len(page.seen) /\ page'.seen[i] = page.seen[i]
           \/ i - Len(page.seen) \in 1 .. Len(items) /\ page'.seen[i] = items[i - Len(page.seen)]
      /\ \A w : w \in SeenSet' <=> w \in SeenSet \/ \E i \in 1 .. Len(items) : items[i] = w
  BY <1>1, <1>3, <1>4, SeenAfter
<1>7. ASSUME NEW w \in page.there, w \notin SeenSet
      PROVE  w \in S /\ Place(w, S) \in Nat /\ Place(w, S) < total /\ (Place(w, S) < o + Len(items) => w \in SeenSet')
  <2>1. w \in S /\ Place(w, S) >= o
    BY <1>1, <1>2, <1>7 DEF ReviewInv, OffsetKeeps
  <2>2. Place(w, S) \in Nat /\ Place(w, S) < total
    BY <1>1, <1>2, <2>1, PlaceFinite
  <2>3. ASSUME Place(w, S) < o + Len(items) PROVE w \in SeenSet'
    <3>1. PICK i \in 1 .. Len(items) : i = Place(w, S) - o + 1
      BY <1>2, <1>3, <2>1, <2>2, <2>3
    <3>2. items[i] \in S /\ Place(items[i], S) = Place(w, S)
      BY <1>2, <2>2, <3>1
    <3> QED
      BY <1>1, <1>6, <2>1, <3>2, PlaceOrders
  <2> QED
    BY <2>1, <2>2, <2>3
<1>8. PageBegins'
  BY <1>1, <1>4 DEF PageBegins
<1>9. PagesComplete'
  <2> SUFFICES ASSUME Len(items) < PageSize, NEW w \in page.there PROVE w \in SeenSet'
    BY <1>4 DEF PagesComplete, SeenSet
  <2>1. o + Len(items) = total
    BY <1>1, <1>2
  <2> QED
    BY <1>6, <1>7, <2>1
<1>10. CursorKeeps'
  BY <1>4 DEF CursorKeeps
<1>11. o + Len(items) \in Nat /\ o + Len(items) <= total
  BY <1>1, <1>2, <1>3
<1>12. ASSUME NEW w \in page.there, w \notin SeenSet' PROVE Place(w, S) >= o + Len(items)
  <2>1. w \notin SeenSet
    BY <1>6, <1>12
  <2> QED
    BY <1>7, <1>11, <1>12, <2>1
<1>13. ASSUME ~page.grown
       PROVE  /\ IsInjective(page'.seen)
              /\ \A i \in DOMAIN page'.seen : page'.seen[i] \in S /\ Place(page'.seen[i], S) < o + Len(items)
  <2>1. \A i \in 1 .. Len(page.seen) : page.seen[i] \in S /\ Place(page.seen[i], S) < o
    BY <1>1, <1>2, <1>6, <1>13 DEF ReviewInv, OffsetKeeps
  <2>2. \A i, j \in 1 .. Len(page.seen) : page.seen[i] = page.seen[j] => i = j
    BY <1>1, <1>6, <1>13 DEF ReviewInv, OffsetKeeps, IsInjective
  <2>3. \A i, j \in 1 .. Len(items) : items[i] = items[j] => i = j
    BY <1>2, <1>3
  <2>4. \A i \in 1 .. Len(page.seen), j \in 1 .. Len(items) : page.seen[i] # items[j]
    BY <1>2, <1>3, <2>1
  <2>5. ASSUME NEW i \in 1 .. Len(page.seen) + Len(items), NEW j \in 1 .. Len(page.seen) + Len(items),
               page'.seen[i] = page'.seen[j]
        PROVE  i = j
    <3>1. CASE i \in 1 .. Len(page.seen) /\ page'.seen[i] = page.seen[i]
      <4>1. CASE j \in 1 .. Len(page.seen) /\ page'.seen[j] = page.seen[j]
        BY <2>2, <2>5, <3>1, <4>1
      <4>2. CASE j - Len(page.seen) \in 1 .. Len(items) /\ page'.seen[j] = items[j - Len(page.seen)]
        BY <2>4, <2>5, <3>1, <4>2
      <4> QED
        BY <1>6, <4>1, <4>2
    <3>2. CASE i - Len(page.seen) \in 1 .. Len(items) /\ page'.seen[i] = items[i - Len(page.seen)]
      <4>1. CASE j \in 1 .. Len(page.seen) /\ page'.seen[j] = page.seen[j]
        BY <2>4, <2>5, <3>2, <4>1
      <4>2. CASE j - Len(page.seen) \in 1 .. Len(items) /\ page'.seen[j] = items[j - Len(page.seen)]
        <5>1. i - Len(page.seen) = j - Len(page.seen)
          BY <2>3, <2>5, <3>2, <4>2
        <5> QED
          BY <1>6, <5>1
      <4> QED
        BY <1>6, <4>1, <4>2
    <3> QED
      BY <1>6, <3>1, <3>2
  <2>6. ASSUME NEW i \in 1 .. Len(page.seen) + Len(items)
        PROVE  page'.seen[i] \in S /\ Place(page'.seen[i], S) < o + Len(items)
    <3>1. CASE i \in 1 .. Len(page.seen) /\ page'.seen[i] = page.seen[i]
      <4>1. Place(page.seen[i], S) \in Nat
        BY <1>1, <2>1, <3>1, PlaceFinite
      <4> QED
        BY <1>3, <2>1, <3>1, <4>1
    <3>2. CASE i - Len(page.seen) \in 1 .. Len(items) /\ page'.seen[i] = items[i - Len(page.seen)]
      <4>1. PICK k \in 1 .. Len(items) : page'.seen[i] = items[k]
        BY <3>2
      <4>2. items[k] \in S /\ Place(items[k], S) = o + k - 1
        BY <1>2
      <4>3. o + k - 1 < o + Len(items)
        BY <1>2, <1>3
      <4> QED
        BY <4>1, <4>2, <4>3
    <3> QED
      BY <1>6, <3>1, <3>2
  <2> QED
    BY <1>6, <2>5, <2>6 DEF IsInjective
<1>14. OffsetKeeps'
  BY <1>1, <1>2, <1>4, <1>11, <1>12, <1>13 DEF OffsetKeeps, SeenSet
<1> QED
  BY <1>1, <1>5, <1>8, <1>9, <1>10, <1>14, PageStepInv

LEMMA ReviewStepInv == ASSUME ReviewConstants, ReviewInv, [ReviewNext]_reviewVars PROVE ReviewInv'
<1>1. CASE \E r \in Ride : CompleteRide(r)
  <2>1. over' \subseteq Ride /\ UNCHANGED <<rows, today, nextId, req, page>>
    BY <1>1 DEF CompleteRide, ReviewInv, ReviewTypeOK
  <2>2. ReviewTypeOK'
    BY <2>1 DEF ReviewInv, ReviewTypeOK
  <2>3. RowsApart' /\ OneReviewPerRide' /\ RequestsNamed' /\ AnswerStands'
    BY <2>1 DEF ReviewInv, RowsApart, OneReviewPerRide, RequestsNamed, AnswerStands, ReviewOf
  <2>4. PageBegins' /\ CursorKeeps' /\ OffsetKeeps' /\ PagesComplete'
    BY <2>1 DEF ReviewInv, PageBegins, CursorKeeps, OffsetKeeps, PagesComplete, SeenSet, Listed
  <2> QED
    BY <2>2, <2>3, <2>4 DEF ReviewInv
<1>2. CASE ReviewTick \/ UNCHANGED reviewVars
  <2>1. today' \in 1 .. MaxClock /\ UNCHANGED <<over, rows, nextId, req, page>>
    <3>1. today \in 1 .. MaxClock /\ MaxClock \in Nat
      BY DEF ReviewInv, ReviewTypeOK, ReviewConstants
    <3> QED
      BY <1>2, <3>1 DEF ReviewTick, reviewVars
  <2>2. ReviewTypeOK'
    BY <2>1 DEF ReviewInv, ReviewTypeOK
  <2>3. RowsApart' /\ OneReviewPerRide' /\ RequestsNamed' /\ AnswerStands'
    BY <2>1 DEF ReviewInv, RowsApart, OneReviewPerRide, RequestsNamed, AnswerStands, ReviewOf
  <2>4. PageBegins' /\ CursorKeeps' /\ OffsetKeeps' /\ PagesComplete'
    BY <2>1 DEF ReviewInv, PageBegins, CursorKeeps, OffsetKeeps, PagesComplete, SeenSet, Listed
  <2> QED
    BY <2>2, <2>3, <2>4 DEF ReviewInv
<1> QED
  BY <1>1, <1>2, RequestsInv, OpenInv, CursorPageInv, OffsetPageInv DEF ReviewNext

LEMMA ReviewInitInv == ASSUME ReviewConstants, ReviewInit PROVE ReviewInv
<1>1. rows = {} /\ IsFiniteSet(rows) /\ \A q \in Rater : req[q].at = "idle" /\ req[q].answer \notin Rating
  BY FS_EmptySet, FreshState DEF ReviewInit
<1>2. /\ page = [mode |-> Blank, before |-> Blank, offset |-> 0, seen |-> <<>>, there |-> {},
                 grown |-> FALSE, done |-> FALSE]
      /\ <<>> \in Seq(Row)
  BY DEF ReviewInit, FirstPage
<1>3. req \in [Rater -> ReqState]
  BY FreshState DEF ReviewInit
<1>4. page \in [mode : Mode \cup {Blank}, before : Row \cup {Blank}, offset : Nat, seen : Seq(Row),
                there : SUBSET Row, grown : BOOLEAN, done : BOOLEAN]
  BY <1>2
<1>5. ReviewTypeOK
  BY <1>3, <1>4 DEF ReviewTypeOK, ReqState, ReviewInit, ReviewConstants
<1>6. RowsApart /\ OneReviewPerRide /\ RequestsNamed /\ AnswerStands
  BY <1>1 DEF RowsApart, Ordered, OneReviewPerRide, RequestsNamed, AnswerStands
<1>7. page.mode = Blank /\ page.there = {} /\ page.done = FALSE /\ page = FirstPage /\ Blank # "cursor" /\ Blank # "offset"
  BY <1>2 DEF FirstPage, ReviewConstants, Mode
<1>8. PageBegins /\ CursorKeeps /\ OffsetKeeps /\ PagesComplete
  BY <1>7 DEF PageBegins, CursorKeeps, OffsetKeeps, PagesComplete
<1> QED
  BY <1>5, <1>6, <1>8 DEF ReviewInv

LEMMA ReviewInvHolds == ASSUME ReviewConstants, ReviewInv PROVE ReviewsStand
<1>1. page.mode \in {"cursor", "offset", Blank} /\ page.grown \in BOOLEAN
  BY DEF ReviewInv, ReviewTypeOK, Mode
<1>2. page.mode = Blank => IsInjective(page.seen)
  BY DEF ReviewInv, PageBegins, FirstPage, IsInjective
<1>3. PagesDisjoint
  BY <1>1, <1>2 DEF ReviewInv, CursorKeeps, OffsetKeeps, PagesDisjoint
<1> QED
  BY <1>3 DEF ReviewInv, ReviewsStand

\* A ride has one review of each kind, the answer is the review that stands, and a client that paged
\* to the end has seen every review that was there when it began, with a cursor none twice
\* (CreateReview, the unique indexes, and ListDriverReviews by cursor and by offset).
THEOREM ReviewsStandAlways == ASSUME ReviewConstants PROVE ReviewSpec => []ReviewsStand
<1>1. ReviewInit => ReviewInv
  BY ReviewInitInv
<1>2. ReviewInv /\ [ReviewNext]_reviewVars => ReviewInv'
  BY ReviewStepInv
<1>3. ReviewInv => ReviewsStand
  BY ReviewInvHolds
<1> QED
  BY <1>1, <1>2, <1>3, PTL DEF ReviewSpec

----------------------------------------------------------------------------
(* Private objects: what is kept and who will remove the rest *)

\* Only the avatar of the beginning was ever in PostgreSQL, and none is once the content is dropped.
LegacyIsFirst == \A k \in Keys : row[k] = "legacy" => k = LegacyKey /\ ~dropped

\* An object nobody has linked yet is referred to by nobody and deleted by nobody.
NewIsUnknown ==
  \A u \in Uploads : up[u].pc \in {"idle", "put", "meta", "link"} =>
    /\ u \notin Referenced \cup lost
    /\ \A v \in Uploads : up[v].pc \in {"get", "remove", "row"} => up[v].key # u

\* An upload finds what it wrote.
WrittenStays ==
  \A u \in Uploads : /\ up[u].pc \in {"meta", "link"} => u \in bucket
                     /\ up[u].pc = "link" => row[u] = "external"

\* What is deleted is a key that nobody refers to, but for a commit whose answer was lost; an object
\* that is removed was in the bucket when it was looked for, and the row goes after it.
DeletedIsFree ==
  \A v \in Uploads : up[v].pc \in {"get", "remove", "row"} =>
    /\ up[v].key \in Keys \ (Referenced \ lost)
    /\ up[v].pc = "remove" => row[up[v].key] # "legacy"
    /\ up[v].pc = "row" /\ up[v].key \in Uploads => up[v].key \notin bucket

\* The migration copies the object PostgreSQL holds, or held.
MigratesLegacy ==
  /\ mig.pc \in {"copy", "set"} => mig.key = LegacyKey /\ row[LegacyKey] # "external"
  /\ mig.pc = "set" /\ row[LegacyKey] = "legacy" => LegacyKey \in bucket
  /\ mig.pc = "mark" => mig.key \in Keys

\* An object without a row is being uploaded, or was left behind.
RowMissing == \A u \in Uploads : u \in bucket /\ row[u] = "none" => up[u].pc = "meta" \/ u \in left

\* Only uploads have a commit, so a lost one is of an upload.
LostUploaded == lost \subseteq Uploads

\* As long as PostgreSQL holds the first avatar, it is referred to, being deleted, or was left behind.
LegacyOwned ==
  row[LegacyKey] = "legacy" =>
    \/ LegacyKey \in Referenced \cup left
    \/ \E v \in Uploads : up[v].key = LegacyKey /\ up[v].pc \in {"get", "remove", "row"}

\* Somebody will yet refer to an object, remove it, or record that it stays.
Accounted(k) ==
  \/ k \in Referenced \cup left
  \/ k \in Uploads /\ up[k].pc \in {"meta", "link"}
  \/ k = LegacyKey /\ mig.pc = "set"
  \/ \E v \in Uploads : /\ up[v].key = k
                        /\ \/ up[v].pc = "remove" \/ (up[v].pc = "get" /\ row[k] # "none")
                           \/ (up[v].pc = "row" /\ k = LegacyKey)

AllAccounted == \A k \in bucket : Accounted(k)

\* A download that may still find its object in PostgreSQL knows it.
LateKnown ==
  \A r \in Readers : reader[r].pc = "load" => reader[r].late \/ row[reader[r].key] # "legacy"

\* What a download fetches from the bucket, PostgreSQL no longer holds.
FetchedExternal == \A r \in Readers : reader[r].pc = "fetch" => row[reader[r].key] # "legacy"

ObjectInv ==
  /\ ObjectTypeOK /\ avatar \in Avatars \cup {LegacyKey}
  /\ LegacyIsFirst /\ NewIsUnknown /\ WrittenStays /\ DeletedIsFree /\ MigratesLegacy
  /\ RowMissing /\ LostUploaded /\ LegacyOwned /\ AllAccounted /\ LateKnown /\ ReferencedKept /\ CorruptNeedsCause
  /\ FetchedExternal

----------------------------------------------------------------------------
(* Each step keeps it *)

LEMMA BeginUploadInv == ASSUME ObjectConstants, ObjectInv, NEW u \in Uploads, BeginUpload(u) PROVE ObjectInv'
<1>1. ObjectTypeOK'
  BY DEF ObjectInv, ObjectTypeOK, Uploads, Keys, BeginUpload, store
<1>2. /\ up'[u].pc = "put" /\ up'[u].key = up[u].key
      /\ \A v \in Uploads \ {u} : up'[v] = up[v]
  BY DEF ObjectInv, ObjectTypeOK, BeginUpload, store
<1>3. avatar' \in Avatars \cup {LegacyKey}
  BY DEF ObjectInv, BeginUpload, store
<1>4. LegacyIsFirst'
  BY <1>1, <1>2 DEF ObjectInv, LegacyIsFirst, BeginUpload, store
<1>5. NewIsUnknown'
  <2>1. up[u].pc = "idle" /\ Referenced' = Referenced /\ lost' = lost
    BY DEF Referenced, BeginUpload
  <2> QED
    BY <1>2, <2>1 DEF ObjectInv, NewIsUnknown
<1>6. WrittenStays'
  BY <1>1, <1>2 DEF ObjectInv, WrittenStays, BeginUpload, store
<1>7. DeletedIsFree'
  BY <1>1, <1>2 DEF ObjectInv, ObjectTypeOK, ObjectConstants, Uploads, Keys, DeletedIsFree, Referenced,
     BeginUpload, store
<1>8. MigratesLegacy'
  BY <1>1, <1>2 DEF ObjectInv, MigratesLegacy, BeginUpload, store
<1>9. RowMissing'
  BY <1>1, <1>2 DEF ObjectInv, RowMissing, BeginUpload, store
<1>10. LostUploaded'
  BY <1>1, <1>2 DEF ObjectInv, LostUploaded, BeginUpload, store
<1>11. LegacyOwned'
  BY <1>1, <1>2 DEF ObjectInv, LegacyOwned, Referenced, BeginUpload, store
<1>12. AllAccounted'
  <2>1. up[u].pc = "idle" /\ Referenced' = Referenced /\ UNCHANGED <<bucket, row, mig, left>>
    BY DEF Referenced, BeginUpload, store
  <2>2. \A k \in bucket : Accounted(k) => Accounted(k)'
    BY <1>2, <2>1 DEF Accounted
  <2> QED
    BY <2>1, <2>2 DEF ObjectInv, AllAccounted
<1>13. LateKnown'
  BY <1>1, <1>2 DEF ObjectInv, LateKnown, BeginUpload, store
<1>14. ReferencedKept'
  BY <1>1, <1>2 DEF ObjectInv, ReferencedKept, Referenced, BeginUpload, store
<1>15. CorruptNeedsCause'
  BY <1>1, <1>2 DEF ObjectInv, CorruptNeedsCause, BeginUpload, store
<1>16. FetchedExternal'
  BY <1>1, <1>2 DEF ObjectInv, FetchedExternal, BeginUpload, store
<1> QED
  BY <1>1, <1>3, <1>4, <1>5, <1>6, <1>7, <1>8, <1>9, <1>10, <1>11, <1>12, <1>13, <1>14, <1>15, <1>16
     DEF ObjectInv

LEMMA PutObjectInv == ASSUME ObjectConstants, ObjectInv, NEW u \in Uploads, PutObject(u) PROVE ObjectInv'
<1>1. ObjectTypeOK'
  BY DEF ObjectInv, ObjectTypeOK, Uploads, Keys, PutObject, store
<1>2. /\ up'[u].pc = "meta" /\ up'[u].key = up[u].key
      /\ \A v \in Uploads \ {u} : up'[v] = up[v]
  BY DEF ObjectInv, ObjectTypeOK, PutObject, store
<1>3. avatar' \in Avatars \cup {LegacyKey}
  BY DEF ObjectInv, PutObject, store
<1>4. LegacyIsFirst'
  BY <1>1, <1>2 DEF ObjectInv, LegacyIsFirst, PutObject, store
<1>5. NewIsUnknown'
  BY <1>1, <1>2 DEF ObjectInv, NewIsUnknown, Referenced, PutObject, store
<1>6. WrittenStays'
  BY <1>1, <1>2 DEF ObjectInv, WrittenStays, PutObject, store
<1>7. DeletedIsFree'
  BY <1>1, <1>2 DEF ObjectInv, ObjectTypeOK, ObjectConstants, Uploads, Keys, DeletedIsFree, Referenced,
     NewIsUnknown, PutObject, store
<1>8. MigratesLegacy'
  BY <1>1, <1>2 DEF ObjectInv, MigratesLegacy, PutObject, store
<1>9. RowMissing'
  BY <1>1, <1>2 DEF ObjectInv, RowMissing, PutObject, store
<1>10. LostUploaded'
  BY <1>1, <1>2 DEF ObjectInv, LostUploaded, PutObject, store
<1>11. LegacyOwned'
  BY <1>1, <1>2 DEF ObjectInv, LegacyOwned, Referenced, PutObject, store
<1>12. AllAccounted'
  BY <1>1, <1>2 DEF ObjectInv, AllAccounted, Accounted, Referenced, PutObject, store
<1>13. LateKnown'
  BY <1>1, <1>2 DEF ObjectInv, LateKnown, PutObject, store
<1>14. ReferencedKept'
  BY <1>1, <1>2 DEF ObjectInv, ReferencedKept, Referenced, PutObject, store
<1>15. CorruptNeedsCause'
  BY <1>1, <1>2 DEF ObjectInv, CorruptNeedsCause, PutObject, store
<1>16. FetchedExternal'
  BY <1>1, <1>2 DEF ObjectInv, FetchedExternal, PutObject, store
<1> QED
  BY <1>1, <1>3, <1>4, <1>5, <1>6, <1>7, <1>8, <1>9, <1>10, <1>11, <1>12, <1>13, <1>14, <1>15, <1>16
     DEF ObjectInv

LEMMA PutFailsInv == ASSUME ObjectConstants, ObjectInv, NEW u \in Uploads, PutFails(u) PROVE ObjectInv'
<1>1. ObjectTypeOK'
  BY DEF ObjectInv, ObjectTypeOK, Uploads, Keys, PutFails, store, CleanUp
<1>2. /\ up'[u].pc = "done" /\ up'[u].key = up[u].key
      /\ \A v \in Uploads \ {u} : up'[v] = up[v]
  BY DEF ObjectInv, ObjectTypeOK, PutFails, store, CleanUp
<1>3. avatar' \in Avatars \cup {LegacyKey}
  BY DEF ObjectInv, PutFails, store, CleanUp
<1>4. LegacyIsFirst'
  BY <1>1, <1>2 DEF ObjectInv, LegacyIsFirst, PutFails, store, CleanUp
<1>5. NewIsUnknown'
  BY <1>1, <1>2 DEF ObjectInv, NewIsUnknown, Referenced, PutFails, store, CleanUp
<1>6. WrittenStays'
  BY <1>1, <1>2 DEF ObjectInv, WrittenStays, PutFails, store, CleanUp
<1>7. DeletedIsFree'
  BY <1>1, <1>2 DEF ObjectInv, ObjectTypeOK, ObjectConstants, Uploads, Keys, DeletedIsFree, Referenced,
     NewIsUnknown, PutFails, store, CleanUp
<1>8. MigratesLegacy'
  BY <1>1, <1>2 DEF ObjectInv, ObjectTypeOK, ObjectConstants, Uploads, Keys, MigratesLegacy, PutFails,
     store, CleanUp
<1>9. RowMissing'
  BY <1>1, <1>2 DEF ObjectInv, RowMissing, PutFails, store, CleanUp
<1>10. LostUploaded'
  BY <1>1, <1>2 DEF ObjectInv, LostUploaded, PutFails, store, CleanUp
<1>11. LegacyOwned'
  BY <1>1, <1>2 DEF ObjectInv, LegacyOwned, Referenced, PutFails, store, CleanUp
<1>12. AllAccounted'
  BY <1>1, <1>2 DEF ObjectInv, AllAccounted, Accounted, Referenced, PutFails, store, CleanUp
<1>13. LateKnown'
  BY <1>1, <1>2 DEF ObjectInv, LateKnown, PutFails, store, CleanUp
<1>14. ReferencedKept'
  BY <1>1, <1>2 DEF ObjectInv, ObjectTypeOK, ObjectConstants, Uploads, Keys, ReferencedKept, Referenced,
     NewIsUnknown, WrittenStays, LegacyIsFirst, PutFails, store, CleanUp
<1>15. CorruptNeedsCause'
  BY <1>1, <1>2 DEF ObjectInv, CorruptNeedsCause, PutFails, store, CleanUp
<1>16. FetchedExternal'
  BY <1>1, <1>2 DEF ObjectInv, FetchedExternal, PutFails, store, CleanUp
<1> QED
  BY <1>1, <1>3, <1>4, <1>5, <1>6, <1>7, <1>8, <1>9, <1>10, <1>11, <1>12, <1>13, <1>14, <1>15, <1>16
     DEF ObjectInv

LEMMA CreateRowInv == ASSUME ObjectConstants, ObjectInv, NEW u \in Uploads, CreateRow(u) PROVE ObjectInv'
<1>1. ObjectTypeOK'
  <2>1. [up[u] EXCEPT !.pc = "link"] \in [pc : {"idle", "put", "meta", "link", "get", "remove", "row", "done"},
                                      read : Keys, key : Keys \cup {NoKey}]
    BY DEF ObjectInv, ObjectTypeOK
  <2>2. up' = [up EXCEPT ![u] = [up[u] EXCEPT !.pc = "link"]]
    BY DEF ObjectInv, ObjectTypeOK, CreateRow
  <2>3. up' \in [Uploads -> [pc : {"idle", "put", "meta", "link", "get", "remove", "row", "done"},
                              read : Keys, key : Keys \cup {NoKey}]]
    BY <2>1, <2>2 DEF ObjectInv, ObjectTypeOK
  <2>4. row' \in [Keys -> {"none", "legacy", "external"}]
    BY DEF ObjectInv, ObjectTypeOK, Uploads, Keys, CreateRow
  <2>5. UNCHANGED <<bucket, verified, dropped, avatar, status, reader, mig, lost, left>>
    BY DEF CreateRow
  <2> QED
    BY <2>3, <2>4, <2>5 DEF ObjectInv, ObjectTypeOK
<1>2. /\ up'[u].pc = "link" /\ up'[u].key = up[u].key
      /\ \A v \in Uploads \ {u} : up'[v] = up[v]
  BY DEF ObjectInv, ObjectTypeOK, CreateRow, store
<1>3. avatar' \in Avatars \cup {LegacyKey}
  BY DEF ObjectInv, CreateRow, store
<1>4. LegacyIsFirst'
  BY <1>1, <1>2 DEF ObjectInv, LegacyIsFirst, CreateRow, store
<1>5. NewIsUnknown'
  BY <1>1, <1>2 DEF ObjectInv, NewIsUnknown, Referenced, CreateRow, store
<1>6. WrittenStays'
  BY <1>1, <1>2 DEF ObjectInv, ObjectTypeOK, ObjectConstants, Uploads, Keys, WrittenStays, CreateRow, store
<1>7. DeletedIsFree'
  BY <1>1, <1>2 DEF ObjectInv, DeletedIsFree, Referenced, CreateRow, store
<1>8. MigratesLegacy'
  BY <1>1, <1>2 DEF ObjectInv, ObjectTypeOK, ObjectConstants, Uploads, Keys, MigratesLegacy, CreateRow,
     store
<1>9. RowMissing'
  BY <1>1, <1>2 DEF ObjectInv, ObjectTypeOK, ObjectConstants, Uploads, Keys, RowMissing, CreateRow, store
<1>10. LostUploaded'
  BY <1>1, <1>2 DEF ObjectInv, LostUploaded, CreateRow, store
<1>11. LegacyOwned'
  BY <1>1, <1>2 DEF ObjectInv, LegacyOwned, Referenced, CreateRow, store
<1>12. AllAccounted'
  BY <1>1, <1>2 DEF ObjectInv, AllAccounted, Accounted, Referenced, CreateRow, store
<1>13. LateKnown'
  BY <1>1, <1>2 DEF ObjectInv, LateKnown, CreateRow, store
<1>14. ReferencedKept'
  BY <1>1, <1>2 DEF ObjectInv, ObjectTypeOK, ObjectConstants, Uploads, Keys, ReferencedKept, Referenced,
     NewIsUnknown, WrittenStays, LegacyIsFirst, CreateRow, store
<1>15. CorruptNeedsCause'
  BY <1>1, <1>2 DEF ObjectInv, CorruptNeedsCause, CreateRow, store
<1>16. FetchedExternal'
  BY <1>1, <1>2 DEF ObjectInv, FetchedExternal, CreateRow, store
<1> QED
  BY <1>1, <1>3, <1>4, <1>5, <1>6, <1>7, <1>8, <1>9, <1>10, <1>11, <1>12, <1>13, <1>14, <1>15, <1>16
     DEF ObjectInv

LEMMA CreateRowFailsInv == ASSUME ObjectConstants, ObjectInv, NEW u \in Uploads, CreateRowFails(u) PROVE ObjectInv'
<1>1. ObjectTypeOK'
  BY DEF ObjectInv, ObjectTypeOK, Uploads, Keys, CreateRowFails, store, CleanUp
<1>2. /\ up'[u].pc = "done" /\ up'[u].key = up[u].key
      /\ \A v \in Uploads \ {u} : up'[v] = up[v]
  BY DEF ObjectInv, ObjectTypeOK, CreateRowFails, store, CleanUp
<1>3. avatar' \in Avatars \cup {LegacyKey}
  BY DEF ObjectInv, CreateRowFails, store, CleanUp
<1>4. LegacyIsFirst'
  BY <1>1, <1>2 DEF ObjectInv, LegacyIsFirst, CreateRowFails, store, CleanUp
<1>5. NewIsUnknown'
  BY <1>1, <1>2 DEF ObjectInv, NewIsUnknown, Referenced, CreateRowFails, store, CleanUp
<1>6. WrittenStays'
  BY <1>1, <1>2 DEF ObjectInv, WrittenStays, CreateRowFails, store, CleanUp
<1>7. DeletedIsFree'
  BY <1>1, <1>2 DEF ObjectInv, ObjectTypeOK, ObjectConstants, Uploads, Keys, DeletedIsFree, Referenced,
     NewIsUnknown, CreateRowFails, store, CleanUp
<1>8. MigratesLegacy'
  BY <1>1, <1>2 DEF ObjectInv, ObjectTypeOK, ObjectConstants, Uploads, Keys, MigratesLegacy,
     CreateRowFails, store, CleanUp
<1>9. RowMissing'
  BY <1>1, <1>2 DEF ObjectInv, RowMissing, CreateRowFails, store, CleanUp
<1>10. LostUploaded'
  BY <1>1, <1>2 DEF ObjectInv, LostUploaded, CreateRowFails, store, CleanUp
<1>11. LegacyOwned'
  BY <1>1, <1>2 DEF ObjectInv, LegacyOwned, Referenced, CreateRowFails, store, CleanUp
<1>12. AllAccounted'
  BY <1>1, <1>2 DEF ObjectInv, AllAccounted, Accounted, Referenced, CreateRowFails, store, CleanUp
<1>13. LateKnown'
  BY <1>1, <1>2 DEF ObjectInv, LateKnown, CreateRowFails, store, CleanUp
<1>14. ReferencedKept'
  BY <1>1, <1>2 DEF ObjectInv, ObjectTypeOK, ObjectConstants, Uploads, Keys, ReferencedKept, Referenced,
     NewIsUnknown, WrittenStays, LegacyIsFirst, CreateRowFails, store, CleanUp
<1>15. CorruptNeedsCause'
  BY <1>1, <1>2 DEF ObjectInv, CorruptNeedsCause, CreateRowFails, store, CleanUp
<1>16. FetchedExternal'
  BY <1>1, <1>2 DEF ObjectInv, FetchedExternal, CreateRowFails, store, CleanUp
<1> QED
  BY <1>1, <1>3, <1>4, <1>5, <1>6, <1>7, <1>8, <1>9, <1>10, <1>11, <1>12, <1>13, <1>14, <1>15, <1>16
     DEF ObjectInv

LEMMA CommitAvatarInv == ASSUME ObjectConstants, ObjectInv, NEW u \in Uploads, CommitAvatar(u) PROVE ObjectInv'
<1>1. ObjectTypeOK'
  <2>1. PICK key \in Keys : key = avatar /\ up' = [up EXCEPT ![u].pc = "get", ![u].key = key]
    BY DEF ObjectInv, ObjectTypeOK, CommitAvatar, Deleting, Predecessor
  <2>2. up \in [Uploads -> [pc : {"idle", "put", "meta", "link", "get", "remove", "row", "done"},
                            read : Keys, key : Keys \cup {NoKey}]]
    BY DEF ObjectInv, ObjectTypeOK
  <2>3. up' \in [Uploads -> [pc : {"idle", "put", "meta", "link", "get", "remove", "row", "done"},
                              read : Keys, key : Keys \cup {NoKey}]]
    <3>1. [up[u] EXCEPT !.pc = "get", !.key = key] \in
            [pc : {"idle", "put", "meta", "link", "get", "remove", "row", "done"}, read : Keys, key : Keys \cup {NoKey}]
      BY <2>2
    <3>2. up' = [up EXCEPT ![u] = [up[u] EXCEPT !.pc = "get", !.key = key]]
      BY <2>1, <2>2
    <3> QED
      BY <2>2, <3>1, <3>2
  <2>4. avatar' \in Keys /\ UNCHANGED <<bucket, row, verified, dropped, status, reader, mig, lost, left>>
    BY DEF CommitAvatar, store, Keys
  <2> QED
    BY <2>3, <2>4 DEF ObjectInv, ObjectTypeOK

<1>2. /\ up'[u].pc = "get" /\ up'[u].key = avatar
      /\ \A v \in Uploads \ {u} : up'[v] = up[v]
  BY DEF ObjectInv, ObjectTypeOK, CommitAvatar, store, Deleting, Predecessor
<1>3. avatar' \in Avatars \cup {LegacyKey}
  BY DEF ObjectInv, CommitAvatar, store, Deleting, Predecessor
<1>4. LegacyIsFirst'
  BY <1>1, <1>2 DEF ObjectInv, LegacyIsFirst, CommitAvatar, store, Deleting, Predecessor
<1>5. NewIsUnknown'
  BY <1>1, <1>2 DEF ObjectInv, ObjectTypeOK, ObjectConstants, Uploads, Keys, NewIsUnknown, Referenced,
     CommitAvatar, store, Deleting, Predecessor
<1>6. WrittenStays'
  BY <1>1, <1>2 DEF ObjectInv, WrittenStays, CommitAvatar, store, Deleting, Predecessor
<1>7. DeletedIsFree'
  BY <1>1, <1>2 DEF ObjectInv, ObjectTypeOK, ObjectConstants, Uploads, Keys, DeletedIsFree, Referenced,
     NewIsUnknown, CommitAvatar, store, Deleting, Predecessor
<1>8. MigratesLegacy'
  BY <1>1, <1>2 DEF ObjectInv, MigratesLegacy, CommitAvatar, store, Deleting, Predecessor
<1>9. RowMissing'
  BY <1>1, <1>2 DEF ObjectInv, RowMissing, CommitAvatar, store, Deleting, Predecessor
<1>10. LostUploaded'
  BY <1>1, <1>2 DEF ObjectInv, LostUploaded, CommitAvatar, store, Deleting, Predecessor
<1>11. LegacyOwned'
  BY <1>1, <1>2 DEF ObjectInv, LegacyOwned, Referenced, CommitAvatar, store, Deleting, Predecessor
<1>12. AllAccounted'
  <2> SUFFICES ASSUME NEW k \in Keys, k \in bucket' PROVE Accounted(k)'
    BY <1>1 DEF AllAccounted, ObjectTypeOK
  <2>1. UNCHANGED <<bucket, row, status, mig, left>> /\ avatar' = u /\ up[u].pc = "link"
    BY DEF CommitAvatar, store
  <2>2. Accounted(k)
    BY <2>1 DEF ObjectInv, AllAccounted
  <2>3. CASE k = u
    BY <2>1, <2>3 DEF Accounted, Referenced
  <2>4. CASE k # u /\ k = avatar
    <3>1. row[k] # "none" \/ k \in left
      <4>1. CASE k \in Uploads
        BY <2>1, <2>4, <4>1 DEF ObjectInv, RowMissing, NewIsUnknown, Referenced
      <4>2. CASE k = LegacyKey
        <5>1. k \notin lost => row[k] # "none"
          BY <2>4 DEF ObjectInv, ReferencedKept, Referenced
        <5> QED
          BY <4>2, <5>1 DEF ObjectInv, ObjectConstants, LostUploaded
      <4> QED
        BY <4>1, <4>2 DEF Keys
    <3> QED
      BY <1>2, <2>1, <2>4, <3>1 DEF Accounted, Referenced
  <2>5. CASE k # u /\ k # avatar
    <3>1. \A v \in Uploads : up[v].key = k /\ up[v].pc \in {"get", "remove", "row"} => v # u
      BY <2>1
    <3> QED
      BY <1>2, <2>1, <2>2, <2>5, <3>1 DEF Accounted, Referenced
  <2> QED
    BY <2>3, <2>4, <2>5

<1>13. LateKnown'
  BY <1>1, <1>2 DEF ObjectInv, LateKnown, CommitAvatar, store, Deleting, Predecessor
<1>14. ReferencedKept'
  BY <1>1, <1>2 DEF ObjectInv, ObjectTypeOK, ObjectConstants, Uploads, Keys, ReferencedKept, Referenced,
     NewIsUnknown, WrittenStays, LegacyIsFirst, CommitAvatar, store, Deleting, Predecessor
<1>15. CorruptNeedsCause'
  BY <1>1, <1>2 DEF ObjectInv, CorruptNeedsCause, CommitAvatar, store, Deleting, Predecessor
<1>16. FetchedExternal'
  BY <1>1, <1>2 DEF ObjectInv, FetchedExternal, CommitAvatar, store, Deleting, Predecessor
<1> QED
  BY <1>1, <1>3, <1>4, <1>5, <1>6, <1>7, <1>8, <1>9, <1>10, <1>11, <1>12, <1>13, <1>14, <1>15, <1>16
     DEF ObjectInv

LEMMA CreateDocumentInv == ASSUME ObjectConstants, ObjectInv, NEW u \in Uploads, CreateDocument(u) PROVE ObjectInv'
<1>1. ObjectTypeOK'
  BY DEF ObjectInv, ObjectTypeOK, CreateDocument, store
<1>2. /\ up'[u].pc = "done" /\ up'[u].key = up[u].key
      /\ \A v \in Uploads \ {u} : up'[v] = up[v]
  BY DEF ObjectInv, ObjectTypeOK, CreateDocument, store
<1>3. avatar' \in Avatars \cup {LegacyKey}
  BY DEF ObjectInv, CreateDocument, store
<1>4. LegacyIsFirst'
  BY <1>1, <1>2 DEF ObjectInv, LegacyIsFirst, CreateDocument, store
<1>5. NewIsUnknown'
  BY <1>1, <1>2 DEF ObjectInv, NewIsUnknown, Referenced, CreateDocument, store
<1>6. WrittenStays'
  BY <1>1, <1>2 DEF ObjectInv, WrittenStays, CreateDocument, store
<1>7. DeletedIsFree'
  BY <1>1, <1>2 DEF ObjectInv, ObjectTypeOK, ObjectConstants, Uploads, Keys, DeletedIsFree, Referenced,
     NewIsUnknown, CreateDocument, store
<1>8. MigratesLegacy'
  BY <1>1, <1>2 DEF ObjectInv, MigratesLegacy, CreateDocument, store
<1>9. RowMissing'
  BY <1>1, <1>2 DEF ObjectInv, RowMissing, CreateDocument, store
<1>10. LostUploaded'
  BY <1>1, <1>2 DEF ObjectInv, LostUploaded, CreateDocument, store
<1>11. LegacyOwned'
  BY <1>1, <1>2 DEF ObjectInv, LegacyOwned, Referenced, CreateDocument, store
<1>12. AllAccounted'
  BY <1>1, <1>2 DEF ObjectInv, ObjectTypeOK, ObjectConstants, Uploads, Keys, AllAccounted, Accounted,
     Referenced, CreateDocument, store
<1>13. LateKnown'
  BY <1>1, <1>2 DEF ObjectInv, LateKnown, CreateDocument, store
<1>14. ReferencedKept'
  BY <1>1, <1>2 DEF ObjectInv, ObjectTypeOK, ObjectConstants, Uploads, Keys, ReferencedKept, Referenced,
     NewIsUnknown, WrittenStays, LegacyIsFirst, CreateDocument, store
<1>15. CorruptNeedsCause'
  BY <1>1, <1>2 DEF ObjectInv, CorruptNeedsCause, CreateDocument, store
<1>16. FetchedExternal'
  BY <1>1, <1>2 DEF ObjectInv, FetchedExternal, CreateDocument, store
<1> QED
  BY <1>1, <1>3, <1>4, <1>5, <1>6, <1>7, <1>8, <1>9, <1>10, <1>11, <1>12, <1>13, <1>14, <1>15, <1>16
     DEF ObjectInv

LEMMA LinkFailsInv == ASSUME ObjectConstants, ObjectInv, NEW u \in Uploads, LinkFails(u) PROVE ObjectInv'
<1>1. ObjectTypeOK'
  BY DEF ObjectInv, ObjectTypeOK, Uploads, Keys, LinkFails, store, Deleting
<1>2. /\ up'[u].pc = "get" /\ up'[u].key = u
      /\ \A v \in Uploads \ {u} : up'[v] = up[v]
  BY DEF ObjectInv, ObjectTypeOK, LinkFails, store, Deleting
<1>3. avatar' \in Avatars \cup {LegacyKey}
  BY DEF ObjectInv, LinkFails, store, Deleting
<1>4. LegacyIsFirst'
  BY <1>1, <1>2 DEF ObjectInv, LegacyIsFirst, LinkFails, store, Deleting
<1>5. NewIsUnknown'
  <2>1. Referenced' = Referenced /\ lost' = lost /\ up'[u].pc = "get" /\ up'[u].key = u
    BY <1>2 DEF Referenced, LinkFails
  <2>2. ASSUME NEW w \in Uploads, up'[w].pc \in {"idle", "put", "meta", "link"}
        PROVE  /\ w \notin Referenced' \cup lost'
               /\ \A v \in Uploads : up'[v].pc \in {"get", "remove", "row"} => up'[v].key # w
    <3>1. w # u /\ up'[w] = up[w]
      BY <1>2, <2>1, <2>2
    <3>2. /\ w \notin Referenced \cup lost
          /\ \A v \in Uploads : up[v].pc \in {"get", "remove", "row"} => up[v].key # w
      BY <2>2, <3>1 DEF ObjectInv, NewIsUnknown
    <3> QED
      BY <1>2, <2>1, <3>1, <3>2
  <2> QED
    BY <2>2 DEF NewIsUnknown
<1>6. WrittenStays'
  BY <1>1, <1>2 DEF ObjectInv, WrittenStays, LinkFails, store, Deleting
<1>7. DeletedIsFree'
  BY <1>1, <1>2 DEF ObjectInv, ObjectTypeOK, ObjectConstants, Uploads, Keys, DeletedIsFree, Referenced,
     NewIsUnknown, LinkFails, store, Deleting
<1>8. MigratesLegacy'
  BY <1>1, <1>2 DEF ObjectInv, MigratesLegacy, LinkFails, store, Deleting
<1>9. RowMissing'
  BY <1>1, <1>2 DEF ObjectInv, RowMissing, LinkFails, store, Deleting
<1>10. LostUploaded'
  BY <1>1, <1>2 DEF ObjectInv, LostUploaded, LinkFails, store, Deleting
<1>11. LegacyOwned'
  BY <1>1, <1>2 DEF ObjectInv, LegacyOwned, Referenced, LinkFails, store, Deleting
<1>12. AllAccounted'
  <2>1. up[u].pc = "link" /\ Referenced' = Referenced /\ UNCHANGED <<bucket, row, mig, left>>
    BY DEF Referenced, LinkFails, store
  <2>2. row[u] # "none"
    BY <2>1 DEF ObjectInv, WrittenStays
  <2>3. \A k \in bucket : Accounted(k) => Accounted(k)'
    BY <1>2, <2>1, <2>2 DEF Accounted
  <2> QED
    BY <2>1, <2>3 DEF ObjectInv, AllAccounted
<1>13. LateKnown'
  BY <1>1, <1>2 DEF ObjectInv, LateKnown, LinkFails, store, Deleting
<1>14. ReferencedKept'
  BY <1>1, <1>2 DEF ObjectInv, ReferencedKept, Referenced, LinkFails, store, Deleting
<1>15. CorruptNeedsCause'
  BY <1>1, <1>2 DEF ObjectInv, CorruptNeedsCause, LinkFails, store, Deleting
<1>16. FetchedExternal'
  BY <1>1, <1>2 DEF ObjectInv, FetchedExternal, LinkFails, store, Deleting
<1> QED
  BY <1>1, <1>3, <1>4, <1>5, <1>6, <1>7, <1>8, <1>9, <1>10, <1>11, <1>12, <1>13, <1>14, <1>15, <1>16
     DEF ObjectInv

LEMMA LinkUnansweredInv == ASSUME ObjectConstants, ObjectInv, NEW u \in Uploads, LinkUnanswered(u) PROVE ObjectInv'
<1>1. ObjectTypeOK'
  BY DEF ObjectInv, ObjectTypeOK, Uploads, Keys, LinkUnanswered, store, Deleting
<1>2. /\ up'[u].pc = "get" /\ up'[u].key = u
      /\ \A v \in Uploads \ {u} : up'[v] = up[v]
  BY DEF ObjectInv, ObjectTypeOK, LinkUnanswered, store, Deleting
<1>3. avatar' \in Avatars \cup {LegacyKey}
  BY DEF ObjectInv, LinkUnanswered, store, Deleting
<1>4. LegacyIsFirst'
  BY <1>1, <1>2 DEF ObjectInv, LegacyIsFirst, LinkUnanswered, store, Deleting
<1>5. NewIsUnknown'
  <2>1. Referenced' \subseteq Referenced \cup {u} /\ lost' = lost \cup {u}
    BY DEF ObjectInv, ObjectTypeOK, Referenced, LinkUnanswered
  <2> QED
    BY <1>2, <2>1 DEF ObjectInv, NewIsUnknown
<1>6. WrittenStays'
  BY <1>1, <1>2 DEF ObjectInv, WrittenStays, LinkUnanswered, store, Deleting
<1>7. DeletedIsFree'
  BY <1>1, <1>2 DEF ObjectInv, ObjectTypeOK, ObjectConstants, Uploads, Keys, DeletedIsFree, Referenced,
     LinkUnanswered, store, Deleting
<1>8. MigratesLegacy'
  BY <1>1, <1>2 DEF ObjectInv, MigratesLegacy, LinkUnanswered, store, Deleting
<1>9. RowMissing'
  BY <1>1, <1>2 DEF ObjectInv, RowMissing, LinkUnanswered, store, Deleting
<1>10. LostUploaded'
  BY <1>1, <1>2 DEF ObjectInv, LostUploaded, LinkUnanswered, store, Deleting
<1>11. LegacyOwned'
  BY <1>1, <1>2 DEF ObjectInv, ObjectTypeOK, ObjectConstants, Uploads, Keys, LegacyOwned, Referenced,
     LinkUnanswered, store, Deleting
<1>12. AllAccounted'
  <2> SUFFICES ASSUME NEW k \in Keys, k \in bucket' PROVE Accounted(k)'
    BY <1>1 DEF AllAccounted, ObjectTypeOK
  <2>1. UNCHANGED <<bucket, row, mig>> /\ up[u].pc = "link"
    BY DEF LinkUnanswered, store
  <2>2. Accounted(k) /\ row[u] = "external"
    BY <2>1 DEF ObjectInv, AllAccounted, WrittenStays
  <2>3. CASE k = u
    BY <1>2, <2>1, <2>2, <2>3 DEF Accounted
  <2>4. CASE k # u
    <3>1. k \in Referenced \cup left => k \in (Referenced \cup left)'
      BY <2>4, <1>1 DEF ObjectInv, ObjectTypeOK, Referenced, LinkUnanswered
    <3>2. \A v \in Uploads : up[v].key = k /\ up[v].pc \in {"get", "remove", "row"} => v # u
      BY <2>1
    <3> QED
      BY <1>2, <2>1, <2>2, <2>4, <3>1, <3>2 DEF Accounted
  <2> QED
    BY <2>3, <2>4

<1>13. LateKnown'
  BY <1>1, <1>2 DEF ObjectInv, LateKnown, LinkUnanswered, store, Deleting
<1>14. ReferencedKept'
  BY <1>1, <1>2 DEF ObjectInv, ReferencedKept, Referenced, LinkUnanswered, store, Deleting
<1>15. CorruptNeedsCause'
  BY <1>1, <1>2 DEF ObjectInv, CorruptNeedsCause, LinkUnanswered, store, Deleting
<1>16. FetchedExternal'
  BY <1>1, <1>2 DEF ObjectInv, FetchedExternal, LinkUnanswered, store, Deleting
<1> QED
  BY <1>1, <1>3, <1>4, <1>5, <1>6, <1>7, <1>8, <1>9, <1>10, <1>11, <1>12, <1>13, <1>14, <1>15, <1>16
     DEF ObjectInv

LEMMA DeleteLookInv == ASSUME ObjectConstants, ObjectInv, NEW u \in Uploads, DeleteLook(u) PROVE ObjectInv'
<1>1. ObjectTypeOK'
  BY DEF ObjectInv, ObjectTypeOK, DeleteLook, store
<1>2. /\ up'[u].key = up[u].key /\ \A v \in Uploads \ {u} : up'[v] = up[v]
/\ up'[u].pc = CASE row[up[u].key] = "none" -> "done" [] row[up[u].key] = "legacy" -> "row" [] OTHER ->
         "remove"
  BY DEF ObjectInv, ObjectTypeOK, DeleteLook, store
<1>3. avatar' \in Avatars \cup {LegacyKey}
  BY DEF ObjectInv, DeleteLook, store
<1>4. LegacyIsFirst'
  BY <1>1, <1>2 DEF ObjectInv, LegacyIsFirst, DeleteLook, store
<1>5. NewIsUnknown'
  BY <1>1, <1>2 DEF ObjectInv, NewIsUnknown, Referenced, DeleteLook, store
<1>6. WrittenStays'
  BY <1>1, <1>2 DEF ObjectInv, WrittenStays, DeleteLook, store
<1>7. DeletedIsFree'
  BY <1>1, <1>2 DEF ObjectInv, ObjectTypeOK, ObjectConstants, Uploads, Keys, DeletedIsFree, Referenced,
     NewIsUnknown, LegacyIsFirst, RowMissing, DeleteLook, store
<1>8. MigratesLegacy'
  BY <1>1, <1>2 DEF ObjectInv, MigratesLegacy, DeleteLook, store
<1>9. RowMissing'
  BY <1>1, <1>2 DEF ObjectInv, RowMissing, DeleteLook, store
<1>10. LostUploaded'
  BY <1>1, <1>2 DEF ObjectInv, LostUploaded, DeleteLook, store
<1>11. LegacyOwned'
  BY <1>1, <1>2 DEF ObjectInv, LegacyOwned, Referenced, DeleteLook, store
<1>12. AllAccounted'
  <2>1. \A k \in bucket : k \in Keys /\ (row[k] = "legacy" => k = LegacyKey)
    BY DEF ObjectInv, ObjectTypeOK, LegacyIsFirst
  <2>2. \A k \in bucket : row[k] = "none" => Accounted(k)'
    <3> SUFFICES ASSUME NEW k \in bucket, row[k] = "none" PROVE Accounted(k)'
      OBVIOUS
    <3>1. k \in Uploads => up[k].pc = "meta" \/ k \in left
      BY DEF ObjectInv, RowMissing
    <3>2. Accounted(k)
      BY DEF ObjectInv, AllAccounted
    <3> QED
      BY <1>2, <2>1, <3>1, <3>2 DEF Accounted, Referenced, Uploads, Keys, DeleteLook, store
  <2>3. \A k \in bucket : row[k] # "none" => Accounted(k)'
    BY <1>2, <2>1 DEF ObjectInv, ObjectTypeOK, AllAccounted, Accounted, Referenced, DeleteLook, store
  <2> QED
    BY <2>2, <2>3 DEF AllAccounted, DeleteLook, store
<1>13. LateKnown'
  BY <1>1, <1>2 DEF ObjectInv, LateKnown, DeleteLook, store
<1>14. ReferencedKept'
  BY <1>1, <1>2 DEF ObjectInv, ReferencedKept, Referenced, DeleteLook, store
<1>15. CorruptNeedsCause'
  BY <1>1, <1>2 DEF ObjectInv, CorruptNeedsCause, DeleteLook, store
<1>16. FetchedExternal'
  BY <1>1, <1>2 DEF ObjectInv, FetchedExternal, DeleteLook, store
<1> QED
  BY <1>1, <1>3, <1>4, <1>5, <1>6, <1>7, <1>8, <1>9, <1>10, <1>11, <1>12, <1>13, <1>14, <1>15, <1>16
     DEF ObjectInv

LEMMA DeleteObjectInv == ASSUME ObjectConstants, ObjectInv, NEW u \in Uploads, DeleteObject(u) PROVE ObjectInv'
<1>1. ObjectTypeOK'
  BY DEF ObjectInv, ObjectTypeOK, DeleteObject, store
<1>2. /\ up'[u].pc = "row" /\ up'[u].key = up[u].key
      /\ \A v \in Uploads \ {u} : up'[v] = up[v]
  BY DEF ObjectInv, ObjectTypeOK, DeleteObject, store
<1>3. avatar' \in Avatars \cup {LegacyKey}
  BY DEF ObjectInv, DeleteObject, store
<1>4. LegacyIsFirst'
  BY <1>1, <1>2 DEF ObjectInv, LegacyIsFirst, DeleteObject, store
<1>5. NewIsUnknown'
  BY <1>1, <1>2 DEF ObjectInv, NewIsUnknown, Referenced, DeleteObject, store
<1>6. WrittenStays'
  BY <1>1, <1>2 DEF ObjectInv, ObjectTypeOK, ObjectConstants, Uploads, Keys, WrittenStays, NewIsUnknown,
     DeleteObject, store
<1>7. DeletedIsFree'
  BY <1>1, <1>2 DEF ObjectInv, DeletedIsFree, Referenced, DeleteObject, store
<1>8. MigratesLegacy'
  BY <1>1, <1>2 DEF ObjectInv, ObjectTypeOK, ObjectConstants, Uploads, Keys, MigratesLegacy, LegacyIsFirst,
     DeletedIsFree, DeleteObject, store
<1>9. RowMissing'
  BY <1>1, <1>2 DEF ObjectInv, RowMissing, DeleteObject, store
<1>10. LostUploaded'
  BY <1>1, <1>2 DEF ObjectInv, LostUploaded, DeleteObject, store
<1>11. LegacyOwned'
  BY <1>1, <1>2 DEF ObjectInv, LegacyOwned, Referenced, DeleteObject, store
<1>12. AllAccounted'
  BY <1>1, <1>2 DEF ObjectInv, AllAccounted, Accounted, Referenced, DeleteObject, store
<1>13. LateKnown'
  BY <1>1, <1>2 DEF ObjectInv, LateKnown, DeleteObject, store
<1>14. ReferencedKept'
  BY <1>1, <1>2 DEF ObjectInv, ObjectTypeOK, ObjectConstants, Uploads, Keys, ReferencedKept, Referenced,
     DeletedIsFree, MigratesLegacy, DeleteObject, store
<1>15. CorruptNeedsCause'
  BY <1>1, <1>2 DEF ObjectInv, CorruptNeedsCause, DeleteObject, store
<1>16. FetchedExternal'
  BY <1>1, <1>2 DEF ObjectInv, FetchedExternal, DeleteObject, store
<1> QED
  BY <1>1, <1>3, <1>4, <1>5, <1>6, <1>7, <1>8, <1>9, <1>10, <1>11, <1>12, <1>13, <1>14, <1>15, <1>16
     DEF ObjectInv

LEMMA DeleteRowInv == ASSUME ObjectConstants, ObjectInv, NEW u \in Uploads, DeleteRow(u) PROVE ObjectInv'
<1>1. ObjectTypeOK'
  <2>1. [up[u] EXCEPT !.pc = "done"] \in [pc : {"idle", "put", "meta", "link", "get", "remove", "row", "done"},
                                      read : Keys, key : Keys \cup {NoKey}]
    BY DEF ObjectInv, ObjectTypeOK
  <2>2. up' = [up EXCEPT ![u] = [up[u] EXCEPT !.pc = "done"]]
    BY DEF ObjectInv, ObjectTypeOK, DeleteRow
  <2>3. up' \in [Uploads -> [pc : {"idle", "put", "meta", "link", "get", "remove", "row", "done"},
                              read : Keys, key : Keys \cup {NoKey}]]
    BY <2>1, <2>2 DEF ObjectInv, ObjectTypeOK
  <2>4. row' \in [Keys -> {"none", "legacy", "external"}] /\ left' \subseteq Keys
    BY DEF ObjectInv, ObjectTypeOK, Uploads, Keys, DeleteRow
  <2>5. UNCHANGED <<bucket, verified, dropped, avatar, status, reader, mig, lost>>
    BY DEF DeleteRow
  <2> QED
    BY <2>3, <2>4, <2>5 DEF ObjectInv, ObjectTypeOK
<1>2. /\ up'[u].pc = "done" /\ up'[u].key = up[u].key
      /\ \A v \in Uploads \ {u} : up'[v] = up[v]
  BY DEF ObjectInv, ObjectTypeOK, DeleteRow, store
<1>3. avatar' \in Avatars \cup {LegacyKey}
  BY DEF ObjectInv, DeleteRow, store
<1>4. LegacyIsFirst'
  BY <1>1, <1>2 DEF ObjectInv, LegacyIsFirst, DeleteRow, store
<1>5. NewIsUnknown'
  BY <1>1, <1>2 DEF ObjectInv, NewIsUnknown, Referenced, DeleteRow, store
<1>6. WrittenStays'
  BY <1>1, <1>2 DEF ObjectInv, ObjectTypeOK, ObjectConstants, Uploads, Keys, WrittenStays, NewIsUnknown,
     DeleteRow, store
<1>7. DeletedIsFree'
  BY <1>1, <1>2 DEF ObjectInv, DeletedIsFree, Referenced, DeleteRow, store
<1>8. MigratesLegacy'
  BY <1>1, <1>2 DEF ObjectInv, MigratesLegacy, DeleteRow, store
<1>9. RowMissing'
  BY <1>1, <1>2 DEF ObjectInv, ObjectTypeOK, ObjectConstants, Uploads, Keys, RowMissing, DeletedIsFree,
     DeleteRow, store
<1>10. LostUploaded'
  BY <1>1, <1>2 DEF ObjectInv, LostUploaded, DeleteRow, store
<1>11. LegacyOwned'
  BY <1>1, <1>2 DEF ObjectInv, ObjectTypeOK, ObjectConstants, Uploads, Keys, LegacyOwned, Referenced,
     DeleteRow, store
<1>12. AllAccounted'
  <2> SUFFICES ASSUME NEW k \in Keys, k \in bucket' PROVE Accounted(k)'
    BY <1>1 DEF AllAccounted, ObjectTypeOK
  <2>1. /\ UNCHANGED <<bucket, mig, avatar, status>> /\ up[u].pc = "row"
        /\ row' = [row EXCEPT ![up[u].key] = "none"]
        /\ left' = left \cup ({up[u].key} \cap {LegacyKey} \cap bucket)
        /\ up[u].key \in Uploads => up[u].key \notin bucket
    BY DEF DeleteRow, ObjectInv, DeletedIsFree
  <2>2. CASE k = up[u].key
    BY <2>1, <2>2 DEF Accounted, Keys
  <2>3. CASE k # up[u].key
    <3>1. row'[k] = row[k]
      BY <2>1, <2>3 DEF ObjectInv, ObjectTypeOK
    <3>2. Accounted(k)
      BY <2>1 DEF ObjectInv, AllAccounted
    <3> QED
      BY <1>2, <2>1, <2>3, <3>1, <3>2 DEF Accounted, Referenced
  <2> QED
    BY <2>2, <2>3

<1>13. LateKnown'
  BY <1>1, <1>2 DEF ObjectInv, LateKnown, DeleteRow, store
<1>14. ReferencedKept'
  BY <1>1, <1>2 DEF ObjectInv, ObjectTypeOK, ObjectConstants, Uploads, Keys, ReferencedKept, Referenced,
     DeletedIsFree, MigratesLegacy, DeleteRow, store
<1>15. CorruptNeedsCause'
  BY <1>1, <1>2 DEF ObjectInv, CorruptNeedsCause, DeleteRow, store
<1>16. FetchedExternal'
  BY <1>1, <1>2 DEF ObjectInv, FetchedExternal, DeleteRow, store
<1> QED
  BY <1>1, <1>3, <1>4, <1>5, <1>6, <1>7, <1>8, <1>9, <1>10, <1>11, <1>12, <1>13, <1>14, <1>15, <1>16
     DEF ObjectInv

LEMMA DeleteFailsInv == ASSUME ObjectConstants, ObjectInv, NEW u \in Uploads, DeleteFails(u) PROVE ObjectInv'
<1>1. ObjectTypeOK'
  <2>1. up' = [up EXCEPT ![u].pc = "done"] /\ up[u].key \in Keys /\ left' = left \cup {up[u].key}
    BY DEF ObjectInv, DeletedIsFree, DeleteFails
  <2>2. up' \in [Uploads -> [pc : {"idle", "put", "meta", "link", "get", "remove", "row", "done"},
                              read : Keys, key : Keys \cup {NoKey}]]
    BY <2>1 DEF ObjectInv, ObjectTypeOK
  <2>3. UNCHANGED <<bucket, row, verified, dropped, avatar, status, reader, mig, lost>>
    BY DEF DeleteFails, store
  <2> QED
    BY <2>1, <2>2, <2>3 DEF ObjectInv, ObjectTypeOK

<1>2. /\ up'[u].pc = "done" /\ up'[u].key = up[u].key
      /\ \A v \in Uploads \ {u} : up'[v] = up[v]
  BY DEF ObjectInv, ObjectTypeOK, DeleteFails, store
<1>3. avatar' \in Avatars \cup {LegacyKey}
  BY DEF ObjectInv, DeleteFails, store
<1>4. LegacyIsFirst'
  BY <1>1, <1>2 DEF ObjectInv, LegacyIsFirst, DeleteFails, store
<1>5. NewIsUnknown'
  BY <1>1, <1>2 DEF ObjectInv, NewIsUnknown, Referenced, DeleteFails, store
<1>6. WrittenStays'
  BY <1>1, <1>2 DEF ObjectInv, WrittenStays, DeleteFails, store
<1>7. DeletedIsFree'
  BY <1>1, <1>2 DEF ObjectInv, DeletedIsFree, Referenced, DeleteFails, store
<1>8. MigratesLegacy'
  BY <1>1, <1>2 DEF ObjectInv, MigratesLegacy, DeleteFails, store
<1>9. RowMissing'
  BY <1>1, <1>2 DEF ObjectInv, RowMissing, DeleteFails, store
<1>10. LostUploaded'
  BY <1>1, <1>2 DEF ObjectInv, LostUploaded, DeleteFails, store
<1>11. LegacyOwned'
  BY <1>1, <1>2 DEF ObjectInv, LegacyOwned, Referenced, DeleteFails, store
<1>12. AllAccounted'
  BY <1>1, <1>2 DEF ObjectInv, AllAccounted, Accounted, Referenced, DeleteFails, store
<1>13. LateKnown'
  BY <1>1, <1>2 DEF ObjectInv, LateKnown, DeleteFails, store
<1>14. ReferencedKept'
  BY <1>1, <1>2 DEF ObjectInv, ReferencedKept, Referenced, DeleteFails, store
<1>15. CorruptNeedsCause'
  BY <1>1, <1>2 DEF ObjectInv, CorruptNeedsCause, DeleteFails, store
<1>16. FetchedExternal'
  BY <1>1, <1>2 DEF ObjectInv, FetchedExternal, DeleteFails, store
<1> QED
  BY <1>1, <1>3, <1>4, <1>5, <1>6, <1>7, <1>8, <1>9, <1>10, <1>11, <1>12, <1>13, <1>14, <1>15, <1>16
     DEF ObjectInv

LEMMA ReviewDocumentInv == ASSUME ObjectConstants, ObjectInv, NEW d \in Documents, Review(d) PROVE ObjectInv'
<1>1. ObjectTypeOK'
  BY DEF ObjectInv, ObjectTypeOK, Review, store
<1>3. avatar' \in Avatars \cup {LegacyKey}
  BY DEF ObjectInv, Review, store
<1>4. LegacyIsFirst'
  BY <1>1 DEF ObjectInv, LegacyIsFirst, Review, store
<1>5. NewIsUnknown'
  BY <1>1 DEF ObjectInv, NewIsUnknown, Referenced, Review, store
<1>6. WrittenStays'
  BY <1>1 DEF ObjectInv, WrittenStays, Review, store
<1>7. DeletedIsFree'
  BY <1>1 DEF ObjectInv, DeletedIsFree, Referenced, Review, store
<1>8. MigratesLegacy'
  BY <1>1 DEF ObjectInv, MigratesLegacy, Review, store
<1>9. RowMissing'
  BY <1>1 DEF ObjectInv, RowMissing, Review, store
<1>10. LostUploaded'
  BY <1>1 DEF ObjectInv, LostUploaded, Review, store
<1>11. LegacyOwned'
  BY <1>1 DEF ObjectInv, LegacyOwned, Referenced, Review, store
<1>12. AllAccounted'
  BY <1>1 DEF ObjectInv, AllAccounted, Accounted, Referenced, Review, store
<1>13. LateKnown'
  BY <1>1 DEF ObjectInv, LateKnown, Review, store
<1>14. ReferencedKept'
  BY <1>1 DEF ObjectInv, ReferencedKept, Referenced, Review, store
<1>15. CorruptNeedsCause'
  BY <1>1 DEF ObjectInv, CorruptNeedsCause, Review, store
<1>16. FetchedExternal'
  BY <1>1 DEF ObjectInv, FetchedExternal, Review, store
<1> QED
  BY <1>1, <1>3, <1>4, <1>5, <1>6, <1>7, <1>8, <1>9, <1>10, <1>11, <1>12, <1>13, <1>14, <1>15, <1>16
     DEF ObjectInv

LEMMA ReadAvatarInv == ASSUME ObjectConstants, ObjectInv, NEW r \in Readers, ReadAvatar(r) PROVE ObjectInv'
<1>1. ObjectTypeOK'
  BY DEF ObjectInv, ObjectTypeOK, ReadAvatar, store
<1>3. avatar' \in Avatars \cup {LegacyKey}
  BY DEF ObjectInv, ReadAvatar, store
<1>4. LegacyIsFirst'
  BY <1>1 DEF ObjectInv, LegacyIsFirst, ReadAvatar, store
<1>5. NewIsUnknown'
  BY <1>1 DEF ObjectInv, NewIsUnknown, Referenced, ReadAvatar, store
<1>6. WrittenStays'
  BY <1>1 DEF ObjectInv, WrittenStays, ReadAvatar, store
<1>7. DeletedIsFree'
  BY <1>1 DEF ObjectInv, DeletedIsFree, Referenced, ReadAvatar, store
<1>8. MigratesLegacy'
  BY <1>1 DEF ObjectInv, MigratesLegacy, ReadAvatar, store
<1>9. RowMissing'
  BY <1>1 DEF ObjectInv, RowMissing, ReadAvatar, store
<1>10. LostUploaded'
  BY <1>1 DEF ObjectInv, LostUploaded, ReadAvatar, store
<1>11. LegacyOwned'
  BY <1>1 DEF ObjectInv, LegacyOwned, Referenced, ReadAvatar, store
<1>12. AllAccounted'
  BY <1>1 DEF ObjectInv, AllAccounted, Accounted, Referenced, ReadAvatar, store
<1>13. LateKnown'
  <2>1. UNCHANGED row
    BY DEF ReadAvatar, store
  <2>2. \A g \in Readers : \/ reader'[g] = reader[g]
                           \/ reader'[g].key = avatar /\ reader'[g].late = (row[avatar] = "legacy")
    BY DEF ObjectInv, ObjectTypeOK, ReadAvatar
  <2> QED
    BY <2>1, <2>2 DEF ObjectInv, LateKnown
<1>14. ReferencedKept'
  BY <1>1 DEF ObjectInv, ReferencedKept, Referenced, ReadAvatar, store
<1>15. CorruptNeedsCause'
  BY <1>1 DEF ObjectInv, CorruptNeedsCause, ReadAvatar, store
<1>16. FetchedExternal'
  BY <1>1 DEF ObjectInv, ObjectTypeOK, FetchedExternal, ReadAvatar, store
<1> QED
  BY <1>1, <1>3, <1>4, <1>5, <1>6, <1>7, <1>8, <1>9, <1>10, <1>11, <1>12, <1>13, <1>14, <1>15, <1>16
     DEF ObjectInv

LEMMA LoadRowInv == ASSUME ObjectConstants, ObjectInv, NEW r \in Readers, LoadRow(r) PROVE ObjectInv'
<1>1. ObjectTypeOK'
  BY DEF ObjectInv, ObjectTypeOK, LoadRow, Answered, store
<1>3. avatar' \in Avatars \cup {LegacyKey}
  BY DEF ObjectInv, LoadRow, Answered, store
<1>4. LegacyIsFirst'
  BY <1>1 DEF ObjectInv, LegacyIsFirst, LoadRow, Answered, store
<1>5. NewIsUnknown'
  BY <1>1 DEF ObjectInv, NewIsUnknown, Referenced, LoadRow, Answered, store
<1>6. WrittenStays'
  BY <1>1 DEF ObjectInv, WrittenStays, LoadRow, Answered, store
<1>7. DeletedIsFree'
  BY <1>1 DEF ObjectInv, DeletedIsFree, Referenced, LoadRow, Answered, store
<1>8. MigratesLegacy'
  BY <1>1 DEF ObjectInv, MigratesLegacy, LoadRow, Answered, store
<1>9. RowMissing'
  BY <1>1 DEF ObjectInv, RowMissing, LoadRow, Answered, store
<1>10. LostUploaded'
  BY <1>1 DEF ObjectInv, LostUploaded, LoadRow, Answered, store
<1>11. LegacyOwned'
  BY <1>1 DEF ObjectInv, LegacyOwned, Referenced, LoadRow, Answered, store
<1>12. AllAccounted'
  BY <1>1 DEF ObjectInv, AllAccounted, Accounted, Referenced, LoadRow, Answered, store
<1>13. LateKnown'
  BY <1>1 DEF ObjectInv, LateKnown, LoadRow, Answered, store
<1>14. ReferencedKept'
  BY <1>1 DEF ObjectInv, ReferencedKept, Referenced, LoadRow, Answered, store
<1>15. CorruptNeedsCause'
  <2> DEFINE k == reader[r].key
  <2>1. /\ k \in Keys /\ \A s \in Readers \ {r} : reader'[s] = reader[s]
        /\ reader'[r].pc = IF row[k] = "external" THEN "fetch" ELSE "corrupt"
        /\ reader'[r].key = k /\ reader'[r].late = (reader[r].late \/ avatar # k)
    BY DEF ObjectInv, ObjectTypeOK, LoadRow, Answered
  <2>2. reader[r].late \/ row[k] # "legacy"
    BY DEF ObjectInv, LateKnown, LoadRow
  <2>3. avatar = k => k \in lost \/ row[k] = "legacy" \/ row[k] = "external"
    BY DEF ObjectInv, ReferencedKept, Referenced
  <2>4. lost' = lost
    BY DEF LoadRow, Answered
  <2>5. reader'[r].pc = "corrupt" => reader'[r].late \/ reader'[r].key \in lost'
    BY <2>1, <2>2, <2>3, <2>4
  <2> QED
    BY <2>1, <2>4, <2>5 DEF ObjectInv, CorruptNeedsCause

<1>16. FetchedExternal'
  BY <1>1 DEF ObjectInv, ObjectTypeOK, FetchedExternal, LoadRow, Answered, store
<1> QED
  BY <1>1, <1>3, <1>4, <1>5, <1>6, <1>7, <1>8, <1>9, <1>10, <1>11, <1>12, <1>13, <1>14, <1>15, <1>16
     DEF ObjectInv

LEMMA LoadObjectInv == ASSUME ObjectConstants, ObjectInv, NEW r \in Readers, LoadObject(r) PROVE ObjectInv'
<1>1. ObjectTypeOK'
  BY DEF ObjectInv, ObjectTypeOK, LoadObject, Answered, store
<1>3. avatar' \in Avatars \cup {LegacyKey}
  BY DEF ObjectInv, LoadObject, Answered, store
<1>4. LegacyIsFirst'
  BY <1>1 DEF ObjectInv, LegacyIsFirst, LoadObject, Answered, store
<1>5. NewIsUnknown'
  BY <1>1 DEF ObjectInv, NewIsUnknown, Referenced, LoadObject, Answered, store
<1>6. WrittenStays'
  BY <1>1 DEF ObjectInv, WrittenStays, LoadObject, Answered, store
<1>7. DeletedIsFree'
  BY <1>1 DEF ObjectInv, DeletedIsFree, Referenced, LoadObject, Answered, store
<1>8. MigratesLegacy'
  BY <1>1 DEF ObjectInv, MigratesLegacy, LoadObject, Answered, store
<1>9. RowMissing'
  BY <1>1 DEF ObjectInv, RowMissing, LoadObject, Answered, store
<1>10. LostUploaded'
  BY <1>1 DEF ObjectInv, LostUploaded, LoadObject, Answered, store
<1>11. LegacyOwned'
  BY <1>1 DEF ObjectInv, LegacyOwned, Referenced, LoadObject, Answered, store
<1>12. AllAccounted'
  BY <1>1 DEF ObjectInv, AllAccounted, Accounted, Referenced, LoadObject, Answered, store
<1>13. LateKnown'
  BY <1>1 DEF ObjectInv, LateKnown, LoadObject, Answered, store
<1>14. ReferencedKept'
  BY <1>1 DEF ObjectInv, ReferencedKept, Referenced, LoadObject, Answered, store
<1>15. CorruptNeedsCause'
  <2> DEFINE k == reader[r].key
  <2>1. /\ k \in Keys /\ \A s \in Readers \ {r} : reader'[s] = reader[s]
        /\ reader'[r].pc = IF k \in bucket THEN "ok" ELSE "corrupt"
        /\ reader'[r].key = k /\ reader'[r].late = (reader[r].late \/ avatar # k)
    BY DEF ObjectInv, ObjectTypeOK, LoadObject, Answered
  <2>2. row[k] # "legacy"
    BY DEF ObjectInv, LoadObject, FetchedExternal
  <2>3. avatar = k => k \in lost \/ row[k] = "legacy" \/ k \in bucket
    BY DEF ObjectInv, ReferencedKept, Referenced
  <2>4. lost' = lost
    BY DEF LoadObject, Answered
  <2>5. reader'[r].pc = "corrupt" => reader'[r].late \/ reader'[r].key \in lost'
    BY <2>1, <2>2, <2>3, <2>4
  <2> QED
    BY <2>1, <2>4, <2>5 DEF ObjectInv, CorruptNeedsCause

<1>16. FetchedExternal'
  BY <1>1 DEF ObjectInv, FetchedExternal, LoadObject, Answered, store
<1> QED
  BY <1>1, <1>3, <1>4, <1>5, <1>6, <1>7, <1>8, <1>9, <1>10, <1>11, <1>12, <1>13, <1>14, <1>15, <1>16
     DEF ObjectInv

LEMMA LoadFailsInv == ASSUME ObjectConstants, ObjectInv, NEW r \in Readers, LoadFails(r) PROVE ObjectInv'
<1>1. ObjectTypeOK'
  BY DEF ObjectInv, ObjectTypeOK, LoadFails, Answered, store
<1>3. avatar' \in Avatars \cup {LegacyKey}
  BY DEF ObjectInv, LoadFails, Answered, store
<1>4. LegacyIsFirst'
  BY <1>1 DEF ObjectInv, LegacyIsFirst, LoadFails, Answered, store
<1>5. NewIsUnknown'
  BY <1>1 DEF ObjectInv, NewIsUnknown, Referenced, LoadFails, Answered, store
<1>6. WrittenStays'
  BY <1>1 DEF ObjectInv, WrittenStays, LoadFails, Answered, store
<1>7. DeletedIsFree'
  BY <1>1 DEF ObjectInv, DeletedIsFree, Referenced, LoadFails, Answered, store
<1>8. MigratesLegacy'
  BY <1>1 DEF ObjectInv, MigratesLegacy, LoadFails, Answered, store
<1>9. RowMissing'
  BY <1>1 DEF ObjectInv, RowMissing, LoadFails, Answered, store
<1>10. LostUploaded'
  BY <1>1 DEF ObjectInv, LostUploaded, LoadFails, Answered, store
<1>11. LegacyOwned'
  BY <1>1 DEF ObjectInv, LegacyOwned, Referenced, LoadFails, Answered, store
<1>12. AllAccounted'
  BY <1>1 DEF ObjectInv, AllAccounted, Accounted, Referenced, LoadFails, Answered, store
<1>13. LateKnown'
  BY <1>1 DEF ObjectInv, LateKnown, LoadFails, Answered, store
<1>14. ReferencedKept'
  BY <1>1 DEF ObjectInv, ReferencedKept, Referenced, LoadFails, Answered, store
<1>15. CorruptNeedsCause'
  <2>1. /\ reader'[r].failed /\ UNCHANGED lost
        /\ \A s \in Readers \ {r} : reader'[s] = reader[s]
    BY DEF ObjectInv, ObjectTypeOK, LoadFails, Answered
  <2> QED
    BY <2>1 DEF ObjectInv, CorruptNeedsCause

<1>16. FetchedExternal'
  BY <1>1 DEF ObjectInv, FetchedExternal, LoadFails, Answered, store
<1> QED
  BY <1>1, <1>3, <1>4, <1>5, <1>6, <1>7, <1>8, <1>9, <1>10, <1>11, <1>12, <1>13, <1>14, <1>15, <1>16
     DEF ObjectInv

LEMMA MigrateNextInv == ASSUME ObjectConstants, ObjectInv, MigrateNext PROVE ObjectInv'
<1>1. ObjectTypeOK'
  BY DEF ObjectInv, ObjectTypeOK, MigrateNext, store
<1>3. avatar' \in Avatars \cup {LegacyKey}
  BY DEF ObjectInv, MigrateNext, store
<1>4. LegacyIsFirst'
  BY <1>1 DEF ObjectInv, LegacyIsFirst, MigrateNext, store
<1>5. NewIsUnknown'
  BY <1>1 DEF ObjectInv, NewIsUnknown, Referenced, MigrateNext, store
<1>6. WrittenStays'
  BY <1>1 DEF ObjectInv, WrittenStays, MigrateNext, store
<1>7. DeletedIsFree'
  BY <1>1 DEF ObjectInv, DeletedIsFree, Referenced, MigrateNext, store
<1>8. MigratesLegacy'
  <2>1. CASE \E k \in Keys : row[k] = "legacy"
<3>1. PICK k \in Keys : row[k] = "legacy" /\ mig' = [mig EXCEPT !.pc = "copy", !.key = k] /\ UNCHANGED
       <<row, bucket>>
      BY <2>1 DEF MigrateNext, store
    <3>2. k = LegacyKey /\ mig'.pc = "copy" /\ mig'.key = k
      BY <3>1 DEF ObjectInv, ObjectTypeOK, LegacyIsFirst
    <3> QED
      BY <3>1, <3>2 DEF MigratesLegacy
  <2>2. CASE ~\E k \in Keys : row[k] = "legacy"
    <3>1. mig'.pc = "verify"
      BY <2>2 DEF MigrateNext, ObjectInv, ObjectTypeOK
    <3> QED
      BY <3>1 DEF MigratesLegacy
  <2> QED
    BY <2>1, <2>2

<1>9. RowMissing'
  BY <1>1 DEF ObjectInv, RowMissing, MigrateNext, store
<1>10. LostUploaded'
  BY <1>1 DEF ObjectInv, LostUploaded, MigrateNext, store
<1>11. LegacyOwned'
  BY <1>1 DEF ObjectInv, LegacyOwned, Referenced, MigrateNext, store
<1>12. AllAccounted'
  <2>1. UNCHANGED <<bucket, row, avatar, status, up, left>> /\ mig.pc # "set"
    BY DEF MigrateNext, store
  <2> QED
    BY <2>1 DEF ObjectInv, AllAccounted, Accounted, Referenced

<1>13. LateKnown'
  BY <1>1 DEF ObjectInv, LateKnown, MigrateNext, store
<1>14. ReferencedKept'
  BY <1>1 DEF ObjectInv, ReferencedKept, Referenced, MigrateNext, store
<1>15. CorruptNeedsCause'
  BY <1>1 DEF ObjectInv, CorruptNeedsCause, MigrateNext, store
<1>16. FetchedExternal'
  BY <1>1 DEF ObjectInv, FetchedExternal, MigrateNext, store
<1> QED
  BY <1>1, <1>3, <1>4, <1>5, <1>6, <1>7, <1>8, <1>9, <1>10, <1>11, <1>12, <1>13, <1>14, <1>15, <1>16
     DEF ObjectInv

LEMMA MigrateCopyInv == ASSUME ObjectConstants, ObjectInv, MigrateCopy PROVE ObjectInv'
<1>1. ObjectTypeOK'
  <2>1. mig' = [mig EXCEPT !.pc = "set"] /\ mig.key \in Keys /\ bucket' = bucket \cup {mig.key}
    BY DEF ObjectInv, MigratesLegacy, MigrateCopy, Keys
  <2>2. mig' \in [pc : {"next", "copy", "set", "verify", "mark", "drop", "done"},
                  key : Keys \cup {NoKey}, after : SUBSET Keys]
    BY <2>1 DEF ObjectInv, ObjectTypeOK
  <2>3. UNCHANGED <<row, verified, dropped, avatar, status, up, reader, lost, left>>
    BY DEF MigrateCopy
  <2> QED
    BY <2>1, <2>2, <2>3 DEF ObjectInv, ObjectTypeOK

<1>3. avatar' \in Avatars \cup {LegacyKey}
  BY DEF ObjectInv, MigrateCopy, store
<1>4. LegacyIsFirst'
  BY <1>1 DEF ObjectInv, LegacyIsFirst, MigrateCopy, store
<1>5. NewIsUnknown'
  BY <1>1 DEF ObjectInv, NewIsUnknown, Referenced, MigrateCopy, store
<1>6. WrittenStays'
  BY <1>1 DEF ObjectInv, WrittenStays, MigrateCopy, store
<1>7. DeletedIsFree'
  BY <1>1 DEF ObjectInv, ObjectConstants, MigratesLegacy, DeletedIsFree, Referenced, MigrateCopy, store
<1>8. MigratesLegacy'
  BY <1>1 DEF ObjectInv, MigratesLegacy, MigrateCopy, store
<1>9. RowMissing'
  BY <1>1 DEF ObjectInv, ObjectConstants, MigratesLegacy, RowMissing, MigrateCopy, store
<1>10. LostUploaded'
  BY <1>1 DEF ObjectInv, LostUploaded, MigrateCopy, store
<1>11. LegacyOwned'
  BY <1>1 DEF ObjectInv, LegacyOwned, Referenced, MigrateCopy, store
<1>12. AllAccounted'
  BY <1>1 DEF ObjectInv, ObjectTypeOK, ObjectConstants, Uploads, Keys, AllAccounted, Accounted, Referenced,
     MigratesLegacy, MigrateCopy, store
<1>13. LateKnown'
  BY <1>1 DEF ObjectInv, LateKnown, MigrateCopy, store
<1>14. ReferencedKept'
  BY <1>1 DEF ObjectInv, ReferencedKept, Referenced, MigrateCopy, store
<1>15. CorruptNeedsCause'
  BY <1>1 DEF ObjectInv, CorruptNeedsCause, MigrateCopy, store
<1>16. FetchedExternal'
  BY <1>1 DEF ObjectInv, FetchedExternal, MigrateCopy, store
<1> QED
  BY <1>1, <1>3, <1>4, <1>5, <1>6, <1>7, <1>8, <1>9, <1>10, <1>11, <1>12, <1>13, <1>14, <1>15, <1>16
     DEF ObjectInv

LEMMA MigrateSetInv == ASSUME ObjectConstants, ObjectInv, MigrateSet PROVE ObjectInv'
<1>1. ObjectTypeOK'
  <2>1. mig.key = LegacyKey /\ LegacyKey \in Keys
    BY DEF ObjectInv, MigratesLegacy, MigrateSet, Keys
  <2>2. mig' \in [pc : {"next", "copy", "set", "verify", "mark", "drop", "done"},
                  key : Keys \cup {NoKey}, after : SUBSET Keys]
    BY DEF ObjectInv, ObjectTypeOK, MigrateSet
  <2>3. row' \in [Keys -> {"none", "legacy", "external"}] /\ verified' \subseteq Keys /\ left' \subseteq Keys
    BY <2>1 DEF ObjectInv, ObjectTypeOK, MigrateSet
  <2>4. UNCHANGED <<bucket, dropped, avatar, status, up, reader, lost>>
    BY DEF MigrateSet
  <2> QED
    BY <2>2, <2>3, <2>4 DEF ObjectInv, ObjectTypeOK

<1>3. avatar' \in Avatars \cup {LegacyKey}
  BY DEF ObjectInv, MigrateSet, store
<1>4. LegacyIsFirst'
  BY <1>1 DEF ObjectInv, LegacyIsFirst, MigrateSet, store
<1>5. NewIsUnknown'
  BY <1>1 DEF ObjectInv, NewIsUnknown, Referenced, MigrateSet, store
<1>6. WrittenStays'
  BY <1>1 DEF ObjectInv, WrittenStays, MigrateSet, store
<1>7. DeletedIsFree'
  BY <1>1 DEF ObjectInv, DeletedIsFree, Referenced, MigrateSet, store
<1>8. MigratesLegacy'
  BY <1>1 DEF ObjectInv, MigratesLegacy, MigrateSet, store
<1>9. RowMissing'
  BY <1>1 DEF ObjectInv, RowMissing, MigrateSet, store
<1>10. LostUploaded'
  BY <1>1 DEF ObjectInv, LostUploaded, MigrateSet, store
<1>11. LegacyOwned'
  BY <1>1 DEF ObjectInv, LegacyOwned, Referenced, MigrateSet, store
<1>12. AllAccounted'
  <2> SUFFICES ASSUME NEW k \in Keys, k \in bucket' PROVE Accounted(k)'
    BY <1>1 DEF AllAccounted, ObjectTypeOK
  <2> UNCHANGED <<bucket, up, avatar, status>> /\ mig.pc = "set"
    BY DEF MigrateSet
  <2>0. mig.key = LegacyKey /\ row[LegacyKey] # "external" /\ LegacyKey \in Keys
    BY DEF ObjectInv, MigratesLegacy, Keys
  <2>1. /\ row' = IF row[LegacyKey] = "legacy" THEN [row EXCEPT ![LegacyKey] = "external"] ELSE row
        /\ left' = IF row[LegacyKey] = "none" THEN left \cup {LegacyKey} ELSE left
        /\ row[LegacyKey] \in {"legacy", "none"}
    BY <2>0 DEF MigrateSet, ObjectInv, ObjectTypeOK
  <2>2. CASE k = LegacyKey
    <3>1. CASE row[LegacyKey] = "none"
      BY <2>1, <2>2, <3>1 DEF Accounted
    <3>2. CASE row[LegacyKey] = "legacy"
      <4>1. k \in Referenced \cup left
            \/ \E v \in Uploads : up[v].key = k /\ up[v].pc \in {"get", "remove", "row"}
        BY <2>2, <3>2 DEF ObjectInv, LegacyOwned
      <4>2. row'[k] = "external"
        BY <2>1, <2>2, <3>2 DEF ObjectInv, ObjectTypeOK
      <4> QED
        BY <2>1, <2>2, <4>1, <4>2 DEF Accounted, Referenced
    <3> QED
      BY <2>1, <3>1, <3>2
  <2>3. CASE k # LegacyKey
    <3>1. row'[k] = row[k] /\ Accounted(k)
      BY <2>1, <2>3 DEF ObjectInv, ObjectTypeOK, AllAccounted
    <3> QED
      BY <2>1, <2>3, <3>1 DEF Accounted, Referenced
  <2> QED
    BY <2>2, <2>3

<1>13. LateKnown'
  BY <1>1 DEF ObjectInv, LateKnown, MigrateSet, store
<1>14. ReferencedKept'
  BY <1>1 DEF ObjectInv, ObjectTypeOK, ObjectConstants, Uploads, Keys, ReferencedKept, Referenced,
     DeletedIsFree, MigratesLegacy, MigrateSet, store
<1>15. CorruptNeedsCause'
  BY <1>1 DEF ObjectInv, CorruptNeedsCause, MigrateSet, store
<1>16. FetchedExternal'
  BY <1>1 DEF ObjectInv, FetchedExternal, MigrateSet, store
<1> QED
  BY <1>1, <1>3, <1>4, <1>5, <1>6, <1>7, <1>8, <1>9, <1>10, <1>11, <1>12, <1>13, <1>14, <1>15, <1>16
     DEF ObjectInv

LEMMA VerifyNextInv == ASSUME ObjectConstants, ObjectInv, VerifyNext PROVE ObjectInv'
<1>1. ObjectTypeOK'
  <2>1. \E at \in {"drop", "done", "mark"} : \/ mig' = [mig EXCEPT !.pc = at]
                                            \/ \E k \in Keys : mig' = [mig EXCEPT !.pc = at, !.key = k]
    BY DEF VerifyNext, Stop
  <2>2. UNCHANGED <<bucket, row, verified, dropped, avatar, status, up, reader, lost, left>>
    BY DEF VerifyNext, store
  <2> QED
    BY <2>1, <2>2 DEF ObjectInv, ObjectTypeOK
<1>3. avatar' \in Avatars \cup {LegacyKey}
  BY DEF ObjectInv, VerifyNext, store, Stop
<1>4. LegacyIsFirst'
  BY <1>1 DEF ObjectInv, LegacyIsFirst, VerifyNext, store, Stop
<1>5. NewIsUnknown'
  BY <1>1 DEF ObjectInv, NewIsUnknown, Referenced, VerifyNext, store, Stop
<1>6. WrittenStays'
  BY <1>1 DEF ObjectInv, WrittenStays, VerifyNext, store, Stop
<1>7. DeletedIsFree'
  BY <1>1 DEF ObjectInv, DeletedIsFree, Referenced, VerifyNext, store, Stop
<1>8. MigratesLegacy'
  <2> DEFINE rest == {k \in Keys \ mig.after : row[k] = "external"}
  <2>1. CASE rest = {}
    <3>1. mig'.pc \in {"drop", "done"}
      BY <2>1 DEF VerifyNext, ObjectInv, ObjectTypeOK
    <3> QED
      BY <3>1 DEF MigratesLegacy
  <2>2. CASE rest # {}
    <3>1. PICK k \in rest : mig' = [mig EXCEPT !.pc = IF k \in bucket THEN "mark" ELSE "done", !.key = k]
      BY <2>2 DEF VerifyNext
    <3>2. mig'.pc \in {"mark", "done"} /\ mig'.key = k /\ k \in Keys
      BY <3>1 DEF ObjectInv, ObjectTypeOK
    <3> QED
      BY <3>2 DEF MigratesLegacy
  <2> QED
    BY <2>1, <2>2

<1>9. RowMissing'
  BY <1>1 DEF ObjectInv, RowMissing, VerifyNext, store, Stop
<1>10. LostUploaded'
  BY <1>1 DEF ObjectInv, LostUploaded, VerifyNext, store, Stop
<1>11. LegacyOwned'
  BY <1>1 DEF ObjectInv, LegacyOwned, Referenced, VerifyNext, store, Stop
<1>12. AllAccounted'
  <2>1. UNCHANGED <<bucket, row, avatar, status, up, left>> /\ mig.pc # "set"
    BY DEF VerifyNext, store
  <2> QED
    BY <2>1 DEF ObjectInv, AllAccounted, Accounted, Referenced

<1>13. LateKnown'
  BY <1>1 DEF ObjectInv, LateKnown, VerifyNext, store, Stop
<1>14. ReferencedKept'
  BY <1>1 DEF ObjectInv, ReferencedKept, Referenced, VerifyNext, store, Stop
<1>15. CorruptNeedsCause'
  BY <1>1 DEF ObjectInv, CorruptNeedsCause, VerifyNext, store, Stop
<1>16. FetchedExternal'
  BY <1>1 DEF ObjectInv, FetchedExternal, VerifyNext, store, Stop
<1> QED
  BY <1>1, <1>3, <1>4, <1>5, <1>6, <1>7, <1>8, <1>9, <1>10, <1>11, <1>12, <1>13, <1>14, <1>15, <1>16
     DEF ObjectInv

LEMMA VerifyMarkInv == ASSUME ObjectConstants, ObjectInv, VerifyMark PROVE ObjectInv'
<1>1. ObjectTypeOK'
  <2>1. mig.key \in Keys
    BY DEF ObjectInv, MigratesLegacy, VerifyMark
  <2>2. mig' \in [pc : {"next", "copy", "set", "verify", "mark", "drop", "done"},
                  key : Keys \cup {NoKey}, after : SUBSET Keys]
    BY <2>1 DEF ObjectInv, ObjectTypeOK, VerifyMark
  <2>3. verified' \subseteq Keys
    BY <2>1 DEF ObjectInv, ObjectTypeOK, VerifyMark
  <2>4. UNCHANGED <<bucket, row, dropped, avatar, status, up, reader, lost, left>>
    BY DEF VerifyMark
  <2> QED
    BY <2>2, <2>3, <2>4 DEF ObjectInv, ObjectTypeOK

<1>3. avatar' \in Avatars \cup {LegacyKey}
  BY DEF ObjectInv, VerifyMark, store
<1>4. LegacyIsFirst'
  BY <1>1 DEF ObjectInv, LegacyIsFirst, VerifyMark, store
<1>5. NewIsUnknown'
  BY <1>1 DEF ObjectInv, NewIsUnknown, Referenced, VerifyMark, store
<1>6. WrittenStays'
  BY <1>1 DEF ObjectInv, WrittenStays, VerifyMark, store
<1>7. DeletedIsFree'
  BY <1>1 DEF ObjectInv, DeletedIsFree, Referenced, VerifyMark, store
<1>8. MigratesLegacy'
  BY <1>1 DEF ObjectInv, MigratesLegacy, VerifyMark, store
<1>9. RowMissing'
  BY <1>1 DEF ObjectInv, RowMissing, VerifyMark, store
<1>10. LostUploaded'
  BY <1>1 DEF ObjectInv, LostUploaded, VerifyMark, store
<1>11. LegacyOwned'
  BY <1>1 DEF ObjectInv, LegacyOwned, Referenced, VerifyMark, store
<1>12. AllAccounted'
  BY <1>1 DEF ObjectInv, AllAccounted, Accounted, Referenced, VerifyMark, store
<1>13. LateKnown'
  BY <1>1 DEF ObjectInv, LateKnown, VerifyMark, store
<1>14. ReferencedKept'
  BY <1>1 DEF ObjectInv, ReferencedKept, Referenced, VerifyMark, store
<1>15. CorruptNeedsCause'
  BY <1>1 DEF ObjectInv, CorruptNeedsCause, VerifyMark, store
<1>16. FetchedExternal'
  BY <1>1 DEF ObjectInv, FetchedExternal, VerifyMark, store
<1> QED
  BY <1>1, <1>3, <1>4, <1>5, <1>6, <1>7, <1>8, <1>9, <1>10, <1>11, <1>12, <1>13, <1>14, <1>15, <1>16
     DEF ObjectInv

LEMMA ContractInv == ASSUME ObjectConstants, ObjectInv, Contract PROVE ObjectInv'
<1>1. ObjectTypeOK'
  <2>1. mig' \in [pc : {"next", "copy", "set", "verify", "mark", "drop", "done"},
                  key : Keys \cup {NoKey}, after : SUBSET Keys]
    BY DEF ObjectInv, ObjectTypeOK, Contract, Stop
  <2>2. dropped' \in BOOLEAN /\ UNCHANGED <<bucket, row, verified, avatar, status, up, reader, lost, left>>
    BY DEF Contract
  <2> QED
    BY <2>1, <2>2 DEF ObjectInv, ObjectTypeOK
<1>3. avatar' \in Avatars \cup {LegacyKey}
  BY DEF ObjectInv, Contract, store, Stop, Pending
<1>4. LegacyIsFirst'
  BY <1>1 DEF ObjectInv, LegacyIsFirst, Contract, store, Stop, Pending
<1>5. NewIsUnknown'
  BY <1>1 DEF ObjectInv, NewIsUnknown, Referenced, Contract, store, Stop, Pending
<1>6. WrittenStays'
  BY <1>1 DEF ObjectInv, WrittenStays, Contract, store, Stop, Pending
<1>7. DeletedIsFree'
  BY <1>1 DEF ObjectInv, DeletedIsFree, Referenced, Contract, store, Stop, Pending
<1>8. MigratesLegacy'
  BY <1>1 DEF ObjectInv, MigratesLegacy, Contract, store, Stop, Pending
<1>9. RowMissing'
  BY <1>1 DEF ObjectInv, RowMissing, Contract, store, Stop, Pending
<1>10. LostUploaded'
  BY <1>1 DEF ObjectInv, LostUploaded, Contract, store, Stop, Pending
<1>11. LegacyOwned'
  BY <1>1 DEF ObjectInv, LegacyOwned, Referenced, Contract, store, Stop, Pending
<1>12. AllAccounted'
  BY <1>1 DEF ObjectInv, AllAccounted, Accounted, Referenced, Contract, store, Stop, Pending
<1>13. LateKnown'
  BY <1>1 DEF ObjectInv, LateKnown, Contract, store, Stop, Pending
<1>14. ReferencedKept'
  BY <1>1 DEF ObjectInv, ObjectTypeOK, ObjectConstants, Uploads, Keys, ReferencedKept, Referenced,
     Contract, store, Stop, Pending
<1>15. CorruptNeedsCause'
  BY <1>1 DEF ObjectInv, CorruptNeedsCause, Contract, store, Stop, Pending
<1>16. FetchedExternal'
  BY <1>1 DEF ObjectInv, FetchedExternal, Contract, store, Stop, Pending
<1> QED
  BY <1>1, <1>3, <1>4, <1>5, <1>6, <1>7, <1>8, <1>9, <1>10, <1>11, <1>12, <1>13, <1>14, <1>15, <1>16
     DEF ObjectInv

LEMMA MigrateFailsInv == ASSUME ObjectConstants, ObjectInv, MigrateFails PROVE ObjectInv'
<1>1. ObjectTypeOK'
  <2>1. mig' = [mig EXCEPT !.pc = "done"] /\ left' \subseteq Keys
    BY DEF ObjectInv, ObjectTypeOK, MigratesLegacy, MigrateFails, Stop, Keys
  <2>2. mig' \in [pc : {"next", "copy", "set", "verify", "mark", "drop", "done"},
                  key : Keys \cup {NoKey}, after : SUBSET Keys]
    BY <2>1 DEF ObjectInv, ObjectTypeOK
  <2>3. UNCHANGED <<bucket, row, verified, dropped, avatar, status, up, reader, lost>>
    BY DEF MigrateFails, store
  <2> QED
    BY <2>1, <2>2, <2>3 DEF ObjectInv, ObjectTypeOK

<1>3. avatar' \in Avatars \cup {LegacyKey}
  BY DEF ObjectInv, MigrateFails, store, Stop
<1>4. LegacyIsFirst'
  BY <1>1 DEF ObjectInv, LegacyIsFirst, MigrateFails, store, Stop
<1>5. NewIsUnknown'
  BY <1>1 DEF ObjectInv, NewIsUnknown, Referenced, MigrateFails, store, Stop
<1>6. WrittenStays'
  BY <1>1 DEF ObjectInv, WrittenStays, MigrateFails, store, Stop
<1>7. DeletedIsFree'
  BY <1>1 DEF ObjectInv, DeletedIsFree, Referenced, MigrateFails, store, Stop
<1>8. MigratesLegacy'
  BY <1>1 DEF ObjectInv, MigratesLegacy, MigrateFails, store, Stop
<1>9. RowMissing'
  BY <1>1 DEF ObjectInv, RowMissing, MigrateFails, store, Stop
<1>10. LostUploaded'
  BY <1>1 DEF ObjectInv, LostUploaded, MigrateFails, store, Stop
<1>11. LegacyOwned'
  BY <1>1 DEF ObjectInv, LegacyOwned, Referenced, MigrateFails, store, Stop
<1>12. AllAccounted'
  BY <1>1 DEF ObjectInv, ObjectTypeOK, ObjectConstants, Uploads, Keys, AllAccounted, Accounted, Referenced,
     MigratesLegacy, MigrateFails, store, Stop
<1>13. LateKnown'
  BY <1>1 DEF ObjectInv, LateKnown, MigrateFails, store, Stop
<1>14. ReferencedKept'
  BY <1>1 DEF ObjectInv, ReferencedKept, Referenced, MigrateFails, store, Stop
<1>15. CorruptNeedsCause'
  BY <1>1 DEF ObjectInv, CorruptNeedsCause, MigrateFails, store, Stop
<1>16. FetchedExternal'
  BY <1>1 DEF ObjectInv, FetchedExternal, MigrateFails, store, Stop
<1> QED
  BY <1>1, <1>3, <1>4, <1>5, <1>6, <1>7, <1>8, <1>9, <1>10, <1>11, <1>12, <1>13, <1>14, <1>15, <1>16
     DEF ObjectInv

LEMMA MigrateAgainInv == ASSUME ObjectConstants, ObjectInv, MigrateAgain PROVE ObjectInv'
<1>1. ObjectTypeOK'
  BY DEF ObjectInv, ObjectTypeOK, MigrateAgain, store
<1>3. avatar' \in Avatars \cup {LegacyKey}
  BY DEF ObjectInv, MigrateAgain, store
<1>4. LegacyIsFirst'
  BY <1>1 DEF ObjectInv, LegacyIsFirst, MigrateAgain, store
<1>5. NewIsUnknown'
  BY <1>1 DEF ObjectInv, NewIsUnknown, Referenced, MigrateAgain, store
<1>6. WrittenStays'
  BY <1>1 DEF ObjectInv, WrittenStays, MigrateAgain, store
<1>7. DeletedIsFree'
  BY <1>1 DEF ObjectInv, DeletedIsFree, Referenced, MigrateAgain, store
<1>8. MigratesLegacy'
  BY <1>1 DEF ObjectInv, MigratesLegacy, MigrateAgain, store
<1>9. RowMissing'
  BY <1>1 DEF ObjectInv, RowMissing, MigrateAgain, store
<1>10. LostUploaded'
  BY <1>1 DEF ObjectInv, LostUploaded, MigrateAgain, store
<1>11. LegacyOwned'
  BY <1>1 DEF ObjectInv, LegacyOwned, Referenced, MigrateAgain, store
<1>12. AllAccounted'
  BY <1>1 DEF ObjectInv, AllAccounted, Accounted, Referenced, MigrateAgain, store
<1>13. LateKnown'
  BY <1>1 DEF ObjectInv, LateKnown, MigrateAgain, store
<1>14. ReferencedKept'
  BY <1>1 DEF ObjectInv, ReferencedKept, Referenced, MigrateAgain, store
<1>15. CorruptNeedsCause'
  BY <1>1 DEF ObjectInv, CorruptNeedsCause, MigrateAgain, store
<1>16. FetchedExternal'
  BY <1>1 DEF ObjectInv, FetchedExternal, MigrateAgain, store
<1> QED
  BY <1>1, <1>3, <1>4, <1>5, <1>6, <1>7, <1>8, <1>9, <1>10, <1>11, <1>12, <1>13, <1>14, <1>15, <1>16
     DEF ObjectInv

LEMMA ObjectInitInv == ASSUME ObjectConstants, ObjectInit PROVE ObjectInv
<1>1. ObjectTypeOK /\ avatar = LegacyKey
  <2>1. LegacyKey \in Keys
    BY DEF Keys
  <2>2. up \in [Uploads -> [pc : {"idle", "put", "meta", "link", "get", "remove", "row", "done"},
                            read : Keys, key : Keys \cup {NoKey}]]
    BY <2>1 DEF ObjectInit
  <2>3. reader \in [Readers -> [pc : {"idle", "load", "fetch", "ok", "corrupt"}, key : Keys,
                            late : BOOLEAN, failed : BOOLEAN]]
    BY <2>1 DEF ObjectInit
  <2>4. mig \in [pc : {"next", "copy", "set", "verify", "mark", "drop", "done"},
                 key : Keys \cup {NoKey}, after : SUBSET Keys]
    BY DEF ObjectInit
  <2>5. row \in [Keys -> {"none", "legacy", "external"}]
        /\ status \in [Documents -> {"none", "pending", "approved", "rejected"}]
    BY DEF ObjectInit
  <2> QED
    BY <2>1, <2>2, <2>3, <2>4, <2>5 DEF ObjectTypeOK, ObjectInit
<1>2. /\ bucket = {} /\ left = {} /\ lost = {} /\ ~dropped /\ Referenced = {LegacyKey} /\ row[LegacyKey] = "legacy"
      /\ \A u \in Uploads : up[u].pc = "idle" /\ u # LegacyKey /\ row[u] = "none"
      /\ \A r \in Readers : reader[r].pc = "idle"
      /\ mig.pc \in {"next", "done"}
  BY DEF ObjectInit, ObjectConstants, Uploads, Keys, Referenced
<1>3. LegacyIsFirst /\ NewIsUnknown /\ WrittenStays /\ DeletedIsFree /\ MigratesLegacy
  BY <1>2 DEF LegacyIsFirst, NewIsUnknown, WrittenStays, DeletedIsFree, MigratesLegacy, Keys
<1>4. /\ RowMissing /\ LostUploaded /\ LegacyOwned /\ AllAccounted /\ LateKnown /\ ReferencedKept
      /\ CorruptNeedsCause /\ FetchedExternal
  BY <1>2 DEF RowMissing, LostUploaded, LegacyOwned, AllAccounted, LateKnown, ReferencedKept, CorruptNeedsCause,
     FetchedExternal
<1> QED
  BY <1>1, <1>3, <1>4 DEF ObjectInv

LEMMA ObjectStepInv == ASSUME ObjectConstants, ObjectInv, [ObjectNext]_objectVars PROVE ObjectInv'
<1>1. ASSUME NEW u \in Uploads, BeginUpload(u) PROVE ObjectInv'
  BY <1>1, BeginUploadInv
<1>2. ASSUME NEW u \in Uploads, PutObject(u) PROVE ObjectInv'
  BY <1>2, PutObjectInv
<1>3. ASSUME NEW u \in Uploads, PutFails(u) PROVE ObjectInv'
  BY <1>3, PutFailsInv
<1>4. ASSUME NEW u \in Uploads, CreateRow(u) PROVE ObjectInv'
  BY <1>4, CreateRowInv
<1>5. ASSUME NEW u \in Uploads, CreateRowFails(u) PROVE ObjectInv'
  BY <1>5, CreateRowFailsInv
<1>6. ASSUME NEW u \in Uploads, CommitAvatar(u) PROVE ObjectInv'
  BY <1>6, CommitAvatarInv
<1>7. ASSUME NEW u \in Uploads, CreateDocument(u) PROVE ObjectInv'
  BY <1>7, CreateDocumentInv
<1>8. ASSUME NEW u \in Uploads, LinkFails(u) PROVE ObjectInv'
  BY <1>8, LinkFailsInv
<1>9. ASSUME NEW u \in Uploads, LinkUnanswered(u) PROVE ObjectInv'
  BY <1>9, LinkUnansweredInv
<1>10. ASSUME NEW u \in Uploads, DeleteLook(u) PROVE ObjectInv'
  BY <1>10, DeleteLookInv
<1>11. ASSUME NEW u \in Uploads, DeleteObject(u) PROVE ObjectInv'
  BY <1>11, DeleteObjectInv
<1>12. ASSUME NEW u \in Uploads, DeleteRow(u) PROVE ObjectInv'
  BY <1>12, DeleteRowInv
<1>13. ASSUME NEW u \in Uploads, DeleteFails(u) PROVE ObjectInv'
  BY <1>13, DeleteFailsInv
<1>14. ASSUME NEW d \in Documents, Review(d) PROVE ObjectInv'
  BY <1>14, ReviewDocumentInv
<1>15. ASSUME NEW r \in Readers, ReadAvatar(r) PROVE ObjectInv'
  BY <1>15, ReadAvatarInv
<1>16. ASSUME NEW r \in Readers, LoadRow(r) PROVE ObjectInv'
  BY <1>16, LoadRowInv
<1>26. ASSUME NEW r \in Readers, LoadObject(r) PROVE ObjectInv'
  BY <1>26, LoadObjectInv
<1>27. ASSUME NEW r \in Readers, LoadFails(r) PROVE ObjectInv'
  BY <1>27, LoadFailsInv
<1>17. CASE MigrateNext
  BY <1>17, MigrateNextInv
<1>18. CASE MigrateCopy
  BY <1>18, MigrateCopyInv
<1>19. CASE MigrateSet
  BY <1>19, MigrateSetInv
<1>20. CASE VerifyNext
  BY <1>20, VerifyNextInv
<1>21. CASE VerifyMark
  BY <1>21, VerifyMarkInv
<1>22. CASE Contract
  BY <1>22, ContractInv
<1>23. CASE MigrateFails
  BY <1>23, MigrateFailsInv
<1>24. CASE MigrateAgain
  BY <1>24, MigrateAgainInv
<1>25. CASE UNCHANGED objectVars
  BY <1>25 DEF objectVars, ObjectInv, ObjectTypeOK, LegacyIsFirst, NewIsUnknown, WrittenStays, DeletedIsFree,
     MigratesLegacy, RowMissing, LostUploaded, LegacyOwned, AllAccounted, Accounted, LateKnown, ReferencedKept,
     CorruptNeedsCause, FetchedExternal, Referenced
<1> QED
  BY <1>1, <1>2, <1>3, <1>4, <1>5, <1>6, <1>7, <1>8, <1>9, <1>10, <1>11, <1>12, <1>13,
     <1>14, <1>15, <1>16, <1>17, <1>18, <1>19, <1>20, <1>21, <1>22, <1>23, <1>24, <1>25, <1>26, <1>27 DEF ObjectNext

\* Once all is quiet, nothing but a reference or a cause accounts for an object.
LEMMA ObjectInvHolds == ASSUME ObjectConstants, ObjectInv PROVE StorageHolds
<1>1. OrphanNeedsCause
  BY DEF ObjectInv, AllAccounted, Accounted, OrphanNeedsCause, Quiet
<1> QED
  BY <1>1 DEF ObjectInv, StorageHolds

\* What a profile or a document refers to still has its bytes, the bucket holds no object that nobody
\* refers to, and a download is answered as corrupt, only for one of the causes (platform/storage/
\* minio/store.go, SaveAvatar, Upload, GetAvatar and cmd/storage-migrate interleaved, and failing).
THEOREM StorageHoldsAlways == ASSUME ObjectConstants PROVE ObjectSpec => []StorageHolds
<1>1. ObjectInit => ObjectInv
  BY ObjectInitInv
<1>2. ObjectInv /\ [ObjectNext]_objectVars => ObjectInv'
  BY ObjectStepInv
<1>3. ObjectInv => StorageHolds
  BY ObjectInvHolds
<1> QED
  BY <1>1, <1>2, <1>3, PTL DEF ObjectSpec
=============================================================================
