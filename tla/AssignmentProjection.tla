------------------------ MODULE AssignmentProjection ------------------------
(* The in-memory index of ride assignments of every server process
   (dispatch/app/assignment_projection.go, resolver.go, ride_lookup.go), the
   realtime events that feed it (platform/events) and the rides in PostgreSQL
   it stands for. Events leave after the commit, from the goroutine of each
   request, and Redis pub/sub forgets what a disconnected process misses. *)
EXTENDS Naturals, FiniteSets, Sequences

CONSTANTS Ride, Driver, Process, Absent,
          Faults      \* whether connections to Redis and processes fail

VARIABLES
  status, driver,     \* the rides table
  aged,               \* completed rides whose 24 hour contact window is over
  byRide, byDriver,   \* per process: the projection's two maps
  sending,            \* publications in flight: [from, ride, status, local]
  inbox, linked,      \* per process: frames received and not dispatched; subscribed
  lookup,             \* per process: a Resolver call in progress
  seen,               \* history: the latest status of a ride a process was told of
  excuse              \* history: <<process, ride>> pairs whose entry may be stale

projectionVars == <<status, driver, aged, byRide, byDriver, sending, inbox, linked, lookup, seen, excuse>>

rides == <<status, driver, aged>>
delivery == <<sending, inbox, linked>>

Active == {"accepted", "in_transit"}
Terminal == {"completed", "canceled"}
Status == {"requested"} \cup Active \cup Terminal
Rank == [s \in Status |->
           CASE s = "requested" -> 0 [] s = "accepted" -> 1 [] s = "in_transit" -> 2 [] OTHER -> 3]

NoLookup == [pc |-> "idle", ride |-> Absent, driver |-> Absent, values |-> {}]

\* An Assignment: events carry no contact window, the authority computes it.
Assignments == [ride : Ride, driver : Driver, status : Status, open : BOOLEAN]

ProjectionConstants == Absent \notin Ride /\ Absent \notin Driver /\ Absent \notin Assignments

ProjectionTypeOK ==
  /\ status \in [Ride -> Status] /\ driver \in [Ride -> Driver \cup {Absent}] /\ aged \subseteq Ride
  /\ byRide \in [Process -> [Ride -> Assignments \cup {Absent}]]
  /\ byDriver \in [Process -> [Driver -> SUBSET Ride]]
  /\ sending \subseteq [from : Process, ride : Ride, status : Status, local : BOOLEAN]
  /\ inbox \in [Process -> Seq([ride : Ride, status : Status])]
  /\ linked \in [Process -> BOOLEAN]
  /\ lookup \in [Process -> [pc : {"idle", "missed", "read"}, ride : Ride \cup {Absent},
                             driver : Driver \cup {Absent}, values : SUBSET Assignments]]
  /\ seen \in [Process -> [Ride -> 0 .. 3]] /\ excuse \subseteq Process \X Ride

ProjectionInit ==
  /\ status = [r \in Ride |-> "requested"] /\ driver = [r \in Ride |-> Absent] /\ aged = {}
  /\ byRide = [p \in Process |-> [r \in Ride |-> Absent]]
  /\ byDriver = [p \in Process |-> [d \in Driver |-> {}]]
  /\ sending = {} /\ inbox = [p \in Process |-> <<>>] /\ linked = [p \in Process |-> TRUE]
  /\ lookup = [p \in Process |-> NoLookup]
  /\ seen = [p \in Process |-> [r \in Ride |-> 0]] /\ excuse = {}

(***************************************************************************)
(* The projection: two maps under one mutex                                *)
(***************************************************************************)

\* Both maps of a process, as one value.
Maps(p) == [ride |-> byRide[p], driver |-> byDriver[p]]

\* upsertLocked.
Upsert(m, v) ==
  LET before == m.ride[v.ride]
      left == IF before # Absent /\ before.driver # v.driver
              THEN [m.driver EXCEPT ![before.driver] = @ \ {v.ride}]
              ELSE m.driver
  IN [ride |-> [m.ride EXCEPT ![v.ride] = v], driver |-> [left EXCEPT ![v.driver] = @ \cup {v.ride}]]

\* remove of the projection.
Forget(m, r) ==
  IF m.ride[r] = Absent
  THEN m
  ELSE [ride |-> [m.ride EXCEPT ![r] = Absent], driver |-> [m.driver EXCEPT ![m.ride[r].driver] = @ \ {r}]]

\* Remember: the driver's slice is cleared, then holds exactly the values of that driver.
Remember(m, d, values) ==
  LET mine == {v \in values : v.driver = d}
      cleared == [r \in Ride |-> IF r \in m.driver[d] THEN Absent ELSE m.ride[r]]
  IN [ride |-> [r \in Ride |-> IF \E v \in mine : v.ride = r
                               THEN CHOOSE v \in mine : v.ride = r ELSE cleared[r]],
      driver |-> [m.driver EXCEPT ![d] = {v.ride : v \in mine}]]

SetMaps(p, m) == byRide' = [byRide EXCEPT ![p] = m.ride] /\ byDriver' = [byDriver EXCEPT ![p] = m.driver]

\* (mutant: a canceled ride is not terminal)
TakesCanceled(m, e) ==
  IF e.status = "completed" THEN Forget(m, e.ride)
  ELSE IF driver[e.ride] = Absent THEN m
  ELSE Upsert(m, [ride |-> e.ride, driver |-> driver[e.ride], status |-> e.status, open |-> FALSE])

\* MemoryProjection.Publish of a ride event; an event of a ride without a driver has an
\* incomplete scope, and changes nothing unless it is terminal.
Takes(m, e) ==
  IF e.status \in Terminal THEN Forget(m, e.ride)
  ELSE IF driver[e.ride] = Absent THEN m
  ELSE Upsert(m, [ride |-> e.ride, driver |-> driver[e.ride], status |-> e.status, open |-> FALSE])

\* A process is told of an event; told late, its entry has an excuse.
Told(p, e) ==
  /\ SetMaps(p, Takes(Maps(p), e))
  /\ seen' = [seen EXCEPT ![p][e.ride] = IF Rank[e.status] > @ THEN Rank[e.status] ELSE @]
  /\ excuse' = IF Rank[e.status] < seen[p][e.ride] THEN excuse \cup {<<p, e.ride>>}
               ELSE IF e.status \in Terminal THEN excuse \ {<<p, e.ride>>} ELSE excuse

(***************************************************************************)
(* Rides: the commit, then the publication                                 *)
(***************************************************************************)

Emit(p, r, s) == sending' = sending \cup {[from |-> p, ride |-> r, status |-> s, local |-> FALSE]}

\* AcceptRide or AcceptOffer, served by process p.
Accept(p, r, d) ==
  /\ status[r] = "requested"
  /\ status' = [status EXCEPT ![r] = "accepted"] /\ driver' = [driver EXCEPT ![r] = d]
  /\ Emit(p, r, "accepted")
  /\ UNCHANGED <<aged, byRide, byDriver, inbox, linked, lookup, seen, excuse>>

\* Any other status command.
Advance(p, r, s) ==
  /\ \/ status[r] \in {"requested", "accepted"} /\ s = "canceled"
     \/ status[r] = "accepted" /\ s = "in_transit"
     \/ status[r] = "in_transit" /\ s = "completed"
  /\ status' = [status EXCEPT ![r] = s]
  /\ Emit(p, r, s)
  /\ UNCHANGED <<driver, aged, byRide, byDriver, inbox, linked, lookup, seen, excuse>>

Age(r) ==
  /\ status[r] = "completed" /\ aged' = aged \cup {r}
  /\ UNCHANGED <<status, driver, byRide, byDriver, delivery, lookup, seen, excuse>>

(***************************************************************************)
(* DistributedPublisher and DistributedSubscriber                          *)
(***************************************************************************)

\* The publishing process tells its own sinks first.
PublishLocal(e) ==
  /\ e \in sending /\ ~e.local
  /\ sending' = (sending \ {e}) \cup {[e EXCEPT !.local = TRUE]}
  /\ Told(e.from, e)
  /\ UNCHANGED <<rides, inbox, linked, lookup>>

Missing(e, ps) == excuse' = excuse \cup {<<p, e.ride>> : p \in ps}

\* dispatch ignores the frames of its own origin.
Others(p) == Process \ {p}

\* PUBLISH: Redis hands the frame to the processes subscribed now, or the call fails.
PublishRedis(e) ==
  /\ e \in sending /\ e.local
  /\ sending' = sending \ {e}
  /\ \/ /\ inbox' = [p \in Process |-> IF p \in Others(e.from) /\ linked[p]
                                       THEN Append(inbox[p], [ride |-> e.ride, status |-> e.status])
                                       ELSE inbox[p]]
        /\ Missing(e, {p \in Process : p # e.from /\ ~linked[p]})
     \/ /\ Faults /\ Missing(e, Process \ {e.from})
        /\ UNCHANGED inbox
  /\ UNCHANGED <<rides, byRide, byDriver, linked, lookup, seen>>

\* The subscriber's loop.
Dispatch(p) ==
  /\ inbox[p] # <<>>
  /\ inbox' = [inbox EXCEPT ![p] = Tail(@)]
  /\ Told(p, Head(inbox[p]))
  /\ UNCHANGED <<rides, sending, linked, lookup>>

\* The subscription breaks; what Redis had sent is gone.
Disconnect(p) ==
  /\ Faults /\ linked[p]
  /\ linked' = [linked EXCEPT ![p] = FALSE] /\ inbox' = [inbox EXCEPT ![p] = <<>>]
  /\ excuse' = excuse \cup {<<p, inbox[p][i].ride>> : i \in DOMAIN inbox[p]}
  /\ UNCHANGED <<rides, byRide, byDriver, sending, lookup, seen>>

\* waitForRedisRetry, then Subscribe again.
Reconnect(p) ==
  /\ ~linked[p]
  /\ linked' = [linked EXCEPT ![p] = TRUE]
  /\ UNCHANGED <<rides, byRide, byDriver, sending, inbox, lookup, seen, excuse>>

\* The process dies and comes back with empty maps; its publications never happen.
Restart(p) ==
  /\ Faults
  /\ SetMaps(p, [ride |-> [r \in Ride |-> Absent], driver |-> [d \in Driver |-> {}]])
  /\ sending' = {e \in sending : e.from # p}
  /\ inbox' = [inbox EXCEPT ![p] = <<>>] /\ linked' = [linked EXCEPT ![p] = TRUE]
  /\ lookup' = [lookup EXCEPT ![p] = NoLookup]
  /\ excuse' = excuse \cup {<<q, e.ride>> : q \in Process, e \in {x \in sending : x.from = p}}
                      \cup {<<p, inbox[p][i].ride>> : i \in DOMAIN inbox[p]}
  /\ UNCHANGED <<rides, seen>>

(***************************************************************************)
(* Resolver                                                                *)
(***************************************************************************)

\* fromRide.
FromRide(r) == [ride |-> r, driver |-> driver[r], status |-> status[r],
                open |-> status[r] \in Active \/ (status[r] = "completed" /\ r \notin aged)]

\* ListActiveRidesForDriver.
ActiveRides(d) == {r \in Ride : driver[r] = d /\ status[r] \in Active}

\* ForRide and ForDriver end at once when the projection has an entry: only a miss goes on.
Miss(p) ==
  /\ lookup[p].pc = "idle"
  /\ \/ \E r \in Ride : byRide[p][r] = Absent
                        /\ lookup' = [lookup EXCEPT ![p] = [NoLookup EXCEPT !.pc = "missed", !.ride = r]]
     \/ \E d \in Driver : byDriver[p][d] = {}
                        /\ lookup' = [lookup EXCEPT ![p] = [NoLookup EXCEPT !.pc = "missed", !.driver = d]]
  /\ UNCHANGED <<rides, byRide, byDriver, delivery, seen, excuse>>

\* The authority: one ride of any status, or the driver's active rides; or nothing or an error.
ReadAuthority(p) ==
  LET l == lookup[p]
  IN /\ l.pc = "missed"
     /\ lookup' = [lookup EXCEPT ![p] =
          IF l.driver # Absent
          THEN [l EXCEPT !.pc = "read", !.values = {FromRide(r) : r \in ActiveRides(l.driver)}]
          ELSE IF driver[l.ride] = Absent THEN NoLookup
          ELSE [l EXCEPT !.pc = "read", !.driver = driver[l.ride], !.values = {FromRide(l.ride)}]]
     /\ UNCHANGED <<rides, byRide, byDriver, delivery, seen, excuse>>

\* remember, and the answer. An entry for a ride that is over, or ends before this step, is
\* excused.
Answer(p) ==
  LET l == lookup[p]
  IN /\ l.pc = "read"
     /\ SetMaps(p, Remember(Maps(p), l.driver, l.values))
     /\ excuse' = excuse \cup {<<p, v.ride>> : v \in {x \in l.values : status[x.ride] \in Terminal}}
     /\ lookup' = [lookup EXCEPT ![p] = NoLookup]
     /\ UNCHANGED <<rides, delivery, seen>>

ProjectionNext ==
  \/ \E p \in Process, r \in Ride, d \in Driver : Accept(p, r, d)
  \/ \E p \in Process, r \in Ride, s \in {"in_transit"} \cup Terminal : Advance(p, r, s)
  \/ \E r \in Ride : Age(r)
  \/ \E e \in sending : PublishLocal(e) \/ PublishRedis(e)
  \/ \E p \in Process : Dispatch(p) \/ Disconnect(p) \/ Reconnect(p) \/ Restart(p)
  \/ \E p \in Process : Miss(p) \/ ReadAuthority(p) \/ Answer(p)

ProjectionSpec == ProjectionInit /\ [][ProjectionNext]_projectionVars

(***************************************************************************)
(* Properties                                                              *)
(***************************************************************************)

\* The two maps say the same: a ride is in the set of its entry's driver and of no other.
IndexesAgree ==
  \A p \in Process, d \in Driver : byDriver[p][d] = {r \in Ride : byRide[p][r] # Absent /\ byRide[p][r].driver = d}

\* Events of r that can still end p's entry.
Coming(p, r) ==
  \/ \E e \in sending : e.ride = r /\ e.status \in Terminal /\ (IF e.from = p THEN ~e.local ELSE TRUE)
  \/ \E i \in DOMAIN inbox[p] : inbox[p][i].ride = r /\ inbox[p][i].status \in Terminal

\* A process routes for a ride that is over only while the event that ends it is on its way,
\* or because an event was lost or overtaken, or a lookup put it there.
StaleNeedsCause ==
  \A p \in Process, r \in Ride :
    byRide[p][r] # Absent /\ status[r] \in Terminal /\ <<p, r>> \notin excuse => Coming(p, r)

\* The index by ride and the index by driver say the same, and an entry of a ride that is over has
\* one of the causes.
ProjectionHolds == ProjectionTypeOK /\ IndexesAgree /\ StaleNeedsCause
=============================================================================
