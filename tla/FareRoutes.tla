----------------------------- MODULE FareRoutes -----------------------------
(* Route metrics for fare estimates and bookings: the fare cache and the shared
   flights of the booking service (ride/app/booking.go) above the route cache of
   the mapping provider (location/adapter/mapbox/mapbox_provider.go). Metrics are
   represented by the time at which the provider computed them. *)
EXTENDS Naturals, FiniteSets

CONSTANTS Caller, Route,
          FareTTL, RouteTTL,  \* _fareRouteCacheTTL, _routeCacheTTL
          Capacity,           \* entries either cache holds
          MaxTime,            \* bound of the clock
          NoEntry

FareConstants ==
  /\ FareTTL \in Nat /\ RouteTTL \in Nat \ {0} /\ Capacity \in Nat \ {0} /\ MaxTime \in Nat
  /\ NoEntry \notin Nat \cup Caller \cup Route \cup [made : Nat, at : Nat]

VARIABLES
  clock,
  fare,     \* fareRouteCache: per route NoEntry or [made, at]
  flights,  \* fareRouteFlights: per route NoEntry or the caller that owns the flight
  routes,   \* routeCache: per route NoEntry or the time the provider answered
  caller,   \* callers: [pc, route, on, result, gone, answer, age]
  came      \* history: per flight, how the provider call ended

fareVars == <<clock, fare, flights, routes, caller, came>>

Time == 0 .. MaxTime
Outcome == [ok : BOOLEAN, made : Time \cup {NoEntry}]

\* The error a flight is created with.
Aborted == [ok |-> FALSE, made |-> NoEntry]

Cached(cache) == {r \in Route : cache[r] # NoEntry}

FareTypeOK ==
  /\ clock \in Time
  /\ fare \in [Route -> [made : Time, at : Time] \cup {NoEntry}] /\ Cardinality(Cached(fare)) <= Capacity
  /\ routes \in [Route -> Time \cup {NoEntry}] /\ Cardinality(Cached(routes)) <= Capacity
  /\ flights \in [Route -> Caller \cup {NoEntry}]
  /\ caller \in [Caller -> [pc : {"idle", "wait", "call", "fetch", "land", "done"}, route : Route \cup {NoEntry},
                            on : Caller \cup {NoEntry}, result : Outcome, gone : BOOLEAN,
                            answer : {"none", "ok", "failed", "panic"}, age : Time]]
  /\ came \in [Caller -> {"none", "ok", "failed", "panic"}]

FareInit ==
  /\ clock = 0 /\ fare = [r \in Route |-> NoEntry] /\ flights = fare /\ routes = fare
  /\ caller = [c \in Caller |-> [pc |-> "idle", route |-> NoEntry, on |-> NoEntry, result |-> Aborted,
                                 gone |-> FALSE, answer |-> "none", age |-> 0]]
  /\ came = [c \in Caller |-> "none"]

\* c returns what a flight or the cache holds.
Answer(c, out) ==
  caller' = [caller EXCEPT ![c].pc = "done", ![c].answer = IF out.ok THEN "ok" ELSE "failed",
                           ![c].age = IF out.made = NoEntry THEN 0 ELSE clock - out.made]

\* At capacity the oldest entry makes room; entries of the same age are chosen between by the
\* order of the map.
Room(cache, at, r) ==
  IF Cardinality(Cached(cache)) < Capacity THEN {cache}
  ELSE {[cache EXCEPT ![old] = NoEntry] :
          old \in {o \in Cached(cache) : \A p \in Cached(cache) : at[o] <= at[p]}}

(***************************************************************************)
(* resolveRouteMetrics                                                     *)
(***************************************************************************)

\* The caller owns a new flight.
Begin(c, r) == flights' = [flights EXCEPT ![r] = c]

\* Under the lock: a live entry answers, an expired one is deleted; then join the flight or own
\* a new one.
Lookup(c, r) ==
  /\ caller[c].pc = "idle"
  /\ IF fare[r] # NoEntry /\ clock - fare[r].at < FareTTL
     THEN /\ Answer(c, [ok |-> TRUE, made |-> fare[r].made])
          /\ UNCHANGED <<fare, flights>>
     ELSE /\ fare' = [fare EXCEPT ![r] = NoEntry]
          /\ IF flights[r] # NoEntry
             THEN /\ caller' = [caller EXCEPT ![c].pc = "wait", ![c].route = r, ![c].on = flights[r]]
                  /\ UNCHANGED flights
             ELSE caller' = [caller EXCEPT ![c].pc = "call", ![c].route = r] /\ Begin(c, r)
  /\ UNCHANGED <<clock, routes, came>>

\* The flight a follower waits for is done.
Follow(c) ==
  /\ caller[c].pc = "wait" /\ caller[caller[c].on].pc = "done"
  /\ Answer(c, caller[caller[c].on].result)
  /\ UNCHANGED <<clock, fare, flights, routes, came>>

\* A follower whose request ended stops waiting.
StopWaiting(c) ==
  /\ caller[c].pc = "wait" /\ caller[c].gone
  /\ Answer(c, Aborted)
  /\ UNCHANGED <<clock, fare, flights, routes, came>>

Fresh(r) == routes[r] # NoEntry /\ clock - routes[r] < RouteTTL

\* RoutingProvider.Route: a cached route, or a request to the provider.
CachedRoute(c) ==
  LET r == caller[c].route
  IN /\ caller[c].pc = "call"
     /\ IF Fresh(r)
        THEN /\ caller' = [caller EXCEPT ![c].pc = "land", ![c].result = [ok |-> TRUE, made |-> routes[r]]]
             /\ came' = [came EXCEPT ![c] = "ok"] /\ UNCHANGED routes
        ELSE /\ caller' = [caller EXCEPT ![c].pc = "fetch"]
             /\ routes' = [routes EXCEPT ![r] = NoEntry] /\ UNCHANGED came
     /\ UNCHANGED <<clock, fare, flights>>

\* The provider answers, and storeRoutes keeps the answer.
Fetched(c) ==
  LET r == caller[c].route
  IN /\ caller[c].pc = "fetch"
     /\ \E cache \in IF routes[r] # NoEntry THEN {routes} ELSE Room(routes, routes, r) :
          routes' = [cache EXCEPT ![r] = clock]
     /\ caller' = [caller EXCEPT ![c].pc = "land", ![c].result = [ok |-> TRUE, made |-> clock]]
     /\ came' = [came EXCEPT ![c] = "ok"]
     /\ UNCHANGED <<clock, fare, flights>>

\* The provider fails, its circuit is open or the ten seconds are over; or the call panics.
FetchFails(c) ==
  /\ caller[c].pc = "fetch"
  /\ \E how \in {"failed", "panic"} : came' = [came EXCEPT ![c] = how]
  /\ caller' = [caller EXCEPT ![c].pc = "land"]
  /\ UNCHANGED <<clock, fare, flights, routes>>

\* A request to the location service for a route of its own; the provider keeps the answer.
LocationRoute(r) ==
  /\ \E cache \in IF routes[r] # NoEntry THEN {routes} ELSE Room(routes, routes, r) :
       routes' = [cache EXCEPT ![r] = clock]
  /\ UNCHANGED <<clock, fare, flights, caller, came>>

\* (mutant: followers get the owner's cancellation)
ResultOfOwner(c) == IF caller[c].gone THEN Aborted ELSE caller[c].result

\* (mutant: after a panic the flight is neither removed nor closed)
LandUnlessPanic(c) ==
  LET r == caller[c].route
  IN /\ caller[c].pc = "land" /\ came[c] # "panic"
     /\ flights' = [flights EXCEPT ![r] = NoEntry]
     /\ caller' = [caller EXCEPT ![c].pc = "done", ![c].answer = IF came[c] = "ok" THEN "ok" ELSE "failed"]
     /\ UNCHANGED <<clock, fare, routes, came>>

\* What the flight holds when it is closed: the provider's result, whatever became of its owner.
Result(c) == caller[c].result

\* The deferred function: the flight is removed, a result is cached, the followers released. The
\* owner answers its own caller, if that still waits.
Land(c) ==
  LET r == caller[c].route
      out == Result(c)
  IN /\ caller[c].pc = "land"
     /\ flights' = [flights EXCEPT ![r] = NoEntry]
     /\ \E cache \in IF out.ok THEN Room(fare, [p \in Cached(fare) |-> fare[p].at], r) ELSE {fare} :
          fare' = IF out.ok THEN [cache EXCEPT ![r] = [made |-> out.made, at |-> clock]] ELSE cache
     /\ caller' = [caller EXCEPT ![c].pc = "done", ![c].result = out,
                           ![c].answer = IF came[c] = "panic" THEN "panic"
                                         ELSE IF out.ok /\ ~caller[c].gone THEN "ok" ELSE "failed",
                           ![c].age = IF out.ok THEN clock - out.made ELSE 0]
     /\ UNCHANGED <<clock, routes, came>>

\* The request of a caller is cancelled.
Leave(c) ==
  /\ caller[c].pc \notin {"idle", "done"} /\ ~caller[c].gone
  /\ caller' = [caller EXCEPT ![c].gone = TRUE]
  /\ UNCHANGED <<clock, fare, flights, routes, came>>

\* Time passes while callers wait for the provider, not while results are handed over: that takes
\* no noticeable part of the caches' seconds.
FareTick ==
  /\ clock < MaxTime
  /\ \A c \in Caller : /\ caller[c].pc \notin {"call", "land"}
                       /\ caller[c].pc = "wait" => caller[caller[c].on].pc # "done"
  /\ clock' = clock + 1
  /\ UNCHANGED <<fare, flights, routes, caller, came>>

FareStep(c) == Follow(c) \/ StopWaiting(c) \/ CachedRoute(c) \/ Fetched(c) \/ FetchFails(c) \/ Land(c)

FareNext ==
  \/ FareTick \/ \E r \in Route : LocationRoute(r)
  \/ \E c \in Caller : FareStep(c) \/ Leave(c) \/ \E r \in Route : Lookup(c, r)

FareSpec == FareInit /\ [][FareNext]_fareVars

\* Goroutines run, and the provider call ends by its timeout.
FairFareSpec == FareSpec /\ \A c \in Caller : WF_fareVars(FareStep(c))

(***************************************************************************)
(* Properties                                                              *)
(***************************************************************************)

\* The estimates of one route that arrive together cost one provider call.
OneFetchPerRoute ==
  \A c, d \in Caller :
    caller[c].pc \in {"call", "fetch"} /\ caller[d].pc \in {"call", "fetch"} /\ caller[c].route = caller[d].route => c = d

\* The two caches are stacked, so metrics can be as old as both lifetimes together, never older.
BoundedAge == \A c \in Caller : caller[c].answer = "ok" => caller[c].age < FareTTL + RouteTTL

\* A caller that stayed gets what the provider said to the flight it shared: the owner's
\* cancellation is not passed on to the followers, and a panic is an error to them, never empty
\* metrics.
SharedResult ==
  \A c \in Caller :
    caller[c].pc = "done" /\ caller[c].on # NoEntry /\ ~caller[c].gone
      => (caller[c].answer = "ok" <=> came[caller[c].on] = "ok")

\* Estimates of one route that arrive together cost one provider call, its result goes to all of
\* them whatever becomes of the owner, and is not older than both caches allow.
RoutesShared == FareTypeOK /\ OneFetchPerRoute /\ SharedResult /\ BoundedAge

\* Every caller is answered, also when the owner of its flight panics or is cancelled.
EveryCallerAnswered == \A c \in Caller : caller[c].pc # "idle" ~> caller[c].pc = "done"
=============================================================================
