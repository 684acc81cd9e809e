---------------------------- MODULE ProcessProofs ----------------------------
(* What one server process keeps to itself.  The circuit breaker, for any number of
   callers, threshold and wait (a half-open breaker has the probe it waits for); the
   route caches and shared flights, for any number of callers and routes, any
   lifetimes and capacity (one provider call per route, shared by all); the process
   from start to exit, for any number of clients (it serves when it can, and its exit
   is explained); one realtime connection (it leaves nothing behind); the limiters of
   requests, codes and chat messages, for any limits and windows. *)
EXTENDS CircuitBreaker, FareRoutes, ServerLifecycle, RealtimeConnection, RateLimits, ChatLimits,
        FiniteSetTheorems, TLAPS

----------------------------------------------------------------------------
(* The circuit breaker *)

\* While no call admitted before the opening has reported after it, a probe on its way is the only
\* one and keeps the breaker half-open, so the next caller is refused.
ProbeAlone ==
  ~stray => /\ \A c, d \in Call : call[c] = "probe" /\ call[d] = "probe" => c = d
            /\ (\E c \in Call : call[c] = "probe") => halfOpen

BreakerInv == TypeOK /\ HalfOpenHasProbe /\ ProbeAlone

\* At most one member, however the set is given, is a cardinality of at most one.
LEMMA AtMostOne ==
  ASSUME NEW S, \A x, y \in S : x = y
  PROVE  Cardinality(S) <= 1
<1>1. CASE S = {}
  BY <1>1, FS_EmptySet
<1>2. CASE S # {}
  <2>1. PICK x \in S : TRUE
    BY <1>2
  <2>2. S = {x}
    BY <2>1
  <2> QED
    BY <2>2, FS_Singleton
<1> QED
  BY <1>1, <1>2

\* A breaker that has not been used is closed and has no probe.
LEMMA BreakerInit == Init => BreakerInv
<1> SUFFICES ASSUME Init PROVE BreakerInv
  OBVIOUS
<1>1. failures \in 0 .. Threshold
  BY BreakerAssumption DEF Init
<1>2. halfOpen \in BOOLEAN /\ stray \in BOOLEAN
  BY Zenon DEF Init
<1>3. HalfOpenHasProbe /\ ProbeAlone
  BY DEF Init, HalfOpenHasProbe, ProbeAlone
<1> QED
  BY <1>1, <1>2, <1>3 DEF Init, BreakerInv, TypeOK

\* Every step keeps the types: the failures are counted up to the threshold, the wait up to its end.
LEMMA BreakerTypes == TypeOK /\ [Next]_vars => TypeOK'
<1> SUFFICES ASSUME TypeOK, [Next]_vars PROVE TypeOK'
  OBVIOUS
<1> USE BreakerAssumption DEF TypeOK
<1>1. ASSUME NEW c \in Call, Do(c) PROVE TypeOK'
  BY <1>1 DEF Do, Allow
<1>2. ASSUME NEW c \in Call, Succeed(c) PROVE TypeOK'
  <2>1. stray' \in BOOLEAN /\ halfOpen' \in BOOLEAN
    BY <1>2, Zenon DEF Succeed, Returns
  <2>2. failures' \in 0 .. Threshold /\ opened' \in (0 .. ResetAfter) \cup {None}
    BY <1>2 DEF Succeed, Returns
  <2> QED
    BY <1>2, <2>1, <2>2 DEF Succeed, Returns
<1>3. ASSUME NEW c \in Call, Fail(c) PROVE TypeOK'
  <2>1. stray' \in BOOLEAN /\ halfOpen' \in BOOLEAN
    BY <1>3, Zenon DEF Fail, Returns, Trip, Opens
  <2>2. failures' \in 0 .. Threshold /\ opened' \in (0 .. ResetAfter) \cup {None}
    BY <1>3 DEF Fail, Returns, Trip, Opens
  <2> QED
    BY <1>3, <2>1, <2>2 DEF Fail, Returns
<1>4. ASSUME NEW c \in Call, Panic(c) PROVE TypeOK'
  <2>1. stray' \in BOOLEAN /\ halfOpen' \in BOOLEAN
    BY <1>4, Zenon DEF Panic, Returns, Trip
  <2>2. failures' \in 0 .. Threshold /\ opened' \in (0 .. ResetAfter) \cup {None}
    BY <1>4 DEF Panic, Returns, Trip
  <2> QED
    BY <1>4, <2>1, <2>2 DEF Panic, Returns
<1>5. ASSUME NEW c \in Call, Cancel(c) PROVE TypeOK'
  BY <1>5 DEF Cancel, Returns, Release
<1>6. CASE Tick
  BY <1>6 DEF Tick
<1>7. CASE UNCHANGED vars
  BY <1>7 DEF vars
<1> QED
  BY <1>1, <1>2, <1>3, <1>4, <1>5, <1>6, <1>7 DEF Next, Reports

\* Whoever reports takes the breaker out of half-open, or the breaker was closed: there was no probe.
LEMMA BreakerStep == BreakerInv /\ [Next]_vars => BreakerInv'
<1> SUFFICES ASSUME BreakerInv, [Next]_vars PROVE HalfOpenHasProbe' /\ ProbeAlone'
  BY BreakerTypes DEF BreakerInv
<1> USE BreakerAssumption DEF BreakerInv, TypeOK, HalfOpenHasProbe, ProbeAlone, Probes
<1>1. ASSUME NEW c \in Call, Do(c) PROVE HalfOpenHasProbe' /\ ProbeAlone'
  BY <1>1 DEF Do, Allow
<1>2. ASSUME NEW c \in Call, Succeed(c) PROVE HalfOpenHasProbe' /\ ProbeAlone'
  BY <1>2 DEF Succeed, Returns
<1>3. ASSUME NEW c \in Call, Fail(c) PROVE HalfOpenHasProbe' /\ ProbeAlone'
  BY <1>3 DEF Fail, Returns, Trip, Opens
<1>4. ASSUME NEW c \in Call, Panic(c) PROVE HalfOpenHasProbe' /\ ProbeAlone'
  BY <1>4 DEF Panic, Returns, Trip
<1>5. ASSUME NEW c \in Call, Cancel(c) PROVE HalfOpenHasProbe' /\ ProbeAlone'
  BY <1>5 DEF Cancel, Returns, Release
<1>6. CASE Tick
  BY <1>6 DEF Tick
<1>7. CASE UNCHANGED vars
  BY <1>7 DEF vars
<1> QED
  BY <1>1, <1>2, <1>3, <1>4, <1>5, <1>6, <1>7 DEF Next, Reports

\* With any number of calls that succeed, fail, panic, are cancelled or report late
\* (circuit_breaker.go), a half-open breaker has a probe on its way, and only one unless a call
\* from before the opening reported after it.
THEOREM ProbeHeldAlways == Spec => []ProbeHeld
<1>1. BreakerInv => ProbeHeld
  <2> SUFFICES ASSUME BreakerInv, ~stray PROVE Cardinality(Probes) <= 1
    BY DEF BreakerInv, ProbeHeld, OneProbeUnlessStray
  <2>1. \A x, y \in Probes : x = y
    BY DEF BreakerInv, ProbeAlone, Probes
  <2> QED
    BY <2>1, AtMostOne
<1> QED
  BY <1>1, BreakerInit, BreakerStep, PTL DEF Spec

----------------------------------------------------------------------------
(* The route caches and flights *)

\* What is kept of a caller.
Estimate == [pc : {"idle", "wait", "call", "fetch", "land", "done"}, route : Route \cup {NoEntry},
             on : Caller \cup {NoEntry}, result : Outcome, gone : BOOLEAN,
             answer : {"none", "ok", "failed", "panic"}, age : Time]

\* Young enough to be handed on.
Recent(out) == out.ok => clock - out.made < RouteTTL

\* A caller that has not answered owns the flight of its route,
OwnsFlight(c) ==
  caller[c].pc \in {"call", "fetch", "land"} =>
    caller[c].route \in Route /\ flights[caller[c].route] = c /\ caller[c].on = NoEntry

\* or waits for one that has an owner; when it is answered and has stayed, the flight is over,
FollowsFlight(c) ==
  /\ caller[c].pc = "idle" => caller[c].on = NoEntry
  /\ caller[c].pc = "wait" => /\ caller[c].on \in Caller
                              /\ caller[caller[c].on].pc \in {"call", "fetch", "land", "done"}
                              /\ caller[caller[c].on].pc = "done" => Recent(caller[caller[c].on].result)
  /\ caller[c].pc = "done" /\ caller[c].on # NoEntry /\ ~caller[c].gone => caller[caller[c].on].pc = "done"

\* has the result of the provider or the error it began with,
HasResult(c) ==
  /\ caller[c].result.ok <=> came[c] = "ok"
  /\ IF caller[c].result.ok THEN caller[c].result.made \in Time /\ caller[c].result.made <= clock
     ELSE caller[c].result = Aborted
  /\ caller[c].pc \notin {"land", "done"} => ~caller[c].result.ok
  /\ caller[c].pc = "land" => Recent(caller[c].result)

\* and has answered with that of its flight, while it was young enough.
AnswersWell(c) ==
  /\ caller[c].pc # "done" => caller[c].answer = "none"
  /\ caller[c].answer = "ok" => caller[c].age < FareTTL + RouteTTL
  /\ caller[c].pc = "done" /\ caller[c].on # NoEntry /\ ~caller[c].gone
       => (caller[c].answer = "ok" <=> came[caller[c].on] = "ok")

CallerKnown(c) == OwnsFlight(c) /\ FollowsFlight(c) /\ HasResult(c) /\ AnswersWell(c)

\* A flight has an owner on its way.
FlightsKnown ==
  \A r \in Route : flights[r] # NoEntry =>
    caller[flights[r]].pc \in {"call", "fetch", "land"} /\ caller[flights[r]].route = r

\* What the caches hold was not made later than now, and was handed on in time.
EntriesKnown ==
  /\ IsFiniteSet(Cached(fare)) /\ IsFiniteSet(Cached(routes))
  /\ \A r \in Route : fare[r] # NoEntry =>
       fare[r].made <= fare[r].at /\ fare[r].at <= clock /\ fare[r].at - fare[r].made < RouteTTL
  /\ \A r \in Route : routes[r] # NoEntry => routes[r] <= clock

\* The inductive invariant of the caches and flights.
FareInv == FareTypeOK /\ EntriesKnown /\ FlightsKnown /\ \A c \in Caller : CallerKnown(c)

\* A cache of entries of S within its capacity.
Holds(cache, S) ==
  cache \in [Route -> S \cup {NoEntry}] /\ IsFiniteSet(Cached(cache)) /\ Cardinality(Cached(cache)) <= Capacity

\* A cache that has made room and takes one entry holds no more than its capacity.
LEMMA RoomTaken ==
  ASSUME FareConstants, NEW S, NEW cache, Holds(cache, S), NEW at, NEW r \in Route, NEW v \in S,
         NEW kept \in Room(cache, at, r), NEW new, new = [kept EXCEPT ![r] = v]
  PROVE  Holds(new, S) /\ \A p \in Route : new[p] \in {cache[p], NoEntry, v}
<1>1. Capacity \in Nat \ {0} /\ Cardinality(Cached(cache)) \in Nat
  BY FS_CardinalityType DEF FareConstants, Holds
<1>2. /\ kept \in [Route -> S \cup {NoEntry}] /\ \A p \in Route : kept[p] \in {cache[p], NoEntry}
      /\ IsFiniteSet(Cached(kept)) /\ Cardinality(Cached(kept)) + 1 <= Capacity
  <2>1. CASE Cardinality(Cached(cache)) < Capacity
    BY <1>1, <2>1 DEF Room, Holds
  <2>2. CASE ~(Cardinality(Cached(cache)) < Capacity)
    <3>1. PICK old \in Cached(cache) : kept = [cache EXCEPT ![old] = NoEntry]
      BY <2>2 DEF Room
    <3>2. Cached(kept) = Cached(cache) \ {old} /\ old \in Route
      BY <3>1 DEF Cached, Holds
    <3>3. IsFiniteSet(Cached(kept)) /\ Cardinality(Cached(kept)) = Cardinality(Cached(cache)) - 1
      BY <3>2, FS_RemoveElement DEF Holds
    <3> QED
      BY <1>1, <3>1, <3>2, <3>3 DEF Holds
  <2> QED
    BY <2>1, <2>2
<1>3. new \in [Route -> S \cup {NoEntry}] /\ new[r] = v /\ \A p \in Route \ {r} : new[p] = kept[p]
  BY <1>2
<1>4. Cached(new) \subseteq Cached(kept) \cup {r}
  BY <1>3 DEF Cached
<1>5. IsFiniteSet(Cached(kept) \cup {r}) /\ Cardinality(Cached(kept) \cup {r}) <= Cardinality(Cached(kept)) + 1
      /\ Cardinality(Cached(kept)) \in Nat /\ Cardinality(Cached(kept) \cup {r}) \in Nat
  <2>1. Cardinality(Cached(kept)) \in Nat
    BY <1>2, FS_CardinalityType
  <2>2. /\ IsFiniteSet(Cached(kept) \cup {r})
        /\ Cardinality(Cached(kept) \cup {r}) = IF r \in Cached(kept) THEN Cardinality(Cached(kept))
                                                ELSE Cardinality(Cached(kept)) + 1
    BY <1>2, FS_AddElement
  <2> QED
    BY <2>1, <2>2
<1>6. IsFiniteSet(Cached(new)) /\ Cardinality(Cached(new)) <= Cardinality(Cached(kept) \cup {r})
      /\ Cardinality(Cached(new)) \in Nat
  BY <1>4, <1>5, FS_Subset, FS_CardinalityType
<1> QED
  BY <1>1, <1>2, <1>3, <1>5, <1>6 DEF Holds

\* A caller moves: what is known of the others stays.
LEMMA OthersStay ==
  ASSUME FareConstants, FareInv, NEW c \in Caller, NEW est \in Estimate, caller' = [caller EXCEPT ![c] = est],
         UNCHANGED clock, caller[c].pc # "done",
         caller[c].pc \in {"call", "fetch", "land"} => est.pc \in {"call", "fetch", "land", "done"},
         est.pc = "done" => Recent(est.result),
         \A d \in Caller \ {c} : came'[d] = came[d],
         \A r \in Route : flights[r] \in Caller \ {c} => flights'[r] = flights[r],
         NEW d \in Caller \ {c}
  PROVE  CallerKnown(d)'
<1>1. caller \in [Caller -> Estimate] /\ caller' \in [Caller -> Estimate] /\ CallerKnown(d)
  BY DEF FareInv, FareTypeOK, Estimate
<1>2. caller'[d] = caller[d] /\ came'[d] = came[d] /\ caller'[c] = est
  BY <1>1
<1>3. NoEntry \notin Caller
  BY DEF FareConstants
<1>4. OwnsFlight(d)'
  BY <1>1, <1>2 DEF CallerKnown, OwnsFlight
<1>5. FollowsFlight(d)'
  <2>1. CASE caller[d].on = c
    BY <1>1, <1>2, <2>1 DEF CallerKnown, FollowsFlight, Recent
  <2>2. CASE caller[d].on \in Caller \ {c}
    <3>1. caller'[caller[d].on] = caller[caller[d].on]
      BY <1>1, <2>2
    <3> QED
      BY <1>1, <1>2, <2>2, <3>1 DEF CallerKnown, FollowsFlight, Recent
  <2>3. CASE caller[d].on = NoEntry
    BY <1>1, <1>2, <1>3, <2>3 DEF CallerKnown, FollowsFlight
  <2> QED
    BY <1>1, <2>1, <2>2, <2>3 DEF Estimate
<1>6. HasResult(d)'
  BY <1>1, <1>2 DEF CallerKnown, HasResult, Recent
<1>7. AnswersWell(d)'
  <2>1. CASE caller[d].on = c
    BY <1>1, <1>2, <2>1 DEF CallerKnown, AnswersWell, FollowsFlight
  <2>2. CASE caller[d].on # c
    BY <1>1, <1>2, <2>2 DEF CallerKnown, AnswersWell, Estimate
  <2> QED
    BY <2>1, <2>2
<1> QED
  BY <1>4, <1>5, <1>6, <1>7 DEF CallerKnown

LEMMA FareStart == FareConstants /\ FareInit => FareInv
<1> SUFFICES ASSUME FareConstants, FareInit PROVE FareInv
  OBVIOUS
<1>1. Cached(fare) = {} /\ Cached(routes) = {} /\ Capacity \in Nat /\ MaxTime \in Nat /\ NoEntry \notin Caller
  BY DEF FareInit, Cached, FareConstants
<1>2. Cardinality({}) = 0 /\ IsFiniteSet({})
  BY FS_EmptySet
<1>3. Aborted \in Outcome /\ ~Aborted.ok /\ Aborted.made = NoEntry
  BY DEF Aborted, Outcome
<1>4. clock \in Time /\ 0 \in Time
  BY <1>1 DEF FareInit, Time
<1>5. /\ \A c \in Caller : caller[c] = [pc |-> "idle", route |-> NoEntry, on |-> NoEntry, result |-> Aborted,
                                        gone |-> FALSE, answer |-> "none", age |-> 0]
      /\ \A c \in Caller : came[c] = "none"
  BY DEF FareInit
<1>6. FareTypeOK
  BY <1>1, <1>2, <1>3, <1>4 DEF FareInit, FareTypeOK
<1>7. EntriesKnown /\ FlightsKnown
  BY <1>1, <1>2 DEF FareInit, EntriesKnown, FlightsKnown
<1>8. ASSUME NEW c \in Caller PROVE CallerKnown(c)
  BY <1>1, <1>3, <1>5 DEF CallerKnown, OwnsFlight, FollowsFlight, HasResult, AnswersWell, Recent
<1> QED
  BY <1>6, <1>7, <1>8 DEF FareInv

\* The provider keeps an answer: of the routes it had, at most one makes room.
LEMMA RouteKept ==
  ASSUME FareConstants, FareInv, NEW r \in Route,
         \E cache \in IF routes[r] # NoEntry THEN {routes} ELSE Room(routes, routes, r) :
           routes' = [cache EXCEPT ![r] = clock]
  PROVE  /\ routes' \in [Route -> Time \cup {NoEntry}] /\ IsFiniteSet(Cached(routes'))
         /\ Cardinality(Cached(routes')) <= Capacity
         /\ \A p \in Route : routes'[p] \in {routes[p], NoEntry, clock}
<1>1. /\ routes \in [Route -> Time \cup {NoEntry}] /\ clock \in Time /\ NoEntry \notin Time
      /\ Cardinality(Cached(routes)) <= Capacity /\ IsFiniteSet(Cached(routes))
  BY DEF FareInv, FareTypeOK, EntriesKnown, FareConstants, Time
<1>2. CASE routes[r] # NoEntry
  <2>1. routes' = [routes EXCEPT ![r] = clock]
    BY <1>2
  <2>2. /\ routes' \in [Route -> Time \cup {NoEntry}] /\ Cached(routes') = Cached(routes)
        /\ \A p \in Route : routes'[p] \in {routes[p], NoEntry, clock}
    BY <1>1, <1>2, <2>1 DEF Cached
  <2> QED
    BY <1>1, <2>2
<1>3. CASE routes[r] = NoEntry
  <2>1. PICK kept \in Room(routes, routes, r) : routes' = [kept EXCEPT ![r] = clock]
    BY <1>3
  <2>2. Holds(routes, Time)
    BY <1>1 DEF Holds
  <2>3. Holds(routes', Time) /\ \A p \in Route : routes'[p] \in {routes[p], NoEntry, clock}
    BY <1>1, <2>1, <2>2, RoomTaken
  <2> QED
    BY <2>3 DEF Holds
<1> QED
  BY <1>2, <1>3

\* Every step keeps what is known of the callers, the flights and the caches.
LEMMA FareStays == FareConstants /\ FareInv /\ [FareNext]_fareVars => FareInv'
<1> SUFFICES ASSUME FareConstants, FareInv, [FareNext]_fareVars PROVE FareInv'
  OBVIOUS
<1>a. /\ caller \in [Caller -> Estimate] /\ clock \in Time /\ flights \in [Route -> Caller \cup {NoEntry}]
      /\ routes \in [Route -> Time \cup {NoEntry}] /\ came \in [Caller -> {"none", "ok", "failed", "panic"}]
      /\ fare \in [Route -> [made : Time, at : Time] \cup {NoEntry}]
      /\ Cardinality(Cached(fare)) <= Capacity /\ Cardinality(Cached(routes)) <= Capacity
      /\ IsFiniteSet(Cached(fare)) /\ IsFiniteSet(Cached(routes))
  BY DEF FareInv, FareTypeOK, Estimate, EntriesKnown
<1>b. \A c \in Caller : OwnsFlight(c) /\ FollowsFlight(c) /\ HasResult(c) /\ AnswersWell(c)
  BY DEF FareInv, CallerKnown
<1>c. /\ NoEntry \notin Caller /\ NoEntry \notin Nat /\ Time \subseteq Nat /\ FareTTL \in Nat /\ RouteTTL \in Nat \ {0}
      /\ MaxTime \in Nat /\ \A t \in Time : 0 <= t /\ t <= MaxTime
  BY DEF FareConstants, Time
<1>d. \A now, made \in Time : made <= now => now - made \in Time
  BY <1>c DEF Time
<1>e. 0 \in Time /\ Aborted \in Outcome /\ ~Aborted.ok /\ Aborted.made = NoEntry
  BY <1>c DEF Time, Aborted, Outcome
<1>f. \A c \in Caller : caller[c] \in Estimate
  BY <1>a
<1>2. ASSUME NEW c \in Caller, NEW est \in Estimate, caller' = [caller EXCEPT ![c] = est],
             UNCHANGED <<clock, fare, flights, routes, came>>,
             caller[c].pc \in {"idle", "wait", "call", "fetch", "land"}, est.pc # "idle",
             caller[c].pc \in {"call", "fetch", "land"} => est.pc \in {"call", "fetch", "land"} /\ est.route = caller[c].route,
             CallerKnown(c)', est.pc = "done" => ~est.result.ok
      PROVE  FareInv'
  <2>1. \A d \in Caller \ {c} : CallerKnown(d)'
    BY <1>2, <1>a, OthersStay DEF Recent
  <2>2. FareTypeOK'
    BY <1>2, <1>a DEF FareTypeOK, Estimate
  <2>3. FlightsKnown'
    BY <1>2, <1>a, <1>c DEF FareInv, FlightsKnown
  <2>4. EntriesKnown'
    BY <1>2 DEF FareInv, EntriesKnown, Cached
  <2> QED
    BY <1>2, <2>1, <2>2, <2>3, <2>4 DEF FareInv
<1>3. ASSUME NEW c \in Caller, NEW out \in Outcome, Answer(c, out), caller[c].pc = "wait",
             UNCHANGED <<clock, fare, flights, routes, came>>,
             IF out.ok THEN out.made \in Time /\ out.made <= clock ELSE out = Aborted,
             Recent(out),
             ~caller[c].gone => /\ caller[caller[c].on].pc = "done"
                                /\ out.ok <=> came[caller[c].on] = "ok"
      PROVE  FareInv'
  <2>0. PICK age \in Time : age = (IF out.made = NoEntry THEN 0 ELSE clock - out.made)
    BY <1>3, <1>a, <1>c, <1>d, <1>e
  <2>1. PICK said \in {"ok", "failed"} :
          said = (IF out.ok THEN "ok" ELSE "failed") /\ (said = "ok" => age < RouteTTL)
    BY <1>3, <1>a, <1>c, <2>0 DEF Recent
  <2> DEFINE est == [caller[c] EXCEPT !.pc = "done", !.answer = said, !.age = age]
  <2>2. /\ est \in Estimate /\ est.pc = "done" /\ est.answer = said /\ est.age = age /\ est.on = caller[c].on
        /\ est.gone = caller[c].gone /\ est.result = caller[c].result
    <3>1. est \in Estimate
      BY <1>f DEF Estimate
    <3> QED
      BY <1>f, <3>1 DEF Estimate
  <2>3. caller' = [caller EXCEPT ![c] = est]
    BY <1>3, <1>a, <2>0, <2>1 DEF Answer, Estimate
  <2>4. caller'[c] = est /\ \A d \in Caller \ {c} : caller'[d] = caller[d]
    BY <1>a, <2>3
  <2>5. CallerKnown(c)'
    <3>1. OwnsFlight(c)' /\ HasResult(c)'
      BY <1>3, <1>b, <2>2, <2>4 DEF OwnsFlight, HasResult
    <3>2. FollowsFlight(c)' /\ AnswersWell(c)'
      BY <1>3, <1>a, <1>b, <1>c, <2>1, <2>2, <2>4 DEF FollowsFlight, AnswersWell
    <3> QED
      BY <3>1, <3>2 DEF CallerKnown
  <2>6. ~est.result.ok
    BY <1>3, <1>b, <2>2 DEF HasResult
  <2> QED
    BY <1>2, <1>3, <2>2, <2>3, <2>5, <2>6
<1>4. ASSUME NEW c \in Caller, Follow(c) PROVE FareInv'
  <2>1. caller[c].pc = "wait" /\ caller[caller[c].on].pc = "done" /\ Answer(c, caller[caller[c].on].result)
        /\ UNCHANGED <<clock, fare, flights, routes, came>>
    BY <1>4 DEF Follow
  <2>2. caller[c].on \in Caller /\ Recent(caller[caller[c].on].result) /\ HasResult(caller[c].on)
    BY <1>b, <2>1 DEF FollowsFlight
  <2>3. caller[caller[c].on].result \in Outcome
    BY <1>f, <2>2 DEF Estimate
  <2> QED
    BY <1>3, <2>1, <2>2, <2>3 DEF HasResult
<1>5. ASSUME NEW c \in Caller, StopWaiting(c) PROVE FareInv'
  BY <1>3, <1>5, <1>e DEF StopWaiting, Recent
<1>6. ASSUME NEW c \in Caller, Leave(c) PROVE FareInv'
  <2> DEFINE est == [caller[c] EXCEPT !.gone = TRUE]
  <2>1. /\ caller[c].pc \notin {"idle", "done"} /\ UNCHANGED <<clock, fare, flights, routes, came>>
        /\ caller' = [caller EXCEPT ![c] = est]
    BY <1>6, <1>a DEF Leave, Estimate
  <2>2. /\ est \in Estimate /\ est.pc = caller[c].pc /\ est.on = caller[c].on /\ est.route = caller[c].route
        /\ est.result = caller[c].result /\ est.answer = caller[c].answer /\ est.age = caller[c].age
    BY <1>f DEF Estimate
  <2>3. caller'[c] = est /\ (\A d \in Caller \ {c} : caller'[d] = caller[d])
    BY <1>a, <2>1
  <2>4. OwnsFlight(c)' /\ HasResult(c)' /\ AnswersWell(c)'
    BY <1>b, <2>1, <2>2, <2>3 DEF OwnsFlight, HasResult, AnswersWell, Recent
  <2>5. FollowsFlight(c)'
    <3>1. CASE caller[c].pc = "wait"
      <4>1. caller[c].on \in Caller \ {c}
        BY <1>b, <3>1 DEF FollowsFlight
      <4>2. caller'[caller[c].on] = caller[caller[c].on]
        BY <2>3, <4>1
      <4> QED
        BY <1>b, <2>1, <2>2, <2>3, <3>1, <4>1, <4>2 DEF FollowsFlight, Recent
    <3>2. CASE caller[c].pc # "wait"
      BY <2>1, <2>2, <2>3, <3>2 DEF FollowsFlight
    <3> QED
      BY <3>1, <3>2
  <2>6. caller[c].pc \in {"idle", "wait", "call", "fetch", "land"}
    BY <1>f, <2>1 DEF Estimate
  <2> QED
    BY <1>2, <2>1, <2>2, <2>4, <2>5, <2>6 DEF CallerKnown
<1>7. ASSUME NEW c \in Caller, NEW est \in Estimate, caller' = [caller EXCEPT ![c] = est],
             UNCHANGED <<clock, fare, flights>>, caller[c].pc \in {"call", "fetch"},
             est.pc \in {"fetch", "land"}, est.route = caller[c].route, est.on = NoEntry,
             est.answer = caller[c].answer,
             came' \in [Caller -> {"none", "ok", "failed", "panic"}], \A d \in Caller \ {c} : came'[d] = came[d],
             HasResult(c)', (FareTypeOK /\ EntriesKnown)'
      PROVE  FareInv'
  <2>1. \A d \in Caller \ {c} : CallerKnown(d)'
    BY <1>7, <1>a, OthersStay
  <2>2. caller'[c] = est /\ (\A d \in Caller \ {c} : caller'[d] = caller[d])
    BY <1>7, <1>a
  <2>3. OwnsFlight(c)'
    BY <1>7, <1>b, <2>2 DEF OwnsFlight
  <2>4. FollowsFlight(c)'
    BY <1>7, <2>2 DEF FollowsFlight
  <2>5. AnswersWell(c)'
    BY <1>7, <1>b, <2>2 DEF AnswersWell
  <2>6. FlightsKnown'
    BY <1>7, <1>a, <1>c, <2>2 DEF FareInv, FlightsKnown
  <2> QED
    BY <1>7, <2>1, <2>3, <2>4, <2>5, <2>6 DEF FareInv, CallerKnown
<1>8. ASSUME NEW c \in Caller, CachedRoute(c) PROVE FareInv'
  <2> DEFINE r == caller[c].route
             found == [ok |-> TRUE, made |-> routes[r]]
  <2>1. /\ caller[c].pc = "call" /\ r \in Route /\ caller[c].on = NoEntry /\ ~caller[c].result.ok
        /\ came[c] # "ok" /\ caller[c].result = Aborted /\ UNCHANGED <<clock, fare, flights>>
    BY <1>8, <1>b DEF CachedRoute, OwnsFlight, HasResult
  <2>2. CASE Fresh(r)
    <3> DEFINE est == [caller[c] EXCEPT !.pc = "land", !.result = found]
    <3>1. routes[r] \in Time /\ routes[r] <= clock /\ clock - routes[r] < RouteTTL /\ found \in Outcome
      BY <1>a, <2>1, <2>2 DEF Fresh, FareInv, EntriesKnown, Outcome
    <3>2. /\ caller' = [caller EXCEPT ![c] = est] /\ came' = [came EXCEPT ![c] = "ok"] /\ UNCHANGED routes
      BY <1>8, <1>a, <2>2 DEF CachedRoute, Estimate
    <3>3. /\ est \in Estimate /\ est.pc = "land" /\ est.on = caller[c].on /\ est.route = r /\ est.result = found
          /\ est.answer = caller[c].answer
      BY <1>f, <3>1 DEF Estimate
    <3>4. caller'[c] = est /\ caller' \in [Caller -> Estimate] /\ came'[c] = "ok"
          /\ came' \in [Caller -> {"none", "ok", "failed", "panic"}] /\ \A d \in Caller \ {c} : came'[d] = came[d]
      BY <1>a, <3>2, <3>3
    <3>5. HasResult(c)'
      BY <2>1, <3>1, <3>3, <3>4 DEF HasResult, Recent
    <3>6. (FareTypeOK /\ EntriesKnown)'
      BY <1>a, <2>1, <3>2, <3>4 DEF FareInv, FareTypeOK, EntriesKnown, Cached, Estimate
    <3> QED
      BY <1>7, <2>1, <3>2, <3>3, <3>4, <3>5, <3>6
  <2>3. CASE ~Fresh(r)
    <3> DEFINE est == [caller[c] EXCEPT !.pc = "fetch"]
    <3>2. /\ caller' = [caller EXCEPT ![c] = est] /\ routes' = [routes EXCEPT ![r] = NoEntry] /\ UNCHANGED came
      BY <1>8, <1>a, <2>3 DEF CachedRoute, Estimate
    <3>3. /\ est \in Estimate /\ est.pc = "fetch" /\ est.on = caller[c].on /\ est.route = r
          /\ est.result = caller[c].result /\ est.answer = caller[c].answer
      BY <1>f DEF Estimate
    <3>4. caller'[c] = est /\ caller' \in [Caller -> Estimate]
      BY <1>a, <3>2, <3>3
    <3>5. HasResult(c)'
      BY <1>b, <2>1, <3>2, <3>3, <3>4 DEF HasResult
    <3>6. /\ routes' \in [Route -> Time \cup {NoEntry}] /\ Cached(routes') \subseteq Cached(routes)
          /\ \A p \in Route : routes'[p] # NoEntry => routes'[p] = routes[p]
      BY <1>a, <2>1, <3>2 DEF Cached
    <3>7. /\ IsFiniteSet(Cached(routes')) /\ Cardinality(Cached(routes')) <= Cardinality(Cached(routes))
          /\ Cardinality(Cached(routes')) \in Nat /\ Cardinality(Cached(routes)) \in Nat
      BY <1>a, <3>6, FS_Subset, FS_CardinalityType
    <3>8. FareTypeOK'
      BY <1>a, <2>1, <3>2, <3>4, <3>6, <3>7 DEF FareTypeOK, Estimate, FareConstants
    <3>9. EntriesKnown'
      BY <1>a, <2>1, <3>6, <3>7 DEF FareInv, EntriesKnown
    <3> QED
      BY <1>7, <1>a, <2>1, <3>2, <3>3, <3>4, <3>5, <3>8, <3>9
  <2> QED
    BY <2>2, <2>3
<1>9. ASSUME NEW c \in Caller, Fetched(c) PROVE FareInv'
  <2> DEFINE r == caller[c].route
             got == [ok |-> TRUE, made |-> clock]
             est == [caller[c] EXCEPT !.pc = "land", !.result = got]
  <2>1. /\ caller[c].pc = "fetch" /\ r \in Route /\ caller[c].on = NoEntry /\ UNCHANGED <<clock, fare, flights>>
        /\ got \in Outcome
    BY <1>9, <1>a, <1>b DEF Fetched, OwnsFlight, Outcome
  <2>2. caller' = [caller EXCEPT ![c] = est] /\ came' = [came EXCEPT ![c] = "ok"]
    BY <1>9, <1>a DEF Fetched, Estimate
  <2>3. /\ est \in Estimate /\ est.pc = "land" /\ est.on = caller[c].on /\ est.route = r /\ est.result = got
        /\ est.answer = caller[c].answer
    BY <1>f, <2>1 DEF Estimate
  <2>4. caller'[c] = est /\ caller' \in [Caller -> Estimate] /\ came'[c] = "ok"
        /\ came' \in [Caller -> {"none", "ok", "failed", "panic"}] /\ \A d \in Caller \ {c} : came'[d] = came[d]
    BY <1>a, <2>2, <2>3
  <2>5. HasResult(c)'
    BY <1>a, <1>c, <2>1, <2>3, <2>4 DEF HasResult, Recent
  <2>6. /\ routes' \in [Route -> Time \cup {NoEntry}] /\ IsFiniteSet(Cached(routes'))
        /\ Cardinality(Cached(routes')) <= Capacity
        /\ \A p \in Route : routes'[p] \in {routes[p], NoEntry, clock}
    BY <1>9, <2>1, RouteKept DEF Fetched
  <2>7. FareTypeOK'
    BY <1>a, <2>1, <2>4, <2>6 DEF FareTypeOK, Estimate
  <2>8. EntriesKnown'
    BY <1>a, <1>c, <2>1, <2>6 DEF FareInv, EntriesKnown
  <2> QED
    BY <1>7, <2>1, <2>2, <2>3, <2>4, <2>5, <2>7, <2>8
<1>10. ASSUME NEW c \in Caller, FetchFails(c) PROVE FareInv'
  <2> DEFINE est == [caller[c] EXCEPT !.pc = "land"]
  <2>1. /\ caller[c].pc = "fetch" /\ caller[c].on = NoEntry /\ UNCHANGED <<clock, fare, flights, routes>>
        /\ caller' = [caller EXCEPT ![c] = est] /\ ~caller[c].result.ok
    BY <1>10, <1>a, <1>b DEF FetchFails, OwnsFlight, HasResult, Estimate
  <2>2. PICK how \in {"failed", "panic"} : came' = [came EXCEPT ![c] = how]
    BY <1>10 DEF FetchFails
  <2>3. /\ est \in Estimate /\ est.pc = "land" /\ est.on = caller[c].on /\ est.route = caller[c].route
        /\ est.result = caller[c].result /\ est.answer = caller[c].answer
    BY <1>f DEF Estimate
  <2>4. caller'[c] = est /\ caller' \in [Caller -> Estimate] /\ came'[c] = how
        /\ came' \in [Caller -> {"none", "ok", "failed", "panic"}] /\ \A d \in Caller \ {c} : came'[d] = came[d]
    BY <1>a, <2>1, <2>2, <2>3
  <2>5. HasResult(c)'
    BY <1>b, <2>1, <2>2, <2>3, <2>4 DEF HasResult, Recent
  <2>6. (FareTypeOK /\ EntriesKnown)'
    BY <1>a, <2>1, <2>4 DEF FareInv, FareTypeOK, EntriesKnown, Cached, Estimate
  <2> QED
    BY <1>7, <2>1, <2>3, <2>4, <2>5, <2>6
<1>11. ASSUME NEW c \in Caller, Land(c) PROVE FareInv'
  <2> DEFINE r == caller[c].route
             out == caller[c].result
  <2>1. /\ caller[c].pc = "land" /\ r \in Route /\ flights[r] = c /\ caller[c].on = NoEntry
        /\ UNCHANGED <<clock, routes, came>> /\ flights' = [flights EXCEPT ![r] = NoEntry]
        /\ out \in Outcome /\ Recent(out) /\ (out.ok => out.made \in Time /\ out.made <= clock)
        /\ (out.ok <=> came[c] = "ok")
    BY <1>11, <1>a, <1>b DEF Land, OwnsFlight, HasResult, Estimate
  <2>2. PICK age \in Time : age = (IF out.ok THEN clock - out.made ELSE 0) /\ age < RouteTTL
    <3>1. CASE out.ok
      BY <1>a, <1>d, <2>1, <3>1 DEF Recent
    <3>2. CASE ~out.ok
      BY <1>c, <1>e, <3>2
    <3> QED
      BY <3>1, <3>2
  <2>3. PICK said \in {"ok", "failed", "panic"} :
          said = (IF came[c] = "panic" THEN "panic" ELSE IF out.ok /\ ~caller[c].gone THEN "ok" ELSE "failed")
    OBVIOUS
  <2> DEFINE est == [caller[c] EXCEPT !.pc = "done", !.answer = said, !.age = age]
  <2>4. caller' = [caller EXCEPT ![c] = est]
    <3>1. caller' = [caller EXCEPT ![c].pc = "done", ![c].result = caller[c].result, ![c].answer = said, ![c].age = age]
      BY <1>11, <2>2, <2>3 DEF Land, Result
    <3>2. [[[caller[c] EXCEPT !.pc = "done"] EXCEPT !.result = caller[c].result] EXCEPT !.answer = said, !.age = age] = est
      BY <1>f DEF Estimate
    <3> QED
      BY <1>a, <3>1, <3>2 DEF Estimate
  <2>a. est \in Estimate
    BY <1>f DEF Estimate
  <2>5. /\ est \in Estimate /\ est.pc = "done" /\ est.on = NoEntry /\ est.route = r /\ est.result = out
        /\ est.answer = said /\ est.age = age
    BY <1>f, <2>1, <2>a DEF Estimate
  <2>6. caller'[c] = est /\ caller' \in [Caller -> Estimate] /\ \A d \in Caller \ {c} : caller'[d] = caller[d]
    BY <1>a, <2>4, <2>5
  <2>7. /\ flights' \in [Route -> Caller \cup {NoEntry}] /\ flights'[r] = NoEntry
        /\ \A p \in Route \ {r} : flights'[p] = flights[p]
    BY <1>a, <2>1
  <2>8. \A d \in Caller \ {c} : CallerKnown(d)'
    BY <1>a, <2>1, <2>4, <2>5, <2>7, OthersStay
  <2>9. CallerKnown(c)'
    <3>1. OwnsFlight(c)' /\ FollowsFlight(c)'
      BY <2>5, <2>6 DEF OwnsFlight, FollowsFlight
    <3>2. HasResult(c)'
      BY <1>b, <2>1, <2>5, <2>6 DEF HasResult
    <3>3. AnswersWell(c)'
      BY <1>c, <2>2, <2>5, <2>6 DEF AnswersWell, Time
    <3> QED
      BY <3>1, <3>2, <3>3 DEF CallerKnown
  <2>10. FlightsKnown'
    <3>1. \A p \in Route \ {r} : flights[p] # NoEntry => caller[flights[p]].route = p
      BY DEF FareInv, FlightsKnown
    <3> QED
      BY <1>a, <2>1, <2>6, <2>7, <3>1 DEF FareInv, FlightsKnown
  <2>11. /\ fare' \in [Route -> [made : Time, at : Time] \cup {NoEntry}] /\ IsFiniteSet(Cached(fare'))
         /\ Cardinality(Cached(fare')) <= Capacity
         /\ \A p \in Route : \/ fare'[p] \in {fare[p], NoEntry}
                             \/ out.ok /\ fare'[p] = [made |-> out.made, at |-> clock]
    <3>1. CASE out.ok
      <4>0. PICK entry \in [made : Time, at : Time] : entry = [made |-> out.made, at |-> clock]
        BY <1>a, <2>1, <3>1
      <4>1. PICK kept \in Room(fare, [p \in Cached(fare) |-> fare[p].at], r) : fare' = [kept EXCEPT ![r] = entry]
        BY <1>11, <3>1, <4>0 DEF Land, Result
      <4>3. Holds(fare, [made : Time, at : Time])
        BY <1>a DEF Holds
      <4>4. r \in Route
        BY <2>1
      <4>5. Holds(fare', [made : Time, at : Time])
        BY <4>1, <4>3, <4>4, RoomTaken
      <4>6. \A p \in Route : fare'[p] \in {fare[p], NoEntry, entry}
        BY <4>1, <4>3, <4>4, RoomTaken
      <4> QED
        BY <3>1, <4>0, <4>5, <4>6 DEF Holds
    <3>2. CASE ~out.ok
      <4>1. fare' = fare
        BY <1>11, <3>2 DEF Land, Result
      <4> QED
        BY <1>a, <4>1
    <3> QED
      BY <3>1, <3>2
  <2>12. FareTypeOK'
    BY <1>a, <2>1, <2>6, <2>7, <2>11 DEF FareTypeOK, Estimate
  <2>13. EntriesKnown'
    <3>1. IsFiniteSet(Cached(fare')) /\ IsFiniteSet(Cached(routes'))
      BY <1>a, <2>1, <2>11
    <3>2. ASSUME NEW p \in Route, fare'[p] # NoEntry
          PROVE  fare'[p].made <= fare'[p].at /\ fare'[p].at <= clock' /\ fare'[p].at - fare'[p].made < RouteTTL
      <4>1. CASE fare'[p] = fare[p]
        BY <2>1, <3>2, <4>1 DEF FareInv, EntriesKnown
      <4>2. CASE out.ok /\ fare'[p] = [made |-> out.made, at |-> clock]
        BY <1>a, <1>c, <2>1, <4>2 DEF Recent
      <4> QED
        BY <2>11, <3>2, <4>1, <4>2
    <3> QED
      BY <2>1, <3>1, <3>2 DEF FareInv, EntriesKnown
  <2> QED
    BY <2>8, <2>9, <2>10, <2>12, <2>13 DEF FareInv
<1>12. ASSUME NEW c \in Caller, NEW r \in Route, Lookup(c, r) PROVE FareInv'
  <2>1. /\ caller[c].pc = "idle" /\ caller[c].on = NoEntry /\ UNCHANGED <<clock, routes, came>>
        /\ ~caller[c].result.ok /\ caller[c].answer = "none"
    BY <1>12, <1>b DEF Lookup, FollowsFlight, HasResult, AnswersWell
  <2>2. CASE fare[r] # NoEntry /\ clock - fare[r].at < FareTTL
    <3> DEFINE age == clock - fare[r].made
               est == [caller[c] EXCEPT !.pc = "done", !.answer = "ok", !.age = age]
    <3>1. /\ fare[r] \in [made : Time, at : Time] /\ fare[r].made <= fare[r].at /\ fare[r].at <= clock
          /\ fare[r].at - fare[r].made < RouteTTL
      BY <1>a, <2>2 DEF FareInv, EntriesKnown
    <3>2. age \in Time /\ age < FareTTL + RouteTTL
      <4>0. clock \in Nat /\ fare[r].made \in Nat /\ fare[r].at \in Nat
        <5>1. clock \in Nat
          BY <1>a, <1>c
        <5> QED
          BY <1>c, <3>1, <5>1
      <4>1. clock \in Nat /\ fare[r].made \in Nat /\ fare[r].at \in Nat /\ fare[r].made <= clock
        BY <3>1, <4>0
      <4>2. age \in Time
        BY <1>a, <1>d, <3>1, <4>1
      <4>3. age < FareTTL + RouteTTL
        BY <1>c, <2>2, <3>1, <4>1
      <4> QED
        BY <4>2, <4>3
    <3>3. Answer(c, [ok |-> TRUE, made |-> fare[r].made]) /\ UNCHANGED <<fare, flights>>
      BY <1>12, <2>2 DEF Lookup
    <3>4. caller' = [caller EXCEPT ![c] = est]
      BY <1>a, <1>c, <3>1, <3>3 DEF Answer, Estimate
    <3>5. /\ est \in Estimate /\ est.pc = "done" /\ est.on = NoEntry /\ est.result = caller[c].result
          /\ est.answer = "ok" /\ est.age = age
      BY <1>f, <2>1, <3>2 DEF Estimate
    <3>6. caller'[c] = est
      BY <1>a, <3>4
    <3>7. OwnsFlight(c)' /\ FollowsFlight(c)' /\ AnswersWell(c)'
      BY <3>2, <3>5, <3>6 DEF OwnsFlight, FollowsFlight, AnswersWell
    <3>8. HasResult(c)'
      BY <1>b, <2>1, <3>5, <3>6 DEF HasResult
    <3> QED
      BY <1>2, <2>1, <3>3, <3>4, <3>5, <3>7, <3>8 DEF CallerKnown
  <2>3. CASE ~(fare[r] # NoEntry /\ clock - fare[r].at < FareTTL)
    <3>1. fare' = [fare EXCEPT ![r] = NoEntry]
      BY <1>12, <2>3 DEF Lookup
    <3>2. /\ fare' \in [Route -> [made : Time, at : Time] \cup {NoEntry}] /\ Cached(fare') \subseteq Cached(fare)
          /\ \A p \in Route : fare'[p] # NoEntry => fare'[p] = fare[p]
      BY <1>a, <3>1 DEF Cached
    <3>3. IsFiniteSet(Cached(fare')) /\ Cardinality(Cached(fare')) <= Capacity
      <4>1. /\ IsFiniteSet(Cached(fare')) /\ Cardinality(Cached(fare')) <= Cardinality(Cached(fare))
            /\ Cardinality(Cached(fare')) \in Nat /\ Cardinality(Cached(fare)) \in Nat
        BY <1>a, <3>2, FS_Subset, FS_CardinalityType
      <4> QED
        BY <1>a, <4>1 DEF FareConstants
    <3>4. EntriesKnown'
      BY <1>a, <2>1, <3>2, <3>3 DEF FareInv, EntriesKnown
    <3>5. PICK est \in Estimate :
            /\ caller' = [caller EXCEPT ![c] = est]
            /\ est.result = caller[c].result /\ est.answer = "none"
            /\ \/ /\ est.pc = "wait" /\ est.on = flights[r] /\ est.on # NoEntry /\ flights' = flights
               \/ /\ est.pc = "call" /\ est.on = NoEntry /\ est.route = r
                  /\ flights[r] = NoEntry /\ flights' = [flights EXCEPT ![r] = c]
      <4>1. CASE flights[r] # NoEntry
        <5> DEFINE est == [caller[c] EXCEPT !.pc = "wait", !.route = r, !.on = flights[r]]
        <5>1. caller' = [caller EXCEPT ![c] = est] /\ flights' = flights
          BY <1>12, <1>a, <2>3, <4>1 DEF Lookup, Estimate
        <5>0. flights[r] \in Caller
          BY <1>a, <4>1
        <5>2. est \in Estimate /\ est.result = caller[c].result /\ est.answer = "none" /\ est.pc = "wait"
              /\ est.on = flights[r]
          BY <1>f, <2>1, <5>0 DEF Estimate
        <5> QED
          BY <4>1, <5>1, <5>2
      <4>2. CASE flights[r] = NoEntry
        <5> DEFINE est == [caller[c] EXCEPT !.pc = "call", !.route = r]
        <5>1. caller' = [caller EXCEPT ![c] = est] /\ flights' = [flights EXCEPT ![r] = c]
          BY <1>12, <1>a, <2>3, <4>2 DEF Lookup, Begin, Estimate
        <5>2. est \in Estimate /\ est.result = caller[c].result /\ est.answer = "none" /\ est.pc = "call"
              /\ est.on = NoEntry /\ est.route = r
          BY <1>f, <2>1 DEF Estimate
        <5> QED
          BY <4>2, <5>1, <5>2
      <4> QED
        BY <4>1, <4>2
    <3>6. caller'[c] = est /\ caller' \in [Caller -> Estimate] /\ \A d \in Caller \ {c} : caller'[d] = caller[d]
      BY <1>a, <3>5
    <3>7. /\ flights' \in [Route -> Caller \cup {NoEntry}]
          /\ \A p \in Route : flights[p] # NoEntry => flights'[p] = flights[p]
          /\ \A p \in Route : flights'[p] # flights[p] => p = r /\ flights'[p] = c /\ est.pc = "call"
      BY <1>a, <3>5
    <3>8. \A d \in Caller \ {c} : CallerKnown(d)'
      BY <1>a, <1>c, <2>1, <3>5, <3>7, OthersStay
    <3>9. OwnsFlight(c)' /\ HasResult(c)' /\ AnswersWell(c)'
      BY <1>a, <1>b, <2>1, <3>5, <3>6 DEF OwnsFlight, HasResult, AnswersWell
    <3>10. FollowsFlight(c)'
      <4>1. CASE est.pc = "wait"
        <5>1. est.on \in Caller /\ caller[est.on].pc \in {"call", "fetch", "land"} /\ est.on # c
          BY <1>a, <2>1, <3>5, <4>1 DEF FareInv, FlightsKnown
        <5> QED
          BY <3>5, <3>6, <4>1, <5>1 DEF FollowsFlight
      <4>2. CASE est.pc = "call"
        BY <3>6, <4>2 DEF FollowsFlight
      <4> QED
        BY <3>5, <4>1, <4>2
    <3>11. FlightsKnown'
      BY <1>a, <1>c, <2>1, <3>5, <3>6, <3>7 DEF FareInv, FlightsKnown
    <3>12. FareTypeOK'
      BY <1>a, <2>1, <3>2, <3>3, <3>6, <3>7 DEF FareTypeOK, Estimate
    <3> QED
      BY <3>4, <3>8, <3>9, <3>10, <3>11, <3>12 DEF FareInv, CallerKnown
  <2> QED
    BY <2>2, <2>3
<1>13. CASE FareTick
  <2>1. /\ clock < MaxTime /\ clock' = clock + 1 /\ UNCHANGED <<fare, flights, routes, caller, came>>
        /\ \A c \in Caller : caller[c].pc \notin {"call", "land"} /\ (caller[c].pc = "wait" => caller[caller[c].on].pc # "done")
    BY <1>13 DEF FareTick
  <2>2. clock' \in Time /\ clock <= clock'
    BY <1>a, <1>c, <2>1 DEF Time
  <2>3. FareTypeOK'
    BY <1>a, <2>1, <2>2 DEF FareTypeOK, Estimate
  <2>4. EntriesKnown'
    <3>1. \A p \in Route : /\ fare[p] # NoEntry => fare[p].at \in Nat
                           /\ routes[p] # NoEntry => routes[p] \in Nat
      BY <1>a, <1>c
    <3>2. clock \in Nat /\ clock' \in Nat
      BY <1>a, <1>c, <2>2
    <3>3. \A p \in Route :
            /\ fare[p] # NoEntry => fare[p].at <= clock'
            /\ routes[p] # NoEntry => routes[p] <= clock'
      <4>a. \A now, n \in Nat : n <= now => n <= now + 1
        OBVIOUS
      <4>1. \A p \in Route : /\ fare[p] # NoEntry => fare[p].at <= clock + 1
                             /\ routes[p] # NoEntry => routes[p] <= clock + 1
        BY <3>1, <3>2, <4>a DEF FareInv, EntriesKnown
      <4>2. clock' = clock + 1 /\ fare' = fare /\ routes' = routes
        BY <2>1
      <4> QED
        BY <4>1, <4>2
    <3> QED
      BY <2>1, <3>3 DEF FareInv, EntriesKnown, Cached
  <2>5. FlightsKnown'
    BY <2>1 DEF FareInv, FlightsKnown
  <2>6. ASSUME NEW c \in Caller PROVE CallerKnown(c)'
    <3>1. OwnsFlight(c)' /\ FollowsFlight(c)' /\ AnswersWell(c)'
      BY <1>b, <2>1 DEF OwnsFlight, FollowsFlight, AnswersWell
    <3>2. HasResult(c)'
      BY <1>a, <1>b, <1>c, <2>1, <2>2 DEF HasResult
    <3> QED
      BY <3>1, <3>2 DEF CallerKnown
  <2> QED
    BY <2>3, <2>4, <2>5, <2>6 DEF FareInv
<1>14. CASE UNCHANGED fareVars
  <2>1. FareTypeOK' /\ EntriesKnown' /\ FlightsKnown'
    BY <1>14 DEF fareVars, FareInv, FareTypeOK, EntriesKnown, FlightsKnown, Cached
  <2>2. \A c \in Caller : CallerKnown(c)'
    BY <1>14 DEF fareVars, FareInv, CallerKnown, OwnsFlight, FollowsFlight, HasResult, AnswersWell, Recent
  <2> QED
    BY <2>1, <2>2 DEF FareInv
<1>15. ASSUME NEW r \in Route, LocationRoute(r) PROVE FareInv'
  <2>1. UNCHANGED <<clock, fare, flights, caller, came>>
    BY <1>15 DEF LocationRoute
  <2>2. /\ routes' \in [Route -> Time \cup {NoEntry}] /\ IsFiniteSet(Cached(routes'))
        /\ Cardinality(Cached(routes')) <= Capacity
        /\ \A p \in Route : routes'[p] \in {routes[p], NoEntry, clock}
    BY <1>15, RouteKept DEF LocationRoute
  <2>3. FareTypeOK'
    BY <1>a, <2>1, <2>2 DEF FareInv, FareTypeOK, Cached
  <2>4. EntriesKnown'
    BY <1>a, <1>c, <2>1, <2>2 DEF FareInv, EntriesKnown, Cached
  <2>5. FlightsKnown' /\ \A c \in Caller : CallerKnown(c)'
    BY <1>b, <2>1 DEF FareInv, FlightsKnown, CallerKnown, OwnsFlight, FollowsFlight, HasResult, AnswersWell, Recent
  <2> QED
    BY <2>3, <2>4, <2>5 DEF FareInv
<1> QED
  BY <1>4, <1>5, <1>6, <1>8, <1>9, <1>10, <1>11, <1>12, <1>13, <1>14, <1>15 DEF FareNext, FareStep

\* However many callers ask for however many routes (ride/app/booking.go, mapbox_provider.go), with any
\* lifetimes and any capacity of the caches: estimates of one route that arrive together cost one
\* provider call, all that stay get its result, and no metrics are older than the two lifetimes.
THEOREM RoutesSharedAlways ==
  ASSUME FareConstants
  PROVE  FareSpec => []RoutesShared
<1>1. FareInit => FareInv
  BY FareStart
<1>2. FareInv /\ [FareNext]_fareVars => FareInv'
  BY FareStays
<1>3. FareInv => RoutesShared
  <2> SUFFICES ASSUME FareInv PROVE RoutesShared
    OBVIOUS
  <2>1. FareTypeOK /\ \A c \in Caller : OwnsFlight(c) /\ AnswersWell(c)
    BY DEF FareInv, CallerKnown
  <2>2. OneFetchPerRoute
    BY <2>1 DEF OneFetchPerRoute, OwnsFlight
  <2>3. SharedResult /\ BoundedAge
    BY <2>1 DEF SharedResult, BoundedAge, AnswersWell
  <2> QED
    BY <2>1, <2>2, <2>3 DEF RoutesShared
<1> QED
  BY <1>1, <1>2, <1>3, PTL DEF FareSpec

(***************************************************************************)
(* The server process: its inductive invariant                             *)
(***************************************************************************)

\* Before the server was started, while it serves, once it was told to stop, and once its
\* handlers were waited for; closing ends with the stores.
Early == {"wait", "serve"}
Told == {"drain", "monitor", "subscriber", "hub", "pool", "closing", "redis", "ended"}
Waited == Told \ {"drain"}
Closing == {"hub", "pool", "closing", "redis", "ended"}

\* A client is served only by a server that was started, and that waited for its subscription.
ServerStarts ==
  /\ main = "wait" => srv = "off" /\ mon = "off"
  /\ srv = "off" => \A c \in Client : req[c] = "idle"
  /\ srv # "off" => ready

\* A server that was told to stop accepts nobody, and will not listen any more.
ToldToStop ==
  /\ main \in Told => srv # "listening" /\ (srv = "starting" => hookRuns)
  /\ hookRuns => main \in Told
  /\ main \in Waited /\ "http" \in {req[c] : c \in Client} => "timeout" \in failed

\* The messages in the channels say what happened.
MessagesTell ==
  /\ subDone # NoResult \/ stopped => sub = "done"
  /\ subDone = "ok" => cancelled \/ main = "subscriber"
  /\ subDone = "error" => failed # {}
  /\ srvErr = "failed" => failed # {}
  /\ srvErr = "closed" => hookRuns

\* What Run is about to return has its reason.
ResultTells ==
  /\ main \in Early => result = NoResult
  /\ main \in {"shutdown", "drain"} /\ result = NoResult => cancelled
  /\ main \in Waited => result # NoResult
  /\ result = "ok" => cancelled
  /\ result = "error" => failed # {}

\* The stores are closed one after the other, behind everybody who is known to use them.
StoresClose ==
  /\ mon = "running" => main \in {"serve", "shutdown", "drain", "monitor"}
  /\ main \in Closing => sub = "done"
  /\ main \in Closing \ {"hub"} => hub = "closed"
  /\ main \in {"redis", "ended"} => pool = "closed"
  /\ pool # "open" => main \in {"closing", "redis", "ended"}
  /\ pool = "closed" => holds = {}
  /\ main = "ended" => redis = "closed"

ServerInv ==
  /\ ServerTypeOK /\ LossNeedsTimeout
  /\ ServerStarts /\ ToldToStop /\ MessagesTell /\ ResultTells /\ StoresClose

LEMMA ServerInitInv == ASSUME ServerConstants, ServerInit PROVE ServerInv
BY DEF ServerConstants, ServerInit, ServerInv, ServerTypeOK, LossNeedsTimeout, ServerStarts, ToldToStop, MessagesTell,
       ResultTells, StoresClose, Early, Told, Waited, Closing

LEMMA LaunchInv == ASSUME ServerConstants, ServerInv, Launch PROVE ServerInv'
BY DEF Launch, ServerConstants, ServerInv, ServerTypeOK, LossNeedsTimeout, ServerStarts, ToldToStop, MessagesTell,
       ResultTells, StoresClose, Early, Told, Waited, Closing, Serving, SubscriberCancelled,
       runVars, subVars, srvVars, reqVars, storeVars

LEMMA EndedEarlyInv == ASSUME ServerConstants, ServerInv, EndedEarly PROVE ServerInv'
BY DEF EndedEarly, ServerConstants, ServerInv, ServerTypeOK, LossNeedsTimeout, ServerStarts, ToldToStop, MessagesTell,
       ResultTells, StoresClose, Early, Told, Waited, Closing, Serving, SubscriberCancelled,
       runVars, subVars, srvVars, reqVars, storeVars

LEMMA CancelledEarlyInv == ASSUME ServerConstants, ServerInv, CancelledEarly PROVE ServerInv'
BY DEF CancelledEarly, ServerConstants, ServerInv, ServerTypeOK, LossNeedsTimeout, ServerStarts, ToldToStop, MessagesTell,
       ResultTells, StoresClose, Early, Told, Waited, Closing, Serving, SubscriberCancelled,
       runVars, subVars, srvVars, reqVars, storeVars

LEMMA ServerStopsInv == ASSUME ServerConstants, ServerInv, ServerStops PROVE ServerInv'
BY DEF ServerStops, ServerConstants, ServerInv, ServerTypeOK, LossNeedsTimeout, ServerStarts, ToldToStop, MessagesTell,
       ResultTells, StoresClose, Early, Told, Waited, Closing, Serving, SubscriberCancelled,
       runVars, subVars, srvVars, reqVars, storeVars

LEMMA InterruptedInv == ASSUME ServerConstants, ServerInv, Interrupted PROVE ServerInv'
BY DEF Interrupted, ServerConstants, ServerInv, ServerTypeOK, LossNeedsTimeout, ServerStarts, ToldToStop, MessagesTell,
       ResultTells, StoresClose, Early, Told, Waited, Closing, Serving, SubscriberCancelled,
       runVars, subVars, srvVars, reqVars, storeVars

LEMMA SubscriberStopsInv == ASSUME ServerConstants, ServerInv, SubscriberStops PROVE ServerInv'
BY DEF SubscriberStops, ServerConstants, ServerInv, ServerTypeOK, LossNeedsTimeout, ServerStarts, ToldToStop, MessagesTell,
       ResultTells, StoresClose, Early, Told, Waited, Closing, Serving, SubscriberCancelled,
       runVars, subVars, srvVars, reqVars, storeVars

LEMMA ShutdownInv == ASSUME ServerConstants, ServerInv, Shutdown PROVE ServerInv'
BY DEF Shutdown, ServerConstants, ServerInv, ServerTypeOK, LossNeedsTimeout, ServerStarts, ToldToStop, MessagesTell,
       ResultTells, StoresClose, Early, Told, Waited, Closing, Serving, SubscriberCancelled,
       runVars, subVars, srvVars, reqVars, storeVars

LEMMA DrainedInv == ASSUME ServerConstants, ServerInv, Drained PROVE ServerInv'
BY DEF Drained, ServerConstants, ServerInv, ServerTypeOK, LossNeedsTimeout, ServerStarts, ToldToStop, MessagesTell,
       ResultTells, StoresClose, Early, Told, Waited, Closing, Serving, SubscriberCancelled,
       runVars, subVars, srvVars, reqVars, storeVars

LEMMA DrainTimesOutInv == ASSUME ServerConstants, ServerInv, DrainTimesOut PROVE ServerInv'
BY DEF DrainTimesOut, ServerConstants, ServerInv, ServerTypeOK, LossNeedsTimeout, ServerStarts, ToldToStop, MessagesTell,
       ResultTells, StoresClose, Early, Told, Waited, Closing, Serving, SubscriberCancelled,
       runVars, subVars, srvVars, reqVars, storeVars

LEMMA JoinMonitorInv == ASSUME ServerConstants, ServerInv, JoinMonitor PROVE ServerInv'
BY DEF JoinMonitor, ServerConstants, ServerInv, ServerTypeOK, LossNeedsTimeout, ServerStarts, ToldToStop, MessagesTell,
       ResultTells, StoresClose, Early, Told, Waited, Closing, Serving, SubscriberCancelled,
       runVars, subVars, srvVars, reqVars, storeVars

LEMMA JoinSubscriberInv == ASSUME ServerConstants, ServerInv, JoinSubscriber PROVE ServerInv'
BY DEF JoinSubscriber, ServerConstants, ServerInv, ServerTypeOK, LossNeedsTimeout, ServerStarts, ToldToStop, MessagesTell,
       ResultTells, StoresClose, Early, Told, Waited, Closing, Serving, SubscriberCancelled,
       runVars, subVars, srvVars, reqVars, storeVars

LEMMA CloseHubInv == ASSUME ServerConstants, ServerInv, CloseHub PROVE ServerInv'
BY DEF CloseHub, ServerConstants, ServerInv, ServerTypeOK, LossNeedsTimeout, ServerStarts, ToldToStop, MessagesTell,
       ResultTells, StoresClose, Early, Told, Waited, Closing, Serving, SubscriberCancelled,
       runVars, subVars, srvVars, reqVars, storeVars

LEMMA BeginClosePoolInv == ASSUME ServerConstants, ServerInv, BeginClosePool PROVE ServerInv'
BY DEF BeginClosePool, ServerConstants, ServerInv, ServerTypeOK, LossNeedsTimeout, ServerStarts, ToldToStop, MessagesTell,
       ResultTells, StoresClose, Early, Told, Waited, Closing, Serving, SubscriberCancelled,
       runVars, subVars, srvVars, reqVars, storeVars

LEMMA ClosePoolInv == ASSUME ServerConstants, ServerInv, ClosePool PROVE ServerInv'
BY DEF ClosePool, ServerConstants, ServerInv, ServerTypeOK, LossNeedsTimeout, ServerStarts, ToldToStop, MessagesTell,
       ResultTells, StoresClose, Early, Told, Waited, Closing, Serving, SubscriberCancelled,
       runVars, subVars, srvVars, reqVars, storeVars

LEMMA CloseRedisInv == ASSUME ServerConstants, ServerInv, CloseRedis PROVE ServerInv'
BY DEF CloseRedis, ServerConstants, ServerInv, ServerTypeOK, LossNeedsTimeout, ServerStarts, ToldToStop, MessagesTell,
       ResultTells, StoresClose, Early, Told, Waited, Closing, Serving, SubscriberCancelled,
       runVars, subVars, srvVars, reqVars, storeVars

LEMMA SignalInv == ASSUME ServerConstants, ServerInv, Signal PROVE ServerInv'
BY DEF Signal, ServerConstants, ServerInv, ServerTypeOK, LossNeedsTimeout, ServerStarts, ToldToStop, MessagesTell,
       ResultTells, StoresClose, Early, Told, Waited, Closing, Serving, SubscriberCancelled,
       runVars, subVars, srvVars, reqVars, storeVars

LEMMA ConnectInv == ASSUME ServerConstants, ServerInv, Connect PROVE ServerInv'
<1>1. ServerTypeOK'
  <2>1. sub' \in {"connect", "receive", "retry", "done"} /\ initial' \in BOOLEAN /\ ready' \in BOOLEAN
    BY DEF Connect, ServerInv, ServerTypeOK
  <2> QED
    BY <2>1 DEF Connect, ServerInv, ServerTypeOK, runVars, subVars, srvVars, reqVars, storeVars
<1>2. LossNeedsTimeout'
  BY DEF Connect, ServerConstants, ServerInv, ServerTypeOK, LossNeedsTimeout, StoresClose, ToldToStop, ServerStarts, Early, Told, Waited, Closing,
         SubscriberCancelled, runVars, subVars, srvVars, reqVars, storeVars
<1>3. ServerStarts'
  BY DEF Connect, ServerConstants, ServerInv, ServerTypeOK, ServerStarts, StoresClose, ToldToStop, ServerStarts, Early, Told, Waited, Closing,
         SubscriberCancelled, runVars, subVars, srvVars, reqVars, storeVars
<1>4. ToldToStop'
  BY DEF Connect, ServerConstants, ServerInv, ServerTypeOK, ToldToStop, StoresClose, ToldToStop, ServerStarts, Early, Told, Waited, Closing,
         SubscriberCancelled, runVars, subVars, srvVars, reqVars, storeVars
<1>5. MessagesTell'
  BY DEF Connect, ServerConstants, ServerInv, ServerTypeOK, MessagesTell, StoresClose, ToldToStop, ServerStarts, Early, Told, Waited, Closing,
         SubscriberCancelled, runVars, subVars, srvVars, reqVars, storeVars
<1>6. ResultTells'
  BY DEF Connect, ServerConstants, ServerInv, ServerTypeOK, ResultTells, StoresClose, ToldToStop, ServerStarts, Early, Told, Waited, Closing,
         SubscriberCancelled, runVars, subVars, srvVars, reqVars, storeVars
<1>7. StoresClose'
  BY DEF Connect, ServerConstants, ServerInv, ServerTypeOK, StoresClose, StoresClose, ToldToStop, ServerStarts, Early, Told, Waited, Closing,
         SubscriberCancelled, runVars, subVars, srvVars, reqVars, storeVars
<1> QED
  BY <1>1, <1>2, <1>3, <1>4, <1>5, <1>6, <1>7 DEF ServerInv

LEMMA ConnectFailsInv == ASSUME ServerConstants, ServerInv, ConnectFails PROVE ServerInv'
<1>1. ServerTypeOK'
  <2>1. sub' \in {"connect", "receive", "retry", "done"} /\ subDone' \in {NoResult, "ok", "error"} /\ failed' \subseteq {"subscribe", "listen", "timeout"}
    BY DEF ConnectFails, ServerInv, ServerTypeOK
  <2> QED
    BY <2>1 DEF ConnectFails, ServerInv, ServerTypeOK, runVars, subVars, srvVars, reqVars, storeVars
<1>2. LossNeedsTimeout'
  BY DEF ConnectFails, ServerConstants, ServerInv, ServerTypeOK, LossNeedsTimeout, StoresClose, ToldToStop, ServerStarts, Early, Told, Waited, Closing,
         SubscriberCancelled, runVars, subVars, srvVars, reqVars, storeVars
<1>3. ServerStarts'
  BY DEF ConnectFails, ServerConstants, ServerInv, ServerTypeOK, ServerStarts, StoresClose, ToldToStop, ServerStarts, Early, Told, Waited, Closing,
         SubscriberCancelled, runVars, subVars, srvVars, reqVars, storeVars
<1>4. ToldToStop'
  BY DEF ConnectFails, ServerConstants, ServerInv, ServerTypeOK, ToldToStop, StoresClose, ToldToStop, ServerStarts, Early, Told, Waited, Closing,
         SubscriberCancelled, runVars, subVars, srvVars, reqVars, storeVars
<1>5. MessagesTell'
  BY DEF ConnectFails, ServerConstants, ServerInv, ServerTypeOK, MessagesTell, StoresClose, ToldToStop, ServerStarts, Early, Told, Waited, Closing,
         SubscriberCancelled, runVars, subVars, srvVars, reqVars, storeVars
<1>6. ResultTells'
  BY DEF ConnectFails, ServerConstants, ServerInv, ServerTypeOK, ResultTells, StoresClose, ToldToStop, ServerStarts, Early, Told, Waited, Closing,
         SubscriberCancelled, runVars, subVars, srvVars, reqVars, storeVars
<1>7. StoresClose'
  BY DEF ConnectFails, ServerConstants, ServerInv, ServerTypeOK, StoresClose, StoresClose, ToldToStop, ServerStarts, Early, Told, Waited, Closing,
         SubscriberCancelled, runVars, subVars, srvVars, reqVars, storeVars
<1> QED
  BY <1>1, <1>2, <1>3, <1>4, <1>5, <1>6, <1>7 DEF ServerInv

LEMMA DisconnectInv == ASSUME ServerConstants, ServerInv, Disconnect PROVE ServerInv'
BY DEF Disconnect, ServerConstants, ServerInv, ServerTypeOK, LossNeedsTimeout, ServerStarts, ToldToStop, MessagesTell,
       ResultTells, StoresClose, Early, Told, Waited, Closing, Serving, SubscriberCancelled,
       runVars, subVars, srvVars, reqVars, storeVars

LEMMA RetryInv == ASSUME ServerConstants, ServerInv, Retry PROVE ServerInv'
BY DEF Retry, ServerConstants, ServerInv, ServerTypeOK, LossNeedsTimeout, ServerStarts, ToldToStop, MessagesTell,
       ResultTells, StoresClose, Early, Told, Waited, Closing, Serving, SubscriberCancelled,
       runVars, subVars, srvVars, reqVars, storeVars

LEMMA SubscriberStopsCleanlyInv == ASSUME ServerConstants, ServerInv, SubscriberStopsCleanly PROVE ServerInv'
BY DEF SubscriberStopsCleanly, ServerConstants, ServerInv, ServerTypeOK, LossNeedsTimeout, ServerStarts, ToldToStop, MessagesTell,
       ResultTells, StoresClose, Early, Told, Waited, Closing, Serving, SubscriberCancelled,
       runVars, subVars, srvVars, reqVars, storeVars

LEMMA ListenInv == ASSUME ServerConstants, ServerInv, Listen PROVE ServerInv'
BY DEF Listen, ServerConstants, ServerInv, ServerTypeOK, LossNeedsTimeout, ServerStarts, ToldToStop, MessagesTell,
       ResultTells, StoresClose, Early, Told, Waited, Closing, Serving, SubscriberCancelled,
       runVars, subVars, srvVars, reqVars, storeVars

LEMMA ListenFailsInv == ASSUME ServerConstants, ServerInv, ListenFails PROVE ServerInv'
BY DEF ListenFails, ServerConstants, ServerInv, ServerTypeOK, LossNeedsTimeout, ServerStarts, ToldToStop, MessagesTell,
       ResultTells, StoresClose, Early, Told, Waited, Closing, Serving, SubscriberCancelled,
       runVars, subVars, srvVars, reqVars, storeVars

LEMMA MonitorEndsInv == ASSUME ServerConstants, ServerInv, MonitorEnds PROVE ServerInv'
BY DEF MonitorEnds, ServerConstants, ServerInv, ServerTypeOK, LossNeedsTimeout, ServerStarts, ToldToStop, MessagesTell,
       ResultTells, StoresClose, Early, Told, Waited, Closing, Serving, SubscriberCancelled,
       runVars, subVars, srvVars, reqVars, storeVars

LEMMA HookClosesHubInv == ASSUME ServerConstants, ServerInv, HookClosesHub PROVE ServerInv'
BY DEF HookClosesHub, ServerConstants, ServerInv, ServerTypeOK, LossNeedsTimeout, ServerStarts, ToldToStop, MessagesTell,
       ResultTells, StoresClose, Early, Told, Waited, Closing, Serving, SubscriberCancelled,
       runVars, subVars, srvVars, reqVars, storeVars

LEMMA ArriveInv == ASSUME ServerConstants, ServerInv, NEW c \in Client, Arrive(c) PROVE ServerInv'
BY DEF Arrive, ServerConstants, ServerInv, ServerTypeOK, LossNeedsTimeout, ServerStarts, ToldToStop, MessagesTell,
       ResultTells, StoresClose, Early, Told, Waited, Closing, Serving, SubscriberCancelled,
       runVars, subVars, srvVars, reqVars, storeVars

LEMMA UpgradeInv == ASSUME ServerConstants, ServerInv, NEW c \in Client, Upgrade(c) PROVE ServerInv'
BY DEF Upgrade, ServerConstants, ServerInv, ServerTypeOK, LossNeedsTimeout, ServerStarts, ToldToStop, MessagesTell,
       ResultTells, StoresClose, Early, Told, Waited, Closing, Serving, SubscriberCancelled,
       runVars, subVars, srvVars, reqVars, storeVars

LEMMA AcquireInv == ASSUME ServerConstants, ServerInv, NEW c \in Client, Acquire(c) PROVE ServerInv'
<1>1. ServerTypeOK'
  <2>1. holds' \subseteq Client /\ lost' \subseteq {"http", "socket"}
    BY DEF Acquire, ServerInv, ServerTypeOK
  <2> QED
    BY <2>1 DEF Acquire, ServerInv, ServerTypeOK, runVars, subVars, srvVars, reqVars, storeVars
<1>2. LossNeedsTimeout'
  BY DEF Acquire, ServerConstants, ServerInv, ServerTypeOK, LossNeedsTimeout, StoresClose, ToldToStop, ServerStarts, Early, Told, Waited, Closing,
         SubscriberCancelled, runVars, subVars, srvVars, reqVars, storeVars
<1>3. ServerStarts'
  BY DEF Acquire, ServerConstants, ServerInv, ServerTypeOK, ServerStarts, StoresClose, ToldToStop, ServerStarts, Early, Told, Waited, Closing,
         SubscriberCancelled, runVars, subVars, srvVars, reqVars, storeVars
<1>4. ToldToStop'
  BY DEF Acquire, ServerConstants, ServerInv, ServerTypeOK, ToldToStop, StoresClose, ToldToStop, ServerStarts, Early, Told, Waited, Closing,
         SubscriberCancelled, runVars, subVars, srvVars, reqVars, storeVars
<1>5. MessagesTell'
  BY DEF Acquire, ServerConstants, ServerInv, ServerTypeOK, MessagesTell, StoresClose, ToldToStop, ServerStarts, Early, Told, Waited, Closing,
         SubscriberCancelled, runVars, subVars, srvVars, reqVars, storeVars
<1>6. ResultTells'
  BY DEF Acquire, ServerConstants, ServerInv, ServerTypeOK, ResultTells, StoresClose, ToldToStop, ServerStarts, Early, Told, Waited, Closing,
         SubscriberCancelled, runVars, subVars, srvVars, reqVars, storeVars
<1>7. StoresClose'
  BY DEF Acquire, ServerConstants, ServerInv, ServerTypeOK, StoresClose, StoresClose, ToldToStop, ServerStarts, Early, Told, Waited, Closing,
         SubscriberCancelled, runVars, subVars, srvVars, reqVars, storeVars
<1> QED
  BY <1>1, <1>2, <1>3, <1>4, <1>5, <1>6, <1>7 DEF ServerInv

LEMMA GiveBackInv == ASSUME ServerConstants, ServerInv, NEW c \in Client, GiveBack(c) PROVE ServerInv'
BY DEF GiveBack, ServerConstants, ServerInv, ServerTypeOK, LossNeedsTimeout, ServerStarts, ToldToStop, MessagesTell,
       ResultTells, StoresClose, Early, Told, Waited, Closing, Serving, SubscriberCancelled,
       runVars, subVars, srvVars, reqVars, storeVars

LEMMA ReturnInv == ASSUME ServerConstants, ServerInv, NEW c \in Client, Return(c) PROVE ServerInv'
BY DEF Return, ServerConstants, ServerInv, ServerTypeOK, LossNeedsTimeout, ServerStarts, ToldToStop, MessagesTell,
       ResultTells, StoresClose, Early, Told, Waited, Closing, Serving, SubscriberCancelled,
       runVars, subVars, srvVars, reqVars, storeVars

LEMMA ServerNextInv == ASSUME ServerConstants, ServerInv, [ServerNext]_serverVars PROVE ServerInv'
<1>1. CASE Run
  BY <1>1, LaunchInv, EndedEarlyInv, CancelledEarlyInv, ServerStopsInv, InterruptedInv, SubscriberStopsInv, ShutdownInv, DrainedInv,
     DrainTimesOutInv, JoinMonitorInv, JoinSubscriberInv, CloseHubInv, BeginClosePoolInv, ClosePoolInv, CloseRedisInv DEF Run
<1>2. CASE Signal \/ Connect \/ ConnectFails \/ Disconnect \/ Retry \/ SubscriberStopsCleanly
  BY <1>2, SignalInv, ConnectInv, ConnectFailsInv, DisconnectInv, RetryInv, SubscriberStopsCleanlyInv
<1>3. CASE Listen \/ ListenFails \/ MonitorEnds \/ HookClosesHub
  BY <1>3, ListenInv, ListenFailsInv, MonitorEndsInv, HookClosesHubInv
<1>4. CASE \E c \in Client : Arrive(c) \/ Upgrade(c) \/ Acquire(c) \/ GiveBack(c) \/ Return(c)
  BY <1>4, ArriveInv, UpgradeInv, AcquireInv, GiveBackInv, ReturnInv
<1>5. CASE UNCHANGED serverVars
  BY <1>5 DEF serverVars, ServerInv, ServerTypeOK, LossNeedsTimeout, ServerStarts, ToldToStop, MessagesTell,
              ResultTells, StoresClose
<1> QED
  BY <1>1, <1>2, <1>3, <1>4, <1>5 DEF ServerNext

LEMMA ServerInvAlways == ASSUME ServerConstants PROVE ServerSpec => []ServerInv
<1>1. ServerInit => ServerInv
  BY ServerInitInv
<1>2. ServerInv /\ [ServerNext]_serverVars => ServerInv'
  BY ServerNextInv
<1> QED
  BY <1>1, <1>2, PTL DEF ServerSpec

\* For every number of clients: nobody is served before the subscription to the events of other
\* processes has stood.
THEOREM ServesWhenReadyAlways == ASSUME ServerConstants PROVE ServerSpec => []ServesWhenReady
<1>1. ServerInv => ServesWhenReady
  BY DEF ServerInv, ServerStarts, ServesWhenReady
<1> QED
  BY <1>1, ServerInvAlways, PTL

\* For every number of clients and whatever ends Run, in whatever order its goroutines notice: it
\* leaves nothing open, an HTTP handler loses its stores only to the deadline of the drain, and
\* the result tells why it ended.
THEOREM ExitExplainedAlways == ASSUME ServerConstants PROVE ServerSpec => []ExitExplained
<1>1. ServerInv => ExitExplained
  <2> SUFFICES ASSUME ServerInv PROVE ExitExplained
    OBVIOUS
  <2>1. ExitTellsCause
    BY DEF ServerInv, ServerTypeOK, ResultTells, ExitTellsCause, Told, Waited
  <2>2. NothingLeftBehind
    BY DEF ServerInv, ServerTypeOK, StoresClose, ToldToStop, NothingLeftBehind, Told, Closing
  <2> QED
    BY <2>1, <2>2 DEF ServerInv, ExitExplained
<1> QED
  BY <1>1, ServerInvAlways, PTL

(***************************************************************************)
(* One connection: its inductive invariant                                 *)
(***************************************************************************)

\* What the request goroutine has started and not yet seen the end of, by where it is.
OwnerKnows ==
  /\ owner \in {"identify", "resolve", "subscribe"} => stream = "none"
  /\ owner \in {"identify", "resolve", "subscribe", "upgrade"} => reader = "none" /\ writer = "none" /\ socket = "none"
  /\ owner = "join" => socket = "closed"

ConnectionInv == ConnectionTypeOK /\ OwnerKnows /\ NothingLeaks /\ NothingAfterExpiry

LEMMA IdentifyInv == ASSUME ConnectionInv, Identify PROVE ConnectionInv'
<1>1. ConnectionTypeOK'
  BY DEF Identify, ConnectionInv, ConnectionTypeOK
<1>2. OwnerKnows' /\ NothingLeaks'
  BY DEF Identify, ConnectionInv, ConnectionTypeOK, OwnerKnows, NothingLeaks
<1>3. NothingAfterExpiry'
  BY DEF Identify, ConnectionInv, NothingAfterExpiry
<1> QED
  BY <1>1, <1>2, <1>3 DEF ConnectionInv

LEMMA ResolveTopicsInv == ASSUME ConnectionInv, ResolveTopics PROVE ConnectionInv'
<1>1. ConnectionTypeOK'
  BY DEF ResolveTopics, ConnectionInv, ConnectionTypeOK
<1>2. OwnerKnows' /\ NothingLeaks'
  BY DEF ResolveTopics, ConnectionInv, ConnectionTypeOK, OwnerKnows, NothingLeaks
<1>3. NothingAfterExpiry'
  BY DEF ResolveTopics, ConnectionInv, NothingAfterExpiry
<1> QED
  BY <1>1, <1>2, <1>3 DEF ConnectionInv

LEMMA SubscribeInv == ASSUME ConnectionInv, Subscribe PROVE ConnectionInv'
<1>1. ConnectionTypeOK'
  BY DEF Subscribe, ConnectionInv, ConnectionTypeOK
<1>2. OwnerKnows' /\ NothingLeaks'
  BY DEF Subscribe, ConnectionInv, ConnectionTypeOK, OwnerKnows, NothingLeaks
<1>3. NothingAfterExpiry'
  BY DEF Subscribe, ConnectionInv, NothingAfterExpiry
<1> QED
  BY <1>1, <1>2, <1>3 DEF ConnectionInv

LEMMA UpgradeSocketInv == ASSUME ConnectionInv, UpgradeSocket PROVE ConnectionInv'
<1>1. ConnectionTypeOK'
  BY DEF UpgradeSocket, ConnectionInv, ConnectionTypeOK
<1>2. OwnerKnows' /\ NothingLeaks'
  BY DEF UpgradeSocket, ConnectionInv, ConnectionTypeOK, OwnerKnows, NothingLeaks
<1>3. NothingAfterExpiry'
  BY DEF UpgradeSocket, ConnectionInv, NothingAfterExpiry
<1> QED
  BY <1>1, <1>2, <1>3 DEF ConnectionInv

LEMMA ShutInv == ASSUME ConnectionInv, Shut PROVE ConnectionInv'
<1>1. ConnectionTypeOK'
  BY DEF Shut, ConnectionInv, ConnectionTypeOK
<1>2. OwnerKnows' /\ NothingLeaks'
  BY DEF Shut, ConnectionInv, ConnectionTypeOK, OwnerKnows, NothingLeaks
<1>3. NothingAfterExpiry'
  BY DEF Shut, ConnectionInv, NothingAfterExpiry
<1> QED
  BY <1>1, <1>2, <1>3 DEF ConnectionInv

LEMMA JoinInv == ASSUME ConnectionInv, Join PROVE ConnectionInv'
<1>1. ConnectionTypeOK'
  BY DEF Join, ConnectionInv, ConnectionTypeOK
<1>2. OwnerKnows' /\ NothingLeaks'
  BY DEF Join, ConnectionInv, ConnectionTypeOK, OwnerKnows, NothingLeaks
<1>3. NothingAfterExpiry'
  BY DEF Join, ConnectionInv, NothingAfterExpiry
<1> QED
  BY <1>1, <1>2, <1>3 DEF ConnectionInv

LEMMA ReadInv == ASSUME ConnectionInv, Read PROVE ConnectionInv'
<1>1. ConnectionTypeOK'
  BY DEF Read, ConnectionInv, ConnectionTypeOK
<1>2. OwnerKnows' /\ NothingLeaks'
  BY DEF Read, ConnectionInv, ConnectionTypeOK, OwnerKnows, NothingLeaks
<1>3. NothingAfterExpiry'
  BY DEF Read, ConnectionInv, NothingAfterExpiry
<1> QED
  BY <1>1, <1>2, <1>3 DEF ConnectionInv

LEMMA HandleInv == ASSUME ConnectionInv, Handle PROVE ConnectionInv'
<1>1. ConnectionTypeOK'
  BY DEF Handle, ConnectionInv, ConnectionTypeOK
<1>2. OwnerKnows' /\ NothingLeaks'
  BY DEF Handle, ConnectionInv, ConnectionTypeOK, OwnerKnows, NothingLeaks
<1>3. NothingAfterExpiry'
  BY DEF Handle, ConnectionInv, NothingAfterExpiry
<1> QED
  BY <1>1, <1>2, <1>3 DEF ConnectionInv

LEMMA ReplyInv == ASSUME ConnectionInv, Reply PROVE ConnectionInv'
<1>1. ConnectionTypeOK'
  <2>1. reader' \in {"none", "read", "handle", "reply", "done"}
    BY DEF Reply, ConnectionInv, ConnectionTypeOK
  <2>2. answer' \in BOOLEAN
    BY DEF Reply, ConnectionInv, ConnectionTypeOK
  <2>3. UNCHANGED <<owner, writer, expired, client, socket, stop, stream, idle, late>>
    BY DEF Reply
  <2> QED
    BY <2>1, <2>2, <2>3 DEF ConnectionInv, ConnectionTypeOK
<1>2. OwnerKnows' /\ NothingLeaks'
  BY DEF Reply, ConnectionInv, ConnectionTypeOK, OwnerKnows, NothingLeaks
<1>3. NothingAfterExpiry'
  BY DEF Reply, ConnectionInv, NothingAfterExpiry
<1> QED
  BY <1>1, <1>2, <1>3 DEF ConnectionInv

LEMMA CheckInv == ASSUME ConnectionInv, Check PROVE ConnectionInv'
<1>1. ConnectionTypeOK'
  BY DEF Check, WriterEnds, ConnectionInv, ConnectionTypeOK
<1>2. OwnerKnows' /\ NothingLeaks'
  BY DEF Check, WriterEnds, ConnectionInv, ConnectionTypeOK, OwnerKnows, NothingLeaks
<1>3. NothingAfterExpiry'
  BY DEF Check, WriterEnds, ConnectionInv, NothingAfterExpiry
<1> QED
  BY <1>1, <1>2, <1>3 DEF ConnectionInv

LEMMA SelectInv == ASSUME ConnectionInv, Select PROVE ConnectionInv'
<1>1. ConnectionTypeOK'
  <2>1. writer' \in {"none", "check", "select", "write", "done"} /\ socket' \in {"none", "open", "closed"}
    BY DEF Select, WriterEnds, ConnectionInv, ConnectionTypeOK
  <2>2. answer' \in BOOLEAN
    BY DEF Select, WriterEnds, ConnectionInv, ConnectionTypeOK
  <2>3. UNCHANGED <<owner, reader, expired, client, stop, stream, idle, late>>
    BY DEF Select, WriterEnds
  <2> QED
    BY <2>1, <2>2, <2>3 DEF ConnectionInv, ConnectionTypeOK
<1>2. OwnerKnows' /\ NothingLeaks'
  BY DEF Select, WriterEnds, ConnectionInv, ConnectionTypeOK, OwnerKnows, NothingLeaks
<1>3. NothingAfterExpiry'
  BY DEF Select, WriterEnds, ConnectionInv, NothingAfterExpiry
<1> QED
  BY <1>1, <1>2, <1>3 DEF ConnectionInv

LEMMA WriteInv == ASSUME ConnectionInv, Write PROVE ConnectionInv'
<1>1. ConnectionTypeOK'
  BY DEF Write, WriterEnds, InTime, ConnectionInv, ConnectionTypeOK
<1>2. OwnerKnows' /\ NothingLeaks'
  BY DEF Write, WriterEnds, InTime, ConnectionInv, ConnectionTypeOK, OwnerKnows, NothingLeaks
<1>3. NothingAfterExpiry'
  BY DEF Write, WriterEnds, InTime, ConnectionInv, NothingAfterExpiry
<1> QED
  BY <1>1, <1>2, <1>3 DEF ConnectionInv

LEMMA ExpireInv == ASSUME ConnectionInv, Expire PROVE ConnectionInv'
<1>1. ConnectionTypeOK'
  BY DEF Expire, ConnectionInv, ConnectionTypeOK
<1>2. OwnerKnows' /\ NothingLeaks'
  BY DEF Expire, ConnectionInv, ConnectionTypeOK, OwnerKnows, NothingLeaks
<1>3. NothingAfterExpiry'
  BY DEF Expire, ConnectionInv, NothingAfterExpiry
<1> QED
  BY <1>1, <1>2, <1>3 DEF ConnectionInv

LEMMA ClientChangesInv == ASSUME ConnectionInv, ClientChanges PROVE ConnectionInv'
<1>1. ConnectionTypeOK'
  BY DEF ClientChanges, ConnectionInv, ConnectionTypeOK
<1>2. OwnerKnows' /\ NothingLeaks'
  BY DEF ClientChanges, ConnectionInv, ConnectionTypeOK, OwnerKnows, NothingLeaks
<1>3. NothingAfterExpiry'
  BY DEF ClientChanges, ConnectionInv, NothingAfterExpiry
<1> QED
  BY <1>1, <1>2, <1>3 DEF ConnectionInv

LEMMA PongMissedInv == ASSUME ConnectionInv, PongMissed PROVE ConnectionInv'
<1>1. ConnectionTypeOK'
  BY DEF PongMissed, ConnectionInv, ConnectionTypeOK
<1>2. OwnerKnows' /\ NothingLeaks'
  BY DEF PongMissed, ConnectionInv, ConnectionTypeOK, OwnerKnows, NothingLeaks
<1>3. NothingAfterExpiry'
  BY DEF PongMissed, ConnectionInv, NothingAfterExpiry
<1> QED
  BY <1>1, <1>2, <1>3 DEF ConnectionInv

LEMMA HubClosesInv == ASSUME ConnectionInv, HubCloses PROVE ConnectionInv'
<1>1. ConnectionTypeOK'
  BY DEF HubCloses, ConnectionInv, ConnectionTypeOK
<1>2. OwnerKnows' /\ NothingLeaks'
  BY DEF HubCloses, ConnectionInv, ConnectionTypeOK, OwnerKnows, NothingLeaks
<1>3. NothingAfterExpiry'
  BY DEF HubCloses, ConnectionInv, NothingAfterExpiry
<1> QED
  BY <1>1, <1>2, <1>3 DEF ConnectionInv

LEMMA ConnectionStepInv == ASSUME ConnectionInv, [ConnectionNext]_connectionVars PROVE ConnectionInv'
<1>1. CASE Main
  BY <1>1, IdentifyInv, ResolveTopicsInv, SubscribeInv, UpgradeSocketInv, ShutInv, JoinInv DEF Main
<1>2. CASE ReadPump
  BY <1>2, ReadInv, HandleInv, ReplyInv DEF ReadPump
<1>3. CASE WritePump
  BY <1>3, CheckInv, SelectInv, WriteInv DEF WritePump
<1>4. CASE Expire \/ ClientChanges \/ PongMissed \/ HubCloses
  BY <1>4, ExpireInv, ClientChangesInv, PongMissedInv, HubClosesInv
<1>5. CASE UNCHANGED connectionVars
  BY <1>5 DEF connectionVars, ConnectionInv, ConnectionTypeOK, OwnerKnows, NothingLeaks, NothingAfterExpiry
<1> QED
  BY <1>1, <1>2, <1>3, <1>4, <1>5 DEF ConnectionNext

\* Whichever of reader, writer, expiry, client and hub ends a connection first, the handler returns
\* only when both pumps have ended and socket and subscription are closed, and nothing is
\* sent behind the expiry.
THEOREM ReleasesAllAlways == ConnectionSpec => []ReleasesAll
<1>1. ConnectionInit => ConnectionInv
  BY DEF ConnectionInit, ConnectionInv, ConnectionTypeOK, OwnerKnows, NothingLeaks, NothingAfterExpiry
<1>2. ConnectionInv /\ [ConnectionNext]_connectionVars => ConnectionInv'
  BY ConnectionStepInv
<1>3. ConnectionInv => ReleasesAll
  BY DEF ConnectionInv, ReleasesAll
<1> QED
  BY <1>1, <1>2, <1>3, PTL DEF ConnectionSpec

----------------------------------------------------------------------------
(* The rate limiters *)

Counter == [n : 0 .. Limit + 1, left : 0 .. Window]
Ends(c) == c.n = 0 <=> c.left = 0
List == [1 .. 2 * Limit -> 0 .. Window]

\* How many requests a counter may have let pass.
Kept(c) == Least(c.n, Limit)

\* All that passed but what the counter kept is as old as the counter, its own first request too, so
\* that its predecessor has at most all but one of its requests in the time of a window.
Apart(c, list) ==
  \A i \in 1 .. 2 * Limit : /\ i >= Limit + Kept(c) => list[i] = Window
                            /\ c.n > 0 /\ i >= Kept(c) => list[i] + c.left >= Window

\* No more passed lately than ever.
Listed(list, g) == \A i \in 1 .. 2 * Limit : i > g => list[i] = Window

\* The counter of a window began in it and does not lapse before its end.
InWindow(c, g, at) == (c.n > 0 => c.left + at >= Window) /\ g <= Kept(c)

\* In the next window it may, and one that began there does not: it is told from the first by what it
\* has left.
AfterWindow(c, g, at) == g <= Limit + Kept(c) /\ (c.n > 0 /\ c.left + at < Window => g <= Kept(c))

\* A request counts soon: in the window it read or the next, and in a counter without windows always
\* in its own.
ReadsSoon ==
  \A r \in Request :
    /\ policy = "otp" => attempt[r].age = 0
    /\ policy # "otp" /\ attempt[r].at = "count" =>
         IF attempt[r].age = 0 THEN attempt[r].delay <= phase ELSE phase < attempt[r].delay

CountersApart ==
  /\ \A a \in Age : Apart(counter[a], passed[a]) /\ Listed(passed[a], given[a])
  /\ passed[2][2 * Limit] = Window

\* What passed for a window passed in that window, while nobody counts late.
WindowsApart ==
  policy # "otp" =>
    /\ InWindow(counter[0], given[0], phase) /\ AfterWindow(counter[1], given[1], phase)
    /\ ~straddled => /\ given[1] <= Limit
                     /\ \A i \in 1 .. 2 * Limit : passed[1][i] > phase /\ passed[2][i] = Window

RatesInv ==
  /\ RatesTypeOK /\ ReadsSoon /\ (policy = "otp" => ~straddled)
  /\ ~Unprotected => CountersApart /\ WindowsApart

\* A counter that was never used, and nothing let through.
LEMMA NothingCounted ==
  ASSUME RatesConstants
  PROVE  /\ NoCounter \in Counter /\ Ends(NoCounter) /\ NonePassed \in List
         /\ Apart(NoCounter, NonePassed) /\ Listed(NonePassed, 0)
         /\ InWindow(NoCounter, 0, 0) /\ AfterWindow(NoCounter, 0, 0) /\ Kept(NoCounter) = 0
<1>1. /\ NoCounter \in Counter /\ Ends(NoCounter) /\ NonePassed \in List /\ Kept(NoCounter) = 0
      /\ NoCounter.n = 0 /\ NoCounter.left = 0 /\ \A i \in 1 .. 2 * Limit : NonePassed[i] = Window
  BY DEF RatesConstants, NoCounter, Counter, Ends, NonePassed, List, Kept, Least
<1> QED
  BY <1>1 DEF RatesConstants, Apart, Listed, InWindow, AfterWindow

\* What an increment leaves of a counter, and a tick.
LEMMA CounterMoves ==
  ASSUME RatesConstants, NEW c \in Counter, Ends(c)
  PROVE  /\ c.n \in 0 .. Limit + 1 /\ c.left \in 0 .. Window /\ Kept(c) = (IF c.n <= Limit THEN c.n ELSE Limit)
         /\ Increment(c) \in Counter /\ Ends(Increment(c)) /\ Lapse(c) \in Counter /\ Ends(Lapse(c))
         /\ Increment(c).n = (IF c.n <= Limit THEN c.n + 1 ELSE c.n)
         /\ Increment(c).left = (IF c.n = 0 THEN Window ELSE c.left)
         /\ Kept(Increment(c)) = (IF c.n < Limit THEN c.n + 1 ELSE Limit)
         /\ Lapse(c).n = (IF c.left <= 1 THEN 0 ELSE c.n)
         /\ Lapse(c).left = (IF c.left <= 1 THEN 0 ELSE c.left - 1)
         /\ Kept(Lapse(c)) = (IF c.left <= 1 THEN 0 ELSE Kept(c))
<1>1. /\ c.n \in 0 .. Limit + 1 /\ c.left \in 0 .. Window /\ c = [n |-> c.n, left |-> c.left]
      /\ c.n = 0 <=> c.left = 0
  BY DEF Counter, Ends
<1>2. Limit \in Nat \ {0} /\ Window \in Nat \ {0}
  BY DEF RatesConstants
<1>3. PICK n \in 0 .. Limit + 1 : n = (IF c.n <= Limit THEN c.n + 1 ELSE c.n)
  BY <1>1, <1>2
<1>4. PICK left \in 0 .. Window : left = (IF c.n = 0 THEN Window ELSE c.left)
  BY <1>1, <1>2
<1>5. Increment(c) = [n |-> n, left |-> left]
  BY <1>1, <1>2, <1>3, <1>4 DEF Increment, Least
<1>6. Increment(c) \in Counter /\ Increment(c).n = n /\ Increment(c).left = left
  BY <1>5 DEF Counter
<1>7. Ends(Increment(c))
  BY <1>1, <1>2, <1>3, <1>4, <1>6 DEF Ends
<1>8. CASE c.left <= 1
  <2>1. Lapse(c) = [n |-> 0, left |-> 0]
    BY <1>8 DEF Lapse, NoCounter
  <2>2. Lapse(c) \in Counter /\ Ends(Lapse(c)) /\ Lapse(c).n = 0 /\ Lapse(c).left = 0
    BY <1>2, <2>1 DEF Counter, Ends
  <2> QED
    BY <1>1, <1>2, <1>3, <1>4, <1>6, <1>7, <1>8, <2>2 DEF Kept, Least
<1>9. CASE c.left > 1
  <2>1. PICK less \in 1 .. Window : less = c.left - 1
    BY <1>1, <1>2, <1>9
  <2>2. Lapse(c) = [n |-> c.n, left |-> less]
    BY <1>1, <1>9, <2>1 DEF Lapse
  <2>3. Lapse(c) \in Counter /\ Ends(Lapse(c)) /\ Lapse(c).n = c.n /\ Lapse(c).left = less
    BY <1>1, <1>2, <1>9, <2>1, <2>2 DEF Counter, Ends
  <2> QED
    BY <1>1, <1>2, <1>3, <1>4, <1>6, <1>7, <1>9, <2>1, <2>3 DEF Kept, Least
<1> QED
  BY <1>1, <1>8, <1>9

LEMMA KeptFew == ASSUME RatesConstants, NEW c \in Counter PROVE Kept(c) \in 0 .. Limit
<1>1. Limit \in Nat /\ c.n \in 0 .. Limit + 1
  BY DEF RatesConstants, Counter
<1> QED
  BY <1>1 DEF Kept, Least

\* What one more request, and one more tick, leaves of those that passed.
LEMMA ListMoves ==
  ASSUME RatesConstants, NEW s \in List
  PROVE  /\ \A i \in 1 .. 2 * Limit : s[i] \in 0 .. Window
         /\ Passed(s) \in List /\ Aged(s) \in List
         /\ \A i \in 1 .. 2 * Limit : Passed(s)[i] = IF i = 1 THEN 0 ELSE s[i - 1]
         /\ \A i \in 1 .. 2 * Limit : Aged(s)[i] = IF s[i] = Window THEN Window ELSE s[i] + 1
<1>1. Limit \in Nat \ {0} /\ Window \in Nat \ {0}
  BY DEF RatesConstants
<1>2. \A i \in 1 .. 2 * Limit : s[i] \in 0 .. Window
  BY DEF List
<1>3. DOMAIN s = 1 .. 2 * Limit
  BY DEF List
<1>4. \A i \in 1 .. 2 * Limit : Passed(s)[i] = IF i = 1 THEN 0 ELSE s[i - 1]
  BY <1>3 DEF Passed
<1>5. \A i \in 1 .. 2 * Limit : Aged(s)[i] = IF s[i] = Window THEN Window ELSE s[i] + 1
  BY <1>1, <1>2, <1>3 DEF Aged, Least
<1>6. \A i \in 1 .. 2 * Limit : Passed(s)[i] \in 0 .. Window
  <2> SUFFICES ASSUME NEW i \in 1 .. 2 * Limit PROVE Passed(s)[i] \in 0 .. Window
    OBVIOUS
  <2>1. CASE i = 1
    BY <1>1, <1>4, <2>1
  <2>2. CASE i # 1
    <3>1. i - 1 \in 1 .. 2 * Limit
      BY <1>1, <2>2
    <3> QED
      BY <1>2, <1>4, <2>2, <3>1
  <2> QED
    BY <2>1, <2>2
<1>7. \A i \in 1 .. 2 * Limit : Aged(s)[i] \in 0 .. Window
  BY <1>1, <1>2, <1>5
<1>8. Passed(s) \in List
  BY <1>3, <1>6 DEF Passed, List
<1>9. Aged(s) \in List
  BY <1>3, <1>7 DEF Aged, List
<1> QED
  BY <1>2, <1>4, <1>5, <1>8, <1>9

\* An attempt is counted, and passes or not.
LEMMA CountsApart ==
  ASSUME RatesConstants, NEW c \in Counter, Ends(c), NEW s \in List, Apart(c, s)
  PROVE  /\ Apart(Increment(c), s)
         /\ Increment(c).n <= Limit => Apart(Increment(c), Passed(s))
<1>1. /\ Limit \in Nat \ {0} /\ Window \in Nat \ {0} /\ c.n \in 0 .. Limit + 1 /\ c.left \in 0 .. Window
      /\ Kept(c) = (IF c.n <= Limit THEN c.n ELSE Limit)
  BY CounterMoves DEF RatesConstants
<1>2. PICK d : d = Increment(c)
  OBVIOUS
<1>3. /\ d.n = (IF c.n <= Limit THEN c.n + 1 ELSE c.n) /\ d.left = (IF c.n = 0 THEN Window ELSE c.left)
      /\ Kept(d) = (IF c.n < Limit THEN c.n + 1 ELSE Limit)
  BY <1>2, CounterMoves
<1>4. /\ \A i \in 1 .. 2 * Limit : s[i] \in 0 .. Window
      /\ \A i \in 1 .. 2 * Limit : Passed(s)[i] = IF i = 1 THEN 0 ELSE s[i - 1]
  BY ListMoves
<1>5. \A i \in 1 .. 2 * Limit : /\ i >= Limit + Kept(c) => s[i] = Window
                                /\ c.n > 0 /\ i >= Kept(c) => s[i] + c.left >= Window
  BY DEF Apart
<1>6. Apart(d, s)
  <2> SUFFICES ASSUME NEW i \in 1 .. 2 * Limit
               PROVE  /\ i >= Limit + Kept(d) => s[i] = Window
                      /\ d.n > 0 /\ i >= Kept(d) => s[i] + d.left >= Window
    BY DEF Apart
  <2> QED
    BY <1>1, <1>3, <1>4, <1>5
<1>7. ASSUME d.n <= Limit PROVE Apart(d, Passed(s))
  <2> SUFFICES ASSUME NEW i \in 1 .. 2 * Limit
               PROVE  /\ i >= Limit + Kept(d) => Passed(s)[i] = Window
                      /\ d.n > 0 /\ i >= Kept(d) => Passed(s)[i] + d.left >= Window
    BY DEF Apart
  <2>1. c.n < Limit /\ Kept(c) = c.n /\ Kept(d) = c.n + 1
    BY <1>1, <1>3, <1>7
  <2>2. CASE i = 1
    <3>1. Passed(s)[i] = 0
      BY <1>4, <2>2
    <3> QED
      BY <1>1, <1>3, <2>1, <2>2, <3>1
  <2>3. CASE i # 1
    <3>1. PICK j \in 1 .. 2 * Limit : j = i - 1 /\ Passed(s)[i] = s[j]
      BY <1>1, <1>4, <2>3
    <3> QED
      BY <1>1, <1>3, <1>4, <1>5, <2>1, <3>1
  <2> QED
    BY <2>2, <2>3
<1> QED
  BY <1>2, <1>6, <1>7

\* A tick passes.
LEMMA AgesApart ==
  ASSUME RatesConstants, NEW c \in Counter, Ends(c), NEW s \in List, Apart(c, s)
  PROVE  Apart(Lapse(c), Aged(s))
<1>1. /\ Limit \in Nat \ {0} /\ Window \in Nat \ {0} /\ c.n \in 0 .. Limit + 1 /\ c.left \in 0 .. Window
      /\ Kept(c) = (IF c.n <= Limit THEN c.n ELSE Limit) /\ (c.n = 0 <=> c.left = 0)
  BY CounterMoves DEF RatesConstants, Ends
<1>2. PICK d : d = Lapse(c)
  OBVIOUS
<1>3. /\ d.n = (IF c.left <= 1 THEN 0 ELSE c.n) /\ d.left = (IF c.left <= 1 THEN 0 ELSE c.left - 1)
      /\ Kept(d) = (IF c.left <= 1 THEN 0 ELSE Kept(c))
  BY <1>2, CounterMoves
<1> SUFFICES ASSUME NEW i \in 1 .. 2 * Limit
             PROVE  /\ i >= Limit + Kept(d) => Aged(s)[i] = Window
                    /\ d.n > 0 /\ i >= Kept(d) => Aged(s)[i] + d.left >= Window
  BY <1>2 DEF Apart
<1>4. s[i] \in 0 .. Window /\ Aged(s)[i] = IF s[i] = Window THEN Window ELSE s[i] + 1
  BY ListMoves
<1>5. /\ i >= Limit + Kept(c) => s[i] = Window
      /\ c.n > 0 /\ i >= Kept(c) => s[i] + c.left >= Window
  BY DEF Apart
<1> QED
  BY <1>1, <1>3, <1>4, <1>5

\* What is listed, and given.
LEMMA ListedMoves ==
  ASSUME RatesConstants, NEW s \in List, NEW g \in 0 .. Cap, Listed(s, g)
  PROVE  Listed(Passed(s), Least(g + 1, Cap)) /\ Listed(Aged(s), g) /\ Least(g + 1, Cap) \in 0 .. Cap
<1>1. Limit \in Nat \ {0} /\ Window \in Nat \ {0} /\ Cap = 2 * Limit + 1
  BY DEF RatesConstants, Cap
<1>2. Least(g + 1, Cap) = IF g < Cap THEN g + 1 ELSE Cap
  BY <1>1 DEF Least
<1>3. ASSUME NEW i \in 1 .. 2 * Limit, i > Least(g + 1, Cap) PROVE Passed(s)[i] = Window
  <2>1. i # 1 /\ i - 1 \in 1 .. 2 * Limit /\ i - 1 > g
    BY <1>1, <1>2, <1>3
  <2> QED
    BY <2>1, ListMoves DEF Listed
<1>4. Listed(Aged(s), g)
  BY ListMoves DEF Listed
<1> QED
  BY <1>1, <1>2, <1>3, <1>4 DEF Listed

\* What the counters of a window and of the one before let pass, when they count and when time passes.
LEMMA CountsInWindow ==
  ASSUME RatesConstants, NEW c \in Counter, Ends(c), NEW g \in 0 .. Cap, NEW at \in 0 .. Window - 1
  PROVE  /\ InWindow(c, g, at) =>
              /\ InWindow(Increment(c), g, at)
              /\ Increment(c).n <= Limit => InWindow(Increment(c), Least(g + 1, Cap), at)
              /\ at < Window - 1 => InWindow(Lapse(c), g, at + 1)
              /\ at = Window - 1 => AfterWindow(Lapse(c), g, 0)
              /\ g <= Limit
         /\ AfterWindow(c, g, at) =>
              /\ AfterWindow(Increment(c), g, at)
              /\ Increment(c).n <= Limit => AfterWindow(Increment(c), Least(g + 1, Cap), at)
              /\ at < Window - 1 => AfterWindow(Lapse(c), g, at + 1)
<1>1. /\ Limit \in Nat \ {0} /\ Window \in Nat \ {0} /\ c.n \in 0 .. Limit + 1 /\ c.left \in 0 .. Window
      /\ Kept(c) = (IF c.n <= Limit THEN c.n ELSE Limit) /\ (c.n = 0 <=> c.left = 0)
      /\ Cap = 2 * Limit + 1
  BY CounterMoves DEF RatesConstants, Ends, Cap
<1>2. PICK d : d = Lapse(c)
  OBVIOUS
<1>3. /\ d.n = (IF c.left <= 1 THEN 0 ELSE c.n) /\ d.left = (IF c.left <= 1 THEN 0 ELSE c.left - 1)
      /\ Kept(d) = (IF c.left <= 1 THEN 0 ELSE Kept(c))
  BY <1>2, CounterMoves
<1>4. PICK e : e = Increment(c)
  OBVIOUS
<1>5. /\ e.n = (IF c.n <= Limit THEN c.n + 1 ELSE c.n) /\ e.left = (IF c.n = 0 THEN Window ELSE c.left)
      /\ Kept(e) = (IF c.n < Limit THEN c.n + 1 ELSE Limit)
  BY <1>4, CounterMoves
<1>6. PICK more : more = Least(g + 1, Cap) /\ more = IF g < Cap THEN g + 1 ELSE Cap
  BY <1>1 DEF Least
<1>7. ASSUME InWindow(c, g, at)
      PROVE  /\ InWindow(e, g, at)
             /\ e.n <= Limit => InWindow(e, more, at)
             /\ at < Window - 1 => InWindow(d, g, at + 1)
             /\ at = Window - 1 => AfterWindow(d, g, 0)
             /\ g <= Limit
  <2>1. (c.n > 0 => c.left + at >= Window) /\ g <= Kept(c)
    BY <1>7 DEF InWindow
  <2>2. InWindow(e, g, at) /\ (e.n <= Limit => InWindow(e, more, at))
    BY <1>1, <1>5, <1>6, <2>1 DEF InWindow
  <2>3. at < Window - 1 => InWindow(d, g, at + 1)
    BY <1>1, <1>3, <2>1 DEF InWindow
  <2>4. at = Window - 1 => AfterWindow(d, g, 0)
    BY <1>1, <1>3, <2>1 DEF AfterWindow
  <2> QED
    BY <1>1, <2>1, <2>2, <2>3, <2>4
<1>8. ASSUME AfterWindow(c, g, at)
      PROVE  /\ AfterWindow(e, g, at)
             /\ e.n <= Limit => AfterWindow(e, more, at)
             /\ at < Window - 1 => AfterWindow(d, g, at + 1)
  <2>1. g <= Limit + Kept(c) /\ (c.n > 0 /\ c.left + at < Window => g <= Kept(c))
    BY <1>8 DEF AfterWindow
  <2>2. AfterWindow(e, g, at) /\ (e.n <= Limit => AfterWindow(e, more, at))
    BY <1>1, <1>5, <1>6, <2>1 DEF AfterWindow
  <2>3. at < Window - 1 => AfterWindow(d, g, at + 1)
    BY <1>1, <1>3, <2>1 DEF AfterWindow
  <2> QED
    BY <2>2, <2>3
<1> QED
  BY <1>2, <1>4, <1>6, <1>7, <1>8

----------------------------------------------------------------------------
LEMMA RatesTyped ==
  ASSUME RatesConstants, RatesTypeOK
  PROVE  /\ Limit \in Nat \ {0} /\ Window \in Nat \ {0} /\ MaxDelay \in 0 .. Window /\ phase \in 0 .. Window - 1
         /\ counter \in [Age -> Counter] /\ passed \in [0 .. 2 -> List] /\ given \in [Age -> 0 .. Cap]
         /\ \A a \in Age : counter[a] \in Counter /\ Ends(counter[a]) /\ passed[a] \in List /\ given[a] \in 0 .. Cap
         /\ passed[2] \in List /\ 0 \in Age /\ 1 \in Age /\ Age \subseteq 0 .. 2 /\ Cap = 2 * Limit + 1
<1>1. /\ Limit \in Nat \ {0} /\ Window \in Nat \ {0} /\ MaxDelay \in 0 .. Window /\ Cap = 2 * Limit + 1
      /\ 0 \in Age /\ 1 \in Age /\ Age \subseteq 0 .. 2 /\ 2 \in 0 .. 2
  BY DEF RatesConstants, Age, Cap
<1>2. /\ counter \in [Age -> Counter] /\ passed \in [0 .. 2 -> List] /\ given \in [Age -> 0 .. Cap]
      /\ phase \in 0 .. Window - 1 /\ \A a \in Age : Ends(counter[a])
  BY DEF RatesTypeOK, Counter, List, Ends
<1> QED
  BY <1>1, <1>2

LEMMA RatesStart == ASSUME RatesConstants, RatesInit PROVE RatesInv
<1>1. RatesTypeOK
  <2>1. /\ NoCounter \in Counter /\ NoCounter.n = 0 /\ NoCounter.left = 0 /\ NonePassed \in List
    BY NothingCounted DEF NoCounter
  <2>2. /\ counter = [a \in Age |-> NoCounter] /\ passed = [a \in 0 .. 2 |-> NonePassed]
        /\ given = [a \in Age |-> 0] /\ attempt = [r \in Request |-> Idle]
        /\ phase \in 0 .. Window - 1 /\ 0 \in 0 .. Cap
        /\ Idle \in [at : {"idle", "count"}, age : Age, delay : 0 .. MaxDelay]
    BY DEF RatesInit, RatesConstants, Idle, Age, Cap
  <2>3. counter \in [Age -> Counter] /\ \A a \in Age : counter[a].n = 0 <=> counter[a].left = 0
    BY <2>1, <2>2
  <2>4. /\ passed \in [0 .. 2 -> List] /\ given \in [Age -> 0 .. Cap]
        /\ attempt \in [Request -> [at : {"idle", "count"}, age : Age, delay : 0 .. MaxDelay]]
    BY <2>1, <2>2
  <2> QED
    BY <2>2, <2>3, <2>4 DEF RatesTypeOK, RatesInit, Counter, List
<1>2. ReadsSoon
  BY DEF ReadsSoon, RatesInit, Idle
<1>3. /\ \A a \in Age : counter[a] = NoCounter /\ given[a] = 0
      /\ \A a \in 0 .. 2 : passed[a] = NonePassed
      /\ phase = 0
  BY DEF RatesInit
<1>4. CountersApart
  <2>1. 2 * Limit \in 1 .. 2 * Limit
    BY DEF RatesConstants
  <2>2. passed[2][2 * Limit] = Window
    BY <1>3, <2>1 DEF NonePassed
  <2> QED
    BY <1>1, <1>3, <2>2, RatesTyped, NothingCounted DEF CountersApart
<1>5. \A i \in 1 .. 2 * Limit : passed[1][i] > phase /\ passed[2][i] = Window
  BY <1>1, <1>3, RatesTyped DEF NonePassed
<1>6. WindowsApart
  BY <1>1, <1>3, <1>5, RatesTyped, NothingCounted DEF WindowsApart
<1> QED
  BY <1>1, <1>2, <1>4, <1>6 DEF RatesInv, RatesInit

\* An attempt leaves counter a as c, and passes or not.
LEMMA CountKeeps ==
  ASSUME RatesConstants, RatesTypeOK, NEW a \in Age, NEW c, NEW passes \in BOOLEAN,
         c = Increment(counter[a]) \/ c = counter[a], counter' = [counter EXCEPT ![a] = c],
         passes => c = Increment(counter[a]) /\ c.n <= Limit,
         IF passes THEN /\ passed' = [passed EXCEPT ![a] = Passed(@)]
                        /\ given' = [given EXCEPT ![a] = Least(@ + 1, Cap)]
                   ELSE UNCHANGED <<passed, given>>,
         UNCHANGED <<policy, phase>>, straddled' = (straddled \/ a # 0), CountersApart, WindowsApart
  PROVE  CountersApart' /\ WindowsApart'
<1>1. PICK s \in List : s = IF passes THEN Passed(passed[a]) ELSE passed[a]
  BY RatesTyped, ListMoves
<1>2. PICK g \in 0 .. Cap : g = IF passes THEN Least(given[a] + 1, Cap) ELSE given[a]
  BY RatesTyped, ListedMoves DEF CountersApart
<1>3. /\ counter'[a] = c /\ passed'[a] = s /\ given'[a] = g
      /\ \A b \in Age : b # a => counter'[b] = counter[b] /\ passed'[b] = passed[b] /\ given'[b] = given[b]
      /\ passed'[2] = passed[2]
  BY RatesTyped, <1>1, <1>2 DEF Age
<1>4. Apart(c, s) /\ Listed(s, g)
  <2>1. Apart(counter[a], passed[a]) /\ Listed(passed[a], given[a])
    BY DEF CountersApart
  <2>2. Apart(c, s)
    BY <1>1, <2>1, RatesTyped, CountsApart
  <2> QED
    BY <1>1, <1>2, <2>1, <2>2, RatesTyped, ListedMoves
<1>5. CountersApart'
  BY <1>3, <1>4 DEF CountersApart
<1>6. ASSUME policy # "otp" PROVE InWindow(counter'[0], given'[0], phase) /\ AfterWindow(counter'[1], given'[1], phase)
  <2>1. InWindow(counter[0], given[0], phase) /\ AfterWindow(counter[1], given[1], phase)
    BY <1>6 DEF WindowsApart
  <2>2. CASE a = 0
    <3>1. InWindow(c, g, phase)
      BY <1>2, <2>1, <2>2, RatesTyped, CountsInWindow
    <3> QED
      BY <1>3, <2>1, <2>2, <3>1, RatesTyped
  <2>3. CASE a = 1
    <3>1. AfterWindow(c, g, phase)
      BY <1>2, <2>1, <2>3, RatesTyped, CountsInWindow
    <3> QED
      BY <1>3, <2>1, <2>3, <3>1, RatesTyped
  <2> QED
    BY <2>2, <2>3 DEF Age
<1>7. ASSUME policy # "otp", ~straddled'
      PROVE  given'[1] <= Limit /\ \A i \in 1 .. 2 * Limit : passed'[1][i] > phase /\ passed'[2][i] = Window
  <2>1. a = 0 /\ ~straddled
    BY <1>7
  <2> QED
    BY <1>3, <1>7, <2>1, RatesTyped DEF WindowsApart
<1>8. WindowsApart'
  BY <1>6, <1>7 DEF WindowsApart
<1> QED
  BY <1>5, <1>8

\* It keeps the types, whether or not it may pass.
LEMMA CountTypes ==
  ASSUME RatesConstants, RatesTypeOK, NEW r \in Request, NEW c, NEW passes \in BOOLEAN,
         LET a == attempt[r].age IN
         /\ c = Increment(counter[a]) \/ c = counter[a]
         /\ counter' = [counter EXCEPT ![a] = c]
         /\ straddled' = (straddled \/ a # 0),
         Let(r, passes), storeFailed' \in BOOLEAN, UNCHANGED <<policy, phase>>
  PROVE  RatesTypeOK'
<1>1. PICK a \in Age : a = attempt[r].age
  BY DEF RatesTypeOK
<1>2. c \in Counter /\ Ends(c)
  BY <1>1, RatesTyped, CounterMoves
<1>3. /\ counter' \in [Age -> Counter] /\ \A b \in Age : Ends(counter'[b])
  BY <1>1, <1>2, RatesTyped
<1>4. passed' \in [0 .. 2 -> List] /\ given' \in [Age -> 0 .. Cap]
  <2>1. CASE passes
    <3>1. Passed(passed[a]) \in List /\ Least(given[a] + 1, Cap) \in 0 .. Cap
      BY RatesTyped, ListMoves DEF Least
    <3>2. passed' = [passed EXCEPT ![a] = Passed(passed[a])] /\ given' = [given EXCEPT ![a] = Least(given[a] + 1, Cap)]
      BY <1>1, <2>1 DEF Let
    <3> QED
      BY <3>1, <3>2, RatesTyped
  <2>2. CASE ~passes
    BY <2>2, RatesTyped DEF Let
  <2> QED
    BY <2>1, <2>2
<1>5. attempt' \in [Request -> [at : {"idle", "count"}, age : Age, delay : 0 .. MaxDelay]]
  <2>1. Idle \in [at : {"idle", "count"}, age : Age, delay : 0 .. MaxDelay]
    BY DEF Idle, Age, RatesConstants
  <2> QED
    BY <2>1 DEF Let, RatesTypeOK
<1> QED
  BY <1>1, <1>3, <1>4, <1>5 DEF RatesTypeOK, Counter, List, Ends

LEMMA CountInv == ASSUME RatesConstants, RatesInv, NEW r \in Request, Count(r) PROVE RatesInv'
<1> DEFINE a == attempt[r].age
           c == Increment(counter[a])
<1>1. /\ RatesTypeOK /\ a \in Age /\ WithinLimit(c) \in BOOLEAN /\ (WithinLimit(c) <=> c.n <= Limit)
      /\ (policy = "otp" => a = 0)
  BY DEF RatesInv, RatesTypeOK, WithinLimit, ReadsSoon
<1>2. /\ counter' = [counter EXCEPT ![a] = c] /\ Let(r, WithinLimit(c)) /\ straddled' = (straddled \/ a # 0)
      /\ UNCHANGED <<policy, phase, storeFailed>>
  BY DEF Count
<1> HIDE DEF c
<1>3. RatesTypeOK'
  <2>1. c = Increment(counter[a])
    BY DEF c
  <2> QED
    BY <1>1, <1>2, <2>1, CountTypes DEF RatesTypeOK
<1>4. ReadsSoon'
  BY <1>2 DEF ReadsSoon, Let, Idle, RatesInv, RatesTypeOK
<1>5. policy' = "otp" => ~straddled'
  BY <1>1, <1>2 DEF RatesInv
<1>6. ASSUME ~Unprotected' PROVE CountersApart' /\ WindowsApart'
  <2>1. CountersApart /\ WindowsApart
    BY <1>2, <1>6 DEF RatesInv, Unprotected
  <2>2. c = Increment(counter[a])
    BY DEF c
  <2>3. IF WithinLimit(c) THEN /\ passed' = [passed EXCEPT ![a] = Passed(@)]
                               /\ given' = [given EXCEPT ![a] = Least(@ + 1, Cap)]
                          ELSE UNCHANGED <<passed, given>>
    BY <1>2 DEF Let
  <2> HIDE DEF a
  <2> QED
    BY <1>1, <1>2, <2>1, <2>2, <2>3, CountKeeps
<1> QED
  BY <1>3, <1>4, <1>5, <1>6 DEF RatesInv

LEMMA CountFailsInv == ASSUME RatesConstants, RatesInv, NEW r \in Request, CountFails(r) PROVE RatesInv'
<1> DEFINE a == attempt[r].age
<1>1. RatesTypeOK /\ a \in Age /\ PassesUncounted \in BOOLEAN /\ (policy = "otp" => a = 0)
  BY DEF RatesInv, RatesTypeOK, PassesUncounted, ReadsSoon
<1>2. PICK c \in {counter[a], Increment(counter[a])} : counter' = [counter EXCEPT ![a] = c]
  BY DEF CountFails
<1>3. Let(r, PassesUncounted) /\ storeFailed' = TRUE /\ straddled' = (straddled \/ a # 0) /\ UNCHANGED <<policy, phase>>
  BY DEF CountFails
<1>4. RatesTypeOK'
  BY <1>1, <1>2, <1>3, CountTypes
<1>5. ReadsSoon'
  BY <1>3 DEF ReadsSoon, Let, Idle, RatesInv, RatesTypeOK
<1>6. policy' = "otp" => ~straddled'
  BY <1>1, <1>3 DEF RatesInv
<1>7. ASSUME ~Unprotected' PROVE CountersApart' /\ WindowsApart'
  <2>1. ~PassesUncounted /\ CountersApart /\ WindowsApart
    BY <1>3, <1>7 DEF RatesInv, Unprotected, PassesUncounted
  <2>2. UNCHANGED <<passed, given>>
    BY <1>3, <2>1 DEF Let
  <2> HIDE DEF a
  <2> QED
    BY <1>1, <1>2, <1>3, <2>1, <2>2, CountKeeps
<1> QED
  BY <1>4, <1>5, <1>6, <1>7 DEF RatesInv

LEMMA ReadClockInv == ASSUME RatesConstants, RatesInv, NEW r \in Request, ReadClock(r) PROVE RatesInv'
<1>1. UNCHANGED <<policy, phase, counter, passed, given, straddled, storeFailed>>
  BY DEF ReadClock
<1>2. RatesTypeOK'
  <2>1. [at |-> "count", age |-> 0, delay |-> 0] \in [at : {"idle", "count"}, age : Age, delay : 0 .. MaxDelay]
    BY DEF Age, RatesConstants
  <2>2. attempt' \in [Request -> [at : {"idle", "count"}, age : Age, delay : 0 .. MaxDelay]]
    BY <2>1 DEF ReadClock, RatesInv, RatesTypeOK
  <2> QED
    BY <1>1, <2>2 DEF RatesInv, RatesTypeOK
<1>3. ReadsSoon'
  <2>1. phase \in Nat
    BY RatesTyped DEF RatesInv
  <2> QED
    BY <1>1, <2>1 DEF ReadClock, ReadsSoon, RatesInv, RatesTypeOK
<1>4. (Unprotected' <=> Unprotected) /\ (CountersApart' <=> CountersApart) /\ (WindowsApart' <=> WindowsApart)
  BY <1>1 DEF Unprotected, CountersApart, WindowsApart
<1> QED
  BY <1>1, <1>2, <1>3, <1>4 DEF RatesInv

LEMMA TickInv == ASSUME RatesConstants, RatesInv, RatesTick PROVE RatesInv'
<1> DEFINE rolls == phase = Window - 1 /\ policy # "otp"
<1>1. /\ RatesTypeOK /\ phase' = (IF phase = Window - 1 THEN 0 ELSE phase + 1)
      /\ UNCHANGED <<policy, straddled, storeFailed>>
  BY DEF RatesInv, RatesTick
<1>0. /\ Limit \in Nat \ {0} /\ Window \in Nat \ {0} /\ MaxDelay \in 0 .. Window /\ phase \in 0 .. Window - 1
      /\ phase' \in 0 .. Window - 1
  <2>1. Limit \in Nat \ {0} /\ Window \in Nat \ {0} /\ MaxDelay \in 0 .. Window /\ phase \in 0 .. Window - 1
    BY <1>1, RatesTyped
  <2> QED
    BY <1>1, <2>1
<1>2. /\ \A a \in Age : Lapse(counter[a]) \in Counter /\ Ends(Lapse(counter[a]))
      /\ \A a \in 0 .. 2 : Aged(passed[a]) \in List
      /\ NoCounter \in Counter /\ Ends(NoCounter) /\ NonePassed \in List
  BY <1>1, RatesTyped, CounterMoves, ListMoves, NothingCounted
<1>3. CASE rolls
  <2>1. /\ \A r \in Request : attempt[r].at = "count" => attempt[r].delay < MaxDelay
        /\ counter' = Shift([a \in Age |-> Lapse(counter[a])], NoCounter)
        /\ given' = Shift(given, 0)
        /\ passed' = Shift([a \in 0 .. 2 |-> Aged(passed[a])], NonePassed)
        /\ attempt' = [r \in Request |->
                        IF attempt[r].at = "idle" THEN attempt[r]
                        ELSE [attempt[r] EXCEPT !.delay = @ + 1, !.age = @ + 1]]
        /\ phase' = 0
    BY <1>1, <1>3, RatesTyped DEF RatesTick
  <2>2. /\ counter' = [a \in Age |-> IF a = 0 THEN NoCounter ELSE Lapse(counter[0])]
        /\ given' = [a \in Age |-> IF a = 0 THEN 0 ELSE given[0]]
        /\ passed' = [a \in 0 .. 2 |-> IF a = 0 THEN NonePassed ELSE Aged(passed[a - 1])]
    <3>1. \A a \in Age : a # 0 => a - 1 = 0
      BY DEF Age
    <3>2. \A a \in 0 .. 2 : a # 0 => a - 1 \in 0 .. 2
      OBVIOUS
    <3> QED
      BY <1>1, <2>1, <3>1, <3>2, RatesTyped DEF Shift
  <2>3. /\ counter'[0] = NoCounter /\ counter'[1] = Lapse(counter[0]) /\ given'[0] = 0 /\ given'[1] = given[0]
        /\ passed'[0] = NonePassed /\ passed'[1] = Aged(passed[0]) /\ passed'[2] = Aged(passed[1])
    BY <2>2 DEF Age
  <2>4. ASSUME NEW r \in Request, attempt[r].at = "count"
        PROVE  attempt[r].age = 0 /\ attempt'[r].age = 1 /\ attempt'[r].at = "count"
               /\ attempt'[r].delay = attempt[r].delay + 1 /\ attempt'[r].delay \in 1 .. MaxDelay
    <3>1. attempt[r] \in [at : {"idle", "count"}, age : Age, delay : 0 .. MaxDelay] /\ attempt[r].delay < MaxDelay
      BY <1>1, <2>1, <2>4 DEF RatesTypeOK
    <3>2. attempt[r].age = 0
      BY <1>1, <1>3, <2>4, <3>1, RatesTyped DEF RatesInv, ReadsSoon
    <3>3. attempt'[r] = [attempt[r] EXCEPT !.delay = @ + 1, !.age = @ + 1]
      BY <2>1, <2>4
    <3> QED
      BY <1>1, <2>4, <3>1, <3>2, <3>3, RatesTyped
  <2>5. attempt' \in [Request -> [at : {"idle", "count"}, age : Age, delay : 0 .. MaxDelay]]
    <3>1. ASSUME NEW r \in Request PROVE attempt'[r] \in [at : {"idle", "count"}, age : Age, delay : 0 .. MaxDelay]
      <4>1. attempt[r] \in [at : {"idle", "count"}, age : Age, delay : 0 .. MaxDelay]
        BY <1>1 DEF RatesTypeOK
      <4>2. CASE attempt[r].at = "idle"
        BY <2>1, <4>1, <4>2
      <4>3. CASE attempt[r].at = "count"
        <5>1. attempt'[r] = [attempt[r] EXCEPT !.delay = @ + 1, !.age = @ + 1]
          BY <2>1, <4>3
        <5>2. attempt[r].delay + 1 \in 0 .. MaxDelay /\ attempt[r].age + 1 \in Age
          <6>1. attempt[r].delay + 1 \in 0 .. MaxDelay
            <7>1. attempt[r].delay < MaxDelay
              BY <2>1, <4>3
            <7>2. attempt[r].delay \in 0 .. MaxDelay
              BY <4>1
            <7> QED
              BY <1>0, <7>1, <7>2
          <6>2. attempt[r].age = 0
            BY <2>4, <4>3
          <6> QED
            BY <6>1, <6>2 DEF Age
        <5> QED
          BY <4>1, <5>1, <5>2
      <4> QED
        BY <4>1, <4>2, <4>3
    <3> QED
      BY <2>1, <3>1
  <2>6. RatesTypeOK'
    <3>1. counter' \in [Age -> Counter] /\ \A a \in Age : Ends(counter'[a])
      BY <1>1, <1>2, <2>2, RatesTyped
    <3>2. passed' \in [0 .. 2 -> List]
      <4>1. \A a \in 0 .. 2 : a # 0 => a - 1 \in 0 .. 2
        OBVIOUS
      <4> QED
        BY <1>2, <2>2, <4>1
    <3>3. given' \in [Age -> 0 .. Cap] /\ phase' \in 0 .. Window - 1
      <4>1. 0 \in Age /\ 0 \in 0 .. Cap /\ given \in [Age -> 0 .. Cap]
        BY <1>1, RatesTyped
      <4> QED
        BY <1>0, <2>2, <4>1
    <3> QED
      BY <1>1, <2>5, <3>1, <3>2, <3>3 DEF RatesTypeOK, Counter, List, Ends
  <2>7. ReadsSoon'
    <3> SUFFICES ASSUME NEW r \in Request, attempt'[r].at = "count"
                 PROVE  IF attempt'[r].age = 0 THEN attempt'[r].delay <= phase' ELSE phase' < attempt'[r].delay
      BY <1>1, <1>3 DEF ReadsSoon
    <3>1. attempt[r].at = "count"
      BY <1>1, <2>1 DEF RatesTypeOK
    <3>2. attempt'[r].age = 1 /\ attempt'[r].delay \in 1 .. MaxDelay
      BY <2>4, <3>1
    <3>3. attempt'[r].age # 0 /\ 0 < attempt'[r].delay
      BY <1>0, <3>2
    <3> QED
      BY <2>1, <3>3
  <2>8. ASSUME ~Unprotected' PROVE CountersApart' /\ WindowsApart'
    <3>1. CountersApart /\ WindowsApart
      BY <1>1, <2>8 DEF RatesInv, Unprotected
    <3>2. Apart(counter[0], passed[0]) /\ Listed(passed[0], given[0]) /\ Apart(counter[1], passed[1])
      BY <1>1, <3>1, RatesTyped DEF CountersApart
    <3>3. Apart(Lapse(counter[0]), Aged(passed[0])) /\ Listed(Aged(passed[0]), given[0])
      BY <1>1, <3>2, RatesTyped, AgesApart, ListedMoves
    <3>4. Aged(passed[1])[2 * Limit] = Window
      <4>0. counter[1] \in Counter /\ Ends(counter[1])
        BY <1>1, RatesTyped
      <4>1. 2 * Limit \in 1 .. 2 * Limit /\ 2 * Limit >= Limit + Kept(counter[1])
        <5>1. Kept(counter[1]) \in 0 .. Limit
          BY <4>0, KeptFew
        <5> QED
          BY <1>0, <5>1
      <4> QED
        BY <1>1, <3>2, <4>1, RatesTyped, ListMoves DEF Apart
    <3>5. CountersApart'
      BY <2>3, <3>3, <3>4, NothingCounted DEF CountersApart, Age
    <3>6. InWindow(counter[0], given[0], phase) /\ policy' # "otp" /\ phase = Window - 1
      BY <1>1, <1>3, <3>1 DEF WindowsApart
    <3>7. AfterWindow(Lapse(counter[0]), given[0], 0) /\ given[0] <= Limit
      BY <1>1, <3>6, RatesTyped, CountsInWindow
    <3>8. ASSUME ~straddled', NEW i \in 1 .. 2 * Limit PROVE passed'[1][i] > 0 /\ passed'[2][i] = Window
      <4>1. passed[1][i] > phase
        BY <1>1, <1>3, <3>1, <3>8 DEF WindowsApart
      <4>2. \A j \in 1 .. 2 * Limit : passed[0][j] \in 0 .. Window /\ passed[1][j] \in 0 .. Window
        BY <1>1, RatesTyped, ListMoves
      <4>3. /\ Aged(passed[0])[i] = (IF passed[0][i] = Window THEN Window ELSE passed[0][i] + 1)
            /\ Aged(passed[1])[i] = (IF passed[1][i] = Window THEN Window ELSE passed[1][i] + 1)
        BY <1>1, RatesTyped, ListMoves
      <4> QED
        BY <1>0, <1>3, <2>3, <4>1, <4>2, <4>3
    <3>9. WindowsApart'
      BY <2>1, <2>3, <3>7, <3>8, NothingCounted DEF WindowsApart
    <3> QED
      BY <3>5, <3>9
  <2> QED
    BY <1>1, <2>6, <2>7, <2>8 DEF RatesInv
<1>4. CASE ~rolls
  <2>1. /\ \A r \in Request : attempt[r].at = "count" => attempt[r].delay < MaxDelay
        /\ counter' = [a \in Age |-> Lapse(counter[a])] /\ UNCHANGED given
        /\ passed' = [a \in 0 .. 2 |-> Aged(passed[a])]
        /\ attempt' = [r \in Request |-> IF attempt[r].at = "idle" THEN attempt[r]
                                         ELSE [attempt[r] EXCEPT !.delay = @ + 1, !.age = @]]
    <3>1. ~((IF phase = Window - 1 THEN 0 ELSE phase + 1) = 0 /\ policy # "otp")
      BY <1>0, <1>4
    <3> QED
      BY <3>1 DEF RatesTick
  <2>2. /\ \A a \in Age : counter'[a] = Lapse(counter[a])
        /\ passed'[0] = Aged(passed[0]) /\ passed'[1] = Aged(passed[1]) /\ passed'[2] = Aged(passed[2])
        /\ policy # "otp" => phase < Window - 1 /\ phase' = phase + 1
    <3>1. policy # "otp" => phase < Window - 1 /\ phase' = phase + 1
      BY <1>0, <1>1, <1>4
    <3>2. \A a \in Age : counter'[a] = Lapse(counter[a])
      BY <2>1
    <3>3. \A a \in 0 .. 2 : passed'[a] = Aged(passed[a])
      BY <2>1
    <3> QED
      BY <3>1, <3>2, <3>3
  <2>3. ASSUME NEW r \in Request, attempt[r].at = "count"
        PROVE  /\ attempt[r].delay \in Nat /\ attempt'[r].age = attempt[r].age /\ attempt'[r].at = "count"
               /\ attempt'[r].delay = attempt[r].delay + 1
    <3>1. attempt[r] \in [at : {"idle", "count"}, age : Age, delay : 0 .. MaxDelay]
      BY <1>1 DEF RatesTypeOK
    <3>2. attempt'[r] = [attempt[r] EXCEPT !.delay = @ + 1, !.age = @]
      BY <2>1, <2>3
    <3> QED
      BY <1>1, <2>3, <3>1, <3>2, RatesTyped
  <2>4. attempt' \in [Request -> [at : {"idle", "count"}, age : Age, delay : 0 .. MaxDelay]]
    <3>1. ASSUME NEW r \in Request PROVE attempt'[r] \in [at : {"idle", "count"}, age : Age, delay : 0 .. MaxDelay]
      <4>1. attempt[r] \in [at : {"idle", "count"}, age : Age, delay : 0 .. MaxDelay]
        BY <1>1 DEF RatesTypeOK
      <4>2. CASE attempt[r].at = "idle"
        BY <2>1, <4>1, <4>2
      <4>3. CASE attempt[r].at = "count"
        <5>1. attempt'[r] = [attempt[r] EXCEPT !.delay = @ + 1, !.age = @] /\ attempt[r].delay < MaxDelay
          BY <2>1, <4>3
        <5>2. attempt[r].delay + 1 \in 0 .. MaxDelay /\ attempt[r].age \in Age
          BY <1>0, <4>1, <5>1
        <5> QED
          BY <4>1, <5>1, <5>2
      <4> QED
        BY <4>1, <4>2, <4>3
    <3> QED
      BY <2>1, <3>1
  <2>5. RatesTypeOK'
    <3>1. counter' \in [Age -> Counter] /\ \A a \in Age : Ends(counter'[a])
      BY <1>2, <2>1
    <3>2. passed' \in [0 .. 2 -> List]
      BY <1>2, <2>1
    <3>3. given' \in [Age -> 0 .. Cap] /\ phase' \in 0 .. Window - 1
      BY <1>0, <1>1, <2>1, RatesTyped
    <3> QED
      BY <1>1, <2>4, <3>1, <3>2, <3>3 DEF RatesTypeOK, Counter, List, Ends
  <2>6. ReadsSoon'
    <3>1. ASSUME NEW r \in Request, policy = "otp" PROVE attempt'[r].age = 0
      <4>1. attempt[r] \in [at : {"idle", "count"}, age : Age, delay : 0 .. MaxDelay] /\ attempt[r].age = 0
        BY <1>1, <3>1 DEF RatesTypeOK, RatesInv, ReadsSoon
      <4> QED
        BY <2>1, <2>3, <4>1
    <3>2. ASSUME NEW r \in Request, policy # "otp", attempt'[r].at = "count"
          PROVE  IF attempt'[r].age = 0 THEN attempt'[r].delay <= phase' ELSE phase' < attempt'[r].delay
      <4>1. attempt[r].at = "count"
        BY <1>1, <2>1, <3>2 DEF RatesTypeOK
      <4>2. IF attempt[r].age = 0 THEN attempt[r].delay <= phase ELSE phase < attempt[r].delay
        BY <3>2, <4>1 DEF RatesInv, ReadsSoon
      <4> QED
        BY <1>1, <2>2, <2>3, <3>2, <4>1, <4>2, RatesTyped
    <3> QED
      BY <1>1, <3>1, <3>2 DEF ReadsSoon
  <2>7. ASSUME ~Unprotected' PROVE CountersApart' /\ WindowsApart'
    <3>1. CountersApart /\ WindowsApart
      BY <1>1, <2>7 DEF RatesInv, Unprotected
    <3>2. ASSUME NEW a \in Age PROVE Apart(counter'[a], passed'[a]) /\ Listed(passed'[a], given'[a])
      <4>1. Apart(counter[a], passed[a]) /\ Listed(passed[a], given[a])
        BY <3>1 DEF CountersApart
      <4>2. counter'[a] = Lapse(counter[a]) /\ passed'[a] = Aged(passed[a]) /\ given'[a] = given[a]
        BY <1>1, <2>1, RatesTyped
      <4> QED
        BY <1>1, <4>1, <4>2, RatesTyped, AgesApart, ListedMoves
    <3>3. passed'[2][2 * Limit] = Window
      BY <1>1, <2>2, <3>1, RatesTyped, ListMoves DEF CountersApart
    <3>4. CountersApart'
      BY <3>2, <3>3 DEF CountersApart
    <3>5. ASSUME policy # "otp"
          PROVE  InWindow(counter'[0], given'[0], phase') /\ AfterWindow(counter'[1], given'[1], phase')
      <4>1. InWindow(counter[0], given[0], phase) /\ AfterWindow(counter[1], given[1], phase)
        BY <3>1, <3>5 DEF WindowsApart
      <4>2. /\ counter'[0] = Lapse(counter[0]) /\ counter'[1] = Lapse(counter[1]) /\ UNCHANGED given
            /\ phase < Window - 1 /\ phase' = phase + 1
        BY <1>1, <2>1, <2>2, <3>5, RatesTyped
      <4>3. InWindow(Lapse(counter[0]), given[0], phase + 1) /\ AfterWindow(Lapse(counter[1]), given[1], phase + 1)
        BY <1>1, <4>1, <4>2, RatesTyped, CountsInWindow
      <4> QED
        BY <4>2, <4>3
    <3>6. ASSUME policy # "otp", ~straddled', NEW i \in 1 .. 2 * Limit
          PROVE  given'[1] <= Limit /\ passed'[1][i] > phase' /\ passed'[2][i] = Window
      <4>1. given[1] <= Limit /\ passed[1][i] > phase /\ passed[2][i] = Window
        BY <1>1, <3>1, <3>6 DEF WindowsApart
      <4>2. phase < Window - 1 /\ phase' = phase + 1 /\ given'[1] = given[1]
        BY <2>1, <2>2, <3>6
      <4>3. passed'[1][i] = (IF passed[1][i] = Window THEN Window ELSE passed[1][i] + 1)
        BY <1>1, <2>2, RatesTyped, ListMoves
      <4>4. passed'[2][i] = Window
        BY <1>1, <2>2, <4>1, RatesTyped, ListMoves
      <4>5. passed[1][i] \in 0 .. Window
        BY <1>1, RatesTyped, ListMoves
      <4> QED
        BY <1>0, <4>1, <4>2, <4>3, <4>4, <4>5
    <3>7. 1 \in 1 .. 2 * Limit
      BY <1>1, RatesTyped
    <3>8. WindowsApart'
      BY <1>1, <3>5, <3>6, <3>7 DEF WindowsApart
    <3> QED
      BY <3>4, <3>8
  <2> QED
    BY <1>1, <2>5, <2>6, <2>7 DEF RatesInv
<1> QED
  BY <1>3, <1>4

LEMMA RatesStep == RatesConstants /\ RatesInv /\ [RatesNext]_ratesVars => RatesInv'
<1> SUFFICES ASSUME RatesConstants, RatesInv, [RatesNext]_ratesVars PROVE RatesInv'
  OBVIOUS
<1>1. CASE UNCHANGED ratesVars
  <2>1. UNCHANGED <<policy, phase, counter, attempt, passed, given, straddled, storeFailed>>
    BY <1>1 DEF ratesVars
  <2>2. (RatesTypeOK' <=> RatesTypeOK) /\ (ReadsSoon' <=> ReadsSoon)
    BY <2>1 DEF RatesTypeOK, ReadsSoon
  <2>3. (Unprotected' <=> Unprotected) /\ (CountersApart' <=> CountersApart) /\ (WindowsApart' <=> WindowsApart)
    BY <2>1 DEF Unprotected, CountersApart, WindowsApart
  <2> QED
    BY <2>1, <2>2, <2>3 DEF RatesInv
<1>2. CASE RatesTick
  BY <1>2, TickInv
<1>3. CASE \E r \in Request : ReadClock(r) \/ Count(r) \/ CountFails(r)
  BY <1>3, ReadClockInv, CountInv, CountFailsInv
<1> QED
  BY <1>1, <1>2, <1>3 DEF RatesNext

\* At most n of a list are recent when all from the n-th on are old.
LEMMA FewRecent ==
  ASSUME RatesConstants, NEW s \in List, NEW n \in 0 .. 2 * Limit, \A i \in 1 .. 2 * Limit : i > n => s[i] = Window
  PROVE  /\ Cardinality({i \in 1 .. 2 * Limit : s[i] < Window}) \in Nat
         /\ Cardinality({i \in 1 .. 2 * Limit : s[i] < Window}) <= n
<1> DEFINE S == {i \in 1 .. 2 * Limit : s[i] < Window}
<1>1. S \subseteq 1 .. n
  BY DEF RatesConstants
<1>2. IsFiniteSet(1 .. n) /\ Cardinality(1 .. n) = n
  BY FS_Interval
<1>3. IsFiniteSet(S)
  BY <1>1, <1>2, FS_Subset
<1>4. Cardinality(S) <= n
  BY <1>1, <1>2, FS_Subset
<1>5. Cardinality(S) \in Nat
  BY <1>3, FS_CardinalityType
<1> QED
  BY <1>4, <1>5

LEMMA RatesFollow == ASSUME RatesConstants, RatesInv PROVE RatesBounded
<1>1. RatesTypeOK
  BY DEF RatesInv
<1> SUFFICES ASSUME ~Unprotected PROVE RecentBounded /\ WindowBounded
  BY <1>1 DEF RatesBounded
<1>2. CountersApart /\ WindowsApart
  BY DEF RatesInv
<1>3. Limit \in Nat \ {0} /\ 2 * Limit - 1 \in 0 .. 2 * Limit /\ Limit \in 0 .. 2 * Limit
  BY DEF RatesConstants
<1>4. ASSUME NEW a \in 0 .. 2 PROVE Recently(a) \in Nat /\ Recently(a) <= 2 * Limit - 1
  <2>1. passed[a][2 * Limit] = Window
    <3>1. CASE a \in Age
      <4>1. Apart(counter[a], passed[a]) /\ counter[a] \in Counter /\ Ends(counter[a])
        BY <1>1, <1>2, <3>1, RatesTyped DEF CountersApart
      <4>2. Kept(counter[a]) \in 0 .. Limit
        BY <4>1, KeptFew
      <4>3. 2 * Limit >= Limit + Kept(counter[a]) /\ 2 * Limit \in 1 .. 2 * Limit
        BY <1>3, <4>2
      <4> QED
        BY <4>1, <4>3 DEF Apart
    <3>2. CASE a = 2
      BY <1>2, <3>2 DEF CountersApart
    <3> QED
      BY <3>1, <3>2 DEF Age
  <2>2. \A i \in 1 .. 2 * Limit : i > 2 * Limit - 1 => passed[a][i] = Window
    BY <1>3, <2>1
  <2>3. passed[a] \in List
    BY <1>1, RatesTyped
  <2> QED
    BY <1>3, <2>2, <2>3, FewRecent DEF Recently
<1>5. ASSUME policy # "otp" PROVE given[0] <= Limit /\ given[1] <= 2 * Limit /\ (~straddled => given[1] <= Limit)
  BY <1>1, <1>2, <1>5, RatesTyped, CounterMoves DEF WindowsApart, InWindow, AfterWindow
<1>6. ASSUME NEW a \in Age, given[a] <= Limit PROVE Recently(a) <= Limit
  <2>1. \A i \in 1 .. 2 * Limit : i > Limit => passed[a][i] = Window
    BY <1>1, <1>2, <1>3, <1>6, RatesTyped DEF CountersApart, Listed
  <2>2. passed[a] \in List
    BY <1>1, RatesTyped
  <2> QED
    BY <1>3, <2>1, <2>2, FewRecent DEF Recently
<1>7. ASSUME policy # "otp", ~straddled PROVE Recently(2) <= 0
  <2>1. \A i \in 1 .. 2 * Limit : i > 0 => passed[2][i] = Window
    BY <1>2, <1>7 DEF WindowsApart
  <2>2. passed[2] \in List /\ 0 \in 0 .. 2 * Limit
    BY <1>1, <1>3, RatesTyped
  <2> QED
    BY <2>1, <2>2, FewRecent DEF Recently
<1>8. ASSUME policy # "otp"
      PROVE  Recently(0) + Recently(1) + Recently(2) <= IF straddled THEN 5 * Limit - 2 ELSE 2 * Limit
  <2>1. /\ Recently(0) \in Nat /\ Recently(1) \in Nat /\ Recently(2) \in Nat
        /\ Recently(1) <= 2 * Limit - 1 /\ Recently(2) <= 2 * Limit - 1
    BY <1>4
  <2>2. Recently(0) <= Limit
    BY <1>5, <1>6, <1>8 DEF Age
  <2>3. ~straddled => Recently(1) <= Limit /\ Recently(2) <= 0
    BY <1>5, <1>6, <1>7, <1>8 DEF Age
  <2> QED
    BY <1>3, <2>1, <2>2, <2>3
<1>9. RecentBounded
  BY <1>4, <1>8 DEF RecentBounded
<1>10. WindowBounded
  BY <1>1, <1>3, <1>5, RatesTyped DEF WindowBounded, Age
<1> QED
  BY <1>9, <1>10

\* Both limiters bound what passes per window and in the time of one, however requests overlap, the
\* store fails and requests come late to be counted (rate_limiter.go, otp_rate_limiter.go), for any
\* number of requests, any limit and any window.
THEOREM RatesBoundedAlways == RatesConstants => (RatesSpec => []RatesBounded)
<1> SUFFICES ASSUME RatesConstants PROVE RatesSpec => []RatesBounded
  OBVIOUS
<1>1. RatesInit => RatesInv
  BY RatesStart
<1>2. RatesInv /\ [RatesNext]_ratesVars => RatesInv'
  BY RatesStep
<1>3. RatesInv => RatesBounded
  BY RatesFollow
<1> QED
  BY <1>1, <1>2, <1>3, PTL DEF RatesSpec

----------------------------------------------------------------------------
(* The limiter of the chat *)

Budget == [messages : 0 .. MessageLimit, messageLeft : 0 .. MessageWindow + 1,
           typings : 0 .. TypingLimit, typingLeft : 0 .. TypingWindow + 1,
           state : Typing \cup {"none"}, since : 0 .. Cooldown, idle : 0 .. Keep + 1]

\* All messages but those of the budget's window are as old as the window, its own first one too. A
\* budget was in use whenever it let a message through.
Spent(b, list) ==
  /\ b.messageLeft > 0 => b.messages > 0
  /\ \A i \in 1 .. 2 * MessageLimit :
       /\ i >= MessageLimit + b.messages => list[i] = MessageWindow + 1
       /\ b.messages > 0 /\ i >= b.messages => list[i] + b.messageLeft >= MessageWindow + 1
       /\ b.idle <= list[i] \/ list[i] = MessageWindow + 1

\* At most one typing event is on its way, and the state recorded last is on its way or was told.
TypingTold ==
  ~unpublished /\ ~crossed =>
    /\ ~hidden
    /\ \A c, d \in Conn : conn[c] # "none" /\ conn[d] # "none" => c = d
    /\ budget.state # "none" =>
         \/ \E d \in Conn : conn[d] = budget.state
         \/ shown = budget.state /\ \A d \in Conn : conn[d] = "none"

TalkInv == TalkTypeOK /\ Spent(budget, sent) /\ TypingTold

LEMMA TalkTyped ==
  ASSUME TalkConstants, TalkTypeOK
  PROVE  /\ budget \in Budget /\ sent \in [1 .. 2 * MessageLimit -> 0 .. MessageWindow + 1]
         /\ \A i \in 1 .. 2 * MessageLimit : sent[i] \in 0 .. MessageWindow + 1
         /\ DOMAIN sent = 1 .. 2 * MessageLimit
BY DEF TalkTypeOK, Budget

LEMMA BudgetFields ==
  ASSUME NEW b \in Budget
  PROVE  /\ b.messages \in 0 .. MessageLimit /\ b.messageLeft \in 0 .. MessageWindow + 1
         /\ b.typings \in 0 .. TypingLimit /\ b.typingLeft \in 0 .. TypingWindow + 1
         /\ b.state \in Typing \cup {"none"} /\ b.since \in 0 .. Cooldown /\ b.idle \in 0 .. Keep + 1
BY DEF Budget

\* A budget that was found is the one that is kept, or one never used when all is long ago.
LEMMA FoundBudget ==
  ASSUME TalkConstants, TalkInv, NEW cleans \in BOOLEAN
  PROVE  /\ Found(cleans) \in Budget /\ Spent(Found(cleans), sent) /\ Found(cleans).idle = 0
         /\ Found(cleans).state = budget.state \/ Found(cleans).state = "none"
<1>1. /\ MessageLimit \in Nat \ {0} /\ MessageWindow \in Nat /\ Keep \in Nat /\ MessageWindow <= Keep
      /\ Cooldown \in Nat /\ TypingLimit \in Nat /\ TypingWindow \in Nat
  BY DEF TalkConstants
<1>2. budget \in Budget /\ Spent(budget, sent)
  BY TalkTyped DEF TalkInv
<1>3. CASE cleans /\ budget.idle > Keep
  <2>1. Found(cleans) = [Empty EXCEPT !.idle = 0]
    BY <1>3 DEF Found, Cleanup
  <2>2. /\ Empty \in Budget /\ Empty.messages = 0 /\ Empty.messageLeft = 0 /\ Empty.state = "none" /\ Empty.idle = 0
    BY <1>1 DEF Empty, Budget, Typing
  <2>3. Found(cleans) = Empty
    BY <2>1 DEF Empty
  <2>4. \A i \in 1 .. 2 * MessageLimit : sent[i] = MessageWindow + 1
    <3> SUFFICES ASSUME NEW i \in 1 .. 2 * MessageLimit PROVE sent[i] = MessageWindow + 1
      OBVIOUS
    <3>1. sent[i] \in 0 .. MessageWindow + 1
      BY TalkTyped DEF TalkInv
    <3>2. budget.idle <= sent[i] \/ sent[i] = MessageWindow + 1
      BY <1>2 DEF Spent
    <3>3. budget.idle \in 0 .. Keep + 1
      BY <1>2, BudgetFields
    <3> QED
      BY <1>1, <1>3, <3>1, <3>2, <3>3
  <2>5. Spent(Empty, sent)
    BY <1>1, <2>2, <2>4 DEF Spent
  <2> QED
    BY <2>2, <2>3, <2>5
<1>4. CASE ~(cleans /\ budget.idle > Keep)
  <2>1. Found(cleans) = [budget EXCEPT !.idle = 0]
    BY <1>4 DEF Found, Cleanup
  <2>2. 0 \in 0 .. Keep + 1
    BY <1>1
  <2>3. PICK f : f = Found(cleans)
    OBVIOUS
  <2>4. /\ f \in Budget /\ f.idle = 0 /\ f.messages = budget.messages /\ f.messageLeft = budget.messageLeft
        /\ f.state = budget.state
    BY <1>2, <2>1, <2>2, <2>3 DEF Budget
  <2>5. \A i \in 1 .. 2 * MessageLimit : 0 <= sent[i]
    BY <1>1, TalkTyped DEF TalkInv
  <2>6. Spent(f, sent)
    BY <1>2, <2>4, <2>5 DEF Spent
  <2> QED
    BY <2>3, <2>4, <2>6
<1> QED
  BY <1>3, <1>4

LEMMA TalkStart == ASSUME TalkConstants, TalkInit PROVE TalkInv
<1>1. /\ MessageLimit \in Nat \ {0} /\ MessageWindow \in Nat /\ Keep \in Nat
      /\ Cooldown \in Nat /\ TypingLimit \in Nat /\ TypingWindow \in Nat
  BY DEF TalkConstants
<1>2. /\ Empty \in Budget /\ Empty.messages = 0 /\ Empty.messageLeft = 0 /\ Empty.state = "none"
  BY <1>1 DEF Empty, Budget, Typing
<1>3. TalkTypeOK
  <2>1. budget \in Budget
    BY <1>2 DEF TalkInit
  <2>2. /\ conn \in [Conn -> Typing \cup {"none"}] /\ shown \in Typing \cup {"none"}
        /\ sent \in [1 .. 2 * MessageLimit -> 0 .. MessageWindow + 1]
    BY <1>1 DEF TalkInit
  <2> QED
    BY <2>1, <2>2 DEF TalkTypeOK, TalkInit, Budget
<1>4. Spent(budget, sent)
  BY <1>1, <1>2 DEF Spent, TalkInit
<1>5. TypingTold
  BY <1>2 DEF TypingTold, TalkInit
<1> QED
  BY <1>3, <1>4, <1>5 DEF TalkInv

LEMMA AllowMessageInv == ASSUME TalkConstants, TalkInv, AllowMessage PROVE TalkInv'
<1>1. MessageLimit \in Nat \ {0} /\ MessageWindow \in Nat /\ Keep \in Nat
  BY DEF TalkConstants
<1>2. PICK cleans \in BOOLEAN :
        LET found == Found(cleans)
            b == IF found.messageLeft = 0
                 THEN [found EXCEPT !.messages = 0, !.messageLeft = MessageWindow + 1] ELSE found
        IN \/ /\ b.messages < MessageLimit
              /\ budget' = [b EXCEPT !.messages = @ + 1]
              /\ sent' = [i \in DOMAIN sent |-> IF i = 1 THEN 0 ELSE sent[i - 1]]
           \/ b.messages >= MessageLimit /\ budget' = b /\ UNCHANGED sent
  BY DEF AllowMessage
<1>3. PICK f : f = Found(cleans)
  OBVIOUS
<1>4. PICK b : b = IF f.messageLeft = 0 THEN [f EXCEPT !.messages = 0, !.messageLeft = MessageWindow + 1] ELSE f
  OBVIOUS
<1>5. \/ /\ b.messages < MessageLimit
         /\ budget' = [b EXCEPT !.messages = @ + 1]
         /\ sent' = [i \in DOMAIN sent |-> IF i = 1 THEN 0 ELSE sent[i - 1]]
      \/ b.messages >= MessageLimit /\ budget' = b /\ UNCHANGED sent
  BY <1>2, <1>3, <1>4
<1>6. /\ f \in Budget /\ Spent(f, sent) /\ f.idle = 0 /\ (f.state = budget.state \/ f.state = "none")
  BY <1>3, FoundBudget
<1>7. /\ b \in Budget /\ b.idle = 0 /\ b.state = f.state /\ b.messageLeft > 0
      /\ f.messageLeft = 0 => b.messages = 0 /\ b.messageLeft = MessageWindow + 1
      /\ f.messageLeft # 0 => b = f
  <2>1. CASE f.messageLeft = 0
    <3>1. b = [f EXCEPT !.messages = 0, !.messageLeft = MessageWindow + 1]
      BY <1>4, <2>1
    <3>2. 0 \in 0 .. MessageLimit /\ MessageWindow + 1 \in 0 .. MessageWindow + 1 /\ MessageWindow + 1 > 0
      BY <1>1
    <3> QED
      BY <1>6, <2>1, <3>1, <3>2 DEF Budget
  <2>2. CASE f.messageLeft # 0
    <3>1. b = f
      BY <1>4, <2>2
    <3>2. f.messageLeft \in 0 .. MessageWindow + 1
      BY <1>6, BudgetFields
    <3> QED
      BY <1>1, <1>6, <2>2, <3>1, <3>2
  <2> QED
    BY <2>1, <2>2
<1>8. /\ f.messages \in 0 .. MessageLimit /\ f.messageLeft \in 0 .. MessageWindow + 1
      /\ b.messages \in 0 .. MessageLimit /\ b.messageLeft \in 0 .. MessageWindow + 1
      /\ \A i \in 1 .. 2 * MessageLimit : sent[i] \in 0 .. MessageWindow + 1
      /\ DOMAIN sent = 1 .. 2 * MessageLimit
  BY <1>6, <1>7, BudgetFields, TalkTyped DEF TalkInv
<1>9. /\ f.messageLeft > 0 => f.messages > 0
      /\ \A i \in 1 .. 2 * MessageLimit :
           /\ i >= MessageLimit + f.messages => sent[i] = MessageWindow + 1
           /\ f.messages > 0 /\ i >= f.messages => sent[i] + f.messageLeft >= MessageWindow + 1
  BY <1>6 DEF Spent
<1>10. UNCHANGED <<conn, shown, hidden, unpublished, crossed>>
  BY DEF AllowMessage
<1>11. CASE b.messages < MessageLimit
  <2>1. budget' = [b EXCEPT !.messages = @ + 1] /\ sent' = [i \in DOMAIN sent |-> IF i = 1 THEN 0 ELSE sent[i - 1]]
    <3>1. ~(b.messages >= MessageLimit)
      BY <1>1, <1>8, <1>11
    <3> QED
      BY <1>5, <3>1
  <2>2. b.messages + 1 \in 0 .. MessageLimit
    BY <1>1, <1>8, <1>11
  <2>3. PICK n : n = budget'
    OBVIOUS
  <2>4. /\ n \in Budget /\ n.messages = b.messages + 1 /\ n.messageLeft = b.messageLeft /\ n.idle = 0 /\ n.state = b.state
    BY <1>7, <2>1, <2>2, <2>3 DEF Budget
  <2>5. \A i \in 1 .. 2 * MessageLimit : sent'[i] = IF i = 1 THEN 0 ELSE sent[i - 1]
    BY <1>8, <2>1
  <2>6. sent' \in [1 .. 2 * MessageLimit -> 0 .. MessageWindow + 1]
    <3>1. \A i \in 1 .. 2 * MessageLimit : i # 1 => i - 1 \in 1 .. 2 * MessageLimit
      BY <1>1
    <3>2. 0 \in 0 .. MessageWindow + 1
      BY <1>1
    <3> QED
      BY <1>8, <2>1, <3>1, <3>2
  <2>7. ASSUME NEW i \in 1 .. 2 * MessageLimit
        PROVE  /\ i >= MessageLimit + n.messages => sent'[i] = MessageWindow + 1
               /\ i >= n.messages => sent'[i] + n.messageLeft >= MessageWindow + 1
               /\ n.idle <= sent'[i]
    <3>1. CASE i = 1
      <4>1. sent'[i] = 0 /\ ~(i >= MessageLimit + n.messages)
        <5>1. b.messages \in Nat
          BY <1>8
        <5>2. ~(1 >= MessageLimit + n.messages)
          BY <1>1, <2>4, <5>1
        <5> QED
          BY <2>5, <3>1, <5>2
      <4>2. i >= n.messages => b.messages = 0
        BY <1>8, <2>4, <3>1
      <4>3. b.messages = 0 => n.messageLeft = MessageWindow + 1
        BY <1>7, <1>8, <1>9, <2>4
      <4>4. i >= n.messages => sent'[i] + n.messageLeft >= MessageWindow + 1
        BY <1>1, <4>1, <4>2, <4>3
      <4>5. n.idle <= sent'[i]
        BY <2>4, <4>1
      <4> QED
        BY <4>1, <4>4, <4>5
    <3>2. CASE i # 1
      <4>1. PICK j \in 1 .. 2 * MessageLimit : j = i - 1 /\ sent'[i] = sent[j]
        BY <1>1, <2>5, <3>2
      <4>2. CASE f.messageLeft = 0
        <5>1. b.messages = 0 /\ n.messages = 1 /\ n.messageLeft = MessageWindow + 1
          BY <1>7, <2>4, <4>2
        <5>2. f.messages > 0 /\ j >= f.messages => sent[j] >= MessageWindow + 1
          BY <1>1, <1>8, <1>9, <4>2
        <5>3. j >= MessageLimit => sent[j] = MessageWindow + 1
          BY <1>1, <1>8, <1>9, <5>2
        <5> QED
          BY <1>1, <1>8, <2>4, <4>1, <5>1, <5>3
      <4>3. CASE f.messageLeft # 0
        <5>1. b = f /\ f.messages > 0
          BY <1>7, <1>8, <1>9, <4>3
        <5>2. n.messages = f.messages + 1 /\ n.messageLeft = f.messageLeft /\ n.idle = 0
          BY <2>4, <5>1
        <5>3. /\ j >= MessageLimit + f.messages => sent[j] = MessageWindow + 1
              /\ j >= f.messages => sent[j] + f.messageLeft >= MessageWindow + 1
              /\ sent[j] \in 0 .. MessageWindow + 1
          BY <1>8, <1>9, <5>1
        <5>4. f.messages \in Nat /\ f.messageLeft \in Nat /\ j \in Nat /\ i = j + 1
          BY <1>1, <1>8, <4>1
        <5>5. i >= MessageLimit + n.messages => j >= MessageLimit + f.messages
          BY <1>1, <5>2, <5>4
        <5>6. i >= n.messages => j >= f.messages
          BY <5>2, <5>4
        <5>7. n.idle <= sent'[i]
          BY <1>1, <4>1, <5>2, <5>3
        <5> QED
          BY <4>1, <5>2, <5>3, <5>5, <5>6, <5>7
      <4> QED
        BY <4>2, <4>3
    <3> QED
      BY <3>1, <3>2
  <2>8. Spent(budget', sent')
    <3>1. n.messages > 0
      BY <1>8, <2>4
    <3> QED
      BY <2>3, <2>7, <3>1 DEF Spent
  <2>9. TypingTold'
    BY <1>6, <1>7, <1>10, <2>3, <2>4 DEF TalkInv, TypingTold
  <2>10. TalkTypeOK'
    BY <1>10, <2>3, <2>4, <2>6 DEF TalkInv, TalkTypeOK, Budget
  <2> QED
    BY <2>8, <2>9, <2>10 DEF TalkInv
<1>12. CASE ~(b.messages < MessageLimit)
  <2>1. budget' = b /\ sent' = sent
    BY <1>5, <1>12
  <2>2. b = f
    BY <1>1, <1>7, <1>8, <1>12
  <2>3. TypingTold'
    BY <1>6, <1>10, <2>1, <2>2 DEF TalkInv, TypingTold
  <2>4. TalkTypeOK'
    BY <1>7, <1>10, <2>1 DEF TalkInv, TalkTypeOK, Budget
  <2> QED
    BY <1>6, <2>1, <2>2, <2>3, <2>4 DEF TalkInv
<1> QED
  BY <1>11, <1>12

\* A budget that differs in nothing that messages ask for.
LEMMA SpentAlike ==
  ASSUME NEW b, NEW d, NEW list, Spent(b, list), d.messages = b.messages, d.messageLeft = b.messageLeft, d.idle = b.idle
  PROVE  Spent(d, list)
BY DEF Spent

LEMMA AllowTypingInv ==
  ASSUME TalkConstants, TalkInv, NEW c \in Conn, NEW typing \in Typing, AllowTyping(c, typing) PROVE TalkInv'
<1>1. TypingLimit \in Nat /\ TypingWindow \in Nat /\ Cooldown \in Nat
  BY DEF TalkConstants
<1>2. PICK cleans \in BOOLEAN :
       LET found == Found(cleans)
           b == IF found.typingLeft = 0
                THEN [found EXCEPT !.typings = 0, !.typingLeft = TypingWindow + 1] ELSE found
       IN \/ /\ Redundant(found, typing)
             /\ budget' = found /\ hidden' = (hidden \/ (shown # typing /\ \A d \in Conn : conn[d] # typing))
             /\ UNCHANGED <<conn, crossed>>
          \/ /\ ~Redundant(found, typing) /\ ~TypingFits(b)
             /\ budget' = b
             /\ UNCHANGED <<conn, hidden, crossed>>
          \/ /\ ~Redundant(found, typing) /\ TypingFits(b)
             /\ budget' = [b EXCEPT !.typings = @ + 1, !.state = typing, !.since = 0]
             /\ conn' = [conn EXCEPT ![c] = typing]
             /\ crossed' = (crossed \/ \E d \in Conn : conn[d] # "none")
             /\ UNCHANGED hidden
  BY DEF AllowTyping
<1>3. PICK f : f = Found(cleans)
  OBVIOUS
<1>4. PICK b : b = IF f.typingLeft = 0 THEN [f EXCEPT !.typings = 0, !.typingLeft = TypingWindow + 1] ELSE f
  OBVIOUS
<1>5. f \in Budget /\ Spent(f, sent) /\ (f.state = budget.state \/ f.state = "none")
  BY <1>3, FoundBudget
<1>6. /\ b \in Budget /\ b.state = f.state /\ b.messages = f.messages /\ b.messageLeft = f.messageLeft /\ b.idle = f.idle
  <2>1. 0 \in 0 .. TypingLimit /\ TypingWindow + 1 \in 0 .. TypingWindow + 1
    BY <1>1
  <2>2. CASE f.typingLeft = 0
    <3>1. b = [f EXCEPT !.typings = 0, !.typingLeft = TypingWindow + 1]
      BY <1>4, <2>2
    <3> QED
      BY <1>5, <2>1, <3>1 DEF Budget
  <2>3. CASE f.typingLeft # 0
    BY <1>4, <1>5, <2>3
  <2> QED
    BY <2>2, <2>3
<1>7. UNCHANGED <<shown, sent, unpublished>> /\ conn[c] = "none"
  BY DEF AllowTyping
<1>8. CASE /\ Redundant(f, typing)
           /\ budget' = f /\ hidden' = (hidden \/ (shown # typing /\ \A d \in Conn : conn[d] # typing))
           /\ UNCHANGED <<conn, crossed>>
  <2>1. TalkTypeOK'
    BY <1>5, <1>7, <1>8 DEF TalkInv, TalkTypeOK, Budget
  <2>2. f.state = typing /\ budget.state = typing /\ typing # "none"
    BY <1>5, <1>8 DEF Redundant, Typing
  <2>3. ASSUME ~unpublished, ~crossed PROVE hidden' = hidden
    <3>1. (\E d \in Conn : conn[d] = typing) \/ shown = typing
      BY <2>2, <2>3 DEF TalkInv, TypingTold
    <3>2. hidden \in BOOLEAN
      BY DEF TalkInv, TalkTypeOK
    <3> QED
      BY <1>8, <3>1, <3>2
  <2>4. TypingTold'
    BY <1>7, <1>8, <2>2, <2>3 DEF TalkInv, TypingTold
  <2> QED
    BY <1>5, <1>7, <1>8, <2>1, <2>4 DEF TalkInv
<1>9. CASE budget' = b /\ UNCHANGED <<conn, hidden, crossed>>
  <2>1. TalkTypeOK'
    BY <1>6, <1>7, <1>9 DEF TalkInv, TalkTypeOK, Budget
  <2>2. TypingTold'
    BY <1>5, <1>6, <1>7, <1>9 DEF TalkInv, TypingTold
  <2>3. Spent(budget', sent')
    BY <1>5, <1>6, <1>7, <1>9, SpentAlike
  <2> QED
    BY <2>1, <2>2, <2>3 DEF TalkInv
<1>10. CASE /\ TypingFits(b)
            /\ budget' = [b EXCEPT !.typings = @ + 1, !.state = typing, !.since = 0]
            /\ conn' = [conn EXCEPT ![c] = typing]
            /\ crossed' = (crossed \/ \E d \in Conn : conn[d] # "none")
            /\ UNCHANGED hidden
  <2>1. b.typings + 1 \in 0 .. TypingLimit /\ 0 \in 0 .. Cooldown
    BY <1>1, <1>6, <1>10, BudgetFields DEF TypingFits
  <2>2. PICK n : n = budget'
    OBVIOUS
  <2>3. /\ n \in Budget /\ n.messages = b.messages /\ n.messageLeft = b.messageLeft /\ n.idle = b.idle /\ n.state = typing
    BY <1>6, <1>10, <2>1, <2>2 DEF Budget
  <2>4. conn \in [Conn -> Typing \cup {"none"}] /\ crossed \in BOOLEAN
    BY DEF TalkInv, TalkTypeOK
  <2>5. TalkTypeOK'
    <3>1. conn' \in [Conn -> Typing \cup {"none"}] /\ crossed' \in BOOLEAN
      BY <1>10, <2>4
    <3> QED
      BY <1>7, <1>10, <2>2, <2>3, <3>1 DEF TalkInv, TalkTypeOK, Budget
  <2>6. Spent(budget', sent')
    BY <1>5, <1>6, <1>7, <2>2, <2>3, SpentAlike
  <2>7. ASSUME ~unpublished', ~crossed'
        PROVE  /\ ~hidden' /\ \A a, d \in Conn : conn'[a] # "none" /\ conn'[d] # "none" => a = d
               /\ conn'[c] = budget'.state
    <3>1. ~crossed /\ \A d \in Conn : conn[d] = "none"
      BY <1>10, <2>7
    <3>2. ~hidden
      BY <1>7, <2>7, <3>1 DEF TalkInv, TypingTold
    <3> QED
      BY <1>10, <2>2, <2>3, <2>4, <3>1, <3>2
  <2>8. TypingTold'
    BY <2>7 DEF TypingTold
  <2> QED
    BY <2>5, <2>6, <2>8 DEF TalkInv
<1> QED
  BY <1>2, <1>3, <1>4, <1>8, <1>9, <1>10

LEMMA PublishInv == ASSUME TalkConstants, TalkInv, NEW c \in Conn, Publish(c) PROVE TalkInv'
<1>1. /\ conn \in [Conn -> Typing \cup {"none"}] /\ conn[c] # "none" /\ conn' = [conn EXCEPT ![c] = "none"]
      /\ \/ shown' = conn[c] /\ UNCHANGED unpublished
         \/ unpublished' = TRUE /\ UNCHANGED shown
      /\ UNCHANGED <<budget, sent, hidden, crossed>>
  BY DEF Publish, TalkInv, TalkTypeOK
<1>2. TalkTypeOK'
  BY <1>1 DEF TalkInv, TalkTypeOK
<1>3. TypingTold'
  <2> SUFFICES ASSUME ~unpublished', ~crossed'
               PROVE  /\ ~hidden' /\ \A a, d \in Conn : conn'[a] # "none" /\ conn'[d] # "none" => a = d
                      /\ budget'.state # "none" => shown' = budget'.state /\ \A d \in Conn : conn'[d] = "none"
    BY DEF TypingTold
  <2>1. shown' = conn[c] /\ ~unpublished /\ ~crossed
    BY <1>1
  <2>2. /\ ~hidden /\ \A a, d \in Conn : conn[a] # "none" /\ conn[d] # "none" => a = d
        /\ budget.state # "none" => \E d \in Conn : conn[d] = budget.state
    BY <1>1, <2>1 DEF TalkInv, TypingTold
  <2>3. \A d \in Conn : conn'[d] = "none"
    BY <1>1, <2>2
  <2>4. budget.state # "none" => conn[c] = budget.state
    BY <1>1, <2>2
  <2> QED
    BY <1>1, <2>1, <2>2, <2>3, <2>4
<1> QED
  BY <1>1, <1>2, <1>3 DEF TalkInv

LEMMA TalkTickInv == ASSUME TalkConstants, TalkInv, TalkTick PROVE TalkInv'
<1>1. /\ MessageLimit \in Nat \ {0} /\ MessageWindow \in Nat /\ Keep \in Nat /\ MessageWindow <= Keep
      /\ Cooldown \in Nat /\ TypingLimit \in Nat /\ TypingWindow \in Nat
  BY DEF TalkConstants
<1>2. /\ budget \in Budget /\ Spent(budget, sent) /\ DOMAIN sent = 1 .. 2 * MessageLimit
      /\ \A i \in 1 .. 2 * MessageLimit : sent[i] \in 0 .. MessageWindow + 1
  BY TalkTyped DEF TalkInv
<1>3. /\ budget.messages \in 0 .. MessageLimit /\ budget.messageLeft \in 0 .. MessageWindow + 1
      /\ budget.typingLeft \in 0 .. TypingWindow + 1 /\ budget.since \in 0 .. Cooldown /\ budget.idle \in 0 .. Keep + 1
  BY <1>2, BudgetFields
<1>4. /\ Less(budget.messageLeft) \in 0 .. MessageWindow + 1 /\ Less(budget.typingLeft) \in 0 .. TypingWindow + 1
      /\ More(budget.since, Cooldown) \in 0 .. Cooldown /\ More(budget.idle, Keep + 1) \in 0 .. Keep + 1
  BY <1>1, <1>3 DEF Less, More
<1>5. budget' = [budget EXCEPT !.messageLeft = Less(@), !.typingLeft = Less(@),
                               !.since = More(@, Cooldown), !.idle = More(@, Keep + 1)]
  BY DEF TalkTick
<1>6. PICK n : n = budget'
  OBVIOUS
<1>7. /\ n \in Budget /\ n.messages = budget.messages /\ n.messageLeft = Less(budget.messageLeft)
      /\ n.idle = More(budget.idle, Keep + 1) /\ n.state = budget.state
  BY <1>2, <1>4, <1>5, <1>6 DEF Budget
<1>8. \A i \in 1 .. 2 * MessageLimit : sent'[i] = IF sent[i] = MessageWindow + 1 THEN MessageWindow + 1 ELSE sent[i] + 1
  BY <1>2 DEF TalkTick, More
<1>9. sent' \in [1 .. 2 * MessageLimit -> 0 .. MessageWindow + 1]
  <2>1. \A i \in 1 .. 2 * MessageLimit : More(sent[i], MessageWindow + 1) \in 0 .. MessageWindow + 1
    BY <1>1, <1>2 DEF More
  <2> QED
    BY <1>2, <2>1 DEF TalkTick
<1>10. UNCHANGED <<conn, shown, hidden, unpublished, crossed>>
  BY DEF TalkTick
<1>11. TalkTypeOK'
  BY <1>6, <1>7, <1>9, <1>10 DEF TalkInv, TalkTypeOK, Budget
<1>12. TypingTold'
  BY <1>6, <1>7, <1>10 DEF TalkInv, TypingTold
<1>13. Spent(n, sent')
  <2>1. n.messageLeft > 0 => n.messages > 0
    BY <1>2, <1>3, <1>7 DEF Spent, Less
  <2>2. ASSUME NEW i \in 1 .. 2 * MessageLimit
        PROVE  /\ i >= MessageLimit + n.messages => sent'[i] = MessageWindow + 1
               /\ n.messages > 0 /\ i >= n.messages => sent'[i] + n.messageLeft >= MessageWindow + 1
               /\ n.idle <= sent'[i] \/ sent'[i] = MessageWindow + 1
    <3>1. /\ i >= MessageLimit + budget.messages => sent[i] = MessageWindow + 1
          /\ budget.messages > 0 /\ i >= budget.messages => sent[i] + budget.messageLeft >= MessageWindow + 1
          /\ budget.idle <= sent[i] \/ sent[i] = MessageWindow + 1
      BY <1>2 DEF Spent
    <3>2. sent[i] \in 0 .. MessageWindow + 1
      BY <1>2
    <3>3. /\ n.messageLeft = (IF budget.messageLeft = 0 THEN 0 ELSE budget.messageLeft - 1)
          /\ n.idle = (IF budget.idle = Keep + 1 THEN Keep + 1 ELSE budget.idle + 1)
      BY <1>7 DEF Less, More
    <3>4. sent'[i] = IF sent[i] = MessageWindow + 1 THEN MessageWindow + 1 ELSE sent[i] + 1
      BY <1>8
    <3> QED
      BY <1>1, <1>3, <1>7, <3>1, <3>2, <3>3, <3>4
  <2> QED
    BY <2>1, <2>2 DEF Spent
<1> QED
  BY <1>6, <1>11, <1>12, <1>13 DEF TalkInv

LEMMA TalkStep == TalkConstants /\ TalkInv /\ [TalkNext]_talkVars => TalkInv'
<1> SUFFICES ASSUME TalkConstants, TalkInv, [TalkNext]_talkVars PROVE TalkInv'
  OBVIOUS
<1>1. CASE UNCHANGED talkVars
  <2>1. UNCHANGED <<budget, conn, shown, sent, hidden, unpublished, crossed>>
    BY <1>1 DEF talkVars
  <2> QED
    BY <2>1 DEF TalkInv, TalkTypeOK, TypingTold
<1>2. CASE AllowMessage
  BY <1>2, AllowMessageInv
<1>3. CASE \E c \in Conn : Publish(c) \/ \E typing \in Typing : AllowTyping(c, typing)
  BY <1>3, PublishInv, AllowTypingInv
<1>4. CASE TalkTick
  BY <1>4, TalkTickInv
<1> QED
  BY <1>1, <1>2, <1>3, <1>4 DEF TalkNext

LEMMA TalkFollows == ASSUME TalkConstants, TalkInv PROVE ChatBounded
<1>1. MessageLimit \in Nat \ {0} /\ MessageWindow \in Nat /\ 2 * MessageLimit \in 1 .. 2 * MessageLimit
  BY DEF TalkConstants
<1>2. 2 * MessageLimit >= MessageLimit + budget.messages
  <2>1. budget.messages \in 0 .. MessageLimit
    BY TalkTyped, BudgetFields DEF TalkInv
  <2> QED
    BY <1>1, <2>1
<1>3. sent[2 * MessageLimit] = MessageWindow + 1
  BY <1>1, <1>2 DEF TalkInv, Spent
<1>4. MessagesBounded
  BY <1>1, <1>3 DEF MessagesBounded
<1>5. CoalescedIsKnown
  BY DEF TalkInv, TypingTold, CoalescedIsKnown
<1> QED
  BY <1>4, <1>5 DEF TalkInv, ChatBounded

\* The chat's limiter lets less than two windows' messages pass in the time of one, and drops no
\* typing event the other side does not know, but for the two cases it names (chat_limiter.go), for
\* any number of connections, any limits and any windows.
THEOREM ChatBoundedAlways == TalkConstants => (TalkSpec => []ChatBounded)
<1> SUFFICES ASSUME TalkConstants PROVE TalkSpec => []ChatBounded
  OBVIOUS
<1>1. TalkInit => TalkInv
  BY TalkStart
<1>2. TalkInv /\ [TalkNext]_talkVars => TalkInv'
  BY TalkStep
<1>3. TalkInv => ChatBounded
  BY TalkFollows
<1> QED
  BY <1>1, <1>2, <1>3, PTL DEF TalkSpec
=============================================================================
