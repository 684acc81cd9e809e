# EasyRide server: TLA+ models, checks and proofs

EasyRide is a ride-hailing system: two Flutter applications (driver, passenger),
an admin web page and one Go server over PostgreSQL, Redis and MinIO. This
directory models the server wherever correctness depends on the order of things:
overlapping requests, late answers, lost messages, expiring locks, failing stores.

Paths below are relative to `src/server/internal`. `D` is `modules/dispatch`, `R`
is `modules/ride`, `A` is `modules/auth`, `P` is `platform`.

## 1. Inventory

| Component | State | Operations | What makes it hard | What makes it correct |
|---|---|---|---|---|
| Dispatch bidding (`D/app/bidding.go`, `D/adapter/postgres`) | `bid_sessions`, `bid_offers`, `rides`, presence | create, cancel and decline a session; place and withdraw an offer; accept an offer | concurrent transactions over three tables, deadlines that pass during a lock wait, statements on a snapshot, deadlocks | one booking per passenger, driver capacity, one decision per session, every request ends |
| Ride booking (`R/app/booking.go`, `ride_writer.go`, `ride_acceptance_store.go`) | `rides`; fare route cache and flights in memory | create a ride, accept a ride, estimate a fare | shares both policies above through other code; owners of a flight that leave, fail or panic | as above; one provider call per route, followers get the provider's result, bounded age |
| Ride lifecycle (`R/app/lifecycle.go`, `ride_lifecycle_store.go`, `R/domain`) | the `rides` row, `ride_events` | accept, arrive, start, complete, no-show, cancel, emergency stop | decisions on an unlocked read, written by compare-and-set; retries; two readings of one ride in one command | legal status path, truthful history, answers that stay true, blame with evidence |
| Cash settlement (`R/app/settlement.go`, `settlement_store.go`) | `ride_settlements`, `wallet_ledgers`, `driver_wallet_accounts` | settle a ride in cash | retries, corrections, two rides crediting one wallet, creation of the wallet, a split with a remainder or nothing left | balance = ledger = record = answer |
| Idempotency middleware (`P/httpx/middleware/idempotency.go`) | result and lock per key, in Redis or memory | run once, replay, refuse | lock expiry, failed store, eviction, crash | a command runs at most once per key while its answer is kept; where it does not, a fault is to blame |
| Realtime hub and connection (`P/ws`) | topics, bounded queues, three goroutines per connection | subscribe, publish, deliver, close; read, write, expire | eviction while the consumer reads, close against refill, goroutines that wait for each other | no send on a closed channel, critical events delivered or the subscription closed, everything ends and nothing leaks |
| Events and assignment lookup (`P/events`, `D/app/resolver.go`, `assignment_projection.go`) | per process: assignments by ride and by driver | observe, look up, remember | events published after the commit, out of order; lost while disconnected; lookups crossing events | the two indexes agree; a stale entry has a cause |
| Sessions (`A/app/authenticate.go`, `otp.go`, `token.go`) | `users`, `refresh_sessions` | login, refresh, logout, password reset, e-mail change | rotation behind a revocation, revoke-update-revoke, failing steps | a change ends the sessions there were; a dead token gets no successor |
| Registration and one-time codes (`A/app/otp.go`, `register.go`, `A/adapter/redis`) | pending registration, code, attempts, account | register, resend, verify | codes presented together, guesses while a code is replaced, undo of what may be another's | a code is accepted once and struck at its limit; the account is of the code that was verified |
| Location tracking (`modules/location`) | four Redis keys per driver, one per ride | ingest, remove, search, share, read | check, write, check again, remove; sweeps crossing a new point; points out of order | no point written while offline stays, a live point is found, a point is never replaced by an older one |
| Driver presence (`modules/user`, presence queries) | `driver_profiles`, account row | save, go on- and offline, accept | opposite lock orders, profiles read long before they are written | a driver with a ride is online with the vehicle the ride shows |
| Circuit breaker (`P/resilience`) | failures, opening time, probe flag | call, record | results of calls begun in an earlier state | half-open has its one probe; an open breaker tries again |
| Rate limiters (`P/httpx/middleware/rate_limiter.go`, `otp_rate_limiter.go`, `chat_limiter.go`) | counters per window, chat budgets | count, allow, coalesce | a window read before its counter, budgets dropped, Redis failing | bounded requests per window, nobody kept out for ever, only known typing states dropped |
| Chat (`modules/chat`) | room hash, list, watermarks in Redis; pictures | open, send, read, resolve | several Redis calls per request, lost answers, stamps out of order | picture iff message, seen means acknowledged, resolved for good |
| Reviews (`modules/review`) | two tables with unique indexes | create, page | check and insert without a transaction, paging while rows come | one review per ride, answers stand, pages complete and disjoint |
| Private objects (`P/storage/minio`, avatars, documents, `cmd/storage-migrate`) | bucket, rows, references | upload, replace, review, download, migrate, contract | three stores without a transaction, uploads and downloads against the migration, calls that fail | referenced bytes are kept, orphans and corruption have a cause |
| Server process (`app/app.go`) | goroutines, stores, listener | start, serve, drain, stop | four goroutines that may end in any order, deferred waits | serves only when ready, says why it ended, ends and leaves nothing behind |
| Reports, statistics, history, HTTP decoding, schema, configuration, clients | - | - | - | - |

How they interact: handlers call application services, which call store methods;
those of bidding, booking, lifecycle, settlement and presence share the tables `rides`,
`users`, `driver_profiles` and `bid_sessions`, and meet only there. After a
commit a service publishes an event, which goes to the local hub and projection and
over Redis to those of the other processes. An accepted offer or request creates
the ride the lifecycle moves and the settlement `SettleCash` later fills; an
ended ride gives driver and passenger their capacity back.

`PROJECT.json` lists the hazards of this code one by one, each at its line, with the
properties that cover them.

## 2. Modules

| Module | Models | Actions |
|---|---|---|
| `Bidding` | what the booking tables promise: every store transaction at the instant it commits | `CreateSession CreateRide ExpireBidSessions CancelBidSession AcceptOffer PlaceOffer CancelOffer DeclineSession AcceptRide EndRide SetPresence PassDeadline` |
| `BiddingTx` (EXTENDS `Bidding`) | the same transactions statement by statement under READ COMMITTED: locks held, rows the running UPDATE still has to lock, uncommitted writes | one action per lock, per updated row, per check and per commit; deadlock detection; abandonment |
| `RideLifecycle` | one ride and the commands on it | a `Read...` and a `Write...` action per command, `Reload` (second read of `Cancel`), `WriteFails`, time and movement |
| `Settlement` | `SettleCash` statement by statement | `SettleCash LockRide CreateWalletLedger LockWallet CreateDriverWalletAccount Commit Abandon CompleteRide` |
| `AtMostOnce` | what the idempotency middleware promises | `Begin End Forget` |
| `Idempotency` | the middleware over its Redis or memory store | one action per store call, the command's start and end, expiry, eviction, `Crash` |
| `RealtimeHub` | `Publish`, `Subscribe`, `Close` of hub and subscription, each between two locks or channel operations | `Subscribe Publish ... Push Drain Refill Receive Leave CloseStep CloseHub` |
| `RealtimeConnection` | owner, reader and writer goroutine of a websocket | `Main ReadPump WritePump Expire ClientChanges PongMissed HubCloses` |
| `AssignmentProjection` | `rides`, publications, subscriber, projection and resolver of every process | `Accept Advance Age PublishLocal PublishRedis Dispatch Disconnect Reconnect Restart Miss ReadAuthority Answer` |
| `AuthSessions` | sessions of one account | the statements of login, refresh, logout, reset and e-mail change, `GraceEnds` |
| `Registration` | one e-mail address | the store calls of register, resend and verify, their failures, expiry |
| `Tracking` | one driver's four keys, a ride's points | the scripts of ingest, removal and search, their failures, expiry, presence |
| `DriverPresence` | one driver's profile and account rows | the statements of save, toggle and acceptance, rollback, deadlock detection |
| `CircuitBreaker` | the breaker's critical sections | `Do Succeed Fail Panic Cancel Tick` |
| `FareRoutes` | fare cache, flights and the provider's route cache | `Lookup`, the steps of owner and follower, `Leave Tick` |
| `RateLimits`, `ChatLimits` | the counters and the middlewares over them; the chat budget | `ReadClock Count CountFails RatesTick`; `AllowMessage AllowTyping Publish TalkTick` |
| `Chat` | one room | the Redis calls of open, send, read and resolve, their failures |
| `Reviews` | both tables, one paging client | `Submit Validate Check Stamp Commit Load ...`, `CursorPage OffsetPage` |
| `PrivateObjects` | bucket, rows, references, the migration | the calls of upload, replacement, review, download; `Migrate... Verify... Contract` |
| `ServerLifecycle` | `Run` and its goroutines | its select cases and deferred functions, subscriber, monitor, server, handlers |
| `BiddingProofs`, `RideLifecycleProofs`, `SettlementProofs`, `TrackingProofs` | theorems about the module they are named after (`BiddingProofs` also about `BiddingTx`), with the inductive invariants and lemmas they need | |
| `RequestProofs`, `EventProofs`, `ContentProofs` | the same about the modules that `MCRequests`, `MCEvents` and `MCContent` compose | |
| `ProcessProofs` | the same about `CircuitBreaker`, `FareRoutes`, `ServerLifecycle` and `RealtimeConnection` | |
| `MC...` | what TLC checks together | |

**Composites.** `BiddingTx` and `Bidding` share their variables: the refinement
mapping is the identity, and `RefinesBidding` says that a step of a transaction
changes no committed row or is a step of `Bidding`. `Idempotency` implements `AtMostOnce`
under `phase <- PhaseOf`, a function of the store and the running requests
(`ImplementsAtMostOnce`; `RunsOncePerKey` of `MCRequests` is the same for the behaviours of the run
that move the instance `Calm`). The other `MC` modules put together components that share no state, and extend as many of them as
they can, so that a run checks the very definitions the theorems are about: `MCRequests` the middleware, the registration
and the sessions; `MCEvents` the hub and the projection; `MCGuards` the breaker, the limiters and the fare routes; `MCServing` the process and the connection;
`MCContent` presence, chat, reviews and private objects; others are instances. Whatever names two components would both give a
definition carry the component's (`ChatNext`, `ReviewNext`, `ServerNext`). A variable `focus`, fixed in the initial state, says which one moves: since no
step of one reads or writes what another owns, interleaving them could only show
the same states of each in more combinations. A component that is checked in several settings is either
instantiated once for each (`Calm` and `Memory` of the middleware) or moves under the state constraint of
the setting (`OneRide`, `OneProcess`; `Talking`, `Acknowledging`; `RatingOneRide`, `Paging`; `Storing`, `Migrating`).

### What the models take from the code, and what they leave out

* **History variables.** Where the code tolerates an outcome only after a fault or a
  crossing of requests, the model records that cause (`lapsed`, `excuse`, `slipped`,
  `swept`, `stray`, `broken`, `lost`, ...) and the property asks for it. They
  are read by no guard.
* **Time.** A request reads `time.Now()` once and compares later; models keep where
  that reading stands. Expiry is an action (`Tick`, `Age`, `GraceEnds`, ...), or,
  where it needs no bound, relative: ticks since and ticks left.
* **Snapshots.** `ExpireBidSessions` and `CancelBidSession` are single statements
  with several CTEs over one snapshot. An offer inserted while they wait for the
  session row is missed and stays pending on a closed session. `Bidding` has
  this as the set `missed`; `BiddingTx` derives it from locks and snapshots.
* **Locks.** FOR UPDATE and the row locks of UPDATE are exclusive. The KEY SHARE
  lock of a foreign key is a condition of the commit step, which is where it is the
  last wait. In `BiddingTx` `driver_profiles` and the driver's `users` row, locked by
  one query, are one row; `DriverPresence`, where others lock them singly, has both.
* **Unique indexes** on open sessions, pending offers and active rides are left out:
  the properties hold without them. Those of the review tables are what makes
  `ReviewsStand` true and are modelled.
* **Redis.** A Lua script or a MULTI is one step. A call that fails may have been
  executed. Pub/sub forgets what a disconnected process misses.
* **Ride status.** `Bidding` merges `assigned`, `accepted`, `arrived` and
  `in_transit`, which its queries treat alike. `RideLifecycle` merges `assigned`
  with `accepted`: no command of this version writes `assigned`.
* **Money.** Fares of 2 and 3 units and a commission of one half, so that the split of one
  of them is rounded; the row of one ride may hold a commission of the whole fare, so that
  nothing is left to pay. `NewSettlementSnapshot` keeps the check against the largest integer, but
  no settlement reaches it: acceptance refuses such a fare (`FaresSplit`).
* **Downloads.** `ObjectStore.Read` is two steps, the row and then the object, and each may find
  nothing or fail. `GetAvatar` answers every error of it with `ErrAvatarCorrupt`, so a failed call
  (`failed`) is one of the causes of that answer, and `CorruptNeedsCause` says what a download
  without one may find. Bytes that differ from their checksum are not modelled.
* **Route metrics.** Location requests fill the provider's route cache too (`LocationRoute`), which
  is how an estimate meets a route that is already some time old.
* Names, coordinates, distances, texts, token formats, hashes, payloads, the audit
  trail and logging are left out. Input checks only refuse a request before it starts.

Other things the models made visible, for which no run is kept:

* An acceptance counts the driver's rides before its last lock waits. If one of the rides ends meanwhile, the driver's
  other offers are withdrawn although there is room again (`full` of `Bidding!AcceptOffer`). The proof that
  `BiddingTx` implements `Bidding` failed on this while the model had the count exact.
* `CancelBidSession` rejects the pending offers of a session even when the caller does not own
  it or it is no longer open; a declined session keeps its pending offers.
* `CanTransition` allows an ordinary cancellation after pickup, although a comment in `status.go`
  says it "is not valid after pickup".
* An `EmergencyStop` that repeats the reason of the same actor's ordinary cancellation is
  acknowledged although the responsibility recorded is not `safety_related`.
* The hub closes a subscription whose queue was full when a critical event came, also when its
  reader made room while the publisher drained it.
* `ForRide` remembers the one ride it looked up as the driver's whole list, and answers
  from the projection without asking PostgreSQL; `StaleNeedsCause` (in `ProjectionHolds`)
  names the crossings after which that list is stale.
* A password reset or an e-mail change can leave the successor of a session that was being rotated
  when the revocation took its snapshot (`slipped`).
* A call that began before the breaker opened and reports late can let a second probe in (`stray`).
* A login whose upgrade of a legacy hash commits without an answer is refused by its own recheck, like the
  one that loses the upgrade to another login.
* A download that times out, or whose client goes, is answered like a corrupt picture.
* Two registrations of one address are not kept apart: the pending record stored last is confirmed by
  whichever code is valid. `AccountIsOfItsCode` excuses them (`mixed`); `CodesHold` does not.
* A passenger's points are stored in the order they come, not in the order they were taken.

## 3. Runs

| Run | Bounds | Shows |
|---|---|---|
| `bidding` | three scenes: 3 requests of any kind of one passenger and one driver; 2 passengers and the last seat of a driver with a ride in progress; 2 rival drivers. Capacity 2, 2 sessions, 3 rides | `TypeOK`, `OneActiveBooking`, `CapacityRespected`, `AcceptanceConsistent`, `DecidedOnce`, `RefinesBidding` |
| `tx_deadlock` | 2 acceptances, 2 drivers of capacity 1 with offers on both sessions | violates `AcceptancesDoNotDeadlock` |
| `transactions` | 2 bookings of any kind; 2 rides of a driver, 2 settlement slots used again and again, 5 claims, a ride that leaves its driver nothing settled alone; 4 requests on a profile; fair | `BooksAgree`, `WalletIsLedger`, `EveryTransactionEnds` |
| `rides` | 2 drivers, the passenger and 2 command slots used again and again | `EventsTellHistory`, `AnswersHold`, `BlameNeedsEvidence`, `StatusPath` |
| `lifecycle_cancel_replay` | as for the lifecycle above | violates `CancelAcknowledgesOwnCancellation` |
| `serving` | 2 clients; one connection; 2 publishers and a closer on a queue of one; fair | `ServesWhenReady`, `ExitExplained`, `ReleasesAll`, `EverybodyEnds` |
| `events` | 3 publishers, 4 events (3 critical), a queue of two; 2 processes and 2 rides of a driver, one of either at work at a time | `RefillIsSafe`, `CriticalNotLost`, `ProjectionHolds` |
| `guards` | 4 calls, threshold 2; 2 requests, limit 2 per window of 2; 2 connections, 2 messages per window; 3 callers, 2 routes, caches of one, both lifetimes 2, location requests before the first estimate; fair | `ProbeHeld`, `RatesBounded`, `ChatBounded`, `RoutesShared`, `NobodyShutOut` |
| `requests` | 2 registrations, a resend and 3 verifications, 2 guesses; 3 requests on sessions; 3 under one key with two bodies (without and with faults) and under two keys of a memory store for two | `CodesHold`, `AccountIsOfItsCode`, `OldSessionsEnd`, `NoSuccessorOfDead`, `SecondRunNeedsFault`, `LocksBounded`, `RunsOncePerKey` |
| `auth_legacy_upgrade` | 2 logins of an account with a legacy hash | violates `RefusalNeedsReset` |
| `drivers` | 3 points, a search, lifetime 2 of 3 ticks; 3 points of a passenger and a read | `NothingWrittenOffline`, `PointsHold`, `NeverOlder` |
| `content` | 2 saves, 2 toggles, 4 acceptances, capacity 2; 4 chat requests (3 where pictures are sent and rooms resolved, 4 where messages are acknowledged), 2 reviews of one ride or 3 rides paged one by one while 2 are rated, 2 avatars, a document, the migration with a download | `RideHasItsDriver`, `MessagesHold`, `NeverTurnsBack`, `ReviewsStand`, `StorageHolds` |

`BooksAgree`, `ProbeHeld` and the other properties named after a whole component are conjunctions of
named parts, stated with their reasons in the component's module, the type invariant first. A property "unless" a
cause (`SecondRunNeedsFault`, `StaleNeedsCause`, `HiddenNeedsSweep`, `OrphanNeedsCause`, ...) says
exactly when the code gives its promise up.

Why the bounds are enough to be interesting. Two overlapping requests are what every race
of two lock orders, of check and write, or of read and compare-and-set needs; a third
changes the row the other two disagree about, and where a race needs three, there are three
(a publisher between eviction and refill, a verifier between two registrants). Slots
of `RideLifecycle`, `Settlement`, `CircuitBreaker`, `RateLimits` and `ServerLifecycle` are used again, so
sequences have any length. Drivers with one seat left, a queue of one or two, a cache and a window of one make every
operation the one that reaches the limit. Clocks reach the longest lifetime or run one or two ticks past it, so
that every entry can lapse while something else is alive. `BiddingTx` starts with open sessions and pending
offers in place, so that all requests are spent on the contention. `MCEvents` and `MCContent` bound what is
in flight at a time by state constraints (`FewAtATime`, and the settings named above) and break symmetry by order (`InOrder`, `Paging`).

Symmetry is over interchangeable requests, processes and drivers, and is not used where liveness is
checked. Systems whose requests run once stop when all have, and a server stops when it is
told to (`CHECK_DEADLOCK FALSE`); `rides`, whose slots go on for ever, checks for deadlock.

**Fairness.**

* `transactions`: weak fairness of a booking's next statement and of the deadlock detector, strong
  fairness of the steps of settlements and profile requests. A handler goroutine goes on without its
  client, PostgreSQL queues the waiters of a row and wakes them, and its detector runs by itself.
  Nothing is assumed about new requests, drivers or time.
* `serving`: each goroutine of a process or a connection goes on when it can; handlers give
  their pool connection back, but need not return (the drain has a deadline). Strong fairness of
  single select cases: Go chooses among the ready ones at random. Strong fairness of publishers
  and closers of the hub: `sync.Mutex` does not starve a waiter. Clients owe nothing: they may never read,
  answer or leave.
* `guards`: time passes, calls end by their timeouts, handler goroutines go on, and (only for the
  breaker, which cannot try again without a caller) callers keep arriving.

### Disagreements found

1. `tx_deadlock`: a comment in `offer_acceptance_store.go` says that locking the driver
   first "prevents two sessions from deadlocking while each withdraws the other
   session's outstanding offer". That holds for one driver. With drivers a and b
   bidding on sessions 1 and 2, one acceptance locks a's offer on 1, the other b's
   offer on 2; then the first must reject b's on 1 and, a being full, a's on 2,
   while the second must reject a's on 2 and b's on 1. Each can hold the row
   the other needs. PostgreSQL aborts one (so `transactions` still passes) and a
   passenger gets an error.
2. `lifecycle_cancel_replay`: `Cancel` checks whose cancellation is recorded on its
   first read only. If the other side cancels before the second read, the caller is
   told that its own cancellation succeeded; a test demands that a cancellation the record
   does not match is refused.
3. `auth_legacy_upgrade`: two logins verify the same legacy hash and both upgrade it.
   The one whose update matches no row takes the other's upgrade for a password reset, is refused, and revokes
   every session of the account; the comment on the recheck names only resets as its purpose.

## 4. Proofs

| Theorem | Statement |
|---|---|
| `BiddingProofs!TypeCorrect` | `Spec => []TypeOK` |
| `BiddingProofs!OneActiveBookingHolds` | `Spec => []OneActiveBooking` |
| `BiddingProofs!CapacityRespectedHolds` | `Spec => []CapacityRespected` |
| `BiddingProofs!AcceptanceConsistentHolds` | `Spec => []AcceptanceConsistent` |
| `BiddingProofs!DecidedOnceHolds` | `Spec => DecidedOnce` |
| `BiddingProofs!TxImplementsBidding` | `TxSpec => Spec`: the interleaved statements implement the atomic transactions |
| `BiddingProofs!RefinesBiddingHolds` | `TxSpec => RefinesBidding` |
| `BiddingProofs!TxKeepsPromises` | `TxSpec =>` the three invariants always, and `DecidedOnce` |
| `RideLifecycleProofs!EventsTellHistoryAlways` | `Spec => []EventsTellHistory` |
| `RideLifecycleProofs!AnswersHoldAlways` | `Spec => []AnswersHold` |
| `RideLifecycleProofs!BlameNeedsEvidenceAlways` | `Spec => []BlameNeedsEvidence` |
| `RideLifecycleProofs!StatusPathAlways` | `Spec => StatusPath` |
| `SettlementProofs!BooksAgreeAlways` | `Spec => []BooksAgree` |
| `SettlementProofs!WalletIsLedgerAlways` | `Spec => []WalletIsLedger` |
| `RequestProofs!SecondRunNeedsFaultAlways` | `Spec => [](SecondRunNeedsFault /\ TypeOK)` |
| `RequestProofs!LocksBoundedAlways` | `Spec => []LocksAndStoreBounded`, which `LocksBounded` of `MCRequests` checks in each setting |
| `RequestProofs!ImplementsAtMostOnceAlways` | without faults `Spec => ImplementsAtMostOnce`, the refinement of `AtMostOnce` |
| `EventProofs!RefillIsSafeAlways` | `Spec => []RefillIsSafe` |
| `EventProofs!CriticalNotLostAlways` | `Spec => CriticalNotLost` |
| `EventProofs!ProjectionHoldsAlways` | `ProjectionSpec => []ProjectionHolds` |
| `TrackingProofs!PointsHoldAlways` | `Spec => []PointsHold` |
| `TrackingProofs!OfflineKeepsNothing` | `Spec => []NothingWrittenOffline` |
| `TrackingProofs!PointsNeverGoBack` | `Spec => NeverOlder` |
| `RequestProofs!CodesHoldAlways` | `AddressSpec => []CodesHold` |
| `RequestProofs!AccountIsOfItsCodeAlways` | `AddressSpec => []AccountIsOfItsCode` |
| `RequestProofs!OldSessionsEndAlways` | `SessionSpec => []OldSessionsEnd` |
| `RequestProofs!NoSuccessorOfDeadAlways` | `SessionSpec => NoSuccessorOfDead` |
| `ProcessProofs!ProbeHeldAlways` | `Spec => []ProbeHeld` of `CircuitBreaker` |
| `ProcessProofs!RatesBoundedAlways` | `RatesSpec => []RatesBounded` |
| `ProcessProofs!ChatBoundedAlways` | `TalkSpec => []ChatBounded` |
| `ProcessProofs!RoutesSharedAlways` | `FareSpec => []RoutesShared` |
| `ProcessProofs!ServesWhenReadyAlways` | `ServerSpec => []ServesWhenReady` |
| `ProcessProofs!ExitExplainedAlways` | `ServerSpec => []ExitExplained` |
| `ProcessProofs!ReleasesAllAlways` | `ConnectionSpec => []ReleasesAll` |
| `ContentProofs!RideHasItsDriverAlways` | `Spec => []RideHasItsDriver` of `DriverPresence` |
| `ContentProofs!MessagesHoldAlways` | `ChatSpec => []MessagesHold` |
| `ContentProofs!NeverTurnsBackAlways` | `ChatSpec => NeverTurnsBack` |
| `ContentProofs!ReviewsStandAlways` | `ReviewSpec => []ReviewsStand` |
| `ContentProofs!StorageHoldsAlways` | `ObjectSpec => []StorageHolds` |

All of them hold for every value of the constants that satisfies the named assumptions, so for any number of
requests, drivers, keys, publishers and points, finite or not unless said otherwise. The inductive invariants
were model-checked on small instances before they were proved. Each step lemma goes through `Next` action by action.

### The assumptions

They say what the types of the program say and no more: limits, sizes and lifetimes are natural numbers (a length of a page, a cache or a
queue is not zero), NULL and the zero value are none of the values they stand beside, and the names of the requests of different kinds are disjoint.
Sets are assumed finite only where something is counted or summed: rides (`BiddingConstants`, `SettlementConstants`),
acceptances (`PresenceConstants`) and chat requests (`ChatConstants`; a list has at most one message of each). `FaresSplit` says that the fares split into payout
and commission at all: `NewSettlementSnapshot` refuses a fare whose product with the rate overflows when a ride is accepted,
so that no ride that is settled has one. `RatesConstants` has that a request is counted at most
a window after it read the clock, because the Redis client gives up long before, and `TalkConstants` that an idle budget is kept at least as long as its window. TLC evaluates every assumption on the runs. Those of modules that a run composes with others
(`IdempotencyConstants`, `RegistrationConstants`, `SessionConstants`, `RatesConstants`, `TalkConstants`, `FareConstants`, `ProjectionConstants`, `ServerConstants`, `PresenceConstants`,
`ChatConstants`, `ReviewConstants`, `ObjectConstants`) are operators, asserted by the `MC` module (`IdempotencyConstants` for each of its three settings) and hypotheses of
the theorems. `ImplementsAtMostOnceAlways` has the hypothesis `NoFaults` in addition: Redis keeps what it is given and only
commands fail; `MCRequests` asserts it of the instance `Calm`.

### The arguments

**Bidding.** `TypeOK` is inductive. Each of the other
invariants is inductive together with it: `OneActiveBooking` because the three creating transactions check
both tables and an acceptance turns the passenger's only open session into the only ride;
`CapacityRespected` because a ride becomes active only after a count below the
capacity, and inserting one ride raises the count by one (`CountPlusOne`) while all
else can only lower it (`CountMonotone`). `AcceptanceConsistent` needed a conjunct of
its own to be inductive: a ride that still waits for a driver came from no session,
or `AcceptRide` could give an accepted session's ride to another driver. `DecidedOnce` follows
action by action from the guards and the types.

**Booking transactions.** The refinement mapping is the identity, so what is to be shown is that every step of `TxNext` is a step of `Bidding` or
changes none of its variables. `TxInv` says what a transaction knows while it is on its way (`Known`): which rows its locks keep
as it found them (`LocksHold`), that it has locked what it has written (`WritesLocked`), what its reading of the clock tells (`PastRight`),
and for each kind of request (`Accepting`, `Placing`, `Creating`, `Expiring`, `Cancelling`, `AcceptingRide`) which checks still hold at which statement.
`Keeps` says what any step leaves of the rows another transaction has locked, and `KnownKept` that this is enough for what
it knows; `RowsExclusive` gives `Keeps` for every step, commits included. Two facts carry the commits. The statements that reject offers
work on a snapshot, and an acceptance holds the session and driver rows an offer's insertion needs, so none is inserted
behind its snapshot; an expiry does not, and what it misses is the set `missed` of `Bidding`. And by `OneActiveBooking` an expiry
or cancellation closes at most one session, so one action of `Bidding` covers its commit. Every promise of `Bidding` then holds
of the interleaved transactions without a second proof (`TxKeepsPromises`).

**Ride lifecycle.** A command decides on a row it has not locked. `Checked` states what that leaves known at its write:
which statuses, actors and reasons the read let pass, and nothing about the row as it is now. The write compares the status
with the one that was read, and from the two together follow the event that is appended, the legality of the transition and, through `TakenByDriver`
(a ride has a driver from its acceptance on), who may be blamed. That answers stay true is not a matter of the command that gave them: `Told` must survive every
other command's write, and does because the transitions lead forward.

**Settlement.** `RowsExclusive`: no two requests hold a row. So what a request found under the lock of its ride still holds when it commits
(`WritesItsClaim`: no outcome is recorded, and the split it will write adds up), which makes `BooksAgree` inductive. The balance is a sum over a finite set, which the model writes as a fold.
`SumAddsUp` derives from the fold's definition the only law the rest needs, that one more entry adds its amount: some function satisfies
the equation that the fold chooses a solution of, and two solutions agree, because a smallest set where they did not could be made smaller
(`LeastNumber`). The commit that writes a ride's entry is then the one that credits its driver with
the same amount, whether it creates the wallet or not.

**Request protection.** `ProtectionInv` follows one key. A request at work holds its lock
(`LockHeld`); a success is about to be stored, is stored, or its retention is over (`Remembered`); nothing ran since the run that is going on
(`LatestRuns`); each up to the faults that the model records in `lapsed`. A second run then needs a request that looked twice, under the lock, at a key whose first run is none of the three. `ResultsGenuine` ties every stored
response to a run of the same key and body. `LocksAndStoreBounded` needs two invariants more:
`LocksOwned`, by which a live lock is that of a request between its second lookup and its release, as long as no release is lost
(`ReleasesKept`); and `FewHeld`, by which the memory store is finite and within its capacity for any set of keys, because an eviction leaves room for one
(`EvictionMakesRoom`). For the refinement, `PhaseOf` is `"running"` while a live lock's holder is at work and `"done"` while a result is live; every step
is `Begin`, `End`, `Forget` or leaves the phase alone, the last because without faults a lock outlives the command and a result is not stored late.

**Realtime hub.** `AtItsQueue`: a publisher is at a queue exactly while it holds that queue's evictionMutex, so no two are at one (`AloneAtQueue`), and
`OthersKept` carries everything known of the others over its step. `RoomKept`: the queue being drained is open, since closing needs the mutex, and its events together with
those taken out do not exceed the capacity: draining and refilling move them, the eviction takes one out for the one put in (`DropFirstSet`), the reader only takes. A
subscription the hub returns closed had no publisher, because nobody knows a subscription before it is made (`NewIsUnknown`). `CriticalNotLost` is an action property: each step
either keeps the event stored or carried, or closes the subscription. The end of a refill is the step that needs the invariant: an event that fits was among those sent back
(`CriticalSentBack`), one that does not makes the subscription slow.

**Assignment projection.** A process may hear of a ride's steps late, twice or not at all, and a lookup may answer with what it read before them. `ProjectionInv` has the agreement of the two indexes
and two facts about what an entry is worth. Its driver is right, since a ride gets one and keeps it (`DriversKnown`, also of what a lookup has read and not stored yet). And a process has been told of the end of
a ride, or an event of it is on its way to the process, or the process is excused because it was disconnected or restarted meanwhile (`EndsKnown`). A step that tells a process of an event either ends the entry or finds that a later one was told already,
and an answer from a lookup excuses what it stores of a ride that is over, so `StaleNeedsCause` follows.

**Tracking.** The keys are written and removed together, so `KeysAgree` is inductive, and by it the upsert script's comparison is one with the stored point (`PointsNeverGoBack`). A point
written while its driver is offline has an ingest that will look at the presence once more or
remove it (`WriterComesBack`), which is why none is left when all have ended.

**Driver presence.** Who is past its lock of the profile row holds it (`RowHeld`), so that an acceptance's reading of the presence and a toggle's count of rides are still true when they write (`OnlineUnderLock`, `CountUnderLock`).

**Registration.** A code is known by who issued it. Before that, it is neither stored nor guessed, and while it is stored it has not been accepted and has
exactly the wrong guesses its counter says (`CodesInv`); the counter is reset with every new code, so a guess counts against the code it was compared with. `CodesHold` follows for any overlap.
The account is harder, because three stores hold its parts: pending registration, code, user row. `AccountInv` says of requests that come one at a time (`Alone`) that what is pending
is of the stored code or of a registration whose code is not stored yet or will be taken back (`PendingOfCode`), that a verification that has consumed a code
finds only the pending registration of that code (`TakenOfCode`), and that an account nobody has verified leaves nothing pending (`PendingIsNew`). A resent code
says nothing of whose details are pending, so the claim is about the codes of registrations.

**Sessions.** Requests of one account do not lock it against each other; each has read the password or the token some statements ago. `SessionInv` says of every usable session of a password that is no longer the account's
that the reset which replaced it is on its way to revoke it, or has failed to and said so (`OldWillEnd`), and of every session that descends from one a change
has ended, that a change will end it too (`ChangedWillEnd`). A login that stored its session under the old password is not answered yet and looks at the password again
(`Issued`). The hard step is the revocation, which takes its snapshot first and revokes what is in it: a successor committed between is in no snapshot, and is what `slipped` records. A rotation locks its token's row and looks at it again, so
nothing turns that token dead before it commits (`RowClaimed`), which is `NoSuccessorOfDead`.

**Circuit breaker.** `OneProbeUnlessStray` counts probes and is not inductive: it does not
say that a probe keeps the breaker half-open, which is why the next caller is refused. `ProbeAlone` does, as long as
no call from before the opening has reported: any two probes are the same, and a probe on its
way implies `halfOpen`. With `HalfOpenHasProbe`, by which a half-open breaker is open, a call that
reports while the breaker is closed finds no probe; every other report either comes from the probe or sets `stray`.

**Rate limiters.** `RatesInv` follows a key from its first request to its end. What it let pass and no longer counts is as old as its present counter, whose own first request is as old too (`Apart`): so much for
one key in the time of a window. For the windows of the clock one must know whose counter it is. In its window a counter began there and outlives it (`InWindow`); in the next it may lapse and be begun again, by a request that read the clock before, and a
counter begun then is told from the first by the time it has left (`AfterWindow`). A request reads no further back than that, since it is counted within a window's time (`ReadsSoon`). The attempt to
prove the bound the runs had checked before, three limits in the time of a window, showed that it holds for a limit of one only: a straggler that restarts the counter of its window gives it the limit once more, less the request that
began it, and two windows can be restarted that way while a third has its own limit. Seven requests pass at a limit of two. `RecentBounded` states the bound that holds for every limit, `5 * Limit - 2`, and twice the limit
while nobody is counted late.

**Chat limiter.** `Spent` is the same argument for a budget in memory, with one more way to lose it: a budget is dropped only when it has been idle for longer than its window, and it was in use at every message it let through.
`TypingTold` says that the state recorded last is on its way to the other side or was told, as long as no event was rejected and no two were on their way at a time.

**Fare routes.** A flight is of the caller that entered it and has not ended (`OwnsFlight`, `FlightsKnown`); a follower holds on to the owner and not to the route, whose next flight may already be another's
(`FollowsFlight`). The result of the owner is the provider's or the error it was begun with, so that a panic or a cancelled owner leaves an error behind (`HasResult`), and a follower that stayed
has the outcome of its own flight (`AnswersWell`). An entry of the fare cache was made less than the route cache's lifetime before it was stored (`EntriesKnown`), and is served for less than its own: no fare is older than both together.

**Server process.** `Run` selects among channels that may all be ready, and its deferred functions wait for goroutines that may have ended before. `ServerInv` relates where it stands to who runs: nobody is served before the first subscription (`ServerStarts`),
a server that was told to stop accepts nobody more and does not start listening (`ToldToStop`: the shutdown hook may run before it listens), the messages in the channels say what
happened (`MessagesTell`), what is about to be returned has its reason (`ResultTells`), and the stores are closed one after the other behind those who use them (`StoresClose`).

**Realtime connection.** The owner's place determines which of its two goroutines and the socket may be alive (`OwnerKnows`); the rest of `ReleasesAll` is inductive with it.

**Chat.** A sender has checked the room some calls ago, but the script that appends and the one that moves a read mark check by themselves, so `NeverTurnsBack` needs of the past only that a resolved room exists (`ResolvedExists`: the creating script does
nothing to a room that exists). `MessagesHold` does need it: a picture is stored before its message is sent and removed only on the way out (`StoredFirst`, `HeldEnded`), and
a read mark is the time of a message in the list its reader loaded (`ReadsKnown`). A message seen but never loaded is then behind one with a time at least as late, which is the overtaking that
`SeenUnlessOvertaken` admits.

**Reviews.** That one review of each kind stands is the work of the unique indexes, and that the answer names it, of reading it back after a collision. Paging is the part with content. By cursor, what a client has still to see is what is older than its boundary, and nothing it has seen is
(`CursorKeeps`): a review that commits meanwhile changes neither. By offset, what matters is the `Place` of a review, the number of newer ones: it tells reviews apart (`PlaceOrders`), takes every value up to their number (`PlaceTaken`), and a review that
commits raises it or leaves it (`PlaceRises`). So a review not yet seen never gets before the offset (`OffsetKeeps`), and one that was seen comes again only when others were added.

**Private objects.** Three stores without a transaction are kept together by saying who will act next. Every object of the bucket is referred to, was recorded as left behind, or has an
upload, a deletion or the migration that will yet refer to it, remove it or record it (`Accounted`). What is being deleted is referred to by nobody, but for
a commit whose answer was lost (`DeletedIsFree`), and what has not been linked yet is deleted by nobody (`NewIsUnknown`). The migration copies the one object that PostgreSQL holds or held (`MigratesLegacy`), and a copy
that finishes behind a deletion is one of the causes of an orphan. A download keeps a key while all this goes on: what it is about to look up is not in PostgreSQL unless it was when
it began (`LateKnown`), and what it fetches from the bucket is no longer there (`FetchedExternal`), so that, unless a call fails, an avatar still referred to is found.

### Only model-checked

* Everything that rests on fairness (`EveryTransactionEnds`, `EverybodyEnds`, `NobodyShutOut`), which is out of the prover's reach, as is ENABLED.
* `LocksBounded` and `RunsOncePerKey` in the form the run has, for a middleware in one of three settings. The theorems `LocksBoundedAlways` and
  `ImplementsAtMostOnceAlways` prove what they say of one setting, for all constants.
* Not inductive by design, so violations the runs expect: the three disagreements above.

## 5. Not modelled, and why

* Ride reports, statistics, history and listing queries: reads and single inserts, no state that two requests share.
* HTTP decoding, roles, error codes: no state. Where a handler decides what becomes of a request
  it is mapped with the action it belongs to.
* Notifications and administration: updates of a single row, last writer wins.
* Redis client, logger, configuration, database migrations, generated code beyond the queries the models use.
* The in-memory counter store of the rate limiter (tests only), security headers, token parsing.
* The Flutter applications and the admin page: user interface over the endpoints modelled here.

## 6. What could come next

1. The liveness properties, with a prover for temporal logic under fairness.
2. The readers of rides and earnings, once they page through more than one table.
