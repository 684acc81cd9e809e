----------------------------- MODULE RateLimits -----------------------------
(* The request counters in Redis and the two middlewares over them: the rate
   limiter of the routes (httpx/middleware/rate_limiter.go) and the limiter of
   code verifications (auth/transport/http/otp_rate_limiter.go). One client and
   one scope; others have counters of their own. The rate limiter counts per
   window of the clock, the other from the first attempt on. Time is relative:
   keys are named by the age of their window, counters by what they have left. *)
EXTENDS Naturals, FiniteSets

CONSTANTS Request,   \* handlers of the client's requests
          Limit,
          Window,    \* in ticks
          MaxDelay   \* ticks between reading the clock and counting: the Redis client gives up then

RatesConstants ==
  Limit \in Nat \ {0} /\ Window \in Nat \ {0} /\ MaxDelay \in Nat /\ MaxDelay <= Window

VARIABLES
  policy,      \* "otp": counted from the first attempt; "closed", "open": per window, by failClosed
  phase,       \* ticks since the window began
  counter,     \* per age of a window: the count (no more than Limit + 1) and the ticks it has left
  attempt,     \* per handler: where it is, the age of the window it read and how long ago that was
  passed,      \* history: per age of a window, the ticks since its last requests were let through
  given,       \* history: requests let through, by the window they read
  straddled,   \* history: a request was counted in a later window than it read
  storeFailed  \* history: the store failed

ratesVars == <<policy, phase, counter, attempt, passed, given, straddled, storeFailed>>

Age == 0 .. 1
Cap == 2 * Limit + 1   \* given counts no further
NoCounter == [n |-> 0, left |-> 0]
Idle == [at |-> "idle", age |-> 0, delay |-> 0]

\* The latest request first; Window stands for long ago.
NonePassed == [i \in 1 .. 2 * Limit |-> Window]

RatesTypeOK ==
  /\ policy \in {"otp", "closed", "open"} /\ phase \in 0 .. Window - 1
  /\ counter \in [Age -> [n : 0 .. Limit + 1, left : 0 .. Window]]
  /\ \A a \in Age : counter[a].n = 0 <=> counter[a].left = 0
  /\ attempt \in [Request -> [at : {"idle", "count"}, age : Age, delay : 0 .. MaxDelay]]
  /\ passed \in [0 .. 2 -> [1 .. 2 * Limit -> 0 .. Window]] /\ given \in [Age -> 0 .. Cap]
  /\ straddled \in BOOLEAN /\ storeFailed \in BOOLEAN

RatesInit ==
  /\ policy \in {"otp", "closed", "open"} /\ phase = 0
  /\ counter = [a \in Age |-> NoCounter]
  /\ attempt = [r \in Request |-> Idle]
  /\ passed = [a \in 0 .. 2 |-> NonePassed] /\ given = [a \in Age |-> 0]
  /\ straddled = FALSE /\ storeFailed = FALSE

Least(m, n) == IF m < n THEN m ELSE n

(***************************************************************************)
(* The counters in Redis                                                   *)
(***************************************************************************)

\* _atomicIncrementScript: the first attempt sets the end of the counter.
Increment(c) == [n |-> Least(c.n + 1, Limit + 1), left |-> IF c.n = 0 THEN Window ELSE c.left]

\* A tick takes from what a counter has left, and Redis removes it at its end.
Lapse(c) == IF c.left <= 1 THEN NoCounter ELSE [c EXCEPT !.left = @ - 1]

(***************************************************************************)
(* The middlewares                                                         *)
(***************************************************************************)

\* The key of the rate limiter holds the window the clock shows (windowKey); the other has none.
ReadClock(r) ==
  /\ attempt[r].at = "idle"
  /\ attempt' = [attempt EXCEPT ![r] = [at |-> "count", age |-> 0, delay |-> 0]]
  /\ UNCHANGED <<policy, phase, counter, passed, given, straddled, storeFailed>>

WithinLimit(c) == c.n <= Limit

\* (mutant: protection that cannot be had is done without)
PassesUncountedAlways == TRUE

\* failClosed: what cannot be counted is refused, except reads, commands and telemetry.
PassesUncounted == policy = "open"

\* One more request let through, and one tick more since each of them.
Passed(list) == [i \in DOMAIN list |-> IF i = 1 THEN 0 ELSE list[i - 1]]
Aged(list) == [i \in DOMAIN list |-> Least(list[i] + 1, Window)]

Let(r, passes) ==
  LET a == attempt[r].age
  IN /\ attempt' = [attempt EXCEPT ![r] = Idle]
     /\ IF passes THEN /\ passed' = [passed EXCEPT ![a] = Passed(@)]
                       /\ given' = [given EXCEPT ![a] = Least(@ + 1, Cap)]
                  ELSE UNCHANGED <<passed, given>>

Count(r) ==
  LET a == attempt[r].age
      c == Increment(counter[a])
  IN /\ attempt[r].at = "count"
     /\ counter' = [counter EXCEPT ![a] = c]
     /\ Let(r, WithinLimit(c))
     /\ straddled' = (straddled \/ a # 0)
     /\ UNCHANGED <<policy, phase, storeFailed>>

\* Redis cannot be reached, or its answer is lost after it counted.
CountFails(r) ==
  LET a == attempt[r].age
  IN /\ attempt[r].at = "count"
     /\ \E c \in {counter[a], Increment(counter[a])} : counter' = [counter EXCEPT ![a] = c]
     /\ Let(r, PassesUncounted)
     /\ storeFailed' = TRUE
     /\ straddled' = (straddled \/ a # 0)
     /\ UNCHANGED <<policy, phase>>

\* A window begins; what belongs to the one before the last is no longer counted.
Shift(f, new) == [a \in DOMAIN f |-> IF a = 0 THEN new ELSE f[a - 1]]

RatesTick ==
  LET next == IF phase = Window - 1 THEN 0 ELSE phase + 1
      rolls == next = 0 /\ policy # "otp"
      lapsed == [a \in Age |-> Lapse(counter[a])]
      older == [a \in 0 .. 2 |-> Aged(passed[a])]
  IN /\ \A r \in Request : attempt[r].at = "count" => attempt[r].delay < MaxDelay
     /\ phase' = next
     /\ counter' = IF rolls THEN Shift(lapsed, NoCounter) ELSE lapsed
     /\ given' = IF rolls THEN Shift(given, 0) ELSE given
     /\ passed' = IF rolls THEN Shift(older, NonePassed) ELSE older
     /\ attempt' = [r \in Request |->
                      IF attempt[r].at = "idle" THEN attempt[r]
                      ELSE [attempt[r] EXCEPT !.delay = @ + 1, !.age = IF rolls THEN @ + 1 ELSE @]]
     /\ UNCHANGED <<policy, straddled, storeFailed>>

RatesNext == RatesTick \/ \E r \in Request : ReadClock(r) \/ Count(r) \/ CountFails(r)

RatesSpec == RatesInit /\ [][RatesNext]_ratesVars

\* Time passes, and every request gets an answer from its counter, if only an error.
FairRatesSpec ==
  RatesSpec /\ WF_ratesVars(RatesTick) /\ \A r \in Request : WF_ratesVars(Count(r) \/ CountFails(r))

(***************************************************************************)
(* Properties                                                              *)
(***************************************************************************)

Unprotected == policy = "open" /\ storeFailed

\* Requests let through in the time of one window, by the age of the window they read.
Recently(a) == Cardinality({i \in 1 .. 2 * Limit : passed[a][i] < Window})

\* The windows of the limiters are fixed, so a client may use up one counter and most of the next
\* in the time of one window: a counter lets the first of its requests pass a window before its
\* successor begins. Of the windows of the clock two have their limit in the time of one. Requests
\* that were counted in a later window than the one they read may find the counter lapsed and
\* start it again; then this window has its limit, and each of the two before most of two.
RecentBounded ==
  /\ \A a \in 0 .. 2 : Recently(a) <= 2 * Limit - 1
  /\ policy # "otp" =>
       Recently(0) + Recently(1) + Recently(2) <= IF straddled THEN 5 * Limit - 2 ELSE 2 * Limit

\* Limit requests pass per window of the clock; its key outlives the window, so only requests
\* that come to be counted after it can find it gone.
WindowBounded ==
  policy # "otp" => \A a \in Age : given[a] <= (IF straddled THEN 2 ELSE 1) * Limit

\* What a limiter lets through is bounded, however its requests overlap and the store fails,
\* unless the store failed where failing open is meant.
RatesBounded == RatesTypeOK /\ (~Unprotected => RecentBounded /\ WindowBounded)

\* A client that is refused and goes on trying is not kept out for ever: the attempts that are
\* refused do not prolong the counter.
BlockedEnds == counter[0].n > Limit ~> counter[0].n = 0
=============================================================================
