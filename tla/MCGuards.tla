------------------------------ MODULE MCGuards ------------------------------
(* What stands between the server's callers and what they use: the circuit
   breaker and the route caches before the mapping provider, the rate limiters
   before the routes, the limiter of the chat. They share no state, so it is
   enough that in every behaviour one of them moves. *)
EXTENDS CircuitBreaker, FareRoutes, RateLimits, ChatLimits

ASSUME GuardsAssumption == FareConstants /\ RatesConstants /\ TalkConstants

VARIABLE focus   \* the guard that moves

allVars == <<focus, vars, ratesVars, talkVars, fareVars>>

GuardsInit ==
  /\ focus \in {"breaker", "rates", "talk", "fares"}
  /\ Init /\ RatesInit /\ TalkInit /\ FareInit
  /\ focus # "rates" => policy = "otp"

\* The location service asks for its routes before the first estimate.
LocationFirst == caller' = caller /\ routes' # routes => \A c \in Caller : caller[c].pc = "idle"

GuardsNext ==
  /\ \/ focus = "breaker" /\ Next /\ UNCHANGED <<ratesVars, talkVars, fareVars>>
     \/ focus = "rates" /\ RatesNext /\ UNCHANGED <<vars, talkVars, fareVars>>
     \/ focus = "talk" /\ TalkNext /\ UNCHANGED <<vars, ratesVars, fareVars>>
     \/ focus = "fares" /\ FareNext /\ LocationFirst /\ UNCHANGED <<vars, ratesVars, talkVars>>
  /\ UNCHANGED focus

\* The fairness of each guard, while it is the one that moves: calls end by their timeouts, time
\* passes, callers keep arriving at the breaker, and every handler goroutine goes on.
GuardsFairness ==
  /\ WF_vars(focus = "breaker" /\ Tick) /\ WF_vars(focus = "breaker" /\ \E c \in Call : Do(c))
  /\ \A c \in Call : WF_vars(focus = "breaker" /\ Reports(c))
  /\ WF_ratesVars(focus = "rates" /\ RatesTick)
  /\ \A r \in Request : WF_ratesVars(focus = "rates" /\ (Count(r) \/ CountFails(r)))
  /\ \A c \in Caller : WF_fareVars(focus = "fares" /\ FareStep(c))

GuardsSpec == GuardsInit /\ [][GuardsNext]_allVars /\ GuardsFairness

\* Nobody is kept out for ever: an open breaker tries again, a refused client is let in again, and
\* every caller of a shared route is answered.
NobodyShutOut == Retries /\ BlockedEnds /\ EveryCallerAnswered
=============================================================================
