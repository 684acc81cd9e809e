-------------------------- MODULE ServerLifecycle --------------------------
(* The life of one server process (app/app.go, Run): it subscribes to the events
   of other processes, then serves HTTP, and on a signal or a failure stops what
   it started in the reverse order and closes the stores last. Each of the
   subscriber, the pool monitor, the HTTP server, its handlers and the hub's
   shutdown hook is a goroutine of its own. *)
EXTENDS Naturals, FiniteSets

CONSTANTS Client,  \* connections of clients, each used again and again
          NoResult   \* no message in a channel, and no result yet

ServerConstants == NoResult \notin {"ok", "error", "failed", "closed"}

VARIABLES
  main,       \* where Run is
  result,     \* what Run returns, once that is decided
  cancelled,  \* the process got its signal
  sub,        \* the event subscriber: "connect", "receive", "retry" or "done"
  initial,    \* no subscription has stood yet
  ready,      \* Ready is closed
  subDone,    \* the message in subscriberDone
  stopped,    \* subscriberStopped: Run took that message already
  mon,        \* the pool monitor
  srv,        \* the HTTP server's listener
  srvErr,     \* the message in serverErrors
  req,        \* per client: no request, an HTTP handler, or a hijacked websocket handler
  holds,      \* the handlers that have a pool connection
  hub, hookRuns, pool, redis,
  lost,       \* history: the kinds of handler that found the stores closed
  failed      \* history: what went wrong

serverVars == <<main, result, cancelled, sub, initial, ready, subDone, stopped, mon, srv, srvErr,
          req, holds, hub, hookRuns, pool, redis, lost, failed>>
runVars == <<main, result, stopped>>
subVars == <<sub, initial, ready, subDone>>
srvVars == <<srv, srvErr, mon>>
reqVars == <<req, holds, lost>>
storeVars == <<hub, hookRuns, pool, redis>>

ServerTypeOK ==
  /\ main \in {"wait", "serve", "shutdown", "drain", "monitor", "subscriber", "hub", "pool", "closing", "redis", "ended"}
  /\ result \in {NoResult, "ok", "error"} /\ cancelled \in BOOLEAN
  /\ sub \in {"connect", "receive", "retry", "done"} /\ initial \in BOOLEAN /\ ready \in BOOLEAN
  /\ subDone \in {NoResult, "ok", "error"} /\ stopped \in BOOLEAN
  /\ mon \in {"off", "running", "done"}
  /\ srv \in {"off", "starting", "listening", "failed", "closed"} /\ srvErr \in {NoResult, "failed", "closed"}
  /\ req \in [Client -> {"idle", "http", "socket"}] /\ holds \subseteq Client
  /\ hub \in {"open", "closed"} /\ hookRuns \in BOOLEAN
  /\ pool \in {"open", "closing", "closed"} /\ redis \in {"open", "closed"}
  /\ lost \subseteq {"http", "socket"} /\ failed \subseteq {"subscribe", "listen", "timeout"}

\* New has opened the stores; Run starts the subscriber and waits.
ServerInit ==
  /\ main = "wait" /\ result = NoResult /\ cancelled = FALSE
  /\ sub = "connect" /\ initial = TRUE /\ ready = FALSE /\ subDone = NoResult /\ stopped = FALSE
  /\ mon = "off" /\ srv = "off" /\ srvErr = NoResult
  /\ req = [c \in Client |-> "idle"] /\ holds = {}
  /\ hub = "open" /\ hookRuns = FALSE /\ pool = "open" /\ redis = "open"
  /\ lost = {} /\ failed = {}

\* SIGINT or SIGTERM.
Signal == ~cancelled /\ cancelled' = TRUE /\ UNCHANGED <<runVars, subVars, srvVars, reqVars, storeVars, failed>>

(***************************************************************************)
(* The event subscriber: DistributedSubscriber.Run                         *)
(***************************************************************************)

\* The context of the subscriber ends with the signal or with stopSubscriber.
SubscriberCancelled == cancelled \/ main = "subscriber"

Connect ==
  /\ sub = "connect"
  /\ sub' = "receive" /\ ready' = TRUE /\ initial' = FALSE
  /\ UNCHANGED <<runVars, cancelled, subDone, srvVars, reqVars, storeVars, failed>>

\* The first subscription must succeed; later ones are tried again.
ConnectFails ==
  /\ sub = "connect" /\ ~SubscriberCancelled
  /\ IF initial
     THEN sub' = "done" /\ subDone' = "error" /\ failed' = failed \cup {"subscribe"}
     ELSE sub' = "retry" /\ UNCHANGED <<subDone, failed>>
  /\ UNCHANGED <<runVars, cancelled, initial, ready, srvVars, reqVars, storeVars>>

Disconnect ==
  /\ sub = "receive" /\ ~SubscriberCancelled
  /\ sub' = "retry"
  /\ UNCHANGED <<runVars, cancelled, initial, ready, subDone, srvVars, reqVars, storeVars, failed>>

Retry ==
  /\ sub = "retry" /\ ~SubscriberCancelled
  /\ sub' = "connect"
  /\ UNCHANGED <<runVars, cancelled, initial, ready, subDone, srvVars, reqVars, storeVars, failed>>

SubscriberStopsCleanly ==
  /\ sub # "done" /\ SubscriberCancelled
  /\ sub' = "done" /\ subDone' = "ok"
  /\ UNCHANGED <<runVars, cancelled, initial, ready, srvVars, reqVars, storeVars, failed>>

(***************************************************************************)
(* Run                                                                     *)
(***************************************************************************)

\* (mutant: the server starts with the subscriber)
LaunchAtOnce ==
  /\ main = "wait" /\ subDone = NoResult
  /\ main' = "serve" /\ mon' = "running" /\ srv' = "starting"
  /\ UNCHANGED <<result, cancelled, subVars, stopped, srvErr, reqVars, storeVars, failed>>

\* Ready, and the subscriber has not ended since: monitor and server start.
Launch ==
  /\ main = "wait" /\ ready /\ subDone = NoResult
  /\ main' = "serve" /\ mon' = "running" /\ srv' = "starting"
  /\ UNCHANGED <<result, cancelled, subVars, stopped, srvErr, reqVars, storeVars, failed>>

\* The first select, and the second one behind Ready, find the subscriber's result.
EndedEarly ==
  /\ main = "wait" /\ subDone # NoResult
  /\ main' = "subscriber" /\ stopped' = TRUE /\ subDone' = NoResult
  /\ result' = IF subDone = "ok" /\ cancelled THEN "ok" ELSE "error"
  /\ UNCHANGED <<cancelled, sub, initial, ready, srvVars, reqVars, storeVars, failed>>

CancelledEarly ==
  /\ main = "wait" /\ cancelled
  /\ main' = "subscriber" /\ result' = "ok"
  /\ UNCHANGED <<cancelled, stopped, subVars, srvVars, reqVars, storeVars, failed>>

ServerStops ==
  /\ main = "serve" /\ srvErr # NoResult
  /\ main' = "shutdown" /\ srvErr' = NoResult
  /\ result' = IF srvErr = "closed" THEN "ok" ELSE "error"
  /\ UNCHANGED <<cancelled, stopped, subVars, srv, mon, reqVars, storeVars, failed>>

Interrupted ==
  /\ main = "serve" /\ cancelled
  /\ main' = "shutdown"
  /\ UNCHANGED <<result, cancelled, stopped, subVars, srvVars, reqVars, storeVars, failed>>

\* The signal ends the subscriber too, and the select may see that first.
SubscriberStops ==
  /\ main = "serve" /\ subDone # NoResult
  /\ main' = "shutdown" /\ stopped' = TRUE /\ subDone' = NoResult
  /\ result' = IF cancelled THEN "ok" ELSE "error"
  /\ UNCHANGED <<cancelled, sub, initial, ready, srvVars, reqVars, storeVars, failed>>

\* stopServer: Shutdown closes the listener and starts the registered hook, ...
Shutdown ==
  /\ main = "shutdown"
  /\ main' = "drain" /\ hookRuns' = TRUE
  /\ IF srv = "listening" THEN srv' = "closed" /\ srvErr' = "closed" ELSE UNCHANGED <<srv, srvErr>>
  /\ UNCHANGED <<result, cancelled, stopped, mon, subVars, reqVars, hub, pool, redis, failed>>

Serving == {c \in Client : req[c] = "http"}

\* (mutant: the server is closed without waiting for its handlers)
DrainedAtOnce ==
  /\ main = "drain"
  /\ main' = "monitor" /\ result' = IF result = NoResult THEN "ok" ELSE result
  /\ UNCHANGED <<cancelled, stopped, subVars, srvVars, reqVars, storeVars, failed>>

\* ... and waits for the handlers it knows of, which hijacked connections are not.
Drained ==
  /\ main = "drain" /\ Serving = {}
  /\ main' = "monitor" /\ result' = IF result = NoResult THEN "ok" ELSE result
  /\ UNCHANGED <<cancelled, stopped, subVars, srvVars, reqVars, storeVars, failed>>

\* After fifteen seconds it waits no longer.
DrainTimesOut ==
  /\ main = "drain" /\ Serving # {}
  /\ main' = "monitor" /\ result' = IF result = NoResult THEN "error" ELSE result
  /\ failed' = failed \cup {"timeout"}
  /\ UNCHANGED <<cancelled, stopped, subVars, srvVars, reqVars, storeVars>>

\* stopMonitoring, and the monitor's goroutine has returned.
JoinMonitor ==
  /\ main = "monitor" /\ mon = "done"
  /\ main' = "subscriber"
  /\ UNCHANGED <<result, cancelled, stopped, subVars, srvVars, reqVars, storeVars, failed>>

\* stopSubscriber, and its result is taken unless that was done before.
JoinSubscriber ==
  /\ main = "subscriber" /\ (stopped \/ subDone # NoResult)
  /\ main' = "hub" /\ subDone' = NoResult
  /\ UNCHANGED <<result, cancelled, stopped, sub, initial, ready, srvVars, reqVars, storeVars, failed>>

\* close: the hub, the pool, which waits for its connections, and Redis.
CloseHub ==
  /\ main = "hub"
  /\ main' = "pool" /\ hub' = "closed"
  /\ UNCHANGED <<result, cancelled, stopped, subVars, srvVars, reqVars, hookRuns, pool, redis, failed>>

BeginClosePool ==
  /\ main = "pool"
  /\ main' = "closing" /\ pool' = "closing"
  /\ UNCHANGED <<result, cancelled, stopped, subVars, srvVars, reqVars, hub, hookRuns, redis, failed>>

ClosePool ==
  /\ main = "closing" /\ holds = {}
  /\ main' = "redis" /\ pool' = "closed"
  /\ UNCHANGED <<result, cancelled, stopped, subVars, srvVars, reqVars, hub, hookRuns, redis, failed>>

CloseRedis ==
  /\ main = "redis"
  /\ main' = "ended" /\ redis' = "closed"
  /\ UNCHANGED <<result, cancelled, stopped, subVars, srvVars, reqVars, hub, hookRuns, pool, failed>>

(***************************************************************************)
(* The other goroutines                                                    *)
(***************************************************************************)

\* ListenAndServe refuses to start behind a Shutdown.
Listen ==
  /\ srv = "starting"
  /\ IF hookRuns THEN srv' = "closed" /\ srvErr' = "closed" ELSE srv' = "listening" /\ UNCHANGED srvErr
  /\ UNCHANGED <<runVars, cancelled, subVars, mon, reqVars, storeVars, failed>>

\* The address is taken, or accepting fails later.
ListenFails ==
  /\ srv = "listening"
  /\ srv' = "failed" /\ srvErr' = "failed" /\ failed' = failed \cup {"listen"}
  /\ UNCHANGED <<runVars, cancelled, subVars, mon, reqVars, storeVars>>

MonitorEnds ==
  /\ mon = "running" /\ (cancelled \/ main = "monitor")
  /\ mon' = "done"
  /\ UNCHANGED <<runVars, cancelled, subVars, srv, srvErr, reqVars, storeVars, failed>>

\* RegisterOnShutdown(eventHub.Close).
HookClosesHub ==
  /\ hookRuns /\ hub = "open"
  /\ hub' = "closed"
  /\ UNCHANGED <<runVars, cancelled, subVars, srvVars, reqVars, hookRuns, pool, redis, failed>>

Arrive(c) ==
  /\ srv = "listening" /\ req[c] = "idle"
  /\ req' = [req EXCEPT ![c] = "http"]
  /\ UNCHANGED <<runVars, cancelled, subVars, srvVars, holds, lost, storeVars, failed>>

\* A websocket request is hijacked once it has its subscription, which a closed hub gives it closed.
Upgrade(c) ==
  /\ req[c] = "http" /\ c \notin holds
  /\ req' = [req EXCEPT ![c] = "socket"]
  /\ UNCHANGED <<runVars, cancelled, subVars, srvVars, holds, lost, storeVars, failed>>

\* A handler asks for a connection: a pool that closes refuses it.
Acquire(c) ==
  /\ req[c] # "idle" /\ c \notin holds
  /\ IF pool = "open"
     THEN holds' = holds \cup {c} /\ UNCHANGED lost
     ELSE lost' = lost \cup {req[c]} /\ UNCHANGED holds
  /\ UNCHANGED <<runVars, cancelled, subVars, srvVars, req, storeVars, failed>>

GiveBack(c) ==
  /\ c \in holds
  /\ holds' = holds \ {c}
  /\ UNCHANGED <<runVars, cancelled, subVars, srvVars, req, lost, storeVars, failed>>

\* An HTTP handler returns; a websocket handler does when its client leaves or the hub closes.
Return(c) ==
  /\ req[c] # "idle" /\ c \notin holds
  /\ req' = [req EXCEPT ![c] = "idle"]
  /\ UNCHANGED <<runVars, cancelled, subVars, srvVars, holds, lost, storeVars, failed>>

Run ==
  \/ Launch \/ EndedEarly \/ CancelledEarly
  \/ ServerStops \/ Interrupted \/ SubscriberStops
  \/ Shutdown \/ Drained \/ DrainTimesOut \/ JoinMonitor \/ JoinSubscriber
  \/ CloseHub \/ BeginClosePool \/ ClosePool \/ CloseRedis

\* When Run has returned the process is gone, and what still ran with it.
ServerNext ==
  /\ main # "ended"
  /\ \/ Run
     \/ Signal
     \/ Connect \/ ConnectFails \/ Disconnect \/ Retry \/ SubscriberStopsCleanly
     \/ Listen \/ ListenFails \/ MonitorEnds \/ HookClosesHub
     \/ \E c \in Client : Arrive(c) \/ Upgrade(c) \/ Acquire(c) \/ GiveBack(c) \/ Return(c)

ServerSpec == ServerInit /\ [][ServerNext]_serverVars

\* Goroutines that can go on do, and a handler gives its connection back; handlers need not
\* return, since the drain has its own deadline.
FairServerSpec ==
  /\ ServerSpec
  /\ WF_serverVars(main # "ended" /\ Run)
  /\ WF_serverVars(main # "ended" /\ SubscriberStopsCleanly)
  /\ WF_serverVars(main # "ended" /\ MonitorEnds)
  /\ \A c \in Client : WF_serverVars(main # "ended" /\ GiveBack(c))

(***************************************************************************)
(* Properties                                                              *)
(***************************************************************************)

\* "allowing the HTTP server to start only after this process can receive cross-node events":
\* nobody is served before the first subscription stands.
ServesWhenReady == (\E c \in Client : req[c] # "idle") => ready

\* The stores outlive the HTTP handlers: one finds them closed only if the drain ran out of time.
LossNeedsTimeout == "http" \in lost => "timeout" \in failed

\* Run says why it ended: without a signal it is an error, and an error has a cause.
ExitTellsCause == main = "ended" => IF result = "ok" THEN cancelled ELSE result = "error" /\ failed # {}

\* When Run returns, its goroutines have ended and no connection of the pool is in use.
NothingLeftBehind ==
  main = "ended" =>
    /\ sub = "done" /\ mon # "running" /\ srv # "listening"
    /\ hub = "closed" /\ pool = "closed" /\ redis = "closed" /\ holds = {}

\* What Run reports agrees with what happened: a request is lost only to a drain that ran out of
\* time, an exit without a signal is an error, an error has a cause, and nothing is left behind.
ExitExplained == ServerTypeOK /\ LossNeedsTimeout /\ ExitTellsCause /\ NothingLeftBehind

\* After a signal or a failure Run returns, although every stage waits for someone.
EveryRunEnds == (cancelled \/ failed # {}) ~> main = "ended"
=============================================================================
