----------------------------- MODULE MCServing -----------------------------
(* What a server process keeps open for its clients comes to an end: the process
   itself (ServerLifecycle), its websocket connections (RealtimeConnection) and
   the publications and subscriptions of its hub (RealtimeHub). The connection
   and the hub take what the others do to them as it comes, so each behaviour
   moves one of the three. *)
EXTENDS ServerLifecycle, RealtimeConnection

CONSTANTS None, Producer, Sub, Event, Critical, Topic, Capacity, Closer

ASSUME ServingAssumption == ServerConstants

VARIABLES
  focus,                                               \* "server", "connection" or "hub"
  state, topics, queue, closed, mutex, once, prod, closer, got, conn   \* RealtimeHub

Hub == INSTANCE RealtimeHub WITH hub <- state, Shutdown <- Closer, TopicsOf <- [e \in Event |-> Topic]

hubVars == <<state, topics, queue, closed, mutex, once, prod, closer, got, conn>>

ServingInit ==
  /\ focus \in {"server", "connection", "hub"}
  /\ ServerInit /\ ConnectionInit /\ Hub!Init

ServingNext ==
  /\ \/ focus = "server" /\ ServerNext /\ UNCHANGED <<connectionVars, hubVars>>
     \/ focus = "connection" /\ ConnectionNext /\ UNCHANGED <<serverVars, hubVars>>
     \/ focus = "hub" /\ Hub!Next /\ UNCHANGED <<serverVars, connectionVars>>
  /\ UNCHANGED focus

\* The fairness of the three modules.
ServingFairness ==
  /\ WF_serverVars(focus = "server" /\ main # "ended" /\ Run)
  /\ WF_serverVars(focus = "server" /\ main # "ended" /\ SubscriberStopsCleanly)
  /\ WF_serverVars(focus = "server" /\ main # "ended" /\ MonitorEnds)
  /\ \A c \in Client : WF_serverVars(focus = "server" /\ main # "ended" /\ GiveBack(c))
  /\ WF_connectionVars(focus = "connection" /\ Main)
  /\ WF_connectionVars(focus = "connection" /\ ReadPump)
  /\ WF_connectionVars(focus = "connection" /\ WritePump)
  /\ WF_connectionVars(focus = "connection" /\ PongMissed)
  /\ SF_connectionVars(focus = "connection" /\ Select /\ writer' = "done")
  /\ SF_connectionVars(focus = "connection" /\ Select /\ answer /\ ~answer')
  /\ SF_connectionVars(focus = "connection" /\ Read /\ reader' = "done")
  /\ \A p \in Producer : SF_hubVars(focus = "hub" /\ Hub!ProducerStep(p))
  /\ \A a \in Hub!Agent : SF_hubVars(focus = "hub" /\ Hub!CloseStep(a))
  /\ WF_hubVars(focus = "hub" /\ \E s \in Sub : Hub!CloseNext(s))

ServingSpec ==
  /\ ServingInit /\ [][ServingNext]_<<focus, serverVars, connectionVars, hubVars>>
  /\ ServingFairness

\* Nobody waits for ever: a process that was signalled or failed, a connection that is expired,
\* silent, gone or closed, a publication and a shutdown of the hub all come to their end.
EverybodyEnds ==
  /\ EveryRunEnds /\ EveryConnectionEnds
  /\ Hub!EveryPublishEnds /\ Hub!ShutdownClosesAll
=============================================================================
