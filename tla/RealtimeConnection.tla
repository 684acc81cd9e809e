------------------------- MODULE RealtimeConnection -------------------------
(* One realtime connection (platform/ws/handler.go): the request goroutine that
   owns it, its reader and its writer, which end each other through the socket,
   two channels and the context that expires with the credential. *)
EXTENDS Naturals

CONSTANT Protocol   \* TRUE: the chat endpoint, which answers client messages

VARIABLES
  owner, reader, writer,  \* where each goroutine is
  expired,               \* connectionContext is done
  client,                \* "live", "silent" (a half-open socket) or "left"
  socket,                \* "none", "open" or "closed" by the server
  stop,                  \* stopWriter is closed
  answer,                \* serverMessages, a channel of size one, is full
  stream,                \* the subscription: "none", "open" or "closed"
  idle,                  \* the read deadline has passed without a pong
  late                   \* history: a message went out after the credential expired

connectionVars == <<owner, reader, writer, expired, client, socket, stop, answer, stream, idle, late>>

ConnectionTypeOK ==
  /\ owner \in {"identify", "resolve", "subscribe", "upgrade", "serve", "join", "done"}
  /\ reader \in {"none", "read", "handle", "reply", "done"}
  /\ writer \in {"none", "check", "select", "write", "done"}
  /\ client \in {"live", "silent", "left"}
  /\ socket \in {"none", "open", "closed"}
  /\ stream \in {"none", "open", "closed"}
  /\ expired \in BOOLEAN /\ stop \in BOOLEAN /\ answer \in BOOLEAN /\ idle \in BOOLEAN /\ late \in BOOLEAN

ConnectionInit ==
  /\ owner = "identify" /\ reader = "none" /\ writer = "none"
  /\ expired = FALSE /\ client = "live" /\ socket = "none" /\ stop = FALSE
  /\ answer = FALSE /\ stream = "none" /\ idle = FALSE /\ late = FALSE

(***************************************************************************)
(* ServeHTTP                                                               *)
(***************************************************************************)

\* The bearer token is verified and must not have expired.
Identify ==
  /\ owner = "identify"
  /\ \E valid \in BOOLEAN : owner' = IF valid /\ ~expired THEN "resolve" ELSE "done"
  /\ UNCHANGED <<reader, writer, expired, client, socket, stop, answer, stream, idle, late>>

\* ResolveTopics, by role or by the protocol; it may refuse.
ResolveTopics ==
  /\ owner = "resolve"
  /\ \E allowed \in BOOLEAN : owner' = IF allowed THEN "subscribe" ELSE "done"
  /\ UNCHANGED <<reader, writer, expired, client, socket, stop, answer, stream, idle, late>>

\* The credential may have expired meanwhile; then the subscription, with its deferred Close.
\* A closed hub hands out a closed one.
Subscribe ==
  /\ owner = "subscribe"
  /\ \/ expired /\ owner' = "done" /\ UNCHANGED stream
     \/ ~expired /\ owner' = "upgrade" /\ stream' \in {"open", "closed"}
  /\ UNCHANGED <<reader, writer, expired, client, socket, stop, answer, idle, late>>

\* Upgrade fails, or both pumps start.
UpgradeSocket ==
  /\ owner = "upgrade"
  /\ \/ /\ owner' = "done" /\ stream' = "closed"
        /\ UNCHANGED <<reader, writer, socket>>
     \/ /\ owner' = "serve" /\ socket' = "open" /\ reader' = "read" /\ writer' = "check"
        /\ UNCHANGED stream
  /\ UNCHANGED <<expired, client, stop, answer, idle, late>>

\* The first of expiry, end of reader and end of writer: stop the writer, close the socket.
Shut ==
  /\ owner = "serve"
  /\ expired \/ reader = "done" \/ writer = "done"
  /\ owner' = "join" /\ stop' = TRUE /\ socket' = "closed"
  /\ UNCHANGED <<reader, writer, expired, client, answer, stream, idle, late>>

\* (mutant: the request goroutine returns with the first pump)
JoinEither ==
  /\ owner = "join" /\ (reader = "done" \/ writer = "done")
  /\ owner' = "done" /\ stream' = "closed"
  /\ UNCHANGED <<reader, writer, expired, client, socket, stop, answer, idle, late>>

\* Both pumps have ended; the deferred Close releases the subscription.
Join ==
  /\ owner = "join" /\ reader = "done" /\ writer = "done"
  /\ owner' = "done" /\ stream' = "closed"
  /\ UNCHANGED <<reader, writer, expired, client, socket, stop, answer, idle, late>>

(***************************************************************************)
(* readPump                                                                *)
(***************************************************************************)

\* ReadMessage fails once the socket is closed or its read deadline passes: the pong wait,
\* cut short by the expiry. A live client answers the pings, and only its pongs reset the deadline.
Read ==
  /\ reader = "read"
  /\ \/ /\ socket = "closed" \/ client = "left" \/ idle \/ expired
        /\ reader' = "done"
     \/ /\ client = "live" /\ socket = "open" /\ ~expired
        /\ reader' = IF Protocol THEN "handle" ELSE "read"
  /\ UNCHANGED <<owner, writer, expired, client, socket, stop, answer, stream, idle, late>>

\* HandleMessage, with or without an answer.
Handle ==
  /\ reader = "handle"
  /\ reader' \in {"read", "reply"}
  /\ UNCHANGED <<owner, writer, expired, client, socket, stop, answer, stream, idle, late>>

\* (mutant: a blocking send)
ReplyBlocking ==
  /\ reader = "reply"
  /\ ~answer /\ answer' = TRUE /\ reader' = "read"
  /\ UNCHANGED <<owner, writer, expired, client, socket, stop, stream, idle, late>>

\* The answer goes to the writer, unless the writer is gone.
Reply ==
  /\ reader = "reply"
  /\ \/ ~answer /\ answer' = TRUE /\ reader' = "read"
     \/ writer = "done" /\ reader' = "done" /\ UNCHANGED answer
  /\ UNCHANGED <<owner, writer, expired, client, socket, stop, stream, idle, late>>

(***************************************************************************)
(* writePump                                                               *)
(***************************************************************************)

\* The writer's deferred calls: close the socket, then writerDone.
WriterEnds == writer' = "done" /\ socket' = "closed"

Check ==
  /\ writer = "check"
  /\ IF expired THEN WriterEnds ELSE writer' = "select" /\ UNCHANGED socket
  /\ UNCHANGED <<owner, reader, expired, client, stop, answer, stream, idle, late>>

\* select: any of the ready cases. Events and the ping ticker may be ready at any time.
Select ==
  /\ writer = "select"
  /\ \/ (expired \/ stop \/ stream = "closed") /\ WriterEnds /\ UNCHANGED answer
     \/ writer' = "write" /\ UNCHANGED <<socket, answer>>
     \/ answer /\ answer' = FALSE /\ writer' = "write" /\ UNCHANGED socket
  /\ UNCHANGED <<owner, reader, expired, client, stop, stream, idle, late>>

\* connectionDeadline: a write that starts now may still succeed.
InTime == ~expired

\* WriteMessage: to a silent client it may succeed into the socket's buffer or time out.
Write ==
  /\ writer = "write"
  /\ \/ /\ socket = "open" /\ client # "left" /\ InTime
        /\ writer' = "check" /\ late' = (late \/ expired) /\ UNCHANGED socket
     \/ /\ socket = "closed" \/ client # "live" \/ ~InTime
        /\ WriterEnds /\ UNCHANGED late
  /\ UNCHANGED <<owner, reader, expired, client, stop, answer, stream, idle>>

(***************************************************************************)
(* Time, client and hub                                                    *)
(***************************************************************************)

Expire ==
  /\ ~expired /\ expired' = TRUE
  /\ UNCHANGED <<owner, reader, writer, client, socket, stop, answer, stream, idle, late>>

ClientChanges ==
  /\ client = "live" /\ client' \in {"silent", "left"}
  /\ UNCHANGED <<owner, reader, writer, expired, socket, stop, answer, stream, idle, late>>

\* No pong for the pong wait.
PongMissed ==
  /\ client = "silent" /\ ~idle /\ idle' = TRUE
  /\ UNCHANGED <<owner, reader, writer, expired, client, socket, stop, answer, stream, late>>

HubCloses ==
  /\ stream = "open" /\ owner \in {"upgrade", "serve", "join"} /\ stream' = "closed"
  /\ UNCHANGED <<owner, reader, writer, expired, client, socket, stop, answer, idle, late>>

Main == Identify \/ ResolveTopics \/ Subscribe \/ UpgradeSocket \/ Shut \/ Join
ReadPump == Read \/ Handle \/ Reply
WritePump == Check \/ Select \/ Write

ConnectionNext == Main \/ ReadPump \/ WritePump \/ Expire \/ ClientChanges \/ PongMissed \/ HubCloses

\* Each goroutine goes on when it can, and select does not ignore a case that stays ready
\* (Go picks among the ready cases at random); time passes. Clients and the hub owe nothing.
ConnectionFairness ==
  /\ WF_connectionVars(Main) /\ WF_connectionVars(ReadPump) /\ WF_connectionVars(WritePump)
  /\ SF_connectionVars(Select /\ writer' = "done") /\ SF_connectionVars(Select /\ answer /\ ~answer') /\ SF_connectionVars(Read /\ reader' = "done")
  /\ WF_connectionVars(PongMissed)

ConnectionSpec == ConnectionInit /\ [][ConnectionNext]_connectionVars

FairConnectionSpec == ConnectionSpec /\ ConnectionFairness

(***************************************************************************)
(* Properties                                                              *)
(***************************************************************************)

\* No goroutine and no subscription outlives the handler, whichever side ended first.
NothingLeaks ==
  owner = "done" => /\ reader \in {"none", "done"} /\ writer \in {"none", "done"}
                   /\ stream # "open" /\ socket # "open"

\* An expired credential, a client that left or fell silent, or a subscription the hub closed
\* ends the connection and releases everything: no pump waits for the other for ever.
EveryConnectionEnds ==
  expired \/ client # "live" \/ stream = "closed" ~> owner = "done"

\* Nothing is sent to a connection whose credential has expired, although the writer checks
\* the context before it waits for work.
NothingAfterExpiry == ~late

\* No goroutine, subscription or socket outlives the handler, in whatever order they stop, nor is
\* anything sent under an expired credential.
ReleasesAll == ConnectionTypeOK /\ NothingLeaks /\ NothingAfterExpiry
=============================================================================
