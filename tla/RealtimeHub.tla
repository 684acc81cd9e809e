---------------------------- MODULE RealtimeHub ----------------------------
(* The WebSocket hub of one server process (platform/ws/hub.go): publishing
   goroutines put events into the bounded queues of subscriptions, the writer of
   each connection takes them out, and publishers, writers and the shutting down
   server close subscriptions. One action is what a goroutine does between two
   points where another can get in: a lock, a channel operation. *)
EXTENDS Naturals, Sequences, FiniteSets, SequencesExt

CONSTANTS
  Producer,     \* goroutines that publish
  Sub,          \* subscriptions; each is created and read by one connection
  Event, TopicsOf, Critical,  \* events, their topics, and those isDroppable refuses
  Topic,
  Capacity,     \* _outboundQueueSize
  Shutdown,     \* the goroutine that closes the hub
  None

ASSUME HubConstants ==
  /\ Capacity \in Nat \ {0} /\ Critical \subseteq Event
  /\ TopicsOf \in [Event -> SUBSET Topic]
  /\ None \notin Producer \cup Sub \cup Event

VARIABLES
  hub,          \* hub.closed, who holds hub.mutex for writing, and the list Close works on
  topics,       \* topics[s]: where s is registered in hub.topics
  queue, closed,\* the channel of s
  mutex, once,  \* evictionMutex of s: its holder; sync.Once of s
  prod,         \* prod[p]: the Publish in progress
  closer,       \* closer[a]: the Subscription.Close agent a is in
  got,          \* got[s]: what the connection of s has received
  conn          \* conn[s]: "new", "reading" or "gone"

vars == <<hub, topics, queue, closed, mutex, once, prod, closer, got, conn>>

Agent == Producer \cup Sub \cup {Shutdown}

Idle == [pc |-> "idle", event |-> None, targets |-> {}, at |-> None, drained |-> <<>>,
         fits |-> TRUE, slow |-> {}]

TypeOK ==
  /\ hub \in [closed : BOOLEAN, lock : Agent \cup {None}, list : SUBSET Sub]
  /\ topics \in [Sub -> SUBSET Topic]
  /\ queue \in [Sub -> Seq(Event)] /\ \A s \in Sub : Len(queue[s]) <= Capacity
  /\ closed \in [Sub -> BOOLEAN]
  /\ mutex \in [Sub -> Producer \cup {None}] /\ once \in [Sub -> {"no", "running", "done"}]
  /\ prod \in [Producer -> [pc : {"idle", "deliver", "push", "drain", "refill", "close"},
                            event : Event \cup {None}, targets : SUBSET Sub,
                            at : Sub \cup {None}, drained : Seq(Event), fits : BOOLEAN,
                            slow : SUBSET Sub]]
  /\ closer \in [Agent -> [pc : {"no", "enter", "lock", "close"}, sub : Sub \cup {None}]]
  /\ got \in [Sub -> Seq(Event)]
  /\ conn \in [Sub -> {"new", "reading", "gone"}]

Init ==
  /\ hub = [closed |-> FALSE, lock |-> None, list |-> {}]
  /\ topics = [s \in Sub |-> {}]
  /\ queue = [s \in Sub |-> <<>>] /\ closed = [s \in Sub |-> FALSE]
  /\ mutex = [s \in Sub |-> None] /\ once = [s \in Sub |-> "no"]
  /\ prod = [p \in Producer |-> Idle]
  /\ closer = [a \in Agent |-> [pc |-> "no", sub |-> None]]
  /\ got = [s \in Sub |-> <<>>]
  /\ conn = [s \in Sub |-> "new"]

(***************************************************************************)
(* Subscriptions                                                           *)
(***************************************************************************)

\* Hub.Subscribe: a closed hub returns a subscription that is closed already.
Subscribe(s, T) ==
  /\ conn[s] = "new" /\ hub.lock = None
  /\ conn' = [conn EXCEPT ![s] = "reading"]
  /\ closed' = [closed EXCEPT ![s] = hub.closed]
  /\ once' = [once EXCEPT ![s] = IF hub.closed THEN "done" ELSE "no"]
  /\ topics' = [topics EXCEPT ![s] = IF hub.closed THEN {} ELSE T]
  /\ UNCHANGED <<hub, queue, mutex, prod, closer, got>>

\* The connection's writer takes the next event.
Receive(s) ==
  /\ conn[s] = "reading" /\ queue[s] # <<>>
  /\ got' = [got EXCEPT ![s] = Append(@, Head(queue[s]))]
  /\ queue' = [queue EXCEPT ![s] = Tail(@)]
  /\ UNCHANGED <<hub, topics, closed, mutex, once, prod, closer, conn>>

Enter(a, s) == closer' = [closer EXCEPT ![a] = [pc |-> "enter", sub |-> s]]

\* The connection ends: its client left, or its channel is closed and empty. The deferred
\* Close of the handler runs.
Leave(s) ==
  /\ conn[s] = "reading"
  /\ conn' = [conn EXCEPT ![s] = "gone"]
  /\ Enter(s, s)
  /\ UNCHANGED <<hub, topics, queue, closed, mutex, once, prod, got>>

\* Subscription.Close, sync.Once: the first caller does the work, callers that come while
\* it runs wait, later ones return.
CloseOnce(a) ==
  LET s == closer[a].sub
  IN /\ closer[a].pc = "enter" /\ once[s] # "running"
     /\ IF once[s] = "done"
        THEN closer' = [closer EXCEPT ![a] = [pc |-> "no", sub |-> None]] /\ UNCHANGED once
        ELSE closer' = [closer EXCEPT ![a].pc = "lock"] /\ once' = [once EXCEPT ![s] = "running"]
     /\ UNCHANGED <<hub, topics, queue, closed, mutex, prod, got, conn>>

\* It takes hub.mutex and removes the subscription from its topics.
CloseUnregister(a) ==
  LET s == closer[a].sub
  IN /\ closer[a].pc = "lock" /\ hub.lock = None
     /\ hub' = [hub EXCEPT !.lock = a]
     /\ topics' = [topics EXCEPT ![s] = {}]
     /\ closer' = [closer EXCEPT ![a].pc = "close"]
     /\ UNCHANGED <<queue, closed, mutex, once, prod, got, conn>>

\* (mutant: the channel is closed without evictionMutex)
CloseUnguarded(a) ==
  LET s == closer[a].sub
  IN /\ closer[a].pc = "close"
     /\ closed' = [closed EXCEPT ![s] = TRUE]
     /\ once' = [once EXCEPT ![s] = "done"]
     /\ hub' = [hub EXCEPT !.lock = None]
     /\ closer' = [closer EXCEPT ![a] = [pc |-> "no", sub |-> None]]
     /\ UNCHANGED <<topics, queue, mutex, prod, got, conn>>

\* Still holding hub.mutex it takes evictionMutex and closes the channel.
CloseChannel(a) ==
  LET s == closer[a].sub
  IN /\ closer[a].pc = "close" /\ mutex[s] = None
     /\ closed' = [closed EXCEPT ![s] = TRUE]
     /\ once' = [once EXCEPT ![s] = "done"]
     /\ hub' = [hub EXCEPT !.lock = None]
     /\ closer' = [closer EXCEPT ![a] = [pc |-> "no", sub |-> None]]
     /\ UNCHANGED <<topics, queue, mutex, prod, got, conn>>

(***************************************************************************)
(* Publishing                                                              *)
(***************************************************************************)

Targets(e) == {s \in Sub : topics[s] \cap TopicsOf[e] # {}}

Unpublished(e) == \A p \in Producer : prod[p].event # e

\* Hub.Publish: the subscriptions of the event's topics, each once, under the read lock.
\* Each goroutine of the model publishes one event.
Publish(p, e) ==
  /\ prod[p] = Idle /\ hub.lock = None /\ Unpublished(e)
  /\ prod' = [prod EXCEPT ![p].event = e, ![p].pc = IF hub.closed THEN "idle" ELSE "deliver",
                          ![p].targets = IF hub.closed THEN {} ELSE Targets(e)]
  /\ UNCHANGED <<hub, topics, queue, closed, mutex, once, closer, got, conn>>

\* deliver begins: evictionMutex of one of the targets.
LockQueue(p, s) ==
  /\ prod[p].pc = "deliver" /\ s \in prod[p].targets /\ mutex[s] = None
  /\ mutex' = [mutex EXCEPT ![s] = p]
  /\ prod' = [prod EXCEPT ![p].pc = "push", ![p].at = s, ![p].fits = TRUE]
  /\ UNCHANGED <<hub, topics, queue, closed, once, closer, got, conn>>

\* deliver ends: the lock is released, and a subscription without room is remembered.
Delivered(p, fits) ==
  LET s == prod[p].at
  IN /\ mutex' = [mutex EXCEPT ![s] = None]
     /\ prod' = [prod EXCEPT ![p].pc = "deliver", ![p].at = None, ![p].fits = TRUE,
                             ![p].targets = @ \ {s}, ![p].drained = <<>>,
                             ![p].slow = IF fits THEN @ ELSE @ \cup {s}]

\* The closed flag and the first, non-blocking send.
Push(p) ==
  LET s == prod[p].at
  IN /\ prod[p].pc = "push"
     /\ \/ /\ closed[s]
           /\ Delivered(p, TRUE) /\ UNCHANGED queue
        \/ /\ ~closed[s] /\ Len(queue[s]) < Capacity
           /\ queue' = [queue EXCEPT ![s] = Append(@, prod[p].event)]
           /\ Delivered(p, TRUE)
        \/ /\ ~closed[s] /\ Len(queue[s]) = Capacity
           /\ prod' = [prod EXCEPT ![p].pc = "drain"] /\ UNCHANGED <<queue, mutex>>
     /\ UNCHANGED <<hub, topics, closed, once, closer, got, conn>>

\* (mutant: the oldest event makes room, whatever it is)
DropOldest(q) == Tail(q)

\* The first droppable event of a sequence, removed.
DropFirst(q) ==
  LET i == SelectInSeq(q, LAMBDA e : e \notin Critical)
  IN RemoveAt(q, i)

\* The queue is drained event by event while the connection may still be reading; when it
\* is empty the event takes the place of a droppable one, or is dropped itself, or does not fit.
Drain(p) ==
  LET s == prod[p].at
      e == prod[p].event
      drained == prod[p].drained
  IN /\ prod[p].pc = "drain"
     /\ \/ /\ queue[s] # <<>>
           /\ queue' = [queue EXCEPT ![s] = Tail(@)]
           /\ prod' = [prod EXCEPT ![p].drained = Append(@, Head(queue[s]))]
        \/ /\ queue[s] = <<>>
           /\ prod' = [prod EXCEPT ![p].pc = "refill",
                ![p].drained = IF \E i \in DOMAIN drained : drained[i] \notin Critical
                               THEN Append(DropFirst(drained), e) ELSE drained,
                ![p].fits = e \notin Critical \/ \E i \in DOMAIN drained : drained[i] \notin Critical]
           /\ UNCHANGED queue
     /\ UNCHANGED <<hub, topics, closed, mutex, once, closer, got, conn>>

\* The drained events are sent back, one blocking send at a time.
Refill(p) ==
  LET s == prod[p].at
  IN /\ prod[p].pc = "refill"
     /\ \/ /\ prod[p].drained # <<>> /\ Len(queue[s]) < Capacity
           /\ queue' = [queue EXCEPT ![s] = Append(@, Head(prod[p].drained))]
           /\ prod' = [prod EXCEPT ![p].drained = Tail(@)]
           /\ UNCHANGED mutex
        \/ /\ prod[p].drained = <<>>
           /\ Delivered(p, prod[p].fits) /\ UNCHANGED queue
     /\ UNCHANGED <<hub, topics, closed, once, closer, got, conn>>

\* After the last target the subscriptions without room are closed, one after the other.
CloseSlow(p) ==
  /\ prod[p].pc \in {"deliver", "close"} /\ prod[p].targets = {} /\ closer[p].pc = "no"
  /\ \/ \E s \in prod[p].slow :
          /\ prod' = [prod EXCEPT ![p].pc = "close", ![p].slow = @ \ {s}]
          /\ Enter(p, s)
     \/ /\ prod[p].slow = {}
        /\ prod' = [prod EXCEPT ![p].pc = "idle"] /\ UNCHANGED closer
  /\ UNCHANGED <<hub, topics, queue, closed, mutex, once, got, conn>>

(***************************************************************************)
(* Shutdown                                                                *)
(***************************************************************************)

\* Hub.Close: no event and no subscription gets in from now on; the ones registered at this
\* moment are listed under the lock and closed one after the other without it.
CloseHub ==
  /\ ~hub.closed /\ hub.lock = None
  /\ hub' = [hub EXCEPT !.closed = TRUE, !.list = {s \in Sub : topics[s] # {}}]
  /\ UNCHANGED <<topics, queue, closed, mutex, once, prod, closer, got, conn>>

CloseNext(s) ==
  /\ s \in hub.list /\ closer[Shutdown].pc = "no"
  /\ hub' = [hub EXCEPT !.list = @ \ {s}]
  /\ Enter(Shutdown, s)
  /\ UNCHANGED <<topics, queue, closed, mutex, once, prod, got, conn>>

CloseStep(a) == CloseOnce(a) \/ CloseUnregister(a) \/ CloseChannel(a)

ProducerStep(p) ==
  (\E s \in Sub : LockQueue(p, s)) \/ Push(p) \/ Drain(p) \/ Refill(p) \/ CloseSlow(p)

Next ==
  \/ \E s \in Sub : Receive(s) \/ Leave(s) \/ CloseNext(s)
                    \/ \E T \in SUBSET Topic \ {{}} : Subscribe(s, T)
  \/ \E p \in Producer : ProducerStep(p) \/ \E e \in Event : Publish(p, e)
  \/ \E a \in Agent : CloseStep(a)
  \/ CloseHub

\* Publishers and closers need nobody to go on, and sync.Mutex does not starve a waiter;
\* clients owe nothing: they may never read again and never leave.
Fairness ==
  /\ \A p \in Producer : SF_vars(ProducerStep(p))
  /\ \A a \in Agent : SF_vars(CloseStep(a))
  /\ WF_vars(\E s \in Sub : CloseNext(s))

Spec == Init /\ [][Next]_vars

FairSpec == Spec /\ Fairness

(***************************************************************************)
(* Properties                                                              *)
(***************************************************************************)

\* deliver never sends on a closed channel (the process would panic): a channel is not
\* closed while a producer drains and refills it.
NoSendOnClosed ==
  \A p \in Producer : prod[p].pc \in {"drain", "refill"} => ~closed[prod[p].at]

\* A refill never waits: with every producer behind evictionMutex the reader only makes room.
RefillNeverBlocks ==
  \A p \in Producer : prod[p].pc = "refill" =>
    Len(queue[prod[p].at]) + Len(prod[p].drained) <= Capacity

\* Whatever publishers, readers and closers do in between, a publisher neither panics on a closed
\* channel nor blocks while it refills one.
RefillIsSafe == TypeOK /\ NoSendOnClosed /\ RefillNeverBlocks

OnTheWay(e, s) ==
  \/ e \in ToSet(queue[s]) \cup ToSet(got[s])
  \/ \E p \in Producer :
       \/ prod[p].at = s /\ e \in ToSet(prod[p].drained)
       \/ prod[p].event = e /\ (prod[p].at = s \/ s \in prod[p].targets)

Closing(s) ==
  closed[s] \/ \E a \in Agent : closer[a].sub = s \/ \E p \in Producer : s \in prod[p].slow

\* A critical event that reached a subscription stays on its way until it is received, or
\* the subscription is closed so that the client recovers from a snapshot: other events,
\* evictions and the reader never make it vanish.
CriticalNotLost ==
  [][\A s \in Sub, e \in Critical :
       OnTheWay(e, s) => OnTheWay(e, s)' \/ Closing(s)']_vars

\* Every publication ends, whatever readers and closers do: no cycle of hub.mutex,
\* sync.Once and evictionMutex.
EveryPublishEnds == \A p \in Producer : prod[p].pc = "deliver" ~> prod[p].pc = "idle"

\* Closing the hub closes every subscription, the ones created in between included.
ShutdownClosesAll ==
  \A s \in Sub : hub.closed /\ conn[s] = "reading" ~> closed[s]

=============================================================================
