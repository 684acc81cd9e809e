---------------------------- MODULE EventProofs ----------------------------
(* What holds of the way of an event for every number of publishers, connections,
   processes, rides and drivers and every queue size. The hub: a publisher neither
   sends on a closed channel nor blocks while it refills one, and a critical event
   is received or its subscription closed. The projections: both indexes of a
   process say the same, and an entry of a ride that is over has a cause. *)
EXTENDS RealtimeHub, AssignmentProjection, SequenceTheorems, WellFoundedInduction, TLAPS

(***************************************************************************)
(* The inductive invariant                                                 *)
(***************************************************************************)

InQueue == {"push", "drain", "refill"}

Publication ==
  [pc : {"idle", "deliver", "push", "drain", "refill", "close"}, event : Event \cup {None},
   targets : SUBSET Sub, at : Sub \cup {None}, drained : Seq(Event), fits : BOOLEAN,
   slow : SUBSET Sub]

\* A publisher is at a queue exactly from taking evictionMutex to releasing it, and the queue is
\* one of its targets. It keeps events only while it drains and refills.
AtItsQueue(p) ==
  /\ prod[p].pc \in InQueue <=> prod[p].at # None
  /\ prod[p].pc \in InQueue => mutex[prod[p].at] = p /\ prod[p].at \in prod[p].targets
  /\ prod[p].pc # "idle" => prod[p].event \in Event
  /\ prod[p].pc \notin {"drain", "refill"} => prod[p].drained = <<>>

\* The queue that is drained is open, and what was taken out still fits.
RoomKept(p) ==
  prod[p].pc \in {"drain", "refill"} =>
    /\ ~closed[prod[p].at]
    /\ Len(queue[prod[p].at]) + Len(prod[p].drained) <= Capacity

\* A critical event that fits is among the events sent back.
CriticalSentBack(p) ==
  prod[p].pc = "refill" /\ prod[p].fits /\ prod[p].event \in Critical =>
    prod[p].event \in ToSet(prod[p].drained) \cup ToSet(queue[prod[p].at])
                        \cup ToSet(got[prod[p].at])

Tracks(p) == AtItsQueue(p) /\ RoomKept(p) /\ CriticalSentBack(p)

\* Nobody publishes to a subscription before it is made.
NewIsUnknown ==
  \A s \in Sub : conn[s] = "new" =>
    topics[s] = {} /\ \A p \in Producer : s \notin prod[p].targets

HubInv == TypeOK /\ NewIsUnknown /\ \A p \in Producer : Tracks(p)

LEMMA CapacityType == Capacity \in Nat /\ Capacity # 0
BY HubConstants

(***************************************************************************)
(* Sequences of events                                                     *)
(***************************************************************************)

\* Taking the head of a sequence loses nothing.
LEMMA HeadTailSet ==
  ASSUME NEW q \in Seq(Event), q # <<>>
  PROVE  /\ Head(q) \in Event /\ Tail(q) \in Seq(Event) /\ Len(Tail(q)) = Len(q) - 1
         /\ ToSet(q) = {Head(q)} \cup ToSet(Tail(q))
<1>1. /\ Head(q) \in Event /\ Tail(q) \in Seq(Event) /\ Len(Tail(q)) = Len(q) - 1
      /\ \A i \in 1 .. Len(Tail(q)) : Tail(q)[i] = q[i + 1]
  BY HeadTailProperties
<1>2. DOMAIN q = 1 .. Len(q) /\ DOMAIN Tail(q) = 1 .. Len(Tail(q)) /\ Len(q) \in Nat \ {0}
  BY <1>1
<1>3. Head(q) = q[1]
  OBVIOUS
<1>4. \A e \in ToSet(q) : e = Head(q) \/ e \in ToSet(Tail(q))
  <2>1. SUFFICES ASSUME NEW i \in 1 .. Len(q), i # 1 PROVE q[i] \in ToSet(Tail(q))
    BY <1>2, <1>3 DEF ToSet
  <2>2. i - 1 \in 1 .. Len(Tail(q)) /\ Tail(q)[i - 1] = q[i]
    BY <1>1, <1>2, <2>1
  <2> QED
    BY <2>2, <1>2 DEF ToSet
<1>5. \A e \in ToSet(Tail(q)) : e \in ToSet(q)
  BY <1>1, <1>2 DEF ToSet
<1>6. Head(q) \in ToSet(q)
  BY <1>2, <1>3 DEF ToSet
<1> QED
  BY <1>1, <1>4, <1>5, <1>6

LEMMA AppendSet ==
  ASSUME NEW q \in Seq(Event), NEW e \in Event
  PROVE  /\ Append(q, e) \in Seq(Event) /\ Len(Append(q, e)) = Len(q) + 1
         /\ ToSet(Append(q, e)) = ToSet(q) \cup {e}
<1>1. /\ Append(q, e) \in Seq(Event) /\ Len(Append(q, e)) = Len(q) + 1
      /\ \A i \in 1 .. Len(q) : Append(q, e)[i] = q[i]
      /\ Append(q, e)[Len(q) + 1] = e
  BY AppendProperties
<1>2. DOMAIN q = 1 .. Len(q) /\ DOMAIN Append(q, e) = 1 .. Len(q) + 1 /\ Len(q) \in Nat
  BY <1>1
<1> QED
  BY <1>1, <1>2 DEF ToSet

\* A set of natural numbers has a least one.
LEMMA LeastNumber ==
  ASSUME NEW N, N \subseteq Nat, N # {}
  PROVE  \E n \in N : \A m \in N : n <= m
<1> DEFINE Less == {p \in Nat \X Nat : p[1] < p[2]}
<1>1. IsWellFoundedOn(Less, Nat)
  BY NatLessThanWellFounded, Zenon DEF OpToRel
<1> HIDE DEF Less
<1>2. PICK n \in N : \A m \in N : ~(<<m, n>> \in Less)
  BY <1>1, WFMin, Zenon
<1>3. \A m \in N : ~(m < n)
  BY <1>2 DEF Less
<1> QED
  BY <1>3

\* The eviction makes room for one event, and keeps the critical ones.
LEMMA DropFirstSet ==
  ASSUME NEW q \in Seq(Event), \E i \in DOMAIN q : q[i] \notin Critical
  PROVE  /\ DropFirst(q) \in Seq(Event) /\ Len(DropFirst(q)) = Len(q) - 1
         /\ ToSet(q) \cap Critical \subseteq ToSet(DropFirst(q))
<1> DEFINE I == {i \in 1 .. Len(q) : q[i] \notin Critical}
<1>1. Len(q) \in Nat /\ DOMAIN q = 1 .. Len(q)
  OBVIOUS
<1>2. I # {} /\ I \subseteq Nat
  BY <1>1
<1>3. \E n \in I : \A m \in I : n <= m
  BY <1>2, LeastNumber
<1>4. PICK k : k = Min(I)
  OBVIOUS
<1>5. k \in I
  BY <1>3, <1>4, Zenon DEF Min
<1>6. DropFirst(q) = RemoveAt(q, k)
  BY <1>2, <1>4 DEF DropFirst, SelectInSeq
<1>k. k \in 1 .. Len(q) /\ q[k] \notin Critical
  BY <1>5
<1> HIDE DEF I
<1>a. PICK a : a = SubSeq(q, 1, k - 1)
  OBVIOUS
<1>b. PICK b : b = SubSeq(q, k + 1, Len(q))
  OBVIOUS
<1>6a. 1 \in Int /\ k - 1 \in Int /\ k + 1 \in Int /\ Len(q) \in Int
       /\ (\A i \in 1 .. k - 1 : q[i] \in Event) /\ (\A i \in k + 1 .. Len(q) : q[i] \in Event)
  BY <1>1, <1>k
<1>7a. /\ a \in Seq(Event) /\ Len(a) = IF 1 <= k - 1 THEN k - 1 - 1 + 1 ELSE 0
       /\ \A i \in 1 .. k - 1 - 1 + 1 : a[i] = q[1 + i - 1]
  BY <1>6a, <1>a, SubSeqProperties
<1>7b. /\ b \in Seq(Event) /\ Len(b) = IF k + 1 <= Len(q) THEN Len(q) - (k + 1) + 1 ELSE 0
       /\ \A i \in 1 .. Len(q) - (k + 1) + 1 : b[i] = q[(k + 1) + i - 1]
  BY <1>6a, <1>b, SubSeqProperties
<1>7. /\ a \in Seq(Event) /\ Len(a) = k - 1 /\ \A i \in 1 .. k - 1 : a[i] = q[i]
      /\ b \in Seq(Event) /\ Len(b) = Len(q) - k /\ \A i \in 1 .. Len(q) - k : b[i] = q[k + i]
  <2>0. k \in Nat /\ 1 <= k /\ k <= Len(q)
    BY <1>1, <1>k
  <2>1. PICK n \in Nat : n = Len(q)
    BY <1>1
  <2>5. k - 1 - 1 + 1 = k - 1 /\ n - (k + 1) + 1 = n - k
    BY <2>0, <2>1
  <2>6. (~(1 <= k - 1) => k - 1 = 0) /\ (~(k + 1 <= n) => n - k = 0)
    BY <2>0, <2>1
  <2>2. /\ \A i \in 1 .. k - 1 : 1 + i - 1 = i
        /\ \A i \in 1 .. Len(q) - k : (k + 1) + i - 1 = k + i
    BY <1>1, <1>k
  <2>3. Len(a) = k - 1 /\ \A i \in 1 .. k - 1 : a[i] = q[i]
    BY <2>1, <2>5, <2>6, <2>2, <1>7a
  <2>4. Len(b) = Len(q) - k /\ \A i \in 1 .. Len(q) - k : b[i] = q[k + i]
    BY <2>1, <2>5, <2>6, <2>2, <1>7b
  <2> QED
    BY <2>3, <2>4, <1>7a, <1>7b
<1>8a. /\ a \o b \in Seq(Event) /\ Len(a \o b) = Len(a) + Len(b)
       /\ \A i \in 1 .. Len(a) + Len(b) : (a \o b)[i] = IF i <= Len(a) THEN a[i] ELSE b[i - Len(a)]
  BY <1>7, ConcatProperties
<1>8. /\ a \o b \in Seq(Event) /\ Len(a \o b) = Len(q) - 1
      /\ \A i \in 1 .. Len(q) - 1 : (a \o b)[i] = IF i <= k - 1 THEN a[i] ELSE b[i - (k - 1)]
  BY <1>1, <1>k, <1>7, <1>8a
<1>9. ASSUME NEW i \in 1 .. Len(q), q[i] \in Critical
      PROVE  q[i] \in ToSet(a \o b)
  <2>1. i # k
    BY <1>k, <1>9
  <2>2. DOMAIN (a \o b) = 1 .. Len(q) - 1
    BY <1>8, LenProperties
  <2>3. CASE i < k
    <3>1. i \in 1 .. Len(q) - 1 /\ (a \o b)[i] = q[i]
      BY <1>1, <1>k, <1>7, <1>8, <2>3
    <3> QED
      BY <3>1, <2>2 DEF ToSet
  <2>4. CASE i > k
    <3>1. i - 1 \in 1 .. Len(q) - 1 /\ ~(i - 1 <= k - 1) /\ (i - 1) - (k - 1) \in 1 .. Len(q) - k
          /\ k + ((i - 1) - (k - 1)) = i
      BY <1>1, <1>k, <2>4
    <3>2. (a \o b)[i - 1] = q[i]
      BY <3>1, <1>7, <1>8
    <3> QED
      BY <3>1, <3>2, <2>2 DEF ToSet
  <2> QED
    BY <2>1, <2>3, <2>4, <1>k, <1>1
<1>10. DropFirst(q) = a \o b
  BY <1>6, <1>a, <1>b DEF RemoveAt
<1>11. ToSet(q) \cap Critical \subseteq ToSet(a \o b)
  <2>1. SUFFICES ASSUME NEW e \in ToSet(q), e \in Critical PROVE e \in ToSet(a \o b)
    OBVIOUS
  <2>2. PICK i \in 1 .. Len(q) : e = q[i]
    BY <1>1 DEF ToSet
  <2> QED
    BY <1>9, <2>1, <2>2
<1> QED
  BY <1>8, <1>10, <1>11

(***************************************************************************)
(* Steps that publish nothing                                              *)
(***************************************************************************)

\* A publisher is disturbed only through its record and the queue it is at.
LEMMA Undisturbed ==
  ASSUME TypeOK, NEW p \in Producer, Tracks(p), prod'[p] = prod[p],
         prod[p].at # None =>
           /\ mutex'[prod[p].at] = mutex[prod[p].at] /\ queue'[prod[p].at] = queue[prod[p].at]
           /\ got'[prod[p].at] = got[prod[p].at] /\ closed'[prod[p].at] = closed[prod[p].at]
  PROVE  Tracks(p)'
<1>1. AtItsQueue(p)'
  BY DEF Tracks, AtItsQueue
<1>2. RoomKept(p)'
  BY DEF Tracks, AtItsQueue, RoomKept, InQueue
<1>3. CriticalSentBack(p)'
  BY DEF Tracks, AtItsQueue, CriticalSentBack, InQueue
<1> QED
  BY <1>1, <1>2, <1>3 DEF Tracks

LEMMA InitInv == Init => HubInv
<1> SUFFICES ASSUME Init PROVE HubInv
  OBVIOUS
<1>1. TypeOK
  BY HubConstants, EmptySeq DEF Init, TypeOK, Agent, Idle
<1>2. NewIsUnknown
  BY DEF Init, NewIsUnknown, Idle
<1>3. ASSUME NEW p \in Producer PROVE Tracks(p)
  BY DEF Init, Tracks, AtItsQueue, RoomKept, CriticalSentBack, Idle, InQueue
<1> QED
  BY <1>1, <1>2, <1>3 DEF HubInv

LEMMA SubscribeInv ==
  ASSUME HubInv, NEW s \in Sub, NEW T \in SUBSET Topic, Subscribe(s, T)
  PROVE  HubInv'
<1>1. TypeOK'
  BY DEF HubInv, TypeOK, Subscribe
<1>2. NewIsUnknown'
  BY DEF HubInv, TypeOK, NewIsUnknown, Subscribe
<1>3. ASSUME NEW p \in Producer PROVE Tracks(p)'
  <2>1. prod[p].at # s /\ Tracks(p)
    BY HubConstants DEF HubInv, TypeOK, NewIsUnknown, Tracks, AtItsQueue, Subscribe
  <2>2. prod[p].at # None => closed'[prod[p].at] = closed[prod[p].at]
    BY <2>1 DEF HubInv, TypeOK, Subscribe
  <2> QED
    BY <2>1, <2>2, Undisturbed DEF HubInv, Subscribe
<1> QED
  BY <1>1, <1>2, <1>3 DEF HubInv

LEMMA LeaveInv ==
  ASSUME HubInv, NEW s \in Sub, Leave(s)
  PROVE  HubInv'
<1>1. TypeOK'
  BY DEF HubInv, TypeOK, Leave, Enter, Agent
<1>2. NewIsUnknown'
  BY DEF HubInv, TypeOK, NewIsUnknown, Leave
<1>3. ASSUME NEW p \in Producer PROVE Tracks(p)'
  BY <1>3, Undisturbed DEF HubInv, Leave
<1> QED
  BY <1>1, <1>2, <1>3 DEF HubInv

LEMMA CloseHubInv ==
  ASSUME HubInv, CloseHub
  PROVE  HubInv'
<1>1. TypeOK'
  BY DEF HubInv, TypeOK, CloseHub
<1>2. NewIsUnknown'
  BY DEF HubInv, NewIsUnknown, CloseHub
<1>3. ASSUME NEW p \in Producer PROVE Tracks(p)'
  BY <1>3, Undisturbed DEF HubInv, CloseHub
<1> QED
  BY <1>1, <1>2, <1>3 DEF HubInv

LEMMA CloseNextInv ==
  ASSUME HubInv, NEW s \in Sub, CloseNext(s)
  PROVE  HubInv'
<1>1. TypeOK'
  BY DEF HubInv, TypeOK, CloseNext, Enter, Agent
<1>2. NewIsUnknown'
  BY DEF HubInv, NewIsUnknown, CloseNext
<1>3. ASSUME NEW p \in Producer PROVE Tracks(p)'
  BY <1>3, Undisturbed DEF HubInv, CloseNext
<1> QED
  BY <1>1, <1>2, <1>3 DEF HubInv

\* The channel is closed under evictionMutex, so that no publisher is at the queue.
LEMMA CloseStepInv ==
  ASSUME HubInv, NEW a \in Agent, CloseStep(a)
  PROVE  HubInv'
<1> USE DEF HubInv
<1>1. CASE CloseOnce(a)
  <2>0. PICK c \in [pc : {"no", "enter", "lock", "close"}, sub : Sub \cup {None}] :
          closer' = [closer EXCEPT ![a] = c]
    <3>1. closer[a] \in [pc : {"no", "enter", "lock", "close"}, sub : Sub \cup {None}]
      BY DEF TypeOK
    <3>2. CASE once[closer[a].sub] = "done"
      BY <1>1, <3>2 DEF CloseOnce
    <3>3. CASE once[closer[a].sub] # "done"
      <4>1. closer' = [closer EXCEPT ![a] = [closer[a] EXCEPT !.pc = "lock"]]
        BY <1>1, <3>3 DEF CloseOnce
      <4> QED
        BY <3>1, <4>1
    <3> QED
      BY <3>2, <3>3
  <2>1. TypeOK'
    <3>1. once' \in [Sub -> {"no", "running", "done"}]
      BY <1>1 DEF TypeOK, CloseOnce
    <3>2. closer' \in [Agent -> [pc : {"no", "enter", "lock", "close"}, sub : Sub \cup {None}]]
      BY <2>0 DEF TypeOK
    <3> QED
      BY <1>1, <3>1, <3>2 DEF TypeOK, CloseOnce
  <2>2. NewIsUnknown'
    BY <1>1 DEF NewIsUnknown, CloseOnce
  <2>3. ASSUME NEW p \in Producer PROVE Tracks(p)'
    BY <1>1, <2>3, Undisturbed DEF CloseOnce
  <2> QED
    BY <2>1, <2>2, <2>3
<1>2. CASE CloseUnregister(a)
  <2>1. TypeOK'
    <3>1. closer[a] \in [pc : {"no", "enter", "lock", "close"}, sub : Sub \cup {None}]
      BY DEF TypeOK
    <3>2. closer' = [closer EXCEPT ![a] = [closer[a] EXCEPT !.pc = "close"]]
      BY <1>2 DEF CloseUnregister
    <3>3. closer' \in [Agent -> [pc : {"no", "enter", "lock", "close"}, sub : Sub \cup {None}]]
      BY <3>1, <3>2 DEF TypeOK
    <3>4. /\ hub' \in [closed : BOOLEAN, lock : Agent \cup {None}, list : SUBSET Sub]
          /\ topics' \in [Sub -> SUBSET Topic]
      BY <1>2 DEF TypeOK, CloseUnregister
    <3> QED
      BY <1>2, <3>3, <3>4 DEF TypeOK, CloseUnregister
  <2>2. NewIsUnknown'
    BY <1>2 DEF TypeOK, NewIsUnknown, CloseUnregister
  <2>3. ASSUME NEW p \in Producer PROVE Tracks(p)'
    BY <1>2, <2>3, Undisturbed DEF CloseUnregister
  <2> QED
    BY <2>1, <2>2, <2>3
<1>3. CASE CloseChannel(a)
  <2>1. TypeOK'
    BY <1>3 DEF TypeOK, CloseChannel
  <2>2. NewIsUnknown'
    BY <1>3 DEF NewIsUnknown, CloseChannel
  <2>3. ASSUME NEW p \in Producer PROVE Tracks(p)'
    <3>1. prod[p].at # None => prod[p].at # closer[a].sub
      BY <1>3, HubConstants DEF Tracks, AtItsQueue, CloseChannel
    <3>2. prod[p].at # None => closed'[prod[p].at] = closed[prod[p].at]
      BY <1>3, <3>1 DEF TypeOK, CloseChannel
    <3> QED
      BY <1>3, <3>2, Undisturbed DEF CloseChannel
  <2> QED
    BY <2>1, <2>2, <2>3
<1> QED
  BY <1>1, <1>2, <1>3 DEF CloseStep

\* The reader moves the head of its queue; what is on its way stays so, and the room grows.
LEMMA ReceiveInv ==
  ASSUME HubInv, NEW s \in Sub, Receive(s)
  PROVE  HubInv'
<1> USE DEF HubInv
<1>1. /\ queue[s] \in Seq(Event) /\ queue[s] # <<>> /\ got[s] \in Seq(Event)
      /\ queue'[s] = Tail(queue[s]) /\ got'[s] = Append(got[s], Head(queue[s]))
      /\ \A t \in Sub \ {s} : queue'[t] = queue[t] /\ got'[t] = got[t]
  BY DEF TypeOK, Receive
<1>2. /\ Head(queue[s]) \in Event /\ queue'[s] \in Seq(Event) /\ Len(queue'[s]) = Len(queue[s]) - 1
      /\ ToSet(queue[s]) = {Head(queue[s])} \cup ToSet(queue'[s])
  BY <1>1, HeadTailSet
<1>3. got'[s] \in Seq(Event) /\ ToSet(got'[s]) = ToSet(got[s]) \cup {Head(queue[s])}
  BY <1>1, <1>2, AppendSet
<1>4. TypeOK'
  <2>1. queue' \in [Sub -> Seq(Event)] /\ got' \in [Sub -> Seq(Event)]
    BY <1>1, <1>2, <1>3 DEF TypeOK, Receive
  <2>2. \A t \in Sub : Len(queue'[t]) <= Capacity
    <3>1. Len(queue[s]) \in Nat /\ Len(queue[s]) <= Capacity
      BY <1>1 DEF TypeOK
    <3>2. Len(queue'[s]) <= Capacity
      BY <3>1, <1>2, HubConstants
    <3> QED
      BY <1>1, <3>2 DEF TypeOK
  <2> QED
    BY <2>1, <2>2 DEF TypeOK, Receive
<1>5. NewIsUnknown'
  BY DEF NewIsUnknown, Receive
<1>6. ASSUME NEW p \in Producer PROVE Tracks(p)'
  <2>1. CASE prod[p].at # s
    BY <1>1, <2>1, Undisturbed DEF Receive, TypeOK
  <2>2. CASE prod[p].at = s
    <3>1. AtItsQueue(p)'
      BY DEF Tracks, AtItsQueue, Receive
    <3>2. RoomKept(p)'
      <4>1. Len(prod[p].drained) \in Nat
        BY DEF TypeOK
      <4>2. Len(queue[s]) \in Nat /\ Len(queue'[s]) \in Nat
        BY <1>1, <1>2
      <4>3. prod[p].pc \in {"drain", "refill"} => Len(queue[s]) + Len(prod[p].drained) <= Capacity
        BY <2>2 DEF Tracks, RoomKept
      <4>4. prod[p].pc \in {"drain", "refill"} => Len(queue'[s]) + Len(prod[p].drained) <= Capacity
        <5>1. PICK m \in Nat, n \in Nat, d \in Nat :
                m = Len(queue[s]) /\ n = Len(queue'[s]) /\ d = Len(prod[p].drained)
          BY <4>1, <4>2
        <5>0. n = m - 1
          BY <5>1, <1>2
        <5>2. m + d <= Capacity => n + d <= Capacity
          BY <5>0, CapacityType
        <5> QED
          BY <5>1, <5>2, <4>3
      <4> QED
        BY <4>4, <2>2 DEF Tracks, RoomKept, Receive
    <3>3. CriticalSentBack(p)'
      BY <1>2, <1>3, <2>2 DEF Tracks, CriticalSentBack, Receive
    <3> QED
      BY <3>1, <3>2, <3>3 DEF Tracks
  <2> QED
    BY <2>1, <2>2
<1> QED
  BY <1>4, <1>5, <1>6

(***************************************************************************)
(* Steps of a publisher                                                    *)
(***************************************************************************)

LEMMA PublicationType ==
  ASSUME TypeOK, NEW p \in Producer
  PROVE  prod[p] \in Publication
BY DEF TypeOK, Publication

\* A step of one publisher, by the new value of its record.
Moves(p, r) == prod' = [prod EXCEPT ![p] = r]

LEMMA MovesType ==
  ASSUME TypeOK, NEW p \in Producer, NEW r \in Publication, Moves(p, r)
  PROVE  /\ prod' \in [Producer -> Publication] /\ prod'[p] = r
         /\ \A o \in Producer \ {p} : prod'[o] = prod[o]
BY DEF TypeOK, Moves, Publication

\* evictionMutex: no two publishers are at the same queue.
LEMMA AloneAtQueue ==
  ASSUME HubInv, NEW p \in Producer, prod[p].at # None
  PROVE  prod[p].at \in Sub /\ \A o \in Producer \ {p} : prod[o].at # prod[p].at
<1>1. prod[p].at \in Sub
  BY DEF HubInv, TypeOK
<1>2. \A o \in Producer : prod[o].at # None => mutex[prod[o].at] = o
  BY DEF HubInv, Tracks, AtItsQueue
<1> QED
  BY <1>1, <1>2

\* The others do not see what a publisher does at its queue.
LEMMA OthersKept ==
  ASSUME HubInv, NEW p \in Producer, NEW s \in Sub, NEW r \in Publication, Moves(p, r),
         \A o \in Producer \ {p} : prod[o].at # s,
         \A t \in Sub \ {s} : mutex'[t] = mutex[t] /\ queue'[t] = queue[t],
         got' = got, closed' = closed
  PROVE  \A o \in Producer \ {p} : Tracks(o)'
<1> SUFFICES ASSUME NEW o \in Producer, o # p PROVE Tracks(o)'
  OBVIOUS
<1>1. prod'[o] = prod[o]
  BY MovesType DEF HubInv
<1>2. prod[o].at # None => prod[o].at \in Sub \ {s}
  BY DEF HubInv, TypeOK
<1> QED
  BY <1>1, <1>2, Undisturbed DEF HubInv

\* What the step of a publisher has to keep.
LEMMA StepInv ==
  ASSUME HubInv, NEW p \in Producer, NEW r \in Publication, Moves(p, r),
         UNCHANGED <<hub, topics, closed, once, got, conn>>,
         mutex' \in [Sub -> Producer \cup {None}],
         queue' \in [Sub -> Seq(Event)], \A s \in Sub : Len(queue'[s]) <= Capacity,
         closer' \in [Agent -> [pc : {"no", "enter", "lock", "close"}, sub : Sub \cup {None}]],
         r.targets \subseteq prod[p].targets,
         \A o \in Producer \ {p} : Tracks(o)', Tracks(p)'
  PROVE  HubInv'
<1>1. /\ prod' \in [Producer -> Publication] /\ prod'[p] = r
      /\ \A o \in Producer \ {p} : prod'[o] = prod[o]
  BY MovesType DEF HubInv
<1>2. TypeOK'
  BY <1>1 DEF HubInv, TypeOK, Publication
<1>3. NewIsUnknown'
  BY <1>1 DEF HubInv, NewIsUnknown
<1> QED
  BY <1>2, <1>3 DEF HubInv

LEMMA PublishInv ==
  ASSUME HubInv, NEW p \in Producer, NEW e \in Event, Publish(p, e)
  PROVE  HubInv'
<1> USE DEF HubInv
<1>0. PICK old : old = prod[p]
  OBVIOUS
<1>1. old \in Publication /\ old.at = None /\ old.drained = <<>>
  BY <1>0, PublicationType DEF Publish, Idle
<1>2. PICK pc \in {"idle", "deliver"}, T \in SUBSET Sub :
        /\ pc = IF hub.closed THEN "idle" ELSE "deliver"
        /\ T = IF hub.closed THEN {} ELSE Targets(e)
  BY DEF Targets
<1>r. PICK r : r = [old EXCEPT !.event = e, !.pc = pc, !.targets = T]
  OBVIOUS
<1>f. r \in Publication /\ r.at = None /\ r.drained = <<>> /\ r.event = e /\ r.pc = pc /\ r.targets = T
  BY <1>1, <1>r DEF Publication
<1>3. Moves(p, r)
  BY <1>0, <1>2, <1>r DEF Publish, Moves
<1>4. /\ prod' \in [Producer -> Publication] /\ prod'[p] = r
      /\ \A o \in Producer \ {p} : prod'[o] = prod[o]
  BY <1>f, <1>3, MovesType
<1>5. TypeOK'
  BY <1>4 DEF TypeOK, Publish, Publication
<1>6. NewIsUnknown'
  <2>1. \A s \in r.targets : topics[s] # {}
    BY <1>2, <1>f DEF Targets
  <2>2. topics' = topics /\ conn' = conn
    BY DEF Publish
  <2> QED
    BY <1>4, <2>1, <2>2 DEF NewIsUnknown
<1>7. Tracks(p)'
  BY <1>f, <1>4 DEF Tracks, AtItsQueue, RoomKept, CriticalSentBack, InQueue
<1>8. ASSUME NEW o \in Producer, o # p PROVE Tracks(o)'
  BY <1>4, <1>8, Undisturbed DEF Publish
<1> QED
  BY <1>5, <1>6, <1>7, <1>8

LEMMA LockQueueInv ==
  ASSUME HubInv, NEW p \in Producer, NEW s \in Sub, LockQueue(p, s)
  PROVE  HubInv'
<1> USE DEF HubInv
<1>1. PICK old : old = prod[p]
  OBVIOUS
<1>2. old \in Publication
  BY <1>1, PublicationType
<1>3. PICK r : r = [old EXCEPT !.pc = "push", !.at = s, !.fits = TRUE]
  OBVIOUS
<1>4. Moves(p, r)
  BY <1>1, <1>3 DEF LockQueue, Moves
<1>5. r \in Publication
  BY <1>2, <1>3 DEF Publication
<1>6. /\ r.pc = "push" /\ r.at = s /\ r.targets = old.targets
      /\ r.drained = old.drained /\ r.event = old.event
  BY <1>2, <1>3 DEF Publication
<1>7. mutex' \in [Sub -> Producer \cup {None}] /\ mutex'[s] = p
      /\ \A t \in Sub \ {s} : mutex'[t] = mutex[t]
  BY DEF LockQueue, TypeOK
<1>8. \A o \in Producer \ {p} : prod[o].at # s
  BY HubConstants DEF LockQueue, Tracks, AtItsQueue
<1>9. prod'[p] = r
  BY <1>4, <1>5, MovesType
<1>10. Tracks(p)'
  <2>1. old.pc = "deliver" /\ s \in old.targets /\ old.drained = <<>> /\ old.event \in Event
    BY <1>1 DEF LockQueue, Tracks, AtItsQueue
  <2>2. s # None
    BY HubConstants
  <2> QED
    BY <1>6, <1>7, <1>9, <2>1, <2>2 DEF Tracks, AtItsQueue, RoomKept, CriticalSentBack, InQueue
<1>11. \A o \in Producer \ {p} : Tracks(o)'
  BY <1>4, <1>5, <1>7, <1>8, OthersKept DEF LockQueue
<1> QED
  BY <1>1, <1>4, <1>5, <1>6, <1>7, <1>10, <1>11, StepInv DEF LockQueue, TypeOK

\* deliver ends with the queue as it is and the publisher on to its next target.
LEMMA DeliveredInv ==
  ASSUME HubInv, NEW p \in Producer, prod[p].pc \in InQueue, NEW fits \in BOOLEAN,
         Delivered(p, fits), UNCHANGED <<hub, topics, closed, once, closer, got, conn>>,
         queue' \in [Sub -> Seq(Event)], \A s \in Sub : Len(queue'[s]) <= Capacity,
         \A t \in Sub \ {prod[p].at} : queue'[t] = queue[t]
  PROVE  HubInv'
<1> USE DEF HubInv
<1>1. PICK old : old = prod[p]
  OBVIOUS
<1>2. old \in Publication
  BY <1>1, PublicationType
<1>3. PICK s \in Sub : s = old.at
  BY <1>1, AloneAtQueue DEF Tracks, AtItsQueue
<1>4. PICK r : r = [old EXCEPT !.pc = "deliver", !.at = None, !.fits = TRUE,
                             !.targets = @ \ {s}, !.drained = <<>>,
                             !.slow = IF fits THEN @ ELSE @ \cup {s}]
  OBVIOUS
<1>5. Moves(p, r)
  BY <1>1, <1>3, <1>4 DEF Delivered, Moves
<1>6. r \in Publication
  BY <1>2, <1>4, EmptySeq DEF Publication
<1>7. /\ r.pc = "deliver" /\ r.at = None /\ r.targets = old.targets \ {s}
      /\ r.drained = <<>> /\ r.event = old.event
  BY <1>2, <1>4 DEF Publication
<1>8. mutex' \in [Sub -> Producer \cup {None}] /\ \A t \in Sub \ {s} : mutex'[t] = mutex[t]
  BY <1>1, <1>3 DEF Delivered, TypeOK
<1>9. \A o \in Producer \ {p} : prod[o].at # s
  BY <1>1, <1>3, HubConstants, AloneAtQueue
<1>10. prod'[p] = r
  BY <1>5, <1>6, MovesType
<1>11. Tracks(p)'
  <2>1. old.event \in Event
    BY <1>1 DEF Tracks, AtItsQueue, InQueue
  <2> QED
    BY <1>7, <1>10, <2>1 DEF Tracks, AtItsQueue, RoomKept, CriticalSentBack, InQueue
<1>12. \A o \in Producer \ {p} : Tracks(o)'
  BY <1>1, <1>3, <1>5, <1>6, <1>8, <1>9, OthersKept
<1> QED
  BY <1>1, <1>5, <1>6, <1>7, <1>8, <1>11, <1>12, StepInv DEF TypeOK

\* A publisher at an open queue; the first send needs no eviction, or the eviction begins.
LEMMA PushInv ==
  ASSUME HubInv, NEW p \in Producer, Push(p)
  PROVE  HubInv'
<1> USE DEF HubInv
<1>1. prod[p].pc = "push" /\ prod[p].pc \in InQueue
  BY DEF Push, InQueue
<1>2. PICK s \in Sub : s = prod[p].at
  BY <1>1, AloneAtQueue DEF Tracks, AtItsQueue
<1>3. queue[s] \in Seq(Event) /\ Len(queue[s]) \in Nat /\ Len(queue[s]) <= Capacity
  BY DEF TypeOK
<1>4. prod[p].event \in Event /\ mutex[s] = p /\ s \in prod[p].targets /\ prod[p].drained = <<>>
  BY <1>1, <1>2 DEF Tracks, AtItsQueue
<1>5. CASE closed[s] /\ Delivered(p, TRUE) /\ UNCHANGED queue
  BY <1>1, <1>5, DeliveredInv DEF Push, TypeOK
<1>6. CASE /\ Len(queue[s]) < Capacity /\ queue' = [queue EXCEPT ![s] = Append(@, prod[p].event)]
           /\ Delivered(p, TRUE)
  <2>1. Append(queue[s], prod[p].event) \in Seq(Event)
        /\ Len(Append(queue[s], prod[p].event)) = Len(queue[s]) + 1
    BY <1>3, <1>4, AppendSet
  <2>2. queue' \in [Sub -> Seq(Event)] /\ \A t \in Sub \ {s} : queue'[t] = queue[t]
    BY <1>6, <2>1 DEF TypeOK
  <2>3. Len(queue'[s]) <= Capacity
    <3>1. queue'[s] = Append(queue[s], prod[p].event)
      BY <1>6 DEF TypeOK
    <3>2. Len(queue'[s]) = Len(queue[s]) + 1
      BY <2>1, <3>1
    <3> QED
      BY <3>2, <1>3, <1>6, CapacityType
  <2>4. \A t \in Sub : Len(queue'[t]) <= Capacity
    BY <2>2, <2>3 DEF TypeOK
  <2> QED
    BY <1>1, <1>2, <1>6, <2>2, <2>4, DeliveredInv DEF Push
<1>7. CASE /\ ~closed[s] /\ Len(queue[s]) = Capacity
           /\ prod' = [prod EXCEPT ![p].pc = "drain"] /\ UNCHANGED <<queue, mutex>>
  <2>1. PICK old : old = prod[p]
    OBVIOUS
  <2>2. old \in Publication
    BY <2>1, PublicationType
  <2>3. PICK r : r = [old EXCEPT !.pc = "drain"]
    OBVIOUS
  <2>4. Moves(p, r)
    BY <1>7, <2>1, <2>3 DEF Moves
  <2>5. r \in Publication
    BY <2>2, <2>3 DEF Publication
  <2>6. /\ r.pc = "drain" /\ r.at = s /\ r.targets = old.targets /\ r.drained = <<>>
        /\ r.event = old.event
    BY <1>2, <1>4, <2>1, <2>2, <2>3 DEF Publication
  <2>7. prod'[p] = r
    BY <2>4, <2>5, MovesType
  <2>8. AtItsQueue(p)'
    BY <1>2, <1>4, <1>7, <2>1, <2>6, <2>7, HubConstants DEF AtItsQueue, InQueue
  <2>9. RoomKept(p)'
    <3>1. Len(queue[s]) + Len(<<>>) <= Capacity
      BY <1>3, <1>7, CapacityType
    <3>2. ~closed'[s]
      BY <1>7 DEF Push
    <3> QED
      BY <1>7, <2>6, <2>7, <3>1, <3>2 DEF RoomKept
  <2>10. CriticalSentBack(p)'
    BY <2>6, <2>7 DEF CriticalSentBack
  <2>11. \A o \in Producer \ {p} : Tracks(o)'
    BY <1>1, <1>2, <1>7, <2>4, <2>5, HubConstants, AloneAtQueue, OthersKept DEF Push
  <2> QED
    BY <1>7, <2>1, <2>4, <2>5, <2>6, <2>8, <2>9, <2>10, <2>11, StepInv DEF Push, TypeOK, Tracks
<1> QED
  BY <1>2, <1>5, <1>6, <1>7 DEF Push

\* Draining moves events from the queue to the publisher; when it ends, one that may be dropped
\* makes room for the new one.
LEMMA DrainInv ==
  ASSUME HubInv, NEW p \in Producer, Drain(p)
  PROVE  HubInv'
<1> USE DEF HubInv
<1>1. prod[p].pc = "drain" /\ prod[p].pc \in InQueue
  BY DEF Drain, InQueue
<1>2. PICK s \in Sub : s = prod[p].at
  BY <1>1, AloneAtQueue DEF Tracks, AtItsQueue
<1>3. queue[s] \in Seq(Event) /\ Len(queue[s]) \in Nat /\ Len(queue[s]) <= Capacity
  BY DEF TypeOK
<1>4. prod[p].event \in Event /\ mutex[s] = p /\ s \in prod[p].targets /\ s # None
  BY <1>1, <1>2, HubConstants DEF Tracks, AtItsQueue
<1>5. ~closed[s] /\ Len(queue[s]) + Len(prod[p].drained) <= Capacity
  BY <1>1, <1>2 DEF Tracks, RoomKept
<1>6. PICK old : old = prod[p]
  OBVIOUS
<1>7. old \in Publication
  BY <1>6, PublicationType
<1>8. old.drained \in Seq(Event) /\ Len(old.drained) \in Nat
  BY <1>7 DEF Publication
<1>9. ASSUME NEW r \in Publication, Moves(p, r), r.pc \in {"drain", "refill"}, r.at = s,
             r.targets = old.targets, r.event = old.event,
             Len(queue'[s]) + Len(r.drained) <= Capacity,
             r.pc = "refill" /\ r.fits /\ r.event \in Critical => r.event \in ToSet(r.drained),
             queue' \in [Sub -> Seq(Event)], \A t \in Sub : Len(queue'[t]) <= Capacity,
             \A t \in Sub \ {s} : queue'[t] = queue[t]
      PROVE  HubInv'
  <2>1. prod'[p] = r
    BY <1>9, MovesType
  <2>2. AtItsQueue(p)'
    BY <1>4, <1>6, <1>9, <2>1 DEF AtItsQueue, InQueue, Drain
  <2>3. RoomKept(p)'
    BY <1>5, <1>9, <2>1 DEF RoomKept, Drain
  <2>4. CriticalSentBack(p)'
    BY <1>9, <2>1 DEF CriticalSentBack
  <2>5. \A o \in Producer \ {p} : Tracks(o)'
    <3>1. \A o \in Producer \ {p} : prod[o].at # s
      BY <1>2, <1>4, AloneAtQueue
    <3>2. mutex' = mutex /\ got' = got /\ closed' = closed
      BY DEF Drain
    <3> QED
      BY <1>9, <3>1, <3>2, OthersKept
  <2> QED
    BY <1>6, <1>9, <2>2, <2>3, <2>4, <2>5, StepInv DEF Drain, TypeOK, Tracks
<1>10. CASE /\ queue[s] # <<>> /\ queue' = [queue EXCEPT ![s] = Tail(@)]
            /\ prod' = [prod EXCEPT ![p].drained = Append(@, Head(queue[s]))]
  <2>1. /\ Head(queue[s]) \in Event /\ Tail(queue[s]) \in Seq(Event)
        /\ Len(Tail(queue[s])) = Len(queue[s]) - 1
    BY <1>3, <1>10, HeadTailSet
  <2>2. PICK d : d = Append(old.drained, Head(queue[s]))
    OBVIOUS
  <2>3. d \in Seq(Event) /\ Len(d) = Len(old.drained) + 1
    BY <1>8, <2>1, <2>2, AppendSet
  <2>4. PICK r : r = [old EXCEPT !.drained = d]
    OBVIOUS
  <2>5. Moves(p, r)
    BY <1>6, <1>10, <2>2, <2>4 DEF Moves
  <2>6. r \in Publication
    BY <1>7, <2>3, <2>4 DEF Publication
  <2>7. r.pc = "drain" /\ r.at = s /\ r.targets = old.targets /\ r.event = old.event /\ r.drained = d
    BY <1>1, <1>2, <1>6, <1>7, <2>4 DEF Publication
  <2>8. queue'[s] = Tail(queue[s]) /\ queue' \in [Sub -> Seq(Event)]
        /\ \A t \in Sub \ {s} : queue'[t] = queue[t]
    BY <1>10, <2>1 DEF TypeOK
  <2>9. Len(queue'[s]) <= Capacity /\ Len(queue'[s]) + Len(d) <= Capacity
    <3>1. PICK m \in Nat, n \in Nat : m = Len(queue[s]) /\ n = Len(old.drained)
      BY <1>3, <1>8
    <3>2. Len(queue'[s]) = m - 1 /\ Len(d) = n + 1
      BY <2>1, <2>3, <2>8, <3>1
    <3>3. m <= Capacity /\ m + n <= Capacity
      BY <1>3, <1>5, <1>6, <3>1
    <3> QED
      BY <3>2, <3>3, CapacityType
  <2>10. \A t \in Sub : Len(queue'[t]) <= Capacity
    BY <2>8, <2>9 DEF TypeOK
  <2> QED
    BY <1>9, <2>5, <2>6, <2>7, <2>8, <2>9, <2>10
<1>11. CASE /\ queue[s] = <<>> /\ UNCHANGED queue
            /\ prod' = [prod EXCEPT ![p].pc = "refill",
                 ![p].drained = IF \E i \in DOMAIN old.drained : old.drained[i] \notin Critical
                                THEN Append(DropFirst(old.drained), old.event) ELSE old.drained,
                 ![p].fits = old.event \notin Critical
                             \/ \E i \in DOMAIN old.drained : old.drained[i] \notin Critical]
  <2> DEFINE Droppable == \E i \in DOMAIN old.drained : old.drained[i] \notin Critical
  <2>1. PICK d : d = IF Droppable THEN Append(DropFirst(old.drained), old.event) ELSE old.drained
    OBVIOUS
  <2>2. PICK f \in BOOLEAN : f = (old.event \notin Critical \/ Droppable)
    OBVIOUS
  <2>3. d \in Seq(Event) /\ Len(d) = Len(old.drained) /\ (Droppable => old.event \in ToSet(d))
    <3>1. CASE Droppable
      <4>1. DropFirst(old.drained) \in Seq(Event)
            /\ Len(DropFirst(old.drained)) = Len(old.drained) - 1
        BY <1>8, <3>1, DropFirstSet
      <4>2. d = Append(DropFirst(old.drained), old.event) /\ old.event \in Event
        BY <2>1, <3>1, <1>4, <1>6
      <4>3. d \in Seq(Event) /\ Len(d) = Len(DropFirst(old.drained)) + 1 /\ old.event \in ToSet(d)
        BY <4>1, <4>2, AppendSet
      <4> QED
        BY <4>1, <4>3, <1>8
    <3>2. CASE ~Droppable
      BY <2>1, <3>2, <1>8
    <3> QED
      BY <3>1, <3>2
  <2>4. PICK r : r = [old EXCEPT !.pc = "refill", !.drained = d, !.fits = f]
    OBVIOUS
  <2>5. Moves(p, r)
    BY <1>6, <1>11, <2>1, <2>2, <2>4 DEF Moves
  <2>6. r \in Publication
    BY <1>7, <2>2, <2>3, <2>4 DEF Publication
  <2>7. /\ r.pc = "refill" /\ r.at = s /\ r.targets = old.targets /\ r.event = old.event
        /\ r.drained = d /\ r.fits = f
    BY <1>1, <1>2, <1>6, <1>7, <2>4 DEF Publication
  <2>8. r.fits /\ r.event \in Critical => r.event \in ToSet(r.drained)
    BY <2>2, <2>3, <2>7
  <2>9. Len(queue'[s]) + Len(r.drained) <= Capacity
    <3>1. queue'[s] = queue[s] /\ Len(r.drained) = Len(old.drained)
      BY <1>11, <2>3, <2>7
    <3> QED
      BY <1>5, <1>6, <3>1
  <2> QED
    BY <1>9, <1>11, <2>5, <2>6, <2>7, <2>8, <2>9 DEF TypeOK
<1> QED
  BY <1>2, <1>6, <1>10, <1>11 DEF Drain

\* Refilling moves the events back: the sum of both lengths stays, so that there is always room.
LEMMA RefillInv ==
  ASSUME HubInv, NEW p \in Producer, Refill(p)
  PROVE  HubInv'
<1> USE DEF HubInv
<1>1. prod[p].pc = "refill" /\ prod[p].pc \in InQueue
  BY DEF Refill, InQueue
<1>2. PICK s \in Sub : s = prod[p].at
  BY <1>1, AloneAtQueue DEF Tracks, AtItsQueue
<1>3. queue[s] \in Seq(Event) /\ Len(queue[s]) \in Nat /\ Len(queue[s]) <= Capacity
  BY DEF TypeOK
<1>4. prod[p].event \in Event /\ mutex[s] = p /\ s \in prod[p].targets /\ s # None
  BY <1>1, <1>2, HubConstants DEF Tracks, AtItsQueue
<1>5. ~closed[s] /\ Len(queue[s]) + Len(prod[p].drained) <= Capacity
  BY <1>1, <1>2 DEF Tracks, RoomKept
<1>6. PICK old : old = prod[p]
  OBVIOUS
<1>7. old \in Publication
  BY <1>6, PublicationType
<1>8. old.drained \in Seq(Event) /\ Len(old.drained) \in Nat
  BY <1>7 DEF Publication
<1>9. UNCHANGED <<hub, topics, closed, once, closer, got, conn>>
  BY DEF Refill
<1>10. CASE /\ old.drained # <<>> /\ queue' = [queue EXCEPT ![s] = Append(@, Head(old.drained))]
            /\ prod' = [prod EXCEPT ![p].drained = Tail(@)] /\ UNCHANGED mutex
  <2>1. PICK h, d : h = Head(old.drained) /\ d = Tail(old.drained)
    OBVIOUS
  <2>2. /\ h \in Event /\ d \in Seq(Event) /\ Len(d) = Len(old.drained) - 1
        /\ ToSet(old.drained) = {h} \cup ToSet(d)
    BY <1>8, <1>10, <2>1, HeadTailSet
  <2>3. queue'[s] = Append(queue[s], h)
    BY <1>10, <2>1 DEF TypeOK
  <2>4. /\ queue'[s] \in Seq(Event) /\ Len(queue'[s]) = Len(queue[s]) + 1
        /\ ToSet(queue'[s]) = ToSet(queue[s]) \cup {h}
    BY <1>3, <2>2, <2>3, AppendSet
  <2>5. queue' \in [Sub -> Seq(Event)] /\ \A t \in Sub \ {s} : queue'[t] = queue[t]
    BY <1>10, <2>3, <2>4 DEF TypeOK
  <2>6. PICK r : r = [old EXCEPT !.drained = d]
    OBVIOUS
  <2>7. Moves(p, r)
    BY <1>6, <1>10, <2>1, <2>6 DEF Moves
  <2>8. r \in Publication
    BY <1>7, <2>2, <2>6 DEF Publication
  <2>9. /\ r.pc = "refill" /\ r.at = s /\ r.targets = old.targets /\ r.event = old.event
        /\ r.drained = d /\ r.fits = old.fits
    BY <1>1, <1>2, <1>6, <1>7, <2>6 DEF Publication
  <2>10. prod'[p] = r
    BY <2>7, <2>8, MovesType
  <2>11. Len(queue'[s]) <= Capacity /\ Len(queue'[s]) + Len(d) <= Capacity
    <3>1. PICK m \in Nat, n \in Nat : m = Len(queue[s]) /\ n = Len(old.drained)
      BY <1>3, <1>8
    <3>2. Len(queue'[s]) = m + 1 /\ Len(d) = n - 1 /\ Len(d) \in Nat
      BY <2>2, <2>4, <3>1
    <3>3. m + n <= Capacity
      BY <1>5, <1>6, <3>1
    <3> QED
      BY <3>2, <3>3, CapacityType
  <2>12. \A t \in Sub : Len(queue'[t]) <= Capacity
    BY <2>5, <2>11 DEF TypeOK
  <2>13. AtItsQueue(p)'
    BY <1>4, <1>6, <1>10, <2>9, <2>10 DEF AtItsQueue, InQueue
  <2>14. RoomKept(p)'
    BY <1>5, <1>9, <2>9, <2>10, <2>11 DEF RoomKept
  <2>15. CriticalSentBack(p)'
    <3>1. old.fits /\ old.event \in Critical =>
            old.event \in ToSet(old.drained) \cup ToSet(queue[s]) \cup ToSet(got[s])
      BY <1>1, <1>2, <1>6 DEF Tracks, CriticalSentBack
    <3>2. ToSet(old.drained) \cup ToSet(queue[s]) = ToSet(d) \cup ToSet(queue'[s])
      BY <2>2, <2>4
    <3> QED
      BY <1>9, <2>9, <2>10, <3>1, <3>2 DEF CriticalSentBack
  <2>16. \A o \in Producer \ {p} : Tracks(o)'
    <3>1. \A o \in Producer \ {p} : prod[o].at # s
      BY <1>2, <1>4, AloneAtQueue
    <3> QED
      BY <1>9, <1>10, <2>5, <2>7, <2>8, <3>1, OthersKept
  <2> QED
    BY <1>6, <1>9, <1>10, <2>5, <2>7, <2>8, <2>9, <2>12, <2>13, <2>14, <2>15, <2>16, StepInv
    DEF TypeOK, Tracks
<1>11. CASE old.drained = <<>> /\ Delivered(p, old.fits) /\ UNCHANGED queue
  <2>1. PICK f \in BOOLEAN : f = old.fits
    BY <1>7 DEF Publication
  <2>2. queue' \in [Sub -> Seq(Event)] /\ \A t \in Sub : Len(queue'[t]) <= Capacity
    BY <1>11 DEF TypeOK
  <2>3. \A t \in Sub \ {prod[p].at} : queue'[t] = queue[t]
    BY <1>11
  <2>4. Delivered(p, f)
    BY <1>11, <2>1
  <2> QED
    BY <1>1, <1>9, <2>2, <2>3, <2>4, DeliveredInv
<1> QED
  BY <1>2, <1>6, <1>10, <1>11 DEF Refill

LEMMA CloseSlowInv ==
  ASSUME HubInv, NEW p \in Producer, CloseSlow(p)
  PROVE  HubInv'
<1> USE DEF HubInv
<1>1. PICK old : old = prod[p]
  OBVIOUS
<1>2. old \in Publication
  BY <1>1, PublicationType
<1>3. UNCHANGED <<hub, topics, queue, closed, mutex, once, got, conn>>
  BY DEF CloseSlow
<1>4. PICK pc \in {"close", "idle"}, S \in SUBSET Sub :
        prod' = [prod EXCEPT ![p] = [old EXCEPT !.pc = pc, !.slow = S]]
  <2>1. CASE \E s \in prod[p].slow : prod' = [prod EXCEPT ![p].pc = "close", ![p].slow = @ \ {s}]
    <3>1. PICK s \in old.slow : prod' = [prod EXCEPT ![p].pc = "close", ![p].slow = @ \ {s}]
      BY <1>1, <2>1
    <3>2. old.slow \ {s} \in SUBSET Sub
      BY <1>2 DEF Publication
    <3> QED
      BY <1>1, <3>1, <3>2
  <2>2. CASE prod' = [prod EXCEPT ![p].pc = "idle"]
    <3>1. old.slow \in SUBSET Sub
      BY <1>2 DEF Publication
    <3>2. [old EXCEPT !.pc = "idle"] = [old EXCEPT !.pc = "idle", !.slow = old.slow]
      BY <1>2 DEF Publication
    <3> QED
      BY <1>1, <2>2, <3>1, <3>2
  <2> QED
    BY <2>1, <2>2 DEF CloseSlow
<1>5. PICK r : r = [old EXCEPT !.pc = pc, !.slow = S]
  OBVIOUS
<1>6. r \in Publication
  BY <1>2, <1>5 DEF Publication
<1>7. r.pc = pc /\ r.at = old.at /\ r.targets = old.targets /\ r.event = old.event /\ r.drained = old.drained
  BY <1>2, <1>5 DEF Publication
<1>8. Moves(p, r)
  BY <1>4, <1>5 DEF Moves
<1>9. old.at = None /\ old.drained = <<>> /\ old.event \in Event
  BY <1>1 DEF CloseSlow, Tracks, AtItsQueue, InQueue
<1>10. prod'[p] = r
  BY <1>6, <1>8, MovesType
<1>11. Tracks(p)'
  BY <1>7, <1>9, <1>10 DEF Tracks, AtItsQueue, RoomKept, CriticalSentBack, InQueue
<1>12. ASSUME NEW o \in Producer, o # p PROVE Tracks(o)'
  BY <1>3, <1>6, <1>8, <1>12, MovesType, Undisturbed
<1>13. closer' \in [Agent -> [pc : {"no", "enter", "lock", "close"}, sub : Sub \cup {None}]]
  <2>1. prod[p].slow \subseteq Sub
    BY DEF TypeOK
  <2> QED
    <3>1. CASE \E s \in prod[p].slow : closer' = [closer EXCEPT ![p] = [pc |-> "enter", sub |-> s]]
      <4>1. PICK s \in Sub : closer' = [closer EXCEPT ![p] = [pc |-> "enter", sub |-> s]]
        BY <2>1, <3>1
      <4>2. [pc |-> "enter", sub |-> s] \in [pc : {"no", "enter", "lock", "close"}, sub : Sub \cup {None}]
        OBVIOUS
      <4> QED
        BY <4>1, <4>2 DEF TypeOK
    <3>2. CASE UNCHANGED closer
      BY <3>2 DEF TypeOK
    <3> QED
      BY <3>1, <3>2 DEF CloseSlow, Enter
<1> QED
  BY <1>1, <1>3, <1>6, <1>7, <1>8, <1>11, <1>12, <1>13, StepInv DEF TypeOK

LEMMA NextInv ==
  ASSUME HubInv, [Next]_vars
  PROVE  HubInv'
<1>1. CASE \E s \in Sub : Receive(s) \/ Leave(s) \/ CloseNext(s)
                          \/ \E T \in SUBSET Topic \ {{}} : Subscribe(s, T)
  BY <1>1, ReceiveInv, LeaveInv, CloseNextInv, SubscribeInv
<1>2. CASE \E p \in Producer : ProducerStep(p) \/ \E e \in Event : Publish(p, e)
  BY <1>2, LockQueueInv, PushInv, DrainInv, RefillInv, CloseSlowInv, PublishInv DEF ProducerStep
<1>3. CASE \E a \in Agent : CloseStep(a)
  BY <1>3, CloseStepInv
<1>4. CASE CloseHub
  BY <1>4, CloseHubInv
<1>5. CASE UNCHANGED vars
  <2>1. TypeOK' /\ NewIsUnknown'
    BY <1>5 DEF HubInv, TypeOK, NewIsUnknown, vars
  <2>2. ASSUME NEW p \in Producer PROVE Tracks(p)'
    BY <1>5, <2>2, Undisturbed DEF HubInv, vars
  <2> QED
    BY <2>1, <2>2 DEF HubInv
<1> QED
  BY <1>1, <1>2, <1>3, <1>4, <1>5 DEF Next

LEMMA HubInvAlways == Spec => []HubInv
<1>1. Init => HubInv
  BY InitInv
<1>2. HubInv /\ [Next]_vars => HubInv'
  BY NextInv
<1> QED
  BY <1>1, <1>2, PTL DEF Spec

\* For every number of publishers, subscriptions and events and every queue size, deliver
\* neither sends on a closed channel nor blocks while it refills one.
THEOREM RefillIsSafeAlways == Spec => []RefillIsSafe
<1>1. HubInv => RefillIsSafe
  <2>1. HubInv => NoSendOnClosed
    BY DEF HubInv, Tracks, RoomKept, NoSendOnClosed
  <2>2. HubInv => RefillNeverBlocks
    BY DEF HubInv, Tracks, RoomKept, RefillNeverBlocks
  <2> QED
    BY <2>1, <2>2 DEF RefillIsSafe, HubInv
<1> QED
  BY <1>1, HubInvAlways, PTL

(***************************************************************************)
(* Critical events                                                         *)
(***************************************************************************)

Stored(e, s) == e \in ToSet(queue[s]) \cup ToSet(got[s])

\* Publisher p still has to put e into the queue of s, or to put it back.
Carries(p, e, s) ==
  \/ prod[p].at = s /\ e \in ToSet(prod[p].drained)
  \/ prod[p].event = e /\ (prod[p].at = s \/ s \in prod[p].targets)

LEMMA WayCases ==
  ASSUME NEW e, NEW s
  PROVE  OnTheWay(e, s) <=> Stored(e, s) \/ \E p \in Producer : Carries(p, e, s)
BY DEF OnTheWay, Stored, Carries

LEMMA WayCasesNext ==
  ASSUME NEW e, NEW s
  PROVE  OnTheWay(e, s)' <=> Stored(e, s)' \/ \E p \in Producer : Carries(p, e, s)'
BY DEF OnTheWay, Stored, Carries

\* After a step of one publisher only what is stored and what it carries itself can have gone.
LEMMA StepKeepsWay ==
  ASSUME NEW e, NEW s, OnTheWay(e, s), NEW p \in Producer,
         \A o \in Producer \ {p} : prod'[o] = prod[o],
         Stored(e, s) \/ Carries(p, e, s) => OnTheWay(e, s)' \/ Closing(s)'
  PROVE  OnTheWay(e, s)' \/ Closing(s)'
<1>1. CASE Stored(e, s) \/ Carries(p, e, s)
  BY <1>1
<1>2. CASE \E o \in Producer \ {p} : Carries(o, e, s)
  <2>1. \E o \in Producer \ {p} : Carries(o, e, s)'
    BY <1>2 DEF Carries
  <2> QED
    BY <2>1, WayCasesNext
<1> QED
  BY <1>1, <1>2, WayCases

\* A step that stores and carries all that was there.
LEMMA QuietKeepsWay ==
  ASSUME NEW e, NEW s, OnTheWay(e, s), UNCHANGED <<queue, got>>,
         \A o \in Producer : /\ prod'[o].at = prod[o].at /\ prod'[o].event = prod[o].event
                             /\ prod'[o].targets = prod[o].targets
                             /\ prod'[o].drained = prod[o].drained
  PROVE  OnTheWay(e, s)'
BY DEF OnTheWay

LEMMA ReceiveKeepsWay ==
  ASSUME HubInv, NEW t \in Sub, Receive(t), NEW s \in Sub, NEW e, OnTheWay(e, s)
  PROVE  OnTheWay(e, s)'
<1>1. /\ queue[t] \in Seq(Event) /\ queue[t] # <<>> /\ got[t] \in Seq(Event)
      /\ queue'[t] = Tail(queue[t]) /\ got'[t] = Append(got[t], Head(queue[t]))
      /\ \A u \in Sub \ {t} : queue'[u] = queue[u] /\ got'[u] = got[u]
      /\ prod' = prod
  BY DEF HubInv, TypeOK, Receive
<1>2. Head(queue[t]) \in Event /\ ToSet(queue[t]) = {Head(queue[t])} \cup ToSet(queue'[t])
  BY <1>1, HeadTailSet
<1>3. ToSet(got'[t]) = ToSet(got[t]) \cup {Head(queue[t])}
  BY <1>1, <1>2, AppendSet
<1>4. Stored(e, s) => Stored(e, s)'
  BY <1>1, <1>2, <1>3 DEF Stored
<1>5. \A p \in Producer : Carries(p, e, s) => Carries(p, e, s)'
  BY <1>1 DEF Carries
<1> QED
  BY <1>4, <1>5, WayCases, WayCasesNext

LEMMA PublishKeepsWay ==
  ASSUME HubInv, NEW p \in Producer, NEW f \in Event, Publish(p, f), NEW s \in Sub,
         NEW e \in Critical, OnTheWay(e, s)
  PROVE  OnTheWay(e, s)' \/ Closing(s)'
<1>1. \A o \in Producer \ {p} : prod'[o] = prod[o]
  BY DEF Publish, HubInv, TypeOK
<1>2. prod[p].at = None /\ prod[p].event = None /\ None # s /\ None # e
  BY HubConstants DEF Publish, Idle
<1>3. ~Carries(p, e, s)
  BY <1>2 DEF Carries
<1>4. Stored(e, s) => Stored(e, s)'
  BY DEF Stored, Publish
<1> QED
  BY <1>1, <1>3, <1>4, StepKeepsWay, WayCasesNext

LEMMA LockQueueKeepsWay ==
  ASSUME HubInv, NEW p \in Producer, NEW t \in Sub, LockQueue(p, t), NEW s \in Sub,
         NEW e \in Critical, OnTheWay(e, s)
  PROVE  OnTheWay(e, s)' \/ Closing(s)'
<1>1. PICK old : old = prod[p]
  OBVIOUS
<1>2. old \in Publication
  BY <1>1, PublicationType DEF HubInv
<1>3. /\ prod'[p] = [old EXCEPT !.pc = "push", !.at = t, !.fits = TRUE]
      /\ \A o \in Producer \ {p} : prod'[o] = prod[o]
  BY <1>1 DEF LockQueue, HubInv, TypeOK
<1>4. prod'[p].event = old.event /\ prod'[p].targets = old.targets
  BY <1>2, <1>3 DEF Publication
<1>5. old.at = None /\ s # None
  BY <1>1, HubConstants DEF LockQueue, HubInv, Tracks, AtItsQueue, InQueue
<1>6. Carries(p, e, s) => Carries(p, e, s)'
  BY <1>1, <1>4, <1>5 DEF Carries
<1>7. Stored(e, s) => Stored(e, s)'
  BY DEF Stored, LockQueue
<1> QED
  BY <1>3, <1>6, <1>7, StepKeepsWay, WayCasesNext

LEMMA DeliveredFields ==
  ASSUME HubInv, NEW p \in Producer, NEW fits \in BOOLEAN, Delivered(p, fits)
  PROVE  /\ prod'[p].event = prod[p].event /\ prod'[p].targets = prod[p].targets \ {prod[p].at}
         /\ ~fits => prod[p].at \in prod'[p].slow
         /\ \A o \in Producer \ {p} : prod'[o] = prod[o]
<1>1. PICK old : old = prod[p]
  OBVIOUS
<1>2. old \in Publication
  BY <1>1, PublicationType DEF HubInv
<1>3. /\ prod'[p] = [old EXCEPT !.pc = "deliver", !.at = None, !.fits = TRUE,
                             !.targets = @ \ {old.at}, !.drained = <<>>,
                             !.slow = IF fits THEN @ ELSE @ \cup {old.at}]
      /\ \A o \in Producer \ {p} : prod'[o] = prod[o]
  BY <1>1 DEF Delivered, HubInv, TypeOK
<1>4. prod'[p].event = old.event /\ prod'[p].targets = old.targets \ {old.at}
      /\ prod'[p].slow = IF fits THEN old.slow ELSE old.slow \cup {old.at}
  BY <1>2, <1>3 DEF Publication
<1> QED
  BY <1>1, <1>3, <1>4

LEMMA SlowCloses ==
  ASSUME NEW p \in Producer, NEW s, s \in prod'[p].slow
  PROVE  Closing(s)'
BY DEF Closing, Agent

\* deliver ends: the queue got the event, or is closed, or will be.
LEMMA DeliveredKeepsWay ==
  ASSUME HubInv, NEW p \in Producer, prod[p].drained = <<>>, NEW fits \in BOOLEAN, Delivered(p, fits),
         NEW s \in Sub, NEW e \in Critical, OnTheWay(e, s),
         Stored(e, s) => Stored(e, s)',
         s = prod[p].at /\ e = prod[p].event /\ fits => Stored(e, s)' \/ closed'[s]
  PROVE  OnTheWay(e, s)' \/ Closing(s)'
<1>1. /\ prod'[p].event = prod[p].event /\ prod'[p].targets = prod[p].targets \ {prod[p].at}
      /\ ~fits => prod[p].at \in prod'[p].slow
      /\ \A o \in Producer \ {p} : prod'[o] = prod[o]
  BY DeliveredFields
<1>2. ASSUME Carries(p, e, s) PROVE OnTheWay(e, s)' \/ Closing(s)'
  <2>1. prod[p].event = e /\ (prod[p].at = s \/ s \in prod[p].targets)
    BY <1>2 DEF Carries, ToSet
  <2>2. CASE s # prod[p].at
    <3>1. Carries(p, e, s)'
      BY <1>1, <2>1, <2>2 DEF Carries
    <3> QED
      BY <3>1, WayCasesNext
  <2>3. CASE s = prod[p].at /\ ~fits
    BY <1>1, <2>3, SlowCloses
  <2>4. CASE s = prod[p].at /\ fits
    <3>1. CASE Stored(e, s)'
      BY <3>1, WayCasesNext
    <3>2. CASE closed'[s]
      BY <3>2 DEF Closing
    <3> QED
      BY <2>1, <2>4, <3>1, <3>2
  <2> QED
    BY <2>2, <2>3, <2>4
<1>3. Stored(e, s) => OnTheWay(e, s)'
  BY WayCasesNext
<1> QED
  BY <1>1, <1>2, <1>3, StepKeepsWay

LEMMA PushKeepsWay ==
  ASSUME HubInv, NEW p \in Producer, Push(p), NEW s \in Sub, NEW e \in Critical, OnTheWay(e, s)
  PROVE  OnTheWay(e, s)' \/ Closing(s)'
<1>1. /\ prod[p].at \in Sub /\ prod[p].drained = <<>> /\ prod[p].event \in Event
  BY AloneAtQueue DEF Push, HubInv, Tracks, AtItsQueue, InQueue
<1>2. PICK t \in Sub : t = prod[p].at
  BY <1>1
<1>3. got' = got /\ closed' = closed
  BY DEF Push
<1>4. CASE closed[t] /\ Delivered(p, TRUE) /\ UNCHANGED queue
  <2>1. Stored(e, s) => Stored(e, s)'
    BY <1>3, <1>4 DEF Stored
  <2> QED
    BY <1>1, <1>2, <1>3, <1>4, <2>1, DeliveredKeepsWay
<1>5. CASE queue' = [queue EXCEPT ![t] = Append(@, prod[p].event)] /\ Delivered(p, TRUE)
  <2>1. queue[t] \in Seq(Event)
    BY DEF HubInv, TypeOK
  <2>2. ToSet(Append(queue[t], prod[p].event)) = ToSet(queue[t]) \cup {prod[p].event}
    BY <1>1, <2>1, AppendSet
  <2>3. queue'[t] = Append(queue[t], prod[p].event) /\ \A u \in Sub \ {t} : queue'[u] = queue[u]
    BY <1>5 DEF HubInv, TypeOK
  <2>4. Stored(e, s) => Stored(e, s)'
    BY <1>3, <2>2, <2>3 DEF Stored
  <2>5. s = prod[p].at /\ e = prod[p].event => Stored(e, s)'
    BY <1>2, <2>2, <2>3 DEF Stored
  <2> QED
    BY <1>1, <1>5, <2>4, <2>5, DeliveredKeepsWay
<1>6. CASE prod' = [prod EXCEPT ![p].pc = "drain"] /\ UNCHANGED queue
  <2>1. \A o \in Producer : /\ prod'[o].at = prod[o].at /\ prod'[o].event = prod[o].event
                            /\ prod'[o].targets = prod[o].targets
                            /\ prod'[o].drained = prod[o].drained
    BY <1>6 DEF HubInv, TypeOK
  <2> QED
    BY <1>3, <1>6, <2>1, QuietKeepsWay
<1> QED
  BY <1>2, <1>4, <1>5, <1>6 DEF Push

LEMMA DrainKeepsWay ==
  ASSUME HubInv, NEW p \in Producer, Drain(p), NEW s \in Sub, NEW e \in Critical, OnTheWay(e, s)
  PROVE  OnTheWay(e, s)' \/ Closing(s)'
<1>1. prod[p].at \in Sub /\ prod[p].event \in Event
  BY AloneAtQueue DEF Drain, HubInv, Tracks, AtItsQueue, InQueue
<1>2. PICK t \in Sub : t = prod[p].at
  BY <1>1
<1>3. got' = got
  BY DEF Drain
<1>4. PICK old : old = prod[p]
  OBVIOUS
<1>5. old \in Publication /\ old.drained \in Seq(Event)
  BY <1>4, PublicationType DEF HubInv, Publication
<1>6. CASE /\ queue[t] # <<>> /\ queue' = [queue EXCEPT ![t] = Tail(@)]
           /\ prod' = [prod EXCEPT ![p].drained = Append(@, Head(queue[t]))]
  <2>1. queue[t] \in Seq(Event) /\ queue'[t] = Tail(queue[t]) /\ \A u \in Sub \ {t} : queue'[u] = queue[u]
    BY <1>6 DEF HubInv, TypeOK
  <2>2. PICK h : h = Head(queue[t])
    OBVIOUS
  <2>3. h \in Event /\ ToSet(queue[t]) = {h} \cup ToSet(queue'[t])
    BY <1>6, <2>1, <2>2, HeadTailSet
  <2>4. PICK d : d = Append(old.drained, h)
    OBVIOUS
  <2>5. ToSet(d) = ToSet(old.drained) \cup {h}
    BY <1>5, <2>3, <2>4, AppendSet
  <2>6. prod'[p] = [old EXCEPT !.drained = d] /\ \A o \in Producer \ {p} : prod'[o] = prod[o]
    BY <1>4, <1>6, <2>2, <2>4 DEF HubInv, TypeOK
  <2>7. /\ prod'[p].at = t /\ prod'[p].event = old.event /\ prod'[p].targets = old.targets
        /\ prod'[p].drained = d
    BY <1>2, <1>4, <1>5, <2>6 DEF Publication
  <2>8. Carries(p, e, s) => Carries(p, e, s)'
    BY <1>2, <1>4, <2>5, <2>7 DEF Carries
  <2>9. Stored(e, s) => Stored(e, s)' \/ Carries(p, e, s)'
    BY <1>3, <2>1, <2>3, <2>5, <2>7 DEF Stored, Carries
  <2> QED
    BY <2>6, <2>8, <2>9, StepKeepsWay, WayCasesNext
<1>7. CASE /\ UNCHANGED queue
           /\ prod' = [prod EXCEPT ![p].pc = "refill",
                ![p].drained = IF \E i \in DOMAIN old.drained : old.drained[i] \notin Critical
                               THEN Append(DropFirst(old.drained), old.event) ELSE old.drained,
                ![p].fits = old.event \notin Critical
                            \/ \E i \in DOMAIN old.drained : old.drained[i] \notin Critical]
  <2> DEFINE Droppable == \E i \in DOMAIN old.drained : old.drained[i] \notin Critical
  <2>1. PICK d : d = IF Droppable THEN Append(DropFirst(old.drained), old.event) ELSE old.drained
    OBVIOUS
  <2>2. PICK f \in BOOLEAN : f = (old.event \notin Critical \/ Droppable)
    OBVIOUS
  <2>3. ToSet(old.drained) \cap Critical \subseteq ToSet(d)
    <3>1. CASE Droppable
      <4>1. DropFirst(old.drained) \in Seq(Event)
            /\ ToSet(old.drained) \cap Critical \subseteq ToSet(DropFirst(old.drained))
        BY <1>5, <3>1, DropFirstSet
      <4>2. d = Append(DropFirst(old.drained), old.event) /\ old.event \in Event
        BY <2>1, <3>1, <1>1, <1>4
      <4>3. ToSet(d) = ToSet(DropFirst(old.drained)) \cup {old.event}
        BY <4>1, <4>2, AppendSet
      <4> QED
        BY <4>1, <4>3
    <3>2. CASE ~Droppable
      BY <2>1, <3>2
    <3> QED
      BY <3>1, <3>2
  <2>4. /\ prod'[p] = [old EXCEPT !.pc = "refill", !.drained = d, !.fits = f]
        /\ \A o \in Producer \ {p} : prod'[o] = prod[o]
    BY <1>4, <1>7, <2>1, <2>2 DEF HubInv, TypeOK
  <2>5. /\ prod'[p].at = old.at /\ prod'[p].event = old.event /\ prod'[p].targets = old.targets
        /\ prod'[p].drained = d
    BY <1>5, <2>4 DEF Publication
  <2>6. Carries(p, e, s) => Carries(p, e, s)'
    BY <1>4, <2>3, <2>5 DEF Carries
  <2>7. Stored(e, s) => Stored(e, s)'
    BY <1>3, <1>7 DEF Stored
  <2> QED
    BY <2>4, <2>6, <2>7, StepKeepsWay, WayCasesNext
<1> QED
  BY <1>2, <1>4, <1>6, <1>7 DEF Drain

LEMMA RefillKeepsWay ==
  ASSUME HubInv, NEW p \in Producer, Refill(p), NEW s \in Sub, NEW e \in Critical, OnTheWay(e, s)
  PROVE  OnTheWay(e, s)' \/ Closing(s)'
<1>1. prod[p].at \in Sub
  BY AloneAtQueue DEF Refill, HubInv, Tracks, AtItsQueue, InQueue
<1>2. PICK t \in Sub : t = prod[p].at
  BY <1>1
<1>3. got' = got
  BY DEF Refill
<1>4. PICK old : old = prod[p]
  OBVIOUS
<1>5. old \in Publication /\ old.drained \in Seq(Event) /\ old.fits \in BOOLEAN
  BY <1>4, PublicationType DEF HubInv, Publication
<1>6. CASE /\ old.drained # <<>> /\ queue' = [queue EXCEPT ![t] = Append(@, Head(old.drained))]
           /\ prod' = [prod EXCEPT ![p].drained = Tail(@)]
  <2>1. PICK h, d : h = Head(old.drained) /\ d = Tail(old.drained)
    OBVIOUS
  <2>2. h \in Event /\ ToSet(old.drained) = {h} \cup ToSet(d)
    BY <1>5, <1>6, <2>1, HeadTailSet
  <2>3. /\ queue[t] \in Seq(Event) /\ queue'[t] = Append(queue[t], h)
        /\ \A u \in Sub \ {t} : queue'[u] = queue[u]
    BY <1>6, <2>1 DEF HubInv, TypeOK
  <2>4. ToSet(queue'[t]) = ToSet(queue[t]) \cup {h}
    BY <2>2, <2>3, AppendSet
  <2>5. prod'[p] = [old EXCEPT !.drained = d] /\ \A o \in Producer \ {p} : prod'[o] = prod[o]
    BY <1>4, <1>6, <2>1 DEF HubInv, TypeOK
  <2>6. /\ prod'[p].at = t /\ prod'[p].event = old.event /\ prod'[p].targets = old.targets
        /\ prod'[p].drained = d
    BY <1>2, <1>4, <1>5, <2>5 DEF Publication
  <2>7. Stored(e, s) => Stored(e, s)'
    BY <1>3, <2>3, <2>4 DEF Stored
  <2>8. Carries(p, e, s) => Carries(p, e, s)' \/ Stored(e, s)'
    BY <1>2, <1>4, <2>2, <2>4, <2>6 DEF Carries, Stored
  <2> QED
    BY <2>5, <2>7, <2>8, StepKeepsWay, WayCasesNext
<1>7. CASE old.drained = <<>> /\ Delivered(p, old.fits) /\ UNCHANGED queue
  <2>1. PICK f \in BOOLEAN : f = old.fits
    BY <1>5
  <2>2. Stored(e, s) => Stored(e, s)'
    BY <1>3, <1>7 DEF Stored
  <2>3. s = prod[p].at /\ e = prod[p].event /\ f => Stored(e, s)
    <3>1. prod[p].pc = "refill" /\ CriticalSentBack(p)
      BY DEF Refill, HubInv, Tracks
    <3>2. e \notin ToSet(prod[p].drained)
      BY <1>4, <1>7 DEF ToSet
    <3> QED
      BY <1>4, <2>1, <3>1, <3>2 DEF CriticalSentBack, Stored
  <2>4. Delivered(p, f) /\ prod[p].drained = <<>>
    BY <1>4, <1>7, <2>1
  <2> QED
    BY <2>2, <2>3, <2>4, DeliveredKeepsWay
<1> QED
  BY <1>2, <1>4, <1>6, <1>7 DEF Refill

LEMMA CloseSlowKeepsWay ==
  ASSUME HubInv, NEW p \in Producer, CloseSlow(p), NEW s \in Sub, NEW e \in Critical, OnTheWay(e, s)
  PROVE  OnTheWay(e, s)'
<1>1. \A o \in Producer : /\ prod'[o].at = prod[o].at /\ prod'[o].event = prod[o].event
                          /\ prod'[o].targets = prod[o].targets
                          /\ prod'[o].drained = prod[o].drained
  <2>1. CASE \E t \in prod[p].slow : prod' = [prod EXCEPT ![p].pc = "close", ![p].slow = @ \ {t}]
    BY <2>1 DEF HubInv, TypeOK
  <2>2. CASE prod' = [prod EXCEPT ![p].pc = "idle"]
    BY <2>2 DEF HubInv, TypeOK
  <2> QED
    BY <2>1, <2>2 DEF CloseSlow
<1>2. UNCHANGED <<queue, got>>
  BY DEF CloseSlow
<1> QED
  BY <1>1, <1>2, QuietKeepsWay

LEMMA NextKeepsWay ==
  ASSUME HubInv, Next, NEW s \in Sub, NEW e \in Critical, OnTheWay(e, s)
  PROVE  OnTheWay(e, s)' \/ Closing(s)'
<1>1. CASE UNCHANGED <<queue, got, prod>>
  BY <1>1, QuietKeepsWay
<1>2. CASE \E t \in Sub : Receive(t)
  BY <1>2, ReceiveKeepsWay
<1>3. CASE \E p \in Producer : ProducerStep(p) \/ \E f \in Event : Publish(p, f)
  BY <1>3, LockQueueKeepsWay, PushKeepsWay, DrainKeepsWay, RefillKeepsWay, CloseSlowKeepsWay,
     PublishKeepsWay DEF ProducerStep
<1>4. CASE \E t \in Sub : Leave(t) \/ CloseNext(t) \/ \E T \in SUBSET Topic \ {{}} : Subscribe(t, T)
  BY <1>1, <1>4 DEF Leave, CloseNext, Subscribe
<1>5. CASE (\E a \in Agent : CloseStep(a)) \/ CloseHub
  BY <1>1, <1>5 DEF CloseStep, CloseOnce, CloseUnregister, CloseChannel, CloseHub
<1> QED
  BY <1>2, <1>3, <1>4, <1>5 DEF Next

\* For every number of publishers, subscriptions and events and every queue size, a critical event
\* that reached a subscription is received, is on its way there, or the subscription is closed.
THEOREM CriticalNotLostAlways == Spec => CriticalNotLost
<1>1. HubInv /\ [Next]_vars =>
        [\A s \in Sub, e \in Critical : OnTheWay(e, s) => OnTheWay(e, s)' \/ Closing(s)']_vars
  BY NextKeepsWay
<1> QED
  BY <1>1, HubInvAlways, PTL DEF Spec, CriticalNotLost

(***************************************************************************)
(* The projections: their inductive invariant                              *)
(***************************************************************************)

\* An entry, and a value a lookup has read, name the driver of the ride: a ride gets one and keeps it.
Known(p, r) == byRide[p][r] # Absent => byRide[p][r].driver = driver[r]

\* What a lookup goes on with after its miss.
LookupKnown(p) ==
  /\ \A v \in lookup[p].values : v.driver = driver[v.ride]
  /\ lookup[p].pc = "missed" /\ lookup[p].driver = Absent => lookup[p].ride \in Ride
  /\ lookup[p].pc = "read" => lookup[p].driver \in Driver

DriversKnown ==
  /\ \A r \in Ride : status[r] = "requested" => driver[r] = Absent
  /\ \A p \in Process, r \in Ride : Known(p, r)
  /\ \A p \in Process : LookupKnown(p)

\* A process has been told of the end of a ride, or will be, or is excused.
EndKnown(p, r) == status[r] \in Terminal => seen[p][r] = 3 \/ <<p, r>> \in excuse \/ Coming(p, r)

EndsKnown == \A p \in Process, r \in Ride : EndKnown(p, r)

ProjectionInv == ProjectionTypeOK /\ IndexesAgree /\ DriversKnown /\ StaleNeedsCause /\ EndsKnown

Sending == [from : Process, ride : Ride, status : Status, local : BOOLEAN]
Frames == [ride : Ride, status : Status]

\* The two maps of one process, as the operators take and return them.
MapsHold(m) ==
  /\ m.ride \in [Ride -> Assignments \cup {Absent}]
  /\ m.driver \in [Driver -> SUBSET Ride]
  /\ \A d \in Driver : m.driver[d] = {r \in Ride : m.ride[r] # Absent /\ m.ride[r].driver = d}
  /\ \A r \in Ride : m.ride[r] # Absent => m.ride[r].driver = driver[r]

LEMMA AbsentApart == ASSUME ProjectionConstants PROVE Absent \notin Ride /\ Absent \notin Driver /\ Absent \notin Assignments
BY DEF ProjectionConstants

LEMMA ForgetKeeps ==
  ASSUME ProjectionConstants, NEW m, MapsHold(m), NEW r \in Ride, NEW new, new = Forget(m, r)
  PROVE  MapsHold(new) /\ new.ride[r] = Absent
<1>1. CASE m.ride[r] = Absent
  BY <1>1 DEF Forget, MapsHold
<1>2. CASE m.ride[r] # Absent
  <2>1. PICK o \in Driver : o = m.ride[r].driver
    BY <1>2 DEF MapsHold, Assignments
  <2>2. new = [ride |-> [m.ride EXCEPT ![r] = Absent], driver |-> [m.driver EXCEPT ![o] = @ \ {r}]]
    BY <1>2, <2>1 DEF Forget
  <2>3. /\ new.ride = [m.ride EXCEPT ![r] = Absent]
        /\ new.driver = [m.driver EXCEPT ![o] = m.driver[o] \ {r}]
    BY <2>2
  <2>4. new.ride \in [Ride -> Assignments \cup {Absent}] /\ new.driver \in [Driver -> SUBSET Ride]
    BY <2>3 DEF MapsHold
  <2>5. new.ride[r] = Absent /\ \A q \in Ride \ {r} : new.ride[q] = m.ride[q]
    BY <2>3 DEF MapsHold
  <2>6. ASSUME NEW d \in Driver
        PROVE  new.driver[d] = {q \in Ride : new.ride[q] # Absent /\ new.ride[q].driver = d}
    <3>1. m.driver[d] = {q \in Ride : m.ride[q] # Absent /\ m.ride[q].driver = d}
      BY DEF MapsHold
    <3>2. CASE d = o
      <4>1. new.driver[d] = m.driver[d] \ {r}
        BY <2>3, <3>2 DEF MapsHold
      <4> QED
        BY <4>1, <3>1, <2>5
    <3>3. CASE d # o
      <4>1. new.driver[d] = m.driver[d]
        BY <2>3, <3>3 DEF MapsHold
      <4> QED
        BY <4>1, <3>1, <3>3, <2>5, <2>1
    <3> QED
      BY <3>2, <3>3
  <2>7. \A q \in Ride : new.ride[q] # Absent => new.ride[q].driver = driver[q]
    BY <2>5 DEF MapsHold
  <2> QED
    BY <2>4, <2>5, <2>6, <2>7 DEF MapsHold
<1> QED
  BY <1>1, <1>2

LEMMA UpsertKeeps ==
  ASSUME ProjectionConstants, NEW m, MapsHold(m), NEW v \in Assignments, v.driver = driver[v.ride],
         NEW new, new = Upsert(m, v)
  PROVE  MapsHold(new) /\ \A q \in Ride \ {v.ride} : new.ride[q] = m.ride[q]
<1>0. v.ride \in Ride /\ v.driver \in Driver /\ v # Absent
  BY AbsentApart DEF Assignments
<1>1. m.ride[v.ride] # Absent => m.ride[v.ride].driver = v.driver
  BY <1>0 DEF MapsHold
<1>2. /\ new.ride = [m.ride EXCEPT ![v.ride] = v]
      /\ new.driver = [m.driver EXCEPT ![v.driver] = m.driver[v.driver] \cup {v.ride}]
  BY <1>1, <1>0 DEF Upsert, MapsHold
<1>3. new.ride \in [Ride -> Assignments \cup {Absent}] /\ new.driver \in [Driver -> SUBSET Ride]
  BY <1>2, <1>0 DEF MapsHold
<1>4. new.ride[v.ride] = v /\ \A q \in Ride \ {v.ride} : new.ride[q] = m.ride[q]
  BY <1>2, <1>0 DEF MapsHold
<1>5. ASSUME NEW d \in Driver
      PROVE  new.driver[d] = {q \in Ride : new.ride[q] # Absent /\ new.ride[q].driver = d}
  <2>1. m.driver[d] = {q \in Ride : m.ride[q] # Absent /\ m.ride[q].driver = d}
    BY DEF MapsHold
  <2>2. CASE d = v.driver
    <3>1. new.driver[d] = m.driver[d] \cup {v.ride}
      BY <1>2, <2>2, <1>0 DEF MapsHold
    <3> QED
      BY <3>1, <2>1, <1>4, <2>2, <1>0
  <2>3. CASE d # v.driver
    <3>1. new.driver[d] = m.driver[d]
      BY <1>2, <2>3, <1>0 DEF MapsHold
    <3> QED
      BY <3>1, <2>1, <2>3, <1>4, <1>1, <1>0
  <2> QED
    BY <2>2, <2>3
<1>6. \A q \in Ride : new.ride[q] # Absent => new.ride[q].driver = driver[q]
  BY <1>4 DEF MapsHold
<1> QED
  BY <1>3, <1>4, <1>5, <1>6 DEF MapsHold

\* An entry after remember is one of the values, or was there before.
LEMMA RememberKeeps ==
  ASSUME ProjectionConstants, NEW m, MapsHold(m), NEW d \in Driver, NEW values \in SUBSET Assignments,
         \A v \in values : v.driver = driver[v.ride],
         NEW new, new = Remember(m, d, values)
  PROVE  /\ MapsHold(new)
         /\ \A q \in Ride : \/ new.ride[q] \in {Absent, m.ride[q]}
                            \/ \E v \in values : v.ride = q
<1> DEFINE mine == {v \in values : v.driver = d}
           taken(q) == CHOOSE v \in mine : v.ride = q
<1>0. \A v \in values : v \in Assignments /\ v.ride \in Ride /\ v.driver \in Driver /\ v # Absent
  BY AbsentApart DEF Assignments
<1>1. /\ new.ride = [q \in Ride |-> IF \E v \in mine : v.ride = q THEN taken(q)
                                    ELSE IF q \in m.driver[d] THEN Absent ELSE m.ride[q]]
      /\ new.driver = [m.driver EXCEPT ![d] = {v.ride : v \in mine}]
  BY DEF Remember
<1>2. ASSUME NEW q \in Ride, \E v \in mine : v.ride = q
      PROVE  new.ride[q] \in mine /\ new.ride[q].ride = q
  <2>1. taken(q) \in mine /\ taken(q).ride = q
    BY <1>2
  <2> QED
    BY <2>1, <1>1, <1>2
<1>3. ASSUME NEW q \in Ride, ~\E v \in mine : v.ride = q
      PROVE  new.ride[q] = IF q \in m.driver[d] THEN Absent ELSE m.ride[q]
  BY <1>1, <1>3
<1>4. \A q \in Ride : new.ride[q] \in Assignments \cup {Absent}
  BY <1>2, <1>3, <1>0 DEF MapsHold
<1>5. new.ride \in [Ride -> Assignments \cup {Absent}]
  <2> HIDE DEF taken
  <2> QED
    BY <1>1, <1>4
<1>6. new.driver \in [Driver -> SUBSET Ride]
  <2>1. {v.ride : v \in mine} \in SUBSET Ride
    BY <1>0
  <2> QED
    BY <1>1, <2>1 DEF MapsHold
<1>7. ASSUME NEW c \in Driver
      PROVE  new.driver[c] = {q \in Ride : new.ride[q] # Absent /\ new.ride[q].driver = c}
  <2>1. \A q \in Ride : q \in m.driver[d] <=> m.ride[q] # Absent /\ m.ride[q].driver = d
    BY DEF MapsHold
  <2>2. CASE c = d
    <3>1. new.driver[c] = {v.ride : v \in mine}
      BY <1>1, <2>2 DEF MapsHold
    <3>2. ASSUME NEW q \in Ride, new.ride[q] # Absent, new.ride[q].driver = d
          PROVE  \E v \in mine : v.ride = q
      BY <3>2, <1>3, <2>1
    <3>3. ASSUME NEW q \in Ride, \E v \in mine : v.ride = q
          PROVE  new.ride[q] # Absent /\ new.ride[q].driver = d
      BY <3>3, <1>2, <1>0
    <3>4. \A q : (\E v \in mine : v.ride = q) => q \in Ride
      BY <1>0
    <3>5. new.driver[c] = {q \in Ride : \E v \in mine : v.ride = q}
      BY <3>1, <3>4
    <3> HIDE DEF mine
    <3> QED
      BY <3>5, <3>2, <3>3, <2>2
  <2>3. CASE c # d
    <3>1. new.driver[c] = m.driver[c]
      BY <1>1, <2>3 DEF MapsHold
    <3>2. \A q \in Ride : q \in m.driver[c] <=> m.ride[q] # Absent /\ m.ride[q].driver = c
      BY DEF MapsHold
    <3>3. ASSUME NEW q \in Ride, q \in m.driver[c]
          PROVE  new.ride[q] # Absent /\ new.ride[q].driver = c
      <4>1. driver[q] = c /\ q \notin m.driver[d]
        BY <3>2, <3>3, <2>1, <2>3 DEF MapsHold
      <4>2. ~\E v \in mine : v.ride = q
        BY <4>1, <2>3
      <4> QED
        BY <4>1, <4>2, <1>3, <3>2, <3>3
    <3>4. ASSUME NEW q \in Ride, new.ride[q] # Absent, new.ride[q].driver = c
          PROVE  q \in m.driver[c]
      <4>1. ~\E v \in mine : v.ride = q
        BY <1>2, <3>4, <2>3
      <4> QED
        BY <4>1, <1>3, <3>4, <3>2
    <3>5. m.driver[c] \subseteq Ride
      BY DEF MapsHold
    <3> QED
      BY <3>1, <3>3, <3>4, <3>5
  <2> QED
    BY <2>2, <2>3
<1>8. \A q \in Ride : new.ride[q] # Absent => new.ride[q].driver = driver[q]
  <2>1. ASSUME NEW q \in Ride, \E v \in mine : v.ride = q
        PROVE  new.ride[q].driver = driver[q]
    BY <1>2, <2>1
  <2>2. ASSUME NEW q \in Ride, ~\E v \in mine : v.ride = q, new.ride[q] # Absent
        PROVE  new.ride[q].driver = driver[q]
    BY <1>3, <2>2 DEF MapsHold
  <2> QED
    BY <2>1, <2>2
<1>9. \A q \in Ride : new.ride[q] \in {Absent, m.ride[q]} \/ \E v \in values : v.ride = q
  BY <1>3
<1> QED
  BY <1>5, <1>6, <1>7, <1>8, <1>9 DEF MapsHold

LEMMA InvMaps == ASSUME ProjectionInv, NEW p \in Process PROVE MapsHold(Maps(p))
<1>1. /\ Maps(p).ride = byRide[p] /\ Maps(p).driver = byDriver[p]
      /\ byRide[p] \in [Ride -> Assignments \cup {Absent}] /\ byDriver[p] \in [Driver -> SUBSET Ride]
  BY DEF Maps, ProjectionInv, ProjectionTypeOK
<1>2. \A d \in Driver : byDriver[p][d] = {r \in Ride : byRide[p][r] # Absent /\ byRide[p][r].driver = d}
  BY DEF ProjectionInv, IndexesAgree
<1>3. \A r \in Ride : byRide[p][r] # Absent => byRide[p][r].driver = driver[r]
  BY DEF ProjectionInv, DriversKnown, Known
<1> QED
  BY <1>1, <1>2, <1>3 DEF MapsHold

\* Maps that hold, put in place of those of one process.
LEMMA SetMapsKeeps ==
  ASSUME ProjectionInv, NEW p \in Process, NEW m, MapsHold(m), SetMaps(p, m), driver' = driver
  PROVE  /\ byRide' \in [Process -> [Ride -> Assignments \cup {Absent}]]
         /\ byDriver' \in [Process -> [Driver -> SUBSET Ride]]
         /\ IndexesAgree'
         /\ \A q \in Process, r \in Ride : Known(q, r)'
         /\ byRide'[p] = m.ride
         /\ \A q \in Process \ {p} : byRide'[q] = byRide[q]
<1>1. byRide' = [byRide EXCEPT ![p] = m.ride] /\ byDriver' = [byDriver EXCEPT ![p] = m.driver]
  BY DEF SetMaps
<1>2. byRide \in [Process -> [Ride -> Assignments \cup {Absent}]] /\ byDriver \in [Process -> [Driver -> SUBSET Ride]]
  BY DEF ProjectionInv, ProjectionTypeOK
<1>3. /\ byRide'[p] = m.ride /\ byDriver'[p] = m.driver
      /\ \A q \in Process \ {p} : byRide'[q] = byRide[q] /\ byDriver'[q] = byDriver[q]
  BY <1>1, <1>2
<1>4. byRide' \in [Process -> [Ride -> Assignments \cup {Absent}]] /\ byDriver' \in [Process -> [Driver -> SUBSET Ride]]
  BY <1>1, <1>2 DEF MapsHold
<1>5. ASSUME NEW q \in Process, NEW d \in Driver
      PROVE  byDriver'[q][d] = {r \in Ride : byRide'[q][r] # Absent /\ byRide'[q][r].driver = d}
  <2>1. CASE q = p
    BY <1>3, <2>1 DEF MapsHold
  <2>2. CASE q # p
    BY <1>3, <2>2 DEF ProjectionInv, IndexesAgree
  <2> QED
    BY <2>1, <2>2
<1>6. ASSUME NEW q \in Process, NEW r \in Ride
      PROVE  byRide'[q][r] # Absent => byRide'[q][r].driver = driver'[r]
  <2>1. CASE q = p
    BY <1>3, <2>1 DEF MapsHold
  <2>2. CASE q # p
    BY <1>3, <2>2 DEF ProjectionInv, DriversKnown, Known
  <2> QED
    BY <2>1, <2>2
<1> QED
  BY <1>3, <1>4, <1>5, <1>6 DEF IndexesAgree, Known

\* An entry after an event is of its ride and not terminal, or was there before.
LEMMA TakesKeeps ==
  ASSUME ProjectionConstants, ProjectionInv, NEW m, MapsHold(m), NEW e, e.ride \in Ride, e.status \in Status,
         NEW new, new = Takes(m, e)
  PROVE  /\ MapsHold(new)
         /\ e.status \in Terminal => new.ride[e.ride] = Absent
         /\ \A q \in Ride \ {e.ride} : new.ride[q] = m.ride[q]
<1>1. CASE e.status \in Terminal
  <2>1. new = Forget(m, e.ride)
    BY <1>1 DEF Takes
  <2>2. MapsHold(new) /\ new.ride[e.ride] = Absent
    BY <2>1, ForgetKeeps
  <2>3. \A q \in Ride \ {e.ride} : new.ride[q] = m.ride[q]
    BY <2>1 DEF Forget, MapsHold
  <2> QED
    BY <2>2, <2>3
<1>2. CASE e.status \notin Terminal /\ driver[e.ride] = Absent
  BY <1>2 DEF Takes
<1>3. CASE e.status \notin Terminal /\ driver[e.ride] # Absent
  <2>1. PICK v : v = [ride |-> e.ride, driver |-> driver[e.ride], status |-> e.status, open |-> FALSE]
    OBVIOUS
  <2>2. driver[e.ride] \in Driver
    BY <1>3 DEF ProjectionInv, ProjectionTypeOK
  <2>3. v \in Assignments /\ v.driver = driver[v.ride] /\ v.ride = e.ride
    BY <2>1, <2>2 DEF Assignments
  <2>4. new = Upsert(m, v)
    BY <1>3, <2>1 DEF Takes
  <2> QED
    BY <2>3, <2>4, <1>3, UpsertKeeps
<1> QED
  BY <1>1, <1>2, <1>3

\* What being told of an event does to the entries, the history and the excuses.
LEMMA ToldKeeps ==
  ASSUME ProjectionConstants, ProjectionInv, NEW p \in Process, NEW e, e.ride \in Ride, e.status \in Status,
         Told(p, e), UNCHANGED rides
  PROVE  /\ byRide' \in [Process -> [Ride -> Assignments \cup {Absent}]]
         /\ byDriver' \in [Process -> [Driver -> SUBSET Ride]]
         /\ IndexesAgree'
         /\ \A q \in Process, r \in Ride : Known(q, r)'
         /\ seen' \in [Process -> [Ride -> 0 .. 3]] /\ excuse' \subseteq Process \X Ride
         /\ \A q \in Process, r \in Ride : q # p \/ r # e.ride =>
              /\ byRide'[q][r] = byRide[q][r] /\ seen'[q][r] = seen[q][r]
              /\ <<q, r>> \in excuse => <<q, r>> \in excuse'
         /\ e.status \in Terminal => byRide'[p][e.ride] = Absent /\ seen'[p][e.ride] = 3
         /\ e.status \notin Terminal =>
              /\ excuse \subseteq excuse'
              /\ seen[p][e.ride] = 3 => <<p, e.ride>> \in excuse'
<1>0. /\ UNCHANGED driver /\ seen \in [Process -> [Ride -> 0 .. 3]] /\ excuse \subseteq Process \X Ride
  BY DEF rides, ProjectionInv, ProjectionTypeOK
<1>1. PICK m : m = Takes(Maps(p), e)
  OBVIOUS
<1>2. /\ MapsHold(m)
      /\ e.status \in Terminal => m.ride[e.ride] = Absent
      /\ \A q \in Ride \ {e.ride} : m.ride[q] = Maps(p).ride[q]
  BY <1>1, InvMaps, TakesKeeps
<1>3. SetMaps(p, m)
  BY <1>1 DEF Told
<1>4. /\ byRide' \in [Process -> [Ride -> Assignments \cup {Absent}]]
      /\ byDriver' \in [Process -> [Driver -> SUBSET Ride]]
      /\ IndexesAgree'
      /\ \A q \in Process, r \in Ride : Known(q, r)'
      /\ byRide'[p] = m.ride
      /\ \A q \in Process \ {p} : byRide'[q] = byRide[q]
  BY <1>0, <1>2, <1>3, SetMapsKeeps
<1>5. ASSUME NEW q \in Process, NEW r \in Ride, q # p \/ r # e.ride PROVE byRide'[q][r] = byRide[q][r]
  BY <1>5, <1>4, <1>2 DEF Maps
<1>6. Rank[e.status] \in 0 .. 3 /\ (Rank[e.status] = 3 <=> e.status \in Terminal)
  BY DEF Rank, Status, Active, Terminal
<1>7. PICK k : k = IF Rank[e.status] > seen[p][e.ride] THEN Rank[e.status] ELSE seen[p][e.ride]
  OBVIOUS
<1>8. k \in 0 .. 3 /\ (e.status \in Terminal => k = 3)
  <2>1. seen[p][e.ride] \in 0 .. 3
    BY <1>0
  <2> QED
    BY <2>1, <1>6, <1>7
<1>9. seen' = [seen EXCEPT ![p][e.ride] = k]
  BY <1>7 DEF Told
<1>10. /\ seen' \in [Process -> [Ride -> 0 .. 3]]
       /\ seen'[p][e.ride] = k
       /\ \A q \in Process, r \in Ride : q # p \/ r # e.ride => seen'[q][r] = seen[q][r]
  BY <1>8, <1>9, <1>0
<1>11. excuse' = IF Rank[e.status] < seen[p][e.ride] THEN excuse \cup {<<p, e.ride>>}
                 ELSE IF e.status \in Terminal THEN excuse \ {<<p, e.ride>>} ELSE excuse
  BY DEF Told
<1>12. excuse' \subseteq Process \X Ride
  BY <1>11, <1>0
<1>13. \A q \in Process, r \in Ride : (q # p \/ r # e.ride) /\ <<q, r>> \in excuse => <<q, r>> \in excuse'
  BY <1>11
<1>14. e.status \notin Terminal => excuse \subseteq excuse' /\ (seen[p][e.ride] = 3 => <<p, e.ride>> \in excuse')
  <2>1. e.status \notin Terminal /\ seen[p][e.ride] = 3 => Rank[e.status] < seen[p][e.ride]
    BY <1>6
  <2> QED
    BY <2>1, <1>11
<1> QED
  BY <1>2, <1>4, <1>5, <1>8, <1>10, <1>12, <1>13, <1>14

\* Told of an event, which no longer has to come when it is the end of its ride.
LEMMA ToldEnds ==
  ASSUME ProjectionConstants, ProjectionInv, NEW p \in Process, NEW e, e.ride \in Ride, e.status \in Status,
         Told(p, e), UNCHANGED rides,
         \A q \in Process, r \in Ride :
           Coming(q, r) => Coming(q, r)' \/ (q = p /\ r = e.ride /\ e.status \in Terminal)
  PROVE  StaleNeedsCause' /\ EndsKnown'
<1>0. UNCHANGED status
  BY DEF rides
<1> SUFFICES ASSUME NEW q \in Process, NEW r \in Ride, status[r] \in Terminal
             PROVE  /\ byRide'[q][r] # Absent => <<q, r>> \in excuse' \/ Coming(q, r)'
                    /\ seen'[q][r] = 3 \/ <<q, r>> \in excuse' \/ Coming(q, r)'
  BY <1>0 DEF StaleNeedsCause, EndsKnown, EndKnown
<1>1. /\ byRide[q][r] # Absent => <<q, r>> \in excuse \/ Coming(q, r)
      /\ seen[q][r] = 3 \/ <<q, r>> \in excuse \/ Coming(q, r)
  BY DEF ProjectionInv, StaleNeedsCause, EndsKnown, EndKnown
<1>2. CASE q # p \/ r # e.ride
  BY <1>1, <1>2, ToldKeeps
<1>3. CASE q = p /\ r = e.ride /\ e.status \in Terminal
  BY <1>3, ToldKeeps
<1>4. CASE q = p /\ r = e.ride /\ e.status \notin Terminal
  BY <1>1, <1>4, ToldKeeps
<1> QED
  BY <1>2, <1>3, <1>4

\* Steps that leave the entries and what processes were told alone: an end that was on its way
\* still is, or is excused, and only rides that end now are new.
LEMMA UntoldEnds ==
  ASSUME ProjectionInv, UNCHANGED <<byRide, seen>>, excuse \subseteq excuse',
         \A q \in Process, r \in Ride : Coming(q, r) => Coming(q, r)' \/ <<q, r>> \in excuse',
         \A r \in Ride : status'[r] \in Terminal /\ status[r] \notin Terminal => \A q \in Process : Coming(q, r)'
  PROVE  StaleNeedsCause' /\ EndsKnown'
<1> SUFFICES ASSUME NEW q \in Process, NEW r \in Ride, status'[r] \in Terminal
             PROVE  /\ byRide[q][r] # Absent => <<q, r>> \in excuse' \/ Coming(q, r)'
                    /\ seen[q][r] = 3 \/ <<q, r>> \in excuse' \/ Coming(q, r)'
  BY DEF StaleNeedsCause, EndsKnown, EndKnown
<1>1. CASE status[r] \notin Terminal
  BY <1>1
<1>2. CASE status[r] \in Terminal
  <2>1. /\ byRide[q][r] # Absent => <<q, r>> \in excuse \/ Coming(q, r)
        /\ seen[q][r] = 3 \/ <<q, r>> \in excuse \/ Coming(q, r)
    BY <1>2 DEF ProjectionInv, StaleNeedsCause, EndsKnown, EndKnown
  <2> QED
    BY <2>1
<1> QED
  BY <1>1, <1>2

\* Publications and frames that stay keep coming.
LEMMA StillComing ==
  ASSUME sending \subseteq sending', UNCHANGED inbox
  PROVE  \A q \in Process, r \in Ride : Coming(q, r) => Coming(q, r)'
BY DEF Coming

LEMMA AcceptInv ==
  ASSUME ProjectionConstants, ProjectionInv, NEW p \in Process, NEW r \in Ride, NEW d \in Driver, Accept(p, r, d)
  PROVE  ProjectionInv'
<1>1. /\ status[r] = "requested" /\ driver[r] = Absent
      /\ status' = [status EXCEPT ![r] = "accepted"] /\ driver' = [driver EXCEPT ![r] = d]
      /\ sending' = sending \cup {[from |-> p, ride |-> r, status |-> "accepted", local |-> FALSE]}
      /\ UNCHANGED <<aged, byRide, byDriver, inbox, linked, lookup, seen, excuse>>
  BY DEF Accept, Emit, ProjectionInv, DriversKnown
<1>2. ProjectionTypeOK'
  <2>1. status' \in [Ride -> Status] /\ driver' \in [Ride -> Driver \cup {Absent}]
    BY <1>1 DEF ProjectionInv, ProjectionTypeOK, Status, Active
  <2>2. sending' \subseteq Sending
    <3>1. [from |-> p, ride |-> r, status |-> "accepted", local |-> FALSE] \in Sending
      BY DEF Sending, Status, Active
    <3> QED
      BY <3>1, <1>1 DEF ProjectionInv, ProjectionTypeOK, Sending
  <2> QED
    BY <2>1, <2>2, <1>1 DEF ProjectionInv, ProjectionTypeOK, Sending
<1>3. IndexesAgree'
  BY <1>1 DEF ProjectionInv, IndexesAgree
<1>4. DriversKnown'
  <2>1. \A q \in Ride \ {r} : driver'[q] = driver[q] /\ status'[q] = status[q]
    BY <1>1 DEF ProjectionInv, ProjectionTypeOK
  <2>2. status'[r] = "accepted"
    BY <1>1 DEF ProjectionInv, ProjectionTypeOK
  <2>3. \A q \in Ride : status'[q] = "requested" => driver'[q] = Absent
    BY <2>1, <2>2 DEF ProjectionInv, DriversKnown
  <2>4. ASSUME NEW q \in Process, NEW x \in Ride PROVE Known(q, x)'
    <3>1. byRide[q][x] # Absent => byRide[q][x].driver = driver[x] /\ byRide[q][x].driver \in Driver
      BY DEF ProjectionInv, DriversKnown, Known, ProjectionTypeOK, Assignments
    <3> QED
      BY <3>1, <2>1, <1>1, AbsentApart DEF Known
  <2>5. ASSUME NEW q \in Process PROVE LookupKnown(q)'
    <3>1. ASSUME NEW v \in lookup[q].values PROVE v.driver = driver'[v.ride]
      <4>1. v.driver = driver[v.ride] /\ v.driver \in Driver /\ v.ride \in Ride
        BY DEF ProjectionInv, DriversKnown, LookupKnown, ProjectionTypeOK, Assignments
      <4> QED
        BY <4>1, <2>1, <1>1, AbsentApart
    <3> QED
      BY <3>1, <1>1 DEF ProjectionInv, DriversKnown, LookupKnown
  <2> QED
    BY <2>3, <2>4, <2>5 DEF DriversKnown
<1>5. \A q \in Ride : status'[q] \in Terminal => status[q] \in Terminal
  BY <1>1 DEF ProjectionInv, ProjectionTypeOK, Terminal
<1>6. StaleNeedsCause' /\ EndsKnown'
  BY <1>1, <1>5, StillComing, UntoldEnds
<1> QED
  BY <1>2, <1>3, <1>4, <1>6 DEF ProjectionInv

\* Steps that change no driver and no lookup.
LEMMA SameDrivers ==
  ASSUME ProjectionInv, UNCHANGED <<byRide, byDriver, driver, lookup>>,
         \A r \in Ride : status'[r] = "requested" => status[r] = "requested"
  PROVE  IndexesAgree' /\ DriversKnown'
BY DEF ProjectionInv, IndexesAgree, DriversKnown, Known, LookupKnown

LEMMA AdvanceInv ==
  ASSUME ProjectionInv, NEW p \in Process, NEW r \in Ride, NEW s \in {"in_transit"} \cup Terminal, Advance(p, r, s)
  PROVE  ProjectionInv'
<1>1. PICK e : e = [from |-> p, ride |-> r, status |-> s, local |-> FALSE]
  OBVIOUS
<1>2. /\ status' = [status EXCEPT ![r] = s] /\ sending' = sending \cup {e}
      /\ UNCHANGED <<driver, aged, byRide, byDriver, inbox, linked, lookup, seen, excuse>>
  BY <1>1 DEF Advance, Emit
<1>3. /\ s \in Status /\ s # "requested"
  BY DEF Status, Active, Terminal
<1>4. /\ status'[r] = s /\ status' \in [Ride -> Status]
      /\ \A q \in Ride \ {r} : status'[q] = status[q]
  BY <1>2, <1>3 DEF ProjectionInv, ProjectionTypeOK
<1>5. e \in Sending
  BY <1>1, <1>3 DEF Sending
<1>6. ProjectionTypeOK'
  BY <1>2, <1>4, <1>5 DEF ProjectionInv, ProjectionTypeOK, Sending
<1>7. IndexesAgree' /\ DriversKnown'
  BY <1>2, <1>3, <1>4, SameDrivers
<1>8. ASSUME NEW x \in Ride, status'[x] \in Terminal, status[x] \notin Terminal, NEW q \in Process
      PROVE  Coming(q, x)'
  <2>1. x = r /\ s \in Terminal
    BY <1>4, <1>8
  <2>2. e \in sending' /\ e.ride = x /\ e.status \in Terminal /\ ~e.local
    BY <1>1, <1>2, <2>1
  <2> QED
    BY <2>2 DEF Coming
<1>9. StaleNeedsCause' /\ EndsKnown'
  BY <1>2, <1>8, StillComing, UntoldEnds
<1> QED
  BY <1>6, <1>7, <1>9 DEF ProjectionInv

LEMMA AgeInv == ASSUME ProjectionInv, NEW r \in Ride, Age(r) PROVE ProjectionInv'
<1>1. aged' = aged \cup {r} /\ UNCHANGED <<status, driver, byRide, byDriver, sending, inbox, linked, lookup, seen, excuse>>
  BY DEF Age, delivery
<1>2. ProjectionTypeOK'
  BY <1>1 DEF ProjectionInv, ProjectionTypeOK
<1>3. IndexesAgree' /\ DriversKnown'
  BY <1>1, SameDrivers
<1>4. StaleNeedsCause' /\ EndsKnown'
  BY <1>1, StillComing, UntoldEnds
<1> QED
  BY <1>2, <1>3, <1>4 DEF ProjectionInv

LEMMA PublishLocalInv ==
  ASSUME ProjectionConstants, ProjectionInv, NEW e \in sending, PublishLocal(e)
  PROVE  ProjectionInv'
<1>1. PICK f : f = [e EXCEPT !.local = TRUE]
  OBVIOUS
<1>2. /\ ~e.local /\ sending' = (sending \ {e}) \cup {f}
      /\ Told(e.from, e)
      /\ UNCHANGED rides /\ UNCHANGED <<inbox, linked, lookup>>
  BY <1>1 DEF PublishLocal
<1>3. sending \subseteq Sending /\ e \in Sending
  BY DEF ProjectionInv, ProjectionTypeOK, Sending
<1>4. /\ e.from \in Process /\ e.ride \in Ride /\ e.status \in Status
      /\ f \in Sending /\ f.from = e.from /\ f.ride = e.ride /\ f.status = e.status /\ f.local
  BY <1>1, <1>3 DEF Sending
<1>5. ASSUME NEW q \in Process, NEW r \in Ride, Coming(q, r)
      PROVE  Coming(q, r)' \/ (q = e.from /\ r = e.ride /\ e.status \in Terminal)
  <2>1. CASE \E i \in DOMAIN inbox[q] : inbox[q][i].ride = r /\ inbox[q][i].status \in Terminal
    BY <2>1, <1>2 DEF Coming
  <2>2. CASE \E x \in sending : x.ride = r /\ x.status \in Terminal /\ (IF x.from = q THEN ~x.local ELSE TRUE)
    <3>1. PICK x \in sending : x.ride = r /\ x.status \in Terminal /\ (IF x.from = q THEN ~x.local ELSE TRUE)
      BY <2>2
    <3>2. CASE x # e
      <4>1. x \in sending'
        BY <1>2, <3>2
      <4> QED
        BY <4>1, <3>1 DEF Coming
    <3>3. CASE x = e /\ e.from = q
      BY <3>1, <3>3
    <3>4. CASE x = e /\ e.from # q
      <4>1. f \in sending' /\ f.ride = r /\ f.status \in Terminal /\ f.from # q
        BY <1>2, <1>4, <3>1, <3>4
      <4> QED
        BY <4>1 DEF Coming
    <3> QED
      BY <3>2, <3>3, <3>4
  <2> QED
    BY <1>5, <2>1, <2>2 DEF Coming
<1>6. StaleNeedsCause' /\ EndsKnown'
  BY <1>2, <1>4, <1>5, ToldEnds
<1>7. /\ byRide' \in [Process -> [Ride -> Assignments \cup {Absent}]]
      /\ byDriver' \in [Process -> [Driver -> SUBSET Ride]]
      /\ IndexesAgree'
      /\ \A q \in Process, r \in Ride : Known(q, r)'
      /\ seen' \in [Process -> [Ride -> 0 .. 3]] /\ excuse' \subseteq Process \X Ride
  BY <1>2, <1>4, ToldKeeps
<1>8. sending' \subseteq Sending
  BY <1>2, <1>3, <1>4
<1>9. ProjectionTypeOK'
  BY <1>2, <1>7, <1>8 DEF ProjectionInv, ProjectionTypeOK, Sending, rides
<1>10. DriversKnown'
  BY <1>2, <1>7 DEF ProjectionInv, DriversKnown, LookupKnown, rides
<1> QED
  BY <1>6, <1>7, <1>9, <1>10 DEF ProjectionInv

LEMMA DispatchInv ==
  ASSUME ProjectionConstants, ProjectionInv, NEW p \in Process, Dispatch(p)
  PROVE  ProjectionInv'
<1>1. PICK e : e = Head(inbox[p])
  OBVIOUS
<1>2. /\ inbox[p] # <<>> /\ inbox' = [inbox EXCEPT ![p] = Tail(inbox[p])]
      /\ Told(p, e)
      /\ UNCHANGED rides /\ UNCHANGED <<sending, linked, lookup>>
  BY <1>1 DEF Dispatch
<1>3. inbox \in [Process -> Seq(Frames)] /\ inbox[p] \in Seq(Frames)
  BY DEF ProjectionInv, ProjectionTypeOK, Frames
<1>4. e \in Frames /\ Tail(inbox[p]) \in Seq(Frames)
  BY <1>1, <1>2, <1>3, HeadTailProperties
<1>5. e.ride \in Ride /\ e.status \in Status
  BY <1>4 DEF Frames
<1>6. inbox' \in [Process -> Seq(Frames)] /\ inbox'[p] = Tail(inbox[p]) /\ \A q \in Process \ {p} : inbox'[q] = inbox[q]
  BY <1>2, <1>3, <1>4
<1>7. ASSUME NEW q \in Process, NEW r \in Ride, Coming(q, r)
      PROVE  Coming(q, r)' \/ (q = p /\ r = e.ride /\ e.status \in Terminal)
  <2>1. CASE \E x \in sending : x.ride = r /\ x.status \in Terminal /\ (IF x.from = q THEN ~x.local ELSE TRUE)
    BY <2>1, <1>2 DEF Coming
  <2>2. CASE q # p /\ \E i \in DOMAIN inbox[q] : inbox[q][i].ride = r /\ inbox[q][i].status \in Terminal
    BY <2>2, <1>6 DEF Coming
  <2>3. CASE q = p /\ \E i \in DOMAIN inbox[q] : inbox[q][i].ride = r /\ inbox[q][i].status \in Terminal
    <3>1. PICK i \in DOMAIN inbox[p] : inbox[p][i].ride = r /\ inbox[p][i].status \in Terminal
      BY <2>3
    <3>2. CASE i = 1
      <4>1. inbox[p][i] = e
        BY <3>2, <1>1, <1>2, <1>3
      <4> QED
        BY <4>1, <3>1, <2>3
    <3>3. CASE i # 1
      <4>1. i \in 2 .. Len(inbox[p])
        BY <3>3, <1>3
      <4>2. Len(Tail(inbox[p])) = Len(inbox[p]) - 1 /\ Tail(inbox[p])[i - 1] = inbox[p][i]
        BY <4>1, <1>2, <1>3, HeadTailProperties
      <4>3. i - 1 \in DOMAIN Tail(inbox[p])
        BY <4>1, <4>2, <1>4, <1>3
      <4>4. i - 1 \in DOMAIN inbox'[q] /\ inbox'[q][i - 1].ride = r /\ inbox'[q][i - 1].status \in Terminal
        BY <4>2, <4>3, <3>1, <1>6, <2>3
      <4> QED
        BY <4>4 DEF Coming
    <3> QED
      BY <3>2, <3>3
  <2> QED
    BY <1>7, <2>1, <2>2, <2>3 DEF Coming
<1>8. StaleNeedsCause' /\ EndsKnown'
  BY <1>2, <1>5, <1>7, ToldEnds
<1>9. /\ byRide' \in [Process -> [Ride -> Assignments \cup {Absent}]]
      /\ byDriver' \in [Process -> [Driver -> SUBSET Ride]]
      /\ IndexesAgree'
      /\ \A q \in Process, r \in Ride : Known(q, r)'
      /\ seen' \in [Process -> [Ride -> 0 .. 3]] /\ excuse' \subseteq Process \X Ride
  BY <1>2, <1>5, ToldKeeps
<1>10. ProjectionTypeOK'
  BY <1>2, <1>6, <1>9 DEF ProjectionInv, ProjectionTypeOK, Frames, rides
<1>11. DriversKnown'
  BY <1>2, <1>9 DEF ProjectionInv, DriversKnown, LookupKnown, rides
<1> QED
  BY <1>8, <1>9, <1>10, <1>11 DEF ProjectionInv

\* A frame at the end of a mailbox.
LEMMA Arrived ==
  ASSUME NEW box \in Seq(Frames), NEW x \in Frames, NEW new, new = Append(box, x)
  PROVE  /\ new \in Seq(Frames)
         /\ \A i \in DOMAIN box : i \in DOMAIN new /\ new[i] = box[i]
         /\ Len(new) \in DOMAIN new /\ new[Len(new)] = x
BY AppendProperties

LEMMA PublishRedisInv ==
  ASSUME ProjectionConstants, ProjectionInv, NEW e \in sending, PublishRedis(e)
  PROVE  ProjectionInv'
<1>1. PICK x : x = [ride |-> e.ride, status |-> e.status]
  OBVIOUS
<1>2. /\ e.local /\ sending' = sending \ {e}
      /\ UNCHANGED rides /\ UNCHANGED <<byRide, byDriver, linked, lookup, seen>>
  BY DEF PublishRedis
<1>3. sending \subseteq Sending /\ e \in Sending /\ inbox \in [Process -> Seq(Frames)]
  BY DEF ProjectionInv, ProjectionTypeOK, Sending, Frames
<1>4. e.from \in Process /\ e.ride \in Ride /\ x \in Frames /\ x.ride = e.ride /\ x.status = e.status
  BY <1>1, <1>3 DEF Sending, Frames
<1>5. /\ inbox' \in [Process -> Seq(Frames)]
      /\ \A q \in Process : \A i \in DOMAIN inbox[q] : i \in DOMAIN inbox'[q] /\ inbox'[q][i] = inbox[q][i]
      /\ excuse \subseteq excuse' /\ excuse' \subseteq Process \X Ride
      /\ \A q \in Process \ {e.from} :
           <<q, e.ride>> \in excuse' \/ \E i \in DOMAIN inbox'[q] : inbox'[q][i] = x
  <2>0. excuse \subseteq Process \X Ride
    BY DEF ProjectionInv, ProjectionTypeOK
  <2>1. CASE Missing(e, Process \ {e.from}) /\ UNCHANGED inbox
    <3>1. excuse' = excuse \cup {<<q, e.ride>> : q \in Process \ {e.from}}
      BY <2>1 DEF Missing
    <3> QED
      BY <2>0, <3>1, <2>1, <1>3, <1>4
  <2>2. CASE /\ inbox' = [q \in Process |-> IF q \in Others(e.from) /\ linked[q] THEN Append(inbox[q], x) ELSE inbox[q]]
             /\ Missing(e, {q \in Process : q # e.from /\ ~linked[q]})
    <3>1. excuse' = excuse \cup {<<q, e.ride>> : q \in {z \in Process : z # e.from /\ ~linked[z]}}
      BY <2>2 DEF Missing
    <3>2. excuse \subseteq excuse' /\ excuse' \subseteq Process \X Ride
      BY <2>0, <3>1, <1>4
    <3>3. ASSUME NEW q \in Process
          PROVE  /\ inbox'[q] \in Seq(Frames)
                 /\ \A i \in DOMAIN inbox[q] : i \in DOMAIN inbox'[q] /\ inbox'[q][i] = inbox[q][i]
                 /\ q # e.from /\ linked[q] => \E i \in DOMAIN inbox'[q] : inbox'[q][i] = x
      <4>1. inbox[q] \in Seq(Frames)
        BY <1>3
      <4>2. CASE q # e.from /\ linked[q]
        <5>1. inbox'[q] = Append(inbox[q], x)
          BY <2>2, <4>2 DEF Others
        <5> QED
          BY <4>1, <5>1, <1>4, Arrived
      <4>3. CASE ~(q # e.from /\ linked[q])
        BY <2>2, <4>1, <4>3 DEF Others
      <4> QED
        BY <4>2, <4>3
    <3>4. inbox' \in [Process -> Seq(Frames)]
      BY <3>3, <2>2
    <3> QED
      BY <3>1, <3>2, <3>3, <3>4
  <2> QED
    BY <2>1, <2>2, <1>1 DEF PublishRedis
<1>6. ASSUME NEW q \in Process, NEW r \in Ride, Coming(q, r)
      PROVE  Coming(q, r)' \/ <<q, r>> \in excuse'
  <2>1. CASE \E i \in DOMAIN inbox[q] : inbox[q][i].ride = r /\ inbox[q][i].status \in Terminal
    BY <2>1, <1>5 DEF Coming
  <2>2. CASE \E y \in sending : y.ride = r /\ y.status \in Terminal /\ (IF y.from = q THEN ~y.local ELSE TRUE)
    <3>1. PICK y \in sending : y.ride = r /\ y.status \in Terminal /\ (IF y.from = q THEN ~y.local ELSE TRUE)
      BY <2>2
    <3>2. CASE y # e
      <4>1. y \in sending'
        BY <1>2, <3>2
      <4> QED
        BY <4>1, <3>1 DEF Coming
    <3>3. CASE y = e
      <4>1. q \in Process \ {e.from}
        BY <3>1, <3>3, <1>2
      <4> QED
        BY <4>1, <3>1, <3>3, <1>4, <1>5 DEF Coming
    <3> QED
      BY <3>2, <3>3
  <2> QED
    BY <1>6, <2>1, <2>2 DEF Coming
<1>7. StaleNeedsCause' /\ EndsKnown'
  BY <1>2, <1>5, <1>6, UntoldEnds DEF rides
<1>8. ProjectionTypeOK'
  BY <1>2, <1>3, <1>5 DEF ProjectionInv, ProjectionTypeOK, Sending, Frames, rides
<1>9. IndexesAgree' /\ DriversKnown'
  BY <1>2, SameDrivers DEF rides
<1> QED
  BY <1>7, <1>8, <1>9 DEF ProjectionInv

LEMMA FramesOfRides ==
  ASSUME NEW box \in Seq(Frames)
  PROVE  \A i \in DOMAIN box : box[i].ride \in Ride
<1>1. \A i \in DOMAIN box : box[i] \in Frames
  <2>1. DOMAIN box = 1 .. Len(box) /\ \A i \in 1 .. Len(box) : box[i] \in Frames
    BY ElementOfSeq
  <2> QED
    BY <2>1
<1> QED
  BY <1>1 DEF Frames

LEMMA DisconnectInv ==
  ASSUME ProjectionInv, NEW p \in Process, Disconnect(p)
  PROVE  ProjectionInv'
<1>1. /\ linked' = [linked EXCEPT ![p] = FALSE] /\ inbox' = [inbox EXCEPT ![p] = <<>>]
      /\ excuse' = excuse \cup {<<p, inbox[p][i].ride>> : i \in DOMAIN inbox[p]}
      /\ UNCHANGED <<status, driver, aged, byRide, byDriver, sending, lookup, seen>>
  BY DEF Disconnect, rides
<1>2. inbox \in [Process -> Seq(Frames)] /\ excuse \subseteq Process \X Ride
  BY DEF ProjectionInv, ProjectionTypeOK, Frames
<1>3. \A i \in DOMAIN inbox[p] : inbox[p][i].ride \in Ride
  BY <1>2, FramesOfRides
<1>4. inbox' \in [Process -> Seq(Frames)] /\ excuse' \subseteq Process \X Ride
  BY <1>1, <1>2, <1>3, EmptySeq
<1>5. ProjectionTypeOK'
  BY <1>1, <1>4 DEF ProjectionInv, ProjectionTypeOK, Frames
<1>6. IndexesAgree' /\ DriversKnown'
  BY <1>1, SameDrivers
<1>7. ASSUME NEW q \in Process, NEW r \in Ride, Coming(q, r)
      PROVE  Coming(q, r)' \/ <<q, r>> \in excuse'
  <2>1. CASE q # p
    <3>1. inbox'[q] = inbox[q]
      BY <1>1, <1>2, <2>1
    <3> QED
      BY <3>1, <1>1, <1>7 DEF Coming
  <2>2. CASE q = p
    BY <1>1, <1>7, <2>2 DEF Coming
  <2> QED
    BY <2>1, <2>2
<1>8. StaleNeedsCause' /\ EndsKnown'
  BY <1>1, <1>7, UntoldEnds
<1> QED
  BY <1>5, <1>6, <1>8 DEF ProjectionInv

LEMMA ReconnectInv == ASSUME ProjectionInv, NEW p \in Process, Reconnect(p) PROVE ProjectionInv'
<1>1. /\ linked' = [linked EXCEPT ![p] = TRUE]
      /\ UNCHANGED <<status, driver, aged, byRide, byDriver, sending, inbox, lookup, seen, excuse>>
  BY DEF Reconnect, rides
<1>2. ProjectionTypeOK'
  BY <1>1 DEF ProjectionInv, ProjectionTypeOK
<1>3. IndexesAgree' /\ DriversKnown'
  BY <1>1, SameDrivers
<1>4. StaleNeedsCause' /\ EndsKnown'
  BY <1>1, StillComing, UntoldEnds
<1> QED
  BY <1>2, <1>3, <1>4 DEF ProjectionInv

LEMMA NoLookupKnown ==
  ASSUME NEW q, NEW l, l = NoLookup
  PROVE  /\ l \in [pc : {"idle", "missed", "read"}, ride : Ride \cup {Absent},
                   driver : Driver \cup {Absent}, values : SUBSET Assignments]
         /\ l.pc = "idle" /\ l.values = {} /\ l.ride = Absent /\ l.driver = Absent
BY DEF NoLookup

LEMMA RestartInv ==
  ASSUME ProjectionConstants, ProjectionInv, NEW p \in Process, Restart(p)
  PROVE  ProjectionInv'
<1>1. PICK m : m = [ride |-> [r \in Ride |-> Absent], driver |-> [d \in Driver |-> {}]]
  OBVIOUS
<1>2. /\ SetMaps(p, m)
      /\ sending' = {e \in sending : e.from # p}
      /\ inbox' = [inbox EXCEPT ![p] = <<>>] /\ linked' = [linked EXCEPT ![p] = TRUE]
      /\ lookup' = [lookup EXCEPT ![p] = NoLookup]
      /\ excuse' = excuse \cup {<<q, e.ride>> : q \in Process, e \in {x \in sending : x.from = p}}
                          \cup {<<p, inbox[p][i].ride>> : i \in DOMAIN inbox[p]}
      /\ UNCHANGED <<status, driver, aged, seen>>
  BY <1>1 DEF Restart, rides
<1>3. inbox \in [Process -> Seq(Frames)] /\ excuse \subseteq Process \X Ride /\ sending \subseteq Sending
  BY DEF ProjectionInv, ProjectionTypeOK, Frames, Sending
<1>4. m.ride = [r \in Ride |-> Absent] /\ m.driver = [d \in Driver |-> {}]
  BY <1>1
<1>5. MapsHold(m)
  <2>1. m.ride \in [Ride -> Assignments \cup {Absent}] /\ m.driver \in [Driver -> SUBSET Ride]
    BY <1>4
  <2>2. \A d \in Driver : m.driver[d] = {r \in Ride : m.ride[r] # Absent /\ m.ride[r].driver = d}
    BY <1>4
  <2> QED
    BY <1>4, <2>1, <2>2 DEF MapsHold
<1>6. /\ byRide' \in [Process -> [Ride -> Assignments \cup {Absent}]]
      /\ byDriver' \in [Process -> [Driver -> SUBSET Ride]]
      /\ IndexesAgree'
      /\ \A q \in Process, r \in Ride : Known(q, r)'
      /\ byRide'[p] = m.ride
      /\ \A q \in Process \ {p} : byRide'[q] = byRide[q]
  BY <1>2, <1>5, SetMapsKeeps
<1>7. \A i \in DOMAIN inbox[p] : inbox[p][i].ride \in Ride
  BY <1>3, FramesOfRides
<1>8. \A e \in sending : e.ride \in Ride
  BY <1>3 DEF Sending
<1>9. inbox' \in [Process -> Seq(Frames)] /\ sending' \subseteq Sending
  BY <1>2, <1>3, EmptySeq
<1>10. excuse' \subseteq Process \X Ride
  BY <1>2, <1>3, <1>7, <1>8
<1>11. lookup' \in [Process -> [pc : {"idle", "missed", "read"}, ride : Ride \cup {Absent},
                                driver : Driver \cup {Absent}, values : SUBSET Assignments]]
  BY <1>2, NoLookupKnown DEF ProjectionInv, ProjectionTypeOK
<1>12. ProjectionTypeOK'
  BY <1>2, <1>6, <1>9, <1>10, <1>11 DEF ProjectionInv, ProjectionTypeOK, Frames, Sending
<1>13. ASSUME NEW q \in Process PROVE LookupKnown(q)'
  <2>1. lookup'[q] = IF q = p THEN NoLookup ELSE lookup[q]
    BY <1>2 DEF ProjectionInv, ProjectionTypeOK
  <2>2. CASE q = p
    BY <2>1, <2>2, NoLookupKnown DEF LookupKnown
  <2>3. CASE q # p
    BY <2>1, <2>3, <1>2 DEF ProjectionInv, DriversKnown, LookupKnown
  <2> QED
    BY <2>2, <2>3
<1>14. DriversKnown'
  BY <1>2, <1>6, <1>13 DEF ProjectionInv, DriversKnown
<1>15. ASSUME NEW q \in Process, NEW r \in Ride, Coming(q, r)
       PROVE  Coming(q, r)' \/ <<q, r>> \in excuse'
  <2>1. CASE \E e \in sending : e.ride = r /\ e.status \in Terminal /\ (IF e.from = q THEN ~e.local ELSE TRUE)
    <3>1. PICK e \in sending : e.ride = r /\ e.status \in Terminal /\ (IF e.from = q THEN ~e.local ELSE TRUE)
      BY <2>1
    <3>2. CASE e.from = p
      BY <3>1, <3>2, <1>2
    <3>3. CASE e.from # p
      <4>1. e \in sending'
        BY <3>3, <1>2
      <4> QED
        BY <4>1, <3>1 DEF Coming
    <3> QED
      BY <3>2, <3>3
  <2>2. CASE q = p /\ \E i \in DOMAIN inbox[q] : inbox[q][i].ride = r /\ inbox[q][i].status \in Terminal
    BY <2>2, <1>2
  <2>3. CASE q # p /\ \E i \in DOMAIN inbox[q] : inbox[q][i].ride = r /\ inbox[q][i].status \in Terminal
    <3>1. inbox'[q] = inbox[q]
      BY <2>3, <1>2, <1>3
    <3> QED
      BY <3>1, <2>3 DEF Coming
  <2> QED
    BY <1>15, <2>1, <2>2, <2>3 DEF Coming
<1>16. excuse \subseteq excuse'
  BY <1>2
<1>17. StaleNeedsCause'
  <2> SUFFICES ASSUME NEW q \in Process, NEW r \in Ride, byRide'[q][r] # Absent, status[r] \in Terminal
               PROVE  <<q, r>> \in excuse' \/ Coming(q, r)'
    BY <1>2 DEF StaleNeedsCause
  <2>1. byRide[q][r] # Absent
    BY <1>4, <1>6
  <2>2. <<q, r>> \in excuse \/ Coming(q, r)
    BY <2>1 DEF ProjectionInv, StaleNeedsCause
  <2> QED
    BY <2>2, <1>15, <1>16
<1>18. EndsKnown'
  BY <1>2, <1>15, <1>16 DEF ProjectionInv, EndsKnown, EndKnown
<1> QED
  BY <1>6, <1>12, <1>14, <1>17, <1>18 DEF ProjectionInv

Lookups == [pc : {"idle", "missed", "read"}, ride : Ride \cup {Absent},
            driver : Driver \cup {Absent}, values : SUBSET Assignments]

\* A step of one process's lookup.
LEMMA LookupInv ==
  ASSUME ProjectionInv, NEW p \in Process, NEW l \in Lookups, lookup' = [lookup EXCEPT ![p] = l],
         UNCHANGED <<rides, byRide, byDriver, delivery, seen, excuse>>,
         \A v \in l.values : v.driver = driver[v.ride],
         l.pc = "missed" /\ l.driver = Absent => l.ride \in Ride,
         l.pc = "read" => l.driver \in Driver
  PROVE  ProjectionInv'
<1>1. UNCHANGED <<status, driver, aged, byRide, byDriver, sending, inbox, linked, seen, excuse>>
  BY DEF rides, delivery
<1>2. lookup' \in [Process -> Lookups]
  BY DEF ProjectionInv, ProjectionTypeOK, Lookups
<1>3. ProjectionTypeOK'
  BY <1>1, <1>2 DEF ProjectionInv, ProjectionTypeOK, Lookups
<1>4. IndexesAgree'
  BY <1>1 DEF ProjectionInv, IndexesAgree
<1>5. ASSUME NEW q \in Process PROVE LookupKnown(q)'
  <2>1. lookup'[q] = IF q = p THEN l ELSE lookup[q]
    BY DEF ProjectionInv, ProjectionTypeOK
  <2> QED
    BY <1>1, <2>1 DEF ProjectionInv, DriversKnown, LookupKnown
<1>6. DriversKnown'
  BY <1>1, <1>5 DEF ProjectionInv, DriversKnown, Known
<1>7. StaleNeedsCause' /\ EndsKnown'
  BY <1>1, StillComing, UntoldEnds
<1> QED
  BY <1>3, <1>4, <1>6, <1>7 DEF ProjectionInv

LEMMA MissInv == ASSUME ProjectionConstants, ProjectionInv, NEW p \in Process, Miss(p) PROVE ProjectionInv'
<1>1. CASE \E r \in Ride : lookup' = [lookup EXCEPT ![p] = [NoLookup EXCEPT !.pc = "missed", !.ride = r]]
  <2>1. PICK r \in Ride : lookup' = [lookup EXCEPT ![p] = [NoLookup EXCEPT !.pc = "missed", !.ride = r]]
    BY <1>1
  <2>2. PICK l : l = [NoLookup EXCEPT !.pc = "missed", !.ride = r]
    OBVIOUS
  <2>3. l = [pc |-> "missed", ride |-> r, driver |-> Absent, values |-> {}]
    BY <2>2 DEF NoLookup
  <2>4. l \in Lookups
    BY <2>3 DEF Lookups
  <2>5. /\ \A v \in l.values : v.driver = driver[v.ride]
        /\ l.pc = "missed" /\ l.driver = Absent => l.ride \in Ride
        /\ l.pc = "read" => l.driver \in Driver
    BY <2>3
  <2> QED
    BY <2>1, <2>2, <2>4, <2>5, LookupInv DEF Miss
<1>2. CASE \E d \in Driver : lookup' = [lookup EXCEPT ![p] = [NoLookup EXCEPT !.pc = "missed", !.driver = d]]
  <2>1. PICK d \in Driver : lookup' = [lookup EXCEPT ![p] = [NoLookup EXCEPT !.pc = "missed", !.driver = d]]
    BY <1>2
  <2>2. PICK l : l = [NoLookup EXCEPT !.pc = "missed", !.driver = d]
    OBVIOUS
  <2>3. l = [pc |-> "missed", ride |-> Absent, driver |-> d, values |-> {}]
    BY <2>2 DEF NoLookup
  <2>4. l \in Lookups
    BY <2>3 DEF Lookups
  <2>5. /\ \A v \in l.values : v.driver = driver[v.ride]
        /\ l.pc = "missed" /\ l.driver = Absent => l.ride \in Ride
        /\ l.pc = "read" => l.driver \in Driver
    BY <2>3, AbsentApart
  <2> QED
    BY <2>1, <2>2, <2>4, <2>5, LookupInv DEF Miss
<1> QED
  BY <1>1, <1>2 DEF Miss

\* What the authority says of a ride that has a driver.
LEMMA FromRideKnown ==
  ASSUME ProjectionInv, NEW r \in Ride, driver[r] # Absent
  PROVE  FromRide(r) \in Assignments /\ FromRide(r).ride = r /\ FromRide(r).driver = driver[r]
<1>1. driver[r] \in Driver /\ status[r] \in Status
  BY DEF ProjectionInv, ProjectionTypeOK
<1> QED
  BY <1>1 DEF FromRide, Assignments

LEMMA ReadAuthorityInv ==
  ASSUME ProjectionConstants, ProjectionInv, NEW p \in Process, ReadAuthority(p) PROVE ProjectionInv'
<1>1. PICK l : l = lookup[p]
  OBVIOUS
<1>2. /\ l \in Lookups /\ l.ride \in Ride \cup {Absent} /\ l.driver \in Driver \cup {Absent}
      /\ l.driver = Absent => l.ride \in Ride
  BY <1>1 DEF ReadAuthority, ProjectionInv, ProjectionTypeOK, DriversKnown, LookupKnown, Lookups
<1>3. UNCHANGED <<rides, byRide, byDriver, delivery, seen, excuse>>
  BY DEF ReadAuthority
<1>4. CASE l.driver # Absent
  <2>1. PICK values : values = {FromRide(r) : r \in ActiveRides(l.driver)}
    OBVIOUS
  <2>2. PICK k : k = [l EXCEPT !.pc = "read", !.values = values]
    OBVIOUS
  <2>3. lookup' = [lookup EXCEPT ![p] = k]
    BY <1>1, <1>4, <2>1, <2>2 DEF ReadAuthority
  <2>4. \A r \in ActiveRides(l.driver) : r \in Ride /\ driver[r] = l.driver
    BY DEF ActiveRides
  <2>5. \A v \in values : v \in Assignments /\ v.driver = driver[v.ride]
    BY <2>1, <2>4, <1>4, FromRideKnown
  <2>6. k \in Lookups /\ k.pc = "read" /\ k.driver = l.driver /\ k.values = values
    BY <2>2, <2>5, <1>2 DEF Lookups
  <2> QED
    BY <2>3, <2>5, <2>6, <1>2, <1>3, <1>4, LookupInv
<1>5. CASE l.driver = Absent /\ driver[l.ride] = Absent
  <2>1. lookup' = [lookup EXCEPT ![p] = NoLookup]
    BY <1>1, <1>5 DEF ReadAuthority
  <2>2. PICK k : k = NoLookup
    OBVIOUS
  <2>3. k \in Lookups /\ k.pc = "idle" /\ k.values = {}
    BY <2>2, NoLookupKnown DEF Lookups
  <2> QED
    BY <2>1, <2>2, <2>3, <1>3, LookupInv
<1>6. CASE l.driver = Absent /\ driver[l.ride] # Absent
  <2>1. PICK d : d = driver[l.ride]
    OBVIOUS
  <2>2. PICK values : values = {FromRide(l.ride)}
    OBVIOUS
  <2>3. PICK k : k = [l EXCEPT !.pc = "read", !.driver = d, !.values = values]
    OBVIOUS
  <2>4. lookup' = [lookup EXCEPT ![p] = k]
    BY <1>1, <1>6, <2>1, <2>2, <2>3 DEF ReadAuthority
  <2>5. d \in Driver
    BY <2>1, <1>2, <1>6 DEF ProjectionInv, ProjectionTypeOK
  <2>6. \A v \in values : v \in Assignments /\ v.driver = driver[v.ride]
    BY <2>2, <1>2, <1>6, FromRideKnown
  <2>7. k \in Lookups /\ k.pc = "read" /\ k.driver = d /\ k.values = values
    BY <2>3, <2>5, <2>6, <1>2 DEF Lookups
  <2> QED
    BY <2>4, <2>5, <2>6, <2>7, <1>3, LookupInv
<1> QED
  BY <1>4, <1>5, <1>6

LEMMA AnswerInv ==
  ASSUME ProjectionConstants, ProjectionInv, NEW p \in Process, Answer(p) PROVE ProjectionInv'
<1>1. PICK l : l = lookup[p]
  OBVIOUS
<1>2. PICK m : m = Remember(Maps(p), l.driver, l.values)
  OBVIOUS
<1>3. /\ l.pc = "read" /\ SetMaps(p, m)
      /\ excuse' = excuse \cup {<<p, v.ride>> : v \in {x \in l.values : status[x.ride] \in Terminal}}
      /\ lookup' = [lookup EXCEPT ![p] = NoLookup]
      /\ UNCHANGED <<status, driver, aged, sending, inbox, linked, seen>>
  BY <1>1, <1>2 DEF Answer, rides, delivery
<1>4. l.driver \in Driver /\ l.values \in SUBSET Assignments /\ \A v \in l.values : v.driver = driver[v.ride]
  BY <1>1, <1>3 DEF ProjectionInv, ProjectionTypeOK, DriversKnown, LookupKnown
<1>5. /\ MapsHold(m)
      /\ \A q \in Ride : m.ride[q] \in {Absent, Maps(p).ride[q]} \/ \E v \in l.values : v.ride = q
  BY <1>2, <1>4, InvMaps, RememberKeeps
<1>6. /\ byRide' \in [Process -> [Ride -> Assignments \cup {Absent}]]
      /\ byDriver' \in [Process -> [Driver -> SUBSET Ride]]
      /\ IndexesAgree'
      /\ \A q \in Process, r \in Ride : Known(q, r)'
      /\ byRide'[p] = m.ride
      /\ \A q \in Process \ {p} : byRide'[q] = byRide[q]
  BY <1>3, <1>5, SetMapsKeeps
<1>7. \A v \in l.values : v.ride \in Ride
  BY <1>4 DEF Assignments
<1>8. excuse \subseteq excuse' /\ excuse' \subseteq Process \X Ride
  BY <1>3, <1>7 DEF ProjectionInv, ProjectionTypeOK
<1>9. lookup' \in [Process -> Lookups]
  BY <1>3, NoLookupKnown DEF ProjectionInv, ProjectionTypeOK, Lookups
<1>10. ProjectionTypeOK'
  BY <1>3, <1>6, <1>8, <1>9 DEF ProjectionInv, ProjectionTypeOK, Lookups
<1>11. ASSUME NEW q \in Process PROVE LookupKnown(q)'
  <2>1. lookup'[q] = IF q = p THEN NoLookup ELSE lookup[q]
    BY <1>3 DEF ProjectionInv, ProjectionTypeOK
  <2>2. CASE q = p
    BY <2>1, <2>2, NoLookupKnown DEF LookupKnown
  <2>3. CASE q # p
    BY <2>1, <2>3, <1>3 DEF ProjectionInv, DriversKnown, LookupKnown
  <2> QED
    BY <2>2, <2>3
<1>12. DriversKnown'
  BY <1>3, <1>6, <1>11 DEF ProjectionInv, DriversKnown
<1>13. \A q \in Process, r \in Ride : Coming(q, r) <=> Coming(q, r)'
  BY <1>3 DEF Coming
<1>14. StaleNeedsCause'
  <2> SUFFICES ASSUME NEW q \in Process, NEW r \in Ride, byRide'[q][r] # Absent, status[r] \in Terminal
               PROVE  <<q, r>> \in excuse' \/ Coming(q, r)'
    BY <1>3 DEF StaleNeedsCause
  <2>1. CASE byRide[q][r] # Absent
    BY <2>1, <1>8, <1>13 DEF ProjectionInv, StaleNeedsCause
  <2>2. CASE byRide[q][r] = Absent
    <3>1. q = p
      BY <2>2, <1>6
    <3>2. PICK v \in l.values : v.ride = r
      BY <2>2, <3>1, <1>5, <1>6 DEF Maps
    <3> QED
      BY <3>1, <3>2, <1>3
  <2> QED
    BY <2>1, <2>2
<1>15. EndsKnown'
  BY <1>3, <1>8, <1>13 DEF ProjectionInv, EndsKnown, EndKnown
<1> QED
  BY <1>6, <1>10, <1>12, <1>14, <1>15 DEF ProjectionInv

LEMMA ProjectionInitInv == ASSUME ProjectionConstants, ProjectionInit PROVE ProjectionInv
<1>1. ProjectionTypeOK
  <2>1. lookup \in [Process -> Lookups]
    BY NoLookupKnown DEF ProjectionInit, Lookups
  <2>2. inbox \in [Process -> Seq(Frames)]
    BY EmptySeq DEF ProjectionInit
  <2> QED
    BY <2>1, <2>2 DEF ProjectionInit, ProjectionTypeOK, Lookups, Frames, Status
<1>2. IndexesAgree
  BY DEF ProjectionInit, IndexesAgree
<1>3. DriversKnown
  <2>1. \A q \in Process : LookupKnown(q)
    BY NoLookupKnown DEF ProjectionInit, LookupKnown
  <2> QED
    BY <2>1 DEF ProjectionInit, DriversKnown, Known
<1>4. StaleNeedsCause
  BY DEF ProjectionInit, StaleNeedsCause
<1>5. EndsKnown
  BY DEF ProjectionInit, EndsKnown, EndKnown, Terminal
<1> QED
  BY <1>1, <1>2, <1>3, <1>4, <1>5 DEF ProjectionInv

LEMMA ProjectionNextInv ==
  ASSUME ProjectionConstants, ProjectionInv, [ProjectionNext]_projectionVars
  PROVE  ProjectionInv'
<1>1. CASE \E p \in Process, r \in Ride, d \in Driver : Accept(p, r, d)
  BY <1>1, AcceptInv
<1>2. CASE \E p \in Process, r \in Ride, s \in {"in_transit"} \cup Terminal : Advance(p, r, s)
  BY <1>2, AdvanceInv
<1>3. CASE \E r \in Ride : Age(r)
  BY <1>3, AgeInv
<1>4. CASE \E e \in sending : PublishLocal(e) \/ PublishRedis(e)
  BY <1>4, PublishLocalInv, PublishRedisInv
<1>5. CASE \E p \in Process : Dispatch(p) \/ Disconnect(p) \/ Reconnect(p) \/ Restart(p)
  BY <1>5, DispatchInv, DisconnectInv, ReconnectInv, RestartInv
<1>6. CASE \E p \in Process : Miss(p) \/ ReadAuthority(p) \/ Answer(p)
  BY <1>6, MissInv, ReadAuthorityInv, AnswerInv
<1>7. CASE UNCHANGED projectionVars
  <2>1. UNCHANGED <<status, driver, aged, byRide, byDriver, sending, inbox, linked, lookup, seen, excuse>>
    BY <1>7 DEF projectionVars
  <2>2. ProjectionTypeOK'
    BY <2>1 DEF ProjectionInv, ProjectionTypeOK
  <2>3. IndexesAgree' /\ DriversKnown'
    BY <2>1, SameDrivers
  <2>4. StaleNeedsCause' /\ EndsKnown'
    BY <2>1, StillComing, UntoldEnds
  <2> QED
    BY <2>2, <2>3, <2>4 DEF ProjectionInv
<1> QED
  BY <1>1, <1>2, <1>3, <1>4, <1>5, <1>6, <1>7 DEF ProjectionNext

\* For every number of processes, rides and drivers, with events lost, delayed and overtaken and
\* processes restarted: a process's index by ride and its index by driver say the same, and it
\* keeps an entry of a ride that is over only while the end is on its way or for a named cause.
THEOREM ProjectionHoldsAlways == ASSUME ProjectionConstants PROVE ProjectionSpec => []ProjectionHolds
<1>1. ProjectionInit => ProjectionInv
  BY ProjectionInitInv
<1>2. ProjectionInv /\ [ProjectionNext]_projectionVars => ProjectionInv'
  BY ProjectionNextInv
<1>3. ProjectionInv => ProjectionHolds
  BY DEF ProjectionInv, ProjectionHolds
<1> QED
  BY <1>1, <1>2, <1>3, PTL DEF ProjectionSpec
=============================================================================
