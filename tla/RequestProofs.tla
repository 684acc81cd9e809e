--------------------------- MODULE RequestProofs ----------------------------
(* What a request relies on. Its protection, for any requests, keys and bodies, any
   lifetimes and any capacity of the store (a key runs once and is answered alike).
   The account it comes from: its registration, for any number of requests and any
   limit of wrong guesses (codes are accepted once and struck at the limit, the
   account is that of its code), and its sessions, for any number of logins,
   refreshes and changes of the account (a change ends them). *)
EXTENDS Idempotency, Registration, AuthSessions, FiniteSetTheorems, TLAPS

Result(k) == <<k, "result">>
Lock(k)   == <<k, "lock">>

Job == [pc : {"new", "lookup", "acquire", "recheck", "run", "store", "release", "done"},
        key : Key \cup {None}, body : Body \cup {None}, locked : Nat,
        answer : {None, "busy", "unavailable", "conflict", "ran", "lost"} \cup Request]

Run == [key : Key, body : Body, by : Request, began : Nat, ok : BOOLEAN, ended : Nat \cup {None}]

\* A run of p to success under key k with body b.
Witnessed(k, b, p) ==
  \E i \in DOMAIN runs : runs[i].by = p /\ runs[i].ok /\ runs[i].key = k /\ runs[i].body = b

----------------------------------------------------------------------------
(* The inductive invariant *)

\* A request has its key and its body from its arrival on, and no answer before.
Arrived ==
  \A q \in Request : IF req[q].pc = "new" THEN req[q].answer = None
                     ELSE req[q].key \in Key /\ req[q].body \in Body

\* Every run is that of a request past its second lookup; a request runs once, and its run is open
\* until it ends.
RunsOfRequests ==
  \A i \in DOMAIN runs :
    LET q == runs[i].by IN
    /\ runs[i].key = req[q].key /\ runs[i].body = req[q].body
    /\ req[q].pc \in {"run", "store", "release", "done"}
    /\ req[q].pc = "run" => ~runs[i].ok
    /\ runs[i].ok => runs[i].ended \in Nat /\ runs[i].ended <= now
    /\ \A j \in DOMAIN runs : runs[j].by = q => i = j

RequestsRun ==
  \A q \in Request :
    /\ req[q].pc = "run" => \E i \in DOMAIN runs : runs[i].by = q
    /\ req[q].pc = "store" => Witnessed(req[q].key, req[q].body, q)

\* A request at work holds the lock of its key, unless a fault took it.
LockHeld ==
  \A q \in Request : Busy(q) /\ req[q].key \notin lapsed =>
    /\ Live(Lock(req[q].key))
    /\ entries[Lock(req[q].key)].value = q
    /\ entries[Lock(req[q].key)].expires = req[q].locked + LockTimeout

\* A success is about to be stored, or stored for its retention time, or that time is over,
\* unless a fault took it.
Remembered ==
  \A i \in DOMAIN runs :
    runs[i].ok /\ runs[i].key \notin lapsed =>
      \/ req[runs[i].by].pc = "store"
      \/ now >= runs[i].ended + Expiration
      \/ /\ entries[Result(runs[i].key)] # None
         /\ entries[Result(runs[i].key)].expires >= runs[i].ended + Expiration

\* Nothing ran under a key since the run that is still going on.
LatestRuns ==
  \A i, j \in DOMAIN runs :
    i < j /\ runs[i].key = runs[j].key /\ req[runs[i].by].pc = "run" => runs[i].key \in lapsed

\* What is stored as a response is that of a success.
ResultsGenuine ==
  \A k \in Key : entries[Result(k)] # None =>
    LET v == entries[Result(k)].value IN
    v \in [body : Body, by : Request] /\ Witnessed(k, v.body, v.by)

ProtectionInv ==
  /\ TypeOK /\ Arrived /\ RunsOfRequests /\ RequestsRun
  /\ LockHeld /\ Remembered /\ LatestRuns /\ ResultsGenuine
  /\ RerunNeedsFault /\ ReplayIsGenuine

----------------------------------------------------------------------------
(* Steps of a request that leave the runs alone *)

LEMMA SlotNames ==
  ASSUME NEW k \in Key
  PROVE  /\ Result(k) \in Slot /\ Lock(k) \in Slot /\ Result(k)[1] = k /\ Lock(k)[1] = k
         /\ \A j \in Key : Result(k) # Lock(j) /\ (Result(k) = Result(j) => k = j) /\ (Lock(k) = Lock(j) => k = j)
BY DEF Result, Lock, Slot

\* The locks of the other requests are left alone, or lost to a fault.
LocksStay(q) ==
  \A k \in Key : k \notin lapsed' /\ Live(Lock(k)) /\ entries[Lock(k)].value # q =>
    entries'[Lock(k)] = entries[Lock(k)]

\* A response is kept, or gone when its time was over, or lost to a fault, or replaced by a new one.
ResultsStay ==
  \A k \in Key :
    \/ entries'[Result(k)] = entries[Result(k)]
    \/ entries'[Result(k)] = None /\ (Live(Result(k)) => k \in lapsed')
    \/ /\ entries'[Result(k)] # None /\ entries'[Result(k)].expires = now + Expiration
       /\ entries'[Result(k)].value \in [body : Body, by : Request]
       /\ Witnessed(k, entries'[Result(k)].value.body, entries'[Result(k)].value.by)

\* A request at work has what LockHeld says of it.
Holds(job, q) ==
  /\ entries'[Lock(job.key)] # None
  /\ entries'[Lock(job.key)].value = q
  /\ entries'[Lock(job.key)].expires = now + LockTimeout /\ job.locked = now

\* What a step may do with the job of its request when it neither starts nor ends a run.
Proceeds(q, job) ==
  /\ job \in Job /\ job.key \in Key /\ job.body \in Body
  /\ job.pc \in {"lookup", "acquire", "recheck", "release", "done"}
  /\ req[q].pc # "new" => job.key = req[q].key /\ job.body = req[q].body
  /\ req[q].pc \in {"run", "store", "release", "done"} => job.pc \in {"release", "done"}
  /\ job.answer \in Request => Witnessed(job.key, job.body, job.answer)

LEMMA SlotStep ==
  ASSUME IdempotencyConstants, ProtectionInv, NEW q \in Request, NEW job, Proceeds(q, job),
         req' = [req EXCEPT ![q] = job], UNCHANGED <<now, runs>>,
         lastEviction' \in 0..MaxTime, entries' \in [Slot -> Entry \cup {None}],
         lapsed \subseteq lapsed', lapsed' \subseteq Key,
         LocksStay(q), ResultsStay,
         job.pc = "recheck" => Holds(job, q),
         req[q].pc # "run",
         req[q].pc = "store" => \/ req[q].key \in lapsed'
                                \/ /\ entries'[Result(req[q].key)] # None
                                   /\ entries'[Result(req[q].key)].expires = now + Expiration
  PROVE  ProtectionInv'
<1>1. TypeOK /\ req \in [Request -> Job] /\ runs \in Seq(Run) /\ now \in Nat
  BY DEF ProtectionInv, TypeOK, Job, Run, IdempotencyConstants
<1>2. /\ req'[q] = job /\ \A u \in Request \ {q} : req'[u] = req[u]
      /\ req' \in [Request -> Job]
  BY <1>1 DEF Proceeds
<1>3. TypeOK'
  BY <1>1, <1>2 DEF TypeOK, Job
<1>4. Arrived'
  BY <1>2 DEF ProtectionInv, Arrived, Proceeds
<1>5. \A i \in DOMAIN runs : runs[i] \in Run
  BY <1>1
<1>6. RunsOfRequests'
  <2> SUFFICES ASSUME NEW i \in DOMAIN runs
               PROVE  LET p == runs[i].by IN
                      /\ runs[i].key = req'[p].key /\ runs[i].body = req'[p].body
                      /\ req'[p].pc \in {"run", "store", "release", "done"}
                      /\ req'[p].pc = "run" => ~runs[i].ok
                      /\ runs[i].ok => runs[i].ended \in Nat /\ runs[i].ended <= now
                      /\ \A j \in DOMAIN runs : runs[j].by = p => i = j
    BY DEF RunsOfRequests
  <2>1. runs[i].by \in Request
    BY <1>5 DEF Run
  <2>2. CASE runs[i].by = q
    BY <1>2, <2>2 DEF ProtectionInv, RunsOfRequests, Proceeds
  <2>3. CASE runs[i].by # q
    BY <1>2, <2>1, <2>3 DEF ProtectionInv, RunsOfRequests
  <2> QED
    BY <2>2, <2>3
<1>7. RequestsRun'
  BY <1>2 DEF ProtectionInv, RequestsRun, Witnessed, Proceeds
<1>8. LockHeld'
  <2> SUFFICES ASSUME NEW u \in Request, Busy(u)', req'[u].key \notin lapsed'
               PROVE  /\ Live(Lock(req[u].key))'
                      /\ entries'[Lock(req'[u].key)].value = u
                      /\ entries'[Lock(req'[u].key)].expires = req'[u].locked + LockTimeout
    BY DEF LockHeld
  <2>1. CASE u = q
    <3>1. job.pc = "recheck" /\ Holds(job, q)
      BY <1>2, <2>1 DEF Proceeds, Busy
    <3> QED
      BY <1>1, <1>2, <2>1, <3>1 DEF Holds, Live, IdempotencyConstants
  <2>2. CASE u # q
    <3>1. PICK k : k = req[u].key
      OBVIOUS
    <3>2. req'[u] = req[u] /\ Busy(u) /\ k \in Key /\ k \notin lapsed' /\ k \notin lapsed
      BY <1>2, <2>2, <3>1 DEF Busy, ProtectionInv, Arrived
    <3>3. Live(Lock(k)) /\ entries[Lock(k)].value = u /\ entries[Lock(k)].expires = req[u].locked + LockTimeout
      BY <3>1, <3>2 DEF ProtectionInv, LockHeld
    <3>4. entries'[Lock(k)] = entries[Lock(k)]
      BY <2>2, <3>2, <3>3 DEF LocksStay
    <3> QED
      BY <3>1, <3>2, <3>3, <3>4 DEF Live
  <2> QED
    BY <2>1, <2>2
<1>9. Remembered'
  <2> SUFFICES ASSUME NEW i \in DOMAIN runs, runs[i].ok, runs[i].key \notin lapsed',
                      ~(req'[runs[i].by].pc = "store"), ~(now >= runs[i].ended + Expiration)
               PROVE  /\ entries'[Result(runs[i].key)] # None
                      /\ entries'[Result(runs[i].key)].expires >= runs[i].ended + Expiration
    BY DEF Remembered
  <2>1. PICK k : k = runs[i].key
    OBVIOUS
  <2>2. runs[i].by \in Request /\ k \in Key /\ runs[i].ended \in Nat /\ runs[i].ended <= now /\ k \notin lapsed
    BY <1>5, <2>1 DEF Run, ProtectionInv, RunsOfRequests
  <2>3. CASE req[runs[i].by].pc = "store"
    <3>1. runs[i].by = q
      BY <1>2, <2>2, <2>3
    <3>2. req[q].key = k
      BY <2>1, <3>1 DEF ProtectionInv, RunsOfRequests
    <3> QED
      BY <1>1, <2>1, <2>2, <2>3, <3>1, <3>2 DEF IdempotencyConstants
  <2>4. CASE req[runs[i].by].pc # "store"
    <3>1. entries[Result(k)] # None /\ entries[Result(k)].expires >= runs[i].ended + Expiration
      BY <2>1, <2>2, <2>4 DEF ProtectionInv, Remembered
    <3>2. entries[Result(k)].expires \in Nat
      BY <1>1, <2>2, <3>1, SlotNames DEF TypeOK, Entry
    <3>3. Live(Result(k))
      BY <1>1, <2>2, <3>1, <3>2 DEF Live, IdempotencyConstants
    <3>4. \/ entries'[Result(k)] = entries[Result(k)]
          \/ entries'[Result(k)].expires = now + Expiration /\ entries'[Result(k)] # None
      BY <2>1, <2>2, <3>3 DEF ResultsStay
    <3> QED
      BY <1>1, <2>1, <2>2, <3>1, <3>4 DEF IdempotencyConstants
  <2> QED
    BY <2>3, <2>4
<1>10. LatestRuns'
  BY <1>2, <1>5 DEF ProtectionInv, LatestRuns, Proceeds, Run
<1>11. ResultsGenuine'
  <2> SUFFICES ASSUME NEW k \in Key, entries'[Result(k)] # None
               PROVE  LET v == entries'[Result(k)].value IN
                      v \in [body : Body, by : Request] /\ Witnessed(k, v.body, v.by)
    BY DEF ResultsGenuine, Witnessed
  <2> QED
    BY DEF ResultsStay, ProtectionInv, ResultsGenuine
<1>12. RerunNeedsFault'
  BY DEF ProtectionInv, RerunNeedsFault
<1>13. ReplayIsGenuine'
  BY <1>2 DEF ProtectionInv, ReplayIsGenuine, Proceeds, Witnessed
<1> QED
  BY <1>3, <1>4, <1>6, <1>7, <1>8, <1>9, <1>10, <1>11, <1>12, <1>13 DEF ProtectionInv

\* A job as a step of the middleware leaves it.
JobAt(q, pc, answer) == [req[q] EXCEPT !.pc = pc, !.answer = answer]

LEMMA GoSets ==
  ASSUME ProtectionInv, NEW q \in Request, NEW pc, NEW answer, NEW job,
         job = JobAt(q, pc, answer)
  PROVE  Go(q, pc, answer) => req' = [req EXCEPT ![q] = job]
<1>1. req \in [Request -> Job]
  BY DEF ProtectionInv, TypeOK, Job
<1> QED
  BY <1>1 DEF Go, JobAt

\* The steps after which a request has its answer, with what Proceeds asks of it.
LEMMA GoProceeds ==
  ASSUME ProtectionInv, NEW q \in Request,
         NEW pc \in {"acquire", "release", "done"},
         NEW answer \in {None, "busy", "unavailable", "conflict", "ran", "lost"} \cup Request,
         IdempotencyConstants,
         req[q].pc \in {"lookup", "acquire", "recheck"} \/ (req[q].pc \in {"store", "release"} /\ pc \in {"release", "done"}),
         answer \in Request => Witnessed(req[q].key, req[q].body, answer), NEW job,
         job = JobAt(q, pc, answer)
  PROVE  Proceeds(q, job) /\ job.pc = pc
<1>1. req[q] \in Job /\ req[q].key \in Key /\ req[q].body \in Body
  BY DEF ProtectionInv, TypeOK, Job, Arrived
<1>2. job \in Job /\ job.key = req[q].key /\ job.body = req[q].body /\ job.pc = pc /\ job.answer = answer
  BY <1>1 DEF Job, JobAt
<1> QED
  BY <1>1, <1>2 DEF Proceeds

LEMMA ArriveStep ==
  ASSUME IdempotencyConstants, ProtectionInv, NEW q \in Request, NEW k \in Key, NEW b \in Body, Arrive(q, k, b)
  PROVE  ProtectionInv'
<1>1. PICK job : job = [req[q] EXCEPT !.pc = "lookup", !.key = k, !.body = b]
  OBVIOUS
<1>2. req \in [Request -> Job] /\ req[q].pc = "new" /\ req[q].answer = None
  BY DEF ProtectionInv, TypeOK, Job, Arrive, Arrived
<1>4. req' = [req EXCEPT ![q] = job]
  BY <1>1, <1>2 DEF Arrive
<1>5. job \in Job /\ job.pc = "lookup" /\ job.key = k /\ job.body = b /\ job.answer = None
  BY <1>1, <1>2 DEF Job
<1>6. Proceeds(q, job)
  BY <1>2, <1>5 DEF Proceeds, IdempotencyConstants
<1>7. LocksStay(q) /\ ResultsStay
  BY DEF Arrive, LocksStay, ResultsStay
<1> QED
  BY <1>2, <1>4, <1>5, <1>6, <1>7, SlotStep DEF Arrive, ProtectionInv, TypeOK

\* A lookup that hits, or fails.
LEMMA HitStep ==
  ASSUME IdempotencyConstants, ProtectionInv, NEW q \in Request, NEW hit \in {"release", "done"},
         req[q].pc \in {"lookup", "recheck"},
         \/ Go(q, hit, "unavailable")
         \/ Live(Result(req[q].key)) /\ Replay(q, hit),
         UNCHANGED <<now, entries, lastEviction, runs, lapsed>>
  PROVE  ProtectionInv'
<1>1. PICK answer : /\ Go(q, hit, answer)
                    /\ \/ answer \in {"unavailable", "conflict"}
                       \/ answer \in Request /\ Witnessed(req[q].key, req[q].body, answer)
  <2>1. CASE Go(q, hit, "unavailable")
    BY <2>1
  <2>2. CASE Live(Result(req[q].key)) /\ Replay(q, hit)
    <3>1. PICK k, v : k = req[q].key /\ v = entries[Result(k)].value
      OBVIOUS
    <3>2. k \in Key /\ v \in [body : Body, by : Request] /\ Witnessed(k, v.body, v.by)
      BY <2>2, <3>1 DEF ProtectionInv, Arrived, ResultsGenuine, Live
    <3>3. Go(q, hit, IF v.body = req[q].body THEN v.by ELSE "conflict")
      BY <2>2, <3>1 DEF Replay, Result
    <3> QED
      BY <3>1, <3>2, <3>3
  <2> QED
    BY <2>1, <2>2
<1>2. PICK job : job = JobAt(q, hit, answer)
  OBVIOUS
<1>3. Proceeds(q, job) /\ job.pc = hit
  BY <1>1, <1>2, GoProceeds DEF IdempotencyConstants
<1>4. req' = [req EXCEPT ![q] = job]
  BY <1>1, <1>2, GoSets
<1>5. LocksStay(q) /\ ResultsStay
  BY DEF LocksStay, ResultsStay
<1> QED
  BY <1>3, <1>4, <1>5, SlotStep DEF ProtectionInv, TypeOK

\* What a lookup that misses does to the store.
LEMMA MissKeeps ==
  ASSUME ProtectionInv, NEW q \in Request, req[q].key \in Key, ~Live(Result(req[q].key)),
         entries' = IF InMemory THEN [entries EXCEPT ![Result(req[q].key)] = None] ELSE entries
  PROVE  /\ entries' \in [Slot -> Entry \cup {None}]
         /\ \A t \in Slot : entries'[t] = entries[t] \/ (t = Result(req[q].key) /\ entries'[t] = None)
         /\ LocksStay(q) /\ ResultsStay
<1>1. entries \in [Slot -> Entry \cup {None}] /\ Result(req[q].key) \in Slot
  BY SlotNames DEF ProtectionInv, TypeOK
<1>2. /\ entries' \in [Slot -> Entry \cup {None}]
      /\ \A t \in Slot : entries'[t] = entries[t] \/ (t = Result(req[q].key) /\ entries'[t] = None)
  BY <1>1
<1>3. LocksStay(q) /\ ResultsStay
  BY <1>2, SlotNames DEF LocksStay, ResultsStay
<1> QED
  BY <1>2, <1>3

LEMMA LookupStep ==
  ASSUME IdempotencyConstants, ProtectionInv, NEW q \in Request, Lookup(q)
  PROVE  ProtectionInv'
<1>1. req[q].pc = "lookup" /\ req[q].key \in Key /\ Look(q, "done", "acquire")
      /\ UNCHANGED <<now, lastEviction, runs, lapsed>>
  BY DEF Lookup, ProtectionInv, Arrived
<1>2. CASE /\ \/ Go(q, "done", "unavailable")
              \/ Live(Result(req[q].key)) /\ Replay(q, "done")
           /\ UNCHANGED entries
  BY <1>1, <1>2, HitStep
<1>3. CASE /\ ~Live(Result(req[q].key)) /\ Go(q, "acquire", None)
           /\ entries' = IF InMemory THEN [entries EXCEPT ![Result(req[q].key)] = None] ELSE entries
  <2>1. PICK job : job = JobAt(q, "acquire", None)
    OBVIOUS
  <2>2. Proceeds(q, job) /\ job.pc = "acquire"
    BY <1>1, <2>1, GoProceeds DEF IdempotencyConstants
  <2>3. req' = [req EXCEPT ![q] = job]
    BY <1>3, <2>1, GoSets
  <2>4. LocksStay(q) /\ ResultsStay /\ entries' \in [Slot -> Entry \cup {None}]
    BY <1>1, <1>3, MissKeeps
  <2> QED
    BY <1>1, <2>2, <2>3, <2>4, SlotStep DEF ProtectionInv, TypeOK
<1> QED
  BY <1>1, <1>2, <1>3 DEF Look, Result

\* What a write may cost the other slots: a live entry that goes is a fault of its key.
Evicts(s) ==
  \A t \in Slot \ {s} : \/ entries'[t] = entries[t]
                        \/ entries'[t] = None /\ (Live(t) => t[1] \in lapsed')

\* The bookkeeping of a write.
StoreShapes ==
  /\ entries' \in [Slot -> Entry \cup {None}] /\ lastEviction' \in 0..MaxTime
  /\ lapsed \subseteq lapsed' /\ lapsed' \subseteq Key

LEMMA EvictLockedKeepsClock ==
  ASSUME TypeOK, NEW kept, EvictLocked(kept)
  PROVE  kept \subseteq Held /\ lastEviction' \in 0..MaxTime
BY DEF EvictLocked, TypeOK, Expired

LEMMA LapsesAreKeys ==
  ASSUME TypeOK, NEW kept, lapsed' = lapsed \cup {t[1] : t \in {u \in Held \ kept : Live(u)}}
  PROVE  /\ lapsed \subseteq lapsed' /\ lapsed' \subseteq Key
         /\ \A t \in Held \ kept : Live(t) => t[1] \in lapsed'
<1>1. \A t \in Held : t[1] \in Key
  BY DEF Held, Slot
<1> QED
  BY <1>1 DEF TypeOK

LEMMA PutWrites ==
  ASSUME IdempotencyConstants, TypeOK, NEW s \in Slot, NEW v \in Request \cup [body : Body, by : Request],
         NEW lifetime \in Nat, Put(s, v, lifetime)
  PROVE  /\ StoreShapes /\ Evicts(s) /\ entries'[s] = [value |-> v, expires |-> now + lifetime]
         /\ entries'[s] # None
<1>1. PICK kept \in SUBSET Held :
        /\ IF InMemory /\ Held # {} THEN EvictLocked(kept)
           ELSE kept = Held /\ UNCHANGED lastEviction
        /\ entries' = [t \in Slot |-> IF t = s THEN [value |-> v, expires |-> now + lifetime]
                                      ELSE IF t \in kept THEN entries[t] ELSE None]
        /\ lapsed' = lapsed \cup {t[1] : t \in {u \in Held \ kept : Live(u)}}
  BY DEF Put
<1>2. lastEviction' \in 0..MaxTime
  BY <1>1, EvictLockedKeepsClock DEF TypeOK
<1>3. /\ lapsed \subseteq lapsed' /\ lapsed' \subseteq Key
      /\ \A t \in Held \ kept : Live(t) => t[1] \in lapsed'
  BY <1>1, LapsesAreKeys
<1>4. now + lifetime \in Nat
  BY DEF TypeOK, IdempotencyConstants
<1>5. PICK new : new = [value |-> v, expires |-> now + lifetime]
  OBVIOUS
<1>6. new \in Entry /\ new # None
  BY <1>4, <1>5 DEF Entry, IdempotencyConstants
<1>7. entries' = [t \in Slot |-> IF t = s THEN new ELSE IF t \in kept THEN entries[t] ELSE None]
  BY <1>1, <1>5
<1>8. entries' \in [Slot -> Entry \cup {None}]
  BY <1>6, <1>7 DEF TypeOK
<1>9. Evicts(s)
  <2> SUFFICES ASSUME NEW t \in Slot \ {s}
               PROVE  \/ entries'[t] = entries[t]
                      \/ entries'[t] = None /\ (Live(t) => t[1] \in lapsed')
    BY DEF Evicts
  <2>1. entries'[t] = IF t \in kept THEN entries[t] ELSE None
    BY <1>7
  <2> QED
    BY <1>3, <2>1 DEF Held
<1> QED
  BY <1>2, <1>3, <1>5, <1>6, <1>7, <1>8, <1>9 DEF StoreShapes

\* A write of a lock that is not live, and of a response that has its run, leave the rest alone.
LEMMA LockWriteKeeps ==
  ASSUME NEW q, NEW k \in Key, Evicts(Lock(k)), Live(Lock(k)) => k \in lapsed'
  PROVE  LocksStay(q) /\ ResultsStay
<1>1. \A j \in Key : Result(j) \in Slot \ {Lock(k)} /\ Result(j)[1] = j
  BY SlotNames
<1>2. \A j \in Key \ {k} : Lock(j) \in Slot \ {Lock(k)} /\ Lock(j)[1] = j
  BY SlotNames
<1>3. ResultsStay
  BY <1>1 DEF Evicts, ResultsStay
<1>4. LocksStay(q)
  BY <1>2 DEF Evicts, LocksStay
<1> QED
  BY <1>3, <1>4

LEMMA ResultWriteKeeps ==
  ASSUME NEW q, NEW k \in Key, NEW b \in Body, NEW p \in Request, Evicts(Result(k)), Witnessed(k, b, p),
         entries'[Result(k)] = [value |-> [body |-> b, by |-> p], expires |-> now + Expiration],
         entries'[Result(k)] # None
  PROVE  LocksStay(q) /\ ResultsStay
<1>1. \A j \in Key : Lock(j) \in Slot \ {Result(k)} /\ Lock(j)[1] = j
  BY SlotNames
<1>2. \A j \in Key \ {k} : Result(j) \in Slot \ {Result(k)} /\ Result(j)[1] = j
  BY SlotNames
<1>3. LocksStay(q)
  BY <1>1 DEF Evicts, LocksStay
<1>4. ResultsStay
  BY <1>2 DEF Evicts, ResultsStay
<1> QED
  BY <1>3, <1>4

\* SetNX without an effect, or with the effect of a write.
LEMMA AcquireStep ==
  ASSUME IdempotencyConstants, ProtectionInv, NEW q \in Request, Acquire(q)
  PROVE  ProtectionInv'
<1>1. PICK k : k = req[q].key
  OBVIOUS
<1>2. /\ req[q].pc = "acquire" /\ k \in Key /\ UNCHANGED <<now, runs>> /\ TypeOK
      /\ req \in [Request -> Job] /\ req[q].body \in Body /\ now \in Nat
  BY <1>1 DEF Acquire, ProtectionInv, Arrived, TypeOK, Job, IdempotencyConstants
<1>3. Lock(k) \in Slot
  BY <1>2, SlotNames
\* the two ways to leave: with an answer, or with the lock
<1>4. ASSUME StoreShapes, LocksStay(q), ResultsStay, NEW answer \in {"busy", "unavailable"}, Go(q, "done", answer)
      PROVE  ProtectionInv'
  <2>1. PICK job : job = JobAt(q, "done", answer)
    OBVIOUS
  <2>2. Proceeds(q, job) /\ job.pc = "done"
    BY <1>2, <1>4, <2>1, GoProceeds DEF IdempotencyConstants
  <2>3. req' = [req EXCEPT ![q] = job]
    BY <1>4, <2>1, GoSets
  <2> QED
    BY <1>2, <1>4, <2>2, <2>3, SlotStep DEF StoreShapes
<1>5. ASSUME StoreShapes, LocksStay(q), ResultsStay, entries'[Lock(k)] # None,
             entries'[Lock(k)] = [value |-> q, expires |-> now + LockTimeout],
             req' = [req EXCEPT ![q].pc = "recheck", ![q].locked = now]
      PROVE  ProtectionInv'
  <2>1. PICK job : job = [req[q] EXCEPT !.pc = "recheck", !.locked = now]
    OBVIOUS
  <2>2. req' = [req EXCEPT ![q] = job]
    BY <1>5, <2>1
  <2>3. /\ job \in Job /\ job.pc = "recheck" /\ job.key = k /\ job.body = req[q].body
        /\ job.locked = now /\ job.answer = req[q].answer
    <3>1. PICK old : old = req[q]
      OBVIOUS
    <3>2. old \in Job /\ now \in Nat /\ k = old.key
      BY <1>1, <1>2, <3>1
    <3>3. job = [old EXCEPT !.pc = "recheck", !.locked = now]
      BY <2>1, <3>1
    <3>4. job \in Job
      BY <3>2, <3>3 DEF Job
    <3>5. /\ job.pc = "recheck" /\ job.key = k /\ job.body = old.body
          /\ job.locked = now /\ job.answer = old.answer
      BY <3>2, <3>3 DEF Job
    <3> QED
      BY <3>1, <3>4, <3>5
  <2>4. req[q].answer \in Request => Witnessed(k, req[q].body, req[q].answer)
    BY <1>1 DEF ProtectionInv, ReplayIsGenuine, Witnessed
  <2>5. Proceeds(q, job)
    BY <1>1, <1>2, <2>3, <2>4 DEF Proceeds
  <2>6. Holds(job, q)
    BY <1>5, <2>3 DEF Holds
  <2> QED
    BY <1>2, <1>5, <2>2, <2>5, <2>6, SlotStep DEF StoreShapes
\* the cases of the action
<1>6. CASE /\ ~Live(Lock(k)) /\ Put(Lock(k), q, LockTimeout)
           /\ \/ req' = [req EXCEPT ![q].pc = "recheck", ![q].locked = now]
              \/ StoreFails /\ ~InMemory /\ Go(q, "done", "unavailable")
  <2>1. /\ StoreShapes /\ Evicts(Lock(k)) /\ entries'[Lock(k)] # None
        /\ entries'[Lock(k)] = [value |-> q, expires |-> now + LockTimeout]
    BY <1>2, <1>3, <1>6, PutWrites DEF IdempotencyConstants
  <2>2. LocksStay(q) /\ ResultsStay
    BY <1>2, <1>6, <2>1, LockWriteKeeps
  <2> QED
    BY <1>4, <1>5, <1>6, <2>1, <2>2
<1>7. CASE Go(q, "done", "busy") /\ UNCHANGED <<entries, lastEviction, lapsed>>
  BY <1>2, <1>4, <1>7 DEF StoreShapes, TypeOK, LocksStay, ResultsStay
<1>8. CASE Go(q, "done", "unavailable") /\ UNCHANGED <<entries, lastEviction, lapsed>>
  BY <1>2, <1>4, <1>8 DEF StoreShapes, TypeOK, LocksStay, ResultsStay
<1>9. CASE /\ Live(Lock(k))
           /\ \E kept \in SUBSET Held :
                /\ InMemory /\ EvictLocked(kept)
                /\ entries' = [t \in Slot |-> IF t = Lock(k) /\ Lock(k) \notin kept
                                              THEN [value |-> q, expires |-> now + LockTimeout]
                                              ELSE IF t \in kept THEN entries[t] ELSE None]
                /\ lapsed' = lapsed \cup {t[1] : t \in {u \in Held \ kept : Live(u)}}
                /\ IF Lock(k) \in kept THEN Go(q, "done", "busy")
                   ELSE req' = [req EXCEPT ![q].pc = "recheck", ![q].locked = now]
  <2>1. PICK kept \in SUBSET Held :
                /\ EvictLocked(kept)
                /\ entries' = [t \in Slot |-> IF t = Lock(k) /\ Lock(k) \notin kept
                                              THEN [value |-> q, expires |-> now + LockTimeout]
                                              ELSE IF t \in kept THEN entries[t] ELSE None]
                /\ lapsed' = lapsed \cup {t[1] : t \in {u \in Held \ kept : Live(u)}}
                /\ IF Lock(k) \in kept THEN Go(q, "done", "busy")
                   ELSE req' = [req EXCEPT ![q].pc = "recheck", ![q].locked = now]
    BY <1>9
  <2>2. lastEviction' \in 0..MaxTime
    BY <1>2, <2>1, EvictLockedKeepsClock
  <2>3. /\ lapsed \subseteq lapsed' /\ lapsed' \subseteq Key
        /\ \A t \in Held \ kept : Live(t) => t[1] \in lapsed'
    BY <1>2, <2>1, LapsesAreKeys
  <2>4. PICK new : new = [value |-> q, expires |-> now + LockTimeout]
    OBVIOUS
  <2>5. new \in Entry /\ new # None
    BY <1>2, <2>4 DEF Entry, IdempotencyConstants
  <2>6. entries' = [t \in Slot |-> IF t = Lock(k) /\ Lock(k) \notin kept THEN new
                                   ELSE IF t \in kept THEN entries[t] ELSE None]
    BY <2>1, <2>4
  <2>7. StoreShapes
    BY <1>2, <2>2, <2>3, <2>5, <2>6 DEF StoreShapes, TypeOK
  <2>8. Evicts(Lock(k))
    <3> SUFFICES ASSUME NEW t \in Slot \ {Lock(k)}
                 PROVE  \/ entries'[t] = entries[t]
                        \/ entries'[t] = None /\ (Live(t) => t[1] \in lapsed')
      BY DEF Evicts
    <3>1. entries'[t] = IF t \in kept THEN entries[t] ELSE None
      BY <2>6
    <3> QED
      BY <2>3, <3>1 DEF Held
  <2>9. CASE Lock(k) \in kept
    <3>1. entries'[Lock(k)] = entries[Lock(k)]
      BY <1>3, <2>6, <2>9
    <3>2. LocksStay(q) /\ ResultsStay
      <4>1. \A j \in Key : Result(j) \in Slot \ {Lock(k)} /\ Result(j)[1] = j
        BY <1>2, SlotNames
      <4>2. \A j \in Key \ {k} : Lock(j) \in Slot \ {Lock(k)} /\ Lock(j)[1] = j
        BY <1>2, SlotNames
      <4> QED
        BY <2>8, <3>1, <4>1, <4>2 DEF Evicts, LocksStay, ResultsStay
    <3> QED
      BY <1>4, <2>1, <2>7, <2>9, <3>2
  <2>10. CASE Lock(k) \notin kept
    <3>1. entries'[Lock(k)] = new /\ Lock(k) \in Held
      BY <1>3, <1>9, <2>6, <2>10 DEF Held, Live
    <3>2. k \in lapsed'
      BY <1>2, <1>9, <2>3, <2>10, <3>1, SlotNames
    <3>3. LocksStay(q) /\ ResultsStay
      BY <1>2, <2>8, <3>2, LockWriteKeeps
    <3> QED
      BY <1>5, <2>1, <2>4, <2>5, <2>7, <2>10, <3>1, <3>3
  <2> QED
    BY <2>9, <2>10
<1> QED
  BY <1>1, <1>6, <1>7, <1>8, <1>9 DEF Acquire, Lock

\* A step that only moves its request to its release or its end.
LEMMA LeaveProceeds ==
  ASSUME ProtectionInv, NEW q \in Request, req[q].pc \in {"store", "release"}, NEW pc \in {"release", "done"},
         NEW job, job = [req[q] EXCEPT !.pc = pc]
  PROVE  Proceeds(q, job) /\ job.pc = pc
<1>1. PICK old : old = req[q]
  OBVIOUS
<1>2. old \in Job /\ old.key \in Key /\ old.body \in Body /\ job = [old EXCEPT !.pc = pc]
  BY <1>1 DEF ProtectionInv, TypeOK, Job, Arrived
<1>3. job \in Job
  BY <1>2 DEF Job
<1>4. job.pc = pc /\ job.key = old.key /\ job.body = old.body /\ job.answer = old.answer
  BY <1>2 DEF Job
<1>5. old.answer \in Request => Witnessed(old.key, old.body, old.answer)
  BY <1>1 DEF ProtectionInv, ReplayIsGenuine, Witnessed
<1> QED
  BY <1>1, <1>2, <1>3, <1>4, <1>5 DEF Proceeds

LEMMA StoreStep ==
  ASSUME IdempotencyConstants, ProtectionInv, NEW q \in Request, Store(q)
  PROVE  ProtectionInv'
<1>1. PICK k, b, job : k = req[q].key /\ b = req[q].body /\ job = [req[q] EXCEPT !.pc = "release"]
  OBVIOUS
<1>2. /\ req[q].pc = "store" /\ k \in Key /\ b \in Body /\ TypeOK /\ UNCHANGED <<now, runs>>
      /\ Witnessed(k, b, q) /\ Result(k) \in Slot
  BY <1>1, SlotNames DEF Store, ProtectionInv, Arrived, RequestsRun
<1>3. req' = [req EXCEPT ![q] = job]
  BY <1>1 DEF Store
<1>4. Proceeds(q, job) /\ job.pc = "release"
  BY <1>1, <1>2, LeaveProceeds
<1>5. CASE Put(Result(k), [body |-> b, by |-> q], Expiration)
  <2>1. [body |-> b, by |-> q] \in Request \cup [body : Body, by : Request]
    BY <1>2
  <2>2. /\ StoreShapes /\ Evicts(Result(k)) /\ entries'[Result(k)] # None
        /\ entries'[Result(k)] = [value |-> [body |-> b, by |-> q], expires |-> now + Expiration]
    BY <1>2, <1>5, <2>1, PutWrites DEF IdempotencyConstants
  <2>3. LocksStay(q) /\ ResultsStay
    BY <1>2, <2>2, ResultWriteKeeps
  <2>4. entries'[Result(k)].expires = now + Expiration
    BY <2>2
  <2> QED
    BY <1>1, <1>2, <1>3, <1>4, <2>2, <2>3, <2>4, SlotStep DEF StoreShapes
<1>6. CASE lapsed' = lapsed \cup {k} /\ UNCHANGED <<entries, lastEviction>>
  <2>1. LocksStay(q) /\ ResultsStay /\ StoreShapes
    BY <1>2, <1>6 DEF LocksStay, ResultsStay, StoreShapes, TypeOK
  <2> QED
    BY <1>1, <1>2, <1>3, <1>4, <1>6, <2>1, SlotStep DEF StoreShapes
<1> QED
  BY <1>1, <1>5, <1>6 DEF Store, Result

LEMMA ReleaseStep ==
  ASSUME IdempotencyConstants, ProtectionInv, NEW q \in Request, Release(q)
  PROVE  ProtectionInv'
<1>1. PICK k, job : k = req[q].key /\ job = [req[q] EXCEPT !.pc = "done"]
  OBVIOUS
<1>2. /\ req[q].pc = "release" /\ k \in Key /\ TypeOK
      /\ UNCHANGED <<now, lastEviction, runs, lapsed>> /\ Lock(k) \in Slot
  BY <1>1, SlotNames DEF Release, ProtectionInv, Arrived
<1>3. req' = [req EXCEPT ![q] = job]
  BY <1>1 DEF Release
<1>4. Proceeds(q, job) /\ job.pc = "done"
  BY <1>1, <1>2, LeaveProceeds
<1>5. \/ entries' = entries
      \/ entries[Lock(k)].value = q /\ entries' = [entries EXCEPT ![Lock(k)] = None]
  BY <1>1 DEF Release, DeleteIfValue, Lock
<1>6. /\ entries' \in [Slot -> Entry \cup {None}]
      /\ \A t \in Slot : entries'[t] = entries[t] \/ (t = Lock(k) /\ entries[t].value = q)
  BY <1>2, <1>5 DEF TypeOK
<1>7. LocksStay(q) /\ ResultsStay
  <2>1. \A j \in Key : Result(j) \in Slot /\ Result(j) # Lock(k) /\ Lock(j) \in Slot
    BY <1>2, SlotNames
  <2> QED
    BY <1>6, <2>1 DEF LocksStay, ResultsStay
<1> QED
  BY <1>2, <1>3, <1>4, <1>6, <1>7, SlotStep DEF TypeOK

----------------------------------------------------------------------------
(* Runs start and end, the process dies, time passes *)

\* A success stays on record.
LEMMA WitnessStays ==
  ASSUME NEW k, NEW b, NEW p, Witnessed(k, b, p),
         \A i \in DOMAIN runs : runs[i].ok =>
           /\ i \in DOMAIN runs' /\ runs'[i].ok /\ runs'[i].by = runs[i].by
           /\ runs'[i].key = runs[i].key /\ runs'[i].body = runs[i].body
  PROVE  Witnessed(k, b, p)'
BY Zenon DEF Witnessed

\* Two requests at work on one key have lost the lock.
LEMMA OneAtWork ==
  ASSUME ProtectionInv, NEW p \in Request, NEW q \in Request, p # q, Busy(p), Busy(q),
         req[p].key = req[q].key
  PROVE  req[p].key \in lapsed
BY DEF ProtectionInv, LockHeld

\* The second lookup misses, and the command starts.
LEMMA BeginStep ==
  ASSUME IdempotencyConstants, ProtectionInv, NEW q \in Request, req[q].pc = "recheck",
         ~Live(Result(req[q].key)), Go(q, "run", None),
         entries' = IF InMemory THEN [entries EXCEPT ![Result(req[q].key)] = None] ELSE entries,
         runs' = Append(runs, NewRun(q)), UNCHANGED <<now, lastEviction, lapsed>>
  PROVE  ProtectionInv'
<1>1. PICK k, n, run, job : /\ k = req[q].key /\ n = Len(runs) + 1 /\ run = NewRun(q)
                            /\ job = JobAt(q, "run", None)
  OBVIOUS
<1>2. /\ TypeOK /\ req \in [Request -> Job] /\ runs \in Seq(Run) /\ now \in Nat
      /\ k \in Key /\ req[q].body \in Body
  BY <1>1 DEF ProtectionInv, TypeOK, Job, Run, Arrived, IdempotencyConstants
<1>3. /\ run \in Run /\ run.key = k /\ run.body = req[q].body /\ run.by = q /\ run.began = now /\ ~run.ok
  BY <1>1, <1>2 DEF NewRun, Run
<1>4. /\ n \in Nat /\ runs' \in Seq(Run) /\ DOMAIN runs = 1..(n - 1) /\ DOMAIN runs' = 1..n
      /\ runs'[n] = run /\ \A i \in DOMAIN runs : i \in DOMAIN runs' /\ i < n /\ runs'[i] = runs[i]
      /\ \A i \in DOMAIN runs' : i = n \/ i \in DOMAIN runs
  BY <1>1, <1>2, <1>3
<1>5. \A i \in DOMAIN runs : runs[i] \in Run /\ runs[i].by \in Request /\ runs[i].by # q
  <2> SUFFICES ASSUME NEW i \in DOMAIN runs PROVE runs[i] \in Run /\ runs[i].by \in Request /\ runs[i].by # q
    OBVIOUS
  <2>1. runs[i] \in Run
    BY <1>2
  <2>2. runs[i].by \in Request
    BY <2>1 DEF Run
  <2>3. req[runs[i].by].pc \in {"run", "store", "release", "done"}
    BY DEF ProtectionInv, RunsOfRequests
  <2> QED
    BY <2>1, <2>2, <2>3
<1>6. req' = [req EXCEPT ![q] = job]
  BY <1>1, GoSets
<1>7. /\ job \in Job /\ job.pc = "run" /\ job.key = k /\ job.body = req[q].body
      /\ job.locked = req[q].locked /\ job.answer = None
  <2>1. PICK old : old = req[q]
    OBVIOUS
  <2>2. old \in Job /\ job = [old EXCEPT !.pc = "run", !.answer = None] /\ k = old.key
    BY <1>1, <1>2, <2>1 DEF JobAt
  <2>3. job \in Job
    BY <2>2 DEF Job
  <2>4. job.pc = "run" /\ job.key = k /\ job.body = old.body /\ job.locked = old.locked /\ job.answer = None
    BY <2>2 DEF Job
  <2> QED
    BY <2>1, <2>3, <2>4
<1>8. req'[q] = job /\ (\A u \in Request \ {q} : req'[u] = req[u]) /\ req' \in [Request -> Job]
  BY <1>2, <1>6, <1>7
<1>9. /\ entries' \in [Slot -> Entry \cup {None}]
      /\ \A t \in Slot : entries'[t] = entries[t] \/ (t = Result(k) /\ entries'[t] = None)
  BY <1>1, <1>2, MissKeeps
<1>10. \A i \in DOMAIN runs : runs[i].ok =>
         /\ i \in DOMAIN runs' /\ runs'[i].ok /\ runs'[i].by = runs[i].by
         /\ runs'[i].key = runs[i].key /\ runs'[i].body = runs[i].body
  BY <1>4
<1>11. TypeOK'
  BY <1>2, <1>4, <1>8, <1>9 DEF TypeOK, Job, Run
<1>12. Arrived'
  BY <1>2, <1>7, <1>8 DEF ProtectionInv, Arrived
<1>13. RunsOfRequests'
  <2> SUFFICES ASSUME NEW i \in DOMAIN runs'
               PROVE  LET p == runs'[i].by IN
                      /\ runs'[i].key = req'[p].key /\ runs'[i].body = req'[p].body
                      /\ req'[p].pc \in {"run", "store", "release", "done"}
                      /\ req'[p].pc = "run" => ~runs'[i].ok
                      /\ runs'[i].ok => runs'[i].ended \in Nat /\ runs'[i].ended <= now'
                      /\ \A j \in DOMAIN runs' : runs'[j].by = p => i = j
    BY DEF RunsOfRequests
  <2>1. CASE i = n
    <3>1. \A j \in DOMAIN runs' : runs'[j].by = q => j = n
      BY <1>4, <1>5
    <3> QED
      BY <1>3, <1>4, <1>7, <1>8, <2>1, <3>1
  <2>2. CASE i # n
    <3>1. i \in DOMAIN runs /\ runs'[i] = runs[i] /\ runs[i].by \in Request \ {q}
      BY <1>4, <1>5, <2>2
    <3>2. req'[runs[i].by] = req[runs[i].by]
      BY <1>8, <3>1
    <3>3. \A j \in DOMAIN runs' : runs'[j].by = runs[i].by => i = j
      BY <1>3, <1>4, <3>1 DEF ProtectionInv, RunsOfRequests
    <3> QED
      BY <3>1, <3>2, <3>3 DEF ProtectionInv, RunsOfRequests
  <2> QED
    BY <2>1, <2>2
<1>14. RequestsRun'
  <2> SUFFICES ASSUME NEW u \in Request
               PROVE  /\ req'[u].pc = "run" => \E i \in DOMAIN runs' : runs'[i].by = u
                      /\ req'[u].pc = "store" => Witnessed(req[u].key, req[u].body, u)'
    BY DEF RequestsRun
  <2>1. CASE u = q
    BY <1>3, <1>4, <1>7, <1>8, <2>1
  <2>2. CASE u # q
    <3>1. PICK old : old = req[u] /\ old = req'[u]
      BY <1>8, <2>2
    <3>2. ASSUME old.pc = "run" PROVE \E i \in DOMAIN runs' : runs'[i].by = u
      BY <1>4, <3>1, <3>2 DEF ProtectionInv, RequestsRun
    <3>3. ASSUME old.pc = "store" PROVE Witnessed(old.key, old.body, u)'
      <4>1. Witnessed(old.key, old.body, u)
        BY <3>1, <3>3 DEF ProtectionInv, RequestsRun
      <4> QED
        BY <1>10, <4>1, WitnessStays
    <3> QED
      BY <3>1, <3>2, <3>3
  <2> QED
    BY <2>1, <2>2
<1>15. LockHeld'
  <2> SUFFICES ASSUME NEW u \in Request, Busy(u)', req'[u].key \notin lapsed'
               PROVE  /\ Live(Lock(req[u].key))'
                      /\ entries'[Lock(req'[u].key)].value = u
                      /\ entries'[Lock(req'[u].key)].expires = req'[u].locked + LockTimeout
    BY DEF LockHeld
  <2>1. req'[u].key = req[u].key /\ req'[u].locked = req[u].locked /\ Busy(u) /\ req[u].key \in Key
    BY <1>1, <1>2, <1>7, <1>8 DEF Busy, ProtectionInv, Arrived
  <2>2. entries'[Lock(req[u].key)] = entries[Lock(req[u].key)]
    BY <1>2, <1>9, <2>1, SlotNames
  <2> QED
    BY <2>1, <2>2 DEF ProtectionInv, LockHeld, Live
<1>16. Remembered'
  <2> SUFFICES ASSUME NEW i \in DOMAIN runs', runs'[i].ok, runs'[i].key \notin lapsed',
                      ~(req'[runs'[i].by].pc = "store"), ~(now' >= runs'[i].ended + Expiration)
               PROVE  /\ entries'[Result(runs'[i].key)] # None
                      /\ entries'[Result(runs'[i].key)].expires >= runs'[i].ended + Expiration
    BY DEF Remembered
  <2>1. i \in DOMAIN runs /\ runs'[i] = runs[i]
    BY <1>3, <1>4
  <2>2. PICK j : j = runs[i].key
    OBVIOUS
  <2>3. j \in Key /\ runs[i].ended \in Nat
    BY <1>5, <2>1, <2>2 DEF Run, ProtectionInv, RunsOfRequests
  <2>4. entries[Result(j)] # None /\ entries[Result(j)].expires >= runs[i].ended + Expiration
    BY <1>5, <1>8, <2>1, <2>2 DEF ProtectionInv, Remembered
  <2>5. entries[Result(j)].expires \in Nat
    BY <1>2, <2>3, <2>4, SlotNames DEF TypeOK, Entry
  <2>6. Live(Result(j))
    BY <1>2, <2>1, <2>3, <2>4, <2>5 DEF Live, IdempotencyConstants
  <2>7. entries'[Result(j)] = entries[Result(j)]
    BY <1>1, <1>9, <2>3, <2>6, SlotNames
  <2> QED
    BY <2>1, <2>2, <2>4, <2>7
<1>17. LatestRuns'
  <2> SUFFICES ASSUME NEW i \in DOMAIN runs', NEW j \in DOMAIN runs', i < j, runs'[i].key = runs'[j].key,
                      req'[runs'[i].by].pc = "run"
               PROVE  runs'[i].key \in lapsed
    BY DEF LatestRuns
  <2>1. i \in DOMAIN runs /\ runs'[i] = runs[i] /\ runs[i].by \in Request \ {q} /\ req'[runs[i].by] = req[runs[i].by]
    BY <1>4, <1>5, <1>8
  <2>2. CASE j = n
    <3>1. req[runs[i].by].key = runs[i].key /\ runs[i].key = req[q].key
      BY <1>1, <1>3, <1>4, <2>1, <2>2 DEF ProtectionInv, RunsOfRequests
    <3> QED
      BY <2>1, <3>1, OneAtWork DEF Busy
  <2>3. CASE j # n
    BY <1>4, <2>1, <2>3 DEF ProtectionInv, LatestRuns
  <2> QED
    BY <2>2, <2>3
<1>18. ResultsGenuine'
  <2> SUFFICES ASSUME NEW j \in Key, entries'[Result(j)] # None, NEW v, v = entries'[Result(j)].value
               PROVE  v \in [body : Body, by : Request] /\ Witnessed(j, v.body, v.by)'
    BY DEF ResultsGenuine
  <2>1. entries'[Result(j)] = entries[Result(j)]
    BY <1>9, SlotNames
  <2>2. v \in [body : Body, by : Request] /\ Witnessed(j, v.body, v.by)
    BY <2>1 DEF ProtectionInv, ResultsGenuine
  <2> QED
    BY <1>10, <2>2, WitnessStays
<1>19. RerunNeedsFault'
  <2> SUFFICES ASSUME NEW i \in DOMAIN runs', NEW j \in DOMAIN runs', i < j, runs'[i].key = runs'[j].key,
                      runs'[i].ok, runs'[j].began < runs'[i].ended + Expiration, runs'[i].key \notin lapsed
               PROVE  FALSE
    BY DEF RerunNeedsFault
  <2>1. i \in DOMAIN runs /\ runs'[i] = runs[i] /\ runs[i].by \in Request /\ runs[i].by # q
    BY <1>4, <1>5
  <2>2. CASE j # n
    BY <1>4, <2>1, <2>2 DEF ProtectionInv, RerunNeedsFault
  <2>3. CASE j = n
    <3>1. runs[i].key = k /\ now < runs[i].ended + Expiration /\ runs[i].ended \in Nat
      BY <1>3, <1>4, <2>1, <2>3 DEF ProtectionInv, RunsOfRequests
    <3>2. req[runs[i].by].pc # "store"
      <4>1. req[runs[i].by].key = req[q].key
        BY <1>1, <2>1, <3>1 DEF ProtectionInv, RunsOfRequests
      <4> QED
        BY <1>1, <2>1, <3>1, <4>1, OneAtWork DEF Busy
    <3>3. entries[Result(k)] # None /\ entries[Result(k)].expires >= runs[i].ended + Expiration
      BY <1>2, <2>1, <3>1, <3>2 DEF ProtectionInv, Remembered, IdempotencyConstants
    <3>4. entries[Result(k)].expires \in Nat
      BY <1>2, <3>3, SlotNames DEF TypeOK, Entry
    <3> QED
      BY <1>1, <1>2, <3>1, <3>3, <3>4 DEF Live, IdempotencyConstants
  <2> QED
    BY <2>2, <2>3
<1>20. ReplayIsGenuine'
  <2> SUFFICES ASSUME NEW u \in Request, NEW new, new = req'[u], new.answer \in Request
               PROVE  Witnessed(new.key, new.body, new.answer)'
    BY DEF ReplayIsGenuine, Witnessed
  <2>1. u # q /\ new = req[u]
    BY <1>7, <1>8 DEF IdempotencyConstants
  <2>2. Witnessed(new.key, new.body, new.answer)
    BY <2>1 DEF ProtectionInv, ReplayIsGenuine, Witnessed
  <2> QED
    BY <1>10, <2>2, WitnessStays
<1> QED
  BY <1>11, <1>12, <1>13, <1>14, <1>15, <1>16, <1>17, <1>18, <1>19, <1>20 DEF ProtectionInv

\* A run ends: nothing but its outcome and its end is written, and a success is about to be stored
\* or a fault of its key.
Closes(i) ==
  /\ runs'[i].key = runs[i].key /\ runs'[i].body = runs[i].body
  /\ runs'[i].by = runs[i].by /\ runs'[i].began = runs[i].began
  /\ \/ runs'[i] = runs[i]
     \/ /\ req[runs[i].by].pc = "run" /\ req'[runs[i].by].pc # "run"
        /\ runs'[i].ok => /\ runs'[i].ended = now
                          /\ runs[i].key \in lapsed' \/ req'[runs[i].by].pc = "store"

\* A request stays where it is, or is past its run.
Leaves(u) ==
  /\ req'[u].key = req[u].key /\ req'[u].body = req[u].body /\ req'[u].locked = req[u].locked
  /\ \/ req'[u] = req[u]
     \/ /\ req[u].pc # "new" /\ req'[u].pc \in {"store", "release", "done"} /\ req'[u].answer \notin Request
        /\ req'[u].pc = "store" => req[u].pc = "run" /\ \E i \in DOMAIN runs' : runs'[i].by = u /\ runs'[i].ok
        /\ req[u].pc = "store" => req[u].key \in lapsed'

\* Steps that end runs, one by one or all at once.
LEMMA EndStep ==
  ASSUME IdempotencyConstants, ProtectionInv, UNCHANGED <<now, lastEviction>>,
         req' \in [Request -> Job], \A u \in Request : Leaves(u),
         runs' \in Seq(Run), DOMAIN runs' = DOMAIN runs, \A i \in DOMAIN runs : Closes(i),
         lapsed \subseteq lapsed', lapsed' \subseteq Key,
         entries' = entries \/ (entries' = [s \in Slot |-> None] /\ lapsed' = Key)
  PROVE  ProtectionInv'
<1>1. TypeOK /\ req \in [Request -> Job] /\ runs \in Seq(Run) /\ now \in Nat
  BY DEF ProtectionInv, TypeOK, Job, Run, IdempotencyConstants
<1>2. \A i \in DOMAIN runs : runs[i] \in Run /\ runs'[i] \in Run
  BY <1>1
<1>3. \A i \in DOMAIN runs : runs[i].by \in Request /\ runs[i].key \in Key /\ runs'[i].ok \in BOOLEAN
  BY <1>2 DEF Run
<1>4. ASSUME NEW i \in DOMAIN runs, runs[i].ok PROVE runs'[i] = runs[i]
  BY <1>4 DEF ProtectionInv, RunsOfRequests, Closes
<1>5. \A i \in DOMAIN runs : runs[i].ok =>
         /\ i \in DOMAIN runs' /\ runs'[i].ok /\ runs'[i].by = runs[i].by
         /\ runs'[i].key = runs[i].key /\ runs'[i].body = runs[i].body
  BY <1>4
<1>6. ASSUME NEW i \in DOMAIN runs
      PROVE  /\ runs[i].key = req[runs[i].by].key /\ runs[i].body = req[runs[i].by].body
             /\ req[runs[i].by].pc \in {"run", "store", "release", "done"}
             /\ req[runs[i].by].pc = "run" => ~runs[i].ok
             /\ runs[i].ok => runs[i].ended \in Nat /\ runs[i].ended <= now
             /\ \A j \in DOMAIN runs : runs[j].by = runs[i].by => i = j
  BY DEF ProtectionInv, RunsOfRequests
<1>7. TypeOK'
  <2>1. entries' \in [Slot -> Entry \cup {None}]
    BY <1>1 DEF TypeOK
  <2> QED
    BY <1>1, <2>1 DEF TypeOK, Job, Run
<1>8. Arrived'
  BY DEF ProtectionInv, Arrived, Leaves
<1>9. RunsOfRequests'
  <2> SUFFICES ASSUME NEW i \in DOMAIN runs
               PROVE  LET p == runs'[i].by IN
                      /\ runs'[i].key = req'[p].key /\ runs'[i].body = req'[p].body
                      /\ req'[p].pc \in {"run", "store", "release", "done"}
                      /\ req'[p].pc = "run" => ~runs'[i].ok
                      /\ runs'[i].ok => runs'[i].ended \in Nat /\ runs'[i].ended <= now
                      /\ \A j \in DOMAIN runs : runs'[j].by = p => i = j
    BY DEF RunsOfRequests
  <2>1. runs[i].by \in Request /\ Leaves(runs[i].by) /\ Closes(i) /\ runs'[i].by = runs[i].by
    BY <1>3 DEF Closes
  <2>2. \A j \in DOMAIN runs : runs'[j].by = runs[i].by => i = j
    BY <1>6 DEF Closes
  <2>3. runs'[i].key = req'[runs[i].by].key /\ runs'[i].body = req'[runs[i].by].body
    BY <1>6, <2>1 DEF Leaves, Closes
  <2>4. req'[runs[i].by].pc \in {"run", "store", "release", "done"}
    BY <1>6, <2>1 DEF Leaves
  <2>5. CASE runs'[i] = runs[i]
    <3>1. req'[runs[i].by].pc = "run" => ~runs[i].ok
      BY <1>6, <2>1 DEF Leaves
    <3> QED
      BY <1>6, <2>1, <2>2, <2>3, <2>4, <2>5, <3>1
  <2>6. CASE runs'[i] # runs[i]
    <3>1. req'[runs[i].by].pc # "run" /\ (runs'[i].ok => runs'[i].ended = now)
      BY <2>1, <2>6 DEF Closes
    <3>2. runs'[i].ok => runs'[i].ended \in Nat /\ runs'[i].ended <= now
      BY <1>1, <3>1
    <3> QED
      BY <2>1, <2>2, <2>3, <2>4, <3>1, <3>2
  <2> QED
    BY <2>5, <2>6
<1>10. RequestsRun'
  <2> SUFFICES ASSUME NEW u \in Request, NEW new, new = req'[u]
               PROVE  /\ new.pc = "run" => \E i \in DOMAIN runs' : runs'[i].by = u
                      /\ new.pc = "store" => Witnessed(new.key, new.body, u)'
    BY DEF RequestsRun
  <2>1. CASE new = req[u]
    <3>1. new.pc = "run" => \E i \in DOMAIN runs' : runs'[i].by = u
      BY <2>1 DEF ProtectionInv, RequestsRun, Closes
    <3>2. ASSUME new.pc = "store" PROVE Witnessed(new.key, new.body, u)'
      <4>1. Witnessed(new.key, new.body, u)
        BY <2>1, <3>2 DEF ProtectionInv, RequestsRun
      <4> QED
        BY <1>5, <4>1, WitnessStays
    <3> QED
      BY <3>1, <3>2
  <2>2. CASE new # req[u]
    <3>1. new.pc # "run" /\ new.key = req[u].key /\ new.body = req[u].body
      BY <2>2 DEF Leaves
    <3>2. ASSUME new.pc = "store" PROVE Witnessed(new.key, new.body, u)'
      <4>1. PICK i \in DOMAIN runs' : runs'[i].by = u /\ runs'[i].ok
        BY <2>2, <3>2 DEF Leaves
      <4>2. runs'[i].key = req[u].key /\ runs'[i].body = req[u].body
        BY <1>6, <4>1 DEF Closes
      <4> QED
        BY <3>1, <4>1, <4>2 DEF Witnessed
    <3> QED
      BY <3>1, <3>2
  <2> QED
    BY <2>1, <2>2
<1>11. LockHeld'
  <2> SUFFICES ASSUME NEW u \in Request, Busy(u)', req'[u].key \notin lapsed'
               PROVE  /\ Live(Lock(req[u].key))'
                      /\ entries'[Lock(req'[u].key)].value = u
                      /\ entries'[Lock(req'[u].key)].expires = req'[u].locked + LockTimeout
    BY DEF LockHeld
  <2>1. req'[u].key = req[u].key /\ req'[u].locked = req[u].locked /\ Busy(u) /\ req[u].key \in Key
    BY DEF Leaves, Busy, ProtectionInv, Arrived
  <2>2. entries' = entries
    BY <2>1
  <2> QED
    BY <2>1, <2>2 DEF ProtectionInv, LockHeld, Live
<1>12. Remembered'
  <2> SUFFICES ASSUME NEW i \in DOMAIN runs, runs'[i].ok, runs'[i].key \notin lapsed',
                      ~(req'[runs'[i].by].pc = "store"), ~(now' >= runs'[i].ended + Expiration)
               PROVE  /\ entries'[Result(runs'[i].key)] # None
                      /\ entries'[Result(runs'[i].key)].expires >= runs'[i].ended + Expiration
    BY DEF Remembered
  <2>1. /\ Closes(i) /\ runs'[i].by = runs[i].by /\ runs'[i].key = runs[i].key
        /\ runs[i].by \in Request /\ runs[i].key \in Key /\ Leaves(runs[i].by)
    BY <1>3 DEF Closes
  <2>2. runs'[i] = runs[i] /\ entries' = entries
    BY <2>1 DEF Closes
  <2>3. req[runs[i].by].pc # "store"
    <3>1. ASSUME req[runs[i].by].pc = "store" PROVE FALSE
      <4>1. req'[runs[i].by] # req[runs[i].by]
        BY <2>1, <3>1
      <4>2. req[runs[i].by].key \in lapsed'
        BY <2>1, <3>1, <4>1 DEF Leaves
      <4> QED
        BY <1>6, <2>1, <4>2
    <3> QED
      BY <3>1
  <2> QED
    BY <2>1, <2>2, <2>3 DEF ProtectionInv, Remembered
<1>13. LatestRuns'
  <2> SUFFICES ASSUME NEW i \in DOMAIN runs, NEW j \in DOMAIN runs, i < j, runs'[i].key = runs'[j].key,
                      req'[runs'[i].by].pc = "run"
               PROVE  runs'[i].key \in lapsed
    BY DEF LatestRuns
  <2>1. runs'[i].key = runs[i].key /\ runs'[j].key = runs[j].key /\ runs'[i].by = runs[i].by
    BY DEF Closes
  <2>2. req[runs[i].by].pc = "run"
    BY <1>3, <2>1 DEF Leaves
  <2> QED
    BY <2>1, <2>2 DEF ProtectionInv, LatestRuns
<1>14. ResultsGenuine'
  <2> SUFFICES ASSUME NEW j \in Key, entries'[Result(j)] # None, NEW v, v = entries'[Result(j)].value
               PROVE  v \in [body : Body, by : Request] /\ Witnessed(j, v.body, v.by)'
    BY DEF ResultsGenuine
  <2>1. entries' = entries
    BY SlotNames
  <2>2. v \in [body : Body, by : Request] /\ Witnessed(j, v.body, v.by)
    BY <2>1 DEF ProtectionInv, ResultsGenuine
  <2> QED
    BY <1>5, <2>2, WitnessStays
<1>15. RerunNeedsFault'
  <2> SUFFICES ASSUME NEW i \in DOMAIN runs, NEW j \in DOMAIN runs, i < j, runs'[i].key = runs'[j].key,
                      runs'[i].ok, runs'[j].began < runs'[i].ended + Expiration
               PROVE  runs'[i].key \in lapsed'
    BY DEF RerunNeedsFault
  <2>1. runs'[i].key = runs[i].key /\ runs'[j].key = runs[j].key /\ runs'[j].began = runs[j].began
    BY DEF Closes
  <2>2. CASE runs'[i] = runs[i]
    BY <2>1, <2>2 DEF ProtectionInv, RerunNeedsFault
  <2>3. CASE runs'[i] # runs[i]
    <3>1. req[runs[i].by].pc = "run"
      BY <2>3 DEF Closes
    <3> QED
      BY <2>1, <3>1 DEF ProtectionInv, LatestRuns
  <2> QED
    BY <2>2, <2>3
<1>16. ReplayIsGenuine'
  <2> SUFFICES ASSUME NEW u \in Request, NEW new, new = req'[u], new.answer \in Request
               PROVE  Witnessed(new.key, new.body, new.answer)'
    BY DEF ReplayIsGenuine, Witnessed
  <2>1. new = req[u]
    BY DEF Leaves
  <2>2. Witnessed(new.key, new.body, new.answer)
    BY <2>1 DEF ProtectionInv, ReplayIsGenuine, Witnessed
  <2> QED
    BY <1>5, <2>2, WitnessStays
<1> QED
  BY <1>7, <1>8, <1>9, <1>10, <1>11, <1>12, <1>13, <1>14, <1>15, <1>16 DEF ProtectionInv

LEMMA EndRunStep ==
  ASSUME IdempotencyConstants, ProtectionInv, NEW q \in Request, NEW ok \in BOOLEAN,
         NEW next \in {"store", "release"}, NEW lapse \in BOOLEAN, EndRun(q, ok, next, lapse),
         ok => next = "store" \/ lapse, next = "store" => ok
  PROVE  ProtectionInv'
<1>1. PICK n, k, job : n = RunOf(q) /\ k = req[q].key /\ job = JobAt(q, next, "ran")
  OBVIOUS
<1>2. /\ TypeOK /\ req \in [Request -> Job] /\ runs \in Seq(Run) /\ now \in Nat /\ req[q].pc = "run" /\ k \in Key
      /\ UNCHANGED <<now, entries, lastEviction>>
  BY <1>1 DEF ProtectionInv, TypeOK, Job, Run, IdempotencyConstants, EndRun, Arrived
<1>3. n \in DOMAIN runs /\ runs[n].by = q
  <2>1. \E i \in DOMAIN runs : runs[i].by = q
    BY <1>2 DEF ProtectionInv, RequestsRun
  <2> QED
    BY <1>1, <2>1, Zenon DEF RunOf
<1>4. req' = [req EXCEPT ![q] = job]
  BY <1>1, GoSets DEF EndRun
<1>5. /\ job \in Job /\ job.pc = next /\ job.key = k /\ job.body = req[q].body
      /\ job.locked = req[q].locked /\ job.answer = "ran"
  <2>1. PICK old : old = req[q]
    OBVIOUS
  <2>2. old \in Job /\ job = [old EXCEPT !.pc = next, !.answer = "ran"] /\ k = old.key
    BY <1>1, <1>2, <2>1 DEF JobAt
  <2>3. job \in Job
    BY <2>2 DEF Job
  <2>4. job.pc = next /\ job.key = k /\ job.body = old.body /\ job.locked = old.locked /\ job.answer = "ran"
    BY <2>2 DEF Job
  <2> QED
    BY <2>1, <2>3, <2>4
<1>6. req'[q] = job /\ (\A u \in Request \ {q} : req'[u] = req[u]) /\ req' \in [Request -> Job]
  BY <1>2, <1>4, <1>5
<1>7. PICK old, run : old = runs[n] /\ run = [old EXCEPT !.ok = ok, !.ended = now]
  OBVIOUS
<1>8. old \in Run /\ runs' = [runs EXCEPT ![n] = run]
  <2>1. runs \in [1..Len(runs) -> Run] /\ n \in 1..Len(runs)
    BY <1>2, <1>3
  <2>2. runs' = [runs EXCEPT ![n].ok = ok, ![n].ended = now]
    BY <1>1 DEF EndRun
  <2> QED
    BY <1>7, <2>1, <2>2
<1>9. run \in Run
  BY <1>2, <1>7, <1>8 DEF Run
<1>10. /\ run.key = old.key /\ run.body = old.body /\ run.by = old.by /\ run.began = old.began
       /\ run.ended = now
  BY <1>7, <1>8 DEF Run
<1>11. run.ok <=> ok
  BY <1>7, <1>8 DEF Run
<1>12. /\ runs' \in Seq(Run) /\ DOMAIN runs' = DOMAIN runs /\ runs'[n] = run
       /\ \A i \in DOMAIN runs : i # n => runs'[i] = runs[i]
  BY <1>2, <1>3, <1>8, <1>9
<1>13. /\ lapsed \subseteq lapsed' /\ lapsed' \subseteq Key /\ (lapse => k \in lapsed')
  BY <1>1, <1>2 DEF EndRun, TypeOK
<1>14. ASSUME NEW u \in Request PROVE Leaves(u)
  <2>1. CASE u # q
    BY <1>6, <2>1 DEF Leaves
  <2>2. CASE u = q
    <3>1. "ran" \notin Request
      BY DEF IdempotencyConstants
    <3>2. next = "store" => \E i \in DOMAIN runs' : runs'[i].by = u /\ runs'[i].ok
      <4>1. n \in DOMAIN runs' /\ runs'[n].by = u /\ runs'[n] = run
        BY <1>3, <1>7, <1>10, <1>12, <2>2
      <4>2. next = "store" => run.ok
        BY <1>11, Zenon
      <4> QED
        BY <4>1, <4>2, Zenon
    <3> QED
      BY <1>1, <1>2, <1>5, <1>6, <2>2, <3>1, <3>2 DEF Leaves
  <2> QED
    BY <2>1, <2>2
<1>15. ASSUME NEW i \in DOMAIN runs PROVE Closes(i)
  <2>1. CASE i # n
    BY <1>12, <2>1 DEF Closes
  <2>2. CASE i = n
    <3>1. runs[n].key = k
      BY <1>1, <1>3 DEF ProtectionInv, RunsOfRequests
    <3>2. run.ok => k \in lapsed' \/ next = "store"
      BY <1>11, <1>13
    <3> QED
      BY <1>2, <1>3, <1>5, <1>6, <1>7, <1>10, <1>12, <2>2, <3>1, <3>2 DEF Closes
  <2> QED
    BY <2>1, <2>2
<1> QED
  BY <1>2, <1>6, <1>12, <1>13, <1>14, <1>15, EndStep

LEMMA FinishStep ==
  ASSUME IdempotencyConstants, ProtectionInv, NEW q \in Request, Finish(q)
  PROVE  ProtectionInv'
BY EndRunStep DEF Finish

LEMMA RecheckStep ==
  ASSUME IdempotencyConstants, ProtectionInv, NEW q \in Request, Recheck(q)
  PROVE  ProtectionInv'
<1>1. /\ req[q].pc = "recheck" /\ Look(q, "release", "run") /\ UNCHANGED <<now, lastEviction, lapsed>>
      /\ runs' = IF req'[q].pc # "run" THEN runs ELSE Append(runs, NewRun(q))
  BY DEF Recheck
<1>2. ASSUME NEW pc, NEW answer, Go(q, pc, answer) PROVE req'[q].pc = pc
  BY <1>2 DEF Go, ProtectionInv, TypeOK
<1>3. CASE /\ \/ Go(q, "release", "unavailable")
              \/ Live(Result(req[q].key)) /\ Replay(q, "release")
           /\ UNCHANGED entries
  <2>1. req'[q].pc = "release"
    BY <1>2, <1>3, Zenon DEF Replay
  <2>2. UNCHANGED runs
    BY <1>1, <2>1
  <2> QED
    BY <1>1, <1>3, <2>2, HitStep
<1>4. CASE /\ ~Live(Result(req[q].key)) /\ Go(q, "run", None)
           /\ entries' = IF InMemory THEN [entries EXCEPT ![Result(req[q].key)] = None] ELSE entries
  <2>1. runs' = Append(runs, NewRun(q))
    BY <1>1, <1>2, <1>4
  <2> QED
    BY <1>1, <1>4, <2>1, BeginStep
<1> QED
  BY <1>1, <1>3, <1>4 DEF Look, Result

LEMMA CrashStep ==
  ASSUME IdempotencyConstants, ProtectionInv, Crash
  PROVE  ProtectionInv'
<1> DEFINE cut == {q \in Request : req[q].pc \notin {"new", "done"}}
           hit == {req[q].key : q \in {x \in cut : req[x].pc \in {"run", "store"}}}
<1>1. PICK won \in SUBSET {q \in cut : req[q].pc = "run"} :
        runs' = [i \in DOMAIN runs |-> IF runs[i].by \in won
                                      THEN [runs[i] EXCEPT !.ok = TRUE, !.ended = now]
                                      ELSE runs[i]]
  BY DEF Crash
<1>2. /\ UNCHANGED <<now, lastEviction>>
      /\ req' = [q \in Request |-> IF q \in cut THEN [req[q] EXCEPT !.pc = "done", !.answer = "lost"]
                                  ELSE req[q]]
      /\ entries' = IF InMemory THEN [s \in Slot |-> None] ELSE entries
      /\ lapsed' = IF InMemory THEN Key ELSE lapsed \cup hit
  BY DEF Crash
<1>3. TypeOK /\ req \in [Request -> Job] /\ runs \in Seq(Run) /\ now \in Nat
  BY DEF ProtectionInv, TypeOK, Job, Run, IdempotencyConstants
<1>4. hit \subseteq Key
  BY DEF ProtectionInv, Arrived
<1>5. /\ lapsed \subseteq lapsed' /\ lapsed' \subseteq Key
      /\ \A q \in Request : req[q].pc \in {"run", "store"} => req[q].key \in lapsed'
  BY <1>2, <1>3, <1>4 DEF TypeOK, ProtectionInv, Arrived
<1>6. ASSUME NEW u \in Request PROVE req'[u] \in Job /\ Leaves(u)
  <2>1. CASE u \in cut
    <3>1. PICK old : old = req[u]
      OBVIOUS
    <3>2. old \in Job /\ req'[u] = [old EXCEPT !.pc = "done", !.answer = "lost"]
      BY <1>2, <1>3, <2>1, <3>1
    <3>3. req'[u] \in Job
      BY <3>2 DEF Job
    <3>4. /\ req'[u].pc = "done" /\ req'[u].key = old.key /\ req'[u].body = old.body
          /\ req'[u].locked = old.locked /\ req'[u].answer = "lost"
      BY <3>2 DEF Job
    <3>5. "lost" \notin Request
      BY DEF IdempotencyConstants
    <3> QED
      BY <1>5, <2>1, <3>1, <3>3, <3>4, <3>5 DEF Leaves
  <2>2. CASE u \notin cut
    BY <1>2, <1>3, <2>2 DEF Leaves
  <2> QED
    BY <2>1, <2>2
<1>7. req' \in [Request -> Job]
  BY <1>2, <1>6
<1>8. ASSUME NEW i \in DOMAIN runs PROVE runs'[i] \in Run /\ Closes(i)
  <2>1. PICK old : old = runs[i]
    OBVIOUS
  <2>2. old \in Run /\ old.by \in Request
    <3>1. old \in Run
      BY <1>3, <2>1
    <3> QED
      BY <3>1 DEF Run
  <2>3. CASE old.by \in won
    <3>1. runs'[i] = [old EXCEPT !.ok = TRUE, !.ended = now]
      BY <1>1, <2>1, <2>3
    <3>2. runs'[i] \in Run
      BY <1>3, <2>2, <3>1 DEF Run
    <3>3. /\ runs'[i].key = old.key /\ runs'[i].body = old.body /\ runs'[i].by = old.by
          /\ runs'[i].began = old.began /\ runs'[i].ended = now
      BY <2>2, <3>1 DEF Run
    <3>4. req[old.by].pc = "run" /\ old.by \in cut /\ old.key = req[old.by].key
      BY <2>1, <2>3 DEF ProtectionInv, RunsOfRequests
    <3>5. req'[old.by].pc = "done"
      BY <1>2, <1>3, <2>2, <3>4 DEF Job
    <3>6. old.key \in lapsed'
      BY <1>5, <2>2, <3>4
    <3> QED
      BY <2>1, <3>2, <3>3, <3>4, <3>5, <3>6 DEF Closes
  <2>4. CASE old.by \notin won
    BY <1>1, <2>1, <2>2, <2>4 DEF Closes
  <2> QED
    BY <2>3, <2>4
<1>9. runs' \in Seq(Run) /\ DOMAIN runs' = DOMAIN runs
  <2>1. DOMAIN runs = 1..Len(runs) /\ Len(runs) \in Nat
    BY <1>3
  <2>2. runs' \in [1..Len(runs) -> Run]
    BY <1>1, <1>8, <2>1
  <2> QED
    BY <2>1, <2>2
<1>10. entries' = entries \/ (entries' = [s \in Slot |-> None] /\ lapsed' = Key)
  BY <1>2
<1> QED
  BY <1>2, <1>5, <1>6, <1>7, <1>8, <1>9, <1>10, EndStep

LEMMA TickStep ==
  ASSUME IdempotencyConstants, ProtectionInv, Tick
  PROVE  ProtectionInv'
<1> DEFINE late == {q \in Request : Busy(q) /\ now + 1 >= req[q].locked + LockTimeout}
<1>1. /\ now < MaxTime /\ now' = now + 1 /\ lapsed' = lapsed \cup {req[q].key : q \in late}
      /\ UNCHANGED <<entries, lastEviction, req, runs>>
  BY DEF Tick
<1>2. TypeOK /\ req \in [Request -> Job] /\ runs \in Seq(Run) /\ now \in Nat
  BY DEF ProtectionInv, TypeOK, Job, Run, IdempotencyConstants
<1>3. lapsed \subseteq lapsed' /\ lapsed' \subseteq Key
  BY <1>1, <1>2 DEF TypeOK, ProtectionInv, Arrived, Busy
<1>4. TypeOK'
  BY <1>1, <1>2, <1>3 DEF TypeOK, IdempotencyConstants
<1>5. Arrived' /\ RequestsRun' /\ ResultsGenuine' /\ ReplayIsGenuine'
  BY <1>1 DEF ProtectionInv, Arrived, RequestsRun, ResultsGenuine, ReplayIsGenuine, Witnessed
<1>6. RunsOfRequests'
  <2>1. \A i \in DOMAIN runs : runs[i].ok => runs[i].ended \in Nat /\ runs[i].ended <= now'
    BY <1>1, <1>2 DEF ProtectionInv, RunsOfRequests
  <2> QED
    BY <1>1, <2>1, Zenon DEF ProtectionInv, RunsOfRequests
<1>7. LockHeld'
  <2> SUFFICES ASSUME NEW u \in Request, Busy(u)', req'[u].key \notin lapsed'
               PROVE  /\ Live(Lock(req[u].key))'
                      /\ entries'[Lock(req'[u].key)].value = u
                      /\ entries'[Lock(req'[u].key)].expires = req'[u].locked + LockTimeout
    BY DEF LockHeld
  <2>1. Busy(u) /\ u \notin late /\ req[u].key \notin lapsed
    BY <1>1 DEF Busy
  <2>2. /\ Live(Lock(req[u].key)) /\ entries[Lock(req[u].key)].value = u
        /\ entries[Lock(req[u].key)].expires = req[u].locked + LockTimeout
    BY <2>1 DEF ProtectionInv, LockHeld
  <2>3. req[u].locked \in Nat
    BY <1>2 DEF Job
  <2>4. now + 1 < req[u].locked + LockTimeout
    BY <1>2, <2>1, <2>3 DEF IdempotencyConstants
  <2> QED
    BY <1>1, <2>2, <2>4 DEF Live
<1>8. Remembered'
  <2> SUFFICES ASSUME NEW i \in DOMAIN runs, runs[i].ok, runs[i].key \notin lapsed'
               PROVE  \/ req[runs[i].by].pc = "store"
                      \/ now' >= runs[i].ended + Expiration
                      \/ /\ entries[Result(runs[i].key)] # None
                         /\ entries[Result(runs[i].key)].expires >= runs[i].ended + Expiration
    BY <1>1 DEF Remembered
  <2>1. runs[i].ended \in Nat /\ runs[i].key \notin lapsed
    BY <1>3 DEF ProtectionInv, RunsOfRequests
  <2>2. now >= runs[i].ended + Expiration => now' >= runs[i].ended + Expiration
    BY <1>1, <1>2, <2>1 DEF IdempotencyConstants
  <2> QED
    BY <2>1, <2>2 DEF ProtectionInv, Remembered
<1>9. LatestRuns' /\ RerunNeedsFault'
  BY <1>1, <1>3 DEF ProtectionInv, LatestRuns, RerunNeedsFault
<1> QED
  BY <1>4, <1>5, <1>6, <1>7, <1>8, <1>9 DEF ProtectionInv

----------------------------------------------------------------------------
(* The promises *)

LEMMA ProtectionInit == IdempotencyConstants /\ Init => ProtectionInv
<1> SUFFICES ASSUME IdempotencyConstants, Init PROVE ProtectionInv
  OBVIOUS
<1>1. DOMAIN runs = {} /\ runs \in Seq(Run)
  BY DEF Init
<1>2. \A q \in Request : req[q].pc = "new" /\ req[q].answer = None
  BY DEF Init
<1>3. TypeOK
  BY <1>1 DEF Init, TypeOK, IdempotencyConstants, Run
<1>4. Arrived /\ RunsOfRequests /\ RequestsRun /\ LockHeld /\ Remembered /\ LatestRuns /\ RerunNeedsFault
  BY <1>1, <1>2 DEF Arrived, RunsOfRequests, RequestsRun, LockHeld, Remembered, LatestRuns, RerunNeedsFault, Busy
<1>5. ResultsGenuine
  BY SlotNames DEF Init, ResultsGenuine
<1>6. ReplayIsGenuine
  BY <1>2 DEF ReplayIsGenuine, IdempotencyConstants
<1> QED
  BY <1>3, <1>4, <1>5, <1>6 DEF ProtectionInv

LEMMA ProtectionStep == IdempotencyConstants /\ ProtectionInv /\ [Next]_vars => ProtectionInv'
<1> SUFFICES ASSUME IdempotencyConstants, ProtectionInv, [Next]_vars PROVE ProtectionInv'
  OBVIOUS
<1>1. CASE UNCHANGED vars
  BY <1>1 DEF vars, ProtectionInv, TypeOK, Arrived, RunsOfRequests, RequestsRun, LockHeld, Remembered,
              LatestRuns, ResultsGenuine, RerunNeedsFault, ReplayIsGenuine, Witnessed, Busy, Live
<1>2. CASE Next
  BY <1>2, ArriveStep, LookupStep, AcquireStep, RecheckStep, FinishStep, StoreStep, ReleaseStep,
     CrashStep, TickStep, Zenon DEF Next, Step
<1> QED
  BY <1>1, <1>2

\* Whatever faults the store, the commands, the clock and the process have: a key whose command
\* succeeded runs again within the retention time only if a fault of the list took its protection,
\* and every replayed response is that of a command that succeeded under this key and body.
THEOREM SecondRunNeedsFaultAlways ==
  ASSUME IdempotencyConstants
  PROVE  Spec => [](SecondRunNeedsFault /\ TypeOK)
<1>1. Init => ProtectionInv
  BY ProtectionInit
<1>2. ProtectionInv /\ [Next]_vars => ProtectionInv'
  BY ProtectionStep
<1>3. ProtectionInv => SecondRunNeedsFault /\ TypeOK
  BY DEF ProtectionInv, SecondRunNeedsFault
<1> QED
  BY <1>1, <1>2, <1>3, PTL DEF Spec

----------------------------------------------------------------------------
(* Locks are released, and the memory store is bounded *)

\* The holder of a lock is a request, and while the lock is live it is at work.
LocksOwned ==
  \A k \in Key :
    /\ entries[Lock(k)] # None => entries[Lock(k)].value \in Request
    /\ Live(Lock(k)) =>
         LET q == entries[Lock(k)].value IN
         req[q].key = k /\ req[q].pc \in {"recheck", "run", "store", "release"}

Bound == IF Capacity < 2 THEN 2 ELSE Capacity

\* The memory store holds finitely many entries, of any set of keys.
FewHeld == InMemory => IsFiniteSet(Held) /\ Cardinality(Held) <= Bound

\* What a step of q that leaves it with this job may do to the locks: those of others stay or go, and
\* its own too, of which it keeps no live one when it is no longer at work.
KeepsOwned(q, job) ==
  \A k \in Key :
    \/ entries'[Lock(k)] = None
    \/ /\ entries'[Lock(k)] = entries[Lock(k)]
       /\ entries[Lock(k)].value = q /\ Live(Lock(k)) =>
            job.key = k /\ job.pc \in {"recheck", "run", "store", "release"}
    \/ /\ entries'[Lock(k)].value = q
       /\ job.key = k /\ job.pc \in {"recheck", "run", "store", "release"}

LEMMA OwnedStep ==
  ASSUME ProtectionInv, LocksOwned, NEW q \in Request, UNCHANGED now,
         NEW job, req' = [req EXCEPT ![q] = job], KeepsOwned(q, job)
  PROVE  LocksOwned'
<1>1. req'[q] = job /\ \A u \in Request \ {q} : req'[u] = req[u]
  BY DEF ProtectionInv, TypeOK
<1> SUFFICES ASSUME NEW k \in Key, entries'[Lock(k)] # None
             PROVE  /\ entries'[Lock(k)].value \in Request
                    /\ Live(Lock(k))' =>
                         LET u == entries'[Lock(k)].value IN
                         req'[u].key = k /\ req'[u].pc \in {"recheck", "run", "store", "release"}
  BY DEF LocksOwned, Live
<1>2. CASE entries'[Lock(k)] = entries[Lock(k)] /\ entries[Lock(k)].value # q
  BY <1>1, <1>2 DEF LocksOwned, Live
<1>3. CASE /\ entries'[Lock(k)] = entries[Lock(k)] /\ entries[Lock(k)].value = q
           /\ Live(Lock(k)) => job.key = k /\ job.pc \in {"recheck", "run", "store", "release"}
  BY <1>1, <1>3 DEF LocksOwned, Live
<1>4. CASE /\ entries'[Lock(k)].value = q
           /\ job.key = k /\ job.pc \in {"recheck", "run", "store", "release"}
  BY <1>1, <1>4
<1> QED
  BY <1>2, <1>3, <1>4 DEF KeepsOwned

\* A step that only moves q, and removes locks at most, is no loss of one.
LEMMA OwnedGo ==
  ASSUME ProtectionInv, LocksOwned, NEW q \in Request, UNCHANGED now, NEW pc, NEW answer, Go(q, pc, answer),
         \A k \in Key : entries'[Lock(k)] \in {None, entries[Lock(k)]},
         req[q].pc \in {"new", "lookup", "acquire"} \/ pc \in {"recheck", "run", "store", "release"}
  PROVE  LocksOwned'
<1>1. PICK job : job = JobAt(q, pc, answer)
  OBVIOUS
<1>2. req' = [req EXCEPT ![q] = job]
  BY <1>1, GoSets
<1>3. req[q] \in Job /\ job.pc = pc /\ job.key = req[q].key
  BY <1>1 DEF ProtectionInv, TypeOK, Job, JobAt
<1>4. ASSUME NEW k \in Key, Live(Lock(k)), entries[Lock(k)].value = q
      PROVE  job.key = k /\ job.pc \in {"recheck", "run", "store", "release"}
  BY <1>3, <1>4 DEF LocksOwned
<1>5. KeepsOwned(q, job)
  BY <1>4 DEF KeepsOwned
<1> QED
  BY <1>2, <1>5, OwnedStep

\* A lookup leaves the locks alone.
LEMMA LookKeepsLocks ==
  ASSUME ProtectionInv, NEW q \in Request, req[q].key \in Key, NEW hit, NEW miss, Look(q, hit, miss)
  PROVE  /\ \A k \in Key : entries'[Lock(k)] = entries[Lock(k)]
         /\ \E pc \in {hit, miss} : \E answer : Go(q, pc, answer)
<1>1. entries \in [Slot -> Entry \cup {None}]
  BY DEF ProtectionInv, TypeOK
<1>2. \/ entries' = entries
      \/ entries' = [entries EXCEPT ![Result(req[q].key)] = None]
  BY DEF Look, Result
<1>3. \A k \in Key : entries'[Lock(k)] = entries[Lock(k)]
  BY <1>1, <1>2, SlotNames
<1>4. \E pc \in {hit, miss} : \E answer : Go(q, pc, answer)
  <2>1. CASE Go(q, hit, "unavailable")
    BY <2>1
  <2>2. CASE Replay(q, hit)
    BY <2>2 DEF Replay
  <2>3. CASE Go(q, miss, None)
    BY <2>3
  <2> QED
    BY <2>1, <2>2, <2>3 DEF Look
<1> QED
  BY <1>3, <1>4

LEMMA OwnedAcquire ==
  ASSUME IdempotencyConstants, ReleasesKept, ProtectionInv, LocksOwned, NEW q \in Request, Acquire(q)
  PROVE  LocksOwned'
<1>1. PICK k : k = req[q].key
  OBVIOUS
<1>2. /\ req[q].pc = "acquire" /\ k \in Key /\ UNCHANGED <<now, runs>> /\ TypeOK
      /\ req[q] \in Job /\ Lock(k) \in Slot
  BY <1>1, SlotNames DEF Acquire, ProtectionInv, Arrived, TypeOK, Job
<1>3. CASE UNCHANGED entries /\ \E answer : Go(q, "done", answer)
  BY <1>2, <1>3, OwnedGo
<1>4. ASSUME req' = [req EXCEPT ![q].pc = "recheck", ![q].locked = now], entries'[Lock(k)].value = q,
             \A j \in Key \ {k} : entries'[Lock(j)] \in {None, entries[Lock(j)]}
      PROVE  LocksOwned'
  <2>1. PICK job : job = [req[q] EXCEPT !.pc = "recheck", !.locked = now]
    OBVIOUS
  <2>2. req' = [req EXCEPT ![q] = job]
    BY <1>4, <2>1
  <2>3. job.pc = "recheck" /\ job.key = k
    BY <1>1, <1>2, <2>1 DEF Job
  <2>4. \A j \in Key : ~(Live(Lock(j)) /\ entries[Lock(j)].value = q)
    BY <1>2 DEF LocksOwned
  <2>5. KeepsOwned(q, job)
    BY <1>4, <2>3, <2>4 DEF KeepsOwned
  <2> QED
    BY <1>2, <2>2, <2>5, OwnedStep
<1>5. CASE /\ Put(Lock(k), q, LockTimeout)
           /\ req' = [req EXCEPT ![q].pc = "recheck", ![q].locked = now]
  <2>1. Evicts(Lock(k)) /\ entries'[Lock(k)] = [value |-> q, expires |-> now + LockTimeout]
    BY <1>2, <1>5, PutWrites DEF IdempotencyConstants
  <2>2. \A j \in Key \ {k} : entries'[Lock(j)] \in {None, entries[Lock(j)]}
    BY <1>2, <2>1, SlotNames DEF Evicts
  <2> QED
    BY <1>4, <1>5, <2>1, <2>2
<1>6. CASE \E kept \in SUBSET Held :
             /\ entries' = [t \in Slot |-> IF t = Lock(k) /\ Lock(k) \notin kept
                                           THEN [value |-> q, expires |-> now + LockTimeout]
                                           ELSE IF t \in kept THEN entries[t] ELSE None]
             /\ IF Lock(k) \in kept THEN Go(q, "done", "busy")
                ELSE req' = [req EXCEPT ![q].pc = "recheck", ![q].locked = now]
  <2>1. PICK kept \in SUBSET Held :
             /\ entries' = [t \in Slot |-> IF t = Lock(k) /\ Lock(k) \notin kept
                                           THEN [value |-> q, expires |-> now + LockTimeout]
                                           ELSE IF t \in kept THEN entries[t] ELSE None]
             /\ IF Lock(k) \in kept THEN Go(q, "done", "busy")
                ELSE req' = [req EXCEPT ![q].pc = "recheck", ![q].locked = now]
    BY <1>6
  <2>2. \A j \in Key : Lock(j) \in Slot /\ (j # k => Lock(j) # Lock(k))
    BY <1>2, SlotNames
  <2>3. \A j \in Key \ {k} : entries'[Lock(j)] \in {None, entries[Lock(j)]}
    BY <2>1, <2>2
  <2>4. CASE Lock(k) \in kept
    <3>1. entries'[Lock(k)] = entries[Lock(k)]
      BY <1>2, <2>1, <2>4
    <3>2. \A j \in Key : entries'[Lock(j)] \in {None, entries[Lock(j)]}
      BY <2>3, <3>1
    <3> QED
      BY <1>2, <2>1, <2>4, <3>2, OwnedGo
  <2>5. CASE Lock(k) \notin kept
    <3>1. entries'[Lock(k)] = [value |-> q, expires |-> now + LockTimeout]
      BY <1>2, <2>1, <2>5
    <3> QED
      BY <1>4, <2>1, <2>3, <2>5, <3>1
  <2> QED
    BY <2>4, <2>5
<1>7. StoreFails => InMemory
  BY DEF StoreFails, ReleasesKept
<1> QED
  BY <1>1, <1>3, <1>5, <1>6, <1>7 DEF Acquire, Lock

LEMMA OwnedStore ==
  ASSUME IdempotencyConstants, ProtectionInv, LocksOwned, NEW q \in Request, Store(q)
  PROVE  LocksOwned'
<1>1. PICK k, b, job : k = req[q].key /\ b = req[q].body /\ job = [req[q] EXCEPT !.pc = "release"]
  OBVIOUS
<1>2. /\ req[q].pc = "store" /\ k \in Key /\ b \in Body /\ TypeOK /\ UNCHANGED now
      /\ req[q] \in Job /\ req' = [req EXCEPT ![q] = job]
  BY <1>1 DEF Store, ProtectionInv, Arrived, TypeOK, Job
<1>3. job.pc = "release" /\ job.key = k
  BY <1>1, <1>2 DEF Job
<1>4. \A j \in Key : entries'[Lock(j)] \in {None, entries[Lock(j)]}
  <2>1. CASE Put(Result(k), [body |-> b, by |-> q], Expiration)
    <3>1. Evicts(Result(k))
      BY <1>2, <2>1, SlotNames, PutWrites DEF IdempotencyConstants
    <3> QED
      BY <1>2, <3>1, SlotNames DEF Evicts
  <2>2. CASE UNCHANGED entries
    BY <2>2
  <2> QED
    BY <1>1, <2>1, <2>2 DEF Store, Result
<1>5. \A j \in Key : Live(Lock(j)) /\ entries[Lock(j)].value = q => job.key = j
  BY <1>1, <1>3 DEF LocksOwned
<1>6. KeepsOwned(q, job)
  BY <1>3, <1>4, <1>5 DEF KeepsOwned
<1> QED
  BY <1>2, <1>6, OwnedStep

LEMMA OwnedRelease ==
  ASSUME ReleasesKept, ProtectionInv, LocksOwned, NEW q \in Request, Release(q)
  PROVE  LocksOwned'
<1>1. PICK k, job : k = req[q].key /\ job = [req[q] EXCEPT !.pc = "done"]
  OBVIOUS
<1>2. /\ k \in Key /\ TypeOK /\ UNCHANGED now /\ req' = [req EXCEPT ![q] = job] /\ Lock(k) \in Slot
  BY <1>1, SlotNames DEF Release, ProtectionInv, Arrived
<1>3. DeleteIfValue(Lock(k), q)
  BY <1>1 DEF Release, StoreFails, ReleasesKept, Lock
<1>4. \A j \in Key \ {k} : /\ entries'[Lock(j)] = entries[Lock(j)]
                          /\ ~(Live(Lock(j)) /\ entries[Lock(j)].value = q)
  BY <1>1, <1>2, <1>3, SlotNames DEF DeleteIfValue, LocksOwned, TypeOK
<1>5. \/ entries'[Lock(k)] = None
      \/ entries'[Lock(k)] = entries[Lock(k)] /\ entries[Lock(k)].value # q
  BY <1>2, <1>3 DEF DeleteIfValue, TypeOK
<1>6. KeepsOwned(q, job)
  BY <1>4, <1>5 DEF KeepsOwned
<1> QED
  BY <1>2, <1>6, OwnedStep

LEMMA OwnedNext ==
  IdempotencyConstants /\ ReleasesKept /\ ProtectionInv /\ LocksOwned /\ [Next]_vars => LocksOwned'
<1> SUFFICES ASSUME IdempotencyConstants, ReleasesKept, ProtectionInv, LocksOwned, [Next]_vars
             PROVE  LocksOwned'
  OBVIOUS
<1>1. ASSUME NEW q \in Request, NEW k \in Key, NEW b \in Body, Arrive(q, k, b) PROVE LocksOwned'
  <2>1. PICK job : job = [req[q] EXCEPT !.pc = "lookup", !.key = k, !.body = b]
    OBVIOUS
  <2>2. req' = [req EXCEPT ![q] = job] /\ UNCHANGED <<now, entries>> /\ req[q].pc = "new"
    BY <1>1, <2>1 DEF Arrive
  <2>3. \A j \in Key : ~(Live(Lock(j)) /\ entries[Lock(j)].value = q)
    BY <2>2 DEF LocksOwned
  <2> QED
    BY <2>2, <2>3, OwnedStep DEF KeepsOwned
<1>2. ASSUME NEW q \in Request, Lookup(q) PROVE LocksOwned'
  <2>1. req[q].pc = "lookup" /\ UNCHANGED now /\ req[q].key \in Key /\ Look(q, "done", "acquire")
    BY <1>2 DEF Lookup, ProtectionInv, Arrived
  <2> QED
    BY <2>1, LookKeepsLocks, OwnedGo
<1>3. ASSUME NEW q \in Request, Recheck(q) PROVE LocksOwned'
  <2>1. UNCHANGED now /\ req[q].key \in Key /\ Look(q, "release", "run")
    BY <1>3 DEF Recheck, ProtectionInv, Arrived
  <2> QED
    BY <2>1, LookKeepsLocks, OwnedGo
<1>4. ASSUME NEW q \in Request, Finish(q) PROVE LocksOwned'
  BY <1>4, OwnedGo DEF Finish, EndRun
<1>5. CASE Crash
  <2>1. entries' = [s \in Slot |-> None]
    BY <1>5 DEF Crash, ReleasesKept
  <2>2. \A k \in Key : entries'[Lock(k)] = None
    BY <2>1, SlotNames
  <2> QED
    BY <2>2 DEF LocksOwned, Live
<1>6. CASE Tick
  <2>1. now' = now + 1 /\ now \in Nat /\ UNCHANGED <<entries, req>>
    BY <1>6 DEF Tick, ProtectionInv, TypeOK, IdempotencyConstants
  <2>2. \A k \in Key : Live(Lock(k))' => Live(Lock(k))
    <3> SUFFICES ASSUME NEW k \in Key, Live(Lock(k))' PROVE Live(Lock(k))
      OBVIOUS
    <3>1. entries[Lock(k)] # None /\ entries[Lock(k)].expires \in Nat
      BY <2>1, SlotNames DEF ProtectionInv, TypeOK, Entry, Live
    <3> QED
      BY <2>1, <3>1 DEF Live
  <2> QED
    BY <2>1, <2>2 DEF LocksOwned
<1>7. CASE UNCHANGED vars
  BY <1>7 DEF vars, LocksOwned, Live
<1> QED
  BY <1>1, <1>2, <1>3, <1>4, <1>5, <1>6, <1>7, OwnedAcquire, OwnedStore, OwnedRelease DEF Next, Step

\* Without lost releases every lock is released, whatever way its command ends.
LEMMA LocksReleased ==
  ASSUME IdempotencyConstants, ReleasesKept
  PROVE  Spec => []NoOrphanLock
<1>1. Init => ProtectionInv /\ LocksOwned
  BY ProtectionInit, SlotNames DEF Init, LocksOwned, Live
<1>2. ProtectionInv /\ LocksOwned /\ [Next]_vars => (ProtectionInv /\ LocksOwned)'
  BY ProtectionStep, OwnedNext
<1>3. LocksOwned => NoOrphanLock
  BY DEF LocksOwned, NoOrphanLock, Busy, Lock
<1> QED
  BY <1>1, <1>2, <1>3, PTL DEF Spec

\* Fewer entries stay within the bound.
LEMMA FewerHeld ==
  ASSUME Capacity \in Nat, FewHeld, Held' \subseteq Held
  PROVE  FewHeld'
BY FS_Subset, FS_CardinalityType DEF FewHeld, Bound

\* The eviction leaves room for one entry.
LEMMA EvictionMakesRoom ==
  ASSUME Capacity \in Nat, IsFiniteSet(Held), NEW kept, EvictLocked(kept)
  PROVE  IsFiniteSet(kept) /\ Cardinality(kept) + 1 <= Bound
<1>1. PICK rest \in SUBSET Held :
        /\ kept \subseteq rest
        /\ Cardinality(kept) = Cardinality(rest) -
             (IF Cardinality(rest) >= Capacity /\ Cardinality(rest) > 1
              THEN Cardinality(rest) - (IF Capacity > 1 THEN Capacity - 1 ELSE 1) ELSE 0)
  BY DEF EvictLocked
<1>2. IsFiniteSet(rest) /\ IsFiniteSet(kept)
  BY <1>1, FS_Subset
<1>3. Cardinality(rest) \in Nat
  BY <1>2, FS_CardinalityType
<1> QED
  BY <1>1, <1>2, <1>3 DEF Bound

\* One more entry than the eviction left stays within the bound.
LEMMA RoomForOne ==
  ASSUME Capacity \in Nat, FewHeld, InMemory, NEW kept \in SUBSET Held, NEW s,
         EvictLocked(kept) \/ (Held = {} /\ kept = {}), Held' \subseteq kept \cup {s}
  PROVE  FewHeld'
<1>1. IsFiniteSet(kept) /\ Cardinality(kept) + 1 <= Bound
  BY EvictionMakesRoom, FS_EmptySet DEF FewHeld, Bound
<1>2. Cardinality(kept) \in Nat /\ Bound \in Nat
  BY <1>1, FS_CardinalityType DEF Bound
<1>3. IsFiniteSet(kept \cup {s}) /\ Cardinality(kept \cup {s}) <= Cardinality(kept) + 1
  <2>1. /\ IsFiniteSet(kept \cup {s})
        /\ Cardinality(kept \cup {s}) \in {Cardinality(kept), Cardinality(kept) + 1}
    BY <1>1, FS_AddElement, Zenon
  <2> QED
    BY <1>2, <2>1
<1>4. IsFiniteSet(Held') /\ Cardinality(Held') <= Cardinality(kept \cup {s})
  BY <1>3, FS_Subset
<1>5. Cardinality(Held') \in Nat /\ Cardinality(kept \cup {s}) \in Nat
  BY <1>3, <1>4, FS_CardinalityType
<1>6. Cardinality(Held') <= Bound
  BY <1>1, <1>2, <1>3, <1>4, <1>5
<1> QED
  BY <1>4, <1>6 DEF FewHeld, Bound

LEMMA PutFits ==
  ASSUME Capacity \in Nat, FewHeld, NEW s, NEW v, NEW lifetime, Put(s, v, lifetime)
  PROVE  FewHeld'
<1>1. PICK kept \in SUBSET Held :
        /\ IF InMemory /\ Held # {} THEN EvictLocked(kept) ELSE kept = Held
        /\ entries' = [t \in Slot |-> IF t = s THEN [value |-> v, expires |-> now + lifetime]
                                      ELSE IF t \in kept THEN entries[t] ELSE None]
  BY DEF Put
<1>2. Held' \subseteq kept \cup {s}
  BY <1>1 DEF Held
<1> QED
  BY <1>1, <1>2, RoomForOne DEF FewHeld

LEMMA FewHeldNext ==
  IdempotencyConstants /\ TypeOK /\ FewHeld /\ [Next]_vars => FewHeld'
<1> SUFFICES ASSUME IdempotencyConstants, TypeOK, FewHeld, [Next]_vars PROVE FewHeld'
  OBVIOUS
<1>1. Capacity \in Nat
  BY DEF IdempotencyConstants
<1>2. CASE UNCHANGED entries
  BY <1>1, <1>2, FewerHeld DEF Held
<1>3. ASSUME NEW q \in Request, NEW hit, NEW miss, Look(q, hit, miss) PROVE FewHeld'
  <2>1. Held' \subseteq Held
    BY <1>3 DEF Look, Held, TypeOK
  <2> QED
    BY <1>1, <2>1, FewerHeld
<1>4. ASSUME NEW q \in Request, Acquire(q) PROVE FewHeld'
  <2> DEFINE mine == <<req[q].key, "lock">>
  <2>1. CASE Put(mine, q, LockTimeout)
    BY <1>1, <2>1, PutFits
  <2>2. CASE \E kept \in SUBSET Held :
               /\ InMemory /\ EvictLocked(kept)
               /\ entries' = [t \in Slot |-> IF t = mine /\ mine \notin kept
                                             THEN [value |-> q, expires |-> now + LockTimeout]
                                             ELSE IF t \in kept THEN entries[t] ELSE None]
    <3>1. PICK kept \in SUBSET Held :
               /\ InMemory /\ EvictLocked(kept)
               /\ entries' = [t \in Slot |-> IF t = mine /\ mine \notin kept
                                             THEN [value |-> q, expires |-> now + LockTimeout]
                                             ELSE IF t \in kept THEN entries[t] ELSE None]
      BY <2>2
    <3>2. Held' \subseteq kept \cup {mine}
      BY <3>1 DEF Held
    <3> QED
      BY <1>1, <3>1, <3>2, RoomForOne
  <2> QED
    BY <1>2, <1>4, <2>1, <2>2 DEF Acquire
<1>5. ASSUME NEW q \in Request, Store(q) PROVE FewHeld'
  BY <1>1, <1>2, <1>5, PutFits DEF Store
<1>6. ASSUME NEW q \in Request, Release(q) PROVE FewHeld'
  <2>1. Held' \subseteq Held
    BY <1>6 DEF Release, DeleteIfValue, Held, TypeOK
  <2> QED
    BY <1>1, <2>1, FewerHeld
<1>7. CASE Crash
  <2>1. Held' \subseteq Held
    BY <1>7 DEF Crash, Held, TypeOK
  <2> QED
    BY <1>1, <2>1, FewerHeld
<1>8. ASSUME NEW q \in Request, Step(q) PROVE FewHeld'
  BY <1>2, <1>3, <1>4, <1>5, <1>6, <1>8 DEF Step, Lookup, Recheck, Finish, EndRun
<1> QED
  BY <1>2, <1>7, <1>8 DEF Next, Arrive, Tick, vars

\* The middleware, for every number of requests, keys and bodies, any lifetimes and any capacity:
\* a live lock is that of a request at work unless a release was lost, and the memory store never
\* grows beyond its capacity although SetNX and Set evict before they know what they write.
THEOREM LocksBoundedAlways ==
  ASSUME IdempotencyConstants
  PROVE  Spec => []LocksAndStoreBounded
<1>1. Spec => [](ReleasesKept => NoOrphanLock)
  <2>1. CASE ReleasesKept
    BY <2>1, LocksReleased, PTL
  <2>2. CASE ~ReleasesKept
    BY <2>2, PTL
  <2> QED
    BY <2>1, <2>2
<1>2. Spec => [](TypeOK /\ FewHeld)
  <2>1. Init => TypeOK /\ FewHeld
    <3>1. Init => Held = {}
      BY DEF Init, Held
    <3> QED
      BY <3>1, ProtectionInit, FS_EmptySet DEF ProtectionInv, FewHeld, Bound, IdempotencyConstants
  <2>2. ProtectionInv /\ FewHeld /\ [Next]_vars => (ProtectionInv /\ FewHeld)'
    BY ProtectionStep, FewHeldNext DEF ProtectionInv
  <2>3. Init => ProtectionInv
    BY ProtectionInit
  <2>4. ProtectionInv => TypeOK
    BY DEF ProtectionInv
  <2> QED
    BY <2>1, <2>2, <2>3, <2>4, PTL DEF Spec
<1>3. FewHeld => StoreBounded
  BY DEF FewHeld, StoreBounded, Bound
<1> QED
  BY <1>1, <1>2, <1>3, PTL DEF LocksAndStoreBounded

----------------------------------------------------------------------------
(* Request protection implements AtMostOnce *)

\* The phases are those of Running and of the response that is kept.
LEMMA SamePhases ==
  ASSUME \A k \in Key : (Running(k)' <=> Running(k)) /\ (Live(Result(k))' <=> Live(Result(k)))
  PROVE  UNCHANGED PhaseOf
BY DEF PhaseOf, Result

\* A step of one request moves the phase of its key only.
LEMMA OnePhase ==
  ASSUME NEW k \in Key,
         \A j \in Key \ {k} : (Running(j)' <=> Running(j)) /\ (Live(Result(j))' <=> Live(Result(j)))
  PROVE  PhaseOf' = [PhaseOf EXCEPT ![k] = PhaseOf'[k]]
<1>1. \A j \in Key \ {k} : PhaseOf'[j] = PhaseOf[j]
  BY DEF PhaseOf, Result
<1>2. PhaseOf' = [j \in Key |-> PhaseOf'[j]] /\ PhaseOf = [j \in Key |-> PhaseOf[j]]
  BY DEF PhaseOf
<1> QED
  BY <1>1, <1>2

LEMMA RunningElsewhere ==
  ASSUME NEW q \in Request, req \in [Request -> Job], NEW job, job.key = req[q].key,
         req' = [req EXCEPT ![q] = job]
  PROVE  \A k \in Key \ {job.key} : Running(k)' <=> Running(k)
<1>1. req'[q] = job /\ \A u \in Request \ {q} : req'[u] = req[u]
  OBVIOUS
<1> QED
  BY <1>1 DEF Running

LEMMA RunningSame ==
  ASSUME NEW q \in Request, req \in [Request -> Job], NEW job, req' = [req EXCEPT ![q] = job],
         \/ job.pc \notin {"run", "store"} /\ req[q].pc \notin {"run", "store"}
         \/ job.key = req[q].key /\ job.pc \in {"run", "store"} /\ req[q].pc \in {"run", "store"}
  PROVE  \A k \in Key : Running(k)' <=> Running(k)
<1>1. req'[q] = job /\ \A u \in Request \ {q} : req'[u] = req[u]
  OBVIOUS
<1> QED
  BY <1>1 DEF Running

\* The request that runs the command of a key is the only one that does.
LEMMA RunsAlone ==
  ASSUME ProtectionInv, lapsed = {}, NEW q \in Request, Busy(q), NEW k, k = req[q].key,
         NEW job, job.pc \notin {"run", "store"}, req' = [req EXCEPT ![q] = job]
  PROVE  ~Running(k)'
<1>1. req \in [Request -> Job]
  BY DEF ProtectionInv, TypeOK, Job
<1>2. SUFFICES ASSUME NEW u \in Request, req'[u].key = k, req'[u].pc \in {"run", "store"} PROVE FALSE
  BY DEF Running
<1>3. u # q /\ req'[u] = req[u]
  BY <1>1, <1>2
<1> QED
  BY <1>2, <1>3, OneAtWork DEF Busy

\* Without faults a write of the store touches its slot only.
LEMMA CalmPut ==
  ASSUME NoFaults, TypeOK, NEW s \in Slot, NEW v, NEW lifetime, Put(s, v, lifetime)
  PROVE  UNCHANGED lapsed /\ \A t \in Slot \ {s} : entries'[t] = entries[t]
<1>1. PICK kept : /\ kept = Held
                  /\ entries' = [t \in Slot |-> IF t = s THEN [value |-> v, expires |-> now + lifetime]
                                                ELSE IF t \in kept THEN entries[t] ELSE None]
                  /\ lapsed' = lapsed \cup {t[1] : t \in {u \in Held \ kept : Live(u)}}
  BY DEF Put, NoFaults
<1>2. {u \in Held \ kept : Live(u)} = {}
  BY <1>1
<1>3. UNCHANGED lapsed
  BY <1>1, <1>2
<1>4. PICK new : new = [value |-> v, expires |-> now + lifetime]
  OBVIOUS
<1>5. entries' = [t \in Slot |-> IF t = s THEN new ELSE IF t \in kept THEN entries[t] ELSE None]
  BY <1>1, <1>4
<1>6. \A t \in Slot \ {s} : entries'[t] = entries[t]
  BY <1>1, <1>5 DEF Held
<1> QED
  BY <1>3, <1>6

\* Steps before a command starts and after its response is stored: the phases stay.
LEMMA QuietPhases ==
  ASSUME NoFaults, ProtectionInv, NEW q \in Request,
         \/ \E k \in Key, b \in Body : Arrive(q, k, b)
         \/ Lookup(q) \/ Acquire(q) \/ Release(q)
  PROVE  UNCHANGED PhaseOf /\ UNCHANGED lapsed
<1>1. TypeOK /\ req \in [Request -> Job] /\ req[q].pc \in {"new", "lookup", "acquire", "release"}
  BY DEF ProtectionInv, TypeOK, Job, Arrive, Lookup, Acquire, Release
<1>2. /\ UNCHANGED <<now, lapsed>>
      /\ \A k \in Key : entries'[Result(k)] = entries[Result(k)]
  <2>1. CASE \E k \in Key, b \in Body : Arrive(q, k, b)
    BY <2>1 DEF Arrive
  <2>2. CASE Lookup(q)
    BY <2>2 DEF Lookup, Look, NoFaults
  <2>3. CASE Acquire(q)
    <3>1. PICK k : k = req[q].key
      OBVIOUS
    <3>2. k \in Key /\ UNCHANGED now
      BY <2>3, <3>1 DEF Acquire, ProtectionInv, Arrived
    <3>3. Lock(k) \in Slot /\ \A j \in Key : Result(j) \in Slot \ {Lock(k)}
      BY <3>2, SlotNames
    <3>4. \/ Put(Lock(k), q, LockTimeout)
          \/ UNCHANGED <<entries, lapsed>>
      BY <2>3, <3>1 DEF Acquire, Lock, NoFaults
    <3> QED
      BY <1>1, <3>2, <3>3, <3>4, CalmPut
  <2>4. CASE Release(q)
    <3>1. PICK k : k = req[q].key
      OBVIOUS
    <3>2. /\ k \in Key /\ UNCHANGED <<now, lapsed>>
          /\ entries' = entries \/ entries' = [entries EXCEPT ![Lock(k)] = None]
      BY <2>4, <3>1 DEF Release, ProtectionInv, Arrived, DeleteIfValue, Lock
    <3>3. \A j \in Key : Result(j) \in Slot /\ Result(j) # Lock(k)
      BY <3>2, SlotNames
    <3> QED
      BY <1>1, <3>2, <3>3 DEF TypeOK
  <2> QED
    BY <2>1, <2>2, <2>3, <2>4
<1>3. PICK job : req' = [req EXCEPT ![q] = job] /\ job.pc \in {"lookup", "acquire", "recheck", "done"}
  <2>1. \/ \E k, b : req' = [req EXCEPT ![q].pc = "lookup", ![q].key = k, ![q].body = b]
        \/ \E answer : Go(q, "acquire", answer) \/ Go(q, "done", answer)
        \/ req' = [req EXCEPT ![q].pc = "recheck", ![q].locked = now]
        \/ req' = [req EXCEPT ![q].pc = "done"]
    BY Zenon DEF Arrive, Lookup, Look, Replay, Acquire, Release
  <2>2. req[q] \in Job
    BY <1>1
  <2>3. ASSUME NEW k, NEW b, req' = [req EXCEPT ![q].pc = "lookup", ![q].key = k, ![q].body = b]
        PROVE  \E job : req' = [req EXCEPT ![q] = job] /\ job.pc = "lookup"
    <3>1. PICK job : job = [req[q] EXCEPT !.pc = "lookup", !.key = k, !.body = b]
      OBVIOUS
    <3>2. req' = [req EXCEPT ![q] = job]
      BY <1>1, <2>3, <3>1
    <3>3. job.pc = "lookup"
      BY <2>2, <3>1 DEF Job
    <3> QED
      BY <3>2, <3>3
  <2>4. ASSUME NEW answer, NEW pc, Go(q, pc, answer)
        PROVE  \E job : req' = [req EXCEPT ![q] = job] /\ job.pc = pc
    <3>1. PICK job : job = JobAt(q, pc, answer)
      OBVIOUS
    <3>2. req' = [req EXCEPT ![q] = job]
      BY <2>4, <3>1, GoSets
    <3>3. job.pc = pc
      BY <2>2, <3>1 DEF JobAt, Job
    <3> QED
      BY <3>2, <3>3
  <2>5. ASSUME req' = [req EXCEPT ![q].pc = "recheck", ![q].locked = now]
        PROVE  \E job : req' = [req EXCEPT ![q] = job] /\ job.pc = "recheck"
    <3>1. PICK job : job = [req[q] EXCEPT !.pc = "recheck", !.locked = now]
      OBVIOUS
    <3>2. req' = [req EXCEPT ![q] = job]
      BY <1>1, <2>5, <3>1
    <3>3. job.pc = "recheck"
      BY <2>2, <3>1 DEF Job
    <3> QED
      BY <3>2, <3>3
  <2>6. ASSUME req' = [req EXCEPT ![q].pc = "done"]
        PROVE  \E job : req' = [req EXCEPT ![q] = job] /\ job.pc = "done"
    <3>1. PICK job : job = [req[q] EXCEPT !.pc = "done"]
      OBVIOUS
    <3>2. req' = [req EXCEPT ![q] = job]
      BY <1>1, <2>6, <3>1
    <3>3. job.pc = "done"
      BY <2>2, <3>1 DEF Job
    <3> QED
      BY <3>2, <3>3
  <2> QED
    BY <2>1, <2>3, <2>4, <2>5, <2>6, Zenon
<1>4. \A k \in Key : Running(k)' <=> Running(k)
  BY <1>1, <1>3, RunningSame
<1>5. \A k \in Key : Live(Result(k))' <=> Live(Result(k))
  BY <1>2 DEF Live
<1> QED
  BY <1>2, <1>4, <1>5, SamePhases

\* The second lookup: a hit leaves the phases, a miss begins a run of an idle key.
LEMMA RecheckPhases ==
  ASSUME NoFaults, ProtectionInv, lapsed = {}, NEW q \in Request, Recheck(q)
  PROVE  (UNCHANGED PhaseOf \/ \E k \in Key : Promise!Begin(k)) /\ UNCHANGED lapsed
<1>1. PICK k : k = req[q].key
  OBVIOUS
<1>2. /\ req \in [Request -> Job] /\ req[q] \in Job /\ req[q].pc = "recheck" /\ k \in Key
      /\ UNCHANGED <<now, lapsed, entries>>
  BY <1>1 DEF ProtectionInv, TypeOK, Job, Arrived, Recheck, Look, NoFaults
<1>3. \A j \in Key : Live(Result(j))' <=> Live(Result(j))
  BY <1>2 DEF Live
<1>4. ASSUME NEW pc, NEW answer, Go(q, pc, answer)
      PROVE  \E job : req' = [req EXCEPT ![q] = job] /\ job.pc = pc /\ job.key = k
  <2>1. PICK job : job = JobAt(q, pc, answer)
    OBVIOUS
  <2>2. req' = [req EXCEPT ![q] = job]
    BY <1>4, <2>1, GoSets
  <2>3. job.pc = pc /\ job.key = k
    BY <1>1, <1>2, <2>1 DEF JobAt, Job
  <2> QED
    BY <2>2, <2>3
<1>5. CASE \E answer : Go(q, "release", answer)
  <2>1. PICK job : req' = [req EXCEPT ![q] = job] /\ job.pc = "release"
    BY <1>4, <1>5
  <2>2. \A j \in Key : Running(j)' <=> Running(j)
    BY <1>2, <2>1, RunningSame
  <2> QED
    BY <1>2, <1>3, <2>2, SamePhases
<1>6. CASE Go(q, "run", None) /\ ~Live(Result(k))
  <2>1. PICK job : req' = [req EXCEPT ![q] = job] /\ job.pc = "run" /\ job.key = k
    BY <1>4, <1>6
  <2>2. PhaseOf' = [PhaseOf EXCEPT ![k] = PhaseOf'[k]]
    BY <1>1, <1>2, <1>3, <2>1, RunningElsewhere, OnePhase
  <2>3. ~Running(k)
    <3> SUFFICES ASSUME NEW u \in Request, req[u].key = k, req[u].pc \in {"run", "store"} PROVE FALSE
      BY DEF Running
    <3> QED
      BY <1>1, <1>2, OneAtWork DEF Busy
  <2>4. Running(k)'
    <3>1. req'[q] = job
      BY <1>2, <2>1
    <3> QED
      BY <2>1, <3>1 DEF Running
  <2>5. PhaseOf[k] = "idle" /\ PhaseOf'[k] = "running"
    BY <1>2, <1>6, <2>3, <2>4 DEF PhaseOf, Result
  <2>6. Promise!Begin(k)
    BY <2>2, <2>5 DEF Promise!Begin
  <2> QED
    BY <1>2, <2>6
<1> QED
  BY <1>1, <1>5, <1>6 DEF Recheck, Look, Replay, Result

\* A run ends when it fails or its response is stored; until then its key is running.
LEMMA EndPhases ==
  ASSUME NoFaults, ProtectionInv, lapsed = {}, NEW q \in Request, Finish(q) \/ Store(q)
  PROVE  (UNCHANGED PhaseOf \/ \E k \in Key : Promise!End(k)) /\ UNCHANGED lapsed
<1>1. PICK k : k = req[q].key
  OBVIOUS
<1>2. /\ TypeOK /\ req \in [Request -> Job] /\ req[q] \in Job /\ req[q].pc \in {"run", "store"} /\ k \in Key
      /\ UNCHANGED now
  BY <1>1 DEF ProtectionInv, TypeOK, Job, Arrived, Finish, EndRun, Store
<1>3. Result(k) \in Slot /\ \A j \in Key \ {k} : Result(j) \in Slot \ {Result(k)}
  BY <1>2, SlotNames
<1>4. UNCHANGED lapsed /\ \A j \in Key \ {k} : entries'[Result(j)] = entries[Result(j)]
  <2>1. CASE Finish(q)
    BY <2>1 DEF Finish, EndRun, NoFaults
  <2>2. CASE Store(q)
    <3>1. \E v : Put(Result(k), v, Expiration)
      BY <1>1, <2>2 DEF Store, NoFaults, StoreFails, Result
    <3> QED
      BY <1>2, <1>3, <3>1, CalmPut
  <2> QED
    BY <2>1, <2>2
<1>5. \A j \in Key \ {k} : Live(Result(j))' <=> Live(Result(j))
  BY <1>2, <1>4 DEF Live
<1>6. PICK job : /\ req' = [req EXCEPT ![q] = job] /\ job.key = k
                 /\ \/ job.pc = "store" /\ UNCHANGED entries
                    \/ job.pc = "release"
  <2>1. CASE Finish(q)
    <3>1. PICK next \in {"store", "release"} : Go(q, next, "ran") /\ UNCHANGED entries
      BY <2>1, Zenon DEF Finish, EndRun
    <3>2. PICK job : job = JobAt(q, next, "ran")
      OBVIOUS
    <3>3. req' = [req EXCEPT ![q] = job]
      BY <3>1, <3>2, GoSets
    <3>4. job.pc = next /\ job.key = k
      BY <1>1, <1>2, <3>2 DEF JobAt, Job
    <3> QED
      BY <3>1, <3>3, <3>4
  <2>2. CASE Store(q)
    <3>1. PICK job : job = [req[q] EXCEPT !.pc = "release"]
      OBVIOUS
    <3>2. req' = [req EXCEPT ![q] = job]
      BY <2>2, <3>1 DEF Store
    <3>3. job.pc = "release" /\ job.key = k
      BY <1>1, <1>2, <3>1 DEF Job
    <3> QED
      BY <3>2, <3>3
  <2> QED
    BY <2>1, <2>2
<1>7. CASE job.pc = "store" /\ UNCHANGED entries
  <2>1. \A j \in Key : Running(j)' <=> Running(j)
    BY <1>1, <1>2, <1>6, <1>7, RunningSame
  <2>2. \A j \in Key : Live(Result(j))' <=> Live(Result(j))
    BY <1>2, <1>7 DEF Live
  <2> QED
    BY <1>4, <2>1, <2>2, SamePhases
<1>8. CASE job.pc = "release"
  <2>1. PhaseOf' = [PhaseOf EXCEPT ![k] = PhaseOf'[k]]
    BY <1>1, <1>2, <1>5, <1>6, RunningElsewhere, OnePhase
  <2>2. Running(k)
    BY <1>1, <1>2 DEF Running
  <2>3. ~Running(k)'
    BY <1>1, <1>2, <1>6, <1>8, RunsAlone DEF Busy
  <2>4. PhaseOf[k] = "running" /\ PhaseOf'[k] \in {"idle", "done"}
    BY <1>2, <2>2, <2>3 DEF PhaseOf
  <2>5. Promise!End(k)
    BY <2>1, <2>4 DEF Promise!End
  <2> QED
    BY <1>2, <1>4, <2>5
<1> QED
  BY <1>6, <1>7, <1>8

\* Time ends what is remembered, and nothing else.
LEMMA TickPhases ==
  ASSUME NoFaults, IdempotencyConstants, ProtectionInv, Tick
  PROVE  Promise!Forget /\ UNCHANGED lapsed
<1>1. /\ UNCHANGED <<entries, req>> /\ now' = now + 1 /\ now \in Nat
      /\ {q \in Request : Busy(q) /\ now + 1 >= req[q].locked + LockTimeout} = {}
  BY DEF Tick, NoFaults, ProtectionInv, TypeOK, IdempotencyConstants
<1>2. UNCHANGED lapsed
  BY <1>1 DEF Tick
<1>3. \A k \in Key : Running(k)' <=> Running(k)
  BY <1>1 DEF Running
<1>4. \A k \in Key : Live(Result(k))' => Live(Result(k))
  <2> SUFFICES ASSUME NEW k \in Key, entries[Result(k)] # None, now + 1 < entries[Result(k)].expires
               PROVE  now < entries[Result(k)].expires
    BY <1>1 DEF Live
  <2>1. entries[Result(k)].expires \in Nat
    BY SlotNames DEF ProtectionInv, TypeOK, Entry
  <2> QED
    BY <1>1, <2>1
<1>5. PICK K : K = {k \in Key : PhaseOf[k] = "done" /\ PhaseOf'[k] = "idle"}
  OBVIOUS
<1>6. \A k \in Key : PhaseOf'[k] = IF k \in K THEN "idle" ELSE PhaseOf[k]
  BY <1>3, <1>4, <1>5 DEF PhaseOf, Result
<1>7. PhaseOf' = [k \in Key |-> IF k \in K THEN "idle" ELSE PhaseOf[k]]
  <2>1. PhaseOf' = [k \in Key |-> PhaseOf'[k]]
    BY DEF PhaseOf
  <2> QED
    BY <1>6, <2>1
<1>8. K \in SUBSET {k \in Key : PhaseOf[k] = "done"}
  BY <1>5
<1> QED
  BY <1>2, <1>7, <1>8 DEF Promise!Forget

\* Every step of the middleware is a step of AtMostOnce, or none.
LEMMA OnceStep ==
  NoFaults /\ IdempotencyConstants /\ ProtectionInv /\ lapsed = {} /\ [Next]_vars
    => [Promise!Next]_PhaseOf /\ lapsed' = {}
<1> SUFFICES ASSUME NoFaults, IdempotencyConstants, ProtectionInv, lapsed = {}, [Next]_vars
             PROVE  [Promise!Next]_PhaseOf /\ lapsed' = {}
  OBVIOUS
<1>1. CASE UNCHANGED vars
  BY <1>1 DEF vars, PhaseOf, Running, Live
<1>2. CASE Crash
  BY <1>2 DEF Crash, NoFaults
<1>3. CASE Tick
  BY <1>3, TickPhases DEF Promise!Next
<1>4. ASSUME NEW q \in Request, Step(q) \/ \E k \in Key, b \in Body : Arrive(q, k, b)
      PROVE  [Promise!Next]_PhaseOf /\ lapsed' = {}
  <2>1. CASE Recheck(q)
    BY <2>1, RecheckPhases DEF Promise!Next
  <2>2. CASE Finish(q) \/ Store(q)
    BY <2>2, EndPhases DEF Promise!Next
  <2>3. CASE \/ \E k \in Key, b \in Body : Arrive(q, k, b)
             \/ Lookup(q) \/ Acquire(q) \/ Release(q)
    BY <2>3, QuietPhases
  <2> QED
    BY <1>4, <2>1, <2>2, <2>3 DEF Step
<1> QED
  BY <1>1, <1>2, <1>3, <1>4 DEF Next

\* Without faults the two lookups and the lock of the middleware implement AtMostOnce, for any
\* number of requests, keys and bodies and any lifetimes: a command never runs twice at a time nor
\* again while its response is kept.
THEOREM ImplementsAtMostOnceAlways ==
  ASSUME IdempotencyConstants, NoFaults
  PROVE  Spec => ImplementsAtMostOnce
<1>1. Init => ProtectionInv /\ lapsed = {} /\ Promise!Init
  <2> SUFFICES ASSUME Init PROVE ProtectionInv /\ lapsed = {} /\ Promise!Init
    OBVIOUS
  <2>1. \A k \in Key : ~Running(k) /\ ~Live(Result(k))
    BY SlotNames DEF Init, Running, Live
  <2> QED
    BY <2>1, ProtectionInit DEF Init, Promise!Init, PhaseOf, Result
<1>2. ProtectionInv /\ lapsed = {} /\ [Next]_vars => ProtectionInv' /\ (lapsed = {})' /\ [Promise!Next]_PhaseOf
  BY OnceStep, ProtectionStep
<1> QED
  BY <1>1, <1>2, PTL DEF Spec, ImplementsAtMostOnce, Promise!Spec

----------------------------------------------------------------------------
(* Codes are accepted once and struck at their limit *)

\* What is kept of a request.
FormState ==
  [pc : {"idle", "prepare", "put", "look", "code", "send", "undo", "find", "get", "commit", "create", "clean", "done"},
   guess : Codes, value : Registrant \cup {NoOne}, answer : {"none", "ok"}]

\* A code nobody has issued yet has no history, and the one that is stored has not been accepted
\* and has as many wrong guesses as its counter says.
CodesInv ==
  /\ \A c \in Issuer : form[c].pc \in {"idle", "prepare", "put", "look", "code"} =>
       code # c /\ spent[c] = 0 /\ misses[c] = 0 /\ c \notin struck
  /\ \A c \in Issuer : code = c => spent[c] = 0 /\ misses[c] = attempts /\ c \notin struck

\* The inductive invariant of the codes.
AddressInv == AddressTypeOK /\ CodesInv /\ CodeUsedOnce /\ StruckAtLimit

\* The calls that leave the codes alone leave a request where no code is issued twice.
LEMMA CodesStay ==
  ASSUME RegistrationConstants, AddressInv, UNCHANGED codes, NEW q \in Requests, NEW job,
         form' = [form EXCEPT ![q] = job],
         job.pc \in {"idle", "prepare", "put", "look", "code"} =>
           form[q].pc \in {"idle", "prepare", "put", "look", "code"}
  PROVE  (CodesInv /\ CodeUsedOnce /\ StruckAtLimit)'
<1>1. \A c \in Issuer : c \in Requests /\ form'[c] = IF c = q THEN job ELSE form[c]
  BY DEF AddressInv, AddressTypeOK, Requests
<1> QED
  BY <1>1 DEF codes, AddressInv, CodesInv, CodeUsedOnce, StruckAtLimit

\* A request that goes on changes its place and nothing else.
LEMMA GoIs ==
  ASSUME AddressInv, NEW q \in Requests, NEW next, Proceed(q, next)
  PROVE  /\ form' = [form EXCEPT ![q] = [form[q] EXCEPT !.pc = next]]
         /\ [form[q] EXCEPT !.pc = next].pc = next
<1>1. form \in [Requests -> FormState]
  BY DEF AddressInv, AddressTypeOK, FormState
<1> QED
  BY <1>1 DEF Proceed, FormState

\* A verification that succeeds has its answer and nothing else new.
LEMMA ConfirmIs ==
  ASSUME AddressInv, NEW q \in Requests, Confirm(q)
  PROVE  /\ form' = [form EXCEPT ![q] = [form[q] EXCEPT !.pc = "done", !.answer = "ok"]]
         /\ [form[q] EXCEPT !.pc = "done", !.answer = "ok"].pc = "done"
<1>1. form \in [Requests -> FormState]
  BY DEF AddressInv, AddressTypeOK, FormState
<1> QED
  BY <1>1 DEF Confirm, FormState

\* Going on keeps the type of the requests.
LEMMA GoType ==
  ASSUME AddressTypeOK, NEW q \in Requests,
         NEW next \in {"prepare", "put", "code", "send", "undo", "get", "create", "clean", "done"},
         Proceed(q, next)
  PROVE  form' \in [Requests -> FormState]
<1>1. form \in [Requests -> FormState]
  BY DEF AddressTypeOK, FormState
<1> QED
  BY <1>1 DEF Proceed, FormState

\* So does the answer of a verification.
LEMMA ConfirmType ==
  ASSUME AddressTypeOK, NEW q \in Requests, Confirm(q)
  PROVE  form' \in [Requests -> FormState]
<1>1. form \in [Requests -> FormState]
  BY DEF AddressTypeOK, FormState
<1>2. [form[q] EXCEPT !.pc = "done", !.answer = "ok"] \in FormState
  BY <1>1 DEF FormState
<1>3. form' = [form EXCEPT ![q] = [form[q] EXCEPT !.pc = "done", !.answer = "ok"]]
  BY <1>1 DEF Confirm
<1> QED
  BY <1>1, <1>2, <1>3

\* Who gives up ends, or, being a registration, takes its record back.
LEMMA GiveUpGoes ==
  ASSUME NEW q, GiveUp(q)
  PROVE  \/ form[q].pc \in {"code", "send"} /\ form[q].value = q /\ Proceed(q, "undo")
         \/ ~(form[q].pc \in {"code", "send"} /\ form[q].value = q) /\ Proceed(q, "done")
BY DEF GiveUp

\* Every step keeps the types: no counter of wrong guesses is stored at its limit.
LEMMA TypeStep == RegistrationConstants /\ AddressTypeOK /\ [AddressNext]_addressVars => AddressTypeOK'
<1> SUFFICES ASSUME RegistrationConstants, AddressTypeOK, [AddressNext]_addressVars PROVE AddressTypeOK'
  OBVIOUS
<1>a. ASSUME form' \in [Requests -> FormState], mixed' \in BOOLEAN, UNCHANGED <<account, pending, codes, mailed>>
      PROVE  AddressTypeOK'
  BY <1>a DEF AddressTypeOK, codes, FormState
<1>b. ASSUME NEW q, mixed' = (mixed \/ Overlap(q)) PROVE mixed' \in BOOLEAN
  BY <1>b, Zenon DEF AddressTypeOK
<1>1. ASSUME NEW q \in Registrant, Register(q) PROVE AddressTypeOK'
  <2>1. q \in Requests
    BY DEF Requests, Issuer
  <2> QED
    BY <1>1, <1>a, <1>b, <2>1, GoType DEF Register
<1>2. ASSUME NEW q \in Registrant, Prepare(q) PROVE AddressTypeOK'
  <2>1. q \in Requests
    BY DEF Requests, Issuer
  <2> QED
    BY <1>2, <1>a, <2>1, GoType DEF Prepare, AddressTypeOK
<1>3. ASSUME NEW q \in Registrant, PutPending(q) PROVE AddressTypeOK'
  <2>1. q \in Requests
    BY DEF Requests, Issuer
  <2>2. form' \in [Requests -> FormState]
    <3>1. form \in [Requests -> FormState] /\ form' = [form EXCEPT ![q].pc = "code", ![q].value = q]
      BY <1>3 DEF PutPending, AddressTypeOK, FormState
    <3>2. [form[q] EXCEPT !.pc = "code", !.value = q] \in FormState
      BY <2>1, <3>1 DEF FormState
    <3>3. form' = [form EXCEPT ![q] = [form[q] EXCEPT !.pc = "code", !.value = q]]
      BY <3>1
    <3> QED
      BY <2>1, <3>1, <3>2, <3>3
  <2> QED
    BY <1>3, <2>2 DEF PutPending, AddressTypeOK, codes, FormState
<1>4. ASSUME NEW q \in Registrant, Undo(q) PROVE AddressTypeOK'
  <2>1. q \in Requests
    BY DEF Requests, Issuer
  <2>2. mixed' \in BOOLEAN /\ pending' \in Registrant \cup {NoOne}
    BY <1>4 DEF Undo, AddressTypeOK
  <2> QED
    BY <1>4, <2>1, <2>2, GoType DEF Undo, AddressTypeOK, codes, FormState
<1>5. ASSUME NEW q \in Resender, RequestVerification(q) PROVE AddressTypeOK'
  <2>1. q \in Requests
    BY DEF Requests, Issuer
  <2>2. form' \in [Requests -> FormState]
    BY <1>5, <2>1 DEF RequestVerification, Proceed, AddressTypeOK, FormState
  <2> QED
    BY <1>5, <1>a, <1>b, <2>2 DEF RequestVerification
<1>6. ASSUME NEW q \in Resender, LookPending(q) PROVE AddressTypeOK'
  <2>1. q \in Requests
    BY DEF Requests, Issuer
  <2> QED
    BY <1>6, <1>a, <2>1, GoType DEF LookPending, AddressTypeOK
<1>7. ASSUME NEW q \in Issuer, PutCode(q) PROVE AddressTypeOK'
  <2>1. q \in Requests
    BY DEF Requests
  <2>2. form' \in [Requests -> FormState] /\ code' \in Codes /\ attempts' \in 0 .. MaxAttempts - 1
    BY <1>7, <2>1, GoType DEF PutCode, PutScript, Codes, RegistrationConstants
  <2> QED
    BY <1>7, <2>2 DEF PutCode, AddressTypeOK, FormState
<1>8. ASSUME NEW q \in Issuer, Send(q) PROVE AddressTypeOK'
  <2>1. q \in Requests
    BY DEF Requests
  <2>2. form' \in [Requests -> FormState]
    BY <1>8, <2>1, GoType, GiveUpGoes DEF Send
  <2>3. mailed' \in BOOLEAN
    BY <1>8, Zenon DEF Send, AddressTypeOK
  <2> QED
    BY <1>8, <2>2, <2>3 DEF Send, AddressTypeOK, FormState, codes
<1>9. ASSUME NEW q \in Requests, CallFails(q) PROVE AddressTypeOK'
  BY <1>9, <1>a, GoType, GiveUpGoes DEF CallFails, AddressTypeOK
<1>10. ASSUME NEW q \in Verifier, Consume(q) PROVE AddressTypeOK'
  <2>1. q \in Requests /\ RegistrationConstants
    BY DEF Requests
  <2>2. mixed' \in BOOLEAN
    BY <1>10, <1>b DEF Consume
  <2>3. CASE RightGuess(q)
    <3>1. form' \in [Requests -> FormState]
      <4>1. form \in [Requests -> FormState] /\ code \in Codes
        BY DEF AddressTypeOK, FormState
      <4>2. [form[q] EXCEPT !.pc = "find", !.guess = code] \in FormState
        BY <2>1, <4>1 DEF FormState
      <4>3. form' = [form EXCEPT ![q] = [form[q] EXCEPT !.pc = "find", !.guess = code]]
        BY <2>3, <4>1 DEF RightGuess
      <4> QED
        BY <2>1, <4>1, <4>2, <4>3
    <3>2. code' \in Codes /\ attempts' \in 0 .. MaxAttempts - 1 /\ spent' \in [Issuer -> Nat]
      BY <2>1, <2>3 DEF RightGuess, Spend, AddressTypeOK, RegistrationConstants, Codes
    <3> QED
      BY <1>10, <2>2, <2>3, <3>1, <3>2 DEF RightGuess, Consume, Spend, AddressTypeOK, FormState
  <2>4. CASE WrongGuess(q)
    <3>1. form' \in [Requests -> FormState]
      BY <2>1, <2>4, GoType DEF WrongGuess
    <3>2. code' \in Codes /\ attempts' \in 0 .. MaxAttempts - 1
      BY <2>1, <2>4 DEF WrongGuess, Spend, AddressTypeOK, RegistrationConstants, Codes, Exhausted
    <3>3. misses' \in [Issuer -> Nat] /\ struck' \subseteq Issuer
      BY <2>1, <2>4 DEF WrongGuess, AddressTypeOK, Codes, Exhausted
    <3>4. mailed' \in BOOLEAN
      BY <2>4, Zenon DEF WrongGuess, Spend, AddressTypeOK
    <3> QED
      BY <1>10, <2>2, <2>4, <3>1, <3>2, <3>3, <3>4 DEF WrongGuess, Consume, AddressTypeOK, FormState
  <2> QED
    BY <1>10, <2>3, <2>4 DEF Consume
<1>11. ASSUME NEW q \in Verifier, FindAccount(q) PROVE AddressTypeOK'
  <2>1. q \in Requests
    BY DEF Requests
  <2>2. account' \in {NoOne} \cup [by : Registrant \cup {NoOne}, verified : BOOLEAN]
    BY <1>11 DEF FindAccount, AddressTypeOK
  <2>3. form' \in [Requests -> FormState]
    BY <1>11, <2>1, GoType, ConfirmType, GiveUpGoes DEF FindAccount
  <2> QED
    BY <1>11, <2>2, <2>3 DEF FindAccount, AddressTypeOK, codes, FormState
<1>12. ASSUME NEW q \in Verifier, GetPending(q) PROVE AddressTypeOK'
  <2>1. q \in Requests
    BY DEF Requests
  <2>2. CASE pending = NoOne
    BY <1>12, <1>a, <2>1, <2>2, GoType DEF GetPending, AddressTypeOK
  <2>3. CASE pending # NoOne
    <3>1. form' \in [Requests -> FormState]
      BY <1>12, <2>1, <2>3 DEF GetPending, AddressTypeOK, FormState
    <3> QED
      BY <1>12, <1>a, <3>1 DEF GetPending, AddressTypeOK
  <2> QED
    BY <2>2, <2>3
<1>13. ASSUME NEW q \in Verifier, Commit(q) PROVE AddressTypeOK'
  <2>1. q \in Requests
    BY DEF Requests
  <2> QED
    BY <1>13, <1>a, <2>1, GoType DEF Commit, AddressTypeOK
<1>14. ASSUME NEW q \in Verifier, Create(q) PROVE AddressTypeOK'
  <2>1. q \in Requests
    BY DEF Requests
  <2>2. account' \in {NoOne} \cup [by : Registrant \cup {NoOne}, verified : BOOLEAN]
    <3>1. form[q].value \in Registrant \cup {NoOne}
      BY <2>1 DEF AddressTypeOK
    <3>2. account' \in {account, [by |-> form[q].value, verified |-> TRUE]}
      BY <1>14 DEF Create
    <3>3. [by |-> form[q].value, verified |-> TRUE] \in [by : Registrant \cup {NoOne}, verified : BOOLEAN]
      BY <3>1
    <3> QED
      BY <3>2, <3>3 DEF AddressTypeOK
  <2>3. form' \in [Requests -> FormState]
    BY <1>14, <2>1, GoType, GiveUpGoes DEF Create
  <2> QED
    BY <1>14, <2>2, <2>3 DEF Create, AddressTypeOK, codes, FormState
<1>15. ASSUME NEW q \in Verifier, Clean(q) PROVE AddressTypeOK'
  <2>1. q \in Requests
    BY DEF Requests
  <2> QED
    BY <1>15, <2>1, ConfirmType DEF Clean, AddressTypeOK, codes, FormState
<1>16. CASE ExpirePending
  BY <1>16 DEF ExpirePending, AddressTypeOK, codes
<1>17. CASE ExpireCode
  <2>1. code' \in Codes /\ attempts' \in 0 .. MaxAttempts - 1
    BY <1>17 DEF ExpireCode, Spend, Codes, RegistrationConstants
  <2>2. mailed' \in BOOLEAN
    BY <1>17 DEF ExpireCode, Spend
  <2> QED
    BY <1>17, <2>1, <2>2 DEF ExpireCode, AddressTypeOK
<1>18. CASE UNCHANGED addressVars
  BY <1>18 DEF addressVars, AddressTypeOK
<1> QED
  BY <1>1, <1>2, <1>3, <1>4, <1>5, <1>6, <1>7, <1>8, <1>9, <1>10, <1>11, <1>12, <1>13, <1>14, <1>15,
     <1>16, <1>17, <1>18 DEF AddressNext

\* No step issues a code twice, and a guess at a code counts against that code only.
LEMMA CodesStep == RegistrationConstants /\ AddressInv /\ [AddressNext]_addressVars => AddressInv'
<1> SUFFICES ASSUME RegistrationConstants, AddressInv, [AddressNext]_addressVars
             PROVE  (CodesInv /\ CodeUsedOnce /\ StruckAtLimit)'
  BY TypeStep DEF AddressInv
<1> DEFINE Fresh == {"idle", "prepare", "put", "look", "code"}
<1>a. ASSUME NEW q \in Requests, UNCHANGED codes, NEW next, Proceed(q, next), form[q].pc \in Fresh \/ next \notin Fresh
      PROVE  (CodesInv /\ CodeUsedOnce /\ StruckAtLimit)'
  <2>1. PICK job : job = [form[q] EXCEPT !.pc = next]
    OBVIOUS
  <2>2. form' = [form EXCEPT ![q] = job] /\ job.pc = next
    BY <1>a, <2>1, GoIs
  <2> QED
    BY <1>a, <2>2, CodesStay
<1>b. ASSUME NEW q \in Requests, UNCHANGED codes, Confirm(q)
      PROVE  (CodesInv /\ CodeUsedOnce /\ StruckAtLimit)'
  BY <1>b, ConfirmIs, CodesStay
<1>d. ASSUME NEW q \in Requests, UNCHANGED codes, GiveUp(q)
      PROVE  (CodesInv /\ CodeUsedOnce /\ StruckAtLimit)'
  BY <1>a, <1>d, GiveUpGoes
<1>c. \A q : q \in Registrant \/ q \in Resender \/ q \in Issuer \/ q \in Verifier => q \in Requests
  BY DEF Requests, Issuer
<1>1. ASSUME NEW q \in Registrant, Register(q) \/ Prepare(q) \/ Undo(q)
      PROVE  (CodesInv /\ CodeUsedOnce /\ StruckAtLimit)'
  BY <1>1, <1>a, <1>c DEF Register, Prepare, Undo
<1>2. ASSUME NEW q \in Registrant, PutPending(q)
      PROVE  (CodesInv /\ CodeUsedOnce /\ StruckAtLimit)'
  <2>1. PICK job : job = [form[q] EXCEPT !.pc = "code", !.value = q]
    OBVIOUS
  <2>2. form \in [Requests -> FormState] /\ q \in Requests
    BY <1>c DEF AddressInv, AddressTypeOK, FormState
  <2>3. form' = [form EXCEPT ![q] = job] /\ form[q].pc = "put" /\ UNCHANGED codes
    BY <1>2, <2>1, <2>2 DEF PutPending
  <2> QED
    BY <2>2, <2>3, CodesStay
<1>3. ASSUME NEW q \in Resender, RequestVerification(q) \/ LookPending(q)
      PROVE  (CodesInv /\ CodeUsedOnce /\ StruckAtLimit)'
  BY <1>3, <1>a, <1>c DEF RequestVerification, LookPending
<1>4. ASSUME NEW q \in Issuer, PutCode(q)
      PROVE  (CodesInv /\ CodeUsedOnce /\ StruckAtLimit)'
  <2>1. PICK job : job = [form[q] EXCEPT !.pc = "send"]
    OBVIOUS
  <2>2. form \in [Requests -> FormState] /\ q \in Requests
    BY <1>c DEF AddressInv, AddressTypeOK, FormState
  <2>3. /\ form' = [form EXCEPT ![q] = job] /\ job.pc = "send" /\ form[q].pc = "code"
        /\ code' = q /\ attempts' = 0 /\ UNCHANGED <<misses, spent, struck>>
    BY <1>4, <2>1, <2>2 DEF PutCode, PutScript, Proceed, FormState
  <2>4. \A c \in Issuer : form'[c] = IF c = q THEN job ELSE form[c]
    BY <2>2, <2>3 DEF Requests
  <2> QED
    BY <2>3, <2>4 DEF AddressInv, CodesInv, CodeUsedOnce, StruckAtLimit
<1>5. ASSUME NEW q \in Issuer, Send(q)
      PROVE  (CodesInv /\ CodeUsedOnce /\ StruckAtLimit)'
  BY <1>5, <1>a, <1>c, <1>d DEF Send
<1>6. ASSUME NEW q \in Requests, CallFails(q)
      PROVE  (CodesInv /\ CodeUsedOnce /\ StruckAtLimit)'
  BY <1>6, <1>d DEF CallFails
<1>7. ASSUME NEW q \in Verifier, Consume(q)
      PROVE  (CodesInv /\ CodeUsedOnce /\ StruckAtLimit)'
  <2>1. q \in Requests /\ q \notin Issuer
    BY <1>c DEF Issuer, RegistrationConstants
  <2>2. RightGuess(q) \/ WrongGuess(q)
    BY <1>7 DEF Consume
  <2>3. \A c \in Issuer : form'[c] = form[c]
    <3>1. form \in [Requests -> FormState] /\ \A c \in Issuer : c \in Requests /\ c # q
      BY <2>1 DEF AddressInv, AddressTypeOK, FormState, Requests
    <3> QED
      BY <2>2, <3>1 DEF RightGuess, WrongGuess, Proceed
  <2>4. NoOne \notin Issuer /\ code \in Issuer \cup {NoOne} /\ spent \in [Issuer -> Nat]
        /\ misses \in [Issuer -> Nat] /\ attempts \in 0 .. MaxAttempts - 1 /\ MaxAttempts \in Nat
    BY DEF AddressInv, AddressTypeOK, Codes, RegistrationConstants, Issuer
  <2>5. CASE RightGuess(q)
    <3>1. /\ code' = NoOne /\ spent' = [spent EXCEPT ![code] = @ + 1] /\ UNCHANGED <<misses, struck>>
          /\ code \in Issuer
      BY <2>4, <2>5 DEF RightGuess, Spend
    <3> QED
      BY <2>3, <2>4, <3>1 DEF AddressInv, CodesInv, CodeUsedOnce, StruckAtLimit
  <2>6. CASE WrongGuess(q) /\ Exhausted
    <3>1. /\ code' = NoOne /\ struck' = struck \cup {code} /\ spent' = spent /\ code \in Issuer
          /\ misses' = [c \in Issuer |-> IF c = code THEN misses[c] + 1 ELSE misses[c]]
          /\ attempts + 1 = MaxAttempts
      BY <2>4, <2>6 DEF WrongGuess, Spend, Exhausted
    <3> QED
      BY <2>3, <2>4, <3>1 DEF AddressInv, CodesInv, CodeUsedOnce, StruckAtLimit
  <2>7. CASE WrongGuess(q) /\ ~Exhausted
    <3>1. /\ UNCHANGED <<code, struck, spent>>
          /\ misses' = [c \in Issuer |-> IF c = code THEN misses[c] + 1 ELSE misses[c]]
          /\ code \in Issuer => attempts' = attempts + 1 /\ attempts + 1 < MaxAttempts
      BY <2>4, <2>7 DEF WrongGuess, Exhausted
    <3> QED
      BY <2>3, <2>4, <3>1 DEF AddressInv, CodesInv, CodeUsedOnce, StruckAtLimit
  <2> QED
    BY <2>2, <2>5, <2>6, <2>7
<1>8. ASSUME NEW q \in Verifier, FindAccount(q) \/ Commit(q) \/ Create(q) \/ Clean(q)
      PROVE  (CodesInv /\ CodeUsedOnce /\ StruckAtLimit)'
  BY <1>8, <1>a, <1>b, <1>c, <1>d DEF FindAccount, Commit, Create, Clean
<1>9. ASSUME NEW q \in Verifier, GetPending(q)
      PROVE  (CodesInv /\ CodeUsedOnce /\ StruckAtLimit)'
  <2>1. CASE pending = NoOne
    BY <1>9, <1>a, <1>c, <2>1 DEF GetPending
  <2>2. CASE pending # NoOne
    <3>1. PICK job : job = [form[q] EXCEPT !.pc = "commit", !.value = pending]
      OBVIOUS
    <3>2. form \in [Requests -> FormState] /\ q \in Requests
      BY <1>c DEF AddressInv, AddressTypeOK, FormState
    <3>3. form' = [form EXCEPT ![q] = job] /\ job.pc = "commit" /\ UNCHANGED codes
      BY <1>9, <2>2, <3>1, <3>2 DEF GetPending, FormState
    <3> QED
      BY <3>2, <3>3, CodesStay
  <2> QED
    BY <2>1, <2>2
<1>10. CASE ExpirePending
  BY <1>10 DEF ExpirePending, codes, AddressInv, CodesInv, CodeUsedOnce, StruckAtLimit
<1>11. CASE ExpireCode
  BY <1>11 DEF ExpireCode, Spend, AddressInv, CodesInv, CodeUsedOnce, StruckAtLimit, RegistrationConstants, Issuer
<1>12. CASE UNCHANGED addressVars
  BY <1>12 DEF addressVars, AddressInv, CodesInv, CodeUsedOnce, StruckAtLimit
<1> QED
  BY <1>1, <1>2, <1>3, <1>4, <1>5, <1>6, <1>7, <1>8, <1>9, <1>10, <1>11, <1>12 DEF AddressNext

\* Before the first request no code has been issued.
LEMMA CodesInit == RegistrationConstants /\ AddressInit => AddressInv
<1> SUFFICES ASSUME RegistrationConstants, AddressInit PROVE AddressInv
  OBVIOUS
<1>1. AddressTypeOK
  <2>1. 0 \in 0 .. MaxAttempts - 1
    BY DEF RegistrationConstants
  <2>2. form \in [Requests -> FormState]
    BY DEF AddressInit, FormState, Codes
  <2>3. account \in {NoOne} \cup [by : Registrant \cup {NoOne}, verified : BOOLEAN]
    <3>1. [by |-> NoOne, verified |-> FALSE] \in [by : Registrant \cup {NoOne}, verified : BOOLEAN]
      OBVIOUS
    <3>2. account \in {NoOne, [by |-> NoOne, verified |-> FALSE]}
      BY DEF AddressInit
    <3> QED
      BY <3>1, <3>2, Zenon
  <2>4. misses \in [Issuer -> Nat] /\ spent \in [Issuer -> Nat] /\ mixed \in BOOLEAN
    BY DEF AddressInit
  <2> QED
    BY <2>1, <2>2, <2>3, <2>4 DEF AddressInit, AddressTypeOK, Codes, FormState
<1>2. \A c \in Issuer : code # c /\ spent[c] = 0 /\ misses[c] = 0 /\ c \notin struck
  BY DEF AddressInit, RegistrationConstants, Issuer
<1> QED
  BY <1>1, <1>2 DEF AddressInv, CodesInv, CodeUsedOnce, StruckAtLimit, RegistrationConstants

\* However verifications, resends and registrations of an address overlap and fail (otp.go, the
\* scripts of the OTP store): a code is accepted once, and struck after exactly its limit of wrong
\* guesses, none of which was made at another code.
THEOREM CodesHoldAlways ==
  ASSUME RegistrationConstants
  PROVE  AddressSpec => []CodesHold
<1>1. AddressInit => AddressInv
  BY CodesInit
<1>2. AddressInv /\ [AddressNext]_addressVars => AddressInv'
  BY CodesStep
<1>3. AddressInv => CodesHold
  BY DEF AddressInv, CodesHold
<1> QED
  BY <1>1, <1>2, <1>3, PTL DEF AddressSpec

----------------------------------------------------------------------------
(* The account is that of the registration whose code was verified *)

\* A request is between its first and its last call.
Underway(q) == form[q].pc \notin {"idle", "done"}

\* Which way each kind of request goes, and whose details it has with it.
Ways ==
  /\ \A q \in Requests : form[q].pc # "done" => form[q].answer = "none"
  /\ \A q \in Registrant :
       /\ form[q].pc \in {"idle", "prepare", "put", "code", "send", "undo", "done"}
       /\ form[q].value \in {NoOne, q} /\ (form[q].pc \in {"idle", "prepare", "put"} => form[q].value = NoOne)
  /\ \A q \in Resender :
       form[q].pc \in {"idle", "look", "code", "send", "done"} /\ form[q].value = NoOne
  /\ \A q \in Verifier :
       /\ form[q].pc \in {"idle", "find", "get", "commit", "create", "clean", "done"}
       /\ form[q].pc \in {"idle", "find", "get"} => form[q].value = NoOne
       /\ form[q].pc \in {"commit", "create", "clean"} => form[q].value # NoOne

\* Whoever inserted the account, and was told so, finds it there.
Inserted ==
  \A q \in Verifier :
    /\ form[q].pc = "clean" => account # NoOne /\ account.by = form[q].value
    /\ form[q].answer = "ok" /\ form[q].value # NoOne => account # NoOne

\* As long as no two requests overlapped:
\* one is on its way at most,
Alone == ~mixed => \A q, r \in Requests : Underway(q) /\ Underway(r) => q = r

\* a registration is pending only while there is no account that could be verified without it,
PendingIsNew ==
  ~mixed => /\ account # NoOne /\ pending # NoOne => account.verified
            /\ \A q \in Registrant : form[q].pc = "put" => account = NoOne

\* what is pending is of the registration that is on its way, or of the code,
PendingOfCode ==
  ~mixed => /\ \A q \in Registrant :
                 form[q].pc \in {"code", "send", "undo"} => pending \in {NoOne, form[q].value}
            /\ code \in Registrant /\ pending # NoOne =>
                 \/ pending = code
                 \/ \E q \in Registrant : form[q].pc \in {"code", "undo"} /\ form[q].value # NoOne

\* and what a verification took, or will take, is of the code it has presented.
TakenOfCode ==
  ~mixed => \A q \in Verifier :
    form[q].guess \in Registrant =>
      /\ form[q].pc \in {"find", "get"} => pending \in {NoOne, form[q].guess}
      /\ form[q].pc \in {"commit", "create", "clean"} => form[q].value = form[q].guess

\* The inductive invariant of the account.
AccountInv ==
  /\ AddressTypeOK /\ Ways /\ Inserted /\ Alone /\ PendingIsNew /\ PendingOfCode /\ TakenOfCode
  /\ AccountIsOfItsCode

\* What becomes of the request that moves.
Moved(q, next, guess, value, answer) ==
  /\ form'[q].pc = next /\ form'[q].guess = guess /\ form'[q].value = value /\ form'[q].answer = answer
  /\ \A r \in Requests : r # q => form'[r] = form[r]

\* What going on changes, per field.
LEMMA GoMoves ==
  ASSUME AddressTypeOK, NEW q \in Requests, NEW next, Proceed(q, next)
  PROVE  Moved(q, next, form[q].guess, form[q].value, form[q].answer)
<1>1. form \in [Requests -> FormState]
  BY DEF AddressTypeOK, FormState
<1> QED
  BY <1>1 DEF Proceed, FormState, Moved

\* (the same for a verification that is told it succeeded)
LEMMA ConfirmMoves ==
  ASSUME AddressTypeOK, NEW q \in Requests, Confirm(q)
  PROVE  Moved(q, "done", form[q].guess, form[q].value, "ok")
<1>1. form \in [Requests -> FormState]
  BY DEF AddressTypeOK, FormState
<1> QED
  BY <1>1 DEF Confirm, FormState, Moved

\* A request begins: until then nobody was on its way, if nobody overlaps it.
LEMMA NobodyElse ==
  ASSUME AccountInv, NEW q \in Requests, form[q].pc = "idle", mixed' = (mixed \/ Overlap(q)), ~mixed'
  PROVE  ~mixed /\ \A r \in Requests : ~Underway(r)
BY DEF AccountInv, Underway, Overlap

\* Every step keeps the account that of its code: of requests one at a time, the pending
\* registration is that of the stored code until a verification has taken it.
LEMMA AccountStep == RegistrationConstants /\ AccountInv /\ [AddressNext]_addressVars => AccountInv'
<1> SUFFICES ASSUME RegistrationConstants, AccountInv, [AddressNext]_addressVars
             PROVE  (/\ Ways /\ Inserted /\ Alone /\ PendingIsNew /\ PendingOfCode /\ TakenOfCode
                     /\ AccountIsOfItsCode)'
  BY TypeStep DEF AccountInv
<1> DEFINE Kept == (/\ Ways /\ Inserted /\ Alone /\ PendingIsNew /\ PendingOfCode /\ TakenOfCode
                    /\ AccountIsOfItsCode)'
<1> USE DEF Ways, Inserted, Alone, PendingIsNew, PendingOfCode, TakenOfCode, AccountIsOfItsCode, Underway
<1>c. \A q : q \in Registrant \/ q \in Resender \/ q \in Issuer \/ q \in Verifier => q \in Requests
  BY DEF Requests, Issuer
<1>d. /\ AddressTypeOK /\ Ways /\ Inserted /\ Alone /\ PendingIsNew /\ PendingOfCode /\ TakenOfCode
      /\ AccountIsOfItsCode
  BY DEF AccountInv
<1>e. /\ Registrant \cap Resender = {} /\ Registrant \cap Verifier = {} /\ Resender \cap Verifier = {}
      /\ NoOne \notin Registrant \cup Resender \cup Verifier
  BY DEF RegistrationConstants
<1>f. account \in {NoOne} \cup [by : Registrant \cup {NoOne}, verified : BOOLEAN]
  BY <1>d DEF AddressTypeOK
<1> HIDE DEF Kept
<1>1. ASSUME NEW q \in Registrant, Register(q) PROVE Kept
  <2>1. q \in Requests /\ form[q].pc = "idle" /\ mixed' = (mixed \/ Overlap(q))
        /\ UNCHANGED <<account, pending, code>>
    BY <1>1, <1>c DEF Register, codes
  <2>2. PICK next, answer :
          /\ Moved(q, next, form[q].guess, form[q].value, answer)
          /\ next \in {"prepare", "code", "done"} /\ (next # "done" => answer = form[q].answer)
          /\ next = "code" => account # NoOne /\ ~account.verified
    BY <1>1, <1>d, <2>1, GoMoves DEF Register
  <2>3. ~mixed' => ~mixed /\ \A r \in Requests : ~Underway(r)
    BY <2>1, NobodyElse
  <2> QED
    BY <1>c, <1>d, <1>e, <2>1, <2>2, <2>3 DEF Moved, Kept
<1>2. ASSUME NEW q \in Registrant, Prepare(q) PROVE Kept
  <2>1. /\ q \in Requests /\ form[q].pc = "prepare" /\ UNCHANGED <<account, pending, code, mixed>>
    BY <1>2, <1>c DEF Prepare, codes
  <2>2. PICK next, answer :
          /\ Moved(q, next, form[q].guess, form[q].value, answer)
          /\ next \in {"put", "done"} /\ (next # "done" => answer = form[q].answer)
          /\ next = "put" => account = NoOne
    BY <1>2, <1>d, <2>1, GoMoves DEF Prepare
  <2> QED
    BY <1>c, <1>d, <1>e, <2>1, <2>2 DEF Moved, Kept
<1>3. ASSUME NEW q \in Registrant, PutPending(q) PROVE Kept
  <2>1. /\ q \in Requests /\ form[q].pc = "put" /\ UNCHANGED <<account, code, mixed>> /\ pending' = q
    BY <1>3, <1>c DEF PutPending, codes
  <2>2. Moved(q, "code", form[q].guess, q, form[q].answer)
    <3>1. form \in [Requests -> FormState] /\ form' = [form EXCEPT ![q].pc = "code", ![q].value = q]
      BY <1>3, <1>d DEF PutPending, AddressTypeOK, FormState
    <3> QED
      BY <2>1, <3>1 DEF Moved, FormState
  <2> QED
    BY <1>c, <1>d, <1>e, <2>1, <2>2 DEF Moved, Kept
<1>4. ASSUME NEW q \in Registrant, Undo(q) PROVE Kept
  <2>1. /\ q \in Requests /\ form[q].pc = "undo" /\ UNCHANGED <<account, code>>
        /\ pending' \in {NoOne, pending} /\ (~mixed' => ~mixed /\ pending' = NoOne)
    BY <1>4, <1>c DEF Undo, codes
  <2>2. Moved(q, "done", form[q].guess, form[q].value, form[q].answer)
    BY <1>4, <1>d, <2>1, GoMoves DEF Undo
  <2> QED
    BY <1>c, <1>d, <1>e, <2>1, <2>2 DEF Moved, Kept
<1>5. ASSUME NEW q \in Resender, RequestVerification(q) PROVE Kept
  <2>1. /\ q \in Requests /\ form[q].pc = "idle" /\ mixed' = (mixed \/ Overlap(q))
        /\ UNCHANGED <<account, pending, code>>
    BY <1>5, <1>c DEF RequestVerification, codes
  <2>2. PICK next \in {"code", "look"} : Moved(q, next, form[q].guess, form[q].value, form[q].answer)
    BY <1>5, <1>d, <2>1, GoMoves DEF RequestVerification
  <2>3. ~mixed' => ~mixed /\ \A r \in Requests : ~Underway(r)
    BY <2>1, NobodyElse
  <2> QED
    BY <1>c, <1>d, <1>e, <2>1, <2>2, <2>3 DEF Moved, Kept
<1>6. ASSUME NEW q \in Resender, LookPending(q) PROVE Kept
  <2>1. q \in Requests /\ form[q].pc = "look" /\ UNCHANGED <<account, pending, code, mixed>>
    BY <1>6, <1>c DEF LookPending, codes
  <2>2. PICK next, answer :
          /\ Moved(q, next, form[q].guess, form[q].value, answer)
          /\ next \in {"code", "done"} /\ (next # "done" => answer = form[q].answer)
    BY <1>6, <1>d, <2>1, GoMoves DEF LookPending
  <2> QED
    BY <1>c, <1>d, <1>e, <2>1, <2>2 DEF Moved, Kept
<1>7. ASSUME NEW q \in Issuer, PutCode(q) PROVE Kept
  <2>1. q \in Requests /\ form[q].pc = "code" /\ UNCHANGED <<account, pending, mixed>> /\ code' = q
    BY <1>7, <1>c DEF PutCode, PutScript
  <2>2. Moved(q, "send", form[q].guess, form[q].value, form[q].answer)
    BY <1>7, <1>d, <2>1, GoMoves DEF PutCode
  <2>3. CASE q \in Registrant
    BY <1>c, <1>d, <1>e, <2>1, <2>2, <2>3 DEF Moved, Kept
  <2>4. CASE q \in Resender
    BY <1>c, <1>d, <1>e, <2>1, <2>2, <2>4 DEF Moved, Kept
  <2> QED
    BY <2>3, <2>4 DEF Issuer
<1>8. ASSUME NEW q \in Issuer, Send(q) PROVE Kept
  <2>1. q \in Requests /\ form[q].pc = "send" /\ UNCHANGED <<account, pending, code, mixed>>
    BY <1>8, <1>c DEF Send, codes
  <2>2. q \notin Verifier
    BY <1>e DEF Issuer
  <2>3. CASE Proceed(q, "done")
    <3>1. Moved(q, "done", form[q].guess, form[q].value, form[q].answer)
      BY <1>d, <2>1, <2>3, GoMoves
    <3> QED
      BY <1>c, <1>d, <1>e, <2>1, <2>2, <3>1 DEF Moved, Kept
  <2>4. CASE form[q].value = q /\ Proceed(q, "undo")
    <3>1. Moved(q, "undo", form[q].guess, q, form[q].answer)
      BY <1>d, <2>1, <2>4, GoMoves
    <3>2. q \in Registrant
      BY <1>d, <1>e, <2>2, <2>4 DEF Issuer
    <3> QED
      BY <1>c, <1>d, <1>e, <2>1, <2>4, <3>1, <3>2 DEF Moved, Kept
  <2> QED
    BY <1>8, <2>3, <2>4, GiveUpGoes DEF Send
<1>9. ASSUME NEW q \in Requests, CallFails(q) PROVE Kept
  <2>1. /\ form[q].pc \notin {"idle", "undo", "clean", "done"}
        /\ UNCHANGED <<account, pending, code, mixed>>
    BY <1>9 DEF CallFails, codes
  <2>2. CASE form[q].pc \in {"code", "send"} /\ form[q].value = q /\ Proceed(q, "undo")
    <3>1. Moved(q, "undo", form[q].guess, q, form[q].answer)
      BY <1>d, <2>2, GoMoves
    <3>2. q \in Registrant
      BY <1>d, <1>e, <2>2 DEF Requests, Issuer
    <3> QED
      BY <1>c, <1>d, <1>e, <2>1, <2>2, <3>1, <3>2 DEF Moved, Kept
  <2>3. CASE /\ ~(form[q].pc \in {"code", "send"} /\ form[q].value = q)
             /\ Proceed(q, "done")
    <3>1. Moved(q, "done", form[q].guess, form[q].value, form[q].answer)
      BY <1>d, <2>3, GoMoves
    <3> QED
      BY <1>c, <1>d, <1>e, <2>1, <2>3, <3>1 DEF Moved, Kept
  <2> QED
    BY <1>9, <2>2, <2>3, GiveUpGoes DEF CallFails
<1>10. ASSUME NEW q \in Verifier, Consume(q) PROVE Kept
  <2>1. /\ q \in Requests /\ form[q].pc = "idle" /\ mixed' = (mixed \/ Overlap(q))
        /\ UNCHANGED <<account, pending>> /\ code' \in {NoOne, code}
    BY <1>10, <1>c DEF Consume, RightGuess, WrongGuess, Spend
  <2>2. PICK g, next :
          /\ Moved(q, next, g, form[q].value, form[q].answer)
          /\ (next = "find" /\ g = code) \/ next = "done"
    <3>1. CASE WrongGuess(q)
      BY <1>d, <2>1, <3>1, GoMoves DEF WrongGuess
    <3>2. CASE RightGuess(q)
      <4>1. form \in [Requests -> FormState]
        BY <1>d DEF AddressTypeOK, FormState
      <4>2. Moved(q, "find", code, form[q].value, form[q].answer)
        BY <2>1, <3>2, <4>1 DEF RightGuess, Moved, FormState
      <4> QED
        BY <4>2
    <3> QED
      BY <1>10, <3>1, <3>2 DEF Consume
  <2>3. ~mixed' => ~mixed /\ \A r \in Requests : ~Underway(r)
    BY <2>1, NobodyElse
  <2> QED
    BY <1>c, <1>d, <1>e, <2>1, <2>2, <2>3 DEF Moved, Kept
<1>11. ASSUME NEW q \in Verifier, FindAccount(q) PROVE Kept
  <2>1. q \in Requests /\ form[q].pc = "find" /\ UNCHANGED <<pending, code, mixed>>
    BY <1>11, <1>c DEF FindAccount, codes
  <2>2. CASE account # NoOne
    <3>1. PICK answer : Moved(q, "done", form[q].guess, form[q].value, answer)
      BY <1>11, <1>d, <2>1, <2>2, GoMoves, ConfirmMoves, GiveUpGoes DEF FindAccount
    <3>2. account' # NoOne /\ account'.by = account.by /\ account'.verified
      <4>1. account' = [account EXCEPT !.verified = TRUE]
        BY <1>11, <2>2 DEF FindAccount
      <4>2. account \in [by : Registrant \cup {NoOne}, verified : BOOLEAN]
        BY <1>f, <2>2
      <4>3. account' \in [by : Registrant \cup {NoOne}, verified : BOOLEAN]
        BY <4>1, <4>2
      <4>4. account'.by = account.by /\ account'.verified
        BY <4>1, <4>2
      <4> QED
        BY <4>3, <4>4 DEF RegistrationConstants
    <3> QED
      BY <1>c, <1>d, <1>e, <2>1, <2>2, <3>1, <3>2 DEF Moved, Kept
  <2>3. CASE account = NoOne
    <3>1. Moved(q, "get", form[q].guess, form[q].value, form[q].answer) /\ UNCHANGED account
      BY <1>11, <1>d, <2>1, <2>3, GoMoves DEF FindAccount
    <3> QED
      BY <1>c, <1>d, <1>e, <2>1, <2>3, <3>1 DEF Moved, Kept
  <2> QED
    BY <2>2, <2>3
<1>12. ASSUME NEW q \in Verifier, GetPending(q) PROVE Kept
  <2>1. q \in Requests /\ form[q].pc = "get" /\ UNCHANGED <<account, pending, code, mixed>>
    BY <1>12, <1>c DEF GetPending, codes
  <2>2. CASE pending = NoOne
    <3>1. Moved(q, "done", form[q].guess, form[q].value, form[q].answer)
      BY <1>12, <1>d, <2>1, <2>2, GoMoves DEF GetPending
    <3> QED
      BY <1>c, <1>d, <1>e, <2>1, <3>1 DEF Moved, Kept
  <2>3. CASE pending # NoOne
    <3>1. Moved(q, "commit", form[q].guess, pending, form[q].answer)
      <4>1. form \in [Requests -> FormState] /\ form' = [form EXCEPT ![q].pc = "commit", ![q].value = pending]
        BY <1>12, <1>d, <2>3 DEF GetPending, AddressTypeOK, FormState
      <4> QED
        BY <2>1, <4>1 DEF Moved, FormState
    <3> QED
      BY <1>c, <1>d, <1>e, <2>1, <2>3, <3>1 DEF Moved, Kept
  <2> QED
    BY <2>2, <2>3
<1>13. ASSUME NEW q \in Verifier, Commit(q) PROVE Kept
  <2>1. q \in Requests /\ form[q].pc = "commit" /\ UNCHANGED <<account, pending, code, mixed>>
    BY <1>13, <1>c DEF Commit, codes
  <2>2. PICK next \in {"create", "done"} : Moved(q, next, form[q].guess, form[q].value, form[q].answer)
    BY <1>13, <1>d, <2>1, GoMoves DEF Commit
  <2> QED
    BY <1>c, <1>d, <1>e, <2>1, <2>2 DEF Moved, Kept
<1>14. ASSUME NEW q \in Verifier, Create(q) PROVE Kept
  <2>1. q \in Requests /\ form[q].pc = "create" /\ UNCHANGED <<pending, code, mixed>>
    BY <1>14, <1>c DEF Create, codes
  <2>2. CASE account # NoOne
    <3>1. Moved(q, "done", form[q].guess, form[q].value, form[q].answer) /\ UNCHANGED account
      BY <1>14, <1>d, <2>1, <2>2, GoMoves DEF Create
    <3> QED
      BY <1>c, <1>d, <1>e, <2>1, <3>1 DEF Moved, Kept
  <2>3. CASE account = NoOne
    <3>1. PICK next \in {"clean", "done"} : Moved(q, next, form[q].guess, form[q].value, form[q].answer)
      BY <1>14, <1>d, <2>1, <2>3, GoMoves, GiveUpGoes DEF Create
    <3>2. account' = [by |-> form[q].value, verified |-> TRUE]
      BY <1>14, <2>3 DEF Create
    <3>3. account'.by = form[q].value /\ account'.verified /\ account' # NoOne
      <4>1. form[q].value \in Registrant \cup {NoOne}
        BY <1>d, <2>1 DEF AddressTypeOK
      <4>2. account' \in [by : Registrant \cup {NoOne}, verified : BOOLEAN]
        BY <3>2, <4>1
      <4> QED
        BY <3>2, <4>2 DEF RegistrationConstants
    <3> QED
      BY <1>c, <1>d, <1>e, <2>1, <2>3, <3>1, <3>3 DEF Moved, Kept
  <2> QED
    BY <2>2, <2>3
<1>15. ASSUME NEW q \in Verifier, Clean(q) PROVE Kept
  <2>1. /\ q \in Requests /\ form[q].pc = "clean" /\ UNCHANGED <<account, code, mixed>>
        /\ pending' \in {NoOne, pending}
    BY <1>15, <1>c DEF Clean, codes
  <2>2. Moved(q, "done", form[q].guess, form[q].value, "ok")
    BY <1>15, <1>d, <2>1, ConfirmMoves DEF Clean
  <2> QED
    BY <1>c, <1>d, <1>e, <2>1, <2>2 DEF Moved, Kept
<1>16. CASE ExpirePending
  BY <1>16, <1>c, <1>d, <1>e DEF ExpirePending, codes, Kept
<1>17. CASE ExpireCode
  BY <1>17, <1>c, <1>d, <1>e DEF ExpireCode, Spend, Kept
<1>18. CASE UNCHANGED addressVars
  BY <1>18, <1>d DEF addressVars, Kept
<1> QED
  BY <1>1, <1>2, <1>3, <1>4, <1>5, <1>6, <1>7, <1>8, <1>9, <1>10, <1>11, <1>12, <1>13, <1>14, <1>15,
     <1>16, <1>17, <1>18 DEF AddressNext, Kept

\* An address nobody has registered has no request on its way.
LEMMA AccountInit == RegistrationConstants /\ AddressInit => AccountInv
<1> SUFFICES ASSUME RegistrationConstants, AddressInit PROVE AccountInv
  OBVIOUS
<1>1. AddressTypeOK
  BY CodesInit DEF AddressInv
<1>2. pending = NoOne /\ code = NoOne
  BY DEF AddressInit
<1>3. \A q \in Requests : /\ form[q].pc = "idle" /\ form[q].answer = "none"
                          /\ form[q].value = NoOne /\ form[q].guess = NoOne
  BY DEF AddressInit
<1>4. \A q : q \in Registrant \/ q \in Resender \/ q \in Verifier => q \in Requests
  BY DEF Requests, Issuer
<1> QED
  BY <1>1, <1>2, <1>3, <1>4 DEF AccountInv, Ways, Inserted, Alone, PendingIsNew, PendingOfCode,
     TakenOfCode, AccountIsOfItsCode, Underway, RegistrationConstants

\* For any number of registrations, resends and verifications of an address, of which any call may
\* fail (otp.go, register.go): unless two of them overlapped or a failed registration left its pending
\* record behind, the account has the details of the registration whose code was verified.
THEOREM AccountIsOfItsCodeAlways == ASSUME RegistrationConstants PROVE AddressSpec => []AccountIsOfItsCode
<1>1. AddressInit => AccountInv
  BY AccountInit
<1>2. AccountInv /\ [AddressNext]_addressVars => AccountInv'
  BY AccountStep
<1>3. AccountInv => AccountIsOfItsCode
  BY DEF AccountInv
<1> QED
  BY <1>1, <1>2, <1>3, PTL DEF AddressSpec

----------------------------------------------------------------------------
(* A change of the account ends its sessions *)

\* What is kept of a request to the sessions.
Passage == [op : Ops \cup {"none"},
            pc : {"idle", "upgrade", "issue", "recheck", "lock", "commit", "update", "revoke",
                  "revoking", "done"},
            token : Ids, hash : Hash, email : Nat, snap : SUBSET Ids, round : 0 .. RevokeAttempts,
            answer : {"none", "ok", "refused", "failed"}]

Exists(s) == sessions[s].state # "none"

\* A request at a step has got there by its kind,
OpKnown(q) ==
  /\ visit[q].pc \in {"upgrade", "issue", "recheck"} => visit[q].op = "login"
  /\ visit[q].pc \in {"lock", "commit"} => visit[q].op = "refresh"
  /\ visit[q].pc = "update" => visit[q].op \in {"reset", "email"}
  /\ visit[q].pc \in {"revoke", "revoking"} => visit[q].op \in {"login", "reset", "email"}
  /\ visit[q].pc # "done" => visit[q].answer = "none"

\* has no session before it has stored one, which is for the password it will look at again,
Issued(q) ==
  /\ visit[q].pc \in {"idle", "upgrade", "issue", "lock", "commit"} => ~Exists(q)
  /\ visit[q].op \in {"reset", "email", "logout"} => ~Exists(q)
  /\ visit[q].pc = "recheck" => sessions[q].pw = visit[q].hash.pw

\* rotates the session of an answered request, which nobody revokes while its row is locked,
RowClaimed(q) ==
  /\ visit[q].pc \in {"lock", "commit"} => Exists(visit[q].token) /\ Received(visit[q].token)
  /\ visit[q].pc = "commit" =>
       /\ lock[visit[q].token] = q
       /\ sessions[visit[q].token].state \in {"live", "grace", "over"}

\* and revokes sessions that were there when it started.
SeenExists(q) == visit[q].pc = "revoking" => \A s \in visit[q].snap : Exists(s)

RequestKnown == \A q \in Visitor : OpKnown(q) /\ Issued(q) /\ RowClaimed(q) /\ SeenExists(q)

\* Every session goes back to one that was stored, and so do those that a change ended.
RootsExist ==
  /\ \A s \in Ids : Exists(s) => Exists(sessions[s].root)
  /\ \A s \in ended : Exists(s)

\* The change of the account that q has made has not yet been followed by the end of the session s,
\* or has failed to.
WillEnd(q, s) ==
  \/ /\ visit[q].op = "email" \/ (visit[q].op = "reset" /\ visit[q].round # 1)
     /\ visit[q].pc = "revoke" \/ (visit[q].pc = "revoking" /\ s \in visit[q].snap)
  \/ visit[q].op \in {"reset", "email"} /\ visit[q].pc = "done" /\ visit[q].answer = "failed"

\* A usable session of an old password was left by a reset that will end it,
OldWillEnd ==
  \A s \in Ids : Usable(s) /\ Received(s) /\ s \notin slipped /\ sessions[s].pw # hash.pw =>
    \E q \in Visitor : visit[q].op = "reset" /\ WillEnd(q, s)

\* and one from before a change, by a change that will.
ChangedWillEnd ==
  \A s \in Ids : Usable(s) /\ sessions[s].root \in ended /\ s \notin slipped =>
    \E q \in Visitor : WillEnd(q, s)

\* The inductive invariant of the sessions.
SessionInv ==
  /\ SessionTypeOK /\ RequestKnown /\ RootsExist /\ OldWillEnd /\ ChangedWillEnd

\* A request moves on and leaves the sessions, the password and the address alone.
LEMMA OnlyVisit ==
  ASSUME SessionConstants, SessionInv, NEW q \in Visitor, NEW job \in Passage, Set(q, job),
         UNCHANGED <<hash, email, sessions, ended, slipped>>,
         lock' \in [Ids -> Ids],
         \A r \in Visitor \ {q} : visit[r].pc = "commit" => lock'[visit[r].token] = r,
         OpKnown(q)', Issued(q)', RowClaimed(q)', SeenExists(q)',
         visit[q].answer = "ok" => job.answer = "ok",
         job.answer = "ok" /\ Usable(q) => visit[q].answer = "ok" \/ sessions[q].pw = hash.pw,
         visit[q].op = "reset" => job.op = "reset" \/ visit[q].pc = "idle",
         \A s \in Ids : Usable(s) /\ WillEnd(q, s) => WillEnd(q, s)'
  PROVE  SessionInv'
<1>1. /\ visit \in [Visitor -> Passage] /\ visit'[q] = job /\ \A r \in Visitor \ {q} : visit'[r] = visit[r]
      /\ visit' \in [Visitor -> Passage]
  BY DEF Set, SessionInv, SessionTypeOK, Passage
<1>2. SessionTypeOK'
  BY <1>1 DEF SessionInv, SessionTypeOK, Passage
<1>3. \A s \in Ids : (Exists(s) <=> Exists(s)') /\ (Usable(s) <=> Usable(s)')
  BY DEF Exists, Usable
<1>4. \A s : Received(s) => Received(s)'
  BY <1>1 DEF Received
<1>5. RequestKnown'
  <2>1. ASSUME NEW r \in Visitor, r # q PROVE (OpKnown(r) /\ Issued(r) /\ RowClaimed(r) /\ SeenExists(r))'
    <3>1. visit'[r] = visit[r] /\ OpKnown(r) /\ Issued(r) /\ RowClaimed(r) /\ SeenExists(r)
      BY <1>1, <2>1 DEF SessionInv, RequestKnown
    <3>2. visit[r].token \in Ids /\ visit[r].snap \subseteq Ids /\ r \in Ids
      BY <1>1 DEF Passage, Ids
    <3> QED
      BY <1>3, <1>4, <2>1, <3>1, <3>2 DEF OpKnown, Issued, RowClaimed, SeenExists
  <2> QED
    BY <2>1 DEF RequestKnown
<1>6. RootsExist'
  BY DEF SessionInv, RootsExist, Exists
<1>7. ASSUME NEW s \in Ids, Usable(s), NEW r \in Visitor, WillEnd(r, s)
      PROVE  WillEnd(r, s)' /\ (visit[r].op = "reset" => visit'[r].op = "reset")
  <2>1. CASE r = q
    BY <1>1, <1>7, <2>1 DEF WillEnd
  <2>2. CASE r # q
    BY <1>1, <1>7, <2>2 DEF WillEnd
  <2> QED
    BY <2>1, <2>2
<1>8. OldWillEnd'
  <2> SUFFICES ASSUME NEW s \in Ids, Usable(s)', Received(s)', s \notin slipped', sessions'[s].pw # hash'.pw
               PROVE  \E r \in Visitor : visit'[r].op = "reset" /\ WillEnd(r, s)'
    BY DEF OldWillEnd
  <2>1. Usable(s) /\ s \notin slipped /\ sessions[s].pw # hash.pw
    BY <1>3
  <2>2. Received(s)
    BY <1>1, <2>1 DEF Received
  <2>3. PICK r \in Visitor : visit[r].op = "reset" /\ WillEnd(r, s)
    BY <2>1, <2>2 DEF SessionInv, OldWillEnd
  <2> QED
    BY <1>7, <2>1, <2>3
<1>9. ChangedWillEnd'
  <2> SUFFICES ASSUME NEW s \in Ids, Usable(s)', sessions'[s].root \in ended', s \notin slipped'
               PROVE  \E r \in Visitor : WillEnd(r, s)'
    BY DEF ChangedWillEnd
  <2>1. Usable(s) /\ sessions[s].root \in ended /\ s \notin slipped
    BY <1>3
  <2>2. PICK r \in Visitor : WillEnd(r, s)
    BY <2>1 DEF SessionInv, ChangedWillEnd
  <2> QED
    BY <1>7, <2>1, <2>2
<1> QED
  BY <1>2, <1>5, <1>6, <1>8, <1>9 DEF SessionInv

\* A statement, or the clock, ends usable sessions; the request that it is of moves on.
LEMMA OnlyEnds ==
  ASSUME SessionConstants, SessionInv, NEW q \in Visitor, NEW job \in Passage, Set(q, job),
         UNCHANGED <<hash, email, lock, ended, slipped>>,
         sessions' \in [Ids -> [state : State, pw : Nat, root : Ids]],
         \A s \in Ids : /\ sessions'[s].pw = sessions[s].pw /\ sessions'[s].root = sessions[s].root
                        /\ Exists(s)' <=> Exists(s)
                        /\ Usable(s)' => Usable(s)
                        /\ lock[s] # Seed => sessions'[s].state = sessions[s].state
                                             \/ sessions'[s].state \in {"live", "grace", "over"},
         OpKnown(q)', Issued(q)', RowClaimed(q)', SeenExists(q)',
         visit[q].answer = "ok" => job.answer = "ok",
         job.answer = "ok" /\ Usable(q) => visit[q].answer = "ok",
         visit[q].op = "reset" => job.op = "reset" \/ visit[q].pc = "idle",
         \A s \in Ids : Usable(s)' /\ WillEnd(q, s) => WillEnd(q, s)'
  PROVE  SessionInv'
<1>1. /\ visit \in [Visitor -> Passage] /\ visit'[q] = job /\ \A r \in Visitor \ {q} : visit'[r] = visit[r]
      /\ visit' \in [Visitor -> Passage]
  BY DEF Set, SessionInv, SessionTypeOK, Passage
<1>2. SessionTypeOK'
  BY <1>1 DEF SessionInv, SessionTypeOK, Passage
<1>4. \A s : Received(s) => Received(s)'
  BY <1>1 DEF Received
<1>5. RequestKnown'
  <2>1. ASSUME NEW r \in Visitor, r # q PROVE (OpKnown(r) /\ Issued(r) /\ RowClaimed(r) /\ SeenExists(r))'
    <3>1. visit'[r] = visit[r] /\ OpKnown(r) /\ Issued(r) /\ RowClaimed(r) /\ SeenExists(r)
      BY <1>1, <2>1 DEF SessionInv, RequestKnown
    <3>2. visit[r].token \in Ids /\ visit[r].snap \subseteq Ids /\ r \in Ids /\ r # Seed
      BY <1>1 DEF Passage, Ids, SessionConstants
    <3>3. OpKnown(r)' /\ Issued(r)' /\ SeenExists(r)'
      BY <3>1, <3>2 DEF OpKnown, Issued, SeenExists
    <3>4. RowClaimed(r)'
      BY <1>4, <3>1, <3>2 DEF RowClaimed
    <3> QED
      BY <3>3, <3>4
  <2> QED
    BY <2>1 DEF RequestKnown
<1>6. RootsExist'
  <2>1. \A s \in Ids : sessions[s].root \in Ids
    BY DEF SessionInv, SessionTypeOK
  <2>2. ended \subseteq Ids
    BY DEF SessionInv, SessionTypeOK
  <2> QED
    BY <2>1, <2>2 DEF SessionInv, RootsExist
<1>7. ASSUME NEW s \in Ids, Usable(s)', NEW r \in Visitor, WillEnd(r, s)
      PROVE  WillEnd(r, s)' /\ (visit[r].op = "reset" => visit'[r].op = "reset")
  <2>1. CASE r = q
    BY <1>1, <1>7, <2>1 DEF WillEnd
  <2>2. CASE r # q
    BY <1>1, <1>7, <2>2 DEF WillEnd
  <2> QED
    BY <2>1, <2>2
<1>8. OldWillEnd'
  <2> SUFFICES ASSUME NEW s \in Ids, Usable(s)', Received(s)', s \notin slipped', sessions'[s].pw # hash'.pw
               PROVE  \E r \in Visitor : visit'[r].op = "reset" /\ WillEnd(r, s)'
    BY DEF OldWillEnd
  <2>1. Usable(s) /\ s \notin slipped /\ sessions[s].pw # hash.pw
    OBVIOUS
  <2>2. Received(s)
    BY <1>1, <2>1 DEF Received
  <2>3. PICK r \in Visitor : visit[r].op = "reset" /\ WillEnd(r, s)
    BY <2>1, <2>2 DEF SessionInv, OldWillEnd
  <2> QED
    BY <1>7, <2>1, <2>3
<1>9. ChangedWillEnd'
  <2> SUFFICES ASSUME NEW s \in Ids, Usable(s)', sessions'[s].root \in ended', s \notin slipped'
               PROVE  \E r \in Visitor : WillEnd(r, s)'
    BY DEF ChangedWillEnd
  <2>1. Usable(s) /\ sessions[s].root \in ended /\ s \notin slipped
    OBVIOUS
  <2>2. PICK r \in Visitor : WillEnd(r, s)
    BY <2>1 DEF SessionInv, ChangedWillEnd
  <2> QED
    BY <1>7, <2>1, <2>2
<1> QED
  BY <1>2, <1>5, <1>6, <1>8, <1>9 DEF SessionInv

LEMMA SessionStart == SessionConstants /\ SessionInit => SessionInv
<1> SUFFICES ASSUME SessionConstants, SessionInit PROVE SessionInv
  OBVIOUS
<1>1. SessionTypeOK
  BY DEF SessionInit, SessionTypeOK, Idle, Hash, State, NoSession, RevokeAttempts, Ids
<1>2. /\ \A q \in Visitor : visit[q] = Idle
      /\ \A s \in Ids : sessions[s] = IF s = Seed THEN [NoSession EXCEPT !.state = "live"] ELSE NoSession
      /\ ended = {} /\ hash.pw = 0
  BY DEF SessionInit
<1>3. RequestKnown
  <2> SUFFICES ASSUME NEW q \in Visitor PROVE OpKnown(q) /\ Issued(q) /\ RowClaimed(q) /\ SeenExists(q)
    BY DEF RequestKnown
  <2>1. visit[q] = Idle /\ sessions[q] = NoSession
    BY <1>2 DEF Ids, SessionConstants
  <2> QED
    BY <2>1 DEF OpKnown, Issued, RowClaimed, SeenExists, Idle, Exists, NoSession
<1>4. RootsExist /\ OldWillEnd /\ ChangedWillEnd
  BY <1>2 DEF RootsExist, OldWillEnd, ChangedWillEnd, Exists, NoSession, Ids
<1> QED
  BY <1>1, <1>3, <1>4 DEF SessionInv

\* Every step keeps what is known of the sessions.
LEMMA SessionStep == SessionConstants /\ SessionInv /\ [SessionNext]_sessionVars => SessionInv'
<1> SUFFICES ASSUME SessionConstants, SessionInv, [SessionNext]_sessionVars PROVE SessionInv'
  OBVIOUS
<1>a. /\ SessionTypeOK /\ visit \in [Visitor -> Passage] /\ RequestKnown
      /\ \A q \in Visitor : q \in Ids /\ q # Seed /\ OpKnown(q) /\ Issued(q) /\ RowClaimed(q) /\ SeenExists(q)
  BY DEF SessionInv, SessionTypeOK, Passage, RequestKnown, Ids, SessionConstants
<1>b. \A q \in Visitor, job \in Passage : Set(q, job) => visit'[q] = job
  BY <1>a DEF Set
<1>c. /\ lock \in [Ids -> Ids] /\ hash \in Hash /\ email \in Nat
      /\ \A r \in Visitor : visit[r].pc = "commit" => lock[visit[r].token] = r
  BY <1>a DEF SessionTypeOK, RowClaimed
<1>d. Idle \in Passage /\ Idle.answer = "none" /\ Idle.op = "none"
  <2>1. [pw |-> 0, by |-> Seed] \in Hash
    BY DEF Hash, Ids
  <2> QED
    BY <2>1 DEF Idle, Passage, Ids, RevokeAttempts
<1>1. ASSUME NEW q \in Visitor, Login(q), "login" \in Ops PROVE SessionInv'
  <2>1. PICK job \in Passage :
          /\ Set(q, job) /\ job.op = "login"
          /\ \/ job.pc \in {"upgrade", "issue"} /\ job.answer = "none"
             \/ job.pc = "done" /\ job.answer = "refused"
    <3>1. CASE Set(q, [Idle EXCEPT !.op = "login", !.hash = hash, !.pc = IF hash.by = "legacy" THEN "upgrade" ELSE "issue"])
      <4>1. PICK at \in {"upgrade", "issue"} : Set(q, [Idle EXCEPT !.op = "login", !.hash = hash, !.pc = at])
        BY <3>1
      <4>2. [Idle EXCEPT !.op = "login", !.hash = hash, !.pc = at] \in Passage
        BY <1>1, <1>c, <1>d DEF Passage
      <4> QED
        BY <1>d, <4>1, <4>2 DEF Passage
    <3>2. CASE Set(q, [Idle EXCEPT !.op = "login", !.pc = "done", !.answer = "refused"])
      <4>1. [Idle EXCEPT !.op = "login", !.pc = "done", !.answer = "refused"] \in Passage
        BY <1>1, <1>d DEF Passage
      <4> QED
        BY <1>d, <3>2, <4>1 DEF Passage
    <3> QED
      BY <1>1, <3>1, <3>2 DEF Login
  <2>2. visit[q].pc = "idle" /\ UNCHANGED <<hash, email, sessions, lock, ended, slipped>>
    BY <1>1 DEF Login
  <2>3. visit'[q] = job
    BY <1>b, <2>1
  <2>4. OpKnown(q)' /\ Issued(q)' /\ RowClaimed(q)' /\ SeenExists(q)'
    BY <1>a, <2>1, <2>2, <2>3 DEF OpKnown, Issued, RowClaimed, SeenExists, Exists
  <2>5. \A s : ~WillEnd(q, s)
    BY <2>2 DEF WillEnd
  <2>6. visit[q].answer # "ok" /\ job.answer # "ok"
    BY <1>a, <2>1, <2>2 DEF OpKnown
  <2> QED
    BY <1>c, <2>1, <2>2, <2>4, <2>5, <2>6, OnlyVisit
<1>2. ASSUME NEW q \in Visitor, Upgrade(q) PROVE SessionInv'
  <2>1. /\ visit[q].pc = "upgrade" /\ visit[q].op = "login" /\ visit[q].answer = "none" /\ visit[q] \in Passage
        /\ UNCHANGED <<email, sessions, lock, ended, slipped>>
    BY <1>2, <1>a DEF Upgrade, OpKnown
  <2>2. CASE UNCHANGED hash /\ Turn(q, "issue")
    <3>1. PICK job \in Passage : Set(q, job) /\ job = [visit[q] EXCEPT !.pc = "issue"]
      BY <2>1, <2>2 DEF Turn, Passage
    <3>2. visit'[q] = job /\ UNCHANGED hash
      BY <1>b, <2>2, <3>1
    <3>3. OpKnown(q)' /\ Issued(q)' /\ RowClaimed(q)' /\ SeenExists(q)'
      BY <1>a, <2>1, <3>1, <3>2 DEF OpKnown, Issued, RowClaimed, SeenExists, Exists, Passage
    <3>4. \A s : ~WillEnd(q, s)
      BY <2>1 DEF WillEnd
    <3> QED
      BY <1>c, <2>1, <3>1, <3>2, <3>3, <3>4, OnlyVisit DEF Passage
  <2>3. CASE /\ hash = visit[q].hash /\ hash' = [pw |-> hash.pw, by |-> q]
             /\ \/ Set(q, [visit[q] EXCEPT !.pc = "issue", !.hash = [pw |-> hash.pw, by |-> q]])
                \/ Turn(q, "issue")
    <3>1. hash' = [pw |-> hash.pw, by |-> q] /\ hash' \in Hash /\ hash'.pw = hash.pw
      BY <1>a, <1>c, <2>3 DEF Hash
    <3>2. PICK job \in Passage : /\ Set(q, job) /\ job = [visit[q] EXCEPT !.pc = "issue", !.hash = job.hash]
                                /\ job.hash \in {hash, hash'}
      <4>1. CASE Set(q, [visit[q] EXCEPT !.pc = "issue", !.hash = [pw |-> hash.pw, by |-> q]])
        <5>1. PICK job : job = [visit[q] EXCEPT !.pc = "issue", !.hash = [pw |-> hash.pw, by |-> q]]
          OBVIOUS
        <5>2. job \in Passage /\ job.hash = hash'
          BY <2>1, <2>3, <3>1, <5>1 DEF Passage
        <5> QED
          BY <2>3, <4>1, <5>1, <5>2
      <4>2. CASE Turn(q, "issue")
        <5>1. PICK job : job = [visit[q] EXCEPT !.pc = "issue"]
          OBVIOUS
        <5>2. job \in Passage /\ job.hash = hash /\ job = [visit[q] EXCEPT !.pc = "issue", !.hash = job.hash]
          BY <2>1, <2>3, <5>1 DEF Passage
        <5> QED
          BY <4>2, <5>1, <5>2 DEF Turn
      <4> QED
        BY <2>3, <4>1, <4>2
    <3>3. /\ visit'[q] = job /\ \A r \in Visitor \ {q} : visit'[r] = visit[r]
          /\ visit' \in [Visitor -> Passage]
      BY <1>a, <3>2 DEF Set
    <3>4. job.pc = "issue" /\ job.op = "login" /\ job.answer = "none"
      BY <2>1, <3>2 DEF Passage
    <3>5. SessionTypeOK'
      BY <1>a, <2>1, <3>1, <3>3 DEF SessionTypeOK, Passage
    <3>6. \A s : Received(s) <=> Received(s)'
      BY <1>a, <2>1, <3>3, <3>4 DEF Received
    <3>7. RequestKnown'
      BY <1>a, <2>1, <3>3, <3>4, <3>6 DEF RequestKnown, OpKnown, Issued, RowClaimed, SeenExists, Exists
    <3>8. \A r \in Visitor, s \in Ids : WillEnd(r, s) => WillEnd(r, s)' /\ visit'[r].op = visit[r].op
      BY <2>1, <3>3, <3>4 DEF WillEnd
    <3>9. RootsExist' /\ OldWillEnd' /\ ChangedWillEnd'
      <4>1. RootsExist'
        BY <2>1 DEF SessionInv, RootsExist, Exists
      <4>2. OldWillEnd'
        BY <2>1, <3>1, <3>6, <3>8 DEF SessionInv, OldWillEnd, Usable
      <4>3. ChangedWillEnd'
        BY <2>1, <3>8 DEF SessionInv, ChangedWillEnd, Usable
      <4> QED
        BY <4>1, <4>2, <4>3
    <3> QED
      BY <3>5, <3>7, <3>9 DEF SessionInv
  <2> QED
    BY <1>2, <2>2, <2>3 DEF Upgrade
<1>3. ASSUME NEW q \in Visitor, Issue(q) PROVE SessionInv'
  <2>1. /\ visit[q].pc = "issue" /\ visit[q].op = "login" /\ visit[q].answer = "none" /\ visit[q] \in Passage
        /\ UNCHANGED <<hash, email, lock, ended, slipped>> /\ ~Exists(q) /\ q \in Ids
    BY <1>3, <1>a DEF Issue, OpKnown, Issued
  <2>2. PICK job \in Passage : Set(q, job) /\ job = [visit[q] EXCEPT !.pc = "recheck"]
    BY <1>3, <2>1 DEF Issue, Turn, Passage
  <2>3. /\ visit'[q] = job /\ \A r \in Visitor \ {q} : visit'[r] = visit[r]
        /\ visit' \in [Visitor -> Passage]
    BY <1>a, <2>2 DEF Set
  <2>4. job.pc = "recheck" /\ job.op = "login" /\ job.answer = "none" /\ job.hash = visit[q].hash
    BY <2>1, <2>2 DEF Passage
  <2>5. /\ sessions'[q] = [state |-> "live", pw |-> visit[q].hash.pw, root |-> q]
        /\ \A s \in Ids \ {q} : sessions'[s] = sessions[s]
        /\ sessions' \in [Ids -> [state : State, pw : Nat, root : Ids]]
    BY <1>3, <1>a, <2>1 DEF Issue, SessionTypeOK, Passage, Hash, State
  <2>6. SessionTypeOK'
    BY <1>a, <2>1, <2>3, <2>5 DEF SessionTypeOK, Passage
  <2>7. \A s : Received(s) <=> Received(s)'
    BY <1>a, <2>1, <2>3, <2>4 DEF Received
  <2>8. /\ \A s \in Ids : Exists(s) => Exists(s)' /\ s # q
        /\ \A s \in Ids : Exists(s) /\ s # q => sessions'[s] = sessions[s]
        /\ Exists(q)'
        /\ \A s \in Ids : Exists(s)' => s = q \/ Exists(s)
    BY <2>1, <2>5 DEF Exists
  <2>9. RequestKnown'
    <3>1. ASSUME NEW r \in Visitor, r # q PROVE (OpKnown(r) /\ Issued(r) /\ RowClaimed(r) /\ SeenExists(r))'
      <4>1. visit'[r] = visit[r] /\ visit[r].token \in Ids /\ visit[r].snap \subseteq Ids /\ r \in Ids
        BY <1>a, <2>3, <3>1 DEF Passage
      <4>2. OpKnown(r)' /\ Issued(r)'
        BY <1>a, <2>5, <3>1, <4>1 DEF OpKnown, Issued, Exists
      <4>3. RowClaimed(r)'
        <5>1. visit[r].pc \in {"lock", "commit"} => visit[r].token # q
          BY <1>a, <2>1, <4>1 DEF RowClaimed
        <5> QED
          BY <1>a, <2>1, <2>5, <2>7, <2>8, <4>1, <5>1 DEF RowClaimed
      <4>4. SeenExists(r)'
        BY <1>a, <2>8, <4>1 DEF SeenExists
      <4> QED
        BY <4>2, <4>3, <4>4
    <3>2. (OpKnown(q) /\ Issued(q) /\ RowClaimed(q) /\ SeenExists(q))'
      BY <2>3, <2>4, <2>5 DEF OpKnown, Issued, RowClaimed, SeenExists
    <3> QED
      BY <3>1, <3>2 DEF RequestKnown
  <2>10. RootsExist'
    <3>1. \A s \in Ids : sessions[s].root \in Ids
      BY <1>a DEF SessionTypeOK
    <3>2. \A s \in Ids : Exists(s)' => Exists(sessions[s].root)'
      <4>1. Exists(sessions[q].root)'
        BY <2>5, <2>8 DEF Exists
      <4>2. ASSUME NEW s \in Ids, Exists(s)', s # q PROVE Exists(sessions[s].root)'
        <5>1. Exists(s) /\ sessions'[s] = sessions[s] /\ Exists(sessions[s].root)
          BY <2>5, <2>8, <4>2 DEF SessionInv, RootsExist
        <5> QED
          BY <2>8, <3>1, <5>1 DEF Exists
      <4> QED
        BY <4>1, <4>2
    <3>3. \A s \in ended' : Exists(s)'
      BY <1>a, <2>1, <2>8 DEF SessionInv, RootsExist, SessionTypeOK
    <3> QED
      BY <3>2, <3>3 DEF RootsExist
  <2>11. \A r \in Visitor, s \in Ids : WillEnd(r, s) => WillEnd(r, s)' /\ visit'[r].op = visit[r].op
    BY <2>1, <2>3, <2>4 DEF WillEnd
  <2>12. OldWillEnd'
    <3>1. \A s \in Ids : Usable(s)' /\ Received(s)' => s # q /\ sessions'[s] = sessions[s] /\ Usable(s)
      BY <1>a, <2>3, <2>4, <2>5 DEF Received, Usable
    <3> QED
      BY <2>1, <2>7, <2>11, <3>1 DEF SessionInv, OldWillEnd
  <2>13. ChangedWillEnd'
    <3>1. q \notin ended
      BY <1>a, <2>1 DEF SessionInv, RootsExist
    <3>2. \A s \in Ids : Usable(s)' /\ sessions'[s].root \in ended => s # q /\ sessions'[s] = sessions[s] /\ Usable(s)
      BY <2>5, <3>1 DEF Usable
    <3> QED
      BY <2>1, <2>11, <3>2 DEF SessionInv, ChangedWillEnd
  <2> QED
    BY <2>6, <2>9, <2>10, <2>12, <2>13 DEF SessionInv
<1>4. ASSUME NEW q \in Visitor, EnsureUnchanged(q) PROVE SessionInv'
  <2>1. /\ visit[q].pc = "recheck" /\ visit[q].op = "login" /\ visit[q].answer = "none" /\ visit[q] \in Passage
        /\ UNCHANGED <<hash, email, sessions, lock, ended, slipped>> /\ sessions[q].pw = visit[q].hash.pw
    BY <1>4, <1>a DEF EnsureUnchanged, OpKnown, Issued
  <2>2. PICK job \in Passage :
          /\ Set(q, job) /\ job.op = "login"
          /\ \/ job.pc = "done" /\ job.answer = "ok" /\ hash = visit[q].hash
             \/ job.pc = "revoke" /\ job.answer = "none"
    <3>1. CASE End(q, "ok") /\ hash = visit[q].hash
      <4>1. [visit[q] EXCEPT !.pc = "done", !.answer = "ok"] \in Passage
        BY <2>1 DEF Passage
      <4> QED
        BY <2>1, <3>1, <4>1 DEF End, Passage
    <3>2. CASE Turn(q, "revoke")
      BY <2>1, <3>2 DEF Turn, Passage
    <3> QED
      BY <1>4, <3>1, <3>2 DEF EnsureUnchanged
  <2>3. visit'[q] = job
    BY <1>b, <2>2
  <2>4. OpKnown(q)' /\ Issued(q)' /\ RowClaimed(q)' /\ SeenExists(q)'
    BY <2>1, <2>2, <2>3 DEF OpKnown, Issued, RowClaimed, SeenExists
  <2>5. \A s : ~WillEnd(q, s)
    BY <2>1 DEF WillEnd
  <2>6. job.answer = "ok" => sessions[q].pw = hash.pw
    BY <2>1, <2>2
  <2> QED
    BY <1>c, <2>1, <2>2, <2>4, <2>5, <2>6, OnlyVisit
<1>5. ASSUME NEW q \in Visitor, NEW s \in Ids, FindActive(q, s), "refresh" \in Ops PROVE SessionInv'
  <2>1. PICK job \in Passage :
          /\ Set(q, job) /\ job.op = "refresh" /\ job.token = s
          /\ \/ job.pc = "lock" /\ job.answer = "none"
             \/ job.pc = "done" /\ job.answer = "refused"
    <3>1. CASE Set(q, [Idle EXCEPT !.op = "refresh", !.token = s, !.pc = "lock"])
      <4>1. [Idle EXCEPT !.op = "refresh", !.token = s, !.pc = "lock"] \in Passage
        BY <1>5, <1>d DEF Passage
      <4> QED
        BY <1>d, <3>1, <4>1 DEF Passage
    <3>2. CASE Set(q, [Idle EXCEPT !.op = "refresh", !.token = s, !.pc = "done", !.answer = "refused"])
      <4>1. [Idle EXCEPT !.op = "refresh", !.token = s, !.pc = "done", !.answer = "refused"] \in Passage
        BY <1>5, <1>d DEF Passage
      <4> QED
        BY <1>d, <3>2, <4>1 DEF Passage
    <3> QED
      BY <1>5, <3>1, <3>2 DEF FindActive
  <2>2. /\ visit[q].pc = "idle" /\ UNCHANGED <<hash, email, sessions, lock, ended, slipped>>
        /\ Received(s) /\ Exists(s)
    BY <1>5 DEF FindActive, Exists
  <2>3. visit'[q] = job /\ \A r \in Visitor \ {q} : visit'[r] = visit[r]
    BY <1>a, <2>1 DEF Set
  <2>4. visit[q].answer # "ok" /\ job.answer # "ok"
    BY <1>a, <2>1, <2>2 DEF OpKnown
  <2>5. Received(s)'
    BY <2>2, <2>3, <2>4 DEF Received
  <2>6. OpKnown(q)' /\ Issued(q)' /\ RowClaimed(q)' /\ SeenExists(q)'
    BY <1>a, <2>1, <2>2, <2>3, <2>5 DEF OpKnown, Issued, RowClaimed, SeenExists, Exists
  <2>7. \A x : ~WillEnd(q, x)
    BY <2>2 DEF WillEnd
  <2> QED
    BY <1>c, <2>1, <2>2, <2>4, <2>6, <2>7, OnlyVisit
<1>6. ASSUME NEW q \in Visitor, RotateLock(q) PROVE SessionInv'
  <2>1. /\ visit[q].pc = "lock" /\ visit[q].op = "refresh" /\ visit[q].answer = "none" /\ visit[q] \in Passage
        /\ lock[visit[q].token] = Seed /\ UNCHANGED <<hash, email, sessions, ended, slipped>>
        /\ visit[q].token \in Ids /\ Exists(visit[q].token) /\ Received(visit[q].token) /\ ~Exists(q)
    BY <1>6, <1>a DEF RotateLock, OpKnown, RowClaimed, Issued, Passage
  <2>2. \A s : ~WillEnd(q, s)
    BY <2>1 DEF WillEnd
  <2>3. CASE ~StillActive(q)
    <3>1. PICK job \in Passage :
            Set(q, job) /\ job.op = "refresh" /\ job.pc = "done" /\ job.answer = "refused"
      <4>1. [visit[q] EXCEPT !.pc = "done", !.answer = "refused"] \in Passage
        BY <2>1 DEF Passage
      <4> QED
        BY <1>6, <2>1, <2>3, <4>1 DEF RotateLock, End, Passage
    <3>2. UNCHANGED lock /\ visit'[q] = job
      BY <1>6, <1>b, <2>3, <3>1 DEF RotateLock
    <3>3. OpKnown(q)' /\ Issued(q)' /\ RowClaimed(q)' /\ SeenExists(q)'
      BY <3>1, <3>2 DEF OpKnown, Issued, RowClaimed, SeenExists
    <3> QED
      BY <1>c, <2>1, <2>2, <3>1, <3>2, <3>3, OnlyVisit
  <2>4. CASE StillActive(q)
    <3>1. PICK job \in Passage :
            Set(q, job) /\ job.op = "refresh" /\ job.pc = "commit" /\ job.answer = "none" /\ job.token = visit[q].token
      <4>1. [visit[q] EXCEPT !.pc = "commit"] \in Passage
        BY <2>1 DEF Passage
      <4> QED
        BY <1>6, <2>1, <2>4, <4>1 DEF RotateLock, Turn, Passage
    <3>2. lock' = [lock EXCEPT ![visit[q].token] = q]
      BY <1>6, <2>4 DEF RotateLock
    <3>3. /\ visit'[q] = job /\ \A r \in Visitor \ {q} : visit'[r] = visit[r]
          /\ lock' \in [Ids -> Ids] /\ lock'[visit[q].token] = q
          /\ \A r \in Visitor \ {q} : visit[r].pc = "commit" => lock'[visit[r].token] = r
      BY <1>a, <1>c, <2>1, <3>1, <3>2 DEF Set
    <3>4. Received(visit[q].token)'
      BY <1>a, <2>1, <3>1, <3>3 DEF Received
    <3>5. sessions[visit[q].token].state \in {"live", "grace", "over"}
      BY <2>4 DEF StillActive, Usable
    <3>6. OpKnown(q)' /\ Issued(q)' /\ RowClaimed(q)' /\ SeenExists(q)'
      BY <2>1, <3>1, <3>3, <3>4, <3>5 DEF OpKnown, Issued, RowClaimed, SeenExists, Exists
    <3> QED
      BY <2>1, <2>2, <3>1, <3>3, <3>6, OnlyVisit
  <2> QED
    BY <2>3, <2>4
<1>7. ASSUME NEW q \in Visitor, RotateCommit(q) PROVE SessionInv'
  <2> DEFINE s == visit[q].token
  <2>1. /\ visit[q].pc = "commit" /\ visit[q].op = "refresh" /\ visit[q].answer = "none" /\ visit[q] \in Passage
        /\ lock[s] = q /\ sessions[s].state \in {"live", "grace", "over"}
        /\ UNCHANGED <<hash, email, ended>>
        /\ s \in Ids /\ Exists(s) /\ Received(s) /\ ~Exists(q) /\ s # q
    BY <1>7, <1>a DEF RotateCommit, OpKnown, RowClaimed, Issued, Passage
  <2>2. \A x : ~WillEnd(q, x)
    BY <2>1 DEF WillEnd
  <2>3. /\ lock' = [lock EXCEPT ![s] = Seed] /\ lock' \in [Ids -> Ids]
        /\ \A r \in Visitor \ {q} : visit[r].pc = "commit" => visit[r].token # s /\ lock'[visit[r].token] = r
    BY <1>7, <1>a, <1>c, <2>1 DEF RotateCommit, Passage, Ids
  <2>4. PICK job \in Passage :
          Set(q, job) /\ job.op = "refresh" /\ job.pc = "done"
          /\ \/ job.answer = "failed" /\ UNCHANGED <<sessions, slipped>>
             \/ /\ job.answer = "ok"
                /\ sessions' = [sessions EXCEPT ![s].state = IF @ = "live" THEN "grace" ELSE @,
                                   ![q] = [state |-> "live", pw |-> sessions[s].pw, root |-> sessions[s].root]]
                /\ slipped' = IF Behind(q) \/ s \in slipped \/ sessions[s].state = "over"
                              THEN slipped \cup {q} ELSE slipped
    <3>1. [visit[q] EXCEPT !.pc = "done", !.answer = "failed"] \in Passage
      BY <2>1 DEF Passage
    <3>2. [visit[q] EXCEPT !.pc = "done", !.answer = "ok"] \in Passage
      BY <2>1 DEF Passage
    <3> QED
      BY <1>7, <2>1, <3>1, <3>2 DEF RotateCommit, End, Passage
  <2>5. /\ visit'[q] = job /\ \A r \in Visitor \ {q} : visit'[r] = visit[r]
        /\ visit' \in [Visitor -> Passage]
    BY <1>a, <2>4 DEF Set
  <2>6. CASE job.answer = "failed" /\ UNCHANGED <<sessions, slipped>>
    <3>1. OpKnown(q)' /\ Issued(q)' /\ RowClaimed(q)' /\ SeenExists(q)'
      BY <2>4, <2>5 DEF OpKnown, Issued, RowClaimed, SeenExists
    <3> QED
      BY <2>1, <2>2, <2>3, <2>4, <2>6, <3>1, OnlyVisit
  <2>7. CASE /\ job.answer = "ok"
             /\ sessions' = [sessions EXCEPT ![s].state = IF @ = "live" THEN "grace" ELSE @,
                                ![q] = [state |-> "live", pw |-> sessions[s].pw, root |-> sessions[s].root]]
             /\ slipped' = IF Behind(q) \/ s \in slipped \/ sessions[s].state = "over"
                           THEN slipped \cup {q} ELSE slipped
    <3>1. sessions \in [Ids -> [state : State, pw : Nat, root : Ids]] /\ q \in Ids
      BY <1>a DEF SessionTypeOK
    <3>2. /\ sessions'[q] = [state |-> "live", pw |-> sessions[s].pw, root |-> sessions[s].root]
          /\ sessions'[s].pw = sessions[s].pw /\ sessions'[s].root = sessions[s].root
          /\ sessions'[s].state = IF sessions[s].state = "live" THEN "grace" ELSE sessions[s].state
          /\ \A x \in Ids \ {q, s} : sessions'[x] = sessions[x]
          /\ sessions' \in [Ids -> [state : State, pw : Nat, root : Ids]]
      BY <2>1, <2>7, <3>1 DEF State
    <3>3. /\ \A x \in Ids \ {q} : (Exists(x)' <=> Exists(x)) /\ (Usable(x)' <=> Usable(x))
          /\ \A x \in Ids \ {q} : sessions'[x].pw = sessions[x].pw /\ sessions'[x].root = sessions[x].root
          /\ Exists(q)' /\ \A x \in Ids : Exists(x) => Exists(x)' /\ x # q
      BY <2>1, <3>1, <3>2 DEF Exists, Usable
    <3>4. \A x : Received(x) => Received(x)'
      BY <1>a, <2>1, <2>5 DEF Received
    <3>5. \A x : Received(x)' => x = q \/ Received(x)
      BY <1>a, <2>5 DEF Received
    <3>6. SessionTypeOK'
      BY <1>a, <2>1, <2>3, <2>5, <2>7, <3>1, <3>2 DEF SessionTypeOK, Passage
    <3>7. RequestKnown'
      <4>1. ASSUME NEW r \in Visitor, r # q PROVE (OpKnown(r) /\ Issued(r) /\ RowClaimed(r) /\ SeenExists(r))'
        <5>1. /\ visit'[r] = visit[r] /\ r \in Ids
              /\ visit[r].token \in Ids /\ visit[r].snap \subseteq Ids
          BY <1>a, <2>5, <4>1 DEF Passage
        <5>2. OpKnown(r)' /\ Issued(r)' /\ SeenExists(r)'
          BY <1>a, <3>3, <4>1, <5>1 DEF OpKnown, Issued, SeenExists
        <5>3. RowClaimed(r)'
          <6>1. visit[r].pc \in {"lock", "commit"} => visit[r].token # q
            BY <1>a, <2>1, <4>1 DEF RowClaimed
          <6>2. visit[r].pc = "commit" => sessions'[visit[r].token] = sessions[visit[r].token]
            BY <2>3, <3>2, <4>1, <5>1, <6>1
          <6> QED
            BY <1>a, <2>3, <3>3, <3>4, <4>1, <5>1, <6>1, <6>2 DEF RowClaimed
        <5> QED
          BY <5>2, <5>3
      <4>2. (OpKnown(q) /\ Issued(q) /\ RowClaimed(q) /\ SeenExists(q))'
        BY <2>4, <2>5 DEF OpKnown, Issued, RowClaimed, SeenExists
      <4> QED
        BY <4>1, <4>2 DEF RequestKnown
    <3>8. RootsExist'
      <4>1. \A x \in Ids : sessions[x].root \in Ids /\ (Exists(x) => Exists(sessions[x].root))
        BY <3>1 DEF SessionInv, RootsExist
      <4>2. ASSUME NEW x \in Ids, Exists(x)' PROVE Exists(sessions[x].root)'
        <5>1. CASE x = q
          <6>1. sessions'[x].root = sessions[s].root /\ Exists(sessions[s].root) /\ sessions[s].root \in Ids
            BY <2>1, <3>2, <4>1, <5>1
          <6> QED
            BY <3>3, <6>1 DEF Exists
        <5>2. CASE x # q
          <6>1. sessions'[x].root = sessions[x].root /\ Exists(sessions[x].root) /\ sessions[x].root \in Ids
            BY <3>3, <4>1, <4>2, <5>2
          <6> QED
            BY <3>3, <6>1 DEF Exists
        <5> QED
          BY <5>1, <5>2
      <4>3. \A x \in ended' : Exists(x)'
        BY <1>a, <2>1, <3>3 DEF SessionInv, RootsExist, SessionTypeOK
      <4> QED
        BY <4>2, <4>3 DEF RootsExist
    <3>9. \A r \in Visitor, x \in Ids : WillEnd(r, x) => WillEnd(r, x)' /\ visit'[r] = visit[r]
      BY <2>2, <2>5 DEF WillEnd
    \* Who will end the session that was rotated will end its successor, unless it has slipped.
    <3>10. q \notin slipped' => s \notin slipped /\ Usable(s) /\ \A r \in Visitor : WillEnd(r, s) => WillEnd(r, q)'
      <4>1. ASSUME q \notin slipped' PROVE s \notin slipped /\ Usable(s) /\ ~Behind(q)
        BY <2>1, <2>7, <4>1 DEF Usable
      <4>2. ASSUME ~Behind(q), NEW r \in Visitor, WillEnd(r, s) PROVE WillEnd(r, q)'
        <5>1. r # q /\ visit'[r] = visit[r]
          BY <2>2, <2>5, <4>2
        <5>2. visit[r].pc # "revoking"
          <6>1. SUFFICES ASSUME visit[r].pc = "revoking" PROVE FALSE
            OBVIOUS
          <6>2. q \in visit[r].snap
            BY <4>2, <6>1 DEF Behind
          <6> QED
            BY <1>a, <2>1, <6>1, <6>2 DEF SeenExists
        <5> QED
          BY <4>2, <5>1, <5>2 DEF WillEnd
      <4> QED
        BY <4>1, <4>2
    <3>11. \A x \in Ids : x # q => (x \in slipped' <=> x \in slipped)
      BY <2>7
    <3>12. OldWillEnd'
      <4> SUFFICES ASSUME NEW x \in Ids, Usable(x)', Received(x)', x \notin slipped', sessions'[x].pw # hash'.pw
                   PROVE  \E r \in Visitor : visit'[r].op = "reset" /\ WillEnd(r, x)'
        BY DEF OldWillEnd
      <4>1. CASE x = q
        <5>1. PICK r \in Visitor : visit[r].op = "reset" /\ WillEnd(r, s)
          BY <2>1, <3>2, <3>10, <4>1 DEF SessionInv, OldWillEnd
        <5> QED
          BY <3>9, <3>10, <4>1, <5>1, <2>1
      <4>2. CASE x # q
        <5>1. PICK r \in Visitor : visit[r].op = "reset" /\ WillEnd(r, x)
          BY <2>1, <3>3, <3>5, <3>11, <4>2 DEF SessionInv, OldWillEnd
        <5> QED
          BY <3>9, <5>1
      <4> QED
        BY <4>1, <4>2
    <3>13. ChangedWillEnd'
      <4> SUFFICES ASSUME NEW x \in Ids, Usable(x)', sessions'[x].root \in ended', x \notin slipped'
                   PROVE  \E r \in Visitor : WillEnd(r, x)'
        BY DEF ChangedWillEnd
      <4>1. CASE x = q
        <5>1. PICK r \in Visitor : WillEnd(r, s)
          BY <2>1, <3>2, <3>10, <4>1 DEF SessionInv, ChangedWillEnd
        <5> QED
          BY <3>10, <4>1, <5>1
      <4>2. CASE x # q
        <5>1. PICK r \in Visitor : WillEnd(r, x)
          BY <2>1, <3>3, <3>11, <4>2 DEF SessionInv, ChangedWillEnd
        <5> QED
          BY <3>9, <5>1
      <4> QED
        BY <4>1, <4>2
    <3> QED
      BY <3>6, <3>7, <3>8, <3>12, <3>13 DEF SessionInv
  <2> QED
    BY <2>4, <2>6, <2>7
<1>8. ASSUME NEW q \in Visitor, NEW s \in Ids, Logout(q, s), "logout" \in Ops PROVE SessionInv'
  <2>1. [Idle EXCEPT !.op = "logout", !.token = s, !.pc = "done", !.answer = "ok"] \in Passage
    BY <1>8, <1>d DEF Passage
  <2>2. PICK job \in Passage : Set(q, job) /\ job.op = "logout" /\ job.pc = "done" /\ job.answer = "ok"
    BY <1>8, <1>d, <2>1 DEF Logout, Passage
  <2>3. /\ visit[q].pc = "idle" /\ lock[s] = Seed /\ UNCHANGED <<hash, email, lock, ended, slipped>>
        /\ sessions' = [sessions EXCEPT ![s].state = IF Usable(s) THEN "dead" ELSE @] /\ ~Exists(q)
    BY <1>8, <1>a DEF Logout, Issued
  <2>4. visit'[q] = job
    BY <1>b, <2>2
  <2>5. /\ sessions' \in [Ids -> [state : State, pw : Nat, root : Ids]]
        /\ \A x \in Ids : /\ sessions'[x].pw = sessions[x].pw /\ sessions'[x].root = sessions[x].root
                          /\ Exists(x)' <=> Exists(x)
                          /\ Usable(x)' => Usable(x)
                          /\ lock[x] # Seed => sessions'[x].state = sessions[x].state
                                               \/ sessions'[x].state \in {"live", "grace", "over"}
    <3>1. sessions \in [Ids -> [state : State, pw : Nat, root : Ids]]
      BY <1>a DEF SessionTypeOK
    <3>2. /\ sessions'[s].pw = sessions[s].pw /\ sessions'[s].root = sessions[s].root
          /\ sessions'[s].state = IF Usable(s) THEN "dead" ELSE sessions[s].state
          /\ \A x \in Ids \ {s} : sessions'[x] = sessions[x]
          /\ sessions' \in [Ids -> [state : State, pw : Nat, root : Ids]]
      BY <1>8, <2>3, <3>1 DEF State
    <3> QED
      BY <2>3, <3>2 DEF Exists, Usable
  <2>6. OpKnown(q)' /\ Issued(q)' /\ RowClaimed(q)' /\ SeenExists(q)'
    BY <2>2, <2>3, <2>4, <2>5, <1>a DEF OpKnown, Issued, RowClaimed, SeenExists
  <2>7. \A x : ~WillEnd(q, x)
    BY <2>3 DEF WillEnd
  <2>8. ~Usable(q) /\ visit[q].answer # "ok"
    BY <1>a, <2>3 DEF Exists, Usable, OpKnown
  <2> QED
    BY <2>2, <2>3, <2>5, <2>6, <2>7, <2>8, OnlyEnds
<1>9. ASSUME NEW s \in Ids, GraceEnds(s) PROVE SessionInv'
  <2>1. /\ sessions[s].state = "grace" /\ UNCHANGED <<hash, email, lock, visit, ended, slipped>>
        /\ sessions' = [sessions EXCEPT ![s].state = "over"]
    BY <1>9 DEF GraceEnds
  <2>2. /\ sessions' \in [Ids -> [state : State, pw : Nat, root : Ids]]
        /\ \A x \in Ids : /\ sessions'[x].pw = sessions[x].pw /\ sessions'[x].root = sessions[x].root
                          /\ Exists(x)' <=> Exists(x)
                          /\ Usable(x)' => Usable(x)
                          /\ sessions'[x].state = sessions[x].state \/ sessions'[x].state = "over"
    <3>1. sessions \in [Ids -> [state : State, pw : Nat, root : Ids]]
      BY <1>a DEF SessionTypeOK
    <3>2. /\ sessions'[s].pw = sessions[s].pw /\ sessions'[s].root = sessions[s].root /\ sessions'[s].state = "over"
          /\ \A x \in Ids \ {s} : sessions'[x] = sessions[x]
          /\ sessions' \in [Ids -> [state : State, pw : Nat, root : Ids]]
      BY <1>9, <2>1, <3>1 DEF State
    <3> QED
      BY <2>1, <3>2 DEF Exists, Usable
  <2>3. SessionTypeOK'
    BY <1>a, <2>1, <2>2 DEF SessionTypeOK
  <2>4. \A x : Received(x)' <=> Received(x)
    BY <2>1 DEF Received
  <2>5. RequestKnown'
    <3>1. ASSUME NEW r \in Visitor PROVE (OpKnown(r) /\ Issued(r) /\ RowClaimed(r) /\ SeenExists(r))'
      <4>1. visit'[r] = visit[r] /\ r \in Ids /\ visit[r].token \in Ids /\ visit[r].snap \subseteq Ids
        BY <1>a, <2>1 DEF Passage
      <4>2. OpKnown(r)' /\ Issued(r)' /\ SeenExists(r)'
        BY <1>a, <2>2, <4>1 DEF OpKnown, Issued, SeenExists
      <4>3. RowClaimed(r)'
        BY <1>a, <2>1, <2>2, <2>4, <4>1 DEF RowClaimed
      <4> QED
        BY <4>2, <4>3
    <3> QED
      BY <3>1 DEF RequestKnown
  <2>6. RootsExist'
    <3>1. \A x \in Ids : sessions[x].root \in Ids
      BY <1>a DEF SessionTypeOK
    <3> QED
      BY <1>a, <2>1, <2>2, <3>1 DEF SessionInv, RootsExist, SessionTypeOK
  <2>7. \A r, x : WillEnd(r, x)' <=> WillEnd(r, x)
    BY <2>1 DEF WillEnd
  <2>8. OldWillEnd'
    BY <2>1, <2>2, <2>4, <2>7 DEF SessionInv, OldWillEnd
  <2>9. ChangedWillEnd'
    BY <2>1, <2>2, <2>7 DEF SessionInv, ChangedWillEnd
  <2> QED
    BY <2>3, <2>5, <2>6, <2>8, <2>9 DEF SessionInv
<1>10. ASSUME NEW q \in Visitor, Reset(q), "reset" \in Ops PROVE SessionInv'
  <2>0. 1 \in 0 .. RevokeAttempts
    BY DEF RevokeAttempts
  <2>1. [Idle EXCEPT !.op = "reset", !.pc = "revoke", !.round = 1] \in Passage
    BY <1>10, <1>d, <2>0 DEF Passage
  <2>2. PICK job \in Passage : Set(q, job) /\ job.op = "reset" /\ job.pc = "revoke" /\ job.answer = "none"
    BY <1>10, <1>d, <2>1 DEF Reset, Passage
  <2>3. visit[q].pc = "idle" /\ UNCHANGED <<hash, email, sessions, lock, ended, slipped>> /\ visit'[q] = job
    BY <1>10, <1>b, <2>2 DEF Reset
  <2>4. OpKnown(q)' /\ Issued(q)' /\ RowClaimed(q)' /\ SeenExists(q)'
    BY <1>a, <2>2, <2>3 DEF OpKnown, Issued, RowClaimed, SeenExists, Exists
  <2>5. visit[q].answer # "ok" /\ \A x : ~WillEnd(q, x)
    BY <1>a, <2>3 DEF WillEnd, OpKnown
  <2> QED
    BY <1>c, <2>2, <2>3, <2>4, <2>5, OnlyVisit
<1>11. ASSUME NEW q \in Visitor, ConfirmEmailChange(q), "email" \in Ops PROVE SessionInv'
  <2>1. [Idle EXCEPT !.op = "email", !.pc = "update", !.email = email] \in Passage
    BY <1>11, <1>c, <1>d DEF Passage
  <2>2. PICK job \in Passage : Set(q, job) /\ job.op = "email" /\ job.pc = "update" /\ job.answer = "none"
    BY <1>11, <1>d, <2>1 DEF ConfirmEmailChange, Passage
  <2>3. visit[q].pc = "idle" /\ UNCHANGED <<hash, email, sessions, lock, ended, slipped>> /\ visit'[q] = job
    BY <1>11, <1>b, <2>2 DEF ConfirmEmailChange
  <2>4. OpKnown(q)' /\ Issued(q)' /\ RowClaimed(q)' /\ SeenExists(q)'
    BY <1>a, <2>2, <2>3 DEF OpKnown, Issued, RowClaimed, SeenExists, Exists
  <2>5. visit[q].answer # "ok" /\ \A x : ~WillEnd(q, x)
    BY <1>a, <2>3 DEF WillEnd, OpKnown
  <2> QED
    BY <1>c, <2>2, <2>3, <2>4, <2>5, OnlyVisit
<1>12. ASSUME NEW q \in Visitor, Update(q) PROVE SessionInv'
  <2>1. /\ visit[q].pc = "update" /\ visit[q].op \in {"reset", "email"} /\ visit[q].answer = "none"
        /\ visit[q] \in Passage /\ UNCHANGED <<sessions, lock, slipped>>
    BY <1>12, <1>a DEF Update, OpKnown
  <2>2. \A x : ~WillEnd(q, x)
    BY <2>1 DEF WillEnd
  <2>3. CASE End(q, "refused") /\ UNCHANGED <<hash, email, ended>>
    <3>1. [visit[q] EXCEPT !.pc = "done", !.answer = "refused"] \in Passage
      BY <2>1 DEF Passage
    <3>2. PICK job \in Passage : Set(q, job) /\ job.op = visit[q].op /\ job.pc = "done" /\ job.answer = "refused"
      BY <2>1, <2>3, <3>1 DEF End, Passage
    <3>3. visit'[q] = job
      BY <1>b, <3>2
    <3>4. OpKnown(q)' /\ Issued(q)' /\ RowClaimed(q)' /\ SeenExists(q)'
      BY <1>a, <2>1, <3>2, <3>3 DEF OpKnown, Issued, RowClaimed, SeenExists, Exists
    <3> QED
      BY <1>c, <2>1, <2>2, <2>3, <3>2, <3>4, OnlyVisit
  <2>4. CASE /\ hash' \in Hash /\ email' \in Nat
             /\ visit[q].op = "email" => hash' = hash
             /\ \E n \in 1 .. 2 : /\ Set(q, [visit[q] EXCEPT !.pc = "revoke", !.round = n])
                                  /\ visit[q].op = "reset" => n = 2
             /\ ended' = ended \cup {sessions[s].root : s \in {x \in Ids : Usable(x)}}
    <3>1. PICK n \in 1 .. 2 : /\ Set(q, [visit[q] EXCEPT !.pc = "revoke", !.round = n])
                              /\ visit[q].op = "reset" => n = 2
      BY <2>4
    <3>0. n \in 0 .. RevokeAttempts
      BY DEF RevokeAttempts
    <3>2. [visit[q] EXCEPT !.pc = "revoke", !.round = n] \in Passage
      BY <2>1, <3>0 DEF Passage
    <3>3. PICK job \in Passage : /\ Set(q, job) /\ job.op = visit[q].op /\ job.pc = "revoke" /\ job.answer = "none"
                                 /\ job.op = "reset" => job.round = 2
      BY <2>1, <3>1, <3>2 DEF Passage
    <3>4. /\ visit'[q] = job /\ \A r \in Visitor \ {q} : visit'[r] = visit[r]
          /\ visit' \in [Visitor -> Passage]
      BY <1>a, <3>3 DEF Set
    <3>5. \A x \in Ids : WillEnd(q, x)'
      BY <2>1, <3>3, <3>4 DEF WillEnd
    <3>6. SessionTypeOK'
      BY <1>a, <2>1, <2>4, <3>4 DEF SessionTypeOK, Passage
    <3>7. \A x : Received(x)' <=> Received(x)
      BY <1>a, <2>1, <3>3, <3>4 DEF Received
    <3>8. RequestKnown'
      <4>1. ASSUME NEW r \in Visitor, r # q PROVE (OpKnown(r) /\ Issued(r) /\ RowClaimed(r) /\ SeenExists(r))'
        BY <1>a, <2>1, <3>4, <3>7, <4>1 DEF OpKnown, Issued, RowClaimed, SeenExists, Exists
      <4>2. (OpKnown(q) /\ Issued(q) /\ RowClaimed(q) /\ SeenExists(q))'
        BY <1>a, <2>1, <3>3, <3>4 DEF OpKnown, Issued, RowClaimed, SeenExists, Exists
      <4> QED
        BY <4>1, <4>2 DEF RequestKnown
    <3>9. RootsExist'
      <4>1. \A x : Exists(x)' <=> Exists(x)
        BY <2>1 DEF Exists
      <4>2. \A x \in Ids : Usable(x) => Exists(sessions[x].root)
        BY DEF SessionInv, RootsExist, Exists, Usable
      <4>3. \A x \in Ids : Exists(x)' => Exists(sessions[x].root)'
        BY <2>1 DEF SessionInv, RootsExist, Exists
      <4>4. \A x \in ended' : Exists(x)'
        BY <2>4, <4>1, <4>2 DEF SessionInv, RootsExist
      <4> QED
        BY <4>3, <4>4 DEF RootsExist
    <3>10. ChangedWillEnd'
      BY <3>5 DEF ChangedWillEnd
    <3>11. OldWillEnd'
      <4>1. CASE visit[q].op = "reset"
        BY <3>3, <3>4, <3>5, <4>1 DEF OldWillEnd
      <4>2. CASE visit[q].op = "email"
        <5>1. \A r \in Visitor : \A x : WillEnd(r, x) => WillEnd(r, x)' /\ visit'[r] = visit[r]
          BY <2>2, <3>4 DEF WillEnd
        <5> QED
          BY <2>1, <2>4, <3>7, <4>2, <5>1 DEF SessionInv, OldWillEnd, Usable
      <4> QED
        BY <2>1, <4>1, <4>2
    <3> QED
      BY <3>6, <3>8, <3>9, <3>10, <3>11 DEF SessionInv
  <2>5. CASE visit[q].op = "reset" /\ hash' = [pw |-> hash.pw + 1, by |-> q]
    <3>1. hash' \in Hash
      BY <1>a, <1>c, <2>5 DEF Hash
    <3> QED
      BY <1>12, <1>c, <2>1, <2>4, <2>5, <3>1 DEF Update
  <2> QED
    BY <1>12, <1>c, <2>1, <2>3, <2>4, <2>5 DEF Update
<1>13. ASSUME NEW q \in Visitor, RevokeAll(q) PROVE SessionInv'
  <2>1. /\ visit[q].pc = "revoke" /\ visit[q].answer = "none" /\ visit[q] \in Passage
        /\ UNCHANGED <<hash, email, sessions, lock, ended, slipped>>
    BY <1>13, <1>a DEF RevokeAll, OpKnown
  <2>2. [visit[q] EXCEPT !.pc = "revoking", !.snap = {s \in Ids : Usable(s)}] \in Passage
    BY <2>1 DEF Passage
  <2>3. PICK job \in Passage : /\ Set(q, job) /\ job.op = visit[q].op /\ job.pc = "revoking" /\ job.answer = "none"
                               /\ job.snap = {s \in Ids : Usable(s)} /\ job.round = visit[q].round
    BY <1>13, <2>1, <2>2 DEF RevokeAll, Passage
  <2>4. visit'[q] = job
    BY <1>b, <2>3
  <2>5. OpKnown(q)' /\ Issued(q)' /\ RowClaimed(q)' /\ SeenExists(q)'
    BY <1>a, <2>1, <2>3, <2>4 DEF OpKnown, Issued, RowClaimed, SeenExists, Exists, Usable
  <2>6. \A x \in Ids : Usable(x) /\ WillEnd(q, x) => WillEnd(q, x)'
    BY <2>1, <2>3, <2>4 DEF WillEnd
  <2> QED
    BY <1>c, <2>1, <2>3, <2>5, <2>6, OnlyVisit
<1>14. ASSUME NEW q \in Visitor, Revoked(q) PROVE SessionInv'
  <2>1. /\ visit[q].pc = "revoking" /\ visit[q].answer = "none" /\ visit[q] \in Passage
        /\ UNCHANGED <<hash, email, lock, ended, slipped>>
        /\ \A s \in visit[q].snap : lock[s] = Seed
        /\ sessions' = [s \in Ids |-> IF s \in visit[q].snap /\ Usable(s)
                                      THEN [sessions[s] EXCEPT !.state = "dead"] ELSE sessions[s]]
    BY <1>14, <1>a DEF Revoked, Revokes, OpKnown
  <2>2. PICK job \in Passage :
          /\ Set(q, job) /\ job.op = visit[q].op
          /\ \/ job.op = "login" /\ job.pc = "done" /\ job.answer = "refused"
             \/ job.op = "reset" /\ visit[q].round = 1 /\ job.pc = "update" /\ job.answer = "none"
             \/ job.op # "login" /\ job.pc = "done" /\ job.answer = "ok"
    <3>1. [visit[q] EXCEPT !.pc = "done", !.answer = "refused"] \in Passage
      BY <2>1 DEF Passage
    <3>2. [visit[q] EXCEPT !.pc = "update", !.snap = {}] \in Passage
      BY <2>1 DEF Passage
    <3>3. [visit[q] EXCEPT !.pc = "done", !.answer = "ok"] \in Passage
      BY <2>1 DEF Passage
    <3>4. CASE visit[q].op = "login"
      BY <1>14, <2>1, <3>1, <3>4 DEF Revoked, AfterRevoke, End, Passage
    <3>5. CASE visit[q].op = "reset" /\ visit[q].round = 1
      BY <1>14, <2>1, <3>2, <3>5 DEF Revoked, AfterRevoke, Passage
    <3>6. CASE visit[q].op # "login" /\ ~(visit[q].op = "reset" /\ visit[q].round = 1)
      BY <1>14, <2>1, <3>3, <3>6 DEF Revoked, AfterRevoke, End, Passage
    <3> QED
      BY <3>4, <3>5, <3>6
  <2>3. visit'[q] = job
    BY <1>b, <2>2
  <2>4. /\ sessions' \in [Ids -> [state : State, pw : Nat, root : Ids]]
        /\ \A x \in Ids : /\ sessions'[x].pw = sessions[x].pw /\ sessions'[x].root = sessions[x].root
                          /\ Exists(x)' <=> Exists(x)
                          /\ Usable(x)' => Usable(x) /\ x \notin visit[q].snap
                          /\ lock[x] # Seed => sessions'[x].state = sessions[x].state
                                               \/ sessions'[x].state \in {"live", "grace", "over"}
    <3>1. sessions \in [Ids -> [state : State, pw : Nat, root : Ids]]
      BY <1>a DEF SessionTypeOK
    <3>2. ASSUME NEW x \in Ids
          PROVE  /\ sessions'[x] \in [state : State, pw : Nat, root : Ids]
                 /\ sessions'[x].pw = sessions[x].pw /\ sessions'[x].root = sessions[x].root
                 /\ Exists(x)' <=> Exists(x)
                 /\ Usable(x)' => Usable(x) /\ x \notin visit[q].snap
                 /\ lock[x] # Seed => sessions'[x].state = sessions[x].state
      BY <2>1, <3>1, <3>2 DEF State, Exists, Usable
    <3> QED
      BY <2>1, <3>2
  <2>5. OpKnown(q)' /\ Issued(q)' /\ RowClaimed(q)' /\ SeenExists(q)'
    BY <1>a, <2>1, <2>2, <2>3, <2>4 DEF OpKnown, Issued, RowClaimed, SeenExists
  <2>6. \A x \in Ids : Usable(x)' => ~WillEnd(q, x)
    BY <2>1, <2>4 DEF WillEnd
  <2>7. job.answer = "ok" => ~Usable(q)
    BY <1>a, <2>1, <2>2 DEF OpKnown, Issued, Exists, Usable
  <2> QED
    BY <2>1, <2>2, <2>4, <2>5, <2>6, <2>7, OnlyEnds
<1>15. ASSUME NEW q \in Visitor, RevokeFails(q) PROVE SessionInv'
  <2>1. /\ visit[q].pc = "revoking" /\ visit[q].answer = "none" /\ visit[q] \in Passage
        /\ UNCHANGED <<hash, email, sessions, lock, ended, slipped>>
    BY <1>15, <1>a DEF RevokeFails, OpKnown
  <2>2. PICK job \in Passage :
          /\ Set(q, job) /\ job.op = visit[q].op
          /\ \/ job.op = "email" /\ job.pc = "revoke" /\ job.answer = "none"
             \/ job.op = "login" /\ job.pc = "done" /\ job.answer = "refused"
             \/ job.op # "login" /\ job.pc = "done" /\ job.answer = "failed"
    <3>1. CASE visit[q].op = "email" /\ visit[q].round < RevokeAttempts
      <4>1. visit[q].round + 1 \in 0 .. RevokeAttempts
        BY <2>1, <3>1 DEF Passage, RevokeAttempts
      <4>2. [visit[q] EXCEPT !.pc = "revoke", !.round = @ + 1, !.snap = {}] \in Passage
        BY <2>1, <4>1 DEF Passage
      <4> QED
        BY <1>15, <2>1, <3>1, <4>2 DEF RevokeFails, Passage
    <3>2. CASE ~(visit[q].op = "email" /\ visit[q].round < RevokeAttempts)
      <4>1. [visit[q] EXCEPT !.pc = "done", !.answer = "refused"] \in Passage
        BY <2>1 DEF Passage
      <4>2. [visit[q] EXCEPT !.pc = "done", !.answer = "failed"] \in Passage
        BY <2>1 DEF Passage
      <4>3. End(q, IF visit[q].op = "login" THEN "refused" ELSE "failed")
        BY <1>15, <3>2 DEF RevokeFails
      <4>4. CASE visit[q].op = "login"
        BY <2>1, <4>1, <4>3, <4>4 DEF End, Passage
      <4>5. CASE visit[q].op # "login"
        BY <2>1, <4>2, <4>3, <4>5 DEF End, Passage
      <4> QED
        BY <4>4, <4>5
    <3> QED
      BY <3>1, <3>2
  <2>3. visit'[q] = job
    BY <1>b, <2>2
  <2>4. OpKnown(q)' /\ Issued(q)' /\ RowClaimed(q)' /\ SeenExists(q)'
    BY <1>a, <2>1, <2>2, <2>3 DEF OpKnown, Issued, RowClaimed, SeenExists, Exists
  <2>5. \A x \in Ids : WillEnd(q, x) => WillEnd(q, x)'
    BY <1>a, <2>1, <2>2, <2>3 DEF WillEnd, OpKnown
  <2> QED
    BY <1>c, <2>1, <2>2, <2>4, <2>5, OnlyVisit
<1>16. CASE UNCHANGED sessionVars
  <2>1. \A s : /\ Exists(s)' <=> Exists(s)
               /\ Usable(s)' <=> Usable(s)
               /\ Received(s)' <=> Received(s)
               /\ \A q : WillEnd(q, s)' <=> WillEnd(q, s)
    BY <1>16 DEF sessionVars, Exists, Usable, Received, WillEnd
  <2>2. SessionTypeOK'
    BY <1>a, <1>16 DEF sessionVars, SessionTypeOK
  <2>3. RequestKnown'
    BY <1>a, <1>16, <2>1 DEF sessionVars, RequestKnown, OpKnown, Issued, RowClaimed, SeenExists
  <2>4. RootsExist' /\ OldWillEnd' /\ ChangedWillEnd'
    BY <1>16, <2>1 DEF sessionVars, SessionInv, RootsExist, OldWillEnd, ChangedWillEnd
  <2> QED
    BY <2>2, <2>3, <2>4 DEF SessionInv
<1> QED
  BY <1>1, <1>2, <1>3, <1>4, <1>5, <1>6, <1>7, <1>8, <1>9, <1>10, <1>11, <1>12, <1>13, <1>14, <1>15, <1>16
     DEF SessionNext, Visit, Begin

LEMMA SessionInvariant == SessionConstants /\ SessionSpec => []SessionInv
<1> SUFFICES ASSUME SessionConstants PROVE SessionSpec => []SessionInv
  OBVIOUS
<1>1. SessionInit => SessionInv
  BY SessionStart
<1>2. SessionInv /\ [SessionNext]_sessionVars => SessionInv'
  BY SessionStep
<1> QED
  BY <1>1, <1>2, PTL DEF SessionSpec

\* However logins, refreshes, resets and e-mail changes interleave (auth/app/authenticate.go, otp.go,
\* token.go), once the changes of an account have succeeded no login with the password that they
\* replaced and no session from before them can be used, but for rotations behind a revocation's back.
THEOREM OldSessionsEndAlways ==
  ASSUME SessionConstants
  PROVE  SessionSpec => []OldSessionsEnd
<1>1. SessionInv => OldSessionsEnd
  <2> SUFFICES ASSUME SessionInv PROVE OldSessionsEnd
    OBVIOUS
  <2>1. SessionTypeOK /\ OldWillEnd /\ ChangedWillEnd
    BY DEF SessionInv
  <2>2. Settled => \A q \in Visitor : \A s : ~WillEnd(q, s)
    BY DEF Settled, WillEnd
  <2> QED
    BY <2>1, <2>2 DEF OldSessionsEnd, ResetEndsOldLogins, ChangeEndsSessions, OldWillEnd, ChangedWillEnd,
                      SessionTypeOK, Hash
<1> QED
  BY <1>1, SessionInvariant, PTL

\* A rotation looks at the row again under its lock (token.go Rotate): no session is ever made out of
\* a token that was revoked meanwhile.
THEOREM NoSuccessorOfDeadAlways ==
  ASSUME SessionConstants
  PROVE  SessionSpec => NoSuccessorOfDead
<1>1. ASSUME SessionInv, [SessionNext]_sessionVars, NEW q \in Visitor,
             visit[q].op = "refresh", sessions[q].state = "none", sessions'[q].state = "live"
      PROVE  sessions[visit[q].token].state # "dead"
  <2>1. SessionTypeOK /\ RequestKnown /\ q \in Ids /\ sessions'[q] # sessions[q]
    BY <1>1 DEF SessionInv, Ids
  <2>2. \A r \in Visitor : OpKnown(r) /\ RowClaimed(r)
    BY <2>1 DEF RequestKnown
  <2>3. sessions \in [Ids -> [state : State, pw : Nat, root : Ids]]
    BY <2>1 DEF SessionTypeOK
  <2>4. PICK r \in Visitor : RotateCommit(r) /\ sessions' # sessions
    <3>1. ASSUME NEW r \in Visitor, Issue(r) PROVE FALSE
      <4>1. visit[r].op = "login" /\ \A x \in Ids \ {r} : sessions'[x] = sessions[x]
        BY <2>2, <2>3, <3>1 DEF Issue, OpKnown
      <4> QED
        BY <1>1, <2>1, <4>1
    <3>2. ASSUME NEW r \in Visitor, NEW s \in Ids, Logout(r, s) PROVE FALSE
      BY <1>1, <2>1, <2>3, <3>2 DEF Logout, Usable
    <3>3. ASSUME NEW s \in Ids, GraceEnds(s) PROVE FALSE
      BY <1>1, <2>1, <2>3, <3>3 DEF GraceEnds
    <3>4. ASSUME NEW r \in Visitor, Revoked(r) PROVE FALSE
      BY <1>1, <2>1, <2>3, <3>4 DEF Revoked, Revokes, Usable
    <3> QED
      BY <1>1, <2>1, <3>1, <3>2, <3>3, <3>4
         DEF SessionNext, Visit, Begin, Login, Upgrade, EnsureUnchanged, FindActive, RotateLock, Reset,
             ConfirmEmailChange, Update, RevokeAll, RevokeFails, sessionVars
  <2>5. visit[r].token \in Ids
    BY <2>1 DEF SessionTypeOK
  <2>6. sessions[visit[r].token].state \in {"live", "grace", "over"}
    BY <2>2, <2>4 DEF RotateCommit, RowClaimed
  <2>7. sessions' = [sessions EXCEPT ![visit[r].token].state = IF @ = "live" THEN "grace" ELSE @,
                                     ![r] = [state |-> "live", pw |-> sessions[visit[r].token].pw,
                                             root |-> sessions[visit[r].token].root]]
    BY <2>4 DEF RotateCommit
  <2>8. q = r
    <3>1. r \in Ids
      BY DEF Ids
    <3>2. CASE q # r /\ q # visit[r].token
      BY <2>1, <2>3, <2>5, <2>7, <3>1, <3>2
    <3>3. CASE q # r /\ q = visit[r].token
      BY <1>1, <2>6, <3>3
    <3> QED
      BY <3>2, <3>3
  <2> QED
    BY <2>6, <2>8
<1>2. SessionInv /\ [SessionNext]_sessionVars
      => [\A q \in Visitor :
            visit[q].op = "refresh" /\ sessions[q].state = "none" /\ sessions'[q].state = "live"
              => sessions[visit[q].token].state # "dead"]_sessionVars
  BY <1>1
<1> QED
  BY <1>2, SessionInvariant, PTL DEF SessionSpec, NoSuccessorOfDead
=============================================================================
