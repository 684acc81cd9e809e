---------------------------- MODULE Idempotency ----------------------------
(* The request protection middleware (httpx/middleware/idempotency.go): a client
   marks a command with a key, and repeats of it are answered from the stored
   response. The steps of a request are its calls of the store and the start and
   the end of the command; requests interleave between any two of them. *)
EXTENDS Naturals, Sequences, FiniteSets

CONSTANTS
  Request,       \* handler goroutines; each serves one request
  Key,           \* key in its scope: method, target, caller and Idempotency-Key header
  Body,          \* request bodies; with an equal key they are all a fingerprint adds
  LockTimeout, Expiration, EvictionInterval,   \* lifetimes, in ticks
  Capacity,      \* entries the memory store keeps
  InMemory,      \* TRUE: MemoryIdempotencyStore, FALSE: Redis
  Faults,        \* which of "slow", "store", "error", "large", "crash" can happen
  MaxTime,       \* bound on the clock
  None

VARIABLES
  now,           \* the clock
  entries,       \* the store: a value and its expiry per lock key and result key
  lastEviction,  \* memory store: when expired entries were last removed
  req,           \* req[q]: where request q is
  runs,          \* history: the executions of commands, in the order they began
  lapsed         \* history: keys whose protection was lost to a fault

vars == <<now, entries, lastEviction, req, runs, lapsed>>

Slot == Key \X {"result", "lock"}
Entry == [value : Request \cup [body : Body, by : Request], expires : Nat]

\* Lifetimes are positive, and no request is taken for one of the answers.
IdempotencyConstants ==
  /\ LockTimeout \in Nat \ {0} /\ Expiration \in Nat \ {0} /\ MaxTime \in Nat
  /\ InMemory \in BOOLEAN /\ Capacity \in Nat
  /\ {None, "busy", "unavailable", "conflict", "ran", "lost"} \cap Request = {}
  /\ None \notin Entry \cup Nat

Live(s) == entries[s] # None /\ now < entries[s].expires

Busy(q) == req[q].pc \in {"recheck", "run", "store"}

TypeOK ==
  /\ now \in 0..MaxTime /\ lastEviction \in 0..MaxTime
  /\ entries \in [Slot -> Entry \cup {None}]
  /\ req \in [Request -> [pc : {"new", "lookup", "acquire", "recheck", "run", "store",
                                "release", "done"},
                          key : Key \cup {None}, body : Body \cup {None},
                          locked : Nat, answer : {None, "busy", "unavailable", "conflict",
                                                  "ran", "lost"} \cup Request]]
  /\ runs \in Seq([key : Key, body : Body, by : Request, began : Nat, ok : BOOLEAN,
                   ended : Nat \cup {None}])
  /\ lapsed \subseteq Key

Init ==
  /\ now = 0 /\ lastEviction = 0
  /\ entries = [s \in Slot |-> None]
  /\ req = [q \in Request |-> [pc |-> "new", key |-> None, body |-> None, locked |-> 0,
                               answer |-> None]]
  /\ runs = <<>> /\ lapsed = {}

(***************************************************************************)
(* The store                                                               *)
(***************************************************************************)

Expired == {s \in Slot : entries[s] # None /\ ~Live(s)}
Held == {s \in Slot : entries[s] # None}

\* evictLocked: what Set and SetNX of the memory store leave of the entries. Above the
\* capacity the entries that expire first go, until there is room for one, but one stays.
EvictLocked(kept) ==
  LET full(S) == Cardinality(S) >= Capacity
      purge == full(Held) \/ now - lastEviction >= EvictionInterval
      rest == IF purge THEN Held \ Expired ELSE Held
      surplus == IF full(rest) /\ Cardinality(rest) > 1
                 THEN Cardinality(rest) - (IF Capacity > 1 THEN Capacity - 1 ELSE 1) ELSE 0
  IN /\ Held # {}
     /\ kept \subseteq rest /\ Cardinality(kept) = Cardinality(rest) - surplus
     /\ \A s \in kept, t \in rest \ kept : entries[t].expires <= entries[s].expires
     /\ lastEviction' = IF purge THEN now ELSE lastEviction

\* A write of slot s: in Redis the write alone, in memory eviction first.
Put(s, v, lifetime) ==
  \E kept \in SUBSET Held :
    /\ IF InMemory /\ Held # {} THEN EvictLocked(kept)
       ELSE kept = Held /\ UNCHANGED lastEviction
    /\ entries' = [t \in Slot |-> IF t = s THEN [value |-> v, expires |-> now + lifetime]
                                  ELSE IF t \in kept THEN entries[t] ELSE None]
    /\ lapsed' = lapsed \cup {t[1] : t \in {u \in Held \ kept : Live(u)}}

\* DeleteIfValue: one script in Redis, one critical section in memory.
DeleteIfValue(s, v) ==
  entries' = IF entries[s] # None /\ entries[s].value = v
             THEN [entries EXCEPT ![s] = None] ELSE entries

\* An error of Redis, or a client that cancelled its request.
StoreFails == "store" \in Faults

(***************************************************************************)
(* The steps of a request                                                  *)
(***************************************************************************)

Go(q, pc, answer) == req' = [req EXCEPT ![q].pc = pc, ![q].answer = answer]

\* (mutant: the fingerprint is not compared)
ReplayUnchecked(q, next) ==
  LET stored == entries[<<req[q].key, "result">>].value
  IN Go(q, next, stored.by)

\* replayIdempotentResponse: the stored response, or a conflict when the key was used
\* with another body.
Replay(q, next) ==
  LET stored == entries[<<req[q].key, "result">>].value
  IN Go(q, next, IF stored.body = req[q].body THEN stored.by ELSE "conflict")

\* A state-changing request with a valid key; others pass through unprotected.
Arrive(q, k, b) ==
  /\ req[q].pc = "new"
  /\ req' = [req EXCEPT ![q].pc = "lookup", ![q].key = k, ![q].body = b]
  /\ UNCHANGED <<now, entries, lastEviction, runs, lapsed>>

\* store.Get of the result key; an expired entry counts as absent, and goes.
Look(q, hit, miss) ==
  \/ StoreFails /\ Go(q, hit, "unavailable") /\ UNCHANGED entries
  \/ Live(<<req[q].key, "result">>) /\ Replay(q, hit) /\ UNCHANGED entries
  \/ /\ ~Live(<<req[q].key, "result">>)
     /\ Go(q, miss, None)
     /\ entries' = IF InMemory THEN [entries EXCEPT ![<<req[q].key, "result">>] = None] ELSE entries

Lookup(q) ==
  /\ req[q].pc = "lookup"
  /\ Look(q, "done", "acquire")
  /\ UNCHANGED <<now, lastEviction, runs, lapsed>>

\* store.SetNX of the lock key. An error may follow a write that took effect: nobody
\* releases such a lock, and it ends by its timeout. The memory store evicts even when
\* it then finds the lock taken.
Acquire(q) ==
  LET lock == <<req[q].key, "lock">>
  IN /\ req[q].pc = "acquire"
     /\ \/ /\ ~Live(lock)
           /\ Put(lock, q, LockTimeout)
           /\ \/ req' = [req EXCEPT ![q].pc = "recheck", ![q].locked = now]
              \/ StoreFails /\ ~InMemory /\ Go(q, "done", "unavailable")
        \/ /\ Live(lock)
           /\ \/ /\ ~InMemory
                 /\ Go(q, "done", "busy")
                 /\ UNCHANGED <<entries, lastEviction, lapsed>>
              \/ \E kept \in SUBSET Held :
                   /\ InMemory /\ EvictLocked(kept)
                   /\ entries' = [t \in Slot |-> IF t = lock /\ lock \notin kept
                                                 THEN [value |-> q, expires |-> now + LockTimeout]
                                                 ELSE IF t \in kept THEN entries[t] ELSE None]
                   /\ lapsed' = lapsed \cup {t[1] : t \in {u \in Held \ kept : Live(u)}}
                   /\ IF lock \in kept THEN Go(q, "done", "busy")
                      ELSE req' = [req EXCEPT ![q].pc = "recheck", ![q].locked = now]
        \/ StoreFails /\ Go(q, "done", "unavailable") /\ UNCHANGED <<entries, lastEviction, lapsed>>
     /\ UNCHANGED <<now, runs>>

NewRun(q) ==
  [key |-> req[q].key, body |-> req[q].body, by |-> q, began |-> now, ok |-> FALSE, ended |-> None]

\* (mutant: the command runs as soon as the lock is held)
RecheckSkipped(q) ==
  /\ req[q].pc = "recheck"
  /\ Go(q, "run", None)
  /\ runs' = Append(runs, NewRun(q))
  /\ UNCHANGED <<now, entries, lastEviction, lapsed>>

\* The second lookup, under the lock; every return from here on releases the lock.
Recheck(q) ==
  /\ req[q].pc = "recheck"
  /\ Look(q, "release", "run")
  /\ runs' = IF req'[q].pc # "run" THEN runs ELSE Append(runs, NewRun(q))
  /\ UNCHANGED <<now, lastEviction, lapsed>>

RunOf(q) == CHOOSE i \in DOMAIN runs : runs[i].by = q

\* The command ends: with a 2xx answer that is kept, with one too large to keep, or with
\* an error or a panic.
EndRun(q, ok, next, lapse) ==
  /\ req[q].pc = "run"
  /\ Go(q, next, "ran")
  /\ runs' = [runs EXCEPT ![RunOf(q)].ok = ok, ![RunOf(q)].ended = now]
  /\ lapsed' = IF lapse THEN lapsed \cup {req[q].key} ELSE lapsed
  /\ UNCHANGED <<now, entries, lastEviction>>

\* (mutant: a failed command returns before the release is deferred)
FinishUnreleased(q) ==
  \/ EndRun(q, TRUE, "store", FALSE)
  \/ "error" \in Faults /\ EndRun(q, FALSE, "done", FALSE)

Finish(q) ==
  \/ EndRun(q, TRUE, "store", FALSE)
  \/ "large" \in Faults /\ EndRun(q, TRUE, "release", TRUE)
  \/ "error" \in Faults /\ EndRun(q, FALSE, "release", FALSE)

\* store.Set of the response, under a context the client cannot cancel; an error is logged.
Store(q) ==
  LET result == <<req[q].key, "result">>
  IN /\ req[q].pc = "store"
     /\ req' = [req EXCEPT ![q].pc = "release"]
     /\ \/ Put(result, [body |-> req[q].body, by |-> q], Expiration)
        \/ /\ StoreFails /\ ~InMemory
           /\ lapsed' = lapsed \cup {req[q].key}
           /\ UNCHANGED <<entries, lastEviction>>
     /\ UNCHANGED <<now, runs>>

\* releaseLock: DeleteIfValue deletes the lock only if it still holds this request's token.
Release(q) ==
  LET lock == <<req[q].key, "lock">>
  IN /\ req[q].pc = "release"
     /\ req' = [req EXCEPT ![q].pc = "done"]
     /\ \/ DeleteIfValue(lock, q)
        \/ StoreFails /\ ~InMemory /\ entries' = entries
     /\ UNCHANGED <<now, lastEviction, runs, lapsed>>

\* The process dies. Commands that were running may have taken effect.
Crash ==
  LET cut == {q \in Request : req[q].pc \notin {"new", "done"}}
      hit == {req[q].key : q \in {x \in cut : req[x].pc \in {"run", "store"}}}
  IN /\ "crash" \in Faults /\ cut # {}
     /\ req' = [q \in Request |-> IF q \in cut
                                  THEN [req[q] EXCEPT !.pc = "done", !.answer = "lost"]
                                  ELSE req[q]]
     /\ \E won \in SUBSET {q \in cut : req[q].pc = "run"} :
          runs' = [i \in DOMAIN runs |-> IF runs[i].by \in won
                                        THEN [runs[i] EXCEPT !.ok = TRUE, !.ended = now]
                                        ELSE runs[i]]
     /\ entries' = IF InMemory THEN [s \in Slot |-> None] ELSE entries
     /\ lapsed' = IF InMemory THEN Key ELSE lapsed \cup hit
     /\ UNCHANGED <<now, lastEviction>>

\* Time passes. Without "slow" a request is done before its lock times out (a minute, in
\* a server that drops connections after fifteen seconds).
Tick ==
  LET late == {q \in Request : Busy(q) /\ now + 1 >= req[q].locked + LockTimeout}
  IN /\ now < MaxTime
     /\ late = {} \/ "slow" \in Faults
     /\ now' = now + 1
     /\ lapsed' = lapsed \cup {req[q].key : q \in late}
     /\ UNCHANGED <<entries, lastEviction, req, runs>>

Step(q) == Lookup(q) \/ Acquire(q) \/ Recheck(q) \/ Finish(q) \/ Store(q) \/ Release(q)

Next ==
  \/ \E q \in Request : Step(q) \/ \E k \in Key, b \in Body : Arrive(q, k, b)
  \/ Crash
  \/ Tick

Spec == Init /\ [][Next]_vars

(***************************************************************************)
(* Properties                                                              *)
(***************************************************************************)

Running(k) == \E q \in Request : req[q].key = k /\ req[q].pc \in {"run", "store"}

\* The phase a client sees: the command runs until its response is stored.
PhaseOf ==
  [k \in Key |-> IF Running(k) THEN "running"
                 ELSE IF Live(<<k, "result">>) THEN "done" ELSE "idle"]

Promise == INSTANCE AtMostOnce WITH phase <- PhaseOf

\* Nothing fails but commands, and Redis keeps the responses.
NoFaults == ~InMemory /\ Faults \subseteq {"error"}

\* To the clients of one key the two lookups and the lock are AtMostOnce, while nothing fails.
ImplementsAtMostOnce == Promise!Spec

\* A key whose command succeeded runs again within the retention time only if a fault took
\* its protection: a command slower than its lock, a response not kept, a crash, an eviction.
RerunNeedsFault ==
  \A i, j \in DOMAIN runs :
    i < j /\ runs[i].key = runs[j].key /\ runs[i].ok /\ runs[j].began < runs[i].ended + Expiration
      => runs[i].key \in lapsed

\* A response replayed to a request is that of a command that ran to success under the same
\* key with the same body, faults or not.
ReplayIsGenuine ==
  \A q \in Request : req[q].answer \in Request =>
    \E i \in DOMAIN runs :
      /\ runs[i].by = req[q].answer /\ runs[i].ok
      /\ runs[i].key = req[q].key /\ runs[i].body = req[q].body

\* A key whose command succeeded runs again only if a fault took its protection, and what is
\* replayed instead is the answer of a command that succeeded under this key and body.
SecondRunNeedsFault == RerunNeedsFault /\ ReplayIsGenuine

\* Unless a release was lost, a live lock belongs to a request that is still at work: nobody
\* is told "already in progress" about nothing, whatever way the command ended.
NoOrphanLock ==
  \A k \in Key : Live(<<k, "lock">>) =>
    LET q == entries[<<k, "lock">>].value
    IN req[q].key = k /\ (Busy(q) \/ req[q].pc = "release")

\* The memory store never holds more than its capacity (or two entries, the least it keeps).
StoreBounded == InMemory => Cardinality(Held) <= (IF Capacity < 2 THEN 2 ELSE Capacity)

\* A release is lost when Redis does not execute it or its process died.
ReleasesKept == InMemory \/ Faults \cap {"store", "crash"} = {}

\* Unless a release was lost a live lock is that of a request at work, and the memory store stays
\* within its capacity, whatever it evicts.
LocksAndStoreBounded == TypeOK /\ (ReleasesKept => NoOrphanLock) /\ StoreBounded

=============================================================================
