----------------------------- MODULE MCRequests -----------------------------
(* Repeated and overlapping requests: commands under an idempotency key
   (Idempotency), the registration of an address (Registration) and the sessions
   of an account (AuthSessions). They share no state, so each behaviour moves one
   of them. Request protection comes in three settings: "faults", Redis with every
   fault; "calm", where only the command can fail; "memory", two keys in a full
   memory store. *)
EXTENDS Idempotency, Registration, AuthSessions, TLC

VARIABLE focus   \* what moves: "address", "account", "calm", "faults" or "memory"

Calm == INSTANCE Idempotency
          WITH LockTimeout <- 2, Expiration <- 3, EvictionInterval <- 2, MaxTime <- 4,
               Faults <- {"error"}

\* Two keys and one body: the two sets change their roles, so that one symmetry serves all.
Memory == INSTANCE Idempotency
            WITH Key <- Body, Body <- Key, InMemory <- TRUE, Faults <- {"slow", "error"}

ASSUME ProtectionAssumption ==
  /\ IdempotencyConstants /\ Memory!IdempotencyConstants
  /\ Calm!IdempotencyConstants /\ Calm!NoFaults

ASSUME AccountAssumption == RegistrationConstants /\ SessionConstants

RequestsInit ==
  /\ focus \in {"address", "account", "calm", "faults", "memory"}
  /\ AddressInit /\ (focus # "address" => account = NoOne)
  /\ SessionInit
  /\ IF focus = "memory" THEN Memory!Init ELSE Init

RequestsNext ==
  /\ \/ focus = "address" /\ AddressNext /\ UNCHANGED <<sessionVars, vars>>
     \/ focus = "account" /\ SessionNext /\ UNCHANGED <<addressVars, vars>>
     \/ focus = "calm" /\ Calm!Next /\ UNCHANGED <<addressVars, sessionVars>>
     \/ focus = "faults" /\ Next /\ UNCHANGED <<addressVars, sessionVars>>
     \/ focus = "memory" /\ Memory!Next /\ UNCHANGED <<addressVars, sessionVars>>
  /\ UNCHANGED focus

allVars == <<focus, addressVars, sessionVars, vars>>

RequestsSpec == RequestsInit /\ [][RequestsNext]_allVars

Symmetry == Permutations(Request) \cup Permutations(Body)

Once == INSTANCE AtMostOnce
          WITH phase <- IF focus = "calm" THEN Calm!PhaseOf ELSE [k \in Key |-> "idle"]

\* Without faults the two lookups and the lock of the middleware implement AtMostOnce: a command
\* never runs twice at a time nor again while its response is kept, however requests interleave.
RunsOncePerKey == Once!Spec

\* Idempotency: the memory store never holds more than its capacity, and unless a release was lost
\* a live lock belongs to a request still at work.
LocksBounded ==
  /\ focus = "faults" => LocksAndStoreBounded
  /\ focus = "calm" => Calm!LocksAndStoreBounded
  /\ focus = "memory" => Memory!LocksAndStoreBounded
=============================================================================
