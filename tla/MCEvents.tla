------------------------------ MODULE MCEvents ------------------------------
(* The way of an event: from the process whose request committed it to every
   process's projection (AssignmentProjection), and from a publisher through the
   hub to a connection (RealtimeHub). Each behaviour moves one of them; the
   projection in two sizes, two processes with one ride and one process with two
   rides of a driver. *)
EXTENDS RealtimeHub, AssignmentProjection, TLC

CONSTANTS t1,
          MaxSending   \* bound of the publications in flight

ASSUME ProjectionAssumption == ProjectionConstants

VARIABLE focus   \* "hub", "processes" or "rides"

OneTopicOf == [e \in Event |-> {t1}]

EventsInit ==
  /\ focus \in {"hub", "processes", "rides"}
  /\ Init /\ ProjectionInit

\* Publishers are interchangeable, and so are critical events: they come in the order of their names.
InOrder ==
  /\ \A p, q \in Producer : p < q /\ prod[q].event # None => prod[p].event # None
  /\ \A e, f \in Critical : e < f /\ ~Unpublished(f) => ~Unpublished(e)

\* Two publications can cross each other and a lookup; one frame waits at each process, and one
\* lookup is in progress.
FewAtATime ==
  /\ Cardinality(sending) <= MaxSending /\ \A p \in Process : Len(inbox[p]) <= 1
  /\ Cardinality({p \in Process : lookup[p].pc # "idle"}) <= 1

\* All but one ride are never accepted, canceled or looked for.
OneRide ==
  \E one \in Ride : \A r \in Ride \ {one} : status[r] = "requested" /\ \A p \in Process : lookup[p].ride # r

\* All but one process lose their subscription first of all and serve nothing; the one keeps its own.
OneProcess ==
  \E one \in Process : linked[one] /\ \A p \in Process \ {one} :
    ~linked[p] /\ lookup[p].pc = "idle" /\ \A e \in sending : e.from # p

EventsNext ==
  /\ \/ focus = "hub" /\ Next /\ InOrder' /\ UNCHANGED projectionVars
     \/ focus = "processes" /\ ProjectionNext /\ (FewAtATime /\ OneRide)' /\ UNCHANGED vars
     \/ focus = "rides" /\ ProjectionNext /\ (FewAtATime /\ OneProcess)' /\ UNCHANGED vars
  /\ UNCHANGED focus

EventsSpec == EventsInit /\ [][EventsNext]_<<focus, vars, projectionVars>>

Symmetry == Permutations(Process) \cup Permutations(Ride)
=============================================================================
