----------------------------- MODULE MCDrivers -----------------------------
(* The points of one driver and of the passenger of its ride (Tracking). Each
   behaviour moves one of two: the points with the searches, or the points of a
   ride with one point of the driver. *)
EXTENDS Tracking, TLC

CONSTANT RideTime   \* bound of the clock where the ride's points move

VARIABLE focus      \* "points" or "ride"

DriversInit == focus \in {"points", "ride"} /\ Init

\* One point of the driver and no failure, for the requests of the ride's parties.
OnePoint ==
  /\ ~failed /\ clock <= RideTime
  /\ Cardinality({i \in Ingest : job[i].pc # "idle"}) <= 1

DriversNext ==
  /\ \/ focus = "points" /\ UNCHANGED tripVars /\ Next
     \/ focus = "ride" /\ UNCHANGED scan /\ Next /\ OnePoint'
  /\ UNCHANGED focus

DriversSpec == DriversInit /\ [][DriversNext]_<<focus, vars>>

Symmetry == Permutations(Ingest)
=============================================================================
