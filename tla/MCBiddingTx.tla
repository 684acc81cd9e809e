---------------------------- MODULE MCBiddingTx ----------------------------
(***************************************************************************)
(* Model checking of BiddingTx.  A behaviour starts in a state of Bidding  *)
(* with the contention in place, one of several scenes: some passengers    *)
(* have an open session each, the drivers of the scene are online and have *)
(* bid on all of them.  Driver d1 had a ride r1, which in a scene still    *)
(* goes on.  The scene bounds the requests that follow: how many, of which *)
(* store methods and by whom.                                              *)
(***************************************************************************)
EXTENDS BiddingTx, TLC

CONSTANTS p1, p2, p3, d1, d2, s1, s2, r1, r2, r3,
          Scenes   \* one of the sets of scenes below

VARIABLE scene

mcVars == <<txVars, scene>>

\* Three requests of any kind by one passenger and one driver.
Booking == [requests |-> 3, ops |-> Ops, passengers |-> {p1}, drivers |-> {d1},
            owner |-> [s \in {s1} |-> p1], ride |-> "ended"]

\* Two passengers and a driver's last seat.
LastSeat == [requests |-> 2, ops |-> {"AcceptOffer", "PlaceOffer"},
             passengers |-> {p1, p2}, drivers |-> {d1}, owner |-> (s1 :> p1 @@ s2 :> p2),
             ride |-> "accepted"]

\* Two drivers and one session.
Rivals == [requests |-> 2, ops |-> {"AcceptOffer", "PlaceOffer", "CancelSession"},
           passengers |-> {p1}, drivers |-> {d1, d2}, owner |-> [s \in {s1} |-> p1],
           ride |-> "ended"]

\* Two acceptances; both drivers have bid on both sessions.
Acceptances == [requests |-> 2, ops |-> {"AcceptOffer"}, passengers |-> {p1, p2},
                drivers |-> {d1, d2}, owner |-> (s1 :> p1 @@ s2 :> p2), ride |-> "ended"]

SafetyScenes == {Booking, LastSeat, Rivals}
DeadlockScenes == {Acceptances}

MCInit ==
  /\ scene \in Scenes
  /\ sStatus  = [s \in Session |-> IF s \in DOMAIN scene.owner THEN "open" ELSE "absent"]
  /\ sOwner   = [s \in Session |-> IF s \in DOMAIN scene.owner THEN scene.owner[s] ELSE None]
  /\ sTarget  = [s \in Session |-> None]
  /\ sDriver  = [s \in Session |-> None]
  /\ sClock   = [s \in Session |-> "before"]
  /\ oStatus  = [s \in Session |-> [d \in Driver |->
                   IF s \in DOMAIN scene.owner /\ d \in scene.drivers THEN "pending" ELSE "none"]]
  /\ rStatus  = [r \in Ride |-> IF r = r1 THEN scene.ride ELSE "absent"]
  /\ rOwner   = [r \in Ride |-> IF r = r1 THEN p3 ELSE None]
  /\ rDriver  = [r \in Ride |-> IF r = r1 THEN d1 ELSE None]
  /\ rSession = [r \in Ride |-> None]
  /\ online   = scene.drivers
  /\ tx = [t \in Tx |-> Idle]

\* Only those of the scene act, and the keys of rides are handed out in order.
InScene ==
  /\ online' \subseteq scene.drivers
  /\ Cardinality({t \in Tx : tx'[t].pc # "idle"}) <= scene.requests
  /\ \A t \in Tx : /\ tx'[t].op \in scene.ops \cup {"none"}
                   /\ tx'[t].p \in scene.passengers \cup {None}
                   /\ tx'[t].d \in scene.drivers \cup {None}
  /\ \A s \in Session : sTarget'[s] \in scene.drivers \cup {None}
  /\ rStatus'[r3] # "absent" => rStatus'[r2] # "absent"

MCNext == TxNext /\ InScene /\ UNCHANGED scene

MCSpec == MCInit /\ [][MCNext]_mcVars

Symmetry == Permutations(Tx)
============================================================================
