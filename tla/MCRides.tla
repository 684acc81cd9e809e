------------------------------ MODULE MCRides ------------------------------
(* Model checking of RideLifecycle. *)
EXTENDS RideLifecycle, TLC

Symmetry == Permutations(Driver) \cup Permutations(Request)
=============================================================================
