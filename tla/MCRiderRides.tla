---------------------------- MODULE MCRiderRides ----------------------------
(* Model values for RiderRides: rides and requests are only compared for     *)
(* equality, so a run without liveness may permute them.                     *)
EXTENDS RiderRides, TLC

CONSTANTS d1, i1, i2, r1, r2

OneRider    == {d1}
OneRide     == {i1}
TwoRides    == {i1, i2}
TwoRequests == {r1, r2}

Symmetry == Permutations(Ride) \cup Permutations(Request)
=============================================================================
