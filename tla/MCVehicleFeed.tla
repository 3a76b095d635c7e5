---------------------------- MODULE MCVehicleFeed ----------------------------
(* One vehicle, two requests at a time and three riders of one trip.  Places *)
(* are in steps of 50 m, so both distances of the code are two steps.        *)
EXTENDS VehicleFeed, Sequences, TLC

CONSTANTS v1, u1, u2, t1

OneVehicle == {v1}
TwoUploads == {u1, u2}
OneTrip    == {t1}
StopsAt    == {0, 3, 6}

Ride(tier, along, at) ==
    [live |-> TRUE, verified |-> TRUE, newest |-> TRUE, corroborated |-> FALSE,
     tier |-> tier, along |-> along, at |-> at]

Plain(x) == Ride("normal", x, 1)
Trusted(x) == Ride("trusted", x, 1)

\* One ride of each kind: alone, with a rider near it, and against a crowd.
Special ==
    {Trusted(0), Ride("blocked", 0, 1),
     [Plain(0) EXCEPT !.corroborated = TRUE, !.at = 2],
     [Trusted(0) EXCEPT !.live = FALSE], [Trusted(0) EXCEPT !.newest = FALSE]}

Crowds ==
    {<<>>, <<Plain(0)>>, <<Plain(2)>>, <<Plain(5)>>,
     <<Plain(2), Plain(5)>>, <<Plain(5), Plain(5)>>, <<Plain(5), Plain(8)>>}

SomeRides ==
    {<<a>> \o c : a \in Special, c \in Crowds}
      \cup {<<Plain(0)>> \o c : c \in Crowds} \cup {<<Ride("normal", 5, 4)>>}

Symmetry == Permutations(Upload)
=============================================================================
