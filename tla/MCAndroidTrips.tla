--------------------------- MODULE MCAndroidTrips ---------------------------
(* Model values for AndroidTrips: identities are only compared, so the safety *)
(* runs may permute them.                                                     *)
EXTENDS AndroidTrips, TLC

CONSTANTS d1, d2, v1, t1, t2, r1, r2, p1

TwoDrivers  == {d1, d2}
OneVehicle  == {v1}
OneTrip     == {t1}
TwoTrips    == {t1, t2}
OneRequest  == {r1}
TwoRequests == {r1, r2}
OnePhone    == {p1}

Symmetry == Permutations(Driver) \cup Permutations(Trip)
            \cup Permutations(Request) \cup Permutations(Phone)
=============================================================================
