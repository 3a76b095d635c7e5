----------------------------- MODULE MCIosTrips -----------------------------
(* Model values for IosApp: identities are only compared, so the run may     *)
(* permute them.  A third pair of tokens is a second renewal, or one beside  *)
(* the first sign-in and the next.                                           *)
EXTENDS IosApp, TLC

CONSTANTS d1, d2, v1, t1, t2, r1, r2, p1, c1, c2

TwoDrivers  == {d1, d2}
OneVehicle  == {v1}
TwoTrips    == {t1, t2}
TwoRequests == {r1, r2}
OnePhone    == {p1}
TwoCallers  == {c1, c2}

Symmetry == Permutations(Driver) \cup Permutations(Trip)
            \cup Permutations(Request) \cup Permutations(Caller)
=============================================================================
