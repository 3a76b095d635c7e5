SPECIFICATION SpecApp
CONSTANTS
    d1 = d1
    d2 = d2
    v1 = v1
    t1 = t1
    t2 = t2
    r1 = r1
    r2 = r2
    p1 = p1
    c1 = c1
    c2 = c2
    None = None
    Driver <- TwoDrivers
    Vehicle <- OneVehicle
    Trip <- TwoTrips
    Request <- TwoRequests
    Phone <- OnePhone
    Caller <- TwoCallers
    MaxPairs = 3
    MaxStrays = 1
SYMMETRY Symmetry
INVARIANT NewerSessionIsKept
\* The instance's tokens run out: a state with nothing left to do is no error.
CHECK_DEADLOCK FALSE
