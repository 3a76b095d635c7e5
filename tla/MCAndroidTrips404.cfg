SPECIFICATION Spec
CONSTANTS
    d1 = d1
    d2 = d2
    v1 = v1
    t1 = t1
    t2 = t2
    r1 = r1
    r2 = r2
    p1 = p1
    None = None
    Driver <- TwoDrivers
    Vehicle <- OneVehicle
    Trip <- OneTrip
    Request <- OneRequest
    Phone <- OnePhone
SYMMETRY Symmetry
PROPERTY DroppedTripIsOver
\* The instance's trip ids run out: a state with nothing left to do is no error.
CHECK_DEADLOCK FALSE
