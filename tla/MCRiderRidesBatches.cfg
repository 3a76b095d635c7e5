SPECIFICATION FairSpec
CONSTANTS
    d1 = d1
    i1 = i1
    i2 = i2
    r1 = r1
    r2 = r2
    None = None
    Reaper = Reaper
    Rider <- OneRider
    Ride <- OneRide
    Request <- TwoRequests
    MaxBatches = 3
INVARIANT FiledRideIsWhole
INVARIANT RejectionIsFiled
PROPERTY EndedRideIsRetired
\* The instance's rides run out: a state with nothing left to do is no error.
CHECK_DEADLOCK FALSE
