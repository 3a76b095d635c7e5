SPECIFICATION SpecEngine
CONSTANTS
    d1 = d1
    i1 = i1
    i2 = i2
    r1 = r1
    r2 = r2
    None = None
    Reaper = Reaper
    Rider <- OneRider
    Ride <- TwoRides
    Request <- TwoRequests
    MaxBatches = 1
    VerifyStreak = 2
    RejectStreak = 3
    ContradictStreak = 2
    CorroborateCount = 2
    MinScoredRide = 2
    PastWindow = 2
    FutureWindow = 1
    PointMaxAge = 1
    MaxTime = 6
SYMMETRY Symmetry
INVARIANT OneLiveRidePerRider
INVARIANT ReputationOncePerRide
INVARIANT StateFollowsFromLog
INVARIANT RejectionIsBlamedRight
INVARIANT LogIsChronological
INVARIANT PublishedOnARecentMatch
PROPERTY NothingIsDropped
\* The instance's rides and ticks run out: a state with nothing left to
\* do is no error.
CHECK_DEADLOCK FALSE
