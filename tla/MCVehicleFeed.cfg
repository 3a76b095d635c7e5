SPECIFICATION Spec
CONSTANTS
    v1 = v1
    u1 = u1
    u2 = u2
    t1 = t1
    NoTrip = NoTrip
    NoUpload = NoUpload
    Vehicle <- OneVehicle
    Upload <- TwoUploads
    Trip <- OneTrip
    Registries <- SomeRides
    Stops <- StopsAt
    ConsensusDistance = 2
    OutlierDistance = 2
    PointMaxAge = 2
    MaxAge = 2
    Retention = 2
    MaxDelay = 1
    MaxTime = 5
SYMMETRY Symmetry
INVARIANT RecentReportIsTracked
INVARIANT NothingOlderThanTwoWindows
INVARIANT ShownIsStored
INVARIANT OnePositionPerTrip
INVARIANT EstimateIsVouchedFor
