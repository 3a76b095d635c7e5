SPECIFICATION FairSpec
CONSTANTS
    agency = agency
    other = other
    old = old
    new = new
    broken = broken
    foreign = foreign
    NoCopy = NoCopy
    Down = Down
    Source <- TwoSources
    Body <- FourZips
    Origin <- Publisher
    Feed <- FeedOf
    ServiceDayCutoffHour = 3
    ShapeDistUnits = {1, 10}
    Instant <- Hours
    Feeds <- TwoFeeds
    Contents <- Tables
    Tagged = {2}
    Working = {2}
    TrustedMaxAge = 1
    TrustedMaxTime = 3
INVARIANT CopyIsSound
INVARIANT FailureHidesNothing
INVARIANT RunningTripIsDatedRight
INVARIANT ScheduleRunsForward
PROPERTY IndexCatchesUp
PROPERTY WorkingFeedCatchesUp
