SPECIFICATION Spec
CONSTANTS
    u1 = u1
    u2 = u2
    r1 = r1
    r2 = r2
    i1 = i1
    i2 = i2
    k1 = k1
    k2 = k2
    c1 = c1
    c2 = c2
    d1 = d1
    d2 = d2
    a1 = a1
    a2 = a2
    a3 = a3
    ip1 = ip1
    ip2 = ip2
    e1 = e1
    e2 = e2
    User <- Users
    Bootstrap = u1
    Absent = Absent
    Request <- Requests
    Instance <- Instances
    ApiKey <- Keys
    Consumer <- Consumers
    Grace = 2
    MaxLookup = 1
    MaxKeyTime = 5
    Key <- Drivers
    Interval = 2
    Burst = 2
    Capacity = 1
    Idle = 4
    IP <- IPs
    Email <- Emails
    Attempt <- Attempts
    IPLimit = 2
    EmailLimit = 2
    Window = 2
    MaxTracked = 1
    MaxCount = 3
    MaxClock = 6
SYMMETRY Symmetry
INVARIANT AnAdminRemains
INVARIANT RevokedKeyRunsOut
INVARIANT CleanUpChangesNoAnswer
INVARIANT BudgetIsForFailures
\* A run stops where a clock reaches its bound.
CHECK_DEADLOCK FALSE
