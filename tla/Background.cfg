\* One notification, two workers (docker-compose runs two), one lost worker;
\* two gaps of two kinds, two scans at once, one of which may fail.
SPECIFICATION AllFairSpec
CONSTANTS
    Notification = {1, 2}
    CeleryWorker = {w1, w2}
    DispatchLimit = 1
    MaxAttempts = 3
    MaxRetries = 1
    MaxMessages = 2
    MaxCrashes = 1
    MaxFaults = 1
    w1 = w1
    e1 = e1
    k1 = k1
    k2 = k2
    Subject = {e1, e2}
    Kind = {k1, k2}
    KindOf <- KindOfTwo
    Scan = {s1, s2}
    MaxScanFaults = 1
INVARIANTS
    TypesOK
    GivenUpAfterAllAttempts
    ProcessingIsAttended
PROPERTIES
    EventuallySettled
    DecisionsAreKept
    LastingGapsAreReported
\* the system may stop: a settled notification needs no further step
CHECK_DEADLOCK FALSE
