\* One cycle, two requests, two exports, two Celery workers and one fault.
SPECIFICATION FairSpec
CONSTANTS
    w1 = w1
    w2 = w2
    Cycle = {c1}
    Pay <- Tables
    ExportType = {"wps", "report_html", "report_pdf", "report_excel"}
    Clerk = {k1, k2}
    CeleryWorker = {p1, p2}
    SyncMaxRows = 1
    MaxRetries = 1
    MaxExports = 2
    MaxCrashes = 1
    MaxFaults = 1
INVARIANTS
    VersionsAreSequential
    WpsFileIsLockedPay
    FinalReportUnlessReworked
    ReportsAddUp
    UnsettledIsAttended
CONSTRAINT OneConcernAtATime
PROPERTY EventuallySettled
\* users may stop acting
CHECK_DEADLOCK FALSE
