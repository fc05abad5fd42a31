\* Two disputes and two escalations; two members and two requests on them; a
\* worker of four contracts and two work dates.
SPECIFICATION AllSpec
CONSTANTS
    Dispute = {d1, d2}
    WithLine = {d1}
    Request = {q1, q2}
    MaxAdjustments = 4
    Member = {m1, m2}
    Founder = {m1}
    Call = {c1, c2}
    Day = {1, 2}
    DailyHours = 8
    HalfDay = 50
    Multiplier = 5
    NightMultiplier = 6
    Contracts <- FourContracts
    WorkedMinutes = {61, 601}
    OvertimeMinutes = {0, 121}
INVARIANTS
    TypeOK
    TypesOK
    AdjustedOncePerDecision
    LockedPeriodIsSettled
    PrivilegesComeFromOwners
    RemovalsLeaveAnOwner
    PayslipIsExplained
    DaysPayInOrder
PROPERTIES
    DecisionIsFinal
CONSTRAINT OneScene
\* users may stop acting
CHECK_DEADLOCK FALSE
