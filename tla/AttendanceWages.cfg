\* Two scenes: one day with both time exceptions, every interleaving of its
\* decisions, check-out, overtime, wage task and payroll lock, and two days
\* without, inside and outside the period, with overtime that moves between.
SPECIFICATION Spec
CONSTANTS
    Attendance = {a1, a2}
    Overtime = {o1}
    Period = {a1}
    Flagged = {a1}
INVARIANTS
    TypeOK
    StatusFollowsExceptions
    OnlyApprovedDaysArePaid
    LockedWageIsFinal
    WageCurrentOrQueued
PROPERTIES
    SettledStaysSettled
CONSTRAINT OneSceneAtATime
\* users may stop acting
CHECK_DEADLOCK FALSE
