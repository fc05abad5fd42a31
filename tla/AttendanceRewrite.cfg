\* What the code does to a final wage when overtime is approved afterwards.
SPECIFICATION Spec
CONSTANTS
    Attendance = {a1}
    Overtime = {o1}
    Period = {a1}
    Flagged = {}
PROPERTIES
    LockedWageIsKept
CONSTRAINT OnlyFlaggedDays
CHECK_DEADLOCK FALSE
