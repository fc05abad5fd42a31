\* What an escalation does that saves a dispute decided since it was read.
SPECIFICATION Spec
CONSTANTS
    Dispute = {d1, d2}
    WithLine = {d1}
    Request = {r1}
    MaxAdjustments = 2
PROPERTIES
    ClosedIsFinal
CHECK_DEADLOCK FALSE
