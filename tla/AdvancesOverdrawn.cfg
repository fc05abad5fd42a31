\* Two decisions at once on two advances of one worker, requested one by one.
SPECIFICATION Spec
CONSTANTS
    w1 = w1
    Worker = {w1}
    Advance = {a1, a2}
    Owner <- OwnedByW1
    Requester = {q1}
    Approver = {u1, u2}
    MaxRequests = 2
    MinimumAmount = 1
    MaximumAmount = 2
    MaxShare = 3
    LastDay = 1
    MonthStart <- OneMonth
PROPERTIES
    ApprovalsWithinEarned
\* users may stop acting
CHECK_DEADLOCK FALSE
