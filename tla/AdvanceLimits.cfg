\* One worker, three advances in the request scene and two in the decision
\* scene, two requests and two decisions at once, two days of a month.
SPECIFICATION Spec
CONSTANTS
    w1 = w1
    Worker = {w1}
    Advance = {a1, a2, a3}
    Owner <- OwnedByW1
    Requester = {q1, q2}
    Approver = {u1, u2}
    MaxRequests = 1
    MinimumAmount = 1
    MaximumAmount = 2
    MaxShare = 3
    LastDay = 2
    MonthStart <- OneMonth
INVARIANTS
    TypeOK
    RequestsWithinPolicy
PROPERTIES
    OverdrawnOnlyByOverlap
    DecisionIsFinal
CONSTRAINT OneScene
SYMMETRY Alike
\* users may stop acting
CHECK_DEADLOCK FALSE
