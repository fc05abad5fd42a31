\* The device scene and the site scene of two rosters, two captures, two tabs
\* and two requests that the server handles at once.
SPECIFICATION Spec
CONSTANTS
    r1 = r1
    w1 = w1
    w2 = w2
    s1 = s1
    d1 = d1
    t1 = t1
    Roster = {r1, r2}
    Worker = {w1, w2}
    Site = {s1, s2}
    Date = {d1, d2}
    Assigned = {s1}
    Key = {1, 2}
    Tab = {t1, t2}
    Server = {g1, g2}
    Transfer = {x1}
    BatchLimit = 2
INVARIANTS
    TypeOK
    NothingIsLost
    AttendedOnce
    RecordedAsRostered
CONSTRAINT OneScene
SYMMETRY ServerSymmetry
\* users may stop acting
CHECK_DEADLOCK FALSE
