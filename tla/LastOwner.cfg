\* One owner and one request are enough.
SPECIFICATION AccountsSpec
CONSTANTS
    Member = {m1, m2}
    Founder = {m1}
    Call = {c1}
INVARIANT AnOwnerRemains
\* users may stop acting
CHECK_DEADLOCK FALSE
