\* Two cycles, one of them overridden and edited, one worker, one advance:
\* every interleaving of build, override, approve, lock, edit, disbursement.
SPECIFICATION Spec
CONSTANTS
    w1 = w1
    Reworked = {c1}
    Cycle = {c1, c2}
    Worker = {w1}
    Advance = {a1}
    Request = {r1}
    Owner <- OwnedByW1
    Contract <- MonthlyContract
    MaxEarned = 1
    NoCycle = NoCycle
CONSTRAINT OnlyReworkedCycles
INVARIANTS
    TypeOK
    BelowContractIsReasoned
    DeductedInOneCycle
    LockedDeductionsAreSettled
PROPERTIES
    CloseIsControlled
\* users may stop acting: a locked cycle needs no further step
CHECK_DEADLOCK FALSE
