\* What locking does to an advance disbursed into a cycle that is already built.
SPECIFICATION Spec
CONSTANTS
    w1 = w1
    Reworked = {}
    Cycle = {c1}
    Worker = {w1}
    Advance = {a1}
    Request = {}
    Owner <- OwnedByW1
    Contract <- MonthlyContract
    MaxEarned = 1
    NoCycle = NoCycle
INVARIANTS
    AdvancesReconciled
CONSTRAINT OnlyReworkedCycles
CHECK_DEADLOCK FALSE
