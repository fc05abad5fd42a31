---------------------------- MODULE MCPayrollClose ----------------------------
(* Instances of PayrollClose for TLC: every advance belongs to one worker,   *)
(* every worker is paid monthly.                                             *)
EXTENDS PayrollClose

CONSTANTS
    w1,         \* the worker who asks for the advances
    Reworked    \* the cycles that may be overridden, edited or deleted

OwnedByW1 == [a \in Advance |-> w1]

MonthlyContract == [w \in Worker |-> MaxEarned]

OnlyReworkedCycles ==
    /\ \A c \in Cycle \ Reworked, w \in Worker : ~line[c][w].manual
    /\ \A r \in Request : edit[r].cycle \in Reworked \cup {NoCycle}
===============================================================================
