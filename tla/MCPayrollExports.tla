--------------------------- MODULE MCPayrollExports ---------------------------
(* One cycle of two workers, two concurrent requests, two workers of       *)
(* Celery, and reports of more than one line built in the background.      *)
EXTENDS PayrollExports

CONSTANTS w1, w2   \* the workers who may have a line

(* A line of the table; its net pay may be overridden with another amount. *)
Line(regular, overtime, allowances, absence, advance, net, overridden) ==
    [overridden |-> overridden,
     amount |-> [basic |-> 9, regular |-> regular, overtime |-> overtime,
                 allowances |-> allowances, other |-> 0, absence |-> absence,
                 advance |-> advance, otherDeductions |-> 0,
                 gross |-> regular + overtime + allowances,
                 calculated |-> regular + overtime + allowances - absence - advance,
                 net |-> net]]

NoLines == [w \in {} |-> 0]
OneLine == [w \in {w1} |-> Line(7, 2, 4, 1, 2, 10, FALSE)]
TwoLines == [w \in {w1, w2} |->
    IF w = w1 THEN Line(7, 2, 5, 1, 2, 11, FALSE) ELSE Line(5, 0, 2, 3, 2, 6, TRUE)]
Tables == {NoLines, OneLine, TwoLines}

Busy == {k \in Clerk : request[k] # {}}
Idle == \A w \in CeleryWorker : job[w] = {}

(* One hard case at a time: two requests, or the faults of a task, or a    *)
(* second export, or a reworked cycle; never all of them at once.          *)
OneConcernAtATime ==
    /\ (\E c \in Cycle : phase[c] = "void") => exports = <<>> /\ Busy = {}
    /\ \A c \in Cycle : Cardinality(approved[c]) \leq 1
    /\ crashes + faults \leq 1
    /\ crashes + faults = 1 => reworked = {}
    /\ Busy # {} => Idle /\ crashes + faults = 0
    /\ Len(exports) = 2 => Idle /\ Busy = {}
    /\ Cardinality(Busy) = 2 => \A k \in Clerk : \A r \in request[k] : r.stage \in {"queue", "insert"}
    /\ \A k \in Clerk : \A r \in request[k] :
          r.stage # "download" /\ r.type \notin {"wps", "report_html"} => exports = <<>> /\ Cardinality(Busy) = 1
===============================================================================
