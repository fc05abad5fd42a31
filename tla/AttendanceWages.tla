--------------------------- MODULE AttendanceWages ---------------------------
(***************************************************************************)
(* From a check-in to a daily wage: attendance records, their time         *)
(* exceptions, overtime requests, the Celery task that writes the daily    *)
(* wage ledger, and what locking a payroll does to both.                   *)
(*                                                                         *)
(* Every HTTP request is one PostgreSQL transaction at READ COMMITTED      *)
(* (ATOMIC_REQUESTS).  The variables hold the committed rows.  A request   *)
(* whose reads and writes all happen under the row lock of the attendance  *)
(* is one action; one that works outside that lock is split where another  *)
(* transaction can commit in between, and the rows it has locked by then   *)
(* are recorded.                                                           *)
(***************************************************************************)
EXTENDS Integers, FiniteSets

CONSTANTS
    Attendance,   \* roster assignments: each has at most one attendance
    Overtime,     \* overtime requests
    Period        \* the attendances whose work date lies in the payroll cycle

ASSUME PeriodAssumption == Period \subseteq Attendance

Flag == {"late", "early_leave"}
Decision == {"full_day", "half_day", "rejected"}

(* The status and the decision of an exception in one value: "none" is no  *)
(* row, "open" is undecided, the rest is the decision it was closed with.  *)
ExceptionState == {"none", "open"} \cup Decision

AttendanceStatus ==
    {"absent", "open", "pending", "approved", "rejected", "locked"}

OvertimeStatus == {"none", "pending", "approved", "rejected"}

(* A daily wage by what it was computed from: the outcome of the day and   *)
(* the approved overtime requests whose minutes it sums.                   *)
Wage == [final : BOOLEAN,
         outcome : Decision \cup {"none"},
         overtime : SUBSET Overtime]

NoWage == [final |-> FALSE, outcome |-> "none", overtime |-> {}]

VARIABLES
    status,          \* AttendanceRecord.status, "absent" before the check-in
    checkedOut,      \* check_out_at is set
    outcome,         \* AttendanceRecord.outcome
    exception,       \* the time exceptions of each attendance
    deciding,        \* decisions in progress: "idle", the outcome, or "swept"
    holds,           \* the exception rows each decision has locked
    overtimeStatus,  \* OvertimeRequest.status, "none" when there is no row
    overtimeOn,      \* the attendance the request is about
    edit,            \* the status a PATCH of the request read, or "none"
    queued,          \* a calculate_daily_wage message is in the broker
    calc,            \* the wage a running task is about to write
    ledger,          \* DailyWageLedger, NoWage when there is no row
    missed,          \* wage inputs changed and no recalculation was queued
    closing,         \* lock_payroll: "idle", "ready" (checked) or "marked"
    marked           \* attendances it has locked and will set to LOCKED

attendanceVars == <<status, checkedOut, outcome, exception>>
decisionVars == <<deciding, holds>>
overtimeVars == <<overtimeStatus, overtimeOn, edit>>
wageVars == <<queued, calc, ledger, missed>>
closeVars == <<closing, marked>>

vars == <<attendanceVars, decisionVars, overtimeVars, wageVars, closeVars>>

-----------------------------------------------------------------------------
(* Helpers *)

(* Some exception of the attendance is undecided. *)
AnyOpen(exc) == \E f \in Flag : exc[f] = "open"

(* Decided exceptions carry a decision; an open one has none. *)
Decided(exc, d) == \E f \in Flag : exc[f] = d

(* Attendance whose wage may be calculated. *)
Payable(a) == status[a] \in {"approved", "locked"}

AttendanceRowUnlocked(a) == TRUE

(* No other transaction holds the row lock of the attendance: neither a    *)
(* running wage calculation nor a payroll lock that has updated the row.   *)
AttendanceRowFree(a) == calc[a] = NoWage /\ a \notin marked

(* No decision on another exception of the attendance has locked this one. *)
ExceptionRowFree(a, f) == \A g \in Flag : f \notin holds[a][g]

(* The approved overtime of an attendance. *)
ApprovedOvertime(a) ==
    {o \in Overtime : overtimeStatus[o] = "approved" /\ overtimeOn[o] = a}

WageNow(a) == [final |-> status[a] = "locked",
               outcome |-> outcome[a],
               overtime |-> ApprovedOvertime(a)]

PublishFirst(a) ==
    /\ queued' = [queued EXCEPT ![a] = ledger[a] = NoWage]
    /\ UNCHANGED missed

(* on_commit(calculate_daily_wage.delay): the message reaches the broker,  *)
(* or the process stops or the broker refuses it after the commit.         *)
Publish(a) ==
    \/ /\ queued' = [queued EXCEPT ![a] = TRUE]
       /\ UNCHANGED missed
    \/ /\ missed' = missed \cup {a}
       /\ UNCHANGED queued

-----------------------------------------------------------------------------
(* Check-in and check-out *)

(* A roster that already has an attendance is refused, and a repeated      *)
(* idempotency key returns the existing record: neither changes anything.  *)
CheckIn(a, late) ==
    /\ status[a] = "absent"
    /\ status' = [status EXCEPT ![a] = IF late THEN "pending" ELSE "open"]
    /\ exception' = [exception EXCEPT
                        ![a]["late"] = IF late THEN "open" ELSE "none"]
    /\ UNCHANGED <<checkedOut, outcome, decisionVars, overtimeVars,
                   wageVars, closeVars>>

CheckOutAllowedIfRejected(a) ==
    /\ status[a] \notin {"absent", "locked"}
    /\ ~checkedOut[a]

CheckOutAllowed(a) ==
    /\ status[a] \notin {"absent", "locked", "rejected"}
    /\ ~checkedOut[a]

CheckOut(a, early) ==
    LET exc == IF early /\ exception[a]["early_leave"] = "none"
               THEN [exception[a] EXCEPT !["early_leave"] = "open"]
               ELSE exception[a]
        new == IF AnyOpen(exc) THEN "pending" ELSE "approved"
    IN  /\ CheckOutAllowed(a)
        /\ AttendanceRowFree(a)
        /\ checkedOut' = [checkedOut EXCEPT ![a] = TRUE]
        /\ exception' = [exception EXCEPT ![a] = exc]
        /\ status' = [status EXCEPT ![a] = new]
        /\ IF new = "approved" THEN Publish(a) ELSE UNCHANGED <<queued, missed>>
        /\ UNCHANGED <<outcome, decisionVars, overtimeVars, calc, ledger,
                       closeVars>>

-----------------------------------------------------------------------------
(* Deciding an exception.  The request locks the exception, on a rejection *)
(* updates the other open exceptions (waiting for their row locks), then   *)
(* locks the attendance and recomputes it from all its exceptions.         *)

DecideLock(a, f, d) ==
    /\ exception[a][f] = "open"
    /\ deciding[a][f] = "idle"
    /\ ExceptionRowFree(a, f)
    /\ deciding' = [deciding EXCEPT ![a][f] = d]
    /\ holds' = [holds EXCEPT ![a][f] = {f}]
    /\ UNCHANGED <<attendanceVars, overtimeVars, wageVars, closeVars>>

DecideSweep(a, f) ==
    LET others == {g \in Flag \ {f} : exception[a][g] = "open"}
    IN  /\ deciding[a][f] = "rejected"
        /\ \A g \in others : ExceptionRowFree(a, g)
        /\ deciding' = [deciding EXCEPT ![a][f] = "swept"]
        /\ holds' = [holds EXCEPT ![a][f] = @ \cup others]
        /\ UNCHANGED <<attendanceVars, overtimeVars, wageVars, closeVars>>

LastOutcome(exc) == exc["early_leave"]

OutcomeOf(exc) ==
    IF Decided(exc, "rejected") THEN "rejected"
    ELSE IF Decided(exc, "half_day") THEN "half_day"
    ELSE "full_day"

StatusOfAnyDay(exc, out) ==
    IF Decided(exc, "rejected") THEN "rejected"
    ELSE IF AnyOpen(exc) THEN "pending"
    ELSE "approved"

StatusOf(exc, out) ==
    IF Decided(exc, "rejected") THEN "rejected"
    ELSE IF AnyOpen(exc) THEN "pending"
    ELSE IF out THEN "approved"
    ELSE "open"

(* The decision of the request's own exception and of those it swept. *)
Recorded(a, f) ==
    [g \in Flag |->
        IF g = f
        THEN IF deciding[a][f] = "swept" THEN "rejected" ELSE deciding[a][f]
        ELSE IF g \in holds[a][f] THEN "rejected"
        ELSE exception[a][g]]

DecideCommit(a, f) ==
    LET exc == Recorded(a, f)
        new == StatusOf(exc, checkedOut[a])
    IN  /\ deciding[a][f] \in {"full_day", "half_day", "swept"}
        /\ AttendanceRowFree(a)
        /\ exception' = [exception EXCEPT ![a] = exc]
        /\ outcome' = [outcome EXCEPT ![a] = OutcomeOf(exc)]
        /\ status' = [status EXCEPT ![a] = new]
        /\ deciding' = [deciding EXCEPT ![a][f] = "idle"]
        /\ holds' = [holds EXCEPT ![a][f] = {}]
        /\ IF new = "approved" THEN Publish(a) ELSE UNCHANGED <<queued, missed>>
        /\ UNCHANGED <<checkedOut, overtimeVars, calc, ledger, closeVars>>

(* The request fails, or PostgreSQL picks it as the victim of a deadlock   *)
(* between two rejections that sweep each other's exception.               *)
DecideRollBack(a, f) ==
    /\ deciding[a][f] # "idle"
    /\ deciding' = [deciding EXCEPT ![a][f] = "idle"]
    /\ holds' = [holds EXCEPT ![a][f] = {}]
    /\ UNCHANGED <<attendanceVars, overtimeVars, wageVars, closeVars>>

-----------------------------------------------------------------------------
(* Overtime requests *)

(* A new request is a new row: no PATCH has read it. *)
OvertimeCreate(o, a) ==
    /\ overtimeStatus[o] = "none"
    /\ edit[o] = "none"
    /\ checkedOut[a]
    /\ overtimeStatus' = [overtimeStatus EXCEPT ![o] = "pending"]
    /\ overtimeOn' = [overtimeOn EXCEPT ![o] = a]
    /\ UNCHANGED <<edit, attendanceVars, decisionVars, wageVars, closeVars>>

OvertimeDecide(o, approve) ==
    /\ overtimeStatus[o] = "pending"
    /\ overtimeStatus' =
          [overtimeStatus EXCEPT ![o] = IF approve THEN "approved" ELSE "rejected"]
    /\ IF approve THEN Publish(overtimeOn[o]) ELSE UNCHANGED <<queued, missed>>
    /\ UNCHANGED <<overtimeOn, edit, attendanceVars, decisionVars, calc,
                   ledger, closeVars>>

(* PATCH reads the row without a lock and later saves every column of what *)
(* it read, with the columns the request changes (here: the attendance).   *)
OvertimeEditRead(o) ==
    /\ overtimeStatus[o] # "none"
    /\ edit[o] = "none"
    /\ edit' = [edit EXCEPT ![o] = overtimeStatus[o]]
    /\ UNCHANGED <<overtimeStatus, overtimeOn, attendanceVars, decisionVars,
                   wageVars, closeVars>>

(* Nothing queues a recalculation: where the approved overtime changes,    *)
(* the wage is left as it is.                                              *)
OvertimeEditSave(o, a) ==
    LET touched == IF overtimeStatus[o] = "approved" \/ edit[o] = "approved"
                   THEN {a, overtimeOn[o]} ELSE {}
    IN  /\ edit[o] # "none"
        /\ checkedOut[a]
        /\ overtimeStatus' = [overtimeStatus EXCEPT ![o] = edit[o]]
        /\ overtimeOn' = [overtimeOn EXCEPT ![o] = a]
        /\ edit' = [edit EXCEPT ![o] = "none"]
        /\ missed' = missed \cup touched
        /\ UNCHANGED <<attendanceVars, decisionVars, queued, calc, ledger,
                       closeVars>>

OvertimeDestroy(o) ==
    /\ overtimeStatus[o] # "none"
    /\ overtimeStatus' = [overtimeStatus EXCEPT ![o] = "none"]
    /\ missed' = IF overtimeStatus[o] = "approved"
                 THEN missed \cup {overtimeOn[o]} ELSE missed
    /\ UNCHANGED <<overtimeOn, edit, attendanceVars, decisionVars, queued,
                   calc, ledger, closeVars>>

-----------------------------------------------------------------------------
(* The wage task.  Acknowledged late, so a message may be delivered again: *)
(* taking one either empties the queue or leaves another copy in it.       *)

CalculableAnyStatus(a) == checkedOut[a]

Calculable(a) == Payable(a) /\ checkedOut[a]

(* The task locks the attendance and reads what the wage depends on. *)
WageStart(a) ==
    /\ queued[a]
    /\ Calculable(a)
    /\ AttendanceRowFree(a)
    /\ calc' = [calc EXCEPT ![a] = WageNow(a)]
    /\ queued' \in {queued, [queued EXCEPT ![a] = FALSE]}
    /\ missed' = missed \ {a}
    /\ UNCHANGED <<ledger, attendanceVars, decisionVars, overtimeVars, closeVars>>

(* update_or_create of the ledger row, and the commit. *)
WageFinish(a) ==
    /\ calc[a] # NoWage
    /\ ledger' = [ledger EXCEPT ![a] = calc[a]]
    /\ calc' = [calc EXCEPT ![a] = NoWage]
    /\ UNCHANGED <<queued, missed, attendanceVars, decisionVars, overtimeVars,
                   closeVars>>

(* The attendance is not approved, so the task raises: it is retried, and  *)
(* dropped after max_retries.                                              *)
WageRefused(a) ==
    /\ queued[a]
    /\ ~Calculable(a)
    /\ AttendanceRowFree(a)
    /\ queued' = [queued EXCEPT ![a] = FALSE]
    /\ UNCHANGED <<calc, ledger, missed, attendanceVars, decisionVars,
                   overtimeVars, closeVars>>

(* The transaction rolls back: an exception is retried or, after           *)
(* max_retries, dropped; the message of a lost worker is delivered again.  *)
WageAbort(a) ==
    /\ calc[a] # NoWage
    /\ calc' = [calc EXCEPT ![a] = NoWage]
    /\ Publish(a)
    /\ UNCHANGED <<ledger, attendanceVars, decisionVars, overtimeVars, closeVars>>

-----------------------------------------------------------------------------
(* lock_payroll on an approved cycle, as far as attendance and ledger go.  *)

AttendanceReady ==
    /\ \A a \in Period :
          /\ status[a] \in {"absent", "approved", "locked"}
          /\ status[a] # "absent" => checkedOut[a]
          /\ ~AnyOpen(exception[a])
    /\ \A o \in Overtime :
          overtimeOn[o] \in Period => overtimeStatus[o] # "pending"

LockCheck ==
    /\ closing = "idle"
    /\ AttendanceReady
    /\ closing' = "ready"
    /\ UNCHANGED <<marked, attendanceVars, decisionVars, overtimeVars, wageVars>>

(* The bulk update of the approved attendances waits for their row locks. *)
LockMark ==
    LET rows == {a \in Period : status[a] = "approved"}
    IN  /\ closing = "ready"
        /\ \A a \in rows : AttendanceRowFree(a)
        /\ marked' = rows
        /\ closing' = "marked"
        /\ UNCHANGED <<attendanceVars, decisionVars, overtimeVars, wageVars>>

Finalised(w) ==
    [final |-> TRUE, outcome |-> w.outcome, overtime |-> w.overtime]

(* The ledgers of the period become final and the transaction commits. *)
LockCommit ==
    /\ closing = "marked"
    /\ status' = [a \in Attendance |-> IF a \in marked THEN "locked" ELSE status[a]]
    /\ ledger' = [a \in Attendance |->
                    IF a \in Period /\ ledger[a] # NoWage
                    THEN Finalised(ledger[a]) ELSE ledger[a]]
    /\ closing' = "idle"
    /\ marked' = {}
    /\ UNCHANGED <<checkedOut, outcome, exception, decisionVars, overtimeVars,
                   queued, calc, missed>>

LockRollBack ==
    /\ closing # "idle"
    /\ closing' = "idle"
    /\ marked' = {}
    /\ UNCHANGED <<attendanceVars, decisionVars, overtimeVars, wageVars>>

-----------------------------------------------------------------------------
Init ==
    /\ status = [a \in Attendance |-> "absent"]
    /\ checkedOut = [a \in Attendance |-> FALSE]
    /\ outcome = [a \in Attendance |-> "full_day"]
    /\ exception = [a \in Attendance |-> [f \in Flag |-> "none"]]
    /\ deciding = [a \in Attendance |-> [f \in Flag |-> "idle"]]
    /\ holds = [a \in Attendance |-> [f \in Flag |-> {}]]
    /\ overtimeStatus = [o \in Overtime |-> "none"]
    /\ overtimeOn \in [Overtime -> Attendance]
    /\ edit = [o \in Overtime |-> "none"]
    /\ queued = [a \in Attendance |-> FALSE]
    /\ calc = [a \in Attendance |-> NoWage]
    /\ ledger = [a \in Attendance |-> NoWage]
    /\ missed = {}
    /\ closing = "idle"
    /\ marked = {}

AttendanceStep(a) ==
    \/ \E late \in BOOLEAN : CheckIn(a, late)
    \/ \E early \in BOOLEAN : CheckOut(a, early)
    \/ \E f \in Flag :
          \/ \E d \in Decision : DecideLock(a, f, d)
          \/ DecideSweep(a, f)
          \/ DecideCommit(a, f)
          \/ DecideRollBack(a, f)

OvertimeStep(o) ==
    \/ \E a \in Attendance : OvertimeCreate(o, a) \/ OvertimeEditSave(o, a)
    \/ \E approve \in BOOLEAN : OvertimeDecide(o, approve)
    \/ OvertimeEditRead(o)
    \/ OvertimeDestroy(o)

WageStep(a) == WageStart(a) \/ WageFinish(a) \/ WageRefused(a) \/ WageAbort(a)

LockStep == LockCheck \/ LockMark \/ LockCommit \/ LockRollBack

Next ==
    \/ \E a \in Attendance : AttendanceStep(a) \/ WageStep(a)
    \/ \E o \in Overtime : OvertimeStep(o)
    \/ LockStep

Spec == Init /\ [][Next]_vars

-----------------------------------------------------------------------------
(* Properties *)

TypeOK ==
    /\ status \in [Attendance -> AttendanceStatus]
    /\ checkedOut \in [Attendance -> BOOLEAN]
    /\ outcome \in [Attendance -> Decision]
    /\ exception \in [Attendance -> [Flag -> ExceptionState]]
    /\ deciding \in [Attendance -> [Flag -> Decision \cup {"idle", "swept"}]]
    /\ holds \in [Attendance -> [Flag -> SUBSET Flag]]
    /\ overtimeStatus \in [Overtime -> OvertimeStatus]
    /\ overtimeOn \in [Overtime -> Attendance]
    /\ edit \in [Overtime -> OvertimeStatus]
    /\ queued \in [Attendance -> BOOLEAN]
    /\ calc \in [Attendance -> Wage]
    /\ ledger \in [Attendance -> Wage]
    /\ missed \in SUBSET Attendance
    /\ closing \in {"idle", "ready", "marked"}
    /\ marked \in SUBSET Attendance

(* Whatever the order in which a check-out and the decisions on the        *)
(* exceptions commit, the status and the outcome stored with an attendance *)
(* are the ones its exceptions call for: one rejection rejects the day,    *)
(* else an undecided exception keeps it pending, and only a checked-out    *)
(* day with nothing open is approved or locked (check_out and              *)
(* decide_exception each recompute only their part of it).                 *)
StatusFollowsExceptions ==
    \A a \in Attendance :
        /\ Decided(exception[a], "rejected") <=> status[a] = "rejected"
        /\ status[a] = "pending" <=>
              AnyOpen(exception[a]) /\ ~Decided(exception[a], "rejected")
        /\ Payable(a) => checkedOut[a]
        /\ status[a] = "open" => ~checkedOut[a]
        /\ outcome[a] = OutcomeOf(exception[a])

(* A settled attendance stays settled: once rejected it is never reopened  *)
(* or paid, once approved it only becomes locked, and nothing unlocks it   *)
(* (decide_exception itself never looks for LOCKED).                       *)
SettledStep ==
    \A a \in Attendance :
        /\ status[a] = "rejected" => status'[a] = "rejected"
        /\ status[a] = "approved" => status'[a] \in {"approved", "locked"}
        /\ status[a] = "locked" => status'[a] = "locked"

SettledStaysSettled == [][SettledStep]_vars

(* The wage of a locked attendance is final, although the task that writes *)
(* the wage and the lock that finalises it are different transactions: the *)
(* order of lock_payroll's two updates and the row lock of the task do it. *)
LockedWageIsFinal ==
    \A a \in Attendance :
        status[a] = "locked" /\ ledger[a] # NoWage => ledger[a].final

(* Only an approved day is in the ledger: no open, pending or rejected     *)
(* attendance ever has a wage.                                             *)
OnlyApprovedDaysArePaid ==
    \A a \in Attendance : ledger[a] # NoWage => Payable(a)

(* The wage of an approved day follows its outcome and its overtime, or is *)
(* being brought up to date by a queued or running task: the only holes are*)
(* a message that never reached a worker and an approved overtime request  *)
(* edited or deleted since (update and destroy of OvertimeRequest queue no *)
(* recalculation).  What else a wage depends on, the contract, the policy  *)
(* and the shift, is not in the model; their edits never queue one either. *)
WageCurrentOrQueued ==
    \A a \in Attendance :
        Payable(a) /\ a \notin missed /\ ~queued[a] =>
            LET w == IF calc[a] # NoWage THEN calc[a] ELSE ledger[a]
            IN  w.outcome = outcome[a] /\ w.overtime = ApprovedOvertime(a)

(* The final wage of a locked day is never rewritten: "Locked payroll data *)
(* is not silently overwritten" (README.md).                               *)
LockedWageIsKept ==
    [][\A a \in Attendance :
          status[a] = "locked" /\ ledger[a].final => ledger'[a] = ledger[a]]_vars
=============================================================================
