------------------------ MODULE AttendanceWagesProofs ------------------------
(***************************************************************************)
(* Proofs about AttendanceWages, for every set of days and of overtime     *)
(* requests and every payroll period.                                      *)
(*                                                                         *)
(* The inductive invariant adds to the properties what the transactions in *)
(* progress rely on: a decision has locked rows that are still open and    *)
(* that no other decision has locked (DecisionInv), the payroll lock marks *)
(* approved days whose wage no task is computing (LockInv), and a running  *)
(* task carries the final flag of the status it read (CalcInv).  With it,  *)
(* WageCurrentOrQueued is inductive too.                                   *)
(***************************************************************************)
EXTENDS AttendanceWages, TLAPS

DecisionInv ==
    \A a \in Attendance : \A f \in Flag :
        /\ deciding[a][f] # "idle" => f \in holds[a][f]
        /\ \A g \in Flag : g \in holds[a][f] => exception[a][g] = "open"
        /\ \A h \in Flag \ {f} : holds[a][f] \cap holds[a][h] = {}

AbsentInv ==
    \A a \in Attendance :
        status[a] = "absent" =>
            ~checkedOut[a] /\ \A f \in Flag : exception[a][f] = "none"

LockInv ==
    \A a \in marked : status[a] = "approved" /\ calc[a] = NoWage /\ a \in Period

CalcInv ==
    \A a \in Attendance :
        calc[a] # NoWage =>
            Payable(a) /\ (calc[a].final <=> status[a] = "locked")

IInv ==
    /\ TypeOK
    /\ DecisionInv
    /\ AbsentInv
    /\ StatusFollowsExceptions
    /\ LockInv
    /\ CalcInv
    /\ OnlyApprovedDaysArePaid
    /\ LockedWageIsFinal

-----------------------------------------------------------------------------
(* Type correctness *)

LEMMA WageTypes ==
    ASSUME TypeOK, NEW a \in Attendance
    PROVE  /\ WageNow(a) \in Wage
           /\ WageNow(a) # NoWage
           /\ NoWage \in Wage
  BY DEF TypeOK, WageNow, NoWage, Wage, ApprovedOvertime, Decision

LEMMA FinalisedType ==
    ASSUME NEW w \in Wage
    PROVE  Finalised(w) \in Wage /\ Finalised(w).final /\ Finalised(w) # NoWage
  BY DEF Wage, Finalised, NoWage

LEMMA PublishType ==
    ASSUME TypeOK, NEW a \in Attendance, Publish(a)
    PROVE  queued' \in [Attendance -> BOOLEAN] /\ missed' \in SUBSET Attendance
  BY DEF TypeOK, Publish

LEMMA RecordedType ==
    ASSUME TypeOK, NEW a \in Attendance, NEW f \in Flag,
           deciding[a][f] \in {"full_day", "half_day", "swept"}
    PROVE  Recorded(a, f) \in [Flag -> ExceptionState]
  BY DEF TypeOK, Recorded, ExceptionState, Decision

LEMMA InitType == Init => TypeOK
  BY DEF Init, TypeOK, AttendanceStatus, Decision, Flag, ExceptionState,
         OvertimeStatus, Wage, NoWage

LEMMA NextType == TypeOK /\ [Next]_vars => TypeOK'
  <1> SUFFICES ASSUME TypeOK, [Next]_vars PROVE TypeOK'
    OBVIOUS
  <1> USE DEF AttendanceStatus, Decision, ExceptionState, OvertimeStatus
  <1>1. ASSUME NEW a \in Attendance, NEW late \in BOOLEAN, CheckIn(a, late)
        PROVE  TypeOK'
    BY <1>1 DEF TypeOK, CheckIn, decisionVars, overtimeVars, wageVars, closeVars, Flag
  <1>2. ASSUME NEW a \in Attendance, NEW early \in BOOLEAN, CheckOut(a, early)
        PROVE  TypeOK'
    <2> DEFINE exc == IF early /\ exception[a]["early_leave"] = "none"
                      THEN [exception[a] EXCEPT !["early_leave"] = "open"]
                      ELSE exception[a]
    <2>1. exc \in [Flag -> ExceptionState]
      BY DEF TypeOK, Flag
    <2>2. queued' \in [Attendance -> BOOLEAN] /\ missed' \in SUBSET Attendance
      BY <1>2, PublishType DEF CheckOut, TypeOK
    <2> QED
      BY <1>2, <2>1, <2>2 DEF TypeOK, CheckOut, decisionVars, overtimeVars, closeVars
  <1>3. ASSUME NEW a \in Attendance, NEW f \in Flag, NEW d \in Decision,
               DecideLock(a, f, d)
        PROVE  TypeOK'
    BY <1>3 DEF TypeOK, DecideLock, attendanceVars, overtimeVars, wageVars, closeVars
  <1>4. ASSUME NEW a \in Attendance, NEW f \in Flag, DecideSweep(a, f)
        PROVE  TypeOK'
    BY <1>4 DEF TypeOK, DecideSweep, attendanceVars, overtimeVars, wageVars, closeVars
  <1>5. ASSUME NEW a \in Attendance, NEW f \in Flag, DecideCommit(a, f)
        PROVE  TypeOK'
    <2>1. Recorded(a, f) \in [Flag -> ExceptionState]
      BY <1>5, RecordedType DEF DecideCommit
    <2>2. queued' \in [Attendance -> BOOLEAN] /\ missed' \in SUBSET Attendance
      BY <1>5, PublishType DEF DecideCommit, TypeOK
    <2>3. /\ OutcomeOf(Recorded(a, f)) \in Decision
          /\ StatusOf(Recorded(a, f), checkedOut[a]) \in AttendanceStatus
      BY DEF OutcomeOf, StatusOf
    <2> QED
      BY <1>5, <2>1, <2>2, <2>3
         DEF TypeOK, DecideCommit, overtimeVars, closeVars
  <1>6. ASSUME NEW a \in Attendance, NEW f \in Flag, DecideRollBack(a, f)
        PROVE  TypeOK'
    BY <1>6 DEF TypeOK, DecideRollBack, attendanceVars, overtimeVars, wageVars, closeVars
  <1>7. ASSUME NEW o \in Overtime, NEW a \in Attendance, OvertimeCreate(o, a)
        PROVE  TypeOK'
    BY <1>7 DEF TypeOK, OvertimeCreate, attendanceVars, decisionVars, wageVars, closeVars
  <1>8. ASSUME NEW o \in Overtime, NEW approve \in BOOLEAN, OvertimeDecide(o, approve)
        PROVE  TypeOK'
    <2>1. overtimeOn[o] \in Attendance
      BY DEF TypeOK
    <2>2. queued' \in [Attendance -> BOOLEAN] /\ missed' \in SUBSET Attendance
      BY <1>8, <2>1, PublishType DEF OvertimeDecide, TypeOK
    <2> QED
      BY <1>8, <2>2 DEF TypeOK, OvertimeDecide, attendanceVars, decisionVars, closeVars
  <1>9. ASSUME NEW o \in Overtime, OvertimeEditRead(o)
        PROVE  TypeOK'
    BY <1>9 DEF TypeOK, OvertimeEditRead, attendanceVars, decisionVars, wageVars, closeVars
  <1>10. ASSUME NEW o \in Overtime, NEW a \in Attendance, OvertimeEditSave(o, a)
         PROVE  TypeOK'
    BY <1>10 DEF TypeOK, OvertimeEditSave, attendanceVars, decisionVars, closeVars
  <1>11. ASSUME NEW o \in Overtime, OvertimeDestroy(o)
         PROVE  TypeOK'
    BY <1>11 DEF TypeOK, OvertimeDestroy, attendanceVars, decisionVars, closeVars
  <1>12. ASSUME NEW a \in Attendance, WageStart(a)
         PROVE  TypeOK'
    BY <1>12, WageTypes DEF TypeOK, WageStart, attendanceVars, decisionVars, overtimeVars, closeVars
  <1>13. ASSUME NEW a \in Attendance, WageFinish(a)
         PROVE  TypeOK'
    BY <1>13, WageTypes DEF TypeOK, WageFinish, attendanceVars, decisionVars, overtimeVars, closeVars
  <1>14. ASSUME NEW a \in Attendance, WageRefused(a)
         PROVE  TypeOK'
    BY <1>14 DEF TypeOK, WageRefused, attendanceVars, decisionVars, overtimeVars, closeVars
  <1>15. ASSUME NEW a \in Attendance, WageAbort(a)
         PROVE  TypeOK'
    <2>1. queued' \in [Attendance -> BOOLEAN] /\ missed' \in SUBSET Attendance
      BY <1>15, PublishType DEF WageAbort
    <2> QED
      BY <1>15, <2>1, WageTypes DEF TypeOK, WageAbort, attendanceVars, decisionVars, overtimeVars, closeVars
  <1>16. CASE LockCheck \/ LockMark \/ LockRollBack
    BY <1>16, PeriodAssumption DEF TypeOK, LockCheck, LockMark, LockRollBack, attendanceVars, decisionVars, overtimeVars, wageVars
  <1>17. CASE LockCommit
    <2>1. \A a \in Attendance : ledger[a] \in Wage /\ Finalised(ledger[a]) \in Wage
      BY FinalisedType DEF TypeOK
    <2>2. ledger' \in [Attendance -> Wage]
      BY <1>17, <2>1 DEF LockCommit
    <2> QED
      BY <1>17, <2>2 DEF TypeOK, LockCommit, decisionVars, overtimeVars
  <1>18. CASE UNCHANGED vars
    BY <1>18 DEF TypeOK, vars, attendanceVars, decisionVars, overtimeVars, wageVars, closeVars
  <1> QED
    BY <1>1, <1>2, <1>3, <1>4, <1>5, <1>6, <1>7, <1>8, <1>9, <1>10, <1>11,
       <1>12, <1>13, <1>14, <1>15, <1>16, <1>17, <1>18
       DEF Next, AttendanceStep, OvertimeStep, WageStep, LockStep

(* Every reachable state is well typed. *)
THEOREM Typing == Spec => []TypeOK
  BY InitType, NextType, PTL DEF Spec

-----------------------------------------------------------------------------
(* Decisions in progress hold open rows that no other decision holds. *)

LEMMA NextDecision == TypeOK /\ AbsentInv /\ DecisionInv /\ [Next]_vars => DecisionInv'
  <1> SUFFICES ASSUME TypeOK, AbsentInv, DecisionInv, [Next]_vars PROVE DecisionInv'
    OBVIOUS
  <1> USE DEF DecisionInv
  <1>1. ASSUME NEW a \in Attendance, NEW late \in BOOLEAN, CheckIn(a, late)
        PROVE  DecisionInv'
    <2>1. \A f \in Flag, g \in Flag : g \notin holds[a][f]
      BY <1>1 DEF CheckIn, AbsentInv
    <2> QED
      BY <1>1, <2>1 DEF TypeOK, CheckIn, decisionVars
  <1>2. ASSUME NEW a \in Attendance, NEW early \in BOOLEAN, CheckOut(a, early)
        PROVE  DecisionInv'
    <2>1. \A f \in Flag : exception[a][f] = "open" => exception'[a][f] = "open"
      BY <1>2 DEF TypeOK, CheckOut
    <2>2. \A b \in Attendance \ {a} : exception'[b] = exception[b]
      BY <1>2 DEF TypeOK, CheckOut
    <2>3. deciding' = deciding /\ holds' = holds
      BY <1>2 DEF CheckOut, decisionVars
    <2>4. \A b \in Attendance : \A f \in Flag :
             exception[b][f] = "open" => exception'[b][f] = "open"
      BY <2>1, <2>2
    <2> QED
      BY <2>3, <2>4
  <1>3. ASSUME NEW a \in Attendance, NEW f \in Flag, NEW d \in Decision,
               DecideLock(a, f, d)
        PROVE  DecisionInv'
    BY <1>3 DEF TypeOK, DecideLock, ExceptionRowFree, attendanceVars
  <1>4. ASSUME NEW a \in Attendance, NEW f \in Flag, DecideSweep(a, f)
        PROVE  DecisionInv'
    BY <1>4 DEF TypeOK, DecideSweep, ExceptionRowFree, attendanceVars
  <1>5. ASSUME NEW a \in Attendance, NEW f \in Flag, DecideCommit(a, f)
        PROVE  DecisionInv'
    <2>1. f \in holds[a][f]
      BY <1>5 DEF DecideCommit
    <2>2. ASSUME NEW h \in Flag \ {f}, NEW g \in Flag, g \in holds[a][h]
          PROVE  Recorded(a, f)[g] = "open"
      BY <2>1, <2>2 DEF Recorded
    <2>3. /\ exception'[a] = Recorded(a, f)
          /\ \A b \in Attendance \ {a} : exception'[b] = exception[b]
      BY <1>5 DEF TypeOK, DecideCommit
    <2>4. /\ deciding'[a][f] = "idle" /\ holds'[a][f] = {}
          /\ \A h \in Flag \ {f} :
                deciding'[a][h] = deciding[a][h] /\ holds'[a][h] = holds[a][h]
          /\ \A b \in Attendance \ {a} :
                deciding'[b] = deciding[b] /\ holds'[b] = holds[b]
      BY <1>5 DEF TypeOK, DecideCommit
    <2> QED
      BY <2>2, <2>3, <2>4
  <1>6. ASSUME NEW a \in Attendance, NEW f \in Flag, DecideRollBack(a, f)
        PROVE  DecisionInv'
    BY <1>6 DEF TypeOK, DecideRollBack, attendanceVars
  <1>7. ASSUME NEW o \in Overtime, OvertimeStep(o)
        PROVE  DecisionInv'
    BY <1>7 DEF OvertimeStep, OvertimeCreate, OvertimeDecide, OvertimeEditRead,
                OvertimeEditSave, OvertimeDestroy, attendanceVars, decisionVars
  <1>8. ASSUME NEW a \in Attendance, WageStep(a)
        PROVE  DecisionInv'
    BY <1>8 DEF WageStep, WageStart, WageFinish, WageRefused, WageAbort,
                attendanceVars, decisionVars
  <1>9. CASE LockStep
    BY <1>9 DEF LockStep, LockCheck, LockMark, LockCommit, LockRollBack,
                attendanceVars, decisionVars
  <1>10. CASE UNCHANGED vars
    BY <1>10 DEF vars, attendanceVars, decisionVars
  <1> QED
    BY <1>1, <1>2, <1>3, <1>4, <1>5, <1>6, <1>7, <1>8, <1>9, <1>10
       DEF Next, AttendanceStep

-----------------------------------------------------------------------------
(* Status and outcome follow the exceptions. *)

(* An exception that a decision is about to close is still open. *)
LEMMA DecidingIsOpen ==
    ASSUME DecisionInv, NEW a \in Attendance, NEW f \in Flag,
           deciding[a][f] # "idle"
    PROVE  exception[a][f] = "open" /\ AnyOpen(exception[a])
  BY DEF DecisionInv, AnyOpen

LEMMA UntouchedDays ==
    ASSUME AbsentInv, StatusFollowsExceptions, UNCHANGED attendanceVars
    PROVE  AbsentInv' /\ StatusFollowsExceptions'
  BY DEF AbsentInv, StatusFollowsExceptions, attendanceVars, Payable

DayOK(st, out, oc, exc) ==
    /\ st = "absent" => ~out /\ \A f \in Flag : exc[f] = "none"
    /\ Decided(exc, "rejected") <=> st = "rejected"
    /\ st = "pending" <=> AnyOpen(exc) /\ ~Decided(exc, "rejected")
    /\ st \in {"approved", "locked"} => out
    /\ st = "open" => ~out
    /\ oc = OutcomeOf(exc)

LEMMA DayByDay ==
    AbsentInv /\ StatusFollowsExceptions <=>
       \A a \in Attendance : DayOK(status[a], checkedOut[a], outcome[a], exception[a])
  BY DEF AbsentInv, StatusFollowsExceptions, DayOK, Payable

LEMMA DayByDayNext ==
    (\A a \in Attendance :
        DayOK(status'[a], checkedOut'[a], outcome'[a], exception'[a]))
      => AbsentInv' /\ StatusFollowsExceptions'
  BY DEF AbsentInv, StatusFollowsExceptions, DayOK, Payable

LEMMA NextDay ==
    TypeOK /\ DecisionInv /\ LockInv /\ AbsentInv /\ StatusFollowsExceptions /\ [Next]_vars
      => AbsentInv' /\ StatusFollowsExceptions'
  <1> SUFFICES ASSUME TypeOK, DecisionInv, LockInv, AbsentInv,
                      StatusFollowsExceptions, [Next]_vars
               PROVE  AbsentInv' /\ StatusFollowsExceptions'
    OBVIOUS
  <1> USE DayByDay
  <1>1. ASSUME NEW a \in Attendance, NEW late \in BOOLEAN, CheckIn(a, late)
        PROVE  AbsentInv' /\ StatusFollowsExceptions'
    <2>1. DayOK(status'[a], checkedOut'[a], outcome'[a], exception'[a])
      BY <1>1 DEF TypeOK, CheckIn, DayOK, Decided, AnyOpen, OutcomeOf, Flag, Decision
    <2>2. \A b \in Attendance \ {a} :
             status'[b] = status[b] /\ checkedOut'[b] = checkedOut[b]
             /\ outcome'[b] = outcome[b] /\ exception'[b] = exception[b]
      BY <1>1 DEF TypeOK, CheckIn
    <2> QED
      BY <2>1, <2>2, DayByDayNext
  <1>2. ASSUME NEW a \in Attendance, NEW early \in BOOLEAN, CheckOut(a, early)
        PROVE  AbsentInv' /\ StatusFollowsExceptions'
    <2> DEFINE exc == IF early /\ exception[a]["early_leave"] = "none"
                      THEN [exception[a] EXCEPT !["early_leave"] = "open"]
                      ELSE exception[a]
    <2>1. /\ exception'[a] = exc
          /\ status'[a] = IF AnyOpen(exc) THEN "pending" ELSE "approved"
          /\ checkedOut'[a] = TRUE /\ outcome'[a] = outcome[a]
      BY <1>2 DEF TypeOK, CheckOut
    <2>2. \A d \in Decision : Decided(exc, d) <=> Decided(exception[a], d)
      BY DEF TypeOK, Decided, Flag, Decision
    <2>3. ~Decided(exc, "rejected") /\ outcome[a] = OutcomeOf(exc)
      BY <1>2, <2>2 DEF CheckOut, CheckOutAllowed, DayOK, OutcomeOf, Decision
    <2>4. DayOK(status'[a], checkedOut'[a], outcome'[a], exception'[a])
      BY <2>1, <2>3 DEF DayOK
    <2>5. \A b \in Attendance \ {a} :
             status'[b] = status[b] /\ checkedOut'[b] = checkedOut[b]
             /\ outcome'[b] = outcome[b] /\ exception'[b] = exception[b]
      BY <1>2 DEF TypeOK, CheckOut
    <2> QED
      BY <2>4, <2>5, DayByDayNext
  <1>3. ASSUME NEW a \in Attendance, NEW f \in Flag, DecideCommit(a, f)
        PROVE  AbsentInv' /\ StatusFollowsExceptions'
    <2> DEFINE exc == Recorded(a, f)
    <2>1. /\ exception'[a] = exc /\ outcome'[a] = OutcomeOf(exc)
          /\ status'[a] = StatusOf(exc, checkedOut[a])
          /\ checkedOut'[a] = checkedOut[a] /\ checkedOut[a] \in BOOLEAN
      BY <1>3 DEF TypeOK, DecideCommit
    <2>2. DayOK(status'[a], checkedOut'[a], outcome'[a], exception'[a])
      BY <2>1 DEF DayOK, StatusOf
    <2>3. \A b \in Attendance \ {a} :
             status'[b] = status[b] /\ checkedOut'[b] = checkedOut[b]
             /\ outcome'[b] = outcome[b] /\ exception'[b] = exception[b]
      BY <1>3 DEF TypeOK, DecideCommit
    <2> QED
      BY <2>2, <2>3, DayByDayNext
  <1>4. CASE LockCommit
    <2>1. \A a \in Attendance :
             /\ checkedOut'[a] = checkedOut[a] /\ outcome'[a] = outcome[a]
             /\ exception'[a] = exception[a]
             /\ IF a \in marked THEN status[a] = "approved" /\ status'[a] = "locked"
                ELSE status'[a] = status[a]
      BY <1>4 DEF LockCommit, LockInv
    <2>2. \A a \in Attendance :
             DayOK(status'[a], checkedOut'[a], outcome'[a], exception'[a])
      BY <2>1 DEF DayOK
    <2> QED
      BY <2>2, DayByDayNext
  <1>5. ASSUME NEW a \in Attendance, NEW f \in Flag,
               \/ \E d \in Decision : DecideLock(a, f, d)
               \/ DecideSweep(a, f)
               \/ DecideRollBack(a, f)
        PROVE  AbsentInv' /\ StatusFollowsExceptions'
    BY <1>5, UntouchedDays DEF DecideLock, DecideSweep, DecideRollBack
  <1>6. ASSUME NEW o \in Overtime, OvertimeStep(o)
        PROVE  AbsentInv' /\ StatusFollowsExceptions'
    BY <1>6, UntouchedDays DEF OvertimeStep, OvertimeCreate, OvertimeDecide,
       OvertimeEditRead, OvertimeEditSave, OvertimeDestroy
  <1>7. ASSUME NEW a \in Attendance, WageStep(a)
        PROVE  AbsentInv' /\ StatusFollowsExceptions'
    BY <1>7, UntouchedDays DEF WageStep, WageStart, WageFinish, WageRefused, WageAbort
  <1>8. CASE LockCheck \/ LockMark \/ LockRollBack
    BY <1>8, UntouchedDays DEF LockCheck, LockMark, LockRollBack
  <1>9. CASE UNCHANGED vars
    BY <1>9, UntouchedDays DEF vars
  <1> QED
    BY <1>1, <1>2, <1>3, <1>4, <1>5, <1>6, <1>7, <1>8, <1>9
       DEF Next, AttendanceStep, LockStep

-----------------------------------------------------------------------------
(* Wages, running tasks and the payroll lock. *)

(* What the payroll lock and the wages need of one day. *)
PayInv ==
    LockInv /\ CalcInv /\ OnlyApprovedDaysArePaid /\ LockedWageIsFinal

(* A day the payroll has not settled has no wage and no running task. *)
LEMMA UnsettledHasNoWage ==
    ASSUME PayInv, NEW a \in Attendance, ~Payable(a)
    PROVE  calc[a] = NoWage /\ ledger[a] = NoWage /\ a \notin marked
  BY DEF PayInv, LockInv, CalcInv, OnlyApprovedDaysArePaid, Payable

(* A change of one unsettled day that leaves ledger and tasks alone. *)
LEMMA UnsettledDayChanges ==
    ASSUME PayInv, TypeOK, NEW a \in Attendance, ~Payable(a),
           \A b \in Attendance \ {a} : status'[b] = status[b],
           UNCHANGED <<calc, ledger, closeVars>>
    PROVE  PayInv'
  <1>1. calc[a] = NoWage /\ ledger[a] = NoWage /\ a \notin marked
    BY UnsettledHasNoWage
  <1> QED
    BY <1>1 DEF PayInv, LockInv, CalcInv, OnlyApprovedDaysArePaid,
                LockedWageIsFinal, Payable, closeVars, TypeOK

LEMMA PayUntouched ==
    ASSUME PayInv, UNCHANGED <<status, calc, ledger, marked>>
    PROVE  PayInv'
  BY DEF PayInv, LockInv, CalcInv, OnlyApprovedDaysArePaid, LockedWageIsFinal, Payable

LEMMA NextPay ==
    TypeOK /\ DecisionInv /\ StatusFollowsExceptions /\ PayInv /\ [Next]_vars => PayInv'
  <1> SUFFICES ASSUME TypeOK, DecisionInv, StatusFollowsExceptions, PayInv, [Next]_vars
               PROVE  PayInv'
    OBVIOUS
  <1>1. ASSUME NEW a \in Attendance, NEW late \in BOOLEAN, CheckIn(a, late)
        PROVE  PayInv'
    <2>1. ~Payable(a)
      BY <1>1 DEF CheckIn, Payable
    <2> QED
      BY <1>1, <2>1, UnsettledDayChanges DEF CheckIn, wageVars, TypeOK
  <1>2. ASSUME NEW a \in Attendance, NEW early \in BOOLEAN, CheckOut(a, early)
        PROVE  PayInv'
    <2>1. ~Payable(a)
      BY <1>2 DEF CheckOut, CheckOutAllowed, StatusFollowsExceptions
    <2> QED
      BY <1>2, <2>1, UnsettledDayChanges DEF CheckOut, TypeOK
  <1>3. ASSUME NEW a \in Attendance, NEW f \in Flag, DecideCommit(a, f)
        PROVE  PayInv'
    <2>1. AnyOpen(exception[a])
      BY <1>3, DecidingIsOpen DEF DecideCommit
    <2>2. ~Payable(a)
      BY <2>1 DEF StatusFollowsExceptions, Payable
    <2> QED
      BY <1>3, <2>2, UnsettledDayChanges DEF DecideCommit, TypeOK
  <1>4. ASSUME NEW a \in Attendance, NEW f \in Flag,
               \/ \E d \in Decision : DecideLock(a, f, d)
               \/ DecideSweep(a, f)
               \/ DecideRollBack(a, f)
        PROVE  PayInv'
    BY <1>4, PayUntouched DEF DecideLock, DecideSweep, DecideRollBack,
       attendanceVars, wageVars, closeVars
  <1>5. ASSUME NEW o \in Overtime, OvertimeStep(o)
        PROVE  PayInv'
    BY <1>5, PayUntouched DEF OvertimeStep, OvertimeCreate, OvertimeDecide,
       OvertimeEditRead, OvertimeEditSave, OvertimeDestroy,
       attendanceVars, wageVars, closeVars
  <1>6. ASSUME NEW a \in Attendance, WageStart(a)
        PROVE  PayInv'
    <2>1. /\ Payable(a) /\ a \notin marked
          /\ calc'[a] = WageNow(a)
          /\ \A b \in Attendance \ {a} : calc'[b] = calc[b]
          /\ UNCHANGED <<status, ledger, marked>>
      BY <1>6 DEF WageStart, Calculable, AttendanceRowFree, attendanceVars,
                  closeVars, TypeOK
    <2>2. WageNow(a).final = (status[a] = "locked")
      BY Zenon DEF WageNow
    <2> QED
      BY <2>1, <2>2 DEF PayInv, LockInv, CalcInv, OnlyApprovedDaysArePaid,
                        LockedWageIsFinal, Payable, TypeOK
  <1>7. ASSUME NEW a \in Attendance, WageFinish(a)
        PROVE  PayInv'
    <2>1. /\ calc[a] # NoWage /\ Payable(a) /\ (calc[a].final <=> status[a] = "locked")
          /\ ledger'[a] = calc[a] /\ calc'[a] = NoWage
          /\ \A b \in Attendance \ {a} : calc'[b] = calc[b] /\ ledger'[b] = ledger[b]
          /\ UNCHANGED <<status, marked>>
      BY <1>7 DEF WageFinish, PayInv, CalcInv, attendanceVars, closeVars, TypeOK
    <2> QED
      BY <2>1 DEF PayInv, LockInv, CalcInv, OnlyApprovedDaysArePaid,
                  LockedWageIsFinal, Payable, TypeOK
  <1>8. ASSUME NEW a \in Attendance, WageRefused(a)
        PROVE  PayInv'
    BY <1>8, PayUntouched DEF WageRefused, attendanceVars, closeVars
  <1>9. ASSUME NEW a \in Attendance, WageAbort(a)
        PROVE  PayInv'
    <2>1. /\ calc'[a] = NoWage
          /\ \A b \in Attendance \ {a} : calc'[b] = calc[b]
          /\ UNCHANGED <<status, ledger, marked>>
      BY <1>9 DEF WageAbort, attendanceVars, closeVars, TypeOK
    <2> QED
      BY <2>1 DEF PayInv, LockInv, CalcInv, OnlyApprovedDaysArePaid,
                  LockedWageIsFinal, Payable, TypeOK
  <1>10. CASE LockCheck
    BY <1>10, PayUntouched DEF LockCheck, attendanceVars, wageVars
  <1>11. CASE LockMark
    <2>1. /\ UNCHANGED <<status, calc, ledger>>
          /\ \A a \in marked' : a \in Period /\ status[a] = "approved" /\ calc[a] = NoWage
      BY <1>11 DEF LockMark, AttendanceRowFree, attendanceVars, wageVars
    <2> QED
      BY <2>1 DEF PayInv, LockInv, CalcInv, OnlyApprovedDaysArePaid,
                  LockedWageIsFinal, Payable
  <1>12. CASE LockCommit
    <2>1. /\ marked' = {} /\ calc' = calc
          /\ \A a \in Attendance :
                status'[a] = IF a \in marked THEN "locked" ELSE status[a]
          /\ \A a \in Attendance :
                ledger'[a] = IF a \in Period /\ ledger[a] # NoWage
                             THEN Finalised(ledger[a]) ELSE ledger[a]
      BY <1>12 DEF LockCommit
    <2>2. \A a \in Attendance : Finalised(ledger[a]).final /\ Finalised(ledger[a]) # NoWage
      BY FinalisedType DEF TypeOK
    <2>3. \A a \in marked : calc[a] = NoWage /\ status[a] = "approved" /\ a \in Period
      BY DEF PayInv, LockInv
    <2>4. CalcInv'
      BY <2>1, <2>3 DEF PayInv, CalcInv, Payable
    <2>5. OnlyApprovedDaysArePaid'
      BY <2>1, <2>2 DEF PayInv, OnlyApprovedDaysArePaid, Payable
    <2>6. LockedWageIsFinal'
      BY <2>1, <2>2, <2>3 DEF PayInv, LockedWageIsFinal
    <2> QED
      BY <2>1, <2>4, <2>5, <2>6 DEF PayInv, LockInv
  <1>13. CASE LockRollBack
    <2>1. marked' = {} /\ UNCHANGED <<status, calc, ledger>>
      BY <1>13 DEF LockRollBack, attendanceVars, wageVars
    <2> QED
      BY <2>1 DEF PayInv, LockInv, CalcInv, OnlyApprovedDaysArePaid,
                  LockedWageIsFinal, Payable
  <1>14. CASE UNCHANGED vars
    BY <1>14, PayUntouched DEF vars, attendanceVars, wageVars, closeVars
  <1> QED
    BY <1>1, <1>2, <1>3, <1>4, <1>5, <1>6, <1>7, <1>8, <1>9, <1>10, <1>11,
       <1>12, <1>13, <1>14
       DEF Next, AttendanceStep, WageStep, LockStep

-----------------------------------------------------------------------------
(* The theorems *)

LEMMA InitInv == Init => IInv
  <1> SUFFICES ASSUME Init PROVE IInv
    OBVIOUS
  <1>1. TypeOK
    BY InitType
  <1>2. DecisionInv /\ AbsentInv
    BY DEF Init, DecisionInv, AbsentInv
  <1>3. StatusFollowsExceptions
    BY DEF Init, StatusFollowsExceptions, Decided, AnyOpen, OutcomeOf, Payable
  <1>4. LockInv /\ CalcInv /\ OnlyApprovedDaysArePaid /\ LockedWageIsFinal
    BY DEF Init, LockInv, CalcInv, OnlyApprovedDaysArePaid, LockedWageIsFinal
  <1> QED
    BY <1>1, <1>2, <1>3, <1>4 DEF IInv

LEMMA NextInv == IInv /\ [Next]_vars => IInv'
  BY NextType, NextDecision, NextDay, NextPay DEF IInv, PayInv

(* The inductive invariant holds in every reachable state. *)
THEOREM Invariance == Spec => []IInv
  BY InitInv, NextInv, PTL DEF Spec

(* Status and outcome of an attendance are the ones its exceptions call    *)
(* for, in every interleaving of check-outs and decisions.                 *)
THEOREM StatusCorrect == Spec => []StatusFollowsExceptions
  <1>1. IInv => StatusFollowsExceptions
    BY DEF IInv
  <1> QED
    BY <1>1, Invariance, PTL

(* No wage of a locked attendance is left provisional. *)
THEOREM LockedWagesFinal == Spec => []LockedWageIsFinal
  <1>1. IInv => LockedWageIsFinal
    BY DEF IInv
  <1> QED
    BY <1>1, Invariance, PTL

(* An attendance that is not approved has no wage. *)
THEOREM PaidDaysApproved == Spec => []OnlyApprovedDaysArePaid
  <1>1. IInv => OnlyApprovedDaysArePaid
    BY DEF IInv
  <1> QED
    BY <1>1, Invariance, PTL

LEMMA NextSettled == IInv /\ [Next]_vars => SettledStep
  <1> SUFFICES ASSUME IInv, [Next]_vars PROVE SettledStep
    OBVIOUS
  <1> USE DEF IInv
  <1>1. ASSUME status' = status
        PROVE  SettledStep
    BY <1>1 DEF SettledStep
  <1>2. ASSUME NEW a \in Attendance, NEW late \in BOOLEAN, CheckIn(a, late)
        PROVE  SettledStep
    BY <1>2 DEF CheckIn, SettledStep, TypeOK
  <1>3. ASSUME NEW a \in Attendance, NEW early \in BOOLEAN, CheckOut(a, early)
        PROVE  SettledStep
    <2>1. status[a] \notin {"approved", "locked", "rejected"}
      BY <1>3 DEF CheckOut, CheckOutAllowed, StatusFollowsExceptions, Payable
    <2> QED
      BY <1>3, <2>1 DEF CheckOut, SettledStep, TypeOK
  <1>4. ASSUME NEW a \in Attendance, NEW f \in Flag, DecideCommit(a, f)
        PROVE  SettledStep
    <2>1. AnyOpen(exception[a]) /\ f \in holds[a][f]
      BY <1>4, DecidingIsOpen DEF DecideCommit, DecisionInv
    <2>2. status[a] \notin {"approved", "locked"}
      BY <2>1 DEF StatusFollowsExceptions
    <2>3. ASSUME status[a] = "rejected"
          PROVE  status'[a] = "rejected"
      <3>1. PICK g \in Flag : exception[a][g] = "rejected"
        BY <2>3 DEF StatusFollowsExceptions, Decided
      <3>2. g # f /\ g \notin holds[a][f]
        BY <2>1, <3>1 DEF DecisionInv
      <3>3. Recorded(a, f)[g] = "rejected"
        BY <3>1, <3>2 DEF Recorded
      <3>4. Decided(Recorded(a, f), "rejected")
        BY <3>3 DEF Decided
      <3> QED
        BY <1>4, <3>4 DEF DecideCommit, StatusOf, TypeOK
    <2> QED
      BY <1>4, <2>2, <2>3 DEF DecideCommit, SettledStep, TypeOK
  <1>5. CASE LockCommit
    BY <1>5 DEF LockCommit, LockInv, SettledStep
  <1>6. ASSUME NEW a \in Attendance, NEW f \in Flag,
               \/ \E d \in Decision : DecideLock(a, f, d)
               \/ DecideSweep(a, f)
               \/ DecideRollBack(a, f)
        PROVE  SettledStep
    BY <1>1, <1>6 DEF DecideLock, DecideSweep, DecideRollBack, attendanceVars
  <1>7. ASSUME NEW o \in Overtime, OvertimeStep(o)
        PROVE  SettledStep
    BY <1>1, <1>7 DEF OvertimeStep, OvertimeCreate, OvertimeDecide,
       OvertimeEditRead, OvertimeEditSave, OvertimeDestroy, attendanceVars
  <1>8. ASSUME NEW a \in Attendance, WageStep(a)
        PROVE  SettledStep
    BY <1>1, <1>8 DEF WageStep, WageStart, WageFinish, WageRefused, WageAbort,
       attendanceVars
  <1>9. CASE LockCheck \/ LockMark \/ LockRollBack
    BY <1>1, <1>9 DEF LockCheck, LockMark, LockRollBack, attendanceVars
  <1>10. CASE UNCHANGED vars
    BY <1>1, <1>10 DEF vars, attendanceVars
  <1> QED
    BY <1>2, <1>3, <1>4, <1>5, <1>6, <1>7, <1>8, <1>9, <1>10
       DEF Next, AttendanceStep, LockStep

(* A rejected day stays rejected, an approved day is only ever locked, and *)
(* a locked day is never unlocked.                                         *)
THEOREM SettledForGood == Spec => SettledStaysSettled
  BY Invariance, NextSettled, PTL DEF Spec, SettledStaysSettled
-----------------------------------------------------------------------------
(* The wage of a settled day is current, or is about to be. *)

(* The wage a day has, or will have when its running task commits. *)
Owed(a) == IF calc[a] # NoWage THEN calc[a] ELSE ledger[a]

DayCurrent(a) ==
    Payable(a) /\ a \notin missed /\ ~queued[a] =>
        Owed(a).outcome = outcome[a] /\ Owed(a).overtime = ApprovedOvertime(a)

LEMMA CurrentByDay == WageCurrentOrQueued <=> \A a \in Attendance : DayCurrent(a)
  BY DEF WageCurrentOrQueued, DayCurrent, Owed

LEMMA CurrentByDayNext ==
    (\A a \in Attendance : DayCurrent(a)') => WageCurrentOrQueued'
  BY DEF WageCurrentOrQueued, DayCurrent, Owed

(* What a day's wage depends on is as it was. *)
Kept(a) ==
    /\ Payable(a)' => Payable(a)
    /\ outcome'[a] = outcome[a] /\ calc'[a] = calc[a] /\ ledger'[a] = ledger[a]
    /\ ApprovedOvertime(a)' = ApprovedOvertime(a)
    /\ a \in missed => a \in missed'
    /\ queued[a] => queued'[a]

LEMMA KeptIsCurrent ==
    ASSUME NEW a \in Attendance, DayCurrent(a), Kept(a)
    PROVE  DayCurrent(a)'
  BY DEF DayCurrent, Kept, Owed

(* A message is in the broker, or the day is known to be missed. *)
LEMMA PublishedIsCurrent ==
    ASSUME TypeOK, NEW a \in Attendance, Publish(a)
    PROVE  /\ DayCurrent(a)'
           /\ \A b \in Attendance :
                 /\ b \in missed => b \in missed'
                 /\ queued[b] => queued'[b]
  BY DEF TypeOK, Publish, DayCurrent

LEMMA SameOvertime ==
    ASSUME UNCHANGED <<overtimeStatus, overtimeOn>>, NEW a
    PROVE  ApprovedOvertime(a)' = ApprovedOvertime(a)
  BY DEF ApprovedOvertime

LEMMA NextCurrent == IInv /\ WageCurrentOrQueued /\ [Next]_vars => WageCurrentOrQueued'
  <1> SUFFICES ASSUME IInv, \A a \in Attendance : DayCurrent(a), [Next]_vars
               PROVE  \A b \in Attendance : DayCurrent(b)'
    BY CurrentByDay, CurrentByDayNext
  <1> USE DEF IInv
  <1>1. ASSUME NEW a \in Attendance, NEW late \in BOOLEAN, CheckIn(a, late)
        PROVE  \A b \in Attendance : Kept(b)
    BY <1>1, SameOvertime
       DEF CheckIn, Kept, Payable, TypeOK, overtimeVars, wageVars
  <1>2. ASSUME NEW a \in Attendance, NEW early \in BOOLEAN, CheckOut(a, early)
        PROVE  \A b \in Attendance : DayCurrent(b)'
    <2>1. /\ UNCHANGED <<outcome, calc, ledger, overtimeStatus, overtimeOn>>
          /\ \A b \in Attendance \ {a} : status'[b] = status[b]
          /\ status'[a] = "approved" => Publish(a)
          /\ status'[a] # "approved" => ~Payable(a)' /\ UNCHANGED <<queued, missed>>
      BY <1>2 DEF CheckOut, Payable, TypeOK, overtimeVars
    <2>2. CASE status'[a] = "approved"
      <3>1. DayCurrent(a)'
        BY <2>1, <2>2, PublishedIsCurrent
      <3>2. \A b \in Attendance \ {a} : Kept(b)
        BY <2>1, <2>2, PublishedIsCurrent, SameOvertime DEF Kept, Payable
      <3> QED
        BY <3>1, <3>2, KeptIsCurrent
    <2>3. CASE status'[a] # "approved"
      <3>1. \A b \in Attendance : Kept(b)
        BY <2>1, <2>3, SameOvertime DEF Kept, Payable
      <3> QED
        BY <3>1, KeptIsCurrent
    <2> QED
      BY <2>2, <2>3
  <1>3. ASSUME NEW a \in Attendance, NEW f \in Flag, DecideCommit(a, f)
        PROVE  \A b \in Attendance : DayCurrent(b)'
    <2>1. /\ UNCHANGED <<calc, ledger, overtimeStatus, overtimeOn>>
          /\ \A b \in Attendance \ {a} : status'[b] = status[b] /\ outcome'[b] = outcome[b]
          /\ status'[a] = "approved" => Publish(a)
          /\ status'[a] # "approved" => UNCHANGED <<queued, missed>>
          /\ status'[a] \in {"rejected", "pending", "approved", "open"}
      BY <1>3 DEF DecideCommit, StatusOf, TypeOK, overtimeVars
    <2>2. \A b \in Attendance \ {a} : Kept(b)
      BY <2>1, PublishedIsCurrent, SameOvertime DEF Kept, Payable
    <2>3. DayCurrent(a)'
      BY <2>1, PublishedIsCurrent DEF DayCurrent, Payable
    <2> QED
      BY <2>2, <2>3, KeptIsCurrent
  <1>4. ASSUME NEW a \in Attendance, NEW f \in Flag,
               \/ \E d \in Decision : DecideLock(a, f, d)
               \/ DecideSweep(a, f)
               \/ DecideRollBack(a, f)
        PROVE  \A b \in Attendance : Kept(b)
    BY <1>4, SameOvertime DEF DecideLock, DecideSweep, DecideRollBack, Kept, Payable,
       attendanceVars, overtimeVars, wageVars
  <1>5. ASSUME NEW o \in Overtime, NEW a \in Attendance, OvertimeCreate(o, a)
        PROVE  \A b \in Attendance : Kept(b)
    <2>1. \A b \in Attendance : ApprovedOvertime(b)' = ApprovedOvertime(b)
      BY <1>5 DEF OvertimeCreate, ApprovedOvertime, TypeOK
    <2> QED
      BY <1>5, <2>1 DEF OvertimeCreate, Kept, Payable, attendanceVars, wageVars
  <1>6. ASSUME NEW o \in Overtime, NEW approve \in BOOLEAN, OvertimeDecide(o, approve)
        PROVE  \A b \in Attendance : DayCurrent(b)'
    <2> DEFINE a == overtimeOn[o]
    <2>1. a \in Attendance
      BY DEF TypeOK
    <2>2. \A b \in Attendance : b # a => ApprovedOvertime(b)' = ApprovedOvertime(b)
      BY <1>6 DEF OvertimeDecide, ApprovedOvertime, TypeOK
    <2>3. CASE approve
      <3>1. Publish(a)
        BY <1>6, <2>3 DEF OvertimeDecide
      <3>2. \A b \in Attendance \ {a} : Kept(b)
        BY <1>6, <2>1, <2>2, <3>1, PublishedIsCurrent
           DEF OvertimeDecide, Kept, Payable, attendanceVars
      <3> QED
        BY <2>1, <3>1, <3>2, PublishedIsCurrent, KeptIsCurrent
    <2>4. CASE ~approve
      <3>1. ApprovedOvertime(a)' = ApprovedOvertime(a)
        BY <1>6, <2>4 DEF OvertimeDecide, ApprovedOvertime, TypeOK
      <3>2. \A b \in Attendance : Kept(b)
        BY <1>6, <2>2, <2>4, <3>1 DEF OvertimeDecide, Kept, Payable, attendanceVars
      <3> QED
        BY <3>2, KeptIsCurrent
    <2> QED
      BY <2>3, <2>4
  <1>7. ASSUME NEW o \in Overtime, OvertimeEditRead(o)
        PROVE  \A b \in Attendance : Kept(b)
    BY <1>7, SameOvertime DEF OvertimeEditRead, Kept, Payable, attendanceVars, wageVars
  <1>8. ASSUME NEW o \in Overtime, NEW a \in Attendance, OvertimeEditSave(o, a)
        PROVE  \A b \in Attendance : DayCurrent(b)'
    <2>1. ASSUME NEW b \in Attendance, b \notin missed'
          PROVE  ApprovedOvertime(b)' = ApprovedOvertime(b)
      BY <1>8, <2>1 DEF OvertimeEditSave, ApprovedOvertime, TypeOK
    <2>2. /\ UNCHANGED <<status, outcome, queued, calc, ledger>>
          /\ missed \subseteq missed'
      BY <1>8 DEF OvertimeEditSave, attendanceVars
    <2>3. \A b \in Attendance : b \in missed' \/ Kept(b)
      BY <2>1, <2>2 DEF Kept, Payable
    <2> QED
      BY <2>3, KeptIsCurrent DEF DayCurrent
  <1>9. ASSUME NEW o \in Overtime, OvertimeDestroy(o)
        PROVE  \A b \in Attendance : DayCurrent(b)'
    <2>1. ASSUME NEW b \in Attendance, b \notin missed'
          PROVE  ApprovedOvertime(b)' = ApprovedOvertime(b)
      BY <1>9, <2>1 DEF OvertimeDestroy, ApprovedOvertime, TypeOK
    <2>2. /\ UNCHANGED <<status, outcome, queued, calc, ledger>>
          /\ missed \subseteq missed'
      BY <1>9 DEF OvertimeDestroy, attendanceVars
    <2>3. \A b \in Attendance : b \in missed' \/ Kept(b)
      BY <2>1, <2>2 DEF Kept, Payable
    <2> QED
      BY <2>3, KeptIsCurrent DEF DayCurrent
  <1>10. ASSUME NEW a \in Attendance, WageStart(a)
         PROVE  \A b \in Attendance : DayCurrent(b)'
    <2>1. /\ UNCHANGED <<status, outcome, ledger, overtimeStatus, overtimeOn>>
          /\ calc'[a] = WageNow(a)
          /\ \A b \in Attendance \ {a} : calc'[b] = calc[b] /\ queued'[b] = queued[b]
          /\ missed' = missed \ {a}
      BY <1>10 DEF WageStart, attendanceVars, overtimeVars, TypeOK
    <2>2. \A b \in Attendance \ {a} : Kept(b)
      BY <2>1, SameOvertime DEF Kept, Payable
    <2>3. WageNow(a).outcome = outcome[a] /\ WageNow(a).overtime = ApprovedOvertime(a)
      BY DEF WageNow
    <2>4. Owed(a)' = WageNow(a)
      BY <2>1, WageTypes DEF Owed
    <2>5. DayCurrent(a)'
      BY <2>1, <2>3, <2>4, SameOvertime DEF DayCurrent
    <2> QED
      BY <2>2, <2>5, KeptIsCurrent
  <1>11. ASSUME NEW a \in Attendance, WageFinish(a)
         PROVE  \A b \in Attendance : DayCurrent(b)'
    <2>1. /\ UNCHANGED <<status, outcome, queued, missed, overtimeStatus, overtimeOn>>
          /\ calc[a] # NoWage /\ calc'[a] = NoWage /\ ledger'[a] = calc[a]
          /\ \A b \in Attendance \ {a} : calc'[b] = calc[b] /\ ledger'[b] = ledger[b]
      BY <1>11 DEF WageFinish, attendanceVars, overtimeVars, TypeOK
    <2>2. \A b \in Attendance \ {a} : Kept(b)
      BY <2>1, SameOvertime DEF Kept, Payable
    <2>3. Owed(a)' = Owed(a)
      BY <2>1 DEF Owed
    <2>4. DayCurrent(a)'
      BY <2>1, <2>3, SameOvertime DEF DayCurrent, Payable
    <2> QED
      BY <2>2, <2>4, KeptIsCurrent
  <1>12. ASSUME NEW a \in Attendance, WageRefused(a)
         PROVE  \A b \in Attendance : DayCurrent(b)'
    <2>1. /\ UNCHANGED <<status, outcome, calc, ledger, missed, overtimeStatus, overtimeOn>>
          /\ \A b \in Attendance \ {a} : queued'[b] = queued[b]
      BY <1>12 DEF WageRefused, attendanceVars, overtimeVars, TypeOK
    <2>2. \A b \in Attendance \ {a} : Kept(b)
      BY <2>1, SameOvertime DEF Kept, Payable
    <2>3. ~Payable(a)'
      BY <1>12, <2>1 DEF WageRefused, Calculable, Payable, StatusFollowsExceptions
    <2> QED
      BY <2>2, <2>3, KeptIsCurrent DEF DayCurrent
  <1>13. ASSUME NEW a \in Attendance, WageAbort(a)
         PROVE  \A b \in Attendance : DayCurrent(b)'
    <2>1. /\ UNCHANGED <<status, outcome, ledger, overtimeStatus, overtimeOn>>
          /\ Publish(a)
          /\ \A b \in Attendance \ {a} : calc'[b] = calc[b]
      BY <1>13 DEF WageAbort, attendanceVars, overtimeVars, TypeOK
    <2>2. \A b \in Attendance \ {a} : Kept(b)
      BY <2>1, PublishedIsCurrent, SameOvertime DEF Kept, Payable
    <2> QED
      BY <2>1, <2>2, PublishedIsCurrent, KeptIsCurrent
  <1>14. CASE LockCheck \/ LockMark \/ LockRollBack \/ UNCHANGED vars
    <2>1. \A b \in Attendance : Kept(b)
      BY <1>14, SameOvertime DEF LockCheck, LockMark, LockRollBack, vars, Kept, Payable,
         attendanceVars, overtimeVars, wageVars
    <2> QED
      BY <2>1, KeptIsCurrent
  <1>15. CASE LockCommit
    <2>1. UNCHANGED <<outcome, queued, calc, missed, overtimeStatus, overtimeOn>>
      BY <1>15 DEF LockCommit, overtimeVars
    <2>2. ASSUME NEW b \in Attendance
          PROVE  /\ Payable(b)' => Payable(b)
                 /\ ledger'[b].outcome = ledger[b].outcome
                 /\ ledger'[b].overtime = ledger[b].overtime
      BY <1>15 DEF LockCommit, LockInv, Payable, Finalised
    <2>3. ASSUME NEW b \in Attendance
          PROVE  Owed(b)'.outcome = Owed(b).outcome /\ Owed(b)'.overtime = Owed(b).overtime
      BY <2>1, <2>2 DEF Owed
    <2> QED
      BY <2>1, <2>2, <2>3, SameOvertime DEF DayCurrent
  <1> QED
    BY <1>1, <1>2, <1>3, <1>4, <1>5, <1>6, <1>7, <1>8, <1>9, <1>10, <1>11, <1>12,
       <1>13, <1>14, <1>15, KeptIsCurrent
       DEF Next, AttendanceStep, OvertimeStep, WageStep, LockStep

LEMMA InitCurrent == Init => WageCurrentOrQueued
  BY DEF Init, WageCurrentOrQueued, Payable

(* The wage of a settled day is the one its outcome and approved overtime  *)
(* call for, or a task will make it so, unless a message was lost after    *)
(* the commit, or approved overtime was edited or deleted.                 *)
THEOREM WagesCurrent == Spec => []WageCurrentOrQueued
  BY Invariance, InitCurrent, NextCurrent, PTL DEF Spec
=============================================================================
