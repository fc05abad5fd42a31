---------------------------- MODULE WageCalculation ----------------------------
(***************************************************************************)
(* The wage arithmetic: what a day pays, what a payslip sums, and the      *)
(* daily breakdown that explains the payslip.  Amounts are fils, a         *)
(* hundredth of a dirham; Decimal's 28 digits are taken as exact, and      *)
(* every rounding of the code is there.                                    *)
(***************************************************************************)
EXTENDS Integers, FiniteSets, Functions

CONSTANTS
    Day,          \* work dates of the period
    DailyHours,   \* policy.normal_daily_hours
    HalfDay,      \* hundredths a half day pays: 100 less the deduction
    Multiplier,   \* policy.overtime_multiplier in quarters: 5 is 1.25
    NightMultiplier,
    Contracts,    \* wage type, category, basic wage and allowances
    WorkedMinutes,
    OvertimeMinutes

ASSUME PeriodAssumption == IsFiniteSet(Day) /\ Day # {}
ASSUME WagePolicyAssumption ==
    /\ DailyHours \in Nat \ {0}
    /\ HalfDay \in 0 .. 100
    /\ Multiplier \in Nat /\ NightMultiplier \in Nat
(* basic_wage is never negative; nothing checks the JSON of the allowances,*)
(* and negative ones are left out here.                                    *)
ASSUME ContractAssumption ==
    \A w \in Contracts :
        /\ w.type \in {"monthly", "daily", "shift", "hourly"}
        /\ w.basic \in Nat /\ w.daily \in Nat /\ w.monthly \in Nat
        /\ w.from \in Int /\ w.until \in Int
ASSUME MinutesAssumption ==
    WorkedMinutes \subseteq Nat /\ OvertimeMinutes \subseteq Nat

VARIABLES
    worker,   \* the contract of the worker
    listed,   \* the days with a roster that is not cancelled or replaced
    ledger    \* DailyWageLedger of each day: none, or one

wageVars == <<worker, listed, ledger>>

AtLeastZero(n) == IF n < 0 THEN 0 ELSE n
AtMost(n, limit) == IF n > limit THEN limit ELSE n

(* money(): the quotient rounded half up. *)
Money(n, d) == (2 * n + d) \div (2 * d)

(* _allowance_for_day, _allowance_for_period *)
AllowanceForDay(w) == Money(30 * w.daily + w.monthly, 30)
AllowanceForPeriod(w) == w.monthly

(* _hourly_rate, as basic wage per so many hours. *)
RateHours(w) ==
    IF w.type = "hourly" THEN 1
    ELSE IF w.type \in {"daily", "shift"} THEN DailyHours
    ELSE 30 * DailyHours

PayOfMinutes(w, minutes, quarters) ==
    Money(w.basic * minutes * quarters, RateHours(w) * 60 * 4)

Fraction(outcome) == IF outcome = "half_day" THEN HalfDay ELSE 100

RegularUnclamped(worked, overtime, outcome) == worked - overtime

(* What was worked, less the approved overtime; a half day has a cap. *)
RegularMinutes(worked, overtime, outcome) ==
    LET regular == AtLeastZero(worked - overtime)
    IN  IF outcome = "half_day"
        THEN AtMost(regular, (DailyHours * 60 * HalfDay) \div 100)
        ELSE regular

PremiumOnly(night) == (IF night THEN NightMultiplier ELSE Multiplier) - 4

OvertimeRate(night) == IF night THEN NightMultiplier ELSE Multiplier

(* calculate_attendance_wage *)
DayWage(w, day) ==
    LET regular == PayOfMinutes(w, RegularMinutes(day.worked, day.overtime, day.outcome), 4)
        overtime == PayOfMinutes(w, day.overtime, OvertimeRate(day.night))
        allowances == Money(AllowanceForDay(w) * Fraction(day.outcome), 100)
    IN  [day |-> day, regular |-> regular, overtime |-> overtime, allowances |-> allowances,
         gross |-> regular + overtime + allowances]

(* _scheduled_day_pay *)
ScheduledDayPay(w) ==
    AllowanceForDay(w)
    + (IF w.type = "monthly" THEN Money(w.basic, 30)
       ELSE IF w.type \in {"daily", "shift"} THEN w.basic
       ELSE w.basic * DailyHours)

(* _staff_period_fraction, in days of a period of Day's length. *)
EmployedDays(w) ==
    LET from  == IF w.from > 1 THEN w.from ELSE 1
        until == AtMost(w.until, Cardinality(Day))
    IN  AtLeastZero(until - from + 1)

OfPeriod(w, amount) == Money(amount * EmployedDays(w), Cardinality(Day))

(* An amount of the ledger of a day, and of those of some days. *)
OfDay(d, a) == SumFunction([l \in ledger[d] |-> l[a]])

Total(days, a) == SumFunction([d \in days |-> OfDay(d, a)])

(* The pay of a line that build_payroll_lines writes now. *)
LineNow ==
    LET regular    == IF worker.staff THEN OfPeriod(worker, worker.basic)
                                      ELSE Total(Day, "regular")
        overtime   == Total(Day, "overtime")
        allowances == IF worker.staff THEN OfPeriod(worker, AllowanceForPeriod(worker))
                                      ELSE Total(Day, "allowances")
    IN  [regular |-> regular, overtime |-> overtime, allowances |-> allowances,
         gross |-> regular + overtime + allowances]

EarnedRegular(d) == OfDay(d, "regular")

Earned(d) == OfDay(d, "gross")

(* payroll_line_daily_breakdown: an entry of each listed day, for the      *)
(* contract the worker has now. A listed day without a ledger is one       *)
(* nobody attended, or a rejected one; a day still pending has no impact   *)
(* in the code, and here it is not listed.                                 *)
Impact(d) ==
    IF ledger[d] = {} THEN ScheduledDayPay(worker)
    ELSE AtLeastZero(ScheduledDayPay(worker) - OfDay(d, "regular") - OfDay(d, "allowances"))

Breakdown ==
    [earned   |-> SumFunction([d \in listed |-> Earned(d)]),
     impact   |-> SumFunction([d \in listed |-> Impact(d)]),
     overtime |-> Total(listed, "overtime")]

-----------------------------------------------------------------------------
(* calculate_daily_wage, at first or after overtime or outcome changed. *)
Calculate(d, day) ==
    /\ ledger' = [ledger EXCEPT ![d] = {DayWage(worker, day)}]
    /\ UNCHANGED <<worker, listed>>

(* A roster is created, cancelled or replaced; attendance stays. *)
List(d) ==
    /\ listed' = IF d \in listed THEN listed \ {d} ELSE listed \cup {d}
    /\ UNCHANGED <<worker, ledger>>

(* The contract is edited; ledgers that are not calculated again stay.     *)
Rehire(w) ==
    /\ worker' = w
    /\ UNCHANGED <<listed, ledger>>

DayInput ==
    [worked : WorkedMinutes, overtime : OvertimeMinutes,
     outcome : {"full_day", "half_day"}, night : BOOLEAN]

WagesInit ==
    /\ worker \in Contracts
    /\ listed = Day
    /\ ledger = [d \in Day |-> {}]

WagesNext ==
    \/ \E d \in Day : List(d) \/ \E day \in DayInput : Calculate(d, day)
    \/ \E w \in Contracts : Rehire(w)

WagesSpec == WagesInit /\ [][WagesNext]_wageVars

-----------------------------------------------------------------------------
(* Properties *)

WageRow ==
    [day : DayInput, regular : Nat, overtime : Nat, allowances : Nat, gross : Nat]

WagesTypeOK ==
    /\ worker \in Contracts
    /\ listed \in SUBSET Day
    /\ ledger \in [Day -> SUBSET WageRow]

(* The daily breakdown adds up to the payslip a build writes: for a site   *)
(* worker its total is the gross pay, to the fils, if no attended day was  *)
(* cancelled or replaced, and never more; its overtime is the payslip's.   *)
(* Staff never earn more than the contract of the period and overtime.     *)
PayslipIsExplained ==
    LET attended == {d \in Day : ledger[d] # {}}
    IN  /\ ~worker.staff => Breakdown.earned \leq LineNow.gross
        /\ attended \subseteq listed =>
              /\ Breakdown.overtime = LineNow.overtime
              /\ ~worker.staff => Breakdown.earned = LineNow.gross
        /\ worker.staff =>
              LineNow.gross - LineNow.overtime \leq worker.basic + worker.monthly

(* What a day pays is in order: approved overtime never costs the worker   *)
(* more than the fils its own rounding takes, half a day never pays more   *)
(* than the full day, and a full day of normal hours misses nothing of the *)
(* scheduled pay the breakdown compares it with.                           *)
DaysPayInOrder ==
    \A d \in Day : \A l \in ledger[d] :
        LET day == l.day
        IN  /\ DayWage(worker, day).gross + 1
                  \geq DayWage(worker, [day EXCEPT !.overtime = 0]).gross
            /\ DayWage(worker, [day EXCEPT !.outcome = "half_day"]).gross
                  \leq DayWage(worker, [day EXCEPT !.outcome = "full_day"]).gross
            /\ /\ l = DayWage(worker, day)
               /\ day.outcome = "full_day"
               /\ day.worked - day.overtime \geq 60 * DailyHours
               => Impact(d) = 0
=============================================================================
