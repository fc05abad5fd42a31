# A formal model of PayYard

PayYard is a workforce and payroll system for labour companies: a Django REST
application with Celery workers over PostgreSQL (`src/backend`) and a Next.js
front end with an offline attendance queue (`src/frontend`). This directory
holds TLA+ models of the parts where a wrong interleaving costs somebody money,
the TLC configurations that check them, and TLAPS proofs of their main
properties for every value of the constants.

    tlc -workers 2 -config AttendanceWages.cfg MCAttendanceWages
    tlapm AttendanceWagesProofs.tla

## 1. The platform every component runs on

* `ATOMIC_REQUESTS` (`config/settings/base.py:93`): an HTTP request is one
  database transaction at PostgreSQL's READ COMMITTED. Each statement sees what
  was committed when it started; two statements of one request may see
  different states; a row lock (`select_for_update`, or an update) is held to the
  end of the request.
* Celery tasks (`base.py:170-173`) are acknowledged late and rejected when a
  worker is lost, so a message is delivered at least once. Tasks run outside a
  transaction unless they open one.
* `TenantModelViewSet` (`core/viewsets.py`) gives most tables a PATCH that
  reads a row without a lock and later saves **every column** of it, and a DELETE
  that removes a row read earlier. Components that guard their state with locks
  in their services share that state with these two.

## 2. Inventory

| Component | State | Operations | Talks to | Hard behaviour | What makes it correct |
|---|---|---|---|---|---|
| attendance | `AttendanceRecord` (status, outcome, times), `AttendanceException`, `OvertimeRequest` | check-in, check-out, decide an exception, create / decide / edit / delete overtime, offline batch | queues the wage task after commit; read by the payroll | decisions and the check-out recompute one status from parts; a rejection sweeps other exceptions before it locks the record | status and outcome agree with the exceptions in every order; a settled day stays settled |
| daily wages | `DailyWageLedger` | `calculate_daily_wage` task | reads attendance and overtime, writes the ledger | lost, duplicated and late tasks around the payroll lock | only approved days are paid; a wage is current or about to be; locked wages are final |
| payroll cycles | `PayrollCycle`, `PayrollLine` | create, build, override, approve, lock, edit, delete | reads ledgers, workers, advances; locks attendance; settles advances | rebuild after approval, stale edits, inputs that change between build and lock | pay is approved and locked as it stands; a locked cycle is final; a reason for pay below contract |
| exports and reports | `PayrollExport` | request export, export task, reports at once | reads the cycle, then its lines | version numbers, redelivered and killed tasks, a cycle reworked meanwhile | versions without a gap; files show locked or approved pay; totals add up; every export ends |
| advances | `AdvanceRequest` | request, decide, cancel, disburse | limit from the ledgers; deducted by build and lock | limit checks without locks; disbursement against a cycle being locked | within the limit; deducted once; reconciled with payslips |
| disputes | `Dispute`, `PayrollAdjustment` | raise, comment, escalate, resolve, reject | blocks the lock of a payroll | escalation overwrites a resolution | resolved once, one adjustment |
| sites, rosters, transfers | `RosterAssignment`, `WorkerTransfer` | assign, edit, delete, transfer request and approval | roster identity of an attendance | edits while a check-in is in progress | an attendance is as its roster; a worker attends once a day |
| notification outbox | `NotificationOutbox`, `DeliveryAttempt` | enqueue, dispatch, deliver | providers (external), Celery | duplicate deliveries from stale copies, lost workers, a batch full of rows that cannot be rendered | attempts are used up before giving up; notifications are settled |
| compliance alerts | `ComplianceAlert` | hourly and requested scan, decide | reads documents, consents, rosters, attendance | overlapping and failing scans, decisions meanwhile | a lasting gap is reported; a decision stays |
| memberships | `Membership` | onboard, link a profile, change, remove | authorisation | checks of fresh copies, saves of old ones; a count without a lock | privileges come from owners; a company keeps an owner |
| workforce | `Worker` and its documents | CRUD, portal | read by all | status changes while a payroll is open | plain records |
| organizations | `Company`, settings | CRUD | read by payroll, advances | none of its own | plain records |
| core | audit log, generic viewsets | create, update, destroy | all | stale saves (above) | covered where they bite |
| front end | offline queue in IndexedDB | queue, sync, clear | batch endpoint | lost answers, repeated batches | no attendance twice, none lost |

`PROJECT.json` lists the same components with their sources and status, and the
hazards of each at the line where it bites.

## 3. Modules

    AttendanceWages ------------- MCAttendanceWages    1 run, 1 finding
          \---- AttendanceWagesProofs
    PayrollControl <== PayrollClose --- MCPayrollClose 1 run, 1 finding
          |               \---- PayrollCloseProofs
          | (environment of)
    PayrollExports -------------- MCPayrollExports     1 run
          |  \---- PayrollExportsProofs
          \--> PayrollReports (what a file shows)
    OfflineAttendance ----------- MCOfflineAttendance  1 run
          \---- OfflineAttendanceProofs
    AdvanceLimits --------------- MCAdvanceLimits      1 run, 1 finding
          \---- AdvanceLimitsProofs
    Disputes --------\
    Memberships -----+----------- MCBackOffice         1 run, 2 findings
    WageCalculation -/                 \---- BackOfficeProofs
    NotificationOutbox -\
    ComplianceAlerts ---+-------- MCBackground         1 run
                                       \---- BackgroundProofs
    SetSums (laws of finite sums) <-- PayrollExportsProofs, AdvanceLimitsProofs,
                                      BackgroundProofs, BackOfficeProofs

`<==` is "is implemented by". `PayrollExports` is composed with `PayrollControl`:
what an export needs of the close is what the refinement of `PayrollClose`
guarantees, so the two composed need not be the two in full. `MCBackOffice` and
`MCBackground` compose components that share no state; their names are prefixed
where they would clash (`AccountsInit`, `WagesNext`, `AlertsTypeOK`, ...), and the
proofs are about each component's own specification and about the compositions.

### AttendanceWages

From a check-in to a daily wage and what `lock_payroll` does to both.
`Attendance` stands for roster assignments, which are one-to-one with
attendances. A time is only late or not, early or not. The exception's status and
decision are one value.

A request that works under the row lock of the attendance from its first read
is one action (`CheckIn`, `CheckOut`, `OvertimeDecide`). The others are split
where another transaction can commit:

* `decide_exception` locks its exception (`DecideLock`), a rejection then closes
  the other open ones (`DecideSweep`, which waits for their row locks; `holds`
  records them), and only then locks the attendance, recomputes outcome and
  status and commits (`DecideCommit`). `DecideRollBack` is a failed request or the
  victim of the deadlock two rejections can run into.
* the wage task locks the attendance and reads what it needs (`WageStart`); it
  writes and commits in `WageFinish`, or fails (`WageRefused`, `WageAbort`).
* `lock_payroll` checks readiness (`LockCheck`), updates the approved
  attendances, waiting for their locks (`LockMark`), finalises the ledgers and
  commits (`LockCommit`).
* PATCH of an overtime request is `OvertimeEditRead` and `OvertimeEditSave`.

A wage is represented by what it was computed from: the outcome of the day and the
set of approved overtime requests. `queued` says that a message for the
attendance is in the broker (delivery at least once: taking it may leave a copy).
`missed` is a history variable: attendances whose wage inputs changed while no
message was queued, which are the holes the code has. `WageAbort` stands for
retry, redelivery and the retry that is not made because five are used up.

The task's `select_related` also locks the joined company, worker and shift rows,
so in PostgreSQL tasks of one company exclude each other. The model lets tasks of
different attendances overlap: it has more behaviours, never fewer.

### PayrollControl and PayrollClose

`PayrollControl` is the abstract promise: pay is worked on while a cycle is open,
approved as it stands, locked as approved, and a locked cycle never changes.
`PayrollClose` is the code: `CycleCreate`, `Build`, `Override`, `Approve`,
`LockPayroll`, PATCH and DELETE of a cycle, the two steps of a disbursement, and
two steps of its environment (a daily wage changes, a worker's status changes).
build, override, approve and lock hold the row lock of the cycle, so each is one
action. PATCH (`EditRead`, `EditCheck`, `EditSave`), DELETE (`DestroyRead`,
`DestroyCommit`) and disburse (`DisburseRead`, `DisburseCommit`) are split. A
disbursement that refers to the cycle by foreign key takes a share lock on it that
conflicts with build and lock, so its commit falls before or after them.

`earned` is what the ledgers of a worker sum up to, an advance is one unit of it.
No code sets the statuses EXPORTED and PAID. Line values are those the code
computes: clamped net pay, the deducted advances, the below-contract flag; lines of
workers who are no longer ACTIVE survive a rebuild as they are.

`overwritten` is a history variable. `perform_update` checks a fresh copy of the
cycle but saves the copy it read before; when the status changed in between, the
save puts the old one back, even on a locked cycle. No safety property of the
close survives that, so the properties are about cycles no stale edit has
overwritten, and the refinement maps an overwritten cycle to "void". The variable
makes the exemption explicit and as small as it is: it is entered only by an
`EditSave` or `DestroyCommit` that replaces a status other than the one it read.

### AdvanceLimits

An advance from the request to the deduction, and the two limits of the policy:
active requests per cycle, and the share of the earned wages that may be
outstanding. `create_advance_request` takes no lock: `RequestCount` reads the
policy and counts the active requests, `RequestCommit` or `RequestRefused` sums what is
available and inserts the row. `decide_advance` locks its own row and nothing
else: `DecideLock` (with the wages it sums, kept in the decision as `share`),
`DecideLimit` (the outstanding advances), `DecideCommit` or `DecideRefused`. `Cancel`,
`Disburse` and `Deduct` lock the row from their first read and wait for it
(`RowFree`), so each is one action. "amount or requested_amount" is `Granted`: an
approval of zero approves what was requested.

Requests are counted by the day they were created (`created`) in the period of a
payroll cycle that covers today, or in the month so far without one
(`CountingPeriods`). A cycle is its period, a set of days: `CycleCreate`, `CycleEdit` and
`CycleDelete` change which days are counted together, `NextDay` moves on. Every cycle has
version 1 (`PayrollCycleSerializer` makes it read-only and nothing raises it), so
among overlapping cycles `order_by("-version").first()` may take any. `CycleEdit` and
`CycleDelete` leave out that only drafts are edited: which cycles are is a choice of
the behaviour.

The wages are one number per worker, already multiplied by the percentage of the
policy (`share`); `ShareChange` is the wage task or the next month. `PolicySwitch` is
the edit of the policy, as far as it switches it on and off. Which cycle an advance
is deducted in is the subject of `PayrollClose`.

Neither limit is enforced against what overlaps, so both properties name the overlap
with history variables and say that nothing else breaks the limit.
`RequestsWithinPolicy`: of the active requests counted in one period, those that no
other request overtook between count and insert (`overlapped`) are within the
policy, and all of them exceed it by fewer than the requests that can be in progress.
`OverdrawnOnlyByOverlap`: what an approval lets a worker owe is within the share it
has read, apart from what others have approved since it summed the outstanding
advances (`since`); `ApprovalsWithinEarned`, without the exemption, is what the refusal
message promises and the finding refutes. A request is only counted in the period of
its moment (`against`): a cycle that is created or moved over two such periods later
has the requests of both, more than the policy's number, and no property forbids it.

### Disputes

`resolve` and `reject` read and write under the row lock: one action each.
`escalate` reads the row without a lock (`EscalateRead`), checks the copy and saves
every column of it (`EscalateSave`): the copy's link to an adjustment, which was
empty, replaces the row's. `staleSaves` is a history variable: the escalations
that saved over a dispute decided since they read it. The payroll lock counts the
unresolved disputes of its period (`LockCheck`) and commits later; `late` records
the disputes raised in between or afterwards, which it cannot have seen. Deleting
an adjustment unlinks it (`AdjustmentDelete`). No code approves or applies one.

### NotificationOutbox

The delivery of a notification: the request that writes the row and queues the
first delivery inside its open transaction (`Request`, `RequestEnd`), the beat
dispatcher, which queues the oldest pending rows up to its limit in one action
(`Dispatch`, `Batch`), and the task, one action per committed write: `Take`,
`Mark` (attempts and PROCESSING), `Record` (the `DeliveryAttempt`), `Send`,
`SaveSent`, `Finish`, `SaveFailure`. `Miss` is the task that finds no row yet.
A job carries the copy of `attempts` it read, and every later write uses that
copy, as `notification.save()` does. `RenderFails` and `WriteFails` are the
exceptions outside the `try`: Celery retries them, the row is left as it is.
`Crash` is a lost worker; its message goes back to the queue. Providers are
external: they accept or refuse.

Notifications are numbers in the order of `scheduled_for`. The only request that writes
one (`create_worker_otp`) leaves that to be the time of creation, so rows are created
in this order and always due; they may be committed in another. A row whose template
has a syntax error (`renders` is false) stays PENDING for ever and keeps its place at
the head of the batch: with `DispatchLimit` (100) of these the dispatcher never comes to a later
row, which then has only the first message of its own request. `EventuallySettled`
is about the rows that fewer of these precede.

### PayrollReports and PayrollExports

`PayrollReports` is what an artifact shows: for each row and each column the
amounts of the line that are added into it, and the totals, computed as
`report_data` computes them, amount by amount over the lines. The WPS file, the
HTML, PDF and Excel reports are records of rows, totals, the number of overrides
and the heading ("FINAL" or "REVIEW", or the status itself).

`PayrollExports` has the requests and the tasks around it. A request reads the
cycle (`Open`), counts its lines (`Size`), and either builds a small report at once
(`Download`) or counts the earlier exports of its type (`CountVersion`) and inserts
its row (`Insert`, or `Conflict` where the unique constraint refuses it). The insert
and the `on_commit` that queues the task are one action with the outcome that the
process ends in between. The task reads the row and its cycle (`Take`), marks it
PROCESSING (`Mark`), reads the lines and builds (`Build`), stores (`Save`), ends
(`Finish`), or fails into FAILED and a retry (`Fail`). `Abandon` is a fault outside
the `try`, or the hard time limit, after which the message is gone; `Redeliver` is a
lost worker, or a lost connection, in which case the task goes on beside the
second delivery. The cycle moves by `PayrollControl`'s own actions (`Close`).
`approved`, `reworked` and `abandoned` are history variables.

### OfflineAttendance

From a press on the attendance page to the attendance row, with rosters and
transfers beside it. On the device: `Press`, `Sync`, `Receive`, `GiveUp`, `Load` and
the seven days (`Age`). On the server, per process: the lookup of a record's key
before any lock (`Lookup`), the check-in under the row lock of the roster
(`CheckIn`), a record that is refused or whose savepoint fails (`Refuse`), and the
commit or failure of the whole request (`Commit`, `Rollback`). What a request has
created is in `made` until it commits; the rosters in it are row-locked.
`Posted` and `GiveUp` are the network: the request may never arrive, and a page
that has given up leaves its request running. On the sites: `CreateRoster`,
`EditRoster`, `DeleteRoster`, `RequestTransfer`, `ApproveTransfer`.

A PATCH may give an attended roster another worker, site or date: nothing refuses it.
The attendance keeps its own, and since the only constraint on a worker's day is that of the
rosters, the worker may be rostered and attend again on the old date. `edited` is a
history variable: the rosters this has happened to. `AttendedOnce` and
`RecordedAsRostered` exempt them. `ApproveRead` is the approval of a transfer up to its read
of the old roster's date, `ApproveTransfer` the rest.

Abstractions: `Assigned` is the sites where the user may check in, all of them unless
the user is a supervisor; device and server share a clock;
`Refuse` covers every per-record error, a deadlock included; the encryption key of
the store exists; edits of a transfer and the completion of a shift are left out.
`ApproveTransfer` keeps the old row and its worker, so the unique constraint refuses
every transfer whose worker still has that row on that date: an approval succeeds
only after the source roster was given to another worker or moved to another date. The model has the code's behaviour; no
document promises otherwise.

### Memberships

A request authenticates once (`Authenticate`: the role of the actor is read there)
and then onboards (`Onboard`), links a payroll profile (`LinkProfile`), changes a
membership (`PatchFetch`, `PatchCheck`, `PatchSave`) or removes one (`RemoveFetch`,
`RemoveCheck`, `RemoveSave`). No row is locked: PATCH checks a fresh copy and saves
every column of the first one, DELETE counts the owners and saves later. `grantor`
(the role of who last changed an access), `restored` (members saved from a copy
another write had passed), `patchedOut` and `overlapped` are history variables that
keep the exemptions of the two properties exact. A PATCH of a membership's user is
left out.

### WageCalculation

The arithmetic: `DayWage` (minutes, half days, overtime, allowances, every rounding
in fils), `LineNow` (what a build sums, the period fraction of staff) and
`Breakdown` (the daily list a worker sees). Multipliers are in quarters and the half
day in hundredths; products of the code's 28-digit decimals are exact. The JSON of
the allowances is checked by nothing; negative ones are left out
(`ContractAssumption`). The state is
what makes the two disagree: ledgers that stay when the contract is edited
(`Rehire`), rosters that are cancelled after they were attended (`List`).

### ComplianceAlerts

A scan runs one query per kind of gap (`Query`), and for each row found looks for its
alert (`Get`) and creates it (`Create`); each statement commits at once. A scan that
raises is over (`Fail`). Users decide alerts (`Resolve`), gaps come and go (`Change`).

## 4. Runs

Deadlock is not checked: in all modules users may stop acting, and a settled
day, a locked cycle, a closed dispute and a sent notification need no further step.

| Run | Instance | Shows |
|---|---|---|
| AttendanceWages | one day with both exceptions, or two days, one in the payroll period, without; 1 overtime request that may move between them; 191,717 states | `TypeOK`, `StatusFollowsExceptions`, `OnlyApprovedDaysArePaid`, `LockedWageIsFinal`, `WageCurrentOrQueued`, `SettledStaysSettled` in every interleaving of two decisions, the check-out, overtime, the wage task (lost, failed, redelivered) and the lock |
| AttendanceRewrite | 1 day | finding: a final wage is rewritten after the lock |
| PayrollClose | 2 cycles, 1 worker, 1 advance, 1 edit, pay 0 or 1; 420,232 states | `TypeOK`, `BelowContractIsReasoned`, `DeductedInOneCycle`, `LockedDeductionsAreSettled`, `CloseIsControlled` (the refinement of `PayrollControl`) |
| AdvancesReconciled | 1 cycle, 1 worker, 1 advance | finding: an advance in a locked cycle that its payslip does not deduct |
| PayrollExports | 1 cycle, 3 tables of lines, 4 artifacts, 2 requests, 2 exports, 2 Celery workers, 1 fault or redelivery; 64,934 states | `VersionsAreSequential`, `WpsFileIsLockedPay`, `FinalReportUnlessReworked`, `ReportsAddUp`, `UnsettledIsAttended`, `EventuallySettled` |
| OfflineAttendance | 2 rosters, 2 workers, sites and dates, 2 captures, 2 tabs, 2 server processes, 1 transfer; 152,910 states | `TypeOK`, `NothingIsLost`, `AttendedOnce`, `RecordedAsRostered` with lost, late and repeated requests while rosters get other workers, sites and dates and workers are transferred |
| AdvanceLimits | 1 worker, 3 advances, 2 requests and 2 decisions at once, one active request allowed, amounts to 2, a share of 0 to 3, 2 days; 509,535 states | `TypeOK`, `RequestsWithinPolicy`, `OverdrawnOnlyByOverlap`, `DecisionIsFinal` while days, payroll cycles, cancellation, disbursement, payroll lock, wages and policy race them |
| AdvancesOverdrawn | 1 worker, 2 advances requested one by one, 2 decisions at once, 1 day | finding: two approvals exceed the limit both of them checked |
| BackOffice | 2 disputes and 2 escalations; or 2 members and 2 requests on them; or 4 contracts and 2 work dates; 411,279 states | `TypeOK`, `AdjustedOncePerDecision`, `LockedPeriodIsSettled`, `DecisionIsFinal`; `TypesOK`, `PrivilegesComeFromOwners`, `RemovalsLeaveAnOwner`; `PayslipIsExplained`, `DaysPayInOrder` |
| DisputeReopened | 2 disputes, 1 escalation | finding: a resolved dispute goes back to HR review |
| LastOwner | 2 members, 1 request | finding: a PATCH takes the last owner |
| Background | 1 notification, 2 workers, 3 attempts, 1 Celery retry, 2 messages at a time, 1 lost worker, 1 failed write; or 2 notifications, 1 worker and a dispatcher that takes 1; or 2 gaps of 2 kinds, 2 scans, 1 of which fails; 131,086 states | `TypesOK`, `GivenUpAfterAllAttempts`, `ProcessingIsAttended`, `EventuallySettled`; `DecisionsAreKept`, `LastingGapsAreReported` |

`BackOffice` and `Background` check components that share no state, so nothing is
learnt from their interleavings: the variable `moves` picks the component of a
behaviour at its start, and the states add up instead of multiplying.

**Bounds and why they suffice.**
* Attendances meet only through an overtime request that moves and through the
  period: two days, one in and one out, have both. `OneSceneAtATime` lets the day
  with exceptions be alone: no action reads the exceptions of two days.
* Two exceptions per day is the code's own limit (`late`, `early_leave`). The model
  does not bound how often anything happens.
* Cycles meet only through an advance disbursed into two of them. The worker is
  paid monthly with contract equal to the bound, so both sides of the
  below-contract test occur, and an advance larger than the pay (pay 0) shows the
  clamp. `OnlyReworkedCycles` lets only one of the two cycles be overridden and
  edited: an edit concerns one cycle.
* Five attempts and five Celery retries are 3 and 1 in the run: retries and the
  dispatcher still count against one limit, a message can run out of retries
  before the attempts are used up and after. Two messages in flight is the
  smallest number with duplicate deliveries; with three (505,422 states) the
  same properties hold.
* The dispatcher takes 1 row for the code's 100, so one older row is enough to fill its
  batch: with a broken template for ever, with a good one until it is settled. `OutboxScene`
  leaves lost workers and failed writes to the instance of one notification, where the
  counters and statuses they disturb are.
* Advances meet only in the sums and counts of one worker, so one worker has every
  interaction. The share of 3 exceeds the largest advance and admits two
  together; the maximum amount of 2 caps the limit; a single active request makes
  the next one wait for a rejection, a cancellation or another period. Two days and every
  period of them are the smallest in which a cycle covers, misses or joins days;
  `RequestScene` has three requests of one unit, two at once, with one cycle at a time and
  decisions one by one, `DecisionScene` two requests, then two decisions at once with all
  else. Both limits are exceeded there, by overlaps only. Advances, requests and
  decisions of one worker are interchangeable (`Alike`).
* Disputes do not meet at all but in the payroll lock: one with a payroll line,
  one without. Two escalations reopen a dispute at most twice, so it has at
  most three adjustments and `MaxAdjustments` (4) cuts nothing off.
* Exports: two requests make two equal versions, two tasks of one row overlap, and
  three tables (none, one, two lines) have every branch of `Size` with
  `SyncMaxRows` 1, and totals of more than one row. `OneConcernAtATime` keeps two
  concurrent requests, the faults of a task, a second export and a reworked cycle
  apart; the theorems of section 6 hold without it.
* Captures meet in the store, in a request and in a roster: two captures of one or
  two rosters, from two tabs, served by two processes have each of these.
  `DeviceScene` has all of the device and the network with rosters that stay,
  `SiteScene` edits and transfers with one tab that does not store and a row that differs from the
  first in its worker, its site or its date. Server processes are interchangeable. `BatchLimit` is 2
  for the code's 200, so a batch of the run is never too large; the theorem `NothingLost` has
  the refused one too, which leaves the store as it is.
* Memberships: two requests, one member who is an owner and one who may become
  anything. `AccountsScene` stops at the states a property exempts, and
  authenticates one request at a time (the role it reads is not used again).
* Wages: a monthly, a shift, an hourly contract and a staff contract that begins
  within the period, with amounts that round both ways; a day too short and a day
  too long, with overtime that is a fraction of an hour or none.
* Scans: two that overlap see the same gap, and two kinds let one fail between them.

**Fairness** is assumed where liveness is stated, weak but for the queue of the outbox.
* The outbox. `RequestEnd`: a request ends (gunicorn runs with a timeout of 60
  seconds, `Dockerfile:27`). `Dispatch`: beat runs it every 30 seconds. `Work(w)`: a
  worker goes on with the task it has; the WhatsApp and
  SMS calls time out after 20 seconds. A task that exceeds Celery's hard time limit of
  300 seconds (`base.py:173`) would be killed and, by Celery's default, acknowledged, which
  leaves its row in PROCESSING; that a delivery, the Firebase library's included,
  ends before is assumed. `Deliver(n)`, strongly: the workers are busy again and again with
  other notifications, but a queue of the broker is served in order and a worker reserves one
  message per process (`CELERY_WORKER_PREFETCH_MULTIPLIER`, `base.py:172`), so each message is
  at the head after finitely many. `Dispatch` is fair as a whole and not for each row:
  which rows it queues is its order and limit.
* The exports. `TaskStep(w)`: the same of the export tasks. Here the time limit is
  modelled (`Abandon`), and a row it has taken is exempt.
* The alerts. `AlertStep(s)`: beat starts a scan every hour, and a worker goes on with
  the one it has; a scan that fails is not retried, the next one is.

The other modules assume no fairness and state safety only: users may stop.

**Mutants.** For every property of a passing run `PROJECT.json` names a plausible bug
in a definition, written beside it in the module (`PublishFirst`, `NeedsReasonOfActive`,
`StatusAfterFailureEarly`, ...), under which TLC finds the property violated.

## 5. Findings

1. `AttendanceRewrite`. `calculate_attendance_wage` accepts LOCKED attendance
   (`payroll/services.py:205`) and overwrites its FINAL ledger. Overtime approved
   after the lock, or a task that was queued or redelivered around it, changes a
   final wage while the locked payroll line keeps the old pay. The README promises
   that locked payroll data is not silently overwritten.
2. `AdvancesReconciled`. `mark_disbursed` accepts an APPROVED cycle whose lines are
   built, and trusts a status read without a lock. The advance ends in a locked
   cycle as DEDUCTED with nothing deducted, or as DISBURSED for good.
3. `AdvancesOverdrawn`. `decide_advance` locks its advance, not the worker or the
   policy. Two approvals of two advances both sum the outstanding ones before
   either commits, and both pass the check that refuses "Approved amount exceeds
   the current limit". Requests race in the same way on their count.
4. `DisputeReopened`. `escalate` saves the copy it read without a lock. A resolution
   that commits in between is lost with its text and the link to its adjustment;
   the dispute is open again and a second adjustment can be made for it. The code
   promises that "only an open supervisor case can be escalated".
5. `LastOwner`. A PATCH of a membership's role or activity does not count the
   owners, so the only owner can be demoted or deactivated, by themselves too, where
   a removal is refused with "The company must retain at least one active owner". Two removals of two owners
   that both counted two leave none either (`accounts/views.py:175`).

What the code does besides, and no document of the repository contradicts: a save
of a membership, an overtime request or a cycle restores what another request
changed since it was read; a report headed as final may show lines reworked after its status was read;
an export that meets the hard time limit stays PROCESSING; a transfer is
approvable only after its source roster was edited; a rejected day keeps its period
from being locked; adjustments are never applied by a build; deducted advances
reopen the limit; an approved amount of zero approves what was requested; what
checks in between the readiness check and the commit of a lock is not locked. The
properties name these exemptions where they need them.

## 6. Proofs

TLAPS proves every safety invariant, every action property and the refinement
that the passing runs check, from the named assumptions on the constants (each in
the module that declares the constant, and evaluated by TLC), for any number of
days, overtime requests, cycles, workers, advances, disputes, exports, rosters,
captures, members, notifications, gaps, concurrent requests, tabs and tasks, and for
any tables of lines, contracts and minutes:

| Module | Theorem | States |
|---|---|---|
| AttendanceWagesProofs | `Typing`, `StatusCorrect`, `LockedWagesFinal`, `PaidDaysApproved`, `WagesCurrent`, `SettledForGood` | `TypeOK`, `StatusFollowsExceptions`, `LockedWageIsFinal`, `OnlyApprovedDaysArePaid`, `WageCurrentOrQueued`, `SettledStaysSettled` |
| PayrollCloseProofs | `Typing`, `Reasoned`, `Settled`, `DeductedOnce`, `Controlled` | `TypeOK`, `BelowContractIsReasoned`, `LockedDeductionsAreSettled`, `DeductedInOneCycle`, the refinement of `PayrollControl` |
| PayrollExportsProofs | `Typing`, `Numbered`, `WpsLocked`, `FinalApproved`, `TotalsAddUp`, `NeverLeftAlone` | `TypeOK`, `VersionsAreSequential`, `WpsFileIsLockedPay`, `FinalReportUnlessReworked`, `ReportsAddUp`, `UnsettledIsAttended` |
| OfflineAttendanceProofs | `Typing`, `NothingLost`, `Once`, `AsRostered` | `TypeOK`, `NothingIsLost`, `AttendedOnce`, `RecordedAsRostered` |
| AdvanceLimitsProofs | `Typing`, `Final`, `Counted`, `WithinEarned` | `TypeOK`, `DecisionIsFinal`, `RequestsWithinPolicy`, `OverdrawnOnlyByOverlap` |
| BackOfficeProofs (disputes) | `DisputesTyping`, `AdjustedOnce`, `LockedSettled`, `Final` | `TypeOK`, `AdjustedOncePerDecision`, `LockedPeriodIsSettled`, `DecisionIsFinal` |
| BackOfficeProofs (memberships) | `AccountsTyping`, `FromOwners`, `OwnersLeft` | `AccountsTypeOK`, `PrivilegesComeFromOwners`; `RemovalsLeaveAnOwner` for a company that has a founder |
| BackOfficeProofs (wages) | `WagesTyping`, `PayslipExplained`, `PaidInOrder` | `WagesTypeOK`, `PayslipIsExplained`; `DaysPayInOrder` for overtime paid at least as normal hours |
| BackOfficeProofs | `BackOfficeTyping` | `TypesOK` of the composition |
| BackgroundProofs | `OutboxTyping`, `OutboxTypes`, `GivenUp`, `NeverOrphaned`, `AlertsTyping`, `DecidedForGood`, `BackgroundTyping` | `Typed` (`TypeOK` without the bound on messages), `TypeOK`, `GivenUpAfterAllAttempts`, `ProcessingIsAttended`, `AlertsTypeOK`, `DecisionsAreKept`, `TypesOK` of the composition |
| SetSums | lemmas | sums over finite sets: of a part, of two functions, of a changed value, of rows and of columns |

Two theorems carry a hypothesis of their own. `OwnersLeft` is about a company that has a
founder. `PaidInOrder` asks for multipliers of at least 1: the defaults are 1.25 and
1.5, but no validator of the policy excludes less, and an overtime hour at less
would cost the worker.

*Attendance.* `IInv` adds to the properties what the row locks buy, none of which
the tables show: `DecisionInv` (a decision in progress holds its exception, what
it holds is still open, and no two decisions hold the same one: without it a sweep
could overwrite a decision), `AbsentInv` (no exception before the check-in),
`LockInv` (a day the payroll lock has marked is still approved and no task is
writing its wage) and `CalcInv` (a running task's wage is final exactly when the
day is locked: this is why `LockedWageIsFinal` needs the row lock of the task). The
step lemmas treat one action each. `SettledForGood` follows from the same invariant:
an exception that is open on an approved or locked day cannot exist.

*Payroll.* `DeductionInv` strengthens the advance properties: an advance on any
built line points at that cycle and has left "approved", from where nothing
brings it back; so a second disbursement finds it not approved. `Controlled` maps
each action to a step of `PayrollControl` or to a stutter under typing alone.

*Advances.* `DecisionInv` says that a decision in progress is about an advance
that is still requested, and about none that another decision holds: what the row
lock is for. `RequestInv` says the same of rows not inserted yet. Without them a
second approval could overwrite the first. `Final` holds for any number of decisions
at once, and so do the limits, in what they say. `WithinShare` carries the limit
of a decision to its commit: what it may still grant fits into what is left of the
share it has read, apart from what was approved since. By `OthersOweNoMore` only the
commit of an approval lets a worker owe more, and that commit enters `since` of every
other decision; `OwesOneMore` and `OwesNoMore` add up what the sums change by.

*Sums.* A sum is the community modules' `SumFunctionOnSet`, which adds in an order
that CHOOSE leaves open. `SetSums` shows that the order does not matter: all
functions that add up the subsets element by element agree (`AddsAgree`), and any
element can be taken out first (`SumRemove`). Its induction on finite sets,
`SubsetInduction`, speaks of a *set* of good subsets in the place of a predicate, so
that it can be cited as a fact; it follows from the library's theorem that strict
inclusion is well-founded.

*Disputes.* `CaseInv` counts: an open dispute has no more adjustments than stale
saves, and a dispute that never left its supervisor has neither; so each stale save
pays for one adjustment more. `CopyInv` says that an escalation saves stale at
most once.

*Wages of a day.* `WageCurrentOrQueued` is inductive with `IInv`: `NextCurrent` goes through the
actions day by day. `Kept` says that nothing a day's wage depends on has changed,
`PublishedIsCurrent` that a message was queued or the day counted as missed. It is
`StatusFollowsExceptions` that lets a refused task drop its message.

*Requests.* `CountedInv` carries the count of a request from its check to its insert, unless
another of its worker is inserted in between. `AloneInv` is then the policy for those that
are not overtaken: the last of them was counted when all the others were there.
`BesideInv` counts the requests in progress with the ones that are there: the one that counts
last finds less than the limit, and there is room for the others only beside it.

*Exports.* `Typed` adds that every message and task is about a row that exists.
`VersionInv` counts the rows of a cycle and type: a request has counted at most what is
there, so a version not taken yet is the next one. `WpsInv` and `FinalInv` follow a
request and a task from the status they read to the lines they read: what was
locked is still locked, what was approved is approved or reworked. `TotalsAddUp`
needs no more of a state than that every file was built by `Artifact` from one
table; the rest is that the figures of the rows and the totals of the columns are
one matrix, added up in two orders (`SumSwap`).

*Captures.* `PageInv`: what a page is told was recorded is recorded, so a sync clears nothing else.
`JobInv`: what a request counts as done is in the tables or in what it will commit.
`MadeInv` and `HolderInv` are what the row lock of the roster is for: what is being created
is as the roster says, for a roster nobody attends, and nobody else creates for it.
`RosterInv` is the unique constraint, which makes attendances of different rosters, where
none was edited, those of different workers or dates.

*Outbox.* `CountInv`: no counter, neither the row's nor a stale copy's, is ahead of the
attempts that were made (recorded, under way, lost in a crash or fault) as long as
these are below the limit; so nobody gives up early. `AttendInv`: PROCESSING means rendered,
and on a message or an unfinished task, unless a write failed. Workers are assumed
finite, as the attempts under way are counted. `BoundInv` is for the bounds: what is in flight of a
notification, messages and tasks together, is at most `MaxMessages`, and nothing is
before its row exists.

*Alerts.* `DecidedForGood` goes through the steps of a scan: a `Create` that finds the
alert another scan has made meanwhile leaves it alone, decided or not.

*Memberships.* `CallInv`: a copy nobody wrote since is the row, and a checked PATCH of
an administrator neither touches nor gives privileges. `AnotherOwner`: while nothing
exempt has happened, an owner's removal that was checked has another owner to leave;
`OneRemoval` is why only one such removal can be under way.

*Payslips.* `WagesInv` says that a day has one ledger at most, and that its gross pay
is what it is made of, whichever contract it was calculated for. So the gross pay of
the period is the sum of its parts (`GrossOfDays`), and the listed days are a part of
it (`ListedPart`). `money()` is a quotient, of which the provers know what `Quotient`
says. `MoneyLeq`, `MoneyPlus`, `MoneyScale` and `MoneyExact` follow: rounding keeps the
order, two roundings differ from one by a fils at most, and a rate divided out again
is the rate. `NormalDay` puts them together: the minutes of a normal day, paid by the
hour, are the scheduled pay for every wage type.

**Only model-checked.** `EventuallySettled` (twice) and `LastingGapsAreReported` are
liveness, which with ENABLED is out of the prover's reach. The findings are TLC
counterexamples.

## 7. Not modelled

* Clock times: late and early, seven days, night, an hour of scanning are inputs or
  nondeterministic. Minutes between check-in and check-out are an input of
  `WageCalculation`.
* Layout, number formats, fonts and texts of payslips, reports and messages.
* Audit rows, the event log and photos: they follow the writes they describe.
* Organizations, sites, shifts, documents, consents: plain records. What other parts
  read of them is a constant or an environment step there (policy limits, the
  contract, the gaps of a scan).
* PATCH of a transfer, which may also set its status: only requests and approvals are.
  The template of a notification stays as it is.
* What a daily wage depends on besides the day's outcome and overtime: a contract, a
  policy or a shift that is edited later. No edit of these queues a wage.
* Sign-in, tokens, one-time codes, devices and portal sessions: left to their
  libraries and to single-row updates.
* Seeds, migrations, settings beyond those quoted, the front end's presentation.
* An aborted request, where it can leave nothing behind.

See `PROJECT.json` for each component and for the three hazards no property covers, with
the reason; the notes of the others say where a property exempts a hazard instead of
catching it.

## 8. What could follow

1. Composition of `AttendanceWages` with `PayrollClose` over the lock they share: a
   build's sums against ledgers that tasks still write.
2. The first use of a device (two tabs that both create an encryption key), and the
   portal's one-time codes with their attempts and expiry.
3. Two cycles whose periods overlap, should the project decide what they promise.
4. An abstract specification of the outbox and of the exports (each attempt counted
   once, each row ended once) that both are shown to implement.
