----------------------------- MODULE PayrollClose -----------------------------
(***************************************************************************)
(* The close of a payroll cycle: build, override, approve and lock, the    *)
(* edit of a cycle, and the disbursement of salary advances that the cycle *)
(* deducts.                                                                *)
(*                                                                         *)
(* build, approve, override and lock hold the row lock of the cycle from   *)
(* their first read to their commit, so each is one action.  Two requests  *)
(* use a cycle they read before without a lock and are split there: the    *)
(* edit, which saves every column of what it read, and the disbursement,   *)
(* which checks the status it read.                                        *)
(***************************************************************************)
EXTENDS Integers, FiniteSets

CONSTANTS
    Cycle, Worker, Advance,
    Request,     \* edits of a cycle that may be in progress at once
    Owner,       \* the worker of each advance
    Contract,    \* monthly basic wage of each worker, 0 when not monthly
    MaxEarned,   \* bound: what a worker may earn in the period
    NoCycle      \* the deduction_cycle of an advance that has none

ASSUME AdvanceAssumption == IsFiniteSet(Advance)
ASSUME OwnerAssumption == Owner \in [Advance -> Worker]
ASSUME ContractAssumption == Contract \in [Worker -> Nat]
ASSUME MaxEarnedAssumption == MaxEarned \in Nat
ASSUME NoCycleAssumption == NoCycle \notin Cycle

(* No code sets EXPORTED or PAID.  "none" and "deleted" are no row. *)
CycleStatus == {"none", "draft", "review", "approved", "locked", "deleted"}

(* A payroll line: the calculated net pay, the advances deducted from it   *)
(* (one unit each), its flags.                                             *)
Line == [built : BOOLEAN,
         net : 0 .. MaxEarned,
         advances : SUBSET Advance,
         belowContract : BOOLEAN,
         manual : BOOLEAN]

NoLine == [built |-> FALSE, net |-> 0, advances |-> {},
           belowContract |-> FALSE, manual |-> FALSE]

NoEdit == [phase |-> "idle", cycle |-> NoCycle, status |-> "none"]

EditState == {NoEdit} \cup [phase : {"read", "checked", "deleting"},
                            cycle : Cycle,
                            status : CycleStatus]

VARIABLES
    cycleStatus,    \* PayrollCycle.status, "none" when there is no row
    line,           \* PayrollLine of each cycle and worker
    reasoned,       \* cycles approved with a below_contract_reason
    earned,         \* what the ledgers of the worker sum up to, less absence
    active,         \* workers with status ACTIVE
    advanceStatus,  \* "approved", "disbursed" or "deducted"
    deductionCycle, \* AdvanceRequest.deduction_cycle
    disbursing,     \* requests that have read an unlocked cycle
    edit,           \* PATCH and DELETE: phase, the cycle, the status read
    overwritten     \* cycles a stale PATCH or DELETE has overwritten

cycleVars == <<cycleStatus, line, reasoned, overwritten>>
advanceVars == <<advanceStatus, deductionCycle>>
vars == <<cycleVars, earned, active, advanceVars, disbursing, edit>>

-----------------------------------------------------------------------------
(* Creating, building, overriding, approving *)

CycleCreate(c) ==
    /\ cycleStatus[c] = "none"
    /\ cycleStatus' = [cycleStatus EXCEPT ![c] = "draft"]
    /\ UNCHANGED <<line, reasoned, overwritten, earned, active, advanceVars,
                   disbursing, edit>>

(* The row can be read. *)
Exists(c) == cycleStatus[c] \notin {"none", "deleted"}

(* The advances the cycle deducts from a worker. *)
Deductions(c, w) ==
    {a \in Advance :
        /\ Owner[a] = w
        /\ deductionCycle[a] = c
        /\ advanceStatus[a] \in {"disbursed", "deducted"}}

CalculatedNetUnclamped(e, advances) == e - Cardinality(advances)

(* calculated_net_pay: never below zero. *)
CalculatedNet(e, advances) ==
    IF e >= Cardinality(advances) THEN e - Cardinality(advances) ELSE 0

BuiltLine(c, w) ==
    [built |-> TRUE,
     net |-> CalculatedNet(earned[w], Deductions(c, w)),
     advances |-> Deductions(c, w),
     belowContract |-> CalculatedNet(earned[w], Deductions(c, w)) < Contract[w],
     manual |-> line[c][w].manual]

BuildableLocked(c) == Exists(c)

Buildable(c) == Exists(c) /\ cycleStatus[c] # "locked"

(* Lines of workers who are no longer active are left as they are. *)
Build(c) ==
    /\ Buildable(c)
    /\ line' = [line EXCEPT ![c] =
                  [w \in Worker |-> IF active[w] THEN BuiltLine(c, w) ELSE line[c][w]]]
    /\ cycleStatus' = [cycleStatus EXCEPT ![c] = "review"]
    /\ UNCHANGED <<reasoned, overwritten, earned, active, advanceVars,
                   disbursing, edit>>

Overridable(c) == cycleStatus[c] \in {"draft", "review"}

WithManual(l, manual) ==
    [built |-> l.built, net |-> l.net, advances |-> l.advances,
     belowContract |-> l.belowContract, manual |-> manual]

(* Set or clear the manual net pay of a line. *)
Override(c, w, manual) ==
    /\ line[c][w].built
    /\ Overridable(c)
    /\ line' = [line EXCEPT ![c][w] = WithManual(@, manual)]
    /\ UNCHANGED <<cycleStatus, reasoned, overwritten, earned, active,
                   advanceVars, disbursing, edit>>

NeedsReasonOfActive(c) ==
    \E w \in Worker : active[w] /\ line[c][w].belowContract

NeedsReason(c) == \E w \in Worker : line[c][w].belowContract

Approve(c, reason) ==
    /\ cycleStatus[c] = "review"
    /\ NeedsReason(c) => reason
    /\ cycleStatus' = [cycleStatus EXCEPT ![c] = "approved"]
    /\ reasoned' = IF reason THEN reasoned \cup {c} ELSE reasoned \ {c}
    /\ UNCHANGED <<line, overwritten, earned, active, advanceVars, disbursing,
                   edit>>

-----------------------------------------------------------------------------
(* Locking *)

(* unreconciled_advances: asks only that the worker has a line. *)
AdvancesReady(c) ==
    \A a \in Advance :
        deductionCycle[a] = c /\ advanceStatus[a] = "disbursed"
            => line[c][Owner[a]].built

DeductedOfActive(c) ==
    {a \in Advance :
        /\ deductionCycle[a] = c
        /\ advanceStatus[a] = "disbursed"
        /\ active[Owner[a]]}

DeductedByLock(c) ==
    {a \in Advance : deductionCycle[a] = c /\ advanceStatus[a] = "disbursed"}

(* The other readiness checks (attendance, overtime, disputes, payroll     *)
(* details) may refuse the request; a refused lock changes nothing.        *)
LockPayroll(c) ==
    /\ cycleStatus[c] = "approved"
    /\ AdvancesReady(c)
    /\ cycleStatus' = [cycleStatus EXCEPT ![c] = "locked"]
    /\ advanceStatus' = [a \in Advance |->
                           IF a \in DeductedByLock(c) THEN "deducted"
                           ELSE advanceStatus[a]]
    /\ UNCHANGED <<line, reasoned, overwritten, earned, active, deductionCycle,
                   disbursing, edit>>

-----------------------------------------------------------------------------
(* PATCH and DELETE of a cycle: neither locks the row.                     *)

(* PATCH reads the row here and saves every column of it in EditSave; in   *)
(* between it reads the row once more to check that it is a draft.         *)
EditRead(r, c) ==
    /\ edit[r] = NoEdit
    /\ Exists(c)
    /\ edit' = [edit EXCEPT ![r] =
                  [phase |-> "read", cycle |-> c, status |-> cycleStatus[c]]]
    /\ UNCHANGED <<cycleVars, earned, active, advanceVars, disbursing>>

EditCheck(r) ==
    /\ edit[r].phase = "read"
    /\ edit' = [edit EXCEPT ![r] =
                  IF cycleStatus[edit[r].cycle] = "draft"
                  THEN [phase |-> "checked",
                        cycle |-> edit[r].cycle, status |-> edit[r].status]
                  ELSE NoEdit]
    /\ UNCHANGED <<cycleVars, earned, active, advanceVars, disbursing>>

Overwrite(c, old, new) ==
    /\ cycleStatus' = [cycleStatus EXCEPT ![c] = new]
    /\ overwritten' = IF cycleStatus[c] = old THEN overwritten
                      ELSE overwritten \cup {c}

(* Saving a row deleted meanwhile inserts it again. *)
EditSave(r) ==
    /\ edit[r].phase = "checked"
    /\ Overwrite(edit[r].cycle, edit[r].status, edit[r].status)
    /\ edit' = [edit EXCEPT ![r] = NoEdit]
    /\ UNCHANGED <<line, reasoned, earned, active, advanceVars, disbursing>>

DestroyRead(r, c) ==
    /\ edit[r] = NoEdit
    /\ cycleStatus[c] = "draft"
    /\ edit' = [edit EXCEPT ![r] =
                  [phase |-> "deleting", cycle |-> c, status |-> "draft"]]
    /\ UNCHANGED <<cycleVars, earned, active, advanceVars, disbursing>>

(* Lines and advances protect the cycle they refer to. *)
DestroyCommit(r) ==
    LET c == edit[r].cycle
    IN  /\ edit[r].phase = "deleting"
        /\ IF /\ \A w \in Worker : ~line[c][w].built
              /\ \A a \in Advance : deductionCycle[a] # c
           THEN Overwrite(c, "draft", "deleted")
           ELSE UNCHANGED <<cycleStatus, overwritten>>
        /\ edit' = [edit EXCEPT ![r] = NoEdit]
        /\ UNCHANGED <<line, reasoned, earned, active, advanceVars, disbursing>>

-----------------------------------------------------------------------------
(* Disbursing an advance *)

(* The view reads the cycle without a lock; mark_disbursed refuses the     *)
(* request when that copy says locked.                                     *)
DisburseRead(a, c) ==
    /\ Exists(c)
    /\ cycleStatus[c] # "locked"
    /\ disbursing' = disbursing \cup {<<a, c>>}
    /\ UNCHANGED <<cycleVars, earned, active, advanceVars, edit>>

DisbursableTwice(a) == advanceStatus[a] \in {"approved", "disbursed"}

Disbursable(a) == advanceStatus[a] = "approved"

(* The foreign key refuses a cycle deleted meanwhile. *)
DisburseCommit(a, c) ==
    /\ <<a, c>> \in disbursing
    /\ disbursing' = disbursing \ {<<a, c>>}
    /\ IF Disbursable(a) /\ Exists(c)
       THEN /\ advanceStatus' = [advanceStatus EXCEPT ![a] = "disbursed"]
            /\ deductionCycle' = [deductionCycle EXCEPT ![a] = c]
       ELSE UNCHANGED advanceVars
    /\ UNCHANGED <<cycleVars, earned, active, edit>>

-----------------------------------------------------------------------------
(* What other components do meanwhile *)

(* A wage task writes a daily ledger of the period (AttendanceWages). *)
WageRecalculated(w, e) ==
    /\ earned[w] # e
    /\ earned' = [earned EXCEPT ![w] = e]
    /\ UNCHANGED <<cycleVars, active, advanceVars, disbursing, edit>>

(* A worker is activated, suspended or terminated. *)
WorkerStatusChange(w) ==
    /\ active' = [active EXCEPT ![w] = ~active[w]]
    /\ UNCHANGED <<cycleVars, earned, advanceVars, disbursing, edit>>

-----------------------------------------------------------------------------
Init ==
    /\ cycleStatus = [c \in Cycle |-> "none"]
    /\ line = [c \in Cycle |-> [w \in Worker |-> NoLine]]
    /\ reasoned = {}
    /\ earned = [w \in Worker |-> 0]
    /\ active = [w \in Worker |-> TRUE]
    /\ advanceStatus = [a \in Advance |-> "approved"]
    /\ deductionCycle = [a \in Advance |-> NoCycle]
    /\ disbursing = {}
    /\ edit = [r \in Request |-> NoEdit]
    /\ overwritten = {}

CycleStep(c) ==
    \/ CycleCreate(c) \/ Build(c) \/ LockPayroll(c)
    \/ \E w \in Worker, manual \in BOOLEAN : Override(c, w, manual)
    \/ \E reason \in BOOLEAN : Approve(c, reason)

EditStep(r) ==
    \/ \E c \in Cycle : EditRead(r, c) \/ DestroyRead(r, c)
    \/ EditCheck(r)
    \/ EditSave(r)
    \/ DestroyCommit(r)

AdvanceStep(a) == \E c \in Cycle : DisburseRead(a, c) \/ DisburseCommit(a, c)

WorkerStep(w) ==
    \/ \E e \in 0 .. MaxEarned : WageRecalculated(w, e)
    \/ WorkerStatusChange(w)

Next ==
    \/ \E c \in Cycle : CycleStep(c)
    \/ \E r \in Request : EditStep(r)
    \/ \E a \in Advance : AdvanceStep(a)
    \/ \E w \in Worker : WorkerStep(w)

Spec == Init /\ [][Next]_vars

-----------------------------------------------------------------------------
(* Properties *)

TypeOK ==
    /\ cycleStatus \in [Cycle -> CycleStatus]
    /\ line \in [Cycle -> [Worker -> Line]]
    /\ reasoned \in SUBSET Cycle
    /\ earned \in [Worker -> 0 .. MaxEarned]
    /\ active \in [Worker -> BOOLEAN]
    /\ advanceStatus \in [Advance -> {"approved", "disbursed", "deducted"}]
    /\ deductionCycle \in [Advance -> Cycle \cup {NoCycle}]
    /\ disbursing \in SUBSET (Advance \X Cycle)
    /\ edit \in [Request -> EditState]
    /\ overwritten \in SUBSET Cycle

Closed(c) == cycleStatus[c] \in {"approved", "locked"}

(* No pay below the contract is approved or locked without the reason that *)
(* approve asks for, whatever was rebuilt, overridden or suspended in the  *)
(* meantime, unless a stale edit has overwritten the cycle.                *)
BelowContractIsReasoned ==
    \A c \in Cycle \ overwritten :
        Closed(c) /\ (\E w \in Worker : line[c][w].belowContract) => c \in reasoned

(* An advance is deducted on the payslips of one cycle only, although two  *)
(* disbursements of it into different cycles may run at once.              *)
DeductedInOneCycle ==
    \A c, d \in Cycle : \A w \in Worker :
        line[c][w].advances \cap line[d][w].advances # {} => c = d

(* An advance a locked payslip deducts is settled: it is DEDUCTED, and     *)
(* deducted by that cycle.                                                 *)
LockedDeductionsAreSettled ==
    \A c \in Cycle \ overwritten : \A w \in Worker :
        cycleStatus[c] = "locked" =>
            \A a \in line[c][w].advances :
                advanceStatus[a] = "deducted" /\ deductionCycle[a] = c

(* The close is the controlled close it promises to be: pay is approved    *)
(* and locked as it stands and a locked cycle never reopens.  A cycle      *)
(* whose status a stale edit has overwritten is outside the promise.       *)
Phase(c) ==
    IF c \in overwritten THEN "void"
    ELSE IF Closed(c) THEN cycleStatus[c]
    ELSE "open"

Control == INSTANCE PayrollControl
              WITH Pay <- [Worker -> Line],
                   phase <- [c \in Cycle |-> Phase(c)],
                   pay <- line

CloseIsControlled == Control!Spec

(* Every advance that points at a locked cycle has been deducted, on the   *)
(* payslip of its worker: salary advances are "transparent and             *)
(* reconcilable" (MODULE_SUMMARY.md).                                      *)
AdvancesReconciled ==
    \A a \in Advance : \A c \in Cycle :
        deductionCycle[a] = c /\ cycleStatus[c] = "locked" =>
            /\ advanceStatus[a] = "deducted"
            /\ a \in line[c][Owner[a]].advances
=============================================================================
