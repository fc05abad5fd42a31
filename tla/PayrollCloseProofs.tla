-------------------------- MODULE PayrollCloseProofs --------------------------
(***************************************************************************)
(* Proofs about PayrollClose, for every set of cycles, workers, advances   *)
(* and concurrent edits: its type invariant, that it implements the        *)
(* abstract PayrollControl, and what a closed cycle says of its advances.  *)
(***************************************************************************)
EXTENDS PayrollClose, FiniteSetTheorems, TLAPS

-----------------------------------------------------------------------------
(* Type correctness *)

LEMMA NetType ==
    ASSUME NEW e \in 0 .. MaxEarned, NEW A \in SUBSET Advance
    PROVE  CalculatedNet(e, A) \in 0 .. MaxEarned
  <1>1. Cardinality(A) \in Nat
    BY AdvanceAssumption, FS_Subset, FS_CardinalityType
  <1> QED
    BY <1>1, MaxEarnedAssumption DEF CalculatedNet

LEMMA BuiltLineType ==
    ASSUME TypeOK, NEW c \in Cycle, NEW w \in Worker
    PROVE  BuiltLine(c, w) \in Line
  <1> DEFINE A == Deductions(c, w)
  <1>1. A \in SUBSET Advance
    BY DEF Deductions
  <1>2. CalculatedNet(earned[w], A) \in 0 .. MaxEarned
    BY <1>1, NetType DEF TypeOK
  <1>3. line[c][w].manual \in BOOLEAN
    BY DEF TypeOK, Line
  <1>4. (CalculatedNet(earned[w], A) < Contract[w]) \in BOOLEAN
    OBVIOUS
  <1> HIDE DEF A
  <1> QED
    BY <1>1, <1>2, <1>3, <1>4 DEF BuiltLine, Line, A

LEMMA WithManualType ==
    ASSUME NEW l \in Line, NEW m \in BOOLEAN
    PROVE  WithManual(l, m) \in Line
  BY DEF Line, WithManual

(* A PATCH or DELETE in progress is about a cycle. *)
LEMMA EditTarget ==
    ASSUME TypeOK, NEW r \in Request, edit[r].phase # "idle"
    PROVE  edit[r].cycle \in Cycle /\ edit[r].status \in CycleStatus
  <1>1. edit[r] \in EditState
    BY DEF TypeOK
  <1> QED
    BY <1>1 DEF EditState, NoEdit

LEMMA OverwriteType ==
    ASSUME TypeOK, NEW c \in Cycle, NEW old, NEW new \in CycleStatus,
           Overwrite(c, old, new)
    PROVE  cycleStatus' \in [Cycle -> CycleStatus] /\ overwritten' \in SUBSET Cycle
  BY DEF TypeOK, Overwrite

LEMMA InitType == Init => TypeOK
  <1> SUFFICES ASSUME Init PROVE TypeOK
    OBVIOUS
  <1>1. NoLine \in Line /\ 0 \in 0 .. MaxEarned
    BY MaxEarnedAssumption DEF NoLine, Line
  <1> QED
    BY <1>1 DEF Init, TypeOK, CycleStatus, EditState

LEMMA NextType == TypeOK /\ [Next]_vars => TypeOK'
  <1> SUFFICES ASSUME TypeOK, [Next]_vars PROVE TypeOK'
    OBVIOUS
  <1> USE DEF CycleStatus
  <1>1. ASSUME NEW c \in Cycle, CycleCreate(c)
        PROVE  TypeOK'
    BY <1>1 DEF TypeOK, CycleCreate, advanceVars
  <1>2. ASSUME NEW c \in Cycle, Build(c)
        PROVE  TypeOK'
    <2>1. line' \in [Cycle -> [Worker -> Line]]
      BY <1>2, BuiltLineType DEF TypeOK, Build
    <2> QED
      BY <1>2, <2>1 DEF TypeOK, Build, advanceVars
  <1>3. ASSUME NEW c \in Cycle, LockPayroll(c)
        PROVE  TypeOK'
    BY <1>3 DEF TypeOK, LockPayroll
  <1>4. ASSUME NEW c \in Cycle, NEW w \in Worker, NEW m \in BOOLEAN, Override(c, w, m)
        PROVE  TypeOK'
    <2>1. WithManual(line[c][w], m) \in Line
      BY WithManualType DEF TypeOK
    <2>2. line' \in [Cycle -> [Worker -> Line]]
      BY <1>4, <2>1 DEF TypeOK, Override
    <2> QED
      BY <1>4, <2>2 DEF TypeOK, Override, advanceVars
  <1>5. ASSUME NEW c \in Cycle, NEW reason \in BOOLEAN, Approve(c, reason)
        PROVE  TypeOK'
    BY <1>5 DEF TypeOK, Approve, advanceVars
  <1>6. ASSUME NEW r \in Request, NEW c \in Cycle, EditRead(r, c) \/ DestroyRead(r, c)
        PROVE  TypeOK'
    <2>1. /\ [phase |-> "read", cycle |-> c, status |-> cycleStatus[c]] \in EditState
          /\ [phase |-> "deleting", cycle |-> c, status |-> "draft"] \in EditState
      BY DEF TypeOK, EditState
    <2>2. edit' \in [Request -> EditState]
      BY <1>6, <2>1 DEF TypeOK, EditRead, DestroyRead, EditState
    <2> QED
      BY <1>6, <2>2 DEF TypeOK, EditRead, DestroyRead, cycleVars, advanceVars
  <1>7. ASSUME NEW r \in Request, EditCheck(r)
        PROVE  TypeOK'
    <2>1. edit[r].cycle \in Cycle /\ edit[r].status \in CycleStatus
      BY <1>7, EditTarget DEF EditCheck
    <2>2. [phase |-> "checked", cycle |-> edit[r].cycle, status |-> edit[r].status]
            \in EditState
      BY <2>1 DEF EditState
    <2>3. edit' \in [Request -> EditState]
      BY <1>7, <2>2 DEF TypeOK, EditCheck, EditState
    <2> QED
      BY <1>7, <2>3 DEF TypeOK, EditCheck, cycleVars, advanceVars
  <1>8. ASSUME NEW r \in Request, EditSave(r) \/ DestroyCommit(r)
        PROVE  TypeOK'
    <2>1. edit[r].cycle \in Cycle /\ edit[r].status \in CycleStatus
      BY <1>8, EditTarget DEF EditSave, DestroyCommit
    <2>2. /\ cycleStatus' \in [Cycle -> CycleStatus]
          /\ overwritten' \in SUBSET Cycle
      <3>1. CASE EditSave(r)
        BY <3>1, <2>1, OverwriteType DEF EditSave
      <3>2. CASE DestroyCommit(r) /\ Overwrite(edit[r].cycle, "draft", "deleted")
        BY <3>2, <2>1, OverwriteType
      <3>3. CASE UNCHANGED <<cycleStatus, overwritten>>
        BY <3>3 DEF TypeOK
      <3> QED
        BY <1>8, <3>1, <3>2, <3>3 DEF DestroyCommit
    <2>3. edit' \in [Request -> EditState]
      BY <1>8 DEF TypeOK, EditState, EditSave, DestroyCommit
    <2> QED
      BY <1>8, <2>2, <2>3 DEF TypeOK, EditSave, DestroyCommit, advanceVars
  <1>9. ASSUME NEW a \in Advance, NEW c \in Cycle, DisburseRead(a, c) \/ DisburseCommit(a, c)
        PROVE  TypeOK'
    BY <1>9 DEF TypeOK, DisburseRead, DisburseCommit, cycleVars, advanceVars
  <1>10. ASSUME NEW w \in Worker, WorkerStep(w)
         PROVE  TypeOK'
    BY <1>10 DEF TypeOK, WorkerStep, WageRecalculated, WorkerStatusChange,
       cycleVars, advanceVars
  <1>11. CASE UNCHANGED vars
    BY <1>11 DEF TypeOK, vars, cycleVars, advanceVars
  <1> QED
    BY <1>1, <1>2, <1>3, <1>4, <1>5, <1>6, <1>7, <1>8, <1>9, <1>10, <1>11
       DEF Next, CycleStep, EditStep, AdvanceStep

(* Every variable keeps its type; net pay is never negative. *)
THEOREM Typing == Spec => []TypeOK
  BY InitType, NextType, PTL DEF Spec

-----------------------------------------------------------------------------
(* The close is controlled.  A step moves one cycle at most; it is a step  *)
(* of PayrollControl on that cycle, or it changes neither phase nor pay.   *)

LEMMA InitRefines == Init => Control!Init
  <1> SUFFICES ASSUME Init PROVE Control!Init
    OBVIOUS
  <1>1. line \in [Cycle -> [Worker -> Line]]
    BY InitType DEF TypeOK
  <1>2. [c \in Cycle |-> Phase(c)] = [c \in Cycle |-> "open"]
    BY DEF Init, Phase, Closed
  <1> QED
    BY <1>1, <1>2 DEF Control!Init

(* Nothing that a cycle is promised depends on has changed. *)
LEMMA Stutter ==
    ASSUME UNCHANGED <<cycleStatus, overwritten, line>>
    PROVE  UNCHANGED Control!vars
  BY DEF Control!vars, Phase, Closed

LEMMA BuildRefines ==
    ASSUME TypeOK, TypeOK', NEW c \in Cycle, Build(c)
    PROVE  Control!Next
  <1>1. Control!PayOfOthersKept(c)
    BY DEF Build, TypeOK, Control!PayOfOthersKept
  <1>2. \A d \in Cycle \ {c} : Phase(d)' = Phase(d)
    BY DEF Build, TypeOK, Phase, Closed
  <1>3. CASE c \in overwritten
    <2>1. Phase(c) = "void" /\ Phase(c)' = "void"
      BY <1>3 DEF Build, Phase
    <2>2. [d \in Cycle |-> Phase(d)]' = [d \in Cycle |-> Phase(d)]
      BY <1>2, <2>1
    <2>3. Control!ReworkVoid(c)
      BY <1>1, <2>1, <2>2 DEF Control!ReworkVoid
    <2> QED
      BY <2>3 DEF Control!Next
  <1>4. CASE c \notin overwritten
    <2>1. Phase(c) \in {"open", "approved"} /\ Phase(c)' = "open"
      BY <1>4 DEF Build, Buildable, TypeOK, CycleStatus, Phase, Closed
    <2>2. [d \in Cycle |-> Phase(d)]'
            = [[d \in Cycle |-> Phase(d)] EXCEPT ![c] = "open"]
      BY <1>2, <2>1
    <2>3. Control!Prepare(c)
      BY <1>1, <2>1, <2>2 DEF Control!Prepare
    <2> QED
      BY <2>3 DEF Control!Next
  <1> QED
    BY <1>3, <1>4

LEMMA OverrideRefines ==
    ASSUME TypeOK, TypeOK', NEW c \in Cycle, NEW w \in Worker,
           NEW m \in BOOLEAN, Override(c, w, m)
    PROVE  Control!Next
  <1>1. Control!PayOfOthersKept(c)
    BY DEF Override, TypeOK, Control!PayOfOthersKept
  <1>2. [d \in Cycle |-> Phase(d)]' = [d \in Cycle |-> Phase(d)]
    BY DEF Override, Phase, Closed
  <1>3. Phase(c) \in {"open", "void"}
    BY DEF Override, Overridable, Phase, Closed
  <1>4. CASE Phase(c) = "open"
    <2>1. [d \in Cycle |-> Phase(d)]'
            = [[d \in Cycle |-> Phase(d)] EXCEPT ![c] = "open"]
      BY <1>2, <1>4
    <2>2. Control!Prepare(c)
      BY <1>1, <1>4, <2>1 DEF Control!Prepare
    <2> QED
      BY <2>2 DEF Control!Next
  <1>5. CASE Phase(c) = "void"
    <2>1. Control!ReworkVoid(c)
      BY <1>1, <1>2, <1>5 DEF Control!ReworkVoid
    <2> QED
      BY <2>1 DEF Control!Next
  <1> QED
    BY <1>3, <1>4, <1>5

(* Approving and locking leave the pay alone and move the cycle, or, when  *)
(* it has been overwritten, nothing.                                       *)
LEMMA ApproveRefines ==
    ASSUME TypeOK, NEW c \in Cycle, NEW reason \in BOOLEAN, Approve(c, reason)
    PROVE  [Control!Next]_(Control!vars)
  <1>1. \A d \in Cycle \ {c} : Phase(d)' = Phase(d)
    BY DEF Approve, TypeOK, Phase, Closed
  <1>2. CASE c \in overwritten
    <2>1. Phase(c)' = Phase(c)
      BY <1>2 DEF Approve, Phase
    <2> QED
      BY <1>1, <2>1 DEF Approve, Control!vars
  <1>3. CASE c \notin overwritten
    <2>1. Phase(c) = "open" /\ Phase(c)' = "approved"
      BY <1>3 DEF Approve, TypeOK, Phase, Closed
    <2>2. [d \in Cycle |-> Phase(d)]'
            = [[d \in Cycle |-> Phase(d)] EXCEPT ![c] = "approved"]
      BY <1>1, <2>1
    <2>3. Control!Approve(c)
      BY <2>1, <2>2 DEF Approve, Control!Approve
    <2> QED
      BY <2>3 DEF Control!Next
  <1> QED
    BY <1>2, <1>3

LEMMA LockRefines ==
    ASSUME TypeOK, NEW c \in Cycle, LockPayroll(c)
    PROVE  [Control!Next]_(Control!vars)
  <1>1. \A d \in Cycle \ {c} : Phase(d)' = Phase(d)
    BY DEF LockPayroll, TypeOK, Phase, Closed
  <1>2. CASE c \in overwritten
    <2>1. Phase(c)' = Phase(c)
      BY <1>2 DEF LockPayroll, Phase
    <2> QED
      BY <1>1, <2>1 DEF LockPayroll, Control!vars
  <1>3. CASE c \notin overwritten
    <2>1. Phase(c) = "approved" /\ Phase(c)' = "locked"
      BY <1>3 DEF LockPayroll, TypeOK, Phase, Closed
    <2>2. [d \in Cycle |-> Phase(d)]'
            = [[d \in Cycle |-> Phase(d)] EXCEPT ![c] = "locked"]
      BY <1>1, <2>1
    <2>3. Control!Lock(c)
      BY <2>1, <2>2 DEF LockPayroll, Control!Lock
    <2> QED
      BY <2>3 DEF Control!Next
  <1> QED
    BY <1>2, <1>3

(* A PATCH or DELETE that overwrites a newer status voids the promise; one *)
(* that does not moves no phase: drafts and deleted cycles are open.       *)
LEMMA OverwriteRefines ==
    ASSUME TypeOK, NEW c \in Cycle, NEW old, NEW new,
           Overwrite(c, old, new), UNCHANGED line,
           new = old \/ (old = "draft" /\ new = "deleted")
    PROVE  [Control!Next]_(Control!vars)
  <1>1. \A d \in Cycle \ {c} : Phase(d)' = Phase(d)
    BY DEF Overwrite, TypeOK, Phase, Closed
  <1>2. CASE cycleStatus[c] = old \/ c \in overwritten
    <2>1. Phase(c)' = Phase(c)
      BY <1>2 DEF Overwrite, TypeOK, Phase, Closed
    <2> QED
      BY <1>1, <2>1 DEF Control!vars
  <1>3. CASE cycleStatus[c] # old /\ c \notin overwritten
    <2>1. Phase(c)' = "void"
      BY <1>3 DEF Overwrite, Phase
    <2>2. [d \in Cycle |-> Phase(d)]'
            = [[d \in Cycle |-> Phase(d)] EXCEPT ![c] = "void"]
      BY <1>1, <2>1
    <2>3. Control!Void(c)
      BY <2>2 DEF Control!Void
    <2> QED
      BY <2>3 DEF Control!Next
  <1> QED
    BY <1>2, <1>3

LEMMA NextRefines ==
    TypeOK /\ TypeOK' /\ [Next]_vars => [Control!Next]_(Control!vars)
  <1> SUFFICES ASSUME TypeOK, TypeOK', [Next]_vars
               PROVE  [Control!Next]_(Control!vars)
    OBVIOUS
  <1>1. ASSUME NEW c \in Cycle, CycleCreate(c)
        PROVE  UNCHANGED Control!vars
    <2>1. \A d \in Cycle : Phase(d)' = Phase(d)
      BY <1>1 DEF CycleCreate, TypeOK, Phase, Closed
    <2> QED
      BY <1>1, <2>1 DEF CycleCreate, Control!vars
  <1>2. ASSUME NEW r \in Request, EditSave(r)
        PROVE  [Control!Next]_(Control!vars)
    BY <1>2, EditTarget, OverwriteRefines DEF EditSave
  <1>3. ASSUME NEW r \in Request, DestroyCommit(r)
        PROVE  [Control!Next]_(Control!vars)
    <2>1. edit[r].cycle \in Cycle
      BY <1>3, EditTarget DEF DestroyCommit
    <2>2. CASE Overwrite(edit[r].cycle, "draft", "deleted")
      BY <1>3, <2>1, <2>2, OverwriteRefines DEF DestroyCommit
    <2>3. CASE UNCHANGED <<cycleStatus, overwritten>>
      BY <1>3, <2>3, Stutter DEF DestroyCommit
    <2> QED
      BY <1>3, <2>2, <2>3 DEF DestroyCommit
  <1>4. ASSUME NEW r \in Request,
               (\E c \in Cycle : EditRead(r, c) \/ DestroyRead(r, c)) \/ EditCheck(r)
        PROVE  UNCHANGED Control!vars
    BY <1>4, Stutter DEF EditRead, DestroyRead, EditCheck, cycleVars
  <1>5. ASSUME NEW a \in Advance, AdvanceStep(a)
        PROVE  UNCHANGED Control!vars
    BY <1>5, Stutter DEF AdvanceStep, DisburseRead, DisburseCommit, cycleVars
  <1>6. ASSUME NEW w \in Worker, WorkerStep(w)
        PROVE  UNCHANGED Control!vars
    BY <1>6, Stutter DEF WorkerStep, WageRecalculated, WorkerStatusChange, cycleVars
  <1>7. CASE UNCHANGED vars
    BY <1>7, Stutter DEF vars, cycleVars
  <1>8. ASSUME NEW c \in Cycle, CycleStep(c)
        PROVE  [Control!Next]_(Control!vars)
    BY <1>1, <1>8, BuildRefines, OverrideRefines, ApproveRefines, LockRefines
       DEF CycleStep
  <1>9. ASSUME NEW r \in Request, EditStep(r)
        PROVE  [Control!Next]_(Control!vars)
    BY <1>2, <1>3, <1>4, <1>9 DEF EditStep
  <1> QED
    BY <1>5, <1>6, <1>7, <1>8, <1>9 DEF Next

(* PayrollClose implements PayrollControl: pay is approved and locked as   *)
(* it stands, and a locked payroll never reopens, except where a stale     *)
(* PATCH or DELETE has overwritten the cycle.                              *)
THEOREM Controlled == Spec => CloseIsControlled
  BY InitRefines, NextRefines, Typing, PTL DEF Spec, CloseIsControlled, Control!Spec

-----------------------------------------------------------------------------
(* Closed payslips.  DeductionInv is what makes the properties inductive:  *)
(* an advance on a payslip has been disbursed into that cycle, so it can   *)
(* not be disbursed again, into another.                                   *)

DeductionInv ==
    \A c \in Cycle : \A w \in Worker : \A a \in line[c][w].advances :
        deductionCycle[a] = c /\ advanceStatus[a] \in {"disbursed", "deducted"}

IInv ==
    /\ TypeOK
    /\ BelowContractIsReasoned
    /\ DeductionInv
    /\ LockedDeductionsAreSettled

LEMMA InitInv == Init => IInv
  BY InitType DEF Init, IInv, BelowContractIsReasoned, DeductionInv,
     LockedDeductionsAreSettled, Closed, NoLine

LEMMA NextReasoned == IInv /\ [Next]_vars => BelowContractIsReasoned'
  <1> SUFFICES ASSUME IInv, [Next]_vars PROVE BelowContractIsReasoned'
    OBVIOUS
  <1> USE DEF IInv
  <1>1. ASSUME UNCHANGED <<cycleStatus, line, reasoned, overwritten>>
        PROVE  BelowContractIsReasoned'
    BY <1>1 DEF BelowContractIsReasoned, Closed
  <1>2. ASSUME NEW c \in Cycle, CycleCreate(c) \/ LockPayroll(c)
        PROVE  BelowContractIsReasoned'
    BY <1>2 DEF CycleCreate, LockPayroll, BelowContractIsReasoned, Closed, TypeOK
  <1>3. ASSUME NEW c \in Cycle, Build(c)
        PROVE  BelowContractIsReasoned'
    BY <1>3 DEF Build, BelowContractIsReasoned, Closed, TypeOK
  <1>4. ASSUME NEW c \in Cycle, NEW w \in Worker, NEW m \in BOOLEAN, Override(c, w, m)
        PROVE  BelowContractIsReasoned'
    BY <1>4 DEF Override, Overridable, BelowContractIsReasoned, Closed, TypeOK
  <1>5. ASSUME NEW c \in Cycle, NEW reason \in BOOLEAN, Approve(c, reason)
        PROVE  BelowContractIsReasoned'
    BY <1>5 DEF Approve, NeedsReason, BelowContractIsReasoned, Closed, TypeOK
  <1>6. ASSUME NEW c \in Cycle, NEW old, NEW new, Overwrite(c, old, new),
               new = old \/ (old = "draft" /\ new = "deleted"),
               UNCHANGED <<line, reasoned>>
        PROVE  BelowContractIsReasoned'
    BY <1>6 DEF Overwrite, BelowContractIsReasoned, Closed, TypeOK
  <1>7. ASSUME NEW r \in Request, EditSave(r)
        PROVE  BelowContractIsReasoned'
    BY <1>6, <1>7, EditTarget DEF EditSave
  <1>8. ASSUME NEW r \in Request, DestroyCommit(r)
        PROVE  BelowContractIsReasoned'
    BY <1>1, <1>6, <1>8, EditTarget DEF DestroyCommit
  <1>9. ASSUME NEW r \in Request,
               (\E c \in Cycle : EditRead(r, c) \/ DestroyRead(r, c)) \/ EditCheck(r)
        PROVE  BelowContractIsReasoned'
    BY <1>1, <1>9 DEF EditRead, DestroyRead, EditCheck, cycleVars
  <1>10. ASSUME NEW a \in Advance, AdvanceStep(a)
         PROVE  BelowContractIsReasoned'
    BY <1>1, <1>10 DEF AdvanceStep, DisburseRead, DisburseCommit, cycleVars
  <1>11. ASSUME NEW w \in Worker, WorkerStep(w)
         PROVE  BelowContractIsReasoned'
    BY <1>1, <1>11 DEF WorkerStep, WageRecalculated, WorkerStatusChange, cycleVars
  <1>12. CASE UNCHANGED vars
    BY <1>1, <1>12 DEF vars, cycleVars
  <1> QED
    BY <1>2, <1>3, <1>4, <1>5, <1>7, <1>8, <1>9, <1>10, <1>11, <1>12
       DEF Next, CycleStep, EditStep

LEMMA NextDeduction ==
    IInv /\ [Next]_vars => DeductionInv' /\ LockedDeductionsAreSettled'
  <1> SUFFICES ASSUME IInv, [Next]_vars
               PROVE  DeductionInv' /\ LockedDeductionsAreSettled'
    OBVIOUS
  <1> USE DEF IInv
  <1>1. ASSUME UNCHANGED <<cycleStatus, line, overwritten, advanceVars>>
        PROVE  DeductionInv' /\ LockedDeductionsAreSettled'
    BY <1>1 DEF DeductionInv, LockedDeductionsAreSettled, advanceVars
  <1>2. ASSUME NEW c \in Cycle,
               CycleCreate(c) \/ (\E reason \in BOOLEAN : Approve(c, reason))
        PROVE  DeductionInv' /\ LockedDeductionsAreSettled'
    BY <1>2 DEF CycleCreate, Approve, advanceVars, DeductionInv,
       LockedDeductionsAreSettled, TypeOK
  <1>3. ASSUME NEW c \in Cycle, Build(c)
        PROVE  DeductionInv' /\ LockedDeductionsAreSettled'
    <2>1. \A w \in Worker : BuiltLine(c, w).advances = Deductions(c, w)
      BY DEF BuiltLine
    <2>2. \A d \in Cycle : \A w \in Worker :
             \/ line'[d][w].advances = line[d][w].advances
             \/ d = c /\ line'[d][w].advances = Deductions(c, w)
      BY <1>3, <2>1 DEF Build, TypeOK
    <2>3. DeductionInv'
      BY <1>3, <2>2 DEF Build, advanceVars, DeductionInv, Deductions
    <2>4. \A d \in Cycle \ {c} : line'[d] = line[d] /\ cycleStatus'[d] = cycleStatus[d]
      BY <1>3 DEF Build, TypeOK
    <2>5. cycleStatus'[c] = "review"
      BY <1>3 DEF Build, TypeOK
    <2>6. LockedDeductionsAreSettled'
      BY <1>3, <2>4, <2>5 DEF Build, advanceVars, LockedDeductionsAreSettled
    <2> QED
      BY <2>3, <2>6
  <1>4. ASSUME NEW c \in Cycle, NEW w \in Worker, NEW m \in BOOLEAN, Override(c, w, m)
        PROVE  DeductionInv' /\ LockedDeductionsAreSettled'
    <2>1. \A d \in Cycle : \A v \in Worker : line'[d][v].advances = line[d][v].advances
      BY <1>4 DEF Override, WithManual, TypeOK
    <2> QED
      BY <1>4, <2>1 DEF Override, advanceVars, DeductionInv, LockedDeductionsAreSettled
  <1>5. ASSUME NEW c \in Cycle, LockPayroll(c)
        PROVE  DeductionInv' /\ LockedDeductionsAreSettled'
    <2>0. \A d \in Cycle : \A w \in Worker : line[d][w].advances \subseteq Advance
      BY DEF TypeOK, Line
    <2>1. DeductionInv'
      BY <1>5, <2>0 DEF LockPayroll, DeductionInv, DeductedByLock, TypeOK
    <2>2. \A w \in Worker : \A a \in line[c][w].advances : advanceStatus'[a] = "deducted"
      BY <1>5, <2>0 DEF LockPayroll, DeductionInv, DeductedByLock, TypeOK
    <2>3. LockedDeductionsAreSettled'
      BY <1>5, <2>0, <2>1, <2>2
         DEF LockPayroll, DeductionInv, LockedDeductionsAreSettled, DeductedByLock, TypeOK
    <2> QED
      BY <2>1, <2>3
  <1>6. ASSUME NEW a \in Advance, NEW c \in Cycle, DisburseCommit(a, c)
        PROVE  DeductionInv' /\ LockedDeductionsAreSettled'
    <2>0. \A d \in Cycle : \A w \in Worker : line[d][w].advances \subseteq Advance
      BY DEF TypeOK, Line
    <2>1. CASE Disbursable(a) /\ Exists(c)
      <3>1. \A d \in Cycle : \A w \in Worker : a \notin line[d][w].advances
        BY <2>1 DEF Disbursable, DeductionInv
      <3>2. \A b \in Advance \ {a} : advanceStatus'[b] = advanceStatus[b]
                                     /\ deductionCycle'[b] = deductionCycle[b]
        BY <1>6, <2>1 DEF DisburseCommit, TypeOK
      <3> QED
        BY <1>6, <2>0, <3>1, <3>2 DEF DisburseCommit, cycleVars, DeductionInv,
           LockedDeductionsAreSettled
    <2>2. CASE ~(Disbursable(a) /\ Exists(c))
      BY <1>1, <1>6, <2>2 DEF DisburseCommit, cycleVars
    <2> QED
      BY <2>1, <2>2
  <1>7. ASSUME NEW c \in Cycle, NEW old, NEW new, Overwrite(c, old, new),
               new = old \/ (old = "draft" /\ new = "deleted"),
               UNCHANGED <<line, advanceVars>>
        PROVE  DeductionInv' /\ LockedDeductionsAreSettled'
    BY <1>7 DEF Overwrite, advanceVars, DeductionInv, LockedDeductionsAreSettled, TypeOK
  <1>8. ASSUME NEW r \in Request, EditSave(r) \/ DestroyCommit(r)
        PROVE  DeductionInv' /\ LockedDeductionsAreSettled'
    <2>1. edit[r].cycle \in Cycle
      BY <1>8, EditTarget DEF EditSave, DestroyCommit
    <2> QED
      BY <1>1, <1>7, <1>8, <2>1 DEF EditSave, DestroyCommit
  <1>9. ASSUME NEW r \in Request,
               (\E c \in Cycle : EditRead(r, c) \/ DestroyRead(r, c)) \/ EditCheck(r)
        PROVE  DeductionInv' /\ LockedDeductionsAreSettled'
    BY <1>1, <1>9 DEF EditRead, DestroyRead, EditCheck, cycleVars
  <1>10. ASSUME NEW a \in Advance, NEW c \in Cycle, DisburseRead(a, c)
         PROVE  DeductionInv' /\ LockedDeductionsAreSettled'
    BY <1>1, <1>10 DEF DisburseRead, cycleVars
  <1>11. ASSUME NEW w \in Worker, WorkerStep(w)
         PROVE  DeductionInv' /\ LockedDeductionsAreSettled'
    BY <1>1, <1>11 DEF WorkerStep, WageRecalculated, WorkerStatusChange, cycleVars
  <1>12. CASE UNCHANGED vars
    BY <1>1, <1>12 DEF vars, cycleVars
  <1> QED
    BY <1>2, <1>3, <1>4, <1>5, <1>6, <1>8, <1>9, <1>10, <1>11, <1>12
       DEF Next, CycleStep, EditStep, AdvanceStep

LEMMA Invariance == Spec => []IInv
  <1>1. IInv /\ [Next]_vars => IInv'
    BY NextType, NextReasoned, NextDeduction DEF IInv
  <1> QED
    BY InitInv, <1>1, PTL DEF Spec

(* Approved and locked payrolls below the contract carry the reason.       *)
THEOREM Reasoned == Spec => []BelowContractIsReasoned
  <1>1. IInv => BelowContractIsReasoned
    BY DEF IInv
  <1> QED
    BY Invariance, <1>1, PTL

(* What a locked payslip deducts is settled.                               *)
THEOREM Settled == Spec => []LockedDeductionsAreSettled
  <1>1. IInv => LockedDeductionsAreSettled
    BY DEF IInv
  <1> QED
    BY Invariance, <1>1, PTL

(* No advance is on the payslips of two cycles.                            *)
THEOREM DeductedOnce == Spec => []DeductedInOneCycle
  <1>1. IInv => DeductedInOneCycle
    BY DEF IInv, DeductionInv, DeductedInOneCycle
  <1> QED
    BY Invariance, <1>1, PTL
=============================================================================
