-------------------------------- MODULE Disputes --------------------------------
(***************************************************************************)
(* Disputes from the submission to the decision, the payroll adjustments   *)
(* they create, and the payroll lock that asks whether any is unresolved.  *)
(*                                                                         *)
(* resolve and reject read and write under the row lock of the dispute, so *)
(* each is one action.  escalate reads the row without a lock, checks what *)
(* it has read and saves every column of it.                               *)
(***************************************************************************)
EXTENDS Integers, FiniteSets

CONSTANTS
    Dispute,        \* the disputes dated in the period of the payroll
    WithLine,       \* the disputes that name a payroll line
    Request,        \* escalations that may be in progress at once
    MaxAdjustments  \* bound: adjustments created for one dispute

ASSUME WithLineAssumption == WithLine \subseteq Dispute
ASSUME RequestAssumption == IsFiniteSet(Request)
ASSUME MaxAdjustmentsAssumption == MaxAdjustments \in Nat

(* No code sets OPEN; "none" is no row. *)
Status == {"none", "supervisor_review", "hr_review", "resolved", "rejected"}

VARIABLES
    status,       \* Dispute.status
    linked,       \* linked_adjustment: 0, or which of its adjustments
    adjustments,  \* how many PayrollAdjustments its resolutions have created
    escalating,   \* escalations: none, or the copy of the row it has read
    staleSaves,   \* escalations that saved over a closed row of the dispute
    closing,      \* lock_payroll of the period: "idle", "ready" or "locked"
    late          \* disputes raised since the lock counted the unresolved

disputeVars == <<status, linked, adjustments>>
vars == <<disputeVars, escalating, staleSaves, closing, late>>

(* The dispute has been decided. *)
Closed(d) == status[d] \in {"resolved", "rejected"}

Raised(d) == status[d] # "none"

-----------------------------------------------------------------------------
(* A worker with a supervisor starts there, else with HR; from the portal  *)
(* always with a supervisor.                                               *)
Create(d, first) ==
    /\ ~Raised(d)
    /\ status' = [status EXCEPT ![d] = first]
    /\ late' = IF closing = "idle" THEN late ELSE late \cup {d}
    /\ UNCHANGED <<linked, adjustments, escalating, staleSaves, closing>>

EscalatableUnlessClosed(d) == Raised(d) /\ ~Closed(d)

EscalatableAny(d) == Raised(d)

Escalatable(d) == status[d] = "supervisor_review"

EscalateRead(r, d) ==
    /\ escalating[r] = {}
    /\ Escalatable(d)
    /\ escalating' = [escalating EXCEPT ![r] = {[about |-> d, linked |-> linked[d]]}]
    /\ UNCHANGED <<disputeVars, staleSaves, closing, late>>

(* dispute.save(): the resolution and the link are those it has read. *)
EscalateSave(r, copy) ==
    /\ status' = [status EXCEPT ![copy.about] = "hr_review"]
    /\ linked' = [linked EXCEPT ![copy.about] = copy.linked]
    /\ escalating' = [escalating EXCEPT ![r] = {}]
    /\ staleSaves' = [staleSaves EXCEPT
                        ![copy.about] = IF Closed(copy.about) THEN @ \cup {r} ELSE @]
    /\ UNCHANGED <<adjustments, closing, late>>

DecidableAgain(d) == Raised(d)

(* "This dispute is already closed." *)
Decidable(d) == Raised(d) /\ ~Closed(d)

Adjusted(d) == adjustments[d] + 1

Resolve(d) ==
    /\ Decidable(d)
    /\ status' = [status EXCEPT ![d] = "resolved"]
    /\ UNCHANGED <<linked, adjustments, escalating, staleSaves, closing, late>>

ResolveWithAdjustment(d) ==
    /\ Decidable(d)
    /\ d \in WithLine
    /\ adjustments[d] < MaxAdjustments
    /\ status' = [status EXCEPT ![d] = "resolved"]
    /\ adjustments' = [adjustments EXCEPT ![d] = Adjusted(d)]
    /\ linked' = [linked EXCEPT ![d] = Adjusted(d)]
    /\ UNCHANGED <<escalating, staleSaves, closing, late>>

Reject(d) ==
    /\ Decidable(d)
    /\ status' = [status EXCEPT ![d] = "rejected"]
    /\ UNCHANGED <<linked, adjustments, escalating, staleSaves, closing, late>>

(* DELETE of a PayrollAdjustment sets the link to it to null (SET_NULL). *)
AdjustmentDelete(d) ==
    /\ linked[d] # 0
    /\ linked' = [linked EXCEPT ![d] = 0]
    /\ UNCHANGED <<status, adjustments, escalating, staleSaves, closing, late>>

-----------------------------------------------------------------------------
(* lock_payroll, as far as disputes go: it counts the unresolved ones of   *)
(* the period and commits later.                                           *)

UnresolvedNotEscalated == {d \in Dispute : status[d] = "supervisor_review"}

Unresolved == {d \in Dispute : Raised(d) /\ ~Closed(d)}

LockCheck ==
    /\ closing = "idle"
    /\ Unresolved = {}
    /\ closing' = "ready"
    /\ UNCHANGED <<disputeVars, escalating, staleSaves, late>>

LockCommit ==
    /\ closing = "ready"
    /\ closing' = "locked"
    /\ UNCHANGED <<disputeVars, escalating, staleSaves, late>>

LockRollBack ==
    /\ closing = "ready"
    /\ closing' = "idle"
    /\ late' = {}
    /\ UNCHANGED <<disputeVars, escalating, staleSaves>>

-----------------------------------------------------------------------------
Init ==
    /\ status = [d \in Dispute |-> "none"]
    /\ linked = [d \in Dispute |-> 0]
    /\ adjustments = [d \in Dispute |-> 0]
    /\ escalating = [r \in Request |-> {}]
    /\ staleSaves = [d \in Dispute |-> {}]
    /\ closing = "idle"
    /\ late = {}

DecisionStep(d) == Resolve(d) \/ ResolveWithAdjustment(d) \/ Reject(d)

LockStep == LockCheck \/ LockCommit \/ LockRollBack

Next ==
    \/ \E d \in Dispute, first \in {"supervisor_review", "hr_review"} : Create(d, first)
    \/ \E d \in Dispute : DecisionStep(d) \/ AdjustmentDelete(d)
    \/ \E r \in Request :
          \/ \E d \in Dispute : EscalateRead(r, d)
          \/ \E copy \in escalating[r] : EscalateSave(r, copy)
    \/ LockStep

Spec == Init /\ [][Next]_vars

-----------------------------------------------------------------------------
(* Properties *)

(* Types; what an escalation has read was under review and not adjusted.   *)
TypeOK ==
    /\ status \in [Dispute -> Status]
    /\ linked \in [Dispute -> 0 .. MaxAdjustments]
    /\ adjustments \in [Dispute -> 0 .. MaxAdjustments]
    /\ escalating \in [Request -> SUBSET [about : Dispute, linked : {0}]]
    /\ staleSaves \in [Dispute -> SUBSET Request]
    /\ closing \in {"idle", "ready", "locked"}
    /\ late \in SUBSET Dispute

(* A dispute is paid for once.  Only an escalation that read the case      *)
(* before it was decided, and saved it afterwards, lets it be resolved     *)
(* with an adjustment again, and each such escalation lets it once.        *)
AdjustedOncePerDecision ==
    \A d \in Dispute : adjustments[d] <= 1 + Cardinality(staleSaves[d])

(* A decision of HR is final: concurrent resolutions and rejections of one *)
(* dispute do not replace each other, and no step but a stale save of an   *)
(* escalation reopens a closed dispute or gives it another adjustment; the *)
(* link to its adjustment goes only with the adjustment.                   *)
FinalStep ==
    \A d \in Dispute :
        Closed(d) /\ staleSaves'[d] = staleSaves[d] =>
            /\ status'[d] = status[d]
            /\ linked'[d] \in {linked[d], 0}
            /\ adjustments'[d] = adjustments[d]

DecisionIsFinal == [][FinalStep]_vars

(* A payroll is not locked over a dispute: those of its period that were   *)
(* raised before it counted them are closed, unless a stale save reopened  *)
(* them.                                                                   *)
LockedPeriodIsSettled ==
    \A d \in Dispute \ late :
        closing # "idle" /\ status[d] # "none" /\ staleSaves[d] = {} =>
            status[d] \in {"resolved", "rejected"}

(* A closed dispute is never taken up again: "Only an open supervisor case *)
(* can be escalated." (escalate).                                          *)
ClosedIsFinal ==
    [][\A d \in Dispute : Closed(d) => status'[d] = status[d]]_vars
=============================================================================
