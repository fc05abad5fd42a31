---------------------------- MODULE BackOfficeProofs ----------------------------
(* Theorems about the components that MCBackOffice checks together:        *)
(* disputes, memberships and the wage arithmetic, each under its own       *)
(* specification and for every value of its constants.                     *)
EXTENDS MCBackOffice, SetSums, TLAPS

-----------------------------------------------------------------------------
(* DISPUTES: any disputes and any number of concurrent escalations.        *)

(* Before it is escalated or decided a dispute is untouched, and until it  *)
(* is decided each of its adjustments has a stale save to answer for it.   *)
CaseInv ==
    \A d \in Dispute :
        /\ status[d] \in {"none", "supervisor_review"} =>
              adjustments[d] = 0 /\ linked[d] = 0 /\ staleSaves[d] = {}
        /\ ~Closed(d) => adjustments[d] <= Cardinality(staleSaves[d])

(* An escalation that has not saved yet has no stale save to its name.     *)
CopyInv ==
    \A r \in Request : \A copy \in escalating[r] :
        Raised(copy.about) /\ r \notin staleSaves[copy.about]

DisputesInv ==
    /\ TypeOK
    /\ CaseInv
    /\ CopyInv
    /\ AdjustedOncePerDecision
    /\ LockedPeriodIsSettled

-----------------------------------------------------------------------------
(* Stale saves are counted in the natural numbers, one more at a time. *)
LEMMA SavesCounted ==
    ASSUME NEW S \in SUBSET Request
    PROVE  IsFiniteSet(S) /\ Cardinality(S) \in Nat
  BY RequestAssumption, FS_Subset, FS_CardinalityType

LEMMA OneSaveMore ==
    ASSUME NEW S \in SUBSET Request, NEW r \in Request, r \notin S
    PROVE  Cardinality(S \cup {r}) = Cardinality(S) + 1
  BY SavesCounted, FS_AddElement

-----------------------------------------------------------------------------
LEMMA DisputesInitInv == Init => DisputesInv
  <1> SUFFICES ASSUME Init PROVE DisputesInv
    OBVIOUS
  <1>1. Cardinality({}) = 0
    BY FS_EmptySet
  <1>2. TypeOK
    BY MaxAdjustmentsAssumption DEF Init, TypeOK, Status
  <1>3. CaseInv /\ CopyInv /\ AdjustedOncePerDecision /\ LockedPeriodIsSettled
    BY <1>1 DEF Init, CaseInv, CopyInv, AdjustedOncePerDecision,
                LockedPeriodIsSettled, Closed
  <1> QED
    BY <1>2, <1>3 DEF DisputesInv

LEMMA CreateInv ==
    ASSUME DisputesInv, NEW d \in Dispute, NEW first \in {"supervisor_review", "hr_review"},
           Create(d, first)
    PROVE  DisputesInv'
  <1> USE DEF DisputesInv, Create, Raised
  <1>0. Cardinality({}) = 0
    BY FS_EmptySet
  <1>1. TypeOK'
    BY DEF TypeOK, Status
  <1>2. CaseInv'
    BY <1>0 DEF TypeOK, CaseInv, Closed
  <1>3. CopyInv'
    BY DEF TypeOK, CopyInv
  <1>4. AdjustedOncePerDecision'
    BY DEF AdjustedOncePerDecision
  <1>5. LockedPeriodIsSettled'
    BY DEF TypeOK, LockedPeriodIsSettled
  <1> QED
    BY <1>1, <1>2, <1>3, <1>4, <1>5

LEMMA DecisionInv ==
    ASSUME DisputesInv, NEW d \in Dispute,
           Resolve(d) \/ ResolveWithAdjustment(d) \/ Reject(d)
    PROVE  DisputesInv'
  <1> USE DEF DisputesInv, Decidable
  <1>1. Raised(d) /\ ~Closed(d)
    BY DEF Resolve, ResolveWithAdjustment, Reject
  <1>2. /\ status' \in {[status EXCEPT ![d] = "resolved"], [status EXCEPT ![d] = "rejected"]}
        /\ UNCHANGED <<escalating, staleSaves, closing, late>>
    BY DEF Resolve, ResolveWithAdjustment, Reject
  <1>3. TypeOK'
    <2>1. CASE UNCHANGED <<linked, adjustments>>
      BY <1>2, <2>1 DEF TypeOK, Status
    <2>2. CASE ResolveWithAdjustment(d)
      <3>1. Adjusted(d) \in 0 .. MaxAdjustments
        BY <2>2, MaxAdjustmentsAssumption DEF ResolveWithAdjustment, Adjusted, TypeOK
      <3> QED
        BY <1>2, <2>2, <3>1 DEF ResolveWithAdjustment, TypeOK, Status
    <2> QED
      BY <2>1, <2>2 DEF Resolve, Reject
  <1>4. adjustments'[d] <= 1 + Cardinality(staleSaves[d])
    <2>1. adjustments[d] <= Cardinality(staleSaves[d])
      BY <1>1 DEF CaseInv
    <2>2. Cardinality(staleSaves[d]) \in Nat /\ adjustments[d] \in Int
      BY SavesCounted, MaxAdjustmentsAssumption DEF TypeOK
    <2>3. adjustments'[d] \in {adjustments[d], adjustments[d] + 1}
      BY DEF Resolve, ResolveWithAdjustment, Reject, Adjusted, TypeOK
    <2> QED
      BY <2>1, <2>2, <2>3
  <1>5. \A e \in Dispute \ {d} : /\ status'[e] = status[e]
                                 /\ adjustments'[e] = adjustments[e]
                                 /\ linked'[e] = linked[e]
    BY <1>2 DEF Resolve, ResolveWithAdjustment, Reject, TypeOK
  <1>6. status'[d] \in {"resolved", "rejected"}
    BY <1>2 DEF TypeOK
  <1>7. CaseInv'
    BY <1>2, <1>5, <1>6 DEF CaseInv, Closed
  <1>8. CopyInv'
    <2>1. \A e \in Dispute : Raised(e) => status'[e] # "none"
      BY <1>5, <1>6 DEF Raised
    <2> QED
      BY <1>2, <2>1 DEF CopyInv, Raised, TypeOK
  <1>9. AdjustedOncePerDecision'
    BY <1>2, <1>4, <1>5 DEF AdjustedOncePerDecision
  <1>10. LockedPeriodIsSettled'
    BY <1>2, <1>5, <1>6 DEF LockedPeriodIsSettled
  <1> QED
    BY <1>3, <1>7, <1>8, <1>9, <1>10

LEMMA EscalateReadInv ==
    ASSUME DisputesInv, NEW r \in Request, NEW d \in Dispute, EscalateRead(r, d)
    PROVE  DisputesInv'
  <1> USE DEF DisputesInv, EscalateRead, Escalatable, disputeVars
  <1>1. linked[d] = 0 /\ staleSaves[d] = {}
    BY DEF CaseInv
  <1>2. TypeOK'
    BY <1>1 DEF TypeOK
  <1>3. CopyInv'
    BY <1>1 DEF TypeOK, CopyInv, Raised
  <1>4. CaseInv' /\ AdjustedOncePerDecision' /\ LockedPeriodIsSettled'
    BY DEF CaseInv, AdjustedOncePerDecision, LockedPeriodIsSettled, Closed
  <1> QED
    BY <1>2, <1>3, <1>4

LEMMA EscalateSaveInv ==
    ASSUME DisputesInv, NEW r \in Request, NEW copy \in escalating[r], EscalateSave(r, copy)
    PROVE  DisputesInv'
  <1> DEFINE d == copy.about
  <1> USE DEF DisputesInv, EscalateSave
  <1>1. d \in Dispute /\ copy.linked = 0
    BY DEF TypeOK
  <1>2. Raised(d) /\ r \notin staleSaves[d]
    BY DEF CopyInv
  <1>3. /\ status'[d] = "hr_review"
        /\ staleSaves'[d] = IF Closed(d) THEN staleSaves[d] \cup {r} ELSE staleSaves[d]
        /\ \A e \in Dispute \ {d} : status'[e] = status[e] /\ linked'[e] = linked[e]
                                    /\ staleSaves'[e] = staleSaves[e]
        /\ adjustments' = adjustments
    BY <1>1 DEF TypeOK
  <1>4. TypeOK'
    BY <1>1, MaxAdjustmentsAssumption DEF TypeOK, Status
  <1>5. adjustments[d] <= Cardinality(staleSaves'[d])
    <2>1. /\ staleSaves[d] \in SUBSET Request
          /\ adjustments[d] \in Int
      BY <1>1, MaxAdjustmentsAssumption DEF TypeOK
    <2>2. CASE Closed(d)
      <3>1. Cardinality(staleSaves[d]) \in Nat
            /\ Cardinality(staleSaves'[d]) = Cardinality(staleSaves[d]) + 1
        BY <1>2, <1>3, <2>1, <2>2, SavesCounted, OneSaveMore
      <3> QED
        BY <1>1, <2>1, <3>1 DEF AdjustedOncePerDecision
    <2>3. CASE ~Closed(d)
      BY <1>1, <1>3, <2>3 DEF CaseInv
    <2> QED
      BY <2>2, <2>3
  <1>6. CaseInv'
    BY <1>3, <1>5 DEF CaseInv, Closed
  <1>7. CopyInv'
    <2> SUFFICES ASSUME NEW q \in Request, NEW c \in escalating'[q]
                 PROVE  status'[c.about] # "none" /\ q \notin staleSaves'[c.about]
      BY DEF CopyInv, Raised
    <2>1. q # r /\ c \in escalating[q]
      BY DEF TypeOK
    <2>2. c.about \in Dispute /\ status[c.about] # "none" /\ q \notin staleSaves[c.about]
      BY <2>1 DEF CopyInv, TypeOK, Raised
    <2> QED
      BY <1>3, <2>1, <2>2
  <1>8. AdjustedOncePerDecision'
    <2>1. Cardinality(staleSaves'[d]) \in Nat /\ adjustments[d] \in Int
      BY <1>1, <1>4, SavesCounted, MaxAdjustmentsAssumption DEF TypeOK
    <2> QED
      BY <1>3, <1>5, <2>1 DEF AdjustedOncePerDecision
  <1>9. LockedPeriodIsSettled'
    <2>1. ASSUME closing # "idle", d \notin late, staleSaves'[d] = {} PROVE FALSE
      <3>1. ~Closed(d) /\ staleSaves[d] = {}
        BY <1>3, <2>1
      <3> QED
        BY <1>1, <1>2, <2>1, <3>1 DEF LockedPeriodIsSettled, Raised, Closed
    <2> QED
      BY <1>3, <2>1 DEF LockedPeriodIsSettled
  <1> QED
    BY <1>4, <1>6, <1>7, <1>8, <1>9

LEMMA AdjustmentDeleteInv ==
    ASSUME DisputesInv, NEW d \in Dispute, AdjustmentDelete(d)
    PROVE  DisputesInv'
  <1> USE DEF DisputesInv, AdjustmentDelete
  <1>1. TypeOK'
    BY MaxAdjustmentsAssumption DEF TypeOK
  <1>2. CaseInv'
    BY DEF TypeOK, CaseInv, Closed
  <1>3. CopyInv' /\ AdjustedOncePerDecision' /\ LockedPeriodIsSettled'
    BY DEF CopyInv, Raised, AdjustedOncePerDecision, LockedPeriodIsSettled
  <1> QED
    BY <1>1, <1>2, <1>3

LEMMA LockInv ==
    ASSUME DisputesInv, LockStep
    PROVE  DisputesInv'
  <1> USE DEF DisputesInv, LockStep, LockCheck, LockCommit, LockRollBack, disputeVars
  <1>1. UNCHANGED <<status, linked, adjustments, escalating, staleSaves>>
    OBVIOUS
  <1>2. TypeOK'
    BY DEF TypeOK
  <1>3. CaseInv' /\ CopyInv' /\ AdjustedOncePerDecision'
    BY <1>1 DEF CaseInv, CopyInv, AdjustedOncePerDecision, Closed, Raised
  <1>4. LockedPeriodIsSettled'
    BY DEF LockedPeriodIsSettled, Unresolved, Raised, Closed
  <1> QED
    BY <1>2, <1>3, <1>4

LEMMA DisputesNextInv == DisputesInv /\ [Next]_vars => DisputesInv'
  <1> SUFFICES ASSUME DisputesInv, [Next]_vars PROVE DisputesInv'
    OBVIOUS
  <1>1. UNCHANGED vars => DisputesInv'
    BY DEF vars, disputeVars, DisputesInv, TypeOK, CaseInv, CopyInv, Closed, Raised,
           AdjustedOncePerDecision, LockedPeriodIsSettled
  <1>2. CASE \E d \in Dispute, first \in {"supervisor_review", "hr_review"} :
                 Create(d, first)
    BY <1>2, CreateInv
  <1>3. CASE \E d \in Dispute : DecisionStep(d)
    BY <1>3, DecisionInv DEF DecisionStep
  <1>4. CASE \E r \in Request : \E d \in Dispute : EscalateRead(r, d)
    BY <1>4, EscalateReadInv
  <1>5. CASE \E r \in Request : \E copy \in escalating[r] : EscalateSave(r, copy)
    BY <1>5, EscalateSaveInv
  <1>6. CASE LockStep
    BY <1>6, LockInv
  <1>7. CASE \E d \in Dispute : AdjustmentDelete(d)
    BY <1>7, AdjustmentDeleteInv
  <1> QED
    BY <1>1, <1>2, <1>3, <1>4, <1>5, <1>6, <1>7 DEF Next

LEMMA DisputesInductive == Spec => []DisputesInv
  BY DisputesInitInv, DisputesNextInv, PTL DEF Spec

-----------------------------------------------------------------------------
(* Types: an escalation never carries the link of an adjustment (Dispute). *)
THEOREM DisputesTyping == Spec => []TypeOK
  <1>1. DisputesInv => TypeOK
    BY DEF DisputesInv
  <1> QED
    BY <1>1, DisputesInductive, PTL

(* However many escalations and decisions run at once, a dispute has at    *)
(* most one adjustment more than stale escalations (resolve).              *)
THEOREM AdjustedOnce == Spec => []AdjustedOncePerDecision
  <1>1. DisputesInv => AdjustedOncePerDecision
    BY DEF DisputesInv
  <1> QED
    BY <1>1, DisputesInductive, PTL

(* No payroll is locked over a dispute raised before it counted them, but  *)
(* for one a stale save has reopened (payroll_readiness).                  *)
THEOREM LockedSettled == Spec => []LockedPeriodIsSettled
  <1>1. DisputesInv => LockedPeriodIsSettled
    BY DEF DisputesInv
  <1> QED
    BY <1>1, DisputesInductive, PTL

(* Decisions are final but for stale saves (resolve, reject). *)
THEOREM Final == Spec => DecisionIsFinal
  <1>1. DisputesInv /\ [Next]_vars => [FinalStep]_vars
    <2> SUFFICES ASSUME DisputesInv, [Next]_vars PROVE [FinalStep]_vars
      OBVIOUS
    <2> USE DEF DisputesInv, FinalStep
    <2>1. ASSUME NEW d \in Dispute, NEW first \in {"supervisor_review", "hr_review"},
                 Create(d, first)
          PROVE  FinalStep
      BY <2>1 DEF Create, Raised, Closed, TypeOK
    <2>2. ASSUME NEW d \in Dispute, Resolve(d) \/ ResolveWithAdjustment(d) \/ Reject(d)
          PROVE  FinalStep
      BY <2>2 DEF Resolve, ResolveWithAdjustment, Reject, Decidable, Closed, TypeOK
    <2>3. ASSUME NEW r \in Request, NEW copy \in escalating[r], EscalateSave(r, copy)
          PROVE  FinalStep
      <3>1. copy.about \in Dispute /\ r \notin staleSaves[copy.about]
        BY DEF TypeOK, CopyInv
      <3>2. Closed(copy.about) => r \in staleSaves'[copy.about]
        BY <2>3, <3>1 DEF EscalateSave, TypeOK
      <3> QED
        BY <2>3, <3>1, <3>2 DEF EscalateSave, TypeOK
    <2>4. ASSUME NEW d \in Dispute, AdjustmentDelete(d) PROVE FinalStep
      BY <2>4 DEF AdjustmentDelete, TypeOK
    <2>5. ASSUME UNCHANGED <<status, linked, adjustments>> PROVE FinalStep
      BY <2>5
    <2> QED
      BY <2>1, <2>2, <2>3, <2>4, <2>5 DEF Next, DecisionStep, LockStep, EscalateRead,
         LockCheck, LockCommit, LockRollBack, disputeVars
  <1> QED
    BY <1>1, DisputesInductive, PTL DEF Spec, DecisionIsFinal

-----------------------------------------------------------------------------
(* MEMBERSHIPS: any members, and any requests at once.                     *)

Owning == Access("owner", TRUE)

(* A request has one target, whose row it copied; as long as nobody else   *)
(* wrote that row the copy is what is there, and a checked PATCH of anyone *)
(* but an owner neither is of nor gives privileges.                        *)
CallInv ==
    \A q \in Call : \A c \in call[q] :
        /\ \A b \in call[q] : b = c
        /\ c.stage = "admitted" => c.target = {}
        /\ \A m \in c.target : c.target = {m}
        /\ c.fresh => \A m \in c.target : c.copy = member[m] /\ member[m] # {}
        /\ c.stage = "patch" /\ c.actor # "owner" =>
              \A to \in c.to : \/ to.role \notin Privileged
                               \/ \E row \in c.copy : row.role = to.role
        /\ c.stage = "save" /\ c.fresh /\ c.actor # "owner" =>
              \A to \in c.to : to.role \notin Privileged

(* Removals of owners that overlap are remembered as such. *)
OneRemoval == overlapped \/ \A p, q \in Removing : p = q

(* Nothing that excuses the loss of the last owner has happened. *)
Orderly == ~patchedOut /\ ~overlapped /\ restored = {}

(* An owner's removal that was checked leaves another owner. *)
AnotherOwner ==
    Orderly =>
        \A q \in Call : \A c \in call[q] :
            c.stage = "removal" /\ Owning \in c.copy =>
                \E m \in ActiveOwners : m \notin c.target

(* With a founder to begin with. *)
OwnerLeft == Founder \cap Member # {} => RemovalsLeaveAnOwner

AccountsInv ==
    /\ AccountsTypeOK /\ CallInv
    /\ PrivilegesComeFromOwners
    /\ OneRemoval /\ AnotherOwner /\ OwnerLeft

-----------------------------------------------------------------------------
LEMMA CallAt ==
    ASSUME AccountsTypeOK, NEW q \in Call, NEW c \in call[q]
    PROVE  /\ c \in Serving
           /\ c.actor \in Privileged
           /\ c.target \in SUBSET Member
           /\ c.copy \in SUBSET AccessRow /\ c.to \in SUBSET AccessRow
           /\ c.fresh \in BOOLEAN
  BY DEF AccountsTypeOK, Serving

LEMMA ServesTyped ==
    ASSUME AccountsTypeOK, NEW q \in Call, NEW to \in Serving, Serves(q, to)
    PROVE  /\ call' \in [Call -> SUBSET Serving]
           /\ call'[q] = {to}
           /\ \A p \in Call \ {q} : call'[p] = call[p]
  BY DEF AccountsTypeOK, Serves

LEMMA OverTyped ==
    ASSUME AccountsTypeOK, NEW q \in Call, Over(q)
    PROVE  /\ call' \in [Call -> SUBSET Serving]
           /\ call'[q] = {}
           /\ \A p \in Call \ {q} : call'[p] = call[p]
  BY DEF AccountsTypeOK, Over

(* A write ends its request, and takes the freshness of the others' copies.*)
LEMMA WroteTyped ==
    ASSUME AccountsTypeOK, NEW q \in Call, NEW m \in Member, Wrote(q, m)
    PROVE  /\ call' \in [Call -> SUBSET Serving]
           /\ call'[q] = {}
           /\ \A p \in Call : \A c \in call'[p] : \E b \in call[p] :
                 /\ p # q
                 /\ c.actor = b.actor /\ c.stage = b.stage /\ c.target = b.target
                 /\ c.copy = b.copy /\ c.to = b.to
                 /\ c.fresh => b.fresh /\ m \notin b.target
           /\ \A p \in Call : (\A b, c \in call[p] : b = c) => \A b, c \in call'[p] : b = c
  <1> DEFINE seen(c) == [c EXCEPT !.fresh = @ /\ m \notin c.target]
  <1>1. \A p \in Call : \A c \in call[p] :
           /\ seen(c) \in Serving
           /\ seen(c).actor = c.actor /\ seen(c).stage = c.stage /\ seen(c).target = c.target
           /\ seen(c).copy = c.copy /\ seen(c).to = c.to
           /\ seen(c).fresh => c.fresh /\ m \notin c.target
    BY CallAt DEF Serving
  <1>2. call'[q] = {} /\ \A p \in Call \ {q} : call'[p] = {seen(c) : c \in call[p]}
    BY DEF Wrote
  <1>3. DOMAIN call' = Call /\ call' = [p \in Call |-> call'[p]]
    BY DEF Wrote
  <1> HIDE DEF seen
  <1>4. \A p \in Call : call'[p] \in SUBSET Serving
    BY <1>1, <1>2
  <1>5. call' \in [Call -> SUBSET Serving]
    BY <1>3, <1>4
  <1>6. \A p \in Call : \A c \in call'[p] : \E b \in call[p] : p # q /\ c = seen(b)
    BY <1>2
  <1>7. ASSUME NEW p \in Call, \A b, c \in call[p] : b = c
        PROVE  \A b, c \in call'[p] : b = c
    BY <1>6, <1>7
  <1> QED
    BY <1>1, <1>2, <1>5, <1>6, <1>7

-----------------------------------------------------------------------------
(* Steps that change no membership *)

(* What holds of requests that no step of their own moves. *)
LEMMA MembersUntouched ==
    ASSUME AccountsInv, NEW q \in Call,
           \A p \in Call \ {q} : call'[p] = call[p],
           UNCHANGED <<member, grantor, restored, patchedOut>>, overlapped => overlapped',
           \A c \in call'[q] :
              /\ \A b \in call'[q] : b = c
              /\ c.stage = "admitted" => c.target = {}
              /\ \A m \in c.target : c.target = {m}
              /\ c.fresh => \A m \in c.target : c.copy = member[m] /\ member[m] # {}
              /\ c.stage = "patch" /\ c.actor # "owner" =>
                    \A to \in c.to : \/ to.role \notin Privileged
                                     \/ \E row \in c.copy : row.role = to.role
              /\ c.stage = "save" /\ c.fresh /\ c.actor # "owner" =>
                    \A to \in c.to : to.role \notin Privileged,
           overlapped' \/ q \notin Removing' \/ Removing = {},
           \A c \in call'[q] : c.stage = "removal" /\ Owning \in c.copy =>
              \E m \in ActiveOwners : m \notin c.target
    PROVE  /\ CallInv' /\ PrivilegesComeFromOwners'
           /\ OneRemoval' /\ AnotherOwner' /\ OwnerLeft'
  <1> USE DEF AccountsInv
  <1>1. CallInv'
    <2> SUFFICES ASSUME NEW p \in Call, NEW c \in call'[p]
                 PROVE  /\ \A b \in call'[p] : b = c
                        /\ c.stage = "admitted" => c.target = {}
                        /\ \A m \in c.target : c.target = {m}
                        /\ c.fresh => \A m \in c.target : c.copy = member[m] /\ member[m] # {}
                        /\ c.stage = "patch" /\ c.actor # "owner" =>
                              \A to \in c.to : \/ to.role \notin Privileged
                                               \/ \E row \in c.copy : row.role = to.role
                        /\ c.stage = "save" /\ c.fresh /\ c.actor # "owner" =>
                              \A to \in c.to : to.role \notin Privileged
      BY DEF CallInv
    <2>1. CASE p = q
      BY <2>1
    <2>2. CASE p # q
      <3>1. call'[p] = call[p] /\ c \in call[p]
        BY <2>2
      <3> QED
        BY <3>1 DEF CallInv
    <2> QED
      BY <2>1, <2>2
  <1>2. PrivilegesComeFromOwners'
    BY DEF PrivilegesComeFromOwners, HasPrivileges
  <1>3. OneRemoval'
    <2>1. \A p \in Call \ {q} : p \in Removing' <=> p \in Removing
      BY DEF Removing
    <2>2. Removing \subseteq Call /\ Removing' \subseteq Call
      BY DEF Removing
    <2> QED
      BY <2>1, <2>2 DEF OneRemoval
  <1>4. AnotherOwner'
    <2> SUFFICES ASSUME Orderly', NEW p \in Call, NEW c \in call'[p],
                        c.stage = "removal", Owning \in c.copy
                 PROVE  \E m \in ActiveOwners : m \notin c.target
      BY DEF AnotherOwner, ActiveOwners
    <2>1. Orderly
      BY DEF Orderly
    <2>2. CASE p = q
      BY <2>2
    <2>3. CASE p # q
      BY <2>1, <2>3 DEF AnotherOwner
    <2> QED
      BY <2>2, <2>3
  <1>5. OwnerLeft'
    BY DEF OwnerLeft, RemovalsLeaveAnOwner, ActiveOwners
  <1> QED
    BY <1>1, <1>2, <1>3, <1>4, <1>5

LEMMA AuthenticateInv ==
    ASSUME AccountsInv, NEW q \in Call, NEW m \in Member, Authenticate(q, m)
    PROVE  AccountsInv'
  <1> USE DEF AccountsInv
  <1>1. PICK row \in member[m] :
           /\ row.role \in Privileged
           /\ Serves(q, [actor |-> row.role, stage |-> "admitted",
                         target |-> {}, copy |-> {}, to |-> {}, fresh |-> TRUE])
    BY DEF Authenticate
  <1> DEFINE c == [actor |-> row.role, stage |-> "admitted",
                   target |-> {}, copy |-> {}, to |-> {}, fresh |-> TRUE]
  <1>2. c \in Serving /\ c.stage = "admitted" /\ c.target = {}
    BY <1>1 DEF Serving
  <1>3. UNCHANGED <<member, profile, grantor, restored, patchedOut, overlapped>>
    BY DEF Authenticate
  <1>4. Serves(q, c)
    BY <1>1
  <1> HIDE DEF c
  <1>5. /\ call' \in [Call -> SUBSET Serving]
        /\ call'[q] = {c}
        /\ \A p \in Call \ {q} : call'[p] = call[p]
    BY <1>2, <1>4, ServesTyped
  <1>6. AccountsTypeOK'
    BY <1>3, <1>5 DEF AccountsTypeOK
  <1>7. q \notin Removing'
    BY <1>2, <1>5 DEF Removing
  <1> QED
    BY <1>2, <1>3, <1>5, <1>6, <1>7, MembersUntouched

LEMMA RefuseInv ==
    ASSUME AccountsInv, NEW q \in Call, Refuse(q) \/ \E c \in call[q], m \in Member : LinkProfile(q, c, m)
    PROVE  AccountsInv'
  <1> USE DEF AccountsInv
  <1>1. /\ Over(q)
        /\ UNCHANGED <<member, grantor, restored, patchedOut, overlapped>>
        /\ profile' \in SUBSET Member
    BY DEF Refuse, LinkProfile, AccountsTypeOK
  <1>2. /\ call' \in [Call -> SUBSET Serving]
        /\ call'[q] = {}
        /\ \A p \in Call \ {q} : call'[p] = call[p]
    BY <1>1, OverTyped
  <1>3. AccountsTypeOK'
    BY <1>1, <1>2 DEF AccountsTypeOK
  <1>4. q \notin Removing'
    BY <1>2 DEF Removing
  <1> QED
    BY <1>1, <1>2, <1>3, <1>4, MembersUntouched

(* A request that fetches its target. *)
LEMMA FetchInv ==
    ASSUME AccountsInv, NEW q \in Call, NEW c \in call[q], NEW m \in Member,
           NEW stage \in {"patch", "remove"}, NEW to \in SUBSET AccessRow,
           Fetch(q, c, m, stage, to),
           stage = "patch" /\ c.actor # "owner" =>
              \A t \in to : \/ t.role \notin Privileged
                            \/ \E row \in member[m] : row.role = t.role
    PROVE  AccountsInv'
  <1> USE DEF AccountsInv
  <1> DEFINE b == [c EXCEPT !.stage = stage, !.target = {m}, !.copy = member[m], !.to = to]
  <1>1. /\ b \in Serving
        /\ b.stage = stage /\ b.target = {m} /\ b.copy = member[m] /\ b.to = to
        /\ b.actor = c.actor
    <2>1. c \in Serving /\ member[m] \in SUBSET AccessRow
      BY CallAt DEF AccountsTypeOK
    <2> QED
      BY <2>1 DEF Serving
  <1>2. /\ Serves(q, b) /\ member[m] # {}
        /\ UNCHANGED <<member, profile, grantor, restored, patchedOut, overlapped>>
    BY DEF Fetch
  <1> HIDE DEF b
  <1>3. /\ call' \in [Call -> SUBSET Serving]
        /\ call'[q] = {b}
        /\ \A p \in Call \ {q} : call'[p] = call[p]
    BY <1>1, <1>2, ServesTyped
  <1>4. AccountsTypeOK'
    BY <1>2, <1>3 DEF AccountsTypeOK
  <1>5. q \notin Removing' /\ b.stage \notin {"admitted", "save", "removal"}
    BY <1>1, <1>3 DEF Removing
  <1> QED
    BY <1>1, <1>2, <1>3, <1>4, <1>5, MembersUntouched

LEMMA FetchesInv ==
    ASSUME AccountsInv, NEW q \in Call, NEW c \in call[q], NEW m \in Member,
           \/ \E role \in Role, active \in BOOLEAN : PatchFetch(q, c, m, role, active)
           \/ RemoveFetch(q, c, m)
    PROVE  AccountsInv'
  <1>1. CASE RemoveFetch(q, c, m)
    BY <1>1, FetchInv DEF RemoveFetch
  <1>2. ASSUME NEW role \in Role, NEW active \in BOOLEAN, PatchFetch(q, c, m, role, active)
        PROVE  AccountsInv'
    <2>1. /\ MayGrant(c.actor, role) \/ \E row \in member[m] : row.role = role
          /\ Fetch(q, c, m, "patch", {Access(role, active)})
      BY <1>2 DEF PatchFetch
    <2>2. {Access(role, active)} \in SUBSET AccessRow
      BY DEF Access, AccessRow
    <2>3. c.actor # "owner" =>
             \A t \in {Access(role, active)} : \/ t.role \notin Privileged
                                               \/ \E row \in member[m] : row.role = t.role
      BY <2>1 DEF Access, MayGrant
    <2> QED
      BY <2>1, <2>2, <2>3, FetchInv
  <1> QED
    BY <1>1, <1>2

LEMMA PatchCheckInv ==
    ASSUME AccountsInv, NEW q \in Call, NEW c \in call[q], NEW m \in Member, PatchCheck(q, c, m)
    PROVE  AccountsInv'
  <1> USE DEF AccountsInv
  <1> DEFINE b == [c EXCEPT !.stage = "save"]
  <1>1. /\ b \in Serving
        /\ b.stage = "save" /\ b.target = c.target /\ b.copy = c.copy /\ b.to = c.to
        /\ b.actor = c.actor /\ b.fresh = c.fresh
    BY CallAt DEF Serving
  <1>2. /\ c.stage = "patch" /\ m \in c.target
        /\ \A row \in member[m] : MayChange(c.actor, row.role)
        /\ Serves(q, b)
        /\ UNCHANGED <<member, profile, grantor, restored, patchedOut, overlapped>>
    BY DEF PatchCheck
  <1> HIDE DEF b
  <1>3. /\ call' \in [Call -> SUBSET Serving]
        /\ call'[q] = {b}
        /\ \A p \in Call \ {q} : call'[p] = call[p]
    BY <1>1, <1>2, ServesTyped
  <1>4. AccountsTypeOK'
    BY <1>2, <1>3 DEF AccountsTypeOK
  <1>5. q \notin Removing'
    BY <1>1, <1>3 DEF Removing
  <1>6. /\ \A x \in c.target : c.target = {x}
        /\ c.fresh => \A x \in c.target : c.copy = member[x] /\ member[x] # {}
    BY DEF CallInv
  <1>7. c.fresh /\ c.actor # "owner" => \A t \in c.to : t.role \notin Privileged
    <2> SUFFICES ASSUME c.fresh, c.actor # "owner", NEW t \in c.to, t.role \in Privileged
                 PROVE  FALSE
      OBVIOUS
    <2>1. PICK row \in c.copy : row.role = t.role
      BY <1>2 DEF CallInv
    <2>2. row \in member[m]
      BY <1>2, <1>6, <2>1
    <2> QED
      BY <1>2, <2>1, <2>2 DEF MayChange
  <1> QED
    BY <1>1, <1>2, <1>3, <1>4, <1>5, <1>6, <1>7, MembersUntouched

(* The count of a removal leaves an owner besides the one to remove.       *)
LEMMA AnotherCounted ==
    ASSUME NEW m \in Member, CountOwners > 1
    PROVE  \E o \in ActiveOwners : o # m
  <1> SUFFICES ASSUME ActiveOwners \subseteq {m} PROVE FALSE
    OBVIOUS
  <1>1. Cardinality({}) = 0 /\ Cardinality({m}) = 1
    BY FS_EmptySet, FS_Singleton
  <1>2. ActiveOwners = {} \/ ActiveOwners = {m}
    OBVIOUS
  <1>3. CountOwners \in {0, 1}
    BY <1>1, <1>2 DEF CountOwners
  <1> QED
    BY <1>3

LEMMA RemoveCheckInv ==
    ASSUME AccountsInv, NEW q \in Call, NEW c \in call[q], NEW m \in Member, RemoveCheck(q, c, m)
    PROVE  AccountsInv'
  <1> USE DEF AccountsInv
  <1> DEFINE b == [c EXCEPT !.stage = "removal"]
  <1>1. /\ b \in Serving
        /\ b.stage = "removal" /\ b.target = c.target /\ b.copy = c.copy
        /\ b.actor = c.actor /\ b.fresh = c.fresh
    BY CallAt DEF Serving
  <1>2. /\ c.stage = "remove" /\ m \in c.target
        /\ \A row \in c.copy : row.role = "owner" /\ row.active => CountOwners > 1
        /\ Serves(q, b)
        /\ overlapped' = (overlapped \/ Removing # {})
        /\ UNCHANGED <<member, profile, grantor, restored, patchedOut>>
    BY DEF RemoveCheck
  <1> HIDE DEF b
  <1>3. /\ call' \in [Call -> SUBSET Serving]
        /\ call'[q] = {b}
        /\ \A p \in Call \ {q} : call'[p] = call[p]
    BY <1>1, <1>2, ServesTyped
  <1>4. overlapped' \in BOOLEAN /\ (overlapped => overlapped')
        /\ (overlapped' \/ Removing = {})
    BY <1>2 DEF AccountsTypeOK
  <1>5. AccountsTypeOK'
    BY <1>2, <1>3, <1>4 DEF AccountsTypeOK
  <1>6. /\ \A x \in c.target : c.target = {x}
        /\ c.fresh => \A x \in c.target : c.copy = member[x] /\ member[x] # {}
    BY DEF CallInv
  <1>7. Owning \in c.copy => \E o \in ActiveOwners : o \notin c.target
    <2> SUFFICES ASSUME Owning \in c.copy
                 PROVE  \E o \in ActiveOwners : o \notin c.target
      OBVIOUS
    <2>1. CountOwners > 1
      BY <1>2 DEF Owning, Access
    <2>2. c.target = {m}
      BY <1>2, <1>6
    <2> QED
      BY <2>1, <2>2, AnotherCounted
  <1> QED
    BY <1>1, <1>2, <1>3, <1>4, <1>5, <1>6, <1>7, MembersUntouched

-----------------------------------------------------------------------------
(* Steps that write a membership *)

(* What an active owner's row is. *)
LEMMA OwnerRow ==
    ASSUME AccountsTypeOK, NEW m \in Member
    PROVE  m \in ActiveOwners <=> Owning \in member[m]
  <1>1. ASSUME NEW row \in member[m], row.role = "owner", row.active
        PROVE  row = Owning
    <2>1. row \in AccessRow
      BY DEF AccountsTypeOK
    <2>2. row = [role |-> row.role, active |-> row.active] /\ row.active \in BOOLEAN
      BY <2>1 DEF AccessRow
    <2>3. row.active = TRUE
      BY <1>1, <2>2
    <2> QED
      BY <1>1, <2>2, <2>3 DEF Owning, Access
  <1>2. Owning.role = "owner" /\ Owning.active
    BY DEF Owning, Access
  <1> QED
    BY <1>1, <1>2 DEF ActiveOwners

LEMMA OnboardInv ==
    ASSUME AccountsInv, NEW q \in Call, NEW c \in call[q], NEW m \in Member, NEW role \in Role,
           Onboard(q, c, m, role)
    PROVE  AccountsInv'
  <1> USE DEF AccountsInv
  <1> DEFINE row == Access(role, TRUE)
  <1>1. /\ member[m] = {}
        /\ MayGrant(c.actor, role)
        /\ member' = [member EXCEPT ![m] = {row}]
        /\ grantor' = [grantor EXCEPT ![m] = c.actor]
        /\ Over(q)
        /\ UNCHANGED <<restored, patchedOut, overlapped>>
        /\ profile' \in SUBSET Member
    BY DEF Onboard, AccountsTypeOK
  <1>2. row \in AccessRow /\ row.role = role
    BY DEF Access, AccessRow
  <1> HIDE DEF row
  <1>3. /\ call' \in [Call -> SUBSET Serving]
        /\ call'[q] = {}
        /\ \A p \in Call \ {q} : call'[p] = call[p]
    BY <1>1, OverTyped
  <1>4. /\ member' \in [Member -> SUBSET AccessRow]
        /\ member'[m] = {row} /\ \A x \in Member \ {m} : member'[x] = member[x]
    BY <1>1, <1>2 DEF AccountsTypeOK
  <1>5. AccountsTypeOK'
    <2>1. grantor' \in [Member -> Privileged \cup {"none"}]
      BY <1>1, CallAt DEF AccountsTypeOK
    <2> QED
      BY <1>1, <1>3, <1>4, <2>1 DEF AccountsTypeOK
  <1>6. \A p \in Call : \A b \in call'[p] : p # q /\ b \in call[p] /\ call'[p] = call[p]
    BY <1>3
  <1>7. CallInv'
    <2> SUFFICES ASSUME NEW p \in Call, NEW b \in call'[p]
                 PROVE  /\ \A a \in call'[p] : a = b
                        /\ b.stage = "admitted" => b.target = {}
                        /\ \A x \in b.target : b.target = {x}
                        /\ b.fresh => \A x \in b.target : b.copy = member'[x] /\ member'[x] # {}
                        /\ b.stage = "patch" /\ b.actor # "owner" =>
                              \A to \in b.to : \/ to.role \notin Privileged
                                               \/ \E r \in b.copy : r.role = to.role
                        /\ b.stage = "save" /\ b.fresh /\ b.actor # "owner" =>
                              \A to \in b.to : to.role \notin Privileged
      BY DEF CallInv
    <2>1. b \in call[p] /\ call'[p] = call[p] /\ b.target \in SUBSET Member
      BY <1>6, CallAt
    <2>2. b.fresh => \A x \in b.target : b.copy = member'[x] /\ member'[x] # {}
      BY <1>1, <1>4, <2>1 DEF CallInv
    <2> QED
      BY <2>1, <2>2 DEF CallInv
  <1>8. PrivilegesComeFromOwners'
    <2> SUFFICES ASSUME NEW x \in Member \ restored, HasPrivileges(member'[x])
                 PROVE  grantor'[x] = "owner"
      BY <1>1 DEF PrivilegesComeFromOwners, HasPrivileges
    <2>1. CASE x = m
      <3>1. role \in Privileged
        BY <1>2, <1>4, <2>1 DEF HasPrivileges
      <3> QED
        BY <1>1, <2>1, <3>1 DEF MayGrant, AccountsTypeOK
    <2>2. CASE x # m
      BY <1>1, <1>4, <2>2 DEF PrivilegesComeFromOwners, AccountsTypeOK
    <2> QED
      BY <2>1, <2>2
  <1>9. OneRemoval'
    <2>1. Removing' \subseteq Removing
      BY <1>6 DEF Removing
    <2> QED
      BY <1>1, <2>1 DEF OneRemoval
  <1>10. ActiveOwners \subseteq ActiveOwners'
    BY <1>1, <1>4 DEF ActiveOwners
  <1>11. AnotherOwner' /\ OwnerLeft'
    BY <1>1, <1>6, <1>10 DEF AnotherOwner, Orderly, OwnerLeft, RemovalsLeaveAnOwner
  <1> QED
    BY <1>5, <1>7, <1>8, <1>9, <1>11

(* A write that ends its request: what the others' copies and checks keep. *)
LEMMA WriteInv ==
    ASSUME AccountsInv, NEW q \in Call, NEW c \in call[q], NEW m \in Member, m \in c.target,
           Wrote(q, m), UNCHANGED <<profile, overlapped>>,
           NEW rows \in SUBSET AccessRow, member' = [member EXCEPT ![m] = rows],
           grantor' = grantor \/ grantor' = [grantor EXCEPT ![m] = c.actor],
           restored' = IF c.fresh THEN restored ELSE restored \cup {m},
           patchedOut' \in BOOLEAN, patchedOut => patchedOut',
           c.fresh /\ HasPrivileges(rows) =>
              \/ grantor'[m] = "owner"
              \/ HasPrivileges(member[m]) /\ grantor' = grantor,
           \/ patchedOut' \/ ~c.fresh \/ m \notin ActiveOwners \/ Owning \in rows
           \/ c.stage = "removal" /\ Owning \in c.copy
    PROVE  AccountsInv'
  <1> USE DEF AccountsInv
  <1>1. /\ call' \in [Call -> SUBSET Serving]
        /\ call'[q] = {}
        /\ \A p \in Call : \A b \in call'[p] : \E a \in call[p] :
              /\ p # q
              /\ b.actor = a.actor /\ b.stage = a.stage /\ b.target = a.target
              /\ b.copy = a.copy /\ b.to = a.to
              /\ b.fresh => a.fresh /\ m \notin a.target
        /\ \A p \in Call : (\A a, b \in call[p] : a = b) => \A a, b \in call'[p] : a = b
    BY WroteTyped
  <1>2. /\ member' \in [Member -> SUBSET AccessRow]
        /\ member'[m] = rows /\ \A x \in Member \ {m} : member'[x] = member[x]
    BY DEF AccountsTypeOK
  <1>3. grantor' \in [Member -> Privileged \cup {"none"}]
        /\ \A x \in Member \ {m} : grantor'[x] = grantor[x]
    BY CallAt DEF AccountsTypeOK
  <1>4. restored' \in SUBSET Member /\ restored \subseteq restored'
        /\ (c.fresh \/ m \in restored')
    BY DEF AccountsTypeOK
  <1>5. AccountsTypeOK'
    BY <1>1, <1>2, <1>3, <1>4 DEF AccountsTypeOK
  <1>6. CallInv'
    <2> SUFFICES ASSUME NEW p \in Call, NEW b \in call'[p]
                 PROVE  /\ \A a \in call'[p] : a = b
                        /\ b.stage = "admitted" => b.target = {}
                        /\ \A x \in b.target : b.target = {x}
                        /\ b.fresh => \A x \in b.target : b.copy = member'[x] /\ member'[x] # {}
                        /\ b.stage = "patch" /\ b.actor # "owner" =>
                              \A to \in b.to : \/ to.role \notin Privileged
                                               \/ \E r \in b.copy : r.role = to.role
                        /\ b.stage = "save" /\ b.fresh /\ b.actor # "owner" =>
                              \A to \in b.to : to.role \notin Privileged
      BY DEF CallInv
    <2>1. PICK a \in call[p] :
             /\ b.actor = a.actor /\ b.stage = a.stage /\ b.target = a.target
             /\ b.copy = a.copy /\ b.to = a.to
             /\ b.fresh => a.fresh /\ m \notin a.target
      BY <1>1
    <2>2. \A x \in call'[p] : x = b
      BY <1>1 DEF CallInv
    <2>3. b.fresh => \A x \in b.target : b.copy = member'[x] /\ member'[x] # {}
      <3> SUFFICES ASSUME b.fresh, NEW x \in b.target
                   PROVE  b.copy = member'[x] /\ member'[x] # {}
        OBVIOUS
      <3>1. x \in Member /\ x # m
        BY <2>1, CallAt
      <3>2. a.copy = member[x] /\ member[x] # {}
        BY <2>1 DEF CallInv
      <3> QED
        BY <1>2, <2>1, <3>1, <3>2
    <2>4. /\ a.stage = "admitted" => a.target = {}
          /\ \A x \in a.target : a.target = {x}
          /\ a.stage = "patch" /\ a.actor # "owner" =>
                \A to \in a.to : \/ to.role \notin Privileged
                                 \/ \E r \in a.copy : r.role = to.role
          /\ a.stage = "save" /\ a.fresh /\ a.actor # "owner" =>
                \A to \in a.to : to.role \notin Privileged
      BY DEF CallInv
    <2> QED
      BY <2>1, <2>2, <2>3, <2>4
  <1>7. PrivilegesComeFromOwners'
    <2> SUFFICES ASSUME NEW x \in Member \ restored', HasPrivileges(member'[x])
                 PROVE  grantor'[x] = "owner"
      BY DEF PrivilegesComeFromOwners, HasPrivileges
    <2>1. CASE x = m
      <3>1. c.fresh /\ HasPrivileges(rows)
        BY <1>2, <1>4, <2>1
      <3> QED
        BY <1>4, <2>1, <3>1 DEF PrivilegesComeFromOwners
    <2>2. CASE x # m
      BY <1>2, <1>3, <1>4, <2>2 DEF PrivilegesComeFromOwners
    <2> QED
      BY <2>1, <2>2
  <1>8. OneRemoval'
    <2>1. ASSUME NEW p \in Removing' PROVE p \in Removing
      <3>1. p \in Call /\ \E b \in call'[p] : b.stage = "removal" /\ Owning \in b.copy
        BY DEF Removing, Owning
      <3>2. \E a \in call[p] : a.stage = "removal" /\ Owning \in a.copy
        BY <1>1, <3>1
      <3> QED
        BY <3>1, <3>2 DEF Removing, Owning
    <2> QED
      BY <2>1 DEF OneRemoval
  <1>9. \A o \in ActiveOwners : o # m \/ m \notin ActiveOwners \/ Owning \in rows =>
           o \in ActiveOwners'
    <2> SUFFICES ASSUME NEW o \in ActiveOwners,
                        o # m \/ m \notin ActiveOwners \/ Owning \in rows
                 PROVE  o \in ActiveOwners'
      OBVIOUS
    <2>1. o \in Member /\ Owning \in member[o]
      BY OwnerRow DEF ActiveOwners
    <2>2. Owning \in member'[o]
      BY <1>2, <2>1
    <2>3. Owning.role = "owner" /\ Owning.active
      BY DEF Owning, Access
    <2> QED
      BY <2>1, <2>2, <2>3 DEF ActiveOwners
  <1>10. AnotherOwner'
    <2> SUFFICES ASSUME Orderly', NEW p \in Call, NEW b \in call'[p],
                        b.stage = "removal", Owning \in b.copy
                 PROVE  \E o \in ActiveOwners' : o \notin b.target
      BY DEF AnotherOwner
    <2>1. Orderly /\ c.fresh /\ ~patchedOut' /\ ~overlapped
      BY <1>4 DEF Orderly
    <2>2. PICK a \in call[p] :
             /\ p # q /\ b.stage = a.stage /\ b.target = a.target /\ b.copy = a.copy
      BY <1>1
    <2>3. PICK o \in ActiveOwners : o \notin a.target
      BY <2>1, <2>2 DEF AnotherOwner
    <2>4. p \in Removing
      BY <2>2 DEF Removing, Owning
    <2>5. c.stage = "removal" => Owning \notin c.copy
      <3> SUFFICES ASSUME c.stage = "removal", Owning \in c.copy PROVE FALSE
        OBVIOUS
      <3>1. q \in Removing
        BY DEF Removing, Owning
      <3> QED
        BY <2>1, <2>2, <2>4, <3>1 DEF OneRemoval
    <2>6. m \notin ActiveOwners \/ Owning \in rows
      BY <2>1, <2>5
    <2>7. o \in ActiveOwners'
      BY <1>9, <2>6
    <2> QED
      BY <2>2, <2>3, <2>7
  <1>11. OwnerLeft'
    <2> SUFFICES ASSUME Founder \cap Member # {}, Orderly'
                 PROVE  ActiveOwners' # {}
      BY DEF OwnerLeft, RemovalsLeaveAnOwner, Orderly
    <2>1. Orderly /\ c.fresh /\ ~patchedOut'
      BY <1>4 DEF Orderly
    <2>2. PICK o \in ActiveOwners : TRUE
      BY <2>1 DEF OwnerLeft, RemovalsLeaveAnOwner, Orderly
    <2>3. CASE m \notin ActiveOwners \/ Owning \in rows
      BY <1>9, <2>2, <2>3
    <2>4. CASE c.stage = "removal" /\ Owning \in c.copy
      <3>1. PICK x \in ActiveOwners : x \notin c.target
        BY <2>1, <2>4 DEF AnotherOwner
      <3> QED
        BY <1>9, <3>1
    <2> QED
      BY <2>1, <2>3, <2>4
  <1> QED
    BY <1>5, <1>6, <1>7, <1>8, <1>10, <1>11

LEMMA PatchSaveInv ==
    ASSUME AccountsInv, NEW q \in Call, NEW c \in call[q], NEW m \in Member, PatchSave(q, c, m)
    PROVE  AccountsInv'
  <1> USE DEF AccountsInv
  <1>1. /\ c.stage = "save" /\ m \in c.target
        /\ member' = [member EXCEPT ![m] = c.to]
        /\ grantor' = IF HasPrivileges(member[m] \cup c.to) /\ member[m] # c.to
                      THEN [grantor EXCEPT ![m] = c.actor] ELSE grantor
        /\ restored' = IF c.fresh THEN restored ELSE restored \cup {m}
        /\ patchedOut' = (patchedOut \/ (m \in ActiveOwners /\ Access("owner", TRUE) \notin c.to))
        /\ Wrote(q, m)
        /\ UNCHANGED <<profile, overlapped>>
    BY DEF PatchSave
  <1>2. c.to \in SUBSET AccessRow
    BY CallAt
  <1>3. /\ patchedOut' \in BOOLEAN /\ (patchedOut => patchedOut')
        /\ patchedOut' \/ m \notin ActiveOwners \/ Owning \in c.to
    BY <1>1 DEF AccountsTypeOK, Owning
  <1>4. ASSUME c.fresh, HasPrivileges(c.to)
        PROVE  \/ grantor'[m] = "owner"
               \/ HasPrivileges(member[m]) /\ grantor' = grantor
    <2>1. c.actor = "owner"
      BY <1>1, <1>4 DEF CallInv, HasPrivileges
    <2>2. HasPrivileges(member[m] \cup c.to)
      BY <1>4 DEF HasPrivileges
    <2>3. CASE member[m] # c.to
      BY <1>1, <2>1, <2>2, <2>3 DEF AccountsTypeOK
    <2>4. CASE member[m] = c.to
      BY <1>1, <1>4, <2>4
    <2> QED
      BY <2>3, <2>4
  <1>5. grantor' = grantor \/ grantor' = [grantor EXCEPT ![m] = c.actor]
    BY <1>1
  <1> QED
    BY <1>1, <1>2, <1>3, <1>4, <1>5, WriteInv

LEMMA RemoveSaveInv ==
    ASSUME AccountsInv, NEW q \in Call, NEW c \in call[q], NEW m \in Member, RemoveSave(q, c, m)
    PROVE  AccountsInv'
  <1> USE DEF AccountsInv
  <1> DEFINE rows == {[row EXCEPT !.active = FALSE] : row \in member[m]}
  <1>1. /\ c.stage = "removal" /\ m \in c.target
        /\ grantor' = grantor \/ grantor' = [grantor EXCEPT ![m] = c.actor]
        /\ restored' = IF c.fresh THEN restored ELSE restored \cup {m}
        /\ Wrote(q, m)
        /\ UNCHANGED <<profile, overlapped, patchedOut>>
    BY DEF RemoveSave
  <1>2. member' = [member EXCEPT ![m] = rows]
    BY DEF RemoveSave, AccountsTypeOK
  <1>3. rows \in SUBSET AccessRow /\ ~HasPrivileges(rows)
    <2>1. \A row \in AccessRow :
             /\ [row EXCEPT !.active = FALSE] \in AccessRow
             /\ [row EXCEPT !.active = FALSE].active = FALSE
      BY DEF AccessRow
    <2>2. member[m] \in SUBSET AccessRow
      BY DEF AccountsTypeOK
    <2>3. \A row \in rows : row \in AccessRow /\ row.active = FALSE
      BY <2>1, <2>2
    <2> QED
      BY <2>3 DEF HasPrivileges
  <1> HIDE DEF rows
  <1>4. ~c.fresh \/ m \notin ActiveOwners \/ Owning \in c.copy
    BY <1>1, OwnerRow DEF CallInv
  <1>5. patchedOut' \in BOOLEAN /\ (patchedOut => patchedOut')
    BY <1>1 DEF AccountsTypeOK
  <1> QED
    BY <1>1, <1>2, <1>3, <1>4, <1>5, WriteInv

-----------------------------------------------------------------------------
LEMMA AccountsInitInv == AccountsInit => AccountsInv
  <1> SUFFICES ASSUME AccountsInit PROVE AccountsInv
    OBVIOUS
  <1>1. Access("owner", TRUE) \in AccessRow
    BY DEF Access, AccessRow, Role
  <1>2. AccountsTypeOK
    BY <1>1 DEF AccountsInit, AccountsTypeOK, Privileged
  <1>3. CallInv /\ OneRemoval /\ AnotherOwner
    BY DEF AccountsInit, CallInv, OneRemoval, Removing, AnotherOwner
  <1>5. OwnerLeft
    BY DEF AccountsInit, OwnerLeft, RemovalsLeaveAnOwner, ActiveOwners, Access
  <1>4. PrivilegesComeFromOwners
    BY DEF AccountsInit, PrivilegesComeFromOwners, HasPrivileges
  <1> QED
    BY <1>2, <1>3, <1>4, <1>5 DEF AccountsInv

LEMMA CallStepInv ==
    ASSUME AccountsInv, NEW q \in Call, CallStep(q)
    PROVE  AccountsInv'
  <1>1. CASE \E m \in Member : Authenticate(q, m)
    BY <1>1, AuthenticateInv
  <1>2. ASSUME NEW c \in call[q], NEW m \in Member,
               \/ \E role \in Role : Onboard(q, c, m, role)
               \/ LinkProfile(q, c, m)
               \/ \E role \in Role, active \in BOOLEAN : PatchFetch(q, c, m, role, active)
               \/ PatchCheck(q, c, m)
               \/ PatchSave(q, c, m)
               \/ RemoveFetch(q, c, m)
               \/ RemoveCheck(q, c, m)
               \/ RemoveSave(q, c, m)
        PROVE  AccountsInv'
    BY <1>2, OnboardInv, RefuseInv, FetchesInv, PatchCheckInv, PatchSaveInv,
       RemoveCheckInv, RemoveSaveInv
  <1>3. CASE Refuse(q)
    BY <1>3, RefuseInv
  <1> QED
    BY <1>1, <1>2, <1>3 DEF CallStep

LEMMA AccountsStutterInv == AccountsInv /\ UNCHANGED accountVars => AccountsInv'
  <1> SUFFICES ASSUME AccountsInv, UNCHANGED accountVars PROVE AccountsInv'
    OBVIOUS
  <1> USE DEF AccountsInv, accountVars
  <1>1. AccountsTypeOK'
    BY DEF AccountsTypeOK
  <1>2. CallInv'
    BY DEF CallInv
  <1>4. OneRemoval'
    BY DEF OneRemoval, Removing
  <1>5. AnotherOwner'
    BY DEF AnotherOwner, Orderly, ActiveOwners
  <1>3. PrivilegesComeFromOwners' /\ OwnerLeft'
    BY DEF PrivilegesComeFromOwners, HasPrivileges, OwnerLeft, RemovalsLeaveAnOwner,
           ActiveOwners
  <1> QED
    BY <1>1, <1>2, <1>3, <1>4, <1>5

LEMMA AccountsStepInv == AccountsInv /\ [AccountsNext]_accountVars => AccountsInv'
  BY CallStepInv, AccountsStutterInv DEF AccountsNext

LEMMA AccountsInductive == AccountsSpec => []AccountsInv
  BY AccountsInitInv, AccountsStepInv, PTL DEF AccountsSpec

(* Memberships and requests have their types. *)
THEOREM AccountsTyping == AccountsSpec => []AccountsTypeOK
  BY AccountsInductive, PTL DEF AccountsInv

(* Privileges come from an owner, for any number of members and requests,  *)
(* unless a save was not of what it had read.                              *)
THEOREM FromOwners == AccountsSpec => []PrivilegesComeFromOwners
  BY AccountsInductive, PTL DEF AccountsInv

(* A company that has a founder keeps an owner, whatever is removed, but   *)
(* for a PATCH, overlapping removals, and saves that passed over a change. *)
THEOREM OwnersLeft ==
    ASSUME Founder \cap Member # {}
    PROVE  AccountsSpec => []RemovalsLeaveAnOwner
  <1>1. AccountsInv => RemovalsLeaveAnOwner
    BY DEF AccountsInv, OwnerLeft
  <1> QED
    BY <1>1, AccountsInductive, PTL

-----------------------------------------------------------------------------
(* WAGES: any contracts, policy and period, and any minutes. The roundings *)
(* of money() are quotients, of which the provers know what Quotient says. *)

LEMMA Quotient ==
    ASSUME NEW n \in Int, NEW d \in Nat \ {0}
    PROVE  n \div d \in Int /\ d * (n \div d) <= n /\ n < d * (n \div d) + d
  <1>1. n \div d \in Int /\ n % d \in 0 .. d-1 /\ n = d * (n \div d) + (n % d)
    OBVIOUS
  <1>2. d * (n \div d) \in Int
    BY <1>1
  <1> QED BY <1>1, <1>2

LEMMA TimesLeq ==
    ASSUME NEW k \in Nat, NEW a \in Int, NEW b \in Int, a <= b
    PROVE  k * a \in Int /\ k * b \in Int /\ k * a <= k * b
  OBVIOUS

LEMMA Distributes ==
    ASSUME NEW k \in Int, NEW a \in Int, NEW b \in Int
    PROVE  k * (a + b) = k * a + k * b
  OBVIOUS

LEMMA QuotientUnique ==
    ASSUME NEW n \in Int, NEW d \in Nat \ {0}, NEW q \in Int, d * q <= n, n < d * q + d
    PROVE  n \div d = q
  <1> DEFINE p == n \div d
  <1>1. p \in Int /\ d * p <= n /\ n < d * p + d
    BY Quotient
  <1> HIDE DEF p
  <1>2. d * p \in Int /\ d * q \in Int
    BY <1>1
  <1>3. ~(q + 1 <= p)
    <2> SUFFICES ASSUME q + 1 <= p PROVE FALSE
      OBVIOUS
    <2>1. d * (q + 1) <= d * p
      BY <1>1, TimesLeq
    <2>2. d * (q + 1) = d * q + d
      OBVIOUS
    <2> QED BY <1>1, <1>2, <2>1, <2>2
  <1>4. ~(p + 1 <= q)
    <2> SUFFICES ASSUME p + 1 <= q PROVE FALSE
      OBVIOUS
    <2>1. d * (p + 1) <= d * q
      BY <1>1, TimesLeq
    <2>2. d * (p + 1) = d * p + d
      BY <1>1
    <2> QED BY <1>1, <1>2, <2>1, <2>2
  <1> QED BY <1>1, <1>3, <1>4 DEF p

LEMMA MoneyAt ==
    ASSUME NEW n \in Int, NEW d \in Nat \ {0}
    PROVE  /\ Money(n, d) \in Int
           /\ (2 * d) * Money(n, d) <= 2 * n + d
           /\ 2 * n + d < (2 * d) * Money(n, d) + 2 * d
  <1>1. 2 * n + d \in Int /\ 2 * d \in Nat \ {0}
    OBVIOUS
  <1> QED
    BY <1>1, Quotient DEF Money

LEMMA MoneyIs ==
    ASSUME NEW n \in Int, NEW d \in Nat \ {0}, NEW q \in Int,
           (2 * d) * q <= 2 * n + d, 2 * n + d < (2 * d) * q + 2 * d
    PROVE  Money(n, d) = q
  <1>1. 2 * n + d \in Int /\ 2 * d \in Nat \ {0}
    OBVIOUS
  <1> QED
    BY <1>1, QuotientUnique DEF Money

LEMMA MoneyLeq ==
    ASSUME NEW n \in Int, NEW m \in Int, n <= m, NEW d \in Nat \ {0}
    PROVE  Money(n, d) <= Money(m, d)
  <1> DEFINE p == Money(n, d)
             q == Money(m, d)
  <1>1. /\ p \in Int /\ (2 * d) * p <= 2 * n + d
        /\ q \in Int /\ 2 * m + d < (2 * d) * q + 2 * d
    BY MoneyAt
  <1> HIDE DEF p, q
  <1>2. ~(q + 1 <= p)
    <2> SUFFICES ASSUME q + 1 <= p PROVE FALSE
      OBVIOUS
    <2>1. (2 * d) * (q + 1) <= (2 * d) * p /\ (2 * d) * p \in Int
      BY <1>1, TimesLeq
    <2>2. (2 * d) * (q + 1) = (2 * d) * q + 2 * d /\ (2 * d) * q \in Int
      BY <1>1
    <2> QED
      BY <1>1, <2>1, <2>2
  <1> QED
    BY <1>1, <1>2 DEF p, q

LEMMA MoneyExact ==
    ASSUME NEW n \in Int, NEW d \in Nat \ {0}
    PROVE  Money(n * d, d) = n /\ Money(d * n, d) = n
  <1>1. n * d \in Int /\ n * d = d * n /\ (2 * d) * n = 2 * (n * d)
    OBVIOUS
  <1>2. Money(n * d, d) = n
    BY <1>1, MoneyIs
  <1> QED
    BY <1>1, <1>2

LEMMA MoneyNat ==
    ASSUME NEW n \in Nat, NEW d \in Nat \ {0}
    PROVE  Money(n, d) \in Nat
  <1>1. Money(0 * d, d) <= Money(n, d) /\ Money(0 * d, d) = 0
    BY MoneyLeq, MoneyExact
  <1> QED
    BY <1>1, MoneyAt

(* A quotient does not change when both are multiplied. *)
LEMMA MoneyScale ==
    ASSUME NEW n \in Int, NEW d \in Nat \ {0}, NEW k \in Nat \ {0}
    PROVE  Money(k * n, k * d) = Money(n, d)
  <1> DEFINE q == Money(n, d)
             x == 2 * n + d
             y == 2 * d
  <1>1. q \in Int /\ x \in Int /\ y \in Nat \ {0} /\ y * q <= x /\ x < y * q + y /\ y * q \in Int
    BY MoneyAt
  <1>2. k * n \in Int /\ k * d \in Nat \ {0} /\ k * x = 2 * (k * n) + k * d /\ k * y = 2 * (k * d)
    OBVIOUS
  <1> HIDE DEF q, x, y
  <1>3. (k * y) * q <= k * x
    BY <1>1, TimesLeq
  <1>4. k * x < (k * y) * q + k * y
    BY <1>1
  <1> QED
    BY <1>1, <1>2, <1>3, <1>4, MoneyIs DEF q

(* Rounding a sum yields at most one more than rounding its parts. *)
LEMMA MoneyPlus ==
    ASSUME NEW a \in Int, NEW b \in Int, NEW d \in Nat \ {0}
    PROVE  Money(a + b, d) <= Money(a, d) + Money(b, d) + 1
  <1> DEFINE p == Money(a, d)
             q == Money(b, d)
             r == Money(a + b, d)
  <1>1. /\ p \in Int /\ 2 * a + d < (2 * d) * p + 2 * d
        /\ q \in Int /\ 2 * b + d < (2 * d) * q + 2 * d
        /\ r \in Int /\ (2 * d) * r <= 2 * (a + b) + d
    BY MoneyAt
  <1> HIDE DEF p, q, r
  <1>2. ~(p + q + 2 <= r)
    <2> SUFFICES ASSUME p + q + 2 <= r PROVE FALSE
      OBVIOUS
    <2>1. (2 * d) * (p + q + 2) <= (2 * d) * r /\ (2 * d) * r \in Int
      BY <1>1, TimesLeq
    <2>2. (2 * d) * (p + q + 2) = (2 * d) * p + (2 * d) * q + 4 * d
      BY <1>1
    <2>3. (2 * d) * p \in Int /\ (2 * d) * q \in Int
      BY <1>1
    <2> QED
      BY <1>1, <2>1, <2>2, <2>3
  <1> QED
    BY <1>1, <1>2 DEF p, q, r

(* A share of an amount is no more than the amount. *)
LEMMA MoneyShare ==
    ASSUME NEW n \in Nat, NEW d \in Nat \ {0}, NEW k \in 0 .. d
    PROVE  Money(n * k, d) \in Nat /\ Money(n * k, d) <= n
  <1>1. n * k \in Nat /\ n * d \in Nat /\ n * k <= n * d
    BY TimesLeq
  <1>2. Money(n * k, d) <= Money(n * d, d)
    BY <1>1, MoneyLeq
  <1> QED
    BY <1>1, <1>2, MoneyExact, MoneyNat

-----------------------------------------------------------------------------
(* The pay of a day *)

LEMMA RateNat ==
    ASSUME NEW w \in Contracts
    PROVE  RateHours(w) \in Nat \ {0} /\ RateHours(w) * 60 * 4 \in Nat \ {0}
  BY ContractAssumption, WagePolicyAssumption DEF RateHours

LEMMA PayNat ==
    ASSUME NEW w \in Contracts, NEW x \in Nat, NEW q \in Nat
    PROVE  PayOfMinutes(w, x, q) \in Nat
  <1>1. w.basic \in Nat
    BY ContractAssumption
  <1>2. w.basic * x * q \in Nat
    BY <1>1
  <1> QED
    BY <1>2, RateNat, MoneyNat DEF PayOfMinutes

LEMMA AllowanceNat ==
    ASSUME NEW w \in Contracts
    PROVE  AllowanceForDay(w) \in Nat /\ AllowanceForPeriod(w) \in Nat
  <1>1. 30 * w.daily + w.monthly \in Nat /\ w.monthly \in Nat
    BY ContractAssumption
  <1> QED
    BY <1>1, MoneyNat DEF AllowanceForDay, AllowanceForPeriod

(* The minutes a half day is paid for at most. *)
Cap == (DailyHours * 60 * HalfDay) \div 100

LEMMA CapNat == Cap \in Nat
  <1>1. DailyHours * 60 * HalfDay \in Nat
    BY WagePolicyAssumption
  <1>2. Cap \in Int /\ 100 * Cap <= DailyHours * 60 * HalfDay
        /\ DailyHours * 60 * HalfDay < 100 * Cap + 100
    BY <1>1, Quotient DEF Cap
  <1> QED
    BY <1>1, <1>2

LEMMA RegularNat ==
    ASSUME NEW x \in Nat, NEW y \in Nat, NEW o
    PROVE  /\ RegularMinutes(x, y, o) \in Nat
           /\ RegularMinutes(x, 0, o) <= RegularMinutes(x, y, o) + y
           /\ RegularMinutes(x, y, "half_day") <= RegularMinutes(x, y, "full_day")
           /\ RegularMinutes(x, y, "full_day") >= x - y
  <1>1. \A u, v \in Nat :
           /\ RegularMinutes(u, v, o) = IF o = "half_day" THEN AtMost(AtLeastZero(u - v), Cap)
                                                         ELSE AtLeastZero(u - v)
           /\ RegularMinutes(u, v, "half_day") = AtMost(AtLeastZero(u - v), Cap)
           /\ RegularMinutes(u, v, "full_day") = AtLeastZero(u - v)
    BY DEF RegularMinutes, Cap
  <1>2. \A u, v \in Nat :
           /\ AtLeastZero(u - v) \in Nat /\ AtLeastZero(u - v) >= u - v
           /\ AtMost(AtLeastZero(u - v), Cap) \in Nat
           /\ AtMost(AtLeastZero(u - v), Cap) <= AtLeastZero(u - v)
    BY CapNat DEF AtLeastZero, AtMost
  <1>3. AtLeastZero(x - 0) <= AtLeastZero(x - y) + y
    BY DEF AtLeastZero
  <1>4. AtMost(AtLeastZero(x - 0), Cap) <= AtMost(AtLeastZero(x - y), Cap) + y
    BY CapNat DEF AtLeastZero, AtMost
  <1> QED
    BY <1>1, <1>2, <1>3, <1>4

LEMMA FractionRange ==
    ASSUME NEW o
    PROVE  Fraction(o) \in 0 .. 100
  BY WagePolicyAssumption DEF Fraction

LEMMA DayWageType ==
    ASSUME NEW w \in Contracts, NEW day \in DayInput
    PROVE  /\ DayWage(w, day) \in WageRow
           /\ DayWage(w, day).gross = DayWage(w, day).regular + DayWage(w, day).overtime
                                         + DayWage(w, day).allowances
  <1> DEFINE regular == PayOfMinutes(w, RegularMinutes(day.worked, day.overtime, day.outcome), 4)
             overtime == PayOfMinutes(w, day.overtime, OvertimeRate(day.night))
             allowances == Money(AllowanceForDay(w) * Fraction(day.outcome), 100)
  <1>1. day.worked \in Nat /\ day.overtime \in Nat
    BY MinutesAssumption DEF DayInput
  <1>2. OvertimeRate(day.night) \in Nat
    BY WagePolicyAssumption DEF OvertimeRate
  <1>3. regular \in Nat /\ overtime \in Nat
    BY <1>1, <1>2, RegularNat, PayNat
  <1>4. allowances \in Nat
    <2>1. AllowanceForDay(w) \in Nat /\ Fraction(day.outcome) \in 0 .. 100 /\ 100 \in Nat \ {0}
      BY AllowanceNat, FractionRange
    <2> QED
      BY <2>1, MoneyShare
  <1>5. DayWage(w, day) = [day |-> day, regular |-> regular, overtime |-> overtime,
                           allowances |-> allowances,
                           gross |-> regular + overtime + allowances]
    BY DEF DayWage
  <1> HIDE DEF regular, overtime, allowances
  <1> QED
    BY <1>3, <1>4, <1>5 DEF WageRow

(* A day has at most one ledger, whose gross pay is what it is made of. *)
WagesInv ==
    /\ WagesTypeOK
    /\ \A d \in Day :
          \/ ledger[d] = {}
          \/ \E l \in WageRow : /\ ledger[d] = {l}
                                /\ l.gross = l.regular + l.overtime + l.allowances

LEMMA WagesInductive == WagesSpec => []WagesInv
  <1>1. WagesInit => WagesInv
    BY DEF WagesInit, WagesInv, WagesTypeOK
  <1>2. ASSUME WagesInv, NEW d \in Day, NEW day \in DayInput, Calculate(d, day)
        PROVE  WagesInv'
    <2> DEFINE l == DayWage(worker, day)
    <2>1. l \in WageRow /\ l.gross = l.regular + l.overtime + l.allowances
      <3>1. worker \in Contracts
        BY <1>2 DEF WagesInv, WagesTypeOK
      <3> QED
        BY <3>1, DayWageType
    <2>2. ledger' = [ledger EXCEPT ![d] = {l}] /\ UNCHANGED <<worker, listed>>
      BY <1>2 DEF Calculate
    <2> HIDE DEF l
    <2>3. WagesTypeOK'
      BY <1>2, <2>1, <2>2 DEF WagesInv, WagesTypeOK
    <2>4. ledger'[d] = {l} /\ \A e \in Day \ {d} : ledger'[e] = ledger[e]
      BY <1>2, <2>2 DEF WagesInv, WagesTypeOK
    <2> QED
      BY <1>2, <2>1, <2>3, <2>4 DEF WagesInv
  <1>3. ASSUME WagesInv, NEW d \in Day, List(d)
        PROVE  WagesInv'
    BY <1>3 DEF List, WagesInv, WagesTypeOK
  <1>4. ASSUME WagesInv, NEW w \in Contracts, Rehire(w)
        PROVE  WagesInv'
    BY <1>4 DEF Rehire, WagesInv, WagesTypeOK
  <1>5. WagesInv /\ UNCHANGED wageVars => WagesInv'
    BY DEF wageVars, WagesInv, WagesTypeOK
  <1>6. WagesInv /\ [WagesNext]_wageVars => WagesInv'
    BY <1>2, <1>3, <1>4, <1>5 DEF WagesNext
  <1> QED
    BY <1>1, <1>6, PTL DEF WagesSpec

(* No ledger of a day has a negative amount, whatever is worked and edited.*)
THEOREM WagesTyping == WagesSpec => []WagesTypeOK
  BY WagesInductive, PTL DEF WagesInv

-----------------------------------------------------------------------------
(* What a payslip sums *)

PayAmount == {"regular", "overtime", "allowances", "gross"}

DayPay(a) == [d \in Day |-> OfDay(d, a)]

LEMMA OneLedger ==
    ASSUME NEW d \in Day, NEW l \in WageRow, ledger[d] = {l}, NEW a \in PayAmount
    PROVE  OfDay(d, a) = l[a] /\ l[a] \in Nat
  <1> DEFINE f == [k \in ledger[d] |-> k[a]]
  <1>1. l[a] \in Nat
    BY DEF WageRow, PayAmount
  <1>2. DOMAIN f = {l} /\ f[l] = l[a]
    OBVIOUS
  <1>3. OfDay(d, a) = SumFunctionOnSet(f, {l})
    BY <1>2 DEF OfDay, SumFunction
  <1> HIDE DEF f
  <1> QED
    BY <1>1, <1>2, <1>3, SumOne

LEMMA NoLedger ==
    ASSUME NEW d \in Day, ledger[d] = {}, NEW a
    PROVE  OfDay(d, a) = 0
  <1> DEFINE f == [k \in ledger[d] |-> k[a]]
  <1>1. DOMAIN f = {}
    OBVIOUS
  <1> QED
    BY <1>1, SumEmpty DEF OfDay, SumFunction

LEMMA DayAmounts ==
    ASSUME WagesInv, NEW d \in Day
    PROVE  /\ \A a \in PayAmount : OfDay(d, a) \in Nat
           /\ OfDay(d, "gross") = OfDay(d, "regular") + OfDay(d, "overtime") + OfDay(d, "allowances")
           /\ ledger[d] = {} => \A a \in PayAmount : OfDay(d, a) = 0
  <1>1. CASE ledger[d] = {}
    BY <1>1, NoLedger DEF PayAmount
  <1>2. CASE \E l \in WageRow : /\ ledger[d] = {l}
                                /\ l.gross = l.regular + l.overtime + l.allowances
    <2>1. PICK l \in WageRow : /\ ledger[d] = {l}
                               /\ l.gross = l.regular + l.overtime + l.allowances
      BY <1>2
    <2>2. \A a \in PayAmount : OfDay(d, a) = l[a] /\ l[a] \in Nat
      BY <2>1, OneLedger
    <2>3. "regular" \in PayAmount /\ "overtime" \in PayAmount
          /\ "allowances" \in PayAmount /\ "gross" \in PayAmount
      BY DEF PayAmount
    <2> QED
      BY <2>1, <2>2, <2>3
  <1> QED
    BY <1>1, <1>2 DEF WagesInv

LEMMA TotalIs ==
    ASSUME WagesInv, NEW days \in SUBSET Day, NEW a \in PayAmount
    PROVE  /\ Total(days, a) = SumFunctionOnSet(DayPay(a), days)
           /\ Total(days, a) \in Nat
  <1> DEFINE f == [d \in days |-> OfDay(d, a)]
  <1>1. IsFiniteSet(days)
    BY PeriodAssumption, FS_Subset
  <1>2. \A d \in days : f[d] \in Nat /\ f[d] \in Int /\ f[d] = DayPay(a)[d]
    BY DayAmounts DEF DayPay
  <1>3. Total(days, a) = SumFunctionOnSet(f, days)
    BY DEF Total, SumFunction
  <1> HIDE DEF f
  <1>4. SumFunctionOnSet(f, days) = SumFunctionOnSet(DayPay(a), days)
    BY <1>1, <1>2, SumSame
  <1> QED
    BY <1>1, <1>2, <1>3, <1>4, SumNat

(* The gross pay of the days is what its parts add up to. *)
LEMMA GrossOfDays ==
    ASSUME WagesInv
    PROVE  Total(Day, "gross")
             = Total(Day, "regular") + Total(Day, "overtime") + Total(Day, "allowances")
  <1> DEFINE r == DayPay("regular")
             o == DayPay("overtime")
             x == DayPay("allowances")
             g == DayPay("gross")
             h == [d \in Day |-> r[d] + o[d]]
  <1>1. /\ {"regular", "overtime", "allowances", "gross"} \subseteq PayAmount
        /\ IsFiniteSet(Day)
    BY PeriodAssumption DEF PayAmount
  <1>2. \A d \in Day : /\ r[d] \in Int /\ o[d] \in Int /\ x[d] \in Int /\ g[d] \in Int
                       /\ h[d] \in Int /\ h[d] = r[d] + o[d] /\ g[d] = h[d] + x[d]
    BY <1>1, DayAmounts DEF DayPay
  <1>3. /\ Total(Day, "regular") = SumFunctionOnSet(r, Day)
        /\ Total(Day, "overtime") = SumFunctionOnSet(o, Day)
        /\ Total(Day, "allowances") = SumFunctionOnSet(x, Day)
        /\ Total(Day, "gross") = SumFunctionOnSet(g, Day)
    BY <1>1, TotalIs
  <1> HIDE DEF r, o, x, g, h
  <1>4. SumFunctionOnSet(h, Day) = SumFunctionOnSet(r, Day) + SumFunctionOnSet(o, Day)
    BY <1>1, <1>2, SumAdd
  <1>5. SumFunctionOnSet(g, Day) = SumFunctionOnSet(h, Day) + SumFunctionOnSet(x, Day)
    BY <1>1, <1>2, SumAdd
  <1> QED
    BY <1>3, <1>4, <1>5

(* Days that are not listed are missed, unless nobody attended them. *)
LEMMA ListedPart ==
    ASSUME WagesInv, NEW a \in PayAmount
    PROVE  /\ Total(listed, a) <= Total(Day, a)
           /\ {d \in Day : ledger[d] # {}} \subseteq listed => Total(listed, a) = Total(Day, a)
  <1>1. /\ IsFiniteSet(Day) /\ listed \in SUBSET Day /\ Day \in SUBSET Day
        /\ \A d \in Day : DayPay(a)[d] \in Int /\ DayPay(a)[d] >= 0
        /\ \A d \in Day : ledger[d] = {} => DayPay(a)[d] = 0
    BY PeriodAssumption, DayAmounts DEF DayPay, WagesInv, WagesTypeOK
  <1>2. /\ SumFunctionOnSet(DayPay(a), listed) <= SumFunctionOnSet(DayPay(a), Day)
        /\ (\A d \in Day \ listed : DayPay(a)[d] = 0) =>
              SumFunctionOnSet(DayPay(a), listed) = SumFunctionOnSet(DayPay(a), Day)
    BY <1>1, SumPart
  <1> QED
    BY <1>1, <1>2, TotalIs

(* The part of the period that staff are employed is no more than all of it. *)
LEMMA EmployedRange ==
    ASSUME NEW w \in Contracts
    PROVE  Cardinality(Day) \in Nat \ {0} /\ EmployedDays(w) \in 0 .. Cardinality(Day)
  <1>1. Cardinality(Day) \in Nat \ {0}
    BY PeriodAssumption, FS_CardinalityType, FS_EmptySet
  <1>2. w.from \in Int /\ w.until \in Int
    BY ContractAssumption
  <1> QED
    BY <1>1, <1>2 DEF EmployedDays, AtLeastZero, AtMost

(* The daily breakdown explains the payslip, for any days, contract, policy*)
(* and ledgers, of whatever contract they were calculated.                 *)
THEOREM PayslipExplained == WagesSpec => []PayslipIsExplained
  <1>1. WagesInv => PayslipIsExplained
    <2> SUFFICES ASSUME WagesInv PROVE PayslipIsExplained
      OBVIOUS
    <2>1. worker \in Contracts /\ listed \in SUBSET Day /\ Day \in SUBSET Day
      BY DEF WagesInv, WagesTypeOK
    <2>2. "regular" \in PayAmount /\ "overtime" \in PayAmount
          /\ "allowances" \in PayAmount /\ "gross" \in PayAmount
      BY DEF PayAmount
    <2>3. \A a \in PayAmount : Total(Day, a) \in Nat /\ Total(listed, a) \in Nat
      BY <2>1, TotalIs
    <2>4. Breakdown.earned = Total(listed, "gross") /\ Breakdown.overtime = Total(listed, "overtime")
      BY DEF Breakdown, Earned, Total
    <2>5. LineNow.overtime = Total(Day, "overtime")
      BY DEF LineNow
    <2>6. ~worker.staff => LineNow.gross = Total(Day, "gross")
      BY GrossOfDays DEF LineNow
    <2>7. worker.staff => LineNow.gross - LineNow.overtime \leq worker.basic + worker.monthly
      <3>1. /\ OfPeriod(worker, worker.basic) \in Nat
            /\ OfPeriod(worker, worker.basic) <= worker.basic
            /\ OfPeriod(worker, worker.monthly) \in Nat
            /\ OfPeriod(worker, worker.monthly) <= worker.monthly
            /\ worker.basic \in Nat /\ worker.monthly \in Nat
        <4>1. worker.basic \in Nat /\ worker.monthly \in Nat
          BY <2>1, ContractAssumption
        <4>2. \A n \in Nat : OfPeriod(worker, n) \in Nat /\ OfPeriod(worker, n) <= n
          BY <2>1, EmployedRange, MoneyShare DEF OfPeriod
        <4> QED
          BY <4>1, <4>2
      <3>2. worker.staff => LineNow.gross = OfPeriod(worker, worker.basic) + Total(Day, "overtime")
                                              + OfPeriod(worker, worker.monthly)
        BY DEF LineNow, AllowanceForPeriod
      <3> QED
        BY <2>2, <2>3, <2>5, <3>1, <3>2
    <2>8. /\ Total(listed, "gross") <= Total(Day, "gross")
          /\ {d \in Day : ledger[d] # {}} \subseteq listed =>
                /\ Total(listed, "gross") = Total(Day, "gross")
                /\ Total(listed, "overtime") = Total(Day, "overtime")
      BY <2>2, ListedPart
    <2> QED
      BY <2>4, <2>5, <2>6, <2>7, <2>8 DEF PayslipIsExplained
  <1> QED
    BY <1>1, WagesInductive, PTL

-----------------------------------------------------------------------------
(* What a day pays *)

LEMMA ProductLeq ==
    ASSUME NEW a \in Nat, NEW b \in Nat, NEW c \in Nat, NEW d \in Nat, a <= c, b <= d
    PROVE  a * b \in Nat /\ c * d \in Nat /\ a * b <= c * d
  <1>1. a * b <= a * d /\ a * b \in Nat /\ a * d \in Nat
    BY TimesLeq
  <1>2. d * a <= d * c /\ d * a \in Nat /\ d * c \in Nat
    BY TimesLeq
  <1>3. d * a = a * d /\ d * c = c * d
    OBVIOUS
  <1> QED
    BY <1>1, <1>2, <1>3

LEMMA PayLeq ==
    ASSUME NEW w \in Contracts, NEW x \in Nat, NEW y \in Nat, x <= y,
           NEW q \in Nat, NEW r \in Nat, q <= r
    PROVE  PayOfMinutes(w, x, q) <= PayOfMinutes(w, y, r)
  <1>1. w.basic \in Nat /\ w.basic <= w.basic
    BY ContractAssumption
  <1>2. w.basic * x \in Nat /\ w.basic * y \in Nat /\ w.basic * x <= w.basic * y
    BY <1>1, ProductLeq
  <1>3. w.basic * x * q \in Nat /\ w.basic * y * r \in Nat
        /\ w.basic * x * q <= w.basic * y * r
    BY <1>2, ProductLeq
  <1> QED
    BY <1>3, RateNat, MoneyLeq DEF PayOfMinutes

LEMMA PayPlus ==
    ASSUME NEW w \in Contracts, NEW x \in Nat, NEW y \in Nat, NEW q \in Nat
    PROVE  PayOfMinutes(w, x + y, q) <= PayOfMinutes(w, x, q) + PayOfMinutes(w, y, q) + 1
  <1> DEFINE b == w.basic
  <1>1. b \in Nat
    BY ContractAssumption
  <1> HIDE DEF b
  <1>2. b * (x + y) = b * x + b * y /\ b * x \in Nat /\ b * y \in Nat
    BY <1>1, Distributes
  <1>3. (b * x + b * y) * q = b * x * q + b * y * q
        /\ b * x * q \in Nat /\ b * y * q \in Nat
    BY <1>2
  <1>4. b * (x + y) * q = b * x * q + b * y * q
    BY <1>2, <1>3
  <1>5. Money(b * x * q + b * y * q, RateHours(w) * 60 * 4)
          <= Money(b * x * q, RateHours(w) * 60 * 4) + Money(b * y * q, RateHours(w) * 60 * 4) + 1
    <2> DEFINE n == b * x * q
               m == b * y * q
               d == RateHours(w) * 60 * 4
    <2>1. n \in Int /\ m \in Int /\ d \in Nat \ {0}
      BY <1>3, RateNat
    <2> HIDE DEF n, m, d
    <2>2. Money(n + m, d) <= Money(n, d) + Money(m, d) + 1
      BY <2>1, MoneyPlus
    <2> QED
      BY <2>2 DEF n, m, d
  <1> QED
    BY <1>4, <1>5 DEF PayOfMinutes, b

(* The minutes of a normal day pay what the schedule says a day pays. *)
LEMMA NormalDay ==
    ASSUME NEW w \in Contracts
    PROVE  AllowanceForDay(w) + PayOfMinutes(w, 60 * DailyHours, 4) = ScheduledDayPay(w)
  <1> DEFINE b == w.basic
             k == DailyHours * 240
  <1>1. /\ b \in Nat /\ DailyHours \in Nat \ {0} /\ k \in Nat \ {0}
        /\ w.type \in {"monthly", "daily", "shift", "hourly"}
    BY ContractAssumption, WagePolicyAssumption
  <1>2. PayOfMinutes(w, 60 * DailyHours, 4)
          = Money(b * (60 * DailyHours) * 4, RateHours(w) * 60 * 4)
    BY DEF PayOfMinutes
  <1> HIDE DEF b
  <1>3. b * (60 * DailyHours) * 4 = k * b /\ k * b \in Nat
    BY <1>1
  <1>4. CASE w.type = "monthly"
    <2>1. RateHours(w) * 60 * 4 = k * 30
      BY <1>1, <1>4 DEF RateHours
    <2>2. Money(k * b, k * 30) = Money(b, 30)
      <3> HIDE DEF k
      <3> QED BY <1>1, MoneyScale
    <2> QED
      BY <1>2, <1>3, <1>4, <2>1, <2>2 DEF ScheduledDayPay, b
  <1>5. CASE w.type \in {"daily", "shift"}
    <2>1. RateHours(w) * 60 * 4 = k
      BY <1>1, <1>5 DEF RateHours
    <2>2. Money(k * b, k) = b
      <3> HIDE DEF k
      <3> QED BY <1>1, MoneyExact
    <2> QED
      BY <1>2, <1>3, <1>5, <2>1, <2>2 DEF ScheduledDayPay, b
  <1>6. CASE w.type = "hourly"
    <2>1. RateHours(w) * 60 * 4 = 240
      BY <1>6 DEF RateHours
    <2>2. b * DailyHours \in Nat /\ k * b = (b * DailyHours) * 240
      BY <1>1
    <2>3. Money((b * DailyHours) * 240, 240) = b * DailyHours
      BY <2>2, MoneyExact
    <2> QED
      BY <1>2, <1>3, <1>6, <2>1, <2>2, <2>3 DEF ScheduledDayPay, b
  <1> QED
    BY <1>1, <1>4, <1>5, <1>6

(* Overtime costs no more than a fil: at 1 or more times the normal pay. *)
LEMMA OvertimePays ==
    ASSUME NEW w \in Contracts, NEW day \in DayInput, Multiplier >= 4, NightMultiplier >= 4
    PROVE  DayWage(w, day).gross + 1 >= DayWage(w, [day EXCEPT !.overtime = 0]).gross
  <1> DEFINE x == day.worked
             y == day.overtime
             o == day.outcome
             q == OvertimeRate(day.night)
             r == RegularMinutes(x, y, o)
             f == RegularMinutes(x, 0, o)
             a == Money(AllowanceForDay(w) * Fraction(o), 100)
  <1>1. /\ x \in Nat /\ y \in Nat
        /\ q \in Nat /\ 4 <= q
    BY MinutesAssumption, WagePolicyAssumption DEF DayInput, OvertimeRate
  <1>2. r \in Nat /\ f \in Nat /\ f <= r + y
    BY <1>1, RegularNat
  <1>3. [day EXCEPT !.overtime = 0].worked = x /\ [day EXCEPT !.overtime = 0].overtime = 0
        /\ [day EXCEPT !.overtime = 0].outcome = o /\ [day EXCEPT !.overtime = 0].night = day.night
    BY DEF DayInput
  <1>4. DayWage(w, day).gross = PayOfMinutes(w, r, 4) + PayOfMinutes(w, y, q) + a
    BY DEF DayWage
  <1>5. DayWage(w, [day EXCEPT !.overtime = 0]).gross
          = PayOfMinutes(w, f, 4) + PayOfMinutes(w, 0, q) + a
    BY <1>3 DEF DayWage
  <1>6. a \in Nat
    <2>1. AllowanceForDay(w) \in Nat /\ Fraction(o) \in 0 .. 100 /\ 100 \in Nat \ {0}
      BY AllowanceNat, FractionRange
    <2> QED
      BY <2>1, MoneyShare
  <1> HIDE DEF x, y, o, q, r, f, a
  <1>7. PayOfMinutes(w, f, 4) <= PayOfMinutes(w, r + y, 4) /\ r + y \in Nat
    BY <1>1, <1>2, PayLeq
  <1>8. PayOfMinutes(w, r + y, 4) <= PayOfMinutes(w, r, 4) + PayOfMinutes(w, y, 4) + 1
    BY <1>1, <1>2, PayPlus
  <1>9. PayOfMinutes(w, y, 4) <= PayOfMinutes(w, y, q)
    BY <1>1, PayLeq
  <1>10. PayOfMinutes(w, 0, q) = 0
    <2>1. w.basic * 0 * q = 0 /\ RateHours(w) * 60 * 4 \in Nat \ {0}
      BY <1>1, ContractAssumption, RateNat
    <2>2. \A n \in Nat \ {0} : Money(0 * n, n) = 0 /\ 0 * n = 0
      BY MoneyExact
    <2> QED
      BY <2>1, <2>2 DEF PayOfMinutes
  <1>11. /\ PayOfMinutes(w, f, 4) \in Nat /\ PayOfMinutes(w, r, 4) \in Nat
         /\ PayOfMinutes(w, y, 4) \in Nat /\ PayOfMinutes(w, y, q) \in Nat
         /\ PayOfMinutes(w, r + y, 4) \in Nat
    BY <1>1, <1>2, <1>7, PayNat
  <1> QED
    BY <1>4, <1>5, <1>6, <1>7, <1>8, <1>9, <1>10, <1>11

LEMMA HalfDayPaysLess ==
    ASSUME NEW w \in Contracts, NEW day \in DayInput
    PROVE  DayWage(w, [day EXCEPT !.outcome = "half_day"]).gross
             <= DayWage(w, [day EXCEPT !.outcome = "full_day"]).gross
  <1> DEFINE x == day.worked
             y == day.overtime
             h == RegularMinutes(x, y, "half_day")
             f == RegularMinutes(x, y, "full_day")
             c == PayOfMinutes(w, y, OvertimeRate(day.night))
             a == AllowanceForDay(w)
             half == [day EXCEPT !.outcome = "half_day"]
             full == [day EXCEPT !.outcome = "full_day"]
  <1>1. x \in Nat /\ y \in Nat
    BY MinutesAssumption DEF DayInput
  <1>2. h \in Nat /\ f \in Nat /\ h <= f
    BY <1>1, RegularNat
  <1>3. /\ half.worked = x /\ half.overtime = y /\ half.outcome = "half_day" /\ half.night = day.night
        /\ full.worked = x /\ full.overtime = y /\ full.outcome = "full_day" /\ full.night = day.night
    BY DEF DayInput
  <1> HIDE DEF half, full
  <1>4. DayWage(w, half).gross = PayOfMinutes(w, h, 4) + c + Money(a * HalfDay, 100)
    BY <1>3 DEF DayWage, Fraction
  <1>5. DayWage(w, full).gross = PayOfMinutes(w, f, 4) + c + Money(a * 100, 100)
    BY <1>3 DEF DayWage, Fraction
  <1>6. Money(a * HalfDay, 100) \in Nat /\ Money(a * HalfDay, 100) <= Money(a * 100, 100)
        /\ Money(a * 100, 100) \in Nat
    <2>1. a \in Nat /\ HalfDay \in 0 .. 100 /\ 100 \in 0 .. 100 /\ 100 \in Nat \ {0}
      BY AllowanceNat, WagePolicyAssumption
    <2> HIDE DEF a
    <2>2. Money(a * 100, 100) = a
      BY <2>1, MoneyExact
    <2>3. Money(a * HalfDay, 100) \in Nat /\ Money(a * HalfDay, 100) <= a
      BY <2>1, MoneyShare
    <2> QED
      BY <2>1, <2>2, <2>3
  <1>7. c \in Nat
    <2>1. OvertimeRate(day.night) \in Nat
      BY WagePolicyAssumption DEF OvertimeRate
    <2> QED
      BY <1>1, <2>1, PayNat
  <1> HIDE DEF x, y, h, f, c, a
  <1>8. PayOfMinutes(w, h, 4) <= PayOfMinutes(w, f, 4)
        /\ PayOfMinutes(w, h, 4) \in Nat /\ PayOfMinutes(w, f, 4) \in Nat
    <2>1. 4 \in Nat /\ 4 <= 4
      OBVIOUS
    <2> QED
      BY <1>2, <2>1, PayLeq, PayNat
  <1> QED
    BY <1>4, <1>5, <1>6, <1>7, <1>8 DEF half, full

LEMMA FullDayMissesNothing ==
    ASSUME WagesInv, NEW d \in Day, NEW l \in ledger[d], l = DayWage(worker, l.day),
           l.day.outcome = "full_day", l.day.worked - l.day.overtime >= 60 * DailyHours
    PROVE  Impact(d) = 0
  <1> DEFINE w == worker
             r == RegularMinutes(l.day.worked, l.day.overtime, "full_day")
             a == AllowanceForDay(w)
  <1>1. /\ w \in Contracts /\ ledger[d] = {l} /\ l \in WageRow
    BY DEF WagesInv, WagesTypeOK
  <1>2. l.day.worked \in Nat /\ l.day.overtime \in Nat
    BY <1>1, MinutesAssumption DEF WageRow, DayInput
  <1>3. 60 * DailyHours \in Nat /\ r \in Nat /\ 60 * DailyHours <= r
    BY <1>2, RegularNat, WagePolicyAssumption
  <1>4. a \in Nat /\ Money(a * 100, 100) = a
    <2>1. a \in Nat
      BY <1>1, AllowanceNat
    <2> HIDE DEF a
    <2> QED
      BY <2>1, MoneyExact
  <1>5. l.regular = PayOfMinutes(w, r, 4) /\ l.allowances = a
    <2>1. /\ DayWage(w, l.day).regular = PayOfMinutes(w, r, 4)
          /\ DayWage(w, l.day).allowances = Money(a * 100, 100)
      BY DEF DayWage, Fraction
    <2> QED
      BY <1>4, <2>1
  <1>6. OfDay(d, "regular") = l.regular /\ OfDay(d, "allowances") = l.allowances
    BY <1>1, OneLedger DEF PayAmount
  <1> HIDE DEF w, r, a
  <1>7. /\ PayOfMinutes(w, 60 * DailyHours, 4) <= PayOfMinutes(w, r, 4)
        /\ PayOfMinutes(w, 60 * DailyHours, 4) \in Nat /\ PayOfMinutes(w, r, 4) \in Nat
    <2>1. 4 \in Nat /\ 4 <= 4
      OBVIOUS
    <2> QED
      BY <1>1, <1>3, <2>1, PayLeq, PayNat
  <1>8. ScheduledDayPay(w) = a + PayOfMinutes(w, 60 * DailyHours, 4)
    BY <1>1, NormalDay DEF a
  <1>9. AtLeastZero(ScheduledDayPay(w) - l.regular - l.allowances) = 0
    BY <1>4, <1>5, <1>7, <1>8 DEF AtLeastZero
  <1> QED
    BY <1>1, <1>6, <1>9 DEF Impact, w

(* Every day's pay is in order, whatever is worked, if overtime is paid at *)
(* least as the normal hours are: no check of the policy says it must.     *)
THEOREM PaidInOrder ==
    ASSUME Multiplier >= 4, NightMultiplier >= 4
    PROVE  WagesSpec => []DaysPayInOrder
  <1>1. WagesInv => DaysPayInOrder
    <2> SUFFICES ASSUME WagesInv, NEW d \in Day, NEW l \in ledger[d]
                 PROVE  /\ DayWage(worker, l.day).gross + 1
                             >= DayWage(worker, [l.day EXCEPT !.overtime = 0]).gross
                        /\ DayWage(worker, [l.day EXCEPT !.outcome = "half_day"]).gross
                             <= DayWage(worker, [l.day EXCEPT !.outcome = "full_day"]).gross
                        /\ (/\ l = DayWage(worker, l.day)
                            /\ l.day.outcome = "full_day"
                            /\ l.day.worked - l.day.overtime >= 60 * DailyHours)
                              => Impact(d) = 0
      BY DEF DaysPayInOrder
    <2>1. worker \in Contracts /\ l.day \in DayInput
      BY DEF WagesInv, WagesTypeOK, WageRow
    <2> QED
      BY <2>1, OvertimePays, HalfDayPaysLess, FullDayMissesNothing
  <1> QED
    BY <1>1, WagesInductive, PTL

-----------------------------------------------------------------------------
(* The three components together *)

(* The composition moves each of its components by their own steps. *)
LEMMA EachMoves == AllSpec => Spec /\ AccountsSpec /\ WagesSpec
  <1>1. AllInit => Init /\ AccountsInit /\ WagesInit
    BY DEF AllInit
  <1>2. [AllNext]_allVars => [Next]_vars /\ [AccountsNext]_accountVars /\ [WagesNext]_wageVars
    BY DEF AllNext, allVars, vars, disputeVars, accountVars, wageVars
  <1> QED
    BY <1>1, <1>2, PTL DEF AllSpec, Spec, AccountsSpec, WagesSpec

(* Memberships and wages keep their types in every behaviour of the three. *)
THEOREM BackOfficeTyping == AllSpec => []TypesOK
  BY EachMoves, AccountsTyping, WagesTyping, PTL DEF TypesOK

================================================================================
