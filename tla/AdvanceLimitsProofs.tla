--------------------------- MODULE AdvanceLimitsProofs ---------------------------
(* Theorems about AdvanceLimits, for any workers, advances, requests and   *)
(* decisions in progress.                                                  *)
EXTENDS AdvanceLimits, SetSums, TLAPS

(* The row lock of a decision: its advance is undecided until it commits,  *)
(* and no other decision works on it.                                      *)
DecisionInv ==
    \A u \in Approver : \A d \in decision[u] :
        /\ status[d.about] = "requested"
        /\ \A v \in Approver : \A e \in decision[v] :
              e.about = d.about => u = v /\ d = e

(* A request in progress has no row yet, and shares it with no other.      *)
RequestInv ==
    \A q \in Requester : \A r \in requesting[q] :
        /\ status[r.about] = "none"
        /\ \A p \in Requester : \A s \in requesting[p] :
              s.about = r.about => p = q /\ r = s

IInv ==
    /\ TypeOK
    /\ DecisionInv
    /\ RequestInv

-----------------------------------------------------------------------------
(* Every limit is an amount, whatever is outstanding. *)
LEMMA LimitType ==
    ASSUME NEW s, NEW w
    PROVE  Limit(s, w) \in Amount
  BY PolicyAssumption DEF Limit, Amount

LEMMA GrantedType ==
    ASSUME TypeOK, NEW u \in Approver, NEW d \in decision[u]
    PROVE  d.about \in Advance /\ Granted(d) \in Amount
  BY DEF TypeOK, Granted, Decision

LEMMA InitInv == Init => IInv
  BY MaxShareAssumption, PolicyAssumption, DayAssumption
     DEF Init, Day, IInv, TypeOK, DecisionInv, RequestInv, Amount, Status

LEMMA PeriodType ==
    ASSUME TypeOK
    PROVE  CountingPeriods \subseteq SUBSET Day
  <1>1. MonthStart[today] .. today \in SUBSET Day
    BY DayAssumption DEF TypeOK, Day
  <1>2. {c \in cycles : today \in c} \subseteq SUBSET Day
    BY DEF TypeOK
  <1> QED
    BY <1>1, <1>2 DEF CountingPeriods

(* A request that is overtaken is the same request. *)
LEMMA OvertakenType ==
    ASSUME TypeOK, NEW q \in Requester, NEW r \in requesting[q], NEW w
    PROVE  /\ Overtaken(r, w) \in Creation
           /\ Overtaken(r, w).about = r.about
           /\ Overtaken(r, w).period = r.period
           /\ ~Overtaken(r, w).overtaken => ~r.overtaken /\ Owner[r.about] # w
  <1>1. r \in Creation
    BY DEF TypeOK
  <1>2. CASE Owner[r.about] = w
    <2>1. Overtaken(r, w) = [r EXCEPT !.overtaken = TRUE]
      BY <1>2 DEF Overtaken
    <2> QED
      BY <1>1, <2>1 DEF Creation
  <1>3. CASE Owner[r.about] # w
    BY <1>1, <1>3 DEF Overtaken
  <1> QED
    BY <1>2, <1>3

LEMMA RequestStepInv ==
    ASSUME IInv, NEW q \in Requester, RequestStep(q)
    PROVE  IInv'
  <1> USE DEF IInv, RequestStep
  <1>1. ASSUME NEW a \in Advance, NEW amount \in Amount, RequestCount(q, a, amount)
        PROVE  IInv'
    <2>1. PICK period \in CountingPeriods :
             requesting' = [requesting EXCEPT ![q] =
                {[about |-> a, amount |-> amount, period |-> period, overtaken |-> FALSE]}]
      BY <1>1 DEF RequestCount
    <2> DEFINE new == [about |-> a, amount |-> amount, period |-> period,
                       overtaken |-> FALSE]
    <2>2. new \in Creation /\ new.about = a
      BY PeriodType DEF Creation
    <2> HIDE DEF new
    <2>3. requesting' = [requesting EXCEPT ![q] = {new}]
      BY <2>1 DEF new
    <2> USE <1>1 DEF RequestCount, advanceVars, countVars, dayVars
    <2>4. TypeOK'
      BY <2>2, <2>3 DEF TypeOK
    <2>5. RequestInv'
      BY <2>2, <2>3 DEF TypeOK, RequestInv
    <2> QED
      BY <2>4, <2>5 DEF DecisionInv
  <1>2. ASSUME NEW r \in requesting[q], RequestCommit(q, r)
        PROVE  IInv'
    <2> USE <1>2 DEF RequestCommit
    <2> DEFINE w == Owner[r.about]
    <2>1. /\ r.about \in Advance /\ r.amount \in Amount /\ r.period \in SUBSET Day
          /\ status[r.about] = "none"
      BY DEF TypeOK, RequestInv, Creation
    <2>2. /\ requesting'[q] = {} /\ DOMAIN requesting' = Requester
          /\ \A p \in Requester \ {q} :
                requesting'[p] = {Overtaken(s, w) : s \in requesting[p]}
      OBVIOUS
    <2>3. \A p \in Requester : requesting'[p] \in SUBSET Creation
      BY <2>2, OvertakenType
    <2>4. TypeOK'
      <3>1. requesting' \in [Requester -> SUBSET Creation]
        BY <2>3
      <3> QED
        BY <2>1, <3>1 DEF TypeOK, Status, dayVars
    <2>5. DecisionInv'
      BY <2>1 DEF TypeOK, DecisionInv
    <2>6. ASSUME NEW p \in Requester, NEW s \in requesting'[p]
          PROVE  p # q /\ \E o \in requesting[p] : s = Overtaken(o, w) /\ s.about = o.about
      BY <2>2, <2>6, OvertakenType
    <2>7. RequestInv'
      <3> SUFFICES ASSUME NEW p \in Requester, NEW s \in requesting'[p]
                   PROVE  /\ status'[s.about] = "none"
                          /\ \A t \in Requester : \A x \in requesting'[t] :
                                x.about = s.about => p = t /\ s = x
        BY DEF RequestInv
      <3>1. PICK o \in requesting[p] : s = Overtaken(o, w) /\ s.about = o.about
        BY <2>6
      <3>2. s.about # r.about /\ s.about \in Advance /\ status[s.about] = "none"
        BY <2>6, <3>1 DEF TypeOK, RequestInv, Creation
      <3>3. ASSUME NEW t \in Requester, NEW x \in requesting'[t], x.about = s.about
            PROVE  p = t /\ s = x
        <4>1. PICK y \in requesting[t] : x = Overtaken(y, w) /\ x.about = y.about
          BY <2>6
        <4> QED
          BY <3>1, <3>3, <4>1 DEF RequestInv
      <3> QED
        BY <2>1, <3>2, <3>3 DEF TypeOK
    <2> QED
      BY <2>4, <2>5, <2>7
  <1>3. ASSUME NEW r \in requesting[q], RequestRefused(q, r)
        PROVE  IInv'
    <2> USE <1>3 DEF RequestRefused, advanceVars, countVars, dayVars
    <2>1. TypeOK'
      BY DEF TypeOK
    <2>2. \A p \in Requester : requesting'[p] \subseteq requesting[p]
      BY DEF TypeOK
    <2> QED
      BY <2>1, <2>2 DEF DecisionInv, RequestInv
  <1> QED
    BY <1>1, <1>2, <1>3

(* A decision beside which another one commits. *)
LaterThan(e, a) == [e EXCEPT !.since = @ \cup {a}]

LEMMA LaterThanType ==
    ASSUME TypeOK, NEW v \in Approver, NEW e \in decision[v], NEW a \in Advance
    PROVE  /\ LaterThan(e, a) \in Decision
           /\ LaterThan(e, a).about = e.about /\ LaterThan(e, a).since = e.since \cup {a}
           /\ LaterThan(e, a).limit = e.limit /\ LaterThan(e, a).share = e.share
  BY DEF TypeOK, Decision, LaterThan

LEMMA DecisionStepInv ==
    ASSUME IInv, NEW u \in Approver, DecisionStep(u)
    PROVE  IInv'
  <1> USE DEF IInv, DecisionStep
  <1>1. ASSUME NEW a \in Advance, NEW approve \in BOOLEAN, NEW asked \in Amount,
               DecideLock(u, a, approve, asked)
        PROVE  IInv'
    <2> DEFINE new == [about |-> a, approve |-> approve, asked |-> asked,
                       share |-> share[Owner[a]], limit |-> -1, since |-> {}]
    <2>1. new \in Decision /\ new.about = a
      BY OwnerAssumption DEF TypeOK, Decision
    <2>2. decision' = [decision EXCEPT ![u] = {new}]
      BY <1>1 DEF DecideLock
    <2> HIDE DEF new
    <2> USE <1>1 DEF DecideLock, RowFree, advanceVars, countVars, dayVars
    <2>3. TypeOK'
      BY <2>1, <2>2 DEF TypeOK
    <2>4. DecisionInv'
      BY <2>1, <2>2 DEF TypeOK, DecisionInv
    <2> QED
      BY <2>3, <2>4 DEF RequestInv
  <1>2. ASSUME NEW d \in decision[u], DecideLimit(u, d)
        PROVE  IInv'
    <2> DEFINE new == [d EXCEPT !.limit = Limit(d.share, Owner[d.about]), !.since = {}]
    <2>1. new \in Decision /\ new.about = d.about
      <3> DEFINE l == Limit(d.share, Owner[d.about])
      <3>1. l \in Amount
        BY LimitType
      <3> HIDE DEF l
      <3>2. d \in Decision
        BY DEF TypeOK
      <3>3. /\ [d EXCEPT !.limit = l, !.since = {}] \in Decision
            /\ [d EXCEPT !.limit = l, !.since = {}].about = d.about
        BY <3>1, <3>2 DEF Decision
      <3> QED
        BY <3>3 DEF l
    <2>2. /\ decision' = [decision EXCEPT ![u] = {new}]
          /\ UNCHANGED <<advanceVars, countVars, dayVars, share, enabled, requesting>>
      BY <1>2 DEF DecideLimit
    <2> HIDE DEF new
    <2> USE DEF advanceVars, countVars, dayVars
    <2>3. TypeOK'
      BY <2>1, <2>2 DEF TypeOK
    <2>4. DecisionInv'
      <3>1. /\ decision'[u] = {new}
            /\ \A v \in Approver \ {u} : decision'[v] = decision[v]
        BY <2>2 DEF TypeOK
      <3> QED
        BY <2>1, <2>2, <3>1 DEF DecisionInv
    <2> QED
      BY <2>2, <2>3, <2>4 DEF RequestInv
  <1>3. ASSUME NEW d \in decision[u], DecideCommit(u, d)
        PROVE  IInv'
    <2> USE <1>3 DEF DecideCommit
    <2>1. d.about \in Advance /\ Granted(d) \in Amount /\ status[d.about] = "requested"
      BY GrantedType DEF DecisionInv
    <2>2. /\ decision'[u] = {} /\ DOMAIN decision' = Approver
          /\ \A v \in Approver \ {u} :
                decision'[v] = {LaterThan(e, d.about) : e \in decision[v]}
      BY DEF LaterThan
    <2>3. TypeOK'
      <3>1. \A v \in Approver : decision'[v] \in SUBSET Decision
        BY <2>1, <2>2, LaterThanType
      <3>2. decision' \in [Approver -> SUBSET Decision]
        BY <3>1
      <3> QED
        BY <2>1, <3>2, PolicyAssumption DEF TypeOK, Status, Amount, countVars, dayVars
    <2>4. ASSUME NEW v \in Approver, NEW e \in decision'[v]
          PROVE  v # u /\ \E o \in decision[v] :
                    e = LaterThan(o, d.about) /\ e.about = o.about
      BY <2>1, <2>2, <2>4, LaterThanType
    <2>5. DecisionInv'
      <3> SUFFICES ASSUME NEW v \in Approver, NEW e \in decision'[v]
                   PROVE  /\ status'[e.about] = "requested"
                          /\ \A t \in Approver : \A x \in decision'[t] :
                                x.about = e.about => v = t /\ e = x
        BY DEF DecisionInv
      <3>1. PICK o \in decision[v] : e = LaterThan(o, d.about) /\ e.about = o.about
        BY <2>4
      <3>2. e.about # d.about /\ e.about \in Advance /\ status[e.about] = "requested"
        BY <2>4, <3>1 DEF TypeOK, DecisionInv, Decision
      <3>3. ASSUME NEW t \in Approver, NEW x \in decision'[t], x.about = e.about
            PROVE  v = t /\ e = x
        <4>1. PICK y \in decision[t] : x = LaterThan(y, d.about) /\ x.about = y.about
          BY <2>4
        <4> QED
          BY <3>1, <3>3, <4>1 DEF DecisionInv
      <3> QED
        BY <2>1, <3>2, <3>3 DEF TypeOK
    <2>6. RequestInv'
      BY <2>1 DEF TypeOK, RequestInv, Creation
    <2> QED
      BY <2>3, <2>5, <2>6
  <1>4. ASSUME NEW d \in decision[u], DecideRefused(u, d)
        PROVE  IInv'
    <2> USE <1>4 DEF DecideRefused, advanceVars, countVars, dayVars
    <2>1. TypeOK'
      BY DEF TypeOK
    <2>2. \A v \in Approver : decision'[v] \subseteq decision[v]
      BY DEF TypeOK
    <2> QED
      BY <2>1, <2>2 DEF DecisionInv, RequestInv
  <1> QED
    BY <1>1, <1>2, <1>3, <1>4

(* cancel_advance, mark_disbursed and lock_payroll wait for the row lock.  *)
LEMMA BecomesInv ==
    ASSUME IInv, NEW a \in Advance, NEW new \in Status,
           status[a] # "none", Becomes(a, new)
    PROVE  IInv'
  <1> USE DEF IInv, Becomes, RowFree, countVars, dayVars
  <1>1. TypeOK'
    BY DEF TypeOK
  <1>2. DecisionInv'
    BY DEF TypeOK, DecisionInv
  <1>3. RequestInv'
    BY DEF TypeOK, RequestInv
  <1> QED
    BY <1>1, <1>2, <1>3

(* Days, cycles, wages and the policy. *)
LEMMA ElsewhereSteps ==
    ASSUME TypeOK,
           \/ CycleStep \/ PolicySwitch \/ UNCHANGED vars
           \/ \E w \in Worker, s \in 0 .. MaxShare : ShareChange(w, s)
    PROVE  /\ today' \in Day /\ cycles' \in SUBSET SUBSET Day
           /\ share' \in [Worker -> 0 .. MaxShare] /\ enabled' \in BOOLEAN
           /\ UNCHANGED <<advanceVars, countVars, requesting, decision>>
  <1>1. CASE NextDay
    BY <1>1, DayAssumption DEF NextDay, TypeOK, Day
  <1>2. ASSUME NEW from \in Day, NEW to \in Day,
               CycleCreate(from .. to) \/ \E c \in cycles : CycleEdit(c, from .. to)
        PROVE  /\ cycles' \in SUBSET SUBSET Day
               /\ UNCHANGED <<advanceVars, countVars, today, share, enabled, requesting, decision>>
    <2>1. from .. to \in SUBSET Day
      BY DayAssumption DEF Day
    <2> HIDE DEF Day
    <2> QED
      BY <1>2, <2>1 DEF CycleCreate, CycleEdit, TypeOK
  <1>3. ASSUME NEW c \in cycles, CycleDelete(c)
        PROVE  /\ cycles' \in SUBSET SUBSET Day
               /\ UNCHANGED <<advanceVars, countVars, today, share, enabled, requesting, decision>>
    BY <1>3 DEF CycleDelete, TypeOK
  <1>4. CASE PolicySwitch \/ UNCHANGED vars
             \/ \E w \in Worker, s \in 0 .. MaxShare : ShareChange(w, s)
    BY <1>4 DEF PolicySwitch, ShareChange, TypeOK, dayVars, vars
  <1>5. CASE CycleStep
    BY <1>1, <1>2, <1>3, <1>5 DEF CycleStep, TypeOK
  <1> QED
    BY <1>4, <1>5

LEMMA NextInv == IInv /\ [Next]_vars => IInv'
  <1> SUFFICES ASSUME IInv, [Next]_vars PROVE IInv'
    OBVIOUS
  <1>1. CASE \E a \in Advance : Cancel(a) \/ Disburse(a) \/ Deduct(a)
    BY <1>1, BecomesInv DEF Cancel, Cancellable, Disburse, Deduct, Status
  <1>2. CASE CycleStep \/ PolicySwitch \/ (\E w \in Worker, s \in 0 .. MaxShare : ShareChange(w, s))
             \/ UNCHANGED vars
    <2>1. /\ today' \in Day /\ cycles' \in SUBSET SUBSET Day
          /\ share' \in [Worker -> 0 .. MaxShare] /\ enabled' \in BOOLEAN
          /\ UNCHANGED <<advanceVars, countVars, requesting, decision>>
      BY <1>2, ElsewhereSteps DEF IInv
    <2> QED
      BY <2>1 DEF IInv, TypeOK, DecisionInv, RequestInv, advanceVars, countVars
  <1> QED
    BY <1>1, <1>2, RequestStepInv, DecisionStepInv DEF Next

LEMMA Invariance == Spec => []IInv
  BY InitInv, NextInv, PTL DEF Spec

-----------------------------------------------------------------------------
(* Types: no limit a decision computes is negative, or above the maximum   *)
(* of the policy (available_advance_limit).                                *)
THEOREM Typing == Spec => []TypeOK
  <1>1. IInv => TypeOK
    BY DEF IInv
  <1> QED
    BY <1>1, Invariance, PTL

LEMMA StepIsFinal == IInv /\ [Next]_vars => [FinalStep]_vars
  <1> SUFFICES ASSUME IInv, Next PROVE FinalStep
    OBVIOUS
  <1> USE DEF IInv, FinalStep
  <1>1. ASSUME NEW q \in Requester, NEW r \in requesting[q], RequestCommit(q, r)
        PROVE  FinalStep
    BY <1>1 DEF RequestCommit, RequestInv, TypeOK
  <1>2. ASSUME NEW u \in Approver, NEW d \in decision[u], DecideCommit(u, d)
        PROVE  FinalStep
    BY <1>2 DEF DecideCommit, DecisionInv, TypeOK
  <1>3. ASSUME NEW a \in Advance, Cancel(a) \/ Disburse(a) \/ Deduct(a)
        PROVE  FinalStep
    BY <1>3 DEF Cancel, Cancellable, Disburse, Deduct, Becomes, TypeOK
  <1>4. ASSUME UNCHANGED <<status, approved>> PROVE FinalStep
    BY <1>4
  <1> QED
    BY <1>1, <1>2, <1>3, <1>4, ElsewhereSteps
       DEF Next, RequestStep, DecisionStep, RequestCount, RequestRefused, DecideLock,
           DecideLimit, DecideRefused, advanceVars

(* A decided advance only goes on to be disbursed and deducted, at the     *)
(* amount that was approved, whatever races it (advances/services.py).     *)
THEOREM Final == Spec => DecisionIsFinal
  BY StepIsFinal, Invariance, PTL DEF Spec, DecisionIsFinal

-----------------------------------------------------------------------------
(* The count of active requests.  Nothing locks it: the requests in        *)
(* progress are counted with the ones that are there.                      *)

(* The requests in progress that have counted in a period which covers     *)
(* this one.                                                               *)
Coming(w, period) ==
    {q \in Requester : \E r \in requesting[q] :
        Owner[r.about] = w /\ period \subseteq r.period}

(* What a request has counted still holds, unless another overtook it.     *)
CountedInv ==
    \A q \in Requester : \A r \in requesting[q] :
        ~r.overtaken => Cardinality(Active(Owner[r.about], r.period)) < MaxRequests

(* Without overlaps the policy's number is kept.                           *)
AloneInv ==
    \A w \in Worker, period \in SUBSET Day :
        Cardinality(CountedIn(w, period) \ overlapped) <= MaxRequests

(* The last of those that count found less than the policy's number.       *)
BesideInv ==
    \A w \in Worker, period \in SUBSET Day :
        Cardinality(CountedIn(w, period)) + Cardinality(Coming(w, period))
            <= MaxRequests + Cardinality(Requester) - 1

PolicyInv == CountedInv /\ AloneInv /\ BesideInv

LEMMA CountsFinite ==
    ASSUME NEW w, NEW period
    PROVE  /\ IsFiniteSet(Active(w, period)) /\ Cardinality(Active(w, period)) \in Nat
           /\ IsFiniteSet(CountedIn(w, period)) /\ Cardinality(CountedIn(w, period)) \in Nat
           /\ IsFiniteSet(Coming(w, period)) /\ Cardinality(Coming(w, period)) \in Nat
           /\ Cardinality(Coming(w, period)) <= Cardinality(Requester)
           /\ Cardinality(Requester) \in Nat \ {0}
  <1>1. /\ Active(w, period) \in SUBSET Advance
        /\ CountedIn(w, period) \in SUBSET Advance
        /\ Coming(w, period) \in SUBSET Requester
    BY DEF Active, CountedIn, Coming
  <1>2. Cardinality(Requester) \in Nat \ {0}
    BY RequesterAssumption, FS_CardinalityType, FS_EmptySet
  <1> QED
    BY <1>1, <1>2, AdvanceAssumption, RequesterAssumption, FS_Subset, FS_CardinalityType

(* At most one more element makes a set at most one larger. *)
LEMMA OneLarger ==
    ASSUME NEW S, IsFiniteSet(S), NEW x, NEW T, T \subseteq S \cup {x}
    PROVE  /\ Cardinality(T) \in Nat /\ Cardinality(S) \in Nat
           /\ Cardinality(T) <= IF x \in T THEN Cardinality(S) + 1 ELSE Cardinality(S)
  <1>1. /\ IsFiniteSet(S \cup {x})
        /\ Cardinality(S \cup {x}) \in {Cardinality(S), Cardinality(S) + 1}
        /\ Cardinality(S) \in Nat
    BY FS_AddElement, FS_CardinalityType
  <1>2. /\ T \in SUBSET (S \cup {x})
        /\ x \notin T => T \in SUBSET S
    OBVIOUS
  <1>3. /\ IsFiniteSet(T) /\ Cardinality(T) \in Nat
        /\ Cardinality(T) <= Cardinality(S \cup {x})
    BY <1>1, <1>2, FS_Subset, FS_CardinalityType
  <1>4. x \notin T => Cardinality(T) <= Cardinality(S)
    BY <1>2, FS_Subset
  <1> QED
    BY <1>1, <1>3, <1>4

(* A step after which no more requests count, and no new one was counted.  *)
LEMMA FewerActive ==
    ASSUME IInv, PolicyInv, created' = created, against' = against, overlapped' = overlapped,
           \A a \in Advance :
               /\ status'[a] \notin {"rejected", "cancelled"}
                     => status[a] \notin {"rejected", "cancelled"}
               /\ status[a] = "none" => status'[a] = "none",
           \A q \in Requester : requesting'[q] \subseteq requesting[q]
    PROVE  PolicyInv'
  <1>1. ASSUME NEW w, NEW period
        PROVE  /\ Active(w, period)' \in SUBSET Active(w, period)
               /\ CountedIn(w, period)' \in SUBSET CountedIn(w, period)
               /\ Coming(w, period)' \in SUBSET Coming(w, period)
    BY DEF Active, CountedIn, Coming
  <1>2. CountedInv'
    <2> SUFFICES ASSUME NEW q \in Requester, NEW r \in requesting'[q], ~r.overtaken
                 PROVE  Cardinality(Active(Owner[r.about], r.period)') < MaxRequests
      BY DEF CountedInv, Active
    <2> DEFINE A == Active(Owner[r.about], r.period)
    <2>1. Cardinality(A) < MaxRequests
      BY DEF PolicyInv, CountedInv
    <2>2. A' \in SUBSET A /\ IsFiniteSet(A) /\ Cardinality(A) \in Nat
      BY <1>1, CountsFinite
    <2>3. Cardinality(A') <= Cardinality(A) /\ Cardinality(A') \in Nat
      BY <2>2, FS_Subset, FS_CardinalityType
    <2> QED
      BY <2>1, <2>2, <2>3, PolicyAssumption
  <1>3. AloneInv'
    <2> SUFFICES ASSUME NEW w \in Worker, NEW period \in SUBSET Day
                 PROVE  Cardinality(CountedIn(w, period)' \ overlapped) <= MaxRequests
      BY DEF AloneInv, CountedIn
    <2> DEFINE S == CountedIn(w, period) \ overlapped
               T == CountedIn(w, period)' \ overlapped
    <2>1. T \in SUBSET S /\ S \in SUBSET CountedIn(w, period)
      BY <1>1
    <2>2. IsFiniteSet(S) /\ Cardinality(S) <= MaxRequests
      BY <2>1, CountsFinite, FS_Subset DEF PolicyInv, AloneInv
    <2> HIDE DEF S, T
    <2>3. Cardinality(T) <= Cardinality(S) /\ Cardinality(T) \in Nat /\ Cardinality(S) \in Nat
      BY <2>1, <2>2, FS_Subset, FS_CardinalityType
    <2>4. Cardinality(T) <= MaxRequests
      BY <2>2, <2>3, PolicyAssumption
    <2> QED
      BY <2>4 DEF T
  <1>4. BesideInv'
    <2> SUFFICES ASSUME NEW w \in Worker, NEW period \in SUBSET Day
                 PROVE  Cardinality(CountedIn(w, period)') + Cardinality(Coming(w, period)')
                            <= MaxRequests + Cardinality(Requester) - 1
      BY DEF BesideInv, CountedIn, Coming
    <2>1. /\ Cardinality(CountedIn(w, period)') <= Cardinality(CountedIn(w, period))
          /\ Cardinality(CountedIn(w, period)') \in Nat
          /\ Cardinality(Coming(w, period)') <= Cardinality(Coming(w, period))
          /\ Cardinality(Coming(w, period)') \in Nat
      BY <1>1, CountsFinite, FS_Subset, FS_CardinalityType
    <2>2. /\ Cardinality(CountedIn(w, period)) + Cardinality(Coming(w, period))
                <= MaxRequests + Cardinality(Requester) - 1
          /\ Cardinality(CountedIn(w, period)) \in Nat
          /\ Cardinality(Coming(w, period)) \in Nat /\ Cardinality(Requester) \in Nat
      BY CountsFinite DEF PolicyInv, BesideInv
    <2> QED
      BY <2>1, <2>2, PolicyAssumption
  <1> QED
    BY <1>2, <1>3, <1>4 DEF PolicyInv

LEMMA CountStep ==
    ASSUME IInv, PolicyInv, NEW q \in Requester, NEW a \in Advance, NEW amount \in Amount,
           RequestCount(q, a, amount)
    PROVE  PolicyInv'
  <1>1. PICK counted \in CountingPeriods :
           /\ Cardinality(Active(Owner[a], counted)) < MaxRequests
           /\ requesting' = [requesting EXCEPT ![q] =
                {[about |-> a, amount |-> amount, period |-> counted, overtaken |-> FALSE]}]
    BY DEF RequestCount
  <1> DEFINE new == [about |-> a, amount |-> amount, period |-> counted, overtaken |-> FALSE]
  <1>2. new.about = a /\ new.period = counted
    OBVIOUS
  <1> HIDE DEF new
  <1>3. /\ requesting'[q] = {new}
        /\ \A p \in Requester \ {q} : requesting'[p] = requesting[p]
    BY <1>1 DEF IInv, TypeOK, new
  <1>4. UNCHANGED <<status, created, against, overlapped>>
    BY DEF RequestCount, advanceVars, countVars
  <1>5. ASSUME NEW w, NEW period
        PROVE  /\ Active(w, period)' = Active(w, period)
               /\ CountedIn(w, period)' = CountedIn(w, period)
    BY <1>4 DEF Active, CountedIn
  <1>6. CountedInv'
    <2> SUFFICES ASSUME NEW p \in Requester, NEW r \in requesting'[p], ~r.overtaken
                 PROVE  Cardinality(Active(Owner[r.about], r.period)) < MaxRequests
      BY <1>5 DEF CountedInv, Active
    <2> QED
      BY <1>1, <1>2, <1>3 DEF PolicyInv, CountedInv
  <1>7. AloneInv'
    BY <1>4, <1>5 DEF PolicyInv, AloneInv, CountedIn
  <1>8. BesideInv'
    <2> SUFFICES ASSUME NEW w \in Worker, NEW period \in SUBSET Day
                 PROVE  Cardinality(CountedIn(w, period)') + Cardinality(Coming(w, period)')
                            <= MaxRequests + Cardinality(Requester) - 1
      BY DEF BesideInv, CountedIn, Coming
    <2> USE <1>5
    <2>1. /\ Cardinality(CountedIn(w, period)) + Cardinality(Coming(w, period))
                <= MaxRequests + Cardinality(Requester) - 1
          /\ Cardinality(CountedIn(w, period)) \in Nat
          /\ Cardinality(Coming(w, period)) \in Nat /\ IsFiniteSet(Coming(w, period))
          /\ Cardinality(Requester) \in Nat
      BY CountsFinite DEF PolicyInv, BesideInv
    <2>2. CASE Owner[a] = w /\ period \subseteq counted
      <3>1. CountedIn(w, period) \in SUBSET Active(Owner[a], counted)
        BY <2>2 DEF CountedIn, Active
      <3>2. /\ Cardinality(CountedIn(w, period)) <= Cardinality(Active(Owner[a], counted))
            /\ Cardinality(Active(Owner[a], counted)) \in Nat
        BY <3>1, CountsFinite, FS_Subset
      <3>3. Coming(w, period)' \in SUBSET Requester
        BY DEF Coming
      <3>4. /\ Cardinality(Coming(w, period)') <= Cardinality(Requester)
            /\ Cardinality(Coming(w, period)') \in Nat
        BY <3>3, RequesterAssumption, FS_Subset, FS_CardinalityType
      <3> QED
        BY <1>1, <2>1, <3>2, <3>4, PolicyAssumption
    <2>3. CASE ~(Owner[a] = w /\ period \subseteq counted)
      <3>1. Coming(w, period)' \in SUBSET Coming(w, period)
        BY <1>2, <1>3, <2>3 DEF Coming
      <3>2. /\ Cardinality(Coming(w, period)') <= Cardinality(Coming(w, period))
            /\ Cardinality(Coming(w, period)') \in Nat
        BY <2>1, <3>1, FS_Subset, FS_CardinalityType
      <3> QED
        BY <2>1, <3>2, PolicyAssumption
    <2> QED
      BY <2>2, <2>3
  <1> QED
    BY <1>6, <1>7, <1>8 DEF PolicyInv

LEMMA CommitStep ==
    ASSUME IInv, PolicyInv, NEW q \in Requester, NEW r \in requesting[q], RequestCommit(q, r)
    PROVE  PolicyInv'
  <1> DEFINE o == Owner[r.about]
  <1>1. /\ r.about \in Advance /\ r.period \in SUBSET Day /\ o \in Worker
        /\ status[r.about] = "none"
    BY OwnerAssumption DEF IInv, TypeOK, RequestInv, Creation
  <1>2. /\ \A a \in Advance \ {r.about} : /\ status'[a] = status[a]
                                         /\ created'[a] = created[a]
                                         /\ against'[a] = against[a]
        /\ against'[r.about] = r.period
    BY <1>1 DEF RequestCommit, IInv, TypeOK
  <1>3. overlapped' = IF r.overtaken THEN overlapped \cup {r.about} ELSE overlapped
    BY DEF RequestCommit
  <1>4. /\ requesting'[q] = {}
        /\ \A p \in Requester \ {q} : requesting'[p] = {Overtaken(s, o) : s \in requesting[p]}
    BY DEF RequestCommit
  <1>5. ASSUME NEW p \in Requester, NEW s \in requesting'[p]
        PROVE  p # q /\ \E x \in requesting[p] :
                  /\ s.about = x.about /\ s.period = x.period
                  /\ ~s.overtaken => ~x.overtaken /\ Owner[s.about] # o
    BY <1>4, <1>5, OvertakenType DEF IInv
  <1>6. ASSUME NEW w, NEW period
        PROVE  /\ w # o => Active(w, period)' \in SUBSET Active(w, period)
               /\ CountedIn(w, period)' \in SUBSET (CountedIn(w, period) \cup {r.about})
               /\ r.about \in CountedIn(w, period)' => w = o /\ period \subseteq r.period
    BY <1>1, <1>2 DEF Active, CountedIn
  <1> HIDE DEF o
  <1>7. CountedInv'
    <2> SUFFICES ASSUME NEW p \in Requester, NEW s \in requesting'[p], ~s.overtaken
                 PROVE  Cardinality(Active(Owner[s.about], s.period)') < MaxRequests
      BY DEF CountedInv, Active
    <2>1. PICK x \in requesting[p] :
             s.about = x.about /\ s.period = x.period /\ ~x.overtaken /\ Owner[s.about] # o
      BY <1>5
    <2> DEFINE A == Active(Owner[s.about], s.period)
    <2>2. Cardinality(A) < MaxRequests
      BY <2>1 DEF PolicyInv, CountedInv
    <2>3. A' \in SUBSET A /\ IsFiniteSet(A) /\ Cardinality(A) \in Nat
      BY <1>6, <2>1, CountsFinite
    <2>4. Cardinality(A') <= Cardinality(A) /\ Cardinality(A') \in Nat
      BY <2>3, FS_Subset, FS_CardinalityType
    <2> QED
      BY <2>2, <2>3, <2>4, PolicyAssumption
  <1>8. AloneInv'
    <2> SUFFICES ASSUME NEW w \in Worker, NEW period \in SUBSET Day
                 PROVE  Cardinality(CountedIn(w, period)' \ overlapped') <= MaxRequests
      BY DEF AloneInv, CountedIn
    <2> DEFINE S == CountedIn(w, period) \ overlapped
               T == CountedIn(w, period)' \ overlapped'
    <2>1. /\ S \in SUBSET CountedIn(w, period)
          /\ T \in SUBSET (S \cup {r.about})
          /\ r.about \in T => w = o /\ period \subseteq r.period /\ ~r.overtaken
      BY <1>3, <1>6
    <2>2. IsFiniteSet(S) /\ Cardinality(S) <= MaxRequests
      BY <2>1, CountsFinite, FS_Subset DEF PolicyInv, AloneInv
    <2>3. ASSUME r.about \in T PROVE Cardinality(S) < MaxRequests
      <3>1. Cardinality(Active(o, r.period)) < MaxRequests
        BY <2>1, <2>3 DEF PolicyInv, CountedInv, o
      <3>2. S \in SUBSET Active(o, r.period)
        BY <2>1, <2>3 DEF CountedIn, Active
      <3> HIDE DEF S, T
      <3>3. /\ Cardinality(S) <= Cardinality(Active(o, r.period)) /\ Cardinality(S) \in Nat
            /\ Cardinality(Active(o, r.period)) \in Nat
        BY <2>2, <3>2, CountsFinite, FS_Subset, FS_CardinalityType
      <3> QED
        BY <3>1, <3>3, PolicyAssumption
    <2> HIDE DEF S, T
    <2>4. /\ Cardinality(T) \in Nat /\ Cardinality(S) \in Nat
          /\ Cardinality(T) <= IF r.about \in T THEN Cardinality(S) + 1 ELSE Cardinality(S)
      BY <2>1, <2>2, OneLarger
    <2>5. Cardinality(T) <= MaxRequests
      BY <2>2, <2>3, <2>4, PolicyAssumption
    <2> QED
      BY <2>5 DEF T
  <1>9. BesideInv'
    <2> SUFFICES ASSUME NEW w \in Worker, NEW period \in SUBSET Day
                 PROVE  Cardinality(CountedIn(w, period)') + Cardinality(Coming(w, period)')
                            <= MaxRequests + Cardinality(Requester) - 1
      BY DEF BesideInv, CountedIn, Coming
    <2> DEFINE S == CountedIn(w, period)
               T == CountedIn(w, period)'
               C == Coming(w, period)
               D == Coming(w, period)'
    <2>1. /\ Cardinality(S) + Cardinality(C) <= MaxRequests + Cardinality(Requester) - 1
          /\ IsFiniteSet(S) /\ IsFiniteSet(C)
          /\ Cardinality(S) \in Nat /\ Cardinality(C) \in Nat /\ Cardinality(Requester) \in Nat
      BY CountsFinite DEF PolicyInv, BesideInv
    <2>2. T \in SUBSET (S \cup {r.about}) /\ (r.about \in T => w = o /\ period \subseteq r.period)
      BY <1>6
    <2>3. /\ D \in SUBSET (C \ {q})
          /\ r.about \in T => q \in C
      BY <1>5, <2>2 DEF Coming, o
    <2> HIDE DEF S, T, C, D
    <2>4. /\ Cardinality(T) \in Nat
          /\ Cardinality(T) <= IF r.about \in T THEN Cardinality(S) + 1 ELSE Cardinality(S)
      BY <2>1, <2>2, OneLarger
    <2>5. /\ IsFiniteSet(C \ {q}) /\ Cardinality(C \ {q}) \in Nat
          /\ Cardinality(C \ {q}) = IF q \in C THEN Cardinality(C) - 1 ELSE Cardinality(C)
      BY <2>1, FS_RemoveElement, FS_CardinalityType
    <2>6. Cardinality(D) <= Cardinality(C \ {q}) /\ Cardinality(D) \in Nat
      BY <2>3, <2>5, FS_Subset, FS_CardinalityType
    <2>7. Cardinality(T) + Cardinality(D) <= Cardinality(S) + Cardinality(C)
      BY <2>1, <2>3, <2>4, <2>5, <2>6
    <2>8. Cardinality(T) + Cardinality(D) <= MaxRequests + Cardinality(Requester) - 1
      BY <2>1, <2>4, <2>6, <2>7, PolicyAssumption
    <2> QED
      BY <2>8 DEF T, D
  <1> QED
    BY <1>7, <1>8, <1>9 DEF PolicyInv

LEMMA PolicyStep ==
    ASSUME IInv, PolicyInv, [Next]_vars
    PROVE  PolicyInv'
  <1>1. ASSUME NEW q \in Requester, NEW r \in requesting[q], RequestRefused(q, r)
        PROVE  PolicyInv'
    <2>1. \A p \in Requester : requesting'[p] \subseteq requesting[p]
      BY <1>1 DEF RequestRefused, IInv, TypeOK
    <2> QED
      BY <1>1, <2>1, FewerActive DEF RequestRefused, advanceVars, countVars
  <1>2. ASSUME NEW u \in Approver, NEW d \in decision[u], DecideCommit(u, d)
        PROVE  PolicyInv'
    <2>1. \A a \in Advance : /\ status'[a] \notin {"rejected", "cancelled"}
                                 => status[a] \notin {"rejected", "cancelled"}
                             /\ status[a] = "none" => status'[a] = "none"
      BY <1>2 DEF DecideCommit, DecisionInv, IInv, TypeOK
    <2> QED
      BY <1>2, <2>1, FewerActive DEF DecideCommit, countVars
  <1>3. ASSUME NEW a \in Advance, Cancel(a) \/ Disburse(a) \/ Deduct(a)
        PROVE  PolicyInv'
    <2>1. \A b \in Advance : /\ status'[b] \notin {"rejected", "cancelled"}
                                 => status[b] \notin {"rejected", "cancelled"}
                             /\ status[b] = "none" => status'[b] = "none"
      BY <1>3 DEF Cancel, Cancellable, Disburse, Deduct, Becomes, IInv, TypeOK
    <2> QED
      BY <1>3, <2>1, FewerActive DEF Cancel, Disburse, Deduct, Becomes, countVars
  <1>4. ASSUME UNCHANGED <<advanceVars, countVars, requesting>>
        PROVE  PolicyInv'
    BY <1>4, FewerActive DEF advanceVars, countVars
  <1>5. ASSUME NEW u \in Approver, DecisionStep(u) PROVE PolicyInv'
    BY <1>2, <1>4, <1>5 DEF DecisionStep, DecideLock, DecideLimit, DecideRefused
  <1>6. ASSUME NEW q \in Requester, RequestStep(q) PROVE PolicyInv'
    BY <1>1, <1>6, CountStep, CommitStep DEF RequestStep
  <1> QED
    BY <1>3, <1>4, <1>5, <1>6, ElsewhereSteps DEF Next, IInv

LEMMA PolicyAtFirst == Init => PolicyInv
  <1> SUFFICES ASSUME Init PROVE PolicyInv
    OBVIOUS
  <1>1. \A w, period : CountedIn(w, period) = {} /\ Coming(w, period) = {}
    BY DEF Init, CountedIn, Coming
  <1>2. CountedInv
    BY DEF Init, CountedInv
  <1>3. AloneInv
    BY <1>1, FS_EmptySet, PolicyAssumption DEF AloneInv
  <1>4. BesideInv
    BY <1>1, FS_EmptySet, PolicyAssumption, CountsFinite DEF BesideInv
  <1> QED
    BY <1>2, <1>3, <1>4 DEF PolicyInv

(* The active requests counted in a cycle stay within the policy's number, *)
(* but for those that overlapped another request of the worker, and with   *)
(* them above it by less than the requests that can be in progress at      *)
(* once: no lock of create_advance_request makes it better than that.      *)
THEOREM Counted == Spec => []RequestsWithinPolicy
  <1>1. IInv /\ PolicyInv /\ [Next]_vars => PolicyInv'
    BY PolicyStep
  <1>2. PolicyInv => RequestsWithinPolicy
    <2> SUFFICES ASSUME PolicyInv, NEW w \in Worker, NEW from \in Day, NEW to \in Day
                 PROVE  /\ Cardinality(CountedIn(w, from .. to) \ overlapped) <= MaxRequests
                        /\ Cardinality(CountedIn(w, from .. to))
                              <= MaxRequests + Cardinality(Requester) - 1
      BY DEF RequestsWithinPolicy
    <2> DEFINE period == from .. to
    <2>1. period \in SUBSET Day
      BY DayAssumption DEF Day
    <2> HIDE DEF period
    <2>2. /\ Cardinality(CountedIn(w, period) \ overlapped) <= MaxRequests
          /\ Cardinality(CountedIn(w, period)) <= MaxRequests + Cardinality(Requester) - 1
      BY <2>1, CountsFinite, PolicyAssumption DEF PolicyInv, AloneInv, BesideInv
    <2> QED
      BY <2>2 DEF period
  <1> QED
    BY <1>1, <1>2, PolicyAtFirst, Invariance, PTL DEF Spec

-----------------------------------------------------------------------------
(* What may be advanced.  The row lock of a decision is that of an advance,*)
(* and says nothing of the worker's other advances.                        *)

(* What a decision may still grant, the share it has read leaves, apart    *)
(* from what was approved after it had looked.                             *)
WithinShare ==
    \A u \in Approver : \A d \in decision[u] :
        d.limit > 0 =>
            SumFunctionOnSet(approved, Owing(Owner[d.about]) \ d.since) + d.limit <= d.share

LEMMA OwedNat ==
    ASSUME TypeOK, NEW w
    PROVE  /\ IsFiniteSet(Owing(w)) /\ Owing(w) \in SUBSET Advance
           /\ Outstanding(w) = SumFunctionOnSet(approved, Owing(w))
           /\ Outstanding(w) \in Nat
           /\ \A a \in Advance : approved[a] \in Nat /\ approved[a] \in Int
  <1>1. IsFiniteSet(Owing(w)) /\ Owing(w) \in SUBSET Advance
    BY AdvanceAssumption, FS_Subset DEF Owing
  <1>2. \A a \in Advance : approved[a] \in Nat /\ approved[a] \in Int
    BY PolicyAssumption DEF TypeOK, Amount
  <1>3. Outstanding(w) = SumFunctionOnSet(approved, Owing(w))
    BY DEF Outstanding
  <1>4. SumFunctionOnSet(approved, Owing(w)) \in Nat
    BY <1>1, <1>2, SumNat
  <1> QED
    BY <1>1, <1>2, <1>3, <1>4

(* Who takes on nothing owes no more, apart from the advances in X. *)
LEMMA OwesNoMore ==
    ASSUME TypeOK, TypeOK', NEW w, NEW X, Owing(w)' \subseteq Owing(w) \cup X,
           \A a \in Owing(w)' \ X : approved'[a] = approved[a]
    PROVE  /\ SumFunctionOnSet(approved', Owing(w)' \ X) <= SumFunctionOnSet(approved, Owing(w) \ X)
           /\ SumFunctionOnSet(approved', Owing(w)' \ X) \in Nat
           /\ SumFunctionOnSet(approved, Owing(w) \ X) \in Nat
  <1> DEFINE S == Owing(w) \ X
             T == Owing(w)' \ X
             f == approved
             g == approved'
  <1>1. /\ S \in SUBSET Advance /\ T \in SUBSET S
        /\ \A a \in Advance : f[a] \in Nat /\ g[a] \in Nat
        /\ \A a \in T : g[a] = f[a]
    BY PolicyAssumption DEF Owing, TypeOK, Amount
  <1> HIDE DEF S, T, f, g
  <1>2. /\ IsFiniteSet(S) /\ IsFiniteSet(T) /\ T \subseteq S
        /\ \A a \in S : f[a] \in Nat /\ g[a] \in Nat
    BY <1>1, AdvanceAssumption, FS_Subset
  <1>3. SumFunctionOnSet(f, T) <= SumFunctionOnSet(f, S)
    BY <1>2, SumPart
  <1>4. SumFunctionOnSet(g, T) = SumFunctionOnSet(f, T)
    BY <1>1, <1>2, SumSame
  <1>5. SumFunctionOnSet(g, T) \in Nat /\ SumFunctionOnSet(f, S) \in Nat
    BY <1>2, SumNat
  <1>6. SumFunctionOnSet(g, T) <= SumFunctionOnSet(f, S)
    BY <1>3, <1>4
  <1> QED
    BY <1>5, <1>6 DEF S, T, f, g

LEMMA OwesNoMoreAtAll ==
    ASSUME TypeOK, TypeOK', NEW w, Owing(w)' \subseteq Owing(w),
           \A a \in Owing(w)' : approved'[a] = approved[a]
    PROVE  /\ Outstanding(w)' <= Outstanding(w)
           /\ Outstanding(w)' \in Nat /\ Outstanding(w) \in Nat
  <1>1. /\ SumFunctionOnSet(approved', Owing(w)' \ {}) <= SumFunctionOnSet(approved, Owing(w) \ {})
        /\ SumFunctionOnSet(approved', Owing(w)' \ {}) \in Nat
        /\ SumFunctionOnSet(approved, Owing(w) \ {}) \in Nat
    BY OwesNoMore
  <1>2. Owing(w)' \ {} = Owing(w)' /\ Owing(w) \ {} = Owing(w)
    OBVIOUS
  <1> QED
    BY <1>1, <1>2 DEF Outstanding

(* Who is granted an advance owes its amount more. *)
LEMMA OwesOneMore ==
    ASSUME TypeOK, TypeOK', NEW S \in SUBSET Advance, NEW b \in Advance, b \notin S,
           \A a \in S : approved'[a] = approved[a]
    PROVE  SumFunctionOnSet(approved', S \cup {b}) = SumFunctionOnSet(approved, S) + approved'[b]
  <1> DEFINE f == approved
             g == approved'
  <1>1. /\ S \in SUBSET Advance /\ b \notin S
        /\ \A a \in Advance : f[a] \in Int /\ g[a] \in Int
        /\ \A a \in S : g[a] = f[a]
    BY PolicyAssumption DEF TypeOK, Amount
  <1> HIDE DEF f, g
  <1>2. IsFiniteSet(S) /\ IsFiniteSet(S \cup {b})
    BY <1>1, AdvanceAssumption, FS_Subset, FS_AddElement
  <1>3. \A a \in S \cup {b} : g[a] \in Int
    BY <1>1
  <1>4. SumFunctionOnSet(g, S \cup {b}) = SumFunctionOnSet(g, S) + g[b]
    <2>1. b \in S \cup {b} /\ (S \cup {b}) \ {b} = S
      BY <1>1
    <2>2. SumFunctionOnSet(g, S) \in Int
      BY <1>1, <1>2, <1>3, SumInt
    <2> QED
      BY <1>2, <1>3, <2>1, <2>2, SumRemove
  <1>5. SumFunctionOnSet(g, S) = SumFunctionOnSet(f, S)
    BY <1>1, <1>2, <1>3, SumSame
  <1> QED
    BY <1>4, <1>5 DEF f, g

(* What a decision computes of the share it has read. *)
LEMMA LimitWithinShare ==
    ASSUME TypeOK, NEW s \in Nat, NEW w, Limit(s, w) > 0
    PROVE  Outstanding(w) + Limit(s, w) <= s
  <1>1. Outstanding(w) \in Nat /\ MaximumAmount \in Nat
    BY OwedNat, PolicyAssumption
  <1> QED
    BY <1>1 DEF Limit, Amount

(* Only the commit of a decision makes a worker owe more. *)
LEMMA OthersOweNoMore ==
    ASSUME IInv, [Next]_vars,
           ~ \E u \in Approver : \E d \in decision[u] : DecideCommit(u, d)
    PROVE  approved' = approved /\ \A w : Owing(w)' \subseteq Owing(w)
  <1>1. TypeOK
    BY DEF IInv
  <1>2. approved' = approved
    BY <1>1, ElsewhereSteps
       DEF Next, RequestStep, DecisionStep, RequestCount, RequestCommit, RequestRefused,
           DecideLock, DecideLimit, DecideRefused, Cancel, Disburse, Deduct, Becomes,
           advanceVars
  <1>3. \A a \in Advance : status'[a] \in {"approved", "disbursed"}
                             => status[a] \in {"approved", "disbursed"}
    <2>1. ASSUME NEW q \in Requester, NEW r \in requesting[q], RequestCommit(q, r)
          PROVE  \A a \in Advance : status'[a] \in {"approved", "disbursed"}
                             => status[a] \in {"approved", "disbursed"}
      BY <1>1, <2>1 DEF RequestCommit, TypeOK
    <2>2. ASSUME NEW b \in Advance, Cancel(b) \/ Disburse(b) \/ Deduct(b)
          PROVE  \A a \in Advance : status'[a] \in {"approved", "disbursed"}
                             => status[a] \in {"approved", "disbursed"}
      BY <1>1, <2>2 DEF Cancel, Cancellable, Disburse, Deduct, Becomes, TypeOK
    <2> QED
      BY <1>1, <2>1, <2>2, ElsewhereSteps
         DEF Next, RequestStep, DecisionStep, RequestCount, RequestRefused, DecideLock,
             DecideLimit, DecideRefused, advanceVars
  <1> QED
    BY <1>2, <1>3 DEF Owing

(* What a commit changes of what workers owe. *)
LEMMA CommitOwes ==
    ASSUME IInv, NEW u \in Approver, NEW d \in decision[u], DecideCommit(u, d)
    PROVE  /\ d.about \in Advance /\ Granted(d) \in Amount
           /\ d.limit \in Amount /\ d.share \in 0 .. MaxShare
           /\ \A w : /\ d.about \notin Owing(w)
                     /\ Owing(w)' = IF d.approve /\ Owner[d.about] = w
                                    THEN Owing(w) \cup {d.about} ELSE Owing(w)
                     /\ \A a \in Owing(w) : approved'[a] = approved[a]
           /\ d.approve => approved'[d.about] = Granted(d) /\ Granted(d) <= d.limit
  <1>1. /\ d.about \in Advance /\ Granted(d) \in Amount /\ status[d.about] = "requested"
        /\ d.limit \in {-1} \cup Amount /\ d.share \in 0 .. MaxShare /\ d.approve \in BOOLEAN
    BY GrantedType DEF IInv, DecisionInv, TypeOK, Decision
  <1>2. /\ status' = [status EXCEPT ![d.about] = IF d.approve THEN "approved" ELSE "rejected"]
        /\ approved' = [approved EXCEPT ![d.about] = IF d.approve THEN Granted(d) ELSE 0]
        /\ d.limit # -1
        /\ d.approve => Granted(d) <= d.limit
    BY DEF DecideCommit, Grantable
  <1>3. /\ status'[d.about] = IF d.approve THEN "approved" ELSE "rejected"
        /\ approved'[d.about] = IF d.approve THEN Granted(d) ELSE 0
        /\ \A a \in Advance \ {d.about} : status'[a] = status[a] /\ approved'[a] = approved[a]
    BY <1>1, <1>2 DEF IInv, TypeOK
  <1>4. \A w : d.about \notin Owing(w)
    BY <1>1 DEF Owing
  <1>5. \A w : \A a \in Owing(w) : approved'[a] = approved[a]
    BY <1>3, <1>4 DEF Owing
  <1>6. ASSUME NEW w
        PROVE  Owing(w)' = IF d.approve /\ Owner[d.about] = w
                           THEN Owing(w) \cup {d.about} ELSE Owing(w)
    <2>1. \A a \in Advance \ {d.about} : a \in Owing(w)' <=> a \in Owing(w)
      BY <1>3 DEF Owing
    <2>2. d.about \in Owing(w)' <=> d.approve /\ Owner[d.about] = w
      BY <1>1, <1>3 DEF Owing
    <2>3. Owing(w)' \subseteq Advance /\ Owing(w) \subseteq Advance
      BY DEF Owing
    <2> QED
      BY <1>1, <1>4, <2>1, <2>2, <2>3
  <1> QED
    BY <1>1, <1>2, <1>3, <1>4, <1>5, <1>6

(* A decision in progress that had looked before keeps what it may grant.  *)
LEMMA StillWithin ==
    ASSUME IInv, TypeOK', NEW v \in Approver, NEW o \in decision[v], NEW X \in SUBSET Advance,
           Owing(Owner[o.about])' \subseteq Owing(Owner[o.about]) \cup X,
           \A a \in Owing(Owner[o.about])' \ X : approved'[a] = approved[a],
           SumFunctionOnSet(approved, Owing(Owner[o.about]) \ X) + o.limit <= o.share
    PROVE  SumFunctionOnSet(approved', Owing(Owner[o.about])' \ X) + o.limit <= o.share
  <1> DEFINE old == SumFunctionOnSet(approved, Owing(Owner[o.about]) \ X)
             new == SumFunctionOnSet(approved', Owing(Owner[o.about])' \ X)
  <1>1. new <= old /\ new \in Nat /\ old \in Nat
    BY OwesNoMore DEF IInv
  <1>2. o.limit \in Int /\ o.share \in Int
    BY PolicyAssumption, MaxShareAssumption DEF IInv, TypeOK, Decision, Amount
  <1> HIDE DEF old, new
  <1>3. old + o.limit <= o.share
    BY DEF old
  <1>4. new + o.limit <= o.share
    BY <1>1, <1>2, <1>3
  <1> QED
    BY <1>4 DEF new

LEMMA ShareStep ==
    ASSUME IInv, WithinShare, [Next]_vars
    PROVE  WithinShare'
  <1>1. TypeOK /\ TypeOK'
    BY NextInv DEF IInv
  <1>2. SUFFICES ASSUME NEW v \in Approver, NEW e \in decision'[v], e.limit > 0
                 PROVE  SumFunctionOnSet(approved', Owing(Owner[e.about])' \ e.since) + e.limit
                           <= e.share
    BY DEF WithinShare, Owing
  <1>3. CASE \E u \in Approver : \E d \in decision[u] : DecideCommit(u, d)
    <2>1. PICK u \in Approver : \E d \in decision[u] : DecideCommit(u, d)
      BY <1>3
    <2>2. PICK d \in decision[u] : DecideCommit(u, d)
      BY <2>1
    <2>3. /\ d.about \in Advance
          /\ \A w : /\ d.about \notin Owing(w)
                    /\ Owing(w)' \subseteq Owing(w) \cup {d.about}
                    /\ \A a \in Owing(w) : approved'[a] = approved[a]
      BY <2>2, CommitOwes
    <2>4. PICK o \in decision[v] : e = LaterThan(o, d.about)
      BY <2>2 DEF DecideCommit, LaterThan
    <2>5. /\ e.about = o.about /\ e.since = o.since \cup {d.about}
          /\ e.limit = o.limit /\ e.share = o.share
          /\ e.since \in SUBSET Advance
      BY <1>1, <2>3, <2>4, LaterThanType DEF Decision
    <2> DEFINE w == Owner[o.about]
    <2>6. Owing(w) \ e.since = Owing(w) \ o.since
      BY <2>3, <2>5
    <2>7. SumFunctionOnSet(approved, Owing(w) \ e.since) + o.limit <= o.share
      BY <1>2, <2>5, <2>6 DEF WithinShare
    <2>8. /\ Owing(w)' \subseteq Owing(w) \cup e.since
          /\ \A a \in Owing(w)' \ e.since : approved'[a] = approved[a]
      BY <2>3, <2>5
    <2>9. SumFunctionOnSet(approved', Owing(w)' \ e.since) + o.limit <= o.share
      BY <1>1, <2>5, <2>7, <2>8, StillWithin
    <2> QED
      BY <2>5, <2>9
  <1>4. CASE ~ \E u \in Approver : \E d \in decision[u] : DecideCommit(u, d)
    <2>1. approved' = approved /\ \A w : Owing(w)' \subseteq Owing(w)
      BY <1>4, OthersOweNoMore
    <2>2. CASE e \in decision[v]
      <3> DEFINE w == Owner[e.about]
      <3>1. SumFunctionOnSet(approved, Owing(w) \ e.since) + e.limit <= e.share
        BY <1>2, <2>2 DEF WithinShare
      <3>2. e.since \in SUBSET Advance
        BY <1>1, <2>2 DEF TypeOK, Decision
      <3>3. /\ Owing(w)' \subseteq Owing(w) \cup e.since
            /\ \A a \in Owing(w)' \ e.since : approved'[a] = approved[a]
        BY <2>1
      <3> QED
        BY <1>1, <2>2, <3>1, <3>2, <3>3, StillWithin
    <2>3. CASE \E d \in decision[v] : DecideLimit(v, d)
                 /\ e = [d EXCEPT !.limit = Limit(d.share, Owner[d.about]), !.since = {}]
      <3>1. PICK d \in decision[v] :
               e = [d EXCEPT !.limit = Limit(d.share, Owner[d.about]), !.since = {}]
        BY <2>3
      <3>2. /\ e.limit = Limit(d.share, Owner[d.about]) /\ e.share = d.share
            /\ e.about = d.about /\ e.since = {} /\ d.share \in Nat
        BY <1>1, <3>1, MaxShareAssumption DEF TypeOK, Decision
      <3> DEFINE w == Owner[e.about]
      <3>3. Outstanding(w) + e.limit <= e.share
        BY <1>1, <1>2, <3>2, LimitWithinShare
      <3>4. Outstanding(w)' <= Outstanding(w) /\ Outstanding(w)' \in Nat /\ Outstanding(w) \in Nat
        BY <1>1, <2>1, OwesNoMoreAtAll
      <3>5. e.limit \in Int /\ e.share \in Int
        BY <1>1, PolicyAssumption, MaxShareAssumption DEF TypeOK, Decision, Amount
      <3>6. Outstanding(w)' = SumFunctionOnSet(approved', Owing(w)' \ e.since)
        <4>1. Owing(w)' \ e.since = Owing(w)'
          BY <3>2
        <4> QED
          BY <4>1 DEF Outstanding
      <3>7. Outstanding(w)' + e.limit <= e.share
        BY <3>3, <3>4, <3>5
      <3> QED
        BY <3>6, <3>7
    <2>4. \/ e \in decision[v] \/ e.limit = -1
          \/ \E d \in decision[v] : DecideLimit(v, d)
                /\ e = [d EXCEPT !.limit = Limit(d.share, Owner[d.about]), !.since = {}]
      <3>1. ASSUME NEW u \in Approver, NEW a \in Advance, NEW approve \in BOOLEAN,
                   NEW asked \in Amount, DecideLock(u, a, approve, asked)
            PROVE  e \in decision[v] \/ e.limit = -1
        BY <1>1, <3>1 DEF DecideLock, TypeOK
      <3>2. ASSUME NEW u \in Approver, NEW d \in decision[u], DecideLimit(u, d)
            PROVE  e \in decision[v]
                   \/ (u = v /\ e = [d EXCEPT !.limit = Limit(d.share, Owner[d.about]), !.since = {}])
        BY <1>1, <3>2 DEF DecideLimit, TypeOK
      <3>3. ASSUME NEW u \in Approver, NEW d \in decision[u], DecideRefused(u, d)
            PROVE  e \in decision[v]
        BY <1>1, <3>3 DEF DecideRefused, TypeOK
      <3>4. ASSUME NEW u \in Approver, DecisionStep(u)
            PROVE  e \in decision[v] \/ e.limit = -1
                   \/ \E d \in decision[v] : DecideLimit(v, d)
                         /\ e = [d EXCEPT !.limit = Limit(d.share, Owner[d.about]), !.since = {}]
        <4>1. CASE \E a \in Advance, approve \in BOOLEAN, asked \in Amount :
                      DecideLock(u, a, approve, asked)
          BY <3>1, <4>1
        <4>2. CASE \E d \in decision[u] : DecideLimit(u, d) \/ DecideRefused(u, d)
          <5>1. PICK d \in decision[u] : DecideLimit(u, d) \/ DecideRefused(u, d)
            BY <4>2
          <5>2. CASE DecideRefused(u, d)
            BY <3>3, <5>2
          <5>3. CASE DecideLimit(u, d)
            <6>1. e \in decision[v]
                  \/ (u = v /\ e = [d EXCEPT !.limit = Limit(d.share, Owner[d.about]), !.since = {}])
              BY <3>2, <5>3
            <6> QED
              BY <5>1, <5>3, <6>1
          <5> QED
            BY <5>1, <5>2, <5>3
        <4> QED
          BY <1>4, <3>4, <4>1, <4>2 DEF DecisionStep
      <3> QED
        BY <1>1, <3>4, ElsewhereSteps
           DEF Next, RequestStep, RequestCount, RequestCommit, RequestRefused, Cancel, Disburse,
               Deduct, Becomes
    <2>5. e.limit # -1
      BY <1>2
    <2> QED
      BY <2>2, <2>3, <2>4, <2>5
  <1> QED
    BY <1>3, <1>4

(* An approval grants no more than the limit that the decision computed.   *)
LEMMA ApprovalGrants ==
    ASSUME IInv, WithinShare, [Next]_vars, NEW w \in Worker, Outstanding(w)' > Outstanding(w)
    PROVE  \E u \in Approver : \E d \in decision[u] :
              /\ decision'[u] = {}
              /\ Owner[d.about] = w
              /\ SumFunctionOnSet(approved', Owing(w)' \ d.since) <= d.share
  <1>1. TypeOK /\ TypeOK'
    BY NextInv DEF IInv
  <1>2. ~(Owing(w)' \subseteq Owing(w) /\ \A a \in Owing(w)' : approved'[a] = approved[a])
    <2> SUFFICES ASSUME Owing(w)' \subseteq Owing(w) /\ \A a \in Owing(w)' : approved'[a] = approved[a]
                 PROVE  FALSE
      OBVIOUS
    <2>1. Outstanding(w)' <= Outstanding(w) /\ Outstanding(w)' \in Nat /\ Outstanding(w) \in Nat
      BY <1>1, OwesNoMoreAtAll
    <2> QED
      BY <2>1
  <1>3. \E u \in Approver : \E d \in decision[u] : DecideCommit(u, d)
    BY <1>2, OthersOweNoMore DEF Owing
  <1>4. PICK u \in Approver : \E d \in decision[u] : DecideCommit(u, d)
    BY <1>3
  <1>5. PICK d \in decision[u] : DecideCommit(u, d)
    BY <1>4
  <1>6. /\ d.about \in Advance /\ Granted(d) \in Amount
        /\ d.limit \in Amount /\ d.share \in 0 .. MaxShare
        /\ d.about \notin Owing(w)
        /\ Owing(w)' = IF d.approve /\ Owner[d.about] = w THEN Owing(w) \cup {d.about} ELSE Owing(w)
        /\ \A a \in Owing(w) : approved'[a] = approved[a]
        /\ d.approve => approved'[d.about] = Granted(d) /\ Granted(d) <= d.limit
    BY <1>5, CommitOwes
  <1>7. d.approve /\ Owner[d.about] = w
    BY <1>2, <1>6
  <1>8. d.since \subseteq Advance
    BY <1>1 DEF TypeOK, Decision
  <1> DEFINE before == SumFunctionOnSet(approved, Owing(w) \ d.since)
             after == SumFunctionOnSet(approved', Owing(w)' \ d.since)
  <1>9. before \in Nat
    <2>1. Owing(w) \ d.since \in SUBSET Advance
      BY DEF Owing
    <2>2. IsFiniteSet(Owing(w) \ d.since)
      BY <2>1, AdvanceAssumption, FS_Subset
    <2>3. \A a \in Owing(w) \ d.since : approved[a] \in Nat
      BY <1>1, <2>1, PolicyAssumption DEF TypeOK, Amount
    <2> QED
      BY <2>2, <2>3, SumNat
  <1>10. d.limit > 0 => before + d.limit <= d.share
    BY <1>7 DEF WithinShare
  <1>11. d.limit = 0 \/ d.limit > 0
    BY <1>6, PolicyAssumption DEF Amount
  <1>12. Granted(d) > 0
    <2> DEFINE S == Owing(w)
               b == d.about
    <2>1. /\ S \in SUBSET Advance /\ b \in Advance /\ b \notin S
          /\ \A a \in S : approved'[a] = approved[a]
      BY <1>6 DEF Owing
    <2> HIDE DEF S, b
    <2>2. SumFunctionOnSet(approved', S \cup {b}) = SumFunctionOnSet(approved, S) + approved'[b]
      BY <1>1, <2>1, OwesOneMore
    <2>3. SumFunctionOnSet(approved', Owing(w)')
             = SumFunctionOnSet(approved, Owing(w)) + approved'[d.about]
      BY <1>6, <1>7, <2>2 DEF S, b
    <2>4. Outstanding(w)' = Outstanding(w) + Granted(d)
      BY <1>6, <1>7, <2>3 DEF Outstanding
    <2>5. Outstanding(w) \in Nat
      BY <1>1, OwedNat
    <2> QED
      BY <1>6, <2>4, <2>5, PolicyAssumption DEF Amount
  <1>13. after \in Nat /\ (after <= before \/ after = before + Granted(d))
    <2>1. CASE d.about \in d.since
      <3>1. /\ Owing(w)' \subseteq Owing(w) \cup d.since
            /\ \A a \in Owing(w)' \ d.since : approved'[a] = approved[a]
        BY <1>6, <2>1
      <3> QED
        BY <1>1, <3>1, OwesNoMore
    <2>2. CASE d.about \notin d.since
      <3> DEFINE S == Owing(w) \ d.since
                 b == d.about
      <3>1. /\ S \in SUBSET Advance /\ b \in Advance /\ b \notin S
            /\ \A a \in S : approved'[a] = approved[a]
        BY <1>6 DEF Owing
      <3>2. Owing(w)' \ d.since = S \cup {b}
        BY <1>6, <1>7, <2>2
      <3> HIDE DEF S, b
      <3>3. SumFunctionOnSet(approved', S \cup {b})
               = SumFunctionOnSet(approved, S) + approved'[b]
        BY <1>1, <3>1, OwesOneMore
      <3>4. after = before + approved'[d.about]
        BY <3>2, <3>3 DEF S, b
      <3>5. after = before + Granted(d)
        BY <1>6, <1>7, <3>4
      <3> HIDE DEF before, after
      <3> QED
        BY <1>6, <1>9, <3>5, PolicyAssumption DEF Amount
    <2> QED
      BY <2>1, <2>2
  <1> HIDE DEF before, after
  <1>14. after <= d.share
    BY <1>6, <1>7, <1>9, <1>10, <1>11, <1>12, <1>13, PolicyAssumption, MaxShareAssumption
       DEF Amount
  <1>15. decision'[u] = {}
    BY <1>5 DEF DecideCommit
  <1> QED
    BY <1>7, <1>14, <1>15 DEF after

(* Whatever is approved, all that a worker owes stays within the share of  *)
(* the wages the decision has read, apart from what overlapping decisions  *)
(* have approved since: cancellation, disbursement, payroll lock, wages and*)
(* policy may race it, and any number of decisions.                        *)
THEOREM WithinEarned == Spec => OverdrawnOnlyByOverlap
  <1>1. Init => WithinShare
    BY DEF Init, WithinShare
  <1>2. IInv /\ WithinShare /\ [Next]_vars => WithinShare'
    BY ShareStep
  <1>3. Spec => []WithinShare
    BY <1>1, <1>2, Invariance, PTL DEF Spec
  <1>4. IInv /\ WithinShare /\ [Next]_vars => [OverdrawnByOverlap]_vars
    BY ApprovalGrants DEF OverdrawnByOverlap
  <1> QED
    BY <1>3, <1>4, Invariance, PTL DEF Spec, OverdrawnOnlyByOverlap
=============================================================================
