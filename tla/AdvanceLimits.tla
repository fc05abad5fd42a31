----------------------------- MODULE AdvanceLimits -----------------------------
(***************************************************************************)
(* Salary advances from the request to the deduction, and the two limits   *)
(* of the policy: how many active requests a worker has in a cycle, and    *)
(* how much of the wages earned may be advanced.                           *)
(*                                                                         *)
(* Requests and decisions are transactions at READ COMMITTED.  A decision  *)
(* holds the row lock of its advance, and nothing else: what it reads of   *)
(* the wages and of the worker's other advances may change before it       *)
(* commits.  A new request holds no lock at all.  The cycle a request is   *)
(* counted in is looked up by the day, among cycles that come and go.      *)
(***************************************************************************)
EXTENDS Integers, FiniteSets, FiniteSetsExt, Functions

CONSTANTS
    Worker, Advance,
    Owner,          \* the worker of each advance
    Requester,      \* create requests that may be in progress at once
    Approver,       \* decisions that may be in progress at once
    MaxRequests,    \* AdvancePolicy.max_requests_per_cycle
    MinimumAmount,  \* AdvancePolicy.minimum_amount
    MaximumAmount,  \* AdvancePolicy.maximum_amount
    MaxShare,       \* bound: the advanceable share of the wages earned
    LastDay,        \* bound: the days, counted from 1
    MonthStart      \* the first day of the month of each day

ASSUME AdvanceAssumption == IsFiniteSet(Advance)
ASSUME OwnerAssumption == Owner \in [Advance -> Worker]
ASSUME PolicyAssumption ==
    /\ MaxRequests \in Nat
    /\ MinimumAmount \in Nat \ {0}
    /\ MaximumAmount \in Nat /\ MaximumAmount >= MinimumAmount
ASSUME RequesterAssumption == IsFiniteSet(Requester) /\ Requester # {}
ASSUME MaxShareAssumption == MaxShare \in Nat
ASSUME DayAssumption ==
    /\ LastDay \in Nat \ {0}
    /\ MonthStart \in [1 .. LastDay -> 1 .. LastDay]

(* "none" is no row. *)
Status == {"none", "requested", "approved", "rejected", "disbursed",
           "deducted", "cancelled"}

Amount == 0 .. MaximumAmount

Day == 1 .. LastDay

VARIABLES
    status,      \* AdvanceRequest.status
    requested,   \* AdvanceRequest.requested_amount
    approved,    \* AdvanceRequest.approved_amount
    created,     \* the day of AdvanceRequest.created_at, 0 without a row
    against,     \* history: the period whose requests were counted for it
    overlapped,  \* history: advances whose worker got another one between
                 \* their count and their insertion
    today,
    cycles,      \* the periods of the PayrollCycle rows, version 1 all of them
    share,       \* net_estimate of the period times max_earned_wage_percentage
    enabled,     \* AdvancePolicy.enabled
    requesting,  \* create requests: none, or the one that passed the count
    decision     \* decisions: none, or the one that holds its advance

advanceVars == <<status, requested, approved>>
countVars == <<created, against, overlapped>>
dayVars == <<today, cycles>>
vars == <<advanceVars, countVars, dayVars, share, enabled, requesting, decision>>

-----------------------------------------------------------------------------
(* The limits *)

(* The advances not deducted yet. *)
Owing(w) == {a \in Advance : Owner[a] = w /\ status[a] \in {"approved", "disbursed"}}

(* Their approved_amount. *)
Outstanding(w) == SumFunctionOnSet(approved, Owing(w))

LimitUnclamped(s, w) ==
    IF enabled THEN Min({s - Outstanding(w), MaximumAmount}) ELSE 0

(* available_advance_limit for a share of the wages that was read before:  *)
(* what is left of it, between zero and the maximum of the policy.         *)
Limit(s, w) ==
    LET left == s - Outstanding(w)
    IN  IF enabled /\ left \in Amount THEN left
        ELSE IF enabled /\ left > MaximumAmount THEN MaximumAmount
        ELSE 0

ActivePendingOnly(w, period) ==
    {a \in Advance : Owner[a] = w /\ created[a] \in period /\ status[a] = "requested"}

(* The requests of a period that count. *)
Active(w, period) ==
    {a \in Advance : /\ Owner[a] = w
                     /\ created[a] \in period
                     /\ status[a] \notin {"rejected", "cancelled"}}

(* order_by("-version").first(): any cycle that covers the day, since all  *)
(* have one version, and the month so far without one.                     *)
CountingPeriods ==
    LET covering == {c \in cycles : today \in c}
    IN  IF covering # {} THEN covering ELSE {MonthStart[today] .. today}

-----------------------------------------------------------------------------
(* create_advance_request: counts the active requests, and later checks    *)
(* the amount and inserts the row.  The limit it has checked is not kept:  *)
(* the decision computes it again.                                         *)

RequestCount(q, a, amount) ==
    /\ requesting[q] = {}
    /\ status[a] = "none"
    /\ \A p \in Requester : \A r \in requesting[p] : r.about # a
    /\ enabled
    /\ \E period \in CountingPeriods :
          /\ Cardinality(Active(Owner[a], period)) < MaxRequests
          /\ requesting' = [requesting EXCEPT ![q] =
                {[about |-> a, amount |-> amount, period |-> period, overtaken |-> FALSE]}]
    /\ UNCHANGED <<advanceVars, countVars, dayVars, share, enabled, decision>>

(* A request in progress whose worker gets another advance. *)
Overtaken(r, w) == IF Owner[r.about] = w THEN [r EXCEPT !.overtaken = TRUE] ELSE r

RequestCommit(q, r) ==
    /\ r.amount \in MinimumAmount .. Limit(share[Owner[r.about]], Owner[r.about])
    /\ status' = [status EXCEPT ![r.about] = "requested"]
    /\ requested' = [requested EXCEPT ![r.about] = r.amount]
    /\ created' = [created EXCEPT ![r.about] = today]
    /\ against' = [against EXCEPT ![r.about] = r.period]
    /\ overlapped' = IF r.overtaken THEN overlapped \cup {r.about} ELSE overlapped
    /\ requesting' = [p \in Requester |-> IF p = q THEN {} ELSE
                         {Overtaken(s, Owner[r.about]) : s \in requesting[p]}]
    /\ UNCHANGED <<approved, dayVars, share, enabled, decision>>

RequestRefused(q, r) ==
    /\ r.amount \notin MinimumAmount .. Limit(share[Owner[r.about]], Owner[r.about])
    /\ requesting' = [requesting EXCEPT ![q] = {}]
    /\ UNCHANGED <<advanceVars, countVars, dayVars, share, enabled, decision>>

-----------------------------------------------------------------------------
(* decide_advance, cancel_advance, mark_disbursed, and the lock of a       *)
(* payroll: each waits for the row lock of the advance.                    *)

RowFree(a) == \A u \in Approver : \A d \in decision[u] : d.about # a

(* Locks the row, then sums the wages of the period. *)
DecideLock(u, a, approve, asked) ==
    /\ decision[u] = {}
    /\ RowFree(a)
    /\ status[a] = "requested"
    /\ decision' = [decision EXCEPT ![u] =
                      {[about |-> a, approve |-> approve, asked |-> asked,
                        share |-> share[Owner[a]], limit |-> -1, since |-> {}]}]
    /\ UNCHANGED <<advanceVars, countVars, dayVars, share, enabled, requesting>>

(* Then sums the outstanding advances; "since" is a history: the advances  *)
(* that other decisions are about and commit after that.                   *)
DecideLimit(u, d) ==
    /\ d.limit = -1
    /\ decision' = [decision EXCEPT ![u] =
                      {[d EXCEPT !.limit = Limit(d.share, Owner[d.about]), !.since = {}]}]
    /\ UNCHANGED <<advanceVars, countVars, dayVars, share, enabled, requesting>>

(* "amount or advance.requested_amount": zero stands for no amount. *)
Granted(d) == IF d.asked = 0 THEN requested[d.about] ELSE d.asked

GrantableByRequest(d) == Granted(d) <= requested[d.about]

Grantable(d) == Granted(d) <= requested[d.about] /\ Granted(d) <= d.limit

DecideCommit(u, d) ==
    /\ d.limit # -1
    /\ d.approve => Grantable(d)
    /\ status' = [status EXCEPT
                    ![d.about] = IF d.approve THEN "approved" ELSE "rejected"]
    /\ approved' = [approved EXCEPT
                    ![d.about] = IF d.approve THEN Granted(d) ELSE 0]
    /\ decision' = [v \in Approver |-> IF v = u THEN {} ELSE
                       {[e EXCEPT !.since = @ \cup {d.about}] : e \in decision[v]}]
    /\ UNCHANGED <<requested, countVars, dayVars, share, enabled, requesting>>

DecideRefused(u, d) ==
    /\ d.limit # -1
    /\ d.approve /\ ~Grantable(d)
    /\ decision' = [decision EXCEPT ![u] = {}]
    /\ UNCHANGED <<advanceVars, countVars, dayVars, share, enabled, requesting>>

Becomes(a, new) ==
    /\ RowFree(a)
    /\ status' = [status EXCEPT ![a] = new]
    /\ UNCHANGED <<requested, approved, countVars, dayVars, share, enabled, requesting,
                   decision>>

CancellableApproved(a) == status[a] \in {"requested", "approved"}

Cancellable(a) == status[a] = "requested"

Cancel(a) == Cancellable(a) /\ Becomes(a, "cancelled")

(* The cycle it is deducted in is modelled in PayrollClose. *)
Disburse(a) == status[a] = "approved" /\ Becomes(a, "disbursed")

Deduct(a) == status[a] = "disbursed" /\ Becomes(a, "deducted")

-----------------------------------------------------------------------------
(* What other components do meanwhile *)

(* A wage is calculated or corrected, or another month begins. *)
ShareChange(w, s) ==
    /\ share[w] # s
    /\ share' = [share EXCEPT ![w] = s]
    /\ UNCHANGED <<advanceVars, countVars, dayVars, enabled, requesting, decision>>

NextDay ==
    /\ today < LastDay
    /\ today' = today + 1
    /\ UNCHANGED <<advanceVars, countVars, cycles, share, enabled, requesting, decision>>

(* unique_payroll_cycle_version.  Periods may overlap. *)
CycleCreate(period) ==
    /\ period # {}
    /\ period \notin cycles
    /\ cycles' = cycles \cup {period}
    /\ UNCHANGED <<advanceVars, countVars, today, share, enabled, requesting, decision>>

(* A draft may be given other dates, and be deleted; a cycle that was      *)
(* submitted is one that nobody edits any more.                            *)
CycleEdit(c, period) ==
    /\ period # {}
    /\ period \notin cycles
    /\ cycles' = (cycles \ {c}) \cup {period}
    /\ UNCHANGED <<advanceVars, countVars, today, share, enabled, requesting, decision>>

CycleDelete(c) ==
    /\ cycles' = cycles \ {c}
    /\ UNCHANGED <<advanceVars, countVars, today, share, enabled, requesting, decision>>

PolicySwitch ==
    /\ enabled' = ~enabled
    /\ UNCHANGED <<advanceVars, countVars, dayVars, share, requesting, decision>>

-----------------------------------------------------------------------------
Init ==
    /\ status = [a \in Advance |-> "none"]
    /\ requested = [a \in Advance |-> 0]
    /\ approved = [a \in Advance |-> 0]
    /\ created = [a \in Advance |-> 0]
    /\ against = [a \in Advance |-> {}]
    /\ overlapped = {}
    /\ today = 1
    /\ cycles = {}
    /\ share = [w \in Worker |-> 0]
    /\ enabled = TRUE
    /\ requesting = [q \in Requester |-> {}]
    /\ decision = [u \in Approver |-> {}]

RequestStep(q) ==
    \/ \E a \in Advance, amount \in Amount : RequestCount(q, a, amount)
    \/ \E r \in requesting[q] : RequestCommit(q, r) \/ RequestRefused(q, r)

DecisionStep(u) ==
    \/ \E a \in Advance, approve \in BOOLEAN, asked \in Amount :
          DecideLock(u, a, approve, asked)
    \/ \E d \in decision[u] :
          DecideLimit(u, d) \/ DecideCommit(u, d) \/ DecideRefused(u, d)

CycleStep ==
    \/ NextDay
    \/ \E from, to \in Day :
          CycleCreate(from .. to) \/ \E c \in cycles : CycleEdit(c, from .. to)
    \/ \E c \in cycles : CycleDelete(c)

Next ==
    \/ \E q \in Requester : RequestStep(q)
    \/ \E u \in Approver : DecisionStep(u)
    \/ \E a \in Advance : Cancel(a) \/ Disburse(a) \/ Deduct(a)
    \/ \E w \in Worker, s \in 0 .. MaxShare : ShareChange(w, s)
    \/ CycleStep
    \/ PolicySwitch

Spec == Init /\ [][Next]_vars

-----------------------------------------------------------------------------
(* Properties *)

Creation == [about : Advance, amount : Amount, period : SUBSET Day, overtaken : BOOLEAN]

Decision ==
    [about : Advance, approve : BOOLEAN, asked : Amount, share : 0 .. MaxShare,
     limit : {-1} \cup Amount, since : SUBSET Advance]

(* Types; a limit a decision has read is never negative. *)
TypeOK ==
    /\ status \in [Advance -> Status]
    /\ requested \in [Advance -> Amount]
    /\ approved \in [Advance -> Amount]
    /\ created \in [Advance -> {0} \cup Day]
    /\ against \in [Advance -> SUBSET Day]
    /\ overlapped \in SUBSET Advance
    /\ today \in Day
    /\ cycles \in SUBSET SUBSET Day
    /\ share \in [Worker -> 0 .. MaxShare]
    /\ enabled \in BOOLEAN
    /\ requesting \in [Requester -> SUBSET Creation]
    /\ decision \in [Approver -> SUBSET Decision]

(* The active requests created in a period, and counted in one that covers *)
(* it: the cycle of the moment, whatever became of it since.               *)
CountedIn(w, period) ==
    {a \in Advance : /\ Owner[a] = w
                     /\ created[a] \in period /\ period \subseteq against[a]
                     /\ status[a] \notin {"none", "rejected", "cancelled"}}

(* No more active requests of a worker in a cycle than the policy allows   *)
(* (test_advance_policy_limits_active_requests_per_cycle), as far as they  *)
(* were counted in it, other cycles come or go, days pass in between, and  *)
(* decisions race the count.  Requests that overlap may exceed it, and by  *)
(* no more than the requests that can be in progress beside one.           *)
RequestsWithinPolicy ==
    \A w \in Worker, from, to \in Day :
        LET counted == CountedIn(w, from .. to)
        IN  /\ Cardinality(counted \ overlapped) <= MaxRequests
            /\ Cardinality(counted) <= MaxRequests + Cardinality(Requester) - 1

(* When an approval raises what a worker owes, all of it together stays    *)
(* within the share of the wages that this decision has read: "Approved    *)
(* amount exceeds the current limit" refuses it (decide_advance).          *)
ApprovalsWithinEarned ==
    [][\A w \in Worker :
          Outstanding(w)' > Outstanding(w) =>
              \E u \in Approver : \E d \in decision[u] :
                  /\ decision'[u] = {}
                  /\ Owner[d.about] = w
                  /\ Outstanding(w)' <= d.share]_vars

(* The same without what other decisions have approved after this one had  *)
(* summed the outstanding advances: nothing else, no disbursement, payroll *)
(* lock, cancellation, wage or policy in between, overdraws the share.     *)
OverdrawnByOverlap ==
    \A w \in Worker :
        Outstanding(w)' > Outstanding(w) =>
            \E u \in Approver : \E d \in decision[u] :
                /\ decision'[u] = {}
                /\ Owner[d.about] = w
                /\ SumFunctionOnSet(approved', Owing(w)' \ d.since) <= d.share

OverdrawnOnlyByOverlap == [][OverdrawnByOverlap]_vars

(* A decision is final: no cancellation, decision, disbursement or payroll *)
(* lock that races it revives a refused advance, takes an approved one     *)
(* back, or changes its amount; an advance leaves "approved" for           *)
(* "disbursed" and that for "deducted".                                    *)
FinalStep ==
    \A a \in Advance :
        /\ status[a] \in {"rejected", "cancelled", "deducted"} => status'[a] = status[a]
        /\ status[a] = "approved" => status'[a] \in {"approved", "disbursed"}
        /\ status[a] = "disbursed" => status'[a] \in {"disbursed", "deducted"}
        /\ status[a] \notin {"none", "requested"} => approved'[a] = approved[a]

DecisionIsFinal == [][FinalStep]_vars
=============================================================================
