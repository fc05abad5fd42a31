---------------------------- MODULE MCAdvanceLimits ----------------------------
(* Instances of AdvanceLimits for TLC: every advance is of one worker. *)
EXTENDS AdvanceLimits, TLC

CONSTANT w1

OwnedByW1 == [a \in Advance |-> w1]

(* All days are of one month. *)
OneMonth == [d \in Day |-> 1]

(* Requests of one unit, at once, while days pass and cycles come and go;  *)
(* one decision at a time, to approve the requested amount.                *)
RequestScene ==
    /\ enabled
    /\ \A w \in Worker : share[w] = MaxShare
    /\ Cardinality(cycles) <= 1
    /\ \A q \in Requester : \A r \in requesting[q] : r.amount = 1
    /\ \A u, v \in Approver : decision[u] # {} /\ decision[v] # {} => u = v
    /\ \A u \in Approver : \A d \in decision[u] : d.approve /\ d.asked = 0
    /\ \A a \in Advance : status[a] \notin {"disbursed", "deducted"}

(* Two advances requested at once, and then decided at once while wages    *)
(* and the policy change.                                                  *)
DecisionScene ==
    /\ today = 1 /\ cycles = {}
    /\ \E a \in Advance : status[a] = "none"
    /\ (\E q \in Requester : requesting[q] # {}) =>
          /\ \A a \in Advance : status[a] \in {"none", "requested"}
          /\ \A w \in Worker : share[w] = MaxShare
          /\ enabled
          /\ \A u \in Approver : decision[u] = {}

OneScene == RequestScene \/ DecisionScene

(* Nothing tells two advances, requests in progress or decisions apart. *)
Alike ==
    Permutations(Advance) \cup Permutations(Requester) \cup Permutations(Approver)
================================================================================
