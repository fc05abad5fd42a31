---------------------------- MODULE PayrollControl ----------------------------
(***************************************************************************)
(* What a payroll close promises, without its requests and tables: pay may *)
(* be reworked until it is approved, is approved as it stands, and cannot  *)
(* change once it is approved except by opening it again, which a locked   *)
(* payroll never is.                                                       *)
(***************************************************************************)
CONSTANTS Cycle, Pay

VARIABLES
    phase,   \* "open", "approved", "locked", or "void": outside the promise
    pay      \* what the cycle pays its workers

vars == <<phase, pay>>

Init ==
    /\ phase = [c \in Cycle |-> "open"]
    /\ pay \in [Cycle -> Pay]

PayOfOthersKept(c) ==
    /\ pay' \in [Cycle -> Pay]
    /\ \A d \in Cycle \ {c} : pay'[d] = pay[d]

Prepare(c) ==
    /\ phase[c] \in {"open", "approved"}
    /\ phase' = [phase EXCEPT ![c] = "open"]
    /\ PayOfOthersKept(c)

Approve(c) ==
    /\ phase[c] = "open"
    /\ phase' = [phase EXCEPT ![c] = "approved"]
    /\ UNCHANGED pay

Lock(c) ==
    /\ phase[c] = "approved"
    /\ phase' = [phase EXCEPT ![c] = "locked"]
    /\ UNCHANGED pay

(* The record of the cycle is corrupted: nothing is promised from here on. *)
Void(c) ==
    /\ phase' = [phase EXCEPT ![c] = "void"]
    /\ UNCHANGED pay

ReworkVoid(c) ==
    /\ phase[c] = "void"
    /\ PayOfOthersKept(c)
    /\ UNCHANGED phase

Next ==
    \E c \in Cycle :
        Prepare(c) \/ Approve(c) \/ Lock(c) \/ Void(c) \/ ReworkVoid(c)

Spec == Init /\ [][Next]_vars
=============================================================================
