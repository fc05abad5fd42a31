----------------------------- MODULE MCBackOffice -----------------------------
(* Three components that share no state: disputes, memberships and the     *)
(* wage arithmetic.  Every behaviour moves one of them, chosen at the      *)
(* start, so that their states add up and do not multiply.                 *)
EXTENDS Disputes, Memberships, WageCalculation

VARIABLE moves   \* the component that moves

allVars == <<vars, accountVars, wageVars, moves>>

AllInit ==
    /\ moves \in {"disputes", "accounts", "wages"}
    /\ Init /\ AccountsInit /\ WagesInit
    /\ moves # "wages" => worker = CHOOSE w \in Contracts : TRUE

AllNext ==
    /\ UNCHANGED moves
    /\ \/ /\ moves = "disputes" /\ Next
          /\ UNCHANGED <<accountVars, wageVars>>
       \/ /\ moves = "accounts" /\ AccountsNext
          /\ UNCHANGED <<vars, wageVars>>
       \/ /\ moves = "wages" /\ WagesNext
          /\ UNCHANGED <<vars, accountVars>>

AllSpec == AllInit /\ [][AllNext]_allVars

TypesOK == AccountsTypeOK /\ WagesTypeOK

-----------------------------------------------------------------------------
(* Until a property is exempt, with one request authenticated at a time,   *)
(* and profiles linked between requests.                                   *)
AccountsScene ==
    /\ restored = {} /\ ~overlapped
    /\ \A p, q \in Call : \A b \in call[p], c \in call[q] :
          p # q => b.stage # "admitted" \/ c.stage # "admitted"
    /\ patchedOut => ActiveOwners # {}
    /\ profile = {} \/ \A q \in Call : call[q] = {}

(* The other days of the period are long nights. *)
WagesScene ==
    \A d \in Day \ {1} : \A l \in ledger[d] :
        l.day.overtime > 0 /\ l.day.night /\ l.day.worked > 480 /\ l.day.outcome = "full_day"

OneScene == AccountsScene /\ WagesScene

Contract(type, staff, basic, daily, monthly, from, until) ==
    [type |-> type, staff |-> staff, basic |-> basic, daily |-> daily,
     monthly |-> monthly, from |-> from, until |-> until]

(* Amounts that round both ways. *)
FourContracts ==
    {Contract("monthly", FALSE, 100007, 0, 0, 1, 2),
     Contract("shift", FALSE, 7003, 501, 1000, 1, 2),
     Contract("hourly", FALSE, 1001, 0, 1000, 1, 2),
     Contract("monthly", TRUE, 50001, 0, 20000, 2, 9)}
================================================================================
