---------------------------- MODULE ComplianceAlerts ----------------------------
(***************************************************************************)
(* The compliance scan, run every hour by Celery beat and whenever a user  *)
(* asks for it, and the alerts it raises.  A scan evaluates one query per  *)
(* kind of gap and then makes sure of an alert for each row it found, by   *)
(* get_or_create on a unique key; each statement commits at once.  Users   *)
(* acknowledge, resolve and dismiss alerts meanwhile.                      *)
(***************************************************************************)
EXTENDS Integers, FiniteSets

CONSTANTS
    Subject,    \* unique keys: expiring documents, missing consents, outdoor
                \* rosters at midday, attendances without a check-out
    Kind,       \* the queries of a scan
    KindOf,     \* the query that finds a subject
    Scan,       \* scans run at once
    MaxScanFaults   \* bound: scans that fail

ASSUME MaxScanFaultsAssumption == MaxScanFaults \in Nat

VARIABLES
    gap,        \* the subjects a query would find now
    alert,      \* ComplianceAlert.status, "none" when there is no row
    scan,       \* the scans in progress: none, or one
    scanFaults

alertVars == <<gap, alert, scan, scanFaults>>

Decision == {"acknowledged", "resolved", "dismissed"}

(* Documents expire, consents are given, rosters and check-outs change. *)
Change(e) ==
    /\ gap' = IF e \in gap THEN gap \ {e} ELSE gap \cup {e}
    /\ UNCHANGED <<alert, scan, scanFaults>>

Goes(s, to) == scan' = [scan EXCEPT ![s] = {to}]

(* The beat, or ComplianceAlertViewSet.scan. *)
Start(s) ==
    /\ scan[s] = {}
    /\ Goes(s, [kinds |-> Kind, found |-> {}, missing |-> {}])
    /\ UNCHANGED <<gap, alert, scanFaults>>

Query(s, c, k) ==
    /\ c.found = {}
    /\ k \in c.kinds
    /\ Goes(s, [c EXCEPT !.kinds = @ \ {k}, !.found = {e \in gap : KindOf[e] = k}])
    /\ UNCHANGED <<gap, alert, scanFaults>>

ReportedAny(e) == \E x \in Subject : alert[x] # "none"

(* The lookup of get_or_create is by the company and the unique key. *)
Reported(e) == alert[e] # "none"

(* get_or_create: an existing alert is left as it is. *)
Get(s, c, e) ==
    /\ e \in c.found /\ c.missing = {}
    /\ IF Reported(e)
       THEN Goes(s, [c EXCEPT !.found = @ \ {e}])
       ELSE Goes(s, [c EXCEPT !.missing = {e}])
    /\ UNCHANGED <<gap, alert, scanFaults>>

CreatedOver(e) == "open"

(* unique_company_compliance_alert: the create of the second of two scans  *)
(* fails, and it gets the alert of the first.                              *)
Created(e) == IF alert[e] = "none" THEN "open" ELSE alert[e]

Create(s, c, e) ==
    /\ e \in c.missing
    /\ alert' = [alert EXCEPT ![e] = Created(e)]
    /\ Goes(s, [c EXCEPT !.found = @ \ {e}, !.missing = {}])
    /\ UNCHANGED <<gap, scanFaults>>

FinishScan(s, c) ==
    /\ c.kinds = {} /\ c.found = {}
    /\ scan' = [scan EXCEPT ![s] = {}]
    /\ UNCHANGED <<gap, alert, scanFaults>>

(* An exception ends a scan for all that is left, and nothing retries it. *)
Fail(s, c) ==
    /\ scanFaults < MaxScanFaults
    /\ scanFaults' = scanFaults + 1
    /\ scan' = [scan EXCEPT ![s] = {}]
    /\ UNCHANGED <<gap, alert>>

Resolve(e, d) ==
    /\ alert[e] # "none"
    /\ alert' = [alert EXCEPT ![e] = d]
    /\ UNCHANGED <<gap, scan, scanFaults>>

-----------------------------------------------------------------------------
AlertsInit ==
    /\ gap = {}
    /\ alert = [e \in Subject |-> "none"]
    /\ scan = [s \in Scan |-> {}]
    /\ scanFaults = 0

Goings(s) ==
    \/ Start(s)
    \/ \E c \in scan[s] :
          \/ \E k \in Kind : Query(s, c, k)
          \/ \E e \in Subject : Get(s, c, e) \/ Create(s, c, e)
          \/ FinishScan(s, c)

ScanStep(s) == Goings(s) \/ \E c \in scan[s] : Fail(s, c)

UserStep ==
    \E e \in Subject : Change(e) \/ \E d \in Decision : Resolve(e, d)

AlertsNext == UserStep \/ \E s \in Scan : ScanStep(s)

AlertsSpec == AlertsInit /\ [][AlertsNext]_alertVars

-----------------------------------------------------------------------------
(* Properties *)

Progress == [kinds : SUBSET Kind, found : SUBSET Subject, missing : SUBSET Subject]

AlertsTypeOK ==
    /\ gap \in SUBSET Subject
    /\ alert \in [Subject -> Decision \cup {"none", "open"}]
    /\ scan \in [Scan -> SUBSET Progress]
    /\ scanFaults \in 0 .. MaxScanFaults

(* A decided alert is never opened again or lost, by however many scans    *)
(* that looked for it before it was there.                                 *)
DecisionsAreKept ==
    [][\A e \in Subject : alert[e] \in Decision => alert'[e] \in Decision]_alert

(* A gap that lasts is reported, although scans fail half way through. *)
LastingGapsAreReported ==
    \A e \in Subject : e \in gap ~> e \notin gap \/ alert[e] # "none"
=============================================================================
