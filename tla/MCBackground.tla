------------------------------ MODULE MCBackground ------------------------------
(* What Celery beat drives: the dispatcher of the notification outbox and  *)
(* the compliance scan.  They share no state: every behaviour moves one of *)
(* them, chosen at the start.  Of the outbox it moves either the first     *)
(* notification, with workers that get lost and writes that fail, or all of*)
(* them, delivered by one worker without such faults.                      *)
EXTENDS NotificationOutbox, ComplianceAlerts

CONSTANT w1

VARIABLE moves   \* what moves

allVars == <<vars, alertVars, moves>>

(* The notifications that are ever requested. *)
Moving ==
    CASE moves = "one"     -> {n \in Notification : Earlier(n) = {}}
      [] moves = "several" -> Notification
      [] moves = "alerts"  -> {}

(* What never moves has one initial state. *)
AllInit ==
    /\ Init /\ AlertsInit
    /\ moves \in {"one", "several", "alerts"}
    /\ \A n \in Notification \ Moving : renders[n]

OutboxScene ==
    /\ \A n \in Notification \ Moving : status'[n] = "absent"
    /\ moves = "several" =>
          /\ crashes' = 0 /\ faults' = 0
          /\ \A w \in CeleryWorker \ {w1} : job'[w] = {}

AllNext ==
    /\ UNCHANGED moves
    /\ \/ moves # "alerts" /\ Next /\ OutboxScene /\ UNCHANGED alertVars
       \/ moves = "alerts" /\ AlertsNext /\ UNCHANGED vars

(* A worker goes on with a scan, and the beat starts the next one.  The    *)
(* fairness of the outbox asks for nothing where no request was made.      *)
AlertStep(s) == moves = "alerts" /\ Goings(s)

AllFairSpec ==
    /\ AllInit /\ [][AllNext]_allVars
    /\ Fairness
    /\ \A s \in Scan : WF_alertVars(AlertStep(s))

TypesOK == TypeOK /\ AlertsTypeOK

-----------------------------------------------------------------------------
CONSTANTS e1, k1, k2

KindOfTwo == [e \in Subject |-> IF e = e1 THEN k1 ELSE k2]
================================================================================
