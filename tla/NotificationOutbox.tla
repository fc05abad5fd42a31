-------------------------- MODULE NotificationOutbox --------------------------
(***************************************************************************)
(* The notification outbox: a request writes a row and queues its delivery *)
(* before it commits, the beat dispatcher queues whatever is pending, and  *)
(* Celery workers deliver.  A task runs outside any transaction: each of   *)
(* its writes is committed at once, it takes no lock, and it writes what   *)
(* it computed from the row it read when it started.                       *)
(***************************************************************************)
EXTENDS Integers, FiniteSets, Functions

CONSTANTS
    Notification,  \* rows, numbered in the order of their scheduled_for
    CeleryWorker,
    DispatchLimit, \* rows one run of the dispatcher takes (100)
    MaxAttempts,   \* the attempts after which a failure is final (5)
    MaxRetries,    \* Celery's max_retries of one message (5)
    MaxMessages,   \* bound: messages and tasks of one notification at a time
    MaxCrashes,    \* bound: workers lost in the middle of a task
    MaxFaults      \* bound: database writes that fail outside the try

ASSUME NotificationAssumption == Notification \subseteq Nat /\ IsFiniteSet(Notification)
ASSUME DispatchLimitAssumption == DispatchLimit \in Nat \ {0}
ASSUME CeleryWorkerAssumption == IsFiniteSet(CeleryWorker)
ASSUME MaxAttemptsAssumption == MaxAttempts \in Nat \ {0}
ASSUME MaxRetriesAssumption == MaxRetries \in Nat
ASSUME MaxMessagesAssumption == MaxMessages \in Nat \ {0}
ASSUME MaxCrashesAssumption == MaxCrashes \in Nat
ASSUME MaxFaultsAssumption == MaxFaults \in Nat

(* "absent" is no row yet, "requesting" an uncommitted one, "undone" a row *)
(* whose request was rolled back.                                          *)
Status == {"absent", "requesting", "undone",
           "pending", "processing", "sent", "failed"}

Visible == {"pending", "processing", "sent", "failed"}

Phase == {"read", "marked", "recorded", "accepted", "saved", "refused"}

VARIABLES
    status,    \* NotificationOutbox.status
    attempts,  \* NotificationOutbox.attempts
    recorded,  \* DeliveryAttempt rows, counted up to MaxAttempts
    messages,  \* deliver_notification_task messages by retry count
    job,       \* the tasks each worker runs: none, or one
    crashes,   \* workers lost so far
    faults,    \* failed database writes so far
    renders    \* whether the template and its subject can be stored at all

vars == <<status, attempts, recorded, messages, job, crashes, faults, renders>>

lost == <<crashes, faults>>

-----------------------------------------------------------------------------
(* Messages *)

Sent(n, r) == [messages EXCEPT ![n][r] = @ + 1]

Running(n) == {w \in CeleryWorker : \E j \in job[w] : j.about = n}

InFlight(n) ==
    Cardinality(Running(n)) + SumFunctionOnSet(messages[n], 0 .. MaxRetries)

RetriedAndRequeued(n, r) ==
    IF r < MaxRetries THEN [Sent(n, r + 1) EXCEPT ![n][r] = @ + 1] ELSE Sent(n, r)

(* self.retry after an exception: a message with one retry more, or none.  *)
Retried(n, r) ==
    IF r < MaxRetries THEN Sent(n, r + 1) ELSE messages

-----------------------------------------------------------------------------
(* The request: it queues the delivery inside its open transaction.  Each  *)
(* row is scheduled for the time it is created, so none comes before those *)
(* there are and every row is due.                                         *)
Earlier(n) == {m \in Notification : m < n}

Request(n) ==
    /\ status[n] = "absent"
    /\ \A m \in Earlier(n) : status[m] # "absent"
    /\ status' = [status EXCEPT ![n] = "requesting"]
    /\ messages' = Sent(n, 0)
    /\ UNCHANGED <<attempts, recorded, job, lost, renders>>

RequestEnd(n) ==
    /\ status[n] = "requesting"
    /\ \E s \in {"pending", "undone"} : status' = [status EXCEPT ![n] = s]
    /\ UNCHANGED <<attempts, recorded, messages, job, lost, renders>>

(* dispatch_pending_notifications: the oldest pending rows, as many as its *)
(* limit allows.  A row with MaxMessages in flight is queued no more.      *)
Pending == {n \in Notification : status[n] = "pending"}

BatchNewestFirst ==
    {n \in Pending : Cardinality({m \in Pending : m > n}) < DispatchLimit}

Batch == {n \in Pending : Cardinality(Pending \cap Earlier(n)) < DispatchLimit}

Dispatch ==
    LET queued == {n \in Batch : InFlight(n) < MaxMessages}
    IN  /\ queued # {}
        /\ messages' = [n \in Notification |->
                          IF n \in queued THEN Sent(n, 0)[n] ELSE messages[n]]
        /\ UNCHANGED <<status, attempts, recorded, job, lost, renders>>

-----------------------------------------------------------------------------
(* deliver_notification_task on a worker *)

(* Acknowledged late: the job stands for the message until it ends. *)
Take(w, n, r) ==
    /\ job[w] = {}
    /\ messages[n][r] > 0
    /\ status[n] \in Visible
    /\ messages' = [messages EXCEPT ![n][r] = @ - 1]
    /\ job' = [job EXCEPT ![w] =
                 {[phase |-> "read", about |-> n, retry |-> r, attempts |-> attempts[n]]}]
    /\ UNCHANGED <<status, attempts, recorded, lost, renders>>

(* The row does not exist, or not yet: DoesNotExist is retried. *)
Miss(w, n, r) ==
    /\ job[w] = {}
    /\ messages[n][r] > 0
    /\ status[n] \notin Visible
    /\ messages' = [Retried(n, r) EXCEPT ![n][r] = @ - 1]
    /\ UNCHANGED <<status, attempts, recorded, job, lost, renders>>

Step(w, j, to) == job' = [job EXCEPT ![w] = {[j EXCEPT !.phase = to]}]

(* The number of this attempt, from the copy the task has read. *)
Counted(j) == j.attempts + 1

(* An exception outside the try: nothing is written, and Celery retries.   *)
Raise(w, j) ==
    /\ messages' = Retried(j.about, j.retry)
    /\ job' = [job EXCEPT ![w] = {}]
    /\ UNCHANGED <<status, attempts, recorded, crashes, renders>>

RenderFails(w, j) ==
    /\ j.phase = "read"
    /\ ~renders[j.about]
    /\ Raise(w, j)
    /\ UNCHANGED faults

(* The save of PROCESSING, the delivery attempt, or the save in the except *)
(* branch fails.                                                           *)
WriteFails(w, j) ==
    /\ j.phase \in {"read", "marked", "refused"}
    /\ faults < MaxFaults
    /\ faults' = faults + 1
    /\ Raise(w, j)

Mark(w, j) ==
    /\ j.phase = "read"
    /\ renders[j.about]
    /\ attempts' = [attempts EXCEPT ![j.about] = Counted(j)]
    /\ status' = [status EXCEPT ![j.about] = "processing"]
    /\ Step(w, j, "marked")
    /\ UNCHANGED <<recorded, messages, lost, renders>>

Record(w, j) ==
    /\ j.phase = "marked"
    /\ recorded' = [recorded EXCEPT ![j.about] =
                      IF @ < MaxAttempts THEN @ + 1 ELSE @]
    /\ Step(w, j, "recorded")
    /\ UNCHANGED <<status, attempts, messages, lost, renders>>

(* The provider accepts, or the call or the reading of its answer fails.   *)
Send(w, j) ==
    /\ j.phase = "recorded"
    /\ \E answer \in {"accepted", "refused"} : Step(w, j, answer)
    /\ UNCHANGED <<status, attempts, recorded, messages, lost, renders>>

(* notification.save() writes every column, the counter included. *)
SaveSent(w, j) ==
    /\ j.phase = "accepted"
    /\ status' = [status EXCEPT ![j.about] = "sent"]
    /\ attempts' = [attempts EXCEPT ![j.about] = Counted(j)]
    /\ Step(w, j, "saved")
    /\ UNCHANGED <<recorded, messages, lost, renders>>

Finish(w, j) ==
    /\ j.phase = "saved"
    /\ job' = [job EXCEPT ![w] = {}]
    /\ UNCHANGED <<status, attempts, recorded, messages, lost, renders>>

StatusAfterFailureEarly(j) ==
    IF Counted(j) + 1 >= MaxAttempts THEN "failed" ELSE "pending"

StatusAfterFailure(j) ==
    IF Counted(j) >= MaxAttempts THEN "failed" ELSE "pending"

(* The except branch: of a refused call, of the save of SENT, or of the    *)
(* update of the delivery attempt that follows it.                         *)
SaveFailure(w, j) ==
    /\ j.phase \in {"accepted", "refused", "saved"}
    /\ status' = [status EXCEPT ![j.about] = StatusAfterFailure(j)]
    /\ messages' = Retried(j.about, j.retry)
    /\ job' = [job EXCEPT ![w] = {}]
    /\ UNCHANGED <<attempts, recorded, lost, renders>>

RedeliverDropped(n, r) == messages

(* reject_on_worker_lost: the message goes back to its queue. *)
Redeliver(n, r) == Sent(n, r)

Crash(w, j) ==
    /\ crashes < MaxCrashes
    /\ crashes' = crashes + 1
    /\ messages' = Redeliver(j.about, j.retry)
    /\ job' = [job EXCEPT ![w] = {}]
    /\ UNCHANGED <<status, attempts, recorded, faults, renders>>

-----------------------------------------------------------------------------
Init ==
    /\ status = [n \in Notification |-> "absent"]
    /\ attempts = [n \in Notification |-> 0]
    /\ recorded = [n \in Notification |-> 0]
    /\ messages = [n \in Notification |-> [r \in 0 .. MaxRetries |-> 0]]
    /\ job = [w \in CeleryWorker |-> {}]
    /\ crashes = 0
    /\ faults = 0
    /\ renders \in [Notification -> BOOLEAN]

(* A message of n is delivered to a worker. *)
Deliver(n) ==
    \E w \in CeleryWorker, r \in 0 .. MaxRetries : Take(w, n, r) \/ Miss(w, n, r)

(* A worker goes on with its task. *)
Work(w) ==
    \E j \in job[w] :
        \/ Mark(w, j) \/ Record(w, j) \/ Send(w, j)
        \/ SaveSent(w, j) \/ Finish(w, j) \/ SaveFailure(w, j)
        \/ RenderFails(w, j) \/ WriteFails(w, j)

Next ==
    \/ Dispatch
    \/ \E n \in Notification : Request(n) \/ RequestEnd(n) \/ Deliver(n)
    \/ \E w \in CeleryWorker : Work(w) \/ \E j \in job[w] : Crash(w, j)

Spec == Init /\ [][Next]_vars

(* A request ends, beat runs the dispatcher every 30 seconds and a worker  *)
(* goes on with the task it has.  Messages wait in a queue that is served  *)
(* in order: whenever workers become free again and again, the messages of *)
(* a notification get their turn.                                          *)
Fairness ==
    /\ WF_vars(Dispatch)
    /\ \A n \in Notification : WF_vars(RequestEnd(n)) /\ SF_vars(Deliver(n))
    /\ \A w \in CeleryWorker : WF_vars(Work(w))

FairSpec == Spec /\ Fairness

-----------------------------------------------------------------------------
(* Properties *)

Job == [phase : Phase, about : Notification, retry : 0 .. MaxRetries, attempts : Nat]

TypeOK ==
    /\ status \in [Notification -> Status]
    /\ attempts \in [Notification -> Nat]
    /\ recorded \in [Notification -> 0 .. MaxAttempts]
    /\ messages \in [Notification -> [0 .. MaxRetries -> 0 .. MaxMessages]]
    /\ job \in [CeleryWorker -> SUBSET Job]
    /\ \A w \in CeleryWorker : \A i, j \in job[w] : i = j
    /\ crashes \in 0 .. MaxCrashes
    /\ faults \in 0 .. MaxFaults
    /\ renders \in [Notification -> BOOLEAN]

Unrecorded(n) ==
    {w \in CeleryWorker : \E j \in job[w] : j.about = n /\ j.phase = "marked"}

(* A notification is given up only after the full number of attempts,      *)
(* although concurrent deliveries count from stale copies of the row: every*)
(* attempt is in DeliveryAttempt, except one that a lost worker or a failed*)
(* write did not record.                                                   *)
GivenUpAfterAllAttempts ==
    \A n \in Notification :
        status[n] = "failed" =>
            recorded[n] + Cardinality(Unrecorded(n)) + crashes + faults >= MaxAttempts

Attended(n) ==
    Running(n) # {} \/ \E r \in 0 .. MaxRetries : messages[n][r] > 0

(* A notification in PROCESSING is never orphaned by a lost worker: the    *)
(* dispatcher looks for PENDING only, so a task or a message must still be *)
(* on it.  Only a failed write in the last retry of a message orphans it.  *)
ProcessingIsAttended ==
    \A n \in Notification :
        status[n] = "processing" => Attended(n) \/ faults > 0

(* The rows before n that the dispatcher queues for ever: their template   *)
(* has a syntax error, and no attempt of theirs is ever counted.           *)
Blocking(n) == {m \in Earlier(n) : ~renders[m] /\ status[m] # "undone"}

(* Every committed notification whose template can be rendered is at some  *)
(* point sent or given up, whatever is lost or overwritten and however many*)
(* notifications are before it: "Provider failures are recorded and retried*)
(* by Celery" (README.md).  Unless the older rows that loop for ever fill  *)
(* the dispatcher's batch: then it never comes to n.                       *)
EventuallySettled ==
    \A n \in Notification :
        /\ renders[n] /\ status[n] = "pending"
        /\ Cardinality(Blocking(n)) < DispatchLimit
        ~>
        \/ status[n] \in {"sent", "failed"}
        \/ faults > 0 /\ status[n] = "processing" /\ ~Attended(n)
=============================================================================
