---------------------------- MODULE BackgroundProofs ----------------------------
(* Theorems about the two components of MCBackground: the notification     *)
(* outbox, for any notifications and finite set of Celery workers and any  *)
(* limits of batches, attempts, retries and faults, and the compliance     *)
(* alerts.                                                                 *)
EXTENDS MCBackground, SetSums, TLAPS

(* The types, without the bound on messages, which only limits the model.  *)
Typed ==
    /\ status \in [Notification -> Status]
    /\ attempts \in [Notification -> Nat]
    /\ recorded \in [Notification -> 0 .. MaxAttempts]
    /\ messages \in [Notification -> [0 .. MaxRetries -> Nat]]
    /\ job \in [CeleryWorker -> SUBSET Job]
    /\ \A w \in CeleryWorker : \A i, j \in job[w] : i = j
    /\ crashes \in Nat
    /\ faults \in Nat
    /\ renders \in [Notification -> BOOLEAN]

(* The attempts made of a notification, recorded or lost with a cause.     *)
Total(n) == recorded[n] + Cardinality(Unrecorded(n)) + crashes + faults

(* The attempts a task knows of: those it read, and its own once marked.   *)
Known(j) == IF j.phase = "read" THEN j.attempts ELSE Counted(j)

(* No counter, of the row or of a stale copy, is ahead of the attempts made*)
(* as long as these are less than the limit.                               *)
CountInv ==
    \A n \in Notification :
        \/ Total(n) >= MaxAttempts
        \/ /\ attempts[n] <= Total(n)
           /\ \A w \in CeleryWorker : \A j \in job[w] :
                 j.about = n => Known(j) <= Total(n)

(* A notification in PROCESSING was rendered, and is on a message or on a  *)
(* task that has not finished with it, unless a write failed.              *)
AttendInv ==
    \A n \in Notification :
        status[n] = "processing" =>
            /\ renders[n]
            /\ \/ faults > 0
               \/ \E r \in 0 .. MaxRetries : messages[n][r] > 0
               \/ \E w \in CeleryWorker : \E j \in job[w] :
                     j.about = n /\ j.phase # "saved"

OutboxInv == Typed /\ CountInv /\ GivenUpAfterAllAttempts /\ AttendInv

-----------------------------------------------------------------------------
(* Messages and tasks *)

LEMMA SentTyped ==
    ASSUME Typed, NEW n \in Notification, NEW r \in 0 .. MaxRetries
    PROVE  /\ Sent(n, r) \in [Notification -> [0 .. MaxRetries -> Nat]]
           /\ Sent(n, r)[n][r] > 0
           /\ \A m \in Notification, q \in 0 .. MaxRetries :
                 messages[m][q] > 0 => Sent(n, r)[m][q] > 0
  <1> DEFINE row == [messages[n] EXCEPT ![r] = @ + 1]
  <1>1. messages \in [Notification -> [0 .. MaxRetries -> Nat]]
    BY DEF Typed
  <1>2. /\ row \in [0 .. MaxRetries -> Nat]
        /\ row[r] > 0
        /\ \A q \in 0 .. MaxRetries : row[q] >= messages[n][q]
    <2>1. messages[n] \in [0 .. MaxRetries -> Nat]
      BY <1>1
    <2>2. \A q \in 0 .. MaxRetries : messages[n][q] \in Nat
      BY <2>1
    <2>3. row[r] = messages[n][r] + 1 /\ \A q \in (0 .. MaxRetries) \ {r} : row[q] = messages[n][q]
      BY <2>1
    <2>4. row \in [0 .. MaxRetries -> Nat]
      BY <2>1, <2>2
    <2> HIDE DEF row
    <2> QED
      BY <2>2, <2>3, <2>4
  <1>3. Sent(n, r) = [messages EXCEPT ![n] = row]
    BY DEF Sent
  <1> HIDE DEF row
  <1>4. Sent(n, r)[n] = row /\ \A m \in Notification \ {n} : Sent(n, r)[m] = messages[m]
    BY <1>1, <1>3
  <1>5. Sent(n, r) \in [Notification -> [0 .. MaxRetries -> Nat]]
    BY <1>1, <1>2, <1>3
  <1>6. ASSUME NEW m \in Notification, NEW q \in 0 .. MaxRetries, messages[m][q] > 0
        PROVE  Sent(n, r)[m][q] > 0
    <2>1. CASE m = n
      <3>1. row[q] \in Nat /\ messages[n][q] \in Nat /\ row[q] >= messages[n][q]
        BY <1>1, <1>2
      <3> QED
        BY <1>4, <1>6, <2>1, <3>1
    <2>2. CASE m # n
      BY <1>4, <1>6, <2>2
    <2> QED
      BY <2>1, <2>2
  <1> QED
    BY <1>2, <1>4, <1>5, <1>6

LEMMA RetriedTyped ==
    ASSUME Typed, NEW n \in Notification, NEW r \in 0 .. MaxRetries
    PROVE  /\ Retried(n, r) \in [Notification -> [0 .. MaxRetries -> Nat]]
           /\ \A m \in Notification, q \in 0 .. MaxRetries :
                 messages[m][q] > 0 => Retried(n, r)[m][q] > 0
  <1>1. CASE r < MaxRetries
    <2>1. r + 1 \in 0 .. MaxRetries
      BY <1>1, MaxRetriesAssumption
    <2> QED
      BY <1>1, <2>1, SentTyped DEF Retried
  <1>2. CASE ~(r < MaxRetries)
    BY <1>2 DEF Retried, Typed
  <1> QED
    BY <1>1, <1>2

(* A message less, of one notification. *)
LEMMA TakenTyped ==
    ASSUME NEW f \in [Notification -> [0 .. MaxRetries -> Nat]],
           NEW n \in Notification, NEW r \in 0 .. MaxRetries, f[n][r] > 0
    PROVE  /\ [f EXCEPT ![n][r] = @ - 1] \in [Notification -> [0 .. MaxRetries -> Nat]]
           /\ \A m \in Notification \ {n} : [f EXCEPT ![n][r] = @ - 1][m] = f[m]
  <1> DEFINE row == [f[n] EXCEPT ![r] = @ - 1]
  <1>1. row \in [0 .. MaxRetries -> Nat]
    <2>1. f[n] \in [0 .. MaxRetries -> Nat]
      OBVIOUS
    <2>2. f[n][r] \in Nat
      BY <2>1
    <2>3. f[n][r] - 1 \in Nat
      BY <2>2
    <2> QED
      BY <2>1, <2>3
  <1>2. [f EXCEPT ![n][r] = @ - 1] = [f EXCEPT ![n] = row]
    OBVIOUS
  <1> HIDE DEF row
  <1> QED
    BY <1>1, <1>2

LEMMA JobAt ==
    ASSUME Typed, NEW w \in CeleryWorker, NEW j \in job[w]
    PROVE  /\ j \in Job /\ job[w] = {j}
           /\ j.phase \in Phase /\ j.about \in Notification
           /\ j.retry \in 0 .. MaxRetries /\ j.attempts \in Nat
           /\ Counted(j) \in Nat /\ Counted(j) = j.attempts + 1
  <1>1. j \in Job /\ job[w] = {j}
    BY DEF Typed
  <1> QED
    BY <1>1 DEF Job, Counted

(* What one worker does leaves the tasks of the others alone. *)
LEMMA JobSet ==
    ASSUME Typed, NEW w \in CeleryWorker, NEW s \in SUBSET Job,
           \A i, j \in s : i = j, job' = [job EXCEPT ![w] = s]
    PROVE  /\ job' \in [CeleryWorker -> SUBSET Job]
           /\ \A v \in CeleryWorker : \A i, j \in job'[v] : i = j
           /\ job'[w] = s
           /\ \A v \in CeleryWorker \ {w} : job'[v] = job[v]
  BY DEF Typed

LEMMA StepTyped ==
    ASSUME Typed, NEW w \in CeleryWorker, NEW j \in job[w], NEW to \in Phase, Step(w, j, to)
    PROVE  /\ job' \in [CeleryWorker -> SUBSET Job]
           /\ \A v \in CeleryWorker : \A i, k \in job'[v] : i = k
           /\ \A v \in CeleryWorker \ {w} : job'[v] = job[v]
           /\ \E i \in Job : /\ job'[w] = {i}
                             /\ i.phase = to /\ i.about = j.about /\ i.attempts = j.attempts
  <1> DEFINE i == [j EXCEPT !.phase = to]
  <1>1. i \in Job /\ i.phase = to /\ i.about = j.about /\ i.attempts = j.attempts
    BY JobAt DEF Job
  <1>2. job' = [job EXCEPT ![w] = {i}]
    BY DEF Step
  <1> HIDE DEF i
  <1>3. /\ job' \in [CeleryWorker -> SUBSET Job]
        /\ \A v \in CeleryWorker : \A a, b \in job'[v] : a = b
        /\ job'[w] = {i}
        /\ \A v \in CeleryWorker \ {w} : job'[v] = job[v]
    <2>1. {i} \in SUBSET Job /\ \A a, b \in {i} : a = b
      BY <1>1
    <2> QED
      BY <1>2, <2>1, JobSet
  <1> QED
    BY <1>1, <1>3

-----------------------------------------------------------------------------
(* Counting *)

LEMMA UnrecordedCard ==
    ASSUME NEW n \in Notification
    PROVE  IsFiniteSet(Unrecorded(n)) /\ Cardinality(Unrecorded(n)) \in Nat
  <1>1. Unrecorded(n) \subseteq CeleryWorker
    BY DEF Unrecorded
  <1>2. IsFiniteSet(Unrecorded(n))
    BY <1>1, CeleryWorkerAssumption, FS_Subset
  <1> QED
    BY <1>2, FS_CardinalityType

(* A step of one worker counts it in, out or neither. *)
LEMMA UnrecordedStep ==
    ASSUME NEW w \in CeleryWorker, \A v \in CeleryWorker \ {w} : job'[v] = job[v],
           NEW n \in Notification
    PROVE  /\ w \in Unrecorded(n)' /\ w \notin Unrecorded(n) =>
                 Cardinality(Unrecorded(n)') = Cardinality(Unrecorded(n)) + 1
           /\ w \notin Unrecorded(n)' /\ w \in Unrecorded(n) =>
                 Cardinality(Unrecorded(n)') = Cardinality(Unrecorded(n)) - 1
           /\ (w \in Unrecorded(n)' <=> w \in Unrecorded(n)) =>
                 Cardinality(Unrecorded(n)') = Cardinality(Unrecorded(n))
  <1>1. \A v \in CeleryWorker \ {w} : v \in Unrecorded(n)' <=> v \in Unrecorded(n)
    BY DEF Unrecorded
  <1>2. Unrecorded(n) \subseteq CeleryWorker /\ Unrecorded(n)' \subseteq CeleryWorker
    BY DEF Unrecorded
  <1>3. CASE w \in Unrecorded(n)' /\ w \notin Unrecorded(n)
    <2>1. Unrecorded(n)' = Unrecorded(n) \cup {w}
      BY <1>1, <1>2, <1>3
    <2> QED
      BY <1>3, <2>1, UnrecordedCard, FS_AddElement
  <1>4. CASE w \notin Unrecorded(n)' /\ w \in Unrecorded(n)
    <2>1. Unrecorded(n)' = Unrecorded(n) \ {w}
      BY <1>1, <1>2, <1>4
    <2> QED
      BY <1>4, <2>1, UnrecordedCard, FS_RemoveElement
  <1>5. CASE w \in Unrecorded(n)' <=> w \in Unrecorded(n)
    <2>1. Unrecorded(n)' = Unrecorded(n)
      BY <1>1, <1>2, <1>5
    <2> QED
      BY <1>5, <2>1
  <1> QED
    BY <1>3, <1>4, <1>5

LEMMA TotalNat ==
    ASSUME Typed, NEW n \in Notification
    PROVE  Total(n) \in Nat
  BY UnrecordedCard, MaxAttemptsAssumption DEF Total, Typed

LEMMA TotalNatNext ==
    ASSUME Typed', NEW n \in Notification
    PROVE  Total(n)' \in Nat
  <1>1. IsFiniteSet(Unrecorded(n)') /\ Cardinality(Unrecorded(n)') \in Nat
    <2>1. Unrecorded(n)' \subseteq CeleryWorker
      BY DEF Unrecorded
    <2> QED
      BY <2>1, CeleryWorkerAssumption, FS_Subset, FS_CardinalityType
  <1> QED
    BY <1>1, MaxAttemptsAssumption DEF Total, Typed

(* A worker that is not counted before or after its step. *)
LEMMA TotalKept ==
    ASSUME Typed, NEW w \in CeleryWorker, \A v \in CeleryWorker \ {w} : job'[v] = job[v],
           \A j \in job[w] \cup job'[w] : j.phase # "marked",
           UNCHANGED <<recorded, crashes>>, faults' \in Nat, faults <= faults'
    PROVE  \A n \in Notification : Total(n) <= Total(n)'
  <1> SUFFICES ASSUME NEW n \in Notification PROVE Total(n) <= Total(n)'
    OBVIOUS
  <1>1. w \notin Unrecorded(n) /\ w \notin Unrecorded(n)'
    BY DEF Unrecorded
  <1>2. Cardinality(Unrecorded(n)') = Cardinality(Unrecorded(n))
    BY <1>1, UnrecordedStep
  <1> QED
    BY <1>2, UnrecordedCard, MaxAttemptsAssumption DEF Total, Typed

(* A counted attempt whose task ends is counted among the losses. *)
LEMMA TotalLost ==
    ASSUME Typed, NEW w \in CeleryWorker, \A v \in CeleryWorker \ {w} : job'[v] = job[v],
           job'[w] = {}, UNCHANGED recorded,
           \/ crashes' = crashes + 1 /\ faults' = faults
           \/ faults' = faults + 1 /\ crashes' = crashes
    PROVE  \A n \in Notification : Total(n) <= Total(n)'
  <1> SUFFICES ASSUME NEW n \in Notification PROVE Total(n) <= Total(n)'
    OBVIOUS
  <1>1. w \notin Unrecorded(n)'
    BY DEF Unrecorded
  <1>2. Cardinality(Unrecorded(n)') >= Cardinality(Unrecorded(n)) - 1
    BY <1>1, UnrecordedStep, UnrecordedCard
  <1>3. Cardinality(Unrecorded(n)') \in Int
    BY <1>1, UnrecordedStep, UnrecordedCard
  <1> QED
    BY <1>2, <1>3, UnrecordedCard, MaxAttemptsAssumption DEF Total, Typed

(* What a step must respect for the counters to stay behind. *)
LEMMA CountKept ==
    ASSUME OutboxInv, Typed', NEW w \in CeleryWorker,
           \A v \in CeleryWorker \ {w} : job'[v] = job[v],
           \A n \in Notification : Total(n) <= Total(n)' \/ Total(n)' >= MaxAttempts,
           \A n \in Notification : \/ attempts'[n] = attempts[n]
                                   \/ attempts'[n] <= Total(n)'
                                   \/ Total(n)' >= MaxAttempts,
           \A j \in job'[w] : \/ Known(j) <= Total(j.about)'
                              \/ Total(j.about)' >= MaxAttempts,
           \A n \in Notification : \/ status'[n] # "failed" \/ status[n] = "failed"
                                   \/ Total(n)' >= MaxAttempts
    PROVE  CountInv' /\ GivenUpAfterAllAttempts'
  <1> USE DEF OutboxInv
  <1>1. \A n \in Notification : Total(n) \in Nat /\ Total(n)' \in Nat
    BY TotalNat, TotalNatNext
  <1>2. GivenUpAfterAllAttempts'
    <2> SUFFICES ASSUME NEW n \in Notification, status'[n] = "failed"
                 PROVE  Total(n)' >= MaxAttempts
      BY DEF GivenUpAfterAllAttempts, Total
    <2>1. status[n] = "failed" => Total(n) >= MaxAttempts
      BY DEF GivenUpAfterAllAttempts, Total
    <2> QED
      BY <1>1, <2>1, MaxAttemptsAssumption
  <1>3. CountInv'
    <2> SUFFICES ASSUME NEW n \in Notification, ~(Total(n)' >= MaxAttempts)
                 PROVE  /\ attempts'[n] <= Total(n)'
                        /\ \A v \in CeleryWorker : \A j \in job'[v] :
                              j.about = n => Known(j) <= Total(n)'
      BY DEF CountInv, Known, Counted
    <2>1. /\ attempts[n] <= Total(n)
          /\ \A v \in CeleryWorker : \A j \in job[v] : j.about = n => Known(j) <= Total(n)
      BY <1>1, MaxAttemptsAssumption DEF CountInv
    <2>2. attempts'[n] <= Total(n)'
      BY <1>1, <2>1 DEF Typed
    <2>3. ASSUME NEW v \in CeleryWorker, NEW j \in job'[v], j.about = n
          PROVE  Known(j) <= Total(n)'
      <3>1. CASE v = w
        BY <2>3, <3>1
      <3>2. CASE v # w
        <4>1. j \in job[v] /\ Known(j) <= Total(n)
          BY <2>1, <2>3, <3>2
        <4>2. Known(j) \in Nat
          BY <4>1, JobAt DEF Known
        <4> QED
          BY <1>1, <4>1, <4>2
      <3> QED
        BY <3>1, <3>2
    <2> QED
      BY <2>2, <2>3
  <1> QED
    BY <1>2, <1>3

(* What a step must respect for notifications to stay attended. *)
LEMMA AttendKept ==
    ASSUME OutboxInv, NEW w \in CeleryWorker, UNCHANGED renders, faults' \in Nat, faults <= faults',
           \A v \in CeleryWorker \ {w} : job'[v] = job[v],
           \A n \in Notification, r \in 0 .. MaxRetries :
              messages[n][r] > 0 => messages'[n][r] > 0,
           \A n \in Notification :
              \/ status'[n] # "processing" \/ status[n] = "processing"
              \/ renders[n] /\ \E j \in job'[w] : j.about = n /\ j.phase # "saved",
           \A j \in job[w] :
              \/ j.phase = "saved" \/ status'[j.about] # "processing" \/ faults' > 0
              \/ \E r \in 0 .. MaxRetries : messages'[j.about][r] > 0
              \/ \E i \in job'[w] : i.about = j.about /\ i.phase # "saved"
    PROVE  AttendInv'
  <1> USE DEF OutboxInv
  <1> SUFFICES ASSUME NEW n \in Notification, status'[n] = "processing"
               PROVE  /\ renders[n]
                      /\ \/ faults' > 0
                         \/ \E r \in 0 .. MaxRetries : messages'[n][r] > 0
                         \/ \E v \in CeleryWorker : \E j \in job'[v] :
                               j.about = n /\ j.phase # "saved"
    BY DEF AttendInv
  <1>1. CASE renders[n] /\ \E j \in job'[w] : j.about = n /\ j.phase # "saved"
    BY <1>1
  <1>2. CASE status[n] = "processing"
    <2>1. /\ renders[n]
          /\ \/ faults > 0
             \/ \E r \in 0 .. MaxRetries : messages[n][r] > 0
             \/ \E v \in CeleryWorker : \E j \in job[v] : j.about = n /\ j.phase # "saved"
      BY <1>2 DEF AttendInv
    <2>2. CASE faults > 0
      BY <2>1, <2>2 DEF Typed
    <2>3. CASE \E r \in 0 .. MaxRetries : messages[n][r] > 0
      BY <2>1, <2>3
    <2>4. CASE \E v \in CeleryWorker : \E j \in job[v] : j.about = n /\ j.phase # "saved"
      <3>1. PICK v \in CeleryWorker : \E j \in job[v] : j.about = n /\ j.phase # "saved"
        BY <2>4
      <3>2. CASE v = w
        BY <2>1, <3>1, <3>2
      <3>3. CASE v # w
        BY <2>1, <3>1, <3>3
      <3> QED
        BY <3>2, <3>3
    <2> QED
      BY <2>1, <2>2, <2>3, <2>4
  <1> QED
    BY <1>1, <1>2

-----------------------------------------------------------------------------
(* The request and the dispatcher *)

(* Nothing is counted while no task moves. *)
LEMMA CountStill ==
    ASSUME CountInv, GivenUpAfterAllAttempts, UNCHANGED <<attempts, recorded, job, lost>>,
           \A n \in Notification : status'[n] = "failed" => status[n] = "failed"
    PROVE  CountInv' /\ GivenUpAfterAllAttempts'
  BY DEF CountInv, GivenUpAfterAllAttempts, Total, Unrecorded, Known, Counted, lost

(* What a run of the dispatcher leaves in the queue. *)
LEMMA DispatchSends ==
    ASSUME Typed, Dispatch
    PROVE  /\ messages' \in [Notification -> [0 .. MaxRetries -> Nat]]
           /\ \A m \in Notification :
                 \/ messages'[m] = messages[m]
                 \/ InFlight(m) < MaxMessages /\ messages'[m] = Sent(m, 0)[m]
           /\ UNCHANGED <<status, attempts, recorded, job, lost, renders>>
  <1> DEFINE queued == {n \in Batch : InFlight(n) < MaxMessages}
  <1>1. /\ messages' = [n \in Notification |->
                          IF n \in queued THEN Sent(n, 0)[n] ELSE messages[n]]
        /\ UNCHANGED <<status, attempts, recorded, job, lost, renders>>
    BY DEF Dispatch
  <1>2. \A n \in queued : InFlight(n) < MaxMessages
    OBVIOUS
  <1> HIDE DEF queued
  <1>3. 0 \in 0 .. MaxRetries
    BY MaxRetriesAssumption
  <1>4. \A n \in Notification : Sent(n, 0)[n] \in [0 .. MaxRetries -> Nat]
    <2> SUFFICES ASSUME NEW n \in Notification
                 PROVE  Sent(n, 0)[n] \in [0 .. MaxRetries -> Nat]
      OBVIOUS
    <2>1. Sent(n, 0) \in [Notification -> [0 .. MaxRetries -> Nat]]
      BY <1>3, SentTyped
    <2> QED
      BY <2>1
  <1>5. \A n \in Notification : messages[n] \in [0 .. MaxRetries -> Nat]
    BY DEF Typed
  <1>6. messages' \in [Notification -> [0 .. MaxRetries -> Nat]]
    BY <1>1, <1>4, <1>5
  <1>7. ASSUME NEW m \in Notification
        PROVE  \/ messages'[m] = messages[m]
               \/ InFlight(m) < MaxMessages /\ messages'[m] = Sent(m, 0)[m]
    BY <1>1, <1>2
  <1> QED
    BY <1>1, <1>6, <1>7

LEMMA DispatchInv ==
    ASSUME OutboxInv, Dispatch
    PROVE  OutboxInv'
  <1> USE DEF OutboxInv
  <1>1. /\ messages' \in [Notification -> [0 .. MaxRetries -> Nat]]
        /\ \A m \in Notification : messages'[m] = messages[m] \/ messages'[m] = Sent(m, 0)[m]
        /\ UNCHANGED <<status, attempts, recorded, job, lost, renders>>
    BY DispatchSends
  <1>2. \A m \in Notification, q \in 0 .. MaxRetries :
           messages[m][q] > 0 => messages'[m][q] > 0
    <2> SUFFICES ASSUME NEW m \in Notification, NEW q \in 0 .. MaxRetries, messages[m][q] > 0
                 PROVE  messages'[m][q] > 0
      OBVIOUS
    <2>1. 0 \in 0 .. MaxRetries
      BY MaxRetriesAssumption
    <2>2. Sent(m, 0)[m][q] > 0
      BY <2>1, SentTyped
    <2> QED
      BY <1>1, <2>2
  <1>3. Typed'
    BY <1>1 DEF Typed, lost
  <1>4. CountInv' /\ GivenUpAfterAllAttempts'
    BY <1>1, CountStill
  <1>5. AttendInv'
    BY <1>1, <1>2 DEF AttendInv, lost
  <1> QED
    BY <1>3, <1>4, <1>5

LEMMA RequestInv ==
    ASSUME OutboxInv, NEW n \in Notification, Request(n)
    PROVE  OutboxInv'
  <1> USE DEF OutboxInv
  <1>1. /\ messages' = Sent(n, 0)
        /\ status' = [status EXCEPT ![n] = "requesting"]
        /\ UNCHANGED <<attempts, recorded, job, lost, renders>>
    BY DEF Request
  <1>2. 0 \in 0 .. MaxRetries
    BY MaxRetriesAssumption
  <1>3. /\ messages' \in [Notification -> [0 .. MaxRetries -> Nat]]
        /\ \A m \in Notification, q \in 0 .. MaxRetries :
              messages[m][q] > 0 => messages'[m][q] > 0
    BY <1>1, <1>2, SentTyped
  <1>4. status' \in [Notification -> Status]
    BY <1>1 DEF Typed, Status
  <1>5. \A m \in Notification : status'[m] \in {status[m], "requesting"}
    BY <1>1 DEF Typed
  <1>6. Typed'
    BY <1>1, <1>3, <1>4 DEF Typed, lost
  <1>7. CountInv' /\ GivenUpAfterAllAttempts'
    BY <1>1, <1>5, CountStill
  <1>8. AttendInv'
    BY <1>1, <1>3, <1>5 DEF AttendInv, lost
  <1> QED
    BY <1>6, <1>7, <1>8

LEMMA RequestEndInv ==
    ASSUME OutboxInv, NEW n \in Notification, RequestEnd(n)
    PROVE  OutboxInv'
  <1> USE DEF OutboxInv
  <1>1. UNCHANGED <<attempts, recorded, messages, job, lost, renders>>
    BY DEF RequestEnd
  <1>2. PICK s \in {"pending", "undone"} : status' = [status EXCEPT ![n] = s]
    BY DEF RequestEnd
  <1>3. status' \in [Notification -> Status]
    BY <1>2 DEF Typed, Status
  <1>4. \A m \in Notification : status'[m] \in {status[m], "pending", "undone"}
    BY <1>2 DEF Typed
  <1>5. Typed'
    BY <1>1, <1>3 DEF Typed, lost
  <1>6. CountInv' /\ GivenUpAfterAllAttempts'
    BY <1>1, <1>4, CountStill
  <1>7. AttendInv'
    BY <1>1, <1>4 DEF AttendInv, lost
  <1> QED
    BY <1>5, <1>6, <1>7

LEMMA MissInv ==
    ASSUME OutboxInv, NEW w \in CeleryWorker, NEW n \in Notification, NEW r \in 0 .. MaxRetries,
           Miss(w, n, r)
    PROVE  OutboxInv'
  <1> USE DEF OutboxInv
  <1>1. /\ messages[n][r] > 0
        /\ status[n] \notin Visible
        /\ messages' = [Retried(n, r) EXCEPT ![n][r] = @ - 1]
        /\ UNCHANGED <<status, attempts, recorded, job, lost, renders>>
    BY DEF Miss
  <1>2. /\ Retried(n, r) \in [Notification -> [0 .. MaxRetries -> Nat]]
        /\ Retried(n, r)[n][r] > 0
        /\ \A m \in Notification, q \in 0 .. MaxRetries :
              messages[m][q] > 0 => Retried(n, r)[m][q] > 0
    BY <1>1, RetriedTyped
  <1>3. /\ messages' \in [Notification -> [0 .. MaxRetries -> Nat]]
        /\ \A m \in Notification \ {n} : messages'[m] = Retried(n, r)[m]
    BY <1>1, <1>2, TakenTyped
  <1>4. Typed'
    BY <1>1, <1>3 DEF Typed, lost
  <1>5. CountInv' /\ GivenUpAfterAllAttempts'
    BY <1>1, CountStill
  <1>6. AttendInv'
    <2> SUFFICES ASSUME NEW m \in Notification, status[m] = "processing"
                 PROVE  /\ renders[m]
                        /\ \/ faults > 0
                           \/ \E q \in 0 .. MaxRetries : messages'[m][q] > 0
                           \/ \E v \in CeleryWorker : \E j \in job[v] :
                                 j.about = m /\ j.phase # "saved"
      BY <1>1 DEF AttendInv, lost
    <2>1. m # n
      BY <1>1 DEF Visible
    <2> QED
      BY <1>2, <1>3, <2>1 DEF AttendInv
  <1> QED
    BY <1>4, <1>5, <1>6

-----------------------------------------------------------------------------
(* The steps of a worker *)

LEMMA TakeInv ==
    ASSUME OutboxInv, NEW w \in CeleryWorker, NEW n \in Notification, NEW r \in 0 .. MaxRetries,
           Take(w, n, r)
    PROVE  OutboxInv'
  <1> USE DEF OutboxInv
  <1> DEFINE i == [phase |-> "read", about |-> n, retry |-> r, attempts |-> attempts[n]]
  <1>1. /\ job[w] = {}
        /\ messages[n][r] > 0
        /\ messages' = [messages EXCEPT ![n][r] = @ - 1]
        /\ job' = [job EXCEPT ![w] = {i}]
        /\ UNCHANGED <<status, attempts, recorded, lost, renders>>
    BY DEF Take
  <1>2. i \in Job /\ i.phase = "read" /\ i.about = n /\ i.attempts = attempts[n]
    BY DEF Typed, Job, Phase
  <1> HIDE DEF i
  <1>3. /\ job' \in [CeleryWorker -> SUBSET Job]
        /\ \A v \in CeleryWorker : \A a, b \in job'[v] : a = b
        /\ job'[w] = {i}
        /\ \A v \in CeleryWorker \ {w} : job'[v] = job[v]
    <2>1. {i} \in SUBSET Job /\ \A a, b \in {i} : a = b
      BY <1>2
    <2> QED
      BY <1>1, <2>1, JobSet
  <1>4. /\ messages' \in [Notification -> [0 .. MaxRetries -> Nat]]
        /\ \A m \in Notification \ {n} : messages'[m] = messages[m]
    BY <1>1, TakenTyped DEF Typed
  <1>5. Typed'
    BY <1>1, <1>3, <1>4 DEF Typed, lost
  <1>6. \A m \in Notification : Total(m) <= Total(m)'
    <2>1. \A j \in job[w] \cup job'[w] : j.phase # "marked"
      BY <1>1, <1>2, <1>3
    <2>2. /\ UNCHANGED <<recorded, crashes>> /\ faults' \in Nat /\ faults <= faults'
      BY <1>1 DEF lost, Typed
    <2> QED
      BY <1>3, <2>1, <2>2, TotalKept
  <1>7. CountInv' /\ GivenUpAfterAllAttempts'
    <2>1. Known(i) <= Total(n)' \/ Total(n)' >= MaxAttempts
      <3>1. Known(i) = attempts[n] /\ attempts[n] \in Nat
        BY <1>2 DEF Known, Typed
      <3>2. Total(n) \in Nat /\ Total(n)' \in Nat /\ Total(n) <= Total(n)'
        BY <1>5, <1>6, TotalNat, TotalNatNext
      <3>3. attempts[n] <= Total(n) \/ Total(n) >= MaxAttempts
        BY DEF CountInv
      <3> QED
        BY <3>1, <3>2, <3>3, MaxAttemptsAssumption
    <2>2. \A j \in job'[w] : \/ Known(j) <= Total(j.about)'
                             \/ Total(j.about)' >= MaxAttempts
      BY <1>2, <1>3, <2>1
    <2> QED
      BY <1>1, <1>3, <1>5, <1>6, <2>2, CountKept
  <1>8. AttendInv'
    <2> SUFFICES ASSUME NEW m \in Notification, status[m] = "processing"
                 PROVE  /\ renders[m]
                        /\ \/ faults > 0
                           \/ \E q \in 0 .. MaxRetries : messages'[m][q] > 0
                           \/ \E v \in CeleryWorker : \E j \in job'[v] :
                                 j.about = m /\ j.phase # "saved"
      BY <1>1 DEF AttendInv, lost
    <2>1. CASE m = n
      <3>1. i \in job'[w] /\ i.about = m /\ i.phase # "saved"
        BY <1>2, <1>3, <2>1
      <3> QED
        BY <3>1 DEF AttendInv
    <2>2. CASE m # n
      <3>1. \A v \in CeleryWorker : job[v] \subseteq job'[v]
        BY <1>1, <1>3
      <3> QED
        BY <1>4, <2>2, <3>1 DEF AttendInv
    <2> QED
      BY <2>1, <2>2
  <1> QED
    BY <1>5, <1>7, <1>8

(* A task that ends without a word of its notification. *)
LEMMA EndedTyped ==
    ASSUME Typed, NEW w \in CeleryWorker, job' = [job EXCEPT ![w] = {}]
    PROVE  /\ job' \in [CeleryWorker -> SUBSET Job]
           /\ \A v \in CeleryWorker : \A i, j \in job'[v] : i = j
           /\ job'[w] = {}
           /\ \A v \in CeleryWorker \ {w} : job'[v] = job[v]
  BY DEF Typed

LEMMA MarkInv ==
    ASSUME OutboxInv, NEW w \in CeleryWorker, NEW j \in job[w], Mark(w, j)
    PROVE  OutboxInv'
  <1> USE DEF OutboxInv
  <1> DEFINE n == j.about
  <1>1. /\ j.phase = "read" /\ renders[n]
        /\ attempts' = [attempts EXCEPT ![n] = Counted(j)]
        /\ status' = [status EXCEPT ![n] = "processing"]
        /\ Step(w, j, "marked")
        /\ UNCHANGED <<recorded, messages, lost, renders>>
    BY DEF Mark
  <1>2. /\ job[w] = {j} /\ n \in Notification
        /\ Counted(j) \in Nat /\ Counted(j) = j.attempts + 1 /\ j.attempts \in Nat
    BY JobAt
  <1>3. PICK i \in Job :
           /\ job'[w] = {i}
           /\ i.phase = "marked" /\ i.about = n /\ i.attempts = j.attempts
    BY <1>1, StepTyped DEF Phase
  <1>4. /\ job' \in [CeleryWorker -> SUBSET Job]
        /\ \A v \in CeleryWorker : \A a, b \in job'[v] : a = b
        /\ \A v \in CeleryWorker \ {w} : job'[v] = job[v]
    BY <1>1, StepTyped DEF Phase
  <1> HIDE DEF n
  <1>5. Typed'
    <2>1. attempts' \in [Notification -> Nat] /\ status' \in [Notification -> Status]
      BY <1>1, <1>2 DEF Typed, Status
    <2> QED
      BY <1>1, <1>4, <2>1 DEF Typed, lost
  <1>6. /\ \A m \in Notification : Total(m) <= Total(m)'
        /\ Total(n)' = Total(n) + 1
    <2>1. \A m \in Notification : w \notin Unrecorded(m) /\ (w \in Unrecorded(m)' <=> m = n)
      BY <1>1, <1>2, <1>3 DEF Unrecorded, n
    <2>2. \A m \in Notification :
             Cardinality(Unrecorded(m)') = Cardinality(Unrecorded(m)) + (IF m = n THEN 1 ELSE 0)
      BY <1>4, <2>1, UnrecordedStep, UnrecordedCard
    <2>3. \A m \in Notification : Cardinality(Unrecorded(m)) \in Nat
      BY UnrecordedCard
    <2>4. \A m \in Notification : Total(m)' = Total(m) + (IF m = n THEN 1 ELSE 0)
      BY <1>1, <2>2, <2>3, MaxAttemptsAssumption DEF Total, lost, Typed
    <2> QED
      BY <1>2, <2>4, TotalNat
  <1>7. Counted(j) <= Total(n)' \/ Total(n)' >= MaxAttempts
    <2>1. j.attempts <= Total(n) \/ Total(n) >= MaxAttempts
      BY <1>1, <1>2 DEF CountInv, Known, n
    <2> QED
      BY <1>2, <1>6, <2>1, TotalNat, MaxAttemptsAssumption
  <1>8. CountInv' /\ GivenUpAfterAllAttempts'
    <2>1. \A m \in Notification : \/ attempts'[m] = attempts[m]
                                  \/ attempts'[m] <= Total(m)'
                                  \/ Total(m)' >= MaxAttempts
      BY <1>1, <1>7 DEF Typed
    <2>2. \A a \in job'[w] : \/ Known(a) <= Total(a.about)'
                             \/ Total(a.about)' >= MaxAttempts
      <3>1. Known(i) = Counted(j)
        BY <1>2, <1>3 DEF Known, Counted
      <3> QED
        BY <1>3, <1>7, <3>1
    <2>3. \A m \in Notification : \/ status'[m] # "failed" \/ status[m] = "failed"
                                  \/ Total(m)' >= MaxAttempts
      BY <1>1 DEF Typed
    <2> QED
      BY <1>4, <1>5, <1>6, <2>1, <2>2, <2>3, CountKept
  <1>9. AttendInv'
    <2>1. \A m \in Notification :
             \/ status'[m] # "processing" \/ status[m] = "processing"
             \/ renders[m] /\ \E a \in job'[w] : a.about = m /\ a.phase # "saved"
      BY <1>1, <1>3 DEF Typed
    <2>2. \A k \in job[w] : \E a \in job'[w] : a.about = k.about /\ a.phase # "saved"
      BY <1>2, <1>3 DEF n
    <2>3. UNCHANGED <<renders, messages>> /\ faults' \in Nat /\ faults <= faults'
      BY <1>1 DEF lost, Typed
    <2> QED
      BY <1>4, <2>1, <2>2, <2>3, AttendKept
  <1> QED
    BY <1>5, <1>8, <1>9

LEMMA RecordInv ==
    ASSUME OutboxInv, NEW w \in CeleryWorker, NEW j \in job[w], Record(w, j)
    PROVE  OutboxInv'
  <1> USE DEF OutboxInv
  <1> DEFINE n == j.about
  <1>1. /\ j.phase = "marked"
        /\ recorded' = [recorded EXCEPT ![n] = IF @ < MaxAttempts THEN @ + 1 ELSE @]
        /\ Step(w, j, "recorded")
        /\ UNCHANGED <<status, attempts, messages, lost, renders>>
    BY DEF Record
  <1>2. /\ job[w] = {j} /\ n \in Notification
        /\ Counted(j) \in Nat /\ Counted(j) = j.attempts + 1
    BY JobAt
  <1>3. PICK i \in Job :
           /\ job'[w] = {i}
           /\ i.phase = "recorded" /\ i.about = n /\ i.attempts = j.attempts
    BY <1>1, StepTyped DEF Phase
  <1>4. /\ job' \in [CeleryWorker -> SUBSET Job]
        /\ \A v \in CeleryWorker : \A a, b \in job'[v] : a = b
        /\ \A v \in CeleryWorker \ {w} : job'[v] = job[v]
    BY <1>1, StepTyped DEF Phase
  <1> HIDE DEF n
  <1>5. /\ recorded' \in [Notification -> 0 .. MaxAttempts]
        /\ recorded'[n] = IF recorded[n] < MaxAttempts THEN recorded[n] + 1 ELSE recorded[n]
        /\ \A m \in Notification \ {n} : recorded'[m] = recorded[m]
    BY <1>1, <1>2, MaxAttemptsAssumption DEF Typed
  <1>6. Typed'
    BY <1>1, <1>4, <1>5 DEF Typed, lost
  <1>7. \A m \in Notification : Total(m) <= Total(m)' \/ Total(m)' >= MaxAttempts
    <2> SUFFICES ASSUME NEW m \in Notification
                 PROVE  Total(m) <= Total(m)' \/ Total(m)' >= MaxAttempts
      OBVIOUS
    <2>1. w \notin Unrecorded(m)' /\ (w \in Unrecorded(m) <=> m = n)
      BY <1>1, <1>2, <1>3 DEF Unrecorded, n
    <2>2. /\ m = n => Cardinality(Unrecorded(m)') = Cardinality(Unrecorded(m)) - 1
          /\ m # n => Cardinality(Unrecorded(m)') = Cardinality(Unrecorded(m))
      BY <1>4, <2>1, UnrecordedStep
    <2>3. Cardinality(Unrecorded(m)) \in Nat /\ Cardinality(Unrecorded(m)') \in Nat
      <3>1. Unrecorded(m)' \subseteq CeleryWorker
        BY DEF Unrecorded
      <3> QED
        BY <3>1, UnrecordedCard, CeleryWorkerAssumption, FS_Subset, FS_CardinalityType
    <2>4. crashes' = crashes /\ faults' = faults /\ crashes \in Nat /\ faults \in Nat
      BY <1>1 DEF lost, Typed
    <2>5. recorded[m] \in 0 .. MaxAttempts /\ recorded'[m] \in 0 .. MaxAttempts
      BY <1>5 DEF Typed
    <2> QED
      BY <1>5, <2>2, <2>3, <2>4, <2>5, MaxAttemptsAssumption DEF Total
  <1>8. CountInv' /\ GivenUpAfterAllAttempts'
    <2>1. \A a \in job'[w] : \/ Known(a) <= Total(a.about)'
                             \/ Total(a.about)' >= MaxAttempts
      <3>1. Known(i) = Known(j) /\ Known(j) \in Nat
        BY <1>1, <1>2, <1>3 DEF Known, Counted
      <3>2. Known(j) <= Total(n) \/ Total(n) >= MaxAttempts
        BY <1>2 DEF CountInv, n
      <3>3. Total(n) \in Nat /\ Total(n)' \in Nat
        BY <1>2, <1>6, TotalNat, TotalNatNext
      <3>4. Known(i) <= Total(n)' \/ Total(n)' >= MaxAttempts
        BY <1>2, <1>7, <3>1, <3>2, <3>3, MaxAttemptsAssumption
      <3> QED
        BY <1>3, <3>4
    <2> QED
      BY <1>1, <1>4, <1>6, <1>7, <2>1, CountKept
  <1>9. AttendInv'
    <2>1. \A k \in job[w] : \E a \in job'[w] : a.about = k.about /\ a.phase # "saved"
      BY <1>2, <1>3 DEF n
    <2>2. UNCHANGED <<renders, messages, status>> /\ faults' \in Nat /\ faults <= faults'
      BY <1>1 DEF lost, Typed
    <2> QED
      BY <1>4, <2>1, <2>2, AttendKept
  <1> QED
    BY <1>6, <1>8, <1>9

(* A step to a later phase, which learns nothing of the counters. *)
LEMMA PhaseInv ==
    ASSUME OutboxInv, NEW w \in CeleryWorker, NEW j \in job[w], NEW to \in Phase \ {"read", "marked"},
           Step(w, j, to), j.phase \in {"recorded", "accepted"},
           UNCHANGED <<recorded, messages, lost, renders>>,
           attempts' \in [Notification -> Nat],
           \A m \in Notification : \/ attempts'[m] = attempts[m]
                                   \/ m = j.about /\ attempts'[m] = Counted(j),
           status' \in [Notification -> Status],
           \A m \in Notification : status'[m] = status[m] \/ status'[m] = "sent",
           to = "saved" => status'[j.about] = "sent"
    PROVE  OutboxInv'
  <1> USE DEF OutboxInv
  <1>1. /\ job[w] = {j} /\ j.about \in Notification
        /\ Counted(j) \in Nat /\ Known(j) = Counted(j)
    BY JobAt DEF Known
  <1>2. PICK i \in Job :
           /\ job'[w] = {i}
           /\ i.phase = to /\ i.about = j.about /\ i.attempts = j.attempts
    BY StepTyped
  <1>3. /\ job' \in [CeleryWorker -> SUBSET Job]
        /\ \A v \in CeleryWorker : \A a, b \in job'[v] : a = b
        /\ \A v \in CeleryWorker \ {w} : job'[v] = job[v]
    BY StepTyped
  <1>4. Typed'
    BY <1>3 DEF Typed, lost
  <1>5. \A m \in Notification : Total(m) <= Total(m)'
    <2>1. \A a \in job[w] \cup job'[w] : a.phase # "marked"
      BY <1>1, <1>2
    <2>2. /\ UNCHANGED <<recorded, crashes>> /\ faults' \in Nat /\ faults <= faults'
      BY DEF lost, Typed
    <2> QED
      BY <1>3, <2>1, <2>2, TotalKept
  <1>6. Counted(j) <= Total(j.about)' \/ Total(j.about)' >= MaxAttempts
    <2>1. Counted(j) <= Total(j.about) \/ Total(j.about) >= MaxAttempts
      BY <1>1 DEF CountInv
    <2>2. Total(j.about) \in Nat /\ Total(j.about)' \in Nat
      BY <1>1, <1>4, TotalNat, TotalNatNext
    <2> QED
      BY <1>1, <1>5, <2>1, <2>2, MaxAttemptsAssumption
  <1>7. CountInv' /\ GivenUpAfterAllAttempts'
    <2>1. \A a \in job'[w] : \/ Known(a) <= Total(a.about)'
                             \/ Total(a.about)' >= MaxAttempts
      <3>1. Known(i) = Counted(j)
        BY <1>2 DEF Known, Counted
      <3> QED
        BY <1>2, <1>6, <3>1
    <2>2. \A m \in Notification : \/ attempts'[m] = attempts[m]
                                  \/ attempts'[m] <= Total(m)'
                                  \/ Total(m)' >= MaxAttempts
      BY <1>6
    <2> QED
      BY <1>3, <1>4, <1>5, <2>1, <2>2, CountKept
  <1>8. AttendInv'
    <2>1. \A k \in job[w] :
             \/ status'[k.about] # "processing"
             \/ \E a \in job'[w] : a.about = k.about /\ a.phase # "saved"
      BY <1>1, <1>2
    <2>2. UNCHANGED <<renders, messages>> /\ faults' \in Nat /\ faults <= faults'
      BY DEF lost, Typed
    <2>3. \A m \in Notification : status'[m] # "processing" \/ status[m] = "processing"
      OBVIOUS
    <2> QED
      BY <1>3, <2>1, <2>2, <2>3, AttendKept
  <1> QED
    BY <1>4, <1>7, <1>8

LEMMA SendInv ==
    ASSUME OutboxInv, NEW w \in CeleryWorker, NEW j \in job[w], Send(w, j) \/ SaveSent(w, j)
    PROVE  OutboxInv'
  <1> USE DEF OutboxInv
  <1>1. j.about \in Notification /\ Counted(j) \in Nat
    BY JobAt
  <1>2. CASE Send(w, j)
    <2>1. PICK answer \in {"accepted", "refused"} : Step(w, j, answer)
      BY <1>2 DEF Send
    <2>2. /\ j.phase = "recorded"
          /\ UNCHANGED <<status, attempts, recorded, messages, lost, renders>>
      BY <1>2 DEF Send
    <2>3. answer \in Phase \ {"read", "marked"} /\ answer # "saved"
      BY DEF Phase
    <2>4. attempts' \in [Notification -> Nat] /\ status' \in [Notification -> Status]
      BY <2>2 DEF Typed
    <2> QED
      BY <2>1, <2>2, <2>3, <2>4, PhaseInv
  <1>3. CASE SaveSent(w, j)
    <2>1. /\ j.phase = "accepted"
          /\ status' = [status EXCEPT ![j.about] = "sent"]
          /\ attempts' = [attempts EXCEPT ![j.about] = Counted(j)]
          /\ Step(w, j, "saved")
          /\ UNCHANGED <<recorded, messages, lost, renders>>
      BY <1>3 DEF SaveSent
    <2>2. /\ attempts' \in [Notification -> Nat]
          /\ \A m \in Notification : \/ attempts'[m] = attempts[m]
                                     \/ m = j.about /\ attempts'[m] = Counted(j)
      BY <1>1, <2>1 DEF Typed
    <2>3. /\ status' \in [Notification -> Status]
          /\ \A m \in Notification : status'[m] = status[m] \/ status'[m] = "sent"
          /\ status'[j.about] = "sent"
      BY <1>1, <2>1 DEF Typed, Status
    <2>4. "saved" \in Phase \ {"read", "marked"}
      BY DEF Phase
    <2> QED
      BY <2>1, <2>2, <2>3, <2>4, PhaseInv
  <1> QED
    BY <1>2, <1>3

(* A task that ends, and leaves a message, a written status or a cause.    *)
LEMMA EndInv ==
    ASSUME OutboxInv, NEW w \in CeleryWorker, NEW j \in job[w], job' = [job EXCEPT ![w] = {}],
           UNCHANGED <<attempts, recorded, renders>>,
           \/ UNCHANGED <<crashes, faults>> /\ j.phase # "marked"
           \/ crashes' = crashes + 1 /\ faults' = faults
           \/ faults' = faults + 1 /\ crashes' = crashes,
           messages' \in [Notification -> [0 .. MaxRetries -> Nat]],
           \A m \in Notification, r \in 0 .. MaxRetries :
              messages[m][r] > 0 => messages'[m][r] > 0,
           status' \in [Notification -> Status],
           \A m \in Notification : \/ status'[m] = status[m]
                                   \/ status'[m] = "pending"
                                   \/ status'[m] = "failed" /\ Total(m) >= MaxAttempts,
           \/ j.phase = "saved" \/ status'[j.about] # "processing" \/ faults' > 0
           \/ \E r \in 0 .. MaxRetries : messages'[j.about][r] > 0
    PROVE  OutboxInv'
  <1> USE DEF OutboxInv
  <1>1. job[w] = {j}
    BY JobAt
  <1>2. /\ job' \in [CeleryWorker -> SUBSET Job]
        /\ \A v \in CeleryWorker : \A a, b \in job'[v] : a = b
        /\ job'[w] = {}
        /\ \A v \in CeleryWorker \ {w} : job'[v] = job[v]
    BY EndedTyped
  <1>3. crashes' \in Nat /\ faults' \in Nat /\ faults <= faults'
    BY DEF Typed
  <1>4. Typed'
    BY <1>2, <1>3 DEF Typed
  <1>5. \A m \in Notification : Total(m) <= Total(m)'
    <2>1. CASE UNCHANGED <<crashes, faults>> /\ j.phase # "marked"
      <3>1. \A a \in job[w] \cup job'[w] : a.phase # "marked"
        BY <1>1, <1>2, <2>1
      <3> QED
        BY <1>2, <1>3, <2>1, <3>1, TotalKept
    <2>2. CASE \/ crashes' = crashes + 1 /\ faults' = faults
               \/ faults' = faults + 1 /\ crashes' = crashes
      BY <1>2, <2>2, TotalLost
    <2> QED
      BY <2>1, <2>2
  <1>6. CountInv' /\ GivenUpAfterAllAttempts'
    <2>1. \A m \in Notification : \/ status'[m] # "failed" \/ status[m] = "failed"
                                  \/ Total(m)' >= MaxAttempts
      BY <1>4, <1>5, TotalNat, TotalNatNext, MaxAttemptsAssumption
    <2> QED
      BY <1>2, <1>4, <1>5, <2>1, CountKept
  <1>7. AttendInv'
    BY <1>1, <1>2, <1>3, AttendKept
  <1> QED
    BY <1>4, <1>6, <1>7

LEMMA FinishInv ==
    ASSUME OutboxInv, NEW w \in CeleryWorker, NEW j \in job[w], Finish(w, j)
    PROVE  OutboxInv'
  <1> USE DEF OutboxInv
  <1>1. /\ j.phase = "saved"
        /\ job' = [job EXCEPT ![w] = {}]
        /\ UNCHANGED <<status, attempts, recorded, messages, crashes, faults, renders>>
    BY DEF Finish, lost
  <1>2. /\ messages' \in [Notification -> [0 .. MaxRetries -> Nat]]
        /\ status' \in [Notification -> Status]
    BY <1>1 DEF Typed
  <1> QED
    BY <1>1, <1>2, EndInv

LEMMA SaveFailureInv ==
    ASSUME OutboxInv, NEW w \in CeleryWorker, NEW j \in job[w], SaveFailure(w, j)
    PROVE  OutboxInv'
  <1> USE DEF OutboxInv
  <1>1. /\ j.phase \in {"accepted", "refused", "saved"}
        /\ status' = [status EXCEPT ![j.about] = StatusAfterFailure(j)]
        /\ messages' = Retried(j.about, j.retry)
        /\ job' = [job EXCEPT ![w] = {}]
        /\ UNCHANGED <<attempts, recorded, crashes, faults, renders>>
    BY DEF SaveFailure, lost
  <1>2. /\ j.about \in Notification /\ j.retry \in 0 .. MaxRetries
        /\ Counted(j) \in Nat /\ Known(j) = Counted(j)
    BY <1>1, JobAt DEF Known
  <1>3. /\ messages' \in [Notification -> [0 .. MaxRetries -> Nat]]
        /\ \A m \in Notification, r \in 0 .. MaxRetries :
              messages[m][r] > 0 => messages'[m][r] > 0
    BY <1>1, <1>2, RetriedTyped
  <1>4. /\ StatusAfterFailure(j) \in {"pending", "failed"}
        /\ StatusAfterFailure(j) = "failed" => Total(j.about) >= MaxAttempts
    <2>1. Counted(j) <= Total(j.about) \/ Total(j.about) >= MaxAttempts
      BY <1>2 DEF CountInv
    <2>2. Total(j.about) \in Nat
      BY <1>2, TotalNat
    <2> QED
      BY <1>2, <2>1, <2>2, MaxAttemptsAssumption DEF StatusAfterFailure
  <1>5. /\ status' \in [Notification -> Status]
        /\ \A m \in Notification : \/ status'[m] = status[m]
                                   \/ status'[m] = "pending"
                                   \/ status'[m] = "failed" /\ Total(m) >= MaxAttempts
        /\ status'[j.about] # "processing"
    BY <1>1, <1>2, <1>4 DEF Typed, Status
  <1> QED
    BY <1>1, <1>3, <1>5, EndInv

LEMMA RaiseInv ==
    ASSUME OutboxInv, NEW w \in CeleryWorker, NEW j \in job[w],
           RenderFails(w, j) \/ WriteFails(w, j)
    PROVE  OutboxInv'
  <1> USE DEF OutboxInv
  <1>1. /\ messages' = Retried(j.about, j.retry)
        /\ job' = [job EXCEPT ![w] = {}]
        /\ UNCHANGED <<status, attempts, recorded, crashes, renders>>
        /\ \/ j.phase = "read" /\ ~renders[j.about] /\ faults' = faults
           \/ faults' = faults + 1
    BY DEF RenderFails, WriteFails, Raise
  <1>2. j.about \in Notification /\ j.retry \in 0 .. MaxRetries
    BY JobAt
  <1>3. /\ messages' \in [Notification -> [0 .. MaxRetries -> Nat]]
        /\ \A m \in Notification, r \in 0 .. MaxRetries :
              messages[m][r] > 0 => messages'[m][r] > 0
    BY <1>1, <1>2, RetriedTyped
  <1>4. status' \in [Notification -> Status]
    BY <1>1 DEF Typed
  <1>5. status'[j.about] # "processing" \/ faults' > 0
    <2>1. ~renders[j.about] => status[j.about] # "processing"
      BY <1>2 DEF AttendInv
    <2> QED
      BY <1>1, <2>1 DEF Typed
  <1> QED
    BY <1>1, <1>3, <1>4, <1>5, EndInv

LEMMA CrashInv ==
    ASSUME OutboxInv, NEW w \in CeleryWorker, NEW j \in job[w], Crash(w, j)
    PROVE  OutboxInv'
  <1> USE DEF OutboxInv
  <1>1. /\ crashes' = crashes + 1 /\ faults' = faults
        /\ messages' = Sent(j.about, j.retry)
        /\ job' = [job EXCEPT ![w] = {}]
        /\ UNCHANGED <<status, attempts, recorded, renders>>
    BY DEF Crash, Redeliver
  <1>2. j.about \in Notification /\ j.retry \in 0 .. MaxRetries
    BY JobAt
  <1>3. /\ messages' \in [Notification -> [0 .. MaxRetries -> Nat]]
        /\ \A m \in Notification, r \in 0 .. MaxRetries :
              messages[m][r] > 0 => messages'[m][r] > 0
        /\ messages'[j.about][j.retry] > 0
    BY <1>1, <1>2, SentTyped
  <1>4. status' \in [Notification -> Status]
    BY <1>1 DEF Typed
  <1> QED
    BY <1>1, <1>2, <1>3, <1>4, EndInv

-----------------------------------------------------------------------------
LEMMA OutboxInitInv == Init => OutboxInv
  <1> SUFFICES ASSUME Init PROVE OutboxInv
    OBVIOUS
  <1>1. Typed
    BY MaxAttemptsAssumption DEF Init, Typed, Status
  <1>2. AttendInv /\ GivenUpAfterAllAttempts
    BY DEF Init, AttendInv, GivenUpAfterAllAttempts
  <1>3. CountInv
    <2>1. \A n \in Notification : Total(n) \in Nat
      BY <1>1, TotalNat
    <2> QED
      BY <2>1 DEF Init, CountInv
  <1> QED
    BY <1>1, <1>2, <1>3 DEF OutboxInv

LEMMA DeliverInv ==
    ASSUME OutboxInv, NEW n \in Notification, Deliver(n)
    PROVE  OutboxInv'
  BY TakeInv, MissInv DEF Deliver

LEMMA WorkInv ==
    ASSUME OutboxInv, NEW w \in CeleryWorker, Work(w)
    PROVE  OutboxInv'
  BY MarkInv, RecordInv, SendInv, FinishInv, SaveFailureInv, RaiseInv DEF Work

LEMMA OutboxStutterInv == OutboxInv /\ UNCHANGED vars => OutboxInv'
  <1> SUFFICES ASSUME OutboxInv, UNCHANGED vars PROVE OutboxInv'
    OBVIOUS
  <1> USE DEF OutboxInv, vars
  <1>1. Typed'
    BY DEF Typed
  <1>2. CountInv' /\ GivenUpAfterAllAttempts'
    BY CountStill DEF lost
  <1>3. AttendInv'
    BY DEF AttendInv
  <1> QED
    BY <1>1, <1>2, <1>3

LEMMA OutboxInductive == Spec => []OutboxInv
  <1>1. Init => OutboxInv
    BY OutboxInitInv
  <1>2. OutboxInv /\ [Next]_vars => OutboxInv'
    BY RequestInv, RequestEndInv, DispatchInv, DeliverInv, WorkInv, CrashInv, OutboxStutterInv
       DEF Next
  <1> QED
    BY <1>1, <1>2, PTL DEF Spec

(* The types of the outbox, for messages in any number. *)
THEOREM OutboxTyping == Spec => []Typed
  BY OutboxInductive, PTL DEF OutboxInv

(* FAILED is written after MaxAttempts attempts, however many deliveries   *)
(* overwrite the counter with stale copies of it at once.                  *)
THEOREM GivenUp == Spec => []GivenUpAfterAllAttempts
  BY OutboxInductive, PTL DEF OutboxInv

(* No lost worker leaves a notification in PROCESSING on its own. *)
THEOREM NeverOrphaned == Spec => []ProcessingIsAttended
  <1>1. OutboxInv => ProcessingIsAttended
    BY DEF OutboxInv, AttendInv, ProcessingIsAttended, Attended, Running
  <1> QED
    BY <1>1, OutboxInductive, PTL
-----------------------------------------------------------------------------
(* The bounds *)

Retry == 0 .. MaxRetries
Queue(n) == SumFunctionOnSet(messages[n], Retry)

(* A notification has no more messages and tasks than the dispatcher adds  *)
(* one to; what has no row has none, so that its request adds the first.   *)
BoundInv ==
    /\ \A n \in Notification :
          InFlight(n) <= MaxMessages /\ (status[n] = "absent" => InFlight(n) = 0)
    /\ crashes <= MaxCrashes /\ faults <= MaxFaults

LEMMA RunningCard ==
    ASSUME NEW n
    PROVE  IsFiniteSet(Running(n)) /\ Cardinality(Running(n)) \in Nat
  <1>1. IsFiniteSet(Running(n))
    BY CeleryWorkerAssumption, FS_Subset DEF Running
  <1> QED
    BY <1>1, FS_CardinalityType

(* A step of one worker counts it in, out or neither. *)
LEMMA RunningStep ==
    ASSUME NEW w \in CeleryWorker, \A v \in CeleryWorker \ {w} : job'[v] = job[v], NEW n
    PROVE  /\ w \in Running(n)' /\ w \notin Running(n) =>
                 Cardinality(Running(n)') = Cardinality(Running(n)) + 1
           /\ w \notin Running(n)' /\ w \in Running(n) =>
                 Cardinality(Running(n)') = Cardinality(Running(n)) - 1
           /\ (w \in Running(n)' <=> w \in Running(n)) =>
                 Cardinality(Running(n)') = Cardinality(Running(n))
  <1>1. \A v \in CeleryWorker \ {w} : v \in Running(n)' <=> v \in Running(n)
    BY DEF Running
  <1>2. Running(n) \subseteq CeleryWorker /\ Running(n)' \subseteq CeleryWorker
    BY DEF Running
  <1>3. CASE w \in Running(n)' /\ w \notin Running(n)
    <2>1. Running(n)' = Running(n) \cup {w}
      BY <1>1, <1>2, <1>3
    <2> QED
      BY <1>3, <2>1, RunningCard, FS_AddElement
  <1>4. CASE w \notin Running(n)' /\ w \in Running(n)
    <2>1. Running(n)' = Running(n) \ {w}
      BY <1>1, <1>2, <1>4
    <2> QED
      BY <1>4, <2>1, RunningCard, FS_RemoveElement
  <1>5. CASE w \in Running(n)' <=> w \in Running(n)
    <2>1. Running(n)' = Running(n)
      BY <1>1, <1>2, <1>5
    <2> QED
      BY <1>5, <2>1
  <1> QED
    BY <1>3, <1>4, <1>5

LEMMA RowSum ==
    ASSUME NEW row \in [Retry -> Nat]
    PROVE  SumFunctionOnSet(row, Retry) \in Nat
  <1>1. IsFiniteSet(Retry)
    BY FS_Interval, MaxRetriesAssumption DEF Retry
  <1>2. \A r \in Retry : row[r] \in Nat
    OBVIOUS
  <1> QED
    BY <1>1, <1>2, SumNat

(* One entry of a row of counters is set. *)
LEMMA RowChange ==
    ASSUME NEW row \in [Retry -> Nat], NEW r \in Retry, NEW k \in Nat
    PROVE  SumFunctionOnSet([row EXCEPT ![r] = k], Retry)
             = SumFunctionOnSet(row, Retry) - row[r] + k
  <1> DEFINE new == [row EXCEPT ![r] = k]
  <1>1. IsFiniteSet(Retry)
    BY FS_Interval, MaxRetriesAssumption DEF Retry
  <1>2. /\ \A q \in Retry : row[q] \in Int /\ new[q] \in Int
        /\ \A q \in Retry \ {r} : row[q] = new[q]
        /\ new[r] = k
    OBVIOUS
  <1> HIDE DEF new
  <1>3. SumFunctionOnSet(new, Retry) = SumFunctionOnSet(row, Retry) - row[r] + new[r]
    BY <1>1, <1>2, SumChange
  <1> QED
    BY <1>2, <1>3 DEF new

LEMMA SentSum ==
    ASSUME Typed, NEW n \in Notification, NEW r \in Retry
    PROVE  /\ SumFunctionOnSet(Sent(n, r)[n], Retry) = Queue(n) + 1
           /\ \A m \in Notification \ {n} : Sent(n, r)[m] = messages[m]
  <1>1. messages[n] \in [Retry -> Nat] /\ messages[n][r] \in Nat /\ messages[n][r] + 1 \in Nat
    <2>1. messages \in [Notification -> [Retry -> Nat]]
      BY DEF Typed, Retry
    <2> QED
      BY <2>1
  <1>2. /\ Sent(n, r)[n] = [messages[n] EXCEPT ![r] = messages[n][r] + 1]
        /\ \A m \in Notification \ {n} : Sent(n, r)[m] = messages[m]
    BY <1>1 DEF Typed, Sent, Retry
  <1>3. SumFunctionOnSet([messages[n] EXCEPT ![r] = messages[n][r] + 1], Retry)
          = Queue(n) - messages[n][r] + (messages[n][r] + 1)
    BY <1>1, RowChange DEF Queue
  <1>4. Queue(n) \in Nat
    BY <1>1, RowSum DEF Queue
  <1> QED
    BY <1>1, <1>2, <1>3, <1>4

LEMMA RetriedSum ==
    ASSUME Typed, NEW n \in Notification, NEW r \in Retry
    PROVE  /\ SumFunctionOnSet(Retried(n, r)[n], Retry) <= Queue(n) + 1
           /\ \A m \in Notification \ {n} : Retried(n, r)[m] = messages[m]
  <1>1. Queue(n) \in Nat
    BY RowSum DEF Queue, Typed, Retry
  <1>2. CASE r < MaxRetries
    <2>1. r + 1 \in Retry
      BY <1>2, MaxRetriesAssumption DEF Retry
    <2> QED
      BY <1>1, <1>2, <2>1, SentSum DEF Retried
  <1>3. CASE ~(r < MaxRetries)
    BY <1>1, <1>3 DEF Retried, Queue
  <1> QED
    BY <1>2, <1>3

LEMMA TakenSum ==
    ASSUME NEW f \in [Notification -> [Retry -> Nat]], NEW n \in Notification,
           NEW r \in Retry, f[n][r] > 0
    PROVE  SumFunctionOnSet([f EXCEPT ![n][r] = @ - 1][n], Retry)
             = SumFunctionOnSet(f[n], Retry) - 1
  <1>1. f[n] \in [Retry -> Nat] /\ f[n][r] \in Nat /\ f[n][r] - 1 \in Nat
    OBVIOUS
  <1>2. [f EXCEPT ![n][r] = @ - 1][n] = [f[n] EXCEPT ![r] = f[n][r] - 1]
    BY <1>1
  <1>3. SumFunctionOnSet([f[n] EXCEPT ![r] = f[n][r] - 1], Retry)
          = SumFunctionOnSet(f[n], Retry) - f[n][r] + (f[n][r] - 1)
    BY <1>1, RowChange
  <1>4. SumFunctionOnSet(f[n], Retry) \in Nat
    BY <1>1, RowSum
  <1> QED
    BY <1>1, <1>2, <1>3, <1>4

LEMMA FlightNat ==
    ASSUME Typed, NEW n \in Notification
    PROVE  /\ Queue(n) \in Nat /\ Cardinality(Running(n)) \in Nat
           /\ InFlight(n) = Cardinality(Running(n)) + Queue(n)
           /\ InFlight(n) \in Nat
  <1>1. Queue(n) \in Nat
    BY RowSum DEF Queue, Typed, Retry
  <1> QED
    BY <1>1, RunningCard DEF InFlight, Queue, Retry

LEMMA FlightNatNext ==
    ASSUME Typed', NEW n \in Notification
    PROVE  /\ Queue(n)' \in Nat /\ Cardinality(Running(n)') \in Nat
           /\ InFlight(n)' = Cardinality(Running(n)') + Queue(n)'
           /\ InFlight(n)' \in Nat
  <1>1. Queue(n)' \in Nat
    <2>1. messages'[n] \in [Retry -> Nat]
      BY DEF Typed, Retry
    <2> QED
      BY <2>1, RowSum DEF Queue
  <1>2. Cardinality(Running(n)') \in Nat
    <2>1. IsFiniteSet(Running(n)')
      BY CeleryWorkerAssumption, FS_Subset DEF Running
    <2> QED
      BY <2>1, FS_CardinalityType
  <1> QED
    BY <1>1, <1>2 DEF InFlight, Queue, Retry

(* A step that adds nothing to what is in flight. *)
LEMMA BoundKept ==
    ASSUME Typed, Typed', BoundInv, \A n \in Notification : InFlight(n)' <= InFlight(n),
           \A n \in Notification : status'[n] = "absent" => status[n] = "absent",
           crashes' <= MaxCrashes, faults' <= MaxFaults
    PROVE  BoundInv'
  <1> SUFFICES ASSUME NEW n \in Notification
               PROVE  /\ InFlight(n)' <= MaxMessages
                      /\ status'[n] = "absent" => InFlight(n)' = 0
    BY DEF BoundInv
  <1>1. InFlight(n) \in Nat /\ InFlight(n)' \in Nat
    BY FlightNat, FlightNatNext
  <1>2. InFlight(n) <= MaxMessages /\ (status[n] = "absent" => InFlight(n) = 0)
    BY DEF BoundInv
  <1> QED
    BY <1>1, <1>2, MaxMessagesAssumption

(* The task of one worker ends, and asks for at most one message. *)
LEMMA EndBound ==
    ASSUME Typed, Typed', BoundInv, NEW w \in CeleryWorker, NEW j \in job[w],
           job' = [job EXCEPT ![w] = {}],
           messages' \in {messages, Retried(j.about, j.retry), Sent(j.about, j.retry)},
           \A n \in Notification : status'[n] = "absent" => status[n] = "absent",
           crashes' <= MaxCrashes, faults' <= MaxFaults
    PROVE  BoundInv'
  <1>1. /\ job[w] = {j} /\ j.about \in Notification /\ j.retry \in Retry
        /\ job'[w] = {} /\ \A v \in CeleryWorker \ {w} : job'[v] = job[v]
    BY JobAt, EndedTyped DEF Retry
  <1>2. \A n \in Notification : Queue(n) \in Nat /\ Queue(n)' \in Nat
    BY FlightNat, FlightNatNext
  <1>3. /\ Queue(j.about)' <= Queue(j.about) + 1
        /\ \A n \in Notification \ {j.about} : Queue(n)' = Queue(n)
    <2>1. CASE messages' = messages
      BY <1>1, <1>2, <2>1 DEF Queue
    <2>2. CASE messages' = Retried(j.about, j.retry)
      BY <1>1, <2>2, RetriedSum DEF Queue
    <2>3. CASE messages' = Sent(j.about, j.retry)
      BY <1>1, <1>2, <2>3, SentSum DEF Queue
    <2> QED
      BY <2>1, <2>2, <2>3
  <1>4. /\ Cardinality(Running(j.about)') = Cardinality(Running(j.about)) - 1
        /\ \A n \in Notification \ {j.about} :
              Cardinality(Running(n)') = Cardinality(Running(n))
    <2>1. \A n \in Notification : w \notin Running(n)' /\ (w \in Running(n) <=> n = j.about)
      BY <1>1 DEF Running
    <2> QED
      BY <1>1, <2>1, RunningStep
  <1>5. \A n \in Notification : InFlight(n)' <= InFlight(n)
    BY <1>1, <1>2, <1>3, <1>4, FlightNat, FlightNatNext
  <1> QED
    BY <1>5, BoundKept

(* A worker goes on with its task. *)
LEMMA StepBound ==
    ASSUME Typed, Typed', BoundInv, NEW w \in CeleryWorker, NEW j \in job[w],
           NEW to \in Phase, Step(w, j, to), UNCHANGED <<messages, lost>>,
           \A n \in Notification : status'[n] = "absent" => status[n] = "absent"
    PROVE  BoundInv'
  <1>1. job[w] = {j}
    BY JobAt
  <1>2. /\ \A v \in CeleryWorker \ {w} : job'[v] = job[v]
        /\ \E i \in Job : job'[w] = {i} /\ i.about = j.about
    BY StepTyped
  <1>3. \A n \in Notification : Running(n)' = Running(n)
    BY <1>1, <1>2 DEF Running
  <1>4. \A n \in Notification : InFlight(n)' = InFlight(n)
    BY <1>3 DEF InFlight
  <1>5. \A n \in Notification : InFlight(n)' <= InFlight(n)
    BY <1>4, FlightNat
  <1> QED
    BY <1>5, BoundKept DEF BoundInv, lost

LEMMA RequestBound ==
    ASSUME Typed, Typed', BoundInv, NEW n \in Notification, Request(n) \/ RequestEnd(n)
    PROVE  BoundInv'
  <1>1. UNCHANGED <<job, lost>>
    BY DEF Request, RequestEnd
  <1>2. \A m \in Notification : Running(m)' = Running(m)
    BY <1>1 DEF Running
  <1>3. \A m \in Notification : InFlight(m) \in Nat /\ InFlight(m)' \in Nat
    BY FlightNat, FlightNatNext
  <1>4. CASE RequestEnd(n)
    <2>1. \A m \in Notification : status'[m] = "absent" => status[m] = "absent"
      BY <1>4 DEF RequestEnd, Typed
    <2>2. \A m \in Notification : InFlight(m)' <= InFlight(m)
      BY <1>2, <1>3, <1>4 DEF RequestEnd, InFlight
    <2> QED
      BY <1>1, <2>1, <2>2, BoundKept DEF BoundInv, lost
  <1>5. CASE Request(n)
    <2>1. messages' = Sent(n, 0) /\ 0 \in Retry
      BY <1>5, MaxRetriesAssumption DEF Request, Retry
    <2>2. /\ InFlight(n)' = InFlight(n) + 1
          /\ \A m \in Notification \ {n} : InFlight(m)' = InFlight(m)
      BY <1>2, <2>1, SentSum, FlightNat, FlightNatNext DEF Queue
    <2>3. InFlight(n) < MaxMessages /\ status'[n] # "absent"
      BY <1>5, MaxMessagesAssumption DEF Request, BoundInv, Typed
    <2>4. \A m \in Notification \ {n} : status'[m] = status[m]
      BY <1>5 DEF Request, Typed
    <2>5. \A m \in Notification : InFlight(m)' <= MaxMessages
      BY <1>3, <2>2, <2>3, MaxMessagesAssumption DEF BoundInv
    <2> QED
      BY <1>1, <2>2, <2>3, <2>4, <2>5 DEF BoundInv, lost
  <1> QED
    BY <1>4, <1>5

LEMMA DispatchBound ==
    ASSUME Typed, Typed', BoundInv, Dispatch
    PROVE  BoundInv'
  <1>1. /\ UNCHANGED <<status, job, lost>>
        /\ \A m \in Notification :
              \/ messages'[m] = messages[m]
              \/ InFlight(m) < MaxMessages /\ messages'[m] = Sent(m, 0)[m]
    BY DispatchSends
  <1>2. ASSUME NEW m \in Notification
        PROVE  /\ InFlight(m)' <= MaxMessages
               /\ messages'[m] = messages[m] => InFlight(m)' = InFlight(m)
    <2>1. Running(m)' = Running(m) /\ InFlight(m) \in Nat /\ InFlight(m)' \in Nat
      BY <1>1, FlightNat, FlightNatNext DEF Running
    <2>2. messages'[m] = messages[m] => InFlight(m)' = InFlight(m)
      BY <2>1 DEF InFlight
    <2>3. messages'[m] = Sent(m, 0)[m] => InFlight(m)' = InFlight(m) + 1
      <3>1. 0 \in Retry
        BY MaxRetriesAssumption DEF Retry
      <3>2. SumFunctionOnSet(Sent(m, 0)[m], Retry) = Queue(m) + 1
        BY <3>1, SentSum
      <3>3. Cardinality(Running(m)) \in Nat /\ Queue(m) \in Nat
        BY RunningCard, FlightNat
      <3> QED
        BY <2>1, <3>2, <3>3 DEF InFlight, Queue, Retry
    <2>4. InFlight(m) <= MaxMessages
      BY DEF BoundInv
    <2> QED
      BY <1>1, <2>1, <2>2, <2>3, <2>4, MaxMessagesAssumption
  <1>3. ASSUME NEW m \in Notification, status[m] = "absent"
        PROVE  messages'[m] = messages[m]
    BY <1>3 DEF Dispatch, Batch, Pending
  <1> QED
    BY <1>1, <1>2, <1>3 DEF BoundInv, lost

LEMMA TakeBound ==
    ASSUME Typed, Typed', BoundInv, NEW w \in CeleryWorker, NEW n \in Notification,
           NEW r \in 0 .. MaxRetries, Take(w, n, r)
    PROVE  BoundInv'
  <1> DEFINE i == [phase |-> "read", about |-> n, retry |-> r, attempts |-> attempts[n]]
  <1>1. /\ job[w] = {} /\ messages[n][r] > 0 /\ r \in Retry
        /\ messages' = [messages EXCEPT ![n][r] = @ - 1]
        /\ job' = [job EXCEPT ![w] = {i}]
        /\ UNCHANGED <<status, lost>>
    BY DEF Take, Retry
  <1>2. i.about = n
    OBVIOUS
  <1> HIDE DEF i
  <1>3. job'[w] = {i} /\ \A v \in CeleryWorker \ {w} : job'[v] = job[v]
    BY <1>1 DEF Typed
  <1>4. \A m \in Notification : w \notin Running(m) /\ (w \in Running(m)' <=> m = n)
    BY <1>1, <1>2, <1>3 DEF Running
  <1>5. /\ Cardinality(Running(n)') = Cardinality(Running(n)) + 1
        /\ \A m \in Notification \ {n} : Cardinality(Running(m)') = Cardinality(Running(m))
    BY <1>3, <1>4, RunningStep
  <1>6. messages \in [Notification -> [Retry -> Nat]]
    BY DEF Typed, Retry
  <1>7. /\ Queue(n)' = Queue(n) - 1
        /\ \A m \in Notification \ {n} : Queue(m)' = Queue(m)
    BY <1>1, <1>6, TakenSum DEF Queue
  <1>8. \A m \in Notification : InFlight(m)' <= InFlight(m)
    BY <1>5, <1>7, FlightNat, FlightNatNext
  <1> QED
    BY <1>1, <1>8, BoundKept DEF BoundInv, lost

LEMMA MissBound ==
    ASSUME Typed, Typed', BoundInv, NEW w \in CeleryWorker, NEW n \in Notification,
           NEW r \in 0 .. MaxRetries, Miss(w, n, r)
    PROVE  BoundInv'
  <1>1. /\ messages[n][r] > 0 /\ r \in Retry
        /\ messages' = [Retried(n, r) EXCEPT ![n][r] = @ - 1]
        /\ UNCHANGED <<status, job, lost>>
    BY DEF Miss, Retry
  <1>2. Retried(n, r) \in [Notification -> [Retry -> Nat]] /\ Retried(n, r)[n][r] > 0
    BY <1>1, RetriedTyped DEF Retry
  <1>3. /\ messages' = [Retried(n, r) EXCEPT ![n][r] = @ - 1]
        /\ \A m \in Notification \ {n} : messages'[m] = Retried(n, r)[m]
    BY <1>1, <1>2
  <1>4. /\ SumFunctionOnSet(messages'[n], Retry) = SumFunctionOnSet(Retried(n, r)[n], Retry) - 1
        /\ SumFunctionOnSet(Retried(n, r)[n], Retry) <= Queue(n) + 1
        /\ SumFunctionOnSet(Retried(n, r)[n], Retry) \in Nat
    BY <1>1, <1>2, TakenSum, RetriedSum, RowSum
  <1>5. /\ Queue(n)' <= Queue(n)
        /\ \A m \in Notification \ {n} : Queue(m)' = Queue(m)
    BY <1>1, <1>3, <1>4, RetriedSum, FlightNat DEF Queue
  <1>6. \A m \in Notification : Running(m)' = Running(m)
    BY <1>1 DEF Running
  <1>7. \A m \in Notification : InFlight(m)' <= InFlight(m)
    BY <1>5, <1>6, FlightNat, FlightNatNext
  <1> QED
    BY <1>1, <1>7, BoundKept DEF BoundInv, lost

LEMMA TaskBound ==
    ASSUME Typed, Typed', BoundInv, NEW w \in CeleryWorker, NEW j \in job[w],
           \/ Mark(w, j) \/ Record(w, j) \/ Send(w, j)
           \/ SaveSent(w, j) \/ Finish(w, j) \/ SaveFailure(w, j)
           \/ RenderFails(w, j) \/ WriteFails(w, j) \/ Crash(w, j)
    PROVE  BoundInv'
  <1>1. j.about \in Notification
    BY JobAt
  <1>2. crashes \in Nat /\ faults \in Nat /\ crashes <= MaxCrashes /\ faults <= MaxFaults
    BY DEF Typed, BoundInv
  <1>3. \A n \in Notification : status'[n] = "absent" => status[n] = "absent"
    BY <1>1 DEF Mark, Record, Send, SaveSent, Finish, SaveFailure, RenderFails, WriteFails,
                Crash, Raise, StatusAfterFailure, Typed
  <1>4. CASE Mark(w, j) \/ Record(w, j) \/ Send(w, j) \/ SaveSent(w, j)
    <2>1. UNCHANGED <<messages, lost>> /\ \E to \in Phase : Step(w, j, to)
      BY <1>4 DEF Mark, Record, Send, SaveSent, Phase
    <2> QED
      BY <1>3, <2>1, StepBound
  <1>5. CASE \/ Finish(w, j) \/ SaveFailure(w, j)
             \/ RenderFails(w, j) \/ WriteFails(w, j) \/ Crash(w, j)
    <2>1. /\ job' = [job EXCEPT ![w] = {}]
          /\ messages' \in {messages, Retried(j.about, j.retry), Sent(j.about, j.retry)}
      BY <1>5 DEF Finish, SaveFailure, RenderFails, WriteFails, Crash, Raise, Redeliver
    <2>2. crashes' <= MaxCrashes /\ faults' <= MaxFaults
      BY <1>2, <1>5, MaxCrashesAssumption, MaxFaultsAssumption
         DEF Finish, SaveFailure, RenderFails, WriteFails, Crash, Raise, lost
    <2> QED
      BY <1>3, <2>1, <2>2, EndBound
  <1> QED
    BY <1>4, <1>5

LEMMA BoundInductive == Spec => []BoundInv
  <1>1. Init => BoundInv
    <2> SUFFICES ASSUME Init PROVE BoundInv
      OBVIOUS
    <2>1. \A n \in Notification : Running(n) = {} /\ Cardinality(Running(n)) = 0
      BY FS_EmptySet DEF Init, Running
    <2>2. \A n \in Notification : Queue(n) = 0
      <3> SUFFICES ASSUME NEW n \in Notification PROVE Queue(n) = 0
        OBVIOUS
      <3>1. IsFiniteSet(Retry)
        BY FS_Interval, MaxRetriesAssumption DEF Retry
      <3>2. \A r \in Retry : messages[n][r] = 0
        BY DEF Init, Retry
      <3> QED
        BY <3>1, <3>2, SumZero DEF Queue
    <2>3. \A n \in Notification : InFlight(n) = 0
      BY <2>1, <2>2 DEF InFlight, Queue, Retry
    <2> QED
      BY <2>3, MaxMessagesAssumption, MaxCrashesAssumption, MaxFaultsAssumption
         DEF Init, BoundInv
  <1>2. Typed /\ Typed' /\ BoundInv /\ [Next]_vars => BoundInv'
    <2> SUFFICES ASSUME Typed, Typed', BoundInv, [Next]_vars PROVE BoundInv'
      OBVIOUS
    <2>1. CASE UNCHANGED vars
      BY <2>1 DEF vars, lost, BoundInv, InFlight, Running
    <2> QED
      BY <2>1, RequestBound, DispatchBound, TakeBound, MissBound, TaskBound
         DEF Next, Deliver, Work
  <1> QED
    BY <1>1, <1>2, OutboxTyping, PTL DEF Spec

(* The types of the outbox, with the bounds of the model: every message    *)
(* counter is at most what is in flight.                                   *)
THEOREM OutboxTypes == Spec => []TypeOK
  <1>1. Typed /\ BoundInv => TypeOK
    <2> SUFFICES ASSUME Typed, BoundInv PROVE TypeOK
      OBVIOUS
    <2>1. ASSUME NEW n \in Notification, NEW r \in Retry
          PROVE  messages[n][r] <= MaxMessages
      <3>1. messages[n] \in [Retry -> Nat] /\ IsFiniteSet(Retry)
        <4>1. messages \in [Notification -> [Retry -> Nat]]
          BY DEF Typed, Retry
        <4>2. IsFiniteSet(Retry)
          BY FS_Interval, MaxRetriesAssumption DEF Retry
        <4> QED
          BY <4>1, <4>2
      <3>2. SumFunctionOnSet(messages[n], {r}) <= SumFunctionOnSet(messages[n], Retry)
        <4>1. {r} \in SUBSET Retry /\ \A q \in Retry : messages[n][q] \in Int /\ messages[n][q] >= 0
          BY <3>1
        <4> QED
          BY <3>1, <4>1, SumPart
      <3>3. SumFunctionOnSet(messages[n], {r}) = messages[n][r] /\ messages[n][r] \in Nat
        BY <3>1, SumOne
      <3>4. messages[n][r] <= Queue(n)
        BY <3>2, <3>3 DEF Queue
      <3> QED
        BY <3>3, <3>4, FlightNat, MaxMessagesAssumption DEF BoundInv
    <2>2. messages \in [Notification -> [Retry -> 0 .. MaxMessages]]
      <3>1. messages \in [Notification -> [Retry -> Nat]]
        BY DEF Typed, Retry
      <3>2. \A n \in Notification, r \in Retry : messages[n][r] \in 0 .. MaxMessages
        BY <2>1, <3>1, MaxMessagesAssumption
      <3> QED
        BY <3>1, <3>2
    <2> QED
      BY <2>2, MaxCrashesAssumption, MaxFaultsAssumption DEF Typed, BoundInv, TypeOK, Retry
  <1> QED
    BY <1>1, OutboxTyping, BoundInductive, PTL

-----------------------------------------------------------------------------
(* The alerts *)

LEMMA AlertsStep ==
    ASSUME AlertsTypeOK, AlertsNext
    PROVE  AlertsTypeOK'
  <1>1. CASE UserStep
    BY <1>1 DEF UserStep, Change, Resolve, AlertsTypeOK
  <1>2. ASSUME NEW s \in Scan, ScanStep(s)
        PROVE  AlertsTypeOK'
    <2>1. CASE Start(s)
      <3>1. [kinds |-> Kind, found |-> {}, missing |-> {}] \in Progress
        BY DEF Progress
      <3> QED
        BY <2>1, <3>1 DEF Start, Goes, AlertsTypeOK
    <2>2. ASSUME NEW c \in scan[s], NEW k \in Kind, Query(s, c, k)
          PROVE  AlertsTypeOK'
      <3>1. c \in Progress /\ {e \in gap : KindOf[e] = k} \in SUBSET Subject
        BY DEF AlertsTypeOK
      <3>2. [c EXCEPT !.kinds = @ \ {k}, !.found = {e \in gap : KindOf[e] = k}] \in Progress
        BY <3>1 DEF Progress
      <3> QED
        BY <2>2, <3>2 DEF Query, Goes, AlertsTypeOK
    <2>3. ASSUME NEW c \in scan[s], NEW e \in Subject, Get(s, c, e)
          PROVE  AlertsTypeOK'
      <3>1. c \in Progress
        BY DEF AlertsTypeOK
      <3>2. /\ [c EXCEPT !.found = @ \ {e}] \in Progress
            /\ [c EXCEPT !.missing = {e}] \in Progress
        BY <3>1 DEF Progress
      <3>3. /\ UNCHANGED <<gap, alert, scanFaults>>
            /\ \E p \in Progress : scan' = [scan EXCEPT ![s] = {p}]
        BY <2>3, <3>2 DEF Get, Goes
      <3> QED
        BY <3>3 DEF AlertsTypeOK
    <2>4. ASSUME NEW c \in scan[s], NEW e \in Subject, Create(s, c, e)
          PROVE  AlertsTypeOK'
      <3>1. c \in Progress
        BY DEF AlertsTypeOK
      <3>2. [c EXCEPT !.found = @ \ {e}, !.missing = {}] \in Progress
        BY <3>1 DEF Progress
      <3>3. alert' \in [Subject -> Decision \cup {"none", "open"}]
        BY <2>4 DEF Create, Created, AlertsTypeOK
      <3> QED
        BY <2>4, <3>2, <3>3 DEF Create, Goes, AlertsTypeOK
    <2>5. ASSUME NEW c \in scan[s], FinishScan(s, c) \/ Fail(s, c)
          PROVE  AlertsTypeOK'
      BY <2>5, MaxScanFaultsAssumption DEF FinishScan, Fail, AlertsTypeOK
    <2> QED
      BY <1>2, <2>1, <2>2, <2>3, <2>4, <2>5 DEF ScanStep, Goings
  <1> QED
    BY <1>1, <1>2 DEF AlertsNext

(* Gaps, alerts and the scans in progress have their types and bounds. *)
THEOREM AlertsTyping == AlertsSpec => []AlertsTypeOK
  <1>1. AlertsInit => AlertsTypeOK
    BY MaxScanFaultsAssumption DEF AlertsInit, AlertsTypeOK
  <1>2. AlertsTypeOK /\ [AlertsNext]_alertVars => AlertsTypeOK'
    <2>1. AlertsTypeOK /\ UNCHANGED alertVars => AlertsTypeOK'
      BY DEF alertVars, AlertsTypeOK
    <2> QED
      BY <2>1, AlertsStep
  <1> QED
    BY <1>1, <1>2, PTL DEF AlertsSpec

(* What a user has decided about an alert is not undone by the create of a *)
(* scan that did not see it yet: only another decision replaces it.        *)
THEOREM DecidedForGood == AlertsSpec => DecisionsAreKept
  <1>1. ASSUME AlertsTypeOK, AlertsNext, NEW e \in Subject, alert[e] \in Decision
        PROVE  alert'[e] \in Decision
    <2>1. CASE UserStep
      BY <1>1, <2>1 DEF UserStep, Change, Resolve, AlertsTypeOK
    <2>2. ASSUME NEW s \in Scan, ScanStep(s)
          PROVE  alert'[e] \in Decision
      BY <1>1, <2>2 DEF ScanStep, Goings, Start, Query, Get, Create, Created, FinishScan, Fail,
                        AlertsTypeOK, Decision
    <2> QED
      BY <1>1, <2>1, <2>2 DEF AlertsNext
  <1>2. AlertsTypeOK /\ [AlertsNext]_alertVars
          => [\A e \in Subject : alert[e] \in Decision => alert'[e] \in Decision]_alert
    BY <1>1 DEF alertVars
  <1> QED
    BY <1>2, AlertsTyping, PTL DEF AlertsSpec, DecisionsAreKept

(* The composition moves each of its components by their own steps. *)
LEMMA ComponentsMove == AllFairSpec => Spec /\ AlertsSpec
  <1>1. AllInit => Init /\ AlertsInit
    BY DEF AllInit
  <1>2. [AllNext]_allVars => [Next]_vars /\ [AlertsNext]_alertVars
    BY DEF AllNext, allVars, vars, alertVars
  <1> QED
    BY <1>1, <1>2, PTL DEF AllFairSpec, Spec, AlertsSpec

(* No behaviour leaves the types and the bounds. *)
THEOREM BackgroundTyping == AllFairSpec => []TypesOK
  BY ComponentsMove, OutboxTypes, AlertsTyping, PTL DEF TypesOK

================================================================================
