-------------------------- MODULE PayrollExportsProofs --------------------------
(***************************************************************************)
(* Proofs about PayrollExports, for every number of cycles, exports,       *)
(* concurrent requests and workers, and every table of lines: its type     *)
(* invariant, the numbering of the exports, what a WPS file and a final    *)
(* report show, that every total adds up, and that no unsettled export is  *)
(* left alone.                                                             *)
(***************************************************************************)
EXTENDS PayrollExports, FiniteSetTheorems, SequenceTheorems, SetSums, TLAPS

-----------------------------------------------------------------------------
(* Type correctness *)

RequestOf == PendingRequest \cup Response

LEMMA ExportRowAt ==
    ASSUME TypeOK, NEW i \in DOMAIN exports
    PROVE  exports[i] \in ExportRow /\ i \in Row
  <1>1. exports \in Seq(ExportRow) /\ Len(exports) \in Nat
    BY LenProperties DEF TypeOK
  <1> QED
    BY <1>1, ElementOfSeq, MaxExportsAssumption DEF TypeOK, Row

LEMMA ReadsAsType ==
    ASSUME TypeOK, NEW c \in Cycle
    PROVE  ReadsAs(c) \in SUBSET ReadStatus
  BY DEF TypeOK, ReadsAs, ReadStatus

LEMMA ReplaceRow ==
    ASSUME TypeOK, NEW i \in DOMAIN exports, NEW e \in ExportRow
    PROVE  /\ [exports EXCEPT ![i] = e] \in Seq(ExportRow)
           /\ Len([exports EXCEPT ![i] = e]) = Len(exports)
           /\ DOMAIN [exports EXCEPT ![i] = e] = DOMAIN exports
  BY ExceptSeq DEF TypeOK

LEMMA InitType == Init => TypeOK
  <1> SUFFICES ASSUME Init PROVE TypeOK
    OBVIOUS
  <1>1. <<>> \in Seq(ExportRow) /\ Len(<<>>) = 0
    BY EmptySeq
  <1> QED
    BY <1>1, MaxExportsAssumption, MaxCrashesAssumption, MaxFaultsAssumption
       DEF Init, Control!Init, TypeOK

LEMMA CloseType ==
    ASSUME TypeOK, Close
    PROVE  TypeOK'
  <1>1. /\ phase' \in [Cycle -> {"open", "approved", "locked", "void"}]
        /\ pay' \in [Cycle -> Pay]
    BY DEF TypeOK, Close, Control!Next, Control!Prepare, Control!Approve, Control!Lock,
           Control!Void, Control!ReworkVoid, Control!PayOfOthersKept
  <1>2. approved' \in [Cycle -> SUBSET Pay]
    BY <1>1 DEF TypeOK, Close
  <1>3. reworked' \in SUBSET Cycle
    BY DEF TypeOK, Close
  <1> QED
    BY <1>1, <1>2, <1>3 DEF TypeOK, Close, taskVars

LEMMA AskType ==
    ASSUME TypeOK, NEW k \in Clerk, NEW r \in RequestOf, Ask(k, r)
    PROVE  request' \in [Clerk -> SUBSET RequestOf]
  BY DEF TypeOK, Ask, RequestOf

LEMMA AnsweredType ==
    ASSUME TypeOK, NEW k \in Clerk, Answered(k)
    PROVE  request' \in [Clerk -> SUBSET RequestOf]
  BY DEF TypeOK, Answered, RequestOf

LEMMA PendingType ==
    ASSUME TypeOK, NEW k \in Clerk, NEW r \in request[k], r.stage # "download"
    PROVE  r \in PendingRequest
  BY DEF TypeOK, Response

LEMMA OpenType ==
    ASSUME TypeOK, NEW k \in Clerk, NEW c \in Cycle, NEW t \in ExportType, Open(k, c, t)
    PROVE  TypeOK'
  <1>1. PICK s \in ReadsAs(c) :
            Ask(k, [stage |-> IF t = "wps" THEN "queue" ELSE "size",
                    cycle |-> c, type |-> t, status |-> s, version |-> 0])
    BY DEF Open
  <1>2. s \in ReadStatus
    BY ReadsAsType
  <1>3. [stage |-> IF t = "wps" THEN "queue" ELSE "size",
         cycle |-> c, type |-> t, status |-> s, version |-> 0] \in RequestOf
    BY <1>2 DEF RequestOf, PendingRequest
  <1>4. request' \in [Clerk -> SUBSET RequestOf]
    BY <1>1, <1>3, AskType
  <1> QED
    BY <1>4 DEF Open, TypeOK, RequestOf, cycleVars, taskVars

LEMMA SizeType ==
    ASSUME TypeOK, NEW k \in Clerk, NEW r \in request[k], Size(k, r)
    PROVE  TypeOK'
  <1>1. r \in PendingRequest
    BY PendingType DEF Size
  <1>2. [r EXCEPT !.stage = "build"] \in RequestOf /\ [r EXCEPT !.stage = "queue"] \in RequestOf
    BY <1>1 DEF RequestOf, PendingRequest
  <1>3. \/ Answered(k)
        \/ Ask(k, [r EXCEPT !.stage = "build"])
        \/ Ask(k, [r EXCEPT !.stage = "queue"])
    BY DEF Size
  <1>4. request' \in [Clerk -> SUBSET RequestOf]
    BY <1>2, <1>3, AskType, AnsweredType
  <1> QED
    BY <1>4 DEF Size, TypeOK, RequestOf, cycleVars, taskVars

LEMMA OfFinite ==
    ASSUME TypeOK, NEW c, NEW t
    PROVE  IsFiniteSet(Of(c, t)) /\ NextVersion(c, t) \in Nat \ {0}
  <1>1. IsFiniteSet(1 .. Len(exports)) /\ DOMAIN exports = 1 .. Len(exports)
    BY LenProperties, FS_Interval DEF TypeOK
  <1>2. IsFiniteSet(Of(c, t))
    BY <1>1, FS_Subset DEF Of
  <1>3. Cardinality(Of(c, t)) \in Nat
    BY <1>2, FS_CardinalityType
  <1> QED
    BY <1>2, <1>3 DEF NextVersion, Of

(* Messages and tasks are about rows that exist. *)
RowsExist ==
    /\ \A i \in Row, n \in 0 .. MaxRetries : messages[i][n] > 0 => i \in DOMAIN exports
    /\ \A w \in CeleryWorker : \A j \in job[w] : j.row \in DOMAIN exports

Typed == TypeOK /\ RowsExist

LEMMA QueuedMessage ==
    ASSUME TypeOK, NEW i \in Row, NEW n \in 0 .. MaxRetries
    PROVE  /\ Queued(i, n) \in [Row -> [0 .. MaxRetries -> Nat]]
           /\ \A h \in Row, m \in 0 .. MaxRetries :
                 Queued(i, n)[h][m] > 0 => h = i \/ messages[h][m] > 0
  <1> DEFINE q == [messages[i] EXCEPT ![n] = @ + 1]
  <1>1. messages \in [Row -> [0 .. MaxRetries -> Nat]]
    BY DEF TypeOK
  <1>2. q \in [0 .. MaxRetries -> Nat] /\ \A m \in 0 .. MaxRetries : m # n => q[m] = messages[i][m]
    BY <1>1, MaxRetriesAssumption
  <1>3. Queued(i, n) = [messages EXCEPT ![i] = q]
    BY DEF Queued
  <1> HIDE DEF q
  <1> QED
    BY <1>1, <1>2, <1>3

LEMMA QueuedType ==
    ASSUME Typed, NEW k \in Clerk, NEW r \in request[k],
           Download(k, r) \/ Show(k, r) \/ CountVersion(k, r) \/ Conflict(k, r) \/ Abort(k, r)
    PROVE  request' \in [Clerk -> SUBSET RequestOf]
  <1>1. CASE Download(k, r)
    <2>1. r \in PendingRequest
      BY <1>1, PendingType DEF Download, Typed
    <2>2. r.cycle \in Cycle /\ r.type \in ExportType /\ r.status \in ReadStatus
          /\ pay[r.cycle] \in Pay
      BY <2>1 DEF PendingRequest, Typed, TypeOK
    <2>3. [of |-> pay[r.cycle], content |-> Artifact(r.type, r.status, pay[r.cycle])] \in File
      BY <2>2 DEF File
    <2>4. Artifact(r.type, r.status, pay[r.cycle]) \in {f.content : f \in File}
      <3> DEFINE f == [of |-> pay[r.cycle], content |-> Artifact(r.type, r.status, pay[r.cycle])]
      <3>1. f.content = Artifact(r.type, r.status, pay[r.cycle])
        OBVIOUS
      <3>2. f \in File
        BY <2>3
      <3> HIDE DEF f
      <3> QED
        BY <3>1, <3>2
    <2>5. [stage |-> "download", cycle |-> r.cycle, lines |-> pay[r.cycle],
           file |-> Artifact(r.type, r.status, pay[r.cycle])] \in RequestOf
      BY <2>2, <2>4 DEF RequestOf, Response
    <2> QED
      BY <1>1, <2>5, AskType DEF Download, Typed
  <1>2. CASE CountVersion(k, r)
    <2>1. r \in PendingRequest
      BY <1>2, PendingType DEF CountVersion, Typed
    <2>2. NextVersion(r.cycle, r.type) \in Nat
      BY OfFinite DEF Typed
    <2>3. [r EXCEPT !.stage = "insert", !.version = NextVersion(r.cycle, r.type)] \in RequestOf
      BY <2>1, <2>2 DEF RequestOf, PendingRequest
    <2> QED
      BY <1>2, <2>3, AskType DEF CountVersion, Typed
  <1> QED
    BY <1>1, <1>2, AnsweredType DEF Show, Conflict, Abort, Typed

LEMMA InsertType ==
    ASSUME Typed, NEW k \in Clerk, NEW r \in request[k], Insert(k, r)
    PROVE  Typed'
  <1> USE DEF Typed
  <1>1. r \in PendingRequest
    BY PendingType DEF Insert
  <1>2. Len(exports) \in Nat /\ Len(exports) + 1 \in Row
    BY LenProperties, MaxExportsAssumption DEF TypeOK, Insert, Row
  <1>4. NewRow(r) \in ExportRow
    BY <1>1 DEF NewRow, ExportRow, PendingRequest
  <1>5. /\ exports' \in Seq(ExportRow)
        /\ Len(exports') = Len(exports) + 1
        /\ DOMAIN exports' = DOMAIN exports \cup {Len(exports) + 1}
    BY <1>2, <1>4, AppendProperties, LenProperties DEF Insert, TypeOK
  <1>6. Len(exports') \leq MaxExports
    BY <1>2, <1>5, MaxExportsAssumption DEF Insert
  <1>7. request' \in [Clerk -> SUBSET RequestOf]
    BY AnsweredType DEF Insert
  <1>8. /\ messages' \in [Row -> [0 .. MaxRetries -> Nat]]
        /\ \A i \in Row, n \in 0 .. MaxRetries :
              messages'[i][n] > 0 => i \in DOMAIN exports'
    <2>1. CASE UNCHANGED messages
      BY <1>5, <2>1 DEF TypeOK, RowsExist
    <2>2. CASE messages' = Queued(Len(exports) + 1, 0)
      <3>1. 0 \in 0 .. MaxRetries
        BY MaxRetriesAssumption
      <3> QED
        BY <1>2, <1>5, <2>2, <3>1, QueuedMessage DEF RowsExist
    <2> QED
      BY <2>1, <2>2 DEF Insert
  <1>9. abandoned' \in SUBSET Row /\ faults' \in 0 .. MaxFaults
    BY <1>2, MaxFaultsAssumption DEF Insert, TypeOK
  <1> QED
    BY <1>5, <1>6, <1>7, <1>8, <1>9
       DEF Insert, TypeOK, RowsExist, RequestOf, cycleVars

LEMMA JobAt ==
    ASSUME Typed, NEW w \in CeleryWorker, NEW j \in job[w]
    PROVE  /\ j \in Task /\ j.row \in DOMAIN exports /\ exports[j.row] \in ExportRow
           /\ j.row \in Row /\ j.retry \in 0 .. MaxRetries
           /\ exports[j.row].cycle \in Cycle
  <1>1. j \in Task /\ j.row \in DOMAIN exports
    BY DEF Typed, TypeOK, RowsExist
  <1> QED
    BY <1>1, ExportRowAt DEF Typed, Task, ExportRow

(* The tasks after a step of one worker. *)
LEMMA JobsAfter ==
    ASSUME Typed, NEW w \in CeleryWorker, NEW J \in SUBSET Task,
           job' = [job EXCEPT ![w] = J],
           DOMAIN exports' = DOMAIN exports,
           \A j \in J : j.row \in DOMAIN exports
    PROVE  /\ job' \in [CeleryWorker -> SUBSET Task]
           /\ \A v \in CeleryWorker : \A j \in job'[v] : j.row \in DOMAIN exports'
  BY DEF Typed, TypeOK, RowsExist

LEMMA StepTyped ==
    ASSUME Typed, NEW w \in CeleryWorker, NEW to \in Task, Step(w, to),
           DOMAIN exports' = DOMAIN exports, to.row \in DOMAIN exports
    PROVE  /\ job' \in [CeleryWorker -> SUBSET Task]
           /\ \A v \in CeleryWorker : \A j \in job'[v] : j.row \in DOMAIN exports'
  <1> DEFINE J == {to}
  <1>1. J \in SUBSET Task /\ \A j \in J : j.row \in DOMAIN exports
    OBVIOUS
  <1>2. job' = [job EXCEPT ![w] = J]
    BY DEF Step
  <1> HIDE DEF J
  <1> QED
    BY <1>1, <1>2, JobsAfter

LEMMA RowAfter ==
    ASSUME Typed, NEW i \in DOMAIN exports, NEW e \in ExportRow,
           exports' = [exports EXCEPT ![i] = e]
    PROVE  /\ exports' \in Seq(ExportRow) /\ Len(exports') = Len(exports)
           /\ DOMAIN exports' = DOMAIN exports
           /\ exports'[i] = e
           /\ \A h \in DOMAIN exports : h # i => exports'[h] = exports[h]
  BY ReplaceRow, ExceptSeq DEF Typed, TypeOK

LEMMA StatusAfter ==
    ASSUME Typed, NEW i \in DOMAIN exports,
           NEW s \in {"pending", "processing", "ready", "failed"}, SetStatus(i, s)
    PROVE  /\ exports' \in Seq(ExportRow) /\ Len(exports') = Len(exports)
           /\ DOMAIN exports' = DOMAIN exports
           /\ exports'[i] = [exports[i] EXCEPT !.status = s]
           /\ \A h \in DOMAIN exports : h # i => exports'[h] = exports[h]
  <1> DEFINE e == [exports[i] EXCEPT !.status = s]
  <1>1. e \in ExportRow
    BY ExportRowAt DEF Typed, ExportRow
  <1>2. exports' = [exports EXCEPT ![i] = e]
    BY DEF SetStatus
  <1> HIDE DEF e
  <1>3. /\ exports' \in Seq(ExportRow) /\ Len(exports') = Len(exports)
        /\ DOMAIN exports' = DOMAIN exports
        /\ exports'[i] = e
        /\ \A h \in DOMAIN exports : h # i => exports'[h] = exports[h]
    BY <1>1, <1>2, RowAfter
  <1> QED
    BY <1>3 DEF e

LEMMA TakeType ==
    ASSUME Typed, NEW w \in CeleryWorker, NEW i \in Row, NEW n \in 0 .. MaxRetries,
           Take(w, i, n)
    PROVE  Typed'
  <1>1. i \in DOMAIN exports
    BY DEF Take, Typed, RowsExist
  <1>2. exports[i].cycle \in Cycle
    BY <1>1, ExportRowAt DEF Typed, ExportRow
  <1>3. PICK s \in ReadsAs(exports[i].cycle) :
            Step(w, [stage |-> "read", row |-> i, retry |-> n, status |-> s, lines |-> {}])
    BY DEF Take
  <1> DEFINE t == [stage |-> "read", row |-> i, retry |-> n, status |-> s, lines |-> {}]
  <1>4. t \in Task /\ t.row = i
    BY <1>2, <1>3, ReadsAsType DEF Typed, Task
  <1> HIDE DEF t
  <1>5. /\ job' \in [CeleryWorker -> SUBSET Task]
        /\ \A v \in CeleryWorker : \A j \in job'[v] : j.row \in DOMAIN exports'
    <2>1. Step(w, t)
      BY <1>3 DEF t
    <2> QED
      BY <1>1, <1>4, <2>1, StepTyped DEF Take
  <1>6. /\ messages' \in [Row -> [0 .. MaxRetries -> Nat]]
        /\ \A h \in Row, m \in 0 .. MaxRetries :
              messages'[h][m] > 0 => h \in DOMAIN exports
    <2> DEFINE q == [messages[i] EXCEPT ![n] = @ - 1]
    <2>1. messages \in [Row -> [0 .. MaxRetries -> Nat]]
      BY DEF Typed, TypeOK
    <2>2. q \in [0 .. MaxRetries -> Nat]
      BY <2>1, MaxRetriesAssumption DEF Take
    <2>3. messages' = [messages EXCEPT ![i] = q]
      BY DEF Take
    <2> HIDE DEF q
    <2> QED
      BY <1>1, <2>1, <2>2, <2>3 DEF Typed, RowsExist
  <1> QED
    BY <1>5, <1>6 DEF Take, Typed, TypeOK, RowsExist, cycleVars

LEMMA MarkType ==
    ASSUME Typed, NEW w \in CeleryWorker, NEW j \in job[w], Mark(w, j)
    PROVE  Typed'
  <1>1. j \in Task /\ j.row \in DOMAIN exports
    BY JobAt
  <1>2. /\ exports' \in Seq(ExportRow) /\ Len(exports') = Len(exports)
        /\ DOMAIN exports' = DOMAIN exports
    BY <1>1, StatusAfter DEF Mark
  <1> DEFINE m == [j EXCEPT !.stage = "marked"]
  <1>3. m \in Task /\ m.row = j.row /\ Step(w, m)
    BY <1>1 DEF Task, Mark
  <1> HIDE DEF m
  <1>4. /\ job' \in [CeleryWorker -> SUBSET Task]
        /\ \A v \in CeleryWorker : \A i \in job'[v] : i.row \in DOMAIN exports'
    BY <1>1, <1>2, <1>3, StepTyped
  <1> QED
    BY <1>2, <1>4 DEF Mark, Typed, TypeOK, RowsExist, cycleVars

LEMMA BuildType ==
    ASSUME Typed, NEW w \in CeleryWorker, NEW j \in job[w], Build(w, j)
    PROVE  Typed'
  <1> DEFINE b == [j EXCEPT !.stage = "built", !.lines = {pay[exports[j.row].cycle]}]
  <1>1. j \in Task /\ j.row \in DOMAIN exports /\ exports[j.row].cycle \in Cycle
    BY JobAt
  <1>2. pay[exports[j.row].cycle] \in Pay
    BY <1>1 DEF Typed, TypeOK
  <1>3. b \in Task /\ b.row = j.row
    BY <1>1, <1>2 DEF Task
  <1>4. Step(w, b)
    BY DEF Build
  <1> HIDE DEF b
  <1>5. /\ job' \in [CeleryWorker -> SUBSET Task]
        /\ \A v \in CeleryWorker : \A i \in job'[v] : i.row \in DOMAIN exports'
    BY <1>1, <1>3, <1>4, StepTyped DEF Build
  <1> QED
    BY <1>5 DEF Build, Typed, TypeOK, RowsExist, cycleVars

LEMMA SaveType ==
    ASSUME Typed, NEW w \in CeleryWorker, NEW j \in job[w], Save(w, j)
    PROVE  /\ Typed'
           /\ DOMAIN exports' = DOMAIN exports
           /\ exports'[j.row] =
                [exports[j.row] EXCEPT !.status = "ready", !.file = FileOf(j)]
           /\ \A h \in DOMAIN exports : h # j.row => exports'[h] = exports[h]
  <1> DEFINE e == [exports[j.row] EXCEPT !.status = "ready", !.file = FileOf(j)]
             s == [j EXCEPT !.stage = "saved", !.lines = {}]
  <1>1. j \in Task /\ j.row \in DOMAIN exports /\ exports[j.row] \in ExportRow
    BY JobAt
  <1>2. FileOf(j) \in SUBSET File
    <2>1. exports[j.row].type \in ExportType /\ j.status \in ReadStatus /\ j.lines \in SUBSET Pay
      BY <1>1 DEF ExportRow, Task
    <2> QED
      BY <2>1 DEF FileOf, File
  <1>3. e \in ExportRow
    BY <1>1, <1>2 DEF ExportRow
  <1>4. s \in Task /\ s.row = j.row
    BY <1>1 DEF Task
  <1>5. exports' = [exports EXCEPT ![j.row] = e] /\ Step(w, s)
    BY DEF Save
  <1> HIDE DEF e, s
  <1>6. /\ exports' \in Seq(ExportRow) /\ Len(exports') = Len(exports)
        /\ DOMAIN exports' = DOMAIN exports
        /\ exports'[j.row] = e
        /\ \A h \in DOMAIN exports : h # j.row => exports'[h] = exports[h]
    BY <1>1, <1>3, <1>5, RowAfter
  <1>7. /\ job' \in [CeleryWorker -> SUBSET Task]
        /\ \A v \in CeleryWorker : \A i \in job'[v] : i.row \in DOMAIN exports'
    BY <1>1, <1>4, <1>5, <1>6, StepTyped
  <1> QED
    BY <1>6, <1>7 DEF Save, Typed, TypeOK, RowsExist, cycleVars, e

LEMMA EndedType ==
    ASSUME Typed, NEW w \in CeleryWorker, Ended(w), DOMAIN exports' = DOMAIN exports
    PROVE  /\ job' \in [CeleryWorker -> SUBSET Task]
           /\ \A v \in CeleryWorker : \A j \in job'[v] : j.row \in DOMAIN exports'
  BY JobsAfter DEF Ended

LEMMA FinishType ==
    ASSUME Typed, NEW w \in CeleryWorker, NEW j \in job[w], Finish(w, j)
    PROVE  Typed'
  BY EndedType DEF Finish, Typed, TypeOK, RowsExist, cycleVars

LEMMA RetriedType ==
    ASSUME Typed, NEW i \in DOMAIN exports, NEW n \in 0 .. MaxRetries,
           messages' \in {Retried(i, n), Queued(i, n), messages},
           DOMAIN exports' = DOMAIN exports
    PROVE  /\ messages' \in [Row -> [0 .. MaxRetries -> Nat]]
           /\ \A h \in Row, m \in 0 .. MaxRetries :
                 messages'[h][m] > 0 => h \in DOMAIN exports'
  <1>1. i \in Row
    BY ExportRowAt DEF Typed
  <1>2. n < MaxRetries => n + 1 \in 0 .. MaxRetries
    BY MaxRetriesAssumption
  <1>3. messages' = messages \/ messages' = Queued(i, n)
        \/ (n < MaxRetries /\ messages' = Queued(i, n + 1))
    BY DEF Retried
  <1>4. CASE messages' = messages
    BY <1>4 DEF Typed, TypeOK, RowsExist
  <1>5. CASE messages' = Queued(i, n)
    BY <1>1, <1>5, QueuedMessage DEF Typed, TypeOK, RowsExist
  <1>6. CASE n < MaxRetries /\ messages' = Queued(i, n + 1)
    <2>1. n + 1 \in 0 .. MaxRetries
      BY <1>2, <1>6
    <2> QED
      BY <1>1, <1>6, <2>1, QueuedMessage DEF Typed, TypeOK, RowsExist
  <1> QED
    BY <1>3, <1>4, <1>5, <1>6

LEMMA FailType ==
    ASSUME Typed, NEW w \in CeleryWorker, NEW j \in job[w], Fail(w, j)
    PROVE  Typed'
  <1>1. j.row \in DOMAIN exports /\ j.retry \in 0 .. MaxRetries
    BY JobAt
  <1>2. /\ exports' \in Seq(ExportRow) /\ Len(exports') = Len(exports)
        /\ DOMAIN exports' = DOMAIN exports
    BY <1>1, StatusAfter DEF Fail, AfterFailure
  <1> QED
    BY <1>1, <1>2, EndedType, RetriedType DEF Fail, Typed, TypeOK, RowsExist, cycleVars

LEMMA AbandonType ==
    ASSUME Typed, NEW w \in CeleryWorker, NEW j \in job[w], Abandon(w, j)
    PROVE  Typed'
  <1>1. j.row \in Row
    BY JobAt
  <1>2. faults' \in 0 .. MaxFaults
    BY MaxFaultsAssumption DEF Abandon, Typed, TypeOK
  <1> QED
    BY <1>1, <1>2, EndedType DEF Abandon, Typed, TypeOK, RowsExist, cycleVars

LEMMA RedeliverType ==
    ASSUME Typed, NEW w \in CeleryWorker, NEW j \in job[w], Redeliver(w, j)
    PROVE  Typed'
  <1>1. j.row \in DOMAIN exports /\ j.retry \in 0 .. MaxRetries
    BY JobAt
  <1>2. crashes' \in 0 .. MaxCrashes
    BY MaxCrashesAssumption DEF Redeliver, Typed, TypeOK
  <1>3. /\ job' \in [CeleryWorker -> SUBSET Task]
        /\ \A v \in CeleryWorker : \A i \in job'[v] : i.row \in DOMAIN exports'
    BY EndedType DEF Redeliver, Typed, TypeOK, RowsExist
  <1>4. /\ messages' \in [Row -> [0 .. MaxRetries -> Nat]]
        /\ \A h \in Row, m \in 0 .. MaxRetries :
              messages'[h][m] > 0 => h \in DOMAIN exports'
    BY <1>1, RetriedType DEF Redeliver
  <1> QED
    BY <1>2, <1>3, <1>4 DEF Redeliver, Typed, TypeOK, RowsExist, cycleVars

LEMMA NextTyped == Typed /\ [Next]_vars => Typed'
  <1> SUFFICES ASSUME Typed, [Next]_vars PROVE Typed'
    OBVIOUS
  <1>1. CASE Close
    BY <1>1, CloseType DEF Close, Typed, RowsExist, taskVars
  <1>2. ASSUME NEW k \in Clerk, RequestStep(k)
        PROVE  Typed'
    <2>1. CASE \E c \in Cycle, t \in ExportType : Open(k, c, t)
      BY <2>1, OpenType DEF Open, Typed, RowsExist, taskVars
    <2>2. ASSUME NEW r \in request[k], Size(k, r)
          PROVE  Typed'
      BY <2>2, SizeType DEF Size, Typed, RowsExist, taskVars
    <2>3. ASSUME NEW r \in request[k],
                 Download(k, r) \/ Show(k, r) \/ CountVersion(k, r) \/ Conflict(k, r) \/ Abort(k, r)
          PROVE  Typed'
      <3>1. request' \in [Clerk -> SUBSET RequestOf]
        BY <2>3, QueuedType
      <3>2. UNCHANGED <<cycleVars, exports, taskVars>>
        BY <2>3 DEF Download, Show, CountVersion, Conflict, Abort
      <3> QED
        BY <3>1, <3>2 DEF Typed, TypeOK, RowsExist, RequestOf, cycleVars, taskVars
    <2>4. ASSUME NEW r \in request[k], Insert(k, r)
          PROVE  Typed'
      BY <2>4, InsertType
    <2> QED
      BY <1>2, <2>1, <2>2, <2>3, <2>4 DEF RequestStep
  <1>3. ASSUME NEW w \in CeleryWorker, TaskStep(w) \/ FaultStep(w)
        PROVE  Typed'
    BY <1>3, TakeType, MarkType, BuildType, SaveType, FinishType, FailType,
       AbandonType, RedeliverType DEF TaskStep, FaultStep
  <1>4. CASE UNCHANGED vars
    BY <1>4 DEF vars, cycleVars, taskVars, Typed, TypeOK, RowsExist
  <1> QED
    BY <1>1, <1>2, <1>3, <1>4 DEF Next

LEMMA InitTyped == Init => Typed
  BY InitType DEF Init, Typed, RowsExist

LEMMA TypedInvariance == Spec => []Typed
  BY InitTyped, NextTyped, PTL DEF Spec

(* No behaviour leaves the types, and every message and task is about an   *)
(* export that exists.                                                     *)
THEOREM Typing == Spec => []TypeOK
  <1>1. Typed => TypeOK
    BY DEF Typed
  <1> QED
    BY TypedInvariance, <1>1, PTL

-----------------------------------------------------------------------------
(* What the artifacts add up to *)

LEMMA AmountsFinite == IsFiniteSet(Amount)
  <1> DEFINE A == {"basic", "regular", "overtime"}
             B == {"allowances", "other", "absence"}
             C == {"advance", "otherDeductions", "gross"}
             D == {"calculated", "net"}
  <1>1. \A x, y, z : IsFiniteSet({x, y, z}) /\ IsFiniteSet({x, y})
    <2> TAKE x, y, z
    <2>1. IsFiniteSet({x}) /\ IsFiniteSet({x} \cup {y})
      BY FS_Singleton, FS_AddElement
    <2>2. IsFiniteSet(({x} \cup {y}) \cup {z})
      BY <2>1, FS_AddElement
    <2>3. {x} \cup {y} = {x, y} /\ ({x} \cup {y}) \cup {z} = {x, y, z}
      OBVIOUS
    <2> QED
      BY <2>1, <2>2, <2>3
  <1>2. IsFiniteSet(A \cup B) /\ IsFiniteSet(C \cup D)
    <2> IsFiniteSet(A) /\ IsFiniteSet(B) /\ IsFiniteSet(C) /\ IsFiniteSet(D)
      BY <1>1
    <2> QED
      BY FS_Union
  <1>3. IsFiniteSet((A \cup B) \cup (C \cup D))
    <2> HIDE DEF A, B, C, D
    <2> QED BY <1>2, FS_Union
  <1>4. Amount = (A \cup B) \cup (C \cup D)
    BY DEF Amount
  <1> QED
    BY <1>3, <1>4

LEMMA LineAmounts ==
    ASSUME NEW table \in Pay, NEW w \in Workers(table)
    PROVE  /\ table[w].amount \in [Amount -> Int]
           /\ table[w].amount["gross"] = table[w].amount["regular"] + table[w].amount["overtime"]
                              + table[w].amount["allowances"] + table[w].amount["other"]
  BY PayAssumption

LEMMA CellInt ==
    ASSUME NEW table \in Pay, NEW w \in Workers(table), NEW column \in SUBSET Amount
    PROVE  Cell(table[w], column) \in Int
  <1>1. IsFiniteSet(column) /\ \A a \in column : table[w].amount[a] \in Int
    BY AmountsFinite, FS_Subset, LineAmounts
  <1> QED
    BY <1>1, SumInt DEF Cell

(* A total adds a column amount by amount; its rows add it worker by worker. *)
LEMMA TotalOfRows ==
    ASSUME NEW table \in Pay, NEW column \in SUBSET Amount
    PROVE  TotalOf(table, column) = SumFunction([w \in Workers(table) |-> Cell(table[w], column)])
  <1> DEFINE W == Workers(table)
             m == [a \in column |-> [w \in W |-> table[w].amount[a]]]
             byAmount == [a \in column |-> SumFunctionOnSet([w \in W |-> m[a][w]], W)]
             byWorker == [w \in W |-> SumFunctionOnSet([a \in column |-> m[a][w]], column)]
  <1>1. IsFiniteSet(W) /\ IsFiniteSet(column)
    BY PayAssumption, AmountsFinite, FS_Subset
  <1>2. \A a \in column, w \in W : m[a][w] \in Int /\ m[a][w] = table[w].amount[a]
    BY LineAmounts
  <1>3. SumFunctionOnSet(byAmount, column) = SumFunctionOnSet(byWorker, W)
    <2> HIDE DEF W, m
    <2> QED BY <1>1, <1>2, SumSwap
  <1>4. \A w \in W : byWorker[w] = Cell(table[w], column)
    <2> SUFFICES ASSUME NEW w \in W
                 PROVE  SumFunctionOnSet([a \in column |-> m[a][w]], column)
                           = SumFunctionOnSet(table[w].amount, column)
      BY DEF Cell
    <2> DEFINE f == [a \in column |-> m[a][w]]
    <2>1. \A a \in column : f[a] \in Int /\ f[a] = table[w].amount[a]
      BY <1>2
    <2> QED
      <3> HIDE DEF f
      <3> QED BY <1>1, <2>1, SumSame
  <1>5. byWorker = [w \in W |-> Cell(table[w], column)]
    BY <1>4
  <1>6. byAmount = [a \in column |-> ReportTotal(table, a)]
    <2> SUFFICES ASSUME NEW a \in column
                 PROVE  SumFunctionOnSet([w \in W |-> m[a][w]], W) = ReportTotal(table, a)
      OBVIOUS
    <2>1. [w \in W |-> m[a][w]] = [w \in W |-> table[w].amount[a]]
      OBVIOUS
    <2> QED
      BY <2>1 DEF ReportTotal, SumFunction
  <1> QED
    BY <1>3, <1>5, <1>6 DEF TotalOf, SumFunction

LEMMA ColumnsOfAmounts ==
    /\ WorkerColumns \cup {Only("gross")} \subseteq SUBSET Amount
    /\ {Only(a) : a \in Amount} \subseteq SUBSET Amount
    /\ Deductions \in SUBSET Amount
  BY DEF WorkerColumns, Only, Deductions, Allowances, Amount

(* The gross pay of a row that has no column for it is what it is made of: *)
(* this takes the way build_payroll_lines makes up the gross pay.           *)
LEMMA GrossOfParts ==
    ASSUME NEW table \in Pay, NEW w \in Workers(table), NEW row,
           row = [k \in WorkerColumns |-> Cell(table[w], k)]
    PROVE  RowFigure(row, Only("gross")) = Cell(table[w], Only("gross"))
  <1> DEFINE amount == table[w].amount
  <1>0. amount \in [Amount -> Int]
      /\ amount["gross"] = amount["regular"] + amount["overtime"]
                              + amount["allowances"] + amount["other"]
    BY LineAmounts
  <1>1. Only("gross") \notin DOMAIN row
    BY DEF WorkerColumns, Only, Deductions, Allowances
  <1>2. RowFigure(row, Only("gross"))
           = SumFunctionOnSet(row, {Only("regular"), Only("overtime"), Allowances})
    BY <1>1 DEF RowFigure
  <1>3. /\ Only("regular") # Only("overtime") /\ Only("regular") # Allowances
        /\ Only("overtime") # Allowances
    BY DEF Only, Allowances
  <1>4. \A a \in Amount : Cell(table[w], Only(a)) = amount[a] /\ amount[a] \in Int
    BY <1>0, SumOne DEF Cell, Only
  <1>5. Cell(table[w], Allowances) = amount["allowances"] + amount["other"]
    BY <1>0, SumTwo DEF Cell, Allowances, Amount
  <1>6. /\ row[Only("regular")] = amount["regular"]
        /\ row[Only("overtime")] = amount["overtime"]
        /\ row[Allowances] = amount["allowances"] + amount["other"]
        /\ amount["regular"] \in Int /\ amount["overtime"] \in Int
        /\ amount["allowances"] \in Int /\ amount["other"] \in Int
    BY <1>4, <1>5 DEF WorkerColumns, Amount
  <1>7. RowFigure(row, Only("gross"))
           = amount["regular"] + amount["overtime"] + (amount["allowances"] + amount["other"])
    <2> DEFINE x == Only("regular")
               y == Only("overtime")
    <2>1. /\ x # y /\ x # Allowances /\ y # Allowances
          /\ row[x] \in Int /\ row[y] \in Int /\ row[Allowances] \in Int
      BY <1>3, <1>6
    <2>2. SumFunctionOnSet(row, {x, y, Allowances})
            = Added(row[x], row[y], row[Allowances])
      <3> HIDE DEF x, y
      <3> QED BY <2>1, SumThree
    <2> QED
      BY <1>2, <1>6, <2>2 DEF Added
  <1>8. Cell(table[w], Only("gross")) = amount["gross"]
    BY <1>4 DEF Amount
  <1> QED
    BY <1>0, <1>6, <1>7, <1>8

LEMMA DeductionsOfParts ==
    ASSUME NEW table \in Pay, NEW w \in Workers(table), NEW row,
           DOMAIN row = {Only(a) : a \in Amount},
           \A a \in Amount : row[Only(a)] = Cell(table[w], Only(a))
    PROVE  RowFigure(row, Deductions) = Cell(table[w], Deductions)
  <1> DEFINE amount == table[w].amount
             parts == {Only("absence"), Only("advance"), Only("otherDeductions")}
  <1>0. amount \in [Amount -> Int]
    BY LineAmounts
  <1>1. Deductions \notin DOMAIN row
    BY DEF Only, Deductions
  <1>2. RowFigure(row, Deductions) = SumFunctionOnSet(row, parts)
    <2>1. {Only(a) : a \in Deductions} = parts
      BY DEF Deductions
    <2>2. Deductions # Only("gross")
      BY DEF Deductions, Only
    <2> QED
      BY <1>1, <2>1, <2>2 DEF RowFigure
  <1>3. /\ Only("absence") # Only("advance") /\ Only("absence") # Only("otherDeductions")
        /\ Only("advance") # Only("otherDeductions")
    BY DEF Only
  <1>4. \A a \in Amount : row[Only(a)] = amount[a] /\ amount[a] \in Int
    BY <1>0, SumOne DEF Cell, Only
  <1>5. /\ row[Only("absence")] = amount["absence"]
        /\ row[Only("advance")] = amount["advance"]
        /\ row[Only("otherDeductions")] = amount["otherDeductions"]
        /\ amount["absence"] \in Int /\ amount["advance"] \in Int
        /\ amount["otherDeductions"] \in Int
    BY <1>4 DEF Amount
  <1>6. SumFunctionOnSet(row, parts)
          = amount["absence"] + amount["advance"] + amount["otherDeductions"]
    <2> HIDE DEF amount
    <2> DEFINE x == Only("absence")
               y == Only("advance")
               z == Only("otherDeductions")
    <2>1. /\ x # y /\ x # z /\ y # z
          /\ row[x] \in Int /\ row[y] \in Int /\ row[z] \in Int
      BY <1>3, <1>5
    <2> HIDE DEF parts
    <2>2. SumFunctionOnSet(row, {x, y, z}) = Added(row[x], row[y], row[z])
      <3> HIDE DEF x, y, z
      <3> QED BY <2>1, SumThree
    <2> QED
      BY <1>5, <2>2 DEF Added, parts
  <1>7. Cell(table[w], Deductions)
          = amount["absence"] + amount["advance"] + amount["otherDeductions"]
    <2> HIDE DEF amount
    <2>1. SumFunctionOnSet(amount, {"absence", "advance", "otherDeductions"})
            = Added(amount["absence"], amount["advance"], amount["otherDeductions"])
      <3> DEFINE x == "absence"
                 y == "advance"
                 z == "otherDeductions"
      <3>1. /\ x # y /\ x # z /\ y # z
            /\ amount[x] \in Int /\ amount[y] \in Int /\ amount[z] \in Int
        BY <1>5
      <3> HIDE DEF x, y, z
      <3>2. SumFunctionOnSet(amount, {x, y, z}) = Added(amount[x], amount[y], amount[z])
        BY <3>1, SumThree
      <3> QED
        BY <3>2 DEF x, y, z
    <2>2. Cell(table[w], Deductions)
            = SumFunctionOnSet(amount, {"absence", "advance", "otherDeductions"})
      BY DEF Cell, Deductions, amount
    <2> QED
      BY <2>1, <2>2 DEF Added
  <1> QED
    BY <1>2, <1>6, <1>7

(* The columns of the rows of a report. *)
ColumnsOf(t) == IF t = "report_excel" THEN {Only(a) : a \in Amount} ELSE WorkerColumns

(* Which totals there are, and how the rows show their amount. *)
LEMMA RowsShowFigures ==
    ASSUME NEW table \in Pay, NEW status, NEW t \in {"report_html", "report_pdf", "report_excel"},
           NEW figure \in DOMAIN Artifact(t, status, table).totals
    PROVE  /\ figure \in SUBSET Amount
           /\ Artifact(t, status, table).rows = Rows(table, ColumnsOf(t))
           /\ Artifact(t, status, table).totals[figure] = TotalOf(table, figure)
           /\ \/ figure \in ColumnsOf(t)
              \/ t # "report_excel" /\ figure = Only("gross")
              \/ t = "report_excel" /\ figure = Deductions
  <1> USE DEF Artifact, Totals, ColumnsOf
  <1>1. CASE t = "report_html"
    BY <1>1, ColumnsOfAmounts DEF HtmlReport, WorkerColumns
  <1>2. CASE t = "report_pdf"
    BY <1>2, ColumnsOfAmounts DEF PdfReport
  <1>3. CASE t = "report_excel"
    <2>1. {Only("gross"), Only("calculated"), Only("net")} \subseteq ColumnsOf(t)
      BY <1>3 DEF Amount
    <2> QED
      BY <1>3, <2>1, ColumnsOfAmounts DEF ExcelReport
  <1> QED
    BY <1>1, <1>2, <1>3

LEMMA ArtifactAddsUp ==
    ASSUME NEW table \in Pay, NEW t \in ExportType, NEW status
    PROVE  AddsUp(Artifact(t, status, table))
  <1> DEFINE artifact == Artifact(t, status, table)
  <1>1. CASE t = "wps"
    <2>1. artifact.totals = <<>> /\ DOMAIN artifact.totals = {}
      BY <1>1, EmptySeq DEF Artifact, WpsFile
    <2> QED
      <3> HIDE DEF artifact
      <3> SUFFICES AddsUp(artifact)
        BY DEF artifact
      <3> QED BY <2>1 DEF AddsUp
  <1>2. CASE t # "wps"
    <2> SUFFICES ASSUME NEW figure \in DOMAIN artifact.totals
                 PROVE  artifact.totals[figure] =
                          SumFunction([w \in DOMAIN artifact.rows |->
                                         RowFigure(artifact.rows[w], figure)])
      BY DEF AddsUp
    <2>0. t \in {"report_html", "report_pdf", "report_excel"}
      BY <1>2, ExportTypeAssumption
    <2>1. /\ figure \in SUBSET Amount
          /\ artifact.rows = Rows(table, ColumnsOf(t))
          /\ artifact.totals[figure] = TotalOf(table, figure)
          /\ \/ figure \in ColumnsOf(t)
             \/ t # "report_excel" /\ figure = Only("gross")
             \/ t = "report_excel" /\ figure = Deductions
      BY <2>0, RowsShowFigures
    <2>2. /\ DOMAIN artifact.rows = Workers(table)
          /\ \A w \in Workers(table) :
                artifact.rows[w] = [k \in ColumnsOf(t) |-> Cell(table[w], k)]
      BY <2>1 DEF Rows
    <2>3. ASSUME NEW w \in Workers(table)
          PROVE  RowFigure(artifact.rows[w], figure) = Cell(table[w], figure)
      <3>1. CASE figure \in ColumnsOf(t)
        <4> HIDE DEF artifact
        <4> QED BY <3>1, <2>2 DEF RowFigure
      <3>2. CASE t # "report_excel" /\ figure = Only("gross")
        <4>1. artifact.rows[w] = [k \in WorkerColumns |-> Cell(table[w], k)]
          BY <3>2, <2>2 DEF ColumnsOf
        <4> HIDE DEF artifact
        <4> QED BY <3>2, <4>1, GrossOfParts
      <3>3. CASE t = "report_excel" /\ figure = Deductions
        <4>1. /\ DOMAIN artifact.rows[w] = {Only(a) : a \in Amount}
              /\ \A a \in Amount : artifact.rows[w][Only(a)] = Cell(table[w], Only(a))
          BY <3>3, <2>2 DEF ColumnsOf
        <4> HIDE DEF artifact
        <4> QED BY <3>3, <4>1, DeductionsOfParts
      <3> QED
        BY <2>1, <3>1, <3>2, <3>3
    <2>4. [w \in DOMAIN artifact.rows |-> RowFigure(artifact.rows[w], figure)]
            = [w \in Workers(table) |-> Cell(table[w], figure)]
      <3> HIDE DEF artifact
      <3> QED BY <2>2, <2>3
    <2> QED
      <3> HIDE DEF artifact
      <3> QED BY <2>1, <2>4, TotalOfRows
  <1> QED
    BY <1>1, <1>2

(* Every total of a report is the sum of what its rows show, in whatever   *)
(* format and of whatever lines: what users are given was built by         *)
(* Artifact, of one table the cycle has had.                               *)
THEOREM TotalsAddUp == Spec => []ReportsAddUp
  <1>1. TypeOK => ReportsAddUp
    <2> SUFFICES ASSUME TypeOK, NEW c \in Cycle, NEW f \in Given(c)
                 PROVE  AddsUp(f.content)
      BY DEF ReportsAddUp
    <2>1. \A g \in File : AddsUp(g.content)
      <3> SUFFICES ASSUME NEW p \in Pay, NEW t \in ExportType, NEW s \in ReadStatus
                   PROVE  AddsUp([of |-> p, content |-> Artifact(t, s, p)].content)
        BY DEF File
      <3> QED
        BY ArtifactAddsUp
    <2>2. CASE \E i \in DOMAIN exports : f \in exports[i].file
      <3> PICK i \in DOMAIN exports : f \in exports[i].file
        BY <2>2
      <3>1. exports[i] \in ExportRow
        BY ExportRowAt
      <3> QED
        BY <2>1, <3>1 DEF ExportRow
    <2>3. ASSUME NEW k \in Clerk, NEW r \in request[k], r.stage = "download",
                 f = [of |-> r.lines, content |-> r.file]
          PROVE  AddsUp(f.content)
      <3>1. r \in Response
        BY <2>3 DEF TypeOK, PendingRequest
      <3>2. \E g \in File : r.file = g.content
        BY <3>1 DEF Response
      <3> QED
        BY <2>1, <2>3, <3>2
    <2> QED
      BY <2>2, <2>3 DEF Given
  <1> QED
    BY Typing, <1>1, PTL

-----------------------------------------------------------------------------
(* What a step may do, said once for all the invariants: of a cycle, of a  *)
(* request, of an export row, of a task.                                   *)

Closed(c) == phase[c] \in {"locked", "void"}

CycleKept(c) ==
    /\ phase[c] = "void" => phase'[c] = "void"
    /\ Closed(c) => Closed(c)'
    /\ phase[c] = "locked" => pay'[c] = pay[c]
    /\ approved[c] \subseteq approved'[c]
    /\ reworked \subseteq reworked'
    /\ phase[c] = "approved" => phase'[c] # "open" \/ c \in reworked'
    /\ phase'[c] \in {"approved", "locked"} =>
         pay'[c] \in approved'[c] \/ (phase[c] \in {"approved", "locked"} /\ pay'[c] = pay[c])

RowsKept ==
    /\ DOMAIN exports \subseteq DOMAIN exports'
    /\ \A i \in DOMAIN exports :
          /\ exports'[i].cycle = exports[i].cycle
          /\ exports'[i].type = exports[i].type
          /\ exports'[i].version = exports[i].version

Advanced(r, q) == q.cycle = r.cycle /\ q.type = r.type /\ q.status = r.status

RequestOrigin(k, q) ==
    \/ q \in request[k]
    \/ /\ q.stage \in {"size", "queue"}
       /\ q.cycle \in Cycle
       /\ q.status \in ReadsAs(q.cycle)
       /\ Exportable(q.type, q.status)
    \/ \E r \in request[k] :
          /\ r.stage # "download"
          /\ \/ q.stage \in {"build", "queue"} /\ Advanced(r, q)
             \/ /\ q.stage = "insert" /\ Advanced(r, q)
                /\ q.version = NextVersion(r.cycle, r.type)
             \/ /\ q.stage = "download" /\ q.cycle = r.cycle
                /\ q.lines = pay[r.cycle]
                /\ q.file = Artifact(r.type, r.status, pay[r.cycle])

TaskOrigin(w, q) ==
    \/ /\ q.status \in ReadsAs(exports[q.row].cycle)
       /\ q.lines = {}
    \/ \E j \in job[w] :
          /\ q.row = j.row
          /\ q.status = j.status
          /\ q.lines \in {{}, j.lines, {pay[exports[j.row].cycle]}}

FileOrigin(i) ==
    \/ exports'[i].file = exports[i].file
    \/ \E w \in CeleryWorker : \E j \in job[w] :
          j.row = i /\ exports'[i].file = FileOf(j)

Moved(c) ==
    \/ phase[c] \in {"open", "approved"} /\ phase'[c] = "open"
    \/ phase[c] = "open" /\ phase'[c] = "approved" /\ pay' = pay
    \/ phase[c] = "approved" /\ phase'[c] = "locked" /\ pay' = pay
    \/ phase'[c] = "void" /\ pay' = pay
    \/ phase[c] = "void" /\ phase'[c] = "void"
    \/ phase'[c] = phase[c] /\ pay'[c] = pay[c]

LEMMA CloseEffect ==
    ASSUME Typed, Close, NEW c \in Cycle
    PROVE  CycleKept(c)
  <1>1. /\ phase'[c] \in {"open", "approved", "locked", "void"}
        /\ approved'[c] = IF phase'[c] = "approved" THEN approved[c] \cup {pay'[c]}
                                                    ELSE approved[c]
        /\ reworked' = reworked \cup
                         {d \in Cycle : phase[d] = "approved" /\ phase'[d] = "open"}
    BY CloseType DEF Typed, TypeOK, Close
  <1>2. Moved(c)
    <2>1. ASSUME NEW d \in Cycle, Control!Prepare(d)
          PROVE  Moved(c)
      BY <2>1 DEF Control!Prepare, Control!PayOfOthersKept, Typed, TypeOK, Moved
    <2>2. ASSUME NEW d \in Cycle, Control!Approve(d)
          PROVE  Moved(c)
      BY <2>2 DEF Control!Approve, Typed, TypeOK, Moved
    <2>3. ASSUME NEW d \in Cycle, Control!Lock(d)
          PROVE  Moved(c)
      BY <2>3 DEF Control!Lock, Typed, TypeOK, Moved
    <2>4. ASSUME NEW d \in Cycle, Control!Void(d)
          PROVE  Moved(c)
      BY <2>4 DEF Control!Void, Typed, TypeOK, Moved
    <2>5. ASSUME NEW d \in Cycle, Control!ReworkVoid(d)
          PROVE  Moved(c)
      BY <2>5 DEF Control!ReworkVoid, Control!PayOfOthersKept, Typed, TypeOK, Moved
    <2> QED
      BY <2>1, <2>2, <2>3, <2>4, <2>5 DEF Close, Control!Next
  <1> QED
    BY <1>1, <1>2 DEF CycleKept, Closed, Moved

LEMMA Asked ==
    ASSUME Typed, NEW k \in Clerk, NEW r, Ask(k, r),
           NEW h \in Clerk, NEW q \in request'[h]
    PROVE  q \in request[h] \/ (h = k /\ q = r)
  BY DEF Typed, TypeOK, Ask

LEMMA RequestEffect ==
    ASSUME Typed, NEW k \in Clerk, RequestStep(k),
           NEW h \in Clerk, NEW q \in request'[h]
    PROVE  RequestOrigin(h, q)
  <1>1. ASSUME NEW c \in Cycle, NEW t \in ExportType, Open(k, c, t)
        PROVE  RequestOrigin(h, q)
    <2>1. PICK s \in ReadsAs(c) :
              /\ Exportable(t, s)
              /\ Ask(k, [stage |-> IF t = "wps" THEN "queue" ELSE "size",
                         cycle |-> c, type |-> t, status |-> s, version |-> 0])
      BY <1>1 DEF Open
    <2> QED
      BY <2>1, Asked DEF RequestOrigin
  <1>2. ASSUME NEW r \in request[k], Size(k, r)
        PROVE  RequestOrigin(h, q)
    <2>1. r \in PendingRequest /\ r.stage # "download"
      BY <1>2, PendingType DEF Size, Typed
    <2>2. ASSUME NEW g \in {"build", "queue"}, Ask(k, [r EXCEPT !.stage = g])
          PROVE  RequestOrigin(h, q)
      <3> DEFINE a == [r EXCEPT !.stage = g]
      <3>1. a.stage = g /\ Advanced(r, a)
        BY <2>1 DEF PendingRequest, Advanced
      <3>2. Ask(k, a)
        BY <2>2
      <3> HIDE DEF a
      <3>3. q \in request[h] \/ (h = k /\ q = a)
        BY <3>2, Asked
      <3> QED
        BY <2>1, <3>1, <3>3 DEF RequestOrigin
    <2> QED
      BY <1>2, <2>2 DEF Size, Answered, Typed, TypeOK, RequestOrigin
  <1>3. ASSUME NEW r \in request[k], Download(k, r)
        PROVE  RequestOrigin(h, q)
    <2> DEFINE a == [stage |-> "download", cycle |-> r.cycle, lines |-> pay[r.cycle],
                     file |-> Artifact(r.type, r.status, pay[r.cycle])]
    <2>1. /\ a.stage = "download" /\ a.cycle = r.cycle /\ a.lines = pay[r.cycle]
          /\ a.file = Artifact(r.type, r.status, pay[r.cycle])
      OBVIOUS
    <2>2. Ask(k, a) /\ r.stage # "download"
      BY <1>3 DEF Download
    <2> HIDE DEF a
    <2>3. q \in request[h] \/ (h = k /\ q = a)
      BY <2>2, Asked
    <2> QED
      BY <2>1, <2>2, <2>3 DEF RequestOrigin
  <1>4. ASSUME NEW r \in request[k], CountVersion(k, r)
        PROVE  RequestOrigin(h, q)
    <2> DEFINE a == [r EXCEPT !.stage = "insert", !.version = NextVersion(r.cycle, r.type)]
    <2>1. r \in PendingRequest /\ r.stage # "download"
      BY <1>4, PendingType DEF CountVersion, Typed
    <2>2. /\ a.stage = "insert" /\ Advanced(r, a)
          /\ a.version = NextVersion(r.cycle, r.type)
      BY <2>1 DEF PendingRequest, Advanced
    <2>3. Ask(k, a)
      BY <1>4 DEF CountVersion
    <2> HIDE DEF a
    <2>4. q \in request[h] \/ (h = k /\ q = a)
      BY <2>3, Asked
    <2> QED
      BY <2>1, <2>2, <2>4 DEF RequestOrigin
  <1>5. ASSUME NEW r \in request[k],
               Show(k, r) \/ Conflict(k, r) \/ Insert(k, r) \/ Abort(k, r)
        PROVE  RequestOrigin(h, q)
    BY <1>5 DEF Show, Conflict, Insert, Abort, Answered, Typed, TypeOK, RequestOrigin
  <1> QED
    BY <1>1, <1>2, <1>3, <1>4, <1>5 DEF RequestStep

(* A request leaves the rows there are alone, and inserts at most one.     *)
LEMMA InsertEffect ==
    ASSUME Typed, NEW k \in Clerk, RequestStep(k)
    PROVE  /\ UNCHANGED <<cycleVars, job>>
           /\ RowsKept
           /\ \A i \in DOMAIN exports : exports'[i] = exports[i]
           /\ \/ exports' = exports
              \/ \E r \in request[k] :
                    /\ Insert(k, r)
                    /\ DOMAIN exports' = DOMAIN exports \cup {Len(exports) + 1}
                    /\ Len(exports) + 1 \notin DOMAIN exports
                    /\ exports'[Len(exports) + 1] = NewRow(r)
  <1>1. ASSUME NEW r \in request[k], Insert(k, r)
        PROVE  /\ \A i \in DOMAIN exports : exports'[i] = exports[i]
               /\ DOMAIN exports' = DOMAIN exports \cup {Len(exports) + 1}
               /\ Len(exports) + 1 \notin DOMAIN exports
               /\ exports'[Len(exports) + 1] = NewRow(r)
    <2>1. exports \in Seq(ExportRow \cup {NewRow(r)})
      <3>1. ASSUME NEW S, NEW T, NEW s \in Seq(S), S \subseteq T
            PROVE  s \in Seq(T)
        BY <3>1, ElementOfSeq, SeqDef, LenProperties
      <3> QED
        BY <3>1 DEF Typed, TypeOK
    <2>2. exports' = Append(exports, NewRow(r))
      BY <1>1 DEF Insert
    <2> QED
      BY <2>1, <2>2, AppendProperties, LenProperties
  <1>2. CASE \E r \in request[k] : Insert(k, r)
    BY <1>1, <1>2 DEF Insert, RowsKept
  <1>3. CASE ~\E r \in request[k] : Insert(k, r)
    BY <1>3 DEF RequestStep, Open, Size, Download, Show, CountVersion, Conflict, Abort,
                taskVars, RowsKept
  <1> QED
    BY <1>2, <1>3

LEMMA Stepped ==
    ASSUME Typed, NEW w \in CeleryWorker, NEW to, Step(w, to),
           NEW v \in CeleryWorker, NEW q \in job'[v]
    PROVE  q \in job[v] \/ (v = w /\ q = to)
  BY DEF Typed, TypeOK, Step

LEMMA KeptOrigin ==
    ASSUME NEW v \in CeleryWorker, NEW q \in job[v]
    PROVE  TaskOrigin(v, q)
  BY DEF TaskOrigin

TaskKept ==
    /\ UNCHANGED <<cycleVars, request>>
    /\ RowsKept
    /\ DOMAIN exports' = DOMAIN exports
    /\ \A v \in CeleryWorker : \A q \in job'[v] : TaskOrigin(v, q)
    /\ \A i \in DOMAIN exports : FileOrigin(i)

LEMMA StatusKept ==
    ASSUME Typed, NEW i \in DOMAIN exports,
           NEW s \in {"pending", "processing", "ready", "failed"}, SetStatus(i, s)
    PROVE  /\ RowsKept /\ DOMAIN exports' = DOMAIN exports
           /\ \A h \in DOMAIN exports : exports'[h].file = exports[h].file
  <1>1. /\ DOMAIN exports' = DOMAIN exports
        /\ exports'[i] = [exports[i] EXCEPT !.status = s]
        /\ \A h \in DOMAIN exports : h # i => exports'[h] = exports[h]
    BY StatusAfter
  <1>2. exports[i] \in ExportRow
    BY ExportRowAt DEF Typed
  <1>3. /\ exports'[i].cycle = exports[i].cycle
        /\ exports'[i].type = exports[i].type
        /\ exports'[i].version = exports[i].version
        /\ exports'[i].file = exports[i].file
    BY <1>1, <1>2 DEF ExportRow
  <1> HIDE DEF ExportRow
  <1> QED
    BY <1>1, <1>3 DEF RowsKept

LEMMA SteppedOrigin ==
    ASSUME Typed, NEW w \in CeleryWorker, NEW to, Step(w, to), TaskOrigin(w, to),
           NEW v \in CeleryWorker, NEW q \in job'[v]
    PROVE  TaskOrigin(v, q)
  BY Stepped, KeptOrigin

LEMMA EndedOrigin ==
    ASSUME Typed, NEW w \in CeleryWorker, Ended(w),
           NEW v \in CeleryWorker, NEW q \in job'[v]
    PROVE  TaskOrigin(v, q)
  <1>1. q \in job[v]
    BY DEF Ended, Typed, TypeOK
  <1> QED
    BY <1>1, KeptOrigin

LEMMA TaskEffect ==
    ASSUME Typed, NEW w \in CeleryWorker, TaskStep(w) \/ FaultStep(w)
    PROVE  TaskKept
  <1>1. ASSUME NEW i \in Row, NEW n \in 0 .. MaxRetries, Take(w, i, n)
        PROVE  TaskKept
    <2>1. PICK s \in ReadsAs(exports[i].cycle) :
              Step(w, [stage |-> "read", row |-> i, retry |-> n, status |-> s, lines |-> {}])
      BY <1>1 DEF Take
    <2>2. TaskOrigin(w, [stage |-> "read", row |-> i, retry |-> n, status |-> s, lines |-> {}])
      BY <2>1 DEF TaskOrigin
    <2>3. \A v \in CeleryWorker : \A q \in job'[v] : TaskOrigin(v, q)
      BY <2>1, <2>2, SteppedOrigin
    <2> QED
      BY <1>1, <2>3 DEF Take, TaskKept, RowsKept, FileOrigin
  <1>2. ASSUME NEW j \in job[w], Mark(w, j)
        PROVE  TaskKept
    <2> DEFINE m == [j EXCEPT !.stage = "marked"]
    <2>1. j.row \in DOMAIN exports /\ j \in Task
      BY JobAt
    <2>2. Step(w, m) /\ TaskOrigin(w, m)
      BY <1>2, <2>1 DEF Mark, Task, TaskOrigin
    <2> HIDE DEF m
    <2>3. \A v \in CeleryWorker : \A q \in job'[v] : TaskOrigin(v, q)
      BY <2>2, SteppedOrigin
    <2>4. /\ RowsKept /\ DOMAIN exports' = DOMAIN exports
          /\ \A h \in DOMAIN exports : exports'[h].file = exports[h].file
      BY <1>2, <2>1, StatusKept DEF Mark
    <2> QED
      BY <1>2, <2>3, <2>4 DEF Mark, TaskKept, FileOrigin
  <1>3. ASSUME NEW j \in job[w], Build(w, j)
        PROVE  TaskKept
    <2> DEFINE b == [j EXCEPT !.stage = "built", !.lines = {pay[exports[j.row].cycle]}]
    <2>1. j \in Task
      BY JobAt
    <2>2. Step(w, b) /\ TaskOrigin(w, b)
      BY <1>3, <2>1 DEF Build, Task, TaskOrigin
    <2> HIDE DEF b
    <2>3. \A v \in CeleryWorker : \A q \in job'[v] : TaskOrigin(v, q)
      BY <2>2, SteppedOrigin
    <2> QED
      BY <1>3, <2>3 DEF Build, TaskKept, RowsKept, FileOrigin
  <1>4. ASSUME NEW j \in job[w], Save(w, j)
        PROVE  TaskKept
    <2> DEFINE s == [j EXCEPT !.stage = "saved", !.lines = {}]
    <2>1. j \in Task /\ j.row \in DOMAIN exports /\ exports[j.row] \in ExportRow
      BY JobAt
    <2>2. Step(w, s) /\ TaskOrigin(w, s)
      BY <1>4, <2>1 DEF Save, Task, TaskOrigin
    <2> HIDE DEF s
    <2>3. \A v \in CeleryWorker : \A q \in job'[v] : TaskOrigin(v, q)
      BY <2>2, SteppedOrigin
    <2>4. /\ DOMAIN exports' = DOMAIN exports
          /\ exports'[j.row] =
               [exports[j.row] EXCEPT !.status = "ready", !.file = FileOf(j)]
          /\ \A h \in DOMAIN exports : h # j.row => exports'[h] = exports[h]
      BY <1>4, SaveType
    <2>5. /\ exports'[j.row].cycle = exports[j.row].cycle
          /\ exports'[j.row].type = exports[j.row].type
          /\ exports'[j.row].version = exports[j.row].version
          /\ exports'[j.row].file = FileOf(j)
      BY <2>1, <2>4 DEF ExportRow
    <2>6. RowsKept
      BY <2>4, <2>5 DEF RowsKept
    <2>7. \A i \in DOMAIN exports : FileOrigin(i)
      BY <2>4, <2>5 DEF FileOrigin
    <2> QED
      BY <1>4, <2>3, <2>4, <2>6, <2>7 DEF Save, TaskKept
  <1>5. ASSUME NEW j \in job[w], Finish(w, j) \/ Abandon(w, j)
        PROVE  TaskKept
    <2>1. \A v \in CeleryWorker : \A q \in job'[v] : TaskOrigin(v, q)
      BY <1>5, EndedOrigin DEF Finish, Abandon
    <2> QED
      BY <1>5, <2>1 DEF Finish, Abandon, TaskKept, RowsKept, FileOrigin
  <1>6. ASSUME NEW j \in job[w], Fail(w, j)
        PROVE  TaskKept
    <2>1. \A v \in CeleryWorker : \A q \in job'[v] : TaskOrigin(v, q)
      BY <1>6, EndedOrigin DEF Fail
    <2>2. /\ RowsKept /\ DOMAIN exports' = DOMAIN exports
          /\ \A h \in DOMAIN exports : exports'[h].file = exports[h].file
      BY <1>6, JobAt, StatusKept DEF Fail, AfterFailure
    <2> QED
      BY <1>6, <2>1, <2>2 DEF Fail, TaskKept, FileOrigin
  <1>7. ASSUME NEW j \in job[w], Redeliver(w, j)
        PROVE  TaskKept
    <2>1. \A v \in CeleryWorker : \A q \in job'[v] : TaskOrigin(v, q)
      BY <1>7, EndedOrigin, KeptOrigin DEF Redeliver
    <2> QED
      BY <1>7, <2>1 DEF Redeliver, TaskKept, RowsKept, FileOrigin
  <1> QED
    BY <1>1, <1>2, <1>3, <1>4, <1>5, <1>6, <1>7 DEF TaskStep, FaultStep

-----------------------------------------------------------------------------
(* What a request or a task has read of the status of its cycle still says *)
(* something of it, unless the cycle was opened again.                     *)

Known(c, s) ==
    /\ s = "locked" => Closed(c)
    /\ s = "approved" => phase[c] # "open" \/ c \in reworked

StatusInv ==
    /\ \A k \in Clerk : \A r \in request[k] :
          r.stage # "download" => Known(r.cycle, r.status) /\ Exportable(r.type, r.status)
    /\ \A w \in CeleryWorker : \A j \in job[w] : Known(exports[j.row].cycle, j.status)

LEMMA ReadIsKnown ==
    ASSUME Typed, NEW c \in Cycle, NEW s \in ReadsAs(c)
    PROVE  Known(c, s)
  BY DEF ReadsAs, Known, Closed, Typed, TypeOK

LEMMA KnownStays ==
    ASSUME Typed, NEW c \in Cycle, CycleKept(c), NEW s, Known(c, s)
    PROVE  Known(c, s)'
  BY DEF Typed, TypeOK, Known, CycleKept, Closed

LEMMA SameCycleVars ==
    ASSUME UNCHANGED cycleVars, NEW c, NEW s
    PROVE  Known(c, s)' <=> Known(c, s)
  BY DEF cycleVars, Known, Closed

LEMMA RequestCycle ==
    ASSUME Typed, NEW k \in Clerk, NEW r \in request[k]
    PROVE  r.cycle \in Cycle
  BY DEF Typed, TypeOK, PendingRequest, Response

LEMMA NextStatus ==
    ASSUME Typed, Typed', StatusInv, [Next]_vars
    PROVE  StatusInv'
  <1>1. CASE Close
    <2>1. \A c \in Cycle : CycleKept(c)
      BY <1>1, CloseEffect
    <2>2. UNCHANGED <<request, exports, job>>
      BY <1>1 DEF Close, taskVars
    <2> QED
      BY <2>1, <2>2, KnownStays, RequestCycle, JobAt DEF StatusInv
  <1>2. ASSUME NEW k \in Clerk, RequestStep(k)
        PROVE  StatusInv'
    <2>1. UNCHANGED cycleVars /\ UNCHANGED job /\ RowsKept
      BY <1>2, InsertEffect
    <2>2. ASSUME NEW h \in Clerk, NEW q \in request'[h], q.stage # "download"
          PROVE  Known(q.cycle, q.status) /\ Exportable(q.type, q.status)
      BY <1>2, <2>2, RequestEffect, ReadIsKnown DEF RequestOrigin, StatusInv, Advanced
    <2>3. ASSUME NEW w \in CeleryWorker, NEW j \in job'[w]
          PROVE  Known(exports'[j.row].cycle, j.status)
      BY <2>1, <2>3, JobAt DEF RowsKept, StatusInv
    <2> QED
      BY <2>1, <2>2, <2>3, SameCycleVars DEF StatusInv, Exportable
  <1>3. ASSUME NEW w \in CeleryWorker, TaskStep(w) \/ FaultStep(w)
        PROVE  StatusInv'
    <2>1. TaskKept
      BY <1>3, TaskEffect
    <2>2. ASSUME NEW v \in CeleryWorker, NEW q \in job'[v]
          PROVE  Known(exports'[q.row].cycle, q.status)
      <3>1. q.row \in DOMAIN exports
        BY <2>1, <2>2 DEF Typed, RowsExist, TaskKept
      <3>2. exports[q.row].cycle \in Cycle /\ exports'[q.row].cycle = exports[q.row].cycle
        BY <2>1, <3>1, ExportRowAt DEF Typed, TaskKept, RowsKept, ExportRow
      <3>3. TaskOrigin(v, q)
        BY <2>1 DEF TaskKept
      <3> QED
        BY <3>2, <3>3, ReadIsKnown DEF TaskOrigin, StatusInv
    <2> QED
      BY <2>1, <2>2, SameCycleVars DEF TaskKept, StatusInv
  <1>4. CASE UNCHANGED vars
    BY <1>4, SameCycleVars DEF vars, taskVars, StatusInv
  <1> QED
    BY <1>1, <1>2, <1>3, <1>4 DEF Next

-----------------------------------------------------------------------------
(* What an artifact that says it is final was built from. *)

Fresh(c, p) == phase[c] # "void" /\ c \notin reworked => p \in approved[c]

FinalInv ==
    /\ \A c \in Cycle : phase[c] \in {"approved", "locked"} => pay[c] \in approved[c]
    /\ \A k \in Clerk : \A r \in request[k] :
          r.stage = "download" /\ SaysFinal(r.file) => Fresh(r.cycle, r.lines)
    /\ \A w \in CeleryWorker : \A j \in job[w] : \A p \in j.lines :
          j.status \in {"approved", "locked"} => Fresh(exports[j.row].cycle, p)
    /\ \A i \in DOMAIN exports : \A f \in exports[i].file :
          SaysFinal(f.content) => Fresh(exports[i].cycle, f.of)

LEMMA FinalStatus ==
    ASSUME NEW t \in ExportType, NEW s \in ReadStatus, NEW p,
           SaysFinal(Artifact(t, s, p))
    PROVE  s \in {"approved", "locked"}
  <1>1. t \in {"wps", "report_html", "report_pdf", "report_excel"}
    BY ExportTypeAssumption
  <1>2. CASE t = "wps"
    BY <1>2 DEF Artifact, WpsFile, SaysFinal
  <1>3. CASE t = "report_html"
    BY <1>3 DEF Artifact, HtmlReport, SaysFinal, FinalNote
  <1>4. CASE t = "report_pdf"
    BY <1>4 DEF Artifact, PdfReport, SaysFinal, ReadStatus
  <1>5. CASE t = "report_excel"
    BY <1>5 DEF Artifact, ExcelReport, SaysFinal, ReadStatus
  <1> QED
    BY <1>1, <1>2, <1>3, <1>4, <1>5

LEMMA FreshStays ==
    ASSUME NEW c \in Cycle, CycleKept(c), NEW p, Fresh(c, p)
    PROVE  Fresh(c, p)'
  BY DEF CycleKept, Fresh

LEMMA FreshNow ==
    ASSUME Typed, FinalInv, NEW c \in Cycle, NEW s \in {"approved", "locked"}, Known(c, s)
    PROVE  Fresh(c, pay[c])
  BY DEF Typed, TypeOK, FinalInv, Known, Closed, Fresh

LEMMA SameFresh ==
    ASSUME UNCHANGED cycleVars, NEW c, NEW p
    PROVE  Fresh(c, p)' <=> Fresh(c, p)
  BY DEF cycleVars, Fresh

LEMMA NextFinal ==
    ASSUME Typed, Typed', StatusInv, FinalInv, [Next]_vars
    PROVE  FinalInv'
  <1>1. CASE Close
    <2>1. \A c \in Cycle : CycleKept(c)
      BY <1>1, CloseEffect
    <2>2. UNCHANGED <<request, exports, job>>
      BY <1>1 DEF Close, taskVars
    <2>3. \A c \in Cycle : phase'[c] \in {"approved", "locked"} => pay'[c] \in approved'[c]
      BY <2>1 DEF CycleKept, FinalInv
    <2>4. \A i \in DOMAIN exports : exports[i].cycle \in Cycle
      BY ExportRowAt DEF Typed, ExportRow
    <2> QED
      BY <2>1, <2>2, <2>3, <2>4, FreshStays, RequestCycle, JobAt DEF FinalInv
  <1>2. ASSUME NEW k \in Clerk, RequestStep(k)
        PROVE  FinalInv'
    <2>1. /\ UNCHANGED cycleVars /\ UNCHANGED job /\ RowsKept
          /\ \A i \in DOMAIN exports : exports'[i] = exports[i]
          /\ \A i \in DOMAIN exports' \ DOMAIN exports : exports'[i].file = {}
      <3>1. \A r : NewRow(r).file = {}
        BY DEF NewRow
      <3>2. /\ UNCHANGED cycleVars /\ UNCHANGED job /\ RowsKept
            /\ \A i \in DOMAIN exports : exports'[i] = exports[i]
            /\ \/ exports' = exports
               \/ \E r \in request[k] :
                     /\ DOMAIN exports' = DOMAIN exports \cup {Len(exports) + 1}
                     /\ exports'[Len(exports) + 1] = NewRow(r)
        BY <1>2, InsertEffect
      <3> QED
        BY <3>1, <3>2
    <2>2. ASSUME NEW h \in Clerk, NEW q \in request'[h],
                 q.stage = "download", SaysFinal(q.file)
          PROVE  Fresh(q.cycle, q.lines)
      <3>1. CASE q \in request[h]
        BY <2>2, <3>1 DEF FinalInv
      <3>2. CASE q \notin request[h]
        <4>1. PICK r \in request[h] :
                  /\ r.stage # "download" /\ q.cycle = r.cycle
                  /\ q.lines = pay[r.cycle]
                  /\ q.file = Artifact(r.type, r.status, pay[r.cycle])
          BY <1>2, <2>2, <3>2, RequestEffect DEF RequestOrigin
        <4>2. r \in PendingRequest
          BY <4>1, PendingType DEF Typed
        <4>3. r.cycle \in Cycle /\ r.type \in ExportType /\ r.status \in ReadStatus
          BY <4>2 DEF PendingRequest
        <4>4. r.status \in {"approved", "locked"}
          BY <2>2, <4>1, <4>3, FinalStatus
        <4> QED
          BY <4>1, <4>3, <4>4, FreshNow DEF StatusInv
      <3> QED
        BY <3>1, <3>2
    <2>3. \A w \in CeleryWorker : \A j \in job'[w] : \A p \in j.lines :
             j.status \in {"approved", "locked"} => Fresh(exports'[j.row].cycle, p)
      BY <2>1, JobAt DEF RowsKept, FinalInv
    <2>4. \A i \in DOMAIN exports' : \A f \in exports'[i].file :
             SaysFinal(f.content) => Fresh(exports'[i].cycle, f.of)
      BY <2>1 DEF FinalInv
    <2>5. \A c \in Cycle : phase'[c] \in {"approved", "locked"} => pay'[c] \in approved'[c]
      BY <2>1 DEF cycleVars, FinalInv
    <2> QED
      BY <2>1, <2>2, <2>3, <2>4, <2>5, SameFresh DEF FinalInv
  <1>3. ASSUME NEW w \in CeleryWorker, TaskStep(w) \/ FaultStep(w)
        PROVE  FinalInv'
    <2>1. TaskKept
      BY <1>3, TaskEffect
    <2>2. ASSUME NEW v \in CeleryWorker, NEW q \in job'[v], NEW p \in q.lines,
                 q.status \in {"approved", "locked"}
          PROVE  Fresh(exports'[q.row].cycle, p)
      <3>1. PICK j \in job[v] :
                /\ q.row = j.row
                /\ q.status = j.status
                /\ q.lines \in {{}, j.lines, {pay[exports[j.row].cycle]}}
        BY <2>1, <2>2 DEF TaskKept, TaskOrigin
      <3>2. j.row \in DOMAIN exports /\ exports[j.row].cycle \in Cycle
        BY JobAt
      <3>3. exports'[j.row].cycle = exports[j.row].cycle
        BY <2>1, <3>2 DEF TaskKept, RowsKept
      <3>4. Fresh(exports[j.row].cycle, pay[exports[j.row].cycle])
        BY <2>2, <3>1, <3>2, FreshNow DEF StatusInv
      <3> QED
        BY <2>2, <3>1, <3>3, <3>4 DEF FinalInv
    <2>3. ASSUME NEW i \in DOMAIN exports, NEW f \in exports'[i].file, SaysFinal(f.content)
          PROVE  Fresh(exports'[i].cycle, f.of)
      <3>1. exports'[i].cycle = exports[i].cycle
        BY <2>1 DEF TaskKept, RowsKept
      <3>2. CASE exports'[i].file = exports[i].file
        BY <2>3, <3>1, <3>2 DEF FinalInv
      <3>3. ASSUME NEW v \in CeleryWorker, NEW j \in job[v], j.row = i,
                   exports'[i].file = FileOf(j)
            PROVE  Fresh(exports'[i].cycle, f.of)
        <4>1. PICK p \in j.lines :
                  f = [of |-> p, content |-> Artifact(exports[i].type, j.status, p)]
          BY <2>3, <3>3 DEF FileOf
        <4>2. exports[i].type \in ExportType /\ j.status \in ReadStatus
          BY ExportRowAt, JobAt DEF Typed, ExportRow, Task
        <4>3. f.of = p /\ f.content = Artifact(exports[i].type, j.status, p)
          BY <4>1
        <4>4. j.status \in {"approved", "locked"}
          BY <2>3, <4>2, <4>3, FinalStatus
        <4> QED
          BY <3>1, <3>3, <4>3, <4>4 DEF FinalInv
      <3> QED
        BY <2>1, <3>2, <3>3 DEF TaskKept, FileOrigin
    <2>4. \A c \in Cycle : phase'[c] \in {"approved", "locked"} => pay'[c] \in approved'[c]
      BY <2>1 DEF TaskKept, cycleVars, FinalInv
    <2> QED
      BY <2>1, <2>2, <2>3, <2>4, SameFresh DEF TaskKept, FinalInv
  <1>4. CASE UNCHANGED vars
    <2>1. UNCHANGED <<cycleVars, request, exports, job>>
      BY <1>4 DEF vars, taskVars
    <2> QED
      BY <2>1, SameFresh DEF cycleVars, FinalInv
  <1> QED
    BY <1>1, <1>2, <1>3, <1>4 DEF Next

-----------------------------------------------------------------------------
(* WPS files: only locked cycles have them, and their pay stays. *)

LockedPay(c, p) == phase[c] # "void" => p = pay[c]

WpsInv ==
    \A i \in DOMAIN exports : exports[i].type = "wps" =>
        /\ Closed(exports[i].cycle)
        /\ \A f \in exports[i].file : LockedPay(exports[i].cycle, f.of)
        /\ \A w \in CeleryWorker : \A j \in job[w] : \A p \in j.lines :
              j.row = i => LockedPay(exports[i].cycle, p)

LEMMA LockedPayStays ==
    ASSUME Typed, NEW c \in Cycle, CycleKept(c), Closed(c), NEW p, LockedPay(c, p)
    PROVE  Closed(c)' /\ LockedPay(c, p)'
  BY DEF CycleKept, Closed, LockedPay

LEMMA SameLockedPay ==
    ASSUME UNCHANGED cycleVars, NEW c, NEW p
    PROVE  (LockedPay(c, p)' <=> LockedPay(c, p)) /\ (Closed(c)' <=> Closed(c))
  BY DEF cycleVars, LockedPay, Closed

LEMMA NextWps ==
    ASSUME Typed, Typed', StatusInv, WpsInv, [Next]_vars
    PROVE  WpsInv'
  <1>1. CASE Close
    <2>1. \A c \in Cycle : CycleKept(c)
      BY <1>1, CloseEffect
    <2>2. UNCHANGED <<exports, job>>
      BY <1>1 DEF Close, taskVars
    <2>3. \A i \in DOMAIN exports : exports[i].cycle \in Cycle
      BY ExportRowAt DEF Typed, ExportRow
    <2>4. \A c \in Cycle : Closed(c) => Closed(c)'
      BY <2>1 DEF CycleKept
    <2> QED
      BY <2>1, <2>2, <2>3, <2>4, LockedPayStays DEF WpsInv
  <1>2. ASSUME NEW k \in Clerk, RequestStep(k)
        PROVE  WpsInv'
    <2>1. /\ UNCHANGED cycleVars /\ UNCHANGED job
          /\ \A i \in DOMAIN exports : exports'[i] = exports[i]
          /\ \/ exports' = exports
             \/ \E r \in request[k] :
                   /\ Insert(k, r)
                   /\ DOMAIN exports' = DOMAIN exports \cup {Len(exports) + 1}
                   /\ Len(exports) + 1 \notin DOMAIN exports
                   /\ exports'[Len(exports) + 1] = NewRow(r)
      BY <1>2, InsertEffect
    <2>2. ASSUME NEW i \in DOMAIN exports' \ DOMAIN exports, exports'[i].type = "wps"
          PROVE  Closed(exports'[i].cycle) /\ exports'[i].file = {}
      <3>1. PICK r \in request[k] : Insert(k, r) /\ exports'[i] = NewRow(r)
        BY <2>1, <2>2
      <3>2. r.stage # "download" /\ exports'[i].cycle = r.cycle
            /\ exports'[i].type = r.type /\ exports'[i].file = {}
        BY <3>1 DEF Insert, NewRow
      <3> QED
        BY <2>2, <3>2 DEF StatusInv, Exportable, Known
    <2>3. \A w \in CeleryWorker : \A j \in job[w] : j.row \in DOMAIN exports
      BY JobAt
    <2> QED
      BY <2>1, <2>2, <2>3, SameLockedPay DEF WpsInv
  <1>3. ASSUME NEW w \in CeleryWorker, TaskStep(w) \/ FaultStep(w)
        PROVE  WpsInv'
    <2>1. TaskKept
      BY <1>3, TaskEffect
    <2>2. ASSUME NEW i \in DOMAIN exports, exports[i].type = "wps",
                 NEW v \in CeleryWorker, NEW q \in job'[v], NEW p \in q.lines, q.row = i
          PROVE  LockedPay(exports[i].cycle, p)
      <3>1. PICK j \in job[v] :
                /\ q.row = j.row
                /\ q.lines \in {{}, j.lines, {pay[exports[j.row].cycle]}}
        BY <2>1, <2>2 DEF TaskKept, TaskOrigin
      <3> QED
        BY <2>2, <3>1 DEF WpsInv, LockedPay
    <2>3. ASSUME NEW i \in DOMAIN exports, exports[i].type = "wps", NEW f \in exports'[i].file
          PROVE  LockedPay(exports[i].cycle, f.of)
      <3>1. CASE exports'[i].file = exports[i].file
        BY <2>3, <3>1 DEF WpsInv
      <3>2. ASSUME NEW v \in CeleryWorker, NEW j \in job[v], j.row = i,
                   exports'[i].file = FileOf(j)
            PROVE  LockedPay(exports[i].cycle, f.of)
        <4>1. PICK p \in j.lines :
                  f = [of |-> p, content |-> Artifact(exports[j.row].type, j.status, p)]
          BY <2>3, <3>2 DEF FileOf
        <4>2. f.of = p
          BY <4>1
        <4> QED
          BY <2>3, <3>2, <4>2 DEF WpsInv
      <3> QED
        BY <2>1, <3>1, <3>2 DEF TaskKept, FileOrigin
    <2> QED
      BY <2>1, <2>2, <2>3, SameLockedPay DEF TaskKept, RowsKept, WpsInv
  <1>4. CASE UNCHANGED vars
    <2>1. UNCHANGED <<cycleVars, exports, job>>
      BY <1>4 DEF vars, taskVars
    <2> QED
      BY <2>1, SameLockedPay DEF WpsInv
  <1> QED
    BY <1>1, <1>2, <1>3, <1>4 DEF Next

-----------------------------------------------------------------------------
(* The numbering: no request counts more exports than there are. *)

CountInv ==
    \A k \in Clerk : \A r \in request[k] :
        r.stage = "insert" => r.version \in 1 .. NextVersion(r.cycle, r.type)

VersionInv == VersionsAreSequential /\ CountInv

NextVersionIs == \A c, t : NextVersion(c, t) = 1 + Cardinality(Of(c, t))

LEMMA Counted == NextVersionIs
  BY DEF NextVersionIs, NextVersion, Of

LEMMA SameNumbers ==
    ASSUME Typed, VersionsAreSequential, RowsKept, DOMAIN exports' = DOMAIN exports
    PROVE  /\ VersionsAreSequential'
           /\ \A c, t : NextVersion(c, t)' = NextVersion(c, t)
  <1>1. \A c, t : Of(c, t)' = Of(c, t)
    BY DEF Of, RowsKept
  <1>2. \A c, t : {exports'[i].version : i \in Of(c, t)} = {exports[i].version : i \in Of(c, t)}
    BY DEF Of, RowsKept
  <1>3. VersionsAreSequential'
    BY <1>1, <1>2 DEF VersionsAreSequential
  <1>4. \A c, t : NextVersion(c, t)' = 1 + Cardinality(Of(c, t)')
    BY DEF NextVersion, Of
  <1> QED
    BY <1>1, <1>3, <1>4, Counted DEF NextVersionIs

LEMMA InsertNumbers ==
    ASSUME Typed, VersionInv, NEW k \in Clerk, NEW r \in request[k], Insert(k, r),
           \A i \in DOMAIN exports : exports'[i] = exports[i],
           DOMAIN exports' = DOMAIN exports \cup {Len(exports) + 1},
           Len(exports) + 1 \notin DOMAIN exports,
           exports'[Len(exports) + 1] = NewRow(r)
    PROVE  /\ VersionsAreSequential'
           /\ \A c, t : NextVersion(c, t)' \in Nat /\ NextVersion(c, t) \leq NextVersion(c, t)'
  <1> DEFINE n == Len(exports) + 1
             here(c, t) == c = r.cycle /\ t = r.type
  <1>1. /\ exports'[n].cycle = r.cycle /\ exports'[n].type = r.type
        /\ exports'[n].version = r.version
    BY DEF NewRow
  <1>2. \A c, t : Of(c, t)' = IF here(c, t) THEN Of(c, t) \cup {n} ELSE Of(c, t)
    BY <1>1 DEF Of
  <1>3. \A c, t : IsFiniteSet(Of(c, t)) /\ Cardinality(Of(c, t)) \in Nat /\ n \notin Of(c, t)
    <2>1. \A c, t : IsFiniteSet(Of(c, t)) /\ Cardinality(Of(c, t)) \in Nat
      BY OfFinite, FS_CardinalityType DEF Typed
    <2>2. \A c, t : n \notin Of(c, t)
      BY DEF Of
    <2> QED
      BY <2>1, <2>2
  <1>4. \A c, t : Cardinality(Of(c, t)') =
                    IF here(c, t) THEN Cardinality(Of(c, t)) + 1 ELSE Cardinality(Of(c, t))
    BY <1>2, <1>3, FS_AddElement
  <1>5. \A c, t : NextVersion(c, t)' = 1 + Cardinality(Of(c, t)')
    BY DEF NextVersion, Of
  <1>6. r.cycle \in Cycle /\ r.type \in ExportType
    BY PendingType DEF Insert, Typed, PendingRequest
  <1>7. r.version = Cardinality(Of(r.cycle, r.type)) + 1
    <2> DEFINE N == Cardinality(Of(r.cycle, r.type))
    <2>1. r.version \in 1 .. 1 + N
      BY Counted DEF NextVersionIs, VersionInv, CountInv, Insert
    <2>2. r.version \notin {exports[i].version : i \in Of(r.cycle, r.type)}
      BY DEF Insert, Taken, Of
    <2>3. {exports[i].version : i \in Of(r.cycle, r.type)} = 1 .. N
      BY <1>6 DEF VersionInv, VersionsAreSequential
    <2>4. N \in Nat
      BY <1>3
    <2> HIDE DEF N
    <2>5. r.version \in 1 .. 1 + N /\ r.version \notin 1 .. N
      BY <2>1, <2>2, <2>3
    <2>6. r.version = N + 1
      BY <2>4, <2>5
    <2> QED
      BY <2>6 DEF N
  <1>8. ASSUME NEW c \in Cycle, NEW t \in ExportType
        PROVE  {exports'[i].version : i \in Of(c, t)'} = 1 .. Cardinality(Of(c, t)')
    <2> DEFINE N == Cardinality(Of(c, t))
               V == {exports[i].version : i \in Of(c, t)}
    <2>1. V = 1 .. N /\ N \in Nat
      BY <1>3 DEF VersionInv, VersionsAreSequential
    <2>2. \A i \in Of(c, t) : exports'[i].version = exports[i].version
      BY DEF Of
    <2>3. CASE here(c, t)
      <3>1. {exports'[i].version : i \in Of(c, t)'} = V \cup {r.version}
        BY <1>1, <1>2, <2>2, <2>3
      <3>2. r.version = N + 1 /\ Cardinality(Of(c, t)') = N + 1
        BY <1>4, <1>7, <2>3
      <3> HIDE DEF N, V
      <3>3. (1 .. N) \cup {N + 1} = 1 .. N + 1
        BY <2>1
      <3> QED
        BY <2>1, <3>1, <3>2, <3>3
    <2>4. CASE ~here(c, t)
      <3>1. {exports'[i].version : i \in Of(c, t)'} = V
        BY <1>2, <2>2, <2>4
      <3> QED
        BY <1>4, <2>1, <2>4, <3>1
    <2> QED
      BY <2>3, <2>4
  <1>9. VersionsAreSequential'
    BY <1>8 DEF VersionsAreSequential
  <1>10. \A c, t : NextVersion(c, t)' \in Nat /\ NextVersion(c, t) \leq NextVersion(c, t)'
    BY <1>3, <1>4, <1>5, Counted DEF NextVersionIs
  <1> QED
    BY <1>9, <1>10

LEMMA NextVersions ==
    ASSUME Typed, Typed', VersionInv, [Next]_vars
    PROVE  VersionInv'
  <1>1. ASSUME UNCHANGED request, RowsKept, DOMAIN exports' = DOMAIN exports
        PROVE  VersionInv'
    BY <1>1, SameNumbers DEF VersionInv, CountInv
  <1>2. ASSUME NEW k \in Clerk, RequestStep(k)
        PROVE  VersionInv'
    <2>1. /\ VersionsAreSequential'
          /\ \A c, t : NextVersion(c, t)' \in Nat /\ NextVersion(c, t) \leq NextVersion(c, t)'
      <3>1. CASE exports' = exports
        <4>1. RowsKept /\ DOMAIN exports' = DOMAIN exports
          BY <3>1 DEF RowsKept
        <4>2. \A c, t : NextVersion(c, t) \in Nat
          BY OfFinite DEF Typed
        <4> QED
          BY <4>1, <4>2, SameNumbers DEF VersionInv
      <3>2. CASE exports' # exports
        BY <1>2, <3>2, InsertEffect, InsertNumbers
      <3> QED
        BY <3>1, <3>2
    <2>2. ASSUME NEW h \in Clerk, NEW q \in request'[h], q.stage = "insert"
          PROVE  q.version \in 1 .. NextVersion(q.cycle, q.type)
      <3>1. NextVersion(q.cycle, q.type) \in Nat \ {0}
        BY OfFinite DEF Typed
      <3> QED
        BY <1>2, <2>2, <3>1, RequestEffect DEF RequestOrigin, Advanced, VersionInv, CountInv
    <2>3. \A c, t : NextVersion(c, t) \in Nat
      BY OfFinite DEF Typed
    <2> QED
      BY <2>1, <2>2, <2>3 DEF VersionInv, CountInv
  <1>3. CASE Close \/ UNCHANGED vars
    BY <1>1, <1>3 DEF Close, vars, taskVars, RowsKept
  <1>4. ASSUME NEW w \in CeleryWorker, TaskStep(w) \/ FaultStep(w)
        PROVE  VersionInv'
    BY <1>1, <1>4, TaskEffect DEF TaskKept
  <1> QED
    BY <1>2, <1>3, <1>4 DEF Next

-----------------------------------------------------------------------------
(* Someone is at work on every export that is not settled. *)

Working(i) == \E w \in CeleryWorker : \E j \in job[w] : j.row = i /\ j.stage # "saved"

Waiting(i) == \E n \in 0 .. MaxRetries : messages[i][n] > 0

LEMMA AttendedIs == \A i : Attended(i) <=> Waiting(i) \/ Working(i)
  BY DEF Attended, Waiting, Working

LEMMA QueuedWaits ==
    ASSUME Typed, NEW i \in Row, NEW n \in 0 .. MaxRetries, messages' = Queued(i, n)
    PROVE  Waiting(i)' /\ \A h \in Row : Waiting(h) => Waiting(h)'
  <1> DEFINE q == [messages[i] EXCEPT ![n] = @ + 1]
  <1>1. messages \in [Row -> [0 .. MaxRetries -> Nat]]
    BY DEF Typed, TypeOK
  <1>2. /\ q[n] > 0
        /\ \A m \in 0 .. MaxRetries : messages[i][m] > 0 => q[m] > 0
    BY <1>1, MaxRetriesAssumption
  <1>3. messages' = [messages EXCEPT ![i] = q]
    BY DEF Queued
  <1> HIDE DEF q
  <1> QED
    BY <1>1, <1>2, <1>3 DEF Waiting

OneTask == \A w \in CeleryWorker : \A i, j \in job[w] : i = j

LEMMA NextOneTask ==
    ASSUME Typed, OneTask, [Next]_vars
    PROVE  OneTask'
  <1>1. ASSUME NEW w \in CeleryWorker, NEW to, Step(w, to)
        PROVE  OneTask'
    BY <1>1 DEF Step, OneTask, Typed, TypeOK
  <1>2. ASSUME NEW w \in CeleryWorker, Ended(w)
        PROVE  OneTask'
    BY <1>2 DEF Ended, OneTask, Typed, TypeOK
  <1>3. CASE UNCHANGED job
    BY <1>3 DEF OneTask
  <1>4. ASSUME NEW k \in Clerk, RequestStep(k)
        PROVE  UNCHANGED job
    BY <1>4, InsertEffect
  <1>5. ASSUME NEW w \in CeleryWorker, TaskStep(w) \/ FaultStep(w)
        PROVE  OneTask'
    BY <1>1, <1>2, <1>3, <1>5
       DEF TaskStep, FaultStep, Take, Mark, Build, Save, Finish, Fail, Abandon, Redeliver
  <1>6. CASE Close \/ UNCHANGED vars
    BY <1>3, <1>6 DEF Close, vars, taskVars
  <1> QED
    BY <1>3, <1>4, <1>5, <1>6 DEF Next

(* A worker that ends its task leaves the other workers at theirs. *)
LEMMA OthersWork ==
    ASSUME Typed, OneTask, NEW w \in CeleryWorker, NEW j \in job[w], NEW J,
           job' = [job EXCEPT ![w] = J], NEW i, i # j.row, Working(i)
    PROVE  Working(i)'
  BY DEF Typed, TypeOK, OneTask, Working

LEMMA StillWorks ==
    ASSUME Typed, OneTask, NEW w \in CeleryWorker, NEW j \in job[w], NEW to,
           Step(w, to), to.row = j.row, to.stage # "saved"
    PROVE  Working(j.row)' /\ \A i : Working(i) => Working(i)'
  BY DEF Typed, TypeOK, OneTask, Working, Step

LEMMA NextUnsettled ==
    ASSUME Typed, Typed', OneTask, UnsettledIsAttended, [Next]_vars
    PROVE  UnsettledIsAttended'
  <1>1. ASSUME NEW i \in DOMAIN exports',
               \/ Settled(i)'
               \/ Waiting(i)' \/ Working(i)'
               \/ i \in abandoned'
        PROVE  Settled(i)' \/ Attended(i)' \/ i \in abandoned'
    BY <1>1 DEF Attended, Waiting, Working
  <1>2. \A i \in DOMAIN exports : Settled(i) \/ Waiting(i) \/ Working(i) \/ i \in abandoned
    BY AttendedIs DEF UnsettledIsAttended
  <1>3. \A i \in DOMAIN exports : i \in Row
    BY ExportRowAt DEF Typed
  <1> SUFFICES ASSUME NEW i \in DOMAIN exports'
               PROVE  Settled(i)' \/ Waiting(i)' \/ Working(i)' \/ i \in abandoned'
    BY <1>1 DEF UnsettledIsAttended
  <1>4. CASE UNCHANGED <<exports, messages, job, abandoned>>
    BY <1>2, <1>4 DEF Settled, Waiting, Working
  <1>5. ASSUME NEW k \in Clerk, NEW r \in request[k], Insert(k, r)
        PROVE  Settled(i)' \/ Waiting(i)' \/ Working(i)' \/ i \in abandoned'
    <2>1. /\ UNCHANGED job
          /\ DOMAIN exports' \subseteq DOMAIN exports \cup {Len(exports) + 1}
          /\ \A h \in DOMAIN exports : exports'[h] = exports[h]
      BY <1>5, InsertEffect DEF RequestStep
    <2>2. Len(exports) + 1 \in Row /\ 0 \in 0 .. MaxRetries
      BY <1>5, LenProperties, MaxExportsAssumption, MaxRetriesAssumption
         DEF Insert, Typed, TypeOK, Row
    <2>3. abandoned \subseteq abandoned'
      BY <1>5 DEF Insert
    <2>4. CASE messages' = Queued(Len(exports) + 1, 0)
      BY <1>2, <1>3, <2>1, <2>2, <2>3, <2>4, QueuedWaits DEF Settled, Working
    <2>5. CASE UNCHANGED messages /\ abandoned' = abandoned \cup {Len(exports) + 1}
      BY <1>2, <2>1, <2>3, <2>5 DEF Settled, Working, Waiting
    <2> QED
      BY <1>5, <2>4, <2>5 DEF Insert
  <1>6. ASSUME NEW w \in CeleryWorker, NEW h \in Row, NEW n \in 0 .. MaxRetries, Take(w, h, n)
        PROVE  Settled(i)' \/ Waiting(i)' \/ Working(i)' \/ i \in abandoned'
    <2>1. PICK s : Step(w, [stage |-> "read", row |-> h, retry |-> n, status |-> s,
                            lines |-> {}])
      BY <1>6 DEF Take
    <2> DEFINE t == [stage |-> "read", row |-> h, retry |-> n, status |-> s, lines |-> {}]
    <2>4. t.row = h /\ t.stage # "saved" /\ Step(w, t)
      BY <2>1
    <2> HIDE DEF t
    <2>2. Working(h)' /\ \A g : Working(g) => Working(g)'
      BY <1>6, <2>4 DEF Take, Step, Working, Typed, TypeOK
    <2>3. \A g \in Row : g # h /\ Waiting(g) => Waiting(g)'
      BY <1>6 DEF Take, Waiting, Typed, TypeOK
    <2> QED
      BY <1>2, <1>3, <1>6, <2>2, <2>3 DEF Take, Settled
  <1>7. ASSUME NEW w \in CeleryWorker, NEW j \in job[w], Mark(w, j)
        PROVE  Settled(i)' \/ Waiting(i)' \/ Working(i)' \/ i \in abandoned'
    <2> DEFINE m == [j EXCEPT !.stage = "marked"]
    <2>1. j \in Task /\ j.row \in DOMAIN exports
      BY JobAt
    <2>2. Step(w, m) /\ m.row = j.row /\ m.stage # "saved"
      BY <1>7, <2>1 DEF Mark, Task
    <2> HIDE DEF m
    <2>3. Working(j.row)' /\ \A h : Working(h) => Working(h)'
      BY <2>2, StillWorks
    <2>4. /\ DOMAIN exports' = DOMAIN exports
          /\ \A h \in DOMAIN exports : h # j.row => exports'[h] = exports[h]
      BY <1>7, <2>1, StatusAfter DEF Mark
    <2> QED
      BY <1>2, <1>7, <2>3, <2>4 DEF Mark, Settled, Waiting
  <1>8. ASSUME NEW w \in CeleryWorker, NEW j \in job[w], Build(w, j)
        PROVE  Settled(i)' \/ Waiting(i)' \/ Working(i)' \/ i \in abandoned'
    <2> DEFINE b == [j EXCEPT !.stage = "built", !.lines = {pay[exports[j.row].cycle]}]
    <2>1. j \in Task
      BY JobAt
    <2>2. Step(w, b) /\ b.row = j.row /\ b.stage # "saved"
      BY <1>8, <2>1 DEF Build, Task
    <2> HIDE DEF b
    <2>3. \A h : Working(h) => Working(h)'
      BY <2>2, StillWorks
    <2> QED
      BY <1>2, <1>8, <2>3 DEF Build, Settled, Waiting
  <1>9. ASSUME NEW w \in CeleryWorker, NEW j \in job[w], Save(w, j)
        PROVE  Settled(i)' \/ Waiting(i)' \/ Working(i)' \/ i \in abandoned'
    <2>1. /\ DOMAIN exports' = DOMAIN exports
          /\ exports'[j.row] =
               [exports[j.row] EXCEPT !.status = "ready", !.file = FileOf(j)]
          /\ \A h \in DOMAIN exports : h # j.row => exports'[h] = exports[h]
      BY <1>9, SaveType
    <2>2. j.row \in DOMAIN exports /\ exports[j.row] \in ExportRow
      BY JobAt
    <2>3. exports'[j.row].status = "ready"
      BY <2>1, <2>2 DEF ExportRow
    <2>4. \A h : h # j.row /\ Working(h) => Working(h)'
      BY <1>9, OthersWork DEF Save, Step
    <2> QED
      BY <1>2, <1>9, <2>1, <2>3, <2>4 DEF Save, Settled, Waiting
  <1>10. ASSUME NEW w \in CeleryWorker, NEW j \in job[w], Finish(w, j)
         PROVE  Settled(i)' \/ Waiting(i)' \/ Working(i)' \/ i \in abandoned'
    <2>1. \A h : Working(h) => Working(h)'
      BY <1>10 DEF Finish, Ended, Working, OneTask, Typed, TypeOK
    <2> QED
      BY <1>2, <1>10, <2>1 DEF Finish, Settled, Waiting
  <1>11. ASSUME NEW w \in CeleryWorker, NEW j \in job[w], Fail(w, j)
         PROVE  Settled(i)' \/ Waiting(i)' \/ Working(i)' \/ i \in abandoned'
    <2>1. j.row \in DOMAIN exports /\ j.row \in Row /\ j.retry \in 0 .. MaxRetries
          /\ exports[j.row] \in ExportRow
      BY JobAt
    <2>2. /\ DOMAIN exports' = DOMAIN exports
          /\ exports'[j.row] = [exports[j.row] EXCEPT !.status = "failed"]
          /\ \A h \in DOMAIN exports : h # j.row => exports'[h] = exports[h]
      BY <1>11, <2>1, StatusAfter DEF Fail, AfterFailure
    <2>3. exports'[j.row].status = "failed"
      BY <2>1, <2>2 DEF ExportRow
    <2>4. \A h : h # j.row /\ Working(h) => Working(h)'
      BY <1>11, OthersWork DEF Fail, Ended
    <2>5. \A h \in Row : Waiting(h) => Waiting(h)'
      <3>1. CASE messages' = messages
        BY <3>1 DEF Waiting
      <3>2. CASE j.retry < MaxRetries /\ messages' = Queued(j.row, j.retry + 1)
        <4>1. j.retry + 1 \in 0 .. MaxRetries
          BY <2>1, <3>2, MaxRetriesAssumption
        <4> QED
          BY <2>1, <3>2, <4>1, QueuedWaits
      <3> QED
        BY <1>11, <3>1, <3>2 DEF Fail, Retried
    <2> QED
      BY <1>2, <1>3, <1>11, <2>2, <2>3, <2>4, <2>5 DEF Fail, Settled
  <1>12. ASSUME NEW w \in CeleryWorker, NEW j \in job[w], Abandon(w, j)
         PROVE  Settled(i)' \/ Waiting(i)' \/ Working(i)' \/ i \in abandoned'
    <2>1. \A h : h # j.row /\ Working(h) => Working(h)'
      BY <1>12, OthersWork DEF Abandon, Ended
    <2> QED
      BY <1>2, <1>12, <2>1 DEF Abandon, Settled, Waiting
  <1>13. ASSUME NEW w \in CeleryWorker, NEW j \in job[w], Redeliver(w, j)
         PROVE  Settled(i)' \/ Waiting(i)' \/ Working(i)' \/ i \in abandoned'
    <2>1. j.row \in Row /\ j.retry \in 0 .. MaxRetries
      BY JobAt
    <2>2. Waiting(j.row)' /\ \A h \in Row : Waiting(h) => Waiting(h)'
      BY <1>13, <2>1, QueuedWaits DEF Redeliver
    <2>3. \A h : h # j.row /\ Working(h) => Working(h)'
      BY <1>13, OthersWork DEF Redeliver, Ended, Working
    <2> QED
      BY <1>2, <1>3, <1>13, <2>2, <2>3 DEF Redeliver, Settled
  <1>14. CASE Close
    BY <1>4, <1>14 DEF Close, taskVars
  <1>15. ASSUME NEW k \in Clerk, RequestStep(k), ~\E r \in request[k] : Insert(k, r)
         PROVE  UNCHANGED <<exports, messages, job, abandoned>>
    BY <1>15 DEF RequestStep, Open, Size, Download, Show, CountVersion, Conflict, Abort, taskVars
  <1>16. CASE UNCHANGED vars
    BY <1>4, <1>16 DEF vars, taskVars
  <1> QED
    BY <1>4, <1>5, <1>6, <1>7, <1>8, <1>9, <1>10, <1>11, <1>12, <1>13, <1>14, <1>15, <1>16
       DEF Next, TaskStep, FaultStep

-----------------------------------------------------------------------------
(* The invariant *)

IInv ==
    /\ Typed
    /\ StatusInv
    /\ FinalInv
    /\ WpsInv
    /\ VersionInv
    /\ OneTask
    /\ UnsettledIsAttended

LEMMA InitIInv == Init => IInv
  <1> SUFFICES ASSUME Init PROVE IInv
    OBVIOUS
  <1>1. exports = <<>> /\ DOMAIN exports = {}
    BY EmptySeq DEF Init
  <1>2. \A c, t : Of(c, t) = {}
    BY <1>1 DEF Of
  <1>3. VersionsAreSequential
    <2>1. 1 .. 0 = {} /\ Cardinality({}) = 0
      BY FS_EmptySet
    <2> QED
      BY <1>2, <2>1 DEF VersionsAreSequential
  <1>4. \A c \in Cycle : phase[c] = "open"
    BY DEF Init, Control!Init
  <1> QED
    BY InitTyped, <1>1, <1>3, <1>4
       DEF Init, IInv, StatusInv, FinalInv, WpsInv, VersionInv, CountInv, OneTask, UnsettledIsAttended

LEMMA Invariance == Spec => []IInv
  <1>1. IInv /\ [Next]_vars => IInv'
    <2> SUFFICES ASSUME IInv, [Next]_vars PROVE IInv'
      OBVIOUS
    <2>1. Typed'
      BY NextTyped DEF IInv
    <2> QED
      BY <2>1, NextStatus, NextFinal, NextWps, NextVersions, NextOneTask, NextUnsettled DEF IInv
  <1> QED
    BY InitIInv, <1>1, PTL DEF Spec

(* The exports of a type of a cycle are numbered 1, 2, 3 ... *)
THEOREM Numbered == Spec => []VersionsAreSequential
  <1>1. IInv => VersionsAreSequential
    BY DEF IInv, VersionInv
  <1> QED
    BY Invariance, <1>1, PTL

(* A WPS file pays what its locked cycle pays. *)
THEOREM WpsLocked == Spec => []WpsFileIsLockedPay
  <1>1. IInv => WpsFileIsLockedPay
    <2> SUFFICES ASSUME IInv, NEW i \in DOMAIN exports, exports[i].type = "wps",
                        phase[exports[i].cycle] # "void"
                 PROVE  /\ phase[exports[i].cycle] = "locked"
                        /\ \A f \in exports[i].file : f.of = pay[exports[i].cycle]
      BY DEF WpsFileIsLockedPay
    <2> QED
      BY DEF IInv, WpsInv, Closed, LockedPay
  <1> QED
    BY Invariance, <1>1, PTL

(* A report that says it is final shows approved lines, unless the cycle   *)
(* was opened again.                                                       *)
THEOREM FinalApproved == Spec => []FinalReportUnlessReworked
  <1>1. IInv => FinalReportUnlessReworked
    <2> SUFFICES ASSUME IInv, NEW c \in Cycle, phase[c] # "void", c \notin reworked,
                        NEW f \in Given(c), SaysFinal(f.content)
                 PROVE  f.of \in approved[c]
      BY DEF FinalReportUnlessReworked
    <2>1. CASE \E i \in DOMAIN exports : exports[i].cycle = c /\ f \in exports[i].file
      BY <2>1 DEF IInv, FinalInv, Fresh
    <2>2. ASSUME NEW k \in Clerk, NEW r \in request[k], r.stage = "download", r.cycle = c,
                 f = [of |-> r.lines, content |-> r.file]
          PROVE  f.of \in approved[c]
      <3>1. f.of = r.lines /\ f.content = r.file
        BY <2>2
      <3> QED
        BY <2>2, <3>1 DEF IInv, FinalInv, Fresh
    <2> QED
      BY <2>1, <2>2 DEF Given
  <1> QED
    BY Invariance, <1>1, PTL

(* No export is left unsettled with nobody at work on it. *)
THEOREM NeverLeftAlone == Spec => []UnsettledIsAttended
  <1>1. IInv => UnsettledIsAttended
    BY DEF IInv
  <1> QED
    BY Invariance, <1>1, PTL
=============================================================================
