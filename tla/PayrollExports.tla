---------------------------- MODULE PayrollExports ----------------------------
(***************************************************************************)
(* Payroll artifacts: a request downloads a small report at once, or       *)
(* writes a row of PayrollExport with the next version and, after it has   *)
(* committed, queues the task that builds the file.  The cycle and its     *)
(* lines are changed meanwhile as PayrollControl allows, which PayrollClose*)
(* implements.  Requests and tasks read the cycle first and its lines      *)
(* later; a task runs outside any transaction.                             *)
(***************************************************************************)
EXTENDS PayrollReports, Sequences

CONSTANTS
    Cycle,
    Pay,           \* the tables of lines a cycle may have
    ExportType,
    Clerk,         \* concurrent requests
    CeleryWorker,
    SyncMaxRows,   \* PAYROLL_REPORT_SYNC_MAX_ROWS
    MaxRetries,    \* Celery's max_retries of one message (3)
    MaxExports,    \* bound: export rows
    MaxCrashes,    \* bound: messages the broker delivers again
    MaxFaults      \* bound: tasks killed or failed where no handler runs

ASSUME ExportTypeAssumption ==
    ExportType \subseteq {"wps", "report_html", "report_pdf", "report_excel"}
(* build_payroll_lines: the gross pay of a line is what it is made of.     *)
ASSUME PayAssumption ==
    \A table \in Pay :
        /\ IsFiniteSet(Workers(table))
        /\ \A w \in Workers(table) :
              LET amount == table[w].amount
              IN  /\ amount \in [Amount -> Int]
                  /\ amount["gross"] = amount["regular"] + amount["overtime"]
                                        + amount["allowances"] + amount["other"]
ASSUME SyncMaxRowsAssumption == SyncMaxRows \in Nat
ASSUME MaxRetriesAssumption == MaxRetries \in Nat
ASSUME MaxExportsAssumption == MaxExports \in Nat
ASSUME MaxCrashesAssumption == MaxCrashes \in Nat
ASSUME MaxFaultsAssumption == MaxFaults \in Nat

VARIABLES
    phase, pay,   \* of PayrollControl
    approved,     \* history: the tables a cycle was approved with
    reworked,     \* history: the cycles that were opened again after it
    request,      \* the request of each clerk: none, or one
    exports,      \* PayrollExport rows, in the order they were inserted
    messages,     \* task messages of each row, by retry count
    job,          \* the task each worker runs: none, or one
    abandoned,    \* history: the rows a message or a task was lost of
    crashes,
    faults

cycleVars == <<phase, pay, approved, reworked>>
taskVars  == <<messages, job, abandoned, crashes, faults>>
vars == <<cycleVars, request, exports, taskVars>>

Control == INSTANCE PayrollControl

Row == 1 .. MaxExports

Queued(i, n) == [messages EXCEPT ![i][n] = @ + 1]

(* The status a reader may find: nothing is known of a corrupted cycle.    *)
ReadStatus == {"review", "approved", "locked"}

ReadsAs(c) ==
    IF phase[c] = "void" THEN ReadStatus
    ELSE {IF phase[c] = "open" THEN "review" ELSE phase[c]}

-----------------------------------------------------------------------------
(* The cycle *)

Close ==
    /\ Control!Next
    /\ approved' = [c \in Cycle |->
                      IF phase'[c] = "approved" THEN approved[c] \cup {pay'[c]}
                                                ELSE approved[c]]
    /\ reworked' = reworked \cup
                     {c \in Cycle : phase[c] = "approved" /\ phase'[c] = "open"}
    /\ UNCHANGED <<request, exports, taskVars>>

-----------------------------------------------------------------------------
(* The requests *)

Ask(k, to) == request' = [request EXCEPT ![k] = {to}]
Answered(k) == request' = [request EXCEPT ![k] = {}]

ExportableApproved(type, status) == type = "wps" => status \in {"approved", "locked"}

Exportable(type, status) == type = "wps" => status = "locked"

(* get_object, and the check of the status for a WPS file. *)
Open(k, c, t) ==
    /\ request[k] = {}
    /\ \E s \in ReadsAs(c) :
          /\ Exportable(t, s)
          /\ Ask(k, [stage |-> IF t = "wps" THEN "queue" ELSE "size",
                     cycle |-> c, type |-> t, status |-> s, version |-> 0])
    /\ UNCHANGED <<cycleVars, exports, taskVars>>

(* A report without lines is refused; a small one is built in the request. *)
Size(k, r) ==
    /\ r.stage = "size"
    /\ LET count == Cardinality(Workers(pay[r.cycle]))
       IN  \/ count = 0 /\ Answered(k)
           \/ count \in 1 .. SyncMaxRows /\ Ask(k, [r EXCEPT !.stage = "build"])
           \/ count > SyncMaxRows /\ Ask(k, [r EXCEPT !.stage = "queue"])
    /\ UNCHANGED <<cycleVars, exports, taskVars>>

Download(k, r) ==
    /\ r.stage = "build"
    /\ Ask(k, [stage |-> "download", cycle |-> r.cycle, lines |-> pay[r.cycle],
               file |-> Artifact(r.type, r.status, pay[r.cycle])])
    /\ UNCHANGED <<cycleVars, exports, taskVars>>

Show(k, r) ==
    /\ r.stage = "download"
    /\ Answered(k)
    /\ UNCHANGED <<cycleVars, exports, taskVars>>

NextVersionOfAny(c, t) ==
    1 + Cardinality({i \in DOMAIN exports : exports[i].cycle = c})

NextVersion(c, t) ==
    1 + Cardinality({i \in DOMAIN exports : exports[i].cycle = c /\ exports[i].type = t})

CountVersion(k, r) ==
    /\ r.stage = "queue"
    /\ Ask(k, [r EXCEPT !.stage = "insert", !.version = NextVersion(r.cycle, r.type)])
    /\ UNCHANGED <<cycleVars, exports, taskVars>>

Taken(r) ==
    \E i \in DOMAIN exports :
        /\ exports[i].cycle = r.cycle
        /\ exports[i].type = r.type
        /\ exports[i].version = r.version

(* unique_payroll_export_version: the second of two equal versions fails.  *)
Conflict(k, r) ==
    /\ r.stage = "insert"
    /\ Taken(r)
    /\ Answered(k)
    /\ UNCHANGED <<cycleVars, exports, taskVars>>

NewRow(r) ==
    [cycle |-> r.cycle, type |-> r.type, version |-> r.version,
     status |-> "pending", file |-> {}]

(* The commit, and on_commit: the process may end before it has queued.    *)
Insert(k, r) ==
    /\ r.stage = "insert"
    /\ ~Taken(r)
    /\ Len(exports) < MaxExports
    /\ exports' = Append(exports, NewRow(r))
    /\ Answered(k)
    /\ \/ /\ messages' = Queued(Len(exports) + 1, 0)
          /\ UNCHANGED <<abandoned, faults>>
       \/ /\ faults < MaxFaults
          /\ faults' = faults + 1
          /\ abandoned' = abandoned \cup {Len(exports) + 1}
          /\ UNCHANGED messages
    /\ UNCHANGED <<cycleVars, job, crashes>>

Abort(k, r) ==
    /\ r.stage = "insert"
    /\ Answered(k)
    /\ UNCHANGED <<cycleVars, exports, taskVars>>

-----------------------------------------------------------------------------
(* generate_wps_export and generate_payroll_report *)

Step(w, to) == job' = [job EXCEPT ![w] = {to}]
Ended(w) == job' = [job EXCEPT ![w] = {}]

SetStatus(i, s) == exports' = [exports EXCEPT ![i].status = s]

(* The copy of the export, and of its cycle, that the task works with. *)
Take(w, i, n) ==
    /\ job[w] = {}
    /\ messages[i][n] > 0
    /\ messages' = [messages EXCEPT ![i][n] = @ - 1]
    /\ \E s \in ReadsAs(exports[i].cycle) :
          Step(w, [stage |-> "read", row |-> i, retry |-> n, status |-> s,
                   lines |-> {}])
    /\ UNCHANGED <<cycleVars, request, exports, abandoned, crashes, faults>>

Mark(w, j) ==
    /\ j.stage = "read"
    /\ SetStatus(j.row, "processing")
    /\ Step(w, [j EXCEPT !.stage = "marked"])
    /\ UNCHANGED <<cycleVars, request, messages, abandoned, crashes, faults>>

(* The lines are read once, when the file is built. *)
Build(w, j) ==
    /\ j.stage = "marked"
    /\ Step(w, [j EXCEPT !.stage = "built", !.lines = {pay[exports[j.row].cycle]}])
    /\ UNCHANGED <<cycleVars, request, exports, messages, abandoned, crashes, faults>>

FileOf(j) ==
    {[of |-> lines, content |-> Artifact(exports[j.row].type, j.status, lines)] :
        lines \in j.lines}

Save(w, j) ==
    /\ j.stage = "built"
    /\ exports' = [exports EXCEPT ![j.row] = [@ EXCEPT !.status = "ready", !.file = FileOf(j)]]
    /\ Step(w, [j EXCEPT !.stage = "saved", !.lines = {}])
    /\ UNCHANGED <<cycleVars, request, messages, abandoned, crashes, faults>>

(* The task is over and its message is acknowledged. *)
Finish(w, j) ==
    /\ j.stage = "saved"
    /\ Ended(w)
    /\ UNCHANGED <<cycleVars, request, exports, messages, abandoned, crashes, faults>>

RetriedUnlimited(i, n) == Queued(i, n)

Retried(i, n) ==
    IF n < MaxRetries THEN Queued(i, n + 1) ELSE messages

AfterFailureKept(j) == exports[j.row].status

AfterFailure(j) == "failed"

(* Building or storing the file raises: FAILED, and Celery retries. *)
Fail(w, j) ==
    /\ j.stage \in {"marked", "built"}
    /\ SetStatus(j.row, AfterFailure(j))
    /\ messages' = Retried(j.row, j.retry)
    /\ Ended(w)
    /\ UNCHANGED <<cycleVars, request, abandoned, crashes, faults>>

(* A write outside the try fails, or the hard time limit kills the task:   *)
(* the message is acknowledged and nothing else is written.                *)
Abandon(w, j) ==
    /\ j.stage # "saved"
    /\ faults < MaxFaults
    /\ faults' = faults + 1
    /\ abandoned' = abandoned \cup {j.row}
    /\ Ended(w)
    /\ UNCHANGED <<cycleVars, request, exports, messages, crashes>>

(* The worker, or only its connection, is lost before the acknowledgement: *)
(* the broker delivers the message again, and the task may still go on.    *)
Redeliver(w, j) ==
    /\ crashes < MaxCrashes
    /\ crashes' = crashes + 1
    /\ messages' = Queued(j.row, j.retry)
    /\ Ended(w) \/ UNCHANGED job
    /\ UNCHANGED <<cycleVars, request, exports, abandoned, faults>>

-----------------------------------------------------------------------------
Init ==
    /\ Control!Init
    /\ approved = [c \in Cycle |-> {}]
    /\ reworked = {}
    /\ request = [k \in Clerk |-> {}]
    /\ exports = <<>>
    /\ messages = [i \in Row |-> [n \in 0 .. MaxRetries |-> 0]]
    /\ job = [w \in CeleryWorker |-> {}]
    /\ abandoned = {}
    /\ crashes = 0
    /\ faults = 0

RequestStep(k) ==
    \/ \E c \in Cycle, t \in ExportType : Open(k, c, t)
    \/ \E r \in request[k] :
          \/ Size(k, r) \/ Download(k, r) \/ Show(k, r) \/ CountVersion(k, r)
          \/ Conflict(k, r) \/ Insert(k, r) \/ Abort(k, r)

TaskStep(w) ==
    \/ \E i \in Row, n \in 0 .. MaxRetries : Take(w, i, n)
    \/ \E j \in job[w] : Mark(w, j) \/ Build(w, j) \/ Save(w, j) \/ Finish(w, j) \/ Fail(w, j)

FaultStep(w) == \E j \in job[w] : Abandon(w, j) \/ Redeliver(w, j)

Next ==
    \/ Close
    \/ \E k \in Clerk : RequestStep(k)
    \/ \E w \in CeleryWorker : TaskStep(w) \/ FaultStep(w)

Spec == Init /\ [][Next]_vars

(* A worker goes on with its task and takes the messages there are. *)
FairSpec == Spec /\ \A w \in CeleryWorker : WF_vars(TaskStep(w))

-----------------------------------------------------------------------------
(* Properties *)

File ==
    {[of |-> p, content |-> Artifact(t, s, p)] : p \in Pay, t \in ExportType, s \in ReadStatus}

ExportRow ==
    [cycle : Cycle, type : ExportType, version : Nat,
     status : {"pending", "processing", "ready", "failed"},
     file : SUBSET File]

PendingRequest ==
    [stage : {"size", "build", "queue", "insert"}, cycle : Cycle, type : ExportType,
     status : ReadStatus, version : Nat]

Response ==
    [stage : {"download"}, cycle : Cycle, lines : Pay,
     file : {f.content : f \in File}]

Task ==
    [stage : {"read", "marked", "built", "saved"}, row : Row, retry : 0 .. MaxRetries,
     status : ReadStatus, lines : SUBSET Pay]

TypeOK ==
    /\ phase \in [Cycle -> {"open", "approved", "locked", "void"}]
    /\ pay \in [Cycle -> Pay]
    /\ approved \in [Cycle -> SUBSET Pay]
    /\ reworked \in SUBSET Cycle
    /\ request \in [Clerk -> SUBSET (PendingRequest \cup Response)]
    /\ exports \in Seq(ExportRow) /\ Len(exports) \leq MaxExports
    /\ messages \in [Row -> [0 .. MaxRetries -> Nat]]
    /\ job \in [CeleryWorker -> SUBSET Task]
    /\ abandoned \in SUBSET Row
    /\ crashes \in 0 .. MaxCrashes /\ faults \in 0 .. MaxFaults

Of(c, t) == {i \in DOMAIN exports : exports[i].cycle = c /\ exports[i].type = t}

(* The exports of a cycle are numbered without a gap or a repetition,      *)
(* although each request counts them before another one may have committed.*)
VersionsAreSequential ==
    \A c \in Cycle, t \in ExportType :
        {exports[i].version : i \in Of(c, t)} = 1 .. Cardinality(Of(c, t))

(* A WPS file pays what the locked cycle pays, now and whenever it is      *)
(* built, however late a task runs and how often: "Payroll must be locked  *)
(* before export."  Only a corrupted cycle is exempt.                      *)
WpsFileIsLockedPay ==
    \A i \in DOMAIN exports :
        exports[i].type = "wps" /\ phase[exports[i].cycle] # "void" =>
            /\ phase[exports[i].cycle] = "locked"
            /\ \A f \in exports[i].file : f.of = pay[exports[i].cycle]

(* What users are given: the files of ready and of redone exports, and the *)
(* reports downloaded at once.                                             *)
Given(c) ==
    (UNION {exports[i].file : i \in {j \in DOMAIN exports : exports[j].cycle = c}})
    \cup {[of |-> r.lines, content |-> r.file] :
             r \in UNION {{q \in request[k] : q.stage = "download" /\ q.cycle = c} :
                             k \in Clerk}}

(* A report headed as final shows lines that finance approved ("FINAL      *)
(* PAYROLL REPORT", reports.py), unless the approved cycle was ever opened *)
(* again and reworked: the status is read before the lines, and what was   *)
(* read before the rework may be built at any time after it.               *)
FinalReportUnlessReworked ==
    \A c \in Cycle :
        phase[c] # "void" /\ c \notin reworked =>
            \A f \in Given(c) : SaysFinal(f.content) => f.of \in approved[c]

(* Every total a report shows is the sum of what its rows show, in every   *)
(* format, for cycles reworked while it is built.                          *)
ReportsAddUp ==
    \A c \in Cycle : \A f \in Given(c) : AddsUp(f.content)

Attended(i) ==
    \/ \E n \in 0 .. MaxRetries : messages[i][n] > 0
    \/ \E w \in CeleryWorker : \E j \in job[w] : j.row = i /\ j.stage # "saved"

Settled(i) ==
    i \in DOMAIN exports /\ exports[i].status \in {"ready", "failed"}

(* No export is left PENDING or PROCESSING with nobody at work on it, when *)
(* workers are lost and tasks overlap: nothing would ever look for it.     *)
UnsettledIsAttended ==
    \A i \in DOMAIN exports : Settled(i) \/ Attended(i) \/ i \in abandoned

(* Every export whose task was queued ends READY or FAILED for good: its   *)
(* download_url may be used "once the artifact reaches ready" (README.md). *)
EventuallySettled ==
    \A i \in Row :
        i \in DOMAIN exports ~> i \in abandoned \/ (Settled(i) /\ ~Attended(i))
=============================================================================
