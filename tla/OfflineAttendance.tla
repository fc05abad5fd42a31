--------------------------- MODULE OfflineAttendance ---------------------------
(***************************************************************************)
(* Check-ins from a supervisor's device.  A press captures one check-in    *)
(* under a fresh idempotency key and posts it; without a network it is     *)
(* kept encrypted in IndexedDB, and "Sync now" posts all that is kept and  *)
(* clears the keys the server answered for.  Requests and answers may be   *)
(* lost, a request may be served after the page has given it up, and two   *)
(* of them may be served at once, while the roster is edited and workers   *)
(* are transferred.                                                        *)
(*                                                                         *)
(* A request is one transaction at READ COMMITTED with a savepoint per     *)
(* record; what it has created is visible to itself, and holds the         *)
(* roster's row lock, until it commits.                                    *)
(***************************************************************************)
EXTENDS Integers, FiniteSets

CONSTANTS
    Roster,      \* ids of roster rows
    Worker,
    Site,
    Date,
    Assigned,    \* where the user may check in: the sites a supervisor is
                 \* linked to, and every site for any other role
    Key,         \* idempotency keys; a store is read in their order
    Tab,         \* what the page does at once: presses and syncs, in any tab
    Server,      \* requests served at once
    Transfer,
    BatchLimit   \* records of one sync (200)

VARIABLES
    roster,      \* RosterAssignment rows: none, or one per id
    transfer,    \* WorkerTransfer rows: none, or one per id
    attendance,  \* the AttendanceRecord of a roster: none, or one
    edited,      \* history: rosters given another worker, site or date after it
    capture,     \* the roster of each captured key: none, or one
    old,         \* keys captured more than seven days ago
    store,       \* the keys kept in IndexedDB
    page,        \* the request each tab waits for: none, or one
    told,        \* history: captures whose failure was shown, or whose page
                 \* was closed
    job          \* the request each server process handles: none, or one

siteVars   == <<roster, transfer, edited>>
deviceVars == <<capture, old, store, page, told>>
vars == <<siteVars, attendance, deviceVars, job>>

RosterStatus == {"scheduled", "replaced", "cancelled", "completed"}

(* What a request has created and not committed. *)
Held(r) ==
    \E g \in Server : \E j \in job[g] : \E m \in j.made : m.roster = r

RowUnlocked(r) == TRUE

(* No request holds the row lock of the roster. *)
RowFree(r) == ~Held(r)

-----------------------------------------------------------------------------
(* Rosters and transfers *)

VacantIfScheduled(rows, r, w, d) ==
    \A s \in Roster \ {r} : \A row \in rows[s] :
        row.worker = w /\ row.date = d => row.status # "scheduled"

(* one_roster_assignment_per_worker_day: whatever the status of the row.   *)
Vacant(rows, r, w, d) ==
    \A s \in Roster \ {r} : \A row \in rows[s] : row.worker # w \/ row.date # d

Row(w, s, d, status) == [worker |-> w, site |-> s, date |-> d, status |-> status]

CreateRoster(r, w, s, d) ==
    /\ roster[r] = {}
    /\ Vacant(roster, r, w, d)
    /\ roster' = [roster EXCEPT ![r] = {Row(w, s, d, "scheduled")}]
    /\ UNCHANGED <<transfer, edited, attendance, deviceVars, job>>

(* A PATCH may set the worker, the site, the date and the status, and saves*)
(* every column, some of them as it read them earlier: any values may be   *)
(* the result.  An attended roster is not refused.                         *)
EditRoster(r, w, s, d, status) ==
    /\ roster[r] # {}
    /\ RowFree(r)
    /\ Vacant(roster, r, w, d)
    /\ roster' = [roster EXCEPT ![r] = {Row(w, s, d, status)}]
    /\ edited' = IF \/ attendance[r] = {}
                    \/ \A row \in roster[r] :
                          row.worker = w /\ row.site = s /\ row.date = d
                 THEN edited ELSE edited \cup {r}
    /\ UNCHANGED <<transfer, attendance, deviceVars, job>>

(* Attendance and transfers protect their roster. *)
DeleteRoster(r) ==
    /\ roster[r] # {}
    /\ attendance[r] = {}
    /\ RowFree(r)
    /\ \A x \in Transfer : \A t \in transfer[x] : t.from # r
    /\ roster' = [roster EXCEPT ![r] = {}]
    /\ UNCHANGED <<transfer, edited, attendance, deviceVars, job>>

RequestTransfer(x, r, s) ==
    /\ transfer[x] = {}
    /\ \E row \in roster[r] :
          transfer' = [transfer EXCEPT ![x] =
              {[from |-> r, worker |-> row.worker, site |-> s, status |-> "pending",
                read |-> {}]}]
    /\ UNCHANGED <<roster, edited, attendance, deviceVars, job>>

SupersededBy(row) == [row EXCEPT !.status = "transferred"]

Superseded(row) == [row EXCEPT !.status = "replaced"]

(* The approval reads the transfer and the date of its roster. *)
ApproveRead(x, t) ==
    /\ t.status = "pending"
    /\ transfer' = [transfer EXCEPT ![x] =
                       {[t EXCEPT !.read = {row.date : row \in roster[t.from]}]}]
    /\ UNCHANGED <<roster, edited, attendance, deviceVars, job>>

(* The old row is kept as REPLACED and a new one is created for the worker *)
(* of the transfer and the date that was read; if the worker has a row on  *)
(* that date the request fails and nothing is written.                     *)
ApproveTransfer(x, t, new, d) ==
    /\ d \in t.read
    /\ t.status = "pending"
    /\ roster[new] = {}
    /\ RowFree(t.from)
    /\ LET replaced == [roster EXCEPT ![t.from] =
                           {Superseded(row) : row \in @}]
       IN  /\ Vacant(replaced, new, t.worker, d)
           /\ roster' = [replaced EXCEPT ![new] = {Row(t.worker, t.site, d, "scheduled")}]
    /\ transfer' = [transfer EXCEPT ![x] = {[t EXCEPT !.status = "approved"]}]
    /\ UNCHANGED <<edited, attendance, deviceVars, job>>

-----------------------------------------------------------------------------
(* The page *)

Waits(t, kind, keys) ==
    page' = [page EXCEPT ![t] = {[kind |-> kind, keys |-> keys, answer |-> {}]}]

(* The request reaches a server process, or is lost on its way. *)
Posted(t, keys) ==
    \/ \E g \in Server :
          /\ job[g] = {}
          /\ job' = [job EXCEPT ![g] = {[tab |-> {t}, todo |-> keys, seen |-> {},
                                         ok |-> {}, made |-> {}]}]
    \/ UNCHANGED job

(* checkIn: each press captures anew. *)
Press(t, k, r) ==
    /\ page[t] = {}
    /\ capture[k] = {}
    /\ roster[r] # {}
    /\ capture' = [capture EXCEPT ![k] = {r}]
    /\ \/ /\ store' = store \cup {k}
          /\ UNCHANGED <<page, job>>
       \/ /\ Waits(t, "online", {k})
          /\ Posted(t, {k})
          /\ UNCHANGED store
    /\ UNCHANGED <<siteVars, attendance, old, told>>

(* The catch of checkIn: keep the capture when there is no network, and    *)
(* else show the error.                                                    *)
Caught(keys) ==
    \/ /\ store' = store \cup keys
       /\ UNCHANGED told
    \/ /\ told' = told \cup keys
       /\ UNCHANGED store

(* sync: queuedAttendance deletes what is older than seven days. *)
Sync(t) ==
    LET keys == store \ old
    IN  /\ page[t] = {}
        /\ store' = keys
        /\ IF keys = {} THEN UNCHANGED <<page, job>>
           ELSE IF Cardinality(keys) > BatchLimit THEN UNCHANGED <<page, job>>
           ELSE Waits(t, "sync", keys) /\ Posted(t, keys)
        /\ UNCHANGED <<siteVars, attendance, capture, old, told>>

ClearedAll(p, ok) == p.keys

Cleared(p, ok) == ok

(* The answer of the server: the keys it answered for without an error.    *)
Receive(t, p, ok) ==
    /\ page' = [page EXCEPT ![t] = {}]
    /\ \/ /\ p.kind = "sync"
          /\ store' = store \ Cleared(p, ok)
          /\ UNCHANGED told
       \/ p.kind = "online" /\ Caught(p.keys)
       \/ /\ p.kind = "online" /\ ok = p.keys
          /\ UNCHANGED <<store, told>>
    /\ UNCHANGED <<siteVars, attendance, capture, old, job>>

(* The connection fails while the page waits, or the page is closed. *)
GiveUp(t, p) ==
    /\ p.answer = {}
    /\ page' = [page EXCEPT ![t] = {}]
    /\ job' = [g \in Server |-> {[j EXCEPT !.tab = @ \ {t}] : j \in job[g]}]
    /\ IF p.kind = "sync" THEN UNCHANGED <<store, told>> ELSE Caught(p.keys)
    /\ UNCHANGED <<siteVars, attendance, capture, old>>

(* load: what is older than seven days is deleted whenever it is read. *)
Load ==
    /\ store' = store \ old
    /\ UNCHANGED <<siteVars, attendance, capture, old, page, told, job>>

Age(k) ==
    /\ capture[k] # {}
    /\ old' = old \cup {k}
    /\ UNCHANGED <<siteVars, attendance, capture, store, page, told, job>>

-----------------------------------------------------------------------------
(* The server: check_in for each record, then the commit *)

Recorded(k) == \E r \in Roster : \E a \in attendance[r] : a.key = k

Goes(g, to) == job' = [job EXCEPT ![g] = {to}]

(* The records are handled in their order.  An existing record of the key  *)
(* is returned, before any lock is taken.                                  *)
Lookup(g, j, k) ==
    /\ j.seen = {}
    /\ \A q \in j.todo : k \leq q
    /\ IF Recorded(k) \/ \E m \in j.made : m.key = k
       THEN Goes(g, [j EXCEPT !.todo = @ \ {k}, !.ok = @ \cup {k}])
       ELSE Goes(g, [j EXCEPT !.seen = {k}])
    /\ UNCHANGED <<siteVars, attendance, deviceVars>>

(* Under the lock of the roster: scheduled, at a site where the user may   *)
(* check in, not attended, and captured within seven days.                 *)
CheckIn(g, j, k, r) ==
    /\ k \in j.seen
    /\ r \in capture[k]
    /\ k \notin old
    /\ RowFree(r)
    /\ attendance[r] = {}
    /\ \E row \in roster[r] :
          /\ row.status = "scheduled"
          /\ row.site \in Assigned
          /\ Goes(g, [j EXCEPT !.todo = @ \ {k}, !.seen = {}, !.ok = @ \cup {k},
                               !.made = @ \cup {[roster |-> r, key |-> k,
                                                 worker |-> row.worker, site |-> row.site,
                                                 date |-> row.date]}])
    /\ UNCHANGED <<siteVars, attendance, deviceVars>>

(* One of these does not hold, or the savepoint fails (a deadlock, a lost  *)
(* connection): the record is answered with an error, the others go on.    *)
Refuse(g, j, k) ==
    /\ k \in j.seen
    /\ Goes(g, [j EXCEPT !.todo = @ \ {k}, !.seen = {}])
    /\ UNCHANGED <<siteVars, attendance, deviceVars>>

(* The page gets the answer if it still waits for it. *)
Answers(g, j, ok) ==
    /\ job' = [job EXCEPT ![g] = {}]
    /\ page' = [t \in Tab |-> IF t \in j.tab
                              THEN {[p EXCEPT !.answer = {ok}] : p \in page[t]}
                              ELSE page[t]]

Made(j, r) ==
    {[key |-> m.key, worker |-> m.worker, site |-> m.site, date |-> m.date] :
        m \in {n \in j.made : n.roster = r}}

Commit(g, j) ==
    /\ j.todo = {}
    /\ attendance' = [r \in Roster |-> attendance[r] \cup Made(j, r)]
    /\ Answers(g, j, j.ok)
    /\ UNCHANGED <<siteVars, capture, old, store, told>>

(* The request fails as a whole, and all it has created is rolled back. *)
Rollback(g, j) ==
    /\ Answers(g, j, {})
    /\ UNCHANGED <<siteVars, attendance, capture, old, store, told>>

-----------------------------------------------------------------------------
Init ==
    /\ roster = [r \in Roster |-> {}]
    /\ transfer = [x \in Transfer |-> {}]
    /\ attendance = [r \in Roster |-> {}]
    /\ edited = {}
    /\ capture = [k \in Key |-> {}]
    /\ old = {}
    /\ store = {}
    /\ page = [t \in Tab |-> {}]
    /\ told = {}
    /\ job = [g \in Server |-> {}]

SiteStep ==
    \/ \E r \in Roster, w \in Worker, s \in Site, d \in Date :
          \/ CreateRoster(r, w, s, d)
          \/ \E status \in RosterStatus : EditRoster(r, w, s, d, status)
    \/ \E r \in Roster : DeleteRoster(r)
    \/ \E x \in Transfer, r \in Roster, s \in Site : RequestTransfer(x, r, s)
    \/ \E x \in Transfer : \E t \in transfer[x] :
          \/ ApproveRead(x, t)
          \/ \E new \in Roster, d \in Date : ApproveTransfer(x, t, new, d)

DeviceStep ==
    \/ \E t \in Tab :
          \/ \E k \in Key, r \in Roster : Press(t, k, r)
          \/ Sync(t)
          \/ \E p \in page[t] : GiveUp(t, p) \/ \E ok \in p.answer : Receive(t, p, ok)
    \/ Load
    \/ \E k \in Key : Age(k)

ServerStep(g) ==
    \E j \in job[g] :
        \/ \E k \in j.todo : Lookup(g, j, k)
        \/ \E k \in j.seen : Refuse(g, j, k) \/ \E r \in Roster : CheckIn(g, j, k, r)
        \/ Commit(g, j)
        \/ Rollback(g, j)

Next == SiteStep \/ DeviceStep \/ \E g \in Server : ServerStep(g)

Spec == Init /\ [][Next]_vars

-----------------------------------------------------------------------------
(* Properties *)

RosterRow == [worker : Worker, site : Site, date : Date, status : RosterStatus]
TransferRow ==
    [from : Roster, worker : Worker, site : Site, status : {"pending", "approved"},
     read : SUBSET Date]
Attendance == [key : Key, worker : Worker, site : Site, date : Date]
Creation == [roster : Roster, key : Key, worker : Worker, site : Site, date : Date]
Wait == [kind : {"online", "sync"}, keys : SUBSET Key, answer : SUBSET SUBSET Key]
Request ==
    [tab : SUBSET Tab, todo : SUBSET Key, seen : SUBSET Key, ok : SUBSET Key,
     made : SUBSET Creation]

TypeOK ==
    /\ roster \in [Roster -> SUBSET RosterRow]
    /\ transfer \in [Transfer -> SUBSET TransferRow]
    /\ attendance \in [Roster -> SUBSET Attendance]
    /\ edited \in SUBSET Roster
    /\ capture \in [Key -> SUBSET Roster]
    /\ old \in SUBSET Key /\ store \in SUBSET Key /\ told \in SUBSET Key
    /\ page \in [Tab -> SUBSET Wait]
    /\ job \in [Server -> SUBSET Request]

(* A capture is never lost silently: until it is recorded it is kept on    *)
(* the device or waited for, unless it is older than seven days, its       *)
(* failure was shown, or the page that waited for it was closed.  Lost     *)
(* answers, repeated syncs and requests served late do not change that.    *)
NothingIsLost ==
    \A k \in Key :
        \/ capture[k] = {} \/ Recorded(k) \/ k \in old \cup store \cup told
        \/ \E t \in Tab : \E p \in page[t] : p.kind = "online" /\ k \in p.keys

(* One attendance per roster and per key, however often it is posted, and  *)
(* two of one worker on one date only if a roster that already had an      *)
(* attendance was given another worker, site or date: the only constraint  *)
(* on a worker's day is that of the rosters.                               *)
AttendedOnce ==
    /\ \A r \in Roster : Cardinality(attendance[r]) \leq 1
    /\ \A r, s \in Roster : \A a \in attendance[r], b \in attendance[s] :
          r # s => /\ a.key # b.key
                   /\ a.worker = b.worker /\ a.date = b.date
                         => r \in edited \/ s \in edited

(* An attendance has the worker, the site and the date its roster had when *)
(* it was created and still has, unless the roster was edited after it: an *)
(* edit waits for a check-in in progress.                                  *)
RecordedAsRostered ==
    \A r \in Roster \ edited : \A a \in attendance[r] :
        \E row \in roster[r] :
            a.worker = row.worker /\ a.site = row.site /\ a.date = row.date
=============================================================================
