------------------------ MODULE OfflineAttendanceProofs ------------------------
(* Theorems about OfflineAttendance, for any rosters, workers, devices and *)
(* server processes.                                                       *)
EXTENDS OfflineAttendance, FiniteSetTheorems, TLAPS

(* A page waits for one request at a time, and what it is told was recorded*)
(* is recorded.                                                            *)
PageInv ==
    \A t \in Tab : \A p \in page[t] :
        /\ \A q \in page[t] : p = q
        /\ \A ok \in p.answer : \A k \in ok : Recorded(k)

(* A process handles one request; what the request counts as done is there *)
(* or will be when it commits.                                             *)
JobInv ==
    \A g \in Server : \A j \in job[g] :
        /\ \A i \in job[g] : i = j
        /\ \A k \in j.ok : Recorded(k) \/ \E m \in j.made : m.key = k

(* What a request creates is for the roster of its capture, as the roster  *)
(* says, and for a roster that nobody has attended.                        *)
MadeInv ==
    \A g \in Server : \A j \in job[g] : \A m \in j.made :
        /\ attendance[m.roster] = {}
        /\ capture[m.key] = {m.roster}
        /\ \E row \in roster[m.roster] :
              m.worker = row.worker /\ m.site = row.site /\ m.date = row.date

(* No two requests, and no request twice, create for one roster. *)
HolderInv ==
    \A g, h \in Server : \A i \in job[g], j \in job[h] :
        \A m \in i.made, n \in j.made : m.roster = n.roster => g = h /\ m = n

(* One row per roster id, of a worker with no other row on its date. *)
RosterInv ==
    \A r, s \in Roster : \A a \in roster[r], b \in roster[s] :
        IF r = s THEN a = b ELSE a.worker # b.worker \/ a.date # b.date

(* A capture is of one roster, and an attendance that of its capture. *)
AttendanceInv ==
    /\ \A k \in Key : \A r, s \in capture[k] : r = s
    /\ \A r \in Roster : \A a \in attendance[r] :
          /\ \A b \in attendance[r] : a = b
          /\ capture[a.key] = {r}

IInv ==
    /\ TypeOK
    /\ PageInv /\ JobInv
    /\ MadeInv /\ HolderInv
    /\ RosterInv /\ AttendanceInv
    /\ RecordedAsRostered
    /\ NothingIsLost

-----------------------------------------------------------------------------
(* The parts of the invariant that steps of one side leave alone. *)

(* Nothing about devices and requests changes when only rosters and        *)
(* transfers do.                                                           *)
LEMMA DeviceUntouched ==
    ASSUME PageInv, JobInv, NothingIsLost, AttendanceInv, HolderInv,
           UNCHANGED <<attendance, deviceVars, job>>
    PROVE  PageInv' /\ JobInv' /\ NothingIsLost' /\ AttendanceInv' /\ HolderInv'
  BY DEF PageInv, JobInv, NothingIsLost, AttendanceInv, HolderInv, Recorded, deviceVars

LEMMA InitInv == Init => IInv
  <1> SUFFICES ASSUME Init PROVE IInv
    OBVIOUS
  <1>1. TypeOK
    BY DEF Init, TypeOK
  <1>2. PageInv /\ JobInv /\ MadeInv /\ HolderInv /\ RosterInv /\ AttendanceInv
    BY DEF Init, PageInv, JobInv, MadeInv, HolderInv, RosterInv, AttendanceInv
  <1>3. RecordedAsRostered /\ NothingIsLost
    BY DEF Init, RecordedAsRostered, NothingIsLost
  <1> QED
    BY <1>1, <1>2, <1>3 DEF IInv

-----------------------------------------------------------------------------
(* Rosters and transfers *)

LEMMA RowTyped ==
    ASSUME NEW w \in Worker, NEW s \in Site, NEW d \in Date, NEW status \in RosterStatus
    PROVE  /\ Row(w, s, d, status) \in RosterRow
           /\ Row(w, s, d, status).worker = w
           /\ Row(w, s, d, status).site = s
           /\ Row(w, s, d, status).date = d
  BY DEF Row, RosterRow

LEMMA CreateRosterInv ==
    ASSUME IInv, NEW r \in Roster, NEW w \in Worker, NEW s \in Site, NEW d \in Date,
           CreateRoster(r, w, s, d)
    PROVE  IInv'
  <1> USE DEF IInv
  <1> DEFINE row == Row(w, s, d, "scheduled")
  <1>0. /\ roster[r] = {}
        /\ Vacant(roster, r, w, d)
        /\ roster' = [roster EXCEPT ![r] = {row}]
        /\ UNCHANGED <<transfer, edited, attendance, deviceVars, job>>
    BY DEF CreateRoster
  <1>1. row \in RosterRow /\ row.worker = w /\ row.date = d
    BY RowTyped DEF RosterStatus
  <1> HIDE DEF row
  <1>2. TypeOK'
    BY <1>0, <1>1 DEF TypeOK, deviceVars
  <1>3. PageInv' /\ JobInv' /\ NothingIsLost' /\ AttendanceInv' /\ HolderInv'
    BY <1>0, DeviceUntouched
  <1>4. RosterInv'
    BY <1>0, <1>1 DEF TypeOK, RosterInv, Vacant
  <1>5. MadeInv'
    <2> SUFFICES ASSUME NEW g \in Server, NEW j \in job[g], NEW m \in j.made
                 PROVE  /\ attendance[m.roster] = {}
                        /\ capture[m.key] = {m.roster}
                        /\ \E x \in roster'[m.roster] : m.worker = x.worker /\ m.site = x.site /\ m.date = x.date
      BY <1>0 DEF MadeInv, deviceVars
    <2>1. m.roster # r
      BY <1>0 DEF MadeInv
    <2> QED
      BY <1>0, <2>1 DEF MadeInv, TypeOK
  <1>6. RecordedAsRostered'
    BY <1>0 DEF RecordedAsRostered, TypeOK
  <1> QED
    BY <1>2, <1>3, <1>4, <1>5, <1>6

(* A step of rosters that leaves the rosters of requests in progress alone. *)
LEMMA EditRosterInv ==
    ASSUME IInv, NEW r \in Roster, NEW w \in Worker, NEW s \in Site,
           NEW d \in Date, NEW status \in RosterStatus, EditRoster(r, w, s, d, status)
    PROVE  IInv'
  <1> USE DEF IInv
  <1> DEFINE row == Row(w, s, d, status)
  <1>0. /\ RowFree(r)
        /\ Vacant(roster, r, w, d)
        /\ roster' = [roster EXCEPT ![r] = {row}]
        /\ edited' = IF \/ attendance[r] = {}
                        \/ \A x \in roster[r] : x.worker = w /\ x.site = s /\ x.date = d
                     THEN edited ELSE edited \cup {r}
        /\ UNCHANGED <<transfer, attendance, deviceVars, job>>
    BY DEF EditRoster
  <1>1. row \in RosterRow /\ row.worker = w /\ row.site = s /\ row.date = d
    BY RowTyped
  <1> HIDE DEF row
  <1>2. TypeOK'
    <2>1. edited' \in SUBSET Roster
      BY <1>0 DEF TypeOK
    <2> QED
      BY <1>0, <1>1, <2>1 DEF TypeOK, deviceVars
  <1>3. PageInv' /\ JobInv' /\ NothingIsLost' /\ AttendanceInv' /\ HolderInv'
    BY <1>0, DeviceUntouched
  <1>4. RosterInv'
    BY <1>0, <1>1 DEF TypeOK, RosterInv, Vacant
  <1>5. MadeInv'
    <2> SUFFICES ASSUME NEW g \in Server, NEW j \in job[g], NEW m \in j.made
                 PROVE  /\ attendance[m.roster] = {}
                        /\ capture[m.key] = {m.roster}
                        /\ \E x \in roster'[m.roster] : m.worker = x.worker /\ m.site = x.site /\ m.date = x.date
      BY <1>0 DEF MadeInv, deviceVars
    <2>1. m.roster # r
      BY <1>0 DEF RowFree, Held
    <2>2. roster'[m.roster] = roster[m.roster]
      BY <1>0, <2>1 DEF TypeOK
    <2> QED
      BY <2>2 DEF MadeInv
  <1>6. RecordedAsRostered'
    <2> SUFFICES ASSUME NEW q \in Roster, q \notin edited', NEW a \in attendance[q]
                 PROVE  \E x \in roster'[q] : a.worker = x.worker /\ a.site = x.site /\ a.date = x.date
      BY <1>0 DEF RecordedAsRostered
    <2>1. q \notin edited
      BY <1>0
    <2>2. PICK x \in roster[q] : a.worker = x.worker /\ a.site = x.site /\ a.date = x.date
      BY <2>1 DEF RecordedAsRostered
    <2>3. CASE q # r
      BY <1>0, <2>2, <2>3 DEF TypeOK
    <2>4. CASE q = r
      <3>1. x.worker = w /\ x.site = s /\ x.date = d
        BY <1>0, <2>2, <2>4
      <3>2. row \in roster'[q]
        BY <1>0, <2>4 DEF TypeOK
      <3> QED
        BY <1>1, <2>2, <3>1, <3>2
    <2> QED
      BY <2>3, <2>4
  <1> QED
    BY <1>2, <1>3, <1>4, <1>5, <1>6

LEMMA DeleteRosterInv ==
    ASSUME IInv, NEW r \in Roster, DeleteRoster(r)
    PROVE  IInv'
  <1> USE DEF IInv
  <1>0. /\ attendance[r] = {}
        /\ RowFree(r)
        /\ roster' = [roster EXCEPT ![r] = {}]
        /\ UNCHANGED <<transfer, edited, attendance, deviceVars, job>>
    BY DEF DeleteRoster
  <1>1. TypeOK'
    BY <1>0 DEF TypeOK, deviceVars
  <1>2. PageInv' /\ JobInv' /\ NothingIsLost' /\ AttendanceInv' /\ HolderInv'
    BY <1>0, DeviceUntouched
  <1>3. RosterInv'
    BY <1>0 DEF TypeOK, RosterInv
  <1>4. MadeInv'
    <2> SUFFICES ASSUME NEW g \in Server, NEW j \in job[g], NEW m \in j.made
                 PROVE  /\ attendance[m.roster] = {}
                        /\ capture[m.key] = {m.roster}
                        /\ \E x \in roster'[m.roster] : m.worker = x.worker /\ m.site = x.site /\ m.date = x.date
      BY <1>0 DEF MadeInv, deviceVars
    <2>1. m.roster # r
      BY <1>0 DEF RowFree, Held
    <2> QED
      BY <1>0, <2>1 DEF MadeInv, TypeOK
  <1>5. RecordedAsRostered'
    BY <1>0 DEF RecordedAsRostered, TypeOK
  <1> QED
    BY <1>1, <1>2, <1>3, <1>4, <1>5

LEMMA RequestTransferInv ==
    ASSUME IInv, NEW x \in Transfer, NEW r \in Roster, NEW s \in Site,
           RequestTransfer(x, r, s)
    PROVE  IInv'
  <1> USE DEF IInv
  <1>0. UNCHANGED <<roster, edited, attendance, deviceVars, job>>
    BY DEF RequestTransfer
  <1>1. transfer' \in [Transfer -> SUBSET TransferRow]
    <2>1. PICK row \in roster[r] : transfer' = [transfer EXCEPT ![x] =
              {[from |-> r, worker |-> row.worker, site |-> s, status |-> "pending",
                read |-> {}]}]
      BY DEF RequestTransfer
    <2>2. row.worker \in Worker
      BY DEF TypeOK, RosterRow
    <2>3. [from |-> r, worker |-> row.worker, site |-> s, status |-> "pending",
            read |-> {}] \in TransferRow
      BY <2>2 DEF TransferRow
    <2> QED
      BY <2>1, <2>3 DEF TypeOK
  <1>2. TypeOK'
    BY <1>0, <1>1 DEF TypeOK, deviceVars
  <1>3. PageInv' /\ JobInv' /\ NothingIsLost' /\ AttendanceInv' /\ HolderInv'
    BY <1>0, DeviceUntouched
  <1>4. MadeInv' /\ RosterInv' /\ RecordedAsRostered'
    BY <1>0 DEF MadeInv, RosterInv, RecordedAsRostered, deviceVars
  <1> QED
    BY <1>2, <1>3, <1>4

LEMMA ApproveReadInv ==
    ASSUME IInv, NEW x \in Transfer, NEW t \in transfer[x], ApproveRead(x, t)
    PROVE  IInv'
  <1> USE DEF IInv
  <1>0. /\ transfer' = [transfer EXCEPT ![x] =
                           {[t EXCEPT !.read = {row.date : row \in roster[t.from]}]}]
        /\ UNCHANGED <<roster, edited, attendance, deviceVars, job>>
    BY DEF ApproveRead
  <1>1. transfer' \in [Transfer -> SUBSET TransferRow]
    <2>1. t \in TransferRow /\ t.from \in Roster
      BY DEF TypeOK, TransferRow
    <2>2. {row.date : row \in roster[t.from]} \in SUBSET Date
      BY <2>1 DEF TypeOK, RosterRow
    <2>3. [t EXCEPT !.read = {row.date : row \in roster[t.from]}] \in TransferRow
      BY <2>1, <2>2 DEF TransferRow
    <2> QED
      BY <1>0, <2>3 DEF TypeOK
  <1>2. TypeOK'
    BY <1>0, <1>1 DEF TypeOK, deviceVars
  <1>3. PageInv' /\ JobInv' /\ NothingIsLost' /\ AttendanceInv' /\ HolderInv'
    BY <1>0, DeviceUntouched
  <1>4. MadeInv' /\ RosterInv' /\ RecordedAsRostered'
    BY <1>0 DEF MadeInv, RosterInv, RecordedAsRostered, deviceVars
  <1> QED
    BY <1>2, <1>3, <1>4

LEMMA ApproveTransferInv ==
    ASSUME IInv, NEW x \in Transfer, NEW t \in transfer[x], NEW new \in Roster,
           NEW d \in Date, ApproveTransfer(x, t, new, d)
    PROVE  IInv'
  <1> USE DEF IInv
  <1> DEFINE replaced == [roster EXCEPT ![t.from] = {Superseded(row) : row \in @}]
             row == Row(t.worker, t.site, d, "scheduled")
  <1>0. /\ roster[new] = {}
        /\ RowFree(t.from)
        /\ Vacant(replaced, new, t.worker, d)
        /\ roster' = [replaced EXCEPT ![new] = {row}]
        /\ transfer' = [transfer EXCEPT ![x] = {[t EXCEPT !.status = "approved"]}]
        /\ UNCHANGED <<edited, attendance, deviceVars, job>>
    BY DEF ApproveTransfer
  <1>1. t \in TransferRow /\ t.from \in Roster /\ t.worker \in Worker /\ t.site \in Site
    BY DEF TypeOK, TransferRow
  <1>2. row \in RosterRow /\ row.worker = t.worker /\ row.date = d
    BY <1>1, RowTyped DEF RosterStatus
  <1> HIDE DEF row
  <1>3. \A q \in Roster : \A a \in roster[q] :
           /\ Superseded(a) \in RosterRow
           /\ Superseded(a).worker = a.worker
           /\ Superseded(a).site = a.site
           /\ Superseded(a).date = a.date
    BY DEF Superseded, TypeOK, RosterRow, RosterStatus
  <1>4. /\ replaced \in [Roster -> SUBSET RosterRow]
        /\ \A q \in Roster : \A a \in replaced[q] : \E b \in roster[q] :
              a.worker = b.worker /\ a.site = b.site /\ a.date = b.date /\ (q = t.from => a = Superseded(b))
        /\ \A q \in Roster : \A b \in roster[q] : \E a \in replaced[q] :
              a.worker = b.worker /\ a.site = b.site /\ a.date = b.date
        /\ \A q \in Roster \ {t.from} : replaced[q] = roster[q]
    <2>1. replaced[t.from] = {Superseded(a) : a \in roster[t.from]}
      BY <1>1 DEF TypeOK
    <2>2. \A q \in Roster \ {t.from} : replaced[q] = roster[q]
      BY <1>1 DEF TypeOK
    <2>3. \A q \in Roster : replaced[q] \in SUBSET RosterRow
      BY <1>1, <1>3, <2>1, <2>2 DEF TypeOK
    <2>4. DOMAIN replaced = Roster /\ replaced \in [Roster -> SUBSET RosterRow]
      BY <2>3 DEF TypeOK
    <2> HIDE DEF replaced
    <2> QED
      BY <1>1, <1>3, <2>1, <2>2, <2>4
  <1>5. \A q \in Roster : \A a, b \in replaced[q] : a = b
    BY <1>4, <1>1 DEF RosterInv
  <1> HIDE DEF replaced
  <1>6. \A q \in Roster \ {new} : roster'[q] = replaced[q]
    BY <1>0, <1>4
  <1>7. roster'[new] = {row}
    BY <1>0, <1>4
  <1>8. TypeOK'
    <2>1. [t EXCEPT !.status = "approved"] \in TransferRow
      BY <1>1 DEF TransferRow
    <2>2. transfer' \in [Transfer -> SUBSET TransferRow]
      BY <1>0, <2>1 DEF TypeOK
    <2>3. roster' \in [Roster -> SUBSET RosterRow]
      BY <1>0, <1>2, <1>4
    <2> QED
      BY <1>0, <2>2, <2>3 DEF TypeOK, deviceVars
  <1>9. PageInv' /\ JobInv' /\ NothingIsLost' /\ AttendanceInv' /\ HolderInv'
    BY <1>0, DeviceUntouched
  <1>10. RosterInv'
    <2> SUFFICES ASSUME NEW p \in Roster, NEW q \in Roster,
                        NEW a \in roster'[p], NEW b \in roster'[q]
                 PROVE  IF p = q THEN a = b ELSE a.worker # b.worker \/ a.date # b.date
      BY DEF RosterInv
    <2>1. CASE p = new /\ q = new
      BY <1>7, <2>1
    <2>2. CASE p = new /\ q # new
      BY <1>0, <1>2, <1>6, <1>7, <2>2 DEF Vacant
    <2>3. CASE p # new /\ q = new
      BY <1>0, <1>2, <1>6, <1>7, <2>3 DEF Vacant
    <2>4. CASE p # new /\ q # new
      BY <1>4, <1>5, <1>6, <2>4 DEF RosterInv
    <2> QED
      BY <2>1, <2>2, <2>3, <2>4
  <1>11. MadeInv'
    <2> SUFFICES ASSUME NEW g \in Server, NEW j \in job[g], NEW m \in j.made
                 PROVE  /\ attendance[m.roster] = {}
                        /\ capture[m.key] = {m.roster}
                        /\ \E a \in roster'[m.roster] : m.worker = a.worker /\ m.site = a.site /\ m.date = a.date
      BY <1>0 DEF MadeInv, deviceVars
    <2>1. m.roster # new /\ m.roster # t.from
      BY <1>0 DEF MadeInv, RowFree, Held
    <2>2. m.roster \in Roster
      BY DEF TypeOK, Request, Creation
    <2>3. roster'[m.roster] = replaced[m.roster]
      BY <1>6, <2>1, <2>2
    <2>4. PICK b \in roster[m.roster] : m.worker = b.worker /\ m.site = b.site /\ m.date = b.date
      BY DEF MadeInv
    <2>5. PICK a \in replaced[m.roster] : a.worker = b.worker /\ a.site = b.site /\ a.date = b.date
      BY <1>4, <2>2
    <2> QED
      BY <2>3, <2>4, <2>5 DEF MadeInv
  <1>12. RecordedAsRostered'
    <2> SUFFICES ASSUME NEW q \in Roster \ edited, NEW a \in attendance[q]
                 PROVE  \E b \in roster'[q] : a.worker = b.worker /\ a.site = b.site /\ a.date = b.date
      BY <1>0 DEF RecordedAsRostered
    <2>1. PICK c \in roster[q] : a.worker = c.worker /\ a.site = c.site /\ a.date = c.date
      BY DEF RecordedAsRostered
    <2>2. q # new /\ roster'[q] = replaced[q]
      BY <1>0, <1>6, <2>1
    <2>3. PICK b \in replaced[q] : b.worker = c.worker /\ b.site = c.site /\ b.date = c.date
      BY <1>4
    <2> QED
      BY <2>1, <2>2, <2>3
  <1> QED
    BY <1>8, <1>9, <1>10, <1>11, <1>12

-----------------------------------------------------------------------------
(* The page *)

(* No request has counted or created more than before. *)
JobsKept ==
    \A g \in Server : \A j \in job'[g] :
        /\ \A i \in job'[g] : i = j
        /\ \/ j.ok = {} /\ j.made = {}
           \/ \E i \in job[g] : j.ok = i.ok /\ j.made = i.made

(* What was captured stays as it was captured, for one roster. *)
CapturesKept ==
    \A k \in Key : IF capture[k] # {} THEN capture'[k] = capture[k]
                    ELSE \A r, s \in capture'[k] : r = s

(* The parts of the invariant that steps of pages leave alone. *)
LEMMA ServerUntouched ==
    ASSUME IInv, UNCHANGED <<roster, edited, attendance>>, JobsKept, CapturesKept
    PROVE  /\ JobInv' /\ MadeInv' /\ HolderInv'
           /\ RosterInv' /\ AttendanceInv' /\ RecordedAsRostered'
  <1> USE DEF IInv
  <1>1. JobInv'
    BY DEF JobInv, JobsKept, Recorded
  <1>2. MadeInv'
    <2> SUFFICES ASSUME NEW g \in Server, NEW j \in job'[g], NEW m \in j.made
                 PROVE  /\ attendance[m.roster] = {}
                        /\ capture'[m.key] = {m.roster}
                        /\ \E x \in roster[m.roster] :
                              m.worker = x.worker /\ m.site = x.site /\ m.date = x.date
      BY DEF MadeInv
    <2>1. PICK i \in job[g] : m \in i.made
      BY DEF JobsKept
    <2>2. m.key \in Key
      BY <2>1 DEF TypeOK, Request, Creation
    <2> QED
      BY <2>1, <2>2 DEF MadeInv, CapturesKept
  <1>3. HolderInv'
    <2> SUFFICES ASSUME NEW g \in Server, NEW h \in Server,
                        NEW i \in job'[g], NEW j \in job'[h],
                        NEW m \in i.made, NEW n \in j.made, m.roster = n.roster
                 PROVE  g = h /\ m = n
      BY DEF HolderInv
    <2>1. PICK a \in job[g] : m \in a.made
      BY DEF JobsKept
    <2>2. PICK b \in job[h] : n \in b.made
      BY DEF JobsKept
    <2> QED
      BY <2>1, <2>2 DEF HolderInv
  <1>4. RosterInv' /\ RecordedAsRostered'
    BY DEF RosterInv, RecordedAsRostered
  <1>5. AttendanceInv'
    <2>1. \A k \in Key : \A r, s \in capture'[k] : r = s
      BY DEF AttendanceInv, CapturesKept
    <2>2. \A r \in Roster : \A a \in attendance[r] : a.key \in Key
      BY DEF TypeOK, Attendance
    <2> QED
      BY <2>1, <2>2 DEF AttendanceInv, CapturesKept
  <1> QED
    BY <1>1, <1>2, <1>3, <1>4, <1>5

LEMMA PostedKept ==
    ASSUME TypeOK, JobInv, NEW t \in Tab, NEW keys \in SUBSET Key, Posted(t, keys)
    PROVE  JobsKept /\ job' \in [Server -> SUBSET Request]
  <1> DEFINE new == [tab |-> {t}, todo |-> keys, seen |-> {}, ok |-> {}, made |-> {}]
  <1>1. new \in Request /\ new.ok = {} /\ new.made = {}
    BY DEF Request
  <1> HIDE DEF new
  <1>2. CASE UNCHANGED job
    BY <1>2 DEF TypeOK, JobInv, JobsKept
  <1>3. CASE \E g \in Server : job' = [job EXCEPT ![g] = {new}]
    BY <1>1, <1>3 DEF TypeOK, JobInv, JobsKept
  <1> QED
    BY <1>2, <1>3 DEF Posted, new

LEMMA WaitsTyped ==
    ASSUME TypeOK, PageInv, NEW t \in Tab, NEW kind \in {"online", "sync"},
           NEW keys \in SUBSET Key, Waits(t, kind, keys), UNCHANGED attendance
    PROVE  /\ page' \in [Tab -> SUBSET Wait]
           /\ PageInv'
           /\ \A u \in Tab \ {t} : page'[u] = page[u]
           /\ \E p \in page'[t] : p.kind = kind /\ p.keys = keys
  <1> DEFINE new == [kind |-> kind, keys |-> keys, answer |-> {}]
  <1>1. new \in Wait /\ new.answer = {} /\ new.kind = kind /\ new.keys = keys
    BY DEF Wait
  <1>2. page' = [page EXCEPT ![t] = {new}]
    BY DEF Waits
  <1> HIDE DEF new
  <1>3. page' \in [Tab -> SUBSET Wait]
    BY <1>1, <1>2 DEF TypeOK
  <1>4. page'[t] = {new} /\ \A u \in Tab \ {t} : page'[u] = page[u]
    BY <1>2 DEF TypeOK
  <1>5. PageInv'
    BY <1>1, <1>4 DEF PageInv, Recorded
  <1> QED
    BY <1>1, <1>3, <1>4, <1>5

LEMMA PressInv ==
    ASSUME IInv, NEW t \in Tab, NEW k \in Key, NEW r \in Roster, Press(t, k, r)
    PROVE  IInv'
  <1> USE DEF IInv
  <1>0. /\ page[t] = {}
        /\ capture[k] = {}
        /\ capture' = [capture EXCEPT ![k] = {r}]
        /\ UNCHANGED <<roster, transfer, edited, attendance, old, told>>
    BY DEF Press, siteVars
  <1>1. CapturesKept
    BY <1>0 DEF CapturesKept, TypeOK
  <1>2. CASE store' = store \cup {k} /\ UNCHANGED <<page, job>>
    <2>1. JobsKept
      BY <1>2 DEF JobsKept, JobInv
    <2>2. TypeOK'
      BY <1>0, <1>2 DEF TypeOK
    <2>3. PageInv'
      BY <1>0, <1>2 DEF PageInv, Recorded
    <2>4. NothingIsLost'
      BY <1>0, <1>2 DEF NothingIsLost, Recorded, TypeOK
    <2> QED
      BY <1>0, <1>1, <2>1, <2>2, <2>3, <2>4, ServerUntouched
  <1>3. CASE Waits(t, "online", {k}) /\ Posted(t, {k}) /\ UNCHANGED store
    <2>1. JobsKept /\ job' \in [Server -> SUBSET Request]
      BY <1>3, PostedKept
    <2>2. /\ page' \in [Tab -> SUBSET Wait]
          /\ PageInv'
          /\ \A u \in Tab \ {t} : page'[u] = page[u]
          /\ \E p \in page'[t] : p.kind = "online" /\ p.keys = {k}
      BY <1>0, <1>3, WaitsTyped
    <2>3. TypeOK'
      BY <1>0, <1>3, <2>1, <2>2 DEF TypeOK
    <2>4. NothingIsLost'
      <3> SUFFICES ASSUME NEW q \in Key, capture'[q] # {}, ~Recorded(q),
                          q \notin old \cup store \cup told
                   PROVE  \E u \in Tab : \E p \in page'[u] : p.kind = "online" /\ q \in p.keys
        BY <1>0, <1>3 DEF NothingIsLost, Recorded
      <3>1. CASE q = k
        BY <2>2, <3>1
      <3>2. CASE q # k
        <4>1. PICK u \in Tab : \E p \in page[u] : p.kind = "online" /\ q \in p.keys
          BY <1>0, <3>2 DEF NothingIsLost, TypeOK
        <4> QED
          BY <1>0, <2>2, <4>1
      <3> QED
        BY <3>1, <3>2
    <2> QED
      BY <1>0, <1>1, <2>1, <2>2, <2>3, <2>4, ServerUntouched
  <1> QED
    BY <1>2, <1>3 DEF Press

LEMMA SyncInv ==
    ASSUME IInv, NEW t \in Tab, Sync(t)
    PROVE  IInv'
  <1> USE DEF IInv
  <1> DEFINE keys == store \ old
  <1>0. /\ page[t] = {}
        /\ store' = keys
        /\ UNCHANGED <<roster, transfer, edited, attendance, capture, old, told>>
        /\ \/ UNCHANGED <<page, job>>
           \/ Waits(t, "sync", keys) /\ Posted(t, keys)
    BY DEF Sync, siteVars
  <1>1. CapturesKept
    BY <1>0 DEF CapturesKept, AttendanceInv
  <1>2. keys \in SUBSET Key
    BY DEF TypeOK
  <1> HIDE DEF keys
  <1>3. JobsKept /\ job' \in [Server -> SUBSET Request]
    <2>1. CASE UNCHANGED job
      BY <2>1 DEF JobsKept, JobInv, TypeOK
    <2>2. CASE Posted(t, keys)
      BY <1>2, <2>2, PostedKept
    <2> QED
      BY <1>0, <2>1, <2>2
  <1>4. /\ page' \in [Tab -> SUBSET Wait]
        /\ PageInv'
        /\ \A u \in Tab \ {t} : page'[u] = page[u]
    <2>1. CASE UNCHANGED page
      BY <1>0, <2>1 DEF PageInv, TypeOK, Recorded
    <2>2. CASE Waits(t, "sync", keys)
      BY <1>0, <1>2, <2>2, WaitsTyped
    <2> QED
      BY <1>0, <2>1, <2>2
  <1>5. TypeOK'
    BY <1>0, <1>2, <1>3, <1>4 DEF TypeOK
  <1>6. NothingIsLost'
    <2> SUFFICES ASSUME NEW q \in Key, capture[q] # {}, ~Recorded(q),
                        q \notin old \cup keys \cup told
                 PROVE  \E u \in Tab : \E p \in page'[u] : p.kind = "online" /\ q \in p.keys
      BY <1>0 DEF NothingIsLost, Recorded
    <2>1. PICK u \in Tab : \E p \in page[u] : p.kind = "online" /\ q \in p.keys
      BY DEF NothingIsLost, keys
    <2> QED
      BY <1>0, <1>4, <2>1
  <1> QED
    BY <1>0, <1>1, <1>3, <1>4, <1>5, <1>6, ServerUntouched

(* A page that is answered, or has given up, waits no longer. *)
LEMMA PageLeft ==
    ASSUME TypeOK, PageInv, NEW t \in Tab, page' = [page EXCEPT ![t] = {}],
           UNCHANGED attendance
    PROVE  /\ page' \in [Tab -> SUBSET Wait]
           /\ PageInv'
           /\ \A u \in Tab \ {t} : page'[u] = page[u]
  <1>1. page'[t] = {} /\ \A u \in Tab \ {t} : page'[u] = page[u]
    BY DEF TypeOK
  <1>2. page' \in [Tab -> SUBSET Wait]
    BY DEF TypeOK
  <1>3. PageInv'
    BY <1>1 DEF PageInv, Recorded
  <1> QED
    BY <1>1, <1>2, <1>3

(* What a page was told or is told now, and what it still waits for. *)
LEMMA LeftNotLost ==
    ASSUME IInv, NEW t \in Tab, NEW p \in page[t], page' = [page EXCEPT ![t] = {}],
           UNCHANGED <<attendance, capture, old>>, told \subseteq told',
           \A k \in store : k \in store' \/ Recorded(k),
           p.kind = "online" => \A k \in p.keys : k \in store' \cup told' \/ Recorded(k)
    PROVE  NothingIsLost'
  <1> USE DEF IInv
  <1> SUFFICES ASSUME NEW k \in Key, capture[k] # {}, ~Recorded(k),
                      k \notin old \cup store' \cup told'
               PROVE  \E u \in Tab : \E q \in page'[u] : q.kind = "online" /\ k \in q.keys
    BY DEF NothingIsLost, Recorded
  <1>1. PICK u \in Tab : \E q \in page[u] : q.kind = "online" /\ k \in q.keys
    BY DEF NothingIsLost
  <1>2. u # t
    BY <1>1 DEF PageInv
  <1>3. page'[u] = page[u]
    BY <1>2 DEF TypeOK
  <1> QED
    BY <1>1, <1>3

LEMMA ReceiveInv ==
    ASSUME IInv, NEW t \in Tab, NEW p \in page[t], NEW ok \in p.answer, Receive(t, p, ok)
    PROVE  IInv'
  <1> USE DEF IInv
  <1>0. /\ page' = [page EXCEPT ![t] = {}]
        /\ UNCHANGED <<roster, transfer, edited, attendance, capture, old, job>>
    BY DEF Receive, siteVars
  <1>1. p \in Wait /\ p.keys \in SUBSET Key /\ ok \in SUBSET Key
    BY DEF TypeOK, Wait
  <1>2. \A k \in ok : Recorded(k)
    BY DEF PageInv
  <1>3. /\ told \subseteq told' /\ told' \in SUBSET Key
        /\ store' \in SUBSET Key
        /\ \A k \in store : k \in store' \/ Recorded(k)
        /\ p.kind = "online" => \A k \in p.keys : k \in store' \cup told' \/ Recorded(k)
    <2>1. CASE p.kind = "sync" /\ store' = store \ ok /\ UNCHANGED told
      BY <1>2, <2>1 DEF TypeOK
    <2>2. CASE p.kind = "online" /\ Caught(p.keys)
      BY <1>1, <2>2 DEF Caught, TypeOK
    <2>3. CASE p.kind = "online" /\ ok = p.keys /\ UNCHANGED <<store, told>>
      BY <1>2, <2>3 DEF TypeOK
    <2> QED
      BY <2>1, <2>2, <2>3 DEF Receive, Cleared
  <1>4. page' \in [Tab -> SUBSET Wait] /\ PageInv'
    BY <1>0, PageLeft
  <1>5. TypeOK'
    BY <1>0, <1>3, <1>4 DEF TypeOK
  <1>6. NothingIsLost'
    BY <1>0, <1>3, LeftNotLost
  <1>7. JobsKept /\ CapturesKept
    BY <1>0 DEF JobsKept, JobInv, CapturesKept, AttendanceInv
  <1> QED
    BY <1>0, <1>4, <1>5, <1>6, <1>7, ServerUntouched

LEMMA GiveUpInv ==
    ASSUME IInv, NEW t \in Tab, NEW p \in page[t], GiveUp(t, p)
    PROVE  IInv'
  <1> USE DEF IInv
  <1>0. /\ page' = [page EXCEPT ![t] = {}]
        /\ job' = [g \in Server |-> {[j EXCEPT !.tab = @ \ {t}] : j \in job[g]}]
        /\ UNCHANGED <<roster, transfer, edited, attendance, capture, old>>
    BY DEF GiveUp, siteVars
  <1>1. p \in Wait /\ p.keys \in SUBSET Key
    BY DEF TypeOK, Wait
  <1>2. /\ told \subseteq told' /\ told' \in SUBSET Key
        /\ store \subseteq store' /\ store' \in SUBSET Key
        /\ p.kind = "online" => \A k \in p.keys : k \in store' \cup told'
    <2>1. CASE p.kind = "sync"
      BY <2>1 DEF GiveUp, TypeOK
    <2>2. CASE p.kind # "sync" /\ Caught(p.keys)
      BY <1>1, <2>2 DEF Caught, TypeOK
    <2> QED
      BY <2>1, <2>2 DEF GiveUp
  <1>3. page' \in [Tab -> SUBSET Wait] /\ PageInv'
    BY <1>0, PageLeft
  <1>4. \A g \in Server : \A j \in job[g] :
           LET i == [j EXCEPT !.tab = @ \ {t}]
           IN  i \in Request /\ i.ok = j.ok /\ i.made = j.made
    BY DEF TypeOK, Request
  <1>5. \A g \in Server : job'[g] = {[j EXCEPT !.tab = @ \ {t}] : j \in job[g]}
    BY <1>0
  <1>6. job' \in [Server -> SUBSET Request]
    BY <1>0, <1>4
  <1>7. JobsKept /\ CapturesKept
    <2>1. JobsKept
      <3> SUFFICES ASSUME NEW g \in Server, NEW j \in job'[g]
                   PROVE  /\ \A i \in job'[g] : i = j
                          /\ \E i \in job[g] : j.ok = i.ok /\ j.made = i.made
        BY DEF JobsKept
      <3>1. PICK i \in job[g] : j = [i EXCEPT !.tab = @ \ {t}]
        BY <1>5
      <3>2. \A a \in job'[g] : a = j
        BY <1>5, <3>1 DEF JobInv
      <3> QED
        BY <1>4, <3>1, <3>2
    <2> QED
      BY <1>0, <2>1 DEF CapturesKept, AttendanceInv
  <1>8. TypeOK'
    BY <1>0, <1>2, <1>3, <1>6 DEF TypeOK
  <1>9. NothingIsLost'
    BY <1>0, <1>2, LeftNotLost
  <1> QED
    BY <1>0, <1>3, <1>7, <1>8, <1>9, ServerUntouched

LEMMA LoadInv == ASSUME IInv, Load PROVE IInv'
  <1> USE DEF IInv
  <1>0. /\ store' = store \ old
        /\ UNCHANGED <<roster, transfer, edited, attendance, capture, old, page, told, job>>
    BY DEF Load, siteVars
  <1>1. TypeOK'
    BY <1>0 DEF TypeOK
  <1>2. PageInv' /\ NothingIsLost'
    BY <1>0 DEF PageInv, NothingIsLost, Recorded
  <1>3. JobsKept /\ CapturesKept
    BY <1>0 DEF JobsKept, JobInv, CapturesKept, AttendanceInv
  <1> QED
    BY <1>0, <1>1, <1>2, <1>3, ServerUntouched

LEMMA AgeInv == ASSUME IInv, NEW k \in Key, Age(k) PROVE IInv'
  <1> USE DEF IInv
  <1>0. /\ old' = old \cup {k}
        /\ UNCHANGED <<roster, transfer, edited, attendance, capture, store, page, told, job>>
    BY DEF Age, siteVars
  <1>1. TypeOK'
    BY <1>0 DEF TypeOK
  <1>2. PageInv' /\ NothingIsLost'
    BY <1>0 DEF PageInv, NothingIsLost, Recorded
  <1>3. JobsKept /\ CapturesKept
    BY <1>0 DEF JobsKept, JobInv, CapturesKept, AttendanceInv
  <1> QED
    BY <1>0, <1>1, <1>2, <1>3, ServerUntouched

-----------------------------------------------------------------------------
(* The server *)

(* A request in progress, and what becomes of it. *)
LEMMA JobTyped ==
    ASSUME TypeOK, NEW g \in Server, NEW j \in job[g]
    PROVE  /\ j \in Request
           /\ j.tab \in SUBSET Tab /\ j.todo \in SUBSET Key /\ j.seen \in SUBSET Key
           /\ j.ok \in SUBSET Key /\ j.made \in SUBSET Creation
  BY DEF TypeOK, Request

LEMMA GoesTyped ==
    ASSUME TypeOK, NEW g \in Server, NEW to \in Request, Goes(g, to)
    PROVE  /\ job' \in [Server -> SUBSET Request]
           /\ job'[g] = {to}
           /\ \A h \in Server \ {g} : job'[h] = job[h]
  BY DEF TypeOK, Goes

(* The parts of the invariant that steps of a server process leave alone,  *)
(* as long as it does not commit.                                          *)
LEMMA UncommittedFrame ==
    ASSUME IInv, UNCHANGED <<siteVars, attendance, deviceVars>>,
           job' \in [Server -> SUBSET Request]
    PROVE  /\ TypeOK' /\ PageInv' /\ NothingIsLost'
           /\ RosterInv' /\ AttendanceInv' /\ RecordedAsRostered'
  <1> USE DEF IInv, siteVars, deviceVars
  <1>1. TypeOK'
    BY DEF TypeOK
  <1>2. PageInv' /\ NothingIsLost'
    BY DEF PageInv, NothingIsLost, Recorded
  <1>3. RosterInv' /\ AttendanceInv' /\ RecordedAsRostered'
    BY DEF RosterInv, AttendanceInv, RecordedAsRostered
  <1> QED
    BY <1>1, <1>2, <1>3

(* A process that creates nothing. *)
LEMMA SameMade ==
    ASSUME MadeInv, HolderInv, NEW g \in Server, NEW j \in job[g], NEW to \in Request,
           to.made = j.made, job'[g] = {to}, \A h \in Server \ {g} : job'[h] = job[h],
           UNCHANGED <<siteVars, attendance, deviceVars>>
    PROVE  MadeInv' /\ HolderInv'
  <1>1. \A h \in Server : \A i \in job'[h] : \E a \in job[h] : i.made = a.made
    OBVIOUS
  <1>2. MadeInv'
    BY <1>1 DEF MadeInv, siteVars, deviceVars
  <1>3. HolderInv'
    BY <1>1 DEF HolderInv
  <1> QED
    BY <1>2, <1>3

LEMMA LookupInv ==
    ASSUME IInv, NEW g \in Server, NEW j \in job[g], NEW k \in j.todo, Lookup(g, j, k)
    PROVE  IInv'
  <1> USE DEF IInv
  <1> DEFINE found == [j EXCEPT !.todo = @ \ {k}, !.ok = @ \cup {k}]
             not == [j EXCEPT !.seen = {k}]
  <1>0. UNCHANGED <<siteVars, attendance, deviceVars>>
    BY DEF Lookup
  <1>1. /\ k \in Key
        /\ found \in Request /\ found.ok = j.ok \cup {k} /\ found.made = j.made
        /\ not \in Request /\ not.ok = j.ok /\ not.made = j.made
    BY JobTyped DEF Request
  <1>2. \/ Goes(g, found) /\ (Recorded(k) \/ \E m \in j.made : m.key = k)
        \/ Goes(g, not)
    BY DEF Lookup
  <1> HIDE DEF found, not
  <1>3. PICK to \in Request :
           /\ Goes(g, to)
           /\ to.made = j.made
           /\ \A q \in to.ok : q \in j.ok \/ Recorded(q) \/ \E m \in j.made : m.key = q
    BY <1>1, <1>2
  <1>4. /\ job' \in [Server -> SUBSET Request]
        /\ job'[g] = {to}
        /\ \A h \in Server \ {g} : job'[h] = job[h]
    BY <1>3, GoesTyped
  <1>5. JobInv'
    BY <1>0, <1>3, <1>4 DEF JobInv, Recorded
  <1>6. MadeInv' /\ HolderInv'
    BY <1>0, <1>3, <1>4, SameMade
  <1> QED
    BY <1>0, <1>4, <1>5, <1>6, UncommittedFrame

LEMMA RefuseInv ==
    ASSUME IInv, NEW g \in Server, NEW j \in job[g], NEW k \in j.seen, Refuse(g, j, k)
    PROVE  IInv'
  <1> USE DEF IInv
  <1> DEFINE to == [j EXCEPT !.todo = @ \ {k}, !.seen = {}]
  <1>0. UNCHANGED <<siteVars, attendance, deviceVars>> /\ Goes(g, to)
    BY DEF Refuse
  <1>1. to \in Request /\ to.ok = j.ok /\ to.made = j.made
    BY JobTyped DEF Request
  <1> HIDE DEF to
  <1>2. /\ job' \in [Server -> SUBSET Request]
        /\ job'[g] = {to}
        /\ \A h \in Server \ {g} : job'[h] = job[h]
    BY <1>0, <1>1, GoesTyped
  <1>3. JobInv'
    BY <1>0, <1>1, <1>2 DEF JobInv, Recorded
  <1>4. MadeInv' /\ HolderInv'
    BY <1>0, <1>1, <1>2, SameMade
  <1> QED
    BY <1>0, <1>2, <1>3, <1>4, UncommittedFrame

LEMMA CheckInInv ==
    ASSUME IInv, NEW g \in Server, NEW j \in job[g], NEW k \in j.seen, NEW r \in Roster,
           CheckIn(g, j, k, r)
    PROVE  IInv'
  <1> USE DEF IInv
  <1>0. /\ UNCHANGED <<siteVars, attendance, deviceVars>>
        /\ r \in capture[k] /\ RowFree(r) /\ attendance[r] = {}
    BY DEF CheckIn
  <1>1. PICK row \in roster[r] :
           Goes(g, [j EXCEPT !.todo = @ \ {k}, !.seen = {}, !.ok = @ \cup {k},
                             !.made = @ \cup {[roster |-> r, key |-> k,
                                               worker |-> row.worker, site |-> row.site,
                                               date |-> row.date]}])
    BY DEF CheckIn
  <1> DEFINE c == [roster |-> r, key |-> k, worker |-> row.worker, site |-> row.site,
                  date |-> row.date]
             to == [j EXCEPT !.todo = @ \ {k}, !.seen = {}, !.ok = @ \cup {k},
                             !.made = @ \cup {c}]
  <1>2. /\ c \in Creation /\ c.roster = r /\ c.key = k
        /\ c.worker = row.worker /\ c.site = row.site /\ c.date = row.date
    <2>1. k \in Key /\ row.worker \in Worker /\ row.site \in Site /\ row.date \in Date
      BY JobTyped DEF TypeOK, RosterRow
    <2> QED
      BY <2>1 DEF Creation
  <1>3. Goes(g, to)
    BY <1>1
  <1> HIDE DEF c
  <1>4. to \in Request /\ to.ok = j.ok \cup {k} /\ to.made = j.made \cup {c}
    BY JobTyped, <1>2 DEF Request
  <1> HIDE DEF to
  <1>5. /\ job' \in [Server -> SUBSET Request]
        /\ job'[g] = {to}
        /\ \A h \in Server \ {g} : job'[h] = job[h]
    BY <1>3, <1>4, GoesTyped
  <1>6. JobInv'
    BY <1>0, <1>2, <1>4, <1>5 DEF JobInv, Recorded
  <1>7. \A h \in Server : \A i \in job'[h] : \A m \in i.made :
           \/ m = c /\ h = g
           \/ \E a \in job[h] : m \in a.made
    BY <1>4, <1>5
  <1>8. MadeInv'
    <2> SUFFICES ASSUME NEW h \in Server, NEW i \in job'[h], NEW m \in i.made
                 PROVE  /\ attendance[m.roster] = {}
                        /\ capture[m.key] = {m.roster}
                        /\ \E x \in roster[m.roster] :
                              m.worker = x.worker /\ m.site = x.site /\ m.date = x.date
      BY <1>0 DEF MadeInv, siteVars, deviceVars
    <2>1. CASE \E a \in job[h] : m \in a.made
      BY <2>1 DEF MadeInv
    <2>2. CASE m = c
      <3>1. capture[k] = {r}
        BY <1>0, JobTyped DEF AttendanceInv
      <3> QED
        BY <1>0, <1>2, <2>2, <3>1
    <2> QED
      BY <1>7, <2>1, <2>2
  <1>9. HolderInv'
    <2> SUFFICES ASSUME NEW h \in Server, NEW l \in Server, NEW a \in job'[h], NEW b \in job'[l],
                        NEW m \in a.made, NEW n \in b.made, m.roster = n.roster
                 PROVE  h = l /\ m = n
      BY DEF HolderInv
    <2>1. \A h1 \in Server : \A j1 \in job[h1] : \A m1 \in j1.made : m1.roster # r
      BY <1>0 DEF RowFree, Held
    <2> QED
      BY <1>2, <1>7, <2>1 DEF HolderInv
  <1> QED
    BY <1>0, <1>5, <1>6, <1>8, <1>9, UncommittedFrame

(* What the page learns when a request ends, and what the process forgets. *)
LEMMA AnswersTyped ==
    ASSUME TypeOK, PageInv, NEW g \in Server, NEW j \in job[g], NEW ok \in SUBSET Key,
           Answers(g, j, ok),
           \A k \in Key : Recorded(k) => Recorded(k)',
           \A k \in ok : Recorded(k)'
    PROVE  /\ job' \in [Server -> SUBSET Request]
           /\ job'[g] = {} /\ \A h \in Server \ {g} : job'[h] = job[h]
           /\ page' \in [Tab -> SUBSET Wait]
           /\ PageInv'
           /\ \A t \in Tab : \A p \in page[t] :
                 \E q \in page'[t] : q.kind = p.kind /\ q.keys = p.keys
  <1> DEFINE answered(p) == [p EXCEPT !.answer = {ok}]
  <1>1. /\ job' \in [Server -> SUBSET Request]
        /\ job'[g] = {} /\ \A h \in Server \ {g} : job'[h] = job[h]
    BY DEF Answers, TypeOK
  <1>2. \A t \in Tab : page'[t] = page[t] \/ page'[t] = {answered(p) : p \in page[t]}
    BY DEF Answers
  <1>3. \A t \in Tab : \A p \in page[t] :
           /\ answered(p) \in Wait /\ answered(p).answer = {ok}
           /\ answered(p).kind = p.kind /\ answered(p).keys = p.keys
    BY DEF TypeOK, Wait
  <1>4. DOMAIN page' = Tab /\ page' = [t \in Tab |-> page'[t]]
    BY DEF Answers
  <1> HIDE DEF answered
  <1>5. page' \in [Tab -> SUBSET Wait]
    <2>1. \A t \in Tab : page'[t] \in SUBSET Wait
      BY <1>2, <1>3 DEF TypeOK
    <2> QED
      BY <1>4, <2>1
  <1>6. \A t \in Tab : \A q \in page'[t] : \E p \in page[t] : q = p \/ q = answered(p)
    BY <1>2
  <1>7. PageInv'
    <2>1. \A t \in Tab : \A p, q \in page'[t] : p = q
      BY <1>2 DEF PageInv
    <2>2. \A t \in Tab : \A q \in page'[t] : \A o \in q.answer : \A k \in o : Recorded(k)'
      <3> SUFFICES ASSUME NEW t \in Tab, NEW q \in page'[t], NEW o \in q.answer, NEW k \in o
                   PROVE  Recorded(k)'
        OBVIOUS
      <3>1. PICK p \in page[t] : q = p \/ q = answered(p)
        BY <1>6
      <3>2. CASE q = p
        BY <3>2 DEF PageInv, TypeOK, Wait
      <3>3. CASE q = answered(p)
        BY <1>3, <3>3
      <3> QED
        BY <3>1, <3>2, <3>3
    <2> QED
      BY <2>1, <2>2 DEF PageInv
  <1>8. \A t \in Tab : \A p \in page[t] :
           \E q \in page'[t] : q.kind = p.kind /\ q.keys = p.keys
    BY <1>2, <1>3
  <1> QED
    BY <1>1, <1>5, <1>7, <1>8

LEMMA RollbackInv ==
    ASSUME IInv, NEW g \in Server, NEW j \in job[g], Rollback(g, j)
    PROVE  IInv'
  <1> USE DEF IInv
  <1>0. /\ Answers(g, j, {})
        /\ UNCHANGED <<roster, transfer, edited, attendance, capture, old, store, told>>
    BY DEF Rollback, siteVars
  <1>1. \A k \in Key : Recorded(k) => Recorded(k)'
    BY <1>0 DEF Recorded
  <1>2. /\ job' \in [Server -> SUBSET Request]
        /\ job'[g] = {} /\ \A h \in Server \ {g} : job'[h] = job[h]
        /\ page' \in [Tab -> SUBSET Wait]
        /\ PageInv'
        /\ \A t \in Tab : \A p \in page[t] :
              \E q \in page'[t] : q.kind = p.kind /\ q.keys = p.keys
    BY <1>0, <1>1, AnswersTyped
  <1>3. TypeOK'
    BY <1>0, <1>2 DEF TypeOK
  <1>4. JobsKept /\ CapturesKept
    BY <1>0, <1>2 DEF JobsKept, JobInv, CapturesKept, AttendanceInv
  <1>5. NothingIsLost'
    BY <1>0, <1>2 DEF NothingIsLost, Recorded
  <1> QED
    BY <1>0, <1>2, <1>3, <1>4, <1>5, ServerUntouched

LEMMA CommitInv ==
    ASSUME IInv, NEW g \in Server, NEW j \in job[g], Commit(g, j)
    PROVE  IInv'
  <1> USE DEF IInv
  <1>0. /\ attendance' = [r \in Roster |-> attendance[r] \cup Made(j, r)]
        /\ Answers(g, j, j.ok)
        /\ UNCHANGED <<roster, transfer, edited, capture, old, store, told>>
    BY DEF Commit, siteVars
  <1>1. \A r \in Roster : attendance'[r] = attendance[r] \cup Made(j, r)
    BY <1>0
  <1>2. \A r \in Roster : \A a \in Made(j, r) : \E m \in j.made :
           m.roster = r /\ a = [key |-> m.key, worker |-> m.worker, site |-> m.site, date |-> m.date]
    BY DEF Made
  <1>3. \A m \in j.made : m.roster \in Roster /\ m.key \in Key
                          /\ m.worker \in Worker /\ m.site \in Site /\ m.date \in Date
    BY JobTyped DEF Creation
  <1>4. \A m \in j.made :
           [key |-> m.key, worker |-> m.worker, site |-> m.site, date |-> m.date]
             \in attendance'[m.roster]
    BY <1>1, <1>3 DEF Made
  <1>5. \A k \in Key : Recorded(k) => Recorded(k)'
    BY <1>1 DEF Recorded
  <1>6. \A m \in j.made : Recorded(m.key)'
    BY <1>3, <1>4 DEF Recorded
  <1>7. \A k \in j.ok : Recorded(k)'
    BY <1>5, <1>6, JobTyped DEF JobInv
  <1>8. /\ job' \in [Server -> SUBSET Request]
        /\ job'[g] = {} /\ \A h \in Server \ {g} : job'[h] = job[h]
        /\ page' \in [Tab -> SUBSET Wait]
        /\ PageInv'
        /\ \A t \in Tab : \A p \in page[t] :
              \E q \in page'[t] : q.kind = p.kind /\ q.keys = p.keys
    BY <1>0, <1>5, <1>7, JobTyped, AnswersTyped
  <1>9. TypeOK'
    <2>1. \A r \in Roster : attendance'[r] \in SUBSET Attendance
      BY <1>1, <1>2, <1>3 DEF TypeOK, Attendance
    <2>2. attendance' \in [Roster -> SUBSET Attendance]
      BY <1>0, <2>1
    <2> QED
      BY <1>0, <1>8, <2>2 DEF TypeOK
  <1>10. JobInv'
    <2> SUFFICES ASSUME NEW h \in Server, NEW i \in job'[h]
                 PROVE  /\ \A a \in job'[h] : a = i
                        /\ \A k \in i.ok : Recorded(k)' \/ \E m \in i.made : m.key = k
      BY DEF JobInv
    <2>1. i \in job[h] /\ job'[h] = job[h]
      BY <1>8
    <2>2. i.ok \in SUBSET Key
      BY <2>1, JobTyped
    <2> QED
      BY <1>5, <2>1, <2>2 DEF JobInv
  <1>11. MadeInv'
    <2> SUFFICES ASSUME NEW h \in Server, NEW i \in job'[h], NEW m \in i.made
                 PROVE  /\ attendance'[m.roster] = {}
                        /\ capture[m.key] = {m.roster}
                        /\ \E x \in roster[m.roster] :
                              m.worker = x.worker /\ m.site = x.site /\ m.date = x.date
      BY <1>0, ZenonT(40) DEF MadeInv
    <2>1. h # g /\ i \in job[h]
      BY <1>8
    <2>2. m.roster \in Roster
      BY <2>1, JobTyped DEF Creation
    <2>3. Made(j, m.roster) = {}
      BY <1>2, <2>1, <2>2 DEF HolderInv
    <2> QED
      BY <1>1, <2>1, <2>2, <2>3 DEF MadeInv
  <1>12. HolderInv'
    BY <1>8 DEF HolderInv
  <1>13. AttendanceInv'
    <2> SUFFICES ASSUME NEW r \in Roster, NEW a \in attendance'[r]
                 PROVE  (\A b \in attendance'[r] : a = b) /\ capture[a.key] = {r}
      BY <1>0 DEF AttendanceInv
    <2>1. CASE Made(j, r) = {}
      BY <1>1, <2>1 DEF AttendanceInv
    <2>2. CASE Made(j, r) # {}
      <3>1. attendance[r] = {}
        BY <1>2, <2>2 DEF MadeInv
      <3>2. attendance'[r] = Made(j, r)
        BY <1>1, <3>1
      <3>3. \A b \in attendance'[r] : a = b
        BY <1>2, <3>2 DEF HolderInv
      <3>4. capture[a.key] = {r}
        BY <1>2, <3>2 DEF MadeInv
      <3> QED
        BY <3>3, <3>4
    <2> QED
      BY <2>1, <2>2
  <1>14. RosterInv'
    BY <1>0 DEF RosterInv
  <1>15. RecordedAsRostered'
    <2> SUFFICES ASSUME NEW r \in Roster \ edited, NEW a \in attendance'[r]
                 PROVE  \E x \in roster[r] : a.worker = x.worker /\ a.site = x.site /\ a.date = x.date
      BY <1>0 DEF RecordedAsRostered
    <2>1. CASE a \in attendance[r]
      BY <2>1 DEF RecordedAsRostered
    <2>2. CASE a \in Made(j, r)
      BY <1>2, <2>2 DEF MadeInv
    <2> QED
      BY <1>1, <2>1, <2>2
  <1>16. NothingIsLost'
    BY <1>0, <1>5, <1>8 DEF NothingIsLost
  <1> QED
    BY <1>8, <1>9, <1>10, <1>11, <1>12, <1>13, <1>14, <1>15, <1>16

-----------------------------------------------------------------------------
LEMMA SiteStepInv == IInv /\ SiteStep => IInv'
  BY CreateRosterInv, EditRosterInv, DeleteRosterInv, RequestTransferInv,
     ApproveReadInv, ApproveTransferInv DEF SiteStep

LEMMA DeviceStepInv == IInv /\ DeviceStep => IInv'
  BY PressInv, SyncInv, GiveUpInv, ReceiveInv, LoadInv, AgeInv DEF DeviceStep

LEMMA ServerStepInv ==
    ASSUME IInv, NEW g \in Server, ServerStep(g)
    PROVE  IInv'
  <1>1. PICK j \in job[g] :
           \/ \E k \in j.todo : Lookup(g, j, k)
           \/ \E k \in j.seen : Refuse(g, j, k) \/ \E r \in Roster : CheckIn(g, j, k, r)
           \/ Commit(g, j)
           \/ Rollback(g, j)
    BY DEF ServerStep
  <1> QED
    BY <1>1, LookupInv, RefuseInv, CheckInInv, CommitInv, RollbackInv

LEMMA StutterInv == IInv /\ UNCHANGED vars => IInv'
  <1> SUFFICES ASSUME IInv, UNCHANGED vars PROVE IInv'
    OBVIOUS
  <1> USE DEF IInv, vars, siteVars, deviceVars
  <1>1. TypeOK'
    BY DEF TypeOK
  <1>2. PageInv' /\ JobInv' /\ MadeInv' /\ HolderInv'
    BY DEF PageInv, JobInv, MadeInv, HolderInv, Recorded
  <1>3. RosterInv' /\ AttendanceInv' /\ RecordedAsRostered' /\ NothingIsLost'
    BY DEF RosterInv, AttendanceInv, RecordedAsRostered, NothingIsLost, Recorded
  <1> QED
    BY <1>1, <1>2, <1>3

LEMMA Inductive == Spec => []IInv
  <1>1. Init => IInv
    BY InitInv
  <1>2. IInv /\ [Next]_vars => IInv'
    BY SiteStepInv, DeviceStepInv, ServerStepInv, StutterInv DEF Next
  <1> QED
    BY <1>1, <1>2, PTL DEF Spec

(* Rosters, captures, pages and requests have their types. *)
THEOREM Typing == Spec => []TypeOK
  BY Inductive, PTL DEF IInv

(* No capture is lost silently, whatever of the requests and their answers *)
(* is lost, late or repeated: sync clears only keys the server recorded.   *)
THEOREM NothingLost == Spec => []NothingIsLost
  BY Inductive, PTL DEF IInv

(* An attendance is as its roster was, also when the roster is edited or   *)
(* transferred while the check-in is in progress.                          *)
THEOREM AsRostered == Spec => []RecordedAsRostered
  BY Inductive, PTL DEF IInv

(* One attendance per roster and key, and one per worker and date as long  *)
(* as attended rosters keep their worker, site and date.                   *)
THEOREM Once == Spec => []AttendedOnce
  <1>1. IInv => AttendedOnce
    <2> SUFFICES ASSUME IInv PROVE AttendedOnce
      OBVIOUS
    <2> USE DEF IInv
    <2>1. ASSUME NEW r \in Roster PROVE Cardinality(attendance[r]) \leq 1
      <3>1. CASE attendance[r] = {}
        BY <3>1, FS_EmptySet
      <3>2. CASE attendance[r] # {}
        <4>1. PICK a \in attendance[r] : attendance[r] = {a}
          BY <3>2 DEF AttendanceInv
        <4> QED
          BY <4>1, FS_Singleton
      <3> QED
        BY <3>1, <3>2
    <2>2. ASSUME NEW r \in Roster, NEW s \in Roster, r # s,
                 NEW a \in attendance[r], NEW b \in attendance[s]
          PROVE  /\ a.key # b.key
                 /\ a.worker = b.worker /\ a.date = b.date => r \in edited \/ s \in edited
      <3>1. a.key # b.key
        BY <2>2 DEF AttendanceInv
      <3>2. ASSUME r \notin edited, s \notin edited PROVE a.worker # b.worker \/ a.date # b.date
        <4>1. PICK x \in roster[r] : a.worker = x.worker /\ a.date = x.date
          BY <3>2 DEF RecordedAsRostered
        <4>2. PICK y \in roster[s] : b.worker = y.worker /\ b.date = y.date
          BY <3>2 DEF RecordedAsRostered
        <4> QED
          BY <2>2, <4>1, <4>2 DEF RosterInv
      <3> QED
        BY <3>1, <3>2
    <2> QED
      BY <2>1, <2>2 DEF AttendedOnce
  <1> QED
    BY <1>1, Inductive, PTL
=============================================================================
