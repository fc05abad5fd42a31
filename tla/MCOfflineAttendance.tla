-------------------------- MODULE MCOfflineAttendance --------------------------
(* Two rosters, two captures, two tabs and two requests served at once.    *)
EXTENDS OfflineAttendance, TLC

CONSTANTS r1, w1, w2, s1, d1, t1   \* members of the sets that the scenes name

(* Two rosters that stay as they are, without transfers: everything        *)
(* the device and the network can do with two captures.                    *)
DeviceScene ==
    LET home == [r \in Roster |-> IF r = r1 THEN w1 ELSE w2]
    IN  /\ edited = {}
        /\ \A x \in Transfer : transfer[x] = {}
        /\ \A r \in Roster :
              roster[r] \subseteq {Row(home[r], s1, d1, "scheduled")}
        /\ (\E k \in Key : capture[k] # {}) \/ (\E r \in Roster \ {r1} : roster[r] # {})
              => roster[r1] # {}
        /\ capture[2] # {} => capture[1] = {r1}
        /\ capture[2] = {r1} => \A r \in Roster \ {r1} : roster[r] = {}
        /\ Cardinality(old) + Cardinality(told) \leq 1
        /\ old \cup told # {} => capture[2] \subseteq {r1}

(* Edits and transfers, with the presses of one tab, one after the other.  *)
(* A row differs from the row of w1 at s1 on d1 in one of the three at     *)
(* most, and a replaced row in none.                                       *)
SiteScene ==
    /\ old = {} /\ store = {} /\ told = {}
    /\ \A t \in Tab \ {t1} : page[t] = {}
    /\ \A g \in Server : \A j \in job[g] : j.tab = {t1} /\ page[t1] # {}
    /\ capture[2] # {} => capture[1] # {}
    /\ \A x \in Transfer : \A t \in transfer[x] : t.worker = w1 /\ t.site # s1
    /\ \A r \in Roster : \A row \in roster[r] :
          \/ row = Row(w1, s1, d1, "replaced")
          \/ /\ row.status = "scheduled"
             /\ \/ row.worker = w1 /\ s1 = row.site
                \/ row.worker = w1 /\ d1 = row.date
                \/ row.site = s1 /\ d1 = row.date

OneScene == DeviceScene \/ SiteScene

(* Which server process handles a request makes no difference. *)
ServerSymmetry == Permutations(Server)
================================================================================
