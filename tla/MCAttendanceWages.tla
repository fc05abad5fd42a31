--------------------------- MODULE MCAttendanceWages ---------------------------
(* Instances of AttendanceWages for TLC. *)
EXTENDS AttendanceWages

CONSTANT Flagged   \* the attendances that may be late or left early

OnlyFlaggedDays ==
    \A a \in Attendance \ Flagged, f \in Flag : exception[a][f] = "none"

(* Either no day has a time exception, or only flagged days exist: the     *)
(* decisions of a day never touch another day.                             *)
OneSceneAtATime ==
    /\ OnlyFlaggedDays
    /\ \/ \A a \in Attendance, f \in Flag : exception[a][f] = "none"
       \/ \A a \in Attendance \ Flagged : status[a] = "absent"
================================================================================
