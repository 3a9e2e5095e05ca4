------------------------- MODULE AttendanceRegister -------------------------
(***************************************************************************)
(* What a teacher may expect of signing students in: each tap is a claim   *)
(* that a student was there on a day, it is written down at most once, and *)
(* its outcome, once told, is final and true of the register.  Nothing is  *)
(* said of requests, and a claim may be dropped without an outcome.        *)
(***************************************************************************)
CONSTANTS Claims, Students, Days, None

VARIABLES
    outcome,   \* of each claim
    register,  \* claims written down
    student,   \* whom a claim is about
    day        \* and when

vars == <<outcome, register, student, day>>

Init ==
    /\ outcome = [c \in Claims |-> "none"]
    /\ register = {}
    /\ student = [c \in Claims |-> None]
    /\ day \in [Claims -> Days]

\* Some students are claimed to be there, all on one day.
Tap(new, now) ==
    /\ \A c \in new : outcome[c] = "none"
    /\ outcome' = [c \in Claims |-> IF c \in new THEN "pending" ELSE outcome[c]]
    /\ day' = [c \in Claims |-> IF c \in new THEN now ELSE day[c]]
    /\ \E who \in [new -> Students] :
        student' = [c \in Claims |-> IF c \in new THEN who[c] ELSE student[c]]
    /\ UNCHANGED register

\* A claim is written down: never twice, and never once it was told to be there.
\* One that was told to have failed may be, late.
Record(c) ==
    /\ outcome[c] \in {"pending", "dropped", "failed"}
    /\ c \notin register
    /\ register' = register \cup {c}
    /\ UNCHANGED <<outcome, student, day>>

\* A claim that agrees with c is in the register.
OnRecord(c) == \E b \in register : student[b] = student[c] /\ day[b] = day[c]

\* The outcome is told: it was written down, it was there before, or it failed.
Tell(c, o) ==
    /\ outcome[c] = "pending"
    /\ \/ o = "signed" /\ c \in register
       \/ o = "filtered" /\ c \notin register /\ OnRecord(c)
       \/ o = "failed"
    /\ outcome' = [outcome EXCEPT ![c] = o]
    /\ UNCHANGED <<register, student, day>>

\* The outcome of some claims will never be told.
Drop(gone) ==
    /\ \A c \in gone : outcome[c] = "pending"
    /\ outcome' = [c \in Claims |-> IF c \in gone THEN "dropped" ELSE outcome[c]]
    /\ UNCHANGED <<register, student, day>>

Next ==
    \/ \E gone \in SUBSET Claims : Drop(gone)
    \/ \E new \in SUBSET Claims : \E now \in Days : Tap(new, now)
    \/ \E c \in Claims :
        \/ Record(c)
        \/ \E o \in {"signed", "filtered", "failed"} : Tell(c, o)

Spec == Init /\ [][Next]_vars
=============================================================================
