---------------------------- MODULE SignCalendar ----------------------------
(***************************************************************************)
(* The calendar of sign-in records that a student may open, over the       *)
(* register that signing in keeps (AttendanceRegister, which Attendance    *)
(* implements).                                                            *)
(*                                                                         *)
(* The page asks once, as it opens, for the student's records, oldest      *)
(* first; the service returns no more than its limit.  A day of a record   *)
(* in the answer gets a star, every other day says "not signed in", also   *)
(* before there is an answer and when it is an error.                      *)
(***************************************************************************)
EXTENDS Integers, FiniteSets

CONSTANTS
    Claims, Students, Days, None,  \* of the register; days are integers
    Limit                          \* most records in an answer of the service

ASSUME CalendarAssumption ==
    Days \subseteq Int /\ Limit \in Nat \ {0} /\ IsFiniteSet(Claims)

VARIABLES
    outcome, register, student, day,  \* of AttendanceRegister
    page,      \* of the calendar: closed, asked, answered or shown
    viewer,    \* whose records it shows
    objects,   \* the answer to its query
    stars,     \* _allSignDateArr
    told,      \* history: claims that were told to be on record when it opened
    errored    \* history: whether its query failed

calendar == <<page, viewer, objects, stars, told, errored>>
claims == <<outcome, register, student, day>>
vars == <<claims, calendar>>

Attended == INSTANCE AttendanceRegister

Records(s) == {c \in register : student[c] = s}

\* Slip: signDate descending.
OldestLast(records) ==
    {first \in SUBSET records :
        /\ Cardinality(first) = Limit \/ (first = records /\ Cardinality(first) < Limit)
        /\ \A c \in first, d \in records \ first : day[c] >= day[d]}

\* What a query for these records by ascending signDate may return.
Oldest(records) ==
    {first \in SUBSET records :
        /\ Cardinality(first) = Limit \/ (first = records /\ Cardinality(first) < Limit)
        /\ \A c \in first, d \in records \ first : day[c] <= day[d]}

-----------------------------------------------------------------------------
Init ==
    /\ Attended!Init
    /\ page = "closed" /\ viewer \in Students
    /\ objects = {} /\ stars = {}
    /\ told = {} /\ errored = FALSE

\* A teacher signs students in, on another phone.
Attend == Attended!Next /\ UNCHANGED calendar

\* showSignViewController and networkGetSignHistoryWithUserName: a new page, with
\* no stars, asks for the records of the account.
OpenCalendar(s) ==
    /\ page = "closed"
    /\ page' = "asked"
    /\ viewer' = s
    /\ objects' = {} /\ stars' = {}
    /\ told' = {c \in Claims : outcome[c] \in {"signed", "filtered"}}
    /\ errored' = FALSE
    /\ UNCHANGED claims

\* Slip: the records are asked for without the student's name.
ServeHistoryOfAll ==
    /\ page = "asked"
    /\ page' = "answered"
    /\ objects' \in Oldest(register)
    /\ UNCHANGED <<claims, viewer, stars, told, errored>>

\* The service answers from the register as it is then.
ServeHistory ==
    /\ page = "asked"
    /\ page' = "answered"
    /\ objects' \in Oldest(Records(viewer))
    /\ UNCHANGED <<claims, viewer, stars, told, errored>>

\* The query fails: its callback gets nil.
FailHistory ==
    /\ page = "asked"
    /\ page' = "answered"
    /\ objects' = {}
    /\ errored' = TRUE
    /\ UNCHANGED <<claims, viewer, stars, told>>

\* Slip: an answer without records is not shown.
ShowStarsOfSome ==
    /\ page = "answered" /\ objects # {}
    /\ page' = "shown"
    /\ stars' = {day[c] : c \in objects}
    /\ UNCHANGED <<claims, viewer, objects, told, errored>>

\* The callback: a star for the day of each object, the spinner goes, the calendar
\* is drawn again.
ShowStars ==
    /\ page = "answered"
    /\ page' = "shown"
    /\ stars' = {day[c] : c \in objects}
    /\ UNCHANGED <<claims, viewer, objects, told, errored>>

\* Back, or a restart: the page is gone, and an answer still to come with it.
CloseCalendar ==
    /\ page # "closed"
    /\ page' = "closed"
    /\ objects' = {} /\ stars' = {}
    /\ UNCHANGED <<claims, viewer, told, errored>>

Next ==
    \/ Attend
    \/ \E s \in Students : OpenCalendar(s)
    \/ ServeHistory \/ FailHistory \/ ShowStars \/ CloseCalendar

Spec == Init /\ [][Next]_vars

\* The SDK calls the callback in the end, with an answer or an error.
FairSpec == Spec /\ WF_vars(ServeHistory \/ FailHistory) /\ WF_vars(ShowStars)

-----------------------------------------------------------------------------
TypeOK ==
    /\ outcome \in [Claims -> {"none", "pending", "dropped", "signed", "filtered", "failed"}]
    /\ register \subseteq Claims
    /\ student \in [Claims -> Students \cup {None}]
    /\ day \in [Claims -> Days]
    /\ page \in {"closed", "asked", "answered", "shown"}
    /\ viewer \in Students
    /\ objects \subseteq Claims /\ stars \subseteq Days
    /\ told \subseteq Claims /\ errored \in BOOLEAN

\* Records up to and on a day, the duplicates counted.
UpTo(d) == {c \in Records(viewer) : day[c] <= d}

\* The days that were told of the student, those behind the limit left out.
Covered(days) ==
    \A c \in told :
        (student[c] = viewer /\ Cardinality(UpTo(day[c])) <= Limit) => day[c] \in days

\* What a teacher was told of a student before the student looked is in the
\* calendar: a day that was told to be signed, or to be signed already, has its
\* star, unless the query failed or the limit has room for older records only.
ToldIsStarred == (page = "shown" /\ ~errored) => Covered(stars)

\* The invariant of the proofs: also, what was told is on record, what the query
\* found covers it as long as it does, and every star is for a record.
IInv ==
    /\ TypeOK
    /\ \A c \in register : outcome[c] # "none"
    /\ \A c \in Claims : outcome[c] \in {"signed", "filtered"} =>
        \E b \in register : student[b] = student[c] /\ day[b] = day[c]
    /\ \A c \in told : outcome[c] \in {"signed", "filtered"}
    /\ objects \subseteq Records(viewer)
    /\ \A d \in stars : \E c \in Records(viewer) : day[c] = d
    /\ (page = "answered" /\ ~errored) => Covered({day[c] : c \in objects})
    /\ ToldIsStarred

\* A calendar that is left open is drawn in the end.
CalendarIsDrawn == page = "asked" ~> page \in {"shown", "closed"}
=============================================================================
