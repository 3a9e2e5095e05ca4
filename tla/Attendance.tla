----------------------------- MODULE Attendance -----------------------------
(***************************************************************************)
(* Signing students in, from the tap on the sign button of the address     *)
(* book to the record in the cloud table SignHistory.                      *)
(*                                                                         *)
(* One tap starts one chain per selected student: a find on SignHistory,   *)
(* its callback, a save, its callback.  The chains of all phones share     *)
(* nothing but the table, and nothing orders the find of one against the   *)
(* save of another.  The phones' clocks are their own: a chain keeps the   *)
(* date read at its tap.                                                   *)
(*                                                                         *)
(* A day stands for the year, month and day the callback compares.  The    *)
(* cloud service is external: a request may fail, the answer to a save may *)
(* be lost after the save took effect, and answers come in any order.      *)
(***************************************************************************)
EXTENDS Naturals, Functions

CONSTANTS
    Students,   \* usernames of students
    Devices,    \* phones running the app
    Accounts,   \* accounts that log in on the phones
    None,       \* nil: no account logged in, no student, no phone
    Tasks,      \* one per call of networkSignDateWithUserObject (bounds them)
    LastDay     \* bound on the days that pass

ASSUME NoneAssumption == None \notin Accounts \cup Students \cup Devices
ASSUME LastDayAssumption == LastDay \in Nat

VARIABLES
    today,        \* [NSDate date] on each phone, as a day
    currentUser,  \* [AVUser currentUser] on each phone
    phase,        \* how far each chain has come
    student,      \* username the chain is about
    device,       \* phone it runs on
    signDate,     \* day read at the tap
    objects,      \* answer of its find: ids of the records it returned
    signTeacher,  \* account written into the record
    signHistory,  \* the table: ids of the chains whose record is stored
    tapper,       \* history: account that tapped
    prior,        \* history: table at the tap
    errored,      \* history: chains whose find came back with an error
    switched      \* history: chains whose phone changed account before the answer

session == <<today, currentUser, switched>>
tap == <<student, device, signDate, tapper, prior>>
vars == <<today, currentUser, phase, student, device, signDate, objects,
          signTeacher, signHistory, tapper, prior, errored, switched>>

Days == 0 .. LastDay

\* querying, answered: find sent, its answer on the way to the callback.
\* saving, acked, nacked: save sent, its answer on the way to the callback.
\* filtered, signed, failed: how the chain ended for the teacher.
\* lost: the app quit before the end; orphan: so it did with a save under way.
Phases == {"free", "querying", "answered", "saving", "acked", "nacked",
           "filtered", "signed", "failed", "lost", "orphan"}
Settled == {"filtered", "signed", "failed"}
InFlight == {"querying", "answered", "saving", "acked", "nacked"}

-----------------------------------------------------------------------------
Free == {t \in Tasks : phase[t] = "free"}

\* What find returns for a username: every record of that student.
RecordsOf(s) == {t \in signHistory : student[t] = s}

\* Slip: the find sorts by signDate ascending.
SignedTodayAscending(t) ==
    \E u \in objects[t] :
        /\ \A v \in objects[t] : signDate[u] <= signDate[v]
        /\ signDate[u] = signDate[t]

\* Slip: the nil date of an empty answer passes for today.
SignedTodayNil(t) == objects[t] = {} \/ \E u \in objects[t] : signDate[u] = signDate[t]

\* objects is sorted by signDate descending and only firstObject is looked at;
\* an empty or nil answer has no first object and its nil date matches no day.
SignedToday(t) ==
    \E u \in objects[t] :
        /\ \A v \in objects[t] : signDate[v] <= signDate[u]
        /\ signDate[u] = signDate[t]

-----------------------------------------------------------------------------
Init ==
    /\ today = [d \in Devices |-> 0]
    /\ currentUser \in [Devices -> Accounts]
    /\ phase = [t \in Tasks |-> "free"]
    /\ student = [t \in Tasks |-> None]
    /\ device = [t \in Tasks |-> None]
    /\ signDate = [t \in Tasks |-> 0]
    /\ objects = [t \in Tasks |-> {}]
    /\ signTeacher = [t \in Tasks |-> None]
    /\ signHistory = {}
    /\ tapper = [t \in Tasks |-> None]
    /\ prior = [t \in Tasks |-> {}]
    /\ errored = {} /\ switched = {}
-----------------------------------------------------------------------------
\* The sign button with the students of the selected rows.  The loop over the
\* rows runs to its end on the main thread; each call reads the clock, sends
\* its find and returns.  With no row selected the app only says so.
ChooseSign(d, chosen) ==
    /\ currentUser[d] # None
    /\ chosen # {}
    /\ \E new \in SUBSET Free : \E who \in Bijection(new, chosen) :
        /\ phase' = [t \in Tasks |-> IF t \in new THEN "querying" ELSE phase[t]]
        /\ student' = [t \in Tasks |-> IF t \in new THEN who[t] ELSE student[t]]
        /\ device' = [t \in Tasks |-> IF t \in new THEN d ELSE device[t]]
        /\ signDate' = [t \in Tasks |-> IF t \in new THEN today[d] ELSE signDate[t]]
        /\ tapper' = [t \in Tasks |-> IF t \in new THEN currentUser[d] ELSE tapper[t]]
        /\ prior' = [t \in Tasks |-> IF t \in new THEN signHistory ELSE prior[t]]
    /\ UNCHANGED <<session, objects, signTeacher, signHistory, errored>>

\* The service evaluates the find against the table as it then is.
ServeFind(t) ==
    /\ phase[t] = "querying"
    /\ phase' = [phase EXCEPT ![t] = "answered"]
    /\ objects' = [objects EXCEPT ![t] = RecordsOf(student[t])]
    /\ UNCHANGED <<session, tap, signTeacher, signHistory, errored>>

\* The find comes back with an error, and objects is nil.
FailFind(t) ==
    /\ phase[t] = "querying"
    /\ phase' = [phase EXCEPT ![t] = "answered"]
    /\ errored' = errored \cup {t}
    /\ UNCHANGED <<session, tap, objects, signTeacher, signHistory>>

\* The find's callback, a record of today first in the answer.
FilterSigned(t) ==
    /\ phase[t] = "answered"
    /\ SignedToday(t)
    /\ phase' = [phase EXCEPT ![t] = "filtered"]
    /\ objects' = [objects EXCEPT ![t] = {}]
    /\ UNCHANGED <<session, tap, signTeacher, signHistory, errored>>

\* Slip: the student's name goes into both fields of the record.
AddSignAsStudent(t) ==
    /\ phase[t] = "answered"
    /\ ~SignedToday(t)
    /\ phase' = [phase EXCEPT ![t] = "saving"]
    /\ signTeacher' = [signTeacher EXCEPT ![t] = student[t]]
    /\ objects' = [objects EXCEPT ![t] = {}]
    /\ UNCHANGED <<session, tap, signHistory, errored>>

\* Slip: the callback returns at once on an error.
AddSignUnlessError(t) ==
    /\ phase[t] = "answered"
    /\ ~SignedToday(t) /\ t \notin errored
    /\ phase' = [phase EXCEPT ![t] = "saving"]
    /\ signTeacher' = [signTeacher EXCEPT ![t] = currentUser[device[t]]]
    /\ objects' = [objects EXCEPT ![t] = {}]
    /\ UNCHANGED <<session, tap, signHistory, errored>>

\* The find's callback otherwise.  error is not looked at; the account written
\* into the record is the one logged in by now.
AddSign(t) ==
    /\ phase[t] = "answered"
    /\ ~SignedToday(t)
    /\ phase' = [phase EXCEPT ![t] = "saving"]
    /\ signTeacher' = [signTeacher EXCEPT ![t] = currentUser[device[t]]]
    /\ objects' = [objects EXCEPT ![t] = {}]
    /\ UNCHANGED <<session, tap, signHistory, errored>>

\* The service stores the record; its answer may be lost on the way back, and
\* a phone that quit meanwhile gets none.
ServeSave(t) ==
    /\ phase[t] \in {"saving", "orphan"}
    /\ signHistory' = signHistory \cup {t}
    /\ \E next \in IF phase[t] = "orphan" THEN {"lost"} ELSE {"acked", "nacked"} :
        phase' = [phase EXCEPT ![t] = next]
    /\ UNCHANGED <<session, tap, objects, signTeacher, errored>>

\* The save fails; StoreLate is for one that timed out and is stored all the same.
FailSave(t) ==
    /\ phase[t] \in {"saving", "orphan"}
    /\ phase' = [phase EXCEPT ![t] = IF @ = "orphan" THEN "lost" ELSE "nacked"]
    /\ UNCHANGED <<session, tap, objects, signTeacher, signHistory, errored>>

\* A save that the SDK gave up waiting for still reaches the table.
StoreLate(t) ==
    /\ phase[t] \in {"nacked", "failed"} /\ t \notin signHistory
    /\ signHistory' = signHistory \cup {t}
    /\ UNCHANGED <<session, tap, phase, objects, signTeacher, errored>>

\* Slip: a save that fails is sent again.
ReportSaveRetrying(t) ==
    /\ phase[t] \in {"acked", "nacked"}
    /\ phase' = [phase EXCEPT ![t] = IF @ = "acked" THEN "signed" ELSE "saving"]
    /\ UNCHANGED <<session, tap, objects, signTeacher, signHistory, errored>>

\* Slip: the alert is shown whatever the save came to.
ReportSaveAlways(t) ==
    /\ phase[t] \in {"acked", "nacked"}
    /\ phase' = [phase EXCEPT ![t] = "signed"]
    /\ UNCHANGED <<session, tap, objects, signTeacher, signHistory, errored>>

\* The save's callback: the alert for a success or the toast for a failure.
ReportSave(t) ==
    /\ phase[t] \in {"acked", "nacked"}
    /\ phase' = [phase EXCEPT ![t] = IF @ = "acked" THEN "signed" ELSE "failed"]
    /\ UNCHANGED <<session, tap, objects, signTeacher, signHistory, errored>>

\* The account of phone d changes under its chains whose find is not answered.
SwitchUnder(d) ==
    switched' = switched \cup {t \in Tasks : device[t] = d /\ phase[t] \in {"querying", "answered"}}

\* Log out from the user centre; requests on their way are not cancelled.
LogOut(d) ==
    /\ currentUser[d] # None
    /\ currentUser' = [currentUser EXCEPT ![d] = None]
    /\ SwitchUnder(d)
    /\ UNCHANGED <<today, phase, tap, objects, signTeacher, signHistory, errored>>

\* A login succeeds, maybe the later one of two, with an account logged in.
LogIn(d, u) ==
    /\ currentUser[d] # u
    /\ currentUser' = [currentUser EXCEPT ![d] = u]
    /\ SwitchUnder(d)
    /\ UNCHANGED <<today, phase, tap, objects, signTeacher, signHistory, errored>>

\* The save of chain t was sent and may or may not be stored yet.
OnItsWay(t) == phase[t] = "saving" \/ (phase[t] = "nacked" /\ t \notin signHistory)

\* The app is killed and started again: no callback of an earlier chain runs,
\* a save already sent may still reach the table, the session is kept.
Quit(d) ==
    /\ \E t \in Tasks : device[t] = d /\ phase[t] \in InFlight
    /\ phase' = [t \in Tasks |->
                    IF device[t] = d /\ OnItsWay(t) THEN "orphan"
                    ELSE IF device[t] = d /\ phase[t] \in InFlight THEN "lost"
                    ELSE phase[t]]
    /\ objects' = [t \in Tasks |-> IF device[t] = d THEN {} ELSE objects[t]]
    /\ UNCHANGED <<session, tap, signTeacher, signHistory, errored>>

\* Midnight on one phone.
NextDay(d) ==
    /\ today[d] < LastDay
    /\ today' = [today EXCEPT ![d] = @ + 1]
    /\ UNCHANGED <<currentUser, switched, phase, tap, objects, signTeacher, signHistory, errored>>

Next ==
    \/ \E d \in Devices :
        \/ \E chosen \in SUBSET Students : ChooseSign(d, chosen)
        \/ \E u \in Accounts : LogIn(d, u)
        \/ LogOut(d)
        \/ Quit(d)
        \/ NextDay(d)
    \/ \E t \in Tasks :
        \/ ServeFind(t)
        \/ FailFind(t)
        \/ FilterSigned(t)
        \/ AddSign(t)
        \/ ServeSave(t)
        \/ FailSave(t)
        \/ StoreLate(t)
        \/ ReportSave(t)

Spec == Init /\ [][Next]_vars

\* Every request is answered or fails (the SDK's timeout), and the main queue
\* runs every callback it is given.  Nobody is forced to tap.
Answers(t) ==
    \/ ServeFind(t) \/ FailFind(t)
    \/ FilterSigned(t) \/ AddSign(t)
    \/ ServeSave(t) \/ FailSave(t)
    \/ ReportSave(t)

FairSpec == Spec /\ \A t \in Tasks : WF_vars(Answers(t))

-----------------------------------------------------------------------------
TypeOK ==
    /\ today \in [Devices -> Days]
    /\ currentUser \in [Devices -> Accounts \cup {None}]
    /\ phase \in [Tasks -> Phases]
    /\ student \in [Tasks -> Students \cup {None}]
    /\ device \in [Tasks -> Devices \cup {None}]
    /\ signDate \in [Tasks -> Days]
    /\ objects \in [Tasks -> SUBSET Tasks]
    /\ signTeacher \in [Tasks -> Accounts \cup {None}]
    /\ signHistory \subseteq Tasks
    /\ tapper \in [Tasks -> Accounts \cup {None}]
    /\ prior \in [Tasks -> SUBSET Tasks]
    /\ errored \subseteq Tasks /\ switched \subseteq Tasks

SameStudentAndDay(t, u) == student[t] = student[u] /\ signDate[t] = signDate[u]

\* A record of a day is stored again although it was in the table when the
\* teacher tapped only if the find failed, or if the student also has a record
\* of a later day: the first object is then not today's.  Nothing else gets
\* past the filter of networkSignDateWithUserObject, whatever the order of
\* finds, saves, quits and retries of all phones.
RecordedBeforeTapIsFiltered ==
    \A t, u \in signHistory :
        (u \in prior[t] /\ SameStudentAndDay(t, u)) =>
            \/ t \in errored
            \/ \E v \in signHistory :
                student[v] = student[t] /\ signDate[v] > signDate[t]

\* What the teacher is left with is true of the table: the success alert means
\* that this chain's own record is stored, and a chain ends silently only
\* because another chain stored one of that student and day.  Neither a lost
\* answer nor a quit makes a chain write twice or write after it was filtered.
SettledMeansRecorded ==
    \A t \in Tasks :
        /\ phase[t] \in {"acked", "signed"} => t \in signHistory
        /\ phase[t] = "filtered" =>
            /\ t \notin signHistory
            /\ \E u \in signHistory : SameStudentAndDay(t, u)

\* signTeacher is "the one who signs": every record names the account that tapped,
\* unless that phone changed account between the tap and the find's answer.  Line
\* 340 reads the account at the answer.
SignTeacherTapped ==
    \A t \in signHistory : signTeacher[t] = tapper[t] \/ t \in switched

\* Why the three hold, as one inductive invariant.  A chain that was tapped has
\* its fields; a chain in the table is past its save.  An answer is drawn from
\* the table, and unless the find failed it holds what the tap already saw.
TappedChainsAreFilled ==
    \A t \in Tasks :
        /\ phase[t] # "free" => student[t] \in Students /\ device[t] \in Devices
        /\ prior[t] \subseteq signHistory
        /\ t \in signHistory => phase[t] \in {"acked", "nacked", "signed", "failed", "lost"}
        /\ phase[t] \in {"acked", "signed"} => t \in signHistory
        /\ t \in errored => phase[t] # "free"

AnswersComeFromTable ==
    \A t \in Tasks :
        /\ phase[t] # "answered" => objects[t] = {}
        /\ objects[t] \subseteq RecordsOf(student[t])
        /\ (phase[t] = "answered" /\ t \notin errored) =>
            \A u \in prior[t] : student[u] = student[t] => u \in objects[t]

\* What a chain knows once it is past the filter, and keeps when it is stored.
PassedFilter(t) ==
    \A u \in prior[t] :
        SameStudentAndDay(t, u) =>
            \/ t \in errored
            \/ \E v \in signHistory :
                student[v] = student[t] /\ signDate[v] > signDate[t]

\* The record of such a chain was sent, and may be stored yet.
Saved == {"saving", "orphan", "nacked", "failed"}

SavesPassedFilter ==
    \A t \in Tasks :
        (phase[t] \in Saved \/ t \in signHistory) => PassedFilter(t)

FilteredHasRecord ==
    \A t \in Tasks :
        phase[t] = "filtered" => \E u \in signHistory : SameStudentAndDay(t, u)

NamesTapper ==
    \A t \in Tasks \ switched :
        /\ phase[t] \in {"querying", "answered"} => currentUser[device[t]] = tapper[t]
        /\ phase[t] \in Saved \/ t \in signHistory => signTeacher[t] = tapper[t]

IInv ==
    /\ TypeOK
    /\ TappedChainsAreFilled
    /\ AnswersComeFromTable
    /\ SavesPassedFilter
    /\ FilteredHasRecord
    /\ NamesTapper

\* The filter of AddressBookViewController.m lines 331-332, "filter the students
\* already signed in today", taken at its word: one record per student and day.
OneRecordPerDay ==
    \A t, u \in signHistory : SameStudentAndDay(t, u) => t = u

\* Every chain of a phone that keeps running ends: filtered, signed or failed.
EverySignSettles ==
    \A t \in Tasks :
        phase[t] \in InFlight ~> phase[t] \in Settled \cup {"lost", "orphan"}

\* The outcome of a chain for the teacher.
Outcome(t) ==
    IF phase[t] = "free" THEN "none"
    ELSE IF phase[t] \in InFlight THEN "pending"
    ELSE IF phase[t] \in Settled THEN phase[t]
    ELSE "dropped"

Register ==
    INSTANCE AttendanceRegister WITH
        Claims <- Tasks,
        outcome <- [t \in Tasks |-> Outcome(t)],
        register <- signHistory,
        day <- signDate

\* Signing in keeps a register: whatever finds, saves, losses and quits do, a tap
\* is written down at most once, after its outcome was told only if that was a failure,
\* and the outcome is true of the table when it is told.
RegisterSpec == Register!Spec
=============================================================================
