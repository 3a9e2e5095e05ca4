-------------------------- MODULE AttendanceProofs --------------------------
(***************************************************************************)
(* Proofs about Attendance, for any number of students, phones, accounts,  *)
(* chains and days.                                                        *)
(***************************************************************************)
EXTENDS Attendance, TLAPS

\* Every step keeps the shape of every variable; only AddSign needs more than
\* TypeOK, that the chain it runs for has a phone.
LEMMA TypeStep ==
    ASSUME TypeOK, TappedChainsAreFilled, [Next]_vars
    PROVE  TypeOK'
<1> USE DEF TypeOK
<1>1. ASSUME NEW d \in Devices, NEW chosen \in SUBSET Students, ChooseSign(d, chosen)
      PROVE TypeOK'
  <2>1. PICK new \in SUBSET Free : \E who \in Bijection(new, chosen) :
          /\ phase' = [t \in Tasks |-> IF t \in new THEN "querying" ELSE phase[t]]
          /\ student' = [t \in Tasks |-> IF t \in new THEN who[t] ELSE student[t]]
          /\ device' = [t \in Tasks |-> IF t \in new THEN d ELSE device[t]]
          /\ signDate' = [t \in Tasks |-> IF t \in new THEN today[d] ELSE signDate[t]]
          /\ tapper' = [t \in Tasks |-> IF t \in new THEN currentUser[d] ELSE tapper[t]]
          /\ prior' = [t \in Tasks |-> IF t \in new THEN signHistory ELSE prior[t]]
    BY <1>1 DEF ChooseSign
  <2>2. PICK who \in Bijection(new, chosen) :
          student' = [t \in Tasks |-> IF t \in new THEN who[t] ELSE student[t]]
    BY <2>1
  <2>3. \A t \in new : who[t] \in Students
    BY <2>2 DEF Bijection, Injection
  <2>4. UNCHANGED <<session, objects, signTeacher, signHistory, errored>>
    BY <1>1 DEF ChooseSign
  <2>5. student' \in [Tasks -> Students \cup {None}]
    BY <2>2, <2>3
  <2>6. phase' \in [Tasks -> Phases]
    BY <2>1 DEF Phases
  <2> QED BY <2>1, <2>4, <2>5, <2>6 DEF session
<1>2. ASSUME NEW d \in Devices, NEW u \in Accounts, LogIn(d, u) PROVE TypeOK'
  BY <1>2 DEF LogIn, SwitchUnder, tap
<1>3. ASSUME NEW d \in Devices, LogOut(d) PROVE TypeOK'
  BY <1>3 DEF LogOut, SwitchUnder, tap
<1>4. ASSUME NEW d \in Devices, Quit(d) PROVE TypeOK'
  BY <1>4 DEF Quit, tap, session, Phases
<1>5. ASSUME NEW d \in Devices, NextDay(d) PROVE TypeOK'
  BY <1>5, LastDayAssumption DEF NextDay, tap, Days
<1>6. ASSUME NEW t \in Tasks, ServeFind(t) PROVE TypeOK'
  BY <1>6 DEF ServeFind, tap, session, Phases, RecordsOf
<1>7. ASSUME NEW t \in Tasks, FailFind(t) PROVE TypeOK'
  BY <1>7 DEF FailFind, tap, session, Phases
<1>8. ASSUME NEW t \in Tasks, FilterSigned(t) PROVE TypeOK'
  BY <1>8 DEF FilterSigned, tap, session, Phases
<1>9. ASSUME NEW t \in Tasks, AddSign(t) PROVE TypeOK'
  <2>0. device[t] \in Devices
    BY <1>9 DEF AddSign, TappedChainsAreFilled
  <2>1. phase' \in [Tasks -> Phases]
    BY <1>9 DEF AddSign, Phases
  <2>2. objects' \in [Tasks -> SUBSET Tasks]
    BY <1>9 DEF AddSign
  <2> QED BY <1>9, <2>0, <2>1, <2>2 DEF AddSign, tap, session
<1>10. ASSUME NEW t \in Tasks, ServeSave(t) PROVE TypeOK'
  BY <1>10 DEF ServeSave, tap, session, Phases
<1>11. ASSUME NEW t \in Tasks, FailSave(t) \/ StoreLate(t) PROVE TypeOK'
  BY <1>11 DEF FailSave, StoreLate, tap, session, Phases
<1>12. ASSUME NEW t \in Tasks, ReportSave(t) PROVE TypeOK'
  BY <1>12 DEF ReportSave, tap, session, Phases
<1>13. CASE UNCHANGED vars
  BY <1>13 DEF vars
<1> QED
  BY <1>1, <1>2, <1>3, <1>4, <1>5, <1>6, <1>7, <1>8, <1>9, <1>10, <1>11,
     <1>12, <1>13 DEF Next

\* A chain under way on a phone that keeps its account finds it at its answer.
LEMMA NamesTapperStep ==
    ASSUME TypeOK, TappedChainsAreFilled, NamesTapper, [Next]_vars
    PROVE  NamesTapper'
<1> USE DEF NamesTapper, Saved, TypeOK
<1>1. ASSUME NEW d \in Devices, NEW chosen \in SUBSET Students, ChooseSign(d, chosen)
      PROVE NamesTapper'
  <2>1. PICK new \in SUBSET Free :
          /\ phase' = [t \in Tasks |-> IF t \in new THEN "querying" ELSE phase[t]]
          /\ device' = [t \in Tasks |-> IF t \in new THEN d ELSE device[t]]
          /\ tapper' = [t \in Tasks |-> IF t \in new THEN currentUser[d] ELSE tapper[t]]
    BY <1>1 DEF ChooseSign
  <2>2. UNCHANGED <<session, signTeacher, signHistory>>
    BY <1>1 DEF ChooseSign
  <2>3. \A t \in new : t \notin signHistory
    BY DEF Free, TappedChainsAreFilled
  <2> QED BY <2>1, <2>2, <2>3 DEF session
<1>2. ASSUME NEW d \in Devices, LogOut(d) \/ \E u \in Accounts : LogIn(d, u)
      PROVE NamesTapper'
  BY <1>2 DEF LogIn, LogOut, SwitchUnder, tap, TappedChainsAreFilled
<1>3. ASSUME NEW d \in Devices, Quit(d) PROVE NamesTapper'
  <2>1. \A t \in Tasks :
          phase'[t] # phase[t] => phase'[t] = "lost" \/ phase[t] \in {"saving", "nacked"}
    BY <1>3 DEF Quit, OnItsWay
  <2> QED BY <1>3, <2>1 DEF Quit, tap, session
<1>4. ASSUME NEW d \in Devices, NextDay(d) PROVE NamesTapper'
  BY <1>4 DEF NextDay, tap
<1>5. ASSUME NEW t \in Tasks, ServeFind(t) \/ FailFind(t) \/ FilterSigned(t)
      PROVE NamesTapper'
  BY <1>5 DEF ServeFind, FailFind, FilterSigned, tap, session
<1>6. ASSUME NEW t \in Tasks, AddSign(t) PROVE NamesTapper'
  BY <1>6 DEF AddSign, tap, session, TappedChainsAreFilled
<1>7. ASSUME NEW t \in Tasks,
             ServeSave(t) \/ FailSave(t) \/ StoreLate(t) \/ ReportSave(t)
      PROVE NamesTapper'
  BY <1>7 DEF ServeSave, FailSave, StoreLate, ReportSave, tap, session
<1>8. CASE UNCHANGED vars
  BY <1>8 DEF vars
<1> QED BY <1>1, <1>2, <1>3, <1>4, <1>5, <1>6, <1>7, <1>8 DEF Next

-----------------------------------------------------------------------------
\* The four parts of IInv that are about finds and saves.
Chains ==
    /\ TappedChainsAreFilled
    /\ AnswersComeFromTable
    /\ SavesPassedFilter
    /\ FilteredHasRecord

\* A tap gives fields to chains that were free, and to no other.
LEMMA ChooseSignEffect ==
    ASSUME TypeOK, NEW d \in Devices, NEW chosen \in SUBSET Students,
           ChooseSign(d, chosen)
    PROVE  \E new \in SUBSET Free :
             /\ \A t \in new :
                 /\ phase'[t] = "querying"
                 /\ student'[t] \in Students
                 /\ device'[t] = d
                 /\ prior'[t] = signHistory
             /\ \A t \in Tasks \ new :
                 /\ phase'[t] = phase[t]
                 /\ student'[t] = student[t]
                 /\ device'[t] = device[t]
                 /\ signDate'[t] = signDate[t]
                 /\ prior'[t] = prior[t]
             /\ UNCHANGED <<objects, signHistory, errored>>
<1>1. PICK new \in SUBSET Free : \E who \in Bijection(new, chosen) :
        /\ phase' = [t \in Tasks |-> IF t \in new THEN "querying" ELSE phase[t]]
        /\ student' = [t \in Tasks |-> IF t \in new THEN who[t] ELSE student[t]]
        /\ device' = [t \in Tasks |-> IF t \in new THEN d ELSE device[t]]
        /\ signDate' = [t \in Tasks |-> IF t \in new THEN today[d] ELSE signDate[t]]
        /\ prior' = [t \in Tasks |-> IF t \in new THEN signHistory ELSE prior[t]]
  BY DEF ChooseSign
<1>2. PICK who \in Bijection(new, chosen) :
        student' = [t \in Tasks |-> IF t \in new THEN who[t] ELSE student[t]]
  BY <1>1
<1>3. who \in [new -> Students]
  BY <1>2 DEF Bijection, Injection
<1>4. new \subseteq Tasks
  BY DEF Free
<1>5. UNCHANGED <<objects, signHistory, errored>>
  BY DEF ChooseSign
<1> QED BY <1>1, <1>2, <1>3, <1>4, <1>5

\* A tap leaves every chain under way, and the table, as they are.
LEMMA ChooseSignStep ==
    ASSUME TypeOK, Chains, NEW d \in Devices, NEW chosen \in SUBSET Students,
           ChooseSign(d, chosen)
    PROVE  Chains'
<1> USE DEF Chains
<1>1. PICK new \in SUBSET Free :
         /\ \A t \in new :
             /\ phase'[t] = "querying"
             /\ student'[t] \in Students
             /\ device'[t] = d
             /\ prior'[t] = signHistory
         /\ \A t \in Tasks \ new :
             /\ phase'[t] = phase[t]
             /\ student'[t] = student[t]
             /\ device'[t] = device[t]
             /\ signDate'[t] = signDate[t]
             /\ prior'[t] = prior[t]
         /\ UNCHANGED <<objects, signHistory, errored>>
  BY ChooseSignEffect
<1>2. \A t \in signHistory : t \in Tasks \ new
  BY <1>1 DEF Free, TappedChainsAreFilled, TypeOK
<1>3. \A t \in new : objects[t] = {}
  BY <1>1 DEF Free, AnswersComeFromTable
<1>4. TappedChainsAreFilled'
  BY <1>1, <1>2 DEF TappedChainsAreFilled, Free, TypeOK
<1>5. AnswersComeFromTable'
  BY <1>1, <1>2, <1>3 DEF AnswersComeFromTable, TappedChainsAreFilled, RecordsOf, TypeOK
<1>6. SavesPassedFilter'
  BY <1>1, <1>2 DEF SavesPassedFilter, Saved, PassedFilter, SameStudentAndDay, TappedChainsAreFilled, TypeOK
<1>7. FilteredHasRecord'
  BY <1>1, <1>2 DEF FilteredHasRecord, SameStudentAndDay, TypeOK
<1> QED BY <1>4, <1>5, <1>6, <1>7

\* Steps that touch neither a chain nor the table.
LEMMA FrameStep ==
    ASSUME TypeOK, Chains,
           UNCHANGED <<phase, tap, objects, signHistory, errored>>
    PROVE  Chains'
<1> USE DEF tap
<1>1. TappedChainsAreFilled'
  BY DEF Chains, TappedChainsAreFilled
<1>2. AnswersComeFromTable'
  BY DEF Chains, AnswersComeFromTable, RecordsOf
<1>3. SavesPassedFilter'
  BY DEF Chains, SavesPassedFilter, PassedFilter, SameStudentAndDay
<1>4. FilteredHasRecord'
  BY DEF Chains, FilteredHasRecord, SameStudentAndDay
<1> QED BY <1>1, <1>2, <1>3, <1>4 DEF Chains

\* A chain past the filter keeps what it knows: the table only grows.
LEMMA PassedFilterStays ==
    ASSUME NEW t \in Tasks, PassedFilter(t), UNCHANGED tap,
           signHistory \subseteq signHistory', errored \subseteq errored'
    PROVE  PassedFilter(t)'
BY DEF PassedFilter, SameStudentAndDay, tap

\* The answer to a find holds whatever the tap saw, as records stay.
LEMMA FindStep ==
    ASSUME TypeOK, Chains, NEW t \in Tasks, ServeFind(t) \/ FailFind(t)
    PROVE  Chains'
<1> USE DEF Chains, ServeFind, FailFind
<1>1. TappedChainsAreFilled'
  BY DEF TappedChainsAreFilled, TypeOK, tap
<1>2. AnswersComeFromTable'
  BY DEF AnswersComeFromTable, TappedChainsAreFilled, RecordsOf, TypeOK, tap
<1>3. SavesPassedFilter'
  <2> SUFFICES ASSUME NEW u \in Tasks,
                      phase'[u] \in Saved \/ u \in signHistory'
               PROVE  PassedFilter(u)'
    BY DEF SavesPassedFilter
  <2>1. PassedFilter(u)
    BY DEF SavesPassedFilter, Saved, TypeOK
  <2> QED BY <2>1, PassedFilterStays DEF tap
<1>4. FilteredHasRecord'
  BY DEF FilteredHasRecord, SameStudentAndDay, TypeOK, tap
<1> QED BY <1>1, <1>2, <1>3, <1>4

\* The first object of the answer decides: if it is of today, that record is
\* in the table.
LEMMA FilterSignedStep ==
    ASSUME TypeOK, Chains, NEW t \in Tasks, FilterSigned(t)
    PROVE  Chains'
<1> USE DEF Chains, FilterSigned
<1>1. TappedChainsAreFilled'
  BY DEF TappedChainsAreFilled, TypeOK, tap
<1>2. AnswersComeFromTable'
  BY DEF AnswersComeFromTable, RecordsOf, TypeOK, tap
<1>3. SavesPassedFilter'
  BY DEF SavesPassedFilter, Saved, PassedFilter, SameStudentAndDay, TypeOK, tap
<1>4. FilteredHasRecord'
  <2>1. \E u \in signHistory : SameStudentAndDay(t, u)
    BY DEF SignedToday, AnswersComeFromTable, RecordsOf, SameStudentAndDay
  <2> QED BY <2>1 DEF FilteredHasRecord, SameStudentAndDay, TypeOK, tap
<1> QED BY <1>1, <1>2, <1>3, <1>4

\* If it is not, a record of today in the answer has one of a later day
\* before it.
LEMMA AddSignStep ==
    ASSUME TypeOK, Chains, NEW t \in Tasks, AddSign(t)
    PROVE  Chains'
<1> USE DEF Chains, AddSign
<1>1. TappedChainsAreFilled'
  BY DEF TappedChainsAreFilled, TypeOK, tap
<1>2. AnswersComeFromTable'
  BY DEF AnswersComeFromTable, RecordsOf, TypeOK, tap
<1>3. PassedFilter(t)
  <2> SUFFICES ASSUME NEW u \in prior[t], SameStudentAndDay(t, u), t \notin errored
               PROVE  \E v \in signHistory :
                        student[v] = student[t] /\ signDate[v] > signDate[t]
    BY DEF PassedFilter
  <2>1. u \in objects[t] /\ signDate[u] = signDate[t]
    BY DEF AnswersComeFromTable, SameStudentAndDay
  <2>2. PICK v \in objects[t] : ~(signDate[v] <= signDate[u])
    BY <2>1 DEF SignedToday
  <2>3. v \in signHistory /\ student[v] = student[t]
    BY <2>2 DEF AnswersComeFromTable, RecordsOf
  <2>4. u \in Tasks /\ v \in Tasks
    BY <2>1, <2>2 DEF TypeOK
  <2>5. signDate[u] \in Nat /\ signDate[v] \in Nat
    BY <2>4, LastDayAssumption DEF TypeOK, Days
  <2>6. signDate[v] > signDate[t]
    BY <2>1, <2>2, <2>5
  <2> QED BY <2>3, <2>6
<1>4. SavesPassedFilter'
  <2> SUFFICES ASSUME NEW u \in Tasks,
                      phase'[u] \in Saved \/ u \in signHistory'
               PROVE  PassedFilter(u)'
    BY DEF SavesPassedFilter
  <2>1. PassedFilter(u)
    BY <1>3 DEF SavesPassedFilter, Saved, TypeOK
  <2> QED BY <2>1, PassedFilterStays DEF tap
<1>5. FilteredHasRecord'
  BY DEF FilteredHasRecord, SameStudentAndDay, TypeOK, tap
<1> QED BY <1>1, <1>2, <1>4, <1>5

\* A save adds a record that passed the filter, or nothing.
LEMMA SaveStep ==
    ASSUME TypeOK, Chains, NEW t \in Tasks,
           ServeSave(t) \/ FailSave(t) \/ StoreLate(t) \/ ReportSave(t)
    PROVE  Chains'
<1> USE DEF Chains, ServeSave, FailSave, StoreLate, ReportSave
<1>1. signHistory \subseteq signHistory' /\ UNCHANGED <<tap, objects, errored>>
  OBVIOUS
<1>2. TappedChainsAreFilled'
  BY DEF TappedChainsAreFilled, TypeOK, tap
<1>3. AnswersComeFromTable'
  BY <1>1 DEF AnswersComeFromTable, RecordsOf, TypeOK, tap
<1>4. SavesPassedFilter'
  <2> SUFFICES ASSUME NEW u \in Tasks,
                      phase'[u] \in Saved \/ u \in signHistory'
               PROVE  PassedFilter(u)'
    BY DEF SavesPassedFilter
  <2>1. PassedFilter(u)
    BY DEF SavesPassedFilter, Saved, TypeOK
  <2> QED BY <1>1, <2>1, PassedFilterStays
<1>5. FilteredHasRecord'
  BY <1>1 DEF FilteredHasRecord, SameStudentAndDay, TypeOK, tap
<1> QED BY <1>2, <1>3, <1>4, <1>5

\* A quit ends chains and leaves the saves on their way.
LEMMA QuitStep ==
    ASSUME TypeOK, Chains, NEW d \in Devices, Quit(d)
    PROVE  Chains'
<1> USE DEF Chains, Quit, OnItsWay
<1>1. TappedChainsAreFilled'
  BY DEF TappedChainsAreFilled, InFlight, TypeOK, tap
<1>2. AnswersComeFromTable'
  BY DEF AnswersComeFromTable, InFlight, RecordsOf, TypeOK, tap
<1>3. SavesPassedFilter'
  BY DEF SavesPassedFilter, Saved, PassedFilter, SameStudentAndDay, InFlight, TypeOK, tap
<1>4. FilteredHasRecord'
  BY DEF FilteredHasRecord, SameStudentAndDay, InFlight, TypeOK, tap
<1> QED BY <1>1, <1>2, <1>3, <1>4

-----------------------------------------------------------------------------
\* In every reachable state the answer of a find is drawn from SignHistory, and
\* every chain that saves has passed the filter of its callback: IInv is
\* inductive under the steps of networkSignDateWithUserObject.
THEOREM Inductive == Spec => []IInv
<1>1. Init => IInv
  <2> SUFFICES ASSUME Init PROVE IInv
    OBVIOUS
  <2>1. TypeOK
    BY LastDayAssumption DEF Init, TypeOK, Days, Phases
  <2>2. TappedChainsAreFilled /\ AnswersComeFromTable
    BY DEF Init, TappedChainsAreFilled, AnswersComeFromTable, RecordsOf
  <2>3. SavesPassedFilter /\ FilteredHasRecord
    BY DEF Init, SavesPassedFilter, Saved, FilteredHasRecord
  <2>4. NamesTapper
    BY DEF Init, NamesTapper
  <2> QED BY <2>1, <2>2, <2>3, <2>4 DEF IInv
<1>2. IInv /\ [Next]_vars => IInv'
  <2> SUFFICES ASSUME IInv, [Next]_vars PROVE IInv'
    OBVIOUS
  <2>1. TypeOK /\ Chains
    BY DEF IInv, Chains
  <2>2. TypeOK'
    BY <2>1, TypeStep DEF Chains
  <2>3. Chains'
    <3>1. ASSUME NEW d \in Devices, NEW chosen \in SUBSET Students, ChooseSign(d, chosen)
          PROVE  Chains'
      BY <2>1, <3>1, ChooseSignStep
    <3>2. ASSUME NEW d \in Devices, NEW u \in Accounts, LogIn(d, u) PROVE Chains'
      BY <2>1, <3>2, FrameStep DEF LogIn
    <3>3. ASSUME NEW d \in Devices, LogOut(d) \/ NextDay(d) PROVE Chains'
      BY <2>1, <3>3, FrameStep DEF LogOut, NextDay
    <3>4. ASSUME NEW d \in Devices, Quit(d) PROVE Chains'
      BY <2>1, <3>4, QuitStep
    <3>5. ASSUME NEW t \in Tasks, ServeFind(t) \/ FailFind(t) PROVE Chains'
      BY <2>1, <3>5, FindStep
    <3>6. ASSUME NEW t \in Tasks, FilterSigned(t) PROVE Chains'
      BY <2>1, <3>6, FilterSignedStep
    <3>7. ASSUME NEW t \in Tasks, AddSign(t) PROVE Chains'
      BY <2>1, <3>7, AddSignStep
    <3>8. ASSUME NEW t \in Tasks,
                 ServeSave(t) \/ FailSave(t) \/ StoreLate(t) \/ ReportSave(t)
          PROVE  Chains'
      BY <2>1, <3>8, SaveStep
    <3>9. CASE UNCHANGED vars
      BY <2>1, <3>9, FrameStep DEF vars, tap
    <3> QED
      BY <3>1, <3>2, <3>3, <3>4, <3>5, <3>6, <3>7, <3>8, <3>9 DEF Next
  <2>4. NamesTapper'
    BY NamesTapperStep DEF IInv
  <2> QED BY <2>1, <2>2, <2>3, <2>4 DEF IInv, Chains
<1> QED BY <1>1, <1>2, PTL DEF Spec

\* Every variable keeps its type, whatever taps, answers, logouts and quits do.
THEOREM TypeCorrect == Spec => []TypeOK
<1>1. IInv => TypeOK
  BY DEF IInv
<1> QED BY <1>1, Inductive, PTL

\* A student recorded before the tap is filtered, unless the find failed or a
\* record of a later day comes first.
THEOREM DuplicatesAreExplained == Spec => []RecordedBeforeTapIsFiltered
<1>1. IInv => RecordedBeforeTapIsFiltered
  BY DEF IInv, SavesPassedFilter, PassedFilter, RecordedBeforeTapIsFiltered, TypeOK
<1> QED BY <1>1, Inductive, PTL

\* The outcome a teacher is left with is true of the table.
THEOREM OutcomesAreTrue == Spec => []SettledMeansRecorded
<1>1. IInv => SettledMeansRecorded
  BY DEF IInv, TappedChainsAreFilled, FilteredHasRecord, SettledMeansRecorded
<1> QED BY <1>1, Inductive, PTL

\* A record names the account that tapped, unless the account changed on that
\* phone before the find was answered.
THEOREM RecordsNameTapper == Spec => []SignTeacherTapped
<1>1. IInv => SignTeacherTapped
  BY DEF IInv, TypeOK, NamesTapper, SignTeacherTapped
<1> QED BY <1>1, Inductive, PTL
-----------------------------------------------------------------------------
\* A tap claims all its students on one day.
LEMMA ChooseSignTaps ==
    ASSUME IInv, NEW d \in Devices, NEW chosen \in SUBSET Students,
           ChooseSign(d, chosen)
    PROVE  Register!Next
<1> USE DEF IInv
<1>1. PICK new \in SUBSET Free : \E who \in Bijection(new, chosen) :
        /\ phase' = [t \in Tasks |-> IF t \in new THEN "querying" ELSE phase[t]]
        /\ student' = [t \in Tasks |-> IF t \in new THEN who[t] ELSE student[t]]
        /\ signDate' = [t \in Tasks |-> IF t \in new THEN today[d] ELSE signDate[t]]
  BY DEF ChooseSign
<1>2. PICK who \in Bijection(new, chosen) :
        student' = [t \in Tasks |-> IF t \in new THEN who[t] ELSE student[t]]
  BY <1>1
<1>3. who \in [new -> Students]
  BY <1>2 DEF Bijection, Injection
<1>4. new \subseteq Tasks /\ \A t \in new : phase[t] = "free"
  BY DEF Free
<1>5. UNCHANGED signHistory
  BY DEF ChooseSign
<1>6. \A t \in new : Outcome(t) = "none" /\ Outcome(t)' = "pending"
  BY <1>1, <1>4 DEF Outcome, InFlight
<1>7. \A t \in Tasks \ new : Outcome(t)' = Outcome(t)
  BY <1>1 DEF Outcome
<1>8. Register!Tap(new, today[d])
  BY <1>1, <1>2, <1>3, <1>4, <1>5, <1>6, <1>7 DEF Register!Tap
<1>9. today[d] \in Days
  BY DEF TypeOK
<1> QED BY <1>4, <1>8, <1>9 DEF Register!Next

\* A chain that goes on without an end tells nothing and writes nothing.
LEMMA ChainStutters ==
    ASSUME IInv, NEW t \in Tasks,
           ServeFind(t) \/ FailFind(t) \/ AddSign(t) \/ FailSave(t)
    PROVE  UNCHANGED Register!vars
<1>1. \A u \in Tasks : Outcome(u)' = Outcome(u)
  BY DEF IInv, TypeOK, ServeFind, FailFind, AddSign, FailSave, Outcome, InFlight, Settled
<1>2. UNCHANGED <<signHistory, student, signDate>>
  BY DEF ServeFind, FailFind, AddSign, FailSave, tap
<1> QED BY <1>1, <1>2 DEF Register!vars

\* The table gets a record that it did not have, of a claim that was not told to be
\* there.
LEMMA SaveRecords ==
    ASSUME IInv, NEW t \in Tasks, ServeSave(t) \/ StoreLate(t)
    PROVE  Register!Next
<1>1. \A u \in Tasks : Outcome(u)' = Outcome(u)
  BY DEF IInv, TypeOK, ServeSave, StoreLate, Outcome, InFlight, Settled
<1>2. UNCHANGED <<student, signDate>> /\ signHistory' = signHistory \cup {t}
  BY DEF ServeSave, StoreLate, tap
<1>3. t \notin signHistory /\ Outcome(t) \in {"pending", "dropped", "failed"}
  BY DEF IInv, TappedChainsAreFilled, ServeSave, StoreLate, Outcome, InFlight, Settled
<1>4. Register!Record(t)
  BY <1>1, <1>2, <1>3 DEF Register!Record
<1> QED BY <1>4 DEF Register!Next

\* The callbacks that end a chain tell the outcome the table bears out.
LEMMA EndingTells ==
    ASSUME IInv, IInv', NEW t \in Tasks, FilterSigned(t) \/ ReportSave(t)
    PROVE  Register!Next
<1>1. /\ UNCHANGED <<signHistory, student, signDate>>
      /\ Outcome(t) = "pending"
      /\ \A u \in Tasks \ {t} : Outcome(u)' = Outcome(u)
  BY DEF IInv, TypeOK, FilterSigned, ReportSave, tap, Outcome, InFlight, Settled
<1>2. [u \in Tasks |-> Outcome(u)]' = [[u \in Tasks |-> Outcome(u)] EXCEPT ![t] = Outcome(t)']
  BY <1>1
<1>3. CASE FilterSigned(t)
  <2>1. Outcome(t)' = "filtered"
    BY <1>3 DEF IInv, TypeOK, FilterSigned, Outcome, InFlight, Settled
  <2>2. t \notin signHistory
    BY <1>3 DEF FilterSigned, IInv, TappedChainsAreFilled
  <2>3. phase'[t] = "filtered"
    BY <1>3 DEF FilterSigned, IInv, TypeOK
  <2>4. \E u \in signHistory : student[u] = student[t] /\ signDate[u] = signDate[t]
    BY <1>1, <2>3 DEF IInv, FilteredHasRecord, SameStudentAndDay
  <2>5. Register!Tell(t, "filtered")
    BY <1>1, <1>2, <2>1, <2>2, <2>4 DEF Register!Tell, Register!OnRecord
  <2> QED BY <2>5 DEF Register!Next
<1>4. CASE ReportSave(t) /\ phase[t] = "acked"
  <2>1. Outcome(t)' = "signed" /\ t \in signHistory
    BY <1>4 DEF IInv, TypeOK, TappedChainsAreFilled, ReportSave, Outcome, InFlight, Settled
  <2>2. Register!Tell(t, "signed")
    BY <1>1, <1>2, <2>1 DEF Register!Tell
  <2> QED BY <2>2 DEF Register!Next
<1>5. CASE ReportSave(t) /\ phase[t] # "acked"
  <2>1. Outcome(t)' = "failed"
    BY <1>5 DEF IInv, TypeOK, ReportSave, Outcome, InFlight, Settled
  <2>2. Register!Tell(t, "failed")
    BY <1>1, <1>2, <2>1 DEF Register!Tell
  <2> QED BY <2>2 DEF Register!Next
<1> QED BY <1>3, <1>4, <1>5

\* A quit drops the claims of the phone that are pending.
LEMMA QuitDrops ==
    ASSUME IInv, NEW d \in Devices, Quit(d)
    PROVE  Register!Next
<1> DEFINE gone == {t \in Tasks : device[t] = d /\ phase[t] \in InFlight}
<1>1. \A t \in gone : Outcome(t) = "pending" /\ Outcome(t)' = "dropped"
  BY DEF Quit, OnItsWay, Outcome, InFlight, Settled
<1>2. \A t \in Tasks \ gone : Outcome(t)' = Outcome(t)
  BY DEF Quit, OnItsWay, Outcome, InFlight, Settled
<1>3. UNCHANGED <<signHistory, student, signDate>>
  BY DEF Quit, tap
<1>4. Register!Drop(gone)
  BY <1>1, <1>2, <1>3 DEF Register!Drop
<1> QED BY <1>4 DEF Register!Next

\* Signing in implements the register of AttendanceRegister: every step of finds,
\* saves, callbacks, quits and logouts is one of its steps, or none.
THEOREM KeepsRegister == Spec => RegisterSpec
<1>1. Init => Register!Init
  <2> SUFFICES ASSUME Init PROVE Register!Init
    OBVIOUS
  <2>1. \A t \in Tasks : Outcome(t) = "none"
    BY DEF Init, Outcome
  <2>2. signDate \in [Tasks -> Days]
    BY LastDayAssumption DEF Init, Days
  <2> QED BY <2>1, <2>2 DEF Init, Register!Init
<1>2. IInv /\ IInv' /\ [Next]_vars => [Register!Next]_(Register!vars)
  <2> SUFFICES ASSUME IInv, IInv', [Next]_vars
               PROVE  [Register!Next]_(Register!vars)
    OBVIOUS
  <2>1. CASE UNCHANGED vars
    BY <2>1 DEF vars, Register!vars, Outcome
  <2>2. ASSUME NEW d \in Devices,
               (\E u \in Accounts : LogIn(d, u)) \/ LogOut(d) \/ NextDay(d)
        PROVE  UNCHANGED Register!vars
    BY <2>2 DEF LogIn, LogOut, NextDay, tap, Register!vars, Outcome
  <2>3. ASSUME NEW d \in Devices,
               Quit(d) \/ \E chosen \in SUBSET Students : ChooseSign(d, chosen)
        PROVE  Register!Next
    BY <2>3, QuitDrops, ChooseSignTaps
  <2>4. ASSUME NEW t \in Tasks,
               \/ ServeFind(t) \/ FailFind(t) \/ AddSign(t) \/ FailSave(t)
               \/ ServeSave(t) \/ StoreLate(t) \/ FilterSigned(t) \/ ReportSave(t)
        PROVE  [Register!Next]_(Register!vars)
    BY <2>4, ChainStutters, SaveRecords, EndingTells
  <2> QED BY <2>1, <2>2, <2>3, <2>4 DEF Next
<1> QED BY <1>1, <1>2, Inductive, PTL DEF Spec, RegisterSpec, Register!Spec
=============================================================================
