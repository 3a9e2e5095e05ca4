------------------------- MODULE SignCalendarProofs -------------------------
(***************************************************************************)
(* Proofs about SignCalendar, for any students, days, claims and limit.    *)
(***************************************************************************)
EXTENDS SignCalendar, FiniteSetTheorems, TLAPS

Outcomes == {"none", "pending", "dropped", "signed", "filtered", "failed"}

\* What the register owes its readers: the claims it keeps, those about the same
\* student and day, and the outcomes that were told.
Kept ==
    /\ outcome \in [Claims -> Outcomes]
    /\ register \subseteq Claims
    /\ student \in [Claims -> Students \cup {None}]
    /\ day \in [Claims -> Days]
    /\ \A c \in register : outcome[c] # "none"
    /\ \A c \in Claims : outcome[c] \in {"signed", "filtered"} =>
        \E b \in register : student[b] = student[c] /\ day[b] = day[c]

\* A step of the register only adds to them.
Grows ==
    /\ register \subseteq register'
    /\ \A c \in Claims : outcome[c] # "none" => student'[c] = student[c] /\ day'[c] = day[c]
    /\ \A c \in Claims : outcome[c] \in {"signed", "filtered"} => outcome'[c] = outcome[c]

LEMMA IInvInit == Init => IInv
  BY DEF Init, Attended!Init, IInv, TypeOK, Covered, ToldIsStarred, Records

\* A tap is about claims that nobody was told of and that are not on record.
LEMMA TapKeeps ==
    ASSUME Kept, NEW new \in SUBSET Claims, NEW now \in Days, Attended!Tap(new, now)
    PROVE  Kept' /\ Grows
<1> USE DEF Kept, Outcomes, Attended!Tap
<1>1. PICK who \in [new -> Students] :
        student' = [c \in Claims |-> IF c \in new THEN who[c] ELSE student[c]]
  OBVIOUS
<1>2. student' \in [Claims -> Students \cup {None}]
  BY <1>1
<1>3. Grows
  BY <1>1 DEF Grows
<1>4. ASSUME NEW c \in Claims, outcome'[c] \in {"signed", "filtered"}
      PROVE  \E b \in register' : student'[b] = student'[c] /\ day'[b] = day'[c]
  <2>1. c \notin new /\ outcome[c] \in {"signed", "filtered"}
    BY <1>4
  <2>2. PICK b \in register : student[b] = student[c] /\ day[b] = day[c]
    BY <2>1
  <2>3. b \notin new /\ b \in Claims
    OBVIOUS
  <2> QED BY <1>1, <2>1, <2>2, <2>3
<1> QED BY <1>2, <1>3, <1>4

\* So does every other step of the register.
LEMMA RegisterGrows ==
    ASSUME Kept, Attended!Next
    PROVE  Kept' /\ Grows
<1> USE DEF Kept, Outcomes, Grows
<1>1. ASSUME NEW gone \in SUBSET Claims, Attended!Drop(gone) PROVE Kept' /\ Grows
  BY <1>1 DEF Attended!Drop
<1>2. ASSUME NEW c \in Claims, Attended!Record(c) PROVE Kept' /\ Grows
  BY <1>2 DEF Attended!Record
<1>3. ASSUME NEW c \in Claims, NEW o \in {"signed", "filtered", "failed"}, Attended!Tell(c, o)
      PROVE  Kept' /\ Grows
  <2>1. ASSUME NEW b \in Claims, outcome'[b] \in {"signed", "filtered"}
        PROVE  \E r \in register : student[r] = student[b] /\ day[r] = day[b]
    BY <1>3, <2>1 DEF Attended!Tell, Attended!OnRecord
  <2> QED BY <1>3, <2>1 DEF Attended!Tell
<1> QED
  BY <1>1, <1>2, <1>3, TapKeeps DEF Attended!Next

\* Records that are added leave fewer days covered by the limit, never more.
LEMMA CoveredStays ==
    ASSUME IInv, Kept, Kept', Grows, UNCHANGED calendar,
           NEW days, Covered(days)
    PROVE  Covered(days)'
<1> USE CalendarAssumption DEF IInv, TypeOK, calendar
<1> SUFFICES ASSUME NEW c \in told, student'[c] = viewer, Cardinality(UpTo(day[c])') <= Limit
             PROVE  day'[c] \in days
  BY DEF Covered
<1>1. student[c] = viewer /\ day'[c] = day[c]
  BY DEF Grows
<1>2. UpTo(day[c]) \subseteq UpTo(day[c])'
  <2> SUFFICES ASSUME NEW b \in register, student[b] = viewer, day[b] <= day[c]
               PROVE  b \in UpTo(day[c])'
    BY DEF UpTo, Records
  <2>1. b \in register' /\ student'[b] = viewer /\ day'[b] = day[b]
    BY DEF Grows, Kept
  <2> QED BY <1>1, <2>1 DEF UpTo, Records
<1>3. UpTo(day[c])' \subseteq Claims
  BY DEF UpTo, Records, Kept
<1>4. IsFiniteSet(UpTo(day[c])') /\ IsFiniteSet(UpTo(day[c]))
  BY <1>2, <1>3, FS_Subset
<1>5. Cardinality(UpTo(day[c])) <= Cardinality(UpTo(day[c])')
  BY <1>2, <1>4, FS_Subset
<1>6. Cardinality(UpTo(day[c])) <= Limit
  BY <1>4, <1>5, FS_CardinalityType
<1> QED BY <1>1, <1>6 DEF Covered

\* The oldest records that fit into an answer have the days that fit.
LEMMA OldestCover ==
    ASSUME IInv, NEW first \in Oldest(Records(viewer))
    PROVE  Covered({day[c] : c \in first})
<1> USE CalendarAssumption DEF IInv, TypeOK
<1> SUFFICES ASSUME NEW c \in told, student[c] = viewer, Cardinality(UpTo(day[c])) <= Limit,
                    \A d \in first : day[d] # day[c]
             PROVE  FALSE
  BY DEF Covered
<1>1. PICK b \in Records(viewer) : day[b] = day[c]
  BY DEF Records
<1>2. b \notin first /\ first \subseteq Records(viewer)
  BY <1>1 DEF Oldest
<1>3. Cardinality(first) = Limit /\ \A d \in first : day[d] <= day[b]
  BY <1>1, <1>2 DEF Oldest
<1>4. first \cup {b} \subseteq UpTo(day[c])
  <2>1. day[c] \in Int
    OBVIOUS
  <2>2. day[b] <= day[c]
    BY <1>1, <2>1
  <2>3. \A d \in first : day[d] <= day[c]
    BY <1>1, <1>3
  <2> QED BY <1>1, <1>2, <2>2, <2>3, Zenon DEF UpTo
<1>5. IsFiniteSet(UpTo(day[c]))
  BY FS_Subset DEF UpTo, Records
<1>6. IsFiniteSet(first)
  BY <1>4, <1>5, FS_Subset
<1>7. Cardinality(first \cup {b}) = Limit + 1
  BY <1>2, <1>3, <1>6, FS_AddElement
<1>8. Cardinality(first \cup {b}) <= Cardinality(UpTo(day[c]))
  BY <1>4, <1>5, FS_Subset
<1> QED BY <1>5, <1>7, <1>8, FS_CardinalityType

\* The calendar keeps the invariant while teachers sign in.
LEMMA AttendKeeps ==
    ASSUME IInv, Attend
    PROVE  IInv'
<1>1. Kept
  BY DEF IInv, TypeOK, Kept, Outcomes
<1>2. Kept' /\ Grows /\ UNCHANGED calendar
  BY <1>1, RegisterGrows DEF Attend
<1>3. TypeOK'
  BY <1>2 DEF IInv, TypeOK, Kept, Outcomes, calendar
<1>4. Records(viewer) \subseteq Records(viewer)' /\ \A c \in Records(viewer) : day'[c] = day[c]
  BY <1>1, <1>2 DEF Records, Kept, Grows, calendar
<1>5. \A c \in told : outcome'[c] \in {"signed", "filtered"}
  BY <1>2 DEF IInv, TypeOK, Grows
<1>6. /\ objects' \subseteq Records(viewer)'
      /\ \A d \in stars' : \E c \in Records(viewer)' : day'[c] = d
  BY <1>2, <1>4 DEF IInv, calendar
<1>7. (page = "answered" /\ ~errored) => Covered({day[c] : c \in objects})'
  <2> SUFFICES ASSUME page = "answered", ~errored PROVE Covered({day[c] : c \in objects})'
    OBVIOUS
  <2>1. {day[c] : c \in objects} = {day[c] : c \in objects}'
    BY <1>2, <1>4 DEF IInv, calendar
  <2>2. Covered({day[c] : c \in objects})
    BY DEF IInv
  <2> DEFINE days == {day[c] : c \in objects}
  <2> QED BY <1>1, <1>2, <2>1, <2>2, CoveredStays DEF Covered
<1>8. ToldIsStarred'
  BY <1>1, <1>2, CoveredStays DEF IInv, ToldIsStarred, calendar, Covered
<1> QED BY <1>2, <1>3, <1>5, <1>6, <1>7, <1>8 DEF IInv, Kept, calendar

LEMMA IInvStep == IInv /\ [Next]_vars => IInv'
<1> SUFFICES ASSUME IInv, [Next]_vars PROVE IInv'
  OBVIOUS
<1> USE DEF IInv, TypeOK, claims, Records, ToldIsStarred
<1>1. CASE Attend
  BY ONLY IInv, <1>1, AttendKeeps
<1>2. ASSUME NEW s \in Students, OpenCalendar(s) PROVE IInv'
  BY <1>2 DEF OpenCalendar
<1>3. CASE ServeHistory
  <2>1. Covered({day[c] : c \in objects'})
    BY <1>3, OldestCover DEF ServeHistory
  <2>2. objects' \subseteq Records(viewer)
    BY <1>3 DEF ServeHistory, Oldest
  <2> QED BY <1>3, <2>1, <2>2 DEF ServeHistory, Covered, UpTo
<1>4. CASE FailHistory
  BY <1>4 DEF FailHistory
<1>5. CASE ShowStars
  <2>1. stars' \subseteq Days /\ \A d \in stars' : \E c \in Records(viewer) : day[c] = d
    BY <1>5 DEF ShowStars
  <2>2. ~errored => Covered(stars')
    BY <1>5 DEF ShowStars
  <2> QED BY <1>5, <2>1, <2>2 DEF ShowStars, Covered, UpTo
<1>6. CASE CloseCalendar
  BY <1>6 DEF CloseCalendar
<1>7. CASE UNCHANGED vars
  BY <1>7 DEF vars, calendar, Covered, UpTo
<1> QED BY <1>1, <1>2, <1>3, <1>4, <1>5, <1>6, <1>7 DEF Next

\* The invariant holds, whatever teachers sign in while calendars open and close.
THEOREM CalendarIsSafe == Spec => []TypeOK /\ []IInv
<1>1. IInv => TypeOK
  BY DEF IInv
<1> QED BY <1>1, IInvInit, IInvStep, PTL DEF Spec

\* What a teacher was told of a student, the student's calendar stars, up to the
\* service's limit, for any number of claims about any number of students.
THEOREM ToldIsStarredHolds == Spec => []ToldIsStarred
<1>1. IInv => ToldIsStarred
  BY DEF IInv
<1> QED BY <1>1, IInvInit, IInvStep, PTL DEF Spec
=============================================================================
