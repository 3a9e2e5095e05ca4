-------------------------- MODULE AddressBookProofs --------------------------
(***************************************************************************)
(* Proofs about Roster and AddressBookPage, for any classes, users and     *)
(* initials, and any number of loads under way.                            *)
(***************************************************************************)
EXTENDS AddressBookPage, SequenceLemmas

\* A sequence of the first values of f, and the next one.
LEMMA AppendNext ==
    ASSUME NEW S, NEW n \in Nat, NEW f \in [1..(n + 1) -> S]
    PROVE  Append([i \in 1..n |-> f[i]], f[n + 1]) = f
<1> DEFINE s == [i \in 1..n |-> f[i]]
           t == Append(s, f[n + 1])
<1>1. s \in Seq(S) /\ Len(s) = n
  BY LenProperties, n \in Nat
<1>2. f \in Seq(S) /\ Len(f) = n + 1
  <2>1. n + 1 \in Nat
    OBVIOUS
  <2>2. f \in Seq(S)
    BY <2>1
  <2> QED BY <2>1, <2>2, LenProperties
<1>3. /\ t \in Seq(S) /\ Len(t) = n + 1 /\ t[n + 1] = f[n + 1]
      /\ \A i \in 1..n : t[i] = f[i]
  BY <1>1, AppendProperties
<1>4. \A i \in 1..(n + 1) : t[i] = f[i]
  BY <1>3
<1> QED BY <1>2, <1>3, <1>4, SeqEqual

\* Loads but l keep everything that matters of them.
KeptBut(l) ==
    /\ load' \in [Loads -> LoadRecords]
    /\ \A k \in Loads \ {l} :
        /\ load'[k].phase = load[k].phase /\ load'[k].class = load[k].class
        /\ load'[k].list = load[k].list /\ load'[k].next = load[k].next
        /\ load'[k].names = load[k].names

\* Disturbing enumerations changes no more than the flag.
LEMMA DisturbedKeeps ==
    ASSUME TypeOK
    PROVE  /\ Disturbed(load) \in [Loads -> LoadRecords]
           /\ \A k \in Loads :
               /\ Disturbed(load)[k].phase = load[k].phase
               /\ Disturbed(load)[k].class = load[k].class
               /\ Disturbed(load)[k].list = load[k].list
               /\ Disturbed(load)[k].next = load[k].next
               /\ Disturbed(load)[k].names = load[k].names
BY DEF TypeOK, LoadRecords, Disturbed

\* A load that is free or sent has the shape of a load.
LEMMA FreshShape ==
    ASSUME NEW p \in Phases, NEW c \in Classes \cup {None}
    PROVE  /\ Fresh(p, c) \in LoadRecords
           /\ Fresh(p, c).phase = p /\ Fresh(p, c).class = c /\ Fresh(p, c).next = 1
<1>1. <<>> \in Seq(Users) /\ <<>> \in Seq(Initials)
  BY EmptySeq
<1> QED BY <1>1 DEF Fresh, LoadRecords

\* A free load is sent for the chosen class, if there is one.
LEMMA SendEffect ==
    ASSUME TypeOK, UpdateMenuAndLoad, chosen # None
    PROVE  \E l \in Loads :
             /\ load[l].phase = "free" /\ l \notin ToSet(order)
             /\ KeptBut(l)
             /\ load'[l].phase = "querying" /\ load'[l].class = chosen
             /\ load'[l].next = 1
             /\ title' = chosen /\ chosen \in Classes
             /\ order' = Append(order, l) /\ hud' = TRUE
<1>1. PICK l \in Loads :
        /\ load[l].phase = "free"
        /\ load' = [load EXCEPT ![l] = Fresh("querying", chosen)]
        /\ order' = Append(order, l)
  BY DEF UpdateMenuAndLoad
<1>2. chosen \in Classes
  BY DEF TypeOK
<1>3. load'[l] = Fresh("querying", chosen)
  BY <1>1 DEF TypeOK
<1>4. load'[l].phase = "querying" /\ load'[l].class = chosen /\ load'[l].next = 1
  BY <1>2, <1>3, FreshShape DEF Phases
<1>5. KeptBut(l)
  BY <1>1, <1>2, FreshShape DEF KeptBut, TypeOK, Phases
<1>6. l \notin ToSet(order) /\ title' = chosen /\ chosen \in Classes /\ hud' = TRUE
  BY <1>1 DEF TypeOK, UpdateMenuAndLoad
<1> QED BY <1>1, <1>2, <1>4, <1>5, <1>6

\* The loads out, without one of them.
LEMMA UnqueuedRemoves ==
    ASSUME TypeOK, NEW l \in ToSet(order)
    PROVE  /\ Unqueued(l) \in Seq(Loads) /\ IsInjective(Unqueued(l))
           /\ ToSet(Unqueued(l)) = ToSet(order) \ {l}
           /\ l # Last(order) => Last(Unqueued(l)) = Last(order)
<1> DEFINE i == CHOOSE j \in DOMAIN order : order[j] = l
<1>1. DOMAIN order = 1..Len(order) /\ order \in Seq(Loads) /\ IsInjective(order)
  BY LenProperties DEF TypeOK
<1>2. i \in 1..Len(order) /\ order[i] = l
  BY <1>1 DEF ToSet
<1>3. Unqueued(l) = RemoveAt(order, i)
  BY DEF Unqueued
<1> HIDE DEF i
<1>4. l # Last(order) => i # Len(order)
  BY <1>2 DEF Last
<1>5. /\ RemoveAt(order, i) \in Seq(Loads) /\ IsInjective(RemoveAt(order, i))
      /\ ToSet(RemoveAt(order, i)) = ToSet(order) \ {order[i]}
      /\ i # Len(order) => Last(RemoveAt(order, i)) = Last(order)
  BY <1>1, <1>2, RemoveAtRemoves
<1> QED BY <1>2, <1>3, <1>4, <1>5

\* A load's answer is there: the arrays are empty and the load starts to split it.
LEMMA DealEffect ==
    ASSUME TypeOK, NEW l \in Loads, Deal(l)
    PROVE  /\ load[l].phase = "querying" /\ load[l].class \in Classes
           /\ l \in ToSet(order)
           /\ KeptBut(l)
           /\ load'[l].phase = "titles" /\ load'[l].class = load[l].class
           /\ load'[l].next = load[l].next
           /\ load'[l].list \in {UsersOf[load[l].class], <<>>}
<1>1. PICK list \in {UsersOf[load[l].class], <<>>} :
        load' = [Disturbed(load) EXCEPT ![l].phase = "titles", ![l].list = list]
  BY DEF Deal
<1>2. load[l].phase = "querying" /\ load[l].class \in Classes /\ l \in ToSet(order)
  BY DEF TypeOK, Deal, LoadRecords
<1>3. list \in Seq(Users)
  <2>1. UsersOf[load[l].class] \in Seq(Users)
    BY <1>2, UsersOfAssumption
  <2>2. <<>> \in Seq(Users)
    BY EmptySeq
  <2> QED BY <2>1, <2>2
<1> DEFINE d == Disturbed(load)
<1>4. /\ d \in [Loads -> LoadRecords]
      /\ \A k \in Loads :
          /\ d[k].phase = load[k].phase /\ d[k].class = load[k].class
          /\ d[k].list = load[k].list /\ d[k].next = load[k].next
          /\ d[k].names = load[k].names
  BY DisturbedKeeps
<1>5. load' = [d EXCEPT ![l].phase = "titles", ![l].list = list]
  BY <1>1
<1> HIDE DEF d
<1>6. load' \in [Loads -> LoadRecords]
  <2>1. d[l] \in LoadRecords
    BY <1>4
  <2>2. [d[l] EXCEPT !.phase = "titles"] \in LoadRecords
    BY <2>1 DEF LoadRecords, Phases
  <2>3. [[d[l] EXCEPT !.phase = "titles"] EXCEPT !.list = list] \in LoadRecords
    BY <1>3, <2>2 DEF LoadRecords
  <2>4. load' = [d EXCEPT ![l] = [[d[l] EXCEPT !.phase = "titles"] EXCEPT !.list = list]]
    BY <1>4, <1>5
  <2> QED BY <1>4, <2>3, <2>4
<1>7. \A k \in Loads \ {l} : load'[k] = d[k]
  BY <1>4, <1>5
<1>8. /\ load'[l].phase = "titles" /\ load'[l].class = load[l].class
      /\ load'[l].next = load[l].next /\ load'[l].list = list
  BY <1>4, <1>5 DEF LoadRecords
<1> QED BY <1>1, <1>2, <1>4, <1>6, <1>7, <1>8 DEF KeptBut

\* A step of a block on the background queue, or the reload, of load l, which does
\* not raise.
Works(l) ==
    \/ AddTitle(l) \/ StartSections(l) \/ AddSection(l) \/ PostReload(l)
    \/ Reload(l) /\ ~(Len(titles) > Len(sections))

\* Counting keeps the shape of a load.
LEMMA CountingShape ==
    ASSUME NEW r \in LoadRecords
    PROVE  /\ [r EXCEPT !.next = 1] \in LoadRecords
           /\ [r EXCEPT !.next = r.next + 1] \in LoadRecords
<1>1. 1 \in Nat \ {0} /\ r.next + 1 \in Nat \ {0}
  BY DEF LoadRecords
<1>2. ASSUME NEW n \in Nat \ {0} PROVE [r EXCEPT !.next = n] \in LoadRecords
  <2> DEFINE N == Nat \ {0}
  <2>1. n \in N
    OBVIOUS
  <2>2. LoadRecords = [phase : Phases, class : Classes \cup {None}, list : Seq(Users),
                       next : N, names : Seq(Initials), mutated : BOOLEAN]
    BY DEF LoadRecords
  <2> HIDE DEF N
  <2> QED BY <2>1, <2>2
<1> QED BY <1>1, <1>2

\* It moves its own load on, and no query.
LEMMA WorkEffect ==
    ASSUME TypeOK, NEW l \in Loads, Works(l)
    PROVE  /\ l \in Dealing
           /\ KeptBut(l)
           /\ load'[l].phase = "free" => load'[l].next = 1
           /\ load'[l].phase # "querying"
           /\ load'[l].class = None <=> load'[l].phase = "free"
           /\ Reload(l) => load'[l].phase = "free"
           /\ ~Reload(l) => load'[l].phase \in {"titles", "sections", "reload"}
           /\ UNCHANGED <<page, order, crashed, history>>
           /\ titles' \in Seq(Initials)
           /\ hud' \in {hud, FALSE}
<1> DEFINE d == Disturbed(load)
<1>1. /\ d \in [Loads -> LoadRecords]
      /\ \A k \in Loads :
          /\ d[k].phase = load[k].phase /\ d[k].class = load[k].class
          /\ d[k].list = load[k].list /\ d[k].next = load[k].next
          /\ d[k].names = load[k].names
  BY DisturbedKeeps
<1>2. load \in [Loads -> LoadRecords] /\ titles \in Seq(Initials)
  BY DEF TypeOK
<1>3. load[l].class = None <=> load[l].phase = "free"
  BY DEF TypeOK
<1> HIDE DEF d
<1>4. CASE AddTitle(l)
  <2> DEFINE i == Initial[load[l].list[load[l].next]]
             ld == IF i \notin ToSet(titles) THEN d ELSE load
  <2>1. /\ load[l].phase = "titles" /\ load[l].next <= Len(load[l].list)
        /\ titles' = IF i \notin ToSet(titles) THEN Append(titles, i) ELSE titles
        /\ load' = [ld EXCEPT ![l].next = @ + 1]
        /\ UNCHANGED <<page, order, crashed, history, hud>>
    BY <1>4 DEF AddTitle, d
  <2>2. /\ ld \in [Loads -> LoadRecords]
        /\ \A k \in Loads :
            /\ ld[k].phase = load[k].phase /\ ld[k].class = load[k].class
            /\ ld[k].list = load[k].list /\ ld[k].next = load[k].next
            /\ ld[k].names = load[k].names
    BY <1>1, <1>2
  <2>3. load[l].list \in Seq(Users) /\ load[l].next \in Nat \ {0}
    BY <1>2 DEF LoadRecords
  <2>4. i \in Initials
    <3>1. load[l].next \in 1..Len(load[l].list)
      BY <2>1, <2>3
    <3>2. load[l].list[load[l].next] \in Users
      BY <2>3, <3>1, LenProperties
    <3> QED BY <3>2 DEF Initials
  <2> HIDE DEF i, ld
  <2>5. load' \in [Loads -> LoadRecords]
    <3>1. load' = [ld EXCEPT ![l] = [ld[l] EXCEPT !.next = ld[l].next + 1]]
      BY <2>1, <2>2
    <3> QED BY <2>2, <3>1, CountingShape
  <2>6. load'[l].phase = "titles" /\ load'[l].class = load[l].class
    BY <2>1, <2>2 DEF LoadRecords
  <2>7. \A k \in Loads \ {l} : load'[k] = ld[k]
    BY <2>1, <2>2
  <2>8. titles' \in Seq(Initials)
    BY <1>2, <2>1, <2>4, AppendProperties
  <2> QED
    BY <1>3, <1>4, <2>1, <2>2, <2>5, <2>6, <2>7, <2>8 DEF KeptBut, Dealing, Reload
<1>5. CASE StartSections(l)
  <2>1. /\ load[l].phase = "titles"
        /\ load' = [load EXCEPT ![l].phase = "sections", ![l].next = 1, ![l].names = titles]
        /\ UNCHANGED <<page, order, crashed, history, hud, titles>>
    BY <1>5 DEF StartSections, arrays
  <2>2. load' \in [Loads -> LoadRecords]
    <3>1. load[l] \in LoadRecords
      BY <1>2
    <3>2. [load[l] EXCEPT !.phase = "sections"] \in LoadRecords
      BY <3>1 DEF LoadRecords, Phases
    <3>3. [[load[l] EXCEPT !.phase = "sections"] EXCEPT !.next = 1] \in LoadRecords
      BY <3>2, CountingShape
    <3>4. [[[load[l] EXCEPT !.phase = "sections"] EXCEPT !.next = 1] EXCEPT !.names = titles]
             \in LoadRecords
      BY <1>2, <3>3 DEF LoadRecords
    <3>5. load' = [load EXCEPT ![l] =
             [[[load[l] EXCEPT !.phase = "sections"] EXCEPT !.next = 1] EXCEPT !.names = titles]]
      BY <1>2, <2>1
    <3> QED BY <1>2, <3>4, <3>5
  <2>3. load'[l].phase = "sections" /\ load'[l].class = load[l].class
    BY <1>2, <2>1 DEF LoadRecords
  <2>4. \A k \in Loads \ {l} : load'[k] = load[k]
    BY <1>2, <2>1
  <2> QED BY <1>2, <1>3, <1>5, <2>1, <2>2, <2>3, <2>4 DEF KeptBut, Dealing, Reload
<1>6. CASE AddSection(l)
  <2>1. /\ load[l].phase = "sections"
        /\ load' = [load EXCEPT ![l].next = @ + 1]
        /\ UNCHANGED <<page, order, crashed, history, hud, titles>>
    BY <1>6 DEF AddSection
  <2>2. load' \in [Loads -> LoadRecords]
    <3>1. load' = [load EXCEPT ![l] = [load[l] EXCEPT !.next = load[l].next + 1]]
      BY <1>2, <2>1
    <3> QED BY <1>2, <3>1, CountingShape
  <2>3. load'[l].phase = "sections" /\ load'[l].class = load[l].class
    BY <1>2, <2>1 DEF LoadRecords
  <2>4. \A k \in Loads \ {l} : load'[k] = load[k]
    BY <1>2, <2>1
  <2> QED BY <1>2, <1>3, <1>6, <2>1, <2>2, <2>3, <2>4 DEF KeptBut, Dealing, Reload
<1>7. CASE PostReload(l)
  <2>1. /\ load[l].phase = "sections"
        /\ load' = [load EXCEPT ![l].phase = "reload"]
        /\ UNCHANGED <<page, order, crashed, history, hud, titles>>
    BY <1>7 DEF PostReload, arrays
  <2>2. load' \in [Loads -> LoadRecords]
    BY <1>2, <2>1 DEF LoadRecords, Phases
  <2>3. load'[l].phase = "reload" /\ load'[l].class = load[l].class
    BY <1>2, <2>1 DEF LoadRecords
  <2>4. \A k \in Loads \ {l} : load'[k] = load[k]
    BY <1>2, <2>1
  <2> QED BY <1>2, <1>3, <1>7, <2>1, <2>2, <2>3, <2>4 DEF KeptBut, Dealing, Reload
<1>8. CASE Reload(l) /\ ~(Len(titles) > Len(sections))
  <2>2. /\ load[l].phase = "reload" /\ load' = [load EXCEPT ![l] = Idle] /\ hud' = FALSE
        /\ UNCHANGED <<page, order, crashed, history, titles>>
    BY <1>8 DEF Reload, arrays
  <2>3. Idle \in LoadRecords /\ Idle.phase = "free" /\ Idle.class = None /\ Idle.next = 1
    BY FreshShape DEF Idle, Phases
  <2> QED BY <1>2, <1>8, <2>2, <2>3 DEF KeptBut, Dealing
<1> QED BY <1>4, <1>5, <1>6, <1>7, <1>8 DEF Works

-----------------------------------------------------------------------------
\* The steps of the page by what they do.
LEMMA StepKinds ==
    ASSUME [Next]_rosterVars
    PROVE  \/ FirstAppear \/ MenuClosed
           \/ \E c \in Classes : PickClass(c)
           \/ \E l \in Loads : Deal(l)
           \/ \E l \in Loads : Works(l)
           \/ Crash
           \/ UNCHANGED rosterVars
<1>1. ASSUME NEW l \in Loads, Reload(l), Len(titles) > Len(sections) PROVE Crash
  BY <1>1 DEF Reload
<1>2. ASSUME NEW l \in Loads, EnumerationRaises(l) PROVE Crash
  BY <1>2 DEF EnumerationRaises
<1>3. ASSUME NEW row \in Rows(shown), LookUpRow(row) PROVE Crash
  BY <1>3 DEF LookUpRow
<1>4. RaceCrashes => Crash
  BY DEF RaceCrashes
<1> QED BY <1>1, <1>2, <1>3, <1>4 DEF Next, Step, Works

\* Nothing is sent without a class, and the class is there once the menu closes.
LEMMA NotSent ==
    ASSUME UpdateMenuAndLoad, chosen = None
    PROVE  title' = None /\ UNCHANGED <<order, load, hud>>
BY DEF UpdateMenuAndLoad

\* Every step keeps the shape of every variable.
LEMMA TypeStep ==
    ASSUME TypeOK, [Next]_rosterVars
    PROVE  TypeOK'
<1>1. CASE FirstAppear \/ MenuClosed
  <2>1. /\ UpdateMenuAndLoad
        /\ UNCHANGED <<chosen, titles, crashed, mixed, dealt>>
        /\ {appeared', closing'} \subseteq BOOLEAN
    BY <1>1 DEF FirstAppear, MenuClosed, arrays, history, TypeOK
  <2>2. CASE chosen = None
    BY <2>1, <2>2, NotSent DEF TypeOK
  <2>3. CASE chosen # None
    <3>1. PICK l \in Loads :
             /\ load[l].phase = "free" /\ l \notin ToSet(order)
             /\ KeptBut(l)
             /\ load'[l].phase = "querying" /\ load'[l].class = chosen
             /\ title' = chosen /\ chosen \in Classes
             /\ order' = Append(order, l) /\ hud' = TRUE
      BY <2>1, <2>3, SendEffect
    <3>2. /\ order' \in Seq(Loads) /\ IsInjective(order')
          /\ ToSet(order') = ToSet(order) \cup {l}
      BY <3>1, AppendKeepsApart DEF TypeOK
    <3>3. ToSet(order') = {k \in Loads : load'[k].phase = "querying"}
      BY <3>1, <3>2 DEF TypeOK, KeptBut
    <3>4. \A k \in Loads : load'[k].class = None <=> load'[k].phase = "free"
      BY <3>1, NoneAssumption DEF TypeOK, KeptBut
    <3> QED BY <2>1, <3>1, <3>2, <3>3, <3>4 DEF TypeOK, KeptBut
  <2> QED BY <2>2, <2>3
<1>2. ASSUME NEW c \in Classes, PickClass(c) PROVE TypeOK'
  BY <1>2 DEF PickClass, TypeOK, arrays, history
<1>3. ASSUME NEW l \in Loads, Deal(l) PROVE TypeOK'
  <2>1. /\ titles' = <<>> /\ order' = Unqueued(l)
        /\ mixed' = (Dealing # {})
        /\ dealt' = [class |-> IF load'[l].list = <<>> THEN None ELSE load[l].class,
                     late |-> l \in overtaken]
        /\ UNCHANGED <<page, hud, crashed>>
    BY <1>3 DEF Deal
  <2>2. /\ load[l].phase = "querying" /\ load[l].class \in Classes
        /\ l \in ToSet(order)
        /\ KeptBut(l)
        /\ load'[l].phase = "titles" /\ load'[l].class = load[l].class
    BY <1>3, DealEffect
  <2>3. /\ order' \in Seq(Loads) /\ IsInjective(order')
        /\ ToSet(order') = ToSet(order) \ {l}
    BY <2>1, <2>2, UnqueuedRemoves
  <2>4. ToSet(order') = {k \in Loads : load'[k].phase = "querying"}
    BY <2>2, <2>3 DEF TypeOK, KeptBut
  <2>5. \A k \in Loads : load'[k].class = None <=> load'[k].phase = "free"
    BY <2>2, NoneAssumption DEF TypeOK, KeptBut
  <2>6. titles' \in Seq(Initials)
    BY <2>1, EmptySeq
  <2>7. dealt' \in [class : Classes \cup {None}, late : BOOLEAN]
    BY <2>1, <2>2
  <2> QED BY <2>1, <2>2, <2>3, <2>4, <2>5, <2>6, <2>7 DEF TypeOK, KeptBut, page
<1>4. ASSUME NEW l \in Loads, Works(l) PROVE TypeOK'
  <2>1. /\ l \in Dealing /\ KeptBut(l)
        /\ load'[l].phase # "querying"
        /\ load'[l].class = None <=> load'[l].phase = "free"
        /\ UNCHANGED <<page, order, crashed, history>>
        /\ titles' \in Seq(Initials) /\ hud' \in {hud, FALSE}
    BY <1>4, WorkEffect
  <2>2. ToSet(order') = {k \in Loads : load'[k].phase = "querying"}
    BY <2>1 DEF TypeOK, KeptBut, Dealing
  <2>3. \A k \in Loads : load'[k].class = None <=> load'[k].phase = "free"
    BY <2>1 DEF TypeOK, KeptBut
  <2> QED BY <2>1, <2>2, <2>3 DEF TypeOK, KeptBut, page, history
<1>5. CASE Crash
  <2>1. <<>> \in Seq(Loads) /\ <<>> \in Seq(Initials) /\ IsInjective(<<>>) /\ ToSet(<<>>) = {}
    BY EmptySeq DEF IsInjective, ToSet
  <2>2. Idle \in LoadRecords /\ Idle.phase = "free" /\ Idle.class = None
    BY FreshShape DEF Idle, Phases
  <2>3. load' \in [Loads -> LoadRecords] /\ \A l \in Loads : load'[l] = Idle
    BY <1>5, <2>2 DEF Crash
  <2>4. dealt' \in [class : Classes \cup {None}, late : BOOLEAN]
    BY <1>5 DEF Crash
  <2> QED BY <1>5, <2>1, <2>2, <2>3, <2>4 DEF Crash, TypeOK, page
<1>6. CASE UNCHANGED rosterVars
  BY <1>6 DEF rosterVars, TypeOK, page, arrays, history
<1> QED BY <1>1, <1>2, <1>3, <1>4, <1>5, <1>6, StepKinds

\* Before the page appears, and before an answer comes, there is nothing.
LEMMA NothingStep ==
    ASSUME TypeOK, NothingYet, [Next]_rosterVars
    PROVE  NothingYet'
<1> USE DEF NothingYet
<1>1. CASE FirstAppear \/ MenuClosed
  <2>1. UpdateMenuAndLoad /\ appeared' = TRUE /\ closing' = FALSE
    BY <1>1 DEF FirstAppear, MenuClosed
  <2>2. CASE chosen = None
    BY <2>1, <2>2, NotSent
  <2>3. CASE chosen # None
    <3>1. PICK l \in Loads : KeptBut(l) /\ load'[l].next = 1
      BY <2>1, <2>3, SendEffect
    <3> QED BY <2>1, <3>1 DEF KeptBut
  <2> QED BY <2>2, <2>3
<1>2. ASSUME NEW c \in Classes, PickClass(c) PROVE NothingYet'
  BY <1>2, NoneAssumption DEF PickClass, history
<1>3. ASSUME NEW l \in Loads, Deal(l) PROVE NothingYet'
  <2>1. l \in ToSet(order) /\ KeptBut(l) /\ load'[l].phase = "titles"
    BY <1>3, DealEffect
  <2>2. appeared
    BY <2>1 DEF ToSet
  <2>3. UNCHANGED page
    BY <1>3 DEF Deal
  <2> QED BY <2>1, <2>2, <2>3 DEF KeptBut, page
<1>4. ASSUME NEW l \in Loads, Works(l) PROVE NothingYet'
  <2>1. /\ KeptBut(l)
        /\ load'[l].phase = "free" => load'[l].next = 1
        /\ load'[l].phase # "querying"
        /\ UNCHANGED <<page, order, crashed, history>>
    BY <1>4, WorkEffect
  <2> QED BY <2>1 DEF KeptBut, page, history
<1>5. CASE Crash
  <2>1. \A l \in Loads : load'[l].next = 1
    BY <1>5 DEF Crash, Idle, Fresh
  <2>2. order' = <<>> /\ dealt'.class = None /\ UNCHANGED page
    BY <1>5 DEF Crash
  <2> QED BY <2>1, <2>2 DEF page
<1>6. CASE UNCHANGED rosterVars
  BY <1>6 DEF rosterVars, page, history
<1> QED BY <1>1, <1>2, <1>3, <1>4, <1>5, <1>6, StepKinds

\* The load sent last, or dealt with last, is of the class on the menu button,
\* unless it was overtaken.
LEMMA LatestStep ==
    ASSUME TypeOK, NothingYet, MenuNamesTheLatest, [Next]_rosterVars
    PROVE  MenuNamesTheLatest'
<1> USE DEF MenuNamesTheLatest
<1>0. order # <<>> => Last(order) \in ToSet(order)
  BY ToSetByIndex DEF TypeOK
<1>1. CASE FirstAppear \/ MenuClosed
  <2>1. UpdateMenuAndLoad /\ ~crashed /\ UNCHANGED <<crashed, dealt, overtaken>>
    BY <1>1 DEF FirstAppear, MenuClosed, history
  <2>2. CASE chosen = None
    <3>1. order = <<>> /\ dealt.class = None
      BY <1>1, <2>2 DEF FirstAppear, MenuClosed, NothingYet
    <3> QED BY <2>1, <2>2, <3>1, NotSent
  <2>3. CASE chosen # None
    <3>1. PICK l \in Loads : load'[l].class = chosen /\ title' = chosen /\ order' = Append(order, l)
      BY <2>1, <2>3, SendEffect
    <3>2. order' # <<>> /\ Last(order') = l
      BY <3>1, AppendKeepsApart DEF TypeOK
    <3> QED BY <3>1, <3>2
  <2> QED BY <2>2, <2>3
<1>2. ASSUME NEW c \in Classes, PickClass(c) PROVE MenuNamesTheLatest'
  BY <1>2 DEF PickClass, history
<1>3. ASSUME NEW l \in Loads, Deal(l) PROVE MenuNamesTheLatest'
  <2>1. /\ order' = Unqueued(l) /\ ~crashed
        /\ dealt' = [class |-> IF load'[l].list = <<>> THEN None ELSE load[l].class,
                     late |-> l \in overtaken]
        /\ overtaken' = (overtaken \cup Overtaken(l)) \ {l}
        /\ title' = title
    BY <1>3 DEF Deal, page
  <2>2. l \in ToSet(order) /\ KeptBut(l) /\ order # <<>>
    BY <1>3, DealEffect DEF ToSet
  <2>3. /\ order' \in Seq(Loads) /\ ToSet(order') = ToSet(order) \ {l}
        /\ l # Last(order) => Last(order') = Last(order)
    BY <2>1, <2>2, UnqueuedRemoves
  <2>4. order' # <<>> => Last(order') \in ToSet(order) \ {l}
    BY <2>3, ToSetByIndex
  <2>5. CASE l = Last(order)
    <3>1. ASSUME NEW k \in ToSet(order) \ {l} PROVE k \in Overtaken(l)
      <4>1. DOMAIN order = 1..Len(order) /\ Len(order) \in Nat
        BY LenProperties DEF TypeOK
      <4>2. PICK i \in 1..Len(order) : order[i] = k
        BY <4>1 DEF ToSet
      <4>3. i < Len(order) /\ order[Len(order)] = l /\ Len(order) \in DOMAIN order
        BY <2>5, <3>1, <4>1, <4>2 DEF Last
      <4>4. k \in Loads
        BY ToSetByIndex DEF TypeOK
      <4> QED BY <4>1, <4>2, <4>3, <4>4 DEF Overtaken
    <3>2. order' # <<>> => Last(order') \in overtaken'
      BY <2>1, <2>4, <3>1
    <3>3. (~dealt'.late /\ dealt'.class # None) => dealt'.class = title'
      BY <2>1, <2>2, <2>5
    <3> QED BY <3>2, <3>3
  <2>6. CASE l # Last(order)
    <3>1. Last(order) \in ToSet(order')
      BY <1>0, <2>2, <2>3, <2>6
    <3>2. order' # <<>>
      BY <3>1 DEF ToSet
    <3>3. load'[Last(order)].class = load[Last(order)].class
      BY <1>0, <2>2, <2>6, ToSetByIndex DEF KeptBut, TypeOK
    <3> QED BY <2>1, <2>2, <2>3, <2>6, <3>2, <3>3
  <2> QED BY <2>5, <2>6
<1>4. ASSUME NEW l \in Loads, Works(l) PROVE MenuNamesTheLatest'
  <2>1. l \in Dealing /\ KeptBut(l) /\ UNCHANGED <<page, order, crashed, history>>
    BY <1>4, WorkEffect
  <2>2. l \notin ToSet(order)
    BY <2>1 DEF TypeOK, Dealing
  <2>3. order # <<>> => load'[Last(order)].class = load[Last(order)].class
    BY <1>0, <2>1, <2>2, ToSetByIndex DEF KeptBut, TypeOK
  <2> QED BY <2>1, <2>3 DEF page, history
<1>5. CASE Crash
  BY <1>5 DEF Crash
<1>6. CASE UNCHANGED rosterVars
  BY <1>6 DEF rosterVars, page, history
<1> QED BY <1>1, <1>2, <1>3, <1>4, <1>5, <1>6, StepKinds

-----------------------------------------------------------------------------
\* What is known of a load that met no other.
Sole ==
    /\ (~crashed /\ ~mixed) => \A l \in Dealing : Splits(l)
    /\ SoleLoadShowsItsClass

\* Steps that leave the arrays and the loads dealt with alone.
LEMMA SoleFrame ==
    ASSUME Sole, Dealing' = Dealing,
           \A l \in Dealing :
             /\ load'[l].phase = load[l].phase /\ load'[l].list = load[l].list
             /\ load'[l].next = load[l].next /\ load'[l].names = load[l].names,
           UNCHANGED <<arrays, shown, crashed, mixed, dealt>>
    PROVE  Sole'
<1>1. UNCHANGED <<titles, sections, shown, crashed, mixed, dealt>>
  BY DEF arrays
<1>2. SoleLoadShowsItsClass'
  BY <1>1 DEF Sole, SoleLoadShowsItsClass, IsPartition, ListOf
<1>3. ASSUME NEW l \in Dealing, Splits(l) PROVE Splits(l)'
  <2> DEFINE list == load[l].list
             next == load[l].next
  <2>1. list' = list /\ next' = next /\ load'[l].phase = load[l].phase
        /\ load'[l].names = load[l].names
    BY <1>3
  <2>2. Dealing' = {l} /\ list' = ListOf(dealt.class)'
    BY <1>1, <1>3, <2>1 DEF Splits, ListOf
  <2>3. ASSUME load[l].phase = "titles"
        PROVE  next' \in 1..(Len(list') + 1) /\ TitlesOfFirst(next - 1, list)'
               /\ SectionsOfFirst(0, list)'
    <3>1. /\ next \in 1..(Len(list) + 1) /\ TitlesOfFirst(next - 1, list)
          /\ SectionsOfFirst(0, list)
      BY <1>3, <2>3 DEF Splits
    <3> QED BY <1>1, <2>1, <3>1 DEF TitlesOfFirst, SectionsOfFirst
  <2>4. ASSUME load[l].phase = "sections"
        PROVE  /\ load'[l].names = titles' /\ next' \in 1..(Len(titles') + 1)
               /\ TitlesOfFirst(Len(list), list)' /\ SectionsOfFirst(next - 1, list)'
    <3>1. /\ load[l].names = titles /\ next \in 1..(Len(titles) + 1)
          /\ TitlesOfFirst(Len(list), list) /\ SectionsOfFirst(next - 1, list)
      BY <1>3, <2>4 DEF Splits
    <3> QED BY <1>1, <2>1, <3>1 DEF TitlesOfFirst, SectionsOfFirst
  <2>5. ASSUME load[l].phase = "reload"
        PROVE  TitlesOfFirst(Len(list), list)' /\ SectionsOfFirst(Len(titles), list)'
    <3>1. TitlesOfFirst(Len(list), list) /\ SectionsOfFirst(Len(titles), list)
      BY <1>3, <2>5 DEF Splits
    <3> QED BY <1>1, <2>1, <3>1 DEF TitlesOfFirst, SectionsOfFirst
  <2> QED BY <2>1, <2>2, <2>3, <2>4, <2>5 DEF Splits
<1> QED BY <1>1, <1>2, <1>3 DEF Sole

\* A load that finds no other dealt with starts from empty arrays.
LEMMA SoleDeal ==
    ASSUME TypeOK, NothingYet, NEW l \in Loads, Deal(l)
    PROVE  Sole'
<1>1. /\ titles' = <<>> /\ sections' = <<>>
      /\ mixed' = (Dealing # {})
      /\ dealt' = [class |-> IF load'[l].list = <<>> THEN None ELSE load[l].class,
                   late |-> l \in overtaken]
  BY DEF Deal
<1>2. /\ load[l].phase = "querying" /\ load[l].class \in Classes
      /\ KeptBut(l)
      /\ load'[l].phase = "titles" /\ load'[l].next = load[l].next
      /\ load'[l].list \in {UsersOf[load[l].class], <<>>}
  BY DealEffect
<1>3. l \in Dealing'
  BY <1>2 DEF Dealing
<1>4. ASSUME ~mixed' PROVE Splits(l)'
  <2>1. Dealing' = {l}
    BY <1>1, <1>2, <1>4 DEF Dealing, KeptBut
  <2>2. load'[l].list = ListOf(dealt'.class)
    BY <1>1, <1>2, NoneAssumption DEF ListOf
  <2>3. load'[l].next = 1
    BY <1>2 DEF NothingYet
  <2>4. load'[l].list \in Seq(Users)
    BY <1>2 DEF KeptBut, LoadRecords
  <2>5. 1 \in 1..(Len(load'[l].list) + 1)
    BY <2>4, LenProperties
  <2>6. IsInjective(<<>>) /\ ToSet(<<>>) = {} /\ \A i \in 1..0 : FALSE
    BY DEF IsInjective, ToSet
  <2>7. TitlesOfFirst(0, load[l].list)'
    BY <1>1, <2>6 DEF TitlesOfFirst
  <2>8. SectionsOfFirst(0, load[l].list)'
    BY <1>1, <2>6 DEF SectionsOfFirst
  <2> QED BY <1>2, <2>1, <2>2, <2>3, <2>5, <2>7, <2>8 DEF Splits
<1>5. ~mixed' => \A k \in Dealing' : Splits(k)'
  BY <1>4 DEF Splits
<1>6. SoleLoadShowsItsClass'
  BY <1>3 DEF SoleLoadShowsItsClass
<1> QED BY <1>5, <1>6 DEF Sole

\* The load that is dealt with alone goes through its two loops and shows what it
\* split.
LEMMA SoleWork ==
    ASSUME TypeOK, Sole, NEW l \in Loads, Works(l)
    PROVE  Sole'
<1>1. /\ l \in Dealing /\ KeptBut(l)
      /\ Reload(l) => load'[l].phase = "free"
      /\ ~Reload(l) => load'[l].phase \in {"titles", "sections", "reload"}
      /\ UNCHANGED <<crashed, history>>
  BY WorkEffect
<1>2. UNCHANGED <<crashed, mixed, dealt>>
  BY <1>1 DEF history
<1> SUFFICES ASSUME ~crashed, ~mixed PROVE Sole'
  BY <1>2 DEF Sole, SoleLoadShowsItsClass
<1>3. Splits(l) /\ Dealing = {l}
  BY <1>1 DEF Sole, Splits
<1> DEFINE list == load[l].list
           next == load[l].next
<1>4. list \in Seq(Users) /\ next \in Nat \ {0} /\ list = ListOf(dealt.class)
  BY <1>3 DEF TypeOK, LoadRecords, Splits
<1>5. titles \in Seq(Initials) /\ Len(titles) \in Nat /\ Len(list) \in Nat
  BY <1>4, LenProperties DEF TypeOK
<1>6. ASSUME ~Reload(l), Splits(l)' PROVE Sole'
  <2>1. Dealing' = {l}
    BY <1>6 DEF Splits
  <2> QED BY <1>6, <2>1 DEF Sole, SoleLoadShowsItsClass
<1>7. ~Reload(l) => Dealing' = {l}
  BY <1>1, <1>3 DEF Dealing, KeptBut
<1>8. CASE AddTitle(l)
  <2> DEFINE i == Initial[list[next]]
             ld == IF i \notin ToSet(titles) THEN Disturbed(load) ELSE load
  <2>1. /\ load[l].phase = "titles" /\ next <= Len(list)
        /\ titles' = IF i \notin ToSet(titles) THEN Append(titles, i) ELSE titles
        /\ load' = [ld EXCEPT ![l].next = @ + 1]
        /\ sections' = sections
    BY <1>8 DEF AddTitle
  <2>2. /\ ld \in [Loads -> LoadRecords]
        /\ ld[l].phase = load[l].phase /\ ld[l].list = list /\ ld[l].next = next
    BY DisturbedKeeps DEF TypeOK
  <2> HIDE DEF ld
  <2>3. load'[l].phase = "titles" /\ load'[l].list = list /\ load'[l].next = next + 1
    BY <2>1, <2>2 DEF LoadRecords
  <2>4. ~Reload(l)
    BY <2>1 DEF Reload
  <2>5. TitlesOfFirst(next - 1, list) /\ sections = [j \in 1..0 |-> HasInitial(titles[j], list)]
    BY <1>3, <2>1 DEF Splits, SectionsOfFirst
  <2>6. i \in Initials
    <3>1. next \in 1..Len(list)
      BY <1>4, <1>5, <2>1
    <3>2. list[next] \in Users
      BY <1>4, <3>1, LenProperties
    <3> QED BY <3>2 DEF Initials
  <2>7. IsInjective(titles') /\ ToSet(titles') = {Initial[list[j]] : j \in 1..next}
    <3>1. IsInjective(titles') /\ ToSet(titles') = ToSet(titles) \cup {i}
      <4>1. IsInjective(titles)
        BY <2>5 DEF TitlesOfFirst
      <4>2. /\ ToSet(Append(titles, i)) = ToSet(titles) \cup {i}
            /\ i \notin ToSet(titles) => IsInjective(Append(titles, i))
        BY <1>5, <2>6, <4>1, AppendKeepsApart
      <4> QED BY <2>1, <4>1, <4>2
    <3>2. ToSet(titles) = {Initial[list[j]] : j \in 1..(next - 1)}
      BY <2>5 DEF TitlesOfFirst
    <3>3. 1..next = 1..(next - 1) \cup {next}
      BY <1>4
    <3>4. {Initial[list[j]] : j \in 1..next} =
            {Initial[list[j]] : j \in 1..(next - 1)} \cup {Initial[list[next]]}
      BY <3>3
    <3> QED BY <3>1, <3>2, <3>4
  <2>8. sections' = [j \in 1..0 |-> HasInitial(titles'[j], list)]
    BY <2>1, <2>5
  <2>9. next + 1 \in 1..(Len(list) + 1) /\ (next + 1) - 1 = next
    BY <1>4, <1>5, <2>1
  <2>10. Splits(l)'
    <3>1. TitlesOfFirst(next - 1, list)'
      BY <2>3, <2>7, <2>9 DEF TitlesOfFirst
    <3>2. SectionsOfFirst(0, list)'
      BY <2>3, <2>8 DEF SectionsOfFirst
    <3>3. list' = ListOf(dealt.class)'
      BY <1>2, <1>4, <2>3 DEF ListOf
    <3> QED BY <1>7, <2>3, <2>4, <2>9, <3>1, <3>2, <3>3 DEF Splits
  <2> QED BY <1>6, <2>4, <2>10
<1>9. CASE StartSections(l)
  <2>1. /\ load[l].phase = "titles" /\ next > Len(list)
        /\ load' = [load EXCEPT ![l].phase = "sections", ![l].next = 1, ![l].names = titles]
        /\ titles' = titles /\ sections' = sections
    BY <1>9 DEF StartSections, arrays
  <2>2. /\ load'[l].phase = "sections" /\ load'[l].list = list /\ load'[l].next = 1
        /\ load'[l].names = titles
    BY <2>1 DEF TypeOK, LoadRecords
  <2>3. ~Reload(l)
    BY <2>1 DEF Reload
  <2>4. /\ next \in 1..(Len(list) + 1)
        /\ TitlesOfFirst(next - 1, list)
        /\ sections = [j \in 1..0 |-> HasInitial(titles[j], list)]
    BY <1>3, <2>1 DEF Splits, SectionsOfFirst
  <2>5. next - 1 = Len(list)
    BY <1>4, <1>5, <2>1, <2>4
  <2>6. Splits(l)'
    <3>1. TitlesOfFirst(Len(list), list)'
      BY <2>1, <2>2, <2>4, <2>5 DEF TitlesOfFirst
    <3>2. SectionsOfFirst(next - 1, list)'
      <4>1. (next - 1)' = 0
        BY <2>2
      <4> QED BY <2>1, <2>2, <2>4, <4>1 DEF SectionsOfFirst
    <3>3. list' = ListOf(dealt.class)'
      BY <1>2, <1>4, <2>2 DEF ListOf
    <3>4. next' \in 1..(Len(titles') + 1)
      BY <1>5, <2>1, <2>2
    <3> QED BY <1>7, <2>1, <2>2, <2>3, <3>1, <3>2, <3>3, <3>4 DEF Splits
  <2> QED BY <1>6, <2>3, <2>6
<1>10. CASE AddSection(l)
  <2>1. /\ load[l].phase = "sections" /\ next <= Len(load[l].names)
        /\ sections' = Append(sections, HasInitial(load[l].names[next], list))
        /\ load' = [load EXCEPT ![l].next = @ + 1]
        /\ titles' = titles
    BY <1>10 DEF AddSection
  <2>2. /\ load'[l].phase = "sections" /\ load'[l].list = list
        /\ load'[l].next = next + 1 /\ load'[l].names = load[l].names
    BY <2>1 DEF TypeOK, LoadRecords
  <2>3. ~Reload(l)
    BY <2>1 DEF Reload
  <2>4. /\ load[l].names = titles /\ next \in 1..(Len(titles) + 1)
        /\ TitlesOfFirst(Len(list), list)
        /\ sections = [j \in 1..(next - 1) |-> HasInitial(titles[j], list)]
    BY <1>3, <2>1 DEF Splits, SectionsOfFirst
  <2>5. sections' = [j \in 1..next |-> HasInitial(titles[j], list)]
    <3> DEFINE n == next - 1
               f == [j \in 1..(n + 1) |-> HasInitial(titles[j], list)]
               S == {HasInitial(titles[j], list) : j \in 1..(n + 1)}
    <3>1. n \in Nat /\ n + 1 = next /\ n + 1 \in 1..(n + 1)
      BY <1>4
    <3>2. f \in [1..(n + 1) -> S]
      OBVIOUS
    <3>3. sections = [j \in 1..n |-> f[j]]
      BY <2>4, <3>1
    <3>4. HasInitial(load[l].names[next], list) = f[n + 1]
      BY <2>4, <3>1
    <3>5. sections' = Append([j \in 1..n |-> f[j]], f[n + 1])
      BY <2>1, <3>3, <3>4
    <3> HIDE DEF f, S, n
    <3>6. sections' = f
      BY <3>1, <3>2, <3>5, AppendNext
    <3> QED BY <3>1, <3>6 DEF f
  <2>6. Splits(l)'
    <3>1. TitlesOfFirst(Len(list), list)'
      BY <2>1, <2>2, <2>4 DEF TitlesOfFirst
    <3>2. (next - 1)' = next
      BY <1>4, <2>2
    <3>3. SectionsOfFirst(next - 1, list)'
      BY <2>1, <2>2, <2>5, <3>2 DEF SectionsOfFirst
    <3>4. list' = ListOf(dealt.class)'
      BY <1>2, <1>4, <2>2 DEF ListOf
    <3>5. next' \in 1..(Len(titles') + 1)
      BY <1>4, <1>5, <2>1, <2>2, <2>4
    <3> QED BY <1>7, <2>1, <2>2, <2>3, <2>4, <3>1, <3>3, <3>4, <3>5 DEF Splits
  <2> QED BY <1>6, <2>3, <2>6
<1>11. CASE PostReload(l)
  <2>1. /\ load[l].phase = "sections" /\ next > Len(load[l].names)
        /\ load' = [load EXCEPT ![l].phase = "reload"]
        /\ titles' = titles /\ sections' = sections
    BY <1>11 DEF PostReload, arrays
  <2>2. load'[l].phase = "reload" /\ load'[l].list = list
    BY <2>1 DEF TypeOK, LoadRecords
  <2>3. ~Reload(l)
    BY <2>1 DEF Reload
  <2>4. /\ load[l].names = titles /\ next \in 1..(Len(titles) + 1)
        /\ TitlesOfFirst(Len(list), list)
        /\ sections = [j \in 1..(next - 1) |-> HasInitial(titles[j], list)]
    BY <1>3, <2>1 DEF Splits, SectionsOfFirst
  <2>5. next - 1 = Len(titles)
    BY <1>4, <1>5, <2>1, <2>4
  <2>6. Splits(l)'
    <3>1. TitlesOfFirst(Len(list), list)'
      BY <2>1, <2>2, <2>4 DEF TitlesOfFirst
    <3>2. SectionsOfFirst(Len(titles), list)'
      BY <2>1, <2>2, <2>4, <2>5 DEF SectionsOfFirst
    <3>3. list' = ListOf(dealt.class)'
      BY <1>2, <1>4, <2>2 DEF ListOf
    <3> QED BY <1>7, <2>2, <2>3, <3>1, <3>2, <3>3 DEF Splits
  <2> QED BY <1>6, <2>3, <2>6
<1>12. CASE Reload(l) /\ ~(Len(titles) > Len(sections))
  <2>1. /\ load[l].phase = "reload"
        /\ shown' = SubSeq(sections, 1, Len(titles))
        /\ titles' = titles /\ sections' = sections
    BY <1>12 DEF Reload, arrays
  <2>2. Dealing' = {}
    BY <1>1, <1>3, <1>12 DEF Dealing, KeptBut
  <2>3. /\ IsInjective(titles) /\ ToSet(titles) = {Initial[list[j]] : j \in 1..Len(list)}
        /\ sections = [j \in 1..Len(titles) |-> HasInitial(titles[j], list)]
    BY <1>3, <2>1 DEF Splits, TitlesOfFirst, SectionsOfFirst
  <2>4. ToSet(titles) = {Initial[u] : u \in ToSet(list)}
    <3>1. ToSet(list) = {list[j] : j \in 1..Len(list)}
      BY <1>4, ToSetByIndex
    <3> QED BY <2>3, <3>1
  <2>5. Len(sections) = Len(titles) /\ SubSeq(sections, 1, Len(titles)) = sections
    <3> DEFINE S == {HasInitial(titles[j], list) : j \in 1..Len(titles)}
               n == Len(titles)
    <3>1. sections \in [1..n -> S] /\ n \in Nat
      BY <1>5, <2>3
    <3> HIDE DEF S, n
    <3>2. sections \in Seq(S) /\ Len(sections) = n
      BY <3>1, LenProperties
    <3>3. SubSeq(sections, 1, n) = sections
      <4>1. /\ SubSeq(sections, 1, n) \in Seq(S)
            /\ Len(SubSeq(sections, 1, n)) = IF 1 <= n THEN n - 1 + 1 ELSE 0
            /\ \A j \in 1..(n - 1 + 1) : SubSeq(sections, 1, n)[j] = sections[1 + j - 1]
        <5>1. \A j \in 1..n : sections[j] \in S
          BY <3>1
        <5> QED BY <3>1, <5>1, SubSeqProperties, 1 \in Int, n \in Int
      <4>2. Len(SubSeq(sections, 1, n)) = n
        BY <3>1, <4>1
      <4>3. \A j \in 1..n : SubSeq(sections, 1, n)[j] = sections[j]
        BY <3>1, <4>1
      <4> QED BY <3>2, <4>1, <4>2, <4>3, SeqEqual
    <3> QED BY <3>2, <3>3 DEF n
  <2>6. IsPartition(titles, sections, ListOf(dealt.class))'
    BY <1>2, <1>4, <2>1, <2>3, <2>4, <2>5 DEF IsPartition, ListOf
  <2> QED BY <2>1, <2>2, <2>5, <2>6 DEF Sole, SoleLoadShowsItsClass
<1> QED BY <1>8, <1>9, <1>10, <1>11, <1>12 DEF Works

-----------------------------------------------------------------------------
\* The invariant holds in every reachable state, for any number of loads under way.
LEMMA IInvInit == Init => IInv
<1> SUFFICES ASSUME Init PROVE IInv
  OBVIOUS
<1>1. <<>> \in Seq(Loads) /\ <<>> \in Seq(Initials) /\ IsInjective(<<>>) /\ ToSet(<<>>) = {}
  BY EmptySeq DEF IsInjective, ToSet
<1>2. Idle \in LoadRecords /\ Idle.phase = "free" /\ Idle.class = None /\ Idle.next = 1
  BY FreshShape DEF Idle, Phases
<1>3. load \in [Loads -> LoadRecords] /\ \A l \in Loads : load[l] = Idle
  BY <1>2 DEF Init
<1>4. TypeOK
  BY <1>1, <1>2, <1>3 DEF Init, TypeOK
<1>5. NothingYet /\ MenuNamesTheLatest
  BY <1>2, <1>3 DEF Init, NothingYet, MenuNamesTheLatest
<1>6. Dealing = {}
  BY <1>2, <1>3 DEF Dealing
<1>7. SoleLoadShowsItsClass
  <2>1. ListOf(dealt.class) = <<>> /\ titles = <<>> /\ sections = <<>> /\ shown = <<>>
    BY DEF Init, ListOf
  <2>2. IsPartition(<<>>, <<>>, <<>>)
    BY <1>1 DEF IsPartition
  <2> QED BY <2>1, <2>2 DEF SoleLoadShowsItsClass
<1> QED BY <1>4, <1>5, <1>6, <1>7 DEF IInv

\* Every step keeps the invariant.
LEMMA IInvStep == IInv /\ [Next]_rosterVars => IInv'
<1> SUFFICES ASSUME IInv, [Next]_rosterVars PROVE IInv'
  OBVIOUS
<1>1. TypeOK /\ NothingYet /\ MenuNamesTheLatest /\ Sole
  BY DEF IInv, Sole
<1>2. TypeOK' /\ NothingYet' /\ MenuNamesTheLatest'
  BY <1>1, TypeStep, NothingStep, LatestStep
<1>3. Sole'
  <2>1. CASE FirstAppear \/ MenuClosed
    <3>1. UpdateMenuAndLoad /\ UNCHANGED <<arrays, shown, crashed, mixed, dealt>>
      BY <2>1 DEF FirstAppear, MenuClosed, history
    <3>2. CASE chosen = None
      <4>1. load' = load
        BY <3>1, <3>2, NotSent
      <4> QED BY <1>1, <3>1, <4>1, SoleFrame DEF Dealing
    <3>3. CASE chosen # None
      <4>1. PICK l \in Loads : load[l].phase = "free" /\ KeptBut(l) /\ load'[l].phase = "querying"
        BY <1>1, <3>1, <3>3, SendEffect
      <4>2. Dealing' = Dealing /\ l \notin Dealing
        BY <4>1 DEF Dealing, KeptBut
      <4>3. \A k \in Dealing :
               /\ load'[k].phase = load[k].phase /\ load'[k].list = load[k].list
               /\ load'[k].next = load[k].next /\ load'[k].names = load[k].names
        BY <4>1, <4>2 DEF Dealing, KeptBut
      <4> QED BY <1>1, <3>1, <4>2, <4>3, SoleFrame
    <3> QED BY <3>2, <3>3
  <2>2. ASSUME NEW c \in Classes, PickClass(c) PROVE Sole'
    <3>1. load' = load /\ UNCHANGED <<arrays, shown, crashed, mixed, dealt>>
      BY <2>2 DEF PickClass, history
    <3> QED BY <1>1, <3>1, SoleFrame DEF Dealing
  <2>3. ASSUME NEW l \in Loads, Deal(l) PROVE Sole'
    BY <1>1, <2>3, SoleDeal
  <2>4. ASSUME NEW l \in Loads, Works(l) PROVE Sole'
    BY <1>1, <2>4, SoleWork
  <2>5. CASE Crash
    BY <2>5 DEF Crash, Sole, SoleLoadShowsItsClass
  <2>6. CASE UNCHANGED rosterVars
    <3>1. load' = load /\ UNCHANGED <<arrays, shown, crashed, mixed, dealt>>
      BY <2>6 DEF rosterVars, history
    <3> QED BY <1>1, <3>1, SoleFrame DEF Dealing
  <2> QED BY <2>1, <2>2, <2>3, <2>4, <2>5, <2>6, StepKinds
<1> QED BY <1>2, <1>3 DEF IInv, Sole

\* The invariant is inductive under the steps of the page, its loads and blocks.
THEOREM RosterInductive == Spec => []IInv
BY IInvInit, IInvStep, PTL DEF Spec

\* Every variable keeps its type, however loads overlap.
THEOREM RosterTypeCorrect == Spec => []TypeOK
<1>1. IInv => TypeOK
  BY DEF IInv
<1> QED BY <1>1, RosterInductive, PTL

\* The two loops of dealAddressBookDataWithAVObjectArr split any list of users by
\* their initials, and the table shows what they split, when a load is dealt with
\* alone.
THEOREM SoleLoadIsRight == Spec => []SoleLoadShowsItsClass
<1>1. IInv => SoleLoadShowsItsClass
  BY DEF IInv
<1> QED BY <1>1, RosterInductive, PTL

\* Whatever order answers come in, the class on the menu button is the one listed
\* when all are in, unless the last was overtaken, failed or was mixed with another.
THEOREM MenuIsRight == Spec => []MenuNamesTheList
<1>1. IInv => MenuNamesTheList
  BY DEF IInv, MenuNamesTheLatest, MenuNamesTheList
<1> QED BY <1>1, RosterInductive, PTL

-----------------------------------------------------------------------------
\* The page with its selection.  A toast and its timer touch the HUD alone.
HudOnly ==
    /\ UNCHANGED <<page, order, load, arrays, shown, crashed, history>>
    /\ hud' \in BOOLEAN

\* Each step of the page is one of the table and its loads, or touches the HUD.
LEMMA PageSteps ==
    ASSUME PageTypeOK, [PageNext]_vars
    PROVE  [Next]_rosterVars \/ HudOnly
<1>1. CASE Step
  BY <1>1 DEF Next
<1>2. ASSUME NEW l \in Loads, PageReload(l) PROVE Next
  BY <1>2 DEF PageReload, Next
<1>3. ASSUME NEW row \in Rows(shown), TapRow(row) PROVE UNCHANGED rosterVars
  BY <1>3 DEF TapRow
<1>4. ToggleEdit \/ ChooseAllStudent => UNCHANGED rosterVars
  BY DEF ToggleEdit, ChooseAllStudent
<1>5. CASE ChooseSignStudent
  <2>1. CASE \A row \in selected : Resolves(row)
    BY <1>5, <2>1 DEF ChooseSignStudent
  <2>2. CASE ~\A row \in selected : Resolves(row)
    <3>1. PICK row \in selected : ~Resolves(row)
      BY <2>2
    <3>2. Crash /\ ~crashed /\ row \in Rows(shown)
      BY <1>5, <2>2 DEF ChooseSignStudent, Touchable, PageTypeOK
    <3>3. LookUpRow(row)
      BY <3>1, <3>2 DEF LookUpRow
    <3> QED BY <3>2, <3>3 DEF Next, Step
  <2> QED BY <2>1, <2>2
<1>6. AskForSelection \/ ReportFailure => HudOnly
  BY DEF AskForSelection, ReportFailure, ShowToast, HudOnly
<1>7. ToastTimer => HudOnly
  BY DEF ToastTimer, HudOnly
<1>8. UNCHANGED vars => UNCHANGED rosterVars
  BY DEF vars
<1> QED BY <1>1, <1>2, <1>3, <1>4, <1>5, <1>6, <1>7, <1>8 DEF PageNext

\* The HUD is nothing to the loads and the table.
LEMMA HudKeeps ==
    ASSUME IInv, HudOnly
    PROVE  IInv'
<1>1. /\ UNCHANGED <<chosen, title, appeared, closing, order, load, titles, sections, shown,
                     crashed, mixed, overtaken, dealt>>
      /\ hud' \in BOOLEAN
  BY DEF HudOnly, page, arrays, history
<1>2. TypeOK'
  BY <1>1 DEF IInv, TypeOK
<1>3. NothingYet' /\ MenuNamesTheLatest'
  BY <1>1 DEF IInv, NothingYet, MenuNamesTheLatest
<1>4. Sole'
  BY <1>1, SoleFrame DEF IInv, Sole, Dealing, arrays
<1> QED BY <1>2, <1>3, <1>4 DEF IInv, Sole

\* The selection stays within the table, and the page's own variables keep their
\* types.
LEMMA PageTypeStep ==
    ASSUME IInv, IInv', PageTypeOK, [PageNext]_vars
    PROVE  PageTypeOK'
<1> USE DEF PageTypeOK
<1>0. ASSUME BaredAfter(TRUE) \/ BaredAfter(FALSE) PROVE bared' \in BOOLEAN
  BY <1>0 DEF BaredAfter
<1>1. CASE Step /\ BaredAfter(FALSE) /\ UNCHANGED <<controls, selected>>
  <2>1. shown' = shown
    BY <1>1 DEF Step, FirstAppear, MenuClosed, PickClass, Deal, AddTitle, StartSections,
                AddSection, EnumerationRaises, PostReload, RaceCrashes, LookUpRow, Crash
  <2> QED BY <1>0, <1>1, <2>1 DEF controls
<1>2. ASSUME NEW l \in Loads, PageReload(l) PROVE PageTypeOK'
  BY <1>0, <1>2 DEF PageReload, controls
<1>3. ASSUME NEW row \in Rows(shown), TapRow(row) PROVE PageTypeOK'
  BY <1>3 DEF TapRow, rosterVars, controls
<1>4. CASE ToggleEdit
  BY <1>4 DEF ToggleEdit, rosterVars
<1>5. CASE ChooseAllStudent
  BY <1>5 DEF ChooseAllStudent, rosterVars
<1>6. CASE ChooseSignStudent
  <2>1. shown' = shown
    BY <1>6 DEF ChooseSignStudent, rosterVars, Crash
  <2> QED BY <1>0, <1>6, <2>1 DEF ChooseSignStudent
<1>7. CASE AskForSelection \/ ReportFailure
  <2>1. toasts' \in 0..MaxToasts
    BY <1>7, MaxToastsAssumption DEF AskForSelection, ReportFailure, ShowToast
  <2> QED BY <1>7, <2>1 DEF AskForSelection, ReportFailure, ShowToast
<1>8. CASE ToastTimer
  <2>1. toasts' \in 0..MaxToasts
    BY <1>8, MaxToastsAssumption DEF ToastTimer
  <2> QED BY <1>0, <1>8, <2>1 DEF ToastTimer
<1>9. CASE UNCHANGED vars
  BY <1>9 DEF vars, rosterVars, controls
<1> QED BY <1>1, <1>2, <1>3, <1>4, <1>5, <1>6, <1>7, <1>8, <1>9 DEF PageNext

\* sections stays a sequence.
LEMMA SectionsStep ==
    ASSUME sections \in Seq(ToSet(sections)), [Next]_rosterVars \/ HudOnly
    PROVE  sections' \in Seq(ToSet(sections'))
<1>0. <<>> \in Seq(ToSet(<<>>))
  BY EmptySeq
<1>1. UNCHANGED arrays => sections' = sections
  BY DEF arrays
<1>2. CASE sections' = sections
  BY <1>2
<1>3. CASE sections' = <<>>
  BY <1>0, <1>3
<1>4. ASSUME NEW e, sections' = Append(sections, e)
      PROVE  sections' \in Seq(ToSet(sections'))
  BY <1>4, SeqOfItsValues
<1>5. ASSUME NEW l \in Loads, AddSection(l) PROVE \E e : sections' = Append(sections, e)
  BY <1>5 DEF AddSection
<1>6. ASSUME NEW l \in Loads, Works(l), ~AddSection(l) PROVE sections' = sections
  BY <1>1, <1>6 DEF Works, AddTitle, StartSections, PostReload, Reload
<1>7. ASSUME NEW l \in Loads, Deal(l) PROVE sections' = <<>>
  BY <1>7 DEF Deal
<1>8. Crash => sections' = <<>>
  BY DEF Crash
<1>9. FirstAppear \/ MenuClosed \/ (\E c \in Classes : PickClass(c)) => sections' = sections
  BY <1>1 DEF FirstAppear, MenuClosed, PickClass
<1>10. UNCHANGED rosterVars \/ HudOnly => sections' = sections
  BY <1>1 DEF rosterVars, HudOnly
<1>11. CASE [Next]_rosterVars
  BY <1>2, <1>3, <1>4, <1>5, <1>6, <1>7, <1>8, <1>9, <1>10, <1>11, StepKinds
<1> QED BY <1>2, <1>10, <1>11

\* Nothing changes what the table lays out or the arrays while no load is dealt
\* with, and the reload that ends the last load lays out the arrays as they are.
LEMMA TableStep ==
    ASSUME TypeOK, sections \in Seq(ToSet(sections)), TableFitsArrays,
           [Next]_rosterVars \/ HudOnly
    PROVE  TableFitsArrays'
<1>1. ASSUME UNCHANGED <<arrays, shown, crashed>>, Dealing' = Dealing PROVE TableFitsArrays'
  BY <1>1 DEF TableFitsArrays, arrays
<1>2. CASE HudOnly
  BY <1>1, <1>2 DEF HudOnly, Dealing
<1>3. CASE FirstAppear \/ MenuClosed
  <2>1. UpdateMenuAndLoad /\ UNCHANGED <<arrays, shown, crashed>>
    BY <1>3 DEF FirstAppear, MenuClosed
  <2>2. CASE chosen = None
    BY <1>1, <2>1, <2>2, NotSent DEF Dealing
  <2>3. CASE chosen # None
    <3>1. PICK l \in Loads : load[l].phase = "free" /\ KeptBut(l) /\ load'[l].phase = "querying"
      BY <2>1, <2>3, SendEffect
    <3> QED BY <1>1, <2>1, <3>1 DEF Dealing, KeptBut
  <2> QED BY <2>2, <2>3
<1>4. ASSUME NEW c \in Classes, PickClass(c) PROVE TableFitsArrays'
  BY <1>1, <1>4 DEF PickClass, Dealing
<1>5. ASSUME NEW l \in Loads, Deal(l) PROVE TableFitsArrays'
  <2>1. l \in Dealing'
    BY <1>5, DealEffect DEF Dealing
  <2> QED BY <2>1 DEF TableFitsArrays
<1>6. ASSUME NEW l \in Loads, Works(l), ~Reload(l) PROVE TableFitsArrays'
  <2>1. l \in Dealing'
    BY <1>6, WorkEffect DEF Dealing
  <2> QED BY <2>1 DEF TableFitsArrays
<1>7. ASSUME NEW l \in Loads, Works(l), Reload(l) PROVE TableFitsArrays'
  <2>1. /\ ~(Len(titles) > Len(sections)) /\ titles' = titles /\ sections' = sections
        /\ shown' = SubSeq(sections, 1, Len(titles))
    BY <1>7 DEF Works, Reload, AddTitle, StartSections, AddSection, PostReload, arrays
  <2>2. Len(titles) \in Nat /\ Len(sections) \in Nat
    BY LenProperties DEF TypeOK
  <2> QED BY <2>1, <2>2 DEF TableFitsArrays
<1>8. CASE Crash
  BY <1>8 DEF Crash, TableFitsArrays
<1>9. CASE UNCHANGED rosterVars
  BY <1>1, <1>9 DEF rosterVars, Dealing
<1> QED BY <1>2, <1>3, <1>4, <1>5, <1>6, <1>7, <1>8, <1>9, StepKinds

\* The HUD goes up with a query, stays up through the callback and the two loops,
\* and whoever hides it under a load bares it.
LEMMA CoverStep ==
    ASSUME TypeOK, HudCoversLoads, [PageNext]_vars
    PROVE  HudCoversLoads'
<1> SUFFICES ASSUME ~crashed', ~bared', UnderWay' # {} PROVE hud'
  BY DEF HudCoversLoads
<1>1. ASSUME BaredAfter(FALSE) PROVE ~bared
  BY <1>1 DEF BaredAfter
<1>2. ~BaredAfter(TRUE)
  BY DEF BaredAfter
<1>3. ASSUME ~bared, crashed' = crashed, UnderWay # {}, hud' = hud PROVE hud'
  BY <1>3 DEF HudCoversLoads
<1>4. CASE Step /\ BaredAfter(FALSE)
  <2>1. ~bared
    BY <1>1, <1>4
  <2>2. CASE FirstAppear \/ MenuClosed
    <3>1. UpdateMenuAndLoad /\ crashed' = crashed
      BY <2>2 DEF FirstAppear, MenuClosed
    <3>2. CASE chosen = None
      BY <1>3, <2>1, <3>1, <3>2, NotSent DEF UnderWay
    <3>3. CASE chosen # None
      BY <3>1, <3>3 DEF UpdateMenuAndLoad
    <3> QED BY <3>2, <3>3
  <2>3. ASSUME NEW c \in Classes, PickClass(c) PROVE hud'
    BY <1>3, <2>1, <2>3 DEF PickClass, UnderWay
  <2>4. ASSUME NEW l \in Loads,
               Deal(l) \/ AddTitle(l) \/ StartSections(l) \/ AddSection(l) \/ PostReload(l)
        PROVE  hud'
    <3>1. l \in UnderWay
      BY <2>4 DEF UnderWay, Deal, AddTitle, StartSections, AddSection, PostReload
    <3>2. hud' = hud /\ crashed' = crashed
      BY <2>4 DEF Deal, AddTitle, StartSections, AddSection, PostReload
    <3> QED BY <1>3, <2>1, <3>1, <3>2
  <2>5. ~Crash
    BY DEF Crash
  <2> QED
    BY <1>4, <2>2, <2>3, <2>4, <2>5 DEF Step, EnumerationRaises, RaceCrashes, LookUpRow
<1>5. ASSUME NEW l \in Loads PROVE ~PageReload(l)
  BY <1>2 DEF PageReload
<1>6. CASE \/ \E row \in Rows(shown) : TapRow(row)
           \/ ToggleEdit \/ ChooseAllStudent \/ UNCHANGED vars
  <2>1. UNCHANGED <<rosterVars, bared>>
    BY <1>6 DEF TapRow, ToggleEdit, ChooseAllStudent, vars
  <2> QED BY <1>3, <2>1 DEF rosterVars, UnderWay
<1>7. CASE ChooseSignStudent
  <2>1. ~bared /\ UNCHANGED rosterVars
    BY <1>1, <1>7 DEF ChooseSignStudent, Crash
  <2> QED BY <1>3, <2>1 DEF rosterVars, UnderWay
<1>8. CASE AskForSelection \/ ReportFailure
  BY <1>8 DEF AskForSelection, ReportFailure, ShowToast
<1>9. ~ToastTimer
  BY <1>2 DEF ToastTimer
<1> QED BY <1>4, <1>5, <1>6, <1>7, <1>8, <1>9 DEF PageNext

\* The invariant of the page holds in every reachable state.
LEMMA PageInvInit == PageInit => PageIInv
<1> SUFFICES ASSUME PageInit PROVE PageIInv
  OBVIOUS
<1>1. IInv /\ titles = <<>> /\ sections = <<>> /\ shown = <<>>
  BY IInvInit DEF PageInit, Init
<1>2. PageTypeOK
  <2>1. {editing, allButton, signing, bared} = {FALSE} /\ selected = {}
    BY DEF PageInit
  <2>2. toasts \in 0..MaxToasts
    BY MaxToastsAssumption DEF PageInit
  <2> QED BY <2>1, <2>2 DEF PageTypeOK
<1>3. sections \in Seq(ToSet(sections))
  BY <1>1, EmptySeq
<1>4. HudCoversLoads
  <2>1. \A l \in Loads : load[l].phase = "free"
    BY DEF PageInit, Init, Idle, Fresh
  <2> QED BY <2>1 DEF HudCoversLoads, UnderWay
<1>5. TableFitsArrays
  <2>1. Len(<<>>) = 0 /\ SubSeq(<<>>, 1, 0) = <<>>
    OBVIOUS
  <2> QED BY <1>1, <2>1 DEF TableFitsArrays
<1> QED BY <1>1, <1>2, <1>3, <1>4, <1>5 DEF PageIInv

\* Every step of the page keeps it.
LEMMA PageInvStep == PageIInv /\ [PageNext]_vars => PageIInv'
<1> SUFFICES ASSUME PageIInv, [PageNext]_vars PROVE PageIInv'
  OBVIOUS
<1> USE DEF PageIInv
<1>1. [Next]_rosterVars \/ HudOnly
  BY PageSteps
<1>2. IInv'
  BY <1>1, IInvStep, HudKeeps
<1>3. TypeOK
  BY DEF IInv
<1> QED BY <1>1, <1>2, <1>3, PageTypeStep, SectionsStep, CoverStep, TableStep

\* The invariant of the page is inductive, and with it that of the loads and the
\* table: whatever is edited, selected and signed meanwhile, and whatever toasts
\* come and go, the table shows what was loaded.
THEOREM PageInductive == PageSpec => []PageIInv
BY PageInvInit, PageInvStep, PTL DEF PageSpec

\* The selection never holds a row that the table does not.
THEOREM PageTypeCorrect == PageSpec => []PageTypeOK
<1>1. PageIInv => PageTypeOK
  BY DEF PageIInv
<1> QED BY <1>1, PageInductive, PTL

\* A press of the sign button signs in whom the page shows: behind every selected
\* row is the user laid out there, whatever loads overlap, unless a HUD was hidden
\* under a load.
LEMMA SignsWhomItShowsFollows == PageIInv => SignsWhomItShows
<1> SUFFICES ASSUME PageIInv, Touchable, ~bared, NEW row \in selected
             PROVE  Resolves(row) /\ sections[row[1]][row[2]] = shown[row[1]][row[2]]
  BY DEF SignsWhomItShows
<1>1. UnderWay = {}
  BY DEF PageIInv, HudCoversLoads, Touchable
<1>2. Dealing = {}
  BY <1>1 DEF Dealing, UnderWay
<1> DEFINE n == Len(titles)
<1>3. n \in Nat /\ Len(sections) \in Nat /\ n <= Len(sections)
  BY <1>2, LenProperties DEF PageIInv, IInv, TypeOK, TableFitsArrays, Touchable
<1>4. shown = SubSeq(sections, 1, n)
  BY <1>2 DEF PageIInv, TableFitsArrays, Touchable
<1>5. Len(shown) = n /\ \A s \in 1..n : shown[s] = sections[s]
  <2> DEFINE S == ToSet(sections)
  <2>1. sections \in Seq(S) /\ 1 \in Int /\ n \in Int
    BY <1>3 DEF PageIInv
  <2>2. \A s \in 1..n : sections[s] \in S
    BY <1>3, <2>1, LenProperties DEF ToSet
  <2> HIDE DEF S, n
  <2>3. /\ Len(SubSeq(sections, 1, n)) = IF 1 <= n THEN n - 1 + 1 ELSE 0
        /\ \A j \in 1..(n - 1 + 1) : SubSeq(sections, 1, n)[j] = sections[1 + j - 1]
    BY <2>1, <2>2, SubSeqProperties
  <2> QED BY <1>3, <1>4, <2>3
<1>6. PICK s \in 1..Len(shown) : \E r \in 1..Len(shown[s]) : row = <<s, r>>
  BY DEF PageIInv, PageTypeOK, Rows
<1>7. PICK r \in 1..Len(shown[s]) : row = <<s, r>>
  BY <1>6
<1> HIDE DEF n
<1>8. s \in 1..Len(sections) /\ shown[s] = sections[s]
  BY <1>3, <1>5, <1>6
<1>9. row \in Rows(sections)
  BY <1>7, <1>8 DEF Rows
<1> QED BY <1>7, <1>8, <1>9 DEF Resolves

\* The same in every reachable state of the page.
THEOREM SignsWhomItShowsHolds == PageSpec => []SignsWhomItShows
BY SignsWhomItShowsFollows, PageInductive, PTL

\* What is shown of Roster alone holds on the whole page: a load dealt with alone
\* shows its class, and the menu button names the class that is listed.
THEOREM PageShowsItsClass == PageSpec => []SoleLoadShowsItsClass /\ []MenuNamesTheList
<1>1. PageIInv => SoleLoadShowsItsClass /\ MenuNamesTheList
  BY DEF PageIInv, IInv, MenuNamesTheLatest, MenuNamesTheList
<1> QED BY <1>1, PageInductive, PTL

\* chooseSignStudent indexes the arrays by the rows of the table unchecked: the sign
\* button ends the app only after a HUD was hidden under a load.
THEOREM SigningRaisesOnlyBared == PageSpec => [][ChooseSignStudent /\ crashed' => bared]_vars
<1>1. PageIInv /\ [PageNext]_vars => [ChooseSignStudent /\ crashed' => bared]_vars
  <2> SUFFICES ASSUME PageIInv, ChooseSignStudent, crashed', ~bared PROVE FALSE
    OBVIOUS
  <2>1. Touchable /\ ~crashed /\ ~UNCHANGED rosterVars
    BY DEF ChooseSignStudent, Touchable, rosterVars
  <2>2. \A row \in selected : Resolves(row)
    BY <2>1, SignsWhomItShowsFollows DEF SignsWhomItShows
  <2> QED BY <2>1, <2>2 DEF ChooseSignStudent
<1> QED BY <1>1, PageInductive, PTL DEF PageSpec
=============================================================================
