------------------------------- MODULE Roster -------------------------------
(***************************************************************************)
(* The address book page: choosing a class, loading its users, splitting   *)
(* them into sections by initial, and the table that shows the sections.   *)
(*                                                                         *)
(* A load is sent by the main thread, answered in any order, and dealt     *)
(* with in two places: its callback empties the two arrays on the main     *)
(* thread, a block on a concurrent background queue fills them again, and  *)
(* a block on the main queue reloads the table.  The arrays are shared by  *)
(* every load under way and by the table, and nothing protects them.       *)
(***************************************************************************)
EXTENDS Naturals, Sequences, SequencesExt

CONSTANTS
    Classes,    \* the classes of the popover menu
    None,       \* no class chosen
    Users,      \* users of the cloud table
    UsersOf,    \* [Classes -> Seq(Users)]: what the query returns, by username
    Initial,    \* [Users -> initials]: transformToBigPinYinFirst
    Loads       \* names for the loads under way (bounds how many overlap)

ASSUME NoneAssumption == None \notin Classes
ASSUME UsersOfAssumption == UsersOf \in [Classes -> Seq(Users)]

VARIABLES
    chosen,     \* NSUserDefaults chooseClassroom
    title,      \* what the menu button says
    appeared,   \* _firstLoading
    closing,    \* the class menu is on its way out
    order,      \* loads whose query is out, in the order they were sent
    load,       \* each load: [phase, class, list, next, names, mutated]
    titles,     \* _allTitleArr
    sections,   \* _allAddressBookDataArr
    shown,      \* the rows the table laid out at its last reloadData
    hud,        \* some MBProgressHUD covers the page
    crashed,    \* an exception has ended the app
    mixed,      \* history: two builds worked on the arrays since they were emptied
    overtaken,  \* history: loads out that a later one has overtaken
    dealt       \* history: what was dealt with last: [class, late]

page == <<chosen, title, appeared, closing>>
arrays == <<titles, sections>>
history == <<mixed, overtaken, dealt>>
rosterVars == <<page, order, load, arrays, shown, hud, crashed, history>>

\* free; querying; titles and sections: the two loops of the background block;
\* reload: the main-queue block is due.
Phases == {"free", "querying", "titles", "sections", "reload"}
Fresh(p, c) == [phase |-> p, class |-> c, list |-> <<>>, next |-> 1,
                names |-> <<>>, mutated |-> FALSE]

Idle == Fresh("free", None)

Building == {l \in Loads : load[l].phase \in {"titles", "sections"}}
Dealing == {l \in Loads : load[l].phase \in {"titles", "sections", "reload"}}

HasInitial(i, list) == SelectSeq(list, LAMBDA u : Initial[u] = i)

\* Rows of a sequence of sections, and those that resolve in the arrays.
Rows(secs) == UNION {{<<s, r>> : r \in 1 .. Len(secs[s])} : s \in 1 .. Len(secs)}
Resolves(row) == row \in Rows(sections)

-----------------------------------------------------------------------------
Init ==
    /\ chosen \in Classes \cup {None}
    /\ title = None
    /\ appeared = FALSE
    /\ closing = FALSE
    /\ order = <<>>
    /\ load = [l \in Loads |-> Idle]
    /\ titles = <<>> /\ sections = <<>> /\ shown = <<>>
    /\ hud = FALSE
    /\ crashed = FALSE
    /\ mixed = FALSE /\ overtaken = {}
    /\ dealt = [class |-> None, late |-> FALSE]

-----------------------------------------------------------------------------
\* Slip: the button is titled once and for all.
UpdateMenuOnceAndLoad ==
    IF chosen = None
    THEN /\ title' = None
         /\ UNCHANGED <<order, load, hud>>
    ELSE /\ title' = IF title = None THEN chosen ELSE title
         /\ hud' = TRUE
         /\ \E l \in Loads :
             /\ load[l].phase = "free"
             /\ load' = [load EXCEPT ![l] = Fresh("querying", chosen)]
             /\ order' = Append(order, l)

\* Slip: a class that was never chosen is loaded too.
UpdateMenuAndLoadAnything ==
    /\ title' = chosen
    /\ hud' = TRUE
    /\ \E l \in Loads :
        /\ load[l].phase = "free"
        /\ load' = [load EXCEPT ![l] = Fresh("querying", chosen)]
        /\ order' = Append(order, l)

\* networkGetUserOfupdateMenuButtonChooseClassroom and the query it sends: the
\* class is read from the defaults now, the HUD goes up, the query goes out.
UpdateMenuAndLoad ==
    IF chosen = None
    THEN /\ title' = None
         /\ UNCHANGED <<order, load, hud>>
    ELSE /\ title' = chosen
         /\ hud' = TRUE
         /\ \E l \in Loads :
             /\ load[l].phase = "free"
             /\ load' = [load EXCEPT ![l] = Fresh("querying", chosen)]
             /\ order' = Append(order, l)

\* An exception ends the app, and what it held in memory is gone.
Crash ==
    /\ crashed' = TRUE
    /\ order' = <<>>
    /\ load' = [l \in Loads |-> Idle]
    /\ titles' = <<>> /\ sections' = <<>>
    /\ hud' = FALSE
    /\ mixed' = FALSE /\ overtaken' = {}
    /\ dealt' = [class |-> None, late |-> FALSE]
    /\ UNCHANGED <<page, shown>>

\* The page appears for the first time.
FirstAppear ==
    /\ ~crashed /\ ~appeared
    /\ appeared' = TRUE
    /\ UpdateMenuAndLoad
    /\ UNCHANGED <<chosen, closing, arrays, shown, crashed, history>>

\* A class is picked in the popover of the menu button, which is in the
\* navigation bar where no HUD covers it: the class is saved in the defaults
\* and the popover starts to close.
PickClass(c) ==
    /\ ~crashed /\ appeared /\ ~closing
    /\ chosen' = c
    /\ closing' = TRUE
    /\ UNCHANGED <<title, appeared, order, load, arrays, shown, hud, crashed,
                   history>>

\* The popover is gone: its completion updates the title and loads.
MenuClosed ==
    /\ ~crashed /\ closing
    /\ closing' = FALSE
    /\ UpdateMenuAndLoad
    /\ UNCHANGED <<chosen, appeared, arrays, shown, crashed, history>>

-----------------------------------------------------------------------------
\* What emptying or extending _allTitleArr does to a block that enumerates it.
Disturbed(ld) == [l \in Loads |->
    IF ld[l].phase = "sections" THEN [ld[l] EXCEPT !.mutated = TRUE] ELSE ld[l]]

\* The loads still out that were sent before load l.
Overtaken(l) ==
    {k \in Loads : \E i, j \in DOMAIN order : i < j /\ order[i] = k /\ order[j] = l}

\* order without load l.
Unqueued(l) == RemoveAt(order, CHOOSE i \in DOMAIN order : order[i] = l)

\* Slip: the titles of the last load are kept.
DealKeepingTitles(l) ==
    /\ ~crashed /\ load[l].phase = "querying"
    /\ \E list \in {UsersOf[load[l].class], <<>>} :
        load' = [Disturbed(load) EXCEPT ![l].phase = "titles", ![l].list = list]
    /\ sections' = <<>>
    /\ order' = Unqueued(l)
    /\ mixed' = (Dealing # {})
    /\ dealt' = [class |-> IF load'[l].list = <<>> THEN None ELSE load[l].class,
                 late |-> l \in overtaken]
    /\ overtaken' = (overtaken \cup Overtaken(l)) \ {l}
    /\ UNCHANGED <<page, titles, shown, hud, crashed>>

\* The query's callback.  An error leaves list nil, which deals like a class
\* without users.
Deal(l) ==
    /\ ~crashed /\ load[l].phase = "querying"
    /\ \E list \in {UsersOf[load[l].class], <<>>} :
        load' = [Disturbed(load) EXCEPT ![l].phase = "titles", ![l].list = list]
    /\ titles' = <<>>
    /\ sections' = <<>>
    /\ order' = Unqueued(l)
    /\ mixed' = (Dealing # {})
    /\ dealt' = [class |-> IF load'[l].list = <<>> THEN None ELSE load[l].class,
                 late |-> l \in overtaken]
    /\ overtaken' = (overtaken \cup Overtaken(l)) \ {l}
    /\ UNCHANGED <<page, shown, hud, crashed>>

\* Loop 1, one user: an initial not seen yet goes to the end of the titles.
AddTitle(l) ==
    /\ ~crashed /\ load[l].phase = "titles" /\ load[l].next <= Len(load[l].list)
    /\ LET i == Initial[load[l].list[load[l].next]]
           new == i \notin ToSet(titles)
       IN  /\ titles' = IF new THEN Append(titles, i) ELSE titles
           /\ load' = [(IF new THEN Disturbed(load) ELSE load) EXCEPT ![l].next = @ + 1]
    /\ UNCHANGED <<page, order, sections, shown, hud, crashed, history>>

\* Loop 1 is over; loop 2 enumerates the titles as they are now.
StartSections(l) ==
    /\ ~crashed /\ load[l].phase = "titles" /\ load[l].next > Len(load[l].list)
    /\ load' = [load EXCEPT ![l].phase = "sections", ![l].next = 1, ![l].names = titles]
    /\ UNCHANGED <<page, order, arrays, shown, hud, crashed, history>>

\* Slip: every section gets all users.
AddSectionOfAll(l) ==
    /\ ~crashed /\ load[l].phase = "sections" /\ load[l].next <= Len(load[l].names)
    /\ ~load[l].mutated
    /\ sections' = Append(sections, load[l].list)
    /\ load' = [load EXCEPT ![l].next = @ + 1]
    /\ UNCHANGED <<page, order, titles, shown, hud, crashed, history>>

\* Loop 2, one title: the users of this load's answer with that initial.
AddSection(l) ==
    /\ ~crashed /\ load[l].phase = "sections" /\ load[l].next <= Len(load[l].names)
    /\ ~load[l].mutated
    /\ sections' = Append(sections, HasInitial(load[l].names[load[l].next], load[l].list))
    /\ load' = [load EXCEPT ![l].next = @ + 1]
    /\ UNCHANGED <<page, order, titles, shown, hud, crashed, history>>

\* The array changed under its enumeration: the runtime raises.
EnumerationRaises(l) ==
    /\ ~crashed /\ load[l].phase = "sections" /\ load[l].next <= Len(load[l].names)
    /\ load[l].mutated
    /\ Crash

\* Loop 2 is over; the last block goes to the main queue.
PostReload(l) ==
    /\ ~crashed /\ load[l].phase = "sections" /\ load[l].next > Len(load[l].names)
    /\ load' = [load EXCEPT ![l].phase = "reload"]
    /\ UNCHANGED <<page, order, arrays, shown, hud, crashed, history>>

\* A block changes the arrays while another load's block or reload, or the
\* table laying out a row, is in them: undefined, may crash.
RaceCrashes ==
    /\ ~crashed /\ \E k \in Building : Dealing # {k} \/ Rows(shown) # {}
    /\ Crash

\* Slip: a reload with an empty answer leaves the HUD up.
ReloadHidingForUsers(l) ==
    /\ ~crashed /\ load[l].phase = "reload"
    /\ IF Len(titles) > Len(sections) THEN Crash
       ELSE /\ load' = [load EXCEPT ![l] = Idle]
            /\ hud' = (hud /\ titles = <<>>)
            /\ shown' = SubSeq(sections, 1, Len(titles))
            /\ UNCHANGED <<page, order, arrays, crashed, history>>

\* Every HUD is hidden and the table asks for its sections and rows: as many
\* sections as titles, the rows of each from the other array.
Reload(l) ==
    /\ ~crashed /\ load[l].phase = "reload"
    /\ IF Len(titles) > Len(sections) THEN Crash
       ELSE /\ load' = [load EXCEPT ![l] = Idle]
            /\ hud' = FALSE
            /\ shown' = SubSeq(sections, 1, Len(titles))
            /\ UNCHANGED <<page, order, arrays, crashed, history>>

-----------------------------------------------------------------------------
\* The table lays out a row while it still scrolls, or a row is tapped outside
\* editing: the cell, or the page it opens, comes from the arrays.
LookUpRow(row) ==
    /\ ~crashed /\ row \in Rows(shown) /\ ~Resolves(row)
    /\ Crash

\* Every step but the reload, which the page with its selection extends.
Step ==
    \/ FirstAppear \/ MenuClosed
    \/ \E c \in Classes : PickClass(c)
    \/ \E l \in Loads :
        \/ Deal(l) \/ AddTitle(l) \/ StartSections(l) \/ AddSection(l)
        \/ EnumerationRaises(l) \/ PostReload(l)
    \/ RaceCrashes
    \/ \E row \in Rows(shown) : LookUpRow(row)

Next == Step \/ \E l \in Loads : Reload(l)

Spec == Init /\ [][Next]_rosterVars

\* Queries are answered or fail, the background queue runs its blocks and the
\* main queue its own.  Nobody is forced to tap.
Background(l) ==
    \/ Deal(l) \/ AddTitle(l) \/ StartSections(l) \/ AddSection(l)
    \/ EnumerationRaises(l) \/ PostReload(l) \/ Reload(l)

FairSpec == Spec /\ \A l \in Loads : WF_rosterVars(Background(l))

-----------------------------------------------------------------------------
Initials == {Initial[u] : u \in Users}

LoadRecords == [phase : Phases, class : Classes \cup {None}, list : Seq(Users),
                next : Nat \ {0}, names : Seq(Initials), mutated : BOOLEAN]

TypeOK ==
    /\ chosen \in Classes \cup {None} /\ title \in Classes \cup {None}
    /\ load \in [Loads -> LoadRecords]
    /\ \A l \in Loads : load[l].class = None <=> load[l].phase = "free"
    /\ order \in Seq(Loads) /\ IsInjective(order)
    /\ ToSet(order) = {l \in Loads : load[l].phase = "querying"}
    /\ titles \in Seq(Initials)
    /\ {appeared, closing, hud, crashed, mixed} \subseteq BOOLEAN
    /\ dealt \in [class : Classes \cup {None}, late : BOOLEAN]

\* The users of a class by initial, in the order the initials come first.
IsPartition(ts, secs, list) ==
    /\ IsInjective(ts)
    /\ ToSet(ts) = {Initial[u] : u \in ToSet(list)}
    /\ Len(secs) = Len(ts)
    /\ \A i \in 1 .. Len(ts) : secs[i] = HasInitial(ts[i], list)

ListOf(c) == IF c = None THEN <<>> ELSE UsersOf[c]

\* The comment that closes dealAddressBookDataWithAVObjectArr (line 592), "the
\* two arrays must correspond, that is, initial to section".  They do after a load
\* whose callback found no other load being dealt with: once its table is
\* reloaded, titles and sections split exactly the users it got, and the table
\* shows those sections, so what a row shows is what a tap on it finds.
SoleLoadShowsItsClass ==
    (~crashed /\ ~mixed /\ Dealing = {}) =>
        /\ IsPartition(titles, sections, ListOf(dealt.class))
        /\ shown = sections

\* With every query answered, the class on the menu button is the one listed,
\* unless the last answer was overtaken by that of a later choice, came with
\* an error, or was mixed with another.
MenuNamesTheList ==
    (~crashed /\ order = <<>> /\ ~mixed /\ ~dealt.late /\ dealt.class # None)
        => dealt.class = title

\* A load keeps its first state until its answer comes, and the page its own until
\* it appears.
NothingYet ==
    /\ \A l \in Loads : load[l].phase \in {"free", "querying"} => load[l].next = 1
    /\ ~appeared => order = <<>> /\ dealt.class = None /\ ~closing
    /\ closing => chosen # None

\* The class on the menu button is that of the load sent last, while it is out and
\* when it has been dealt with.
MenuNamesTheLatest ==
    ~crashed =>
        /\ (order # <<>> /\ Last(order) \notin overtaken) => load[Last(order)].class = title
        /\ (order = <<>> /\ ~dealt.late /\ dealt.class # None) => dealt.class = title

\* The titles are the initials of the first n users.
TitlesOfFirst(n, list) ==
    /\ IsInjective(titles)
    /\ ToSet(titles) = {Initial[list[i]] : i \in 1..n}

\* The first n sections are those of the first n titles.
SectionsOfFirst(n, list) == sections = [i \in 1..n |-> HasInitial(titles[i], list)]

\* How far load l, which met no other, has come with its class.
Splits(l) ==
    LET list == load[l].list
        next == load[l].next
    IN  /\ Dealing = {l}
        /\ list = ListOf(dealt.class)
        /\ load[l].phase = "titles" =>
            /\ next \in 1..(Len(list) + 1)
            /\ TitlesOfFirst(next - 1, list) /\ SectionsOfFirst(0, list)
        /\ load[l].phase = "sections" =>
            /\ load[l].names = titles /\ next \in 1..(Len(titles) + 1)
            /\ TitlesOfFirst(Len(list), list) /\ SectionsOfFirst(next - 1, list)
        /\ load[l].phase = "reload" =>
            TitlesOfFirst(Len(list), list) /\ SectionsOfFirst(Len(titles), list)

\* The invariant of the proofs.
IInv ==
    /\ TypeOK
    /\ NothingYet
    /\ MenuNamesTheLatest
    /\ (~crashed /\ ~mixed) => \A l \in Dealing : Splits(l)
    /\ SoleLoadShowsItsClass

\* Every spinner goes away, whatever is chosen meanwhile.
SpinnerEnds == hud ~> (~hud \/ crashed)
=============================================================================
