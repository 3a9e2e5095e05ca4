\* Two loads under way at once, chosen again and again, in every interleaving
\* of their blocks.  No symmetry: it is not sound with SpinnerEnds.
SPECIFICATION FairSpec
CONSTANTS
    c1 = c1
    c2 = c2
    wang = wang
    li = li
    wei = wei
    None = None
    Classes <- MCClasses
    Users <- MCUsers
    UsersOf <- MCUsersOf
    Initial <- MCInitial
    Loads = {l1, l2}
INVARIANTS
    TypeOK
    SoleLoadShowsItsClass
    MenuNamesTheList
    IInv
PROPERTY
    SpinnerEnds
\* The app stops when an exception ends it, and when Loads are all under way.
CHECK_DEADLOCK FALSE
