\* Two loads, the selection and one toast timer, in every interleaving.
SPECIFICATION PageSpec
CONSTANTS
    c1 = c1
    c2 = c2
    wang = wang
    li = li
    W = W
    L = L
    None = None
    Classes <- MCClasses
    Users <- MCUsers
    UsersOf <- MCUsersOf
    Initial <- MCInitial
    Loads = {l1, l2}
    MaxToasts = 1
SYMMETRY Symmetry
INVARIANTS
    PageTypeOK
    PageIInv
    SignsWhomItShows
CHECK_DEADLOCK FALSE
