------------------------- MODULE MCAddressBookPage -------------------------
(***************************************************************************)
(* A small instance of AddressBookPage for TLC: two classes of one user    *)
(* each, so that a row kept from the one is somebody else in the other,    *)
(* and is missing while the arrays are rebuilt or after a failed query.    *)
(***************************************************************************)
EXTENDS AddressBookPage, TLC

CONSTANTS c1, c2, wang, li, W, L

MCClasses == {c1, c2}
MCUsers == {wang, li}
MCUsersOf == (c1 :> <<wang>>) @@ (c2 :> <<li>>)
MCInitial == (wang :> W) @@ (li :> L)

\* The classes may be swapped with their users and initials: that maps UsersOf
\* and Initial to themselves.
SwapClasses == (c1 :> c2) @@ (c2 :> c1) @@ (wang :> li) @@ (li :> wang) @@ (W :> L) @@ (L :> W)

Symmetry == Permutations(Loads) \cup {SwapClasses}
=============================================================================
