------------------------------ MODULE MCRoster ------------------------------
(***************************************************************************)
(* A small instance of Roster for TLC.  One class has users of two         *)
(* initials, the other a user of one of them, so that a section of the     *)
(* wrong load and a section of the wrong initial are told apart.           *)
(***************************************************************************)
EXTENDS Roster, TLC

CONSTANTS c1, c2, wang, li, wei

MCClasses == {c1, c2}
MCUsers == {wang, li, wei}
MCUsersOf == (c1 :> <<wang, li>>) @@ (c2 :> <<wei>>)
MCInitial == (wang :> "W") @@ (li :> "L") @@ (wei :> "W")
=============================================================================
