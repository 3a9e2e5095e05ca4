---------------------------- MODULE MCAttendance ----------------------------
(***************************************************************************)
(* Small instances of Attendance for TLC.                                  *)
(***************************************************************************)
EXTENDS Attendance, TLC

\* Chains, phones, students and accounts are told apart by nothing but their
\* own fields.  Only runs without a liveness property use this.
Symmetry ==
    Permutations(Tasks) \cup Permutations(Devices)
        \cup Permutations(Students) \cup Permutations(Accounts)
=============================================================================
