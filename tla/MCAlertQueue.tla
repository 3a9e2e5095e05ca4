---------------------------- MODULE MCAlertQueue ----------------------------
(***************************************************************************)
(* Instances of AlertQueue.  Four alerts: one that is left, one that shows *)
(* in its place, one that comes while those two change, and one more on    *)
(* top of two at once.                                                     *)
(***************************************************************************)
EXTENDS AlertQueue

CONSTANTS w, x, y, z

MCAlerts == {w, x, y, z}
=============================================================================
