---------------------------- MODULE AlertService ----------------------------
(***************************************************************************)
(* What the app expects of its alerts: an alert that is posted waits until *)
(* the user answers it, in the order the service likes, and its button     *)
(* acts once.                                                              *)
(***************************************************************************)
CONSTANTS Alerts, None

VARIABLES
    waiting,   \* alerts posted and not answered
    answered,  \* alerts answered
    showing    \* the alert the user may answer now, or None

vars == <<waiting, answered, showing>>

Init ==
    /\ waiting = {} /\ answered = {}
    /\ showing = None

\* A new alert is posted; the one on show may give way to it, or to none.
Post(a) ==
    /\ a \notin waiting \cup answered
    /\ waiting' = waiting \cup {a}
    /\ showing' \in {showing, a, None}
    /\ UNCHANGED answered

\* The service shows one of the alerts that wait, or none for a while.
Turn ==
    /\ showing' \in waiting \cup {None}
    /\ UNCHANGED <<waiting, answered>>

\* The user answers the alert on show.
Answer(a) ==
    /\ showing = a
    /\ waiting' = waiting \ {a}
    /\ answered' = answered \cup {a}
    /\ showing' = None

Next == Turn \/ \E a \in Alerts : Post(a) \/ Answer(a)

Spec == Init /\ [][Next]_vars

\* What is posted is answered.
EveryAlertAnswered == \A a \in Alerts : a \in waiting ~> a \in answered
=============================================================================
