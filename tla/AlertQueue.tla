----------------------------- MODULE AlertQueue -----------------------------
(***************************************************************************)
(* SIAlertView, as the app uses it: alerts with one button and the bounce  *)
(* transition, posted by the answers of the network.                       *)
(*                                                                         *)
(* All alerts share a queue, the alert that is current and the flag that   *)
(* an animation is under way.  An alert's appearing and its leaving end in *)
(* a callback each; a button may be touched while its alert still appears, *)
(* so an alert may have both due, and then two leavings, in the order they *)
(* began.                                                                  *)
(***************************************************************************)
EXTENDS Naturals, Sequences, SequencesExt

CONSTANTS
    Alerts,   \* the alerts the app creates
    None      \* no alert

ASSUME AlertsAssumption == None \notin Alerts

VARIABLES
    queue,      \* sharedQueue
    windows,    \* the alerts that are visible, each in its window; front last
    current,    \* currentAlertView
    animating,  \* isAnimating
    appearing,  \* alerts whose transitionIn has not completed
    leaving,    \* per alert, the cleanup flags of its transitionOuts to complete
    answered,   \* alerts whose button ran its handler
    hurried     \* history: whether a button was touched that still appeared

vars == <<queue, windows, current, animating, appearing, leaving, answered, hurried>>

isVisible(a) == a \in ToSet(windows)

\* removeObject: of an array that holds the object once or not at all.
RemoveObject(s, a) ==
    IF a \in ToSet(s) THEN RemoveAt(s, CHOOSE i \in DOMAIN s : s[i] = a) ELSE s

\* Whether `index < count - 1` of an alert, on unsigned integers: an alert that
\* is not in the queue has the largest index, an empty queue a larger count - 1.
HasNext(a) == queue = <<>> \/ (a \in ToSet(queue) /\ a # Last(queue))

\* The alert behind a in the queue.
NextAlertView(a) ==
    LET i == CHOOSE j \in DOMAIN queue : queue[j] = a IN queue[i + 1]

\* Slip: a button that shrinks still takes touches.
TouchableLeaving(a) == windows # <<>> /\ a = Last(windows)

\* The alert whose button can be touched: the front one, unless it shrinks.
Touchable(a) ==
    /\ windows # <<>> /\ a = Last(windows)
    /\ leaving[a] = <<>>

\* Slip: a torn down alert's animations run on.
StoppedByKey(a) == Len(leaving[a]) > 1

\* Animations that were stopped, by another under the same key or because their
\* window went: their callbacks come with the next commit, before any touch and
\* before the end of any other animation.
Stopped(a) ==
    \/ Len(leaving[a]) > 1
    \/ ~isVisible(a) /\ (a \in appearing \/ leaving[a] # <<>>)

NoneStopped == \A a \in Alerts : ~Stopped(a)

-----------------------------------------------------------------------------
Init ==
    /\ queue = <<>> /\ windows = <<>>
    /\ current = None /\ animating = FALSE
    /\ appearing = {}
    /\ leaving = [a \in Alerts |-> <<>>]
    /\ answered = {} /\ hurried = FALSE

\* The part of show that makes alert a visible, on top of shown.
Appear(a, shown) ==
    /\ windows' = Append(shown, a)
    /\ current' = a
    /\ animating' = TRUE
    /\ appearing' = appearing \cup {a}

\* Slip: every dismissal cleans up.
LeaveForGood(a, cleanup) ==
    /\ animating' = TRUE
    /\ leaving' = [leaving EXCEPT ![a] = Append(@, TRUE)]

\* dismissAnimated:YES of a visible alert: its leaving begins.
Leave(a, cleanup) ==
    /\ animating' = TRUE
    /\ leaving' = [leaving EXCEPT ![a] = Append(@, cleanup)]

\* Slip: no turn is waited for while an animation is under way.
ShowAtOnce(a) ==
    /\ a \notin ToSet(queue) \cup answered
    /\ queue' = Append(queue, a)
    /\ UNCHANGED <<answered, hurried>>
    /\ \/ /\ isVisible(current)
          /\ Leave(current, FALSE)
          /\ UNCHANGED <<windows, current, appearing>>
       \/ /\ ~isVisible(current)
          /\ Appear(a, windows)
          /\ UNCHANGED leaving

\* show of a new alert: it waits for the animation under way, or sends the
\* current alert away first, or appears.
Show(a) ==
    /\ a \notin ToSet(queue) \cup answered
    /\ queue' = Append(queue, a)
    /\ UNCHANGED <<answered, hurried>>
    /\ \/ /\ animating
          /\ UNCHANGED <<windows, current, animating, appearing, leaving>>
       \/ /\ ~animating /\ isVisible(current)
          /\ Leave(current, FALSE)
          /\ UNCHANGED <<windows, current, appearing>>
       \/ /\ ~animating /\ ~isVisible(current)
          /\ Appear(a, windows)
          /\ UNCHANGED leaving

\* buttonAction: the handler runs, and the alert leaves for good.
ButtonAction(a) ==
    /\ NoneStopped /\ Touchable(a)
    /\ answered' = answered \cup {a}
    /\ hurried' = (hurried \/ a \in appearing)
    /\ Leave(a, TRUE)
    /\ UNCHANGED <<queue, windows, current, appearing>>

\* Slip: the flag is cleared only to make room.
TransitionInCompletesBusy(a) ==
    /\ a \in appearing
    /\ NoneStopped \/ ~isVisible(a)
    /\ appearing' = appearing \ {a}
    /\ UNCHANGED <<queue, windows, current, answered, hurried>>
    /\ IF HasNext(a) /\ isVisible(a) THEN Leave(a, FALSE) ELSE UNCHANGED <<animating, leaving>>

\* transitionIn completes: the alert makes room for one that was queued
\* meanwhile; one that is gone by then clears the flag and the current alert.
TransitionInCompletes(a) ==
    /\ a \in appearing
    /\ NoneStopped \/ ~isVisible(a)
    /\ appearing' = appearing \ {a}
    /\ UNCHANGED <<queue, windows, answered, hurried>>
    /\ \/ /\ HasNext(a) /\ isVisible(a)
          /\ Leave(a, FALSE)
          /\ UNCHANGED current
       \/ /\ HasNext(a) /\ ~isVisible(a)
          /\ current' = None
          /\ animating' = FALSE
          /\ UNCHANGED leaving
       \/ /\ ~HasNext(a)
          /\ animating' = FALSE
          /\ UNCHANGED <<current, leaving>>

\* Slip: the last alert of the queue is not shown again.
TransitionOutShowsNextOnly(a) ==
    LET shown == RemoveObject(windows, a)
        next  == IF a \in ToSet(queue) /\ a # Last(queue) THEN NextAlertView(a)
                 ELSE None
    IN  /\ leaving[a] # <<>>
        /\ NoneStopped \/ Stopped(a)
        /\ leaving' = [leaving EXCEPT ![a] = Tail(@)]
        /\ queue' = IF Head(leaving[a]) THEN RemoveObject(queue, a) ELSE queue
        /\ UNCHANGED <<answered, hurried>>
        /\ \/ /\ next \in ToSet(shown) \cup {None}
              /\ windows' = shown
              /\ current' = None
              /\ animating' = FALSE
              /\ UNCHANGED appearing
           \/ /\ next \notin ToSet(shown) \cup {None}
              /\ Appear(next, shown)

\* transitionOut completes, dismissComplete: the alert's window goes, and the
\* alert behind it in the queue shows, or else the last one, unless it is visible.
TransitionOutCompletes(a) ==
    LET shown == RemoveObject(windows, a)
        next  == IF a \in ToSet(queue) /\ a # Last(queue) THEN NextAlertView(a)
                 ELSE IF queue' # <<>> THEN Last(queue') ELSE None
    IN  /\ leaving[a] # <<>>
        /\ NoneStopped \/ Stopped(a)
        /\ leaving' = [leaving EXCEPT ![a] = Tail(@)]
        /\ queue' = IF Head(leaving[a]) THEN RemoveObject(queue, a) ELSE queue
        /\ UNCHANGED <<answered, hurried>>
        /\ \/ /\ next \in ToSet(shown) \cup {None}
              /\ windows' = shown
              /\ current' = None
              /\ animating' = FALSE
              /\ UNCHANGED appearing
           \/ /\ next \notin ToSet(shown) \cup {None}
              /\ Appear(next, shown)

Next ==
    \E a \in Alerts :
        \/ Show(a)
        \/ ButtonAction(a)
        \/ TransitionInCompletes(a)
        \/ TransitionOutCompletes(a)

Spec == Init /\ [][Next]_vars

\* Animations end, and the user answers an alert that stays in front.
Fairness ==
    \A a \in Alerts :
        /\ WF_vars(ButtonAction(a))
        /\ WF_vars(TransitionInCompletes(a))
        /\ WF_vars(TransitionOutCompletes(a))

FairSpec == Spec /\ Fairness

-----------------------------------------------------------------------------
TypeOK ==
    /\ queue \in Seq(Alerts) /\ IsInjective(queue)
    /\ windows \in Seq(Alerts) /\ IsInjective(windows)
    /\ current \in Alerts \cup {None}
    /\ animating \in BOOLEAN
    /\ appearing \subseteq Alerts
    /\ leaving \in [Alerts -> Seq(BOOLEAN)]
    /\ answered \subseteq Alerts /\ hurried \in BOOLEAN

\* The flag that makes later alerts wait is never left set: as long as it is, a
\* callback is due, whatever two animations of one alert do to each other.
AnimatingEnds ==
    animating => \E a \in Alerts : a \in appearing \/ leaving[a] # <<>>

\* No alert waits behind an empty screen, and none is on screen that the queue
\* has forgotten, which nothing would take away.
QueueIsInView ==
    /\ queue # <<>> => windows # <<>>
    /\ ToSet(windows) \subseteq ToSet(queue)

\* An alert whose button was touched is on its way out for good, and no other is:
\* its handler cannot run twice, and no alert goes unanswered.
AnsweredLeaves ==
    \A a \in Alerts :
        leaving[a] # <<>> /\ Head(leaving[a]) <=> a \in answered \cap ToSet(queue)

\* An alert that shows again starts afresh: no callback of its former window is
\* due, which would take the new one away.
ShownAfresh ==
    [][\A a \in Alerts : ~isVisible(a) /\ isVisible(a)' =>
           a \notin appearing /\ leaving[a] = <<>>]_vars

\* Of the leavings of one alert only the first can be for good, since a button
\* that shrinks takes no touch.
CleanupIsFirst ==
    \A a \in Alerts : \A i \in DOMAIN leaving[a] : leaving[a][i] => i = 1

\* The flag, the queue and the screen: what the proofs show first.
QueueInv ==
    /\ TypeOK
    /\ AnimatingEnds
    /\ QueueIsInView
    /\ animating => windows # <<>>
    /\ AnsweredLeaves
    /\ CleanupIsFirst

\* A callback of alert a is due; it is due although the alert is gone.
Due(a) == a \in appearing \/ leaving[a] # <<>>
Gone(a) == ~isVisible(a) /\ Due(a)

\* Whose animations were stopped: one alert at a time, since its callbacks come
\* before any touch and any other callback.  A shown alert's flag is set by then,
\* so that none is sent away; once it is gone, the current alert does nothing that
\* a second flag could stop, and the queue does not turn to the one that is gone.
OneStopped ==
    /\ \A a \in Alerts : Due(a) => a \in ToSet(queue) \cup answered
    /\ \A a, b \in Alerts : Stopped(a) /\ Stopped(b) => a = b
    /\ \A a \in Alerts : Stopped(a) /\ isVisible(a) => animating
    /\ \A a \in Alerts : Gone(a) =>
        /\ a \in ToSet(queue) => a # Last(queue)
        /\ isVisible(current) => animating \/ leaving[current] = <<>>
        /\ isVisible(current) /\ a \in appearing => animating /\ leaving[current] = <<>>

\* The invariant of the proofs.
IInv == QueueInv /\ OneStopped

\* The current alert is the one on screen, it appears or leaves once, and the flag
\* is set exactly while it does.
OneByOne ==
    /\ windows = IF current = None THEN <<>> ELSE <<current>>
    /\ \A a \in appearing : a = current /\ leaving[a] = <<>>
    /\ \A a \in Alerts : leaving[a] # <<>> => a = current /\ Len(leaving[a]) = 1
    /\ animating <=> appearing # {} \/ \E a \in Alerts : leaving[a] # <<>>

\* "Wait for next turn", "prevent showing another alert in action block": alerts
\* show one by one, until a button is touched that still appears.
OneByOneUnlessHurried == ~hurried => OneByOne

\* The alert in front that is not on its way out.
Showing ==
    IF windows # <<>> /\ leaving[Last(windows)] = <<>> THEN Last(windows) ELSE None

Service ==
    INSTANCE AlertService WITH waiting <- ToSet(queue) \ answered, showing <- Showing

\* The queue is an alert service: it shows only alerts that wait, and each
\* button acts once.
ServiceSpec == Service!Spec

\* Every alert the app posts is answered in the end, by a user who touches what
\* is in front, although alerts send one another away.
EveryAlertAnswered == Service!EveryAlertAnswered
=============================================================================
