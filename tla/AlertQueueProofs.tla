-------------------------- MODULE AlertQueueProofs --------------------------
(***************************************************************************)
(* Proofs about AlertQueue, for any number of alerts.                      *)
(***************************************************************************)
EXTENDS AlertQueue, SequenceLemmas

\* removeObject: takes the object out and nothing else.
LEMMA RemoveObjectRemoves ==
    ASSUME NEW S, NEW s \in Seq(S), IsInjective(s), NEW a
    PROVE  /\ RemoveObject(s, a) \in Seq(S)
           /\ IsInjective(RemoveObject(s, a))
           /\ ToSet(RemoveObject(s, a)) = ToSet(s) \ {a}
<1>1. CASE a \notin ToSet(s)
  BY <1>1 DEF RemoveObject
<1>2. CASE a \in ToSet(s)
  <2> DEFINE i == CHOOSE j \in DOMAIN s : s[j] = a
  <2>1. i \in 1..Len(s) /\ s[i] = a
    BY <1>2, LenProperties DEF ToSet
  <2> HIDE DEF i
  <2>2. RemoveObject(s, a) = RemoveAt(s, i)
    BY <1>2 DEF RemoveObject, i
  <2> QED BY <2>1, <2>2, RemoveAtRemoves
<1> QED BY <1>1, <1>2

\* The alert behind another one is an alert of the queue, and another one.
LEMMA NextIsQueued ==
    ASSUME TypeOK, NEW a \in ToSet(queue), a # Last(queue)
    PROVE  NextAlertView(a) \in ToSet(queue) \ {a}
<1> DEFINE i == CHOOSE j \in DOMAIN queue : queue[j] = a
<1>1. Len(queue) \in Nat /\ DOMAIN queue = 1..Len(queue)
  BY LenProperties DEF TypeOK
<1>2. i \in 1..Len(queue) /\ queue[i] = a
  BY <1>1 DEF ToSet
<1> HIDE DEF i
<1>3. i + 1 \in 1..Len(queue)
  BY <1>1, <1>2 DEF Last
<1>4. queue[i + 1] # a
  <2>1. queue \in Seq(Alerts) /\ IsInjective(queue)
    BY DEF TypeOK
  <2>2. \A j, k \in 1..Len(queue) : queue[j] = queue[k] => j = k
    BY <2>1, InjectiveByIndex
  <2> QED BY <1>1, <1>2, <1>3, <2>2
<1> QED BY <1>1, <1>3, <1>4 DEF NextAlertView, ToSet, i

-----------------------------------------------------------------------------
\* A dismissal appends its flag: only that alert's flags change, and their head
\* stays unless there was none.
LEMMA LeaveEffect ==
    ASSUME TypeOK, NEW a \in Alerts, NEW cleanup \in BOOLEAN, Leave(a, cleanup)
    PROVE  /\ animating' = TRUE
           /\ leaving' \in [Alerts -> Seq(BOOLEAN)]
           /\ leaving'[a] = Append(leaving[a], cleanup)
           /\ leaving'[a] # <<>>
           /\ Head(leaving'[a]) = IF leaving[a] = <<>> THEN cleanup ELSE Head(leaving[a])
           /\ \A b \in Alerts \ {a} : leaving'[b] = leaving[b]
           /\ CleanupIsFirst /\ (cleanup => leaving[a] = <<>>) => CleanupIsFirst'
<1>1. leaving \in [Alerts -> Seq(BOOLEAN)] /\ leaving[a] \in Seq(BOOLEAN)
  BY DEF TypeOK
<1>2. leaving'[a] = Append(leaving[a], cleanup)
  BY <1>1 DEF Leave
<1>3. \A b \in Alerts \ {a} : leaving'[b] = leaving[b]
  BY <1>1 DEF Leave
<1>4. /\ Append(leaving[a], cleanup) \in Seq(BOOLEAN)
      /\ Append(leaving[a], cleanup) # <<>>
      /\ Len(Append(leaving[a], cleanup)) = Len(leaving[a]) + 1
      /\ \A i \in 1..Len(leaving[a]) : Append(leaving[a], cleanup)[i] = leaving[a][i]
      /\ Append(leaving[a], cleanup)[Len(leaving[a]) + 1] = cleanup
  BY <1>1, AppendProperties
<1>5. Head(leaving'[a]) = IF leaving[a] = <<>> THEN cleanup ELSE Head(leaving[a])
  BY <1>1, <1>2, HeadTailAppend
<1>6. ASSUME CleanupIsFirst, cleanup => leaving[a] = <<>> PROVE CleanupIsFirst'
  <2> SUFFICES ASSUME NEW b \in Alerts, NEW i \in DOMAIN leaving'[b], leaving'[b][i]
               PROVE  i = 1
    BY DEF CleanupIsFirst
  <2>1. CASE b # a
    BY <1>3, <1>6, <2>1 DEF CleanupIsFirst
  <2>2. CASE b = a
    <3>1. Len(leaving[a]) \in Nat /\ DOMAIN leaving[a] = 1..Len(leaving[a])
      BY <1>1, LenProperties
    <3>2. i \in 1..(Len(leaving[a]) + 1)
      BY <1>2, <1>4, <2>2, LenProperties
    <3>3. CASE i \in 1..Len(leaving[a])
      BY <1>2, <1>4, <1>6, <2>2, <3>1, <3>3 DEF CleanupIsFirst
    <3>4. CASE i = Len(leaving[a]) + 1
      <4>1. leaving'[a][i] = cleanup
        BY <1>2, <1>4, <3>4
      <4>2. leaving[a] = <<>>
        BY <1>6, <2>2, <4>1
      <4>3. Len(leaving[a]) = 0
        BY <4>2
      <4> QED BY <3>4, <4>3
    <3> QED BY <3>1, <3>2, <3>3, <3>4
  <2> QED BY <2>1, <2>2
<1>7. leaving' \in [Alerts -> Seq(BOOLEAN)]
  BY <1>1, <1>4 DEF Leave
<1> QED BY <1>2, <1>3, <1>4, <1>5, <1>6, <1>7 DEF Leave

\* A leaving that completes takes the first flag; those behind it are not for good.
LEMMA TailEffect ==
    ASSUME TypeOK, CleanupIsFirst, NEW a \in Alerts, leaving[a] # <<>>,
           leaving' = [leaving EXCEPT ![a] = Tail(@)]
    PROVE  /\ leaving' \in [Alerts -> Seq(BOOLEAN)]
           /\ Head(leaving[a]) \in BOOLEAN
           /\ leaving'[a] # <<>> => ~Head(leaving'[a])
           /\ \A b \in Alerts \ {a} : leaving'[b] = leaving[b]
           /\ CleanupIsFirst'
<1>1. leaving \in [Alerts -> Seq(BOOLEAN)] /\ leaving[a] \in Seq(BOOLEAN)
  BY DEF TypeOK
<1> DEFINE s == leaving[a]
           t == Tail(s)
<1>2. /\ Head(s) \in BOOLEAN /\ t \in Seq(BOOLEAN) /\ Len(t) = Len(s) - 1
      /\ \A i \in 1..Len(t) : t[i] = s[i + 1]
  BY <1>1, HeadTailProperties
<1>3. leaving'[a] = t /\ \A b \in Alerts \ {a} : leaving'[b] = leaving[b]
  BY <1>1
<1>4. /\ Len(s) \in Nat /\ DOMAIN s = 1..Len(s)
      /\ Len(t) \in Nat /\ DOMAIN t = 1..Len(t)
  BY <1>1, <1>2, LenProperties
<1>5. \A i \in DOMAIN t : ~t[i]
  <2> SUFFICES ASSUME NEW i \in 1..Len(t) PROVE ~t[i]
    BY <1>4
  <2>1. i + 1 \in DOMAIN s /\ i + 1 # 1
    BY <1>2, <1>4
  <2> QED BY <1>2, <2>1 DEF CleanupIsFirst
<1>6. t # <<>> => ~Head(t)
  <2>1. t # <<>> => 1 \in DOMAIN t
    BY <1>2, <1>4, EmptySeq
  <2>2. t # <<>> => Head(t) = t[1]
    BY <1>2
  <2> QED BY <1>5, <2>1, <2>2
<1>7. CleanupIsFirst'
  BY <1>3, <1>5 DEF CleanupIsFirst
<1>8. leaving' \in [Alerts -> Seq(BOOLEAN)]
  BY <1>1, <1>2
<1> QED BY <1>2, <1>3, <1>6, <1>7, <1>8

\* The invariant holds before the first alert.
LEMMA QueueInvInit == Init => QueueInv
<1> SUFFICES ASSUME Init PROVE QueueInv
  OBVIOUS
<1>1. <<>> \in Seq(Alerts) /\ <<>> \in Seq(BOOLEAN) /\ ToSet(<<>>) = {}
  BY DEF ToSet
<1>2. IsInjective(<<>>)
  BY DEF IsInjective
<1>3. \A a \in Alerts : leaving[a] = <<>> /\ DOMAIN leaving[a] = {}
  BY <1>1, EmptySeq DEF Init
<1>4. TypeOK
  BY <1>1, <1>2 DEF Init, TypeOK
<1>5. AnsweredLeaves /\ CleanupIsFirst
  BY <1>3 DEF Init, AnsweredLeaves, CleanupIsFirst
<1> QED BY <1>1, <1>4, <1>5 DEF Init, QueueInv, AnimatingEnds, QueueIsInView

\* A new alert is in nobody's way: it waits, sends the current alert away, or
\* appears over what is on screen.
LEMMA ShowStep ==
    ASSUME QueueInv, NEW a \in Alerts, Show(a)
    PROVE  QueueInv'
<1> USE DEF QueueInv
<1>1. /\ a \notin ToSet(queue) /\ a \notin answered /\ a \notin ToSet(windows)
      /\ queue' = Append(queue, a) /\ answered' = answered /\ hurried' = hurried
  BY DEF Show, QueueIsInView
<1>2. /\ queue' \in Seq(Alerts) /\ IsInjective(queue') /\ queue' # <<>>
      /\ ToSet(queue') = ToSet(queue) \cup {a}
  BY <1>1, AppendKeepsApart DEF TypeOK
<1>3. CASE animating /\ UNCHANGED <<windows, current, animating, appearing, leaving>>
  BY <1>1, <1>2, <1>3 DEF TypeOK, AnimatingEnds, QueueIsInView, AnsweredLeaves, CleanupIsFirst
<1>4. CASE /\ isVisible(current) /\ Leave(current, FALSE)
           /\ UNCHANGED <<windows, current, appearing>>
  <2>1. current \in Alerts /\ windows # <<>>
    BY <1>4, ToSetByIndex DEF isVisible, TypeOK
  <2>2. /\ animating' = TRUE /\ leaving' \in [Alerts -> Seq(BOOLEAN)]
        /\ leaving'[current] # <<>>
        /\ Head(leaving'[current]) =
             IF leaving[current] = <<>> THEN FALSE ELSE Head(leaving[current])
        /\ \A b \in Alerts \ {current} : leaving'[b] = leaving[b]
        /\ CleanupIsFirst'
    BY <1>4, <2>1, LeaveEffect
  <2>3. AnsweredLeaves'
    BY <1>1, <1>2, <2>1, <2>2 DEF AnsweredLeaves
  <2>4. TypeOK' /\ AnimatingEnds' /\ QueueIsInView'
    BY <1>1, <1>2, <1>4, <2>1, <2>2 DEF TypeOK, AnimatingEnds, QueueIsInView
  <2> QED BY <1>4, <2>1, <2>2, <2>3, <2>4
<1>5. CASE Appear(a, windows) /\ UNCHANGED leaving
  <2>1. /\ windows' \in Seq(Alerts) /\ IsInjective(windows') /\ windows' # <<>>
        /\ ToSet(windows') = ToSet(windows) \cup {a}
    <3>1. windows \in Seq(Alerts) /\ IsInjective(windows) /\ windows' = Append(windows, a)
      BY <1>5 DEF Appear, TypeOK
    <3> QED BY <1>1, <3>1, AppendKeepsApart
  <2>2. TypeOK'
    <3>1. /\ current' = a /\ animating' = TRUE /\ appearing' = appearing \cup {a}
          /\ leaving' = leaving
      BY <1>5 DEF Appear
    <3> QED BY <1>1, <1>2, <2>1, <3>1 DEF TypeOK
  <2>3. AnsweredLeaves' /\ CleanupIsFirst'
    BY <1>1, <1>2, <1>5 DEF AnsweredLeaves, CleanupIsFirst
  <2> QED
    BY <1>1, <1>2, <1>5, <2>1, <2>2, <2>3 DEF Appear, AnimatingEnds, QueueIsInView
<1> QED BY <1>3, <1>4, <1>5 DEF Show

\* The button of an alert that was not leaving makes it leave for good.
LEMMA ButtonActionStep ==
    ASSUME QueueInv, NEW a \in Alerts, ButtonAction(a)
    PROVE  QueueInv'
<1> USE DEF QueueInv
<1>1. /\ windows # <<>> /\ a = Last(windows) /\ leaving[a] = <<>>
      /\ answered' = answered \cup {a} /\ Leave(a, TRUE)
      /\ UNCHANGED <<queue, windows, current, appearing>>
  BY DEF ButtonAction, Touchable
<1>2. a \in ToSet(windows) /\ a \in ToSet(queue)
  BY <1>1, ToSetByIndex DEF TypeOK, QueueIsInView
<1>3. /\ animating' = TRUE /\ leaving' \in [Alerts -> Seq(BOOLEAN)]
      /\ leaving'[a] # <<>> /\ Head(leaving'[a]) = TRUE
      /\ \A b \in Alerts \ {a} : leaving'[b] = leaving[b]
      /\ CleanupIsFirst'
  BY <1>1, LeaveEffect
<1>4. AnsweredLeaves'
  BY <1>1, <1>2, <1>3 DEF AnsweredLeaves
<1>5. hurried' \in BOOLEAN
  BY DEF ButtonAction
<1> QED BY <1>1, <1>3, <1>4, <1>5 DEF TypeOK, AnimatingEnds, QueueIsInView

\* An alert that has appeared may leave for the next one, but not for good.
LEMMA TransitionInStep ==
    ASSUME QueueInv, NEW a \in Alerts, TransitionInCompletes(a)
    PROVE  QueueInv'
<1> USE DEF QueueInv
<1>1. appearing' = appearing \ {a} /\ UNCHANGED <<queue, windows, answered, hurried>>
  BY DEF TransitionInCompletes
<1>2. CASE isVisible(a) /\ Leave(a, FALSE) /\ UNCHANGED current
  <2>1. windows # <<>>
    BY <1>2, ToSetByIndex DEF isVisible, TypeOK
  <2>2. /\ animating' = TRUE /\ leaving' \in [Alerts -> Seq(BOOLEAN)]
        /\ leaving'[a] # <<>>
        /\ Head(leaving'[a]) = IF leaving[a] = <<>> THEN FALSE ELSE Head(leaving[a])
        /\ \A b \in Alerts \ {a} : leaving'[b] = leaving[b]
        /\ CleanupIsFirst'
    BY <1>2, LeaveEffect
  <2>3. AnsweredLeaves'
    BY <1>1, <2>2 DEF AnsweredLeaves
  <2> QED BY <1>1, <1>2, <2>1, <2>2, <2>3 DEF TypeOK, AnimatingEnds, QueueIsInView
<1>3. CASE animating' = FALSE /\ current' \in {current, None} /\ UNCHANGED leaving
  BY <1>1, <1>3 DEF TypeOK, AnimatingEnds, QueueIsInView, AnsweredLeaves, CleanupIsFirst
<1> QED BY <1>2, <1>3 DEF TransitionInCompletes

\* An alert that has left is gone from the screen, and from the queue if its
\* button was touched; if any alert is left in the queue, one is on screen.
LEMMA TransitionOutStep ==
    ASSUME QueueInv, NEW a \in Alerts, TransitionOutCompletes(a)
    PROVE  QueueInv'
<1> USE DEF QueueInv
<1> DEFINE shown == RemoveObject(windows, a)
           next  == IF a \in ToSet(queue) /\ a # Last(queue) THEN NextAlertView(a)
                    ELSE IF queue' # <<>> THEN Last(queue') ELSE None
<1>1. /\ leaving[a] # <<>> /\ leaving' = [leaving EXCEPT ![a] = Tail(@)]
      /\ queue' = IF Head(leaving[a]) THEN RemoveObject(queue, a) ELSE queue
      /\ answered' = answered /\ hurried' = hurried
  BY DEF TransitionOutCompletes
<1>2. \/ /\ next \in ToSet(shown) \cup {None} /\ windows' = shown
         /\ current' = None /\ animating' = FALSE /\ UNCHANGED appearing
      \/ next \notin ToSet(shown) \cup {None} /\ Appear(next, shown)
  BY DEF TransitionOutCompletes
<1>3. /\ leaving' \in [Alerts -> Seq(BOOLEAN)]
      /\ Head(leaving[a]) \in BOOLEAN
      /\ leaving'[a] # <<>> => ~Head(leaving'[a])
      /\ \A b \in Alerts \ {a} : leaving'[b] = leaving[b]
      /\ CleanupIsFirst'
  BY <1>1, TailEffect
<1>4. /\ shown \in Seq(Alerts) /\ IsInjective(shown)
      /\ ToSet(shown) = ToSet(windows) \ {a}
  BY RemoveObjectRemoves DEF TypeOK
<1>5. /\ queue' \in Seq(Alerts) /\ IsInjective(queue')
      /\ ToSet(queue') = IF Head(leaving[a]) THEN ToSet(queue) \ {a} ELSE ToSet(queue)
  BY <1>1, RemoveObjectRemoves DEF TypeOK
<1>6. AnsweredLeaves'
  BY <1>1, <1>3, <1>5 DEF AnsweredLeaves
<1>7. ToSet(shown) \subseteq ToSet(queue')
  BY <1>4, <1>5 DEF QueueIsInView
<1>8. ToSet(queue) \subseteq Alerts /\ ToSet(queue') \subseteq Alerts
  BY <1>5, ToSetByIndex DEF TypeOK
<1>9. /\ next # None => next \in ToSet(queue')
      /\ queue' # <<>> => next # None
  <2>1. CASE a \in ToSet(queue) /\ a # Last(queue)
    <3>1. next \in ToSet(queue) \ {a}
      BY <2>1, NextIsQueued
    <3> QED BY <1>5, <1>8, <3>1, AlertsAssumption
  <2>2. CASE ~(a \in ToSet(queue) /\ a # Last(queue))
    <3>1. queue' # <<>> => Last(queue') \in ToSet(queue')
      BY <1>5, ToSetByIndex
    <3> QED BY <1>8, <2>2, <3>1, AlertsAssumption
  <2> QED BY <2>1, <2>2
<1> HIDE DEF next, shown
<1>10. CASE /\ next \in ToSet(shown) \cup {None} /\ windows' = shown
            /\ current' = None /\ animating' = FALSE /\ UNCHANGED appearing
  <2>1. queue' # <<>> => shown # <<>>
    BY <1>4, <1>9, <1>10, ToSetByIndex
  <2> QED
    BY <1>1, <1>3, <1>4, <1>5, <1>6, <1>7, <1>10, <2>1
    DEF TypeOK, AnimatingEnds, QueueIsInView
<1>11. CASE next \notin ToSet(shown) \cup {None} /\ Appear(next, shown)
  <2>1. next \in ToSet(queue') /\ next \in Alerts
    BY <1>8, <1>9, <1>11
  <2>2. /\ windows' \in Seq(Alerts) /\ IsInjective(windows') /\ windows' # <<>>
        /\ ToSet(windows') = ToSet(shown) \cup {next}
    BY <1>4, <1>11, <2>1, AppendKeepsApart DEF Appear
  <2> QED
    BY <1>1, <1>3, <1>5, <1>6, <1>7, <1>11, <2>1, <2>2
    DEF Appear, TypeOK, AnimatingEnds, QueueIsInView
<1> QED BY <1>2, <1>10, <1>11

\* No step breaks the invariant.
LEMMA QueueInvStep == QueueInv /\ [Next]_vars => QueueInv'
<1> SUFFICES ASSUME QueueInv, [Next]_vars PROVE QueueInv'
  OBVIOUS
<1>1. ASSUME UNCHANGED vars PROVE QueueInv'
  BY <1>1 DEF vars, QueueInv, TypeOK, AnimatingEnds, QueueIsInView, AnsweredLeaves, CleanupIsFirst
<1> QED
  BY <1>1, ShowStep, ButtonActionStep, TransitionInStep, TransitionOutStep DEF Next

\* What is first shown of flag, queue and screen holds in every reachable state.
LEMMA QueueInvHolds == Spec => []QueueInv
BY QueueInvInit, QueueInvStep, PTL DEF Spec

\* Every variable keeps its type, and the queue forgets nothing: what waits is never
\* behind an empty screen, and nothing on screen is unqueued.
THEOREM QueueIsSafe == Spec => []TypeOK /\ []QueueIsInView
<1>1. QueueInv => TypeOK /\ QueueIsInView
  BY DEF QueueInv
<1> QED BY <1>1, QueueInvHolds, PTL

\* The queue never gets stuck: the flag that makes alerts wait is set only while a
\* callback is due that clears it.
THEOREM FlagIsCleared == Spec => []AnimatingEnds
<1>1. QueueInv => AnimatingEnds
  BY DEF QueueInv
<1> QED BY <1>1, QueueInvHolds, PTL

\* The alerts that leave for good are those whose button was touched.
THEOREM AnsweredAlertsLeave == Spec => []AnsweredLeaves
<1>1. QueueInv => AnsweredLeaves
  BY DEF QueueInv
<1> QED BY <1>1, QueueInvHolds, PTL

-----------------------------------------------------------------------------
\* The alert that can be answered waits.
LEMMA ShowingWaits == QueueInv => Showing \in (ToSet(queue) \ answered) \cup {None}
<1> SUFFICES ASSUME QueueInv PROVE Showing \in (ToSet(queue) \ answered) \cup {None}
  OBVIOUS
<1>1. CASE windows # <<>> /\ leaving[Last(windows)] = <<>>
  <2>1. Last(windows) \in ToSet(queue) /\ Last(windows) \in Alerts
    BY <1>1, ToSetByIndex DEF QueueInv, TypeOK, QueueIsInView
  <2>2. Last(windows) \notin answered
    BY <1>1, <2>1 DEF QueueInv, AnsweredLeaves
  <2> QED BY <1>1, <2>1, <2>2 DEF Showing
<1>2. CASE ~(windows # <<>> /\ leaving[Last(windows)] = <<>>)
  BY <1>2 DEF Showing
<1> QED BY <1>1, <1>2

\* The same after a step.
LEMMA ShowingWaitsAfter == QueueInv' => (Showing \in (ToSet(queue) \ answered) \cup {None})'
  BY ShowingWaits, PTL

\* show posts the alert.
LEMMA ShowPosts ==
    ASSUME QueueInv, NEW a \in Alerts, Show(a)
    PROVE  Service!Post(a)
<1>1. /\ a \notin ToSet(queue) /\ a \notin answered
      /\ queue' = Append(queue, a) /\ answered' = answered
  BY DEF Show
<1>2. ToSet(queue') = ToSet(queue) \cup {a}
  BY <1>1, AppendKeepsApart DEF QueueInv, TypeOK
<1>3. Showing' \in {Showing, a, None}
  <2>1. CASE UNCHANGED <<windows, current, animating, appearing, leaving>>
    BY <2>1 DEF Showing
  <2>2. CASE /\ isVisible(current) /\ Leave(current, FALSE)
             /\ UNCHANGED <<windows, current, appearing>>
    <3>1. current \in Alerts
      BY <2>2, ToSetByIndex DEF isVisible, QueueInv, TypeOK
    <3>2. /\ leaving'[current] # <<>>
          /\ \A b \in Alerts \ {current} : leaving'[b] = leaving[b]
      BY <2>2, <3>1, LeaveEffect DEF QueueInv
    <3>3. windows # <<>> => Last(windows) \in Alerts
      BY ToSetByIndex DEF QueueInv, TypeOK
    <3> QED BY <2>2, <3>2, <3>3 DEF Showing
  <2>3. CASE Appear(a, windows) /\ UNCHANGED leaving
    <3>1. windows' # <<>> /\ Last(windows') = a
      <4>1. windows \in Seq(Alerts) /\ windows' = Append(windows, a)
        BY <2>3 DEF Appear, QueueInv, TypeOK
      <4> QED BY <4>1, AppendKeepsApart
    <3> QED BY <3>1 DEF Showing
  <2> QED BY <2>1, <2>2, <2>3 DEF Show
<1> QED BY <1>1, <1>2, <1>3 DEF Service!Post

\* A touched button answers the alert on show.
LEMMA ButtonActionAnswers ==
    ASSUME QueueInv, NEW a \in Alerts, ButtonAction(a)
    PROVE  Service!Answer(a)
<1>1. /\ windows # <<>> /\ a = Last(windows) /\ leaving[a] = <<>>
      /\ answered' = answered \cup {a} /\ Leave(a, TRUE)
      /\ UNCHANGED <<queue, windows, current, appearing>>
  BY DEF ButtonAction, Touchable
<1>2. leaving'[a] # <<>>
  BY <1>1, LeaveEffect DEF QueueInv
<1>3. Showing = a /\ Showing' = None
  BY <1>1, <1>2 DEF Showing
<1> QED BY <1>1, <1>3 DEF Service!Answer

\* An animation that ends changes what is on show, never what waits.
LEMMA TransitionTurns ==
    ASSUME QueueInv, QueueInv', NEW a \in Alerts,
           TransitionInCompletes(a) \/ TransitionOutCompletes(a)
    PROVE  Service!Turn
<1>1. answered' = answered
  BY DEF TransitionInCompletes, TransitionOutCompletes
<1>2. ToSet(queue') \ answered = ToSet(queue) \ answered
  <2>1. CASE TransitionInCompletes(a)
    BY <2>1 DEF TransitionInCompletes
  <2>2. CASE TransitionOutCompletes(a)
    <3>1. /\ leaving[a] # <<>>
          /\ queue' = IF Head(leaving[a]) THEN RemoveObject(queue, a) ELSE queue
      BY <2>2 DEF TransitionOutCompletes
    <3>2. Head(leaving[a]) => a \in answered
      BY <3>1 DEF QueueInv, AnsweredLeaves
    <3>3. ToSet(RemoveObject(queue, a)) = ToSet(queue) \ {a}
      BY RemoveObjectRemoves DEF QueueInv, TypeOK
    <3> QED BY <3>1, <3>2, <3>3
  <2> QED BY <2>1, <2>2
<1>3. Showing' \in (ToSet(queue') \ answered') \cup {None}
  BY ShowingWaitsAfter
<1> QED BY <1>1, <1>2, <1>3 DEF Service!Turn

\* The queue implements the alert service: only alerts that wait are shown, and
\* a button acts once, for an alert that was posted.
THEOREM QueueServes == Spec => ServiceSpec
<1>1. Init => Service!Init
  BY DEF Init, Service!Init, Showing, ToSet
<1>2. QueueInv /\ QueueInv' /\ [Next]_vars => [Service!Next]_(Service!vars)
  <2> SUFFICES ASSUME QueueInv, QueueInv', [Next]_vars PROVE [Service!Next]_(Service!vars)
    OBVIOUS
  <2>1. CASE UNCHANGED vars
    BY <2>1 DEF vars, Service!vars, Showing
  <2>2. CASE Next
    BY <2>2, ShowPosts, ButtonActionAnswers, TransitionTurns DEF Next, Service!Next
  <2> QED BY <2>1, <2>2
<1> QED BY <1>1, <1>2, QueueInvHolds, PTL DEF Spec, ServiceSpec, Service!Spec

-----------------------------------------------------------------------------
\* As long as alerts show one by one the screen holds the current one and no other.
LEMMA OneByOneView ==
    ASSUME QueueInv, OneByOne
    PROVE  /\ ToSet(windows) = IF current = None THEN {} ELSE {current}
           /\ windows # <<>> => current \in Alerts /\ Last(windows) = current
           /\ \A a \in Alerts : isVisible(a) <=> a = current
           /\ RemoveObject(windows, current) = <<>>
<1>1. CASE current = None
  <2>1. windows = <<>> /\ ToSet(windows) = {}
    BY <1>1 DEF OneByOne, ToSet
  <2> QED BY <1>1, <2>1, AlertsAssumption DEF isVisible, RemoveObject
<1>2. CASE current # None
  <2>1. current \in Alerts /\ windows = <<current>>
    BY <1>2 DEF OneByOne, QueueInv, TypeOK
  <2>2. ToSet(windows) = {current} /\ Last(windows) = current
    BY <2>1 DEF ToSet, Last
  <2>3. /\ RemoveObject(windows, current) \in Seq(Alerts)
        /\ ToSet(RemoveObject(windows, current)) = ToSet(windows) \ {current}
    BY RemoveObjectRemoves DEF QueueInv, TypeOK
  <2>4. RemoveObject(windows, current) = <<>>
    BY <2>2, <2>3, ToSetByIndex
  <2> QED BY <1>2, <2>1, <2>2, <2>4 DEF isVisible
<1> QED BY <1>1, <1>2

\* Only a touch in haste puts a second alert on screen, or has two animations of
\* one alert under way.
LEMMA OneByOneStep ==
    ASSUME ~hurried', QueueInv, QueueInv', OneByOne, NEW a \in Alerts,
           \/ Show(a) \/ ButtonAction(a)
           \/ TransitionInCompletes(a) \/ TransitionOutCompletes(a)
    PROVE  OneByOne'
<1>1. leaving \in [Alerts -> Seq(BOOLEAN)] /\ leaving' \in [Alerts -> Seq(BOOLEAN)]
  BY DEF QueueInv, TypeOK
<1>2. /\ windows # <<>> => current \in Alerts /\ Last(windows) = current
      /\ \A b \in Alerts : isVisible(b) <=> b = current
      /\ RemoveObject(windows, current) = <<>>
      /\ isVisible(current) => current \in Alerts
  BY OneByOneView, ToSetByIndex DEF isVisible, QueueInv, TypeOK
\* The current alert, quiet so far, starts to leave.
<1>3. ASSUME NEW c \in Alerts, NEW cleanup \in BOOLEAN, c = current, leaving[c] = <<>>,
             c \notin appearing', appearing' \subseteq appearing,
             Leave(c, cleanup), UNCHANGED <<windows, current>>
      PROVE  OneByOne'
  <2>1. /\ animating' = TRUE /\ leaving'[c] = Append(leaving[c], cleanup)
        /\ leaving'[c] # <<>>
        /\ \A b \in Alerts \ {c} : leaving'[b] = leaving[b]
    BY <1>3, LeaveEffect DEF QueueInv
  <2>2. Len(leaving'[c]) = 1
    BY <1>3, <2>1
  <2> QED BY <1>3, <2>1, <2>2 DEF OneByOne
\* An alert appears on an empty screen where nothing moves.
<1>4. ASSUME NEW c \in Alerts, Appear(c, <<>>), appearing = {},
             \A b \in Alerts : leaving'[b] = <<>>
      PROVE  OneByOne'
  <2>1. windows' = <<c>> /\ current' = c /\ animating' = TRUE /\ appearing' = {c}
    BY <1>4 DEF Appear
  <2>2. c # None
    BY AlertsAssumption
  <2> QED BY <1>4, <2>1, <2>2 DEF OneByOne
<1>5. CASE Show(a)
  <2>1. CASE UNCHANGED <<windows, current, animating, appearing, leaving>>
    BY <2>1 DEF OneByOne
  <2>2. CASE /\ ~animating /\ isVisible(current) /\ Leave(current, FALSE)
             /\ UNCHANGED <<windows, current, appearing>>
    BY <1>2, <1>3, <2>2 DEF OneByOne
  <2>3. CASE ~animating /\ ~isVisible(current) /\ Appear(a, windows) /\ UNCHANGED leaving
    <3>1. windows = <<>>
      <4>1. windows # <<>> => isVisible(current)
        BY <1>2
      <4> QED BY <2>3, <4>1
    <3> QED BY <1>4, <2>3, <3>1 DEF OneByOne
  <2> QED BY <1>5, <2>1, <2>2, <2>3 DEF Show
<1>6. CASE ButtonAction(a)
  <2>1. /\ windows # <<>> /\ a = Last(windows) /\ leaving[a] = <<>>
        /\ a \notin appearing /\ Leave(a, TRUE)
        /\ UNCHANGED <<windows, current, appearing>>
    BY <1>6 DEF ButtonAction, Touchable
  <2> QED BY <1>2, <1>3, <2>1
<1>7. CASE TransitionInCompletes(a)
  <2>1. a \in appearing /\ appearing' = appearing \ {a} /\ windows' = windows
    BY <1>7 DEF TransitionInCompletes
  <2>2. a = current /\ leaving[a] = <<>> /\ isVisible(a)
    BY <1>2, <2>1 DEF OneByOne
  <2>3. CASE Leave(a, FALSE) /\ UNCHANGED current
    BY <1>3, <2>1, <2>2, <2>3
  <2>4. CASE animating' = FALSE /\ UNCHANGED <<current, leaving>>
    BY <2>1, <2>2, <2>4 DEF OneByOne
  <2> QED BY <1>7, <2>2, <2>3, <2>4 DEF TransitionInCompletes
<1>8. CASE TransitionOutCompletes(a)
  <2> DEFINE shown == RemoveObject(windows, a)
             next  == IF a \in ToSet(queue) /\ a # Last(queue) THEN NextAlertView(a)
                      ELSE IF queue' # <<>> THEN Last(queue') ELSE None
  <2>1. /\ leaving[a] # <<>> /\ leaving' = [leaving EXCEPT ![a] = Tail(@)]
        /\ \/ /\ windows' = shown /\ current' = None
              /\ animating' = FALSE /\ UNCHANGED appearing
           \/ next \notin ToSet(shown) \cup {None} /\ Appear(next, shown)
    BY <1>8 DEF TransitionOutCompletes
  <2>2. a = current /\ Len(leaving[a]) = 1 /\ shown = <<>> /\ appearing = {}
    BY <1>2, <2>1 DEF OneByOne
  <2>3. \A b \in Alerts : leaving'[b] = <<>>
    <3>1. leaving[a] \in Seq(BOOLEAN)
      BY <1>1
    <3>2. Tail(leaving[a]) \in Seq(BOOLEAN) /\ Len(Tail(leaving[a])) = 0
      <4>1. /\ Tail(leaving[a]) \in Seq(BOOLEAN)
            /\ Len(Tail(leaving[a])) = Len(leaving[a]) - 1
        BY <2>1, <3>1, HeadTailProperties
      <4> QED BY <2>2, <4>1
    <3>3. leaving'[a] = <<>>
      BY <1>1, <2>1, <3>2, EmptySeq
    <3> QED BY <1>1, <2>1, <2>2, <3>3 DEF OneByOne
  <2> HIDE DEF shown, next
  <2>4. CASE windows' = shown /\ current' = None /\ animating' = FALSE /\ UNCHANGED appearing
    BY <2>2, <2>3, <2>4 DEF OneByOne
  <2>5. CASE next \notin ToSet(shown) \cup {None} /\ Appear(next, shown)
    <3>1. next \in Alerts
      BY <2>5 DEF Appear, QueueInv, TypeOK
    <3> QED BY <1>4, <2>2, <2>3, <2>5, <3>1
  <2> QED BY <2>1, <2>4, <2>5
<1> QED BY <1>5, <1>6, <1>7, <1>8

\* As long as the user waits for alerts to have appeared they show one by one.
THEOREM PatientSeesOne == Spec => []OneByOneUnlessHurried
<1>1. Init => OneByOneUnlessHurried
  BY DEF Init, OneByOneUnlessHurried, OneByOne
<1>2. QueueInv /\ QueueInv' /\ OneByOneUnlessHurried /\ [Next]_vars => OneByOneUnlessHurried'
  <2> SUFFICES ASSUME QueueInv, QueueInv', OneByOneUnlessHurried, [Next]_vars, ~hurried'
               PROVE  OneByOne'
    BY DEF OneByOneUnlessHurried
  <2>1. CASE UNCHANGED vars
    BY <2>1 DEF vars, OneByOneUnlessHurried, OneByOne
  <2>2. CASE Next
    <3>1. ~hurried
      BY <2>2 DEF Next, Show, ButtonAction, TransitionInCompletes, TransitionOutCompletes
    <3> QED BY <2>2, <3>1, OneByOneStep DEF Next, OneByOneUnlessHurried
  <2> QED BY <2>1, <2>2
<1> QED BY <1>1, <1>2, QueueInvHolds, PTL DEF Spec

-----------------------------------------------------------------------------
\* A dismissal makes one more callback due, for an alert on screen.
LEMMA LeaveStops ==
    ASSUME TypeOK, NEW a \in Alerts, NEW cleanup \in BOOLEAN, Leave(a, cleanup)
    PROVE  /\ animating' = TRUE
           /\ Len(leaving'[a]) > 1 => leaving[a] # <<>>
           /\ \A b \in Alerts \ {a} : leaving'[b] = leaving[b]
<1>1. leaving[a] \in Seq(BOOLEAN) /\ leaving'[a] = Append(leaving[a], cleanup)
  BY LeaveEffect DEF TypeOK
<1>2. ASSUME leaving[a] = <<>> PROVE ~(Len(leaving'[a]) > 1)
  <2>1. Len(leaving[a]) = 0
    BY <1>2
  <2>2. Len(leaving'[a]) = 0 + 1
    BY <1>1, <2>1, AppendProperties
  <2> QED BY <2>2
<1> QED BY <1>2, LeaveEffect

\* An alert that has left makes room for one alert of the queue or none, for itself
\* only if it stays and is the last.
LEMMA TransitionOutEffect ==
    ASSUME QueueInv, NEW a \in Alerts, TransitionOutCompletes(a)
    PROVE  /\ leaving[a] # <<>> /\ (NoneStopped \/ Stopped(a))
           /\ answered' = answered
           /\ \A b \in Alerts \ {a} : leaving'[b] = leaving[b]
           /\ ToSet(queue) \ answered \subseteq ToSet(queue')
           /\ ToSet(queue') \subseteq ToSet(queue)
           /\ ToSet(queue) \ {a} \subseteq ToSet(queue')
           /\ a \in ToSet(queue') => queue' = queue
           /\ \/ /\ ToSet(windows') = ToSet(windows) \ {a}
                 /\ current' = None /\ appearing' = appearing
                 /\ a \in ToSet(queue') => a # Last(queue')
              \/ \E n \in ToSet(queue') :
                   /\ n \notin ToSet(windows) \ {a}
                   /\ ToSet(windows') = (ToSet(windows) \ {a}) \cup {n}
                   /\ current' = n /\ animating' = TRUE
                   /\ appearing' = appearing \cup {n}
                   /\ a \in ToSet(queue') => (a = Last(queue') <=> n = a)
<1> USE DEF QueueInv
<1> DEFINE shown == RemoveObject(windows, a)
           next  == IF a \in ToSet(queue) /\ a # Last(queue) THEN NextAlertView(a)
                    ELSE IF queue' # <<>> THEN Last(queue') ELSE None
<1>1. /\ leaving[a] # <<>> /\ leaving' = [leaving EXCEPT ![a] = Tail(@)]
      /\ NoneStopped \/ Stopped(a)
      /\ queue' = IF Head(leaving[a]) THEN RemoveObject(queue, a) ELSE queue
      /\ answered' = answered
  BY DEF TransitionOutCompletes
<1>2. \/ /\ next \in ToSet(shown) \cup {None} /\ windows' = shown
         /\ current' = None /\ UNCHANGED appearing
      \/ next \notin ToSet(shown) \cup {None} /\ Appear(next, shown)
  BY DEF TransitionOutCompletes
<1>3. Head(leaving[a]) \in BOOLEAN /\ \A b \in Alerts \ {a} : leaving'[b] = leaving[b]
  BY <1>1, TailEffect
<1>4. shown \in Seq(Alerts) /\ ToSet(shown) = ToSet(windows) \ {a}
  BY RemoveObjectRemoves DEF TypeOK
<1>5. /\ queue' \in Seq(Alerts)
      /\ ToSet(queue') = IF Head(leaving[a]) THEN ToSet(queue) \ {a} ELSE ToSet(queue)
  BY <1>1, RemoveObjectRemoves DEF TypeOK
<1>6. Head(leaving[a]) => a \in answered
  BY <1>1 DEF AnsweredLeaves
<1>7. ToSet(queue) \subseteq Alerts
  BY ToSetByIndex DEF TypeOK
<1>8. a \in ToSet(queue') => queue' = queue
  BY <1>1, <1>3, <1>5
<1>9. CASE a \in ToSet(queue) /\ a # Last(queue)
  <2>1. next \in ToSet(queue) \ {a}
    BY <1>9, NextIsQueued
  <2>2. next \in ToSet(queue') /\ next # a /\ next \in Alerts /\ next # None
    BY <1>5, <1>7, <2>1, AlertsAssumption
  <2>3. a \in ToSet(queue') => a # Last(queue')
    BY <1>8, <1>9
  <2> HIDE DEF next, shown
  <2>4. CASE next \in ToSet(shown) \cup {None} /\ windows' = shown
             /\ current' = None /\ UNCHANGED appearing
    BY <1>1, <1>3, <1>4, <1>5, <1>6, <1>8, <2>3, <2>4
  <2>5. CASE next \notin ToSet(shown) \cup {None} /\ Appear(next, shown)
    <3>1. ToSet(windows') = ToSet(shown) \cup {next}
      BY <1>4, <2>2, <2>5, AppendKeepsApart DEF Appear
    <3> QED
      BY <1>1, <1>3, <1>4, <1>5, <1>6, <1>8, <2>2, <2>3, <2>5, <3>1 DEF Appear
  <2> QED BY <1>2, <2>4, <2>5
<1>10. CASE ~(a \in ToSet(queue) /\ a # Last(queue))
  <2>1. a \in ToSet(queue') => a = Last(queue')
    BY <1>5, <1>8, <1>10
  <2>2. next = IF queue' # <<>> THEN Last(queue') ELSE None
    BY <1>10
  <2>3. queue' # <<>> => Last(queue') \in ToSet(queue')
    BY <1>5, ToSetByIndex
  <2>4. a \in ToSet(queue') => queue' # <<>>
    BY DEF ToSet
  <2>5. ToSet(queue') \subseteq Alerts
    BY <1>5, <1>7
  <2> HIDE DEF next, shown
  <2>6. CASE next \in ToSet(shown) \cup {None} /\ windows' = shown
             /\ current' = None /\ UNCHANGED appearing
    <3>1. a \notin ToSet(queue')
      BY <1>4, <2>1, <2>2, <2>4, <2>6, AlertsAssumption
    <3> QED BY <1>1, <1>3, <1>4, <1>5, <1>6, <1>8, <2>6, <3>1
  <2>7. CASE next \notin ToSet(shown) \cup {None} /\ Appear(next, shown)
    <3>1. next \in ToSet(queue') /\ next \in Alerts /\ next = Last(queue')
      BY <2>2, <2>3, <2>5, <2>7
    <3>2. ToSet(windows') = ToSet(shown) \cup {next}
      BY <1>4, <2>7, <3>1, AppendKeepsApart DEF Appear
    <3> QED
      BY <1>1, <1>3, <1>4, <1>5, <1>6, <1>8, <2>1, <2>7, <3>1, <3>2 DEF Appear
  <2> QED BY <1>2, <2>6, <2>7
<1> QED BY <1>9, <1>10

\* The alerts that a step makes visible, of which no callback is due.
AppearsAfresh == \A b \in Alerts : ~isVisible(b) /\ isVisible(b)' => ~Due(b)

\* A new alert has no callback due, and sends away only an alert that is quiet
\* while another's animations are stopped.
LEMMA ShowStops ==
    ASSUME QueueInv, OneStopped, NEW a \in Alerts, Show(a)
    PROVE  OneStopped' /\ AppearsAfresh
<1> USE DEF OneStopped, isVisible, Gone, Due, Stopped
<1>1. /\ a \notin ToSet(queue) /\ a \notin answered
      /\ queue' = Append(queue, a) /\ answered' = answered
  BY DEF Show
<1>2. ToSet(queue') = ToSet(queue) \cup {a} /\ Last(queue') = a
  BY <1>1, AppendKeepsApart DEF QueueInv, TypeOK
<1>3. ~Due(a)
  BY <1>1
<1>4. \A b \in Alerts : Gone(b) => b # Last(queue')
  BY <1>2, <1>3
<1>5. CASE UNCHANGED <<windows, current, animating, appearing, leaving>>
  BY <1>1, <1>2, <1>4, <1>5 DEF AppearsAfresh
<1>6. CASE /\ ~animating /\ isVisible(current) /\ Leave(current, FALSE)
           /\ UNCHANGED <<windows, current, appearing>>
  <2>1. current \in Alerts /\ current \in ToSet(queue)
    BY <1>6, ToSetByIndex DEF QueueInv, TypeOK, QueueIsInView
  <2>2. /\ animating' = TRUE
        /\ Len(leaving'[current]) > 1 => leaving[current] # <<>>
        /\ \A b \in Alerts \ {current} : leaving'[b] = leaving[b]
    BY <1>6, <2>1, LeaveStops DEF QueueInv
  <2>3. \A b \in Alerts \ {current} : Stopped(b)' => Gone(b) /\ Stopped(b)
    BY <1>6, <2>2
  <2>4. \A b \in Alerts : b = current /\ Stopped(b)' => leaving[b] # <<>>
    BY <1>6, <2>2
  <2>5. \A b \in Alerts : Gone(b)' => Gone(b) /\ b # current
    BY <1>6, <2>2
  <2>6. ASSUME NEW b \in Alerts, Gone(b) PROVE leaving[current] = <<>> /\ b \notin appearing
    BY <1>6, <2>6
  <2>7. \A x, y \in Alerts : Stopped(x)' /\ Stopped(y)' => x = y
    <3> SUFFICES ASSUME NEW x \in Alerts, NEW y \in Alerts, Stopped(x)', Stopped(y)', x # y
                 PROVE  FALSE
      OBVIOUS
    <3>1. CASE x # current /\ y # current
      BY <2>3, <3>1
    <3>2. CASE x = current
      BY <2>3, <2>4, <2>6, <3>2
    <3>3. CASE y = current
      BY <2>3, <2>4, <2>6, <3>3
    <3> QED BY <3>1, <3>2, <3>3
  <2>8. \A b \in Alerts : Due(b)' => b \in ToSet(queue') \cup answered'
    BY <1>1, <1>2, <1>6, <2>1, <2>2
  <2>9. \A b \in Alerts : Gone(b)' => b # Last(queue') /\ b \notin appearing'
    BY <1>4, <1>6, <2>5, <2>6
  <2> QED BY <1>6, <2>2, <2>7, <2>8, <2>9 DEF AppearsAfresh
<1>7. CASE Appear(a, windows) /\ UNCHANGED leaving
  <2>1. /\ windows' = Append(windows, a) /\ current' = a /\ animating' = TRUE
        /\ appearing' = appearing \cup {a} /\ leaving' = leaving
    BY <1>7 DEF Appear
  <2>2. ToSet(windows') = ToSet(windows) \cup {a}
    BY <2>1, AppendKeepsApart DEF QueueInv, TypeOK
  <2>3. leaving[a] = <<>> /\ ~(Len(leaving[a]) > 1)
    BY <1>3
  <2>4. \A b \in Alerts : Stopped(b)' => Stopped(b) /\ b # a
    BY <2>1, <2>2, <2>3
  <2>5. \A b \in Alerts : Gone(b)' => Gone(b)
    BY <2>1, <2>2
  <2> QED BY <1>1, <1>2, <1>3, <1>4, <2>1, <2>2, <2>3, <2>4, <2>5 DEF AppearsAfresh
<1> QED BY <1>5, <1>6, <1>7 DEF Show

\* A touch finds nothing stopped and stops nothing.
LEMMA ButtonActionStops ==
    ASSUME QueueInv, OneStopped, NEW a \in Alerts, ButtonAction(a)
    PROVE  OneStopped' /\ AppearsAfresh
<1> USE DEF OneStopped, isVisible, Gone, Due, Stopped
<1>1. /\ NoneStopped /\ windows # <<>> /\ a = Last(windows) /\ leaving[a] = <<>>
      /\ answered' = answered \cup {a} /\ Leave(a, TRUE)
      /\ UNCHANGED <<queue, windows, current, appearing>>
  BY DEF ButtonAction, Touchable
<1>2. a \in ToSet(windows)
  BY <1>1, ToSetByIndex DEF QueueInv, TypeOK
<1>3. /\ Len(leaving'[a]) > 1 => leaving[a] # <<>>
      /\ \A b \in Alerts \ {a} : leaving'[b] = leaving[b]
  BY <1>1, LeaveStops DEF QueueInv
<1>4. \A b \in Alerts : ~Stopped(b)'
  BY <1>1, <1>2, <1>3 DEF NoneStopped
<1>5. \A b \in Alerts : Due(b)' => b \in ToSet(queue') \cup answered'
  BY <1>1, <1>3
<1> QED BY <1>1, <1>4, <1>5 DEF AppearsAfresh

\* An appearing that ends stops at most its own alert's leaving.
LEMMA TransitionInStops ==
    ASSUME QueueInv, OneStopped, NEW a \in Alerts, TransitionInCompletes(a)
    PROVE  OneStopped' /\ AppearsAfresh
<1> USE DEF OneStopped, isVisible, Gone, Due, Stopped
<1>1. /\ a \in appearing /\ (NoneStopped \/ ~isVisible(a))
      /\ appearing' = appearing \ {a} /\ UNCHANGED <<queue, windows, answered>>
  BY DEF TransitionInCompletes
<1>2. CASE isVisible(a) /\ Leave(a, FALSE) /\ UNCHANGED current
  <2>1. /\ animating' = TRUE /\ \A b \in Alerts \ {a} : leaving'[b] = leaving[b]
    BY <1>2, LeaveStops DEF QueueInv
  <2>2. \A b \in Alerts \ {a} : ~Stopped(b)'
    BY <1>1, <1>2, <2>1 DEF NoneStopped
  <2>3. \A b \in Alerts : ~Gone(b)'
    BY <1>1, <1>2, <2>2
  <2>4. \A b \in Alerts : Due(b)' => b \in ToSet(queue') \cup answered'
    BY <1>1, <1>2, <2>1 DEF QueueInv, QueueIsInView
  <2> QED BY <1>1, <2>1, <2>2, <2>3, <2>4 DEF AppearsAfresh
<1>3. CASE ~isVisible(a) /\ current' = None /\ animating' = FALSE /\ UNCHANGED leaving
  <2>1. \A b \in Alerts : Stopped(b)' => b = a
    BY <1>1, <1>3
  <2>2. ~isVisible(None)'
    BY <1>1, ToSetByIndex, AlertsAssumption DEF QueueInv, TypeOK
  <2> QED BY <1>1, <1>3, <2>1, <2>2 DEF AppearsAfresh
<1>4. CASE animating' = FALSE /\ UNCHANGED <<current, leaving>>
  <2>1. \A b \in Alerts : Stopped(b)' => b = a /\ ~isVisible(a)
    BY <1>1, <1>4 DEF NoneStopped
  <2>2. ~isVisible(a) /\ isVisible(current) => leaving[current] = <<>>
    BY <1>1
  <2> QED BY <1>1, <1>4, <2>1, <2>2 DEF AppearsAfresh
<1> QED BY <1>2, <1>3, <1>4 DEF TransitionInCompletes

\* A leaving that ends may stop what its alert still had to come, and no more; the
\* alert that appears instead is not one that is gone.
LEMMA TransitionOutStops ==
    ASSUME QueueInv, OneStopped, QueueInv', NEW a \in Alerts, TransitionOutCompletes(a)
    PROVE  OneStopped' /\ AppearsAfresh
<1> USE DEF OneStopped, isVisible, Gone, Due, Stopped
<1>1. /\ leaving[a] # <<>> /\ (NoneStopped \/ Stopped(a))
      /\ answered' = answered
      /\ \A b \in Alerts \ {a} : leaving'[b] = leaving[b]
      /\ ToSet(queue) \ answered \subseteq ToSet(queue')
      /\ ToSet(queue') \subseteq ToSet(queue)
      /\ ToSet(queue) \ {a} \subseteq ToSet(queue')
      /\ a \in ToSet(queue') => queue' = queue
  BY TransitionOutEffect
<1>2. CASE /\ ToSet(windows') = ToSet(windows) \ {a}
           /\ current' = None /\ appearing' = appearing
           /\ a \in ToSet(queue') => a # Last(queue')
  <2>1. \A b \in Alerts : Stopped(b)' => b = a
    BY <1>1, <1>2 DEF NoneStopped
  <2>2. ~isVisible(None)'
    BY ToSetByIndex, AlertsAssumption DEF QueueInv, TypeOK
  <2>3. \A b \in Alerts : Due(b)' => b \in ToSet(queue') \cup answered'
    BY <1>1, <1>2
  <2> QED BY <1>2, <2>1, <2>2, <2>3 DEF AppearsAfresh
<1>3. ASSUME NEW n \in ToSet(queue'),
             /\ n \notin ToSet(windows) \ {a}
             /\ ToSet(windows') = (ToSet(windows) \ {a}) \cup {n}
             /\ current' = n /\ animating' = TRUE
             /\ appearing' = appearing \cup {n}
             /\ a \in ToSet(queue') => (a = Last(queue') <=> n = a)
      PROVE  OneStopped' /\ AppearsAfresh
  <2>1. n \in Alerts /\ n \in ToSet(queue)
    BY <1>1, <1>3, ToSetByIndex DEF QueueInv, TypeOK
  <2>2. ~isVisible(n) => ~Due(n)
    <3>1. CASE NoneStopped
      BY <2>1, <3>1 DEF NoneStopped
    <3>2. CASE Stopped(a) /\ n # a
      BY <2>1, <3>2
    <3>3. CASE n = a
      BY <1>1, <1>3, <2>1, <3>3
    <3> QED BY <1>1, <3>1, <3>2, <3>3
  <2>3. \A b \in Alerts : Stopped(b)' => b = a
    BY <1>1, <1>3, <2>1, <2>2 DEF NoneStopped
  <2>4. \A b \in Alerts : Due(b)' => b \in ToSet(queue') \cup answered'
    BY <1>1, <1>3
  <2>5. Gone(a)' => n # a /\ leaving'[n] = <<>>
    BY <1>1, <1>3, <2>1, <2>2
  <2>6. \A b \in Alerts : Gone(b)' => b = a
    BY <2>3
  <2>7. Gone(a)' /\ a \in ToSet(queue') => a # Last(queue')
    BY <1>3, <2>5
  <2> QED BY <1>3, <2>2, <2>3, <2>4, <2>5, <2>6, <2>7 DEF AppearsAfresh
<1> QED BY <1>2, <1>3, TransitionOutEffect

\* The whole invariant is inductive.
LEMMA IInvInit == Init => IInv
<1>1. Init => OneStopped
  BY DEF Init, OneStopped, Stopped, Gone, Due
<1> QED BY <1>1, QueueInvInit DEF IInv

\* Every step keeps it, and brings on screen only alerts that have come to rest.
LEMMA IInvStep == IInv /\ [Next]_vars => IInv' /\ [AppearsAfresh]_vars
<1> SUFFICES ASSUME IInv, [Next]_vars PROVE IInv' /\ [AppearsAfresh]_vars
  OBVIOUS
<1>1. QueueInv /\ OneStopped /\ QueueInv'
  BY QueueInvStep DEF IInv
<1>2. CASE UNCHANGED vars
  BY <1>1, <1>2 DEF vars, IInv, OneStopped, Stopped, Gone, Due, isVisible
<1> QED
  BY <1>1, <1>2, ShowStops, ButtonActionStops, TransitionInStops, TransitionOutStops
  DEF Next, IInv

\* The invariant of the queue: however alerts send one another away and buttons
\* are touched in haste, one alert at a time has stopped animations.
THEOREM QueueInductive == Spec => []IInv
BY IInvInit, IInvStep, PTL DEF Spec

\* An alert that shows again starts afresh, whatever was stopped before.
THEOREM ShownAfreshHolds == Spec => ShownAfresh
<1>1. IInv /\ [Next]_vars =>
        [\A a \in Alerts : ~isVisible(a) /\ isVisible(a)' =>
             a \notin appearing /\ leaving[a] = <<>>]_vars
  BY IInvStep DEF AppearsAfresh, Due
<1> QED BY <1>1, QueueInductive, PTL DEF Spec, ShownAfresh
=============================================================================
