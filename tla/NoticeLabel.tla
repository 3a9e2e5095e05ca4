---------------------------- MODULE NoticeLabel ----------------------------
(***************************************************************************)
(* The newest notice on the home page.                                     *)
(*                                                                         *)
(* Each time the home page finds a user logged in it asks the service for  *)
(* the newest notice, and the answer becomes the label's text, whichever   *)
(* query it belongs to.  A login that succeeds asks twice, as the page     *)
(* appears and as the login's delegate.  The service is external: it       *)
(* answers from the notices it has then, and answers come in any order.    *)
(***************************************************************************)
EXTENDS Integers

CONSTANTS
    Queries,     \* names for the queries out at once (bounds them)
    MaxNotices   \* bound on the notices posted
ASSUME NoticeAssumption == MaxNotices \in Nat

VARIABLES
    board,    \* notices the service has; they are numbered, the newest last
    phase,    \* of each query
    found,    \* its answer: a notice, or Nil
    label,    \* _noticeMessageLB: a notice, Nil for "(null)", or Blank
    askedAt,  \* history: board when it was asked
    alone     \* history: queries that met no other

query == <<phase, found>>
history == <<askedAt, alone>>
vars == <<board, query, label, history>>

Nil == 0
Blank == -1

Out == {q \in Queries : phase[q] # "idle"}
Idle == Queries \ Out

\* Slip: updatedAt ascending.
NewestAscending == IF board = 0 THEN Nil ELSE 1

\* The first object by updatedAt descending, or nil.
Newest == board

\* networkGetNewNoticeMessage, once for each of new.
Ask(new) ==
    /\ phase' = [q \in Queries |-> IF q \in new THEN "asked" ELSE phase[q]]
    /\ askedAt' = [q \in Queries |-> IF q \in new THEN board ELSE askedAt[q]]
    /\ alone' = IF Out = {} THEN {q \in new : new = {q}} ELSE {}
    /\ UNCHANGED <<board, found, label>>

-----------------------------------------------------------------------------
\* The home page before it first appears to a user.
Init ==
    /\ board \in 0..MaxNotices
    /\ phase = [q \in Queries |-> "idle"]
    /\ found = [q \in Queries |-> Nil]
    /\ label = Blank
    /\ askedAt = [q \in Queries |-> 0]
    /\ alone = {}

\* The home page appears, or a login succeeds after its page was closed.
Appear == \E q \in Idle : Ask({q})

\* A login succeeds: its page is popped, and the home page appears and is told.
LoggedIn == \E p, q \in Idle : p # q /\ Ask({p, q})

\* Somebody posts a notice.
Post ==
    /\ board < MaxNotices
    /\ board' = board + 1
    /\ UNCHANGED <<query, label, history>>

\* The service looks for the newest notice.
Serve(q) ==
    /\ phase[q] = "asked"
    /\ phase' = [phase EXCEPT ![q] = "answered"]
    /\ found' = [found EXCEPT ![q] = Newest]
    /\ UNCHANGED <<board, label, history>>

\* The query fails: its callback gets nil.
Fail(q) ==
    /\ phase[q] = "asked"
    /\ phase' = [phase EXCEPT ![q] = "answered"]
    /\ found' = [found EXCEPT ![q] = Nil]
    /\ UNCHANGED <<board, label, history>>

\* Slip: the label is filled once.
AnswerOnce(q) ==
    /\ phase[q] = "answered"
    /\ phase' = [phase EXCEPT ![q] = "idle"]
    /\ label' = IF label = Blank THEN found[q] ELSE label
    /\ UNCHANGED <<board, found, history>>

\* The callback: whatever the answer, it is the label's text.
Answer(q) ==
    /\ phase[q] = "answered"
    /\ phase' = [phase EXCEPT ![q] = "idle"]
    /\ label' = found[q]
    /\ UNCHANGED <<board, found, history>>

Next ==
    \/ Appear \/ LoggedIn \/ Post
    \/ \E q \in Queries : Serve(q) \/ Fail(q) \/ Answer(q)

Spec == Init /\ [][Next]_vars

\* The SDK calls every callback in the end, with an answer or an error.
FairSpec ==
    Spec /\ \A q \in Queries : WF_vars(Serve(q) \/ Fail(q)) /\ WF_vars(Answer(q))

-----------------------------------------------------------------------------
TypeOK ==
    /\ board \in 0..MaxNotices
    /\ phase \in [Queries -> {"idle", "asked", "answered"}]
    /\ found \in [Queries -> 0..MaxNotices]
    /\ label \in {Blank} \cup 0..MaxNotices
    /\ askedAt \in [Queries -> 0..MaxNotices]
    /\ alone \subseteq Queries

\* The invariant of the proofs: nothing shown or answered is ahead of the service,
\* what a lone query found was there when it was asked, and what it will replace
\* was answered before.
IInv ==
    /\ TypeOK
    /\ label <= board
    /\ \A q \in Queries :
        /\ found[q] <= board /\ askedAt[q] <= board
        /\ q \in alone /\ phase[q] # "idle" => label <= askedAt[q] /\ Out = {q}
        /\ q \in alone /\ phase[q] = "answered" /\ found[q] # Nil => askedAt[q] <= found[q]

\* A query that met no other never takes the label back to an older notice, and
\* shows one at least as new as the newest when the page appeared.
SoleQueryShowsNewest ==
    [][\A q \in Queries :
         Answer(q) /\ q \in alone /\ found[q] # Nil => label' >= label /\ label' >= askedAt[q]]_vars

\* The page that appears and asks alone shows the newest notice in the end, or that
\* it could not be had.
LabelCatchesUp ==
    \A q \in Queries : \A n \in 0..MaxNotices :
        (phase[q] = "asked" /\ askedAt[q] = n) ~> (label >= n \/ label = Nil \/ q \notin alone)
=============================================================================
