------------------------- MODULE NoticeLabelProofs -------------------------
(***************************************************************************)
(* Proofs about NoticeLabel, for any number of queries and notices.        *)
(***************************************************************************)
EXTENDS NoticeLabel, TLAPS

LEMMA IInvInit == Init => IInv
  BY NoticeAssumption DEF Init, IInv, TypeOK, Nil, Blank, Out

\* A query that starts alone, or that makes all others less than alone.
LEMMA AskKeeps ==
    ASSUME IInv, NEW new \in SUBSET Idle, Ask(new)
    PROVE  IInv'
<1>1. TypeOK'
  BY DEF IInv, TypeOK, Ask, Idle
<1>2. label' <= board'
  BY DEF IInv, Ask
<1>3. ASSUME NEW q \in Queries PROVE found'[q] <= board' /\ askedAt'[q] <= board'
  BY <1>3, NoticeAssumption DEF IInv, TypeOK, Ask
<1>4. ASSUME NEW q \in alone'
      PROVE  q \in Queries /\ phase'[q] = "asked" /\ label' <= askedAt'[q] /\ Out' = {q}
  <2>1. Out = {} /\ q \in new /\ new = {q}
    BY <1>4 DEF Ask
  <2> QED BY <2>1 DEF IInv, TypeOK, Ask, Out, Idle
<1> QED BY <1>1, <1>2, <1>3, <1>4 DEF IInv

LEMMA IInvStep == IInv /\ [Next]_vars => IInv'
<1> SUFFICES ASSUME IInv, [Next]_vars PROVE IInv'
  OBVIOUS
<1> USE NoticeAssumption DEF IInv, TypeOK, query, history, Nil, Blank
<1>1. CASE Appear
  <2>1. PICK q \in Idle : Ask({q})
    BY <1>1 DEF Appear
  <2> QED BY ONLY IInv, <2>1, AskKeeps
<1>2. CASE LoggedIn
  <2>1. PICK p \in Idle, q \in Idle : Ask({p, q})
    BY <1>2 DEF LoggedIn
  <2>2. {p, q} \in SUBSET Idle
    OBVIOUS
  <2> QED BY ONLY IInv, <2>1, <2>2, AskKeeps
<1>3. CASE Post
  BY <1>3 DEF Post, Out
<1>4. ASSUME NEW q \in Queries, Serve(q) PROVE IInv'
  <2>1. TypeOK' /\ label' <= board'
    BY <1>4 DEF Serve, Newest
  <2>2. Out' = Out
    BY <1>4 DEF Serve, Out
  <2>3. ASSUME NEW r \in Queries, r # q
        PROVE  phase'[r] = phase[r] /\ found'[r] = found[r]
    BY <1>4, <2>3 DEF Serve
  <2>4. phase[q] = "asked" /\ phase'[q] = "answered" /\ found'[q] = board
    BY <1>4 DEF Serve, Newest
  <2> QED BY <1>4, <2>1, <2>2, <2>3, <2>4 DEF Serve
<1>5. ASSUME NEW q \in Queries, Fail(q) PROVE IInv'
  <2>1. TypeOK' /\ label' <= board'
    BY <1>5 DEF Fail
  <2>2. Out' = Out
    BY <1>5 DEF Fail, Out
  <2>3. ASSUME NEW r \in Queries, r # q
        PROVE  phase'[r] = phase[r] /\ found'[r] = found[r]
    BY <1>5, <2>3 DEF Fail
  <2>4. phase[q] = "asked" /\ phase'[q] = "answered" /\ found'[q] = Nil
    BY <1>5 DEF Fail
  <2> QED BY <1>5, <2>1, <2>2, <2>3, <2>4 DEF Fail
<1>6. ASSUME NEW q \in Queries, Answer(q) PROVE IInv'
  <2>1. TypeOK' /\ label' <= board'
    BY <1>6 DEF Answer
  <2>2. ASSUME NEW r \in Queries, r \in alone, phase'[r] # "idle" PROVE FALSE
    <3>1. r # q /\ phase[r] # "idle"
      BY <1>6, <2>2 DEF Answer
    <3>2. Out = {r} /\ q \in Out
      BY <1>6, <2>2, <3>1 DEF Answer, Out
    <3> QED BY <3>1, <3>2
  <2> QED BY <1>6, <2>1, <2>2 DEF Answer
<1>7. CASE UNCHANGED vars
  BY <1>7 DEF vars, Out
<1> QED BY <1>1, <1>2, <1>3, <1>4, <1>5, <1>6, <1>7 DEF Next

\* What the label shows was on the service, and a query that meets no other finds
\* and replaces what it should.
THEOREM NoticeLabelIsSafe == Spec => []IInv
  BY IInvInit, IInvStep, PTL DEF Spec

\* A query that meets no other never takes the label back, whatever is posted and
\* whatever fails.
THEOREM SoleQueryShowsNewestHolds == Spec => SoleQueryShowsNewest
<1>1. IInv /\ [Next]_vars =>
        [\A q \in Queries :
           Answer(q) /\ q \in alone /\ found[q] # Nil =>
             label' >= label /\ label' >= askedAt[q]]_vars
  BY NoticeAssumption DEF IInv, TypeOK, Answer, Blank
<1> QED BY <1>1, IInvInit, IInvStep, PTL DEF Spec, SoleQueryShowsNewest
=============================================================================
