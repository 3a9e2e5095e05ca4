--------------------------- MODULE SequenceLemmas ---------------------------
(***************************************************************************)
(* Facts about sequences without duplicates that the proofs share: what    *)
(* they hold by position, and what appending and removing one element does *)
(* to them.                                                                *)
(***************************************************************************)
EXTENDS Naturals, Sequences, SequencesExt, SequenceTheorems, TLAPS

\* What a sequence holds, by position.
LEMMA ToSetByIndex ==
    ASSUME NEW S, NEW s \in Seq(S)
    PROVE  /\ ToSet(s) = {s[i] : i \in 1..Len(s)}
           /\ ToSet(s) \subseteq S
           /\ s # <<>> => Last(s) \in ToSet(s)
           /\ ToSet(s) = {} <=> s = <<>>
<1>1. Len(s) \in Nat /\ DOMAIN s = 1..Len(s) /\ \A i \in 1..Len(s) : s[i] \in S
  BY LenProperties
<1>2. s # <<>> => Len(s) > 0
  BY EmptySeq, <1>1
<1>3. ToSet(s) = {s[i] : i \in 1..Len(s)} /\ ToSet(s) \subseteq S
  BY <1>1 DEF ToSet
<1>4. ASSUME s # <<>> PROVE Last(s) \in ToSet(s)
  <2>1. Len(s) \in 1..Len(s)
    BY <1>1, <1>2, <1>4
  <2> QED BY <1>3, <2>1 DEF Last
<1>5. ASSUME s = <<>> PROVE ToSet(s) = {}
  <2>1. Len(s) = 0
    BY <1>5
  <2> QED BY <1>3, <2>1
<1> QED BY <1>3, <1>4, <1>5

\* Elements apart, by position.
LEMMA InjectiveByIndex ==
    ASSUME NEW S, NEW s \in Seq(S)
    PROVE  IsInjective(s) <=> \A i, j \in 1..Len(s) : s[i] = s[j] => i = j
<1>1. DOMAIN s = 1..Len(s)
  BY LenProperties
<1> QED BY <1>1 DEF IsInjective

\* Appending an element that is new keeps the elements apart.
LEMMA AppendKeepsApart ==
    ASSUME NEW S, NEW s \in Seq(S), NEW e \in S
    PROVE  /\ ToSet(Append(s, e)) = ToSet(s) \cup {e}
           /\ Append(s, e) \in Seq(S)
           /\ Append(s, e) # <<>>
           /\ Last(Append(s, e)) = e
           /\ IsInjective(s) /\ e \notin ToSet(s) => IsInjective(Append(s, e))
<1> DEFINE t == Append(s, e)
<1>1. /\ t \in Seq(S) /\ t # <<>> /\ Len(t) = Len(s) + 1 /\ t[Len(s) + 1] = e
      /\ \A i \in 1..Len(s) : t[i] = s[i]
  BY AppendProperties
<1>2. Len(s) \in Nat /\ DOMAIN s = 1..Len(s) /\ DOMAIN t = 1..(Len(s) + 1)
  BY <1>1, LenProperties
<1>3. ToSet(t) = ToSet(s) \cup {e}
  BY <1>1, <1>2 DEF ToSet
<1>4. IsInjective(s) /\ e \notin ToSet(s) => IsInjective(t)
  BY <1>1, <1>2 DEF ToSet, IsInjective
<1> QED BY <1>1, <1>3, <1>4 DEF Last

\* Removing the element at a position leaves the others in their order.
LEMMA RemoveAtRemoves ==
    ASSUME NEW S, NEW s \in Seq(S), IsInjective(s), NEW i \in 1..Len(s)
    PROVE  /\ RemoveAt(s, i) \in Seq(S) /\ Len(RemoveAt(s, i)) = Len(s) - 1
           /\ IsInjective(RemoveAt(s, i))
           /\ ToSet(RemoveAt(s, i)) = ToSet(s) \ {s[i]}
           /\ i # Len(s) => Last(RemoveAt(s, i)) = Last(s)
<1> DEFINE a == s[i]
           l == SubSeq(s, 1, i - 1)
           r == SubSeq(s, i + 1, Len(s))
           t == l \o r
<1>1. Len(s) \in Nat /\ DOMAIN s = 1..Len(s) /\ \A j \in 1..Len(s) : s[j] \in S
  BY LenProperties
<1>2. i \in 1..Len(s) /\ s[i] = a
  OBVIOUS
<1> HIDE DEF a
<1>3. l \in Seq(S) /\ Len(l) = i - 1 /\ \A j \in 1..(i - 1) : l[j] = s[j]
  <2>1. \A j \in 1..(i - 1) : s[j] \in S
    BY <1>1, <1>2
  <2>2. /\ SubSeq(s, 1, i - 1) \in Seq(S)
        /\ Len(SubSeq(s, 1, i - 1)) = IF 1 <= i - 1 THEN (i - 1) - 1 + 1 ELSE 0
        /\ \A j \in 1..((i - 1) - 1 + 1) : SubSeq(s, 1, i - 1)[j] = s[1 + j - 1]
    BY <1>2, <2>1, SubSeqProperties, i - 1 \in Int, 1 \in Int
  <2> QED BY <1>2, <2>2
<1>4. r \in Seq(S) /\ Len(r) = Len(s) - i /\ \A j \in 1..(Len(s) - i) : r[j] = s[i + j]
  <2>1. \A j \in (i + 1)..Len(s) : s[j] \in S
    BY <1>1, <1>2
  <2>2. /\ SubSeq(s, i + 1, Len(s)) \in Seq(S)
        /\ Len(SubSeq(s, i + 1, Len(s))) = IF i + 1 <= Len(s) THEN Len(s) - (i + 1) + 1 ELSE 0
        /\ \A j \in 1..(Len(s) - (i + 1) + 1) : SubSeq(s, i + 1, Len(s))[j] = s[(i + 1) + j - 1]
    BY <1>1, <1>2, <2>1, SubSeqProperties, i + 1 \in Int, Len(s) \in Int
  <2>3. Len(r) = Len(s) - i
    <3>1. i \in Nat /\ Len(s) \in Nat /\ i <= Len(s)
      BY <1>1, <1>2
    <3>2. Len(r) = IF i + 1 <= Len(s) THEN Len(s) - (i + 1) + 1 ELSE 0
      BY <2>2
    <3> QED BY <3>1, <3>2
  <2>4. ASSUME NEW j \in 1..(Len(s) - i) PROVE r[j] = s[i + j]
    <3>1. j \in 1..(Len(s) - (i + 1) + 1) /\ (i + 1) + j - 1 = i + j
      BY <1>1, <1>2
    <3> QED BY <2>2, <3>1
  <2> QED BY <2>2, <2>3, <2>4
<1> HIDE DEF l, r
<1>5. /\ t \in Seq(S) /\ Len(t) = Len(s) - 1
      /\ \A j \in 1..(Len(s) - 1) : t[j] = IF j <= i - 1 THEN s[j] ELSE s[j + 1]
  <2>1. /\ t \in Seq(S) /\ Len(t) = Len(l) + Len(r)
        /\ \A j \in 1..(Len(l) + Len(r)) :
             t[j] = IF j <= Len(l) THEN l[j] ELSE r[j - Len(l)]
    BY <1>3, <1>4, ConcatProperties
  <2>2. Len(l) + Len(r) = Len(s) - 1
    BY <1>1, <1>2, <1>3, <1>4
  <2>3. ASSUME NEW j \in 1..(Len(s) - 1)
        PROVE  t[j] = IF j <= i - 1 THEN s[j] ELSE s[j + 1]
    <3>1. CASE j <= i - 1
      BY <1>1, <1>2, <1>3, <2>1, <2>2, <3>1
    <3>2. CASE ~(j <= i - 1)
      <4>1. j - (i - 1) \in 1..(Len(s) - i) /\ i + (j - (i - 1)) = j + 1
        BY <1>1, <1>2, <3>2
      <4>2. t[j] = r[j - (i - 1)]
        BY <1>1, <1>2, <1>3, <2>1, <2>2, <3>2
      <4>3. r[j - (i - 1)] = s[j + 1]
        BY <1>4, <4>1
      <4> QED BY <3>2, <4>2, <4>3
    <3>3. j \in Int /\ i \in Int
      BY <1>1, <1>2
    <3> QED BY <3>1, <3>2, <3>3
  <2> QED BY <2>1, <2>2, <2>3
<1> HIDE DEF t
<1>6. DOMAIN t = 1..(Len(s) - 1)
  BY <1>5, LenProperties
<1>7. IsInjective(t)
  <2>1. \A j, k \in 1..Len(s) : s[j] = s[k] => j = k
    BY InjectiveByIndex
  <2>2. ASSUME NEW j \in 1..Len(t), NEW k \in 1..Len(t), t[j] = t[k] PROVE j = k
    <3> DEFINE from(n) == IF n <= i - 1 THEN n ELSE n + 1
    <3>1. from(j) \in 1..Len(s) /\ from(k) \in 1..Len(s)
      BY <1>1, <1>2, <1>5
    <3>2. t[j] = s[from(j)] /\ t[k] = s[from(k)]
      BY <1>5
    <3>3. from(j) = from(k)
      BY <2>1, <2>2, <3>1, <3>2
    <3> QED BY <1>1, <1>2, <1>5, <3>3
  <2> QED BY <1>5, <2>2, InjectiveByIndex
<1>8. ToSet(t) = ToSet(s) \ {a}
  <2>1. ToSet(t) \subseteq ToSet(s) \ {a}
    <3>1. \A j, k \in 1..Len(s) : s[j] = s[k] => j = k
      BY InjectiveByIndex
    <3>2. ASSUME NEW j \in 1..(Len(s) - 1) PROVE t[j] \in ToSet(s) \ {a}
      <4> DEFINE k == IF j <= i - 1 THEN j ELSE j + 1
      <4>1. k \in 1..Len(s) /\ k # i /\ t[j] = s[k]
        BY <1>1, <1>2, <1>5
      <4> QED BY <1>1, <1>2, <3>1, <4>1 DEF ToSet
    <3> QED BY <1>6, <3>2 DEF ToSet
  <2>2. ASSUME NEW b \in ToSet(s) \ {a} PROVE b \in ToSet(t)
    <3>1. PICK k \in 1..Len(s) : s[k] = b /\ k # i
      BY <1>1, <1>2 DEF ToSet
    <3>2. CASE k < i
      BY <1>1, <1>2, <1>5, <1>6, <3>1, <3>2 DEF ToSet
    <3>3. CASE k > i
      <4>1. k - 1 \in 1..(Len(s) - 1) /\ t[k - 1] = s[k]
        BY <1>1, <1>2, <1>5, <3>1, <3>3
      <4> QED BY <1>6, <3>1, <4>1 DEF ToSet
    <3> QED BY <1>1, <1>2, <3>1, <3>2, <3>3
  <2> QED BY <2>1, <2>2
<1>9. i # Len(s) => Last(t) = Last(s)
  BY <1>1, <1>2, <1>5 DEF Last
<1>10. RemoveAt(s, i) = t
  BY DEF RemoveAt, t, l, r
<1> QED BY <1>2, <1>5, <1>7, <1>8, <1>9, <1>10

\* A sequence is one of the values it holds, and so it is with one value more.
LEMMA SeqOfItsValues ==
    ASSUME NEW S, NEW s \in Seq(S), NEW e
    PROVE  /\ s \in Seq(ToSet(s))
           /\ Append(s, e) \in Seq(ToSet(Append(s, e)))
<1>1. ASSUME NEW T, NEW t \in Seq(T) PROVE t \in Seq(ToSet(t))
  <2>1. Len(t) \in Nat /\ DOMAIN t = 1..Len(t) /\ t = [i \in 1..Len(t) |-> t[i]]
    BY LenProperties
  <2>2. \A i \in 1..Len(t) : t[i] \in ToSet(t)
    BY <2>1 DEF ToSet
  <2>3. t \in [1..Len(t) -> ToSet(t)]
    BY <2>1, <2>2
  <2> QED BY <2>1, <2>3
<1>2. Append(s, e) \in Seq(S \cup {e})
  <2>1. Len(s) \in Nat /\ DOMAIN s = 1..Len(s) /\ s = [i \in 1..Len(s) |-> s[i]]
    BY LenProperties
  <2>2. s \in [1..Len(s) -> S \cup {e}]
    BY <2>1
  <2>3. s \in Seq(S \cup {e})
    BY <2>1, <2>2
  <2> QED BY <2>3, AppendProperties, e \in S \cup {e}
<1> QED BY <1>1, <1>2
=============================================================================
