-------------------------- MODULE TextFieldProofs --------------------------
(***************************************************************************)
(* Proofs about the two pages that work on what a user types: LoginForm,   *)
(* for edits of any length, and Payment, for any set of texts.             *)
(***************************************************************************)
EXTENDS LoginForm, Payment, TLAPS

\* The login form's properties are inductive together.
FormIInv == TypeOK /\ OneTextIsFine

\* A check that lets the button be tapped found both texts well-formed.
LEMMA Checked ==
    ASSUME TypeOK, Check
    PROVE  /\ enabled' \in BOOLEAN
           /\ enabled' => phone = PhoneLength /\ password >= PasswordMin
<1>1. WellFormed(phone, password) \in BOOLEAN
  BY DEF WellFormed
<1>2. enabled' = WellFormed(phone, password)
  BY DEF Check
<1>3. WellFormed(phone, password) => phone = PhoneLength /\ password >= PasswordMin
  BY DEF WellFormed, TypeOK, PhoneLength
<1> QED BY <1>1, <1>2, <1>3, Zenon

\* Whatever is typed, pasted, cut and cleared, the fields keep their limits and at
\* most one text behind a button that can be tapped is malformed.
THEOREM LoginFormInductive == Spec => []FormIInv
<1> USE DEF TypeOK, OneTextIsFine, PhoneLength, PasswordMin, PasswordMax
<1>1. Init => FormIInv
  <2> SUFFICES ASSUME Init PROVE FormIInv
    OBVIOUS
  <2>1. enabled \in BOOLEAN /\ ~enabled
    BY Zenon DEF Init
  <2>2. phone \in 0..PhoneLength /\ password \in 0..PasswordMax
    BY DEF Init
  <2> QED BY <2>1, <2>2, Zenon DEF FormIInv
<1>2. FormIInv /\ [Next]_vars => FormIInv'
  <2> SUFFICES ASSUME FormIInv, [Next]_vars PROVE FormIInv'
    OBVIOUS
  <2> USE DEF FormIInv
  <2>1. CASE Appear
    BY <2>1, Checked DEF Appear
  <2>2. CASE ClearPhone
    BY <2>2, Checked DEF ClearPhone
  <2>3. CASE ClearPassword
    BY <2>3, Checked DEF ClearPassword
  <2>4. ASSUME NEW k \in 0..Paste, NEW r \in 0..phone, EditPhone(r, k)
        PROVE  FormIInv'
    <3>1. CASE phone - r + k > PhoneLength
      BY <2>4, <3>1 DEF EditPhone
    <3>2. CASE ~(phone - r + k > PhoneLength)
      <4>1. phone - r + k \in 0..PhoneLength
        BY <3>2, PasteAssumption
      <4> QED BY <2>4, <3>2, <4>1, Checked DEF EditPhone
    <3> QED BY <3>1, <3>2
  <2>5. ASSUME NEW k \in 0..Paste, NEW r \in 0..password, EditPassword(r, k)
        PROVE  FormIInv'
    <3>1. CASE password - r + k > PasswordMax
      BY <2>5, <3>1 DEF EditPassword
    <3>2. CASE ~(password - r + k > PasswordMax)
      <4>1. password - r + k \in 0..PasswordMax
        BY <3>2, PasteAssumption
      <4> QED BY <2>5, <3>2, <4>1, Checked DEF EditPassword
    <3> QED BY <3>1, <3>2
  <2>6. CASE UNCHANGED vars
    BY <2>6 DEF vars
  <2> QED BY <2>1, <2>2, <2>3, <2>4, <2>5, <2>6 DEF Next
<1> QED BY <1>1, <1>2, PTL DEF Spec

\* textField:shouldChangeCharactersInRange:replacementString: keeps both texts
\* within the limits it cuts them to.
THEOREM LoginFormTypeCorrect == Spec => []TypeOK
<1>1. FormIInv => TypeOK
  BY DEF FormIInv
<1> QED BY <1>1, LoginFormInductive, PTL

\* checkTextFiledTextIsEmpty sees the texts as they were before an edit, and no edit
\* that is cut: still at most one text behind an enabled button is malformed.
THEOREM OneTextIsFineHolds == Spec => []OneTextIsFine
<1>1. FormIInv => OneTextIsFine
  BY DEF FormIInv
<1> QED BY <1>1, LoginFormInductive, PTL

-----------------------------------------------------------------------------
\* The numbers that TextsAssumption lets the user enter.
Number(n) == n \in Nat \ {0} /\ n \div 1000 < 2^24

Quotient(n) == n \div 1000

Remainder(n) == n % 1000

\* q and r are the quotient and the remainder of n by 1000.
Divided(n, q, r) == q \in Nat /\ r \in 0..999 /\ 1000 * q + r = n

\* Every natural number is divided by 1000 like this.
LEMMA ByThousand ==
    ASSUME NEW n \in Nat
    PROVE  Divided(n, Quotient(n), Remainder(n))
  BY SMT DEF Divided, Quotient, Remainder

\* A product is divided by dividing its factor h first, and what is left of it after.
LEMMA DividedTimes ==
    ASSUME NEW h \in Nat, NEW P \in Nat
    PROVE  LET w == Remainder(h) * P
           IN  Divided(h * P, Quotient(h) * P + Quotient(w), Remainder(w))
<1> DEFINE a == Quotient(h)
           c == Remainder(h)
           w == c * P
           b == Quotient(w)
           r == Remainder(w)
<1>1. Divided(h, a, c)
  BY ByThousand, Zenon
<1> HIDE DEF a, c
<1>2. w \in Nat
  BY <1>1, SMT DEF Divided
<1>3. h * P = 1000 * (a * P) + w /\ a * P \in Nat
  BY <1>1, SMT DEF Divided
<1> HIDE DEF w
<1>4. Divided(w, b, r)
  BY <1>2, ByThousand, Zenon
<1> HIDE DEF b, r
<1>5. Divided(h * P, a * P + b, r)
  BY <1>3, <1>4, SMT DEF Divided
<1> QED BY <1>5, Zenon DEF a, c, w, b, r

\* The exponent of the second factor in Scaled, and what makes its two powers one.
Half(e) == IF e < 20 THEN e ELSE 20

Halves(e) ==
    2^(e - Half(e)) \in Nat /\ 2^Half(e) \in Nat /\ 2^(e - Half(e)) * 2^Half(e) = 2^e

\* They do for every scale of this page.
LEMMA HalvesAre == \A e \in 0..33 : Halves(e)
<1>1. /\ Halves(0) /\ Halves(1) /\ Halves(2) /\ Halves(3) /\ Halves(4)
      /\ Halves(5) /\ Halves(6) /\ Halves(7) /\ Halves(8) /\ Halves(9)
      /\ Halves(10) /\ Halves(11) /\ Halves(12) /\ Halves(13) /\ Halves(14)
      /\ Halves(15) /\ Halves(16) /\ Halves(17) /\ Halves(18) /\ Halves(19)
      /\ Halves(20) /\ Halves(21) /\ Halves(22) /\ Halves(23) /\ Halves(24)
      /\ Halves(25) /\ Halves(26) /\ Halves(27) /\ Halves(28) /\ Halves(29)
      /\ Halves(30) /\ Halves(31) /\ Halves(32) /\ Halves(33)
  BY SMT DEF Halves, Half
<1> QED BY <1>1, SMT

\* Scaled divides n * 2^e by 1000 and never holds all of it.
LEMMA ScaledIs ==
    ASSUME NEW n \in Nat, NEW e \in 0..33
    PROVE  Divided(n * 2^e, Scaled(n, e).q, Scaled(n, e).r)
<1> DEFINE h == n * 2^(e - Half(e))
           P == 2^Half(e)
           w == Remainder(h) * P
           q == Quotient(h) * P + Quotient(w)
           r == Remainder(w)
<1>1. Halves(e)
  BY HalvesAre, Zenon
<1>2. Scaled(n, e) = [q |-> q, r |-> r]
  BY Zenon DEF Scaled, Half, Quotient, Remainder
<1>3. h \in Nat /\ P \in Nat /\ h * P = n * 2^e
  <2> DEFINE g == 2^(e - Half(e))
             t == 2^e
  <2>1. g \in Nat /\ P \in Nat /\ g * P = t
    BY <1>1, Zenon DEF Halves
  <2> HIDE DEF P, g, t
  <2>2. n * g \in Nat /\ (n * g) * P = n * t
    BY <2>1, SMT
  <2> QED BY <2>1, <2>2, Zenon DEF g, t
<1> HIDE DEF h, P
<1>4. Divided(h * P, q, r)
  BY <1>3, DividedTimes, Zenon
<1> HIDE DEF q, r
<1>5. Scaled(n, e).q = q /\ Scaled(n, e).r = r
  BY <1>2, SMT
<1> QED BY <1>3, <1>4, <1>5, Zenon

\* The scale at which a number fills the 24 bits of a float, the first of them 1.
Normal(n, e) == n * 2^e \in (1000 * 2^23)..(1000 * 2^24 - 1)

\* Every number the page takes has one.
LEMMA Normalized ==
    ASSUME NEW n, Number(n)
    PROVE  \E e \in 0..33 : Normal(n, e)
<1>1. \/ Normal(n, 0) \/ Normal(n, 1) \/ Normal(n, 2) \/ Normal(n, 3) \/ Normal(n, 4)
      \/ Normal(n, 5) \/ Normal(n, 6) \/ Normal(n, 7) \/ Normal(n, 8) \/ Normal(n, 9)
      \/ Normal(n, 10) \/ Normal(n, 11) \/ Normal(n, 12) \/ Normal(n, 13) \/ Normal(n, 14)
      \/ Normal(n, 15) \/ Normal(n, 16) \/ Normal(n, 17) \/ Normal(n, 18) \/ Normal(n, 19)
      \/ Normal(n, 20) \/ Normal(n, 21) \/ Normal(n, 22) \/ Normal(n, 23) \/ Normal(n, 24)
      \/ Normal(n, 25) \/ Normal(n, 26) \/ Normal(n, 27) \/ Normal(n, 28) \/ Normal(n, 29)
      \/ Normal(n, 30) \/ Normal(n, 31) \/ Normal(n, 32) \/ Normal(n, 33)
  BY SMT DEF Normal, Number
<1> QED BY <1>1, SMT

\* A scale of this page as a number: a divisor of 64, or a multiple of 128.
Unit(K) == K \in {1, 2, 4, 8, 16, 32, 64} \/ \E j \in Nat \ {0} : K = 128 * j

UnitAt(e) == Unit(2^e)

\* Every scale is one.
LEMMA Powers == \A e \in 0..33 : UnitAt(e)
<1>1. /\ UnitAt(0) /\ UnitAt(1) /\ UnitAt(2) /\ UnitAt(3) /\ UnitAt(4)
      /\ UnitAt(5) /\ UnitAt(6) /\ UnitAt(7) /\ UnitAt(8) /\ UnitAt(9)
      /\ UnitAt(10) /\ UnitAt(11) /\ UnitAt(12) /\ UnitAt(13) /\ UnitAt(14)
      /\ UnitAt(15) /\ UnitAt(16) /\ UnitAt(17) /\ UnitAt(18) /\ UnitAt(19)
      /\ UnitAt(20) /\ UnitAt(21) /\ UnitAt(22) /\ UnitAt(23) /\ UnitAt(24)
      /\ UnitAt(25) /\ UnitAt(26) /\ UnitAt(27) /\ UnitAt(28) /\ UnitAt(29)
      /\ UnitAt(30) /\ UnitAt(31) /\ UnitAt(32) /\ UnitAt(33)
  BY SMT DEF UnitAt, Unit
<1> QED BY <1>1, SMT

\* The 24 bits of a quotient.
FullFloat(q) == q \in 2^23..(2^24 - 1)

\* A quotient has them when its dividend is as large.
LEMMA FullQuotient ==
    ASSUME NEW k, NEW q, NEW r, Divided(k, q, r)
    PROVE  FullFloat(q) <=> k \in (1000 * 2^23)..(1000 * 2^24 - 1)
  BY SMT DEF Divided, FullFloat

\* m is the nearest integer to n / 1000 in units of 1 / K, and has the bits of a float.
FloatNear(n, K, m) ==
    /\ n * K \in (1000 * 2^23)..(1000 * 2^24 - 1) /\ m \in 2^23..2^24
    /\ 1000 * m <= n * K + 500 /\ 1000 * m >= n * K - 500

\* A rounded quotient is off by half a unit at most.
LEMMA NearestNear ==
    ASSUME NEW n, NEW K, NEW q, NEW r, Divided(n * K, q, r),
           n * K \in (1000 * 2^23)..(1000 * 2^24 - 1)
    PROVE  FloatNear(n, K, Nearest(q, r, 1000))
<1> DEFINE k == n * K
           m == Nearest(q, r, 1000)
<1>1. m = IF 2 * r > 1000 \/ (2 * r = 1000 /\ q % 2 = 1) THEN q + 1 ELSE q
  BY SMT DEF Nearest
<1> HIDE DEF k, m
<1>2. Divided(k, q, r) /\ k \in (1000 * 2^23)..(1000 * 2^24 - 1)
  BY SMT DEF k
<1>3. m \in 2^23..2^24 /\ 1000 * m <= k + 500 /\ 1000 * m >= k - 500
  BY <1>1, <1>2, SMT DEF Divided
<1> QED BY <1>2, <1>3, SMT DEF FloatNear, k, m

\* floatValue: the scale and the bits of a number's float, and its error.
LEMMA FloatOf ==
    ASSUME NEW n, Number(n)
    PROVE  LET f == FloatValue(n)
           IN  f.e \in 0..33 /\ Unit(2^f.e) /\ FloatNear(n, 2^f.e, f.m)
<1> DEFINE e == Scale(n)
           s == Scaled(n, e)
<1>1. n \in Nat
  BY SMT DEF Number
<1>2. \A i \in 0..33 : FullFloat(Scaled(n, i).q) <=> Normal(n, i)
  <2> TAKE i \in 0..33
  <2> DEFINE k == n * 2^i
             q == Scaled(n, i).q
             r == Scaled(n, i).r
  <2>1. Divided(k, q, r)
    BY <1>1, ScaledIs, Zenon
  <2> HIDE DEF k, q, r
  <2>2. FullFloat(q) <=> k \in (1000 * 2^23)..(1000 * 2^24 - 1)
    BY <2>1, FullQuotient, SMT
  <2> QED BY <2>2, SMT DEF Normal, k, q
<1>3. e \in 0..33 /\ Normal(n, e)
  <2>1. \E i \in 0..33 : FullFloat(Scaled(n, i).q)
    BY <1>2, Normalized, Zenon
  <2>2. e = CHOOSE i \in 0..33 : FullFloat(Scaled(n, i).q)
    BY Zenon DEF Scale, FullFloat
  <2>3. e \in 0..33 /\ FullFloat(Scaled(n, e).q)
    BY <2>1, <2>2, Zenon
  <2> QED BY <1>2, <2>3, Zenon
<1>4. Divided(n * 2^e, s.q, s.r)
  BY <1>1, <1>3, ScaledIs, Zenon
<1>5. FloatValue(n).e = e /\ FloatValue(n).m = Nearest(s.q, s.r, 1000)
  BY Zenon DEF FloatValue
<1> HIDE DEF e, s
<1> DEFINE K == 2^e
<1>6. n * K \in (1000 * 2^23)..(1000 * 2^24 - 1)
  BY <1>3, SMT DEF Normal
<1> HIDE DEF K
<1>7. FloatNear(n, K, Nearest(s.q, s.r, 1000))
  BY <1>4, <1>6, NearestNear, SMT DEF K
<1>8. Unit(K)
  BY <1>3, Powers, Zenon DEF UnitAt, K
<1> QED BY <1>3, <1>5, <1>7, <1>8, Zenon DEF K

\* p / K to the nearest whole number is off by half of K at most.
LEMMA RoundedNear ==
    ASSUME NEW p \in Nat, NEW K, Unit(K)
    PROVE  LET A == Rounded(p, K)
           IN  A \in Nat /\ 2 * (K * A) <= 2 * p + K /\ 2 * (K * A) >= 2 * p - K
<1> DEFINE q == p \div K
           r == p % K
<1>1. K \in Nat \ {0}
  BY SMT DEF Unit
<1>2. q \in Nat /\ r \in Nat /\ r < K /\ p = K * q + r
  BY <1>1, SMT
<1>3. \/ Rounded(p, K) = q /\ 2 * r <= K
      \/ Rounded(p, K) = q + 1 /\ 2 * r >= K
  <2> HIDE DEF q, r
  <2>1. Rounded(p, K) = IF 2 * r > K \/ (2 * r = K /\ q % 2 = 1) THEN q + 1 ELSE q
    BY Zenon DEF Rounded, Nearest, q, r
  <2> QED BY <1>1, <1>2, <2>1, SMT
<1> HIDE DEF q, r
<1>4. K * (q + 1) = K * q + K
  BY <1>1, <1>2, SMT
<1> QED BY <1>1, <1>2, <1>3, <1>4, SMT

\* A whole number of units is rounded and cut to itself.
LEMMA RoundedExact ==
    ASSUME NEW f \in Nat, NEW K, Unit(K)
    PROVE  Rounded(f * K, K) = f /\ (f * K) \div K = f
<1>0. K \in Nat \ {0}
  BY SMT DEF Unit
<1>1. (f * K) \div K = f /\ (f * K) % K = 0
  BY <1>0, SMT
<1> QED BY <1>0, <1>1, SMT DEF Rounded, Nearest

\* A hundred times m, in units of a scale that is fine enough, rounds to the whole
\* number of fen that m was rounded from.
LEMMA RoundedBack ==
    ASSUME NEW f \in Nat, NEW K \in Nat, K >= 128, NEW m \in Nat,
           100 * m <= f * K + 50, 100 * m >= f * K - 50
    PROVE  Rounded(100 * m, K) = f
<1>1. \/ (100 * m) \div K = f /\ 2 * ((100 * m) % K) < K
      \/ (100 * m) \div K = f - 1 /\ 2 * ((100 * m) % K) > K
  BY SMT
<1> QED BY <1>1, SMT DEF Rounded, Nearest

\* On a whole number of yuan the float is exact, whatever its scale.
LEMMA WholeYuanOf ==
    ASSUME NEW n \in Nat, n % 1000 = 0, NEW K, Unit(K), NEW m \in Nat, FloatNear(n, K, m)
    PROVE  \E y \in Nat : n = 1000 * y /\ m = y * K /\ n \div 10 = 100 * y
<1>0. K \in Nat \ {0}
  BY SMT DEF Unit
<1>1. PICK y \in Nat : n = 1000 * y
  BY SMT
<1> DEFINE x == y * K
<1>2. x \in Nat /\ n * K = 1000 * x
  BY <1>0, <1>1, SMT
<1> HIDE DEF x
<1>3. m = x
  BY <1>2, SMT DEF FloatNear
<1> QED BY <1>1, <1>3, SMT DEF x

\* %.2f of a text's doubleValue is the text to the nearest fen, one of them from the
\* middle, and the text itself if it has two decimals.
LEMMA DecimalsOfDouble ==
    ASSUME NEW n \in Nat
    PROVE  LET L == TwoDecimalsOfDouble(n)
           IN  /\ L \in Nat /\ 10 * L <= n + 5 /\ 10 * L >= n - 5
               /\ n % 10 = 0 => L = n \div 10
<1> DEFINE up == DoubleIsAbove(n \div 5, Scale(n))
           c == n % 125 # 0
           fen == n \div 10
           r == n % 10
<1>1. fen \in Nat /\ r \in 0..9 /\ n = 10 * fen + r
  BY SMT
<1>2. TwoDecimalsOfDouble(n) =
          IF r = 5 /\ c THEN IF up THEN fen + 1 ELSE fen
          ELSE IF 2 * r > 10 \/ (2 * r = 10 /\ fen % 2 = 1) THEN fen + 1 ELSE fen
  BY Zenon DEF TwoDecimalsOfDouble, Nearest
<1> HIDE DEF up, c, fen, r
<1>3. \/ TwoDecimalsOfDouble(n) = fen /\ r <= 5
      \/ TwoDecimalsOfDouble(n) = fen + 1 /\ r >= 5
  BY <1>1, <1>2, SMT
<1> QED BY <1>1, <1>3, SMT DEF fen, r

\* A of the float and L of the text are both nearest fen: they are one fen apart, and
\* the fen that the float itself is off.
LEMMA AlipayNear ==
    ASSUME NEW n \in Nat, NEW K, Unit(K), NEW m \in Nat, FloatNear(n, K, m),
           NEW A \in Nat, 2 * (K * A) <= 200 * m + K, 2 * (K * A) >= 200 * m - K,
           NEW L \in Nat, 10 * L <= n + 5, 10 * L >= n - 5
    PROVE  A \in (L - 1 - 50 \div K)..(L + 1 + 50 \div K)
<1>1. CASE K \in {1, 2, 4, 8, 16, 32, 64}
  BY <1>1, SMT DEF FloatNear
<1>2. CASE K >= 128 /\ K \in Nat
  <2>1. 50 \div K = 0
    BY <1>2, SMT
  <2>2. 10 * (K * L) <= n * K + 5 * K /\ 10 * (K * L) >= n * K - 5 * K
    BY <1>2, SMT
  <2>3. K * A <= K * L + K + 50 /\ K * A >= K * L - K - 50
    BY <1>2, <2>2, SMT DEF FloatNear
  <2>4. A < L + 2
    <3>1. K * (L + 2) = K * L + 2 * K
      BY <1>2, SMT
    <3> SUFFICES ASSUME A >= L + 2 PROVE FALSE
      BY SMT
    <3>2. K * A >= K * (L + 2)
      BY <1>2, SMT
    <3> QED BY <1>2, <2>3, <3>1, <3>2, SMT
  <2>5. L < A + 2
    <3>1. K * (A + 2) = K * A + 2 * K
      BY <1>2, SMT
    <3> SUFFICES ASSUME L >= A + 2 PROVE FALSE
      BY SMT
    <3>2. K * L >= K * (A + 2)
      BY <1>2, SMT
    <3> QED BY <1>2, <2>3, <3>1, <3>2, SMT
  <2> QED BY <2>1, <2>4, <2>5, SMT
<1> QED BY <1>1, <1>2, SMT DEF Unit

\* The units of a short CGFloat are units.
LEMMA UnitOfProduct == \A u \in {64, 128} : Unit(u)
<1>1. 128 = 128 * 1 /\ 1 \in Nat \ {0}
  BY SMT
<1> QED BY <1>1, SMT DEF Unit

\* A product keeps its value, or a unit of its short CGFloat is left to round it to.
LEMMA ProductNear ==
    ASSUME NEW m \in Nat, width \in {24, 53}
    PROVE  \/ width = 53 /\ Product(m) = 100 * m
           \/ width = 24 /\ \E u \in {64, 128} : Product(m) = u * Rounded(100 * m, u)
  BY SMT DEF Product

\* A product is a whole number either way.
LEMMA ProductType ==
    ASSUME NEW m \in Nat, width \in {24, 53}
    PROVE  Product(m) \in Nat
<1> DEFINE q == 100 * m
<1>1. q \in Nat
  BY SMT
<1>2. \/ Product(m) = q
      \/ Product(m) = 64 * Rounded(q, 64)
      \/ Product(m) = 128 * Rounded(q, 128)
  BY ProductNear, SMT
<1> HIDE DEF q
<1>3. Rounded(q, 64) \in Nat /\ Rounded(q, 128) \in Nat
  BY <1>1, SMT DEF Rounded, Nearest
<1> QED BY <1>1, <1>2, <1>3, SMT

\* A number within K of L * K is cut to L or one less.
LEMMA CutNear ==
    ASSUME NEW K \in Nat, K >= 128, NEW L \in Nat, NEW p \in Nat, NEW W \in Nat,
           K * W <= p, p < K * W + K, p < K * L + K, p > K * L - K
    PROVE  W \in {L - 1, L}
<1>1. K * (L + 1) = K * L + K /\ K * (W + 1) = K * W + K /\ K * (W + 2) = K * W + 2 * K
  BY SMT
<1>2. ASSUME W >= L + 1 PROVE FALSE
  <2>1. K * W >= K * (L + 1)
    BY <1>2, SMT
  <2> QED BY <1>1, <2>1, SMT
<1>3. ASSUME L >= W + 2 PROVE FALSE
  <2>1. K * L >= K * (W + 2)
    BY <1>3, SMT
  <2> QED BY <1>1, <2>1, SMT
<1> QED BY <1>2, <1>3, SMT

\* On 64-bit devices: the product of the float, cut, next to the label.
LEMMA WeChatNearDouble ==
    ASSUME NEW n \in Nat, NEW K, Unit(K), NEW m \in Nat, FloatNear(n, K, m),
           NEW L \in Nat, 10 * L <= n + 5, 10 * L >= n - 5,
           NEW W \in Nat, K * W <= 100 * m, 100 * m < K * W + K
    PROVE  W \in (L - 1 - 64 \div K)..(L + 64 \div K)
<1>1. CASE K \in {1, 2, 4, 8, 16, 32, 64}
  BY <1>1, SMT DEF FloatNear
<1>2. CASE K >= 128 /\ K \in Nat
  <2>1. 64 \div K \in Nat
    BY <1>2, SMT
  <2>2. 10 * (K * L) <= n * K + 5 * K /\ 10 * (K * L) >= n * K - 5 * K
    BY <1>2, SMT
  <2>3. 100 * m < K * L + K /\ 100 * m > K * L - K /\ 100 * m \in Nat
    BY <1>2, <2>2, SMT DEF FloatNear
  <2>4. W \in {L - 1, L}
    BY <1>2, <2>3, CutNear, SMT
  <2> QED BY <2>1, <2>4, SMT
<1> QED BY <1>1, <1>2, SMT DEF Unit

\* On 32-bit devices: the rounded product of the float, cut, next to the label.
LEMMA WeChatNearFloat ==
    ASSUME NEW K, Unit(K), NEW m \in Nat, NEW u \in {64, 128},
           NEW p \in Nat, p = u * Rounded(100 * m, u),
           NEW W \in Nat, K * W <= p, p < K * W + K
    PROVE  LET L == Rounded(100 * m, K)
           IN  W \in (L - 1 - 64 \div K)..(L + 64 \div K)
<1> DEFINE R == Rounded(100 * m, u)
           L == Rounded(100 * m, K)
           q == 100 * m
<1>0. q \in Nat /\ Unit(u)
  BY UnitOfProduct, SMT
<1>1. /\ R \in Nat /\ 2 * (u * R) <= 2 * q + u /\ 2 * (u * R) >= 2 * q - u
      /\ L \in Nat /\ 2 * (K * L) <= 2 * q + K /\ 2 * (K * L) >= 2 * q - K
  BY <1>0, RoundedNear, Zenon
<1>2. p = u * R /\ (u = K => R = L)
  BY Zenon
<1> HIDE DEF R, L, q
<1>3. CASE K = u
  <2>1. W = L
    BY <1>0, <1>1, <1>2, <1>3, SMT
  <2>2. 64 \div K \in Nat
    BY <1>3, SMT
  <2> QED BY <1>1, <2>1, <2>2, SMT DEF L
<1>4. CASE K \in {1, 2, 4, 8, 16, 32, 64} /\ K # u
  <2>1. W \in (L - 1 - 64 \div K)..(L + 64 \div K)
    BY <1>0, <1>1, <1>2, <1>4, SMT
  <2> QED BY <2>1, Zenon DEF L
<1>5. CASE K >= 128 /\ K # u /\ \E j \in Nat : K = 128 * j
  <2>1. 64 \div K \in Nat /\ K \in Nat
    BY <1>5, SMT
  <2>2. p < K * L + K /\ p > K * L - K
    <3>1. K > u
      BY <1>5, SMT
    <3> QED BY <1>0, <1>1, <1>2, <2>1, <3>1, SMT
  <2>3. W \in {L - 1, L}
    BY <1>1, <1>5, <2>1, <2>2, CutNear, SMT
  <2> QED BY <1>1, <2>1, <2>3, SMT DEF L
<1> QED BY <1>3, <1>4, <1>5, SMT DEF Unit

\* Both numbers of fen that %.2f makes, of the popup's float and for the label.
LEMMA AlipayOf ==
    ASSUME NEW n, Number(n), width \in {24, 53}
    PROVE  LET f == FloatValue(n)
               A == TwoDecimals(f)
               L == Shown(n)
               more == 50 \div 2^f.e
           IN  /\ A \in Nat /\ L \in Nat /\ A \in (L - 1 - more)..(L + 1 + more)
               /\ n % 1000 = 0 \/ (n % 10 = 0 /\ n < 1000 * 2^17) => A = L
<1> DEFINE f == FloatValue(n)
           K == 2^f.e
           m == f.m
           A == TwoDecimals(f)
           D == TwoDecimalsOfDouble(n)
           L == Shown(n)
<1>1. Unit(K) /\ FloatNear(n, K, m)
  BY FloatOf, Zenon
<1>2. A = Rounded(100 * m, K)
  BY Zenon DEF TwoDecimals
<1>3. /\ n \in Nat /\ D \in Nat /\ 10 * D <= n + 5 /\ 10 * D >= n - 5
      /\ n % 10 = 0 => D = n \div 10
  <2>1. n \in Nat
    BY SMT DEF Number
  <2> QED BY <2>1, DecimalsOfDouble, Zenon
<1>4. L = A \/ L = D
  BY Zenon DEF Shown
<1> HIDE DEF f, K, m, A, D, L
<1>5. m \in Nat /\ K \in Nat \ {0}
  BY <1>1, SMT DEF FloatNear, Unit
<1>6. A \in Nat /\ 2 * (K * A) <= 200 * m + K /\ 2 * (K * A) >= 200 * m - K
  <2> DEFINE p == 100 * m
  <2>1. p \in Nat /\ 2 * p = 200 * m
    BY <1>5, SMT
  <2> HIDE DEF p
  <2>2. A = Rounded(p, K)
    BY <1>2, Zenon DEF p
  <2>3. A \in Nat /\ 2 * (K * A) <= 2 * p + K /\ 2 * (K * A) >= 2 * p - K
    BY <1>1, <2>1, <2>2, RoundedNear, Zenon
  <2> QED BY <2>1, <2>3, SMT
<1>7. A \in (L - 1 - 50 \div K)..(L + 1 + 50 \div K)
  <2>1. A \in (D - 1 - 50 \div K)..(D + 1 + 50 \div K)
    BY <1>1, <1>3, <1>5, <1>6, AlipayNear, SMT
  <2>2. 50 \div K \in Nat
    BY <1>5, SMT
  <2> QED BY <1>4, <1>6, <2>1, <2>2, SMT
<1>8. ASSUME n % 1000 = 0 PROVE A = L
  <2>1. PICK y \in Nat : n = 1000 * y /\ m = y * K /\ n \div 10 = 100 * y
    BY <1>1, <1>3, <1>5, <1>8, WholeYuanOf, SMT
  <2> DEFINE z == 100 * y
             q == 100 * m
  <2>2. q = z * K /\ z \in Nat /\ n % 10 = 0
    BY <1>5, <2>1, SMT
  <2>3. D = z
    BY <1>3, <2>1, <2>2, SMT
  <2>4. A = Rounded(q, K)
    BY <1>2, Zenon
  <2> HIDE DEF z, q
  <2>5. A = z
    BY <1>1, <2>2, <2>4, RoundedExact, Zenon
  <2> QED BY <1>4, <2>3, <2>5, Zenon
<1>9. ASSUME n % 10 = 0, n < 1000 * 2^17 PROVE A = L
  <2> DEFINE fen == n \div 10
  <2>1. fen \in Nat /\ n = 10 * fen
    BY <1>3, <1>9, SMT
  <2> HIDE DEF fen
  <2>2. K >= 128
    BY <1>1, <1>3, <1>9, SMT DEF FloatNear, Unit
  <2>3. n * K = 10 * (fen * K)
    BY <1>5, <2>1, SMT
  <2>4. 100 * m <= fen * K + 50 /\ 100 * m >= fen * K - 50
    BY <1>1, <1>5, <2>1, <2>3, SMT DEF FloatNear
  <2>5. A = fen
    BY <1>2, <1>5, <2>1, <2>2, <2>4, RoundedBack, SMT
  <2>6. D = fen
    BY <1>3, <1>9, Zenon DEF fen
  <2> QED BY <1>4, <2>5, <2>6, Zenon
<1>10. L \in Nat
  BY <1>3, <1>4, <1>6, Zenon
<1> QED BY <1>6, <1>7, <1>8, <1>9, <1>10, SMT DEF A, L, K, f

\* The number of fen that WeChat is asked for, next to the label's.
LEMMA WeChatOf ==
    ASSUME NEW n, Number(n), width \in {24, 53}
    PROVE  LET f == FloatValue(n)
               W == Fen(f)
               L == Shown(n)
               more == 64 \div 2^f.e
           IN  /\ W \in Nat /\ W \in (L - 1 - more)..(L + more)
               /\ n % 1000 = 0 /\ (width = 53 \/ n < 1000 * 2^19) => W = L
<1> DEFINE f == FloatValue(n)
           K == 2^f.e
           m == f.m
           p == Product(m)
           W == Fen(f)
           D == TwoDecimalsOfDouble(n)
           A == TwoDecimals(f)
           L == Shown(n)
<1>1. Unit(K) /\ FloatNear(n, K, m)
  BY FloatOf, Zenon
<1>2. W = p \div K /\ A = Rounded(100 * m, K)
  BY Zenon DEF Fen, TwoDecimals
<1>3. /\ n \in Nat /\ D \in Nat /\ 10 * D <= n + 5 /\ 10 * D >= n - 5
      /\ n % 10 = 0 => D = n \div 10
  <2>1. n \in Nat
    BY SMT DEF Number
  <2> QED BY <2>1, DecimalsOfDouble, Zenon
<1>4. L = IF width = 24 THEN A ELSE D
  BY Zenon DEF Shown
<1>5. m \in Nat
  BY <1>1, SMT DEF FloatNear
<1>6. \/ width = 53 /\ p = 100 * m
      \/ width = 24 /\ \E u \in {64, 128} : p = u * Rounded(100 * m, u)
  BY <1>5, ProductNear, Zenon
<1> HIDE DEF f, K, m, p, W, D, A, L
<1>7. K \in Nat \ {0}
  BY <1>1, SMT DEF Unit
<1>8. W \in Nat /\ W \in (L - 1 - 64 \div K)..(L + 64 \div K)
  <2>1. CASE width = 53
    <3>1. p = 100 * m /\ L = D /\ p \in Nat
      BY <1>4, <1>5, <1>6, <2>1, SMT
    <3>2. W \in Nat /\ K * W <= p /\ p < K * W + K
      BY <1>2, <1>7, <3>1, SMT
    <3>3. W \in (D - 1 - 64 \div K)..(D + 64 \div K)
      BY <1>1, <1>3, <1>5, <3>1, <3>2, WeChatNearDouble, SMT
    <3> QED BY <3>1, <3>2, <3>3, Zenon
  <2>2. CASE width = 24
    <3>1. PICK u \in {64, 128} : p = u * Rounded(100 * m, u)
      BY <1>6, <2>2, SMT
    <3>2. p \in Nat
      BY <1>5, ProductType, Zenon DEF p
    <3>3. W \in Nat /\ K * W <= p /\ p < K * W + K
      BY <1>2, <1>7, <3>2, SMT
    <3> DEFINE R == Rounded(100 * m, K)
    <3>4. W \in (R - 1 - 64 \div K)..(R + 64 \div K)
      BY <1>1, <1>5, <3>1, <3>2, <3>3, WeChatNearFloat, SMT
    <3>5. L = R
      BY <1>2, <1>4, <2>2, Zenon
    <3> QED BY <3>3, <3>4, <3>5, Zenon
  <2> QED BY <1>6, <2>1, <2>2, Zenon
<1>9. ASSUME n % 1000 = 0, width = 53 \/ n < 1000 * 2^19 PROVE W = L
  <2>1. PICK y \in Nat : n = 1000 * y /\ m = y * K /\ n \div 10 = 100 * y
    BY <1>1, <1>3, <1>5, <1>9, WholeYuanOf, SMT
  <2> DEFINE z == 100 * y
             q == 100 * m
  <2>2. q = z * K /\ z \in Nat /\ n % 10 = 0
    BY <1>7, <2>1, SMT
  <2>3. p = 100 * m
    <3>1. CASE width = 53
      BY <1>6, <3>1, SMT
    <3>2. CASE width = 24
      <4>1. PICK u \in {64, 128} : p = u * Rounded(100 * m, u)
        BY <1>6, <3>2, SMT
      <4>2. Unit(u)
        BY UnitOfProduct, Zenon
      <4>3. PICK j \in Nat : K = 32 * j
        <5>1. K \notin {1, 2, 4, 8, 16}
          BY <1>1, <1>3, <1>9, <3>2, SMT DEF FloatNear
        <5>2. CASE K \in {32, 64}
          <6>1. (K = 32 * 1 \/ K = 32 * 2) /\ 1 \in Nat /\ 2 \in Nat
            BY <5>2, SMT
          <6> QED BY <6>1, Zenon
        <5>3. ASSUME NEW i \in Nat \ {0}, K = 128 * i
              PROVE  \E j \in Nat : K = 32 * j
          <6>1. K = 32 * (4 * i) /\ 4 * i \in Nat
            BY <5>3, SMT
          <6> QED BY <6>1, Zenon
        <5> QED BY <1>1, <5>1, <5>2, <5>3, SMT DEF Unit
      <4> DEFINE x == y * j
      <4>4. x \in Nat /\ 100 * m = 3200 * x
        BY <2>1, <4>3, SMT
      <4> HIDE DEF x
      <4> DEFINE v == IF u = 64 THEN 50 * x ELSE 25 * x
      <4>5. v \in Nat /\ 100 * m = v * u /\ v * u = u * v
        BY <4>4, SMT
      <4> HIDE DEF v
      <4>6. Rounded(v * u, u) = v /\ (v * u) \div u = v
        BY <4>2, <4>5, RoundedExact, SMT
      <4> QED BY <4>1, <4>5, <4>6, Zenon
    <3> QED BY <1>6, <3>1, <3>2, Zenon
  <2>4. D = z
    BY <1>3, <2>1, <2>2, SMT
  <2>5. W = p \div K /\ A = Rounded(q, K) /\ p = q
    BY <1>2, <2>3, Zenon
  <2> HIDE DEF z, q
  <2>6. W = z /\ A = z
    BY <1>1, <2>2, <2>5, RoundedExact, Zenon
  <2> QED BY <1>4, <2>4, <2>6, Zenon
<1>10. n % 1000 = 0 /\ (width = 53 \/ n < 1000 * 2^19) => W = L
  BY <1>9, SMT
<1> QED BY <1>8, <1>10, SMT DEF W, L, K, f

\* Every text is a number, and what is made of it is typed.
LEMMA TextType ==
    ASSUME NEW n \in Texts, width \in {24, 53}
    PROVE  /\ Number(n) /\ n > 0
           /\ FloatValue(n).m \in 2^23..2^24 /\ FloatValue(n).e \in 0..33
           /\ Shown(n) \in Nat /\ TwoDecimals(FloatValue(n)) \in Nat
           /\ Fen(FloatValue(n)) \in Nat
<1>1. Number(n)
  BY TextsAssumption, SMT DEF Number
<1>2. n > 0
  BY <1>1, SMT DEF Number
<1>3. FloatValue(n).e \in 0..33 /\ FloatNear(n, 2^FloatValue(n).e, FloatValue(n).m)
  BY <1>1, FloatOf, Zenon
<1>4. FloatValue(n).m \in 2^23..2^24
  BY <1>3, SMT DEF FloatNear
<1>5. Shown(n) \in Nat /\ TwoDecimals(FloatValue(n)) \in Nat
  BY <1>1, AlipayOf, SMT
<1>6. Fen(FloatValue(n)) \in Nat
  BY <1>1, WeChatOf, SMT
<1> QED BY <1>1, <1>2, <1>3, <1>4, <1>5, <1>6, Zenon

\* The page opens without text, popup and order.
LEMMA PayIInvInit == PayInit => PayIInv
<1> SUFFICES ASSUME PayInit PROVE PayIInv
  OBVIOUS
<1>1. order.app = "none" /\ order.fen = 0 /\ popup = Closed
  BY SMT DEF PayInit, NoOrder
<1>2. PayTypeOK
  BY <1>1, SMT DEF PayInit, PayTypeOK
<1> QED BY <1>1, <1>2, SMT DEF PayInit, PayIInv

\* Every edit, tap and choice keeps the invariant.
LEMMA PayIInvStep == PayIInv /\ [PayNext]_payVars => PayIInv'
<1> SUFFICES ASSUME PayIInv, [PayNext]_payVars PROVE PayIInv'
  OBVIOUS
<1>0. /\ PayTypeOK /\ width \in {24, 53} /\ text \in Texts \cup {0}
      /\ label = IF text = 0 THEN 0 ELSE Shown(text)
      /\ popup # Closed => text > 0 /\ popup = FloatValue(text)
      /\ order.app = "alipay" => popup # Closed /\ order.fen = TwoDecimals(popup)
      /\ order.app = "weixin" => popup # Closed /\ order.fen = Fen(popup)
  BY Zenon DEF PayIInv, PayTypeOK
<1>1. ASSUME NEW n \in Texts, Edit(n) PROVE PayIInv'
  <2>1. /\ popup = Closed /\ text' = n /\ label' = Shown(n)
        /\ width' = width /\ popup' = popup /\ order' = order
    BY <1>1, Zenon DEF Edit
  <2>2. label' \in Nat /\ n # 0
    BY <1>0, <2>1, TextType, SMT
  <2>3. PayTypeOK'
    BY <1>0, <2>1, <2>2, Zenon DEF PayTypeOK
  <2>4. label' = IF text' = 0 THEN 0 ELSE Shown(text)'
    BY <2>1, <2>2, Zenon DEF Shown
  <2> QED BY <1>0, <2>1, <2>3, <2>4, Zenon DEF PayIInv
<1>2. CASE Clear
  <2>1. /\ popup = Closed /\ text' = 0 /\ label' = 0 /\ 0 \in Nat
        /\ width' = width /\ popup' = popup /\ order' = order
    BY <1>2, SMT DEF Clear
  <2>2. PayTypeOK'
    BY <1>0, <2>1, Zenon DEF PayTypeOK
  <2> QED BY <1>0, <2>1, <2>2, Zenon DEF PayIInv
<1>3. CASE TapPay
  <2>1. /\ popup = Closed /\ text > 0 /\ popup' = FloatValue(text)
        /\ width' = width /\ text' = text /\ label' = label /\ order' = order
    BY <1>3, Zenon DEF TapPay
  <2>2. text \in Texts
    BY <1>0, <2>1, SMT
  <2>3. PayTypeOK'
    BY <1>0, <2>1, <2>2, TextType, Zenon DEF PayTypeOK
  <2>4. Shown(text)' = Shown(text)
    BY <2>1, Zenon DEF Shown
  <2> QED BY <1>0, <2>1, <2>3, <2>4, Zenon DEF PayIInv
<1>4. CASE ChooseAliPay
  <2>1. /\ popup # Closed /\ order' = [app |-> "alipay", fen |-> TwoDecimals(popup)]
        /\ width' = width /\ text' = text /\ label' = label /\ popup' = popup
    BY <1>4, Zenon DEF ChooseAliPay
  <2>2. order'.app = "alipay" /\ order'.fen = TwoDecimals(popup) /\ "alipay" # "weixin"
    BY <2>1, SMT
  <2>3. text \in Texts
    BY <1>0, <2>1, SMT
  <2>4. PayTypeOK'
    BY <1>0, <2>1, <2>2, <2>3, TextType, Zenon DEF PayTypeOK
  <2>5. Shown(text)' = Shown(text)
    BY <2>1, Zenon DEF Shown
  <2> QED BY <1>0, <2>1, <2>2, <2>4, <2>5, Zenon DEF PayIInv
<1>5. CASE ChooseWeiXin
  <2>1. /\ popup # Closed /\ order' = [app |-> "weixin", fen |-> Fen(popup)]
        /\ width' = width /\ text' = text /\ label' = label /\ popup' = popup
    BY <1>5, Zenon DEF ChooseWeiXin
  <2>2. order'.app = "weixin" /\ order'.fen = Fen(popup) /\ "weixin" # "alipay"
    BY <2>1, SMT
  <2>3. text \in Texts
    BY <1>0, <2>1, SMT
  <2>4. PayTypeOK'
    BY <1>0, <2>1, <2>2, <2>3, TextType, Zenon DEF PayTypeOK
  <2>5. Shown(text)' = Shown(text) /\ Fen(popup)' = Fen(popup)
    BY <2>1, Zenon DEF Shown, Fen, Product
  <2> QED BY <1>0, <2>1, <2>2, <2>4, <2>5, Zenon DEF PayIInv
<1>6. CASE Dismiss
  <2>1. /\ popup' = Closed /\ order' = NoOrder
        /\ width' = width /\ text' = text /\ label' = label
    BY <1>6, Zenon DEF Dismiss
  <2>2. /\ order'.app = "none" /\ order'.fen = 0 /\ 0 \in Nat
        /\ "none" # "alipay" /\ "none" # "weixin"
    BY <2>1, SMT DEF NoOrder
  <2>3. PayTypeOK'
    BY <1>0, <2>1, <2>2, Zenon DEF PayTypeOK
  <2>4. Shown(text)' = Shown(text)
    BY <2>1, Zenon DEF Shown
  <2> QED BY <1>0, <2>1, <2>2, <2>3, <2>4, Zenon DEF PayIInv
<1>7. CASE UNCHANGED payVars
  <2>1. /\ width' = width /\ text' = text /\ label' = label
        /\ popup' = popup /\ order' = order
    BY <1>7, Zenon DEF payVars
  <2>2. PayTypeOK'
    BY <1>0, <2>1, Zenon DEF PayTypeOK
  <2>3. Shown(text)' = Shown(text) /\ Fen(popup)' = Fen(popup)
    BY <2>1, Zenon DEF Shown, Fen, Product
  <2> QED BY <1>0, <2>1, <2>2, <2>3, Zenon DEF PayIInv
<1> QED BY <1>1, <1>2, <1>3, <1>4, <1>5, <1>6, <1>7, Zenon DEF PayNext

\* PayViewController's label is that of the text in its field, whatever was typed,
\* cleared and dismissed, the popup holds the text's float, and an order was made of it.
THEOREM PaymentInductive == PaySpec => []PayIInv
BY PayIInvInit, PayIInvStep, PTL DEF PaySpec

\* The float of every text has the 24 bits of a float, and every order is an amount.
THEOREM PaymentTypeCorrect == PaySpec => []PayTypeOK
<1>1. PayIInv => PayTypeOK
  BY Zenon DEF PayIInv
<1> QED BY <1>1, PaymentInductive, PTL

\* zhifubaoOrderNO: makes the order of the popup's float, the page its label of the
\* text: for every text of three decimals below 2^24 yuan they are this close.
THEOREM AlipayAsksNearlyWhatIsShownHolds == PaySpec => []AlipayAsksNearlyWhatIsShown
<1>1. PayIInv => AlipayAsksNearlyWhatIsShown
  <2> SUFFICES ASSUME PayIInv PROVE AlipayAsksNearlyWhatIsShown
    OBVIOUS
  <2>1. CASE order.app = "alipay"
    <3>1. /\ text \in Texts \cup {0} /\ text > 0 /\ width \in {24, 53}
          /\ label = IF text = 0 THEN 0 ELSE Shown(text)
          /\ popup = FloatValue(text) /\ order.fen = TwoDecimals(popup)
      BY <2>1, Zenon DEF PayIInv, PayTypeOK
    <3>2. text \in Texts /\ label = Shown(text)
      BY <3>1, SMT
    <3>3. Number(text)
      BY <3>1, <3>2, TextType, Zenon
    <3> QED BY <3>1, <3>2, <3>3, AlipayOf, SMT
              DEF AlipayAsksNearlyWhatIsShown, WholeFen, WholeYuan
  <2> QED BY <2>1, Zenon DEF AlipayAsksNearlyWhatIsShown
<1> QED BY <1>1, PaymentInductive, PTL

\* chooseWeiXinType cuts off the fraction of a product that may lie just below its
\* number of fen: for every text of three decimals below 2^24 yuan one fen is lost at
\* most, but for the float's own error, and none of whole yuan that keep their bits.
THEOREM WeChatAsksNearlyWhatIsShownHolds == PaySpec => []WeChatAsksNearlyWhatIsShown
<1>1. PayIInv => WeChatAsksNearlyWhatIsShown
  <2> SUFFICES ASSUME PayIInv PROVE WeChatAsksNearlyWhatIsShown
    OBVIOUS
  <2>1. CASE order.app = "weixin"
    <3>1. /\ text \in Texts \cup {0} /\ text > 0 /\ width \in {24, 53}
          /\ label = IF text = 0 THEN 0 ELSE Shown(text)
          /\ popup = FloatValue(text) /\ order.fen = Fen(popup)
      BY <2>1, Zenon DEF PayIInv, PayTypeOK
    <3>2. text \in Texts /\ label = Shown(text)
      BY <3>1, SMT
    <3>3. Number(text)
      BY <3>1, <3>2, TextType, Zenon
    <3> QED BY <3>1, <3>2, <3>3, WeChatOf, SMT
              DEF WeChatAsksNearlyWhatIsShown, WholeYuan
  <2> QED BY <2>1, Zenon DEF WeChatAsksNearlyWhatIsShown
<1> QED BY <1>1, PaymentInductive, PTL
=============================================================================
