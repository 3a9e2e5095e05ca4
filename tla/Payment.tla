------------------------------ MODULE Payment ------------------------------
(***************************************************************************)
(* The payment page: a text from the field to its label, to the popup and  *)
(* to the payment app that is opened.                                      *)
(*                                                                         *)
(* The field takes any text.  Its number is in mils, thousandths of a      *)
(* yuan: enough for texts below, at and above the half fen at which two    *)
(* decimals turn.  The label and the orders are in fen.  Inside, an amount *)
(* is a binary fraction m / 2^e: the popup is given the text's floatValue, *)
(* which has 24 bits, in a CGFloat, which has 53 bits on 64-bit devices    *)
(* and 24 on 32-bit ones.                                                  *)
(***************************************************************************)
EXTENDS Integers

CONSTANT Texts  \* numbers the user may enter, in mils (bounds the texts)

\* Below the size at which a float skips whole yuan.
ASSUME TextsAssumption == \A n \in Texts : n \in Nat \ {0} /\ n \div 1000 < 2^24

VARIABLES
    width,   \* bits of a CGFloat: those of the device
    text,    \* number in _moneyTextField; 0 if it has none above zero
    label,   \* amount in _showMoneyLB
    popup,   \* _payAmount of the popup; m = 0 if there is none
    order    \* the last order made from the popup, or NoOrder

payVars == <<width, text, label, popup, order>>

Closed == [m |-> 0, e |-> 0]
NoOrder == [app |-> "none", fen |-> 0]

\* q and r / d to the nearest integer, to the even one from the middle.
Nearest(q, r, d) == IF 2 * r > d \/ (2 * r = d /\ q % 2 = 1) THEN q + 1 ELSE q

Rounded(n, d) == Nearest(n \div d, n % d, d)

\* n * 2^e over 1000, the power in two factors to stay within 32 bits.
Scaled(n, e) ==
    LET b == IF e < 20 THEN e ELSE 20
        h == n * 2^(e - b)
        w == (h % 1000) * 2^b
    IN  [q |-> (h \div 1000) * 2^b + w \div 1000, r |-> w % 1000]

\* The scale at which the number has 24 bits, the first of them 1.
Scale(n) == CHOOSE e \in 0..33 : Scaled(n, e).q \in 2^23..(2^24 - 1)

\* Slip: the bits are cut where they should be rounded.
FloatValueCut(n) == [m |-> Scaled(n, Scale(n)).q, e |-> Scale(n)]

\* floatValue of a text.
FloatValue(n) ==
    LET s == Scaled(n, Scale(n))
    IN  [m |-> Nearest(s.q, s.r, 1000), e |-> Scale(n)]

\* The amount f with two decimals, in fen: %.2f.
TwoDecimals(f) == Rounded(100 * f.m, 2^f.e)

\* Whether the doubleValue of k half fen, odd and no binary fraction, lies above
\* them: k * 2^(e + 29) / 200 is rounded, a fraction of 25 once it is reduced.
\* Powers of 2 repeat after 20 modulo 25.
DoubleIsAbove(k, e) == ((k % 25) * (2^((e + 26) % 20) % 25)) % 25 > 12

\* The doubleValue of a text with two decimals.  A double is too near to its text
\* to change anything but a middle.
TwoDecimalsOfDouble(n) ==
    LET fen == n \div 10
    IN  IF n % 10 = 5 /\ n % 125 # 0
        THEN IF DoubleIsAbove(n \div 5, Scale(n)) THEN fen + 1 ELSE fen
        ELSE Nearest(fen, n % 10, 10)

\* 100 * m as a CGFloat holds it.
Product(m) ==
    LET s == IF 100 * m < 2^30 THEN 6 ELSE 7
    IN  IF width = 24 THEN 2^s * Rounded(100 * m, 2^s) ELSE 100 * m

\* Slip: the product is rounded up.
FenRoundedUp(f) == -((-Product(f.m)) \div 2^f.e)

\* _payAmount * 100 as an NSInteger: its fraction is dropped.
Fen(f) == Product(f.m) \div 2^f.e

\* What the label makes of a text: two decimals of its doubleValue in a CGFloat.
Shown(n) == IF width = 24 THEN TwoDecimals(FloatValue(n)) ELSE TwoDecimalsOfDouble(n)

-----------------------------------------------------------------------------
\* The page with its empty field, on either kind of device.
PayInit ==
    /\ width \in {24, 53}
    /\ text = 0 /\ label = 0
    /\ popup = Closed /\ order = NoOrder

\* Slip: the label is given the text as it was before the edit.
EditLate(n) ==
    /\ popup = Closed
    /\ text' = n
    /\ label' = IF text = 0 THEN 0 ELSE Shown(text)
    /\ UNCHANGED <<width, popup, order>>

\* An edit makes the text a number; the label shows what it will be.
Edit(n) ==
    /\ popup = Closed
    /\ text' = n
    /\ label' = Shown(n)
    /\ UNCHANGED <<width, popup, order>>

\* The clear button, or an edit that leaves no number above zero: a pasted minus,
\* which the label would show, is not told from none, as no popup comes of it.
Clear ==
    /\ popup = Closed
    /\ text' = 0 /\ label' = 0
    /\ UNCHANGED <<width, popup, order>>

\* The confirm button, with a number above zero; without one there is a toast.
TapPay ==
    /\ popup = Closed /\ text > 0
    /\ popup' = FloatValue(text)
    /\ UNCHANGED <<width, text, label, order>>

\* "Alipay": an order of the popup's amount with two decimals.
ChooseAliPay ==
    /\ popup # Closed
    /\ order' = [app |-> "alipay", fen |-> TwoDecimals(popup)]
    /\ UNCHANGED <<width, text, label, popup>>

\* "WeChat": an order in fen.
ChooseWeiXin ==
    /\ popup # Closed
    /\ order' = [app |-> "weixin", fen |-> Fen(popup)]
    /\ UNCHANGED <<width, text, label, popup>>

\* A tap outside the popup closes it.
Dismiss ==
    /\ popup # Closed
    /\ popup' = Closed /\ order' = NoOrder
    /\ UNCHANGED <<width, text, label>>

PayNext ==
    \/ \E n \in Texts : Edit(n)
    \/ Clear \/ TapPay \/ ChooseAliPay \/ ChooseWeiXin \/ Dismiss

PaySpec == PayInit /\ [][PayNext]_payVars

-----------------------------------------------------------------------------
PayTypeOK ==
    /\ width \in {24, 53}
    /\ text \in Texts \cup {0}
    /\ label \in Nat
    /\ popup = Closed \/ (popup.m \in 2^23..2^24 /\ popup.e \in 0..33)
    /\ order.app \in {"none", "alipay", "weixin"} /\ order.fen \in Nat

WholeFen == text % 10 = 0
WholeYuan == text % 1000 = 0

\* The label is made from the text's doubleValue and an Alipay order from its floatValue:
\* they are a fen apart at most, and more only where the float's own unit, 2^-e yuan,
\* is.  They agree on a text of two decimals below 131072 yuan, and on whole yuan,
\* which are all that the field's number pad types.
AlipayAsksNearlyWhatIsShown ==
    order.app = "alipay" =>
        LET more == 50 \div 2^popup.e
        IN  /\ order.fen \in (label - 1 - more)..(label + 1 + more)
            /\ WholeYuan \/ (WholeFen /\ text < 1000 * 2^17) => order.fen = label

\* A WeChat order drops what is left under a fen: it asks for what the label shows or one
\* fen less, and for anything else only where the float's unit is too large.  It agrees
\* on whole yuan, but on 32-bit devices only as long as their product keeps its bits.
WeChatAsksNearlyWhatIsShown ==
    order.app = "weixin" =>
        LET more == 64 \div 2^popup.e
        IN  /\ order.fen \in (label - 1 - more)..(label + more)
            /\ WholeYuan /\ (width = 53 \/ text < 1000 * 2^19) => order.fen = label

\* The invariant of the proofs.  The label is that of the text, which nothing changes
\* under the popup, and an order was made from the popup's float of the same text.
PayIInv ==
    /\ PayTypeOK
    /\ label = IF text = 0 THEN 0 ELSE Shown(text)
    /\ popup # Closed => text > 0 /\ popup = FloatValue(text)
    /\ order.app = "alipay" => popup # Closed /\ order.fen = TwoDecimals(popup)
    /\ order.app = "weixin" => popup # Closed /\ order.fen = Fen(popup)
=============================================================================
