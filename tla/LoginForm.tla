----------------------------- MODULE LoginForm -----------------------------
(***************************************************************************)
(* The login page's two text fields and its button.                        *)
(*                                                                         *)
(* UIKit asks the page before it applies an edit, so the page's check of   *)
(* the texts sees them as they were before.  A text that would grow too    *)
(* long is cut by the page itself, the edit refused and nothing checked.   *)
(* Texts are known by their lengths: nothing else is looked at.            *)
(***************************************************************************)
EXTENDS Integers

CONSTANT Paste  \* most characters one edit puts in (bounds the edits)
ASSUME PasteAssumption == Paste \in Nat

PhoneLength == 11
PasswordMin == 6
PasswordMax == 20

VARIABLES
    phone,      \* length of _phoneTF.text
    password,   \* length of _passwordTF.text
    enabled     \* _loginButton.enabled

vars == <<phone, password, enabled>>

\* Lengths the check lets pass.
WellFormed(p, w) == p >= PhoneLength /\ w >= PasswordMin

\* Slip: a phone number or a password is enough.
CheckEither == enabled' = (phone >= PhoneLength \/ password >= PasswordMin)

\* checkTextFiledTextIsEmpty, of the texts as they are.
Check == enabled' = WellFormed(phone, password)

-----------------------------------------------------------------------------
\* The page is made, its button enabled, and appears with empty fields.
Init == phone = 0 /\ password = 0 /\ enabled = FALSE

\* The page appears again, from the registration page or for the next login; it
\* is kept with what its fields hold.
Appear ==
    /\ Check
    /\ UNCHANGED <<phone, password>>

\* Slip: the page refuses the check of a text that is too long, not the edit.
EditPhoneUncut(r, k) ==
    /\ r <= phone /\ r + k > 0
    /\ phone' = phone - r + k
    /\ IF phone - r + k > PhoneLength THEN UNCHANGED enabled ELSE Check
    /\ UNCHANGED password

\* r characters of the phone number are replaced by k.
EditPhone(r, k) ==
    /\ r <= phone /\ r + k > 0
    /\ IF phone - r + k > PhoneLength
       THEN phone' = PhoneLength /\ UNCHANGED enabled
       ELSE phone' = phone - r + k /\ Check
    /\ UNCHANGED password

\* The same for the password.
EditPassword(r, k) ==
    /\ r <= password /\ r + k > 0
    /\ IF password - r + k > PasswordMax
       THEN password' = PasswordMax /\ UNCHANGED enabled
       ELSE password' = password - r + k /\ Check
    /\ UNCHANGED phone

\* The clear button of a field that holds text.
ClearPhone ==
    /\ phone > 0
    /\ Check
    /\ phone' = 0
    /\ UNCHANGED password

ClearPassword ==
    /\ password > 0
    /\ Check
    /\ password' = 0
    /\ UNCHANGED phone

Next ==
    \/ Appear \/ ClearPhone \/ ClearPassword
    \/ \E k \in 0..Paste :
        \/ \E r \in 0..phone : EditPhone(r, k)
        \/ \E r \in 0..password : EditPassword(r, k)

Spec == Init /\ [][Next]_vars

-----------------------------------------------------------------------------
TypeOK == phone \in 0..PhoneLength /\ password \in 0..PasswordMax /\ enabled \in BOOLEAN

\* However edits, cuts and clears follow one another, at most one of the texts
\* behind a button that can be tapped is malformed.
OneTextIsFine == enabled => phone = PhoneLength \/ password >= PasswordMin
=============================================================================
