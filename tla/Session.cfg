\* Accounts of both types, two of one, two logins and two registrations out at once.
SPECIFICATION Spec
CONSTANTS
    Students = {pupil1, pupil2}
    Staff = {teacher}
    None = None
    Attempts = {a1, a2}
    Forms = {f1, f2}
INVARIANTS
    LoggedOutIsAtLogin
    LoginPageOnce
    IInv
PROPERTIES
    OnlySignUpMisnames
    ThanksPopsItsForm
    OnlyAnswersMisfit
