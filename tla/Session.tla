------------------------------ MODULE Session ------------------------------
(***************************************************************************)
(* Logging in and out, registering, and what the tabs show of the account. *)
(*                                                                         *)
(* The current user belongs to the SDK: a login that succeeds sets it      *)
(* before the app's callback runs, and a registration that succeeds may    *)
(* (AVUser.h calls a user obtained via a signUp authenticated).  Neither   *)
(* button is disabled by its request, so several may be out at once, and   *)
(* one may answer after the user went on to another page or account.       *)
(***************************************************************************)
EXTENDS Naturals, Sequences, SequencesExt

CONSTANTS
    Students, Staff,  \* accounts by type: student; teacher or master
    None,             \* nobody is logged in
    Attempts,         \* names for the logins out at once (bounds them)
    Forms             \* names for the registrations out at once (bounds them)

Accounts == Students \cup Staff
ASSUME AccountsAssumption == Students \cap Staff = {} /\ None \notin Accounts

VARIABLES
    currentUser,  \* [AVUser currentUser]
    tab,          \* selected tab of the tab bar
    homeNav,      \* pages of the home tab, bottom first
    attempt,      \* each login out: the account it is for, or None
    signUp,       \* each registration out: the account it creates, or None
    thanks,       \* registrations whose success alert waits for its button
    formOpen,     \* those sent from the registration page now in the stack
    homeName,     \* _studentNameLB and _userTypeLB of the home page
    signTitle,    \* title of the home page's sign button
    mineName      \* header of the user centre; None until it is loaded

registering == <<signUp, thanks, formOpen>>
labels == <<signTitle, mineName>>
vars == <<currentUser, tab, homeNav, attempt, registering, homeName, labels>>

\* "records" and "sign" are the two pages behind the sign button.
HomePages == {"records", "sign", "page"}
Pages == {"home", "login", "register"} \cup HomePages
Top == Last(homeNav)

\* The bottom bar, which every page but a tab's first hides.
TabBar == tab # "home" \/ homeNav = <<"home">>

\* Page p of the home tab is in view, and no alert keeps touches from it.
Touchable(p) == thanks = {} /\ tab = "home" /\ Top = p

\* The sign button says "sign in" to staff, "sign-in records" to students.
TitleFor(u) ==
    IF u \in Staff THEN "sign" ELSE IF u \in Students THEN "records" ELSE "untitled"

\* checkUserLoginStatusAndShowLoginViewController, with user u logged in and
\* nav on the home tab's stack: the login page for nobody, the labels for a
\* user.
CheckLogin(u, nav) ==
    /\ homeNav' = IF u = None THEN Append(nav, "login") ELSE nav
    /\ homeName' = IF u = None THEN homeName ELSE u

\* Slip: every page checks, not the home page only.
UncoverChecking(u, nav) == CheckLogin(u, nav)

\* A page leaves the stack; if the home page is back on top it checks.
Uncover(u, nav) ==
    IF Last(nav) = "home" THEN CheckLogin(u, nav)
    ELSE homeNav' = nav /\ UNCHANGED homeName

\* The registration page, when it leaves the stack, is no longer popped by its
\* alerts.
FormLeaves ==
    /\ formOpen' = IF "register" \in ToSet(homeNav') THEN formOpen ELSE {}
    /\ UNCHANGED <<signUp, thanks>>

-----------------------------------------------------------------------------
\* Launch: the home page is created and appears; the sign button gets its title.
Init ==
    /\ currentUser \in Accounts \cup {None}
    /\ tab = "home"
    /\ homeNav = IF currentUser = None THEN <<"home", "login">> ELSE <<"home">>
    /\ attempt = [a \in Attempts |-> None]
    /\ signUp = [f \in Forms |-> None] /\ thanks = {} /\ formOpen = {}
    /\ homeName = currentUser
    /\ signTitle = TitleFor(currentUser)
    /\ mineName = None

\* The app is killed and launched again; the session is kept on disk.
Restart ==
    /\ tab' = "home"
    /\ homeNav' = IF currentUser = None THEN <<"home", "login">> ELSE <<"home">>
    /\ attempt' = [a \in Attempts |-> None]
    /\ signUp' = [f \in Forms |-> None] /\ thanks' = {} /\ formOpen' = {}
    /\ homeName' = currentUser
    /\ signTitle' = TitleFor(currentUser)
    /\ mineName' = None
    /\ UNCHANGED currentUser

\* The login button, with the phone number of account u; whether the password
\* is right is for the answer to say.
TapLogin(a, u) ==
    /\ Touchable("login")
    /\ attempt[a] = None
    /\ attempt' = [attempt EXCEPT ![a] = u]
    /\ UNCHANGED <<currentUser, tab, homeNav, registering, homeName, labels>>

\* Slip: the delegate is not told; only the home page's appearing checks.
LoginSucceedsUntold(a) ==
    LET u == attempt[a]
    IN  /\ u # None
        /\ attempt' = [attempt EXCEPT ![a] = None]
        /\ currentUser' = u
        /\ IF "login" \in ToSet(homeNav) THEN Uncover(u, Front(homeNav))
           ELSE UNCHANGED <<homeNav, homeName>>
        /\ FormLeaves
        /\ UNCHANGED <<tab, labels>>

\* The login succeeds: the login page, if it is in the stack, pops whatever is
\* on top, and its delegate, the home page, checks once more.
LoginSucceeds(a) ==
    LET u == attempt[a]
    IN  /\ u # None
        /\ attempt' = [attempt EXCEPT ![a] = None]
        /\ currentUser' = u
        /\ homeNav' = IF "login" \in ToSet(homeNav) THEN Front(homeNav) ELSE homeNav
        /\ homeName' = u
        /\ FormLeaves
        /\ UNCHANGED <<tab, labels>>

\* The login fails with a toast.
LoginFails(a) ==
    /\ attempt[a] # None
    /\ attempt' = [attempt EXCEPT ![a] = None]
    /\ UNCHANGED <<currentUser, tab, homeNav, registering, homeName, labels>>

\* The close button of the login page; the home page puts it back for nobody.
CloseLogin ==
    /\ Touchable("login")
    /\ Uncover(currentUser, Front(homeNav))
    /\ UNCHANGED <<currentUser, tab, attempt, registering, labels>>

\* The registration page, over the login page.
OpenRegister ==
    /\ Touchable("login")
    /\ homeNav' = Append(homeNav, "register")
    /\ UNCHANGED <<currentUser, tab, attempt, registering, homeName, labels>>

\* The form's save button, with a form that passes the checks; others get a
\* toast.
TapSave(f, u) ==
    /\ Touchable("register")
    /\ signUp[f] = None /\ f \notin thanks
    /\ signUp' = [signUp EXCEPT ![f] = u]
    /\ formOpen' = formOpen \cup {f}
    /\ UNCHANGED <<currentUser, tab, homeNav, attempt, thanks, homeName, labels>>

\* The registration succeeds: an alert says so, over whatever page is in view.
SignUpSucceeds(f) ==
    /\ signUp[f] # None
    /\ signUp' = [signUp EXCEPT ![f] = None]
    /\ thanks' = thanks \cup {f}
    /\ currentUser' \in {currentUser, signUp[f]}
    /\ UNCHANGED <<tab, homeNav, attempt, formOpen, homeName, labels>>

\* The registration fails with a toast.
SignUpFails(f) ==
    /\ signUp[f] # None
    /\ signUp' = [signUp EXCEPT ![f] = None]
    /\ formOpen' = formOpen \ {f}
    /\ UNCHANGED <<currentUser, tab, homeNav, attempt, thanks, homeName, labels>>

\* Slip: the alert pops the page in view, not its own.
CloseThanksPopping(f) ==
    /\ f \in thanks
    /\ Uncover(currentUser, Front(homeNav))
    /\ thanks' = thanks \ {f}
    /\ formOpen' = formOpen \ {f}
    /\ UNCHANGED <<currentUser, tab, attempt, signUp, labels>>

\* The alert's button: its registration page, if it is still there, is popped.
CloseThanks(f) ==
    /\ f \in thanks
    /\ thanks' = thanks \ {f}
    /\ IF f \in formOpen
       THEN Uncover(currentUser, Front(homeNav)) /\ formOpen' = {}
       ELSE UNCHANGED <<homeNav, homeName, formOpen>>
    /\ UNCHANGED <<currentUser, tab, attempt, signUp, labels>>

\* Any other page the home page opens: notices, bills, payment, user data.
OpenPage ==
    /\ Touchable("home")
    /\ homeNav' = Append(homeNav, "page")
    /\ UNCHANGED <<currentUser, tab, attempt, registering, homeName, labels>>

\* Slip: the sign button is not divided by account type.
OpenSignPageForStaff ==
    /\ Touchable("home")
    /\ homeNav' = Append(homeNav, "sign")
    /\ UNCHANGED <<currentUser, tab, attempt, registering, homeName, labels>>

\* The sign button: a student's own records, or the address book to sign in a
\* class.
OpenSignPage ==
    /\ Touchable("home")
    /\ currentUser \in Accounts
    /\ homeNav' = Append(homeNav, IF currentUser \in Students THEN "records" ELSE "sign")
    /\ UNCHANGED <<currentUser, tab, attempt, registering, homeName, labels>>

\* Back from the registration page or from a page.
GoBack ==
    /\ \E p \in {"register"} \cup HomePages : Touchable(p)
    /\ Uncover(currentUser, Front(homeNav))
    /\ FormLeaves
    /\ UNCHANGED <<currentUser, tab, attempt, labels>>

\* The home tab is selected: its top page appears.
SelectHome ==
    /\ thanks = {} /\ tab # "home"
    /\ tab' = "home"
    /\ Uncover(currentUser, homeNav)
    /\ UNCHANGED <<currentUser, attempt, registering, labels>>

\* Slip: pages keep the bottom bar.
SelectTabAnywhere(t) ==
    /\ thanks = {} /\ tab # t
    /\ tab' = t
    /\ mineName' = IF t = "mine" /\ mineName = None THEN currentUser ELSE mineName
    /\ UNCHANGED <<currentUser, homeNav, attempt, registering, homeName, signTitle>>

\* The address book tab, or the user centre, whose header is filled the first
\* time only.
SelectTab(t) ==
    /\ thanks = {} /\ TabBar /\ tab # t
    /\ tab' = t
    /\ mineName' = IF t = "mine" /\ mineName = None THEN currentUser ELSE mineName
    /\ UNCHANGED <<currentUser, homeNav, attempt, registering, homeName, signTitle>>

\* Slip: the user centre stays selected.
LogOutStaying ==
    /\ thanks = {} /\ tab = "mine"
    /\ currentUser' = None
    /\ UNCHANGED <<tab, homeNav, attempt, registering, homeName, labels>>

\* Log out, in the user centre: the home tab is selected for nobody.
LogOut ==
    /\ thanks = {} /\ tab = "mine"
    /\ currentUser' = None
    /\ tab' = "home"
    /\ Uncover(None, homeNav)
    /\ UNCHANGED <<attempt, registering, labels>>

Next ==
    \/ \E a \in Attempts :
        \/ \E u \in Accounts : TapLogin(a, u)
        \/ LoginSucceeds(a)
        \/ LoginFails(a)
    \/ \E f \in Forms :
        \/ \E u \in Accounts : TapSave(f, u)
        \/ SignUpSucceeds(f)
        \/ SignUpFails(f)
        \/ CloseThanks(f)
    \/ CloseLogin \/ OpenRegister \/ OpenPage \/ OpenSignPage \/ GoBack
    \/ SelectHome \/ LogOut \/ Restart
    \/ \E t \in {"book", "mine"} : SelectTab(t)

Spec == Init /\ [][Next]_vars

-----------------------------------------------------------------------------
TypeOK ==
    /\ currentUser \in Accounts \cup {None}
    /\ tab \in {"home", "book", "mine"}
    /\ homeNav \in Seq(Pages) /\ homeNav # <<>>
    /\ attempt \in [Attempts -> Accounts \cup {None}]
    /\ signUp \in [Forms -> Accounts \cup {None}]
    /\ thanks \subseteq Forms /\ formOpen \subseteq Forms
    /\ homeName \in Accounts \cup {None}
    /\ signTitle \in {"sign", "records", "untitled"}
    /\ mineName \in Accounts \cup {None}

\* Nobody uses the app without an account: while no user is logged in, the
\* home tab is selected and the login page covers it, whichever order logins,
\* answers, logouts and pages took.
LoggedOutIsAtLogin ==
    currentUser = None => tab = "home" /\ "login" \in ToSet(homeNav)

\* The one login page is pushed only over the home page and never while it is in
\* the stack, at which UIKit raises, and no late answer or alert pops a page from
\* under the others: the stack is always one a user could build page by page.
LoginPageOnce ==
    homeNav \in {<<"home">>, <<"home", "login">>, <<"home", "login", "register">>}
               \cup {<<"home", p>> : p \in HomePages}

\* The invariant of the proofs: also, only the home page is under the other
\* tabs, and a registration whose page is open has it in view.
IInv ==
    /\ TypeOK
    /\ LoggedOutIsAtLogin
    /\ LoginPageOnce
    /\ tab # "home" => homeNav = <<"home">>
    /\ formOpen # {} => Top = "register"

\* The home page in view names the account that is logged in.
HomeNamesTheUser == (tab = "home" /\ Top = "home") => homeName = currentUser

\* A home page that names the account goes on naming it, whatever pages, logins
\* and logouts come, late answers among them, until a registration that was
\* left alone answers.
OnlySignUpMisnames ==
    [][HomeNamesTheUser /\ ~HomeNamesTheUser' => \E f \in Forms : SignUpSucceeds(f)]_vars

\* The alert of a registration takes away its own page and no other: no page that
\* was opened since, and never the login page under it while nobody is logged in.
ThanksPopsItsForm ==
    [][(\E f \in Forms : CloseThanks(f)) /\ homeNav' # homeNav =>
         Top = "register" /\ homeNav' = <<"home", "login">>]_vars

\* The section "sign-in divided by authority" of the home page: its button is
\* titled for the account that uses it.
SignTitleFitsUser ==
    (tab = "home" /\ Top = "home") => signTitle = TitleFor(currentUser)

\* The page behind the sign button is the one for the account that uses it:
\* students look at their records, only staff sign in a class.
SignPageFitsUser ==
    (tab = "home" /\ Top \in {"records", "sign"}) =>
        (Top = "records" <=> currentUser \in Students)

\* A sign page fits the account until an answer that was still out changes it.
OnlyAnswersMisfit ==
    [][SignPageFitsUser /\ ~SignPageFitsUser' =>
         \/ \E a \in Attempts : LoginSucceeds(a)
         \/ \E f \in Forms : SignUpSucceeds(f)]_vars
=============================================================================
