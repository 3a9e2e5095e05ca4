--------------------------- MODULE SessionProofs ---------------------------
(***************************************************************************)
(* Proofs about Session, for any number of accounts and of logins and      *)
(* registrations out at once.                                              *)
(***************************************************************************)
EXTENDS Session, SequenceTheorems, TLAPS

\* Short sequences, computed.
LEMMA Pair ==
    ASSUME NEW x, NEW y
    PROVE  /\ Last(<<x>>) = x /\ ToSet(<<x>>) = {x}
           /\ Append(<<x>>, y) = <<x, y>> /\ Front(<<x, y>>) = <<x>>
           /\ Last(<<x, y>>) = y /\ ToSet(<<x, y>>) = {x, y}
<1> DEFINE S == {x, y}
<1>1. Last(<<x>>) = x /\ Last(<<x, y>>) = y
  BY DEF Last
<1>2. ToSet(<<x>>) = {x}
  BY DEF ToSet
<1>3. ToSet(<<x, y>>) = {x, y}
  BY DEF ToSet
<1>4. Append(<<x>>, y) = <<x, y>>
  <2>1. <<x>> \in Seq(S) /\ <<x, y>> \in Seq(S) /\ y \in S
    OBVIOUS
  <2>2. /\ Append(<<x>>, y) \in Seq(S) /\ Len(Append(<<x>>, y)) = 2
        /\ Append(<<x>>, y)[1] = x /\ Append(<<x>>, y)[2] = y
    BY <2>1, AppendProperties, Len(<<x>>) = 1
  <2>3. ASSUME NEW t \in Seq(S), Len(t) = 2, t[1] = x, t[2] = y PROVE t = <<x, y>>
    BY <2>1, <2>3, SeqEqual
  <2> HIDE DEF S
  <2> QED BY <2>2, <2>3, Zenon
<1>5. Front(<<x, y>>) = <<x>>
  <2>1. Front(<<x, y>>) = SubSeq(<<x, y>>, 1, 1)
    BY DEF Front
  <2>2. /\ SubSeq(<<x, y>>, 1, 1) \in Seq(S) /\ Len(SubSeq(<<x, y>>, 1, 1)) = 1
        /\ SubSeq(<<x, y>>, 1, 1)[1] = x
    <3>1. \A i \in 1..1 : <<x, y>>[i] \in S
      OBVIOUS
    <3> QED BY <3>1, SubSeqProperties, 1 \in Int
  <2>3. <<x>> \in Seq(S)
    OBVIOUS
  <2> QED BY <2>1, <2>2, <2>3, SeqEqual
<1> QED BY <1>1, <1>2, <1>3, <1>4, <1>5

LEMMA Triple ==
    ASSUME NEW x, NEW y, NEW z
    PROVE  /\ Last(<<x, y, z>>) = z /\ ToSet(<<x, y, z>>) = {x, y, z}
           /\ Append(<<x, y>>, z) = <<x, y, z>> /\ Front(<<x, y, z>>) = <<x, y>>
<1> DEFINE S == {x, y, z}
<1>1. Last(<<x, y, z>>) = z
  BY DEF Last
<1>2. ToSet(<<x, y, z>>) = {x, y, z}
  BY DEF ToSet
<1>3. Append(<<x, y>>, z) = <<x, y, z>>
  <2>1. <<x, y>> \in Seq(S) /\ <<x, y, z>> \in Seq(S) /\ z \in S
    OBVIOUS
  <2>2. /\ Append(<<x, y>>, z) \in Seq(S) /\ Len(Append(<<x, y>>, z)) = 3
        /\ Append(<<x, y>>, z)[1] = x /\ Append(<<x, y>>, z)[2] = y
        /\ Append(<<x, y>>, z)[3] = z
    BY <2>1, AppendProperties, Len(<<x, y>>) = 2
  <2>3. ASSUME NEW t \in Seq(S), Len(t) = 3, t[1] = x, t[2] = y, t[3] = z
        PROVE  t = <<x, y, z>>
    BY <2>1, <2>3, SeqEqual
  <2> HIDE DEF S
  <2> QED BY <2>2, <2>3, Zenon
<1>4. Front(<<x, y, z>>) = <<x, y>>
  <2>1. Front(<<x, y, z>>) = SubSeq(<<x, y, z>>, 1, 2)
    BY DEF Front
  <2>2. /\ SubSeq(<<x, y, z>>, 1, 2) \in Seq(S) /\ Len(SubSeq(<<x, y, z>>, 1, 2)) = 2
        /\ SubSeq(<<x, y, z>>, 1, 2)[1] = x /\ SubSeq(<<x, y, z>>, 1, 2)[2] = y
    <3>1. \A i \in 1..2 : <<x, y, z>>[i] \in S
      OBVIOUS
    <3> QED BY <3>1, SubSeqProperties, 1 \in Int, 2 \in Int
  <2>3. <<x, y>> \in Seq(S)
    OBVIOUS
  <2> QED BY <2>1, <2>2, <2>3, SeqEqual
<1> QED BY <1>1, <1>2, <1>3, <1>4

\* The stacks the home tab can have.
Stacks ==
    {<<"home">>, <<"home", "login">>, <<"home", "login", "register">>}
        \cup {<<"home", p>> : p \in HomePages}

\* The sequence helpers on these stacks.
LEMMA OneOrTwo ==
    ASSUME NEW p
    PROVE  /\ Last(<<"home">>) = "home" /\ ToSet(<<"home">>) = {"home"}
           /\ Append(<<"home">>, p) = <<"home", p>> /\ Front(<<"home", p>>) = <<"home">>
           /\ Last(<<"home", p>>) = p /\ ToSet(<<"home", p>>) = {"home", p}
<1> DEFINE h == "home"
<1> HIDE DEF h
<1>1. /\ Last(<<h>>) = h /\ ToSet(<<h>>) = {h}
      /\ Append(<<h>>, p) = <<h, p>> /\ Front(<<h, p>>) = <<h>>
      /\ Last(<<h, p>>) = p /\ ToSet(<<h, p>>) = {h, p}
  BY Pair
<1> QED BY <1>1 DEF h

LEMMA ShortStacks ==
    /\ Last(<<"home">>) = "home" /\ ToSet(<<"home">>) = {"home"}
    /\ Last(<<"home", "login">>) = "login" /\ ToSet(<<"home", "login">>) = {"home", "login"}
    /\ Append(<<"home">>, "login") = <<"home", "login">>
  BY OneOrTwo, Zenon

LEMMA WithRegister ==
    /\ Last(<<"home", "login", "register">>) = "register"
    /\ ToSet(<<"home", "login", "register">>) = {"home", "login", "register"}
    /\ Append(<<"home", "login">>, "register") = <<"home", "login", "register">>
    /\ Front(<<"home", "login", "register">>) = <<"home", "login">>
<1> DEFINE h == "home"
           l == "login"
           r == "register"
<1> HIDE DEF h, l, r
<1>1. /\ Last(<<h, l, r>>) = r /\ ToSet(<<h, l, r>>) = {h, l, r}
      /\ Append(<<h, l>>, r) = <<h, l, r>> /\ Front(<<h, l, r>>) = <<h, l>>
  BY Triple
<1> QED BY <1>1 DEF h, l, r

\* A stack is known by its top.
LEMMA KnownByTop ==
    ASSUME NEW nav \in Stacks
    PROVE  /\ nav \in Seq(Pages) /\ nav # <<>>
           /\ \/ nav = <<"home">> /\ Last(nav) = "home" /\ ToSet(nav) = {"home"}
              \/ /\ nav = <<"home", "login">> /\ Last(nav) = "login"
                 /\ ToSet(nav) = {"home", "login"} /\ Front(nav) = <<"home">>
              \/ /\ nav = <<"home", "login", "register">> /\ Last(nav) = "register"
                 /\ ToSet(nav) = {"home", "login", "register"}
                 /\ Front(nav) = <<"home", "login">>
              \/ /\ nav = <<"home", Last(nav)>> /\ Last(nav) \in HomePages
                 /\ ToSet(nav) = {"home", Last(nav)} /\ Front(nav) = <<"home">>
<1>1. CASE nav = <<"home">>
  <2>1. nav \in Seq(Pages) /\ nav # <<>>
    BY <1>1 DEF Pages
  <2>2. Last(nav) = "home" /\ ToSet(nav) = {"home"}
    BY <1>1, OneOrTwo, Zenon
  <2> QED BY <1>1, <2>1, <2>2, Zenon
<1>2. CASE nav = <<"home", "login">>
  <2>1. nav \in Seq(Pages) /\ nav # <<>>
    BY <1>2 DEF Pages
  <2>2. Last(nav) = "login" /\ ToSet(nav) = {"home", "login"} /\ Front(nav) = <<"home">>
    BY <1>2, OneOrTwo, Zenon
  <2> QED BY <1>2, <2>1, <2>2, Zenon
<1>3. CASE nav = <<"home", "login", "register">>
  <2>1. nav \in Seq(Pages) /\ nav # <<>>
    BY <1>3 DEF Pages
  <2>2. /\ Last(nav) = "register" /\ ToSet(nav) = {"home", "login", "register"}
        /\ Front(nav) = <<"home", "login">>
    BY <1>3, WithRegister, Zenon
  <2> QED BY <1>3, <2>1, <2>2, Zenon
<1>4. ASSUME NEW p \in HomePages, nav = <<"home", p>>
      PROVE  /\ nav \in Seq(Pages) /\ nav # <<>>
             /\ Last(nav) = p /\ ToSet(nav) = {"home", p} /\ Front(nav) = <<"home">>
  <2>1. nav \in Seq(Pages) /\ nav # <<>>
    BY <1>4 DEF Pages
  <2> QED BY <1>4, <2>1, OneOrTwo, Zenon
<1> QED BY <1>1, <1>2, <1>3, <1>4 DEF Stacks

\* What is on top of the home tab's stack says what the stack is; a step that
\* builds one of the stacks keeps its shape.
LEMMA StackOfTop ==
    ASSUME IInv
    PROVE  /\ Top = "home" => homeNav = <<"home">>
           /\ Top = "login" => homeNav = <<"home", "login">>
           /\ Top = "register" => homeNav = <<"home", "login", "register">>
           /\ Top \in HomePages => homeNav = <<"home", Top>> /\ Front(homeNav) = <<"home">>
           /\ "login" \in ToSet(homeNav) <=> Top \in {"login", "register"}
           /\ Top \in {"home", "login", "register"} \cup HomePages
<1>1. homeNav \in Stacks
  BY DEF IInv, LoginPageOnce, Stacks
<1> QED BY <1>1, KnownByTop DEF Top, HomePages

\* The home page, when it is uncovered, shows the account or opens the login page.
LEMMA HomeChecks ==
    ASSUME NEW u, Uncover(u, <<"home">>)
    PROVE  /\ homeNav' = IF u = None THEN <<"home", "login">> ELSE <<"home">>
           /\ homeName' = IF u = None THEN homeName ELSE u
  BY ShortStacks DEF Uncover, CheckLogin

\* Uncovering the login page changes nothing else.
LEMMA LoginPageWaits ==
    ASSUME NEW u, Uncover(u, <<"home", "login">>)
    PROVE  homeNav' = <<"home", "login">> /\ homeName' = homeName
  BY ShortStacks DEF Uncover

\* The invariant, its parts about pages apart from those about data.
Shape ==
    /\ homeNav \in Seq(Pages) /\ homeNav # <<>>
    /\ LoggedOutIsAtLogin /\ LoginPageOnce
    /\ tab # "home" => homeNav = <<"home">>
    /\ formOpen # {} => Top = "register"

Data ==
    /\ currentUser \in Accounts \cup {None}
    /\ tab \in {"home", "book", "mine"}
    /\ attempt \in [Attempts -> Accounts \cup {None}]
    /\ signUp \in [Forms -> Accounts \cup {None}]
    /\ thanks \subseteq Forms /\ formOpen \subseteq Forms
    /\ homeName \in Accounts \cup {None}
    /\ signTitle \in {"sign", "records", "untitled"}
    /\ mineName \in Accounts \cup {None}

LEMMA IInvParts == IInv <=> Shape /\ Data
  BY DEF IInv, TypeOK, Shape, Data

\* The parts about pages, for a stack that a step builds.
LEMMA Rebuilt ==
    ASSUME homeNav' \in Stacks,
           currentUser' = None =>
             tab' = "home"
               /\ homeNav' \in {<<"home", "login">>, <<"home", "login", "register">>},
           tab' # "home" => homeNav' = <<"home">>,
           formOpen' # {} => homeNav' = <<"home", "login", "register">>
    PROVE  Shape'
<1>1. homeNav' \in Seq(Pages) /\ homeNav' # <<>>
  BY KnownByTop
<1>2. LoginPageOnce'
  BY DEF LoginPageOnce, Stacks
<1>3. LoggedOutIsAtLogin'
  <2>1. homeNav' \in {<<"home", "login">>, <<"home", "login", "register">>} =>
          "login" \in ToSet(homeNav')
    BY OneOrTwo, WithRegister, Zenon
  <2> QED BY <2>1 DEF LoggedOutIsAtLogin
<1>4. formOpen' # {} => Top' = "register"
  BY WithRegister, Zenon DEF Top
<1> QED BY <1>1, <1>2, <1>3, <1>4 DEF Shape

\* The same, for a step that leaves the stack.
LEMMA StackKept ==
    ASSUME IInv, UNCHANGED <<tab, homeNav>>, formOpen' \subseteq formOpen,
           currentUser' = None => currentUser = None
    PROVE  Shape'
  BY DEF IInv, TypeOK, Shape, LoggedOutIsAtLogin, LoginPageOnce, Top

\* What each of the other steps makes of the stack.

\* Which pages a login's answer leaves.
LEMMA LoginPops ==
    ASSUME IInv, NEW a \in Attempts, LoginSucceeds(a)
    PROVE  /\ Shape' /\ currentUser' \in Accounts /\ formOpen' \subseteq formOpen
           /\ homeName' = currentUser'
<1>1. currentUser' \in Accounts /\ currentUser' # None /\ homeName' = currentUser'
  BY AccountsAssumption DEF IInv, TypeOK, LoginSucceeds
<1>2. formOpen' \subseteq formOpen
  BY DEF LoginSucceeds, FormLeaves
<1>3. homeNav \in Stacks
  BY DEF IInv, LoginPageOnce, Stacks
<1>4. homeNav' \in Stacks /\ "register" \notin ToSet(homeNav')
  <2>1. CASE homeNav = <<"home">>
    <3>1. homeNav' = <<"home">>
      BY <2>1, <1>3, KnownByTop DEF LoginSucceeds
    <3> QED BY <3>1, ShortStacks DEF Stacks
  <2>2. CASE homeNav = <<"home", "login">>
    <3>1. homeNav' = <<"home">>
      BY <2>2, <1>3, KnownByTop DEF LoginSucceeds
    <3> QED BY <3>1, ShortStacks DEF Stacks
  <2>3. CASE homeNav = <<"home", "login", "register">>
    <3>1. homeNav' = <<"home", "login">>
      BY <2>3, <1>3, WithRegister DEF LoginSucceeds
    <3> QED BY <3>1, ShortStacks DEF Stacks
  <2>4. ASSUME NEW p \in HomePages, homeNav = <<"home", p>>
        PROVE  homeNav' \in Stacks /\ "register" \notin ToSet(homeNav')
    <3>1. ToSet(homeNav) = {"home", p}
      BY <2>4, OneOrTwo, Zenon
    <3>2. homeNav' = homeNav
      BY <3>1 DEF LoginSucceeds, HomePages
    <3> QED BY <1>3, <3>1, <3>2 DEF HomePages
  <2> QED BY <1>3, <2>1, <2>2, <2>3, <2>4 DEF Stacks
<1>5. formOpen' = {}
  BY <1>4 DEF LoginSucceeds, FormLeaves
<1>6. tab' # "home" => homeNav' = <<"home">>
  <2>1. tab' = tab
    BY DEF LoginSucceeds
  <2> QED BY <2>1, ShortStacks DEF IInv, LoginSucceeds
<1>7. Shape'
  BY <1>1, <1>4, <1>5, <1>6, Rebuilt
<1> QED BY <1>1, <1>2, <1>7

\* The login page is closed, or a page is left: the home page checks, or the
\* login page under the registration page is in view.
LEMMA PageLeft ==
    ASSUME IInv, Top # "home", Uncover(currentUser, Front(homeNav)), tab = "home",
           UNCHANGED <<currentUser, tab>>, Top = "register" \/ formOpen = {},
           formOpen' \subseteq formOpen, "register" \notin ToSet(homeNav') => formOpen' = {}
    PROVE  /\ Shape'
           /\ Top' = "home" => homeName' = currentUser
           /\ Top' \in {"home", "login"}
           /\ Top = "register" => homeNav' = <<"home", "login">>
<1>1. homeNav \in Stacks
  BY DEF IInv, LoginPageOnce, Stacks
<1>2. CASE homeNav = <<"home", "login", "register">>
  <2>1. Uncover(currentUser, <<"home", "login">>)
    BY <1>2, WithRegister
  <2>2. homeNav' = <<"home", "login">> /\ homeName' = homeName
    BY <2>1, LoginPageWaits
  <2>3. formOpen' = {} /\ Top' = "login"
    BY <2>2, ShortStacks DEF Top
  <2>4. Shape'
    BY <2>2, <2>3, Rebuilt DEF Stacks
  <2> QED BY <2>2, <2>3, <2>4
<1>3. CASE Front(homeNav) = <<"home">> /\ Top # "register"
  <2>1. /\ homeNav' = IF currentUser = None THEN <<"home", "login">> ELSE <<"home">>
        /\ homeName' = IF currentUser = None THEN homeName ELSE currentUser
    BY <1>3, HomeChecks
  <2>2. formOpen' = {}
    BY <1>3
  <2>3. Shape'
    BY <2>1, <2>2, Rebuilt DEF Stacks
  <2>4. Top' = IF currentUser = None THEN "login" ELSE "home"
    BY <2>1, ShortStacks DEF Top
  <2> QED BY <1>3, <2>1, <2>3, <2>4
<1>4. \/ homeNav = <<"home", "login", "register">>
      \/ Front(homeNav) = <<"home">> /\ Top # "register"
  BY <1>1, KnownByTop DEF Top, HomePages
<1> QED BY <1>2, <1>3, <1>4

\* The home tab is uncovered from another tab.
LEMMA HomeTabAppears ==
    ASSUME IInv, tab # "home", tab' = "home", NEW u, currentUser' = u,
           Uncover(u, homeNav), UNCHANGED registering
    PROVE  /\ Shape'
           /\ Top' = "home" => homeName' = u
           /\ Top' \in {"home", "login"}
<1>1. homeNav = <<"home">> /\ formOpen = {}
  BY ShortStacks DEF IInv, Top
<1>2. /\ homeNav' = IF u = None THEN <<"home", "login">> ELSE <<"home">>
      /\ homeName' = IF u = None THEN homeName ELSE u
  BY <1>1, HomeChecks
<1>3. Top' = IF u = None THEN "login" ELSE "home"
  BY <1>2, ShortStacks DEF Top
<1>4. formOpen' = {}
  BY <1>1 DEF registering
<1>5. Shape'
  BY <1>2, <1>4, Rebuilt DEF Stacks
<1> QED BY <1>2, <1>3, <1>5

\* Launch.
LEMMA Launched ==
    ASSUME IInv, Restart
    PROVE  /\ Shape'
           /\ Top' \in {"home", "login"} /\ homeName' = currentUser'
<1>1. homeNav' = IF currentUser = None THEN <<"home", "login">> ELSE <<"home">>
  BY DEF Restart
<1>2. Top' \in {"home", "login"}
  BY <1>1, ShortStacks DEF Top
<1>3. Shape'
  BY <1>1, Rebuilt DEF Stacks, Restart
<1> QED BY <1>2, <1>3 DEF Restart

\* A page of the home page's is opened.
LEMMA PageOpened ==
    ASSUME IInv, NEW p \in HomePages, Touchable("home"), homeNav' = Append(homeNav, p),
           UNCHANGED <<currentUser, tab, formOpen>>
    PROVE  Shape' /\ Top' = p
<1>1. homeNav = <<"home">> /\ formOpen = {} /\ tab = "home"
  BY StackOfTop DEF IInv, Touchable
<1>2. homeNav' = <<"home", p>>
  BY <1>1, OneOrTwo
<1>3. currentUser # None
  BY <1>1, ShortStacks DEF IInv, LoggedOutIsAtLogin
<1>4. Shape'
  BY <1>1, <1>2, <1>3, Rebuilt DEF Stacks
<1>5. Top' = p
  BY <1>2, OneOrTwo DEF Top
<1> QED BY <1>4, <1>5

LEMMA ThanksClosed ==
    ASSUME IInv, NEW f \in Forms, CloseThanks(f)
    PROVE  /\ Shape' /\ homeName' \in {homeName, currentUser}
           /\ \/ UNCHANGED homeNav /\ UNCHANGED homeName
              \/ /\ Top = "register" /\ homeNav' = <<"home", "login">>
                 /\ Top' \in {"home", "login"} /\ (Top' = "home" => homeName' = currentUser)
<1>1. CASE f \in formOpen
  <2>1. Top = "register" /\ tab = "home"
    BY <1>1, StackOfTop DEF IInv
  <2>2. Uncover(currentUser, Front(homeNav)) /\ UNCHANGED <<currentUser, tab>> /\ formOpen' = {}
    BY <1>1 DEF CloseThanks
  <2>3. homeName' \in {homeName, currentUser}
    BY <2>2 DEF Uncover, CheckLogin
  <2> QED BY <2>1, <2>2, <2>3, PageLeft
<1>2. CASE f \notin formOpen
  <2>1. UNCHANGED <<currentUser, tab, homeNav, homeName, formOpen>>
    BY <1>2 DEF CloseThanks
  <2> QED BY <2>1, StackKept
<1> QED BY <1>1, <1>2

LEMMA LoginClosed ==
    ASSUME IInv, CloseLogin
    PROVE  /\ Shape' /\ homeName' \in {homeName, currentUser}
           /\ Top' \in {"home", "login"} /\ (Top' = "home" => homeName' = currentUser)
<1>1. Top = "login" /\ tab = "home" /\ formOpen = {}
  BY DEF CloseLogin, Touchable, IInv
<1>2. Uncover(currentUser, Front(homeNav)) /\ UNCHANGED <<currentUser, tab, formOpen>>
  BY DEF CloseLogin, registering
<1>3. homeName' \in {homeName, currentUser}
  BY <1>2 DEF Uncover, CheckLogin
<1> QED BY <1>1, <1>2, <1>3, PageLeft

LEMMA WentBack ==
    ASSUME IInv, GoBack
    PROVE  /\ Shape' /\ homeName' \in {homeName, currentUser}
           /\ Top' \in {"home", "login"} /\ (Top' = "home" => homeName' = currentUser)
           /\ formOpen' \subseteq formOpen
<1>1. Top # "home" /\ tab = "home" /\ (Top = "register" \/ formOpen = {})
  BY DEF GoBack, Touchable, IInv, HomePages
<1>2. Uncover(currentUser, Front(homeNav)) /\ UNCHANGED <<currentUser, tab>>
  BY DEF GoBack
<1>3. homeName' \in {homeName, currentUser}
  BY <1>2 DEF Uncover, CheckLogin
<1>4. formOpen' \subseteq formOpen /\ ("register" \notin ToSet(homeNav') => formOpen' = {})
  BY DEF GoBack, FormLeaves
<1> QED BY <1>1, <1>2, <1>3, <1>4, PageLeft

LEMMA RegisterOpened ==
    ASSUME IInv, OpenRegister
    PROVE  Shape' /\ Top' = "register"
<1>1. homeNav = <<"home", "login">> /\ tab = "home"
  BY StackOfTop DEF OpenRegister, Touchable
<1>2. homeNav' = <<"home", "login", "register">>
  BY <1>1, WithRegister DEF OpenRegister
<1>3. Top' = "register"
  BY <1>2, WithRegister DEF Top
<1>4. Shape'
  BY <1>1, <1>2, Rebuilt DEF Stacks, OpenRegister
<1> QED BY <1>3, <1>4

\* A tab other than the home tab is selected.
LEMMA TabSelected ==
    ASSUME IInv, NEW t \in {"book", "mine"}, SelectTab(t)
    PROVE  Shape' /\ tab' = t
<1>1. homeNav = <<"home">>
  BY DEF SelectTab, TabBar, IInv
<1>2. currentUser # None
  BY <1>1, ShortStacks DEF IInv, LoggedOutIsAtLogin
<1>3. formOpen = {}
  BY <1>1, ShortStacks DEF IInv, Top
<1>4. homeNav' = <<"home">> /\ currentUser' # None /\ formOpen' = {} /\ tab' = t
  BY <1>1, <1>2, <1>3 DEF SelectTab, registering
<1> QED BY <1>4, Rebuilt DEF Stacks

-----------------------------------------------------------------------------
LEMMA IInvInit == Init => IInv
<1> SUFFICES ASSUME Init PROVE IInv
  OBVIOUS
<1>1. homeNav \in {<<"home">>, <<"home", "login">>} /\ formOpen = {} /\ tab = "home"
  BY DEF Init
<1>2. homeNav \in Seq(Pages) /\ homeNav # <<>>
  BY <1>1, KnownByTop DEF Stacks
<1>3. LoggedOutIsAtLogin /\ LoginPageOnce
  BY ShortStacks DEF LoggedOutIsAtLogin, LoginPageOnce, Init
<1>4. Data
  BY DEF Data, Init, TitleFor
<1>5. Shape
  BY <1>1, <1>2, <1>3 DEF Shape
<1> QED BY <1>4, <1>5, IInvParts

LEMMA IInvStep == IInv /\ [Next]_vars => IInv'
<1> SUFFICES ASSUME IInv, [Next]_vars PROVE Shape' /\ Data'
  BY DEF IInv, TypeOK, Shape, Data
<1> USE DEF registering, labels
<1>0. Data
  BY IInvParts
<1>1. ASSUME NEW a \in Attempts, NEW u \in Accounts, TapLogin(a, u) PROVE Shape' /\ Data'
  <2>1. Shape'
    BY <1>1, StackKept DEF TapLogin
  <2>2. Data'
    BY <1>0, <1>1 DEF Data, TapLogin
  <2> QED BY <2>1, <2>2
<1>2. ASSUME NEW a \in Attempts, LoginSucceeds(a) PROVE Shape' /\ Data'
  <2>1. /\ Shape' /\ currentUser' \in Accounts /\ formOpen' \subseteq formOpen
        /\ homeName' = currentUser'
    BY <1>2, LoginPops
  <2>2. Data'
    BY <1>0, <1>2, <2>1 DEF Data, LoginSucceeds, FormLeaves
  <2> QED BY <2>1, <2>2
<1>3. ASSUME NEW a \in Attempts, LoginFails(a) PROVE Shape' /\ Data'
  <2>1. Shape'
    BY <1>3, StackKept DEF LoginFails
  <2>2. Data'
    BY <1>0, <1>3 DEF Data, LoginFails
  <2> QED BY <2>1, <2>2
<1>4. ASSUME NEW f \in Forms, NEW u \in Accounts, TapSave(f, u) PROVE Shape' /\ Data'
  <2>1. Shape'
    BY <1>4 DEF IInv, TypeOK, Shape, LoggedOutIsAtLogin, LoginPageOnce, Top, TapSave, Touchable
  <2>2. Data'
    BY <1>0, <1>4 DEF Data, TapSave
  <2> QED BY <2>1, <2>2
<1>5. ASSUME NEW f \in Forms, SignUpSucceeds(f) PROVE Shape' /\ Data'
  <2>1. Shape'
    BY <1>5, StackKept DEF SignUpSucceeds
  <2>2. Data'
    BY <1>0, <1>5 DEF Data, SignUpSucceeds
  <2> QED BY <2>1, <2>2
<1>6. ASSUME NEW f \in Forms, SignUpFails(f) PROVE Shape' /\ Data'
  <2>1. Shape'
    BY <1>6, StackKept DEF SignUpFails
  <2>2. Data'
    BY <1>0, <1>6 DEF Data, SignUpFails
  <2> QED BY <2>1, <2>2
<1>7. ASSUME NEW f \in Forms, CloseThanks(f) PROVE Shape' /\ Data'
  <2>1. Shape' /\ homeName' \in {homeName, currentUser}
    BY <1>7, ThanksClosed
  <2>2. Data'
    BY <1>0, <1>7, <2>1 DEF Data, CloseThanks
  <2> QED BY <2>1, <2>2
<1>8. CASE CloseLogin
  <2>1. Shape' /\ homeName' \in {homeName, currentUser}
    BY <1>8, LoginClosed
  <2>2. Data'
    BY <1>0, <1>8, <2>1 DEF Data, CloseLogin
  <2> QED BY <2>1, <2>2
<1>9. CASE OpenRegister
  <2>1. Data'
    BY <1>0, <1>9 DEF Data, OpenRegister
  <2> QED BY <1>9, <2>1, RegisterOpened
<1>10. CASE OpenPage
  <2>1. Data'
    BY <1>0, <1>10 DEF Data, OpenPage
  <2>2. "page" \in HomePages
    BY DEF HomePages
  <2> QED BY <1>10, <2>1, <2>2, PageOpened DEF OpenPage
<1>11. CASE OpenSignPage
  <2>1. Data'
    BY <1>0, <1>11 DEF Data, OpenSignPage
  <2> DEFINE p == IF currentUser \in Students THEN "records" ELSE "sign"
  <2>2. p \in HomePages /\ homeNav' = Append(homeNav, p)
    BY <1>11 DEF HomePages, OpenSignPage
  <2> HIDE DEF p
  <2> QED BY <1>11, <2>1, <2>2, PageOpened DEF OpenSignPage
<1>12. CASE GoBack
  <2>1. Shape' /\ homeName' \in {homeName, currentUser} /\ formOpen' \subseteq formOpen
    BY <1>12, WentBack
  <2>2. Data'
    BY <1>0, <1>12, <2>1 DEF Data, GoBack, FormLeaves
  <2> QED BY <2>1, <2>2
<1>13. CASE SelectHome
  <2>1. Shape'
    BY <1>13, HomeTabAppears DEF SelectHome
  <2>2. Data'
    BY <1>0, <1>13 DEF Data, SelectHome, Uncover, CheckLogin
  <2> QED BY <2>1, <2>2
<1>14. CASE LogOut
  <2>1. Shape'
    BY <1>14, HomeTabAppears DEF LogOut
  <2>2. Data'
    BY <1>0, <1>14 DEF Data, LogOut, Uncover, CheckLogin
  <2> QED BY <2>1, <2>2
<1>15. CASE Restart
  <2>1. Data'
    BY <1>0, <1>15 DEF Data, Restart, TitleFor
  <2> QED BY <1>15, <2>1, Launched
<1>16. ASSUME NEW t \in {"book", "mine"}, SelectTab(t) PROVE Shape' /\ Data'
  <2>1. Data'
    BY <1>0, <1>16 DEF Data, SelectTab
  <2> QED BY <1>16, <2>1, TabSelected
<1>17. CASE UNCHANGED vars
  <2>1. Shape'
    BY <1>17, StackKept DEF vars
  <2>2. Data'
    BY <1>0, <1>17 DEF Data, vars
  <2> QED BY <2>1, <2>2
<1> QED
  BY <1>1, <1>2, <1>3, <1>4, <1>5, <1>6, <1>7, <1>8, <1>9, <1>10, <1>11, <1>12, <1>13, <1>14,
     <1>15, <1>16, <1>17 DEF Next

\* The invariant holds in every reachable state, for any number of accounts, logins
\* and registrations out.
THEOREM SessionInductive == Spec => []IInv
BY IInvInit, IInvStep, PTL DEF Spec

\* Nobody uses the app without an account.
THEOREM SessionIsGuarded == Spec => []TypeOK /\ []LoggedOutIsAtLogin
<1>1. IInv => TypeOK /\ LoggedOutIsAtLogin
  BY DEF IInv
<1> QED BY <1>1, SessionInductive, PTL

\* The home tab's stack is always one the user could build page by page, with one
\* login page at most, however late logins and registrations answer.
THEOREM LoginPageOnceHolds == Spec => []LoginPageOnce
<1>1. IInv => LoginPageOnce
  BY DEF IInv
<1> QED BY <1>1, SessionInductive, PTL

-----------------------------------------------------------------------------
\* A home page that names the account goes on naming it until a registration
\* answers: the step-by-step argument.
LEMMA NamesStep ==
    IInv /\ [Next]_vars =>
      (HomeNamesTheUser /\ ~HomeNamesTheUser' => \E f \in Forms : SignUpSucceeds(f))
<1> SUFFICES ASSUME IInv, Next \/ UNCHANGED vars, HomeNamesTheUser,
                    ~\E f \in Forms : SignUpSucceeds(f)
             PROVE  HomeNamesTheUser'
  OBVIOUS
<1>1. ASSUME UNCHANGED <<currentUser, homeNav, homeName>>, tab' \in {tab, "book", "mine"}
      PROVE  HomeNamesTheUser'
  BY <1>1 DEF HomeNamesTheUser, Top
<1>2. ASSUME homeName' = currentUser' \/ Top' # "home" PROVE HomeNamesTheUser'
  BY <1>2 DEF HomeNamesTheUser
<1>3. ASSUME NEW a \in Attempts, NEW u \in Accounts, TapLogin(a, u) PROVE HomeNamesTheUser'
  BY <1>1, <1>3 DEF TapLogin
<1>4. ASSUME NEW a \in Attempts, LoginSucceeds(a) PROVE HomeNamesTheUser'
  BY <1>2, <1>4, LoginPops
<1>5. ASSUME NEW a \in Attempts, LoginFails(a) PROVE HomeNamesTheUser'
  BY <1>1, <1>5 DEF LoginFails
<1>6. ASSUME NEW f \in Forms, NEW u \in Accounts, TapSave(f, u) PROVE HomeNamesTheUser'
  BY <1>1, <1>6 DEF TapSave
<1>7. ASSUME NEW f \in Forms, SignUpFails(f) PROVE HomeNamesTheUser'
  BY <1>1, <1>7 DEF SignUpFails
<1>8. ASSUME NEW f \in Forms, CloseThanks(f) PROVE HomeNamesTheUser'
  <2>1. UNCHANGED <<currentUser, tab>>
    BY <1>8 DEF CloseThanks
  <2> QED BY <1>1, <1>2, <1>8, <2>1, ThanksClosed
<1>9. CASE CloseLogin
  BY <1>2, <1>9, LoginClosed DEF CloseLogin
<1>10. CASE OpenRegister
  BY <1>2, <1>10, RegisterOpened
<1>11. CASE OpenPage
  <2>1. Top' = "page"
    BY <1>11, PageOpened DEF OpenPage, HomePages, registering
  <2> QED BY <1>2, <2>1
<1>12. CASE OpenSignPage
  <2> DEFINE p == IF currentUser \in Students THEN "records" ELSE "sign"
  <2>1. p \in HomePages /\ homeNav' = Append(homeNav, p) /\ p # "home"
    BY <1>12 DEF HomePages, OpenSignPage
  <2> HIDE DEF p
  <2>2. Top' = p
    BY <1>12, <2>1, PageOpened DEF OpenSignPage, registering
  <2> QED BY <1>2, <2>1, <2>2
<1>13. CASE GoBack
  BY <1>2, <1>13, WentBack DEF GoBack
<1>14. CASE SelectHome
  BY <1>2, <1>14, HomeTabAppears DEF SelectHome
<1>15. CASE LogOut
  BY <1>2, <1>15, HomeTabAppears DEF LogOut
<1>16. CASE Restart
  BY <1>2, <1>16, Launched
<1>17. ASSUME NEW t \in {"book", "mine"}, SelectTab(t) PROVE HomeNamesTheUser'
  <2>1. UNCHANGED <<currentUser, homeNav, homeName>> /\ tab' = t
    BY <1>17 DEF SelectTab
  <2> QED BY <1>1, <2>1
<1>18. CASE UNCHANGED vars
  BY <1>1, <1>18 DEF vars
<1> QED
  BY <1>3, <1>4, <1>5, <1>6, <1>7, <1>8, <1>9, <1>10, <1>11, <1>12, <1>13, <1>14, <1>15,
     <1>16, <1>17, <1>18 DEF Next

\* Only a registration that was left alone misnames the account on the home page,
\* whatever else comes late.
THEOREM OnlySignUpMisnamesHolds == Spec => OnlySignUpMisnames
<1>1. IInv /\ [Next]_vars =>
        [HomeNamesTheUser /\ ~HomeNamesTheUser' => \E f \in Forms : SignUpSucceeds(f)]_vars
  BY NamesStep
<1> QED BY <1>1, SessionInductive, PTL DEF Spec, OnlySignUpMisnames

\* The alert of a registration pops its own page only.
THEOREM ThanksPopsItsFormHolds == Spec => ThanksPopsItsForm
<1>1. IInv /\ [Next]_vars =>
        [(\E f \in Forms : CloseThanks(f)) /\ homeNav' # homeNav =>
           Top = "register" /\ homeNav' = <<"home", "login">>]_vars
  BY ThanksClosed
<1> QED BY <1>1, SessionInductive, PTL DEF Spec, ThanksPopsItsForm

\* A sign page that fits the account goes on fitting it until an answer changes the
\* account: the step-by-step argument.
LEMMA MisfitStep ==
    IInv /\ [Next]_vars =>
      (SignPageFitsUser /\ ~SignPageFitsUser' =>
         \/ \E a \in Attempts : LoginSucceeds(a)
         \/ \E f \in Forms : SignUpSucceeds(f))
<1> SUFFICES ASSUME IInv, Next \/ UNCHANGED vars, SignPageFitsUser,
                    ~\E a \in Attempts : LoginSucceeds(a),
                    ~\E f \in Forms : SignUpSucceeds(f)
             PROVE  SignPageFitsUser'
  OBVIOUS
<1>1. ASSUME UNCHANGED <<currentUser, homeNav, tab>> PROVE SignPageFitsUser'
  BY <1>1 DEF SignPageFitsUser, Top
<1>2. ASSUME tab' # "home" \/ Top' \in {"home", "login", "register", "page"}
      PROVE  SignPageFitsUser'
  BY <1>2 DEF SignPageFitsUser
<1>3. ASSUME NEW a \in Attempts, NEW u \in Accounts, TapLogin(a, u) PROVE SignPageFitsUser'
  BY <1>1, <1>3 DEF TapLogin
<1>4. ASSUME NEW a \in Attempts, LoginFails(a) PROVE SignPageFitsUser'
  BY <1>1, <1>4 DEF LoginFails
<1>5. ASSUME NEW f \in Forms, NEW u \in Accounts, TapSave(f, u) PROVE SignPageFitsUser'
  BY <1>1, <1>5 DEF TapSave
<1>6. ASSUME NEW f \in Forms, SignUpFails(f) PROVE SignPageFitsUser'
  BY <1>1, <1>6 DEF SignUpFails
<1>7. ASSUME NEW f \in Forms, CloseThanks(f) PROVE SignPageFitsUser'
  <2>1. UNCHANGED <<currentUser, tab>>
    BY <1>7 DEF CloseThanks
  <2>2. homeNav' = <<"home", "login">> => Top' = "login"
    BY ShortStacks DEF Top
  <2> QED BY <1>1, <1>2, <1>7, <2>1, <2>2, ThanksClosed
<1>8. CASE CloseLogin
  BY <1>2, <1>8, LoginClosed
<1>9. CASE OpenRegister
  BY <1>2, <1>9, RegisterOpened
<1>10. CASE OpenPage
  <2>1. Top' = "page"
    BY <1>10, PageOpened DEF OpenPage, HomePages, registering
  <2> QED BY <1>2, <2>1
<1>11. CASE OpenSignPage
  <2> DEFINE p == IF currentUser \in Students THEN "records" ELSE "sign"
  <2>1. p \in HomePages /\ homeNav' = Append(homeNav, p) /\ currentUser' = currentUser
    BY <1>11 DEF HomePages, OpenSignPage
  <2>2. p = "records" <=> currentUser \in Students
    OBVIOUS
  <2> HIDE DEF p
  <2>3. Top' = p
    BY <1>11, <2>1, PageOpened DEF OpenSignPage, registering
  <2> QED BY <2>1, <2>2, <2>3 DEF SignPageFitsUser
<1>12. CASE GoBack
  BY <1>2, <1>12, WentBack
<1>13. ASSUME tab # "home", NEW u, Uncover(u, homeNav) PROVE SignPageFitsUser'
  <2>1. homeNav = <<"home">>
    BY <1>13 DEF IInv
  <2>2. homeNav' \in {<<"home">>, <<"home", "login">>}
    BY <1>13, <2>1, HomeChecks
  <2>3. Top' \in {"home", "login"}
    BY <2>2, ShortStacks DEF Top
  <2> QED BY <1>2, <2>3
<1>14. SelectHome \/ LogOut => SignPageFitsUser'
  BY <1>13 DEF SelectHome, LogOut
<1>15. CASE Restart
  BY <1>2, <1>15, Launched
<1>16. ASSUME NEW t \in {"book", "mine"}, SelectTab(t) PROVE SignPageFitsUser'
  BY <1>2, <1>16 DEF SelectTab
<1>17. CASE UNCHANGED vars
  BY <1>1, <1>17 DEF vars
<1> QED
  BY <1>3, <1>4, <1>5, <1>6, <1>7, <1>8, <1>9, <1>10, <1>11, <1>12, <1>14, <1>15, <1>16,
     <1>17 DEF Next

\* Students come to the class's sign page, and staff to a student's records, only when
\* the account changes under the open page.
THEOREM OnlyAnswersMisfitHolds == Spec => OnlyAnswersMisfit
<1>1. IInv /\ [Next]_vars =>
        [SignPageFitsUser /\ ~SignPageFitsUser' =>
           \/ \E a \in Attempts : LoginSucceeds(a)
           \/ \E f \in Forms : SignUpSucceeds(f)]_vars
  BY MisfitStep
<1> QED BY <1>1, SessionInductive, PTL DEF Spec, OnlyAnswersMisfit
=============================================================================
