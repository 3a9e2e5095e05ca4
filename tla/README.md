# TianTianStar in TLA+

TianTianStar is an iOS app for a kindergarten: teachers sign students in, all
accounts have an address book by class, parents pay and read notices. The data
live in a cloud service (LeanCloud, the AVOSCloud SDK); the app is a set of
UIKit view controllers whose logic is in callbacks. This directory models the
parts of it where the order of callbacks matters, checks them with TLC and
proves the central results with TLAPS.

Paths below are relative to `src/TianTianStar/TianTianStar/`.

## The system

| Component | State | Operations | Interacts with |
|---|---|---|---|
| Signing in (`AddressBook/Controller/AddressBookViewController.m` 290-367) | none of its own: what its blocks capture, and the table `SignHistory` | tap, find, its callback, save, its callback | other phones through the table; the session at the callback; alert and toast |
| Address book, loading (same file 35-66, 382-604) | `_allTitleArr`, `_allAddressBookDataArr`, the rows of the table, the menu's title, the saved class | choose a class, query, deal on a background queue, reload, look up rows | the HUD; the next component through the arrays |
| Address book, signing style (same file 90-137, 226-313) | editing, selection, the select-all button | edit, tap a row, select all, sign | the arrays; signing in; toasts |
| Session (`AppDelegate.m`, `Home/ViewController/HomeViewController.m`, `Login/ViewController/LoginViewController.m`, `User/Controller/UserCenterViewController.m`) | `[AVUser currentUser]`, the selected tab, the home tab's stack of pages, labels | login, registration, logout, open and close pages, restart | everything that reads `currentUser` |
| Login form (`LoginViewController.m` 286-334) | two texts, the button | edits, the clear button, appearance | session |
| Registration (`Login/ViewController/RegisterViewController.m`) | a form, sign-ups under way | checks, sign-up, its alert, which pops the page | session, alerts |
| Alert queue (`ThirdClass/SIAlertView/SIAlertView.m`, adapted by the app) | the queue, the current alert, an animating flag | show, dismiss, animations that complete | every page that reports something |
| Toasts and spinners (`Util/Constant.m` 150-161) | the HUDs of a view, timers | show, hide all | every page that loads something |
| Sign-in calendar (`Home/ViewController/Sign/SignViewController.m`) | starred days | query, lookup by day | the table `SignHistory` |
| Payment (`Home/ViewController/Pay/`, `Util/Constant.m` 256-371) | the amount | edit, pay by Alipay or WeChat | payment SDKs |
| Notices (`Home/ViewController/NoticeMessage/`, `HomeViewController.m` 423-435) | list, newest notice | send, query | the table of notices |
| User detail page, bills, chat, cells | texts on a page | one query or none | |

The main thread runs all UI code and all SDK callbacks; the only other thread
is the global queue of line 556. What is hard in this code is hence not locking
but order: requests of several phones on one table, a request and its callback
with the user, the account or the clock changing in between, and two loads
whose blocks share arrays. What makes each component correct:

- *signing in*: one record per student and day, by the account that tapped; the
  teacher is told the truth; every tap leads to an outcome;
- *loading*: titles and sections split the class that was asked for; the table,
  the arrays and the menu agree; the spinner ends;
- *signing style*: the users signed in are those displayed;
- *session*: nobody uses the app logged out; labels and pages are those of the
  account; an answer or an alert that comes late pops no page but its own;
- *login form*: the button is enabled exactly for a well-formed pair of texts;
- *alerts*: one at a time, each shown, none lost, none answered twice;
- *calendar*: the starred days are those of the records;
- *payment*: the amount asked for is the one displayed, as nearly as its types allow;
- *notices*: the newest shown is the newest known.

`PROJECT.json` lists the hazards line by line.

## Modules

| Module | Models | Instance and configurations |
|---|---|---|
| `AttendanceRegister` | what a teacher may expect of signing in (abstract) | |
| `Attendance` | signing in; implements `AttendanceRegister` | `MCAttendance`, `Attendance_*.cfg` |
| `SignCalendar` | a student's calendar over `AttendanceRegister` | `SignCalendar.cfg` |
| `Roster` | loading and sections | `MCRoster`, `Roster.cfg` |
| `AddressBookPage` | the signing style, extends `Roster` | `MCAddressBookPage`, `AddressBookPage.cfg` |
| `Session` | login, registration, logout, pages, labels | `Session.cfg`, `Session_title.cfg` |
| `LoginForm` | two texts and a button | `LoginForm.cfg` |
| `AlertService` | what the app expects of alerts (abstract) | |
| `AlertQueue` | `SIAlertView`; implements `AlertService` | `MCAlertQueue`, `AlertQueue.cfg` |
| `Payment` | an amount from the text to the order | `MCPayment`, `Payment.cfg` |
| `NoticeLabel` | the newest notice on the home page | `NoticeLabel.cfg` |
| `AttendanceProofs`, `SignCalendarProofs`, `SessionProofs`, `AlertQueueProofs`, `NoticeLabelProofs` | proofs about the module each is named for | |
| `AddressBookProofs` | proofs about `Roster` and about `AddressBookPage` over it | |
| `TextFieldProofs` | proofs about `LoginForm` and `Payment`, the two pages that work on what is typed | |
| `SequenceLemmas` | lemmas on sequences that two of them share | |

Three modules are read together with another: `AddressBookPage` extends
`Roster`, `SignCalendar` instantiates `AttendanceRegister` and takes its steps as
those of the teachers, and `Attendance` and `AlertQueue` each instantiate the
service they implement. Elsewhere one component stands in another only as a
choice: the account may change under a chain of `Attendance` at any time, and
`Session`'s success alert, the only one the app shows over a page that others
then use, keeps touches from everything until its button is touched.

A definition commented `Slip:` is no part of a model: it is a plausible
programming mistake in the definition after it. Putting it in that definition's
place makes a property fail, which shows that the property depends on the code;
`PROJECT.json` pairs slips and properties under `mutants`.

### Attendance

A chain is one call of `networkSignDateWithUserObject:`. `ChooseSign` is the
loop of `chooseSignStudent:`, which starts one chain for each selected row in
one run of the main thread. A chain then moves through `querying`, `answered`,
`saving`, `acked` or `nacked` to `filtered`, `signed` or `failed`. The callback
of the find is two actions, `FilterSigned` and `AddSign`, for the two branches
of line 330; the callback of the save is `ReportSave`.

The service is external and modelled from its use: `ServeFind` answers from the
table as it is then, `FailFind` is an error (objects nil), `ServeSave` stores
the record and its answer may be lost, `FailSave` is an error with nothing stored
yet. The SDK's timeout does not recall the request, so such a save may still be
stored, before or after the failure is told (`StoreLate`). Both kinds of request are
served in any order. `Quit` is a kill and restart: callbacks are gone, a save on its
way (`OnItsWay`) may still arrive (`orphan`). `LogIn` and `LogOut`
change the account under a chain, `NextDay` moves one phone's clock. A day
stands for year, month and day; records of one day are the same to the code.
Where two records of one day tie for the first place, either being first leads
to the same branch. The service answers at most 100 records; the newest is
among them, and no other is looked at.

`tapper`, `prior`, `errored` and `switched` (the account changed on that phone
before the find was answered) are history variables, used by properties only.

### AttendanceRegister

What remains of signing in without its requests. A tap makes claims, a claim
is written down once at most (`Record`) and its outcome told once at most
(`Tell`): *signed* for a claim in the register, *filtered* for one that is not but
agrees with one that is, *failed* for any. A quit drops claims that have no
outcome, and a dropped claim may still be written down, as may one that was told to
have failed. `Attendance` implements it
with the chains as claims, `signHistory` as the register and the phase of a
chain as its outcome: find and filter are stutters until an outcome is told.
The register says nothing of duplicates: the code does not prevent them.

### SignCalendar

A student opens the calendar (`OpenCalendar`), which asks once for the records
with the student's name, by ascending `signDate`, without a limit of its own
(190-194), is answered (`ServeHistory`, `FailHistory`), and makes each record's
day a star (`ShowStars`). Meanwhile teachers sign in: `Attend` is any step of
`AttendanceRegister`, which `Attendance` implements, so what holds here holds over
the real chains. The service is external; that it returns no more than `Limit`
records, and the oldest, is how it answers a query that sets no limit. Among records
of one day any may be the ones returned. `CloseCalendar` takes the page and its callback away. `told` remembers
what teachers were told before the page opened, `errored` a failed query. The
page is external to the phones of the teachers; one page at a time is enough,
since pages do not share anything but the table.

### Roster

A load goes through its query, `Deal` (the callback, which empties both arrays
and dispatches the block), loop 1 (`AddTitle`, one user at a time), loop 2
(`AddSection`, one title at a time) and `Reload` (main queue). Two blocks on the
global queue interleave at these steps. Loop 2 enumerates a mutable array:
when another load changes it, the runtime raises at the next element
(`mutated`, `EnumerationRaises`). What unsynchronised access does beyond that
is undefined and stands for a crash that may come or not (`RaceCrashes`). After
`Deal` the table still has the rows of its last reload: `LookUpRow` is a row laid
out, or tapped, that the arrays no longer have, which raises. An exception ends
the app and with it what it held in memory (`Crash`); a restart is the initial
state again, so the model stops there. `PickClass` and
`MenuClosed` are the two ends of the popover's closing animation: the class is
saved at once, and is read from the defaults only when the popover is gone.

A failed query leaves the list nil, which is dealt with like an empty class.
`mixed`, `overtaken` and `dealt` are history variables. The initials of names are
a constant: what the pinyin of a name is does not matter to the loops, only which
users share one.

### AddressBookPage

Adds what a teacher touches. `Touchable` says that no HUD covers the page; the
navigation bar, with the edit and menu buttons, is never covered.
`PageReload` extends `Roster`'s `Reload` by what `reloadData` does to the
selection. A toast (`AskForSelection`, `ReportFailure`) covers the page, and its
timer hides every HUD there is (`ToastTimer`), as a reload does. `bared`
remembers that this happened under a load still under way.

### Session

`currentUser` is the SDK's: it is set before the callback of a login runs. A
registration that succeeds may set it too, which `AVUser.h` suggests (a user
obtained by a sign-up is authenticated) and the app neither uses nor prevents:
`SignUpSucceeds` leaves both possible. `LoginSucceeds` is the whole callback, the
pop and the delegate's check. Neither button is disabled by its request, so
several may be out, and one may answer when its page is gone: `Attempts` and
`Forms` name them. A registration's alert stands over whatever page is in view
(`thanks`) and keeps touches from it; its button pops the registration page if
that is still in the stack (`formOpen`: popping a page that is not there does
nothing). A page that appears on the home tab is `Uncover`, and if it is the home
page it runs `checkUserLoginStatusAndShowLoginViewController` (`CheckLogin`). The
sign button opens one of two pages by the type of the account (`OpenSignPage`);
the other buttons of the home page open pages that do not depend on it
(`OpenPage`). `Restart` keeps the session, which is on disk. At launch it is taken
as readable when the home page first appears.

The checks of the registration form are one guard of `TapSave`: a form that
fails them gets a toast and changes nothing.

### LoginForm

Only lengths matter to the check and to the limits, so a text is its length.
UIKit calls `textField:shouldChangeCharactersInRange:replacementString:` before
it changes the text, and the check reads the text that is there: `EditPhone` and
`EditPassword` run `Check` on the unprimed lengths. A text that would pass its
limit is cut by the page and the edit refused, without a check. The clear
button asks `textFieldShouldClear:` first, likewise. `Paste` bounds what one edit
inserts.

### AlertQueue

All that the app shows are alerts with one button and the bounce transition
(`Util/Constant.m` 96-112), so an alert's handler runs when its button is touched and
never otherwise. `show`, `dismissAnimated:cleanup:` with its completion, and the
completion of the appearing animation are one action each; `Show` of an alert
called again, from a completion, is part of that completion (`Appear`).

The model is precise about which callbacks can be due. `leaving` holds, for each
alert, the `cleanup` flags of its dismissals still to complete, oldest first:
an alert touched while it appears is dismissed with cleanup, then the
completion of its appearing may dismiss it again, without. Core Animation
stops an animation when another is added under its key or when the view leaves
its window, and tells the delegate with the next commit, before another touch
and before another animation ends: `Stopped`, `NoneStopped`. Appearing and leaving
have different keys (588 and 668: `bouce`, `bounce`), so a dismissal does not stop
an appearing. `HasNext` is the comparison of line 430 on unsigned integers: the
index of an alert that is not queued, and the count of an empty queue less one,
are both very large. A button that shrinks takes no touch, since hit testing
sees the model layer, already scaled to nothing.

The user may touch a button that still appears, which nothing in the code
prevents; the history variable `hurried` remembers that it happened.
Left out: the background window, the key window and the tint, which are cosmetic.

### AlertService

Posted alerts wait; the service shows one of them or none; the user answers the
one on show; an answered alert does not come back. `AlertQueue` implements it with
the unanswered alerts of the queue as those waiting and the alert in front, as
long as it is not leaving, as the one on show.

### Payment

The field takes any text. Its number is counted in mils, thousandths of a yuan,
and the label and the orders in fen: a third decimal puts a text below, at or above
the half fen at which two decimals turn. Inside, an amount is a binary fraction
`m / 2^e`. `FloatValue` rounds a number to the 24 bits of a float, to nearest and to
even; a CGFloat has as many bits on 32-bit devices and 53 on 64-bit ones (`width`).
The label shows the `doubleValue` of the text in a CGFloat with two decimals
(`PayViewController.m` 153-157): on a 32-bit device that is the float again, on a
64-bit one `TwoDecimalsOfDouble`, which is the text's own two decimals except in the
middle between two fen, where the last bit of the double decides
(`DoubleIsAbove`). The popup is given the text's `floatValue` (175). Alipay's order is
the popup's amount with two decimals, WeChat's is the amount times 100 with the
fraction dropped. All this is exact integer arithmetic within TLC's 32 bits.

Label and orders hence differ: 0.045 yuan is labelled 0.04 and ordered from Alipay
as 0.05 on a 64-bit device, 1.999 is labelled 2.00 and WeChat is asked for 199 fen,
131072.01 is ordered from Alipay as 131072.02, and WeChat is asked for more than
262144.02 shows. The field's number pad has no point, so what it types are whole
yuan; a fraction is pasted, or typed on another keyboard.

Left out are texts with more than three decimals: a further one only tells on which
side of a middle a text lies, and texts on both sides are there. Texts end below
2^24 yuan, where a float begins to skip whole yuan and where the fen of an order
soon pass what an `NSInteger` holds on a 32-bit device; the field does not prevent
either. A pasted minus is taken for no number, since no popup comes of it.

The specification is `PaySpec`, with names of its own for what `LoginForm` also has:
the proofs about both share a module.

### NoticeLabel

Each time the home page appears to a user, and once more when a login succeeds,
a query is sent and its answer becomes the text of the label (429-433). Queries
are served and answered in any order. A failed one gives nil, which is formatted as
`(null)`. Notices are numbered in the order of `updatedAt`. `askedAt` and `alone`
are history variables: a query is alone until another is out at the same time.

## Runs

| Run | Question | Bounds, and why they are enough |
|---|---|---|
| `attendance_safety` | do the filter, the alerts and the records tell the truth | one student, phone and account, three chains, one midnight. Chains of different students never meet; chains differ only in their fields, so a second phone adds clock skew, which a save stored after midnight also gives. Three chains are the fewest that show a duplicate behind a later record. A logout and a login, of the one account, may come under any chain |
| `attendance_settles` | does every chain end, and is it a register, also for taps on several students | two students in one tap, two phones, two chains: one phone quits while the other's chain goes on |
| `sign_calendar` | does a student see what the teacher was told | three claims, two students, two days, room for two records: an answer that is cut, one that is not, another student's records, a duplicate, and a record written while the page is open |
| `roster` | do arrays, table, menu and spinner agree | two loads, two classes, of which one has two initials and the other one of the same: every pair of steps of two loads meets, and a load slot is reused without limit |
| `address_book_page` | who would be signed in | two loads, one user in each class, one toast timer: a kept row is somebody else, or missing. The classes, swapped together with their users and initials, are symmetric, and so are the load slots |
| `session` | who is logged in, what is shown, which page an answer pops | two accounts of one type and one of the other, two logins and two registrations out: one of each may be late behind another |
| `login_form` | what may stand behind an enabled button | pastes of up to 21 characters: one edit can empty, fill, cut and overfill either field |
| `alerts` | is an alert lost, stuck or answered twice; does the flag end; is it a service; when do two show | four alerts: one that is left, one that shows in its place, one that comes while those two change, one over two at once. What two animations of one alert do is told within three |
| `payment` | what would the payment apps be asked for | every number of mils from 8 to half a yuan (below 8 the powers leave TLC's 32 bits; the theorems cover those too), 28 mils around eleven powers of two up to 2^20 yuan, some texts just below whole fen and whole yuan, and some beyond the size at which floats hold fen or products hold yuan; both devices. The error depends on the bits of the fraction, which repeat from one power of two to the next with one bit less |
| `notice_label` | what does a query leave on the label | three queries out: one overlaps two; two notices posted beside them |
| `one_record_per_day`, `session_title` | two comments of the code, taken at their word: TLC refutes each | the smallest instance with a counterexample, and that of `session` |

Bounds: `Tasks` (chains), `LastDay` (days), `Claims`, `Limit` (records the service
returns), `Loads` (loads under way at a time), `MaxToasts` (toast timers at a time),
`Attempts` and `Forms` (logins and registrations out at a time), `Paste`
(characters in one edit), `Alerts`, `Texts`, `Queries` (out at a time),
`MaxNotices`. Deadlock is not checked where a bound or a crash ends the run:
`Tasks` spent, `crashed`, every alert answered. In the other runs it is.

### What the properties say

- `RecordedBeforeTapIsFiltered`: a record in the table at the tap is stored again
  only after a failed find, or behind a record of a later day. `SettledMeansRecorded`:
  success alert implies stored; silent end implies somebody stored one.
  `SignTeacherTapped`: a record names the account that tapped, unless the account
  changed on that phone before the find was answered (line 340 reads it then).
  `RegisterSpec`: outcomes are final, and each step is one of a register.
- `ToldIsStarred`: a day that a teacher was told is signed, before the student looked,
  has its star, unless the query failed or older records fill the limit.
- `SoleLoadShowsItsClass`: after a load that met no other, the arrays partition
  the class by initial and the table shows them. `MenuNamesTheList`: the class
  on the button is the one listed, unless its answer was overtaken, failed or mixed.
- `SignsWhomItShows`: with nothing but the HUD between the teacher and the arrays,
  a press of the sign button finds at each selected row the user displayed,
  except when a HUD was hidden under a load still under way. Without that
  exception TLC refutes it: a toast's timer, or the reload of an earlier load,
  takes down the spinner of a later one.
- `LoggedOutIsAtLogin`, `LoginPageOnce`: across late answers, logouts, the
  registration page, its alerts and restarts, nobody is logged out on a page
  other than the login's, and the stack of pages is one a user could build.
- `OnlySignUpMisnames`, `OnlyAnswersMisfit`: what parts the home page's name, or an
  open sign page, from the account. The unconditional claims
  (`HomeNamesTheUser`, `SignPageFitsUser`) are false, and these say by which step
  only. `ThanksPopsItsForm`: a registration's alert pops its own page.
- `OneTextIsFine`: behind an enabled login button at most one text is malformed, so
  the lag of one edit never adds up.
- `AnimatingEnds`, `QueueIsInView`, `AnsweredLeaves`, `ShownAfresh`: two animations of
  one alert leave no flag set, no alert stuck, none answered twice, and no
  callback for its next appearance. `OneByOneUnlessHurried`: until a button is
  touched that still appears, at most one alert is on screen and the flag, the
  current alert and the queue agree about it. `ServiceSpec`: it is a service.
- `AlipayAsksNearlyWhatIsShown`: label and order are made from different types, and
  differ by a fen at most, or by what the float's unit allows where that is larger.
  They are equal for whole yuan, and for texts of two decimals below 131072 yuan.
  `WeChatAsksNearlyWhatIsShown`: the order is what is shown or one fen less,
  give or take what the float's unit allows where that is larger; it is what is
  shown for whole yuan, on 32-bit devices below 524288 yuan.
- `SoleQueryShowsNewest`: a query that met no other never takes the label back.
  `LabelCatchesUp`: it shows the newest notice in the end, or that it failed.

### Fairness

`Attendance!FairSpec` has weak fairness for each chain's next step: every request
is answered or fails (the SDK has a timeout) and the main queue runs every block.
`Roster!FairSpec` has the same for each load's next step and for the background
queue, `SignCalendar!FairSpec` and `NoticeLabel!FairSpec` for each query and its
callback. Each chain, load and query has its own condition, since one that is
always served must not starve another; a weak one is enough, as a pending step
stays enabled until it is taken or its chain is gone. Users, the clock and kills
are never forced, with one exception: `AlertQueue!FairSpec` also has a user who
touches the button of an alert that stays in front, without whom no alert
would ever leave. Its condition is weak too: an alert that others keep sending
away need not be touched in between, and `EveryAlertAnswered` says that
nevertheless each gets its turn.

### Refinement

`Attendance` implements `AttendanceRegister` and `AlertQueue` implements
`AlertService`: both runs check the abstract specification as a property under the
mapping above, and both are proved. `SignCalendar` is checked and proved over the
abstract register only, and by the first refinement its results hold over the
chains.

## Divergences

Two comments are checked at their word and refuted; `PROJECT.json` quotes them
under `findings`. `one_record_per_day`: two records of one student and day, from two
taps of which neither find sees the other's save, although the callback is to filter
the students already signed in. `session_title`: the sign button, "divided by
authority", keeps the title of the account of the launch.

Where the code keeps less than its comments promise in other places, the passing
properties state what it keeps, and the exception they name is what goes wrong:

| Property | What its exception allows |
|---|---|
| `RecordedBeforeTapIsFiltered` | a record of today is not found behind one of a later day, or after a failed find (`AddressBookViewController.m` 322-332) |
| `SignTeacherTapped` | a record names the next account, or none (340) |
| `SoleLoadShowsItsClass` | two loads dealt with at once leave titles and sections that do not correspond (592) |
| `ToldIsStarred` | the newest days of a long record are "not signed in" (`SignViewController.m` 144, 190) |
| `OnlySignUpMisnames` | after a registration that was left alone answers, the home page names another account than the current (`HomeViewController.m` 459) |
| `OnlyAnswersMisfit` | a late login or registration leaves a sign page open for an account of the other type (371, 380) |
| `OneTextIsFine` | the login button is one edit late, and blind to cuts and clears: one text may be malformed behind it (`LoginViewController.m` 284) |
| `OneByOneUnlessHurried` | a touch on a button that still appears brings a second alert over the first (`SIAlertView.m` 381, 1015) |
| `AlipayAsksNearlyWhatIsShown` | 0.045 yuan is shown as 0.04 and ordered as 0.05; 131072.01 is ordered as 131072.02 (`PayViewController.m` 156, 175) |
| `WeChatAsksNearlyWhatIsShown` | WeChat is asked for one fen less: 0.29 yuan is 28 fen, and 1.999 yuan, shown as 2.00, is 199 (`PayDetailViewController.m` 198) |
| `SoleQueryShowsNewest` | of two queries that overlap, the answer that comes last is shown, though older (`HomeViewController.m` 432) |
| `LabelCatchesUp` | after a failed query the label says `(null)` (432) |

## Proofs

TLC's runs are small; what follows is proved for every value of the constants that
meets their assumptions. The assumptions say that nil is not a name, that bounds
are naturals, that the two types of account are disjoint, that a class's users
are a sequence, and for `SignCalendar` that days are integers, the limit positive
and the claims finite, and for `Payment` that texts are of three decimals at most, above zero and below
2^24 yuan. Fairness
plays no part. Every `IInv` (`PageIInv`, `PayIInv`) is also an invariant of a run
and has type correctness as its first part. The login form's, `FormIInv`, is the
conjunction of its two properties. Every invariant and every action property of
the passing runs is a theorem.

**`AttendanceProofs`**: `TypeCorrect`, `Inductive` (`IInv`), `DuplicatesAreExplained`
(`RecordedBeforeTapIsFiltered`), `OutcomesAreTrue` (`SettledMeansRecorded`),
`RecordsNameTapper` (`SignTeacherTapped`), `KeepsRegister` (`RegisterSpec`). None
of the properties is inductive: that a stored
record passed the filter says nothing about the find it passed it with. `IInv` adds
the way there. `TappedChainsAreFilled` says where a chain in the table can be,
`AnswersComeFromTable` that a find which did not fail returned all that its tap
saw, `SavesPassedFilter` that what the filter established stays true while
the record is on its way (the table only grows), also after its failure was told, `FilteredHasRecord` that a
filtered chain points at a record, and `NamesTapper` that a chain under way on a
phone that kept its account still finds it there.
One lemma for each kind of step, one step in it for each part; `FrameStep` serves the
actions that touch no chain. The refinement has one lemma per kind of step, and takes from `IInv` that a chain saved
only once and that a told outcome is the register's.

**`SignCalendarProofs`**: `CalendarIsSafe` (`IInv`), `ToldIsStarredHolds`. A step of
the register keeps what was told and what is on record (`Kept`, `Grows`), so an
answer that covers the days told goes on covering them while records are added:
more records up to a day only make the limit bite sooner. That an answer covers
them at first is a counting argument: if the record's day were left out, `Limit`
records of earlier or the same day would be in the answer, and the record with
them would be one too many up to that day.

**`AddressBookProofs`**, about `Roster`: `RosterTypeCorrect`, `RosterInductive`
(`IInv`), `SoleLoadIsRight` (`SoleLoadShowsItsClass`), `MenuIsRight`
(`MenuNamesTheList`). The invariant of the loops is `Splits`: after so many users the
titles are the initials of those users, each once; after so many titles the sections
are what the whole list filters to under each. It is claimed of a load only while
none was mixed with it. `MenuNamesTheLatest` says which load's class the button
names, in the order in which the loads were asked for.

About `AddressBookPage`: `PageInductive` (`PageIInv`), `PageTypeCorrect` (`PageTypeOK`),
`SignsWhomItShowsHolds` (`SignsWhomItShows`), `PageShowsItsClass` (Roster's two properties,
in the page), `SigningRaisesOnlyBared` (the loop of `chooseSignStudent:` goes past the
arrays, and raises, only after a HUD was hidden under a load). `PageSpec` is a
specification of its own: a reload of the page also changes the selection, and timers
hide HUDs that `Roster` would keep. `PageSteps` sorts each step of the page into the
step of `Roster` that it makes, if any, so `IInv` carries over; `PageIInv` adds to it
what the property needs and does not say. `HudCoversLoads`: while a load is under way
a HUD is in view, unless something bared the load. `TableFitsArrays`: as long as no load
is being dealt with, the table shows the sections that have a title, whichever loads
filled them. Nothing more is needed: with no HUD and nothing bared no load is under
way, the table fits, and each selected row is a row of the table. What each of two
loads did to each row need not be known.

**`SessionProofs`**: `SessionInductive` (`IInv`), `SessionIsGuarded` (type correctness,
`LoggedOutIsAtLogin`), `LoginPageOnceHolds`, `OnlySignUpMisnamesHolds`,
`ThanksPopsItsFormHolds`, `OnlyAnswersMisfitHolds`. `IInv` adds
that the other tabs are in view only with the home page alone in the stack,
without which a logout would leave a page over the home page, and that a
registration whose page is open has it in view. The stack takes few values, and
lemmas such as `Pair` and `Triple` compute what each operation makes of them. That only
answers leave a sign page to the wrong account is shown step by step: a page is opened
for the account there is, and a logout finds the home page alone in the stack.

**`TextFieldProofs`**, about `LoginForm`: `LoginFormTypeCorrect`, `OneTextIsFineHolds`, for
pastes of any length. The two properties are inductive together.

About `Payment`: `PaymentInductive` (`PayIInv`), `PaymentTypeCorrect`,
`AlipayAsksNearlyWhatIsShownHolds`, `WeChatAsksNearlyWhatIsShownHolds`, for every text of
the assumption, of which the run takes some. `ScaledIs` shows that the two factors of a
power come to `n * 2^e` over 1000, `Normalized` that each number has a scale at which it
has 24 bits, so that its float is off by half a unit of `2^-e` yuan (`FloatOf`). Two decimals of
the float are off by half a fen and 100 half units (`RoundedNear`). Both label and
Alipay's order are thus near the text, and so near each other (`AlipayNear`); for a
text of two decimals the error stays below half a fen as long as the unit is
`2^-7` yuan or finer, that is below 131072 yuan, and the rounding finds the text again
(`RoundedBack`). For the label of a 64-bit device nothing need be known of its middles
but that they go to one of the two fen beside them (`DecimalsOfDouble`). WeChat's
product is off by 64 units more in a short CGFloat (`ProductNear`), and cutting it
loses less than a fen (`CutNear`, `WeChatNearDouble`, `WeChatNearFloat`). A whole number of
yuan is a float with no error (`WholeYuanOf`), so nothing is cut until the product itself
has to be rounded. The invariant ties the order to the popup in view, and
the popup to the text.

**`AlertQueueProofs`**: `QueueInductive` (`IInv`), `QueueIsSafe` (type correctness,
`QueueIsInView`), `FlagIsCleared` (`AnimatingEnds`), `AnsweredAlertsLeave`
(`AnsweredLeaves`), `ShownAfreshHolds` (`ShownAfresh`), `QueueServes` (`ServiceSpec`),
`PatientSeesOne` (`OneByOneUnlessHurried`). `IInv` has two parts. `QueueInv` is the queue
and the screen; it adds to their properties that of the dismissals of one alert only
the oldest can be for good, which is what makes an alert leave the queue once.
`OneStopped` is about the callbacks of animations that were stopped with their window,
which come before anything else: they belong to one alert at a time, and while those
of a window that is gone are due, the current alert is either still busy with the
flag or not leaving, so that no completion turns the queue to the alert that is gone.
From that an alert that shows again has none of them left. `OneStopped` rests on
`QueueInv`, which needs nothing of it. `SequenceLemmas` has what these steps do to
the queue.

**`NoticeLabelProofs`**: `NoticeLabelIsSafe` (`IInv`), `SoleQueryShowsNewestHolds`.
`IInv` adds that a lone query found a notice that was there when it was asked, and
that the label it will replace is no newer.

Only model-checked: liveness (`EverySignSettles`, `CalendarIsDrawn`, `SpinnerEnds`,
`EveryAlertAnswered`, `LabelCatchesUp`), since the prover has no fairness or `ENABLED`. The
two refuted claims are TLC's as well.

## Not modelled

- *The sign page as a whole*, `AddressBookPage` together with `Attendance`: the two
  meet in one step, the press of the sign button, which hands over the users of the
  selected rows. `SignsWhomItShows` is about that step on one side and
  `ChooseSign`, which takes any set of students, on the other; the product of the
  two state spaces has no behaviour besides.
- *Notices*: the list fills itself once, as it opens; sending stores a notice at each
  touch of a button that stays enabled, and nothing in the repository says that two
  equal notices are one. `Post` stands for both.
- *Payment services*: what Alipay makes of the order number, which is the same in
  every order, and what either app answers, are theirs. The code logs the answers.
- *The user centre's header*, filled once: kept in `Session` as `mineName`, but no
  text says when it should change, so no property is stated.
- *User detail page*: one query that fills one page once. *Bills*: fixed texts.
  *Chat*: wrappers over an SDK, in a tab that `AppDelegate.m` has commented out.
  *Toasts and spinners* on other pages than the address book, where nothing under
  them can be touched in a wrong state. *Cells and base controllers*: layout.
- *WeChat's order signing and XML*: the vendor's sample code, one synchronous request.
- *Vendored libraries*: they appear as external actions of the modules that use them.
