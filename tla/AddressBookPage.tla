-------------------------- MODULE AddressBookPage --------------------------
(***************************************************************************)
(* The address book page in its sign-in style: the table of module Roster  *)
(* with editing, the selection, the select-all and sign buttons, and the   *)
(* toast.                                                                  *)
(*                                                                         *)
(* The only thing between a teacher's finger and arrays that are being     *)
(* rebuilt is the HUD over the page, and both a reload and a toast's timer *)
(* hide every HUD of the page, whoever put it up.  The alert for a student    *)
(* signed in, a window of its own over everything, is left out: it only    *)
(* takes touches away for a while.                                         *)
(***************************************************************************)
EXTENDS Roster

CONSTANT MaxToasts  \* bound on toast timers running at once
ASSUME MaxToastsAssumption == MaxToasts \in Nat

VARIABLES
    editing,    \* _addressBookTV.editing
    selected,   \* indexPathsForSelectedRows: pairs of section and row
    allButton,  \* _selectedAllBtn.selected
    toasts,     \* timers of showHUDProgressTitleWithMessage still to fire
    signing,    \* a student's sign-in is under way and may still fail
    bared       \* history: a HUD was hidden under a load still under way

controls == <<editing, allButton, toasts, signing>>
vars == <<rosterVars, controls, selected, bared>>

UnderWay == {l \in Loads : load[l].phase # "free"}
\* Slip: the HUD lets touches through.
TouchableUnderHud == appeared /\ ~closing /\ ~crashed

Touchable == appeared /\ ~closing /\ ~hud /\ ~crashed

-----------------------------------------------------------------------------
PageInit ==
    /\ Init
    /\ editing = FALSE
    /\ selected = {}
    /\ allButton = FALSE
    /\ toasts = 0
    /\ signing = FALSE
    /\ bared = FALSE

\* Whether a HUD has been hidden under a load, until no load is under way.
BaredAfter(hides) ==
    bared' = (UnderWay' # {} /\ (bared \/ hides))

\* Edit or done, in the navigation bar; leaving editing drops the selection,
\* and the select-all button keeps its state.
ToggleEdit ==
    /\ appeared /\ ~closing /\ ~crashed
    /\ editing' = ~editing
    /\ selected' = {}
    /\ UNCHANGED <<rosterVars, allButton, toasts, signing, bared>>

\* A row tapped in editing.
TapRow(row) ==
    /\ Touchable /\ editing
    /\ selected' = IF row \in selected THEN selected \ {row} ELSE selected \cup {row}
    /\ UNCHANGED <<rosterVars, controls, bared>>

\* Select all, or select anew: the rows come from the arrays, and the table
\* selects those it has.
ChooseAllStudent ==
    /\ Touchable /\ editing
    /\ allButton' = ~allButton
    /\ selected' = IF allButton THEN {} ELSE selected \cup (Rows(sections) \cap Rows(shown))
    /\ UNCHANGED <<rosterVars, editing, toasts, signing, bared>>

\* The sign button with rows selected: each is looked up in the arrays and
\* signed in (module Attendance); one that is not there raises.
ChooseSignStudent ==
    /\ Touchable /\ editing /\ selected # {}
    /\ IF \A row \in selected : Resolves(row) THEN UNCHANGED rosterVars ELSE Crash
    /\ signing' = TRUE
    /\ UNCHANGED <<editing, allButton, toasts, selected>>
    /\ BaredAfter(FALSE)

\* A toast covers the page until its timer fires.
ShowToast ==
    /\ toasts < MaxToasts
    /\ toasts' = toasts + 1
    /\ hud' = TRUE
    /\ UNCHANGED <<page, order, load, arrays, shown, crashed, history, editing,
                   allButton, selected, bared>>

\* The sign button with none selected: a toast asks to select.
AskForSelection ==
    /\ Touchable /\ editing /\ selected = {}
    /\ ShowToast
    /\ UNCHANGED signing

\* A student's sign-in fails: a toast says so, whatever the page is doing.
ReportFailure ==
    /\ ~crashed /\ signing
    /\ ShowToast
    /\ signing' \in BOOLEAN

\* The timer of a toast hides every HUD of the page.
ToastTimer ==
    /\ ~crashed /\ toasts > 0
    /\ toasts' = toasts - 1
    /\ hud' = FALSE
    /\ UNCHANGED <<page, order, load, arrays, shown, crashed, history, editing,
                   allButton, signing, selected>>
    /\ BaredAfter(TRUE)

\* Slip: the selection is kept over a reload.
PageReloadKeeping(l) ==
    /\ Reload(l)
    /\ BaredAfter(TRUE)
    /\ UNCHANGED <<controls, selected>>

\* The table drops its selection when it is reloaded.
PageReload(l) ==
    /\ Reload(l)
    /\ selected' = {}
    /\ BaredAfter(TRUE)
    /\ UNCHANGED controls

PageNext ==
    \/ Step /\ BaredAfter(FALSE) /\ UNCHANGED <<controls, selected>>
    \/ \E l \in Loads : PageReload(l)
    \/ \E row \in Rows(shown) : TapRow(row)
    \/ ToggleEdit \/ ChooseAllStudent
    \/ ChooseSignStudent \/ AskForSelection \/ ReportFailure \/ ToastTimer

PageSpec == PageInit /\ [][PageNext]_vars

-----------------------------------------------------------------------------
PageTypeOK ==
    /\ {editing, allButton, signing, bared} \subseteq BOOLEAN
    /\ toasts \in 0 .. MaxToasts
    /\ selected \subseteq Rows(shown)

\* The teacher signs in the students the page shows: whenever the page can be
\* touched, a press of the sign button would find at every selected row the
\* user displayed there.  The HUD ensures it although nothing locks the
\* arrays, however loads overlap, except when a reload or a toast's timer has
\* bared a load still under way.
SignsWhomItShows ==
    (Touchable /\ ~bared) =>
        \A row \in selected :
            /\ Resolves(row)
            /\ sections[row[1]][row[2]] = shown[row[1]][row[2]]

\* A load under way has the page covered, unless something bared it.
HudCoversLoads == (~crashed /\ ~bared /\ UnderWay # {}) => hud

\* While no load is being dealt with the table shows the arrays, as many sections
\* as there are titles, however the loads before were mixed.
TableFitsArrays ==
    (~crashed /\ Dealing = {}) =>
        /\ Len(titles) <= Len(sections)
        /\ shown = SubSeq(sections, 1, Len(titles))

\* The invariant of the proofs, with that of the loads and the table.
PageIInv ==
    /\ IInv
    /\ PageTypeOK
    /\ sections \in Seq(ToSet(sections))
    /\ HudCoversLoads
    /\ TableFitsArrays
=============================================================================
