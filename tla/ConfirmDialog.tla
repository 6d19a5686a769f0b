--------------------------- MODULE ConfirmDialog ---------------------------
(***************************************************************************)
(* The dialog that asks before the dashboard changes anything              *)
(* (packages/ui/src/components/ConfirmDialog.tsx), with the two ways the   *)
(* pages own it: a request kept in the page's state (tables.tsx) and the   *)
(* hook useRiskConfirm, whose action is kept in a ref.                     *)
(*                                                                         *)
(* After "Confirm" a second of grace passes before the action starts; an   *)
(* answered dialog stays on the screen until its exit animation is over.   *)
(***************************************************************************)
EXTENDS Naturals

CONSTANT None

VARIABLES
    asked,       \* what the dialog asks, or None
    closing,     \* the dialog is answered and still on the screen
    grace,       \* "off"; "on": pending, its timer runs; "dropped": pending, without a timer
    confirming,  \* the action is running
    lateClick    \* history: "Confirm" was clicked on a dialog that was closing

dialog == <<asked, closing, grace, confirming, lateClick>>

DialogInit ==
    /\ asked = None /\ closing = FALSE /\ grace = "off" /\ confirming = FALSE
    /\ lateClick = FALSE

busy == confirming \/ grace # "off"

\* The overlay takes every click while the dialog is on the screen; what has the keyboard
\* focus keeps it.
PageIsFree == asked = None /\ ~closing

\* The page asks.  When the dialog opens, the effect on `open` is cleaned up: a timer that
\* runs is cleared, and `pending` stays.
Ask(request) ==
    /\ PageIsFree
    /\ asked' = request
    /\ grace' = IF grace = "on" THEN "dropped" ELSE grace
    /\ UNCHANGED <<closing, confirming, lateClick>>

\* The page asks, by a key, also under the dialog.  Over an open one the newer request takes
\* the place of the older: a grace that runs goes on, and starts the newer.
AskByKey(request) ==
    /\ asked' = request
    /\ closing' = FALSE
    /\ grace' = IF asked = None /\ grace = "on" THEN "dropped" ELSE grace
    /\ UNCHANGED <<confirming, lateClick>>

\* The buttons are enabled while the dialog closes, too.
ClickConfirm ==
    /\ asked # None \/ closing
    /\ ~busy
    /\ grace' = "on"
    /\ lateClick' = (lateClick \/ closing)
    /\ UNCHANGED <<asked, closing, confirming>>

\* The button, the Escape key or a click beside the dialog.
Cancel ==
    /\ asked # None
    /\ ~busy
    /\ asked' = None /\ closing' = TRUE
    /\ UNCHANGED <<grace, confirming, lateClick>>

\* Mutant of GraceEnds: the dialog stays pending.
GraceEndsPending ==
    /\ grace = "on"
    /\ grace' = "dropped"
    /\ confirming' = (asked # None)
    /\ UNCHANGED <<asked, closing, lateClick>>

\* Mutant of GraceEnds: the buttons are not blocked while the action runs.
GraceEndsUnblocked ==
    /\ grace = "on"
    /\ grace' = "off"
    /\ UNCHANGED <<asked, closing, confirming, lateClick>>

\* The grace is over.  What a closed dialog has asked is gone: nothing is started.
GraceEnds ==
    /\ grace = "on"
    /\ grace' = "off"
    /\ confirming' = (asked # None)
    /\ UNCHANGED <<asked, closing, lateClick>>

\* The exit animation is over.
ExitEnds ==
    /\ closing
    /\ closing' = FALSE
    /\ UNCHANGED <<asked, grace, confirming, lateClick>>

\* The grace is over, and the dialog is done with at once.
GraceEndsDone ==
    /\ grace = "on" /\ asked # None
    /\ grace' = "off" /\ asked' = None /\ closing' = TRUE
    /\ UNCHANGED <<confirming, lateClick>>

\* The action has ended well.
Answered ==
    /\ asked' = None /\ closing' = TRUE /\ confirming' = FALSE
    /\ UNCHANGED <<grace, lateClick>>

\* It has thrown: the dialog stays, to be confirmed again or cancelled.
StaysOpen ==
    /\ confirming' = FALSE
    /\ UNCHANGED <<asked, closing, grace, lateClick>>

\* The page is left: its dialog and the timer go with it.
Unmounted ==
    /\ asked' = None /\ closing' = FALSE /\ grace' = "off" /\ confirming' = FALSE
    /\ UNCHANGED lateClick

DialogNext == ClickConfirm \/ Cancel \/ ExitEnds

-----------------------------------------------------------------------------

\* An open dialog does not stay busy for ever, unless its predecessor was confirmed while
\* it was closing (ConfirmDialog.tsx:58-84).
DialogAnswers ==
    (asked # None /\ busy) ~> (asked = None \/ ~busy \/ lateClick)
=============================================================================
