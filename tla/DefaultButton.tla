--------------------------- MODULE DefaultButton ---------------------------
(***************************************************************************)
(* The default-button bookkeeping of a Qt dialog (YQDialog.cc).            *)
(*                                                                         *)
(* A dialog holds two weak pointers, _focusButton and _defaultButton, into *)
(* its widget tree.  Every push button carries two flags of its own: the   *)
(* application-level "is default button" flag and the Qt "shown as        *)
(* default" look (the frame that tells the user what [Return] will press). *)
(* Four handlers move these around: setDefaultButton() (called by the      *)
(* application and by buttons created with `opt(`default)), the focus      *)
(* callbacks gettingFocus()/losingFocus(), activate(true), which runs      *)
(* ensureOnlyOneDefaultButton(), and the [Return] key, which runs          *)
(* activateDefaultButton().                                                *)
(*                                                                         *)
(* The widget tree is abstracted to the buttons it contains, in the        *)
(* depth-first pre-order in which both tree walks of YQDialog.cc visit     *)
(* them (Order).  Button enabling, wizard direction and the visibility of  *)
(* the wizard buttons are set by code outside this file; they are          *)
(* environment actions here.                                               *)
(***************************************************************************)
EXTENDS Naturals, Sequences, FiniteSets

CONSTANTS
    Buttons,        \* the YQGenericButtons of the dialog's widget tree
    Order,          \* the same buttons in depth-first pre-order
    WizardButtons,  \* the ones that are YQWizardButtons
    HasWizard,      \* the tree contains a YQWizard
    NextButton,     \* the wizard's next button, or NoButton
    BackButton,     \* the wizard's back button, or NoButton
    NoButton        \* the null pointer

ASSUME ButtonsAssumption ==
    /\ NoButton \notin Buttons
    /\ Order \in Seq(Buttons)
    /\ \A b \in Buttons : \E i \in DOMAIN Order : Order[i] = b
    /\ \A i, j \in DOMAIN Order : Order[i] = Order[j] => i = j
    /\ WizardButtons \subseteq Buttons
    /\ HasWizard \in BOOLEAN
    /\ NextButton \in WizardButtons \cup {NoButton}
    /\ BackButton \in WizardButtons \cup {NoButton}
    /\ ~HasWizard => WizardButtons = {}

Directions == {"Forward", "Backward"}

MaybeButton == Buttons \cup {NoButton}

VARIABLES
    focusButton,      \* YQDialog::_focusButton
    defaultButton,    \* YQDialog::_defaultButton
    isDefault,        \* buttons whose isDefaultButton() is true
    shownAsDefault,   \* buttons whose isShownAsDefault() is true
    enabled,          \* buttons whose isEnabled() is true
    shown,            \* buttons whose isShown() is true
    direction,        \* YQWizard::direction()
    activated         \* button pressed by the last [Return], or NoButton

vars == <<focusButton, defaultButton, isDefault, shownAsDefault,
          enabled, shown, direction, activated>>

TypeOK ==
    /\ focusButton \in MaybeButton
    /\ defaultButton \in MaybeButton
    /\ isDefault \subseteq Buttons
    /\ shownAsDefault \subseteq Buttons
    /\ enabled \subseteq Buttons
    /\ shown \subseteq Buttons
    /\ direction \in Directions
    /\ activated \in MaybeButton

(***************************************************************************)
(* The first button of S in tree order, NoButton if there is none: what a  *)
(* depth-first walk that returns at its first hit finds.                   *)
(***************************************************************************)
IsFirstIn(i, S) ==
    /\ Order[i] \in S
    /\ \A j \in DOMAIN Order : Order[j] \in S => i <= j

FirstIn(S) ==
    IF \E i \in DOMAIN Order : IsFirstIn(i, S)
    THEN Order[CHOOSE i \in DOMAIN Order : IsFirstIn(i, S)]
    ELSE NoButton

(***************************************************************************)
(* findDefaultButton(): the cached _defaultButton, or else the first       *)
(* button of the tree whose isDefaultButton() is set.                      *)
(***************************************************************************)
FindDefaultButton ==
    IF defaultButton # NoButton THEN defaultButton ELSE FirstIn(isDefault)

(***************************************************************************)
(* wizardDefaultButton(): the back button if the wizard goes backward and  *)
(* that button is shown and enabled, otherwise the next button if it is.   *)
(***************************************************************************)
Usable(b) == b # NoButton /\ b \in shown /\ b \in enabled

WizardDefaultButton ==
    IF direction = "Backward" /\ Usable(BackButton) THEN BackButton
    ELSE IF Usable(NextButton) THEN NextButton
    ELSE NoButton

(***************************************************************************)
(* The effect of losingFocus(b) and of gettingFocus(b) on the pair         *)
(* <<_focusButton, shown-as-default set>>, given the current default.      *)
(***************************************************************************)
LosingFocus(b, f, d, sh) ==
    LET f1  == IF b = f THEN NoButton ELSE f
        sh1 == IF b = f /\ f # NoButton /\ f # d THEN sh \ {f} ELSE sh
    IN  <<f1, IF f1 = NoButton /\ d # NoButton THEN sh1 \cup {d} ELSE sh1>>

\* Mutant: gettingFocus() forgets the final showAsDefault( true ).
GettingFocusNoShow(b, f, d, sh) ==
    LET sh1 == IF f # NoButton /\ f # b THEN sh \ {f} ELSE sh
        sh2 == IF d # NoButton /\ d # b THEN sh1 \ {d} ELSE sh1
    IN  <<b, sh2>>

GettingFocus(b, f, d, sh) ==
    LET sh1 == IF f # NoButton /\ f # b THEN sh \ {f} ELSE sh
        sh2 == IF d # NoButton /\ d # b THEN sh1 \ {d} ELSE sh1
    IN  <<b, IF b # NoButton THEN sh2 \cup {b} ELSE sh2>>

-----------------------------------------------------------------------------
(***************************************************************************)
(* setDefaultButton(nb) meets a different default already in place.        *)
(***************************************************************************)
Conflict(nb) ==
    /\ defaultButton # NoButton
    /\ nb # NoButton
    /\ nb # defaultButton

\* Mutant: the refusal clears the flag of the old default instead of nb's.
SetDefaultButtonRefusedWrongFlag(nb) ==
    /\ Conflict(nb)
    /\ defaultButton \notin WizardButtons
    /\ isDefault' = isDefault \ {defaultButton}
    /\ UNCHANGED <<focusButton, defaultButton, shownAsDefault,
                   enabled, shown, direction, activated>>

(***************************************************************************)
(* setDefaultButton(nb) when the default in place is no wizard button: the *)
(* request is refused ("Too many `opt(`default) PushButtons") and nb loses *)
(* its default flag.                                                       *)
(***************************************************************************)
SetDefaultButtonRefused(nb) ==
    /\ Conflict(nb)
    /\ defaultButton \notin WizardButtons
    /\ isDefault' = isDefault \ {nb}
    /\ UNCHANGED <<focusButton, defaultButton, shownAsDefault,
                   enabled, shown, direction, activated>>

(***************************************************************************)
(* setDefaultButton(nb) otherwise: an application default overrides a      *)
(* wizard button (which loses its flag); nb becomes _defaultButton, gets   *)
(* the flag, and is shown as default unless some button has the focus.     *)
(* nb = NoButton only clears the pointer.                                  *)
(***************************************************************************)
SetDefaultButton(nb) ==
    /\ ~ (Conflict(nb) /\ defaultButton \notin WizardButtons)
    /\ isDefault' =
         IF nb = NoButton THEN isDefault
         ELSE (IF Conflict(nb) THEN isDefault \ {defaultButton}
                               ELSE isDefault) \cup {nb}
    /\ defaultButton' = nb
    /\ shownAsDefault' = IF nb # NoButton /\ focusButton = NoButton
                         THEN shownAsDefault \cup {nb}
                         ELSE shownAsDefault
    /\ UNCHANGED <<focusButton, enabled, shown, direction, activated>>

(***************************************************************************)
(* Qt moves the keyboard focus from the current focus button (if any) to   *)
(* x, an enabled button or NoButton (a widget that is no button, or        *)
(* another window).  Qt delivers focusOut to the old widget and focusIn to *)
(* the new one in the same step, so losingFocus() and gettingFocus() run   *)
(* back to back.                                                           *)
(***************************************************************************)
FocusChange(x) ==
    /\ x # focusButton
    /\ x # NoButton => x \in enabled
    /\ LET lost == IF focusButton # NoButton
                   THEN LosingFocus(focusButton, focusButton,
                                    defaultButton, shownAsDefault)
                   ELSE <<focusButton, shownAsDefault>>
           got  == IF x # NoButton
                   THEN GettingFocus(x, lost[1], defaultButton, lost[2])
                   ELSE lost
       IN  /\ focusButton' = got[1]
           /\ shownAsDefault' = got[2]
    /\ UNCHANGED <<defaultButton, isDefault, enabled, shown, direction,
                   activated>>

\* Mutant: ensureOnlyOneDefaultButton() drops the if ( def ) test.
ActivateNoNullCheck ==
    LET found == FirstIn(isDefault \ WizardButtons)
        dflt  == IF found = NoButton /\ HasWizard
                 THEN WizardDefaultButton ELSE found
        def   == IF focusButton # NoButton THEN focusButton ELSE dflt
    IN  /\ defaultButton' = dflt
        /\ shownAsDefault' = {def}
        /\ UNCHANGED <<focusButton, isDefault, enabled, shown, direction,
                       activated>>

(***************************************************************************)
(* activate(true), that is ensureOnlyOneDefaultButton(): _defaultButton is *)
(* reset and recomputed as the first non-wizard button with the default    *)
(* flag (later ones are reported as "too many default buttons"), else the  *)
(* wizard's choice; every button except focus-or-default loses the        *)
(* default look (wizard buttons unconditionally), and focus-or-default     *)
(* gets it.                                                                *)
(***************************************************************************)
Activate ==
    LET found == FirstIn(isDefault \ WizardButtons)
        dflt  == IF found = NoButton /\ HasWizard
                 THEN WizardDefaultButton ELSE found
        def   == IF focusButton # NoButton THEN focusButton ELSE dflt
    IN  /\ defaultButton' = dflt
        /\ shownAsDefault' = IF def # NoButton THEN {def} ELSE {}
        /\ UNCHANGED <<focusButton, isDefault, enabled, shown, direction,
                       activated>>

(***************************************************************************)
(* The [Return] key, activateDefaultButton(): the focus button if it is    *)
(* enabled and shown as default; otherwise _defaultButton := the result of *)
(* findDefaultButton(), which is pressed if enabled and shown as default.  *)
(***************************************************************************)
ActivateDefaultButton ==
    IF focusButton \in enabled /\ focusButton \in shownAsDefault
    THEN /\ activated' = focusButton
         /\ UNCHANGED <<focusButton, defaultButton, isDefault,
                        shownAsDefault, enabled, shown, direction>>
    ELSE LET d == FindDefaultButton
         IN  /\ defaultButton' = d
             /\ activated' = IF d \in enabled /\ d \in shownAsDefault
                             THEN d ELSE NoButton
             /\ UNCHANGED <<focusButton, isDefault, shownAsDefault,
                            enabled, shown, direction>>

(***************************************************************************)
(* Environment: the application enables or disables a button, shows or    *)
(* hides a wizard button, and the wizard records the user's direction.     *)
(***************************************************************************)
SetButtonEnabled(b, v) ==
    /\ enabled' = IF v THEN enabled \cup {b} ELSE enabled \ {b}
    /\ UNCHANGED <<focusButton, defaultButton, isDefault, shownAsDefault,
                   shown, direction, activated>>

SetButtonShown(b, v) ==
    /\ shown' = IF v THEN shown \cup {b} ELSE shown \ {b}
    /\ UNCHANGED <<focusButton, defaultButton, isDefault, shownAsDefault,
                   enabled, direction, activated>>

SetWizardDirection(dir) ==
    /\ direction' = dir
    /\ UNCHANGED <<focusButton, defaultButton, isDefault, shownAsDefault,
                   enabled, shown, activated>>

-----------------------------------------------------------------------------
(***************************************************************************)
(* The YQDialog constructor clears both pointers; buttons are created      *)
(* enabled or not, and no button has a default flag or look until         *)
(* setDefaultButton() or activate() gives it one.                          *)
(***************************************************************************)
Init ==
    /\ focusButton = NoButton
    /\ defaultButton = NoButton
    /\ isDefault = {}
    /\ shownAsDefault = {}
    /\ enabled \in SUBSET Buttons
    /\ shown = Buttons
    /\ direction \in Directions
    /\ activated = NoButton

Next ==
    \/ \E nb \in MaybeButton : SetDefaultButtonRefused(nb)
    \/ \E nb \in MaybeButton : SetDefaultButton(nb)
    \/ \E x \in MaybeButton : FocusChange(x)
    \/ Activate
    \/ ActivateDefaultButton
    \/ \E b \in Buttons, v \in BOOLEAN : SetButtonEnabled(b, v)
    \/ \E b \in WizardButtons, v \in BOOLEAN : SetButtonShown(b, v)
    \/ \E dir \in Directions : SetWizardDirection(dir)

Spec == Init /\ [][Next]_vars

-----------------------------------------------------------------------------
(***************************************************************************)
(* Properties.                                                             *)
(***************************************************************************)

(***************************************************************************)
(* A button that holds the keyboard focus is always drawn as the default:  *)
(* gettingFocus() gives it the look, and neither setDefaultButton() nor    *)
(* the repair in ensureOnlyOneDefaultButton() may take it away while the   *)
(* focus stays.                                                            *)
(***************************************************************************)
FocusShownAsDefault ==
    focusButton # NoButton => focusButton \in shownAsDefault

(***************************************************************************)
(* _defaultButton only ever points at a button that carries the default    *)
(* flag, or at the wizard button ensureOnlyOneDefaultButton() fell back    *)
(* to: a refused setDefaultButton() must not leave it at a button that     *)
(* lost its flag.                                                          *)
(***************************************************************************)
DefaultButtonDeclared ==
    defaultButton \in isDefault \cup WizardButtons \cup {NoButton}

(***************************************************************************)
(* The spec (section 8): at most one button of the dialog is shown as the  *)
(* default at any time.                                                    *)
(***************************************************************************)
AtMostOneShownAsDefault ==
    Cardinality(shownAsDefault) <= 1

(***************************************************************************)
(* The spec (section 3, default-button resolution): with no button holding *)
(* the focus, the designated default button, if enabled, is the one shown *)
(* as default, so that [Return] presses it.  findDefaultButton() takes a   *)
(* wizard button by its flag while ensureOnlyOneDefaultButton() skips it   *)
(* and strips its look, so _defaultButton can name an enabled button that *)
(* is not drawn as default and [Return] presses nothing.                  *)
(***************************************************************************)
DefaultShownWhenNoFocus ==
    focusButton = NoButton /\ defaultButton \in enabled =>
        defaultButton \in shownAsDefault

=============================================================================
