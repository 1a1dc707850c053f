----------------------------- MODULE TextEntry -----------------------------
(***************************************************************************)
(* The Qt one-line text entry (YQTextEntry.cc) and the events it sends.    *)
(*                                                                         *)
(* A QLineEdit holds the text; its textChanged signal is connected to      *)
(* changed(), which sends a ValueChanged event for the widget if the       *)
(* widget has the notify option.  The application sets the text with       *)
(* setText(), which blocks the line edit's signals around the change so   *)
(* that no event reports the program's own change, and reads it back with *)
(* getText() when it handles an event.  The user types only what the      *)
(* validator of setValidChars() accepts, and only in an enabled entry.    *)
(*                                                                         *)
(* A text is a string of at most MaxLen characters from Chars; the label  *)
(* is empty or not, since nicesize() and the constructor only ask that.   *)
(* The events of this widget not yet taken by the application are         *)
(* counted, at most MaxEvents of them.                                    *)
(***************************************************************************)
EXTENDS Naturals

CONSTANTS
    Chars,      \* the characters a text is made of
    MaxLen,     \* the longest text
    MaxEvents,  \* the most events of this entry pending at once
    None        \* no validator installed

ASSUME EntryAssumption ==
    /\ MaxLen \in Nat
    /\ MaxEvents \in Nat

Texts == UNION {[1 .. n -> Chars] : n \in 0 .. MaxLen}
CharsOf(t) == {t[i] : i \in DOMAIN t}
Labels == {"empty", "text"}

VARIABLES
    built,       \* the constructor has run
    notify,      \* getNotify(): the notify option of the widget
    text,        \* _qt_lineedit->text()
    blocked,     \* _qt_lineedit->signalsBlocked()
    connected,   \* textChanged is connected to changed()
    validChars,  \* the QY2CharValidator's valid characters, or None
    label,       \* _qt_label->text(), empty or not
    labelShown,  \* _qt_label is visible
    enabled,     \* _qt_lineedit->isEnabled()
    focused,     \* _qt_lineedit has the keyboard focus
    events,      \* ValueChanged events of this widget not yet handled
    waiting,     \* the application is blocked in waitForEvent()
    appText,     \* history: the text the application last set or read
    userEdits    \* history: changes the user made to a notifying entry
                 \* whose event the application has not handled

vars == <<built, notify, text, blocked, connected, validChars, label,
          labelShown, enabled, focused, events, waiting, appText, userEdits>>

TypeOK ==
    /\ built \in BOOLEAN
    /\ notify \in BOOLEAN
    /\ text \in Texts
    /\ blocked \in BOOLEAN
    /\ connected \in BOOLEAN
    /\ validChars \in (SUBSET Chars) \cup {None}
    /\ label \in Labels
    /\ labelShown \in BOOLEAN
    /\ enabled \in BOOLEAN
    /\ focused \in BOOLEAN
    /\ events \in 0 .. MaxEvents
    /\ waiting \in BOOLEAN
    /\ appText \in Texts
    /\ userEdits \in 0 .. MaxEvents

-----------------------------------------------------------------------------
\* QLineEdit::setText / a user's edit: textChanged reaches changed(), which
\* sends an event if the widget notifies; a blocked signal reaches nothing.
Signalled(t) == t # text /\ connected /\ ~blocked /\ notify

\* QY2CharValidator: a text with a character outside the set is refused.
Accepts(t) == IF validChars = None THEN TRUE ELSE CharsOf(t) \subseteq validChars

EventsAfter(t) == IF Signalled(t) THEN events + 1 ELSE events

\* Mutant: the constructor connects textChanged before it sets the text.
ConstructConnectFirst(t, l, n) ==
    /\ ~built
    /\ built' = TRUE
    /\ notify' = n
    /\ text' = t
    /\ connected' = TRUE
    /\ events' = IF t # text /\ n THEN events + 1 ELSE events
    /\ label' = l
    /\ labelShown' = (l # "empty")
    /\ appText' = t
    /\ UNCHANGED waiting
    /\ UNCHANGED <<blocked, validChars, enabled, focused, userEdits>>

(***************************************************************************)
(* The constructor: label (hidden when empty), line edit with the initial  *)
(* text t, and only then the connection of textChanged to changed().      *)
(***************************************************************************)
Construct(t, l, n) ==
    /\ ~built
    /\ built' = TRUE
    /\ notify' = n
    /\ text' = t
    /\ connected' = TRUE
    /\ label' = l
    /\ labelShown' = (l # "empty")
    /\ appText' = t
    /\ UNCHANGED waiting
    /\ UNCHANGED <<blocked, validChars, enabled, focused, events, userEdits>>

\* Mutant: setText() leaves the line edit's signals blocked.
SetTextStaysBlocked(t) ==
    /\ built
    /\ ~waiting
    /\ text' = t
    /\ blocked' = TRUE
    /\ appText' = t
    /\ UNCHANGED waiting
    /\ UNCHANGED <<built, notify, connected, validChars, label, labelShown,
                   enabled, focused, events, userEdits>>

(***************************************************************************)
(* setText(): blockSignals( true ), QLineEdit::setText, blockSignals(      *)
(* false ).  The change is the application's own, so nothing is sent.     *)
(***************************************************************************)
SetText(t) ==
    /\ built
    /\ ~waiting
    /\ text' = t
    /\ blocked' = FALSE
    /\ appText' = t
    /\ UNCHANGED waiting
    /\ UNCHANGED <<built, notify, connected, validChars, label, labelShown,
                   enabled, focused, events, userEdits>>

\* setEnabling(): enables or disables the line edit.
SetEnabling(e) ==
    /\ built
    /\ ~waiting
    /\ enabled' = e
    /\ UNCHANGED waiting
    /\ UNCHANGED <<built, notify, text, blocked, connected, validChars, label,
                   labelShown, focused, events, appText, userEdits>>

\* setLabel(): the label's new text; the constructor's hide() stays.
SetLabel(l) ==
    /\ built
    /\ ~waiting
    /\ label' = l
    /\ UNCHANGED waiting
    /\ UNCHANGED <<built, notify, text, blocked, connected, validChars,
                   labelShown, enabled, focused, events, appText, userEdits>>

(***************************************************************************)
(* setValidChars(): the first call installs a QY2CharValidator, later ones *)
(* change its characters.  Either way the text already in the line edit is *)
(* left as it is.                                                          *)
(***************************************************************************)
SetValidChars(v) ==
    /\ built
    /\ ~waiting
    /\ validChars' = v
    /\ UNCHANGED waiting
    /\ UNCHANGED <<built, notify, text, blocked, connected, label, labelShown,
                   enabled, focused, events, appText, userEdits>>

\* setKeyboardFocus(): focus to the line edit, text selected.
SetKeyboardFocus ==
    /\ built
    /\ ~waiting
    /\ focused' = TRUE
    /\ UNCHANGED waiting
    /\ UNCHANGED <<built, notify, text, blocked, connected, validChars, label,
                   labelShown, enabled, events, appText, userEdits>>

\* The user moves the keyboard focus to or away from the entry.
UserFocus(f) ==
    /\ built
    /\ focused' = f
    /\ UNCHANGED waiting
    /\ UNCHANGED <<built, notify, text, blocked, connected, validChars, label,
                   labelShown, enabled, events, appText, userEdits>>

(***************************************************************************)
(* The user changes the text of the enabled, focused entry to t; the      *)
(* validator refuses a text with a character outside its set.  The line   *)
(* edit emits textChanged and changed() sends the event.                   *)
(***************************************************************************)
UserEdit(t) ==
    /\ built
    /\ enabled
    /\ focused
    /\ t # text
    /\ Accepts(t)
    /\ userEdits < MaxEvents
    /\ text' = t
    /\ events' = EventsAfter(t)
    /\ userEdits' = IF notify THEN userEdits + 1 ELSE userEdits
    /\ UNCHANGED waiting
    /\ UNCHANGED <<built, notify, blocked, connected, validChars, label,
                   labelShown, enabled, focused, appText>>

\* Mutant: an event of another widget is taken for one of the entry.
HandleEventAnyWidget ==
    /\ waiting
    /\ waiting' = FALSE
    /\ events' = events - 1
    /\ userEdits' = userEdits - 1
    /\ appText' = text
    /\ UNCHANGED <<built, notify, text, blocked, connected, validChars, label,
                   labelShown, enabled, focused>>

(***************************************************************************)
(* The application's waitForEvent() returns an event of the entry and the  *)
(* application, running again, reads the text with getText().             *)
(***************************************************************************)
HandleEvent ==
    /\ waiting
    /\ events > 0
    /\ waiting' = FALSE
    /\ events' = events - 1
    /\ userEdits' = userEdits - 1
    /\ appText' = text
    /\ UNCHANGED <<built, notify, text, blocked, connected, validChars, label,
                   labelShown, enabled, focused>>

\* The application calls waitForEvent() and blocks until an event comes.
WaitForEvent ==
    /\ built
    /\ ~waiting
    /\ waiting' = TRUE
    /\ UNCHANGED <<built, notify, text, blocked, connected, validChars, label,
                   labelShown, enabled, focused, events, appText, userEdits>>

\* getText() at any other time, e.g. when the dialog's OK button is pressed.
GetText ==
    /\ built
    /\ ~waiting
    /\ appText' = text
    /\ UNCHANGED waiting
    /\ UNCHANGED <<built, notify, text, blocked, connected, validChars, label,
                   labelShown, enabled, focused, events, userEdits>>

-----------------------------------------------------------------------------
(***************************************************************************)
(* Before the constructor: an empty line edit, not connected, enabled.     *)
(***************************************************************************)
Init ==
    /\ built = FALSE
    /\ notify = FALSE
    /\ text = << >>
    /\ blocked = FALSE
    /\ connected = FALSE
    /\ validChars = None
    /\ label = "empty"
    /\ labelShown = FALSE
    /\ enabled = TRUE
    /\ focused = FALSE
    /\ events = 0
    /\ waiting = FALSE
    /\ appText = << >>
    /\ userEdits = 0

Next ==
    \/ HandleEvent
    \/ GetText
    \/ WaitForEvent
    \/ \E t \in Texts, l \in Labels, n \in BOOLEAN : Construct(t, l, n)
    \/ \E t \in Texts : SetText(t)
    \/ \E e \in BOOLEAN : SetEnabling(e)
    \/ \E l \in Labels : SetLabel(l)
    \/ \E v \in SUBSET Chars : SetValidChars(v)
    \/ SetKeyboardFocus
    \/ \E f \in BOOLEAN : UserFocus(f)
    \/ \E t \in Texts : UserEdit(t)

Spec == Init /\ [][Next]_vars

-----------------------------------------------------------------------------
(***************************************************************************)
(* Properties.                                                             *)
(***************************************************************************)

(***************************************************************************)
(* One event per user change: a notifying entry has exactly as many       *)
(* ValueChanged events pending as the user made changes the application   *)
(* has not handled.  No event comes from the initial text of the           *)
(* constructor or from setText() (the program's own changes), and none of *)
(* the user's is swallowed, whatever setText() calls came between.         *)
(***************************************************************************)
EventPerUserChange == events = userEdits

(***************************************************************************)
(* The application does not miss a change: while the text of a notifying  *)
(* entry differs from what the application last set or read, an event of  *)
(* the entry is pending, so its next waitForEvent() returns.               *)
(***************************************************************************)
NoLostChange == built /\ notify /\ text # appText => events > 0

=============================================================================
