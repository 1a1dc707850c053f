-------------------------- MODULE TextEntryProofs --------------------------
(***************************************************************************)
(* Proofs about the Qt text entry: for every alphabet, text length and    *)
(* event bound, every user change of a notifying entry is reported by     *)
(* exactly one event, and the application never waits while the entry     *)
(* holds a change it has not seen.                                         *)
(*                                                                         *)
(* Neither property is inductive alone.  A user edit sends its event only  *)
(* through the textChanged connection with the signals unblocked, so the   *)
(* invariant adds Wired: once the constructor has run, the connection      *)
(* exists and setText() has unblocked the signals again.                  *)
(***************************************************************************)
EXTENDS TextEntry, TLAPS

USE EntryAssumption

\* No signal stays blocked, and the constructor connected textChanged.
Wired == ~blocked /\ (built => connected)

IInv == TypeOK /\ EventPerUserChange /\ NoLostChange /\ Wired

\* The initial state satisfies the inductive invariant.
LEMMA InitIInv == Init => IInv
<1> SUFFICES ASSUME Init PROVE IInv
  OBVIOUS
<1>1. << >> \in Texts
  <2>1. << >> \in [1 .. 0 -> Chars]
    OBVIOUS
  <2>2. 0 \in 0 .. MaxLen
    OBVIOUS
  <2> QED
    BY <2>1, <2>2 DEF Texts
<1>2. text \in Texts /\ appText \in Texts
  BY <1>1, Zenon DEF Init
<1>3. validChars \in (SUBSET Chars) \cup {None}
  BY DEF Init
<1>4. label \in Labels
  BY DEF Init, Labels
<1>5. events \in 0 .. MaxEvents /\ userEdits \in 0 .. MaxEvents
  BY DEF Init
<1>6. TypeOK
  BY <1>2, <1>3, <1>4, <1>5 DEF Init, TypeOK
<1> QED
  BY <1>6 DEF Init, IInv, EventPerUserChange, NoLostChange, Wired

(***************************************************************************)
(* A user edit of a wired entry sends an event exactly when the entry     *)
(* notifies, and the event count keeps matching the user changes.          *)
(***************************************************************************)
LEMMA UserEditIInv ==
  ASSUME IInv, NEW t \in Texts, UserEdit(t)
  PROVE  IInv'
<1>1. Signalled(t) <=> notify
  BY DEF IInv, Wired, UserEdit, Signalled
<1>2. events' = IF notify THEN events + 1 ELSE events
  BY <1>1 DEF UserEdit, EventsAfter
<1>3. userEdits' = IF notify THEN userEdits + 1 ELSE userEdits
  BY DEF UserEdit
<1>4. events = userEdits /\ userEdits < MaxEvents /\ events \in Nat
  BY DEF IInv, EventPerUserChange, UserEdit, TypeOK
<1>5. TypeOK'
  BY <1>2, <1>3, <1>4 DEF IInv, TypeOK, UserEdit
<1>6. EventPerUserChange'
  BY <1>2, <1>3, <1>4 DEF EventPerUserChange
<1>7. NoLostChange'
  BY <1>2, <1>4 DEF NoLostChange, UserEdit
<1>8. Wired'
  BY DEF IInv, Wired, UserEdit
<1> QED
  BY <1>5, <1>6, <1>7, <1>8 DEF IInv

\* The application handles an event: one event and one user change fewer.
LEMMA HandleEventIInv ==
  ASSUME IInv, HandleEvent
  PROVE  IInv'
<1>1. events = userEdits /\ events \in 1 .. MaxEvents
  BY DEF IInv, EventPerUserChange, HandleEvent, TypeOK
<1>2. TypeOK'
  <2>1. events' \in 0 .. MaxEvents /\ userEdits' \in 0 .. MaxEvents
    BY <1>1 DEF HandleEvent
  <2>2. waiting' \in BOOLEAN /\ appText' \in Texts
    BY DEF IInv, TypeOK, HandleEvent
  <2> QED
    BY <2>1, <2>2 DEF IInv, TypeOK, HandleEvent
<1>3. EventPerUserChange'
  BY <1>1 DEF HandleEvent, EventPerUserChange
<1>4. NoLostChange'
  BY DEF HandleEvent, NoLostChange
<1>5. Wired'
  BY DEF IInv, HandleEvent, Wired
<1> QED
  BY <1>2, <1>3, <1>4, <1>5 DEF IInv

\* Every other operation keeps the invariant.
LEMMA OtherIInv ==
  ASSUME IInv,
         \/ \E t \in Texts, l \in Labels, n \in BOOLEAN : Construct(t, l, n)
         \/ \E t \in Texts : SetText(t)
         \/ \E e \in BOOLEAN : SetEnabling(e)
         \/ \E l \in Labels : SetLabel(l)
         \/ \E v \in SUBSET Chars : SetValidChars(v)
         \/ SetKeyboardFocus
         \/ \E f \in BOOLEAN : UserFocus(f)
         \/ GetText
         \/ WaitForEvent
         \/ UNCHANGED vars
  PROVE  IInv'
<1>1. CASE \E t \in Texts, l \in Labels, n \in BOOLEAN : Construct(t, l, n)
  <2>1. PICK t \in Texts, l \in Labels, n \in BOOLEAN : Construct(t, l, n)
    BY <1>1
  <2>2. TypeOK'
    BY <2>1 DEF IInv, TypeOK, Construct
  <2>3. (EventPerUserChange /\ NoLostChange /\ Wired)'
    BY <2>1 DEF IInv, Construct, EventPerUserChange, NoLostChange, Wired
  <2> QED
    BY <2>2, <2>3 DEF IInv
<1>2. CASE \E t \in Texts : SetText(t)
  <2>1. PICK t \in Texts : SetText(t)
    BY <1>2
  <2>2. TypeOK'
    BY <2>1 DEF IInv, TypeOK, SetText
  <2>3. (EventPerUserChange /\ NoLostChange /\ Wired)'
    BY <2>1 DEF IInv, SetText, EventPerUserChange, NoLostChange, Wired
  <2> QED
    BY <2>2, <2>3 DEF IInv
<1>3. CASE \E e \in BOOLEAN : SetEnabling(e)
  BY <1>3 DEF IInv, TypeOK, SetEnabling, EventPerUserChange, NoLostChange,
              Wired
<1>4. CASE \E l \in Labels : SetLabel(l)
  BY <1>4 DEF IInv, TypeOK, SetLabel, EventPerUserChange, NoLostChange, Wired
<1>5. CASE \E v \in SUBSET Chars : SetValidChars(v)
  BY <1>5 DEF IInv, TypeOK, SetValidChars, EventPerUserChange, NoLostChange,
              Wired
<1>6. CASE SetKeyboardFocus
  BY <1>6 DEF IInv, TypeOK, SetKeyboardFocus, EventPerUserChange,
              NoLostChange, Wired
<1>7. CASE \E f \in BOOLEAN : UserFocus(f)
  BY <1>7 DEF IInv, TypeOK, UserFocus, EventPerUserChange, NoLostChange,
              Wired
<1>8. CASE GetText
  BY <1>8 DEF IInv, TypeOK, GetText, EventPerUserChange, NoLostChange, Wired
<1>9. CASE WaitForEvent
  BY <1>9 DEF IInv, TypeOK, WaitForEvent, EventPerUserChange, NoLostChange,
              Wired
<1>10. CASE UNCHANGED vars
  BY <1>10 DEF IInv, TypeOK, vars, EventPerUserChange, NoLostChange, Wired
<1> QED
  BY <1>1, <1>2, <1>3, <1>4, <1>5, <1>6, <1>7, <1>8, <1>9, <1>10

\* Every step, or stutter, keeps the invariant.
LEMMA NextIInv == IInv /\ [Next]_vars => IInv'
<1> SUFFICES ASSUME IInv, [Next]_vars PROVE IInv'
  OBVIOUS
<1>1. CASE \E t \in Texts : UserEdit(t)
  BY <1>1, UserEditIInv
<1>2. CASE HandleEvent
  BY <1>2, HandleEventIInv
<1>3. CASE ~(\E t \in Texts : UserEdit(t)) /\ ~HandleEvent
  BY <1>3, OtherIInv DEF Next
<1> QED
  BY <1>1, <1>2, <1>3

(***************************************************************************)
(* YQTextEntry reports every change the user makes to a notifying entry   *)
(* with exactly one ValueChanged event, and none for the constructor's    *)
(* initial text or the application's setText(): the count of pending     *)
(* events always equals the count of unhandled user changes.              *)
(***************************************************************************)
THEOREM OneEventPerChange == Spec => []EventPerUserChange
<1>1. Init => IInv
  BY InitIInv
<1>2. IInv /\ [Next]_vars => IInv'
  BY NextIInv
<1>3. IInv => EventPerUserChange
  BY DEF IInv
<1> QED
  BY <1>1, <1>2, <1>3, PTL DEF Spec

(***************************************************************************)
(* While a notifying entry holds a text the application neither set nor   *)
(* read, one of its events is pending, so waitForEvent() returns to the   *)
(* application instead of blocking over an unreported change.              *)
(***************************************************************************)
THEOREM ChangeNeverLost == Spec => []NoLostChange
<1>1. Init => IInv
  BY InitIInv
<1>2. IInv /\ [Next]_vars => IInv'
  BY NextIInv
<1>3. IInv => NoLostChange
  BY DEF IInv
<1> QED
  BY <1>1, <1>2, <1>3, PTL DEF Spec

(***************************************************************************)
(* The entry's state stays in its types: in particular the pending events  *)
(* and the unhandled user changes never leave 0 .. MaxEvents, so          *)
(* HandleEvent never takes an event that changed() did not send.           *)
(***************************************************************************)
THEOREM EntryTypeCorrect == Spec => []TypeOK
<1>1. IInv => TypeOK
  BY DEF IInv
<1> QED
  BY <1>1, InitIInv, NextIInv, PTL DEF Spec

=============================================================================
