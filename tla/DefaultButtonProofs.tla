------------------------- MODULE DefaultButtonProofs -------------------------
(***************************************************************************)
(* Proofs about the default-button bookkeeping of YQDialog, for every      *)
(* widget tree (every Buttons, Order, WizardButtons, NextButton,           *)
(* BackButton allowed by ButtonsAssumption).                               *)
(***************************************************************************)
EXTENDS DefaultButton, TLAPS

(***************************************************************************)
(* The tree walk returns a button of S or the null pointer.                *)
(***************************************************************************)
LEMMA FirstInType ==
    ASSUME NEW S
    PROVE  FirstIn(S) \in S \cup {NoButton}
<1>1. CASE \E i \in DOMAIN Order : IsFirstIn(i, S)
    BY <1>1 DEF FirstIn, IsFirstIn
<1>2. CASE ~ \E i \in DOMAIN Order : IsFirstIn(i, S)
    BY <1>2 DEF FirstIn
<1>3. QED
    BY <1>1, <1>2

LEMMA WizardDefaultButtonType ==
    WizardDefaultButton \in WizardButtons \cup {NoButton}
BY ButtonsAssumption DEF WizardDefaultButton

(***************************************************************************)
(* Every action keeps the variables in their types.                        *)
(***************************************************************************)
LEMMA TypeStep == TypeOK /\ [Next]_vars => TypeOK'
<1> SUFFICES ASSUME TypeOK, [Next]_vars PROVE TypeOK'
    OBVIOUS
<1> USE ButtonsAssumption DEF TypeOK, MaybeButton
<1>1. ASSUME NEW nb \in MaybeButton, SetDefaultButtonRefused(nb) PROVE TypeOK'
    BY <1>1 DEF SetDefaultButtonRefused
<1>2. ASSUME NEW nb \in MaybeButton, SetDefaultButton(nb) PROVE TypeOK'
    BY <1>2 DEF SetDefaultButton, Conflict
<1>3. ASSUME NEW x \in MaybeButton, FocusChange(x) PROVE TypeOK'
    BY <1>3 DEF FocusChange, LosingFocus, GettingFocus
<1>4. CASE Activate
    <2>1. FirstIn(isDefault \ WizardButtons) \in MaybeButton
        BY FirstInType
    <2> DEFINE dflt == IF FirstIn(isDefault \ WizardButtons) = NoButton
                          /\ HasWizard
                       THEN WizardDefaultButton
                       ELSE FirstIn(isDefault \ WizardButtons)
               def  == IF focusButton # NoButton THEN focusButton ELSE dflt
    <2>2. dflt \in MaybeButton
        BY <2>1, WizardDefaultButtonType
    <2>3. def \in MaybeButton
        BY <2>2
    <2>4. (IF def # NoButton THEN {def} ELSE {}) \subseteq Buttons
        BY <2>3
    <2>5. QED
        BY <1>4, <2>2, <2>4 DEF Activate
<1>5. CASE ActivateDefaultButton
    <2>1. FindDefaultButton \in MaybeButton
        BY FirstInType DEF FindDefaultButton
    <2>2. QED
        BY <1>5, <2>1 DEF ActivateDefaultButton
<1>6. ASSUME NEW b \in Buttons, NEW v \in BOOLEAN, SetButtonEnabled(b, v)
      PROVE TypeOK'
    BY <1>6 DEF SetButtonEnabled
<1>7. ASSUME NEW b \in WizardButtons, NEW v \in BOOLEAN, SetButtonShown(b, v)
      PROVE TypeOK'
    BY <1>7 DEF SetButtonShown
<1>8. ASSUME NEW dir \in Directions, SetWizardDirection(dir) PROVE TypeOK'
    BY <1>8 DEF SetWizardDirection
<1>9. CASE UNCHANGED vars
    BY <1>9 DEF vars
<1>10. QED
    BY <1>1, <1>2, <1>3, <1>4, <1>5, <1>6, <1>7, <1>8, <1>9 DEF Next

(***************************************************************************)
(* Type correctness: in every reachable state the dialog's pointers are    *)
(* buttons of its tree or null, and the flags are sets of its buttons.     *)
(***************************************************************************)
THEOREM TypeCorrect == Spec => []TypeOK
<1>1. Init => TypeOK
    BY ButtonsAssumption DEF Init, TypeOK, MaybeButton
<1>2. QED
    BY <1>1, TypeStep, PTL DEF Spec

(***************************************************************************)
(* The two pointer invariants, together with the types, are inductive.     *)
(***************************************************************************)
IInv == TypeOK /\ FocusShownAsDefault /\ DefaultButtonDeclared

LEMMA IInvStep == IInv /\ [Next]_vars => IInv'
<1> SUFFICES ASSUME IInv, [Next]_vars PROVE IInv'
    OBVIOUS
<1>0. TypeOK'
    BY TypeStep DEF IInv
<1> USE ButtonsAssumption DEF IInv, TypeOK, MaybeButton,
        FocusShownAsDefault, DefaultButtonDeclared
<1>1. ASSUME NEW nb \in MaybeButton, SetDefaultButtonRefused(nb) PROVE IInv'
    BY <1>0, <1>1 DEF SetDefaultButtonRefused, Conflict
<1>2. ASSUME NEW nb \in MaybeButton, SetDefaultButton(nb) PROVE IInv'
    BY <1>0, <1>2 DEF SetDefaultButton, Conflict
<1>3. ASSUME NEW x \in MaybeButton, FocusChange(x) PROVE IInv'
    BY <1>0, <1>3 DEF FocusChange, LosingFocus, GettingFocus
<1>4. CASE Activate
    <2>1. FirstIn(isDefault \ WizardButtons) \in
              (isDefault \ WizardButtons) \cup {NoButton}
        BY FirstInType
    <2>2. QED
        BY <1>0, <1>4, <2>1, WizardDefaultButtonType DEF Activate
<1>5. CASE ActivateDefaultButton
    <2>1. FirstIn(isDefault) \in isDefault \cup {NoButton}
        BY FirstInType
    <2>2. QED
        BY <1>0, <1>5, <2>1 DEF ActivateDefaultButton, FindDefaultButton
<1>6. ASSUME NEW b \in Buttons, NEW v \in BOOLEAN, SetButtonEnabled(b, v)
      PROVE IInv'
    BY <1>0, <1>6 DEF SetButtonEnabled
<1>7. ASSUME NEW b \in WizardButtons, NEW v \in BOOLEAN, SetButtonShown(b, v)
      PROVE IInv'
    BY <1>0, <1>7 DEF SetButtonShown
<1>8. ASSUME NEW dir \in Directions, SetWizardDirection(dir) PROVE IInv'
    BY <1>0, <1>8 DEF SetWizardDirection
<1>9. CASE UNCHANGED vars
    BY <1>0, <1>9 DEF vars
<1>10. QED
    BY <1>1, <1>2, <1>3, <1>4, <1>5, <1>6, <1>7, <1>8, <1>9 DEF Next

(***************************************************************************)
(* The focus button always carries the default look                        *)
(* (gettingFocus/losingFocus, setDefaultButton, activate), and             *)
(* _defaultButton always points at a flagged button or at a wizard         *)
(* fallback (setDefaultButton, ensureOnlyOneDefaultButton,                 *)
(* activateDefaultButton): for every widget tree.                          *)
(***************************************************************************)
THEOREM PointerInvariants ==
    Spec => [](FocusShownAsDefault /\ DefaultButtonDeclared)
<1>1. Init => IInv
    BY ButtonsAssumption DEF Init, IInv, TypeOK, MaybeButton,
       FocusShownAsDefault, DefaultButtonDeclared
<1>2. IInv => FocusShownAsDefault /\ DefaultButtonDeclared
    BY DEF IInv
<1>3. QED
    BY <1>1, <1>2, IInvStep, PTL DEF Spec

(***************************************************************************)
(* The pointer [Return] follows (findDefaultButton's cached               *)
(* _defaultButton) never names a button without the default flag other   *)
(* than the wizard fallback, whatever order setDefaultButton, activate,   *)
(* focus changes and button state changes come in.                        *)
(***************************************************************************)
THEOREM DefaultPointerDeclared == Spec => []DefaultButtonDeclared
BY PointerInvariants, PTL

=============================================================================
