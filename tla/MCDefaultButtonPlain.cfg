CONSTANTS
    p1 = p1
    p2 = p2
    bk = bk
    nx = nx
    NoButton = NoButton
    Buttons <- MCPlainButtons
    Order <- MCPlainOrder
    WizardButtons <- MCNoWizardButtons
    HasWizard = FALSE
    NextButton = NoButton
    BackButton = NoButton
SPECIFICATION Spec
INVARIANTS
    AtMostOneShownAsDefault
