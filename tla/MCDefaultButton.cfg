CONSTANTS
    p1 = p1
    p2 = p2
    bk = bk
    nx = nx
    NoButton = NoButton
    Buttons <- MCButtons
    Order <- MCOrder
    WizardButtons <- MCWizardButtons
    HasWizard = TRUE
    NextButton = nx
    BackButton = bk
SPECIFICATION Spec
INVARIANTS
    TypeOK
    FocusShownAsDefault
    DefaultButtonDeclared
