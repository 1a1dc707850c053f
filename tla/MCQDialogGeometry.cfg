CONSTANTS
    Dims <- MCDims
    MaxSize = 5
    MaxMargin = 1
    MaxPref = 2
    Screen = 4
    DefaultSize = 3
    FrameWidth = 1
    None = None
SPECIFICATION Spec
INVARIANTS
    TypeOK
    InteriorFits
    MainDialogKeepsSize
PROPERTIES
    PopupPreferredHonoured
