CONSTANTS
    Dims <- MCDims
    MaxSize = 6
    MaxMargin = 3
    MaxPref = 3
SPECIFICATION Spec
INVARIANTS
    TypeOK
    ChildFits
PROPERTIES
    PreferredHonoured
