CONSTANTS
    i1 = i1
    i2 = i2
    i3 = i3
    NoItem = NoItem
    Items <- MCItems
    MaxKey = 1
    HasPackager = TRUE
INIT Init
NEXT Next
INVARIANTS
    TypeOK
    TableIsSortedSelection
PROPERTIES
    OkShowsCursorItem
