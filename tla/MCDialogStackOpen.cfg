CONSTANTS
    d1 = d1
    d2 = d2
    d3 = d3
    NoDialog = NoDialog
    Dialogs <- MCDialogs
    MaxQueue = 2
INIT Init
NEXT Next
INVARIANTS
    StackHoldsOpenDialogs
