CONSTANTS
    Dims <- MCDims
    MaxSize = 6
    MaxMargin = 3
    MaxPref = 3
SPECIFICATION Spec
PROPERTIES
    LeadingMarginFavoured
