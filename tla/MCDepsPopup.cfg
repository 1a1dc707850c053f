CONSTANTS
    p1 = p1
    p2 = p2
    NoPkg = NoPkg
    Pkgs <- MCPkgs
    ErrorResults <- MCErrorResults
    MaxBad = 2
    MaxSolves = 2
INIT Init
NEXT Next
INVARIANTS
    TypeOK
    LineIndexValid
PROPERTIES
    SolveKeepsCurrentPackage
