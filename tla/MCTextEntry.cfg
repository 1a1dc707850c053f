CONSTANTS
    Chars <- MCChars
    MaxLen = 2
    MaxEvents = 2
    None = None
SPECIFICATION Spec
INVARIANTS
    TypeOK
    NoLostChange
    EventPerUserChange
