CONSTANTS
    Ends = {1, 3}
    Buffer = 2
    MaxConns = 2
    MaxBytes = 3
SPECIFICATION FairSpec
INVARIANTS TypeOK LiveIsCurrent ShownOnce
PROPERTIES ToldOfEnd
