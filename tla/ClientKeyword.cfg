CONSTANTS
    Lines <- TypedKeyword
    Room = 2
    Commands = {"signup", "login"}
    MaxMembers = 1
    ReadMax = 2
    MaxSent = 2
SPECIFICATION Spec
INVARIANTS BoundAsSent
CHECK_DEADLOCK FALSE
