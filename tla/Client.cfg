CONSTANTS
    Lines <- TypedPlain
    Room = 2
    Commands = {"signup", "login", "friends", "create", "quit"}
    MaxMembers = 2
    ReadMax = 2
    MaxSent = 3
SPECIFICATION FairSpec
INVARIANTS TypeOK BoundAsSent AnswersInOrder LostOnlyBehind IdentityWasSent
PROPERTIES EventuallyShown EndsWithServer
CHECK_DEADLOCK FALSE
