CONSTANTS
    Clients = {c1, c2}
    Chats = {r1, r2}
    MaxTexts = 2
    Terse = {c2}
    None = None
SPECIFICATION FairSpec
INVARIANTS TypeOK SameOrder Unbroken
PROPERTIES RoomBroadcast EventuallyGreeted
CHECK_DEADLOCK FALSE
