CONSTANTS
    Clients = {c1, c2}
    MaxFd = 1
    MaxClients = 2
    TableBits = 1
    MaxEvents = 2
    ReadMax = 1
    MaxUnread = 1
    None = None
SPECIFICATION FairSpec
INVARIANTS TypeOK EventsCurrent TableExact CtxListsOpen
PROPERTIES KeptWhileRunning EventuallyRead
