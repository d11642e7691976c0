CONSTANTS
    Clients = {c1}
    MaxFd = 1
    MaxClients = 2
    TableBits = 2
    MaxEvents = 2
    ReadMax = 1
    MaxUnread = 1
    None = None
SPECIFICATION FairSpec
INVARIANTS KeepsRunning
