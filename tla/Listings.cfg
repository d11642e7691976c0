CONSTANTS
    Failures = {"error", "lost"}
    Servers = {s1}
    Rooms = {r1, r2}
    Users = {u1, u2, u3, u4}
    Askers = {u1}
    RoomMax = 4
    FriendMax = 3
    ScanMax = 1
    ListMax = 6
    BodyMax = 4
    None = None
SPECIFICATION Spec
SYMMETRY Symmetry
INVARIANTS TypeOK FoundStored
PROPERTIES RoomsComplete FriendsComplete
