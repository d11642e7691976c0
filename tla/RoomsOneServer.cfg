CONSTANTS
    Failures = {"error", "lost", "unanswered"}
    Servers = {s1}
    Users <- MCUsers
    RawIds <- MCRawIds
    Passwords = {p1}
    Types = {"1:1", "1:N"}
    MaxParts = 3
    None = None
SPECIFICATION Spec
INVARIANTS TypeOK MembersHaveRoom UserRoomsBacked RoomsVetted CreatedComplete
PROPERTIES RoomService
