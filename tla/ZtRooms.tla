------------------------------- MODULE ZtRooms -------------------------------
(***************************************************************************)
(* Rooms: http_create_room, http_invite_room, http_join_room and           *)
(* http_search_room (zt_http.c) over the room commands of zt_redis.c.      *)
(* Each Redis command is one step.  A room is spread over three keys: the  *)
(* record room:<id>, the set room_members:<id>, and one set                *)
(* user_rooms:<user> per member.                                           *)
(*                                                                         *)
(* Names are sequences of the parts that '_' separates, so that joining    *)
(* two names with '_' is concatenation and may give the same id for two    *)
(* different pairs, as it does in the code.  The member list of a request  *)
(* is a set: repeated members repeat commands that change nothing.         *)
(***************************************************************************)
EXTENDS ZtHandler, Naturals, Sequences, FiniteSets

CONSTANTS Users, RawIds,    \* user ids; room names as the client sends them
          Passwords,
          Types,            \* room types that requests name
          MaxParts          \* longest room id (ROOM_ID_MAX_LEN), in parts

ASSUME NameAssumption ==
    /\ \A n \in Users \cup RawIds : n \in Seq(STRING) /\ n # <<>>
    /\ MaxParts \in Nat

ASSUME TypesAssumption == Types \subseteq {"1:1", "1:N"}

\* http_make_room_id
RoomId(raw, user) == raw \o user

TooLong(id) == Len(id) > MaxParts

RoomIds == {id \in {RoomId(raw, u) : raw \in RawIds, u \in Users} : Len(id) <= MaxParts}

\* The fields of a room that decide something later; the type and the channel id,
\* a copy of the room id, are only listed.
Record == [creator : Users, pwd : Passwords, members : SUBSET Users]

ASSUME NoneAssumption == None \notin Record \cup Users \cup RawIds \cup RoomIds \cup Passwords

VARIABLES
    registered, \* the user ids with a record (http_join; see ZtAccounts)
    friends,    \* friends:<user>, a set the server reads and never writes
    rooms,      \* hash room:<id>: the record, or None
    members,    \* set room_members:<id>
    userRooms,  \* set user_rooms:<user>
    todo,       \* the members each handler's loop has not reached yet
    current,    \* the member each handler is adding
    created     \* history: the creations answered SUCCESS since Redis started

store == <<registered, friends, rooms, members, userRooms>>
loop == <<todo, current>>
vars == <<link, pc, req, rsp, registered, friends, rooms, members, userRooms, todo,
          current, created>>

CreateRequest == [op : {"create"}, raw : RawIds, pwd : Passwords, user : Users,
                  type : Types, members : SUBSET Users, room : {None}]
InviteRequest == [op : {"invite"}, raw : {None}, pwd : {None}, user : Users,
                  type : {None}, members : SUBSET Users, room : RoomIds]
JoinRequest   == [op : {"join"}, raw : {None}, pwd : Passwords, user : {None},
                  type : {None}, members : {{}}, room : RoomIds]
SearchRequest == [op : {"search"}, raw : {None}, pwd : {None}, user : {None},
                  type : {None}, members : {{}}, room : RoomIds]
Request == CreateRequest \cup InviteRequest \cup JoinRequest \cup SearchRequest

Step == {"idle", "user_exists", "is_friend", "room_exists", "room_save", "add_member",
         "add_room", "invite_get", "join_get", "search_get"}

Answer == {"none", "SUCCESS", "METHOD_NOT_ALLOWED", "INVALID_PARAMS", "SERVER_ERROR",
           "USER_NOT_FOUND", "NOT_FRIEND", "ROOM_ALREADY_EXISTS", "ROOM_NOT_FOUND",
           "WRONG_PASSWORD"}

NoRooms == [r \in RoomIds |-> None]
NoMembers == [r \in RoomIds |-> {}]
NoUserRooms == [u \in Users |-> {}]
NoFriends == [u \in Users |-> {}]

Init ==
    /\ HandlerInit
    /\ registered = {}
    /\ friends = NoFriends
    /\ rooms = NoRooms
    /\ members = NoMembers
    /\ userRooms = NoUserRooms
    /\ todo = [s \in Servers |-> {}]
    /\ current = [s \in Servers |-> None]
    /\ created = {}

-----------------------------------------------------------------------------
\* The room a request is about.  (The names that end in Unchecked or Swapped are
\* faulty variants, used by no action.)
Room(r) == IF r.op = "create" THEN RoomId(r.raw, r.user) ELSE r.room

\* The record HSET writes for a creation.
RecordOfSwapped(r) == [creator |-> r.pwd, pwd |-> r.user, members |-> r.members]
RecordOf(r) == [creator |-> r.user, pwd |-> r.pwd, members |-> r.members]

Creation(r) == [room |-> Room(r), record |-> RecordOf(r)]

\* http_validate_room_type_members
TypeFits(r) == CASE r.type = "1:1" -> Cardinality(r.members) = 1
                 [] r.type = "1:N" -> r.members # {}

\* The handler's loop variables, and the return from a handler with an answer.
EndLoop(s) == /\ todo' = [todo EXCEPT ![s] = {}]
              /\ current' = [current EXCEPT ![s] = None]

Return(s, code) == Reply(s, code) /\ EndLoop(s)

Continue(s, step) == GoTo(s, step) /\ UNCHANGED loop

Refuse(s) == /\ RefuseRequest(s)
             /\ UNCHANGED <<store, loop, created>>

Restart(s) == /\ RestartProcess(s)
              /\ EndLoop(s)
              /\ UNCHANGED <<store, created>>

CreateReceive(s) == /\ \E r \in CreateRequest : Receive(s, r, "user_exists")
                    /\ UNCHANGED <<store, loop, created>>

InviteReceive(s) == /\ \E r \in InviteRequest : Receive(s, r, "user_exists")
                    /\ UNCHANGED <<store, loop, created>>

JoinReceive(s) == /\ \E r \in JoinRequest : Receive(s, r, "join_get")
                  /\ UNCHANGED <<store, loop, created>>

SearchReceive(s) == /\ \E r \in SearchRequest : Receive(s, r, "search_get")
                    /\ UNCHANGED <<store, loop, created>>

-----------------------------------------------------------------------------
\* The checks that a creation and an invitation share.

\* Every member passed: a creation makes the room id, an invitation reads the room.
MembersPassed(s) ==
    IF req[s].op = "create" /\ TooLong(Room(req[s])) THEN Return(s, "INVALID_PARAMS")
    ELSE /\ GoTo(s, IF req[s].op = "create" THEN "room_exists" ELSE "invite_get")
         /\ EndLoop(s)

\* redis_user_is_friend asks Redis about everyone but the user itself.
FriendsToCheck(r) == r.members \ {r.user}

UserPassed(s) ==
    IF req[s].op = "create" /\ ~TypeFits(req[s]) THEN Return(s, "INVALID_PARAMS")
    ELSE IF FriendsToCheck(req[s]) = {} THEN MembersPassed(s)
    ELSE /\ GoTo(s, "is_friend")
         /\ todo' = [todo EXCEPT ![s] = FriendsToCheck(req[s])]
         /\ UNCHANGED current

UserExists(s) ==
    /\ pc[s] = "user_exists"
    /\ ExistsKey(s, req[s].user \in registered, UserPassed(s),
                 Return(s, "USER_NOT_FOUND"), Return(s, "SERVER_ERROR"))
    /\ UNCHANGED <<store, created>>

\* http_members_are_friends: SISMEMBER for one more member.
IsFriendUnchecked(u, m) == TRUE
IsFriend(u, m) == m \in friends[u]

CheckFriend(s) ==
    /\ pc[s] = "is_friend"
    /\ \E m \in todo[s], o \in Outcomes(link[s]) :
        /\ link' = [link EXCEPT ![s] = LinkAfter(o)]
        /\ IF o # "reply" THEN Return(s, "SERVER_ERROR")
           ELSE IF ~IsFriend(req[s].user, m) THEN Return(s, "NOT_FRIEND")
           ELSE IF todo[s] = {m} THEN MembersPassed(s)
           ELSE /\ todo' = [todo EXCEPT ![s] = @ \ {m}]
                /\ UNCHANGED <<pc, req, rsp, current>>
    /\ UNCHANGED <<store, created>>

-----------------------------------------------------------------------------
\* redis_room_save: EXISTS, HSET, then the creator and the members one by one.

RoomTakenUnchecked(id) == FALSE
RoomTaken(id) == rooms[id] # None

RoomExists(s) ==
    /\ pc[s] = "room_exists"
    /\ ExistsKey(s, RoomTaken(Room(req[s])), Return(s, "ROOM_ALREADY_EXISTS"),
                 Continue(s, "room_save"), Return(s, "SERVER_ERROR"))
    /\ UNCHANGED <<store, created>>

\* Whether the handler goes on to its next write.
WriteGoesOnUnchecked(outcome) == TRUE
WriteGoesOn(outcome) == outcome = "reply"

RoomSave(s) ==
    /\ pc[s] = "room_save"
    /\ \E o \in Outcomes(link[s]) :
        /\ rooms' = IF Executed(o) THEN [rooms EXCEPT ![Room(req[s])] = RecordOf(req[s])]
                                   ELSE rooms
        /\ link' = [link EXCEPT ![s] = LinkAfter(o)]
        /\ IF WriteGoesOn(o)
           THEN /\ GoTo(s, "add_member")
                /\ current' = [current EXCEPT ![s] = req[s].user]
                /\ todo' = [todo EXCEPT ![s] = req[s].members]
           ELSE Return(s, "SERVER_ERROR")
    /\ UNCHANGED <<registered, friends, members, userRooms, created>>

\* Any failure to add a member: 500 for a creation, 404 for an invitation.
AddFailed(s) == Return(s, IF req[s].op = "create" THEN "SERVER_ERROR" ELSE "ROOM_NOT_FOUND")

\* redis_add_room_member, first command: SADD room_members:<id>.
AddMember(s) ==
    /\ pc[s] = "add_member"
    /\ \E o \in Outcomes(link[s]) :
        /\ members' = IF Executed(o) THEN [members EXCEPT ![Room(req[s])] = @ \cup {current[s]}]
                                     ELSE members
        /\ link' = [link EXCEPT ![s] = LinkAfter(o)]
        /\ IF WriteGoesOn(o) THEN Continue(s, "add_room") ELSE AddFailed(s)
    /\ UNCHANGED <<registered, friends, rooms, userRooms, created>>

\* redis_add_room_member, second command: SADD user_rooms:<user>; then the next
\* member, or the answer.
AddRoom(s) ==
    /\ pc[s] = "add_room"
    /\ \E o \in Outcomes(link[s]) :
        /\ userRooms' =
               IF Executed(o) THEN [userRooms EXCEPT ![current[s]] = @ \cup {Room(req[s])}]
                              ELSE userRooms
        /\ link' = [link EXCEPT ![s] = LinkAfter(o)]
        /\ \/ /\ o # "reply"
              /\ AddFailed(s)
              /\ UNCHANGED created
           \/ /\ o = "reply" /\ todo[s] = {}
              /\ Return(s, "SUCCESS")
              /\ created' = IF req[s].op = "create" THEN created \cup {Creation(req[s])} ELSE created
           \/ /\ o = "reply"
              /\ \E m \in todo[s] : /\ current' = [current EXCEPT ![s] = m]
                                    /\ todo' = [todo EXCEPT ![s] = @ \ {m}]
              /\ GoTo(s, "add_member")
              /\ UNCHANGED created
    /\ UNCHANGED <<registered, friends, rooms, members>>

-----------------------------------------------------------------------------
\* redis_room_get.  A failed HMGET and a missing room look the same.
RoomGet(s, id, found, notFound) ==
    \E o \in Outcomes(link[s]) :
        /\ link' = [link EXCEPT ![s] = LinkAfter(o)]
        /\ IF o = "reply" /\ id \in RoomIds /\ rooms[id] # None THEN found ELSE notFound

RoomMissing(s) == Return(s, "ROOM_NOT_FOUND")

\* redis_room_invite
InviteGet(s) ==
    /\ pc[s] = "invite_get"
    /\ RoomGet(s, req[s].room,
               IF req[s].members = {} THEN Return(s, "SUCCESS")
               ELSE /\ GoTo(s, "add_member")
                    /\ \E m \in req[s].members :
                          /\ current' = [current EXCEPT ![s] = m]
                          /\ todo' = [todo EXCEPT ![s] = req[s].members \ {m}],
               RoomMissing(s))
    /\ UNCHANGED <<store, created>>

\* http_join_room checks the password and records no membership.
JoinGet(s) ==
    /\ pc[s] = "join_get"
    /\ RoomGet(s, req[s].room,
               Return(s, IF rooms[req[s].room].pwd = req[s].pwd THEN "SUCCESS"
                                                               ELSE "WRONG_PASSWORD"),
               RoomMissing(s))
    /\ UNCHANGED <<store, created>>

\* http_search_room passes t_room.room_id as the key and &t_room as the result;
\* redis_room_get clears the result first, and with it the key.
SearchKey(id) == <<>>

SearchGet(s) ==
    /\ pc[s] = "search_get"
    /\ RoomGet(s, SearchKey(req[s].room), Return(s, "SUCCESS"), RoomMissing(s))
    /\ UNCHANGED <<store, created>>

-----------------------------------------------------------------------------
\* The surroundings: users join (ZtAccounts); friends:<user> is filled by
\* something else than this server; Redis restarts without its data.

Register(u) == /\ registered' = registered \cup {u}
               /\ UNCHANGED <<handlerVars, friends, rooms, members, userRooms, loop, created>>

Befriend(u, v) == /\ friends' = [friends EXCEPT ![u] = @ \cup {v}]
                  /\ UNCHANGED <<handlerVars, registered, rooms, members, userRooms, loop,
                                 created>>

RedisRestart ==
    /\ DropLinks
    /\ registered' = {}
    /\ friends' = NoFriends
    /\ rooms' = NoRooms
    /\ members' = NoMembers
    /\ userRooms' = NoUserRooms
    /\ created' = {}
    /\ UNCHANGED loop

ServerStep(s) == \/ CreateReceive(s) \/ InviteReceive(s) \/ JoinReceive(s)
                 \/ SearchReceive(s) \/ Refuse(s) \/ Restart(s)
                 \/ UserExists(s) \/ CheckFriend(s)
                 \/ RoomExists(s) \/ RoomSave(s) \/ AddMember(s) \/ AddRoom(s)
                 \/ InviteGet(s) \/ JoinGet(s) \/ SearchGet(s)

Next == \/ \E s \in Servers : ServerStep(s)
        \/ \E u \in Users : Register(u)
        \/ \E u \in Users : \E v \in Users \ {u} : Befriend(u, v)
        \/ RedisRestart

Spec == Init /\ [][Next]_vars

-----------------------------------------------------------------------------
\* Properties.

\* Every variable has its type (zt_redis.c, zt_http.c: keys, replies, handlers).
TypeOK ==
    /\ link \in [Servers -> LinkState]
    /\ pc \in [Servers -> Step]
    /\ req \in [Servers -> Request \cup {None}]
    /\ rsp \in [Servers -> Answer]
    /\ registered \subseteq Users
    /\ friends \in [Users -> SUBSET Users]
    /\ rooms \in [RoomIds -> Record \cup {None}]
    /\ members \in [RoomIds -> SUBSET Users]
    /\ userRooms \in [Users -> SUBSET RoomIds]
    /\ todo \in [Servers -> SUBSET Users]
    /\ current \in [Servers -> Users \cup {None}]
    /\ created \subseteq [room : RoomIds, record : Record]

\* However many servers, and wherever they fail: a room with members has a record
\* (redis_room_save writes it first, redis_room_invite looks for it first).
MembersHaveRoom == \A r \in RoomIds : members[r] # {} => rooms[r] # None

\* A user's list of rooms never names a room the user is not a member of
\* (redis_add_room_member adds the member first).
UserRoomsBacked == \A u \in Users, r \in RoomIds : r \in userRooms[u] => u \in members[r]

\* The creator of a stored room is registered, and everyone the room was created
\* with is the creator or the creator's friend (http_create_room).
RoomsVetted ==
    \A r \in RoomIds : rooms[r] # None =>
        /\ rooms[r].creator \in registered
        /\ rooms[r].members \subseteq friends[rooms[r].creator] \cup {rooms[r].creator}

\* With one server: a room whose creation was answered SUCCESS is stored as it was
\* sent, with all its members linked both ways, and stays so (redis_room_save).
CreatedComplete ==
    \A c \in created :
        /\ rooms[c.room] = c.record
        /\ \A u \in c.record.members \cup {c.record.creator} :
               u \in members[c.room] /\ c.room \in userRooms[u]

\* With one server: a room's record never changes; it is lost with everything else
\* or not at all (redis_room_save refuses an existing id).
RoomsImmutable ==
    [][\A r \in RoomIds : rooms[r] # None => rooms'[r] = rooms[r] \/ rooms' = NoRooms]_vars

\* The users that a room names, and whose own key names the room.
LinkedUsers == [r \in RoomIds |-> {u \in members[r] : r \in userRooms[u]}]

Complete == {r \in RoomIds : /\ rooms[r] # None
                             /\ rooms[r].members \cup {rooms[r].creator} \subseteq LinkedUsers[r]}

CompleteRooms == [r \in Complete |-> [record |-> rooms[r], linked |-> LinkedUsers[r]]]

\* With one server: every run of the handlers, with their failures, crashes and
\* half-made rooms, seen through the rooms that are complete, is a run of
\* ZtRoomService (redis_room_save, redis_room_invite, redis_add_room_member).
Service == INSTANCE ZtRoomService WITH chat <- CompleteRooms

RoomService == Service!Spec
=============================================================================
