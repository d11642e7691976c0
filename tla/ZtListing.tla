------------------------------ MODULE ZtListing ------------------------------
(***************************************************************************)
(* The two listings: http_list_rooms over redis_room_list (SCAN, then one  *)
(* HMGET per key) and http_list_friends over redis_friend_list (SMEMBERS,  *)
(* then one HMGET per friend), and the text they put into two buffers of   *)
(* DATA_MAX_LEN bytes: the list, and the body that wraps it.  Each Redis   *)
(* command is one step; rooms, users and friends are added meanwhile.      *)
(***************************************************************************)
EXTENDS ZtHandler, Naturals, Sequences, SequencesExt

CONSTANTS Rooms, Users,
          Askers,       \* bound: the users whose friends are listed
          RoomMax,      \* ROOM_MAX_COUNT
          FriendMax,    \* FRIEND_MAX_COUNT
          ScanMax,      \* bound: keys in one reply of SCAN
          ListMax,      \* list text that fits str_list_data, in units of text
          BodyMax       \* list text that fits str_data with BODY_FMT around it

ASSUME LimitAssumption ==
    /\ {RoomMax, FriendMax, ScanMax, ListMax, BodyMax} \subseteq Nat
    /\ RoomMax > 0 /\ FriendMax > 0
    /\ BodyMax <= ListMax
    /\ Askers \subseteq Users
    /\ IsFiniteSet(Users)

VARIABLES
    rooms,      \* the stored rooms
    registered, \* the user ids with a record
    friends,    \* friends:<user>
    keys,       \* the keys each handler has from Redis and has not looked up
    cursor,     \* the SCAN of each handler: done?, and what it must still return
    found,      \* out_rooms or out_friends of each handler: the slots filled
    body,       \* what each server's answer names, and whether it was cut
    start,      \* history: rooms and friends stored when the handler started
    failed      \* history: some command of the handler failed

store == <<rooms, registered, friends>>
local == <<keys, cursor, found>>
history == <<body, start, failed>>
vars == <<handlerVars, store, local, history>>

RoomsRequest == [op : {"rooms"}, user : {None}]
FriendsRequest == [op : {"friends"}, user : Askers]

Step == {"idle", "scan", "room_get", "user_exists", "friend_list", "friend_get"}

Answer == {"none", "SUCCESS", "METHOD_NOT_ALLOWED", "INVALID_PARAMS", "SERVER_ERROR",
           "USER_NOT_FOUND"}

\* A slot: a room or a friend with its fields, or a friend with the id alone.
Slot == [id : Rooms \cup Users, bare : BOOLEAN]
Blank == [id |-> None, bare |-> TRUE]

NoCursor == [done |-> TRUE, due |-> {}]
NoBody == [list |-> <<>>, cut |-> FALSE]
NoFriends == [u \in Askers |-> {}]

Init ==
    /\ HandlerInit
    /\ rooms = {} /\ registered = {} /\ friends = NoFriends
    /\ keys = [s \in Servers |-> <<>>]
    /\ cursor = [s \in Servers |-> NoCursor]
    /\ found = [s \in Servers |-> <<>>]
    /\ body = [s \in Servers |-> NoBody]
    /\ start = [s \in Servers |-> {}]
    /\ failed = [s \in Servers |-> FALSE]

-----------------------------------------------------------------------------
\* The text.  A slot with its fields takes two units, a bare one takes one.
\* (The names that end in Stale, Once, Counted or Dropped are faulty variants.)

TextLength(list) == FoldSeq(LAMBDA slot, n : n + (IF slot.bare THEN 1 ELSE 2), 0, list)

ClearLocalsStale(s) == /\ keys' = [keys EXCEPT ![s] = <<>>]
                       /\ cursor' = [cursor EXCEPT ![s] = NoCursor]
                       /\ UNCHANGED found
ClearLocals(s) == /\ keys' = [keys EXCEPT ![s] = <<>>]
                  /\ cursor' = [cursor EXCEPT ![s] = NoCursor]
                  /\ found' = [found EXCEPT ![s] = <<>>]

Fail(s, code) == /\ Reply(s, code)
                 /\ ClearLocals(s)
                 /\ UNCHANGED body

\* snprintf writes the body up to the end of its buffer: n slots arrive whole, and the
\* one after them, if there is one, does not.
Fits(list, n) ==
    /\ TextLength(SubSeq(list, 1, n)) <= BodyMax
    /\ n < Len(list) => TextLength(SubSeq(list, 1, n + 1)) > BodyMax

\* The end of the handler: 500 if the list does not fit its buffer.  A body that does
\* not fit is cut, which generate_response_body reports and its callers ignore: it is
\* sent as a SUCCESS all the same.
AnswerList(s, list) ==
    IF TextLength(list) > ListMax THEN Fail(s, "SERVER_ERROR")
    ELSE /\ Reply(s, "SUCCESS")
         /\ ClearLocals(s)
         /\ \E n \in 0 .. Len(list) :
               /\ Fits(list, n)
               /\ body' = [body EXCEPT ![s] = [list |-> SubSeq(list, 1, n),
                                              cut |-> n # Len(list)]]

\* A command, with its effect on the connection and on the history.
Command(s, ifReply, otherwise) ==
    \E o \in Outcomes(link[s]) :
        /\ link' = [link EXCEPT ![s] = LinkAfter(o)]
        /\ failed' = [failed EXCEPT ![s] = @ \/ o # "reply"]
        /\ IF o = "reply" THEN ifReply ELSE otherwise

Start(s, r, step, stored) ==
    /\ Receive(s, r, step)
    /\ cursor' = [cursor EXCEPT ![s] = [done |-> FALSE, due |-> stored]]
    /\ start' = [start EXCEPT ![s] = stored]
    /\ failed' = [failed EXCEPT ![s] = FALSE]
    /\ body' = [body EXCEPT ![s] = NoBody]
    /\ UNCHANGED <<store, keys, found>>

Refuse(s) == RefuseRequest(s) /\ UNCHANGED <<store, local, history>>

Restart(s) == RestartProcess(s) /\ ClearLocals(s) /\ UNCHANGED <<store, history>>

-----------------------------------------------------------------------------
\* GET /rooms

RoomsReceive(s) == \E r \in RoomsRequest : Start(s, r, "scan", rooms)

\* One reply of SCAN: some keys, in any order; a key may come again in a later
\* reply, and a complete SCAN has returned every key that was there all along.
Batches == {b \in SeqOf(rooms, ScanMax) : IsInjective(b)}

\* After a batch: another SCAN, unless the cursor is back at 0 or the slots are full.
ScansOnOnce(s, list) == FALSE
ScansOn(s, list) == ~cursor[s].done /\ Len(list) < RoomMax

Scan(s) ==
    /\ pc[s] = "scan"
    /\ Command(s,
           \E b \in Batches, done \in BOOLEAN :
               LET due == cursor[s].due \ ToSet(b) IN
               /\ done => due = {}
               /\ IF b = <<>> /\ done THEN AnswerList(s, found[s])
                  ELSE /\ keys' = [keys EXCEPT ![s] = b]
                       /\ cursor' = [cursor EXCEPT ![s] = [done |-> done, due |-> due]]
                       /\ GoTo(s, IF b = <<>> THEN "scan" ELSE "room_get")
                       /\ UNCHANGED <<found, body>>,
           Fail(s, "SERVER_ERROR"))
    /\ UNCHANGED <<store, start>>

\* The slots after a lookup that found nothing: the slot is used for the next key.
AfterMissCounted(list) == Append(list, Blank)
AfterMiss(list) == list

RoomDone(s, list) ==
    LET rest == Tail(keys[s]) IN
    IF Len(list) < RoomMax /\ rest # <<>>
    THEN /\ keys' = [keys EXCEPT ![s] = rest]
         /\ found' = [found EXCEPT ![s] = list]
         /\ UNCHANGED <<pc, req, rsp, cursor, body>>
    ELSE IF ScansOn(s, list)
    THEN /\ GoTo(s, "scan")
         /\ keys' = [keys EXCEPT ![s] = <<>>]
         /\ found' = [found EXCEPT ![s] = list]
         /\ UNCHANGED <<cursor, body>>
    ELSE AnswerList(s, list)

\* redis_room_get for one key; a failure passes over the room.
RoomGet(s) ==
    /\ pc[s] = "room_get"
    /\ LET id == Head(keys[s])
           hit == Append(found[s], [id |-> id, bare |-> FALSE])
       IN Command(s, RoomDone(s, IF id \in rooms THEN hit ELSE AfterMiss(found[s])),
                     RoomDone(s, AfterMiss(found[s])))
    /\ UNCHANGED <<store, start>>

-----------------------------------------------------------------------------
\* GET /friends?user_id=

FriendsReceive(s) ==
    \E r \in FriendsRequest : Start(s, r, "user_exists", friends[r.user])

UserExists(s) ==
    /\ pc[s] = "user_exists"
    /\ Command(s,
           IF req[s].user \in registered
           THEN GoTo(s, "friend_list") /\ UNCHANGED <<local, body>>
           ELSE Fail(s, "USER_NOT_FOUND"),
           Fail(s, "SERVER_ERROR"))
    /\ UNCHANGED <<store, start>>

\* SMEMBERS, in any order.
FriendList(s) ==
    /\ pc[s] = "friend_list"
    /\ Command(s,
           \E order \in SetToAllKPermutations(friends[req[s].user]) :
               /\ ToSet(order) = friends[req[s].user]
               /\ IF order = <<>> THEN AnswerList(s, <<>>)
                  ELSE /\ keys' = [keys EXCEPT ![s] = order]
                       /\ GoTo(s, "friend_get")
                       /\ UNCHANGED <<cursor, found, body>>,
           Fail(s, "SERVER_ERROR"))
    /\ UNCHANGED <<store, start>>

\* The slots after a friend was looked up; without its record the id alone is kept.
AddFriendDropped(list, id, hit) ==
    IF hit THEN Append(list, [id |-> id, bare |-> FALSE]) ELSE list
AddFriend(list, id, hit) == Append(list, [id |-> id, bare |-> ~hit])

FriendDone(s, list) ==
    LET rest == Tail(keys[s]) IN
    IF Len(list) < FriendMax /\ rest # <<>>
    THEN /\ keys' = [keys EXCEPT ![s] = rest]
         /\ found' = [found EXCEPT ![s] = list]
         /\ UNCHANGED <<pc, req, rsp, cursor, body>>
    ELSE AnswerList(s, list)

FriendGet(s) ==
    /\ pc[s] = "friend_get"
    /\ LET id == Head(keys[s]) IN
       Command(s, FriendDone(s, AddFriend(found[s], id, id \in registered)),
                  FriendDone(s, AddFriend(found[s], id, FALSE)))
    /\ UNCHANGED <<store, start>>

-----------------------------------------------------------------------------
\* What others do meanwhile (ZtAccounts, ZtRooms).

CreateRoom(r) == /\ rooms' = rooms \cup {r}
                 /\ UNCHANGED <<handlerVars, registered, friends, local, history>>

Register(u) == /\ registered' = registered \cup {u}
               /\ UNCHANGED <<handlerVars, rooms, friends, local, history>>

Befriend(u, v) == /\ friends' = [friends EXCEPT ![u] = @ \cup {v}]
                  /\ UNCHANGED <<handlerVars, rooms, registered, local, history>>

RedisRestart == /\ DropLinks
                /\ rooms' = {} /\ registered' = {} /\ friends' = NoFriends
                /\ UNCHANGED <<local, history>>

ServerStep(s) == \/ RoomsReceive(s) \/ FriendsReceive(s) \/ Refuse(s) \/ Restart(s)
                 \/ Scan(s) \/ RoomGet(s)
                 \/ UserExists(s) \/ FriendList(s) \/ FriendGet(s)

Next == \/ \E s \in Servers : ServerStep(s)
        \/ \E r \in Rooms : CreateRoom(r)
        \/ \E u \in Users : Register(u)
        \/ \E u \in Askers : \E v \in Users \ {u} : Befriend(u, v)
        \/ RedisRestart

Spec == Init /\ [][Next]_vars

-----------------------------------------------------------------------------
\* Properties.

Ids(list) == {list[i].id : i \in DOMAIN list}

\* Every variable has its type, and no handler fills more slots than it has
\* (redis_room_list, redis_friend_list).
TypeOK ==
    /\ link \in [Servers -> LinkState]
    /\ pc \in [Servers -> Step]
    /\ req \in [Servers -> RoomsRequest \cup FriendsRequest \cup {None}]
    /\ rsp \in [Servers -> Answer]
    /\ rooms \subseteq Rooms /\ registered \subseteq Users
    /\ friends \in [Askers -> SUBSET Users]
    /\ keys \in [Servers -> Seq(Rooms \cup Users)]
    /\ cursor \in [Servers -> [done : BOOLEAN, due : SUBSET (Rooms \cup Users)]]
    /\ found \in [Servers -> Seq(Slot)]
    /\ body \in [Servers -> [list : Seq(Slot), cut : BOOLEAN]]
    /\ start \in [Servers -> SUBSET (Rooms \cup Users)]
    /\ failed \in [Servers -> BOOLEAN]
    /\ \A s \in Servers :
          Len(found[s]) <= IF pc[s] = "friend_get" THEN FriendMax ELSE RoomMax

\* While its connection holds, a handler has found only rooms that are stored and
\* friends the user has, and the friends it has the fields of are registered: nothing of
\* an earlier request or of an empty slot (redis_room_list reuses a slot whose lookup
\* failed, redis_friend_list clears its fields).
WithFields(list) == {list[i].id : i \in {j \in DOMAIN list : ~list[j].bare}}

FoundStored ==
    \A s \in Servers : link[s] = "up" /\ req[s] # None =>
        IF req[s].op = "rooms" THEN Ids(found[s]) \subseteq rooms
        ELSE /\ Ids(found[s]) \subseteq friends[req[s].user]
             /\ WithFields(found[s]) \subseteq registered

\* An answer names what was stored at the start, or had all its slots in use, or was cut
\* where one more slot would not have fitted the body.
CutFull(list) == \E slot \in Slot : TextLength(Append(list, slot)) > BodyMax

Names(stored, answer, max) ==
    \/ stored \subseteq Ids(answer.list)
    \/ ~answer.cut /\ Len(answer.list) = max
    \/ answer.cut /\ CutFull(answer.list)

\* A room listing answered SUCCESS names every room stored when it began, unless a
\* lookup failed, its slots ran out or its body was cut; rooms created meanwhile do not
\* push one out (redis_room_list follows the cursor back to 0).
RoomsComplete ==
    [][\A s \in Servers :
          pc[s] \in {"scan", "room_get"} /\ rsp'[s] = "SUCCESS" /\ ~failed'[s]
          => Names(start[s], body'[s], RoomMax)]_vars

\* A friend listing answered SUCCESS names every friend the user had when it began,
\* with or without a record and whatever failed, unless its slots ran out or its body
\* was cut (redis_friend_list keeps the id of a friend it cannot look up).
FriendsComplete ==
    [][\A s \in Servers :
          pc[s] \in {"friend_list", "friend_get"} /\ rsp'[s] = "SUCCESS"
          => Names(start[s], body'[s], FriendMax)]_vars
=============================================================================
