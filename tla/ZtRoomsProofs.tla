---------------------------- MODULE ZtRoomsProofs ----------------------------
(***************************************************************************)
(* Proofs about ZtRooms, for every set of servers, users, room names and   *)
(* passwords.  Two inductive invariants:                                   *)
(*                                                                         *)
(*   RoomsInv      holds however many servers share the Redis.  Beside the *)
(*                 properties it says what a handler knows of Redis while  *)
(*                 its connection is up, which the checks and writes       *)
(*                 before the current command have established;            *)
(*   SoloRoomsInv  holds when there is one server: nobody else writes      *)
(*                 between its check of the id and its last member.        *)
(***************************************************************************)
EXTENDS ZtRooms, TLAPS

CheckSteps == {"user_exists", "is_friend"}
CreateSteps == {"room_exists", "room_save"}
AddSteps == {"add_member", "add_room"}

ReqTyped ==
    \A s \in Servers :
        /\ pc[s] \in CheckSteps => req[s] \in CreateRequest \cup InviteRequest
        /\ pc[s] \in CreateSteps => req[s] \in CreateRequest /\ Room(req[s]) \in RoomIds
        /\ pc[s] \in AddSteps => /\ req[s] \in CreateRequest \cup InviteRequest
                                 /\ Room(req[s]) \in RoomIds
                                 /\ current[s] \in Users
        /\ pc[s] = "invite_get" => req[s] \in InviteRequest
        /\ pc[s] = "join_get" => req[s] \in JoinRequest
        /\ pc[s] = "search_get" => req[s] \in SearchRequest

Typed == TypeOK /\ ReqTyped

\* The room a handler adds members to is stored, and the member it links back is in.
AddsBacked ==
    \A s \in Servers : link[s] = "up" =>
        /\ pc[s] \in AddSteps => rooms[Room(req[s])] # None
        /\ pc[s] = "add_room" => current[s] \in members[Room(req[s])]

\* What the checks of a creation have established.
Vetted(s, checked) == /\ req[s].user \in registered
                      /\ checked \subseteq friends[req[s].user] \cup {req[s].user}

ChecksHold ==
    \A s \in Servers : link[s] = "up" =>
        /\ pc[s] = "is_friend" => Vetted(s, req[s].members \ todo[s])
        /\ pc[s] \in CreateSteps => Vetted(s, req[s].members)

RoomsInv == /\ Typed
            /\ AddsBacked
            /\ ChecksHold
            /\ MembersHaveRoom
            /\ UserRoomsBacked
            /\ RoomsVetted

-----------------------------------------------------------------------------
\* A command changes Redis only over a connection that is up, and the connection
\* is up afterwards only if it was up before.
LEMMA OutcomeFacts ==
    ASSUME NEW l \in LinkState, NEW o \in Outcomes(l)
    PROVE  /\ LinkAfter(o) \in LinkState
           /\ Executed(o) => l = "up"
           /\ o = "reply" => Executed(o)
           /\ LinkAfter(o) = "up" => l = "up"
BY FailuresAssumption DEF LinkState, Outcomes, LinkAfter, Executed

\* What a creation writes is a record, and never None.
LEMMA RecordFacts ==
    ASSUME NEW r \in CreateRequest
    PROVE  /\ RecordOf(r) \in Record
           /\ RecordOf(r) # None
           /\ RecordOf(r).creator = r.user
           /\ RecordOf(r).members = r.members
BY NoneAssumption DEF RecordOf, CreateRequest, Record

\* A room id that is not too long is one of RoomIds (http_make_room_id).
LEMMA RoomIdFacts ==
    ASSUME NEW r \in CreateRequest, ~TooLong(Room(r))
    PROVE  Room(r) \in RoomIds
<1>1. r.op = "create" /\ r.raw \in RawIds /\ r.user \in Users
  BY DEF CreateRequest
<1>2. r.raw \in Seq(STRING) /\ r.user \in Seq(STRING)
  BY <1>1, NameAssumption
<1>3. Room(r) = r.raw \o r.user
  BY <1>1 DEF Room, RoomId
<1>4. Room(r) \in Seq(STRING)
  BY <1>2, <1>3
<1>5. Len(Room(r)) \in Nat
  BY <1>4
<1>6. Len(Room(r)) <= MaxParts
  BY <1>5, NameAssumption DEF TooLong
<1>7. Room(r) = RoomId(r.raw, r.user)
  BY <1>3 DEF RoomId
<1> DEFINE Ids == {RoomId(raw, u) : raw \in RawIds, u \in Users}
<1>8. Room(r) \in Ids
  BY <1>1, <1>7
<1>9. RoomIds = {id \in Ids : Len(id) <= MaxParts}
  BY DEF RoomIds
<1> HIDE DEF Ids
<1> QED
  BY <1>6, <1>8, <1>9

LEMMA InitRooms == Init => RoomsInv
<1> SUFFICES ASSUME Init PROVE RoomsInv
  OBVIOUS
<1> USE DEF Init, HandlerInit, NoFriends, NoRooms, NoMembers, NoUserRooms
<1>1. TypeOK
  BY DEF TypeOK, LinkState, Step, Answer
<1>2. ReqTyped
  BY DEF ReqTyped, CheckSteps, CreateSteps, AddSteps
<1>3. AddsBacked /\ ChecksHold
  BY DEF AddsBacked, ChecksHold, CreateSteps, AddSteps
<1>4. MembersHaveRoom /\ UserRoomsBacked /\ RoomsVetted
  BY DEF MembersHaveRoom, UserRoomsBacked, RoomsVetted
<1> QED
  BY <1>1, <1>2, <1>3, <1>4 DEF RoomsInv, Typed

\* Where a request goes once all its members have passed the checks.
LEMMA MembersPassedFacts ==
    ASSUME NEW s \in Servers, req[s] \in CreateRequest \cup InviteRequest, MembersPassed(s)
    PROVE  \/ Return(s, "INVALID_PARAMS")
           \/ /\ GoTo(s, "room_exists") /\ EndLoop(s)
              /\ req[s] \in CreateRequest /\ Room(req[s]) \in RoomIds
           \/ /\ GoTo(s, "invite_get") /\ EndLoop(s)
              /\ req[s] \in InviteRequest
<1>1. CASE req[s] \in CreateRequest
  <2>1. req[s].op = "create"
    BY <1>1 DEF CreateRequest
  <2> QED
    BY <1>1, <2>1, RoomIdFacts DEF MembersPassed
<1>2. CASE req[s] \in InviteRequest
  <2>1. req[s].op # "create"
    BY <1>2 DEF InviteRequest
  <2> QED
    BY <1>2, <2>1 DEF MembersPassed
<1> QED
  BY <1>1, <1>2

-----------------------------------------------------------------------------
\* The connections, the stored keys and the history have their types.
StoreTyped == /\ link \in [Servers -> LinkState]
              /\ registered \subseteq Users
              /\ friends \in [Users -> SUBSET Users]
              /\ rooms \in [RoomIds -> Record \cup {None}]
              /\ members \in [RoomIds -> SUBSET Users]
              /\ userRooms \in [Users -> SUBSET RoomIds]
              /\ created \subseteq [room : RoomIds, record : Record]

\* Steps that write no key.
LEMMA NoWriteTyped ==
    ASSUME Typed, link' \in [Servers -> LinkState], UNCHANGED <<store, created>>
    PROVE  StoreTyped'
BY DEF Typed, TypeOK, StoreTyped, store

\* An answer leaves the types in order.
LEMMA ReturnTyped ==
    ASSUME Typed, StoreTyped', NEW s \in Servers, NEW code \in Answer, Return(s, code)
    PROVE  Typed'
<1> USE DEF Return, Reply, EndLoop
<1>1. TypeOK'
  BY DEF Typed, TypeOK, StoreTyped, Step
<1>2. ReqTyped'
  <2> SUFFICES ASSUME NEW t \in Servers, t # s
               PROVE  pc'[t] = pc[t] /\ req'[t] = req[t] /\ current'[t] = current[t]
    BY DEF Typed, TypeOK, ReqTyped, CheckSteps, CreateSteps, AddSteps
  <2> QED
    BY DEF Typed, TypeOK
<1> QED
  BY <1>1, <1>2 DEF Typed

\* So does a step on to the next command, when the request is one that command
\* is for.
StepFits(s, step) ==
    /\ step \in Step
    /\ step \in CheckSteps => req[s] \in CreateRequest \cup InviteRequest
    /\ step \in CreateSteps => req[s] \in CreateRequest /\ Room(req[s]) \in RoomIds
    /\ step \in AddSteps => /\ req[s] \in CreateRequest \cup InviteRequest
                            /\ Room(req[s]) \in RoomIds
                            /\ current'[s] \in Users
    /\ step = "invite_get" => req[s] \in InviteRequest
    /\ step \notin {"join_get", "search_get"}

LEMMA GoTyped ==
    ASSUME Typed, StoreTyped', NEW s \in Servers, NEW step, StepFits(s, step),
           GoTo(s, step),
           todo' \in [Servers -> SUBSET Users],
           current' \in [Servers -> Users \cup {None}],
           \A t \in Servers \ {s} : current'[t] = current[t]
    PROVE  Typed'
<1> USE DEF GoTo
<1>1. TypeOK'
  BY DEF Typed, TypeOK, StoreTyped, StepFits
<1>2. /\ pc'[s] = step
      /\ req' = req
      /\ \A t \in Servers \ {s} : pc'[t] = pc[t] /\ current'[t] = current[t]
  BY DEF Typed, TypeOK
<1>3. ReqTyped'
  <2> SUFFICES ASSUME NEW t \in Servers
               PROVE  ReqTyped!(t)'
    BY DEF ReqTyped
  <2>1. CASE t = s
    BY <1>2, <2>1 DEF StepFits, Room
  <2>2. CASE t # s
    BY <1>2, <2>2 DEF Typed, ReqTyped, Room
  <2> QED
    BY <2>1, <2>2
<1> QED
  BY <1>1, <1>3 DEF Typed

LEMMA MembersPassedTyped ==
    ASSUME Typed, StoreTyped', NEW s \in Servers,
           req[s] \in CreateRequest \cup InviteRequest, MembersPassed(s)
    PROVE  Typed'
<1> USE DEF Answer
<1>1. CASE Return(s, "INVALID_PARAMS")
  BY <1>1, ReturnTyped
<1>2. ASSUME NEW step \in {"room_exists", "invite_get"}, GoTo(s, step), EndLoop(s),
             step = "room_exists" => req[s] \in CreateRequest /\ Room(req[s]) \in RoomIds,
             step = "invite_get" => req[s] \in InviteRequest
      PROVE  Typed'
  <2>1. /\ todo' \in [Servers -> SUBSET Users]
        /\ current' \in [Servers -> Users \cup {None}]
        /\ \A t \in Servers \ {s} : current'[t] = current[t]
    BY <1>2 DEF EndLoop, Typed, TypeOK
  <2>2. StepFits(s, step)
    BY <1>2 DEF StepFits, Step, CheckSteps, CreateSteps, AddSteps
  <2> QED
    BY <1>2, <2>1, <2>2, GoTyped
<1>3. CASE GoTo(s, "room_exists") /\ EndLoop(s) /\ req[s] \in CreateRequest
           /\ Room(req[s]) \in RoomIds
  BY <1>2, <1>3
<1>4. CASE GoTo(s, "invite_get") /\ EndLoop(s) /\ req[s] \in InviteRequest
  BY <1>2, <1>4
<1> QED
  BY <1>1, <1>3, <1>4, MembersPassedFacts

\* The type invariant is preserved by every step.
LEMMA TypeStep ==
    ASSUME Typed, [Next]_vars
    PROVE  Typed'
<1>1. ASSUME NEW s \in Servers, NEW r \in Request, NEW step \in Step, Receive(s, r, step),
             UNCHANGED <<store, loop, created>>,
             \/ (step = "user_exists" /\ r \in CreateRequest \cup InviteRequest)
             \/ (step = "join_get" /\ r \in JoinRequest)
             \/ (step = "search_get" /\ r \in SearchRequest)
      PROVE  Typed'
  <2>1. TypeOK'
    BY <1>1 DEF Typed, TypeOK, Receive, Answer, store, loop
  <2>2. /\ pc'[s] = step /\ req'[s] = r /\ current' = current
        /\ \A t \in Servers \ {s} : pc'[t] = pc[t] /\ req'[t] = req[t]
    BY <1>1 DEF Typed, TypeOK, Receive, loop
  <2>3. ReqTyped'
    <3> SUFFICES ASSUME NEW t \in Servers
                 PROVE  ReqTyped!(t)'
      BY DEF ReqTyped
    <3>1. CASE t = s
      BY <1>1, <2>2, <3>1 DEF CheckSteps, CreateSteps, AddSteps
    <3>2. CASE t # s
      BY <2>2, <3>2 DEF Typed, ReqTyped, Room
    <3> QED
      BY <3>1, <3>2
  <2> QED
    BY <2>1, <2>3 DEF Typed
<1>2. ASSUME NEW s \in Servers, CreateReceive(s) \/ InviteReceive(s)
      PROVE  Typed'
  <2>1. PICK r \in CreateRequest \cup InviteRequest : Receive(s, r, "user_exists")
    BY <1>2 DEF CreateReceive, InviteReceive
  <2>2. UNCHANGED <<store, loop, created>>
    BY <1>2 DEF CreateReceive, InviteReceive
  <2>3. r \in Request /\ "user_exists" \in Step
    BY DEF Request, Step
  <2> QED
    BY <1>1, <2>1, <2>2, <2>3
<1>3. ASSUME NEW s \in Servers, JoinReceive(s)
      PROVE  Typed'
  <2>1. PICK r \in JoinRequest : Receive(s, r, "join_get")
    BY <1>3 DEF JoinReceive
  <2>2. UNCHANGED <<store, loop, created>>
    BY <1>3 DEF JoinReceive
  <2>3. r \in Request /\ "join_get" \in Step
    BY DEF Request, Step
  <2> QED
    BY <1>1, <2>1, <2>2, <2>3
<1>4. ASSUME NEW s \in Servers, SearchReceive(s)
      PROVE  Typed'
  <2>1. PICK r \in SearchRequest : Receive(s, r, "search_get")
    BY <1>4 DEF SearchReceive
  <2>2. UNCHANGED <<store, loop, created>>
    BY <1>4 DEF SearchReceive
  <2>3. r \in Request /\ "search_get" \in Step
    BY DEF Request, Step
  <2> QED
    BY <1>1, <2>1, <2>2, <2>3
<1>5. ASSUME NEW s \in Servers, Refuse(s)
      PROVE  Typed'
  <2>1. TypeOK'
    BY <1>5 DEF Typed, TypeOK, Refuse, RefuseRequest, Reply, Step, Answer, store, loop
  <2>2. ReqTyped'
    BY <1>5 DEF Typed, TypeOK, ReqTyped, Refuse, RefuseRequest, Reply, loop,
                CheckSteps, CreateSteps, AddSteps, Room
  <2> QED
    BY <2>1, <2>2 DEF Typed
<1>6. ASSUME NEW s \in Servers, Restart(s)
      PROVE  Typed'
  <2>1. StoreTyped'
    BY <1>6, NoWriteTyped DEF Restart, RestartProcess, Typed, TypeOK
  <2>2. Return(s, "none")
    BY <1>6 DEF Restart, RestartProcess, Return
  <2> QED
    BY <2>1, <2>2, ReturnTyped DEF Answer
<1>7. ASSUME NEW s \in Servers, UserExists(s)
      PROVE  Typed'
  <2>1. req[s] \in CreateRequest \cup InviteRequest
    BY <1>7 DEF UserExists, Typed, ReqTyped, CheckSteps
  <2>2. StoreTyped'
    <3>1. link' \in [Servers -> LinkState] /\ UNCHANGED <<store, created>>
      BY <1>7, OutcomeFacts DEF UserExists, ExistsKey, Typed, TypeOK
    <3> QED
      BY <3>1, NoWriteTyped
  <2>3. \/ \E code \in {"USER_NOT_FOUND", "SERVER_ERROR", "INVALID_PARAMS"} : Return(s, code)
        \/ MembersPassed(s)
        \/ /\ GoTo(s, "is_friend")
           /\ todo' = [todo EXCEPT ![s] = FriendsToCheck(req[s])] /\ UNCHANGED current
    BY <1>7 DEF UserExists, ExistsKey, UserPassed
  <2>4. ASSUME GoTo(s, "is_friend"), UNCHANGED current,
               todo' = [todo EXCEPT ![s] = FriendsToCheck(req[s])]
        PROVE  Typed'
    <3>1. FriendsToCheck(req[s]) \subseteq Users
      BY <2>1 DEF FriendsToCheck, CreateRequest, InviteRequest
    <3>2. todo' \in [Servers -> SUBSET Users] /\ current' \in [Servers -> Users \cup {None}]
      BY <2>4, <3>1 DEF Typed, TypeOK
    <3>3. StepFits(s, "is_friend")
      BY <2>1 DEF StepFits, Step, CheckSteps, CreateSteps, AddSteps
    <3> QED
      BY <2>2, <2>4, <3>2, <3>3, GoTyped
  <2>5. ASSUME NEW code \in {"USER_NOT_FOUND", "SERVER_ERROR", "INVALID_PARAMS"}, Return(s, code)
        PROVE  Typed'
    BY <2>2, <2>5, ReturnTyped DEF Answer
  <2> QED
    BY <2>1, <2>2, <2>3, <2>4, <2>5, MembersPassedTyped
<1>8. ASSUME NEW s \in Servers, CheckFriend(s)
      PROVE  Typed'
  <2>1. req[s] \in CreateRequest \cup InviteRequest
    BY <1>8 DEF CheckFriend, Typed, ReqTyped, CheckSteps
  <2>2. StoreTyped'
    <3>1. link' \in [Servers -> LinkState] /\ UNCHANGED <<store, created>>
      BY <1>8, OutcomeFacts DEF CheckFriend, Typed, TypeOK
    <3> QED
      BY <3>1, NoWriteTyped
  <2>3. \/ \E code \in {"NOT_FRIEND", "SERVER_ERROR"} : Return(s, code)
        \/ MembersPassed(s)
        \/ /\ \E m \in todo[s] : todo' = [todo EXCEPT ![s] = @ \ {m}]
           /\ UNCHANGED <<pc, req, rsp, current>>
    BY <1>8 DEF CheckFriend
  <2>4. ASSUME UNCHANGED <<pc, req, rsp, current>>, NEW m \in todo[s],
               todo' = [todo EXCEPT ![s] = @ \ {m}]
        PROVE  Typed'
    <3>1. TypeOK'
      BY <2>2, <2>4 DEF Typed, TypeOK, StoreTyped
    <3>2. ReqTyped'
      BY <2>4 DEF Typed, ReqTyped, Room
    <3> QED
      BY <3>1, <3>2 DEF Typed
  <2>5. ASSUME NEW code \in {"NOT_FRIEND", "SERVER_ERROR"}, Return(s, code)
        PROVE  Typed'
    BY <2>2, <2>5, ReturnTyped DEF Answer
  <2> QED
    BY <2>1, <2>2, <2>3, <2>4, <2>5, MembersPassedTyped
<1>9. ASSUME NEW s \in Servers, RoomExists(s)
      PROVE  Typed'
  <2>1. StoreTyped'
    <3>1. link' \in [Servers -> LinkState] /\ UNCHANGED <<store, created>>
      BY <1>9, OutcomeFacts DEF RoomExists, ExistsKey, Typed, TypeOK
    <3> QED
      BY <3>1, NoWriteTyped
  <2>2. \/ \E code \in {"ROOM_ALREADY_EXISTS", "SERVER_ERROR"} : Return(s, code)
        \/ Continue(s, "room_save")
    BY <1>9 DEF RoomExists, ExistsKey
  <2>3. ASSUME NEW code \in {"ROOM_ALREADY_EXISTS", "SERVER_ERROR"}, Return(s, code)
        PROVE  Typed'
    BY <2>1, <2>3, ReturnTyped DEF Answer
  <2>4. CASE Continue(s, "room_save")
    <3>1. StepFits(s, "room_save")
      BY <1>9 DEF RoomExists, StepFits, Typed, ReqTyped, Step, CheckSteps, CreateSteps, AddSteps
    <3> QED
      BY <2>1, <2>4, <3>1, GoTyped DEF Continue, loop, Typed, TypeOK
  <2> QED
    BY <2>2, <2>3, <2>4
<1>10. ASSUME NEW s \in Servers, RoomSave(s)
       PROVE  Typed'
  <2>1. req[s] \in CreateRequest /\ Room(req[s]) \in RoomIds
    BY <1>10 DEF RoomSave, Typed, ReqTyped, CreateSteps
  <2>2. StoreTyped'
    <3>1. link' \in [Servers -> LinkState]
      BY <1>10, OutcomeFacts DEF RoomSave, Typed, TypeOK
    <3>2. rooms' \in [RoomIds -> Record \cup {None}]
      BY <1>10, <2>1, RecordFacts DEF RoomSave, Typed, TypeOK
    <3> QED
      BY <1>10, <3>1, <3>2 DEF RoomSave, StoreTyped, Typed, TypeOK
  <2>3. \/ Return(s, "SERVER_ERROR")
        \/ /\ GoTo(s, "add_member")
           /\ current' = [current EXCEPT ![s] = req[s].user]
           /\ todo' = [todo EXCEPT ![s] = req[s].members]
    BY <1>10 DEF RoomSave
  <2>4. CASE Return(s, "SERVER_ERROR")
    BY <2>2, <2>4, ReturnTyped DEF Answer
  <2>5. ASSUME GoTo(s, "add_member"), current' = [current EXCEPT ![s] = req[s].user],
               todo' = [todo EXCEPT ![s] = req[s].members]
        PROVE  Typed'
    <3>1. req[s].user \in Users /\ req[s].members \subseteq Users
      BY <2>1 DEF CreateRequest
    <3>2. /\ todo' \in [Servers -> SUBSET Users]
          /\ current' \in [Servers -> Users \cup {None}]
          /\ current'[s] \in Users
          /\ \A t \in Servers \ {s} : current'[t] = current[t]
      BY <2>5, <3>1 DEF Typed, TypeOK
    <3>3. StepFits(s, "add_member")
      BY <2>1, <3>2 DEF StepFits, Step, CheckSteps, CreateSteps, AddSteps
    <3> QED
      BY <2>2, <2>5, <3>2, <3>3, GoTyped
  <2> QED
    BY <2>3, <2>4, <2>5
<1>11. ASSUME NEW s \in Servers, AddMember(s)
       PROVE  Typed'
  <2>1. /\ req[s] \in CreateRequest \cup InviteRequest
        /\ Room(req[s]) \in RoomIds
        /\ current[s] \in Users
    BY <1>11 DEF AddMember, Typed, ReqTyped, AddSteps
  <2>2. StoreTyped'
    <3>1. link' \in [Servers -> LinkState]
      BY <1>11, OutcomeFacts DEF AddMember, Typed, TypeOK
    <3>2. members' \in [RoomIds -> SUBSET Users]
      BY <1>11, <2>1 DEF AddMember, Typed, TypeOK
    <3> QED
      BY <1>11, <3>1, <3>2 DEF AddMember, StoreTyped, Typed, TypeOK
  <2>3. \/ \E code \in {"SERVER_ERROR", "ROOM_NOT_FOUND"} : Return(s, code)
        \/ Continue(s, "add_room")
    BY <1>11 DEF AddMember, AddFailed
  <2>4. ASSUME NEW code \in {"SERVER_ERROR", "ROOM_NOT_FOUND"}, Return(s, code)
        PROVE  Typed'
    BY <2>2, <2>4, ReturnTyped DEF Answer
  <2>5. CASE Continue(s, "add_room")
    <3>1. current'[s] \in Users
      BY <2>1, <2>5 DEF Continue, loop
    <3>2. StepFits(s, "add_room")
      BY <2>1, <3>1 DEF StepFits, Step, CheckSteps, CreateSteps, AddSteps
    <3> QED
      BY <2>2, <2>5, <3>2, GoTyped DEF Continue, loop, Typed, TypeOK
  <2> QED
    BY <2>3, <2>4, <2>5
<1>12. ASSUME NEW s \in Servers, AddRoom(s)
       PROVE  Typed'
  <2>1. /\ req[s] \in CreateRequest \cup InviteRequest
        /\ Room(req[s]) \in RoomIds /\ current[s] \in Users
    BY <1>12 DEF AddRoom, Typed, ReqTyped, AddSteps
  <2>2. StoreTyped'
    <3>1. link' \in [Servers -> LinkState]
      BY <1>12, OutcomeFacts DEF AddRoom, Typed, TypeOK
    <3>2. userRooms' \in [Users -> SUBSET RoomIds]
      BY <1>12, <2>1 DEF AddRoom, Typed, TypeOK
    <3>3. req[s].op = "create" => Creation(req[s]) \in [room : RoomIds, record : Record]
      BY <2>1, RecordFacts DEF Creation, InviteRequest
    <3>4. created' \subseteq [room : RoomIds, record : Record]
      BY <1>12, <3>3 DEF AddRoom, Typed, TypeOK
    <3> QED
      BY <1>12, <3>1, <3>2, <3>4 DEF AddRoom, StoreTyped, Typed, TypeOK
  <2>3. \/ \E code \in {"SERVER_ERROR", "ROOM_NOT_FOUND", "SUCCESS"} : Return(s, code)
        \/ /\ \E m \in todo[s] : /\ current' = [current EXCEPT ![s] = m]
                                 /\ todo' = [todo EXCEPT ![s] = @ \ {m}]
           /\ GoTo(s, "add_member")
    BY <1>12 DEF AddRoom, AddFailed
  <2>4. ASSUME NEW code \in {"SERVER_ERROR", "ROOM_NOT_FOUND", "SUCCESS"}, Return(s, code)
        PROVE  Typed'
    BY <2>2, <2>4, ReturnTyped DEF Answer
  <2>5. ASSUME GoTo(s, "add_member"), NEW m \in todo[s],
               current' = [current EXCEPT ![s] = m], todo' = [todo EXCEPT ![s] = @ \ {m}]
        PROVE  Typed'
    <3>1. /\ todo' \in [Servers -> SUBSET Users]
          /\ current' \in [Servers -> Users \cup {None}]
          /\ current'[s] \in Users
          /\ \A t \in Servers \ {s} : current'[t] = current[t]
      BY <2>5 DEF Typed, TypeOK
    <3>2. StepFits(s, "add_member")
      BY <2>1, <3>1 DEF StepFits, Step, CheckSteps, CreateSteps, AddSteps
    <3> QED
      BY <2>2, <2>5, <3>1, <3>2, GoTyped
  <2> QED
    BY <2>3, <2>4, <2>5
<1>13. ASSUME NEW s \in Servers, InviteGet(s)
       PROVE  Typed'
  <2>1. req[s] \in InviteRequest
    BY <1>13 DEF InviteGet, Typed, ReqTyped
  <2>2. StoreTyped'
    <3>1. link' \in [Servers -> LinkState] /\ UNCHANGED <<store, created>>
      BY <1>13, OutcomeFacts DEF InviteGet, RoomGet, Typed, TypeOK
    <3> QED
      BY <3>1, NoWriteTyped
  <2>3. \/ \E code \in {"SUCCESS", "ROOM_NOT_FOUND"} : Return(s, code)
        \/ /\ GoTo(s, "add_member")
           /\ \E m \in req[s].members :
                 /\ current' = [current EXCEPT ![s] = m]
                 /\ todo' = [todo EXCEPT ![s] = req[s].members \ {m}]
    BY <1>13 DEF InviteGet, RoomGet, RoomMissing
  <2>4. ASSUME NEW code \in {"SUCCESS", "ROOM_NOT_FOUND"}, Return(s, code)
        PROVE  Typed'
    BY <2>2, <2>4, ReturnTyped DEF Answer
  <2>5. ASSUME GoTo(s, "add_member"), NEW m \in req[s].members,
               current' = [current EXCEPT ![s] = m],
               todo' = [todo EXCEPT ![s] = req[s].members \ {m}]
        PROVE  Typed'
    <3>1. req[s].members \subseteq Users /\ Room(req[s]) \in RoomIds
      BY <2>1 DEF InviteRequest, Room
    <3>2. /\ todo' \in [Servers -> SUBSET Users]
          /\ current' \in [Servers -> Users \cup {None}]
          /\ current'[s] \in Users
          /\ \A t \in Servers \ {s} : current'[t] = current[t]
      BY <2>5, <3>1 DEF Typed, TypeOK
    <3>3. StepFits(s, "add_member")
      BY <2>1, <3>1, <3>2 DEF StepFits, Step, CheckSteps, CreateSteps, AddSteps
    <3> QED
      BY <2>2, <2>5, <3>2, <3>3, GoTyped
  <2> QED
    BY <2>3, <2>4, <2>5
<1>14. ASSUME NEW s \in Servers, JoinGet(s) \/ SearchGet(s)
       PROVE  Typed'
  <2>1. StoreTyped'
    <3>1. link' \in [Servers -> LinkState] /\ UNCHANGED <<store, created>>
      BY <1>14, OutcomeFacts DEF JoinGet, SearchGet, RoomGet, Typed, TypeOK
    <3> QED
      BY <3>1, NoWriteTyped
  <2>2. \E code \in {"SUCCESS", "WRONG_PASSWORD", "ROOM_NOT_FOUND"} : Return(s, code)
    BY <1>14 DEF JoinGet, SearchGet, RoomGet, RoomMissing
  <2> QED
    BY <2>1, <2>2, ReturnTyped DEF Answer
<1> USE DEF Typed, TypeOK, ReqTyped, CheckSteps, CreateSteps, AddSteps
<1>15. CASE \E u \in Users : Register(u)
  BY <1>15 DEF Register, handlerVars, loop
<1>16. CASE \E u \in Users : \E v \in Users \ {u} : Befriend(u, v)
  BY <1>16 DEF Befriend, handlerVars, loop
<1>17. CASE RedisRestart
  BY <1>17 DEF RedisRestart, DropLinks, NoFriends, NoRooms, NoMembers, NoUserRooms, LinkState, loop
<1>18. CASE UNCHANGED vars
  BY <1>18 DEF vars
<1> QED
  BY <1>2, <1>3, <1>4, <1>5, <1>6, <1>7, <1>8, <1>9, <1>10, <1>11, <1>12, <1>13,
     <1>14, <1>15, <1>16, <1>17, <1>18
  DEF Next, ServerStep

-----------------------------------------------------------------------------
\* What the handlers know is preserved by every step.  Only RedisRestart removes
\* anything from Redis, and after it no connection is up.
KnowledgeHolds == AddsBacked /\ ChecksHold

LEMMA KnowledgeStep ==
    ASSUME RoomsInv, [Next]_vars
    PROVE  KnowledgeHolds'
<1> USE DEF RoomsInv, Typed, TypeOK, ReqTyped, KnowledgeHolds, AddsBacked, ChecksHold, Vetted,
            CheckSteps, CreateSteps, AddSteps
<1>1. ASSUME NEW s \in Servers,
             \/ CreateReceive(s) \/ InviteReceive(s) \/ JoinReceive(s) \/ SearchReceive(s)
             \/ Refuse(s) \/ Restart(s)
      PROVE  KnowledgeHolds'
  BY <1>1 DEF CreateReceive, InviteReceive, JoinReceive, SearchReceive, Receive, Refuse,
              RefuseRequest, Restart, RestartProcess, Reply, EndLoop, store, loop
<1>2. ASSUME NEW s \in Servers, UserExists(s)
      PROVE  KnowledgeHolds'
  <2>1. /\ req[s] \in CreateRequest \cup InviteRequest
        /\ \A t \in Servers : link'[t] = "up" => link[t] = "up"
        /\ UNCHANGED <<store, created>>
    BY <1>2, OutcomeFacts DEF UserExists, ExistsKey
  <2>2. \/ Return(s, "USER_NOT_FOUND") \/ Return(s, "SERVER_ERROR")
        \/ Return(s, "INVALID_PARAMS")
        \/ /\ req[s].user \in registered /\ req[s].members \subseteq {req[s].user}
           /\ MembersPassed(s)
        \/ /\ req[s].user \in registered
           /\ GoTo(s, "is_friend")
           /\ todo' = [todo EXCEPT ![s] = req[s].members \ {req[s].user}]
           /\ UNCHANGED current
    BY <1>2 DEF UserExists, ExistsKey, UserPassed, FriendsToCheck
  <2> QED
    BY <2>1, <2>2, MembersPassedFacts DEF Return, EndLoop, Reply, GoTo, store
<1>3. ASSUME NEW s \in Servers, CheckFriend(s)
      PROVE  KnowledgeHolds'
  <2>1. /\ req[s] \in CreateRequest \cup InviteRequest
        /\ \A t \in Servers : link'[t] = "up" => link[t] = "up"
        /\ UNCHANGED <<store, created>>
    BY <1>3, OutcomeFacts DEF CheckFriend
  <2>2. \/ Return(s, "NOT_FRIEND") \/ Return(s, "SERVER_ERROR")
        \/ /\ \E m \in todo[s] : m \in friends[req[s].user] /\ todo[s] = {m}
           /\ MembersPassed(s)
        \/ /\ \E m \in todo[s] : /\ m \in friends[req[s].user]
                                 /\ todo' = [todo EXCEPT ![s] = @ \ {m}]
           /\ UNCHANGED <<pc, req, rsp, current>>
    BY <1>3 DEF CheckFriend, IsFriend
  <2>3. pc[s] = "is_friend" /\ (link[s] = "up" => Vetted(s, req[s].members \ todo[s]))
    BY <1>3 DEF CheckFriend
  <2>4. CASE Return(s, "NOT_FRIEND") \/ Return(s, "SERVER_ERROR")
    BY <2>1, <2>4 DEF Return, EndLoop, Reply, store
  <2>5. CASE /\ \E m \in todo[s] : m \in friends[req[s].user] /\ todo[s] = {m}
             /\ MembersPassed(s)
    <3>1. link[s] = "up" => Vetted(s, req[s].members)
      BY <2>3, <2>5
    <3> QED
      BY <2>1, <2>5, <3>1, MembersPassedFacts DEF Return, EndLoop, Reply, GoTo, store
  <2>6. ASSUME NEW m \in todo[s], m \in friends[req[s].user],
               todo' = [todo EXCEPT ![s] = @ \ {m}], UNCHANGED <<pc, req, rsp, current>>
        PROVE  KnowledgeHolds'
    BY <2>1, <2>3, <2>6 DEF store
  <2> QED
    BY <2>2, <2>4, <2>5, <2>6
<1>4. ASSUME NEW s \in Servers, RoomExists(s)
      PROVE  KnowledgeHolds'
  BY <1>4, OutcomeFacts
  DEF RoomExists, ExistsKey, Return, Continue, EndLoop, Reply, GoTo, store, loop
<1>5. ASSUME NEW s \in Servers, RoomSave(s)
      PROVE  KnowledgeHolds'
  BY <1>5, OutcomeFacts, RecordFacts DEF RoomSave, WriteGoesOn, Return, EndLoop, Reply, GoTo
<1>6. ASSUME NEW s \in Servers, AddMember(s)
      PROVE  KnowledgeHolds'
  BY <1>6, OutcomeFacts
  DEF AddMember, WriteGoesOn, AddFailed, Return, Continue, EndLoop, Reply, GoTo, loop
<1>7. ASSUME NEW s \in Servers, AddRoom(s)
      PROVE  KnowledgeHolds'
  BY <1>7, OutcomeFacts DEF AddRoom, AddFailed, Return, EndLoop, Reply, GoTo
<1>8. ASSUME NEW s \in Servers, InviteGet(s)
      PROVE  KnowledgeHolds'
  BY <1>8, OutcomeFacts
  DEF InviteGet, RoomGet, RoomMissing, Return, EndLoop, Reply, GoTo, Room, InviteRequest, store
<1>9. ASSUME NEW s \in Servers, JoinGet(s) \/ SearchGet(s)
      PROVE  KnowledgeHolds'
  BY <1>9, OutcomeFacts DEF JoinGet, SearchGet, RoomGet, RoomMissing, Return, EndLoop, Reply, store
<1>10. CASE \E u \in Users : Register(u)
  BY <1>10 DEF Register, handlerVars, loop
<1>11. CASE \E u \in Users : \E v \in Users \ {u} : Befriend(u, v)
  BY <1>11 DEF Befriend, handlerVars, loop
<1>12. CASE RedisRestart
  BY <1>12 DEF RedisRestart, DropLinks
<1>13. CASE UNCHANGED vars
  BY <1>13 DEF vars
<1> QED
  BY <1>1, <1>2, <1>3, <1>4, <1>5, <1>6, <1>7, <1>8, <1>9, <1>10, <1>11, <1>12, <1>13
  DEF Next, ServerStep

-----------------------------------------------------------------------------
\* What Redis holds stays consistent.  Four steps write: RoomSave, AddMember, AddRoom
\* and RedisRestart; users and friendships are only added.
StoreConsistent == MembersHaveRoom /\ UserRoomsBacked /\ RoomsVetted

LEMMA StoreStep ==
    ASSUME RoomsInv, [Next]_vars
    PROVE  StoreConsistent'
<1> USE DEF RoomsInv, Typed, TypeOK, ReqTyped, StoreConsistent, MembersHaveRoom,
            UserRoomsBacked, RoomsVetted
<1>1. ASSUME UNCHANGED store
      PROVE  StoreConsistent'
  BY <1>1 DEF store
<1>2. ASSUME NEW s \in Servers, RoomSave(s)
      PROVE  StoreConsistent'
  <2>1. /\ req[s] \in CreateRequest /\ Room(req[s]) \in RoomIds
        /\ UNCHANGED <<registered, friends, members, userRooms>>
    BY <1>2 DEF RoomSave, CreateSteps
  <2>2. \/ rooms' = rooms
        \/ /\ rooms' = [rooms EXCEPT ![Room(req[s])] = RecordOf(req[s])]
           /\ Vetted(s, req[s].members)
    BY <1>2, OutcomeFacts DEF RoomSave, ChecksHold, CreateSteps
  <2> QED
    BY <2>1, <2>2, RecordFacts DEF Vetted
<1>3. ASSUME NEW s \in Servers, AddMember(s)
      PROVE  StoreConsistent'
  <2>1. \/ members' = members
        \/ /\ members' = [members EXCEPT ![Room(req[s])] = @ \cup {current[s]}]
           /\ rooms[Room(req[s])] # None
    BY <1>3, OutcomeFacts DEF AddMember, AddsBacked, AddSteps
  <2>2. UNCHANGED <<registered, friends, rooms, userRooms>>
    BY <1>3 DEF AddMember
  <2> QED
    BY <2>1, <2>2
<1>4. ASSUME NEW s \in Servers, AddRoom(s)
      PROVE  StoreConsistent'
  <2>1. \/ userRooms' = userRooms
        \/ /\ userRooms' = [userRooms EXCEPT ![current[s]] = @ \cup {Room(req[s])}]
           /\ current[s] \in members[Room(req[s])]
    BY <1>4, OutcomeFacts DEF AddRoom, AddsBacked, AddSteps
  <2>2. UNCHANGED <<registered, friends, rooms, members>>
    BY <1>4 DEF AddRoom
  <2> QED
    BY <2>1, <2>2
<1>5. CASE \E u \in Users : Register(u)
  BY <1>5 DEF Register
<1>6. CASE \E u \in Users : \E v \in Users \ {u} : Befriend(u, v)
  BY <1>6 DEF Befriend
<1>7. CASE RedisRestart
  BY <1>7 DEF RedisRestart, NoRooms, NoMembers, NoUserRooms
<1>8. ASSUME NEW s \in Servers,
             \/ CreateReceive(s) \/ InviteReceive(s) \/ JoinReceive(s) \/ SearchReceive(s)
             \/ Refuse(s) \/ Restart(s) \/ UserExists(s) \/ CheckFriend(s) \/ RoomExists(s)
             \/ InviteGet(s) \/ JoinGet(s) \/ SearchGet(s)
      PROVE  UNCHANGED store
  BY <1>8 DEF CreateReceive, InviteReceive, JoinReceive, SearchReceive, Refuse, Restart,
              UserExists, CheckFriend, RoomExists, InviteGet, JoinGet, SearchGet
<1>9. CASE UNCHANGED vars
  BY <1>1, <1>9 DEF vars, store
<1> QED
  BY <1>1, <1>2, <1>3, <1>4, <1>5, <1>6, <1>7, <1>8, <1>9 DEF Next, ServerStep

\* However many servers: every step preserves RoomsInv.
LEMMA RoomsStep == RoomsInv /\ [Next]_vars => RoomsInv'
BY TypeStep, KnowledgeStep, StoreStep DEF RoomsInv, KnowledgeHolds, StoreConsistent

\* Every variable keeps its type (the room handlers and their commands).
THEOREM RoomsTypeCorrect == Spec => []TypeOK
<1>1. Init => RoomsInv
  BY InitRooms
<1>2. RoomsInv /\ [Next]_vars => RoomsInv'
  BY RoomsStep
<1>3. RoomsInv => TypeOK
  BY DEF RoomsInv, Typed
<1> QED
  BY <1>1, <1>2, <1>3, PTL DEF Spec

\* With any number of servers a room that has members has its record: redis_room_save
\* writes the record first, redis_room_invite looks for it first.
THEOREM MembersAlwaysHaveRoom == Spec => []MembersHaveRoom
<1>1. Init => RoomsInv
  BY InitRooms
<1>2. RoomsInv /\ [Next]_vars => RoomsInv'
  BY RoomsStep
<1>3. RoomsInv => MembersHaveRoom
  BY DEF RoomsInv
<1> QED
  BY <1>1, <1>2, <1>3, PTL DEF Spec

\* With any number of servers a user's room list names only rooms the user is a
\* member of (redis_add_room_member writes the two sets in that order).
THEOREM RoomListsBacked == Spec => []UserRoomsBacked
<1>1. Init => RoomsInv
  BY InitRooms
<1>2. RoomsInv /\ [Next]_vars => RoomsInv'
  BY RoomsStep
<1>3. RoomsInv => UserRoomsBacked
  BY DEF RoomsInv
<1> QED
  BY <1>1, <1>2, <1>3, PTL DEF Spec

\* With any number of servers a stored room's creator is registered and a friend of
\* everyone the room was created with (the checks of http_create_room).
THEOREM RoomsStayVetted == Spec => []RoomsVetted
<1>1. Init => RoomsInv
  BY InitRooms
<1>2. RoomsInv /\ [Next]_vars => RoomsInv'
  BY RoomsStep
<1>3. RoomsInv => RoomsVetted
  BY DEF RoomsInv
<1> QED
  BY <1>1, <1>2, <1>3, PTL DEF Spec

-----------------------------------------------------------------------------
\* One server.  A creation saves under an id that has no room, and while its
\* connection is up its room is as it wrote it, with the members added so far
\* linked both ways.
Linked(u, r) == u \in members[r] /\ r \in userRooms[u]

SavesFresh == \A s \in Servers : pc[s] = "room_save" => rooms[Room(req[s])] = None

LinkedSoFar ==
    \A s \in Servers :
        link[s] = "up" /\ pc[s] \in AddSteps /\ req[s].op = "create" =>
            /\ rooms[Room(req[s])] = RecordOf(req[s])
            /\ \A u \in (req[s].members \cup {req[s].user}) \ (todo[s] \cup {current[s]}) :
                   Linked(u, Room(req[s]))

SoloRoomsInv == RoomsInv /\ SavesFresh /\ LinkedSoFar /\ CreatedComplete

LEMMA InitSoloRooms == Init => SoloRoomsInv
<1> SUFFICES ASSUME Init PROVE SoloRoomsInv
  OBVIOUS
<1>1. RoomsInv
  BY InitRooms
<1>2. SavesFresh /\ LinkedSoFar /\ CreatedComplete
  BY DEF Init, HandlerInit, SavesFresh, LinkedSoFar, CreatedComplete, AddSteps
<1> QED
  BY <1>1, <1>2 DEF SoloRoomsInv

\* One server: every step preserves what the server knows of its own writes.
SoloKnows == SavesFresh /\ LinkedSoFar /\ CreatedComplete

LEMMA SoloKnowsStep ==
    ASSUME SingleServer, SoloRoomsInv, [Next]_vars
    PROVE  SoloKnows'
<1> USE DEF SingleServer, SoloRoomsInv, RoomsInv, Typed, TypeOK, ReqTyped, SoloKnows, SavesFresh,
            LinkedSoFar, CreatedComplete, Linked, CreateSteps, AddSteps
<1>1. ASSUME NEW s \in Servers,
             \/ CreateReceive(s) \/ InviteReceive(s) \/ JoinReceive(s) \/ SearchReceive(s)
             \/ Refuse(s) \/ Restart(s)
      PROVE  SoloKnows'
  BY <1>1 DEF CreateReceive, InviteReceive, JoinReceive, SearchReceive, Receive, Refuse,
              RefuseRequest, Restart, RestartProcess, Reply, EndLoop, store, loop
<1>2. ASSUME NEW s \in Servers, UserExists(s) \/ CheckFriend(s)
      PROVE  SoloKnows'
  <2>1. pc'[s] \in {"idle", "is_friend", "room_exists", "invite_get"} /\ UNCHANGED <<store, created>>
    BY <1>2 DEF UserExists, CheckFriend, ExistsKey, UserPassed, MembersPassed, Return, Reply, GoTo
  <2> QED
    BY <2>1 DEF store
<1>3. ASSUME NEW s \in Servers, RoomExists(s)
      PROVE  SoloKnows'
  BY <1>3 DEF RoomExists, RoomTaken, ExistsKey, Return, Continue, EndLoop, Reply, GoTo, store, loop
<1>4. ASSUME NEW s \in Servers, RoomSave(s)
      PROVE  SoloKnows'
  <2>1. /\ req[s] \in CreateRequest /\ Room(req[s]) \in RoomIds
        /\ rooms[Room(req[s])] = None
        /\ UNCHANGED <<members, userRooms, created>>
    BY <1>4 DEF RoomSave, WriteGoesOn, Return, Reply, GoTo
  <2>2. \/ rooms' = rooms
        \/ rooms' = [rooms EXCEPT ![Room(req[s])] = RecordOf(req[s])]
    BY <1>4 DEF RoomSave
  <2>3. \A c \in created : c.room # Room(req[s])
    BY <2>1, NoneAssumption
  <2>4. CreatedComplete'
    BY <2>1, <2>2, <2>3
  <2>5. \/ pc'[s] = "idle"
        \/ /\ pc'[s] = "add_member" /\ UNCHANGED req
           /\ rooms' = [rooms EXCEPT ![Room(req[s])] = RecordOf(req[s])]
           /\ current'[s] = req[s].user /\ todo'[s] = req[s].members
    BY <1>4, OutcomeFacts DEF RoomSave, WriteGoesOn, Return, Reply, GoTo
  <2> QED
    BY <2>1, <2>4, <2>5
<1>5. ASSUME NEW s \in Servers, AddMember(s)
      PROVE  SoloKnows'
  BY <1>5, OutcomeFacts
  DEF AddMember, WriteGoesOn, AddFailed, Return, Continue, EndLoop, Reply, GoTo, loop
<1>6. ASSUME NEW s \in Servers, AddRoom(s)
      PROVE  SoloKnows'
  <2> DEFINE r == Room(req[s])
             all == req[s].members \cup {req[s].user}
  <2>1. /\ r \in RoomIds /\ current[s] \in Users /\ pc[s] = "add_room"
        /\ UNCHANGED <<registered, friends, rooms, members>>
        /\ \A u \in Users : userRooms[u] \subseteq userRooms'[u]
    BY <1>6 DEF AddRoom
  <2>2. \/ pc'[s] = "idle" /\ created' = created
        \/ /\ pc'[s] = "idle" /\ todo[s] = {}
           /\ created' = IF req[s].op = "create" THEN created \cup {Creation(req[s])} ELSE created
           /\ link[s] = "up" /\ r \in userRooms'[current[s]]
        \/ /\ pc'[s] = "add_member" /\ UNCHANGED <<req, created>>
           /\ todo'[s] \cup {current'[s]} = todo[s]
           /\ link[s] = "up" /\ r \in userRooms'[current[s]]
    BY <1>6, <2>1, OutcomeFacts DEF AddRoom, AddFailed, Return, Reply, GoTo
  <2>3. link[s] = "up" => current[s] \in members[r]
    BY <2>1 DEF AddsBacked
  <2>4. link[s] = "up" /\ req[s].op = "create" =>
            \A u \in all \ (todo[s] \cup {current[s]}) :
                u \in Users /\ u \in members'[r] /\ r \in userRooms'[u]
    BY <2>1 DEF CreateRequest, InviteRequest
  <2>5. \A c \in created : \A u \in c.record.members \cup {c.record.creator} : u \in Users
    BY DEF Record
  <2>6. CASE pc'[s] = "idle" /\ created' = created
    BY <2>1, <2>5, <2>6
  <2>7. CASE /\ pc'[s] = "idle" /\ todo[s] = {}
             /\ created' = IF req[s].op = "create" THEN created \cup {Creation(req[s])} ELSE created
             /\ link[s] = "up" /\ r \in userRooms'[current[s]]
    <3>1. req[s].op = "create" =>
              /\ rooms'[r] = RecordOf(req[s])
              /\ \A u \in all : u \in members'[r] /\ r \in userRooms'[u]
      BY <2>1, <2>3, <2>4, <2>7
    <3> QED
      BY <2>1, <2>5, <2>7, <3>1 DEF Creation, RecordOf
  <2>8. CASE /\ pc'[s] = "add_member" /\ UNCHANGED <<req, created>>
             /\ todo'[s] \cup {current'[s]} = todo[s]
             /\ link[s] = "up" /\ r \in userRooms'[current[s]]
    BY <2>1, <2>3, <2>4, <2>5, <2>8
  <2> QED
    BY <2>2, <2>6, <2>7, <2>8
<1>7. ASSUME NEW s \in Servers, InviteGet(s)
      PROVE  SoloKnows'
  BY <1>7, OutcomeFacts
  DEF InviteGet, RoomGet, RoomMissing, Return, EndLoop, Reply, GoTo, InviteRequest, store
<1>8. ASSUME NEW s \in Servers, JoinGet(s) \/ SearchGet(s)
      PROVE  SoloKnows'
  BY <1>8 DEF JoinGet, SearchGet, RoomGet, RoomMissing, Return, EndLoop, Reply, store
<1>9. CASE \E u \in Users : Register(u)
  BY <1>9 DEF Register, handlerVars, loop
<1>10. CASE \E u \in Users : \E v \in Users \ {u} : Befriend(u, v)
  BY <1>10 DEF Befriend, handlerVars, loop
<1>11. CASE RedisRestart
  BY <1>11 DEF RedisRestart, DropLinks, NoRooms
<1>12. CASE UNCHANGED vars
  BY <1>12 DEF vars
<1> QED
  BY <1>1, <1>2, <1>3, <1>4, <1>5, <1>6, <1>7, <1>8, <1>9, <1>10, <1>11, <1>12
  DEF Next, ServerStep

LEMMA SoloRoomsStep ==
    ASSUME SingleServer
    PROVE  SoloRoomsInv /\ [Next]_vars => SoloRoomsInv'
BY RoomsStep, SoloKnowsStep DEF SoloRoomsInv, SoloKnows

\* One server: a record is written only under an id that has none.
LEMMA RoomRecordStep ==
    ASSUME SingleServer, SoloRoomsInv, [Next]_vars
    PROVE  \A r \in RoomIds : rooms[r] # None => rooms'[r] = rooms[r] \/ rooms' = NoRooms
<1> USE DEF SoloRoomsInv, RoomsInv, Typed, TypeOK, ReqTyped, SavesFresh, CreateSteps
<1>1. ASSUME NEW s \in Servers, RoomSave(s)
      PROVE  \A r \in RoomIds : rooms[r] # None => rooms'[r] = rooms[r]
  BY <1>1 DEF RoomSave
<1>2. ASSUME NEW s \in Servers,
             \/ CreateReceive(s) \/ InviteReceive(s) \/ JoinReceive(s) \/ SearchReceive(s)
             \/ Refuse(s) \/ Restart(s) \/ UserExists(s) \/ CheckFriend(s) \/ RoomExists(s)
             \/ AddMember(s) \/ AddRoom(s) \/ InviteGet(s) \/ JoinGet(s) \/ SearchGet(s)
      PROVE  rooms' = rooms
  BY <1>2 DEF CreateReceive, InviteReceive, JoinReceive, SearchReceive, Refuse, Restart,
              UserExists, CheckFriend, RoomExists, AddMember, AddRoom, InviteGet, JoinGet,
              SearchGet, store
<1>3. CASE RedisRestart
  BY <1>3 DEF RedisRestart
<1>4. CASE \/ \E u \in Users : Register(u)
           \/ \E u \in Users : \E v \in Users \ {u} : Befriend(u, v)
           \/ UNCHANGED vars
  BY <1>4 DEF Register, Befriend, vars
<1> QED
  BY <1>1, <1>2, <1>3, <1>4 DEF Next, ServerStep

\* One server: a room whose creation was answered SUCCESS is stored as sent, with all
\* its members linked both ways, until Redis loses its data (redis_room_save).
THEOREM SoloCreatedComplete == SingleServer => (Spec => []CreatedComplete)
<1> SUFFICES ASSUME SingleServer PROVE Spec => []CreatedComplete
  OBVIOUS
<1>1. Init => SoloRoomsInv
  BY InitSoloRooms
<1>2. SoloRoomsInv /\ [Next]_vars => SoloRoomsInv'
  BY SoloRoomsStep
<1>3. SoloRoomsInv => CreatedComplete
  BY DEF SoloRoomsInv
<1> QED
  BY <1>1, <1>2, <1>3, PTL DEF Spec

\* One server: a room's record changes only by being lost with all the others, also
\* for pairs of a name and a creator that give one id.
THEOREM SoloRoomsImmutable == SingleServer => (Spec => RoomsImmutable)
<1> SUFFICES ASSUME SingleServer PROVE Spec => RoomsImmutable
  OBVIOUS
<1> DEFINE Kept == \A r \in RoomIds : rooms[r] # None => rooms'[r] = rooms[r] \/ rooms' = NoRooms
<1>1. Init => SoloRoomsInv
  BY InitSoloRooms
<1>2. SoloRoomsInv /\ [Next]_vars => SoloRoomsInv'
  BY SoloRoomsStep
<1>3. SoloRoomsInv /\ [Next]_vars => [Kept]_vars
  BY RoomRecordStep
<1> QED
  BY <1>1, <1>2, <1>3, PTL DEF Spec, RoomsImmutable

-----------------------------------------------------------------------------
\* One server: ZtRooms implements ZtRoomService under the mapping CompleteRooms.  Only
\* three steps touch what the mapping reads.  Saving a record leaves the room
\* incomplete, because nobody is linked to a room without a record (MembersHaveRoom);
\* adding a member changes no link, because the user's own key comes later
\* (UserRoomsBacked); and writing that key adds one link, which opens the room, or makes
\* it grow, or is not seen yet.


Seen == [r \in RoomIds |-> [record |-> rooms[r], linked |-> LinkedUsers[r]]]

LEMMA MappingFacts ==
    /\ Complete \subseteq RoomIds /\ Complete' \subseteq RoomIds
    /\ CompleteRooms = [r \in Complete |-> Seen[r]]
    /\ CompleteRooms' = [r \in Complete' |-> Seen'[r]]
    /\ DOMAIN CompleteRooms = Complete
    /\ (DOMAIN CompleteRooms)' = Complete'
BY DEF CompleteRooms, Complete, Seen

\* Rooms that look the same before and after are no step of the service.
LEMMA NothingSeen ==
    ASSUME \A r \in RoomIds : rooms'[r] = rooms[r] /\ LinkedUsers'[r] = LinkedUsers[r]
    PROVE  UNCHANGED CompleteRooms
<1>1. Complete' = Complete
  BY DEF Complete
<1>2. \A r \in Complete : Seen'[r] = Seen[r]
  BY DEF Seen, Complete
<1> QED
  BY <1>1, <1>2, MappingFacts

\* One more user linked to one room.
LEMMA OneLinkMore ==
    ASSUME SoloRoomsInv, NEW id \in RoomIds, NEW user \in Users,
           rooms' = rooms,
           LinkedUsers'[id] = LinkedUsers[id] \cup {user},
           \A r \in RoomIds \ {id} : LinkedUsers'[r] = LinkedUsers[r]
    PROVE  [Service!Next]_CompleteRooms
<1>1. /\ \A r \in RoomIds \ {id} : r \in Complete' <=> r \in Complete
      /\ id \in Complete => id \in Complete'
      /\ Complete \subseteq RoomIds /\ Complete' \subseteq RoomIds
  BY DEF Complete
<1>2. \A r \in RoomIds \ {id} : Seen'[r] = Seen[r]
  BY DEF Seen
<1>3. /\ Seen[id] = [record |-> rooms[id], linked |-> LinkedUsers[id]]
      /\ Seen'[id] = [record |-> rooms[id], linked |-> LinkedUsers[id] \cup {user}]
  BY DEF Seen
<1>4. CASE id \in Complete
  <2>1. Complete' = Complete
    BY <1>1, <1>4
  <2>2. Seen'[id] = [record |-> Seen[id].record, linked |-> Seen[id].linked \cup {user}]
    BY <1>3
  <2>3. CompleteRooms' = [CompleteRooms EXCEPT ![id] =
                              [record |-> @.record, linked |-> @.linked \cup {user}]]
    BY <1>2, <1>4, <2>1, <2>2, MappingFacts
  <2>4. Service!Grow(id, user)
    BY <1>4, <2>3, MappingFacts DEF Service!Grow
  <2> QED
    BY <2>4 DEF Service!Next
<1>5. CASE id \notin Complete /\ id \in Complete'
  <2>1. Complete' = Complete \cup {id}
    BY <1>1, <1>5
  <2>2. \A r \in Complete : CompleteRooms'[r] = CompleteRooms[r]
    BY <1>1, <1>2, <1>5, <2>1, MappingFacts
  <2>3. CompleteRooms'[id] = [record |-> rooms[id], linked |-> LinkedUsers'[id]]
    BY <1>3, <2>1, MappingFacts
  <2>4. /\ rooms[id] \in Record /\ LinkedUsers'[id] \in SUBSET Users
        /\ rooms[id].members \cup {rooms[id].creator} \subseteq LinkedUsers'[id]
    BY <1>5 DEF Complete, LinkedUsers, SoloRoomsInv, RoomsInv, Typed, TypeOK
  <2>5. Service!Open(id)
    BY <1>5, <2>1, <2>2, <2>3, <2>4, MappingFacts DEF Service!Open
  <2> QED
    BY <2>5 DEF Service!Next
<1>6. CASE id \notin Complete /\ id \notin Complete'
  <2>1. Complete' = Complete
    BY <1>1, <1>6
  <2>2. \A r \in Complete : Seen'[r] = Seen[r]
    BY <1>1, <1>2, <1>6
  <2> QED
    BY <2>1, <2>2, MappingFacts
<1> QED
  BY <1>4, <1>5, <1>6

LEMMA AddRoomServes ==
    ASSUME SoloRoomsInv, NEW s \in Servers, AddRoom(s)
    PROVE  [Service!Next]_CompleteRooms
<1> DEFINE id == Room(req[s])
           user == current[s]
<1>1. /\ id \in RoomIds /\ user \in Users
      /\ rooms' = rooms /\ members' = members
      /\ \/ userRooms' = userRooms
         \/ userRooms' = [userRooms EXCEPT ![user] = @ \cup {id}]
  BY DEF AddRoom, SoloRoomsInv, RoomsInv, Typed, ReqTyped, AddSteps
<1>2. members \in [RoomIds -> SUBSET Users] /\ userRooms \in [Users -> SUBSET RoomIds]
  BY DEF SoloRoomsInv, RoomsInv, Typed, TypeOK
<1>3. \A r \in RoomIds \ {id} : LinkedUsers'[r] = LinkedUsers[r]
  BY <1>1, <1>2 DEF LinkedUsers
<1>4. CASE LinkedUsers'[id] = LinkedUsers[id]
  BY <1>1, <1>3, <1>4, NothingSeen
<1>5. CASE LinkedUsers'[id] = LinkedUsers[id] \cup {user}
  <2> HIDE DEF id, user
  <2> QED
    BY <1>1, <1>3, <1>5, OneLinkMore
<1>6. LinkedUsers'[id] = LinkedUsers[id] \/ LinkedUsers'[id] = LinkedUsers[id] \cup {user}
  BY <1>1, <1>2 DEF LinkedUsers
<1> QED
  BY <1>4, <1>5, <1>6

LEMMA AddMemberUnseen ==
    ASSUME SoloRoomsInv, NEW s \in Servers, AddMember(s)
    PROVE  UNCHANGED CompleteRooms
<1> DEFINE id == Room(req[s])
           user == current[s]
<1>1. /\ id \in RoomIds /\ user \in Users
      /\ rooms' = rooms /\ userRooms' = userRooms
      /\ \/ members' = members
         \/ members' = [members EXCEPT ![id] = @ \cup {user}]
  BY DEF AddMember, SoloRoomsInv, RoomsInv, Typed, ReqTyped, AddSteps
<1>2. members \in [RoomIds -> SUBSET Users] /\ userRooms \in [Users -> SUBSET RoomIds]
  BY DEF SoloRoomsInv, RoomsInv, Typed, TypeOK
<1>3. id \in userRooms[user] => user \in members[id]
  BY <1>1 DEF SoloRoomsInv, RoomsInv, UserRoomsBacked
<1>4. \A r \in RoomIds : LinkedUsers'[r] = LinkedUsers[r]
  BY <1>1, <1>2, <1>3 DEF LinkedUsers
<1> QED
  BY <1>1, <1>4, NothingSeen

LEMMA RoomSaveUnseen ==
    ASSUME SoloRoomsInv, NEW s \in Servers, RoomSave(s)
    PROVE  UNCHANGED CompleteRooms
<1> DEFINE id == Room(req[s])
<1>1. /\ id \in RoomIds /\ req[s] \in CreateRequest
      /\ members' = members /\ userRooms' = userRooms
      /\ rooms' = rooms \/ rooms' = [rooms EXCEPT ![id] = RecordOf(req[s])]
  BY DEF RoomSave, SoloRoomsInv, RoomsInv, Typed, ReqTyped, CreateSteps
<1>2. rooms[id] = None /\ rooms \in [RoomIds -> Record \cup {None}]
  BY DEF RoomSave, SoloRoomsInv, RoomsInv, Typed, TypeOK, SavesFresh
<1>3. LinkedUsers[id] = {}
  BY <1>1, <1>2 DEF SoloRoomsInv, RoomsInv, MembersHaveRoom, LinkedUsers
<1>4. \A r \in RoomIds : LinkedUsers'[r] = LinkedUsers[r]
  BY <1>1 DEF LinkedUsers
<1>5. CASE rooms' = rooms
  BY <1>4, <1>5, NothingSeen
<1>6. CASE rooms' = [rooms EXCEPT ![id] = RecordOf(req[s])]
  <2>1. id \notin Complete /\ id \notin Complete'
    BY <1>2, <1>3, <1>4, <1>1 DEF Complete
  <2>2. \A r \in RoomIds \ {id} : rooms'[r] = rooms[r] /\ Seen'[r] = Seen[r]
    BY <1>2, <1>4, <1>6 DEF Seen
  <2>3. Complete' = Complete
    BY <1>4, <2>1, <2>2 DEF Complete
  <2>4. \A r \in Complete : Seen'[r] = Seen[r]
    BY <2>1, <2>2 DEF Complete
  <2> QED
    BY <2>3, <2>4, MappingFacts
<1> QED
  BY <1>1, <1>5, <1>6

LEMMA ServiceStep ==
    ASSUME SoloRoomsInv, [Next]_vars
    PROVE  [Service!Next]_CompleteRooms
<1>1. ASSUME UNCHANGED <<rooms, members, userRooms>>
      PROVE  UNCHANGED CompleteRooms
  BY <1>1, NothingSeen DEF LinkedUsers
<1>2. ASSUME NEW s \in Servers,
             \/ CreateReceive(s) \/ InviteReceive(s) \/ JoinReceive(s) \/ SearchReceive(s)
             \/ Refuse(s) \/ Restart(s) \/ UserExists(s) \/ CheckFriend(s) \/ RoomExists(s)
             \/ InviteGet(s) \/ JoinGet(s) \/ SearchGet(s)
      PROVE  UNCHANGED CompleteRooms
  BY <1>1, <1>2 DEF CreateReceive, InviteReceive, JoinReceive, SearchReceive, Refuse, Restart,
                    UserExists, CheckFriend, RoomExists, InviteGet, JoinGet, SearchGet, store
<1>3. ASSUME NEW s \in Servers, RoomSave(s) \/ AddMember(s) \/ AddRoom(s)
      PROVE  [Service!Next]_CompleteRooms
  BY <1>3, RoomSaveUnseen, AddMemberUnseen, AddRoomServes
<1>4. CASE \/ \E u \in Users : Register(u)
           \/ \E u \in Users : \E v \in Users \ {u} : Befriend(u, v)
           \/ UNCHANGED vars
  BY <1>1, <1>4 DEF Register, Befriend, vars
<1>5. CASE RedisRestart
  <2>1. Complete' = {}
    BY <1>5 DEF RedisRestart, NoRooms, Complete
  <2> QED
    BY <2>1, MappingFacts DEF Service!Next, Service!LoseAll
<1> QED
  BY <1>2, <1>3, <1>4, <1>5 DEF Next, ServerStep

\* One server: whatever fails between the commands that make up a room, the rooms that
\* are complete behave as ZtRoomService says: they open in one piece, and only grow.
THEOREM SoloRoomService == SingleServer => (Spec => RoomService)
<1> SUFFICES ASSUME SingleServer PROVE Spec => RoomService
  OBVIOUS
<1>1. Init => SoloRoomsInv
  BY InitSoloRooms
<1>2. SoloRoomsInv /\ [Next]_vars => SoloRoomsInv'
  BY SoloRoomsStep
<1>3. Init => Service!Init
  BY MappingFacts DEF Init, NoRooms, Complete, Service!Init
<1>4. SoloRoomsInv /\ [Next]_vars => [Service!Next]_CompleteRooms
  BY ServiceStep
<1> QED
  BY <1>1, <1>2, <1>3, <1>4, PTL DEF Spec, RoomService, Service!Spec
=============================================================================
