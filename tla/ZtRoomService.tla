---------------------------- MODULE ZtRoomService ----------------------------
(***************************************************************************)
(* What http_create_room and http_invite_room (zt_http.c) do to the rooms, *)
(* as atomic steps: a room opens in one piece, with its creator and the    *)
(* members it was created with linked to it; its record stays as it is,    *)
(* and from then on it only gains users, one at a time.  Only a Redis      *)
(* without a volume may lose rooms, and then it loses them all.            *)
(***************************************************************************)
CONSTANTS Users, RoomIds,
          Record        \* what a creation writes: creator, password, first members

VARIABLE chat           \* the open rooms: id |-> record, users linked to it

Init == DOMAIN chat = {}

Open(id) ==
    /\ id \notin DOMAIN chat
    /\ DOMAIN chat' = DOMAIN chat \cup {id}
    /\ \A r \in DOMAIN chat : chat'[r] = chat[r]
    /\ \E record \in Record, linked \in SUBSET Users :
          /\ chat'[id] = [record |-> record, linked |-> linked]
          /\ record.members \cup {record.creator} \subseteq linked

Grow(id, user) ==
    /\ id \in DOMAIN chat
    /\ chat' = [chat EXCEPT ![id] = [record |-> @.record, linked |-> @.linked \cup {user}]]

LoseAll == DOMAIN chat' = {}

Next == \/ LoseAll
        \/ \E id \in RoomIds : Open(id) \/ \E user \in Users : Grow(id, user)

Spec == Init /\ [][Next]_chat
=============================================================================
