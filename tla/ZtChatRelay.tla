----------------------------- MODULE ZtChatRelay -----------------------------
(***************************************************************************)
(* The chat prototype's server, ServerManager (ServerNetwork.cs), with its *)
(* window (ServerForm.cs).  One accept loop (ConnectClients) greets the    *)
(* clients one after the other and starts a task per client                *)
(* (ReceiveMessages) that relays what the client sends to everyone listed  *)
(* in its room.                                                            *)
(*                                                                         *)
(* The loop keeps the room and the name of the client it greets in         *)
(* variables declared outside the loop.  The callback for the window and   *)
(* the task capture the variables, not their values, and read them when    *)
(* they run, which may be after the loop has gone on to the next client.   *)
(* The loop writes them at two places, so a task may even find the name of *)
(* the next client with the room of its own.                               *)
(*                                                                         *)
(* A name, and a text that is relayed, is the sequence of the segments     *)
(* that one Receive returned: the connection does not keep sends apart.    *)
(***************************************************************************)
EXTENDS Naturals, FiniteSets, SequencesExt

CONSTANTS Clients, Chats,
          MaxTexts,     \* bound: texts a client sends
          Terse,        \* bound: the clients that send one text at most
          None

\* What a client sends: "chat|name" first, then texts, numbered.
Hello(c, chat) == [from |-> c, hello |-> chat, no |-> 0]
Text(c, n)     == [from |-> c, hello |-> None, no |-> n]

VARIABLES
    conn,       \* "away", "queued" for accept, "open", then "closed" or "reset"
    chose,      \* the chat each client asked for
    sent,       \* how many texts each client has sent
    inbox,      \* segments sent and not yet received
    at,         \* where the accept loop is, and the socket it greets
    local,      \* its chatName, clientName and chatRoomId
    chatRooms,  \* ChatRooms: id of each chat, 0 when it has none
    listed,     \* ConnectedClients: the list of each id
    task,       \* ReceiveMessages of each socket
    sending,    \* the BroadCast of each actor: message and sockets still to do
    lock,       \* LockObject
    got,        \* the messages sent to each client, in order
    shown       \* the names in the window's client list, and a callback waiting

vars == <<conn, chose, sent, inbox, at, local, chatRooms, listed, task, sending, lock,
          got, shown>>

Loop == "loop"              \* an actor, besides the tasks
Actors == Clients \cup {Loop}
Ids == 1 .. Cardinality(Chats)

ASSUME RelayAssumption ==
    /\ MaxTexts \in Nat
    /\ IsFiniteSet(Chats)
    /\ Loop \notin Clients
    /\ None \notin Actors \cup Chats

NoMessage == [kind |-> "none", by |-> None, text |-> <<>>]
NoBroadcast == [message |-> NoMessage, todo |-> <<>>]

Init ==
    /\ conn = [c \in Clients |-> "away"]
    /\ chose = [c \in Clients |-> None]
    /\ sent = [c \in Clients |-> 0]
    /\ inbox = [c \in Clients |-> <<>>]
    /\ at = [pc |-> "accept", socket |-> None]
    /\ local = [chat |-> None, name |-> <<>>, id |-> 0]
    /\ chatRooms = [chat \in Chats |-> 0]
    /\ listed = [id \in Ids |-> <<>>]
    /\ task = [c \in Clients |-> [pc |-> "none", id |-> 0, name |-> <<>>, text |-> <<>>]]
    /\ sending = [a \in Actors |-> NoBroadcast]
    /\ lock = None
    /\ got = [c \in Clients |-> <<>>]
    /\ shown = [names |-> {}, waiting |-> FALSE]

-----------------------------------------------------------------------------
\* Clients (ClientManager: Connect, SendMessage, Disconnect).

server == <<at, local, chatRooms, listed, task, sending, lock, got, shown>>

Connect(c) ==
    /\ conn[c] = "away"
    /\ conn' = [conn EXCEPT ![c] = "queued"]
    /\ UNCHANGED <<chose, sent, inbox, server>>

Present(c) == conn[c] \in {"queued", "open"}

SayHello(c) ==
    /\ Present(c) /\ chose[c] = None
    /\ \E chat \in Chats : /\ chose' = [chose EXCEPT ![c] = chat]
                           /\ inbox' = [inbox EXCEPT ![c] = <<Hello(c, chat)>>]
    /\ UNCHANGED <<conn, sent, server>>

Say(c) ==
    /\ Present(c) /\ chose[c] # None /\ sent[c] < MaxTexts
    /\ c \in Terse => sent[c] = 0
    /\ sent' = [sent EXCEPT ![c] = @ + 1]
    /\ inbox' = [inbox EXCEPT ![c] = Append(@, Text(c, sent[c] + 1))]
    /\ UNCHANGED <<conn, chose, server>>

Leave(c) ==
    /\ conn[c] = "open"
    /\ \/ /\ conn' = [conn EXCEPT ![c] = "closed"]
          /\ UNCHANGED inbox
       \/ /\ conn' = [conn EXCEPT ![c] = "reset"]
          /\ inbox' = [inbox EXCEPT ![c] = <<>>]
    /\ UNCHANGED <<chose, sent, server>>

client == <<conn, chose, sent, inbox>>

\* One Receive returns some of the segments that have arrived, as one.
ReceivedHead(c, n) == SubSeq(inbox[c], 1, 1)
Received(c, n) == SubSeq(inbox[c], 1, n)

Take(c, n) == inbox' = [inbox EXCEPT ![c] = SubSeq(@, n + 1, Len(@))]

-----------------------------------------------------------------------------
\* BroadCast.  It holds the lock while it hands the message to every socket of the
\* room, in the order of the list.  "by" is who hands it out: it tells apart messages
\* that say the same.  (The names that end in Head, Unlocked, Stopped or Reused are
\* faulty variants.)

LockFreeUnlocked == TRUE
LockFree == lock = None

StartBroadcast(a, id, message) ==
    /\ sending' = [sending EXCEPT ![a] = [message |-> message,
                                          todo |-> [i \in DOMAIN listed[id] |-> listed[id][i].socket]]]
    /\ lock' = a

SendNext(a) ==
    /\ sending[a].message # NoMessage
    /\ IF sending[a].todo = <<>>
       THEN /\ sending' = [sending EXCEPT ![a] = NoBroadcast]
            /\ lock' = None
            /\ UNCHANGED got
       ELSE /\ got' = [got EXCEPT ![Head(sending[a].todo)] = Append(@, sending[a].message)]
            /\ sending' = [sending EXCEPT ![a] = [message |-> sending[a].message,
                                                  todo |-> Tail(sending[a].todo)]]
            /\ UNCHANGED lock
    /\ UNCHANGED <<client, at, local, chatRooms, listed, task, shown>>

Idle(a) == sending[a].message = NoMessage

-----------------------------------------------------------------------------
\* ConnectClients.

Accept(c) ==
    /\ at.pc = "accept" /\ conn[c] = "queued"
    /\ conn' = [conn EXCEPT ![c] = "open"]
    /\ at' = [pc |-> "hello", socket |-> c]
    /\ UNCHANGED <<chose, sent, inbox, local, chatRooms, listed, task, sending, lock, got,
                   shown>>

LoopAt(step) == at' = [pc |-> step, socket |-> at.socket]

\* Receive the first segments and split them at '|'.
ReceiveHello ==
    /\ at.pc = "hello"
    /\ \E n \in 1 .. Len(inbox[at.socket]) :
        /\ Take(at.socket, n)
        /\ local' = [chat |-> Head(inbox[at.socket]).hello,
                     name |-> Received(at.socket, n), id |-> local.id]
    /\ LoopAt("register")
    /\ UNCHANGED <<conn, chose, sent, chatRooms, listed, task, sending, lock, got, shown>>

AfterFailureStopped == [pc |-> "stopped", socket |-> None]
AfterFailure == [pc |-> "accept", socket |-> None]

\* No bytes: info[0] is "", info[1] does not exist, and the loop goes on with the
\* next client.  A reset throws before anything is assigned.
HelloFails ==
    /\ at.pc = "hello" /\ inbox[at.socket] = <<>>
    /\ \/ /\ conn[at.socket] = "closed"
          /\ local' = [chat |-> None, name |-> local.name, id |-> local.id]
       \/ conn[at.socket] = "reset" /\ UNCHANGED local
    /\ at' = AfterFailure
    /\ UNCHANGED <<client, chatRooms, listed, task, sending, lock, got, shown>>

NewIdReused == 1
NewId == Cardinality({chat \in Chats : chatRooms[chat] # 0}) + 1

\* In one lock: find or make the room, list the client.  Then post the callback that
\* shows it in the window.
Register ==
    /\ at.pc = "register" /\ LockFree
    /\ LET id == IF chatRooms[local.chat] = 0 THEN NewId ELSE chatRooms[local.chat] IN
       /\ chatRooms' = [chatRooms EXCEPT ![local.chat] = id]
       /\ listed' = [listed EXCEPT ![id] = Append(@, [name |-> local.name, socket |-> at.socket])]
       /\ local' = [chat |-> local.chat, name |-> local.name, id |-> id]
    /\ shown' = [names |-> shown.names, waiting |-> TRUE]
    /\ LoopAt("announce")
    /\ UNCHANGED <<client, task, sending, lock, got>>

\* The window's thread runs HandleClientConnected.
ShowClient ==
    /\ shown.waiting
    /\ shown' = [names |-> shown.names \cup {local.name}, waiting |-> FALSE]
    /\ UNCHANGED <<client, at, local, chatRooms, listed, task, sending, lock, got>>

\* HandleMessageReceived waits for the window's thread, which takes its callbacks in
\* order: the one posted before has then run.
WindowDone == ~shown.waiting

Announce ==
    /\ at.pc = "announce" /\ WindowDone /\ LockFree
    /\ StartBroadcast(Loop, local.id, [kind |-> "enter", by |-> Loop, text |-> local.name])
    /\ LoopAt("start")
    /\ UNCHANGED <<client, local, chatRooms, listed, task, got, shown>>

\* The task of a client goes on, with its room and the name it announces.
TaskAt(c, step, text) ==
    task' = [task EXCEPT ![c] = [pc |-> step, id |-> task[c].id, name |-> task[c].name,
                                 text |-> text]]

\* Start the task.  If a send has already failed the socket is no longer Connected,
\* and its entry is removed again.
StartTask ==
    /\ at.pc = "start" /\ Idle(Loop)
    /\ TaskAt(at.socket, "ready", <<>>)
    /\ \/ /\ at' = [pc |-> "accept", socket |-> None]
       \/ /\ conn[at.socket] = "reset"
          /\ LoopAt("remove")
    /\ UNCHANGED <<client, local, chatRooms, listed, sending, lock, got, shown>>

\* List.Remove takes the first entry that is equal.
RemoveClient ==
    /\ at.pc = "remove" /\ LockFree
    /\ LET list == listed[local.id]
           entry == [name |-> local.name, socket |-> at.socket]
       IN \E i \in DOMAIN list :
             /\ list[i] = entry /\ \A j \in 1 .. i - 1 : list[j] # entry
             /\ listed' = [listed EXCEPT ![local.id] = RemoveAt(list, i)]
    /\ shown' = [names |-> shown.names \ {local.name}, waiting |-> shown.waiting]
    /\ at' = [pc |-> "accept", socket |-> None]
    /\ UNCHANGED <<client, local, chatRooms, task, sending, lock, got>>

-----------------------------------------------------------------------------
\* ReceiveMessages.

\* The task begins to run, and reads the loop's variables.
BeginTask(c) ==
    /\ task[c].pc = "ready"
    /\ task' = [task EXCEPT ![c] = [pc |-> "receive", id |-> local.id,
                                     name |-> local.name, text |-> <<>>]]
    /\ UNCHANGED <<client, at, local, chatRooms, listed, sending, lock, got, shown>>

\* Receive a text, and wait for the window's thread to log it.
ReceiveText(c) ==
    /\ task[c].pc = "receive" /\ Idle(c)
    /\ \E n \in 1 .. Len(inbox[c]) :
        /\ Take(c, n)
        /\ TaskAt(c, "relay", Received(c, n))
    /\ UNCHANGED <<conn, chose, sent, at, local, chatRooms, listed, sending, lock, got, shown>>

RelayText(c) ==
    /\ task[c].pc = "relay" /\ LockFree
    /\ StartBroadcast(c, task[c].id, [kind |-> "text", by |-> c, text |-> task[c].text])
    /\ TaskAt(c, "receive", <<>>)
    /\ UNCHANGED <<client, at, local, chatRooms, listed, got, shown>>

\* The end of the stream: announce it, then tell the window.  The entry stays listed.
RelayLeft(c) ==
    /\ task[c].pc = "receive" /\ Idle(c) /\ LockFree
    /\ conn[c] = "closed" /\ inbox[c] = <<>>
    /\ StartBroadcast(c, task[c].id, [kind |-> "left", by |-> c, text |-> task[c].name])
    /\ TaskAt(c, "left", <<>>)
    /\ UNCHANGED <<client, at, local, chatRooms, listed, got, shown>>

HideClient(c) ==
    /\ task[c].pc = "left" /\ Idle(c)
    /\ shown' = [names |-> shown.names \ {task[c].name}, waiting |-> shown.waiting]
    /\ TaskAt(c, "done", <<>>)
    /\ UNCHANGED <<client, at, local, chatRooms, listed, sending, lock, got>>

\* A reset: Receive throws, and nobody observes the task.
TaskDies(c) ==
    /\ task[c].pc = "receive" /\ Idle(c) /\ conn[c] = "reset"
    /\ TaskAt(c, "done", <<>>)
    /\ UNCHANGED <<client, at, local, chatRooms, listed, sending, lock, got, shown>>

-----------------------------------------------------------------------------
ClientStep(c) == Connect(c) \/ SayHello(c) \/ Say(c) \/ Leave(c)

LoopStep == \/ \E c \in Clients : Accept(c)
            \/ ReceiveHello \/ HelloFails \/ Register \/ Announce \/ SendNext(Loop)
            \/ StartTask \/ RemoveClient

TaskStep(c) == \/ BeginTask(c) \/ ReceiveText(c) \/ RelayText(c) \/ RelayLeft(c)
               \/ SendNext(c) \/ HideClient(c) \/ TaskDies(c)

Next == \/ \E c \in Clients : ClientStep(c) \/ TaskStep(c)
        \/ LoopStep
        \/ ShowClient

Spec == Init /\ [][Next]_vars

\* Tasks, loop and window have threads; a client sends its hello right after it
\* connects; tasks that contend for the lock all get it in the end.
FairSpec == /\ Spec
            /\ WF_vars(ShowClient) /\ SF_vars(LoopStep)
            /\ \A c \in Clients : WF_vars(SayHello(c)) /\ SF_vars(TaskStep(c))

-----------------------------------------------------------------------------
\* Properties.

Segment == [from : Clients, hello : Chats \cup {None}, no : 0 .. MaxTexts]
Message == [kind : {"enter", "text", "left"}, by : Actors, text : Seq(Segment)]
Entry == [name : Seq(Segment), socket : Clients]

\* Every variable has its type, and only the holder of the lock is sending
\* (BroadCast).
TypeOK ==
    /\ conn \in [Clients -> {"away", "queued", "open", "closed", "reset"}]
    /\ chose \in [Clients -> Chats \cup {None}]
    /\ sent \in [Clients -> 0 .. MaxTexts]
    /\ inbox \in [Clients -> Seq(Segment)]
    /\ at \in [pc : {"accept", "hello", "register", "announce", "start", "remove"},
              socket : Clients \cup {None}]
    /\ local \in [chat : Chats \cup {None}, name : Seq(Segment), id : Ids \cup {0}]
    /\ chatRooms \in [Chats -> Ids \cup {0}]
    /\ listed \in [Ids -> Seq(Entry)]
    /\ task \in [Clients -> [pc : {"none", "ready", "receive", "relay", "left", "done"},
                             id : Ids \cup {0}, name : Seq(Segment), text : Seq(Segment)]]
    /\ sending \in [Actors -> [message : Message \cup {NoMessage}, todo : Seq(Clients)]]
    /\ lock \in Actors \cup {None}
    /\ got \in [Clients -> Seq(Message)]
    /\ shown \in [names : SUBSET Seq(Segment), waiting : BOOLEAN]
    /\ \A a \in Actors : Idle(a) <=> lock # a

\* Any two clients see the messages they both see in one order, whoever sent them
\* (BroadCast holds the lock while it goes through the list).
SameOrder ==
    \A c, d \in Clients : \A i, j \in DOMAIN got[c], k, l \in DOMAIN got[d] :
        i < j /\ k < l => ~(got[c][i] = got[d][l] /\ got[c][j] = got[d][k])

\* What a client sees of another's words, the name it gave included, is an unbroken piece
\* of what the other sent: receives join segments, but none is lost, doubled or swapped
\* on the way, also when texts become part of the name (ConnectClients, ReceiveMessages).
Words(d, c) ==
    LET said == SelectSeq(got[d], LAMBDA m : m.kind # "left" /\ Head(m.text).from = c)
    IN FlattenSeq([i \in DOMAIN said |-> said[i].text])

Unbroken ==
    \A c, d \in Clients : \A i \in DOMAIN Words(d, c) :
        Words(d, c)[i].no = Words(d, c)[1].no + i - 1

\* A client that has connected is greeted in the end, whatever the clients before it
\* did (the loop's catch goes on with the next one).
EventuallyGreeted == \A c \in Clients : conn[c] = "queued" ~> conn[c] # "queued"

\* ServerNetwork.cs:14, the id of the chat room and the users in it: a task relays to
\* the room that its client is listed in.
TaskInItsRoom ==
    \A c \in Clients : task[c].pc \in {"receive", "relay"} /\ conn[c] = "open" =>
        \E i \in DOMAIN listed[task[c].id] : listed[task[c].id][i].socket = c

\* Every run, seen through the lists of the rooms and through what the broadcast under
\* way will still hand out, is a run of ZtBroadcast: whatever the room a late task finds,
\* it keeps to that room, and all the room's members see its messages at once
\* (Register, BroadCast, ReceiveMessages).
MembersOf ==
    [chat \in Chats |->
        IF chatRooms[chat] = 0 THEN {}
        ELSE {listed[chatRooms[chat]][i].socket : i \in DOMAIN listed[chatRooms[chat]]}]

VoiceOf ==
    [c \in Clients |->
        IF task[c].id = 0 THEN None ELSE CHOOSE chat \in Chats : chatRooms[chat] = task[c].id]

Seen ==
    [c \in Clients |->
        IF lock # None /\ c \in Range(sending[lock].todo)
        THEN Append(got[c], sending[lock].message) ELSE got[c]]

Broadcast == INSTANCE ZtBroadcast WITH members <- MembersOf, voice <- VoiceOf, seen <- Seen

RoomBroadcast == Broadcast!Spec
=============================================================================
