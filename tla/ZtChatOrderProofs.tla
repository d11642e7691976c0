-------------------------- MODULE ZtChatOrderProofs --------------------------
(***************************************************************************)
(* The order of the messages that ZtChatRelay's clients get, and that the  *)
(* relay is an atomic broadcast (ZtBroadcast), whenever the tasks start.   *)
(* SameOrder alone is not inductive: a message that is sent a second time  *)
(* could come between others.  OrderInv rules that out.                    *)
(*                                                                         *)
(*   SpentInv  a message that is on its way, or has come, is one that its  *)
(*             owner cannot cause again: a client enters once, leaves      *)
(*             once, and what it says has rising numbers.  So a broadcast  *)
(*             begins with a message nobody has been sent.                 *)
(*   LastInv   the message being sent, which only the holder of the lock   *)
(*             has, stands last wherever it has come, and goes to each     *)
(*             socket once (ListedOnce: a room lists a socket once).       *)
(*   RoomInv   the id that a task reads, whenever it starts, is the id of  *)
(*             a chat; which chat that is never changes.                   *)
(*                                                                         *)
(* For ZtBroadcast a message is seen by all members when its broadcast     *)
(* begins, and handing it out shows nothing more.  NewcomerInv says that   *)
(* who joins has been told nothing before.                                 *)
(***************************************************************************)
EXTENDS ZtChatRelayProofs

\* From whom a text is.
Speaker(text) == text[1].from
SaidBy(text, c) == text # <<>> /\ Speaker(text) = c

\* Whose step a message is: the client that enters, or the one that speaks or leaves.
OwnedBy(m, c) == IF m.kind = "enter" THEN SaidBy(m.text, c) ELSE m.by = c

\* An id that a chat has.
HasChat(id) == \E chat \in Chats : chatRooms[chat] = id

\* The loop and the tasks have the ids of chats, and a client with a task chose a chat.
RoomInv ==
    /\ local.id # 0 => HasChat(local.id)
    /\ \A c \in Clients : /\ task[c].id # 0 => HasChat(task[c].id)
                          /\ task[c].pc \in {"none", "ready"} => task[c].id = 0
                          /\ task[c].pc # "none" => chose[c] \in Chats

\* A client that is being greeted has no task yet.
AwaitTask == at.pc \in {"hello", "register", "announce", "start"} => task[at.socket].pc = "none"

\* A client has a task, or the loop has registered it and is about to give it one.
Given(c) == \/ task[c].pc # "none"
            \/ at.pc \in {"announce", "start"} /\ at.socket = c

\* A socket stands once in a list, and not before the loop has registered it.
ListedOnce ==
    \A id \in Ids :
        /\ \A i, j \in 1 .. Len(listed[id]) :
              listed[id][i].socket = listed[id][j].socket => i = j
        /\ \A i \in 1 .. Len(listed[id]) : Given(listed[id][i].socket)

\* Number n is past for a client: what it has on its way has a later one.
Past(n, c) == /\ n \in Nat /\ n <= sent[c]
              /\ \A i \in 1 .. Len(inbox[c]) : n < inbox[c][i].no

\* The numbers of what a client says rise.
Rising(c) ==
    /\ \A i \in 1 .. Len(inbox[c]) : inbox[c][i].no <= sent[c]
    /\ \A i, j \in 1 .. Len(inbox[c]) : i < j => inbox[c][i].no < inbox[c][j].no
    /\ task[c].pc = "relay" => Past(task[c].text[1].no, c)

RisingInv == \A c \in Clients : Rising(c)

\* A message that its owner cannot cause again.
SpentBy(m, c) ==
    /\ m.kind = "enter" => task[c].pc # "none" \/ (at.pc = "start" /\ at.socket = c)
    /\ m.kind = "left" => task[c].pc \in {"left", "done"}
    /\ m.kind = "text" => /\ Past(m.text[1].no, c)
                          /\ task[c].pc = "relay" => m.text[1].no < task[c].text[1].no

Spent(m) == \E c \in Clients : chose[c] \in Chats /\ OwnedBy(m, c) /\ SpentBy(m, c)

SpentInv ==
    /\ \A a \in Actors : ~Idle(a) => Spent(sending[a].message)
    /\ \A d \in Clients : \A k \in 1 .. Len(got[d]) : Spent(got[d][k])

\* A message that is being sent comes last wherever it has come, and comes once.
LastOf(message, todo) ==
    /\ \A i, j \in 1 .. Len(todo) : todo[i] = todo[j] => i = j
    /\ \A i \in 1 .. Len(todo) : \A k \in 1 .. Len(got[todo[i]]) : got[todo[i]][k] # message
    /\ \A d \in Clients : \A k \in 1 .. Len(got[d]) : got[d][k] = message => k = Len(got[d])

LastInv == \A a \in Actors : ~Idle(a) => LastOf(sending[a].message, sending[a].todo)

OrderInv ==
    /\ RelayInv /\ RoomInv /\ AwaitTask /\ ListedOnce
    /\ RisingInv /\ SpentInv /\ LastInv /\ SameOrder

-----------------------------------------------------------------------------
\* What a step does to the loop, to a task and to the segments of a client.

LEMMA LoopChange ==
    ASSUME RelayInv, Next
    PROVE  \/ at' = at
           \/ /\ at.pc = "accept"
              /\ \E c \in Clients : conn[c] = "queued" /\ at' = [pc |-> "hello", socket |-> c]
           \/ at.pc = "hello" /\ at' = [pc |-> "register", socket |-> at.socket]
           \/ at.pc = "register" /\ at' = [pc |-> "announce", socket |-> at.socket] /\ Register
           \/ at.pc = "announce" /\ at' = [pc |-> "start", socket |-> at.socket]
           \/ /\ at.pc = "start" /\ task'[at.socket].pc = "ready" /\ at.socket \in Clients
              /\ at'.pc \in {"accept", "remove"}
           \/ at.pc \in {"hello", "remove"} /\ at'.pc = "accept"
<1>1. ASSUME NEW c \in Clients, ClientStep(c)
      PROVE  at' = at
  BY <1>1 DEF ClientStep, Connect, SayHello, Say, Leave, server
<1>2. ASSUME NEW c \in Clients, BeginTask(c) \/ ReceiveText(c) \/ RelayText(c)
      PROVE  at' = at
  BY <1>2 DEF BeginTask, ReceiveText, RelayText
<1>3. ASSUME NEW c \in Clients, RelayLeft(c) \/ HideClient(c) \/ TaskDies(c)
      PROVE  at' = at
  BY <1>3 DEF RelayLeft, HideClient, TaskDies
<1>4. ASSUME NEW a \in Actors, SendNext(a)
      PROVE  at' = at
  BY <1>4 DEF SendNext
<1>5. ASSUME NEW c \in Clients, Accept(c)
      PROVE  /\ at.pc = "accept" /\ conn[c] = "queued"
             /\ at' = [pc |-> "hello", socket |-> c]
  BY <1>5 DEF Accept
<1>6. CASE ReceiveHello \/ HelloFails
  BY <1>6 DEF ReceiveHello, HelloFails, LoopAt, AfterFailure
<1>7. CASE Register \/ Announce
  BY <1>7 DEF Register, Announce, LoopAt
<1>8. CASE StartTask
  <2>1. /\ at.pc = "start" /\ at.socket \in Clients /\ TaskAt(at.socket, "ready", <<>>)
        /\ at'.pc \in {"accept", "remove"}
    BY <1>8 DEF StartTask, LoopAt, RelayInv, LoopInv
  <2>2. task'[at.socket].pc = "ready"
    BY <2>1 DEF TaskAt, RelayInv, TypeOK
  <2> QED
    BY <2>1, <2>2
<1>9. CASE RemoveClient
  BY <1>9 DEF RemoveClient
<1>10. CASE ShowClient
  BY <1>10 DEF ShowClient
<1> QED
  BY <1>1, <1>2, <1>3, <1>4, <1>5, <1>6, <1>7, <1>8, <1>9, <1>10, ActorFacts
     DEF Next, LoopStep, TaskStep

\* The state of a task, and the one it goes on to.
Goes(c, from, to) == task[c].pc = from /\ task'[c].pc = to

LEMMA TaskChange ==
    ASSUME RelayInv, Next, NEW c \in Clients
    PROVE  \/ task'[c] = task[c]
           \/ /\ at.pc = "start" /\ at.socket = c /\ task'[c].pc = "ready"
              /\ at'.pc \in {"accept", "remove"}
           \/ Goes(c, "ready", "receive")
           \/ /\ Goes(c, "receive", "relay")
              /\ \E n \in 1 .. Len(inbox[c]) : Take(c, n) /\ task'[c].text = Received(c, n)
              /\ UNCHANGED sent
           \/ Goes(c, "relay", "receive")
           \/ Goes(c, "receive", "left")
           \/ Goes(c, "receive", "done") \/ Goes(c, "left", "done")
<1> USE DEF Goes
<1>1. task \in [Clients -> [pc : {"none", "ready", "receive", "relay", "left", "done"},
                            id : Ids \cup {0}, name : Seq(Segment), text : Seq(Segment)]]
  BY DEF RelayInv, TypeOK
<1>2. ASSUME NEW d \in Clients, ClientStep(d) \/ Accept(d)
      PROVE  task' = task
  BY <1>2 DEF ClientStep, Connect, SayHello, Say, Leave, server, Accept
<1>3. CASE ReceiveHello \/ HelloFails \/ Register \/ Announce \/ RemoveClient \/ ShowClient
  BY <1>3 DEF ReceiveHello, HelloFails, Register, Announce, RemoveClient, ShowClient
<1>4. ASSUME NEW a \in Actors, SendNext(a)
      PROVE  task' = task
  BY <1>4 DEF SendNext
<1>5. CASE StartTask
  <2>1. /\ at.pc = "start" /\ TaskAt(at.socket, "ready", <<>>)
        /\ at'.pc \in {"accept", "remove"}
    BY <1>5 DEF StartTask, LoopAt
  <2> QED
    BY <1>1, <2>1 DEF TaskAt
<1>6. ASSUME NEW d \in Clients, c # d,
             \/ BeginTask(d) \/ ReceiveText(d) \/ RelayText(d) \/ RelayLeft(d)
             \/ HideClient(d) \/ TaskDies(d)
      PROVE  task'[c] = task[c]
  BY <1>1, <1>6 DEF BeginTask, ReceiveText, RelayText, RelayLeft, HideClient, TaskDies, TaskAt
<1>7. CASE BeginTask(c)
  BY <1>1, <1>7 DEF BeginTask
<1>8. CASE ReceiveText(c)
  <2>1. PICK n \in 1 .. Len(inbox[c]) : Take(c, n) /\ TaskAt(c, "relay", Received(c, n))
    BY <1>8 DEF ReceiveText
  <2>2. task[c].pc = "receive" /\ UNCHANGED sent
    BY <1>8 DEF ReceiveText
  <2>3. task'[c].pc = "relay" /\ task'[c].text = Received(c, n)
    BY <1>1, <2>1 DEF TaskAt
  <2> QED
    BY <2>1, <2>2, <2>3
<1>9. CASE RelayText(c) \/ RelayLeft(c)
  BY <1>1, <1>9 DEF RelayText, RelayLeft, TaskAt
<1>10. CASE HideClient(c) \/ TaskDies(c)
  BY <1>1, <1>10 DEF HideClient, TaskDies, TaskAt
<1> QED
  BY <1>2, <1>3, <1>4, <1>5, <1>6, <1>7, <1>8, <1>9, <1>10, ActorFacts
     DEF Next, LoopStep, TaskStep

LEMMA InboxChange ==
    ASSUME RelayInv, Next, NEW c \in Clients
    PROVE  \/ UNCHANGED <<inbox[c], sent[c]>>
           \/ chose[c] = None /\ inbox'[c] = <<Hello(c, chose'[c])>> /\ UNCHANGED sent
           \/ /\ inbox'[c] = Append(inbox[c], Text(c, sent[c] + 1))
              /\ sent'[c] = sent[c] + 1
           \/ inbox'[c] = <<>> /\ UNCHANGED sent
           \/ (\E n \in 1 .. Len(inbox[c]) : Take(c, n)) /\ UNCHANGED sent
<1>1. /\ inbox \in [Clients -> Seq(Segment)] /\ sent \in [Clients -> 0 .. MaxTexts]
      /\ chose \in [Clients -> Chats \cup {None}]
  BY DEF RelayInv, TypeOK
<1>2. ASSUME NEW d \in Clients, Connect(d) \/ Accept(d)
      PROVE  UNCHANGED <<inbox, sent>>
  BY <1>2 DEF Connect, Accept
<1>3. ASSUME NEW d \in Clients, SayHello(d)
      PROVE  \/ UNCHANGED inbox[c] /\ d # c
             \/ chose[c] = None /\ inbox'[c] = <<Hello(c, chose'[c])>>
  BY <1>1, <1>3 DEF SayHello
<1>4. ASSUME NEW d \in Clients, Say(d)
      PROVE  \/ UNCHANGED <<inbox[c], sent[c]>>
             \/ /\ inbox'[c] = Append(inbox[c], Text(c, sent[c] + 1))
                /\ sent'[c] = sent[c] + 1
  BY <1>1, <1>4 DEF Say
<1>5. ASSUME NEW d \in Clients, Leave(d)
      PROVE  inbox'[c] = inbox[c] \/ inbox'[c] = <<>>
  BY <1>1, <1>5 DEF Leave
<1>6. ASSUME NEW d \in Clients, NEW n \in 1 .. Len(inbox[d]), Take(d, n)
      PROVE  inbox'[c] = inbox[c] \/ (d = c /\ n \in 1 .. Len(inbox[c]))
  BY <1>1, <1>6 DEF Take
<1>7. ASSUME NEW d \in Clients, ReceiveText(d)
      PROVE  /\ UNCHANGED sent
             /\ inbox'[c] = inbox[c] \/ \E n \in 1 .. Len(inbox[c]) : Take(c, n)
  BY <1>6, <1>7 DEF ReceiveText
<1>8. CASE ReceiveHello
  <2>1. /\ UNCHANGED sent /\ at.socket \in Clients
        /\ \E n \in 1 .. Len(inbox[at.socket]) : Take(at.socket, n)
    BY <1>8 DEF ReceiveHello, RelayInv, LoopInv
  <2> QED
    BY <1>6, <2>1
<1>9. CASE Elsewhere
  BY <1>9, ElsewhereFacts DEF client
<1>10. ASSUME NEW d \in Clients, SayHello(d) \/ Leave(d)
       PROVE  UNCHANGED sent
  BY <1>10 DEF SayHello, Leave
<1> QED
  BY <1>2, <1>3, <1>4, <1>5, <1>7, <1>8, <1>9, <1>10, NextCases

LEMMA ListsChange ==
    ASSUME RelayInv, Next
    PROVE  \/ UNCHANGED listed
           \/ \E id \in Ids, entry \in Entry :
                 /\ at.pc = "register" /\ entry.socket = at.socket
                 /\ at' = [pc |-> "announce", socket |-> at.socket] /\ UNCHANGED task
                 /\ listed' = [listed EXCEPT ![id] = Append(@, entry)]
           \/ \E id \in Ids : \E n \in 1 .. Len(listed[id]) :
                 listed' = [listed EXCEPT ![id] = RemoveAt(@, n)]
<1>1. CASE Register
  <2> DEFINE entry == [name |-> local.name, socket |-> at.socket]
  <2>1. PICK id \in Ids : /\ at.socket \in Clients
                          /\ listed' = [listed EXCEPT ![id] = Append(@, entry)]
    BY <1>1, RegisterFacts
  <2>2. entry \in Entry /\ entry.socket = at.socket
    BY <2>1 DEF Entry, RelayInv, TypeOK
  <2>3. /\ at.pc = "register" /\ at' = [pc |-> "announce", socket |-> at.socket]
        /\ UNCHANGED task
    BY <1>1 DEF Register, LoopAt
  <2> QED
    BY <2>1, <2>2, <2>3
<1>2. CASE RemoveClient
  <2>1. local.id \in Ids /\ listed[local.id] \in Seq(Entry)
    BY <1>2 DEF RemoveClient, RelayInv, LoopInv, Greeting, TypeOK
  <2>2. PICK n \in DOMAIN listed[local.id] :
           listed' = [listed EXCEPT ![local.id] = RemoveAt(listed[local.id], n)]
    BY <1>2 DEF RemoveClient
  <2>3. n \in 1 .. Len(listed[local.id])
    BY <2>1, LenProperties
  <2> QED
    BY <2>1, <2>2, <2>3
<1> QED
  BY <1>1, <1>2, ListsKept

-----------------------------------------------------------------------------
\* The clients that are greeted, and the lists.

LEMMA AwaitKept ==
    ASSUME RelayInv, AwaitTask, Next
    PROVE  AwaitTask'
<1> SUFFICES ASSUME at'.pc \in {"hello", "register", "announce", "start"}
             PROVE  task'[at'.socket].pc = "none"
  BY DEF AwaitTask
<1>1. ASSUME NEW c \in Clients, task[c].pc = "none", ~(at.pc = "start" /\ at.socket = c)
      PROVE  task'[c].pc = "none"
  BY <1>1, TaskChange DEF Goes
<1>2. at.pc # "accept" => at.socket \in Clients
  BY DEF RelayInv, LoopInv
<1>3. CASE at' = at
  <2>1. task[at.socket].pc = "none" /\ at.socket \in Clients
    BY <1>2, <1>3 DEF AwaitTask
  <2>2. task'[at.socket].pc = "none"
    BY <1>3, <2>1, TaskChange DEF Goes
  <2> QED
    BY <1>3, <2>2
<1>4. ASSUME NEW c \in Clients, at.pc = "accept", conn[c] = "queued",
             at' = [pc |-> "hello", socket |-> c]
      PROVE  task'[at'.socket].pc = "none"
  <2>1. task[c].pc = "none"
    BY <1>4 DEF RelayInv, StartInv, Fresh
  <2> QED
    BY <1>1, <1>4, <2>1
<1>5. ASSUME at.pc \in {"hello", "register", "announce"}, at'.socket = at.socket
      PROVE  task'[at'.socket].pc = "none"
  BY <1>1, <1>2, <1>5 DEF AwaitTask
<1> QED
  BY <1>3, <1>4, <1>5, LoopChange

\* Who is listed has a task, or is the one the loop is about to give one.
LEMMA GivenStays ==
    ASSUME RelayInv, Next, NEW c \in Clients, Given(c)
    PROVE  Given(c)'
<1> USE DEF Given
<1>1. CASE task[c].pc # "none"
  BY <1>1, TaskChange DEF Goes
<1>2. CASE at.pc \in {"announce", "start"} /\ at.socket = c
  BY <1>2, LoopChange DEF RelayInv, LoopInv
<1> QED
  BY <1>1, <1>2

LEMMA ListedKeptOnce ==
    ASSUME RelayInv, AwaitTask, ListedOnce, Next
    PROVE  ListedOnce'
<1> DEFINE GivenThen(c) == \/ task'[c].pc # "none"
                           \/ at'.pc \in {"announce", "start"} /\ at'.socket = c
<1>1. listed \in [Ids -> Seq(Entry)]
  BY DEF RelayInv, TypeOK
<1>2. ASSUME NEW id \in Ids
      PROVE  /\ Len(listed[id]) \in Nat
             /\ \A i \in 1 .. Len(listed[id]) : listed[id][i].socket \in Clients
  <2>1. Len(listed[id]) \in Nat /\ \A i \in 1 .. Len(listed[id]) : listed[id][i] \in Entry
    BY <1>1, LenProperties, ElementOfSeq
  <2> QED
    BY <2>1 DEF Entry
<1>3. ASSUME NEW id \in Ids, NEW i \in 1 .. Len(listed[id])
      PROVE  /\ Given(listed[id][i].socket) /\ GivenThen(listed[id][i].socket)
             /\ \A j \in 1 .. Len(listed[id]) :
                   listed[id][i].socket = listed[id][j].socket => i = j
  <2>1. Given(listed[id][i].socket) /\ listed[id][i].socket \in Clients
    BY <1>2 DEF ListedOnce
  <2>2. GivenThen(listed[id][i].socket)
    <3>1. PICK c \in Clients : c = listed[id][i].socket
      BY <2>1
    <3>2. Given(c)'
      BY <2>1, <3>1, GivenStays
    <3> QED
      BY <3>1, <3>2 DEF Given
  <2> QED
    BY <2>1, <2>2 DEF ListedOnce
<1> HIDE DEF GivenThen
<1>4. SUFFICES ASSUME NEW id \in Ids
               PROVE  /\ \A i, j \in 1 .. Len(listed'[id]) :
                            listed'[id][i].socket = listed'[id][j].socket => i = j
                      /\ \A i \in 1 .. Len(listed'[id]) : GivenThen(listed'[id][i].socket)
  BY DEF ListedOnce, GivenThen, Given
<1>5. CASE UNCHANGED listed[id]
  BY <1>3, <1>5
<1>6. ASSUME NEW entry \in Entry, at.pc = "register", entry.socket = at.socket,
             at' = [pc |-> "announce", socket |-> at.socket], UNCHANGED task,
             listed'[id] = Append(listed[id], entry)
      PROVE  /\ \A i, j \in 1 .. Len(listed'[id]) :
                   listed'[id][i].socket = listed'[id][j].socket => i = j
             /\ \A i \in 1 .. Len(listed'[id]) : GivenThen(listed'[id][i].socket)
  <2>1. /\ Len(listed[id]) \in Nat /\ Len(listed'[id]) = Len(listed[id]) + 1
        /\ \A i \in 1 .. Len(listed[id]) : listed'[id][i] = listed[id][i]
        /\ listed'[id][Len(listed[id]) + 1] = entry
    BY <1>1, <1>6, AppendFacts
  <2>2. ~Given(at.socket) /\ GivenThen(at.socket)
    BY <1>6 DEF Given, GivenThen, AwaitTask
  <2>3. \A i \in 1 .. Len(listed[id]) : listed[id][i].socket # at.socket
    BY <1>3, <2>2
  <2>4. \A i \in 1 .. Len(listed'[id]) : i \in 1 .. Len(listed[id]) \/ i = Len(listed[id]) + 1
    BY <2>1
  <2> QED
    BY <1>3, <1>6, <2>1, <2>2, <2>3, <2>4
<1>7. ASSUME NEW n \in 1 .. Len(listed[id]), listed'[id] = RemoveAt(listed[id], n)
      PROVE  /\ \A i, j \in 1 .. Len(listed'[id]) :
                   listed'[id][i].socket = listed'[id][j].socket => i = j
             /\ \A i \in 1 .. Len(listed'[id]) : GivenThen(listed'[id][i].socket)
  <2> DEFINE Old(i) == IF i < n THEN i ELSE i + 1
  <2>1. /\ Len(listed'[id]) = Len(listed[id]) - 1
        /\ \A i \in 1 .. Len(listed'[id]) : listed'[id][i] = listed[id][Old(i)]
    BY <1>1, <1>7, RemovedAt
  <2>2. \A i \in 1 .. Len(listed'[id]) : Old(i) \in 1 .. Len(listed[id])
    BY <1>2, <2>1
  <2>3. \A i, j \in 1 .. Len(listed'[id]) : Old(i) = Old(j) => i = j
    OBVIOUS
  <2> HIDE DEF Old
  <2>4. ASSUME NEW i \in 1 .. Len(listed'[id])
        PROVE  GivenThen(listed'[id][i].socket)
    <3>1. Old(i) \in 1 .. Len(listed[id]) /\ listed'[id][i] = listed[id][Old(i)]
      BY <2>1, <2>2
    <3> QED
      BY <1>3, <3>1
  <2>5. ASSUME NEW i \in 1 .. Len(listed'[id]), NEW j \in 1 .. Len(listed'[id]),
               listed'[id][i].socket = listed'[id][j].socket
        PROVE  i = j
    <3>1. /\ Old(i) \in 1 .. Len(listed[id]) /\ listed'[id][i] = listed[id][Old(i)]
          /\ Old(j) \in 1 .. Len(listed[id]) /\ listed'[id][j] = listed[id][Old(j)]
      BY <2>1, <2>2
    <3>2. Old(i) = Old(j)
      BY <1>3, <2>5, <3>1
    <3> QED
      BY <2>3, <3>2
  <2> QED
    BY <2>4, <2>5
<1> QED
  <2>1. CASE \E new \in Ids, entry \in Entry :
                /\ at.pc = "register" /\ entry.socket = at.socket
                /\ at' = [pc |-> "announce", socket |-> at.socket] /\ UNCHANGED task
                /\ listed' = [listed EXCEPT ![new] = Append(@, entry)]
    <3>1. PICK new \in Ids, entry \in Entry :
             /\ at.pc = "register" /\ entry.socket = at.socket
             /\ at' = [pc |-> "announce", socket |-> at.socket] /\ UNCHANGED task
             /\ listed' = [listed EXCEPT ![new] = Append(@, entry)]
      BY <2>1
    <3>2. CASE id = new
      BY <1>1, <1>6, <3>1, <3>2
    <3>3. CASE id # new
      BY <1>1, <1>5, <3>1, <3>3
    <3> QED
      BY <3>2, <3>3
  <2>2. CASE \E old \in Ids : \E n \in 1 .. Len(listed[old]) :
                listed' = [listed EXCEPT ![old] = RemoveAt(@, n)]
    <3>1. PICK old \in Ids : \E n \in 1 .. Len(listed[old]) :
             listed' = [listed EXCEPT ![old] = RemoveAt(@, n)]
      BY <2>2
    <3>2. PICK n \in 1 .. Len(listed[old]) : listed' = [listed EXCEPT ![old] = RemoveAt(@, n)]
      BY <3>1
    <3>3. CASE id = old
      BY <1>1, <1>7, <3>2, <3>3
    <3>4. CASE id # old
      BY <1>1, <1>5, <3>2, <3>4
    <3> QED
      BY <3>3, <3>4
  <2> QED
    BY <1>5, <2>1, <2>2, ListsChange

-----------------------------------------------------------------------------
\* The rooms that the loop and the tasks know.

\* A chat that has an id keeps it, and no other chat gets it.
LEMMA RoomStays ==
    ASSUME RelayInv, Next, NEW id \in Ids, HasChat(id)
    PROVE  \A chat \in Chats : chatRooms'[chat] = id <=> chatRooms[chat] = id
<1>1. chatRooms \in [Chats -> Ids \cup {0}] /\ 0 \notin Ids
  BY DEF RelayInv, TypeOK, Ids
<1>2. CASE Register
  <2>1. PICK new \in Ids : /\ chatRooms' = [chatRooms EXCEPT ![local.chat] = new]
                           /\ \/ chatRooms[local.chat] = new
                              \/ /\ chatRooms[local.chat] = 0
                                 /\ \A other \in Chats : chatRooms[other] # new
    BY <1>2, RegisterFacts
  <2> QED
    BY <1>1, <2>1 DEF HasChat
<1>3. CASE ~Register
  BY <1>3, ChatRoomsKept
<1> QED
  BY <1>2, <1>3

\* Only BeginTask changes the id of a task, and only Register the loop's.
LEMMA TaskIdKept ==
    ASSUME RelayInv, Next, NEW c \in Clients, ~BeginTask(c)
    PROVE  task'[c].id = task[c].id
<1>1. task \in [Clients -> [pc : {"none", "ready", "receive", "relay", "left", "done"},
                            id : Ids \cup {0}, name : Seq(Segment), text : Seq(Segment)]]
  BY DEF RelayInv, TypeOK
<1>2. ASSUME NEW d \in Clients, BeginTask(d)
      PROVE  task'[c].id = task[c].id
  BY <1>1, <1>2 DEF BeginTask
<1>3. ASSUME NEW d, NEW step, NEW text, TaskAt(d, step, text)
      PROVE  task'[c].id = task[c].id
  BY <1>1, <1>3 DEF TaskAt
<1>4. ASSUME NEW d \in Clients, ReceiveText(d) \/ RelayText(d) \/ RelayLeft(d) \/ HideClient(d)
                                 \/ TaskDies(d)
      PROVE  task'[c].id = task[c].id
  <2>1. \E step, text : TaskAt(d, step, text)
    BY <1>4 DEF ReceiveText, RelayText, RelayLeft, HideClient, TaskDies
  <2> QED
    BY <1>3, <2>1
<1>5. ASSUME NEW d \in Clients, ClientStep(d) \/ Accept(d)
      PROVE  UNCHANGED task
  BY <1>5 DEF ClientStep, Connect, SayHello, Say, Leave, server, Accept
<1>6. CASE ReceiveHello \/ HelloFails \/ Register \/ Announce \/ RemoveClient \/ ShowClient
  BY <1>6 DEF ReceiveHello, HelloFails, Register, Announce, RemoveClient, ShowClient
<1>7. CASE StartTask
  BY <1>3, <1>7 DEF StartTask
<1>8. ASSUME NEW a \in Actors, SendNext(a)
      PROVE  UNCHANGED task
  BY <1>8 DEF SendNext
<1> QED
  BY <1>2, <1>4, <1>5, <1>6, <1>7, <1>8, ActorFacts DEF Next, LoopStep, TaskStep

LEMMA LoopIdKept ==
    ASSUME Next, ~Register
    PROVE  local'.id = local.id
<1>1. ASSUME NEW c \in Clients, ClientStep(c) \/ Accept(c)
      PROVE  UNCHANGED local
  BY <1>1 DEF ClientStep, Connect, SayHello, Say, Leave, server, Accept
<1>2. ASSUME NEW c \in Clients, BeginTask(c) \/ ReceiveText(c) \/ RelayText(c) \/ RelayLeft(c)
                                 \/ HideClient(c) \/ TaskDies(c)
      PROVE  UNCHANGED local
  BY <1>2 DEF BeginTask, ReceiveText, RelayText, RelayLeft, HideClient, TaskDies
<1>3. ASSUME NEW a \in Actors, SendNext(a)
      PROVE  UNCHANGED local
  BY <1>3 DEF SendNext
<1>4. CASE Announce \/ StartTask \/ RemoveClient \/ ShowClient
  BY <1>4 DEF Announce, StartTask, RemoveClient, ShowClient
<1>5. CASE ReceiveHello
  BY <1>5 DEF ReceiveHello
<1>6. CASE HelloFails
  BY <1>6 DEF HelloFails
<1> QED
  BY <1>1, <1>2, <1>3, <1>4, <1>5, <1>6, ActorFacts DEF Next, LoopStep, TaskStep

LEMMA RoomKept ==
    ASSUME RelayInv, RoomInv, AwaitTask, Next
    PROVE  RoomInv'
<1>1. /\ local.id \in Ids \cup {0} /\ 0 \notin Ids
      /\ task \in [Clients -> [pc : {"none", "ready", "receive", "relay", "left", "done"},
                               id : Ids \cup {0}, name : Seq(Segment), text : Seq(Segment)]]
  BY DEF RelayInv, TypeOK, Ids
<1>2. ASSUME NEW id \in Ids, HasChat(id)
      PROVE  HasChat(id)'
  BY <1>2, RoomStays DEF HasChat
<1>3. ASSUME local'.id # 0
      PROVE  HasChat(local.id)'
  <2>1. CASE Register
    <3>1. PICK id \in Ids : /\ local.chat \in Chats /\ local'.id = id
                            /\ chatRooms' = [chatRooms EXCEPT ![local.chat] = id]
      BY <2>1, RegisterFacts
    <3>2. chatRooms'[local.chat] = id
      BY <3>1 DEF RelayInv, TypeOK
    <3> QED
      BY <3>1, <3>2 DEF HasChat
  <2>2. CASE ~Register
    <3>1. PICK id \in Ids : id = local.id /\ local'.id = id /\ HasChat(id)
      BY <1>1, <1>3, <2>2, LoopIdKept DEF RoomInv
    <3>2. HasChat(id)'
      BY <1>2, <3>1
    <3> QED
      BY <3>1, <3>2 DEF HasChat
  <2> QED
    BY <2>1, <2>2
<1>4. ASSUME NEW c \in Clients
      PROVE  /\ (task[c].id # 0 => HasChat(task[c].id))'
             /\ (task[c].pc \in {"none", "ready"} => task[c].id = 0)'
             /\ (task[c].pc # "none" => chose[c] \in Chats)'
  <2>1. task'[c].pc # "none" => chose'[c] \in Chats
    <3>1. task[c].pc # "none" => chose[c] \in Chats
      BY DEF RoomInv
    <3>2. at.pc = "start" /\ at.socket = c => chose[c] \in Chats
      BY DEF RelayInv, LoopInv, Greeting
    <3>3. task'[c].pc # "none" => task[c].pc # "none" \/ (at.pc = "start" /\ at.socket = c)
      BY TaskChange DEF Goes
    <3> QED
      BY <3>1, <3>2, <3>3, ChosenStays
  <2>2. CASE BeginTask(c)
    <3>1. /\ task'[c].pc = "receive" /\ task'[c].id = local.id /\ UNCHANGED chatRooms
          /\ local.id \in Ids
      BY <1>1, <2>2 DEF BeginTask, RelayInv, StartInv
    <3>2. HasChat(local.id)
      BY <1>1, <3>1 DEF RoomInv
    <3> QED
      BY <2>1, <3>1, <3>2 DEF HasChat
  <2>3. CASE ~BeginTask(c)
    <3>1. task'[c].id = task[c].id
      BY <2>3, TaskIdKept
    <3>2. ASSUME task[c].id # 0
          PROVE  HasChat(task[c].id)'
      <4>1. PICK id \in Ids : id = task[c].id /\ HasChat(id)
        BY <1>1, <3>2 DEF RoomInv
      <4>2. HasChat(id)'
        BY <1>2, <4>1
      <4> QED
        BY <3>1, <4>1, <4>2 DEF HasChat
    <3>3. task'[c].pc \in {"none", "ready"} => task[c].pc \in {"none", "ready"}
                                               \/ (at.pc = "start" /\ at.socket = c)
      BY TaskChange DEF Goes
    <3>4. task'[c].pc \in {"none", "ready"} => task[c].id = 0
      BY <3>3 DEF RoomInv, AwaitTask
    <3> QED
      BY <2>1, <3>1, <3>2, <3>4
  <2> QED
    BY <2>2, <2>3
<1> QED
  BY <1>3, <1>4 DEF RoomInv

-----------------------------------------------------------------------------
\* The numbers of what is said.

LEMMA NumberFacts ==
    /\ \A c \in Clients, chat \in Chats : Hello(c, chat).no = 0
    /\ \A c \in Clients, n \in Nat : Text(c, n).no = n
    /\ MaxTexts \in Nat
    /\ \A segment \in Segment : segment.no \in Nat
BY RelayAssumption DEF Hello, Text, Segment

\* What is in the inbox after a step, as far as the numbers go.
LEMMA InboxNumbers ==
    ASSUME RelayInv, RisingInv, Next, NEW c \in Clients
    PROVE  /\ sent[c] \in Nat /\ sent'[c] \in Nat /\ sent[c] <= sent'[c]
           /\ \A i \in 1 .. Len(inbox'[c]) :
                 /\ inbox'[c][i].no <= sent'[c]
                 /\ \A j \in 1 .. Len(inbox'[c]) : i < j => inbox'[c][i].no < inbox'[c][j].no
           /\ \A n : Past(n, c) /\ chose[c] \in Chats => Past(n, c)'
<1>1. /\ inbox[c] \in Seq(Segment) /\ sent[c] \in 0 .. MaxTexts /\ MaxTexts \in Nat
      /\ chose[c] \in Chats \cup {None} /\ None \notin Chats
      /\ chose' \in [Clients -> Chats \cup {None}] /\ sent' \in [Clients -> 0 .. MaxTexts]
  BY TypeStep, NumberFacts, ActorFacts DEF RelayInv, TypeOK
<1>2. /\ Len(inbox[c]) \in Nat /\ sent[c] \in Nat /\ sent'[c] \in Nat
      /\ \A i \in 1 .. Len(inbox[c]) : inbox[c][i].no \in Nat
  <2>1. \A i \in 1 .. Len(inbox[c]) : inbox[c][i] \in Segment
    BY <1>1, ElementOfSeq
  <2> QED
    BY <1>1, <2>1, NumberFacts, LenProperties
<1>3. /\ \A i \in 1 .. Len(inbox[c]) : inbox[c][i].no <= sent[c]
      /\ \A i, j \in 1 .. Len(inbox[c]) : i < j => inbox[c][i].no < inbox[c][j].no
  BY DEF RisingInv, Rising
<1>4. CASE UNCHANGED <<inbox[c], sent[c]>>
  BY <1>2, <1>3, <1>4 DEF Past
<1>5. CASE chose[c] = None /\ inbox'[c] = <<Hello(c, chose'[c])>> /\ UNCHANGED sent
  <2>1. Len(inbox'[c]) = 1 /\ inbox'[c][1] = Hello(c, chose'[c])
    BY <1>5
  <2>2. Hello(c, chose'[c]).no = 0
    BY DEF Hello
  <2> QED
    BY <1>1, <1>2, <1>5, <2>1, <2>2
<1>6. CASE inbox'[c] = Append(inbox[c], Text(c, sent[c] + 1)) /\ sent'[c] = sent[c] + 1
  <2>1. Text(c, sent[c] + 1).no = sent[c] + 1 /\ sent[c] + 1 \in 0 .. MaxTexts
    BY <1>1, <1>2, <1>6, NumberFacts
  <2>2. Text(c, sent[c] + 1) \in Segment
    BY <2>1, SegmentFacts
  <2>3. /\ Len(inbox'[c]) = Len(inbox[c]) + 1
        /\ \A i \in 1 .. Len(inbox[c]) : inbox'[c][i] = inbox[c][i]
        /\ inbox'[c][Len(inbox[c]) + 1].no = sent[c] + 1
    BY <1>1, <1>6, <2>1, <2>2, AppendFacts
  <2>4. \A i \in 1 .. Len(inbox'[c]) : i \in 1 .. Len(inbox[c]) \/ i = Len(inbox[c]) + 1
    BY <1>2, <2>3
  <2>5. ASSUME NEW i \in 1 .. Len(inbox'[c]), NEW j \in 1 .. Len(inbox'[c]), i < j
        PROVE  inbox'[c][i].no < inbox'[c][j].no
    <3>1. i \in 1 .. Len(inbox[c]) /\ inbox'[c][i].no = inbox[c][i].no
      BY <1>2, <2>3, <2>5
    <3>2. CASE j \in 1 .. Len(inbox[c])
      BY <1>3, <2>3, <2>5, <3>1, <3>2
    <3>3. CASE j = Len(inbox[c]) + 1
      <4>1. inbox[c][i].no <= sent[c] /\ inbox[c][i].no \in Nat
        BY <1>2, <1>3, <3>1
      <4> QED
        BY <1>2, <2>3, <3>1, <3>3, <4>1
    <3> QED
      BY <2>4, <3>2, <3>3
  <2>6. \A i \in 1 .. Len(inbox'[c]) : inbox'[c][i].no <= sent'[c]
    BY <1>2, <1>3, <1>6, <2>3, <2>4
  <2>7. ASSUME NEW n, Past(n, c)
        PROVE  Past(n, c)'
    BY <1>2, <1>6, <2>3, <2>4, <2>7 DEF Past
  <2>8. \A n : Past(n, c) => Past(n, c)'
    BY <2>7
  <2>9. sent[c] <= sent'[c]
    BY <1>2, <1>6
  <2> QED
    BY <1>2, <2>5, <2>6, <2>8, <2>9
<1>7. CASE inbox'[c] = <<>> /\ UNCHANGED sent
  <2>1. Len(inbox'[c]) = 0
    BY <1>7
  <2> QED
    BY <1>2, <1>7, <2>1 DEF Past
<1>8. CASE (\E n \in 1 .. Len(inbox[c]) : Take(c, n)) /\ UNCHANGED sent
  <2>1. PICK n \in 1 .. Len(inbox[c]) : Take(c, n)
    BY <1>8
  <2>2. inbox'[c] = SubSeq(inbox[c], n + 1, Len(inbox[c]))
    BY <2>1 DEF Take, RelayInv, TypeOK
  <2>3. /\ Len(inbox'[c]) = Len(inbox[c]) - n
        /\ \A i \in 1 .. Len(inbox'[c]) : inbox'[c][i] = inbox[c][n + i]
    <3>1. /\ Len(inbox'[c]) = Len(inbox[c]) - n
          /\ \A i \in 1 .. Len(inbox[c]) - n : inbox'[c][i] = inbox[c][n + i]
      BY <1>1, <2>2, TakenFacts
    <3> QED
      BY <3>1
  <2>4. \A i \in 1 .. Len(inbox'[c]) : n + i \in 1 .. Len(inbox[c])
    BY <1>2, <2>3
  <2>5. ASSUME NEW i \in 1 .. Len(inbox'[c]), NEW j \in 1 .. Len(inbox'[c]), i < j
        PROVE  inbox'[c][i].no < inbox'[c][j].no
    <3>1. n + i < n + j
      BY <1>2, <2>5
    <3> QED
      BY <1>3, <2>3, <2>4, <3>1
  <2>6. \A i \in 1 .. Len(inbox'[c]) : inbox'[c][i].no <= sent'[c]
    BY <1>3, <1>8, <2>3, <2>4
  <2>7. ASSUME NEW k, Past(k, c)
        PROVE  Past(k, c)'
    BY <1>8, <2>3, <2>4, <2>7 DEF Past
  <2> QED
    BY <1>2, <1>8, <2>5, <2>6, <2>7
<1> QED
  BY <1>4, <1>5, <1>6, <1>7, <1>8, InboxChange

\* Received texts begin with the first number that was waiting.
LEMMA ReceivedPast ==
    ASSUME RelayInv, RisingInv, NEW c \in Clients, NEW n \in 1 .. Len(inbox[c]), Take(c, n),
           UNCHANGED sent
    PROVE  /\ Received(c, n)[1] = inbox[c][1] /\ 1 \in 1 .. Len(inbox[c])
           /\ \A k : k = inbox[c][1].no => Past(k, c)'
<1>1. inbox[c] \in Seq(Segment) /\ inbox'[c] = SubSeq(inbox[c], n + 1, Len(inbox[c]))
  BY DEF Take, RelayInv, TypeOK
<1>2. /\ Len(inbox[c]) \in Nat /\ Received(c, n)[1] = inbox[c][1]
      /\ Len(inbox'[c]) = Len(inbox[c]) - n
      /\ \A i \in 1 .. Len(inbox'[c]) : inbox'[c][i] = inbox[c][n + i]
  <2> DEFINE q == inbox[c]
             rest == SubSeq(q, n + 1, Len(q))
  <2>1. /\ Len(q) \in Nat /\ SubSeq(q, 1, n)[1] = q[1] /\ Len(rest) = Len(q) - n
        /\ \A i \in 1 .. Len(q) - n : rest[i] = q[n + i]
    BY <1>1, TakenFacts
  <2>2. inbox'[c] = rest /\ Received(c, n) = SubSeq(q, 1, n)
    BY <1>1 DEF Received
  <2> HIDE DEF rest
  <2> QED
    BY <2>1, <2>2
<1>3. 1 \in 1 .. Len(inbox[c]) /\ inbox[c][1].no \in Nat
  <2>1. 1 \in 1 .. Len(inbox[c])
    BY <1>2
  <2> QED
    BY <1>1, <2>1, ElementOfSeq, NumberFacts
<1>4. ASSUME NEW i \in 1 .. Len(inbox'[c])
      PROVE  inbox[c][1].no < inbox'[c][i].no
  <2>1. n + i \in 1 .. Len(inbox[c]) /\ 1 < n + i /\ inbox'[c][i] = inbox[c][n + i]
    BY <1>2
  <2> QED
    BY <1>3, <2>1 DEF RisingInv, Rising
<1>5. inbox[c][1].no <= sent[c]
  BY <1>3 DEF RisingInv, Rising
<1> QED
  BY <1>2, <1>3, <1>4, <1>5 DEF Past

LEMMA RisingKept ==
    ASSUME RelayInv, RoomInv, RisingInv, Next
    PROVE  RisingInv'
<1> SUFFICES ASSUME NEW c \in Clients PROVE Rising(c)'
  BY DEF RisingInv
<1>1. /\ \A i \in 1 .. Len(inbox'[c]) : inbox'[c][i].no <= sent'[c]
      /\ \A i, j \in 1 .. Len(inbox'[c]) : i < j => inbox'[c][i].no < inbox'[c][j].no
  BY InboxNumbers
<1>2. ASSUME task'[c].pc = "relay", NEW k, k = task'[c].text[1].no
      PROVE  Past(k, c)'
  <2>1. CASE task'[c] = task[c]
    <3>1. Past(k, c) /\ chose[c] \in Chats
      BY <1>2, <2>1 DEF RisingInv, Rising, RoomInv
    <3> QED
      BY <3>1, InboxNumbers
  <2>2. CASE \E n \in 1 .. Len(inbox[c]) : Take(c, n) /\ task'[c].text = Received(c, n)
                                           /\ UNCHANGED sent
    BY <1>2, <2>2, ReceivedPast
  <2> QED
    BY <1>2, <2>1, <2>2, TaskChange DEF Goes
<1>3. task'[c].pc = "relay" => Past(task[c].text[1].no, c)'
  BY <1>2 DEF Past
<1> QED
  BY <1>1, <1>3 DEF Rising

-----------------------------------------------------------------------------
\* No message comes twice.

LEMMA SpentStays ==
    ASSUME RelayInv, AwaitTask, RisingInv, Next, NEW m, Spent(m)
    PROVE  Spent(m)'
<1> DEFINE n == m.text[1].no
<1>1. PICK c \in Clients : chose[c] \in Chats /\ OwnedBy(m, c) /\ SpentBy(m, c)
  BY DEF Spent
<1>2. chose'[c] = chose[c]
  BY <1>1, ChosenStays
<1>3. m.kind = "enter" => task'[c].pc # "none" \/ (at'.pc = "start" /\ at'.socket = c)
  <2>1. CASE task[c].pc # "none"
    BY <2>1, TaskChange DEF Goes
  <2>2. CASE at.pc = "start" /\ at.socket = c
    BY <2>2, LoopChange DEF RelayInv, LoopInv
  <2> QED
    BY <1>1, <2>1, <2>2 DEF SpentBy
<1>4. m.kind = "left" => task'[c].pc \in {"left", "done"}
  <2>1. m.kind = "left" => task[c].pc \in {"left", "done"} /\ ~(at.pc = "start" /\ at.socket = c)
    BY <1>1 DEF SpentBy, AwaitTask
  <2> QED
    BY <2>1, TaskChange DEF Goes
<1>5. ASSUME m.kind = "text"
      PROVE  /\ Past(n, c)'
             /\ task'[c].pc = "relay" => n < task'[c].text[1].no
  <2>1. Past(n, c) /\ (task[c].pc = "relay" => n < task[c].text[1].no)
    BY <1>1, <1>5 DEF SpentBy
  <2>2. Past(n, c)'
    <3> HIDE DEF n
    <3> QED
      BY <1>1, <2>1, InboxNumbers DEF Past
  <2>3. CASE task'[c] = task[c]
    BY <2>1, <2>2, <2>3
  <2>4. CASE \E k \in 1 .. Len(inbox[c]) : Take(c, k) /\ task'[c].text = Received(c, k)
                                           /\ UNCHANGED sent
    <3>1. task'[c].text[1] = inbox[c][1] /\ 1 \in 1 .. Len(inbox[c])
      BY <2>4, ReceivedPast
    <3>2. n < inbox[c][1].no
      BY <2>1, <3>1 DEF Past
    <3> QED
      BY <2>2, <3>1, <3>2
  <2> QED
    BY <2>2, <2>3, <2>4, TaskChange DEF Goes
<1>6. SpentBy(m, c)'
  BY <1>3, <1>4, <1>5 DEF SpentBy, Past
<1> QED
  BY <1>1, <1>2, <1>6 DEF Spent, OwnedBy, SaidBy, Speaker

\* A broadcast of a message that nobody has been sent, to a chat that ZtBroadcast lets
\* it go to.
Begins(a, id, m) ==
    /\ LockFree /\ StartBroadcast(a, id, m)
    /\ UNCHANGED <<got, chose, chatRooms, listed>>
    /\ \E chat \in Chats : chatRooms[chat] = id /\ Broadcast!Audience(m) = chat
    /\ ~Spent(m) /\ Spent(m)'

\* The chat a task speaks to has the task's id.
LEMMA VoiceFacts ==
    ASSUME RoomInv, NEW c \in Clients
    PROVE  /\ task[c].id = 0 => VoiceOf[c] = None
           /\ task[c].id # 0 => VoiceOf[c] \in Chats /\ chatRooms[VoiceOf[c]] = task[c].id
BY DEF VoiceOf, RoomInv, HasChat

LEMMA BroadcastBegins ==
    ASSUME RelayInv, RoomInv, AwaitTask, RisingInv,
           Announce \/ \E c \in Clients : RelayText(c) \/ RelayLeft(c)
    PROVE  \E a \in Actors, id \in Ids, m \in Message : Begins(a, id, m)
<1>1. task \in [Clients -> [pc : {"none", "ready", "receive", "relay", "left", "done"},
                            id : Ids \cup {0}, name : Seq(Segment), text : Seq(Segment)]]
  BY DEF RelayInv, TypeOK
<1>2. ASSUME NEW c \in Clients, NEW m, OwnedBy(m, c), chose[c] \in Chats, UNCHANGED chose,
             ~SpentBy(m, c), SpentBy(m, c)'
      PROVE  ~Spent(m) /\ Spent(m)'
  BY <1>2 DEF Spent, OwnedBy, SaidBy
<1>3. CASE Announce
  <2> DEFINE c == at.socket
             m == [kind |-> "enter", by |-> Loop, text |-> local.name]
  <2>1. /\ LockFree /\ StartBroadcast(Loop, local.id, m) /\ UNCHANGED <<got, chose, chatRooms, listed, task>>
        /\ at.pc = "announce" /\ at' = [pc |-> "start", socket |-> c]
    BY <1>3 DEF Announce, LoopAt, client
  <2>2. /\ c \in Clients /\ SaidBy(local.name, c) /\ chose[c] \in Chats /\ local.id \in Ids
        /\ chatRooms[chose[c]] = local.id
        /\ local.name \in Seq(Segment) /\ task[c].pc = "none"
    BY <2>1 DEF RelayInv, LoopInv, Greeting, SaidBy, Speaker, TypeOK, AwaitTask
  <2>3. PICK said : said = m
    OBVIOUS
  <2>4. PICK speaker \in Clients : speaker = c
    BY <2>2
  <2>5. said \in Message /\ said.kind = "enter" /\ said.text = local.name
    BY <2>2, <2>3, ActorFacts DEF Message
  <2>6. ~SpentBy(said, speaker)
    BY <2>1, <2>2, <2>4, <2>5 DEF SpentBy
  <2>7. SpentBy(said, speaker)'
    BY <2>1, <2>4, <2>5 DEF SpentBy
  <2>8. OwnedBy(said, speaker)
    BY <2>2, <2>4, <2>5 DEF OwnedBy
  <2>9. ~Spent(said) /\ Spent(said)'
    BY <1>2, <2>1, <2>2, <2>4, <2>6, <2>7, <2>8
  <2>10. Broadcast!Audience(said) = chose[c]
    BY <2>2, <2>5 DEF Broadcast!Audience, SaidBy, Speaker
  <2>11. Begins(Loop, local.id, said)
    BY <2>1, <2>2, <2>3, <2>9, <2>10 DEF Begins
  <2> QED
    BY <2>2, <2>5, <2>11, ActorFacts
\* What a task says goes to the chat whose id the task has.
<1>4. ASSUME NEW c \in Clients, task[c].pc \in {"receive", "relay"},
             NEW m \in Message, m.kind # "enter", m.by = c,
             LockFree, StartBroadcast(c, task[c].id, m), UNCHANGED <<got, chose, chatRooms, listed>>,
             ~SpentBy(m, c), SpentBy(m, c)'
      PROVE  \E a \in Actors, id \in Ids, s \in Message : Begins(a, id, s)
  <2>1. task[c].id \in Ids /\ task[c].id # 0 /\ chose[c] \in Chats
    BY <1>4 DEF RelayInv, StartInv, RoomInv, Ids
  <2>2. VoiceOf[c] \in Chats /\ chatRooms[VoiceOf[c]] = task[c].id
    BY <2>1, VoiceFacts
  <2>3. Broadcast!Audience(m) = VoiceOf[c]
    BY <1>4 DEF Broadcast!Audience
  <2>4. ~Spent(m) /\ Spent(m)'
    BY <1>2, <1>4, <2>1 DEF OwnedBy
  <2>5. Begins(c, task[c].id, m)
    BY <1>4, <2>2, <2>3, <2>4 DEF Begins
  <2> QED
    BY <1>4, <2>1, <2>5, ActorFacts
<1>5. ASSUME NEW c \in Clients, RelayText(c)
      PROVE  \E a \in Actors, id \in Ids, m \in Message : Begins(a, id, m)
  <2>1. /\ LockFree /\ UNCHANGED <<got, chose, chatRooms, listed, sent, inbox>>
        /\ StartBroadcast(c, task[c].id, [kind |-> "text", by |-> c, text |-> task[c].text])
        /\ task[c].pc = "relay" /\ TaskAt(c, "receive", <<>>)
    BY <1>5 DEF RelayText, client
  <2>2. PICK said : said = [kind |-> "text", by |-> c, text |-> task[c].text]
    OBVIOUS
  <2>3. said \in Message /\ said.kind = "text" /\ said.by = c /\ said.text = task[c].text
    BY <1>1, <2>2, ActorFacts DEF Message
  <2>4. Past(said.text[1].no, c)
    BY <2>1, <2>3 DEF RisingInv, Rising
  <2>5. ~SpentBy(said, c)
    BY <2>1, <2>3, <2>4 DEF SpentBy, Past
  <2>6. task'[c].pc = "receive"
    BY <1>1, <2>1 DEF TaskAt
  <2>7. SpentBy(said, c)'
    BY <2>1, <2>3, <2>4, <2>6 DEF SpentBy, Past
  <2> QED
    BY <1>4, <2>1, <2>2, <2>3, <2>5, <2>7
<1>6. ASSUME NEW c \in Clients, RelayLeft(c)
      PROVE  \E a \in Actors, id \in Ids, m \in Message : Begins(a, id, m)
  <2>1. /\ LockFree /\ UNCHANGED <<got, chose, chatRooms, listed, sent, inbox>>
        /\ StartBroadcast(c, task[c].id, [kind |-> "left", by |-> c, text |-> task[c].name])
        /\ task[c].pc = "receive" /\ TaskAt(c, "left", <<>>)
    BY <1>6 DEF RelayLeft, client
  <2>2. PICK said : said = [kind |-> "left", by |-> c, text |-> task[c].name]
    OBVIOUS
  <2>3. said \in Message /\ said.kind = "left" /\ said.by = c
    BY <1>1, <2>2, ActorFacts DEF Message
  <2>4. ~SpentBy(said, c)
    BY <2>1, <2>3 DEF SpentBy
  <2>5. task'[c].pc = "left"
    BY <1>1, <2>1 DEF TaskAt
  <2>6. SpentBy(said, c)'
    BY <2>3, <2>5 DEF SpentBy
  <2> QED
    BY <1>4, <2>1, <2>2, <2>3, <2>4, <2>6
<1> QED
  BY <1>3, <1>5, <1>6

LEMMA BroadcastChange ==
    ASSUME RelayInv, RoomInv, AwaitTask, RisingInv, Next
    PROVE  \/ UNCHANGED <<sending, got>>
           \/ \E a \in Actors : SendNext(a)
           \/ \E a \in Actors, id \in Ids, m \in Message : Begins(a, id, m)
<1>1. ASSUME Announce \/ \E c \in Clients : RelayText(c) \/ RelayLeft(c)
      PROVE  \E a \in Actors, id \in Ids, m \in Message : Begins(a, id, m)
  BY <1>1, BroadcastBegins
<1>2. ASSUME NEW c \in Clients, ClientStep(c) \/ Accept(c)
      PROVE  UNCHANGED <<sending, got>>
  BY <1>2 DEF ClientStep, Connect, SayHello, Say, Leave, server, Accept
<1>3. ASSUME NEW c \in Clients, BeginTask(c) \/ ReceiveText(c) \/ HideClient(c) \/ TaskDies(c)
      PROVE  UNCHANGED <<sending, got>>
  BY <1>3 DEF BeginTask, ReceiveText, HideClient, TaskDies
<1>4. CASE ReceiveHello \/ HelloFails \/ Register \/ StartTask \/ RemoveClient \/ ShowClient
  BY <1>4 DEF ReceiveHello, HelloFails, Register, StartTask, RemoveClient, ShowClient
<1> QED
  BY <1>1, <1>2, <1>3, <1>4, ActorFacts DEF Next, LoopStep, TaskStep

\* What the start of a broadcast sets up.
LEMMA BroadcastOrder ==
    ASSUME RelayInv, RelayInv', ListedOnce, SpentInv, SameOrder,
           \A m : Spent(m) => Spent(m)',
           NEW a \in Actors, NEW id \in Ids, NEW m \in Message,
           LockFree, StartBroadcast(a, id, m), UNCHANGED got, ~Spent(m), Spent(m)'
    PROVE  SpentInv' /\ LastInv' /\ SameOrder'
<1> DEFINE sockets == [i \in DOMAIN listed[id] |-> listed[id][i].socket]
           job == [message |-> m, todo |-> sockets]
<1>1. sending \in [Actors -> [message : Message \cup {NoMessage}, todo : Seq(Clients)]]
  BY DEF RelayInv, TypeOK
<1>2. /\ Len(listed[id]) \in Nat /\ Len(sockets) = Len(listed[id])
      /\ \A i \in 1 .. Len(listed[id]) : sockets[i] = listed[id][i].socket
      /\ sockets \in Seq(Clients)
  BY SocketsFacts DEF RelayInv, TypeOK
<1>3. /\ sending' = [sending EXCEPT ![a] = job] /\ lock' = a
      /\ job.message = m /\ job.todo = sockets
  BY DEF StartBroadcast
<1> HIDE DEF job, sockets
<1>4. sending'[a] = job /\ \A b \in Actors : ~Idle(b)' => b = a
  BY <1>1, <1>3 DEF RelayInv, TypeOK
<1>5. SpentInv'
  <2>1. \A b \in Actors : ~Idle(b)' => Spent(sending[b].message)'
    BY <1>3, <1>4 DEF Spent, SpentBy
  <2>2. ASSUME NEW d \in Clients, NEW k \in 1 .. Len(got[d])
        PROVE  Spent(got[d][k])'
    <3>1. PICK e : e = got[d][k]
      OBVIOUS
    <3>2. Spent(e)'
      BY <3>1 DEF SpentInv
    <3> QED
      BY <3>1, <3>2 DEF Spent, SpentBy
  <2> QED
    BY <2>1, <2>2 DEF SpentInv
<1>6. \A d \in Clients : \A k \in 1 .. Len(got[d]) : got[d][k] # m
  BY DEF SpentInv
<1>7. \A i \in 1 .. Len(sockets) : sockets[i] \in Clients
  BY <1>2, ElementOfSeq
<1>8. PICK todo : todo = sockets
  OBVIOUS
<1>9. LastOf(m, todo)'
  <2>1. \A i, j \in 1 .. Len(sockets) : sockets[i] = sockets[j] => i = j
    BY <1>2 DEF ListedOnce
  <2> QED
    BY <1>6, <1>7, <1>8, <2>1 DEF LastOf
<1>10. LastInv'
  BY <1>3, <1>4, <1>8, <1>9 DEF LastInv, LastOf
<1>11. SameOrder'
  BY DEF SameOrder
<1> QED
  BY <1>5, <1>10, <1>11

\* One send: the message comes behind everything its receiver has got.
LEMMA SentLast ==
    ASSUME RelayInv, LastInv, NEW a \in Actors, SendNext(a), sending[a].todo # <<>>
    PROVE  LET todo == sending[a].todo
               m == sending[a].message
           IN /\ todo \in Seq(Clients) /\ todo[1] \in Clients /\ m \in Message
              /\ Len(todo) \in Nat \ {0}
              /\ Tail(todo) \in Seq(Clients) /\ Len(Tail(todo)) = Len(todo) - 1
              /\ \A i \in 1 .. Len(Tail(todo)) : Tail(todo)[i] = todo[i + 1]
              /\ sending' = [sending EXCEPT ![a] = [message |-> m, todo |-> Tail(todo)]]
              /\ UNCHANGED lock
              /\ \A d \in Clients : d # todo[1] => got'[d] = got[d]
              /\ \A d \in Clients : \A k \in 1 .. Len(got'[d]) :
                    /\ got'[d][k] = m => k = Len(got'[d])
                    /\ got'[d][k] # m => k \in 1 .. Len(got[d]) /\ got'[d][k] = got[d][k]
<1> DEFINE todo == sending[a].todo
           m == sending[a].message
<1>1. /\ sending \in [Actors -> [message : Message \cup {NoMessage}, todo : Seq(Clients)]]
      /\ got \in [Clients -> Seq(Message)]
  BY DEF RelayInv, TypeOK
<1>2. m \in Message /\ todo \in Seq(Clients) /\ ~Idle(a)
  BY <1>1 DEF SendNext, Idle
<1>3. /\ sending' = [sending EXCEPT ![a] = [message |-> m, todo |-> Tail(todo)]]
      /\ got' = [got EXCEPT ![Head(todo)] = Append(@, m)]
      /\ UNCHANGED lock
  BY DEF SendNext
<1>4. LastOf(m, todo)
  BY <1>2 DEF LastInv
<1>5. todo # <<>>
  OBVIOUS
<1> HIDE DEF todo, m
<1>6. /\ Len(todo) \in Nat \ {0} /\ Head(todo) = todo[1] /\ todo[1] \in Clients
      /\ Tail(todo) \in Seq(Clients) /\ Len(Tail(todo)) = Len(todo) - 1
      /\ \A i \in 1 .. Len(Tail(todo)) : Tail(todo)[i] = todo[i + 1]
  <2>1. Len(todo) \in Nat /\ Len(todo) # 0
    BY <1>2, <1>5, EmptySeq, LenProperties
  <2>2. /\ Tail(todo) \in Seq(Clients) /\ Len(Tail(todo)) = Len(todo) - 1
        /\ \A i \in 1 .. Len(Tail(todo)) : Tail(todo)[i] = todo[i + 1]
        /\ Head(todo) \in Clients
    BY <1>2, <1>5, HeadTailProperties
  <2>3. Head(todo) = todo[1]
    BY <1>2, <1>5
  <2> QED
    BY <2>1, <2>2, <2>3
<1>7. /\ got'[todo[1]] = Append(got[todo[1]], m)
      /\ \A d \in Clients : d # todo[1] => got'[d] = got[d]
  BY <1>1, <1>3, <1>6
<1>8. /\ Len(got[todo[1]]) \in Nat /\ Len(got'[todo[1]]) = Len(got[todo[1]]) + 1
      /\ \A k \in 1 .. Len(got[todo[1]]) : got'[todo[1]][k] = got[todo[1]][k]
      /\ got'[todo[1]][Len(got[todo[1]]) + 1] = m
  <2>1. got[todo[1]] \in Seq(Message)
    BY <1>1, <1>6
  <2> QED
    BY <1>2, <1>7, <2>1, AppendFacts
<1>9. ASSUME NEW d \in Clients, NEW k \in 1 .. Len(got'[d])
      PROVE  /\ got'[d][k] = m => k = Len(got'[d])
             /\ got'[d][k] # m => k \in 1 .. Len(got[d]) /\ got'[d][k] = got[d][k]
  <2>1. CASE d # todo[1]
    BY <1>4, <1>7, <2>1 DEF LastOf
  <2>2. CASE d = todo[1]
    <3>1. \A i \in 1 .. Len(got[d]) : got[d][i] # m
      BY <1>4, <1>6, <2>2 DEF LastOf
    <3>2. k \in 1 .. Len(got[d]) \/ k = Len(got[d]) + 1
      BY <1>8, <2>2
    <3> QED
      BY <1>8, <2>2, <3>1, <3>2
  <2> QED
    BY <2>1, <2>2
<1> QED
  BY <1>2, <1>3, <1>6, <1>7, <1>9 DEF todo, m

LEMMA SendNextOrder ==
    ASSUME RelayInv, RelayInv', SpentInv, LastInv, SameOrder,
           \A m : Spent(m) => Spent(m)',
           NEW a \in Actors, SendNext(a)
    PROVE  SpentInv' /\ LastInv' /\ SameOrder'
<1> DEFINE todo == sending[a].todo
           m == sending[a].message
<1>1. /\ sending \in [Actors -> [message : Message \cup {NoMessage}, todo : Seq(Clients)]]
      /\ got \in [Clients -> Seq(Message)] /\ got' \in [Clients -> Seq(Message)]
  BY DEF RelayInv, TypeOK
<1>2. ~Idle(a) /\ lock = a /\ \A b \in Actors : ~Idle(b) => b = a
  BY DEF SendNext, Idle, RelayInv, TypeOK
<1>3. CASE todo = <<>>
  <2>1. lock' = None /\ UNCHANGED got
    BY <1>3 DEF SendNext
  <2>2. \A b \in Actors : Idle(b)'
    BY <2>1, ActorFacts DEF RelayInv, TypeOK
  <2>3. SpentInv'
    <3> SUFFICES ASSUME NEW d \in Clients, NEW k \in 1 .. Len(got[d])
                 PROVE  Spent(got[d][k])'
      BY <2>1, <2>2 DEF SpentInv
    <3>1. PICK e : e = got[d][k]
      OBVIOUS
    <3>2. Spent(e)'
      BY <3>1 DEF SpentInv
    <3> QED
      BY <2>1, <3>1, <3>2 DEF Spent, SpentBy
  <2> QED
    BY <2>1, <2>2, <2>3 DEF LastInv, SameOrder
<1>4. CASE todo # <<>>
  <2>1. /\ todo \in Seq(Clients) /\ todo[1] \in Clients /\ m \in Message
        /\ Len(todo) \in Nat \ {0}
        /\ Tail(todo) \in Seq(Clients) /\ Len(Tail(todo)) = Len(todo) - 1
        /\ \A i \in 1 .. Len(Tail(todo)) : Tail(todo)[i] = todo[i + 1]
        /\ sending' = [sending EXCEPT ![a] = [message |-> m, todo |-> Tail(todo)]]
        /\ UNCHANGED lock
        /\ \A d \in Clients : d # todo[1] => got'[d] = got[d]
    BY <1>4, SentLast
  <2>2. \A d \in Clients : \A k \in 1 .. Len(got'[d]) :
           /\ got'[d][k] = m => k = Len(got'[d])
           /\ got'[d][k] # m => k \in 1 .. Len(got[d]) /\ got'[d][k] = got[d][k]
    BY <1>4, SentLast
  <2>3. /\ sending'[a].message = m /\ sending'[a].todo = Tail(todo)
        /\ \A b \in Actors : ~Idle(b)' => b = a
    BY <1>1, <1>2, <2>1 DEF RelayInv, TypeOK
  <2>4. Spent(m) /\ LastOf(m, todo)
    BY <1>2 DEF SpentInv, LastInv
  <2>5. PICK e : e = m
    OBVIOUS
  <2>6. PICK rest : rest = Tail(todo)
    OBVIOUS
  <2> HIDE DEF todo, m
  <2>7. SpentInv'
    <3>1. Spent(e)'
      BY <2>4, <2>5
    <3>2. \A b \in Actors : ~Idle(b)' => Spent(sending[b].message)'
      BY <2>3, <2>5, <3>1 DEF Spent, SpentBy
    <3>3. ASSUME NEW d \in Clients, NEW k \in 1 .. Len(got'[d])
          PROVE  Spent(got[d][k])'
      <4>1. PICK f : f = got'[d][k]
        OBVIOUS
      <4>2. f = e \/ Spent(f)
        BY <2>2, <2>5, <4>1 DEF SpentInv
      <4>3. Spent(f)'
        BY <3>1, <4>2
      <4> QED
        BY <4>1, <4>3 DEF Spent, SpentBy
    <3> QED
      BY <3>2, <3>3 DEF SpentInv
  <2>8. LastInv'
    <3>1. \A i, j \in 1 .. Len(rest) : rest[i] = rest[j] => i = j
      <4> SUFFICES ASSUME NEW i \in 1 .. Len(rest), NEW j \in 1 .. Len(rest), rest[i] = rest[j]
                   PROVE  i = j
        OBVIOUS
      <4>1. i + 1 \in 1 .. Len(todo) /\ j + 1 \in 1 .. Len(todo) /\ todo[i + 1] = todo[j + 1]
        BY <2>1, <2>6
      <4>2. i + 1 = j + 1
        BY <2>4, <4>1 DEF LastOf
      <4> QED
        BY <2>1, <2>6, <4>2
    <3>2. ASSUME NEW i \in 1 .. Len(rest), NEW k \in 1 .. Len(got'[rest[i]])
          PROVE  got'[rest[i]][k] # m
      <4>1. i + 1 \in 1 .. Len(todo) /\ 1 \in 1 .. Len(todo) /\ rest[i] = todo[i + 1] /\ i + 1 # 1
        BY <2>1, <2>6
      <4>2. rest[i] # todo[1]
        BY <2>4, <4>1 DEF LastOf
      <4>3. rest[i] \in Clients
        BY <2>1, <2>6, ElementOfSeq
      <4>4. got'[rest[i]] = got[rest[i]]
        BY <2>1, <4>2, <4>3
      <4> QED
        BY <2>4, <4>1, <4>4 DEF LastOf
    <3>3. LastOf(e, rest)'
      BY <2>2, <2>5, <3>1, <3>2 DEF LastOf
    <3> SUFFICES ASSUME NEW b \in Actors, ~Idle(b)'
                 PROVE  LastOf(sending[b].message, sending[b].todo)'
      BY DEF LastInv
    <3>4. sending'[b].message = e /\ sending'[b].todo = rest
      BY <2>3, <2>5, <2>6
    <3> QED
      BY <3>3, <3>4 DEF LastOf
  <2>9. SameOrder'
    <3> SUFFICES ASSUME NEW c \in Clients, NEW d \in Clients,
                        NEW i \in DOMAIN got'[c], NEW j \in DOMAIN got'[c],
                        NEW k \in DOMAIN got'[d], NEW l \in DOMAIN got'[d],
                        i < j, k < l, got'[c][i] = got'[d][l], got'[c][j] = got'[d][k]
                 PROVE  FALSE
      BY DEF SameOrder
    <3>1. /\ Len(got'[c]) \in Nat /\ DOMAIN got'[c] = 1 .. Len(got'[c])
          /\ Len(got'[d]) \in Nat /\ DOMAIN got'[d] = 1 .. Len(got'[d])
          /\ DOMAIN got[c] = 1 .. Len(got[c]) /\ DOMAIN got[d] = 1 .. Len(got[d])
      BY <1>1, LenProperties
    <3>2. i # Len(got'[c]) /\ k # Len(got'[d])
      BY <3>1
    <3>3. got'[c][i] # m /\ got'[d][k] # m
      BY <2>2, <3>1, <3>2
    <3>4. /\ i \in DOMAIN got[c] /\ got'[c][i] = got[c][i]
          /\ j \in DOMAIN got[c] /\ got'[c][j] = got[c][j]
          /\ k \in DOMAIN got[d] /\ got'[d][k] = got[d][k]
          /\ l \in DOMAIN got[d] /\ got'[d][l] = got[d][l]
      BY <2>2, <3>1, <3>3
    <3>5. ~(got[c][i] = got[d][l] /\ got[c][j] = got[d][k])
      <4>1. i \in DOMAIN got[c] /\ j \in DOMAIN got[c] /\ k \in DOMAIN got[d] /\ l \in DOMAIN got[d]
        BY <3>4
      <4> QED
        BY <4>1 DEF SameOrder
    <3> QED
      BY <3>4, <3>5
  <2> QED
    BY <2>7, <2>8, <2>9
<1> QED
  BY <1>3, <1>4

\* A step that sends nothing.
LEMMA QuietOrder ==
    ASSUME SpentInv, LastInv, SameOrder, \A m : Spent(m) => Spent(m)',
           UNCHANGED <<sending, got>>
    PROVE  SpentInv' /\ LastInv' /\ SameOrder'
<1>1. SpentInv'
  <2>1. ASSUME NEW a \in Actors, ~Idle(a)'
        PROVE  Spent(sending[a].message)'
    <3>1. PICK e : e = sending[a].message
      OBVIOUS
    <3>2. Spent(e)'
      BY <2>1, <3>1 DEF SpentInv, Idle
    <3> QED
      BY <3>1, <3>2 DEF Spent, SpentBy
  <2>2. ASSUME NEW d \in Clients, NEW k \in 1 .. Len(got'[d])
        PROVE  Spent(got[d][k])'
    <3>1. PICK e : e = got[d][k]
      OBVIOUS
    <3>2. Spent(e)'
      BY <3>1 DEF SpentInv
    <3> QED
      BY <3>1, <3>2 DEF Spent, SpentBy
  <2> QED
    BY <2>1, <2>2 DEF SpentInv
<1>2. LastInv'
  <2> SUFFICES ASSUME NEW b \in Actors, ~Idle(b)'
               PROVE  LastOf(sending[b].message, sending[b].todo)'
    BY DEF LastInv
  <2>1. LastOf(sending[b].message, sending[b].todo)
    BY DEF LastInv, Idle
  <2> QED
    BY <2>1 DEF LastOf
<1>3. SameOrder'
  BY DEF SameOrder
<1> QED
  BY <1>1, <1>2, <1>3

-----------------------------------------------------------------------------
\* The invariant of the order.

LEMMA OrderInit == Init => OrderInv
<1> SUFFICES ASSUME Init PROVE OrderInv
  OBVIOUS
<1>1. Len(<<>>) = 0
  OBVIOUS
<1>2. \A a \in Actors : Idle(a)
  BY DEF Init, Idle, NoBroadcast
<1>3. RoomInv /\ AwaitTask /\ ListedOnce /\ RisingInv
  BY <1>1 DEF Init, RoomInv, AwaitTask, ListedOnce, RisingInv, Rising
<1>4. SpentInv /\ LastInv
  BY <1>1, <1>2 DEF Init, SpentInv, LastInv
<1>5. SameOrder
  <2>1. \A c \in Clients : DOMAIN got[c] = {}
    BY DEF Init
  <2> QED
    BY <2>1 DEF SameOrder
<1> QED
  BY <1>3, <1>4, <1>5, RelayInit DEF OrderInv

LEMMA OrderStep == OrderInv /\ [Next]_vars => OrderInv'
<1> SUFFICES ASSUME OrderInv, [Next]_vars PROVE OrderInv'
  OBVIOUS
<1> USE DEF OrderInv
<1>1. RelayInv /\ RelayInv' /\ RoomInv
  BY RelayStep
<1>2. CASE Next
  <2>1. RoomInv' /\ AwaitTask' /\ ListedOnce' /\ RisingInv'
    BY <1>1, <1>2, RoomKept, AwaitKept, ListedKeptOnce, RisingKept
  <2>2. \A m : Spent(m) => Spent(m)'
    BY <1>1, <1>2, SpentStays
  <2>3. SpentInv' /\ LastInv' /\ SameOrder'
    <3>1. CASE UNCHANGED <<sending, got>>
      BY <2>2, <3>1, QuietOrder
    <3>2. ASSUME NEW a \in Actors, SendNext(a)
          PROVE  SpentInv' /\ LastInv' /\ SameOrder'
      BY <1>1, <2>2, <3>2, SendNextOrder
    <3>3. ASSUME NEW a \in Actors, NEW id \in Ids, NEW m \in Message, Begins(a, id, m)
          PROVE  SpentInv' /\ LastInv' /\ SameOrder'
      <4>1. /\ LockFree /\ StartBroadcast(a, id, m) /\ UNCHANGED got
            /\ ~Spent(m) /\ Spent(m)'
        BY <3>3 DEF Begins
      <4> QED
        BY <1>1, <2>2, <4>1, BroadcastOrder
    <3> QED
      BY <1>1, <1>2, <3>1, <3>2, <3>3, BroadcastChange
  <2> QED
    BY <1>1, <2>1, <2>3
<1>3. CASE UNCHANGED vars
  <2>1. RoomInv' /\ AwaitTask' /\ ListedOnce'
    BY <1>3 DEF vars, RoomInv, HasChat, AwaitTask, ListedOnce, Given
  <2>2. RisingInv'
    BY <1>3 DEF vars, RisingInv, Rising, Past
  <2>3. \A m : Spent(m) => Spent(m)'
    BY <1>3 DEF vars, Spent, OwnedBy, SpentBy, Past
  <2>4. SpentInv' /\ LastInv' /\ SameOrder'
    BY <1>3, <2>3, QuietOrder DEF vars
  <2> QED
    BY <1>1, <2>1, <2>2, <2>4
<1> QED
  BY <1>2, <1>3

\* Any two clients see the messages they both see in one order, and no client sees one
\* twice, whenever the tasks start (BroadCast holds the lock while it goes through the
\* list).
THEOREM SameOrderHolds == Spec => []SameOrder
<1>1. OrderInv /\ [Next]_vars => OrderInv'
  BY OrderStep
<1>2. OrderInv => SameOrder
  BY DEF OrderInv
<1> QED
  BY <1>1, <1>2, OrderInit, PTL DEF Spec
-----------------------------------------------------------------------------
\* The relay does what ZtBroadcast promises.

\* Who has been told something, or is about to be, has been registered.
NewcomerInv ==
    /\ \A c \in Clients : got[c] # <<>> => Given(c)
    /\ \A a \in Actors : \A i \in 1 .. Len(sending[a].todo) : Given(sending[a].todo[i])

BroadcastInv == OrderInv /\ NewcomerInv

\* What a broadcast that begins hands out.
LEMMA BeginsFacts ==
    ASSUME RelayInv, NEW a \in Actors, NEW id \in Ids, NEW m \in Message, Begins(a, id, m)
    PROVE  \E sockets \in Seq(Clients) :
              /\ sending' = [sending EXCEPT ![a] = [message |-> m, todo |-> sockets]]
              /\ lock = None /\ lock' = a
              /\ Len(listed[id]) \in Nat /\ Len(sockets) = Len(listed[id])
              /\ \A i \in 1 .. Len(listed[id]) : sockets[i] = listed[id][i].socket
<1> DEFINE sockets == [i \in DOMAIN listed[id] |-> listed[id][i].socket]
<1>1. /\ Len(listed[id]) \in Nat /\ Len(sockets) = Len(listed[id])
      /\ \A i \in 1 .. Len(listed[id]) : sockets[i] = listed[id][i].socket
      /\ sockets \in Seq(Clients)
  BY SocketsFacts DEF RelayInv, TypeOK
<1>2. /\ sending' = [sending EXCEPT ![a] = [message |-> m, todo |-> sockets]]
      /\ lock = None /\ lock' = a
  BY DEF Begins, StartBroadcast, LockFree
<1> QED
  BY <1>1, <1>2

LEMMA NewcomerKept ==
    ASSUME RelayInv, RoomInv, AwaitTask, ListedOnce, RisingInv, LastInv, NewcomerInv, Next
    PROVE  NewcomerInv'
<1>1. /\ sending \in [Actors -> [message : Message \cup {NoMessage}, todo : Seq(Clients)]]
      /\ got \in [Clients -> Seq(Message)] /\ listed \in [Ids -> Seq(Entry)]
  BY DEF RelayInv, TypeOK
<1>2. \A c \in Clients : Given(c) => Given(c)'
  BY GivenStays
<1>3. ASSUME NEW a \in Actors, NEW i \in 1 .. Len(sending[a].todo)
      PROVE  sending[a].todo[i] \in Clients /\ Given(sending[a].todo[i])
  <2>1. sending[a].todo \in Seq(Clients)
    BY <1>1
  <2> QED
    BY <2>1, ElementOfSeq DEF NewcomerInv
\* It is enough that who is told, or is to be told, is one who was given a task before.
<1>4. SUFFICES /\ \A c \in Clients : got'[c] # <<>> => Given(c)
               /\ \A a \in Actors : \A i \in 1 .. Len(sending'[a].todo) :
                     sending'[a].todo[i] \in Clients /\ Given(sending'[a].todo[i])
  <2>1. ASSUME NEW c \in Clients, got'[c] # <<>>
        PROVE  Given(c)'
    BY <1>2, <1>4, <2>1
  <2>2. ASSUME NEW a \in Actors, NEW i \in 1 .. Len(sending'[a].todo)
        PROVE  Given(sending[a].todo[i])'
    <3>1. PICK c \in Clients : c = sending'[a].todo[i]
      BY <1>4, <2>2
    <3>2. Given(c)'
      BY <1>2, <1>4, <2>2, <3>1
    <3> QED
      BY <3>1, <3>2 DEF Given
  <2> QED
    BY <2>1, <2>2 DEF NewcomerInv
<1>5. CASE UNCHANGED <<sending, got>>
  BY <1>3, <1>5 DEF NewcomerInv
<1>6. ASSUME NEW a \in Actors, SendNext(a), sending[a].todo = <<>>
      PROVE  /\ \A c \in Clients : got'[c] # <<>> => Given(c)
             /\ \A b \in Actors : \A i \in 1 .. Len(sending'[b].todo) :
                   sending'[b].todo[i] \in Clients /\ Given(sending'[b].todo[i])
  <2>1. sending' = [sending EXCEPT ![a] = NoBroadcast] /\ UNCHANGED got
    BY <1>6 DEF SendNext
  <2>2. NoBroadcast.todo = <<>> /\ Len(<<>>) = 0
    BY DEF NoBroadcast
  <2> QED
    BY <1>1, <1>3, <2>1, <2>2 DEF NewcomerInv
<1>7. ASSUME NEW a \in Actors, SendNext(a), sending[a].todo # <<>>
      PROVE  /\ \A c \in Clients : got'[c] # <<>> => Given(c)
             /\ \A b \in Actors : \A i \in 1 .. Len(sending'[b].todo) :
                   sending'[b].todo[i] \in Clients /\ Given(sending'[b].todo[i])
  <2>1. PICK todo : todo = sending[a].todo
    OBVIOUS
  <2>2. PICK rest : rest = [message |-> sending[a].message, todo |-> Tail(todo)]
    OBVIOUS
  <2>3. /\ todo[1] \in Clients /\ Len(todo) \in Nat \ {0}
        /\ Len(Tail(todo)) = Len(todo) - 1
        /\ \A i \in 1 .. Len(Tail(todo)) : Tail(todo)[i] = todo[i + 1]
        /\ sending' = [sending EXCEPT ![a] = rest] /\ rest.todo = Tail(todo)
        /\ \A d \in Clients : d # todo[1] => got'[d] = got[d]
    BY <1>7, <2>1, <2>2, SentLast
  <2>4. \A i \in 1 .. Len(todo) : todo[i] \in Clients /\ Given(todo[i])
    BY <1>3, <2>1
  <2>5. \A i \in 1 .. Len(Tail(todo)) : Tail(todo)[i] \in Clients /\ Given(Tail(todo)[i])
    <3>1. \A i \in 1 .. Len(Tail(todo)) : i + 1 \in 1 .. Len(todo)
      BY <2>3
    <3> QED
      BY <2>3, <2>4, <3>1
  <2>6. Given(todo[1])
    BY <2>3, <2>4
  <2> QED
    BY <1>1, <1>3, <2>3, <2>5, <2>6 DEF NewcomerInv
<1>8. ASSUME NEW a \in Actors, NEW id \in Ids, NEW m \in Message, Begins(a, id, m)
      PROVE  /\ \A c \in Clients : got'[c] # <<>> => Given(c)
             /\ \A b \in Actors : \A i \in 1 .. Len(sending'[b].todo) :
                   sending'[b].todo[i] \in Clients /\ Given(sending'[b].todo[i])
  <2>1. UNCHANGED got
    BY <1>8 DEF Begins
  <2>2. PICK sockets \in Seq(Clients) :
           /\ sending' = [sending EXCEPT ![a] = [message |-> m, todo |-> sockets]]
           /\ Len(sockets) = Len(listed[id])
           /\ \A i \in 1 .. Len(listed[id]) : sockets[i] = listed[id][i].socket
    BY <1>8, BeginsFacts
  <2>3. \A i \in 1 .. Len(sockets) : sockets[i] \in Clients /\ Given(sockets[i])
    BY <2>2, ElementOfSeq DEF ListedOnce
  <2> QED
    BY <1>1, <1>3, <2>1, <2>2, <2>3 DEF NewcomerInv
<1> QED
  BY <1>5, <1>6, <1>7, <1>8, BroadcastChange

-----------------------------------------------------------------------------
\* The members of a chat.

SocketsOf(list) == {list[i].socket : i \in DOMAIN list}

LEMMA MembersFacts ==
    /\ MembersOf = [chat \in Chats |-> IF chatRooms[chat] = 0 THEN {}
                                       ELSE SocketsOf(listed[chatRooms[chat]])]
    /\ MembersOf' = [chat \in Chats |-> IF chatRooms'[chat] = 0 THEN {}
                                        ELSE SocketsOf(listed'[chatRooms'[chat]])]
BY DEF MembersOf, SocketsOf

LEMMA AppendSockets ==
    ASSUME NEW list \in Seq(Entry), NEW entry \in Entry
    PROVE  SocketsOf(Append(list, entry)) = SocketsOf(list) \cup {entry.socket}
<1> DEFINE longer == Append(list, entry)
<1>1. /\ longer \in Seq(Entry) /\ Len(list) \in Nat /\ Len(longer) = Len(list) + 1
      /\ \A i \in 1 .. Len(list) : longer[i] = list[i]
      /\ longer[Len(list) + 1] = entry
  BY AppendFacts
<1>2. DOMAIN list = 1 .. Len(list) /\ DOMAIN longer = 1 .. Len(longer)
  BY <1>1, LenProperties
<1> HIDE DEF longer
<1>3. \A i \in 1 .. Len(longer) : i \in 1 .. Len(list) \/ i = Len(list) + 1
  BY <1>1
<1>4. \A i \in 1 .. Len(list) : i \in 1 .. Len(longer)
  BY <1>1
<1>5. Len(list) + 1 \in 1 .. Len(longer)
  BY <1>1
<1>6. SocketsOf(longer) = SocketsOf(list) \cup {entry.socket}
  BY <1>1, <1>2, <1>3, <1>4, <1>5 DEF SocketsOf
<1> QED
  BY <1>6 DEF longer

LEMMA RemoveSockets ==
    ASSUME NEW list \in Seq(Entry), NEW n \in 1 .. Len(list),
           \A i, j \in 1 .. Len(list) : list[i].socket = list[j].socket => i = j
    PROVE  SocketsOf(RemoveAt(list, n)) = SocketsOf(list) \ {list[n].socket}
<1> DEFINE shorter == RemoveAt(list, n)
           Old(i) == IF i < n THEN i ELSE i + 1
           Now(i) == IF i < n THEN i ELSE i - 1
<1>1. /\ shorter \in Seq(Entry) /\ Len(list) \in Nat /\ Len(shorter) = Len(list) - 1
      /\ \A i \in 1 .. Len(shorter) : shorter[i] = list[Old(i)]
  BY RemovedAt, LenProperties
<1>2. DOMAIN list = 1 .. Len(list) /\ DOMAIN shorter = 1 .. Len(shorter)
  BY <1>1, LenProperties
<1> HIDE DEF shorter
<1>3. \A i \in 1 .. Len(shorter) : Old(i) \in 1 .. Len(list) /\ Old(i) # n
  BY <1>1
<1>4. \A i \in 1 .. Len(list) : i # n => Now(i) \in 1 .. Len(shorter) /\ Old(Now(i)) = i
  BY <1>1
<1> HIDE DEF Old, Now
<1>5. ASSUME NEW i \in 1 .. Len(shorter)
      PROVE  shorter[i].socket \in SocketsOf(list) \ {list[n].socket}
  <2>1. Old(i) \in 1 .. Len(list) /\ Old(i) # n /\ shorter[i] = list[Old(i)]
    BY <1>1, <1>3
  <2>2. list[Old(i)].socket # list[n].socket
    BY <2>1
  <2> QED
    BY <1>2, <2>1, <2>2 DEF SocketsOf
<1>6. ASSUME NEW i \in 1 .. Len(list), list[i].socket # list[n].socket
      PROVE  list[i].socket \in SocketsOf(shorter)
  <2>1. Now(i) \in 1 .. Len(shorter) /\ Old(Now(i)) = i
    BY <1>4, <1>6
  <2>2. shorter[Now(i)] = list[i]
    BY <1>1, <2>1
  <2> QED
    BY <1>2, <2>1, <2>2 DEF SocketsOf
<1>7. SocketsOf(shorter) = SocketsOf(list) \ {list[n].socket}
  <2>1. SocketsOf(shorter) \subseteq SocketsOf(list) \ {list[n].socket}
    BY <1>2, <1>5 DEF SocketsOf
  <2>2. SocketsOf(list) \ {list[n].socket} \subseteq SocketsOf(shorter)
    BY <1>2, <1>6 DEF SocketsOf
  <2> QED
    BY <2>1, <2>2
<1> QED
  BY <1>7 DEF shorter

LEMMA SocketIn ==
    ASSUME NEW list \in Seq(Entry), NEW c
    PROVE  c \in SocketsOf(list) <=> \E i \in 1 .. Len(list) : list[i].socket = c
BY LenProperties DEF SocketsOf

\* What the clients have seen.
LEMMA SeenFacts ==
    /\ TypeOK /\ lock = None => Seen = got
    /\ TypeOK' /\ lock' = None => Seen' = got'
    /\ \A c \in Clients :
          Seen[c] = IF lock # None /\ c \in Range(sending[lock].todo)
                    THEN Append(got[c], sending[lock].message) ELSE got[c]
    /\ \A c \in Clients :
          Seen'[c] = IF lock' # None /\ c \in Range(sending'[lock'].todo)
                     THEN Append(got'[c], sending'[lock'].message) ELSE got'[c]
<1>1. TypeOK => got = [c \in Clients |-> got[c]]
  BY DEF TypeOK
<1>2. TypeOK' => got' = [c \in Clients |-> got'[c]]
  BY DEF TypeOK
<1> QED
  BY <1>1, <1>2 DEF Seen

-----------------------------------------------------------------------------
\* Every step is one of ZtBroadcast, or shows nothing there.

\* Which chat a client speaks to changes only when its task begins.
LEMMA VoiceKept ==
    ASSUME RelayInv, RoomInv, Next, \A c \in Clients : ~BeginTask(c)
    PROVE  UNCHANGED VoiceOf
<1>1. ASSUME NEW c \in Clients
      PROVE  VoiceOf'[c] = VoiceOf[c]
  <2>1. task'[c].id = task[c].id
    BY TaskIdKept
  <2>2. CASE task[c].id = 0
    BY <2>1, <2>2 DEF VoiceOf
  <2>3. CASE task[c].id # 0
    <3>1. PICK id \in Ids : id = task[c].id /\ HasChat(id)
      BY <2>3 DEF RelayInv, TypeOK, RoomInv
    <3>2. \A chat \in Chats : chatRooms'[chat] = id <=> chatRooms[chat] = id
      BY <3>1, RoomStays
    <3>3. (CHOOSE chat \in Chats : chatRooms'[chat] = id) = (CHOOSE chat \in Chats : chatRooms[chat] = id)
      BY <3>2
    <3>4. VoiceOf[c] = CHOOSE chat \in Chats : chatRooms[chat] = id
      BY <2>3, <3>1 DEF VoiceOf
    <3>5. VoiceOf'[c] = CHOOSE chat \in Chats : chatRooms'[chat] = id
      BY <2>1, <2>3, <3>1 DEF VoiceOf
    <3> QED
      BY <3>3, <3>4, <3>5
  <2> QED
    BY <2>2, <2>3
<1>2. VoiceOf = [c \in Clients |-> VoiceOf[c]] /\ VoiceOf' = [c \in Clients |-> VoiceOf'[c]]
  BY DEF VoiceOf
<1> QED
  BY <1>1, <1>2

LEMMA NothingTold ==
    ASSUME UNCHANGED <<chose, chatRooms, listed, sending, lock, got, VoiceOf>>
    PROVE  UNCHANGED Broadcast!vars
BY DEF Broadcast!vars, MembersOf, Seen

\* A task that begins settles the chat its client speaks to.
LEMMA BeginTaskSettles ==
    ASSUME RelayInv, RoomInv, NEW c \in Clients, BeginTask(c)
    PROVE  \E chat \in Chats : Broadcast!Settle(c, chat)
<1>1. task \in [Clients -> [pc : {"none", "ready", "receive", "relay", "left", "done"},
                            id : Ids \cup {0}, name : Seq(Segment), text : Seq(Segment)]]
  BY DEF RelayInv, TypeOK
<1>2. /\ local.id \in Ids /\ local.id # 0 /\ HasChat(local.id)
      /\ task[c].id = 0 /\ chose[c] # None
      /\ UNCHANGED <<chose, chatRooms, listed, sending, lock, got>>
  BY ActorFacts DEF BeginTask, client, RelayInv, StartInv, RoomInv, Ids
<1>3. task'[c].id = local.id /\ \A d \in Clients \ {c} : task'[d] = task[d]
  BY <1>1 DEF BeginTask
<1>4. PICK chat \in Chats : chat = CHOOSE x \in Chats : chatRooms[x] = local.id
  BY <1>2 DEF HasChat
<1>5. VoiceOf' = [VoiceOf EXCEPT ![c] = chat]
  <2>1. VoiceOf'[c] = chat
    BY <1>2, <1>3, <1>4 DEF VoiceOf
  <2>2. ASSUME NEW d \in Clients \ {c}
        PROVE  VoiceOf'[d] = VoiceOf[d]
    <3>1. task'[d].id = task[d].id /\ chatRooms' = chatRooms /\ d \in Clients
      BY <1>2, <1>3
    <3>2. CASE task[d].id = 0
      BY <3>1, <3>2 DEF VoiceOf
    <3>3. CASE task[d].id # 0
      <4>1. PICK id : id = task[d].id
        OBVIOUS
      <4>2. VoiceOf[d] = CHOOSE x \in Chats : chatRooms[x] = id
        BY <3>1, <3>3, <4>1 DEF VoiceOf
      <4>3. VoiceOf'[d] = CHOOSE x \in Chats : chatRooms'[x] = id
        BY <3>1, <3>3, <4>1 DEF VoiceOf
      <4> QED
        BY <3>1, <4>2, <4>3
    <3> QED
      BY <3>2, <3>3
  <2>3. VoiceOf = [d \in Clients |-> VoiceOf[d]] /\ VoiceOf' = [d \in Clients |-> VoiceOf'[d]]
    BY DEF VoiceOf
  <2> QED
    BY <2>1, <2>2, <2>3
<1>6. UNCHANGED <<MembersOf, Seen>>
  BY <1>2 DEF MembersOf, Seen
<1>7. VoiceOf[c] = None
  BY <1>2 DEF VoiceOf
<1> QED
  BY <1>2, <1>4, <1>5, <1>6, <1>7 DEF Broadcast!Settle

LEMMA SayHelloChooses ==
    ASSUME NEW c \in Clients, SayHello(c), UNCHANGED VoiceOf
    PROVE  \E chat \in Chats : Broadcast!Choose(c, chat)
<1>1. PICK chat \in Chats : chose' = [chose EXCEPT ![c] = chat]
  BY DEF SayHello
<1>2. chose[c] = None /\ UNCHANGED <<chatRooms, listed, sending, lock, got>>
  BY DEF SayHello, server
<1>3. UNCHANGED <<MembersOf, Seen>>
  BY <1>2 DEF MembersOf, Seen
<1> QED
  BY <1>1, <1>2, <1>3 DEF Broadcast!Choose

\* Nobody's list has the id of another chat.
LEMMA OtherRooms ==
    ASSUME RelayInv, NEW chat \in Chats, NEW other \in Chats, chat # other,
           chatRooms[chat] # 0
    PROVE  chatRooms[other] # chatRooms[chat]
BY DEF RelayInv, IdsInv, Named

LEMMA RegisterJoins ==
    ASSUME RelayInv, AwaitTask, ListedOnce, NewcomerInv, Register, UNCHANGED VoiceOf
    PROVE  at.socket \in Clients /\ Broadcast!Join(at.socket)
<1> DEFINE entry == [name |-> local.name, socket |-> at.socket]
           chat == local.chat
           c == at.socket
<1>1. PICK id \in Ids :
         /\ chat \in Chats /\ c \in Clients /\ chose[c] = chat
         /\ chatRooms' = [chatRooms EXCEPT ![chat] = id]
         /\ listed' = [listed EXCEPT ![id] = Append(@, entry)]
         /\ \/ chatRooms[chat] = id
            \/ chatRooms[chat] = 0 /\ \A other \in Chats : chatRooms[other] # id
  BY RegisterFacts
<1>2. /\ at.pc = "register" /\ lock = None /\ lock' = None /\ UNCHANGED <<chose, got>>
  BY DEF Register, LockFree, client
<1>3. /\ chatRooms \in [Chats -> Ids \cup {0}] /\ listed \in [Ids -> Seq(Entry)] /\ 0 \notin Ids
      /\ TypeOK /\ TypeOK'
  <2>1. RelayInv'
    <3>1. Next
      BY DEF Next, LoopStep
    <3> QED
      BY <3>1, RelayStep
  <2>2. TypeOK /\ TypeOK'
    BY <2>1 DEF RelayInv
  <2>3. chatRooms \in [Chats -> Ids \cup {0}] /\ listed \in [Ids -> Seq(Entry)]
    BY <2>2 DEF TypeOK
  <2> QED
    BY <2>2, <2>3 DEF Ids
<1>4. entry \in Entry /\ entry.socket = c
  BY <1>1 DEF Entry, RelayInv, TypeOK
<1>5. ~Given(c)
  BY <1>2 DEF AwaitTask, Given
<1>6. Seen = got /\ Seen' = Seen /\ Seen[c] = <<>>
  BY <1>1, <1>2, <1>3, <1>5, SeenFacts DEF NewcomerInv
<1>7. c \notin SocketsOf(listed[id])
  <2>1. \A i \in 1 .. Len(listed[id]) : listed[id][i].socket # c
    BY <1>5 DEF ListedOnce
  <2> QED
    BY <1>3, <2>1, SocketIn
<1> HIDE DEF entry, chat, c
<1>8. chatRooms[chat] # id => SocketsOf(listed[id]) = {}
  <2> SUFFICES ASSUME chatRooms[chat] # id, NEW d \in SocketsOf(listed[id]) PROVE FALSE
    OBVIOUS
  <2>1. PICK i \in 1 .. Len(listed[id]) : listed[id][i].socket = d
    BY <1>3, SocketIn
  <2>2. chose[d] \in Chats /\ chatRooms[chose[d]] = id
    BY <2>1 DEF RelayInv, ListedInv
  <2> QED
    BY <1>1, <2>2
<1>9. SocketsOf(listed'[id]) = SocketsOf(listed[id]) \cup {c}
  BY <1>1, <1>3, <1>4, AppendSockets
<1>10. \A other \in Chats \ {chat} : chatRooms[other] # id /\ chatRooms'[other] = chatRooms[other]
  BY <1>1, <1>3, OtherRooms
<1>11. MembersOf' = [MembersOf EXCEPT ![chat] = @ \cup {c}]
  <2>1. MembersOf'[chat] = MembersOf[chat] \cup {c}
    <3>1. chatRooms'[chat] = id /\ MembersOf'[chat] = SocketsOf(listed'[id])
      BY <1>1, <1>3, MembersFacts
    <3>2. MembersOf[chat] = SocketsOf(listed[id])
      BY <1>1, <1>3, <1>8, MembersFacts
    <3> QED
      BY <1>9, <3>1, <3>2
  <2>2. \A other \in Chats \ {chat} : MembersOf'[other] = MembersOf[other]
    <3> SUFFICES ASSUME NEW other \in Chats \ {chat}
                 PROVE  MembersOf'[other] = MembersOf[other]
      OBVIOUS
    <3>1. chatRooms[other] \in Ids => listed'[chatRooms[other]] = listed[chatRooms[other]]
      BY <1>1, <1>3, <1>10
    <3> QED
      BY <1>3, <1>10, <3>1, MembersFacts
  <2>3. DOMAIN MembersOf = Chats /\ DOMAIN MembersOf' = Chats
    BY MembersFacts
  <2>4. MembersOf = [x \in Chats |-> MembersOf[x]] /\ MembersOf' = [x \in Chats |-> MembersOf'[x]]
    BY MembersFacts
  <2> QED
    BY <1>1, <2>1, <2>2, <2>3, <2>4
<1>12. c \notin MembersOf[chat]
  BY <1>1, <1>3, <1>7, <1>8, MembersFacts
<1>13. Broadcast!Join(c)
  BY <1>1, <1>2, <1>6, <1>11, <1>12 DEF Broadcast!Join
<1> QED
  BY <1>1, <1>13 DEF c

LEMMA RemoveClientLeaves ==
    ASSUME RelayInv, ListedOnce, RemoveClient, UNCHANGED VoiceOf
    PROVE  at.socket \in Clients /\ Broadcast!Leave(at.socket)
<1> DEFINE chat == local.chat
           c == at.socket
           id == local.id
<1>1. /\ chat \in Chats /\ c \in Clients /\ chose[c] = chat /\ chatRooms[chat] = id /\ id \in Ids
      /\ UNCHANGED <<chatRooms, chose, sending, lock, got>>
  BY DEF RemoveClient, RelayInv, LoopInv, Greeting, client
<1>2. /\ chatRooms \in [Chats -> Ids \cup {0}] /\ listed \in [Ids -> Seq(Entry)] /\ 0 \notin Ids
  BY DEF RelayInv, TypeOK, Ids
<1>3. PICK n \in DOMAIN listed[id] :
         /\ listed[id][n] = [name |-> local.name, socket |-> c]
         /\ listed' = [listed EXCEPT ![id] = RemoveAt(listed[id], n)]
  BY DEF RemoveClient
<1>4. Seen' = Seen
  BY <1>1 DEF Seen
<1> HIDE DEF id, chat, c
<1>5. n \in 1 .. Len(listed[id]) /\ listed[id][n].socket = c /\ listed[id] \in Seq(Entry)
  BY <1>1, <1>2, <1>3, LenProperties
<1>6. SocketsOf(listed'[id]) = SocketsOf(listed[id]) \ {c} /\ c \in SocketsOf(listed[id])
  <2>1. \A i, j \in 1 .. Len(listed[id]) : listed[id][i].socket = listed[id][j].socket => i = j
    BY <1>1 DEF ListedOnce
  <2>2. SocketsOf(RemoveAt(listed[id], n)) = SocketsOf(listed[id]) \ {c}
    BY <1>5, <2>1, RemoveSockets
  <2>3. listed'[id] = RemoveAt(listed[id], n)
    BY <1>1, <1>2, <1>3
  <2> QED
    BY <1>5, <2>2, <2>3, SocketIn
<1>7. \A other \in Chats \ {chat} : chatRooms[other] # id
  BY <1>1, <1>2, OtherRooms
<1>8. MembersOf' = [MembersOf EXCEPT ![chat] = @ \ {c}]
  <2>1. MembersOf'[chat] = MembersOf[chat] \ {c}
    BY <1>1, <1>2, <1>6, MembersFacts
  <2>2. \A other \in Chats \ {chat} : MembersOf'[other] = MembersOf[other]
    <3> SUFFICES ASSUME NEW other \in Chats \ {chat}
                 PROVE  MembersOf'[other] = MembersOf[other]
      OBVIOUS
    <3>1. chatRooms[other] \in Ids => listed'[chatRooms[other]] = listed[chatRooms[other]]
      BY <1>1, <1>2, <1>3, <1>7
    <3> QED
      BY <1>1, <1>2, <3>1, MembersFacts
  <2>3. MembersOf = [x \in Chats |-> MembersOf[x]] /\ MembersOf' = [x \in Chats |-> MembersOf'[x]]
    BY MembersFacts
  <2> QED
    BY <1>1, <2>1, <2>2, <2>3
<1>9. c \in MembersOf[chat]
  BY <1>1, <1>2, <1>6, MembersFacts
<1>10. Broadcast!Leave(c)
  BY <1>1, <1>4, <1>8, <1>9 DEF Broadcast!Leave
<1> QED
  BY <1>1, <1>10 DEF c

\* A broadcast that begins has been told, as far as ZtBroadcast sees, to all members.
LEMMA BeginsTells ==
    ASSUME RelayInv, RelayInv', SpentInv, NEW a \in Actors, NEW id \in Ids, NEW m \in Message,
           Begins(a, id, m), UNCHANGED VoiceOf
    PROVE  [Broadcast!Next]_(Broadcast!vars)
<1>1. PICK sockets \in Seq(Clients) :
         /\ sending' = [sending EXCEPT ![a] = [message |-> m, todo |-> sockets]]
         /\ lock = None /\ lock' = a
         /\ Len(listed[id]) \in Nat /\ Len(sockets) = Len(listed[id])
         /\ \A i \in 1 .. Len(listed[id]) : sockets[i] = listed[id][i].socket
  BY BeginsFacts
<1>2. PICK chat \in Chats : chatRooms[chat] = id /\ Broadcast!Audience(m) = chat
  BY DEF Begins
<1>4. /\ UNCHANGED <<got, chose, chatRooms, listed>> /\ ~Spent(m)
      /\ a # None /\ id # 0
  BY ActorFacts DEF Begins, Ids
<1>5. /\ sending \in [Actors -> [message : Message \cup {NoMessage}, todo : Seq(Clients)]]
      /\ got \in [Clients -> Seq(Message)] /\ listed[id] \in Seq(Entry)
  BY DEF RelayInv, TypeOK
<1>6. UNCHANGED MembersOf /\ MembersOf[chat] = SocketsOf(listed[id])
  <2>1. UNCHANGED MembersOf
    BY <1>4 DEF MembersOf
  <2> QED
    BY <1>2, <1>4, <2>1, MembersFacts
<1>7. Range(sockets) = MembersOf[chat]
  <2>1. DOMAIN sockets = 1 .. Len(sockets) /\ DOMAIN listed[id] = 1 .. Len(listed[id])
    BY <1>1, <1>5, LenProperties
  <2> QED
    BY <1>1, <1>6, <2>1 DEF SocketsOf, Range
<1>8. Seen = got /\ Seen' = [d \in Clients |-> IF d \in MembersOf[chat] THEN Append(Seen[d], m)
                                                                       ELSE Seen[d]]
  <2>1. Seen = got
    BY <1>1, SeenFacts DEF RelayInv
  <2>2. lock' # None /\ sending'[lock'].todo = sockets /\ sending'[lock'].message = m
    BY <1>1, <1>4, <1>5
  <2> QED
    BY <1>4, <1>7, <2>1, <2>2 DEF Seen
<1>9. Broadcast!Tell(chat, m)
  <2>1. Broadcast!New(m)
    <3> SUFFICES ASSUME NEW d \in Clients, m \in Range(got[d]) PROVE FALSE
      BY <1>8 DEF Broadcast!New, Broadcast!Range, Range
    <3>1. got[d] \in Seq(Message)
      BY DEF RelayInv, TypeOK
    <3>2. PICK k \in 1 .. Len(got[d]) : got[d][k] = m
      BY <3>1, LenProperties DEF Range
    <3> QED
      BY <1>4, <3>2 DEF SpentInv
  <2> QED
    BY <1>2, <1>4, <1>6, <1>8, <2>1 DEF Broadcast!Tell
<1>10. CASE MembersOf[chat] = {}
  <2>1. Seen' = Seen
    BY <1>5, <1>8, <1>10
  <2> QED
    BY <1>4, <1>6, <2>1 DEF Broadcast!vars
<1>11. ASSUME NEW reader \in MembersOf[chat]
       PROVE  Broadcast!Next
  <2>1. reader \in Clients
    <3>1. PICK i \in 1 .. Len(listed[id]) : listed[id][i].socket = reader
      BY <1>5, <1>6, <1>11, SocketIn
    <3>2. listed[id][i] \in Entry
      BY <1>5, ElementOfSeq
    <3> QED
      BY <3>1, <3>2 DEF Entry
  <2>2. Seen'[reader] = Append(got[reader], m) /\ got[reader] \in Seq(Message)
    BY <1>5, <1>8, <1>11, <2>1
  <2>3. m \in Range(Seen'[reader])
    <3> DEFINE q == got[reader]
               longer == Append(q, m)
    <3>1. /\ longer \in Seq(Message) /\ Len(q) \in Nat /\ Len(longer) = Len(q) + 1
          /\ longer[Len(q) + 1] = m
      BY <2>2, AppendFacts
    <3>2. DOMAIN longer = 1 .. Len(longer)
      BY <3>1, LenProperties
    <3>3. Seen'[reader] = longer
      BY <2>2
    <3> HIDE DEF longer, q
    <3>4. Len(q) + 1 \in DOMAIN longer
      BY <3>1, <3>2
    <3> QED
      BY <3>1, <3>3, <3>4 DEF Range
  <2> QED
    BY <1>9, <1>11, <2>3 DEF Broadcast!Next, Broadcast!Range, Range
<1> QED
  BY <1>10, <1>11

\* What is handed out one by one has been seen already.
LEMMA SendNextUnseen ==
    ASSUME RelayInv, LastInv, NEW a \in Actors, SendNext(a), UNCHANGED VoiceOf
    PROVE  UNCHANGED Broadcast!vars
<1>1. /\ sending \in [Actors -> [message : Message \cup {NoMessage}, todo : Seq(Clients)]]
      /\ got \in [Clients -> Seq(Message)] /\ a # None
  BY ActorFacts DEF RelayInv, TypeOK
<1>2. ~Idle(a) /\ lock = a
  BY DEF SendNext, Idle, RelayInv, TypeOK
<1>3. UNCHANGED <<chose, chatRooms, listed>>
  BY DEF SendNext, client
<1>4. UNCHANGED MembersOf
  BY <1>3 DEF MembersOf
<1>5. CASE sending[a].todo = <<>>
  <2>1. lock' = None /\ UNCHANGED got
    BY <1>5 DEF SendNext
  <2>2. Range(<<>>) = {}
    BY DEF Range
  <2>3. Seen' = Seen
    BY <1>2, <1>5, <2>1, <2>2 DEF Seen
  <2> QED
    BY <1>3, <1>4, <2>3 DEF Broadcast!vars
<1>6. CASE sending[a].todo # <<>>
  <2>1. PICK todo : todo = sending[a].todo
    OBVIOUS
  <2>2. PICK m : m = sending[a].message
    OBVIOUS
  <2>3. /\ todo \in Seq(Clients) /\ todo[1] \in Clients /\ m \in Message
        /\ Len(todo) \in Nat \ {0}
        /\ Tail(todo) \in Seq(Clients) /\ Len(Tail(todo)) = Len(todo) - 1
        /\ \A i \in 1 .. Len(Tail(todo)) : Tail(todo)[i] = todo[i + 1]
        /\ sending' = [sending EXCEPT ![a] = [message |-> m, todo |-> Tail(todo)]]
        /\ lock' = lock
        /\ \A d \in Clients : d # todo[1] => got'[d] = got[d]
    BY <1>6, <2>1, <2>2, SentLast
  <2>4. \A i, j \in 1 .. Len(todo) : todo[i] = todo[j] => i = j
    BY <1>2, <2>1 DEF LastInv, LastOf
  <2>5. got'[todo[1]] = Append(got[todo[1]], m)
    <3>1. got' = [got EXCEPT ![Head(todo)] = Append(@, m)]
      BY <1>6, <2>1, <2>2 DEF SendNext
    <3>2. Head(todo) = todo[1]
      BY <1>6, <2>1, <2>3
    <3> QED
      BY <1>1, <2>3, <3>1, <3>2
  <2>6. /\ sending[lock].todo = todo /\ sending[lock].message = m
        /\ sending'[lock'].todo = Tail(todo) /\ sending'[lock'].message = m
        /\ lock # None /\ lock' # None
    BY <1>1, <1>2, <2>1, <2>2, <2>3
  <2>7. DOMAIN todo = 1 .. Len(todo) /\ DOMAIN Tail(todo) = 1 .. Len(Tail(todo))
    BY <2>3, LenProperties
  <2>8. todo[1] \in Range(todo) /\ todo[1] \notin Range(Tail(todo))
    <3>1. \A i \in 1 .. Len(Tail(todo)) : i + 1 \in 1 .. Len(todo) /\ i + 1 # 1
      BY <2>3
    <3>2. 1 \in 1 .. Len(todo)
      BY <2>3
    <3> QED
      BY <2>3, <2>4, <2>7, <3>1, <3>2 DEF Range
  <2>9. ASSUME NEW d \in Clients, d # todo[1]
        PROVE  d \in Range(todo) <=> d \in Range(Tail(todo))
    <3>1. \A i \in 1 .. Len(todo) : i # 1 => /\ i - 1 \in 1 .. Len(Tail(todo))
                                             /\ (i - 1) + 1 = i
      BY <2>3
    <3>2. \A i \in 1 .. Len(Tail(todo)) : i + 1 \in 1 .. Len(todo)
      BY <2>3
    <3>3. ASSUME NEW i \in 1 .. Len(todo), todo[i] = d
          PROVE  \E j \in 1 .. Len(Tail(todo)) : Tail(todo)[j] = d
      <4>1. i - 1 \in 1 .. Len(Tail(todo)) /\ (i - 1) + 1 = i
        BY <2>9, <3>1, <3>3
      <4>2. Tail(todo)[i - 1] = d
        BY <2>3, <3>3, <4>1
      <4> QED
        BY <4>1, <4>2
    <3>4. ASSUME NEW j \in 1 .. Len(Tail(todo)), Tail(todo)[j] = d
          PROVE  \E i \in 1 .. Len(todo) : todo[i] = d
      BY <2>3, <3>2, <3>4
    <3> QED
      BY <2>7, <3>3, <3>4 DEF Range
  <2>10. \A d \in Clients : Seen'[d] = Seen[d]
    <3> SUFFICES ASSUME NEW d \in Clients PROVE Seen'[d] = Seen[d]
      OBVIOUS
    <3>1. /\ Seen[d] = IF d \in Range(todo) THEN Append(got[d], m) ELSE got[d]
          /\ Seen'[d] = IF d \in Range(Tail(todo)) THEN Append(got'[d], m) ELSE got'[d]
      BY <2>6, SeenFacts
    <3>2. CASE d = todo[1]
      BY <2>5, <2>8, <3>1, <3>2
    <3>3. CASE d # todo[1]
      BY <2>3, <2>9, <3>1, <3>3
    <3> QED
      BY <3>2, <3>3
  <2>11. Seen' = Seen
    BY <2>10 DEF Seen
  <2> QED
    BY <1>3, <1>4, <2>11 DEF Broadcast!vars
<1> QED
  BY <1>5, <1>6

LEMMA QuietUntold ==
    ASSUME Next, UNCHANGED VoiceOf, ~Register, ~RemoveClient, ~Announce,
           \A c \in Clients : ~SayHello(c) /\ ~RelayText(c) /\ ~RelayLeft(c),
           \A a \in Actors : ~SendNext(a)
    PROVE  UNCHANGED Broadcast!vars
<1> SUFFICES UNCHANGED <<chose, chatRooms, listed, sending, lock, got>>
  BY NothingTold
<1>1. ASSUME NEW c \in Clients, Connect(c) \/ Say(c) \/ Leave(c)
      PROVE  UNCHANGED <<chose, chatRooms, listed, sending, lock, got>>
  BY <1>1 DEF Connect, Say, Leave, server
<1>2. ASSUME NEW c \in Clients, BeginTask(c) \/ ReceiveText(c) \/ HideClient(c) \/ TaskDies(c)
      PROVE  UNCHANGED <<chose, chatRooms, listed, sending, lock, got>>
  BY <1>2 DEF BeginTask, ReceiveText, HideClient, TaskDies, client
<1>3. ASSUME NEW c \in Clients, Accept(c)
      PROVE  UNCHANGED <<chose, chatRooms, listed, sending, lock, got>>
  BY <1>3 DEF Accept
<1>4. CASE ReceiveHello
  BY <1>4 DEF ReceiveHello
<1>5. CASE HelloFails
  BY <1>5 DEF HelloFails, client
<1>6. CASE StartTask
  BY <1>6 DEF StartTask, client
<1>7. CASE ShowClient
  BY <1>7 DEF ShowClient, client
<1> QED
  BY <1>1, <1>2, <1>3, <1>4, <1>5, <1>6, <1>7, ActorFacts
     DEF Next, ClientStep, LoopStep, TaskStep

LEMMA BroadcastStep ==
    ASSUME BroadcastInv, [Next]_vars
    PROVE  [Broadcast!Next]_(Broadcast!vars)
<1>1. /\ RelayInv /\ RelayInv' /\ RoomInv /\ AwaitTask /\ ListedOnce /\ RisingInv
      /\ SpentInv /\ LastInv /\ NewcomerInv
  BY RelayStep DEF BroadcastInv, OrderInv
<1>2. CASE UNCHANGED vars
  BY <1>2, NothingTold DEF vars, VoiceOf
<1>3. ASSUME NEW c \in Clients, BeginTask(c)
      PROVE  Broadcast!Next
  BY <1>1, <1>3, BeginTaskSettles DEF Broadcast!Next
<1>4. CASE Next /\ \A c \in Clients : ~BeginTask(c)
  <2>1. UNCHANGED VoiceOf
    BY <1>1, <1>4, VoiceKept
  <2>2. ASSUME NEW c \in Clients, SayHello(c)
        PROVE  Broadcast!Next
    BY <2>1, <2>2, SayHelloChooses DEF Broadcast!Next
  <2>3. CASE Register
    BY <1>1, <2>1, <2>3, RegisterJoins DEF Broadcast!Next
  <2>4. CASE RemoveClient
    BY <1>1, <2>1, <2>4, RemoveClientLeaves DEF Broadcast!Next
  <2>5. CASE Announce \/ \E c \in Clients : RelayText(c) \/ RelayLeft(c)
    <3>1. PICK a \in Actors, id \in Ids, m \in Message : Begins(a, id, m)
      BY <1>1, <2>5, BroadcastBegins
    <3> QED
      BY <1>1, <2>1, <3>1, BeginsTells
  <2>6. ASSUME NEW a \in Actors, SendNext(a)
        PROVE  UNCHANGED Broadcast!vars
    BY <1>1, <2>1, <2>6, SendNextUnseen
  <2> QED
    BY <1>4, <2>1, <2>2, <2>3, <2>4, <2>5, <2>6, QuietUntold
<1> QED
  BY <1>2, <1>3, <1>4

LEMMA BroadcastInitially == Init => BroadcastInv /\ Broadcast!Init
<1> SUFFICES ASSUME Init PROVE BroadcastInv /\ Broadcast!Init
  OBVIOUS
<1>1. Len(<<>>) = 0
  OBVIOUS
<1>2. NewcomerInv
  BY <1>1 DEF Init, NewcomerInv, NoBroadcast
<1>3. /\ MembersOf = [chat \in Chats |-> {}] /\ Seen = [c \in Clients |-> <<>>]
      /\ VoiceOf = [c \in Clients |-> None]
  BY DEF Init, MembersOf, Seen, VoiceOf
<1>4. Broadcast!Init
  BY <1>3 DEF Init, Broadcast!Init
<1> QED
  BY <1>2, <1>4, OrderInit DEF BroadcastInv

LEMMA BroadcastKept == BroadcastInv /\ [Next]_vars => BroadcastInv'
<1> SUFFICES ASSUME BroadcastInv, [Next]_vars PROVE BroadcastInv'
  OBVIOUS
<1>1. OrderInv'
  BY OrderStep DEF BroadcastInv
<1>2. CASE Next
  <2>1. /\ RelayInv /\ RoomInv /\ AwaitTask /\ ListedOnce /\ RisingInv
        /\ LastInv /\ NewcomerInv
    BY DEF BroadcastInv, OrderInv
  <2> QED
    BY <1>1, <1>2, <2>1, NewcomerKept DEF BroadcastInv
<1>3. CASE UNCHANGED vars
  <2>1. NewcomerInv'
    BY <1>3 DEF vars, BroadcastInv, NewcomerInv, Given
  <2> QED
    BY <1>1, <2>1 DEF BroadcastInv
<1> QED
  BY <1>2, <1>3

\* A chat is an atomic broadcast: although a message is handed out socket by socket, and
\* clients come, leave and fail meanwhile, every run is one of ZtBroadcast.  A client
\* speaks to one chat, settled when its task begins and kept, all members of that chat
\* see the message at once, it is new to all, and nobody else sees it (ConnectClients,
\* ReceiveMessages, BroadCast).
THEOREM RelayIsBroadcast == Spec => RoomBroadcast
<1>1. BroadcastInv /\ [Next]_vars => BroadcastInv'
  BY BroadcastKept
<1>2. BroadcastInv /\ [Next]_vars => [Broadcast!Next]_(Broadcast!vars)
  BY BroadcastStep
<1> QED
  BY <1>1, <1>2, BroadcastInitially, PTL DEF Spec, RoomBroadcast, Broadcast!Spec
=============================================================================
