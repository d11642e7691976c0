-------------------------- MODULE ZtChatRelayProofs --------------------------
(***************************************************************************)
(* Proofs about ZtChatRelay, for any clients, chats and interleaving.      *)
(*                                                                         *)
(*   RelayInv  the first segment of a client that has not been greeted is  *)
(*             its hello, so the loop's chatName is the chat the client    *)
(*             chose; ids are given out without gaps, so a new one is      *)
(*             nobody's; hence a room's list holds clients of one chat,    *)
(*             and a task, whenever it starts, finds the id of a room.     *)
(***************************************************************************)
EXTENDS ZtChatRelay, FiniteSetTheorems, SequenceTheorems, TLAPS

\* A client the loop has not received from.
Fresh(c) == conn[c] \in {"away", "queued"} \/ (at.pc = "hello" /\ at.socket = c)

\* What a client has sent is its own, and begins with its hello until the loop takes it.
InboxOf(c) ==
    /\ \A i \in 1 .. Len(inbox[c]) : inbox[c][i].from = c
    /\ conn[c] = "away" => chose[c] = None
    /\ chose[c] = None => inbox[c] = <<>>
    /\ Fresh(c) => /\ inbox[c] # <<>> => inbox[c][1].hello = chose[c]
                   /\ Present(c) /\ chose[c] # None => inbox[c] # <<>>

InboxInv == \A c \in Clients : InboxOf(c)

Greeting == {"register", "announce", "start", "remove"}

\* The loop's variables are those of the client it greets.
LoopInv ==
    /\ at.pc # "accept" => at.socket \in Clients /\ conn[at.socket] \notin {"away", "queued"}
    /\ at.pc \in Greeting =>
          /\ local.chat = chose[at.socket] /\ local.chat \in Chats
          /\ local.name # <<>> /\ local.name[1].from = at.socket
    /\ at.pc \in Greeting \ {"register"} => local.id = chatRooms[local.chat] /\ local.id \in Ids

\* The chats that have an id have the first ones, each its own.
Named == {chat \in Chats : chatRooms[chat] # 0}

IdsInv ==
    /\ \A chat \in Chats : chatRooms[chat] <= Cardinality(Named)
    /\ \A chat, other \in Named : chatRooms[chat] = chatRooms[other] => chat = other

\* A client is listed in the room of the chat it chose.
ListedInv ==
    \A id \in Ids : \A i \in 1 .. Len(listed[id]) :
        /\ chose[listed[id][i].socket] \in Chats
        /\ chatRooms[chose[listed[id][i].socket]] = id

\* A task that runs has an id of some room, and a client that was greeted.
StartInv ==
    \A c \in Clients :
        /\ task[c].pc # "none" => ~Fresh(c)
        /\ task[c].pc = "ready" => local.id \in Ids
        /\ task[c].pc \notin {"none", "ready"} => task[c].id \in Ids

RelayInv == TypeOK /\ InboxInv /\ LoopInv /\ IdsInv /\ ListedInv /\ StartInv


-----------------------------------------------------------------------------
\* Sequences.

LEMMA TakenFacts ==
    ASSUME NEW S, NEW q \in Seq(S), NEW n \in 1 .. Len(q)
    PROVE  /\ Len(q) \in Nat
           /\ SubSeq(q, 1, n) \in Seq(S) /\ SubSeq(q, 1, n) # <<>>
           /\ SubSeq(q, 1, n)[1] = q[1] /\ q[1] \in S
           /\ SubSeq(q, n + 1, Len(q)) \in Seq(S)
           /\ Len(SubSeq(q, n + 1, Len(q))) = Len(q) - n
           /\ \A i \in 1 .. Len(q) - n : SubSeq(q, n + 1, Len(q))[i] = q[n + i]
<1>1. Len(q) \in Nat /\ \A i \in 1 .. Len(q) : q[i] \in S
  BY LenProperties, ElementOfSeq
<1>2. /\ SubSeq(q, 1, n) \in Seq(S) /\ Len(SubSeq(q, 1, n)) = n
      /\ \A i \in 1 .. n : SubSeq(q, 1, n)[i] = q[i]
  <2>1. 1 \in 1 .. Len(q) + 1 /\ n \in 0 .. Len(q)
    BY <1>1
  <2> QED
    BY <1>1, <2>1, SubSeqProperties
<1>3. SubSeq(q, 1, n) # <<>> /\ SubSeq(q, 1, n)[1] = q[1]
  <2>1. 1 \in 1 .. n /\ n # 0
    BY <1>1
  <2> QED
    BY <1>2, <2>1, EmptySeq
<1>4. /\ SubSeq(q, n + 1, Len(q)) \in Seq(S)
      /\ Len(SubSeq(q, n + 1, Len(q))) = Len(q) - n
      /\ \A i \in 1 .. Len(q) - n : SubSeq(q, n + 1, Len(q))[i] = q[n + i]
  <2>1. n + 1 \in 1 .. Len(q) + 1 /\ Len(q) \in n .. Len(q)
    BY <1>1
  <2> QED
    BY <1>1, <2>1, SubSeqProperties
<1> QED
  BY <1>1, <1>2, <1>3, <1>4

LEMMA FirstTaken ==
    ASSUME NEW S, NEW q \in Seq(S), NEW n \in 1 .. Len(q)
    PROVE  SubSeq(q, 1, n) # <<>> /\ SubSeq(q, 1, n)[1] = q[1]
BY TakenFacts

LEMMA AppendFacts ==
    ASSUME NEW S, NEW q \in Seq(S), NEW e \in S
    PROVE  /\ Append(q, e) \in Seq(S) /\ Append(q, e) # <<>>
           /\ Len(q) \in Nat /\ Len(Append(q, e)) = Len(q) + 1
           /\ \A i \in 1 .. Len(q) : Append(q, e)[i] = q[i]
           /\ Append(q, e)[Len(q) + 1] = e
           /\ q # <<>> => Append(q, e)[1] = q[1]
<1>1. /\ Append(q, e) \in Seq(S) /\ Append(q, e) # <<>>
      /\ Len(q) \in Nat /\ Len(Append(q, e)) = Len(q) + 1
      /\ \A i \in 1 .. Len(q) : Append(q, e)[i] = q[i]
      /\ Append(q, e)[Len(q) + 1] = e
  BY AppendProperties, LenProperties
<1>2. q # <<>> => 1 \in 1 .. Len(q)
  BY <1>1, EmptySeq
<1> QED
  BY <1>1, <1>2

LEMMA RemovedAt ==
    ASSUME NEW S, NEW q \in Seq(S), NEW n \in 1 .. Len(q)
    PROVE  /\ RemoveAt(q, n) \in Seq(S) /\ Len(RemoveAt(q, n)) = Len(q) - 1
           /\ \A i \in 1 .. Len(RemoveAt(q, n)) :
                 RemoveAt(q, n)[i] = q[IF i < n THEN i ELSE i + 1]
<1> DEFINE before == SubSeq(q, 1, n - 1)
           after == SubSeq(q, n + 1, Len(q))
<1>1. Len(q) \in Nat /\ \A i \in 1 .. Len(q) : q[i] \in S
  BY LenProperties, ElementOfSeq
<1>2. /\ before \in Seq(S) /\ Len(before) = n - 1
      /\ \A i \in 1 .. n - 1 : before[i] = q[i]
  <2>1. \A i \in 1 .. n - 1 : q[i] \in S
    BY <1>1
  <2>2. /\ before \in Seq(S) /\ Len(before) = IF 1 <= n - 1 THEN (n - 1) - 1 + 1 ELSE 0
        /\ \A i \in 1 .. (n - 1) - 1 + 1 : before[i] = q[1 + i - 1]
    BY <1>1, <2>1, SubSeqProperties
  <2> HIDE DEF before
  <2> QED
    BY <1>1, <2>2
<1>3. /\ after \in Seq(S) /\ Len(after) = Len(q) - n
      /\ \A i \in 1 .. Len(q) - n : after[i] = q[n + i]
  BY TakenFacts
<1>4. RemoveAt(q, n) = before \o after
  BY DEF RemoveAt
<1> HIDE DEF before, after
<1>5. /\ RemoveAt(q, n) \in Seq(S)
      /\ Len(RemoveAt(q, n)) = Len(before) + Len(after)
      /\ \A i \in 1 .. Len(before) + Len(after) :
            RemoveAt(q, n)[i] = IF i <= Len(before) THEN before[i] ELSE after[i - Len(before)]
  <2>1. /\ before \o after \in Seq(S)
        /\ Len(before \o after) = Len(before) + Len(after)
        /\ \A i \in 1 .. Len(before) + Len(after) :
              (before \o after)[i] = IF i <= Len(before) THEN before[i]
                                     ELSE after[i - Len(before)]
    <3>1. before \in Seq(S) /\ after \in Seq(S)
      BY <1>2, <1>3
    <3> QED
      BY <3>1, ConcatProperties
  <2> QED
    BY <1>4, <2>1
<1>6. Len(RemoveAt(q, n)) = Len(q) - 1
  BY <1>1, <1>2, <1>3, <1>5
<1>7. ASSUME NEW i \in 1 .. Len(RemoveAt(q, n))
      PROVE  RemoveAt(q, n)[i] = q[IF i < n THEN i ELSE i + 1]
  <2>0. /\ n - 1 \in Nat /\ Len(q) - n \in Nat
        /\ i \in 1 .. (n - 1) + (Len(q) - n)
    BY <1>1, <1>2, <1>3, <1>5
  <2>1. CASE i < n
    <3>1. i \in 1 .. n - 1 /\ i <= n - 1
      BY <1>1, <2>0, <2>1
    <3>2. RemoveAt(q, n)[i] = before[i]
      BY <1>2, <1>3, <1>5, <2>0, <3>1
    <3> QED
      BY <1>2, <2>1, <3>1, <3>2
  <2>2. CASE ~(i < n)
    <3>1. /\ i - (n - 1) \in 1 .. Len(q) - n /\ n + (i - (n - 1)) = i + 1
          /\ ~(i <= n - 1)
      BY <1>1, <2>0, <2>2
    <3>2. RemoveAt(q, n)[i] = after[i - (n - 1)]
      BY <1>2, <1>3, <1>5, <2>0, <3>1
    <3> QED
      BY <1>3, <2>2, <3>1, <3>2
  <2> QED
    BY <2>1, <2>2
<1> QED
  BY <1>5, <1>6, <1>7

LEMMA RemovedFacts ==
    ASSUME NEW S, NEW q \in Seq(S), NEW n \in 1 .. Len(q)
    PROVE  /\ RemoveAt(q, n) \in Seq(S)
           /\ \A i \in 1 .. Len(RemoveAt(q, n)) : \E j \in 1 .. Len(q) : RemoveAt(q, n)[i] = q[j]
<1> DEFINE Old(i) == IF i < n THEN i ELSE i + 1
<1>1. /\ RemoveAt(q, n) \in Seq(S) /\ Len(RemoveAt(q, n)) = Len(q) - 1
      /\ \A i \in 1 .. Len(RemoveAt(q, n)) : RemoveAt(q, n)[i] = q[Old(i)]
  BY RemovedAt
<1>2. Len(q) \in Nat
  BY LenProperties
<1>3. \A i \in 1 .. Len(RemoveAt(q, n)) : Old(i) \in 1 .. Len(q)
  BY <1>1, <1>2
<1> HIDE DEF Old
<1> QED
  BY <1>1, <1>3

\* The sockets of a list of entries.
LEMMA SocketsFacts ==
    ASSUME NEW list \in Seq(Entry)
    PROVE  /\ [i \in DOMAIN list |-> list[i].socket] \in Seq(Clients)
           /\ Len(list) \in Nat
           /\ Len([i \in DOMAIN list |-> list[i].socket]) = Len(list)
           /\ \A i \in 1 .. Len(list) : [k \in DOMAIN list |-> list[k].socket][i] = list[i].socket
<1> DEFINE sockets == [i \in DOMAIN list |-> list[i].socket]
<1>1. Len(list) \in Nat /\ DOMAIN list = 1 .. Len(list) /\ list \in [1 .. Len(list) -> Entry]
  BY LenProperties
<1>2. sockets \in [1 .. Len(list) -> Clients]
  BY <1>1 DEF Entry
<1>3. sockets \in Seq(Clients)
  BY <1>1, <1>2, SeqDef
<1>4. Len(sockets) = Len(list)
  <2>1. DOMAIN sockets = 1 .. Len(list) /\ DOMAIN sockets = 1 .. Len(sockets)
                /\ Len(sockets) \in Nat
    BY <1>1, <1>3, LenProperties
  <2> HIDE DEF sockets
  <2> QED
    BY <1>1, <2>1
<1> QED
  BY <1>1, <1>3, <1>4

LEMMA SegmentFacts ==
    /\ \A c \in Clients, chat \in Chats :
          Hello(c, chat) \in Segment /\ Hello(c, chat).from = c /\ Hello(c, chat).hello = chat
    /\ \A c \in Clients, n \in 0 .. MaxTexts : Text(c, n) \in Segment /\ Text(c, n).from = c
BY RelayAssumption DEF Segment, Hello, Text

-----------------------------------------------------------------------------
\* The types.

LEMMA ActorFacts ==
    /\ Loop \in Actors /\ None \notin Actors /\ None \notin Chats /\ None \notin Clients
    /\ \A c \in Clients : c \in Actors /\ c # Loop
BY RelayAssumption DEF Actors

\* A new chat gets an id that no chat has.
LEMMA NewIdFacts ==
    ASSUME TypeOK, IdsInv, NEW chat \in Chats, chatRooms[chat] = 0
    PROVE  /\ NewId \in Ids /\ NewId = Cardinality(Named) + 1 /\ Cardinality(Named) \in Nat
           /\ \A other \in Chats : chatRooms[other] # NewId
<1>1. chatRooms \in [Chats -> Ids \cup {0}]
  BY DEF TypeOK
<1>2. Named \subseteq Chats \ {chat}
  BY DEF Named
<1>3. /\ IsFiniteSet(Chats) /\ IsFiniteSet(Chats \ {chat})
      /\ Cardinality(Chats) \in Nat /\ Cardinality(Chats \ {chat}) = Cardinality(Chats) - 1
  BY RelayAssumption, FS_RemoveElement, FS_CardinalityType
<1>4. Cardinality(Named) \in Nat /\ Cardinality(Named) <= Cardinality(Chats \ {chat})
  <2>1. IsFiniteSet(Named)
    BY <1>2, <1>3, FS_Subset
  <2> QED
    BY <1>2, <1>3, <2>1, FS_Subset, FS_CardinalityType
<1>5. NewId = Cardinality(Named) + 1
  <2>1. Named = {c \in Chats : chatRooms[c] # 0}
    BY DEF Named
  <2> QED
    BY <2>1 DEF NewId
<1>6. NewId \in Ids
  BY <1>3, <1>4, <1>5 DEF Ids
<1>7. ASSUME NEW other \in Chats
      PROVE  chatRooms[other] # NewId
  <2>1. chatRooms[other] <= Cardinality(Named) /\ chatRooms[other] \in Nat
    BY <1>1, <1>3 DEF IdsInv, Ids
  <2> QED
    BY <1>4, <1>5, <2>1
<1> QED
  BY <1>4, <1>5, <1>6, <1>7

\* The broadcast of a message to a room, begun while nobody holds the lock.
LEMMA BroadcastTyped ==
    ASSUME TypeOK, NEW a \in Actors, NEW id \in Ids, NEW message \in Message,
           LockFree, StartBroadcast(a, id, message)
    PROVE  /\ sending' \in [Actors -> [message : Message \cup {NoMessage}, todo : Seq(Clients)]]
           /\ lock' \in Actors \cup {None}
           /\ \A b \in Actors : Idle(b)' <=> lock' # b
<1> DEFINE sockets == [i \in DOMAIN listed[id] |-> listed[id][i].socket]
           job == [message |-> message, todo |-> sockets]
<1>1. sockets \in Seq(Clients)
  <2>1. listed[id] \in Seq(Entry)
    BY DEF TypeOK
  <2> QED
    BY <2>1, SocketsFacts
<1>2. sending' = [sending EXCEPT ![a] = job] /\ lock' = a
  BY DEF StartBroadcast
<1>3. job \in [message : Message \cup {NoMessage}, todo : Seq(Clients)] /\ job.message = message
  BY <1>1
<1> HIDE DEF job
<1>4. \A b \in Actors : Idle(b)
  BY ActorFacts DEF LockFree, TypeOK
<1>5. message # NoMessage
  BY DEF Message, NoMessage
<1>6. sending \in [Actors -> [message : Message \cup {NoMessage}, todo : Seq(Clients)]]
  BY DEF TypeOK
<1>7. ASSUME NEW b \in Actors
      PROVE  Idle(b)' <=> lock' # b
  <2>1. CASE b = a
    BY <1>2, <1>3, <1>5, <1>6, <2>1 DEF Idle
  <2>2. CASE b # a
    BY <1>2, <1>4, <1>6, <2>2 DEF Idle
  <2> QED
    BY <2>1, <2>2
<1> QED
  BY <1>2, <1>3, <1>6, <1>7

LEMMA SendNextTyped ==
    ASSUME TypeOK, NEW a \in Actors, SendNext(a)
    PROVE  TypeOK'
<1> DEFINE todo == sending[a].todo
           rest == [message |-> sending[a].message, todo |-> Tail(todo)]
<1>1. /\ sending \in [Actors -> [message : Message \cup {NoMessage}, todo : Seq(Clients)]]
      /\ got \in [Clients -> Seq(Message)]
  BY DEF TypeOK
<1>2. /\ sending[a].message \in Message /\ todo \in Seq(Clients) /\ ~Idle(a) /\ lock = a
  BY <1>1 DEF SendNext, Idle, TypeOK
<1>3. \A b \in Actors \ {a} : Idle(b)
  BY <1>2 DEF TypeOK
<1>4. /\ UNCHANGED <<client, at, local, chatRooms, listed, task, shown>>
      /\ \/ /\ todo = <<>>
            /\ sending' = [sending EXCEPT ![a] = NoBroadcast] /\ lock' = None /\ UNCHANGED got
         \/ /\ todo # <<>>
            /\ got' = [got EXCEPT ![Head(todo)] = Append(@, sending[a].message)]
            /\ sending' = [sending EXCEPT ![a] = rest] /\ UNCHANGED lock
  BY DEF SendNext
<1>5. /\ sending' \in [Actors -> [message : Message \cup {NoMessage}, todo : Seq(Clients)]]
      /\ lock' \in Actors \cup {None}
      /\ got' \in [Clients -> Seq(Message)]
      /\ \A b \in Actors : Idle(b)' <=> lock' # b
  <2>1. CASE /\ todo = <<>>
             /\ sending' = [sending EXCEPT ![a] = NoBroadcast] /\ lock' = None /\ UNCHANGED got
    <3>1. NoBroadcast \in [message : Message \cup {NoMessage}, todo : Seq(Clients)]
          /\ NoBroadcast.message = NoMessage
      BY DEF NoBroadcast
    <3>2. \A b \in Actors : Idle(b)'
      BY <1>1, <1>3, <2>1, <3>1 DEF Idle
    <3> QED
      BY <1>1, <2>1, <3>1, <3>2, ActorFacts
  <2>2. CASE /\ todo # <<>>
             /\ got' = [got EXCEPT ![Head(todo)] = Append(@, sending[a].message)]
             /\ sending' = [sending EXCEPT ![a] = rest] /\ UNCHANGED lock
    <3>1. Head(todo) \in Clients /\ Tail(todo) \in Seq(Clients)
      BY <1>2, <2>2, HeadTailProperties
    <3>2. rest \in [message : Message \cup {NoMessage}, todo : Seq(Clients)]
          /\ rest.message = sending[a].message
      BY <1>2, <3>1
    <3>3. Append(got[Head(todo)], sending[a].message) \in Seq(Message)
      BY <1>1, <1>2, <3>1, AppendFacts
    <3> HIDE DEF rest
    <3>4. \A b \in Actors : Idle(b)' <=> Idle(b)
      BY <1>1, <2>2, <3>2 DEF Idle
    <3> QED
      BY <1>1, <1>2, <1>3, <2>2, <3>1, <3>2, <3>3, <3>4 DEF TypeOK
  <2> QED
    BY <1>4, <2>1, <2>2
<1> QED
  BY <1>4, <1>5 DEF TypeOK, client

LEMMA TakeTyped ==
    ASSUME TypeOK, NEW c \in Clients, NEW n \in 1 .. Len(inbox[c]), Take(c, n)
    PROVE  /\ inbox' \in [Clients -> Seq(Segment)]
           /\ Received(c, n) \in Seq(Segment)
           /\ inbox[c][1] \in Segment /\ Head(inbox[c]) = inbox[c][1]
<1>1. inbox \in [Clients -> Seq(Segment)] /\ inbox[c] \in Seq(Segment)
  BY DEF TypeOK
<1>2. /\ SubSeq(inbox[c], 1, n) \in Seq(Segment) /\ inbox[c][1] \in Segment
      /\ SubSeq(inbox[c], n + 1, Len(inbox[c])) \in Seq(Segment)
  BY <1>1, TakenFacts
<1> QED
  BY <1>1, <1>2 DEF Take, Received

LEMMA NoSegments == <<>> \in Seq(Segment)
BY EmptySeq

LEMMA TaskTyped ==
    ASSUME TypeOK, NEW c \in Clients, NEW text \in Seq(Segment),
           NEW step \in {"none", "ready", "receive", "relay", "left", "done"},
           TaskAt(c, step, text)
    PROVE  task' \in [Clients -> [pc : {"none", "ready", "receive", "relay", "left", "done"},
                                  id : Ids \cup {0}, name : Seq(Segment), text : Seq(Segment)]]
BY DEF TaskAt, TypeOK

LEMMA TypeStep ==
    ASSUME RelayInv, Next
    PROVE  TypeOK'
<1> USE DEF RelayInv
<1>1. ASSUME NEW c \in Clients, ClientStep(c)
      PROVE  TypeOK'
  <2>1. /\ UNCHANGED <<at, local, chatRooms, listed, task, sending, lock, got, shown>>
        /\ \A a \in Actors : Idle(a)' <=> Idle(a)
    BY <1>1 DEF ClientStep, Connect, SayHello, Say, Leave, server, Idle
  <2>2. /\ conn' \in [Clients -> {"away", "queued", "open", "closed", "reset"}]
        /\ chose' \in [Clients -> Chats \cup {None}]
        /\ sent' \in [Clients -> 0 .. MaxTexts]
        /\ inbox' \in [Clients -> Seq(Segment)]
    <3>1. CASE Connect(c)
      BY <3>1 DEF Connect, TypeOK
    <3>2. CASE SayHello(c)
      <4>1. PICK chat \in Chats : /\ chose' = [chose EXCEPT ![c] = chat]
                                  /\ inbox' = [inbox EXCEPT ![c] = <<Hello(c, chat)>>]
        BY <3>2 DEF SayHello
      <4>2. <<Hello(c, chat)>> \in Seq(Segment)
        BY SegmentFacts
      <4>3. chose' \in [Clients -> Chats \cup {None}] /\ inbox' \in [Clients -> Seq(Segment)]
        BY <4>1, <4>2 DEF TypeOK
      <4> QED
        BY <3>2, <4>3 DEF SayHello, TypeOK
    <3>3. CASE Say(c)
      <4>1. sent[c] \in Nat /\ sent[c] + 1 \in 0 .. MaxTexts
        <5>1. sent[c] \in 0 .. MaxTexts /\ sent[c] < MaxTexts
          BY <3>3 DEF Say, TypeOK
        <5> QED
          BY <5>1, RelayAssumption
      <4>2. Append(inbox[c], Text(c, sent[c] + 1)) \in Seq(Segment)
        <5>1. inbox[c] \in Seq(Segment) /\ Text(c, sent[c] + 1) \in Segment
          BY <4>1, SegmentFacts DEF TypeOK
        <5> QED
          BY <5>1, AppendFacts
      <4>3. inbox' \in [Clients -> Seq(Segment)]
        BY <3>3, <4>2 DEF Say, TypeOK
      <4>4. sent' \in [Clients -> 0 .. MaxTexts]
        BY <3>3, <4>1 DEF Say, TypeOK
      <4>5. /\ UNCHANGED <<conn, chose>>
            /\ conn \in [Clients -> {"away", "queued", "open", "closed", "reset"}]
            /\ chose \in [Clients -> Chats \cup {None}]
        BY <3>3 DEF Say, TypeOK
      <4> QED
        BY <4>3, <4>4, <4>5
    <3>4. CASE Leave(c)
      <4>1. conn' \in [Clients -> {"away", "queued", "open", "closed", "reset"}]
        <5>1. \/ conn' = [conn EXCEPT ![c] = "closed"] \/ conn' = [conn EXCEPT ![c] = "reset"]
          BY <3>4 DEF Leave
        <5>2. conn \in [Clients -> {"away", "queued", "open", "closed", "reset"}]
          BY DEF TypeOK
        <5> QED
          BY <5>1, <5>2
      <4>2. inbox' = inbox \/ inbox' = [inbox EXCEPT ![c] = <<>>]
        BY <3>4 DEF Leave
      <4>3. inbox' \in [Clients -> Seq(Segment)]
        BY <4>2, NoSegments DEF TypeOK
      <4> QED
        BY <3>4, <4>1, <4>3 DEF Leave, TypeOK
    <3> QED
      BY <1>1, <3>1, <3>2, <3>3, <3>4 DEF ClientStep
  <2> QED
    BY <2>1, <2>2 DEF TypeOK
<1>2. ASSUME NEW c \in Clients, Accept(c)
      PROVE  TypeOK'
  BY <1>2 DEF Accept, TypeOK, Idle
<1>3. CASE ReceiveHello
  <2>1. PICK n \in 1 .. Len(inbox[at.socket]) :
           /\ Take(at.socket, n)
           /\ local' = [chat |-> Head(inbox[at.socket]).hello,
                        name |-> Received(at.socket, n), id |-> local.id]
    BY <1>3 DEF ReceiveHello
  <2>2. at.socket \in Clients
    BY <1>3 DEF ReceiveHello, LoopInv
  <2>3. /\ inbox' \in [Clients -> Seq(Segment)] /\ Received(at.socket, n) \in Seq(Segment)
        /\ Head(inbox[at.socket]) \in Segment
    BY <2>1, <2>2, TakeTyped
  <2>4. local' \in [chat : Chats \cup {None}, name : Seq(Segment), id : Ids \cup {0}]
    BY <2>1, <2>3 DEF Segment, TypeOK
  <2>5. /\ at' \in [pc : {"accept", "hello", "register", "announce", "start", "remove"},
                    socket : Clients \cup {None}]
        /\ UNCHANGED <<conn, chose, sent, chatRooms, listed, task, sending, lock, got, shown>>
    BY <1>3, <2>2 DEF ReceiveHello, LoopAt
  <2>6. \A a \in Actors : Idle(a)' <=> lock' # a
    BY <2>5 DEF TypeOK, Idle
  <2> QED
    BY <2>3, <2>4, <2>5, <2>6 DEF TypeOK
<1>4. CASE HelloFails
  <2>1. local' \in [chat : Chats \cup {None}, name : Seq(Segment), id : Ids \cup {0}]
    BY <1>4 DEF HelloFails, TypeOK
  <2>2. /\ at' = [pc |-> "accept", socket |-> None]
        /\ UNCHANGED <<conn, chose, sent, inbox, chatRooms, listed, task, sending, lock, got,
                       shown>>
    BY <1>4 DEF HelloFails, AfterFailure, client
  <2>3. \A a \in Actors : Idle(a)' <=> lock' # a
    BY <2>2 DEF TypeOK, Idle
  <2> QED
    BY <2>1, <2>2, <2>3 DEF TypeOK
<1>5. CASE Register
  <2> DEFINE id == IF chatRooms[local.chat] = 0 THEN NewId ELSE chatRooms[local.chat]
             entry == [name |-> local.name, socket |-> at.socket]
  <2>1. /\ chatRooms' = [chatRooms EXCEPT ![local.chat] = id]
        /\ listed' = [listed EXCEPT ![id] = Append(@, entry)]
        /\ local' = [chat |-> local.chat, name |-> local.name, id |-> id]
        /\ shown' = [names |-> shown.names, waiting |-> TRUE]
        /\ at' = [pc |-> "announce", socket |-> at.socket]
        /\ UNCHANGED <<client, task, sending, lock, got>>
    BY <1>5 DEF Register, LoopAt
  <2>2. at.socket \in Clients /\ local.chat \in Chats
    BY <1>5 DEF Register, LoopInv, Greeting
  <2>3. id \in Ids
    BY <2>2, NewIdFacts DEF TypeOK
  <2> HIDE DEF id
  <2>4. Append(listed[id], entry) \in Seq(Entry)
    BY <2>2, <2>3, AppendFacts DEF TypeOK, Entry
  <2>5. /\ chatRooms' \in [Chats -> Ids \cup {0}]
        /\ listed' \in [Ids -> Seq(Entry)]
    BY <2>1, <2>2, <2>3, <2>4 DEF TypeOK
  <2> QED
    BY <2>1, <2>2, <2>3, <2>5 DEF TypeOK, Idle, client
<1>6. CASE ShowClient
  BY <1>6 DEF ShowClient, client, TypeOK, Idle
<1>7. CASE Announce
  <2>1. /\ local.id \in Ids /\ local.name \in Seq(Segment) /\ at.socket \in Clients
    BY <1>7 DEF Announce, LoopInv, Greeting, TypeOK
  <2>2. [kind |-> "enter", by |-> Loop, text |-> local.name] \in Message
    BY <2>1, ActorFacts DEF Message
  <2>3. /\ sending' \in [Actors -> [message : Message \cup {NoMessage}, todo : Seq(Clients)]]
        /\ lock' \in Actors \cup {None}
        /\ \A b \in Actors : Idle(b)' <=> lock' # b
    BY <1>7, <2>1, <2>2, ActorFacts, BroadcastTyped DEF Announce
  <2> QED
    BY <1>7, <2>1, <2>3 DEF Announce, LoopAt, client, TypeOK
<1>8. CASE StartTask
  <2>1. at.socket \in Clients /\ TaskAt(at.socket, "ready", <<>>)
    BY <1>8 DEF StartTask, LoopInv
  <2>2. task' \in [Clients -> [pc : {"none", "ready", "receive", "relay", "left", "done"},
                               id : Ids \cup {0}, name : Seq(Segment), text : Seq(Segment)]]
    BY <2>1, NoSegments, TaskTyped
  <2>3. /\ at' \in [pc : {"accept", "hello", "register", "announce", "start", "remove"},
                    socket : Clients \cup {None}]
        /\ UNCHANGED <<client, local, chatRooms, listed, sending, lock, got, shown>>
    BY <1>8, <2>1 DEF StartTask, LoopAt
  <2> QED
    BY <2>2, <2>3 DEF TypeOK, Idle, client
<1>9. CASE RemoveClient
  <2>1. local.id \in Ids /\ listed[local.id] \in Seq(Entry)
    BY <1>9 DEF RemoveClient, LoopInv, Greeting, TypeOK
  <2>2. PICK i \in DOMAIN listed[local.id] :
           listed' = [listed EXCEPT ![local.id] = RemoveAt(listed[local.id], i)]
    BY <1>9 DEF RemoveClient
  <2>3. i \in 1 .. Len(listed[local.id])
    BY <2>1, LenProperties
  <2>4. RemoveAt(listed[local.id], i) \in Seq(Entry)
    BY <2>1, <2>3, RemovedFacts
  <2>5. listed' \in [Ids -> Seq(Entry)]
    BY <2>2, <2>4 DEF TypeOK
  <2> QED
    BY <1>9, <2>5 DEF RemoveClient, client, TypeOK, Idle
<1>10. ASSUME NEW c \in Clients, BeginTask(c)
       PROVE  TypeOK'
  BY <1>10, EmptySeq DEF BeginTask, client, TypeOK, Idle
<1>11. ASSUME NEW c \in Clients, ReceiveText(c)
       PROVE  TypeOK'
  <2>1. PICK n \in 1 .. Len(inbox[c]) : Take(c, n) /\ TaskAt(c, "relay", Received(c, n))
    BY <1>11 DEF ReceiveText
  <2>2. inbox' \in [Clients -> Seq(Segment)] /\ Received(c, n) \in Seq(Segment)
    BY <2>1, TakeTyped
  <2> QED
    BY <1>11, <2>1, <2>2 DEF ReceiveText, TaskAt, TypeOK, Idle
<1>12. ASSUME NEW c \in Clients, RelayText(c)
       PROVE  TypeOK'
  <2>1. task[c].id \in Ids /\ [kind |-> "text", by |-> c, text |-> task[c].text] \in Message
    BY <1>12, ActorFacts DEF RelayText, StartInv, Message, TypeOK
  <2>2. /\ sending' \in [Actors -> [message : Message \cup {NoMessage}, todo : Seq(Clients)]]
        /\ lock' \in Actors \cup {None}
        /\ \A b \in Actors : Idle(b)' <=> lock' # b
    BY <1>12, <2>1, ActorFacts, BroadcastTyped DEF RelayText
  <2> QED
    BY <1>12, <2>2, EmptySeq DEF RelayText, TaskAt, client, TypeOK
<1>13. ASSUME NEW c \in Clients, RelayLeft(c)
       PROVE  TypeOK'
  <2>1. task[c].id \in Ids /\ [kind |-> "left", by |-> c, text |-> task[c].name] \in Message
    BY <1>13, ActorFacts DEF RelayLeft, StartInv, Message, TypeOK
  <2>2. /\ sending' \in [Actors -> [message : Message \cup {NoMessage}, todo : Seq(Clients)]]
        /\ lock' \in Actors \cup {None}
        /\ \A b \in Actors : Idle(b)' <=> lock' # b
    BY <1>13, <2>1, ActorFacts, BroadcastTyped DEF RelayLeft
  <2> QED
    BY <1>13, <2>2, EmptySeq DEF RelayLeft, TaskAt, client, TypeOK
<1>14. ASSUME NEW c \in Clients, HideClient(c) \/ TaskDies(c)
       PROVE  TypeOK'
  <2>1. TaskAt(c, "done", <<>>)
    BY <1>14 DEF HideClient, TaskDies
  <2>2. task' \in [Clients -> [pc : {"none", "ready", "receive", "relay", "left", "done"},
                               id : Ids \cup {0}, name : Seq(Segment), text : Seq(Segment)]]
    BY <2>1, NoSegments, TaskTyped
  <2>3. /\ shown' \in [names : SUBSET Seq(Segment), waiting : BOOLEAN]
        /\ UNCHANGED <<client, at, local, chatRooms, listed, sending, lock, got>>
    BY <1>14 DEF HideClient, TaskDies, TypeOK
  <2> QED
    BY <2>2, <2>3 DEF TypeOK, Idle, client
<1> QED
  BY <1>1, <1>2, <1>3, <1>4, <1>5, <1>6, <1>7, <1>8, <1>9, <1>10, <1>11, <1>12, <1>13, <1>14,
     SendNextTyped, ActorFacts DEF Next, LoopStep, TaskStep

-----------------------------------------------------------------------------
\* The segments on their way.

LEMMA SayHelloInbox ==
    ASSUME RelayInv, NEW c \in Clients, SayHello(c)
    PROVE  InboxOf(c)'
<1>1. PICK chat \in Chats : /\ chose' = [chose EXCEPT ![c] = chat]
                            /\ inbox' = [inbox EXCEPT ![c] = <<Hello(c, chat)>>]
  BY DEF SayHello
<1>2. /\ conn[c] \in {"queued", "open"} /\ conn' = conn /\ chat # None
  BY ActorFacts DEF SayHello, Present
<1>3. /\ inbox'[c] = <<Hello(c, chat)>> /\ chose'[c] = chat
  BY <1>1 DEF RelayInv, TypeOK
<1>4. /\ Len(inbox'[c]) = 1 /\ inbox'[c][1] = Hello(c, chat) /\ inbox'[c] # <<>>
  BY <1>3
<1>5. \A i \in 1 .. Len(inbox'[c]) : inbox'[c][i].from = c
  BY <1>4, SegmentFacts
<1>6. inbox'[c][1].hello = chose'[c]
  BY <1>3, <1>4, SegmentFacts
<1> QED
  BY <1>2, <1>3, <1>4, <1>5, <1>6 DEF InboxOf

LEMMA SayInbox ==
    ASSUME RelayInv, NEW c \in Clients, Say(c)
    PROVE  InboxOf(c)'
<1> DEFINE said == Text(c, sent[c] + 1)
<1>1. /\ inbox' = [inbox EXCEPT ![c] = Append(@, said)] /\ chose[c] # None
      /\ UNCHANGED <<conn, chose, at>>
  BY DEF Say, server
<1>2. said \in Segment /\ said.from = c
  <2>1. sent[c] \in 0 .. MaxTexts /\ sent[c] < MaxTexts
    BY DEF Say, RelayInv, TypeOK
  <2>2. sent[c] + 1 \in 0 .. MaxTexts
    BY <2>1, RelayAssumption
  <2> QED
    BY <2>2, SegmentFacts
<1>3. inbox \in [Clients -> Seq(Segment)] /\ inbox[c] \in Seq(Segment) /\ InboxOf(c)
  BY DEF RelayInv, TypeOK, InboxInv
<1> HIDE DEF said
<1>4. inbox'[c] = Append(inbox[c], said)
  BY <1>1, <1>3
<1>5. /\ inbox'[c] # <<>>
      /\ Len(inbox[c]) \in Nat /\ Len(inbox'[c]) = Len(inbox[c]) + 1
      /\ \A i \in 1 .. Len(inbox[c]) : inbox'[c][i] = inbox[c][i]
      /\ inbox'[c][Len(inbox[c]) + 1] = said
      /\ inbox[c] # <<>> => inbox'[c][1] = inbox[c][1]
  BY <1>2, <1>3, <1>4, AppendFacts
<1>6. \A i \in 1 .. Len(inbox'[c]) : inbox'[c][i].from = c
  <2> SUFFICES ASSUME NEW i \in 1 .. Len(inbox'[c]) PROVE inbox'[c][i].from = c
    OBVIOUS
  <2>1. i \in 1 .. Len(inbox[c]) \/ i = Len(inbox[c]) + 1
    BY <1>5
  <2> QED
    BY <1>2, <1>3, <1>5, <2>1 DEF InboxOf
<1>7. Fresh(c)' => Fresh(c) /\ Present(c)
  BY <1>1 DEF Fresh, Say
<1>8. Fresh(c)' => inbox'[c][1].hello = chose'[c]
  BY <1>1, <1>3, <1>5, <1>7 DEF InboxOf
<1> QED
  BY <1>1, <1>3, <1>5, <1>6, <1>8 DEF InboxOf

\* Taking segments: the rest is still the client's.
LEMMA TakeInbox ==
    ASSUME RelayInv, NEW c \in Clients, NEW n \in 1 .. Len(inbox[c]), Take(c, n),
           UNCHANGED <<conn, chose>>, ~Fresh(c)'
    PROVE  InboxOf(c)'
<1>1. inbox \in [Clients -> Seq(Segment)] /\ inbox[c] \in Seq(Segment) /\ InboxOf(c)
  BY DEF RelayInv, TypeOK, InboxInv
<1>2. inbox'[c] = SubSeq(inbox[c], n + 1, Len(inbox[c]))
  BY <1>1 DEF Take
<1>3. /\ Len(inbox[c]) \in Nat /\ Len(inbox'[c]) = Len(inbox[c]) - n
      /\ \A i \in 1 .. Len(inbox[c]) - n : inbox'[c][i] = inbox[c][n + i]
  BY <1>1, <1>2, TakenFacts
<1>4. \A i \in 1 .. Len(inbox'[c]) : inbox'[c][i].from = c
  <2> SUFFICES ASSUME NEW i \in 1 .. Len(inbox'[c]) PROVE inbox'[c][i].from = c
    OBVIOUS
  <2>1. n + i \in 1 .. Len(inbox[c]) /\ inbox'[c][i] = inbox[c][n + i]
    BY <1>3
  <2> QED
    BY <1>1, <2>1 DEF InboxOf
<1>5. inbox[c] # <<>>
  BY <1>3
<1> QED
  BY <1>1, <1>4, <1>5 DEF InboxOf

\* Whoever's segments a step leaves alone, and who is not fresh anew.
LEMMA KeepInbox ==
    ASSUME RelayInv, NEW c \in Clients,
           inbox'[c] = inbox[c], chose'[c] = chose[c],
           conn'[c] = "away" => conn[c] = "away",
           Present(c)' => Present(c) \/ conn[c] = "away",
           Fresh(c)' => Fresh(c)
    PROVE  InboxOf(c)'
<1>1. InboxOf(c)
  BY DEF RelayInv, InboxInv
<1> QED
  BY <1>1 DEF InboxOf

\* The steps of the tasks and of the window, and the loop's that receive nothing.
Elsewhere == \/ ShowClient
             \/ HelloFails \/ Register \/ Announce \/ SendNext(Loop) \/ StartTask \/ RemoveClient
             \/ \E c \in Clients : \/ BeginTask(c) \/ RelayText(c) \/ RelayLeft(c) \/ SendNext(c)
                                   \/ HideClient(c) \/ TaskDies(c)

LEMMA ElsewhereFacts ==
    ASSUME Elsewhere
    PROVE  /\ UNCHANGED client
           /\ at'.pc = "hello" => at'.pc = at.pc /\ at'.socket = at.socket
<1>1. CASE ShowClient
  BY <1>1 DEF ShowClient
<1>2. CASE HelloFails \/ Register \/ Announce
  <2>1. CASE HelloFails
    BY <2>1 DEF HelloFails, AfterFailure
  <2>2. CASE Register
    BY <2>2 DEF Register, LoopAt
  <2>3. CASE Announce
    BY <2>3 DEF Announce, LoopAt
  <2> QED
    BY <1>2, <2>1, <2>2, <2>3
<1>3. CASE StartTask \/ RemoveClient
  <2>1. CASE StartTask
    BY <2>1 DEF StartTask, LoopAt
  <2>2. CASE RemoveClient
    BY <2>2 DEF RemoveClient
  <2> QED
    BY <1>3, <2>1, <2>2
<1>4. ASSUME NEW a \in Actors, SendNext(a)
      PROVE  UNCHANGED <<client, at>>
  BY <1>4 DEF SendNext
<1>5. ASSUME NEW c \in Clients, BeginTask(c) \/ RelayText(c) \/ RelayLeft(c)
      PROVE  UNCHANGED <<client, at>>
  BY <1>5 DEF BeginTask, RelayText, RelayLeft
<1>6. ASSUME NEW c \in Clients, HideClient(c) \/ TaskDies(c)
      PROVE  UNCHANGED <<client, at>>
  BY <1>6 DEF HideClient, TaskDies
<1> QED
  BY <1>1, <1>2, <1>3, <1>4, <1>5, <1>6, ActorFacts DEF Elsewhere

LEMMA NextCases ==
    ASSUME Next
    PROVE  \/ \E c \in Clients : \/ Connect(c) \/ SayHello(c) \/ Say(c) \/ Leave(c)
                                 \/ Accept(c) \/ ReceiveText(c)
           \/ ReceiveHello \/ Elsewhere
BY DEF Next, ClientStep, LoopStep, TaskStep, Elsewhere

LEMMA InboxStep ==
    ASSUME RelayInv, Next
    PROVE  InboxInv'
<1> SUFFICES ASSUME NEW c \in Clients PROVE InboxOf(c)'
  BY DEF InboxInv
<1>1. /\ conn \in [Clients -> {"away", "queued", "open", "closed", "reset"}]
      /\ chose \in [Clients -> Chats \cup {None}]
      /\ inbox \in [Clients -> Seq(Segment)]
  BY DEF RelayInv, TypeOK
<1>2. ASSUME NEW d \in Clients, Connect(d)
      PROVE  InboxOf(c)'
  <2>1. /\ UNCHANGED <<chose, inbox, at>> /\ conn' = [conn EXCEPT ![d] = "queued"]
        /\ conn[d] = "away"
    BY <1>2 DEF Connect, server
  <2> QED
    BY <1>1, <2>1, KeepInbox DEF Present, Fresh
<1>3. ASSUME NEW d \in Clients, SayHello(d)
      PROVE  InboxOf(c)'
  <2>1. CASE d = c
    BY <1>3, <2>1, SayHelloInbox
  <2>2. CASE d # c
    <3>1. inbox'[c] = inbox[c] /\ chose'[c] = chose[c] /\ conn' = conn /\ at' = at
      BY <1>1, <1>3, <2>2 DEF SayHello, server
    <3> QED
      BY <3>1, KeepInbox DEF Present, Fresh
  <2> QED
    BY <2>1, <2>2
<1>4. ASSUME NEW d \in Clients, Say(d)
      PROVE  InboxOf(c)'
  <2>1. CASE d = c
    BY <1>4, <2>1, SayInbox
  <2>2. CASE d # c
    <3>1. inbox'[c] = inbox[c] /\ chose'[c] = chose[c] /\ conn' = conn /\ at' = at
      BY <1>1, <1>4, <2>2 DEF Say, server
    <3> QED
      BY <3>1, KeepInbox DEF Present, Fresh
  <2> QED
    BY <2>1, <2>2
<1>5. ASSUME NEW d \in Clients, Leave(d)
      PROVE  InboxOf(c)'
  <2>1. /\ conn[d] = "open" /\ UNCHANGED <<chose, at>>
        /\ conn' = [conn EXCEPT ![d] = "closed"] \/ conn' = [conn EXCEPT ![d] = "reset"]
        /\ inbox' = inbox \/ inbox' = [inbox EXCEPT ![d] = <<>>]
    BY <1>5 DEF Leave, server
  <2>2. /\ conn'[c] = conn[c] \/ (d = c /\ conn'[c] \in {"closed", "reset"})
        /\ inbox'[c] = inbox[c] \/ (d = c /\ inbox'[c] = <<>>)
    BY <1>1, <2>1
  <2>3. InboxOf(c)
    BY DEF RelayInv, InboxInv
  <2>4. CASE inbox'[c] = inbox[c]
    BY <2>1, <2>2, <2>4, KeepInbox DEF Present, Fresh
  <2>5. CASE inbox'[c] = <<>> /\ d = c
    <3>1. Len(inbox'[c]) = 0 /\ conn'[c] \in {"closed", "reset"}
      BY <1>1, <2>1, <2>5
    <3> QED
      BY <2>1, <2>3, <2>5, <3>1 DEF InboxOf, Present
  <2> QED
    BY <2>2, <2>4, <2>5
<1>6. ASSUME NEW d \in Clients, Accept(d)
      PROVE  InboxOf(c)'
  <2>1. /\ UNCHANGED <<chose, inbox>> /\ conn' = [conn EXCEPT ![d] = "open"]
        /\ conn[d] = "queued" /\ at' = [pc |-> "hello", socket |-> d]
    BY <1>6 DEF Accept
  <2> QED
    BY <1>1, <2>1, KeepInbox DEF Present, Fresh
<1>7. ASSUME NEW d \in Clients, NEW n \in 1 .. Len(inbox[d]), Take(d, n),
             UNCHANGED <<conn, chose>>, ~Fresh(d)', Fresh(c)' => Fresh(c)
      PROVE  InboxOf(c)'
  <2>1. CASE d = c
    BY <1>7, <2>1, TakeInbox
  <2>2. CASE d # c
    <3>1. inbox'[c] = inbox[c]
      BY <1>1, <1>7, <2>2 DEF Take
    <3> QED
      BY <1>7, <3>1, KeepInbox DEF Present
  <2> QED
    BY <2>1, <2>2
<1>8. ASSUME NEW d \in Clients, ReceiveText(d)
      PROVE  InboxOf(c)'
  <2>1. PICK n \in 1 .. Len(inbox[d]) : Take(d, n)
    BY <1>8 DEF ReceiveText
  <2>2. UNCHANGED <<conn, chose, at>> /\ ~Fresh(d)
    BY <1>8 DEF ReceiveText, RelayInv, StartInv
  <2>3. (Fresh(d)' <=> Fresh(d)) /\ (Fresh(c)' <=> Fresh(c))
    BY <2>2 DEF Fresh
  <2> QED
    BY <1>7, <2>1, <2>2, <2>3
<1>9. CASE ReceiveHello
  <2>1. PICK n \in 1 .. Len(inbox[at.socket]) : Take(at.socket, n)
    BY <1>9 DEF ReceiveHello
  <2>2. /\ UNCHANGED <<conn, chose>> /\ at' = [pc |-> "register", socket |-> at.socket]
        /\ at.socket \in Clients /\ conn[at.socket] \notin {"away", "queued"}
    BY <1>9 DEF ReceiveHello, LoopAt, RelayInv, LoopInv
  <2>3. ~Fresh(at.socket)' /\ (Fresh(c)' => Fresh(c))
    BY <2>2 DEF Fresh
  <2> QED
    BY <1>7, <2>1, <2>2, <2>3
<1>10. CASE Elsewhere
  <2>1. UNCHANGED <<conn, chose, inbox>> /\ (Fresh(c)' => Fresh(c))
    BY <1>10, ElsewhereFacts DEF client, Fresh
  <2> QED
    BY <2>1, KeepInbox DEF Present
<1> QED
  BY <1>2, <1>3, <1>4, <1>5, <1>6, <1>8, <1>9, <1>10, NextCases

-----------------------------------------------------------------------------
\* The loop's variables, the ids and the tasks.

LEMMA LoopKept ==
    ASSUME RelayInv, Next
    PROVE  LoopInv'
<1>1. /\ conn \in [Clients -> {"away", "queued", "open", "closed", "reset"}]
      /\ chose \in [Clients -> Chats \cup {None}] /\ None \notin Chats
      /\ chatRooms \in [Chats -> Ids \cup {0}] /\ LoopInv
  BY ActorFacts DEF RelayInv, TypeOK
<1>2. ASSUME NEW d \in Clients, Connect(d) \/ SayHello(d) \/ Say(d) \/ Leave(d)
      PROVE  LoopInv'
  <2>1. UNCHANGED <<at, local, chatRooms>>
    BY <1>2 DEF Connect, SayHello, Say, Leave, server
  <2>2. ASSUME NEW c \in Clients, conn[c] \notin {"away", "queued"}
        PROVE  conn'[c] \notin {"away", "queued"}
    BY <1>1, <1>2, <2>2 DEF Connect, SayHello, Say, Leave
  <2>3. ASSUME NEW c \in Clients, chose[c] \in Chats
        PROVE  chose'[c] = chose[c]
    BY <1>1, <1>2, <2>3 DEF Connect, SayHello, Say, Leave
  <2> QED
    BY <1>1, <2>1, <2>2, <2>3 DEF LoopInv, Greeting
<1>3. ASSUME NEW d \in Clients, Accept(d)
      PROVE  LoopInv'
  BY <1>1, <1>3 DEF Accept, LoopInv, Greeting
<1>4. ASSUME NEW d \in Clients, ReceiveText(d)
      PROVE  LoopInv'
  BY <1>1, <1>4 DEF ReceiveText, LoopInv, Greeting
<1>5. CASE ReceiveHello
  <2> DEFINE c == at.socket
  <2>1. PICK n \in 1 .. Len(inbox[c]) :
           local' = [chat |-> Head(inbox[c]).hello, name |-> Received(c, n), id |-> local.id]
    BY <1>5 DEF ReceiveHello
  <2>2. /\ c \in Clients /\ UNCHANGED <<conn, chose, chatRooms>>
        /\ conn[c] \notin {"away", "queued"} /\ at.pc = "hello"
        /\ at' = [pc |-> "register", socket |-> c]
    BY <1>1, <1>5 DEF ReceiveHello, LoopAt, LoopInv
  <2>3. inbox[c] \in Seq(Segment) /\ InboxOf(c) /\ Fresh(c) /\ n \in 1 .. Len(inbox[c])
    BY <2>2 DEF RelayInv, TypeOK, InboxInv, Fresh
  <2> HIDE DEF c
  <2>4. /\ Len(inbox[c]) \in Nat /\ inbox[c] # <<>> /\ 1 \in 1 .. Len(inbox[c])
        /\ Head(inbox[c]) = inbox[c][1]
    <3>1. Len(inbox[c]) \in Nat
      BY <2>3, LenProperties
    <3> QED
      BY <3>1
  <2>5. Received(c, n) # <<>> /\ Received(c, n)[1] = inbox[c][1]
    <3>1. SubSeq(inbox[c], 1, n) # <<>> /\ SubSeq(inbox[c], 1, n)[1] = inbox[c][1]
      BY <2>3, FirstTaken
    <3> QED
      BY <3>1 DEF Received
  <2>6. chose[c] \in Chats /\ inbox[c][1].hello = chose[c] /\ inbox[c][1].from = c
    BY <1>1, <2>2, <2>3, <2>4 DEF InboxOf
  <2>7. local'.chat = chose[c] /\ local'.name # <<>> /\ local'.name[1].from = c
    BY <2>1, <2>4, <2>5, <2>6
  <2> QED
    BY <2>2, <2>6, <2>7 DEF LoopInv, Greeting
<1>6. CASE Register
  <2> DEFINE id == IF chatRooms[local.chat] = 0 THEN NewId ELSE chatRooms[local.chat]
  <2>1. /\ chatRooms' = [chatRooms EXCEPT ![local.chat] = id]
        /\ local' = [chat |-> local.chat, name |-> local.name, id |-> id]
        /\ at' = [pc |-> "announce", socket |-> at.socket] /\ UNCHANGED <<conn, chose>>
        /\ at.pc = "register"
    BY <1>6 DEF Register, LoopAt, client
  <2>2. local.chat \in Chats
    BY <1>1, <2>1 DEF LoopInv, Greeting
  <2>3. id \in Ids
    BY <1>1, <2>2, NewIdFacts DEF RelayInv
  <2> HIDE DEF id
  <2>4. chatRooms'[local.chat] = id
    BY <1>1, <2>1, <2>2
  <2> QED
    BY <1>1, <2>1, <2>3, <2>4 DEF LoopInv, Greeting
<1>7. CASE HelloFails \/ RemoveClient
  BY <1>7 DEF HelloFails, AfterFailure, RemoveClient, LoopInv, Greeting
<1>8. CASE Announce \/ StartTask
  <2>1. /\ UNCHANGED <<conn, chose, local, chatRooms>> /\ at.pc \in {"announce", "start"}
        /\ \/ at' = [pc |-> "accept", socket |-> None]
           \/ at'.pc \in {"start", "remove"} /\ at'.socket = at.socket
    BY <1>8 DEF Announce, StartTask, LoopAt, client
  <2> QED
    BY <1>1, <2>1 DEF LoopInv, Greeting
<1>9. CASE ShowClient
  BY <1>1, <1>9 DEF ShowClient, client, LoopInv, Greeting
<1>10. ASSUME NEW a \in Actors, SendNext(a)
       PROVE  LoopInv'
  BY <1>1, <1>10 DEF SendNext, client, LoopInv, Greeting
<1>11. ASSUME NEW c \in Clients, \/ BeginTask(c) \/ RelayText(c) \/ RelayLeft(c)
                                 \/ HideClient(c) \/ TaskDies(c)
       PROVE  LoopInv'
  <2>1. UNCHANGED <<conn, chose, at, local, chatRooms>>
    BY <1>11 DEF BeginTask, RelayText, RelayLeft, HideClient, TaskDies, client
  <2> QED
    BY <1>1, <2>1 DEF LoopInv, Greeting
<1> QED
  BY <1>2, <1>3, <1>4, <1>5, <1>6, <1>7, <1>8, <1>9, <1>10, <1>11, NextCases, ActorFacts
     DEF Elsewhere

\* Only Register gives out ids.
LEMMA ChatRoomsKept ==
    ASSUME Next, ~Register
    PROVE  UNCHANGED chatRooms
<1>1. ASSUME NEW c \in Clients, ClientStep(c)
      PROVE  UNCHANGED chatRooms
  BY <1>1 DEF ClientStep, Connect, SayHello, Say, Leave, server
<1>2. ASSUME NEW c \in Clients, TaskStep(c)
      PROVE  UNCHANGED chatRooms
  BY <1>2 DEF TaskStep, BeginTask, ReceiveText, RelayText, RelayLeft, SendNext, HideClient,
              TaskDies
<1>3. ASSUME LoopStep
      PROVE  UNCHANGED chatRooms
  BY <1>3 DEF LoopStep, Accept, ReceiveHello, HelloFails, Announce, SendNext, StartTask,
              RemoveClient
<1>4. CASE ShowClient
  BY <1>4 DEF ShowClient
<1> QED
  BY <1>1, <1>2, <1>3, <1>4 DEF Next

\* What Register does.
LEMMA RegisterFacts ==
    ASSUME RelayInv, Register
    PROVE  \E id \in Ids :
              /\ local.chat \in Chats /\ at.socket \in Clients /\ chose[at.socket] = local.chat
              /\ chatRooms' = [chatRooms EXCEPT ![local.chat] = id]
              /\ listed' = [listed EXCEPT ![id] =
                               Append(@, [name |-> local.name, socket |-> at.socket])]
              /\ local' = [chat |-> local.chat, name |-> local.name, id |-> id]
              /\ \/ chatRooms[local.chat] = id
                 \/ /\ chatRooms[local.chat] = 0 /\ id = Cardinality(Named) + 1
                    /\ \A other \in Chats : chatRooms[other] # id
<1> DEFINE id == IF chatRooms[local.chat] = 0 THEN NewId ELSE chatRooms[local.chat]
<1>1. local.chat \in Chats /\ at.socket \in Clients /\ chose[at.socket] = local.chat
  BY DEF Register, RelayInv, LoopInv, Greeting
<1>2. /\ chatRooms' = [chatRooms EXCEPT ![local.chat] = id]
      /\ listed' = [listed EXCEPT ![id] = Append(@, [name |-> local.name, socket |-> at.socket])]
      /\ local' = [chat |-> local.chat, name |-> local.name, id |-> id]
  BY DEF Register
<1>3. chatRooms[local.chat] \in Ids \cup {0}
  BY <1>1 DEF RelayInv, TypeOK
<1>4. /\ id \in Ids
      /\ \/ chatRooms[local.chat] = id
         \/ /\ chatRooms[local.chat] = 0 /\ id = Cardinality(Named) + 1
            /\ \A other \in Chats : chatRooms[other] # id
  BY <1>1, <1>3, NewIdFacts DEF RelayInv
<1> HIDE DEF id
<1> QED
  BY <1>1, <1>2, <1>4

LEMMA IdsKept ==
    ASSUME RelayInv, Next
    PROVE  IdsInv'
<1>1. chatRooms \in [Chats -> Ids \cup {0}] /\ IdsInv
  BY DEF RelayInv, TypeOK
<1>2. CASE UNCHANGED chatRooms
  BY <1>1, <1>2 DEF IdsInv, Named
<1>3. CASE Register
  <2>1. PICK id \in Ids :
           /\ local.chat \in Chats
           /\ chatRooms' = [chatRooms EXCEPT ![local.chat] = id]
           /\ \/ chatRooms[local.chat] = id
              \/ /\ chatRooms[local.chat] = 0 /\ id = Cardinality(Named) + 1
                 /\ \A other \in Chats : chatRooms[other] # id
    BY <1>3, RegisterFacts
  <2>2. CASE chatRooms[local.chat] = id
    <3>1. UNCHANGED chatRooms
      BY <1>1, <2>1, <2>2
    <3> QED
      BY <1>2, <3>1
  <2>3. CASE /\ chatRooms[local.chat] = 0 /\ id = Cardinality(Named) + 1
             /\ \A other \in Chats : chatRooms[other] # id
    <3>1. IsFiniteSet(Named) /\ local.chat \notin Named /\ Cardinality(Named) \in Nat
      BY <2>3, RelayAssumption, FS_Subset, FS_CardinalityType DEF Named
    <3>2. id # 0
      BY <2>3, <3>1
    <3>3. Named' = Named \cup {local.chat}
      BY <1>1, <2>1, <3>2 DEF Named
    <3>4. Cardinality(Named') = Cardinality(Named) + 1
      BY <3>1, <3>3, FS_AddElement
    <3>5. ASSUME NEW chat \in Chats
          PROVE  chatRooms'[chat] <= Cardinality(Named')
      <4>1. chatRooms[chat] <= Cardinality(Named) /\ chatRooms[chat] \in Nat
        BY <1>1, RelayAssumption, FS_CardinalityType DEF IdsInv, Ids
      <4>2. chatRooms'[chat] = chatRooms[chat] \/ chatRooms'[chat] = id
        BY <1>1, <2>1
      <4> QED
        BY <2>3, <3>1, <3>4, <4>1, <4>2
    <3>6. ASSUME NEW chat \in Named', NEW other \in Named', chatRooms'[chat] = chatRooms'[other]
          PROVE  chat = other
      BY <1>1, <2>1, <2>3, <3>3, <3>6 DEF IdsInv, Named
    <3> QED
      BY <3>5, <3>6 DEF IdsInv
  <2> QED
    BY <2>1, <2>2, <2>3
<1> QED
  BY <1>2, <1>3, ChatRoomsKept

\* Only Register and RemoveClient change the lists, and only SayHello what is chosen.
LEMMA ListsKept ==
    ASSUME Next, ~Register, ~RemoveClient
    PROVE  UNCHANGED listed
<1>1. ASSUME NEW c \in Clients, ClientStep(c)
      PROVE  UNCHANGED listed
  BY <1>1 DEF ClientStep, Connect, SayHello, Say, Leave, server
<1>2. ASSUME NEW c \in Clients, TaskStep(c)
      PROVE  UNCHANGED listed
  BY <1>2 DEF TaskStep, BeginTask, ReceiveText, RelayText, RelayLeft, SendNext, HideClient,
              TaskDies
<1>3. ASSUME LoopStep
      PROVE  UNCHANGED listed
  BY <1>3 DEF LoopStep, Accept, ReceiveHello, HelloFails, Announce, SendNext, StartTask
<1>4. CASE ShowClient
  BY <1>4 DEF ShowClient
<1> QED
  BY <1>1, <1>2, <1>3, <1>4 DEF Next

LEMMA ChosenStays ==
    ASSUME RelayInv, Next, NEW c \in Clients, chose[c] \in Chats
    PROVE  chose'[c] = chose[c]
<1>1. chose \in [Clients -> Chats \cup {None}] /\ None \notin Chats
  BY ActorFacts DEF RelayInv, TypeOK
<1>2. ASSUME NEW d \in Clients, SayHello(d)
      PROVE  chose'[c] = chose[c]
  BY <1>1, <1>2 DEF SayHello
<1>3. ASSUME NEW d \in Clients, Connect(d) \/ Say(d) \/ Leave(d) \/ Accept(d) \/ ReceiveText(d)
      PROVE  chose'[c] = chose[c]
  BY <1>3 DEF Connect, Say, Leave, Accept, ReceiveText
<1>4. CASE ReceiveHello
  BY <1>4 DEF ReceiveHello
<1> QED
  BY <1>2, <1>3, <1>4, NextCases, ElsewhereFacts DEF client

LEMMA ListedKept ==
    ASSUME RelayInv, Next
    PROVE  ListedInv'
<1>1. /\ listed \in [Ids -> Seq(Entry)] /\ chatRooms \in [Chats -> Ids \cup {0}] /\ ListedInv
      /\ 0 \notin Ids
  BY DEF RelayInv, TypeOK, Ids
<1>2. \A id \in Ids : \A i \in 1 .. Len(listed[id]) : listed[id][i].socket \in Clients
  <2> SUFFICES ASSUME NEW id \in Ids, NEW i \in 1 .. Len(listed[id])
               PROVE  listed[id][i].socket \in Clients
    OBVIOUS
  <2>1. listed[id][i] \in Entry
    BY <1>1, ElementOfSeq
  <2> QED
    BY <2>1 DEF Entry
\* An entry that was listed is in its room still.
<1>3. ASSUME NEW id \in Ids, NEW i \in 1 .. Len(listed[id])
      PROVE  /\ chose'[listed[id][i].socket] \in Chats
             /\ chatRooms'[chose'[listed[id][i].socket]] = id
  <2> DEFINE c == listed[id][i].socket
  <2>1. c \in Clients /\ chose[c] \in Chats /\ chatRooms[chose[c]] = id
    BY <1>1, <1>2 DEF ListedInv
  <2> HIDE DEF c
  <2>2. chose'[c] = chose[c]
    BY <2>1, ChosenStays
  <2>3. chatRooms'[chose[c]] = chatRooms[chose[c]]
    <3>1. CASE Register
      <4>1. PICK new \in Ids :
               /\ local.chat \in Chats
               /\ chatRooms' = [chatRooms EXCEPT ![local.chat] = new]
               /\ chatRooms[local.chat] = new \/ chatRooms[local.chat] = 0
        BY <3>1, RegisterFacts
      <4> QED
        BY <1>1, <2>1, <4>1
    <3>2. CASE ~Register
      BY <3>2, ChatRoomsKept
    <3> QED
      BY <3>1, <3>2
  <2> QED
    BY <2>1, <2>2, <2>3 DEF c
<1>4. CASE UNCHANGED listed
  BY <1>3, <1>4 DEF ListedInv
<1>5. CASE Register
  <2> DEFINE entry == [name |-> local.name, socket |-> at.socket]
  <2>1. PICK new \in Ids :
           /\ local.chat \in Chats /\ at.socket \in Clients /\ chose[at.socket] = local.chat
           /\ chatRooms' = [chatRooms EXCEPT ![local.chat] = new]
           /\ listed' = [listed EXCEPT ![new] = Append(@, entry)]
    BY <1>5, RegisterFacts
  <2>2. entry \in Entry /\ entry.socket = at.socket
    BY <2>1 DEF Entry, RelayInv, TypeOK
  <2> HIDE DEF entry
  <2>3. /\ listed'[new] = Append(listed[new], entry)
        /\ \A id \in Ids \ {new} : listed'[id] = listed[id]
        /\ chatRooms'[local.chat] = new
    BY <1>1, <2>1
  <2>4. /\ Len(listed[new]) \in Nat /\ Len(listed'[new]) = Len(listed[new]) + 1
        /\ \A i \in 1 .. Len(listed[new]) : listed'[new][i] = listed[new][i]
        /\ listed'[new][Len(listed[new]) + 1] = entry
    BY <1>1, <2>2, <2>3, AppendFacts
  <2>5. chose'[at.socket] = local.chat
    BY <2>1, ChosenStays
  <2> SUFFICES ASSUME NEW id \in Ids, NEW i \in 1 .. Len(listed'[id])
               PROVE  /\ chose'[listed'[id][i].socket] \in Chats
                      /\ chatRooms'[chose'[listed'[id][i].socket]] = id
    BY DEF ListedInv
  <2>6. CASE id # new
    BY <1>3, <2>3, <2>6
  <2>7. CASE id = new /\ i \in 1 .. Len(listed[new])
    BY <1>3, <2>4, <2>7
  <2>8. CASE id = new /\ i = Len(listed[new]) + 1
    BY <2>1, <2>2, <2>3, <2>4, <2>5, <2>8
  <2>9. id # new \/ i \in 1 .. Len(listed[new]) \/ i = Len(listed[new]) + 1
    BY <2>4
  <2> QED
    BY <2>6, <2>7, <2>8, <2>9
<1>6. CASE RemoveClient
  <2>1. local.id \in Ids
    BY <1>6 DEF RemoveClient, RelayInv, LoopInv, Greeting
  <2>2. PICK n \in DOMAIN listed[local.id] :
           listed' = [listed EXCEPT ![local.id] = RemoveAt(listed[local.id], n)]
    BY <1>6 DEF RemoveClient
  <2>3. n \in 1 .. Len(listed[local.id])
    BY <1>1, <2>1, LenProperties
  <2>4. \A i \in 1 .. Len(RemoveAt(listed[local.id], n)) : \E j \in 1 .. Len(listed[local.id]) :
            RemoveAt(listed[local.id], n)[i] = listed[local.id][j]
    <3>1. PICK list \in Seq(Entry) : list = listed[local.id]
      BY <1>1, <2>1
    <3>2. n \in 1 .. Len(list)
      BY <2>3, <3>1
    <3>3. \A i \in 1 .. Len(RemoveAt(list, n)) : \E j \in 1 .. Len(list) :
              RemoveAt(list, n)[i] = list[j]
      BY <3>2, RemovedFacts
    <3> QED
      BY <3>1, <3>3
  <2>5. /\ listed'[local.id] = RemoveAt(listed[local.id], n)
        /\ \A id \in Ids \ {local.id} : listed'[id] = listed[id]
    BY <1>1, <2>1, <2>2
  <2>6. ASSUME NEW id \in Ids, NEW i \in 1 .. Len(listed'[id])
        PROVE  \E j \in 1 .. Len(listed[id]) : listed'[id][i] = listed[id][j]
    <3>1. CASE id = local.id
      BY <2>4, <2>5, <3>1
    <3>2. CASE id # local.id
      BY <2>5, <3>2
    <3> QED
      BY <3>1, <3>2
  <2> QED
    BY <1>3, <2>6 DEF ListedInv
<1> QED
  BY <1>4, <1>5, <1>6, ListsKept

\* The id of the loop and the tasks change together in no step but these.
LEMMA StartKept ==
    ASSUME RelayInv, Next
    PROVE  StartInv'
<1>1. /\ conn \in [Clients -> {"away", "queued", "open", "closed", "reset"}]
      /\ task \in [Clients -> [pc : {"none", "ready", "receive", "relay", "left", "done"},
                               id : Ids \cup {0}, name : Seq(Segment), text : Seq(Segment)]]
      /\ StartInv
  BY DEF RelayInv, TypeOK
<1>2. ASSUME NEW c \in Clients
      PROVE  /\ task[c].pc = "ready" => local.id \in Ids
             /\ task[c].pc \notin {"none", "ready"} => task[c].id \in Ids
             /\ task[c].pc # "none" => ~Fresh(c)
  BY <1>1 DEF StartInv
\* Who has a task does not become fresh.
<1>3. ASSUME NEW c \in Clients, ~Fresh(c)
      PROVE  ~Fresh(c)'
  <2>1. conn[c] \notin {"away", "queued"} /\ ~(at.pc = "hello" /\ at.socket = c)
    BY <1>3 DEF Fresh
  <2>2. ASSUME NEW d \in Clients, Connect(d) \/ SayHello(d) \/ Say(d) \/ Leave(d)
        PROVE  ~Fresh(c)'
    BY <1>1, <2>1, <2>2 DEF Connect, SayHello, Say, Leave, server, Fresh
  <2>3. ASSUME NEW d \in Clients, Accept(d)
        PROVE  ~Fresh(c)'
    BY <1>1, <2>1, <2>3 DEF Accept, Fresh
  <2>4. ASSUME NEW d \in Clients, ReceiveText(d)
        PROVE  ~Fresh(c)'
    BY <2>1, <2>4 DEF ReceiveText, Fresh
  <2>5. CASE ReceiveHello
    BY <2>1, <2>5 DEF ReceiveHello, LoopAt, Fresh
  <2>6. CASE Elsewhere
    BY <2>1, <2>6, ElsewhereFacts DEF client, Fresh
  <2> QED
    BY <2>2, <2>3, <2>4, <2>5, <2>6, NextCases
<1>4. ASSUME local.id \in Ids
      PROVE  local'.id \in Ids
  <2>1. CASE Register
    <3>1. PICK id \in Ids : local' = [chat |-> local.chat, name |-> local.name, id |-> id]
      BY <2>1, RegisterFacts
    <3> QED
      BY <3>1
  <2>2. CASE ReceiveHello \/ HelloFails
    BY <1>4, <2>2 DEF ReceiveHello, HelloFails
  <2>3. ASSUME NEW c \in Clients, ClientStep(c)
        PROVE  UNCHANGED local
    BY <2>3 DEF ClientStep, Connect, SayHello, Say, Leave, server
  <2>4. ASSUME NEW c \in Clients, TaskStep(c)
        PROVE  UNCHANGED local
    BY <2>4 DEF TaskStep, BeginTask, ReceiveText, RelayText, RelayLeft, SendNext, HideClient,
                TaskDies
  <2>5. ASSUME LoopStep, ~Register, ~ReceiveHello, ~HelloFails
        PROVE  UNCHANGED local
    <3>1. ASSUME NEW c \in Clients, Accept(c)
          PROVE  UNCHANGED local
      BY <3>1 DEF Accept
    <3>2. CASE Announce \/ SendNext(Loop)
      BY <3>2 DEF Announce, SendNext
    <3>3. CASE StartTask
      BY <3>3 DEF StartTask
    <3>4. CASE RemoveClient
      BY <3>4 DEF RemoveClient
    <3> QED
      BY <2>5, <3>1, <3>2, <3>3, <3>4 DEF LoopStep
  <2>6. CASE ShowClient
    BY <1>4, <2>6 DEF ShowClient
  <2> QED
    BY <1>4, <2>1, <2>2, <2>3, <2>4, <2>5, <2>6 DEF Next
<1>5. CASE UNCHANGED task
  BY <1>2, <1>3, <1>4, <1>5 DEF StartInv
\* A task goes on.
<1>6. ASSUME NEW d \in Clients, NEW step \in {"receive", "relay", "left", "done"},
             NEW text, TaskAt(d, step, text), task[d].pc \notin {"none", "ready"}
      PROVE  StartInv'
  <2> SUFFICES ASSUME NEW c \in Clients
               PROVE  /\ task'[c].pc # "none" => ~Fresh(c)'
                      /\ task'[c].pc = "ready" => local'.id \in Ids
                      /\ task'[c].pc \notin {"none", "ready"} => task'[c].id \in Ids
    BY DEF StartInv
  <2>1. CASE c = d
    <3>1. task'[c].pc = step /\ task'[c].id = task[c].id
      BY <1>1, <1>6, <2>1 DEF TaskAt
    <3> QED
      BY <1>2, <1>3, <1>6, <2>1, <3>1
  <2>2. CASE c # d
    <3>1. task'[c] = task[c]
      BY <1>1, <1>6, <2>2 DEF TaskAt
    <3> QED
      BY <1>2, <1>3, <1>4, <3>1
  <2> QED
    BY <2>1, <2>2
<1>7. ASSUME NEW d \in Clients, \/ ReceiveText(d) \/ RelayText(d) \/ RelayLeft(d)
                                \/ HideClient(d) \/ TaskDies(d)
      PROVE  StartInv'
  <2>1. \E step \in {"receive", "relay", "left", "done"} : \E text :
            TaskAt(d, step, text) /\ task[d].pc \notin {"none", "ready"}
    BY <1>7 DEF ReceiveText, RelayText, RelayLeft, HideClient, TaskDies
  <2> QED
    BY <1>6, <2>1
<1>8. ASSUME NEW d \in Clients, BeginTask(d)
      PROVE  StartInv'
  <2> SUFFICES ASSUME NEW c \in Clients
               PROVE  /\ task'[c].pc # "none" => ~Fresh(c)'
                      /\ task'[c].pc = "ready" => local'.id \in Ids
                      /\ task'[c].pc \notin {"none", "ready"} => task'[c].id \in Ids
    BY DEF StartInv
  <2>1. CASE c = d
    <3>1. task'[c].pc = "receive" /\ task'[c].id = local.id /\ task[c].pc = "ready"
      BY <1>1, <1>8, <2>1 DEF BeginTask
    <3> QED
      BY <1>2, <1>3, <3>1
  <2>2. CASE c # d
    <3>1. task'[c] = task[c]
      BY <1>1, <1>8, <2>2 DEF BeginTask
    <3> QED
      BY <1>2, <1>3, <1>4, <3>1
  <2> QED
    BY <2>1, <2>2
<1>9. CASE StartTask
  <2>1. /\ TaskAt(at.socket, "ready", <<>>) /\ at.pc = "start" /\ at.socket \in Clients
        /\ conn[at.socket] \notin {"away", "queued"} /\ local.id \in Ids
    BY <1>9 DEF StartTask, RelayInv, LoopInv, Greeting
  <2>2. ~Fresh(at.socket)
    BY <2>1 DEF Fresh
  <2> SUFFICES ASSUME NEW c \in Clients
               PROVE  /\ task'[c].pc # "none" => ~Fresh(c)'
                      /\ task'[c].pc = "ready" => local'.id \in Ids
                      /\ task'[c].pc \notin {"none", "ready"} => task'[c].id \in Ids
    BY DEF StartInv
  <2>3. CASE c = at.socket
    <3>1. task'[c].pc = "ready"
      BY <1>1, <2>1, <2>3 DEF TaskAt
    <3> QED
      BY <1>3, <1>4, <2>1, <2>2, <2>3, <3>1
  <2>4. CASE c # at.socket
    <3>1. task'[c] = task[c]
      BY <1>1, <2>1, <2>4 DEF TaskAt
    <3> QED
      BY <1>2, <1>3, <1>4, <3>1
  <2> QED
    BY <2>3, <2>4
<1>10. ASSUME NEW d \in Clients, ClientStep(d) \/ Accept(d)
       PROVE  UNCHANGED task
  BY <1>10 DEF ClientStep, Connect, SayHello, Say, Leave, server, Accept
<1>11. CASE ReceiveHello \/ HelloFails \/ Register \/ Announce \/ RemoveClient \/ ShowClient
  BY <1>5, <1>11 DEF ReceiveHello, HelloFails, Register, Announce, RemoveClient, ShowClient
<1>12. ASSUME NEW a \in Actors, SendNext(a)
       PROVE  UNCHANGED task
  BY <1>12 DEF SendNext
<1> QED
  BY <1>5, <1>7, <1>8, <1>9, <1>10, <1>11, <1>12, ActorFacts DEF Next, LoopStep, TaskStep

-----------------------------------------------------------------------------
\* The invariant that holds whenever tasks start.

LEMMA RelayInit == Init => RelayInv
<1> SUFFICES ASSUME Init PROVE RelayInv
  OBVIOUS
<1> USE DEF Init
<1>1. /\ NoBroadcast \in [message : Message \cup {NoMessage}, todo : Seq(Clients)]
      /\ NoBroadcast.message = NoMessage /\ NoBroadcast.todo = <<>>
  BY DEF NoBroadcast
<1>2. TypeOK
  <2>1. /\ <<>> \in Seq(Segment) /\ <<>> \in Seq(Entry) /\ <<>> \in Seq(Message)
        /\ 0 \in 0 .. MaxTexts
    BY RelayAssumption
  <2>2. \A a \in Actors : Idle(a) <=> lock # a
    BY <1>1, ActorFacts DEF Idle
  <2> QED
    BY <1>1, <2>1, <2>2 DEF TypeOK
<1>3. InboxInv
  <2>1. Len(<<>>) = 0
    OBVIOUS
  <2> QED
    BY <2>1 DEF InboxInv, InboxOf, Present
<1>4. LoopInv
  BY DEF LoopInv, Greeting
<1>5. IdsInv
  <2>1. Named = {}
    BY DEF Named
  <2>2. Cardinality(Named) = 0
    BY <2>1, FS_EmptySet
  <2> QED
    BY <2>1, <2>2 DEF IdsInv
<1>6. ListedInv
  <2>1. Len(<<>>) = 0
    OBVIOUS
  <2> QED
    BY <2>1 DEF ListedInv
<1>7. StartInv
  BY DEF StartInv
<1> QED
  BY <1>2, <1>3, <1>4, <1>5, <1>6, <1>7 DEF RelayInv

LEMMA RelayStep == RelayInv /\ [Next]_vars => RelayInv'
<1> SUFFICES ASSUME RelayInv, [Next]_vars PROVE RelayInv'
  OBVIOUS
<1>1. CASE Next
  BY <1>1, TypeStep, InboxStep, LoopKept, IdsKept, ListedKept, StartKept DEF RelayInv
<1>2. CASE UNCHANGED vars
  <2> USE <1>2 DEF vars, RelayInv
  <2>1. TypeOK'
    BY DEF TypeOK, Idle
  <2>2. InboxInv' /\ StartInv'
    BY DEF InboxInv, InboxOf, Fresh, Present, StartInv
  <2>3. LoopInv' /\ IdsInv' /\ ListedInv'
    BY DEF LoopInv, Greeting, IdsInv, Named, ListedInv
  <2> QED
    BY <2>1, <2>2, <2>3
<1> QED
  BY <1>1, <1>2

THEOREM RelayInvariant == Spec => []RelayInv
BY RelayInit, RelayStep, PTL DEF Spec

\* Every variable keeps its type, and a broadcast is under way only for the actor that
\* holds the lock (BroadCast), whenever the tasks start.
THEOREM RelayTypeCorrect == Spec => []TypeOK
<1>1. RelayInv => TypeOK
  BY DEF RelayInv
<1> QED
  BY <1>1, RelayInvariant, PTL

\* The rooms are kept apart: a room's list holds only clients that asked for it
\* (ConnectClients gives every new chat an id of its own).
RoomsApart ==
    \A chat \in Chats : chatRooms[chat] # 0 =>
        \A i \in DOMAIN listed[chatRooms[chat]] :
            chose[listed[chatRooms[chat]][i].socket] = chat

\* The rooms are apart whenever the tasks start (ConnectClients).
THEOREM RoomsApartHolds == Spec => []RoomsApart
<1>1. ASSUME RelayInv
      PROVE  RoomsApart
  <2> SUFFICES ASSUME NEW chat \in Chats, chatRooms[chat] # 0,
                      NEW i \in DOMAIN listed[chatRooms[chat]]
               PROVE  chose[listed[chatRooms[chat]][i].socket] = chat
    BY DEF RoomsApart
  <2> DEFINE id == chatRooms[chat]
             c == listed[id][i].socket
  <2>1. id \in Ids /\ listed[id] \in Seq(Entry)
    BY <1>1 DEF RelayInv, TypeOK
  <2>2. i \in 1 .. Len(listed[id])
    BY <2>1, LenProperties
  <2>3. chose[c] \in Chats /\ chatRooms[chose[c]] = id
    BY <1>1, <2>1, <2>2 DEF RelayInv, ListedInv
  <2> HIDE DEF c
  <2>4. chose[c] = chat
    BY <1>1, <2>3 DEF RelayInv, IdsInv, Named
  <2> QED
    BY <2>4 DEF c
<1> QED
  BY <1>1, RelayInvariant, PTL
=============================================================================
