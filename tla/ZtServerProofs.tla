--------------------------- MODULE ZtServerProofs ---------------------------
(***************************************************************************)
(* Proofs about ZtServer, for any number of clients and any limits.        *)
(* ServerInv is inductive.  Beside the properties it says that no client   *)
(* has two places (descriptors, or turns in the accept queue), and that an *)
(* event of the batch is still about something to read, which holds        *)
(* because only the handler of that very descriptor takes it away, and     *)
(* that descriptor has no other event in the batch.                        *)
(***************************************************************************)
EXTENDS ZtServer, SequenceTheorems, TLAPS

\* No client is in two places, and one that is away is in none.
Placed ==
    /\ \A fd \in Open : peer[owner[fd]] # "away"
    /\ \A i \in DOMAIN backlog : peer[backlog[i]] # "away"
    /\ \A fd, g \in Open : owner[fd] = owner[g] => fd = g
    /\ \A i, j \in DOMAIN backlog : backlog[i] = backlog[j] => i = j
    /\ \A fd \in Open, i \in DOMAIN backlog : owner[fd] # backlog[i]

\* What the events of the batch are about.
BatchKnown ==
    \A e \in batch :
        \/ e = ListenerEvent /\ backlog # <<>>
        \/ e.fd \in Open /\ e.client = owner[e.fd] /\ Readable(e.client)

\* The descriptor of the request in hand has no event left in the batch.
ServingApart == \A r \in serving, e \in batch : e.fd # r.fd

ServerInv == /\ TypeOK
             /\ Placed
             /\ BatchKnown
             /\ ServingApart
             /\ TableExact
             /\ CtxListsOpen

-----------------------------------------------------------------------------
\* The listener is no client descriptor.
LEMMA FdFacts == /\ Fds \subseteq Nat
                 /\ Listener \notin Fds
                 /\ ListenerEvent.fd = Listener
                 /\ ListenerEvent \in [fd : Fds \cup {Listener}, client : Clients \cup {None}]
BY ServerAssumption DEF Fds, Listener, ListenerEvent

\* Reading takes the event of its descriptor.
LEMMA ReadTakes ==
    ASSUME NEW fd, Read(fd)
    PROVE  /\ \E e \in batch : e.fd = fd /\ batch' = batch \ {e}
           /\ UNCHANGED <<alive, backlog, passed, nodes>>
BY DEF Read

\* What reading does: the descriptor is closed, or its client's request is in hand.
LEMMA ReadCases ==
    ASSUME TypeOK, NEW fd \in Fds, Read(fd)
    PROVE  \/ /\ Close({fd}) /\ clientFd' = ClearFd(fd) /\ serving' = {}
              /\ owner[fd] = None \/ inbox[owner[fd]] = <<>>
           \/ /\ owner[fd] \in Clients /\ inbox[owner[fd]] # <<>>
              /\ serving' = {[fd |-> fd, seg |-> Head(inbox[owner[fd]])]}
              /\ inbox' = [inbox EXCEPT ![owner[fd]] = Rest(owner[fd])]
              /\ UNCHANGED <<peer, tcp, owner, clientFd>>
BY DEF TypeOK, Read, ClosedAfter

\* What serving does: the descriptor is closed, or only its socket's state changes.
LEMMA ServeCases ==
    ASSUME TypeOK, Serve
    PROVE  /\ alive' \in BOOLEAN /\ serving' = {}
           /\ UNCHANGED <<backlog, batch, passed, nodes>>
           /\ \/ \E r \in serving : /\ r.fd \in Fds /\ r.seg = "malformed"
                                   /\ Close({r.fd}) /\ clientFd' = ClearFd(r.fd)
              \/ /\ UNCHANGED <<peer, inbox, owner, clientFd>>
                 /\ tcp' \in [Clients -> {"fresh", "answered", "reset", "broken"}]
<1>1. PICK r \in serving : IF Killed(r) THEN Die ELSE Finish(r)
  BY DEF Serve
<1>2. r.fd \in Fds
  BY DEF TypeOK
<1>3. CASE Killed(r)
  BY <1>1, <1>3 DEF Die, TypeOK
<1>4. CASE ~Killed(r) /\ Fails(r.seg)
  BY <1>1, <1>2, <1>4 DEF Finish, Fails, ClosedAfter, TypeOK
<1>5. CASE ~Killed(r) /\ ~Fails(r.seg)
  <2> DEFINE c == owner[r.fd]
  <2>1. PICK after \in (IF Answered(r.seg) THEN Written(c) ELSE {tcp[c]}) :
            tcp' = [tcp EXCEPT ![c] = after]
    BY <1>1, <1>5 DEF Finish
  <2>2. ASSUME c \in Clients
        PROVE  after \in {"fresh", "answered", "reset", "broken"}
    BY <2>1, <2>2 DEF Written, TypeOK
  <2>3. tcp' \in [Clients -> {"fresh", "answered", "reset", "broken"}]
    <3> HIDE DEF c
    <3> QED
      BY <2>1, <2>2 DEF TypeOK
  <2> QED
    BY <1>1, <1>5, <2>3 DEF Finish, TypeOK
<1> QED
  BY <1>3, <1>4, <1>5

LEMMA InitServer == Init => ServerInv
BY ServerAssumption DEF Init, ServerInv, TypeOK, Placed, BatchKnown, ServingApart,
                        TableExact, CtxListsOpen, Open

-----------------------------------------------------------------------------
\* The type invariant is preserved by every step.
LEMMA TypeStep ==
    ASSUME ServerInv, [Next]_vars
    PROVE  TypeOK'
<1> USE ServerAssumption DEF ServerInv, TypeOK
<1>1. ASSUME NEW c \in Clients, Connect(c)
      PROVE  TypeOK'
  BY <1>1 DEF Connect
<1>2. ASSUME NEW c \in Clients, Send(c)
      PROVE  TypeOK'
  BY <1>2 DEF Send
<1>3. ASSUME NEW c \in Clients, Quit(c)
      PROVE  TypeOK'
  BY <1>3 DEF Quit
<1>4. CASE Wait
  <2>1. Ready \subseteq [fd : Fds \cup {Listener}, client : Clients \cup {None}]
    BY FdFacts DEF Ready, Open
  <2>2. batch' \subseteq Ready /\ passed' \subseteq {e.fd : e \in Ready}
    BY <1>4 DEF Wait
  <2>3. {e.fd : e \in Ready} \subseteq Fds \cup {Listener}
    BY <2>1
  <2> QED
    BY <1>4, <2>1, <2>2, <2>3 DEF Wait
<1>5. CASE Accept
  <2>1. batch' \subseteq batch /\ UNCHANGED <<alive, passed, serving>>
    <3> HIDE DEF ServerInv, TypeOK
    <3> QED
      BY <1>5 DEF Accept, BatchAfterAccept
  <2>2. CASE UNCHANGED <<peer, backlog, inbox, tcp, owner, nodes, clientFd>>
    BY <2>1, <2>2
  <2>3. ASSUME NEW fd \in Fds, AcceptAt(fd)
        PROVE  TypeOK'
    <3>1. backlog # <<>> /\ Head(backlog) \in Clients /\ Tail(backlog) \in Seq(Clients)
      BY <1>5, FdFacts DEF Accept, BatchKnown, Open
    <3>2. nodes' \in Seq([fd : Fds, client : Clients]) /\ Len(nodes') <= MaxClients
      <4>1. CASE CtxFull(Len(nodes))
        BY <2>3, <4>1 DEF AcceptAt
      <4>2. CASE ~CtxFull(Len(nodes))
        <5>1. [fd |-> fd, client |-> Head(backlog)] \in [fd : Fds, client : Clients]
          BY <3>1
        <5> QED
          BY <2>3, <4>2, <5>1 DEF AcceptAt, CtxFull
      <4> QED
        BY <4>1, <4>2
    <3>3. clientFd' \subseteq Fds
      BY <2>3 DEF AcceptAt, MarkFd
    <3>4. /\ peer' \in [Clients -> {"away", "here", "gone"}]
          /\ inbox' \in [Clients -> Seq(Segments)]
          /\ tcp' \in [Clients -> {"fresh", "answered", "reset", "broken"}]
          /\ owner' \in [Fds -> Clients \cup {None}]
      <4> DEFINE c == Head(backlog)
      <4>1. \/ owner' = [owner EXCEPT ![fd] = c] /\ UNCHANGED <<peer, inbox, tcp>>
            \/ /\ peer' = [peer EXCEPT ![c] = "away"] /\ inbox' = [inbox EXCEPT ![c] = <<>>]
               /\ UNCHANGED <<tcp, owner>>
        BY <2>3 DEF AcceptAt
      <4>2. <<>> \in Seq(Segments)
        OBVIOUS
      <4>3. c \in Clients
        BY <3>1
      <4> HIDE DEF c
      <4>4. CASE owner' = [owner EXCEPT ![fd] = c] /\ UNCHANGED <<peer, inbox, tcp>>
        BY <4>3, <4>4
      <4>5. CASE /\ peer' = [peer EXCEPT ![c] = "away"] /\ inbox' = [inbox EXCEPT ![c] = <<>>]
                 /\ UNCHANGED <<tcp, owner>>
        <5>1. inbox' \in [Clients -> Seq(Segments)]
          BY <4>2, <4>5
        <5>2. peer' \in [Clients -> {"away", "here", "gone"}]
          BY <4>5
        <5> QED
          BY <4>5, <5>1, <5>2
      <4> QED
        BY <4>1, <4>4, <4>5
    <3>5. backlog' \in Seq(Clients)
      BY <2>3, <3>1 DEF AcceptAt
    <3> QED
      BY <2>1, <3>2, <3>3, <3>4, <3>5
  <2> QED
    BY <1>5, <2>2, <2>3 DEF Accept
<1>6. ASSUME NEW fd \in Fds, Read(fd)
      PROVE  TypeOK'
  <2>1. CASE Close({fd}) /\ clientFd' = ClearFd(fd) /\ serving' = {}
    <3>1. /\ owner' \in [Fds -> Clients \cup {None}]
          /\ peer' \in [Clients -> {"away", "here", "gone"}]
          /\ inbox' \in [Clients -> Seq(Segments)]
          /\ tcp' \in [Clients -> {"fresh", "answered", "reset", "broken"}]
      BY <2>1 DEF Close
    <3>2. clientFd' \subseteq Fds /\ serving' \subseteq [fd : Fds, seg : Segments]
      BY <2>1 DEF ClearFd
    <3>3. batch' \subseteq batch
      BY <1>6, ReadTakes
    <3> QED
      BY <1>6, <3>1, <3>2, <3>3, ReadTakes
  <2>2. CASE /\ owner[fd] \in Clients /\ inbox[owner[fd]] # <<>>
             /\ serving' = {[fd |-> fd, seg |-> Head(inbox[owner[fd]])]}
             /\ inbox' = [inbox EXCEPT ![owner[fd]] = Rest(owner[fd])]
             /\ UNCHANGED <<peer, tcp, owner, clientFd>>
    <3>1. Rest(owner[fd]) \in Seq(Segments) /\ Head(inbox[owner[fd]]) \in Segments
      <4>1. inbox[owner[fd]] \in Seq(Segments) /\ 1 + ReadMax \in Nat
        BY <2>2
      <4> QED
        BY <2>2, <4>1 DEF Rest
    <3>2. inbox' \in [Clients -> Seq(Segments)] /\ serving' \subseteq [fd : Fds, seg : Segments]
      BY <2>2, <3>1
    <3>3. batch' \subseteq batch
      BY <1>6, ReadTakes
    <3> QED
      BY <1>6, <2>2, <3>2, <3>3, ReadTakes
  <2> QED
    BY <1>6, <2>1, <2>2, ReadCases
<1>9. CASE Serve
  <2>1. ASSUME NEW r \in serving, r.fd \in Fds, Close({r.fd}), clientFd' = ClearFd(r.fd)
        PROVE  TypeOK'
    BY <1>9, <2>1, ServeCases DEF Close, ClearFd
  <2>2. CASE /\ UNCHANGED <<peer, inbox, owner, clientFd>>
             /\ tcp' \in [Clients -> {"fresh", "answered", "reset", "broken"}]
    BY <1>9, <2>2, ServeCases
  <2> QED
    BY <1>9, <2>1, <2>2, ServeCases
<1>7. CASE Restart
  BY <1>7 DEF Restart
<1>8. CASE UNCHANGED vars
  BY <1>8 DEF vars
<1> QED
  BY <1>1, <1>2, <1>3, <1>4, <1>5, <1>6, <1>7, <1>8, <1>9 DEF Next, ClientStep, LoopStep

-----------------------------------------------------------------------------
\* The accept queue after a client joined it, and after its head left it.
LEMMA QueueFacts ==
    ASSUME NEW q \in Seq(Clients)
    PROVE  /\ \A c \in Clients :
                  /\ DOMAIN Append(q, c) = DOMAIN q \cup {Len(q) + 1}
                  /\ \A i \in DOMAIN q : Append(q, c)[i] = q[i]
                  /\ Append(q, c)[Len(q) + 1] = c
           /\ q # <<>> => /\ 1 \in DOMAIN q /\ q[1] = Head(q) /\ Head(q) \in Clients
                          /\ \A i \in DOMAIN Tail(q) :
                                 /\ i + 1 \in DOMAIN q /\ i \in Nat /\ i # 0
                                 /\ Tail(q)[i] = q[i + 1]
OBVIOUS

\* What accepting does, with c the client whose turn it is.
LEMMA AcceptFacts ==
    ASSUME ServerInv, Accept
    PROVE  /\ backlog # <<>> /\ Head(backlog) \in Clients
           /\ batch' = batch \ {ListenerEvent}
           /\ \/ UNCHANGED <<peer, backlog, inbox, owner, nodes, clientFd>>
              \/ \E fd \in Fds : fd \notin Open /\ AcceptAt(fd)
BY FdFacts DEF ServerInv, TypeOK, BatchKnown, Accept, BatchAfterAccept, LowestFree, Open

LEMMA PlacedStep ==
    ASSUME ServerInv, [Next]_vars
    PROVE  Placed'
<1> USE DEF ServerInv, TypeOK, Placed, Open
<1>1. ASSUME NEW c \in Clients, Connect(c)
      PROVE  Placed'
  BY <1>1, QueueFacts DEF Connect
<1>2. ASSUME NEW c \in Clients, Send(c) \/ Quit(c)
      PROVE  Placed'
  BY <1>2 DEF Send, Quit
<1>3. CASE Wait
  BY <1>3 DEF Wait
<1>4. CASE Accept
  <2>1. CASE UNCHANGED <<peer, backlog, inbox, owner, nodes, clientFd>>
    BY <2>1
  <2>2. ASSUME NEW fd \in Fds, fd \notin Open, AcceptAt(fd)
        PROVE  Placed'
    <3> DEFINE c == Head(backlog)
    <3>1. /\ c \in Clients /\ peer[c] # "away"
          /\ \A g \in Open : owner[g] # c
          /\ \A i \in DOMAIN backlog' :
                 i + 1 \in DOMAIN backlog /\ backlog'[i] = backlog[i + 1] /\ backlog'[i] # c
          /\ \A i, j \in DOMAIN backlog' : backlog'[i] = backlog'[j] => i = j
      BY <1>4, <2>2, AcceptFacts, QueueFacts DEF AcceptAt
    <3>2. \/ owner' = [owner EXCEPT ![fd] = c] /\ peer' = peer
          \/ owner' = owner /\ peer' = [peer EXCEPT ![c] = "away"]
      BY <2>2 DEF AcceptAt
    <3>3. \A i \in DOMAIN backlog' :
              \A g \in Open : owner[g] # backlog'[i]
      BY <3>1
    <3>4. \A i \in DOMAIN backlog' : peer[backlog'[i]] # "away" /\ backlog'[i] \in Clients
      BY <3>1
    <3> HIDE DEF c
    <3>5. CASE owner' = [owner EXCEPT ![fd] = c] /\ peer' = peer
      BY <2>2, <3>1, <3>3, <3>4, <3>5
    <3>6. CASE owner' = owner /\ peer' = [peer EXCEPT ![c] = "away"]
      BY <2>2, <3>1, <3>3, <3>4, <3>6
    <3> QED
      BY <3>2, <3>5, <3>6
  <2> QED
    BY <1>4, <2>1, <2>2, AcceptFacts
<1>5. ASSUME NEW fd \in Fds, Close({fd}), UNCHANGED backlog
      PROVE  Placed'
  <2>1. /\ Open' = Open \ {fd}
        /\ \A g \in Open' : owner'[g] = owner[g]
    BY <1>5 DEF Close
  <2>2. \A c \in Clients : c # owner[fd] => peer'[c] = peer[c]
    BY <1>5 DEF Close
  <2>3. \A g \in Open' : peer'[owner'[g]] # "away"
    BY <2>1, <2>2
  <2>4. \A i \in DOMAIN backlog : backlog[i] \in Clients
    OBVIOUS
  <2>5. \A i \in DOMAIN backlog : backlog[i] # owner[fd]
    <3>1. CASE owner[fd] = None
      BY <2>4, <3>1, ServerAssumption
    <3>2. CASE owner[fd] # None
      <4>1. fd \in Open
        BY <1>5, <3>2
      <4> QED
        BY <4>1
    <3> QED
      BY <3>1, <3>2
  <2> QED
    BY <1>5, <2>1, <2>2, <2>3, <2>4, <2>5
<1>8. CASE UNCHANGED <<backlog, peer, owner>>
  BY <1>8
<1>9. ASSUME NEW fd \in Fds, Read(fd)
      PROVE  Placed'
  BY <1>5, <1>8, <1>9, ReadCases, ReadTakes
<1>10. CASE Serve
  BY <1>5, <1>8, <1>10, ServeCases
<1>6. CASE Restart
  BY <1>6 DEF Restart
<1>7. CASE UNCHANGED vars
  BY <1>7 DEF vars
<1> QED
  BY <1>1, <1>2, <1>3, <1>4, <1>6, <1>7, <1>9, <1>10 DEF Next, ClientStep, LoopStep

LEMMA BatchStep ==
    ASSUME ServerInv, [Next]_vars
    PROVE  BatchKnown'
<1> USE DEF ServerInv, TypeOK, BatchKnown, Open, Readable
<1>1. ASSUME NEW c \in Clients, Connect(c)
      PROVE  BatchKnown'
  BY <1>1, QueueFacts DEF Connect, ListenerEvent
<1>2. ASSUME NEW c \in Clients, Send(c)
      PROVE  BatchKnown'
  <2>1. inbox'[c] # <<>> /\ \A d \in Clients \ {c} : inbox'[d] = inbox[d]
    <3>1. PICK seg \in Segments : inbox' = [inbox EXCEPT ![c] = Append(@, seg)]
      BY <1>2 DEF Send
    <3>2. inbox[c] \in Seq(Segments)
      OBVIOUS
    <3>3. Append(inbox[c], seg) # <<>>
      BY <3>1, <3>2, AppendProperties
    <3> DEFINE more == Append(inbox[c], seg)
    <3>4. inbox' = [inbox EXCEPT ![c] = more] /\ more # <<>>
      BY <3>1, <3>3
    <3> HIDE DEF more
    <3> QED
      BY <3>4
  <2> QED
    BY <1>2, <2>1 DEF Send, ListenerEvent
<1>3. ASSUME NEW c \in Clients, Quit(c)
      PROVE  BatchKnown'
  BY <1>3 DEF Quit, ListenerEvent
<1>4. CASE Wait
  BY <1>4 DEF Wait, Ready, ListenerEvent
<1>5. CASE Accept
  <2>1. CASE UNCHANGED <<peer, backlog, inbox, owner, nodes, clientFd>>
    BY <1>5, <2>1, AcceptFacts DEF ListenerEvent
  <2>2. ASSUME NEW fd \in Fds, fd \notin Open, AcceptAt(fd)
        PROVE  BatchKnown'
    <3> DEFINE c == Head(backlog)
    <3>1. c \in Clients /\ \A g \in Open : owner[g] # c
      BY <1>5, AcceptFacts, QueueFacts DEF Placed
    <3>2. \/ owner' = [owner EXCEPT ![fd] = c] /\ UNCHANGED <<peer, inbox>>
          \/ /\ peer' = [peer EXCEPT ![c] = "away"] /\ inbox' = [inbox EXCEPT ![c] = <<>>]
             /\ owner' = owner
      BY <2>2 DEF AcceptAt
    <3>3. batch' = batch \ {ListenerEvent}
      BY <1>5, AcceptFacts
    <3> HIDE DEF c
    <3> QED
      BY <2>2, <3>1, <3>2, <3>3 DEF ListenerEvent
  <2> QED
    BY <1>5, <2>1, <2>2, AcceptFacts
<1>6. ASSUME NEW fd \in Fds, Read(fd)
      PROVE  BatchKnown'
  <2>1. PICK e \in batch : e.fd = fd /\ batch' = batch \ {e}
    BY <1>6, ReadTakes
  <2>2. \A f \in batch' : f = ListenerEvent \/ f.fd # fd
    <3> SUFFICES ASSUME NEW f \in batch, f # e, f # ListenerEvent, f.fd = fd
                 PROVE  FALSE
      BY <2>1
    <3>1. e # ListenerEvent
      BY <1>6, <2>1, FdFacts
    <3>2. e.client = owner[fd] /\ f.client = owner[fd]
      BY <2>1, <3>1
    <3>3. \A ev \in batch : ev = [fd |-> ev.fd, client |-> ev.client]
      <4> HIDE DEF BatchKnown
      <4> QED
        OBVIOUS
    <3>4. e.fd = f.fd /\ e.client = f.client
      BY <2>1, <3>2
    <3> HIDE DEF ServerInv
    <3> QED
      BY <2>1, <3>3, <3>4
  <2>3. /\ backlog' = backlog
        /\ \A g \in Open \ {fd} : /\ owner'[g] = owner[g]
                                  /\ inbox'[owner[g]] = inbox[owner[g]]
                                  /\ peer'[owner[g]] = peer[owner[g]]
    <3>1. \A g \in Open \ {fd} : owner[g] \in Clients /\ owner[g] # owner[fd]
      BY ServerAssumption DEF Placed
    <3>2. CASE Close({fd})
      BY <1>6, <3>1, <3>2, ReadTakes DEF Close
    <3>3. CASE /\ inbox' = [inbox EXCEPT ![owner[fd]] = Rest(owner[fd])]
               /\ UNCHANGED <<peer, owner>>
      BY <1>6, <3>1, <3>3, ReadTakes
    <3> QED
      BY <1>6, <3>2, <3>3, ReadCases
  <2>4. ASSUME NEW f \in batch', f # ListenerEvent
        PROVE  f.fd \in Open' /\ f.client = owner'[f.fd] /\ Readable(f.client)'
    <3>1. f.fd \in Open \ {fd} /\ f.client = owner[f.fd] /\ Readable(f.client)
      BY <2>1, <2>2, <2>4
    <3> QED
      BY <2>3, <3>1
  <2> QED
    BY <2>1, <2>3, <2>4 DEF ListenerEvent
<1>9. CASE Serve
  <2>1. ASSUME NEW r \in serving, r.fd \in Fds, Close({r.fd})
        PROVE  BatchKnown'
    <3>1. \A e \in batch : e = ListenerEvent \/ e.fd \in Open \ {r.fd}
      BY <2>1 DEF ServingApart
    <3>2. \A g \in Open \ {r.fd} : /\ owner'[g] = owner[g]
                                 /\ inbox'[owner[g]] = inbox[owner[g]]
                                 /\ peer'[owner[g]] = peer[owner[g]]
      <4>1. \A g \in Open \ {r.fd} : owner[g] \in Clients /\ owner[g] # owner[r.fd]
        BY <2>1, ServerAssumption DEF Placed
      <4> QED
        BY <2>1, <4>1 DEF Close
    <3>3. ASSUME NEW e \in batch, e # ListenerEvent
          PROVE  e.fd \in Open' /\ e.client = owner'[e.fd] /\ Readable(e.client)'
      BY <3>1, <3>2, <3>3
    <3> QED
      BY <1>9, <3>3, ServeCases DEF ListenerEvent
  <2>2. CASE UNCHANGED <<peer, inbox, owner>>
    BY <1>9, <2>2, ServeCases DEF ListenerEvent
  <2> QED
    BY <1>9, <2>1, <2>2, ServeCases
<1>7. CASE Restart
  BY <1>7 DEF Restart
<1>8. CASE UNCHANGED vars
  BY <1>8 DEF vars, ListenerEvent
<1> QED
  BY <1>1, <1>2, <1>3, <1>4, <1>5, <1>6, <1>7, <1>8, <1>9 DEF Next, ClientStep, LoopStep

\* The request in hand keeps its descriptor out of the batch: no new batch is taken
\* while it is served, and each descriptor has one event in a batch.
LEMMA ServingStep ==
    ASSUME ServerInv, [Next]_vars
    PROVE  ServingApart'
<1> USE DEF ServerInv, TypeOK, ServingApart
<1>1. CASE (\E c \in Clients : ClientStep(c)) \/ UNCHANGED vars
  BY <1>1 DEF ClientStep, Connect, Send, Quit, vars
<1>2. CASE Wait \/ Accept
  BY <1>2 DEF Wait, Accept
<1>3. ASSUME NEW fd \in Fds, Read(fd)
      PROVE  ServingApart'
  <2>1. PICK e \in batch : e.fd = fd /\ batch' = batch \ {e}
    BY <1>3, ReadTakes
  <2>2. \A f \in batch' : f.fd # fd
    <3> SUFFICES ASSUME NEW f \in batch, f # e, f.fd = fd
                 PROVE  FALSE
      BY <2>1
    <3>1. e # ListenerEvent /\ f # ListenerEvent
      BY <1>3, <2>1, FdFacts
    <3>2. e.client = owner[fd] /\ f.client = owner[fd]
      BY <2>1, <3>1 DEF BatchKnown
    <3>3. \A ev \in batch : ev = [fd |-> ev.fd, client |-> ev.client]
      OBVIOUS
    <3>4. e.fd = f.fd /\ e.client = f.client
      BY <2>1, <3>2
    <3> HIDE DEF ServerInv
    <3> QED
      BY <2>1, <3>3, <3>4
  <2>3. \A r \in serving' : r.fd = fd
    <3> HIDE DEF ServerInv
    <3> QED
      BY <1>3 DEF Read
  <2> QED
    BY <2>2, <2>3
<1>4. CASE Serve
  BY <1>4, ServeCases
<1>5. CASE Restart
  BY <1>5 DEF Restart
<1> QED
  BY <1>1, <1>2, <1>3, <1>4, <1>5 DEF Next, LoopStep

-----------------------------------------------------------------------------
\* The server's two tables.
LEMMA TablesStep ==
    ASSUME ServerInv, [Next]_vars
    PROVE  TableExact' /\ CtxListsOpen'
<1> USE DEF ServerInv, TypeOK, TableExact, CtxListsOpen, Open
<1>1. ASSUME UNCHANGED <<owner, nodes, clientFd>>
      PROVE  TableExact' /\ CtxListsOpen'
  BY <1>1
<1>2. CASE Accept
  <2>1. ASSUME NEW fd \in Fds, fd \notin Open, AcceptAt(fd)
        PROVE  TableExact' /\ CtxListsOpen'
    <3> DEFINE c == Head(backlog)
               node == [fd |-> fd, client |-> c]
    <3>1. c \in Clients /\ c # None
      BY <1>2, AcceptFacts, ServerAssumption
    <3>2. \/ owner' = [owner EXCEPT ![fd] = c] /\ clientFd' = MarkFd(fd)
          \/ UNCHANGED <<owner, clientFd>>
      BY <2>1 DEF AcceptAt
    <3>3. \/ nodes' = nodes /\ Len(nodes) >= MaxClients
          \/ nodes' = Append(nodes, node)
      BY <2>1 DEF AcceptAt, CtxFull
    <3>4. node \in [fd : Fds, client : Clients]
      BY <3>1
    <3> HIDE DEF c
    <3>5. TableExact'
      BY <2>1, <3>1, <3>2 DEF MarkFd
    <3>6. CASE nodes' = nodes /\ Len(nodes) >= MaxClients
      BY <3>5, <3>6, ServerAssumption
    <3>7. CASE nodes' = Append(nodes, node)
      <4> HIDE DEF node
      <4>1. /\ Len(nodes') = Len(nodes) + 1 /\ Len(nodes) \in Nat
            /\ DOMAIN nodes' = 1 .. Len(nodes) + 1 /\ DOMAIN nodes = 1 .. Len(nodes)
            /\ \A i \in 1 .. Len(nodes) : nodes'[i] = nodes[i]
            /\ nodes'[Len(nodes) + 1] = node
        BY <3>4, <3>7, AppendProperties
      <4>2. ASSUME Len(nodes') < MaxClients, NEW g \in Open'
            PROVE  \E i \in DOMAIN nodes' : nodes'[i] = [fd |-> g, client |-> owner'[g]]
        <5>1. CASE g = fd
          <6>1. owner'[g] = c
            BY <2>1, <3>2, <4>2, <5>1
          <6>2. node = [fd |-> g, client |-> owner'[g]]
            BY <5>1, <6>1 DEF node
          <6>3. Len(nodes) + 1 \in DOMAIN nodes'
            BY <4>1
          <6> QED
            BY <4>1, <6>2, <6>3
        <5>2. CASE g # fd
          <6>1. g \in Open /\ owner'[g] = owner[g]
            BY <3>2, <4>2, <5>2
          <6>2. Len(nodes) < MaxClients
            BY <4>1, <4>2, ServerAssumption
          <6>3. PICK i \in DOMAIN nodes : nodes[i] = [fd |-> g, client |-> owner[g]]
            BY <6>1, <6>2
          <6>4. i \in DOMAIN nodes' /\ nodes'[i] = nodes[i]
            BY <4>1, <6>3
          <6> QED
            BY <6>1, <6>3, <6>4
        <5> QED
          BY <5>1, <5>2
      <4> QED
        BY <3>5, <4>2
    <3> QED
      BY <3>3, <3>6, <3>7
  <2> QED
    BY <1>1, <1>2, <2>1, AcceptFacts
<1>3. ASSUME NEW fd \in Fds, Close({fd}), clientFd' = ClearFd(fd), UNCHANGED nodes
      PROVE  TableExact' /\ CtxListsOpen'
  <2>1. Open' = Open \ {fd} /\ (\A g \in Open' : owner'[g] = owner[g])
    BY <1>3 DEF Close
  <2> QED
    BY <1>3, <2>1 DEF ClearFd
<1>7. ASSUME NEW fd \in Fds, Read(fd)
      PROVE  TableExact' /\ CtxListsOpen'
  BY <1>1, <1>3, <1>7, ReadCases, ReadTakes
<1>8. CASE Serve
  BY <1>1, <1>3, <1>8, ServeCases
<1>4. CASE Restart
  BY <1>4 DEF Restart
<1>5. ASSUME NEW c \in Clients, ClientStep(c)
      PROVE  UNCHANGED <<owner, nodes, clientFd>>
  BY <1>5 DEF ClientStep, Connect, Send, Quit
<1>6. CASE Wait \/ UNCHANGED vars
  BY <1>1, <1>6 DEF Wait, vars
<1> QED
  BY <1>1, <1>2, <1>4, <1>5, <1>6, <1>7, <1>8 DEF Next, LoopStep

LEMMA ServerStep == ServerInv /\ [Next]_vars => ServerInv'
BY TypeStep, PlacedStep, BatchStep, ServingStep, TablesStep DEF ServerInv

\* While the server runs, a connection is closed only by the handler of its own event,
\* which is not the end of the stream while the client is there, or refused by epoll.
LEMMA KeptStep ==
    ASSUME ServerInv, [Next]_vars, NEW c \in Clients, alive, peer[c] = "here",
           peer'[c] = "away"
    PROVE  Malformed(c) \/ Refused(c)
<1> USE DEF ServerInv, TypeOK
<1>1. ASSUME NEW d \in Clients, ClientStep(d)
      PROVE  FALSE
  BY <1>1 DEF ClientStep, Connect, Send, Quit
<1>2. CASE Wait \/ UNCHANGED vars
  BY <1>2 DEF Wait, vars
<1>3. CASE Accept
  <2>1. PICK fd \in Fds : AcceptAt(fd)
    BY <1>3, AcceptFacts
  <2>2. peer' = [peer EXCEPT ![Head(backlog)] = "away"] /\ backlog' = Tail(backlog)
    BY <2>1 DEF AcceptAt
  <2> QED
    BY <1>3, <2>2, AcceptFacts DEF Refused
<1>4. ASSUME NEW fd \in Fds, Read(fd)
      PROVE  FALSE
  <2>1. Close({fd}) /\ (owner[fd] = None \/ inbox[owner[fd]] = <<>>)
    BY <1>4, ReadCases
  <2>2. c = owner[fd]
    BY <2>1 DEF Close
  <2>3. inbox[c] = <<>>
    BY <2>1, <2>2, ServerAssumption
  <2>4. PICK e \in batch : e.fd = fd
    BY <1>4, ReadTakes
  <2>5. Readable(c)
    BY <2>2, <2>4, FdFacts DEF BatchKnown
  <2> QED
    BY <2>3, <2>5 DEF Readable
<1>5. CASE Serve
  <2>1. PICK r \in serving : r.seg = "malformed" /\ Close({r.fd})
    BY <1>5, ServeCases
  <2>2. c = owner[r.fd]
    BY <2>1 DEF Close
  <2> QED
    BY <2>1, <2>2 DEF Malformed
<1> QED
  BY <1>1, <1>2, <1>3, <1>4, <1>5 DEF Next, LoopStep, Restart

-----------------------------------------------------------------------------
\* ServerInv holds in every reachable state.
LEMMA ServerInvHolds == Spec => []ServerInv
BY InitServer, ServerStep, PTL DEF Spec

\* The types hold, and the context list never outgrows MAX_CLIENTS (hdl_accept,
\* ctx_http_insert).
THEOREM ServerTypeCorrect == Spec => []TypeOK
<1>1. ServerInv => TypeOK
  BY DEF ServerInv
<1> QED
  BY <1>1, ServerInvHolds, PTL

\* An event still to be handled is about the connection it was reported for: handling
\* the events before it neither closed its descriptor nor gave it to a new client
\* (socket_event_loop).
THEOREM EventsStayCurrent == Spec => []EventsCurrent
<1>1. ServerInv => EventsCurrent
  BY FdFacts DEF ServerInv, BatchKnown, EventsCurrent
<1> QED
  BY <1>1, ServerInvHolds, PTL

\* Within its bounds g_client_fd marks the open client descriptors and no other
\* (hdl_accept, socket_event_loop).
THEOREM TableStaysExact == Spec => []TableExact
<1>1. ServerInv => TableExact
  BY DEF ServerInv
<1> QED
  BY <1>1, ServerInvHolds, PTL

\* Until the context list is full, it has a node for every open connection
\* (hdl_accept, ctx_http_insert).
THEOREM NodesListOpen == Spec => []CtxListsOpen
<1>1. ServerInv => CtxListsOpen
  BY DEF ServerInv
<1> QED
  BY <1>1, ServerInvHolds, PTL

\* While the process runs, a client that is there loses its connection only by its own
\* bad first line, or because epoll refuses its descriptor as it is accepted; nothing
\* another client does closes it, short of killing the process (socket_event_loop).
THEOREM KeptWhileRunningHolds == Spec => KeptWhileRunning
<1> DEFINE Kept == \A c \in Clients :
                     alive /\ peer[c] = "here" /\ peer'[c] = "away"
                     => Malformed(c) \/ Refused(c)
<1>1. ServerInv /\ [Next]_vars => [Kept]_vars
  BY KeptStep
<1> HIDE DEF Kept
<1>2. Spec => [][Kept]_vars
  BY <1>1, ServerInvHolds, PTL DEF Spec
<1> QED
  BY <1>2 DEF KeptWhileRunning, Kept
=============================================================================
