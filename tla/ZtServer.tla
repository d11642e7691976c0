------------------------------ MODULE ZtServer ------------------------------
(***************************************************************************)
(* The server's event loop: socket_event_loop (zt_socket.c), hdl_accept    *)
(* and hdl_socket (zt_hdl.c), ctx_http_insert (zt_ctx.c).  One thread      *)
(* takes a batch of events from epoll and handles them one by one; clients *)
(* connect, send and quit in between, also while a request is served.      *)
(* What a routed request does to Redis is in ZtAccounts and ZtRooms; here  *)
(* it writes one answer.                                                   *)
(*                                                                         *)
(* Functions of the server report failure with positive codes, and most    *)
(* callers test for rc < 0, so those failures are not noticed: hdl_accept  *)
(* goes on when the context list is full, and the loop goes on when        *)
(* hdl_accept fails.                                                       *)
(***************************************************************************)
EXTENDS Naturals, Sequences, FiniteSets

CONSTANTS Clients,
          MaxFd,        \* client descriptors are 0 .. MaxFd, scaled down
          MaxClients,   \* MAX_CLIENTS, the size of the context list
          TableBits,    \* bits in g_client_fd
          MaxEvents,    \* MAX_EVENTS, the size of a batch
          ReadMax,      \* requests that fit one read
          MaxUnread,    \* bound: requests a client has in flight
          None          \* no client

ASSUME ServerAssumption ==
    /\ {MaxFd, MaxClients, TableBits, MaxEvents, ReadMax, MaxUnread} \subseteq Nat
    /\ MaxClients > 0 /\ MaxEvents > 0 /\ ReadMax > 0
    /\ None \notin Clients

Fds == 0 .. MaxFd
Listener == MaxFd + 1       \* the listening socket, a descriptor no client has

\* What a client sends: a request with a route, one without, or something whose
\* first line is no request line (the rest of a request that arrived in pieces).
Segments == {"routed", "unrouted", "malformed"}

VARIABLES
    alive,      \* the server process runs
    peer,       \* each client: "away", "here", or "gone" with its connection left
    backlog,    \* connections waiting for accept
    inbox,      \* bytes sent on each connection and not yet read
    tcp,        \* what the server's socket of each client would do (see Written)
    owner,      \* open client descriptors
    batch,      \* the events of this epoll_wait still to be handled
    passed,     \* the descriptors that were ready and not in the last batch
    serving,    \* hdl_socket's read_buf: the request it has read, none or one
    nodes,      \* http_conn_head: the descriptor and the peer address of each node
    clientFd    \* g_client_fd, as the set of its bits

vars == <<alive, peer, backlog, inbox, tcp, owner, batch, passed, serving, nodes, clientFd>>

Init ==
    /\ alive = TRUE
    /\ peer = [c \in Clients |-> "away"]
    /\ backlog = <<>>
    /\ inbox = [c \in Clients |-> <<>>]
    /\ tcp = [c \in Clients |-> "fresh"]
    /\ owner = [fd \in Fds |-> None]
    /\ batch = {}
    /\ passed = {}
    /\ serving = {}
    /\ nodes = <<>>
    /\ clientFd = {}

Open == {fd \in Fds : owner[fd] # None}

-----------------------------------------------------------------------------
\* Clients.

Connect(c) ==
    /\ alive /\ peer[c] = "away"
    /\ peer' = [peer EXCEPT ![c] = "here"]
    /\ backlog' = Append(backlog, c)
    /\ UNCHANGED <<alive, inbox, tcp, owner, batch, passed, serving, nodes, clientFd>>

Send(c) ==
    /\ peer[c] = "here" /\ Len(inbox[c]) < MaxUnread
    /\ \E seg \in Segments : inbox' = [inbox EXCEPT ![c] = Append(@, seg)]
    /\ UNCHANGED <<alive, peer, backlog, tcp, owner, batch, passed, serving, nodes, clientFd>>

\* The client closes its socket.  That sends a FIN, which the loop reads as the end
\* of the stream.  If the client left an answer unread it sends a RST instead; if an
\* answer was still on its way, the FIN is followed by a RST.
Quit(c) ==
    /\ peer[c] = "here"
    /\ peer' = [peer EXCEPT ![c] = "gone"]
    /\ \/ UNCHANGED tcp
       \/ /\ tcp[c] = "answered"
          /\ \E after \in {"reset", "broken"} : tcp' = [tcp EXCEPT ![c] = after]
    /\ UNCHANGED <<alive, backlog, inbox, owner, batch, passed, serving, nodes, clientFd>>

-----------------------------------------------------------------------------
\* epoll_wait.

Readable(c) == inbox[c] # <<>> \/ peer[c] = "gone"

ListenerEvent == [fd |-> Listener, client |-> None]

Ready == {[fd |-> fd, client |-> owner[fd]] : fd \in {f \in Open : Readable(owner[f])}}
         \cup {e \in {ListenerEvent} : backlog # <<>>}

\* Up to MaxEvents of the ready descriptors, first those that the last batch passed
\* over (epoll keeps its ready list in turn).  The loop handles them in any order.
Smaller(a, b) == IF a < b THEN a ELSE b

Wait ==
    /\ batch = {} /\ serving = {}
    /\ \E events \in (SUBSET Ready) \ {{}} :
        LET waiting == {e \in Ready : e.fd \in passed} IN
        /\ Cardinality(events) = Smaller(Cardinality(Ready), MaxEvents)
        /\ waiting \subseteq events \/ events \subseteq waiting
        /\ batch' = events
        /\ passed' = {e.fd : e \in Ready \ events}
    /\ UNCHANGED <<alive, peer, backlog, inbox, tcp, owner, serving, nodes, clientFd>>

-----------------------------------------------------------------------------
\* close(): what the loop closes after a failed handler, and what a close does.

ClosedAfterSweep(fd) == {fd} \cup {f \in Open : peer[owner[f]] = "gone"}
ClosedAfter(fd) == {fd}

Close(fds) ==
    LET lost == {owner[fd] : fd \in fds} IN
    /\ owner' = [fd \in Fds |-> IF fd \in fds THEN None ELSE owner[fd]]
    /\ peer' = [c \in Clients |-> IF c \in lost THEN "away" ELSE peer[c]]
    /\ inbox' = [c \in Clients |-> IF c \in lost THEN <<>> ELSE inbox[c]]
    /\ tcp' = [c \in Clients |-> IF c \in lost THEN "fresh" ELSE tcp[c]]

-----------------------------------------------------------------------------
\* hdl_accept.

CtxFullLate(count) == count > MaxClients
CtxFullEarly(count) == count >= MaxClients - 1
CtxFull(count) == count >= MaxClients

\* g_client_fd[fd / 8] |= ...  A descriptor past the table's last bit is written
\* outside it.
MarkFd(fd) == IF fd < TableBits THEN clientFd \cup {fd} ELSE clientFd

LowestFree(fd) == fd \notin Open /\ \A f \in Fds : f < fd => f \in Open

BatchAfterAcceptBreak == {}
BatchAfterAccept == batch \ {ListenerEvent}

\* accept returned fd: note it in the list and register it with epoll, then in the
\* table.  If epoll_ctl fails the descriptor is closed and the node stays.
AcceptAt(fd) ==
    /\ backlog' = Tail(backlog)
    /\ nodes' = IF CtxFull(Len(nodes)) THEN nodes
                ELSE Append(nodes, [fd |-> fd, client |-> Head(backlog)])
    /\ \/ /\ owner' = [owner EXCEPT ![fd] = Head(backlog)]
          /\ clientFd' = MarkFd(fd)
          /\ UNCHANGED <<peer, inbox, tcp>>
       \/ /\ peer' = [peer EXCEPT ![Head(backlog)] = "away"]
          /\ inbox' = [inbox EXCEPT ![Head(backlog)] = <<>>]
          /\ UNCHANGED tcp      \* still fresh: nothing was answered
          /\ UNCHANGED <<owner, clientFd>>

AcceptFails == Open = Fds       \* no descriptor left

Accept ==
    /\ ListenerEvent \in batch /\ serving = {}
    /\ batch' = BatchAfterAccept
    /\ \/ \E fd \in Fds : LowestFree(fd) /\ AcceptAt(fd)
       \/ AcceptFails /\ UNCHANGED <<peer, backlog, inbox, tcp, owner, nodes, clientFd>>
    /\ UNCHANGED <<alive, passed, serving>>

-----------------------------------------------------------------------------
\* hdl_socket.

\* One read takes what has arrived, up to the buffer; only the first request in
\* it is looked at.
Rest(c) == SubSeq(inbox[c], 1 + ReadMax, Len(inbox[c]))

Answered(seg) == seg \in {"routed", "malformed"}

FailsUnrouted(seg) == seg # "routed"
Fails(seg) == seg = "malformed"

ClearFdNever(fd) == clientFd
ClearFd(fd) == clientFd \ {fd}

\* The loop takes the event of fd, and hdl_socket reads.  At the end of the stream
\* (or a RST) it fails, and the loop closes fd.
Read(fd) ==
    /\ serving = {}
    /\ \E e \in batch : e.fd = fd /\ batch' = batch \ {e}
    /\ LET c == owner[fd] IN
       \/ /\ c = None \/ inbox[c] = <<>>
          /\ Close(ClosedAfter(fd))
          /\ clientFd' = ClearFd(fd)
          /\ UNCHANGED serving
       \/ /\ c # None /\ inbox[c] # <<>>
          /\ serving' = {[fd |-> fd, seg |-> Head(inbox[c])]}
          /\ inbox' = [inbox EXCEPT ![c] = Rest(c)]
          /\ UNCHANGED <<peer, tcp, owner, clientFd>>
    /\ UNCHANGED <<alive, backlog, passed, nodes>>

\* The socket of c after a write.  After a RST alone the write fails (ECONNRESET) and
\* leaves the socket broken.  A client that closed in order answers the data with a
\* RST, now or later; one that comes after the FIN leaves the socket broken at once.
Written(c) ==
    IF peer[c] = "here" THEN {"answered"}
    ELSE IF tcp[c] = "reset" THEN {"broken"} ELSE {tcp[c], "broken"}

\* A write on a broken socket raises SIGPIPE, which nobody handles.
Killed(r) == Answered(r.seg) /\ tcp[owner[r.fd]] = "broken"

Die ==
    /\ alive' = FALSE /\ serving' = {}
    /\ UNCHANGED <<peer, backlog, inbox, tcp, owner, batch, passed, nodes, clientFd>>

\* hdl_socket has done its work and writes its answer (a write that fails is not
\* noticed); after a bad first line it fails, and the loop closes fd.
Finish(r) ==
    LET c == owner[r.fd] IN
    /\ serving' = {}
    /\ \/ /\ Fails(r.seg)
          /\ Close(ClosedAfter(r.fd))
          /\ clientFd' = ClearFd(r.fd)
       \/ /\ ~Fails(r.seg)
          /\ \E after \in (IF Answered(r.seg) THEN Written(c) ELSE {tcp[c]}) :
                 tcp' = [tcp EXCEPT ![c] = after]
          /\ UNCHANGED <<peer, inbox, owner, clientFd>>
    /\ UNCHANGED <<alive, backlog, batch, passed, nodes>>

Serve == \E r \in serving : IF Killed(r) THEN Die ELSE Finish(r)

-----------------------------------------------------------------------------
\* The process was killed: the kernel closes everything, and Kubernetes starts it
\* again with empty tables.
Restart ==
    /\ ~alive
    /\ alive' = TRUE
    /\ peer' = [c \in Clients |-> "away"]
    /\ backlog' = <<>>
    /\ inbox' = [c \in Clients |-> <<>>]
    /\ tcp' = [c \in Clients |-> "fresh"]
    /\ owner' = [fd \in Fds |-> None]
    /\ batch' = {}
    /\ passed' = {}
    /\ serving' = {}
    /\ nodes' = <<>>
    /\ clientFd' = {}

ClientStep(c) == Connect(c) \/ Send(c) \/ Quit(c)

LoopStep == alive /\ (Wait \/ Accept \/ (\E fd \in Fds : Read(fd)) \/ Serve)

Next == (\E c \in Clients : ClientStep(c)) \/ LoopStep \/ Restart

Spec == Init /\ [][Next]_vars

\* The loop does not block while something is ready, and handles every event of a
\* batch before the next wait.  It does block in redisCommand, without a timeout:
\* that Redis answers, or fails, is assumed.
FairSpec == Spec /\ WF_vars(LoopStep)

-----------------------------------------------------------------------------
\* Properties.  (The names that end in Sweep, Late, Early, Unrouted, Never or Break
\* are faulty variants of the definition after them, used by no action.)

\* Every variable has its type, and the context list stays within MAX_CLIENTS.
TypeOK ==
    /\ alive \in BOOLEAN
    /\ peer \in [Clients -> {"away", "here", "gone"}]
    /\ backlog \in Seq(Clients)
    /\ inbox \in [Clients -> Seq(Segments)]
    /\ tcp \in [Clients -> {"fresh", "answered", "reset", "broken"}]
    /\ owner \in [Fds -> Clients \cup {None}]
    /\ batch \subseteq [fd : Fds \cup {Listener}, client : Clients \cup {None}]
    /\ passed \subseteq Fds \cup {Listener}
    /\ serving \subseteq [fd : Fds, seg : Segments]
    /\ nodes \in Seq([fd : Fds, client : Clients]) /\ Len(nodes) <= MaxClients
    /\ clientFd \subseteq Fds

\* An event still to be handled is about the connection it was reported for: its
\* descriptor was neither closed nor given to a new client earlier in the batch
\* (socket_event_loop closes only the descriptor it handles, each once a batch).
EventsCurrent == \A e \in batch : e.fd # Listener => owner[e.fd] = e.client

\* Within its bounds g_client_fd marks the open client descriptors and no other,
\* also after a descriptor is reused (hdl_accept, socket_event_loop).
TableExact == \A fd \in Fds : fd < TableBits => (fd \in clientFd <=> fd \in Open)

\* As long as the context list is not full, every open connection has a node of its
\* own descriptor and peer in it (ctx_http_insert).
CtxListsOpen ==
    Len(nodes) < MaxClients =>
        \A fd \in Open : \E i \in DOMAIN nodes : nodes[i] = [fd |-> fd, client |-> owner[fd]]

\* A client that is there loses its connection in three ways only: it sent a bad first
\* line, epoll refused its descriptor when it was accepted, or the process was killed
\* (see KeepsRunning) and started again.  While the process runs nothing another client
\* does closes it, nor a request without a route (socket_event_loop closes one fd).
Malformed(c) == \E r \in serving : owner[r.fd] = c /\ r.seg = "malformed"
Refused(c) == backlog # <<>> /\ c = Head(backlog) /\ backlog' = Tail(backlog)

KeptWhileRunning ==
    [][\A c \in Clients :
          alive /\ peer[c] = "here" /\ peer'[c] = "away"
          => Malformed(c) \/ Refused(c)]_vars

\* What a client has sent, accepted already or not, is eventually read, or its
\* connection closed, while the server lives; no flow of other clients starves it
\* (socket_event_loop).  With descriptors for all clients.
EventuallyRead ==
    \A c \in Clients : inbox[c] # <<>> ~> (inbox[c] = <<>> \/ ~alive)

\* zt_socket.c:242: on a disconnect or a bad request only that fd is cleaned up and
\* the server goes on.
KeepsRunning == alive
=============================================================================
