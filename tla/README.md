# ZamTok in TLA+

Specifications, model checks and proofs for ZamTok, a chat service: a C server that speaks HTTP
and keeps everything in Redis (`src/src/SERVER`), a C client (`src/src/CLIENT`), and an older C#
prototype of a chat server and client (`src/Server`, `src/Client`, `src/Common`). Paths below are
relative to the repository; `zt_http.c` and the like are in `src/SERVER`.

Contents: [inventory](#1-the-system), [modules](#2-modules), [how they correspond to the
code](#3-correspondence-with-the-code), [runs](#4-runs), [bounds](#5-bounds),
[fairness](#6-fairness), [proofs](#7-proofs), [findings](#8-findings),
[what is left out](#9-what-is-not-modelled), [plan](#10-plan).

## 1. The system

```
 clients ──TCP──▶ event loop ──▶ handlers ──▶ Redis commands ──TCP──▶ Redis (a Pod without a volume)
                  zt_socket.c    zt_http.c    zt_redis.c
                  zt_hdl.c       zt_util.c
                  zt_ctx.c
```

The server is one thread. `main` connects to Redis once, opens the listening socket and enters
`socket_event_loop`. Each event of an `epoll_wait` batch is an accept (`hdl_accept`) or one read
(`hdl_socket`), which routes one request to a handler of `zt_http.c`; the handler issues Redis
commands one after the other and writes one answer. Nothing is concurrent inside the process. What
is concurrent: clients, who send and quit at any time; Redis, whose connection can break between
any two commands; Kubernetes, which restarts the process and, in a rolling update of the
Deployment, runs an old and a new server side by side on one Redis.

### Accounts — `http_join`, `http_login`, `redis_user_*`, `redis_mdn_exists`

- State: hash `user:<id>` (password, name, telephone number "mdn", time), string `mdn:<mdn>` (the
  id that has the number).
- Operations: join = `EXISTS user`, `EXISTS mdn`, `HSET user`, `SET mdn`; login = `HMGET user`.
- Hard: check and save are separate commands (two servers interleave); the save is two commands (a
  crash or a broken connection falls between them); a command may have run although its reply is
  lost; a retry meets what the first attempt left.
- Correct when: ids and numbers are unique; the index never dangles and names the right user; an
  acknowledged join stays; a failed one can be told from a join that never happened.

### Rooms — `http_create_room`, `http_invite_room`, `http_join_room`, `http_search_room`, `redis_room_*`

- State: hash `room:<id>`, set `room_members:<id>`, set `user_rooms:<user>` for each member. The id
  is `<name>_<creator>`. `friends:<user>` is read and never written by this server.
- Operations: create = checks (creator exists, type fits, members are friends, id fits), `EXISTS
  room`, `HSET room`, then two `SADD` for the creator and for each member; invite = the same checks
  except the type, `HMGET room`, two `SADD` for each member; join and search = `HMGET room`.
- Hard: up to 2 + 2n commands make one room, and any may fail; two pairs of name and creator can
  give one id; two servers can create one id together; invitations come while a creation goes on.
- Correct when: the three keys agree in the direction the order of the writes promises; an
  acknowledged creation is complete and stays; every stored room passed the checks.

### Listings — `http_list_rooms`, `http_list_friends`, `redis_room_list`, `redis_friend_list`

- State of a handler: SCAN cursor, the keys of the current reply, the slots filled so far, the list
  text and the body text, each in a buffer of `DATA_MAX_LEN`.
- Hard: a listing is many commands while rooms, users and friends are added; SCAN may repeat a key;
  lookups fail one by one; slots and buffers run out.
- Correct when: a listing answered SUCCESS names everything that was there from the start, except for
  three reasons (its slots were in use, a lookup failed, the body was cut where it was full); nothing of
  an earlier slot or request leaks in.

### Event loop and connections — `socket_event_loop`, `hdl_accept`, `hdl_socket`, `ctx_http_insert`

- State: open descriptors, the batch being handled, the request in hand, the context list
  `http_conn_head` with `client_count`, the bit table `g_client_fd`; in the kernel: the accept queue,
  bytes not yet read, and what each connection's socket does at the next write.
- Hard: a batch names descriptors that may be closed and opened again while it is handled; the list
  and the table have limits and `client_count` only grows; a client may be gone before its answer
  is written; one thread must serve everybody.
- Correct when: each event is handled for the connection it was reported for; while the process runs, a
  client loses its connection only through its own bad first line, or because epoll refused its
  descriptor; what was sent is eventually read; the process survives (it does not: [findings](#8-findings)).

### Chat prototype, server — `ServerManager` (`ServerNetwork.cs`), `ServerForm`

- State: `ConnectedClients` (a list per room id), `ChatRooms`, one lock, the loop's variables
  `chatName`, `clientName`, `chatRoomId`, the task of each client, the client list of the window.
- Operations: greet a client (receive its hello, find or make the room, list it, show it, announce
  it, start its task); relay a text; announce that a client left.
- Hard: real concurrency. The tasks and the callback for the window capture the loop's *variables*
  and read them later; several tasks broadcast to one list; the stream keeps no boundaries between
  sends; an exception ends a task silently.
- Correct when: chats are kept apart; members see one order of messages, and each client's words
  unbroken in it; every client is greeted.

### C client and the text of a request — `zt_ctrl.c`, `zt_chat.c`, `zt_evt.c`, `zt_hdl.c`, `zt_util.c`

- State: of the control thread the form it fills, the fields read, the members still to ask for, what
  `fgets` left of a line that was too long, `g_login_user_id`; of `main`'s thread the state of the
  socket; on the server's side the bytes of a connection not yet read.
- Operations: prompt for a field, cancel, write a request (`chat_join` and its like); print what
  arrives; on the server, find a key in the text that was read (`msg_get_json_string_field_helper`).
- Hard: two threads share one socket and neither waits for the other; no answer says which request it
  is for; requests that are unread together reach the server in one read, of which it handles the first
  and searches the whole for a key; a read may end inside a request; the login counts from the moment
  it is written; the rest of a long line answers the next prompt.
- Correct when: the server binds the fields the client wrote; answers come in the order of requests;
  only a request written behind an unread one is lost; the process ends with its connection.

### Chat prototype, client — `ClientManager` (`ClientNetwork.cs`), `ClientForm`

- State: the field `socket`, the two buttons, a receive loop per connection, its argument
  `serverSocket`.
- Operations: `Connect`, `Disconnect` (each call of it reads the field anew), `ReceiveMessages`, whose
  callbacks run on the window's thread and wait for it.
- Hard: the loop of an earlier connection goes on after the user has opened the next one, and receives
  from, shuts down or clears whatever the field holds by then; a read ends anywhere, also inside a
  character, and is decoded by itself.
- Correct when: a connection that works is the one in the field and is being received from; what was sent
  is shown once, in order, and no character shown as such is torn apart; its end is reported.

### The other parts

The bounded queue, the SQL header and a connection module are in the tree and not in the build; two
common classes of the prototype are used by neither program. See [section 9](#9-what-is-not-modelled).

`PROJECT.json` lists all components with their sources and status, and under `hazards` every place
where this code can go wrong in a way that tests hardly reach, with the properties that watch it.

## 2. Modules

| Module | What it is |
|---|---|
| `ZtRedis` | The outcomes of one Redis command, and what they do to the server's connection. |
| `ZtHandler` | A server inside a handler: next command, bound request, answer; the steps common to all handlers. |
| `ZtRegistration` | Abstract specification: registration as one atomic step. |
| `ZtAccounts` | Join and login command by command. Refines `ZtRegistration` when there is one server. |
| `ZtRoomService` | Abstract specification: rooms that appear whole and then only grow. |
| `ZtRooms` | Create, invite, join and search command by command. Refines `ZtRoomService` when there is one server. |
| `ZtListing` | The two listings command by command, and their buffers. |
| `ZtServer` | The event loop, epoll, accept, read, close, the context list and the descriptor table. |
| `ZtBroadcast` | Abstract specification: a chat as an atomic broadcast. |
| `ZtChatRelay` | The C# relay: accept loop, tasks, broadcasts under the lock, the window. Refines `ZtBroadcast`, whenever tasks start. |
| `ZtWire` | The text of a request: how the client writes its fields and how the server finds them. |
| `ZtClient` | The C client with its two threads, and the server's end of its connection. |
| `ZtChatClient` | The C# client: window, field, receive loops. |
| `ZtAccountsProofs`, `ZtRoomsProofs`, `ZtListingProofs`, `ZtServerProofs`, `ZtClientProofs`, `ZtChatRelayProofs`, `ZtChatOrderProofs`, `ZtChatClientProofs` | Theorems and proofs. |
| `MCZtAccounts`, `MCZtRooms`, `MCZtListing`, `MCZtServer`, `MCZtClient`, `MCZtChatRelay`, `MCZtChatClient` | Instances for TLC: values and symmetries. |

`ZtHandler` extends `ZtRedis`; `ZtAccounts`, `ZtRooms` and `ZtListing` extend `ZtHandler`, and so
share one model of a failing command, of a restarted process and of a Redis that loses its data.
They are separate state machines because the keys they write are disjoint; where one needs what
another does, it has it as a step of its surroundings (`Register` in `ZtRooms`, `CreateRoom` in
`ZtListing`). `ZtServer` abstracts a routed request to "it writes one answer". `ZtClient` extends
`ZtWire` and sees one connection of that server, now with the text of its requests; of the handlers it
has the codes of sign-up and login, because they depend on the text, and "some result" for the others.
`ZtChatRelay` and `ZtChatClient` are the two ends of the prototype: the client's server is a sender of
numbered bytes that may end the connection, which is all of the relay that a client can tell.

In each module, names that end in `Unchecked`, `Swapped`, `Stale`, `Never` and the like, defined
next to the operator they vary, are plausible faults. No action uses them; each property is run
once with one of them in place of the real operator, to see that it notices.

## 3. Correspondence with the code

**A Redis command** (`ZtRedis`) ends as *reply*, *error* (`REDIS_REPLY_ERROR`, the connection
lives), *lost* (NULL, not executed) or *unanswered* (NULL, but executed). `g_redis_ctx` is opened in
`main` and nowhere else, and a failed connect is only a warning, so a link is `"up"` or `"down"`, and
`"down"` lasts until the process restarts. Every command is one action, because between any two of
them another server, a crash or a Redis restart may come. A command that a dying process had under
way either runs before the next process serves, or never.

**A handler** (`ZtHandler`) is `pc` (the next command), `req` (the fields that
`http_bind_json_fields` or `http_query_value` bound), `rsp` (the last answer, a `zt_err_code_t`).
Binding is `Receive` (well-formed) or `RefuseRequest` (wrong method, missing or too long field).
`RestartProcess` may come at any point of any handler.

**ZtAccounts** follows `http_join` and `http_login` line by line; passwords are compared, the name
and the time decide nothing. `accepted` is a history variable: the joins answered SUCCESS.

**ZtRooms**: `UserExists`, `CheckFriend` (one member per step, `todo` the members left),
`RoomExists`, `RoomSave`, `AddMember`/`AddRoom` (the two `SADD`s of `redis_add_room_member`, `current`
the member), `InviteGet`, `JoinGet`, `SearchGet`. Decisions of the code without a command in between
(type check, room id) belong to the step of the command before them. Names are sequences of parts,
so `http_make_room_id` is concatenation and collides as `"%s_%s"` does: `r` + `a_b` = `r_a` + `b`.
The member list of a request is a set, whose size is what `http_validate_room_type_members` counts.
Requests that name a member twice are left out: the code counts tokens (`b,b` is refused for a 1:1
room) and adds a repeated member twice, which changes nothing. `SearchKey` is
the empty name because `redis_room_get` clears the structure that its key points into.

**ZtListing**: a SCAN reply is any batch of at most `ScanMax` stored keys; the scan may end once
every room stored at its start has been returned — that is what Redis guarantees, and a key may be
returned again. A lookup that finds nothing leaves the slot for the next key (rooms), or keeps the id
alone (friends). Text is counted in units, two per slot with fields, one per bare slot, against
`ListMax` and `BodyMax` (the second smaller, because `BODY_FMT` surrounds the list in a buffer of the
same size). A list over `ListMax` is a 500. One between the two is cut by `snprintf` where the body is
full: `generate_response_body` reports it, its callers ignore that, and a SUCCESS goes out which names
only the slots that fit (`Fits`). `body` is what the client reads: the slots that arrived whole, and
whether the text was cut.

**ZtServer**: `Wait` is `epoll_wait` with level-triggered events, at most `MaxEvents` of them. The
kernel keeps ready descriptors in turn, so a batch takes those passed over by the batch before first
(`passed`). `Accept` is `hdl_accept` with `ctx_http_insert`: the functions report failure with
positive codes while callers test `rc < 0`, so a full list goes unnoticed and the client is served
without a node. What a client sends is a sequence of segments: a routed request, one without a route (no
answer), or something that is no request line (the tail of a split request; 400 and close). `hdl_socket`
is two steps, because clients act while it works: `Read` takes up to `ReadMax` segments and looks at the
first, or finds the end of the stream; `Serve` writes the answer (`Finish`), or dies of the write.

`tcp` is what a write to a client finds. A client that closes its socket sends a FIN; only if it left an
answer unread (`"answered"`) does it send a RST instead, and if an answer was still on its way, a RST
after the FIN (`Quit`). A RST alone makes the next write fail with ECONNRESET, which `socket_send`
reports to callers that ignore it, and leaves the socket broken; an answer written after the FIN draws a
RST that leaves it broken, now or later (`Written`). A write on a broken socket raises SIGPIPE, which
nothing ignores (`Killed`, `Die`); Kubernetes then starts the process again (`Restart`).

A bit of `g_client_fd` past its end is written outside the table; what that memory holds is not modelled,
so such a bit is in no state.

**ZtChatRelay**: the loop's variables are `local`; `ShowClient` and `BeginTask` read them when they
run, as the captured variables of the C# lambdas. `HandleMessageReceived` uses `Invoke`, which waits
for the window's thread and so for all callbacks posted before (`WindowDone`). One `Receive` takes
any non-empty prefix of the segments that have arrived, so hello and first text can come as one. A
name or a relayed text is the sequence of segments it was made of. `RemoveClient` takes the entry out of
the list under the lock; `LoopAt` and `TaskAt` are where the loop and a task go on after a broadcast.
To `ZtBroadcast` it is related by `MembersOf` (a chat's members are the sockets its id lists) and `Seen`
(what a client has received, and what a broadcast under way still holds for it). A message so counts as
seen by every listed socket as soon as its broadcast begins, and the lock is held until it has been
handed out. The chat a task speaks to (`VoiceOf`) is that of the id it read when it began, which need not
be the chat its client asked for: `ZtBroadcast` leaves open which chat it is, and promises that it stays
the same. `by` tells apart messages that say the same, as two entries or two texts of late tasks may;
the text itself does not carry it.

**ZtWire** writes texts as sequences of tokens: the marks `quote`, `colon`, `comma`, `space` and
`amp`, and words. The client puts what was typed between quotes unescaped (`chat_join` and its like); the server
takes the first place where the quoted key stands, the next colon after it, and what is between the
quotes that follow (`Value`). The fields of `friends` are in the address, where `strtok` and
`http_query_value` end them at a blank or at `&`.

**ZtClient**: the control thread is one action per prompt; which prompt comes next is the order of the
form's `&&` chain. A line longer than its field is read in two parts, and the rest (`spill`) is what the
next prompt reads: its field, a wrong choice that is asked again, only the end of a line, which
cancels, or a command. `AskFriends` is the request for the friend list that `create` and `invite` write
before they ask for members, whose result is not looked at. A write on an open connection adds a
request to those unread; the first write after the server closed draws a RST; one after the RST fails or
kills the process. `ShowAnswers` and `LoopEnds` are `main`'s thread: when its loop returns, `main` closes
the socket and returns, which ends the process whatever the control thread waits for. On the server's
side (`Serve`), one read takes the text of up to `ReadMax` requests, of which the first is handled and
the others are gone; a full buffer may end inside the next request, whose tail is then read as if it were
one (`ServeTail`).

**ZtChatClient**: every call that `Connect`, `Disconnect` and `ReceiveMessages` make on the socket is a
step of its own, because the field may change between any two. A loop takes its argument from the field
when it begins (the lambda of `Task.Run`), and reads the field again for each `ReceiveAsync`. `Invoke`
waits until the window's thread is idle. A receive on a socket that was shut down or closed ends with
zero bytes or an exception, either of which is possible.

The server sends bytes, numbered per connection; `Ends` are those that end a character. A read takes any
number of those that have arrived, up to `Buffer`, and is decoded by itself (`Decoded`): a character
appears only if the read holds all of its bytes, otherwise there is a replacement mark for it. So one text
may be shown in several messages, and a character at the seam of two reads as two marks; `shown` keeps
what was shown mark by mark.

The history variable `apart` holds the connections opened while no earlier loop was running.
`LiveIsCurrent`, `ToldOfEnd` and the order of the bytes shown are about them. For the others they are
false: a stale loop's `Disconnect` clears or closes the connection that was opened since, and a stale loop
that receives takes a part of its bytes, which the window then shows earlier or later than the loop of the
connection shows the rest. That each byte is nevertheless shown once, and that such a loop does not tear a
whole character apart, is about all connections.

`PROJECT.json` gives the lines of the code for each definition.

## 4. Runs

Passing runs (`expect: pass`):

| Run | What it asks | What it shows |
|---|---|---|
| `accounts_one_server` | One server, every way to fail. `TypeOK`, `IndexPointsToUser`, `AcceptedTaken`, `IndexSound`, `AcceptedIntact`, `HalfSavedStays`, `RecordsImmutable`, `RegistrationSpec` | Accepted joins stay intact and unique; registration is atomic on the accounts that are saved *and* indexed; the price is that a user left half-saved can never be completed. |
| `rooms_one_server` | One server, colliding and too long ids, every way to fail. `TypeOK`, `MembersHaveRoom`, `UserRoomsBacked`, `RoomsVetted`, `CreatedComplete`, `RoomService` | An acknowledged room is complete; what a failure leaves is always a prefix: record, then member, then the member's list; so rooms appear whole, keep their record and only grow. |
| `listings` | Listings while rooms, users and friends are added. `TypeOK`, `FoundStored`, `RoomsComplete`, `FriendsComplete` | The answer sent names what was there at the start, up to slots, failed lookups and the cut of the body; a friend listing whatever lookup fails. |
| `server` | Clients come, send, quit, come again, more often than list and table allow. `TypeOK`, `EventsCurrent`, `TableExact`, `CtxListsOpen`, `KeptWhileRunning`, `EventuallyRead` | Closing only the descriptor at hand is what keeps the batch current; list overflow harms nobody's connection, nor does another client as long as the process runs; nobody starves. |
| `relay` | Two clients, two chats, tasks that start at any time. `TypeOK`, `SameOrder`, `Unbroken`, `RoomBroadcast`, `EventuallyGreeted` | Each chat is an atomic broadcast to the members it has, also where a late task speaks to the wrong one; no word of a client is lost, doubled or swapped, also where a text has become part of its name. |
| `client` | A user fills, cancels and overfills forms while answers arrive. `TypeOK`, `BoundAsSent`, `AnswersInOrder`, `LostOnlyBehind`, `IdentityWasSent`, `EventuallyShown`, `EndsWithServer` | Reads of several requests mix neither fields nor answers, although they lose requests; a request written alone is answered and printed; the end of the server ends the client. |
| `chat_client` | Buttons race with the loops of two connections. `TypeOK`, `LiveIsCurrent`, `ShownOnce`, `ToldOfEnd` | Whatever loops read a connection, each byte is shown once; one opened apart stays current, shows its bytes in order and reports its end. |

Runs that contradict a statement of the repository (`expect: violation`, [section 8](#8-findings)):
`accounts_mdn_unique`, `accounts_overlap`, `server_sigpipe`, `relay_late_start`, `client_keyword`.

The claims about several servers are not run but proved ([section 7](#7-proofs)): for any number of
servers, which also covers the two of a rolling update. `IndexSound`, `AcceptedIntact`,
`HalfSavedStays`, `RecordsImmutable`, `CreatedComplete` and `RoomService` are claims about one
server; `accounts_overlap` shows why.

## 5. Bounds

- Accounts: one server, three users, three numbers, two passwords. Two users contend for an id or a
  number, a third registers beside them; two passwords tell an overwritten record from the first.
- Rooms: two users and two names, chosen so that two pairs give one id (`r_a_b`) and one pair an id
  longer than `MaxParts`; both users can be creator, member and friend.
- Listings: two rooms and four slots (repeated keys fill the others), four users of whom one asks and the
  other three may be its friends, in three slots. A list of two rooms fits the body, one of three fills the
  list but not the body and is cut, one of four is a 500; three friends fit if two of them are bare. Scan
  replies of one key, so that a listing spans several. Failures *error* and *lost*: for a command that only reads, *unanswered*
  is the same as *lost*.
- Server: two clients and two descriptors, which are reused without limit; the context list is full
  after two connections, one descriptor lies outside the table, one segment per connection in
  flight. So it is in `server_sigpipe`, with one client: it sends its second request, whose answer is the
  fatal one, while the first is being served.
  Descriptors suffice for all clients: with fewer, `accept` fails (modelled, not reached in this
  run) and the loop spins until somebody quits.
- Relay: two clients, two chats; a client connects once. One client sends two texts, the least that can be
  swapped or joined into one read, the other (`Terse`) one. `relay_late_start` needs none: the room of the
  task is wrong before anything is said.
- Client: fields of two tokens and lines of up to five, so that the rest of a line can be the end of it,
  a value, a wrong choice or a command; a name that is a blank, and a number with a colon in it, which the
  server must not take for the layout of the body; three requests, the least with which a read can take two and end
  inside the third (`ReadMax` is two); two members, the most the client asks for in this instance.
  Commands: signup and login, whose codes depend on text; friends, without a body; create, with the
  friend request before it; quit. `invite` and `enter` fill and write as `create` does.
- Chat client: two connections and three bytes in all, the second and third of which are one character,
  with a buffer of two: a read may take the first byte with half of that character, or all of it. The
  second connection is what a stale loop of the
  first can harm; a third adds another stale loop, which the proofs cover.

`MaxUnread`, `MaxTexts`, `Terse`, `MaxSent`, `MaxConns`, `MaxBytes`, `ScanMax` and `Askers` bound what the
surroundings do; `MaxClients`,
`TableBits`, `MaxEvents`, `RoomMax`, `FriendMax`, `ListMax`, `BodyMax`, `MaxParts`, `Room`,
`MaxMembers`, `Buffer` and `ReadMax` are constants of the code, scaled down. Deadlock is checked in all runs but
the relay's, where the system stops once every client has left, and the C client's, whose process
ends.

## 6. Fairness

Safety runs use no fairness.

- `server`: weak fairness of `LoopStep`. The loop has a thread of its own. It blocks in `epoll_wait`, which
  returns when something is ready, and inside a handler in `redisCommand` (and, at start-up, in
  `redisConnect`), for which the code sets no timeout: that Redis answers each command, or that its
  connection breaks, is assumed. A Redis that hangs with its connection up stops everybody, and
  `EventuallyRead` with them. Nothing is assumed of clients.
- `relay`: weak fairness of the window (a message loop) and of `SayHello` (the client sends its hello
  in the same function that connects); strong fairness of the accept loop and of each task, because
  they wait for one lock that others take again and again, and a monitor serves its waiters in the
  end. Without `SayHello` a silent client blocks the loop for ever: the loop receives the hello
  before it accepts the next client. `EventuallyGreeted` holds under this assumption and not without.
- `client`: weak fairness of `LoopStep`, the client's event loop, and of the server's reads of this
  connection (`WF_up(Read)`: a step that takes something from what is unread; `EventuallyRead` of
  `ZtServer` is where that comes from). Nothing is assumed of the user: the control thread may wait for
  ever, and `EndsWithServer` holds nevertheless.
- `chat_client`: weak fairness of the window's own steps, and strong fairness of each loop, because a loop
  whose callback waits for an idle window is interrupted by every click, and the window's queue is served
  in order.

## 7. Proofs

`tlapm` checks all of them; the modules state no unproved facts.

Assumptions: those of the modules (`FailuresAssumption`: failures are among the three;
`NoneAssumption`: `None` is no user, number, record, ...; `NameAssumption`: names are non-empty
sequences, `MaxParts` a natural number; `TokensAreStrings`: the literals used as tokens of a text are
strings, for which the provers have no rule; TLC evaluates it). Users, numbers, names, servers may be any sets, finite or
not.

**Accounts** (`ZtAccountsProofs`).
`SharedInv` is inductive for any number of servers. It adds to the properties what a handler between
`HSET` and `SET` knows: its user is stored, or it has lost its Redis (`SaveInv`). Without this clause
`IndexPointsToUser` is not inductive, because `SET` would write a name nobody vouches for; and the
clause is true of a Redis that loses its data only because the data and the connection are lost
together. From it: `TypeCorrect`, `IndexNeverDangles`, `AcceptedStaysTaken`.
`SoloInv`, under `SingleServer`, adds what each check has established by each later command
(`ChecksHold`): nobody else can have falsified it. From it: `SoloIndexSound`, `SoloAcceptedIntact`,
and, because `UserSave` then meets no record, `SoloRecordsImmutable` and `SoloHalfSavedStays`.
`SoloRegistration` proves the refinement: `MdnSave` is `Register` of the abstract specification, the
Redis restart is `LoseAll`, everything else stutters on `CompleteAccounts`.

**Rooms** (`ZtRoomsProofs`). `RoomsInv` is inductive for any number of servers. Beside the types of
the request at each command, it has `AddsBacked` (a handler that adds members over a live connection
has its room stored, and one that links a member back has the member in) and `ChecksHold` (the checks
of a creation stay true until its `HSET`, because registrations and friendships are only added while
the connection lives). The type part shows that no handler writes under an id that is too long. From
it: `RoomsTypeCorrect`, `MembersAlwaysHaveRoom`, `RoomListsBacked`, `RoomsStayVetted`. These hold also
when two servers create one id at a time, where `RoomsImmutable` fails.
`SoloRoomsInv`, under `SingleServer`, adds that `HSET` meets no record of its id (`SavesFresh`) and
which members a creation under way has linked already, both ways (`LinkedSoFar`): everybody who is
neither in `todo` nor `current`. At the answer that is everybody. From it: `SoloCreatedComplete` and
`SoloRoomsImmutable`.

`SoloRoomService` proves the refinement. A room of `ZtRoomService` is the record
and the users whose both keys name the room; it is there once all users of the record are (`Complete`).
Writing a record or a member set changes nothing that is visible, by `MembersHaveRoom` and
`UserRoomsBacked`; writing the user's own key adds one link, which opens the room, makes it grow, or is
not seen yet.

**Listings** (`ZtListingProofs`). A room or friend that was there at the start is in one of three places:
among the slots filled, among the keys not yet looked up, or among those SCAN still owes. `ListingInv`
says so (`Covered`), for as long as no lookup failed or, for friends, whatever failed; that the three hold
only what is stored while the connection holds, and a slot with fields only a registered user
(`Grounded`); and which request and how many slots a handler
has at each command (`Placed`). From it: `ListingTypeCorrect`, `FoundStoredHolds`, `RoomsCompleteHolds`,
`FriendsCompleteHolds`, for any number of servers, any rooms, users and limits. The last two are about
the answer that is sent: what `AnswerList` leaves of the list is all of it, or a piece to which no slot
could be added within `BodyMax`.

**Event loop** (`ZtServerProofs`; `ServerAssumption`: the limits are natural numbers, those that size a
list, a batch or a read positive). `ServerInv` is inductive for any number of clients and any limits.
It adds that no client has two places, among descriptors and turns in the accept queue (`Placed`), that
the descriptor of the request in hand has no event left in the batch (`ServingApart`), and that an event still in the batch is about an open descriptor with something to read, or about a queue
with somebody in it (`BatchKnown`). The latter is what makes a batch safe to handle in any order: only
the handler of a descriptor reads from it or closes it, and a descriptor is free for `accept` only when
no event of the batch is about it. Without `Placed`, closing one connection could take away what another
event is about. From it: `ServerTypeCorrect`, `EventsStayCurrent`, `TableStaysExact`, `NodesListOpen`,
and `KeptWhileRunningHolds`: as long as the process runs, a handler finds the end of a stream only when
the client is gone. (`tcp`, and with it the death of the process, is free in these proofs: they hold
wherever SIGPIPE strikes.)

**C client** (`ZtClientProofs`). `NetInv` follows the number of a request: numbers rise along the answers
printed, those on their way and the requests unread, each list before the next (`Ordered`), and a
request written alone is the first of those unread until it is answered (`AloneFirst`). The second is
what makes `LostOnlyBehind` inductive: what a read throws away is behind its first request. `LoginInv`
says that whoever is logged in has written a login request and none for another user since. From them:
`AnswersStayInOrder`, `LostOnlyBehindHolds`, `IdentityWasSentHolds`, for any lines, commands and limits.
`TextsInv` is about the texts: whatever is kept, asked for, sent, bound or stored is over one alphabet, if
that alphabet holds the words of the lines. With all strings for it: `ClientTypeCorrect`. With all but
quotes and the names of fields (`PlainLines`; blanks, colons, commas and every other mark may be typed):
`BoundAsSentHolds`, because a quoted key then stands once in a body, before the value it belongs to, and a
text read with it comes behind it. `PlainLines` asks of a user id moreover that it has no blank and no
`&`, because in the friend request it stands in the address, where these end it; `Names` says that what
the client keeps and sends as an id is always one that was typed as such, never the rest of a longer line
of another field. The finding `client_keyword` shows what happens when a value is the name of a field; a
quote inside a value ends it early in the same way. What a body is made of is a fold over
its fields; facts about it are proved by its least counterexample (`LeastNumber`), which stands for the
induction along its parts.

**Relay** (`ZtChatRelayProofs`; `Chats` is finite). `RelayInv` is inductive whenever tasks start. The first
segment of a client that was not greeted is its hello, so the loop reads the chat that the client chose
(`InboxInv`, `LoopInv`); ids are given out without gaps, so that a new one is nobody's (`IdsInv`); hence
a list holds clients of one chat (`ListedInv`), and whenever a task begins, the loop's variable holds the
id of some room (`StartInv`). From it: `RelayTypeCorrect`, `RoomsApartHolds`.

**Order of messages** (`ZtChatOrderProofs`, whenever tasks start). A broadcast holds the lock, so what it
still has to hand out is what its readers lack and the others have. `OrderInv` says that the id a task
speaks to is that of a chat and stays so (`RoomInv`), that a socket stands once in a list, and not before
it is registered (`ListedOnce`), that the numbers of a client's segments rise, those on their way being
later than the one its task has read (`RisingInv`), so that nothing relayed comes again (`SpentInv`), and
that whoever has received the message under way has received it last (`LastInv`). From it:
`SameOrderHolds`. `RelayIsBroadcast` proves the refinement: `SayHello` is `Choose`, `Register` is `Join`,
`RemoveClient` is `Leave`, `BeginTask` is `Settle`, and the beginning of a broadcast is `Tell`, or a
stutter when nobody is listed; handing a message out, and every other step, stutters on `Seen`. A join
finds a newcomer that has seen nothing because only listed sockets are handed anything (`NewcomerInv`),
and `Tell` finds its message new because of `SpentInv`.

**Chat client** (`ZtChatClientProofs`). `ClientInv` is inductive. It is carried by `ApartInv`: while a
connection opened apart is in the field, no other loop runs, and nobody else waits on its socket; so no
loop is left that could disconnect it or enable the button while it lives (`LiveInv`). Of the bytes, on any
connection, it says that what is unread is the last that was sent (`InboxInv`), that every byte sent is in one
place (`PlaceInv`) and in that place stands in order for connections opened apart (`OrderInv`), and that a
character shown as such stands together (`UnsplitInv`). From it: `ClientTypeCorrect`,
`LiveIsCurrentHolds`, `ShownOnceHolds`, for any number of connections and bytes, and any buffer.

Only model-checked is what needs fairness or ENABLED, beyond the provers at hand: `EventuallyRead`,
`EventuallyGreeted`, `EventuallyShown`, `EndsWithServer`, `ToldOfEnd`; and `Unbroken`, which speaks of the
texts that a client has got joined into one sequence, a recursion over data. Every other property of a
passing run is a theorem.

## 8. Findings

1. **Numbers are not unique** (`accounts_mdn_unique`). `redis_user_save` writes record and index with
   two commands; a failure in between leaves a user whose number is free for another. `README.md:26`
   says both are unique per user.
2. **A user id is accepted twice** (`accounts_overlap`). Two servers on one Redis both pass `EXISTS` and
   both `HSET`; the second overwrites the first.
3. **A client that quits can stop the server** (`server_sigpipe`). A client sends two requests, the second
   while the first is served, and closes its socket (FIN). The first answer draws a RST from the host of
   the client, which leaves the socket broken; the second is written all the same and raises SIGPIPE, which
   nothing ignores. `zt_socket.c:242` promises that only the one descriptor is cleaned up.
4. **A late task relays to the wrong room** (`relay_late_start`). The lambda captures the loop's variables.
5. **A value that is the name of a field is taken for it** (`client_keyword`). A user whose id is `password`
   is stored with another password than was sent: the key is searched in the whole text, values included.

Also seen while modelling, and exercised in the runs without contradicting a document: every failure of
a lookup looks like a missing user or room; a half-saved user can log in but never complete its
registration; a search always ends in ROOM_NOT_FOUND, because `http_search_room` passes a key that lies
inside the result `redis_room_get` clears first; a listing whose body does not fit is cut and sent with
200; in the prototype a leaver stays in its room's list, unless it left right after the greeting; a 1:1 room grows by invitations, which anyone may send; after `MAX_CLIENTS` connections in
all, clients are served without a node in the context list; requests that arrive together lose all but
the first.

## 9. What is not modelled

- **Queue, SQL** (`zt_queue.c`, `zt_conn.c`, `zt_sql.h`): not in `SRCS` of the Makefile, and nothing calls
  them. (`dequeue` would wait for its own mutex, `zt_queue.c:122`; no program can meet it.)
- **Start-up of the C client** (its `socket` and `connect`, and the thread's creation), and what its path
  never reaches: `HDL_SOCKET`, `HDL_ACCEPT`, `HDL_HEADER` and `zt_ctx.c`, a copy of the server's code, and
  `chat_search_room`.
- **Layout of an answer**: status line, headers, escapes. The client prints what it receives and looks at
  none of it.
- **Chat prototype**: the classes in `src/Common`, which neither program uses; sending a text from the
  window (what it does is in `ZtChatRelay`) and closing the window.
- **Functions nothing calls** (`ctx_http_free`, `socket_accept`), errors at start-up, `StopServer` of the
  prototype (a shutdown of a listening socket, whose effect is the platform's), configuration, logging,
  images, build rules.
- **Tokens and contact synchronisation**: `README.md` sections 2, 3 and on describe them; the code has
  none of it.
- **Writes of part of an answer** by the C server: the sockets are non-blocking and `socket_send` issues one
  `write`, so a client that does not read can be sent a part of an answer, or none. An answer of the server
  is one thing in `ZtServer` and `ZtClient`; bytes are modelled in the chat client only.
- **A Redis that hangs** with its connection up: see [section 6](#6-fairness).
- **The memory behind `g_client_fd` and behind `read_buf`**: what is written outside of either.

## 10. Plan

Done, in order of weight: accounts with refinement and proofs; rooms with refinement and proofs; the event
loop; listings; the relay, as an atomic broadcast; the C client with the text of its requests; the chat client;
proofs for each.

Left:

1. The bytes of a connection: answers written in part to a client that does not read, and a read of exactly
   `BUF_MAX_LEN` bytes.
2. `ZtChatRelay` and `ZtChatClient` composed, so that what a stale loop does shows at the other members.
