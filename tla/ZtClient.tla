------------------------------ MODULE ZtClient ------------------------------
(***************************************************************************)
(* The C client (src/CLIENT) and the connection it has with the server.    *)
(* The client process has two threads that share the socket: the control   *)
(* thread prompts for lines and writes requests (zt_ctrl.c, zt_chat.c),    *)
(* and main's event loop prints whatever arrives (zt_evt.c, zt_hdl.c).     *)
(* Neither waits for the other: a request may be written while earlier     *)
(* ones are unread or unanswered.  The server reads as much as has         *)
(* arrived, and handles the first request of a read only (hdl_socket).     *)
(*                                                                         *)
(* Redis answers, and the checks of the mdn and the rooms are their own    *)
(* modules' (ZtAccounts, ZtRooms, ZtListing): here a request about a room  *)
(* or a list is answered with some result.                                 *)
(***************************************************************************)
EXTENDS ZtWire

CONSTANTS Lines,        \* the lines a user may type at each prompt
          Room,         \* tokens that fit a field (USER_ID_MAX_LEN - 1 and the like)
          Commands,     \* the commands the user may give
          MaxMembers,   \* MAX_MEMBER_INPUT
          ReadMax,      \* whole requests that fit the server's read buffer
          MaxSent       \* bound: requests that are written

FormOf == [signup |-> <<"user_id", "name", "password", "mdn">>,
           login  |-> <<"user_id", "password">>,
           create |-> <<"room_id", "password", "room_type", "members">>,
           invite |-> <<"room_id", "members">>,
           enter  |-> <<"room_id", "password">>]

Forms == DOMAIN FormOf

ASSUME ClientAssumption ==
    /\ \A prompt \in FieldNames : Lines[prompt] \subseteq Seq(STRING) \ {<<>>}
    /\ Commands \subseteq Forms \cup {"friends", "list", "quit"}
    /\ Room \in Nat \ {0} /\ MaxMembers \in Nat \ {0}
    /\ ReadMax \in Nat \ {0} /\ MaxSent \in Nat

VARIABLES
    proc,       \* the client: "running", "closing" (main closed the socket), "ended"
    form,       \* what the control thread prompts for: "select", a form, or "eof"
    filled,     \* the fields read so far
    left,       \* members still to be asked for (0: nor their count); NotAsked: the
                \* friend list was not even requested
    members,    \* the members read so far, with commas between
    spill,      \* the rest of a line too long for its field, in a set; or {}
    login,      \* g_login_user_id
    sent,       \* the requests written, in order, and how the connection was then
    up,         \* those of them the server has not read: number, and whether whole
    conn,       \* the server's end: "open", "closed", or "reset" (a RST has arrived)
    down,       \* the answers on their way: number of the request, and code
    shown,      \* the answers printed
    accounts    \* the stored users

control == <<form, filled, left, members, spill>>
network == <<sent, up, conn, down>>
vars == <<proc, form, filled, left, members, spill, login, sent, up, conn, down, shown, accounts>>

NotAsked == MaxMembers + 1

Init ==
    /\ proc = "running"
    /\ form = "select"
    /\ filled = <<>>
    /\ left = NotAsked
    /\ members = <<>>
    /\ spill = {}
    /\ login = <<>>
    /\ sent = <<>>
    /\ up = <<>>
    /\ conn = "open"
    /\ down = <<>>
    /\ shown = <<>>
    /\ accounts = {}

-----------------------------------------------------------------------------
\* Writing a request (SOCKET_SendRequestBuf, SOCKET_SendHttpRequest).  The names that
\* end in Unchecked, Cleanly, Peeked or Back are faulty variants, used by no
\* action.

\* Logged in means that a login request was written, whatever its answer.
LoginAfter(op, values) == IF op = "login" THEN values["user_id"] ELSE login

Written(op, values, when) ==
    /\ Len(sent) < MaxSent
    /\ sent' = Append(sent, [op |-> op, v |-> values, body |-> Body(op, values),
                            when |-> when])
    /\ login' = LoginAfter(op, values)

\* A server that has closed answers the first write with a RST; after it a write
\* fails, or kills the process with SIGPIPE.  In "closing" the descriptor is closed.
Write(op, values) ==
    \/ /\ proc = "running" /\ conn = "open"
       /\ Written(op, values, IF up = <<>> THEN "alone" ELSE "behind")
       /\ up' = Append(up, [n |-> Len(sent) + 1, whole |-> TRUE])
       /\ UNCHANGED <<proc, conn>>
    \/ /\ proc = "running" /\ conn = "closed"
       /\ Written(op, values, "closed")
       /\ conn' = "reset"
       /\ UNCHANGED <<proc, up>>
    \/ /\ proc = "running" /\ conn = "reset"
       /\ proc' = "ended"
       /\ UNCHANGED <<sent, up, conn, login>>
    \/ /\ proc = "closing" \/ conn = "reset"
       /\ UNCHANGED <<proc, sent, up, conn, login>>

-----------------------------------------------------------------------------
\* The control thread.

\* The field asked for next in a form.
Asking == DOMAIN filled # Range(FormOf[form])
Prompt == FormOf[form][Cardinality(DOMAIN filled) + 1]

ToSelect == /\ form' = "select"
            /\ filled' = <<>>
            /\ left' = NotAsked
            /\ members' = <<>>

LoggedInUnchecked == TRUE
LoggedIn == login # <<>>

\* CTRL_proc.
Run(command) ==
    \/ /\ command \in Forms
       /\ command \in {"create", "invite"} => LoggedIn
       /\ form' = command
       /\ UNCHANGED <<proc, filled, left, members, login, sent, up, conn>>
    \/ /\ command = "friends" /\ LoggedIn
       /\ Write("friends", [user_id |-> login])
       /\ UNCHANGED <<form, filled, left, members>>
    \/ /\ command = "list"
       /\ Write("list", <<>>)
       /\ UNCHANGED <<form, filled, left, members>>
    \/ /\ command = "quit"
       /\ proc' = "ended"
       /\ UNCHANGED <<form, filled, left, members, login, sent, up, conn>>

\* CTRL_handler: a command from the user, or from what is left of an earlier line.
Select ==
    /\ proc # "ended" /\ form = "select"
    /\ \E command \in IF spill = {} THEN Commands ELSE {Head(r) : r \in spill \ {<<>>}} :
          Run(command)
    /\ spill' = {}
    /\ UNCHANGED <<down, shown, accounts>>

\* What is left of a line and is no command, type or count: asked again, or, if it
\* is only the end of the line, the input is cancelled.
Skip ==
    /\ proc # "ended" /\ spill # {}
    /\ spill' = {}
    /\ \/ /\ form = "select"
          /\ UNCHANGED <<form, filled, left, members>>
       \/ /\ form \in Forms /\ Asking
          /\ \/ Prompt = "room_type"
             \/ Prompt = "members" /\ left = 0
          /\ IF spill = {<<>>} THEN ToSelect ELSE UNCHANGED <<form, filled, left, members>>
    /\ UNCHANGED <<proc, login, network, shown, accounts>>

\* An empty line, or the end of the input, at a prompt; and at the menu, where it
\* ends the thread and nothing else.
Cancel ==
    /\ proc # "ended" /\ form \in Forms /\ spill = {} /\ Asking
    /\ ToSelect
    /\ UNCHANGED <<proc, spill, login, network, shown, accounts>>

EndOfInput ==
    /\ proc # "ended" /\ form = "select" /\ spill = {}
    /\ form' = "eof"
    /\ UNCHANGED <<proc, filled, left, members, spill, login, network, shown, accounts>>

\* ctrl_read_line: fgets stops when the field is full, and leaves the rest of the
\* line, the end of it at least, to the next fgets.
ReadLine(Use(_)) ==
    \E line \in IF spill = {} THEN Lines[Prompt] ELSE spill :
        /\ spill' = IF Len(line) < Room THEN {} ELSE {SubSeq(line, Room + 1, Len(line))}
        /\ IF line = <<>> THEN ToSelect
           ELSE Use(IF Len(line) < Room THEN line ELSE SubSeq(line, 1, Room))

Fill(prompt, value) ==
    filled' = [key \in DOMAIN filled \cup {prompt} |->
                  IF key = prompt THEN value ELSE filled[key]]

ReadField ==
    /\ proc # "ended" /\ form \in Forms /\ Asking
    /\ Prompt \notin {"room_type", "members"}
    /\ ReadLine(LAMBDA value : Fill(Prompt, value) /\ UNCHANGED <<form, left, members>>)
    /\ UNCHANGED <<proc, login, network, shown, accounts>>

\* ctrl_read_room_type
OneToOne == <<"1", "colon", "1">>
OneToMany == <<"1", "colon", "N">>

ReadType ==
    /\ proc # "ended" /\ form \in Forms /\ Asking
    /\ Prompt = "room_type" /\ spill = {}
    /\ \E type \in {OneToOne, OneToMany} : Fill("room_type", type)
    /\ UNCHANGED <<proc, form, left, members, spill, login, network, shown, accounts>>

\* ctrl_request_friend_list, whose result is not looked at.
AskFriends ==
    /\ proc # "ended" /\ form \in {"create", "invite"} /\ Asking
    /\ Prompt = "members" /\ left = NotAsked
    /\ Write("friends", [user_id |-> login])
    /\ left' = IF form = "create" /\ filled["room_type"] = OneToOne THEN 1 ELSE 0
    /\ UNCHANGED <<form, filled, members, spill, down, shown, accounts>>

\* ctrl_read_count
CountsUnchecked == 1 .. MaxMembers + 2
Counts == 1 .. MaxMembers

ReadCount ==
    /\ proc # "ended" /\ form \in Forms /\ Asking
    /\ Prompt = "members" /\ left = 0 /\ spill = {}
    /\ left' \in Counts
    /\ UNCHANGED <<proc, form, filled, members, spill, login, network, shown, accounts>>

\* ctrl_read_members, ctrl_read_invite_members: one member more.
WithMember(member) ==
    IF members = <<>> THEN member ELSE members \o <<"comma">> \o member

ReadMember ==
    /\ proc # "ended" /\ form \in Forms /\ Asking
    /\ Prompt = "members" /\ left \in 1 .. MaxMembers
    /\ ReadLine(LAMBDA member :
           /\ members' = WithMember(member)
           /\ left' = left - 1
           /\ IF left = 1 THEN Fill("members", WithMember(member)) ELSE UNCHANGED filled
           /\ UNCHANGED form)
    /\ UNCHANGED <<proc, login, network, shown, accounts>>

\* All fields read: chat_join and its like build the request and write it.
Values == IF form \in {"create", "invite"}
          THEN [key \in DOMAIN filled \cup {"user_id"} |->
                   IF key = "user_id" THEN login ELSE filled[key]]
          ELSE filled

Submit ==
    /\ proc # "ended" /\ form \in Forms /\ ~Asking
    /\ Write(form, Values)
    /\ ToSelect
    /\ UNCHANGED <<spill, down, shown, accounts>>

-----------------------------------------------------------------------------
\* main's thread.

\* HDL_CLIENT_RECV prints what has arrived.
ShowAnswers ==
    /\ proc = "running"
    /\ \E k \in 1 .. Len(down) :
          /\ shown' = shown \o SubSeq(down, 1, k)
          /\ down' = SubSeq(down, k + 1, Len(down))
    /\ UNCHANGED <<proc, control, login, sent, up, conn, accounts>>

\* EventLoop returns when a read gives 0 or an error, main closes the socket, and its
\* return ends the process, whatever the control thread waits for.
StreamEndedCleanly == conn = "closed"
StreamEnded == conn \in {"closed", "reset"}

LoopEnds ==
    /\ proc = "running" /\ down = <<>> /\ StreamEnded
    /\ proc' = "closing"
    /\ UNCHANGED <<control, login, network, shown, accounts>>

Exit ==
    /\ proc = "closing"
    /\ proc' = "ended"
    /\ UNCHANGED <<control, login, network, shown, accounts>>

-----------------------------------------------------------------------------
\* The server's end (hdl_socket).

\* The text of a read of k requests, after the first header.
TextRead(k) ==
    sent[up[1].n].body \o FlattenSeq([i \in 1 .. k - 1 |-> Header \o sent[up[i + 1].n].body])

\* The request of a read that is handled, and what stays unread of those behind.  A
\* full buffer may end inside the next request.
HandledBack(k) == up[k]
Handled(k) == up[1]

RestPeeked(k) == SubSeq(up, 1 + (k - 1), Len(up))
Rest(k) == SubSeq(up, k + 1, Len(up))

Unread(k) == {Rest(k)} \cup
             (IF k = ReadMax /\ k < Len(up)
              THEN {[Rest(k) EXCEPT ![1] = [n |-> Rest(k)[1].n, whole |-> FALSE]]}
              ELSE {})

Stored(b) == {a \in accounts : a["user_id"] = b["user_id"]}

\* The code a request is answered with; "RESULT" for those other modules model.
Code(op, b) ==
    IF ~Complete(b) THEN "INVALID_PARAMS"
    ELSE CASE op = "signup" -> IF Stored(b) # {} THEN "USER_ALREADY_EXISTS"
                               ELSE IF \E a \in accounts : a["mdn"] = b["mdn"]
                                    THEN "MDN_ALREADY_EXISTS"
                               ELSE "SUCCESS"
           [] op = "login" -> IF Stored(b) = {} THEN "USER_NOT_FOUND"
                              ELSE IF \E a \in Stored(b) : a["password"] = b["password"]
                                   THEN "SUCCESS"
                              ELSE "WRONG_PASSWORD"
           [] OTHER -> "RESULT"

\* Handling the nth request: the code of the answer, and what is stored.
AnswerTo(n, text) ==
    LET op == sent[n].op
        b == Bound(op, sent[n].v, text)
        code == Code(op, b)
    IN [code |-> code, stored |-> IF op = "signup" /\ code = "SUCCESS" THEN {b} ELSE {}]

Serve ==
    /\ conn = "open"
    /\ \E k \in 1 .. ReadMax :
        /\ k <= Len(up) /\ Handled(k).whole
        /\ \E answer \in {AnswerTo(Handled(k).n, TextRead(k))} :
              /\ down' = Append(down, [n |-> Handled(k).n, code |-> answer.code])
              /\ accounts' = accounts \cup answer.stored
        /\ up' \in Unread(k)
    /\ UNCHANGED <<proc, control, login, sent, conn, shown>>

\* A read that begins inside a request: no route and no answer, or no request line
\* at all, answered 400; that closes the connection, with a RST if more had come.
ServeTail ==
    /\ conn = "open"
    /\ \E k \in 1 .. ReadMax :
        /\ k <= Len(up) /\ ~up[1].whole
        /\ \/ /\ up' \in Unread(k)
              /\ UNCHANGED <<conn, down>>
           \/ /\ up' = <<>>
              /\ conn' = IF k < Len(up) THEN "reset" ELSE "closed"
              /\ down' = Append(down, [n |-> up[1].n, code |-> "BAD_REQUEST"])
    /\ UNCHANGED <<proc, control, login, sent, shown, accounts>>

\* The server process ends (ZtServer); the accounts are in Redis.
ServerDies ==
    /\ conn = "open"
    /\ conn' = IF up = <<>> THEN "closed" ELSE "reset"
    /\ up' = <<>>
    /\ UNCHANGED <<proc, control, login, sent, down, shown, accounts>>

-----------------------------------------------------------------------------
ControlStep == \/ Select \/ Skip \/ Cancel \/ EndOfInput
               \/ ReadField \/ ReadType \/ AskFriends \/ ReadCount \/ ReadMember
               \/ Submit

LoopStep == ShowAnswers \/ LoopEnds \/ Exit

ServerStep == Serve \/ ServeTail \/ ServerDies

Next == ControlStep \/ LoopStep \/ ServerStep

Spec == Init /\ [][Next]_vars

\* Some read of the server, told from what stays unread.
Read == /\ conn = "open"
        /\ up # <<>>
        /\ up' \in {<<>>} \cup UNION {Unread(k) : k \in {m \in 1 .. ReadMax : m <= Len(up)}}

\* The two event loops block only while there is nothing to read.  Nothing makes the
\* user type.
FairSpec == Spec /\ WF_vars(LoopStep) /\ WF_up(Read)

-----------------------------------------------------------------------------
\* Properties.

Text == Seq(STRING)
Codes == {"SUCCESS", "INVALID_PARAMS", "USER_ALREADY_EXISTS", "MDN_ALREADY_EXISTS",
          "USER_NOT_FOUND", "WRONG_PASSWORD", "RESULT", "BAD_REQUEST"}
Answers == Seq([n : 1 .. MaxSent, code : Codes])

\* Every variable has its type (zt_ctrl.c, zt_evt.c).
TypeOK ==
    /\ proc \in {"running", "closing", "ended"}
    /\ form \in {"select", "eof"} \cup Forms
    /\ \A key \in DOMAIN filled : key \in FieldNames /\ filled[key] \in Text
    /\ left \in 0 .. NotAsked
    /\ members \in Text
    /\ spill \subseteq Text /\ \A r, q \in spill : r = q
    /\ login \in Text
    /\ Len(sent) <= MaxSent
    /\ \A n \in DOMAIN sent : /\ sent[n].op \in Ops
                              /\ sent[n].when \in {"alone", "behind", "closed"}
                              /\ sent[n].v \in [Keys(sent[n].op) -> Text]
                              /\ sent[n].body = Body(sent[n].op, sent[n].v)
    /\ up \in Seq([n : 1 .. MaxSent, whole : BOOLEAN])
    /\ conn \in {"open", "closed", "reset"}
    /\ down \in Answers
    /\ shown \in Answers
    /\ \A a \in accounts : a \in [Keys("signup") -> Text]

\* Whatever part of the text behind a request the same read takes, the server binds
\* the fields that the client wrote: where no quote and no name of a field is typed,
\* and no blank or ampersand in a user id (msg_get_json_string_field_helper looks in
\* the whole read, http_query_value stops at an ampersand).
BoundAsSent ==
    \A k \in 1 .. ReadMax :
        k <= Len(up) /\ up[1].whole =>
            LET r == sent[up[1].n] IN Bound(r.op, r.v, TextRead(k)) = r.v

\* The answers come in the order of the requests, and none twice, so that the next
\* line printed is never about a request before the last one answered.
AnswersInOrder ==
    LET answers == shown \o down IN
    \A i, j \in DOMAIN answers : i < j => answers[i].n < answers[j].n

\* While the server lives, a request gets no answer only if it was written while an
\* earlier one was unread (create right after its own friends request).
LostOnlyBehind ==
    \A n \in DOMAIN sent : conn = "open" /\ sent[n].when = "alone" =>
        \/ \E i \in DOMAIN up : up[i] = [n |-> n, whole |-> TRUE]
        \/ \E i \in DOMAIN down : down[i].n = n
        \/ \E i \in DOMAIN shown : shown[i].n = n

\* A request that names the user names the one of the last login request written
\* before it, answered or not (ctrl_login_interactive, zt_ctrl.c:236).
IdentityWasSent ==
    \A n \in DOMAIN sent : sent[n].op \in {"friends", "create", "invite"} =>
        \E m \in 1 .. n - 1 :
            /\ sent[m].op = "login" /\ sent[m].v["user_id"] = sent[n].v["user_id"]
            /\ \A i \in m + 1 .. n - 1 : sent[i].op # "login"

\* A request written while nothing is unread is answered, and the answer printed, or
\* the process ends: stated of all of them at once, which the bound on the requests
\* allows.
AllShown == \A n \in DOMAIN sent :
                sent[n].when = "alone" => \E i \in DOMAIN shown : shown[i].n = n

EventuallyShown == []<>(proc # "running" \/ AllShown)

\* When the server has closed the connection the process ends, although its control
\* thread waits for input (EventLoop, main).
EndsWithServer == conn # "open" ~> proc = "ended"
=============================================================================
