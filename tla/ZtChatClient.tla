---------------------------- MODULE ZtChatClient ----------------------------
(***************************************************************************)
(* The chat prototype's client: ClientManager (ClientNetwork.cs) and its   *)
(* window (ClientForms.cs).  The window's thread runs the buttons; each    *)
(* connection has a receive loop (ReceiveMessages) on another thread,      *)
(* which runs a callback on the window's thread, and waits for it, to show *)
(* a message or to report an end (Control.Invoke).                         *)
(*                                                                         *)
(* All of them use the one field "socket".  A loop reads the field anew    *)
(* each time it receives, and Disconnect reads it for every call, so that  *)
(* a loop whose connection is over may act on the connection that the user *)
(* has opened since.  What depends on a connection having a loop of its    *)
(* own is stated of those that were opened apart: while no earlier loop    *)
(* was running.                                                            *)
(*                                                                         *)
(* What the server sends are bytes, numbered per connection: TCP keeps     *)
(* neither texts nor characters apart.  A task is modelled by the          *)
(* connection whose Connect started it.                                    *)
(***************************************************************************)
EXTENDS Naturals, Sequences, FiniteSets, Functions

CONSTANTS Ends,         \* the bytes that end a character, in what the server sends
          Buffer,       \* bytes of the buffer of ReceiveMessages (1024)
          MaxConns,     \* bound: sockets the window creates
          MaxBytes      \* bound: bytes the server sends on all of them

ASSUME ChatClientAssumption ==
    /\ MaxConns \in Nat \ {0} /\ MaxBytes \in Nat /\ Buffer \in Nat \ {0}
    /\ Ends \subseteq 1 .. MaxBytes

Conns == 1 .. MaxConns
None == 0               \* null
Window == 0             \* the window's thread, besides the loops
Actors == {Window} \cup Conns

VARIABLES
    field,      \* ClientManager.socket: a connection, or None
    enabled,    \* btnConnect.Enabled
    pc,         \* where the window's thread and each connection's loop are
    sock,       \* each socket: "unmade", "new", "connected", "shut" or "closed"
    peer,       \* the server's end: "none", "open", "fin" or "reset"
    pushed,     \* how many bytes the server has sent
    inbox,      \* those of them not yet received
    own,        \* serverSocket, the argument of each loop while it runs
    from,       \* the socket a loop waits for, or has a text of
    text,       \* what a loop has received and decoded, and not yet shown
    shown,      \* what the window has shown of each connection, one read after the other
    apart       \* history: connections opened while no earlier loop was running

vars == <<field, enabled, pc, sock, peer, pushed, inbox, own, from, text, shown, apart>>

Init ==
    /\ field = None
    /\ enabled = TRUE
    /\ pc = [a \in Actors |-> IF a = Window THEN "idle" ELSE "none"]
    /\ sock = [c \in Conns |-> "unmade"]
    /\ peer = [c \in Conns |-> "none"]
    /\ pushed = [c \in Conns |-> 0]
    /\ inbox = [c \in Conns |-> <<>>]
    /\ own = [c \in Conns |-> None]
    /\ from = [c \in Conns |-> None]
    /\ text = [c \in Conns |-> <<>>]
    /\ shown = [c \in Conns |-> <<>>]
    /\ apart = {}

Go(a, step) == pc' = [pc EXCEPT ![a] = step]

server == <<peer, pushed, inbox>>
reads == <<own, from, text, shown>>

Made == {c \in Conns : sock[c] # "unmade"}
FieldIs(states) == field # None /\ sock[field] \in states
Running == {c \in Conns : pc[c] \notin {"none", "done"}}

-----------------------------------------------------------------------------
\* btnConnectServer and Connect, on the window's thread.  (The names that end in Left,
\* Short, Padded or Silent are faulty variants.)

ButtonAfterClickLeft == enabled
ButtonAfterClick == FALSE

\* The host's name is looked up before Connect's try block: btnConnectServer catches
\* that failure, and leaves the button disabled.
LookupFails ==
    /\ pc[Window] = "idle" /\ enabled
    /\ enabled' = ButtonAfterClick
    /\ UNCHANGED <<field, pc, sock, server, reads, apart>>

MakeSocket ==
    /\ pc[Window] = "idle" /\ enabled
    /\ enabled' = ButtonAfterClick
    /\ \E c \in Conns \ Made :
          /\ \A d \in Conns : d < c => d \in Made
          /\ sock' = [sock EXCEPT ![c] = "new"]
          /\ field' = c
          /\ apart' = IF Running = {} THEN apart \cup {c} ELSE apart
    /\ Go(Window, "connect")
    /\ UNCHANGED <<server, reads>>

\* Connect catches a failure and reports "error" to its own thread.
ConnectFails ==
    /\ enabled' = TRUE
    /\ Go(Window, "idle")
    /\ UNCHANGED <<field, sock, server, reads, apart>>

ConnectSocket ==
    /\ pc[Window] = "connect"
    /\ \/ /\ FieldIs({"new"})
          /\ sock' = [sock EXCEPT ![field] = "connected"]
          /\ peer' = [peer EXCEPT ![field] = "open"]
          /\ Go(Window, "start")
          /\ UNCHANGED <<field, enabled, pushed, inbox, reads, apart>>
       \/ ConnectFails

\* The names are sent, and the receive loop is started.
StartLoop ==
    /\ pc[Window] = "start"
    /\ IF FieldIs({"connected"})
       THEN /\ pc' = [pc EXCEPT ![Window] = "idle", ![field] = "ready"]
            /\ UNCHANGED <<field, enabled, sock, server, reads, apart>>
       ELSE ConnectFails

-----------------------------------------------------------------------------
\* Disconnect, by the window's thread or by a loop.

Exit ==
    /\ pc[Window] = "idle"
    /\ Go(Window, "shutdown")
    /\ UNCHANGED <<field, enabled, sock, server, reads, apart>>

\* An exception ends a loop, or takes the window's thread out of the button's handler.
Throw(a) == Go(a, IF a = Window THEN "idle" ELSE "done")

Shutdown(a) ==
    /\ pc[a] = "shutdown"
    /\ \/ /\ field # None
          /\ \/ sock[field] \in {"new", "shut", "closed"}
             \/ peer[field] = "reset"
          /\ Throw(a)
          /\ UNCHANGED sock
       \/ /\ field = None
          /\ Go(a, "close")
          /\ UNCHANGED sock
       \/ /\ FieldIs({"connected", "shut"})
          /\ sock' = [sock EXCEPT ![field] = "shut"]
          /\ Go(a, "close")
    /\ UNCHANGED <<field, enabled, server, reads, apart>>

Close(a) ==
    /\ pc[a] = "close"
    /\ sock' = IF field = None THEN sock ELSE [sock EXCEPT ![field] = "closed"]
    /\ Go(a, "clear")
    /\ UNCHANGED <<field, enabled, server, reads, apart>>

Clear(a) ==
    /\ pc[a] = "clear"
    /\ field' = None
    /\ IF a = Window
       THEN enabled' = TRUE /\ Go(a, "idle")
       ELSE UNCHANGED enabled /\ Go(a, "tell")
    /\ UNCHANGED <<sock, server, reads, apart>>

-----------------------------------------------------------------------------
\* ReceiveMessages.  Its callbacks run on the window's thread once that is idle.

Invoked == pc[Window] = "idle"

Begin(c) ==
    /\ pc[c] = "ready"
    /\ own' = [own EXCEPT ![c] = field]
    /\ Go(c, "receive")
    /\ UNCHANGED <<field, enabled, sock, server, from, text, shown, apart>>

Ended(c) == Go(c, "done") /\ own' = [own EXCEPT ![c] = None]

\* socket!.ReceiveAsync: an exception on null or on a socket that is not connected;
\* on one that was shut down, an exception or zero bytes.
Receive(c) ==
    /\ pc[c] = "receive"
    /\ \/ /\ FieldIs({"connected"})
          /\ Go(c, "wait")
          /\ from' = [from EXCEPT ![c] = field]
          /\ UNCHANGED own
       \/ /\ ~FieldIs({"connected"})
          /\ Ended(c)
          /\ UNCHANGED from
       \/ /\ FieldIs({"shut"})
          /\ Go(c, "report")
          /\ UNCHANGED <<own, from>>
    /\ UNCHANGED <<field, enabled, sock, server, text, shown, apart>>

\* The string that GetString makes of the bytes of one read: they give a character only
\* if all the bytes of that character are there, otherwise a replacement mark.
Character(byte) == {b \in 1 .. MaxBytes : {e \in Ends : e < b} = {e \in Ends : e < byte}}

Marks(bytes) ==
    [i \in DOMAIN bytes |-> [byte |-> bytes[i], whole |-> Character(bytes[i]) \subseteq Range(bytes)]]

DecodedShort(bytes) == Marks(SubSeq(bytes, 1, Len(bytes) - 1))
DecodedPadded(bytes) == Marks(Append(bytes, 0))
Decoded(bytes) == Marks(bytes)

\* The socket that a loop waits for has something: as many bytes as one read returns, the
\* end of the stream, or an exception.
TextArrives(c) ==
    /\ pc[c] = "wait"
    /\ \E k \in 1 .. Len(inbox[from[c]]) :
          /\ k <= Buffer
          /\ text' = [text EXCEPT ![c] = Decoded(SubSeq(inbox[from[c]], 1, k))]
          /\ inbox' = [inbox EXCEPT ![from[c]] = SubSeq(@, k + 1, Len(@))]
    /\ Go(c, "show")
    /\ UNCHANGED <<field, enabled, sock, peer, pushed, own, from, shown, apart>>

AfterEndSilent == "check"
AfterEnd == "report"

StreamEnds(c) ==
    /\ pc[c] = "wait" /\ inbox[from[c]] = <<>>
    /\ peer[from[c]] = "fin" \/ sock[from[c]] # "connected"
    /\ Go(c, AfterEnd)
    /\ from' = [from EXCEPT ![c] = None]
    /\ UNCHANGED <<field, enabled, sock, server, own, text, shown, apart>>

ReceiveThrows(c) ==
    /\ pc[c] = "wait" /\ inbox[from[c]] = <<>>
    /\ peer[from[c]] = "reset" \/ sock[from[c]] # "connected"
    /\ Ended(c)
    /\ from' = [from EXCEPT ![c] = None]
    /\ UNCHANGED <<field, enabled, sock, server, text, shown, apart>>

\* HandleMessageReceived, on the window's thread.
Show(c) ==
    /\ pc[c] = "show" /\ Invoked
    /\ shown' = [shown EXCEPT ![from[c]] = @ \o text[c]]
    /\ text' = [text EXCEPT ![c] = <<>>]
    /\ from' = [from EXCEPT ![c] = None]
    /\ Go(c, "receive")
    /\ UNCHANGED <<field, enabled, sock, server, own, apart>>

\* After zero bytes: OnDisconnected("error").
Report(c) ==
    /\ pc[c] = "report" /\ Invoked
    /\ enabled' = TRUE
    /\ Go(c, "check")
    /\ UNCHANGED <<field, sock, server, reads, apart>>

\* serverSocket.Connected is still true when only the server has ended the connection.
Check(c) ==
    /\ pc[c] = "check"
    /\ IF own[c] = None \/ sock[own[c]] = "connected"
       THEN Go(c, "done")
       ELSE Go(c, "leave")
    /\ own' = [own EXCEPT ![c] = None]
    /\ UNCHANGED <<field, enabled, sock, server, from, text, shown, apart>>

\* OnDisconnected("exit"), and then Disconnect, which ends with another.
Leave(c) ==
    /\ pc[c] = "leave" /\ Invoked
    /\ enabled' = TRUE
    /\ Go(c, "shutdown")
    /\ UNCHANGED <<field, sock, server, reads, apart>>

Tell(c) ==
    /\ pc[c] = "tell" /\ Invoked
    /\ enabled' = TRUE
    /\ Go(c, "done")
    /\ UNCHANGED <<field, sock, server, reads, apart>>

-----------------------------------------------------------------------------
\* The server (ZtChatRelay), as far as a client that is still connected sees it.

Live(c) == sock[c] = "connected" /\ peer[c] = "open"

\* It sends whole characters; a text is some of them.
Push(c) ==
    /\ Live(c)
    /\ \E end \in Ends :
          /\ pushed[c] < end /\ \A e \in Ends : pushed[c] < e => end <= e
          /\ SumFunction(pushed) - pushed[c] + end <= MaxBytes
          /\ pushed' = [pushed EXCEPT ![c] = end]
          /\ inbox' = [inbox EXCEPT ![c] = @ \o [i \in 1 .. end - pushed[c] |-> pushed[c] + i]]
    /\ UNCHANGED <<field, enabled, pc, sock, peer, reads, apart>>

ServerEnds(c) ==
    /\ sock[c] = "connected"
    /\ \/ /\ peer[c] = "open"
          /\ peer' = [peer EXCEPT ![c] = "fin"]
          /\ UNCHANGED inbox
       \/ /\ peer[c] \in {"open", "fin"}
          /\ peer' = [peer EXCEPT ![c] = "reset"]
          /\ inbox' = [inbox EXCEPT ![c] = <<>>]
    /\ UNCHANGED <<field, enabled, pc, sock, pushed, reads, apart>>

-----------------------------------------------------------------------------
Click == LookupFails \/ MakeSocket \/ Exit

Disconnect(a) == Shutdown(a) \/ Close(a) \/ Clear(a)

WindowStep == ConnectSocket \/ StartLoop \/ Disconnect(Window)

LoopStep(c) ==
    \/ Begin(c) \/ Receive(c)
    \/ TextArrives(c) \/ StreamEnds(c) \/ ReceiveThrows(c)
    \/ Show(c) \/ Report(c) \/ Check(c)
    \/ Leave(c) \/ Disconnect(c) \/ Tell(c)

Next == \/ Click \/ WindowStep
        \/ \E c \in Conns : LoopStep(c) \/ Push(c) \/ ServerEnds(c)

Spec == Init /\ [][Next]_vars

\* Threads run, and the window's queue is served in order, so that a loop which waits
\* for an idle window gets its turn between the user's clicks.
FairSpec == /\ Spec
            /\ WF_vars(WindowStep)
            /\ \A c \in Conns : SF_vars(LoopStep(c))

-----------------------------------------------------------------------------
\* Properties.

Windows == {"idle", "connect", "start", "shutdown", "close", "clear"}
Bytes == Nat \ {0}
Mark == [byte : Bytes, whole : BOOLEAN]
LoopStates == {"none", "ready", "receive", "wait", "show", "report", "check", "leave",
               "shutdown", "close", "clear", "tell", "done"}

\* Every variable has its type; a loop that waits does so on some socket
\* (ClientNetwork.cs).
TypeOK ==
    /\ field \in Conns \cup {None}
    /\ enabled \in BOOLEAN
    /\ pc \in [Actors -> Windows \cup LoopStates]
    /\ pc[Window] \in Windows
    /\ \A c \in Conns : pc[c] \in LoopStates
    /\ sock \in [Conns -> {"unmade", "new", "connected", "shut", "closed"}]
    /\ peer \in [Conns -> {"none", "open", "fin", "reset"}]
    /\ pushed \in [Conns -> Nat]
    /\ inbox \in [Conns -> Seq(Bytes)]
    /\ own \in [Conns -> Conns \cup {None}]
    /\ from \in [Conns -> Conns \cup {None}]
    /\ \A c \in Conns : pc[c] \in {"wait", "show"} <=> from[c] # None
    /\ text \in [Conns -> Seq(Mark)]
    /\ shown \in [Conns -> Seq(Mark)]
    /\ apart \subseteq Made

Reading(c) == pc[c] \in {"ready", "receive", "wait", "show"}

\* While the window is idle, a live connection that was opened apart is the one in the
\* field, so that Exit reaches it and no later one hides it, and its loop goes on
\* receiving (Connect and Disconnect, ClientNetwork.cs).
LiveIsCurrent ==
    \A c \in apart : Live(c) /\ pc[Window] = "idle" => field = c /\ Reading(c)

\* Where the bytes of a connection are: shown by the window, in the hands of loops (of
\* more than one, if it was not opened apart), or unread.
Unread == MaxConns + 1
InHand(a, c) == IF from[a] = c THEN text[a] ELSE <<>>
BytesOf(marks) == [i \in DOMAIN marks |-> marks[i].byte]

Pieces(c) ==
    [a \in Actors \cup {Unread} |->
        CASE a = Window -> BytesOf(shown[c])
          [] a = Unread -> inbox[c]
          [] OTHER      -> BytesOf(InHand(a, c))]

InOnePlace(byte, pieces) ==
    \E a \in DOMAIN pieces : \E i \in DOMAIN pieces[a] :
        /\ pieces[a][i] = byte
        /\ \A b \in DOMAIN pieces : \A j \in DOMAIN pieces[b] :
              pieces[b][j] = byte => a = b /\ i = j

\* A mark that is a whole character is followed by the rest of the character.
Unsplit(marks) ==
    \A i \in DOMAIN marks : marks[i].whole /\ marks[i].byte + 1 \in Character(marks[i].byte) =>
        i + 1 \in DOMAIN marks /\ marks[i + 1] = [byte |-> marks[i].byte + 1, whole |-> TRUE]

\* Whatever loops read a connection, every byte that the server sent is shown once, is in
\* the hand of one loop, or is unread, and a character that is shown as such has not been
\* torn apart by another loop's; the bytes of a connection opened apart moreover are in
\* the order they were sent (ReceiveMessages, HandleMessageReceived).
ShownOnce ==
    \A c \in Conns :
        /\ Unsplit(shown[c])
        /\ peer[c] # "reset" =>
              /\ \A byte \in 1 .. pushed[c] : InOnePlace(byte, Pieces(c))
              /\ c \in apart => BytesOf(shown[c]) \o Pieces(c)[c] \o inbox[c]
                                   = [n \in 1 .. pushed[c] |-> n]

\* When the server ends the current connection, opened apart, the user can connect again
\* some time later, unless the end becomes a reset: its exception is only logged.
ToldOfEnd ==
    \A c \in Conns :
        (c \in apart /\ field = c /\ peer[c] = "fin" /\ Reading(c))
            ~> (enabled \/ peer[c] = "reset")
=============================================================================
