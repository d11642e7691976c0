----------------------------- MODULE ZtBroadcast -----------------------------
(***************************************************************************)
(* What a chat of the prototype promises its members (ServerNetwork.cs), as*)
(* atomic steps: a client joins the chat it chose, once and before it has  *)
(* seen anything; that it has entered is told to the chat it chose; what   *)
(* it says goes to one chat, settled before its first word and never       *)
(* changed; a message is new to everybody, and is seen by all members of   *)
(* its chat at once and by nobody else.  Which chat a client speaks to is  *)
(* left open: see TaskInItsRoom in ZtChatRelay.                            *)
(***************************************************************************)
EXTENDS Functions, Sequences

CONSTANTS Clients, Chats, None

VARIABLES
    chose,      \* the chat of each client, or None
    members,    \* of each chat
    voice,      \* the chat each client speaks to, or None
    seen        \* the messages each client has seen, in order

vars == <<chose, members, voice, seen>>

Init ==
    /\ chose = [c \in Clients |-> None]
    /\ members = [chat \in Chats |-> {}]
    /\ voice = [c \in Clients |-> None]
    /\ seen = [c \in Clients |-> <<>>]

Choose(c, chat) ==
    /\ chose[c] = None
    /\ chose' = [chose EXCEPT ![c] = chat]
    /\ UNCHANGED <<members, voice, seen>>

Join(c) ==
    /\ chose[c] \in Chats /\ c \notin members[chose[c]]
    /\ seen[c] = <<>>
    /\ members' = [members EXCEPT ![chose[c]] = @ \cup {c}]
    /\ UNCHANGED <<chose, voice, seen>>

Leave(c) ==
    /\ chose[c] \in Chats /\ c \in members[chose[c]]
    /\ members' = [members EXCEPT ![chose[c]] = @ \ {c}]
    /\ UNCHANGED <<chose, voice, seen>>

Settle(c, chat) ==
    /\ chose[c] # None /\ voice[c] = None
    /\ voice' = [voice EXCEPT ![c] = chat]
    /\ UNCHANGED <<chose, members, seen>>

\* An entry is told by the server, to the chat of the client it names first; anything
\* else by the client that says it.
Audience(message) ==
    IF message.kind = "enter" THEN chose[message.text[1].from] ELSE voice[message.by]

New(message) == \A c \in Clients : message \notin Range(seen[c])

Tell(chat, message) ==
    /\ Audience(message) = chat
    /\ New(message)
    /\ seen' = [c \in Clients |-> IF c \in members[chat] THEN Append(seen[c], message)
                                                        ELSE seen[c]]
    /\ UNCHANGED <<chose, members, voice>>

Next ==
    \/ \E c \in Clients : \/ Join(c) \/ Leave(c)
                          \/ \E chat \in Chats : Choose(c, chat) \/ Settle(c, chat)
    \/ \E chat \in Chats : \E reader \in members[chat] :
          \E message \in Range(seen'[reader]) : Tell(chat, message)

Spec == Init /\ [][Next]_vars
=============================================================================
