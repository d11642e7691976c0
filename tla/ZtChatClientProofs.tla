-------------------------- MODULE ZtChatClientProofs --------------------------
(***************************************************************************)
(* Proofs about ZtChatClient, for any number of connections and bytes.     *)
(*                                                                         *)
(* ClientInv is inductive.  What carries it is that a connection opened    *)
(* apart has its loop to itself as long as it is the current one           *)
(* (ApartInv): no loop of an earlier connection is left that could receive *)
(* from it, disconnect it, or enable the button while it lives (LiveInv).  *)
(* For the bytes, of connections opened apart and of others, PlaceInv says *)
(* that the loops take them out of the inbox and put them into the window  *)
(* one by one, and InboxInv that what one read takes is one stretch.       *)
(***************************************************************************)
EXTENDS ZtChatClient, SequenceTheorems, TLAPS

\* A socket that was not created has no traces.
MadeInv ==
    /\ field \in Made \cup {None}
    /\ \A c \in Conns : from[c] \in Made \cup {None}
    /\ \A c \in Conns : sock[c] \in {"unmade", "new"} => peer[c] = "none"
    /\ \A c \in Conns \ Made : /\ pc[c] = "none" /\ pushed[c] = 0
                               /\ inbox[c] = <<>> /\ shown[c] = <<>>

\* The loop of the connection that the window opens has not been started.
OpeningInv ==
    pc[Window] \in {"connect", "start"} /\ field # None => pc[field] = "none"

\* Only its own loop works with a connection opened apart.
ApartInv ==
    /\ field \in apart => Running \subseteq {field} /\ from[field] \in {field, None}
    /\ \A c \in Conns : from[c] \in apart => from[c] = c

\* A loop has texts in its hand only between receiving and showing them.
TextInv == \A c \in Conns : pc[c] # "show" => text[c] = <<>>

\* A live connection opened apart cannot be hidden by another one.
LiveInv ==
    /\ pc[Window] = "connect" /\ field \in apart => ~enabled
    /\ \A c \in apart : Live(c) =>
          /\ field = c /\ ~enabled /\ pc[Window] \in {"idle", "shutdown", "start"}
          /\ pc[Window] # "start" => Reading(c)

\* The unread bytes are the last that were sent.
InboxInv ==
    \A c \in Conns : \A i \in DOMAIN inbox[c] : inbox[c][i] + Len(inbox[c]) = pushed[c] + i

\* No read leaves half of a character that counts as whole.
UnsplitInv == \A c \in Conns : Unsplit(shown[c]) /\ Unsplit(text[c])

\* No byte but those sent is anywhere, and each of them is in one place.
Within(pieces, n) == \A a \in DOMAIN pieces : \A i \in DOMAIN pieces[a] : pieces[a][i] <= n

PlaceInv ==
    \A c \in Conns : peer[c] # "reset" =>
        /\ Within(Pieces(c), pushed[c])
        /\ \A byte \in 1 .. pushed[c] : InOnePlace(byte, Pieces(c))

\* The bytes of a connection opened apart are in order.
InOrder(c) ==
    BytesOf(shown[c]) \o BytesOf(InHand(c, c)) \o inbox[c] = [n \in 1 .. pushed[c] |-> n]

OrderInv == \A c \in apart : peer[c] # "reset" => InOrder(c)

ClientInv ==
    /\ TypeOK /\ MadeInv /\ OpeningInv /\ ApartInv /\ TextInv /\ LiveInv
    /\ InboxInv /\ UnsplitInv /\ PlaceInv /\ OrderInv

-----------------------------------------------------------------------------
\* Sums of lengths and numbers, stated apart from what they count.

LEMMA SumGrows ==
    \A x, m, n, p, e, i \in Int : x + m = p + i /\ p + n = e => x + (m + n) = e + i
OBVIOUS

LEMMA SumReaches ==
    \A m, n, p, e, i \in Int : p + n = e => (p + (i - m)) + (m + n) = e + i
OBVIOUS

LEMMA SumShrinks ==
    \A x, n, r, q, k, i \in Int : x + n = q + (k + i) /\ r = n - k => x + r = q + i
OBVIOUS

LEMMA SumBounds == \A x, n, q \in Int : x >= 1 /\ x + n = q + 1 => n <= q
OBVIOUS

LEMMA SumSolved == \A x, n, q, i \in Int : x + n = q + i => x = (q - n) + i
OBVIOUS

-----------------------------------------------------------------------------
\* Parts of the type invariant.

PcOK == /\ pc \in [Actors -> Windows \cup LoopStates]
        /\ pc[Window] \in Windows
        /\ \A c \in Conns : pc[c] \in LoopStates

SockOK == /\ sock \in [Conns -> {"unmade", "new", "connected", "shut", "closed"}]
          /\ apart \subseteq Made

WaitOK == \A c \in Conns : pc[c] \in {"wait", "show"} <=> from[c] # None

FieldOK == field \in Conns \cup {None} /\ enabled \in BOOLEAN

ServerOK == /\ peer \in [Conns -> {"none", "open", "fin", "reset"}]
            /\ pushed \in [Conns -> Nat]
            /\ inbox \in [Conns -> Seq(Bytes)]

ReadsOK == /\ own \in [Conns -> Conns \cup {None}]
           /\ from \in [Conns -> Conns \cup {None}]
           /\ text \in [Conns -> Seq(Mark)]
           /\ shown \in [Conns -> Seq(Mark)]

LEMMA TypeParts ==
    TypeOK <=> PcOK /\ SockOK /\ WaitOK /\ FieldOK /\ ServerOK /\ ReadsOK
BY DEF TypeOK, PcOK, SockOK, WaitOK, FieldOK, ServerOK, ReadsOK

LEMMA TypePartsNext ==
    TypeOK' <=> PcOK' /\ SockOK' /\ WaitOK' /\ FieldOK' /\ ServerOK' /\ ReadsOK'
BY DEF TypeOK, PcOK, SockOK, WaitOK, FieldOK, ServerOK, ReadsOK

LEMMA ActorFacts ==
    /\ Window \in Actors /\ Window \notin Conns /\ None \notin Conns
    /\ \A c \in Conns : c \in Actors /\ c # Window /\ c # None
BY ChatClientAssumption DEF Actors, Conns, Window, None

\* One thread goes on.
LEMMA GoFacts ==
    ASSUME PcOK, NEW a \in Actors, NEW step, Go(a, step),
           a = Window => step \in Windows, a # Window => step \in LoopStates
    PROVE  PcOK' /\ pc'[a] = step /\ \A b \in Actors : b # a => pc'[b] = pc[b]
<1>1. /\ pc' = [pc EXCEPT ![a] = step] /\ step \in Windows \cup LoopStates
      /\ \A c \in Conns : c \in Actors /\ c # Window
  BY ActorFacts DEF Go
<1>2. pc'[a] = step /\ \A b \in Actors : b # a => pc'[b] = pc[b]
  BY <1>1 DEF PcOK
<1>3. a \in Conns \/ a = Window
  BY DEF Actors
<1>4. PcOK'
  BY <1>1, <1>2, <1>3, ActorFacts DEF PcOK
<1> QED
  BY <1>2, <1>4

\* A step of a loop.
LEMMA LoopFacts ==
    ASSUME TypeOK, NEW c \in Conns, LoopStep(c)
    PROVE  /\ c \in Running
           /\ \E step \in LoopStates \ {"none", "ready"} : Go(c, step)
           /\ field' = field \/ field' = None
           /\ \/ sock' = sock
              \/ /\ field # None
                 /\ \E s \in {"shut", "closed"} : sock' = [sock EXCEPT ![field] = s]
           /\ UNCHANGED <<peer, pushed, apart>>
<1>1. c # Window
  BY ActorFacts
<1>2. CASE Begin(c) \/ Receive(c)
  BY <1>2 DEF Begin, Receive, Ended, LoopStates, Running, server
<1>3. CASE TextArrives(c) \/ StreamEnds(c) \/ ReceiveThrows(c)
  BY <1>3 DEF TextArrives, StreamEnds, ReceiveThrows, AfterEnd, Ended, LoopStates, Running, server
<1>4. CASE Show(c) \/ Report(c) \/ Check(c)
  BY <1>4 DEF Show, Report, Check, LoopStates, Running, server
<1>5. CASE Leave(c) \/ Tell(c)
  BY <1>5 DEF Leave, Tell, LoopStates, Running, server
<1>6. CASE Shutdown(c)
  BY <1>1, <1>6 DEF Shutdown, Throw, FieldIs, LoopStates, Running, server
<1>7. CASE Close(c)
  BY <1>1, <1>7 DEF Close, LoopStates, Running, server
<1>8. CASE Clear(c)
  BY <1>1, <1>8 DEF Clear, LoopStates, Running, server
<1> QED
  BY <1>2, <1>3, <1>4, <1>5, <1>6, <1>7, <1>8 DEF LoopStep, Disconnect

\* A step of Disconnect in the window.
LEMMA QuitFacts ==
    ASSUME Disconnect(Window)
    PROVE  /\ pc[Window] \in {"shutdown", "close", "clear"}
           /\ \E step \in {"idle", "close", "clear"} : Go(Window, step)
           /\ field' = field \/ field' = None
           /\ enabled' = enabled \/ (enabled' = TRUE /\ pc[Window] = "clear")
           /\ \/ sock' = sock
              \/ /\ field # None
                 /\ \E s \in {"shut", "closed"} : sock' = [sock EXCEPT ![field] = s]
           /\ pc[Window] = "shutdown" =>
                \/ sock' = sock /\ Go(Window, "idle")
                                /\ (sock[field] \in {"new", "shut", "closed"} \/ peer[field] = "reset")
                \/ field = None
                \/ sock' = [sock EXCEPT ![field] = "shut"]
           /\ pc[Window] \in {"shutdown", "close"} => field' = field
           /\ UNCHANGED <<server, reads, apart>>
<1>1. CASE Shutdown(Window)
  BY <1>1 DEF Shutdown, Throw, FieldIs
<1>2. CASE Close(Window)
  BY <1>2 DEF Close
<1>3. CASE Clear(Window)
  BY <1>3 DEF Clear
<1> QED
  BY <1>1, <1>2, <1>3 DEF Disconnect

LEMMA SockKept ==
    ASSUME SockOK, FieldOK,
           \/ sock' = sock
           \/ /\ field # None
              /\ \E s \in {"shut", "closed"} : sock' = [sock EXCEPT ![field] = s],
           UNCHANGED apart
    PROVE  SockOK' /\ Made \subseteq Made'
BY DEF SockOK, FieldOK, Made

LEMMA LookupType ==
    ASSUME TypeOK, LookupFails
    PROVE  TypeOK'
BY DEF LookupFails, TypeOK, ButtonAfterClick, server, reads, Made

LEMMA MakeFacts ==
    ASSUME TypeOK, MakeSocket
    PROVE  /\ pc[Window] = "idle" /\ enabled /\ enabled' = FALSE /\ Go(Window, "connect")
           /\ \E c \in Conns \ Made : /\ sock' = [sock EXCEPT ![c] = "new"] /\ field' = c
                                      /\ apart' = IF Running = {} THEN apart \cup {c} ELSE apart
                                      /\ Made' = Made \cup {c}
           /\ UNCHANGED <<server, reads>>
<1>1. /\ pc[Window] = "idle" /\ enabled /\ enabled' = FALSE /\ Go(Window, "connect")
      /\ UNCHANGED <<server, reads>>
  BY DEF MakeSocket, ButtonAfterClick
<1>2. PICK c \in Conns \ Made : /\ sock' = [sock EXCEPT ![c] = "new"] /\ field' = c
                                /\ apart' = IF Running = {} THEN apart \cup {c} ELSE apart
  BY DEF MakeSocket
<1>3. Made' = Made \cup {c}
  BY <1>2 DEF Made, TypeOK
<1> QED
  BY <1>1, <1>2, <1>3

\* The window's steps other than the click that makes a socket.
LEMMA ConnectFacts ==
    ASSUME TypeOK, ConnectSocket
    PROVE  /\ pc[Window] = "connect" /\ UNCHANGED <<field, pushed, inbox, reads, apart>>
           /\ \/ /\ field # None /\ sock[field] = "new" /\ UNCHANGED enabled
                 /\ sock' = [sock EXCEPT ![field] = "connected"]
                 /\ peer' = [peer EXCEPT ![field] = "open"]
                 /\ Go(Window, "start")
              \/ enabled' = TRUE /\ Go(Window, "idle") /\ UNCHANGED <<sock, peer>>
BY DEF ConnectSocket, FieldIs, ConnectFails, server

LEMMA StartFacts ==
    ASSUME TypeOK, StartLoop
    PROVE  /\ pc[Window] = "start" /\ UNCHANGED <<field, sock, server, reads, apart>>
           /\ \/ /\ field # None /\ sock[field] = "connected" /\ UNCHANGED enabled
                 /\ pc' = [pc EXCEPT ![Window] = "idle", ![field] = "ready"]
              \/ /\ field = None \/ sock[field] # "connected"
                 /\ enabled' = TRUE /\ Go(Window, "idle")
BY DEF StartLoop, FieldIs, ConnectFails

-----------------------------------------------------------------------------
\* Types.

\* What waits stays as it is when only the window's thread goes on.
LEMMA WindowWait ==
    ASSUME PcOK, WaitOK, UNCHANGED from, NEW step \in Windows, Go(Window, step)
    PROVE  PcOK' /\ WaitOK'
<1>1. PcOK' /\ \A c \in Conns : pc'[c] = pc[c]
  BY GoFacts, ActorFacts
<1> QED
  BY <1>1 DEF WaitOK

LEMMA WindowType ==
    ASSUME TypeOK, OpeningInv, Click \/ WindowStep
    PROVE  TypeOK'
<1>0. PcOK /\ SockOK /\ WaitOK /\ FieldOK /\ ServerOK /\ ReadsOK
  BY TypeParts
<1>1. CASE LookupFails
  BY <1>1, LookupType
<1>2. CASE MakeSocket
  <2>1. PcOK' /\ WaitOK'
    BY <1>0, <1>2, MakeFacts, WindowWait DEF Windows, reads
  <2>2. SockOK' /\ FieldOK'
    BY <1>0, <1>2, MakeFacts DEF SockOK, FieldOK
  <2>3. ServerOK' /\ ReadsOK'
    BY <1>0, <1>2, MakeFacts DEF ServerOK, ReadsOK, server, reads
  <2> QED
    BY <2>1, <2>2, <2>3, TypePartsNext
<1>3. CASE Exit
  <2>1. PcOK' /\ WaitOK'
    BY <1>0, <1>3, WindowWait DEF Exit, Windows, reads
  <2>2. SockOK' /\ FieldOK' /\ ServerOK' /\ ReadsOK'
    BY <1>0, <1>3 DEF Exit, SockOK, FieldOK, ServerOK, ReadsOK, server, reads, Made
  <2> QED
    BY <2>1, <2>2, TypePartsNext
<1>4. CASE ConnectSocket
  <2>1. PcOK' /\ WaitOK'
    BY <1>0, <1>4, ConnectFacts, WindowWait DEF Windows, reads
  <2>2. SockOK' /\ FieldOK'
    BY <1>0, <1>4, ConnectFacts DEF SockOK, FieldOK, Made
  <2>3. ServerOK' /\ ReadsOK'
    BY <1>0, <1>4, ConnectFacts DEF ServerOK, ReadsOK, FieldOK, reads
  <2> QED
    BY <2>1, <2>2, <2>3, TypePartsNext
<1>5. CASE StartLoop
  <2>1. SockOK' /\ FieldOK' /\ ServerOK' /\ ReadsOK'
    BY <1>0, <1>5, StartFacts DEF SockOK, FieldOK, ServerOK, ReadsOK, server, reads, Made
  <2>2. CASE enabled' = TRUE /\ Go(Window, "idle")
    BY <1>0, <1>5, <2>1, <2>2, StartFacts, WindowWait, TypePartsNext DEF Windows, reads
  <2>3. CASE field # None /\ pc' = [pc EXCEPT ![Window] = "idle", ![field] = "ready"]
    <3>1. field \in Conns /\ field \in Actors /\ field # Window /\ pc[field] = "none"
      BY <1>0, <1>5, <2>3, StartFacts, ActorFacts DEF FieldOK, OpeningInv
    <3>2. /\ pc'[Window] = "idle" /\ pc'[field] = "ready"
          /\ \A c \in Conns : c # field => pc'[c] = pc[c]
          /\ pc' \in [Actors -> Windows \cup LoopStates]
      BY <1>0, <2>3, <3>1, ActorFacts DEF PcOK, Windows, LoopStates
    <3>3. PcOK'
      BY <1>0, <3>1, <3>2 DEF PcOK, Windows, LoopStates
    <3>4. WaitOK'
      BY <1>0, <1>5, <3>1, <3>2, StartFacts DEF WaitOK, reads
    <3> QED
      BY <2>1, <3>3, <3>4, TypePartsNext
  <2> QED
    BY <1>5, <2>2, <2>3, StartFacts
<1>6. CASE Disconnect(Window)
  <2>1. PcOK' /\ WaitOK'
    BY <1>0, <1>6, QuitFacts, WindowWait DEF Windows, reads
  <2>2. SockOK'
    BY <1>0, <1>6, QuitFacts, SockKept
  <2>3. FieldOK' /\ ServerOK' /\ ReadsOK'
    BY <1>0, <1>6, QuitFacts DEF FieldOK, ServerOK, ReadsOK, server, reads
  <2> QED
    BY <2>1, <2>2, <2>3, TypePartsNext
<1> QED
  BY <1>1, <1>2, <1>3, <1>4, <1>5, <1>6 DEF Click, WindowStep

\* Bytes and marks.
LEMMA BytesFacts ==
    ASSUME NEW m \in Seq(Mark)
    PROVE  /\ BytesOf(m) \in Seq(Bytes) /\ Len(BytesOf(m)) = Len(m)
           /\ \A i \in 1 .. Len(m) : BytesOf(m)[i] = m[i].byte
<1>1. Len(m) \in Nat /\ DOMAIN m = 1 .. Len(m) /\ \A i \in 1 .. Len(m) : m[i] \in Mark
  BY LenProperties, ElementOfSeq
<1>2. \A i \in 1 .. Len(m) : m[i].byte \in Bytes
  BY <1>1 DEF Mark
<1>3. BytesOf(m) = [i \in 1 .. Len(m) |-> m[i].byte]
  BY <1>1 DEF BytesOf
<1>4. BytesOf(m) \in Seq(Bytes) /\ Len(BytesOf(m)) = Len(m)
  <2>1. BytesOf(m) \in [1 .. Len(m) -> Bytes]
    BY <1>2, <1>3
  <2>2. BytesOf(m) \in Seq(Bytes)
    BY <1>1, <2>1, SeqDef
  <2>3. DOMAIN BytesOf(m) = 1 .. Len(m)
    BY <1>3
  <2> QED
    BY <1>1, <2>2, <2>3, LenProperties
<1> QED
  BY <1>3, <1>4

LEMMA MarksFacts ==
    ASSUME NEW b \in Seq(Bytes)
    PROVE  /\ Marks(b) \in Seq(Mark) /\ Len(Marks(b)) = Len(b)
           /\ BytesOf(Marks(b)) = b
           /\ \A i \in 1 .. Len(b) :
                 Marks(b)[i] = [byte |-> b[i], whole |-> Character(b[i]) \subseteq Range(b)]
<1>1. Len(b) \in Nat /\ DOMAIN b = 1 .. Len(b) /\ \A i \in 1 .. Len(b) : b[i] \in Bytes
  BY LenProperties, ElementOfSeq
<1>2. \A i \in 1 .. Len(b) :
        [byte |-> b[i], whole |-> Character(b[i]) \subseteq Range(b)] \in Mark
  BY <1>1 DEF Mark
<1>3. Marks(b) = [i \in 1 .. Len(b) |->
                    [byte |-> b[i], whole |-> Character(b[i]) \subseteq Range(b)]]
  BY <1>1 DEF Marks
<1>4. Marks(b) \in Seq(Mark) /\ Len(Marks(b)) = Len(b)
  <2>1. Marks(b) \in [1 .. Len(b) -> Mark]
    BY <1>2, <1>3
  <2>2. Marks(b) \in Seq(Mark)
    BY <1>1, <2>1, SeqDef
  <2>3. DOMAIN Marks(b) = 1 .. Len(b)
    BY <1>3
  <2> QED
    BY <1>1, <2>2, <2>3, LenProperties
<1>5. \A i \in 1 .. Len(b) : Marks(b)[i].byte = b[i]
  BY <1>3
<1>6. BytesOf(Marks(b)) = b
  <2>1. /\ BytesOf(Marks(b)) \in Seq(Bytes) /\ Len(BytesOf(Marks(b))) = Len(b)
        /\ \A i \in 1 .. Len(b) : BytesOf(Marks(b))[i] = b[i]
    BY <1>4, <1>5, BytesFacts
  <2> QED
    BY <2>1, SeqEqual
<1> QED
  BY <1>3, <1>4, <1>6

LEMMA MarksWhole ==
    ASSUME NEW b \in Seq(Bytes), NEW i \in 1 .. Len(b)
    PROVE  Marks(b)[i].whole <=> Character(b[i]) \subseteq Range(b)
<1> DEFINE w == Character(b[i]) \subseteq Range(b)
<1>1. Marks(b)[i] = [byte |-> b[i], whole |-> w]
  BY MarksFacts
<1> HIDE DEF w
<1>2. Marks(b)[i].whole = w
  BY <1>1
<1> QED
  BY <1>2 DEF w

\* What one read takes.
LEMMA TakenFacts ==
    ASSUME NEW S, NEW q \in Seq(S), NEW k \in 1 .. Len(q)
    PROVE  /\ SubSeq(q, 1, k) \in Seq(S) /\ SubSeq(q, k + 1, Len(q)) \in Seq(S)
           /\ SubSeq(q, 1, k) \o SubSeq(q, k + 1, Len(q)) = q
<1>1. Len(q) \in Nat /\ \A i \in 1 .. Len(q) : q[i] \in S
  BY LenProperties, ElementOfSeq
<1>2. SubSeq(q, 1, k) \in Seq(S)
  BY <1>1, SubSeqProperties
<1>3. SubSeq(q, k + 1, Len(q)) \in Seq(S)
  BY <1>1, SubSeqProperties
<1>4. SubSeq(q, 1, k) \o SubSeq(q, k + 1, Len(q)) = SubSeq(q, 1, Len(q))
  <2>1. 1 \in 1 .. Len(q) + 1 /\ k \in 1 - 1 .. Len(q) /\ Len(q) \in k .. Len(q)
    BY <1>1
  <2> QED
    BY <2>1, ConcatAdjacentSubSeq
<1> QED
  BY <1>2, <1>3, <1>4, SubSeqFull

LEMMA LoopType ==
    ASSUME TypeOK, NEW c \in Conns, LoopStep(c)
    PROVE  TypeOK'
<1>0. PcOK /\ SockOK /\ WaitOK /\ FieldOK /\ ServerOK /\ ReadsOK
  BY TypeParts
<1>1. PcOK' /\ \A step : Go(c, step) => pc'[c] = step
  <2>1. PICK step \in LoopStates : Go(c, step)
    BY LoopFacts
  <2>2. PcOK'
    BY <1>0, <2>1, ActorFacts, GoFacts
  <2> QED
    BY <1>0, <2>2, ActorFacts DEF Go, PcOK
<1>2. \A d \in Conns : d # c => pc'[d] = pc[d]
  <2>1. PICK step \in LoopStates : Go(c, step)
    BY LoopFacts
  <2> QED
    BY <1>0, <2>1, ActorFacts, GoFacts
<1>3. SockOK'
  BY <1>0, LoopFacts, SockKept
<1>4. FieldOK'
  <2>1. enabled' = enabled \/ enabled' = TRUE
    <3>1. CASE Clear(c)
      BY <3>1, ActorFacts DEF Clear
    <3>2. CASE ~Clear(c)
      BY <3>2 DEF LoopStep, Disconnect, Begin, Receive, TextArrives, StreamEnds, ReceiveThrows,
                  Show, Report, Check, Leave, Shutdown, Close, Tell
    <3> QED
      BY <3>1, <3>2
  <2> QED
    BY <1>0, <2>1, LoopFacts DEF FieldOK
<1>5. CASE TextArrives(c)
  <2>1. PICK k \in 1 .. Len(inbox[from[c]]) :
          /\ text' = [text EXCEPT ![c] = Marks(SubSeq(inbox[from[c]], 1, k))]
          /\ inbox' = [inbox EXCEPT ![from[c]] =
                           SubSeq(inbox[from[c]], k + 1, Len(inbox[from[c]]))]
    BY <1>5 DEF TextArrives, Decoded
  <2>2. pc[c] = "wait" /\ pc'[c] = "show" /\ UNCHANGED <<peer, pushed, own, from, shown>>
    BY <1>1, <1>5 DEF TextArrives
  <2>3. from[c] \in Conns /\ inbox[from[c]] \in Seq(Bytes)
    BY <1>0, <2>2 DEF WaitOK, ReadsOK, ServerOK
  <2>4. /\ Marks(SubSeq(inbox[from[c]], 1, k)) \in Seq(Mark)
        /\ SubSeq(inbox[from[c]], k + 1, Len(inbox[from[c]])) \in Seq(Bytes)
    BY <2>3, TakenFacts, MarksFacts
  <2>5. ServerOK' /\ ReadsOK'
    BY <1>0, <2>1, <2>2, <2>3, <2>4 DEF ServerOK, ReadsOK
  <2>6. WaitOK'
    BY <1>0, <1>2, <2>2 DEF WaitOK
  <2> QED
    BY <1>1, <1>3, <1>4, <2>5, <2>6, TypePartsNext
<1>6. CASE Show(c)
  <2>1. /\ pc[c] = "show" /\ pc'[c] = "receive" /\ UNCHANGED <<peer, pushed, inbox, own>>
        /\ shown' = [shown EXCEPT ![from[c]] = @ \o text[c]]
        /\ text' = [text EXCEPT ![c] = <<>>]
        /\ from' = [from EXCEPT ![c] = None]
    BY <1>1, <1>6 DEF Show, server
  <2>2. from[c] \in Conns /\ shown[from[c]] \in Seq(Mark) /\ text[c] \in Seq(Mark)
    BY <1>0, <2>1 DEF WaitOK, ReadsOK
  <2>3. shown[from[c]] \o text[c] \in Seq(Mark) /\ <<>> \in Seq(Mark)
    BY <2>2, ConcatProperties, EmptySeq
  <2>4. ServerOK' /\ ReadsOK'
    BY <1>0, <2>1, <2>2, <2>3 DEF ServerOK, ReadsOK
  <2>5. WaitOK'
    BY <1>0, <1>2, <2>1 DEF WaitOK, ReadsOK
  <2> QED
    BY <1>1, <1>3, <1>4, <2>4, <2>5, TypePartsNext
<1>7. CASE ~TextArrives(c) /\ ~Show(c)
  <2>1. ServerOK'
    <3>1. UNCHANGED inbox
      BY <1>7 DEF LoopStep, Disconnect, Begin, Receive, StreamEnds, ReceiveThrows,
                  Report, Check, Leave, Shutdown, Close, Clear, Tell, server
    <3> QED
      BY <1>0, <3>1, LoopFacts DEF ServerOK
  <2>2. CASE Begin(c) \/ Check(c)
    <3>1. /\ own' = [own EXCEPT ![c] = field] \/ own' = [own EXCEPT ![c] = None]
          /\ UNCHANGED <<from, text, shown>>
          /\ pc[c] \in {"ready", "check"} /\ pc'[c] \in {"receive", "done", "leave"}
      BY <1>1, <2>2 DEF Begin, Check
    <3>2. ReadsOK'
      BY <1>0, <3>1 DEF ReadsOK, FieldOK
    <3>3. WaitOK'
      BY <1>0, <1>2, <3>1 DEF WaitOK
    <3> QED
      BY <1>1, <1>3, <1>4, <2>1, <3>2, <3>3, TypePartsNext
  <2>3. CASE Receive(c)
    <3>1. /\ pc[c] = "receive" /\ UNCHANGED <<text, shown>>
          /\ own' = own \/ own' = [own EXCEPT ![c] = None]
          /\ \/ /\ field # None /\ pc'[c] = "wait" /\ from' = [from EXCEPT ![c] = field]
             \/ pc'[c] \in {"done", "report"} /\ UNCHANGED from
      BY <1>1, <2>3 DEF Receive, Ended, FieldIs
    <3>2. ReadsOK'
      BY <1>0, <3>1 DEF ReadsOK, FieldOK
    <3>3. WaitOK'
      <4>1. /\ from \in [Conns -> Conns \cup {None}]
            /\ \A e \in Conns : pc[e] \in {"wait", "show"} <=> from[e] # None
        BY <1>0 DEF WaitOK, ReadsOK
      <4>2. \A e \in Conns : e # c => from'[e] = from[e]
        BY <3>1, <4>1
      <4>3. pc'[c] \in {"wait", "show"} <=> from'[c] # None
        BY <3>1, <4>1
      <4> QED
        BY <1>2, <4>1, <4>2, <4>3 DEF WaitOK
    <3> QED
      BY <1>1, <1>3, <1>4, <2>1, <3>2, <3>3, TypePartsNext
  <2>4. CASE StreamEnds(c) \/ ReceiveThrows(c)
    <3>1. /\ pc[c] = "wait" /\ UNCHANGED <<text, shown>>
          /\ own' = own \/ own' = [own EXCEPT ![c] = None]
          /\ pc'[c] \in {"done", "report"} /\ from' = [from EXCEPT ![c] = None]
      BY <1>1, <2>4 DEF StreamEnds, ReceiveThrows, AfterEnd, Ended
    <3>2. ReadsOK'
      BY <1>0, <3>1 DEF ReadsOK
    <3>3. WaitOK'
      BY <1>0, <1>2, <3>1 DEF WaitOK, ReadsOK
    <3> QED
      BY <1>1, <1>3, <1>4, <2>1, <3>2, <3>3, TypePartsNext
  <2>5. CASE Report(c) \/ Leave(c) \/ Disconnect(c) \/ Tell(c)
    <3>1. /\ UNCHANGED reads /\ pc[c] \notin {"wait", "show"}
          /\ pc'[c] \in {"check", "shutdown", "done", "close", "clear", "tell"}
      BY <1>1, <2>5, ActorFacts
         DEF Report, Leave, Disconnect, Shutdown, Throw, Close, Clear, Tell
    <3>2. ReadsOK' /\ WaitOK'
      BY <1>0, <1>2, <3>1 DEF ReadsOK, WaitOK, reads
    <3> QED
      BY <1>1, <1>3, <1>4, <2>1, <3>2, TypePartsNext
  <2> QED
    BY <1>7, <2>2, <2>3, <2>4, <2>5 DEF LoopStep
<1> QED
  BY <1>5, <1>6, <1>7

\* The bytes that one push sends.
Sent(p, end) == [i \in 1 .. end - p |-> p + i]

LEMMA SentFacts ==
    ASSUME NEW p \in Nat, NEW end \in Nat, p < end
    PROVE  /\ Sent(p, end) \in Seq(Bytes) /\ Len(Sent(p, end)) = end - p /\ end - p \in Nat
           /\ \A i \in 1 .. end - p : Sent(p, end)[i] = p + i
<1>1. end - p \in Nat /\ \A i \in 1 .. end - p : p + i \in Bytes
  BY DEF Bytes
<1>2. Sent(p, end) \in [1 .. end - p -> Bytes] /\ DOMAIN Sent(p, end) = 1 .. end - p
  BY <1>1 DEF Sent
<1>3. Sent(p, end) \in Seq(Bytes)
  BY <1>1, <1>2, SeqDef
<1>4. Len(Sent(p, end)) = end - p
  BY <1>1, <1>2, <1>3, LenProperties
<1> QED
  BY <1>1, <1>3, <1>4 DEF Sent

LEMMA PushFacts ==
    ASSUME TypeOK, NEW c \in Conns, Push(c)
    PROVE  /\ Live(c) /\ pushed[c] \in Nat /\ inbox[c] \in Seq(Bytes)
           /\ \E end \in Nat :
                 /\ pushed[c] < end
                 /\ pushed' = [pushed EXCEPT ![c] = end]
                 /\ inbox' = [inbox EXCEPT ![c] = inbox[c] \o Sent(pushed[c], end)]
                 /\ inbox[c] \o Sent(pushed[c], end) \in Seq(Bytes)
           /\ UNCHANGED <<field, enabled, pc, sock, peer, reads, apart>>
<1>1. pushed[c] \in Nat /\ inbox[c] \in Seq(Bytes) /\ \A e \in Ends : e \in Nat
  BY ChatClientAssumption DEF TypeOK
<1>2. PICK end \in Ends :
        /\ pushed[c] < end
        /\ pushed' = [pushed EXCEPT ![c] = end]
        /\ inbox' = [inbox EXCEPT ![c] = inbox[c] \o Sent(pushed[c], end)]
  BY DEF Push, Sent
<1>3. inbox[c] \o Sent(pushed[c], end) \in Seq(Bytes)
  BY <1>1, <1>2, SentFacts, ConcatProperties
<1>4. Live(c) /\ UNCHANGED <<field, enabled, pc, sock, peer, reads, apart>>
  BY DEF Push
<1> QED
  BY <1>1, <1>2, <1>3, <1>4

LEMMA EndsFacts ==
    ASSUME NEW c \in Conns, ServerEnds(c)
    PROVE  /\ sock[c] = "connected"
           /\ \/ peer' = [peer EXCEPT ![c] = "fin"] /\ peer[c] # "reset" /\ UNCHANGED inbox
              \/ /\ peer' = [peer EXCEPT ![c] = "reset"]
                 /\ inbox' = [inbox EXCEPT ![c] = <<>>]
           /\ UNCHANGED <<field, enabled, pc, sock, pushed, reads, apart>>
BY DEF ServerEnds

LEMMA ServerType ==
    ASSUME TypeOK, NEW c \in Conns, Push(c) \/ ServerEnds(c)
    PROVE  TypeOK'
<1>0. PcOK /\ SockOK /\ WaitOK /\ FieldOK /\ ServerOK /\ ReadsOK
  BY TypeParts
<1>1. UNCHANGED <<field, enabled, pc, sock, reads, apart>>
  BY PushFacts, EndsFacts
<1>2. PcOK' /\ SockOK' /\ WaitOK' /\ FieldOK' /\ ReadsOK'
  BY <1>0, <1>1 DEF PcOK, SockOK, WaitOK, FieldOK, ReadsOK, reads, Made
<1>3. CASE Push(c)
  <2>1. ServerOK'
    <3>1. PICK end \in Nat :
            /\ pushed' = [pushed EXCEPT ![c] = end]
            /\ inbox' = [inbox EXCEPT ![c] = inbox[c] \o Sent(pushed[c], end)]
            /\ inbox[c] \o Sent(pushed[c], end) \in Seq(Bytes)
      BY <1>3, PushFacts
    <3>2. peer' = peer
      BY <1>3, PushFacts
    <3> QED
      BY <1>0, <3>1, <3>2 DEF ServerOK
  <2> QED
    BY <1>2, <2>1, TypePartsNext
<1>4. CASE ServerEnds(c)
  <2>1. <<>> \in Seq(Bytes)
    BY EmptySeq
  <2>2. ServerOK'
    BY <1>0, <1>4, <2>1, EndsFacts DEF ServerOK
  <2> QED
    BY <1>2, <2>2, TypePartsNext
<1> QED
  BY <1>3, <1>4

-----------------------------------------------------------------------------
\* Sockets that were not created, and the one that is being opened.

\* What a step of a loop does with the texts.
LEMMA ReadFacts ==
    ASSUME TypeOK, NEW d \in Conns, LoopStep(d)
    PROVE  /\ \/ UNCHANGED from
              \/ from' = [from EXCEPT ![d] = None]
              \/ field # None /\ from' = [from EXCEPT ![d] = field]
           /\ \A c \in Conns : c # from[d] => inbox'[c] = inbox[c] /\ shown'[c] = shown[c]
           /\ from[d] = None => UNCHANGED <<inbox, shown>>
<1>0. /\ inbox \in [Conns -> Seq(Bytes)] /\ shown \in [Conns -> Seq(Mark)]
      /\ pc[d] \in {"wait", "show"} => from[d] # None
  BY DEF TypeOK
<1>1. CASE TextArrives(d)
  <2>1. /\ UNCHANGED <<from, shown>> /\ pc[d] = "wait"
        /\ \E q : inbox' = [inbox EXCEPT ![from[d]] = q]
    BY <1>1 DEF TextArrives
  <2> QED
    BY <1>0, <2>1
<1>2. CASE Show(d)
  <2>1. /\ from' = [from EXCEPT ![d] = None] /\ pc[d] = "show"
        /\ UNCHANGED inbox /\ \E q : shown' = [shown EXCEPT ![from[d]] = q]
    BY <1>2 DEF Show, server
  <2> QED
    BY <1>0, <2>1
<1>3. CASE Receive(d)
  BY <1>3 DEF Receive, FieldIs, server
<1>4. CASE StreamEnds(d) \/ ReceiveThrows(d)
  BY <1>4 DEF StreamEnds, ReceiveThrows, server
<1>5. CASE Begin(d) \/ Report(d) \/ Check(d) \/ Leave(d) \/ Disconnect(d) \/ Tell(d)
  BY <1>5 DEF Begin, Report, Check, Leave, Disconnect, Shutdown, Close, Clear, Tell, server, reads
<1> QED
  BY <1>1, <1>2, <1>3, <1>4, <1>5 DEF LoopStep

\* A step that leaves the sockets not created alone.
LEMMA MadeKept ==
    ASSUME MadeInv, Made \subseteq Made', field' \in Made' \cup {None},
           \A c \in Conns : from'[c] \in Made' \cup {None},
           \A c \in Conns : sock'[c] \in {"unmade", "new"} => peer'[c] = "none",
           \A c \in Conns \ Made' : pc'[c] = pc[c],
           UNCHANGED pushed, \A c \in Conns \ Made : inbox'[c] = inbox[c] /\ shown'[c] = shown[c]
    PROVE  MadeInv'
<1>1. \A c \in Conns \ Made' : c \in Conns \ Made
  OBVIOUS
<1> QED
  BY <1>1 DEF MadeInv

LEMMA ThreadsApart ==
    ASSUME TypeOK, NEW a \in Actors, NEW step, Go(a, step)
    PROVE  \A b \in Actors : b # a => pc'[b] = pc[b]
BY DEF TypeOK, Go

LEMMA MadeStep ==
    ASSUME TypeOK, MadeInv, OpeningInv, Next
    PROVE  MadeInv'
<1>0. /\ sock \in [Conns -> {"unmade", "new", "connected", "shut", "closed"}]
      /\ peer \in [Conns -> {"none", "open", "fin", "reset"}]
      /\ from \in [Conns -> Conns \cup {None}] /\ inbox \in [Conns -> Seq(Bytes)]
      /\ field \in Conns \cup {None}
      /\ SockOK /\ FieldOK
  BY TypeParts DEF TypeOK
<1>1. ASSUME NEW step, Go(Window, step)
      PROVE  \A c \in Conns : pc'[c] = pc[c]
  BY <1>1, ThreadsApart, ActorFacts
<1>2. CASE LookupFails \/ Exit
  <2>1. UNCHANGED <<field, sock, server, reads>> /\ \A c \in Conns : pc'[c] = pc[c]
    BY <1>1, <1>2 DEF LookupFails, Exit
  <2> QED
    BY <2>1, MadeKept DEF server, reads, Made, MadeInv
<1>3. CASE MakeSocket
  <2>1. PICK c \in Conns \ Made : /\ sock' = [sock EXCEPT ![c] = "new"] /\ field' = c
                                  /\ Made' = Made \cup {c}
    BY <1>3, MakeFacts
  <2>2. UNCHANGED <<server, reads>> /\ \A d \in Conns : pc'[d] = pc[d]
    BY <1>1, <1>3, MakeFacts
  <2>3. \A d \in Conns : sock'[d] \in {"unmade", "new"} => peer'[d] = "none"
    BY <1>0, <2>1, <2>2 DEF MadeInv, Made, server
  <2>4. \A d \in Conns : from'[d] \in Made' \cup {None}
    BY <2>1, <2>2 DEF MadeInv, reads
  <2> QED
    BY <2>1, <2>2, <2>3, <2>4, MadeKept DEF server, reads
<1>4. CASE ConnectSocket
  <2>1. /\ UNCHANGED <<field, pushed, inbox, reads>>
        /\ \/ /\ field # None
              /\ sock' = [sock EXCEPT ![field] = "connected"]
              /\ peer' = [peer EXCEPT ![field] = "open"]
           \/ UNCHANGED <<sock, peer>>
        /\ \A c \in Conns : pc'[c] = pc[c]
    BY <1>1, <1>4, ConnectFacts
  <2>2. \A d \in Conns : sock'[d] \in {"unmade", "new"} => peer'[d] = "none"
    BY <1>0, <2>1 DEF MadeInv
  <2>3. Made \subseteq Made'
    BY <1>0, <2>1 DEF Made
  <2>4. field' \in Made' \cup {None} /\ \A d \in Conns : from'[d] \in Made' \cup {None}
    BY <2>1, <2>3 DEF MadeInv, reads
  <2> QED
    BY <2>1, <2>2, <2>3, <2>4, MadeKept DEF reads
<1>5. CASE StartLoop
  <2>1. UNCHANGED <<field, sock, server, reads>>
    BY <1>5, StartFacts
  <2>2. \A c \in Conns \ Made : pc'[c] = pc[c]
    <3>1. CASE Go(Window, "idle")
      BY <1>1, <3>1
    <3>2. CASE pc' = [pc EXCEPT ![Window] = "idle", ![field] = "ready"]
      <4>1. \A c \in Conns \ Made : c # field /\ c # Window /\ c \in Actors
        BY ActorFacts DEF MadeInv
      <4> QED
        BY <3>2, <4>1 DEF TypeOK
    <3> QED
      BY <1>5, <3>1, <3>2, StartFacts
  <2> QED
    BY <2>1, <2>2, MadeKept DEF server, reads, Made, MadeInv
<1>6. CASE Disconnect(Window)
  <2>1. /\ field' \in {field, None} /\ UNCHANGED <<server, reads>>
        /\ \A c \in Conns : pc'[c] = pc[c]
        /\ \/ sock' = sock
           \/ /\ field # None
              /\ \E s \in {"shut", "closed"} : sock' = [sock EXCEPT ![field] = s]
    BY <1>1, <1>6, QuitFacts
  <2>2. Made \subseteq Made'
    BY <1>0, <1>6, QuitFacts, SockKept
  <2>3. \A d \in Conns : sock'[d] \in {"unmade", "new"} => peer'[d] = "none"
    BY <1>0, <2>1 DEF MadeInv, server
  <2>4. field' \in Made' \cup {None} /\ \A d \in Conns : from'[d] \in Made' \cup {None}
    BY <2>1, <2>2 DEF MadeInv, reads
  <2> QED
    BY <2>1, <2>2, <2>3, <2>4, MadeKept DEF server, reads
<1>7. ASSUME NEW d \in Conns, LoopStep(d)
      PROVE  MadeInv'
  <2>1. /\ d \in Running /\ field' \in {field, None} /\ UNCHANGED <<peer, pushed>>
        /\ \/ sock' = sock
           \/ /\ field # None
              /\ \E s \in {"shut", "closed"} : sock' = [sock EXCEPT ![field] = s]
        /\ UNCHANGED apart
    BY <1>7, LoopFacts
  <2>2. Made \subseteq Made'
    BY <1>0, <2>1, SockKept
  <2>3. \A c \in Conns \ Made : pc'[c] = pc[c]
    <3>1. PICK step : Go(d, step)
      BY <1>7, LoopFacts
    <3>2. \A c \in Conns \ Made : c # d
      BY <2>1 DEF MadeInv, Running
    <3> QED
      BY <3>1, <3>2, ThreadsApart, ActorFacts
  <2>4. \A c \in Conns : sock'[c] \in {"unmade", "new"} => peer'[c] = "none"
    BY <1>0, <2>1 DEF MadeInv
  <2>5. field' \in Made' \cup {None} /\ \A c \in Conns : from'[c] \in Made' \cup {None}
    <3>1. \A c \in Conns : from'[c] \in {from[c], field, None}
      BY <1>0, <1>7, ReadFacts
    <3> QED
      BY <2>1, <2>2, <3>1 DEF MadeInv
  <2>6. \A c \in Conns \ Made : inbox'[c] = inbox[c] /\ shown'[c] = shown[c]
    <3>1. \A c \in Conns \ Made : c # from[d]
      BY ActorFacts DEF MadeInv
    <3> QED
      BY <1>7, <3>1, ReadFacts
  <2> QED
    BY <2>1, <2>2, <2>3, <2>4, <2>5, <2>6, MadeKept
<1>8. ASSUME NEW d \in Conns, Push(d)
      PROVE  MadeInv'
  <2>1. /\ d \in Made /\ UNCHANGED <<field, pc, sock, peer, reads>>
        /\ \A c \in Conns : c # d => pushed'[c] = pushed[c] /\ inbox'[c] = inbox[c]
    BY <1>8, PushFacts DEF Live, Made, TypeOK
  <2>2. \A c \in Conns \ Made : c # d
    BY <2>1
  <2>3. Made' = Made
    BY <2>1 DEF Made
  <2> QED
    BY <2>1, <2>2, <2>3 DEF MadeInv, reads
<1>9. ASSUME NEW d \in Conns, ServerEnds(d)
      PROVE  MadeInv'
  <2>1. /\ d \in Made /\ sock[d] = "connected" /\ UNCHANGED <<field, pc, sock, pushed, reads>>
        /\ \A c \in Conns : c # d => peer'[c] = peer[c] /\ inbox'[c] = inbox[c]
    <3>1. /\ sock[d] = "connected" /\ UNCHANGED <<field, pc, sock, pushed, reads>>
      BY <1>9, EndsFacts
    <3>2. \A c \in Conns : c # d => peer'[c] = peer[c]
      <4>1. peer' = [peer EXCEPT ![d] = "fin"] \/ peer' = [peer EXCEPT ![d] = "reset"]
        BY <1>9, EndsFacts
      <4> QED
        BY <1>0, <4>1
    <3>3. \A c \in Conns : c # d => inbox'[c] = inbox[c]
      <4>1. inbox' = inbox \/ inbox' = [inbox EXCEPT ![d] = <<>>]
        BY <1>9, EndsFacts
      <4> QED
        BY <1>0, <4>1
    <3> QED
      BY <3>1, <3>2, <3>3 DEF Made
  <2>2. \A c \in Conns \ Made : c # d
    BY <2>1
  <2>3. Made' = Made
    BY <2>1 DEF Made
  <2>4. \A c \in Conns : sock'[c] \in {"unmade", "new"} => peer'[c] = "none"
    BY <2>1 DEF MadeInv
  <2> QED
    BY <2>1, <2>2, <2>3, <2>4, MadeKept DEF reads, MadeInv
<1> QED
  BY <1>2, <1>3, <1>4, <1>5, <1>6, <1>7, <1>8, <1>9 DEF Next, Click, WindowStep

LEMMA OpeningStep ==
    ASSUME TypeOK, MadeInv, OpeningInv, Next
    PROVE  OpeningInv'
<1>1. ASSUME NEW step, Go(Window, step)
      PROVE  pc'[Window] = step /\ \A c \in Conns : pc'[c] = pc[c]
  BY <1>1, ThreadsApart, ActorFacts DEF Go, TypeOK
<1>2. CASE LookupFails
  BY <1>2 DEF LookupFails, OpeningInv
<1>3. CASE MakeSocket
  <2>1. \E c \in Conns \ Made : field' = c
    BY <1>3, MakeFacts
  <2>2. \A c \in Conns : pc'[c] = pc[c]
    BY <1>1, <1>3, MakeFacts
  <2> QED
    BY <2>1, <2>2 DEF OpeningInv, MadeInv
<1>4. CASE ConnectSocket
  <2>1. field' = field /\ field \in Conns \cup {None} /\ pc[Window] = "connect"
    BY <1>4, ConnectFacts DEF TypeOK
  <2>2. \A c \in Conns : pc'[c] = pc[c]
    BY <1>1, <1>4, ConnectFacts
  <2> QED
    BY <2>1, <2>2 DEF OpeningInv
<1>5. CASE StartLoop
  <2>1. pc'[Window] = "idle"
    <3>1. CASE Go(Window, "idle")
      BY <1>1, <3>1
    <3>2. CASE field # None /\ pc' = [pc EXCEPT ![Window] = "idle", ![field] = "ready"]
      BY <3>2, ActorFacts DEF TypeOK
    <3> QED
      BY <1>5, <3>1, <3>2, StartFacts
  <2> QED
    BY <2>1 DEF OpeningInv
<1>6. CASE Exit \/ Disconnect(Window)
  <2>1. pc'[Window] \in {"shutdown", "idle", "close", "clear"}
    BY <1>1, <1>6, QuitFacts DEF Exit
  <2> QED
    BY <2>1 DEF OpeningInv
<1>7. ASSUME NEW d \in Conns, LoopStep(d)
      PROVE  OpeningInv'
  <2>1. PICK step : Go(d, step)
    BY <1>7, LoopFacts
  <2>2. pc'[Window] = pc[Window] /\ \A c \in Conns : c # d => pc'[c] = pc[c]
    BY <2>1, ThreadsApart, ActorFacts
  <2>3. field' \in {field, None} /\ d \in Running /\ field \in Conns \cup {None}
    BY <1>7, LoopFacts DEF TypeOK
  <2> QED
    BY <2>2, <2>3 DEF OpeningInv, Running
<1>8. ASSUME NEW d \in Conns, Push(d) \/ ServerEnds(d)
      PROVE  OpeningInv'
  <2>1. UNCHANGED <<field, pc>>
    BY <1>8 DEF Push, ServerEnds
  <2> QED
    BY <2>1 DEF OpeningInv
<1> QED
  BY <1>2, <1>3, <1>4, <1>5, <1>6, <1>7, <1>8 DEF Next, Click, WindowStep

-----------------------------------------------------------------------------
\* A connection opened apart has one loop.

LEMMA ApartStep ==
    ASSUME TypeOK, MadeInv, OpeningInv, ApartInv, Next
    PROVE  ApartInv'
<1>0. apart \subseteq Made /\ Made \subseteq Conns /\ None \notin apart
  BY ActorFacts DEF TypeOK, Made
<1>1. ASSUME NEW step, Go(Window, step)
      PROVE  Running' = Running
  <2>1. \A c \in Conns : pc'[c] = pc[c]
    BY <1>1, ThreadsApart, ActorFacts
  <2> QED
    BY <2>1 DEF Running
\* No loop starts, and the field is not set.
<1>2. ASSUME Running' \subseteq Running, field' \in {field, None}, UNCHANGED <<apart, from>>
      PROVE  ApartInv'
  BY <1>0, <1>2 DEF ApartInv
<1>3. CASE LookupFails \/ Exit
  <2>1. Running' = Running
    <3>1. CASE LookupFails
      BY <3>1 DEF LookupFails, Running
    <3>2. CASE Exit
      BY <1>1, <3>2 DEF Exit
    <3> QED
      BY <1>3, <3>1, <3>2
  <2>2. UNCHANGED <<field, apart, from>>
    BY <1>3 DEF LookupFails, Exit, reads
  <2> QED
    BY <1>2, <2>1, <2>2
<1>4. CASE MakeSocket
  <2>1. PICK c \in Conns \ Made : /\ field' = c
                                  /\ apart' = IF Running = {} THEN apart \cup {c} ELSE apart
    BY <1>4, MakeFacts
  <2>2. Running' = Running /\ UNCHANGED from
    BY <1>1, <1>4, MakeFacts DEF reads
  <2>3. \A d \in Conns : from[d] # c
    BY <2>1, ActorFacts DEF MadeInv
  <2>4. field' \in apart' => Running' \subseteq {field'} /\ from'[field'] \in {field', None}
    <3>1. from[c] = None
      BY <2>1 DEF MadeInv, TypeOK
    <3> QED
      BY <1>0, <2>1, <2>2, <3>1
  <2>5. \A d \in Conns : from'[d] \in apart' => from'[d] = d
    BY <2>1, <2>2, <2>3 DEF ApartInv
  <2> QED
    BY <2>4, <2>5 DEF ApartInv
<1>5. CASE ConnectSocket
  <2>1. Running' = Running
    BY <1>1, <1>5, ConnectFacts
  <2>2. UNCHANGED <<field, apart, from>>
    BY <1>5, ConnectFacts DEF reads
  <2> QED
    BY <1>2, <2>1, <2>2
<1>6. CASE StartLoop
  <2>1. UNCHANGED <<field, apart, from>>
    BY <1>6, StartFacts DEF reads
  <2>2. CASE Go(Window, "idle")
    BY <1>1, <1>2, <2>1, <2>2
  <2>3. CASE field # None /\ pc' = [pc EXCEPT ![Window] = "idle", ![field] = "ready"]
    <3>1. \A c \in Conns : c # field => pc'[c] = pc[c]
      BY <2>3, ActorFacts DEF TypeOK
    <3>2. Running' \subseteq Running \cup {field}
      BY <3>1 DEF Running
    <3> QED
      BY <2>1, <3>2 DEF ApartInv
  <2> QED
    BY <1>6, <2>2, <2>3, StartFacts
<1>7. CASE Disconnect(Window)
  <2>1. Running' = Running
    BY <1>1, <1>7, QuitFacts
  <2>2. field' \in {field, None} /\ UNCHANGED <<apart, from>>
    BY <1>7, QuitFacts DEF reads
  <2> QED
    BY <1>2, <2>1, <2>2
<1>8. ASSUME NEW d \in Conns, LoopStep(d)
      PROVE  ApartInv'
  <2>1. d \in Running /\ field' \in {field, None} /\ apart' = apart
    BY <1>8, LoopFacts
  <2>2. Running' \subseteq Running
    <3>1. PICK step : Go(d, step)
      BY <1>8, LoopFacts
    <3>2. \A c \in Conns : c # d => pc'[c] = pc[c]
      BY <3>1, ThreadsApart, ActorFacts
    <3> QED
      BY <2>1, <3>2 DEF Running
  <2>3. \/ UNCHANGED from
        \/ from' = [from EXCEPT ![d] = None]
        \/ field # None /\ from' = [from EXCEPT ![d] = field]
    BY <1>8, ReadFacts
  <2>4. \A c \in Conns : from'[c] = from[c] \/ (c = d /\ from'[c] \in {None, field})
    BY <2>3 DEF TypeOK
  <2>5. \A c \in Conns : from'[c] \in apart => from'[c] = c
    <3>1. field \in apart => field = d
      BY <2>1 DEF ApartInv
    <3> QED
      BY <1>0, <2>4, <3>1 DEF ApartInv
  <2>6. field' \in apart => Running' \subseteq {field'} /\ from'[field'] \in {field', None}
    BY <1>0, <2>1, <2>2, <2>4 DEF ApartInv
  <2> QED
    BY <2>1, <2>5, <2>6 DEF ApartInv
<1>9. ASSUME NEW d \in Conns, Push(d) \/ ServerEnds(d)
      PROVE  ApartInv'
  <2>1. UNCHANGED <<field, pc, reads, apart>>
    BY <1>9 DEF Push, ServerEnds
  <2> QED
    BY <2>1 DEF ApartInv, Running, reads
<1> QED
  BY <1>3, <1>4, <1>5, <1>6, <1>7, <1>8, <1>9 DEF Next, Click, WindowStep

LEMMA TextStep ==
    ASSUME TypeOK, OpeningInv, TextInv, Next
    PROVE  TextInv'
<1>1. ASSUME UNCHANGED text, \A c \in Conns : pc'[c] = pc[c]
      PROVE  TextInv'
  BY <1>1 DEF TextInv
<1>2. ASSUME NEW step, Go(Window, step)
      PROVE  \A c \in Conns : pc'[c] = pc[c]
  BY <1>2, ThreadsApart, ActorFacts
<1>3. CASE LookupFails
  BY <1>1, <1>3 DEF LookupFails, reads
<1>4. CASE MakeSocket \/ ConnectSocket \/ Disconnect(Window)
  BY <1>1, <1>2, <1>4, MakeFacts, ConnectFacts, QuitFacts DEF reads
<1>5. CASE Exit
  BY <1>1, <1>2, <1>5 DEF Exit, reads
<1>6. CASE StartLoop
  <2>1. UNCHANGED text
    BY <1>6, StartFacts DEF reads
  <2>2. CASE Go(Window, "idle")
    BY <1>1, <1>2, <2>1, <2>2
  <2>3. CASE field # None /\ pc' = [pc EXCEPT ![Window] = "idle", ![field] = "ready"]
    <3>1. field \in Conns /\ pc[field] = "none"
      BY <1>6, <2>3, StartFacts DEF OpeningInv, TypeOK
    <3>2. \A c \in Conns : c # field => pc'[c] = pc[c]
      BY <2>3, ActorFacts DEF TypeOK
    <3> QED
      BY <2>1, <3>1, <3>2 DEF TextInv
  <2> QED
    BY <1>6, <2>2, <2>3, StartFacts
<1>7. ASSUME NEW d \in Conns, LoopStep(d)
      PROVE  TextInv'
  <2>1. PICK step : Go(d, step)
    BY <1>7, LoopFacts
  <2>2. \A c \in Conns : c # d => pc'[c] = pc[c]
    BY <2>1, ThreadsApart, ActorFacts
  <2>3. \A c \in Conns : c # d => text'[c] = text[c]
    <3>1. UNCHANGED text \/ \E q : text' = [text EXCEPT ![d] = q]
      BY <1>7 DEF LoopStep, Begin, Receive, TextArrives, StreamEnds, ReceiveThrows, Show, Report,
                  Check, Leave, Disconnect, Shutdown, Close, Clear, Tell, reads
    <3> QED
      BY <3>1 DEF TypeOK
  <2>4. pc'[d] = "show" \/ text'[d] = <<>>
    <3>1. CASE TextArrives(d)
      BY <3>1, ActorFacts DEF TextArrives, Go, TypeOK
    <3>2. CASE Show(d)
      BY <3>2 DEF Show, TypeOK
    <3>3. CASE ~TextArrives(d) /\ ~Show(d)
      <4>1. UNCHANGED text /\ pc[d] # "show"
        BY <1>7, <3>3
           DEF LoopStep, Begin, Receive, StreamEnds, ReceiveThrows, Report, Check, Leave,
               Disconnect, Shutdown, Close, Clear, Tell, reads
      <4> QED
        BY <4>1 DEF TextInv
    <3> QED
      BY <3>1, <3>2, <3>3
  <2> QED
    BY <2>2, <2>3, <2>4 DEF TextInv
<1>8. ASSUME NEW d \in Conns, Push(d) \/ ServerEnds(d)
      PROVE  TextInv'
  <2>1. UNCHANGED <<pc, reads>>
    BY <1>8 DEF Push, ServerEnds
  <2> QED
    BY <1>1, <2>1 DEF reads
<1> QED
  BY <1>3, <1>4, <1>5, <1>6, <1>7, <1>8 DEF Next, Click, WindowStep

-----------------------------------------------------------------------------
\* A live connection opened apart stays the current one.

\* Nothing but a new connection becomes live.
LEMMA LiveBefore ==
    ASSUME TypeOK, Next, ~ConnectSocket, NEW c \in apart', Live(c)'
    PROVE  c \in apart /\ Live(c)
<1>0. /\ sock \in [Conns -> {"unmade", "new", "connected", "shut", "closed"}]
      /\ peer \in [Conns -> {"none", "open", "fin", "reset"}] /\ field \in Conns \cup {None}
      /\ apart \subseteq Conns
  BY DEF TypeOK, Made
<1>1. CASE MakeSocket
  <2>1. PICK d \in Conns : /\ sock' = [sock EXCEPT ![d] = "new"]
                           /\ apart' = IF Running = {} THEN apart \cup {d} ELSE apart
    BY <1>1, MakeFacts
  <2>2. UNCHANGED peer
    BY <1>1, MakeFacts DEF server
  <2> QED
    BY <1>0, <2>1, <2>2 DEF Live
<1>2. ASSUME UNCHANGED <<peer, apart>>,
             \/ sock' = sock
             \/ /\ field # None
                /\ \E s \in {"shut", "closed"} : sock' = [sock EXCEPT ![field] = s]
      PROVE  c \in apart /\ Live(c)
  BY <1>0, <1>2 DEF Live
<1>3. CASE LookupFails \/ Exit
  BY <1>2, <1>3 DEF LookupFails, Exit, server
<1>4. CASE StartLoop \/ Disconnect(Window)
  BY <1>2, <1>4, StartFacts, QuitFacts DEF server
<1>5. ASSUME NEW d \in Conns, LoopStep(d)
      PROVE  c \in apart /\ Live(c)
  BY <1>2, <1>5, LoopFacts
<1>6. ASSUME NEW d \in Conns, Push(d)
      PROVE  c \in apart /\ Live(c)
  BY <1>2, <1>6, PushFacts
<1>7. ASSUME NEW d \in Conns, ServerEnds(d)
      PROVE  c \in apart /\ Live(c)
  BY <1>0, <1>7, EndsFacts DEF Live
<1> QED
  BY <1>1, <1>3, <1>4, <1>5, <1>6, <1>7 DEF Next, Click, WindowStep

\* The loop of a live, current connection opened apart goes on reading it.
LEMMA ReadingStays ==
    ASSUME TypeOK, ApartInv, NEW c \in apart, field = c, Live(c), Reading(c), LoopStep(c)
    PROVE  Reading(c)' /\ UNCHANGED <<field, enabled>>
<1>0. c \in Conns /\ c # None
  BY ActorFacts DEF TypeOK, Made
<1>1. FieldIs({"connected"}) /\ ~FieldIs({"shut"})
  BY <1>0 DEF FieldIs, Live
<1>2. pc[c] = "wait" => from[c] = c
  BY <1>0 DEF ApartInv, TypeOK
<1>3. ASSUME NEW step \in {"receive", "wait", "show"}, Go(c, step)
      PROVE  Reading(c)'
  <2>1. pc'[c] = step
    BY <1>0, <1>3, ActorFacts DEF Go, TypeOK
  <2> QED
    BY <2>1 DEF Reading
<1>4. CASE Begin(c) \/ Show(c) \/ TextArrives(c)
  BY <1>3, <1>4 DEF Begin, Show, TextArrives
<1>5. CASE Receive(c)
  BY <1>1, <1>3, <1>5 DEF Receive
<1>6. ~(StreamEnds(c) \/ ReceiveThrows(c))
  BY <1>2 DEF StreamEnds, ReceiveThrows, Live
<1>7. ~(Report(c) \/ Check(c) \/ Leave(c) \/ Disconnect(c) \/ Tell(c))
  BY DEF Reading, Report, Check, Leave, Disconnect, Shutdown, Close, Clear, Tell
<1> QED
  BY <1>4, <1>5, <1>6, <1>7 DEF LoopStep

LEMMA LiveStep ==
    ASSUME TypeOK, OpeningInv, ApartInv, LiveInv, Next
    PROVE  LiveInv'
<1>0. /\ sock \in [Conns -> {"unmade", "new", "connected", "shut", "closed"}]
      /\ field \in Conns \cup {None} /\ enabled \in BOOLEAN
      /\ apart \subseteq Made /\ apart \subseteq Conns /\ None \notin apart
  BY ActorFacts DEF TypeOK, Made
<1>1. ASSUME NEW step, Go(Window, step)
      PROVE  pc'[Window] = step /\ \A c \in Conns : pc'[c] = pc[c]
  BY <1>1, ThreadsApart, ActorFacts DEF Go, TypeOK
\* The button is enabled, or the window is past the shutdown: nothing live is apart.
<1>2. ASSUME enabled \/ pc[Window] \in {"connect", "close", "clear"}
      PROVE  \A c \in apart : ~Live(c)
  BY <1>2 DEF LiveInv
<1>3. ASSUME ~ConnectSocket, \A c \in apart : ~Live(c), pc'[Window] # "connect" \/ ~enabled'
      PROVE  LiveInv'
  BY <1>3, LiveBefore DEF LiveInv
<1>4. CASE LookupFails
  <2>1. enabled /\ pc'[Window] = "idle" /\ ~ConnectSocket
    BY <1>4 DEF LookupFails, ConnectSocket
  <2> QED
    BY <1>2, <1>3, <2>1
<1>5. CASE MakeSocket
  <2>1. enabled /\ enabled' = FALSE /\ ~ConnectSocket
    BY <1>5, MakeFacts DEF ConnectSocket
  <2> QED
    BY <1>2, <1>3, <2>1
<1>6. CASE ConnectSocket
  <2>1. CASE /\ field # None /\ sock' = [sock EXCEPT ![field] = "connected"]
             /\ peer' = [peer EXCEPT ![field] = "open"] /\ UNCHANGED enabled /\ Go(Window, "start")
    <3>1. /\ pc[Window] = "connect" /\ pc'[Window] = "start"
          /\ field' = field /\ apart' = apart
      BY <1>1, <1>6, <2>1, ConnectFacts
    <3>2. ASSUME NEW c \in apart, Live(c)'
          PROVE  c = field
      <4>1. ~Live(c)
        BY <1>2, <3>1
      <4> QED
        BY <1>0, <2>1, <3>2, <4>1 DEF Live, TypeOK
    <3>3. field \in apart => ~enabled
      BY <3>1 DEF LiveInv
    <3> QED
      BY <2>1, <3>1, <3>2, <3>3 DEF LiveInv
  <2>2. CASE enabled' = TRUE /\ Go(Window, "idle") /\ UNCHANGED <<sock, peer>>
    <3>1. pc[Window] = "connect" /\ pc'[Window] = "idle" /\ apart' = apart
      BY <1>1, <1>6, <2>2, ConnectFacts
    <3>2. \A c \in apart : ~Live(c)'
      BY <1>2, <2>2, <3>1 DEF Live
    <3> QED
      BY <3>1, <3>2 DEF LiveInv
  <2> QED
    BY <1>6, <2>1, <2>2, ConnectFacts
<1>7. CASE StartLoop
  <2>1. /\ pc[Window] = "start" /\ UNCHANGED <<field, sock, peer, apart>>
    BY <1>7, StartFacts DEF server
  <2>2. CASE field # None /\ UNCHANGED enabled
             /\ pc' = [pc EXCEPT ![Window] = "idle", ![field] = "ready"]
    <3>1. pc'[Window] = "idle" /\ pc'[field] = "ready"
      BY <1>0, <2>2, ActorFacts DEF TypeOK
    <3>2. ASSUME NEW c \in apart, Live(c)'
          PROVE  field = c /\ ~enabled
      BY <2>1, <3>2 DEF LiveInv, Live
    <3> QED
      BY <2>1, <2>2, <3>1, <3>2 DEF LiveInv, Reading
  <2>3. CASE field = None \/ sock[field] # "connected"
    <3>1. pc'[Window] = "idle"
      BY <1>1, <1>7, <2>3, StartFacts
    <3>2. \A c \in apart : ~Live(c)
      BY <1>0, <2>3 DEF LiveInv, Live
    <3>3. ~ConnectSocket
      BY <2>1 DEF ConnectSocket
    <3> QED
      BY <1>3, <3>1, <3>2, <3>3
  <2> QED
    BY <1>7, <2>2, <2>3, StartFacts
<1>8. CASE Exit
  <2>1. /\ pc[Window] = "idle" /\ pc'[Window] = "shutdown" /\ \A c \in Conns : pc'[c] = pc[c]
        /\ UNCHANGED <<field, enabled, sock, peer, apart>>
    BY <1>1, <1>8 DEF Exit, server
  <2> QED
    BY <1>0, <2>1 DEF LiveInv, Live, Reading
<1>9. CASE Disconnect(Window)
  <2>1. pc[Window] \in {"shutdown", "close", "clear"} /\ pc'[Window] \in {"idle", "close", "clear"}
    BY <1>1, <1>9, QuitFacts
  <2>2. ~ConnectSocket
    BY <2>1 DEF ConnectSocket
  <2>3. CASE pc[Window] # "shutdown"
    BY <1>2, <1>3, <2>1, <2>2, <2>3
  <2>4. CASE pc[Window] = "shutdown"
    <3>1. \A c \in apart : Live(c) => field = c
      BY DEF LiveInv
    <3>2. /\ UNCHANGED <<peer, apart>>
          /\ \/ sock' = sock /\ (sock[field] \in {"new", "shut", "closed"} \/ peer[field] = "reset")
             \/ field = None
             \/ sock' = [sock EXCEPT ![field] = "shut"]
      BY <1>9, <2>4, QuitFacts DEF server
    <3>3. \A c \in apart : ~Live(c)'
      <4> SUFFICES ASSUME NEW c \in apart, Live(c)' PROVE FALSE
        BY <3>2
      <4>1. Live(c) /\ field = c
        BY <2>2, <3>1, <3>2, LiveBefore
      <4> QED
        BY <1>0, <3>2, <4>1 DEF Live
    <3> QED
      BY <2>1, <3>2, <3>3 DEF LiveInv
  <2> QED
    BY <2>3, <2>4
<1>10. ASSUME NEW d \in Conns, LoopStep(d)
       PROVE  LiveInv'
  <2>1. PICK step : Go(d, step)
    BY <1>10, LoopFacts
  <2>2. pc'[Window] = pc[Window]
    BY <2>1, ThreadsApart, ActorFacts
  <2>3. d \in Running /\ field' \in {field, None} /\ apart' = apart
    BY <1>10, LoopFacts
  <2>4. ~(pc[Window] = "connect" /\ field \in apart)
    BY <1>0, <2>3 DEF OpeningInv, ApartInv, Running
  <2>5. ~ConnectSocket
    BY <1>0, <2>1, ActorFacts DEF ConnectSocket, ConnectFails, Go, TypeOK
  <2>6. ASSUME NEW c \in apart', Live(c)'
        PROVE  /\ field' = c /\ ~enabled' /\ pc'[Window] \in {"idle", "shutdown", "start"}
               /\ pc'[Window] # "start" => Reading(c)'
    <3>1. /\ c \in apart /\ Live(c) /\ field = c /\ ~enabled
          /\ pc[Window] \in {"idle", "shutdown", "start"}
          /\ pc[Window] # "start" => Reading(c)
      BY <2>5, <2>6, LiveBefore DEF LiveInv
    <3>2. d = c /\ pc[c] # "none"
      BY <2>3, <3>1 DEF ApartInv, Running
    <3>3. pc[Window] # "start"
      BY <1>0, <3>1, <3>2 DEF OpeningInv
    <3>4. Reading(c)' /\ UNCHANGED <<field, enabled>>
      BY <1>10, <3>1, <3>2, <3>3, ReadingStays
    <3> QED
      BY <2>2, <3>1, <3>4
  <2> QED
    BY <1>0, <2>2, <2>3, <2>4, <2>6 DEF LiveInv
<1>11. ASSUME NEW d \in Conns, Push(d) \/ ServerEnds(d)
       PROVE  LiveInv'
  <2>1. UNCHANGED <<field, enabled, pc, apart>>
    BY <1>11 DEF Push, ServerEnds
  <2>2. ~ConnectSocket
    BY <1>0, <2>1, ActorFacts DEF ConnectSocket, ConnectFails, Go, TypeOK
  <2>3. \A c \in apart' : Live(c)' => c \in apart /\ Live(c)
    BY <2>2, LiveBefore
  <2> QED
    BY <2>1, <2>3 DEF LiveInv, Reading
<1> QED
  BY <1>4, <1>5, <1>6, <1>7, <1>8, <1>9, <1>10, <1>11 DEF Next, Click, WindowStep

-----------------------------------------------------------------------------
\* Bytes in several places.

LEMMA NoBytes == BytesOf(<<>>) = <<>>
BY DEF BytesOf

LEMMA ConcatAt ==
    ASSUME NEW S, NEW s \in Seq(S), NEW t \in Seq(S), NEW m, NEW n, Len(s) = m, Len(t) = n
    PROVE  /\ s \o t \in Seq(S) /\ Len(s \o t) = m + n
           /\ \A i \in 1 .. m + n : (s \o t)[i] = IF i <= m THEN s[i] ELSE t[i - m]
BY ConcatProperties

LEMMA Joined ==
    ASSUME NEW r \in Seq(Bytes), NEW s \in Seq(Bytes), NEW t \in Seq(Bytes)
    PROVE  r \o s \o t = r \o (s \o t)
BY ConcatAssociative

LEMMA BytesJoin ==
    ASSUME NEW m \in Seq(Mark), NEW n \in Seq(Mark)
    PROVE  BytesOf(m \o n) = BytesOf(m) \o BytesOf(n)
<1>1. /\ m \o n \in Seq(Mark) /\ Len(m \o n) = Len(m) + Len(n)
      /\ Len(m) \in Nat /\ Len(n) \in Nat
      /\ \A i \in 1 .. Len(m) + Len(n) : (m \o n)[i] = IF i <= Len(m) THEN m[i] ELSE n[i - Len(m)]
  BY ConcatProperties, LenProperties
<1>2. /\ BytesOf(m) \in Seq(Bytes) /\ Len(BytesOf(m)) = Len(m)
      /\ BytesOf(n) \in Seq(Bytes) /\ Len(BytesOf(n)) = Len(n)
      /\ BytesOf(m \o n) \in Seq(Bytes) /\ Len(BytesOf(m \o n)) = Len(m) + Len(n)
      /\ \A i \in 1 .. Len(m) : BytesOf(m)[i] = m[i].byte
      /\ \A i \in 1 .. Len(n) : BytesOf(n)[i] = n[i].byte
      /\ \A i \in 1 .. Len(m) + Len(n) : BytesOf(m \o n)[i] = (m \o n)[i].byte
  BY <1>1, BytesFacts
<1>3. /\ BytesOf(m) \o BytesOf(n) \in Seq(Bytes)
      /\ Len(BytesOf(m) \o BytesOf(n)) = Len(m) + Len(n)
      /\ \A i \in 1 .. Len(m) + Len(n) : (BytesOf(m) \o BytesOf(n))[i] =
            IF i <= Len(m) THEN BytesOf(m)[i] ELSE BytesOf(n)[i - Len(m)]
  <2> DEFINE r == BytesOf(m)
             t == BytesOf(n)
  <2>1. r \in Seq(Bytes) /\ t \in Seq(Bytes) /\ Len(r) = Len(m) /\ Len(t) = Len(n)
    BY <1>2
  <2> HIDE DEF r, t
  <2>2. /\ r \o t \in Seq(Bytes) /\ Len(r \o t) = Len(r) + Len(t)
        /\ \A i \in 1 .. Len(r) + Len(t) : (r \o t)[i] = IF i <= Len(r) THEN r[i] ELSE t[i - Len(r)]
    BY <2>1, ConcatProperties
  <2> QED
    BY <2>1, <2>2 DEF r, t
<1>4. \A i \in 1 .. Len(m) + Len(n) : BytesOf(m \o n)[i] = (BytesOf(m) \o BytesOf(n))[i]
  <2>1. \A i \in 1 .. Len(m) + Len(n) :
          \/ i <= Len(m) /\ i \in 1 .. Len(m)
          \/ ~(i <= Len(m)) /\ i - Len(m) \in 1 .. Len(n)
    BY <1>1
  <2> QED
    BY <1>1, <1>2, <1>3, <2>1
<1> QED
  BY <1>2, <1>3, <1>4, SeqEqual

LEMMA PlaceNames == Unread \notin Actors /\ \A d \in Conns : d # Unread /\ d # Window
BY ChatClientAssumption, ActorFacts DEF Unread, Actors, Conns, Window

LEMMA PiecesFacts ==
    ASSUME NEW c \in Conns
    PROVE  /\ DOMAIN Pieces(c) = Actors \cup {Unread}
           /\ Pieces(c)[Window] = BytesOf(shown[c]) /\ Pieces(c)[Unread] = inbox[c]
           /\ \A d \in Conns : Pieces(c)[d] = BytesOf(InHand(d, c))
BY PlaceNames, ActorFacts DEF Pieces

LEMMA PiecesFactsNext ==
    ASSUME NEW c \in Conns
    PROVE  /\ DOMAIN Pieces(c)' = Actors \cup {Unread}
           /\ Pieces(c)'[Window] = BytesOf(shown'[c]) /\ Pieces(c)'[Unread] = inbox'[c]
           /\ \A d \in Conns : Pieces(c)'[d] = BytesOf(InHand(d, c)')
<1>1. BytesOf(shown[c])' = BytesOf(shown'[c])
      /\ \A d \in Conns : BytesOf(InHand(d, c))' = BytesOf(InHand(d, c)')
  BY DEF BytesOf
<1> QED
  BY <1>1, PlaceNames, ActorFacts DEF Pieces

LEMMA PiecesTyped ==
    ASSUME TypeOK, NEW c \in Conns
    PROVE  \A a \in Actors \cup {Unread} : Pieces(c)[a] \in Seq(Bytes)
<1>1. shown[c] \in Seq(Mark) /\ inbox[c] \in Seq(Bytes) /\ \A d \in Conns : text[d] \in Seq(Mark)
  BY DEF TypeOK
<1>2. \A d \in Conns : InHand(d, c) \in Seq(Mark)
  BY <1>1, EmptySeq DEF InHand
<1> QED
  BY <1>1, <1>2, PiecesFacts, BytesFacts DEF Actors

LEMMA PiecesTypedNext ==
    ASSUME TypeOK', NEW c \in Conns
    PROVE  \A a \in Actors \cup {Unread} : Pieces(c)'[a] \in Seq(Bytes)
<1>1. shown'[c] \in Seq(Mark) /\ inbox'[c] \in Seq(Bytes) /\ \A d \in Conns : text'[d] \in Seq(Mark)
  BY DEF TypeOK
<1>2. \A d \in Conns : InHand(d, c)' \in Seq(Mark)
  BY <1>1, EmptySeq DEF InHand
<1> QED
  BY <1>1, <1>2, PiecesFactsNext, BytesFacts DEF Actors

LEMMA PlaceFound ==
    ASSUME NEW pieces, NEW byte, NEW a \in DOMAIN pieces, NEW i \in DOMAIN pieces[a],
           pieces[a][i] = byte,
           \A b \in DOMAIN pieces : \A j \in DOMAIN pieces[b] :
              pieces[b][j] = byte => a = b /\ i = j
    PROVE  InOnePlace(byte, pieces)
BY DEF InOnePlace

\* The bytes of one place go to the end of another one.
LEMMA JoinPlaces ==
    ASSUME NEW D, NEW a \in D, NEW b \in D, a # b,
           NEW P, NEW Q, DOMAIN P = D, DOMAIN Q = D,
           \A x \in D : P[x] \in Seq(Bytes),
           Q[a] = P[a] \o P[b], Q[b] = <<>>, \A x \in D \ {a, b} : Q[x] = P[x]
    PROVE  /\ \A n : Within(P, n) => Within(Q, n)
           /\ \A byte : InOnePlace(byte, P) => InOnePlace(byte, Q)
<1>1. /\ Len(P[a]) \in Nat /\ Len(P[b]) \in Nat
      /\ \A x \in D : DOMAIN P[x] = 1 .. Len(P[x])
      /\ DOMAIN P[a] = 1 .. Len(P[a]) /\ DOMAIN P[b] = 1 .. Len(P[b])
      /\ DOMAIN Q[a] = 1 .. Len(P[a]) + Len(P[b]) /\ DOMAIN Q[b] = {}
      /\ \A i \in 1 .. Len(P[a]) + Len(P[b]) : Q[a][i] =
            IF i <= Len(P[a]) THEN P[a][i] ELSE P[b][i - Len(P[a])]
  <2>1. P[a] \in Seq(Bytes) /\ P[b] \in Seq(Bytes)
    OBVIOUS
  <2>2. /\ P[a] \o P[b] \in Seq(Bytes) /\ Len(P[a] \o P[b]) = Len(P[a]) + Len(P[b])
        /\ \A i \in 1 .. Len(P[a]) + Len(P[b]) : (P[a] \o P[b])[i] =
              IF i <= Len(P[a]) THEN P[a][i] ELSE P[b][i - Len(P[a])]
    BY <2>1, ConcatProperties
  <2>3. \A x \in D : DOMAIN P[x] = 1 .. Len(P[x])
    BY LenProperties
  <2>4. DOMAIN <<>> = {}
    OBVIOUS
  <2> QED
    BY <2>1, <2>2, <2>3, <2>4, LenProperties
<1> DEFINE la == Len(P[a])
           lb == Len(P[b])
<1>2. \A i \in 1 .. la + lb : i \in 1 .. la \/ (~(i <= la) /\ i - la \in 1 .. lb)
  BY <1>1
<1>3. ASSUME NEW n, Within(P, n) PROVE Within(Q, n)
  <2>1. ASSUME NEW x \in D, NEW i \in DOMAIN Q[x] PROVE Q[x][i] <= n
    <3>1. CASE x \notin {a, b}
      BY <1>3, <2>1, <3>1 DEF Within
    <3>2. CASE x = a
      <4>1. i \in 1 .. la + lb
        BY <1>1, <2>1, <3>2
      <4>2. CASE i \in 1 .. la
        <5>1. P[a][i] <= n /\ i <= la
          BY <1>1, <1>3, <4>2 DEF Within
        <5> QED
          BY <1>1, <3>2, <4>1, <5>1
      <4>3. CASE ~(i <= la) /\ i - la \in 1 .. lb
        <5>1. P[b][i - la] <= n
          BY <1>1, <1>3, <4>3 DEF Within
        <5> QED
          BY <1>1, <3>2, <4>1, <4>3, <5>1
      <4> QED
        BY <1>2, <4>1, <4>2, <4>3
    <3>3. CASE x = b
      BY <1>1, <2>1, <3>3
    <3> QED
      BY <3>1, <3>2, <3>3
  <2> QED
    BY <2>1 DEF Within
<1>4. ASSUME NEW byte, InOnePlace(byte, P) PROVE InOnePlace(byte, Q)
  <2>1. PICK x \in D : \E i \in DOMAIN P[x] :
          /\ P[x][i] = byte
          /\ \A y \in D : \A j \in DOMAIN P[y] : P[y][j] = byte => x = y /\ i = j
    BY <1>4 DEF InOnePlace
  <2>2. PICK i \in DOMAIN P[x] :
          /\ P[x][i] = byte
          /\ \A y \in D : \A j \in DOMAIN P[y] : P[y][j] = byte => x = y /\ i = j
    BY <2>1
  <2> DEFINE x2 == IF x = b THEN a ELSE x
             i2 == IF x = b THEN la + i ELSE i
  <2>3. x2 \in D /\ i2 \in DOMAIN Q[x2] /\ Q[x2][i2] = byte
    <3>1. CASE x = b
      <4>1. /\ i \in 1 .. lb /\ la + i \in 1 .. la + lb /\ ~(la + i <= la)
            /\ (la + i) - la = i
        BY <1>1, <3>1
      <4>2. Q[a][la + i] = P[b][(la + i) - la]
        BY <1>1, <4>1
      <4> QED
        BY <1>1, <2>2, <3>1, <4>1, <4>2
    <3>2. CASE x = a
      <4>1. i \in 1 .. la /\ i \in 1 .. la + lb /\ i <= la
        BY <1>1, <3>2
      <4> QED
        BY <1>1, <2>2, <3>2, <4>1
    <3>3. CASE x \notin {a, b}
      BY <2>2, <3>3
    <3> QED
      BY <3>1, <3>2, <3>3
  <2>4. ASSUME NEW y \in D, NEW j \in DOMAIN Q[y], Q[y][j] = byte
        PROVE  x2 = y /\ i2 = j
    <3>1. CASE y = b
      BY <1>1, <2>4, <3>1
    <3>2. CASE y = a
      <4>1. j \in 1 .. la + lb
        BY <1>1, <2>4, <3>2
      <4>2. CASE j \in 1 .. la
        <5>1. P[a][j] = byte
          <6>1. j <= la
            BY <1>1, <4>2
          <6> QED
            BY <1>1, <2>4, <3>2, <4>1, <6>1
        <5>2. x = a /\ i = j
          BY <1>1, <2>2, <4>2, <5>1
        <5> QED
          BY <3>2, <5>2
      <4>3. CASE ~(j <= la) /\ j - la \in 1 .. lb
        <5>1. P[b][j - la] = byte
          BY <1>1, <2>4, <3>2, <4>1, <4>3
        <5>2. x = b /\ i = j - la
          BY <1>1, <2>2, <4>3, <5>1
        <5> QED
          BY <1>1, <3>2, <4>1, <5>2
      <4> QED
        BY <1>2, <4>1, <4>2, <4>3
    <3>3. CASE y \notin {a, b}
      <4>1. x = y /\ i = j
        BY <2>2, <2>4, <3>3
      <4> QED
        BY <3>3, <4>1
    <3> QED
      BY <3>1, <3>2, <3>3
  <2> HIDE DEF x2, i2
  <2> QED
    BY <2>3, <2>4 DEF InOnePlace
<1> QED
  BY <1>3, <1>4

\* The first bytes of one place go to an empty one.
LEMMA SplitPlaces ==
    ASSUME NEW D, NEW a \in D, NEW b \in D, a # b,
           NEW P, NEW Q, DOMAIN P = D, DOMAIN Q = D,
           \A x \in D : Q[x] \in Seq(Bytes),
           P[a] = Q[b] \o Q[a], P[b] = <<>>, \A x \in D \ {a, b} : Q[x] = P[x]
    PROVE  /\ \A n : Within(P, n) => Within(Q, n)
           /\ \A byte : InOnePlace(byte, P) => InOnePlace(byte, Q)
<1> DEFINE la == Len(Q[a])
           lb == Len(Q[b])
<1>1. /\ la \in Nat /\ lb \in Nat
      /\ DOMAIN Q[a] = 1 .. la /\ DOMAIN Q[b] = 1 .. lb
      /\ DOMAIN P[a] = 1 .. lb + la /\ DOMAIN P[b] = {}
      /\ \A i \in 1 .. lb + la : P[a][i] = IF i <= lb THEN Q[b][i] ELSE Q[a][i - lb]
  <2>1. Q[a] \in Seq(Bytes) /\ Q[b] \in Seq(Bytes)
    OBVIOUS
  <2>2. /\ Q[b] \o Q[a] \in Seq(Bytes) /\ Len(Q[b] \o Q[a]) = Len(Q[b]) + Len(Q[a])
        /\ \A i \in 1 .. Len(Q[b]) + Len(Q[a]) : (Q[b] \o Q[a])[i] =
              IF i <= Len(Q[b]) THEN Q[b][i] ELSE Q[a][i - Len(Q[b])]
    BY <2>1, ConcatProperties
  <2>3. DOMAIN <<>> = {}
    OBVIOUS
  <2> QED
    BY <2>1, <2>2, <2>3, LenProperties
<1>2. /\ \A i \in 1 .. lb : i \in DOMAIN P[a] /\ P[a][i] = Q[b][i]
      /\ \A i \in 1 .. la : lb + i \in DOMAIN P[a] /\ P[a][lb + i] = Q[a][i]
      /\ \A i \in 1 .. lb + la : i \in 1 .. lb \/ (i - lb \in 1 .. la /\ lb + (i - lb) = i)
  <2>1. ASSUME NEW i \in 1 .. lb PROVE i \in DOMAIN P[a] /\ P[a][i] = Q[b][i]
    <3>1. i \in 1 .. lb + la /\ i <= lb
      BY <1>1
    <3> QED
      BY <1>1, <3>1
  <2>2. ASSUME NEW i \in 1 .. la PROVE lb + i \in DOMAIN P[a] /\ P[a][lb + i] = Q[a][i]
    <3>1. lb + i \in 1 .. lb + la /\ ~(lb + i <= lb) /\ (lb + i) - lb = i
      BY <1>1
    <3>2. P[a][lb + i] = Q[a][(lb + i) - lb]
      BY <1>1, <3>1
    <3> QED
      BY <1>1, <3>1, <3>2
  <2>3. \A i \in 1 .. lb + la : i \in 1 .. lb \/ (i - lb \in 1 .. la /\ lb + (i - lb) = i)
    BY <1>1
  <2> QED
    BY <2>1, <2>2, <2>3
<1> HIDE DEF la, lb
<1>3. ASSUME NEW n, Within(P, n) PROVE Within(Q, n)
  <2>1. ASSUME NEW x \in D, NEW i \in DOMAIN Q[x] PROVE Q[x][i] <= n
    <3>1. CASE x \notin {a, b}
      BY <1>3, <2>1, <3>1 DEF Within
    <3>2. CASE x = a
      <4>1. lb + i \in DOMAIN P[a] /\ P[a][lb + i] = Q[a][i]
        BY <1>1, <1>2, <2>1, <3>2
      <4> QED
        BY <1>3, <3>2, <4>1 DEF Within
    <3>3. CASE x = b
      <4>1. i \in DOMAIN P[a] /\ P[a][i] = Q[b][i]
        BY <1>1, <1>2, <2>1, <3>3
      <4> QED
        BY <1>3, <3>3, <4>1 DEF Within
    <3> QED
      BY <3>1, <3>2, <3>3
  <2> QED
    BY <2>1 DEF Within
<1>4. ASSUME NEW byte, InOnePlace(byte, P) PROVE InOnePlace(byte, Q)
  <2>1. PICK x \in D : \E i \in DOMAIN P[x] :
          /\ P[x][i] = byte
          /\ \A y \in D : \A j \in DOMAIN P[y] : P[y][j] = byte => x = y /\ i = j
    BY <1>4 DEF InOnePlace
  <2>2. PICK i \in DOMAIN P[x] :
          /\ P[x][i] = byte
          /\ \A y \in D : \A j \in DOMAIN P[y] : P[y][j] = byte => x = y /\ i = j
    BY <2>1
  <2>3. CASE x \notin {a, b}
    <3>1. x \in DOMAIN Q /\ i \in DOMAIN Q[x] /\ Q[x][i] = byte
      BY <2>2, <2>3
    <3>2. ASSUME NEW y \in D, NEW j \in DOMAIN Q[y], Q[y][j] = byte PROVE x = y /\ i = j
      <4>1. CASE y = a
        BY <1>1, <1>2, <2>2, <2>3, <3>2, <4>1
      <4>2. CASE y = b
        BY <1>1, <1>2, <2>2, <2>3, <3>2, <4>2
      <4>3. CASE y \notin {a, b}
        BY <2>2, <3>2, <4>3
      <4> QED
        BY <4>1, <4>2, <4>3
    <3> QED
      BY <3>1, <3>2 DEF InOnePlace
  <2>4. CASE x = a
    <3>0. i \in 1 .. lb + la
      BY <1>1, <2>4
    <3>1. CASE i \in 1 .. lb
      <4>1. b \in DOMAIN Q /\ i \in DOMAIN Q[b] /\ Q[b][i] = byte
        BY <1>1, <1>2, <2>2, <2>4, <3>1
      <4>2. ASSUME NEW y \in D, NEW j \in DOMAIN Q[y], Q[y][j] = byte PROVE b = y /\ i = j
        <5>1. CASE y = a
          <6>1. lb + j \in DOMAIN P[a] /\ P[a][lb + j] = byte /\ j \in 1 .. la
            BY <1>1, <1>2, <4>2, <5>1
          <6>2. i = lb + j
            BY <2>2, <6>1
          <6> QED
            BY <1>1, <3>1, <6>1, <6>2
        <5>2. CASE y = b
          BY <1>1, <1>2, <2>2, <4>2, <5>2
        <5>3. CASE y \notin {a, b}
          BY <2>2, <2>4, <4>2, <5>3
        <5> QED
          BY <5>1, <5>2, <5>3
      <4> QED
        BY <4>1, <4>2 DEF InOnePlace
    <3>2. CASE i - lb \in 1 .. la /\ lb + (i - lb) = i
      <4>1. a \in DOMAIN Q /\ i - lb \in DOMAIN Q[a] /\ Q[a][i - lb] = byte
        BY <1>1, <1>2, <2>2, <2>4, <3>2
      <4>2. ASSUME NEW y \in D, NEW j \in DOMAIN Q[y], Q[y][j] = byte PROVE a = y /\ i - lb = j
        <5>1. CASE y = a
          <6>1. lb + j \in DOMAIN P[a] /\ P[a][lb + j] = byte /\ j \in 1 .. la
            BY <1>1, <1>2, <4>2, <5>1
          <6>2. i = lb + j
            BY <2>2, <6>1
          <6> QED
            BY <1>1, <5>1, <6>1, <6>2
        <5>2. CASE y = b
          <6>1. j \in 1 .. lb /\ P[a][j] = byte
            BY <1>1, <1>2, <4>2, <5>2
          <6>2. i = j
            BY <1>1, <1>2, <2>2, <6>1
          <6> QED
            BY <1>1, <3>2, <6>1, <6>2
        <5>3. CASE y \notin {a, b}
          BY <2>2, <2>4, <4>2, <5>3
        <5> QED
          BY <5>1, <5>2, <5>3
      <4> QED
        BY <4>1, <4>2 DEF InOnePlace
    <3> QED
      BY <1>2, <3>0, <3>1, <3>2
  <2>5. CASE x = b
    BY <1>1, <2>2, <2>5
  <2> QED
    BY <2>3, <2>4, <2>5
<1> QED
  BY <1>3, <1>4

\* New bytes are added to one place.
LEMMA AddPlaces ==
    ASSUME NEW D, NEW a \in D, NEW P, NEW Q, DOMAIN P = D, DOMAIN Q = D,
           NEW p \in Nat, NEW end \in Nat, p < end,
           \A x \in D : P[x] \in Seq(Bytes),
           Q[a] = P[a] \o Sent(p, end), \A x \in D \ {a} : Q[x] = P[x],
           Within(P, p), \A byte \in 1 .. p : InOnePlace(byte, P)
    PROVE  Within(Q, end) /\ \A byte \in 1 .. end : InOnePlace(byte, Q)
<1> DEFINE la == Len(P[a])
           ln == end - p
<1>1. /\ la \in Nat /\ ln \in Nat /\ p + ln = end
      /\ DOMAIN P[a] = 1 .. la /\ DOMAIN Q[a] = 1 .. la + ln
      /\ \A i \in 1 .. la + ln : Q[a][i] = IF i <= la THEN P[a][i] ELSE p + (i - la)
  <2>1. /\ P[a] \in Seq(Bytes) /\ Sent(p, end) \in Seq(Bytes)
        /\ Len(Sent(p, end)) = ln /\ ln \in Nat
        /\ \A i \in 1 .. ln : Sent(p, end)[i] = p + i
    BY SentFacts
  <2>2. /\ P[a] \o Sent(p, end) \in Seq(Bytes) /\ Len(P[a] \o Sent(p, end)) = la + ln
        /\ \A i \in 1 .. la + ln : (P[a] \o Sent(p, end))[i] =
              IF i <= la THEN P[a][i] ELSE Sent(p, end)[i - la]
    <3> DEFINE new == Sent(p, end)
               old == P[a]
    <3>1. /\ old \in Seq(Bytes) /\ new \in Seq(Bytes)
          /\ Len(old) = la /\ Len(new) = ln
      BY <2>1
    <3> HIDE DEF new, old, la, ln
    <3>2. /\ old \o new \in Seq(Bytes) /\ Len(old \o new) = Len(old) + Len(new)
          /\ \A i \in 1 .. Len(old) + Len(new) :
                (old \o new)[i] = IF i <= Len(old) THEN old[i] ELSE new[i - Len(old)]
      BY <3>1, ConcatProperties
    <3> QED
      BY <3>1, <3>2 DEF new, old
  <2>3. la \in Nat /\ DOMAIN P[a] = 1 .. la /\ DOMAIN (P[a] \o Sent(p, end)) = 1 .. la + ln
    BY <2>1, <2>2, LenProperties
  <2>4. \A i \in 1 .. la + ln : ~(i <= la) => i - la \in 1 .. ln
    BY <2>1, <2>3
  <2>5. p + ln = end
    OBVIOUS
  <2> QED
    BY <2>1, <2>2, <2>3, <2>4, <2>5
<1>2. /\ \A x \in D : DOMAIN P[x] = 1 .. Len(P[x]) /\ Len(P[x]) \in Nat
      /\ \A x \in D : \A i \in DOMAIN P[x] : P[x][i] \in Nat /\ P[x][i] <= p
  <2>1. \A x \in D : DOMAIN P[x] = 1 .. Len(P[x]) /\ Len(P[x]) \in Nat
    BY LenProperties
  <2>2. \A x \in D : \A i \in DOMAIN P[x] : P[x][i] \in Bytes
    BY <2>1, ElementOfSeq
  <2> QED
    BY <2>1, <2>2 DEF Within, Bytes
<1>3. \A i \in 1 .. la : i \in DOMAIN Q[a] /\ Q[a][i] = P[a][i]
  <2>1. \A i \in 1 .. la : i \in 1 .. la + ln /\ i <= la
    BY <1>1
  <2> QED
    BY <1>1, <2>1
<1>4. \A i \in 1 .. ln : la + i \in DOMAIN Q[a] /\ Q[a][la + i] = p + i
  <2>1. \A i \in 1 .. ln : la + i \in 1 .. la + ln /\ ~(la + i <= la) /\ (la + i) - la = i
    BY <1>1
  <2>2. \A i \in 1 .. ln : Q[a][la + i] = p + ((la + i) - la)
    BY <1>1, <2>1
  <2> QED
    BY <1>1, <2>1, <2>2
<1>5. \A i \in DOMAIN Q[a] : i \in 1 .. la \/ \E k \in 1 .. ln : i = la + k
  <2>1. ASSUME NEW i \in 1 .. la + ln, i \notin 1 .. la PROVE \E k \in 1 .. ln : i = la + k
    <3>1. i - la \in 1 .. ln /\ i = la + (i - la)
      BY <1>1, <2>1
    <3> QED
      BY <3>1
  <2> QED
    BY <1>1, <2>1
<1> HIDE DEF la, ln
\* A byte that was there stays the only one in its place.
<1>6. ASSUME NEW x \in D, NEW i \in DOMAIN P[x]
      PROVE  i \in DOMAIN Q[x] /\ Q[x][i] = P[x][i]
  BY <1>1, <1>3, <1>6
<1>7. ASSUME NEW y \in D, NEW j \in DOMAIN Q[y]
      PROVE  \/ j \in DOMAIN P[y] /\ Q[y][j] = P[y][j]
             \/ y = a /\ \E k \in 1 .. ln : j = la + k /\ Q[y][j] = p + k
  <2>1. CASE y = a
    BY <1>1, <1>3, <1>4, <1>5, <1>7, <2>1
  <2>2. CASE y # a
    BY <1>7, <2>2
  <2> QED
    BY <2>1, <2>2
<1>8. Within(Q, end)
  <2>1. ASSUME NEW y \in D, NEW j \in DOMAIN Q[y] PROVE Q[y][j] <= end
    <3>1. CASE j \in DOMAIN P[y] /\ Q[y][j] = P[y][j]
      BY <1>2, <3>1
    <3>2. CASE \E k \in 1 .. ln : j = la + k /\ Q[y][j] = p + k
      BY <1>1, <3>2
    <3> QED
      BY <1>7, <2>1, <3>1, <3>2
  <2> QED
    BY <2>1 DEF Within
<1>9. ASSUME NEW byte \in 1 .. p PROVE InOnePlace(byte, Q)
  <2>1. PICK x \in D : \E i \in DOMAIN P[x] :
          /\ P[x][i] = byte
          /\ \A y \in D : \A j \in DOMAIN P[y] : P[y][j] = byte => x = y /\ i = j
    BY <1>9 DEF InOnePlace
  <2>2. PICK i \in DOMAIN P[x] :
          /\ P[x][i] = byte
          /\ \A y \in D : \A j \in DOMAIN P[y] : P[y][j] = byte => x = y /\ i = j
    BY <2>1
  <2>3. i \in DOMAIN Q[x] /\ Q[x][i] = byte
    BY <1>6, <2>2
  <2>4. ASSUME NEW y \in D, NEW j \in DOMAIN Q[y], Q[y][j] = byte PROVE x = y /\ i = j
    <3>1. \A k \in 1 .. ln : p + k # byte
      BY <1>1
    <3> QED
      BY <1>7, <2>2, <2>4, <3>1
  <2> QED
    BY <2>3, <2>4 DEF InOnePlace
<1>10. ASSUME NEW byte \in 1 .. end, byte \notin 1 .. p PROVE InOnePlace(byte, Q)
  <2>1. PICK k \in 1 .. ln : byte = p + k
    <3>1. byte - p \in 1 .. ln /\ byte = p + (byte - p)
      BY <1>1, <1>10
    <3> QED
      BY <3>1
  <2>2. la + k \in DOMAIN Q[a] /\ Q[a][la + k] = byte
    BY <1>4, <2>1
  <2>3. ASSUME NEW y \in D, NEW j \in DOMAIN Q[y], Q[y][j] = byte PROVE a = y /\ la + k = j
    <3>1. ~(j \in DOMAIN P[y] /\ Q[y][j] = P[y][j])
      BY <1>2, <2>1, <2>3
    <3>2. PICK m \in 1 .. ln : y = a /\ j = la + m /\ Q[y][j] = p + m
      BY <1>7, <2>3, <3>1
    <3>3. m = k
      BY <1>1, <2>1, <2>3, <3>2
    <3> QED
      BY <3>2, <3>3
  <2> DEFINE at == la + k
  <2>4. /\ a \in DOMAIN Q /\ at \in DOMAIN Q[a] /\ Q[a][at] = byte
        /\ \A y \in DOMAIN Q : \A j \in DOMAIN Q[y] : Q[y][j] = byte => a = y /\ at = j
    BY <2>2, <2>3
  <2> HIDE DEF at
  <2> QED
    BY <2>4, PlaceFound
<1> QED
  BY <1>8, <1>9, <1>10

-----------------------------------------------------------------------------
\* Characters.

\* What one read takes of an inbox in order, it does not split unnoticed.
LEMMA UnsplitRead ==
    ASSUME NEW b \in Seq(Bytes), NEW n \in Nat, \A i \in 1 .. Len(b) : b[i] = n + i
    PROVE  Unsplit(Marks(b))
<1>1. /\ Marks(b) \in Seq(Mark) /\ Len(Marks(b)) = Len(b) /\ Len(b) \in Nat
      /\ DOMAIN Marks(b) = 1 .. Len(b) /\ DOMAIN b = 1 .. Len(b)
      /\ \A i \in 1 .. Len(b) :
            Marks(b)[i] = [byte |-> b[i], whole |-> Character(b[i]) \subseteq Range(b)]
  BY MarksFacts, LenProperties
<1>2. ASSUME NEW i \in 1 .. Len(b), Marks(b)[i].whole, b[i] + 1 \in Character(b[i])
      PROVE  i + 1 \in 1 .. Len(b) /\ Marks(b)[i + 1] = [byte |-> b[i] + 1, whole |-> TRUE]
  <2>1. Character(b[i]) \subseteq Range(b)
    BY <1>2, MarksWhole
  <2>2. PICK j \in 1 .. Len(b) : b[j] = b[i] + 1
    BY <1>1, <1>2, <2>1 DEF Range
  <2>3. j = i + 1
    BY <1>1, <2>2
  <2>4. Character(b[i] + 1) = Character(b[i])
    <3>1. {e \in Ends : e < b[i] + 1} = {e \in Ends : e < b[i]}
      BY <1>2 DEF Character
    <3> QED
      BY <3>1 DEF Character
  <2>5. (Character(b[j]) \subseteq Range(b)) = TRUE
    BY <2>1, <2>2, <2>4
  <2> QED
    BY <1>1, <2>2, <2>3, <2>5
<1>3. \A i \in 1 .. Len(b) : Marks(b)[i].byte = b[i]
  BY <1>1
<1> QED
  BY <1>1, <1>2, <1>3 DEF Unsplit

LEMMA UnsplitJoin ==
    ASSUME NEW m \in Seq(Mark), NEW n \in Seq(Mark), Unsplit(m), Unsplit(n)
    PROVE  Unsplit(m \o n)
<1> DEFINE both == m \o n
           lm == Len(m)
           ln == Len(n)
<1>1. /\ both \in Seq(Mark) /\ Len(both) = lm + ln /\ lm \in Nat /\ ln \in Nat
      /\ DOMAIN both = 1 .. lm + ln /\ DOMAIN m = 1 .. lm /\ DOMAIN n = 1 .. ln
      /\ \A i \in 1 .. lm + ln : both[i] = IF i <= lm THEN m[i] ELSE n[i - lm]
  <2>1. /\ both \in Seq(Mark) /\ Len(both) = lm + ln
        /\ \A i \in 1 .. lm + ln : both[i] = IF i <= lm THEN m[i] ELSE n[i - lm]
    BY ConcatProperties
  <2> QED
    BY <2>1, LenProperties
<1> HIDE DEF both, lm, ln
<1>2. ASSUME NEW i \in DOMAIN both, both[i].whole, both[i].byte + 1 \in Character(both[i].byte)
      PROVE  /\ i + 1 \in DOMAIN both
             /\ both[i + 1] = [byte |-> both[i].byte + 1, whole |-> TRUE]
  <2>0. i \in 1 .. lm + ln
    BY <1>1
  <2>1. CASE i <= lm
    <3>1. i \in DOMAIN m /\ both[i] = m[i]
      BY <1>1, <2>0, <2>1
    <3>2. i + 1 \in 1 .. lm /\ m[i + 1] = [byte |-> m[i].byte + 1, whole |-> TRUE]
      BY <1>1, <1>2, <3>1 DEF Unsplit
    <3>3. i + 1 \in 1 .. lm + ln /\ i + 1 <= lm
      BY <1>1, <3>2
    <3> QED
      BY <1>1, <3>1, <3>2, <3>3
  <2>2. CASE ~(i <= lm)
    <3>1. i - lm \in DOMAIN n /\ both[i] = n[i - lm]
      BY <1>1, <2>0, <2>2
    <3>2. /\ (i - lm) + 1 \in 1 .. ln
          /\ n[(i - lm) + 1] = [byte |-> n[i - lm].byte + 1, whole |-> TRUE]
      BY <1>1, <1>2, <3>1 DEF Unsplit
    <3>3. /\ i + 1 \in 1 .. lm + ln /\ ~(i + 1 <= lm) /\ (i + 1) - lm = (i - lm) + 1
      BY <1>1, <2>0, <2>2, <3>2
    <3>4. both[i + 1] = n[(i + 1) - lm]
      BY <1>1, <3>3
    <3> QED
      BY <1>1, <3>1, <3>2, <3>3, <3>4
  <2> QED
    BY <1>1, <2>0, <2>1, <2>2
<1> QED
  BY <1>2 DEF Unsplit, both

-----------------------------------------------------------------------------
\* The steps that move bytes.

BytesInv == InboxInv /\ UnsplitInv /\ PlaceInv /\ OrderInv

\* Nothing is moved.
LEMMA BytesKept ==
    ASSUME BytesInv, UNCHANGED <<shown, text, from, inbox, pushed>>,
           \A c \in Conns : peer'[c] # "reset" => peer[c] # "reset",
           \A c \in apart' : c \in apart \/ InOrder(c), apart' \subseteq Conns
    PROVE  BytesInv'
<1>1. InboxInv' /\ UnsplitInv'
  BY DEF BytesInv, InboxInv, UnsplitInv, Unsplit, Character
<1>2. PlaceInv'
  <2>1. \A c \in Conns : Pieces(c)' = Pieces(c)
    BY DEF Pieces, InHand, BytesOf
  <2> QED
    BY <2>1 DEF BytesInv, PlaceInv, Within, InOnePlace
<1>3. OrderInv'
  BY DEF BytesInv, OrderInv, InOrder, InHand, BytesOf
<1> QED
  BY <1>1, <1>2, <1>3 DEF BytesInv

\* A read takes the first bytes of an inbox.
LEMMA TextMoves ==
    ASSUME TypeOK, TypeOK', ApartInv, TextInv, BytesInv, NEW d \in Conns, TextArrives(d)
    PROVE  BytesInv'
<1>1. PICK f \in Conns :
        /\ pc[d] = "wait" /\ UNCHANGED <<peer, pushed, from, shown, apart>>
        /\ from[d] = f /\ text[d] = <<>> /\ (f \in apart => d = f)
  <2>1. pc[d] = "wait" /\ UNCHANGED <<peer, pushed, from, shown, apart>>
    BY DEF TextArrives
  <2>2. from[d] \in Conns /\ text[d] = <<>> /\ (from[d] \in apart => d = from[d])
    BY <2>1 DEF TypeOK, TextInv, ApartInv
  <2> QED
    BY <2>1, <2>2
<1>2. PICK k \in 1 .. Len(inbox[f]) :
        /\ text' = [text EXCEPT ![d] = Marks(SubSeq(inbox[f], 1, k))]
        /\ inbox' = [inbox EXCEPT ![f] = SubSeq(inbox[f], k + 1, Len(inbox[f]))]
  BY <1>1 DEF TextArrives, Decoded
<1> DEFINE head == SubSeq(inbox[f], 1, k)
           rest == SubSeq(inbox[f], k + 1, Len(inbox[f]))
           len == Len(inbox[f])
<1>3. /\ inbox[f] \in Seq(Bytes) /\ len \in Nat /\ DOMAIN inbox[f] = 1 .. len
      /\ \A i \in 1 .. len : inbox[f][i] \in Nat
      /\ head \in Seq(Bytes) /\ rest \in Seq(Bytes) /\ head \o rest = inbox[f]
      /\ Len(head) = k /\ Len(rest) = len - k
      /\ \A i \in 1 .. k : head[i] = inbox[f][i]
      /\ \A i \in 1 .. len - k : rest[i] = inbox[f][k + i]
  <2>1. inbox[f] \in Seq(Bytes)
    BY <1>1 DEF TypeOK
  <2>2. /\ len \in Nat /\ DOMAIN inbox[f] = 1 .. len
        /\ \A i \in 1 .. len : inbox[f][i] \in Bytes
    BY <2>1, LenProperties, ElementOfSeq
  <2>3. /\ Len(head) = k /\ \A i \in 1 .. k : head[i] = inbox[f][i]
    <3>1. /\ 1 \in Int /\ k \in Int /\ 1 <= k /\ (k - 1) + 1 = k
          /\ \A i \in 1 .. k : inbox[f][i] \in Bytes
          /\ \A i \in 1 .. k : (1 + i) - 1 = i
      BY <1>2, <2>2
    <3>2. /\ Len(head) = (k - 1) + 1
          /\ \A i \in 1 .. (k - 1) + 1 : head[i] = inbox[f][(1 + i) - 1]
      BY <3>1, SubSeqProperties
    <3> QED
      BY <3>1, <3>2
  <2>4. Len(rest) = len - k /\ \A i \in 1 .. len - k : rest[i] = inbox[f][k + i]
    <3>1. /\ k + 1 \in Int /\ len \in Int /\ (len - (k + 1)) + 1 = len - k
          /\ \A i \in (k + 1) .. len : inbox[f][i] \in Bytes
          /\ \A i \in 1 .. len - k : ((k + 1) + i) - 1 = k + i
          /\ ~(k + 1 <= len) => len - k = 0
      BY <1>2, <2>2
    <3>2. /\ Len(rest) = IF k + 1 <= len THEN (len - (k + 1)) + 1 ELSE 0
          /\ \A i \in 1 .. (len - (k + 1)) + 1 : rest[i] = inbox[f][((k + 1) + i) - 1]
      BY <3>1, SubSeqProperties
    <3> QED
      BY <3>1, <3>2
  <2>5. head \in Seq(Bytes) /\ rest \in Seq(Bytes) /\ head \o rest = inbox[f]
    BY <1>2, <2>1, TakenFacts
  <2> QED
    BY <2>1, <2>2, <2>3, <2>4, <2>5 DEF Bytes
<1>4. text'[d] = Marks(head) /\ inbox'[f] = rest
      /\ \A e \in Conns : e # d => text'[e] = text[e]
      /\ \A c \in Conns : c # f => inbox'[c] = inbox[c]
  BY <1>1, <1>2 DEF TypeOK
<1>5. pushed[f] \in Nat /\ \A i \in 1 .. len : inbox[f][i] + len = pushed[f] + i
  <2>1. pushed[f] \in Nat
    BY DEF TypeOK
  <2>2. \A i \in DOMAIN inbox[f] : inbox[f][i] + Len(inbox[f]) = pushed[f] + i
    BY DEF BytesInv, InboxInv
  <2> QED
    BY <1>3, <2>1, <2>2
<1>0. k \in Nat /\ k \in 1 .. len /\ len - k \in Nat /\ len \in Nat /\ k <= len /\ 1 <= k
  BY <1>2, <1>3
<1> HIDE DEF head, rest, len
<1>6. InboxInv'
  <2>1. ASSUME NEW i \in DOMAIN rest PROVE rest[i] + Len(rest) = pushed[f] + i
    <3>1. DOMAIN rest = 1 .. len - k
      BY <1>3, LenProperties
    <3>2. i \in 1 .. len - k /\ k + i \in 1 .. len /\ len - k \in Nat
      BY <1>2, <1>3, <3>1 DEF len
    <3>3. inbox[f][k + i] + len = pushed[f] + (k + i) /\ rest[i] = inbox[f][k + i]
          /\ inbox[f][k + i] \in Nat
      BY <1>3, <1>5, <3>2
    <3>4. i \in Nat /\ Len(rest) = len - k
      BY <1>3, <3>2
    <3>5. k \in Nat /\ len \in Nat /\ pushed[f] \in Nat
      BY <1>0, <1>5
    <3> DEFINE x == inbox[f][k + i]
               r == Len(rest)
               q == pushed[f]
    <3>6. x \in Nat /\ q \in Nat /\ k \in Nat /\ i \in Nat /\ len \in Nat
          /\ x + len = q + (k + i) /\ r = len - k /\ rest[i] = x
      BY <3>3, <3>4, <3>5
    <3> HIDE DEF x, r, q, len
    <3>7. x + r = q + i
      <4>1. /\ x \in Int /\ len \in Int /\ r \in Int
            /\ q \in Int /\ k \in Int /\ i \in Int
        BY <3>6
      <4>2. x + len = q + (k + i) /\ r = len - k
        BY <3>6
      <4> QED
        BY <4>1, <4>2, SumShrinks, SMTT(60)
    <3> QED
      BY <3>6, <3>7 DEF r, q
  <2> QED
    BY <1>1, <1>4, <2>1 DEF BytesInv, InboxInv
<1>7. UnsplitInv'
  <2>1. Unsplit(Marks(head))
    <3>1. len <= pushed[f]
      <4>1. 1 \in 1 .. len
        BY <1>0
      <4>2. inbox[f][1] \in Nat /\ inbox[f][1] >= 1
        <5>1. inbox[f][1] \in Bytes
          BY <1>3, <4>1, ElementOfSeq DEF len
        <5> QED
          BY <5>1 DEF Bytes
      <4>3. inbox[f][1] + len = pushed[f] + 1
        BY <1>5, <4>1
      <4> DEFINE x == inbox[f][1]
                 q == pushed[f]
      <4>4. x \in Nat /\ q \in Nat /\ len \in Nat /\ x >= 1 /\ x + len = q + 1
        BY <1>0, <1>5, <4>2, <4>3
      <4> HIDE DEF x, q
      <4>5. len <= q
        <5>1. x \in Int /\ q \in Int /\ len \in Int
          BY <4>4
        <5>2. x >= 1 /\ x + len = q + 1
          BY <4>4
        <5> QED
          BY <5>1, <5>2, SumBounds, SMTT(60)
      <4> QED
        BY <4>5 DEF q
    <3>2. pushed[f] - len \in Nat
      BY <1>3, <1>5, <3>1
    <3>3. ASSUME NEW i \in 1 .. k PROVE head[i] = (pushed[f] - len) + i
      <4>1. i \in 1 .. len /\ i \in Nat
        BY <1>0, <1>3
      <4>2. head[i] = inbox[f][i] /\ inbox[f][i] \in Nat /\ inbox[f][i] + len = pushed[f] + i
        BY <1>3, <1>5, <4>1
      <4>3. len \in Nat /\ pushed[f] \in Nat
        BY <1>0, <1>5
      <4> DEFINE x == inbox[f][i]
                 q == pushed[f]
      <4>4. /\ head[i] = x /\ x \in Nat /\ x + len = q + i
            /\ i \in Nat /\ len \in Nat /\ q \in Nat
        BY <4>1, <4>2, <4>3
      <4> HIDE DEF x, q
      <4>5. x = (q - len) + i
        <5>1. x \in Int /\ q \in Int /\ len \in Int /\ i \in Int
          BY <4>4
        <5>2. x + len = q + i
          BY <4>4
        <5> QED
          BY <5>1, <5>2, SumSolved, SMTT(60)
      <4> QED
        BY <4>4, <4>5 DEF q
    <3>4. \A i \in 1 .. Len(head) : head[i] = (pushed[f] - len) + i
      BY <1>3, <3>3
    <3>5. head \in Seq(Bytes)
      BY <1>3
    <3> QED
      BY <3>2, <3>4, <3>5, UnsplitRead
  <2>2. \A e \in Conns : Unsplit(text[e]) /\ Unsplit(shown[e])
    BY DEF BytesInv, UnsplitInv
  <2>3. \A e \in Conns : Unsplit(text'[e]) /\ Unsplit(shown'[e])
    BY <1>1, <1>4, <2>1, <2>2
  <2> QED
    BY <2>3 DEF UnsplitInv, Unsplit, Character
<1>8. PlaceInv'
  <2>1. ASSUME NEW c \in Conns, c # f PROVE Pieces(c)' = Pieces(c)
    <3>1. \A e \in Conns : InHand(e, c)' = InHand(e, c)
      BY <1>1, <1>4, <2>1 DEF InHand
    <3>2. shown'[c] = shown[c] /\ inbox'[c] = inbox[c]
      BY <1>1, <1>4, <2>1
    <3> QED
      BY <3>1, <3>2, ActorFacts, PlaceNames DEF Pieces, BytesOf, Actors
  <2>2. /\ \A n : Within(Pieces(f), n) => Within(Pieces(f)', n)
        /\ \A byte : InOnePlace(byte, Pieces(f)) => InOnePlace(byte, Pieces(f)')
    <3>1. f \in Conns /\ d \in Conns /\ Unread # d
          /\ d \in Actors \cup {Unread} /\ Unread \in Actors \cup {Unread}
      BY <1>1, ActorFacts, PlaceNames
    <3>2. /\ DOMAIN Pieces(f) = Actors \cup {Unread} /\ DOMAIN Pieces(f)' = Actors \cup {Unread}
          /\ \A x \in Actors \cup {Unread} : Pieces(f)'[x] \in Seq(Bytes)
      BY <3>1, PiecesFacts, PiecesFactsNext, PiecesTypedNext
    <3>3. Pieces(f)[d] = <<>> /\ Pieces(f)'[d] = head
      <4>1. InHand(d, f) = <<>> /\ InHand(d, f)' = Marks(head)
        BY <1>1, <1>4 DEF InHand
      <4> QED
        BY <1>3, <3>1, <4>1, PiecesFacts, PiecesFactsNext, MarksFacts, NoBytes
    <3>4. Pieces(f)[Unread] = inbox[f] /\ Pieces(f)'[Unread] = rest
      BY <1>4, <3>1, PiecesFacts, PiecesFactsNext
    <3>5. \A x \in (Actors \cup {Unread}) \ {Unread, d} : Pieces(f)'[x] = Pieces(f)[x]
      <4>1. \A e \in Conns : e # d => InHand(e, f)' = InHand(e, f)
        BY <1>1, <1>4 DEF InHand
      <4>2. BytesOf(shown[f])' = BytesOf(shown[f])
        BY <1>1 DEF BytesOf
      <4> QED
        BY <3>1, <4>1, <4>2, PiecesFacts, PiecesFactsNext DEF Actors
    <3>6. Pieces(f)[Unread] = Pieces(f)'[d] \o Pieces(f)'[Unread]
      BY <1>3, <3>3, <3>4
    <3> DEFINE P == Pieces(f)
               Q == Pieces(f)'
               D == Actors \cup {Unread}
    <3>7. /\ Unread \in D /\ d \in D /\ Unread # d /\ DOMAIN P = D /\ DOMAIN Q = D
          /\ \A x \in D : Q[x] \in Seq(Bytes)
          /\ P[Unread] = Q[d] \o Q[Unread] /\ P[d] = <<>>
          /\ \A x \in D \ {Unread, d} : Q[x] = P[x]
      BY <3>1, <3>2, <3>3, <3>5, <3>6
    <3> HIDE DEF P, Q, D
    <3>8. /\ \A n : Within(P, n) => Within(Q, n)
          /\ \A byte : InOnePlace(byte, P) => InOnePlace(byte, Q)
      BY <3>7, SplitPlaces
    <3> QED
      BY <3>8 DEF P, Q
  <2>3. ASSUME NEW c \in Conns, peer'[c] # "reset"
        PROVE  /\ Within(Pieces(c)', pushed'[c])
               /\ \A byte \in 1 .. pushed'[c] : InOnePlace(byte, Pieces(c)')
    <3>1. /\ Within(Pieces(c), pushed[c]) /\ pushed'[c] = pushed[c]
          /\ \A byte \in 1 .. pushed[c] : InOnePlace(byte, Pieces(c))
      BY <1>1, <2>3 DEF BytesInv, PlaceInv
    <3> QED
      BY <2>1, <2>2, <3>1
  <2> QED
    BY <2>3 DEF PlaceInv, Within, InOnePlace
<1>9. OrderInv'
  <2>1. ASSUME NEW c \in apart', peer'[c] # "reset" PROVE InOrder(c)'
    <3>1. c \in apart /\ peer[c] # "reset" /\ c \in Conns /\ InOrder(c)
      BY <1>1, <2>1 DEF TypeOK, Made, BytesInv, OrderInv
    <3>2. CASE c = f
      <4>1. d = c /\ InHand(c, c) = <<>> /\ InHand(c, c)' = Marks(head) /\ inbox'[c] = rest
        BY <1>1, <1>4, <3>1, <3>2 DEF InHand
      <4>2. BytesOf(InHand(c, c)) = <<>> /\ BytesOf(InHand(c, c)') = head
        BY <1>3, <4>1, NoBytes, MarksFacts
      <4>3. BytesOf(shown[c]) \in Seq(Bytes)
        BY <3>1, BytesFacts DEF TypeOK
      <4>4. BytesOf(shown[c]) \o <<>> \o inbox[c] = BytesOf(shown[c]) \o (head \o rest)
        BY <1>3, <3>2, <4>3, ConcatEmptySeq
      <4>5. BytesOf(shown[c]) \o head \o rest = BytesOf(shown[c]) \o (head \o rest)
        <5>1. head \in Seq(Bytes) /\ rest \in Seq(Bytes)
          BY <1>3
        <5> QED
          BY <4>3, <5>1, Joined
      <4>6. BytesOf(shown[c]) \o head \o rest = [n \in 1 .. pushed[c] |-> n]
        BY <3>1, <4>2, <4>4, <4>5 DEF InOrder
      <4>7. BytesOf(shown[c])' = BytesOf(shown[c]) /\ BytesOf(InHand(c, c))' = head
        BY <1>1, <4>2 DEF BytesOf
      <4> QED
        BY <1>1, <4>1, <4>6, <4>7 DEF InOrder
    <3>3. CASE c # f
      <4>1. InHand(c, c)' = InHand(c, c)
        BY <1>1, <1>4, <3>1, <3>3 DEF InHand
      <4> QED
        BY <1>1, <1>4, <3>1, <3>3, <4>1 DEF InOrder, BytesOf
    <3> QED
      BY <3>2, <3>3
  <2> QED
    BY <2>1 DEF OrderInv
<1> QED
  BY <1>6, <1>7, <1>8, <1>9 DEF BytesInv

\* What a loop has in its hand comes to the window.
LEMMA ShowMoves ==
    ASSUME TypeOK, ApartInv, BytesInv, NEW d \in Conns, Show(d)
    PROVE  BytesInv'
<1>1. PICK f \in Conns :
        /\ pc[d] = "show" /\ UNCHANGED <<inbox, peer, pushed, apart>>
        /\ from[d] = f /\ (f \in apart => d = f)
        /\ shown'[f] = shown[f] \o text[d] /\ text'[d] = <<>> /\ from'[d] = None
        /\ \A e \in Conns : e # d => text'[e] = text[e] /\ from'[e] = from[e]
        /\ \A c \in Conns : c # f => shown'[c] = shown[c]
  <2>1. /\ pc[d] = "show" /\ UNCHANGED <<inbox, peer, pushed, apart>>
        /\ shown' = [shown EXCEPT ![from[d]] = shown[from[d]] \o text[d]]
        /\ text' = [text EXCEPT ![d] = <<>>]
        /\ from' = [from EXCEPT ![d] = None]
    BY DEF Show, server
  <2>2. from[d] \in Conns /\ (from[d] \in apart => d = from[d])
    BY <2>1 DEF TypeOK, ApartInv
  <2> QED
    BY <2>1, <2>2 DEF TypeOK
<1>2. /\ shown[f] \in Seq(Mark) /\ text[d] \in Seq(Mark)
      /\ BytesOf(shown'[f]) = BytesOf(shown[f]) \o BytesOf(text[d])
      /\ BytesOf(shown[f]) \in Seq(Bytes) /\ BytesOf(text[d]) \in Seq(Bytes)
  <2>1. shown[f] \in Seq(Mark) /\ text[d] \in Seq(Mark)
    BY <1>1 DEF TypeOK
  <2> QED
    BY <1>1, <2>1, BytesJoin, BytesFacts
<1>3. InboxInv'
  BY <1>1 DEF BytesInv, InboxInv
<1>4. UnsplitInv'
  <2>1. Unsplit(shown'[f])
    BY <1>1, <1>2, UnsplitJoin DEF BytesInv, UnsplitInv
  <2>2. Unsplit(<<>>)
    BY DEF Unsplit
  <2>3. \A e \in Conns : Unsplit(text'[e]) /\ Unsplit(shown'[e])
    BY <1>1, <2>1, <2>2 DEF BytesInv, UnsplitInv
  <2> QED
    BY <2>3 DEF UnsplitInv, Unsplit, Character
<1>5. \A c \in Conns : \A e \in Conns : e # d => InHand(e, c)' = InHand(e, c)
  BY <1>1 DEF InHand
<1>6. \A c \in Conns : InHand(d, c)' = <<>> /\ (c # f => InHand(d, c) = <<>>)
                       /\ (c = f => InHand(d, c) = text[d])
  <2>1. \A c \in Conns : None # c
    BY ActorFacts
  <2> QED
    BY <1>1, <2>1 DEF InHand
<1>7. PlaceInv'
  <2>1. ASSUME NEW c \in Conns, c # f PROVE Pieces(c)' = Pieces(c)
    <3>1. \A e \in Conns : InHand(e, c)' = InHand(e, c)
      BY <1>5, <1>6, <2>1
    <3>2. shown'[c] = shown[c] /\ inbox'[c] = inbox[c]
      BY <1>1, <2>1
    <3> QED
      BY <3>1, <3>2, ActorFacts, PlaceNames DEF Pieces, BytesOf, Actors
  <2>2. /\ \A n : Within(Pieces(f), n) => Within(Pieces(f)', n)
        /\ \A byte : InOnePlace(byte, Pieces(f)) => InOnePlace(byte, Pieces(f)')
    <3> DEFINE P == Pieces(f)
               Q == Pieces(f)'
               D == Actors \cup {Unread}
    <3>1. f \in Conns /\ Window \in D /\ d \in D /\ Window # d
      BY <1>1, ActorFacts
    <3>2. DOMAIN P = D /\ DOMAIN Q = D /\ \A x \in D : P[x] \in Seq(Bytes)
      BY <3>1, PiecesFacts, PiecesFactsNext, PiecesTyped
    <3>3. P[d] = BytesOf(text[d]) /\ Q[d] = <<>>
      BY <1>6, <3>1, PiecesFacts, PiecesFactsNext, NoBytes
    <3>4. Q[Window] = P[Window] \o P[d]
      <4>1. BytesOf(shown[f])' = BytesOf(shown'[f])
        BY DEF BytesOf
      <4> QED
        BY <1>2, <3>1, <3>3, <4>1, PiecesFacts, PiecesFactsNext
    <3>5. \A x \in D \ {Window, d} : Q[x] = P[x]
      BY <1>1, <1>5, <3>1, PiecesFacts, PiecesFactsNext DEF Actors
    <3> HIDE DEF P, Q, D
    <3>6. /\ \A n : Within(P, n) => Within(Q, n)
          /\ \A byte : InOnePlace(byte, P) => InOnePlace(byte, Q)
      BY <3>1, <3>2, <3>3, <3>4, <3>5, JoinPlaces
    <3> QED
      BY <3>6 DEF P, Q
  <2>3. ASSUME NEW c \in Conns, peer'[c] # "reset"
        PROVE  /\ Within(Pieces(c)', pushed'[c])
               /\ \A byte \in 1 .. pushed'[c] : InOnePlace(byte, Pieces(c)')
    <3>1. /\ Within(Pieces(c), pushed[c]) /\ pushed'[c] = pushed[c]
          /\ \A byte \in 1 .. pushed[c] : InOnePlace(byte, Pieces(c))
      BY <1>1, <2>3 DEF BytesInv, PlaceInv
    <3> QED
      BY <2>1, <2>2, <3>1
  <2> QED
    BY <2>3 DEF PlaceInv, Within, InOnePlace
<1>8. OrderInv'
  <2>1. ASSUME NEW c \in apart', peer'[c] # "reset" PROVE InOrder(c)'
    <3>1. c \in apart /\ peer[c] # "reset" /\ c \in Conns /\ InOrder(c)
      BY <1>1, <2>1 DEF TypeOK, Made, BytesInv, OrderInv
    <3>2. CASE c = f
      <4>1. d = c /\ InHand(c, c) = text[d] /\ InHand(c, c)' = <<>>
        BY <1>1, <1>6, <3>1, <3>2
      <4>2. BytesOf(shown'[c]) \o <<>> = BytesOf(shown[c]) \o BytesOf(text[d])
        BY <1>2, <3>2, ConcatProperties, ConcatEmptySeq
      <4>3. BytesOf(shown[c])' = BytesOf(shown'[c]) /\ BytesOf(InHand(c, c))' = <<>>
        BY <4>1, NoBytes DEF BytesOf
      <4> QED
        BY <1>1, <3>1, <4>1, <4>2, <4>3 DEF InOrder
    <3>3. CASE c # f
      <4>1. InHand(c, c)' = InHand(c, c)
        BY <1>5, <1>6, <3>1, <3>3
      <4> QED
        BY <1>1, <3>1, <3>3, <4>1 DEF InOrder, BytesOf
    <3> QED
      BY <3>2, <3>3
  <2> QED
    BY <2>1 DEF OrderInv
<1> QED
  BY <1>3, <1>4, <1>7, <1>8 DEF BytesInv

\* The other steps of a loop move nothing.
LEMMA LoopMoves ==
    ASSUME TypeOK, TypeOK', ApartInv, TextInv, BytesInv, NEW d \in Conns, LoopStep(d)
    PROVE  BytesInv'
<1>1. CASE TextArrives(d)
  BY <1>1, TextMoves
<1>2. CASE Show(d)
  BY <1>2, ShowMoves
<1>3. CASE ~TextArrives(d) /\ ~Show(d)
  <2>1. UNCHANGED <<inbox, shown, text>> /\ pc[d] # "show"
    <3>1. CASE Begin(d) \/ Receive(d) \/ StreamEnds(d) \/ ReceiveThrows(d)
      BY <3>1 DEF Begin, Receive, StreamEnds, ReceiveThrows, server
    <3>2. CASE Report(d) \/ Check(d) \/ Leave(d) \/ Tell(d)
      BY <3>2 DEF Report, Check, Leave, Tell, server, reads
    <3>3. CASE Disconnect(d)
      BY <3>3 DEF Disconnect, Shutdown, Close, Clear, server, reads
    <3> QED
      BY <1>3, <3>1, <3>2, <3>3 DEF LoopStep
  <2>2. \A e \in Conns : e # d => from'[e] = from[e]
    <3>1. from \in [Conns -> Conns \cup {None}]
      BY DEF TypeOK
    <3> QED
      BY <3>1, ReadFacts
  <2>3. UNCHANGED <<peer, pushed, apart>>
    BY LoopFacts
  <2>4. \A c \in Conns : \A e \in Conns : InHand(e, c)' = InHand(e, c)
    <3>1. text[d] = <<>> /\ text'[d] = <<>>
      BY <2>1 DEF TextInv
    <3> QED
      BY <2>1, <2>2, <3>1 DEF InHand
  <2>5. \A c \in Conns : Pieces(c)' = Pieces(c)
    BY <2>1, <2>4, ActorFacts, PlaceNames DEF Pieces, BytesOf, Actors
  <2>6. InboxInv' /\ UnsplitInv'
    BY <2>1, <2>3 DEF BytesInv, InboxInv, UnsplitInv, Unsplit, Character
  <2>7. PlaceInv'
    BY <2>3, <2>5 DEF BytesInv, PlaceInv, Within, InOnePlace
  <2>8. OrderInv'
    <3>1. apart \subseteq Conns
      BY DEF TypeOK, Made
    <3>2. \A c \in Conns : BytesOf(InHand(c, c))' = BytesOf(InHand(c, c))
                            /\ BytesOf(shown[c])' = BytesOf(shown[c])
      BY <2>1, <2>4 DEF BytesOf
    <3>3. \A c \in Conns : InOrder(c)' <=> InOrder(c)
      BY <2>1, <2>3, <3>2 DEF InOrder
    <3> QED
      BY <2>3, <3>1, <3>3 DEF BytesInv, OrderInv
  <2> QED
    BY <2>6, <2>7, <2>8 DEF BytesInv
<1> QED
  BY <1>1, <1>2, <1>3

\* The server sends.
LEMMA PushMoves ==
    ASSUME TypeOK, BytesInv, NEW d \in Conns, Push(d)
    PROVE  BytesInv'
<1> DEFINE p == pushed[d]
<1>1. /\ UNCHANGED <<peer, shown, text, from, apart>> /\ peer[d] # "reset"
      /\ p \in Nat /\ inbox[d] \in Seq(Bytes)
  BY PushFacts DEF reads, Live
<1>2. PICK end \in Nat :
        /\ p < end /\ pushed' = [pushed EXCEPT ![d] = end]
        /\ inbox' = [inbox EXCEPT ![d] = inbox[d] \o Sent(p, end)]
  BY PushFacts
<1> DEFINE new == Sent(p, end)
           len == Len(inbox[d])
           ln == end - p
<1>3. /\ pushed'[d] = end /\ inbox'[d] = inbox[d] \o new
      /\ \A c \in Conns : c # d => pushed'[c] = pushed[c] /\ inbox'[c] = inbox[c]
  BY <1>2 DEF TypeOK
<1>4. /\ new \in Seq(Bytes) /\ Len(new) = ln /\ ln \in Nat /\ p + ln = end
      /\ \A i \in 1 .. ln : new[i] = p + i
      /\ len \in Nat /\ DOMAIN inbox[d] = 1 .. len
  <2>1. p + ln = end
    BY <1>1, <1>2
  <2> QED
    BY <1>1, <1>2, <2>1, SentFacts, LenProperties
<1>5. /\ inbox'[d] \in Seq(Bytes) /\ Len(inbox'[d]) = len + ln
      /\ DOMAIN inbox'[d] = 1 .. len + ln
      /\ \A i \in 1 .. len + ln : inbox'[d][i] = IF i <= len THEN inbox[d][i] ELSE p + (i - len)
  <2>1. /\ inbox[d] \o new \in Seq(Bytes) /\ Len(inbox[d] \o new) = len + ln
        /\ \A i \in 1 .. len + ln : (inbox[d] \o new)[i] =
              IF i <= len THEN inbox[d][i] ELSE new[i - len]
    <3>1. inbox[d] \in Seq(Bytes) /\ new \in Seq(Bytes) /\ Len(new) = ln /\ Len(inbox[d]) = len
      BY <1>1, <1>4
    <3> HIDE DEF new, len, ln
    <3> QED
      BY <3>1, ConcatAt
  <2>2. \A i \in 1 .. len + ln : ~(i <= len) => i - len \in 1 .. ln
    BY <1>4
  <2>3. DOMAIN (inbox[d] \o new) = 1 .. len + ln
    BY <2>1, LenProperties
  <2> QED
    BY <1>3, <1>4, <2>1, <2>2, <2>3
<1>6. \A i \in 1 .. len : inbox[d][i] \in Nat /\ inbox[d][i] + len = p + i
  <2>1. \A i \in 1 .. len : inbox[d][i] \in Bytes
    BY <1>1, ElementOfSeq
  <2> QED
    BY <1>4, <2>1 DEF BytesInv, InboxInv, Bytes
<1> HIDE DEF new, len, ln
<1>7. InboxInv'
  <2>1. ASSUME NEW i \in DOMAIN inbox'[d] PROVE inbox'[d][i] + Len(inbox'[d]) = pushed'[d] + i
    <3>1. i \in 1 .. len + ln
      BY <1>5
    <3>2. CASE i <= len
      <4>1. i \in 1 .. len /\ inbox'[d][i] = inbox[d][i]
        BY <1>4, <1>5, <3>1, <3>2
      <4>2. inbox[d][i] \in Nat /\ inbox[d][i] + len = p + i /\ i \in Nat
        BY <1>4, <1>6, <4>1
      <4>3. /\ Len(inbox'[d]) = len + ln /\ pushed'[d] = end /\ p + ln = end
            /\ len \in Nat /\ ln \in Nat /\ p \in Nat
        BY <1>1, <1>3, <1>4, <1>5
      <4> DEFINE x == inbox[d][i]
      <4>4. inbox'[d][i] = x /\ x \in Nat /\ x + len = p + i
        BY <4>1, <4>2
      <4> HIDE DEF x, p
      <4>5. /\ i \in Nat /\ x \in Nat /\ len \in Nat /\ ln \in Nat /\ p \in Nat
            /\ x + len = p + i /\ p + ln = end
        BY <4>2, <4>3, <4>4
      <4>6. x + (len + ln) = end + i
        <5>1. /\ x \in Int /\ len \in Int /\ ln \in Int
              /\ p \in Int /\ end \in Int /\ i \in Int
          BY <1>2, <4>5
        <5>2. x + len = p + i /\ p + ln = end
          BY <4>5
        <5> QED
          BY <5>1, <5>2, SumGrows, SMTT(60)
      <4> QED
        BY <4>3, <4>4, <4>6
    <3>3. CASE ~(i <= len)
      <4>1. inbox'[d][i] = p + (i - len)
        BY <1>5, <3>1, <3>3
      <4>2. /\ Len(inbox'[d]) = len + ln /\ pushed'[d] = end /\ p + ln = end
            /\ len \in Nat /\ ln \in Nat /\ p \in Nat
        BY <1>1, <1>3, <1>4, <1>5
      <4>3. i \in Int
        BY <3>1, <4>2
      <4> HIDE DEF p
      <4>4. (p + (i - len)) + (len + ln) = end + i
        <5>1. p \in Int /\ i \in Int /\ len \in Int /\ ln \in Int /\ end \in Int
          BY <1>2, <4>2, <4>3
        <5>2. p + ln = end
          BY <4>2
        <5> QED
          BY <5>1, <5>2, SumReaches, SMTT(60)
      <4> QED
        BY <4>1, <4>2, <4>4
    <3> QED
      BY <3>2, <3>3
  <2> QED
    BY <1>3, <2>1 DEF BytesInv, InboxInv
<1>8. UnsplitInv'
  BY <1>1 DEF BytesInv, UnsplitInv, Unsplit, Character
<1>9. \A c \in Conns : \A e \in Conns : InHand(e, c)' = InHand(e, c)
  BY <1>1 DEF InHand
<1>10. PlaceInv'
  <2>1. ASSUME NEW c \in Conns, c # d PROVE Pieces(c)' = Pieces(c)
    BY <1>1, <1>3, <1>9, <2>1, ActorFacts, PlaceNames DEF Pieces, BytesOf, Actors
  <2>2. Within(Pieces(d)', end) /\ \A byte \in 1 .. end : InOnePlace(byte, Pieces(d)')
    <3> DEFINE P == Pieces(d)
               Q == Pieces(d)'
               D == Actors \cup {Unread}
    <3>1. /\ DOMAIN P = D /\ DOMAIN Q = D /\ Unread \in D
          /\ \A x \in D : P[x] \in Seq(Bytes)
      BY PiecesFacts, PiecesFactsNext, PiecesTyped
    <3>2. Q[Unread] = P[Unread] \o Sent(p, end)
      BY <1>3, PiecesFacts, PiecesFactsNext DEF new
    <3>3. \A x \in D \ {Unread} : Q[x] = P[x]
      <4>1. BytesOf(shown[d])' = BytesOf(shown[d])
        BY <1>1 DEF BytesOf
      <4> QED
        BY <1>9, <4>1, PiecesFacts, PiecesFactsNext DEF Actors
    <3>4. Within(P, p) /\ \A byte \in 1 .. p : InOnePlace(byte, P)
      BY <1>1 DEF BytesInv, PlaceInv, p
    <3> HIDE DEF P, Q, D
    <3>5. Within(Q, end) /\ \A byte \in 1 .. end : InOnePlace(byte, Q)
      BY <1>1, <1>2, <3>1, <3>2, <3>3, <3>4, AddPlaces
    <3> QED
      BY <3>5 DEF Q
  <2> QED
    BY <1>1, <1>3, <2>1, <2>2 DEF BytesInv, PlaceInv, Within, InOnePlace
<1>11. OrderInv'
  <2>1. ASSUME NEW c \in apart', peer'[c] # "reset" PROVE InOrder(c)'
    <3>1. c \in apart /\ peer[c] # "reset" /\ c \in Conns /\ InOrder(c)
      BY <1>1, <2>1 DEF TypeOK, Made, BytesInv, OrderInv
    <3>2. CASE c = d
      <4> DEFINE before == BytesOf(shown[d]) \o BytesOf(InHand(d, d))
                 old == before \o inbox[d]
      <4>1. before \in Seq(Bytes)
        <5>1. shown[d] \in Seq(Mark) /\ InHand(d, d) \in Seq(Mark)
          BY EmptySeq DEF TypeOK, InHand
        <5> QED
          BY <5>1, BytesFacts, ConcatProperties
      <4>2. old = [n \in 1 .. p |-> n]
        BY <3>1, <3>2 DEF InOrder, p
      <4> HIDE DEF before
      <4>3. before \o (inbox[d] \o new) = old \o new
        <5>1. new \in Seq(Bytes) /\ inbox[d] \in Seq(Bytes)
          BY <1>1, <1>4
        <5> QED
          BY <4>1, <5>1, Joined
      <4>4. old \in Seq(Bytes) /\ Len(old) = p /\ \A i \in 1 .. p : old[i] = i
        <5>1. old \in Seq(Bytes)
          BY <1>1, <4>1, ConcatProperties
        <5>2. DOMAIN old = 1 .. p /\ \A i \in 1 .. p : old[i] = i
          BY <4>2
        <5>3. DOMAIN old = 1 .. Len(old) /\ Len(old) \in Nat
          BY <5>1, LenProperties
        <5> HIDE DEF old
        <5> QED
          BY <1>1, <5>1, <5>2, <5>3
      <4> HIDE DEF old
      <4>5. old \o new = [n \in 1 .. end |-> n]
        <5>1. /\ old \o new \in Seq(Bytes) /\ Len(old \o new) = p + ln
              /\ \A i \in 1 .. p + ln : (old \o new)[i] = IF i <= p THEN old[i] ELSE new[i - p]
          <6>1. new \in Seq(Bytes) /\ Len(new) = ln
            BY <1>4
          <6> QED
            BY <4>4, <6>1, ConcatAt
        <5>2. DOMAIN (old \o new) = 1 .. end /\ old \o new \in [1 .. end -> Bytes]
          BY <1>4, <5>1, LenProperties
        <5>3. ASSUME NEW i \in 1 .. end PROVE (old \o new)[i] = i
          <6>1. i \in 1 .. p + ln
            BY <1>4
          <6>2. CASE i <= p
            <7>1. i \in 1 .. p
              BY <1>1, <6>2
            <7> QED
              BY <4>4, <5>1, <6>1, <6>2, <7>1
          <6>3. CASE ~(i <= p)
            <7>1. i - p \in 1 .. ln /\ p + (i - p) = i
              BY <1>1, <1>4, <6>1, <6>3
            <7> QED
              BY <1>4, <5>1, <6>1, <6>3, <7>1
          <6> QED
            BY <6>2, <6>3
        <5> QED
          BY <5>2, <5>3
      <4>6. before' = before
        BY <1>1, <1>9 DEF before, BytesOf
      <4>7. InOrder(d)' <=> before \o (inbox[d] \o new) = [n \in 1 .. end |-> n]
        BY <1>3, <4>6 DEF InOrder, before
      <4> QED
        BY <3>2, <4>3, <4>5, <4>7
    <3>3. CASE c # d
      BY <1>1, <1>3, <1>9, <3>1, <3>3 DEF InOrder, BytesOf
    <3> QED
      BY <3>2, <3>3
  <2> QED
    BY <2>1 DEF OrderInv
<1> QED
  BY <1>7, <1>8, <1>10, <1>11 DEF BytesInv

LEMMA BytesStep ==
    ASSUME TypeOK, TypeOK', MadeInv, ApartInv, TextInv, BytesInv, Next
    PROVE  BytesInv'
<1>0. /\ apart' \subseteq Conns
      /\ peer \in [Conns -> {"none", "open", "fin", "reset"}]
      /\ inbox \in [Conns -> Seq(Bytes)]
  BY DEF TypeOK, Made
<1>1. CASE LookupFails \/ Exit
  BY <1>0, <1>1, BytesKept DEF LookupFails, Exit, server, reads
<1>2. CASE MakeSocket
  <2>1. PICK c \in Conns \ Made : apart' = IF Running = {} THEN apart \cup {c} ELSE apart
    BY <1>2, MakeFacts
  <2>2. UNCHANGED <<shown, from, text, inbox, pushed, peer>>
    BY <1>2, MakeFacts DEF server, reads
  <2>3. InOrder(c)
    <3>1. /\ shown[c] = <<>> /\ inbox[c] = <<>> /\ pushed[c] = 0 /\ from[c] = None /\ c # None
      BY <2>1, ActorFacts DEF MadeInv, TypeOK
    <3>2. InHand(c, c) = <<>>
      BY <3>1 DEF InHand
    <3>3. [n \in 1 .. 0 |-> n] = <<>> /\ <<>> \o <<>> \o <<>> = <<>>
      OBVIOUS
    <3> QED
      BY <3>1, <3>2, <3>3, NoBytes DEF InOrder
  <2> QED
    BY <1>0, <2>1, <2>2, <2>3, BytesKept
<1>3. CASE ConnectSocket
  <2>1. /\ UNCHANGED <<shown, from, text, inbox, pushed, apart>>
        /\ \/ sock[field] = "new" /\ field # None /\ peer' = [peer EXCEPT ![field] = "open"]
           \/ peer' = peer
    BY <1>3, ConnectFacts DEF reads
  <2>2. \A c \in Conns : peer'[c] # "reset" => peer[c] # "reset"
    BY <1>0, <2>1 DEF MadeInv
  <2> QED
    BY <1>0, <2>1, <2>2, BytesKept
<1>4. CASE StartLoop \/ Disconnect(Window)
  BY <1>0, <1>4, StartFacts, QuitFacts, BytesKept DEF server, reads
<1>5. ASSUME NEW d \in Conns, LoopStep(d) PROVE BytesInv'
  BY <1>5, LoopMoves
<1>6. ASSUME NEW d \in Conns, Push(d) PROVE BytesInv'
  BY <1>6, PushMoves
<1>7. ASSUME NEW d \in Conns, ServerEnds(d) PROVE BytesInv'
  <2>1. UNCHANGED <<apart, shown, from, text, pushed>>
    BY <1>7, EndsFacts DEF reads
  <2>2. CASE peer' = [peer EXCEPT ![d] = "fin"] /\ peer[d] # "reset" /\ UNCHANGED inbox
    <3>1. \A c \in Conns : peer'[c] # "reset" => peer[c] # "reset"
      BY <1>0, <2>2
    <3> QED
      BY <1>0, <2>1, <2>2, <3>1, BytesKept
  <2>3. CASE peer' = [peer EXCEPT ![d] = "reset"] /\ inbox' = [inbox EXCEPT ![d] = <<>>]
    <3>1. /\ peer'[d] = "reset" /\ inbox'[d] = <<>>
          /\ \A c \in Conns : c # d => peer'[c] = peer[c] /\ inbox'[c] = inbox[c]
      BY <1>0, <2>3
    <3>2. InboxInv' /\ UnsplitInv'
      <4>1. InboxInv'
        BY <2>1, <3>1 DEF BytesInv, InboxInv
      <4>2. UnsplitInv'
        BY <2>1 DEF BytesInv, UnsplitInv, Unsplit, Character
      <4> QED
        BY <4>1, <4>2
    <3>3. \A c \in Conns : c # d => Pieces(c)' = Pieces(c)
      BY <2>1, <3>1, ActorFacts, PlaceNames DEF Pieces, InHand, BytesOf, Actors
    <3>4. PlaceInv'
      BY <2>1, <3>1, <3>3 DEF BytesInv, PlaceInv, Within, InOnePlace
    <3>5. OrderInv'
      <4>1. \A c \in Conns : BytesOf(InHand(c, c))' = BytesOf(InHand(c, c))
                              /\ BytesOf(shown[c])' = BytesOf(shown[c])
        BY <2>1 DEF BytesOf, InHand
      <4>2. \A c \in Conns : c # d => (InOrder(c)' <=> InOrder(c))
        BY <2>1, <3>1, <4>1 DEF InOrder
      <4> QED
        BY <1>0, <2>1, <3>1, <4>2 DEF BytesInv, OrderInv
    <3> QED
      BY <3>2, <3>4, <3>5 DEF BytesInv
  <2> QED
    BY <1>7, <2>2, <2>3, EndsFacts
<1> QED
  BY <1>1, <1>2, <1>3, <1>4, <1>5, <1>6, <1>7 DEF Next, Click, WindowStep

-----------------------------------------------------------------------------
\* The invariant.

LEMMA ClientInit == Init => ClientInv
<1> SUFFICES ASSUME Init PROVE ClientInv
  OBVIOUS
<1>0. Made = {} /\ Running = {} /\ \A c \in Conns : pc[c] = "none"
  BY ActorFacts DEF Init, Made, Running, Actors
<1>1. TypeOK
  <2>1. PcOK /\ SockOK /\ WaitOK /\ FieldOK
    BY <1>0, ActorFacts
       DEF Init, PcOK, SockOK, WaitOK, FieldOK, Actors, Windows, LoopStates
  <2>2. ServerOK /\ ReadsOK
    <3>1. <<>> \in Seq(Bytes) /\ <<>> \in Seq(Mark)
      BY EmptySeq
    <3> QED
      BY <3>1 DEF Init, ServerOK, ReadsOK
  <2> QED
    BY <2>1, <2>2, TypeParts
<1>2. MadeInv
  BY <1>0 DEF Init, MadeInv
<1>3. OpeningInv /\ ApartInv /\ TextInv
  BY <1>0, ActorFacts DEF Init, OpeningInv, ApartInv, TextInv
<1>4. LiveInv /\ OrderInv
  BY ActorFacts DEF Init, LiveInv, OrderInv
<1>5. InboxInv /\ UnsplitInv
  BY DEF Init, InboxInv, UnsplitInv, Unsplit
<1>6. PlaceInv
  <2>1. \A c \in Conns : pushed[c] = 0 /\ shown[c] = <<>> /\ inbox[c] = <<>> /\ text[c] = <<>>
    BY DEF Init
  <2>2. ASSUME NEW c \in Conns
        PROVE  Within(Pieces(c), 0)
    <3>1. /\ DOMAIN Pieces(c) = {Window, Unread} \cup Conns
          /\ Pieces(c)[Window] = <<>> /\ Pieces(c)[Unread] = <<>>
          /\ \A d \in Conns : Pieces(c)[d] = <<>>
      BY <2>1, PiecesFacts, NoBytes DEF InHand, Actors
    <3> QED
      BY <3>1 DEF Within
  <2> QED
    BY <2>1, <2>2 DEF PlaceInv
<1> QED
  BY <1>1, <1>2, <1>3, <1>4, <1>5, <1>6 DEF ClientInv

LEMMA ClientStep == ClientInv /\ [Next]_vars => ClientInv'
<1> SUFFICES ASSUME ClientInv, [Next]_vars PROVE ClientInv'
  OBVIOUS
<1>0. /\ TypeOK /\ MadeInv /\ OpeningInv /\ ApartInv /\ TextInv /\ LiveInv
      /\ InboxInv /\ UnsplitInv /\ PlaceInv /\ OrderInv
  BY DEF ClientInv
<1>1. CASE Next
  <2>1. TypeOK'
    BY <1>0, <1>1, WindowType, LoopType, ServerType DEF Next
  <2>2. MadeInv' /\ OpeningInv' /\ ApartInv' /\ TextInv'
    BY <1>0, <1>1, MadeStep, OpeningStep, ApartStep, TextStep
  <2>3. LiveInv' /\ InboxInv' /\ UnsplitInv' /\ PlaceInv' /\ OrderInv'
    BY <1>0, <1>1, <2>1, LiveStep, BytesStep DEF BytesInv
  <2> QED
    BY <2>1, <2>2, <2>3 DEF ClientInv
<1>2. CASE UNCHANGED vars
  <2>1. TypeOK'
    BY <1>0, <1>2 DEF vars, TypeOK, Made
  <2>2. MadeInv' /\ OpeningInv' /\ ApartInv' /\ TextInv'
    BY <1>0, <1>2 DEF vars, MadeInv, OpeningInv, ApartInv, TextInv, Made, Running
  <2>3. LiveInv'
    BY <1>0, <1>2 DEF vars, LiveInv, Live, Reading
  <2>4. InboxInv' /\ UnsplitInv' /\ PlaceInv' /\ OrderInv'
    BY <1>0, <1>2, BytesKept DEF vars, BytesInv, TypeOK, Made
  <2> QED
    BY <2>1, <2>2, <2>3, <2>4 DEF ClientInv
<1> QED
  BY <1>1, <1>2

THEOREM ClientInvariant == Spec => []ClientInv
BY ClientInit, ClientStep, PTL DEF Spec

\* Every variable keeps its type, and a loop has a socket exactly while it waits for
\* it or shows what came from it (ReceiveMessages).
THEOREM ClientTypeCorrect == Spec => []TypeOK
<1>1. ClientInv => TypeOK
  BY DEF ClientInv
<1> QED
  BY <1>1, ClientInvariant, PTL

\* A live connection opened apart is the current one, and its loop goes on receiving
\* (Connect and Disconnect).
THEOREM LiveIsCurrentHolds == Spec => []LiveIsCurrent
<1>1. ClientInv => LiveIsCurrent
  BY DEF ClientInv, LiveInv, LiveIsCurrent
<1> QED
  BY <1>1, ClientInvariant, PTL

\* Whatever loops read a connection, the window shows every byte of it once, whole
\* characters untorn, and those of a connection opened apart in order (ReceiveMessages,
\* HandleMessageReceived).
THEOREM ShownOnceHolds == Spec => []ShownOnce
<1>1. ASSUME ClientInv PROVE ShownOnce
  <2>1. TypeOK /\ UnsplitInv /\ PlaceInv /\ OrderInv
    BY <1>1 DEF ClientInv
  <2>2. ASSUME NEW c \in Conns, c \in apart, peer[c] # "reset"
        PROVE  BytesOf(shown[c]) \o Pieces(c)[c] \o inbox[c] = [n \in 1 .. pushed[c] |-> n]
    BY <2>1, <2>2, PiecesFacts DEF OrderInv, InOrder
  <2> QED
    BY <2>1, <2>2 DEF UnsplitInv, PlaceInv, ShownOnce
<1>2. ClientInv => ShownOnce
  BY <1>1
<1> QED
  BY <1>2, ClientInvariant, PTL
=============================================================================
