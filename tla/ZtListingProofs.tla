--------------------------- MODULE ZtListingProofs ---------------------------
(***************************************************************************)
(* Proofs about ZtListing, for any rooms, users, limits and failures.      *)
(* A listing has three places where an id may be: among the slots it has   *)
(* filled (found), among the keys it has yet to look up (keys), and, for   *)
(* rooms, among those SCAN must still return (cursor.due).  What was       *)
(* stored at the start never falls out of the three while no command       *)
(* fails.  The ids come from sets that only grow as long as the handler's  *)
(* connection holds, because whatever shrinks them breaks it.              *)
(***************************************************************************)
EXTENDS ZtListing, FiniteSetTheorems, SequenceTheorems, TLAPS

\* The step a handler is at, and what that says of its request and its slots.
Placed(s) ==
    /\ pc[s] # "idle" => rsp[s] = "none"
    /\ pc[s] \in {"idle", "user_exists", "friend_list"} => found[s] = <<>>
    /\ pc[s] \in {"scan", "room_get"} => req[s] \in RoomsRequest /\ Len(found[s]) < RoomMax
    /\ pc[s] \in {"user_exists", "friend_list", "friend_get"} => req[s] \in FriendsRequest
    /\ pc[s] = "room_get" => keys[s] # <<>>
    /\ pc[s] = "friend_get" => keys[s] # <<>> /\ Len(found[s]) < FriendMax

\* While the connection holds, the ids a handler has are stored.
Grounded(s) ==
    link[s] = "up" =>
        /\ pc[s] \in {"scan", "room_get"} => Ids(found[s]) \subseteq rooms
        /\ pc[s] = "room_get" => ToSet(keys[s]) \subseteq rooms
        /\ pc[s] = "friend_get" =>
              /\ Ids(found[s]) \subseteq friends[req[s].user]
              /\ ToSet(keys[s]) \subseteq friends[req[s].user]
              /\ WithFields(found[s]) \subseteq registered
        /\ pc[s] \in {"user_exists", "friend_list"} => start[s] \subseteq friends[req[s].user]

\* Nothing that was stored at the start is forgotten.
Covered(s) ==
    /\ cursor[s].done => cursor[s].due = {}
    /\ pc[s] = "scan" /\ ~failed[s] =>
          start[s] \subseteq Ids(found[s]) \cup cursor[s].due
    /\ pc[s] = "room_get" /\ ~failed[s] =>
          start[s] \subseteq Ids(found[s]) \cup ToSet(keys[s]) \cup cursor[s].due
    /\ pc[s] = "friend_get" => start[s] \subseteq Ids(found[s]) \cup ToSet(keys[s])

HandlerInv(s) == Placed(s) /\ Grounded(s) /\ Covered(s)

ListingInv == TypeOK /\ \A s \in Servers : HandlerInv(s)

\* The step of one handler leaves the others alone.
Elsewhere(s) ==
    \A t \in Servers \ {s} :
        /\ link'[t] = link[t] /\ pc'[t] = pc[t] /\ req'[t] = req[t] /\ rsp'[t] = rsp[t]
        /\ keys'[t] = keys[t] /\ cursor'[t] = cursor[t] /\ found'[t] = found[t]
        /\ start'[t] = start[t] /\ failed'[t] = failed[t]

\* What RoomsComplete and FriendsComplete say of one handler.
RoomsWhole(s) ==
    pc[s] \in {"scan", "room_get"} /\ rsp'[s] = "SUCCESS" /\ ~failed'[s]
        => Names(start[s], body'[s], RoomMax)

FriendsWhole(s) ==
    pc[s] \in {"friend_list", "friend_get"} /\ rsp'[s] = "SUCCESS"
        => Names(start[s], body'[s], FriendMax)

\* What is shown of every step of a handler.
Goes(s) == /\ TypeOK' /\ Elsewhere(s) /\ HandlerInv(s)' /\ UNCHANGED store
           /\ RoomsWhole(s) /\ FriendsWhole(s)

-----------------------------------------------------------------------------
\* Sequences.

LEMMA AppendIds ==
    ASSUME NEW list \in Seq(Slot), NEW slot \in Slot
    PROVE  /\ Append(list, slot) \in Seq(Slot)
           /\ Len(Append(list, slot)) = Len(list) + 1
           /\ Len(list) \in Nat
           /\ Ids(Append(list, slot)) = Ids(list) \cup {slot.id}
           /\ WithFields(Append(list, slot)) \subseteq
                 WithFields(list) \cup (IF slot.bare THEN {} ELSE {slot.id})
<1> DEFINE longer == Append(list, slot)
<1>1. Len(list) \in Nat /\ DOMAIN list = 1 .. Len(list)
  BY LenProperties
<1>2. /\ longer \in Seq(Slot)
      /\ Len(longer) = Len(list) + 1
      /\ \A i \in 1 .. Len(list) : longer[i] = list[i]
      /\ longer[Len(list) + 1] = slot
  BY AppendProperties
<1> HIDE DEF longer
<1>3. DOMAIN longer = 1 .. Len(list) + 1
  BY <1>2, LenProperties
<1>4. Ids(longer) = Ids(list) \cup {slot.id}
  <2>1. ASSUME NEW i \in DOMAIN longer
        PROVE  longer[i].id \in Ids(list) \cup {slot.id}
    <3>1. i \in DOMAIN list \/ i = Len(list) + 1
      BY <1>1, <1>3
    <3> QED
      BY <1>1, <1>2, <3>1 DEF Ids
  <2>2. ASSUME NEW i \in DOMAIN list
        PROVE  list[i].id \in Ids(longer)
    <3>1. i \in DOMAIN longer /\ longer[i] = list[i]
      BY <1>1, <1>2, <1>3
    <3> QED
      BY <3>1 DEF Ids
  <2>3. slot.id \in Ids(longer)
    <3>1. Len(list) + 1 \in DOMAIN longer
      BY <1>1, <1>3
    <3> QED
      BY <1>2, <3>1 DEF Ids
  <2> QED
    BY <2>1, <2>2, <2>3 DEF Ids
<1>5. WithFields(longer) \subseteq WithFields(list) \cup (IF slot.bare THEN {} ELSE {slot.id})
  <2> SUFFICES ASSUME NEW i \in DOMAIN longer, ~longer[i].bare
               PROVE  longer[i].id \in WithFields(list)
                                        \cup (IF slot.bare THEN {} ELSE {slot.id})
    BY DEF WithFields
  <2>1. i \in DOMAIN list \/ i = Len(list) + 1
    BY <1>1, <1>3
  <2>2. CASE i \in DOMAIN list
    <3>1. longer[i] = list[i]
      BY <1>1, <1>2, <2>2
    <3> QED
      BY <2>2, <3>1 DEF WithFields
  <2>3. CASE i = Len(list) + 1
    BY <1>2, <2>3
  <2> QED
    BY <2>1, <2>2, <2>3
<1> QED
  BY <1>1, <1>2, <1>4, <1>5 DEF longer

LEMMA PrefixItems ==
    ASSUME NEW list \in Seq(Slot), NEW n \in 0 .. Len(list)
    PROVE  /\ SubSeq(list, 1, n) \in Seq(Slot) /\ Len(SubSeq(list, 1, n)) = n
           /\ \A i \in 1 .. n : SubSeq(list, 1, n)[i] = list[i]
BY LenProperties, ElementOfSeq

\* What arrives of a list that is cut after n slots.
LEMMA Prefix ==
    ASSUME NEW list \in Seq(Slot), NEW n \in 0 .. Len(list)
    PROVE  /\ SubSeq(list, 1, n) \in Seq(Slot)
           /\ n = Len(list) => SubSeq(list, 1, n) = list
           /\ n # Len(list) => /\ n < Len(list) /\ list[n + 1] \in Slot
                              /\ Append(SubSeq(list, 1, n), list[n + 1]) = SubSeq(list, 1, n + 1)
<1>1. /\ Len(list) \in Nat /\ DOMAIN list = 1 .. Len(list)
      /\ \A i \in 1 .. Len(list) : list[i] \in Slot
  BY LenProperties, ElementOfSeq
<1>2. /\ SubSeq(list, 1, n) \in Seq(Slot) /\ Len(SubSeq(list, 1, n)) = n
      /\ \A i \in 1 .. n : SubSeq(list, 1, n)[i] = list[i]
  BY PrefixItems
<1>3. CASE n = Len(list)
  BY <1>1, <1>2, <1>3, SeqEqual
<1>4. CASE n # Len(list)
  <2>1. n < Len(list) /\ n + 1 \in 1 .. Len(list)
    <3> DEFINE L == Len(list)
    <3>1. L \in Nat /\ n \in 0 .. L /\ n # L
      BY <1>1, <1>4
    <3> HIDE DEF L
    <3>2. n < L /\ n + 1 \in 1 .. L
      BY ONLY <3>1
    <3> QED
      BY <3>2 DEF L
  <2>2. /\ SubSeq(list, 1, n + 1) \in Seq(Slot) /\ Len(SubSeq(list, 1, n + 1)) = n + 1
        /\ \A i \in 1 .. n + 1 : SubSeq(list, 1, n + 1)[i] = list[i]
    <3>1. n + 1 \in 0 .. Len(list)
      BY <1>1, <2>1
    <3> QED
      BY <3>1, PrefixItems
  <2> DEFINE longer == Append(SubSeq(list, 1, n), list[n + 1])
  <2>3. /\ longer \in Seq(Slot) /\ Len(longer) = n + 1
        /\ \A i \in 1 .. n + 1 : longer[i] = list[i]
    BY <1>1, <1>2, <2>1, AppendProperties
  <2> HIDE DEF longer
  <2>4. longer = SubSeq(list, 1, n + 1)
    BY <2>2, <2>3, SeqEqual
  <2> QED
    BY <1>1, <1>2, <1>4, <2>1, <2>4 DEF longer
<1> QED
  BY <1>2, <1>3, <1>4

LEMMA HeadTailSet ==
    ASSUME NEW S, NEW q \in Seq(S), q # <<>>
    PROVE  /\ Head(q) \in S
           /\ Tail(q) \in Seq(S)
           /\ ToSet(q) = {Head(q)} \cup ToSet(Tail(q))
<1>1. Len(q) \in Nat \ {0} /\ DOMAIN q = 1 .. Len(q)
  BY EmptySeq, LenProperties
<1>2. /\ Head(q) \in S /\ Tail(q) \in Seq(S)
      /\ Len(Tail(q)) = Len(q) - 1
      /\ \A i \in 1 .. Len(Tail(q)) : Tail(q)[i] = q[i + 1]
  BY HeadTailProperties
<1>3. DOMAIN Tail(q) = 1 .. Len(q) - 1
  BY <1>2, LenProperties
<1>4. Head(q) = q[1]
  BY <1>1
<1>5. ASSUME NEW i \in DOMAIN q
      PROVE  q[i] \in {Head(q)} \cup ToSet(Tail(q))
  <2>1. CASE i = 1
    BY <1>4, <2>1
  <2>2. CASE i # 1
    <3>1. i - 1 \in DOMAIN Tail(q) /\ (i - 1) + 1 = i
      BY <1>1, <1>3, <2>2
    <3>2. Tail(q)[i - 1] = q[i]
      BY <1>2, <1>3, <3>1
    <3> QED
      BY <3>1, <3>2 DEF ToSet
  <2> QED
    BY <2>1, <2>2
<1>6. ASSUME NEW i \in DOMAIN Tail(q)
      PROVE  Tail(q)[i] \in ToSet(q)
  <2>1. i + 1 \in DOMAIN q /\ Tail(q)[i] = q[i + 1]
    BY <1>1, <1>2, <1>3
  <2> QED
    BY <2>1 DEF ToSet
<1>7. Head(q) \in ToSet(q)
  BY <1>1, <1>4 DEF ToSet
<1> QED
  BY <1>2, <1>5, <1>6, <1>7 DEF ToSet

LEMMA EmptySets == Ids(<<>>) = {} /\ ToSet(<<>>) = {} /\ WithFields(<<>>) = {}
BY DEF Ids, ToSet, WithFields

\* The replies of SCAN and SMEMBERS.
LEMMA BatchFacts == \A b \in Batches : b \in Seq(rooms) /\ ToSet(b) \subseteq rooms
<1> SUFFICES ASSUME NEW b \in Batches
             PROVE  b \in Seq(rooms) /\ ToSet(b) \subseteq rooms
  OBVIOUS
<1>1. PICK n \in 0 .. ScanMax : b \in [1 .. n -> rooms]
  BY DEF Batches, SeqOf
<1>2. n \in Nat
  BY LimitAssumption
<1> QED
  BY <1>1, <1>2, SeqDef DEF ToSet

LEMMA OrderFacts ==
    ASSUME NEW S, IsFiniteSet(S), NEW order \in SetToAllKPermutations(S)
    PROVE  order \in Seq(S)
<1>1. PICK T \in SUBSET S : order \in SetToSeqs(T)
  BY DEF SetToAllKPermutations
<1>2. order \in [1 .. Cardinality(T) -> T]
  BY <1>1 DEF SetToSeqs
<1>3. Cardinality(T) \in Nat
  BY FS_Subset, FS_CardinalityType
<1>4. order \in Seq(T)
  BY <1>2, <1>3, SeqDef
<1> QED
  BY <1>4, SeqMonotonic

-----------------------------------------------------------------------------
\* A step of one handler.

\* TypeOK without its bound on the slots.
VarsTyped ==
    /\ link \in [Servers -> LinkState]
    /\ pc \in [Servers -> Step]
    /\ req \in [Servers -> RoomsRequest \cup FriendsRequest \cup {None}]
    /\ rsp \in [Servers -> Answer]
    /\ rooms \subseteq Rooms /\ registered \subseteq Users
    /\ friends \in [Askers -> SUBSET Users]
    /\ keys \in [Servers -> Seq(Rooms \cup Users)]
    /\ cursor \in [Servers -> [done : BOOLEAN, due : SUBSET (Rooms \cup Users)]]
    /\ found \in [Servers -> Seq(Slot)]
    /\ body \in [Servers -> [list : Seq(Slot), cut : BOOLEAN]]
    /\ start \in [Servers -> SUBSET (Rooms \cup Users)]
    /\ failed \in [Servers -> BOOLEAN]

Slots(s) == IF pc[s] = "friend_get" THEN FriendMax ELSE RoomMax

LEMMA TypeParts == TypeOK <=> VarsTyped /\ \A s \in Servers : Len(found[s]) <= Slots(s)
BY DEF TypeOK, VarsTyped, Slots

\* The connections and the failures change for one handler alone.
Alone(s) ==
    /\ link' \in [Servers -> LinkState]
    /\ failed' \in [Servers -> BOOLEAN]
    /\ \A t \in Servers \ {s} : link'[t] = link[t] /\ failed'[t] = failed[t]
    /\ UNCHANGED <<store, start>>

\* What a command does, whatever its outcome.
Executes(s) ==
    /\ Alone(s)
    /\ link'[s] = "up" => link[s] = "up"
    /\ ~failed'[s] => ~failed[s]

LEMMA CommandFacts ==
    ASSUME TypeOK, NEW s \in Servers, NEW o \in Outcomes(link[s]),
           link' = [link EXCEPT ![s] = LinkAfter(o)],
           failed' = [failed EXCEPT ![s] = @ \/ o # "reply"],
           UNCHANGED <<store, start>>
    PROVE  /\ Executes(s)
           /\ o = "reply" => link[s] = "up"
           /\ ~failed'[s] => o = "reply"
<1>1. link \in [Servers -> LinkState] /\ failed \in [Servers -> BOOLEAN]
  BY DEF TypeOK
<1>2. LinkAfter(o) \in LinkState /\ (o = "reply" => link[s] = "up")
  BY <1>1, FailuresAssumption DEF LinkAfter, LinkState, Outcomes
<1>3. LinkAfter(o) = "up" => link[s] = "up"
  BY <1>1, FailuresAssumption DEF LinkAfter, LinkState, Outcomes
<1>4. /\ link' \in [Servers -> LinkState] /\ link'[s] = LinkAfter(o)
      /\ \A t \in Servers \ {s} : link'[t] = link[t]
  BY <1>1, <1>2
<1>5. /\ failed' \in [Servers -> BOOLEAN] /\ (failed'[s] <=> failed[s] \/ o # "reply")
      /\ \A t \in Servers \ {s} : failed'[t] = failed[t]
  BY <1>1
<1> QED
  BY <1>2, <1>3, <1>4, <1>5 DEF Executes, Alone

\* The handler ends: its invariant has little left to say.
LEMMA Ends ==
    ASSUME ListingInv, NEW s \in Servers, Alone(s),
           NEW code \in Answer, Reply(s, code), ClearLocals(s),
           body' \in [Servers -> [list : Seq(Slot), cut : BOOLEAN]]
    PROVE  TypeOK' /\ Elsewhere(s) /\ HandlerInv(s)' /\ rsp'[s] = code
<1>1. VarsTyped /\ \A t \in Servers : Len(found[t]) <= Slots(t)
  BY TypeParts DEF ListingInv
<1>2. <<>> \in Seq(Slot) /\ <<>> \in Seq(Rooms \cup Users)
      /\ NoCursor \in [done : BOOLEAN, due : SUBSET (Rooms \cup Users)] /\ "idle" \in Step
  BY DEF NoCursor, Step
<1>3. VarsTyped'
  BY <1>1, <1>2 DEF VarsTyped, Alone, Reply, ClearLocals, store
<1>4. /\ pc'[s] = "idle" /\ rsp'[s] = code /\ found'[s] = <<>> /\ cursor'[s] = NoCursor
  BY <1>1 DEF VarsTyped, Reply, ClearLocals
<1>5. Elsewhere(s)
  BY <1>1 DEF VarsTyped, Alone, Reply, ClearLocals, Elsewhere
<1>6. HandlerInv(s)'
  BY <1>4 DEF HandlerInv, Placed, Grounded, Covered, NoCursor
<1>7. \A t \in Servers : Len(found'[t]) <= Slots(t)'
  <2> SUFFICES ASSUME NEW t \in Servers PROVE Len(found'[t]) <= Slots(t)'
    OBVIOUS
  <2>1. CASE t = s
    <3>1. Len(found'[s]) = 0
      BY <1>4
    <3> QED
      BY <2>1, <3>1, LimitAssumption DEF Slots
  <2>2. CASE t # s
    BY <1>1, <1>5, <2>2 DEF Elsewhere, Slots
  <2> QED
    BY <2>1, <2>2
<1>8. TypeOK'
  BY <1>3, <1>7, TypeParts DEF TypeOK, VarsTyped, Slots
<1> QED
  BY <1>4, <1>5, <1>6, <1>8

LEMMA FailGoes ==
    ASSUME ListingInv, NEW s \in Servers, Executes(s),
           NEW code \in Answer \ {"SUCCESS"}, Fail(s, code)
    PROVE  Goes(s)
<1>1. body' \in [Servers -> [list : Seq(Slot), cut : BOOLEAN]]
  BY DEF ListingInv, TypeOK, Fail
<1>2. TypeOK' /\ Elsewhere(s) /\ HandlerInv(s)' /\ rsp'[s] = code
  BY <1>1, Ends DEF Fail, Executes
<1> QED
  BY <1>2 DEF Goes, RoomsWhole, FriendsWhole, Executes, Alone

LEMMA AnswerListGoes ==
    ASSUME ListingInv, NEW s \in Servers, Executes(s),
           NEW list \in Seq(Slot), AnswerList(s, list),
           pc[s] \in {"scan", "room_get"} /\ ~failed'[s]
               => start[s] \subseteq Ids(list) \/ Len(list) = RoomMax,
           pc[s] \in {"friend_list", "friend_get"}
               => start[s] \subseteq Ids(list) \/ Len(list) = FriendMax
    PROVE  Goes(s)
<1>1. CASE Fail(s, "SERVER_ERROR")
  BY <1>1, FailGoes DEF Answer
<1>2. CASE ~Fail(s, "SERVER_ERROR")
  <2>1. PICK n \in 0 .. Len(list) :
            /\ Reply(s, "SUCCESS") /\ ClearLocals(s) /\ Fits(list, n)
            /\ body' = [body EXCEPT ![s] = [list |-> SubSeq(list, 1, n), cut |-> n # Len(list)]]
    BY <1>2 DEF AnswerList
  <2> DEFINE sent == [list |-> SubSeq(list, 1, n), cut |-> n # Len(list)]
  <2>2. /\ sent \in [list : Seq(Slot), cut : BOOLEAN]
        /\ sent.list = SubSeq(list, 1, n) /\ (sent.cut <=> n # Len(list))
    <3>1. SubSeq(list, 1, n) \in Seq(Slot)
      BY Prefix
    <3> QED
      BY <3>1
  <2>3. body' = [body EXCEPT ![s] = sent]
    BY <2>1
  <2> HIDE DEF sent
  <2>4. body' \in [Servers -> [list : Seq(Slot), cut : BOOLEAN]] /\ body'[s] = sent
    BY <2>2, <2>3 DEF ListingInv, TypeOK
  <2>5. TypeOK' /\ Elsewhere(s) /\ HandlerInv(s)'
    BY <2>1, <2>4, Ends DEF Answer, Executes
  <2>6. ~sent.cut => sent.list = list
    BY <2>2, Prefix
  <2>7. ASSUME sent.cut
        PROVE  CutFull(sent.list)
    <3>1. /\ n < Len(list) /\ list[n + 1] \in Slot
          /\ Append(sent.list, list[n + 1]) = SubSeq(list, 1, n + 1)
      BY <2>2, <2>7, Prefix
    <3>2. TextLength(SubSeq(list, 1, n + 1)) > BodyMax
      BY <2>1, <3>1 DEF Fits
    <3>3. TextLength(Append(sent.list, list[n + 1])) > BodyMax
      BY <3>1, <3>2
    <3> QED
      BY <3>1, <3>3 DEF CutFull
  <2>8. RoomsWhole(s) /\ FriendsWhole(s)
    BY <2>4, <2>6, <2>7 DEF RoomsWhole, FriendsWhole, Names
  <2> QED
    BY <2>5, <2>8 DEF Goes, Executes, Alone
<1> QED
  BY <1>1, <1>2

\* The handler goes on to another command, or to the same one for its next key.
LEMMA MoveGoes ==
    ASSUME ListingInv, NEW s \in Servers, Executes(s),
           pc[s] # "idle",
           NEW step \in Step \ {"idle"},
           NEW k \in Seq(Rooms \cup Users),
           NEW c \in [done : BOOLEAN, due : SUBSET (Rooms \cup Users)],
           NEW f \in Seq(Slot),
           pc' = [pc EXCEPT ![s] = step], UNCHANGED <<req, rsp, body>>,
           keys' = [keys EXCEPT ![s] = k],
           cursor' = [cursor EXCEPT ![s] = c],
           found' = [found EXCEPT ![s] = f],
           Len(f) <= IF step = "friend_get" THEN FriendMax ELSE RoomMax,
           (pc'[s] = step /\ req'[s] = req[s] /\ rsp'[s] = "none" /\ keys'[s] = k
            /\ cursor'[s] = c /\ found'[s] = f /\ start'[s] = start[s] /\ UNCHANGED store)
           => HandlerInv(s)'
    PROVE  Goes(s)
<1>1. VarsTyped /\ \A t \in Servers : Len(found[t]) <= Slots(t)
  BY TypeParts DEF ListingInv
<1>2. rsp[s] = "none"
  BY DEF ListingInv, HandlerInv, Placed
<1>3. VarsTyped'
  BY <1>1 DEF VarsTyped, Executes, Alone, store
<1>4. /\ pc'[s] = step /\ rsp'[s] = "none" /\ found'[s] = f /\ cursor'[s] = c /\ keys'[s] = k
      /\ req'[s] = req[s] /\ start'[s] = start[s]
  BY <1>1, <1>2 DEF VarsTyped, Executes, Alone
<1>5. Elsewhere(s)
  BY <1>1 DEF VarsTyped, Executes, Alone, Elsewhere
<1>6. HandlerInv(s)'
  BY <1>4 DEF Executes, Alone
<1>7. \A t \in Servers : Len(found'[t]) <= Slots(t)'
  <2> SUFFICES ASSUME NEW t \in Servers PROVE Len(found'[t]) <= Slots(t)'
    OBVIOUS
  <2>1. CASE t = s
    BY <1>4, <2>1 DEF Slots
  <2>2. CASE t # s
    BY <1>1, <1>5, <2>2 DEF Elsewhere, Slots
  <2> QED
    BY <2>1, <2>2
<1>8. TypeOK'
  BY <1>3, <1>7 DEF TypeOK, VarsTyped, Slots
<1> QED
  BY <1>4, <1>5, <1>6, <1>8 DEF Goes, RoomsWhole, FriendsWhole, Executes, Alone

-----------------------------------------------------------------------------
\* The steps.

LEMMA SameAt ==
    ASSUME NEW T, NEW f \in [Servers -> T], NEW s \in Servers
    PROVE  f = [f EXCEPT ![s] = f[s]] /\ f[s] \in T
OBVIOUS

\* What one handler's variables are.
LEMMA LocalTypes ==
    ASSUME TypeOK, NEW s \in Servers
    PROVE  /\ keys[s] \in Seq(Rooms \cup Users) /\ keys = [keys EXCEPT ![s] = keys[s]]
           /\ cursor[s] \in [done : BOOLEAN, due : SUBSET (Rooms \cup Users)]
           /\ cursor = [cursor EXCEPT ![s] = cursor[s]]
           /\ found[s] \in Seq(Slot) /\ found = [found EXCEPT ![s] = found[s]]
           /\ pc = [pc EXCEPT ![s] = pc[s]]
BY SameAt DEF TypeOK

LEMMA StartGoes ==
    ASSUME ListingInv, NEW s \in Servers, NEW r, NEW step, NEW stored,
           stored \subseteq Rooms \cup Users,
           \/ r \in RoomsRequest /\ step = "scan"
           \/ r \in FriendsRequest /\ step = "user_exists" /\ stored = friends[r.user],
           Start(s, r, step, stored)
    PROVE  Goes(s)
<1>1. VarsTyped /\ \A t \in Servers : Len(found[t]) <= Slots(t)
  BY TypeParts DEF ListingInv
<1>2. pc[s] = "idle" /\ found[s] = <<>>
  BY DEF Start, Receive, ListingInv, HandlerInv, Placed
<1>3. /\ r \in RoomsRequest \cup FriendsRequest \cup {None}
      /\ step \in Step /\ step # "friend_get" /\ "none" \in Answer
      /\ NoBody \in [list : Seq(Slot), cut : BOOLEAN]
      /\ [done |-> FALSE, due |-> stored]
             \in [done : BOOLEAN, due : SUBSET (Rooms \cup Users)]
  BY DEF Step, Answer, NoBody
<1>4. VarsTyped'
  BY <1>1, <1>3 DEF VarsTyped, Start, Receive, store
<1>5. /\ pc'[s] = step /\ req'[s] = r /\ rsp'[s] = "none" /\ found'[s] = <<>>
      /\ cursor'[s] = [done |-> FALSE, due |-> stored] /\ start'[s] = stored
      /\ UNCHANGED store
  BY <1>1, <1>2 DEF VarsTyped, Start, Receive
<1>6. Elsewhere(s)
  BY <1>1 DEF VarsTyped, Start, Receive, Elsewhere
<1>7. HandlerInv(s)'
  <2>1. Len(found'[s]) = 0 /\ Ids(found'[s]) = {}
    BY <1>5, EmptySets
  <2>2. Placed(s)'
    BY <1>5, <2>1, LimitAssumption DEF Placed
  <2>3. Grounded(s)'
    BY <1>5, <2>1 DEF Grounded, store
  <2>4. Covered(s)'
    BY <1>5 DEF Covered
  <2> QED
    BY <2>2, <2>3, <2>4 DEF HandlerInv
<1>8. \A t \in Servers : Len(found'[t]) <= Slots(t)'
  BY <1>1, <1>2, <1>3, <1>5, <1>6 DEF Elsewhere, Slots, Start
<1>9. TypeOK'
  BY <1>4, <1>8 DEF TypeOK, VarsTyped, Slots
<1> QED
  BY <1>2, <1>5, <1>6, <1>7, <1>9 DEF Goes, RoomsWhole, FriendsWhole

LEMMA RoomsReceiveGoes == ASSUME ListingInv, NEW s \in Servers, RoomsReceive(s) PROVE Goes(s)
BY StartGoes DEF RoomsReceive, ListingInv, TypeOK

LEMMA FriendsReceiveGoes ==
    ASSUME ListingInv, NEW s \in Servers, FriendsReceive(s) PROVE Goes(s)
<1>1. PICK r \in FriendsRequest : Start(s, r, "user_exists", friends[r.user])
  BY DEF FriendsReceive
<1>2. friends[r.user] \subseteq Rooms \cup Users
  BY DEF FriendsRequest, ListingInv, TypeOK
<1> QED
  BY <1>1, <1>2, StartGoes

LEMMA RefuseGoes == ASSUME ListingInv, NEW s \in Servers, Refuse(s) PROVE Goes(s)
<1>1. PICK code \in {"METHOD_NOT_ALLOWED", "INVALID_PARAMS"} : Reply(s, code)
  BY DEF Refuse, RefuseRequest
<1>2. /\ pc[s] = "idle"
      /\ UNCHANGED <<link, rooms, registered, friends, keys, cursor, found, body, start, failed>>
  BY DEF Refuse, RefuseRequest, store, local, history
<1>3. VarsTyped /\ \A t \in Servers : Len(found[t]) <= Slots(t)
  BY TypeParts DEF ListingInv
<1>4. VarsTyped'
  BY <1>1, <1>2, <1>3 DEF VarsTyped, Reply, Step, Answer
<1>5. pc'[s] = "idle" /\ Elsewhere(s)
  BY <1>1, <1>2, <1>3 DEF VarsTyped, Reply, Elsewhere
<1>6. HandlerInv(s)'
  BY <1>2, <1>5 DEF HandlerInv, Placed, Grounded, Covered, ListingInv
<1>7. \A t \in Servers : Slots(t)' = Slots(t)
  BY <1>2, <1>5 DEF Elsewhere, Slots
<1>8. TypeOK'
  BY <1>2, <1>3, <1>4, <1>7 DEF TypeOK, VarsTyped, Slots
<1> QED
  BY <1>2, <1>5, <1>6, <1>8 DEF Goes, RoomsWhole, FriendsWhole, store

LEMMA RestartGoes == ASSUME ListingInv, NEW s \in Servers, Restart(s) PROVE Goes(s)
<1>1. Alone(s)
  BY DEF Restart, RestartProcess, Alone, history, ListingInv, TypeOK
<1>2. /\ Reply(s, "none") /\ ClearLocals(s) /\ "none" \in Answer
      /\ body' \in [Servers -> [list : Seq(Slot), cut : BOOLEAN]]
  BY DEF Restart, RestartProcess, history, Answer, ListingInv, TypeOK
<1>3. TypeOK' /\ Elsewhere(s) /\ HandlerInv(s)' /\ rsp'[s] = "none"
  BY <1>1, <1>2, Ends
<1> QED
  BY <1>1, <1>3 DEF Goes, RoomsWhole, FriendsWhole, Alone

LEMMA ScanGoes == ASSUME ListingInv, NEW s \in Servers, Scan(s) PROVE Goes(s)
<1> DEFINE Due(b) == cursor[s].due \ ToSet(b)
           After(b, done) == [done |-> done, due |-> Due(b)]
           Next1(b) == IF b = <<>> THEN "scan" ELSE "room_get"
<1>1. PICK o \in Outcomes(link[s]) :
          /\ link' = [link EXCEPT ![s] = LinkAfter(o)]
          /\ failed' = [failed EXCEPT ![s] = @ \/ o # "reply"]
          /\ \/ /\ o = "reply"
                /\ \E b \in Batches, done \in BOOLEAN :
                       /\ done => Due(b) = {}
                       /\ \/ b = <<>> /\ done /\ AnswerList(s, found[s])
                          \/ /\ keys' = [keys EXCEPT ![s] = b]
                             /\ cursor' = [cursor EXCEPT ![s] = After(b, done)]
                             /\ GoTo(s, Next1(b))
                             /\ UNCHANGED <<found, body>>
             \/ Fail(s, "SERVER_ERROR")
  BY DEF Scan, Command
<1>2. UNCHANGED <<store, start>> /\ pc[s] = "scan" /\ TypeOK
  BY DEF Scan, ListingInv
<1>3. /\ Executes(s)
      /\ o = "reply" => link[s] = "up"
      /\ ~failed'[s] => ~failed[s]
  BY <1>1, <1>2, CommandFacts DEF Executes
<1>4. /\ keys[s] \in Seq(Rooms \cup Users) /\ found[s] \in Seq(Slot)
      /\ cursor[s] \in [done : BOOLEAN, due : SUBSET (Rooms \cup Users)]
      /\ found = [found EXCEPT ![s] = found[s]]
  BY <1>2, LocalTypes
<1>5. /\ req[s] \in RoomsRequest /\ Len(found[s]) < RoomMax
      /\ link[s] = "up" => Ids(found[s]) \subseteq rooms
      /\ ~failed[s] => start[s] \subseteq Ids(found[s]) \cup cursor[s].due
  BY <1>2 DEF ListingInv, HandlerInv, Placed, Grounded, Covered
<1>6. CASE Fail(s, "SERVER_ERROR")
  BY <1>3, <1>6, FailGoes DEF Answer
<1>7. ASSUME o = "reply", NEW b \in Batches, NEW done \in BOOLEAN, done => Due(b) = {},
             b = <<>>, done, AnswerList(s, found[s])
      PROVE  Goes(s)
  <2>1. cursor[s].due = {}
    BY <1>7, EmptySets
  <2>2. ~failed'[s] => start[s] \subseteq Ids(found[s])
    BY <1>3, <1>5, <2>1
  <2> QED
    BY <1>2, <1>3, <1>4, <1>7, <2>2, AnswerListGoes
<1>8. ASSUME o = "reply", NEW b \in Batches, NEW done \in BOOLEAN, done => Due(b) = {},
             keys' = [keys EXCEPT ![s] = b],
             cursor' = [cursor EXCEPT ![s] = After(b, done)],
             GoTo(s, Next1(b)), UNCHANGED <<found, body>>
      PROVE  Goes(s)
  <2>1. b \in Seq(rooms) /\ ToSet(b) \subseteq rooms
    BY BatchFacts
  <2>2. b \in Seq(Rooms \cup Users)
    BY <1>2, <2>1, SeqMonotonic DEF TypeOK
  <2>3. /\ After(b, done) \in [done : BOOLEAN, due : SUBSET (Rooms \cup Users)]
        /\ After(b, done).done = done /\ After(b, done).due = Due(b)
    BY <1>4
  <2>4. Next1(b) \in Step \ {"idle"} /\ Next1(b) \in {"scan", "room_get"}
        /\ (Next1(b) = "room_get" <=> b # <<>>)
    BY DEF Step
  <2>5. pc' = [pc EXCEPT ![s] = Next1(b)] /\ UNCHANGED <<req, rsp, body>>
    BY <1>8 DEF GoTo
  <2>6. found' = [found EXCEPT ![s] = found[s]]
    BY <1>4, <1>8
  <2>7. b = <<>> => ToSet(b) = {}
    BY EmptySets
  <2>8. ~failed'[s] => start[s] \subseteq Ids(found[s]) \cup ToSet(b) \cup Due(b)
    BY <1>3, <1>5
  <2>9. /\ cursor' = [cursor EXCEPT ![s] = After(b, done)]
        /\ done => Due(b) = {}
    BY <1>8
  <2> DEFINE step == Next1(b)
             c == After(b, done)
  <2>10. /\ step \in Step \ {"idle"} /\ step \in {"scan", "room_get"}
         /\ (step = "room_get" <=> b # <<>>)
         /\ c \in [done : BOOLEAN, due : SUBSET (Rooms \cup Users)]
         /\ c.done => c.due = {}
         /\ ~failed'[s] => start[s] \subseteq Ids(found[s]) \cup ToSet(b) \cup c.due
         /\ pc' = [pc EXCEPT ![s] = step] /\ cursor' = [cursor EXCEPT ![s] = c]
    BY <2>3, <2>4, <2>5, <2>8, <2>9
  <2> HIDE DEF step, c
  <2>11. ASSUME pc'[s] = step /\ req'[s] = req[s] /\ rsp'[s] = "none" /\ keys'[s] = b
                /\ cursor'[s] = c /\ found'[s] = found[s] /\ start'[s] = start[s]
                /\ UNCHANGED store
         PROVE  HandlerInv(s)'
    <3>1. Placed(s)'
      BY <1>5, <2>10, <2>11 DEF Placed
    <3>2. Grounded(s)'
      BY <1>3, <1>5, <2>1, <2>10, <2>11 DEF Grounded, store, Executes
    <3>3. Covered(s)'
      BY <2>7, <2>10, <2>11 DEF Covered
    <3> QED
      BY <3>1, <3>2, <3>3 DEF HandlerInv
  <2>12. Len(found[s]) <= IF step = "friend_get" THEN FriendMax ELSE RoomMax
    <3>1. Len(found[s]) \in Nat
      BY <1>4, LenProperties
    <3> QED
      BY <1>5, <2>10, <3>1, LimitAssumption
  <2> QED
    BY <1>2, <1>3, <1>4, <1>8, <2>2, <2>5, <2>6, <2>10, <2>11, <2>12, MoveGoes
<1> QED
  BY <1>1, <1>6, <1>7, <1>8

\* The slots and the keys after one lookup: what was ahead of it is found, or is
\* left among the keys.
LEMMA RoomDoneGoes ==
    ASSUME ListingInv, NEW s \in Servers, Executes(s), pc[s] = "room_get",
           NEW list \in Seq(Slot), Len(list) <= RoomMax,
           link[s] = "up" => Ids(list) \subseteq rooms,
           ~failed'[s] => start[s] \subseteq Ids(list) \cup ToSet(Tail(keys[s])) \cup cursor[s].due,
           RoomDone(s, list)
    PROVE  Goes(s)
<1> DEFINE rest == Tail(keys[s])
<1>1. /\ TypeOK /\ req[s] \in RoomsRequest /\ keys[s] # <<>>
      /\ link[s] = "up" => ToSet(keys[s]) \subseteq rooms
      /\ cursor[s].done => cursor[s].due = {}
  BY DEF ListingInv, HandlerInv, Placed, Grounded, Covered
<1>2. /\ keys[s] \in Seq(Rooms \cup Users)
      /\ cursor[s] \in [done : BOOLEAN, due : SUBSET (Rooms \cup Users)]
      /\ cursor = [cursor EXCEPT ![s] = cursor[s]]
      /\ pc = [pc EXCEPT ![s] = pc[s]]
  BY <1>1, LocalTypes
<1>3. rest \in Seq(Rooms \cup Users) /\ ToSet(rest) \subseteq ToSet(keys[s])
  BY <1>1, <1>2, HeadTailSet
<1>4. Len(list) \in Nat /\ <<>> \in Seq(Rooms \cup Users)
  BY LenProperties
<1>5. /\ ~failed'[s] => start[s] \subseteq Ids(list) \cup ToSet(rest) \cup cursor[s].due
      /\ rest = <<>> => ToSet(rest) = {}
  BY EmptySets
<1>6. \/ /\ Len(list) < RoomMax /\ rest # <<>>
         /\ keys' = [keys EXCEPT ![s] = rest] /\ found' = [found EXCEPT ![s] = list]
         /\ UNCHANGED <<pc, req, rsp, cursor, body>>
      \/ /\ ~cursor[s].done /\ Len(list) < RoomMax /\ rest = <<>>
         /\ GoTo(s, "scan")
         /\ keys' = [keys EXCEPT ![s] = <<>>] /\ found' = [found EXCEPT ![s] = list]
         /\ UNCHANGED <<cursor, body>>
      \/ /\ AnswerList(s, list)
         /\ Len(list) = RoomMax \/ (rest = <<>> /\ cursor[s].done)
  BY <1>4, LimitAssumption DEF RoomDone, ScansOn
<1> HIDE DEF rest
<1>7. CASE /\ Len(list) < RoomMax /\ rest # <<>>
           /\ keys' = [keys EXCEPT ![s] = rest] /\ found' = [found EXCEPT ![s] = list]
           /\ UNCHANGED <<pc, req, rsp, cursor, body>>
  <2>1. ASSUME pc'[s] = "room_get" /\ req'[s] = req[s] /\ rsp'[s] = "none" /\ keys'[s] = rest
                /\ cursor'[s] = cursor[s] /\ found'[s] = list /\ start'[s] = start[s]
                /\ UNCHANGED store
        PROVE  HandlerInv(s)'
    <3>1. Placed(s)'
      BY <1>1, <1>7, <2>1 DEF Placed
    <3>2. Grounded(s)'
      BY <1>1, <1>3, <2>1 DEF Grounded, store, Executes
    <3>3. Covered(s)'
      BY <1>1, <1>5, <2>1 DEF Covered
    <3> QED
      BY <3>1, <3>2, <3>3 DEF HandlerInv
  <2>2. pc' = [pc EXCEPT ![s] = "room_get"] /\ cursor' = [cursor EXCEPT ![s] = cursor[s]]
    BY <1>2, <1>7
  <2> QED
    BY <1>2, <1>3, <1>7, <2>1, <2>2, MoveGoes DEF Step
<1>8. CASE /\ ~cursor[s].done /\ Len(list) < RoomMax /\ rest = <<>>
           /\ GoTo(s, "scan")
           /\ keys' = [keys EXCEPT ![s] = <<>>] /\ found' = [found EXCEPT ![s] = list]
           /\ UNCHANGED <<cursor, body>>
  <2>1. ASSUME pc'[s] = "scan" /\ req'[s] = req[s] /\ rsp'[s] = "none" /\ keys'[s] = <<>>
                /\ cursor'[s] = cursor[s] /\ found'[s] = list /\ start'[s] = start[s]
                /\ UNCHANGED store
        PROVE  HandlerInv(s)'
    <3>1. Placed(s)'
      BY <1>1, <1>8, <2>1 DEF Placed
    <3>2. Grounded(s)'
      BY <2>1 DEF Grounded, store, Executes
    <3>3. Covered(s)'
      BY <1>1, <1>5, <1>8, <2>1 DEF Covered
    <3> QED
      BY <3>1, <3>2, <3>3 DEF HandlerInv
  <2>2. cursor' = [cursor EXCEPT ![s] = cursor[s]]
    BY <1>2, <1>8
  <2>3. pc' = [pc EXCEPT ![s] = "scan"] /\ UNCHANGED <<req, rsp, body>>
    BY <1>8 DEF GoTo
  <2> QED
    BY <1>2, <1>4, <1>8, <2>1, <2>2, <2>3, MoveGoes DEF Step
<1>9. CASE /\ AnswerList(s, list)
           /\ Len(list) = RoomMax \/ (rest = <<>> /\ cursor[s].done)
  <2>1. ~failed'[s] => start[s] \subseteq Ids(list) \/ Len(list) = RoomMax
    BY <1>1, <1>5, <1>9
  <2> QED
    BY <1>9, <2>1, AnswerListGoes
<1> QED
  BY <1>6, <1>7, <1>8, <1>9

LEMMA RoomGetGoes == ASSUME ListingInv, NEW s \in Servers, RoomGet(s) PROVE Goes(s)
<1> DEFINE id == Head(keys[s])
           slot == [id |-> id, bare |-> FALSE]
           hit == Append(found[s], slot)
<1>1. PICK o \in Outcomes(link[s]) :
          /\ link' = [link EXCEPT ![s] = LinkAfter(o)]
          /\ failed' = [failed EXCEPT ![s] = @ \/ o # "reply"]
          /\ \/ o = "reply" /\ id \in rooms /\ RoomDone(s, hit)
             \/ (o = "reply" => id \notin rooms) /\ RoomDone(s, found[s])
  BY DEF RoomGet, Command, AfterMiss
<1>2. UNCHANGED <<store, start>> /\ pc[s] = "room_get" /\ TypeOK
  BY DEF RoomGet, ListingInv
<1>3. /\ Executes(s)
      /\ o = "reply" => link[s] = "up"
      /\ ~failed'[s] => ~failed[s] /\ o = "reply"
  BY <1>1, <1>2, CommandFacts DEF Executes
<1>4. keys[s] \in Seq(Rooms \cup Users) /\ found[s] \in Seq(Slot)
  BY <1>2, LocalTypes
<1>5. /\ keys[s] # <<>> /\ Len(found[s]) < RoomMax
      /\ link[s] = "up" => Ids(found[s]) \subseteq rooms /\ ToSet(keys[s]) \subseteq rooms
      /\ ~failed[s] => start[s] \subseteq Ids(found[s]) \cup ToSet(keys[s]) \cup cursor[s].due
  BY <1>2 DEF ListingInv, HandlerInv, Placed, Grounded, Covered
<1>6. id \in Rooms \cup Users /\ ToSet(keys[s]) = {id} \cup ToSet(Tail(keys[s]))
  BY <1>4, <1>5, HeadTailSet
<1>7. slot \in Slot /\ slot.id = id
  BY <1>6 DEF Slot
<1> HIDE DEF slot, id
<1>8. /\ hit \in Seq(Slot) /\ Len(hit) = Len(found[s]) + 1 /\ Len(found[s]) \in Nat
      /\ Ids(hit) = Ids(found[s]) \cup {id}
  BY <1>4, <1>7, AppendIds
<1> HIDE DEF hit
<1>9. CASE o = "reply" /\ id \in rooms /\ RoomDone(s, hit)
  <2>1. link[s] = "up" => Ids(hit) \subseteq rooms
    BY <1>5, <1>8, <1>9
  <2>2. ~failed'[s] => start[s] \subseteq Ids(hit) \cup ToSet(Tail(keys[s])) \cup cursor[s].due
    BY <1>3, <1>5, <1>6, <1>8
  <2>3. Len(hit) <= RoomMax
    BY <1>5, <1>8, LimitAssumption
  <2> QED
    BY <1>2, <1>3, <1>8, <1>9, <2>1, <2>2, <2>3, RoomDoneGoes
<1>10. CASE (o = "reply" => id \notin rooms) /\ RoomDone(s, found[s])
  <2>1. failed'[s]
    BY <1>3, <1>5, <1>6, <1>10
  <2>2. Len(found[s]) <= RoomMax
    BY <1>5, <1>8, LimitAssumption
  <2> QED
    BY <1>2, <1>3, <1>4, <1>5, <1>10, <2>1, <2>2, RoomDoneGoes
<1> QED
  BY <1>1, <1>9, <1>10

LEMMA UserExistsGoes == ASSUME ListingInv, NEW s \in Servers, UserExists(s) PROVE Goes(s)
<1>1. PICK o \in Outcomes(link[s]) :
          /\ link' = [link EXCEPT ![s] = LinkAfter(o)]
          /\ failed' = [failed EXCEPT ![s] = @ \/ o # "reply"]
          /\ \/ GoTo(s, "friend_list") /\ UNCHANGED <<local, body>>
             \/ \E code \in {"USER_NOT_FOUND", "SERVER_ERROR"} : Fail(s, code)
  BY DEF UserExists, Command
<1>2. UNCHANGED <<store, start>> /\ pc[s] = "user_exists" /\ TypeOK
  BY DEF UserExists, ListingInv
<1>3. Executes(s)
  BY <1>1, <1>2, CommandFacts
<1>4. /\ req[s] \in FriendsRequest /\ found[s] = <<>>
      /\ link[s] = "up" => start[s] \subseteq friends[req[s].user]
      /\ cursor[s].done => cursor[s].due = {}
  BY <1>2 DEF ListingInv, HandlerInv, Placed, Grounded, Covered
<1>5. CASE GoTo(s, "friend_list") /\ UNCHANGED <<local, body>>
  <2>1. ASSUME pc'[s] = "friend_list" /\ req'[s] = req[s] /\ rsp'[s] = "none"
                /\ cursor'[s] = cursor[s] /\ found'[s] = found[s] /\ start'[s] = start[s]
                /\ UNCHANGED store
        PROVE  HandlerInv(s)'
    <3>1. Placed(s)'
      BY <1>4, <2>1 DEF Placed
    <3>2. Grounded(s)'
      BY <1>3, <1>4, <2>1 DEF Grounded, store, Executes
    <3>3. Covered(s)'
      BY <1>4, <2>1 DEF Covered
    <3> QED
      BY <3>1, <3>2, <3>3 DEF HandlerInv
  <2>2. /\ keys[s] \in Seq(Rooms \cup Users) /\ keys' = [keys EXCEPT ![s] = keys[s]]
        /\ cursor[s] \in [done : BOOLEAN, due : SUBSET (Rooms \cup Users)]
        /\ cursor' = [cursor EXCEPT ![s] = cursor[s]]
        /\ found[s] \in Seq(Slot) /\ found' = [found EXCEPT ![s] = found[s]]
        /\ pc' = [pc EXCEPT ![s] = "friend_list"] /\ UNCHANGED <<req, rsp, body>>
    BY <1>2, <1>5, LocalTypes DEF GoTo, local
  <2>3. Len(found[s]) = 0 /\ Len(found[s]) <= RoomMax
    BY <1>4, LimitAssumption
  <2>4. "friend_list" \in Step \ {"idle"} /\ pc[s] # "idle" /\ "friend_list" # "friend_get"
    BY <1>2 DEF Step
  <2> QED
    BY <1>3, <2>1, <2>2, <2>3, <2>4, MoveGoes
<1>6. ASSUME NEW code \in {"USER_NOT_FOUND", "SERVER_ERROR"}, Fail(s, code)
      PROVE  Goes(s)
  BY <1>3, <1>6, FailGoes DEF Answer
<1> QED
  BY <1>1, <1>5, <1>6

LEMMA FriendListGoes == ASSUME ListingInv, NEW s \in Servers, FriendList(s) PROVE Goes(s)
<1> DEFINE mine == friends[req[s].user]
<1>1. PICK o \in Outcomes(link[s]) :
          /\ link' = [link EXCEPT ![s] = LinkAfter(o)]
          /\ failed' = [failed EXCEPT ![s] = @ \/ o # "reply"]
          /\ \/ /\ o = "reply"
                /\ \E order \in SetToAllKPermutations(mine) :
                      /\ ToSet(order) = mine
                      /\ \/ order = <<>> /\ AnswerList(s, <<>>)
                         \/ /\ order # <<>>
                            /\ keys' = [keys EXCEPT ![s] = order]
                            /\ GoTo(s, "friend_get")
                            /\ UNCHANGED <<cursor, found, body>>
             \/ Fail(s, "SERVER_ERROR")
  BY DEF FriendList, Command
<1>2. UNCHANGED <<store, start>> /\ pc[s] = "friend_list" /\ TypeOK
  BY DEF FriendList, ListingInv
<1>3. Executes(s) /\ (o = "reply" => link[s] = "up")
  BY <1>1, <1>2, CommandFacts
<1>4. /\ req[s] \in FriendsRequest /\ found[s] = <<>>
      /\ link[s] = "up" => start[s] \subseteq mine
      /\ cursor[s].done => cursor[s].due = {}
  BY <1>2 DEF ListingInv, HandlerInv, Placed, Grounded, Covered
<1>5. mine \subseteq Users /\ IsFiniteSet(mine)
  <2>1. mine \subseteq Users
    BY <1>2, <1>4 DEF FriendsRequest, TypeOK
  <2> QED
    BY <2>1, LimitAssumption, FS_Subset
<1>6. CASE Fail(s, "SERVER_ERROR")
  BY <1>3, <1>6, FailGoes DEF Answer
<1>7. ASSUME o = "reply", NEW order \in SetToAllKPermutations(mine), ToSet(order) = mine,
             order = <<>>, AnswerList(s, <<>>)
      PROVE  Goes(s)
  <2>1. <<>> \in Seq(Slot) /\ pc[s] \notin {"scan", "room_get"} /\ start[s] \subseteq Ids(<<>>)
    BY <1>2, <1>3, <1>4, <1>7, EmptySets
  <2>2. AnswerList(s, <<>>)
    BY <1>7
  <2> HIDE DEF mine
  <2> QED
    BY <1>3, <2>1, <2>2, AnswerListGoes
<1>8. ASSUME o = "reply", NEW order \in SetToAllKPermutations(mine), ToSet(order) = mine,
             order # <<>>, keys' = [keys EXCEPT ![s] = order], GoTo(s, "friend_get"),
             UNCHANGED <<cursor, found, body>>
      PROVE  Goes(s)
  <2>1. order \in Seq(Rooms \cup Users)
    <3>1. order \in Seq(mine)
      BY <1>5, OrderFacts
    <3> QED
      BY <1>5, <3>1, SeqMonotonic
  <2>2. ASSUME pc'[s] = "friend_get" /\ req'[s] = req[s] /\ rsp'[s] = "none"
                /\ keys'[s] = order
                /\ cursor'[s] = cursor[s] /\ found'[s] = found[s] /\ start'[s] = start[s]
                /\ UNCHANGED store
        PROVE  HandlerInv(s)'
    <3>1. /\ Len(found'[s]) = 0 /\ Ids(found'[s]) = {} /\ WithFields(found'[s]) = {}
          /\ mine' = mine
      BY <1>4, <2>2, EmptySets DEF store
    <3>2. Placed(s)'
      BY <1>4, <1>8, <2>2, <3>1, LimitAssumption DEF Placed
    <3>3. Grounded(s)'
      BY <1>8, <2>2, <3>1 DEF Grounded
    <3>4. Covered(s)'
      BY <1>3, <1>4, <1>8, <2>2 DEF Covered
    <3> QED
      BY <3>2, <3>3, <3>4 DEF HandlerInv
  <2>3. /\ cursor[s] \in [done : BOOLEAN, due : SUBSET (Rooms \cup Users)]
        /\ cursor' = [cursor EXCEPT ![s] = cursor[s]]
        /\ found[s] \in Seq(Slot) /\ found' = [found EXCEPT ![s] = found[s]]
        /\ pc' = [pc EXCEPT ![s] = "friend_get"] /\ UNCHANGED <<req, rsp, body>>
    BY <1>2, <1>8, LocalTypes DEF GoTo
  <2>4. Len(found[s]) = 0 /\ Len(found[s]) <= FriendMax
    BY <1>4, LimitAssumption
  <2>5. "friend_get" \in Step \ {"idle"} /\ pc[s] # "idle"
    BY <1>2 DEF Step
  <2>6. keys' = [keys EXCEPT ![s] = order]
    BY <1>8
  <2> HIDE DEF mine
  <2> QED
    BY <1>3, <2>1, <2>2, <2>3, <2>4, <2>5, <2>6, MoveGoes
<1> QED
  BY <1>1, <1>6, <1>7, <1>8

LEMMA FriendGetGoes == ASSUME ListingInv, NEW s \in Servers, FriendGet(s) PROVE Goes(s)
<1> DEFINE id == Head(keys[s])
           rest == Tail(keys[s])
           mine == friends[req[s].user]
<1>1. PICK o \in Outcomes(link[s]) :
          /\ link' = [link EXCEPT ![s] = LinkAfter(o)]
          /\ failed' = [failed EXCEPT ![s] = @ \/ o # "reply"]
          /\ \/ FriendDone(s, AddFriend(found[s], id, id \in registered))
             \/ FriendDone(s, AddFriend(found[s], id, FALSE))
  BY DEF FriendGet, Command
<1>hit. PICK hit \in BOOLEAN : /\ hit => id \in registered
                            /\ FriendDone(s, AddFriend(found[s], id, hit))
  <2>1. (id \in registered) \in BOOLEAN /\ FALSE \in BOOLEAN
    OBVIOUS
  <2> HIDE DEF id
  <2> QED
    BY <1>1, <2>1
<1> DEFINE slot == [id |-> id, bare |-> ~hit]
           list == Append(found[s], slot)
<1>2. UNCHANGED <<store, start>> /\ pc[s] = "friend_get" /\ TypeOK
  BY DEF FriendGet, ListingInv
<1>3. Executes(s)
  BY <1>1, <1>2, CommandFacts
<1>4. /\ keys[s] \in Seq(Rooms \cup Users) /\ found[s] \in Seq(Slot)
      /\ cursor[s] \in [done : BOOLEAN, due : SUBSET (Rooms \cup Users)]
      /\ cursor = [cursor EXCEPT ![s] = cursor[s]] /\ pc = [pc EXCEPT ![s] = pc[s]]
  BY <1>2, LocalTypes
<1>5. /\ req[s] \in FriendsRequest /\ keys[s] # <<>> /\ Len(found[s]) < FriendMax
      /\ link[s] = "up" => /\ Ids(found[s]) \subseteq mine /\ ToSet(keys[s]) \subseteq mine
                           /\ WithFields(found[s]) \subseteq registered
      /\ cursor[s].done => cursor[s].due = {}
      /\ start[s] \subseteq Ids(found[s]) \cup ToSet(keys[s])
  BY <1>2 DEF ListingInv, HandlerInv, Placed, Grounded, Covered
<1>6. /\ id \in Rooms \cup Users /\ rest \in Seq(Rooms \cup Users)
      /\ ToSet(keys[s]) = {id} \cup ToSet(rest)
  BY <1>4, <1>5, HeadTailSet
<1>7. slot \in Slot /\ slot.id = id /\ (~slot.bare => id \in registered)
  BY <1>hit, <1>6 DEF Slot
<1>8. FriendDone(s, list)
  BY <1>hit DEF AddFriend
<1> HIDE DEF slot, id
<1>9. /\ list \in Seq(Slot) /\ Len(list) = Len(found[s]) + 1 /\ Len(found[s]) \in Nat
      /\ Ids(list) = Ids(found[s]) \cup {id}
      /\ WithFields(list) \subseteq WithFields(found[s]) \cup (IF slot.bare THEN {} ELSE {id})
  BY <1>4, <1>7, AppendIds
<1> HIDE DEF list
<1>10. /\ Len(list) \in Nat /\ Len(list) <= FriendMax
       /\ link[s] = "up" => /\ Ids(list) \subseteq mine /\ ToSet(rest) \subseteq mine
                            /\ WithFields(list) \subseteq registered
       /\ start[s] \subseteq Ids(list) \cup ToSet(rest)
       /\ rest = <<>> => ToSet(rest) = {}
  <2>1. Len(list) \in Nat /\ Len(list) <= FriendMax
    BY <1>5, <1>9, LimitAssumption
  <2>2. rest = <<>> => ToSet(rest) = {}
    BY EmptySets
  <2> HIDE DEF mine, rest
  <2>3. start[s] \subseteq Ids(list) \cup ToSet(rest)
    BY <1>5, <1>6, <1>9
  <2>4. link[s] = "up" => Ids(list) \subseteq mine /\ ToSet(rest) \subseteq mine
    BY <1>5, <1>6, <1>9
  <2>5. link[s] = "up" => WithFields(list) \subseteq registered
    BY <1>5, <1>7, <1>9
  <2> QED
    BY <2>1, <2>2, <2>3, <2>4, <2>5
<1>11. \/ /\ Len(list) < FriendMax /\ rest # <<>>
          /\ keys' = [keys EXCEPT ![s] = rest] /\ found' = [found EXCEPT ![s] = list]
          /\ UNCHANGED <<pc, req, rsp, cursor, body>>
       \/ AnswerList(s, list) /\ (Len(list) = FriendMax \/ rest = <<>>)
  BY <1>8, <1>10, LimitAssumption DEF FriendDone
<1> HIDE DEF rest
<1>12. CASE /\ Len(list) < FriendMax /\ rest # <<>>
            /\ keys' = [keys EXCEPT ![s] = rest] /\ found' = [found EXCEPT ![s] = list]
            /\ UNCHANGED <<pc, req, rsp, cursor, body>>
  <2>1. ASSUME pc'[s] = "friend_get" /\ req'[s] = req[s] /\ rsp'[s] = "none"
                /\ keys'[s] = rest
                /\ cursor'[s] = cursor[s] /\ found'[s] = list /\ start'[s] = start[s]
                /\ UNCHANGED store
        PROVE  HandlerInv(s)'
    <3>1. Placed(s)'
      BY <1>5, <1>12, <2>1 DEF Placed
    <3>2. mine' = mine /\ registered' = registered
      BY <2>1 DEF store
    <3>3. Grounded(s)'
      BY <1>3, <1>10, <2>1, <3>2 DEF Grounded, Executes
    <3>4. Covered(s)'
      BY <1>5, <1>10, <2>1 DEF Covered
    <3> QED
      BY <3>1, <3>3, <3>4 DEF HandlerInv
  <2>2. /\ pc' = [pc EXCEPT ![s] = "friend_get"]
        /\ cursor' = [cursor EXCEPT ![s] = cursor[s]]
    BY <1>2, <1>4, <1>12
  <2>3. "friend_get" \in Step \ {"idle"} /\ pc[s] # "idle"
    BY <1>2 DEF Step
  <2> HIDE DEF mine
  <2> QED
    BY <1>3, <1>4, <1>6, <1>9, <1>10, <1>12, <2>1, <2>2, <2>3, MoveGoes DEF rest
<1>13. CASE AnswerList(s, list) /\ (Len(list) = FriendMax \/ rest = <<>>)
  <2>1. start[s] \subseteq Ids(list) \/ Len(list) = FriendMax
    BY <1>10, <1>13
  <2> QED
    BY <1>2, <1>3, <1>9, <1>13, <2>1, AnswerListGoes
<1> QED
  BY <1>11, <1>12, <1>13

LEMMA ServerGoes == ASSUME ListingInv, NEW s \in Servers, ServerStep(s) PROVE Goes(s)
BY RoomsReceiveGoes, FriendsReceiveGoes, RefuseGoes, RestartGoes, ScanGoes, RoomGetGoes,
   UserExistsGoes, FriendListGoes, FriendGetGoes DEF ServerStep

-----------------------------------------------------------------------------
\* What others do: the sets grow, or shrink with every connection gone.
OthersStep == \/ \E r \in Rooms : CreateRoom(r)
              \/ \E u \in Users : Register(u)
              \/ \E u \in Askers : \E v \in Users \ {u} : Befriend(u, v)
              \/ RedisRestart

\* The sets a handler's ids come from do not shrink under a connection that holds.
Grows ==
    /\ UNCHANGED <<pc, req, rsp, local, history>>
    /\ rooms' \subseteq Rooms /\ registered' \subseteq Users
    /\ friends' \in [Askers -> SUBSET Users]
    /\ link' \in [Servers -> LinkState]
    /\ \A s \in Servers : link'[s] = "up" =>
          /\ link[s] = "up" /\ rooms \subseteq rooms' /\ registered \subseteq registered'
          /\ \A u \in Askers : friends[u] \subseteq friends'[u]

LEMMA OthersGrow == ASSUME TypeOK, OthersStep PROVE Grows
<1>1. ASSUME NEW r \in Rooms, CreateRoom(r)
      PROVE  Grows
  BY <1>1 DEF CreateRoom, handlerVars, TypeOK, Grows
<1>2. ASSUME NEW u \in Users, Register(u)
      PROVE  Grows
  BY <1>2 DEF Register, handlerVars, TypeOK, Grows
<1>3. ASSUME NEW u \in Askers, NEW v \in Users \ {u}, Befriend(u, v)
      PROVE  Grows
  BY <1>3 DEF Befriend, handlerVars, TypeOK, Grows
<1>4. CASE RedisRestart
  BY <1>4 DEF RedisRestart, DropLinks, NoFriends, LinkState, TypeOK, Grows
<1> QED
  BY <1>1, <1>2, <1>3, <1>4 DEF OthersStep

LEMMA OthersKeep == ASSUME ListingInv, OthersStep PROVE ListingInv'
<1>1. TypeOK /\ Grows
  BY OthersGrow DEF ListingInv
<1>2. /\ UNCHANGED <<pc, req, rsp, keys, cursor, found, body, start, failed>>
      /\ \A s \in Servers : link'[s] = "up" =>
            /\ link[s] = "up" /\ rooms \subseteq rooms' /\ registered \subseteq registered'
            /\ \A u \in Askers : friends[u] \subseteq friends'[u]
  BY <1>1 DEF Grows, local, history
<1>3. TypeOK'
  BY <1>1, <1>2 DEF Grows, TypeOK
<1>4. ASSUME NEW s \in Servers
      PROVE  HandlerInv(s)'
  <2>1. HandlerInv(s)
    BY DEF ListingInv
  <2>2. Placed(s)'
    BY <1>2, <2>1 DEF HandlerInv, Placed
  <2>3. Covered(s)'
    BY <1>2, <2>1 DEF HandlerInv, Covered
  <2>4. Grounded(s)'
    <3> SUFFICES ASSUME link'[s] = "up" PROVE Grounded(s)'
      BY DEF Grounded
    <3>1. req[s] \in FriendsRequest => friends[req[s].user] \subseteq friends'[req[s].user]
      BY <1>2 DEF FriendsRequest
    <3>2. pc[s] \in {"user_exists", "friend_list", "friend_get"} => req[s] \in FriendsRequest
      BY <2>1 DEF HandlerInv, Placed
    <3>3. /\ link[s] = "up" /\ rooms \subseteq rooms' /\ registered \subseteq registered'
          /\ Grounded(s)
      BY <1>2, <2>1 DEF HandlerInv
    <3> QED
      BY <1>2, <3>1, <3>2, <3>3 DEF Grounded
  <2> QED
    BY <2>2, <2>3, <2>4 DEF HandlerInv
<1> QED
  BY <1>3, <1>4 DEF ListingInv

-----------------------------------------------------------------------------
\* The invariant.

LEMMA ListingInit == Init => ListingInv
<1> SUFFICES ASSUME Init PROVE ListingInv
  OBVIOUS
<1> USE DEF Init, HandlerInit
<1>1. /\ <<>> \in Seq(Slot) /\ <<>> \in Seq(Rooms \cup Users) /\ Len(<<>>) = 0
      /\ NoCursor \in [done : BOOLEAN, due : SUBSET (Rooms \cup Users)]
      /\ NoBody \in [list : Seq(Slot), cut : BOOLEAN]
      /\ "idle" \in Step /\ "none" \in Answer
  BY DEF NoCursor, NoBody, Step, Answer
<1>2. VarsTyped
  BY <1>1 DEF VarsTyped, NoFriends
<1>3. \A s \in Servers : Len(found[s]) <= Slots(s)
  BY <1>1, LimitAssumption DEF Slots
<1>4. TypeOK
  BY <1>2, <1>3, TypeParts
<1>5. \A s \in Servers : HandlerInv(s)
  BY DEF HandlerInv, Placed, Grounded, Covered, NoCursor
<1> QED
  BY <1>4, <1>5 DEF ListingInv

LEMMA ListingStep == ListingInv /\ [Next]_vars => ListingInv'
<1> SUFFICES ASSUME ListingInv, [Next]_vars PROVE ListingInv'
  OBVIOUS
<1>1. ASSUME NEW s \in Servers, ServerStep(s)
      PROVE  ListingInv'
  <2>1. Goes(s)
    BY <1>1, ServerGoes
  <2>2. ASSUME NEW t \in Servers \ {s}
        PROVE  HandlerInv(t)'
    <3>1. HandlerInv(t)
      BY DEF ListingInv
    <3>2. UNCHANGED <<rooms, registered, friends>>
      BY <2>1 DEF Goes, store
    <3>3. /\ link'[t] = link[t] /\ pc'[t] = pc[t] /\ req'[t] = req[t] /\ rsp'[t] = rsp[t]
          /\ keys'[t] = keys[t] /\ cursor'[t] = cursor[t] /\ found'[t] = found[t]
          /\ start'[t] = start[t] /\ failed'[t] = failed[t]
      BY <2>1 DEF Goes, Elsewhere
    <3> QED
      BY <3>1, <3>2, <3>3 DEF HandlerInv, Placed, Grounded, Covered
  <2> QED
    BY <2>1, <2>2 DEF Goes, ListingInv
<1>2. CASE UNCHANGED vars
  BY <1>2 DEF vars, handlerVars, store, local, history, ListingInv, TypeOK, HandlerInv,
              Placed, Grounded, Covered
<1> QED
  BY <1>1, <1>2, OthersKeep DEF Next, OthersStep

THEOREM ListingInvariant == Spec => []ListingInv
BY ListingInit, ListingStep, PTL DEF Spec

\* Every variable keeps its type, and no handler fills a slot it does not have,
\* however the requests, the failures and the other servers interleave.
THEOREM ListingTypeCorrect == Spec => []TypeOK
<1>1. ListingInv => TypeOK
  BY DEF ListingInv
<1> QED
  BY <1>1, ListingInvariant, PTL

\* While its connection holds, a handler has found only rooms that are stored, friends
\* the user has, and fields of registered users (redis_room_list, redis_friend_list).
THEOREM FoundStoredHolds == Spec => []FoundStored
<1>1. ASSUME ListingInv
      PROVE  FoundStored
  <2> SUFFICES ASSUME NEW s \in Servers, link[s] = "up", req[s] # None
               PROVE  IF req[s].op = "rooms" THEN Ids(found[s]) \subseteq rooms
                      ELSE /\ Ids(found[s]) \subseteq friends[req[s].user]
                           /\ WithFields(found[s]) \subseteq registered
    BY DEF FoundStored
  <2>1. Placed(s) /\ Grounded(s) /\ pc[s] \in Step
    BY <1>1 DEF ListingInv, HandlerInv, TypeOK
  <2>2. CASE pc[s] \in {"idle", "user_exists", "friend_list"}
    BY <2>1, <2>2, EmptySets DEF Placed
  <2>3. CASE pc[s] \in {"scan", "room_get"}
    BY <2>1, <2>3 DEF Placed, Grounded, RoomsRequest
  <2>4. CASE pc[s] = "friend_get"
    BY <2>1, <2>4 DEF Placed, Grounded, FriendsRequest
  <2> QED
    BY <2>1, <2>2, <2>3, <2>4 DEF Step
<1> QED
  BY <1>1, ListingInvariant, PTL

\* A step answers for no handler but its own.
LEMMA WholeStep ==
    ASSUME ListingInv, [Next]_vars, NEW t \in Servers
    PROVE  RoomsWhole(t) /\ FriendsWhole(t)
<1>1. CASE rsp'[t] = rsp[t]
  BY <1>1 DEF ListingInv, HandlerInv, Placed, RoomsWhole, FriendsWhole
<1>2. ASSUME NEW s \in Servers, ServerStep(s), rsp'[t] # rsp[t]
      PROVE  RoomsWhole(t) /\ FriendsWhole(t)
  <2>1. Goes(s)
    BY <1>2, ServerGoes
  <2>2. t = s
    BY <1>2, <2>1 DEF Goes, Elsewhere
  <2> QED
    BY <2>1, <2>2 DEF Goes
<1>3. OthersStep => rsp' = rsp
  BY OthersGrow DEF ListingInv, Grows
<1>4. UNCHANGED vars => rsp' = rsp
  BY DEF vars, handlerVars
<1> QED
  BY <1>1, <1>2, <1>3, <1>4 DEF Next, OthersStep

\* A room listing names every room stored when it began, unless a lookup failed, its
\* slots ran out, or its body was cut because no more fitted (redis_room_list).
THEOREM RoomsCompleteHolds == Spec => RoomsComplete
<1>1. ListingInv /\ [Next]_vars =>
        [\A s \in Servers :
          pc[s] \in {"scan", "room_get"} /\ rsp'[s] = "SUCCESS" /\ ~failed'[s]
          => Names(start[s], body'[s], RoomMax)]_vars
  BY WholeStep DEF RoomsWhole
<1> QED
  BY <1>1, ListingInvariant, PTL DEF Spec, RoomsComplete

\* A friend listing names every friend the user had when it began, whatever failed,
\* unless its slots ran out, or its body was cut because no more fitted
\* (redis_friend_list).
THEOREM FriendsCompleteHolds == Spec => FriendsComplete
<1>1. ListingInv /\ [Next]_vars =>
        [\A s \in Servers :
          pc[s] \in {"friend_list", "friend_get"} /\ rsp'[s] = "SUCCESS"
          => Names(start[s], body'[s], FriendMax)]_vars
  BY WholeStep DEF FriendsWhole
<1> QED
  BY <1>1, ListingInvariant, PTL DEF Spec, FriendsComplete
=============================================================================
