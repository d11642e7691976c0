--------------------------- MODULE ZtClientProofs ---------------------------
(***************************************************************************)
(* Proofs about ZtClient, for any lines a user may type, any commands and  *)
(* any limits.                                                             *)
(*                                                                         *)
(* The order of the answers follows a request's number from the list of    *)
(* those unread (up) to the answers on their way (down) and those printed  *)
(* (shown): the numbers rise along the three lists, and a request that was *)
(* written while nothing was unread stays at the head of the first until   *)
(* it is answered.                                                         *)
(*                                                                         *)
(* What the server binds follows the text: an alphabet that holds the      *)
(* lines typed holds all that is kept and sent, so that a key which is no  *)
(* word stands in a body once, where the client put it, and the first      *)
(* place the server finds is that one.  A user id also travels in an       *)
(* address, where blanks and ampersands end it: it is always read from the *)
(* user, never from the rest of an earlier line.  A body is joined by      *)
(* a recursive function; what is shown of it by induction is shown here by *)
(* the least number at which it would fail.                                *)
(***************************************************************************)
EXTENDS ZtClient, SequenceTheorems, FiniteSetTheorems, WellFoundedInduction, TLAPS

-----------------------------------------------------------------------------
\* Texts that are joined from parts.

\* A property of numbers that fails somewhere fails first at some number: this stands
\* for induction along a text's parts.
Less == {pair \in Nat \X Nat : pair[1] < pair[2]}

LEMMA LeastNumber ==
    ASSUME NEW T, T \subseteq Nat, T # {}
    PROVE  \E m \in T : \A k \in T : m <= k
<1>1. IsWellFoundedOn(Less, Nat)
  BY NatLessThanWellFounded DEF OpToRel, Less
<1>2. \E m \in T : \A k \in T : ~ (<<k, m>> \in Less)
  BY <1>1, WFMin
<1>3. ASSUME NEW m \in T, NEW k \in T, k < m
      PROVE  <<k, m>> \in Less
  BY <1>3 DEF Less
<1>4. \A m, k \in T : <<k, m>> \notin Less => m <= k
  BY <1>3
<1> QED
  BY <1>2, <1>4

\* The function that FlattenSeq defines for the first n parts.
Joins(parts, n, g) ==
    g = [i \in 1 .. n |-> IF i = 1 THEN parts[i] ELSE g[i-1] \o parts[i]]

LEMMA JoinsExist ==
    ASSUME NEW parts, NEW n \in Nat
    PROVE  \E g : Joins(parts, n, g)
<1> DEFINE Without == {k \in Nat : ~ \E g : Joins(parts, k, g)}
<1> SUFFICES ASSUME Without # {}
             PROVE  FALSE
  OBVIOUS
<1>1. PICK m \in Without : \A k \in Without : m <= k
  BY LeastNumber
<1>2. m # 0
  <2>1. Joins(parts, 0, [i \in 1 .. 0 |-> 0])
    BY DEF Joins
  <2> QED
    BY <2>1
<1>3. m - 1 \in Nat /\ ~(m <= m - 1)
  BY <1>2
<1>4. PICK g : Joins(parts, m - 1, g)
  BY <1>1, <1>3
<1> DEFINE h == [i \in 1 .. m |-> IF i = 1 THEN parts[i] ELSE g[i-1] \o parts[i]]
<1>5. \A i \in 1 .. m - 1 : h[i] = g[i]
  <2>1. \A i \in 1 .. m - 1 :
            g[i] = IF i = 1 THEN parts[i] ELSE g[i-1] \o parts[i]
    BY <1>4 DEF Joins
  <2>2. \A i \in 1 .. m - 1 : i \in 1 .. m
    OBVIOUS
  <2> QED
    BY <2>1, <2>2
<1>6. Joins(parts, m, h)
  <2>1. \A i \in 1 .. m : i # 1 => i - 1 \in 1 .. m - 1
    BY <1>3
  <2>2. \A i \in 1 .. m : i # 1 => h[i-1] = g[i-1]
    BY <1>5, <2>1
  <2>3. h = [i \in 1 .. m |-> IF i = 1 THEN parts[i] ELSE h[i-1] \o parts[i]]
    BY <2>2
  <2> HIDE DEF h
  <2> QED
    BY <2>3 DEF Joins
<1> QED
  BY <1>1, <1>6

LEMMA FlattenIs ==
    ASSUME NEW parts, Len(parts) \in Nat \ {0}
    PROVE  \E g : /\ FlattenSeq(parts) = g[Len(parts)]
                  /\ g[1] = parts[1]
                  /\ \A i \in 2 .. Len(parts) : g[i] = g[i-1] \o parts[i]
<1>1. PICK g : Joins(parts, Len(parts), g) /\ FlattenSeq(parts) = g[Len(parts)]
  BY JoinsExist DEF FlattenSeq, Joins
<1>2. g[1] = parts[1]
  BY <1>1 DEF Joins
<1>3. \A i \in 2 .. Len(parts) : i \in 1 .. Len(parts) /\ i # 1
  OBVIOUS
<1>4. \A i \in 2 .. Len(parts) : g[i] = g[i-1] \o parts[i]
  BY <1>1, <1>3 DEF Joins
<1> QED
  BY <1>1, <1>2, <1>4

\* Parts that are all over an alphabet make a text over it.
LEMMA JoinsTyped ==
    ASSUME NEW S, NEW parts, NEW n \in Nat, NEW g,
           \A i \in 1 .. n : parts[i] \in Seq(S),
           n # 0 => g[1] = parts[1],
           \A i \in 2 .. n : g[i] = g[i-1] \o parts[i]
    PROVE  \A i \in 1 .. n : g[i] \in Seq(S)
<1> DEFINE Bad == {k \in 1 .. n : g[k] \notin Seq(S)}
<1> SUFFICES ASSUME Bad # {}
             PROVE  FALSE
  OBVIOUS
<1>1. PICK m \in Bad : \A k \in Bad : m <= k
  <2>1. Bad \subseteq Nat
    OBVIOUS
  <2> QED
    BY <2>1, LeastNumber
<1>2. m # 1
  OBVIOUS
<1>3. m \in 2 .. n /\ m - 1 \in 1 .. n /\ ~(m <= m - 1)
  BY <1>2
<1>4. g[m - 1] \in Seq(S) /\ parts[m] \in Seq(S) /\ g[m] = g[m - 1] \o parts[m]
  BY <1>1, <1>3
<1>5. g[m] \in Seq(S)
  BY <1>4, ConcatProperties
<1> QED
  BY <1>1, <1>5

LEMMA FlattenTyped ==
    ASSUME NEW S, NEW parts \in Seq(Seq(S))
    PROVE  FlattenSeq(parts) \in Seq(S)
<1>1. Len(parts) \in Nat /\ \A i \in 1 .. Len(parts) : parts[i] \in Seq(S)
  BY LenProperties, ElementOfSeq
<1>2. CASE Len(parts) = 0
  BY <1>1, <1>2, EmptySeq DEF FlattenSeq
<1>3. CASE Len(parts) # 0
  <2>1. PICK g : /\ FlattenSeq(parts) = g[Len(parts)]
                 /\ g[1] = parts[1]
                 /\ \A i \in 2 .. Len(parts) : g[i] = g[i-1] \o parts[i]
    BY <1>1, <1>3, FlattenIs
  <2>2. \A i \in 1 .. Len(parts) : g[i] \in Seq(S)
    BY <1>1, <2>1, JoinsTyped
  <2> QED
    BY <1>1, <1>3, <2>1, <2>2
<1> QED
  BY <1>2, <1>3

\* A text that begins with another one.
Continues(S, whole, front) == \E rest \in Seq(S) : whole = front \o rest

LEMMA ContinuesItself ==
    ASSUME NEW S, NEW front \in Seq(S)
    PROVE  Continues(S, front, front)
<1>1. front = front \o <<>> /\ <<>> \in Seq(S)
  BY ConcatEmptySeq, EmptySeq
<1> QED
  BY <1>1 DEF Continues

LEMMA ContinuesMore ==
    ASSUME NEW S, NEW front \in Seq(S), NEW whole, NEW part \in Seq(S),
           Continues(S, whole, front)
    PROVE  Continues(S, whole \o part, front)
<1>1. PICK rest \in Seq(S) : whole = front \o rest
  BY DEF Continues
<1>2. (front \o rest) \o part = front \o (rest \o part)
  BY ConcatAssociative
<1>3. rest \o part \in Seq(S)
  BY ConcatProperties
<1> QED
  BY <1>1, <1>2, <1>3 DEF Continues

\* A text is what comes before a part, the part, and what comes behind.
Around(S, T, whole, part) == \E p \in Seq(T), r \in Seq(S) : whole = (p \o part) \o r

LEMMA FlattenSplit ==
    ASSUME NEW S, NEW T, NEW parts \in Seq(Seq(S)), NEW i \in 1 .. Len(parts),
           \A j \in 1 .. i - 1 : parts[j] \in Seq(T)
    PROVE  Around(S, T, FlattenSeq(parts), parts[i])
<1>1. Len(parts) \in Nat /\ \A j \in 1 .. Len(parts) : parts[j] \in Seq(S)
  BY LenProperties, ElementOfSeq
<1>2. Len(parts) # 0
  BY <1>1
<1>3. PICK g : /\ FlattenSeq(parts) = g[Len(parts)]
               /\ g[1] = parts[1]
               /\ \A j \in 2 .. Len(parts) : g[j] = g[j-1] \o parts[j]
  BY <1>1, <1>2, FlattenIs
<1>4. \A j \in 1 .. Len(parts) : g[j] \in Seq(S)
  BY <1>1, <1>3, JoinsTyped
<1>5. \E p \in Seq(T) : g[i] = p \o parts[i]
  <2>1. CASE i = 1
    <3>1. g[i] = <<>> \o parts[i]
      BY <1>1, <1>3, <2>1, ConcatEmptySeq
    <3> QED
      BY <3>1, EmptySeq
  <2>2. CASE i # 1
    <3>1. i \in 2 .. Len(parts) /\ i - 1 \in Nat /\ i - 1 \in 1 .. i - 1
      BY <1>1, <2>2
    <3>2. \A j \in 2 .. i - 1 : g[j] = g[j-1] \o parts[j]
      <4>1. \A j \in 2 .. i - 1 : j \in 2 .. Len(parts)
        BY <1>1
      <4> QED
        BY <1>3, <4>1
    <3>3. g[i - 1] \in Seq(T)
      <4>1. \A j \in 1 .. i - 1 : g[j] \in Seq(T)
        BY <1>3, <3>1, <3>2, JoinsTyped
      <4> QED
        BY <3>1, <4>1
    <3> QED
      BY <1>3, <3>1, <3>3
  <2> QED
    BY <2>1, <2>2
<1>6. \A k \in i .. Len(parts) : Continues(S, g[k], g[i])
  <2> DEFINE Bad == {k \in i .. Len(parts) : ~ Continues(S, g[k], g[i])}
  <2> SUFFICES ASSUME Bad # {}
               PROVE  FALSE
    OBVIOUS
  <2>1. PICK m \in Bad : \A k \in Bad : m <= k
    <3>1. Bad \subseteq Nat
      OBVIOUS
    <3> QED
      BY <3>1, LeastNumber
  <2>2. m # i
    BY <1>4, ContinuesItself
  <2>3. m \in 2 .. Len(parts) /\ m - 1 \in i .. Len(parts) /\ ~(m <= m - 1)
    BY <1>1, <2>2
  <2>4. Continues(S, g[m - 1], g[i])
    BY <2>1, <2>3
  <2>5. m \in 1 .. Len(parts)
    BY <1>1, <2>3
  <2>6. g[i] \in Seq(S) /\ parts[m] \in Seq(S) /\ g[m] = g[m - 1] \o parts[m]
    BY <1>1, <1>3, <1>4, <2>3, <2>5
  <2> QED
    BY <2>1, <2>4, <2>6, ContinuesMore
<1>7. Len(parts) \in i .. Len(parts)
  BY <1>1
<1>8. Continues(S, FlattenSeq(parts), g[i])
  BY <1>3, <1>6, <1>7
<1> QED
  BY <1>5, <1>8 DEF Continues, Around

LEMMA AroundMore ==
    ASSUME NEW S, NEW T \in SUBSET S, NEW whole, NEW part \in Seq(S), NEW rest \in Seq(S),
           Around(S, T, whole, part)
    PROVE  Around(S, T, whole \o rest, part)
<1>1. PICK p \in Seq(T), r \in Seq(S) : whole = (p \o part) \o r
  BY DEF Around
<1> DEFINE front == p \o part
<1>2. front \in Seq(S)
  <2>1. p \in Seq(S)
    BY SeqMonotonic
  <2> QED
    BY <2>1, ConcatProperties
<1>3. whole = front \o r
  BY <1>1
<1> HIDE DEF front
<1>4. (front \o r) \o rest = front \o (r \o rest)
  BY <1>2, ConcatAssociative, SMTT(20)
<1>5. r \o rest \in Seq(S)
  BY ConcatProperties
<1> QED
  BY <1>3, <1>4, <1>5 DEF Around, front

\* The first of some places (strstr, strchr): one of them, or the end.
LEMMA FirstOfTyped ==
    ASSUME NEW places \in SUBSET Nat, NEW end \in Nat
    PROVE  /\ FirstOf(places, end) \in Nat
           /\ FirstOf(places, end) \in places \cup {end}
           /\ \A place \in places \cup {end} : FirstOf(places, end) <= place
<1> DEFINE all == places \cup {end}
<1>1. \E m \in all : \A k \in all : m <= k
  <2>1. all \subseteq Nat /\ all # {}
    OBVIOUS
  <2> QED
    BY <2>1, LeastNumber
<1>2. FirstOf(places, end) = Min(all)
  BY DEF FirstOf
<1>3. all \subseteq Nat
  OBVIOUS
<1> HIDE DEF all
<1>4. Min(all) \in all /\ \A k \in all : Min(all) <= k
  BY <1>1 DEF Min
<1> QED
  BY <1>2, <1>3, <1>4 DEF all

LEMMA FirstOfIs ==
    ASSUME NEW places \in SUBSET Nat, NEW end \in Nat, NEW m \in places,
           m <= end, \A place \in places : m <= place
    PROVE  FirstOf(places, end) = m
<1>1. /\ FirstOf(places, end) \in places \cup {end}
      /\ \A place \in places \cup {end} : FirstOf(places, end) <= place
  BY FirstOfTyped
<1>2. m \in Nat /\ FirstOf(places, end) \in Nat
  BY <1>1
<1>3. FirstOf(places, end) <= m
  BY <1>1
<1>4. m <= FirstOf(places, end)
  BY <1>1
<1> QED
  BY <1>2, <1>3, <1>4

-----------------------------------------------------------------------------
\* The server's reading of a text.

\* Where the server looks for a key.
LEMMA PlacesTyped ==
    ASSUME NEW text \in Seq(STRING), NEW key
    PROVE  KeyPlaces(text, key) \in SUBSET Nat /\ KeyAt(text, key) \in Nat
<1>1. KeyPlaces(text, key) \in SUBSET Nat /\ Len(text) + 1 \in Nat
  BY LenProperties DEF KeyPlaces
<1>2. KeyAt(text, key) \in KeyPlaces(text, key) \cup {Len(text) + 1}
  BY <1>1, FirstOfTyped DEF KeyAt
<1> QED
  BY <1>1, <1>2

\* Where it looks for the next mark, and for the next word that is no blank.
LEMMA NextTyped ==
    ASSUME NEW text \in Seq(STRING), NEW from \in Nat, NEW mark
    PROVE  NextMark(text, from, mark) \in Nat /\ NextNoBlank(text, from) \in Nat
<1> DEFINE marks == {i \in from .. Len(text) : text[i] = mark}
           words == {i \in from .. Len(text) : text[i] # "space"}
<1>1. Len(text) + 1 \in Nat /\ marks \in SUBSET Nat /\ words \in SUBSET Nat
  BY LenProperties
<1> HIDE DEF marks, words
<1>2. FirstOf(marks, Len(text) + 1) \in Nat /\ FirstOf(words, Len(text) + 1) \in Nat
  BY <1>1, FirstOfTyped
<1> QED
  BY <1>2 DEF NextMark, NextNoBlank, marks, words

\* A value that is found is a part of the text.
LEMMA ValueTyped ==
    ASSUME NEW text \in Seq(STRING), NEW key
    PROVE  Value(text, key) \in Seq(STRING)
<1> DEFINE colon == NextMark(text, KeyAt(text, key) + 3, "colon")
           open  == NextNoBlank(text, colon + 1)
           close == NextMark(text, open + 1, "quote")
<1>1. Value(text, key) = IF close <= Len(text) /\ text[open] = "quote"
                         THEN SubSeq(text, open + 1, close - 1) ELSE <<>>
  BY DEF Value
<1>2. colon \in Nat
  BY PlacesTyped, NextTyped
<1> HIDE DEF colon
<1>3. open \in Nat
  BY <1>2, NextTyped
<1> HIDE DEF open
<1>4. close \in Nat
  BY <1>3, NextTyped
<1> HIDE DEF close
<1>5. ASSUME close <= Len(text)
      PROVE  SubSeq(text, open + 1, close - 1) \in Seq(STRING)
  <2>1. Len(text) \in Nat
    BY LenProperties
  <2>2. \A i \in open + 1 .. close - 1 : i \in 1 .. Len(text)
    BY <1>3, <1>4, <1>5, <2>1
  <2>3. \A i \in open + 1 .. close - 1 : text[i] \in STRING
    BY <2>2, ElementOfSeq
  <2> QED
    BY <1>3, <1>4, <2>3, SubSeqProperties
<1> QED
  BY <1>1, <1>5, EmptySeq

\* A value stands in a text: behind a places, its key, for the first time, and then
\* the marks of its pair and the value itself.
StandsAt(text, a, key, v) ==
    /\ a \in Nat /\ Len(text) \in Nat /\ Len(text) >= a + 7 + Len(v)
    /\ \A i \in 1 .. a : text[i] # key
    /\ text[a + 1] = "quote" /\ text[a + 2] = key /\ text[a + 3] = "quote"
    /\ text[a + 4] = "colon" /\ text[a + 5] = "space" /\ text[a + 6] = "quote"
    /\ \A i \in 1 .. Len(v) : text[a + 6 + i] = v[i]
    /\ text[a + 7 + Len(v)] = "quote"

\* A value that does not end early.
Bare == STRING \ {"quote"}

\* What the server looks for.
LEMMA QuotedKey ==
    ASSUME NEW key \in STRING
    PROVE  /\ Quoted(<<key>>) \in Seq(STRING)
           /\ Len(Quoted(<<key>>)) = 3
           /\ Quoted(<<key>>)[1] = "quote"
           /\ Quoted(<<key>>)[2] = key
           /\ Quoted(<<key>>)[3] = "quote"
<1>1. "quote" \in STRING
  BY TokensAreStrings DEF Marks
<1> QED
  BY <1>1 DEF Quoted

\* It is found where it stands first.
LEMMA KeyFound ==
    ASSUME NEW text \in Seq(STRING), NEW a, NEW key \in STRING \ Marks, NEW v \in Seq(Bare),
           StandsAt(text, a, key, v)
    PROVE  KeyAt(text, key) = a + 1
<1>1. /\ a \in Nat /\ Len(text) \in Nat /\ Len(v) \in Nat
      /\ a + 7 <= Len(text)
      /\ \A i \in 1 .. Len(text) : text[i] \in STRING
  BY LenProperties, ElementOfSeq DEF StandsAt
<1>2. \A i \in 1 .. Len(text) - 2 :
          /\ SubSeq(text, i, i + 2) \in Seq(STRING)
          /\ Len(SubSeq(text, i, i + 2)) = 3
          /\ SubSeq(text, i, i + 2)[1] = text[i]
          /\ SubSeq(text, i, i + 2)[2] = text[i + 1]
          /\ SubSeq(text, i, i + 2)[3] = text[i + 2]
  <2> SUFFICES ASSUME NEW i \in 1 .. Len(text) - 2
               PROVE  /\ SubSeq(text, i, i + 2) \in Seq(STRING)
                      /\ Len(SubSeq(text, i, i + 2)) = 3
                      /\ SubSeq(text, i, i + 2)[1] = text[i]
                      /\ SubSeq(text, i, i + 2)[2] = text[i + 1]
                      /\ SubSeq(text, i, i + 2)[3] = text[i + 2]
    OBVIOUS
  <2> DEFINE last == i + 2
             part == SubSeq(text, i, last)
  <2>1. /\ i \in Int /\ last \in Int /\ i <= last /\ last - i + 1 = 3
        /\ i + 1 - 1 = i /\ i + 2 - 1 = i + 1 /\ i + 3 - 1 = i + 2
        /\ \A j \in i .. last : text[j] \in STRING
    BY <1>1
  <2> HIDE DEF last
  <2>2. /\ part \in Seq(STRING)
        /\ Len(part) = IF i <= last THEN last - i + 1 ELSE 0
        /\ \A j \in 1 .. last - i + 1 : part[j] = text[i + j - 1]
    BY <2>1, SubSeqProperties
  <2> HIDE DEF part
  <2>3. Len(part) = 3 /\ \A j \in 1 .. 3 : part[j] = text[i + j - 1]
    BY <2>1, <2>2
  <2>4. part[1] = text[i] /\ part[2] = text[i + 1] /\ part[3] = text[i + 2]
    BY <2>1, <2>3
  <2> QED
    BY <2>2, <2>3, <2>4 DEF part, last
<1>3. a + 1 \in KeyPlaces(text, key)
  <2>1. a + 1 \in 1 .. Len(text) - 2
    BY <1>1
  <2>2. Quoted(<<key>>) \in Seq(STRING)
    BY QuotedKey
  <2>3. /\ SubSeq(text, a + 1, a + 3) \in Seq(STRING)
        /\ Len(SubSeq(text, a + 1, a + 3)) = 3
        /\ SubSeq(text, a + 1, a + 3)[1] = "quote"
        /\ SubSeq(text, a + 1, a + 3)[2] = key
        /\ SubSeq(text, a + 1, a + 3)[3] = "quote"
    BY <1>1, <1>2, <2>1 DEF StandsAt
  <2>4. \A j \in 1 .. 3 : SubSeq(text, a + 1, a + 3)[j] = Quoted(<<key>>)[j]
    <3>1. \A j \in 1 .. 3 : j = 1 \/ j = 2 \/ j = 3
      OBVIOUS
    <3> QED
      BY <2>3, <3>1, QuotedKey
  <2>5. SubSeq(text, a + 1, a + 3) = Quoted(<<key>>)
    <3>1. Len(Quoted(<<key>>)) = 3
      BY QuotedKey
    <3> QED
      BY <2>2, <2>3, <2>4, <3>1, SeqEqual
  <2>6. a + 1 + 2 = a + 3
    BY <1>1
  <2> QED
    BY <2>1, <2>5, <2>6 DEF KeyPlaces
<1>4. \A i \in KeyPlaces(text, key) : a + 1 <= i
  <2> SUFFICES ASSUME NEW i \in 1 .. Len(text) - 2,
                      SubSeq(text, i, i + 2) = Quoted(<<key>>)
               PROVE  a + 1 <= i
    BY DEF KeyPlaces
  <2>1. text[i + 1] = key
    BY <1>2, QuotedKey
  <2>2. i + 1 \notin 1 .. a
    BY <2>1 DEF StandsAt
  <2>3. i + 1 # a + 1
    BY <2>1 DEF StandsAt, Marks
  <2> QED
    BY <1>1, <2>2, <2>3
<1>5. KeyPlaces(text, key) \in SUBSET Nat
  BY PlacesTyped
<1>6. Len(text) + 1 \in Nat /\ a + 1 <= Len(text) + 1
  BY <1>1
<1> QED
  BY <1>3, <1>4, <1>5, <1>6, FirstOfIs DEF KeyAt

\* The value that stands at a key is the one that is read.
LEMMA ValueFound ==
    ASSUME NEW text \in Seq(STRING), NEW a, NEW key \in STRING \ Marks, NEW v \in Seq(Bare),
           StandsAt(text, a, key, v)
    PROVE  Value(text, key) = v
<1> DEFINE end    == Len(text) + 1
           n      == Len(v)
           colons == {i \in a + 1 + 3 .. Len(text) : text[i] = "colon"}
           opens  == {i \in a + 4 + 1 .. Len(text) : text[i] # "space"}
           closes == {i \in a + 6 + 1 .. Len(text) : text[i] = "quote"}
<1>1. /\ a \in Nat /\ Len(text) \in Nat /\ n \in Nat /\ end \in Nat
      /\ a + 7 + n <= Len(text)
      /\ \A i \in 1 .. n : v[i] \in STRING /\ v[i] # "quote"
  <2>1. \A i \in 1 .. n : v[i] \in Bare
    BY ElementOfSeq
  <2> QED
    BY <2>1, LenProperties DEF StandsAt, Bare
<1> HIDE DEF n
<1>2. FirstOf(colons, end) = a + 4
  <2>1. a + 4 \in colons /\ \A i \in colons : a + 4 <= i
    BY <1>1 DEF StandsAt
  <2>2. colons \in SUBSET Nat /\ a + 4 <= end
    BY <1>1
  <2> HIDE DEF colons, end
  <2> QED
    BY <1>1, <2>1, <2>2, FirstOfIs
<1>3. FirstOf(opens, end) = a + 6
  <2>1. a + 6 \in opens
    BY <1>1 DEF StandsAt
  <2>2. \A i \in opens : i # a + 5
    BY DEF StandsAt
  <2>3. \A i \in opens : a + 6 <= i
    BY <1>1, <2>2
  <2>4. opens \in SUBSET Nat /\ a + 6 <= end
    BY <1>1
  <2> HIDE DEF opens, end
  <2> QED
    BY <1>1, <2>1, <2>3, <2>4, FirstOfIs
<1>4. FirstOf(closes, end) = a + 7 + n
  <2>1. a + 7 + n \in closes
    BY <1>1 DEF StandsAt, n
  <2>2. \A i \in closes : a + 7 + n <= i
    <3> SUFFICES ASSUME NEW i \in closes, ~(a + 7 + n <= i)
                 PROVE  FALSE
      BY <1>1
    <3>1. i - a - 6 \in 1 .. n /\ a + 6 + (i - a - 6) = i /\ text[i] = "quote"
      BY <1>1
    <3>2. text[a + 6 + (i - a - 6)] = v[i - a - 6]
      BY <3>1 DEF StandsAt, n
    <3> QED
      BY <1>1, <3>1, <3>2
  <2>3. closes \in SUBSET Nat /\ a + 7 + n <= end
    BY <1>1
  <2> HIDE DEF closes, end
  <2> QED
    BY <1>1, <2>1, <2>2, <2>3, FirstOfIs
<1>5. Value(text, key) = SubSeq(text, a + 6 + 1, a + 7 + n - 1)
  <2> DEFINE colon == NextMark(text, KeyAt(text, key) + 3, "colon")
             open  == NextNoBlank(text, colon + 1)
             close == NextMark(text, open + 1, "quote")
  <2>1. Value(text, key) = IF close <= Len(text) /\ text[open] = "quote"
                           THEN SubSeq(text, open + 1, close - 1) ELSE <<>>
    BY DEF Value
  <2>2. KeyAt(text, key) = a + 1
    BY KeyFound
  <2>3. colon = a + 4
    BY <1>2, <2>2 DEF NextMark
  <2> HIDE DEF colon
  <2>4. open = a + 6
    BY <1>3, <2>3 DEF NextNoBlank
  <2> HIDE DEF open
  <2>5. close = a + 7 + n
    BY <1>4, <2>4 DEF NextMark
  <2> HIDE DEF close
  <2>6. a + 7 + n <= Len(text) /\ text[a + 6] = "quote"
    BY <1>1 DEF StandsAt
  <2> QED
    BY <1>1, <2>1, <2>4, <2>5, <2>6
<1>6. SubSeq(text, a + 6 + 1, a + 7 + n - 1) = v
  <2> DEFINE first == a + 6 + 1
             last  == a + 7 + n - 1
             part  == SubSeq(text, first, last)
  <2>1. /\ first \in Int /\ last \in Int /\ last - first + 1 = n
        /\ first <= last <=> n # 0
        /\ \A i \in first .. last : i \in 1 .. Len(text)
        /\ \A i \in 1 .. n : first + i - 1 = a + 6 + i
    BY <1>1
  <2> HIDE DEF first, last
  <2>2. \A i \in first .. last : text[i] \in STRING
    BY <2>1, ElementOfSeq
  <2>3. /\ part \in Seq(STRING)
        /\ Len(part) = IF first <= last THEN last - first + 1 ELSE 0
        /\ \A i \in 1 .. last - first + 1 : part[i] = text[first + i - 1]
    BY <2>1, <2>2, SubSeqProperties
  <2> HIDE DEF part
  <2>4. Len(part) = n
    BY <1>1, <2>1, <2>3
  <2>5. \A i \in 1 .. n : part[i] = v[i]
    <3>1. \A i \in 1 .. n : text[a + 6 + i] = v[i]
      BY DEF StandsAt, n
    <3> QED
      BY <2>1, <2>3, <3>1
  <2>6. v \in Seq(STRING)
    BY SeqMonotonic DEF Bare
  <2>7. part = v
    BY <2>3, <2>4, <2>5, <2>6, SeqEqual DEF n
  <2> QED
    BY <2>7 DEF part, first, last
<1> QED
  BY <1>5, <1>6

-----------------------------------------------------------------------------
\* The client's writing of one.

\* The fields and the requests, spelled out.
LEMMA FieldFacts ==
    /\ Ops = {"signup", "login", "create", "invite", "enter", "friends", "list"}
    /\ FieldNames = {"user_id", "name", "password", "mdn", "room_id", "room_type", "members"}
    /\ \A op \in Ops : /\ FieldsOf[op] \in Seq(FieldNames)
                       /\ Keys(op) = {FieldsOf[op][i] : i \in 1 .. Len(FieldsOf[op])}
                       /\ Keys(op) \subseteq FieldNames
                       /\ \A i, j \in 1 .. Len(FieldsOf[op]) :
                             FieldsOf[op][i] = FieldsOf[op][j] => i = j
<1>1. Ops = {"signup", "login", "create", "invite", "enter", "friends", "list"}
  BY DEF Ops, FieldsOf
<1>2. /\ Keys("signup") = {"user_id", "name", "password", "mdn"}
      /\ Keys("login") = {"user_id", "password"}
      /\ Keys("create") = {"room_id", "password", "user_id", "room_type", "members"}
      /\ Keys("invite") = {"room_id", "user_id", "members"}
      /\ Keys("enter") = {"room_id", "password"}
      /\ Keys("friends") = {"user_id"}
      /\ Keys("list") = {}
  BY DEF Keys, FieldsOf, Range
<1>3. FieldNames = {"user_id", "name", "password", "mdn", "room_id", "room_type", "members"}
  BY <1>1, <1>2 DEF FieldNames
<1>4. \A op \in Ops : /\ FieldsOf[op] \in Seq(FieldNames)
                       /\ \A i, j \in 1 .. Len(FieldsOf[op]) :
                             FieldsOf[op][i] = FieldsOf[op][j] => i = j
  <2> SUFFICES ASSUME NEW op \in Ops
               PROVE  /\ FieldsOf[op] \in Seq(FieldNames)
                      /\ \A i, j \in 1 .. Len(FieldsOf[op]) :
                            FieldsOf[op][i] = FieldsOf[op][j] => i = j
    OBVIOUS
  <2>1. CASE op = "signup"
    <3>1. FieldsOf[op] = <<"user_id", "name", "password", "mdn">>
      BY <2>1 DEF FieldsOf
    <3> QED
      BY <1>3, <3>1
  <2>2. CASE op = "login"
    <3>1. FieldsOf[op] = <<"user_id", "password">>
      BY <2>2 DEF FieldsOf
    <3> QED
      BY <1>3, <3>1
  <2>3. CASE op = "create"
    <3>1. FieldsOf[op] = <<"room_id", "password", "user_id", "room_type", "members">>
      BY <2>3 DEF FieldsOf
    <3> QED
      BY <1>3, <3>1
  <2>4. CASE op = "invite"
    <3>1. FieldsOf[op] = <<"room_id", "user_id", "members">>
      BY <2>4 DEF FieldsOf
    <3> QED
      BY <1>3, <3>1
  <2>5. CASE op = "enter"
    <3>1. FieldsOf[op] = <<"room_id", "password">>
      BY <2>5 DEF FieldsOf
    <3> QED
      BY <1>3, <3>1
  <2>6. CASE op = "friends"
    <3>1. FieldsOf[op] = <<"user_id">>
      BY <2>6 DEF FieldsOf
    <3> QED
      BY <1>3, <3>1
  <2>7. CASE op = "list"
    <3>1. FieldsOf[op] = <<>>
      BY <2>7 DEF FieldsOf
    <3> QED
      BY <1>3, <3>1
  <2> QED
    BY <1>1, <2>1, <2>2, <2>3, <2>4, <2>5, <2>6, <2>7
<1>5. \A op \in Ops : Keys(op) \subseteq FieldNames
  BY DEF FieldNames
<1>6. \A op \in Ops : Keys(op) = {FieldsOf[op][i] : i \in 1 .. Len(FieldsOf[op])}
  <2>1. \A op \in Ops : DOMAIN FieldsOf[op] = 1 .. Len(FieldsOf[op])
    BY <1>1 DEF FieldsOf
  <2> QED
    BY <2>1 DEF Keys, Range
<1> QED
  BY <1>1, <1>3, <1>4, <1>5, <1>6

\* What stands in a quoted text, token by token.
LEMMA QuotedText ==
    ASSUME NEW T, Marks \subseteq T, NEW v \in Seq(T)
    PROVE  /\ Quoted(v) \in Seq(T)
           /\ Len(v) \in Nat
           /\ Len(Quoted(v)) = Len(v) + 2
           /\ Quoted(v)[1] = "quote"
           /\ \A i \in 1 .. Len(v) : Quoted(v)[i + 1] = v[i]
           /\ Quoted(v)[Len(v) + 2] = "quote"
<1> DEFINE mark == <<"quote">>
           front == mark \o v
           n == Len(v)
<1>1. mark \in Seq(T) /\ Len(mark) = 1 /\ mark[1] = "quote" /\ n \in Nat
  BY LenProperties DEF Marks
<1> HIDE DEF mark, n
<1>2. /\ front \in Seq(T)
      /\ Len(front) = n + 1
      /\ \A i \in 1 .. n + 1 : front[i] = IF i <= 1 THEN mark[i] ELSE v[i - 1]
  <2>1. /\ front \in Seq(T)
        /\ Len(front) = Len(mark) + Len(v)
        /\ \A i \in 1 .. Len(mark) + Len(v) :
              front[i] = IF i <= Len(mark) THEN mark[i] ELSE v[i - Len(mark)]
    BY <1>1, ConcatProperties
  <2> QED
    BY <1>1, <2>1 DEF n
<1> HIDE DEF front
<1>3. /\ front \o mark \in Seq(T)
      /\ Len(front \o mark) = n + 2
      /\ \A i \in 1 .. n + 2 :
            (front \o mark)[i] = IF i <= n + 1 THEN front[i] ELSE mark[i - (n + 1)]
  <2>1. /\ front \o mark \in Seq(T)
        /\ Len(front \o mark) = Len(front) + Len(mark)
        /\ \A i \in 1 .. Len(front) + Len(mark) :
              (front \o mark)[i] = IF i <= Len(front) THEN front[i]
                                                     ELSE mark[i - Len(front)]
    BY <1>1, <1>2, ConcatProperties
  <2> QED
    BY <1>1, <1>2, <2>1
<1>4. Quoted(v) = front \o mark
  BY DEF Quoted, front, mark
<1> DEFINE whole == front \o mark
<1> HIDE DEF whole
<1>5. whole[1] = "quote" /\ whole[n + 2] = "quote"
  BY <1>1, <1>2, <1>3 DEF whole
<1>6. \A i \in 1 .. n : whole[i + 1] = v[i]
  <2>1. \A i \in 1 .. n : i + 1 \in 1 .. n + 1 /\ ~(i + 1 <= 1) /\ i + 1 - 1 = i
    BY <1>1
  <2> QED
    BY <1>1, <1>2, <1>3, <2>1 DEF whole
<1> QED
  BY <1>1, <1>3, <1>4, <1>5, <1>6 DEF whole, n

\* One pair: what separates it from the one before, and its marks around key and value.
Gap(i) == IF i = 1 THEN 0 ELSE 2

LEMMA PairText ==
    ASSUME NEW T, Marks \subseteq T, NEW key \in T, NEW v \in Seq(T), NEW i
    PROVE  /\ Pair(i, key, v) \in Seq(T)
           /\ Len(v) \in Nat /\ Gap(i) \in Nat
           /\ Len(Pair(i, key, v)) = Gap(i) + 7 + Len(v)
           /\ \A j \in 1 .. Gap(i) : Pair(i, key, v)[j] \in Marks
           /\ Pair(i, key, v)[Gap(i) + 1] = "quote"
           /\ Pair(i, key, v)[Gap(i) + 2] = key
           /\ Pair(i, key, v)[Gap(i) + 3] = "quote"
           /\ Pair(i, key, v)[Gap(i) + 4] = "colon"
           /\ Pair(i, key, v)[Gap(i) + 5] = "space"
           /\ Pair(i, key, v)[Gap(i) + 6] = "quote"
           /\ \A j \in 1 .. Len(v) : Pair(i, key, v)[Gap(i) + 6 + j] = v[j]
           /\ Pair(i, key, v)[Gap(i) + 7 + Len(v)] = "quote"
<1> DEFINE g == Gap(i)
           n == Len(v)
           gap == IF i = 1 THEN <<>> ELSE <<"comma", "space">>
           name == Quoted(<<key>>)
           marks == <<"colon", "space">>
           value == Quoted(v)
           one == gap \o name
           two == one \o marks
           all == two \o value
<1>1. gap \in Seq(T) /\ Len(gap) = g /\ g \in Nat /\ \A j \in 1 .. g : gap[j] \in Marks
  <2>1. CASE i = 1
    BY <2>1 DEF Gap
  <2>2. CASE i # 1
    <3>1. gap = <<"comma", "space">> /\ g = 2
      BY <2>2 DEF Gap
    <3>2. \A j \in 1 .. 2 : j = 1 \/ j = 2
      OBVIOUS
    <3> QED
      BY <3>1, <3>2 DEF Marks
  <2> QED
    BY <2>1, <2>2
<1>2. /\ name \in Seq(T) /\ Len(name) = 3
      /\ name[1] = "quote" /\ name[2] = key /\ name[3] = "quote"
  BY DEF Quoted, Marks
<1>3. marks \in Seq(T) /\ Len(marks) = 2 /\ marks[1] = "colon" /\ marks[2] = "space"
  BY DEF Marks
<1>4. /\ value \in Seq(T) /\ n \in Nat /\ Len(value) = n + 2
      /\ value[1] = "quote" /\ value[n + 2] = "quote"
      /\ \A j \in 1 .. n : value[j + 1] = v[j]
  BY QuotedText
<1>5. Pair(i, key, v) = all
  BY DEF Pair
<1> HIDE DEF g, n, gap, name, marks, value
<1>6. /\ one \in Seq(T) /\ Len(one) = g + 3
      /\ \A j \in 1 .. g + 3 : one[j] = IF j <= g THEN gap[j] ELSE name[j - g]
  <2>1. /\ one \in Seq(T) /\ Len(one) = Len(gap) + Len(name)
        /\ \A j \in 1 .. Len(gap) + Len(name) :
              one[j] = IF j <= Len(gap) THEN gap[j] ELSE name[j - Len(gap)]
    BY <1>1, <1>2, ConcatProperties
  <2> QED
    BY <1>1, <1>2, <2>1
<1> HIDE DEF one
<1>7. /\ two \in Seq(T) /\ Len(two) = g + 5
      /\ \A j \in 1 .. g + 5 : two[j] = IF j <= g + 3 THEN one[j] ELSE marks[j - (g + 3)]
  <2>1. /\ two \in Seq(T) /\ Len(two) = Len(one) + Len(marks)
        /\ \A j \in 1 .. Len(one) + Len(marks) :
              two[j] = IF j <= Len(one) THEN one[j] ELSE marks[j - Len(one)]
    BY <1>3, <1>6, ConcatProperties
  <2> QED
    BY <1>1, <1>3, <1>6, <2>1
<1> HIDE DEF two
<1>8. /\ all \in Seq(T) /\ Len(all) = g + 7 + n
      /\ \A j \in 1 .. g + 7 + n : all[j] = IF j <= g + 5 THEN two[j] ELSE value[j - (g + 5)]
  <2>1. /\ all \in Seq(T) /\ Len(all) = Len(two) + Len(value)
        /\ \A j \in 1 .. Len(two) + Len(value) :
              all[j] = IF j <= Len(two) THEN two[j] ELSE value[j - Len(two)]
    BY <1>4, <1>7, ConcatProperties
  <2> QED
    BY <1>1, <1>4, <1>7, <2>1
<1> HIDE DEF all
<1>9. \A j \in 1 .. g : all[j] \in Marks
  BY <1>1, <1>4, <1>6, <1>7, <1>8
<1>10. /\ all[g + 1] = "quote" /\ all[g + 2] = key /\ all[g + 3] = "quote"
       /\ all[g + 4] = "colon" /\ all[g + 5] = "space"
  BY <1>1, <1>2, <1>3, <1>4, <1>6, <1>7, <1>8
<1>11. all[g + 6] = "quote" /\ all[g + 7 + n] = "quote"
  BY <1>1, <1>4, <1>8
<1>12. \A j \in 1 .. n : all[g + 6 + j] = v[j]
  <2> SUFFICES ASSUME NEW j \in 1 .. n
               PROVE  all[g + 6 + j] = v[j]
    OBVIOUS
  <2> DEFINE k == g + 6 + j
  <2>1. k \in 1 .. g + 7 + n /\ ~(k <= g + 5) /\ k - (g + 5) = j + 1
    BY <1>1, <1>4
  <2> HIDE DEF k
  <2>2. all[k] = value[j + 1]
    BY <1>8, <2>1
  <2> QED
    BY <1>4, <2>2 DEF k
<1> QED
  BY <1>1, <1>4, <1>5, <1>8, <1>9, <1>10, <1>11, <1>12 DEF g, n

\* What may be typed: anything but a quote or the name of a field, and in a user id,
\* which also travels in an address, no blank and no ampersand.
Word == STRING \ (FieldNames \cup {"quote"})
Name == Word \ {"space", "amp"}

\* The pairs of a body, before they are joined.
Parts(op, values) == [i \in DOMAIN FieldsOf[op] |->
                         Pair(i, FieldsOf[op][i], values[FieldsOf[op][i]])]

LEMMA PartsTyped ==
    ASSUME NEW op \in Ops, NEW W \in SUBSET STRING, NEW values \in [Keys(op) -> Seq(W)]
    PROVE  /\ Len(FieldsOf[op]) \in Nat
           /\ Parts(op, values) \in Seq(Seq(STRING))
           /\ Len(Parts(op, values)) = Len(FieldsOf[op])
           /\ \A i \in 1 .. Len(FieldsOf[op]) :
                 /\ FieldsOf[op][i] \in Keys(op)
                 /\ FieldsOf[op][i] \in FieldNames
                 /\ values[FieldsOf[op][i]] \in Seq(W)
                 /\ Parts(op, values)[i] =
                       Pair(i, FieldsOf[op][i], values[FieldsOf[op][i]])
<1> DEFINE fields == FieldsOf[op]
           n == Len(fields)
           parts == [i \in 1 .. n |-> Pair(i, fields[i], values[fields[i]])]
<1>1. fields \in Seq(FieldNames) /\ n \in Nat /\ DOMAIN fields = 1 .. n
  BY FieldFacts, LenProperties
<1>2. \A i \in 1 .. n : fields[i] \in Keys(op) /\ fields[i] \in FieldNames
  BY <1>1, FieldFacts, ElementOfSeq
<1>3. \A i \in 1 .. n : values[fields[i]] \in Seq(W)
  BY <1>2
<1>4. Parts(op, values) = parts
  BY <1>1 DEF Parts
<1> HIDE DEF fields, n
<1>5. \A i \in 1 .. n : Pair(i, fields[i], values[fields[i]]) \in Seq(STRING)
  <2> SUFFICES ASSUME NEW i \in 1 .. n
               PROVE  Pair(i, fields[i], values[fields[i]]) \in Seq(STRING)
    OBVIOUS
  <2>1. Marks \subseteq STRING /\ fields[i] \in STRING
    BY <1>2, TokensAreStrings
  <2>2. values[fields[i]] \in Seq(STRING)
    BY <1>3, SeqMonotonic
  <2> QED
    BY <2>1, <2>2, PairText
<1>6. /\ parts \in [1 .. n -> Seq(STRING)]
      /\ \A i \in 1 .. n : parts[i] = Pair(i, fields[i], values[fields[i]])
  BY <1>5
<1> HIDE DEF parts
<1>7. parts \in Seq(Seq(STRING)) /\ Len(parts) = n
  BY <1>1, <1>6
<1> QED
  BY <1>1, <1>2, <1>3, <1>4, <1>6, <1>7 DEF n, fields

\* A body is a text.
LEMMA BodyTyped ==
    ASSUME NEW op \in Ops, NEW values \in [Keys(op) -> Seq(STRING)]
    PROVE  Body(op, values) \in Seq(STRING)
<1>1. InBody(op) => Body(op, values) = FlattenSeq(Parts(op, values))
  BY DEF Body, Parts
<1>2. Parts(op, values) \in Seq(Seq(STRING))
  BY PartsTyped
<1>3. FlattenSeq(Parts(op, values)) \in Seq(STRING)
  BY <1>2, FlattenTyped
<1>4. ~ InBody(op) => Body(op, values) = <<>>
  BY DEF Body
<1> QED
  BY <1>1, <1>3, <1>4, EmptySeq

\* A pair that has something without its key in front, and anything behind.
LEMMA PairStands ==
    ASSUME NEW key \in STRING \ Marks, NEW v \in Seq(Bare), NEW i,
           NEW p \in Seq(STRING), \A j \in 1 .. Len(p) : p[j] # key,
           NEW r \in Seq(STRING)
    PROVE  StandsAt((p \o Pair(i, key, v)) \o r, Len(p) + Gap(i), key, v)
<1> DEFINE pair == Pair(i, key, v)
           g == Gap(i)
           n == Len(v)
           m == Len(p)
           head == p \o pair
           text == head \o r
           a == m + g
<1>1. /\ pair \in Seq(STRING) /\ n \in Nat /\ g \in Nat
      /\ Len(pair) = g + 7 + n
      /\ \A j \in 1 .. g : pair[j] \in Marks
      /\ pair[g + 1] = "quote" /\ pair[g + 2] = key /\ pair[g + 3] = "quote"
      /\ pair[g + 4] = "colon" /\ pair[g + 5] = "space" /\ pair[g + 6] = "quote"
      /\ \A j \in 1 .. n : pair[g + 6 + j] = v[j]
      /\ pair[g + 7 + n] = "quote"
  <2>1. Marks \subseteq STRING
    BY TokensAreStrings
  <2>2. v \in Seq(STRING)
    BY SeqMonotonic DEF Bare
  <2> QED
    BY <2>1, <2>2, PairText
<1>2. m \in Nat /\ \A j \in 1 .. m : p[j] # key
  BY LenProperties
<1> HIDE DEF pair, g, n, m
<1>3. /\ head \in Seq(STRING) /\ Len(head) = m + (g + 7 + n)
      /\ \A j \in 1 .. m + (g + 7 + n) : head[j] = IF j <= m THEN p[j] ELSE pair[j - m]
  <2>1. pair \in Seq(STRING)
    BY <1>1
  <2>2. /\ head \in Seq(STRING) /\ Len(head) = Len(p) + Len(pair)
        /\ \A j \in 1 .. Len(p) + Len(pair) :
              head[j] = IF j <= Len(p) THEN p[j] ELSE pair[j - Len(p)]
    BY <2>1, ConcatProperties
  <2> QED
    BY <1>1, <2>2 DEF m
<1> HIDE DEF head
<1>4. /\ Len(text) \in Nat /\ Len(text) >= a + 7 + n
      /\ \A j \in 1 .. m + (g + 7 + n) : text[j] = head[j]
  <2>1. /\ text \in Seq(STRING) /\ Len(text) = Len(head) + Len(r)
        /\ \A j \in 1 .. Len(head) + Len(r) :
              text[j] = IF j <= Len(head) THEN head[j] ELSE r[j - Len(head)]
    BY <1>3, ConcatProperties
  <2>2. Len(r) \in Nat
    BY LenProperties
  <2> HIDE DEF text
  <2> QED
    BY <1>1, <1>2, <1>3, <2>1, <2>2
<1> HIDE DEF text
<1>5. \A j \in 1 .. m : text[j] = p[j]
  <2>1. \A j \in 1 .. m : j \in 1 .. m + (g + 7 + n) /\ j <= m
    BY <1>1, <1>2
  <2> QED
    BY <1>3, <1>4, <2>1
<1>6. \A j \in 1 .. g + 7 + n : text[m + j] = pair[j]
  <2> SUFFICES ASSUME NEW j \in 1 .. g + 7 + n
               PROVE  text[m + j] = pair[j]
    OBVIOUS
  <2> DEFINE k == m + j
  <2>1. k \in 1 .. m + (g + 7 + n) /\ ~(k <= m) /\ k - m = j
    BY <1>1, <1>2
  <2> HIDE DEF k
  <2>2. text[k] = pair[j]
    BY <1>3, <1>4, <2>1
  <2> QED
    BY <2>2 DEF k
<1>7. \A j \in 1 .. a : text[j] # key
  <2> SUFFICES ASSUME NEW j \in 1 .. a
               PROVE  text[j] # key
    OBVIOUS
  <2>1. CASE j \in 1 .. m
    BY <1>2, <1>5, <2>1
  <2>2. CASE j - m \in 1 .. g
    <3>1. j - m \in 1 .. g + 7 + n /\ m + (j - m) = j
      BY <1>1, <1>2, <2>2
    <3>2. text[m + (j - m)] = pair[j - m]
      BY <1>6, <3>1
    <3> QED
      BY <1>1, <2>2, <3>1, <3>2
  <2> QED
    BY <1>1, <1>2, <2>1, <2>2
<1>8. /\ text[a + 1] = "quote" /\ text[a + 2] = key /\ text[a + 3] = "quote"
      /\ text[a + 4] = "colon" /\ text[a + 5] = "space" /\ text[a + 6] = "quote"
  <2>1. \A j \in 1 .. 6 : g + j \in 1 .. g + 7 + n /\ m + (g + j) = a + j
    BY <1>1, <1>2
  <2>2. \A j \in 1 .. 6 : text[a + j] = pair[g + j]
    <3> SUFFICES ASSUME NEW j \in 1 .. 6
                 PROVE  text[a + j] = pair[g + j]
      OBVIOUS
    <3>1. text[m + (g + j)] = pair[g + j]
      BY <1>6, <2>1
    <3> QED
      BY <2>1, <3>1
  <2> HIDE DEF a
  <2> QED
    BY <1>1, <2>2
<1>9. text[a + 7 + n] = "quote"
  <2>1. g + 7 + n \in 1 .. g + 7 + n /\ m + (g + 7 + n) = a + 7 + n
    BY <1>1, <1>2
  <2>2. text[m + (g + 7 + n)] = pair[g + 7 + n]
    BY <1>6, <2>1
  <2> QED
    BY <1>1, <2>1, <2>2
<1>10. \A j \in 1 .. n : text[a + 6 + j] = v[j]
  <2> SUFFICES ASSUME NEW j \in 1 .. n
               PROVE  text[a + 6 + j] = v[j]
    OBVIOUS
  <2>1. g + 6 + j \in 1 .. g + 7 + n /\ m + (g + 6 + j) = a + 6 + j
    BY <1>1, <1>2
  <2>2. text[m + (g + 6 + j)] = pair[g + 6 + j]
    BY <1>6, <2>1
  <2> QED
    BY <1>1, <2>1, <2>2
<1>11. a \in Nat
  BY <1>1, <1>2
<1> HIDE DEF a
<1>12. StandsAt(text, a, key, v)
  BY <1>4, <1>7, <1>8, <1>9, <1>10, <1>11 DEF StandsAt, n
<1> QED
  BY <1>12 DEF text, head, pair, a, m, g

\* What the client wrote between quotes is read back, whatever follows.
LEMMA FieldRead ==
    ASSUME NEW op \in Ops, InBody(op), NEW values \in [Keys(op) -> Seq(Word)],
           NEW key \in Keys(op), NEW rest \in Seq(STRING)
    PROVE  Value(Body(op, values) \o rest, key) = values[key]
<1> DEFINE parts == Parts(op, values)
           fields == FieldsOf[op]
           T == STRING \ {key}
<1>1. PICK i \in 1 .. Len(fields) : fields[i] = key
  <2>1. Keys(op) = {FieldsOf[op][i] : i \in 1 .. Len(FieldsOf[op])}
    BY FieldFacts
  <2> QED
    BY <2>1
<1>2. /\ key \in FieldNames /\ key \in STRING \ Marks
      /\ \A j \in 1 .. Len(fields) : fields[j] = key => j = i
  <2>1. key \in FieldNames
    BY FieldFacts
  <2>2. key \notin Marks
    BY <2>1, FieldFacts DEF Marks
  <2>3. key \in STRING
    BY <2>1, TokensAreStrings
  <2> QED
    BY <1>1, <2>1, <2>2, <2>3, FieldFacts
<1>3. /\ Len(fields) \in Nat
      /\ parts \in Seq(Seq(STRING))
      /\ Len(parts) = Len(fields)
      /\ \A j \in 1 .. Len(fields) : /\ fields[j] \in FieldNames
                                     /\ values[fields[j]] \in Seq(Word)
                                     /\ parts[j] = Pair(j, fields[j], values[fields[j]])
  <2>1. Word \in SUBSET STRING
    BY DEF Word
  <2> QED
    BY <2>1, PartsTyped
<1> HIDE DEF parts, fields
<1>4. \A j \in 1 .. i - 1 : parts[j] \in Seq(T)
  <2> SUFFICES ASSUME NEW j \in 1 .. i - 1
               PROVE  parts[j] \in Seq(T)
    OBVIOUS
  <2>1. j \in 1 .. Len(fields) /\ j # i
    BY <1>1, <1>3
  <2>2. Marks \subseteq T /\ fields[j] \in T
    BY <1>2, <1>3, <2>1, TokensAreStrings
  <2>3. Word \subseteq T
    BY <1>2 DEF Word
  <2>4. values[fields[j]] \in Seq(T)
    BY <1>3, <2>1, <2>3, SeqMonotonic
  <2>5. Pair(j, fields[j], values[fields[j]]) \in Seq(T)
    BY <2>2, <2>4, PairText
  <2> QED
    BY <1>3, <2>1, <2>5
<1>5. Body(op, values) = FlattenSeq(parts)
  BY DEF Body, Parts, parts
<1>6. values[key] \in Seq(Bare)
  <2>1. Word \subseteq Bare
    BY DEF Word, Bare
  <2> QED
    BY <2>1, SeqMonotonic
<1> DEFINE pair == Pair(i, key, values[key])
<1>7. parts[i] = pair /\ pair \in Seq(STRING)
  BY <1>1, <1>3, ElementOfSeq
<1>8. Around(STRING, T, Body(op, values) \o rest, pair)
  <2> HIDE DEF T
  <2>1. i \in 1 .. Len(parts)
    BY <1>1, <1>3
  <2>2. Around(STRING, T, FlattenSeq(parts), parts[i])
    BY <1>3, <1>4, <2>1, FlattenSplit
  <2>3. T \in SUBSET STRING
    BY DEF T
  <2> HIDE DEF pair
  <2> QED
    BY <1>5, <1>7, <2>2, <2>3, AroundMore
<1>9. PICK p \in Seq(T), r \in Seq(STRING) : Body(op, values) \o rest = (p \o pair) \o r
  BY <1>8 DEF Around
<1>10. p \in Seq(STRING) /\ \A j \in 1 .. Len(p) : p[j] # key
  <2>1. \A j \in 1 .. Len(p) : p[j] \in STRING \ {key}
    BY <1>9, ElementOfSeq
  <2> QED
    BY <1>9, <2>1, SeqMonotonic
<1> DEFINE text == (p \o pair) \o r
<1>11. StandsAt(text, Len(p) + Gap(i), key, values[key])
  BY <1>2, <1>6, <1>9, <1>10, PairStands
<1>12. text \in Seq(STRING)
  <2>1. p \o pair \in Seq(STRING)
    BY <1>7, <1>10, ConcatProperties
  <2> HIDE DEF pair
  <2> QED
    BY <1>9, <2>1, ConcatProperties
<1> HIDE DEF text
<1>13. Value(text, key) = values[key]
  BY <1>2, <1>6, <1>11, <1>12, ValueFound
<1> QED
  BY <1>9, <1>13 DEF text

-----------------------------------------------------------------------------
\* The network.

Unreads == [n : Nat, whole : BOOLEAN]
Answered == [n : Nat, code : Codes]

\* The types of the network's variables.
NetTyped ==
    /\ sent \in Seq(Range(sent))
    /\ up \in Seq(Unreads)
    /\ down \in Seq(Answered)
    /\ shown \in Seq(Answered)

Rising(list) == \A i, j \in DOMAIN list : i < j => list[i].n < list[j].n

Before(early, late) == \A i \in DOMAIN early, j \in DOMAIN late : early[i].n < late[j].n

Numbered(list) == \A i \in DOMAIN list : list[i].n \in DOMAIN sent

\* The numbers rise along shown, down and up, and are those of requests.
Ordered ==
    /\ Rising(shown) /\ Rising(down) /\ Rising(up)
    /\ Before(shown, down) /\ Before(shown, up) /\ Before(down, up)
    /\ Numbered(shown) /\ Numbered(down) /\ Numbered(up)

\* A request written alone is the first of the unread ones, or answered.
AloneFirst ==
    \A n \in DOMAIN sent : conn = "open" /\ sent[n].when = "alone" =>
        \/ up # <<>> /\ up[1] = [n |-> n, whole |-> TRUE]
        \/ \E i \in DOMAIN down : down[i].n = n
        \/ \E i \in DOMAIN shown : shown[i].n = n

NetInv == NetTyped /\ Ordered /\ AloneFirst

\* Whoever is logged in has sent a login request, and the last one names the user.
LastLogin ==
    login # <<>> =>
        \E m \in DOMAIN sent :
            /\ sent[m].op = "login" /\ sent[m].v["user_id"] = login
            /\ \A i \in DOMAIN sent : i > m => sent[i].op # "login"

LoginInv == /\ form \in {"create", "invite"} => login # <<>>
            /\ LastLogin
            /\ IdentityWasSent

ClientInv == NetInv /\ LoginInv

-----------------------------------------------------------------------------
\* Writing a request.

\* A request that is written is the last one, and the others stay.
LEMMA WrittenFacts ==
    ASSUME NetTyped, NEW op, NEW values, NEW when, Written(op, values, when)
    PROVE  /\ sent' \in Seq(Range(sent'))
           /\ Len(sent) \in Nat
           /\ DOMAIN sent = 1 .. Len(sent)
           /\ DOMAIN sent' = 1 .. Len(sent) + 1
           /\ \A n \in 1 .. Len(sent) : sent'[n] = sent[n]
           /\ sent'[Len(sent) + 1].op = op
           /\ sent'[Len(sent) + 1].v = values
           /\ sent'[Len(sent) + 1].body = Body(op, values)
           /\ sent'[Len(sent) + 1].when = when
           /\ login' = LoginAfter(op, values)
<1> DEFINE request == [op |-> op, v |-> values, body |-> Body(op, values), when |-> when]
           all == Range(sent) \cup {request}
<1>1. sent' = Append(sent, request) /\ login' = LoginAfter(op, values)
  BY DEF Written
<1>2. /\ request.op = op /\ request.v = values /\ request.when = when
      /\ request.body = Body(op, values)
  OBVIOUS
<1> HIDE DEF request
<1>3. sent \in Seq(all) /\ request \in all
  BY SeqMonotonic DEF NetTyped
<1>4. /\ Len(sent) \in Nat
      /\ DOMAIN sent = 1 .. Len(sent)
      /\ sent \in [1 .. Len(sent) -> Range(sent)]
  BY LenProperties DEF NetTyped
<1> HIDE DEF all
<1>5. /\ sent' \in Seq(all)
      /\ Len(sent') = Len(sent) + 1
      /\ \A n \in 1 .. Len(sent) : sent'[n] = sent[n]
      /\ sent'[Len(sent) + 1] = request
  BY <1>1, <1>3, AppendProperties
<1>6. DOMAIN sent' = 1 .. Len(sent) + 1
  BY <1>5, LenProperties
<1>7. sent' \in Seq(Range(sent'))
  <2>1. sent' = [n \in 1 .. Len(sent) + 1 |-> sent'[n]]
    BY <1>5, <1>6, LenProperties
  <2>2. \A n \in 1 .. Len(sent) + 1 : sent'[n] \in Range(sent')
    BY <1>6 DEF Range
  <2>3. sent' \in [1 .. Len(sent) + 1 -> Range(sent')]
    BY <2>1, <2>2
  <2> QED
    BY <1>4, <2>3, SeqDef
<1> QED
  BY <1>1, <1>2, <1>4, <1>5, <1>6, <1>7

\* The three outcomes of a write: sent to an open server, to one that has closed, or
\* not at all.
LEMMA WriteCases ==
    ASSUME NEW op, NEW values, Write(op, values)
    PROVE  \/ /\ conn = "open" /\ conn' = "open"
              /\ Written(op, values, IF up = <<>> THEN "alone" ELSE "behind")
              /\ up' = Append(up, [n |-> Len(sent) + 1, whole |-> TRUE])
           \/ /\ conn' = "reset"
              /\ Written(op, values, "closed")
              /\ up' = up
           \/ UNCHANGED <<sent, up, conn, login>>
BY DEF Write

LEMMA WriteKeepsNet ==
    ASSUME NetInv, NEW op, NEW values, Write(op, values), UNCHANGED <<down, shown>>
    PROVE  NetInv'
<1> USE DEF NetInv
<1>1. CASE /\ conn = "open" /\ conn' = "open"
           /\ Written(op, values, IF up = <<>> THEN "alone" ELSE "behind")
           /\ up' = Append(up, [n |-> Len(sent) + 1, whole |-> TRUE])
  <2> DEFINE new == [n |-> Len(sent) + 1, whole |-> TRUE]
  <2>1. /\ sent' \in Seq(Range(sent'))
        /\ Len(sent) \in Nat
        /\ DOMAIN sent = 1 .. Len(sent)
        /\ DOMAIN sent' = 1 .. Len(sent) + 1
        /\ \A n \in 1 .. Len(sent) : sent'[n] = sent[n]
        /\ sent'[Len(sent) + 1].when = IF up = <<>> THEN "alone" ELSE "behind"
    BY <1>1, WrittenFacts
  <2>2. new \in Unreads /\ new.n = Len(sent) + 1
    BY <2>1 DEF Unreads
  <2>3. up \in Seq(Unreads) /\ up' = Append(up, new)
    BY <1>1 DEF NetTyped
  <2> HIDE DEF new
  <2>4. /\ up' \in Seq(Unreads)
        /\ Len(up) \in Nat
        /\ DOMAIN up = 1 .. Len(up)
        /\ DOMAIN up' = 1 .. Len(up) + 1
        /\ \A i \in 1 .. Len(up) : up'[i] = up[i]
        /\ up'[Len(up) + 1] = new
        /\ up' # <<>>
    BY <2>2, <2>3, AppendProperties, LenProperties
  <2>5. \A i \in DOMAIN up' : up'[i].n = IF i = Len(up) + 1 THEN Len(sent) + 1 ELSE up[i].n
    BY <2>2, <2>4
  <2>6. NetTyped'
    BY <2>1, <2>4 DEF NetTyped
  <2>7. Ordered'
    <3>1. \A i \in DOMAIN up : up[i].n \in 1 .. Len(sent)
      BY <2>1 DEF Ordered, Numbered
    <3>2. Rising(up)'
      BY <2>1, <2>4, <2>5, <3>1 DEF Ordered, Rising
    <3>3. Before(shown, up)' /\ Before(down, up)'
      BY <2>1, <2>4, <2>5 DEF Ordered, Before, Numbered
    <3>4. Numbered(shown)' /\ Numbered(down)' /\ Numbered(up)'
      BY <2>1, <2>4, <2>5, <3>1 DEF Ordered, Numbered
    <3> QED
      BY <3>2, <3>3, <3>4 DEF Ordered, Rising, Before
  <2>8. AloneFirst'
    <3> SUFFICES ASSUME NEW n \in DOMAIN sent', sent'[n].when = "alone"
                 PROVE  \/ up' # <<>> /\ up'[1] = [n |-> n, whole |-> TRUE]
                        \/ \E i \in DOMAIN down : down[i].n = n
                        \/ \E i \in DOMAIN shown : shown[i].n = n
      BY DEF AloneFirst
    <3>1. CASE n \in DOMAIN sent /\ up # <<>>
      <4>1. 1 \in 1 .. Len(up)
        BY <2>3, <3>1, EmptySeq
      <4> QED
        BY <1>1, <2>1, <2>4, <3>1, <4>1 DEF AloneFirst
    <3>2. CASE n \in DOMAIN sent /\ up = <<>>
      BY <1>1, <2>1, <3>2 DEF AloneFirst
    <3>3. CASE n = Len(sent) + 1
      <4>1. up = <<>>
        BY <2>1, <3>3
      <4>2. Len(up) = 0
        BY <4>1
      <4> QED
        BY <2>4, <3>3, <4>2 DEF new
    <3> QED
      BY <2>1, <3>1, <3>2, <3>3
  <2> QED
    BY <2>6, <2>7, <2>8
<1>2. CASE conn' = "reset" /\ Written(op, values, "closed") /\ up' = up
  <2>1. /\ sent' \in Seq(Range(sent'))
        /\ Len(sent) \in Nat
        /\ DOMAIN sent = 1 .. Len(sent)
        /\ DOMAIN sent' = 1 .. Len(sent) + 1
    BY <1>2, WrittenFacts
  <2>2. DOMAIN sent \subseteq DOMAIN sent'
    BY <2>1
  <2> QED
    BY <1>2, <2>1, <2>2 DEF NetTyped, Ordered, Rising, Before, Numbered, AloneFirst
<1>3. CASE UNCHANGED <<sent, up, conn, login>>
  BY <1>3 DEF NetTyped, Ordered, Rising, Before, Numbered, AloneFirst
<1> QED
  BY <1>1, <1>2, <1>3, WriteCases
-----------------------------------------------------------------------------
\* The steps of the server and of the client's event loop.

\* One element more: every other one keeps its place.
LEMMA AppendFacts ==
    ASSUME NEW S, NEW list \in Seq(S), NEW e \in S
    PROVE  /\ Append(list, e) \in Seq(S)
           /\ Len(list) \in Nat
           /\ DOMAIN list = 1 .. Len(list)
           /\ DOMAIN Append(list, e) = 1 .. Len(list) + 1
           /\ Append(list, e)[Len(list) + 1] = e
           /\ \A i \in DOMAIN list : Append(list, e)[i] = list[i]
           /\ \A i \in DOMAIN Append(list, e) : i = Len(list) + 1 \/ i \in DOMAIN list
<1> DEFINE longer == Append(list, e)
<1>1. Len(list) \in Nat /\ DOMAIN list = 1 .. Len(list)
  BY LenProperties
<1>2. /\ longer \in Seq(S)
      /\ Len(longer) = Len(list) + 1
      /\ \A i \in 1 .. Len(list) : longer[i] = list[i]
      /\ longer[Len(list) + 1] = e
  BY AppendProperties
<1> HIDE DEF longer
<1>3. DOMAIN longer = 1 .. Len(list) + 1
  BY <1>2, LenProperties
<1>4. \A i \in DOMAIN longer : i = Len(list) + 1 \/ i \in DOMAIN list
  BY <1>1, <1>3
<1> QED
  BY <1>1, <1>2, <1>3, <1>4 DEF longer

\* The numbers of a list are those behind the first k of another.
Shifted(part, list, k) == /\ Len(part) = Len(list) - k
                          /\ \A i \in 1 .. Len(part) : part[i].n = list[i + k].n

\* A part of a list that rises, rises.
LEMMA PartRises ==
    ASSUME NEW S, NEW list \in Seq(S), NEW part \in Seq(S), NEW k \in Nat,
           Shifted(part, list, k), Rising(list)
    PROVE  Rising(part)
<1>1. DOMAIN list = 1 .. Len(list) /\ Len(list) \in Nat
  BY LenProperties
<1>2. DOMAIN part = 1 .. Len(part) /\ Len(part) \in Nat
  BY LenProperties
<1> SUFFICES ASSUME NEW i \in DOMAIN part, NEW j \in DOMAIN part, i < j
             PROVE  part[i].n < part[j].n
  BY DEF Rising
<1>3. i + k \in DOMAIN list /\ j + k \in DOMAIN list /\ i + k < j + k
  BY <1>1, <1>2 DEF Shifted
<1>4. list[i + k].n < list[j + k].n
  BY <1>3 DEF Rising
<1>5. part[i].n = list[i + k].n /\ part[j].n = list[j + k].n
  BY <1>2 DEF Shifted
<1> QED
  BY <1>4, <1>5

\* What stays unread after a read of k requests.
LEMMA UnreadFacts ==
    ASSUME NetTyped, NEW k \in Nat \ {0}, k <= Len(up), NEW u \in Unread(k)
    PROVE  /\ u \in Seq(Unreads)
           /\ Shifted(u, up, k)
<1>1. /\ up \in Seq(Unreads)
      /\ Len(up) \in Nat
      /\ \A i \in 1 .. Len(up) : up[i] \in Unreads
  BY ElementOfSeq, LenProperties DEF NetTyped
<1>2. /\ Rest(k) \in Seq(Unreads)
      /\ Len(Rest(k)) = Len(up) - k
      /\ \A i \in 1 .. Len(up) - k : Rest(k)[i] = up[i + k]
  <2>1. \A i \in k + 1 .. Len(up) : up[i] \in Unreads
    BY <1>1
  <2> QED
    BY <1>1, <2>1, SubSeqProperties DEF Rest
<1>3. CASE u = Rest(k)
  BY <1>2, <1>3 DEF Shifted
<1>4. CASE /\ k < Len(up)
           /\ u = [Rest(k) EXCEPT ![1] = [n |-> Rest(k)[1].n, whole |-> FALSE]]
  <2> DEFINE rest == Rest(k)
             first == [n |-> rest[1].n, whole |-> FALSE]
  <2>1. 1 \in 1 .. Len(rest) /\ rest \in Seq(Unreads) /\ u = [rest EXCEPT ![1] = first]
    BY <1>1, <1>2, <1>4
  <2>2. first \in Unreads /\ first.n = rest[1].n
    BY <2>1, ElementOfSeq DEF Unreads
  <2> HIDE DEF first, rest
  <2>3. /\ u \in Seq(Unreads)
        /\ Len(u) = Len(rest)
        /\ \A i \in 1 .. Len(rest) : u[i] = IF i = 1 THEN first ELSE rest[i]
    BY <2>1, <2>2, ExceptSeq
  <2>4. \A i \in 1 .. Len(rest) : u[i].n = rest[i].n
    BY <2>2, <2>3
  <2> QED
    BY <1>2, <2>3, <2>4 DEF rest, Shifted
<1> QED
  BY <1>3, <1>4 DEF Unread

\* An answer to the first of the unread requests.
LEMMA AnswerKeepsOrder ==
    ASSUME NetInv, NEW k \in Nat \ {0}, k <= Len(up), NEW code \in Codes,
           down' = Append(down, [n |-> up[1].n, code |-> code]),
           up' \in Seq(Unreads),
           up' = <<>> \/ Shifted(up', up, k),
           UNCHANGED <<sent, shown>>
    PROVE  /\ NetTyped' /\ Ordered'
           /\ \E i \in DOMAIN down' : down'[i].n = up[1].n
           /\ \A i \in DOMAIN down : \E j \in DOMAIN down' : down'[j].n = down[i].n
<1> DEFINE new == [n |-> up[1].n, code |-> code]
<1>1. /\ up \in Seq(Unreads) /\ down \in Seq(Answered)
      /\ Len(up) \in Nat /\ Len(down) \in Nat
      /\ DOMAIN up = 1 .. Len(up) /\ DOMAIN down = 1 .. Len(down)
      /\ up \in [1 .. Len(up) -> Unreads]
      /\ 1 \in 1 .. Len(up)
  BY LenProperties DEF NetInv, NetTyped
<1>2. new \in Answered /\ new.n = up[1].n
  BY <1>1 DEF Answered, Unreads
<1> HIDE DEF new
<1>3. /\ down' \in Seq(Answered)
      /\ Len(down) + 1 \in DOMAIN down'
      /\ down'[Len(down) + 1] = new
      /\ \A i \in DOMAIN down : i \in DOMAIN down' /\ down'[i] = down[i]
      /\ \A i \in DOMAIN down' : i = Len(down) + 1 \/ i \in DOMAIN down
  <2>1. down' = Append(down, new)
    BY DEF new
  <2>2. /\ Append(down, new) \in Seq(Answered)
        /\ DOMAIN Append(down, new) = 1 .. Len(down) + 1
        /\ Append(down, new)[Len(down) + 1] = new
        /\ \A i \in DOMAIN down : Append(down, new)[i] = down[i]
        /\ \A i \in DOMAIN Append(down, new) : i = Len(down) + 1 \/ i \in DOMAIN down
    BY <1>1, <1>2, AppendFacts
  <2>3. \A i \in DOMAIN down : i \in 1 .. Len(down) + 1
    BY <1>1
  <2> QED
    BY <1>1, <2>1, <2>2, <2>3
<1>4. /\ DOMAIN up' = 1 .. Len(up')
      /\ Len(up') \in Nat
      /\ Rising(up')
      /\ \A i \in DOMAIN up' : \E j \in DOMAIN up : j > 1 /\ up'[i].n = up[j].n
  <2>1. DOMAIN up' = 1 .. Len(up') /\ Len(up') \in Nat
    BY LenProperties
  <2>2. CASE up' = <<>>
    BY <2>1, <2>2 DEF Rising
  <2>3. CASE Shifted(up', up, k)
    <3>1. Rising(up')
      BY <1>1, <2>3, PartRises DEF NetInv, Ordered
    <3>2. \A i \in DOMAIN up' : i + k \in DOMAIN up /\ i + k > 1
      BY <1>1, <2>1, <2>3 DEF Shifted
    <3> QED
      BY <2>1, <2>3, <3>1, <3>2 DEF Shifted
  <2> QED
    BY <2>2, <2>3
<1>5. /\ shown' = shown
      /\ Rising(shown) /\ Rising(down) /\ Rising(up)
      /\ Before(shown, down) /\ Before(shown, up) /\ Before(down, up)
  BY DEF NetInv, Ordered
<1>6. \A i \in DOMAIN down' :
         \/ i = Len(down) + 1 /\ down'[i].n = up[1].n
         \/ i \in DOMAIN down /\ down'[i].n = down[i].n
  BY <1>1, <1>2, <1>3
<1>7. NetTyped'
  BY <1>3 DEF NetInv, NetTyped
<1>8. Rising(down')
  <2> SUFFICES ASSUME NEW i \in DOMAIN down', NEW j \in DOMAIN down', i < j
               PROVE  down'[i].n < down'[j].n
    BY DEF Rising
  <2>1. i \in DOMAIN down /\ down'[i].n = down[i].n
    <3>1. i # Len(down) + 1
      <4>1. j <= Len(down) + 1
        BY <1>1, <1>3
      <4> QED
        BY <1>1, <1>3, <4>1
    <3> QED
      BY <1>3, <3>1
  <2>2. CASE j \in DOMAIN down /\ down'[j].n = down[j].n
    BY <1>5, <2>1, <2>2 DEF Rising
  <2>3. CASE down'[j].n = up[1].n
    BY <1>1, <1>5, <2>1, <2>3 DEF Before
  <2> QED
    BY <1>6, <2>2, <2>3
<1>9. Before(shown, down') /\ Before(shown, up')
  <2>1. ASSUME NEW i \in DOMAIN shown, NEW j \in DOMAIN down'
        PROVE  shown[i].n < down'[j].n
    BY <1>1, <1>5, <1>6 DEF Before
  <2>2. ASSUME NEW i \in DOMAIN shown, NEW j \in DOMAIN up'
        PROVE  shown[i].n < up'[j].n
    BY <1>4, <1>5 DEF Before
  <2> QED
    BY <2>1, <2>2 DEF Before
<1>10. Before(down', up')
  <2> SUFFICES ASSUME NEW i \in DOMAIN down', NEW j \in DOMAIN up'
               PROVE  down'[i].n < up'[j].n
    BY DEF Before
  <2>1. PICK l \in DOMAIN up : l > 1 /\ up'[j].n = up[l].n
    BY <1>4
  <2>2. up[1].n < up[l].n
    BY <1>1, <1>5, <2>1 DEF Rising
  <2>3. CASE i \in DOMAIN down /\ down'[i].n = down[i].n
    BY <1>5, <2>1, <2>3 DEF Before
  <2>4. CASE down'[i].n = up[1].n
    BY <2>1, <2>2, <2>4
  <2> QED
    BY <1>6, <2>3, <2>4
<1>11. /\ \A i \in DOMAIN down' : down'[i].n \in DOMAIN sent
       /\ \A i \in DOMAIN up' : up'[i].n \in DOMAIN sent
  <2>1. Numbered(down) /\ Numbered(up)
    BY DEF NetInv, Ordered
  <2>2. ASSUME NEW i \in DOMAIN down'
        PROVE  down'[i].n \in DOMAIN sent
    BY <1>1, <1>6, <2>1 DEF Numbered
  <2>3. ASSUME NEW i \in DOMAIN up'
        PROVE  up'[i].n \in DOMAIN sent
    BY <1>4, <2>1 DEF Numbered
  <2> QED
    BY <2>2, <2>3
<1>12. Ordered'
  BY <1>4, <1>8, <1>9, <1>10, <1>11 DEF NetInv, Ordered, Rising, Before, Numbered
<1>13. /\ \E i \in DOMAIN down' : down'[i].n = up[1].n
       /\ \A i \in DOMAIN down : \E j \in DOMAIN down' : down'[j].n = down[i].n
  BY <1>1, <1>3, <1>6
<1> QED
  BY <1>7, <1>12, <1>13
\* The code of an answer is one of those of the protocol.
LEMMA AnswerCoded == \A n, text : AnswerTo(n, text).code \in Codes
<1>1. \A op, b : Code(op, b) \in Codes
  BY DEF Code, Codes
<1> QED
  BY <1>1 DEF AnswerTo

LEMMA ServeKeepsNet == NetInv /\ Serve => NetInv'
<1> SUFFICES ASSUME NetInv, Serve
             PROVE  NetInv'
  OBVIOUS
<1>1. PICK k \in 1 .. ReadMax :
          /\ k <= Len(up) /\ up[1].whole
          /\ \E answer \in {AnswerTo(up[1].n, TextRead(k))} :
                down' = Append(down, [n |-> up[1].n, code |-> answer.code])
          /\ up' \in Unread(k)
  BY DEF Serve, Handled
<1>2. PICK code \in Codes : down' = Append(down, [n |-> up[1].n, code |-> code])
  BY <1>1, AnswerCoded
<1>3. k \in Nat \ {0} /\ UNCHANGED <<sent, shown>> /\ conn = "open" /\ conn' = "open"
  BY ClientAssumption DEF Serve
<1>4. up' \in Seq(Unreads) /\ Shifted(up', up, k)
  BY <1>1, <1>3, UnreadFacts DEF NetInv
<1>5. /\ NetTyped' /\ Ordered'
      /\ \E i \in DOMAIN down' : down'[i].n = up[1].n
      /\ \A i \in DOMAIN down : \E j \in DOMAIN down' : down'[j].n = down[i].n
  BY <1>1, <1>2, <1>3, <1>4, AnswerKeepsOrder
<1>6. AloneFirst'
  <2> SUFFICES ASSUME NEW n \in DOMAIN sent, sent[n].when = "alone"
               PROVE  \/ \E i \in DOMAIN down' : down'[i].n = n
                      \/ \E i \in DOMAIN shown : shown[i].n = n
    BY <1>3 DEF AloneFirst
  <2>1. \/ up[1] = [n |-> n, whole |-> TRUE]
        \/ \E i \in DOMAIN down : down[i].n = n
        \/ \E i \in DOMAIN shown : shown[i].n = n
    BY <1>3 DEF NetInv, AloneFirst
  <2> QED
    BY <1>5, <2>1
<1> QED
  BY <1>5, <1>6 DEF NetInv

LEMMA ServeTailKeepsNet == NetInv /\ ServeTail => NetInv'
<1> SUFFICES ASSUME NetInv, ServeTail
             PROVE  NetInv'
  OBVIOUS
<1>1. PICK k \in 1 .. ReadMax :
          /\ k <= Len(up) /\ ~up[1].whole
          /\ \/ up' \in Unread(k) /\ UNCHANGED <<conn, down>>
             \/ /\ up' = <<>> /\ conn' \in {"closed", "reset"}
                /\ down' = Append(down, [n |-> up[1].n, code |-> "BAD_REQUEST"])
  BY DEF ServeTail
<1>2. k \in Nat \ {0} /\ UNCHANGED <<sent, shown>> /\ conn = "open"
  BY ClientAssumption DEF ServeTail
<1>3. CASE up' \in Unread(k) /\ UNCHANGED <<conn, down>>
  <2>1. up' \in Seq(Unreads) /\ Shifted(up', up, k)
    BY <1>1, <1>2, <1>3, UnreadFacts DEF NetInv
  <2>2. /\ up \in Seq(Unreads)
        /\ DOMAIN up = 1 .. Len(up) /\ Len(up) \in Nat
        /\ DOMAIN up' = 1 .. Len(up') /\ Len(up') \in Nat
    BY <2>1, LenProperties DEF NetInv, NetTyped
  <2>3. Rising(up')
    BY <1>2, <2>1, <2>2, PartRises DEF NetInv, Ordered
  <2>4. \A i \in DOMAIN up' : i + k \in DOMAIN up /\ up'[i].n = up[i + k].n
    BY <1>2, <2>1, <2>2 DEF Shifted
  <2>5. Before(shown, up') /\ Before(down, up') /\ Numbered(up')
    BY <2>4 DEF NetInv, Ordered, Before, Numbered
  <2>6. Ordered' /\ NetTyped'
    BY <1>2, <1>3, <2>1, <2>3, <2>5
    DEF NetInv, NetTyped, Ordered, Rising, Before, Numbered
  <2>7. AloneFirst'
    BY <1>1, <1>2, <1>3 DEF NetInv, AloneFirst
  <2> QED
    BY <2>6, <2>7 DEF NetInv
<1>4. CASE /\ up' = <<>> /\ conn' \in {"closed", "reset"}
           /\ down' = Append(down, [n |-> up[1].n, code |-> "BAD_REQUEST"])
  <2>1. up' \in Seq(Unreads) /\ "BAD_REQUEST" \in Codes
    BY <1>4, EmptySeq DEF Codes
  <2>2. NetTyped' /\ Ordered'
    BY <1>1, <1>2, <1>4, <2>1, AnswerKeepsOrder
  <2> QED
    BY <1>4, <2>2 DEF NetInv, AloneFirst
<1> QED
  BY <1>1, <1>3, <1>4

LEMMA ServerDiesKeepsNet == NetInv /\ ServerDies => NetInv'
<1> SUFFICES ASSUME NetInv, ServerDies
             PROVE  NetInv'
  OBVIOUS
<1>1. up' = <<>> /\ conn' # "open" /\ UNCHANGED <<sent, down, shown>>
  BY DEF ServerDies
<1>2. up' \in Seq(Unreads) /\ DOMAIN up' = {}
  BY <1>1, EmptySeq
<1> QED
  BY <1>1, <1>2 DEF NetInv, NetTyped, Ordered, Rising, Before, Numbered, AloneFirst

\* Answers that are printed move from one list to the other.
LEMMA ShowAnswersKeepsNet == NetInv /\ ShowAnswers => NetInv'
<1> SUFFICES ASSUME NetInv, ShowAnswers
             PROVE  NetInv'
  OBVIOUS
<1>1. PICK k \in 1 .. Len(down) :
          /\ shown' = shown \o SubSeq(down, 1, k)
          /\ down' = SubSeq(down, k + 1, Len(down))
  BY DEF ShowAnswers
<1>2. UNCHANGED <<sent, up, conn>>
  BY DEF ShowAnswers
<1>3. /\ down \in Seq(Answered) /\ shown \in Seq(Answered)
      /\ Len(down) \in Nat /\ Len(shown) \in Nat
      /\ DOMAIN down = 1 .. Len(down) /\ DOMAIN shown = 1 .. Len(shown)
      /\ down \in [1 .. Len(down) -> Answered]
      /\ k \in Nat \ {0} /\ k <= Len(down)
  BY LenProperties DEF NetInv, NetTyped
<1>4. /\ SubSeq(down, 1, k) \in Seq(Answered)
      /\ Len(SubSeq(down, 1, k)) = k
      /\ \A i \in 1 .. k : SubSeq(down, 1, k)[i] = down[i]
  <2>1. \A i \in 1 .. k : down[i] \in Answered
    BY <1>3
  <2> QED
    BY <1>3, <2>1, SubSeqProperties
<1>5. /\ down' \in Seq(Answered)
      /\ Len(down') = Len(down) - k
      /\ \A i \in 1 .. Len(down) - k : down'[i] = down[i + k]
  <2>1. \A i \in k + 1 .. Len(down) : down[i] \in Answered
    BY <1>3
  <2>2. /\ down' \in Seq(Answered)
        /\ Len(down') = IF k + 1 <= Len(down) THEN Len(down) - (k + 1) + 1 ELSE 0
        /\ \A i \in 1 .. Len(down) - (k + 1) + 1 : down'[i] = down[(k + 1) + i - 1]
    BY <1>1, <1>3, <2>1, SubSeqProperties
  <2>3. Len(down') = Len(down) - k
    <3>1. (IF k + 1 <= Len(down) THEN Len(down) - (k + 1) + 1 ELSE 0) = Len(down) - k
      <4> DEFINE l == Len(down)
      <4>1. l \in Nat /\ k \in Nat /\ k <= l
        BY <1>3
      <4> HIDE DEF l
      <4>2. (IF k + 1 <= l THEN l - (k + 1) + 1 ELSE 0) = l - k
        BY <4>1
      <4> QED
        BY <4>2 DEF l
    <3> QED
      BY <2>2, <3>1
  <2>4. ASSUME NEW i \in 1 .. Len(down) - k
        PROVE  down'[i] = down[i + k]
    <3>1. i \in 1 .. Len(down) - (k + 1) + 1 /\ (k + 1) + i - 1 = i + k
      BY <1>3
    <3> QED
      BY <2>2, <3>1
  <2> QED
    BY <2>2, <2>3, <2>4
<1>6. /\ shown' \in Seq(Answered)
      /\ Len(shown') = Len(shown) + k
      /\ \A i \in 1 .. Len(shown) + k :
            shown'[i] = IF i <= Len(shown) THEN shown[i] ELSE down[i - Len(shown)]
  <2> DEFINE part == SubSeq(down, 1, k)
  <2>1. part \in Seq(Answered) /\ Len(part) = k /\ \A i \in 1 .. k : part[i] = down[i]
    BY <1>4
  <2>2. shown' = shown \o part /\ shown \in Seq(Answered)
    BY <1>1, <1>3
  <2> HIDE DEF part
  <2>3. /\ shown \o part \in Seq(Answered)
        /\ Len(shown \o part) = Len(shown) + Len(part)
        /\ \A i \in 1 .. Len(shown) + Len(part) :
              (shown \o part)[i] = IF i <= Len(shown) THEN shown[i] ELSE part[i - Len(shown)]
    BY <2>1, <2>2, ConcatProperties
  <2> DEFINE longer == shown \o part
  <2>4. /\ longer \in Seq(Answered)
        /\ Len(longer) = Len(shown) + k
        /\ \A i \in 1 .. Len(shown) + k :
              longer[i] = IF i <= Len(shown) THEN shown[i] ELSE part[i - Len(shown)]
    BY <2>1, <2>3
  <2> HIDE DEF longer
  <2>5. \A i \in 1 .. Len(shown) + k : ~(i <= Len(shown)) => i - Len(shown) \in 1 .. k
    BY <1>3
  <2> QED
    BY <2>1, <2>2, <2>4, <2>5 DEF longer
<1>7. DOMAIN shown' = 1 .. Len(shown) + k /\ DOMAIN down' = 1 .. Len(down) - k
  BY <1>5, <1>6, LenProperties
<1>8. \A i \in DOMAIN down' : i + k \in DOMAIN down /\ down'[i].n = down[i + k].n
  BY <1>3, <1>5, <1>7
<1>9. \A i \in DOMAIN shown' :
         \/ i \in DOMAIN shown /\ shown'[i].n = shown[i].n
         \/ /\ i > Len(shown) /\ i - Len(shown) \in DOMAIN down
            /\ i - Len(shown) <= k /\ shown'[i].n = down[i - Len(shown)].n
  <2> SUFFICES ASSUME NEW i \in DOMAIN shown'
               PROVE  \/ i \in DOMAIN shown /\ shown'[i].n = shown[i].n
                      \/ /\ i > Len(shown) /\ i - Len(shown) \in DOMAIN down
                         /\ i - Len(shown) <= k /\ shown'[i].n = down[i - Len(shown)].n
    OBVIOUS
  <2>1. i \in 1 .. Len(shown) + k
    BY <1>7
  <2>2. CASE i <= Len(shown)
    <3>1. i \in DOMAIN shown
      BY <1>3, <2>1, <2>2
    <3> QED
      BY <1>6, <2>1, <2>2, <3>1
  <2>3. CASE ~(i <= Len(shown))
    <3>1. i > Len(shown) /\ i - Len(shown) \in DOMAIN down /\ i - Len(shown) <= k
      BY <1>3, <2>1, <2>3
    <3> QED
      BY <1>6, <2>1, <2>3, <3>1
  <2> QED
    BY <2>2, <2>3
<1>10. /\ Rising(shown) /\ Rising(down) /\ Rising(up)
       /\ Before(shown, down) /\ Before(shown, up) /\ Before(down, up)
       /\ Numbered(shown) /\ Numbered(down) /\ Numbered(up)
  BY DEF NetInv, Ordered
<1>11. Rising(down')
  <2>1. Shifted(down', down, k)
    BY <1>5, <1>7, <1>8 DEF Shifted
  <2> QED
    BY <1>3, <1>5, <1>10, <2>1, PartRises
<1>12. Rising(shown')
  <2> SUFFICES ASSUME NEW i \in DOMAIN shown', NEW j \in DOMAIN shown', i < j
               PROVE  shown'[i].n < shown'[j].n
    BY DEF Rising
  <2> DEFINE d == Len(shown)
  <2>1. CASE i \in DOMAIN shown /\ shown'[i].n = shown[i].n
    <3>1. CASE j \in DOMAIN shown /\ shown'[j].n = shown[j].n
      BY <1>10, <2>1, <3>1 DEF Rising
    <3>2. CASE j - d \in DOMAIN down /\ shown'[j].n = down[j - d].n
      BY <1>10, <2>1, <3>2 DEF Before
    <3> QED
      BY <1>9, <3>1, <3>2
  <2>2. CASE /\ i > d /\ i - d \in DOMAIN down
             /\ shown'[i].n = down[i - d].n
    <3>1. j - d \in DOMAIN down /\ shown'[j].n = down[j - d].n /\ i - d < j - d
      BY <1>3, <1>7, <1>9, <2>2
    <3> QED
      BY <1>10, <2>2, <3>1 DEF Rising
  <2> QED
    BY <1>9, <2>1, <2>2
<1>13. Before(shown', down')
  <2> SUFFICES ASSUME NEW i \in DOMAIN shown', NEW j \in DOMAIN down'
               PROVE  shown'[i].n < down'[j].n
    BY DEF Before
  <2> DEFINE d == Len(shown)
  <2>1. j + k \in DOMAIN down /\ down'[j].n = down[j + k].n
    BY <1>8
  <2>2. CASE i \in DOMAIN shown /\ shown'[i].n = shown[i].n
    BY <1>10, <2>1, <2>2 DEF Before
  <2>3. CASE /\ i - d \in DOMAIN down /\ i - d <= k
             /\ shown'[i].n = down[i - d].n
    <3>1. i - d < j + k
      BY <1>3, <1>7, <2>3
    <3> QED
      BY <1>10, <2>1, <2>3, <3>1 DEF Rising
  <2> QED
    BY <1>9, <2>2, <2>3
<1>14. Before(shown', up) /\ Before(down', up)
  <2>1. ASSUME NEW i \in DOMAIN shown', NEW j \in DOMAIN up
        PROVE  shown'[i].n < up[j].n
    BY <1>9, <1>10 DEF Before
  <2>2. ASSUME NEW i \in DOMAIN down', NEW j \in DOMAIN up
        PROVE  down'[i].n < up[j].n
    BY <1>8, <1>10 DEF Before
  <2> QED
    BY <2>1, <2>2 DEF Before
<1>15. Numbered(shown') /\ Numbered(down')
  BY <1>8, <1>9, <1>10 DEF Numbered
<1>16. Ordered' /\ NetTyped'
  BY <1>2, <1>5, <1>6, <1>10, <1>11, <1>12, <1>13, <1>14, <1>15
  DEF NetInv, NetTyped, Ordered, Rising, Before, Numbered
<1>17. AloneFirst'
  <2> SUFFICES ASSUME NEW n, \E i \in DOMAIN down : down[i].n = n
               PROVE  \/ \E i \in DOMAIN down' : down'[i].n = n
                      \/ \E i \in DOMAIN shown' : shown'[i].n = n
    <3>1. \A i \in DOMAIN shown : i \in DOMAIN shown' /\ shown'[i].n = shown[i].n
      BY <1>3, <1>6, <1>7
    <3> SUFFICES ASSUME NEW n \in DOMAIN sent, conn = "open", sent[n].when = "alone"
                 PROVE  \/ up # <<>> /\ up[1] = [n |-> n, whole |-> TRUE]
                        \/ \E i \in DOMAIN down' : down'[i].n = n
                        \/ \E i \in DOMAIN shown' : shown'[i].n = n
      BY <1>2 DEF AloneFirst
    <3>2. \/ up # <<>> /\ up[1] = [n |-> n, whole |-> TRUE]
          \/ \E i \in DOMAIN down : down[i].n = n
          \/ \E i \in DOMAIN shown : shown[i].n = n
      BY DEF NetInv, AloneFirst
    <3> QED
      BY <3>1, <3>2
  <2>1. PICK i \in DOMAIN down : down[i].n = n
    OBVIOUS
  <2>2. CASE i <= k
    <3>1. /\ i + Len(shown) \in DOMAIN shown' /\ ~(i + Len(shown) <= Len(shown))
          /\ i + Len(shown) - Len(shown) = i
      BY <1>3, <1>7, <2>2
    <3>2. shown'[i + Len(shown)] = down[i]
      BY <1>6, <1>7, <3>1
    <3> QED
      BY <2>1, <3>1, <3>2
  <2>3. CASE i > k
    <3>1. i - k \in DOMAIN down' /\ (i - k) + k = i
      BY <1>3, <1>7, <2>3
    <3> QED
      BY <1>8, <2>1, <3>1
  <2> QED
    BY <1>3, <2>2, <2>3
<1> QED
  BY <1>16, <1>17 DEF NetInv
-----------------------------------------------------------------------------
\* All the steps.

\* The steps that leave the network and the login alone.
Quiet == UNCHANGED <<sent, up, conn, down, shown, login>>

\* What a step may be.
LEMMA StepCases ==
    ASSUME [Next]_vars
    PROVE  \/ Quiet
           \/ \E op \in Ops : \E values : Write(op, values) /\ UNCHANGED <<down, shown>>
           \/ Serve \/ ServeTail \/ ServerDies \/ ShowAnswers
<1> USE DEF Quiet, network, control, ToSelect
<1>1. CASE Select
  BY <1>1 DEF Select, Run, Ops, FieldsOf
<1>2. CASE Skip \/ Cancel \/ EndOfInput \/ ReadType \/ ReadCount
  BY <1>2 DEF Skip, Cancel, EndOfInput, ReadType, ReadCount
<1>3. CASE ReadField \/ ReadMember
  BY <1>3 DEF ReadField, ReadMember
<1>4. CASE AskFriends
  BY <1>4 DEF AskFriends, Ops, FieldsOf
<1>5. CASE Submit
  BY <1>5 DEF Submit, Forms, FormOf, Ops, FieldsOf
<1>6. CASE LoopEnds \/ Exit
  BY <1>6 DEF LoopEnds, Exit
<1>7. CASE UNCHANGED vars
  BY <1>7 DEF vars
<1> QED
  BY <1>1, <1>2, <1>3, <1>4, <1>5, <1>6, <1>7
  DEF Next, ControlStep, LoopStep, ServerStep

LEMMA NetStep ==
    ASSUME NetInv, [Next]_vars
    PROVE  NetInv'
<1>1. CASE Quiet
  BY <1>1 DEF Quiet, NetInv, NetTyped, Ordered, Rising, Before, Numbered, AloneFirst
<1>2. ASSUME NEW op \in Ops, NEW values, Write(op, values), UNCHANGED <<down, shown>>
      PROVE  NetInv'
  BY <1>2, WriteKeepsNet
<1> QED
  BY <1>1, <1>2, StepCases, ServeKeepsNet, ServeTailKeepsNet, ServerDiesKeepsNet,
     ShowAnswersKeepsNet
-----------------------------------------------------------------------------
\* The login.

\* A request written in the name of whoever is logged in.
LEMMA WriteKeepsLogin ==
    ASSUME NetTyped, LoginInv, NEW op, NEW values, Write(op, values),
           op \in {"friends", "create", "invite"} =>
               login # <<>> /\ values["user_id"] = login,
           form' \in {"create", "invite"} => login # <<>> /\ op # "login"
    PROVE  LoginInv'
<1>1. CASE \E when : Written(op, values, when)
  <2>1. PICK when : Written(op, values, when)
    BY <1>1
  <2> DEFINE n == Len(sent) + 1
  <2>2. /\ n \in Nat /\ n \in DOMAIN sent' /\ n \notin DOMAIN sent
        /\ DOMAIN sent = 1 .. n - 1
        /\ DOMAIN sent' = 1 .. n
        /\ \A i \in 1 .. n - 1 : sent'[i] = sent[i]
        /\ sent'[n].op = op /\ sent'[n].v = values
        /\ login' = LoginAfter(op, values)
    BY <2>1, WrittenFacts
  <2> HIDE DEF n
  <2>3. form' \in {"create", "invite"} => login' # <<>>
    BY <2>2 DEF LoginAfter
  <2>4. CASE op = "login"
    <3>1. LastLogin'
      BY <2>2, <2>4 DEF LastLogin, LoginAfter
    <3>2. IdentityWasSent'
      BY <2>2, <2>4 DEF LoginInv, IdentityWasSent
    <3> QED
      BY <2>3, <3>1, <3>2 DEF LoginInv
  <2>5. CASE op # "login"
    <3>1. login' = login
      BY <2>2, <2>5 DEF LoginAfter
    <3>2. LastLogin'
      BY <2>2, <2>5, <3>1 DEF LoginInv, LastLogin
    <3>3. ASSUME op \in {"friends", "create", "invite"}
          PROVE  \E m \in 1 .. n - 1 :
                     /\ sent'[m].op = "login" /\ sent'[m].v["user_id"] = sent'[n].v["user_id"]
                     /\ \A i \in m + 1 .. n - 1 : sent'[i].op # "login"
      <4>1. PICK m \in 1 .. n - 1 :
                /\ sent[m].op = "login" /\ sent[m].v["user_id"] = login
                /\ \A i \in 1 .. n - 1 : i > m => sent[i].op # "login"
        BY <2>2, <3>3 DEF LoginInv, LastLogin
      <4>2. \A i \in m + 1 .. n - 1 : i \in 1 .. n - 1 /\ i > m
        BY <2>2
      <4> QED
        BY <2>2, <3>3, <4>1, <4>2
    <3>4. IdentityWasSent'
      <4> SUFFICES ASSUME NEW l \in DOMAIN sent',
                          sent'[l].op \in {"friends", "create", "invite"}
                   PROVE  \E m \in 1 .. l - 1 :
                              /\ sent'[m].op = "login"
                              /\ sent'[m].v["user_id"] = sent'[l].v["user_id"]
                              /\ \A i \in m + 1 .. l - 1 : sent'[i].op # "login"
        BY DEF IdentityWasSent
      <4>1. CASE l = n
        BY <2>2, <3>3, <4>1
      <4>2. CASE l \in 1 .. n - 1
        <5>1. PICK m \in 1 .. l - 1 :
                  /\ sent[m].op = "login" /\ sent[m].v["user_id"] = sent[l].v["user_id"]
                  /\ \A i \in m + 1 .. l - 1 : sent[i].op # "login"
          BY <2>2, <4>2 DEF LoginInv, IdentityWasSent
        <5>2. m \in 1 .. n - 1 /\ \A i \in m + 1 .. l - 1 : i \in 1 .. n - 1
          BY <2>2, <4>2
        <5> QED
          BY <2>2, <4>2, <5>1, <5>2
      <4> QED
        BY <2>2, <4>1, <4>2
    <3> QED
      BY <2>3, <3>2, <3>4 DEF LoginInv
  <2> QED
    BY <2>4, <2>5
<1>2. CASE UNCHANGED <<sent, up, conn, login>>
  BY <1>2 DEF LoginInv, LastLogin, IdentityWasSent
<1> QED
  BY <1>1, <1>2, WriteCases

LEMMA SameLogin ==
    ASSUME LoginInv, UNCHANGED <<sent, login>>,
           form' \in {"create", "invite"} => form' = form \/ login # <<>>
    PROVE  LoginInv'
BY DEF LoginInv, LastLogin, IdentityWasSent

LEMMA LoginStep ==
    ASSUME ClientInv, [Next]_vars
    PROVE  LoginInv'
<1> USE DEF ClientInv, NetInv
<1>1. CASE Select
  <2>1. PICK command : Run(command) /\ UNCHANGED <<down, shown>>
    BY <1>1 DEF Select
  <2>2. CASE /\ command \in {"create", "invite"} => LoggedIn
             /\ form' = command
             /\ UNCHANGED <<login, sent>>
    BY <2>2, SameLogin DEF LoggedIn
  <2>3. CASE /\ LoggedIn /\ Write("friends", [user_id |-> login])
             /\ UNCHANGED form
    BY <2>3, WriteKeepsLogin DEF LoggedIn, LoginInv
  <2>4. CASE Write("list", <<>>) /\ UNCHANGED form
    BY <2>4, WriteKeepsLogin DEF LoginInv
  <2>5. CASE UNCHANGED <<form, login, sent>>
    BY <2>5, SameLogin
  <2> QED
    BY <2>1, <2>2, <2>3, <2>4, <2>5 DEF Run
<1>2. CASE Skip \/ Cancel \/ EndOfInput \/ ReadField \/ ReadType \/ ReadCount \/ ReadMember
  <2>1. UNCHANGED <<sent, login>> /\ form' \in {form, "select", "eof"}
    <3>1. CASE ReadField \/ ReadMember
      BY <3>1 DEF ReadField, ReadMember, ReadLine, ToSelect, network
    <3> QED
      BY <1>2, <3>1 DEF Skip, Cancel, EndOfInput, ReadType, ReadCount, ToSelect, network
  <2> QED
    BY <2>1, SameLogin
<1>3. CASE AskFriends
  BY <1>3, WriteKeepsLogin DEF AskFriends, LoginInv
<1>4. CASE Submit
  <2>1. Write(form, Values) /\ form' = "select"
    BY <1>4 DEF Submit, ToSelect
  <2>2. form \in {"create", "invite"} => login # <<>> /\ Values["user_id"] = login
    BY DEF LoginInv, Values
  <2>3. form # "friends"
    BY <1>4 DEF Submit, Forms, FormOf
  <2> QED
    BY <2>1, <2>2, <2>3, WriteKeepsLogin
<1>5. CASE \/ LoopStep \/ ServerStep \/ UNCHANGED vars
  <2>1. UNCHANGED <<sent, login, form>>
    BY <1>5 DEF LoopStep, ShowAnswers, LoopEnds, Exit, ServerStep, Serve, ServeTail,
                ServerDies, control, network, vars
  <2> QED
    BY <2>1, SameLogin
<1> QED
  BY <1>1, <1>2, <1>3, <1>4, <1>5 DEF Next, ControlStep

-----------------------------------------------------------------------------
LEMMA InitClient == Init => ClientInv
<1> SUFFICES ASSUME Init
             PROVE  ClientInv
  OBVIOUS
<1>1. \A S : <<>> \in Seq(S)
  BY EmptySeq
<1>2. sent = <<>> /\ up = <<>> /\ down = <<>> /\ shown = <<>> /\ login = <<>>
  BY DEF Init
<1>3. NetTyped
  BY <1>1, <1>2 DEF NetTyped
<1>4. /\ DOMAIN sent = {} /\ DOMAIN up = {} /\ DOMAIN down = {} /\ DOMAIN shown = {}
  BY <1>2
<1>5. Ordered /\ AloneFirst /\ LastLogin /\ IdentityWasSent
  BY <1>2, <1>4 DEF Ordered, Rising, Before, Numbered, AloneFirst, LastLogin, IdentityWasSent
<1> QED
  BY <1>3, <1>5 DEF Init, ClientInv, NetInv, LoginInv

LEMMA ClientStep == ClientInv /\ [Next]_vars => ClientInv'
BY NetStep, LoginStep DEF ClientInv

LEMMA ClientInvariant == Spec => []ClientInv
BY InitClient, ClientStep, PTL DEF Spec

-----------------------------------------------------------------------------
\* The texts.

\* What is typed.  An alphabet that holds the lines holds all that is read, kept and
\* sent: this is proved for any alphabet, and used for that of all texts and for that
\* of plain words.

Alphabet(W) == /\ W \in SUBSET STRING
               /\ {"comma", "colon", "1", "N"} \subseteq W
               /\ \A prompt \in FieldNames : Lines[prompt] \subseteq Seq(W)

\* The first m fields of a form.
Asked(f, m) == {FormOf[f][i] : i \in 1 .. m}

\* The fields of a form are read in their order: those that are filled are the
\* first ones.
FilledOver(W) ==
    /\ form \notin Forms => filled = <<>>
    /\ form \in Forms =>
          \E m \in 0 .. Len(FormOf[form]) : filled \in [Asked(form, m) -> Seq(W)]

\* What the control thread holds.
InputOver(W) ==
    /\ form \in {"select", "eof"} \cup Forms
    /\ left \in 0 .. NotAsked
    /\ members \in Seq(W)
    /\ spill \subseteq Seq(W) /\ \A r, q \in spill : r = q
    /\ FilledOver(W)

\* What has been written.
SentOver(W) ==
    /\ proc \in {"running", "closing", "ended"}
    /\ login \in Seq(W)
    /\ Len(sent) <= MaxSent
    /\ \A n \in DOMAIN sent : /\ sent[n].op \in Ops
                              /\ sent[n].when \in {"alone", "behind", "closed"}
                              /\ sent[n].v \in [Keys(sent[n].op) -> Seq(W)]
                              /\ sent[n].body = Body(sent[n].op, sent[n].v)

\* The forms, spelled out.
LEMMA FormFacts ==
    /\ Forms = {"signup", "login", "create", "invite", "enter"}
    /\ Forms \subseteq Ops
    /\ \A f \in Forms :
          /\ Len(FormOf[f]) \in 1 .. 4
          /\ \A i \in 1 .. Len(FormOf[f]) : FormOf[f][i] \in FieldNames
          /\ \A i, j \in 1 .. Len(FormOf[f]) : FormOf[f][i] = FormOf[f][j] => i = j
          /\ Range(FormOf[f]) = Asked(f, Len(FormOf[f]))
          /\ Keys(f) = IF f \in {"create", "invite"} THEN Range(FormOf[f]) \cup {"user_id"}
                                                    ELSE Range(FormOf[f])
<1>1. Forms = {"signup", "login", "create", "invite", "enter"}
  BY DEF Forms, FormOf
<1>2. \A f \in Forms : Range(FormOf[f]) = Asked(f, Len(FormOf[f]))
  <2>1. \A f \in Forms : DOMAIN FormOf[f] = 1 .. Len(FormOf[f])
    BY <1>1 DEF FormOf
  <2> QED
    BY <2>1 DEF Asked, Range
<1> SUFFICES ASSUME NEW f \in Forms
             PROVE  /\ f \in Ops
                    /\ Len(FormOf[f]) \in 1 .. 4
                    /\ \A i \in 1 .. Len(FormOf[f]) : FormOf[f][i] \in FieldNames
                    /\ \A i, j \in 1 .. Len(FormOf[f]) : FormOf[f][i] = FormOf[f][j] => i = j
                    /\ Keys(f) = IF f \in {"create", "invite"}
                                 THEN Range(FormOf[f]) \cup {"user_id"}
                                 ELSE Range(FormOf[f])
  BY <1>1, <1>2
<1>3. f \in Ops
  BY <1>1, FieldFacts
<1>4. CASE f = "signup"
  <2>1. FormOf[f] = <<"user_id", "name", "password", "mdn">> /\ FieldsOf[f] = FormOf[f]
    BY <1>4 DEF FormOf, FieldsOf
  <2> QED
    BY <1>3, <1>4, <2>1, FieldFacts DEF Keys
<1>5. CASE f = "login"
  <2>1. FormOf[f] = <<"user_id", "password">> /\ FieldsOf[f] = FormOf[f]
    BY <1>5 DEF FormOf, FieldsOf
  <2> QED
    BY <1>3, <1>5, <2>1, FieldFacts DEF Keys
<1>6. CASE f = "create"
  <2>1. /\ FormOf[f] = <<"room_id", "password", "room_type", "members">>
        /\ FieldsOf[f] = <<"room_id", "password", "user_id", "room_type", "members">>
    BY <1>6 DEF FormOf, FieldsOf
  <2>2. Range(FormOf[f]) = {"room_id", "password", "room_type", "members"}
    BY <2>1 DEF Range
  <2>3. Keys(f) = {"room_id", "password", "user_id", "room_type", "members"}
    BY <2>1 DEF Keys, Range
  <2> QED
    BY <1>3, <1>6, <2>1, <2>2, <2>3, FieldFacts
<1>7. CASE f = "invite"
  <2>1. /\ FormOf[f] = <<"room_id", "members">>
        /\ FieldsOf[f] = <<"room_id", "user_id", "members">>
    BY <1>7 DEF FormOf, FieldsOf
  <2>2. Range(FormOf[f]) = {"room_id", "members"}
    BY <2>1 DEF Range
  <2>3. Keys(f) = {"room_id", "user_id", "members"}
    BY <2>1 DEF Keys, Range
  <2> QED
    BY <1>3, <1>7, <2>1, <2>2, <2>3, FieldFacts
<1>8. CASE f = "enter"
  <2>1. FormOf[f] = <<"room_id", "password">> /\ FieldsOf[f] = FormOf[f]
    BY <1>8 DEF FormOf, FieldsOf
  <2> QED
    BY <1>3, <1>8, <2>1, FieldFacts DEF Keys
<1> QED
  BY <1>1, <1>4, <1>5, <1>6, <1>7, <1>8

\* One field more is asked for, and as many as were counted.
LEMMA AskedGrows ==
    ASSUME NEW f \in Forms, NEW m \in Nat, m < Len(FormOf[f])
    PROVE  /\ Asked(f, m + 1) = Asked(f, m) \cup {FormOf[f][m + 1]}
           /\ FormOf[f][m + 1] \notin Asked(f, m)
<1>1. Len(FormOf[f]) \in Nat
  BY FormFacts
<1>2. 1 .. m + 1 = (1 .. m) \cup {m + 1} /\ m + 1 \in 1 .. Len(FormOf[f])
      /\ \A i \in 1 .. m : i \in 1 .. Len(FormOf[f]) /\ i # m + 1
  BY <1>1
<1>3. \A i \in 1 .. m : FormOf[f][i] # FormOf[f][m + 1]
  BY <1>2, FormFacts
<1> QED
  BY <1>2, <1>3 DEF Asked

LEMMA AskedCount ==
    ASSUME NEW f \in Forms, NEW m \in 0 .. Len(FormOf[f])
    PROVE  IsFiniteSet(Asked(f, m)) /\ Cardinality(Asked(f, m)) = m
<1> DEFINE Counted(k) == IsFiniteSet(Asked(f, k)) /\ Cardinality(Asked(f, k)) = k
<1>1. Len(FormOf[f]) \in 1 .. 4
  BY FormFacts
<1>2. Counted(0)
  <2>1. Asked(f, 0) = {}
    BY DEF Asked
  <2> QED
    BY <2>1, FS_EmptySet
<1>3. ASSUME NEW k \in 0 .. 3, NEW l \in 1 .. 4, l = k + 1, l <= Len(FormOf[f]), Counted(k)
      PROVE  Counted(l)
  <2>1. k \in Nat /\ k < Len(FormOf[f])
    BY <1>1, <1>3
  <2>2. /\ Asked(f, l) = Asked(f, k) \cup {FormOf[f][l]}
        /\ FormOf[f][l] \notin Asked(f, k)
    BY <1>3, <2>1, AskedGrows
  <2>3. IsFiniteSet(Asked(f, k)) /\ Cardinality(Asked(f, k)) = k
    BY <1>3
  <2>4. /\ IsFiniteSet(Asked(f, k) \cup {FormOf[f][l]})
        /\ Cardinality(Asked(f, k) \cup {FormOf[f][l]}) = Cardinality(Asked(f, k)) + 1
    BY <2>2, <2>3, FS_AddElement
  <2> QED
    BY <1>3, <2>2, <2>3, <2>4
<1> HIDE DEF Counted
<1>4. 1 <= Len(FormOf[f]) => Counted(1)
  BY <1>2, <1>3
<1>5. 2 <= Len(FormOf[f]) => Counted(2)
  BY <1>1, <1>3, <1>4
<1>6. 3 <= Len(FormOf[f]) => Counted(3)
  BY <1>1, <1>3, <1>5
<1>7. 4 <= Len(FormOf[f]) => Counted(4)
  BY <1>1, <1>3, <1>6
<1>8. Counted(m)
  <2> DEFINE n == Len(FormOf[f])
  <2>1. m \in Nat /\ m <= n /\ m <= 4
    <3>1. n \in 1 .. 4 /\ m \in 0 .. n
      BY <1>1
    <3> HIDE DEF n
    <3> QED
      BY <3>1
  <2>2. m = 0 \/ m = 1 \/ m = 2 \/ m = 3 \/ m = 4
    BY <2>1
  <2> QED
    BY <1>2, <1>4, <1>5, <1>6, <1>7, <2>1, <2>2
<1> QED
  BY <1>8 DEF Counted

\* What the control thread asks for next.
LEMMA PromptIs ==
    ASSUME form \in Forms, NEW m \in 0 .. Len(FormOf[form]), DOMAIN filled = Asked(form, m)
    PROVE  /\ Asking <=> m # Len(FormOf[form])
           /\ Prompt = FormOf[form][m + 1]
           /\ Asking => Prompt \in FieldNames
<1>1. Cardinality(Asked(form, m)) = m
  BY AskedCount
<1>2. /\ Range(FormOf[form]) = Asked(form, Len(FormOf[form]))
      /\ Len(FormOf[form]) \in 1 .. 4
      /\ \A i \in 1 .. Len(FormOf[form]) : FormOf[form][i] \in FieldNames
  BY FormFacts
<1>3. Cardinality(Asked(form, Len(FormOf[form]))) = Len(FormOf[form])
  BY <1>2, AskedCount
<1>4. Asking <=> m # Len(FormOf[form])
  BY <1>1, <1>2, <1>3 DEF Asking
<1>5. Prompt = FormOf[form][m + 1]
  BY <1>1 DEF Prompt
<1>6. m # Len(FormOf[form]) => m + 1 \in 1 .. Len(FormOf[form])
  BY <1>2
<1> QED
  BY <1>2, <1>4, <1>5, <1>6

\* A field that is filled is the next one of its form.
LEMMA FillKeeps ==
    ASSUME NEW W, FilledOver(W), form \in Forms, Asking, NEW value \in Seq(W),
           Fill(Prompt, value), form' = form
    PROVE  FilledOver(W)'
<1>1. PICK m \in 0 .. Len(FormOf[form]) : filled \in [Asked(form, m) -> Seq(W)]
  BY DEF FilledOver
<1>2. DOMAIN filled = Asked(form, m)
  BY <1>1
<1>3. m # Len(FormOf[form]) /\ Prompt = FormOf[form][m + 1] /\ Len(FormOf[form]) \in Nat
  BY <1>1, <1>2, PromptIs, FormFacts
<1>4. m \in Nat /\ m < Len(FormOf[form]) /\ m + 1 \in 0 .. Len(FormOf[form])
  BY <1>1, <1>3
<1>5. Asked(form, m + 1) = Asked(form, m) \cup {Prompt}
  BY <1>3, <1>4, AskedGrows
<1>6. filled' \in [Asked(form, m + 1) -> Seq(W)]
  BY <1>1, <1>2, <1>5 DEF Fill
<1> QED
  BY <1>4, <1>6 DEF FilledOver

\* ctrl_read_line: what is read, and what stays for the next read.
Taken(line) == IF Len(line) < Room THEN line ELSE SubSeq(line, 1, Room)
Remains(line) == IF Len(line) < Room THEN {} ELSE {SubSeq(line, Room + 1, Len(line))}

LEMMA LineTaken ==
    ASSUME NEW W, NEW line \in Seq(W)
    PROVE  /\ Taken(line) \in Seq(W)
           /\ Remains(line) \subseteq Seq(W)
           /\ \A r, q \in Remains(line) : r = q
<1>1. Len(line) \in Nat /\ Room \in Nat \ {0} /\ \A i \in 1 .. Len(line) : line[i] \in W
  BY LenProperties, ElementOfSeq, ClientAssumption
<1>2. ASSUME ~(Len(line) < Room)
      PROVE  SubSeq(line, 1, Room) \in Seq(W)
  <2>1. \A i \in 1 .. Room : line[i] \in W
    BY <1>1, <1>2
  <2> QED
    BY <1>1, <2>1, SubSeqProperties
<1>3. SubSeq(line, Room + 1, Len(line)) \in Seq(W)
  <2>1. \A i \in Room + 1 .. Len(line) : line[i] \in W
    BY <1>1
  <2> QED
    BY <1>1, <2>1, SubSeqProperties
<1> QED
  BY <1>2, <1>3 DEF Taken, Remains

\* The line that is read: from the user, or from what an earlier one left.
LEMMA LineTyped ==
    ASSUME NEW W, Alphabet(W), InputOver(W), form \in Forms, Asking,
           NEW line \in IF spill = {} THEN Lines[Prompt] ELSE spill
    PROVE  line \in Seq(W)
<1>1. PICK m \in 0 .. Len(FormOf[form]) : filled \in [Asked(form, m) -> Seq(W)]
  BY DEF InputOver, FilledOver
<1>2. Prompt \in FieldNames
  BY <1>1, PromptIs
<1> QED
  BY <1>2 DEF Alphabet, InputOver

\* A form that is left.
LEMMA BackToMenu ==
    ASSUME NEW W, ToSelect
    PROVE  /\ FilledOver(W)' /\ form' = "select"
           /\ left' \in 0 .. NotAsked /\ members' \in Seq(W)
<1>1. <<>> \in Seq(W)
  BY EmptySeq
<1>2. "select" \notin Forms
  BY FormFacts
<1>3. MaxMembers \in Nat
  BY ClientAssumption
<1> QED
  BY <1>1, <1>2, <1>3 DEF ToSelect, FilledOver, NotAsked

\* A request whose values are over the alphabet.
LEMMA WriteKeepsTexts ==
    ASSUME NEW W, NetInv, SentOver(W),
           NEW op \in Ops, NEW values \in [Keys(op) -> Seq(W)], Write(op, values)
    PROVE  SentOver(W)'
<1>1. proc' \in {"running", "closing", "ended"}
  BY DEF Write, SentOver
<1>2. ASSUME NEW when \in {"alone", "behind", "closed"}, Written(op, values, when)
      PROVE  SentOver(W)'
  <2> DEFINE n == Len(sent) + 1
  <2>1. /\ Len(sent) \in Nat
        /\ DOMAIN sent = 1 .. Len(sent) /\ DOMAIN sent' = 1 .. n
        /\ \A i \in 1 .. Len(sent) : sent'[i] = sent[i]
        /\ sent'[n].op = op /\ sent'[n].v = values
        /\ sent'[n].body = Body(op, values) /\ sent'[n].when = when
        /\ login' = LoginAfter(op, values)
    BY <1>2, WrittenFacts DEF NetInv
  <2>2. Len(sent') = n /\ n <= MaxSent
    <3>1. Len(sent) < MaxSent /\ MaxSent \in Nat
      BY <1>2, ClientAssumption DEF Written
    <3>2. Len(sent') \in Nat /\ DOMAIN sent' = 1 .. Len(sent')
      <4>1. sent' \in Seq(Range(sent'))
        BY <1>2, WrittenFacts DEF NetInv
      <4> QED
        BY <4>1, LenProperties
    <3> QED
      BY <2>1, <3>1, <3>2
  <2>3. login' \in Seq(W)
    <3>1. op = "login" => "user_id" \in Keys(op)
      BY FieldFacts DEF Keys, FieldsOf, Range
    <3> QED
      BY <2>1, <3>1 DEF LoginAfter, SentOver
  <2>4. \A i \in DOMAIN sent' : i = n \/ i \in DOMAIN sent
    BY <2>1
  <2> HIDE DEF n
  <2>5. ASSUME NEW i \in DOMAIN sent'
        PROVE  /\ sent'[i].op \in Ops
               /\ sent'[i].when \in {"alone", "behind", "closed"}
               /\ sent'[i].v \in [Keys(sent'[i].op) -> Seq(W)]
               /\ sent'[i].body = Body(sent'[i].op, sent'[i].v)
    <3>1. CASE i = n
      BY <1>2, <2>1, <3>1
    <3>2. CASE i \in DOMAIN sent
      BY <2>1, <3>2 DEF SentOver
    <3> QED
      BY <2>4, <3>1, <3>2
  <2> QED
    BY <1>1, <2>2, <2>3, <2>5 DEF SentOver
<1>3. CASE UNCHANGED <<sent, login>>
  BY <1>1, <1>3 DEF SentOver
<1> QED
  BY <1>2, <1>3, WriteCases

\* Steps that leave one side alone.
LEMMA SameSent ==
    ASSUME NEW W, SentOver(W), UNCHANGED <<sent, login>>,
           proc' \in {"running", "closing", "ended"}
    PROVE  SentOver(W)'
BY DEF SentOver

LEMMA SameInput ==
    ASSUME NEW W, InputOver(W), UNCHANGED control
    PROVE  InputOver(W)'
BY DEF InputOver, FilledOver, control

\* A form or the menu that is entered with no field read.
LEMMA NothingFilled ==
    ASSUME NEW W, form' \in {"select", "eof"} \cup Forms, filled' = <<>>
    PROVE  FilledOver(W)'
<1>1. ASSUME form' \in Forms
      PROVE  0 \in 0 .. Len(FormOf[form']) /\ filled' \in [Asked(form', 0) -> Seq(W)]
  <2>1. Len(FormOf[form']) \in Nat
    BY <1>1, FormFacts
  <2>2. Asked(form', 0) = {}
    BY DEF Asked
  <2>3. <<>> \in [1 .. 0 -> Seq(W)]
    BY EmptySeq, LenProperties
  <2> QED
    BY <2>1, <2>2, <2>3
<1> QED
  BY <1>1 DEF FilledOver

\* The steps of the control thread.
LEMMA SelectKeeps ==
    ASSUME NEW W, Alphabet(W), NetInv, InputOver(W), SentOver(W), Select
    PROVE  InputOver(W)' /\ SentOver(W)'
<1>1. PICK command : Run(command)
  BY DEF Select
<1>2. spill' = {} /\ spill' \subseteq Seq(W) /\ form = "select" /\ form \notin Forms
  BY FormFacts DEF Select
<1>3. filled = <<>>
  BY <1>2 DEF InputOver, FilledOver
<1>4. CASE /\ command \in Forms /\ form' = command
           /\ UNCHANGED <<proc, filled, left, members, login, sent>>
  <2>1. FilledOver(W)'
    BY <1>3, <1>4, NothingFilled
  <2>2. SentOver(W)'
    BY <1>4 DEF SentOver
  <2> QED
    BY <1>2, <1>4, <2>1, <2>2 DEF InputOver
<1>5. CASE /\ Write("friends", [user_id |-> login])
           /\ UNCHANGED <<form, filled, left, members>>
  <2>1. "friends" \in Ops /\ [user_id |-> login] \in [Keys("friends") -> Seq(W)]
    <3>1. Keys("friends") = {"user_id"}
      BY DEF Keys, FieldsOf, Range
    <3> QED
      BY <3>1, FieldFacts DEF SentOver
  <2>2. SentOver(W)'
    BY <1>5, <2>1, WriteKeepsTexts
  <2>3. FilledOver(W)'
    BY <1>5 DEF InputOver, FilledOver
  <2> QED
    BY <1>2, <1>5, <2>2, <2>3 DEF InputOver
<1>6. CASE Write("list", <<>>) /\ UNCHANGED <<form, filled, left, members>>
  <2>1. "list" \in Ops /\ <<>> \in [Keys("list") -> Seq(W)]
    <3>1. Keys("list") = {}
      BY DEF Keys, FieldsOf, Range
    <3>2. <<>> \in [1 .. 0 -> Seq(W)]
      BY EmptySeq, LenProperties
    <3> QED
      BY <3>1, <3>2, FieldFacts
  <2>2. SentOver(W)'
    BY <1>6, <2>1, WriteKeepsTexts
  <2>3. FilledOver(W)'
    BY <1>6 DEF InputOver, FilledOver
  <2> QED
    BY <1>2, <1>6, <2>2, <2>3 DEF InputOver
<1>7. CASE proc' = "ended" /\ UNCHANGED <<form, filled, left, members, login, sent>>
  <2>1. SentOver(W)'
    BY <1>7, SameSent
  <2>2. FilledOver(W)'
    BY <1>7 DEF InputOver, FilledOver
  <2> QED
    BY <1>2, <1>7, <2>1, <2>2 DEF InputOver
<1> QED
  BY <1>1, <1>4, <1>5, <1>6, <1>7 DEF Run

LEMMA MenuKeeps ==
    ASSUME NEW W, InputOver(W), Skip \/ Cancel \/ EndOfInput
    PROVE  InputOver(W)'
<1>1. spill' \subseteq Seq(W) /\ \A r, q \in spill' : r = q
  BY DEF Skip, Cancel, EndOfInput, InputOver
<1>2. CASE UNCHANGED <<form, filled, left, members>>
  BY <1>1, <1>2 DEF InputOver, FilledOver
<1>3. CASE ToSelect
  BY <1>1, <1>3, BackToMenu DEF InputOver
<1>4. CASE EndOfInput
  <2>1. form \notin Forms /\ form' = "eof" /\ "eof" \notin Forms
    BY <1>4, FormFacts DEF EndOfInput
  <2>2. FilledOver(W)'
    BY <1>4, <2>1 DEF EndOfInput, InputOver, FilledOver
  <2> QED
    BY <1>1, <1>4, <2>1, <2>2 DEF EndOfInput, InputOver
<1> QED
  BY <1>2, <1>3, <1>4 DEF Skip, Cancel

LEMMA ReadFieldKeeps ==
    ASSUME NEW W, Alphabet(W), InputOver(W), ReadField
    PROVE  InputOver(W)'
<1>1. PICK line \in IF spill = {} THEN Lines[Prompt] ELSE spill :
          /\ spill' = Remains(line)
          /\ IF line = <<>> THEN ToSelect
             ELSE Fill(Prompt, Taken(line)) /\ UNCHANGED <<form, left, members>>
  BY DEF ReadField, ReadLine, Taken, Remains
<1>2. form \in Forms /\ Asking
  BY DEF ReadField
<1>3. line \in Seq(W)
  BY <1>1, <1>2, LineTyped
<1>4. /\ Taken(line) \in Seq(W)
      /\ spill' \subseteq Seq(W) /\ \A r, q \in spill' : r = q
  BY <1>1, <1>3, LineTaken
<1>5. CASE line = <<>>
  BY <1>1, <1>4, <1>5, BackToMenu DEF InputOver
<1>6. CASE line # <<>>
  <2>1. FilledOver(W)'
    BY <1>1, <1>2, <1>4, <1>6, FillKeeps DEF InputOver
  <2> QED
    BY <1>1, <1>4, <1>6, <2>1 DEF InputOver
<1> QED
  BY <1>5, <1>6

LEMMA ReadTypeKeeps ==
    ASSUME NEW W, Alphabet(W), InputOver(W), ReadType
    PROVE  InputOver(W)'
<1>1. PICK type \in {OneToOne, OneToMany} : Fill(Prompt, type)
  BY DEF ReadType
<1>2. type \in Seq(W)
  <2>1. "1" \in W /\ "colon" \in W /\ "N" \in W
    BY DEF Alphabet
  <2>2. OneToOne \in Seq(W)
    BY <2>1 DEF OneToOne
  <2>3. OneToMany \in Seq(W)
    BY <2>1 DEF OneToMany
  <2> QED
    BY <1>1, <2>2, <2>3
<1>3. FilledOver(W)'
  BY <1>1, <1>2, FillKeeps DEF ReadType, InputOver
<1> QED
  BY <1>3 DEF ReadType, InputOver

LEMMA AskFriendsKeeps ==
    ASSUME NEW W, NetInv, InputOver(W), SentOver(W), AskFriends
    PROVE  InputOver(W)' /\ SentOver(W)'
<1>1. "friends" \in Ops /\ [user_id |-> login] \in [Keys("friends") -> Seq(W)]
  <2>1. Keys("friends") = {"user_id"}
    BY DEF Keys, FieldsOf, Range
  <2> QED
    BY <2>1, FieldFacts DEF SentOver
<1>2. SentOver(W)'
  BY <1>1, WriteKeepsTexts DEF AskFriends
<1>3. left' \in 0 .. NotAsked
  BY ClientAssumption DEF AskFriends, NotAsked
<1>4. FilledOver(W)'
  BY DEF AskFriends, InputOver, FilledOver
<1> QED
  BY <1>2, <1>3, <1>4 DEF AskFriends, InputOver

LEMMA ReadCountKeeps ==
    ASSUME NEW W, InputOver(W), ReadCount
    PROVE  InputOver(W)'
<1>1. left' \in 0 .. NotAsked
  BY ClientAssumption DEF ReadCount, Counts, NotAsked
<1>2. FilledOver(W)'
  BY DEF ReadCount, InputOver, FilledOver
<1> QED
  BY <1>1, <1>2 DEF ReadCount, InputOver

LEMMA ReadMemberKeeps ==
    ASSUME NEW W, Alphabet(W), InputOver(W), ReadMember
    PROVE  InputOver(W)'
<1>1. PICK line \in IF spill = {} THEN Lines[Prompt] ELSE spill :
          /\ spill' = Remains(line)
          /\ IF line = <<>> THEN ToSelect
             ELSE /\ members' = WithMember(Taken(line))
                  /\ left' = left - 1
                  /\ IF left = 1 THEN Fill("members", WithMember(Taken(line)))
                                 ELSE UNCHANGED filled
                  /\ UNCHANGED form
  BY DEF ReadMember, ReadLine, Taken, Remains
<1>2. form \in Forms /\ Asking /\ Prompt = "members" /\ left \in 1 .. MaxMembers
  BY DEF ReadMember
<1>3. line \in Seq(W)
  BY <1>1, <1>2, LineTyped
<1>4. /\ Taken(line) \in Seq(W)
      /\ spill' \subseteq Seq(W) /\ \A r, q \in spill' : r = q
  BY <1>1, <1>3, LineTaken
<1>5. WithMember(Taken(line)) \in Seq(W)
  <2>1. <<"comma">> \in Seq(W)
    BY DEF Alphabet
  <2>2. members \in Seq(W)
    BY DEF InputOver
  <2>3. members \o <<"comma">> \in Seq(W)
    BY <2>1, <2>2, ConcatProperties
  <2> HIDE DEF Taken
  <2>4. (members \o <<"comma">>) \o Taken(line) \in Seq(W)
    BY <1>4, <2>3, ConcatProperties
  <2> QED
    BY <1>4, <2>4 DEF WithMember
<1>6. CASE line = <<>>
  BY <1>1, <1>4, <1>6, BackToMenu DEF InputOver
<1>7. CASE line # <<>>
  <2>1. FilledOver(W)'
    <3>1. CASE left = 1
      BY <1>1, <1>2, <1>5, <1>7, <3>1, FillKeeps DEF InputOver
    <3>2. CASE left # 1
      BY <1>1, <1>7, <3>2 DEF InputOver, FilledOver
    <3> QED
      BY <3>1, <3>2
  <2>2. left' \in 0 .. NotAsked
    BY <1>1, <1>2, <1>7, ClientAssumption DEF NotAsked
  <2> QED
    BY <1>1, <1>4, <1>5, <1>7, <2>1, <2>2 DEF InputOver
<1> QED
  BY <1>6, <1>7

LEMMA SubmitKeeps ==
    ASSUME NEW W, NetInv, InputOver(W), SentOver(W), Submit
    PROVE  InputOver(W)' /\ SentOver(W)'
<1>1. form \in Forms /\ ~Asking /\ Write(form, Values) /\ ToSelect /\ UNCHANGED spill
  BY DEF Submit
<1>2. PICK m \in 0 .. Len(FormOf[form]) : filled \in [Asked(form, m) -> Seq(W)]
  BY <1>1 DEF InputOver, FilledOver
<1>3. DOMAIN filled = Range(FormOf[form]) /\ filled \in [Range(FormOf[form]) -> Seq(W)]
  BY <1>1, <1>2 DEF Asking
<1>4. Values \in [Keys(form) -> Seq(W)] /\ form \in Ops
  <2>1. /\ form \in Ops
        /\ Keys(form) = IF form \in {"create", "invite"}
                        THEN Range(FormOf[form]) \cup {"user_id"} ELSE Range(FormOf[form])
    BY <1>1, FormFacts
  <2> QED
    BY <1>3, <2>1 DEF Values, SentOver
<1>5. SentOver(W)'
  BY <1>1, <1>4, WriteKeepsTexts
<1> QED
  BY <1>1, <1>5, BackToMenu DEF InputOver

\* No step takes the texts out of their alphabet.
LEMMA TextStep ==
    ASSUME NEW W, Alphabet(W), NetInv, InputOver(W), SentOver(W), [Next]_vars
    PROVE  InputOver(W)' /\ SentOver(W)'
<1>1. CASE Select
  BY <1>1, SelectKeeps
<1>2. CASE Skip \/ Cancel \/ EndOfInput
  <2>1. UNCHANGED <<proc, login, sent>>
    BY <1>2 DEF Skip, Cancel, EndOfInput, network
  <2> QED
    BY <1>2, <2>1, MenuKeeps DEF SentOver
<1>3. CASE ReadField \/ ReadType \/ ReadCount \/ ReadMember
  <2>1. UNCHANGED <<proc, login, sent>>
    BY <1>3 DEF ReadField, ReadType, ReadCount, ReadMember, network
  <2> QED
    BY <1>3, <2>1, ReadFieldKeeps, ReadTypeKeeps, ReadCountKeeps, ReadMemberKeeps DEF SentOver
<1>4. CASE AskFriends
  BY <1>4, AskFriendsKeeps
<1>5. CASE Submit
  BY <1>5, SubmitKeeps
<1>6. CASE LoopStep \/ ServerStep \/ UNCHANGED vars
  <2>1. UNCHANGED <<sent, login, control>> /\ proc' \in {"running", "closing", "ended"}
    BY <1>6 DEF LoopStep, ShowAnswers, LoopEnds, Exit, ServerStep, Serve, ServeTail,
                ServerDies, network, control, vars, SentOver
  <2> QED
    BY <2>1, SameSent, SameInput
<1> QED
  BY <1>1, <1>2, <1>3, <1>4, <1>5, <1>6 DEF Next, ControlStep

LEMMA InitTexts ==
    ASSUME NEW W, Init
    PROVE  InputOver(W) /\ SentOver(W)
<1>1. <<>> \in Seq(W)
  BY EmptySeq
<1>2. form \notin Forms
  BY FormFacts DEF Init
<1>3. left \in 0 .. NotAsked
  BY ClientAssumption DEF Init, NotAsked
<1>4. InputOver(W)
  BY <1>1, <1>2, <1>3 DEF Init, InputOver, FilledOver
<1>5. SentOver(W)
  <2>1. Len(sent) = 0 /\ DOMAIN sent = {} /\ MaxSent \in Nat
    BY ClientAssumption DEF Init
  <2> QED
    BY <1>1, <2>1 DEF Init, SentOver
<1> QED
  BY <1>4, <1>5

\* The inductive invariant: the network's, and the texts over an alphabet.
TextsInv(W) == ClientInv /\ InputOver(W) /\ SentOver(W)

LEMMA TextsStep ==
    ASSUME NEW W, Alphabet(W)
    PROVE  /\ Init => TextsInv(W)
           /\ TextsInv(W) /\ [Next]_vars => TextsInv(W)'
<1>1. Init => TextsInv(W)
  BY InitClient, InitTexts DEF TextsInv
<1>2. ASSUME TextsInv(W), [Next]_vars
      PROVE  TextsInv(W)'
  <2>1. NetInv
    BY <1>2 DEF TextsInv, ClientInv
  <2> QED
    BY <1>2, <2>1, ClientStep, TextStep DEF TextsInv
<1> QED
  BY <1>1, <1>2

\* The two alphabets: all tokens, and, where only such are typed, those that are no
\* quotes and no keys.
PlainLines == /\ \A prompt \in FieldNames : Lines[prompt] \subseteq Seq(Word)
              /\ Lines["user_id"] \subseteq Seq(Name)

LEMMA AllTexts == Alphabet(STRING)
<1>1. {"comma", "colon", "1", "N"} \subseteq STRING
  BY TokensAreStrings DEF Marks
<1>2. \A prompt \in FieldNames : Lines[prompt] \subseteq Seq(STRING)
  BY ClientAssumption
<1> QED
  BY <1>1, <1>2 DEF Alphabet

LEMMA PlainTexts == PlainLines => Alphabet(Word)
<1>1. {"comma", "colon", "1", "N"} \subseteq STRING
  BY TokensAreStrings DEF Marks
<1>2. {"comma", "colon", "1", "N"} \subseteq Word
  BY <1>1, FieldFacts DEF Word
<1>3. Word \in SUBSET STRING
  BY DEF Word
<1> QED
  BY <1>2, <1>3 DEF Alphabet, PlainLines

LEMMA AllTextsInvariant == Spec => []TextsInv(STRING)
<1>1. /\ Init => TextsInv(STRING)
      /\ TextsInv(STRING) /\ [Next]_vars => TextsInv(STRING)'
  BY AllTexts, TextsStep
<1> QED
  BY <1>1, PTL DEF Spec

LEMMA PlainTextsInvariant ==
    ASSUME PlainLines
    PROVE  Spec => []TextsInv(Word)
<1>1. /\ Init => TextsInv(Word)
      /\ TextsInv(Word) /\ [Next]_vars => TextsInv(Word)'
  BY PlainTexts, TextsStep
<1> QED
  BY <1>1, PTL DEF Spec

\* Where user ids are typed without blanks and ampersands, the client keeps and sends
\* none with them.  A user id is the first thing its form asks for, and a command takes
\* what was left of an earlier line: so it is always read from the user.
NameForms == {"signup", "login"}

NamesRead ==
    form \in NameForms =>
        /\ DOMAIN filled = {} => spill = {}
        /\ "user_id" \in DOMAIN filled => filled["user_id"] \in Seq(Name)

NamesSent ==
    /\ login \in Seq(Name)
    /\ \A n \in DOMAIN sent : sent[n].op = "friends" => sent[n].v["user_id"] \in Seq(Name)

Names == NamesRead /\ NamesSent

LEMMA WriteKeepsNames ==
    ASSUME NetInv, NamesSent, NEW op, NEW values, Write(op, values),
           op \in {"friends", "login"} => values["user_id"] \in Seq(Name)
    PROVE  NamesSent'
<1>1. ASSUME NEW when, Written(op, values, when)
      PROVE  NamesSent'
  <2> DEFINE n == Len(sent) + 1
  <2>1. /\ Len(sent) \in Nat
        /\ DOMAIN sent = 1 .. Len(sent) /\ DOMAIN sent' = 1 .. n
        /\ \A i \in 1 .. Len(sent) : sent'[i] = sent[i]
        /\ sent'[n].op = op /\ sent'[n].v = values
        /\ login' = LoginAfter(op, values)
    BY <1>1, WrittenFacts DEF NetInv
  <2>2. login' \in Seq(Name)
    BY <2>1 DEF LoginAfter, NamesSent
  <2>3. \A i \in DOMAIN sent' : i = n \/ i \in DOMAIN sent
    BY <2>1
  <2> HIDE DEF n
  <2>4. ASSUME NEW i \in DOMAIN sent', sent'[i].op = "friends"
        PROVE  sent'[i].v["user_id"] \in Seq(Name)
    <3>1. CASE i = n
      BY <2>1, <2>4, <3>1
    <3>2. CASE i \in DOMAIN sent
      BY <2>1, <2>4, <3>2 DEF NamesSent
    <3> QED
      BY <2>3, <3>1, <3>2
  <2> QED
    BY <2>2, <2>4 DEF NamesSent
<1>2. CASE UNCHANGED <<sent, login>>
  BY <1>2 DEF NamesSent
<1> QED
  BY <1>1, <1>2, WriteCases

LEMMA SelectKeepsNames ==
    ASSUME NetInv, InputOver(STRING), NamesSent, Select
    PROVE  Names'
<1>1. PICK command : Run(command)
  BY DEF Select
<1>2. spill' = {} /\ form = "select" /\ filled = <<>> /\ filled' = filled
  BY FormFacts DEF Select, Run, InputOver, FilledOver
<1>3. NamesRead'
  <2>1. DOMAIN filled' = {}
    BY <1>2
  <2> QED
    BY <1>2, <2>1 DEF NamesRead
<1>4. NamesSent'
  <2>1. CASE Write("friends", [user_id |-> login])
    BY <2>1, WriteKeepsNames DEF NamesSent
  <2>2. CASE Write("list", <<>>)
    BY <2>2, WriteKeepsNames
  <2>3. CASE UNCHANGED <<sent, login>>
    BY <2>3 DEF NamesSent
  <2> QED
    BY <1>1, <2>1, <2>2, <2>3 DEF Run
<1> QED
  BY <1>3, <1>4 DEF Names

\* A field of a form: its first one is the user id, and it is read from the user.
LEMMA ReadFieldKeepsNames ==
    ASSUME PlainLines, InputOver(STRING), NamesRead, ReadField
    PROVE  NamesRead'
<1>1. PICK line \in IF spill = {} THEN Lines[Prompt] ELSE spill :
          /\ spill' = Remains(line)
          /\ IF line = <<>> THEN ToSelect
             ELSE Fill(Prompt, Taken(line)) /\ UNCHANGED <<form, left, members>>
  BY DEF ReadField, ReadLine, Taken, Remains
<1>2. CASE ToSelect
  BY <1>2 DEF ToSelect, NamesRead, NameForms
<1>3. CASE form \notin NameForms /\ form' = form
  BY <1>3 DEF NamesRead
<1>4. CASE form \in NameForms /\ form' = form /\ Fill(Prompt, Taken(line))
  <2>1. form \in Forms /\ Asking
    BY DEF ReadField
  <2>2. PICK m \in 0 .. Len(FormOf[form]) : filled \in [Asked(form, m) -> Seq(STRING)]
    BY <2>1 DEF InputOver, FilledOver
  <2>3. m # Len(FormOf[form]) /\ Prompt = FormOf[form][m + 1]
    BY <2>1, <2>2, PromptIs
  <2>4. DOMAIN filled' = DOMAIN filled \cup {Prompt}
    BY <1>4 DEF Fill
  <2>5. CASE Prompt = "user_id"
    <3>1. m = 0
      <4>1. Len(FormOf[form]) \in 1 .. 4 /\ m + 1 \in 1 .. Len(FormOf[form])
        BY <2>1, <2>2, <2>3, FormFacts
      <4>2. 1 \in 1 .. Len(FormOf[form]) /\ FormOf[form][1] = "user_id"
        BY <1>4, <4>1 DEF NameForms, FormOf
      <4>3. m + 1 = 1
        BY <2>1, <2>3, <2>5, <4>1, <4>2, FormFacts
      <4> QED
        BY <2>2, <4>3
    <3>2. DOMAIN filled = {}
      BY <2>2, <3>1 DEF Asked
    <3>3. line \in Seq(Name)
      BY <1>1, <1>4, <2>5, <3>2 DEF NamesRead, PlainLines
    <3>4. Taken(line) \in Seq(Name)
      BY <3>3, LineTaken
    <3>5. filled'["user_id"] = Taken(line)
      BY <1>4, <2>5 DEF Fill
    <3> QED
      BY <2>4, <3>4, <3>5 DEF NamesRead
  <2>6. CASE Prompt # "user_id"
    <3>1. "user_id" \in DOMAIN filled' =>
             "user_id" \in DOMAIN filled /\ filled'["user_id"] = filled["user_id"]
      BY <1>4, <2>4, <2>6 DEF Fill
    <3> QED
      BY <1>4, <2>4, <3>1 DEF NamesRead
  <2> QED
    BY <2>5, <2>6
<1> QED
  BY <1>1, <1>2, <1>3, <1>4

\* The other prompts are not those of a form that names the user.
LEMMA NamePrompts ==
    ASSUME InputOver(STRING), form \in NameForms, Asking
    PROVE  Prompt \notin {"room_type", "members"}
<1>1. form \in Forms
  BY FormFacts DEF NameForms
<1>2. PICK m \in 0 .. Len(FormOf[form]) : filled \in [Asked(form, m) -> Seq(STRING)]
  BY <1>1 DEF InputOver, FilledOver
<1>3. Len(FormOf[form]) \in 1 .. 4
  BY <1>1, FormFacts
<1>4. m # Len(FormOf[form]) /\ Prompt = FormOf[form][m + 1]
  BY <1>1, <1>2, PromptIs
<1>5. m + 1 \in 1 .. Len(FormOf[form])
  BY <1>2, <1>3, <1>4
<1>6. \A i \in 1 .. Len(FormOf[form]) :
         FormOf[form][i] \in {"user_id", "name", "password", "mdn"}
  <2>1. CASE form = "signup"
    <3>1. FormOf[form] = <<"user_id", "name", "password", "mdn">>
      BY <2>1 DEF FormOf
    <3> QED
      BY <3>1
  <2>2. CASE form = "login"
    <3>1. FormOf[form] = <<"user_id", "password">>
      BY <2>2 DEF FormOf
    <3> QED
      BY <3>1
  <2> QED
    BY <2>1, <2>2 DEF NameForms
<1>7. Prompt \in {"user_id", "name", "password", "mdn"}
  BY <1>4, <1>5, <1>6
<1> QED
  BY <1>7

LEMMA NamesStep ==
    ASSUME PlainLines, NetInv, InputOver(STRING), Names, [Next]_vars
    PROVE  Names'
<1> USE DEF Names
<1>1. CASE Select
  BY <1>1, SelectKeepsNames
<1>2. CASE Skip \/ Cancel \/ EndOfInput
  <2>1. UNCHANGED <<sent, login>>
    BY <1>2 DEF Skip, Cancel, EndOfInput, network
  <2>2. \/ form' \notin NameForms
        \/ UNCHANGED <<form, filled>> /\ spill' = {}
    BY <1>2 DEF Skip, Cancel, EndOfInput, ToSelect, NameForms
  <2> QED
    BY <2>1, <2>2 DEF NamesRead, NamesSent
<1>3. CASE ReadField
  <2>1. UNCHANGED <<sent, login>>
    BY <1>3 DEF ReadField, network
  <2> QED
    BY <1>3, <2>1, ReadFieldKeepsNames DEF NamesSent
<1>4. CASE ReadType \/ ReadCount \/ ReadMember
  <2>1. UNCHANGED <<sent, login>>
    BY <1>4 DEF ReadType, ReadCount, ReadMember, network
  <2>2. form \notin NameForms
    BY <1>4, NamePrompts DEF ReadType, ReadCount, ReadMember
  <2>3. form' \in {form, "select"}
    BY <1>4 DEF ReadType, ReadCount, ReadMember, ReadLine, ToSelect
  <2>4. form' \notin NameForms
    BY <2>2, <2>3 DEF NameForms
  <2> QED
    BY <2>1, <2>4 DEF NamesRead, NamesSent
<1>5. CASE AskFriends
  <2>1. Write("friends", [user_id |-> login]) /\ form' = form /\ form \in {"create", "invite"}
    BY <1>5 DEF AskFriends
  <2>2. NamesSent'
    BY <2>1, WriteKeepsNames DEF NamesSent
  <2>3. form' \notin NameForms
    BY <2>1 DEF NameForms
  <2> QED
    BY <2>2, <2>3 DEF NamesRead
<1>6. CASE Submit
  <2>1. form \in Forms /\ ~Asking /\ Write(form, Values) /\ form' = "select"
    BY <1>6 DEF Submit, ToSelect
  <2>2. form \in {"friends", "login"} => Values["user_id"] \in Seq(Name)
    <3>1. form # "friends"
      BY <2>1, FormFacts
    <3>2. CASE form = "login"
      <4>1. DOMAIN filled = Range(FormOf[form])
        BY <2>1 DEF Asking
      <4>2. FormOf[form] = <<"user_id", "password">>
        BY <3>2 DEF FormOf
      <4>3. "user_id" \in DOMAIN filled
        BY <4>1, <4>2 DEF Range
      <4> QED
        BY <3>2, <4>3 DEF Values, NamesRead, NameForms
    <3> QED
      BY <3>1, <3>2
  <2>3. NamesSent'
    BY <2>1, <2>2, WriteKeepsNames
  <2>4. form' \notin NameForms
    BY <2>1 DEF NameForms
  <2> QED
    BY <2>3, <2>4 DEF NamesRead
<1>7. CASE LoopStep \/ ServerStep \/ UNCHANGED vars
  <2>1. UNCHANGED <<sent, login, form, filled, spill>>
    BY <1>7 DEF LoopStep, ShowAnswers, LoopEnds, Exit, ServerStep, Serve, ServeTail,
                ServerDies, network, control, vars
  <2> QED
    BY <2>1 DEF NamesRead, NamesSent
<1> QED
  BY <1>1, <1>2, <1>3, <1>4, <1>5, <1>6, <1>7 DEF Next, ControlStep

LEMMA NamesInvariant ==
    ASSUME PlainLines
    PROVE  Spec => []Names
<1>1. Init => Names
  <2>1. <<>> \in Seq(Name)
    BY EmptySeq
  <2> QED
    BY <2>1 DEF Init, Names, NamesRead, NamesSent, NameForms
<1>2. TextsInv(STRING) /\ Names /\ [Next]_vars => Names'
  BY NamesStep DEF TextsInv, ClientInv
<1> QED
  BY <1>1, <1>2, AllTextsInvariant, PTL DEF Spec

\* A value in an address ends at the first blank or ampersand (http_query_value).
LEMMA QueryTyped ==
    ASSUME NEW typed \in Seq(STRING)
    PROVE  QueryValue(typed) \in Seq(STRING)
<1> DEFINE places == {i \in DOMAIN typed : typed[i] \in {"space", "amp"}}
           stop == FirstOf(places, Len(typed) + 1)
<1>1. /\ Len(typed) \in Nat /\ DOMAIN typed = 1 .. Len(typed)
      /\ \A i \in 1 .. Len(typed) : typed[i] \in STRING
  BY LenProperties, ElementOfSeq
<1>2. places \in SUBSET Nat /\ \A place \in places : 1 <= place
  BY <1>1
<1>3. QueryValue(typed) = SubSeq(typed, 1, stop - 1)
  BY DEF QueryValue
<1> HIDE DEF places
<1>4. stop \in Nat /\ stop <= Len(typed) + 1 /\ 1 <= stop
  <2>1. Len(typed) + 1 \in Nat
    BY <1>1
  <2>2. /\ stop \in Nat /\ stop \in places \cup {Len(typed) + 1}
        /\ \A place \in places \cup {Len(typed) + 1} : stop <= place
    BY <1>2, <2>1, FirstOfTyped
  <2> HIDE DEF stop
  <2> QED
    BY <1>1, <1>2, <2>2
<1> HIDE DEF stop
<1>5. \A i \in 1 .. stop - 1 : typed[i] \in STRING
  BY <1>1, <1>4
<1>6. stop - 1 \in Int
  BY <1>4
<1> QED
  BY <1>3, <1>5, <1>6, SubSeqProperties

LEMMA QueryPlain ==
    ASSUME NEW typed \in Seq(Name)
    PROVE  QueryValue(typed) = typed
<1>1. /\ Len(typed) \in Nat /\ DOMAIN typed = 1 .. Len(typed)
      /\ \A i \in 1 .. Len(typed) : typed[i] \in Name
  BY LenProperties, ElementOfSeq
<1>2. {i \in DOMAIN typed : typed[i] \in {"space", "amp"}} = {}
  BY <1>1 DEF Name
<1>3. FirstOf({}, Len(typed) + 1) = Len(typed) + 1
  <2>1. Len(typed) + 1 \in Nat
    BY <1>1
  <2> QED
    BY <2>1, FirstOfTyped
<1>4. QueryValue(typed) = SubSeq(typed, 1, (Len(typed) + 1) - 1)
  BY <1>2, <1>3 DEF QueryValue
<1>5. (Len(typed) + 1) - 1 = Len(typed)
  BY <1>1
<1> QED
  BY <1>4, <1>5, SubSeqFull

\* What the server binds: texts, and for plain words the ones that were sent.
LEMMA BoundTyped ==
    ASSUME NEW op \in Ops, NEW values \in [Keys(op) -> Seq(STRING)], NEW text \in Seq(STRING)
    PROVE  Bound(op, values, text) \in [Keys(op) -> Seq(STRING)]
<1>1. \A key \in Keys(op) : Value(text, key) \in Seq(STRING)
  BY ValueTyped
<1>2. \A key \in Keys(op) : QueryValue(values[key]) \in Seq(STRING)
  BY QueryTyped
<1> QED
  BY <1>1, <1>2 DEF Bound

LEMMA BoundIsSent ==
    ASSUME NEW op \in Ops, NEW values \in [Keys(op) -> Seq(Word)], NEW rest \in Seq(STRING),
           op = "friends" => values["user_id"] \in Seq(Name)
    PROVE  Bound(op, values, Body(op, values) \o rest) = values
<1> DEFINE text == Body(op, values) \o rest
<1>1. CASE InBody(op)
  <2>1. \A key \in Keys(op) : Value(text, key) = values[key]
    BY <1>1, FieldRead
  <2> HIDE DEF text
  <2>2. Bound(op, values, text) = [key \in Keys(op) |-> Value(text, key)]
    BY <1>1 DEF Bound
  <2>3. Bound(op, values, text) = values
    BY <2>1, <2>2
  <2> QED
    BY <2>3 DEF text
<1>2. CASE ~InBody(op)
  <2>1. \A key \in Keys(op) : QueryValue(values[key]) = values[key]
    <3>1. (op = "friends" /\ Keys(op) = {"user_id"}) \/ Keys(op) = {}
      BY <1>2 DEF InBody, Keys, FieldsOf, Range
    <3> QED
      BY <3>1, QueryPlain
  <2> HIDE DEF text
  <2>2. Bound(op, values, text) = [key \in Keys(op) |-> QueryValue(values[key])]
    BY <1>2 DEF Bound
  <2>3. Bound(op, values, text) = values
    BY <2>1, <2>2
  <2> QED
    BY <2>3 DEF text
<1> QED
  BY <1>1, <1>2

\* What a read takes: the body of the first request, and something behind it.
Behind(k) == FlattenSeq([i \in 1 .. k - 1 |-> Header \o sent[up[i + 1].n].body])

LEMMA BodyIsText ==
    ASSUME SentOver(STRING), NEW n \in DOMAIN sent
    PROVE  sent[n].body \in Seq(STRING)
<1>1. /\ sent[n].op \in Ops
      /\ sent[n].v \in [Keys(sent[n].op) -> Seq(STRING)]
      /\ sent[n].body = Body(sent[n].op, sent[n].v)
  BY DEF SentOver
<1> QED
  BY <1>1, BodyTyped

LEMMA ReadIsText ==
    ASSUME NetInv, SentOver(STRING), NEW k \in Nat \ {0}, k <= Len(up)
    PROVE  /\ up[1].n \in DOMAIN sent
           /\ Behind(k) \in Seq(STRING)
           /\ TextRead(k) = sent[up[1].n].body \o Behind(k)
           /\ TextRead(k) \in Seq(STRING)
<1>1. Len(up) \in Nat /\ DOMAIN up = 1 .. Len(up)
  BY LenProperties DEF NetInv, NetTyped
<1>2. \A i \in 1 .. Len(up) : up[i].n \in DOMAIN sent
  BY <1>1 DEF NetInv, Ordered, Numbered
<1>3. up[1].n \in DOMAIN sent
  BY <1>1, <1>2
<1>4. Header \in Seq(STRING)
  <2>1. "Host" \in STRING /\ "localhost" \in STRING /\ "colon" \in STRING /\ "space" \in STRING
    BY TokensAreStrings DEF Marks
  <2> QED
    BY <2>1 DEF Header
<1>5. Behind(k) \in Seq(STRING)
  <2> DEFINE parts == [i \in 1 .. k - 1 |-> Header \o sent[up[i + 1].n].body]
  <2>1. ASSUME NEW i \in 1 .. k - 1
        PROVE  Header \o sent[up[i + 1].n].body \in Seq(STRING)
    <3>1. i + 1 \in 1 .. Len(up)
      BY <1>1
    <3>2. sent[up[i + 1].n].body \in Seq(STRING)
      BY <1>2, <3>1, BodyIsText
    <3> QED
      BY <1>4, <3>2, ConcatProperties
  <2>2. parts \in [1 .. k - 1 -> Seq(STRING)] /\ k - 1 \in Nat
    BY <2>1
  <2>3. parts \in Seq(Seq(STRING))
    BY <2>2
  <2>4. FlattenSeq(parts) \in Seq(STRING)
    BY <2>3, FlattenTyped
  <2> QED
    BY <2>4 DEF Behind
<1>6. TextRead(k) = sent[up[1].n].body \o Behind(k)
  BY DEF TextRead, Behind
<1>7. TextRead(k) \in Seq(STRING)
  <2>1. sent[up[1].n].body \in Seq(STRING)
    BY <1>3, BodyIsText
  <2>2. sent[up[1].n].body \o Behind(k) \in Seq(STRING)
    BY <1>5, <2>1, ConcatProperties
  <2> QED
    BY <1>6, <2>2
<1> QED
  BY <1>3, <1>5, <1>6, <1>7

\* The stored users, whose fields were bound from a request.
AccountsTyped == \A a \in accounts : a \in [Keys("signup") -> Text]

LEMMA AccountsStep ==
    ASSUME NetInv, SentOver(STRING), AccountsTyped, [Next]_vars
    PROVE  AccountsTyped'
<1>1. CASE Serve
  <2>1. PICK k \in 1 .. ReadMax :
           /\ k <= Len(up)
           /\ accounts' = accounts \cup AnswerTo(up[1].n, TextRead(k)).stored
    BY <1>1 DEF Serve, Handled
  <2> DEFINE n == up[1].n
             op == sent[n].op
             b == Bound(op, sent[n].v, TextRead(k))
  <2>2. n \in DOMAIN sent /\ TextRead(k) \in Seq(STRING)
    <3>1. k \in Nat \ {0}
      BY ClientAssumption
    <3> QED
      BY <2>1, <3>1, ReadIsText
  <2>3. op \in Ops /\ sent[n].v \in [Keys(op) -> Seq(STRING)]
    BY <2>2 DEF SentOver
  <2>4. b \in [Keys(op) -> Seq(STRING)]
    BY <2>2, <2>3, BoundTyped
  <2>5. AnswerTo(n, TextRead(k)).stored =
           IF op = "signup" /\ Code(op, b) = "SUCCESS" THEN {b} ELSE {}
    BY DEF AnswerTo
  <2> HIDE DEF n, op, b
  <2>6. \A a \in accounts' : a \in accounts \/ (op = "signup" /\ a = b)
    BY <2>1, <2>5 DEF n
  <2> QED
    BY <2>4, <2>6 DEF AccountsTyped, Text
<1>2. CASE UNCHANGED accounts
  BY <1>2 DEF AccountsTyped
<1>3. Serve \/ UNCHANGED accounts
  BY DEF Next, ControlStep, LoopStep, ServerStep, Select, Skip, Cancel, EndOfInput,
         ReadField, ReadType, AskFriends, ReadCount, ReadMember, Submit, ShowAnswers,
         LoopEnds, Exit, ServeTail, ServerDies, vars
<1> QED
  BY <1>1, <1>2, <1>3

\* Elements that are all of a smaller type.
LEMMA Narrowed ==
    ASSUME NEW S, NEW T, NEW list \in Seq(S), \A i \in 1 .. Len(list) : list[i] \in T
    PROVE  list \in Seq(T)
<1> DEFINE n == Len(list)
<1>1. n \in Nat /\ list \in [1 .. n -> S] /\ \A i \in 1 .. n : list[i] \in T
  BY LenProperties
<1> HIDE DEF n
<1>2. list \in [1 .. n -> T]
  BY <1>1
<1> QED
  BY <1>1, <1>2, SeqDef

\* The numbers along the connection are those of requests.
LEMMA NumbersBounded ==
    ASSUME NetInv, SentOver(STRING)
    PROVE  /\ up \in Seq([n : 1 .. MaxSent, whole : BOOLEAN])
           /\ down \in Answers /\ shown \in Answers
<1>1. DOMAIN sent \subseteq 1 .. MaxSent
  <2>1. DOMAIN sent = 1 .. Len(sent) /\ Len(sent) \in Nat
    BY LenProperties DEF NetInv, NetTyped
  <2> QED
    BY <2>1, ClientAssumption DEF SentOver
<1>2. ASSUME NEW list \in Seq(Answered), Numbered(list)
      PROVE  list \in Answers
  <2>1. \A i \in 1 .. Len(list) : i \in DOMAIN list /\ list[i] \in Answered
    BY LenProperties, ElementOfSeq
  <2>2. \A i \in 1 .. Len(list) : list[i] \in [n : 1 .. MaxSent, code : Codes]
    BY <1>1, <1>2, <2>1 DEF Numbered, Answered
  <2>3. list \in Seq([n : 1 .. MaxSent, code : Codes])
    BY <2>2, Narrowed
  <2> QED
    BY <2>3 DEF Answers
<1>3. up \in Seq([n : 1 .. MaxSent, whole : BOOLEAN])
  <2>1. up \in Seq(Unreads) /\ \A i \in 1 .. Len(up) : i \in DOMAIN up /\ up[i] \in Unreads
    BY LenProperties, ElementOfSeq DEF NetInv, NetTyped
  <2>2. \A i \in 1 .. Len(up) : up[i] \in [n : 1 .. MaxSent, whole : BOOLEAN]
    BY <1>1, <2>1 DEF NetInv, Ordered, Numbered, Unreads
  <2> QED
    BY <2>1, <2>2, Narrowed
<1> QED
  BY <1>2, <1>3 DEF NetInv, NetTyped, Ordered

\* The server's end.
ConnTyped == conn \in {"open", "closed", "reset"}

LEMMA ConnStep ==
    ASSUME ConnTyped, [Next]_vars
    PROVE  ConnTyped'
<1>1. \A op, values : Write(op, values) => ConnTyped'
  BY DEF ConnTyped, Write
<1>2. CASE Select
  BY <1>1, <1>2 DEF Select, Run, ConnTyped
<1>3. CASE AskFriends \/ Submit
  BY <1>1, <1>3 DEF AskFriends, Submit
<1>4. CASE ServerStep
  BY <1>4 DEF ServerStep, Serve, ServeTail, ServerDies, ConnTyped
<1>5. CASE UNCHANGED conn
  BY <1>5 DEF ConnTyped
<1>6. Select \/ AskFriends \/ Submit \/ ServerStep \/ UNCHANGED conn
  BY DEF Next, ControlStep, LoopStep, Skip, Cancel, EndOfInput, ReadField, ReadType,
         ReadCount, ReadMember, ShowAnswers, LoopEnds, Exit, network, vars
<1> QED
  BY <1>2, <1>3, <1>4, <1>5, <1>6

-----------------------------------------------------------------------------
\* The theorems.

\* For whatever is typed and however the reads fall: the answers come in the order of
\* the requests, and none twice (hdl_socket, HDL_CLIENT_RECV).
THEOREM AnswersStayInOrder == Spec => []AnswersInOrder
<1>1. ClientInv => AnswersInOrder
  <2> SUFFICES ASSUME NetTyped, Ordered
               PROVE  AnswersInOrder
    BY DEF ClientInv, NetInv
  <2> DEFINE answers == shown \o down
             d == Len(shown)
  <2>1. /\ d \in Nat /\ Len(down) \in Nat
        /\ DOMAIN shown = 1 .. d /\ DOMAIN down = 1 .. Len(down)
    BY LenProperties DEF NetTyped
  <2>2. /\ answers \in Seq(Answered)
        /\ Len(answers) = d + Len(down)
        /\ \A i \in 1 .. d + Len(down) :
              answers[i] = IF i <= d THEN shown[i] ELSE down[i - d]
    BY ConcatProperties DEF NetTyped
  <2>3. DOMAIN answers = 1 .. d + Len(down)
    BY <2>2, LenProperties
  <2> HIDE DEF answers, d
  <2> SUFFICES ASSUME NEW i \in DOMAIN answers, NEW j \in DOMAIN answers, i < j
               PROVE  answers[i].n < answers[j].n
    BY DEF AnswersInOrder, answers
  <2>4. CASE j <= d
    <3>1. i \in DOMAIN shown /\ j \in DOMAIN shown /\ i <= d
      BY <2>1, <2>3, <2>4
    <3>2. answers[i] = shown[i] /\ answers[j] = shown[j]
      BY <2>2, <2>3, <2>4, <3>1
    <3> QED
      BY <3>1, <3>2 DEF Ordered, Rising
  <2>5. CASE i <= d /\ ~(j <= d)
    <3>1. i \in DOMAIN shown /\ j - d \in DOMAIN down
      BY <2>1, <2>3, <2>5
    <3>2. answers[i] = shown[i] /\ answers[j] = down[j - d]
      BY <2>2, <2>3, <2>5
    <3> QED
      BY <3>1, <3>2 DEF Ordered, Before
  <2>6. CASE ~(i <= d)
    <3>1. i - d \in DOMAIN down /\ j - d \in DOMAIN down /\ i - d < j - d /\ ~(j <= d)
      BY <2>1, <2>3, <2>6
    <3>2. answers[i] = down[i - d] /\ answers[j] = down[j - d]
      BY <2>2, <2>3, <2>6, <3>1
    <3> QED
      BY <3>1, <3>2 DEF Ordered, Rising
  <2> QED
    BY <2>4, <2>5, <2>6
<1> QED
  BY <1>1, ClientInvariant, PTL

\* For whatever is typed and however the reads fall: while the server lives, a request
\* written while nothing is unread is not lost (hdl_socket).
THEOREM LostOnlyBehindHolds == Spec => []LostOnlyBehind
<1>1. ClientInv => LostOnlyBehind
  <2> SUFFICES ASSUME NetTyped, AloneFirst
               PROVE  LostOnlyBehind
    BY DEF ClientInv, NetInv
  <2>1. DOMAIN up = 1 .. Len(up) /\ Len(up) \in Nat
    BY LenProperties DEF NetTyped
  <2>2. up # <<>> => 1 \in DOMAIN up
    BY <2>1, EmptySeq DEF NetTyped
  <2> QED
    BY <2>2 DEF AloneFirst, LostOnlyBehind
<1> QED
  BY <1>1, ClientInvariant, PTL

\* For whatever is typed: a request that names the user names the one of the last login
\* request before it (ctrl_login_interactive).
THEOREM IdentityWasSentHolds == Spec => []IdentityWasSent
<1>1. ClientInv => IdentityWasSent
  BY DEF ClientInv, LoginInv
<1> QED
  BY <1>1, ClientInvariant, PTL

\* Whatever is typed: every variable has its type, the texts that are kept, sent, bound
\* and stored included (zt_ctrl.c, zt_chat.c, http_bind_json_fields).
THEOREM ClientTypeCorrect == Spec => []TypeOK
<1> DEFINE Typed == AccountsTyped /\ ConnTyped
           Texts == TextsInv(STRING)
<1>1. Spec => []Texts
  BY AllTextsInvariant
<1>2. Init => Typed
  BY DEF Init, AccountsTyped, ConnTyped
<1>3. Texts /\ Typed /\ [Next]_vars => Typed'
  BY AccountsStep, ConnStep DEF TextsInv, ClientInv
<1>4. Texts /\ Typed => TypeOK
  <2> SUFFICES ASSUME Texts, Typed
               PROVE  TypeOK
    OBVIOUS
  <2> USE DEF TextsInv
  <2>1. /\ up \in Seq([n : 1 .. MaxSent, whole : BOOLEAN])
        /\ down \in Answers /\ shown \in Answers
    BY NumbersBounded DEF ClientInv
  <2>2. \A key \in DOMAIN filled : key \in FieldNames /\ filled[key] \in Text
    <3>1. CASE form \in Forms
      <4>1. PICK m \in 0 .. Len(FormOf[form]) : filled \in [Asked(form, m) -> Seq(STRING)]
        BY <3>1 DEF InputOver, FilledOver
      <4>2. Asked(form, m) \subseteq FieldNames
        <5>1. /\ Len(FormOf[form]) \in Nat
              /\ \A i \in 1 .. Len(FormOf[form]) : FormOf[form][i] \in FieldNames
          BY <3>1, FormFacts
        <5>2. \A i \in 1 .. m : i \in 1 .. Len(FormOf[form])
          BY <5>1
        <5> QED
          BY <5>1, <5>2 DEF Asked
      <4> QED
        BY <4>1, <4>2 DEF Text
    <3>2. CASE form \notin Forms
      <4>1. filled = <<>>
        BY <3>2 DEF InputOver, FilledOver
      <4> QED
        BY <4>1
    <3> QED
      BY <3>1, <3>2
  <2>3. /\ proc \in {"running", "closing", "ended"} /\ login \in Text
        /\ Len(sent) <= MaxSent
        /\ \A n \in DOMAIN sent : /\ sent[n].op \in Ops
                                  /\ sent[n].when \in {"alone", "behind", "closed"}
                                  /\ sent[n].v \in [Keys(sent[n].op) -> Text]
                                  /\ sent[n].body = Body(sent[n].op, sent[n].v)
    BY DEF SentOver, Text
  <2>4. /\ form \in {"select", "eof"} \cup Forms
        /\ left \in 0 .. NotAsked /\ members \in Text
        /\ spill \subseteq Text /\ \A r, q \in spill : r = q
    BY DEF InputOver, Text
  <2> QED
    BY <2>1, <2>2, <2>3, <2>4 DEF TypeOK, AccountsTyped, ConnTyped
<1> QED
  BY <1>1, <1>2, <1>3, <1>4, PTL DEF Spec

\* Where no token typed is a quote or the name of a field, and none in a user id a blank
\* or an ampersand (other marks and words may be typed, blanks in the other fields too):
\* however much of the text behind a request one read takes, the server binds what the
\* client wrote (chat_join and its like, msg_get_json_string_field_helper).
THEOREM BoundAsSentHolds ==
    ASSUME PlainLines
    PROVE  Spec => []BoundAsSent
<1>1. Spec => []TextsInv(STRING)
  BY AllTextsInvariant
<1>2. Spec => []TextsInv(Word)
  BY PlainTextsInvariant
<1>3. Spec => []Names
  BY NamesInvariant
<1>4. NetInv /\ SentOver(STRING) /\ SentOver(Word) /\ Names => BoundAsSent
  <2> SUFFICES ASSUME NetInv, SentOver(STRING), SentOver(Word), Names,
                      NEW k \in 1 .. ReadMax, k <= Len(up)
               PROVE  Bound(sent[up[1].n].op, sent[up[1].n].v, TextRead(k)) = sent[up[1].n].v
    BY DEF BoundAsSent
  <2> DEFINE n == up[1].n
             op == sent[n].op
             values == sent[n].v
  <2>1. k \in Nat \ {0}
    BY ClientAssumption
  <2>2. /\ n \in DOMAIN sent /\ Behind(k) \in Seq(STRING)
        /\ TextRead(k) = sent[n].body \o Behind(k)
    BY <2>1, ReadIsText
  <2>3. /\ op \in Ops /\ values \in [Keys(op) -> Seq(Word)] /\ sent[n].body = Body(op, values)
        /\ op = "friends" => values["user_id"] \in Seq(Name)
    BY <2>2 DEF SentOver, Names, NamesSent
  <2> HIDE DEF n, op, values
  <2>4. Bound(op, values, Body(op, values) \o Behind(k)) = values
    BY <2>2, <2>3, BoundIsSent
  <2> QED
    BY <2>2, <2>3, <2>4 DEF n, op, values
<1>5. TextsInv(STRING) /\ TextsInv(Word) /\ Names => BoundAsSent
  BY <1>4 DEF TextsInv, ClientInv
<1> QED
  BY <1>1, <1>2, <1>3, <1>5, PTL
=============================================================================
