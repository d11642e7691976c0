------------------------------- MODULE ZtWire -------------------------------
(***************************************************************************)
(* The text of a request between the C client (zt_chat.c) and the server   *)
(* (zt_hdl.c, zt_http.c, zt_util.c).  A text is a sequence of tokens: the  *)
(* marks "quote", "colon", "comma" and "space", and words.  The client     *)
(* writes what was typed between quotes as it is; the server searches the  *)
(* whole text that it read for a key, and takes what stands between the    *)
(* next quotes after the next colon.                                       *)
(***************************************************************************)
EXTENDS Naturals, SequencesExt

\* The fields of each request, in the order the client writes them.
FieldsOf == [signup  |-> <<"user_id", "name", "password", "mdn">>,
             login   |-> <<"user_id", "password">>,
             create  |-> <<"room_id", "password", "user_id", "room_type", "members">>,
             invite  |-> <<"room_id", "user_id", "members">>,
             enter   |-> <<"room_id", "password">>,
             friends |-> <<"user_id">>,
             list    |-> <<>>]

Ops == DOMAIN FieldsOf
Keys(op) == Range(FieldsOf[op])
FieldNames == UNION {Keys(op) : op \in Ops}

\* What stands in a text besides words; "amp" only in an address.
Marks == {"quote", "colon", "comma", "space", "amp"}

\* The provers have no rule that says so of a literal; TLC evaluates it.
ASSUME TokensAreStrings ==
    Marks \cup FieldNames \cup {"1", "N", "Host", "localhost"} \subseteq STRING

\* The requests that carry their fields in a JSON body.
InBody(op) == op \notin {"friends", "list"}

Quoted(text) == <<"quote">> \o text \o <<"quote">>

\* "key": "value", the values unescaped (chat_join, chat_login, chat_create_room,
\* chat_invite_room, chat_join_room).
Pair(i, key, value) ==
    (IF i = 1 THEN <<>> ELSE <<"comma", "space">>)
        \o Quoted(<<key>>) \o <<"colon", "space">> \o Quoted(value)

Body(op, values) ==
    IF InBody(op)
    THEN FlattenSeq([i \in DOMAIN FieldsOf[op] |->
                        Pair(i, FieldsOf[op][i], values[FieldsOf[op][i]])])
    ELSE <<>>

\* What is in front of the body (HTTP_REQUEST_FMT).
Header == <<"Host", "colon", "space", "localhost">>

-----------------------------------------------------------------------------
\* The server's side.  FirstOfLast is a faulty variant, used by no action.

\* The first of these places in a text, or the place after its end (strstr, strchr).
FirstOfLast(places, end) == IF places = {} THEN end ELSE Max(places)
FirstOf(places, end) == Min(places \cup {end})

KeyPlaces(text, key) == {i \in 1 .. Len(text) - 2 : SubSeq(text, i, i + 2) = Quoted(<<key>>)}

KeyAt(text, key) == FirstOf(KeyPlaces(text, key), Len(text) + 1)

\* The next such mark in a text, and the next word or mark that is no blank.
NextMark(text, from, mark) ==
    FirstOf({i \in from .. Len(text) : text[i] = mark}, Len(text) + 1)
NextNoBlank(text, from) ==
    FirstOf({i \in from .. Len(text) : text[i] # "space"}, Len(text) + 1)

\* msg_get_json_string_field_helper; empty where msg_copy_json_string_field refuses.
Value(text, key) ==
    LET colon == NextMark(text, KeyAt(text, key) + 3, "colon")
        open  == NextNoBlank(text, colon + 1)
        close == NextMark(text, open + 1, "quote")
    IN IF close <= Len(text) /\ text[open] = "quote" THEN SubSeq(text, open + 1, close - 1)
                                                     ELSE <<>>

\* http_query_value, on an address that strtok ended at the first blank.
QueryValue(typed) ==
    SubSeq(typed, 1,
           FirstOf({i \in DOMAIN typed : typed[i] \in {"space", "amp"}}, Len(typed) + 1) - 1)

\* What the server binds from a read: from its text after the first header, or from
\* the address (http_get_body, http_bind_json_fields).
Bound(op, values, text) ==
    IF InBody(op) THEN [key \in Keys(op) |-> Value(text, key)]
    ELSE [key \in Keys(op) |-> QueryValue(values[key])]

\* A field that is missing or empty is answered INVALID_PARAMS.
Complete(bound) == \A key \in DOMAIN bound : bound[key] # <<>>
=============================================================================
