----------------------------- MODULE MCZtClient -----------------------------
(***************************************************************************)
(* Instances of ZtClient for TLC: what the user may type.  A field has     *)
(* room for two tokens.                                                    *)
(***************************************************************************)
EXTENDS ZtClient

\* Some lines are too long.  The rest of a name is only its end, which cancels the form;
\* the rest of a room id is the password, and what is left of that one is a wrong room
\* type, or cancels; the rest of an mdn is a command.
TypedPlain == [prompt \in FieldNames |->
    CASE prompt = "user_id" -> {<<"ann">>, <<"bo">>}
      [] prompt = "name" -> {<<"space">>, <<"x", "x">>}
      [] prompt = "room_id" -> {<<"den", "den", "x", "x">>, <<"den", "den", "x", "x", "x">>}
      [] prompt = "mdn" -> {<<"x", "colon", "list">>}
      [] OTHER -> {<<"x">>}]

\* A user id that is also the name of a field.
TypedKeyword == [prompt \in FieldNames |->
    CASE prompt = "user_id" -> {<<"ann">>, <<"password">>}
      [] prompt = "password" -> {<<"pw">>}
      [] OTHER -> {<<"x">>}]
=============================================================================
