------------------------------ MODULE MCZtRooms ------------------------------
(***************************************************************************)
(* Instances of ZtRooms for TLC.  The names are chosen so that two pairs   *)
(* of a room name and a user give one room id, and one pair an id that is  *)
(* too long:  r + a_b = r_a + b = r_a_b;  r + b = r_b;  r_a + a_b = r_a_a_b. *)
(***************************************************************************)
EXTENDS ZtRooms, TLC

MCUsers == {<<"a", "b">>, <<"b">>}
MCRawIds == {<<"r">>, <<"r", "a">>}

Symmetry == Permutations(Servers)
=============================================================================
