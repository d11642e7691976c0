---------------------------- MODULE MCZtChatRelay ----------------------------
(***************************************************************************)
(* Instances of ZtChatRelay for TLC.                                       *)
(***************************************************************************)
EXTENDS ZtChatRelay, TLC

Symmetry == Permutations(Clients) \cup Permutations(Chats)
=============================================================================
