--------------------------- MODULE MCZtChatClient ---------------------------
(***************************************************************************)
(* The instance of ZtChatClient for TLC: two connections, so that the      *)
(* second may be opened while the loop of the first still runs.            *)
(***************************************************************************)
EXTENDS ZtChatClient
=============================================================================
