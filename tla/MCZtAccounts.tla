---------------------------- MODULE MCZtAccounts ----------------------------
(***************************************************************************)
(* Instances of ZtAccounts for TLC.  Servers, user ids, mdns and passwords *)
(* are only compared for equality, so their permutations are symmetries.   *)
(***************************************************************************)
EXTENDS ZtAccounts, TLC

Symmetry == Permutations(Servers) \cup Permutations(Users)
            \cup Permutations(Mdns) \cup Permutations(Passwords)
=============================================================================
