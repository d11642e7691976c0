----------------------------- MODULE MCZtServer -----------------------------
(***************************************************************************)
(* Instances of ZtServer for TLC.  Clients are interchangeable; no         *)
(* symmetry is used where liveness is checked.                             *)
(***************************************************************************)
EXTENDS ZtServer, TLC

Symmetry == Permutations(Clients)
=============================================================================
