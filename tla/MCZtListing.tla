----------------------------- MODULE MCZtListing -----------------------------
(***************************************************************************)
(* Instances of ZtListing for TLC.                                         *)
(***************************************************************************)
EXTENDS ZtListing

Symmetry == Permutations(Rooms) \cup Permutations(Users \ Askers)
=============================================================================
