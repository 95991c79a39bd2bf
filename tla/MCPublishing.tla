--------------------------- MODULE MCPublishing ---------------------------
(* Small instances of Publishing: request slots of one kind are alike. *)
EXTENDS Publishing, TLC

Symmetry == Permutations(Merchants) \cup Permutations(Admins)
=============================================================================
