------------------------------- MODULE MCShop -------------------------------
(* Small instances of Shop: two kinds of coupon, and request slots are alike. *)
EXTENDS Shop, TLC

MCTerms == {[type |-> "fixed", value |-> 3], [type |-> "percentage", value |-> 50]}
Symmetry == Permutations(Requests)
=============================================================================
