----------------------------- MODULE MCBooking -----------------------------
(* Small instances of Booking: request slots are alike. *)
EXTENDS Booking, TLC

Symmetry == Permutations(Requests)
=============================================================================
