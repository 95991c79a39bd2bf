----------------------------- MODULE MCServices -----------------------------
(* A small instance of the services: two requests in flight, one or two     *)
(* rows of each table, and the overlaps of Onboarding's requests that its    *)
(* properties tell apart.                                                   *)
EXTENDS Services, TLC

MCRivals ==
    {{}, {"submit", "verify"}, {"submit", "reject"}, {"verify", "reject"},
     {"register"}, {"register", "revoke"}, {"category"}, {"category", "rejection"}}
MCContents ==
    {[title |-> "red", tags |-> {"hat"}], [title |-> "hat", tags |-> {}]}

Symmetry == Permutations(Requests)
=============================================================================
