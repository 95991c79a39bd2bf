----------------------------- MODULE MCAccounts -----------------------------
(* Accounts on a small instance: which families of operations meet, one    *)
(* request at a time and overlapping. Requests are alike, and passwords.   *)
EXTENDS Accounts, TLC

Mode(together, apart) == [together |-> together, apart |-> apart]
Overlaps ==
    {Mode({}, {"login", "session", "staff"}),
     Mode({"session", "life"}, {"login"}),
     Mode({}, {"login", "code", "staff"}),
     Mode({"code"}, {"login", "staff"}),
     Mode({"life", "staff"}, {})}

Symmetry == Permutations(Requests) \cup Permutations(Passwords)
=============================================================================
