----------------------------- MODULE MCAccounts -----------------------------
(* Accounts on small instances: accounts and request slots are symmetric.  *)
EXTENDS Accounts, TLC

Symmetry == Permutations(Users) \cup Permutations(Requests)
=============================================================================
