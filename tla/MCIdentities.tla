---------------------------- MODULE MCIdentities ----------------------------
(* Identities on a small instance.  Accounts, addresses, subjects and      *)
(* request slots are interchangeable.                                      *)
EXTENDS Identities, TLC

Interchangeable ==
  Permutations(Users) \cup Permutations(Emails) \cup Permutations(Subjects)
    \cup Permutations(Requests)
=============================================================================
