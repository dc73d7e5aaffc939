------------------------------ MODULE MCGroups ------------------------------
(* Groups on small instances.  Accounts, request slots, groups, codes and  *)
(* names are interchangeable; the liveness run uses no symmetry.           *)
EXTENDS Groups, TLC

Symmetry ==
  UNION {Permutations(S) : S \in {Users, Requests, GroupIds, Codes, Names}}
=============================================================================
