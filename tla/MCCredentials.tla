--------------------------- MODULE MCCredentials ---------------------------
(* Credentials on small instances: sessions, links and request slots are   *)
(* symmetric.                                                              *)
EXTENDS Credentials, TLC

Symmetry == Permutations(Sessions) \cup Permutations(Links) \cup Permutations(Requests)
=============================================================================
