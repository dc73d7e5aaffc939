---------------------------- MODULE MCUsageQueue ----------------------------
(* UsageQueue on small instances: requests are symmetric.                  *)
EXTENDS UsageQueue, TLC

Symmetry == Permutations(Requests)
=============================================================================
