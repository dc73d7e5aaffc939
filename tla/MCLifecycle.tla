----------------------------- MODULE MCLifecycle -----------------------------
(* Lifecycle on a small instance.  The new release brings a migration that *)
(* is newer than all of the old one's, and one numbered between them.      *)
EXTENDS Lifecycle

MCKnown == [old |-> {1, 3}, new |-> {1, 2, 3, 4}]
=============================================================================
