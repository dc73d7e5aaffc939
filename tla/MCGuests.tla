------------------------------ MODULE MCGuests ------------------------------
(* Guests on a small instance; sessions, codes and request slots keep      *)
(* their identity, since a run checks liveness.                            *)
EXTENDS Guests
=============================================================================
