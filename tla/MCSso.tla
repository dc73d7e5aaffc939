------------------------------- MODULE MCSso --------------------------------
(* Sso on a small instance.  The sign-ins are interchangeable; login       *)
(* sessions are opened in a fixed order.                                   *)
EXTENDS Sso, TLC

Interchangeable == Permutations(Flows)
=============================================================================
