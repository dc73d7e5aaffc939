--------------------------- MODULE AccountSessions ---------------------------
(***************************************************************************)
(* What an account's sessions promise, whatever the interleaving of        *)
(* sign-ins, password changes, links and the administrator: a session      *)
(* opens only on an account that exists; it ends by itself or with all the *)
(* others, never with some of them; and a deleted account does not return. *)
(* Credentials implements this specification, a session counting from its  *)
(* insert on.                                                              *)
(***************************************************************************)
CONSTANTS
  Sessions   \* session ids

VARIABLES
  exists,    \* the account
  open       \* its sessions

vars == <<exists, open>>

(* A new account has no session, or the one it was created or upgraded in. *)
Init ==
  /\ exists = TRUE
  /\ open = {} \/ \E s \in Sessions : open = {s}

Open(s) ==
  /\ exists
  /\ open' = open \cup {s}
  /\ UNCHANGED exists

(* Signed out, expired, or its insert rolled back.                         *)
Close(s) ==
  /\ open' = open \ {s}
  /\ UNCHANGED exists

Revoke ==
  /\ open' = {}
  /\ UNCHANGED exists

Delete ==
  /\ exists' = FALSE
  /\ open' = {}

Next ==
  \/ Revoke \/ Delete
  \/ \E s \in Sessions : Open(s) \/ Close(s)

Spec == Init /\ [][Next]_vars
=============================================================================
