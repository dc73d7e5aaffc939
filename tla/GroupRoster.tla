---------------------------- MODULE GroupRoster ----------------------------
(***************************************************************************)
(* What a group's roster promises, whatever the interleaving of requests:  *)
(* a group starts with its creator as administrator, an invite only ever   *)
(* adds an ordinary member, and no single change takes the last            *)
(* administrator away.  Groups implements this specification as long as no *)
(* account is deleted.                                                     *)
(***************************************************************************)
CONSTANTS Users, GroupIds

VARIABLE roster     \* the role of each account in each group

Admins(g) == {u \in Users : roster[g][u] = "admin"}

Init == roster = [g \in GroupIds |-> [u \in Users |-> "none"]]

SetRole(g, u, role) == roster' = [roster EXCEPT ![g][u] = role]

Create(g, u) ==
  /\ \A v \in Users : roster[g][v] = "none"
  /\ SetRole(g, u, "admin")

Join(g, u) ==
  /\ Admins(g) # {}
  /\ roster[g][u] = "none"
  /\ SetRole(g, u, "member")

Promote(g, u) ==
  /\ roster[g][u] = "member"
  /\ SetRole(g, u, "admin")

Demote(g, u) ==
  /\ roster[g][u] = "admin"
  /\ Admins(g) \ {u} # {}
  /\ SetRole(g, u, "member")

Depart(g, u) ==
  /\ roster[g][u] # "none"
  /\ Admins(g) \ {u} # {}
  /\ SetRole(g, u, "none")

Next ==
  \E g \in GroupIds, u \in Users :
    \/ Create(g, u)
    \/ Join(g, u)
    \/ Promote(g, u)
    \/ Demote(g, u)
    \/ Depart(g, u)

Spec == Init /\ [][Next]_roster
=============================================================================
