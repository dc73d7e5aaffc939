---------------------------- MODULE GroupsProofs ----------------------------
(***************************************************************************)
(* Theorems about Groups for any accounts, groups, codes and number of     *)
(* concurrent requests.                                                    *)
(***************************************************************************)
EXTENDS Groups, TLAPS

(* What a request carries at each step it can be at.                       *)
RequestOK(r) ==
  LET q == req[r]
  IN /\ pc[r] \in {"idle", "failed"} <=> q.op = "none"
     /\ q.op # "none" => q.user \in Users
     /\ q.op = "create" =>
          pc[r] \in {"creator", "createGroup"} /\ q.arg \in Names
     /\ q.op = "join" =>
          /\ pc[r] \in {"lookup", "findOwn", "insert"}
          /\ pc[r] = "lookup" => q.arg \in Codes
          /\ pc[r] # "lookup" => q.group \in GroupIds /\ Exists(q.group)
     /\ q.op \in {"rename", "rotate"} =>
          /\ pc[r] \in {"authorize", "siteAdmin", "readGroup", "updateGroup",
                        "audit"}
          /\ q.group \in GroupIds /\ Exists(q.group)
          /\ q.op = "rename" => q.arg \in Names
          /\ pc[r] = "updateGroup" => q.seen.invite # None
     /\ q.op \in {"changeRole", "removeMember", "leave"} =>
          /\ pc[r] \in {"authorize", "siteAdmin", "target", "lock", "count",
                        "write", "reread", "audit"}
          /\ q.group \in GroupIds /\ q.target \in Users
          /\ q.arg \in IF q.op = "changeRole" THEN Roles ELSE {None}

RequestsOK == \A r \in Requests : RequestOK(r)

TypeInv == TypeOK /\ RequestsOK

(* None names no row, code, name, request or role.                        *)
LEMMA NoneFacts ==
  /\ None \notin Users /\ None \notin GroupIds /\ None \notin Codes
  /\ None \notin Names /\ None \notin Requests
  /\ None # "admin" /\ None # "member"
BY NoneAssumption

(* The empty request, group and membership are well formed.               *)
LEMMA NoRequestType == NoRequest \in Request /\ NoGroup \in Group /\ NoMembership \in Membership
BY DEF NoRequest, Form, Request, NoGroup, Group, NoMembership, Membership, AllOps, Roles

(* An installation without groups is well formed.                         *)
LEMMA InitType == Init => TypeInv
<1> SUFFICES ASSUME Init PROVE TypeInv
  OBVIOUS
<1>1. TypeOK
  BY NoRequestType, InitialAccountsAssumption DEF Init, TypeOK, Steps
<1>2. RequestsOK
  BY NoneFacts DEF Init, RequestsOK, RequestOK, NoRequest, Form
<1> QED BY <1>1, <1>2 DEF TypeInv

(* A step of request r leaves the other requests as they are, but for the  *)
(* note that a membership row is gone, and no step removes a group.        *)
SameCall(p, q) ==
  /\ p.op = q.op /\ p.user = q.user /\ p.group = q.group
  /\ p.target = q.target /\ p.version = q.version /\ p.arg = q.arg
  /\ p.seen = q.seen /\ p.asSite = q.asSite

OthersKeep(r) ==
  \A q \in Requests \ {r} : pc'[q] = pc[q] /\ SameCall(req'[q], req[q])

GroupsKeep == \A g \in GroupIds : Exists(g) => Exists(g)'

(* A step of r leaves what the other requests carry well formed.          *)
LEMMA OthersOK ==
  ASSUME TypeInv, NEW r \in Requests, OthersKeep(r), GroupsKeep, RequestOK(r)'
  PROVE  RequestsOK'
<1> SUFFICES ASSUME NEW q \in Requests, q # r PROVE RequestOK(q)'
  BY DEF RequestsOK
<1>1. RequestOK(q) /\ pc'[q] = pc[q] /\ SameCall(req'[q], req[q])
  BY DEF TypeInv, RequestsOK, OthersKeep
<1>2. \A g \in GroupIds : Exists(g) => Exists(g)'
  BY DEF GroupsKeep
<1> QED BY <1>1, <1>2 DEF RequestOK, SameCall

(* A request that is answered, with or without an error, carries nothing.  *)
LEMMA ReturnType ==
  ASSUME TypeInv, NEW r \in Requests, NEW s \in {"idle", "failed"}, Return(r, s), GroupsKeep
  PROVE  pc' \in [Requests -> Steps] /\ req' \in [Requests -> Request]
         /\ RequestsOK'
<1>1. pc' \in [Requests -> Steps] /\ req' \in [Requests -> Request]
  BY NoRequestType DEF TypeInv, TypeOK, Return, Steps
<1>2. RequestOK(r)'
  BY NoneFacts DEF TypeInv, TypeOK, Return, RequestOK, NoRequest, Form
<1>3. OthersKeep(r)
  BY DEF TypeInv, TypeOK, Return, OthersKeep, SameCall
<1> QED BY <1>1, <1>2, <1>3, OthersOK

(* A submitted form makes a well formed request.                          *)
LEMMA StartType ==
  ASSUME TypeInv, NEW r \in Requests, Submit(r)
  PROVE  TypeInv'
<1>0. UNCHANGED <<account, group, member, lock>> /\ GroupsKeep /\ OthersKeep(r)
  BY DEF Submit, CreateRequest, JoinRequest, RenameRequest, RotateRequest,
         ChangeRoleRequest, RemoveMemberRequest, LeaveRequest, GroupsKeep,
         OthersKeep, SameCall, Exists, TypeInv, TypeOK, Start
<1>1. CASE CreateRequest(r)
  <2>1. PICK u \in Users, n \in Names :
          Start(r, "creator", Form("create", u, None, None, 0, n))
    BY <1>1 DEF CreateRequest
  <2>2. TypeOK'
    BY <1>0, <2>1, NoneFacts, NoRequestType
    DEF TypeInv, TypeOK, Steps, Group, Membership, Start, Form, Request, AllOps
  <2>3. RequestOK(r)'
    BY <1>0, <2>1, NoneFacts DEF TypeInv, TypeOK, RequestOK, Exists, Start, Form
  <2> QED BY <1>0, <2>2, <2>3, OthersOK DEF TypeInv
<1>2. CASE JoinRequest(r)
  <2>1. PICK u \in Users, c \in Codes :
          Start(r, "lookup", Form("join", u, None, None, 0, c))
    BY <1>2 DEF JoinRequest
  <2>2. TypeOK'
    BY <1>0, <2>1, NoneFacts, NoRequestType
    DEF TypeInv, TypeOK, Steps, Group, Membership, Start, Form, Request, AllOps
  <2>3. RequestOK(r)'
    BY <1>0, <2>1, NoneFacts DEF TypeInv, TypeOK, RequestOK, Exists, Start, Form
  <2> QED BY <1>0, <2>2, <2>3, OthersOK DEF TypeInv
<1>3. CASE RenameRequest(r)
  <2>1. PICK u \in Users, g \in GroupIds, n \in Names :
          Exists(g) /\ Start(r, "authorize", Form("rename", u, g, None, group[g].version, n))
    BY <1>3 DEF RenameRequest
  <2>2. TypeOK'
    BY <1>0, <2>1, NoneFacts, NoRequestType
    DEF TypeInv, TypeOK, Steps, Group, Membership, Start, Form, Request, AllOps
  <2>3. RequestOK(r)'
    BY <1>0, <2>1, NoneFacts DEF TypeInv, TypeOK, RequestOK, Exists, Start, Form
  <2> QED BY <1>0, <2>2, <2>3, OthersOK DEF TypeInv
<1>4. CASE RotateRequest(r)
  <2>1. PICK u \in Users, g \in GroupIds :
          Exists(g) /\ Start(r, "authorize", Form("rotate", u, g, None, 0, None))
    BY <1>4 DEF RotateRequest
  <2>2. TypeOK'
    BY <1>0, <2>1, NoneFacts, NoRequestType
    DEF TypeInv, TypeOK, Steps, Group, Membership, Start, Form, Request, AllOps
  <2>3. RequestOK(r)'
    BY <1>0, <2>1, NoneFacts DEF TypeInv, TypeOK, RequestOK, Exists, Start, Form
  <2> QED BY <1>0, <2>2, <2>3, OthersOK DEF TypeInv
<1>5. CASE ChangeRoleRequest(r)
  <2>1. PICK u \in Users, t \in Users, g \in GroupIds, role \in Roles :
          Start(r, "authorize",
                Form("changeRole", u, g, t, member[g][t].version, role))
    BY <1>5 DEF ChangeRoleRequest
  <2>2. TypeOK'
    BY <1>0, <2>1, NoneFacts, NoRequestType
    DEF TypeInv, TypeOK, Steps, Group, Membership, Start, Form, Request, AllOps
  <2>3. RequestOK(r)'
    BY <1>0, <2>1, NoneFacts DEF TypeInv, TypeOK, RequestOK, Exists, Start, Form
  <2> QED BY <1>0, <2>2, <2>3, OthersOK DEF TypeInv
<1>6. CASE RemoveMemberRequest(r)
  <2>1. PICK u \in Users, t \in Users, g \in GroupIds :
          Start(r, "authorize",
                Form("removeMember", u, g, t, member[g][t].version, None))
    BY <1>6 DEF RemoveMemberRequest
  <2>2. TypeOK'
    BY <1>0, <2>1, NoneFacts, NoRequestType
    DEF TypeInv, TypeOK, Steps, Group, Membership, Start, Form, Request, AllOps
  <2>3. RequestOK(r)'
    BY <1>0, <2>1, NoneFacts DEF TypeInv, TypeOK, RequestOK, Exists, Start, Form
  <2> QED BY <1>0, <2>2, <2>3, OthersOK DEF TypeInv
<1>7. CASE LeaveRequest(r)
  <2>1. PICK u \in Users, g \in GroupIds :
          Start(r, "target", Form("leave", u, g, u, 0, None))
    BY <1>7 DEF LeaveRequest
  <2>2. TypeOK'
    BY <1>0, <2>1, NoneFacts, NoRequestType
    DEF TypeInv, TypeOK, Steps, Group, Membership, Start, Form, Request, AllOps
  <2>3. RequestOK(r)'
    BY <1>0, <2>1, NoneFacts DEF TypeInv, TypeOK, RequestOK, Exists, Start, Form
  <2> QED BY <1>0, <2>2, <2>3, OthersOK DEF TypeInv
<1> QED BY <1>1, <1>2, <1>3, <1>4, <1>5, <1>6, <1>7 DEF Submit

(* A step that writes no group row keeps every group.                     *)
LEMMA SameGroups == ASSUME UNCHANGED group PROVE GroupsKeep
BY DEF GroupsKeep, Exists

(* A step that moves r on, touching no stored row.                         *)
LEMMA MoveType ==
  ASSUME TypeInv, NEW r \in Requests, NEW s \in Steps, Goto(r, s),
         NEW q \in Request, req' = [req EXCEPT ![r] = q],
         GroupsKeep, RequestOK(r)'
  PROVE  pc' \in [Requests -> Steps] /\ req' \in [Requests -> Request]
         /\ RequestsOK'
<1>1. OthersKeep(r)
  BY DEF TypeInv, TypeOK, Goto, OthersKeep, SameCall
<1> QED BY <1>1, OthersOK DEF TypeInv, TypeOK, Goto

(* Each statement of a request keeps the tables and the request well formed. *)
LEMMA StepType ==
  ASSUME TypeInv, NEW r \in Requests, Step(r) PROVE TypeInv'
<1>t. TypeOK /\ RequestOK(r) /\ req[r] \in Request
  BY DEF TypeInv, RequestsOK, TypeOK
<1>e. ASSUME End(r) \/ Erred(r), UNCHANGED <<account, group, member>>,
             lock' \in [GroupIds -> Requests \cup {None}]
      PROVE  TypeInv'
  BY <1>e, <1>t, SameGroups, ReturnType DEF TypeInv, TypeOK, End, Erred
<1>m. ASSUME NEW s \in Steps, NEW q \in Request, Goto(r, s),
             req' = [req EXCEPT ![r] = q], RequestOK(r)',
             UNCHANGED <<account, group, member>>,
             lock' \in [GroupIds -> Requests \cup {None}]
      PROVE  TypeInv'
  BY <1>m, <1>t, SameGroups, MoveType DEF TypeInv, TypeOK
<1>n. UNCHANGED req => req' = [req EXCEPT ![r] = req[r]]
  BY <1>t DEF TypeOK
<1>c. ASSUME NEW s \in {"idle", "audit", "reread"}, Committed(r, s), GroupsKeep,
             s # "idle" => pc[r] \in {"updateGroup", "write"},
             s = "reread" => pc[r] = "write"
      PROVE  pc' \in [Requests -> Steps] /\ req' \in [Requests -> Request] /\ RequestsOK'
  <2>1. CASE End(r) \/ Erred(r)
    BY <2>1, <1>c, ReturnType DEF End, Erred
  <2>2. CASE ~(End(r) \/ Erred(r))
    <3>1. /\ Goto(r, s) /\ s # "idle"
          /\ req' = [req EXCEPT ![r] = [req[r] EXCEPT !.wrote = TRUE]]
      BY <2>2, <1>c, <1>t DEF Committed, TypeOK
    <3>2. [req[r] EXCEPT !.wrote = TRUE] \in Request
      BY <1>t DEF Request
    <3>3. RequestOK(r)'
      BY <3>1, <1>c, <1>t DEF RequestOK, Goto, GroupsKeep, TypeOK, Request, AllOps
    <3> QED BY <3>1, <3>2, <3>3, <1>c, <1>t, MoveType DEF TypeOK, Steps
  <2> QED BY <2>1, <2>2
<1>1. CASE Creator(r)
  <2>1. CASE End(r)
    BY <1>1, <2>1, <1>t, <1>e DEF Creator, TypeOK
  <2>2. CASE ~End(r)
    <3>1. Goto(r, "createGroup") /\ UNCHANGED <<req, account, group, member, lock>>
      BY <1>1, <2>2 DEF Creator
    <3>2. RequestOK(r)'
      BY <1>1, <3>1, <1>t DEF Creator, RequestOK, Goto, TypeOK, Exists
    <3> QED BY <3>1, <3>2, <1>m, <1>n, <1>t DEF Steps, TypeOK
  <2> QED BY <2>1, <2>2
<1>2. CASE CreateGroup(r)
  <2>1. CASE End(r) /\ UNCHANGED <<group, member>>
    BY <1>2, <2>1, <1>t, <1>e DEF CreateGroup, TypeOK
  <2>2. CASE \E code \in Codes, g \in Unused :
               CreateGroupWithAdmin(r, g, code) /\ Committed(r, "idle")
    <3>1. PICK code \in Codes, g \in GroupIds :
            CreateGroupWithAdmin(r, g, code) /\ Committed(r, "idle")
      BY <2>2 DEF Unused
    <3>2. req[r].user \in Users /\ req[r].arg \in Names
      BY <1>2, <1>t DEF CreateGroup, RequestOK, Request, AllOps
    <3>3. group' \in [GroupIds -> Group] /\ member' \in [GroupIds -> [Users -> Membership]]
      BY <3>1, <3>2, <1>t DEF CreateGroupWithAdmin, TypeOK, Group, Membership, Roles
    <3>4. GroupsKeep
      BY <3>1, <1>t, NoneFacts DEF CreateGroupWithAdmin, GroupsKeep, Exists, TypeOK
    <3> QED BY <1>2, <3>1, <3>3, <3>4, <1>t, <1>c DEF CreateGroup, TypeInv, TypeOK
  <2>3. CASE req' = [req EXCEPT ![r].tries = @ + 1] /\ UNCHANGED <<pc, group, member>>
    <3>1. [req[r] EXCEPT !.tries = @ + 1] \in Request
      BY <1>t DEF Request
    <3>2. RequestOK(r)'
      BY <2>3, <1>t DEF RequestOK, TypeOK, Exists
    <3>3. Goto(r, pc[r]) /\ req' = [req EXCEPT ![r] = [req[r] EXCEPT !.tries = @ + 1]]
      BY <2>3, <1>t DEF Goto, TypeOK
    <3> QED BY <1>2, <2>3, <3>1, <3>2, <3>3, <1>m, <1>t DEF CreateGroup, TypeOK
  <2> QED BY <1>2, <2>1, <2>2, <2>3 DEF CreateGroup
<1>3. CASE Lookup(r)
  <2>1. CASE End(r)
    BY <1>3, <2>1, <1>t, <1>e DEF Lookup, TypeOK
  <2>2. CASE ~End(r)
    <3>1. PICK g \in GroupIds :
            /\ group[g].invite = req[r].arg
            /\ req' = [req EXCEPT ![r].group = g] /\ Goto(r, "findOwn")
      BY <1>3, <2>2 DEF Lookup
    <3>2. [req[r] EXCEPT !.group = g] \in Request
      BY <1>t DEF Request
    <3>3. RequestOK(r)'
      BY <1>3, <3>1, <1>t, NoneFacts
      DEF Lookup, RequestOK, TypeOK, Exists, Goto, Request, AllOps
    <3> QED BY <1>3, <3>1, <3>2, <3>3, <1>m, <1>t DEF Lookup, TypeOK, Steps
  <2> QED BY <2>1, <2>2
<1>4. CASE FindOwn(r)
  <2>1. CASE End(r)
    BY <1>4, <2>1, <1>t, <1>e DEF FindOwn, TypeOK
  <2>2. CASE ~End(r)
    <3>1. Goto(r, "insert") /\ UNCHANGED <<req, account, group, member, lock>>
      BY <1>4, <2>2 DEF FindOwn
    <3>2. RequestOK(r)'
      BY <1>4, <3>1, <1>t DEF FindOwn, RequestOK, Goto, TypeOK, Exists
    <3> QED BY <3>1, <3>2, <1>m, <1>n, <1>t DEF Steps, TypeOK
  <2> QED BY <2>1, <2>2
<1>5. CASE CreateMembership(r)
  <2>0. req[r].user \in Users /\ req[r].group \in GroupIds
    BY <1>5, <1>t DEF CreateMembership, RequestOK, Request, AllOps
  <2>1. member' \in [GroupIds -> [Users -> Membership]]
    <3>1. CASE UNCHANGED member
      BY <3>1, <1>t DEF TypeOK
    <3>2. CASE member' = [member EXCEPT ![req[r].group][req[r].user] =
                            [role |-> "member", version |-> 0]]
      BY <3>2, <2>0, <1>t DEF TypeOK, Membership, Roles
    <3> QED BY <1>5, <3>1, <3>2 DEF CreateMembership
  <2>2. Committed(r, "idle") /\ GroupsKeep
    BY <1>5, SameGroups DEF CreateMembership, Committed
  <2> QED BY <1>5, <2>1, <2>2, <1>t, <1>c DEF CreateMembership, TypeInv, TypeOK
<1>6. CASE Authorize(r)
  <2>1. PICK s \in {AfterAuthorize(r), "siteAdmin"} : Goto(r, s)
    BY <1>6, Zenon DEF Authorize
  <2>2. s \in Steps
    BY DEF AfterAuthorize, Steps
  <2>3. RequestOK(r)'
    BY <1>6, <2>1, <1>t, SMTT(30) DEF Authorize, AfterAuthorize, RequestOK, Goto, TypeOK, Exists,
       Request, AllOps
  <2> QED BY <1>6, <2>1, <2>2, <2>3, <1>m, <1>n, <1>t DEF Authorize, TypeOK
<1>7. CASE ActorIsGlobalAdmin(r)
  <2>1. CASE End(r)
    BY <1>7, <2>1, <1>t, <1>e DEF ActorIsGlobalAdmin, TypeOK
  <2>2. CASE ~End(r)
    <3>1. Goto(r, AfterAuthorize(r)) /\ req' = [req EXCEPT ![r].asSite = TRUE]
      BY <1>7, <2>2 DEF ActorIsGlobalAdmin
    <3>2. [req[r] EXCEPT !.asSite = TRUE] \in Request /\ AfterAuthorize(r) \in Steps
      BY <1>t DEF Request, AfterAuthorize, Steps
    <3>3. RequestOK(r)'
      BY <1>7, <3>1, <1>t
      DEF ActorIsGlobalAdmin, AfterAuthorize, RequestOK, Goto, TypeOK, Exists, Request, AllOps
    <3> QED BY <1>7, <3>1, <3>2, <3>3, <1>m, <1>t DEF ActorIsGlobalAdmin, TypeOK
  <2> QED BY <2>1, <2>2
<1>8. CASE FindGroupByID(r)
  <2> DEFINE g == req[r].group
             q == [req[r] EXCEPT !.seen = group[g],
                                 !.version = IF req[r].op = "rotate"
                                             THEN group[g].version ELSE @]
  <2>1. Goto(r, "updateGroup") /\ req' = [req EXCEPT ![r] = q]
    BY <1>8, <1>t DEF FindGroupByID, TypeOK
  <2>2. g \in GroupIds /\ group[g] \in Group
    BY <1>8, <1>t DEF FindGroupByID, RequestOK, Request, AllOps, TypeOK
  <2>3. q \in Request
    BY <2>2, <1>t DEF Request, Group
  <2>4. RequestOK(r)'
    BY <1>8, <2>1, <2>2, <1>t DEF FindGroupByID, RequestOK, Goto, TypeOK, Exists, Request, AllOps
  <2> QED BY <1>8, <2>1, <2>3, <2>4, <1>m, <1>t DEF FindGroupByID, TypeOK, Steps
<1>u. ASSUME NEW name \in Names \cup {None}, NEW invite \in Codes,
             NEW v \in Nat, NEW g \in GroupIds, UpdateGroup(g, name, invite, v)
      PROVE  group' \in [GroupIds -> Group] /\ GroupsKeep
  BY <1>u, <1>t, NoneFacts DEF UpdateGroup, TypeOK, Group, GroupsKeep, Exists
<1>9. CASE Rename(r)
  <2>1. CASE End(r) /\ UNCHANGED group
    BY <1>9, <2>1, <1>t, <1>e DEF Rename, TypeOK
  <2>2. CASE ~(End(r) /\ UNCHANGED group)
    <3>1. /\ UpdateGroup(req[r].group, req[r].arg, req[r].seen.invite, req[r].version)
          /\ Committed(r, AuditStep(r)) /\ UNCHANGED <<account, member, lock>>
      BY <1>9, <2>2 DEF Rename
    <3>2. /\ req[r].group \in GroupIds /\ req[r].arg \in Names
          /\ req[r].seen.invite \in Codes /\ req[r].version \in Nat
      BY <1>9, <1>t DEF Rename, RequestOK, Request, Group, AllOps
    <3>3. group' \in [GroupIds -> Group] /\ GroupsKeep
      BY <3>1, <3>2, <1>u
    <3>4. AuditStep(r) \in {"idle", "audit"}
      BY DEF AuditStep
    <3> QED BY <1>9, <3>1, <3>3, <3>4, <1>c, <1>t DEF Rename, TypeInv, TypeOK
  <2> QED BY <2>1, <2>2
<1>10. CASE RotateInvite(r)
  <2>1. CASE End(r) /\ UNCHANGED group
    BY <1>10, <2>1, <1>t, <1>e DEF RotateInvite, TypeOK
  <2>2. CASE \E code \in Codes :
               /\ UpdateGroup(req[r].group, req[r].seen.name, code, req[r].version)
               /\ Committed(r, AuditStep(r))
    <3>1. PICK code \in Codes :
            /\ UpdateGroup(req[r].group, req[r].seen.name, code, req[r].version)
            /\ Committed(r, AuditStep(r))
      BY <2>2
    <3>2. /\ req[r].group \in GroupIds /\ req[r].seen.name \in Names \cup {None}
          /\ req[r].version \in Nat
      BY <1>10, <1>t DEF RotateInvite, RequestOK, Request, Group, AllOps
    <3>3. group' \in [GroupIds -> Group] /\ GroupsKeep
      BY <3>1, <3>2, <1>u
    <3>4. AuditStep(r) \in {"idle", "audit"}
      BY DEF AuditStep
    <3> QED BY <1>10, <3>1, <3>3, <3>4, <1>c, <1>t DEF RotateInvite, TypeInv, TypeOK
  <2>3. CASE req' = [req EXCEPT ![r].tries = @ + 1] /\ UNCHANGED <<pc, group>>
    <3>1. [req[r] EXCEPT !.tries = @ + 1] \in Request
      BY <1>t DEF Request
    <3>2. RequestOK(r)'
      BY <2>3, <1>t DEF RequestOK, TypeOK, Exists
    <3>3. Goto(r, pc[r]) /\ req' = [req EXCEPT ![r] = [req[r] EXCEPT !.tries = @ + 1]]
      BY <2>3, <1>t DEF Goto, TypeOK
    <3> QED BY <1>10, <2>3, <3>1, <3>2, <3>3, <1>m, <1>t DEF RotateInvite, TypeOK
  <2> QED BY <1>10, <2>1, <2>2, <2>3 DEF RotateInvite
<1>11. CASE Target(r)
  <2> DEFINE row == member[req[r].group][req[r].target]
             q == [req[r] EXCEPT
                     !.version = IF req[r].op = "leave" THEN row.version ELSE @]
  <2>1. CASE End(r)
    BY <1>11, <2>1, <1>t, <1>e DEF Target, TypeOK
  <2>2. CASE ~End(r)
    <3>1. Goto(r, "lock") /\ req' = [req EXCEPT ![r] = q]
      BY <1>11, <2>2, <1>t DEF Target, TypeOK, Request
    <3>2. row \in Membership
      BY <1>11, <1>t DEF Target, RequestOK, Request, AllOps, TypeOK
    <3>3. q \in Request
      BY <3>2, <1>t DEF Request, Membership
    <3>4. RequestOK(r)'
      BY <1>11, <3>1, <1>t DEF Target, RequestOK, Goto, TypeOK, Exists, Request, AllOps
    <3> QED BY <1>11, <3>1, <3>3, <3>4, <1>m, <1>t DEF Target, TypeOK, Steps
  <2> QED BY <2>1, <2>2
<1>12. CASE LockGroupMembers(r)
  <2>1. RequestOK(r)'
    BY <1>12, <1>t DEF LockGroupMembers, RequestOK, Goto, TypeOK, Exists, Request, AllOps
  <2> QED BY <1>12, <2>1, <1>m, <1>n, <1>t DEF LockGroupMembers, TypeOK, Steps
<1>l. Unlock(r) => lock' \in [GroupIds -> Requests \cup {None}]
  BY <1>t DEF Unlock, TypeOK
<1>13. CASE Count(r)
  <2>1. CASE End(r)
    BY <1>13, <2>1, <1>t, <1>e, <1>l DEF Count, TypeOK
  <2>2. CASE ~End(r)
    <3>1. Goto(r, "write") /\ UNCHANGED <<req, lock>>
      BY <1>13, <2>2 DEF Count
    <3>2. RequestOK(r)'
      BY <1>13, <3>1, <1>t DEF Count, RequestOK, Goto, TypeOK, Exists, Request, AllOps
    <3> QED BY <1>13, <3>1, <3>2, <1>m, <1>n, <1>t DEF Count, TypeOK, Steps
  <2> QED BY <2>1, <2>2
<1>w. pc[r] = "write" => req[r].group \in GroupIds /\ req[r].target \in Users
  BY <1>t DEF RequestOK, Request, AllOps
<1>14. CASE ChangeRole(r)
  <2> DEFINE g == req[r].group
             t == req[r].target
  <2>1. CASE End(r) /\ UNCHANGED member
    BY <1>14, <2>1, <1>t, <1>e, <1>l DEF ChangeRole, TypeOK
  <2>2. CASE ~(End(r) /\ UNCHANGED member)
    <3>1. /\ member' = [member EXCEPT ![g][t] =
                          [role |-> req[r].arg, version |-> @.version + 1]]
          /\ Committed(r, "reread")
      BY <1>14, <2>2 DEF ChangeRole
    <3>2. req[r].arg \in Roles
      BY <1>14, <1>t DEF ChangeRole, RequestOK
    <3>3. member' \in [GroupIds -> [Users -> Membership]]
      BY <1>14, <3>1, <3>2, <1>w, <1>t DEF ChangeRole, TypeOK, Membership
    <3>4. GroupsKeep
      BY <1>14, SameGroups DEF ChangeRole
    <3> QED BY <1>14, <3>1, <3>3, <3>4, <1>c, <1>l, <1>t DEF ChangeRole, TypeInv, TypeOK
  <2> QED BY <2>1, <2>2
<1>15. CASE DeleteMembership(r)
  <2> DEFINE g == req[r].group
             t == req[r].target
             s == IF req[r].op = "removeMember" THEN AuditStep(r) ELSE "idle"
  <2>1. CASE End(r) /\ UNCHANGED member
    BY <1>15, <2>1, <1>t, <1>e, <1>l DEF DeleteMembership, TypeOK
  <2>2. CASE ~(End(r) /\ UNCHANGED member)
    <3>1. member' = [member EXCEPT ![g][t] = NoMembership] /\ Committed(r, s)
      BY <1>15, <2>2 DEF DeleteMembership
    <3>2. member' \in [GroupIds -> [Users -> Membership]]
      BY <1>15, <3>1, <1>w, <1>t, NoRequestType DEF DeleteMembership, TypeOK
    <3>3. s \in {"idle", "audit"}
      BY DEF AuditStep
    <3>4. GroupsKeep
      BY <1>15, SameGroups DEF DeleteMembership
    <3> HIDE DEF s
    <3> QED BY <1>15, <3>1, <3>2, <3>3, <3>4, <1>c, <1>l, <1>t
            DEF DeleteMembership, TypeInv, TypeOK
  <2> QED BY <2>1, <2>2
<1>16. CASE Reread(r)
  <2>1. CASE End(r) \/ Erred(r)
    BY <1>16, <2>1, <1>t, <1>e DEF Reread, TypeOK
  <2>2. CASE ~(End(r) \/ Erred(r))
    <3>1. Goto(r, "audit") /\ UNCHANGED req
      BY <1>16, <2>2 DEF Reread, AuditStep
    <3>2. RequestOK(r)'
      BY <1>16, <3>1, <1>t DEF Reread, RequestOK, Goto, TypeOK, Exists, Request, AllOps
    <3> QED BY <1>16, <3>1, <3>2, <1>m, <1>n, <1>t DEF Reread, TypeOK, Steps
  <2> QED BY <2>1, <2>2
<1>17. CASE RecordSiteAdminAction(r) \/ AnswerError(r)
  BY <1>17, <1>t, <1>e DEF RecordSiteAdminAction, AnswerError, TypeOK
<1> QED BY <1>1, <1>2, <1>3, <1>4, <1>5, <1>6, <1>7, <1>8, <1>9, <1>10, <1>11,
           <1>12, <1>13, <1>14, <1>15, <1>16, <1>17 DEF Step

(* So does the error return.                                              *)
LEMMA FailType ==
  ASSUME TypeInv, NEW r \in Requests, Fail(r) PROVE TypeInv'
<1>1. lock' \in [GroupIds -> Requests \cup {None}]
  BY DEF TypeInv, TypeOK, Fail, Unlock
<1> QED BY <1>1, SameGroups, ReturnType DEF Fail, Erred, TypeInv, TypeOK

(* So do the changes to the account store.                                *)
LEMMA AccountType ==
  ASSUME TypeInv, NEW u \in Users, SetSiteAdmin(u) \/ DeleteAccount(u)
  PROVE  TypeInv'
<1>1. CASE SetSiteAdmin(u)
  <2>1. TypeOK'
    BY <1>1 DEF SetSiteAdmin, TypeInv, TypeOK
  <2>2. RequestsOK'
    BY <1>1 DEF SetSiteAdmin, TypeInv, RequestsOK, RequestOK, Exists
  <2> QED BY <2>1, <2>2 DEF TypeInv
<1>2. CASE DeleteAccount(u)
  <2>1. TypeOK'
    <3>1. member' \in [GroupIds -> [Users -> Membership]]
      BY <1>2, NoRequestType DEF DeleteAccount, TypeInv, TypeOK
    <3>2. req' \in [Requests -> Request]
      BY <1>2 DEF DeleteAccount, TypeInv, TypeOK
    <3>3. account' \in [Users -> {"absent", "guest", "user", "admin"}]
      BY <1>2 DEF DeleteAccount, TypeInv, TypeOK
    <3> QED BY <1>2, <3>1, <3>2, <3>3 DEF DeleteAccount, TypeInv, TypeOK
  <2>2. RequestsOK'
    BY <1>2 DEF DeleteAccount, TypeInv, RequestsOK, RequestOK, Exists
  <2> QED BY <2>1, <2>2 DEF TypeInv
<1> QED BY <1>1, <1>2

(* The type invariant is inductive.                                       *)
LEMMA NextType == TypeInv /\ [Next]_vars => TypeInv'
<1> SUFFICES ASSUME TypeInv, [Next]_vars PROVE TypeInv'
  OBVIOUS
<1>1. CASE UNCHANGED vars
  BY <1>1 DEF vars, TypeInv, TypeOK, RequestsOK, RequestOK, Exists
<1>2. CASE Next
  BY <1>2, StartType, StepType, FailType, AccountType DEF Next
<1> QED BY <1>1, <1>2

(* Type correctness: whatever the accounts, groups and requests, every row *)
(* and every request keeps its shape.                                      *)
THEOREM TypeCorrect == Spec => []TypeOK
<1>1. Init => TypeInv
  BY InitType
<1>2. TypeInv /\ [Next]_vars => TypeInv'
  BY NextType
<1>3. TypeInv => TypeOK
  BY DEF TypeInv
<1> QED BY <1>1, <1>2, <1>3, PTL DEF Spec

-----------------------------------------------------------------------------
(* A group keeps an administrator.  The invariant is not inductive alone:  *)
(* between the count and the write it depends on the lock, which keeps any *)
(* other request from taking away the administrator that was counted.      *)

Locked == {"count", "write"}

LockHeld == \A r \in Requests : pc[r] \in Locked => lock[req[r].group] = r

CountHolds ==
  \A r \in Requests : pc[r] = "write" =>
    /\ member[req[r].group][req[r].target].role # "none"
    /\ CostsAdministrator(r) => EnsureAnotherAdmin(req[r].group, req[r].target)

NoStrayMembers ==
  \A g \in GroupIds, u \in Users : ~Exists(g) => member[g][u].role = "none"

AdminInv ==
  TypeInv /\ LockHeld /\ CountHolds /\ NoStrayMembers /\ GroupKeepsAdmin

NoDeletion == "delete" \notin AccountChanges

(* There is no group at the start, so none without an administrator.      *)
LEMMA InitAdmin == Init => AdminInv
<1> SUFFICES ASSUME Init PROVE AdminInv
  OBVIOUS
<1>1. TypeInv
  BY InitType
<1> QED BY <1>1 DEF Init, AdminInv, LockHeld, Locked, CountHolds, NoStrayMembers,
                    GroupKeepsAdmin, NoMembership, NoGroup, Exists

(* What r's step does to the lock.                                         *)
LockStep(r) ==
  \/ UNCHANGED lock /\ (pc'[r] \in Locked => pc[r] \in Locked /\ req'[r].group = req[r].group)
  \/ Unlock(r) /\ pc[r] \in Locked /\ pc'[r] \notin Locked
  \/ LockGroupMembers(r)

(* Taking, keeping and releasing the lock keeps "past the lock means holding it". *)
LEMMA LockStepHeld ==
  ASSUME AdminInv, NEW r \in Requests, OthersKeep(r), LockStep(r), TypeInv'
  PROVE  LockHeld'
<1> SUFFICES ASSUME NEW q \in Requests, pc'[q] \in Locked
             PROVE  lock'[req'[q].group] = q
  BY DEF LockHeld
<1>0. \A p \in Requests : pc[p] \in Locked => /\ lock[req[p].group] = p
                                             /\ req[p].group \in GroupIds
  BY DEF AdminInv, LockHeld, TypeInv, RequestsOK, RequestOK, Locked, TypeOK, Request, AllOps
<1>1. CASE q # r
  <2>1. pc'[q] = pc[q] /\ req'[q].group = req[q].group
    BY <1>1 DEF OthersKeep, SameCall
  <2>2. lock[req[q].group] = q /\ req[q].group \in GroupIds
    BY <1>0, <2>1
  <2> QED BY <1>0, <1>1, <2>1, <2>2, NoneFacts
          DEF LockStep, Unlock, LockGroupMembers, AdminInv, TypeInv, TypeOK
<1>2. CASE q = r
  <2>1. CASE LockGroupMembers(r)
    <3>1. req[r].group \in GroupIds
      BY <2>1 DEF LockGroupMembers, AdminInv, TypeInv, RequestsOK, RequestOK, TypeOK, Request,
         AllOps
    <3> QED BY <1>2, <2>1, <3>1 DEF LockGroupMembers, AdminInv, TypeInv, TypeOK
  <2> QED BY <1>0, <1>2, <2>1 DEF LockStep
<1> QED BY <1>1, <1>2

(* Two requests past the lock are in different groups.                     *)
LEMMA Exclusion ==
  ASSUME LockHeld, NEW p \in Requests, NEW q \in Requests,
         pc[p] \in Locked, pc[q] \in Locked, req[p].group = req[q].group
  PROVE  p = q
BY DEF LockHeld

(* The four things a step of a request can do to the rosters.              *)
NoNewGroup(G) == \A h \in GroupIds \ G : Exists(h)' => Exists(h)

Quiet(r) ==
  /\ UNCHANGED member /\ NoNewGroup({})
  /\ pc'[r] = "write" =>
       /\ pc[r] = "count" /\ UNCHANGED req
       /\ member[req[r].group][req[r].target].role # "none"
       /\ CostsAdministrator(r) => EnsureAnotherAdmin(req[r].group, req[r].target)

Founds(r, g, u) ==
  /\ ~Exists(g) /\ Exists(g)' /\ NoNewGroup({g}) /\ pc'[r] # "write"
  /\ member' = [member EXCEPT ![g][u] = [role |-> "admin", version |-> 0]]

Joins(r, g, u) ==
  /\ Exists(g) /\ NoNewGroup({}) /\ pc'[r] # "write"
  /\ member[g][u].role = "none"
  /\ member' = [member EXCEPT ![g][u] = [role |-> "member", version |-> 0]]

Writes(r, row) ==
  /\ pc[r] = "write" /\ pc'[r] \notin Locked /\ NoNewGroup({})
  /\ row.role # "admin" => req[r].arg # "admin"
  /\ member' = [member EXCEPT ![req[r].group][req[r].target] = row]

RosterStep(r) ==
  \/ Quiet(r)
  \/ \E g \in GroupIds, u \in Users : Founds(r, g, u) \/ Joins(r, g, u)
  \/ \E row \in Membership : Writes(r, row)

(* Ending a request without a write changes no roster and no lock of others. *)
LEMMA QuietEnd ==
  ASSUME TypeInv, NEW r \in Requests, NEW s \in {"idle", "failed"}, Return(r, s),
         UNCHANGED <<group, member>>
  PROVE  OthersKeep(r) /\ Quiet(r) /\ pc'[r] = s
BY DEF TypeInv, TypeOK, Return, OthersKeep, SameCall, Quiet, NoNewGroup, Exists

(* Nor does moving a request on.                                          *)
LEMMA QuietMove ==
  ASSUME TypeInv, NEW r \in Requests, NEW s, NEW q, Goto(r, s), s \notin Locked,
         req' = [req EXCEPT ![r] = q], UNCHANGED <<group, member>>
  PROVE  OthersKeep(r) /\ Quiet(r) /\ pc'[r] = s
BY DEF TypeInv, TypeOK, Goto, Locked, OthersKeep, SameCall, Quiet, NoNewGroup, Exists

(* A submitted form changes no roster.                                    *)
LEMMA SubmitEffect ==
  ASSUME AdminInv, NEW r \in Requests, Submit(r)
  PROVE  OthersKeep(r) /\ LockStep(r) /\ RosterStep(r)
<1>1. PICK s \in {"creator", "lookup", "authorize", "target"}, q \in {req'[r]} : Start(r, s, q)
  BY DEF Submit, CreateRequest, JoinRequest, RenameRequest, RotateRequest,
         ChangeRoleRequest, RemoveMemberRequest, LeaveRequest, Start,
         AdminInv, TypeInv, TypeOK
<1>2. OthersKeep(r) /\ Quiet(r) /\ pc'[r] = s
  BY <1>1, QuietMove DEF Start, Goto, Locked, AdminInv
<1> QED BY <1>1, <1>2 DEF LockStep, RosterStep, Start, Locked

(* A failed request changes no roster and releases at most its own lock.  *)
LEMMA FailEffect ==
  ASSUME AdminInv, NEW r \in Requests, Fail(r)
  PROVE  OthersKeep(r) /\ LockStep(r) /\ RosterStep(r)
<1>1. OthersKeep(r) /\ Quiet(r) /\ pc'[r] = "failed"
  BY QuietEnd DEF Fail, Erred, AdminInv
<1> QED BY <1>1 DEF Fail, LockStep, RosterStep, Locked

(* What one statement of a request does to rosters, locks and the request. *)
LEMMA StepEffect ==
  ASSUME AdminInv, NEW r \in Requests, Step(r)
  PROVE  OthersKeep(r) /\ LockStep(r) /\ RosterStep(r)
<1>t. TypeInv /\ TypeOK /\ RequestOK(r) /\ req[r] \in Request
  BY DEF AdminInv, TypeInv, RequestsOK, TypeOK
<1>e. ASSUME End(r) \/ Erred(r), UNCHANGED <<group, member>>,
             UNCHANGED lock \/ (Unlock(r) /\ pc[r] \in Locked)
      PROVE  OthersKeep(r) /\ LockStep(r) /\ RosterStep(r)
  <2>1. OthersKeep(r) /\ Quiet(r) /\ pc'[r] \in {"idle", "failed"}
    BY <1>e, <1>t, QuietEnd DEF End, Erred
  <2> QED BY <1>e, <2>1 DEF LockStep, RosterStep, Locked
<1>m. ASSUME NEW s \in Steps \ Locked, NEW q, Goto(r, s),
             req' = [req EXCEPT ![r] = q], UNCHANGED <<group, member, lock>>
      PROVE  OthersKeep(r) /\ LockStep(r) /\ RosterStep(r)
  <2>1. OthersKeep(r) /\ Quiet(r) /\ pc'[r] = s
    BY <1>m, <1>t, QuietMove
  <2> QED BY <1>m, <2>1 DEF LockStep, RosterStep
<1>n. UNCHANGED req => req' = [req EXCEPT ![r] = req[r]]
  BY <1>t DEF TypeOK
<1>c. ASSUME NEW s \in {"idle", "audit", "reread"}, Committed(r, s)
      PROVE  OthersKeep(r) /\ pc'[r] \in {s, "failed"}
  BY <1>c, <1>t DEF Committed, End, Erred, Return, Goto, OthersKeep, SameCall, TypeOK
<1>1. CASE Creator(r)
  BY <1>1, <1>e, <1>m, <1>n DEF Creator, Steps, Locked
<1>2. CASE CreateGroup(r)
  <2>1. CASE End(r) /\ UNCHANGED <<group, member>>
    BY <1>2, <2>1, <1>e DEF CreateGroup
  <2>2. CASE \E code \in Codes, g \in Unused :
               CreateGroupWithAdmin(r, g, code) /\ Committed(r, "idle")
    <3>1. PICK code \in Codes, g \in Unused :
            CreateGroupWithAdmin(r, g, code) /\ Committed(r, "idle")
      BY <2>2
    <3>2. g \in GroupIds /\ ~Exists(g) /\ req[r].user \in Users
      BY <1>2, <3>1, <1>t DEF CreateGroup, RequestOK, Request, AllOps, Unused
    <3>3. NoNewGroup({g}) /\ Exists(g)'
      BY <3>1, <3>2, <1>t, NoneFacts DEF CreateGroupWithAdmin, NoNewGroup, Exists, TypeOK
    <3>4. pc'[r] \in {"idle", "failed"} /\ OthersKeep(r)
      BY <3>1, <1>c
    <3>5. Founds(r, g, req[r].user)
      BY <3>1, <3>2, <3>3, <3>4 DEF Founds, CreateGroupWithAdmin
    <3>6. RosterStep(r)
      BY <3>2, <3>5 DEF RosterStep
    <3> QED BY <1>2, <3>4, <3>6 DEF CreateGroup, LockStep, Locked
  <2>3. CASE req' = [req EXCEPT ![r].tries = @ + 1] /\ UNCHANGED <<pc, group, member>>
    <3>1. /\ Goto(r, "createGroup")
          /\ req' = [req EXCEPT ![r] = [req[r] EXCEPT !.tries = @ + 1]]
      BY <1>2, <2>3, <1>t DEF CreateGroup, Goto, TypeOK
    <3> QED BY <1>2, <2>3, <3>1, <1>m DEF CreateGroup, Steps, Locked
  <2> QED BY <1>2, <2>1, <2>2, <2>3 DEF CreateGroup
<1>3. CASE Lookup(r)
  <2>1. CASE End(r)
    BY <1>3, <2>1, <1>e DEF Lookup
  <2>2. CASE \E g \in GroupIds : req' = [req EXCEPT ![r].group = g] /\ Goto(r, "findOwn")
    <3>1. PICK g \in GroupIds : req' = [req EXCEPT ![r].group = g] /\ Goto(r, "findOwn")
      BY <2>2
    <3>2. req' = [req EXCEPT ![r] = [req[r] EXCEPT !.group = g]]
      BY <3>1, <1>t DEF TypeOK
    <3> QED BY <1>3, <3>1, <3>2, <1>m DEF Lookup, Steps, Locked
  <2> QED BY <1>3, <2>1, <2>2 DEF Lookup
<1>4. CASE FindOwn(r)
  BY <1>4, <1>e, <1>m, <1>n DEF FindOwn, Steps, Locked
<1>5. CASE CreateMembership(r)
  <2> DEFINE g == req[r].group
             u == req[r].user
  <2>1. g \in GroupIds /\ u \in Users /\ Exists(g)
    BY <1>5, <1>t DEF CreateMembership, RequestOK, Request, AllOps
  <2>2. CASE UNCHANGED member
    BY <1>5, <2>2, <1>e DEF CreateMembership, Committed
  <2>3. CASE ~UNCHANGED member
    <3>1. pc'[r] \in {"idle", "failed"} /\ OthersKeep(r)
      BY <1>5, <2>3, <1>c DEF CreateMembership
    <3>2. Joins(r, g, u)
      BY <1>5, <2>1, <2>3, <3>1 DEF CreateMembership, Joins, NoNewGroup, Exists
    <3> QED BY <1>5, <2>1, <3>1, <3>2 DEF CreateMembership, LockStep, RosterStep, Locked
  <2> QED BY <2>2, <2>3
<1>6. CASE Authorize(r)
  <2>1. PICK s \in {"readGroup", "target", "siteAdmin"} : Goto(r, s)
    BY <1>6, Zenon DEF Authorize, AfterAuthorize
  <2> QED BY <1>6, <2>1, <1>m, <1>n DEF Authorize, Steps, Locked
<1>7. CASE ActorIsGlobalAdmin(r)
  <2>1. CASE End(r)
    BY <1>7, <2>1, <1>e DEF ActorIsGlobalAdmin
  <2>2. CASE Goto(r, AfterAuthorize(r)) /\ req' = [req EXCEPT ![r].asSite = TRUE]
    <3>1. req' = [req EXCEPT ![r] = [req[r] EXCEPT !.asSite = TRUE]]
      BY <2>2, <1>t DEF TypeOK
    <3> QED BY <1>7, <2>2, <3>1, <1>m DEF ActorIsGlobalAdmin, AfterAuthorize, Steps, Locked
  <2> QED BY <1>7, <2>1, <2>2 DEF ActorIsGlobalAdmin
<1>8. CASE FindGroupByID(r)
  <2>1. PICK q : req' = [req EXCEPT ![r] = q]
    BY <1>8, <1>t DEF FindGroupByID, TypeOK
  <2> QED BY <1>8, <2>1, <1>m DEF FindGroupByID, Steps, Locked
<1>u. ASSUME NEW name, NEW invite, NEW v, Committed(r, AuditStep(r)),
             UpdateGroup(req[r].group, name, invite, v), Exists(req[r].group),
             UNCHANGED <<member, lock>>
      PROVE  OthersKeep(r) /\ LockStep(r) /\ RosterStep(r)
  <2>1. AuditStep(r) \in {"idle", "audit"}
    BY DEF AuditStep
  <2>2. OthersKeep(r) /\ pc'[r] \in {"idle", "audit", "failed"}
    BY <1>u, <1>c, <2>1
  <2>3. NoNewGroup({})
    BY <1>u, <1>t DEF NoNewGroup, UpdateGroup, Exists, TypeOK
  <2> QED BY <1>u, <2>2, <2>3 DEF LockStep, RosterStep, Quiet, Locked
<1>9. CASE Rename(r)
  <2>1. Exists(req[r].group)
    BY <1>9, <1>t DEF Rename, RequestOK
  <2> QED BY <1>9, <2>1, <1>e, <1>u DEF Rename
<1>10. CASE RotateInvite(r)
  <2>1. Exists(req[r].group)
    BY <1>10, <1>t DEF RotateInvite, RequestOK
  <2>2. CASE req' = [req EXCEPT ![r].tries = @ + 1] /\ UNCHANGED <<pc, group>>
    <3>1. /\ Goto(r, "updateGroup")
          /\ req' = [req EXCEPT ![r] = [req[r] EXCEPT !.tries = @ + 1]]
      BY <1>10, <2>2, <1>t DEF RotateInvite, Goto, TypeOK
    <3> QED BY <1>10, <2>2, <3>1, <1>m DEF RotateInvite, Steps, Locked
  <2> QED BY <1>10, <2>1, <2>2, <1>e, <1>u DEF RotateInvite
<1>11. CASE Target(r)
  <2>1. CASE End(r)
    BY <1>11, <2>1, <1>e DEF Target
  <2>2. CASE ~End(r)
    <3>1. PICK q : req' = [req EXCEPT ![r] = q]
      BY <1>11, <2>2, <1>t DEF Target, TypeOK
    <3> QED BY <1>11, <2>2, <3>1, <1>m DEF Target, Steps, Locked
  <2> QED BY <2>1, <2>2
<1>12. CASE LockGroupMembers(r)
  BY <1>12, <1>t DEF LockGroupMembers, LockStep, RosterStep, Quiet, NoNewGroup,
     Exists, OthersKeep, SameCall, Goto, TypeOK
<1>13. CASE Count(r)
  <2>1. CASE End(r)
    <3>1. UNCHANGED lock \/ Unlock(r)
      BY <1>13 DEF Count
    <3> QED BY <1>13, <2>1, <3>1, <1>e DEF Count, Locked
  <2>2. CASE ~End(r)
    <3>1. /\ Goto(r, "write") /\ UNCHANGED <<req, lock, group, member>>
          /\ member[req[r].group][req[r].target].role # "none"
          /\ CostsAdministrator(r) => EnsureAnotherAdmin(req[r].group, req[r].target)
      BY <1>13, <2>2 DEF Count
    <3>2. Quiet(r)
      BY <1>13, <3>1 DEF Count, Quiet, NoNewGroup, Exists
    <3>3. OthersKeep(r) /\ pc'[r] = "write"
      BY <3>1, <1>t DEF OthersKeep, SameCall, Goto, TypeOK
    <3> QED BY <1>13, <3>1, <3>2, <3>3 DEF Count, LockStep, RosterStep, Locked
  <2> QED BY <2>1, <2>2
<1>w. pc[r] = "write" => req[r].group \in GroupIds /\ req[r].target \in Users
  BY <1>t DEF RequestOK, Request, AllOps
<1>14. CASE ChangeRole(r)
  <2> DEFINE g == req[r].group
             t == req[r].target
             row == [role |-> req[r].arg, version |-> member[g][t].version + 1]
  <2>1. CASE End(r) /\ UNCHANGED member
    BY <1>14, <2>1, <1>e DEF ChangeRole, Locked
  <2>2. CASE ~(End(r) /\ UNCHANGED member)
    <3>1. member' = [member EXCEPT ![g][t] = row] /\ Committed(r, "reread")
      BY <1>14, <2>2, <1>w, <1>t DEF ChangeRole, TypeOK
    <3>2. row \in Membership
      BY <1>14, <1>w, <1>t DEF ChangeRole, RequestOK, TypeOK, Membership
    <3>3. OthersKeep(r) /\ pc'[r] \in {"reread", "failed"}
      BY <3>1, <1>c
    <3>4. Writes(r, row)
      BY <1>14, <3>1, <3>3 DEF ChangeRole, Writes, NoNewGroup, Exists, Locked
    <3> QED BY <1>14, <3>2, <3>3, <3>4 DEF ChangeRole, LockStep, RosterStep, Locked
  <2> QED BY <2>1, <2>2
<1>15. CASE DeleteMembership(r)
  <2> DEFINE g == req[r].group
             t == req[r].target
             s == IF req[r].op = "removeMember" THEN AuditStep(r) ELSE "idle"
  <2>1. CASE End(r) /\ UNCHANGED member
    BY <1>15, <2>1, <1>e DEF DeleteMembership, Locked
  <2>2. CASE ~(End(r) /\ UNCHANGED member)
    <3>1. member' = [member EXCEPT ![g][t] = NoMembership] /\ Committed(r, s)
      BY <1>15, <2>2 DEF DeleteMembership
    <3>3. s \in {"idle", "audit"} /\ req[r].arg # "admin"
      BY <1>15, <1>t, NoneFacts DEF DeleteMembership, AuditStep, RequestOK
    <3> HIDE DEF s
    <3>2. OthersKeep(r) /\ pc'[r] \in {"idle", "audit", "failed"}
      BY <3>1, <3>3, <1>c
    <3>4. Writes(r, NoMembership)
      BY <1>15, <3>1, <3>2, <3>3 DEF DeleteMembership, Writes, NoNewGroup, Exists, Locked
    <3> QED BY <1>15, <3>2, <3>4, NoRequestType
            DEF DeleteMembership, LockStep, RosterStep, Locked
  <2> QED BY <2>1, <2>2
<1>16. CASE Reread(r)
  BY <1>16, <1>e, <1>m, <1>n DEF Reread, AuditStep, Steps, Locked
<1>17. CASE RecordSiteAdminAction(r) \/ AnswerError(r)
  BY <1>17, <1>e DEF RecordSiteAdminAction, AnswerError
<1> QED BY <1>1, <1>2, <1>3, <1>4, <1>5, <1>6, <1>7, <1>8, <1>9, <1>10, <1>11,
           <1>12, <1>13, <1>14, <1>15, <1>16, <1>17 DEF Step

(* A request other than r that is about to write keeps what it counted.    *)
LEMMA RosterStepKeeps ==
  ASSUME AdminInv, NEW r \in Requests, OthersKeep(r), GroupsKeep,
         RosterStep(r), TypeInv'
  PROVE  CountHolds' /\ NoStrayMembers' /\ GroupKeepsAdmin'
<1>t. TypeInv /\ TypeOK /\ LockHeld /\ CountHolds /\ NoStrayMembers /\ GroupKeepsAdmin
  BY DEF AdminInv, TypeInv
<1>w. \A q \in Requests : pc[q] = "write" =>
        req[q].group \in GroupIds /\ req[q].target \in Users
  <2> SUFFICES ASSUME NEW q \in Requests, pc[q] = "write"
               PROVE  req[q].group \in GroupIds /\ req[q].target \in Users
    OBVIOUS
  <2>1. RequestOK(q) /\ req[q] \in Request
    BY <1>t DEF TypeInv, RequestsOK, TypeOK
  <2> QED BY <2>1 DEF RequestOK, Request, AllOps
<1>o. \A q \in Requests : q # r /\ pc'[q] = "write" =>
        /\ pc[q] = "write" /\ req'[q].group = req[q].group
        /\ req'[q].target = req[q].target /\ req'[q].arg = req[q].arg
  BY DEF OthersKeep, SameCall
<1>k. \A g \in GroupIds : Exists(g) => Exists(g)'
  BY DEF GroupsKeep
<1>1. CASE Quiet(r)
  <2>1. CountHolds'
    BY <1>1, <1>t, <1>o DEF Quiet, CountHolds, CostsAdministrator,
       EnsureAnotherAdmin, Administrators
  <2>2. NoStrayMembers' /\ GroupKeepsAdmin'
    BY <1>1, <1>t, <1>k DEF Quiet, NoNewGroup, NoStrayMembers, GroupKeepsAdmin,
       Administrators
  <2> QED BY <2>1, <2>2
<1>2. ASSUME NEW g \in GroupIds, NEW u \in Users, Founds(r, g, u)
      PROVE  CountHolds' /\ NoStrayMembers' /\ GroupKeepsAdmin'
  <2>1. \A h \in GroupIds \ {g} : member'[h] = member[h] /\ (Exists(h)' => Exists(h))
    BY <1>2, <1>t DEF Founds, NoNewGroup, TypeOK
  <2>2. member'[g][u].role = "admin" /\ \A v \in Users : v # u => member'[g][v] = member[g][v]
    BY <1>2, <1>t DEF Founds, TypeOK
  <2>3. \A q \in Requests : pc[q] = "write" => req[q].group # g
    BY <1>2, <1>t, <1>w DEF Founds, CountHolds, NoStrayMembers
  <2>4. CountHolds'
    BY <1>2, <2>1, <2>3, <1>o, <1>w, <1>t DEF Founds, CountHolds,
       CostsAdministrator, EnsureAnotherAdmin, Administrators
  <2>5. Exists(g)'
    BY <1>2, <2>2 DEF Founds
  <2> QED BY <2>1, <2>2, <2>4, <2>5, <1>t, <1>k
          DEF NoStrayMembers, GroupKeepsAdmin, Administrators
<1>3. ASSUME NEW g \in GroupIds, NEW u \in Users, Joins(r, g, u)
      PROVE  CountHolds' /\ NoStrayMembers' /\ GroupKeepsAdmin'
  <2>1. \A h \in GroupIds, v \in Users :
          <<h, v>> # <<g, u>> => member'[h][v] = member[h][v]
    BY <1>3, <1>t DEF Joins, TypeOK
  <2>2. member[g][u].role = "none" /\ member'[g][u].role = "member" /\ Exists(g)
    BY <1>3, <1>t DEF Joins, TypeOK
  <2>3. \A h \in GroupIds : Administrators(h)' = Administrators(h)
    BY <2>1, <2>2 DEF Administrators
  <2>4. \A q \in Requests : pc[q] = "write" =>
          member'[req[q].group][req[q].target] = member[req[q].group][req[q].target]
    BY <2>1, <2>2, <1>w, <1>t DEF CountHolds
  <2>5. CountHolds'
    BY <1>3, <2>3, <2>4, <1>o, <1>w, <1>t DEF Joins, CountHolds,
       CostsAdministrator, EnsureAnotherAdmin
  <2>6. NoStrayMembers' /\ GroupKeepsAdmin'
    BY <1>3, <2>1, <2>2, <2>3, <1>t, <1>k DEF Joins, NoNewGroup, NoStrayMembers, GroupKeepsAdmin
  <2> QED BY <2>5, <2>6
<1>4. ASSUME NEW row \in Membership, Writes(r, row)
      PROVE  CountHolds' /\ NoStrayMembers' /\ GroupKeepsAdmin'
  <2>1. PICK g \in GroupIds, t \in Users : g = req[r].group /\ t = req[r].target
    BY <1>4, <1>w DEF Writes
  <2>2. /\ \A h \in GroupIds \ {g} : member'[h] = member[h]
        /\ member'[g][t] = row
        /\ \A v \in Users \ {t} : member'[g][v] = member[g][v]
    BY <1>4, <2>1, <1>t DEF Writes, TypeOK
  <2>3. \A q \in Requests : q # r /\ pc[q] = "write" => req[q].group # g
    BY <1>4, <2>1, <1>t, Exclusion DEF Writes, Locked
  <2>4. CountHolds'
    BY <1>4, <2>1, <2>2, <2>3, <1>o, <1>w, <1>t DEF Writes, CountHolds, Locked,
       CostsAdministrator, EnsureAnotherAdmin, Administrators
  <2>5. member[g][t].role # "none" /\ Exists(g)
    BY <1>4, <2>1, <1>t DEF Writes, CountHolds, NoStrayMembers
  <2>6. Administrators(g)' # {}
    <3>1. CASE row.role = "admin"
      BY <3>1, <2>1, <2>2 DEF Administrators
    <3>2. CASE row.role # "admin" /\ member[g][t].role = "admin"
      BY <1>4, <3>2, <2>1, <2>2, <1>t DEF Writes, CountHolds, CostsAdministrator,
         EnsureAnotherAdmin, Administrators
    <3>3. CASE row.role # "admin" /\ member[g][t].role # "admin"
      BY <3>3, <2>1, <2>2, <2>5, <1>t DEF GroupKeepsAdmin, Administrators
    <3> QED BY <3>1, <3>2, <3>3
  <2>7. NoStrayMembers' /\ GroupKeepsAdmin'
    BY <1>4, <2>2, <2>5, <2>6, <1>t, <1>k DEF Writes, NoNewGroup, NoStrayMembers,
       GroupKeepsAdmin, Administrators
  <2> QED BY <2>4, <2>7
<1> QED BY <1>1, <1>2, <1>3, <1>4 DEF RosterStep

(* Every step is a quiet one or one of the roster changes.                *)
LEMMA NextEffect ==
  ASSUME AdminInv, NoDeletion, Next
  PROVE  \/ \E r \in Requests : OthersKeep(r) /\ LockStep(r) /\ RosterStep(r)
         \/ UNCHANGED <<group, member, lock, pc, req>>
BY SubmitEffect, StepEffect, FailEffect DEF Next, SetSiteAdmin, DeleteAccount, NoDeletion

(* Only a rename, a rotation or a creation writes a group row.             *)
LEMMA GroupWriters ==
  ASSUME [Next]_vars
  PROVE  \/ UNCHANGED group
         \/ \E r \in Requests : Rename(r) \/ RotateInvite(r) \/ CreateGroup(r)
<1>1. ASSUME NEW r \in Requests, Submit(r)
      PROVE  UNCHANGED group
  BY <1>1 DEF Submit, CreateRequest, JoinRequest, RenameRequest, RotateRequest,
     ChangeRoleRequest, RemoveMemberRequest, LeaveRequest, Start
<1>2. ASSUME NEW r \in Requests, Step(r)
      PROVE  UNCHANGED group \/ Rename(r) \/ RotateInvite(r) \/ CreateGroup(r)
  BY <1>2 DEF Step, Creator, Lookup, FindOwn, CreateMembership, Authorize,
     ActorIsGlobalAdmin, FindGroupByID, Target, LockGroupMembers, Count,
     ChangeRole, DeleteMembership, Reread, RecordSiteAdminAction, AnswerError
<1> QED BY <1>1, <1>2 DEF Next, vars, Fail, SetSiteAdmin, DeleteAccount

(* No group row is deleted and no invite code is cleared.                  *)
LEMMA GroupsStay ==
  ASSUME TypeInv, [Next]_vars PROVE GroupsKeep
<1>1. CASE UNCHANGED group
  BY <1>1, SameGroups
<1>2. ASSUME NEW r \in Requests, Rename(r) \/ RotateInvite(r), ~UNCHANGED group
      PROVE  GroupsKeep
  <2>1. RequestOK(r) /\ req[r] \in Request /\ TypeOK
    BY DEF TypeInv, RequestsOK, TypeOK
  <2>2. req[r].seen.invite \in Codes
    BY <1>2, <2>1 DEF Rename, RotateInvite, RequestOK, Request, Group
  <2>3. \A name, v : \A invite \in Codes :
          UpdateGroup(req[r].group, name, invite, v) => GroupsKeep
    BY <2>1, NoneFacts DEF UpdateGroup, GroupsKeep, Exists, TypeOK
  <2> QED BY <1>2, <2>2, <2>3 DEF Rename, RotateInvite
<1>3. ASSUME NEW r \in Requests, CreateGroup(r), ~UNCHANGED group
      PROVE  GroupsKeep
  BY <1>3, NoneFacts DEF CreateGroup, CreateGroupWithAdmin, GroupsKeep, Exists, TypeInv, TypeOK
<1> QED BY <1>1, <1>2, <1>3, GroupWriters

(* The administrators invariant is inductive while no account is deleted. *)
LEMMA NextAdmin == AdminInv /\ NoDeletion /\ [Next]_vars => AdminInv'
<1> SUFFICES ASSUME AdminInv, NoDeletion, [Next]_vars PROVE AdminInv'
  OBVIOUS
<1>1. TypeInv'
  BY NextType DEF AdminInv
<1>2. CASE UNCHANGED <<group, member, lock, pc, req>>
  BY <1>1, <1>2 DEF AdminInv, LockHeld, CountHolds, NoStrayMembers, GroupKeepsAdmin,
     Exists, Administrators, CostsAdministrator, EnsureAnotherAdmin
<1>3. ASSUME NEW r \in Requests, OthersKeep(r), LockStep(r), RosterStep(r)
      PROVE  AdminInv'
  <2>1. GroupsKeep
    BY GroupsStay DEF AdminInv
  <2> QED BY <1>1, <1>3, <2>1, LockStepHeld, RosterStepKeeps DEF AdminInv
<1> QED BY <1>2, <1>3, NextEffect DEF vars

(* A group never loses its last administrator to role changes, removals    *)
(* and departures, however many requests run at once, as long as accounts  *)
(* are not deleted.                                                        *)
THEOREM AdminKept == ASSUME NoDeletion PROVE Spec => []GroupKeepsAdmin
<1>1. Init => AdminInv
  BY InitAdmin
<1>2. AdminInv /\ [Next]_vars => AdminInv'
  BY NextAdmin
<1>3. AdminInv => GroupKeepsAdmin
  BY DEF AdminInv
<1> QED BY <1>1, <1>2, <1>3, PTL DEF Spec

-----------------------------------------------------------------------------
(* Groups implements GroupRoster.                                          *)

RoleOf == [g \in GroupIds |-> [u \in Users |-> member[g][u].role]]

(* Changing one membership row changes one role of the roster.             *)
LEMMA OneRole ==
  ASSUME TypeOK, NEW g \in GroupIds, NEW u \in Users, NEW row \in Membership,
         member' = [member EXCEPT ![g][u] = row]
  PROVE  RoleOf' = [RoleOf EXCEPT ![g][u] = row.role]
<1>1. \A h \in GroupIds, v \in Users :
        member'[h][v] = IF h = g /\ v = u THEN row ELSE member[h][v]
  BY DEF TypeOK
<1>2. RoleOf' = [h \in GroupIds |-> [v \in Users |->
                   IF h = g /\ v = u THEN row.role ELSE member[h][v].role]]
  BY <1>1 DEF RoleOf
<1>3. [RoleOf EXCEPT ![g][u] = row.role] =
        [h \in GroupIds |-> [v \in Users |->
           IF h = g /\ v = u THEN row.role ELSE member[h][v].role]]
  BY DEF RoleOf
<1> QED BY <1>2, <1>3

(* An installation without groups maps to the empty roster.               *)
LEMMA RosterInit == Init => Roster!Init
BY DEF Init, Roster!Init, NoMembership

(* Every step maps to a roster step or leaves the roster alone.           *)
LEMMA RosterNext ==
  ASSUME AdminInv, NoDeletion, [Next]_vars
  PROVE  [Roster!Next]_RoleOf
<1>t. TypeInv /\ TypeOK /\ CountHolds /\ NoStrayMembers /\ GroupKeepsAdmin
  BY DEF AdminInv, TypeInv
<1>r. \A g \in GroupIds, u \in Users : RoleOf[g][u] = member[g][u].role
  BY DEF RoleOf
<1>a. \A g \in GroupIds : Exists(g) => \E v \in Users : RoleOf[g][v] = "admin"
  BY <1>t, <1>r DEF GroupKeepsAdmin, Administrators
<1>1. CASE UNCHANGED member
  BY <1>1 DEF RoleOf
<1>2. ASSUME NEW r \in Requests, NEW g \in GroupIds, NEW u \in Users, Founds(r, g, u)
      PROVE  Roster!Create(g, u)
  <2>1. RoleOf' = [RoleOf EXCEPT ![g][u] = "admin"]
    BY <1>2, <1>t, OneRole DEF Founds, Membership, Roles
  <2>2. \A v \in Users : RoleOf[g][v] = "none"
    BY <1>2, <1>t, <1>r DEF Founds, NoStrayMembers
  <2> QED BY <2>1, <2>2 DEF RoleOf, Roster!Create, Roster!SetRole
<1>3. ASSUME NEW r \in Requests, NEW g \in GroupIds, NEW u \in Users, Joins(r, g, u)
      PROVE  Roster!Join(g, u)
  <2>1. RoleOf' = [RoleOf EXCEPT ![g][u] = "member"]
    BY <1>3, <1>t, OneRole DEF Joins, Membership, Roles
  <2> QED BY <1>3, <2>1, <1>r, <1>a
          DEF Joins, RoleOf, Roster!Join, Roster!SetRole, Roster!Admins
<1>4. ASSUME NEW r \in Requests, NEW row \in Membership, Writes(r, row)
      PROVE  [Roster!Next]_RoleOf
  <2>1. RequestOK(r) /\ req[r] \in Request
    BY <1>t DEF TypeInv, RequestsOK, TypeOK
  <2>2. PICK g \in GroupIds, u \in Users : g = req[r].group /\ u = req[r].target
    BY <1>4, <2>1 DEF Writes, RequestOK, Request, AllOps
  <2>3. RoleOf' = [RoleOf EXCEPT ![g][u] = row.role]
    BY <1>4, <2>2, <1>t, OneRole DEF Writes
  <2>4. member[g][u].role # "none" /\ Exists(g)
    BY <1>4, <2>2, <1>t DEF Writes, CountHolds, NoStrayMembers
  <2>5. row.role # "admin" => \E v \in Users \ {u} : RoleOf[g][v] = "admin"
    <3>1. CASE member[g][u].role = "admin"
      BY <1>4, <3>1, <2>2, <1>t, <1>r DEF Writes, CountHolds, CostsAdministrator,
         EnsureAnotherAdmin, Administrators
    <3>2. CASE member[g][u].role # "admin"
      BY <3>2, <2>4, <1>a, <1>r
    <3> QED BY <3>1, <3>2
  <2>6. RoleOf[g][u] \in Roles /\ row.role \in Roles \cup {"none"}
    BY <2>4, <1>r, <1>t DEF Membership, TypeOK
  <2>7. CASE row.role = RoleOf[g][u]
    <3>1. RoleOf \in [GroupIds -> [Users -> Roles \cup {"none"}]]
      BY <1>t DEF RoleOf, TypeOK, Membership
    <3>2. RoleOf' = RoleOf
      BY <3>1, <2>3, <2>7
    <3> QED BY <3>2
  <2>8. CASE row.role = "none"
    <3>1. Roster!Depart(g, u)
      BY <2>3, <2>4, <2>5, <2>8, <1>r DEF RoleOf, Roster!Depart, Roster!SetRole, Roster!Admins
    <3> QED BY <3>1 DEF Roster!Next
  <2>9. CASE row.role = "member" /\ RoleOf[g][u] = "admin"
    <3>1. Roster!Demote(g, u)
      BY <2>3, <2>5, <2>9 DEF RoleOf, Roster!Demote, Roster!SetRole, Roster!Admins
    <3> QED BY <3>1 DEF Roster!Next
  <2>10. CASE row.role = "admin" /\ RoleOf[g][u] = "member"
    <3>1. Roster!Promote(g, u)
      BY <2>3, <2>10 DEF RoleOf, Roster!Promote, Roster!SetRole, Roster!Admins
    <3> QED BY <3>1 DEF Roster!Next
  <2> QED BY <2>6, <2>7, <2>8, <2>9, <2>10 DEF Roles
<1>5. CASE UNCHANGED vars
  BY <1>1, <1>5 DEF vars
<1>6. ASSUME NEW r \in Requests, RosterStep(r)
      PROVE  [Roster!Next]_RoleOf
  <2>1. CASE Quiet(r)
    BY <1>1, <2>1 DEF Quiet
  <2>2. CASE \E g \in GroupIds, u \in Users : Founds(r, g, u) \/ Joins(r, g, u)
    <3>1. Roster!Next
      BY <2>2, <1>2, <1>3 DEF Roster!Next
    <3> QED BY <3>1
  <2>3. CASE \E row \in Membership : Writes(r, row)
    BY <2>3, <1>4
  <2> QED BY <1>6, <2>1, <2>2, <2>3 DEF RosterStep
<1> QED BY <1>1, <1>5, <1>6, NextEffect

(* Without account deletion, every behaviour of the service, with its      *)
(* statements interleaved in any way, is a behaviour of the roster promise. *)
THEOREM RosterImplemented == ASSUME NoDeletion PROVE Spec => ImplementsRoster
<1>1. Init => AdminInv /\ Roster!Init
  BY InitAdmin, RosterInit
<1>2. AdminInv /\ [Next]_vars =>
        /\ AdminInv'
        /\ [Roster!Next]_([g \in GroupIds |-> [u \in Users |-> member[g][u].role]])
  BY NextAdmin, RosterNext DEF RoleOf
<1> QED BY <1>1, <1>2, PTL DEF Spec, ImplementsRoster, Roster!Spec

-----------------------------------------------------------------------------
(* Edits of a group row, and the trail of the site administrators' writes. *)

(* What an edit under way knows of the row: a rename's form is no newer    *)
(* than the row, the row read is no older than the revision expected, and  *)
(* while the row has the revision that was read it is the row that was     *)
(* read.                                                                   *)
EditOK(r) ==
  LET q == req[r]
      row == group[q.group]
  IN q.op \in {"rename", "rotate"} =>
       /\ q.op = "rename" => q.version <= row.version
       /\ pc[r] = "updateGroup" =>
            /\ q.version <= q.seen.version
            /\ q.seen.version <= row.version
            /\ q.seen.version = row.version => q.seen = row

EditInv == TypeInv /\ \A r \in Requests : EditOK(r)

AuditedOps == {"rename", "rotate", "changeRole", "removeMember"}

(* A committed change of these operations waits for its audit, a role      *)
(* change for its second read first.                                       *)
TrailOK(r) ==
  req[r].op \in AuditedOps /\ req[r].wrote => pc[r] \in {"reread", "audit"}

TrailInv == TypeInv /\ \A r \in Requests : TrailOK(r)

(* A step of r leaves every other request exactly as it is.                *)
OthersSame(r) ==
  \A q \in Requests \ {r} : pc'[q] = pc[q] /\ req'[q] = req[q]

(* What one step of r does to an edit: it is no edit any more, keeps what  *)
(* it knows, has just been sent, or reads the row.                         *)
EditMove(r) ==
  LET p == req[r]
      q == req'[r]
  IN \/ q.op \notin {"rename", "rotate"}
     \/ /\ q.op = p.op /\ q.group = p.group
        /\ q.version = p.version /\ q.seen = p.seen
        /\ pc'[r] = "updateGroup" => pc[r] = "updateGroup"
     \/ /\ UNCHANGED group
        /\ pc'[r] = "authorize"
        /\ q.op = "rename" => q.version = group[q.group].version
     \/ /\ UNCHANGED group
        /\ q.op = p.op /\ q.group = p.group /\ q.seen = group[q.group]
        /\ q.version = IF q.op = "rotate" THEN group[q.group].version ELSE p.version

(* What one step of r does to its trail: a change it has committed goes to *)
(* the second read or the audit, and a step that ends it well and          *)
(* unaudited has changed nothing.                                          *)
TrailMove(r) ==
  /\ req'[r].op \in AuditedOps /\ req'[r].wrote /\ pc'[r] \notin {"reread", "audit"} =>
       req[r].op \in AuditedOps /\ req[r].wrote /\ pc[r] \notin {"reread", "audit"}
  /\ req[r].op \in AuditedOps /\ req[r].asSite /\ pc'[r] = "idle" =>
       UNCHANGED <<group, member>> /\ pc[r] # "reread"

CallEffect(r) == OthersSame(r) /\ EditMove(r) /\ TrailMove(r)

(* An answered request has nothing left to say.                            *)
LEMMA EndCall ==
  ASSUME TypeInv, NEW r \in Requests, End(r),
         \/ UNCHANGED <<group, member>> /\ pc[r] # "reread"
         \/ req[r].op \notin AuditedOps
         \/ ~req[r].asSite
  PROVE  CallEffect(r)
<1>1. req'[r] = NoRequest /\ OthersSame(r)
  BY DEF TypeInv, TypeOK, End, Return, OthersSame
<1>2. NoRequest.op = "none"
  BY DEF NoRequest, Form
<1> QED BY <1>1, <1>2 DEF CallEffect, EditMove, TrailMove, AuditedOps

(* Nor has one that is answered with an error, whatever it has written.    *)
LEMMA ErredCall ==
  ASSUME TypeInv, NEW r \in Requests, Erred(r)
  PROVE  CallEffect(r)
<1>1. req'[r] = NoRequest /\ pc'[r] = "failed" /\ OthersSame(r)
  BY DEF TypeInv, TypeOK, Erred, Return, OthersSame
<1>2. NoRequest.op = "none"
  BY DEF NoRequest, Form
<1> QED BY <1>1, <1>2 DEF CallEffect, EditMove, TrailMove, AuditedOps

(* A request moves on, knowing what it knew.                               *)
LEMMA MoveCall ==
  ASSUME TypeInv, NEW r \in Requests, NEW s \in Steps, Goto(r, s), s # "idle",
         NEW q \in Request, req' = [req EXCEPT ![r] = q],
         q.op = req[r].op,
         q.op \in {"rename", "rotate"} =>
           /\ q.group = req[r].group /\ q.version = req[r].version
           /\ q.seen = req[r].seen
           /\ s = "updateGroup" => pc[r] = "updateGroup",
         q.wrote /\ q.op \in AuditedOps =>
           s \in {"reread", "audit"} \/ (req[r].wrote /\ pc[r] \notin {"reread", "audit"})
  PROVE  CallEffect(r)
<1>1. req'[r] = q /\ pc'[r] = s /\ OthersSame(r)
  BY DEF TypeInv, TypeOK, Goto, OthersSame
<1>2. EditMove(r)
  BY <1>1 DEF EditMove
<1>3. TrailMove(r)
  BY <1>1 DEF TrailMove
<1> QED BY <1>1, <1>2, <1>3 DEF CallEffect

(* A submitted form starts with nothing read and nothing written.          *)
LEMMA SubmitCall ==
  ASSUME TypeInv, NEW r \in Requests, Submit(r)
  PROVE  CallEffect(r)
<1>1. OthersSame(r) /\ UNCHANGED <<group, member>> /\ pc[r] = "idle"
  BY DEF TypeInv, TypeOK, Submit, CreateRequest, JoinRequest, RenameRequest,
     RotateRequest, ChangeRoleRequest, RemoveMemberRequest, LeaveRequest, Start,
     OthersSame
<1>2. EditMove(r)
  <2>1. CASE RenameRequest(r)
    BY <2>1, <1>1 DEF RenameRequest, Start, Form, EditMove, TypeInv, TypeOK
  <2>2. CASE RotateRequest(r)
    BY <2>2, <1>1 DEF RotateRequest, Start, Form, EditMove, TypeInv, TypeOK
  <2>3. CASE ~RenameRequest(r) /\ ~RotateRequest(r)
    <3>1. req'[r].op \notin {"rename", "rotate"}
      BY <2>3 DEF Submit, CreateRequest, JoinRequest, ChangeRoleRequest,
         RemoveMemberRequest, LeaveRequest, Start, Form, TypeInv, TypeOK
    <3> QED BY <3>1 DEF EditMove
  <2> QED BY <2>1, <2>2, <2>3
<1>3. ~req'[r].wrote
  BY DEF Submit, CreateRequest, JoinRequest, RenameRequest, RotateRequest,
     ChangeRoleRequest, RemoveMemberRequest, LeaveRequest, Start, Form, TypeInv, TypeOK
<1> QED BY <1>1, <1>2, <1>3 DEF CallEffect, TrailMove

(* Every statement of a request does one of these.                         *)
LEMMA StepCall ==
  ASSUME TypeInv, NEW r \in Requests, Step(r)
  PROVE  CallEffect(r)
<1>t. TypeOK /\ RequestOK(r) /\ req[r] \in Request /\ pc[r] \in Steps
  BY DEF TypeInv, RequestsOK, TypeOK
<1>e. End(r) /\ UNCHANGED <<group, member>> /\ pc[r] # "reread" => CallEffect(r)
  BY EndCall
<1>m. ASSUME NEW s \in Steps \ {"idle", "updateGroup"}, Goto(r, s), UNCHANGED req,
             s = "audit" \/ pc[r] \notin {"reread", "audit"}
      PROVE  CallEffect(r)
  <2>1. req' = [req EXCEPT ![r] = req[r]]
    BY <1>m, <1>t DEF TypeOK
  <2> QED BY <1>m, <1>t, <2>1, MoveCall
<1>r. ASSUME req' = [req EXCEPT ![r].tries = @ + 1], UNCHANGED pc,
             pc[r] \notin {"idle", "reread", "audit"}
      PROVE  CallEffect(r)
  <2> DEFINE q == [req[r] EXCEPT !.tries = @ + 1]
  <2>1. q \in Request /\ q.op = req[r].op /\ q.group = req[r].group
        /\ q.version = req[r].version /\ q.seen = req[r].seen
    BY <1>t DEF Request
  <2>2. q.wrote => req[r].wrote
    BY <1>t, Zenon DEF Request
  <2>3. Goto(r, pc[r]) /\ req' = [req EXCEPT ![r] = q]
    BY <1>r, <1>t DEF Goto, TypeOK
  <2> HIDE DEF q
  <2> QED BY <2>1, <2>2, <2>3, <1>r, <1>t, MoveCall
<1>c. ASSUME NEW s \in {"audit", "reread"}, Committed(r, s) PROVE CallEffect(r)
  <2>1. CASE Erred(r)
    BY <2>1, ErredCall
  <2>2. CASE ~Erred(r)
    <3> DEFINE q == [req[r] EXCEPT !.wrote = TRUE]
    <3>1. q \in Request /\ q.op = req[r].op /\ q.group = req[r].group
          /\ q.version = req[r].version /\ q.seen = req[r].seen
      BY <1>t DEF Request
    <3>2. Goto(r, s) /\ req' = [req EXCEPT ![r] = q]
      BY <1>c, <2>2, <1>t DEF Committed, TypeOK
    <3>3. s \in Steps /\ s # "idle" /\ s # "updateGroup"
      BY <1>c DEF Steps
    <3> HIDE DEF q
    <3> QED BY <1>c, <3>1, <3>2, <3>3, MoveCall
  <2> QED BY <2>1, <2>2
<1>i. ASSUME Committed(r, "idle"), req[r].op \notin AuditedOps \/ ~req[r].asSite
      PROVE  CallEffect(r)
  BY <1>i, EndCall, ErredCall DEF Committed
<1>a. ASSUME Committed(r, AuditStep(r)) PROVE CallEffect(r)
  <2>1. CASE req[r].asSite
    BY <1>a, <1>c, <2>1 DEF AuditStep
  <2>2. CASE ~req[r].asSite
    BY <1>a, <1>i, <2>2 DEF AuditStep
  <2> QED BY <2>1, <2>2
<1>1. CASE Creator(r)
  BY <1>1, <1>e, <1>m DEF Creator, Steps
<1>2. CASE CreateGroup(r)
  <2>1. req[r].op \notin AuditedOps
    BY <1>2, <1>t DEF CreateGroup, RequestOK, AuditedOps
  <2>2. Committed(r, "idle") \/ (req' = [req EXCEPT ![r].tries = @ + 1] /\ UNCHANGED pc)
    BY <1>2 DEF CreateGroup, Committed
  <2> QED BY <1>2, <2>1, <2>2, <1>r, <1>i DEF CreateGroup
<1>3. CASE Lookup(r)
  <2>1. CASE End(r)
    BY <1>3, <2>1, <1>e DEF Lookup
  <2>2. CASE ~End(r)
    <3>1. PICK g \in GroupIds :
            req' = [req EXCEPT ![r].group = g] /\ Goto(r, "findOwn")
      BY <1>3, <2>2 DEF Lookup
    <3> DEFINE q == [req[r] EXCEPT !.group = g]
    <3>2. q \in Request /\ q.op = req[r].op
      BY <1>t DEF Request
    <3>3. req[r].op \notin AuditedOps
      BY <1>3, <1>t DEF Lookup, RequestOK, AuditedOps
    <3>4. req' = [req EXCEPT ![r] = q] /\ "findOwn" \in Steps
      BY <3>1, <1>t DEF TypeOK, Steps
    <3> HIDE DEF q
    <3> QED BY <3>1, <3>2, <3>3, <3>4, MoveCall DEF AuditedOps
  <2> QED BY <2>1, <2>2
<1>4. CASE FindOwn(r)
  BY <1>4, <1>e, <1>m DEF FindOwn, Steps
<1>5. CASE CreateMembership(r)
  <2>1. req[r].op \notin AuditedOps
    BY <1>5, <1>t DEF CreateMembership, RequestOK, AuditedOps
  <2>2. Committed(r, "idle")
    BY <1>5 DEF CreateMembership, Committed
  <2> QED BY <2>1, <2>2, <1>i
<1>6. CASE Authorize(r)
  <2>1. PICK s \in {AfterAuthorize(r), "siteAdmin"} : Goto(r, s)
    BY <1>6, Zenon DEF Authorize
  <2>2. s \in Steps \ {"idle", "updateGroup"}
    BY DEF AfterAuthorize, Steps
  <2> QED BY <1>6, <2>1, <2>2, <1>m DEF Authorize
<1>7. CASE ActorIsGlobalAdmin(r)
  <2>1. CASE End(r)
    BY <1>7, <2>1, <1>e DEF ActorIsGlobalAdmin
  <2>2. CASE ~End(r)
    <3> DEFINE q == [req[r] EXCEPT !.asSite = TRUE]
               s == AfterAuthorize(r)
    <3>1. Goto(r, s) /\ req' = [req EXCEPT ![r] = q]
      BY <1>7, <2>2, <1>t DEF ActorIsGlobalAdmin, TypeOK
    <3>2. q \in Request /\ q.op = req[r].op /\ q.group = req[r].group
          /\ q.version = req[r].version /\ q.seen = req[r].seen
      BY <1>t DEF Request
    <3>3. q.wrote => req[r].wrote
      BY <1>t, Zenon DEF Request
    <3>4. s \in Steps \ {"idle", "updateGroup"} /\ pc[r] \notin {"reread", "audit"}
      BY <1>7 DEF AfterAuthorize, Steps, ActorIsGlobalAdmin
    <3> HIDE DEF q, s
    <3> QED BY <3>1, <3>2, <3>3, <3>4, MoveCall
  <2> QED BY <2>1, <2>2
<1>8. CASE FindGroupByID(r)
  <2> DEFINE g == req[r].group
             v == IF req[r].op = "rotate" THEN group[g].version ELSE req[r].version
             q == [req[r] EXCEPT !.seen = group[g], !.version = v]
  <2>1. pc'[r] = "updateGroup" /\ req'[r] = q /\ OthersSame(r) /\ UNCHANGED group
    BY <1>8, <1>t DEF FindGroupByID, TypeOK, Goto, OthersSame
  <2>2. /\ q.op = req[r].op /\ q.group = g /\ q.seen = group[g] /\ q.version = v
    BY <1>t DEF Request
  <2>3. q.wrote => req[r].wrote
    BY <1>t, Zenon DEF Request
  <2>4. EditMove(r)
    BY <2>1, <2>2 DEF EditMove
  <2>5. TrailMove(r)
    <3> HIDE DEF q
    <3> QED BY <1>8, <2>1, <2>2, <2>3 DEF TrailMove, FindGroupByID
  <2> QED BY <2>1, <2>4, <2>5 DEF CallEffect
<1>9. CASE Rename(r)
  <2>1. CASE End(r) /\ UNCHANGED group
    BY <1>9, <2>1, <1>e DEF Rename
  <2>2. CASE ~(End(r) /\ UNCHANGED group)
    BY <1>9, <2>2, <1>a DEF Rename
  <2> QED BY <2>1, <2>2
<1>10. CASE RotateInvite(r)
  <2>1. \/ End(r) /\ UNCHANGED group
        \/ Committed(r, AuditStep(r))
        \/ req' = [req EXCEPT ![r].tries = @ + 1] /\ UNCHANGED pc
    BY <1>10 DEF RotateInvite
  <2> QED BY <1>10, <2>1, <1>a, <1>e, <1>r DEF RotateInvite
<1>11. CASE Target(r)
  <2>1. CASE End(r)
    BY <1>11, <2>1, <1>e DEF Target
  <2>2. CASE ~End(r)
    <3> DEFINE row == member[req[r].group][req[r].target]
               v == IF req[r].op = "leave" THEN row.version ELSE req[r].version
               q == [req[r] EXCEPT !.version = v]
    <3>1. Goto(r, "lock") /\ req' = [req EXCEPT ![r] = q]
      BY <1>11, <2>2, <1>t DEF Target, TypeOK, Request
    <3>2. row \in Membership
      BY <1>11, <1>t DEF Target, RequestOK, Request, AllOps, TypeOK
    <3>3. q \in Request /\ q.op = req[r].op
      BY <3>2, <1>t DEF Request, Membership
    <3>4. q.wrote => req[r].wrote
      BY <1>t, Zenon DEF Request
    <3>5. req[r].op \notin {"rename", "rotate"} /\ pc[r] \notin {"reread", "audit"}
          /\ "lock" \in Steps
      BY <1>11, <1>t DEF Target, RequestOK, Steps
    <3> HIDE DEF q
    <3> QED BY <3>1, <3>3, <3>4, <3>5, MoveCall
  <2> QED BY <2>1, <2>2
<1>12. CASE LockGroupMembers(r)
  BY <1>12, <1>m DEF LockGroupMembers, Steps
<1>13. CASE Count(r)
  BY <1>13, <1>e, <1>m DEF Count, Steps
<1>14. CASE ChangeRole(r)
  <2>1. Committed(r, "reread") \/ (End(r) /\ UNCHANGED member)
    BY <1>14 DEF ChangeRole
  <2> QED BY <1>14, <2>1, <1>c, <1>e DEF ChangeRole
<1>15. CASE DeleteMembership(r)
  <2>1. CASE End(r) /\ UNCHANGED member
    BY <1>15, <2>1, <1>e DEF DeleteMembership
  <2>2. CASE ~(End(r) /\ UNCHANGED member) /\ req[r].op = "removeMember"
    BY <1>15, <2>2, <1>a DEF DeleteMembership
  <2>3. CASE ~(End(r) /\ UNCHANGED member) /\ req[r].op = "leave"
    BY <1>15, <2>3, <1>i DEF DeleteMembership, AuditedOps
  <2> QED BY <1>15, <2>1, <2>2, <2>3 DEF DeleteMembership
<1>16. CASE Reread(r)
  <2>1. CASE Erred(r)
    BY <2>1, ErredCall
  <2>2. CASE ~Erred(r) /\ req[r].asSite
    BY <1>16, <2>2, <1>m DEF Reread, AuditStep, Steps
  <2>3. CASE ~Erred(r) /\ ~req[r].asSite
    BY <1>16, <2>3, EndCall DEF Reread, AuditStep
  <2> QED BY <2>1, <2>2, <2>3
<1>17. CASE RecordSiteAdminAction(r) \/ AnswerError(r)
  BY <1>17, <1>e DEF RecordSiteAdminAction, AnswerError
<1> QED BY <1>1, <1>2, <1>3, <1>4, <1>5, <1>6, <1>7, <1>8, <1>9, <1>10, <1>11,
           <1>12, <1>13, <1>14, <1>15, <1>16, <1>17 DEF Step

(* Whoever moves, one request does one of these or no request moves.       *)
LEMMA NextCall ==
  ASSUME TypeInv, [Next]_vars
  PROVE  (\E r \in Requests : CallEffect(r)) \/ UNCHANGED <<group, pc, req>>
<1>1. ASSUME NEW r \in Requests, Fail(r) PROVE CallEffect(r)
  BY <1>1, ErredCall DEF Fail
<1> QED BY <1>1, SubmitCall, StepCall DEF Next, SetSiteAdmin, DeleteAccount, vars

(* A group row stands, or is written whole at the next revision with one   *)
(* field as it was: the other writer's field is the one that was read.     *)
LEMMA RowStep ==
  ASSUME EditInv, [Next]_vars, NEW g \in GroupIds, Exists(g), group'[g] # group[g]
  PROVE  /\ group'[g].version = group[g].version + 1
         /\ \/ group'[g].name = group[g].name
            \/ group'[g].invite = group[g].invite
<1>t. TypeInv /\ TypeOK /\ group[g] \in Group
  BY DEF EditInv, TypeInv, TypeOK
<1>1. PICK r \in Requests : Rename(r) \/ RotateInvite(r) \/ CreateGroup(r)
  BY GroupWriters
<1>2. ~CreateGroup(r)
  BY <1>t DEF CreateGroup, CreateGroupWithAdmin, Unused, TypeOK
<1>q. EditOK(r) /\ req[r] \in Request /\ req[r].seen \in Group
  BY <1>t DEF EditInv, TypeOK, Request
<1>u. ASSUME NEW name, NEW invite,
             UpdateGroup(req[r].group, name, invite, req[r].version),
             name = req[r].seen.name \/ invite = req[r].seen.invite,
             pc[r] = "updateGroup", req[r].op \in {"rename", "rotate"}
      PROVE  /\ group'[g].version = group[g].version + 1
             /\ \/ group'[g].name = group[g].name
                \/ group'[g].invite = group[g].invite
  <2>1. /\ req[r].group = g /\ group[g].version = req[r].version
        /\ group'[g] = [name |-> name, invite |-> invite,
                        version |-> group[g].version + 1]
    BY <1>u, <1>t DEF UpdateGroup, TypeOK
  <2>2. req[r].seen.version = group[g].version
    BY <1>u, <2>1, <1>q, <1>t DEF EditOK, Group
  <2>3. req[r].seen = group[g]
    BY <1>u, <2>1, <2>2, <1>q DEF EditOK
  <2> QED BY <2>1, <2>3, <1>u
<1>3. CASE Rename(r)
  BY <1>3, <1>u DEF Rename
<1>4. CASE RotateInvite(r)
  BY <1>4, <1>u DEF RotateInvite
<1> QED BY <1>1, <1>2, <1>3, <1>4

(* What an edit knows of the row stays true, whoever writes the row.       *)
LEMMA NextEdit == EditInv /\ [Next]_vars => EditInv'
<1> SUFFICES ASSUME EditInv, [Next]_vars PROVE EditInv'
  OBVIOUS
<1>t. TypeInv /\ TypeOK /\ TypeInv' /\ TypeOK'
  BY NextType DEF EditInv, TypeInv
<1>g. \A g \in GroupIds : Exists(g) =>
        group'[g] = group[g] \/ group'[g].version = group[g].version + 1
  BY RowStep
<1>k. ASSUME NEW r \in Requests, EditOK(r),
             req'[r].op = req[r].op, req'[r].group = req[r].group,
             req'[r].version = req[r].version, req'[r].seen = req[r].seen,
             pc'[r] = "updateGroup" => pc[r] = "updateGroup"
      PROVE  EditOK(r)'
  <2> SUFFICES ASSUME req[r].op \in {"rename", "rotate"} PROVE EditOK(r)'
    BY <1>k DEF EditOK
  <2>1. req[r] \in Request /\ req[r].seen \in Group
        /\ req[r].group \in GroupIds /\ Exists(req[r].group)
    BY <1>t DEF TypeInv, RequestsOK, RequestOK, TypeOK, Request
  <2> DEFINE g == req[r].group
  <2>2. group[g] \in Group /\ group'[g] \in Group
    BY <2>1, <1>t DEF TypeOK
  <2>3. group'[g] = group[g] \/ group'[g].version = group[g].version + 1
    BY <2>1, <1>g
  <2>4. /\ req[r].version \in Nat /\ req[r].seen.version \in Nat
        /\ group[g].version \in Nat /\ group'[g].version \in Nat
    BY <2>1, <2>2 DEF Group, Request
  <2> QED BY <1>k, <2>3, <2>4 DEF EditOK
<1>1. CASE UNCHANGED <<group, pc, req>>
  BY <1>1, <1>t DEF EditInv, EditOK
<1>2. ASSUME NEW r \in Requests, CallEffect(r) PROVE EditInv'
  <2>1. ASSUME NEW q \in Requests, q # r PROVE EditOK(q)'
    BY <1>2, <1>k, <2>1 DEF CallEffect, OthersSame, EditInv
  <2>2. EditOK(r)'
    <3>q. /\ req[r] \in Request /\ req'[r] \in Request
          /\ RequestOK(r)' /\ EditOK(r)
      BY <1>t DEF TypeInv, RequestsOK, TypeOK, EditInv
    <3> SUFFICES ASSUME req'[r].op \in {"rename", "rotate"} PROVE EditOK(r)'
      BY DEF EditOK
    <3>g. req'[r].group \in GroupIds /\ group'[req'[r].group] \in Group
      BY <3>q, <1>t DEF RequestOK, TypeOK
    <3>n. group'[req'[r].group].version \in Nat
      BY <3>g DEF Group
    <3>1. CASE /\ req'[r].op = req[r].op /\ req'[r].group = req[r].group
               /\ req'[r].version = req[r].version /\ req'[r].seen = req[r].seen
               /\ pc'[r] = "updateGroup" => pc[r] = "updateGroup"
      BY <3>1, <3>q, <1>k
    <3>2. CASE /\ UNCHANGED group /\ pc'[r] = "authorize"
               /\ req'[r].op = "rename" => req'[r].version = group[req'[r].group].version
      BY <3>2, <3>n DEF EditOK
    <3>3. CASE /\ UNCHANGED group
               /\ req'[r].op = req[r].op /\ req'[r].group = req[r].group
               /\ req'[r].seen = group[req'[r].group]
               /\ req'[r].version = IF req'[r].op = "rotate"
                                    THEN group[req'[r].group].version ELSE req[r].version
      BY <3>3, <3>n, <3>q DEF EditOK
    <3> QED BY <1>2, <3>1, <3>2, <3>3 DEF CallEffect, EditMove
  <2> QED BY <2>1, <2>2, <1>t DEF EditInv
<1> QED BY <1>1, <1>2, <1>t, NextCall

(* A rename and a rotation of the same group, read and written back in any *)
(* order by any number of requests, never undo each other: each write      *)
(* takes the next revision and changes one field.                          *)
THEOREM EditsKeepApart == Spec => OneFieldPerEdit
<1>1. Init => EditInv
  <2>1. Init => \A r \in Requests : EditOK(r)
    BY DEF Init, EditOK, NoRequest, Form
  <2> QED BY <2>1, InitType DEF EditInv
<1>2. EditInv /\ [Next]_vars => EditInv'
  BY NextEdit
<1>3. EditInv /\ [Next]_vars =>
        [\A g \in GroupIds : Exists(g) /\ group'[g] # group[g] =>
           /\ group'[g].version = group[g].version + 1
           /\ \/ group'[g].name = group[g].name
              \/ group'[g].invite = group[g].invite]_vars
  BY RowStep
<1> QED BY <1>1, <1>2, <1>3, PTL DEF Spec, OneFieldPerEdit

(* A committed rename, rotation or removal has only its audit before it.   *)
LEMMA NextTrail == TrailInv /\ [Next]_vars => TrailInv'
<1> SUFFICES ASSUME TrailInv, [Next]_vars PROVE TrailInv'
  OBVIOUS
<1>t. TypeInv /\ TypeInv'
  BY NextType DEF TrailInv
<1>1. CASE UNCHANGED <<group, pc, req>>
  BY <1>1, <1>t DEF TrailInv, TrailOK
<1>2. ASSUME NEW r \in Requests, CallEffect(r) PROVE TrailInv'
  <2>1. ASSUME NEW q \in Requests, q # r PROVE TrailOK(q)'
    BY <1>2, <2>1 DEF CallEffect, OthersSame, TrailInv, TrailOK
  <2>2. TrailOK(r)'
    BY <1>2 DEF CallEffect, TrailMove, TrailInv, TrailOK
  <2> QED BY <2>1, <2>2, <1>t DEF TrailInv
<1> QED BY <1>1, <1>2, <1>t, NextCall

(* Every step that ends a change well leaves it audited.                   *)
LEMMA TrailStep ==
  ASSUME TrailInv, [Next]_vars, NEW r \in Requests,
         req[r].op \in AuditedOps, req[r].asSite, pc'[r] = "idle",
         req[r].wrote \/ group' # group \/ member' # member
  PROVE  pc[r] = "audit"
<1>1. RequestOK(r) /\ TrailOK(r)
  BY DEF TrailInv, TypeInv, RequestsOK
<1>2. pc[r] # "idle"
  BY <1>1 DEF RequestOK, AuditedOps
<1>3. CallEffect(r)
  BY <1>2, NextCall DEF TrailInv, CallEffect, OthersSame
<1> QED BY <1>1, <1>3 DEF CallEffect, TrailMove, TrailOK

(* Any number of requests interleave in any way, commits lose their        *)
(* answers and second reads fail: a site administrator without group       *)
(* rights who is told that a name, a code or a roster was changed finds    *)
(* the change audited (recordSiteAdminAction).                             *)
THEOREM SiteWritesAudited == Spec => SiteAdminWritesAudited
<1>1. Init => TrailInv
  <2>1. Init => \A r \in Requests : TrailOK(r)
    BY DEF Init, TrailOK, AuditedOps, NoRequest, Form
  <2> QED BY <2>1, InitType DEF TrailInv
<1>2. TrailInv /\ [Next]_vars => TrailInv'
  BY NextTrail
<1>3. TrailInv /\ [Next]_vars =>
        [\A r \in Requests :
           /\ req[r].op \in {"rename", "rotate", "changeRole", "removeMember"}
           /\ req[r].asSite
           /\ pc'[r] = "idle"
           /\ req[r].wrote \/ group' # group \/ member' # member
           => pc[r] = "audit"]_vars
  BY TrailStep DEF AuditedOps
<1> QED BY <1>1, <1>2, <1>3, PTL DEF Spec, SiteAdminWritesAudited

-----------------------------------------------------------------------------
(* A group's lock is held exactly by the request that is between           *)
(* LockGroupMembers and the end of its transaction; each of its steps from *)
(* there on is one that nobody can keep it from, since a request at the    *)
(* write is one of the three that write.  So whoever waits, for the lock   *)
(* or, deleting an account, for the membership row that such a request     *)
(* holds, waits for a request that goes on.                                *)
LockAccounted ==
  /\ \A r \in Requests, g \in GroupIds :
       lock[g] = r <=> pc[r] \in {"count", "write"} /\ req[r].group = g
  /\ \A r \in Requests : pc[r] \in {"count", "write"} =>
       req[r].group \in GroupIds /\ req[r].op \in {"changeRole", "removeMember", "leave"}

LockExact ==
  \A r \in Requests, g \in GroupIds : lock[g] = r <=> pc[r] \in Locked /\ req[r].group = g

(* What a step of r does about the lock.                                   *)
LockMove(r) ==
  /\ OthersSame(r)
  /\ \/ UNCHANGED lock /\ pc[r] \notin Locked /\ pc'[r] \notin Locked
     \/ UNCHANGED <<lock, req>> /\ pc[r] = "count" /\ pc'[r] = "write"
     \/ Unlock(r) /\ pc[r] \in Locked /\ pc'[r] \notin Locked
     \/ LockGroupMembers(r)

(* What a request carries past the lock.                                   *)
LEMMA PastLock ==
  ASSUME TypeInv, NEW r \in Requests, pc[r] \in {"lock", "count", "write"}
  PROVE  req[r].group \in GroupIds /\ req[r].op \in {"changeRole", "removeMember", "leave"}
BY DEF TypeInv, TypeOK, RequestsOK, RequestOK, Request, AllOps

(* Any such step keeps the lock accounted for.                             *)
LEMMA LockMoveExact ==
  ASSUME TypeInv, LockExact, NEW r \in Requests, LockMove(r)
  PROVE  LockExact'
<1> SUFFICES ASSUME NEW q \in Requests, NEW g \in GroupIds
             PROVE  lock'[g] = q <=> pc'[q] \in Locked /\ req'[q].group = g
  BY DEF LockExact
<1>0. lock \in [GroupIds -> Requests \cup {None}] /\ pc \in [Requests -> Steps]
  BY DEF TypeInv, TypeOK
<1>1. q # r => pc'[q] = pc[q] /\ req'[q] = req[q]
  BY DEF LockMove, OthersSame
<1>2. /\ lock[g] = q <=> pc[q] \in Locked /\ req[q].group = g
      /\ lock[g] = r <=> pc[r] \in Locked /\ req[r].group = g
  BY DEF LockExact
<1>3. CASE UNCHANGED lock /\ pc[r] \notin Locked /\ pc'[r] \notin Locked
  BY <1>1, <1>2, <1>3
<1>4. CASE UNCHANGED <<lock, req>> /\ pc[r] = "count" /\ pc'[r] = "write"
  BY <1>1, <1>2, <1>4 DEF Locked
<1>5. CASE Unlock(r) /\ pc[r] \in Locked /\ pc'[r] \notin Locked
  <2>1. req[r].group \in GroupIds
    BY <1>5, PastLock DEF Locked
  <2>2. lock'[g] = IF g = req[r].group THEN None ELSE lock[g]
    BY <1>0, <1>5, <2>1 DEF Unlock
  <2> QED BY <1>1, <1>2, <1>5, <2>2, NoneFacts
<1>6. CASE LockGroupMembers(r)
  <2>1. req[r].group \in GroupIds
    BY <1>6, PastLock DEF LockGroupMembers
  <2>2. lock'[g] = IF g = req[r].group THEN r ELSE lock[g]
    BY <1>0, <1>6, <2>1 DEF LockGroupMembers
  <2>3. lock[req[r].group] = None /\ pc'[r] = "count" /\ req' = req /\ pc[r] = "lock"
    BY <1>0, <1>6 DEF LockGroupMembers, Goto
  <2> QED BY <1>1, <1>2, <2>2, <2>3, NoneFacts DEF Locked
<1> QED BY <1>3, <1>4, <1>5, <1>6 DEF LockMove

(* Every step of a request is one of those.                                *)
LEMMA RequestLockMove ==
  ASSUME TypeInv, NEW r \in Requests, Submit(r) \/ Step(r) \/ Fail(r)
  PROVE  LockMove(r)
<1>0. pc \in [Requests -> Steps]
  BY DEF TypeInv, TypeOK
<1>1. OthersSame(r)
  <2>1. CASE Fail(r)
    BY <2>1, ErredCall DEF Fail, CallEffect
  <2> QED BY <2>1, SubmitCall, StepCall DEF CallEffect
<1>2. CASE Submit(r)
  BY <1>0, <1>1, <1>2 DEF Submit, CreateRequest, JoinRequest, RenameRequest, RotateRequest,
     ChangeRoleRequest, RemoveMemberRequest, LeaveRequest, Start, LockMove, Locked
<1>3. CASE Fail(r)
  BY <1>0, <1>1, <1>3 DEF Fail, Erred, Return, LockMove, Locked
<1>4. CASE Creator(r) \/ CreateGroup(r) \/ Lookup(r) \/ FindOwn(r) \/ CreateMembership(r)
  BY <1>0, <1>1, <1>4 DEF Creator, CreateGroup, Lookup, FindOwn, CreateMembership, Committed,
     End, Erred, Return, Goto, LockMove, Locked
<1>5. CASE Authorize(r) \/ ActorIsGlobalAdmin(r) \/ FindGroupByID(r) \/ Target(r)
  <2>1. AfterAuthorize(r) \notin Locked
    BY DEF AfterAuthorize, Locked
  <2> QED BY <1>0, <1>1, <1>5, <2>1 DEF Authorize, ActorIsGlobalAdmin, FindGroupByID, Target,
             End, Return,
             Goto, LockMove, Locked
<1>6. CASE Rename(r) \/ RotateInvite(r)
  <2>1. AuditStep(r) \notin Locked
    BY DEF AuditStep, Locked
  <2> QED BY <1>0, <1>1, <1>6, <2>1 DEF Rename, RotateInvite, Committed, End, Erred,
             Return, Goto, LockMove, Locked
<1>7. CASE LockGroupMembers(r)
  BY <1>1, <1>7 DEF LockMove
<1>8. CASE Count(r)
  BY <1>0, <1>1, <1>8 DEF Count, End, Return, Goto, LockMove, Locked
<1>9. CASE ChangeRole(r) \/ DeleteMembership(r)
  <2>1. AuditStep(r) \notin Locked
    BY DEF AuditStep, Locked
  <2> QED BY <1>0, <1>1, <1>9, <2>1 DEF ChangeRole, DeleteMembership, Committed, End, Erred,
             Return, Goto, LockMove,
             Locked
<1>10. CASE Reread(r) \/ RecordSiteAdminAction(r) \/ AnswerError(r)
  BY <1>0, <1>1, <1>10 DEF Reread, AuditStep, RecordSiteAdminAction, AnswerError, End, Erred,
     Return, Goto, LockMove, Locked
<1> QED BY <1>2, <1>3, <1>4, <1>5, <1>6, <1>7, <1>8, <1>9, <1>10 DEF Step

(* No lock of a group outlives the transaction that took it, whichever way *)
(* that ends and whoever is deleted meanwhile, and its holder is never one *)
(* that waits (UpdateMembershipRole, DeleteMembership).                    *)
THEOREM LockReleased == Spec => []LockAccounted
<1>1. Init => TypeInv /\ LockExact
  BY InitType, NoneFacts DEF Init, LockExact, Locked
<1>2. TypeInv /\ LockExact /\ [Next]_vars => (TypeInv /\ LockExact)'
  <2> SUFFICES ASSUME TypeInv, LockExact, [Next]_vars PROVE LockExact'
    BY NextType
  <2>1. CASE UNCHANGED <<lock, pc, req>>
    BY <2>1 DEF LockExact
  <2>2. ASSUME NEW r \in Requests, Submit(r) \/ Step(r) \/ Fail(r) PROVE LockExact'
    BY <2>2, RequestLockMove, LockMoveExact
  <2> QED BY <2>1, <2>2 DEF Next, SetSiteAdmin, DeleteAccount, vars
<1>3. TypeInv /\ LockExact => LockAccounted
  BY PastLock DEF LockExact, Locked, LockAccounted
<1> QED BY <1>1, <1>2, <1>3, PTL DEF Spec
=============================================================================
