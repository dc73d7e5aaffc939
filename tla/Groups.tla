------------------------------- MODULE Groups -------------------------------
(***************************************************************************)
(* Groups, memberships and invite codes: GroupService                      *)
(* (src/internal/service/group.go), its PostgreSQL repositories            *)
(* (src/internal/store/postgres/groups.go) and the handlers that call it   *)
(* (src/internal/adapter/http/group.go).                                   *)
(*                                                                         *)
(* A request is a process.  It starts when a browser submits a form, takes *)
(* one step per SQL statement or transaction, and ends when the handler    *)
(* answers.  Transactions run at READ COMMITTED, so every statement sees   *)
(* what was committed before it and steps of other requests come between.  *)
(* The two membership writes that can cost a group an administrator first  *)
(* take the group's advisory lock, then read the row FOR UPDATE and count  *)
(* the other administrators, then write and commit.                        *)
(***************************************************************************)
EXTENDS Naturals, FiniteSets

CONSTANTS
  Users,                  \* account ids
  GroupIds,               \* group ids; each is used for one group at most
  Codes,                  \* invite codes newGroupInviteCode can draw
  Names,                  \* group names (normalised)
  Requests,               \* request slots, reused when a request has ended
  Ops,                    \* which operations browsers submit
  InitialAccounts,        \* kinds of account there are at the start
  AccountChanges,         \* which account events occur: "grant", "delete"
  GroupInviteCollisionTries,
  MaxVersion,             \* bound: no form is submitted from a later revision
  None                    \* no group, no user, no code, no lock holder

AllOps == {"create", "join", "rename", "rotate", "changeRole",
           "removeMember", "leave"}

ASSUME OpsAssumption == Ops \subseteq AllOps
ASSUME InitialAccountsAssumption ==
  InitialAccounts \subseteq {"guest", "user", "admin"}
ASSUME AccountChangesAssumption == AccountChanges \subseteq {"grant", "delete"}
ASSUME TriesAssumption == GroupInviteCollisionTries \in Nat \ {0}
ASSUME MaxVersionAssumption == MaxVersion \in Nat
ASSUME NoneAssumption ==
  None \notin Users \cup GroupIds \cup Codes \cup Names \cup Requests
              \cup {"admin", "member"}

VARIABLES
  account,    \* users: "absent", "guest", "user" or "admin" per id
  group,      \* groups: name, invite code, revision; invite None = no row
  member,     \* group_members: role and revision; role "none" = no row
  lock,       \* holder of pg_advisory_xact_lock('goweb:group:<id>')
  pc,         \* the step each request takes next
  req         \* what each request was sent and has read

vars == <<account, group, member, lock, pc, req>>

Roles == {"admin", "member"}
Membership == [role : Roles \cup {"none"}, version : Nat]
NoMembership == [role |-> "none", version |-> 0]
Group == [name : Names \cup {None}, invite : Codes \cup {None}, version : Nat]
NoGroup == [version |-> 0, name |-> None, invite |-> None]

Steps == {"idle", "failed", "creator", "createGroup", "lookup", "findOwn", "insert",
          "authorize", "siteAdmin", "readGroup", "updateGroup", "target",
          "lock", "count", "write", "reread", "audit"}

(***************************************************************************)
(* A request: the operation, who sent it, the group, the target account,   *)
(* the expected revision, the role, name or code it carries, the group row *)
(* it read, whether it is authorised as a site administrator only, the     *)
(* invite codes it has tried, and whether it has committed a change, a     *)
(* history field for the properties.                                       *)
(***************************************************************************)
Request ==
  [op : AllOps \cup {"none"}, user : Users \cup {None},
   group : GroupIds \cup {None}, target : Users \cup {None},
   version : Nat, arg : Roles \cup Names \cup Codes \cup {None},
   seen : Group, asSite : BOOLEAN, tries : Nat,
   wrote : BOOLEAN]

Form(op, user, g, target, version, arg) ==
  [user |-> user, group |-> g, version |-> version, op |-> op,
   target |-> target, arg |-> arg, seen |-> NoGroup, asSite |-> FALSE,
   tries |-> 0, wrote |-> FALSE]

NoRequest == Form("none", None, None, None, 0, None)

Exists(g) == group[g].invite # None
Administrators(g) == {u \in Users : member[g][u].role = "admin"}
InviteTaken(code, g) == \E h \in GroupIds \ {g} : group[h].invite = code

Init ==
  /\ account \in [Users -> InitialAccounts]
  /\ group = [g \in GroupIds |-> NoGroup]
  /\ member = [g \in GroupIds |-> [u \in Users |-> NoMembership]]
  /\ lock = [g \in GroupIds |-> None]
  /\ pc = [r \in Requests |-> "idle"]
  /\ req = [r \in Requests |-> NoRequest]

-----------------------------------------------------------------------------
(* Moving a request on, and ending it                                      *)

Goto(r, step) == pc' = [pc EXCEPT ![r] = step]

Return(r, step) ==
  /\ pc' = [pc EXCEPT ![r] = step]
  /\ req' = [req EXCEPT ![r] = NoRequest]

(* The handler answers: it is done, or refused before any write.           *)
End(r) == Return(r, "idle")

(* The service returns an error it did not make itself: the handler has    *)
(* only the error page left.                                               *)
Erred(r) == Return(r, "failed")

(* A write is committed.  Either its answer arrives and the request goes   *)
(* on to the step, or the connection is lost after the commit: the row is  *)
(* written and the service returns an error all the same.                  *)
Committed(r, step) ==
  \/ Erred(r)
  \/ IF step = "idle" THEN End(r)
     ELSE /\ Goto(r, step)
          /\ req' = [req EXCEPT ![r].wrote = TRUE]

(* COMMIT or the deferred tx.Rollback(): the transaction's lock goes.      *)
Unlock(r) == lock' = [lock EXCEPT ![req[r].group] = None]

Start(r, step, request) ==
  /\ pc[r] = "idle"
  /\ request.op \in Ops
  /\ account[request.user] # "absent"
  /\ pc' = [pc EXCEPT ![r] = step]
  /\ req' = [req EXCEPT ![r] = request]
  /\ UNCHANGED <<account, group, member, lock>>

-----------------------------------------------------------------------------
(* The handlers.  A form that names an existing row carries the revision   *)
(* the page was rendered with; what happens between rendering and the      *)
(* first statement is every step the other requests take meanwhile.        *)

Unused == {g \in GroupIds : ~Exists(g)}
Creating == {r \in Requests : pc[r] \in {"creator", "createGroup"}}

CreateRequest(r) ==
  /\ Cardinality(Creating) < Cardinality(Unused)
  /\ \E u \in Users, n \in Names :
       Start(r, "creator", Form("create", u, None, None, 0, n))

JoinRequest(r) ==
  \E u \in Users, c \in Codes :
    Start(r, "lookup", Form("join", u, None, None, 0, c))

RenameRequest(r) ==
  \E u \in Users, g \in GroupIds, n \in Names :
    /\ Exists(g)
    /\ group[g].version < MaxVersion
    /\ Start(r, "authorize", Form("rename", u, g, None, group[g].version, n))

RotateRequest(r) ==
  \E u \in Users, g \in GroupIds :
    /\ Exists(g)
    /\ group[g].version < MaxVersion
    /\ Start(r, "authorize", Form("rotate", u, g, None, 0, None))

ChangeRoleRequest(r) ==
  \E u, t \in Users, g \in GroupIds, role \in Roles :
    /\ member[g][t].role # "none"
    /\ member[g][t].version < MaxVersion
    /\ Start(r, "authorize",
             Form("changeRole", u, g, t, member[g][t].version, role))

RemoveMemberRequest(r) ==
  \E u, t \in Users, g \in GroupIds :
    /\ u # t
    /\ member[g][t].role # "none"
    /\ Start(r, "authorize",
             Form("removeMember", u, g, t, member[g][t].version, None))

LeaveRequest(r) ==
  \E u \in Users, g \in GroupIds :
    /\ Exists(g)
    /\ Start(r, "target", Form("leave", u, g, u, 0, None))

-----------------------------------------------------------------------------
(* GroupService.Create                                                     *)

(* The creator must exist and not be a guest.                              *)
Creator(r) ==
  /\ pc[r] = "creator"
  /\ IF account[req[r].user] \in {"user", "admin"}
     THEN Goto(r, "createGroup") /\ UNCHANGED req
     ELSE End(r)
  /\ UNCHANGED <<account, group, member, lock>>

(* CreateGroupWithAdmin: both rows in one transaction.  A taken code is    *)
(* drawn again; an account deleted meanwhile fails the foreign key.        *)
CreateGroupWithAdmin(r, g, code) ==
  /\ group' = [group EXCEPT ![g] = [name |-> req[r].arg, invite |-> code,
                                    version |-> 0]]
  /\ member' = [member EXCEPT ![g][req[r].user] =
                  [role |-> "admin", version |-> 0]]

CreateGroup(r) ==
  /\ pc[r] = "createGroup"
  /\ \E code \in Codes, g \in Unused :
       \/ /\ InviteTaken(code, g)
          /\ IF req[r].tries + 1 < GroupInviteCollisionTries
             THEN /\ req' = [req EXCEPT ![r].tries = @ + 1]
                  /\ UNCHANGED pc
             ELSE End(r)
          /\ UNCHANGED <<group, member>>
       \/ /\ ~InviteTaken(code, g)
          /\ account[req[r].user] # "absent"
          /\ CreateGroupWithAdmin(r, g, code)
          /\ Committed(r, "idle")
       \/ /\ ~InviteTaken(code, g)
          /\ account[req[r].user] = "absent"
          /\ End(r)
          /\ UNCHANGED <<group, member>>
  /\ UNCHANGED <<account, lock>>

-----------------------------------------------------------------------------
(* GroupService.Join                                                       *)

(* FindGroupByInviteCode                                                   *)
Lookup(r) ==
  /\ pc[r] = "lookup"
  /\ \/ \E g \in GroupIds :
          /\ group[g].invite = req[r].arg
          /\ req' = [req EXCEPT ![r].group = g]
          /\ Goto(r, "findOwn")
     \/ /\ \A g \in GroupIds : group[g].invite # req[r].arg
        /\ End(r)
  /\ UNCHANGED <<account, group, member, lock>>

(* An existing member keeps the row as it is.                              *)
FindOwn(r) ==
  /\ pc[r] = "findOwn"
  /\ IF member[req[r].group][req[r].user].role # "none"
     THEN End(r)
     ELSE Goto(r, "insert") /\ UNCHANGED req
  /\ UNCHANGED <<account, group, member, lock>>

(* INSERT of a member row at revision 0.  The unique (group, user) index   *)
(* turns a second insert into ErrMembershipExists, after which the row is  *)
(* only read again; a deleted account fails the foreign key.               *)
CreateMembership(r) ==
  LET g == req[r].group
      u == req[r].user
  IN /\ pc[r] = "insert"
     /\ IF member[g][u].role = "none" /\ account[u] # "absent"
        THEN /\ member' = [member EXCEPT ![g][u] =
                             [role |-> "member", version |-> 0]]
             /\ Committed(r, "idle")
        ELSE End(r) /\ UNCHANGED member
     /\ UNCHANGED <<account, group, lock>>

-----------------------------------------------------------------------------
(* GroupService.requireAdmin: two reads, of the actor's membership and,    *)
(* when that is no administrator's, of the account.                        *)

AfterAuthorize(r) ==
  IF req[r].op \in {"rename", "rotate"} THEN "readGroup" ELSE "target"

Authorize(r) ==
  /\ pc[r] = "authorize"
  /\ Goto(r, IF member[req[r].group][req[r].user].role = "admin"
             THEN AfterAuthorize(r) ELSE "siteAdmin")
  /\ UNCHANGED <<account, group, member, lock, req>>

ActorIsGlobalAdmin(r) ==
  /\ pc[r] = "siteAdmin"
  /\ IF account[req[r].user] = "admin"
     THEN /\ Goto(r, AfterAuthorize(r))
          /\ req' = [req EXCEPT ![r].asSite = TRUE]
     ELSE End(r)
  /\ UNCHANGED <<account, group, member, lock>>

-----------------------------------------------------------------------------
(* GroupService.Rename and RotateInvite: read the row, change one field of *)
(* it, and write the whole row back when the revision still is the one     *)
(* expected: the form's for a rename, the one just read for a rotation.    *)

FindGroupByID(r) ==
  /\ pc[r] = "readGroup"
  /\ req' = [req EXCEPT ![r].seen = group[req[r].group],
                        ![r].version = IF req[r].op = "rotate"
                                       THEN group[req[r].group].version ELSE @]
  /\ Goto(r, "updateGroup")
  /\ UNCHANGED <<account, group, member, lock>>

(* Mutations: the statement without "AND version = $5", and one that       *)
(* steps the revision back.                                                *)
UpdateGroupUnchecked(g, name, invite, expectedVersion) ==
  /\ ~InviteTaken(invite, g)
  /\ group' = [group EXCEPT ![g] = [name |-> name, invite |-> invite,
                                    version |-> @.version + 1]]

UpdateGroupBackwards(g, name, invite, expectedVersion) ==
  /\ group[g].version = expectedVersion
  /\ ~InviteTaken(invite, g)
  /\ group' = [group EXCEPT ![g] = [name |-> name, invite |-> invite,
                                    version |-> @.version - 1]]

UpdateGroup(g, name, invite, expectedVersion) ==
  /\ group[g].version = expectedVersion
  /\ ~InviteTaken(invite, g)
  /\ group' = [group EXCEPT ![g] = [name |-> name, invite |-> invite,
                                    version |-> @.version + 1]]

(* Mutation: nobody is audited.                                            *)
AuditStepSkipped(r) == "idle"

AuditStep(r) == IF req[r].asSite THEN "audit" ELSE "idle"

Rename(r) ==
  /\ pc[r] = "updateGroup"
  /\ req[r].op = "rename"
  /\ \/ /\ UpdateGroup(req[r].group, req[r].arg, req[r].seen.invite,
                       req[r].version)
        /\ Committed(r, AuditStep(r))
     \/ /\ group[req[r].group].version # req[r].version
        /\ End(r)
        /\ UNCHANGED group
  /\ UNCHANGED <<account, member, lock>>

RotateInvite(r) ==
  /\ pc[r] = "updateGroup"
  /\ req[r].op = "rotate"
  /\ \E code \in Codes :
       \/ /\ UpdateGroup(req[r].group, req[r].seen.name, code, req[r].version)
          /\ Committed(r, AuditStep(r))
       \/ /\ group[req[r].group].version = req[r].version
          /\ InviteTaken(code, req[r].group)
          /\ IF req[r].tries + 1 < GroupInviteCollisionTries
             THEN /\ req' = [req EXCEPT ![r].tries = @ + 1]
                  /\ UNCHANGED pc
             ELSE End(r)
          /\ UNCHANGED group
       \/ /\ group[req[r].group].version # req[r].version
          /\ End(r)
          /\ UNCHANGED group
  /\ UNCHANGED <<account, member, lock>>

-----------------------------------------------------------------------------
(* GroupService.ChangeRole, RemoveMember and Leave                         *)

(* FindMembership of the target.  A role change to the role the row has is *)
(* answered without a write; leaving uses the revision read here.          *)
Target(r) ==
  LET row == member[req[r].group][req[r].target]
  IN /\ pc[r] = "target"
     /\ IF row.role = "none" \/ (req[r].op = "changeRole" /\ row.role = req[r].arg)
        THEN End(r)
        ELSE /\ Goto(r, "lock")
             /\ req' = [req EXCEPT ![r].version =
                            IF req[r].op = "leave" THEN row.version ELSE @]
     /\ UNCHANGED <<account, group, member, lock>>

(* Mutation: the transaction does not wait for the lock.                   *)
LockGroupMembersShared(r) ==
  /\ pc[r] = "lock"
  /\ lock' = [lock EXCEPT ![req[r].group] = r]
  /\ Goto(r, "count")
  /\ UNCHANGED <<account, group, member, req>>

LockGroupMembers(r) ==
  /\ pc[r] = "lock"
  /\ lock[req[r].group] = None
  /\ lock' = [lock EXCEPT ![req[r].group] = r]
  /\ Goto(r, "count")
  /\ UNCHANGED <<account, group, member, req>>

CostsAdministrator(r) ==
  /\ member[req[r].group][req[r].target].role = "admin"
  /\ req[r].arg # "admin"

(* Mutation: the count forgets "user_id <> $2".                            *)
EnsureAnyAdmin(g, u) == Administrators(g) # {}

EnsureAnotherAdmin(g, u) == Administrators(g) \ {u} # {}

(* Mutation: a refused write returns without rolling back.                 *)
CountKeepsLock(r) ==
  /\ pc[r] = "count"
  /\ IF \/ member[req[r].group][req[r].target].role = "none"
        \/ /\ CostsAdministrator(r)
           /\ ~EnsureAnotherAdmin(req[r].group, req[r].target)
     THEN End(r)
     ELSE Goto(r, "write") /\ UNCHANGED req
  /\ UNCHANGED <<account, group, member, lock>>

(* SELECT role ... FOR UPDATE, then the count of the other administrators  *)
(* when the write would cost one.  The row stays locked until the end.     *)
Count(r) ==
  /\ pc[r] = "count"
  /\ IF \/ member[req[r].group][req[r].target].role = "none"
        \/ /\ CostsAdministrator(r)
           /\ ~EnsureAnotherAdmin(req[r].group, req[r].target)
     THEN End(r) /\ Unlock(r)
     ELSE Goto(r, "write") /\ UNCHANGED <<req, lock>>
  /\ UNCHANGED <<account, group, member>>

(* UpdateMembershipRole commits: SET role, version = version + 1.          *)
ChangeRole(r) ==
  LET g == req[r].group
      t == req[r].target
  IN /\ pc[r] = "write"
     /\ req[r].op = "changeRole"
     /\ IF member[g][t].version = req[r].version
        THEN /\ member' = [member EXCEPT ![g][t] =
                             [role |-> req[r].arg, version |-> @.version + 1]]
             /\ Committed(r, "reread")
        ELSE End(r) /\ UNCHANGED member
     /\ Unlock(r)
     /\ UNCHANGED <<account, group>>

(* DeleteMembership commits, for a removal or for the leaving account.     *)
DeleteMembership(r) ==
  LET g == req[r].group
      t == req[r].target
      next == IF req[r].op = "removeMember" THEN AuditStep(r) ELSE "idle"
  IN /\ pc[r] = "write"
     /\ req[r].op \in {"removeMember", "leave"}
     /\ IF member[g][t].version = req[r].version
        THEN /\ member' = [member EXCEPT ![g][t] = NoMembership]
             /\ Committed(r, next)
        ELSE End(r) /\ UNCHANGED member
     /\ Unlock(r)
     /\ UNCHANGED <<account, group>>

(* The role change reads its row again before it answers or audits; when   *)
(* the row is gone, that is an error.                                      *)
Reread(r) ==
  /\ pc[r] = "reread"
  /\ IF member[req[r].group][req[r].target].role = "none"
     THEN Erred(r)
     ELSE IF AuditStep(r) = "idle" THEN End(r)
     ELSE Goto(r, AuditStep(r)) /\ UNCHANGED req
  /\ UNCHANGED <<account, group, member, lock>>

(* recordSiteAdminAction: the trail is written best-effort, then answered. *)
RecordSiteAdminAction(r) ==
  /\ pc[r] = "audit"
  /\ End(r)
  /\ UNCHANGED <<account, group, member, lock>>

(* A statement fails or the client goes away before the commit: the error  *)
(* return rolls the open transaction back.  What was committed before      *)
(* stays, so a role change whose second read fails is answered with an     *)
(* error.                                                                  *)
Fail(r) ==
  /\ pc[r] \notin {"idle", "failed", "audit"}
  /\ Erred(r)
  /\ IF pc[r] \in {"count", "write"} THEN Unlock(r) ELSE UNCHANGED lock
  /\ UNCHANGED <<account, group, member>>

(* The handler renders the error.                                          *)
AnswerError(r) ==
  /\ pc[r] = "failed"
  /\ End(r)
  /\ UNCHANGED <<account, group, member, lock>>

-----------------------------------------------------------------------------
(* The account store next to the groups                                    *)

(* A site administrator other than u, whom both of the changes below need  *)
(* and leave (see Accounts).                                               *)
AnotherSiteAdmin(u) == \E v \in Users \ {u} : account[v] = "admin"

(* UpdateUser grants or revokes site administration.                       *)
SetSiteAdmin(u) ==
  /\ "grant" \in AccountChanges
  /\ AnotherSiteAdmin(u)
  /\ account[u] \in {"user", "admin"}
  /\ account' = [account EXCEPT ![u] = IF @ = "user" THEN "admin" ELSE "user"]
  /\ UNCHANGED <<group, member, lock, pc, req>>

(* DeleteUser: ON DELETE CASCADE removes the account's memberships.  The   *)
(* cascade waits for a membership row that a transaction holds FOR UPDATE, *)
(* and takes no group's advisory lock.                                     *)
DeleteAccount(u) ==
  /\ "delete" \in AccountChanges
  /\ AnotherSiteAdmin(u)
  /\ account[u] # "absent"
  /\ \A r \in Requests : pc[r] = "write" => req[r].target # u
  /\ account' = [account EXCEPT ![u] = "absent"]
  /\ member' = [g \in GroupIds |-> [member[g] EXCEPT ![u] = NoMembership]]
  /\ UNCHANGED <<group, lock, pc, req>>

-----------------------------------------------------------------------------
Submit(r) ==
  \/ CreateRequest(r)
  \/ JoinRequest(r)
  \/ RenameRequest(r)
  \/ RotateRequest(r)
  \/ ChangeRoleRequest(r)
  \/ RemoveMemberRequest(r)
  \/ LeaveRequest(r)

Step(r) ==
  \/ Creator(r)
  \/ CreateGroup(r)
  \/ Lookup(r)
  \/ FindOwn(r)
  \/ CreateMembership(r)
  \/ Authorize(r)
  \/ ActorIsGlobalAdmin(r)
  \/ FindGroupByID(r)
  \/ Rename(r)
  \/ RotateInvite(r)
  \/ Target(r)
  \/ LockGroupMembers(r)
  \/ Count(r)
  \/ ChangeRole(r)
  \/ DeleteMembership(r)
  \/ Reread(r)
  \/ RecordSiteAdminAction(r)
  \/ AnswerError(r)

Next ==
  \/ \E r \in Requests : Submit(r) \/ Step(r) \/ Fail(r)
  \/ \E u \in Users : SetSiteAdmin(u) \/ DeleteAccount(u)

Spec == Init /\ [][Next]_vars

(***************************************************************************)
(* A handler goroutine goes on running until it answers, and PostgreSQL    *)
(* grants an advisory lock to its waiters in turn.  Nothing obliges a      *)
(* browser to submit anything, nor a statement to fail.                    *)
(***************************************************************************)
Fairness ==
  \A r \in Requests : WF_vars(Step(r)) /\ SF_vars(LockGroupMembers(r))

FairSpec == Spec /\ Fairness

-----------------------------------------------------------------------------
(* Properties                                                              *)

(* Every table row, lock holder and request is well formed; in particular  *)
(* no UpdateGroup, UpdateMembershipRole or re-creation of a row takes a    *)
(* revision below zero.                                                    *)
TypeOK ==
  /\ account \in [Users -> {"absent", "guest", "user", "admin"}]
  /\ group \in [GroupIds -> Group]
  /\ member \in [GroupIds -> [Users -> Membership]]
  /\ lock \in [GroupIds -> Requests \cup {None}]
  /\ pc \in [Requests -> Steps]
  /\ req \in [Requests -> Request]

(* "A group always keeps at least one administrator": however role         *)
(* changes, removals and departures of several administrators interleave,  *)
(* the lock and the count in UpdateMembershipRole and DeleteMembership     *)
(* leave an administrator.  It fails once DeleteUser cascades.             *)
GroupKeepsAdmin == \A g \in GroupIds : Exists(g) => Administrators(g) # {}

(* A rename writes the invite code it read and a rotation the name it      *)
(* read, so either could undo the other; the revision check of UpdateGroup *)
(* never lets one edit change both fields or reuse a revision.             *)
OneFieldPerEdit ==
  [][\A g \in GroupIds : Exists(g) /\ group'[g] # group[g] =>
       /\ group'[g].version = group[g].version + 1
       /\ \/ group'[g].name = group[g].name
          \/ group'[g].invite = group[g].invite]_vars

(* A site administrator without group rights changes a name, an invite     *)
(* code or a roster and is told that it is done: by then the change is in  *)
(* the trail ("the completed action must be audited"), whatever ran        *)
(* between its statements.  A change that is committed and answered with   *)
(* an error, because the commit's answer or the second read of a role      *)
(* change was lost, is not in the trail, and this does not say it is.      *)
SiteAdminWritesAudited ==
  [][\A r \in Requests :
       /\ req[r].op \in {"rename", "rotate", "changeRole", "removeMember"}
       /\ req[r].asSite
       /\ pc'[r] = "idle"
       /\ req[r].wrote \/ group' # group \/ member' # member
       => pc[r] = "audit"]_vars

(* Every request is answered: the advisory lock and the row lock are taken *)
(* in one order and released on every path.                                *)
EveryRequestAnswered ==
  \A r \in Requests : pc[r] # "idle" ~> pc[r] = "idle"

Roster == INSTANCE GroupRoster WITH
            roster <- [g \in GroupIds |-> [u \in Users |-> member[g][u].role]]

(* Without account deletion the service implements the roster promise: no  *)
(* interleaving of its statements shows a change GroupRoster does not allow. *)
ImplementsRoster == Roster!Spec
=============================================================================
