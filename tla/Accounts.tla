------------------------------ MODULE Accounts ------------------------------
(***************************************************************************)
(* The users table and the writes to it: UserRepository                    *)
(* (src/internal/store/postgres/users.go) under AdminAccountService,       *)
(* ProfileSettingsService and GuestUpgradeService.                         *)
(*                                                                         *)
(* Every one of those services reads the whole row, changes some fields of *)
(* it and writes the whole row back with an expected revision.  A write    *)
(* that leaves the account without administrator rights first goes through *)
(* keepAnotherAdministrator: an unlocked look at the account, and only if  *)
(* it is an administrator the advisory lock 'goweb:administrators', the    *)
(* count of the others and a second look.  Each statement is one step.     *)
(***************************************************************************)
EXTENDS Integers, FiniteSets

CONSTANTS
  Users,        \* account ids; an id is never used again
  Profiles,     \* values of the profile fields
  Requests,     \* request slots, reused when a request has ended
  MaxVersion,   \* bound: no edit is submitted from a later revision
  None          \* no account, no lock holder

ASSUME UsersAssumption == None \notin Users
ASSUME RequestsAssumption == None \notin Requests
ASSUME ProfilesAssumption == Profiles # {}
ASSUME MaxVersionAssumption == MaxVersion \in Nat

VARIABLES
  user,       \* the users table
  adminLock,  \* holder of pg_advisory_xact_lock('goweb:administrators')
  pc,         \* the step each request takes next
  req         \* what each request was sent and has read

vars == <<user, adminLock, pc, req>>

Row == [state : {"unused", "guest", "user", "deleted"}, admin : BOOLEAN,
        profile : Profiles, version : Nat]

Ops == {"none", "edit", "delete", "profile", "upgrade"}
Steps == {"idle", "authorize", "find", "check", "lock", "others", "self", "write"}

(***************************************************************************)
(* A request: the operation, who sent it, the account it is about, the     *)
(* submitted administrator flag and profile, the revision the write        *)
(* expects, the row that was read, whether the lock is held, and whether   *)
(* other administrators were counted.                                      *)
(***************************************************************************)
Request == [op : Ops, actor : Users \cup {None}, target : Users \cup {None},
            admin : BOOLEAN, profile : Profiles, expected : Nat,
            seen : Row, locked : BOOLEAN, others : BOOLEAN]

SomeProfile == CHOOSE p \in Profiles : TRUE

UnusedRow == [state |-> "unused", admin |-> FALSE, profile |-> SomeProfile,
              version |-> 0]

Form(op, actor, target, expected, admin, profile) ==
  [admin |-> admin, profile |-> profile, op |-> op, actor |-> actor,
   target |-> target, expected |-> expected,
   seen |-> UnusedRow, locked |-> FALSE, others |-> FALSE]

NoRequest == Form("none", None, None, 0, FALSE, SomeProfile)

Exists(u) == user[u].state \in {"guest", "user"}

(* is_admin AND NOT is_guest                                               *)
IsAdministrator(u) == user[u].state = "user" /\ user[u].admin

Administrators == {u \in Users : IsAdministrator(u)}

(* An installation starts with the administrator that                      *)
(* EnsureBootstrapAdmin or the operator has created.                       *)
Init ==
  /\ \E first \in Users :
       user = [u \in Users |->
                 IF u = first THEN [UnusedRow EXCEPT !.state = "user", !.admin = TRUE]
                 ELSE UnusedRow]
  /\ adminLock = None
  /\ pc = [r \in Requests |-> "idle"]
  /\ req = [r \in Requests |-> NoRequest]

-----------------------------------------------------------------------------
Goto(r, step) == pc' = [pc EXCEPT ![r] = step]

(* The request is answered; an open transaction rolls back or has          *)
(* committed, and with it goes its lock.                                   *)
End(r) ==
  /\ pc' = [pc EXCEPT ![r] = "idle"]
  /\ req' = [req EXCEPT ![r] = NoRequest]
  /\ adminLock' = IF req[r].locked THEN None ELSE adminLock

Start(r, step, request) ==
  /\ pc[r] = "idle"
  /\ Exists(request.target)
  /\ request.op # "delete" => request.expected < MaxVersion
  /\ Goto(r, step)
  /\ req' = [req EXCEPT ![r] = request]
  /\ UNCHANGED <<user, adminLock>>

-----------------------------------------------------------------------------
(* Rows that appear: AdminAccountService.Create, sign-up and guest         *)
(* sessions insert a row at revision 0.                                    *)
CreateUser(u) ==
  /\ user[u].state = "unused"
  /\ \E state \in {"guest", "user"}, admin \in BOOLEAN, p \in Profiles :
       /\ state = "guest" => ~admin
       /\ user' = [user EXCEPT ![u] = [state |-> state, admin |-> admin,
                                       profile |-> p, version |-> 0]]
  /\ UNCHANGED <<adminLock, pc, req>>

(* Forms an administrator or the account's owner was shown, and submits.   *)
EditRequest(r) ==
  \E actor, target \in Users, admin \in BOOLEAN :
    /\ actor = target => admin
    /\ Start(r, "authorize", Form("edit", actor, target, user[target].version,
                                  admin, SomeProfile))

DeleteRequest(r) ==
  \E actor, target \in Users :
    /\ actor # target
    /\ Start(r, "authorize", Form("delete", actor, target,
                                  user[target].version, FALSE, SomeProfile))

ProfileRequest(r) ==
  \E u \in Users, p \in Profiles :
    Start(r, "find", Form("profile", u, u, user[u].version, FALSE, p))

UpgradeRequest(r) ==
  \E u \in Users :
    Start(r, "find", Form("upgrade", u, u, user[u].version, FALSE, SomeProfile))

-----------------------------------------------------------------------------
(* adminHandler.authorize reads the actor's row when the form arrives.     *)
Authorize(r) ==
  /\ pc[r] = "authorize"
  /\ IF Exists(req[r].actor) /\ user[req[r].actor].admin
     THEN Goto(r, "find") /\ UNCHANGED <<adminLock, req>>
     ELSE End(r)
  /\ UNCHANGED user

(* The row UpdateUser is given: the row read with the operation's own      *)
(* fields replaced.                                                        *)
NewRow(r) ==
  LET row == req[r].seen
  IN CASE req[r].op = "profile" -> [row EXCEPT !.profile = req[r].profile]
       [] req[r].op = "upgrade" -> [row EXCEPT !.state = "user"]
       [] OTHER -> [row EXCEPT !.admin = req[r].admin]

(* if !user.IsAdmin || user.IsGuest; DeleteUser always checks.             *)
MustKeepAnother(op, row) ==
  op = "delete" \/ ~row.admin \/ row.state = "guest"

(* FindUserByID.  Administrator forms expect the revision they were        *)
(* rendered with, the account's own settings the revision just read.  The  *)
(* row a deletion reads only names the account in the audit entry.         *)
FindUserByID(r) ==
  LET row == user[req[r].target]
  IN /\ pc[r] = "find"
     /\ IF Exists(req[r].target) /\ (req[r].op = "upgrade" => row.state = "guest")
        THEN /\ req' = [req EXCEPT ![r].seen = IF req[r].op = "delete" THEN @ ELSE row,
                          ![r].expected = IF req[r].op \in {"profile", "upgrade"}
                                          THEN row.version ELSE @]
             /\ Goto(r, "check")
             /\ UNCHANGED adminLock
        ELSE End(r)
     /\ UNCHANGED user

(* keepAnotherAdministrator, first look, without the lock.                 *)
CheckAdministrator(r) ==
  /\ pc[r] = "check"
  /\ Goto(r, IF MustKeepAnother(req[r].op, NewRow(r)) /\ IsAdministrator(req[r].target)
             THEN "lock" ELSE "write")
  /\ UNCHANGED <<user, adminLock, req>>

(* A lock taken per account: two administrators demoted at once are not    *)
(* serialized.                                                             *)
LockAdministratorsPerAccount(r) ==
  /\ pc[r] = "lock"
  /\ adminLock' = r
  /\ req' = [req EXCEPT ![r].locked = TRUE]
  /\ Goto(r, "others")
  /\ UNCHANGED user

(* pg_advisory_xact_lock waits until the holder's transaction has ended.   *)
LockAdministrators(r) ==
  /\ pc[r] = "lock"
  /\ adminLock = None
  /\ adminLock' = r
  /\ req' = [req EXCEPT ![r].locked = TRUE]
  /\ Goto(r, "others")
  /\ UNCHANGED user

CountOthers(r) ==
  /\ pc[r] = "others"
  /\ req' = [req EXCEPT ![r].others = (Administrators \ {req[r].target} # {})]
  /\ Goto(r, "self")
  /\ UNCHANGED <<user, adminLock>>

(* Second look; a row that is gone leaves the first look's answer, TRUE.   *)
RereadSelf(r) ==
  /\ pc[r] = "self"
  /\ IF (Exists(req[r].target) => IsAdministrator(req[r].target)) /\ ~req[r].others
     THEN End(r)
     ELSE Goto(r, "write") /\ UNCHANGED <<adminLock, req>>
  /\ UNCHANGED user

Revision(u, version) == Exists(u) /\ user[u].version = version

(* UPDATE users ... WHERE id, without the revision.                        *)
UpdateUserUnchecked(r) ==
  LET u == req[r].target
  IN /\ pc[r] = "write"
     /\ req[r].op # "delete"
     /\ IF Exists(u) /\ ~(req[r].op = "edit" /\ NewRow(r).state = "guest")
        THEN user' = [user EXCEPT ![u] = [NewRow(r) EXCEPT !.version = user[u].version + 1]]
        ELSE UNCHANGED user
     /\ End(r)

(* version = version - 1, from a row that may be at revision 0.            *)
UpdateUserBackwards(r) ==
  LET u == req[r].target
  IN /\ pc[r] = "write"
     /\ req[r].op # "delete"
     /\ IF Revision(u, req[r].expected)
        THEN user' = [user EXCEPT ![u] = [NewRow(r) EXCEPT !.version = user[u].version - 1]]
        ELSE UNCHANGED user
     /\ End(r)

(* UPDATE users ... WHERE id AND version.  The guest CHECK constraint      *)
(* refuses an email on a guest, so an administrator's edit of one fails.   *)
UpdateUser(r) ==
  LET u == req[r].target
  IN /\ pc[r] = "write"
     /\ req[r].op # "delete"
     /\ IF Revision(u, req[r].expected) /\ ~(req[r].op = "edit" /\ NewRow(r).state = "guest")
        THEN user' = [user EXCEPT ![u] = [NewRow(r) EXCEPT !.version = user[u].version + 1]]
        ELSE UNCHANGED user
     /\ End(r)

DeleteUser(r) ==
  LET u == req[r].target
  IN /\ pc[r] = "write"
     /\ req[r].op = "delete"
     /\ IF Revision(u, req[r].expected)
        THEN user' = [user EXCEPT ![u] = [@ EXCEPT !.state = "deleted"]]
        ELSE UNCHANGED user
     /\ End(r)

(* A statement fails or the client goes away: the transaction rolls back.  *)
Fail(r) ==
  /\ pc[r] # "idle"
  /\ End(r)
  /\ UNCHANGED user

-----------------------------------------------------------------------------
Submit(r) == EditRequest(r) \/ DeleteRequest(r) \/ ProfileRequest(r) \/ UpgradeRequest(r)

Step(r) ==
  \/ Authorize(r)
  \/ FindUserByID(r)
  \/ CheckAdministrator(r)
  \/ LockAdministrators(r)
  \/ CountOthers(r)
  \/ RereadSelf(r)
  \/ UpdateUser(r)
  \/ DeleteUser(r)

Next ==
  \/ \E u \in Users : CreateUser(u)
  \/ \E r \in Requests : Submit(r) \/ Step(r) \/ Fail(r)

Spec == Init /\ [][Next]_vars

-----------------------------------------------------------------------------
(* Properties                                                              *)

(* The users table, the lock and the requests are well formed; UpdateUser  *)
(* never takes a revision below zero.                                      *)
TypeOK ==
  /\ user \in [Users -> Row]
  /\ adminLock \in Requests \cup {None}
  /\ pc \in [Requests -> Steps]
  /\ req \in [Requests -> Request]

(* keepAnotherAdministrator: "two administrators demoting each other at    *)
(* once cannot leave none", nor can any mix of demotions, deletions and    *)
(* promotions, though the first look is taken without the lock.            *)
AtLeastOneAdministrator == Administrators # {}

(* Every write replaces the whole row, so a settings page could give back  *)
(* rights that were revoked while it was saving, or an edit undo a new     *)
(* profile; the revision check keeps each write to its own fields.         *)
EditsKeepOtherFields ==
  [][\A r \in Requests : pc[r] = "write" /\ pc'[r] = "idle" /\ req[r].op # "delete" =>
       LET u == req[r].target
       IN /\ req[r].op # "edit" => user'[u].admin = user[u].admin
          /\ req[r].op # "profile" => user'[u].profile = user[u].profile
          /\ req[r].op # "upgrade" => user'[u].state = user[u].state]_vars

(* Update records "administrator granted" or "revoked" by comparing with   *)
(* the row it read before the transaction; when the write goes through     *)
(* that comparison is with the rights the account really had.              *)
AuditMatchesChange ==
  [][\A r \in Requests :
       pc[r] = "write" /\ req[r].op = "edit" /\ user' # user /\ pc'[r] = "idle"
       => req[r].seen.admin = user[req[r].target].admin]_vars
=============================================================================
