------------------------------- MODULE Guests -------------------------------
(***************************************************************************)
(* One guest account: its creation, the transfer code that opens it on     *)
(* other devices, its upgrade to a full account (with a password, or in    *)
(* client mode with an identity of the issuer), and the maintenance job    *)
(* that deletes abandoned guests.                                          *)
(*                                                                         *)
(* Every request may be served by an instance of its own, so the mutex of  *)
(* GuestClaimService keeps nobody out and the tables alone decide.  Opening*)
(* a session and revoking an account's sessions each run under the         *)
(* account's sessions lock: here they are single steps.                    *)
(***************************************************************************)
EXTENDS Integers, FiniteSets

CONSTANTS
  Sessions,    \* session ids, used again once revoked
  Codes,       \* transfer codes
  Requests,    \* request slots
  Modes,       \* the modes explored: "local", "client"
  MaxVersion,  \* bound: revisions of the account's row
  None         \* no code, no session

ASSUME NoneAssumption == None \notin Sessions \cup Codes
ASSUME ModesAssumption == Modes \subseteq {"local", "client"}
ASSUME MaxVersionAssumption == MaxVersion \in Nat

VARIABLES
  mode,     \* whether accounts come from the single sign-on issuer
  account,  \* the users row
  member,   \* it has a row in group_members
  code,     \* guest_claim_codes
  session,  \* the account's sessions
  cleanup,  \* the step of the cleanup transaction
  doomed,   \* the transaction has deleted the row, not yet committed
  pc,       \* the step each request takes next
  req,      \* what each request carries
  retired,  \* history: the codes revoked by the time the upgrade revoked the sessions
  owner     \* history: the request whose upgrade gave the account its credentials

vars == <<mode, account, member, code, session, cleanup, doomed, pc, req, retired, owner>>

Account == [exists : BOOLEAN, guest : BOOLEAN, version : 0..MaxVersion, old : BOOLEAN]

(* via is the code that opened the session; held says that a browser was   *)
(* given it.                                                               *)
Session == [live : BOOLEAN, via : Codes \cup {None}, held : BOOLEAN]

Steps == {"idle", "open", "find", "active", "insert", "lookup", "mark", "undo", "revoke",
          "update", "convert", "sweep"}

Request == [op : {"none", "create", "issue", "redeem", "upgrade"}, code : Codes \cup {None},
            session : Sessions \cup {None}, version : 0..MaxVersion]

NoAccount == [exists |-> FALSE, guest |-> FALSE, version |-> 0, old |-> FALSE]
NoSession == [live |-> FALSE, via |-> None, held |-> FALSE]
NoRequest == [op |-> "none", code |-> None, session |-> None, version |-> 0]

Init ==
  /\ mode \in Modes
  /\ account = NoAccount
  /\ member = FALSE
  /\ code = [c \in Codes |-> "none"]
  /\ session = [s \in Sessions |-> NoSession]
  /\ cleanup = "idle" /\ doomed = FALSE
  /\ pc = [r \in Requests |-> "idle"]
  /\ req = [r \in Requests |-> NoRequest]
  /\ retired = {}
  /\ owner = None

-----------------------------------------------------------------------------
Goto(r, step) == pc' = [pc EXCEPT ![r] = step]

End(r) ==
  /\ Goto(r, "idle")
  /\ req' = [req EXCEPT ![r] = NoRequest]

tables == <<mode, account, member, code, session, cleanup, doomed, retired, owner>>

(* The candidates are selected without FOR UPDATE.                         *)
NeverLocked == FALSE

(* The cleanup transaction holds the users row FOR UPDATE: an update of it *)
(* and an insert that refers to it wait.                                   *)
Locked == cleanup # "idle"

SignedIn == \E s \in Sessions : session[s].live /\ session[s].held

Start(r, step, request) ==
  /\ pc[r] = "idle"
  /\ Goto(r, step)
  /\ req' = [req EXCEPT ![r] = request]

(* A visitor becomes a guest: the row is inserted, its first session is    *)
(* next.                                                                   *)
Create(r) ==
  /\ ~account.exists /\ \A q \in Requests : pc[q] = "idle"
  /\ Start(r, "open", [NoRequest EXCEPT !.op = "create"])
  /\ account' = [NoAccount EXCEPT !.exists = TRUE, !.guest = TRUE]
  /\ retired' = {} /\ owner' = None
  /\ UNCHANGED <<mode, member, code, session, cleanup, doomed>>

(* The transfer and upgrade pages answer a signed-in guest; anyone may     *)
(* send a code.                                                            *)
GuestPage(r) ==
  /\ SignedIn /\ account.guest
  /\ \/ Start(r, "find", [NoRequest EXCEPT !.op = "issue"])
     \/ /\ account.version < MaxVersion
        /\ Start(r, "find", [NoRequest EXCEPT !.op = "upgrade"])
  /\ UNCHANGED tables

RedeemPage(r) ==
  /\ \E c \in Codes : code[c] # "none"
                      /\ Start(r, "lookup", [NoRequest EXCEPT !.op = "redeem", !.code = c])
  /\ UNCHANGED tables

-----------------------------------------------------------------------------
(* Ids are interchangeable: whichever is unused will do.                   *)
UnusedSessions ==
  {s \in Sessions : ~session[s].live /\ \A q \in Requests : req[q].session # s}
UnusedCodes == {c \in Codes : code[c] = "none"}
Pick(S) == CHOOSE x \in S : TRUE

(* Sessions.Create for whichever request.  A redemption goes on to mark    *)
(* the code; the others hand the session out.                              *)
Open(r) ==
  /\ pc[r] = "open" /\ account.exists /\ ~Locked
  /\ UnusedSessions # {}
  /\ LET s == Pick(UnusedSessions)
     IN  /\ session' = [session EXCEPT ![s] = [live |-> TRUE, via |-> req[r].code,
                                               held |-> req[r].op # "redeem"]]
         /\ IF req[r].op = "redeem"
            THEN Goto(r, "mark") /\ req' = [req EXCEPT ![r].session = s]
            ELSE End(r)
  /\ UNCHANGED <<mode, account, member, code, cleanup, doomed, retired, owner>>

(* The row a request reads before it goes on: it must be a guest still.    *)
Find(r) ==
  /\ pc[r] = "find" /\ account.exists /\ account.guest
  /\ req' = [req EXCEPT ![r].version = IF req[r].op = "upgrade" THEN account.version ELSE 0]
  /\ Goto(r, CASE req[r].op = "issue" -> "active"
               [] req[r].op = "redeem" -> "open"
               [] req[r].op = "upgrade" -> IF mode = "local" THEN "revoke" ELSE "convert")
  /\ UNCHANGED tables

(* GuestClaimService.Issue: the active code if there is one, else a new    *)
(* one.  The partial unique index refuses a second; the loser reads the    *)
(* winner's.                                                               *)
Active == {c \in Codes : code[c] = "active"}

IssueActive(r) ==
  /\ pc[r] = "active"
  /\ IF Active # {} THEN End(r) ELSE Goto(r, "insert") /\ UNCHANGED req
  /\ UNCHANGED tables

(* The code is inserted without the index that keeps it the only one.      *)
CreateCodeUnindexed(r) ==
  /\ pc[r] = "insert" /\ ~Locked
  /\ account.exists /\ UnusedCodes # {}
  /\ code' = [code EXCEPT ![Pick(UnusedCodes)] = "active"]
  /\ End(r)
  /\ UNCHANGED <<mode, account, member, session, cleanup, doomed, retired, owner>>

CreateGuestClaimCode(r) ==
  /\ pc[r] = "insert" /\ ~Locked
  /\ IF account.exists /\ Active = {}
     THEN UnusedCodes # {} /\ code' = [code EXCEPT ![Pick(UnusedCodes)] = "active"]
     ELSE UNCHANGED code
  /\ End(r)
  /\ UNCHANGED <<mode, account, member, session, cleanup, doomed, retired, owner>>

-----------------------------------------------------------------------------
(* GuestRedemptionService.Redeem: look the code up, read the guest, open a *)
(* session, and mark the code used; a code revoked in between takes the    *)
(* session back.                                                           *)
FindCode(r) ==
  /\ pc[r] = "lookup" /\ code[req[r].code] = "active"
  /\ Goto(r, "find")
  /\ UNCHANGED <<tables, req>>

Handed(r) == session' = [session EXCEPT ![req[r].session].held = session[req[r].session].live]

(* The mark does not look whether the code is revoked.                     *)
MarkAny(r) ==
  /\ pc[r] = "mark"
  /\ Handed(r) /\ End(r)
  /\ UNCHANGED <<mode, account, member, code, cleanup, doomed, retired, owner>>

MarkGuestClaimCodeUsed(r) ==
  /\ pc[r] = "mark"
  /\ \/ /\ code[req[r].code] = "active"
        /\ Handed(r) /\ End(r)
     \/ Goto(r, "undo") /\ UNCHANGED <<session, req>>
  /\ UNCHANGED <<mode, account, member, code, cleanup, doomed, retired, owner>>

RevokeRedeemed(r) ==
  /\ pc[r] = "undo"
  /\ session' = [session EXCEPT ![req[r].session] = NoSession]
  /\ End(r)
  /\ UNCHANGED <<mode, account, member, code, cleanup, doomed, retired, owner>>

-----------------------------------------------------------------------------
(* GuestUpgradeService.Upgrade: revoke the code, write the row at the      *)
(* revision that was read, revoke every session, open a new one.           *)
Revoked == [c \in Codes |-> IF code[c] = "active" THEN "revoked" ELSE code[c]]

RevokeGuestClaimCode(r) ==
  /\ pc[r] = "revoke"
  /\ code' = Revoked
  /\ Goto(r, "update")
  /\ UNCHANGED <<mode, account, member, session, cleanup, doomed, req, retired, owner>>

Converted(r) ==
  /\ account.version < MaxVersion
  /\ account' = [account EXCEPT !.guest = FALSE, !.version = @ + 1]
  /\ owner' = r
  /\ Goto(r, "sweep") /\ UNCHANGED req

UpdateUser(r) ==
  /\ pc[r] = "update" /\ ~Locked
  /\ account.exists /\ account.version = req[r].version
  /\ Converted(r)
  /\ UNCHANGED <<mode, member, code, session, cleanup, doomed, retired>>

(* UpgradeGuestWithIdentity: code, row and identity in one transaction.    *)
UpgradeGuestWithIdentity(r) ==
  /\ pc[r] = "convert" /\ ~Locked
  /\ account.exists /\ account.guest /\ account.version = req[r].version
  /\ code' = Revoked
  /\ Converted(r)
  /\ UNCHANGED <<mode, member, session, cleanup, doomed, retired>>

RevokeUser(r) ==
  /\ pc[r] = "sweep"
  /\ session' = [s \in Sessions |-> NoSession]
  /\ retired' = {c \in Codes : code[c] = "revoked"}
  /\ Goto(r, "open") /\ UNCHANGED req
  /\ UNCHANGED <<mode, account, member, code, cleanup, doomed, owner>>

(* A step finds that it cannot go on, fails, or the instance stops: what   *)
(* was done stays.                                                         *)
GiveUp(r) ==
  /\ pc[r] # "idle"
  /\ End(r)
  /\ UNCHANGED tables

-----------------------------------------------------------------------------
(* What else happens to the account: groups, the theme switch (a write of  *)
(* the row), sign-out, sign-in once it is a full account, and time.        *)
JoinGroup ==
  /\ SignedIn /\ ~member /\ ~Locked
  /\ member' = TRUE
  /\ UNCHANGED <<mode, account, code, session, cleanup, doomed, pc, req, retired, owner>>

LeaveGroup ==
  /\ SignedIn /\ member
  /\ member' = FALSE
  /\ UNCHANGED <<mode, account, code, session, cleanup, doomed, pc, req, retired, owner>>

UpdateTheme ==
  /\ SignedIn /\ account.guest /\ ~Locked /\ account.version < MaxVersion
  /\ account' = [account EXCEPT !.version = @ + 1]
  /\ UNCHANGED <<mode, member, code, session, cleanup, doomed, pc, req, retired, owner>>

SignOut ==
  /\ \E s \in Sessions :
       /\ session[s].live /\ session[s].held
       /\ session' = [session EXCEPT ![s] = NoSession]
  /\ UNCHANGED <<mode, account, member, code, cleanup, doomed, pc, req, retired, owner>>

SignIn ==
  /\ account.exists /\ ~account.guest /\ UnusedSessions # {}
  /\ session' = [session EXCEPT ![Pick(UnusedSessions)] =
                    [live |-> TRUE, via |-> None, held |-> TRUE]]
  /\ UNCHANGED <<mode, account, member, code, cleanup, doomed, pc, req, retired, owner>>

GrowOld ==
  /\ account.exists /\ ~account.old
  /\ account' = [account EXCEPT !.old = TRUE]
  /\ UNCHANGED <<mode, member, code, session, cleanup, doomed, pc, req, retired, owner>>

-----------------------------------------------------------------------------
(* A guest somebody is signed in to is passed over.                        *)
CleanupLockSignedOut ==
  /\ cleanup = "idle" /\ ~SignedIn
  /\ account.exists /\ account.guest /\ account.old
  /\ cleanup' = "check"
  /\ UNCHANGED <<mode, account, member, code, session, doomed, pc, req, retired, owner>>

(* DeleteEmptyAbandonedGuests, one transaction: lock the old guests, look  *)
(* for memberships, delete, commit.                                        *)
CleanupLock ==
  /\ cleanup = "idle"
  /\ account.exists /\ account.guest /\ account.old
  /\ cleanup' = "check"
  /\ UNCHANGED <<mode, account, member, code, session, doomed, pc, req, retired, owner>>

CleanupCheck ==
  /\ cleanup = "check"
  /\ cleanup' = "commit"
  /\ doomed' = ~member
  /\ UNCHANGED <<mode, account, member, code, session, pc, req, retired, owner>>

CleanupEnds == cleanup' = "idle" /\ doomed' = FALSE

CleanupCommit ==
  /\ cleanup = "commit"
  /\ IF doomed
     THEN /\ account' = NoAccount
          /\ member' = FALSE
          /\ code' = [c \in Codes |-> "none"]
          /\ session' = [s \in Sessions |-> NoSession]
     ELSE UNCHANGED <<account, member, code, session>>
  /\ CleanupEnds
  /\ UNCHANGED <<mode, pc, req, retired, owner>>

CleanupFails ==
  /\ cleanup # "idle"
  /\ CleanupEnds
  /\ UNCHANGED <<mode, account, member, code, session, pc, req, retired, owner>>

Next ==
  \/ \E r \in Requests :
       \/ Create(r) \/ GuestPage(r) \/ RedeemPage(r)
       \/ Open(r) \/ Find(r) \/ IssueActive(r) \/ CreateGuestClaimCode(r)
       \/ FindCode(r) \/ MarkGuestClaimCodeUsed(r) \/ RevokeRedeemed(r)
       \/ RevokeGuestClaimCode(r) \/ UpdateUser(r) \/ UpgradeGuestWithIdentity(r)
       \/ RevokeUser(r) \/ GiveUp(r)
  \/ JoinGroup \/ LeaveGroup \/ UpdateTheme \/ SignOut \/ SignIn \/ GrowOld
  \/ CleanupLock \/ CleanupCheck \/ CleanupCommit \/ CleanupFails

Spec == Init /\ [][Next]_vars

(* The maintenance worker runs the job again and again, and a job that can *)
(* commit time and again does not fail for ever.                           *)
FairSpec == Spec /\ WF_vars(CleanupLock) /\ SF_vars(CleanupCheck) /\ SF_vars(CleanupCommit)

-----------------------------------------------------------------------------
(* Every row and request has its type, and an account never has two active *)
(* codes, although instances race to issue one (GuestClaimService.Issue).  *)
TypeOK ==
  /\ mode \in Modes
  /\ account \in Account
  /\ member \in BOOLEAN
  /\ code \in [Codes -> {"none", "active", "revoked"}]
  /\ session \in [Sessions -> Session]
  /\ cleanup \in {"idle", "check", "commit"} /\ doomed \in BOOLEAN
  /\ pc \in [Requests -> Steps]
  /\ req \in [Requests -> Request]
  /\ retired \subseteq Codes
  /\ owner \in Requests \cup {None}
  /\ Cardinality(Active) <= 1

(* Once an upgrade has revoked the account's sessions, no browser is given *)
(* one that a code revoked before then opens, however late that redemption *)
(* is (GuestRedemptionService.Redeem against GuestUpgradeService.Upgrade). *)
OldCodeOpensNothing ==
  \A s \in Sessions : session[s].live /\ session[s].held => session[s].via \notin retired

(* What somebody owns is not taken away: of several upgrades under way one *)
(* gives the account its credentials and no other replaces them            *)
(* (UpdateUser's revision, UpgradeGuestWithIdentity), and the cleanup job  *)
(* deletes only an account that is at that moment still an old guest       *)
(* without a group, whatever joins and upgrades run beside it              *)
(* (DeleteEmptyAbandonedGuests).                                           *)
OwnersKeepTheirs ==
  [][/\ owner # None /\ account'.exists => owner' = owner
     /\ account.exists /\ ~account'.exists => account.guest /\ account.old /\ ~member]_vars

(* An abandoned guest does not stay: it is deleted, or somebody comes back *)
(* and it joins a group or is upgraded (the maintenance worker's cleanup). *)
(* A session that is still open does not keep it, as the comment on        *)
(* DeleteEmptyAbandonedGuests has it (store/postgres/guest.go:142-146);    *)
(* docs/backup-retention.md:26-28 says that cleanup deletes only guests    *)
(* with no sessions left to preserve, which the code does not look at.     *)
Abandoned == account.exists /\ account.guest /\ account.old /\ ~member
AbandonedGuestsGo == Abandoned ~> ~Abandoned
=============================================================================
