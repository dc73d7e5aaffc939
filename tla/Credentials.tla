---------------------------- MODULE Credentials ----------------------------
(***************************************************************************)
(* The credentials of one account and its sessions: SignInService, the     *)
(* sign-in through an identity of OAuthSignInService and SSOClientService, *)
(* PasswordSettingsService, PasswordResetService and its consumer,         *)
(* EmailConfirmationService with its resender, the administrator's         *)
(* password reset, confirmation, session revocation and deletion, and      *)
(* SessionService over the users, sessions and token tables.               *)
(*                                                                         *)
(* One account is enough: every statement names one user's rows and the    *)
(* sessions lock is per user.  A password hash is named by the count of    *)
(* password writes (hashes are salted, so no two are equal); 0 is no       *)
(* password.  A session that was revoked or has expired cannot be told     *)
(* from one that never was, and its slot is used again when no request     *)
(* names it.                                                               *)
(*                                                                         *)
(* A deployment serves passwords and links (local mode) or refreshes the   *)
(* account from its issuer (client mode, "sso").  Accounts outlive a move  *)
(* from one mode to the other, so the operations may meet.                 *)
(***************************************************************************)
EXTENDS Integers

CONSTANTS
  Sessions,              \* session ids
  Links,                 \* emailed reset and confirmation tokens
  Requests,              \* request slots, reused when a request has ended
  Ops,                   \* the operations requests may be for
  ConfirmationRequired,  \* GOWEB_EMAIL_CONFIRMATION_REQUIRED
  MaxVersion,            \* bound: no write is submitted from a later revision
  None                   \* no session, no link, no lock holder

AllOps == {"signIn", "signOut", "changePassword", "forgot", "redeem", "resend", "confirm",
           "external", "sso", "adminReset", "adminConfirm", "adminSend", "adminRevoke",
           "adminDelete"}

ASSUME SessionsAssumption == None \notin Sessions
ASSUME LinksAssumption == None \notin Links
ASSUME RequestsAssumption == None \notin Requests
ASSUME OpsAssumption == Ops \subseteq AllOps
ASSUME ConfirmationAssumption == ConfirmationRequired \in BOOLEAN
ASSUME MaxVersionAssumption == MaxVersion \in Nat

VARIABLES
  account,  \* the account's row
  session,  \* the sessions table
  link,     \* email_verification_tokens and password_reset_tokens
  lock,     \* holder of pg_advisory_xact_lock('goweb:sessions:' || user)
  pc,       \* the step each request takes next
  req       \* what each request was sent and has read

vars == <<account, session, link, lock, pc, req>>

Account == [exists : BOOLEAN, password : Nat, verified : BOOLEAN, version : Nat]

Session == [state : {"none", "pending", "live"}, recent : BOOLEAN]

Link == [state : {"none", "active", "spent"}, kind : {"reset", "confirm"}]

Steps == {"idle", "consume", "find", "issue", "write", "refresh", "revoke", "remove",
          "create", "commit", "signOut"}

Request == [op : AllOps \cup {"none"}, session : Sessions \cup {None},
            link : Links \cup {None}, password : Nat, expected : Nat, seen : Account]

NoAccount == [exists |-> FALSE, password |-> 0, verified |-> FALSE, version |-> 0]
NoSession == [state |-> "none", recent |-> FALSE]
NoLink == [state |-> "none", kind |-> "reset"]

Form(op, s, l, password, expected) ==
  [session |-> s, link |-> l, password |-> password, op |-> op, expected |-> expected,
   seen |-> NoAccount]

NoRequest == Form("none", None, None, 0, 0)

(* A password account nobody has signed in to yet, an account from an      *)
(* external provider with its first session, or a guest who has just       *)
(* upgraded: GuestUpgradeService sets the password and opens a session     *)
(* before the address is confirmed, whatever ConfirmationRequired says.    *)
Init ==
  /\ \E p \in {0, 1}, v \in BOOLEAN :
       account = [exists |-> TRUE, password |-> p, verified |-> v, version |-> 0]
  /\ \/ account.password = 1 /\ session = [s \in Sessions |-> NoSession]
     \/ \E first \in Sessions :
          session = [s \in Sessions |-> IF s = first THEN [state |-> "live", recent |-> TRUE]
                                        ELSE NoSession]
  /\ link = [l \in Links |-> NoLink]
  /\ lock = None
  /\ pc = [r \in Requests |-> "idle"]
  /\ req = [r \in Requests |-> NoRequest]

-----------------------------------------------------------------------------
Goto(r, step) == pc' = [pc EXCEPT ![r] = step]

End(r) ==
  /\ Goto(r, "idle")
  /\ req' = [req EXCEPT ![r] = NoRequest]

(* Session.Lookup: neither revoked nor expired.                            *)
Live(s) == s \in Sessions /\ session[s].state = "live"

Start(r, step, request) ==
  /\ pc[r] = "idle"
  /\ request.op \in Ops
  /\ Goto(r, step)
  /\ req' = [req EXCEPT ![r] = request]
  /\ UNCHANGED <<account, session, link, lock>>

(* The bound on revisions, for requests that will write the row.           *)
Room == account.version < MaxVersion

(* The visitor knows the password that is right as the form is sent, if    *)
(* there is one.                                                           *)
SignInRequest(r) == Start(r, "find", Form("signIn", None, None, account.password, 0))

(* The callback of a provider, or of the issuer in client mode, for an     *)
(* identity that is linked to the account.                                 *)
IdentityRequest(r) ==
  \E op \in {"external", "sso"} :
    /\ op = "sso" => Room
    /\ Start(r, "find", Form(op, None, None, 0, 0))

(* The settings form of a signed-in browser.                               *)
ChangePasswordRequest(r) ==
  /\ Room
  /\ \E s \in Sessions :
       /\ Live(s)
       /\ Start(r, "find", Form("changePassword", s, None, account.password, 0))

SignOutRequest(r) ==
  \E s \in Sessions : Live(s) /\ Start(r, "signOut", Form("signOut", s, None, 0, 0))

MailRequest(r) == \E op \in {"forgot", "resend"} : Start(r, "find", Form(op, None, None, 0, 0))

(* A link is followed any number of times, used or not.                    *)
LinkRequest(r) ==
  /\ Room
  /\ \E l \in Links :
       /\ link[l].state # "none"
       /\ Start(r, "consume", Form(IF link[l].kind = "reset" THEN "redeem" ELSE "confirm",
                                   None, l, 0, 0))

(* Administrator pages; the edit and delete forms carry the revision they  *)
(* were rendered with.                                                     *)
AdminRequest(r) ==
  \E op \in {"adminReset", "adminConfirm", "adminSend", "adminRevoke", "adminDelete"} :
    /\ op \in {"adminReset", "adminConfirm"} => Room
    /\ account.exists
    /\ Start(r, "find", Form(op, None, None, 0, account.version))

-----------------------------------------------------------------------------
(* The link is read, and marked used in a later statement: a second        *)
(* request gets by.                                                        *)
ConsumeUnchecked(r) ==
  /\ pc[r] = "consume"
  /\ link' = [link EXCEPT ![req[r].link].state = "spent"]
  /\ Goto(r, "find")
  /\ UNCHANGED <<req, account, session, lock>>

(* Consume{EmailConfirmation,PasswordReset}Token: one UPDATE of an active  *)
(* row.                                                                    *)
Consume(r) ==
  /\ pc[r] = "consume"
  /\ IF link[req[r].link].state = "active"
     THEN /\ link' = [link EXCEPT ![req[r].link].state = "spent"]
          /\ Goto(r, "find")
          /\ UNCHANGED req
     ELSE End(r) /\ UNCHANGED link
  /\ UNCHANGED <<account, session, lock>>

(* verifyCurrent: the current password, or without one a session from the  *)
(* last RecentSignInWindow.  That session is looked up in a statement of   *)
(* its own after the row is read; here the two reads are one step.         *)
VerifyCurrent(r) ==
  IF account.password = 0
  THEN Live(req[r].session) /\ session[req[r].session].recent
  ELSE req[r].password = account.password

(* SignIn: a password account, the right password, a confirmed email.      *)
SignInAdmitted(r) ==
  /\ account.password > 0
  /\ req[r].password = account.password
  /\ ConfirmationRequired => account.verified

(* A reset link is only mailed for an account that has a password.         *)
ResetMailed == account.password > 0

(* Resend skips a confirmed email, which SendConfirmation does not.        *)
ConfirmationMailed == ~account.verified

(* ConfirmEmail by an administrator.                                       *)
ConfirmAdmitted == ~account.verified

(* The checks each service makes on the row it has read.                   *)
Admitted(r) ==
  /\ account.exists
  /\ CASE req[r].op = "signIn" -> SignInAdmitted(r)
       [] req[r].op = "changePassword" -> VerifyCurrent(r)
       [] req[r].op = "forgot" -> ResetMailed
       [] req[r].op = "resend" -> ConfirmationMailed
       [] req[r].op = "adminConfirm" -> ConfirmAdmitted
       [] OTHER -> TRUE

AfterFind(op) ==
  CASE op \in {"signIn", "external"} -> "create"
    [] op = "sso" -> "refresh"
    [] op \in {"forgot", "resend", "adminSend"} -> "issue"
    [] op \in {"adminRevoke", "adminDelete"} -> "revoke"
    [] OTHER -> "write"

(* FindUserByID or FindUserByEmail and the service's checks.  The write    *)
(* expects the revision read, the administrator's edit and delete the      *)
(* revision shown.                                                         *)
FindUser(r) ==
  /\ pc[r] = "find"
  /\ IF Admitted(r)
     THEN /\ req' = [req EXCEPT ![r].seen = account,
                       ![r].expected = IF req[r].op \in {"adminReset", "adminDelete"}
                                       THEN @ ELSE account.version]
          /\ Goto(r, AfterFind(req[r].op))
     ELSE End(r)
  /\ UNCHANGED <<account, session, link, lock>>

(* matchesCurrent: a new password that equals the current one is answered  *)
(* without a write.                                                        *)
MatchesCurrent(r) ==
  /\ pc[r] = "write"
  /\ req[r].op = "changePassword"
  /\ req[r].seen.password > 0
  /\ End(r)
  /\ UNCHANGED <<account, session, link, lock>>

(* Create{EmailConfirmation,PasswordReset}Token, then the mail.            *)
IssueLink(r) ==
  /\ pc[r] = "issue"
  /\ \E l \in Links :
       /\ link[l].state = "none"
       /\ IF account.exists
          THEN link' = [link EXCEPT ![l] =
                          [state |-> "active",
                           kind |-> IF req[r].op = "forgot" THEN "reset" ELSE "confirm"]]
          ELSE UNCHANGED link
  /\ End(r)
  /\ UNCHANGED <<account, session, lock>>

SetsPassword(op) == op \in {"changePassword", "redeem", "adminReset"}

(* version = version - 1, from a row that may be at revision 0.            *)
NewRowBackwards(r) ==
  [exists |-> TRUE,
   password |-> IF SetsPassword(req[r].op) THEN account.password + 1 ELSE req[r].seen.password,
   verified |-> req[r].seen.verified \/ req[r].op \in {"confirm", "adminConfirm"},
   version |-> account.version - 1]

(* The whole row as read, with the password replaced or the email          *)
(* confirmed.                                                              *)
NewRow(r) ==
  [exists |-> TRUE,
   password |-> IF SetsPassword(req[r].op) THEN account.password + 1 ELSE req[r].seen.password,
   verified |-> req[r].seen.verified \/ req[r].op \in {"confirm", "adminConfirm"},
   version |-> account.version + 1]

(* WHERE id, without the revision.                                         *)
CurrentUnchecked(r) == account.exists

(* WHERE id AND version.                                                   *)
Current(r) == account.exists /\ account.version = req[r].expected

UpdateUser(r) ==
  /\ pc[r] = "write"
  /\ IF Current(r)
     THEN /\ account' = NewRow(r)
          /\ IF SetsPassword(req[r].op)
             THEN Goto(r, "revoke") /\ UNCHANGED req
             ELSE End(r)
     ELSE End(r) /\ UNCHANGED account
  /\ UNCHANGED <<session, link, lock>>

(* refresh: the issuer's address and name, written over the row as read.   *)
(* A new address loses the mark unless the issuer vouches for it.  Nothing *)
(* to write, or a write that fails, does not stop the sign-in.             *)
Refresh(r) ==
  /\ pc[r] = "refresh"
  /\ \/ UNCHANGED account
     \/ /\ Current(r)
        /\ \E readdressed, vouches \in BOOLEAN :
             account' = [req[r].seen EXCEPT
                           !.verified = vouches \/ (@ /\ ~readdressed),
                           !.version = account.version + 1]
  /\ Goto(r, "create")
  /\ UNCHANGED <<session, link, lock, req>>

(* RevokeUserSessions: under the lock, one UPDATE of the rows it can see.  *)
RevokeUser(r) ==
  /\ pc[r] = "revoke"
  /\ lock = None
  /\ session' = [s \in Sessions |-> IF session[s].state = "live" THEN NoSession ELSE session[s]]
  /\ CASE req[r].op = "changePassword" -> Goto(r, "create") /\ UNCHANGED req
       [] req[r].op = "adminDelete" -> Goto(r, "remove") /\ UNCHANGED req
       [] OTHER -> End(r)
  /\ UNCHANGED <<account, link, lock>>

(* DELETE FROM users, with the rows that hang on it.  It waits for an      *)
(* uncommitted session insert, whose foreign key holds the account row.    *)
DeleteUser(r) ==
  /\ pc[r] = "remove"
  /\ \A s \in Sessions : session[s].state # "pending"
  /\ IF Current(r)
     THEN /\ account' = [account EXCEPT !.exists = FALSE]
          /\ session' = [s \in Sessions |-> NoSession]
          /\ link' = [l \in Links |-> NoLink]
     ELSE UNCHANGED <<account, session, link>>
  /\ End(r)
  /\ UNCHANGED <<lock>>

(* The insert without lockUserSessions.                                    *)
CreateSessionUnlocked(r) ==
  /\ pc[r] = "create"
  /\ account.exists
  /\ \E s \in Sessions :
       /\ session[s].state = "none"
       /\ \A q \in Requests : req[q].session # s
       /\ session' = [session EXCEPT ![s] = [state |-> "pending", recent |-> TRUE]]
       /\ req' = [req EXCEPT ![r].session = s]
  /\ Goto(r, "commit")
  /\ UNCHANGED <<account, link, lock>>

(* CreateSession: the lock and the insert, which no other request sees     *)
(* until it is committed.  The foreign key refuses a deleted account.      *)
CreateSession(r) ==
  /\ pc[r] = "create"
  /\ lock = None
  /\ IF account.exists
     THEN \E s \in Sessions :
            /\ session[s].state = "none"
            /\ \A q \in Requests : req[q].session # s
            /\ session' = [session EXCEPT ![s] = [state |-> "pending", recent |-> TRUE]]
            /\ req' = [req EXCEPT ![r].session = s]
            /\ lock' = r
            /\ Goto(r, "commit")
     ELSE End(r) /\ UNCHANGED <<session, lock>>
  /\ UNCHANGED <<account, link>>

(* A connection that goes back to the pool with the lock still held.       *)
CommitSessionKeepsLock(r) ==
  /\ pc[r] = "commit"
  /\ session' = [session EXCEPT ![req[r].session].state = "live"]
  /\ End(r)
  /\ UNCHANGED <<account, link, lock>>

CommitSession(r) ==
  /\ pc[r] = "commit"
  /\ session' = [session EXCEPT ![req[r].session].state = "live"]
  /\ lock' = None
  /\ End(r)
  /\ UNCHANGED <<account, link>>

(* SessionService.SignOut: RevokeSession, without the lock.                *)
SignOut(r) ==
  /\ pc[r] = "signOut"
  /\ session' = [session EXCEPT ![req[r].session] =
                   IF Live(req[r].session) THEN NoSession ELSE @]
  /\ End(r)
  /\ UNCHANGED <<account, link, lock>>

(* A statement fails or the client goes away.  Earlier statements have     *)
(* been committed on their own; only an open transaction rolls back.       *)
Fail(r) ==
  /\ pc[r] # "idle"
  /\ IF pc[r] = "commit"
     THEN session' = [session EXCEPT ![req[r].session] = NoSession] /\ lock' = None
     ELSE UNCHANGED <<session, lock>>
  /\ End(r)
  /\ UNCHANGED <<account, link>>

-----------------------------------------------------------------------------
(* Time: a session leaves RecentSignInWindow and later expires; a link     *)
(* expires, and maintenance deletes spent ones.                            *)
AgeSession(s) ==
  /\ session[s].state = "live"
  /\ session' = [session EXCEPT ![s] = IF @.recent THEN [@ EXCEPT !.recent = FALSE]
                                       ELSE NoSession]
  /\ UNCHANGED <<account, link, lock, pc, req>>

ExpireLink(l) ==
  /\ link[l].state = "active"
  /\ link' = [link EXCEPT ![l].state = "spent"]
  /\ UNCHANGED <<account, session, lock, pc, req>>

PurgeLink(l) ==
  /\ link[l].state = "spent"
  /\ \A r \in Requests : req[r].link # l
  /\ link' = [link EXCEPT ![l] = NoLink]
  /\ UNCHANGED <<account, session, lock, pc, req>>

-----------------------------------------------------------------------------
Submit(r) ==
  \/ SignInRequest(r)
  \/ IdentityRequest(r)
  \/ ChangePasswordRequest(r)
  \/ SignOutRequest(r)
  \/ MailRequest(r)
  \/ LinkRequest(r)
  \/ AdminRequest(r)

Step(r) ==
  \/ Consume(r)
  \/ FindUser(r)
  \/ MatchesCurrent(r)
  \/ IssueLink(r)
  \/ UpdateUser(r)
  \/ Refresh(r)
  \/ RevokeUser(r)
  \/ DeleteUser(r)
  \/ CreateSession(r)
  \/ CommitSession(r)
  \/ SignOut(r)

Tick ==
  \/ \E s \in Sessions : AgeSession(s)
  \/ \E l \in Links : ExpireLink(l) \/ PurgeLink(l)

Next ==
  \/ \E r \in Requests : Submit(r) \/ Step(r) \/ Fail(r)
  \/ Tick

Spec == Init /\ [][Next]_vars

(* A request that can go on does, also when it shares the lock: waiters    *)
(* for an advisory lock are served in turn.  Sessions expire.              *)
Fairness ==
  /\ \A r \in Requests : SF_vars(Step(r))
  /\ \A s \in Sessions : WF_vars(AgeSession(s))

FairSpec == Spec /\ Fairness

-----------------------------------------------------------------------------
(* Properties                                                              *)

(* The account, its sessions and links, the lock and the requests are well *)
(* formed; UpdateUser never takes a revision or a password below zero.     *)
TypeOK ==
  /\ account \in Account
  /\ session \in [Sessions -> Session]
  /\ link \in [Links -> Link]
  /\ lock \in Requests \cup {None}
  /\ pc \in [Requests -> Steps]
  /\ req \in [Requests -> Request]

(* RevokeUserSessions "revokes every session": when it ends one, no        *)
(* session is left, not even one whose insert is not committed yet and     *)
(* which its UPDATE cannot see.                                            *)
RevokeReachesAll ==
  [][\A r \in Requests :
       /\ pc[r] = "revoke" /\ pc'[r] # "revoke"
       /\ \E s \in Sessions : session[s].state = "live" /\ session'[s].state # "live"
       => \A s \in Sessions : session'[s].state = "none"]_vars

(* "can be used once": of any number of requests that follow a link one    *)
(* gets past Consume, and the link is spent from then on.                  *)
LinkUsedOnce ==
  \A r \in Requests :
    req[r].link # None /\ pc[r] # "consume" =>
      /\ link[req[r].link].state # "active"
      /\ \A q \in Requests \ {r} : req[q].link = req[r].link => pc[q] = "consume"

(* "verifies the current password": the password that settings replace is  *)
(* the one that was verified, not one set since.                           *)
ReplacedPasswordVerified ==
  [][\A r \in Requests :
       pc[r] = "write" /\ req[r].op = "changePassword" /\ account' # account
       /\ pc'[r] # "write" => req[r].seen.password = account.password]_vars

(* Every UPDATE writes the whole row, the confirmation mark included.  An  *)
(* address that has been confirmed stays so: no password change, reset,    *)
(* edit or sign-in that read the row before the confirmation writes it     *)
(* back unconfirmed.  Only the client's refresh takes a mark away, for a   *)
(* new address, and from the very row it has read.                         *)
ConfirmationKept ==
  [][account.verified /\ ~account'.verified =>
       \E r \in Requests :
         /\ pc[r] = "refresh" /\ pc'[r] = "create"
         /\ req[r].seen = account]_vars

(* Every request is answered, though changing a password, revoking and     *)
(* signing in all wait for the account's sessions lock.                    *)
EveryRequestAnswered == \A r \in Requests : pc[r] # "idle" ~> pc[r] = "idle"

(* A session counts from its insert on, committed or not.                  *)
Promise == INSTANCE AccountSessions WITH
             exists <- account.exists,
             open <- {s \in Sessions : session[s].state # "none"}

(* The services implement the promise about an account's sessions: no      *)
(* interleaving of their statements opens a session on an account that is  *)
(* gone, or revokes some of the sessions and leaves one (CreateSession,    *)
(* RevokeUserSessions, DeleteUser).                                        *)
ImplementsSessions == Promise!Spec
=============================================================================
