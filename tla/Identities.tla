----------------------------- MODULE Identities -----------------------------
(***************************************************************************)
(* Accounts and the identities of external providers linked to them.  A    *)
(* browser goes to the provider with a one-time state and comes back with a*)
(* profile: the callback signs the subject's account in, creates one, or   *)
(* links the subject to the account that asked for it.  In client mode the *)
(* single sign-on issuer is the only provider, its profile is copied onto  *)
(* the account, and an account from before is taken over when both sides   *)
(* vouch for its address.                                                  *)
(*                                                                         *)
(* Each step of a request is one statement or transaction of the database; *)
(* the provider's answer has no state here and is drawn with the read that *)
(* follows it.  Guests have no address and are not in this module.         *)
(*                                                                         *)
(* UpdateUser writes a row only at the revision its caller read.  Every    *)
(* write moves the revision on, so that is: nobody has written the row     *)
(* since.  A request carries just this, not the number.                    *)
(***************************************************************************)
EXTENDS Integers, FiniteSets

CONSTANTS
  Users,       \* account ids
  Emails,      \* addresses
  Subjects,    \* subjects of the providers
  States,      \* one-time states
  Browsers,    \* browsers
  Requests,    \* request slots
  Modes,       \* the modes explored: "local", "client"
  None         \* no account, address, state or request

ASSUME NoneAssumption == None \notin Users \cup Emails \cup Subjects \cup States
                                     \cup Browsers \cup Requests
ASSUME ModesAssumption == Modes \subseteq {"local", "client"}

VARIABLES
  mode,      \* the authentication mode of the deployment
  user,      \* users
  identity,  \* oauth_identities: the account a subject is linked to
  state,     \* oauth_states
  browser,   \* what each browser holds
  lock,      \* the request that holds an account's row FOR UPDATE
  pc,        \* the step each request takes next
  req,       \* what each request carries
  former,    \* addresses an account had, never vouched for, before it was edited
  vouched    \* history: the addresses that were vouched for, per account

vars == <<mode, user, identity, state, browser, lock, pc, req, former, vouched>>

User == [exists : BOOLEAN, email : Emails \cup {None}, verified : BOOLEAN,
         password : BOOLEAN]
NoUser == [exists |-> FALSE, email |-> None, verified |-> FALSE, password |-> FALSE]

(* A state with an account is a link state of it.  Consumed and expired    *)
(* states are alike: not open.                                             *)
State == [open : BOOLEAN, user : Users \cup {None}]
NoState == [open |-> FALSE, user |-> None]

Browser == [user : Users \cup {None}, cookie : States \cup {None}]

(* fresh: the row of user is still as this request read it.  ok: the       *)
(* account was created by this request, or it may lose the identity.       *)
Request == [op : {"none", "sign-in", "link", "unlink"}, browser : Browsers \cup {None},
            actor : Users \cup {None}, state : States \cup {None}, user : Users \cup {None},
            subject : Subjects \cup {None}, email : Emails \cup {None}, vouches : BOOLEAN,
            fresh : BOOLEAN, ok : BOOLEAN]
NoRequest == [op |-> "none", browser |-> None, actor |-> None, state |-> None, user |-> None,
              subject |-> None, email |-> None, vouches |-> FALSE, fresh |-> FALSE, ok |-> FALSE]

Steps == {"idle", "consume", "find", "lookup", "create", "owner", "attach", "verify",
          "refresh", "session", "check", "lock", "delete"}

(* At the start one account may exist, from before the deployment used its *)
(* providers: with a password, its address confirmed or not.               *)
LocalAccount(e, confirmed) ==
  [NoUser EXCEPT !.exists = TRUE, !.email = e, !.verified = confirmed, !.password = TRUE]

Init ==
  /\ mode \in Modes
  /\ LET none == [u \in Users |-> NoUser]
     IN  user \in {none} \cup {[none EXCEPT ![u] = LocalAccount(e, c)] :
                                 u \in Users, e \in Emails, c \in BOOLEAN}
  /\ identity = [s \in Subjects |-> None]
  /\ state = [s \in States |-> NoState]
  /\ browser = [b \in Browsers |-> [user |-> None, cookie |-> None]]
  /\ lock = [u \in Users |-> None]
  /\ pc = [r \in Requests |-> "idle"]
  /\ req = [r \in Requests |-> NoRequest]
  /\ former = [u \in Users |-> {}]
  /\ vouched = [u \in Users |-> IF user[u].verified THEN {user[u].email} ELSE {}]

-----------------------------------------------------------------------------
Goto(r, step) == pc' = [pc EXCEPT ![r] = step]

End(r) ==
  /\ Goto(r, "idle")
  /\ req' = [req EXCEPT ![r] = NoRequest]

Holders(e) == {u \in Users : user[u].exists /\ user[u].email = e}
LinkedTo(u) == {s \in Subjects : identity[s] = u}

(* Ids are interchangeable: any that nothing refers to will do.            *)
FreeUsers ==
  {u \in Users : ~user[u].exists /\ \A r \in Requests : u \notin {req[r].user, req[r].actor}}
FreeStates ==
  {s \in States : /\ \A b \in Browsers : browser[b].cookie # s
                  /\ \A r \in Requests : req[r].state # s}
Pick(S) == CHOOSE x \in S : TRUE

(* The account is settled: what is left is its session.                    *)
SessionNext(r, u) ==
  [NoRequest EXCEPT !.op = "sign-in", !.user = u, !.browser = req[r].browser]

ToSession(r, u) ==
  /\ Goto(r, "session")
  /\ req' = [req EXCEPT ![r] = SessionNext(r, u)]

(* The requests once the row of u is written.                              *)
Overtaken(u) ==
  [r \in Requests |-> IF req[r].user = u THEN [req[r] EXCEPT !.fresh = FALSE] ELSE req[r]]

(* OAuthSignInService.Start, SSOClientService.Start and StartLink: the     *)
(* state is stored and bound to the browser by a cookie.                   *)
Opened(b, u) ==
  /\ FreeStates # {}
  /\ LET s == Pick(FreeStates)
     IN  /\ state' = [state EXCEPT ![s] = [open |-> TRUE, user |-> u]]
         /\ browser' = [browser EXCEPT ![b].cookie = s]
  /\ UNCHANGED <<mode, user, identity, lock, pc, req, former, vouched>>

Start(b) == Opened(b, None)

StartLink(b) ==
  /\ mode = "local" /\ browser[b].user # None
  /\ Opened(b, browser[b].user)

(* oauthCallback and ssoCallback: the cookie must carry the state that came*)
(* back.  The answer clears it, maybe after the browser has asked again.   *)
Callback(r, b) ==
  /\ pc[r] = "idle" /\ browser[b].cookie # None
  /\ \E kept \in BOOLEAN : browser' = IF kept THEN browser ELSE [browser EXCEPT ![b].cookie = None]
  /\ Goto(r, "consume")
  /\ req' = [req EXCEPT ![r] = [NoRequest EXCEPT !.browser = b, !.actor = browser[b].user,
                                                 !.state = browser[b].cookie]]
  /\ UNCHANGED <<mode, user, identity, state, lock, former, vouched>>

(* Any browser that carries the state may complete the link.               *)
ActorUnchecked(r) == TRUE

(* A link completes only for the account that started it.                  *)
ActorMatches(r) ==
  LET owner == state[req[r].state].user IN owner # None => owner = req[r].actor

(* consumeCallbackState: the state is spent whether or not it fits, and    *)
(* one that has expired by now serves nobody.                              *)
ConsumeOAuthState(r) ==
  /\ pc[r] = "consume"
  /\ LET s == state[req[r].state]
     IN  /\ state' = [state EXCEPT ![req[r].state] = NoState]
         /\ \/ End(r)
            \/ /\ s.open /\ ActorMatches(r)
               /\ Goto(r, "find")
               /\ req' = [req EXCEPT ![r] =
                   IF s.user = None
                   THEN [NoRequest EXCEPT !.op = "sign-in", !.browser = req[r].browser]
                   ELSE [NoRequest EXCEPT !.op = "link", !.user = s.user, !.actor = req[r].actor]]
  /\ UNCHANGED <<mode, user, identity, browser, lock, former, vouched>>

(* What an exchange with the provider can answer: it vouches only for an   *)
(* address it names.                                                       *)
Profiles ==
  {p \in [subject : Subjects, email : Emails \cup {None}, vouches : BOOLEAN] :
     p.vouches => p.email # None}

(* exchangeOAuthProfile, then FindOAuthIdentity.  A first sign-in of local *)
(* mode needs an address the provider vouches for; to a link an address it *)
(* does not vouch for makes no difference.                                 *)
FindOAuthIdentity(r) ==
  /\ pc[r] = "find"
  /\ \E p \in Profiles :
       /\ req[r].op = "link" /\ ~p.vouches => p.email = None
       /\ LET s == p.subject
              known == [req EXCEPT ![r].subject = s, ![r].email = p.email, ![r].vouches = p.vouches]
          IN  \/ /\ req[r].op = "link" /\ identity[s] = None
                 /\ Goto(r, "owner") /\ req' = known
              \/ /\ req[r].op = "sign-in" /\ identity[s] # None
                 /\ IF mode = "client"
                    THEN /\ Goto(r, "owner")
                         /\ req' = [known EXCEPT ![r].user = identity[s], ![r].subject = None]
                    ELSE ToSession(r, identity[s])
              \/ /\ req[r].op = "sign-in" /\ identity[s] = None
                 /\ mode = "local" => p.vouches
                 /\ Goto(r, IF p.email = None THEN "create" ELSE "lookup") /\ req' = known
              \/ /\ \/ req[r].op = "link" /\ identity[s] # None
                    \/ req[r].op = "sign-in" /\ identity[s] = None /\ mode = "local" /\ ~p.vouches
                 /\ End(r)
  /\ UNCHANGED <<mode, user, identity, state, browser, lock, former, vouched>>

(* SSOClientService.account: an account from before is linked only when    *)
(* both sides vouch for the address.  Local mode never merges by address.  *)
MayTakeOver(r, u) == mode = "client" /\ req[r].vouches /\ user[u].verified

FindUserByEmail(r) ==
  /\ pc[r] = "lookup"
  /\ \/ Holders(req[r].email) = {} /\ Goto(r, "create") /\ UNCHANGED req
     \/ \E u \in Holders(req[r].email) :
          IF MayTakeOver(r, u)
          THEN Goto(r, "attach") /\ req' = [req EXCEPT ![r].user = u]
          ELSE End(r)
  /\ UNCHANGED <<mode, user, identity, state, browser, lock, former, vouched>>

Vouch(u, r) ==
  vouched' = [vouched EXCEPT ![u] = IF req[r].vouches THEN @ \cup {req[r].email} ELSE @]

(* The row is inserted without the unique index on its address.            *)
CreateUserUnindexed(r) ==
  /\ pc[r] = "create" /\ FreeUsers # {}
  /\ LET u == Pick(FreeUsers)
     IN  /\ user' = [user EXCEPT ![u] = [NoUser EXCEPT !.exists = TRUE, !.email = req[r].email,
                                                       !.verified = req[r].vouches]]
         /\ Vouch(u, r)
         /\ Goto(r, "attach") /\ req' = [req EXCEPT ![r].user = u, ![r].ok = TRUE]
  /\ UNCHANGED <<mode, identity, state, browser, lock, former>>

(* The first sign-in of a subject: the account first, its identity after.  *)
CreateUser(r) ==
  /\ pc[r] = "create"
  /\ IF req[r].email # None /\ Holders(req[r].email) # {}
     THEN End(r) /\ UNCHANGED <<user, vouched>>
     ELSE /\ FreeUsers # {}
          /\ LET u == Pick(FreeUsers)
             IN  /\ user' = [user EXCEPT ![u] = [NoUser EXCEPT !.exists = TRUE,
                                                   !.email = req[r].email,
                                                   !.verified = req[r].vouches]]
                 /\ Vouch(u, r)
                 /\ Goto(r, "attach") /\ req' = [req EXCEPT ![r].user = u, ![r].ok = TRUE]
  /\ UNCHANGED <<mode, identity, state, browser, lock, former>>

-----------------------------------------------------------------------------
(* A changed address keeps the mark of the old one.                        *)
RefreshedKeepsMark(r, row) ==
  IF req[r].email = None THEN row
  ELSE [row EXCEPT !.email = req[r].email, !.verified = req[r].vouches \/ row.verified]

(* SSOClientService.refresh: a changed address loses its mark, and the     *)
(* issuer's vouching sets it again.                                        *)
Refreshed(r, row) ==
  IF req[r].email = None THEN row
  ELSE [row EXCEPT !.email = req[r].email,
                   !.verified = req[r].vouches \/ (row.email = req[r].email /\ row.verified)]

(* A link confirms the address it matches, if it was not confirmed yet.    *)
Confirms(r, row) == req[r].vouches /\ row.email = req[r].email /\ ~row.verified

(* The row that a link, or a sign-in of client mode, reads before it goes  *)
(* on.  A sign-in writes it if the address, the mark or the name (not here)*)
(* has changed; a link that confirms nothing has no more use for it.       *)
FindUserByID(r) ==
  /\ pc[r] = "owner"
  /\ LET row == user[req[r].user]
     IN  \/ ~row.exists /\ End(r)
         \/ /\ row.exists /\ req[r].op = "sign-in" /\ Refreshed(r, row) = row
            /\ ToSession(r, req[r].user)
         \/ /\ row.exists /\ req[r].op = "sign-in"
            /\ Goto(r, "refresh")
            /\ req' = [req EXCEPT ![r].fresh = TRUE]
         \/ /\ row.exists /\ req[r].op = "link"
            /\ Goto(r, "attach")
            /\ req' = [req EXCEPT ![r] =
                         IF Confirms(r, row) THEN [@ EXCEPT !.fresh = TRUE]
                         ELSE [@ EXCEPT !.fresh = FALSE, !.email = None, !.vouches = FALSE]]
  /\ UNCHANGED <<mode, user, identity, state, browser, lock, former, vouched>>

(* The identity is inserted.  A link goes on to confirm the address; if the*)
(* row has moved on the update would be refused: the link stands alone.    *)
CreateOAuthIdentity(r) ==
  /\ pc[r] = "attach" /\ lock[req[r].user] = None
  /\ IF identity[req[r].subject] = None /\ user[req[r].user].exists
     THEN /\ identity' = [identity EXCEPT ![req[r].subject] = req[r].user]
          /\ \/ req[r].op = "sign-in" /\ ToSession(r, req[r].user)
             \/ req[r].op = "link" /\ req[r].fresh /\ Goto(r, "verify")
                /\ req' = [req EXCEPT ![r].subject = None]
             \/ req[r].op = "link" /\ ~req[r].fresh /\ End(r)
     ELSE End(r) /\ UNCHANGED identity
  /\ UNCHANGED <<mode, user, state, browser, lock, former, vouched>>

(* UpdateUser: the row is as it was read and the address is nobody else's. *)
Written(r, row) ==
  LET u == req[r].user
  IN  /\ req[r].fresh /\ user[u].exists /\ lock[u] = None
      /\ row.email = None \/ Holders(row.email) \subseteq {u}
      /\ user' = [user EXCEPT ![u] = row]
      /\ Vouch(u, r)

VerifyLinked(r) ==
  /\ pc[r] = "verify"
  /\ Written(r, [user[req[r].user] EXCEPT !.verified = TRUE])
  /\ Goto(r, "idle")
  /\ req' = [Overtaken(req[r].user) EXCEPT ![r] = NoRequest]
  /\ UNCHANGED <<mode, identity, state, browser, lock, former>>

(* A refresh that fails does not stop the sign-in.                         *)
Refresh(r) ==
  /\ pc[r] = "refresh" /\ mode = "client"
  /\ \/ /\ Written(r, Refreshed(r, user[req[r].user]))
        /\ req' = [Overtaken(req[r].user) EXCEPT ![r] = SessionNext(r, req[r].user)]
     \/ /\ UNCHANGED <<user, vouched>>
        /\ req' = [req EXCEPT ![r] = SessionNext(r, req[r].user)]
  /\ Goto(r, "session")
  /\ UNCHANGED <<mode, identity, state, browser, lock, former>>

(* Sessions.Create, and the answer that hands the session to the browser.  *)
(* Whom a browser is signed in as makes a difference only to links, so in  *)
(* client mode, which has none, it is not kept.                            *)
CreateSession(r) ==
  /\ pc[r] = "session" /\ user[req[r].user].exists
  /\ browser' = IF mode = "local" THEN [browser EXCEPT ![req[r].browser].user = req[r].user]
                ELSE browser
  /\ End(r)
  /\ UNCHANGED <<mode, user, identity, state, lock, former, vouched>>

-----------------------------------------------------------------------------
(* Unlink: a first look, then DeleteOAuthIdentity, one transaction that    *)
(* holds the account's row, counts, deletes and rolls back when that was   *)
(* the last way to sign in.                                                *)
Unlink(r, s) ==
  /\ pc[r] = "idle" /\ mode = "local" /\ identity[s] # None
  /\ Goto(r, "check")
  /\ req' = [req EXCEPT ![r] = [NoRequest EXCEPT !.op = "unlink", !.user = identity[s],
                                                 !.subject = s]]
  /\ UNCHANGED <<mode, user, identity, state, browser, lock, former, vouched>>

(* By the owner, from the settings page.                                   *)
UnlinkIdentity(r) ==
  \E s \in Subjects, b \in Browsers : browser[b].user = identity[s] /\ Unlink(r, s)

(* By an administrator, of whichever account; the audit entry is best      *)
(* effort.                                                                 *)
RemoveIdentity(r) == \E s \in Subjects : Unlink(r, s)

MayUnlink(u) == user[u].password \/ Cardinality(LinkedTo(u)) > 1

ListOAuthIdentities(r) ==
  /\ pc[r] = "check"
  /\ IF user[req[r].user].exists /\ req[r].subject # None /\ MayUnlink(req[r].user)
     THEN Goto(r, "lock") /\ UNCHANGED req
     ELSE End(r)
  /\ UNCHANGED <<mode, user, identity, state, browser, lock, former, vouched>>

(* The rows are counted without FOR UPDATE on the account.                 *)
CountIdentitiesUnlocked(r) ==
  /\ pc[r] = "lock" /\ user[req[r].user].exists
  /\ req' = [req EXCEPT ![r].ok = MayUnlink(req[r].user)]
  /\ Goto(r, "delete")
  /\ UNCHANGED <<mode, user, identity, state, browser, lock, former, vouched>>

CountIdentities(r) ==
  /\ pc[r] = "lock" /\ lock[req[r].user] = None /\ user[req[r].user].exists
  /\ lock' = [lock EXCEPT ![req[r].user] = r]
  /\ req' = [req EXCEPT ![r].ok = MayUnlink(req[r].user)]
  /\ Goto(r, "delete")
  /\ UNCHANGED <<mode, user, identity, state, browser, former, vouched>>

Unlocked(r) == [u \in Users |-> IF lock[u] = r THEN None ELSE lock[u]]

(* The id of a deleted row is not used again: another request that means it*)
(* finds nothing.                                                          *)
DeleteOAuthIdentity(r) ==
  /\ pc[r] = "delete"
  /\ LET s == req[r].subject
     IN  IF s # None /\ req[r].ok
         THEN /\ identity' = [identity EXCEPT ![s] = None]
              /\ req' = [q \in Requests |->
                           IF q = r THEN NoRequest
                           ELSE IF req[q].op = "unlink" /\ req[q].subject = s
                           THEN [req[q] EXCEPT !.subject = None] ELSE req[q]]
         ELSE UNCHANGED identity /\ req' = [req EXCEPT ![r] = NoRequest]
  /\ Goto(r, "idle")
  /\ lock' = Unlocked(r)
  /\ UNCHANGED <<mode, user, state, browser, former, vouched>>

(* A step finds that it cannot go on, fails, or the instance stops: what   *)
(* was committed stays, an open transaction is rolled back.                *)
GiveUp(r) ==
  /\ pc[r] # "idle"
  /\ End(r)
  /\ lock' = Unlocked(r)
  /\ UNCHANGED <<mode, user, identity, state, browser, former, vouched>>

-----------------------------------------------------------------------------
(* The rest of the system, as far as it writes these rows.                 *)
SignUp(e) ==
  /\ mode = "local" /\ Holders(e) = {} /\ FreeUsers # {}
  /\ user' = [user EXCEPT ![Pick(FreeUsers)] = LocalAccount(e, FALSE)]
  /\ UNCHANGED <<mode, identity, state, browser, lock, pc, req, former, vouched>>

(* Confirm: a link marks the address that the row has when it is followed. *)
(* It was mailed to e, the address the row had at the time: a link names   *)
(* the account only, lives on when the address changes, and another can be *)
(* had whenever one is used up or expires.  An administrator's             *)
(* confirmation is like a link to the present address.                     *)
ConfirmEmail(u, e) ==
  /\ mode = "local" /\ user[u].exists /\ user[u].email # None
  /\ ~user[u].verified /\ lock[u] = None
  /\ e \in former[u] \cup {user[u].email}
  /\ user' = [user EXCEPT ![u].verified = TRUE]
  /\ vouched' = [vouched EXCEPT ![u] = @ \cup {e}]
  /\ req' = Overtaken(u)
  /\ former' = [former EXCEPT ![u] = @ \ {e}]
  /\ UNCHANGED <<mode, identity, state, browser, lock, pc>>

(* A password reset, or an administrator's edit.  In client mode a password*)
(* opens nothing.                                                          *)
SetPassword(u) ==
  /\ mode = "local" /\ user[u].exists /\ ~user[u].password /\ lock[u] = None
  /\ user' = [user EXCEPT ![u].password = TRUE]
  /\ req' = Overtaken(u)
  /\ UNCHANGED <<mode, identity, state, browser, lock, pc, former, vouched>>

(* An administrator's change of the address leaves the confirmation mark   *)
(* and the mailed links as they are: whoever enters an address vouches.    *)
(* Client mode serves no links, so nothing comes of former addresses there.*)
EditEmail(u, e) ==
  /\ user[u].exists /\ user[u].email # e /\ Holders(e) = {} /\ lock[u] = None
  /\ user' = [user EXCEPT ![u].email = e]
  /\ former' = [former EXCEPT ![u] =
                  IF mode = "local" THEN (@ \cup {user[u].email}) \ (vouched[u] \cup {e, None})
                  ELSE @]
  /\ vouched' = [vouched EXCEPT ![u] = @ \cup {e}]
  /\ req' = Overtaken(u)
  /\ UNCHANGED <<mode, identity, state, browser, lock, pc>>

(* Identities, states and sessions go with the account (ON DELETE CASCADE).*)
DeleteUser(u) ==
  /\ user[u].exists /\ lock[u] = None
  /\ user' = [user EXCEPT ![u] = NoUser]
  /\ identity' = [s \in Subjects |-> IF identity[s] = u THEN None ELSE identity[s]]
  /\ state' = [s \in States |-> IF state[s].user = u THEN NoState ELSE state[s]]
  /\ browser' = [b \in Browsers |-> IF browser[b].user = u THEN [browser[b] EXCEPT !.user = None]
                                    ELSE browser[b]]
  /\ req' = [r \in Requests |-> IF req[r].op = "unlink" /\ req[r].user = u
                                THEN [req[r] EXCEPT !.subject = None] ELSE Overtaken(u)[r]]
  /\ former' = [former EXCEPT ![u] = {}]
  /\ vouched' = [vouched EXCEPT ![u] = {}]
  /\ UNCHANGED <<mode, lock, pc>>

SignInWithPassword(b, u) ==
  /\ mode = "local" /\ user[u].exists /\ user[u].password /\ browser[b].user = None
  /\ browser' = [browser EXCEPT ![b].user = u]
  /\ UNCHANGED <<mode, user, identity, state, lock, pc, req, former, vouched>>

SignOut(b) ==
  /\ browser[b].user # None
  /\ browser' = [browser EXCEPT ![b].user = None]
  /\ UNCHANGED <<mode, user, identity, state, lock, pc, req, former, vouched>>

Next ==
  \/ \E b \in Browsers : Start(b) \/ StartLink(b) \/ SignOut(b)
  \/ \E r \in Requests :
       \/ \E b \in Browsers : Callback(r, b)
       \/ ConsumeOAuthState(r) \/ FindOAuthIdentity(r) \/ FindUserByEmail(r) \/ CreateUser(r)
       \/ FindUserByID(r) \/ CreateOAuthIdentity(r) \/ VerifyLinked(r) \/ Refresh(r)
       \/ CreateSession(r) \/ UnlinkIdentity(r) \/ RemoveIdentity(r)
       \/ ListOAuthIdentities(r) \/ CountIdentities(r)
       \/ DeleteOAuthIdentity(r) \/ GiveUp(r)
  \/ \E e \in Emails : SignUp(e)
  \/ \E u \in Users :
       \/ SetPassword(u) \/ DeleteUser(u)
       \/ \E e \in Emails : ConfirmEmail(u, e) \/ EditEmail(u, e)
       \/ \E b \in Browsers : SignInWithPassword(b, u)

Spec == Init /\ [][Next]_vars

-----------------------------------------------------------------------------
(* Every row and request has its type, no two accounts share an address,   *)
(* and every identity belongs to an account that exists, although sign-ins *)
(* race to create both (CreateUser, CreateOAuthIdentity).                  *)
TypeOK ==
  /\ mode \in Modes
  /\ user \in [Users -> User]
  /\ identity \in [Subjects -> Users \cup {None}]
  /\ state \in [States -> State]
  /\ browser \in [Browsers -> Browser]
  /\ lock \in [Users -> Requests \cup {None}]
  /\ pc \in [Requests -> Steps]
  /\ req \in [Requests -> Request]
  /\ former \in [Users -> SUBSET Emails]
  /\ vouched \in [Users -> SUBSET Emails]
  /\ \A e \in Emails : Cardinality(Holders(e)) <= 1
  /\ \A s \in Subjects : identity[s] # None => user[identity[s]].exists

(* A confirmed address is one that a provider vouched for, that read a     *)
(* mailed link, or that an administrator confirmed or entered, for this    *)
(* account: no sequence of refreshes, links and edits moves the mark to any*)
(* other address (refresh, linkProfile, Confirm).  It does not say that    *)
(* somebody reads the mail of an entered address: a link mailed before the *)
(* administrator's change marks the new address as well.                   *)
VerifiedMeansVouched ==
  \A u \in Users : user[u].verified => user[u].email \in vouched[u]

(* An account somebody can sign in to keeps a way in as long as it exists, *)
(* however its owner and the administrators remove identities side by side *)
(* (Unlink, DeleteOAuthIdentity).                                          *)
HasWayIn(u) == user[u].exists /\ (user[u].password \/ LinkedTo(u) # {})
KeepsWayIn == [][\A u \in Users : HasWayIn(u) /\ user'[u].exists => HasWayIn(u)']_vars

(* A subject is linked to an account only if the account was created for   *)
(* it, or asked for it in the browser that came back, or had confirmed the *)
(* address that the issuer vouches for (CompleteCallback, account).        *)
LinkedByOwner ==
  [][\A s \in Subjects :
       identity[s] = None /\ identity'[s] # None =>
         \E r \in Requests :
           /\ pc[r] = "attach" /\ req[r].subject = s /\ req[r].user = identity'[s]
           /\ \/ req[r].op = "link" /\ req[r].actor = req[r].user
              \/ req[r].op = "sign-in" /\ req[r].ok
              \/ req[r].op = "sign-in" /\ req[r].vouches
                 /\ req[r].email \in vouched[req[r].user]]_vars
=============================================================================
