-------------------------------- MODULE Sso ---------------------------------
(***************************************************************************)
(* Single sign-on between the provider deployment, which holds the         *)
(* accounts, and a client deployment, through Hydra.  One account and one  *)
(* browser: its sign-ins to the client, its sign-outs, and the revocations *)
(* with which administrators, password changes and deletions end all of    *)
(* its sessions.                                                           *)
(*                                                                         *)
(* Hydra is external: it keeps login sessions (sids), remembers one for the*)
(* browser, asks the provider on every sign-in, and tells the client of an *)
(* ended session with a signed token that may be late, lost or refused.    *)
(* Whether it still completes a sign-in whose login session has ended is   *)
(* left open.                                                              *)
(***************************************************************************)
EXTENDS Integers, FiniteSets

CONSTANTS
  Sids,      \* Hydra login sessions
  Flows,     \* sign-ins to the client under way
  Revokers,  \* callers of SessionService.RevokeUser
  None       \* no sid

ASSUME NoneAssumption == None \notin Sids

VARIABLES
  account,     \* the users row at the provider
  local,       \* the browser's own session at the provider
  hydra,       \* Hydra's login sessions
  remembered,  \* the one Hydra remembers for the browser
  granted,     \* the login sessions under which the client was granted consent
  record,      \* sso_login_sessions at the provider
  client,      \* the client's live sessions, by the sid they are bound to
  pc, sid,     \* the step and login session of each sign-in
  logout,      \* sids whose sign-out the provider is about to accept
  rpc, todo,   \* the step of each revocation, and the sids it has yet to end
  failed,      \* one of its calls failed
  deleting,    \* it is the first half of an account's deletion
  owed,        \* history: the live granted sids when the revocation was first asked for
  forgotten    \* history: live sids whose record a sign-out deleted

flowVars == <<pc, sid>>
revokeVars == <<rpc, todo, failed, deleting, owed>>
hydraVars == <<hydra, remembered, granted>>
vars == <<account, local, hydraVars, record, client, flowVars, logout, forgotten, revokeVars>>

FlowSteps == {"idle", "form", "complete", "consent", "record", "accept", "exchange"}
RevokeSteps == {"idle", "list", "each", "forget", "consents", "delete"}

Init ==
  /\ account \in {"unconfirmed", "ok"}
  /\ local = FALSE
  /\ hydra = [s \in Sids |-> "none"]
  /\ remembered = None
  /\ granted = {}
  /\ record = {}
  /\ client = {}
  /\ pc = [f \in Flows |-> "idle"]
  /\ sid = [f \in Flows |-> None]
  /\ logout = {}
  /\ forgotten = {}
  /\ rpc = [v \in Revokers |-> "idle"]
  /\ todo = [v \in Revokers |-> {}]
  /\ failed = [v \in Revokers |-> FALSE]
  /\ deleting = [v \in Revokers |-> FALSE]
  /\ owed = [v \in Revokers |-> {}]

Live == {s \in Sids : hydra[s] = "live"}

-----------------------------------------------------------------------------
(* The sign-in.  eligibleUser: the account exists and is confirmed.        *)
Eligible == account = "ok"

Goto(f, step) == pc' = [pc EXCEPT ![f] = step]
End(f) == Goto(f, "idle") /\ sid' = [sid EXCEPT ![f] = None]

(* AcceptLogin for a subject that Hydra does not remember opens a login    *)
(* session, which the browser keeps.                                       *)
NewLogin(f) ==
  LET fresh == {s \in Sids : hydra[s] = "none"}
      s == CHOOSE s \in fresh : TRUE
  IN  /\ fresh # {}
      /\ hydra' = [hydra EXCEPT ![s] = "live"]
      /\ remembered' = s
      /\ sid' = [sid EXCEPT ![f] = s]
      /\ Goto(f, "consent")

(* BeginLogin, when the client has sent the browser to Hydra: a session    *)
(* that Hydra remembers must be accepted or refused; otherwise the         *)
(* browser's own session will do, or the visitor must sign in.             *)
BeginLogin(f) ==
  /\ pc[f] = "idle"
  /\ \/ /\ remembered \in Live /\ Eligible
        /\ sid' = [sid EXCEPT ![f] = remembered] /\ Goto(f, "consent")
        /\ UNCHANGED <<hydra, remembered>>
     \/ /\ remembered \in Live /\ ~Eligible
        /\ End(f) /\ UNCHANGED <<hydra, remembered>>
     \/ /\ remembered \notin Live /\ local /\ Eligible
        /\ NewLogin(f)
     \/ /\ remembered \notin Live /\ ~(local /\ Eligible)
        /\ Goto(f, "form") /\ UNCHANGED <<sid, hydra, remembered>>
  /\ UNCHANGED <<account, local, granted, record, client, logout, forgotten, revokeVars>>

(* The visitor signs in at the provider; the challenge waits in a cookie.  *)
SignIn(f) ==
  /\ pc[f] = "form" /\ Eligible
  /\ local' = TRUE
  /\ Goto(f, "complete")
  /\ UNCHANGED <<account, hydraVars, record, client, sid, logout, forgotten, revokeVars>>

CompleteLogin(f) ==
  /\ pc[f] = "complete"
  /\ IF local /\ Eligible THEN NewLogin(f) ELSE End(f) /\ UNCHANGED <<hydra, remembered>>
  /\ UNCHANGED <<account, local, granted, record, client, logout, forgotten, revokeVars>>

(* Consent: look at the account again, record the sid, grant.  Without the *)
(* record the sign-in does not proceed.  Hydra names a login session in    *)
(* every consent request, since every login it was told to accept was to be*)
(* remembered; what Consent does for a request without one, to grant it    *)
(* unrecorded, is not modelled.                                            *)
Consent(f) ==
  /\ pc[f] = "consent"
  /\ IF Eligible THEN Goto(f, "record") /\ UNCHANGED sid ELSE End(f)
  /\ UNCHANGED <<account, local, hydraVars, record, client, logout, forgotten, revokeVars>>

(* The row is inserted although its account is gone.                       *)
RecordWithoutAccount(f) ==
  /\ pc[f] = "record"
  /\ record' = record \cup {sid[f]}
  /\ Goto(f, "accept")
  /\ UNCHANGED <<account, local, hydraVars, client, sid, logout, forgotten, revokeVars>>

RecordSSOLoginSession(f) ==
  /\ pc[f] = "record" /\ account # "deleted"
  /\ record' = record \cup {sid[f]}
  /\ Goto(f, "accept")
  /\ UNCHANGED <<account, local, hydraVars, client, sid, logout, forgotten, revokeVars>>

(* The sign-in goes on although recording failed.                          *)
AcceptConsentUnrecorded(f) ==
  /\ pc[f] \in {"record", "accept"}
  /\ granted' = granted \cup {sid[f]}
  /\ Goto(f, "exchange")
  /\ UNCHANGED <<account, local, hydra, remembered, record, client, sid, logout,
                 forgotten, revokeVars>>

AcceptConsent(f) ==
  /\ pc[f] = "accept"
  /\ granted' = granted \cup {sid[f]}
  /\ Goto(f, "exchange")
  /\ UNCHANGED <<account, local, hydra, remembered, record, client, sid, logout,
                 forgotten, revokeVars>>

(* SSOClientService.Callback: the code is redeemed, the ID token verified  *)
(* and a session bound to the sid inserted.                                *)
CreateSSO(f) ==
  /\ pc[f] = "exchange"
  /\ client' = client \cup {sid[f]}
  /\ End(f)
  /\ UNCHANGED <<account, local, hydraVars, record, logout, forgotten, revokeVars>>

(* A call fails, the browser walks away, or Hydra refuses to go on.        *)
GiveUp(f) ==
  /\ pc[f] # "idle"
  /\ End(f)
  /\ UNCHANGED <<account, local, hydraVars, record, client, logout, forgotten, revokeVars>>

-----------------------------------------------------------------------------
(* Hydra ends a login session: the browser is no longer remembered.        *)
Ended(s) ==
  /\ hydra' = [hydra EXCEPT ![s] = "over"]
  /\ forgotten' = forgotten \ {s}
  /\ remembered' = IF remembered = s THEN None ELSE remembered

(* Hydra signs a logout token for a login session that has ended.          *)
VerifyLogoutToken(s) == hydra[s] = "over"

(* BackChannelLogout, for a token that arrives and verifies: every session *)
(* bound to its sid is revoked.  The session's own lifetime does the same. *)
BackChannelLogout(s) ==
  /\ s \in client /\ VerifyLogoutToken(s)
  /\ client' = client \ {s}
  /\ UNCHANGED <<account, local, hydraVars, record, flowVars, logout, forgotten, revokeVars>>

-----------------------------------------------------------------------------
(* Sign-out, at the client or at the provider, ends the session there and  *)
(* sends the browser on to Hydra, which it may also reach by itself.  Hydra*)
(* asks the provider: it forgets the sid, accepts, and ends the browser's  *)
(* own session whatever came of it.                                        *)
SignOut(s) ==
  /\ \/ s \in client /\ client' = client \ {s} /\ UNCHANGED local
     \/ local /\ remembered = s /\ local' = FALSE /\ UNCHANGED client
  /\ UNCHANGED <<account, hydraVars, record, flowVars, logout, forgotten, revokeVars>>

LogoutForgets(s) ==
  /\ s \notin logout /\ hydra[s] = "live"
  /\ \/ record' = record \ {s} /\ forgotten' = forgotten \cup {s}
     \/ UNCHANGED <<record, forgotten>>
  /\ logout' = logout \cup {s}
  /\ UNCHANGED <<account, local, hydraVars, client, flowVars, revokeVars>>

AcceptLogout(s) ==
  /\ s \in logout
  /\ Ended(s)
  /\ local' = FALSE
  /\ logout' = logout \ {s}
  /\ UNCHANGED <<account, granted, record, client, flowVars, revokeVars>>

LogoutFails(s) ==
  /\ s \in logout
  /\ local' = FALSE
  /\ logout' = logout \ {s}
  /\ UNCHANGED <<account, hydraVars, record, client, flowVars, forgotten, revokeVars>>

-----------------------------------------------------------------------------
(* SessionService.RevokeUser: the provider's sessions, then every recorded *)
(* sid at Hydra, then the consents.  An administrator's deletion revokes   *)
(* first and goes on only if all of it succeeded.                          *)
RGoto(v, step) == rpc' = [rpc EXCEPT ![v] = step]

RevokeUserSessions(v) ==
  /\ rpc[v] = "idle" /\ account # "deleted"
  /\ local' = FALSE
  /\ RGoto(v, "list")
  /\ \E d \in BOOLEAN : deleting' = [deleting EXCEPT ![v] = d]
  /\ owed' = [owed EXCEPT ![v] = @ \cup (Live \cap granted)]
  /\ UNCHANGED <<account, hydraVars, record, client, flowVars, logout, forgotten, todo,
                 failed>>

ListSSOLoginSessions(v) ==
  /\ rpc[v] = "list"
  /\ todo' = [todo EXCEPT ![v] = record]
  /\ RGoto(v, IF record = {} THEN "consents" ELSE "each")
  /\ UNCHANGED <<account, local, hydraVars, record, client, flowVars, logout, forgotten, failed,
                 deleting, owed>>

Following(v, s) ==
  /\ todo' = [todo EXCEPT ![v] = @ \ {s}]
  /\ RGoto(v, IF todo[v] = {s} THEN "consents" ELSE "each")

Oldest(S) == CHOOSE s \in S : TRUE

(* Hydra's refusal is logged and not reported.                             *)
RevokeSwallowsError(v) ==
  /\ rpc[v] = "each"
  /\ LET s == Oldest(todo[v])
     IN  \/ Ended(s) /\ RGoto(v, "forget") /\ UNCHANGED todo
         \/ Following(v, s) /\ UNCHANGED <<hydra, remembered, forgotten>>
  /\ UNCHANGED <<account, local, granted, record, client, flowVars, logout, failed, deleting,
                 owed>>

RevokeLoginSession(v) ==
  /\ rpc[v] = "each"
  /\ LET s == Oldest(todo[v])
     IN  \/ /\ Ended(s)
            /\ RGoto(v, "forget")
            /\ UNCHANGED <<failed, todo>>
         \/ /\ failed' = [failed EXCEPT ![v] = TRUE]
            /\ Following(v, s)
            /\ UNCHANGED <<hydra, remembered, forgotten>>
  /\ UNCHANGED <<account, local, granted, record, client, flowVars, logout, deleting, owed>>

DeleteSSOLoginSession(v) ==
  /\ rpc[v] = "forget"
  /\ LET s == Oldest(todo[v])
     IN  /\ \/ record' = record \ {s} /\ UNCHANGED failed
            \/ failed' = [failed EXCEPT ![v] = TRUE] /\ UNCHANGED record
         /\ Following(v, s)
  /\ UNCHANGED <<account, local, hydraVars, client, flowVars, logout, forgotten, deleting, owed>>

Answer(v, step, unmet) ==
  /\ RGoto(v, step)
  /\ owed' = [owed EXCEPT ![v] = unmet]
  /\ failed' = [failed EXCEPT ![v] = FALSE]
  /\ deleting' = [deleting EXCEPT ![v] = FALSE]

(* The caller learns whether everything was ended; if not it may ask again,*)
(* and is still owed what is live.                                         *)
RevokeConsentSessions(v) ==
  /\ rpc[v] = "consents"
  /\ \E fails \in BOOLEAN :
       IF failed[v] \/ fails THEN Answer(v, "idle", owed[v] \cap Live)
       ELSE Answer(v, IF deleting[v] THEN "delete" ELSE "idle", {})
  /\ UNCHANGED <<account, local, hydraVars, record, client, flowVars, logout, forgotten, todo>>

DeleteUser(v) ==
  /\ rpc[v] = "delete"
  /\ \/ account' = "deleted" /\ record' = {} /\ local' = FALSE
     \/ UNCHANGED <<account, record, local>>
  /\ RGoto(v, "idle")
  /\ UNCHANGED <<hydraVars, client, flowVars, logout, forgotten, todo, failed, deleting, owed>>

(* The instance stops, or a read fails: the caller sees an error.          *)
RevokeFails(v) ==
  /\ rpc[v] # "idle"
  /\ Answer(v, "idle", owed[v] \cap Live)
  /\ todo' = [todo EXCEPT ![v] = {}]
  /\ UNCHANGED <<account, local, hydraVars, record, client, flowVars, logout, forgotten>>

-----------------------------------------------------------------------------
Confirm ==
  /\ account = "unconfirmed" /\ account' = "ok"
  /\ UNCHANGED <<local, hydraVars, record, client, flowVars, logout, forgotten, revokeVars>>

(* Hydra's session reaches the end of its lifetime; its record outlives it *)
(* (DeleteExpiredSSOLoginSessions).                                        *)
LoginSessionExpires(s) ==
  /\ hydra[s] = "live" /\ Ended(s)
  /\ UNCHANGED <<account, local, granted, record, client, flowVars, logout, revokeVars>>

DeleteExpiredSSOLoginSessions ==
  /\ record \ Live # {} /\ record' = record \cap Live
  /\ UNCHANGED <<account, local, hydraVars, client, flowVars, logout, forgotten, revokeVars>>

Next ==
  \/ \E f \in Flows :
       \/ BeginLogin(f) \/ SignIn(f) \/ CompleteLogin(f) \/ Consent(f)
       \/ RecordSSOLoginSession(f) \/ AcceptConsent(f) \/ CreateSSO(f) \/ GiveUp(f)
  \/ \E s \in Sids :
       \/ BackChannelLogout(s) \/ SignOut(s) \/ LogoutForgets(s) \/ AcceptLogout(s) \/ LogoutFails(s)
       \/ LoginSessionExpires(s)
  \/ \E v \in Revokers :
       \/ RevokeUserSessions(v) \/ ListSSOLoginSessions(v) \/ RevokeLoginSession(v)
       \/ DeleteSSOLoginSession(v) \/ RevokeConsentSessions(v) \/ DeleteUser(v) \/ RevokeFails(v)
  \/ Confirm \/ DeleteExpiredSSOLoginSessions

Spec == Init /\ [][Next]_vars

-----------------------------------------------------------------------------
(* Every variable has its type, the client was granted whatever it has     *)
(* sessions for, and no record outlives its account.                       *)
TypeOK ==
  /\ account \in {"unconfirmed", "ok", "deleted"}
  /\ local \in BOOLEAN
  /\ hydra \in [Sids -> {"none", "live", "over"}]
  /\ remembered \in Sids \cup {None}
  /\ granted \subseteq Sids /\ record \subseteq Sids /\ forgotten \subseteq Sids
  /\ client \subseteq granted
  /\ pc \in [Flows -> FlowSteps] /\ sid \in [Flows -> Sids \cup {None}]
  /\ logout \subseteq Sids
  /\ rpc \in [Revokers -> RevokeSteps]
  /\ todo \in [Revokers -> SUBSET Sids] /\ owed \in [Revokers -> SUBSET Sids]
  /\ failed \in [Revokers -> BOOLEAN] /\ deleting \in [Revokers -> BOOLEAN]
  /\ account = "deleted" => record = {}

(* A login session that a client holds a grant of, and that Hydra still    *)
(* honours, is on record for as long as the account exists, so that a      *)
(* revocation finds it: sign-ins, revocations and retention may run side by*)
(* side.  Excepted is a session whose own sign-out deleted the record, for *)
(* Hydra may refuse that sign-out afterwards (Consent, RevokeUser, Logout).*)
GrantedIsRecorded ==
  account # "deleted" => (Live \cap granted) \ forgotten \subseteq record

(* Once a revocation has gone through its list without a failure, every    *)
(* session that was granted when it was first asked for has ended, even if *)
(* earlier attempts of the same caller failed half way: RevokeUser keeps   *)
(* the record of what it could not revoke.                                 *)
RevokeReachesGranted ==
  \A v \in Revokers :
    rpc[v] = "consents" /\ ~failed[v] /\ account # "deleted" => owed[v] \cap Live \subseteq forgotten
=============================================================================
