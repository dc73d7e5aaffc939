------------------------------ MODULE SsoProofs ------------------------------
(***************************************************************************)
(* For any sets of login sessions, sign-ins and revocations: the model's   *)
(* variables keep their types, every live login session that the client    *)
(* was granted is on record, and a revocation that met no failure has      *)
(* reached all that were granted when it was asked for.                    *)
(*                                                                         *)
(* The invariant says what each sign-in and each revocation may rely on at *)
(* the step it is at, though the others go on between its calls.           *)
(***************************************************************************)
EXTENDS Sso, TLAPS

(* A sign-in past the login step has a login session that Hydra opened, one*)
(* about to be accepted is on record, and one about to be redeemed has been*)
(* granted.                                                                *)
Opened == {s \in Sids : hydra[s] # "none"}
FlowOK(f) ==
  /\ pc[f] \in {"consent", "record", "accept", "exchange"} => sid[f] \in Opened
  /\ pc[f] = "accept" /\ account # "deleted" /\ sid[f] \in Live => sid[f] \in record \cup forgotten
  /\ pc[f] = "exchange" => sid[f] \in granted
FlowInv == \A f \in Flows : FlowOK(f)

(* What is still to be reached by a revocation is still on its list.       *)
RevokeOK(v) ==
  /\ owed[v] \subseteq granted
  /\ rpc[v] \in {"each", "forget"} => todo[v] # {}
  /\ rpc[v] = "consents" => todo[v] = {}
  /\ rpc[v] = "forget" => hydra[Oldest(todo[v])] = "over"
  /\ rpc[v] \in {"each", "forget", "consents"} /\ ~failed[v] /\ account # "deleted" =>
       (owed[v] \cap Live) \ forgotten \subseteq todo[v]
RevokeInv == \A v \in Revokers : RevokeOK(v)

Inv == TypeOK /\ granted \subseteq Opened /\ FlowInv /\ RevokeInv /\ GrantedIsRecorded

(* The list's next element is on the list.                                 *)
LEMMA OldestIn == ASSUME NEW S, S # {} PROVE Oldest(S) \in S
BY DEF Oldest

(* At the start nothing is granted and nobody is under way.                *)
LEMMA InitInv == Init => Inv
<1> SUFFICES ASSUME Init PROVE Inv
  OBVIOUS
<1>1. TypeOK
  BY DEF Init, TypeOK, FlowSteps, RevokeSteps
<1>2. granted \subseteq Opened /\ FlowInv /\ GrantedIsRecorded
  BY DEF Init, FlowInv, FlowOK, GrantedIsRecorded
<1>3. RevokeInv
  BY DEF Init, RevokeInv, RevokeOK
<1> QED BY <1>1, <1>2, <1>3 DEF Inv

(* What no step of anybody does: reopen a login session or take a grant    *)
(* back; restore the account; or strike a live session off the record      *)
(* without noting that its own sign-out did.                               *)
World ==
  /\ granted \subseteq granted'
  /\ Opened \subseteq Opened'
  /\ Live' \cap Opened \subseteq Live
  /\ \A s \in Sids : hydra[s] = "over" => hydra'[s] = "over"
  /\ account = "deleted" => account' = "deleted"
  /\ forgotten \cap Live' \subseteq forgotten'
  /\ account' # "deleted" => (record \cup forgotten) \cap Live' \subseteq record' \cup forgotten'

(* A sign-in at rest keeps what it relies on,                              *)
LEMMA FlowKept ==
  ASSUME World, NEW f \in Flows, FlowOK(f), pc'[f] = pc[f], sid'[f] = sid[f]
  PROVE  FlowOK(f)'
BY DEF World, FlowOK

(* and so does a revocation.                                               *)
LEMMA RevokeKept ==
  ASSUME Inv, World, NEW v \in Revokers, rpc'[v] = rpc[v], todo'[v] = todo[v], owed'[v] = owed[v],
         failed'[v] = failed[v]
  PROVE  RevokeOK(v)'
<1>1. RevokeOK(v) /\ granted \subseteq Opened /\ todo[v] \subseteq Sids
  BY DEF Inv, RevokeInv, TypeOK
<1>2. rpc[v] = "forget" => hydra'[Oldest(todo[v])] = "over"
  BY <1>1, OldestIn DEF World, RevokeOK
<1>3. ASSUME rpc[v] \in {"each", "forget", "consents"}, ~failed[v], account' # "deleted"
      PROVE  (owed[v] \cap Live') \ forgotten' \subseteq todo[v]
  <2>1. (owed[v] \cap Live) \ forgotten \subseteq todo[v] /\ owed[v] \subseteq Opened
    BY <1>1, <1>3 DEF RevokeOK, World
  <2> QED BY <2>1 DEF World
<1>4. /\ owed'[v] \subseteq granted'
      /\ rpc'[v] \in {"each", "forget"} => todo'[v] # {}
      /\ rpc'[v] = "consents" => todo'[v] = {}
  BY <1>1 DEF RevokeOK, World
<1> QED BY <1>2, <1>3, <1>4 DEF RevokeOK

(* All revocations rest.                                                   *)
LEMMA RevokesRest ==
  ASSUME Inv, World, UNCHANGED revokeVars
  PROVE  RevokeInv'
BY RevokeKept DEF RevokeInv, revokeVars

(* What is granted stays on record as long as nothing more is granted.     *)
LEMMA RecordedKept ==
  ASSUME Inv, World, granted' = granted
  PROVE  (granted \subseteq Opened)' /\ GrantedIsRecorded'
<1>1. granted \subseteq Opened /\ (account # "deleted" => (Live \cap granted) \ forgotten \subseteq record)
  BY DEF Inv, GrantedIsRecorded
<1>2. (granted \subseteq Opened)'
  BY <1>1 DEF World
<1>3. GrantedIsRecorded'
  BY <1>1 DEF World, GrantedIsRecorded
<1> QED BY <1>2, <1>3

(* A sign-in's step leaves the others where they are and everything that   *)
(* revocations work on alone.  Each step is checked for the types, for     *)
(* World and for what the sign-in relies on next.                          *)
LEMMA FlowsKept ==
  ASSUME Inv, World, NEW f \in Flows, FlowOK(f)',
         \A g \in Flows \ {f} : pc'[g] = pc[g] /\ sid'[g] = sid[g]
  PROVE  FlowInv'
BY FlowKept DEF Inv, FlowInv

(* Hydra opens a login session: it was not open before.                    *)
LEMMA NewLoginOpens ==
  ASSUME TypeOK, NEW f \in Flows, NewLogin(f), UNCHANGED <<account, granted, record, forgotten>>
  PROVE  /\ World
         /\ hydra' \in [Sids -> {"none", "live", "over"}] /\ remembered' \in Sids \cup {None}
         /\ pc' \in [Flows -> FlowSteps] /\ sid' \in [Flows -> Sids \cup {None}]
         /\ pc'[f] = "consent" /\ sid'[f] \in Opened'
         /\ \A g \in Flows \ {f} : pc'[g] = pc[g] /\ sid'[g] = sid[g]
<1>1. PICK s \in Sids : /\ hydra[s] = "none" /\ hydra' = [hydra EXCEPT ![s] = "live"]
                        /\ remembered' = s /\ sid' = [sid EXCEPT ![f] = s]
  BY DEF NewLogin
<1>2. pc' = [pc EXCEPT ![f] = "consent"]
  BY DEF NewLogin, Goto
<1>3. hydra \in [Sids -> {"none", "live", "over"}] /\ pc \in [Flows -> FlowSteps]
      /\ sid \in [Flows -> Sids \cup {None}] /\ record \subseteq Sids /\ forgotten \subseteq Sids
  BY DEF TypeOK
<1>4. World
  <2>1. Opened' = Opened \cup {s} /\ Live' = Live \cup {s} /\ s \notin Opened
    BY <1>1, <1>3 DEF Opened, Live
  <2>2. \A t \in Sids : hydra[t] = "over" => hydra'[t] = "over"
    BY <1>1, <1>3
  <2> QED BY <2>1, <2>2 DEF World
<1>5. sid'[f] \in Opened'
  BY <1>1, <1>3 DEF Opened
<1> QED BY <1>1, <1>2, <1>3, <1>4, <1>5 DEF FlowSteps

(* Hydra's sessions, the record and the account are left alone.            *)
LEMMA WorldAlone ==
  ASSUME granted \subseteq granted', record \subseteq record', UNCHANGED <<account, hydra, forgotten>>
  PROVE  World
BY DEF World, Opened, Live

(* A step of a sign-in.                                                    *)
LEMMA FlowStep ==
  ASSUME Inv, NEW f \in Flows,
         \/ BeginLogin(f) \/ SignIn(f) \/ CompleteLogin(f) \/ Consent(f)
         \/ RecordSSOLoginSession(f) \/ AcceptConsent(f) \/ CreateSSO(f) \/ GiveUp(f)
  PROVE  Inv'
<1> DEFINE Others == \A g \in Flows \ {f} : pc'[g] = pc[g] /\ sid'[g] = sid[g]
<1>a. TypeOK /\ FlowInv
  BY DEF Inv
<1>b. UNCHANGED revokeVars
  BY DEF BeginLogin, SignIn, CompleteLogin, Consent, RecordSSOLoginSession, AcceptConsent, CreateSSO,
     GiveUp
<1>c. ASSUME TypeOK', World, FlowOK(f)', Others, granted' = granted PROVE Inv'
  BY <1>b, <1>c, FlowsKept, RevokesRest, RecordedKept DEF Inv
<1>1. CASE BeginLogin(f)
  <2>1. CASE NewLogin(f)
    BY <1>a, <1>1, <2>1, <1>c, NewLoginOpens DEF BeginLogin, TypeOK, FlowOK, revokeVars
  <2>2. CASE UNCHANGED <<hydra, remembered>>
    <3>1. TypeOK' /\ Others
      BY <1>a, <1>1, <2>2 DEF BeginLogin, TypeOK, Live, Goto, End, FlowSteps, revokeVars, NewLogin
    <3>2. World
      BY <1>1, <2>2, WorldAlone DEF BeginLogin
    <3>3. FlowOK(f)'
      BY <1>a, <1>1, <2>2 DEF BeginLogin, TypeOK, Live, Opened, Goto, End, FlowOK, NewLogin
    <3> QED BY <1>1, <1>c, <3>1, <3>2, <3>3 DEF BeginLogin
  <2> QED BY <1>1, <2>1, <2>2 DEF BeginLogin
<1>2. CASE SignIn(f)
  <2>1. TypeOK' /\ Others /\ FlowOK(f)'
    BY <1>a, <1>2 DEF SignIn, TypeOK, Goto, FlowSteps, FlowOK, hydraVars, revokeVars
  <2> QED BY <1>2, <1>c, <2>1, WorldAlone DEF SignIn, hydraVars
<1>3. CASE CompleteLogin(f)
  <2>1. CASE NewLogin(f)
    BY <1>a, <1>3, <2>1, <1>c, NewLoginOpens DEF CompleteLogin, TypeOK, FlowOK, revokeVars
  <2>2. CASE End(f) /\ UNCHANGED <<hydra, remembered>>
    <3>1. TypeOK' /\ Others /\ FlowOK(f)'
      BY <1>a, <1>3, <2>2 DEF CompleteLogin, TypeOK, Goto, End, FlowSteps, FlowOK, revokeVars
    <3> QED BY <1>3, <2>2, <1>c, <3>1, WorldAlone DEF CompleteLogin
  <2> QED BY <1>3, <2>1, <2>2 DEF CompleteLogin
<1>4. CASE Consent(f)
  <2>1. TypeOK' /\ Others
    BY <1>a, <1>4 DEF Consent, TypeOK, Goto, End, FlowSteps, hydraVars, revokeVars
  <2>2. World
    BY <1>4, WorldAlone DEF Consent, hydraVars
  <2>3. FlowOK(f)'
    BY <1>a, <1>4, <2>2 DEF Consent, FlowInv, TypeOK, Goto, End, FlowOK, World
  <2> QED BY <1>4, <1>c, <2>1, <2>2, <2>3 DEF Consent, hydraVars
<1>5. CASE RecordSSOLoginSession(f)
  <2>0. sid[f] \in Opened
    BY <1>a, <1>5 DEF RecordSSOLoginSession, FlowInv, FlowOK
  <2>1. TypeOK' /\ Others
    BY <1>a, <1>5, <2>0 DEF RecordSSOLoginSession, TypeOK, Goto, FlowSteps, hydraVars, revokeVars, Opened
  <2>2. World
    BY <1>5, WorldAlone DEF RecordSSOLoginSession, hydraVars
  <2>3. FlowOK(f)'
    BY <1>a, <1>5, <2>0, <2>2 DEF RecordSSOLoginSession, TypeOK, Goto, FlowOK, World
  <2> QED BY <1>5, <1>c, <2>1, <2>2, <2>3 DEF RecordSSOLoginSession, hydraVars
<1>6. CASE AcceptConsent(f)
  <2>0. /\ sid[f] \in Opened
        /\ account # "deleted" /\ sid[f] \in Live => sid[f] \in record \cup forgotten
    BY <1>a, <1>6 DEF AcceptConsent, FlowInv, FlowOK
  <2>1. TypeOK' /\ Others
    BY <1>a, <1>6, <2>0 DEF AcceptConsent, TypeOK, Goto, FlowSteps, revokeVars, Opened
  <2>2. World
    BY <1>6, WorldAlone DEF AcceptConsent
  <2>3. FlowOK(f)'
    BY <1>a, <1>6, <2>0, <2>2 DEF AcceptConsent, TypeOK, Goto, FlowOK, World
  <2>4. (granted \subseteq Opened)' /\ GrantedIsRecorded'
    BY <1>6, <2>0 DEF AcceptConsent, Inv, Opened, Live, GrantedIsRecorded
  <2> QED BY <1>b, <2>1, <2>2, <2>3, <2>4, FlowsKept, RevokesRest DEF Inv
<1>7. CASE CreateSSO(f)
  <2>1. TypeOK' /\ Others /\ FlowOK(f)'
    BY <1>a, <1>7 DEF CreateSSO, TypeOK, FlowInv, Goto, End, FlowSteps, FlowOK, hydraVars, revokeVars
  <2> QED BY <1>7, <1>c, <2>1, WorldAlone DEF CreateSSO, hydraVars
<1>8. CASE GiveUp(f)
  <2>1. TypeOK' /\ Others /\ FlowOK(f)'
    BY <1>a, <1>8 DEF GiveUp, TypeOK, Goto, End, FlowSteps, FlowOK, hydraVars, revokeVars
  <2> QED BY <1>8, <1>c, <2>1, WorldAlone DEF GiveUp, hydraVars
<1> QED BY <1>1, <1>2, <1>3, <1>4, <1>5, <1>6, <1>7, <1>8

(* The sign-ins rest, and nothing more is granted.                         *)
LEMMA FlowsRest ==
  ASSUME Inv, World, UNCHANGED <<pc, sid, granted>>
  PROVE  FlowInv' /\ (granted \subseteq Opened)' /\ GrantedIsRecorded'
<1>1. FlowInv
  BY DEF Inv
<1>2. FlowInv'
  BY <1>1, FlowKept DEF FlowInv
<1> QED BY <1>2, RecordedKept

(* Hydra ends a login session.                                             *)
LEMMA EndedWorld ==
  ASSUME TypeOK, NEW s \in Sids, Ended(s), UNCHANGED <<account, granted, record>>
  PROVE  /\ World
         /\ hydra' \in [Sids -> {"none", "live", "over"}] /\ hydra'[s] = "over"
         /\ remembered' \in Sids \cup {None} /\ forgotten' \subseteq Sids
<1>1. /\ hydra \in [Sids -> {"none", "live", "over"}] /\ hydra' = [hydra EXCEPT ![s] = "over"]
      /\ forgotten' = forgotten \ {s}
  BY DEF TypeOK, Ended
<1>2. Opened \subseteq Opened' /\ Live' = Live \ {s}
  BY <1>1 DEF Opened, Live
<1>3. World
  BY <1>1, <1>2 DEF World
<1> QED BY <1>1, <1>3 DEF TypeOK, Ended

(* Steps that concern one login session, the confirmation and retention.   *)
LEMMA SessionStep ==
  ASSUME Inv,
         \/ \E s \in Sids : \/ BackChannelLogout(s) \/ SignOut(s) \/ LogoutForgets(s)
                            \/ AcceptLogout(s) \/ LogoutFails(s) \/ LoginSessionExpires(s)
         \/ Confirm \/ DeleteExpiredSSOLoginSessions
  PROVE  Inv'
<1>a. TypeOK
  BY DEF Inv
<1>b. UNCHANGED <<pc, sid, granted, revokeVars>>
  BY DEF BackChannelLogout, SignOut, LogoutForgets, AcceptLogout, LogoutFails, LoginSessionExpires,
     Confirm, DeleteExpiredSSOLoginSessions, flowVars, hydraVars
<1>c. ASSUME TypeOK', World PROVE Inv'
  BY <1>b, <1>c, FlowsRest, RevokesRest DEF Inv
<1>1. ASSUME NEW s \in Sids, BackChannelLogout(s) PROVE Inv'
  <2>1. TypeOK'
    BY <1>a, <1>1 DEF BackChannelLogout, TypeOK, flowVars, hydraVars, revokeVars
  <2> QED BY <1>1, <1>c, <2>1, WorldAlone DEF BackChannelLogout, hydraVars
<1>2. ASSUME NEW s \in Sids, SignOut(s) PROVE Inv'
  <2>1. TypeOK'
    BY <1>a, <1>2 DEF SignOut, TypeOK, flowVars, hydraVars, revokeVars
  <2> QED BY <1>2, <1>c, <2>1, WorldAlone DEF SignOut, hydraVars
<1>3. ASSUME NEW s \in Sids, LogoutForgets(s) PROVE Inv'
  <2>1. TypeOK'
    BY <1>a, <1>3 DEF LogoutForgets, TypeOK, flowVars, hydraVars, revokeVars
  <2>2. World
    BY <1>3 DEF LogoutForgets, World, Opened, Live, hydraVars
  <2> QED BY <1>c, <2>1, <2>2
<1>4. ASSUME NEW s \in Sids, AcceptLogout(s) PROVE Inv'
  <2>1. World /\ TypeOK'
    BY <1>a, <1>4, EndedWorld DEF AcceptLogout, TypeOK, flowVars, revokeVars
  <2> QED BY <1>c, <2>1
<1>5. ASSUME NEW s \in Sids, LogoutFails(s) PROVE Inv'
  <2>1. TypeOK'
    BY <1>a, <1>5 DEF LogoutFails, TypeOK, flowVars, hydraVars, revokeVars
  <2> QED BY <1>5, <1>c, <2>1, WorldAlone DEF LogoutFails, hydraVars
<1>6. ASSUME NEW s \in Sids, LoginSessionExpires(s) PROVE Inv'
  <2>1. World /\ TypeOK'
    BY <1>a, <1>6, EndedWorld DEF LoginSessionExpires, TypeOK, flowVars, revokeVars
  <2> QED BY <1>c, <2>1
<1>7. CASE Confirm
  <2>1. TypeOK'
    BY <1>a, <1>7 DEF Confirm, TypeOK, flowVars, hydraVars, revokeVars
  <2>2. World
    BY <1>7 DEF Confirm, World, Opened, Live, hydraVars
  <2> QED BY <1>c, <2>1, <2>2
<1>8. CASE DeleteExpiredSSOLoginSessions
  <2>1. TypeOK'
    BY <1>a, <1>8 DEF DeleteExpiredSSOLoginSessions, TypeOK, flowVars, hydraVars, revokeVars
  <2>2. World
    BY <1>8 DEF DeleteExpiredSSOLoginSessions, World, Opened, Live, hydraVars
  <2> QED BY <1>c, <2>1, <2>2
<1> QED BY <1>1, <1>2, <1>3, <1>4, <1>5, <1>6, <1>7, <1>8

(* The revocation takes the next element off its list: it has ended or its *)
(* failure is noted.                                                       *)
LEMMA FollowingOK ==
  ASSUME Inv, World, NEW v \in Revokers, rpc[v] \in {"each", "forget"}, NEW s, s = Oldest(todo[v]),
         Following(v, s), UNCHANGED <<owed, granted>>, failed \in [Revokers -> BOOLEAN],
         \/ s \notin Live' /\ (failed' = failed \/ failed'[v])
         \/ failed'[v]
  PROVE  /\ RevokeOK(v)'
         /\ todo' \in [Revokers -> SUBSET Sids] /\ rpc' \in [Revokers -> RevokeSteps]
<1>1. /\ todo \in [Revokers -> SUBSET Sids] /\ rpc \in [Revokers -> RevokeSteps]
      /\ RevokeOK(v) /\ granted \subseteq Opened
  BY DEF Inv, TypeOK, RevokeInv
<1>2. todo[v] # {} /\ s \in todo[v]
  BY <1>1, OldestIn DEF RevokeOK
<1>3. /\ todo' = [todo EXCEPT ![v] = todo[v] \ {s}]
      /\ rpc' = [rpc EXCEPT ![v] = IF todo[v] = {s} THEN "consents" ELSE "each"]
  BY DEF Following, RGoto
<1>4. ASSUME ~failed'[v], account' # "deleted" PROVE (owed[v] \cap Live') \ forgotten' \subseteq todo'[v]
  <2>1. s \notin Live' /\ ~failed[v] /\ account # "deleted"
    BY <1>4 DEF World
  <2>2. (owed[v] \cap Live) \ forgotten \subseteq todo[v] /\ owed[v] \subseteq Opened
    BY <1>1, <2>1 DEF RevokeOK
  <2> QED BY <1>1, <1>3, <2>1, <2>2 DEF World
<1>5. /\ todo' \in [Revokers -> SUBSET Sids] /\ rpc' \in [Revokers -> RevokeSteps]
      /\ todo'[v] = todo[v] \ {s} /\ rpc'[v] = IF todo[v] = {s} THEN "consents" ELSE "each"
  BY <1>1, <1>3 DEF RevokeSteps
<1>6. owed'[v] \subseteq granted'
  BY <1>1 DEF RevokeOK
<1> QED BY <1>2, <1>4, <1>5, <1>6 DEF RevokeOK

(* A step of a revocation.                                                 *)
LEMMA RevokeStep ==
  ASSUME Inv, NEW v \in Revokers,
         \/ RevokeUserSessions(v) \/ ListSSOLoginSessions(v) \/ RevokeLoginSession(v)
         \/ DeleteSSOLoginSession(v) \/ RevokeConsentSessions(v) \/ DeleteUser(v) \/ RevokeFails(v)
  PROVE  Inv'
<1> DEFINE Others == \A w \in Revokers \ {v} : /\ rpc'[w] = rpc[w] /\ todo'[w] = todo[w]
                                              /\ owed'[w] = owed[w] /\ failed'[w] = failed[w]
<1>a. TypeOK /\ RevokeOK(v) /\ GrantedIsRecorded
  BY DEF Inv, RevokeInv
<1>b. UNCHANGED <<pc, sid, granted>>
  BY DEF RevokeUserSessions, ListSSOLoginSessions, RevokeLoginSession, DeleteSSOLoginSession,
     RevokeConsentSessions, DeleteUser, RevokeFails, flowVars, hydraVars
<1>c. ASSUME TypeOK', World, Others, RevokeOK(v)' PROVE Inv'
  <2>1. RevokeInv'
    BY <1>c, RevokeKept DEF RevokeInv
  <2> QED BY <1>b, <1>c, <2>1, FlowsRest DEF Inv
<1>d. \A S : S \cap Live \subseteq S
  OBVIOUS
<1>1. CASE RevokeUserSessions(v)
  <2>1. World
    BY <1>1, WorldAlone DEF RevokeUserSessions, hydraVars
  <2>2. TypeOK'
    BY <1>a, <1>1 DEF RevokeUserSessions, TypeOK, RGoto, RevokeSteps, flowVars, hydraVars, Live
  <2>3. Others /\ RevokeOK(v)'
    BY <1>a, <1>1 DEF RevokeUserSessions, TypeOK, RGoto, RevokeOK, hydraVars
  <2> QED BY <1>c, <2>1, <2>2, <2>3
<1>2. CASE ListSSOLoginSessions(v)
  <2>1. World
    BY <1>2, WorldAlone DEF ListSSOLoginSessions, hydraVars
  <2>2. TypeOK'
    BY <1>a, <1>2 DEF ListSSOLoginSessions, TypeOK, RGoto, RevokeSteps, flowVars, hydraVars
  <2>3. Others /\ RevokeOK(v)'
    BY <1>a, <1>2 DEF ListSSOLoginSessions, TypeOK, RGoto, RevokeOK, GrantedIsRecorded, Live, hydraVars
  <2> QED BY <1>c, <2>1, <2>2, <2>3
<1>3. CASE RevokeLoginSession(v)
  <2> DEFINE s == Oldest(todo[v])
  <2>0. rpc[v] = "each" /\ todo[v] # {} /\ s \in todo[v] /\ s \in Sids
    BY <1>a, <1>3, OldestIn DEF RevokeLoginSession, RevokeOK, TypeOK
  <2> HIDE DEF s
  <2>1. CASE Ended(s) /\ RGoto(v, "forget") /\ UNCHANGED <<failed, todo>>
    <3>1. World /\ hydra'[s] = "over" /\ s \notin Live'
      BY <1>a, <1>3, <2>0, <2>1, EndedWorld DEF RevokeLoginSession, Live
    <3>2. TypeOK'
      BY <1>a, <1>3, <2>0, <2>1, EndedWorld
      DEF RevokeLoginSession, TypeOK, RGoto, RevokeSteps, flowVars
    <3>3. Others
      BY <1>a, <1>3, <2>1 DEF RevokeLoginSession, TypeOK, RGoto
    <3>4. (owed[v] \cap Live') \ forgotten' \subseteq (owed[v] \cap Live) \ forgotten
      BY <1>a, <1>b, <3>1 DEF World, RevokeOK, Inv
    <3>5. RevokeOK(v)'
      BY <1>a, <1>3, <2>0, <2>1, <3>1, <3>4 DEF RevokeLoginSession, TypeOK, RGoto, RevokeOK, World, s
    <3> QED BY <1>c, <3>1, <3>2, <3>3, <3>5
  <2>2. CASE /\ failed' = [failed EXCEPT ![v] = TRUE] /\ Following(v, s)
             /\ UNCHANGED <<hydra, remembered, forgotten>>
    <3>1. World
      BY <1>3, <2>2, WorldAlone DEF RevokeLoginSession
    <3>2. failed' \in [Revokers -> BOOLEAN] /\ failed'[v]
      BY <1>a, <2>2, Zenon DEF TypeOK
    <3>3. /\ RevokeOK(v)'
          /\ todo' \in [Revokers -> SUBSET Sids] /\ rpc' \in [Revokers -> RevokeSteps]
      BY <1>a, <1>3, <2>0, <2>2, <3>1, <3>2, FollowingOK DEF RevokeLoginSession, TypeOK, s
    <3>4. TypeOK' /\ Others
      BY <1>a, <1>3, <2>2, <3>2, <3>3 DEF RevokeLoginSession, TypeOK, Following, RGoto, flowVars
    <3> QED BY <1>c, <3>1, <3>3, <3>4
  <2> QED BY <1>3, <2>1, <2>2 DEF RevokeLoginSession, s
<1>4. CASE DeleteSSOLoginSession(v)
  <2> DEFINE s == Oldest(todo[v])
  <2>0. /\ rpc[v] = "forget" /\ todo[v] # {} /\ s \in todo[v] /\ s \in Sids
        /\ hydra[s] = "over" /\ s \notin Live
    BY <1>a, <1>4, OldestIn DEF DeleteSSOLoginSession, RevokeOK, TypeOK, Live
  <2>1. /\ Following(v, s)
        /\ \/ record' = record \ {s} /\ UNCHANGED failed
           \/ failed' = [failed EXCEPT ![v] = TRUE] /\ UNCHANGED record
        /\ UNCHANGED <<account, local, hydraVars, client, flowVars, logout, forgotten, deleting, owed>>
    BY <1>4 DEF DeleteSSOLoginSession
  <2> HIDE DEF s
  <2>2. World
    BY <2>0, <2>1 DEF World, Opened, Live, hydraVars
  <2>3. s \notin Live'
    BY <2>0, <2>1 DEF Live, hydraVars
  <2>4. failed' \in [Revokers -> BOOLEAN] /\ (failed' = failed \/ failed'[v])
    BY <1>a, <2>1, Zenon DEF TypeOK
  <2>5. /\ RevokeOK(v)'
        /\ todo' \in [Revokers -> SUBSET Sids] /\ rpc' \in [Revokers -> RevokeSteps]
    BY <1>a, <2>0, <2>1, <2>2, <2>3, <2>4, FollowingOK DEF TypeOK, s, hydraVars
  <2>6. TypeOK' /\ Others
    BY <1>a, <2>1, <2>4, <2>5 DEF TypeOK, Following, RGoto, flowVars, hydraVars
  <2> QED BY <1>c, <2>2, <2>5, <2>6
<1>5. CASE RevokeConsentSessions(v)
  <2>1. World
    BY <1>5, WorldAlone DEF RevokeConsentSessions, hydraVars
  <2>2. PICK step \in {"idle", "delete"}, unmet \in SUBSET owed[v] : Answer(v, step, unmet)
    BY <1>5, <1>d DEF RevokeConsentSessions
  <2>3. TypeOK' /\ Others
    BY <1>a, <1>5, <2>2
    DEF RevokeConsentSessions, Answer, TypeOK, RGoto, RevokeSteps, flowVars, hydraVars
  <2>4. RevokeOK(v)'
    BY <1>a, <1>5, <2>2 DEF RevokeConsentSessions, Answer, TypeOK, RGoto, RevokeOK, hydraVars
  <2> QED BY <1>c, <2>1, <2>3, <2>4
<1>6. CASE DeleteUser(v)
  <2>1. World
    BY <1>6 DEF DeleteUser, World, Opened, Live, hydraVars
  <2>2. TypeOK' /\ Others
    BY <1>a, <1>6 DEF DeleteUser, TypeOK, RGoto, RevokeSteps, flowVars, hydraVars
  <2>3. RevokeOK(v)'
    BY <1>a, <1>6 DEF DeleteUser, TypeOK, RGoto, RevokeOK, hydraVars
  <2> QED BY <1>c, <2>1, <2>2, <2>3
<1>7. CASE RevokeFails(v)
  <2>1. World
    BY <1>7, WorldAlone DEF RevokeFails, hydraVars
  <2>2. PICK unmet \in SUBSET owed[v] : Answer(v, "idle", unmet)
    BY <1>7, <1>d DEF RevokeFails
  <2>3. TypeOK' /\ Others
    BY <1>a, <1>7, <2>2 DEF RevokeFails, Answer, TypeOK, RGoto, RevokeSteps, flowVars, hydraVars
  <2>4. RevokeOK(v)'
    BY <1>a, <1>7, <2>2 DEF RevokeFails, Answer, TypeOK, RGoto, RevokeOK, hydraVars
  <2> QED BY <1>c, <2>1, <2>3, <2>4
<1> QED BY <1>1, <1>2, <1>3, <1>4, <1>5, <1>6, <1>7

(* Nothing happens.                                                        *)
LEMMA StutterInv == Inv /\ UNCHANGED vars => Inv'
<1> SUFFICES ASSUME Inv, UNCHANGED vars PROVE Inv'
  OBVIOUS
<1>1. TypeOK'
  BY DEF Inv, TypeOK, vars, flowVars, hydraVars, revokeVars
<1>2. World
  BY WorldAlone DEF vars, hydraVars
<1> QED BY <1>1, <1>2, FlowsRest, RevokesRest DEF Inv, vars, flowVars, hydraVars

(* The invariant holds throughout.                                         *)
LEMMA Invariance == Spec => []Inv
<1>1. Inv /\ [Next]_vars => Inv'
  BY FlowStep, SessionStep, RevokeStep, StutterInv DEF Next
<1> QED BY InitInv, <1>1, PTL DEF Spec

(* Every variable keeps its type, the client holds sessions only of what it*)
(* was granted, and no record outlives its account.                        *)
THEOREM TypeCorrect == Spec => []TypeOK
BY Invariance, PTL DEF Inv

(* Every live login session that the client was granted is on record, for  *)
(* any number of sign-ins, sign-outs and revocations side by side          *)
(* (SSOProviderService.Consent, RevokeUser).                               *)
THEOREM GrantsRecorded == Spec => []GrantedIsRecorded
BY Invariance, PTL DEF Inv

(* A revocation that has gone through its list without a failure has ended *)
(* whatever was granted when it was first asked for                        *)
(* (SSOProviderService.RevokeUser).                                        *)
THEOREM RevocationComplete == Spec => []RevokeReachesGranted
<1>1. Inv => RevokeReachesGranted
  BY DEF Inv, RevokeInv, RevokeOK, RevokeReachesGranted
<1> QED BY Invariance, <1>1, PTL
=============================================================================
