-------------------------- MODULE CredentialsProofs --------------------------
(***************************************************************************)
(* For any sets of sessions, links and requests: the tables stay well      *)
(* formed, a mailed link is used once, a confirmation is not written over, *)
(* settings replace the password they verified, and a revocation leaves no *)
(* session, pending ones included.                                         *)
(*                                                                         *)
(* The invariant says what each request may rely on at its step while the  *)
(* others go on: a row still at the revision it read is the row it read,   *)
(* the transaction that has inserted a session holds the sessions lock, and*)
(* a link that a request has in hand is not issued again.                  *)
(***************************************************************************)
EXTENDS Credentials, TLAPS

(* What a request relies on at its step.                                   *)
RowOK(r) ==
  /\ pc[r] \in {"consume", "find"} => req[r].expected <= account.version
  /\ pc[r] \in {"write", "refresh"} =>
       /\ req[r].expected <= req[r].seen.version /\ req[r].seen.version <= account.version
       /\ req[r].seen.version = account.version /\ account.exists => req[r].seen = account
HandOK(r) ==
  /\ pc[r] = "consume" => req[r].link \in Links
  /\ pc[r] \in {"commit", "signOut"} => req[r].session \in Sessions
  /\ pc[r] = "commit" => lock = r
  /\ req[r].link # None /\ link[req[r].link].state = "none" => ~account.exists
RequestOK(r) == RowOK(r) /\ HandOK(r)

(* An insert that is not committed is its request's, which holds the lock. *)
PendingOwned ==
  \A s \in Sessions : session[s].state = "pending" =>
    \E r \in Requests : pc[r] = "commit" /\ req[r].session = s

Inv ==
  /\ TypeOK
  /\ \A r \in Requests : RequestOK(r)
  /\ PendingOwned /\ LinkUsedOnce

(* A form that is sent is a request.                                       *)
LEMMA FormType ==
  ASSUME NEW op \in AllOps \cup {"none"}, NEW s \in Sessions \cup {None},
         NEW l \in Links \cup {None},
         NEW p \in Nat, NEW e \in Nat
  PROVE  Form(op, s, l, p, e) \in Request
BY DEF Form, Request, NoAccount, Account

(* So is a slot that is free.                                              *)
LEMMA NoRequestType == NoRequest \in Request
BY FormType DEF NoRequest

(* Nobody has asked for anything at the start.                             *)
LEMMA InitInv == Init => Inv
<1> SUFFICES ASSUME Init PROVE Inv
  OBVIOUS
<1>0. NoSession \in Session /\ [state |-> "live", recent |-> TRUE] \in Session
  BY DEF Session, NoSession
<1>1. account \in Account /\ session \in [Sessions -> Session]
  <2>1. \A v \in BOOLEAN, p \in Nat :
          [exists |-> TRUE, password |-> p, verified |-> v, version |-> 0] \in Account
    BY DEF Account
  <2>3. account \in Account
    <3>1. 0 \in Nat /\ 1 \in Nat
      OBVIOUS
    <3> QED BY <2>1, <3>1, Zenon DEF Init
  <2>2. session \in [Sessions -> Session]
    BY <1>0, Zenon DEF Init
  <2> QED BY <2>2, <2>3
<1>2. /\ link \in [Links -> Link] /\ lock \in Requests \cup {None} /\ pc \in [Requests -> Steps]
      /\ req \in [Requests -> Request]
  BY NoRequestType DEF Init, Link, NoLink, Steps
<1>3. \A r \in Requests : RequestOK(r)
  BY DEF Init, RequestOK, RowOK, HandOK, NoRequest, Form
<1>4. PendingOwned
  BY DEF Init, PendingOwned, NoSession
<1>5. LinkUsedOnce
  BY DEF Init, LinkUsedOnce, NoRequest, Form
<1> QED BY <1>1, <1>2, <1>3, <1>4, <1>5 DEF Inv, TypeOK

(* What every step of anybody leaves: a deleted account does not return,   *)
(* and a row that changes moves to a later revision.                       *)
World ==
  /\ account' \in Account
  /\ account.version <= account'.version
  /\ account'.exists => account.exists
  /\ account'.version = account.version /\ account'.exists => account' = account

(* A request at rest keeps what it relies on while another one moves.      *)
LEMMA RestKept ==
  ASSUME TypeOK, World, NEW q \in Requests, RequestOK(q), pc'[q] = pc[q], req'[q] = req[q],
         pc[q] = "commit" => lock' = lock,
         \A l \in Links : link'[l].state = "none" =>
           link[l].state = "none" \/ ~account'.exists \/ req[q].link # l
  PROVE  RequestOK(q)'
<1>0. req[q] \in Request /\ account \in Account
  BY DEF TypeOK
<1>1. RowOK(q)'
  BY <1>0 DEF RequestOK, RowOK, World, Account, Request
<1>2. HandOK(q)'
  BY <1>0 DEF RequestOK, HandOK, World, Request
<1> QED BY <1>1, <1>2 DEF RequestOK

(* Links are used once still, if none becomes active that a request has in *)
(* hand, and no request gets past Consume.                                 *)
LEMMA LinksKept ==
  ASSUME TypeOK, LinkUsedOnce, req' \in [Requests -> Request],
         \A r \in Requests : \/ req'[r].link = None \/ pc'[r] = "consume"
                             \/ req'[r].link = req[r].link /\ pc[r] # "consume",
         \A l \in Links : link'[l].state = "active" =>
           link[l].state = "active" \/ \A q \in Requests : req[q].link # l
  PROVE  LinkUsedOnce'
<1> SUFFICES ASSUME NEW r \in Requests, req'[r].link # None, pc'[r] # "consume"
             PROVE  /\ link'[req'[r].link].state # "active"
                    /\ \A q \in Requests \ {r} : req'[q].link = req'[r].link => pc'[q] = "consume"
  BY DEF LinkUsedOnce
<1>1. req'[r].link = req[r].link /\ pc[r] # "consume" /\ req[r].link # None
  OBVIOUS
<1>2. /\ link[req[r].link].state # "active"
      /\ \A q \in Requests \ {r} : req[q].link = req[r].link => pc[q] = "consume"
  BY <1>1 DEF LinkUsedOnce
<1>3. req[r].link \in Links
  BY <1>1 DEF TypeOK, Request
<1>4. link'[req[r].link].state # "active"
  BY <1>2, <1>3
<1> QED BY <1>1, <1>2, <1>4

(* Put together: the step of one request r.                                *)
LEMMA OneMoves ==
  ASSUME Inv, World, NEW r \in Requests, TypeOK', RequestOK(r)', LinkUsedOnce',
         \A q \in Requests \ {r} :
           /\ pc'[q] = pc[q] /\ req'[q] = req[q]
           /\ pc[q] = "commit" => lock' = lock,
         \A l \in Links : link'[l].state = "none" => link[l].state = "none" \/ ~account'.exists,
         \A s \in Sessions : session'[s].state = "pending" =>
           \/ session[s].state = "pending" /\ ~(pc[r] = "commit" /\ req[r].session = s)
           \/ pc'[r] = "commit" /\ req'[r].session = s
  PROVE  Inv'
<1>1. \A q \in Requests \ {r} : RequestOK(q)'
  BY RestKept DEF Inv
<1>2. PendingOwned'
  BY DEF Inv, PendingOwned
<1> QED BY <1>1, <1>2 DEF Inv

(* A step that only takes the request on, and may write the row.           *)
LEMMA QuietMoves ==
  ASSUME Inv, World, NEW r \in Requests, NEW step \in Steps, Goto(r, step), NEW x \in Request,
         req' = [req EXCEPT ![r] = x], UNCHANGED <<session, link, lock>>, pc[r] # "commit",
         step # "commit", RequestOK(r)',
         x.link = None \/ step = "consume" \/ (x.link = req[r].link /\ pc[r] # "consume")
  PROVE  Inv'
<1>1. TypeOK
  BY DEF Inv
<1>2. TypeOK' /\ pc'[r] = step /\ req'[r] = x
  BY <1>1 DEF TypeOK, World, Goto
<1>3. \A q \in Requests \ {r} : pc'[q] = pc[q] /\ req'[q] = req[q]
  BY <1>1 DEF TypeOK, Goto
<1>4. \A q \in Requests : \/ req'[q].link = None \/ pc'[q] = "consume"
                          \/ req'[q].link = req[q].link /\ pc[q] # "consume"
  BY <1>2, <1>3
<1>5. LinkUsedOnce'
  BY <1>1, <1>2, <1>4, LinksKept DEF Inv, TypeOK
<1> QED BY <1>2, <1>3, <1>5, OneMoves

(* Ended, a request relies on nothing.                                     *)
LEMMA EndedOK ==
  ASSUME TypeOK, World, NEW r \in Requests, End(r)
  PROVE  RequestOK(r)' /\ pc'[r] = "idle" /\ req'[r] = NoRequest
<1>1. pc'[r] = "idle" /\ req'[r] = NoRequest /\ req'[r].op = "none" /\ req'[r].link = None
  BY DEF End, Goto, TypeOK, NoRequest, Form
<1> QED BY <1>1 DEF RequestOK, RowOK, HandOK

(* The request ends, having changed nothing or the row.                    *)
LEMMA EndMoves ==
  ASSUME Inv, World, NEW r \in Requests, End(r), UNCHANGED <<session, link, lock>>, pc[r] # "commit"
  PROVE  Inv'
<1>1. RequestOK(r)' /\ NoRequest.link = None
  BY EndedOK DEF Inv, NoRequest, Form
<1> QED BY <1>1, NoRequestType, QuietMoves DEF End, Steps

(* The row is left alone.                                                  *)
LEMMA WorldAlone == TypeOK /\ UNCHANGED account => World
BY DEF TypeOK, World, Account

(* A request is sent.                                                      *)
LEMMA StartMoves ==
  ASSUME Inv, NEW r \in Requests, NEW step \in {"find", "signOut", "consume"},
         NEW op \in AllOps, NEW s \in Sessions \cup {None}, NEW l \in Links \cup {None},
         NEW p \in Nat, NEW e \in Nat, Start(r, step, Form(op, s, l, p, e)),
         e <= account.version, step = "signOut" => s \in Sessions,
         step = "consume" => l \in Links, step # "consume" => l = None,
         l # None => link[l].state # "none"
  PROVE  Inv'
<1> DEFINE x == Form(op, s, l, p, e)
<1>1. /\ x \in Request /\ x.op = op /\ x.session = s /\ x.link = l /\ x.expected = e
  BY FormType DEF Form
<1> HIDE DEF x
<1>2. /\ pc[r] = "idle" /\ Goto(r, step) /\ req' = [req EXCEPT ![r] = x]
      /\ UNCHANGED <<account, session, link, lock>>
  BY DEF Start, x
<1>3. World
  BY <1>2, WorldAlone DEF Inv
<1>4. pc'[r] = step /\ req'[r] = x
  BY <1>2 DEF Inv, TypeOK, Goto
<1>5. RequestOK(r)'
  BY <1>1, <1>2, <1>4 DEF RequestOK, RowOK, HandOK
<1> QED BY <1>1, <1>2, <1>3, <1>5, QuietMoves DEF Steps

(* Each kind of request is sent from a state that has what it relies on.   *)
LEMMA SubmitInv ==
  ASSUME Inv, NEW r \in Requests, Submit(r)
  PROVE  Inv'
<1>a. account.password \in Nat /\ account.version \in Nat /\ 0 <= account.version
  BY DEF Inv, TypeOK, Account
<1>1. CASE SignInRequest(r)
  BY <1>1, <1>a, StartMoves DEF SignInRequest, AllOps
<1>2. CASE ChangePasswordRequest(r)
  BY <1>2, <1>a, StartMoves DEF ChangePasswordRequest, AllOps
<1>3. CASE SignOutRequest(r)
  BY <1>3, <1>a, StartMoves DEF SignOutRequest, AllOps
<1>4. CASE MailRequest(r)
  BY <1>4, <1>a, StartMoves DEF MailRequest, AllOps
<1>5. CASE LinkRequest(r)
  <2>1. PICK l \in Links, op \in {"redeem", "confirm"} :
          link[l].state # "none" /\ Start(r, "consume", Form(op, None, l, 0, 0))
    BY <1>5 DEF LinkRequest
  <2> QED BY <2>1, <1>a, StartMoves DEF AllOps
<1>6. CASE AdminRequest(r)
  <2>1. PICK op \in {"adminReset", "adminConfirm", "adminSend", "adminRevoke", "adminDelete"} :
          Start(r, "find", Form(op, None, None, 0, account.version))
    BY <1>6 DEF AdminRequest
  <2>2. op \in AllOps
    BY DEF AllOps
  <2> QED BY <2>1, <2>2, <1>a, StartMoves
<1>7. CASE IdentityRequest(r)
  BY <1>7, <1>a, StartMoves DEF IdentityRequest, AllOps
<1> QED BY <1>1, <1>2, <1>3, <1>4, <1>5, <1>6, <1>7 DEF Submit

(* The row read is the row admitted.                                       *)
LEMMA FindInv ==
  ASSUME Inv, NEW r \in Requests, FindUser(r)
  PROVE  Inv'
<1>a. /\ TypeOK /\ RequestOK(r) /\ World /\ pc[r] = "find" /\ req[r] \in Request
      /\ UNCHANGED <<account, session, link, lock>> /\ account \in Account
  BY WorldAlone DEF Inv, FindUser, TypeOK
<1>1. CASE ~Admitted(r)
  BY <1>a, <1>1, EndMoves DEF FindUser
<1>2. CASE Admitted(r)
  <2> DEFINE e == IF req[r].op \in {"adminReset", "adminDelete"} THEN req[r].expected
                  ELSE account.version
             x == [req[r] EXCEPT !.seen = account, !.expected = e]
             step == AfterFind(req[r].op)
  <2>0. e \in Nat /\ e <= account.version
    BY <1>a DEF RequestOK, RowOK, Account, Request
  <2>1. req' = [req EXCEPT ![r] = x] /\ Goto(r, step)
    BY <1>a, <1>2 DEF FindUser
  <2> HIDE DEF e
  <2>2. /\ x \in Request /\ x.op = req[r].op /\ x.link = req[r].link /\ x.seen = account
        /\ x.expected = e
    BY <1>a, <2>0 DEF Request
  <2>3. step \in {"create", "issue", "revoke", "write", "refresh"}
    BY DEF AfterFind
  <2> HIDE DEF x, step
  <2>5. pc'[r] = step /\ req'[r] = x
    BY <1>a, <2>1 DEF TypeOK, Goto
  <2>6. RowOK(r)'
    BY <1>a, <2>0, <2>2, <2>3, <2>5 DEF RowOK, Account
  <2>8. HandOK(r)'
    BY <1>a, <2>2, <2>3, <2>5 DEF RequestOK, HandOK
  <2> QED BY <1>a, <2>1, <2>2, <2>3, <2>6, <2>8, QuietMoves DEF RequestOK, Steps
<1> QED BY <1>1, <1>2

(* A row written over is the row that was read.                            *)
LEMMA CurrentIsSeen ==
  ASSUME Inv, NEW r \in Requests, pc[r] \in {"write", "refresh"}, Current(r)
  PROVE  req[r].seen = account
<1>1. RowOK(r) /\ req[r] \in Request /\ account \in Account
  BY DEF Inv, RequestOK, TypeOK
<1> QED BY <1>1 DEF RowOK, Current, Request, Account

(* The row is written at the revision that was read, or not at all.        *)
LEMMA UpdateInv ==
  ASSUME Inv, NEW r \in Requests, UpdateUser(r)
  PROVE  Inv'
<1>a. /\ TypeOK /\ RequestOK(r) /\ pc[r] = "write" /\ req[r] \in Request /\ account \in Account
      /\ UNCHANGED <<session, link, lock>>
  BY DEF Inv, UpdateUser, TypeOK
<1>1. CASE ~Current(r)
  BY <1>a, <1>1, WorldAlone, EndMoves DEF UpdateUser
<1>2. CASE Current(r)
  <2>1. req[r].seen = account /\ account' = NewRow(r) /\ account.exists
    BY <1>a, <1>2, CurrentIsSeen DEF UpdateUser, Current
  <2>2. World
    BY <1>a, <2>1 DEF World, NewRow, Account
  <2>3. CASE ~SetsPassword(req[r].op)
    BY <1>a, <1>2, <2>2, <2>3, EndMoves DEF UpdateUser
  <2>4. CASE SetsPassword(req[r].op)
    <3>1. Goto(r, "revoke") /\ req' = req
      BY <1>2, <2>4 DEF UpdateUser
    <3>2. pc'[r] = "revoke" /\ req'[r] = req[r] /\ req' = [req EXCEPT ![r] = req[r]]
      BY <1>a, <3>1 DEF TypeOK, Goto
    <3>3. RequestOK(r)'
      BY <1>a, <2>2, <3>2 DEF RequestOK, RowOK, HandOK, World
    <3> QED BY <1>a, <2>2, <3>1, <3>2, <3>3, QuietMoves DEF Steps
  <2> QED BY <2>3, <2>4
<1> QED BY <1>1, <1>2

(* The issuer's profile is written at the revision that was read, or the   *)
(* row is left alone; the sign-in goes on.                                 *)
LEMMA RefreshInv ==
  ASSUME Inv, NEW r \in Requests, Refresh(r)
  PROVE  Inv'
<1>a. /\ TypeOK /\ RequestOK(r) /\ pc[r] = "refresh" /\ req[r] \in Request
      /\ account \in Account /\ UNCHANGED <<session, link, lock>> /\ Goto(r, "create")
      /\ req' = req
  BY DEF Inv, Refresh, TypeOK
<1>1. World
  <2>1. CASE UNCHANGED account
    BY <1>a, <2>1, WorldAlone
  <2>2. CASE account' # account
    <3>1. Current(r) /\ req[r].seen = account
      BY <1>a, <2>2, CurrentIsSeen DEF Refresh
    <3>2. PICK v \in BOOLEAN :
            account' = [account EXCEPT !.verified = v, !.version = account.version + 1]
      <4>1. PICK readdressed, vouches \in BOOLEAN :
              account' = [req[r].seen EXCEPT
                            !.verified = vouches \/ (req[r].seen.verified /\ ~readdressed),
                            !.version = account.version + 1]
        BY <2>2 DEF Refresh
      <4>2. (vouches \/ (req[r].seen.verified /\ ~readdressed)) \in BOOLEAN
        OBVIOUS
      <4> QED BY <3>1, <4>1, <4>2, Zenon
    <3>3. account.version \in Nat /\ account.exists \in BOOLEAN
      BY <1>a DEF Account
    <3> DEFINE next == [account EXCEPT !.verified = v, !.version = account.version + 1]
    <3>4. next \in Account
      <4>1. account.version + 1 \in Nat
        BY <3>3
      <4> QED BY <1>a, <4>1, Zenon DEF Account
    <3>5. next.version = account.version + 1
      BY <1>a DEF Account
    <3> QED BY <3>1, <3>2, <3>3, <3>4, <3>5 DEF World, Current
  <2> QED BY <2>1, <2>2
<1>2. pc'[r] = "create" /\ req'[r] = req[r] /\ req' = [req EXCEPT ![r] = req[r]]
  BY <1>a DEF TypeOK, Goto
<1>3. RequestOK(r)'
  BY <1>a, <1>1, <1>2 DEF RequestOK, RowOK, HandOK, World
<1> QED BY <1>a, <1>1, <1>2, <1>3, QuietMoves DEF Steps

(* The steps that leave the row alone and end the request.                 *)
LEMMA EndingMoves ==
  ASSUME Inv, NEW r \in Requests, End(r), World, session' \in [Sessions -> Session],
         link' \in [Links -> Link], lock' \in Requests \cup {None},
         \A q \in Requests \ {r} : pc[q] = "commit" => lock' = lock,
         \A l \in Links : link'[l].state = "none" => link[l].state = "none" \/ ~account'.exists,
         \A l \in Links : link'[l].state = "active" =>
           link[l].state = "active" \/ \A q \in Requests : req[q].link # l,
         \A s \in Sessions : session'[s].state = "pending" =>
           session[s].state = "pending" /\ ~(pc[r] = "commit" /\ req[r].session = s)
  PROVE  Inv'
<1>1. TypeOK
  BY DEF Inv
<1>2. TypeOK'
  BY <1>1, NoRequestType DEF TypeOK, World, End, Goto, Steps
<1>3. \A q \in Requests \ {r} : pc'[q] = pc[q] /\ req'[q] = req[q]
  BY <1>1 DEF TypeOK, End, Goto
<1>4. RequestOK(r)' /\ pc'[r] = "idle" /\ req'[r].link = None
  BY <1>1, EndedOK DEF NoRequest, Form
<1>5. \A q \in Requests : \/ req'[q].link = None \/ pc'[q] = "consume"
                          \/ req'[q].link = req[q].link /\ pc[q] # "consume"
  BY <1>3, <1>4
<1>6. LinkUsedOnce'
  BY <1>1, <1>2, <1>5, LinksKept DEF Inv, TypeOK
<1> QED BY <1>2, <1>3, <1>4, <1>6, OneMoves

(* A link is followed: one request gets past this step.                    *)
LEMMA ConsumeInv ==
  ASSUME Inv, NEW r \in Requests, Consume(r)
  PROVE  Inv'
<1>a. /\ TypeOK /\ RequestOK(r) /\ World /\ pc[r] = "consume" /\ req[r] \in Request
      /\ UNCHANGED <<account, session, lock>>
  BY WorldAlone DEF Inv, Consume, TypeOK
<1> DEFINE l == req[r].link
<1>b. l \in Links /\ l # None
  BY <1>a, LinksAssumption DEF RequestOK, HandOK
<1> HIDE DEF l
<1>1. CASE link[l].state # "active"
  BY <1>a, <1>1, EndMoves DEF Consume, l
<1>2. CASE link[l].state = "active"
  <2>1. link' = [link EXCEPT ![l].state = "spent"] /\ Goto(r, "find") /\ req' = req
    BY <1>2 DEF Consume, l
  <2>2. /\ link' \in [Links -> Link] /\ link'[l].state = "spent"
        /\ \A m \in Links \ {l} : link'[m] = link[m]
    BY <1>a, <1>b, <2>1 DEF TypeOK, Link
  <2>3. TypeOK' /\ pc'[r] = "find" /\ \A q \in Requests \ {r} : pc'[q] = pc[q]
    BY <1>a, <2>1, <2>2 DEF TypeOK, World, Goto, Steps
  <2>4. LinkUsedOnce'
    <3> SUFFICES ASSUME NEW q \in Requests, req[q].link # None, pc'[q] # "consume"
                 PROVE  /\ link'[req[q].link].state # "active"
                        /\ \A p \in Requests \ {q} : req[p].link = req[q].link => pc'[p] = "consume"
      BY <2>1 DEF LinkUsedOnce
    <3>0. \A p \in Requests : req[p].link # None => req[p].link \in Links
      BY <1>a DEF TypeOK, Request
    <3>1. \A p \in Requests : req[p].link = l => pc[p] = "consume"
      BY <1>b, <1>2 DEF Inv, LinkUsedOnce
    <3>2. CASE q = r
      BY <2>2, <2>3, <3>1, <3>2 DEF l
    <3>3. CASE q # r
      <4>1. pc[q] # "consume" /\ req[q].link # l
        BY <2>3, <3>1, <3>3
      <4>2. /\ link[req[q].link].state # "active"
            /\ \A p \in Requests \ {q} : req[p].link = req[q].link => pc[p] = "consume"
        BY <4>1 DEF Inv, LinkUsedOnce
      <4> QED BY <2>2, <2>3, <3>0, <4>1, <4>2 DEF l
    <3> QED BY <3>2, <3>3
  <2>5. RequestOK(r)'
    <3>1. RowOK(r)'
      BY <1>a, <2>1, <2>3 DEF RequestOK, RowOK
    <3>2. HandOK(r)'
      BY <1>a, <1>b, <2>1, <2>2, <2>3 DEF RequestOK, HandOK, l
    <3> QED BY <3>1, <3>2 DEF RequestOK
  <2> QED BY <1>a, <1>b, <2>1, <2>2, <2>3, <2>4, <2>5, OneMoves
<1> QED BY <1>1, <1>2

(* A link is issued: nobody has it in hand.                                *)
LEMMA IssueInv ==
  ASSUME Inv, NEW r \in Requests, IssueLink(r)
  PROVE  Inv'
<1>a. TypeOK /\ World /\ End(r) /\ pc[r] = "issue" /\ UNCHANGED <<account, session, lock>>
  BY WorldAlone DEF Inv, IssueLink
<1>1. CASE UNCHANGED link
  BY <1>a, <1>1, EndMoves
<1>2. CASE account.exists
  <2>1. PICK l \in Links, kind \in {"reset", "confirm"} :
          /\ link[l].state = "none"
          /\ link' = [link EXCEPT ![l] = [state |-> "active", kind |-> kind]]
    BY <1>2 DEF IssueLink
  <2>2. /\ link' \in [Links -> Link] /\ link'[l].state = "active"
        /\ \A m \in Links \ {l} : link'[m] = link[m]
    BY <1>a, <2>1 DEF TypeOK, Link
  <2>3. \A q \in Requests : req[q].link # l
    BY <1>2, <2>1, LinksAssumption DEF Inv, RequestOK, HandOK
  <2>4. session' \in [Sessions -> Session] /\ lock' \in Requests \cup {None}
    BY <1>a DEF TypeOK
  <2> QED BY <1>a, <2>2, <2>3, <2>4, EndingMoves
<1> QED BY <1>1, <1>2 DEF IssueLink

(* Sessions are revoked: whichever are live end.                           *)
LEMMA RevokeInv ==
  ASSUME Inv, NEW r \in Requests, RevokeUser(r)
  PROVE  Inv'
<1>a. /\ TypeOK /\ RequestOK(r) /\ World /\ pc[r] = "revoke" /\ UNCHANGED <<account, link, lock>>
      /\ NoSession \in Session /\ NoSession.state = "none"
  BY WorldAlone DEF Inv, RevokeUser, Session, NoSession
<1>1. /\ session' \in [Sessions -> Session]
      /\ \A s \in Sessions : session'[s] = session[s] \/ session'[s] = NoSession
  BY <1>a DEF RevokeUser, TypeOK
<1>2. CASE End(r)
  <2>1. link' \in [Links -> Link] /\ lock' \in Requests \cup {None}
    BY <1>a DEF TypeOK
  <2> QED BY <1>a, <1>1, <1>2, <2>1, EndingMoves
<1>3. ASSUME NEW step \in {"create", "remove"}, Goto(r, step), UNCHANGED req
      PROVE  Inv'
  <2>1. TypeOK' /\ pc'[r] = step /\ \A q \in Requests \ {r} : pc'[q] = pc[q]
    BY <1>a, <1>1, <1>3 DEF TypeOK, World, Goto, Steps
  <2>2. \A q \in Requests : \/ req'[q].link = None \/ pc'[q] = "consume"
                            \/ req'[q].link = req[q].link /\ pc[q] # "consume"
    BY <1>a, <1>3, <2>1
  <2>3. LinkUsedOnce'
    BY <1>a, <2>1, <2>2, LinksKept DEF Inv, TypeOK
  <2>4. RequestOK(r)'
    BY <1>a, <1>3, <2>1 DEF RequestOK, RowOK, HandOK
  <2> QED BY <1>a, <1>1, <1>3, <2>1, <2>3, <2>4, OneMoves
<1> QED BY <1>2, <1>3 DEF RevokeUser

(* The account is deleted with everything that hangs on it.                *)
LEMMA DeleteInv ==
  ASSUME Inv, NEW r \in Requests, DeleteUser(r)
  PROVE  Inv'
<1>a. TypeOK /\ End(r) /\ pc[r] = "remove" /\ UNCHANGED lock /\ account \in Account
  BY DEF Inv, DeleteUser, TypeOK
<1>1. CASE UNCHANGED <<account, session, link>>
  BY <1>a, <1>1, WorldAlone, EndMoves
<1>2. CASE Current(r)
  <2>1. account' = [account EXCEPT !.exists = FALSE]
    BY <1>2 DEF DeleteUser
  <2>2. World /\ ~account'.exists
    <3>1. account' \in Account /\ account'.version = account.version
      BY <1>a, <2>1 DEF Account
    <3>2. account'.exists = FALSE
      BY <1>a, <2>1 DEF Account
    <3>3. account.version <= account'.version
      BY <1>a, <3>1 DEF Account
    <3> QED BY <3>1, <3>2, <3>3, Zenon DEF World
  <2>3. NoSession \in Session /\ NoSession.state = "none" /\ NoLink \in Link /\ NoLink.state = "none"
    BY DEF Session, NoSession, Link, NoLink
  <2>4. /\ session' \in [Sessions -> Session] /\ \A s \in Sessions : session'[s].state = "none"
        /\ link' \in [Links -> Link] /\ \A l \in Links : link'[l].state = "none"
    BY <1>2, <2>3 DEF DeleteUser
  <2>5. lock' \in Requests \cup {None}
    BY <1>a DEF TypeOK
  <2> QED BY <1>a, <2>2, <2>4, <2>5, EndingMoves
<1> QED BY <1>1, <1>2 DEF DeleteUser

(* A session is inserted under the lock.                                   *)
LEMMA CreateInv ==
  ASSUME Inv, NEW r \in Requests, CreateSession(r)
  PROVE  Inv'
<1>a. /\ TypeOK /\ RequestOK(r) /\ World /\ pc[r] = "create" /\ lock = None
      /\ UNCHANGED <<account, link>> /\ req[r] \in Request
  BY WorldAlone DEF Inv, CreateSession, TypeOK
<1>1. CASE ~account.exists
  BY <1>a, <1>1, EndMoves DEF CreateSession
<1>2. CASE account.exists
  <2>1. PICK s \in Sessions :
          /\ session[s].state = "none"
          /\ session' = [session EXCEPT ![s] = [state |-> "pending", recent |-> TRUE]]
          /\ req' = [req EXCEPT ![r].session = s]
          /\ lock' = r /\ Goto(r, "commit")
    BY <1>2 DEF CreateSession
  <2> DEFINE x == [req[r] EXCEPT !.session = s]
  <2>2. /\ x \in Request /\ x.session = s /\ x.link = req[r].link /\ x.op = req[r].op
        /\ req' = [req EXCEPT ![r] = x]
    <3>1. req' = [req EXCEPT ![r] = x]
      BY <2>1
    <3>2. x \in Request /\ x.session = s
      BY <1>a DEF Request
    <3>3. x.link = req[r].link /\ x.op = req[r].op
      BY <1>a DEF Request
    <3> QED BY <3>1, <3>2, <3>3
  <2> HIDE DEF x
  <2>3. [state |-> "pending", recent |-> TRUE] \in Session
    BY DEF Session
  <2>4. /\ session' \in [Sessions -> Session] /\ session'[s].state = "pending"
        /\ \A t \in Sessions \ {s} : session'[t] = session[t]
    BY <1>a, <2>1, <2>3 DEF TypeOK
  <2>5. /\ TypeOK' /\ pc'[r] = "commit" /\ req'[r] = x
        /\ \A q \in Requests \ {r} : pc'[q] = pc[q] /\ req'[q] = req[q]
    BY <1>a, <2>1, <2>2, <2>4 DEF TypeOK, World, Goto, Steps
  <2>6. \A q \in Requests : pc[q] # "commit"
    BY <1>a, RequestsAssumption DEF Inv, RequestOK, HandOK
  <2>7. \A q \in Requests : \/ req'[q].link = None \/ pc'[q] = "consume"
                            \/ req'[q].link = req[q].link /\ pc[q] # "consume"
    BY <1>a, <2>2, <2>5
  <2>8. LinkUsedOnce'
    BY <1>a, <2>5, <2>7, LinksKept DEF Inv, TypeOK
  <2>9. RequestOK(r)'
    BY <1>a, <2>1, <2>2, <2>5 DEF RequestOK, RowOK, HandOK
  <2> QED BY <1>a, <2>2, <2>4, <2>5, <2>6, <2>8, <2>9, OneMoves
<1> QED BY <1>1, <1>2

(* The insert is committed or rolled back, and the lock let go: it was the *)
(* only one under way.                                                     *)
LEMMA ReleaseMoves ==
  ASSUME Inv, NEW r \in Requests, pc[r] = "commit", End(r), lock' = None, NEW x \in Session,
         session' = [session EXCEPT ![req[r].session] = x], x.state # "pending",
         UNCHANGED <<account, link>>
  PROVE  Inv'
<1>a. /\ TypeOK /\ World /\ lock = r /\ req[r].session \in Sessions
      /\ \A q \in Requests \ {r} : pc[q] # "commit"
  BY WorldAlone DEF Inv, RequestOK, HandOK
<1>1. /\ session' \in [Sessions -> Session] /\ session'[req[r].session] = x
      /\ \A s \in Sessions \ {req[r].session} : session'[s] = session[s]
  BY <1>a DEF TypeOK
<1>2. link' \in [Links -> Link]
  BY <1>a DEF TypeOK
<1> QED BY <1>a, <1>1, <1>2, EndingMoves

(* The insert is committed: the session is live.                           *)
LEMMA CommitInv ==
  ASSUME Inv, NEW r \in Requests, CommitSession(r)
  PROVE  Inv'
<1> DEFINE s == req[r].session
           x == [session[s] EXCEPT !.state = "live"]
<1>1. s \in Sessions /\ session[s] \in Session
  BY DEF Inv, RequestOK, HandOK, TypeOK, CommitSession
<1>2. x \in Session /\ x.state = "live"
  BY <1>1 DEF Session
<1>3. session' = [session EXCEPT ![s] = x]
  BY DEF CommitSession
<1> QED BY <1>2, <1>3, ReleaseMoves DEF CommitSession

(* A sign-out ends a live session.                                         *)
LEMMA SignOutInv ==
  ASSUME Inv, NEW r \in Requests, SignOut(r)
  PROVE  Inv'
<1>a. /\ TypeOK /\ World /\ End(r) /\ pc[r] = "signOut" /\ UNCHANGED <<account, link, lock>>
      /\ NoSession \in Session /\ NoSession.state = "none"
  BY WorldAlone DEF Inv, SignOut, Session, NoSession
<1>1. /\ session' \in [Sessions -> Session] /\ link' \in [Links -> Link]
      /\ lock' \in Requests \cup {None}
      /\ \A s \in Sessions : session'[s] = session[s] \/ session'[s] = NoSession
  BY <1>a DEF SignOut, TypeOK
<1> QED BY <1>a, <1>1, EndingMoves

(* A request fails: only an open transaction is undone.                    *)
LEMMA FailInv ==
  ASSUME Inv, NEW r \in Requests, Fail(r)
  PROVE  Inv'
<1>1. CASE pc[r] = "commit"
  <2>1. NoSession \in Session /\ NoSession.state # "pending"
    BY DEF Session, NoSession
  <2> QED BY <1>1, <2>1, ReleaseMoves DEF Fail
<1>2. CASE pc[r] # "commit"
  BY <1>2, WorldAlone, EndMoves DEF Fail, Inv
<1> QED BY <1>1, <1>2

(* Time passes: no session is opened, no link that is in hand comes back.  *)
LEMMA TickInv ==
  ASSUME Inv, Tick \/ UNCHANGED vars
  PROVE  Inv'
<1>a. TypeOK /\ World /\ UNCHANGED <<account, lock, pc, req>>
  BY WorldAlone DEF Inv, Tick, AgeSession, ExpireLink, PurgeLink, vars
<1>b. NoSession \in Session /\ NoSession.state = "none" /\ NoLink \in Link /\ NoLink.state = "none"
  BY DEF Session, NoSession, Link, NoLink
<1>c. ASSUME session' \in [Sessions -> Session], link' \in [Links -> Link],
             \A s \in Sessions : session'[s].state \in {session[s].state, "none"},
             \A l \in Links : link'[l].state = "none" =>
               link[l].state = "none" \/ \A q \in Requests : req[q].link # l,
             \A l \in Links : link'[l].state = "active" => link[l].state = "active"
      PROVE  Inv'
  <2>1. TypeOK'
    BY <1>a, <1>c DEF TypeOK
  <2>2. \A q \in Requests : RequestOK(q)'
    BY <1>a, <1>c, RestKept DEF Inv
  <2>3. PendingOwned'
    BY <1>a, <1>c DEF Inv, PendingOwned
  <2>4. LinkUsedOnce'
    <3>1. \A l \in Links : link[l].state # "active" => link'[l].state # "active"
      BY <1>c
    <3>2. \A q \in Requests : req[q].link # None => req[q].link \in Links
      BY <1>a DEF TypeOK, Request
    <3> QED BY <1>a, <3>1, <3>2 DEF Inv, LinkUsedOnce
  <2> QED BY <2>1, <2>2, <2>3, <2>4 DEF Inv
<1>1. ASSUME NEW s \in Sessions, AgeSession(s) PROVE Inv'
  <2>1. PICK x \in Session : /\ session' = [session EXCEPT ![s] = x]
                             /\ x.state \in {session[s].state, "none"}
    <3>1. session[s] \in Session
      BY <1>a DEF TypeOK
    <3>2. /\ [session[s] EXCEPT !.recent = FALSE] \in Session
          /\ [session[s] EXCEPT !.recent = FALSE].state = session[s].state
      BY <3>1 DEF Session
    <3> QED BY <1>1, <1>b, <3>2 DEF AgeSession
  <2>2. /\ session' \in [Sessions -> Session] /\ link' = link /\ link \in [Links -> Link]
        /\ \A t \in Sessions : session'[t].state \in {session[t].state, "none"}
    BY <1>a, <1>1, <2>1 DEF TypeOK, AgeSession
  <2> QED BY <1>c, <2>2
<1>2. ASSUME NEW l \in Links, ExpireLink(l) PROVE Inv'
  <2>1. /\ link' \in [Links -> Link] /\ link'[l].state = "spent" /\ session' = session
        /\ session \in [Sessions -> Session] /\ \A m \in Links \ {l} : link'[m] = link[m]
    BY <1>a, <1>2 DEF ExpireLink, TypeOK, Link
  <2> QED BY <1>c, <2>1
<1>3. ASSUME NEW l \in Links, PurgeLink(l) PROVE Inv'
  <2>1. /\ link' \in [Links -> Link] /\ link'[l].state = "none" /\ session' = session
        /\ session \in [Sessions -> Session] /\ \A m \in Links \ {l} : link'[m] = link[m]
        /\ \A q \in Requests : req[q].link # l
    BY <1>a, <1>b, <1>3 DEF PurgeLink, TypeOK
  <2> QED BY <1>c, <2>1
<1>4. CASE UNCHANGED vars
  <2>1. session' = session /\ link' = link /\ session \in [Sessions -> Session] /\ link \in [Links -> Link]
    BY <1>a, <1>4 DEF vars, TypeOK
  <2> QED BY <1>c, <2>1
<1> QED BY <1>1, <1>2, <1>3, <1>4 DEF Tick

(* A step of a request.                                                    *)
LEMMA StepInv ==
  ASSUME Inv, NEW r \in Requests, Step(r)
  PROVE  Inv'
<1>1. CASE MatchesCurrent(r)
  BY <1>1, WorldAlone, EndMoves DEF MatchesCurrent, Inv
<1> QED BY <1>1, ConsumeInv, FindInv, IssueInv, UpdateInv, RefreshInv, RevokeInv, DeleteInv,
           CreateInv, CommitInv, SignOutInv DEF Step

(* The invariant holds throughout.                                         *)
LEMMA Invariance == Spec => []Inv
<1>1. Inv /\ [Next]_vars => Inv'
  BY SubmitInv, StepInv, FailInv, TickInv DEF Next
<1> QED BY InitInv, <1>1, PTL DEF Spec

(* The tables, the lock and the requests stay well formed.                 *)
THEOREM TypeCorrect == Spec => []TypeOK
BY Invariance, PTL DEF Inv

(* Of any number of requests that follow a mailed link one gets past its   *)
(* consumption (ConsumePasswordResetToken, ConsumeEmailConfirmationToken). *)
THEOREM LinksUsedOnce == Spec => []LinkUsedOnce
BY Invariance, PTL DEF Inv

(* A request is taken on by its own steps only.                            *)
LEMMA OwnSteps ==
  ASSUME Inv, NEW r \in Requests, [Next]_vars, pc'[r] # pc[r]
  PROVE  Submit(r) \/ Step(r) \/ Fail(r)
<1>1. PICK q \in Requests : Submit(q) \/ Step(q) \/ Fail(q)
  BY DEF Next, Tick, AgeSession, ExpireLink, PurgeLink, vars
<1>2. \E step : pc' = [pc EXCEPT ![q] = step]
  <2>1. CASE Submit(q)
    BY <2>1 DEF Submit, SignInRequest, IdentityRequest, ChangePasswordRequest, SignOutRequest,
       MailRequest, LinkRequest,
       AdminRequest, Start, Goto
  <2>2. CASE Fail(q)
    BY <2>2 DEF Fail, End, Goto
  <2>3. CASE Step(q)
    BY <2>3 DEF Step, Consume, FindUser, MatchesCurrent, IssueLink, UpdateUser, Refresh,
       RevokeUser, DeleteUser,
       CreateSession, CommitSession, SignOut, End, Goto
  <2> QED BY <1>1, <2>1, <2>2, <2>3
<1>3. q = r
  BY <1>2 DEF Inv, TypeOK
<1> QED BY <1>1, <1>3

(* When a revocation ends a session, none is left, pending ones included   *)
(* (RevokeUserSessions, CreateSession).                                    *)
THEOREM RevocationReachesAll == Spec => RevokeReachesAll
<1>1. ASSUME Inv, [Next]_vars, NEW r \in Requests, pc[r] = "revoke", pc'[r] # "revoke",
             \E s \in Sessions : session[s].state = "live" /\ session'[s].state # "live"
      PROVE  \A s \in Sessions : session'[s].state = "none"
  <2>1. Submit(r) \/ Step(r) \/ Fail(r)
    BY <1>1, OwnSteps
  <2>2. RevokeUser(r)
    <3>1. CASE Submit(r)
      BY <1>1, <3>1 DEF Submit, SignInRequest, IdentityRequest, ChangePasswordRequest,
         SignOutRequest, MailRequest,
         LinkRequest, AdminRequest, Start
    <3>2. CASE Fail(r)
      BY <1>1, <3>2 DEF Fail
    <3>3. CASE Step(r)
      BY <1>1, <3>3 DEF Step, Consume, FindUser, MatchesCurrent, IssueLink, UpdateUser, Refresh,
         DeleteUser,
         CreateSession, CommitSession, SignOut
    <3> QED BY <2>1, <3>1, <3>2, <3>3
  <2>3. \A s \in Sessions : session[s].state # "pending"
    BY <1>1, <2>2, RequestsAssumption DEF RevokeUser, Inv, PendingOwned, RequestOK, HandOK
  <2>4. \A s \in Sessions : session[s].state \in {"none", "pending", "live"}
    BY <1>1 DEF Inv, TypeOK, Session
  <2> QED BY <2>2, <2>3, <2>4 DEF RevokeUser, NoSession
<1>2. Inv /\ [Next]_vars =>
        [\A r \in Requests :
           /\ pc[r] = "revoke" /\ pc'[r] # "revoke"
           /\ \E s \in Sessions : session[s].state = "live" /\ session'[s].state # "live"
           => \A s \in Sessions : session'[s].state = "none"]_vars
  BY <1>1
<1> QED BY Invariance, <1>2, PTL DEF Spec, RevokeReachesAll

(* The password that settings replace is the one that was verified         *)
(* (PasswordSettingsService.Change, UpdateUser).                           *)
THEOREM VerifiedReplaced == Spec => ReplacedPasswordVerified
<1>1. ASSUME Inv, [Next]_vars, NEW r \in Requests, pc[r] = "write", req[r].op = "changePassword",
             account' # account, pc'[r] # "write"
      PROVE  req[r].seen.password = account.password
  <2>1. Submit(r) \/ Step(r) \/ Fail(r)
    BY <1>1, OwnSteps
  <2>2. UpdateUser(r)
    <3>1. CASE Submit(r)
      BY <1>1, <3>1 DEF Submit, SignInRequest, IdentityRequest, ChangePasswordRequest,
         SignOutRequest, MailRequest,
         LinkRequest, AdminRequest, Start
    <3>2. CASE Fail(r)
      BY <1>1, <3>2 DEF Fail
    <3>3. CASE Step(r)
      BY <1>1, <3>3 DEF Step, Consume, FindUser, MatchesCurrent, IssueLink, Refresh, RevokeUser,
         DeleteUser,
         CreateSession, CommitSession, SignOut
    <3> QED BY <2>1, <3>1, <3>2, <3>3
  <2>3. Current(r)
    BY <1>1, <2>2 DEF UpdateUser
  <2> QED BY <1>1, <2>3, CurrentIsSeen
<1>2. Inv /\ [Next]_vars =>
        [\A r \in Requests :
           pc[r] = "write" /\ req[r].op = "changePassword" /\ account' # account
           /\ pc'[r] # "write" => req[r].seen.password = account.password]_vars
  BY <1>1
<1> QED BY Invariance, <1>2, PTL DEF Spec, ReplacedPasswordVerified

(* The steps that leave the row alone.                                     *)
LEMMA RowAlone ==
  ASSUME NEW r \in Requests, Submit(r) \/ Step(r) \/ Fail(r),
         ~UpdateUser(r), ~Refresh(r), ~DeleteUser(r)
  PROVE  account' = account
<1>1. CASE Submit(r)
  BY <1>1 DEF Submit, SignInRequest, IdentityRequest, ChangePasswordRequest, SignOutRequest,
     MailRequest, LinkRequest, AdminRequest, Start
<1>2. CASE Fail(r)
  BY <1>2 DEF Fail
<1>3. CASE Step(r)
  BY <1>3 DEF Step, Consume, FindUser, MatchesCurrent, IssueLink, RevokeUser, CreateSession,
     CommitSession, SignOut
<1> QED BY <1>1, <1>2, <1>3

(* A confirmation stays, unless a refresh that has read it takes it away   *)
(* with the address: no write of the whole row from before the             *)
(* confirmation goes through (UpdateUser, SSOClientService.refresh).       *)
THEOREM ConfirmationsKept == Spec => ConfirmationKept
<1>1. ASSUME Inv, [Next]_vars, account.verified, ~account'.verified
      PROVE  \E r \in Requests : /\ pc[r] = "refresh" /\ pc'[r] = "create"
                                 /\ req[r].seen = account
  <2>1. account' # account
    BY <1>1
  <2>2. PICK r \in Requests : Submit(r) \/ Step(r) \/ Fail(r)
    BY <1>1, <2>1 DEF Next, Tick, AgeSession, ExpireLink, PurgeLink, vars
  <2>3. CASE UpdateUser(r)
    <3>1. pc[r] = "write" /\ Current(r) /\ account' = NewRow(r)
      BY <2>1, <2>3 DEF UpdateUser
    <3>2. req[r].seen = account
      BY <1>1, <3>1, CurrentIsSeen
    <3>3. account'.verified = (account.verified \/ req[r].op \in {"confirm", "adminConfirm"})
      BY <3>1, <3>2, Zenon DEF NewRow
    <3> QED BY <1>1, <3>3
  <2>4. CASE DeleteUser(r)
    <3>1. account' = [account EXCEPT !.exists = FALSE] /\ account \in Account
      BY <1>1, <2>1, <2>4 DEF DeleteUser, Inv, TypeOK
    <3>2. account'.verified = account.verified
      BY <3>1 DEF Account
    <3> QED BY <1>1, <3>2
  <2>5. CASE Refresh(r)
    <3>1. pc[r] = "refresh" /\ Current(r) /\ Goto(r, "create")
      BY <2>1, <2>5 DEF Refresh
    <3>2. req[r].seen = account
      BY <1>1, <3>1, CurrentIsSeen
    <3>3. pc'[r] = "create"
      BY <1>1, <3>1 DEF Goto, Inv, TypeOK
    <3> QED BY <3>1, <3>2, <3>3
  <2> QED BY <2>1, <2>2, <2>3, <2>4, <2>5, RowAlone
<1>2. Inv /\ [Next]_vars =>
        [account.verified /\ ~account'.verified =>
           \E r \in Requests :
             /\ pc[r] = "refresh" /\ pc'[r] = "create"
             /\ req[r].seen = account]_vars
  BY <1>1
<1> QED BY Invariance, <1>2, PTL DEF Spec, ConfirmationKept

-----------------------------------------------------------------------------
(* The sessions of the account as AccountSessions sees them.               *)
OpenSessions == {s \in Sessions : session[s].state # "none"}

PromiseVars == <<account.exists, OpenSessions>>

(* A new account has no session, or the one it was made in.                *)
LEMMA PromiseInit == Init => Promise!Init
<1> SUFFICES ASSUME Init PROVE Promise!Init
  OBVIOUS
<1>0. account.exists = TRUE
  BY DEF Init
<1>1. CASE session = [s \in Sessions |-> NoSession]
  <2>1. {s \in Sessions : session[s].state # "none"} = {}
    BY <1>1 DEF NoSession
  <2> QED BY <1>0, <2>1, Zenon DEF Promise!Init
<1>2. ASSUME NEW first \in Sessions,
             session = [s \in Sessions |-> IF s = first THEN [state |-> "live", recent |-> TRUE]
                                           ELSE NoSession]
      PROVE  Promise!Init
  <2>1. {s \in Sessions : session[s].state # "none"} = {first}
    BY <1>2 DEF NoSession
  <2> QED BY <1>0, <2>1, Zenon DEF Promise!Init
<1> QED BY <1>1, <1>2 DEF Init

(* The sessions lock is held by a request that has inserted its session    *)
(* and not committed it, a step nobody can keep it from; and an insert that *)
(* is not committed belongs to the holder.  So whoever waits, for the lock *)
(* or for the row that the insert's foreign key holds, waits for a request *)
(* that goes on (CreateSession, RevokeUserSessions, DeleteUser).           *)
LockAccounted ==
  /\ \A r \in Requests : lock = r <=> pc[r] = "commit"
  /\ \A r \in Requests : pc[r] = "commit" => session[req[r].session].state = "pending"
  /\ \A s \in Sessions : session[s].state = "pending" =>
       \E r \in Requests : lock = r /\ req[r].session = s

(* The part of it that the invariant does not have yet.                    *)
HolderOK ==
  \A r \in Requests :
    /\ lock = r => pc[r] = "commit"
    /\ pc[r] = "commit" => session[req[r].session].state = "pending"

(* A step of r by which it neither takes the lock nor gives it back.       *)
Aside(r) ==
  /\ pc[r] # "commit" /\ lock' = lock
  /\ \E step \in Steps \ {"commit"} : pc' = [pc EXCEPT ![r] = step]
  /\ \A q \in Requests \ {r} : req'[q] = req[q]

(* Aside from the holder, steps keep the lock accounted for when they      *)
(* leave inserts that are not committed alone.                             *)
LEMMA AsideHolder ==
  ASSUME Inv, HolderOK, NEW r \in Requests, Aside(r),
         \A s \in Sessions : session[s].state = "pending" => session'[s].state = "pending"
  PROVE  HolderOK'
<1> SUFFICES ASSUME NEW q \in Requests
             PROVE  /\ lock' = q => pc'[q] = "commit"
                    /\ pc'[q] = "commit" => session'[req'[q].session].state = "pending"
  BY DEF HolderOK
<1>1. pc[q] = "commit" => req[q].session \in Sessions
  BY DEF Inv, RequestOK, HandOK
<1>2. CASE q = r
  BY <1>1, <1>2 DEF Aside, HolderOK, Inv, TypeOK
<1>3. CASE q # r
  <2>1. pc'[q] = pc[q] /\ req'[q] = req[q] /\ lock' = lock
    BY <1>3 DEF Aside, Inv, TypeOK
  <2> QED BY <2>1, <1>1 DEF HolderOK
<1> QED BY <1>2, <1>3

(* Forms that are sent and steps that touch no session are such steps.     *)
LEMMA QuietAside ==
  ASSUME Inv, NEW r \in Requests,
         \/ Submit(r) \/ Consume(r) \/ FindUser(r) \/ MatchesCurrent(r) \/ IssueLink(r)
         \/ UpdateUser(r) \/ Refresh(r)
  PROVE  Aside(r) /\ UNCHANGED session
<1>1. CASE Submit(r)
  BY <1>1 DEF Submit, SignInRequest, IdentityRequest, ChangePasswordRequest, SignOutRequest,
     MailRequest, LinkRequest,
     AdminRequest, Start, Goto, Aside, Steps, Inv, TypeOK
<1>2. CASE Consume(r)
  BY <1>2 DEF Consume, End, Goto, Aside, Steps, Inv, TypeOK
<1>4. CASE FindUser(r)
  <2>1. AfterFind(req[r].op) \in Steps \ {"commit"}
    BY DEF AfterFind, Steps
  <2>2. \A q \in Requests \ {r} : req'[q] = req[q]
    BY <1>4 DEF FindUser, End, Inv, TypeOK
  <2>3. \E step \in Steps \ {"commit"} : pc' = [pc EXCEPT ![r] = step]
    BY <1>4, <2>1 DEF FindUser, End, Goto, Steps
  <2> QED BY <1>4, <2>2, <2>3 DEF FindUser, Aside
<1>3. CASE MatchesCurrent(r) \/ IssueLink(r) \/ UpdateUser(r) \/ Refresh(r)
  BY <1>3 DEF MatchesCurrent, IssueLink, UpdateUser, Refresh, End, Goto, Aside, Steps, Inv, TypeOK
<1> QED BY <1>1, <1>2, <1>3, <1>4

(* Every step keeps the lock accounted for.                                *)
LEMMA HolderNext == Inv /\ HolderOK /\ [Next]_vars => HolderOK'
<1> SUFFICES ASSUME Inv, HolderOK, [Next]_vars PROVE HolderOK'
  OBVIOUS
<1>0. TypeOK /\ \A q \in Requests : RequestOK(q) /\ HandOK(q)
  BY DEF Inv, RequestOK
<1>1. CASE UNCHANGED vars
  BY <1>1 DEF vars, HolderOK
<1>2. CASE Tick
  <2>1. lock' = lock /\ pc' = pc /\ req' = req
    BY <1>2 DEF Tick, AgeSession, ExpireLink, PurgeLink
  <2>2. \A s \in Sessions : session[s].state = "pending" => session'[s].state = "pending"
    BY <1>0, <1>2 DEF Tick, AgeSession, ExpireLink, PurgeLink, TypeOK
  <2> QED BY <1>0, <2>1, <2>2 DEF HolderOK, HandOK
<1>3. ASSUME NEW r \in Requests, Submit(r) \/ Step(r) \/ Fail(r) PROVE HolderOK'
  <2>1. CASE \/ Submit(r) \/ Consume(r) \/ FindUser(r) \/ MatchesCurrent(r) \/ IssueLink(r)
             \/ UpdateUser(r) \/ Refresh(r)
    <3>1. Aside(r) /\ UNCHANGED session
      BY <2>1, QuietAside
    <3> QED BY <3>1, AsideHolder
  <2>2. CASE RevokeUser(r)
    <3>1. \E step \in Steps \ {"commit"} : pc' = [pc EXCEPT ![r] = step]
      BY <2>2 DEF RevokeUser, End, Goto, Steps
    <3>2. \A q \in Requests \ {r} : req'[q] = req[q]
      BY <1>0, <2>2 DEF RevokeUser, End, TypeOK
    <3>3. Aside(r)
      BY <2>2, <3>1, <3>2 DEF Aside, RevokeUser
    <3>4. \A s \in Sessions : session[s].state = "pending" => session'[s].state = "pending"
      BY <2>2 DEF RevokeUser
    <3> QED BY <3>3, <3>4, AsideHolder
  <2>3. CASE DeleteUser(r) \/ SignOut(r)
    <3>1. Aside(r)
      BY <1>0, <2>3 DEF Aside, DeleteUser, SignOut, End, Goto, Steps, TypeOK
    <3>2. \A s \in Sessions : session[s].state = "pending" => session'[s].state = "pending"
      BY <1>0, <2>3 DEF DeleteUser, SignOut, Live, TypeOK
    <3> QED BY <3>1, <3>2, AsideHolder
  <2>4. CASE CreateSession(r)
    <3>1. CASE ~account.exists
      <4>1. Aside(r) /\ UNCHANGED session
        BY <1>0, <2>4, <3>1 DEF Aside, CreateSession, End, Goto, Steps, TypeOK
      <4> QED BY <4>1, AsideHolder
    <3>2. CASE account.exists
      <4>1. PICK s \in Sessions :
              /\ session' = [session EXCEPT ![s] = [state |-> "pending", recent |-> TRUE]]
              /\ req' = [req EXCEPT ![r].session = s]
        BY <2>4, <3>2 DEF CreateSession
      <4>2. lock = None /\ lock' = r /\ pc' = [pc EXCEPT ![r] = "commit"]
        BY <2>4, <3>2 DEF CreateSession, Goto
      <4>3. \A q \in Requests : pc[q] # "commit"
        BY <1>0, <4>2, RequestsAssumption DEF HandOK
      <4>4. \A q \in Requests : pc'[q] = "commit" <=> q = r
        BY <1>0, <4>2, <4>3 DEF TypeOK
      <4>5. req'[r].session = s /\ session'[s].state = "pending"
        BY <1>0, <4>1 DEF TypeOK, Request
      <4> QED BY <4>2, <4>4, <4>5 DEF HolderOK
    <3> QED BY <3>1, <3>2
  <2>5. CASE CommitSession(r) \/ (Fail(r) /\ pc[r] = "commit")
    <3>1. pc[r] = "commit" /\ lock' = None /\ pc' = [pc EXCEPT ![r] = "idle"]
      BY <2>5 DEF CommitSession, Fail, End, Goto
    <3>2. \A q \in Requests : pc'[q] # "commit"
      BY <1>0, <3>1 DEF HandOK, TypeOK
    <3> QED BY <3>1, <3>2, RequestsAssumption DEF HolderOK
  <2>6. CASE Fail(r) /\ pc[r] # "commit"
    <3>1. Aside(r) /\ UNCHANGED session
      BY <1>0, <2>6 DEF Aside, Fail, End, Goto, Steps, TypeOK
    <3> QED BY <3>1, AsideHolder
  <2> QED BY <1>3, <2>1, <2>2, <2>3, <2>4, <2>5, <2>6 DEF Step
<1> QED BY <1>1, <1>2, <1>3 DEF Next

(* It is accounted for throughout.                                         *)
LEMMA HolderInvariance == Spec => []HolderOK
<1>1. Init => HolderOK
  BY RequestsAssumption DEF Init, HolderOK
<1> QED BY <1>1, HolderNext, Invariance, PTL DEF Spec

(* Whoever waits for the account's sessions lock, or for the row that an   *)
(* uncommitted session refers to, waits for one request, and that one is   *)
(* about to commit; nothing is left locked by a request that has ended or  *)
(* failed (lockUserSessions in CreateSession and RevokeUserSessions).      *)
THEOREM LockReleased == Spec => []LockAccounted
<1>1. Inv /\ HolderOK => LockAccounted
  <2> SUFFICES ASSUME Inv, HolderOK PROVE LockAccounted
    OBVIOUS
  <2>1. \A r \in Requests : lock = r <=> pc[r] = "commit"
    BY DEF Inv, RequestOK, HandOK, HolderOK
  <2> QED BY <2>1 DEF Inv, PendingOwned, HolderOK, LockAccounted
<1> QED BY <1>1, Invariance, HolderInvariance, PTL

(* What moves neither the row nor a session is nothing to the promise.     *)
LEMMA PromiseKept ==
  ASSUME UNCHANGED session, account' = account
  PROVE  UNCHANGED PromiseVars
BY DEF PromiseVars, OpenSessions

(* The effects that the promise allows a step to have on a session.        *)
LEMMA OneSession ==
  ASSUME NEW s \in Sessions, session \in [Sessions -> Session],
         NEW row \in Session, session' = [session EXCEPT ![s] = row]
  PROVE  /\ row.state # "none" => OpenSessions' = OpenSessions \cup {s}
         /\ row.state = "none" => OpenSessions' = OpenSessions \ {s}
BY DEF OpenSessions

(* Closing one session, or leaving it closed, is a step of the promise.    *)
LEMMA PromiseClose ==
  ASSUME TypeOK, NEW s \in Sessions, UNCHANGED account,
         session' = [session EXCEPT ![s] = NoSession]
  PROVE  Promise!Next
<1>1. NoSession \in Session /\ NoSession.state = "none"
  BY DEF NoSession, Session
<1>2. OpenSessions' = OpenSessions \ {s}
  BY <1>1, OneSession DEF TypeOK
<1>3. Promise!Close(s)
  BY <1>2 DEF OpenSessions, Promise!Close
<1> QED BY <1>3 DEF Promise!Next

(* The row is only written while it exists, which is nothing to the        *)
(* promise.                                                                *)
LEMMA PromiseUpdate ==
  ASSUME Inv, NEW r \in Requests, UpdateUser(r) \/ Refresh(r)
  PROVE  UNCHANGED PromiseVars
<1>1. CASE UNCHANGED account
  BY <1>1, PromiseKept DEF UpdateUser, Refresh
<1>2. CASE account' # account
  <2>1. pc[r] \in {"write", "refresh"} /\ Current(r)
    BY <1>2 DEF UpdateUser, Refresh
  <2>2. account.exists = TRUE /\ req[r].seen = account /\ account \in Account
    BY <2>1, CurrentIsSeen DEF Current, Inv, TypeOK, Account
  <2>3. account'.exists = TRUE
    <3>1. CASE UpdateUser(r)
      BY <1>2, <3>1 DEF UpdateUser, NewRow
    <3>2. CASE Refresh(r)
      BY <1>2, <2>2, <3>2 DEF Refresh, Account
    <3> QED BY <3>1, <3>2
  <2> QED BY <2>2, <2>3 DEF UpdateUser, Refresh, PromiseVars, OpenSessions
<1> QED BY <1>1, <1>2

(* Every step of the services is one of the promise, or nothing to it.     *)
LEMMA PromiseNext ==
  ASSUME Inv, HolderOK, [Next]_vars
  PROVE  [Promise!Next]_PromiseVars
<1>0. TypeOK /\ \A q \in Requests : HandOK(q)
  BY DEF Inv, RequestOK
<1>1. CASE UNCHANGED vars
  BY <1>1, PromiseKept DEF vars
<1>2. CASE Tick
  <2>1. CASE \E s \in Sessions : AgeSession(s)
    <3>1. PICK s \in Sessions : AgeSession(s)
      BY <2>1
    <3>2. CASE session[s].recent
      <4>1. session[s] \in Session /\ session[s].state = "live"
        BY <1>0, <3>1 DEF AgeSession, TypeOK
      <4>2. [session[s] EXCEPT !.recent = FALSE] \in Session
            /\ [session[s] EXCEPT !.recent = FALSE].state = "live"
        BY <4>1 DEF Session
      <4>3. session' = [session EXCEPT ![s] = [session[s] EXCEPT !.recent = FALSE]]
        BY <3>1, <3>2 DEF AgeSession
      <4>4. OpenSessions' = OpenSessions \cup {s} /\ s \in OpenSessions
        BY <1>0, <4>1, <4>2, <4>3, OneSession DEF OpenSessions, TypeOK
      <4> QED BY <3>1, <4>4 DEF AgeSession, PromiseVars
    <3>3. CASE ~session[s].recent
      BY <1>0, <3>1, <3>3, PromiseClose DEF AgeSession
    <3> QED BY <3>2, <3>3
  <2>2. CASE \E l \in Links : ExpireLink(l) \/ PurgeLink(l)
    BY <2>2, PromiseKept DEF ExpireLink, PurgeLink
  <2> QED BY <1>2, <2>1, <2>2 DEF Tick
<1>3. ASSUME NEW r \in Requests, Submit(r) \/ Step(r) \/ Fail(r)
      PROVE  [Promise!Next]_PromiseVars
  <2>1. CASE Submit(r)
    BY <2>1, PromiseKept DEF Submit, SignInRequest, IdentityRequest, ChangePasswordRequest,
       SignOutRequest,
       MailRequest, LinkRequest, AdminRequest, Start
  <2>2. CASE Consume(r) \/ FindUser(r) \/ MatchesCurrent(r) \/ IssueLink(r)
    BY <2>2, PromiseKept DEF Consume, FindUser, MatchesCurrent, IssueLink
  <2>3. CASE UpdateUser(r) \/ Refresh(r)
    BY <2>3, PromiseUpdate
  <2>4. CASE RevokeUser(r)
    <3>1. \A s \in Sessions : session[s].state # "pending"
      BY <2>4, RequestsAssumption DEF RevokeUser, Inv, PendingOwned, RequestOK, HandOK
    <3>2. \A s \in Sessions : session[s].state \in {"none", "pending", "live"}
      BY <1>0 DEF TypeOK, Session
    <3>3. \A s \in Sessions : session'[s].state = "none"
      BY <2>4, <3>1, <3>2 DEF RevokeUser, NoSession
    <3>4. Promise!Revoke
      BY <2>4, <3>3 DEF RevokeUser, Promise!Revoke
    <3> QED BY <3>4 DEF Promise!Next
  <2>5. CASE DeleteUser(r)
    <3>1. CASE ~Current(r)
      BY <2>5, <3>1, PromiseKept DEF DeleteUser
    <3>2. CASE Current(r)
      <4>1. account' = [account EXCEPT !.exists = FALSE] /\ session' = [s \in Sessions |-> NoSession]
        BY <2>5, <3>2 DEF DeleteUser
      <4>2. account'.exists = FALSE
        BY <1>0, <4>1 DEF TypeOK, Account
      <4>3. \A s \in Sessions : session'[s].state = "none"
        BY <4>1 DEF NoSession
      <4>4. Promise!Delete
        BY <4>2, <4>3 DEF Promise!Delete
      <4> QED BY <4>4 DEF Promise!Next
    <3> QED BY <3>1, <3>2
  <2>6. CASE CreateSession(r)
    <3>1. CASE ~account.exists
      BY <2>6, <3>1, PromiseKept DEF CreateSession
    <3>2. CASE account.exists
      <4>1. PICK s \in Sessions :
              session' = [session EXCEPT ![s] = [state |-> "pending", recent |-> TRUE]]
        BY <2>6, <3>2 DEF CreateSession
      <4>2. [state |-> "pending", recent |-> TRUE] \in Session
        BY DEF Session
      <4>3. OpenSessions' = OpenSessions \cup {s}
        BY <1>0, <4>1, <4>2, OneSession DEF TypeOK
      <4>4. account' = account
        BY <2>6 DEF CreateSession
      <4>5. Promise!Open(s)
        BY <3>2, <4>3, <4>4 DEF OpenSessions, Promise!Open
      <4> QED BY <4>5 DEF Promise!Next
    <3> QED BY <3>1, <3>2
  <2>7. CASE CommitSession(r)
    <3>1. /\ req[r].session \in Sessions
          /\ session[req[r].session] \in Session /\ session[req[r].session].state = "pending"
      BY <1>0, <2>7 DEF CommitSession, HandOK, HolderOK, TypeOK
    <3>2. session' = [session EXCEPT ![req[r].session] = [@ EXCEPT !.state = "live"]]
      BY <2>7 DEF CommitSession
    <3>3. [session[req[r].session] EXCEPT !.state = "live"] \in Session
          /\ [session[req[r].session] EXCEPT !.state = "live"].state = "live"
      BY <3>1 DEF Session
    <3>4. OpenSessions' = OpenSessions \cup {req[r].session}
      BY <1>0, <3>1, <3>2, <3>3, OneSession DEF TypeOK
    <3>5. req[r].session \in OpenSessions
      BY <3>1 DEF OpenSessions
    <3> QED BY <2>7, <3>4, <3>5 DEF CommitSession, PromiseVars
  <2>8. CASE SignOut(r)
    <3>1. req[r].session \in Sessions /\ account' = account
      BY <1>0, <2>8 DEF SignOut, HandOK
    <3>2. CASE Live(req[r].session)
      BY <1>0, <2>8, <3>1, <3>2, PromiseClose DEF SignOut
    <3>3. CASE ~Live(req[r].session)
      <4>1. session' = session
        BY <1>0, <2>8, <3>3 DEF SignOut, TypeOK
      <4> QED BY <3>1, <4>1, PromiseKept
    <3> QED BY <3>2, <3>3
  <2>9. CASE Fail(r)
    <3>1. CASE pc[r] = "commit"
      BY <1>0, <2>9, <3>1, PromiseClose DEF Fail, HandOK
    <3>2. CASE pc[r] # "commit"
      BY <2>9, <3>2, PromiseKept DEF Fail
    <3> QED BY <3>1, <3>2
  <2> QED BY <1>3, <2>1, <2>2, <2>3, <2>4, <2>5, <2>6, <2>7, <2>8, <2>9 DEF Step
<1> QED BY <1>1, <1>2, <1>3 DEF Next

(* The services, with their statements interleaved in any way, keep the    *)
(* promise about an account's sessions: none opens on an account that is   *)
(* deleted, and a revocation or a deletion ends all of them or none        *)
(* (SessionService, PasswordSettingsService, AdminAccountService).         *)
THEOREM SessionsImplemented == Spec => ImplementsSessions
<1>1. Inv /\ HolderOK /\ [Next]_vars =>
        [Promise!Next]_(<<account.exists,
                         {s \in Sessions : session[s].state # "none"}>>)
  BY PromiseNext DEF PromiseVars, OpenSessions
<1> QED BY <1>1, PromiseInit, Invariance, HolderInvariance, PTL
        DEF Spec, ImplementsSessions, Promise!Spec, Promise!vars
=============================================================================
