--------------------------- MODULE AccountsProofs ---------------------------
(***************************************************************************)
(* Proofs about Accounts, for every set of accounts, profiles and request  *)
(* slots.                                                                  *)
(*                                                                         *)
(* The invariant says of each request what it may rely on at the step it   *)
(* has reached.  The revision a write expects is never ahead of the row,   *)
(* and a row that is still at the revision that was read is the row that   *)
(* was read; so a write that goes through carries nothing stale.  And a    *)
(* write that would take rights away from an administrator at the expected *)
(* revision holds the lock, and knows of another administrator.            *)
(***************************************************************************)
EXTENDS Accounts, TLAPS

Another(u) == \E w \in Users : w # u /\ IsAdministrator(w)

(* The request is about an account that has existed, and expects a         *)
(* revision that account has had.                                          *)
Aimed(r) ==
  pc[r] # "idle" =>
    /\ req[r].op # "none"
    /\ req[r].target \in Users
    /\ req[r].actor \in Users
    /\ user[req[r].target].state # "unused"
    /\ req[r].expected <= user[req[r].target].version

(* The row that was read is the row as it is, or the revision has moved.   *)
SeenRow(r) ==
  pc[r] \in {"check", "lock", "others", "self", "write"} /\ req[r].op # "delete" =>
    /\ req[r].seen.state \in {"guest", "user"}
    /\ req[r].expected <= req[r].seen.version
    /\ req[r].seen.version <= user[req[r].target].version
    /\ Revision(req[r].target, req[r].seen.version) => req[r].seen = user[req[r].target]

LockHeld(r) ==
  /\ req[r].locked => adminLock = r
  /\ pc[r] \in {"others", "self"} => req[r].locked

(* What CountOthers found stays true while the lock is held.               *)
Counted(r) == pc[r] = "self" /\ req[r].others => Another(req[r].target)

(* A write that passed the check and still finds its revision.             *)
MayRemove(r) ==
  pc[r] = "write" /\ MustKeepAnother(req[r].op, NewRow(r))
  /\ Revision(req[r].target, req[r].expected) /\ IsAdministrator(req[r].target)
  => req[r].locked /\ Another(req[r].target)

RequestInv(r) == Aimed(r) /\ SeenRow(r) /\ LockHeld(r) /\ Counted(r) /\ MayRemove(r)

Inv ==
  /\ TypeOK
  /\ AtLeastOneAdministrator
  /\ \A r \in Requests : RequestInv(r)

(* The other requests are where they were, and keep the lock.              *)
OthersStay(r) ==
  \A q \in Requests \ {r} :
    pc'[q] = pc[q] /\ req'[q] = req[q] /\ (adminLock = q => adminLock' = q)

(* The target's row is replaced, at a later revision or for good.          *)
Written(r, row) ==
  /\ pc[r] = "write"
  /\ row \in Row
  /\ row.state # "unused"
  /\ row.version >= user[req[r].target].version
  /\ row.state = "deleted" \/ row.version > user[req[r].target].version
  /\ user' = [user EXCEPT ![req[r].target] = row]
  /\ IsAdministrator(req[r].target) =>
       (row.state = "user" /\ row.admin) \/ (req[r].locked /\ Another(req[r].target))

-----------------------------------------------------------------------------
(* Administrators is non-empty when somebody is an administrator.          *)
LEMMA SomeAdministrator ==
  AtLeastOneAdministrator <=> \E u \in Users : IsAdministrator(u)
  BY DEF AtLeastOneAdministrator, Administrators

(* The idle request and the unused row are well formed.                    *)
LEMMA NoRequestType == UnusedRow \in Row /\ NoRequest \in Request
  <1>1. SomeProfile \in Profiles
    BY ProfilesAssumption DEF SomeProfile
  <1>2. UnusedRow \in Row
    BY <1>1 DEF UnusedRow, Row
  <1> QED BY <1>1, <1>2 DEF NoRequest, Form, Request, Ops

(* A form is a well formed request.                                        *)
LEMMA FormType ==
  ASSUME NEW op \in Ops, NEW a \in Users, NEW t \in Users, NEW v \in Nat,
         NEW g \in BOOLEAN, NEW p \in Profiles
  PROVE Form(op, a, t, v, g, p) \in Request
  BY NoRequestType DEF Form, Request

(* The initial state has the bootstrap administrator and idle requests.    *)
LEMMA InitInv == Init => Inv
  <1> SUFFICES ASSUME Init PROVE Inv OBVIOUS
  <1>1. PICK first \in Users :
          user = [u \in Users |->
                    IF u = first THEN [UnusedRow EXCEPT !.state = "user", !.admin = TRUE]
                    ELSE UnusedRow]
    BY DEF Init
  <1>2. [UnusedRow EXCEPT !.state = "user", !.admin = TRUE] \in Row
    BY NoRequestType DEF Row, UnusedRow
  <1>3. TypeOK
    BY <1>1, <1>2, NoRequestType DEF Init, TypeOK, Steps
  <1>4. IsAdministrator(first)
    BY <1>1 DEF IsAdministrator, UnusedRow
  <1>5. ASSUME NEW r \in Requests PROVE RequestInv(r)
    BY DEF Init, RequestInv, Aimed, SeenRow, LockHeld, Counted, MayRemove, NoRequest, Form
  <1> QED BY <1>3, <1>4, <1>5, SomeAdministrator DEF Inv

-----------------------------------------------------------------------------
(* A step that leaves the table alone disturbs no other request.           *)
LEMMA QuietStep ==
  ASSUME Inv, NEW r \in Requests, user' = user, OthersStay(r), RequestInv(r)', TypeOK'
  PROVE Inv'
  <1>1. AtLeastOneAdministrator'
    BY DEF Inv, AtLeastOneAdministrator, Administrators, IsAdministrator
  <1>2. ASSUME NEW q \in Requests PROVE RequestInv(q)'
    <2>1. CASE q = r
      BY <2>1
    <2>2. CASE q # r
      <3>1. pc'[q] = pc[q] /\ req'[q] = req[q] /\ (adminLock = q => adminLock' = q)
        BY <2>2 DEF OthersStay
      <3>2. RequestInv(q)
        BY DEF Inv
      <3>3. Aimed(q)' /\ SeenRow(q)' /\ LockHeld(q)'
        BY <3>1, <3>2 DEF RequestInv, Aimed, SeenRow, LockHeld, Revision, Exists
      <3>4. Counted(q)' /\ MayRemove(q)'
        BY <3>1, <3>2 DEF RequestInv, Counted, MayRemove, Revision, Exists, Another,
             IsAdministrator, NewRow
      <3> QED BY <3>3, <3>4 DEF RequestInv
    <2> QED BY <2>1, <2>2
  <1> QED BY <1>1, <1>2 DEF Inv

(* Ending a request leaves it idle and gives back its lock.                *)
LEMMA EndStep ==
  ASSUME Inv, NEW r \in Requests, End(r), user' \in [Users -> Row]
  PROVE OthersStay(r) /\ TypeOK' /\ RequestInv(r)'
  <1>1. TypeOK /\ LockHeld(r)
    BY DEF Inv, RequestInv
  <1>2. TypeOK'
    BY <1>1, NoRequestType DEF TypeOK, End, Steps
  <1>3. pc'[r] = "idle" /\ req'[r] = NoRequest
    BY <1>1 DEF TypeOK, End
  <1>4. RequestInv(r)'
    BY <1>3 DEF RequestInv, Aimed, SeenRow, LockHeld, Counted, MayRemove, NoRequest, Form
  <1>5. OthersStay(r)
    BY <1>1 DEF OthersStay, End, TypeOK, LockHeld
  <1> QED BY <1>2, <1>4, <1>5

(* Moving a request to another step touches nobody else.                   *)
LEMMA MoveStep ==
  ASSUME Inv, NEW r \in Requests, NEW s \in Steps, NEW q \in Request,
         Goto(r, s), req' = [req EXCEPT ![r] = q], user' = user,
         adminLock' = adminLock
  PROVE /\ OthersStay(r)
        /\ TypeOK'
        /\ pc'[r] = s
        /\ req'[r] = q
  <1>1. TypeOK
    BY DEF Inv
  <1> QED BY <1>1 DEF Goto, TypeOK, OthersStay

(* A submitted form is about an account as it is now.                      *)
LEMMA StartInv ==
  ASSUME Inv, NEW r \in Requests, NEW op \in Ops \ {"none"}, NEW a \in Users, NEW t \in Users,
         NEW g \in BOOLEAN, NEW p \in Profiles, NEW s \in {"authorize", "find"},
         Start(r, s, Form(op, a, t, user[t].version, g, p))
  PROVE Inv'
  <1> DEFINE q == Form(op, a, t, user[t].version, g, p)
  <1>1. TypeOK /\ user[t].version \in Nat
    BY DEF Inv, TypeOK, Row
  <1>2. q \in Request /\ s \in Steps
    BY <1>1, FormType DEF Steps
  <1>3. q.op = op /\ q.target = t /\ q.actor = a /\ q.expected = user[t].version /\ q.locked = FALSE
    BY DEF Form
  <1>4. Exists(t) /\ Goto(r, s) /\ req' = [req EXCEPT ![r] = q] /\ user' = user
        /\ adminLock' = adminLock
    BY <1>3 DEF Start
  <1> HIDE DEF q
  <1>5. OthersStay(r) /\ TypeOK' /\ pc'[r] = s /\ req'[r] = q
    BY <1>2, <1>4, MoveStep
  <1>6. RequestInv(r)'
    BY <1>1, <1>3, <1>4, <1>5 DEF RequestInv, Aimed, SeenRow, LockHeld, Counted,
         MayRemove, Exists
  <1> QED BY <1>4, <1>5, <1>6, QuietStep

(* Every handler submits such a form.                                     *)
LEMMA SubmitInv ==
  ASSUME Inv, NEW r \in Requests, Submit(r)
  PROVE Inv'
  <1>1. SomeProfile \in Profiles
    BY ProfilesAssumption DEF SomeProfile
  <1>2. CASE EditRequest(r)
    BY <1>1, <1>2, StartInv DEF EditRequest, Ops
  <1>3. CASE DeleteRequest(r)
    BY <1>1, <1>3, StartInv DEF DeleteRequest, Ops
  <1>4. CASE ProfileRequest(r)
    BY <1>4, StartInv DEF ProfileRequest, Ops
  <1>5. CASE UpgradeRequest(r)
    BY <1>1, <1>5, StartInv DEF UpgradeRequest, Ops
  <1> QED BY <1>2, <1>3, <1>4, <1>5 DEF Submit

(* A refused or failed request ends and changes nothing.                   *)
LEMMA EndInv ==
  ASSUME Inv, NEW r \in Requests, End(r), user' = user
  PROVE Inv'
  <1>1. user' \in [Users -> Row]
    BY DEF Inv, TypeOK
  <1> QED BY <1>1, EndStep, QuietStep

(* A step that only moves on, with what the request already knows.         *)
LEMMA GotoInv ==
  ASSUME Inv, NEW r \in Requests, NEW s \in Steps, Goto(r, s), req' = req,
         user' = user, adminLock' = adminLock,
         pc'[r] = s /\ req'[r] = req[r] => RequestInv(r)'
  PROVE Inv'
  <1>1. req[r] \in Request /\ req' = [req EXCEPT ![r] = req[r]]
    BY DEF Inv, TypeOK
  <1>2. OthersStay(r) /\ TypeOK' /\ pc'[r] = s /\ req'[r] = req[r]
    BY <1>1, MoveStep
  <1> QED BY <1>2, QuietStep

(* Checking the actor changes nothing stored.                             *)
LEMMA AuthorizeInv ==
  ASSUME Inv, NEW r \in Requests, Authorize(r)
  PROVE Inv'
  <1>1. CASE End(r)
    BY <1>1, EndInv DEF Authorize
  <1>2. CASE Goto(r, "find") /\ adminLock' = adminLock /\ req' = req
    <2>1. user' = user /\ pc[r] = "authorize" /\ RequestInv(r)
      BY DEF Authorize, Inv
    <2>2. pc'[r] = "find" /\ req'[r] = req[r] => RequestInv(r)'
      BY <1>2, <2>1 DEF RequestInv, Aimed, SeenRow, LockHeld, Counted, MayRemove
    <2> QED BY <1>2, <2>1, <2>2, GotoInv DEF Steps
  <1> QED BY <1>1, <1>2 DEF Authorize

(* The row found is the row as it is.                                      *)
LEMMA FindInv ==
  ASSUME Inv, NEW r \in Requests, FindUserByID(r)
  PROVE Inv'
  <1> DEFINE t == req[r].target
  <1>1. TypeOK /\ RequestInv(r) /\ pc[r] = "find" /\ user' = user
    BY DEF Inv, FindUserByID
  <1>2. t \in Users /\ user[t] \in Row /\ user[t].version \in Nat
    BY <1>1 DEF TypeOK, RequestInv, Aimed, Row
  <1>3. CASE End(r)
    BY <1>1, <1>3, EndInv
  <1>4. CASE /\ Exists(t)
             /\ req' = [req EXCEPT ![r].seen = IF req[r].op = "delete" THEN @ ELSE user[t],
                          ![r].expected = IF req[r].op \in {"profile", "upgrade"}
                                          THEN user[t].version ELSE @]
             /\ Goto(r, "check")
             /\ adminLock' = adminLock
    <2>1. PICK q : q = [req[r] EXCEPT !.seen = IF req[r].op = "delete" THEN @ ELSE user[t],
                          !.expected = IF req[r].op \in {"profile", "upgrade"}
                                       THEN user[t].version ELSE @]
      OBVIOUS
    <2>2. req[r] \in Request
      BY <1>1 DEF TypeOK
    <2>3. q \in Request
      BY <1>2, <2>1, <2>2 DEF Request
    <2>4. req' = [req EXCEPT ![r] = q]
      BY <1>4, <2>1, <2>2, <1>1 DEF TypeOK
    <2>5. OthersStay(r) /\ TypeOK' /\ pc'[r] = "check" /\ req'[r] = q
      BY <1>1, <1>4, <2>3, <2>4, MoveStep DEF Steps
    <2>6. /\ q.target = t /\ q.actor = req[r].actor /\ q.op = req[r].op
          /\ q.locked = req[r].locked
          /\ q.op # "delete" => q.seen = user[t]
          /\ q.expected \in {req[r].expected, user[t].version}
      BY <2>1, <2>2 DEF Request
    <2>7. RequestInv(r)'
      BY <1>1, <1>2, <1>4, <2>5, <2>6 DEF RequestInv, Aimed, SeenRow, LockHeld, Counted,
           MayRemove, Exists, Revision
    <2> QED BY <1>1, <2>5, <2>7, QuietStep
  <1> QED BY <1>3, <1>4 DEF FindUserByID

(* Without the lock a request only goes on to the write of an account that *)
(* has no administrator rights to lose.                                    *)
LEMMA CheckInv ==
  ASSUME Inv, NEW r \in Requests, CheckAdministrator(r)
  PROVE Inv'
  <1>1. RequestInv(r) /\ pc[r] = "check" /\ user' = user /\ adminLock' = adminLock
        /\ req' = req
    BY DEF Inv, CheckAdministrator
  <1>2. CASE Goto(r, "lock")
    <2>1. pc'[r] = "lock" /\ req'[r] = req[r] => RequestInv(r)'
      BY <1>1 DEF RequestInv, Aimed, SeenRow, LockHeld, Counted, MayRemove, Revision, Exists
    <2> QED BY <1>1, <1>2, <2>1, GotoInv DEF Steps
  <1>3. CASE /\ Goto(r, "write")
             /\ ~(MustKeepAnother(req[r].op, NewRow(r)) /\ IsAdministrator(req[r].target))
    <2>1. ASSUME pc'[r] = "write", req'[r] = req[r] PROVE RequestInv(r)'
      <3>1. Aimed(r)' /\ SeenRow(r)' /\ LockHeld(r)' /\ Counted(r)'
        BY <1>1, <2>1 DEF RequestInv, Aimed, SeenRow, LockHeld, Counted, Revision, Exists
      <3>2. MayRemove(r)'
        BY <1>1, <1>3, <2>1 DEF MayRemove, IsAdministrator, NewRow
      <3> QED BY <3>1, <3>2 DEF RequestInv
    <2> QED BY <1>1, <1>3, <2>1, GotoInv DEF Steps
  <1> QED BY <1>2, <1>3 DEF CheckAdministrator

(* The lock is taken when free, so it has one holder.                     *)
LEMMA LockInv ==
  ASSUME Inv, NEW r \in Requests, LockAdministrators(r)
  PROVE Inv'
  <1>1. TypeOK /\ RequestInv(r) /\ pc[r] = "lock" /\ user' = user /\ adminLock = None
        /\ adminLock' = r /\ Goto(r, "others")
    BY DEF Inv, LockAdministrators
  <1>2. PICK q : q = [req[r] EXCEPT !.locked = TRUE]
    OBVIOUS
  <1>3. q \in Request /\ req' = [req EXCEPT ![r] = q]
    BY <1>1, <1>2 DEF TypeOK, Request, LockAdministrators
  <1>4. /\ q.target = req[r].target /\ q.actor = req[r].actor /\ q.op = req[r].op
        /\ q.seen = req[r].seen /\ q.expected = req[r].expected
    BY <1>1, <1>2 DEF TypeOK, Request
  <1>5. q.locked = TRUE
    BY <1>1, <1>2 DEF TypeOK, Request
  <1>6. OthersStay(r) /\ TypeOK' /\ pc'[r] = "others" /\ req'[r] = q
    BY <1>1, <1>3, RequestsAssumption DEF Goto, TypeOK, OthersStay, Steps
  <1>7. RequestInv(r)'
    BY <1>1, <1>4, <1>5, <1>6 DEF RequestInv, Aimed, SeenRow, LockHeld, Counted,
         MayRemove, Exists, Revision
  <1> QED BY <1>1, <1>6, <1>7, QuietStep

(* The count is of the administrators there are while the lock is held.   *)
LEMMA CountInv ==
  ASSUME Inv, NEW r \in Requests, CountOthers(r)
  PROVE Inv'
  <1>1. TypeOK /\ RequestInv(r) /\ pc[r] = "others" /\ user' = user
        /\ adminLock' = adminLock /\ Goto(r, "self")
    BY DEF Inv, CountOthers
  <1>2. PICK b \in BOOLEAN : b = (Administrators \ {req[r].target} # {})
    OBVIOUS
  <1>3. PICK q : q = [req[r] EXCEPT !.others = b]
    OBVIOUS
  <1>4. req' = [req EXCEPT ![r] = q]
    BY <1>1, <1>2, <1>3 DEF TypeOK, CountOthers
  <1>5. q \in Request
    BY <1>1, <1>2, <1>3 DEF TypeOK, Request
  <1>6. /\ q.target = req[r].target /\ q.actor = req[r].actor /\ q.op = req[r].op
        /\ q.seen = req[r].seen /\ q.expected = req[r].expected /\ q.locked = req[r].locked
    BY <1>1, <1>3 DEF TypeOK, Request
  <1>7. q.others = b
    BY <1>1, <1>3 DEF TypeOK, Request
  <1>8. OthersStay(r) /\ TypeOK' /\ pc'[r] = "self" /\ req'[r] = q
    BY <1>1, <1>4, <1>5, MoveStep DEF Steps
  <1>9. b => Another(req[r].target)
    BY <1>2 DEF Another, Administrators
  <1>10. Counted(r)'
    BY <1>1, <1>6, <1>7, <1>8, <1>9 DEF Counted, Another, IsAdministrator
  <1>11. Aimed(r)' /\ SeenRow(r)' /\ LockHeld(r)' /\ MayRemove(r)'
    BY <1>1, <1>6, <1>8 DEF RequestInv, Aimed, SeenRow, LockHeld, MayRemove, Exists, Revision
  <1> QED BY <1>1, <1>8, <1>10, <1>11, QuietStep DEF RequestInv

(* Under the lock the request goes on if another administrator was         *)
(* counted, or if its own account has lost its rights.                     *)
LEMMA RereadInv ==
  ASSUME Inv, NEW r \in Requests, RereadSelf(r)
  PROVE Inv'
  <1>1. TypeOK /\ RequestInv(r) /\ pc[r] = "self" /\ user' = user
    BY DEF Inv, RereadSelf
  <1>2. CASE End(r)
    BY <1>1, <1>2, EndInv
  <1>3. CASE /\ ~((Exists(req[r].target) => IsAdministrator(req[r].target)) /\ ~req[r].others)
             /\ Goto(r, "write") /\ adminLock' = adminLock /\ req' = req
    <2>1. ASSUME pc'[r] = "write", req'[r] = req[r] PROVE RequestInv(r)'
      <3>1. Aimed(r)' /\ SeenRow(r)' /\ LockHeld(r)' /\ Counted(r)'
        BY <1>1, <1>3, <2>1 DEF RequestInv, Aimed, SeenRow, LockHeld, Counted, Revision, Exists
      <3>2. IsAdministrator(req[r].target) => req[r].locked /\ Another(req[r].target)
        BY <1>1, <1>3 DEF RequestInv, LockHeld, Counted
      <3>3. MayRemove(r)'
        BY <1>1, <2>1, <3>2 DEF MayRemove, IsAdministrator, Another
      <3> QED BY <3>1, <3>3 DEF RequestInv
    <2> QED BY <1>1, <1>3, <2>1, GotoInv DEF Steps
  <1> QED BY <1>2, <1>3 DEF RereadSelf

-----------------------------------------------------------------------------
(* A new account disturbs nobody: no request is about it yet.              *)
LEMMA CreateInv ==
  ASSUME Inv, NEW n \in Users, CreateUser(n)
  PROVE Inv'
  <1>1. TypeOK /\ user[n].state = "unused" /\ pc' = pc /\ req' = req /\ adminLock' = adminLock
    BY DEF Inv, CreateUser
  <1>2. PICK state \in {"guest", "user"}, admin \in BOOLEAN, p \in Profiles :
          user' = [user EXCEPT ![n] = [state |-> state, admin |-> admin,
                                       profile |-> p, version |-> 0]]
    BY DEF CreateUser
  <1>3. [state |-> state, admin |-> admin, profile |-> p, version |-> 0] \in Row
    BY DEF Row
  <1>4. TypeOK'
    BY <1>1, <1>2, <1>3 DEF TypeOK
  <1>5. \A u \in Users : u # n => user'[u] = user[u]
    BY <1>1, <1>2 DEF TypeOK
  <1>6. \A u \in Users : IsAdministrator(u) => IsAdministrator(u)'
    BY <1>1, <1>5 DEF IsAdministrator
  <1>7. AtLeastOneAdministrator'
    <2>1. PICK u \in Users : IsAdministrator(u)
      BY SomeAdministrator DEF Inv
    <2>2. IsAdministrator(u)'
      BY <1>6, <2>1
    <2> QED BY <2>2 DEF AtLeastOneAdministrator, Administrators
  <1>8. ASSUME NEW r \in Requests PROVE RequestInv(r)'
    <2> DEFINE t == req[r].target
    <2>1. RequestInv(r)
      BY DEF Inv
    <2>2. pc[r] # "idle" => t \in Users /\ t # n /\ user'[t] = user[t]
      BY <1>1, <1>5, <2>1 DEF RequestInv, Aimed
    <2>3. Another(t) => Another(t)'
      BY <1>1, <1>6 DEF Another
    <2>4. Aimed(r)' /\ SeenRow(r)' /\ LockHeld(r)'
      BY <1>1, <2>1, <2>2 DEF RequestInv, Aimed, SeenRow, LockHeld, Revision, Exists
    <2>5. Counted(r)'
      BY <1>1, <2>1, <2>3 DEF RequestInv, Counted
    <2>6. MayRemove(r)'
      <3> SUFFICES ASSUME pc[r] = "write", MayRemove(r)
                   PROVE MayRemove(r)'
        BY <1>1, <2>1 DEF RequestInv, MayRemove
      <3>1. Revision(t, req[r].expected)' => Revision(t, req[r].expected)
        BY <1>1, <2>2 DEF Revision, Exists
      <3>2. IsAdministrator(t)' => IsAdministrator(t)
        BY <1>1, <2>2 DEF IsAdministrator
      <3>3. NewRow(r)' = NewRow(r)
        BY <1>1 DEF NewRow
      <3> QED BY <1>1, <2>3, <3>1, <3>2, <3>3 DEF MayRemove
    <2> QED BY <2>4, <2>5, <2>6 DEF RequestInv
  <1> QED BY <1>4, <1>7, <1>8 DEF Inv

(* What a write may do to the other requests: only the holder of the lock  *)
(* takes rights away, and it leaves another administrator.                 *)
LEMMA WrittenInv ==
  ASSUME Inv, NEW r \in Requests, NEW row, Written(r, row), End(r)
  PROVE Inv'
  <1>0. PICK t : t = req[r].target
    OBVIOUS
  <1>1. TypeOK /\ RequestInv(r) /\ pc[r] = "write" /\ t \in Users
    BY <1>0 DEF Inv, Written, RequestInv, Aimed
  <1>2. user' \in [Users -> Row] /\ user'[t] = row /\ \A u \in Users \ {t} : user'[u] = user[u]
    BY <1>0, <1>1 DEF Written, TypeOK
  <1>3. OthersStay(r) /\ TypeOK' /\ RequestInv(r)'
    BY <1>2, EndStep
  <1>4. \A u \in Users \ {t} : IsAdministrator(u) <=> IsAdministrator(u)'
    BY <1>2 DEF IsAdministrator
  <1>5. IsAdministrator(t) /\ ~IsAdministrator(t)' => req[r].locked /\ Another(t)
    BY <1>0, <1>2 DEF IsAdministrator, Written
  <1>6. AtLeastOneAdministrator'
    <2>1. PICK u \in Users : IsAdministrator(u)
      BY SomeAdministrator DEF Inv
    <2>2. \E w \in Users : IsAdministrator(w)'
      BY <1>1, <1>4, <1>5, <2>1 DEF Another
    <2> QED BY <2>2 DEF AtLeastOneAdministrator, Administrators
  <1>7. ASSUME NEW q \in Requests, q # r PROVE RequestInv(q)'
    <2> DEFINE x == req[q].target
    <2>1. RequestInv(q) /\ pc'[q] = pc[q] /\ req'[q] = req[q] /\ (adminLock = q => adminLock' = q)
      BY <1>3, <1>7 DEF Inv, OthersStay
    <2>2. req[q].locked => (Another(x) => Another(x)')
      <3> SUFFICES ASSUME req[q].locked, Another(x) PROVE Another(x)'
        OBVIOUS
      <3>1. ~req[r].locked
        BY <1>1, <1>7, <2>1 DEF RequestInv, LockHeld
      <3>2. PICK w \in Users : w # x /\ IsAdministrator(w)
        BY DEF Another
      <3>3. IsAdministrator(w)'
        BY <1>4, <1>5, <3>1, <3>2
      <3> QED BY <2>1, <3>2, <3>3 DEF Another
    <2>3. x \in Users => user[x].version \in Nat /\ user'[x].version \in Nat
      BY <1>1, <1>2 DEF TypeOK, Row
    <2>4. req[q].expected \in Nat /\ req[q].seen.version \in Nat
      BY <1>1 DEF TypeOK, Request, Row
    <2>5. x = t => /\ user'[x].state # "unused"
                   /\ user'[x].version >= user[x].version
                   /\ user'[x].state = "deleted" \/ user'[x].version > user[x].version
      BY <1>0, <1>2 DEF Written
    <2>6. Aimed(q)'
      BY <1>2, <2>1, <2>3, <2>4, <2>5 DEF RequestInv, Aimed
    <2>7. SeenRow(q)'
      <3> SUFFICES ASSUME pc[q] \in {"check", "lock", "others", "self", "write"},
                          req[q].op # "delete"
                   PROVE /\ req[q].seen.state \in {"guest", "user"}
                         /\ req[q].expected <= req[q].seen.version
                         /\ req[q].seen.version <= user'[x].version
                         /\ Revision(x, req[q].seen.version)' => req[q].seen = user'[x]
        BY <2>1 DEF SeenRow
      <3>1. /\ x \in Users
            /\ req[q].seen.state \in {"guest", "user"}
            /\ req[q].expected <= req[q].seen.version
            /\ req[q].seen.version <= user[x].version
            /\ Revision(x, req[q].seen.version) => req[q].seen = user[x]
        BY <2>1 DEF RequestInv, SeenRow, Aimed
      <3>2. CASE x = t
        BY <2>1, <2>3, <2>4, <2>5, <3>1, <3>2 DEF Revision, Exists
      <3>3. CASE x # t
        BY <1>2, <2>1, <3>1, <3>3 DEF Revision, Exists
      <3> QED BY <3>2, <3>3
    <2>8. LockHeld(q)'
      BY <2>1 DEF RequestInv, LockHeld
    <2>9. Counted(q)'
      BY <2>1, <2>2 DEF RequestInv, Counted, LockHeld
    <2>10. MayRemove(q)'
      <3> SUFFICES ASSUME pc[q] = "write", MustKeepAnother(req[q].op, NewRow(q)),
                          Revision(x, req[q].expected)', IsAdministrator(x)'
                   PROVE req[q].locked /\ Another(x)'
        BY <2>1 DEF MayRemove, NewRow
      <3>1. x \in Users /\ req[q].expected <= user[x].version
        BY <2>1 DEF RequestInv, Aimed
      <3>2. x # t
        BY <2>1, <2>3, <2>4, <2>5, <3>1 DEF Revision, Exists
      <3>3. Revision(x, req[q].expected) /\ IsAdministrator(x)
        BY <1>2, <2>1, <3>1, <3>2 DEF Revision, Exists, IsAdministrator
      <3>4. req[q].locked /\ Another(x)
        BY <2>1, <3>3 DEF RequestInv, MayRemove
      <3> QED BY <2>2, <3>4
    <2> QED BY <2>6, <2>7, <2>8, <2>9, <2>10 DEF RequestInv
  <1> QED BY <1>3, <1>6, <1>7 DEF Inv

(* The row UpdateUser writes at the expected revision is the current row   *)
(* with the operation's own field replaced.                                *)
LEMMA NewRowFresh ==
  ASSUME Inv, NEW r \in Requests, pc[r] = "write", req[r].op # "delete",
         Revision(req[r].target, req[r].expected)
  PROVE /\ req[r].seen = user[req[r].target]
        /\ NewRow(r) \in Row
        /\ NewRow(r).state \in {"guest", "user"}
        /\ req[r].op # "profile" => NewRow(r).profile = user[req[r].target].profile
        /\ req[r].op # "upgrade" => NewRow(r).state = user[req[r].target].state
        /\ req[r].op \in {"profile", "upgrade"} => NewRow(r).admin = user[req[r].target].admin
  <1> DEFINE t == req[r].target
  <1>1. TypeOK /\ SeenRow(r) /\ Aimed(r) /\ req[r] \in Request
    BY DEF Inv, RequestInv, TypeOK
  <1>2. t \in Users /\ user[t] \in Row /\ req[r].seen \in Row
    BY <1>1 DEF TypeOK, Aimed, Request
  <1>3. user[t].version \in Nat /\ req[r].expected \in Nat /\ req[r].seen.version \in Nat
    BY <1>1, <1>2 DEF Request, Row
  <1>4. req[r].seen.version = user[t].version
    BY <1>1, <1>3 DEF SeenRow, Revision
  <1>5. req[r].seen = user[t] /\ req[r].seen.state \in {"guest", "user"}
    BY <1>1, <1>4 DEF SeenRow, Revision
  <1>6. CASE req[r].op = "profile"
    BY <1>1, <1>2, <1>5, <1>6 DEF NewRow, Row, Request
  <1>7. CASE req[r].op = "upgrade"
    BY <1>1, <1>2, <1>5, <1>7 DEF NewRow, Row, Request
  <1>8. CASE req[r].op \notin {"profile", "upgrade"}
    BY <1>1, <1>2, <1>5, <1>8 DEF NewRow, Row, Request
  <1> QED BY <1>6, <1>7, <1>8

(* A whole-row write keeps the invariant.                                 *)
LEMMA UpdateInv ==
  ASSUME Inv, NEW r \in Requests, UpdateUser(r)
  PROVE Inv'
  <1> DEFINE t == req[r].target
  <1>1. TypeOK /\ RequestInv(r) /\ pc[r] = "write" /\ req[r].op # "delete" /\ End(r)
    BY DEF Inv, UpdateUser
  <1>2. CASE user' = user
    BY <1>1, <1>2, EndInv
  <1>3. CASE /\ Revision(t, req[r].expected)
             /\ user' = [user EXCEPT ![t] = [NewRow(r) EXCEPT !.version = user[t].version + 1]]
    <2>1. NewRow(r) \in Row /\ NewRow(r).state \in {"guest", "user"}
      BY <1>1, <1>3, NewRowFresh
    <2>2. t \in Users /\ user[t].version \in Nat
      BY <1>1 DEF RequestInv, Aimed, TypeOK, Row
    <2>3. PICK row : row = [NewRow(r) EXCEPT !.version = user[t].version + 1]
      OBVIOUS
    <2>4. /\ row \in Row /\ row.version = user[t].version + 1
          /\ row.state = NewRow(r).state /\ row.admin = NewRow(r).admin
      BY <2>1, <2>2, <2>3 DEF Row
    <2>5. IsAdministrator(t) =>
            (row.state = "user" /\ row.admin) \/ (req[r].locked /\ Another(t))
      <3>1. CASE MustKeepAnother(req[r].op, NewRow(r))
        BY <1>1, <1>3, <3>1 DEF RequestInv, MayRemove
      <3>2. CASE ~MustKeepAnother(req[r].op, NewRow(r))
        <4>1. row.state = "user"
          BY <2>1, <2>4, <3>2 DEF MustKeepAnother
        <4>2. NewRow(r).admin
          BY <3>2, Zenon DEF MustKeepAnother
        <4>3. NewRow(r).admin = TRUE
          BY <2>1, <4>2 DEF Row
        <4>4. row.admin = TRUE
          BY <2>4, <4>3
        <4>5. row.admin
          BY <4>4, Zenon
        <4> QED BY <4>1, <4>5, Zenon
      <3> QED BY <3>1, <3>2
    <2>6. user' = [user EXCEPT ![t] = row]
      BY <1>3, <2>3
    <2>7. row.state # "unused" /\ row.version >= user[t].version /\ row.version > user[t].version
      BY <2>1, <2>2, <2>4
    <2>8. Written(r, row)
      BY <1>1, <2>4, <2>5, <2>6, <2>7 DEF Written
    <2> QED BY <1>1, <2>8, WrittenInv
  <1> QED BY <1>2, <1>3 DEF UpdateUser

(* A deletion keeps the invariant.                                        *)
LEMMA DeleteInv ==
  ASSUME Inv, NEW r \in Requests, DeleteUser(r)
  PROVE Inv'
  <1> DEFINE t == req[r].target
  <1>1. TypeOK /\ RequestInv(r) /\ pc[r] = "write" /\ req[r].op = "delete" /\ End(r)
    BY DEF Inv, DeleteUser
  <1>2. CASE user' = user
    BY <1>1, <1>2, EndInv
  <1>3. CASE /\ Revision(t, req[r].expected)
             /\ user' = [user EXCEPT ![t] = [@ EXCEPT !.state = "deleted"]]
    <2>1. t \in Users /\ user[t] \in Row /\ user[t].version \in Nat
      BY <1>1 DEF RequestInv, Aimed, TypeOK, Row
    <2>2. PICK row : row = [user[t] EXCEPT !.state = "deleted"]
      OBVIOUS
    <2>3. row \in Row /\ row.version = user[t].version /\ row.state = "deleted"
      BY <2>1, <2>2 DEF Row
    <2>4. IsAdministrator(t) => req[r].locked /\ Another(t)
      BY <1>1, <1>3 DEF RequestInv, MayRemove, MustKeepAnother
    <2>5. user' = [user EXCEPT ![t] = row]
      BY <1>1, <1>3, <2>1, <2>2 DEF TypeOK
    <2>6. Written(r, row)
      BY <1>1, <2>1, <2>3, <2>4, <2>5 DEF Written
    <2> QED BY <1>1, <2>6, WrittenInv
  <1> QED BY <1>2, <1>3 DEF DeleteUser

(* The invariant is inductive.                                            *)
LEMMA NextInv == Inv /\ [Next]_vars => Inv'
  <1> SUFFICES ASSUME Inv, [Next]_vars PROVE Inv' OBVIOUS
  <1>1. CASE UNCHANGED vars
    BY <1>1 DEF vars, Inv, TypeOK, AtLeastOneAdministrator, Administrators, IsAdministrator,
         RequestInv, Aimed, SeenRow, LockHeld, Counted, MayRemove, Another, Revision, Exists,
         NewRow
  <1>2. ASSUME NEW u \in Users, CreateUser(u) PROVE Inv'
    BY <1>2, CreateInv
  <1>3. ASSUME NEW r \in Requests, Submit(r) PROVE Inv'
    BY <1>3, SubmitInv
  <1>4. ASSUME NEW r \in Requests, Step(r) PROVE Inv'
    BY <1>4, AuthorizeInv, FindInv, CheckInv, LockInv, CountInv, RereadInv, UpdateInv,
       DeleteInv DEF Step
  <1>5. ASSUME NEW r \in Requests, Fail(r) PROVE Inv'
    BY <1>5, EndInv DEF Fail
  <1> QED BY <1>1, <1>2, <1>3, <1>4, <1>5 DEF Next

(* It holds in every reachable state.                                     *)
LEMMA AlwaysInv == Spec => []Inv
  BY InitInv, NextInv, PTL DEF Spec

(* The users table, the lock and the requests are always well formed; in   *)
(* particular no revision is ever negative.                                *)
THEOREM TypeCorrect == Spec => []TypeOK
  <1>1. Inv => TypeOK
    BY DEF Inv
  <1> QED BY <1>1, AlwaysInv, PTL

(* keepAnotherAdministrator works: however many administrators edit and    *)
(* delete each other at once, somebody stays an administrator.             *)
THEOREM AdministratorRemains == Spec => []AtLeastOneAdministrator
  <1>1. Inv => AtLeastOneAdministrator
    BY DEF Inv
  <1> QED BY <1>1, AlwaysInv, PTL

-----------------------------------------------------------------------------
(* Only a request's own last step takes it from the write to idle, and     *)
(* what that step does to the row of the account it is about.              *)
LEMMA OwnWrite ==
  ASSUME Inv, [Next]_vars, NEW r \in Requests, pc[r] = "write", pc'[r] = "idle"
  PROVE user' = user \/ UpdateUser(r) \/ DeleteUser(r)
  <1>1. TypeOK
    BY DEF Inv
  <1>2. CASE UNCHANGED vars
    BY <1>2 DEF vars
  <1>3. ASSUME NEW u \in Users, CreateUser(u) PROVE FALSE
    BY <1>3 DEF CreateUser
  <1>4. ASSUME NEW q \in Requests, Submit(q) PROVE user' = user
    BY <1>4 DEF Submit, EditRequest, DeleteRequest, ProfileRequest, UpgradeRequest, Start
  <1>5. ASSUME NEW q \in Requests, Fail(q) PROVE user' = user
    BY <1>5 DEF Fail
  <1>6. ASSUME NEW q \in Requests, UpdateUser(q) \/ DeleteUser(q) PROVE q = r
    BY <1>1, <1>6 DEF UpdateUser, DeleteUser, End, TypeOK
  <1>7. ASSUME NEW q \in Requests, Step(q) PROVE user' = user \/ UpdateUser(r) \/ DeleteUser(r)
    BY <1>6, <1>7 DEF Step, Authorize, FindUserByID, CheckAdministrator,
       LockAdministrators, CountOthers, RereadSelf
  <1> QED BY <1>2, <1>3, <1>4, <1>5, <1>7 DEF Next

(* What a write that is not a deletion did to its account.                 *)
LEMMA UpdateEffect ==
  ASSUME Inv, NEW r \in Requests, UpdateUser(r), user' # user
  PROVE LET t == req[r].target
        IN /\ req[r].seen = user[t]
           /\ req[r].op # "edit" => user'[t].admin = user[t].admin
           /\ req[r].op # "profile" => user'[t].profile = user[t].profile
           /\ req[r].op # "upgrade" => user'[t].state = user[t].state
  <1> DEFINE t == req[r].target
  <1>1. /\ TypeOK /\ RequestInv(r) /\ pc[r] = "write" /\ req[r].op # "delete"
        /\ Revision(t, req[r].expected)
        /\ user' = [user EXCEPT ![t] = [NewRow(r) EXCEPT !.version = user[t].version + 1]]
    BY DEF Inv, UpdateUser
  <1>2. t \in Users /\ req[r].op \in Ops \ {"none"}
    BY <1>1 DEF RequestInv, Aimed, TypeOK, Request
  <1>3. user'[t] = [NewRow(r) EXCEPT !.version = user[t].version + 1]
    BY <1>1, <1>2 DEF TypeOK
  <1>4. NewRow(r) \in Row
    BY <1>1, NewRowFresh
  <1>5. /\ user'[t].admin = NewRow(r).admin /\ user'[t].profile = NewRow(r).profile
        /\ user'[t].state = NewRow(r).state
    BY <1>3, <1>4 DEF Row
  <1> QED BY <1>1, <1>2, <1>5, NewRowFresh DEF Ops

(* A write changes only the fields of its own operation, although it puts  *)
(* the whole row: nobody's rights, profile or state are undone.            *)
THEOREM OtherFieldsKept == Spec => EditsKeepOtherFields
  <1>1. Inv /\ [Next]_vars =>
          [\A r \in Requests : pc[r] = "write" /\ pc'[r] = "idle" /\ req[r].op # "delete" =>
             LET u == req[r].target
             IN /\ req[r].op # "edit" => user'[u].admin = user[u].admin
                /\ req[r].op # "profile" => user'[u].profile = user[u].profile
                /\ req[r].op # "upgrade" => user'[u].state = user[u].state]_vars
    <2> SUFFICES ASSUME Inv, [Next]_vars, NEW r \in Requests, pc[r] = "write",
                        pc'[r] = "idle", req[r].op # "delete"
                 PROVE LET u == req[r].target
                       IN /\ req[r].op # "edit" => user'[u].admin = user[u].admin
                          /\ req[r].op # "profile" => user'[u].profile = user[u].profile
                          /\ req[r].op # "upgrade" => user'[u].state = user[u].state
      OBVIOUS
    <2>1. CASE user' = user
      BY <2>1
    <2>2. CASE user' # user
      <3>1. UpdateUser(r)
        BY <2>2, OwnWrite DEF DeleteUser
      <3> QED BY <2>2, <3>1, UpdateEffect
    <2> QED BY <2>1, <2>2
  <1> QED BY <1>1, AlwaysInv, PTL DEF Spec, EditsKeepOtherFields

(* An administrator's edit that goes through compared the rights it set    *)
(* with those the account had, so the audit entry names the real change.   *)
THEOREM AuditCorrect == Spec => AuditMatchesChange
  <1>1. Inv /\ [Next]_vars =>
          [\A r \in Requests :
             pc[r] = "write" /\ req[r].op = "edit" /\ user' # user /\ pc'[r] = "idle"
             => req[r].seen.admin = user[req[r].target].admin]_vars
    <2> SUFFICES ASSUME Inv, [Next]_vars, NEW r \in Requests, pc[r] = "write",
                        req[r].op = "edit", user' # user, pc'[r] = "idle"
                 PROVE req[r].seen.admin = user[req[r].target].admin
      OBVIOUS
    <2>1. UpdateUser(r)
      BY OwnWrite DEF DeleteUser
    <2> QED BY <2>1, UpdateEffect
  <1> QED BY <1>1, AlwaysInv, PTL DEF Spec, AuditMatchesChange

-----------------------------------------------------------------------------
(* The administrators' lock is held exactly by the request whose           *)
(* transaction took it, from keepAnotherAdministrator to the end of the    *)
(* write.  Each of these steps is one that nobody can keep it from, so     *)
(* whoever waits for the lock waits for a request that goes on.            *)
LockAccounted ==
  \A r \in Requests :
    /\ adminLock = r <=> req[r].locked
    /\ adminLock = r => pc[r] \in {"others", "self", "write"} /\ req[r].op # "none"

(* The part of it that the invariant does not have yet.                    *)
HolderOK(r) == (adminLock = r => req[r].locked) /\ (req[r].locked => pc[r] \in {"others", "self", "write"})

(* What a step of r does about the lock.                                   *)
LockMove(r) ==
  /\ \A q \in Requests \ {r} : pc'[q] = pc[q] /\ req'[q] = req[q]
  /\ \/ /\ adminLock' = adminLock /\ req'[r].locked = req[r].locked
        /\ req[r].locked => pc'[r] \in {"others", "self", "write"}
     \/ /\ ~req'[r].locked
        /\ adminLock' = IF req[r].locked THEN None ELSE adminLock
     \/ LockAdministrators(r) /\ req'[r].locked

(* An answered request has given back the lock if it had it.               *)
LEMMA EndMove ==
  ASSUME Inv, NEW r \in Requests, End(r)
  PROVE  LockMove(r)
<1>1. ~NoRequest.locked
  BY DEF NoRequest, Form
<1> QED BY <1>1 DEF End, LockMove, Inv, TypeOK

(* A request that moves on keeps what it has.                              *)
LEMMA GotoMove ==
  ASSUME Inv, NEW r \in Requests, NEW s, Goto(r, s), adminLock' = adminLock,
         \/ UNCHANGED req
         \/ \E q \in Request : req' = [req EXCEPT ![r] = q] /\ q.locked = req[r].locked,
         req[r].locked => s \in {"others", "self", "write"}
  PROVE  LockMove(r)
BY DEF Goto, LockMove, Inv, TypeOK

(* Every step of a request is one of those.                                *)
LEMMA RequestMove ==
  ASSUME Inv, \A q \in Requests : HolderOK(q), NEW r \in Requests, Submit(r) \/ Step(r) \/ Fail(r)
  PROVE  LockMove(r)
<1>0. TypeOK /\ HolderOK(r) /\ req[r] \in Request
  BY DEF Inv, TypeOK
<1>1. CASE Submit(r)
  <2>0. \A op, a, t, v, g, p : Form(op, a, t, v, g, p).locked = FALSE
    BY DEF Form
  <2>1. PICK s, q : Start(r, s, q) /\ q.locked = FALSE
    BY <1>1, <2>0, Zenon DEF Submit, EditRequest, DeleteRequest, ProfileRequest, UpgradeRequest
  <2>2. ~req[r].locked
    BY <1>0, <2>1 DEF Start, HolderOK
  <2> QED BY <1>0, <2>1, <2>2 DEF Start, Goto, LockMove, TypeOK
<1>2. CASE Fail(r) \/ UpdateUser(r) \/ DeleteUser(r)
  BY <1>2, EndMove DEF Fail, UpdateUser, DeleteUser
<1>3. CASE Authorize(r)
  BY <1>0, <1>3, EndMove, GotoMove DEF Authorize, HolderOK
<1>4. CASE FindUserByID(r)
  <2>1. CASE End(r)
    BY <2>1, EndMove
  <2>2. CASE ~End(r)
    <3>1. Goto(r, "check") /\ adminLock' = adminLock
      BY <1>4, <2>2 DEF FindUserByID
    <3>2. /\ req'[r].locked = req[r].locked
          /\ \A q \in Requests \ {r} : req'[q] = req[q]
      BY <1>0, <1>4, <2>2 DEF FindUserByID, TypeOK, Request
    <3>3. ~req[r].locked
      BY <1>0, <1>4 DEF FindUserByID, HolderOK
    <3> QED BY <1>0, <3>1, <3>2, <3>3 DEF LockMove, Goto, TypeOK
  <2> QED BY <2>1, <2>2
<1>5. CASE CheckAdministrator(r)
  BY <1>0, <1>5, GotoMove DEF CheckAdministrator, HolderOK
<1>6. CASE LockAdministrators(r)
  <2>1. req'[r].locked /\ \A q \in Requests \ {r} : pc'[q] = pc[q] /\ req'[q] = req[q]
    BY <1>0, <1>6, Zenon DEF LockAdministrators, Goto, TypeOK, Request
  <2> QED BY <1>6, <2>1 DEF LockMove
<1>7. CASE CountOthers(r)
  <2>1. /\ req'[r].locked = req[r].locked
        /\ \A q \in Requests \ {r} : req'[q] = req[q]
    BY <1>0, <1>7 DEF CountOthers, TypeOK, Request
  <2> QED BY <1>0, <1>7, <2>1 DEF CountOthers, Goto, LockMove, TypeOK
<1>8. CASE RereadSelf(r)
  BY <1>0, <1>8, EndMove, GotoMove DEF RereadSelf
<1> QED BY <1>1, <1>2, <1>3, <1>4, <1>5, <1>6, <1>7, <1>8 DEF Step

(* Any of them keeps the lock accounted for.                               *)
LEMMA MoveHolder ==
  ASSUME Inv, \A q \in Requests : HolderOK(q), NEW r \in Requests, LockMove(r)
  PROVE  \A q \in Requests : HolderOK(q)'
<1> SUFFICES ASSUME NEW q \in Requests PROVE HolderOK(q)'
  OBVIOUS
<1>0. None \notin Requests /\ HolderOK(q) /\ HolderOK(r) /\ LockHeld(q) /\ LockHeld(r)
  BY RequestsAssumption DEF Inv, RequestInv
<1>1. CASE LockAdministrators(r) /\ req'[r].locked
  <2>1. adminLock = None /\ adminLock' = r /\ pc'[r] = "others"
    BY <1>1 DEF LockAdministrators, Goto, Inv, TypeOK
  <2> QED BY <1>0, <1>1, <2>1 DEF LockMove, HolderOK, LockHeld
<1> QED BY <1>0, <1>1 DEF LockMove, HolderOK, LockHeld

(* The administrators' lock does not outlive the transaction that took it, *)
(* and its holder is never one that waits (keepAnotherAdministrator).      *)
THEOREM LockReleased == Spec => []LockAccounted
<1>1. Init => \A r \in Requests : HolderOK(r)
  BY RequestsAssumption DEF Init, HolderOK, NoRequest, Form
<1>2. Inv /\ (\A r \in Requests : HolderOK(r)) /\ [Next]_vars => (\A r \in Requests : HolderOK(r))'
  <2> SUFFICES ASSUME Inv, \A r \in Requests : HolderOK(r), [Next]_vars
               PROVE  \A r \in Requests : HolderOK(r)'
    OBVIOUS
  <2>1. CASE UNCHANGED <<adminLock, pc, req>>
    BY <2>1 DEF HolderOK
  <2>2. ASSUME NEW r \in Requests, Submit(r) \/ Step(r) \/ Fail(r)
        PROVE  \A q \in Requests : HolderOK(q)'
    BY <2>2, RequestMove, MoveHolder
  <2> QED BY <2>1, <2>2 DEF Next, CreateUser, vars
<1>3. Inv /\ (\A r \in Requests : HolderOK(r)) => LockAccounted
  BY DEF Inv, RequestInv, Aimed, LockHeld, HolderOK, LockAccounted
<1> QED BY <1>1, <1>2, <1>3, AlwaysInv, PTL DEF Spec
=============================================================================
