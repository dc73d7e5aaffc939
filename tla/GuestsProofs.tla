---------------------------- MODULE GuestsProofs ----------------------------
(***************************************************************************)
(* For any number of sessions, transfer codes, requests and revisions: an  *)
(* account has one active code at most, a code revoked before the upgrade  *)
(* swept the sessions opens none after it, and what somebody owns is not   *)
(* taken away.                                                             *)
(*                                                                         *)
(* The invariant says that an upgraded account stays one, that the cleanup *)
(* transaction's row is as it was when it was locked, that an upgrade under*)
(* way has read a revision no newer than the row's, and an older one once  *)
(* the account is upgraded, and that a session which a redemption has not  *)
(* handed out yet is its own.                                              *)
(***************************************************************************)
EXTENDS Guests, FiniteSetTheorems, TLAPS

Full == account.exists /\ ~account.guest

Typed ==
  /\ mode \in Modes
  /\ account \in Account
  /\ member \in BOOLEAN
  /\ code \in [Codes -> {"none", "active", "revoked"}]
  /\ session \in [Sessions -> Session]
  /\ cleanup \in {"idle", "check", "commit"} /\ doomed \in BOOLEAN
  /\ pc \in [Requests -> Steps]
  /\ req \in [Requests -> Request]
  /\ retired \subseteq Codes
  /\ owner \in Requests \cup {None}

(* The account is upgraded for good, and nobody touches the row that the   *)
(* cleanup transaction holds.                                              *)
AccountInv ==
  /\ owner # None \/ retired # {} => Full
  /\ Locked => account.exists /\ account.guest /\ account.old
  /\ doomed => Locked /\ ~member

(* What is revoked stays revoked, and one code at most is active.          *)
CodesInv ==
  /\ \A c \in retired : code[c] = "revoked"
  /\ \A c, d \in Codes : code[c] = "active" /\ code[d] = "active" => c = d

TablesInv == AccountInv /\ CodesInv /\ OldCodeOpensNothing

Upgrading == {"revoke", "update", "convert"}

(* What a request relies on at its step.                                   *)
RequestOK(r) ==
  /\ pc[r] = "find" => req[r].op \in {"issue", "redeem", "upgrade"}
  /\ pc[r] = "lookup" => req[r].op = "redeem"
  /\ req[r].op # "redeem" => req[r].code = None
  /\ req[r].session # None => /\ ~session[req[r].session].held
                              /\ session[req[r].session].live =>
                                   session[req[r].session].via = req[r].code
  /\ pc[r] \in Upgrading /\ account.exists =>
       /\ req[r].version <= account.version
       /\ ~account.guest => req[r].version < account.version
  /\ pc[r] = "sweep" => Full

(* No two redemptions wait to hand out one session.                        *)
OwnSessions ==
  \A r, q \in Requests : req[r].session = req[q].session /\ req[r].session # None => r = q

Inv == Typed /\ TablesInv /\ OwnSessions /\ \A r \in Requests : RequestOK(r)

(* What no step does to a request at rest.                                 *)
Rest(q) ==
  /\ pc'[q] = pc[q] /\ req'[q] = req[q]
  /\ req[q].session # None =>
       session'[req[q].session] \in {session[req[q].session], NoSession}
  /\ pc[q] # "idle" /\ account'.exists =>
       /\ account.exists /\ account.version <= account'.version
       /\ account'.guest = account.guest \/ account.version < account'.version
  /\ Full => Full'

(* One active code at most, counted.                                       *)
LEMMA AtMostOneActive == CodesInv => Cardinality(Active) <= 1
<1> SUFFICES ASSUME CodesInv PROVE Cardinality(Active) <= 1
  OBVIOUS
<1>1. CASE Active = {}
  BY <1>1, FS_EmptySet
<1>2. CASE Active # {}
  <2>1. PICK c : c \in Active
    BY <1>2
  <2>2. Active = {c}
    BY <2>1 DEF Active, CodesInv
  <2> QED BY <2>2, FS_Singleton
<1> QED BY <1>1, <1>2

(* The invariant gives the type invariant of the specification.            *)
LEMMA InvTypeOK == Inv => TypeOK
BY AtMostOneActive DEF Inv, TablesInv, Typed, TypeOK

(* At the start there is no account.                                       *)
LEMMA InitInv == Init => Inv
<1> SUFFICES ASSUME Init PROVE Inv
  OBVIOUS
<1>1. Typed
  <2>1. account \in Account
    BY MaxVersionAssumption DEF Init, NoAccount, Account
  <2>2. session \in [Sessions -> Session]
    BY DEF Init, NoSession, Session
  <2>3. req \in [Requests -> Request] /\ pc \in [Requests -> Steps]
    BY MaxVersionAssumption DEF Init, NoRequest, Request, Steps
  <2> QED BY <2>1, <2>2, <2>3 DEF Init, Typed
<1>2. TablesInv
  BY DEF Init, TablesInv, AccountInv, CodesInv, OldCodeOpensNothing, Locked, NoSession
<1>3. OwnSessions /\ \A r \in Requests : RequestOK(r)
  BY DEF Init, OwnSessions, RequestOK, NoRequest, Upgrading
<1> QED BY <1>1, <1>2, <1>3 DEF Inv

(* A request at rest keeps what it relies on.                              *)
LEMMA RestKept ==
  ASSUME Typed, Typed', NEW q \in Requests, RequestOK(q), Rest(q)
  PROVE  RequestOK(q)'
<1>1. /\ pc'[q] = "find" => req'[q].op \in {"issue", "redeem", "upgrade"}
      /\ pc'[q] = "lookup" => req'[q].op = "redeem"
      /\ req'[q].op # "redeem" => req'[q].code = None
      /\ pc'[q] = "sweep" => Full'
  BY DEF RequestOK, Rest
<1>2. req'[q].session # None =>
        /\ ~session'[req'[q].session].held
        /\ session'[req'[q].session].live => session'[req'[q].session].via = req'[q].code
  BY DEF RequestOK, Rest, NoSession
<1>3. ASSUME pc'[q] \in Upgrading, account'.exists
      PROVE  /\ req'[q].version <= account'.version
             /\ ~account'.guest => req'[q].version < account'.version
  <2>1. /\ account.exists /\ account.version <= account'.version
        /\ account'.guest = account.guest \/ account.version < account'.version
    BY <1>3 DEF Rest, Upgrading
  <2>2. /\ req[q].version <= account.version
        /\ ~account.guest => req[q].version < account.version
    BY <1>3, <2>1 DEF RequestOK, Rest
  <2>3. account.version \in Int /\ account'.version \in Int /\ req[q].version \in Int
    BY DEF Typed, Account, Request
  <2> QED BY <2>1, <2>2, <2>3 DEF Rest
<1> QED BY <1>1, <1>2, <1>3 DEF RequestOK

(* Put together: the step of one request r.                                *)
LEMMA OneMoves ==
  ASSUME Inv, NEW r \in Requests, Typed', TablesInv', RequestOK(r)',
         req'[r].session # None => \A q \in Requests \ {r} : req[q].session # req'[r].session,
         \A q \in Requests \ {r} : Rest(q)
  PROVE  Inv'
<1>1. \A q \in Requests \ {r} : RequestOK(q)'
  BY RestKept DEF Inv
<1>2. OwnSessions'
  BY DEF Inv, OwnSessions, Rest
<1> QED BY <1>1, <1>2 DEF Inv

(* Put together: a step of no request.                                     *)
LEMMA NoneMoves ==
  ASSUME Inv, Typed', TablesInv', UNCHANGED <<pc, req>>, \A q \in Requests : Rest(q)
  PROVE  Inv'
<1>1. \A q \in Requests : RequestOK(q)'
  BY RestKept DEF Inv
<1>2. OwnSessions'
  BY DEF Inv, OwnSessions
<1> QED BY <1>1, <1>2 DEF Inv

(* A request that moves alone leaves the tables and everybody else alone.  *)
LEMMA TablesAlone ==
  ASSUME Inv, UNCHANGED tables
  PROVE  /\ TablesInv'
         /\ \A q \in Requests : pc'[q] = pc[q] /\ req'[q] = req[q] => Rest(q)
<1>1. TablesInv'
  BY DEF Inv, TablesInv, tables, AccountInv, CodesInv, OldCodeOpensNothing, Full, Locked
<1>2. \A q \in Requests : pc'[q] = pc[q] /\ req'[q] = req[q] => Rest(q)
  BY DEF Inv, Typed, Account, tables, Rest, Full
<1> QED BY <1>1, <1>2

(* A request moves and writes nothing.                                     *)
LEMMA ReadStep ==
  ASSUME Inv, NEW r \in Requests, NEW p \in Steps, NEW x \in Request, UNCHANGED tables,
         pc' = [pc EXCEPT ![r] = p], req' = [req EXCEPT ![r] = x],
         x.session = None \/ x.session = req[r].session,
         RequestOK(r)'
  PROVE  Inv'
<1>1. Typed'
  BY DEF Inv, Typed, tables
<1>2. req'[r] = x /\ \A q \in Requests \ {r} : pc'[q] = pc[q] /\ req'[q] = req[q]
  BY DEF Inv, Typed
<1>3. x.session # None => \A q \in Requests \ {r} : req[q].session # x.session
  BY DEF Inv, OwnSessions
<1> QED BY <1>1, <1>2, <1>3, TablesAlone, OneMoves

(* A request that ends has nothing to rely on.                             *)
LEMMA EndedOK ==
  ASSUME Typed, NEW r \in Requests, End(r)
  PROVE  /\ pc' \in [Requests -> Steps] /\ req' \in [Requests -> Request]
         /\ pc'[r] = "idle" /\ req'[r] = NoRequest /\ RequestOK(r)'
         /\ \A q \in Requests \ {r} : pc'[q] = pc[q] /\ req'[q] = req[q]
<1>1. NoRequest \in Request /\ "idle" \in Steps
  BY MaxVersionAssumption DEF NoRequest, Request, Steps
<1>2. /\ pc' \in [Requests -> Steps] /\ req' \in [Requests -> Request]
      /\ pc'[r] = "idle" /\ req'[r] = NoRequest
      /\ \A q \in Requests \ {r} : pc'[q] = pc[q] /\ req'[q] = req[q]
  BY <1>1 DEF Typed, End, Goto
<1>3. RequestOK(r)'
  BY <1>2 DEF RequestOK, NoRequest, Upgrading
<1> QED BY <1>2, <1>3

(* A request ends, having written or not.                                  *)
LEMMA EndingMoves ==
  ASSUME Inv, NEW r \in Requests, End(r), Typed', TablesInv',
         \A q \in Requests \ {r} : pc'[q] = pc[q] /\ req'[q] = req[q] => Rest(q)
  PROVE  Inv'
<1>1. /\ RequestOK(r)' /\ req'[r] = NoRequest
      /\ \A q \in Requests \ {r} : pc'[q] = pc[q] /\ req'[q] = req[q]
  BY EndedOK DEF Inv
<1>2. req'[r].session = None
  BY <1>1 DEF NoRequest
<1> QED BY <1>1, <1>2, OneMoves

(* A visitor becomes a guest: no other request is under way.               *)
LEMMA CreateInv ==
  ASSUME Inv, NEW r \in Requests, Create(r)
  PROVE  Inv'
<1> DEFINE x == [NoRequest EXCEPT !.op = "create"]
<1>1. x \in Request /\ x.op = "create" /\ x.code = None /\ x.session = None
  BY MaxVersionAssumption DEF NoRequest, Request
<1>2. pc' = [pc EXCEPT ![r] = "open"] /\ req' = [req EXCEPT ![r] = x]
  BY DEF Create, Start, Goto
<1> HIDE DEF x
<1>3. /\ account' \in Account /\ account'.exists /\ account'.guest
      /\ ~account.exists /\ \A q \in Requests : pc[q] = "idle"
  <2> DEFINE a == [exists |-> TRUE, guest |-> TRUE, version |-> 0, old |-> FALSE]
  <2>1. account' = a
    BY DEF Create, NoAccount
  <2>2. a \in Account /\ a.exists /\ a.guest
    BY MaxVersionAssumption DEF Account
  <2>3. ~account.exists /\ \A q \in Requests : pc[q] = "idle"
    BY DEF Create
  <2> HIDE DEF a
  <2> QED BY <2>1, <2>2, <2>3
<1>4. Typed'
  BY <1>1, <1>2, <1>3 DEF Create, Inv, Typed, Steps
<1>5. TablesInv'
  BY <1>3 DEF Create, Inv, Typed, TablesInv, AccountInv, CodesInv, OldCodeOpensNothing, Full,
     Locked
<1>6. /\ pc'[r] = "open" /\ req'[r] = x
      /\ \A q \in Requests \ {r} : pc'[q] = pc[q] /\ req'[q] = req[q]
  BY <1>2 DEF Inv, Typed
<1>7. RequestOK(r)'
  BY <1>1, <1>6 DEF RequestOK, Upgrading
<1>8. \A q \in Requests \ {r} : Rest(q)
  BY <1>3, <1>6 DEF Create, Rest, Full
<1> QED BY <1>1, <1>4, <1>5, <1>6, <1>7, <1>8, OneMoves

(* A signed-in guest asks for a code or an upgrade.                        *)
LEMMA GuestPageInv ==
  ASSUME Inv, NEW r \in Requests, GuestPage(r)
  PROVE  Inv'
<1>1. PICK op \in {"issue", "upgrade"} : Start(r, "find", [NoRequest EXCEPT !.op = op])
  BY DEF GuestPage
<1> DEFINE x == [NoRequest EXCEPT !.op = op]
<1>2. x \in Request /\ x.op = op /\ x.code = None /\ x.session = None
  BY MaxVersionAssumption DEF NoRequest, Request
<1>3. pc' = [pc EXCEPT ![r] = "find"] /\ req' = [req EXCEPT ![r] = x]
  BY <1>1 DEF Start, Goto
<1> HIDE DEF x
<1>4. pc'[r] = "find" /\ req'[r] = x
  BY <1>3 DEF Inv, Typed
<1>5. RequestOK(r)'
  BY <1>2, <1>4 DEF RequestOK, Upgrading
<1>6. UNCHANGED tables /\ "find" \in Steps
  BY DEF GuestPage, Steps
<1> QED BY <1>2, <1>3, <1>5, <1>6, ReadStep

(* Somebody sends a code.                                                  *)
LEMMA RedeemPageInv ==
  ASSUME Inv, NEW r \in Requests, RedeemPage(r)
  PROVE  Inv'
<1>1. PICK c \in Codes : Start(r, "lookup", [NoRequest EXCEPT !.op = "redeem", !.code = c])
  BY DEF RedeemPage
<1> DEFINE x == [NoRequest EXCEPT !.op = "redeem", !.code = c]
<1>2. x \in Request /\ x.op = "redeem" /\ x.session = None
  <2> DEFINE y == [NoRequest EXCEPT !.op = "redeem"]
  <2>1. y \in Request /\ y.op = "redeem" /\ y.session = None
    BY MaxVersionAssumption DEF NoRequest, Request
  <2>2. x = [y EXCEPT !.code = c]
    OBVIOUS
  <2> HIDE DEF y, x
  <2> QED BY <2>1, <2>2 DEF Request
<1>3. pc' = [pc EXCEPT ![r] = "lookup"] /\ req' = [req EXCEPT ![r] = x]
  BY <1>1 DEF Start, Goto
<1> HIDE DEF x
<1>4. pc'[r] = "lookup" /\ req'[r] = x
  BY <1>3 DEF Inv, Typed
<1>5. RequestOK(r)'
  BY <1>2, <1>4 DEF RequestOK, Upgrading
<1>6. UNCHANGED tables /\ "lookup" \in Steps
  BY DEF RedeemPage, Steps
<1> QED BY <1>2, <1>3, <1>5, <1>6, ReadStep

(* The upgrade reads a guest's row: its revision is the row's.             *)
LEMMA FindInv ==
  ASSUME Inv, NEW r \in Requests, Find(r)
  PROVE  Inv'
<1> DEFINE v == IF req[r].op = "upgrade" THEN account.version ELSE 0
           x == [req[r] EXCEPT !.version = v]
           p == CASE req[r].op = "issue" -> "active"
                  [] req[r].op = "redeem" -> "open"
                  [] req[r].op = "upgrade" -> IF mode = "local" THEN "revoke" ELSE "convert"
<1>1. req' = [req EXCEPT ![r] = x] /\ pc' = [pc EXCEPT ![r] = p]
  BY DEF Find, Inv, Typed, Goto
<1>2. v \in 0..MaxVersion /\ (req[r].op = "upgrade" => v = account.version)
  BY MaxVersionAssumption DEF Inv, Typed, Account
<1>3. req[r].op \in {"issue", "redeem", "upgrade"}
  BY DEF Find, Inv, RequestOK
<1>4. p \in {"active", "open", "revoke", "convert"} /\ (p \in Upgrading => req[r].op = "upgrade")
  BY <1>3 DEF Upgrading
<1> HIDE DEF v, p
<1>5. /\ x \in Request /\ x.op = req[r].op /\ x.code = req[r].code
      /\ x.session = req[r].session /\ x.version = v
  BY <1>2 DEF Inv, Typed, Request
<1> HIDE DEF x
<1>6. pc'[r] = p /\ req'[r] = x /\ UNCHANGED tables /\ account.guest
  BY <1>1 DEF Inv, Typed, Find
<1>7. account.version \in Int
  BY DEF Inv, Typed, Account
<1>8. RequestOK(r)'
  <2>1. /\ pc'[r] = "find" => req'[r].op \in {"issue", "redeem", "upgrade"}
        /\ pc'[r] = "lookup" => req'[r].op = "redeem"
        /\ req'[r].op # "redeem" => req'[r].code = None
        /\ pc'[r] = "sweep" => Full'
    BY <1>4, <1>5, <1>6 DEF Inv, RequestOK
  <2>2. req'[r].session # None =>
          /\ ~session'[req'[r].session].held
          /\ session'[req'[r].session].live => session'[req'[r].session].via = req'[r].code
    BY <1>5, <1>6 DEF Inv, RequestOK, tables
  <2>3. pc'[r] \in Upgrading /\ account'.exists =>
          /\ req'[r].version <= account'.version
          /\ ~account'.guest => req'[r].version < account'.version
    BY <1>2, <1>4, <1>5, <1>6, <1>7 DEF tables
  <2> QED BY <2>1, <2>2, <2>3 DEF RequestOK
<1>9. p \in Steps
  BY <1>4 DEF Steps
<1> QED BY <1>1, <1>5, <1>6, <1>8, <1>9, ReadStep

(* A step that leads elsewhere with what the request has, not to an upgrade.*)
LEMMA GotoInv ==
  ASSUME Inv, NEW r \in Requests, UNCHANGED <<tables, req>>,
         NEW p \in {"insert", "find", "undo"}, Goto(r, p),
         p = "find" => req[r].op = "redeem"
  PROVE  Inv'
<1>1. pc'[r] = p /\ req' = [req EXCEPT ![r] = req[r]] /\ req[r] \in Request
  BY DEF Goto, Inv, Typed
<1>2. RequestOK(r)'
  BY <1>1 DEF Inv, RequestOK, tables, Upgrading
<1> QED BY <1>1, <1>2, ReadStep DEF Goto, Steps

(* A request ends with the tables as they are.                             *)
LEMMA EndInv ==
  ASSUME Inv, NEW r \in Requests, End(r), UNCHANGED tables
  PROVE  Inv'
<1>1. Typed'
  BY EndedOK DEF Inv, Typed, tables
<1> QED BY <1>1, TablesAlone, EndingMoves

(* The active code is read, or there is none.                              *)
LEMMA IssueActiveInv ==
  ASSUME Inv, NEW r \in Requests, IssueActive(r)
  PROVE  Inv'
<1>1. CASE End(r)
  BY <1>1, EndInv DEF IssueActive
<1>2. CASE Goto(r, "insert") /\ UNCHANGED req
  BY <1>2, GotoInv DEF IssueActive
<1> QED BY <1>1, <1>2 DEF IssueActive

(* A session is opened on an id that no request has: a redemption keeps it *)
(* to itself, another request hands it out, opened by no code.             *)
LEMMA OpenInv ==
  ASSUME Inv, NEW r \in Requests, Open(r)
  PROVE  Inv'
<1> DEFINE s == Pick(UnusedSessions)
           n == [live |-> TRUE, via |-> req[r].code, held |-> req[r].op # "redeem"]
<1>1. s \in Sessions /\ ~session[s].live /\ \A q \in Requests : req[q].session # s
  BY DEF Open, Pick, UnusedSessions
<1>2. /\ session' = [session EXCEPT ![s] = n]
      /\ IF req[r].op = "redeem"
         THEN Goto(r, "mark") /\ req' = [req EXCEPT ![r].session = s]
         ELSE End(r)
      /\ UNCHANGED <<mode, account, member, code, cleanup, doomed, retired, owner>>
  BY DEF Open
<1> HIDE DEF s
<1>3. n \in Session
  BY DEF Inv, Typed, Request, Session
<1>4. n.live /\ n.via = req[r].code /\ n.held = (req[r].op # "redeem")
  OBVIOUS
<1>5. n.held => n.via = None
  BY <1>4 DEF Inv, RequestOK
<1> HIDE DEF n
<1>6. session' \in [Sessions -> Session]
  BY <1>2, <1>3 DEF Inv, Typed
<1>7. TablesInv'
  <2>1. AccountInv' /\ CodesInv'
    BY <1>2 DEF Inv, TablesInv, AccountInv, CodesInv, Full, Locked
  <2>2. OldCodeOpensNothing'
    BY <1>2, <1>5, NoneAssumption DEF Inv, Typed, TablesInv, OldCodeOpensNothing
  <2> QED BY <2>1, <2>2 DEF TablesInv
<1>8. \A q \in Requests : pc'[q] = pc[q] /\ req'[q] = req[q] => Rest(q)
  BY <1>1, <1>2 DEF Inv, Typed, Account, Request, Rest, Full
<1>9. CASE req[r].op # "redeem"
  <2>1. Typed'
    BY <1>2, <1>6, <1>9, EndedOK DEF Inv, Typed
  <2> QED BY <1>2, <1>7, <1>8, <1>9, <2>1, EndingMoves
<1>10. CASE req[r].op = "redeem"
  <2> DEFINE x == [req[r] EXCEPT !.session = s]
  <2>1. req' = [req EXCEPT ![r] = x] /\ pc' = [pc EXCEPT ![r] = "mark"]
    BY <1>2, <1>10 DEF Inv, Typed, Goto
  <2>2. x \in Request /\ x.op = "redeem" /\ x.code = req[r].code /\ x.session = s
    BY <1>1, <1>10 DEF Inv, Typed, Request
  <2> HIDE DEF x
  <2>3. /\ pc'[r] = "mark" /\ req'[r] = x
        /\ \A q \in Requests \ {r} : pc'[q] = pc[q] /\ req'[q] = req[q]
    BY <2>1 DEF Inv, Typed
  <2>4. Typed'
    BY <1>2, <1>6, <2>1, <2>2 DEF Inv, Typed, Steps
  <2>5. session'[s] = n /\ ~n.held
    BY <1>1, <1>2, <1>4, <1>10 DEF Inv, Typed
  <2>6. RequestOK(r)'
    BY <1>4, <2>2, <2>3, <2>5 DEF RequestOK, Upgrading
  <2> QED BY <1>1, <1>7, <1>8, <2>2, <2>3, <2>4, <2>6, OneMoves
<1> QED BY <1>9, <1>10

(* The code is inserted only when none is active.                          *)
LEMMA CreateGuestClaimCodeInv ==
  ASSUME Inv, NEW r \in Requests, CreateGuestClaimCode(r)
  PROVE  Inv'
<1>1. CASE UNCHANGED code
  BY <1>1, EndInv DEF CreateGuestClaimCode, tables
<1>2. CASE /\ Active = {} /\ UnusedCodes # {}
           /\ code' = [code EXCEPT ![Pick(UnusedCodes)] = "active"]
  <2>1. PICK c \in Codes : code[c] = "none" /\ code' = [code EXCEPT ![c] = "active"]
    BY <1>2 DEF Pick, UnusedCodes
  <2>2. End(r) /\ UNCHANGED <<mode, account, member, session, cleanup, doomed, retired, owner>>
    BY DEF CreateGuestClaimCode
  <2>3. Typed'
    BY <2>1, <2>2, EndedOK DEF Inv, Typed
  <2>4. TablesInv'
    <3>1. AccountInv' /\ OldCodeOpensNothing'
      BY <2>2 DEF Inv, TablesInv, AccountInv, OldCodeOpensNothing, Full, Locked
    <3>2. CodesInv'
      BY <1>2, <2>1, <2>2 DEF Inv, Typed, TablesInv, CodesInv, Active
    <3> QED BY <3>1, <3>2 DEF TablesInv
  <2>5. \A q \in Requests : pc'[q] = pc[q] /\ req'[q] = req[q] => Rest(q)
    BY <2>2 DEF Inv, Typed, Account, Rest, Full
  <2> QED BY <2>2, <2>3, <2>4, <2>5, EndingMoves
<1> QED BY <1>1, <1>2 DEF CreateGuestClaimCode

(* A session changes, or a redemption's is handed out or taken back: what  *)
(* a step of r must see to.                                                *)
LEMMA SessionStep ==
  ASSUME Inv, NEW r \in Requests, End(r), NEW n \in Session,
         session' = [session EXCEPT ![req[r].session] = n],
         n.live /\ n.held => n.via \notin retired,
         UNCHANGED <<mode, account, member, code, cleanup, doomed, retired, owner>>
  PROVE  Inv'
<1>1. Typed'
  BY EndedOK DEF Inv, Typed
<1>2. AccountInv' /\ CodesInv'
  BY DEF Inv, TablesInv, AccountInv, CodesInv, Full, Locked
<1>3. OldCodeOpensNothing'
  BY DEF Inv, Typed, TablesInv, OldCodeOpensNothing
<1>4. \A q \in Requests \ {r} : req[q].session # None =>
                                 req[q].session # req[r].session
  BY DEF Inv, OwnSessions
<1>5. \A q \in Requests \ {r} : req[q].session # None =>
                                 session'[req[q].session] = session[req[q].session]
  BY <1>4, NoneAssumption DEF Inv, Typed, Request
<1>6. \A q \in Requests \ {r} : pc'[q] = pc[q] /\ req'[q] = req[q] => Rest(q)
  BY <1>5 DEF Inv, Typed, Account, Rest, Full
<1> QED BY <1>1, <1>2, <1>3, <1>6, EndingMoves DEF TablesInv

(* The session is handed out if its code is active now, so not retired.    *)
LEMMA MarkInv ==
  ASSUME Inv, NEW r \in Requests, MarkGuestClaimCodeUsed(r)
  PROVE  Inv'
<1>1. CASE Goto(r, "undo") /\ UNCHANGED <<session, req>>
  BY <1>1, GotoInv DEF MarkGuestClaimCodeUsed, tables
<1>2. CASE code[req[r].code] = "active" /\ Handed(r) /\ End(r)
  <2>1. CASE req[r].session = None
    <3>1. UNCHANGED session
      BY <1>2, <2>1, NoneAssumption DEF Handed, Inv, Typed
    <3> QED BY <1>2, <3>1, EndInv DEF MarkGuestClaimCodeUsed, tables
  <2>2. CASE req[r].session # None
    <3> DEFINE t == req[r].session
               n == [session[t] EXCEPT !.held = session[t].live]
    <3>1. session' = [session EXCEPT ![t] = n] /\ t \in Sessions
      BY <1>2, <2>2 DEF Handed, Inv, Typed, Request
    <3>2. n \in Session /\ n.live = session[t].live /\ n.via = session[t].via
      BY <3>1 DEF Inv, Typed, Session
    <3> HIDE DEF n
    <3>3. n.live => n.via \notin retired
      BY <1>2, <2>2, <3>2 DEF Inv, RequestOK, TablesInv, CodesInv
    <3> QED BY <1>2, <3>1, <3>2, <3>3, SessionStep DEF MarkGuestClaimCodeUsed
  <2> QED BY <2>1, <2>2
<1> QED BY <1>1, <1>2 DEF MarkGuestClaimCodeUsed

(* A redemption that found its code revoked takes its session back.        *)
LEMMA RevokeRedeemedInv ==
  ASSUME Inv, NEW r \in Requests, RevokeRedeemed(r)
  PROVE  Inv'
<1>1. NoSession \in Session /\ ~NoSession.live
  BY DEF NoSession, Session
<1> QED BY <1>1, SessionStep DEF RevokeRedeemed

(* Revoking leaves no code active and revives none.                        *)
LEMMA RevokedCodes ==
  ASSUME Inv, code' = Revoked, UNCHANGED retired
  PROVE  code' \in [Codes -> {"none", "active", "revoked"}] /\ CodesInv'
BY DEF Inv, Typed, TablesInv, CodesInv, Revoked

(* The upgrade has revoked the code: the revision it read is the same.     *)
LEMMA RevokeGuestClaimCodeInv ==
  ASSUME Inv, NEW r \in Requests, RevokeGuestClaimCode(r)
  PROVE  Inv'
<1> USE DEF RevokeGuestClaimCode, Goto
<1>1. Typed'
  BY RevokedCodes DEF Inv, Typed, Steps
<1>2. TablesInv'
  BY RevokedCodes DEF Inv, TablesInv, AccountInv, OldCodeOpensNothing, Full, Locked
<1>3. pc'[r] = "update" /\ \A q \in Requests \ {r} : pc'[q] = pc[q] /\ req'[q] = req[q]
  BY DEF Inv, Typed
<1>4. RequestOK(r)'
  BY <1>3 DEF Inv, RequestOK, Upgrading
<1>5. \A q \in Requests \ {r} : Rest(q)
  BY <1>3 DEF Inv, Typed, Account, Rest, Full
<1>6. req'[r].session # None => \A q \in Requests \ {r} : req[q].session # req'[r].session
  BY DEF Inv, OwnSessions
<1> QED BY <1>1, <1>2, <1>4, <1>5, <1>6, OneMoves

(* The row is upgraded: it moves past every revision that was read.        *)
LEMMA ConvertedInv ==
  ASSUME Inv, NEW r \in Requests, ~Locked, account.exists, Converted(r),
         code' = code \/ code' = Revoked,
         UNCHANGED <<mode, member, session, cleanup, doomed, retired>>
  PROVE  Inv'
<1>1. /\ account' \in Account /\ account'.exists /\ ~account'.guest
      /\ account'.version = account.version + 1
  <2> DEFINE a == [account EXCEPT !.guest = FALSE]
  <2>1. /\ a \in Account /\ a.exists /\ ~a.guest /\ a.version = account.version
        /\ a.version < MaxVersion /\ account' = [a EXCEPT !.version = account.version + 1]
    BY DEF Inv, Typed, Account, Converted
  <2> HIDE DEF a
  <2> QED BY <2>1, MaxVersionAssumption DEF Account
<1>2. code' \in [Codes -> {"none", "active", "revoked"}] /\ CodesInv'
  BY RevokedCodes DEF Inv, Typed, TablesInv, CodesInv
<1>3. /\ pc' = [pc EXCEPT ![r] = "sweep"] /\ owner' = r /\ req' = req
  BY DEF Converted, Goto
<1>4. Typed'
  BY <1>1, <1>2, <1>3 DEF Inv, Typed, Steps
<1>5. TablesInv'
  BY <1>1, <1>2 DEF Inv, TablesInv, AccountInv, OldCodeOpensNothing, Full, Locked
<1>6. pc'[r] = "sweep" /\ \A q \in Requests \ {r} : pc'[q] = pc[q] /\ req'[q] = req[q]
  BY <1>3 DEF Inv, Typed
<1>7. RequestOK(r)'
  BY <1>1, <1>3, <1>6 DEF Inv, RequestOK, Upgrading, Full
<1>8. \A q \in Requests \ {r} : Rest(q)
  BY <1>1, <1>6 DEF Inv, Typed, Account, Rest, Full
<1>9. req'[r].session # None => \A q \in Requests \ {r} : req[q].session # req'[r].session
  BY <1>3 DEF Inv, OwnSessions
<1> QED BY <1>4, <1>5, <1>7, <1>8, <1>9, OneMoves

(* The sweep retires what is revoked now, and leaves no session.           *)
LEMMA RevokeUserInv ==
  ASSUME Inv, NEW r \in Requests, RevokeUser(r)
  PROVE  Inv'
<1> USE DEF RevokeUser, Goto
<1>1. NoSession \in Session /\ ~NoSession.live /\ ~NoSession.held
  BY DEF NoSession, Session
<1>2. Typed'
  BY <1>1 DEF Inv, Typed, Steps
<1>3. Full
  BY DEF Inv, RequestOK
<1>4. TablesInv'
  BY <1>1, <1>3 DEF Inv, Typed, TablesInv, AccountInv, CodesInv, OldCodeOpensNothing, Full, Locked
<1>5. pc'[r] = "open" /\ \A q \in Requests \ {r} : pc'[q] = pc[q] /\ req'[q] = req[q]
  BY DEF Inv, Typed
<1>6. \A q \in Requests : req[q].session # None => session'[req[q].session] = NoSession
  BY DEF Inv, Typed, Request
<1>7. RequestOK(r)'
  BY <1>1, <1>5, <1>6 DEF Inv, RequestOK, Upgrading
<1>8. \A q \in Requests \ {r} : Rest(q)
  BY <1>5, <1>6 DEF Inv, Typed, Account, Rest, Full
<1>9. req'[r].session # None => \A q \in Requests \ {r} : req[q].session # req'[r].session
  BY DEF Inv, OwnSessions
<1> QED BY <1>2, <1>4, <1>7, <1>8, <1>9, OneMoves

(* Groups, the theme switch, and time.                                     *)
LEMMA MemberInv == Inv /\ (JoinGroup \/ LeaveGroup) => Inv'
<1> SUFFICES ASSUME Inv, JoinGroup \/ LeaveGroup PROVE Inv'
  OBVIOUS
<1>1. /\ UNCHANGED <<mode, account, code, session, cleanup, doomed, pc, req, retired, owner>>
      /\ member' \in BOOLEAN /\ (Locked => ~member')
  BY DEF JoinGroup, LeaveGroup
<1>2. Typed'
  BY <1>1 DEF Inv, Typed
<1>3. TablesInv'
  BY <1>1 DEF Inv, TablesInv, AccountInv, CodesInv, OldCodeOpensNothing, Full, Locked
<1>4. \A q \in Requests : Rest(q)
  BY <1>1 DEF Inv, Typed, Account, Rest, Full
<1> QED BY <1>1, <1>2, <1>3, <1>4, NoneMoves

(* A write of the row that leaves it a guest or not: the revision goes up. *)
LEMMA AccountInvKept == Inv /\ (UpdateTheme \/ GrowOld) => Inv'
<1> SUFFICES ASSUME Inv, UpdateTheme \/ GrowOld PROVE Inv'
  OBVIOUS
<1>1. UNCHANGED <<mode, member, code, session, cleanup, doomed, pc, req, retired, owner>>
  BY DEF UpdateTheme, GrowOld
<1>2. /\ account' \in Account /\ account'.exists = account.exists
      /\ account'.guest = account.guest /\ account.version <= account'.version
      /\ Locked => account'.old
  <2>1. CASE UpdateTheme
    <3>1. /\ account' = [account EXCEPT !.version = account.version + 1]
          /\ account.version < MaxVersion /\ ~Locked
      BY <2>1 DEF UpdateTheme
    <3>2. account' \in Account /\ account.version <= account'.version
      BY <3>1, MaxVersionAssumption DEF Inv, Typed, Account
    <3>3. account'.exists = account.exists /\ account'.guest = account.guest
      BY <3>1, Zenon DEF Inv, Typed, Account
    <3> QED BY <3>1, <3>2, <3>3
  <2>2. CASE GrowOld
    <3>1. account' = [account EXCEPT !.old = TRUE]
      BY <2>2 DEF GrowOld
    <3>2. account' \in Account
      BY <3>1, Zenon DEF Inv, Typed, Account
    <3>3. account'.version = account.version /\ account.version \in Int
      BY <3>1 DEF Inv, Typed, Account
    <3>4. account'.exists = account.exists /\ account'.guest = account.guest /\ account'.old
      BY <3>1, Zenon DEF Inv, Typed, Account
    <3> QED BY <3>2, <3>3, <3>4
  <2> QED BY <2>1, <2>2
<1>3. Typed'
  BY <1>1, <1>2 DEF Inv, Typed
<1>4. TablesInv'
  BY <1>1, <1>2 DEF Inv, TablesInv, AccountInv, CodesInv, OldCodeOpensNothing, Full, Locked
<1>5. \A q \in Requests : Rest(q)
  BY <1>1, <1>2 DEF Rest, Full
<1> QED BY <1>1, <1>3, <1>4, <1>5, NoneMoves

(* Signing out and in: the session is nobody's in between.                 *)
LEMMA SignInv == Inv /\ (SignOut \/ SignIn) => Inv'
<1> SUFFICES ASSUME Inv, SignOut \/ SignIn PROVE Inv'
  OBVIOUS
<1> DEFINE n == [live |-> TRUE, via |-> None, held |-> TRUE]
<1>1. UNCHANGED <<mode, account, member, code, cleanup, doomed, pc, req, retired, owner>>
  BY DEF SignOut, SignIn
<1>2. PICK s \in Sessions :
        \/ session' = [session EXCEPT ![s] = NoSession]
        \/ /\ session' = [session EXCEPT ![s] = n]
           /\ \A q \in Requests : req[q].session # s
  BY DEF SignOut, SignIn, Pick, UnusedSessions
<1>3. n \in Session /\ NoSession \in Session /\ n.via = None /\ ~NoSession.live
  BY DEF Session, NoSession
<1> HIDE DEF n
<1>4. Typed'
  BY <1>1, <1>2, <1>3 DEF Inv, Typed
<1>5. TablesInv'
  <2>1. AccountInv' /\ CodesInv'
    BY <1>1 DEF Inv, TablesInv, AccountInv, CodesInv, Full, Locked
  <2>2. OldCodeOpensNothing'
    BY <1>1, <1>2, <1>3, NoneAssumption DEF Inv, Typed, TablesInv, OldCodeOpensNothing
  <2> QED BY <2>1, <2>2 DEF TablesInv
<1>6. \A q \in Requests : Rest(q)
  BY <1>1, <1>2 DEF Inv, Typed, Account, Request, Rest, Full
<1> QED BY <1>1, <1>4, <1>5, <1>6, NoneMoves

(* The cleanup transaction locks, looks and fails.                         *)
LEMMA CleanupInv == Inv /\ (CleanupLock \/ CleanupCheck \/ CleanupFails) => Inv'
<1> SUFFICES ASSUME Inv, CleanupLock \/ CleanupCheck \/ CleanupFails PROVE Inv'
  OBVIOUS
<1> USE DEF CleanupLock, CleanupCheck, CleanupFails, CleanupEnds
<1>1. UNCHANGED <<mode, account, member, code, session, pc, req, retired, owner>>
  OBVIOUS
<1>2. Typed'
  BY <1>1 DEF Inv, Typed
<1>3. TablesInv'
  <2>1. CodesInv' /\ OldCodeOpensNothing'
    BY <1>1 DEF Inv, TablesInv, CodesInv, OldCodeOpensNothing
  <2>2. AccountInv'
    BY <1>1 DEF Inv, Typed, TablesInv, AccountInv, Full, Locked
  <2> QED BY <2>1, <2>2 DEF TablesInv
<1>4. \A q \in Requests : Rest(q)
  BY <1>1 DEF Inv, Typed, Account, Rest, Full
<1> QED BY <1>1, <1>2, <1>3, <1>4, NoneMoves

(* The account that goes was never upgraded.                               *)
LEMMA CleanupCommitInv == Inv /\ CleanupCommit => Inv'
<1> SUFFICES ASSUME Inv, CleanupCommit PROVE Inv'
  OBVIOUS
<1> USE DEF CleanupEnds
<1>1. cleanup' = "idle" /\ doomed' = FALSE /\ UNCHANGED <<mode, pc, req, retired, owner>>
  BY DEF CleanupCommit
<1>2. CASE ~doomed
  <2>1. UNCHANGED <<account, member, code, session>>
    BY <1>2 DEF CleanupCommit
  <2>2. Typed'
    BY <1>1, <2>1 DEF Inv, Typed
  <2>3. TablesInv'
    BY <1>1, <2>1 DEF Inv, TablesInv, AccountInv, CodesInv, OldCodeOpensNothing, Full, Locked
  <2>4. \A q \in Requests : Rest(q)
    BY <1>1, <2>1 DEF Inv, Typed, Account, Rest, Full
  <2> QED BY <1>1, <2>2, <2>3, <2>4, NoneMoves
<1>3. CASE doomed
  <2>1. /\ account' = NoAccount /\ member' = FALSE /\ code' = [c \in Codes |-> "none"]
        /\ session' = [s \in Sessions |-> NoSession]
    BY <1>3 DEF CleanupCommit
  <2>2. NoAccount \in Account /\ ~NoAccount.exists /\ NoSession \in Session /\ ~NoSession.live
    BY MaxVersionAssumption DEF NoAccount, Account, NoSession, Session
  <2>3. Typed'
    BY <1>1, <2>1, <2>2 DEF Inv, Typed
  <2>4. ~Full /\ owner = None /\ retired = {}
    BY <1>3 DEF Inv, TablesInv, AccountInv, Full
  <2>5. TablesInv'
    BY <1>1, <2>1, <2>2, <2>4 DEF TablesInv, AccountInv, CodesInv, OldCodeOpensNothing, Locked
  <2>6. \A q \in Requests : Rest(q)
    BY <1>1, <2>1, <2>2, <2>4 DEF Inv, Typed, Request, Rest
  <2> QED BY <1>1, <2>3, <2>5, <2>6, NoneMoves
<1> QED BY <1>2, <1>3

(* Every step keeps the invariant.                                         *)
LEMMA NextInv == Inv /\ [Next]_vars => Inv'
<1> SUFFICES ASSUME Inv, [Next]_vars PROVE Inv'
  OBVIOUS
<1>1. ASSUME NEW r \in Requests, Create(r) \/ GuestPage(r) \/ RedeemPage(r) PROVE Inv'
  BY <1>1, CreateInv, GuestPageInv, RedeemPageInv
<1>2. ASSUME NEW r \in Requests, Open(r) \/ Find(r) \/ IssueActive(r) \/ CreateGuestClaimCode(r)
      PROVE Inv'
  BY <1>2, OpenInv, FindInv, IssueActiveInv, CreateGuestClaimCodeInv
<1>3. ASSUME NEW r \in Requests, FindCode(r) PROVE Inv'
  <2>1. UNCHANGED <<tables, req>> /\ Goto(r, "find") /\ req[r].op = "redeem"
    BY <1>3 DEF FindCode, Inv, RequestOK
  <2> QED BY <2>1, GotoInv
<1>4. ASSUME NEW r \in Requests, MarkGuestClaimCodeUsed(r) \/ RevokeRedeemed(r) PROVE Inv'
  BY <1>4, MarkInv, RevokeRedeemedInv
<1>5. ASSUME NEW r \in Requests, RevokeGuestClaimCode(r) \/ RevokeUser(r) PROVE Inv'
  BY <1>5, RevokeGuestClaimCodeInv, RevokeUserInv
<1>6. ASSUME NEW r \in Requests, UpdateUser(r) \/ UpgradeGuestWithIdentity(r) PROVE Inv'
  BY <1>6, ConvertedInv DEF UpdateUser, UpgradeGuestWithIdentity
<1>7. ASSUME NEW r \in Requests, GiveUp(r) PROVE Inv'
  BY <1>7, EndInv DEF GiveUp
<1>8. CASE JoinGroup \/ LeaveGroup \/ UpdateTheme \/ SignOut \/ SignIn \/ GrowOld
  BY <1>8, MemberInv, AccountInvKept, SignInv
<1>9. CASE CleanupLock \/ CleanupCheck \/ CleanupCommit \/ CleanupFails
  BY <1>9, CleanupInv, CleanupCommitInv
<1>10. CASE UNCHANGED vars
  <2>1. UNCHANGED tables /\ UNCHANGED <<pc, req>>
    BY <1>10 DEF vars, tables
  <2>2. Typed'
    BY <2>1 DEF Inv, Typed, tables
  <2> QED BY <2>1, <2>2, TablesAlone, NoneMoves
<1> QED BY <1>1, <1>2, <1>3, <1>4, <1>5, <1>6, <1>7, <1>8, <1>9, <1>10 DEF Next

(* The invariant holds throughout.                                         *)
LEMMA Invariance == Spec => []Inv
BY InitInv, NextInv, PTL DEF Spec

(* Every row and request has its type, and an account never has two active *)
(* codes, however many instances race to issue one.                        *)
THEOREM TypeCorrect == Spec => []TypeOK
BY Invariance, InvTypeOK, PTL

(* No browser is given a session, after the upgrade has revoked them, by a *)
(* code that was revoked before (Redeem against Upgrade).                  *)
THEOREM OldCodesClosed == Spec => []OldCodeOpensNothing
BY Invariance, PTL DEF Inv, TablesInv

(* An upgraded account has no upgrade left that matches its row.           *)
LEMMA OwnerKept ==
  ASSUME Inv, [Next]_vars, owner # None
  PROVE  owner' = owner
<1>1. Full
  BY DEF Inv, TablesInv, AccountInv
<1>2. ASSUME NEW r \in Requests, UpdateUser(r) \/ UpgradeGuestWithIdentity(r) PROVE FALSE
  <2>1. pc[r] \in Upgrading /\ account.version = req[r].version
    BY <1>2 DEF UpdateUser, UpgradeGuestWithIdentity, Upgrading
  <2>2. req[r].version < account.version /\ account.version \in Int
    BY <1>1, <2>1 DEF Inv, RequestOK, Full, Typed, Account
  <2> QED BY <2>1, <2>2
<1>3. ASSUME NEW r \in Requests, Create(r) PROVE FALSE
  BY <1>1, <1>3 DEF Create, Full
<1>4. ASSUME NEW r \in Requests,
             \/ GuestPage(r) \/ RedeemPage(r) \/ Open(r) \/ Find(r) \/ IssueActive(r)
             \/ CreateGuestClaimCode(r) \/ FindCode(r) \/ MarkGuestClaimCodeUsed(r)
             \/ RevokeRedeemed(r) \/ RevokeGuestClaimCode(r) \/ RevokeUser(r) \/ GiveUp(r)
      PROVE  owner' = owner
  BY <1>4 DEF GuestPage, RedeemPage, Open, Find, IssueActive, CreateGuestClaimCode, FindCode,
     MarkGuestClaimCodeUsed, RevokeRedeemed, RevokeGuestClaimCode, RevokeUser, GiveUp, tables
<1>5. CASE \/ JoinGroup \/ LeaveGroup \/ UpdateTheme \/ SignOut \/ SignIn \/ GrowOld
           \/ CleanupLock \/ CleanupCheck \/ CleanupCommit \/ CleanupFails
  BY <1>5 DEF JoinGroup, LeaveGroup, UpdateTheme, SignOut, SignIn, GrowOld, CleanupLock,
     CleanupCheck, CleanupCommit, CleanupFails
<1>6. CASE UNCHANGED vars
  BY <1>6 DEF vars
<1> QED BY <1>2, <1>3, <1>4, <1>5, <1>6 DEF Next

(* Only the cleanup transaction deletes, and only what it may.             *)
LEMMA DeletedWasAbandoned ==
  ASSUME Inv, [Next]_vars, account.exists, ~account'.exists
  PROVE  account.guest /\ account.old /\ ~member
<1>1. ASSUME NEW r \in Requests, Create(r) PROVE FALSE
  BY <1>1 DEF Create
<1>2. ASSUME NEW r \in Requests,
             \/ GuestPage(r) \/ RedeemPage(r) \/ Open(r) \/ Find(r) \/ IssueActive(r)
             \/ CreateGuestClaimCode(r) \/ FindCode(r) \/ MarkGuestClaimCodeUsed(r)
             \/ RevokeRedeemed(r) \/ RevokeGuestClaimCode(r) \/ RevokeUser(r) \/ GiveUp(r)
      PROVE  UNCHANGED account
  BY <1>2 DEF GuestPage, RedeemPage, Open, Find, IssueActive, CreateGuestClaimCode, FindCode,
     MarkGuestClaimCodeUsed, RevokeRedeemed, RevokeGuestClaimCode, RevokeUser, GiveUp, tables
<1>3. ASSUME NEW r \in Requests, UpdateUser(r) \/ UpgradeGuestWithIdentity(r) PROVE FALSE
  <2>1. account' = [[account EXCEPT !.guest = FALSE] EXCEPT !.version = account.version + 1]
    BY <1>3 DEF UpdateUser, UpgradeGuestWithIdentity, Converted
  <2> QED BY <2>1 DEF Inv, Typed, Account
<1>4. CASE JoinGroup \/ LeaveGroup \/ SignOut \/ SignIn \/ CleanupLock \/ CleanupCheck
           \/ CleanupFails \/ UNCHANGED vars
  BY <1>4 DEF JoinGroup, LeaveGroup, SignOut, SignIn, CleanupLock, CleanupCheck, CleanupFails, vars
<1>5. CASE UpdateTheme \/ GrowOld
  BY <1>5 DEF UpdateTheme, GrowOld, Inv, Typed, Account
<1>6. CASE CleanupCommit
  BY <1>6 DEF CleanupCommit, Inv, TablesInv, AccountInv
<1> QED BY <1>1, <1>2, <1>3, <1>4, <1>5, <1>6 DEF Next

(* What somebody owns is not taken away: one upgrade wins for good, and    *)
(* the cleanup deletes only an old guest that is in no group, whatever     *)
(* joins and upgrades run beside it.                                       *)
THEOREM OwnersKept == Spec => OwnersKeepTheirs
<1>1. Inv /\ [Next]_vars =>
        [/\ owner # None /\ account'.exists => owner' = owner
         /\ account.exists /\ ~account'.exists => account.guest /\ account.old /\ ~member]_vars
  BY OwnerKept, DeletedWasAbandoned
<1> QED BY <1>1, Invariance, PTL DEF Spec, OwnersKeepTheirs
=============================================================================
