-------------------------- MODULE IdentitiesProofs --------------------------
(***************************************************************************)
(* For any number of accounts, addresses, subjects, states, browsers and   *)
(* requests: addresses are unique, an identity belongs to an account that  *)
(* exists, a confirmed address was vouched for, an account keeps a way in, *)
(* a subject is linked only to an account that is its own, and no row lock *)
(* is left behind.                                                         *)
(*                                                                         *)
(* The invariant says what a request relies on at each step: a row it read *)
(* is as it was while nobody has overtaken it, the identity it means to    *)
(* remove is still the account's, and while it holds the account's row     *)
(* the account keeps the other way in that was counted.                    *)
(***************************************************************************)
EXTENDS Identities, FiniteSetTheorems, TLAPS

Typed ==
  /\ mode \in Modes
  /\ user \in [Users -> User]
  /\ identity \in [Subjects -> Users \cup {None}]
  /\ state \in [States -> State]
  /\ browser \in [Browsers -> Browser]
  /\ lock \in [Users -> Requests \cup {None}]
  /\ pc \in [Requests -> Steps]
  /\ req \in [Requests -> Request]
  /\ vouched \in [Users -> SUBSET Emails]

(* No two accounts share an address.                                       *)
UniqueEmails ==
  \A u, v \in Users : user[u].exists /\ user[v].exists
                      /\ user[u].email = user[v].email /\ user[u].email # None => u = v

(* The account of an identity exists.                                      *)
Owned == \A s \in Subjects : identity[s] # None => user[identity[s]].exists

(* In local mode every account has an address.                             *)
LocalEmails == mode = "local" => \A u \in Users : user[u].exists => user[u].email # None

TablesInv == UniqueEmails /\ Owned /\ LocalEmails /\ VerifiedMeansVouched

(* The account has another way in than the subject s.                      *)
Spare(u, s) == user[u].password \/ \E t \in Subjects \ {s} : identity[t] = u

(* What request r relies on at step p, carrying x.                         *)
Fits(r, p, x) ==
  /\ x.vouches => x.email # None
  /\ p = "consume" => x.state \in States
  /\ p = "find" => x.op \in {"sign-in", "link"}
  /\ p \in {"lookup", "create"} => x.op = "sign-in" /\ (mode = "local" => x.vouches)
  /\ p \in {"owner", "attach", "refresh"} => x.user \in Users
  /\ p = "attach" =>
       \/ x.op = "link" /\ (x.fresh => x.vouches /\ user[x.user].email = x.email)
       \/ x.op = "sign-in" /\ x.ok
       \/ x.op = "sign-in" /\ x.vouches
          /\ (user[x.user].exists => x.email \in vouched[x.user])
  /\ p = "verify" => x.op = "link" /\ x.vouches /\ (x.fresh => user[x.user].email = x.email)
  /\ x.op = "link" => x.user \in Users /\ x.actor = x.user
  /\ x.op = "unlink" => x.user \in Users /\ (x.subject # None => identity[x.subject] = x.user)
  /\ p \in {"check", "lock", "delete"} => x.op = "unlink"
  /\ p = "delete" => /\ lock[x.user] = r
                     /\ x.ok /\ x.subject # None => Spare(x.user, x.subject)

RequestOK(r) == Fits(r, pc[r], req[r])

Inv == Typed /\ TablesInv /\ \A r \in Requests : RequestOK(r)

(* Only an account of local mode has former addresses, and only once its   *)
(* present one has been vouched for: by the administrator who entered it.  *)
FormerOK ==
  /\ former \in [Users -> SUBSET Emails]
  /\ \A u \in Users : former[u] # {} =>
       mode = "local" /\ user[u].exists /\ user[u].email \in vouched[u]

(* What no step does to the tables, as far as request q relies on them.    *)
World(q) ==
  LET u == req[q].user
  IN  /\ mode' = mode
      /\ u \in Users /\ user'[u].exists => user[u].exists /\ vouched[u] \subseteq vouched'[u]
      /\ u \in Users /\ req[q].op = "link" /\ req'[q].fresh => user'[u].email = user[u].email
      /\ req[q].op = "unlink" /\ req'[q].subject # None =>
           identity'[req[q].subject] = identity[req[q].subject]
      /\ pc[q] = "delete" /\ u \in Users /\ lock[u] = q =>
           /\ lock'[u] = q
           /\ user[u].password => user'[u].password
           /\ \A t \in Subjects : identity[t] = u => identity'[t] = u

(* What no step does to what a request at rest carries.                    *)
Carries(q) ==
  /\ pc'[q] = pc[q]
  /\ req'[q].op = req[q].op /\ req'[q].user = req[q].user /\ req'[q].actor = req[q].actor
  /\ req'[q].state = req[q].state /\ req'[q].email = req[q].email
  /\ req'[q].vouches = req[q].vouches /\ req'[q].ok = req[q].ok
  /\ req'[q].fresh => req[q].fresh
  /\ req'[q].subject # None => req'[q].subject = req[q].subject

(* One account at most has an address, counted.                            *)
LEMMA AtMostOneHolder ==
  ASSUME UniqueEmails, NEW e \in Emails
  PROVE  Cardinality(Holders(e)) <= 1
<1>1. CASE Holders(e) = {}
  BY <1>1, FS_EmptySet
<1>2. CASE Holders(e) # {}
  <2>1. PICK u : u \in Holders(e)
    BY <1>2
  <2>2. Holders(e) = {u}
    BY <2>1, NoneAssumption DEF Holders, UniqueEmails
  <2> QED BY <2>2, FS_Singleton
<1> QED BY <1>1, <1>2

(* The invariant gives the type invariant of the specification.            *)
LEMMA InvTypeOK == Inv /\ FormerOK => TypeOK
BY AtMostOneHolder DEF Inv, FormerOK, TablesInv, Typed, TypeOK, Owned

(* Before the first request there is one account at most, with a password. *)
LEMMA InitInv == Init => Inv
<1> SUFFICES ASSUME Init PROVE Inv
  OBVIOUS
<1>1. NoUser \in User /\ ~NoUser.exists /\ ~NoUser.verified
  BY DEF NoUser, User
<1>2. ASSUME NEW e \in Emails, NEW c \in BOOLEAN
      PROVE  LocalAccount(e, c) \in User /\ LocalAccount(e, c).email = e
  BY <1>2 DEF LocalAccount, NoUser, User
<1>3. \/ user = [u \in Users |-> NoUser]
      \/ \E v \in Users, e \in Emails, c \in BOOLEAN :
           user = [[u \in Users |-> NoUser] EXCEPT ![v] = LocalAccount(e, c)]
  BY DEF Init
<1>4. /\ user \in [Users -> User]
      /\ \A u \in Users : user[u].exists \/ user[u].verified => user[u].email \in Emails
      /\ \A u, v \in Users : user[u].exists /\ user[v].exists => u = v
  <2>1. CASE user = [u \in Users |-> NoUser]
    BY <1>1, <2>1
  <2>2. CASE \E v \in Users, e \in Emails, c \in BOOLEAN :
               user = [[u \in Users |-> NoUser] EXCEPT ![v] = LocalAccount(e, c)]
    <3>1. PICK v \in Users, e \in Emails, c \in BOOLEAN :
            user = [[u \in Users |-> NoUser] EXCEPT ![v] = LocalAccount(e, c)]
      BY <2>2
    <3>2. LocalAccount(e, c) \in User /\ LocalAccount(e, c).email = e
      BY <1>2
    <3> QED BY <1>1, <3>1, <3>2
  <2> QED BY <1>3, <2>1, <2>2
<1>5. vouched \in [Users -> SUBSET Emails] /\ VerifiedMeansVouched
  BY <1>4 DEF Init, VerifiedMeansVouched
<1>6. NoState \in State /\ [user |-> None, cookie |-> None] \in Browser
  BY DEF NoState, State, Browser
<1>7. NoRequest \in Request
  BY DEF NoRequest, Request
<1>8. Typed
  BY <1>4, <1>5, <1>6, <1>7 DEF Init, Typed, Steps
<1>9. TablesInv
  <2>1. UniqueEmails
    BY <1>4 DEF UniqueEmails
  <2>2. Owned
    BY DEF Init, Owned
  <2>3. LocalEmails
    BY <1>4, NoneAssumption DEF LocalEmails
  <2> QED BY <1>5, <2>1, <2>2, <2>3 DEF TablesInv
<1>10. \A r \in Requests : RequestOK(r)
  <2>1. /\ NoRequest.op = "none" /\ ~NoRequest.vouches
    BY DEF NoRequest
  <2>2. \A r \in Requests : pc[r] = "idle" /\ req[r] = NoRequest
    BY DEF Init
  <2> QED BY <2>1, <2>2 DEF RequestOK, Fits
<1> QED BY <1>8, <1>9, <1>10 DEF Inv

(* Nobody's address has been changed before the first step.                *)
LEMMA InitFormer == Init => FormerOK
BY DEF Init, FormerOK

(* A request at rest keeps what it relies on.                              *)
LEMMA RestKept ==
  ASSUME Typed, Typed', NEW q \in Requests, RequestOK(q), Carries(q), World(q)
  PROVE  RequestOK(q)'
<1> DEFINE x == req[q]  y == req'[q]  p == pc[q]
<1>1. /\ x.op = y.op /\ x.user = y.user /\ x.actor = y.actor /\ x.state = y.state
      /\ x.email = y.email /\ x.vouches = y.vouches /\ x.ok = y.ok /\ (y.fresh => x.fresh)
      /\ y.subject # None => y.subject = x.subject
      /\ pc'[q] = p
  BY DEF Carries
<1>2. /\ x.vouches => x.email # None
      /\ p = "consume" => x.state \in States
      /\ p = "find" => x.op \in {"sign-in", "link"}
      /\ p \in {"lookup", "create"} => x.op = "sign-in" /\ (mode = "local" => x.vouches)
      /\ p \in {"owner", "attach", "refresh"} => x.user \in Users
      /\ x.op = "link" => x.user \in Users /\ x.actor = x.user
      /\ x.op = "unlink" => x.user \in Users /\ (x.subject # None => identity[x.subject] = x.user)
      /\ p \in {"check", "lock", "delete"} => x.op = "unlink"
  BY DEF RequestOK, Fits
<1>3. p = "attach" =>
        /\ y.user \in Users
        /\ \/ y.op = "link" /\ (y.fresh => y.vouches /\ user'[y.user].email = y.email)
           \/ y.op = "sign-in" /\ y.ok
           \/ y.op = "sign-in" /\ y.vouches
              /\ (user'[y.user].exists => y.email \in vouched'[y.user])
  BY <1>1 DEF RequestOK, Fits, World
<1>4. p = "verify" => y.op = "link" /\ y.vouches /\ (y.fresh => user'[y.user].email = y.email)
  BY <1>1, <1>2 DEF RequestOK, Fits, World
<1>5. y.op = "unlink" => y.user \in Users /\ (y.subject # None => identity'[y.subject] = y.user)
  BY <1>1, <1>2 DEF World
<1>6. p = "delete" => /\ lock'[y.user] = q
                      /\ y.ok /\ y.subject # None =>
                           \/ user'[y.user].password
                           \/ \E t \in Subjects \ {y.subject} : identity'[t] = y.user
  <2> SUFFICES ASSUME p = "delete"
               PROVE  /\ lock'[y.user] = q
                      /\ y.ok /\ y.subject # None =>
                           \/ user'[y.user].password
                           \/ \E t \in Subjects \ {y.subject} : identity'[t] = y.user
    OBVIOUS
  <2>1. x.user \in Users /\ lock[x.user] = q
    BY <1>2 DEF RequestOK, Fits
  <2>2. /\ lock'[x.user] = q
        /\ user[x.user].password => user'[x.user].password
        /\ \A t \in Subjects : identity[t] = x.user => identity'[t] = x.user
    BY <2>1 DEF World
  <2>3. x.ok /\ x.subject # None => Spare(x.user, x.subject)
    BY DEF RequestOK, Fits
  <2> HIDE DEF x, y, p
  <2> QED BY <1>1, <2>2, <2>3 DEF Spare
<1>7. mode' = mode
  BY DEF World
<1> HIDE DEF x
<1> QED BY <1>1, <1>2, <1>3, <1>4, <1>5, <1>6, <1>7 DEF RequestOK, Fits, Spare

(* Put together: the step of one request r.                                *)
LEMMA OneMoves ==
  ASSUME Inv, NEW r \in Requests, Typed', TablesInv', RequestOK(r)',
         \A q \in Requests \ {r} : Carries(q) /\ World(q)
  PROVE  Inv'
<1>1. \A q \in Requests \ {r} : RequestOK(q)'
  BY RestKept DEF Inv
<1> QED BY <1>1 DEF Inv

(* Put together: a step of no request.                                     *)
LEMMA NoneMoves ==
  ASSUME Inv, Typed', TablesInv', \A q \in Requests : Carries(q) /\ World(q)
  PROVE  Inv'
<1>1. \A q \in Requests : RequestOK(q)'
  BY RestKept DEF Inv
<1> QED BY <1>1 DEF Inv

(* While the tables stay, everybody's world does.                          *)
LEMMA TablesAlone ==
  ASSUME Inv, UNCHANGED <<mode, user, identity, vouched>>
  PROVE  /\ TablesInv'
         /\ \A q \in Requests : (pc[q] = "delete" /\ lock[req[q].user] = q =>
                                   lock'[req[q].user] = q) => World(q)
<1>1. TablesInv'
  BY DEF Inv, TablesInv, UniqueEmails, Owned, LocalEmails, VerifiedMeansVouched
<1>2. \A q \in Requests : (pc[q] = "delete" /\ lock[req[q].user] = q =>
                            lock'[req[q].user] = q) => World(q)
  BY DEF World
<1> QED BY <1>1, <1>2

(* What a request carries stays if the request does.                       *)
LEMMA SameCarries ==
  ASSUME NEW q, pc'[q] = pc[q], req'[q] = req[q]
  PROVE  Carries(q)
BY DEF Carries

(* A request moves and writes no account, identity or lock.                *)
LEMMA ReadStep ==
  ASSUME Inv, NEW r \in Requests, NEW p \in Steps, NEW x \in Request,
         UNCHANGED <<mode, user, identity, lock, vouched>>,
         state' \in [States -> State], browser' \in [Browsers -> Browser],
         pc' = [pc EXCEPT ![r] = p], req' = [req EXCEPT ![r] = x], Fits(r, p, x)
  PROVE  Inv'
<1>1. Typed'
  BY DEF Inv, Typed
<1>2. pc'[r] = p /\ req'[r] = x /\ \A q \in Requests \ {r} : pc'[q] = pc[q] /\ req'[q] = req[q]
  BY DEF Inv, Typed
<1>3. RequestOK(r)'
  BY <1>2 DEF RequestOK, Fits, Spare
<1>4. TablesInv' /\ \A q \in Requests : World(q)
  BY TablesAlone
<1>5. \A q \in Requests \ {r} : Carries(q)
  BY <1>2, SameCarries
<1> QED BY <1>1, <1>3, <1>4, <1>5, OneMoves

(* A request that ends relies on nothing.                                  *)
LEMMA EndedFits ==
  /\ NoRequest \in Request /\ NoRequest.op = "none" /\ ~NoRequest.vouches
  /\ \A r \in Requests : Fits(r, "idle", NoRequest)
<1>1. NoRequest \in Request /\ NoRequest.op = "none" /\ ~NoRequest.vouches
  BY DEF NoRequest, Request
<1>2. \A r \in Requests : Fits(r, "idle", NoRequest)
  BY <1>1 DEF Fits
<1> QED BY <1>1, <1>2

(* A request ends with the tables as they are.                             *)
LEMMA EndInv ==
  ASSUME Inv, NEW r \in Requests, End(r), UNCHANGED <<mode, user, identity, lock, vouched>>,
         state' \in [States -> State], browser' \in [Browsers -> Browser]
  PROVE  Inv'
<1>1. "idle" \in Steps
  BY DEF Steps
<1> QED BY <1>1, EndedFits, ReadStep DEF End, Goto

(* The account is settled: its session is next.                            *)
LEMMA SessionNextFits ==
  ASSUME Inv, NEW r \in Requests, NEW u \in Users \cup {None}
  PROVE  /\ SessionNext(r, u) \in Request /\ Fits(r, "session", SessionNext(r, u))
         /\ SessionNext(r, u).op = "sign-in" /\ ~SessionNext(r, u).vouches
<1> DEFINE a == [NoRequest EXCEPT !.op = "sign-in"]
           b == [a EXCEPT !.user = u]
           c == [b EXCEPT !.browser = req[r].browser]
<1>1. a \in Request /\ a.op = "sign-in" /\ ~a.vouches
  BY DEF NoRequest, Request
<1> HIDE DEF a
<1>2. b \in Request /\ b.op = "sign-in" /\ ~b.vouches
  BY <1>1 DEF Request
<1> HIDE DEF b
<1>3. req[r].browser \in Browsers \cup {None}
  BY DEF Inv, Typed, Request
<1>4. c \in Request /\ c.op = "sign-in" /\ ~c.vouches
  BY <1>2, <1>3 DEF Request
<1>5. SessionNext(r, u) = c
  BY DEF SessionNext, a, b
<1> HIDE DEF c
<1> QED BY <1>4, <1>5 DEF Fits

(* To the session, with the tables as they are.                            *)
LEMMA ToSessionInv ==
  ASSUME Inv, NEW r \in Requests, NEW u \in Users \cup {None}, ToSession(r, u),
         UNCHANGED <<mode, user, identity, state, browser, lock, vouched>>
  PROVE  Inv'
<1>1. "session" \in Steps /\ state' \in [States -> State] /\ browser' \in [Browsers -> Browser]
  BY DEF Steps, Inv, Typed
<1> QED BY <1>1, SessionNextFits, ReadStep DEF ToSession, Goto

(* A browser's entry keeps its type.                                       *)
LEMMA BrowserTyped ==
  ASSUME Typed, NEW b
  PROVE  /\ \A u \in Users \cup {None} : [browser EXCEPT ![b].user = u] \in [Browsers -> Browser]
         /\ \A s \in States \cup {None} : [browser EXCEPT ![b].cookie = s] \in [Browsers -> Browser]
<1>1. ASSUME NEW u \in Users \cup {None}
      PROVE  [browser EXCEPT ![b].user = u] \in [Browsers -> Browser]
  BY DEF Typed, Browser
<1>2. ASSUME NEW s \in States \cup {None}
      PROVE  [browser EXCEPT ![b].cookie = s] \in [Browsers -> Browser]
  BY DEF Typed, Browser
<1> QED BY <1>1, <1>2

(* Only states and browsers change.                                        *)
LEMMA PageStep ==
  ASSUME Inv, UNCHANGED <<mode, user, identity, lock, pc, req, vouched>>,
         state' \in [States -> State], browser' \in [Browsers -> Browser]
  PROVE  Inv'
<1>1. Typed'
  BY DEF Inv, Typed
<1>2. \A q \in Requests : Carries(q) /\ World(q)
  BY TablesAlone, SameCarries
<1> QED BY <1>1, <1>2, TablesAlone, NoneMoves

(* A flow is started, for a sign-in or for a link.                         *)
LEMMA StartInv ==
  ASSUME Inv, NEW b \in Browsers, Start(b) \/ StartLink(b)
  PROVE  Inv'
<1>1. PICK u \in Users \cup {None} : Opened(b, u)
  BY DEF Start, StartLink, Inv, Typed, Browser
<1>2. PICK s \in States : /\ state' = [state EXCEPT ![s] = [open |-> TRUE, user |-> u]]
                          /\ browser' = [browser EXCEPT ![b].cookie = s]
  BY <1>1 DEF Opened, Pick, FreeStates
<1>3. [open |-> TRUE, user |-> u] \in State
  BY DEF State
<1>4. state' \in [States -> State] /\ browser' \in [Browsers -> Browser]
  BY <1>2, <1>3, BrowserTyped DEF Inv, Typed
<1> QED BY <1>1, <1>4, PageStep DEF Opened

(* Browsers sign in with a password and out.                               *)
LEMMA BrowserInv ==
  ASSUME Inv, NEW b \in Browsers,
         SignOut(b) \/ \E u \in Users : SignInWithPassword(b, u)
  PROVE  Inv'
<1>1. PICK u \in Users \cup {None} : browser' = [browser EXCEPT ![b].user = u]
  BY DEF SignOut, SignInWithPassword
<1>2. UNCHANGED <<mode, user, identity, state, lock, pc, req, vouched>>
  BY DEF SignOut, SignInWithPassword
<1>3. state' \in [States -> State] /\ browser' \in [Browsers -> Browser]
  BY <1>1, <1>2, BrowserTyped DEF Inv, Typed
<1> QED BY <1>2, <1>3, PageStep

(* The browser comes back with the state of its cookie.                    *)
LEMMA CallbackInv ==
  ASSUME Inv, NEW r \in Requests, NEW b \in Browsers, Callback(r, b)
  PROVE  Inv'
<1> DEFINE x1 == [NoRequest EXCEPT !.browser = b]
           x2 == [x1 EXCEPT !.actor = browser[b].user]
           x == [x2 EXCEPT !.state = browser[b].cookie]
<1>1. browser[b].user \in Users \cup {None} /\ browser[b].cookie \in States
  BY DEF Callback, Inv, Typed, Browser
<1>2. x1 \in Request /\ x1.op = "none" /\ ~x1.vouches
  BY DEF NoRequest, Request
<1>3. req' = [req EXCEPT ![r] = x]
  BY DEF Callback
<1> HIDE DEF x1
<1>4. x2 \in Request /\ x2.op = "none" /\ ~x2.vouches
  BY <1>1, <1>2 DEF Request
<1> HIDE DEF x2
<1>5. x \in Request /\ x.op = "none" /\ ~x.vouches /\ x.state \in States
  BY <1>1, <1>4 DEF Request
<1> HIDE DEF x
<1>6. Fits(r, "consume", x)
  BY <1>5 DEF Fits
<1>7. state' \in [States -> State] /\ browser' \in [Browsers -> Browser]
  <2>1. browser' = browser \/ browser' = [browser EXCEPT ![b].cookie = None]
    BY DEF Callback
  <2>2. [browser EXCEPT ![b].cookie = None] \in [Browsers -> Browser]
    BY BrowserTyped DEF Inv
  <2> QED BY <2>1, <2>2 DEF Callback, Inv, Typed
<1>8. "consume" \in Steps /\ pc' = [pc EXCEPT ![r] = "consume"]
  BY DEF Steps, Callback, Goto
<1> QED BY <1>3, <1>5, <1>6, <1>7, <1>8, ReadStep DEF Callback

(* The state is spent; a link goes on only for the account that asked.     *)
LEMMA ConsumeInv ==
  ASSUME Inv, NEW r \in Requests, ConsumeOAuthState(r)
  PROVE  Inv'
<1> DEFINE s == state[req[r].state]
<1>1. req[r].state \in States /\ s \in State
  BY DEF ConsumeOAuthState, Inv, Typed, RequestOK, Fits
<1>2. NoState \in State
  BY DEF NoState, State
<1>3. state' \in [States -> State] /\ browser' \in [Browsers -> Browser]
  BY <1>2 DEF ConsumeOAuthState, Inv, Typed
<1>4. UNCHANGED <<mode, user, identity, browser, lock, vouched>>
  BY DEF ConsumeOAuthState
<1>5. CASE End(r)
  BY <1>3, <1>4, <1>5, EndInv
<1>6. CASE /\ s.open /\ ActorMatches(r)
           /\ Goto(r, "find")
           /\ req' = [req EXCEPT ![r] =
                IF s.user = None
                THEN [NoRequest EXCEPT !.op = "sign-in", !.browser = req[r].browser]
                ELSE [NoRequest EXCEPT !.op = "link", !.user = s.user, !.actor = req[r].actor]]
  <2>1. "find" \in Steps /\ pc' = [pc EXCEPT ![r] = "find"]
    BY <1>6 DEF Steps, Goto
  <2>2. CASE s.user = None
    <3> DEFINE x1 == [NoRequest EXCEPT !.op = "sign-in"]
               x == [x1 EXCEPT !.browser = req[r].browser]
    <3>1. req' = [req EXCEPT ![r] = x]
      BY <1>6, <2>2
    <3>2. x1 \in Request /\ x1.op = "sign-in" /\ ~x1.vouches
      BY DEF NoRequest, Request
    <3> HIDE DEF x1
    <3>3. req[r].browser \in Browsers \cup {None}
      BY DEF Inv, Typed, Request
    <3>4. x \in Request /\ x.op = "sign-in" /\ ~x.vouches
      BY <3>2, <3>3 DEF Request
    <3> HIDE DEF x
    <3>5. Fits(r, "find", x)
      BY <3>4 DEF Fits
    <3> QED BY <1>3, <1>4, <2>1, <3>1, <3>4, <3>5, ReadStep
  <2>3. CASE s.user # None
    <3> DEFINE x1 == [NoRequest EXCEPT !.op = "link"]
               x2 == [x1 EXCEPT !.user = s.user]
               x == [x2 EXCEPT !.actor = req[r].actor]
    <3>1. req' = [req EXCEPT ![r] = x]
      BY <1>6, <2>3
    <3>2. s.user \in Users /\ s.user = req[r].actor
      BY <1>1, <1>6, <2>3 DEF State, ActorMatches
    <3> HIDE DEF s
    <3>3. x1 \in Request /\ x1.op = "link" /\ ~x1.vouches
      BY DEF NoRequest, Request
    <3> HIDE DEF x1
    <3>4. x2 \in Request /\ x2.op = "link" /\ ~x2.vouches /\ x2.user = s.user
      BY <3>2, <3>3 DEF Request
    <3> HIDE DEF x2
    <3>5. x \in Request /\ x.op = "link" /\ ~x.vouches /\ x.user = s.user /\ x.actor = s.user
      BY <3>2, <3>4 DEF Request
    <3> HIDE DEF x
    <3>6. Fits(r, "find", x)
      BY <3>2, <3>5 DEF Fits
    <3> QED BY <1>3, <1>4, <2>1, <3>1, <3>5, <3>6, ReadStep
  <2> QED BY <2>2, <2>3
<1> QED BY <1>5, <1>6 DEF ConsumeOAuthState

(* A request goes on with what it has.                                     *)
LEMMA GotoInv ==
  ASSUME Inv, NEW r \in Requests, NEW p \in Steps, Goto(r, p), Fits(r, p, req[r]),
         UNCHANGED <<mode, user, identity, state, browser, lock, req, vouched>>
  PROVE  Inv'
<1>1. /\ req' = [req EXCEPT ![r] = req[r]] /\ req[r] \in Request
      /\ state' \in [States -> State] /\ browser' \in [Browsers -> Browser]
  BY DEF Inv, Typed
<1> QED BY <1>1, ReadStep DEF Goto

(* The request carries the provider's profile, which vouches only for an   *)
(* address that it names.                                                  *)
LEMMA ProfileKnown ==
  ASSUME Inv, NEW r \in Requests, NEW p \in Profiles
  PROVE  \E k \in Request :
           /\ [req EXCEPT ![r].subject = p.subject, ![r].email = p.email, ![r].vouches = p.vouches]
                = [req EXCEPT ![r] = k]
           /\ k.op = req[r].op /\ k.user = req[r].user /\ k.actor = req[r].actor
           /\ k.vouches = p.vouches /\ (k.vouches => k.email # None)
<1> DEFINE k1 == [req[r] EXCEPT !.subject = p.subject]
           k2 == [k1 EXCEPT !.email = p.email]
           k == [k2 EXCEPT !.vouches = p.vouches]
<1>1. /\ p.subject \in Subjects /\ p.email \in Emails \cup {None} /\ p.vouches \in BOOLEAN
      /\ p.vouches => p.email # None
  BY DEF Profiles
<1>2. k1 \in Request /\ k1.op = req[r].op /\ k1.user = req[r].user /\ k1.actor = req[r].actor
  BY <1>1 DEF Inv, Typed, Request
<1>3. [req EXCEPT ![r].subject = p.subject, ![r].email = p.email, ![r].vouches = p.vouches]
        = [req EXCEPT ![r] = k]
  BY DEF Inv, Typed
<1> HIDE DEF k1
<1>4. /\ k2 \in Request /\ k2.op = req[r].op /\ k2.user = req[r].user /\ k2.actor = req[r].actor
      /\ k2.email = p.email
  BY <1>1, <1>2 DEF Request
<1> HIDE DEF k2
<1>5. k \in Request
  BY <1>1, <1>4, Zenon DEF Request
<1>6. /\ k.op = req[r].op /\ k.user = req[r].user /\ k.actor = req[r].actor
      /\ k.email = p.email
  BY <1>1, <1>4 DEF Request
<1>7. k.vouches = p.vouches
  BY <1>1, <1>4, Zenon DEF Request
<1> HIDE DEF k
<1> QED BY <1>1, <1>3, <1>5, <1>6, <1>7

(* The provider has answered and the subject is looked up.                 *)
LEMMA FindOAuthIdentityInv ==
  ASSUME Inv, NEW r \in Requests, FindOAuthIdentity(r)
  PROVE  Inv'
<1>1. /\ UNCHANGED <<mode, user, identity, state, browser, lock, vouched>>
      /\ state' \in [States -> State] /\ browser' \in [Browsers -> Browser]
      /\ pc[r] = "find" /\ Fits(r, "find", req[r])
  BY DEF FindOAuthIdentity, Inv, Typed, RequestOK
<1>2. PICK p \in Profiles :
        LET s == p.subject
            known == [req EXCEPT ![r].subject = s, ![r].email = p.email, ![r].vouches = p.vouches]
        IN  \/ req[r].op = "link" /\ Goto(r, "owner") /\ req' = known
            \/ /\ req[r].op = "sign-in" /\ identity[s] # None /\ Goto(r, "owner")
               /\ req' = [known EXCEPT ![r].user = identity[s], ![r].subject = None]
            \/ ToSession(r, identity[s])
            \/ /\ req[r].op = "sign-in" /\ (mode = "local" => p.vouches)
               /\ Goto(r, IF p.email = None THEN "create" ELSE "lookup") /\ req' = known
            \/ End(r)
  BY DEF FindOAuthIdentity
<1>3. PICK k \in Request :
        /\ [req EXCEPT ![r].subject = p.subject, ![r].email = p.email, ![r].vouches = p.vouches]
             = [req EXCEPT ![r] = k]
        /\ k.op = req[r].op /\ k.user = req[r].user /\ k.actor = req[r].actor
        /\ k.vouches = p.vouches /\ (k.vouches => k.email # None)
  BY ProfileKnown
<1>4. p.subject \in Subjects /\ identity[p.subject] \in Users \cup {None}
  BY DEF Profiles, Inv, Typed
<1>5. CASE req[r].op = "link" /\ Goto(r, "owner") /\ req' = [req EXCEPT ![r] = k]
  <2>1. Fits(r, "owner", k) /\ "owner" \in Steps
    BY <1>1, <1>3, <1>5 DEF Fits, Steps
  <2> QED BY <1>1, <1>5, <2>1, ReadStep DEF Goto
<1>6. CASE /\ req[r].op = "sign-in" /\ identity[p.subject] # None /\ Goto(r, "owner")
           /\ req' = [[req EXCEPT ![r] = k] EXCEPT ![r].user = identity[p.subject],
                                                   ![r].subject = None]
  <2> DEFINE x1 == [k EXCEPT !.user = identity[p.subject]]
             x == [x1 EXCEPT !.subject = None]
  <2>1. req' = [req EXCEPT ![r] = x]
    BY <1>6 DEF Inv, Typed
  <2>2. /\ x1 \in Request /\ x1.op = k.op /\ x1.vouches = k.vouches /\ x1.email = k.email
        /\ x1.user = identity[p.subject]
    BY <1>4 DEF Request
  <2> HIDE DEF x1
  <2>3. /\ x \in Request /\ x.op = k.op /\ x.vouches = k.vouches /\ x.email = k.email
        /\ x.user = identity[p.subject]
    BY <2>2 DEF Request
  <2> HIDE DEF x
  <2>4. Fits(r, "owner", x) /\ "owner" \in Steps
    BY <1>3, <1>4, <1>6, <2>3 DEF Fits, Steps
  <2> QED BY <1>1, <1>6, <2>1, <2>3, <2>4, ReadStep DEF Goto
<1>7. CASE ToSession(r, identity[p.subject])
  BY <1>1, <1>4, <1>7, ToSessionInv
<1>8. CASE /\ req[r].op = "sign-in" /\ (mode = "local" => p.vouches)
           /\ Goto(r, IF p.email = None THEN "create" ELSE "lookup")
           /\ req' = [req EXCEPT ![r] = k]
  <2>1. PICK n \in {"create", "lookup"} : Goto(r, n)
    BY <1>8
  <2>2. Fits(r, n, k) /\ n \in Steps
    BY <1>3, <1>8 DEF Fits, Steps
  <2> QED BY <1>1, <1>8, <2>1, <2>2, ReadStep DEF Goto
<1>9. CASE End(r)
  BY <1>1, <1>9, EndInv
<1> QED BY <1>2, <1>3, <1>5, <1>6, <1>7, <1>8, <1>9

(* An account is taken over only if it had confirmed the address.          *)
LEMMA FindUserByEmailInv ==
  ASSUME Inv, NEW r \in Requests, FindUserByEmail(r)
  PROVE  Inv'
<1>1. /\ UNCHANGED <<mode, user, identity, state, browser, lock, vouched>>
      /\ state' \in [States -> State] /\ browser' \in [Browsers -> Browser]
      /\ Fits(r, "lookup", req[r])
  BY DEF FindUserByEmail, Inv, Typed, RequestOK
<1>2. CASE Goto(r, "create") /\ UNCHANGED req
  <2>1. Fits(r, "create", req[r]) /\ "create" \in Steps
    BY <1>1 DEF Fits, Steps
  <2> QED BY <1>1, <1>2, <2>1, GotoInv
<1>3. CASE End(r)
  BY <1>1, <1>3, EndInv
<1>4. ASSUME NEW u \in Holders(req[r].email), MayTakeOver(r, u), Goto(r, "attach"),
             req' = [req EXCEPT ![r].user = u]
      PROVE  Inv'
  <2> DEFINE x == [req[r] EXCEPT !.user = u]
  <2>1. u \in Users /\ user[u].email = req[r].email /\ user[u].verified /\ req[r].vouches
    BY <1>4 DEF Holders, MayTakeOver
  <2>2. req' = [req EXCEPT ![r] = x]
    BY <1>4 DEF Inv, Typed
  <2>3. /\ x \in Request /\ x.op = req[r].op /\ x.user = u /\ x.email = req[r].email
        /\ x.vouches = req[r].vouches
    BY <2>1 DEF Inv, Typed, Request
  <2> HIDE DEF x
  <2>4. req[r].email \in vouched[u]
    BY <2>1 DEF Inv, TablesInv, VerifiedMeansVouched
  <2>5. Fits(r, "attach", x) /\ "attach" \in Steps
    BY <1>1, <2>1, <2>3, <2>4 DEF Fits, Steps
  <2> QED BY <1>1, <1>4, <2>2, <2>3, <2>5, ReadStep DEF Goto
<1> QED BY <1>2, <1>3, <1>4 DEF FindUserByEmail

(* The row is read: from now on the request knows if it is overtaken.      *)
LEMMA FindUserByIDInv ==
  ASSUME Inv, NEW r \in Requests, FindUserByID(r)
  PROVE  Inv'
<1>1. /\ UNCHANGED <<mode, user, identity, state, browser, lock, vouched>>
      /\ state' \in [States -> State] /\ browser' \in [Browsers -> Browser]
      /\ Fits(r, "owner", req[r]) /\ req[r].user \in Users \cup {None}
  BY DEF FindUserByID, Inv, Typed, RequestOK, Request
<1>2. CASE End(r)
  BY <1>1, <1>2, EndInv
<1>3. CASE ToSession(r, req[r].user)
  BY <1>1, <1>3, ToSessionInv
<1>4. ASSUME NEW p \in {"attach", "refresh"}, Goto(r, p), req' = [req EXCEPT ![r].fresh = TRUE],
             p = "attach" => req[r].op = "link" /\ Confirms(r, user[req[r].user])
      PROVE  Inv'
  <2> DEFINE x == [req[r] EXCEPT !.fresh = TRUE]
  <2>1. req' = [req EXCEPT ![r] = x]
    BY <1>4 DEF Inv, Typed
  <2>2. /\ x \in Request /\ x.op = req[r].op /\ x.user = req[r].user /\ x.email = req[r].email
        /\ x.actor = req[r].actor /\ x.subject = req[r].subject
    BY DEF Inv, Typed, Request
  <2>3. x.vouches = req[r].vouches
    BY Zenon DEF Inv, Typed, Request
  <2> HIDE DEF x
  <2>4. p = "attach" => x.op = "link" /\ x.vouches /\ user[x.user].email = x.email
    BY <1>4, <2>2, <2>3 DEF Confirms
  <2>5. Fits(r, p, x) /\ p \in Steps
    BY <1>1, <2>2, <2>3, <2>4 DEF Fits, Steps
  <2> QED BY <1>1, <1>4, <2>1, <2>2, <2>5, ReadStep DEF Goto
<1>5. CASE /\ req[r].op = "link" /\ Goto(r, "attach")
           /\ req' = [req EXCEPT ![r] =
                        [@ EXCEPT !.fresh = FALSE, !.email = None, !.vouches = FALSE]]
  <2> DEFINE x1 == [req[r] EXCEPT !.fresh = FALSE]
             x2 == [x1 EXCEPT !.email = None]
             x == [x2 EXCEPT !.vouches = FALSE]
  <2>1. req' = [req EXCEPT ![r] = x]
    BY <1>5 DEF Inv, Typed
  <2>2. x1 \in Request /\ ~x1.fresh /\ x1.op = "link" /\ x1.user = req[r].user
        /\ x1.actor = req[r].actor
    BY <1>5 DEF Inv, Typed, Request
  <2> HIDE DEF x1
  <2>3. x2 \in Request /\ ~x2.fresh /\ x2.op = "link" /\ x2.user = req[r].user
        /\ x2.actor = req[r].actor
    BY <2>2 DEF Request
  <2> HIDE DEF x2
  <2>4. x \in Request /\ ~x.fresh /\ ~x.vouches /\ x.op = "link" /\ x.user = req[r].user
        /\ x.actor = req[r].actor
    BY <2>3 DEF Request
  <2> HIDE DEF x
  <2>5. Fits(r, "attach", x) /\ "attach" \in Steps
    BY <1>1, <1>5, <2>4 DEF Fits, Steps
  <2> QED BY <1>1, <1>5, <2>1, <2>4, <2>5, ReadStep DEF Goto
<1>6. CASE /\ req[r].op = "link" /\ Goto(r, "attach")
           /\ req' = [req EXCEPT ![r] =
                        IF Confirms(r, user[req[r].user]) THEN [@ EXCEPT !.fresh = TRUE]
                        ELSE [@ EXCEPT !.fresh = FALSE, !.email = None, !.vouches = FALSE]]
  <2>1. CASE Confirms(r, user[req[r].user])
    <3>1. req' = [req EXCEPT ![r].fresh = TRUE]
      BY <1>6, <2>1
    <3> QED BY <1>4, <1>6, <2>1, <3>1
  <2>2. CASE ~Confirms(r, user[req[r].user])
    <3>1. req' = [req EXCEPT ![r] =
                    [@ EXCEPT !.fresh = FALSE, !.email = None, !.vouches = FALSE]]
      BY <1>6, <2>2
    <3> QED BY <1>5, <1>6, <3>1
  <2> QED BY <2>1, <2>2
<1>7. CASE Goto(r, "refresh") /\ req' = [req EXCEPT ![r].fresh = TRUE]
  BY <1>4, <1>7
<1> QED BY <1>2, <1>3, <1>6, <1>7, Zenon DEF FindUserByID

(* The browser is signed in.                                               *)
LEMMA CreateSessionInv ==
  ASSUME Inv, NEW r \in Requests, CreateSession(r)
  PROVE  Inv'
<1>1. End(r) /\ UNCHANGED <<mode, user, identity, state, lock, vouched>>
  BY DEF CreateSession
<1>2. req[r].user \in Users \cup {None}
  BY DEF Inv, Typed, Request
<1>3. [browser EXCEPT ![req[r].browser].user = req[r].user] \in [Browsers -> Browser]
  BY <1>2, BrowserTyped DEF Inv
<1>4. state' \in [States -> State] /\ browser' \in [Browsers -> Browser]
  BY <1>1, <1>3 DEF CreateSession, Inv, Typed
<1> QED BY <1>1, <1>4, EndInv

(* An identity is to be removed: it is the account's.                      *)
LEMMA UnlinkInv ==
  ASSUME Inv, NEW r \in Requests, NEW s \in Subjects, Unlink(r, s)
  PROVE  Inv'
<1> DEFINE x1 == [NoRequest EXCEPT !.op = "unlink"]
           x2 == [x1 EXCEPT !.user = identity[s]]
           x == [x2 EXCEPT !.subject = s]
<1>1. identity[s] \in Users /\ req' = [req EXCEPT ![r] = x]
  BY DEF Unlink, Inv, Typed
<1>2. x1 \in Request /\ x1.op = "unlink" /\ ~x1.vouches
  BY DEF NoRequest, Request
<1> HIDE DEF x1
<1>3. x2 \in Request /\ x2.op = "unlink" /\ ~x2.vouches /\ x2.user = identity[s]
  BY <1>1, <1>2 DEF Request
<1> HIDE DEF x2
<1>4. x \in Request /\ x.op = "unlink" /\ ~x.vouches /\ x.user = identity[s] /\ x.subject = s
  BY <1>3 DEF Request
<1> HIDE DEF x
<1>5. Fits(r, "check", x) /\ "check" \in Steps
  BY <1>1, <1>4 DEF Fits, Steps
<1>6. state' \in [States -> State] /\ browser' \in [Browsers -> Browser]
  BY DEF Unlink, Inv, Typed
<1> QED BY <1>1, <1>4, <1>5, <1>6, ReadStep DEF Unlink, Goto

(* The first look, without the row.                                        *)
LEMMA ListOAuthIdentitiesInv ==
  ASSUME Inv, NEW r \in Requests, ListOAuthIdentities(r)
  PROVE  Inv'
<1>1. /\ UNCHANGED <<mode, user, identity, state, browser, lock, vouched>>
      /\ state' \in [States -> State] /\ browser' \in [Browsers -> Browser]
      /\ Fits(r, "check", req[r])
  BY DEF ListOAuthIdentities, Inv, Typed, RequestOK
<1>2. CASE End(r)
  BY <1>1, <1>2, EndInv
<1>3. CASE Goto(r, "lock") /\ UNCHANGED req
  <2>1. Fits(r, "lock", req[r]) /\ "lock" \in Steps
    BY <1>1 DEF Fits, Steps
  <2> QED BY <1>1, <1>3, <2>1, GotoInv
<1> QED BY <1>2, <1>3 DEF ListOAuthIdentities

(* A request moves and writes.                                             *)
LEMMA WriteStep ==
  ASSUME Inv, NEW r \in Requests, NEW p \in Steps, NEW x \in Request,
         UNCHANGED <<mode, state, browser>>, user' \in [Users -> User],
         identity' \in [Subjects -> Users \cup {None}], lock' \in [Users -> Requests \cup {None}],
         vouched' \in [Users -> SUBSET Emails], TablesInv',
         pc' = [pc EXCEPT ![r] = p], req' = [req EXCEPT ![r] = x], RequestOK(r)',
         \A q \in Requests \ {r} : Carries(q) => World(q)
  PROVE  Inv'
<1>1. Typed'
  BY DEF Inv, Typed
<1>2. \A q \in Requests \ {r} : pc'[q] = pc[q] /\ req'[q] = req[q]
  BY DEF Inv, Typed
<1>3. \A q \in Requests \ {r} : Carries(q)
  BY <1>2, SameCarries
<1> QED BY <1>1, <1>3, OneMoves

(* A subject that was nobody's becomes the account's: no request relied on *)
(* its being nobody's.                                                     *)
LEMMA Attached ==
  ASSUME Inv, NEW s \in Subjects \cup {None}, s \in Subjects => identity[s] = None,
         NEW u \in Users, user[u].exists,
         identity' = [identity EXCEPT ![s] = u], UNCHANGED <<mode, user, vouched, lock>>
  PROVE  /\ TablesInv' /\ identity' \in [Subjects -> Users \cup {None}]
         /\ \A q \in Requests : Carries(q) => World(q)
<1>1. identity' \in [Subjects -> Users \cup {None}]
  BY DEF Inv, Typed
<1>2. Owned'
  BY DEF Inv, Typed, TablesInv, Owned
<1>3. UniqueEmails' /\ LocalEmails' /\ VerifiedMeansVouched'
  BY DEF Inv, TablesInv, UniqueEmails, LocalEmails, VerifiedMeansVouched
<1>4. ASSUME NEW q \in Requests, Carries(q) PROVE World(q)
  <2>1. \A t \in Subjects : identity[t] # None => identity'[t] = identity[t]
    BY DEF Inv, Typed
  <2>2. req[q].op = "unlink" /\ req'[q].subject # None =>
          identity'[req[q].subject] = identity[req[q].subject]
    <3> SUFFICES ASSUME req[q].op = "unlink", req'[q].subject # None
                 PROVE  identity'[req[q].subject] = identity[req[q].subject]
      OBVIOUS
    <3>1. req[q].subject \in Subjects /\ req[q].subject # None
      BY <1>4 DEF Carries, Inv, Typed, Request
    <3>2. identity[req[q].subject] \in Users
      BY <3>1 DEF Inv, RequestOK, Fits
    <3> QED BY <2>1, <3>1, <3>2, NoneAssumption
  <2>3. req[q].user \in Users =>
          \A t \in Subjects : identity[t] = req[q].user => identity'[t] = req[q].user
    BY <2>1, NoneAssumption
  <2> QED BY <2>2, <2>3 DEF World
<1> QED BY <1>1, <1>2, <1>3, <1>4 DEF TablesInv

(* The identity is linked, or was taken meanwhile.                         *)
LEMMA CreateOAuthIdentityInv ==
  ASSUME Inv, NEW r \in Requests, CreateOAuthIdentity(r)
  PROVE  Inv'
<1> DEFINE u == req[r].user  s == req[r].subject
<1>1. /\ UNCHANGED <<mode, user, state, browser, lock, vouched>>
      /\ Fits(r, "attach", req[r]) /\ u \in Users /\ s \in Subjects \cup {None}
      /\ state' \in [States -> State] /\ browser' \in [Browsers -> Browser]
  BY DEF CreateOAuthIdentity, Inv, Typed, RequestOK, Fits, Request
<1>2. CASE End(r) /\ UNCHANGED identity
  BY <1>1, <1>2, EndInv
<1>3. CASE /\ identity[s] = None /\ user[u].exists /\ identity' = [identity EXCEPT ![s] = u]
           /\ \/ req[r].op = "sign-in" /\ ToSession(r, u)
              \/ req[r].op = "link" /\ req[r].fresh /\ Goto(r, "verify")
                 /\ req' = [req EXCEPT ![r].subject = None]
              \/ req[r].op = "link" /\ ~req[r].fresh /\ End(r)
  <2>1. /\ TablesInv' /\ identity' \in [Subjects -> Users \cup {None}]
        /\ \A q \in Requests : Carries(q) => World(q)
    BY <1>1, <1>3, Attached
  <2>2. /\ user' \in [Users -> User] /\ lock' \in [Users -> Requests \cup {None}]
        /\ vouched' \in [Users -> SUBSET Emails]
    BY <1>1 DEF Inv, Typed
  <2>3. ASSUME NEW p \in Steps, NEW x \in Request, pc' = [pc EXCEPT ![r] = p],
               req' = [req EXCEPT ![r] = x], p \in {"idle", "session"},
               ~x.vouches, x.op \in {"none", "sign-in"}
        PROVE  Inv'
    <3>1. pc'[r] = p /\ req'[r] = x
      BY <2>3 DEF Inv, Typed
    <3>2. RequestOK(r)'
      BY <2>3, <3>1 DEF RequestOK, Fits
    <3> QED BY <1>1, <2>1, <2>2, <2>3, <3>2, WriteStep
  <2>4. CASE ToSession(r, u)
    <3>1. /\ SessionNext(r, u) \in Request /\ "session" \in Steps
          /\ SessionNext(r, u).op = "sign-in" /\ ~SessionNext(r, u).vouches
      BY <1>1, SessionNextFits DEF Steps
    <3> QED BY <2>3, <2>4, <3>1 DEF ToSession, Goto
  <2>5. CASE End(r)
    BY <2>3, <2>5, EndedFits DEF End, Goto, Steps
  <2>6. CASE /\ req[r].op = "link" /\ req[r].fresh /\ Goto(r, "verify")
             /\ req' = [req EXCEPT ![r].subject = None]
    <3> DEFINE x == [req[r] EXCEPT !.subject = None]
    <3>1. req' = [req EXCEPT ![r] = x]
      BY <2>6 DEF Inv, Typed
    <3>2. /\ x \in Request /\ x.op = "link" /\ x.user = u /\ x.email = req[r].email
          /\ x.actor = req[r].actor
      BY <2>6 DEF Inv, Typed, Request
    <3>3. x.vouches = req[r].vouches
      BY Zenon DEF Inv, Typed, Request
    <3> HIDE DEF x
    <3>4. req[r].vouches /\ user[u].email = req[r].email
      BY <1>1, <2>6 DEF Fits
    <3>5. pc'[r] = "verify" /\ req'[r] = x /\ "verify" \in Steps
      BY <2>6, <3>1 DEF Goto, Inv, Typed, Steps
    <3>6. RequestOK(r)'
      BY <1>1, <2>6, <3>2, <3>3, <3>4, <3>5 DEF RequestOK, Fits
    <3> QED BY <1>1, <2>1, <2>2, <2>6, <3>1, <3>2, <3>5, <3>6, WriteStep DEF Goto
  <2> QED BY <1>3, <2>4, <2>5, <2>6
<1> QED BY <1>2, <1>3 DEF CreateOAuthIdentity

(* An address is nobody else's, so it may be written.                      *)
LEMMA EmailFree ==
  ASSUME Inv, NEW u \in Users, NEW row \in User, user' = [user EXCEPT ![u] = row],
         row.email = None \/ Holders(row.email) \subseteq {u}
  PROVE  UniqueEmails'
<1>1. \A v \in Users \ {u} : user[v].exists /\ row.email # None => user[v].email # row.email
  BY DEF Holders
<1> QED BY <1>1 DEF Inv, Typed, TablesInv, UniqueEmails

(* The row of u is written, by somebody who saw it as it was or inserts it:*)
(* the address stays vouched for and the password stays.                   *)
LEMMA RowWritten ==
  ASSUME Inv, NEW u \in Users, NEW row \in User, NEW V \in SUBSET Emails, vouched[u] \subseteq V,
         user' = [user EXCEPT ![u] = row], vouched' = [vouched EXCEPT ![u] = V],
         row.exists, row.email = None \/ Holders(row.email) \subseteq {u},
         row.verified => row.email \in V, mode = "local" => row.email # None,
         UNCHANGED <<mode, identity>>
  PROVE  /\ user' \in [Users -> User] /\ vouched' \in [Users -> SUBSET Emails] /\ TablesInv'
         /\ \A q \in Requests :
              /\ lock'[req[q].user] = lock[req[q].user]
              /\ Carries(q)
              /\ req[q].user = u => /\ user[u].exists /\ lock[u] = None
                                    /\ ~req'[q].fresh
              => World(q)
<1>1. user' \in [Users -> User] /\ vouched' \in [Users -> SUBSET Emails]
  BY DEF Inv, Typed
<1>2. UniqueEmails'
  BY EmailFree
<1>3. Owned' /\ LocalEmails'
  BY DEF Inv, Typed, TablesInv, Owned, LocalEmails
<1>4. VerifiedMeansVouched'
  BY DEF Inv, Typed, TablesInv, VerifiedMeansVouched
<1>5. ASSUME NEW q \in Requests, lock'[req[q].user] = lock[req[q].user], Carries(q),
             req[q].user = u => /\ user[u].exists /\ lock[u] = None
                                /\ ~req'[q].fresh
      PROVE  World(q)
  <2>1. CASE req[q].user # u
    <3>1. req[q].user \in Users => user'[req[q].user] = user[req[q].user]
                                   /\ vouched'[req[q].user] = vouched[req[q].user]
      BY <2>1 DEF Inv, Typed
    <3> QED BY <1>5, <3>1 DEF World
  <2>2. CASE req[q].user = u
    <3>1. vouched[u] \subseteq vouched'[u] /\ lock[u] # q
      BY <1>5, <2>2, NoneAssumption DEF Inv, Typed
    <3> QED BY <1>5, <2>2, <3>1 DEF World
  <2> QED BY <2>1, <2>2
<1> QED BY <1>1, <1>2, <1>3, <1>4, <1>5 DEF TablesInv

(* A row that is inserted is no request's.                                 *)
LEMMA FreeUnknown ==
  ASSUME Inv, FreeUsers # {}
  PROVE  /\ Pick(FreeUsers) \in Users /\ ~user[Pick(FreeUsers)].exists
         /\ \A q \in Requests : req[q].user # Pick(FreeUsers)
BY DEF Pick, FreeUsers

(* What a request vouches for is added, and is an address.                 *)
LEMMA VouchAdds ==
  ASSUME Inv, NEW r \in Requests, NEW u \in Users, Vouch(u, r)
  PROVE  \E V \in SUBSET Emails :
           /\ vouched' = [vouched EXCEPT ![u] = V] /\ vouched[u] \subseteq V
           /\ req[r].vouches => req[r].email \in V
<1> DEFINE V == IF req[r].vouches THEN vouched[u] \cup {req[r].email} ELSE vouched[u]
<1>1. req[r].vouches => req[r].email \in Emails
  BY DEF Inv, RequestOK, Fits, Typed, Request
<1>2. vouched[u] \subseteq Emails
  BY DEF Inv, Typed
<1>3. V \in SUBSET Emails /\ vouched[u] \subseteq V /\ (req[r].vouches => req[r].email \in V)
  BY <1>1, <1>2
<1>4. vouched' = [vouched EXCEPT ![u] = V]
  BY DEF Vouch
<1> QED BY <1>3, <1>4

(* The first sign-in of a subject inserts its account.                     *)
LEMMA CreateUserInv ==
  ASSUME Inv, NEW r \in Requests, CreateUser(r)
  PROVE  Inv'
<1>1. /\ UNCHANGED <<mode, identity, state, browser, lock>> /\ Fits(r, "create", req[r])
      /\ state' \in [States -> State] /\ browser' \in [Browsers -> Browser]
  BY DEF CreateUser, Inv, Typed, RequestOK
<1>2. CASE End(r) /\ UNCHANGED <<user, vouched>>
  BY <1>1, <1>2, EndInv
<1>3. CASE /\ ~(req[r].email # None /\ Holders(req[r].email) # {})
           /\ FreeUsers # {}
           /\ LET u == Pick(FreeUsers)
              IN  /\ user' = [user EXCEPT ![u] = [NoUser EXCEPT !.exists = TRUE,
                                                    !.email = req[r].email,
                                                    !.verified = req[r].vouches]]
                  /\ Vouch(u, r)
                  /\ Goto(r, "attach") /\ req' = [req EXCEPT ![r].user = u, ![r].ok = TRUE]
  <2> DEFINE u == Pick(FreeUsers)
             row1 == [NoUser EXCEPT !.exists = TRUE]
             row2 == [row1 EXCEPT !.email = req[r].email]
             row == [row2 EXCEPT !.verified = req[r].vouches]
             x1 == [req[r] EXCEPT !.user = u]
             x == [x1 EXCEPT !.ok = TRUE]
  <2>1. user' = [user EXCEPT ![u] = row] /\ Vouch(u, r) /\ pc' = [pc EXCEPT ![r] = "attach"]
    BY <1>3 DEF Goto
  <2>2. req' = [req EXCEPT ![r] = x]
    BY <1>3 DEF Inv, Typed
  <2>3. u \in Users /\ ~user[u].exists /\ \A q \in Requests : req[q].user # u
    BY <1>3, FreeUnknown
  <2> HIDE DEF u
  <2>4. row1 \in User /\ row1.exists
    BY DEF NoUser, User
  <2> HIDE DEF row1
  <2>5. req[r].email \in Emails \cup {None} /\ req[r].vouches \in BOOLEAN
    BY DEF Inv, Typed, Request
  <2>6. row2 \in User /\ row2.exists /\ row2.email = req[r].email
    BY <2>4, <2>5 DEF User
  <2> HIDE DEF row2
  <2>7. row \in User /\ row.exists /\ row.email = req[r].email
    BY <2>5, <2>6 DEF User
  <2>8. row.verified = req[r].vouches
    BY <2>5, <2>6, Zenon DEF User
  <2> HIDE DEF row
  <2>9. PICK V \in SUBSET Emails :
          /\ vouched' = [vouched EXCEPT ![u] = V] /\ vouched[u] \subseteq V
          /\ req[r].vouches => req[r].email \in V
    BY <2>1, <2>3, VouchAdds
  <2>10. mode = "local" => row.email # None
    BY <1>1, <2>7 DEF Fits
  <2>11. row.email = None \/ Holders(row.email) \subseteq {u}
    BY <1>3, <2>7
  <2>12. row.verified => row.email \in V
    BY <2>7, <2>8, <2>9
  <2>13. /\ user' \in [Users -> User] /\ vouched' \in [Users -> SUBSET Emails] /\ TablesInv'
         /\ \A q \in Requests : Carries(q) => World(q)
    BY <1>1, <2>1, <2>3, <2>7, <2>9, <2>10, <2>11, <2>12, RowWritten
  <2>14. x1 \in Request /\ x1.op = req[r].op /\ x1.user = u /\ x1.email = req[r].email
    BY <2>3 DEF Inv, Typed, Request
  <2>15. x1.vouches = req[r].vouches
    BY Zenon DEF Inv, Typed, Request
  <2> HIDE DEF x1
  <2>16. x \in Request /\ x.op = req[r].op /\ x.user = u /\ x.email = req[r].email /\ x.ok
    BY <2>14 DEF Request
  <2>17. x.vouches = req[r].vouches
    BY <2>14, <2>15, Zenon DEF Request
  <2> HIDE DEF x
  <2>18. pc'[r] = "attach" /\ req'[r] = x /\ "attach" \in Steps
    BY <2>1, <2>2 DEF Inv, Typed, Steps
  <2>19. RequestOK(r)'
    BY <1>1, <2>3, <2>16, <2>17, <2>18 DEF RequestOK, Fits
  <2>20. /\ lock' \in [Users -> Requests \cup {None}]
         /\ identity' \in [Subjects -> Users \cup {None}]
    BY <1>1 DEF Inv, Typed
  <2> QED BY <1>1, <2>1, <2>2, <2>13, <2>16, <2>18, <2>19, <2>20, WriteStep
<1> QED BY <1>2, <1>3 DEF CreateUser

(* A request that is overtaken carries the same, and knows.                *)
LEMMA OvertakenSame ==
  ASSUME Inv, NEW u \in Users, NEW q \in Requests
  PROVE  LET x == Overtaken(u)[q]
         IN  /\ x \in Request
             /\ x.op = req[q].op /\ x.user = req[q].user /\ x.actor = req[q].actor
             /\ x.state = req[q].state /\ x.email = req[q].email
             /\ x.vouches = req[q].vouches /\ x.ok = req[q].ok /\ x.subject = req[q].subject
             /\ x.fresh => req[q].fresh
             /\ x.fresh => req[q].user # u
<1>1. CASE req[q].user # u
  BY <1>1 DEF Overtaken, Inv, Typed
<1>2. CASE req[q].user = u
  <2> DEFINE x == [req[q] EXCEPT !.fresh = FALSE]
  <2>1. Overtaken(u)[q] = x
    BY <1>2 DEF Overtaken
  <2>2. /\ x \in Request
        /\ x.op = req[q].op /\ x.user = req[q].user /\ x.actor = req[q].actor
        /\ x.state = req[q].state /\ x.email = req[q].email /\ x.subject = req[q].subject
    BY DEF Inv, Typed, Request
  <2>3. x.vouches = req[q].vouches /\ x.ok = req[q].ok /\ ~x.fresh
    BY Zenon DEF Inv, Typed, Request
  <2> HIDE DEF x
  <2> QED BY <2>1, <2>2, <2>3
<1> QED BY <1>1, <1>2

(* The row of u is written by no request.                                  *)
LEMMA RowInv ==
  ASSUME Inv, NEW u \in Users, NEW row \in User, NEW V \in SUBSET Emails, vouched[u] \subseteq V,
         user' = [user EXCEPT ![u] = row], vouched' = [vouched EXCEPT ![u] = V],
         user[u].exists, lock[u] = None,
         row.exists, row.email = None \/ Holders(row.email) \subseteq {u},
         row.verified => row.email \in V, mode = "local" => row.email # None,
         req' = Overtaken(u), UNCHANGED <<mode, identity, state, browser, lock, pc>>
  PROVE  Inv'
<1>1. req' \in [Requests -> Request]
  BY OvertakenSame DEF Overtaken
<1>2. \A q \in Requests : Carries(q) /\ (req'[q].fresh => req[q].user # u)
  BY OvertakenSame DEF Carries
<1>3. /\ user' \in [Users -> User] /\ vouched' \in [Users -> SUBSET Emails] /\ TablesInv'
      /\ \A q \in Requests : World(q)
  BY <1>2, RowWritten
<1>4. Typed'
  BY <1>1, <1>3 DEF Inv, Typed
<1> QED BY <1>2, <1>3, <1>4, NoneMoves

(* The row of u is written by request r, which is at the end of it.        *)
LEMMA RowStep ==
  ASSUME Inv, NEW r \in Requests, NEW u \in Users, u = req[r].user, NEW row \in User,
         NEW V \in SUBSET Emails, vouched[u] \subseteq V,
         user' = [user EXCEPT ![u] = row], vouched' = [vouched EXCEPT ![u] = V],
         user[u].exists, lock[u] = None,
         row.exists, row.email = None \/ Holders(row.email) \subseteq {u},
         row.verified => row.email \in V, mode = "local" => row.email # None,
         NEW p \in {"idle", "session"}, NEW x \in Request, ~x.vouches,
         x.op \in {"none", "sign-in"},
         pc' = [pc EXCEPT ![r] = p], req' = [Overtaken(u) EXCEPT ![r] = x],
         UNCHANGED <<mode, identity, state, browser, lock>>
  PROVE  Inv'
<1>1. req'[r] = x /\ pc'[r] = p /\ pc' \in [Requests -> Steps]
  BY DEF Overtaken, Inv, Typed, Steps
<1>2. \A q \in Requests \ {r} : req'[q] = Overtaken(u)[q] /\ pc'[q] = pc[q]
  BY DEF Overtaken, Inv, Typed
<1>3. req' \in [Requests -> Request]
  <2>1. Overtaken(u) \in [Requests -> Request]
    BY OvertakenSame DEF Overtaken
  <2> QED BY <2>1
<1>4. \A q \in Requests \ {r} : Carries(q) /\ (req'[q].fresh => req[q].user # u)
  BY <1>2, OvertakenSame DEF Carries
<1>5. /\ user' \in [Users -> User] /\ vouched' \in [Users -> SUBSET Emails] /\ TablesInv'
      /\ \A q \in Requests \ {r} : World(q)
  BY <1>4, RowWritten
<1>6. Typed'
  BY <1>1, <1>3, <1>5 DEF Inv, Typed
<1>7. RequestOK(r)'
  BY <1>1 DEF RequestOK, Fits
<1> QED BY <1>4, <1>5, <1>6, <1>7, OneMoves

(* A link confirms the address that it matches.                            *)
LEMMA VerifyLinkedInv ==
  ASSUME Inv, NEW r \in Requests, VerifyLinked(r)
  PROVE  Inv'
<1> DEFINE u == req[r].user
           row == [user[u] EXCEPT !.verified = TRUE]
<1>1. Fits(r, "verify", req[r])
  BY DEF VerifyLinked, Inv, RequestOK
<1>2. u \in Users /\ req[r].vouches
  BY <1>1 DEF Fits
<1>3. /\ req[r].fresh /\ user[u].exists /\ lock[u] = None
      /\ row.email = None \/ Holders(row.email) \subseteq {u}
      /\ user' = [user EXCEPT ![u] = row]
      /\ Vouch(u, r)
  BY DEF VerifyLinked, Written
<1>4. user[u].email = req[r].email
  BY <1>1, <1>3 DEF Fits
<1>5. row \in User /\ row.email = user[u].email
  BY <1>2 DEF Inv, Typed, User
<1>6. row.exists
  BY <1>2, <1>3, Zenon DEF Inv, Typed, User
<1>7. /\ pc' = [pc EXCEPT ![r] = "idle"] /\ req' = [Overtaken(u) EXCEPT ![r] = NoRequest]
      /\ UNCHANGED <<mode, identity, state, browser, lock>>
  BY DEF VerifyLinked, Goto
<1> HIDE DEF row
<1>8. PICK V \in SUBSET Emails :
        /\ vouched' = [vouched EXCEPT ![u] = V] /\ vouched[u] \subseteq V
        /\ req[r].vouches => req[r].email \in V
  BY <1>2, <1>3, VouchAdds
<1>9. row.email \in V
  BY <1>2, <1>4, <1>5, <1>8
<1>10. mode = "local" => row.email # None
  BY <1>2, <1>3, <1>5 DEF Inv, TablesInv, LocalEmails
<1> HIDE DEF u
<1>11. u = req[r].user
  BY DEF u
<1> QED BY <1>2, <1>3, <1>5, <1>6, <1>7, <1>8, <1>9, <1>10, <1>11, EndedFits, RowStep

(* The profile is copied: the mark goes with the address.                  *)
LEMMA RefreshedRow ==
  ASSUME Inv, NEW r \in Requests, NEW u \in Users, user[u].exists
  PROVE  LET row == Refreshed(r, user[u])
         IN  /\ row \in User /\ row.exists /\ row.password = user[u].password
             /\ row.email \in {user[u].email, req[r].email}
             /\ user[u].email # None => row.email # None
             /\ row.verified => \/ req[r].vouches /\ row.email = req[r].email
                                \/ user[u].verified /\ row.email = user[u].email
<1>1. CASE req[r].email = None
  <2>1. Refreshed(r, user[u]) = user[u] /\ user[u] \in User
    BY <1>1 DEF Refreshed, Inv, Typed
  <2> QED BY <2>1
<1>2. CASE req[r].email # None
  <2> DEFINE v == req[r].vouches \/ (user[u].email = req[r].email /\ user[u].verified)
             row1 == [user[u] EXCEPT !.email = req[r].email]
             row == [row1 EXCEPT !.verified = v]
  <2>1. Refreshed(r, user[u]) = row
    BY <1>2 DEF Refreshed
  <2>2. req[r].email \in Emails /\ v \in BOOLEAN
    BY <1>2 DEF Inv, Typed, Request
  <2>3. user[u] \in User
    BY DEF Inv, Typed
  <2>4. row1 \in User /\ row1.email = req[r].email
    BY <2>2, <2>3 DEF User
  <2>5. row1.exists = user[u].exists /\ row1.password = user[u].password
    BY <2>2, <2>3, Zenon DEF User
  <2> HIDE DEF row1
  <2>6. v => req[r].vouches \/ (user[u].verified /\ req[r].email = user[u].email)
    OBVIOUS
  <2> HIDE DEF v
  <2>7. row \in User /\ row.email = req[r].email
    BY <2>2, <2>4 DEF User
  <2>8. row.exists = row1.exists /\ row.password = row1.password /\ row.verified = v
    BY <2>2, <2>4, Zenon DEF User
  <2> HIDE DEF row
  <2> QED BY <1>2, <2>1, <2>5, <2>6, <2>7, <2>8
<1> QED BY <1>1, <1>2

(* The issuer's profile is written, or the write fails; the session is     *)
(* next.                                                                   *)
LEMMA RefreshInv ==
  ASSUME Inv, NEW r \in Requests, Refresh(r)
  PROVE  Inv'
<1> DEFINE u == req[r].user
<1>1. /\ UNCHANGED <<mode, identity, state, browser, lock>> /\ pc' = [pc EXCEPT ![r] = "session"]
      /\ u \in Users \cup {None} /\ "session" \in Steps
      /\ state' \in [States -> State] /\ browser' \in [Browsers -> Browser]
  BY DEF Refresh, Goto, Inv, Typed, Request, Steps
<1>2. /\ SessionNext(r, u) \in Request /\ Fits(r, "session", SessionNext(r, u))
      /\ SessionNext(r, u).op = "sign-in" /\ ~SessionNext(r, u).vouches
  BY <1>1, SessionNextFits
<1>3. CASE /\ UNCHANGED <<user, vouched>>
           /\ req' = [req EXCEPT ![r] = SessionNext(r, u)]
  BY <1>1, <1>2, <1>3, ReadStep
<1>4. CASE /\ Written(r, Refreshed(r, user[u]))
           /\ req' = [Overtaken(u) EXCEPT ![r] = SessionNext(r, u)]
  <2> DEFINE row == Refreshed(r, user[u])
  <2>1. /\ user[u].exists /\ lock[u] = None
        /\ row.email = None \/ Holders(row.email) \subseteq {u}
        /\ user' = [user EXCEPT ![u] = row]
        /\ Vouch(u, r)
    BY <1>4 DEF Written
  <2>2. u \in Users
    BY DEF Refresh, Inv, RequestOK, Fits
  <2>3. /\ row \in User /\ row.exists
        /\ user[u].email # None => row.email # None
        /\ row.verified => \/ req[r].vouches /\ row.email = req[r].email
                           \/ user[u].verified /\ row.email = user[u].email
    BY <2>1, <2>2, RefreshedRow
  <2> HIDE DEF row
  <2>4. PICK V \in SUBSET Emails :
          /\ vouched' = [vouched EXCEPT ![u] = V] /\ vouched[u] \subseteq V
          /\ req[r].vouches => req[r].email \in V
    BY <2>1, <2>2, VouchAdds
  <2>5. user[u].verified => user[u].email \in vouched[u]
    BY <2>2 DEF Inv, TablesInv, VerifiedMeansVouched
  <2>6. row.verified => row.email \in V
    BY <2>3, <2>4, <2>5
  <2>7. mode = "local" => row.email # None
    BY <2>1, <2>2, <2>3 DEF Inv, TablesInv, LocalEmails
  <2> HIDE DEF u
  <2>8. u = req[r].user
    BY DEF u
  <2> QED BY <1>1, <1>2, <1>4, <2>1, <2>2, <2>3, <2>4, <2>6, <2>7, <2>8, RowStep
<1> QED BY <1>3, <1>4 DEF Refresh

(* A visitor signs up, on a row that is no request's.                      *)
LEMMA SignUpInv ==
  ASSUME Inv, NEW e \in Emails, SignUp(e)
  PROVE  Inv'
<1> DEFINE u == Pick(FreeUsers)  row == LocalAccount(e, FALSE)
<1>1. /\ user' = [user EXCEPT ![u] = row] /\ Holders(e) = {}
      /\ UNCHANGED <<mode, identity, state, browser, lock, pc, req, vouched>>
  BY DEF SignUp
<1>2. u \in Users /\ ~user[u].exists /\ \A q \in Requests : req[q].user # u
  BY FreeUnknown DEF SignUp
<1>3. row \in User /\ row.exists /\ row.email = e /\ ~row.verified
  <2>1. row \in User /\ row.email = e
    BY DEF LocalAccount, NoUser, User
  <2>2. row.exists
    BY DEF LocalAccount, NoUser
  <2>3. ~row.verified
    BY DEF LocalAccount, NoUser
  <2> QED BY <2>1, <2>2, <2>3
<1> HIDE DEF u, row
<1>4. vouched' = [vouched EXCEPT ![u] = vouched[u]] /\ vouched[u] \in SUBSET Emails
  BY <1>1, <1>2 DEF Inv, Typed
<1>5. \A q \in Requests : Carries(q)
  BY <1>1, SameCarries
<1>6. row.email # None /\ Holders(row.email) \subseteq {u}
  BY <1>1, <1>3, NoneAssumption
<1>7. /\ user' \in [Users -> User] /\ vouched' \in [Users -> SUBSET Emails] /\ TablesInv'
      /\ \A q \in Requests : World(q)
  BY <1>1, <1>2, <1>3, <1>4, <1>5, <1>6, RowWritten
<1>8. Typed'
  BY <1>1, <1>7 DEF Inv, Typed
<1> QED BY <1>5, <1>7, <1>8, NoneMoves

(* The account's own address is its own.                                   *)
LEMMA OwnEmail ==
  ASSUME Inv, NEW u \in Users, user[u].exists
  PROVE  user[u].email = None \/ Holders(user[u].email) \subseteq {u}
BY DEF Inv, TablesInv, UniqueEmails, Holders

(* A link is followed, or an administrator confirms: the address of the    *)
(* link is the present one, or the present one was entered since.          *)
LEMMA ConfirmEmailInv ==
  ASSUME Inv, FormerOK, NEW u \in Users, NEW e \in Emails, ConfirmEmail(u, e)
  PROVE  Inv'
<1> DEFINE row == [user[u] EXCEPT !.verified = TRUE]
           V == vouched[u] \cup {e}
<1>1. /\ mode = "local" /\ user[u].exists /\ lock[u] = None
      /\ user' = [user EXCEPT ![u] = row] /\ vouched' = [vouched EXCEPT ![u] = V]
      /\ req' = Overtaken(u) /\ UNCHANGED <<mode, identity, state, browser, lock, pc>>
  BY DEF ConfirmEmail, Inv, Typed
<1>2. user[u].email \in Emails /\ user[u].email # None
  BY <1>1 DEF Inv, Typed, User, TablesInv, LocalEmails
<1>3. user[u].email \in V
  <2>1. CASE e \in former[u]
    BY <2>1 DEF FormerOK
  <2>2. CASE e = user[u].email
    BY <2>2
  <2> QED BY <2>1, <2>2 DEF ConfirmEmail
<1>4. V \in SUBSET Emails /\ vouched[u] \subseteq V
  BY DEF Inv, Typed
<1>5. row \in User /\ row.email = user[u].email
  BY DEF Inv, Typed, User
<1>6. row.exists
  BY <1>1, Zenon DEF Inv, Typed, User
<1> HIDE DEF row, V
<1> QED BY <1>1, <1>2, <1>3, <1>4, <1>5, <1>6, OwnEmail, RowInv

(* A password is set.                                                      *)
LEMMA SetPasswordInv ==
  ASSUME Inv, NEW u \in Users, SetPassword(u)
  PROVE  Inv'
<1> DEFINE row == [user[u] EXCEPT !.password = TRUE]
<1>1. /\ mode = "local" /\ user[u].exists /\ lock[u] = None
      /\ user' = [user EXCEPT ![u] = row]
      /\ req' = Overtaken(u) /\ UNCHANGED <<mode, identity, state, browser, lock, pc, vouched>>
  BY DEF SetPassword, Inv, Typed
<1>2. vouched' = [vouched EXCEPT ![u] = vouched[u]] /\ vouched[u] \in SUBSET Emails
  BY <1>1 DEF Inv, Typed
<1>3. row \in User /\ row.email = user[u].email
  BY DEF Inv, Typed, User
<1>4. row.exists = user[u].exists /\ row.verified = user[u].verified
  BY Zenon DEF Inv, Typed, User
<1>5. /\ user[u].verified => user[u].email \in vouched[u]
      /\ user[u].email # None
  BY <1>1 DEF Inv, TablesInv, VerifiedMeansVouched, LocalEmails
<1> HIDE DEF row
<1> QED BY <1>1, <1>2, <1>3, <1>4, <1>5, OwnEmail, RowInv

(* An administrator changes the address, and vouches for the new one.      *)
LEMMA EditEmailInv ==
  ASSUME Inv, NEW u \in Users, NEW e \in Emails, EditEmail(u, e)
  PROVE  Inv'
<1> DEFINE row == [user[u] EXCEPT !.email = e]
           V == vouched[u] \cup {e}
<1>1. /\ user[u].exists /\ lock[u] = None /\ Holders(e) = {}
      /\ user' = [user EXCEPT ![u] = row] /\ vouched' = [vouched EXCEPT ![u] = V]
      /\ req' = Overtaken(u) /\ UNCHANGED <<mode, identity, state, browser, lock, pc>>
  BY DEF EditEmail, Inv, Typed
<1>2. V \in SUBSET Emails /\ vouched[u] \subseteq V /\ e \in V
  BY DEF Inv, Typed
<1>3. row \in User /\ row.email = e
  BY DEF Inv, Typed, User
<1>4. row.exists = user[u].exists /\ row.verified = user[u].verified
  BY Zenon DEF Inv, Typed, User
<1>5. e # None
  BY NoneAssumption
<1> HIDE DEF row, V
<1> QED BY <1>1, <1>2, <1>3, <1>4, <1>5, RowInv

(* What a request carries once the account u is gone.                      *)
LEMMA DeletedSame ==
  ASSUME Inv, NEW u \in Users, DeleteUser(u), NEW q \in Requests
  PROVE  /\ req'[q] \in Request /\ Carries(q)
         /\ req[q].user = u => (req[q].op = "unlink" => req'[q].subject = None)
                              /\ (req[q].op = "link" => ~req'[q].fresh)
<1>1. CASE ~(req[q].op = "unlink" /\ req[q].user = u)
  <2>1. req'[q] = Overtaken(u)[q] /\ pc' = pc
    BY <1>1 DEF DeleteUser
  <2> QED BY <1>1, <2>1, OvertakenSame DEF Carries
<1>2. CASE req[q].op = "unlink" /\ req[q].user = u
  <2> DEFINE x == [req[q] EXCEPT !.subject = None]
  <2>1. req'[q] = x /\ pc' = pc
    BY <1>2 DEF DeleteUser
  <2>2. /\ x \in Request /\ x.subject = None
        /\ x.op = req[q].op /\ x.user = req[q].user /\ x.actor = req[q].actor
        /\ x.state = req[q].state /\ x.email = req[q].email
    BY DEF Inv, Typed, Request
  <2>3. x.vouches = req[q].vouches /\ x.ok = req[q].ok /\ x.fresh = req[q].fresh
    BY Zenon DEF Inv, Typed, Request
  <2> HIDE DEF x
  <2> QED BY <1>2, <2>1, <2>2, <2>3 DEF Carries
<1> QED BY <1>1, <1>2

(* An account goes with all that is its own; nobody holds its row.         *)
LEMMA DeleteUserInv ==
  ASSUME Inv, NEW u \in Users, DeleteUser(u)
  PROVE  Inv'
<1>1. /\ user[u].exists /\ lock[u] = None
      /\ user' = [user EXCEPT ![u] = NoUser]
      /\ identity' = [s \in Subjects |-> IF identity[s] = u THEN None ELSE identity[s]]
      /\ vouched' = [vouched EXCEPT ![u] = {}]
      /\ UNCHANGED <<mode, lock, pc>>
  BY DEF DeleteUser
<1>2. NoUser \in User /\ ~NoUser.exists /\ ~NoUser.verified /\ NoState \in State
  BY DEF NoUser, User, NoState, State
<1>3. Typed'
  <2>1. user' \in [Users -> User] /\ vouched' \in [Users -> SUBSET Emails]
    BY <1>1, <1>2 DEF Inv, Typed
  <2>2. identity' \in [Subjects -> Users \cup {None}]
    BY <1>1 DEF Inv, Typed
  <2>3. state' \in [States -> State]
    BY <1>2 DEF DeleteUser, Inv, Typed
  <2>4. browser' \in [Browsers -> Browser]
    BY DEF DeleteUser, Inv, Typed, Browser
  <2>5. req' \in [Requests -> Request]
    BY DeletedSame DEF DeleteUser
  <2> QED BY <1>1, <2>1, <2>2, <2>3, <2>4, <2>5 DEF Inv, Typed
<1>4. TablesInv'
  <2>1. UniqueEmails'
    BY <1>1, <1>2 DEF Inv, Typed, TablesInv, UniqueEmails
  <2>2. Owned'
    BY <1>1 DEF Inv, Typed, TablesInv, Owned
  <2>3. LocalEmails'
    BY <1>1, <1>2 DEF Inv, Typed, TablesInv, LocalEmails
  <2>4. VerifiedMeansVouched'
    BY <1>1, <1>2 DEF Inv, Typed, TablesInv, VerifiedMeansVouched
  <2> QED BY <2>1, <2>2, <2>3, <2>4 DEF TablesInv
<1>5. ASSUME NEW q \in Requests PROVE Carries(q) /\ World(q)
  <2>1. /\ Carries(q)
        /\ req[q].user = u => (req[q].op = "unlink" => req'[q].subject = None)
                             /\ (req[q].op = "link" => ~req'[q].fresh)
    BY DeletedSame
  <2>2. CASE req[q].user = u
    <3>1. ~user'[u].exists /\ lock[u] # q
      BY <1>1, <1>2, NoneAssumption DEF Inv, Typed
    <3> QED BY <1>1, <2>1, <2>2, <3>1 DEF World
  <2>3. CASE req[q].user # u
    <3>1. req[q].user \in Users => user'[req[q].user] = user[req[q].user]
                                   /\ vouched'[req[q].user] = vouched[req[q].user]
      BY <1>1, <2>3 DEF Inv, Typed
    <3>2. \A t \in Subjects : identity[t] # u => identity'[t] = identity[t]
      BY <1>1
    <3>3. req[q].op = "unlink" /\ req'[q].subject # None =>
            identity'[req[q].subject] = identity[req[q].subject]
      <4> SUFFICES ASSUME req[q].op = "unlink", req'[q].subject # None
                   PROVE  identity'[req[q].subject] = identity[req[q].subject]
        OBVIOUS
      <4>1. req[q].subject \in Subjects /\ req[q].subject # None
        BY <2>1 DEF Carries, Inv, Typed, Request
      <4>2. identity[req[q].subject] # u
        BY <2>3, <4>1 DEF Inv, RequestOK, Fits
      <4> QED BY <3>2, <4>1, <4>2
    <3> QED BY <1>1, <2>1, <2>3, <3>1, <3>2, <3>3 DEF World
  <2> QED BY <2>1, <2>2, <2>3
<1> QED BY <1>3, <1>4, <1>5, NoneMoves

(* Of two identities one is left when the other goes.                      *)
LEMMA MayUnlinkSpare ==
  ASSUME NEW u, MayUnlink(u), NEW s
  PROVE  Spare(u, s)
<1>1. CASE user[u].password
  BY <1>1 DEF Spare
<1>2. CASE Cardinality(LinkedTo(u)) > 1
  <2>1. LinkedTo(u) # {} /\ LinkedTo(u) # {s}
    <3>1. Cardinality({}) = 0 /\ Cardinality({s}) = 1
      BY FS_EmptySet, FS_Singleton
    <3> QED BY <1>2, <3>1
  <2>2. \E t \in LinkedTo(u) : t # s
    BY <2>1
  <2> QED BY <2>2 DEF LinkedTo, Spare
<1> QED BY <1>1, <1>2 DEF MayUnlink

(* The account's row is taken and its identities counted.                  *)
LEMMA CountIdentitiesInv ==
  ASSUME Inv, NEW r \in Requests, CountIdentities(r)
  PROVE  Inv'
<1> DEFINE u == req[r].user
           x == [req[r] EXCEPT !.ok = MayUnlink(u)]
<1>1. /\ lock[u] = None /\ lock' = [lock EXCEPT ![u] = r] /\ pc' = [pc EXCEPT ![r] = "delete"]
      /\ UNCHANGED <<mode, user, identity, state, browser, vouched>>
      /\ Fits(r, "lock", req[r])
  BY DEF CountIdentities, Goto, Inv, RequestOK
<1>2. u \in Users /\ req[r].op = "unlink"
  BY <1>1 DEF Fits
<1>3. req' = [req EXCEPT ![r] = x]
  BY DEF CountIdentities, Inv, Typed
<1>4. MayUnlink(u) \in BOOLEAN
  BY <1>2 DEF MayUnlink, Inv, Typed, User
<1>5. /\ x \in Request /\ x.op = req[r].op /\ x.user = req[r].user /\ x.email = req[r].email
      /\ x.subject = req[r].subject
  BY <1>4 DEF Inv, Typed, Request
<1>6. x.ok = MayUnlink(u) /\ x.vouches = req[r].vouches
  BY <1>4, Zenon DEF Inv, Typed, Request
<1> HIDE DEF x
<1>7. x.ok => Spare(u, x.subject)
  BY <1>6, MayUnlinkSpare
<1>8. pc'[r] = "delete" /\ req'[r] = x /\ lock'[u] = r /\ "delete" \in Steps
  BY <1>1, <1>2, <1>3 DEF Inv, Typed, Steps
<1>9. RequestOK(r)'
  BY <1>1, <1>2, <1>5, <1>6, <1>7, <1>8 DEF RequestOK, Fits, Spare
<1>10. /\ user' \in [Users -> User] /\ vouched' \in [Users -> SUBSET Emails]
       /\ lock' \in [Users -> Requests \cup {None}]
       /\ identity' \in [Subjects -> Users \cup {None}]
  BY <1>1, <1>2 DEF Inv, Typed
<1>11. \A q \in Requests : lock[req[q].user] = q => lock'[req[q].user] = q
  BY <1>1, <1>2, NoneAssumption DEF Inv, Typed
<1>12. TablesInv' /\ \A q \in Requests : World(q)
  BY <1>1, <1>11, TablesAlone
<1> QED BY <1>1, <1>3, <1>5, <1>8, <1>9, <1>10, <1>12, WriteStep

(* Who else holds a row keeps it.                                          *)
LEMMA UnlockedOthers ==
  ASSUME Inv, NEW r \in Requests, lock' = Unlocked(r)
  PROVE  /\ lock' \in [Users -> Requests \cup {None}]
         /\ \A q \in Requests \ {r} : RequestOK(q) /\ pc[q] = "delete" /\ lock[req[q].user] = q
                                       => lock'[req[q].user] = q
<1>1. lock' \in [Users -> Requests \cup {None}]
  BY DEF Unlocked, Inv, Typed
<1>2. \A q \in Requests \ {r} : RequestOK(q) /\ pc[q] = "delete" => req[q].user \in Users
  BY DEF RequestOK, Fits
<1> QED BY <1>1, <1>2 DEF Unlocked

(* A request gives up, and its transaction is rolled back.                 *)
LEMMA GiveUpInv ==
  ASSUME Inv, NEW r \in Requests, End(r), lock' = Unlocked(r),
         UNCHANGED <<mode, user, identity, state, browser, vouched>>
  PROVE  Inv'
<1>1. pc' = [pc EXCEPT ![r] = "idle"] /\ req' = [req EXCEPT ![r] = NoRequest] /\ "idle" \in Steps
  BY DEF End, Goto, Steps
<1>2. /\ user' \in [Users -> User] /\ vouched' \in [Users -> SUBSET Emails]
      /\ identity' \in [Subjects -> Users \cup {None}]
  BY DEF Inv, Typed
<1>3. pc'[r] = "idle" /\ req'[r] = NoRequest
  BY <1>1 DEF Inv, Typed
<1>4. RequestOK(r)'
  BY <1>3, EndedFits DEF RequestOK, Fits
<1>5. TablesInv' /\ \A q \in Requests \ {r} : World(q)
  BY UnlockedOthers, TablesAlone DEF Inv
<1> QED BY <1>1, <1>2, <1>4, <1>5, EndedFits, UnlockedOthers, WriteStep

(* What another request carries once the identity s is gone.               *)
LEMMA UnlinkedSame ==
  ASSUME Inv, NEW r \in Requests, NEW q \in Requests \ {r}, NEW s, pc'[q] = pc[q],
         req'[q] = IF req[q].op = "unlink" /\ req[q].subject = s
                   THEN [req[q] EXCEPT !.subject = None] ELSE req[q]
  PROVE  /\ req'[q] \in Request /\ Carries(q)
         /\ req[q].op = "unlink" /\ req'[q].subject # None => req[q].subject # s
<1>1. CASE ~(req[q].op = "unlink" /\ req[q].subject = s)
  BY <1>1, SameCarries DEF Inv, Typed
<1>2. CASE req[q].op = "unlink" /\ req[q].subject = s
  <2> DEFINE x == [req[q] EXCEPT !.subject = None]
  <2>1. req'[q] = x
    BY <1>2
  <2>2. /\ x \in Request /\ x.subject = None
        /\ x.op = req[q].op /\ x.user = req[q].user /\ x.actor = req[q].actor
        /\ x.state = req[q].state /\ x.email = req[q].email
    BY DEF Inv, Typed, Request
  <2>3. x.vouches = req[q].vouches /\ x.ok = req[q].ok /\ x.fresh = req[q].fresh
    BY Zenon DEF Inv, Typed, Request
  <2> HIDE DEF x
  <2> QED BY <1>2, <2>1, <2>2, <2>3 DEF Carries
<1> QED BY <1>1, <1>2

(* The identity goes, under the lock of its account.                       *)
LEMMA DeleteOAuthIdentityInv ==
  ASSUME Inv, NEW r \in Requests, DeleteOAuthIdentity(r)
  PROVE  Inv'
<1> DEFINE s == req[r].subject
<1>1. /\ pc' = [pc EXCEPT ![r] = "idle"] /\ lock' = Unlocked(r) /\ Fits(r, "delete", req[r])
      /\ UNCHANGED <<mode, user, state, browser, vouched>>
  BY DEF DeleteOAuthIdentity, Goto, Inv, RequestOK
<1>2. CASE UNCHANGED identity /\ req' = [req EXCEPT ![r] = NoRequest]
  BY <1>1, <1>2, GiveUpInv DEF End, Goto
<1>3. CASE /\ s # None /\ req[r].ok
           /\ identity' = [identity EXCEPT ![s] = None]
           /\ req' = [q \in Requests |->
                        IF q = r THEN NoRequest
                        ELSE IF req[q].op = "unlink" /\ req[q].subject = s
                        THEN [req[q] EXCEPT !.subject = None] ELSE req[q]]
  <2>1. pc'[r] = "idle" /\ req'[r] = NoRequest /\ \A q \in Requests \ {r} : pc'[q] = pc[q]
    BY <1>1, <1>3 DEF Inv, Typed
  <2>2. \A q \in Requests \ {r} :
          /\ req'[q] \in Request /\ Carries(q)
          /\ req[q].op = "unlink" /\ req'[q].subject # None => req[q].subject # s
    BY <1>3, <2>1, UnlinkedSame
  <2>3. req' \in [Requests -> Request]
    BY <1>3, <2>1, <2>2, EndedFits
  <2>4. Typed'
    BY <1>1, <1>3, <2>3, UnlockedOthers DEF Inv, Typed, Steps
  <2>5. TablesInv'
    <3>1. Owned'
      BY <1>1, <1>3 DEF Inv, Typed, TablesInv, Owned
    <3>2. UniqueEmails' /\ LocalEmails' /\ VerifiedMeansVouched'
      BY <1>1 DEF Inv, TablesInv, UniqueEmails, LocalEmails, VerifiedMeansVouched
    <3> QED BY <3>1, <3>2 DEF TablesInv
  <2>6. RequestOK(r)'
    BY <2>1, EndedFits DEF RequestOK, Fits
  <2>7. s \in Subjects /\ identity[s] = req[r].user /\ lock[req[r].user] = r
    BY <1>1, <1>3 DEF Inv, Typed, Request, Fits
  <2>8. ASSUME NEW q \in Requests \ {r} PROVE World(q)
    <3>1. pc[q] = "delete" /\ lock[req[q].user] = q => lock'[req[q].user] = q
      BY <1>1, UnlockedOthers DEF Inv
    <3>2. lock[req[q].user] = q => \A t \in Subjects : identity[t] = req[q].user =>
                                                        identity'[t] = req[q].user
      BY <1>3, <2>7 DEF Inv, Typed
    <3>3. req[q].op = "unlink" /\ req'[q].subject # None =>
            identity'[req[q].subject] = identity[req[q].subject]
      BY <1>3, <2>2 DEF Inv, Typed
    <3> QED BY <1>1, <3>1, <3>2, <3>3 DEF World
  <2> QED BY <2>2, <2>4, <2>5, <2>6, <2>8, OneMoves
<1> QED BY <1>2, <1>3 DEF DeleteOAuthIdentity

(* Every step keeps the invariant.                                         *)
LEMMA NextInv == Inv /\ FormerOK /\ [Next]_vars => Inv'
<1> SUFFICES ASSUME Inv, FormerOK, [Next]_vars PROVE Inv'
  OBVIOUS
<1>1. ASSUME NEW b \in Browsers, Start(b) \/ StartLink(b) \/ SignOut(b) PROVE Inv'
  BY <1>1, StartInv, BrowserInv
<1>2. ASSUME NEW r \in Requests, \E b \in Browsers : Callback(r, b) PROVE Inv'
  BY <1>2, CallbackInv
<1>3. ASSUME NEW r \in Requests,
             ConsumeOAuthState(r) \/ FindOAuthIdentity(r) \/ FindUserByEmail(r) \/ CreateUser(r)
      PROVE  Inv'
  BY <1>3, ConsumeInv, FindOAuthIdentityInv, FindUserByEmailInv, CreateUserInv
<1>4. ASSUME NEW r \in Requests,
             FindUserByID(r) \/ CreateOAuthIdentity(r) \/ VerifyLinked(r) \/ Refresh(r)
             \/ CreateSession(r)
      PROVE  Inv'
  BY <1>4, FindUserByIDInv, CreateOAuthIdentityInv, VerifyLinkedInv, RefreshInv, CreateSessionInv
<1>5. ASSUME NEW r \in Requests, UnlinkIdentity(r) \/ RemoveIdentity(r) PROVE Inv'
  BY <1>5, UnlinkInv DEF UnlinkIdentity, RemoveIdentity
<1>6. ASSUME NEW r \in Requests,
             ListOAuthIdentities(r) \/ CountIdentities(r) \/ DeleteOAuthIdentity(r)
      PROVE  Inv'
  BY <1>6, ListOAuthIdentitiesInv, CountIdentitiesInv, DeleteOAuthIdentityInv
<1>7. ASSUME NEW r \in Requests, GiveUp(r) PROVE Inv'
  BY <1>7, GiveUpInv DEF GiveUp
<1>8. ASSUME NEW e \in Emails, SignUp(e) PROVE Inv'
  BY <1>8, SignUpInv
<1>9. ASSUME NEW u \in Users, SetPassword(u) \/ DeleteUser(u) PROVE Inv'
  BY <1>9, SetPasswordInv, DeleteUserInv
<1>10. ASSUME NEW u \in Users, NEW e \in Emails, ConfirmEmail(u, e) \/ EditEmail(u, e) PROVE Inv'
  BY <1>10, ConfirmEmailInv, EditEmailInv
<1>11. ASSUME NEW u \in Users, \E b \in Browsers : SignInWithPassword(b, u) PROVE Inv'
  BY <1>11, BrowserInv
<1>12. CASE UNCHANGED vars
  <2>1. UNCHANGED <<mode, user, identity, lock, pc, req, vouched>>
    BY <1>12 DEF vars
  <2>2. state' \in [States -> State] /\ browser' \in [Browsers -> Browser]
    BY <1>12 DEF vars, Inv, Typed
  <2> QED BY <2>1, <2>2, PageStep
<1> QED BY <1>1, <1>2, <1>3, <1>4, <1>5, <1>6, <1>7, <1>8, <1>9, <1>10, <1>11, <1>12 DEF Next

(* An account that has former addresses keeps its own, and what was        *)
(* vouched for stays so.                                                   *)
LEMMA FormerKept ==
  ASSUME Inv, FormerOK, UNCHANGED <<mode, former>>,
         NEW u \in Users, former[u] # {} =>
           /\ user'[u].exists /\ user'[u].email = user[u].email
           /\ vouched[u] \subseteq vouched'[u]
  PROVE  former'[u] # {} => mode' = "local" /\ user'[u].exists /\ user'[u].email \in vouched'[u]
BY DEF FormerOK

(* The steps that write rows leave former addresses with the accounts.     *)
LEMMA FormerWritten ==
  ASSUME Inv, FormerOK, NEW r \in Requests, CreateUser(r) \/ VerifyLinked(r) \/ Refresh(r)
  PROVE  FormerOK'
<1> SUFFICES ASSUME NEW u \in Users, former[u] # {}
             PROVE  /\ user'[u].exists /\ user'[u].email = user[u].email
                    /\ vouched[u] \subseteq vouched'[u]
  BY FormerKept DEF FormerOK, CreateUser, VerifyLinked, Refresh
<1>1. user[u].exists /\ mode = "local"
  BY DEF FormerOK
<1>2. CASE CreateUser(r)
  <2>1. CASE UNCHANGED <<user, vouched>>
    BY <1>1, <2>1
  <2>2. CASE FreeUsers # {} /\ Vouch(Pick(FreeUsers), r)
             /\ \E row : user' = [user EXCEPT ![Pick(FreeUsers)] = row]
    <3>1. u # Pick(FreeUsers)
      BY <1>1, <2>2, FreeUnknown
    <3> QED BY <1>1, <2>2, <3>1 DEF Vouch, Inv, Typed
  <2> QED BY <1>2, <2>1, <2>2 DEF CreateUser
<1>3. CASE VerifyLinked(r)
  <2> DEFINE w == req[r].user
             row == [user[w] EXCEPT !.verified = TRUE]
  <2>1. w \in Users /\ user' = [user EXCEPT ![w] = row] /\ Vouch(w, r) /\ user[w].exists
    BY <1>3 DEF VerifyLinked, Written, Inv, RequestOK, Fits
  <2>2. row.email = user[w].email
    BY <2>1 DEF Inv, Typed, User
  <2>3. row.exists = user[w].exists
    BY <2>1, Zenon DEF Inv, Typed, User
  <2> HIDE DEF row
  <2>4. user'[u].exists /\ user'[u].email = user[u].email
    BY <1>1, <2>1, <2>2, <2>3 DEF Inv, Typed
  <2>5. vouched[u] \subseteq vouched'[u]
    BY <2>1 DEF Vouch, Inv, Typed
  <2> QED BY <2>4, <2>5
<1>4. CASE Refresh(r)
  BY <1>1, <1>4 DEF Refresh
<1> QED BY <1>2, <1>3, <1>4

(* What the former addresses say outlasts any step.                        *)
LEMMA FormerNext == Inv /\ FormerOK /\ [Next]_vars => FormerOK'
<1> SUFFICES ASSUME Inv, FormerOK, [Next]_vars PROVE FormerOK'
  OBVIOUS
<1>1. CASE UNCHANGED <<mode, user, former, vouched>>
  BY <1>1 DEF FormerOK
<1>2. ASSUME NEW b \in Browsers, Start(b) \/ StartLink(b) \/ SignOut(b)
      PROVE  UNCHANGED <<mode, user, former, vouched>>
  BY <1>2 DEF Start, StartLink, SignOut, Opened
<1>3. ASSUME NEW r \in Requests, NEW b \in Browsers, Callback(r, b)
      PROVE  UNCHANGED <<mode, user, former, vouched>>
  BY <1>3 DEF Callback
<1>4. ASSUME NEW r \in Requests,
             \/ ConsumeOAuthState(r) \/ FindOAuthIdentity(r) \/ FindUserByEmail(r)
             \/ FindUserByID(r) \/ CreateOAuthIdentity(r) \/ CreateSession(r)
             \/ UnlinkIdentity(r) \/ RemoveIdentity(r) \/ ListOAuthIdentities(r)
             \/ CountIdentities(r) \/ DeleteOAuthIdentity(r) \/ GiveUp(r)
      PROVE  UNCHANGED <<mode, user, former, vouched>>
  BY <1>4 DEF ConsumeOAuthState, FindOAuthIdentity, FindUserByEmail, FindUserByID,
     CreateOAuthIdentity, CreateSession, UnlinkIdentity, RemoveIdentity, Unlink,
     ListOAuthIdentities, CountIdentities, DeleteOAuthIdentity, GiveUp
<1>5. ASSUME NEW b \in Browsers, NEW u \in Users, SignInWithPassword(b, u)
      PROVE  UNCHANGED <<mode, user, former, vouched>>
  BY <1>5 DEF SignInWithPassword
<1>6. ASSUME NEW e \in Emails, SignUp(e) PROVE FormerOK'
  <2>1. \A v \in Users : user[v].exists => user'[v] = user[v]
    BY <1>6, FreeUnknown DEF SignUp, Inv, Typed
  <2> QED BY <1>6, <2>1 DEF SignUp, FormerOK
<1>7. ASSUME NEW u \in Users, NEW e \in Emails, ConfirmEmail(u, e) PROVE FormerOK'
  <2> DEFINE row == [user[u] EXCEPT !.verified = TRUE]
  <2>1. /\ user' = [user EXCEPT ![u] = row] /\ vouched' = [vouched EXCEPT ![u] = @ \cup {e}]
        /\ former' = [former EXCEPT ![u] = @ \ {e}] /\ mode' = mode /\ user[u].exists
    BY <1>7 DEF ConfirmEmail
  <2>2. row.email = user[u].email
    BY DEF Inv, Typed, User
  <2>3. row.exists = user[u].exists
    BY Zenon DEF Inv, Typed, User
  <2> HIDE DEF row
  <2> QED BY <2>1, <2>2, <2>3 DEF FormerOK, Inv, Typed
<1>8. ASSUME NEW u \in Users, SetPassword(u) PROVE FormerOK'
  <2> DEFINE row == [user[u] EXCEPT !.password = TRUE]
  <2>1. user' = [user EXCEPT ![u] = row] /\ UNCHANGED <<mode, former, vouched>> /\ user[u].exists
    BY <1>8 DEF SetPassword
  <2>2. row.email = user[u].email
    BY DEF Inv, Typed, User
  <2>3. row.exists = user[u].exists
    BY Zenon DEF Inv, Typed, User
  <2> HIDE DEF row
  <2> QED BY <2>1, <2>2, <2>3 DEF FormerOK, Inv, Typed
<1>9. ASSUME NEW u \in Users, NEW e \in Emails, EditEmail(u, e) PROVE FormerOK'
  <2> DEFINE row == [user[u] EXCEPT !.email = e]
             F == IF mode = "local"
                  THEN (former[u] \cup {user[u].email}) \ (vouched[u] \cup {e, None})
                  ELSE former[u]
  <2>1. /\ user' = [user EXCEPT ![u] = row] /\ vouched' = [vouched EXCEPT ![u] = @ \cup {e}]
        /\ former' = [former EXCEPT ![u] = F] /\ mode' = mode /\ user[u].exists
    BY <1>9 DEF EditEmail, FormerOK
  <2>2. F \in SUBSET Emails /\ (F # {} => mode = "local")
    BY DEF FormerOK, Inv, Typed, User
  <2>3. row.email = e
    BY DEF Inv, Typed, User
  <2>4. row.exists = user[u].exists
    BY Zenon DEF Inv, Typed, User
  <2> HIDE DEF row, F
  <2> QED BY <2>1, <2>2, <2>3, <2>4 DEF FormerOK, Inv, Typed
<1>10. ASSUME NEW u \in Users, DeleteUser(u) PROVE FormerOK'
  BY <1>10 DEF DeleteUser, FormerOK, Inv, Typed
<1>11. CASE UNCHANGED vars
  BY <1>1, <1>11 DEF vars
<1> QED BY <1>1, <1>2, <1>3, <1>4, <1>5, <1>6, <1>7, <1>8, <1>9, <1>10, <1>11,
           FormerWritten DEF Next

(* The invariant holds throughout.                                         *)
LEMMA Invariance == Spec => [](Inv /\ FormerOK)
BY InitInv, InitFormer, NextInv, FormerNext, PTL DEF Spec

(* Every row and request has its type, no two accounts share an address,   *)
(* and every identity belongs to an account that exists.                   *)
THEOREM TypeCorrect == Spec => []TypeOK
BY Invariance, InvTypeOK, PTL

(* A confirmed address is one that a provider vouched for, that read a     *)
(* mailed link, or that an administrator confirmed or entered, for this    *)
(* account, after any sequence of sign-ins, refreshes, links and edits.    *)
THEOREM VerifiedVouched == Spec => []VerifiedMeansVouched
BY Invariance, PTL DEF Inv, TablesInv

(* The steps that write accounts or identities.                            *)
RowWrites ==
  \/ \E r \in Requests : CreateUser(r) \/ VerifyLinked(r) \/ Refresh(r)
  \/ \E e \in Emails : SignUp(e)
  \/ \E u \in Users :
       SetPassword(u) \/ \E e \in Emails : ConfirmEmail(u, e) \/ EditEmail(u, e)

(* Whatever else a step does leaves both tables alone.                     *)
LEMMA WhoWrites ==
  ASSUME [Next]_vars
  PROVE  \/ UNCHANGED <<user, identity>> \/ RowWrites
         \/ \E r \in Requests : CreateOAuthIdentity(r) \/ DeleteOAuthIdentity(r)
         \/ \E u \in Users : DeleteUser(u)
<1>1. ASSUME NEW b \in Browsers, Start(b) \/ StartLink(b) \/ SignOut(b)
      PROVE  UNCHANGED <<user, identity>>
  BY <1>1 DEF Start, StartLink, SignOut, Opened
<1>2. ASSUME NEW r \in Requests, NEW b \in Browsers, Callback(r, b)
      PROVE  UNCHANGED <<user, identity>>
  BY <1>2 DEF Callback
<1>3. ASSUME NEW r \in Requests,
             \/ ConsumeOAuthState(r) \/ FindOAuthIdentity(r) \/ FindUserByEmail(r)
             \/ FindUserByID(r) \/ CreateSession(r) \/ UnlinkIdentity(r) \/ RemoveIdentity(r)
             \/ ListOAuthIdentities(r) \/ CountIdentities(r) \/ GiveUp(r)
      PROVE  UNCHANGED <<user, identity>>
  BY <1>3 DEF ConsumeOAuthState, FindOAuthIdentity, FindUserByEmail, FindUserByID, CreateSession,
     UnlinkIdentity, RemoveIdentity, Unlink, ListOAuthIdentities, CountIdentities, GiveUp
<1>4. ASSUME NEW b \in Browsers, NEW u \in Users, SignInWithPassword(b, u)
      PROVE  UNCHANGED <<user, identity>>
  BY <1>4 DEF SignInWithPassword
<1>5. CASE UNCHANGED vars
  BY <1>5 DEF vars
<1> QED BY <1>1, <1>2, <1>3, <1>4, <1>5 DEF Next, RowWrites

(* No write of a row takes the password of an account, or an identity.     *)
LEMMA RowKeepsWays ==
  ASSUME Inv, RowWrites, NEW v \in Users, user[v].exists
  PROVE  (user[v].password => user'[v].password) /\ UNCHANGED identity
<1>1. ASSUME NEW r \in Requests, CreateUser(r)
      PROVE  user'[v] = user[v] /\ UNCHANGED identity
  <2>1. CASE UNCHANGED user
    BY <1>1, <2>1 DEF CreateUser
  <2>2. CASE FreeUsers # {}
             /\ \E row : user' = [user EXCEPT ![Pick(FreeUsers)] = row]
    <3>1. v # Pick(FreeUsers)
      BY <2>2, FreeUnknown
    <3> QED BY <1>1, <2>2, <3>1 DEF CreateUser, Inv, Typed
  <2> QED BY <1>1, <2>1, <2>2 DEF CreateUser
<1>2. ASSUME NEW r \in Requests, VerifyLinked(r)
      PROVE  (user[v].password => user'[v].password) /\ UNCHANGED identity
  <2> DEFINE w == req[r].user
             row == [user[w] EXCEPT !.verified = TRUE]
  <2>1. w \in Users /\ user' = [user EXCEPT ![w] = row] /\ UNCHANGED identity
    BY <1>2 DEF VerifyLinked, Written, Inv, RequestOK, Fits
  <2>2. row.password = user[w].password
    BY <2>1, Zenon DEF Inv, Typed, User
  <2> HIDE DEF row
  <2> QED BY <2>1, <2>2 DEF Inv, Typed
<1>3. ASSUME NEW r \in Requests, Refresh(r)
      PROVE  (user[v].password => user'[v].password) /\ UNCHANGED identity
  <2> DEFINE w == req[r].user
             row == Refreshed(r, user[w])
  <2>1. w \in Users /\ UNCHANGED identity
    BY <1>3 DEF Refresh, Inv, RequestOK, Fits
  <2>2. CASE UNCHANGED user
    BY <2>1, <2>2
  <2>3. CASE Written(r, row)
    <3>1. user[w].exists /\ user' = [user EXCEPT ![w] = row]
      BY <2>3 DEF Written
    <3>2. row.password = user[w].password
      BY <2>1, <3>1, RefreshedRow
    <3> HIDE DEF row
    <3> QED BY <2>1, <3>1, <3>2 DEF Inv, Typed
  <2> QED BY <1>3, <2>2, <2>3 DEF Refresh
<1>4. ASSUME NEW e \in Emails, SignUp(e)
      PROVE  user'[v] = user[v] /\ UNCHANGED identity
  <2>1. v # Pick(FreeUsers)
    BY <1>4, FreeUnknown DEF SignUp
  <2> QED BY <1>4, <2>1 DEF SignUp, Inv, Typed
<1>5. ASSUME NEW u \in Users, NEW e \in Emails, ConfirmEmail(u, e)
      PROVE  (user[v].password => user'[v].password) /\ UNCHANGED identity
  <2> DEFINE row == [user[u] EXCEPT !.verified = TRUE]
  <2>1. user' = [user EXCEPT ![u] = row] /\ UNCHANGED identity
    BY <1>5 DEF ConfirmEmail, Inv, Typed
  <2>2. row.password = user[u].password
    BY Zenon DEF Inv, Typed, User
  <2> HIDE DEF row
  <2> QED BY <2>1, <2>2 DEF Inv, Typed
<1>6. ASSUME NEW u \in Users, SetPassword(u)
      PROVE  (user[v].password => user'[v].password) /\ UNCHANGED identity
  <2>1. user[u].password = FALSE \/ v # u
    BY <1>6 DEF SetPassword
  <2>2. v # u => user'[v] = user[v]
    BY <1>6 DEF SetPassword, Inv, Typed
  <2> QED BY <1>6, <2>1, <2>2 DEF SetPassword
<1>7. ASSUME NEW u \in Users, NEW e \in Emails, EditEmail(u, e)
      PROVE  (user[v].password => user'[v].password) /\ UNCHANGED identity
  <2> DEFINE row == [user[u] EXCEPT !.email = e]
  <2>1. user' = [user EXCEPT ![u] = row] /\ UNCHANGED identity
    BY <1>7 DEF EditEmail, Inv, Typed
  <2>2. row.password = user[u].password
    BY Zenon DEF Inv, Typed, User
  <2> HIDE DEF row
  <2> QED BY <2>1, <2>2 DEF Inv, Typed
<1> QED BY <1>1, <1>2, <1>3, <1>4, <1>5, <1>6, <1>7 DEF RowWrites

(* An account that has a way in has one after the step, if it is there.    *)
LEMMA WayInKept ==
  ASSUME Inv, [Next]_vars, NEW v \in Users, HasWayIn(v), user'[v].exists
  PROVE  HasWayIn(v)'
<1>1. user[v].exists /\ (user[v].password \/ \E t \in Subjects : identity[t] = v)
  BY DEF HasWayIn, LinkedTo
<1> SUFFICES user'[v].password \/ \E t \in Subjects : identity'[t] = v
  BY DEF HasWayIn, LinkedTo
<1>2. CASE UNCHANGED <<user, identity>>
  BY <1>1, <1>2
<1>3. CASE RowWrites
  BY <1>1, <1>3, RowKeepsWays
<1>4. ASSUME NEW r \in Requests, CreateOAuthIdentity(r)
      PROVE  user'[v].password \/ \E t \in Subjects : identity'[t] = v
  <2>1. \A t \in Subjects : identity[t] = v => identity'[t] = v
    BY <1>4, NoneAssumption DEF CreateOAuthIdentity, Inv, Typed
  <2> QED BY <1>1, <1>4, <2>1 DEF CreateOAuthIdentity
<1>5. ASSUME NEW r \in Requests, DeleteOAuthIdentity(r)
      PROVE  user'[v].password \/ \E t \in Subjects : identity'[t] = v
  <2> DEFINE s == req[r].subject
  <2>1. UNCHANGED user
    BY <1>5 DEF DeleteOAuthIdentity
  <2>2. CASE UNCHANGED identity
    BY <1>1, <2>1, <2>2
  <2>3. CASE s # None /\ req[r].ok /\ identity' = [identity EXCEPT ![s] = None]
    <3>1. identity[s] = req[r].user /\ Spare(req[r].user, s) /\ s \in Subjects
      BY <1>5, <2>3 DEF DeleteOAuthIdentity, Inv, RequestOK, Fits, Typed, Request
    <3>2. \A t \in Subjects \ {s} : identity'[t] = identity[t]
      BY <2>3 DEF Inv, Typed
    <3> QED BY <1>1, <2>1, <3>1, <3>2 DEF Spare
  <2> QED BY <1>5, <2>2, <2>3 DEF DeleteOAuthIdentity
<1>6. ASSUME NEW u \in Users, DeleteUser(u)
      PROVE  user'[v].password \/ \E t \in Subjects : identity'[t] = v
  <2>1. v # u
    BY <1>6 DEF DeleteUser, NoUser, Inv, Typed
  <2> QED BY <1>1, <1>6, <2>1 DEF DeleteUser, Inv, Typed
<1> QED BY <1>2, <1>3, <1>4, <1>5, <1>6, WhoWrites

(* An account somebody can sign in to keeps a way in as long as it exists, *)
(* however many unlink its identities side by side.                        *)
THEOREM WayInStays == Spec => KeepsWayIn
<1>1. Inv /\ [Next]_vars =>
        [\A u \in Users : HasWayIn(u) /\ user'[u].exists => HasWayIn(u)']_vars
  BY WayInKept
<1> QED BY <1>1, Invariance, PTL DEF Spec, KeepsWayIn

(* Who links a subject: a request at the end of a flow of the account's.   *)
LEMMA LinkedOwn ==
  ASSUME Inv, [Next]_vars, NEW s \in Subjects, identity[s] = None, identity'[s] # None
  PROVE  \E r \in Requests :
           /\ pc[r] = "attach" /\ req[r].subject = s /\ req[r].user = identity'[s]
           /\ \/ req[r].op = "link" /\ req[r].actor = req[r].user
              \/ req[r].op = "sign-in" /\ req[r].ok
              \/ req[r].op = "sign-in" /\ req[r].vouches
                 /\ req[r].email \in vouched[req[r].user]
<1>1. CASE UNCHANGED <<user, identity>>
  BY <1>1
<1>2. CASE RowWrites
  <2>1. UNCHANGED identity
    BY <1>2 DEF RowWrites, CreateUser, VerifyLinked, Refresh, SignUp, ConfirmEmail, SetPassword,
       EditEmail
  <2> QED BY <2>1
<1>3. ASSUME NEW r \in Requests, DeleteOAuthIdentity(r) PROVE FALSE
  BY <1>3 DEF DeleteOAuthIdentity, Inv, Typed
<1>4. ASSUME NEW u \in Users, DeleteUser(u) PROVE FALSE
  BY <1>4 DEF DeleteUser
<1>5. ASSUME NEW r \in Requests, CreateOAuthIdentity(r)
      PROVE  /\ pc[r] = "attach" /\ req[r].subject = s /\ req[r].user = identity'[s]
             /\ \/ req[r].op = "link" /\ req[r].actor = req[r].user
                \/ req[r].op = "sign-in" /\ req[r].ok
                \/ req[r].op = "sign-in" /\ req[r].vouches
                   /\ req[r].email \in vouched[req[r].user]
  <2>1. /\ pc[r] = "attach" /\ user[req[r].user].exists
        /\ identity' = [identity EXCEPT ![req[r].subject] = req[r].user]
    BY <1>5 DEF CreateOAuthIdentity
  <2>2. req[r].subject = s /\ identity'[s] = req[r].user
    BY <2>1 DEF Inv, Typed
  <2>3. Fits(r, "attach", req[r])
    BY <2>1 DEF Inv, RequestOK
  <2> QED BY <2>1, <2>2, <2>3 DEF Fits
<1> QED BY <1>1, <1>2, <1>3, <1>4, <1>5, WhoWrites

(* A subject is linked only to an account that was created for it, that    *)
(* asked for it in the browser that came back, or that had confirmed the   *)
(* address the issuer vouches for, whatever happened in between.           *)
THEOREM LinkedOnlyByOwner == Spec => LinkedByOwner
<1>1. Inv /\ [Next]_vars =>
        [\A s \in Subjects :
           identity[s] = None /\ identity'[s] # None =>
             \E r \in Requests :
               /\ pc[r] = "attach" /\ req[r].subject = s /\ req[r].user = identity'[s]
               /\ \/ req[r].op = "link" /\ req[r].actor = req[r].user
                  \/ req[r].op = "sign-in" /\ req[r].ok
                  \/ req[r].op = "sign-in" /\ req[r].vouches
                     /\ req[r].email \in vouched[req[r].user]]_vars
  BY LinkedOwn
<1> QED BY <1>1, Invariance, PTL DEF Spec, LinkedByOwner
-----------------------------------------------------------------------------
(* The row lock of DeleteOAuthIdentity (SELECT ... FOR UPDATE): a row is   *)
(* locked by a request exactly while that request deletes one of the row's *)
(* identities, so no answer, error or crash leaves a lock behind that would*)
(* keep links, refreshes and deletions waiting, and no request ever waits  *)
(* for one row with another row in its hands.                              *)
LockAccounted ==
  \A r \in Requests, u \in Users : lock[u] = r <=> pc[r] = "delete" /\ req[r].user = u

(* Whoever has locked a row is deleting one of its identities.             *)
HolderOK ==
  \A u \in Users : lock[u] # None => pc[lock[u]] = "delete" /\ req[lock[u]].user = u

(* A request that deletes is not disturbed by the others.                  *)
Undisturbed(q) == pc[q] = "delete" => pc'[q] = "delete" /\ req'[q].user = req[q].user

(* Nobody locks or unlocks a row.                                          *)
LEMMA HoldersRest ==
  ASSUME Inv, HolderOK, UNCHANGED lock, \A q \in Requests : Undisturbed(q)
  PROVE  HolderOK'
BY DEF Inv, Typed, HolderOK, Undisturbed

(* One request moves that deletes nothing.                                 *)
Alone(r) ==
  /\ lock' = lock /\ pc[r] # "delete"
  /\ \E step : Goto(r, step)
  /\ \A q \in Requests \ {r} : req'[q].user = req[q].user

(* It disturbs no request that deletes.                                    *)
LEMMA AloneUndisturbed ==
  ASSUME Inv, NEW r \in Requests, Alone(r)
  PROVE  lock' = lock /\ \A q \in Requests : Undisturbed(q)
BY DEF Inv, Typed, Goto, Undisturbed, Alone

(* The callback, up to the account that it finds or creates.               *)
LEMMA CallbackUndisturbed ==
  ASSUME Inv, NEW r \in Requests,
         \/ \E b \in Browsers : Callback(r, b)
         \/ ConsumeOAuthState(r) \/ FindOAuthIdentity(r) \/ FindUserByEmail(r) \/ CreateUser(r)
  PROVE  Alone(r)
<1>t. req \in [Requests -> Request]
  BY DEF Inv, Typed
<1>1. CASE \E b \in Browsers : Callback(r, b)
  <2>1. PICK b \in Browsers : Callback(r, b)
    BY <1>1
  <2>2. lock' = lock /\ pc[r] = "idle" /\ Goto(r, "consume")
    BY <2>1, Zenon DEF Callback
  <2>3. \E x : req' = [req EXCEPT ![r] = x]
    BY <2>1, Zenon DEF Callback
  <2> QED BY <2>2, <2>3, <1>t DEF Alone
<1>2. CASE ConsumeOAuthState(r)
  <2>1. lock' = lock /\ pc[r] # "delete" /\ \E step : Goto(r, step)
    BY <1>2 DEF ConsumeOAuthState, End
  <2>2. \E x : req' = [req EXCEPT ![r] = x]
    BY <1>2, Zenon DEF ConsumeOAuthState, End
  <2> QED BY <2>1, <2>2, <1>t DEF Alone
<1>3. CASE FindOAuthIdentity(r)
  <2>1. lock' = lock /\ pc[r] # "delete"
    BY <1>3 DEF FindOAuthIdentity
  <2>2. PICK p \in Profiles :
          LET s == p.subject
              known == [req EXCEPT ![r].subject = s, ![r].email = p.email, ![r].vouches = p.vouches]
          IN  \/ Goto(r, "owner") /\ req' = known
              \/ /\ Goto(r, "owner")
                 /\ req' = [known EXCEPT ![r].user = identity[s], ![r].subject = None]
              \/ ToSession(r, identity[s])
              \/ Goto(r, IF p.email = None THEN "create" ELSE "lookup") /\ req' = known
              \/ End(r)
    BY <1>3, Zenon DEF FindOAuthIdentity
  <2>3. \E step : Goto(r, step)
    BY <2>2 DEF ToSession, End
  <2>4. \A q \in Requests \ {r} : req'[q] = req[q]
    BY <2>2, <1>t DEF ToSession, End
  <2> QED BY <2>1, <2>3, <2>4 DEF Alone
<1>4. CASE FindUserByEmail(r)
  <2>1. lock' = lock /\ pc[r] # "delete" /\ \E step : Goto(r, step)
    BY <1>4 DEF FindUserByEmail, End
  <2>2. \A q \in Requests \ {r} : req'[q] = req[q]
    BY <1>4, <1>t DEF FindUserByEmail, End
  <2> QED BY <2>1, <2>2 DEF Alone
<1>5. CASE CreateUser(r)
  <2>1. lock' = lock /\ pc[r] # "delete" /\ \E step : Goto(r, step)
    BY <1>5 DEF CreateUser, End
  <2>2. \A q \in Requests \ {r} : req'[q] = req[q]
    BY <1>5, <1>t DEF CreateUser, End
  <2> QED BY <2>1, <2>2 DEF Alone
<1> QED BY <1>1, <1>2, <1>3, <1>4, <1>5

(* From the account to the session, and the first steps of Unlink.         *)
LEMMA AccountUndisturbed ==
  ASSUME Inv, NEW r \in Requests,
         \/ FindUserByID(r) \/ CreateOAuthIdentity(r) \/ VerifyLinked(r) \/ Refresh(r)
         \/ CreateSession(r) \/ UnlinkIdentity(r) \/ RemoveIdentity(r) \/ ListOAuthIdentities(r)
  PROVE  Alone(r)
<1>t. req \in [Requests -> Request]
  BY DEF Inv, Typed
<1>1. CASE FindUserByID(r)
  <2>1. lock' = lock /\ pc[r] # "delete" /\ \E step : Goto(r, step)
    BY <1>1 DEF FindUserByID, End, ToSession
  <2>2. \A q \in Requests \ {r} : req'[q] = req[q]
    BY <1>1, <1>t DEF FindUserByID, End, ToSession
  <2> QED BY <2>1, <2>2 DEF Alone
<1>2. CASE CreateOAuthIdentity(r)
  <2>1. lock' = lock /\ pc[r] # "delete" /\ \E step : Goto(r, step)
    BY <1>2 DEF CreateOAuthIdentity, End, ToSession
  <2>2. \A q \in Requests \ {r} : req'[q] = req[q]
    BY <1>2, <1>t DEF CreateOAuthIdentity, End, ToSession
  <2> QED BY <2>1, <2>2 DEF Alone
<1>3. CASE VerifyLinked(r) \/ Refresh(r)
  <2>1. lock' = lock /\ pc[r] # "delete" /\ \E step : Goto(r, step)
    BY <1>3 DEF VerifyLinked, Refresh
  <2>2. req[r].user \in Users
    BY <1>3 DEF VerifyLinked, Refresh, Inv, RequestOK, Fits
  <2>3. \A q \in Requests \ {r} : req'[q] \in {req[q], Overtaken(req[r].user)[q]}
    <3>1. Overtaken(req[r].user) = [q \in Requests |-> Overtaken(req[r].user)[q]]
      BY DEF Overtaken
    <3>2. \E x : \/ req' = [Overtaken(req[r].user) EXCEPT ![r] = x]
                 \/ req' = [req EXCEPT ![r] = x]
      BY <1>3 DEF VerifyLinked, Refresh
    <3> QED BY <3>1, <3>2, <1>t
  <2> QED BY <2>1, <2>2, <2>3, OvertakenSame DEF Alone
<1>4. CASE CreateSession(r)
  BY <1>4, <1>t DEF CreateSession, End, Alone
<1>5. CASE UnlinkIdentity(r) \/ RemoveIdentity(r)
  <2>1. PICK s \in Subjects : Unlink(r, s)
    BY <1>5 DEF UnlinkIdentity, RemoveIdentity
  <2> QED BY <2>1, <1>t DEF Unlink, Alone
<1>6. CASE ListOAuthIdentities(r)
  BY <1>6, <1>t DEF ListOAuthIdentities, End, Alone
<1> QED BY <1>1, <1>2, <1>3, <1>4, <1>5, <1>6

(* The steps of everybody else.                                            *)
LEMMA OthersUndisturbed ==
  ASSUME Inv,
         \/ \E b \in Browsers : Start(b) \/ StartLink(b) \/ SignOut(b)
         \/ \E e \in Emails : SignUp(e)
         \/ \E u \in Users :
              \/ SetPassword(u) \/ DeleteUser(u)
              \/ \E e \in Emails : ConfirmEmail(u, e) \/ EditEmail(u, e)
              \/ \E b \in Browsers : SignInWithPassword(b, u)
         \/ UNCHANGED vars
  PROVE  lock' = lock /\ \A q \in Requests : Undisturbed(q)
<1>1. CASE \/ \E b \in Browsers : Start(b) \/ StartLink(b) \/ SignOut(b)
           \/ \E e \in Emails : SignUp(e)
           \/ \E u \in Users, b \in Browsers : SignInWithPassword(b, u)
           \/ UNCHANGED vars
  <2>1. UNCHANGED <<lock, pc, req>>
    BY <1>1 DEF Start, StartLink, Opened, SignOut, SignUp, SignInWithPassword, vars
  <2> QED BY <2>1 DEF Undisturbed
<1>2. ASSUME NEW u \in Users,
             SetPassword(u) \/ \E e \in Emails : ConfirmEmail(u, e) \/ EditEmail(u, e)
      PROVE  lock' = lock /\ \A q \in Requests : Undisturbed(q)
  <2>1. UNCHANGED <<lock, pc>> /\ req' = Overtaken(u)
    BY <1>2 DEF ConfirmEmail, SetPassword, EditEmail
  <2> QED BY <1>2, <2>1, OvertakenSame DEF Undisturbed
<1>3. ASSUME NEW u \in Users, DeleteUser(u)
      PROVE  lock' = lock /\ \A q \in Requests : Undisturbed(q)
  <2>1. UNCHANGED <<lock, pc>>
    BY <1>3 DEF DeleteUser
  <2> QED BY <1>3, <2>1, DeletedSame DEF Undisturbed, Carries
<1> QED BY <1>1, <1>2, <1>3

(* The transaction takes the lock of the row whose identities it counts.   *)
LEMMA CountHolds ==
  ASSUME Inv, HolderOK, NEW r \in Requests, CountIdentities(r)
  PROVE  HolderOK'
<1>1. /\ pc[r] = "lock" /\ pc'[r] = "delete" /\ \A q \in Requests \ {r} : pc'[q] = pc[q]
      /\ lock' = [lock EXCEPT ![req[r].user] = r]
  BY DEF CountIdentities, Goto, Inv, Typed
<1>2. \A q \in Requests : req'[q].user = req[q].user
  BY DEF CountIdentities, Inv, Typed, Request
<1> QED BY <1>1, <1>2 DEF HolderOK, Inv, Typed

(* A transaction that ends, either way, gives up its lock.                 *)
LEMMA EndReleases ==
  ASSUME Inv, HolderOK, NEW r \in Requests, DeleteOAuthIdentity(r) \/ GiveUp(r)
  PROVE  HolderOK'
<1>1. lock' = Unlocked(r) /\ \A q \in Requests \ {r} : pc'[q] = pc[q]
  BY DEF DeleteOAuthIdentity, GiveUp, End, Goto, Inv, Typed
<1>2. ASSUME NEW q \in Requests \ {r} PROVE req'[q].user = req[q].user
  <2>1. \/ req'[q] = req[q]
        \/ req'[q] = [req[q] EXCEPT !.subject = None]
    BY DEF DeleteOAuthIdentity, GiveUp, End, Inv, Typed
  <2> QED BY <2>1 DEF Inv, Typed, Request
<1>3. \A u \in Users : lock'[u] # None => lock'[u] = lock[u] /\ lock[u] \in Requests \ {r}
  BY <1>1 DEF Unlocked, Inv, Typed
<1> QED BY <1>1, <1>2, <1>3 DEF HolderOK

(* Any step at all.                                                        *)
LEMMA HoldersNext == Inv /\ HolderOK /\ [Next]_vars => HolderOK'
BY CallbackUndisturbed, AccountUndisturbed, AloneUndisturbed, OthersUndisturbed, HoldersRest,
   CountHolds, EndReleases DEF Next

(* A row is locked by a request exactly while the request deletes one of   *)
(* its identities, whatever fails or stops on the way (Unlink,             *)
(* DeleteOAuthIdentity).                                                   *)
THEOREM LockReleased == Spec => []LockAccounted
<1>1. Init => HolderOK
  BY DEF Init, HolderOK
<1>2. Inv /\ HolderOK => LockAccounted
  <2> SUFFICES ASSUME Inv, HolderOK, NEW r \in Requests, NEW u \in Users
               PROVE  lock[u] = r <=> pc[r] = "delete" /\ req[r].user = u
    BY DEF LockAccounted
  <2>1. lock[u] = r => pc[r] = "delete" /\ req[r].user = u
    BY NoneAssumption DEF HolderOK
  <2>2. pc[r] = "delete" => lock[req[r].user] = r
    BY DEF Inv, RequestOK, Fits
  <2> QED BY <2>1, <2>2
<1> QED BY Invariance, HoldersNext, <1>1, <1>2, PTL DEF Spec
=============================================================================
