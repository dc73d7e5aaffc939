----------------------------- MODULE RateLimiter -----------------------------
(***************************************************************************)
(* The fixed-window limiters in front of sign-in, sign-up, the mailed      *)
(* links, joining and guests, over either store: the table every instance  *)
(* shares, which the application wires, and the process's own bounded map. *)
(* A limiter (a scope) has its own budgets; in the map it has its own      *)
(* capacity too.                                                           *)
(*                                                                         *)
(* A request reads the clock before its hit reaches the store, so hits     *)
(* arrive with old stamps and out of order; the store's deadline bounds    *)
(* how old.  Only differences of times matter, so a time is kept as its    *)
(* age, which grows with the clock until it makes no difference.           *)
(***************************************************************************)
EXTENDS Integers, FiniteSets

CONSTANTS
  Names,            \* what one account signs in with: its e-mail, its username
  Email,            \* the e-mail among them
  Origins,          \* client networks
  Budgets,          \* the single budgets in use, a subset of AllBudgets
  Requests,         \* request slots
  Stores,           \* the stores explored: "memory", "postgres"
  Limit,            \* attempts per window, for each scope
  Window,           \* length of a window
  StoreTimeout,     \* rateLimitStoreTimeout
  MaxKeys,          \* keys a limiter keeps in memory
  MaxHits,          \* bound: hits the history holds
  MaxCount(_, _),   \* bound: how far a key is counted while one is watched
  None              \* a name that is no sign-in identifier

Scopes == {"signin", "guest", "confirmation", "password-reset", "group-join"}

ASSUME NamesAssumption == Email \in Names /\ None \notin Origins \cup Names
ASSUME LimitAssumption == Limit \in [Scopes -> Nat \ {0}]
ASSUME TimesAssumption ==
  Window \in Nat /\ StoreTimeout \in Nat \ {0} /\ StoreTimeout < Window
ASSUME MaxKeysAssumption == MaxKeys \in Nat \ {0} /\ MaxHits \in Nat
ASSUME StoresAssumption == Stores \subseteq {"memory", "postgres"}

-----------------------------------------------------------------------------
(* A budget is an action and the dimension it is counted by.               *)
IdentifierKey(n) == <<"signin.identifier", n>>
OriginKey(o) == <<"signin.origin", o>>
SignUpKey(o) == <<"signup.origin", o>>
ResetKey(n) == <<"password.reset", n>>
ResendKey(n) == <<"confirmation.resend", n>>
JoinKey(n) == <<"group.join", n>>
CreateGuestKey(o) == <<"guest.create", o>>
RedeemGuestKey(o) == <<"guest.redeem", o>>

AllBudgets ==
  (UNION {{SignUpKey(o), CreateGuestKey(o), RedeemGuestKey(o)} : o \in Origins})
    \cup {ResetKey(Email), ResendKey(Email), JoinKey(Email)}

ASSUME BudgetsAssumption == Budgets \subseteq AllBudgets

Keys == {IdentifierKey(n) : n \in Names} \cup {OriginKey(o) : o \in Origins} \cup Budgets

(* The limiter each action is counted by.                                  *)
Scope(k) ==
  CASE k[1] \in {"signin.identifier", "signin.origin", "signup.origin"} -> "signin"
    [] k[1] \in {"guest.create", "guest.redeem"} -> "guest"
    [] k[1] = "confirmation.resend" -> "confirmation"
    [] k[1] = "password.reset" -> "password-reset"
    [] k[1] = "group.join" -> "group-join"

VARIABLES
  store,     \* the store in use, fixed when the application is composed
  buckets,   \* each key's window; count 0 is no row
  pc,        \* the step each request takes next
  req,       \* what each request asks for and has read
  watched,   \* the key the history is kept of; any of them
  hits,      \* history: its hits since it was last cleared, refused ones left out
  left       \* history: time until that key opens again once its budget is spent

vars == <<store, buckets, pc, req, watched, hits, left>>

(* From this age on nothing can be told apart.                             *)
Old == Window + StoreTimeout

Bucket == [count : Nat, age : 0..Old]

(* Hits of one instant and one outcome are numbered.                       *)
Hit == [age : 0..Old, outcome : {"allowed", "lost"}, n : 1..MaxHits]

Steps == {"idle", "origin", "identifier", "budget", "signIn", "signedIn"}
Request == [key : Keys \cup {None}, name : Names \cup {None}, origin : Origins \cup {None},
            age : 0..StoreTimeout]

NoBucket == [count |-> 0, age |-> 0]
NoRequest == [key |-> None, name |-> None, origin |-> None, age |-> 0]

Init ==
  /\ store \in Stores
  /\ buckets = [k \in Keys |-> NoBucket]
  /\ pc = [r \in Requests |-> "idle"]
  /\ req = [r \in Requests |-> NoRequest]
  /\ watched \in Keys
  /\ hits = {}
  /\ left = 0

-----------------------------------------------------------------------------
Goto(r, step) == pc' = [pc EXCEPT ![r] = step]

End(r) ==
  /\ Goto(r, "idle")
  /\ req' = [req EXCEPT ![r] = NoRequest]

(* A window still counts at the instant it ends.                           *)
ExpiredLate(b, t) == b.count > 0 /\ b.age - t > Window

(* The two stores' hits.  A window is over when its end is not after the   *)
(* hit's own time, which is t ago.                                         *)
Expired(b, t) == b.count > 0 /\ b.age - t >= Window

(* The count starts again and the window does not.                         *)
CountedKeepingStart(b, t) ==
  IF b.count = 0 THEN [count |-> 1, age |-> t]
  ELSE [b EXCEPT !.count = IF Expired(b, t) THEN 1 ELSE @ + 1]

Counted(b, t) ==
  IF b.count = 0 \/ Expired(b, t) THEN [count |-> 1, age |-> t]
  ELSE [b EXCEPT !.count = @ + 1]

PostgresHit(k, t) == {[buckets EXCEPT ![k] = Counted(@, t)]}

PruneExpired(scope, t) ==
  [k \in Keys |-> IF Scope(k) = scope /\ Expired(buckets[k], t) THEN NoBucket ELSE buckets[k]]

Held(table, scope) == {k \in Keys : Scope(k) = scope /\ table[k].count > 0}

(* The oldest key goes, spent or not.                                      *)
EvictOldest(table, scope) ==
  {[table EXCEPT ![k] = NoBucket] :
     k \in {j \in Held(table, scope) : \A i \in Held(table, scope) : table[j].age >= table[i].age}}

(* Which of several equally old keys goes is up to the map's order; with   *)
(* none to evict there is no outcome.                                      *)
EvictOldestUnblocked(table, scope) ==
  LET open == {k \in Held(table, scope) : table[k].count < Limit[scope]}
  IN  {[table EXCEPT ![k] = NoBucket] :
         k \in {j \in open : \A i \in open : table[j].age >= table[i].age}}

(* Room is not looked for.                                                 *)
MemoryHitUnbounded(k, t) == {[PruneExpired(Scope(k), t) EXCEPT ![k] = Counted(@, t)]}

MemoryHit(k, t) ==
  LET table == PruneExpired(Scope(k), t)
      full == table[k].count = 0 /\ Cardinality(Held(table, Scope(k))) >= MaxKeys
  IN  {[room EXCEPT ![k] = Counted(@, t)] :
         room \in IF full THEN EvictOldestUnblocked(table, Scope(k)) ELSE {table}}

HitOutcomes(k, t) == IF store = "postgres" THEN PostgresHit(k, t) ELSE MemoryHit(k, t)

-----------------------------------------------------------------------------
(* Requests arrive; the clock is read as the first Allow begins.           *)
Start(r, step, key, name, origin) ==
  /\ pc[r] = "idle"
  /\ Goto(r, step)
  /\ req' = [req EXCEPT ![r] = [key |-> key, name |-> name, origin |-> origin, age |-> 0]]
  /\ UNCHANGED <<store, buckets, watched, hits, left>>

SignInRequest(r) ==
  \E n \in Names \cup {None}, o \in Origins :
    Start(r, "origin", OriginKey(o), n, o)

BudgetRequest(r) == \E k \in Budgets : Start(r, "budget", k, None, None)

-----------------------------------------------------------------------------
(* Where a request goes once a budget has let it in: the second budget     *)
(* reads the clock again; a name that is no identifier has none and is     *)
(* turned away by SignInService.                                           *)
Allowed(r) ==
  \/ /\ pc[r] = "origin" /\ req[r].name # None
     /\ Goto(r, "identifier")
     /\ req' = [req EXCEPT ![r].key = IdentifierKey(req[r].name), ![r].age = 0]
  \/ /\ pc[r] = "identifier"
     /\ Goto(r, "signIn")
     /\ req' = [req EXCEPT ![r].key = None, ![r].age = 0]
  \/ /\ pc[r] = "budget" \/ (pc[r] = "origin" /\ req[r].name = None)
     /\ End(r)

(* The bounds on hits.                                                     *)
HitRoom(k, t) ==
  /\ buckets[k].count < MaxCount(k, watched) \/ Expired(buckets[k], t)
  /\ k = watched => Cardinality(hits) < MaxHits

Record(k, outcome) ==
  LET hit(n) == [age |-> 0, outcome |-> outcome, n |-> n]
  IN  IF k # watched THEN UNCHANGED hits
      ELSE \E n \in 1..MaxHits :
             /\ hit(n) \notin hits /\ \A m \in 1..(n - 1) : hit(m) \in hits
             /\ hits' = hits \cup {hit(n)}

(* What is left of a window.                                               *)
Remaining(b) == IF b.age < Window THEN Window - b.age ELSE 0

(* Allow: one hit, compared with the limit.  The table's answer arrives    *)
(* within the deadline or not at all.                                      *)
Allow(r) ==
  /\ pc[r] \in {"origin", "identifier", "budget"}
  /\ LET k == req[r].key
         allowed == buckets'[k].count <= Limit[Scope(k)]
     IN  /\ HitRoom(k, req[r].age)
         /\ buckets' \in HitOutcomes(k, req[r].age)
         /\ IF allowed THEN Record(k, "allowed") ELSE UNCHANGED hits
         /\ left' = IF k = watched /\ buckets'[k].count >= Limit[Scope(k)]
                    THEN Remaining(buckets'[k]) ELSE left
         /\ IF allowed THEN Allowed(r) ELSE End(r)
  /\ UNCHANGED <<store, watched>>

(* The statement fails, or it took effect and its answer was lost.  A full *)
(* map refuses the hit.                                                    *)
AllowFails(r) ==
  /\ pc[r] \in {"origin", "identifier", "budget"}
  /\ LET k == req[r].key
     IN  \/ /\ \/ store = "postgres"
               \/ HitOutcomes(k, req[r].age) = {}
            /\ UNCHANGED <<buckets, hits>>
         \/ /\ store = "postgres"
            /\ HitRoom(k, req[r].age)
            /\ buckets' \in HitOutcomes(k, req[r].age)
            /\ Record(k, "lost")
  /\ End(r)
  /\ UNCHANGED <<store, watched, left>>

-----------------------------------------------------------------------------
(* What every Clear does, whichever its keys.                              *)
Clear(keys) ==
  /\ buckets' = [k \in Keys |-> IF k \in keys THEN NoBucket ELSE buckets[k]]
  /\ hits' = IF watched \in keys THEN {} ELSE hits
  /\ left' = IF watched \in keys THEN 0 ELSE left

(* SignInService.SignIn failed, or the first Clear did.                    *)
SignInFails(r) ==
  /\ pc[r] = "signIn"
  /\ End(r)
  /\ UNCHANGED <<store, buckets, watched, hits, left>>

(* A success clears the origin's budget, then the identifier's; without    *)
(* the second the visitor gets an error and has a session.                 *)
SignIn(r) ==
  /\ pc[r] = "signIn"
  /\ Clear({OriginKey(req[r].origin)})
  /\ Goto(r, "signedIn")
  /\ UNCHANGED <<store, req, watched>>

ClearIdentifier(r) ==
  /\ pc[r] = "signedIn"
  /\ \/ Clear({IdentifierKey(req[r].name)})
     \/ store = "postgres" /\ UNCHANGED <<buckets, hits, left>>
  /\ End(r)
  /\ UNCHANGED <<store, watched>>

(* The administrator's clears are loops of single statements, any of which *)
(* may be the last: each is an action.  Lockout.Clear takes the account's  *)
(* names, then origins of attempts recorded under its e-mail, which the    *)
(* best-effort record may hold or not.                                     *)
LockoutClear ==
  /\ \E k \in {IdentifierKey(n) : n \in Names} \cup {OriginKey(o) : o \in Origins} :
       buckets[k].count > 0 /\ Clear({k})
  /\ UNCHANGED <<store, pc, req, watched>>

(* RateLimitAdminService.ClearAction, for an action with a live window.    *)
ClearAction ==
  /\ \E k \in Keys :
       /\ buckets[k].count > 0 /\ ~Expired(buckets[k], 0)
       /\ Clear({j \in Keys : j[1] = k[1]})
  /\ UNCHANGED <<store, pc, req, watched>>

(* RateLimitAdminService.ClearAll, one limiter's turn.                     *)
ClearAll ==
  /\ \E scope \in {Scope(k) : k \in Keys} : Clear({k \in Keys : Scope(k) = scope})
  /\ UNCHANGED <<store, pc, req, watched>>

(* The maintenance job, over every scope; windows that are over are        *)
(* already ignored.                                                        *)
DeleteExpired ==
  /\ store = "postgres"
  /\ \E k \in Keys : Expired(buckets[k], 0)
  /\ buckets' = [k \in Keys |-> IF Expired(buckets[k], 0) THEN NoBucket ELSE buckets[k]]
  /\ UNCHANGED <<store, pc, req, watched, hits, left>>

(* The process ends and another takes its place: the table stays.          *)
Restart ==
  /\ IF store = "memory" THEN Clear(Keys) ELSE UNCHANGED <<buckets, hits, left>>
  /\ pc' = [r \in Requests |-> "idle"]
  /\ req' = [r \in Requests |-> NoRequest]
  /\ UNCHANGED <<store, watched>>

(* Time passes, up to the deadline of a hit under way.                     *)
Older(age) == IF age = Old THEN Old ELSE age + 1

Tick ==
  /\ \A r \in Requests : req[r].age < StoreTimeout
  /\ req' = [r \in Requests |->
               IF req[r].key = None THEN req[r] ELSE [req[r] EXCEPT !.age = @ + 1]]
  /\ buckets' = [k \in Keys |->
                   IF buckets[k].count = 0 THEN NoBucket ELSE [buckets[k] EXCEPT !.age = Older(@)]]
  /\ hits' = {[h EXCEPT !.age = @ + 1] : h \in {h \in hits : h.age + 1 < Old}}
  /\ left' = IF left = 0 THEN 0 ELSE left - 1
  /\ UNCHANGED <<store, pc, watched>>

Next ==
  \/ \E r \in Requests :
       \/ SignInRequest(r) \/ BudgetRequest(r)
       \/ Allow(r) \/ AllowFails(r)
       \/ SignInFails(r) \/ SignIn(r) \/ ClearIdentifier(r)
  \/ LockoutClear \/ ClearAction \/ ClearAll
  \/ DeleteExpired \/ Restart \/ Tick

Spec == Init /\ [][Next]_vars

(* Windows that are over are shown.                                        *)
SnapshotStale(k) ==
  IF buckets[k].count > Limit[Scope(k)] THEN Limit[Scope(k)] ELSE buckets[k].count

-----------------------------------------------------------------------------
(* What the administrator's pages show of a key: Snapshot's count, capped, *)
(* and whether Actions, LockedCount and Status call it locked.             *)
Snapshot(k) ==
  IF Expired(buckets[k], 0) THEN 0
  ELSE IF buckets[k].count > Limit[Scope(k)] THEN Limit[Scope(k)] ELSE buckets[k].count

Locked(k) == Snapshot(k) >= Limit[Scope(k)]

-----------------------------------------------------------------------------
(* Every window and request has its type, and a limiter in memory holds no *)
(* more keys than it may, evicting included (rate_limit_memory.go).        *)
TypeOK ==
  /\ store \in Stores
  /\ buckets \in [Keys -> Bucket]
  /\ pc \in [Requests -> Steps]
  /\ req \in [Requests -> Request]
  /\ watched \in Keys
  /\ hits \subseteq Hit
  /\ left \in 0..Window
  /\ store = "memory" => \A scope \in Scopes : Cardinality(Held(buckets, scope)) <= MaxKeys

(* Over the shared table no key is admitted more than twice its limit in   *)
(* any span of a window less the store's deadline, whatever the order of   *)
(* the hits, restarts and the maintenance job's deletions, unless it is    *)
(* cleared (RateLimiter.Allow over RateLimitStore.Hit).                    *)
TwoWindowBound ==
  store = "postgres" =>
    Cardinality({h \in hits : h.outcome = "allowed" /\ h.age < Window - StoreTimeout})
      <= 2 * Limit[Scope(watched)]

(* This step answered a hit on the watched key: a refusal is counted and   *)
(* not in the history.                                                     *)
Admits == \E h \in hits' \ hits : h.age = 0 /\ h.outcome = "allowed"
Refuses == buckets'[watched].count > buckets[watched].count /\ hits' = hits

(* A spent budget stays spent until its window ends, the time a refusal    *)
(* tells in RetryAfter: nobody is admitted on the key before, in memory    *)
(* even when the map is full, unless the key is cleared                    *)
(* (memoryRateLimitStore.evictOldestUnblocked, Allow).                     *)
SpentBudgetHolds == [][Admits => left = 0]_vars

(* A caller is refused on the budget of its key only after the key let in, *)
(* or lost the answer of, its limit's worth of hits within one window      *)
(* before the caller's own time: other keys' hits, windows that are over   *)
(* and attempts that were refused never spend a budget                     *)
(* (RateLimitStore.Hit, memoryRateLimitStore.Hit).  Not every caller turned*)
(* away is refused on a budget: a memory map full of blocked keys turns a  *)
(* new key away with an error (ErrRateLimitCapacity, AllowFails), and so   *)
(* does a database that fails.                                             *)
RefusedOnlyWhenSpent ==
  [][\A r \in Requests :
       pc'[r] # pc[r] /\ Refuses
         => Cardinality({h \in hits : h.age < req[r].age + Window})
              >= Limit[Scope(watched)]]_vars

(* A key the administrator sees as locked is one whose next attempt is     *)
(* refused, and no other is (Snapshot, LockedCount and Actions against     *)
(* Allow).                                                                 *)
LockedMeansRefused ==
  \A k \in Keys :
    LET outcomes == HitOutcomes(k, 0)
    IN  Locked(k) <=> outcomes # {} /\ \A b \in outcomes : b[k].count > Limit[Scope(k)]
=============================================================================
