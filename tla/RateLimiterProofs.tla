-------------------------- MODULE RateLimiterProofs --------------------------
(***************************************************************************)
(* For any keys, limits, windows, deadlines and number of requests, over   *)
(* either store.                                                           *)
(***************************************************************************)
EXTENDS RateLimiter, FiniteSetTheorems, TLAPS

(* Times, ages and limits are numbers, and a window outlasts the deadline. *)
LEMMA Numbers ==
  /\ Window \in Nat /\ StoreTimeout \in Nat /\ StoreTimeout < Window
  /\ Old = Window + StoreTimeout /\ Old \in Nat
  /\ MaxKeys \in Nat /\ MaxKeys > 0 /\ MaxHits \in Nat
BY TimesAssumption, MaxKeysAssumption DEF Old

(* Every key belongs to a limiter, which has a limit.                      *)
LEMMA KeyScope ==
  ASSUME NEW k \in Keys
  PROVE  Scope(k) \in Scopes /\ Limit[Scope(k)] \in Nat /\ Limit[Scope(k)] > 0
<1>1. Scope(k) \in Scopes
  <2>1. k[1] \in {"signin.identifier", "signin.origin", "signup.origin", "guest.create",
                  "guest.redeem", "confirmation.resend", "password.reset", "group.join"}
    <3>1. CASE k \in {IdentifierKey(n) : n \in Names}
      BY <3>1 DEF IdentifierKey
    <3>2. CASE k \in {OriginKey(o) : o \in Origins}
      BY <3>2 DEF OriginKey
    <3>3. CASE k \in AllBudgets
      <4>1. CASE k \in {ResetKey(Email), ResendKey(Email), JoinKey(Email)}
        BY <4>1 DEF ResetKey, ResendKey, JoinKey
      <4>2. CASE \E o \in Origins : k \in {SignUpKey(o), CreateGuestKey(o), RedeemGuestKey(o)}
        BY <4>2 DEF SignUpKey, CreateGuestKey, RedeemGuestKey
      <4>3. CASE k \in UNION {{SignUpKey(o), CreateGuestKey(o), RedeemGuestKey(o)} : o \in Origins}
        <5>1. PICK S \in {{SignUpKey(o), CreateGuestKey(o), RedeemGuestKey(o)} : o \in Origins} :
                k \in S
          BY <4>3, Zenon
        <5> QED BY <5>1, <4>2, Zenon
      <4> QED BY <3>3, <4>1, <4>3 DEF AllBudgets
    <3> QED BY <3>1, <3>2, <3>3, BudgetsAssumption DEF Keys
  <2> QED BY <2>1 DEF Scope, Scopes
<1> QED BY <1>1, LimitAssumption

(* The keys that requests are counted by.                                  *)
LEMMA OwnKeys ==
  /\ \A n \in Names : IdentifierKey(n) \in Keys
  /\ \A o \in Origins : OriginKey(o) \in Keys
  /\ Budgets \subseteq Keys
BY DEF Keys

(* An empty window and a free slot are well formed.                        *)
LEMMA EmptyType == NoBucket \in Bucket /\ NoRequest \in Request
BY Numbers DEF NoBucket, Bucket, NoRequest, Request

(* A counted window is a window.                                           *)
LEMMA CountedType ==
  ASSUME NEW b \in Bucket, NEW t \in 0..StoreTimeout
  PROVE  /\ Counted(b, t) \in Bucket /\ Counted(b, t).count > 0
         /\ b.count = 0 \/ Expired(b, t) =>
              Counted(b, t).count = 1 /\ Counted(b, t).age = t
         /\ ~(b.count = 0 \/ Expired(b, t)) =>
              Counted(b, t).count = b.count + 1 /\ Counted(b, t).age = b.age
<1>1. CASE b.count = 0 \/ Expired(b, t)
  BY <1>1, Numbers DEF Counted, Bucket
<1>2. CASE ~(b.count = 0 \/ Expired(b, t))
  BY <1>2, Numbers DEF Counted, Bucket
<1> QED BY <1>1, <1>2

-----------------------------------------------------------------------------
(* What one hit does to a table.                                           *)

(* The table after a hit t ago on k: that key counts it, and each other    *)
(* key is as it was or, in memory, dropped because its window is over or   *)
(* it is not spent.                                                        *)
HitTable(table, k, t) ==
  /\ table \in [Keys -> Bucket]
  /\ table[k] = Counted(buckets[k], t)
  /\ \A j \in Keys \ {k} :
       \/ table[j] = buckets[j]
       \/ /\ store # "postgres" /\ Scope(j) = Scope(k) /\ table[j] = NoBucket
          /\ Expired(buckets[j], t) \/ buckets[j].count < Limit[Scope(j)]

(* Both stores do that.                                                    *)
LEMMA HitEffect ==
  ASSUME buckets \in [Keys -> Bucket], NEW k \in Keys, NEW t \in 0..StoreTimeout,
         NEW table \in HitOutcomes(k, t)
  PROVE  HitTable(table, k, t)
<1>b. buckets[k] \in Bucket
  OBVIOUS
<1>c. Counted(buckets[k], t) \in Bucket
  BY <1>b, CountedType
<1>1. CASE store = "postgres"
  <2>1. table = [buckets EXCEPT ![k] = Counted(buckets[k], t)]
    BY <1>1 DEF HitOutcomes, PostgresHit
  <2> QED BY <2>1, <1>c DEF HitTable
<1>2. CASE store # "postgres"
  <2> DEFINE pruned == PruneExpired(Scope(k), t)
             full == pruned[k].count = 0 /\ Cardinality(Held(pruned, Scope(k))) >= MaxKeys
             rooms == IF full THEN EvictOldestUnblocked(pruned, Scope(k)) ELSE {pruned}
  <2>1. PICK room \in rooms : table = [room EXCEPT ![k] = Counted(@, t)]
    BY <1>2 DEF HitOutcomes, MemoryHit
  <2>2. /\ pruned \in [Keys -> Bucket]
        /\ \A j \in Keys : pruned[j] = IF Scope(j) = Scope(k) /\ Expired(buckets[j], t)
                                       THEN NoBucket ELSE buckets[j]
    BY EmptyType DEF PruneExpired
  <2>3. \/ room = pruned
        \/ \E e \in Held(pruned, Scope(k)) :
             /\ pruned[k].count = 0 /\ pruned[e].count < Limit[Scope(k)]
             /\ room = [pruned EXCEPT ![e] = NoBucket]
    BY <2>1 DEF EvictOldestUnblocked
  <2> HIDE DEF pruned, full, rooms
  <2>4. room \in [Keys -> Bucket] /\ room[k] = pruned[k]
    BY <2>2, <2>3, EmptyType DEF Held, Bucket
  <2>5. ASSUME NEW j \in Keys
        PROVE  \/ room[j] = buckets[j]
               \/ /\ Scope(j) = Scope(k) /\ room[j] = NoBucket
                  /\ Expired(buckets[j], t) \/ buckets[j].count < Limit[Scope(j)]
    BY <2>2, <2>3 DEF Held
  <2>6. Counted(room[k], t) = Counted(buckets[k], t)
    BY <2>2, <2>4 DEF Counted, NoBucket, Expired
  <2>7. table = [room EXCEPT ![k] = Counted(buckets[k], t)]
    BY <2>1, <2>4, <2>6
  <2> QED BY <1>2, <2>4, <2>5, <2>7, <1>c DEF HitTable
<1> QED BY <1>1, <1>2

(* A limiter in memory holds no more keys than it may.                     *)
WithinRoom(table) ==
  \A scope \in Scopes :
    IsFiniteSet(Held(table, scope)) /\ Cardinality(Held(table, scope)) <= MaxKeys

(* Fewer keys fit too.                                                     *)
LEMMA FewerFit ==
  ASSUME NEW table, NEW smaller, WithinRoom(table),
         \A k \in Keys : smaller[k].count > 0 => table[k].count > 0
  PROVE  WithinRoom(smaller)
<1> SUFFICES ASSUME NEW scope \in Scopes
             PROVE  /\ IsFiniteSet(Held(smaller, scope))
                    /\ Cardinality(Held(smaller, scope)) <= MaxKeys
  BY DEF WithinRoom
<1>1. Held(smaller, scope) \in SUBSET Held(table, scope)
  BY DEF Held
<1>2. IsFiniteSet(Held(table, scope)) /\ Cardinality(Held(table, scope)) <= MaxKeys
  BY DEF WithinRoom
<1>3. /\ IsFiniteSet(Held(smaller, scope))
      /\ Cardinality(Held(smaller, scope)) <= Cardinality(Held(table, scope))
  BY <1>1, <1>2, FS_Subset
<1>4. Cardinality(Held(smaller, scope)) \in Nat /\ Cardinality(Held(table, scope)) \in Nat
  BY <1>2, <1>3, FS_CardinalityType
<1> QED BY <1>2, <1>3, <1>4, Numbers

(* A hit in memory finds room or makes it.                                 *)
LEMMA HitFits ==
  ASSUME buckets \in [Keys -> Bucket], WithinRoom(buckets), store # "postgres",
         NEW k \in Keys, NEW t \in 0..StoreTimeout, NEW table \in HitOutcomes(k, t)
  PROVE  WithinRoom(table)
<1>e. HitTable(table, k, t)
  BY HitEffect
<1>s. Scope(k) \in Scopes
  BY KeyScope
<1> DEFINE pruned == PruneExpired(Scope(k), t)
           full == pruned[k].count = 0 /\ Cardinality(Held(pruned, Scope(k))) >= MaxKeys
           rooms == IF full THEN EvictOldestUnblocked(pruned, Scope(k)) ELSE {pruned}
<1>1. PICK room \in rooms : table = [room EXCEPT ![k] = Counted(@, t)]
  BY DEF HitOutcomes, MemoryHit
<1>2. pruned \in [Keys -> Bucket] /\ \A j \in Keys : pruned[j] \in {buckets[j], NoBucket}
  BY EmptyType DEF PruneExpired
<1>3. \/ ~full /\ room = pruned
      \/ full /\ \E e \in Held(pruned, Scope(k)) : room = [pruned EXCEPT ![e] = NoBucket]
  BY <1>1 DEF EvictOldestUnblocked
<1>4. WithinRoom(pruned)
  <2> HIDE DEF pruned
  <2>1. \A j \in Keys : pruned[j].count > 0 => buckets[j].count > 0
    BY <1>2 DEF NoBucket
  <2> QED BY <2>1, FewerFit
<1>5. full <=> pruned[k].count = 0 /\ Cardinality(Held(pruned, Scope(k))) >= MaxKeys
  OBVIOUS
<1> HIDE DEF pruned, full, rooms
<1>6. ASSUME NEW scope \in Scopes, scope # Scope(k)
      PROVE  Held(table, scope) = Held(buckets, scope)
  BY <1>e, <1>6 DEF HitTable, Held
<1>7. /\ IsFiniteSet(Held(table, Scope(k)))
      /\ Cardinality(Held(table, Scope(k))) <= MaxKeys
  <2> DEFINE H == Held(pruned, Scope(k))
             T == Held(table, Scope(k))
  <2>h. IsFiniteSet(H) /\ Cardinality(H) <= MaxKeys /\ Cardinality(H) \in Nat
    BY <1>4, <1>s, FS_CardinalityType DEF WithinRoom
  <2>t. table[k].count > 0 /\ \A j \in Keys \ {k} : table[j] = room[j]
    <3>1. room \in [Keys -> Bucket]
      BY <1>2, <1>3, EmptyType DEF Held
    <3>2. table[k].count > 0
      BY <1>e, CountedType DEF HitTable
    <3> QED BY <1>1, <3>1, <3>2
  <2>1. CASE ~full
    <3>1. T = H \cup {k}
      BY <1>3, <2>1, <2>t DEF Held
    <3>2. /\ IsFiniteSet(H \cup {k})
          /\ Cardinality(H \cup {k}) = IF k \in H THEN Cardinality(H) ELSE Cardinality(H) + 1
      <4> HIDE DEF H
      <4> QED BY <2>h, FS_AddElement
    <3>3. k \notin H => Cardinality(H) < MaxKeys
      BY <1>2, <1>5, <2>1, <2>h, Numbers DEF Held, Bucket
    <3> HIDE DEF H, T
    <3> QED BY <3>1, <3>2, <3>3, <2>h, Numbers DEF T
  <2>2. CASE full
    <3>1. PICK e \in H : room = [pruned EXCEPT ![e] = NoBucket]
      BY <1>3, <2>2
    <3>2. T = (H \ {e}) \cup {k}
      BY <1>2, <3>1, <2>t DEF Held, NoBucket
    <3>3. IsFiniteSet(H \ {e}) /\ Cardinality(H \ {e}) = Cardinality(H) - 1
      <4> HIDE DEF H
      <4> QED BY <2>h, FS_RemoveElement
    <3>4. /\ IsFiniteSet((H \ {e}) \cup {k})
          /\ Cardinality((H \ {e}) \cup {k}) \in {Cardinality(H \ {e}), Cardinality(H \ {e}) + 1}
      <4> HIDE DEF H
      <4> QED BY <3>3, FS_AddElement
    <3> HIDE DEF H, T
    <3> QED BY <3>2, <3>3, <3>4, <2>h, Numbers DEF T
  <2> QED BY <2>1, <2>2
<1> QED BY <1>6, <1>7 DEF WithinRoom

-----------------------------------------------------------------------------
(* Types                                                                   *)

(* What a request carries at each step.                                    *)
RequestOK(r) ==
  LET q == req[r]
  IN /\ pc[r] = "origin" => q.origin \in Origins /\ q.key = OriginKey(q.origin)
     /\ pc[r] = "identifier" =>
          q.origin \in Origins /\ q.name \in Names /\ q.key = IdentifierKey(q.name)
     /\ pc[r] = "budget" => q.key \in Budgets
     /\ pc[r] \in {"signIn", "signedIn"} => q.origin \in Origins /\ q.name \in Names

RequestsInv ==
  /\ pc \in [Requests -> Steps] /\ req \in [Requests -> Request]
  /\ \A r \in Requests : RequestOK(r)

TablesInv ==
  /\ store \in Stores /\ watched \in Keys
  /\ buckets \in [Keys -> Bucket]
  /\ hits \subseteq Hit /\ IsFiniteSet(hits)
  /\ left \in 0..Window
  /\ store = "memory" => WithinRoom(buckets)

TypeInv == TablesInv /\ RequestsInv

(* One request changes its slot.                                           *)
LEMMA SlotType ==
  ASSUME RequestsInv, NEW r \in Requests, NEW s \in Steps, NEW q \in Request,
         Goto(r, s), req' = [req EXCEPT ![r] = q], RequestOK(r)'
  PROVE  RequestsInv'
<1>1. pc' \in [Requests -> Steps] /\ req' \in [Requests -> Request]
  BY DEF RequestsInv, Goto
<1>2. ASSUME NEW p \in Requests, p # r PROVE RequestOK(p)'
  BY <1>2 DEF RequestsInv, RequestOK, Goto
<1> QED BY <1>1, <1>2 DEF RequestsInv

(* An answered request.                                                    *)
LEMMA EndType ==
  ASSUME RequestsInv, NEW r \in Requests, End(r) PROVE RequestsInv'
<1>1. pc'[r] = "idle"
  BY DEF RequestsInv, End, Goto
<1>2. RequestOK(r)'
  BY <1>1 DEF RequestOK
<1> QED BY <1>2, EmptyType, SlotType DEF End, Steps

(* A key a request is counted by is one of the keys.                       *)
LEMMA CountedKey ==
  ASSUME RequestsInv, NEW r \in Requests, pc[r] \in {"origin", "identifier", "budget"}
  PROVE  req[r].key \in Keys /\ req[r].age \in 0..StoreTimeout
<1>1. RequestOK(r) /\ req[r] \in Request
  BY DEF RequestsInv
<1> QED BY <1>1, OwnKeys DEF RequestOK, Request

(* Arrivals, and what an admitted request goes on to.                      *)
LEMMA ArrivalType ==
  ASSUME RequestsInv, NEW r \in Requests, SignInRequest(r) \/ BudgetRequest(r)
  PROVE  RequestsInv'
<1>1. ASSUME NEW n \in Names \cup {None}, NEW o \in Origins,
             Start(r, "origin", OriginKey(o), n, o)
      PROVE  RequestsInv'
  <2> DEFINE q == [key |-> OriginKey(o), name |-> n, origin |-> o, age |-> 0]
  <2>2. q \in Request /\ q.key = OriginKey(o) /\ q.origin = o
    BY OwnKeys, Numbers DEF Request
  <2>3. Goto(r, "origin") /\ req' = [req EXCEPT ![r] = q]
    BY <1>1 DEF Start
  <2> HIDE DEF q
  <2>4. RequestOK(r)'
    BY <2>2, <2>3 DEF RequestOK, RequestsInv, Goto
  <2> QED BY <2>2, <2>3, <2>4, SlotType DEF Steps
<1>2. ASSUME NEW k \in Budgets, Start(r, "budget", k, None, None)
      PROVE  RequestsInv'
  <2> DEFINE q == [key |-> k, name |-> None, origin |-> None, age |-> 0]
  <2>2. q \in Request /\ q.key = k
    BY OwnKeys, Numbers DEF Request
  <2>3. Goto(r, "budget") /\ req' = [req EXCEPT ![r] = q]
    BY <1>2 DEF Start
  <2> HIDE DEF q
  <2>4. RequestOK(r)'
    BY <2>2, <2>3 DEF RequestOK, RequestsInv, Goto
  <2> QED BY <2>2, <2>3, <2>4, SlotType DEF Steps
<1> QED BY <1>1, <1>2 DEF SignInRequest, BudgetRequest

(* So too for an admitted request.                                         *)
LEMMA AllowedType ==
  ASSUME RequestsInv, NEW r \in Requests, Allowed(r) PROVE RequestsInv'
<1>q. req[r] \in Request /\ RequestOK(r)
  BY DEF RequestsInv
<1>1. CASE pc[r] = "origin" /\ req[r].name # None /\ ~End(r)
  <2> DEFINE q1 == [req[r] EXCEPT !.key = IdentifierKey(req[r].name)]
             q == [q1 EXCEPT !.age = 0]
  <2>1. Goto(r, "identifier") /\ req' = [req EXCEPT ![r] = q]
    BY <1>1 DEF Allowed, RequestsInv
  <2>2. req[r].name \in Names /\ req[r].origin \in Origins
    BY <1>1, <1>q DEF Request, RequestOK
  <2>3. q \in Request /\ q.key = IdentifierKey(req[r].name) /\ q.name = req[r].name
        /\ q.origin = req[r].origin
    <3>1. q1 \in Request /\ q1.key = IdentifierKey(req[r].name) /\ q1.name = req[r].name
          /\ q1.origin = req[r].origin
      BY <2>2, <1>q, OwnKeys DEF Request
    <3> HIDE DEF q1
    <3> QED BY <3>1, Numbers DEF Request
  <2> HIDE DEF q
  <2>4. RequestOK(r)'
    BY <2>1, <2>2, <2>3 DEF RequestOK, RequestsInv, Goto
  <2> QED BY <2>1, <2>3, <2>4, SlotType DEF Steps
<1>2. CASE pc[r] = "identifier" /\ ~End(r)
  <2> DEFINE q1 == [req[r] EXCEPT !.key = None]
             q == [q1 EXCEPT !.age = 0]
  <2>1. Goto(r, "signIn") /\ req' = [req EXCEPT ![r] = q]
    BY <1>2 DEF Allowed, RequestsInv
  <2>2. req[r].name \in Names /\ req[r].origin \in Origins
    BY <1>2, <1>q DEF RequestOK
  <2>3. q \in Request /\ q.name = req[r].name /\ q.origin = req[r].origin
    <3>1. q1 \in Request /\ q1.name = req[r].name /\ q1.origin = req[r].origin
      BY <2>2, <1>q DEF Request
    <3> HIDE DEF q1
    <3> QED BY <3>1, Numbers DEF Request
  <2> HIDE DEF q
  <2>4. RequestOK(r)'
    BY <2>1, <2>2, <2>3 DEF RequestOK, RequestsInv, Goto
  <2> QED BY <2>1, <2>3, <2>4, SlotType DEF Steps
<1> QED BY <1>1, <1>2, EndType DEF Allowed

(* Every step leaves every request well formed.                            *)
LEMMA NextRequests ==
  ASSUME RequestsInv, [Next]_vars PROVE RequestsInv'
<1>1. CASE UNCHANGED <<pc, req>>
  BY <1>1 DEF RequestsInv, RequestOK
<1>2. ASSUME NEW r \in Requests, Allow(r) PROVE RequestsInv'
  BY <1>2, EndType, AllowedType DEF Allow
<1>3. ASSUME NEW r \in Requests, AllowFails(r) \/ SignInFails(r) \/ ClearIdentifier(r)
      PROVE  RequestsInv'
  BY <1>3, EndType DEF AllowFails, SignInFails, ClearIdentifier
<1>4. ASSUME NEW r \in Requests, SignIn(r) PROVE RequestsInv'
  <2>1. RequestOK(r)' /\ req' = [req EXCEPT ![r] = req[r]] /\ req[r] \in Request
    BY <1>4 DEF SignIn, RequestsInv, RequestOK, Goto
  <2> QED BY <1>4, <2>1, SlotType DEF SignIn, Steps
<1>5. CASE Restart
  BY <1>5, EmptyType DEF Restart, RequestsInv, RequestOK, Steps
<1>6. CASE Tick
  <2>1. \A r \in Requests :
          /\ req'[r] \in Request /\ req'[r].key = req[r].key
          /\ req'[r].name = req[r].name /\ req'[r].origin = req[r].origin
    <3> SUFFICES ASSUME NEW r \in Requests
                 PROVE  /\ req'[r] \in Request /\ req'[r].key = req[r].key
                        /\ req'[r].name = req[r].name /\ req'[r].origin = req[r].origin
      OBVIOUS
    <3>1. req[r] \in Request /\ req[r].age + 1 \in 0..StoreTimeout
      BY <1>6, Numbers DEF Tick, RequestsInv, Request
    <3>2. req'[r] = req[r] \/ req'[r] = [req[r] EXCEPT !.age = @ + 1]
      BY <1>6 DEF Tick
    <3> QED BY <3>1, <3>2 DEF Request
  <2>2. req' \in [Requests -> Request] /\ UNCHANGED pc
    BY <1>6, <2>1 DEF Tick
  <2> QED BY <2>1, <2>2 DEF RequestsInv, RequestOK
<1> QED BY <1>1, <1>2, <1>3, <1>4, <1>5, <1>6, ArrivalType
        DEF Next, LockoutClear, ClearAction, ClearAll, DeleteExpired, vars

-----------------------------------------------------------------------------
(* What a step does to the watched key, its history and its lock.          *)

Own == buckets[watched]
Cap == Limit[Scope(watched)]

(* A hit joins the history.                                                *)
Joins(h, outcome) ==
  /\ h \in Hit /\ h \notin hits /\ h.age = 0 /\ h.outcome = outcome
  /\ hits' = hits \cup {h}

Hits(t) ==
  /\ Own' = Counted(Own, t)
  /\ \/ /\ Own'.count <= Cap /\ \E h \in Hit : Joins(h, "allowed")
        /\ left' = IF Own'.count >= Cap THEN Remaining(Own') ELSE left
     \/ /\ Own'.count > Cap /\ hits' = hits
        /\ left' = Remaining(Own')
     \/ (\E h \in Hit : Joins(h, "lost")) /\ left' = left

Keeps == Own' = Own /\ hits' = hits /\ left' = left

Drops ==
  /\ Own' = NoBucket /\ hits' = hits /\ left' = left
  /\ Own.age >= Window \/ (store # "postgres" /\ Own.count < Cap)

Clears == Own' = NoBucket /\ hits' = {} /\ left' = 0

Ages ==
  /\ Own' = IF Own.count = 0 THEN NoBucket ELSE [Own EXCEPT !.age = Older(@)]
  /\ hits' = {[h EXCEPT !.age = @ + 1] : h \in {h \in hits : h.age + 1 < Old}}
  /\ left' = IF left = 0 THEN 0 ELSE left - 1

KeyStep ==
  /\ UNCHANGED <<store, watched>>
  /\ \/ Keeps \/ Drops \/ Clears \/ Ages
     \/ \E r \in Requests :
          /\ req[r].age \in 0..StoreTimeout /\ Hits(req[r].age)
          /\ \A q \in Requests \ {r} : pc'[q] = pc[q]

(* A recorded hit is a new one.                                            *)
LEMMA RecordJoins ==
  ASSUME NEW outcome \in {"allowed", "lost"}, Record(watched, outcome)
  PROVE  \E h \in Hit : Joins(h, outcome)
<1>1. PICK n \in 1..MaxHits :
        /\ [age |-> 0, outcome |-> outcome, n |-> n] \notin hits
        /\ hits' = hits \cup {[age |-> 0, outcome |-> outcome, n |-> n]}
  BY DEF Record
<1> DEFINE h == [age |-> 0, outcome |-> outcome, n |-> n]
<1>2. h \in Hit /\ h.age = 0 /\ h.outcome = outcome
  BY Numbers DEF Hit
<1> QED BY <1>1, <1>2 DEF Joins

(* A hit on another key, or one that took effect on the watched one.       *)
LEMMA HitKey ==
  ASSUME TypeInv, NEW r \in Requests, pc[r] \in {"origin", "identifier", "budget"},
         buckets' \in HitOutcomes(req[r].key, req[r].age), UNCHANGED watched
  PROVE  /\ req[r].key = watched => Own' = Counted(Own, req[r].age)
         /\ req[r].key # watched /\ hits' = hits /\ left' = left => Keeps \/ Drops
<1>1. /\ req[r].key \in Keys /\ req[r].age \in 0..StoreTimeout
      /\ buckets \in [Keys -> Bucket] /\ watched \in Keys
  BY CountedKey DEF TypeInv, TablesInv
<1>2. HitTable(buckets', req[r].key, req[r].age)
  BY <1>1, HitEffect
<1>3. buckets[watched] \in Bucket
  BY <1>1
<1>4. ASSUME req[r].key # watched, hits' = hits, left' = left PROVE Keeps \/ Drops
  <2>1. CASE buckets'[watched] = buckets[watched]
    BY <2>1, <1>4 DEF Keeps, Own
  <2>2. CASE /\ store # "postgres" /\ buckets'[watched] = NoBucket
             /\ \/ Expired(buckets[watched], req[r].age)
                \/ buckets[watched].count < Limit[Scope(watched)]
    BY <2>2, <1>1, <1>3, <1>4, Numbers DEF Drops, Own, Cap, Expired, Bucket
  <2> QED BY <1>1, <1>2, <1>4, <2>1, <2>2 DEF HitTable
<1>5. req[r].key = watched => Own' = Counted(Own, req[r].age)
  BY <1>2 DEF HitTable, Own
<1> QED BY <1>4, <1>5

(* Every step is one of these for the watched key.                         *)
LEMMA NextKey ==
  ASSUME TypeInv, [Next]_vars PROVE KeyStep
<1>t. TablesInv /\ RequestsInv /\ watched \in Keys /\ Own \in Bucket
  BY DEF TypeInv, TablesInv, Own
<1>k. UNCHANGED <<store, buckets, watched, hits, left>> => KeyStep
  BY DEF KeyStep, Keeps, Own
<1>c. ASSUME NEW keys, Clear(keys), UNCHANGED <<store, watched>> PROVE KeyStep
  <2>1. CASE watched \in keys
    BY <1>c, <1>t, <2>1 DEF Clear, KeyStep, Clears, Own
  <2>2. CASE watched \notin keys
    BY <1>c, <1>t, <2>2 DEF Clear, KeyStep, Keeps, Own
  <2> QED BY <2>1, <2>2
<1>1. ASSUME NEW r \in Requests, Allow(r) PROVE KeyStep
  <2>1. /\ pc[r] \in {"origin", "identifier", "budget"}
        /\ buckets' \in HitOutcomes(req[r].key, req[r].age)
        /\ UNCHANGED <<store, watched>>
    BY <1>1 DEF Allow
  <2>2. req[r].age \in 0..StoreTimeout
    BY <2>1, <1>t, CountedKey
  <2>3. \A q \in Requests \ {r} : pc'[q] = pc[q]
    BY <1>1, <1>t DEF Allow, Allowed, End, Goto, RequestsInv
  <2>4. CASE req[r].key # watched
    <3>1. hits' = hits /\ left' = left
      BY <1>1, <2>4 DEF Allow, Record
    <3> QED BY <2>1, <2>4, <3>1, HitKey DEF KeyStep
  <2>5. CASE req[r].key = watched
    <3>1. Own' = Counted(Own, req[r].age)
      BY <2>1, <2>5, HitKey
    <3>2. /\ Own'.count <= Cap => Record(watched, "allowed")
          /\ ~(Own'.count <= Cap) => hits' = hits
          /\ left' = IF Own'.count >= Cap THEN Remaining(Own') ELSE left
      BY <1>1, <2>1, <2>5 DEF Allow, Own, Cap
    <3>3. Own'.count \in Nat /\ Cap \in Nat
      BY <3>1, <2>2, <1>t, CountedType, KeyScope DEF Cap, Bucket
    <3>4. Hits(req[r].age)
      <4>1. CASE Own'.count <= Cap
        BY <4>1, <3>1, <3>2, RecordJoins DEF Hits
      <4>2. CASE Own'.count > Cap
        BY <4>2, <3>1, <3>2, <3>3 DEF Hits
      <4> QED BY <3>3, <4>1, <4>2
    <3> QED BY <2>1, <2>2, <2>3, <3>4 DEF KeyStep
  <2> QED BY <2>4, <2>5
<1>2. ASSUME NEW r \in Requests, AllowFails(r) PROVE KeyStep
  <2>0. pc[r] \in {"origin", "identifier", "budget"} /\ UNCHANGED <<store, watched, left>>
    BY <1>2 DEF AllowFails
  <2>1. CASE UNCHANGED <<buckets, hits>>
    BY <2>0, <2>1, <1>k
  <2>2. CASE /\ buckets' \in HitOutcomes(req[r].key, req[r].age)
             /\ Record(req[r].key, "lost")
    <3>1. req[r].age \in 0..StoreTimeout
      BY <2>0, <1>t, CountedKey
    <3>2. \A q \in Requests \ {r} : pc'[q] = pc[q]
      BY <1>2, <1>t DEF AllowFails, End, Goto, RequestsInv
    <3>3. CASE req[r].key # watched
      BY <2>0, <2>2, <3>3, HitKey DEF KeyStep, Record
    <3>4. CASE req[r].key = watched
      <4>1. Own' = Counted(Own, req[r].age)
        BY <2>0, <2>2, <3>4, HitKey
      <4>2. \E h \in Hit : Joins(h, "lost")
        BY <2>2, <3>4, RecordJoins
      <4>3. Hits(req[r].age)
        BY <4>1, <4>2, <2>0 DEF Hits
      <4> QED BY <2>0, <3>1, <3>2, <4>3 DEF KeyStep
    <3> QED BY <3>3, <3>4
  <2> QED BY <1>2, <2>1, <2>2 DEF AllowFails
<1>3. ASSUME NEW r \in Requests,
             SignInRequest(r) \/ BudgetRequest(r) \/ SignInFails(r)
      PROVE  KeyStep
  BY <1>3, <1>k DEF SignInRequest, BudgetRequest, SignInFails, Start
<1>4. ASSUME NEW r \in Requests, SignIn(r) \/ ClearIdentifier(r) PROVE KeyStep
  BY <1>4, <1>c, <1>k DEF SignIn, ClearIdentifier
<1>5. CASE LockoutClear \/ ClearAction \/ ClearAll
  BY <1>5, <1>c DEF LockoutClear, ClearAction, ClearAll
<1>6. CASE Restart
  BY <1>6, <1>c, <1>k DEF Restart
<1>7. CASE DeleteExpired
  <2>1. CASE Expired(buckets[watched], 0)
    BY <1>7, <2>1, <1>t, Numbers DEF DeleteExpired, Expired, KeyStep, Drops, Own, Bucket
  <2>2. CASE ~Expired(buckets[watched], 0)
    BY <1>7, <2>2, <1>t DEF DeleteExpired, KeyStep, Keeps, Own
  <2> QED BY <2>1, <2>2
<1>8. CASE Tick
  BY <1>8, <1>t DEF Tick, KeyStep, Ages, Own
<1>9. CASE UNCHANGED vars
  BY <1>9, <1>k DEF vars
<1> QED BY <1>1, <1>2, <1>3, <1>4, <1>5, <1>6, <1>7, <1>8, <1>9 DEF Next

(* Hits a moment later.                                                    *)
Aged(S) == {[h EXCEPT !.age = @ + 1] : h \in S}

(* No two hits become one as time passes.                                  *)
LEMMA AgedSize ==
  ASSUME NEW S \in SUBSET Hit, IsFiniteSet(S)
  PROVE  IsFiniteSet(Aged(S)) /\ Cardinality(Aged(S)) = Cardinality(S)
<1> DEFINE f == [h \in S |-> [h EXCEPT !.age = @ + 1]]
<1>1. \A g, h \in S : f[g] = f[h] => g = h
  <2> SUFFICES ASSUME NEW g \in S, NEW h \in S,
                      [g EXCEPT !.age = @ + 1] = [h EXCEPT !.age = @ + 1]
               PROVE  g = h
    OBVIOUS
  <2>1. g \in Hit /\ h \in Hit
    OBVIOUS
  <2>2. /\ [g EXCEPT !.age = @ + 1].age = g.age + 1
        /\ [g EXCEPT !.age = @ + 1].outcome = g.outcome /\ [g EXCEPT !.age = @ + 1].n = g.n
        /\ [h EXCEPT !.age = @ + 1].age = h.age + 1
        /\ [h EXCEPT !.age = @ + 1].outcome = h.outcome /\ [h EXCEPT !.age = @ + 1].n = h.n
    BY <2>1 DEF Hit
  <2>3. g.age = h.age /\ g.outcome = h.outcome /\ g.n = h.n
    BY <2>1, <2>2, Numbers DEF Hit
  <2> QED BY <2>1, <2>3 DEF Hit
<1>2. f \in [S -> Aged(S)] /\ \A a \in Aged(S) : \E h \in S : f[h] = a
  BY DEF Aged
<1> HIDE DEF f
<1>3. f \in Bijection(S, Aged(S))
  <2>1. f \in Injection(S, Aged(S))
    BY <1>1, <1>2 DEF Injection, IsInjective
  <2>2. f \in Surjection(S, Aged(S))
    BY <1>2 DEF Surjection
  <2> QED BY <2>1, <2>2 DEF Bijection
<1>4. ExistsBijection(S, Aged(S))
  BY <1>3 DEF ExistsBijection
<1> QED BY <1>4, FS_Bijection

(* What an aged hit is.                                                    *)
LEMMA AgedHit ==
  ASSUME NEW h \in Hit, h.age + 1 < Old
  PROVE  /\ [h EXCEPT !.age = @ + 1] \in Hit
         /\ [h EXCEPT !.age = @ + 1].age = h.age + 1
         /\ [h EXCEPT !.age = @ + 1].outcome = h.outcome
<1>1. h.age + 1 \in 0..Old
  BY Numbers DEF Hit
<1> QED BY <1>1 DEF Hit

(* The history and the lock keep their types.                              *)
LEMMA KeyType ==
  ASSUME TablesInv, KeyStep
  PROVE  hits' \subseteq Hit /\ IsFiniteSet(hits') /\ left' \in 0..Window
<1>t. /\ hits \in SUBSET Hit /\ IsFiniteSet(hits) /\ left \in 0..Window
      /\ watched \in Keys /\ Own \in Bucket
  BY DEF TablesInv, Own
<1>1. CASE Keeps \/ Drops
  BY <1>1, <1>t DEF Keeps, Drops
<1>2. CASE Clears
  BY <1>2, FS_EmptySet, Numbers DEF Clears
<1>3. CASE Ages
  <2> DEFINE S == {h \in hits : h.age + 1 < Old}
  <2>1. S \in SUBSET Hit /\ IsFiniteSet(S) /\ hits' = Aged(S)
    BY <1>3, <1>t, FS_Subset DEF Ages, Aged
  <2>2. \A h \in S : [h EXCEPT !.age = @ + 1] \in Hit
    BY <2>1, AgedHit
  <2>3. hits' \subseteq Hit
    BY <2>1, <2>2 DEF Aged
  <2>4. left' \in 0..Window
    BY <1>3, <1>t, Numbers DEF Ages
  <2> HIDE DEF S
  <2> QED BY <2>1, <2>3, <2>4, AgedSize
<1>4. ASSUME NEW t \in 0..StoreTimeout, Hits(t)
      PROVE  hits' \subseteq Hit /\ IsFiniteSet(hits') /\ left' \in 0..Window
  <2>1. hits' \subseteq Hit /\ IsFiniteSet(hits')
    BY <1>4, <1>t, FS_AddElement DEF Hits, Joins
  <2>2. Own'.age \in 0..Old
    BY <1>4, <1>t, CountedType DEF Hits, Bucket
  <2>3. Remaining(Own') \in 0..Window
    BY <2>2, Numbers DEF Remaining
  <2> QED BY <1>4, <1>t, <2>1, <2>3 DEF Hits
<1> QED BY <1>1, <1>2, <1>3, <1>4 DEF KeyStep

(* So do the tables, and those in memory stay within their room.           *)
LEMMA NextType == TypeInv /\ [Next]_vars => TypeInv'
<1> SUFFICES ASSUME TypeInv, [Next]_vars PROVE TypeInv'
  OBVIOUS
<1>t. TablesInv /\ RequestsInv /\ buckets \in [Keys -> Bucket]
  BY DEF TypeInv, TablesInv
<1>1. RequestsInv' /\ KeyStep
  BY <1>t, NextRequests, NextKey
<1>2. hits' \subseteq Hit /\ IsFiniteSet(hits') /\ left' \in 0..Window
  BY <1>1, <1>t, KeyType
<1>3. UNCHANGED <<store, watched>>
  BY <1>1 DEF KeyStep
<1>4. buckets' \in [Keys -> Bucket] /\ (store = "memory" => WithinRoom(buckets'))
  <2>s. ASSUME \A k \in Keys : buckets'[k].count > 0 => buckets[k].count > 0
        PROVE  store = "memory" => WithinRoom(buckets')
    BY <1>t, <2>s, FewerFit DEF TablesInv
  <2>c. ASSUME NEW keys, buckets' = [k \in Keys |-> IF k \in keys THEN NoBucket ELSE buckets[k]]
        PROVE  buckets' \in [Keys -> Bucket] /\ (store = "memory" => WithinRoom(buckets'))
    <3>1. buckets' \in [Keys -> Bucket]
      BY <2>c, <1>t, EmptyType
    <3>2. \A k \in Keys : buckets'[k].count > 0 => buckets[k].count > 0
      BY <2>c DEF NoBucket
    <3> QED BY <3>1, <3>2, <2>s
  <2>1. CASE UNCHANGED buckets
    BY <2>1, <1>t DEF TablesInv
  <2>2. CASE \E keys : Clear(keys)
    BY <2>2, <2>c DEF Clear
  <2>3. CASE DeleteExpired
    <3>1. buckets' = [k \in Keys |-> IF k \in {j \in Keys : Expired(buckets[j], 0)}
                                     THEN NoBucket ELSE buckets[k]]
      BY <2>3 DEF DeleteExpired
    <3> QED BY <3>1, <2>c
  <2>4. CASE Tick
    <3>1. \A k \in Keys : buckets'[k] \in Bucket /\ buckets'[k].count = buckets[k].count
      <4> SUFFICES ASSUME NEW k \in Keys
                   PROVE  buckets'[k] \in Bucket /\ buckets'[k].count = buckets[k].count
        OBVIOUS
      <4>1. buckets[k] \in Bucket /\ Older(buckets[k].age) \in 0..Old
        BY <1>t, Numbers DEF Older, Bucket
      <4>2. buckets'[k] = IF buckets[k].count = 0 THEN NoBucket
                          ELSE [buckets[k] EXCEPT !.age = Older(@)]
        BY <2>4 DEF Tick
      <4>3. CASE buckets[k].count = 0
        BY <4>2, <4>3, EmptyType DEF NoBucket
      <4>4. CASE buckets[k].count # 0
        BY <4>1, <4>2, <4>4 DEF Bucket
      <4> QED BY <4>3, <4>4
    <3>2. buckets' \in [Keys -> Bucket]
      BY <2>4, <3>1 DEF Tick
    <3> QED BY <3>1, <3>2, <2>s
  <2>5. ASSUME NEW r \in Requests, pc[r] \in {"origin", "identifier", "budget"},
               buckets' \in HitOutcomes(req[r].key, req[r].age)
        PROVE  buckets' \in [Keys -> Bucket] /\ (store = "memory" => WithinRoom(buckets'))
    <3>1. req[r].key \in Keys /\ req[r].age \in 0..StoreTimeout
      BY <2>5, <1>t, CountedKey
    <3>2. buckets' \in [Keys -> Bucket]
      BY <2>5, <3>1, <1>t, HitEffect DEF HitTable
    <3>3. ASSUME store = "memory" PROVE WithinRoom(buckets')
      <4>1. WithinRoom(buckets) /\ store # "postgres"
        BY <3>3, <1>t DEF TablesInv
      <4> QED BY <2>5, <3>1, <4>1, <1>t, HitFits
    <3> QED BY <3>2, <3>3
  <2>6. ASSUME NEW r \in Requests, Allow(r) \/ AllowFails(r)
        PROVE  buckets' \in [Keys -> Bucket] /\ (store = "memory" => WithinRoom(buckets'))
    BY <2>6, <2>1, <2>5 DEF Allow, AllowFails
  <2>7. ASSUME NEW r \in Requests,
               \/ SignInRequest(r) \/ BudgetRequest(r) \/ SignInFails(r)
               \/ SignIn(r) \/ ClearIdentifier(r)
        PROVE  UNCHANGED buckets \/ \E keys : Clear(keys)
    BY <2>7, Zenon DEF SignInRequest, BudgetRequest, Start, SignInFails, SignIn, ClearIdentifier
  <2>8. LockoutClear \/ ClearAction \/ ClearAll \/ Restart =>
          UNCHANGED buckets \/ \E keys : Clear(keys)
    BY Zenon DEF LockoutClear, ClearAction, ClearAll, Restart
  <2> QED BY <2>1, <2>2, <2>3, <2>4, <2>6, <2>7, <2>8 DEF Next, vars
<1> QED BY <1>1, <1>2, <1>3, <1>4, <1>t DEF TypeInv, TablesInv

(* Nothing is counted at the start.                                        *)
LEMMA InitType == Init => TypeInv
<1> SUFFICES ASSUME Init PROVE TypeInv
  OBVIOUS
<1>1. \A scope \in Scopes : Held(buckets, scope) = {}
  BY DEF Init, Held, NoBucket
<1>2. WithinRoom(buckets)
  BY <1>1, FS_EmptySet, Numbers DEF WithinRoom
<1>3. TablesInv
  BY <1>2, EmptyType, FS_EmptySet, Numbers DEF Init, TablesInv
<1>4. RequestsInv
  BY EmptyType DEF Init, RequestsInv, RequestOK, Steps
<1> QED BY <1>3, <1>4 DEF TypeInv

(* Every window and request keeps its type and a limiter in memory its     *)
(* bound, for every number of keys, capacity and limit, however hits,      *)
(* evictions, clears and restarts interleave.                              *)
THEOREM TypeCorrect == Spec => []TypeOK
<1>1. TypeInv => TypeOK
  BY DEF TypeInv, TablesInv, RequestsInv, WithinRoom, TypeOK
<1> QED BY InitType, NextType, <1>1, PTL DEF Spec

-----------------------------------------------------------------------------
(* Locked keys                                                             *)

(* A key with a running window always has room for a hit.                  *)
LEMMA RunningHits ==
  ASSUME buckets \in [Keys -> Bucket], NEW k \in Keys, buckets[k].count > 0,
         ~Expired(buckets[k], 0)
  PROVE  HitOutcomes(k, 0) # {}
<1>1. CASE store = "postgres"
  BY <1>1 DEF HitOutcomes, PostgresHit
<1>2. CASE store # "postgres"
  <2>1. PruneExpired(Scope(k), 0)[k] = buckets[k]
    BY DEF PruneExpired
  <2>2. MemoryHit(k, 0) = {[room EXCEPT ![k] = Counted(@, 0)] :
                             room \in {PruneExpired(Scope(k), 0)}}
    BY <2>1 DEF MemoryHit, Bucket
  <2> QED BY <1>2, <2>2 DEF HitOutcomes
<1> QED BY <1>1, <1>2

(* What administrators see as locked is what the next attempt would be     *)
(* told, over either store, for every key, limit and capacity.             *)
THEOREM LockedRefused == Spec => []LockedMeansRefused
<1>1. TypeInv => LockedMeansRefused
  <2> SUFFICES ASSUME TypeInv, NEW k \in Keys
               PROVE  Locked(k) <=>
                        /\ HitOutcomes(k, 0) # {}
                        /\ \A b \in HitOutcomes(k, 0) : b[k].count > Limit[Scope(k)]
    BY DEF LockedMeansRefused
  <2>t. /\ buckets \in [Keys -> Bucket] /\ buckets[k] \in Bucket /\ buckets[k].count \in Nat
        /\ Limit[Scope(k)] \in Nat /\ Limit[Scope(k)] > 0 /\ 0 \in 0..StoreTimeout
    BY KeyScope, Numbers DEF TypeInv, TablesInv, Bucket
  <2>1. Locked(k) <=> ~Expired(buckets[k], 0) /\ buckets[k].count >= Limit[Scope(k)]
    BY <2>t DEF Locked, Snapshot
  <2>2. \A b \in HitOutcomes(k, 0) : b[k] = Counted(buckets[k], 0)
    BY <2>t, HitEffect DEF HitTable
  <2>3. Counted(buckets[k], 0).count > Limit[Scope(k)] <=>
          ~Expired(buckets[k], 0) /\ buckets[k].count >= Limit[Scope(k)]
    <3>1. CASE buckets[k].count = 0 \/ Expired(buckets[k], 0)
      BY <3>1, <2>t, CountedType
    <3>2. CASE ~(buckets[k].count = 0 \/ Expired(buckets[k], 0))
      BY <3>2, <2>t, CountedType
    <3> QED BY <3>1, <3>2
  <2>4. Locked(k) => HitOutcomes(k, 0) # {}
    BY <2>1, <2>t, RunningHits
  <2> QED BY <2>1, <2>2, <2>3, <2>4
<1> QED BY <1>1, InitType, NextType, PTL DEF Spec

-----------------------------------------------------------------------------
(* Spent budgets                                                           *)

(* While the key is to stay shut, its window runs on and is spent.         *)
SpentInv == left > 0 => Own.count >= Cap /\ Own.age + left <= Window

(* The numbers in it.                                                      *)
LEMMA OwnNumbers ==
  ASSUME TypeInv
  PROVE  /\ Own \in Bucket /\ Own.count \in Nat /\ Own.age \in 0..Old
         /\ Cap \in Nat /\ Cap > 0 /\ left \in 0..Window
BY KeyScope DEF TypeInv, TablesInv, Own, Cap, Bucket

(* A hit on a spent budget is refused, and leaves it spent.                *)
LEMMA SpentHit ==
  ASSUME TypeInv, SpentInv, left > 0, NEW t \in 0..StoreTimeout
  PROVE  /\ Counted(Own, t).count = Own.count + 1 /\ Counted(Own, t).age = Own.age
         /\ Counted(Own, t).count > Cap
<1>1. Own.count > 0 /\ ~Expired(Own, t)
  BY OwnNumbers, Numbers DEF SpentInv, Expired
<1> QED BY <1>1, OwnNumbers, CountedType DEF SpentInv

(* A spent budget stays spent.                                             *)
LEMMA KeySpent ==
  ASSUME TypeInv, TypeInv', SpentInv, KeyStep
  PROVE  SpentInv'
<1>n. /\ Own \in Bucket /\ Own.count \in Nat /\ Own.age \in 0..Old
      /\ Cap \in Nat /\ Cap > 0 /\ left \in 0..Window
  BY OwnNumbers
<1>c. Cap' = Cap
  BY DEF KeyStep, Cap
<1>1. CASE Keeps \/ Clears
  BY <1>1, <1>c, <1>n DEF Keeps, Clears, SpentInv
<1>2. CASE Drops
  BY <1>2, <1>c, <1>n, Numbers DEF Drops, SpentInv
<1>3. CASE Ages
  <2> SUFFICES ASSUME left > 1 PROVE SpentInv'
    BY <1>3, <1>n, Numbers DEF Ages, SpentInv
  <2>1. Own.count > 0 /\ Own.age < Old
    BY <1>n, Numbers DEF SpentInv
  <2>2. Own' = [Own EXCEPT !.age = Own.age + 1]
    BY <1>3, <1>n, <2>1 DEF Ages, Older
  <2>3. Own'.count = Own.count /\ Own'.age = Own.age + 1
    BY <1>n, <2>2 DEF Bucket
  <2>4. left' = left - 1
    BY <1>3, <1>n DEF Ages
  <2> QED BY <1>c, <1>n, <2>3, <2>4, Numbers DEF SpentInv
<1>4. ASSUME NEW t \in 0..StoreTimeout, Hits(t) PROVE SpentInv'
  <2>1. Own' = Counted(Own, t) /\ Own'.count \in Nat /\ Own'.age \in 0..Old
    BY <1>4, <1>n, CountedType DEF Hits, Bucket
  <2>2. CASE left' = Remaining(Own') /\ Own'.count >= Cap
    BY <2>1, <2>2, <1>c, <1>n, Numbers DEF SpentInv, Remaining
  <2>3. CASE left' = left /\ left > 0
    BY <2>1, <2>3, <1>c, <1>n, <1>4, SpentHit, Numbers DEF SpentInv
  <2>4. CASE left' = left /\ left = 0
    BY <2>4 DEF SpentInv
  <2> QED BY <1>4, <1>n, <2>1, <2>2, <2>3, <2>4 DEF Hits
<1> QED BY <1>1, <1>2, <1>3, <1>4 DEF KeyStep

(* Nobody is admitted while the key is to stay shut.                       *)
LEMMA KeyAdmits ==
  ASSUME TypeInv, SpentInv, KeyStep, Admits
  PROVE  left = 0
<1>n. /\ Own \in Bucket /\ Own.count \in Nat /\ Cap \in Nat /\ left \in 0..Window
      /\ hits \subseteq Hit
  BY OwnNumbers DEF TypeInv, TablesInv
<1>1. ~Keeps /\ ~Drops /\ ~Clears
  BY DEF Admits, Keeps, Drops, Clears
<1>2. ~Ages
  <2> SUFFICES ASSUME Ages PROVE FALSE
    OBVIOUS
  <2>1. PICK g \in hits' : g.age = 0
    BY DEF Admits
  <2>2. PICK h \in hits : h.age + 1 < Old /\ g = [h EXCEPT !.age = @ + 1]
    BY <2>1, Zenon DEF Ages
  <2>3. g.age = h.age + 1 /\ h.age \in Nat
    BY <2>2, <1>n, AgedHit, Numbers DEF Hit
  <2> QED BY <2>1, <2>3
<1>3. PICK t \in 0..StoreTimeout : Hits(t)
  BY <1>1, <1>2 DEF KeyStep
<1>4. Own'.count <= Cap
  BY <1>3 DEF Hits, Joins, Admits
<1> SUFFICES ASSUME left > 0 PROVE FALSE
  BY <1>n, Numbers
<1>5. Own'.count > Cap /\ Own'.count \in Nat
  BY <1>3, <1>n, SpentHit, CountedType DEF Hits, Bucket
<1> QED BY <1>4, <1>5, <1>n

(* Until the window of a spent budget ends nobody is admitted on its key,  *)
(* whatever the memory store evicts and however late hits arrive.          *)
THEOREM SpentStaysSpent == Spec => SpentBudgetHolds
<1> DEFINE I == TypeInv /\ SpentInv
<1>1. Init => I
  BY InitType DEF Init, SpentInv
<1>2. I /\ [Next]_vars => I'
  BY NextType, NextKey, KeySpent
<1>3. I /\ [Next]_vars => [Admits => left = 0]_vars
  BY NextKey, KeyAdmits
<1> QED BY <1>1, <1>2, <1>3, PTL DEF Spec, SpentBudgetHolds

-----------------------------------------------------------------------------
(* Refusals are paid for                                                   *)

(* The hits its window has counted, refused ones left out.                 *)
Since == {h \in hits : h.age <= Own.age}

(* A running window's count is made of them until the budget is spent.     *)
PaidInv ==
  Own.count > 0 /\ Own.age < Old =>
    Cardinality(Since) >= Own.count \/ Cardinality(Since) >= Cap

(* The history is finite and typed.                                        *)
LEMMA History ==
  ASSUME TypeInv PROVE hits \in SUBSET Hit /\ IsFiniteSet(hits)
BY DEF TypeInv, TablesInv

(* A part of a finite set is no larger.                                    *)
LEMMA PartSize ==
  ASSUME NEW S, NEW T, IsFiniteSet(T), S \subseteq T
  PROVE  /\ IsFiniteSet(S) /\ Cardinality(S) \in Nat /\ Cardinality(T) \in Nat
         /\ Cardinality(S) <= Cardinality(T)
BY FS_Subset, FS_CardinalityType

(* Every hit counted by a window is paid for by one in the history.        *)
LEMMA KeyPaid ==
  ASSUME TypeInv, TypeInv', PaidInv, KeyStep
  PROVE  PaidInv'
<1>n. /\ Own \in Bucket /\ Own.count \in Nat /\ Own.age \in 0..Old
      /\ Cap \in Nat /\ Cap > 0 /\ hits \in SUBSET Hit /\ IsFiniteSet(hits)
      /\ IsFiniteSet(hits') /\ Cap' = Cap
  BY OwnNumbers, History DEF KeyStep, Cap, TypeInv, TablesInv
<1>s. /\ Since \subseteq hits /\ IsFiniteSet(Since) /\ Cardinality(Since) \in Nat
  BY <1>n, PartSize DEF Since
<1>s1. /\ Since' \subseteq hits' /\ IsFiniteSet(Since') /\ Cardinality(Since') \in Nat
  BY <1>n, PartSize DEF Since
<1>1. CASE Keeps
  BY <1>1, <1>n DEF Keeps, PaidInv, Since
<1>2. CASE Drops \/ Clears
  BY <1>2 DEF Drops, Clears, PaidInv, NoBucket
<1>3. CASE Ages
  <2> SUFFICES ASSUME Own'.count > 0, Own'.age < Old
               PROVE  Cardinality(Since') >= Own'.count \/ Cardinality(Since') >= Cap
    BY <1>n DEF PaidInv
  <2>1. Own.count > 0
    BY <1>3, <1>n DEF Ages, NoBucket
  <2>2. Own'.count = Own.count /\ Own'.age = Older(Own.age)
    BY <1>3, <1>n, <2>1 DEF Ages, Bucket
  <2>3. Own.age + 1 < Old /\ Own'.age = Own.age + 1
    BY <2>2, <1>n, Numbers DEF Older
  <2>4. Aged(Since) \subseteq Since'
    <3> SUFFICES ASSUME NEW h \in Since PROVE [h EXCEPT !.age = @ + 1] \in Since'
      BY DEF Aged
    <3>1. h \in hits /\ h \in Hit /\ h.age \in Nat /\ h.age <= Own.age
      BY <1>n DEF Since, Hit
    <3>2. h.age + 1 < Old
      BY <3>1, <2>3, <1>n, Numbers
    <3>3. [h EXCEPT !.age = @ + 1] \in hits'
      BY <1>3, <3>1, <3>2, Zenon DEF Ages
    <3>4. [h EXCEPT !.age = @ + 1].age = h.age + 1
      BY <3>1, <3>2, AgedHit
    <3>5. [h EXCEPT !.age = @ + 1].age <= Own'.age
      BY <3>1, <3>4, <2>3, <1>n
    <3> QED BY <3>3, <3>5 DEF Since
  <2>5. IsFiniteSet(Aged(Since)) /\ Cardinality(Aged(Since)) = Cardinality(Since)
    BY <1>s, <1>n, AgedSize
  <2>6. Cardinality(Since) <= Cardinality(Since')
    BY <2>4, <2>5, <1>s1, PartSize
  <2>7. Cardinality(Since) >= Own.count \/ Cardinality(Since) >= Cap
    BY <2>1, <2>3, <1>n, Numbers DEF PaidInv
  <2> QED BY <2>2, <2>6, <2>7, <1>n, <1>s, <1>s1
<1>4. ASSUME NEW t \in 0..StoreTimeout, Hits(t) PROVE PaidInv'
  <2> SUFFICES ASSUME Own'.age < Old
               PROVE  Cardinality(Since') >= Own'.count \/ Cardinality(Since') >= Cap
    BY <1>n DEF PaidInv
  <2>0. Own' = Counted(Own, t) /\ t \in Nat
    BY <1>4, Numbers DEF Hits
  <2>1. ASSUME NEW h \in Hit, NEW outcome, Joins(h, outcome)
        PROVE  Cardinality(Since') >= Own'.count \/ Cardinality(Since') >= Cap
    <3>0. h \notin hits /\ h.age = 0 /\ hits' = hits \cup {h}
      BY <2>1 DEF Joins
    <3>1. CASE Own.count = 0 \/ Expired(Own, t)
      <4>1. Own'.count = 1 /\ Own'.age = t
        BY <2>0, <3>1, <1>n, CountedType
      <4>2. h \in Since'
        BY <3>0, <4>1, <2>0 DEF Since
      <4>3. Cardinality(Since') # 0
        BY <4>2, <1>s1, FS_EmptySet
      <4> QED BY <4>1, <4>3, <1>s1
    <3>2. CASE ~(Own.count = 0 \/ Expired(Own, t))
      <4>1. Own'.count = Own.count + 1 /\ Own'.age = Own.age
        BY <2>0, <3>2, <1>n, CountedType
      <4>2. Since' = Since \cup {h} /\ h \notin Since
        BY <3>0, <4>1, <1>n DEF Since
      <4>3. Cardinality(Since') = Cardinality(Since) + 1
        BY <4>2, <1>s, FS_AddElement
      <4> QED BY <4>1, <4>3, <3>2, <1>n, <1>s DEF PaidInv
    <3> QED BY <3>1, <3>2
  <2>2. CASE Own'.count > Cap /\ hits' = hits
    <3>1. CASE Own.count = 0 \/ Expired(Own, t)
      <4>1. Own'.count = 1
        BY <2>0, <3>1, <1>n, CountedType
      <4> QED BY <4>1, <2>2, <1>n
    <3>2. CASE ~(Own.count = 0 \/ Expired(Own, t))
      <4>1. Own'.count = Own.count + 1 /\ Own'.age = Own.age
        BY <2>0, <3>2, <1>n, CountedType
      <4>2. Since' = Since
        BY <2>2, <4>1 DEF Since
      <4> QED BY <4>1, <4>2, <2>2, <3>2, <1>n, <1>s DEF PaidInv
    <3> QED BY <3>1, <3>2
  <2> QED BY <1>4, <2>1, <2>2 DEF Hits
<1> QED BY <1>1, <1>2, <1>3, <1>4 DEF KeyStep

(* A refused caller's window was spent at the caller's own time.           *)
LEMMA KeyRefuses ==
  ASSUME TypeInv, PaidInv, KeyStep, Refuses, NEW r \in Requests, pc'[r] # pc[r]
  PROVE  Cardinality({h \in hits : h.age < req[r].age + Window}) >= Cap
<1>n. /\ Own \in Bucket /\ Own.count \in Nat /\ Own.age \in 0..Old
      /\ Cap \in Nat /\ Cap > 0 /\ hits \in SUBSET Hit /\ IsFiniteSet(hits)
  BY OwnNumbers, History
<1>k. Own'.count > Own.count /\ hits' = hits
  BY DEF Refuses, KeyStep, Own
<1>1. ~Keeps /\ ~Drops /\ ~Clears
  BY <1>k, <1>n DEF Keeps, Drops, Clears, NoBucket
<1>2. ~Ages
  <2>1. Ages => Own'.count = Own.count
    BY <1>n DEF Ages, NoBucket, Bucket
  <2> QED BY <2>1, <1>k, <1>n
<1>3. req[r].age \in 0..StoreTimeout /\ Hits(req[r].age)
  BY <1>1, <1>2 DEF KeyStep
<1> DEFINE t == req[r].age
<1> HIDE DEF t
<1>4. t \in 0..StoreTimeout /\ Own' = Counted(Own, t) /\ Own'.count > Cap
  BY <1>3, <1>k DEF Hits, Joins, t
<1>5. ~(Own.count = 0 \/ Expired(Own, t))
  BY <1>4, <1>n, CountedType
<1>6. Own'.count = Own.count + 1
  BY <1>4, <1>5, <1>n, CountedType
<1>7. Own.count >= Cap /\ Own.age < t + Window /\ Own.age < Old
  BY <1>4, <1>5, <1>6, <1>n, Numbers DEF Expired
<1>s. Since \subseteq hits /\ IsFiniteSet(Since) /\ Cardinality(Since) \in Nat
  BY <1>n, PartSize DEF Since
<1>8. Cardinality(Since) >= Cap
  BY <1>7, <1>n, <1>s DEF PaidInv
<1> DEFINE T == {h \in hits : h.age < t + Window}
<1>9. Since \subseteq T /\ T \subseteq hits
  BY <1>4, <1>7, <1>n, Numbers DEF Since, Hit
<1> HIDE DEF T
<1>10. Cardinality(Since) <= Cardinality(T) /\ Cardinality(T) \in Nat
  BY <1>9, <1>n, PartSize
<1>11. Cardinality(T) >= Cap
  BY <1>8, <1>10, <1>n, <1>s
<1> QED BY <1>11 DEF T, t

(* A caller is refused on its key's budget only when the limit's worth of  *)
(* the key's hits was let in, or counted and lost, in the window before the*)
(* caller's own time, for every limit, deadline and order of arrival, over *)
(* either store.                                                           *)
THEOREM RefusalsPaidFor == Spec => RefusedOnlyWhenSpent
<1> DEFINE I == TypeInv /\ PaidInv
<1>1. Init => I
  BY InitType DEF Init, PaidInv, Own, NoBucket, TypeInv, TablesInv
<1>2. I /\ [Next]_vars => I'
  BY NextType, NextKey, KeyPaid
<1> DEFINE Step == \A r \in Requests :
                     pc'[r] # pc[r] /\ Refuses
                       => Cardinality({h \in hits : h.age < req[r].age + Window})
                            >= Limit[Scope(watched)]
<1>3. I /\ [Next]_vars => [Step]_vars
  BY NextKey, KeyRefuses DEF Cap
<1> QED BY <1>1, <1>2, <1>3, PTL DEF Spec, RefusedOnlyWhenSpent

-----------------------------------------------------------------------------
(* Two windows                                                             *)

Admitted == {h \in hits : h.outcome = "allowed" /\ h.age < Window - StoreTimeout}

(* The hits let in of late are C, of the key's present window, or P, of    *)
(* the one before, each within the limit.  A hit of P was recorded before  *)
(* the present window was, so it is no younger than that window by more    *)
(* than the deadline.                                                      *)
Covered(C, P) ==
  /\ C \subseteq hits /\ P \subseteq hits /\ Admitted \subseteq C \cup P
  /\ Cardinality(C) <= Own.count /\ Cardinality(C) <= Cap /\ Cardinality(P) <= Cap
  /\ Own.count > 0 => \A p \in P : p.age >= Own.age - StoreTimeout

WindowsInv == store = "postgres" => \E C, P \in SUBSET hits : Covered(C, P)

(* A window that is over covers nothing of late but its own hits.          *)
LEMMA WindowOver ==
  ASSUME TypeInv, NEW C \in SUBSET hits, NEW P \in SUBSET hits, Covered(C, P),
         Own.count = 0 \/ Own.age >= Window
  PROVE  \E Q \in SUBSET hits : Admitted \subseteq Q /\ Cardinality(Q) <= Cap
<1>n. /\ Own.count \in Nat /\ Own.age \in 0..Old /\ Cap \in Nat
      /\ hits \in SUBSET Hit /\ IsFiniteSet(hits)
  BY OwnNumbers, History
<1>c. IsFiniteSet(C) /\ Cardinality(C) \in Nat
  BY <1>n, PartSize
<1>1. CASE Own.count = 0
  <2>1. C = {}
    BY <1>1, <1>c, FS_EmptySet DEF Covered
  <2> QED BY <2>1 DEF Covered
<1>2. CASE Own.count > 0 /\ Own.age >= Window
  <2>1. ASSUME NEW h \in Admitted PROVE h \in C
    <3>1. h \in Hit /\ h.age \in Nat /\ h.age < Window - StoreTimeout
      BY <1>n, <2>1 DEF Admitted, Hit
    <3>2. h \notin P
      BY <3>1, <1>2, <1>n, Numbers DEF Covered
    <3> QED BY <2>1, <3>2 DEF Covered
  <2> QED BY <2>1 DEF Covered
<1> QED BY <1>1, <1>2, <1>n

(* No hit is counted by more than one of two windows.                      *)
LEMMA KeyWindows ==
  ASSUME TypeInv, TypeInv', WindowsInv, KeyStep
  PROVE  WindowsInv'
<1> SUFFICES ASSUME store = "postgres" PROVE \E C, P \in SUBSET hits' : Covered(C, P)'
  BY DEF WindowsInv, KeyStep
<1>n. /\ Own \in Bucket /\ Own.count \in Nat /\ Own.age \in 0..Old
      /\ Cap \in Nat /\ Cap > 0 /\ hits \in SUBSET Hit /\ IsFiniteSet(hits)
      /\ IsFiniteSet(hits') /\ Cap' = Cap /\ hits' \in SUBSET Hit
  BY OwnNumbers, History DEF KeyStep, Cap, TypeInv, TablesInv
<1>w. PICK C \in SUBSET hits, P \in SUBSET hits : Covered(C, P)
  BY DEF WindowsInv
<1>f. /\ IsFiniteSet(C) /\ Cardinality(C) \in Nat /\ IsFiniteSet(P) /\ Cardinality(P) \in Nat
      /\ Cardinality(C) <= Own.count /\ Cardinality(C) <= Cap /\ Cardinality(P) <= Cap
  BY <1>w, <1>n, PartSize DEF Covered
<1>e. Cardinality({}) = 0 /\ IsFiniteSet({})
  BY FS_EmptySet
<1>1. CASE Keeps
  <2>1. Covered(C, P)'
    BY <1>1, <1>n, <1>w DEF Keeps, Covered, Admitted
  <2> QED BY <2>1, <1>1 DEF Keeps
<1>2. CASE Clears
  <2>1. Covered({}, {})'
    BY <1>2, <1>n, <1>e DEF Clears, Covered, Admitted, NoBucket
  <2> QED BY <2>1
<1>3. CASE Drops
  <2>0. Own'.count = 0 /\ hits' = hits /\ (Own.count = 0 \/ Own.age >= Window)
    BY <1>3 DEF Drops, NoBucket
  <2>1. PICK Q \in SUBSET hits : Admitted \subseteq Q /\ Cardinality(Q) <= Cap
    BY <1>w, <2>0, WindowOver
  <2>2. Covered({}, Q)'
    BY <2>0, <2>1, <1>n, <1>e DEF Covered, Admitted
  <2> QED BY <2>0, <2>1, <2>2
<1>4. CASE Ages
  <2> DEFINE Young(S) == {h \in S : h.age + 1 < Old}
  <2>1. ASSUME NEW S \in SUBSET hits
        PROVE  /\ Aged(Young(S)) \subseteq hits' /\ Cardinality(Aged(Young(S))) \in Nat
               /\ Cardinality(Aged(Young(S))) <= Cardinality(S)
    <3>1. IsFiniteSet(S) /\ Young(S) \subseteq S /\ Young(S) \in SUBSET Hit
      BY <1>n, FS_Subset
    <3>2. Aged(Young(S)) \subseteq hits'
      BY <1>4, Zenon DEF Ages, Aged
    <3> HIDE DEF Young
    <3>3. /\ IsFiniteSet(Young(S)) /\ Cardinality(Young(S)) \in Nat
          /\ Cardinality(S) \in Nat /\ Cardinality(Young(S)) <= Cardinality(S)
      BY <3>1, PartSize
    <3>4. Cardinality(Aged(Young(S))) = Cardinality(Young(S))
      BY <3>1, <3>3, AgedSize
    <3> QED BY <3>2, <3>3, <3>4
  <2>2. ASSUME NEW g \in Admitted' PROVE g \in Aged(Young(C)) \cup Aged(Young(P))
    <3>1. g \in hits' /\ g.outcome = "allowed" /\ g.age < Window - StoreTimeout
      BY <2>2 DEF Admitted
    <3>2. PICK h \in hits : h.age + 1 < Old /\ g = [h EXCEPT !.age = @ + 1]
      BY <1>4, <3>1, Zenon DEF Ages
    <3>3. g.age = h.age + 1 /\ g.outcome = h.outcome /\ h.age \in Nat
      BY <3>2, <1>n, AgedHit, Numbers DEF Hit
    <3>4. h \in Admitted
      BY <3>1, <3>3, Numbers DEF Admitted
    <3>5. h \in Young(C) \/ h \in Young(P)
      BY <3>2, <3>4, <1>w DEF Covered
    <3> QED BY <3>2, <3>5, Zenon DEF Aged
  <2>3. ASSUME Own'.count > 0, NEW g \in Aged(Young(P))
        PROVE  g.age >= Own'.age - StoreTimeout
    <3>1. PICK h \in P : h.age + 1 < Old /\ g = [h EXCEPT !.age = @ + 1]
      BY <2>3, Zenon DEF Aged
    <3>2. g.age = h.age + 1 /\ h.age \in Nat
      BY <3>1, <1>n, AgedHit, Numbers DEF Hit
    <3>3. Own.count > 0
      BY <2>3, <1>4, <1>n DEF Ages, NoBucket
    <3>4. Own'.age = Older(Own.age)
      BY <3>3, <1>4, <1>n DEF Ages, Bucket
    <3>5. h.age >= Own.age - StoreTimeout
      BY <3>3, <1>w DEF Covered
    <3> QED BY <3>2, <3>4, <3>5, <1>n, Numbers DEF Older
  <2>4. Own'.count = Own.count
    BY <1>4, <1>n DEF Ages, NoBucket, Bucket
  <2>5. /\ Aged(Young(C)) \in SUBSET hits' /\ Aged(Young(P)) \in SUBSET hits'
        /\ Cardinality(Aged(Young(C))) <= Own'.count /\ Cardinality(Aged(Young(C))) <= Cap'
        /\ Cardinality(Aged(Young(P))) <= Cap'
    BY <2>1, <2>4, <1>n, <1>f
  <2> HIDE DEF Young
  <2>6. Covered(Aged(Young(C)), Aged(Young(P)))'
    BY <2>2, <2>3, <2>5 DEF Covered
  <2> QED BY <2>5, <2>6
<1>5. ASSUME NEW t \in 0..StoreTimeout, Hits(t)
      PROVE  \E D, Q \in SUBSET hits' : Covered(D, Q)'
  <2>0. Own' = Counted(Own, t) /\ t \in Nat /\ t <= StoreTimeout
    BY <1>5, Numbers DEF Hits
  <2> DEFINE Joined(new) ==
               /\ hits \subseteq hits' /\ Admitted' \subseteq Admitted \cup new
               /\ \/ new = {}
                  \/ (\E h \in Hit : new = {h} /\ h \notin hits) /\ Own'.count <= Cap
  <2>1. PICK new \in SUBSET hits' : Joined(new)
    <3>1. ASSUME hits' = hits \/ \E h \in Hit : Joins(h, "lost")
          PROVE  Joined({}) /\ {} \in SUBSET hits'
      <4>1. ASSUME NEW h \in Hit, Joins(h, "lost")
            PROVE  hits \subseteq hits' /\ Admitted' \subseteq Admitted
        BY <4>1 DEF Joins, Admitted
      <4>2. hits' = hits => hits \subseteq hits' /\ Admitted' \subseteq Admitted
        BY DEF Admitted
      <4> QED BY <3>1, <4>1, <4>2
    <3>2. ASSUME NEW h \in Hit, Joins(h, "allowed"), Own'.count <= Cap
          PROVE  Joined({h}) /\ {h} \in SUBSET hits'
      BY <3>2 DEF Joins, Admitted
    <3> HIDE DEF Joined
    <3> QED BY <1>5, <3>1, <3>2 DEF Hits
  <2>2. IsFiniteSet(new) /\ Cardinality(new) \in {0, 1}
    BY <2>1, FS_Singleton, <1>e
  <2>3. CASE Own.count = 0 \/ Expired(Own, t)
    <3>1. Own'.count = 1 /\ Own'.age = t
      BY <2>0, <2>3, <1>n, CountedType
    <3>2. Own.count = 0 \/ Own.age >= Window
      BY <2>0, <2>3, <1>n, Numbers DEF Expired
    <3>3. PICK Q \in SUBSET hits : Admitted \subseteq Q /\ Cardinality(Q) <= Cap
      BY <1>w, <3>2, WindowOver
    <3>4. \A p \in Q : p.age >= Own'.age - StoreTimeout
      BY <3>1, <2>0, <1>n, Numbers DEF Hit
    <3>5. Cardinality(new) <= Own'.count /\ Cardinality(new) <= Cap'
      BY <2>2, <3>1, <1>n
    <3>6. Covered(new, Q)'
      BY <2>1, <3>3, <3>4, <3>5, <1>n DEF Covered
    <3> QED BY <2>1, <3>3, <3>6
  <2>4. CASE ~(Own.count = 0 \/ Expired(Own, t))
    <3>1. Own'.count = Own.count + 1 /\ Own'.age = Own.age
      BY <2>0, <2>4, <1>n, CountedType
    <3>2. C \cup new \in SUBSET hits'
      BY <2>1
    <3>3. /\ Cardinality(C \cup new) <= Own'.count /\ Cardinality(C \cup new) <= Cap'
      <4>1. CASE new = {}
        <5>1. Cardinality(C \cup new) = Cardinality(C)
          BY <4>1
        <5>2. Cardinality(C) <= Own'.count /\ Cardinality(C) <= Cap'
          BY <3>1, <1>f, <1>n
        <5> QED BY <5>1, <5>2
      <4>2. ASSUME NEW h \in Hit, new = {h}, h \notin hits, Own'.count <= Cap
            PROVE  /\ Cardinality(C \cup new) <= Own'.count
                   /\ Cardinality(C \cup new) <= Cap'
        <5>1. Cardinality(C \cup new) = Cardinality(C) + 1
          BY <4>2, <1>f, FS_AddElement
        <5> QED BY <4>2, <5>1, <3>1, <1>f, <1>n
      <4> QED BY <2>1, <4>1, <4>2
    <3>4. \A p \in P : p.age >= Own'.age - StoreTimeout
      BY <3>1, <2>4, <1>w, <1>n DEF Covered
    <3>5. Admitted' \subseteq (C \cup new) \cup P /\ P \in SUBSET hits'
      BY <2>1, <1>w DEF Covered
    <3>6. Covered(C \cup new, P)'
      BY <3>2, <3>3, <3>4, <3>5, <1>f, <1>n DEF Covered
    <3> QED BY <3>2, <3>5, <3>6
  <2> QED BY <2>3, <2>4
<1> QED BY <1>1, <1>2, <1>3, <1>4, <1>5 DEF KeyStep

(* Over the shared table no more than two windows' worth of hits is let in *)
(* in a span of a window less the deadline, for every limit, window,       *)
(* deadline and order in which the hits reach the table.                   *)
THEOREM TwoWindows == Spec => []TwoWindowBound
<1> DEFINE I == TypeInv /\ WindowsInv
<1>1. Init => I
  <2> SUFFICES ASSUME Init PROVE WindowsInv
    BY InitType
  <2>1. Cap \in Nat /\ Own.count = 0 /\ hits = {}
    BY InitType, OwnNumbers DEF Init, Own, NoBucket
  <2>2. Covered({}, {})
    BY <2>1, FS_EmptySet DEF Covered, Admitted
  <2> QED BY <2>2 DEF WindowsInv
<1>2. I /\ [Next]_vars => I'
  BY NextType, NextKey, KeyWindows
<1>3. I => TwoWindowBound
  <2> SUFFICES ASSUME TypeInv, WindowsInv, store = "postgres"
               PROVE  Cardinality(Admitted) <= 2 * Cap
    BY DEF TwoWindowBound, Admitted, Cap
  <2>1. PICK C \in SUBSET hits, P \in SUBSET hits : Covered(C, P)
    BY DEF WindowsInv
  <2>2. /\ IsFiniteSet(C) /\ IsFiniteSet(P) /\ Cap \in Nat
        /\ Cardinality(C) \in Nat /\ Cardinality(P) \in Nat
    BY OwnNumbers, History, PartSize
  <2>3. /\ IsFiniteSet(C \cup P) /\ IsFiniteSet(C \cap P)
        /\ Cardinality(C \cup P) = Cardinality(C) + Cardinality(P) - Cardinality(C \cap P)
    BY <2>2, FS_Union, FS_Intersection
  <2>4. Cardinality(C \cap P) \in Nat
    BY <2>3, FS_CardinalityType
  <2>5. /\ Cardinality(Admitted) \in Nat /\ Cardinality(C \cup P) \in Nat
        /\ Cardinality(Admitted) <= Cardinality(C \cup P)
    BY <2>1, <2>3, PartSize DEF Covered
  <2> QED BY <2>1, <2>2, <2>3, <2>4, <2>5 DEF Covered
<1> QED BY <1>1, <1>2, <1>3, PTL DEF Spec
=============================================================================
