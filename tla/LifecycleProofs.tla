--------------------------- MODULE LifecycleProofs ---------------------------
(***************************************************************************)
(* For any number of instances, any migrations of the two releases and any *)
(* number of jobs and faults: the ledger and the schema agree, and an      *)
(* instance serves only a database that has all its migrations, under a    *)
(* configuration fit for it.                                               *)
(*                                                                         *)
(* The invariant says what an instance may rely on at each step: while it  *)
(* holds the migration lock the ledger is as it read it, and what it has   *)
(* once installed or found installed stays.  A section of its own shows    *)
(* that instances which start at once do not block each other.             *)
(*                                                                         *)
(* The second half is about the usage queue, which runs in every process   *)
(* and shares no state with the rest.                                      *)
(***************************************************************************)
EXTENDS Lifecycle, UsageQueue, WellFoundedInduction, FiniteSetTheorems, SequenceTheorems,
        TLAPS

(* The configuration is one that Load can return: what it accepts is fit.  *)
ConfigInv == config.accepted => config.fit

(* What an instance relies on at its step.                                 *)
InstanceOK(i) ==
  /\ pc[i] # "down" => config.accepted
  /\ pc[i] = "bare" => ~config.database
  /\ pc[i] \notin {"down", "bare", "draining"} => config.database
  /\ pc[i] # "migrate" => tx[i] = {}
  /\ pc[i] = "migrate" => tx[i] \cap installed = {} /\ seen[i] \subseteq installed
  /\ pc[i] \in {"compose", "seed", "create", "serving"} => Embedded(i) \subseteq installed
  /\ pc[i] = "draining" => (config.database => Embedded(i) \subseteq installed)

Inv == TypeOK /\ ConfigInv /\ \A i \in Instances : InstanceOK(i)

(* What Load accepts in production is fit for it.                          *)
LEMMA LoadFit == \A e \in Environments : Load(e).accepted => Load(e).fit
<1> SUFFICES ASSUME NEW e \in Environments, Load(e).accepted PROVE Load(e).fit
  OBVIOUS
<1>1. Consistent(e) /\ RoleFits(e) /\ ValidateProduction(e)
  BY DEF Load, Refused
<1>2. Fit(e)
  BY <1>1 DEF Consistent, RoleFits, ValidateProduction, Fit, Environments
<1> QED BY <1>1, <1>2 DEF Load

(* A release's migrations are versions, and versions are numbers.          *)
LEMMA EmbeddedVersions ==
  ASSUME TypeOK, NEW i \in Instances
  PROVE  Embedded(i) \subseteq Versions /\ Versions \subseteq Nat
BY KnownAssumption DEF TypeOK, Embedded, Versions, Releases

(* There is a first among missing migrations.                              *)
LEMMA LeastExists ==
  ASSUME NEW S \in SUBSET Nat, S # {}
  PROVE  \E v \in S : \A w \in S : v <= w
<1>1. PICK v \in S : \A w \in S : ~(<<w, v>> \in OpToRel(<, Nat))
  BY NatLessThanWellFounded, WFMin
<1>2. \A w \in S : ~(w < v)
  BY <1>1 DEF OpToRel
<1> QED BY <1>2

(* No instance runs at the start.                                          *)
LEMMA InitInv == Init => Inv
<1> SUFFICES ASSUME Init PROVE Inv
  OBVIOUS
<1>1. ConfigInv
  BY LoadFit DEF Init, ConfigInv
<1>2. installed \subseteq Versions
  BY KnownAssumption DEF Init, Versions
<1>3. TypeOK
  BY <1>2, JobsAssumption, NoneAssumption DEF Init, TypeOK, Steps
<1>4. \A i \in Instances : InstanceOK(i)
  BY DEF Init, InstanceOK
<1> QED BY <1>1, <1>3, <1>4 DEF Inv

(* An instance at rest keeps what it relies on while another one moves.    *)
LEMMA RestKept ==
  ASSUME NEW j \in Instances, InstanceOK(j), UNCHANGED config,
         pc'[j] = pc[j], tx'[j] = tx[j], seen'[j] = seen[j], release'[j] = release[j],
         installed \subseteq installed', pc[j] = "migrate" => installed' = installed
  PROVE  InstanceOK(j)'
BY DEF InstanceOK, Embedded

(* Put together: the step of one instance i.                               *)
LEMMA OneMoves ==
  ASSUME Inv, NEW i \in Instances, TypeOK', UNCHANGED config, InstanceOK(i)',
         \A j \in Instances \ {i} : /\ pc'[j] = pc[j] /\ tx'[j] = tx[j] /\ seen'[j] = seen[j]
                                    /\ release'[j] = release[j],
         installed' = installed \/ (lock = i /\ installed \subseteq installed')
  PROVE  Inv'
<1>1. \A j \in Instances \ {i} : pc[j] = "migrate" => installed' = installed
  BY DEF Inv, TypeOK
<1>2. \A j \in Instances \ {i} : InstanceOK(j)'
  BY <1>1, RestKept DEF Inv
<1> QED BY <1>2 DEF Inv, ConfigInv

(* A process ends, and takes its open transaction with it.                 *)
LEMMA ExitInv ==
  ASSUME Inv, NEW i \in Instances, Exit(i), faults' \in 0..MaxFaults
  PROVE  Inv'
<1> USE DEF Exit, Rollback, Goto
<1>1. TypeOK'
  <2>1. /\ release' \in [Instances -> Releases] /\ pc' \in [Instances -> Steps]
        /\ ledger' \in {"absent", "open", "there"} /\ creator' \in Instances \cup {None}
        /\ lock' \in Instances \cup {None}
        /\ installed' \subseteq Versions /\ schema' \in [Versions -> {0, 1}]
        /\ admin' \in {"none", "user", "admin"}
    BY DEF Inv, TypeOK, Steps
  <2>2. seen' \in [Instances -> SUBSET Versions] /\ tx' \in [Instances -> SUBSET Versions]
    BY DEF Inv, TypeOK
  <2>3. job' \in [Instances -> 0..Jobs]
    BY JobsAssumption DEF Inv, TypeOK
  <2>4. \A v \in Versions : schema'[v] = 1 <=> v \in installed'
    BY DEF Inv, TypeOK
  <2>5. \A j \in Instances : pc'[j] \in {"read", "migrate"} => lock' = j
    BY DEF Inv, TypeOK
  <2> QED BY <2>1, <2>2, <2>3, <2>4, <2>5 DEF TypeOK
<1>2. InstanceOK(i)'
  BY DEF Inv, TypeOK, InstanceOK
<1>3. \A j \in Instances \ {i} : /\ pc'[j] = pc[j] /\ tx'[j] = tx[j] /\ seen'[j] = seen[j]
                                 /\ release'[j] = release[j]
  BY DEF Inv, TypeOK
<1> QED BY <1>1, <1>2, <1>3, OneMoves

(* A step that changes only where an instance is, and not to or from a     *)
(* transaction that it has under way.                                      *)
LEMMA GotoInv ==
  ASSUME Inv, NEW i \in Instances, NEW step \in Steps \ {"migrate", "read"}, Goto(i, step),
         UNCHANGED <<config, release, installed, schema, seen, tx, faults>>, pc[i] # "migrate",
         ledger' \in {"absent", "open", "there"}, creator' \in Instances \cup {None}, lock' = lock,
         admin' \in {"none", "user", "admin"}, job' \in [Instances -> 0..Jobs], InstanceOK(i)'
  PROVE  Inv'
<1>1. TypeOK'
  BY DEF Inv, TypeOK, Goto
<1>2. \A j \in Instances \ {i} : pc'[j] = pc[j]
  BY DEF Inv, TypeOK, Goto
<1> QED BY <1>1, <1>2, OneMoves

(* From the start of the process to the migration lock.                    *)
LEMMA OpeningStep ==
  ASSUME Inv, NEW i \in Instances,
         \/ Start(i) \/ Open(i) \/ CreateLedger(i) \/ CreateLedgerAgain(i) \/ LedgerCollides(i)
         \/ AcquireMigrationLock(i)
  PROVE  Inv'
<1>a. TypeOK /\ InstanceOK(i)
  BY DEF Inv
<1>1. CASE Start(i)
  <2>1. PICK step \in {"down", "open", "bare"} :
          /\ Goto(i, step)
          /\ step # "down" => config.accepted
          /\ step = "open" => config.database
          /\ step = "bare" => ~config.database
    BY <1>1 DEF Start
  <2>2. pc'[i] = step
    BY <1>a, <2>1 DEF TypeOK, Goto
  <2>3. InstanceOK(i)'
    BY <1>a, <1>1, <2>1, <2>2 DEF Start, InstanceOK
  <2> QED BY <1>a, <1>1, <2>1, <2>3, GotoInv DEF Start, TypeOK, Steps, database
<1>2. CASE Open(i)
  <2>1. InstanceOK(i)'
    BY <1>a, <1>2 DEF Open, InstanceOK, Goto, TypeOK, database
  <2> QED BY <1>a, <1>2, <2>1, GotoInv DEF Open, TypeOK, Steps, database
<1>3. CASE CreateLedger(i)
  <2>1. PICK step \in {"lock", "wait"} : Goto(i, step)
    BY <1>3 DEF CreateLedger
  <2>2. InstanceOK(i)'
    BY <1>a, <1>3, <2>1 DEF CreateLedger, InstanceOK, Goto, TypeOK
  <2> QED BY <1>a, <1>3, <2>1, <2>2, GotoInv DEF CreateLedger, TypeOK, Steps
<1>4. CASE CreateLedgerAgain(i)
  <2>1. InstanceOK(i)'
    BY <1>a, <1>4 DEF CreateLedgerAgain, InstanceOK, Goto, TypeOK
  <2> QED BY <1>a, <1>4, <2>1, GotoInv DEF CreateLedgerAgain, TypeOK, Steps
<1>5. CASE LedgerCollides(i)
  BY <1>a, <1>5, ExitInv DEF LedgerCollides, TypeOK
<1>6. CASE AcquireMigrationLock(i)
  <2>1. TypeOK'
    BY <1>a, <1>6, NoneAssumption DEF AcquireMigrationLock, TypeOK, Goto, Steps
  <2>2. InstanceOK(i)' /\ \A j \in Instances \ {i} : pc'[j] = pc[j]
    BY <1>a, <1>6 DEF AcquireMigrationLock, TypeOK, Goto, InstanceOK
  <2> QED BY <1>6, <2>1, <2>2, OneMoves DEF AcquireMigrationLock
<1> QED BY <1>1, <1>2, <1>3, <1>4, <1>5, <1>6

(* The commit: what was executed is installed, and was not before.         *)
LEMMA CommitInv ==
  ASSUME Inv, NEW i \in Instances, Commit(i)
  PROVE  Inv'
<1>a. TypeOK /\ InstanceOK(i) /\ pc[i] = "migrate" /\ lock = i
  BY DEF Inv, TypeOK, Commit
<1>b. tx[i] \cap installed = {} /\ seen[i] \subseteq installed /\ tx[i] \subseteq Versions
      /\ config.accepted /\ config.database
  BY <1>a DEF InstanceOK, TypeOK
<1>1. schema' \in [Versions -> {0, 1}] /\ (\A v \in Versions : schema'[v] = 1 <=> v \in installed')
  <2> SUFFICES ASSUME NEW v \in Versions
               PROVE  /\ schema[v] + (IF v \in tx[i] THEN 1 ELSE 0) \in {0, 1}
                      /\ schema[v] + (IF v \in tx[i] THEN 1 ELSE 0) = 1 <=> v \in installed \cup tx[i]
    BY DEF Commit
  <2>1. schema[v] \in {0, 1} /\ (schema[v] = 1 <=> v \in installed)
    BY <1>a DEF TypeOK
  <2>2. v \in tx[i] => v \notin installed
    BY <1>b
  <2> QED BY <2>1, <2>2
<1>2. /\ pc' = [pc EXCEPT ![i] = "compose"] /\ installed' = installed \cup tx[i] /\ lock' = None
      /\ seen' = [seen EXCEPT ![i] = {}] /\ tx' = [tx EXCEPT ![i] = {}]
      /\ UNCHANGED <<config, release>>
  BY DEF Commit, Goto
<1>3. \A j \in Instances \ {i} : /\ pc'[j] = pc[j] /\ tx'[j] = tx[j] /\ seen'[j] = seen[j]
                                 /\ release'[j] = release[j]
  BY <1>a, <1>2 DEF TypeOK
<1>4. \A j \in Instances : pc'[j] \in {"read", "migrate"} => lock' = j
  BY <1>a, <1>2, <1>3 DEF TypeOK
<1>5. TypeOK'
  BY <1>a, <1>b, <1>1, <1>2, <1>4 DEF Commit, TypeOK, Steps
<1>6. Embedded(i) \subseteq installed'
  BY <1>b, <1>2 DEF Commit, Missing
<1>7. InstanceOK(i)'
  BY <1>a, <1>b, <1>2, <1>6 DEF InstanceOK, Embedded, TypeOK
<1> QED BY <1>a, <1>2, <1>3, <1>5, <1>7, OneMoves

(* Under the migration lock.                                               *)
LEMMA ApplyStep ==
  ASSUME Inv, NEW i \in Instances,
         ReadInstalled(i) \/ MigrationDrift(i) \/ ApplyMigration(i) \/ Commit(i)
  PROVE  Inv'
<1>a. TypeOK /\ InstanceOK(i)
  BY DEF Inv
<1>1. CASE ReadInstalled(i)
  <2>1. TypeOK'
    BY <1>a, <1>1 DEF ReadInstalled, TypeOK, Goto, Steps, database
  <2>2. InstanceOK(i)'
    BY <1>a, <1>1 DEF ReadInstalled, TypeOK, Goto, InstanceOK, database
  <2>3. \A j \in Instances \ {i} : pc'[j] = pc[j] /\ seen'[j] = seen[j]
    BY <1>a, <1>1 DEF ReadInstalled, TypeOK, Goto
  <2> QED BY <1>1, <2>1, <2>2, <2>3, OneMoves DEF ReadInstalled, database
<1>2. CASE MigrationDrift(i)
  BY <1>a, <1>2, ExitInv DEF MigrationDrift, TypeOK
<1>3. CASE ApplyMigration(i)
  <2> DEFINE v == CHOOSE w \in Missing(i) : \A x \in Missing(i) : w <= x
  <2>1. tx' = [tx EXCEPT ![i] = tx[i] \cup {v}] /\ v \notin installed /\ pc[i] = "migrate"
    BY <1>3 DEF ApplyMigration
  <2>2. v \in Versions
    <3>1. Missing(i) \subseteq Versions /\ Missing(i) \in SUBSET Nat /\ Missing(i) # {}
      BY <1>a, <1>3, EmbeddedVersions DEF Missing, ApplyMigration
    <3>2. \E w \in Missing(i) : \A x \in Missing(i) : w <= x
      BY <3>1, LeastExists
    <3> QED BY <3>1, <3>2
  <2> HIDE DEF v
  <2>3. TypeOK'
    BY <1>a, <1>3, <2>1, <2>2 DEF ApplyMigration, TypeOK, database
  <2>4. InstanceOK(i)'
    BY <1>a, <1>3, <2>1 DEF ApplyMigration, TypeOK, InstanceOK, database
  <2>5. \A j \in Instances \ {i} : tx'[j] = tx[j]
    BY <1>a, <2>1 DEF TypeOK
  <2> QED BY <1>3, <2>3, <2>4, <2>5, OneMoves DEF ApplyMigration, database
<1>4. CASE Commit(i)
  BY <1>4, CommitInv
<1> QED BY <1>1, <1>2, <1>3, <1>4

(* From the migrated database to serving.                                  *)
LEMMA ComposeStep ==
  ASSUME Inv, NEW i \in Instances,
         New(i) \/ EnsureBootstrapAdmin(i) \/ CreateBootstrapAdmin(i)
  PROVE  Inv'
<1>a. TypeOK /\ InstanceOK(i)
  BY DEF Inv
<1>b. 1 \in 0..Jobs
  BY JobsAssumption
<1>c. ASSUME Serves(i), pc[i] \in {"seed", "create"}, admin' \in {"none", "user", "admin"},
             UNCHANGED <<config, release, database, seen, tx, faults>>
      PROVE  Inv'
  <2>1. job' \in [Instances -> 0..Jobs] /\ Goto(i, "serving")
    BY <1>a, <1>b, <1>c DEF Serves, TypeOK
  <2>2. InstanceOK(i)'
    BY <1>a, <1>c, <2>1 DEF TypeOK, Goto, InstanceOK, Embedded, database
  <2> QED BY <1>a, <1>c, <2>1, <2>2, GotoInv DEF TypeOK, Steps, database
<1>1. CASE New(i)
  <2>1. CASE Exit(i)
    BY <1>a, <1>1, <2>1, ExitInv DEF New, TypeOK
  <2>2. CASE Goto(i, "seed") /\ UNCHANGED <<config, release, database, seen, tx, admin, job>>
    <3>1. InstanceOK(i)'
      BY <1>a, <1>1, <2>2 DEF New, TypeOK, Goto, InstanceOK, Embedded, database
    <3> QED BY <1>a, <1>1, <2>2, <3>1, GotoInv DEF New, TypeOK, Steps, database
  <2> QED BY <1>1, <2>1, <2>2 DEF New
<1>2. CASE EnsureBootstrapAdmin(i)
  <2>1. CASE Exit(i)
    BY <1>a, <1>2, <2>1, ExitInv DEF EnsureBootstrapAdmin, TypeOK
  <2>2. CASE Serves(i) /\ UNCHANGED <<config, release, database, seen, tx, admin>>
    BY <1>a, <1>2, <2>2, <1>c DEF EnsureBootstrapAdmin, TypeOK
  <2>3. CASE Goto(i, "create") /\ UNCHANGED <<config, release, database, seen, tx, admin, job>>
    <3>1. InstanceOK(i)'
      BY <1>a, <1>2, <2>3 DEF EnsureBootstrapAdmin, TypeOK, Goto, InstanceOK, Embedded, database
    <3> QED BY <1>a, <1>2, <2>3, <3>1, GotoInv DEF EnsureBootstrapAdmin, TypeOK, Steps, database
  <2> QED BY <1>2, <2>1, <2>2, <2>3 DEF EnsureBootstrapAdmin
<1>3. CASE CreateBootstrapAdmin(i)
  BY <1>a, <1>3, <1>c DEF CreateBootstrapAdmin, TypeOK
<1> QED BY <1>1, <1>2, <1>3

(* Serving, faults, and the end of the process.                            *)
LEMMA ServingStep ==
  ASSUME Inv, NEW i \in Instances,
         Fault(i) \/ RunJob(i) \/ Ticker(i) \/ Signal(i) \/ Shutdown(i) \/ Deploy(i)
  PROVE  Inv'
<1>a. TypeOK /\ InstanceOK(i)
  BY DEF Inv
<1>1. CASE Fault(i)
  <2>1. faults' \in 0..MaxFaults
    BY <1>a, <1>1, JobsAssumption DEF Fault, TypeOK
  <2> QED BY <1>1, <2>1, ExitInv DEF Fault
<1>2. ASSUME job' \in [Instances -> 0..Jobs],
             UNCHANGED <<config, release, pc, database, seen, tx, admin, faults>>
      PROVE  Inv'
  <2>1. TypeOK'
    BY <1>a, <1>2 DEF TypeOK, database
  <2>2. InstanceOK(i)'
    BY <1>a, <1>2 DEF InstanceOK, Embedded, database
  <2> QED BY <1>2, <2>1, <2>2, OneMoves DEF database
<1>3. CASE RunJob(i)
  <2>1. \A k \in 0..Jobs : Following(k) \in 0..Jobs
    BY JobsAssumption DEF Following
  <2>2. job' \in [Instances -> 0..Jobs]
    BY <1>a, <1>3, <2>1 DEF RunJob, TypeOK
  <2> QED BY <1>2, <1>3, <2>2 DEF RunJob
<1>4. CASE Ticker(i)
  <2>1. job' \in [Instances -> 0..Jobs]
    BY <1>a, <1>4, JobsAssumption DEF Ticker, TypeOK
  <2> QED BY <1>2, <1>4, <2>1 DEF Ticker
<1>5. CASE Signal(i)
  <2>1. job' \in [Instances -> 0..Jobs]
    BY <1>a, <1>5, JobsAssumption DEF Signal, TypeOK
  <2>2. InstanceOK(i)'
    BY <1>a, <1>5 DEF Signal, TypeOK, Goto, InstanceOK, Embedded, database
  <2> QED BY <1>a, <1>5, <2>1, <2>2, GotoInv DEF Signal, TypeOK, Steps, database
<1>6. CASE Shutdown(i)
  BY <1>a, <1>6, ExitInv DEF Shutdown, TypeOK
<1>7. CASE Deploy(i)
  <2>1. TypeOK'
    BY <1>a, <1>7 DEF Deploy, TypeOK, Releases, database
  <2>2. InstanceOK(i)' /\ \A j \in Instances \ {i} : release'[j] = release[j]
    BY <1>a, <1>7 DEF Deploy, TypeOK, InstanceOK, database
  <2> QED BY <1>7, <2>1, <2>2, OneMoves DEF Deploy, database
<1> QED BY <1>1, <1>3, <1>4, <1>5, <1>6, <1>7

(* Only the bootstrap account changes, or nothing does.                    *)
LEMMA AccountStep == Inv /\ (AccountChanges \/ UNCHANGED vars) => Inv'
<1> SUFFICES ASSUME Inv, AccountChanges \/ UNCHANGED vars PROVE Inv'
  OBVIOUS
<1>1. /\ UNCHANGED <<config, release, pc, ledger, creator, lock, installed, schema, seen, tx, job, faults>>
      /\ admin' \in {"none", "user", "admin"}
  BY DEF Inv, TypeOK, AccountChanges, vars, database
<1>2. TypeOK' /\ ConfigInv'
  BY <1>1 DEF Inv, TypeOK, ConfigInv
<1>3. \A i \in Instances : InstanceOK(i)'
  BY <1>1, RestKept DEF Inv
<1> QED BY <1>2, <1>3 DEF Inv

(* The invariant holds throughout.                                         *)
LEMMA Invariance == Spec => []Inv
<1>1. Inv /\ [Next]_vars => Inv'
  BY OpeningStep, ApplyStep, ComposeStep, ServingStep, AccountStep DEF Next, StartStep
<1> QED BY InitInv, <1>1, PTL DEF Spec

(* The ledger's rows are the migrations that the schema has, each executed *)
(* once, and only the holder of the migration lock reads them, whichever   *)
(* instances start, fail and die (Runner.Apply).                           *)
THEOREM TypeCorrect == Spec => []TypeOK
BY Invariance, PTL DEF Inv

(* An instance serves only with all its release's migrations in place and a*)
(* configuration fit for its environment (main, Runner.Apply, config.Load).*)
THEOREM FitToServe == Spec => []ServesWhenFit
<1>1. Inv => ServesWhenFit
  BY DEF Inv, ConfigInv, InstanceOK, ServesWhenFit
<1> QED BY Invariance, <1>1, PTL

-----------------------------------------------------------------------------
(* Waiting in Runner.Apply.  The ledger is created before the migration    *)
(* lock is taken, so a start can wait for another one twice: at the ledger *)
(* for the transaction that has created it, and at the lock for its        *)
(* holder.  The waits never close into a circle: the creator of the ledger *)
(* never waits for anyone else, the holder of the lock is always past its  *)
(* waits, both are given up with the process, and no ledger row that the   *)
(* holder writes is refused by the table's key.                            *)
NoCircularWait ==
  /\ lock # None => pc[lock] \in {"read", "migrate"}
  /\ ledger = "open" <=> creator # None
  /\ creator # None => pc[creator] \in {"lock", "read", "migrate"} /\ lock \in {None, creator}
  /\ \A i \in Instances : pc[i] = "migrate" => Missing(i) \cap installed = {}

(* Past the ledger an instance has found it there or has created it, and   *)
(* a migrating instance has read all its rows.                             *)
PastLedger == {"lock", "read", "migrate"}
WaitOK ==
  /\ lock # None => pc[lock] \in {"read", "migrate"}
  /\ ledger = "open" <=> creator # None
  /\ creator # None => pc[creator] \in PastLedger
  /\ \A i \in Instances : pc[i] \in PastLedger => ledger = "there" \/ creator = i
  /\ \A i \in Instances : pc[i] = "migrate" => installed \subseteq seen[i]

(* At the start nobody waits or holds anything.                            *)
LEMMA WaitInit == Init => WaitOK
BY DEF Init, WaitOK, PastLedger

(* Steps outside the transaction leave everything as it is.                *)
LEMMA WaitKept ==
  ASSUME TypeOK, WaitOK, UNCHANGED <<ledger, creator, lock, installed>>,
         \A i \in Instances : pc[i] \in PastLedger \/ pc'[i] \in PastLedger
                              => pc'[i] = pc[i] /\ seen'[i] = seen[i]
  PROVE  WaitOK'
BY DEF TypeOK, WaitOK, PastLedger

(* A process that ends gives up the ledger it created and the lock.        *)
LEMMA WaitExit ==
  ASSUME TypeOK, WaitOK, NEW i \in Instances, Exit(i)
  PROVE  WaitOK'
<1>1. /\ pc'[i] = "down"
      /\ \A j \in Instances \ {i} : pc'[j] = pc[j] /\ seen'[j] = seen[j]
      /\ installed' = installed
  BY DEF Exit, Goto, TypeOK
<1>2. /\ lock' = IF lock = i THEN None ELSE lock
      /\ ledger' = IF creator = i THEN "absent" ELSE ledger
      /\ creator' = IF creator = i THEN None ELSE creator
  BY DEF Exit, Rollback
<1>3. /\ lock \in Instances \cup {None} /\ creator \in Instances \cup {None}
      /\ i # None
  BY NoneAssumption DEF TypeOK
<1> QED BY <1>1, <1>2, <1>3 DEF WaitOK, PastLedger

(* A step of an instance towards serving.                                  *)
LEMMA WaitStart ==
  ASSUME TypeOK, WaitOK, NEW i \in Instances, StartStep(i)
  PROVE  WaitOK'
<1> USE NoneAssumption
<1>0. /\ pc \in [Instances -> Steps] /\ seen \in [Instances -> SUBSET Versions]
      /\ lock \in Instances \cup {None} /\ creator \in Instances \cup {None}
  BY DEF TypeOK
<1>1. CASE Start(i) \/ Open(i)
  <2>1. pc[i] \notin PastLedger /\ \A j \in Instances \ {i} : pc'[j] = pc[j]
    BY <1>0, <1>1 DEF Start, Open, Goto, PastLedger
  <2>2. pc'[i] \notin PastLedger
    BY <1>0, <1>1 DEF Start, Open, Goto, PastLedger
  <2> QED BY <1>1, <2>1, <2>2, WaitKept DEF Start, Open, database
<1>2. CASE CreateLedger(i) \/ CreateLedgerAgain(i)
  <2>1. /\ pc[i] \notin PastLedger /\ \A j \in Instances \ {i} : pc'[j] = pc[j]
        /\ UNCHANGED <<lock, installed, seen>>
    BY <1>0, <1>2 DEF CreateLedger, CreateLedgerAgain, Goto, PastLedger
  <2>2. \/ /\ ledger = "absent" /\ ledger' = "open" /\ creator' = i /\ pc'[i] = "lock"
        \/ ledger = "there" /\ pc'[i] = "lock" /\ UNCHANGED <<ledger, creator>>
        \/ pc'[i] = "wait" /\ UNCHANGED <<ledger, creator>>
    BY <1>0, <1>2 DEF CreateLedger, CreateLedgerAgain, Goto
  <2> QED BY <1>0, <2>1, <2>2 DEF WaitOK, PastLedger
<1>3. CASE LedgerCollides(i) \/ MigrationDrift(i)
  BY <1>3, WaitExit DEF LedgerCollides, MigrationDrift
<1>4. CASE AcquireMigrationLock(i)
  <2>1. /\ pc[i] = "lock" /\ pc'[i] = "read" /\ \A j \in Instances \ {i} : pc'[j] = pc[j]
        /\ lock' = i /\ UNCHANGED <<ledger, creator, installed, seen>>
    BY <1>0, <1>4 DEF AcquireMigrationLock, Goto
  <2> QED BY <1>0, <2>1 DEF WaitOK, PastLedger
<1>5. CASE ReadInstalled(i)
  <2>1. /\ pc[i] = "read" /\ pc'[i] = "migrate" /\ seen'[i] = installed
        /\ \A j \in Instances \ {i} : pc'[j] = pc[j] /\ seen'[j] = seen[j]
        /\ UNCHANGED <<ledger, creator, lock, installed>>
    BY <1>0, <1>5 DEF ReadInstalled, Goto, database
  <2> QED BY <1>0, <2>1 DEF WaitOK, PastLedger
<1>6. CASE ApplyMigration(i)
  BY <1>6, WaitKept DEF ApplyMigration, database
<1>7. CASE Commit(i)
  <2>1. /\ pc'[i] = "compose" /\ \A j \in Instances \ {i} : pc'[j] = pc[j]
        /\ ledger' = "there" /\ creator' = None /\ lock' = None
    BY <1>0, <1>7 DEF Commit, Goto
  <2>2. \A j \in Instances \ {i} : pc[j] # "migrate"
    BY <1>7 DEF Commit, TypeOK
  <2> QED BY <1>0, <2>1, <2>2 DEF WaitOK, PastLedger
<1>8. CASE New(i) \/ EnsureBootstrapAdmin(i) \/ CreateBootstrapAdmin(i)
  <2>1. CASE Exit(i)
    BY <2>1, WaitExit
  <2>2. CASE ~Exit(i)
    <3>1. UNCHANGED <<ledger, creator, lock, installed, seen>>
      BY <1>8, <2>2 DEF New, EnsureBootstrapAdmin, CreateBootstrapAdmin, database
    <3>2. PICK step \in {"seed", "create", "serving"} : Goto(i, step)
      BY <1>8, <2>2 DEF New, EnsureBootstrapAdmin, CreateBootstrapAdmin, Serves
    <3>3. pc[i] \notin PastLedger
      BY <1>8 DEF New, EnsureBootstrapAdmin, CreateBootstrapAdmin, PastLedger
    <3>4. \A j \in Instances : pc[j] \in PastLedger \/ pc'[j] \in PastLedger => pc'[j] = pc[j]
      BY <1>0, <3>2, <3>3 DEF Goto, PastLedger
    <3> QED BY <3>1, <3>4, WaitKept
  <2> QED BY <2>1, <2>2
<1> QED BY <1>1, <1>2, <1>3, <1>4, <1>5, <1>6, <1>7, <1>8 DEF StartStep

(* Any step at all.                                                        *)
LEMMA WaitNext == TypeOK /\ WaitOK /\ [Next]_vars => WaitOK'
<1> SUFFICES ASSUME TypeOK, WaitOK, [Next]_vars PROVE WaitOK'
  OBVIOUS
<1>1. CASE \E i \in Instances : StartStep(i)
  BY <1>1, WaitStart
<1>2. CASE \E i \in Instances : Fault(i) \/ Shutdown(i)
  BY <1>2, WaitExit DEF Fault, Shutdown
<1>3. CASE \E i \in Instances : Signal(i)
  <2>1. PICK i \in Instances : Signal(i)
    BY <1>3
  <2>2. \A j \in Instances : pc[j] \in PastLedger \/ pc'[j] \in PastLedger => pc'[j] = pc[j]
    BY <2>1 DEF Signal, Goto, TypeOK, PastLedger
  <2> QED BY <2>1, <2>2, WaitKept DEF Signal, database
<1>4. CASE \/ \E i \in Instances : RunJob(i) \/ Ticker(i) \/ Deploy(i)
           \/ AccountChanges \/ UNCHANGED vars
  <2>1. UNCHANGED <<ledger, creator, lock, installed, pc, seen>>
    BY <1>4 DEF RunJob, Ticker, Deploy, AccountChanges, vars, database
  <2> QED BY <2>1, WaitKept
<1> QED BY <1>1, <1>2, <1>3, <1>4 DEF Next

(* However many instances start at once over a new or an old database, and *)
(* whichever of them die, none is left waiting for a process that waits    *)
(* itself or is gone (Runner.Apply, acquireMigrationLock).                 *)
THEOREM StartsDoNotBlock == Spec => []NoCircularWait
<1>1. TypeOK /\ WaitOK => NoCircularWait
  <2> SUFFICES ASSUME TypeOK, WaitOK PROVE NoCircularWait
    OBVIOUS
  <2>1. creator # None => lock \in {None, creator}
    BY DEF TypeOK, WaitOK, PastLedger
  <2>2. \A i \in Instances : pc[i] = "migrate" => Missing(i) \cap installed = {}
    BY DEF WaitOK, Missing
  <2> QED BY <2>1, <2>2 DEF WaitOK, NoCircularWait, PastLedger
<1> QED BY TypeCorrect, WaitInit, WaitNext, <1>1, PTL DEF Spec

-----------------------------------------------------------------------------
(* The usage queue of one process: for any finite set of requests, any     *)
(* capacity and any number of retries it stays well formed and within its  *)
(* capacity, and its counters account for every event.  The invariant adds *)
(* to the two properties that a request still on its way has no outcome    *)
(* yet and that the worker holds an event exactly while it stores one.     *)

(* A request has no outcome before it is done.                             *)
Undecided == \A r \in Requests : place[r] # "done" => outcome[r] = "none"

(* The worker holds an event while it stores one or waits to try again.    *)
InHand == worker.event # NoEvent <=> worker.state \in {"storing", "backoff"}

QueueInv == QueueTypeOK /\ Undecided /\ InHand /\ EveryEventCounted

(* Only finitely many requests have come to any one result.                *)
LEMMA BecameFinite ==
  \A result : IsFiniteSet({r \in Requests : outcome[r] = result})
              /\ Became(result) \in Nat
BY FS_Subset, FS_CardinalityType, RequestsAssumption DEF Became

(* A request that finishes raises the count of its result by one and no    *)
(* other.                                                                  *)
LEMMA FinishCounts ==
  ASSUME QueueTypeOK, Undecided, NEW r \in Requests, NEW result \in Outcomes \ {"none"},
         place[r] # "done", Finish(r, result)
  PROVE  /\ Became(result)' = Became(result) + 1
         /\ \A other \in Outcomes \ {"none", result} : Became(other)' = Became(other)
         /\ Undecided'
         /\ place' \in [Requests -> Positions]
         /\ outcome' \in [Requests -> Outcomes]
<1>1. outcome[r] = "none" /\ outcome \in [Requests -> Outcomes] /\ place \in [Requests -> Positions]
  BY DEF QueueTypeOK, Undecided
<1>2. place' \in [Requests -> Positions] /\ outcome' \in [Requests -> Outcomes] /\ Undecided'
  BY <1>1 DEF Finish, Positions, Outcomes, Undecided
<1>3. {q \in Requests : outcome'[q] = result} = {q \in Requests : outcome[q] = result} \cup {r}
  BY <1>1 DEF Finish
<1>4. r \notin {q \in Requests : outcome[q] = result}
  BY <1>1
<1>5. Became(result)' = Became(result) + 1
  <2> DEFINE S == {q \in Requests : outcome[q] = result}
  <2>1. IsFiniteSet(S)
    BY BecameFinite
  <2>2. Cardinality(S \cup {r}) = Cardinality(S) + 1
    <3> HIDE DEF S
    <3>1. r \notin S
      BY <1>4 DEF S
    <3> QED BY <2>1, <3>1, FS_AddElement
  <2>3. Became(result)' = Cardinality(S \cup {r})
    BY <1>3 DEF Became
  <2> QED BY <2>2, <2>3 DEF Became
<1>6. ASSUME NEW other \in Outcomes \ {"none", result} PROVE Became(other)' = Became(other)
  <2>1. {q \in Requests : outcome'[q] = other} = {q \in Requests : outcome[q] = other}
    BY <1>1 DEF Finish
  <2> QED BY <2>1 DEF Became
<1> QED BY <1>2, <1>5, <1>6

(* The number of events in the worker's hands.                             *)
HeldEvents == IF worker.event = NoEvent THEN 0 ELSE 1

(* The same account with what the worker holds as a number of its own.     *)
LEMMA Account ==
  EveryEventCounted <=>
    /\ Became("accepted") = Len(events) + HeldEvents + stats.recorded + stats.failed
    /\ Became("dropped") = stats.dropped
BY DEF EveryEventCounted, HeldEvents

(* All its terms are numbers.                                              *)
LEMMA QueueNumbers ==
  ASSUME QueueTypeOK
  PROVE  /\ Len(events) \in Nat /\ HeldEvents \in Nat
         /\ stats.recorded \in Nat /\ stats.failed \in Nat /\ stats.dropped \in Nat
BY DEF QueueTypeOK, HeldEvents, Stats

(* The queue starts empty, open and with nothing counted.                  *)
LEMMA QueueInitInv == QueueInit => QueueInv
<1> SUFFICES ASSUME QueueInit PROVE QueueInv
  OBVIOUS
<1>1. QueueTypeOK
  <2>1. /\ place \in [Requests -> Positions] /\ outcome \in [Requests -> Outcomes]
        /\ rows \in [Requests -> Nat]
    BY DEF QueueInit, Positions, Outcomes
  <2>2. events \in Seq(Requests) /\ Len(events) <= Capacity
    BY CapacityAssumption DEF QueueInit
  <2>3. worker \in Worker
    BY DEF QueueInit, Waiting, Worker
  <2>4. stats \in Stats
    BY DEF QueueInit, Stats
  <2>5. /\ closed \in BOOLEAN /\ cancelled \in BOOLEAN
        /\ server \in {"serving", "draining", "closed", "exited"}
    BY DEF QueueInit
  <2> QED BY <2>1, <2>2, <2>3, <2>4, <2>5 DEF QueueTypeOK
<1>2. Undecided /\ InHand
  BY DEF QueueInit, Undecided, InHand, Waiting
<1>3. /\ {r \in Requests : outcome[r] = "accepted"} = {}
      /\ {r \in Requests : outcome[r] = "dropped"} = {}
  BY DEF QueueInit
<1>4. EveryEventCounted
  <2>1. Became("accepted") = 0 /\ Became("dropped") = 0
    BY <1>3, FS_EmptySet DEF Became
  <2>2. Len(events) = 0 /\ worker.event = NoEvent
    BY DEF QueueInit, Waiting
  <2>3. stats.recorded = 0 /\ stats.failed = 0 /\ stats.dropped = 0
    BY DEF QueueInit
  <2> QED BY <2>1, <2>2, <2>3 DEF EveryEventCounted
<1> QED BY <1>1, <1>2, <1>4 DEF QueueInv

(* A step that leaves queue, worker, counters and outcomes alone.          *)
LEMMA QuietInv ==
  ASSUME QueueInv, UNCHANGED <<outcome, events, worker, rows, stats>>, QueueTypeOK', Undecided'
  PROVE  QueueInv'
BY DEF QueueInv, InHand, EveryEventCounted, Became

(* Requests: only Send puts an event into the channel, and only GiveUp     *)
(* drops one; both count it.                                               *)
LEMMA RequestInv ==
  ASSUME QueueInv, NEW r \in Requests, Request(r)
  PROVE  QueueInv'
<1>t. QueueTypeOK /\ Undecided /\ InHand /\ EveryEventCounted
  BY DEF QueueInv
<1>1. CASE Accept(r) \/ Respond(r)
  <2>1. QueueTypeOK' /\ Undecided'
    BY <1>1, <1>t DEF Accept, Respond, QueueTypeOK, Undecided, Positions
  <2> QED BY <2>1, <1>1, QuietInv DEF Accept, Respond
<1>2. CASE EnqueueUsage(r)
  <2>1. CASE Finish(r, "refused")
    <3>1. /\ \A other \in Outcomes \ {"none", "refused"} : Became(other)' = Became(other)
          /\ Undecided' /\ place' \in [Requests -> Positions] /\ outcome' \in [Requests -> Outcomes]
      BY <2>1, <1>2, <1>t, FinishCounts DEF EnqueueUsage, Outcomes
    <3>2. QueueTypeOK' /\ InHand'
      BY <3>1, <1>2, <1>t DEF EnqueueUsage, QueueTypeOK, InHand
    <3>3. EveryEventCounted'
      BY <3>1, <1>2, <1>t DEF EnqueueUsage, EveryEventCounted, Outcomes
    <3> QED BY <3>1, <3>2, <3>3 DEF QueueInv
  <2>2. CASE place' = [place EXCEPT ![r] = "sending"] /\ UNCHANGED outcome
    <3>1. QueueTypeOK' /\ Undecided'
      BY <1>2, <2>2, <1>t DEF EnqueueUsage, QueueTypeOK, Undecided, Positions
    <3> QED BY <3>1, <1>2, <2>2, QuietInv DEF EnqueueUsage
  <2> QED BY <1>2, <2>1, <2>2 DEF EnqueueUsage
<1>3. CASE Send(r)
  <2>1. /\ Became("accepted")' = Became("accepted") + 1
        /\ Became("dropped")' = Became("dropped")
        /\ Undecided' /\ place' \in [Requests -> Positions] /\ outcome' \in [Requests -> Outcomes]
    BY <1>3, <1>t, FinishCounts DEF Send, Outcomes
  <2>2. events' \in Seq(Requests) /\ Len(events') = Len(events) + 1 /\ Len(events) \in Nat
    BY <1>3, <1>t DEF Send, QueueTypeOK
  <2>3. Len(events') <= Capacity
    BY <2>2, <1>3, CapacityAssumption DEF Send
  <2>4. QueueTypeOK' /\ InHand'
    BY <2>1, <2>2, <2>3, <1>3, <1>t DEF Send, QueueTypeOK, InHand
  <2>5. EveryEventCounted'
    <3>1. HeldEvents' = HeldEvents /\ stats' = stats
      BY <1>3 DEF Send, HeldEvents
    <3>2. Became("accepted")' = Len(events') + HeldEvents' + stats'.recorded + stats'.failed
      BY <3>1, <2>1, <2>2, <1>t, Account, QueueNumbers
    <3>3. Became("dropped")' = stats'.dropped
      BY <3>1, <2>1, <1>t, Account
    <3> QED BY <3>2, <3>3 DEF EveryEventCounted, HeldEvents
  <2> QED BY <2>1, <2>4, <2>5 DEF QueueInv
<1>4. CASE SendOnClosed(r)
  <2>1. /\ \A other \in Outcomes \ {"none", "panicked"} : Became(other)' = Became(other)
        /\ Undecided' /\ place' \in [Requests -> Positions] /\ outcome' \in [Requests -> Outcomes]
    BY <1>4, <1>t, FinishCounts DEF SendOnClosed, Outcomes
  <2>2. QueueTypeOK' /\ InHand'
    BY <2>1, <1>4, <1>t DEF SendOnClosed, QueueTypeOK, InHand
  <2>3. EveryEventCounted'
    BY <2>1, <1>4, <1>t DEF SendOnClosed, EveryEventCounted, Outcomes
  <2> QED BY <2>1, <2>2, <2>3 DEF QueueInv
<1>5. CASE GiveUp(r)
  <2>1. /\ Became("dropped")' = Became("dropped") + 1
        /\ Became("accepted")' = Became("accepted")
        /\ Undecided' /\ place' \in [Requests -> Positions] /\ outcome' \in [Requests -> Outcomes]
    BY <1>5, <1>t, FinishCounts DEF GiveUp, Outcomes
  <2>2. /\ stats' \in Stats /\ stats'.dropped = stats.dropped + 1
        /\ stats'.recorded = stats.recorded /\ stats'.failed = stats.failed
    <3>1. stats \in Stats /\ stats' = [stats EXCEPT !.dropped = @ + 1]
      BY <1>5, <1>t DEF GiveUp, QueueTypeOK
    <3> QED BY <3>1 DEF Stats
  <2>3. QueueTypeOK' /\ InHand'
    BY <2>1, <2>2, <1>5, <1>t DEF GiveUp, QueueTypeOK, InHand
  <2>4. EveryEventCounted'
    <3>1. HeldEvents' = HeldEvents /\ events' = events
      BY <1>5 DEF GiveUp, HeldEvents
    <3>2. Became("accepted")' = Len(events') + HeldEvents' + stats'.recorded + stats'.failed
      BY <3>1, <2>1, <2>2, <1>t, Account
    <3>3. Became("dropped")' = stats'.dropped
      BY <2>1, <2>2, <1>t, Account
    <3> QED BY <3>2, <3>3 DEF EveryEventCounted, HeldEvents
  <2> QED BY <2>1, <2>3, <2>4 DEF QueueInv
<1> QED BY <1>1, <1>2, <1>3, <1>4, <1>5 DEF Request

(* The worker: an event leaves its hands as recorded or as failed.         *)
LEMMA WorkInv ==
  ASSUME QueueInv, Work
  PROVE  QueueInv'
<1>t. QueueTypeOK /\ Undecided /\ InHand /\ EveryEventCounted
  BY DEF QueueInv
<1>b. /\ Became("accepted")' = Became("accepted") /\ Became("dropped")' = Became("dropped")
      /\ Undecided'
  BY <1>t DEF Work, Receive, Stop, RecordUsageEvent, RecordError, Backoff, Became, Undecided
<1>1. CASE Receive
  <2>1. /\ Head(events) \in Requests /\ Tail(events) \in Seq(Requests)
        /\ Len(Tail(events)) = Len(events) - 1 /\ Len(events) \in Nat
    BY <1>1, <1>t DEF Receive, QueueTypeOK
  <2>2. worker.event = NoEvent /\ worker'.event = Head(events) /\ Head(events) # NoEvent
    BY <1>1, <2>1, <1>t, NoEventAssumption DEF Receive, InHand
  <2>3. QueueTypeOK' /\ InHand'
    BY <1>1, <2>1, <2>2, <1>t, CapacityAssumption DEF Receive, QueueTypeOK, Worker, InHand
  <2>4. EveryEventCounted'
    BY <1>1, <1>b, <2>1, <2>2, <1>t DEF Receive, EveryEventCounted, QueueTypeOK, Stats
  <2> QED BY <1>b, <2>3, <2>4 DEF QueueInv
<1>2. CASE Stop
  <2>1. /\ worker.event = NoEvent /\ worker'.event = NoEvent
        /\ worker'.state = "stopped" /\ worker' \in Worker
    BY <1>2, <1>t DEF Stop, InHand, Waiting, Worker
  <2>2. QueueTypeOK' /\ InHand' /\ EveryEventCounted'
    BY <1>2, <1>b, <2>1, <1>t DEF Stop, QueueTypeOK, InHand, EveryEventCounted
  <2> QED BY <1>b, <2>2 DEF QueueInv
<1>3. CASE RecordUsageEvent
  <2>1. worker.event \in Requests /\ worker.event # NoEvent
    BY <1>3, <1>t DEF RecordUsageEvent, InHand, QueueTypeOK, Worker
  <2>2. worker' \in Worker /\ worker'.event = NoEvent /\ worker'.state = "waiting"
    BY <1>3 DEF RecordUsageEvent, Waiting, Worker
  <2>3. /\ stats' \in Stats /\ stats'.recorded = stats.recorded + 1
        /\ stats'.failed = stats.failed /\ stats'.dropped = stats.dropped
    BY <1>3, <1>t DEF RecordUsageEvent, QueueTypeOK, Stats
  <2>4. rows' \in [Requests -> Nat]
    BY <1>3, <2>1, <1>t DEF RecordUsageEvent, QueueTypeOK
  <2>5. QueueTypeOK' /\ InHand'
    BY <1>3, <2>2, <2>3, <2>4, <1>t DEF RecordUsageEvent, QueueTypeOK, InHand
  <2>6. EveryEventCounted'
    BY <1>3, <1>b, <2>1, <2>2, <2>3, <1>t
       DEF RecordUsageEvent, EveryEventCounted, QueueTypeOK, Stats
  <2> QED BY <1>b, <2>5, <2>6 DEF QueueInv
<1>4. CASE RecordError
  <2>1. worker.event \in Requests /\ worker.event # NoEvent /\ worker \in Worker
    BY <1>4, <1>t DEF RecordError, InHand, QueueTypeOK, Worker
  <2>2. rows' \in [Requests -> Nat]
    BY <1>4, <2>1, <1>t DEF RecordError, QueueTypeOK
  <2>3. CASE worker' = Waiting /\ stats' = [stats EXCEPT !.failed = @ + 1]
    <3>1. worker' \in Worker /\ worker'.event = NoEvent /\ worker'.state = "waiting"
      BY <2>3 DEF Waiting, Worker
    <3>2. /\ stats' \in Stats /\ stats'.failed = stats.failed + 1
          /\ stats'.recorded = stats.recorded /\ stats'.dropped = stats.dropped
      <4>1. stats \in Stats
        BY <1>t DEF QueueTypeOK
      <4> QED BY <2>3, <4>1 DEF Stats
    <3>3. QueueTypeOK' /\ InHand'
      BY <1>4, <2>2, <3>1, <3>2, <1>t DEF RecordError, QueueTypeOK, InHand
    <3>4. EveryEventCounted'
      BY <1>4, <1>b, <2>1, <3>1, <3>2, <1>t DEF RecordError, EveryEventCounted, QueueTypeOK, Stats
    <3> QED BY <1>b, <3>3, <3>4 DEF QueueInv
  <2>4. CASE worker' = [worker EXCEPT !.state = "backoff"] /\ UNCHANGED stats
    <3>1. worker' \in Worker /\ worker'.event = worker.event /\ worker'.state = "backoff"
      BY <2>4, <2>1 DEF Worker
    <3>2. QueueTypeOK' /\ InHand' /\ EveryEventCounted'
      BY <1>4, <1>b, <2>1, <2>2, <2>4, <3>1, <1>t
         DEF RecordError, QueueTypeOK, InHand, EveryEventCounted
    <3> QED BY <1>b, <3>2 DEF QueueInv
  <2> QED BY <1>4, <2>3, <2>4 DEF RecordError, AfterError
<1>5. CASE Backoff
  <2>1. worker' \in Worker /\ worker'.event = worker.event /\ worker'.state = "storing"
    <3>1. worker \in Worker /\ worker.attempt + 1 \in Nat
      BY <1>t DEF QueueTypeOK, Worker
    <3> QED BY <1>5, <3>1 DEF Backoff, Worker
  <2>2. QueueTypeOK' /\ InHand' /\ EveryEventCounted'
    BY <1>5, <1>b, <2>1, <1>t DEF Backoff, QueueTypeOK, InHand, EveryEventCounted
  <2> QED BY <1>b, <2>2 DEF QueueInv
<1> QED BY <1>1, <1>2, <1>3, <1>4, <1>5 DEF Work

(* The invariant is inductive: signals and shutdown touch no event.        *)
LEMMA QueueNextInv == QueueInv /\ [QueueNext]_queueVars => QueueInv'
<1> SUFFICES ASSUME QueueInv, [QueueNext]_queueVars PROVE QueueInv'
  OBVIOUS
<1>1. CASE \E r \in Requests : Request(r)
  BY <1>1, RequestInv
<1>2. CASE Work
  BY <1>2, WorkInv
<1>3. CASE ServerShutdown \/ CancelContext \/ ServeFails \/ UNCHANGED queueVars
  <2>1. QueueTypeOK' /\ Undecided'
    BY <1>3 DEF QueueInv, QueueTypeOK, Undecided, ServerShutdown, Drain, CloseDependencies,
                MainReturns, CancelContext, ServeFails, queueVars
  <2>2. UNCHANGED <<outcome, events, worker, rows, stats>>
    BY <1>3 DEF ServerShutdown, Drain, CloseDependencies, MainReturns, CancelContext,
                ServeFails, queueVars
  <2> QED BY <2>1, <2>2, QuietInv
<1> QED BY <1>1, <1>2, <1>3 DEF QueueNext

(* The channel never exceeds its capacity and nothing is malformed, for    *)
(* every capacity, number of retries and finite set of requests.           *)
THEOREM QueueTypeCorrect == QueueSpec => []QueueTypeOK
<1>1. QueueInv => QueueTypeOK
  BY DEF QueueInv
<1> QED BY QueueInitInv, QueueNextInv, <1>1, PTL DEF QueueSpec

(* UsageQueue.Stats accounts for every event EnqueueUsage has accepted or  *)
(* dropped, through storage errors, retries and shutdown.                  *)
THEOREM CountersCorrect == QueueSpec => []EveryEventCounted
<1>1. QueueInv => EveryEventCounted
  BY DEF QueueInv
<1> QED BY QueueInitInv, QueueNextInv, <1>1, PTL DEF QueueSpec

-----------------------------------------------------------------------------
(* Retries and rows.  The insert of a usage event has no key of its own:   *)
(* an insert whose answer is lost is tried again and stores the event      *)
(* twice.  What bounds the copies is persist's attempts, and that the      *)
(* worker never meets an event again.                                      *)

(* An event is stored at most once for each attempt, and not at all when   *)
(* EnqueueUsage refused or dropped it.                                     *)
StoredWithinRetries ==
  \A r \in Requests : rows[r] <= Retries /\ (outcome[r] # "accepted" => rows[r] = 0)

(* What waits in the channel has been accepted, once, and not yet stored.  *)
PendingOK ==
  /\ \A k \in 1..Len(events) : /\ outcome[events[k]] = "accepted" /\ rows[events[k]] = 0
                               /\ worker.event # events[k]
  /\ \A k, l \in 1..Len(events) : events[k] = events[l] => k = l

(* Attempts that are over: attempt counts from 0.                          *)
Attempts == worker.attempt + (IF worker.state = "backoff" THEN 1 ELSE 0)

HandOK ==
  worker.event # NoEvent =>
    /\ outcome[worker.event] = "accepted"
    /\ Attempts < Retries /\ rows[worker.event] <= Attempts

RowsInv == StoredWithinRetries /\ PendingOK /\ HandOK

(* Nothing is stored or pending at the start.                              *)
LEMMA RowsInit == QueueInit => RowsInv
<1> SUFFICES ASSUME QueueInit PROVE RowsInv
  OBVIOUS
<1>1. StoredWithinRetries
  BY RetriesAssumption DEF QueueInit, StoredWithinRetries
<1>2. Len(events) = 0 /\ worker.event = NoEvent
  BY DEF QueueInit, Waiting
<1> QED BY <1>1, <1>2 DEF RowsInv, PendingOK, HandOK

(* Steps that store nothing and take nothing from the channel.             *)
LEMMA RowsKept ==
  ASSUME QueueTypeOK, RowsInv, UNCHANGED <<events, worker, rows>>,
         \A r \in Requests : outcome[r] = "accepted" => outcome'[r] = "accepted"
  PROVE  RowsInv'
<1>1. events \in Seq(Requests) /\ \A k \in 1..Len(events) : events[k] \in Requests
  BY DEF QueueTypeOK
<1>2. StoredWithinRetries'
  BY DEF RowsInv, StoredWithinRetries
<1>3. PendingOK'
  BY <1>1 DEF RowsInv, PendingOK
<1>4. HandOK'
  BY DEF RowsInv, HandOK, Attempts, QueueTypeOK, Worker
<1> QED BY <1>2, <1>3, <1>4 DEF RowsInv

(* Requests: the one that sends is not in the queue yet.                   *)
LEMMA RowsRequest ==
  ASSUME QueueInv, RowsInv, NEW r \in Requests, Request(r)
  PROVE  RowsInv'
<1>t. QueueTypeOK /\ outcome \in [Requests -> Outcomes] /\ Undecided
  BY DEF QueueInv, QueueTypeOK
<1>1. CASE ~Send(r)
  <2>1. UNCHANGED <<events, worker, rows>>
    BY <1>1 DEF Request, Accept, Respond, EnqueueUsage, SendOnClosed, GiveUp
  <2>2. \/ UNCHANGED outcome
        \/ place[r] # "done" /\ \E result : outcome' = [outcome EXCEPT ![r] = result]
    BY <1>1 DEF Request, Accept, Respond, EnqueueUsage, SendOnClosed, GiveUp, Finish
  <2>3. \A q \in Requests : outcome[q] = "accepted" => outcome'[q] = "accepted"
    BY <2>2, <1>t DEF Undecided
  <2> QED BY <2>1, <2>3, <1>t, RowsKept
<1>2. CASE Send(r)
  <2>1. /\ events' = Append(events, r) /\ UNCHANGED <<worker, rows>>
        /\ outcome' = [outcome EXCEPT ![r] = "accepted"] /\ outcome[r] = "none"
    BY <1>2, <1>t DEF Send, Finish, Undecided
  <2>2. /\ events \in Seq(Requests) /\ Len(events) \in Nat /\ Len(events') = Len(events) + 1
        /\ \A k \in 1..Len(events) : events'[k] = events[k] /\ events[k] \in Requests
        /\ events'[Len(events) + 1] = r
    BY <2>1, <1>t DEF QueueTypeOK
  <2>3. rows[r] = 0 /\ worker.event # r /\ \A k \in 1..Len(events) : events[k] # r
    BY <2>1, NoEventAssumption DEF RowsInv, StoredWithinRetries, PendingOK, HandOK
  <2>4. \A q \in Requests : outcome'[q] = IF q = r THEN "accepted" ELSE outcome[q]
    BY <2>1, <1>t
  <2>5. StoredWithinRetries'
    BY <2>1, <2>4 DEF RowsInv, StoredWithinRetries
  <2>6. \A k \in 1..Len(events') : k \in 1..Len(events) \/ k = Len(events) + 1
    BY <2>2
  <2>7. PendingOK'
    <3>1. \A k \in 1..Len(events') : /\ outcome'[events'[k]] = "accepted" /\ rows'[events'[k]] = 0
                                     /\ worker'.event # events'[k]
      BY <2>1, <2>2, <2>3, <2>4, <2>6 DEF RowsInv, PendingOK
    <3>2. \A k, l \in 1..Len(events') : events'[k] = events'[l] => k = l
      BY <2>2, <2>3, <2>6 DEF RowsInv, PendingOK
    <3> QED BY <3>1, <3>2 DEF PendingOK
  <2>8. HandOK'
    BY <2>1, <2>4, <1>t DEF RowsInv, HandOK, Attempts, QueueTypeOK, Worker
  <2> QED BY <2>5, <2>7, <2>8 DEF RowsInv
<1> QED BY <1>1, <1>2

(* The worker: each attempt stores at most one row, and an event it is     *)
(* done with is in no other place.                                         *)
LEMMA RowsWork ==
  ASSUME QueueInv, RowsInv, Work
  PROVE  RowsInv'
<1>t. /\ QueueTypeOK /\ InHand /\ worker \in Worker /\ rows \in [Requests -> Nat]
      /\ outcome' = outcome /\ events \in Seq(Requests) /\ Retries \in Nat \ {0}
  BY RetriesAssumption
     DEF QueueInv, QueueTypeOK, Work, Receive, Stop, RecordUsageEvent, RecordError, Backoff
<1>e. Len(events) \in Nat /\ \A k \in 1..Len(events) : events[k] \in Requests
  BY <1>t
<1>1. CASE Receive
  <2>1. /\ worker'.event = Head(events) /\ worker'.attempt = 0 /\ worker'.state = "storing"
        /\ events' = Tail(events) /\ rows' = rows /\ events # <<>>
    BY <1>1 DEF Receive
  <2>2. /\ Head(events) = events[1] /\ Len(events) # 0 /\ 1 \in 1..Len(events)
        /\ Len(events') = Len(events) - 1
        /\ \A k \in 1..Len(events') : events'[k] = events[k + 1] /\ k + 1 \in 1..Len(events)
    BY <2>1, <1>t, <1>e
  <2>3. outcome[events[1]] = "accepted" /\ rows[events[1]] = 0
    BY <2>2 DEF RowsInv, PendingOK
  <2>4. HandOK'
    BY <2>1, <2>2, <2>3, <1>t DEF HandOK, Attempts
  <2>5. PendingOK'
    <3>1. \A k \in 1..Len(events') : /\ outcome'[events'[k]] = "accepted" /\ rows'[events'[k]] = 0
                                     /\ worker'.event # events'[k]
      BY <2>1, <2>2, <1>t DEF RowsInv, PendingOK
    <3>2. \A k, l \in 1..Len(events') : events'[k] = events'[l] => k = l
      BY <2>2 DEF RowsInv, PendingOK
    <3> QED BY <3>1, <3>2 DEF PendingOK
  <2> QED BY <2>1, <2>4, <2>5, <1>t DEF RowsInv, StoredWithinRetries
<1>2. CASE Stop
  <2>1. worker'.event = NoEvent /\ UNCHANGED <<events, rows>>
    BY <1>2 DEF Stop, Waiting
  <2>2. PendingOK'
    BY <2>1, <1>t, <1>e, NoEventAssumption DEF RowsInv, PendingOK
  <2> QED BY <2>1, <2>2, <1>t DEF RowsInv, HandOK, StoredWithinRetries
<1>3. CASE RecordUsageEvent \/ RecordError
  <2> DEFINE e == worker.event
  <2>1. e \in Requests /\ e # NoEvent /\ worker.state = "storing" /\ worker.attempt \in Nat
    BY <1>3, <1>t DEF RecordUsageEvent, RecordError, InHand, Worker
  <2>2. outcome[e] = "accepted" /\ worker.attempt < Retries /\ rows[e] <= worker.attempt
    BY <2>1 DEF RowsInv, HandOK, Attempts
  <2>3. /\ rows' = rows \/ rows' = [rows EXCEPT ![e] = @ + 1]
        /\ events' = events
    BY <1>3 DEF RecordUsageEvent, RecordError
  <2>4. /\ rows'[e] \in Nat /\ rows'[e] <= worker.attempt + 1
        /\ \A q \in Requests \ {e} : rows'[q] = rows[q]
    BY <2>1, <2>2, <2>3, <1>t
  <2>5. \A k \in 1..Len(events) : events[k] # e
    BY DEF RowsInv, PendingOK
  <2>6. StoredWithinRetries'
    <3>1. worker.attempt + 1 <= Retries /\ rows'[e] <= Retries
      BY <2>1, <2>2, <2>4, <1>t
    <3> HIDE DEF e
    <3> QED BY <2>2, <2>4, <3>1, <1>t DEF RowsInv, StoredWithinRetries
  <2>7. \/ worker' = Waiting
        \/ worker' = [worker EXCEPT !.state = "backoff"] /\ ~(worker.attempt + 1 >= Retries)
    BY <1>3 DEF RecordUsageEvent, RecordError, AfterError
  <2>8. \/ worker'.event = NoEvent
        \/ /\ worker'.event = e /\ worker'.state = "backoff" /\ worker'.attempt = worker.attempt
           /\ worker.attempt + 1 < Retries
    BY <2>1, <2>7, <1>t DEF Waiting, Worker
  <2>9. HandOK'
    BY <2>1, <2>2, <2>4, <2>8, <1>t DEF HandOK, Attempts
  <2>10. PendingOK'
    BY <2>1, <2>3, <2>4, <2>5, <2>8, <1>t, <1>e, NoEventAssumption DEF RowsInv, PendingOK
  <2> QED BY <2>6, <2>9, <2>10 DEF RowsInv
<1>4. CASE Backoff
  <2>1. /\ worker'.event = worker.event /\ worker.state = "backoff" /\ worker'.state = "storing"
        /\ worker'.attempt = worker.attempt + 1 /\ UNCHANGED <<events, rows>>
        /\ worker.attempt \in Nat
    BY <1>4, <1>t DEF Backoff, Worker
  <2>2. HandOK'
    BY <2>1, <1>t DEF RowsInv, HandOK, Attempts
  <2> QED BY <2>1, <2>2, <1>t DEF RowsInv, PendingOK, StoredWithinRetries
<1> QED BY <1>1, <1>2, <1>3, <1>4 DEF Work

(* Whatever storage errors and lost answers there are, one request leaves  *)
(* at most Retries rows, and none unless its event was accepted            *)
(* (UsageQueue.persist, EnqueueUsage).                                     *)
THEOREM RowsBounded == QueueSpec => []StoredWithinRetries
<1>1. QueueInv /\ RowsInv /\ [QueueNext]_queueVars => RowsInv'
  <2> SUFFICES ASSUME QueueInv, RowsInv, [QueueNext]_queueVars PROVE RowsInv'
    OBVIOUS
  <2>1. CASE \E r \in Requests : Request(r)
    BY <2>1, RowsRequest
  <2>2. CASE Work
    BY <2>2, RowsWork
  <2>3. CASE ServerShutdown \/ CancelContext \/ ServeFails \/ UNCHANGED queueVars
    <3>1. UNCHANGED <<outcome, events, worker, rows>>
      BY <2>3 DEF ServerShutdown, Drain, CloseDependencies, MainReturns, CancelContext,
                  ServeFails, queueVars
    <3> QED BY <3>1, RowsKept DEF QueueInv
  <2> QED BY <2>1, <2>2, <2>3 DEF QueueNext
<1>2. RowsInv => StoredWithinRetries
  BY DEF RowsInv
<1> QED BY QueueInitInv, QueueNextInv, RowsInit, <1>1, <1>2, PTL DEF QueueSpec
=============================================================================
