------------------------------ MODULE Lifecycle ------------------------------
(***************************************************************************)
(* The life of the application's processes over one database: load the     *)
(* configuration, open the database, migrate it, compose the services, seed*)
(* the bootstrap administrator, serve beside the maintenance worker, stop. *)
(* Several instances do so side by side, of two releases, and any of them  *)
(* may die, time out or be told to stop; whoever runs them starts them     *)
(* again.                                                                  *)
(*                                                                         *)
(* A configuration is kept as far as the steps after Load tell one from    *)
(* another.                                                                *)
(***************************************************************************)
EXTENDS Integers, FiniteSets

CONSTANTS
  Instances,  \* processes
  Known,      \* the migrations embedded in each release, "old" and "new"
  Jobs,       \* number of maintenance jobs
  MaxFaults,  \* bound: failed statements, timeouts and crashes
  None        \* no instance

Releases == {"old", "new"}
Versions == Known["old"] \cup Known["new"]

ASSUME KnownAssumption == Known \in [Releases -> SUBSET Nat] /\ Known["old"] \subseteq Known["new"]
ASSUME JobsAssumption == Jobs \in Nat \ {0} /\ MaxFaults \in Nat
ASSUME NoneAssumption == None \notin Instances

VARIABLES
  config,     \* what Load makes of the deployment's environment
  release,    \* the release each instance runs
  pc,         \* the step each instance takes next
  ledger,     \* schema_migrations: absent, created by an open transaction, or there
  creator,    \* that transaction's instance
  lock,       \* the holder of the migration lock
  installed,  \* the ledger's rows
  schema,     \* how often each migration has been executed, committed ones only
  seen, tx,   \* what each Apply has read of the ledger, and executed since
  admin,      \* the account with the bootstrap administrator's address
  job,        \* the maintenance job each instance is at; 0: it waits for the ticker
  faults      \* faults so far

database == <<ledger, creator, lock, installed, schema>>
vars == <<config, release, pc, database, seen, tx, admin, job, faults>>

-----------------------------------------------------------------------------
(* The settings that Load looks at, each with the values it tells apart.   *)
(* A blank secret is set and all spaces, a relay without host is a port, a *)
(* named address carries a display name, and http is a complete provider   *)
(* with a redirect or account URL that is not https.  Settings that are    *)
(* only malformed or not are left out.                                     *)
Environments ==
  [production : BOOLEAN, https : BOOLEAN, cookie : {"default", "off"}, database : BOOLEAN,
   secret : BOOLEAN, mail : {"none", "relay", "hostless", "resend", "both"}, from : BOOLEAN,
   budget : {"default", "high"}, admin : {"none", "half", "named", "plain"},
   google : {"none", "half", "blank", "http", "set"}, mode : {"local", "provider", "client"},
   hydra : BOOLEAN, issuer : {"none", "http", "https"}, client : {"none", "part", "http", "set"}]

(* The checks of Load that hold in every environment.                      *)
Consistent(e) ==
  /\ e.admin # "half" /\ (e.admin # "none" => ~e.production)
  /\ e.mail # "both"
  /\ e.google # "half"

(* applyAuthMode: the settings of another role are refused.                *)
RoleFits(e) ==
  /\ e.hydra => e.mode = "provider"
  /\ e.issuer # "none" => e.mode # "local"
  /\ e.client # "none" => e.mode = "client"
  /\ e.mode # "local" => e.database /\ e.issuer # "none"
  /\ e.mode = "provider" => e.hydra
  /\ e.mode = "client" => e.client \in {"http", "set"} /\ e.google = "none"

ValidateProduction(e) ==
  e.production =>
    /\ e.cookie # "off" /\ e.https /\ e.database /\ e.secret
    /\ e.mail # "none" /\ (e.mail = "resend" => e.from)
    /\ e.budget = "default"
    /\ e.google # "http"
    /\ e.mode # "local" => e.issuer = "https"
    /\ e.mode = "client" => e.client # "http"

(* app.New over the loaded configuration: NewGoogleClient trims the secret *)
(* that Load took as it was, and NewSMTPSender wants a host, which Load    *)
(* does not ask for.                                                       *)
NewGoogleClient(e) == e.google # "blank"
NewSMTPSender(e) == e.mail # "hostless"
Composes(e) == (e.production => e.mail # "none") /\ NewSMTPSender(e) /\ NewGoogleClient(e)

(* What production relies on once it serves: sessions and sign-ins only    *)
(* over TLS, mail that leaves the process, no account with a configured    *)
(* password.                                                               *)
Fit(e) ==
  e.production => e.database /\ e.secret /\ e.https /\ e.cookie # "off" /\ e.mail # "none"
                  /\ e.admin = "none" /\ e.issuer # "http" /\ e.google # "http" /\ e.client # "http"

Refused == [accepted |-> FALSE, database |-> FALSE, admin |-> "none", composes |-> FALSE, fit |-> TRUE]

Load(e) ==
  IF Consistent(e) /\ RoleFits(e) /\ ValidateProduction(e)
  THEN [accepted |-> TRUE, database |-> e.database, admin |-> e.admin, composes |-> Composes(e),
        fit |-> Fit(e)]
  ELSE Refused

(* At the start no instance runs.  The database is new, or has the old     *)
(* release's migrations.                                                   *)
Init ==
  /\ config \in {Load(e) : e \in Environments}
  /\ release \in [Instances -> Releases]
  /\ pc = [i \in Instances |-> "down"]
  /\ \/ ledger = "absent" /\ installed = {}
     \/ ledger = "there" /\ installed = Known["old"]
  /\ creator = None /\ lock = None
  /\ schema = [v \in Versions |-> IF v \in installed THEN 1 ELSE 0]
  /\ seen = [i \in Instances |-> {}] /\ tx = [i \in Instances |-> {}]
  /\ admin = "none"
  /\ job = [i \in Instances |-> 0]
  /\ faults = 0

-----------------------------------------------------------------------------
Goto(i, step) == pc' = [pc EXCEPT ![i] = step]

Embedded(i) == Known[release[i]]

(* The open transaction ends without a commit: the ledger it created and   *)
(* the lock go.                                                            *)
Rollback(i) ==
  /\ lock' = IF lock = i THEN None ELSE lock
  /\ ledger' = IF creator = i THEN "absent" ELSE ledger
  /\ creator' = IF creator = i THEN None ELSE creator

(* log.Fatal, or the process is killed.                                    *)
Exit(i) ==
  /\ Goto(i, "down")
  /\ Rollback(i)
  /\ seen' = [seen EXCEPT ![i] = {}] /\ tx' = [tx EXCEPT ![i] = {}]
  /\ job' = [job EXCEPT ![i] = 0]
  /\ UNCHANGED <<config, release, installed, schema, admin>>

(* main, up to the migrations.  A configuration that is refused ends the   *)
(* process; without a database only a bare router serves.                  *)
Start(i) ==
  /\ pc[i] = "down"
  /\ Goto(i, CASE ~config.accepted -> "down"
               [] config.accepted /\ config.database -> "open"
               [] config.accepted /\ ~config.database -> "bare")
  /\ UNCHANGED <<config, release, database, seen, tx, admin, job, faults>>

Open(i) ==
  /\ pc[i] = "open"
  /\ Goto(i, "ledger")
  /\ UNCHANGED <<config, release, database, seen, tx, admin, job, faults>>

-----------------------------------------------------------------------------
(* Runner.Apply, one transaction.  CREATE TABLE IF NOT EXISTS comes before *)
(* the lock: while another open transaction has created the table, it      *)
(* waits, and fails if that one commits.                                   *)
CreateLedger(i) ==
  /\ pc[i] = "ledger"
  /\ \/ /\ ledger = "absent"
        /\ ledger' = "open" /\ creator' = i /\ Goto(i, "lock")
     \/ ledger = "there" /\ Goto(i, "lock") /\ UNCHANGED <<ledger, creator>>
     \/ ledger = "open" /\ Goto(i, "wait") /\ UNCHANGED <<ledger, creator>>
  /\ UNCHANGED <<config, release, lock, installed, schema, seen, tx, admin, job, faults>>

CreateLedgerAgain(i) ==
  /\ pc[i] = "wait" /\ ledger = "absent"
  /\ ledger' = "open" /\ creator' = i
  /\ Goto(i, "lock")
  /\ UNCHANGED <<config, release, lock, installed, schema, seen, tx, admin, job, faults>>

LedgerCollides(i) ==
  /\ pc[i] = "wait" /\ ledger = "there"
  /\ Exit(i)
  /\ UNCHANGED faults

AcquireMigrationLock(i) ==
  /\ pc[i] = "lock" /\ lock = None
  /\ lock' = i
  /\ Goto(i, "read")
  /\ UNCHANGED <<config, release, ledger, creator, installed, schema, seen, tx, admin, job, faults>>

(* Everything up to the newest row counts as installed.                    *)
ReadNewest(i) ==
  /\ pc[i] = "read" /\ installed \subseteq Embedded(i)
  /\ seen' = [seen EXCEPT ![i] = {v \in Embedded(i) : \E w \in installed : v <= w}]
  /\ Goto(i, "migrate")
  /\ UNCHANGED <<config, release, database, tx, admin, job, faults>>

(* readInstalled and validateInstalled: a row that the release does not    *)
(* know ends the start.                                                    *)
ReadInstalled(i) ==
  /\ pc[i] = "read" /\ installed \subseteq Embedded(i)
  /\ seen' = [seen EXCEPT ![i] = installed]
  /\ Goto(i, "migrate")
  /\ UNCHANGED <<config, release, database, tx, admin, job, faults>>

MigrationDrift(i) ==
  /\ pc[i] = "read" /\ ~(installed \subseteq Embedded(i))
  /\ Exit(i)
  /\ UNCHANGED faults

Missing(i) == Embedded(i) \ (seen[i] \cup tx[i])

(* The migration's statements take effect at once, its ledger row with the *)
(* commit.                                                                 *)
ApplyImplicitly(i) ==
  /\ pc[i] = "migrate" /\ Missing(i) # {}
  /\ LET v == CHOOSE v \in Missing(i) : \A w \in Missing(i) : v <= w
     IN  /\ tx' = [tx EXCEPT ![i] = @ \cup {v}]
         /\ schema' = [schema EXCEPT ![v] = @ + 1]
  /\ UNCHANGED <<config, release, pc, ledger, creator, lock, installed, seen, admin, job, faults>>

(* One missing migration, in version order: its statements and its row.    *)
(* The row's key would refuse a second.                                    *)
ApplyMigration(i) ==
  /\ pc[i] = "migrate" /\ Missing(i) # {}
  /\ LET v == CHOOSE v \in Missing(i) : \A w \in Missing(i) : v <= w
     IN  v \notin installed /\ tx' = [tx EXCEPT ![i] = @ \cup {v}]
  /\ UNCHANGED <<config, release, pc, database, seen, admin, job, faults>>

(* The lock is the connection's and outlives the transaction.              *)
CommitKeepsLock(i) ==
  /\ pc[i] = "migrate" /\ Missing(i) = {}
  /\ installed' = installed \cup tx[i]
  /\ schema' = [v \in Versions |-> schema[v] + (IF v \in tx[i] THEN 1 ELSE 0)]
  /\ ledger' = "there" /\ creator' = None /\ UNCHANGED lock
  /\ seen' = [seen EXCEPT ![i] = {}] /\ tx' = [tx EXCEPT ![i] = {}]
  /\ Goto(i, "compose")
  /\ UNCHANGED <<config, release, admin, job, faults>>

Commit(i) ==
  /\ pc[i] = "migrate" /\ Missing(i) = {}
  /\ installed' = installed \cup tx[i]
  /\ schema' = [v \in Versions |-> schema[v] + (IF v \in tx[i] THEN 1 ELSE 0)]
  /\ ledger' = "there" /\ creator' = None /\ lock' = None
  /\ seen' = [seen EXCEPT ![i] = {}] /\ tx' = [tx EXCEPT ![i] = {}]
  /\ Goto(i, "compose")
  /\ UNCHANGED <<config, release, admin, job, faults>>

-----------------------------------------------------------------------------
(* app.New, then EnsureBootstrapAdmin, which wants a plain address, finds  *)
(* the account or creates it, and takes a duplicate for success.           *)
New(i) ==
  /\ pc[i] = "compose"
  /\ IF config.composes
     THEN Goto(i, "seed") /\ UNCHANGED <<config, release, database, seen, tx, admin, job>>
     ELSE Exit(i)
  /\ UNCHANGED faults

Serves(i) == Goto(i, "serving") /\ job' = [job EXCEPT ![i] = 1]

EnsureBootstrapAdmin(i) ==
  /\ pc[i] = "seed"
  /\ \/ /\ config.admin = "none" \/ (config.admin = "plain" /\ admin # "none")
        /\ Serves(i) /\ UNCHANGED <<config, release, database, seen, tx, admin>>
     \/ /\ config.admin = "plain" /\ admin = "none"
        /\ Goto(i, "create") /\ UNCHANGED <<config, release, database, seen, tx, admin, job>>
     \/ config.admin = "named" /\ Exit(i)
  /\ UNCHANGED faults

CreateBootstrapAdmin(i) ==
  /\ pc[i] = "create"
  /\ admin' = IF admin = "none" THEN "admin" ELSE admin
  /\ Serves(i)
  /\ UNCHANGED <<config, release, database, seen, tx, faults>>

(* A statement fails, the startup timeout expires, or the process dies.    *)
Fault(i) ==
  /\ pc[i] # "down" /\ faults < MaxFaults
  /\ Exit(i)
  /\ faults' = faults + 1

-----------------------------------------------------------------------------
(* The maintenance worker, MaintenanceWorker.Run: every job in turn, at    *)
(* once and then with each tick.  A job that fails and one that succeeds   *)
(* make the same step: the error is recorded and the next job is run.      *)
Following(k) == IF k = Jobs THEN 0 ELSE k + 1

(* A failure ends the round.                                               *)
RunJobStops(i) ==
  /\ pc[i] = "serving" /\ job[i] # 0
  /\ \E ok \in BOOLEAN : job' = [job EXCEPT ![i] = IF ok THEN Following(@) ELSE 0]
  /\ UNCHANGED <<config, release, pc, database, seen, tx, admin, faults>>

RunJob(i) ==
  /\ pc[i] = "serving" /\ job[i] # 0
  /\ job' = [job EXCEPT ![i] = Following(@)]
  /\ UNCHANGED <<config, release, pc, database, seen, tx, admin, faults>>

Ticker(i) ==
  /\ pc[i] = "serving" /\ job[i] = 0
  /\ job' = [job EXCEPT ![i] = 1]
  /\ UNCHANGED <<config, release, pc, database, seen, tx, admin, faults>>

(* SIGTERM: the listener closes, requests drain, the database is closed    *)
(* and the process ends, within the shutdown timeout.                      *)
Signal(i) ==
  /\ pc[i] \in {"serving", "bare"}
  /\ Goto(i, "draining") /\ job' = [job EXCEPT ![i] = 0]
  /\ UNCHANGED <<config, release, database, seen, tx, admin, faults>>

Shutdown(i) ==
  /\ pc[i] = "draining"
  /\ Exit(i)
  /\ UNCHANGED faults

(* A stopped instance is started again with the new release.               *)
Deploy(i) ==
  /\ pc[i] = "down" /\ release[i] = "old"
  /\ release' = [release EXCEPT ![i] = "new"]
  /\ UNCHANGED <<config, pc, database, seen, tx, admin, job, faults>>

(* Requests of a serving instance change the bootstrap account: somebody   *)
(* signs up with the address, it is demoted, promoted or deleted.          *)
AccountChanges ==
  /\ \E i \in Instances : pc[i] = "serving"
  /\ \E a \in {"none", "user", "admin"} :
       /\ a # admin /\ (a = "admin" => admin = "user")
       /\ admin' = a
  /\ UNCHANGED <<config, release, pc, database, seen, tx, job, faults>>

StartStep(i) ==
  \/ Start(i) \/ Open(i) \/ CreateLedger(i) \/ CreateLedgerAgain(i) \/ LedgerCollides(i)
  \/ AcquireMigrationLock(i) \/ ReadInstalled(i) \/ MigrationDrift(i) \/ ApplyMigration(i)
  \/ Commit(i) \/ New(i) \/ EnsureBootstrapAdmin(i) \/ CreateBootstrapAdmin(i)

Next ==
  \/ \E i \in Instances :
       \/ StartStep(i) \/ Fault(i) \/ RunJob(i) \/ Ticker(i) \/ Signal(i) \/ Shutdown(i)
       \/ Deploy(i)
  \/ AccountChanges

Spec == Init /\ [][Next]_vars

(* Every process keeps running, and one that has ended is started again.   *)
(* Nobody has to stop, deploy or fail.  The lock is granted in turn.       *)
FairSpec ==
  /\ Spec
  /\ \A i \in Instances :
       /\ WF_vars(StartStep(i)) /\ SF_vars(AcquireMigrationLock(i))
       /\ WF_vars(RunJob(i)) /\ WF_vars(Ticker(i)) /\ WF_vars(Shutdown(i))

-----------------------------------------------------------------------------
Steps == {"down", "bare", "open", "ledger", "wait", "lock", "read", "migrate", "compose", "seed",
          "create", "serving", "draining"}

(* Every variable has its type; the ledger's rows are the migrations the   *)
(* schema has, each executed once, whoever died on the way; and only the   *)
(* holder of the migration lock reads the ledger (Runner.Apply).           *)
TypeOK ==
  /\ release \in [Instances -> Releases] /\ pc \in [Instances -> Steps]
  /\ ledger \in {"absent", "open", "there"} /\ creator \in Instances \cup {None}
  /\ lock \in Instances \cup {None}
  /\ installed \subseteq Versions /\ schema \in [Versions -> {0, 1}]
  /\ seen \in [Instances -> SUBSET Versions] /\ tx \in [Instances -> SUBSET Versions]
  /\ admin \in {"none", "user", "admin"}
  /\ job \in [Instances -> 0..Jobs] /\ faults \in 0..MaxFaults
  /\ \A v \in Versions : schema[v] = 1 <=> v \in installed
  /\ \A i \in Instances : pc[i] \in {"read", "migrate"} => lock = i

(* An instance serves only what its configuration and the database allow:  *)
(* every migration of its release is there, however releases overlap and   *)
(* starts fail half way, and production has what it relies on (main,       *)
(* Runner.Apply, config.Load).                                             *)
ServesWhenFit ==
  \A i \in Instances :
    pc[i] \in {"serving", "draining", "bare"} =>
      /\ config.fit
      /\ config.database => Embedded(i) \subseteq installed

(* With a configuration that Load accepts and the services can be built    *)
(* from, an instance does get to serve, in spite of collisions over the    *)
(* ledger, waiting for the lock and a bounded number of faults, unless the *)
(* database has migrations its release does not know (main, Runner.Apply). *)
Startable == config.accepted /\ (config.database => config.composes /\ config.admin # "named")
StartsUnlessOutdated ==
  \A i \in Instances :
    [](Startable => <>(pc[i] \in {"serving", "bare"} \/ ~(installed \subseteq Embedded(i))))

(* An instance that goes on serving comes to every maintenance job again   *)
(* and again, whichever of them fail (MaintenanceWorker.RunOnce).          *)
JobsComeRound ==
  \A i \in Instances, k \in 1..Jobs :
    pc[i] = "serving" ~> job[i] = k \/ pc[i] # "serving"
=============================================================================
