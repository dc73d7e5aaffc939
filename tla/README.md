# A TLA+ verification of goweb

goweb is a Go web application: accounts with password or external sign-in,
groups with invite codes, an administrator area, single sign-on, background
maintenance and usage recording, over PostgreSQL. Its hard part is not any one
handler but many of them at once. Every HTTP request is a goroutine that runs a
handful of SQL statements; transactions run at READ COMMITTED, most writes
replace a whole row under a revision check, and a few invariants ("a group
always keeps at least one administrator") are protected by advisory locks. The
modules here model those requests statement by statement and let them
interleave.

## The system and its components

| Component | State | Operations | Interacts with | What is hard | What makes it correct |
|---|---|---|---|---|---|
| Groups and memberships (`service/group.go`, `store/postgres/groups.go`, `adapter/http/group.go`) | `groups`, `group_members`, the lock `goweb:group:<id>` | create, join, rename, rotate invite, change role, remove, leave | accounts (rights, cascade on deletion), audit | authorisation, target and count are separate reads; whole-row writes; code collisions; the lock | a group keeps an administrator; edits do not undo each other; site-administrator actions are audited; every request is answered |
| Accounts and administrators (`store/postgres/users.go`, `service/admin_accounts.go`, `settings.go`, `guest_upgrade.go`) | `users`, the lock `goweb:administrators` | create, edit, delete, profile, upgrade | every other component reads the row | a first look without the lock; five services rewrite the same row | an administrator remains; a write changes its own fields; the audit names the real change |
| Credentials, sessions, mailed links (`signin.go`, `session.go`, `password_*.go`, `confirmation.go`, `resend.go`, `admin_confirmation.go`) | password hash, confirmation, `sessions`, the token tables, the lock `goweb:sessions:<id>` | sign in and out, change, forgot, redeem, resend, confirm, administrator reset, confirm, send, revoke, delete | accounts, mail, retention | verification is far from the write; uncommitted sessions are invisible to a revocation; links are followed twice | revocation reaches every session; a link works once; a confirmation sticks; only the verified password is replaced |
| Usage queue (`service/usage.go`, `adapter/http/middleware/usage.go`, `store/postgres/usage.go`) | bounded channel, closed flag, counters, `usage_events` | enqueue, record, retry, close | every request; server shutdown | closing while requests send; lost answers; a full queue | no request is harmed; every event is counted; the worker stays alive |
| Server lifecycle, configuration and migrations (`config/config.go`, `cmd/web/main.go`, `app/`, `server/server.go`, `store/migrator.go`) | settings, `schema_migrations`, the migration lock, listener, database handle | load, open, migrate, compose, seed, serve, drain, exit | all | several instances and releases over one database; death between steps; order of shutdown | each migration runs once; nothing serves an incomplete schema or an unfit configuration; start-up and shutdown come to an end |
| Rate limiting and lockout (`rate_limit*.go`, `lockout.go`, `store/postgres/rate_limit.go`) | fixed windows in memory or in PostgreSQL | hit, clear, prune, evict, show | sign-in, sign-up, guests, resets, joins | hits that arrive late or lose their answer, capacity and eviction, window edges | a budget is not exceeded and not forgotten, no key's budget is spent by other keys, the administrator's view tells the truth |
| External identities (`oauth.go`, `sso_client.go`, `admin_identity.go`, `store/postgres/oauth.go`) | `oauth_states`, `oauth_identities`, cookies | start, callback, link, unlink, refresh | accounts, sessions | account and identity are created in two transactions; concurrent unlinks; an address that changes hands | a state works once, for the browser that asked; a confirmed address was vouched for; the last way to sign in stays |
| Guests (`guest*.go`, `store/postgres/guest.go`) | the guest's row, `guest_claim_codes`, its sessions | create, issue, redeem, upgrade, clean up | accounts, sessions, groups, maintenance | redeem against upgrade and clean-up | a revoked code opens nothing; one upgrade wins; only abandoned guests are deleted, and they are |
| Single sign-on (`sso_provider.go`, `sso_client.go`, `adapter/hydra`, `adapter/oidc`) | `sso_login_sessions`, client sessions, Hydra's login sessions | login, consent, logout, back-channel logout, revoke | sessions, Hydra | a loop of remote calls over a list read earlier, each of which may fail | what was granted is on record; a revocation that succeeds has ended it |
| Maintenance and retention (`maintenance.go`, `retention.go`) | the job it is at, tables | scheduled deletions | tokens, sessions, guests, usage | a job that fails; runs beside requests | every job comes round |
| Audit, reports, administrator pages | append-only audit, read-only reports | record, list | all administrator actions | best-effort writes | - |
| HTTP rendering, middleware, localisation, password hashing | none of interest | - | - | stateless | - |

## Modules

One module per component. In the modules about requests a *request* is a
process in a slot: an action picks a form some browser could have submitted
(with the revision the page was rendered with), `pc` names the next statement,
`req` is what the handler carries and has read, each action is one SQL
statement, one committed transaction or one remote call, and `Fail` or `GiveUp`
is the error return from any of them, rolling back what is open. A request that
ends frees its slot. Locks are PostgreSQL's advisory and row locks, held to the
end of their transaction.

* **`Groups`** - `account` stands for the users table as far as groups look at
  it; `SetSiteAdmin` and `DeleteAccount` are what `Accounts` does to it, the
  cascade of the foreign key included. `Creator`, `CreateGroup`: `Create`.
  `Lookup`, `FindOwn`, `CreateMembership`: `Join`. `Authorize`,
  `ActorIsGlobalAdmin`: `requireAdmin`. `FindGroupByID`, `Rename`,
  `RotateInvite`: the whole-row writes. `Target`, `LockGroupMembers`, `Count`,
  `ChangeRole`, `DeleteMembership`, `Reread`, `RecordSiteAdminAction`: role
  changes, removals and departures. `Committed` is a statement or a commit that
  goes through: its answer may be lost (`Erred`), and then the service returns
  an error for a change that was made (`AnswerError`) and writes no audit.
* **`GroupRoster`** - the abstract promise: atomic create, join, promote,
  demote, depart, none of which takes the last administrator away. `Groups`
  implements it (`ImplementsRoster`, mapping each membership to its role).
* **`Accounts`** - the row of every account, read, changed in some fields and
  written back whole; `keepAnotherAdministrator` in its four statements
  (`CheckAdministrator` without the lock, `LockAdministrators`, `CountOthers`,
  `RereadSelf`).
* **`Credentials`** - one account, since every statement and the lock are per
  account. A password is the number of the write that set it. `CreateSession`
  inserts and `CommitSession` commits, so that a revocation in between does not
  see the row. Beside the password there are the ways in through a linked
  identity: `IdentityRequest` is the sign-in at a provider or an issuer, which
  asks for no confirmation, and `Refresh` the client's write of the address and
  of the issuer's word on it. A guest upgrade has opened a session on an
  unconfirmed account before anything here happens, so `Init` has that state.
  Local and client operations may meet in the model, as accounts may have lived
  in both modes. `VerifyCurrent` is one step for the read of the row
  (`password_settings.go:82`) and, for an account without a password, the
  lookup of its recent session that follows (`129`).
* **`AccountSessions`** - the abstract promise about one account's sessions:
  open on an account that exists; close one; revoke all; delete. `Credentials`
  implements it
  (`ImplementsSessions`; a session counts from its insert on, committed or not).
* **`UsageQueue`** - requests, the channel, the worker, the server and the end
  of the process in one module, because what is hard is between them.
  `EnqueueUsage` looks at the closed flag; `Send`, `SendOnClosed` and `GiveUp`
  are the cases of the select that follows outside the mutex. `place` is where
  a request is; the specification is `QueueSpec`, so that the module can be
  extended together with `Lifecycle`.
* **`RateLimiter`** - both stores behind one `Allow`. A key's window is its
  count and its age; time passes with `Tick`. A hit carries the time it was
  made and may be counted up to `StoreTimeout` later, out of order, or be
  counted with its answer lost (`AllowFails`). `MemoryHit` prunes, evicts
  (`EvictOldestUnblocked`) and refuses; `PostgresHit` is the single upsert.
  `SignInRequest` takes the origin's and then the identifier's budget and
  clears both on success; `BudgetRequest` is any other decorator. One key, any
  of them, is `watched`: `hits` (the set of its hits, those of one instant
  numbered) and `left` are its history.
* **`Guests`** - one guest account, its transfer codes and sessions, requests
  of any instance (so `GuestClaimService`'s mutex keeps nobody out), and the
  cleanup transaction in its three steps (`CleanupLock`, `CleanupCheck`,
  `CleanupCommit`), which holds the row meanwhile. `retired`, a history
  variable, is the set of codes revoked by the time an upgrade has swept the
  sessions.
* **`Identities`** - accounts, external identities and states in local and
  client mode. `Callback`, `ConsumeOAuthState`, `FindOAuthIdentity` and then
  the two ways on: `FindUserByEmail`, `CreateUser`, `CreateOAuthIdentity` for
  a subject seen first, `FindUserByID`, `Refresh` or `VerifyLinked` for a known
  one or a link. `UnlinkIdentity` and `RemoveIdentity` start the removal,
  whose transaction is `CountIdentities` and `DeleteOAuthIdentity`. The
  provider's answer is any member of `Profiles`. `former` is the set of
  addresses an account had before administrators entered others: confirmation
  links mailed to them still work, since a link names only the account
  (`ConfirmEmail`). `vouched`, a history variable, is the set of addresses that
  a provider, the reader of a link or an administrator has answered for.
* **`Sso`** - the provider, Hydra and the client for one account and one
  browser. Hydra is external: it keeps login sessions, remembers one, and its
  calls may fail or lose their effect. `BeginLogin` to `CreateSSO` is a
  sign-in; `RevokeUserSessions` to `RevokeConsentSessions` is
  `SessionService.RevokeUser` with the provider's loop of remote calls, and
  `DeleteUser` the deletion that follows it.
* **`Lifecycle`** - instances of two releases over one database. `Load` decides
  over every combination of the settings it tells apart (`Environments`); the
  state keeps what later steps still see of it. `CreateLedger` to `Commit` is
  the migrator's one transaction, `New`, `EnsureBootstrapAdmin` and
  `CreateBootstrapAdmin` what follows, `RunJob` and `Ticker` the maintenance
  worker. `Fault` is a failed statement, the startup timeout or a crash.
* **`MC*`** - symmetry and values of constants for TLC. **`*Proofs`** -
  theorems.

Some definitions have a twin before them (`ReadNewest` before `ReadInstalled`,
`UpdateUserUnchecked` before `UpdateUser`): the twin is the definition with a
plausible bug, used in its place to make sure that a property can fail.

## What is checked with TLC

| Run | Properties | Instance |
|---|---|---|
| `groups_roles` | `GroupKeepsAdmin`, `ImplementsRoster`, `EveryRequestAnswered` | 2 accounts, 1 group, 2 requests, revisions to 2, no symmetry |
| `groups_edits` | `TypeOK`, `OneFieldPerEdit`, `SiteAdminWritesAudited` | 2 accounts of any kind that are granted, revoked and deleted, 2 groups, 2 codes, 2 names, 2 tries, 2 requests |
| `groups_deletion` | `GroupKeepsAdmin`: fails | with account deletion; the shortest trace deletes the creator, the only member |
| `accounts` | `TypeOK`, `AtLeastOneAdministrator`, `EditsKeepOtherFields`, `AuditMatchesChange` | 2 accounts, 2 profiles, 2 requests, revisions to 3 |
| `credentials` | `TypeOK`, `RevokeReachesAll`, `ReplacedPasswordVerified`, `LinkUsedOnce`, `ConfirmationKept` | all operations, those of both modes, but signing out and deletion (which the next run has), 2 sessions, 2 links, 2 requests, revisions to 2, confirmation required |
| `credentials_liveness` | `EveryRequestAnswered` | the operations that take the lock, no symmetry |
| `usage_queue` | `QueueTypeOK`, `EveryEventCounted`, `EventsSettled`, `ShutdownCompletes` | 3 requests, capacity 1, 3 attempts |
| `rate_limits` | `TypeOK`, `TwoWindowBound`, `LockedMeansRefused`, `SpentBudgetHolds`, `RefusedOnlyWhenSpent` | sign-in by 1 name from 1 origin with 2 attempts per window, guest creation with 1, windows of 2 ticks, hits up to 1 tick late, 1 key per limiter in memory, 3 hits on record, 2 requests, both stores |
| `guests` | `TypeOK`, `OldCodeOpensNothing`, `OwnersKeepTheirs`, `AbandonedGuestsGo` | 2 sessions, 2 codes, 2 requests, revisions to 2, both modes, no symmetry |
| `identities` | `TypeOK`, `VerifiedMeansVouched`, `KeepsWayIn`, `LinkedByOwner` | 2 accounts, 2 addresses, 2 subjects, 1 state, 1 browser, 2 requests, both modes |
| `sso` | `TypeOK`, `GrantedIsRecorded`, `RevokeReachesGranted` | 2 login sessions, 2 sign-ins, 1 revocation, deletion included |
| `lifecycle` | `TypeOK`, `ServesWhenFit`, `StartsUnlessOutdated`, `JobsComeRound` | 2 instances, an old release with migrations 1 and 3 and a new one with 1 to 4, 3 jobs, 2 faults, every combination of settings, no symmetry |

**Bounds.** Two requests are what a race needs, and slots are reused, so a
behaviour holds any number of requests of which two are under way. `MaxVersion`
keeps forms from being submitted from later revisions; writes already under way
may pass it (in `Guests` they do not), so the comparison of revisions is
exercised below, at and above it. Two accounts are the last administrator and
somebody else, or the owner of an address and somebody who wants it; two groups
with two codes make collisions and the retry limit happen; two sessions are one
that is visible to a revocation and one that is not; two links are a reset and
a confirmation, or two of a kind, at once; two subjects are what it takes to
unlink the last but one. In the queue three requests are one in the worker's
hands, one in the channel and one waiting for room. A window of two ticks with
hits one tick late puts a hit before, in and after each edge; a store of one
key is full at once. Ages beyond the window and the delay cannot be told
apart, so `RateLimiter` keeps none; three hits are one more than a limit of one
allows in two windows. `MaxCount` counts the watched key to one above its
limit, the others of its limiter to the limit, and keys of other limiters, which
cannot touch it, once. A release that lacks a migration in the
middle of the new one's tells "everything up to the newest" from "what is in
the ledger". The theorems below remove the bounds from what matters most.

**Fairness.** A handler goroutine goes on running: weak fairness of a
request's steps. PostgreSQL serves the waiters of an advisory lock in turn:
strong fairness of the steps that wait for it (in `Credentials` of every step
of a request, and sessions do expire). In `UsageQueue` the worker and the
goroutine in `Serve` go on running, statements end, timers fire and `Shutdown`
keeps its deadline. In `Guests` the maintenance worker keeps coming to the
cleanup job, and a transaction that is tried again and again in the end goes
through (strong fairness of its two later steps, since any attempt may fail).
In `Lifecycle` every process goes on running, a process that has ended is
started again by whoever supervises it, and the migration lock is granted in
turn; faults are bounded. No browser has to submit anything, no statement has
to fail, no handler of `UsageQueue` has to finish, and no signal or deployment
has to come.

**Deadlock** is checked everywhere except in `UsageQueue`, where the process
is meant to end.

## What the models show beside the properties

The failing run, `groups_deletion`, is a finding in `PROJECT.json`: deleting an
account cascades to its memberships past the lock and the count that protect a
group's last administrator, while `gptsummary.md:122` says that a group always
keeps one. The group is left without administrator: in TLC's trace without any
member, since the deleted creator was alone; members of other roles, where
there are some, stay behind in it.

The models contain behaviours that a reader of the code might not expect, and
that no property here forbids:

* A change made on site rights alone can be in the database and not in the
  trail, against `group.go:514-516` and `docs/threat-model.md:37`: an UPDATE or
  a commit whose answer is lost (`group.go:167`, `groups.go:440`) and the second
  read of a role change (`group.go:441`) return an error before the audit.
  `SiteAdminWritesAudited` is therefore about the changes that are answered as
  done. And the actor's role is read before the group lock is awaited and not
  again (`group.go:421`, against `group.go:409-410`).
* Where confirmation is required, only the sign-in with a password asks for it.
  A guest upgrade opens a session on the unconfirmed account it makes
  (`guest_upgrade.go:104-119`), a sign-in through a linked identity does not
  look (`oauth.go:447-461`, `sso_client.go:221`), and a refresh from the issuer
  takes the mark away from an account with open sessions (`sso_client.go:383`).
  So no property says that sessions belong to confirmed accounts;
  `ConfirmationKept` says that a mark is not lost to a late write.
* A sign-in that has verified the old password opens its session after a reset
  has revoked all of them (`signin.go:111`, against `docs/threat-model.md:107`).
* `EnqueueUsage` sends outside the mutex under which `close` closes the
  channel: the send can panic in a request that is being drained
  (`usage.go:136`, against `usage.go:114`). An INSERT whose answer was lost is
  repeated, and the request has two rows (`usage.go:173`).
* A membership created again is at revision 0 again, so a form of the removed
  one fits it; the profile form carries no revision although `settings.go`
  speaks of a caller-provided one; a join that has resolved a code completes
  after the code was rotated.
* `Lockout.Clear` clears the origins of attempts recorded under the account's
  e-mail; attempts typed with the username are recorded under the username, and
  their origins stay blocked (`lockout.go:100`). A sign-in whose clearing of
  the budgets fails is answered with an error although its session exists.
* A memory store that is full of blocked keys turns every new key away
  (`rate_limit_memory.go:41-42`), so other people's spent budgets can keep out
  a caller who has made no attempt. `RefusedOnlyWhenSpent` is about refusals
  for a spent budget and does not count that answer among them.
* The cleanup deletes an abandoned guest who is still signed in: its conditions
  are age and groups (`store/postgres/guest.go:142-146`), while
  `docs/backup-retention.md:26-28` speaks of guests with no sessions to
  preserve. `AbandonedGuestsGo` states what the code does.
* A guest code issued between an upgrade's revocation of codes and its write of
  the row, and redeemed across the upgrade's sweep of sessions, leaves a
  session of the former guest open (`guest_upgrade.go:62`). With a second
  upgrade under way the same code may even be revoked after that sweep, by an
  upgrade that then loses the revision check. `OldCodeOpensNothing` is about
  codes revoked before the sweep.
* A first external sign-in creates the account and then its identity: when the
  second fails, or two first sign-ins without address race, an account without
  any way in is left (`oauth.go:463`). An administrator's change of an address
  keeps the confirmation mark, and a link mailed to the old address marks the
  new one, which its reader has never seen (`confirmation.go:184`,
  `admin_accounts.go:310`). `VerifiedMeansVouched` counts an address that an
  administrator entered as vouched for, and only for that reason holds.
* The provider's `Logout` deletes the record of a login session before Hydra
  accepts the logout; if Hydra then fails, a live session is on no list
  (`sso_provider.go:236`, the `forgotten` of `GrantedIsRecorded`). A sign-in
  completed between a deletion's revocation and the deletion itself outlives
  the account at Hydra.
* Migrations are committed before the services are composed and the bootstrap
  administrator is seeded, either of which can still end the start (a Google
  secret of spaces, a relay with a port and no host, which `config.go:355`
  accepts and `smtp.go:42` refuses, an administrator address with a display
  name); the old release then refuses to start again, whatever the new
  migrations add, although `docs/deployment.md:326-328` calls additive ones
  backward compatible (`StartsUnlessOutdated` excepts that release). Concurrent first starts collide over
  the ledger, which is created before the lock is taken: one of them exits and
  succeeds when it is started again. An instance of the old release that is
  already serving goes on over the new schema.

## What is proved with TLAPS

Each theorem holds for every value of the constants that the module's named
assumptions allow. Each rests on an inductive invariant, built up from what a
process may rely on at its step, and on lemmas for the steps.

* **`GroupsProofs`** - `TypeCorrect`: the type invariant, with what a request
  carries at each step (`RequestOK`). `AdminKept` and `RosterImplemented`:
  every group keeps an administrator, and the service implements `GroupRoster`,
  assuming that no account is deleted (`NoDeletion`; `groups_deletion` shows
  that it is needed). `AdminInv` adds that a request between `LockGroupMembers`
  and its commit holds the lock, that what it has counted stays true
  (`CountHolds`: only lock holders take administrators away, everybody else
  adds), and that a group without a row has no members. `EditsKeepApart` and
  `SiteWritesAudited` need no such assumption. For the first, `EditOK`: the
  form behind a rename is no newer than the row, the row that an edit has read
  is no older than the revision it expects, and while the row is at the
  revision read it is the row read, so what a matching edit writes back is what
  is there. For the second, `TrailOK`: a request on its way to "done" that has
  committed a rename, a rotation, a role change or a removal has only the audit
  before it, a role change its second read first. The run `groups_edits` has
  renames, rotations and removals; the theorem has the role change as well. `LockReleased`:
  `LockAccounted`, with `LockMove` for what each step does to the locks.
* **`AccountsProofs`** - `TypeCorrect`, `AdministratorRemains`,
  `OtherFieldsKept`, `AuditCorrect`, `LockReleased`. The invariant: the
  revision a request expects is not ahead of the row; a row still at the
  revision read is the row read (`SeenRow`); a write that takes rights from an
  administrator at the expected revision holds the lock and has another
  administrator beside it (`MayRemove`). The first look, made without the lock,
  is harmless because a promotion after it moves the revision.
* **`CredentialsProofs`** - `TypeCorrect`, `LinksUsedOnce`,
  `ConfirmationsKept`, `RevocationReachesAll`, `VerifiedReplaced`. The
  invariant: a row still at the revision read is the row read (`RowOK`), so no
  write takes a confirmation back unread or replaces a password other than the
  one verified; an insert that is not committed belongs to the request that
  holds the sessions lock (`PendingOwned`, `HandOK`), so a revocation, which
  waits for the lock, misses none; and a link that a request has in hand is not
  issued again while the account exists. `LockReleased` adds that a holder is
  at its commit. `SessionsImplemented`: every statement is a step of
  `AccountSessions` or a stutter under the mapping, from the same invariant;
  the revocation is one abstract step because no insert is in flight when it
  runs, and rolling an insert back closes a session.
* **`SsoProofs`** - `TypeCorrect`, `GrantsRecorded`, `RevocationComplete`. The
  invariant: a sign-in about to be accepted is on record, unless its session is
  over, its own sign-out struck it off or the account is gone (`FlowOK`); a
  revocation's list still holds everything it owes that is live, or it has
  noted a failure (`RevokeOK`). `World` is what no step of anybody does: reopen
  a login session, take a grant back, or strike a live session off the record
  other than by its sign-out.
* **`GuestsProofs`** - `TypeCorrect`, `OldCodesClosed`, `OwnersKept`. The
  invariant: an account with an owner or with retired codes is no guest any
  more, a retired code is revoked for good, and at most one code is active
  (`AccountInv`, `CodesInv`); the session that a redemption has yet to hand out
  is held by nobody, is its own and was opened by its code (`OwnSessions`,
  `RequestOK`), so marking the code used decides whether it is handed out; and
  an upgrade under way expects a revision that the row of an account already
  upgraded has passed. The cleanup holds the row between its check and its
  commit (`Locked`, `doomed`), so what it deletes is still the old guest
  without a group that it found.
* **`IdentitiesProofs`** - `TypeCorrect`, `VerifiedVouched`, `WayInStays`,
  `LinkedOnlyByOwner`, `LockReleased`. The invariant: addresses are unique,
  identities belong to accounts that exist, and every confirmed address was
  vouched for (`TablesInv`); an account has former addresses only once its
  present one was entered by an administrator, so a link mailed to one of them
  marks no address without a voucher (`FormerOK`); what a request has read of an identity, an account
  and a profile still justifies the write it is about to make (`RequestOK`).
  For the way in, a removal that has counted under the account's lock knows
  another identity or a password that stays (`Spare`): only holders of the lock
  unlink, and nobody takes a password away.
* **`RateLimiterProofs`** - `TypeCorrect`, `LockedRefused`, `SpentStaysSpent`,
  `RefusalsPaidFor`, `TwoWindows`, for any keys, limits, windows, deadlines
  shorter than the window, capacities and numbers of requests. `NextKey` sorts
  every step by what it does to the watched key: count a hit, keep, drop, clear
  or age its window. `SpentInv`: while the key is to stay shut its window is
  spent and runs as long. `PaidInv`: a running window's count is made of hits
  in the history no older than it, up to the limit. `WindowsInv`: the recent
  admissions are covered by two sets within the limit, those of the present
  window and those of the one before, and a hit of the latter is not younger
  than the present window by more than the deadline; that is why two windows
  suffice although hits arrive out of order, and why the span is a window less
  the deadline and not a whole window.
* **`LifecycleProofs`** - `TypeCorrect`, `FitToServe`, `StartsDoNotBlock`. The
  invariant: what `Load` accepts is fit (`LoadFit`, over all settings); while
  an instance migrates, what it read is installed and what it executes is not
  (`InstanceOK`), because the lock keeps the others from committing; installed
  migrations stay. For the waits (`WaitOK`): an instance past the ledger has
  found it there or created it itself, so while the creator's transaction is
  open nobody else can hold the lock, and a migrating instance has read every
  row there is. The module's second half is about `UsageQueue`, which runs in
  each of those processes and shares no state with `Lifecycle`, so one module
  extends both: `QueueTypeCorrect` (the channel keeps its capacity),
  `CountersCorrect` and `RowsBounded`, for any finite set of requests. The
  invariant adds that a request under way has no outcome, and that the worker
  holds an event exactly while it stores one. For the rows (`RowsInv`): what is
  in the channel is there once, is not in the worker's hands and has no row
  yet, and the event in hand has at most one row per attempt that is over.

Five of the theorems are about the steps behind the liveness properties: the
four `LockReleased` say that a lock is held by a request exactly while it is
inside the transaction that took it (`LockAccounted`), at a step that waits for
no lock, so that nothing that fails, stops or is deleted leaves a lock behind
and no two requests wait for each other; `StartsDoNotBlock` says the same of
the ledger and the migration lock (`NoCircularWait`). What remains for the
liveness properties is the appeal to fairness. `LockAccounted`,
`NoCircularWait`, `StoredWithinRetries` and `ImplementsSessions` were tried
with TLC on small instances before they were proved; the kept runs do not
repeat them.

So every invariant and every action property that a run checks is also a
theorem, and so are the refinements of `GroupRoster` and `AccountSessions`. The
bounds of the runs (`MaxVersion`, `MaxHits`, `MaxCount` and the like) are
constants of the theorems like any other. Only model-checked, because liveness
under fairness is out of the prover's reach: `EveryRequestAnswered` of `Groups`
and `Credentials`, `EventsSettled`, `ShutdownCompletes`, `AbandonedGuestsGo`,
`StartsUnlessOutdated` and `JobsComeRound`.

## What is not modelled

* Rendering, localisation, form parsing, middleware that keeps no state, the
  parsing of single settings, and mail transport: stateless.
* The contents of audit entries, usage events, reports and the login-attempt
  log: written once and only read. The administrator pages that read them
  change nothing; the group page, assembled from several reads, is listed as a
  hazard.
* Password hashing: a hash is a value that fits its password.
* Token validation and key refresh of `oidc/client.go`, beyond that a logout
  token is accepted only for a session that has ended. It refreshes keys at
  most once per `keyRefreshPause`, and the pause starts before the fetch can
  fail.
* Maintenance jobs started by hand, and the migration status page: the same
  deletions as the worker's, and a read.
* A client session whose insert is not committed when the back-channel logout
  arrives (`sessions.go:143`): listed as a hazard, in no module.
* A consent request without a login session id (`sso_provider.go:215`), which
  is granted without a record: Hydra sends one with every request that `Sso`
  has.

## State of the plan

Every module above is written, its runs pass, and the theorems listed are
proved; the planned abstract specification of an account's sessions and the
step invariants behind the liveness properties are among them. Left open:

1. Liveness: TLC shows it under the stated fairness on the instances of the
   runs; the provers cannot carry it further.
2. The hazards without a property (`PROJECT.json`): most are behaviours the
   code has, described above; a property would only restate them.
3. The parts under "What is not modelled".
