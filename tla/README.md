# A TLA+ development of Monqom

Monqom is a personal-finance application: a NestJS backend over PostgreSQL
(Prisma), a React front end, and a machine API through which external programs
write transactions. This directory holds TLA+ models of the parts of the backend
whose correctness depends on order, concurrency, failure or time, the TLC runs
that check them, and TLAPS proofs about them. Paths are relative to the
repository root `src/`; `backend/src/` is written `b/`.

## 1. Inventory

| Component | State | Operations | Talks to |
|---|---|---|---|
| External transactions `b/modules/integrations/external-transaction-ownership.service.ts` | rows of `transactions` with owner, external id, version, tombstone; `integration_idempotency_records` | create, update, delete, read, list; claim, replay, complete; hourly cleanup | transactions repository, categories and payment sources (shared row locks), credentials (policy), audit |
| Email outbox `b/shared/email/email-outbox.service.ts` | `email_outbox` rows: status, attempts, claim time, next attempt, encrypted payload | enqueue (in a caller's transaction), claimBatch, deliver | auth service, mail provider over HTTP |
| Integration credentials `b/modules/integrations/integration-credential.service.ts`, migrations 0023, 0024 | `integrations`, `integration_credentials` | issue, rotate, revoke, delete, authenticate; triggers on memberships and users | management API, auth repository, guards |
| Integration management `integration-management.*` | none of its own | the administrators' routes, with a step-up before issuing and rotating | credentials, two-factor, rate limits |
| Integration rate limits `integration-rate-limit.service.ts` | `integration_rate_limits` rows: rolling times, block, expiry | consume per credential, per source, per step-up; cleanup | credential guard |
| Accounts `b/modules/auth/auth.service.ts`, `auth.repository.ts` | `users`, verification and reset tokens, lockout counter, sessions | register, verify, login, reset, change password, delete account | outbox, sessions, memberships, credentials |
| Two-factor `b/modules/auth/twoFactor.service.ts` | setup secret, secret, recovery codes, challenge in the session | setup, activate, verify, disable | auth controller |
| Sessions, CSRF, request limits `b/shared/session`, `security`, `middleware` | session store, counters | regenerate, invalidate, consume | every route |
| Members' transactions `b/modules/transactions` | `transactions`, tags, last-used preferences | create, edit, delete, list | workspaces, categories, payment sources |
| Categories `b/modules/categories` | two-level tree, order, archived flag | create, edit, reorder, archive, restore | transactions, budgets |
| Payment sources `b/modules/payment-sources` | archived and default flags | create, edit, archive | transactions, preferences |
| Workspace `b/modules/workspace`, `b/shared/database/workspace-financial-lock.ts` | base currency, memberships | settings; the lock shared by all financial writers | transactions, budgets, goals |
| Budgets, goals `b/modules/budgets`, `b/modules/goals` | their rows; progress and plan calculators | CRUD, calculation | currency rates, transactions |
| Dashboard, export, health, currency, audit | caches of rates; appended events | reads and formatting | |
| Web application `frontend/src` | React state, query caches | pages | the HTTP API |

What makes each of them correct, and what is hard in it:

* **External transactions.** A request under an idempotency key takes effect at
  most once and a repetition gets the first answer; an external id names one row
  for ever; an ETag names one state of a row; a policy or an archived reference
  is respected until the commit. Hard: concurrent duplicates, retries after lost
  answers, expiry and cleanup racing with retries, the second attempt after a
  unique violation, claims left by a dead process, member edits.
* **Outbox.** A message is mailed, and mailed once. Hard: two instances, stale
  claims, crashes between the provider's answer and the update, a provider that
  forgets keys after a day.
* **Credentials.** No active version without an administrator answering for it;
  one replacement for a rotation; revocation and deletion are final. Hard: two
  administrators and the loss of a role or an account at the same time, under
  two isolation levels and three kinds of lock.
* **Accounts, two-factor, sessions.** No session outlives the password it was
  opened with; links and recovery codes work once; failures are not lost. Hard:
  every handler reads, awaits argon2 or a query, and writes later; sessions are
  read, modified and written back; some updates have no predicate.
* **Rate limits.** No window sees more than the limit, a block lasts, and
  Retry-After tells the truth. Hard: rows that expire and are cleaned up between
  the two transactions of a request, two histories in one row, the edges.
* **Workspace, categories, payment sources.** One base currency once there are
  amounts; an owner as long as there are members; a tree of two levels. Hard:
  checks made before, and outside, the transaction that relies on them.
* **Budgets, goals.** A balance that is never negative; arithmetic at boundaries
  of periods and at zero. Hard: withdrawals that overlap under SERIALIZABLE with
  retries.

`PROJECT.json` lists the hazards one by one, each at its line and with the
property that covers it, or why none does.

## 2. Modules

| Module | What it is |
|---|---|
| `LedgerData` | data of the machine API and the pure decisions on it: fingerprint, claim, policy, row transitions |
| `AtomicLedger` | abstract specification: each accepted request happens in one step |
| `ExternalTransactions` | the service: transactions, locks, staged writes, environment; extends `LedgerData`, implements `AtomicLedger` |
| `EmailOutbox` | the outbox, its instances and the provider |
| `IntegrationCredentials` | life cycle of credentials with the triggers of the database |
| `Accounts` | one address: links, passwords, lockout, sessions, second factor |
| `Planning` | the calculators of goals and budgets as operators |
| `Workspace` | base currency, financial writers, a goal, members; extends `Planning` |
| `RateLimits` | rolling limits of the machine API and of step-ups, fixed windows of the authentication pages |
| `CategoryTree` | checks and writes on the tree of categories |
| `ExternalTransactionsProofs`, `AtomicLedgerProofs` | theorems about the machine API, and that it implements `AtomicLedger` |
| `EmailOutboxProofs`, `IntegrationCredentialsProofs`, `AccountsProofs`, `WorkspaceProofs`, `RateLimitsProofs` | theorems about the module of the name |
| `Induction` | facts the proofs share: induction stated with sets, sums over finite sets |
| `MC...` | values of the constants for TLC |

Conventions. A worker's local state is a record in `work`; `Idle` is a worker
without a request. Each action is what one database statement or transaction
makes visible, so whatever the code reads before an `await` may be stale when it
writes. A definition `<Name>_<Change>` is a mutant: see section 3.

### 2.1 ExternalTransactions and AtomicLedger

A *worker* is one HTTP request inside its READ COMMITTED transaction. `work[w]`
is the state of the service's functions for it: `pc` is the statement it has
reached, the other fields are their local variables and what was written and not
yet committed. `rows` and `records` are the committed tables, `held` the locks.

| Action | Code |
|---|---|
| `Begin` | create / update / deleteIdempotently up to `$transaction`: scope and identity checks |
| `ClaimKey`, `ClaimReplay`, `ClaimConflict`, `ClaimInProgress` | the claim inside `execute`, one action for each outcome under the advisory lock |
| `CheckReferences`, `LockExternal`, `FindExisting`, `FindNothing`, `FindTarget` | `assertReferences`, the advisory lock of the external id, `findOwned` / `requireOwned` with what follows them |
| `WriteCreated`, `WriteAcknowledged`, `WriteUpdated`, `WriteDeleted` | the mutation, its audit event and the completed record |
| `WriteDuplicate` | unique violation: roll back, run `create()` once more |
| `Replay` | authorisation of a stored answer |
| `Commit`, `Abort` | the end of the transaction |
| `MemberEdit`, `MemberDelete`, `ArchiveReference`, `RestoreCategory` | the same rows from the browser |
| `InsertOutside` | an insert by something other than this service |
| `CleanupExpiredIdempotency`, `Tick` | the timer, time |

Amounts, dates, descriptions and tags are one opaque `body`. Exchange rates are
looked up between the checks and the write; an outage is an `Abort`. A claim is
never committed by itself in the present code, so the in-progress records that
the code still provides for come from an earlier release and are in `Init`.
The clock moves between any two steps.

`AtomicLedger` has no workers, locks, claims or staged writes: a request with its
answer is one step on the rows and the effects. `Atomic` in `ExternalTransactions`
is its instance under a refinement mapping, `AtomicSpec` the property.

### 2.2 EmailOutbox

A *job* is one `deliver()` in flight. Each instance polls when its batch is
finished (`Busy`); a delivery whose last update fails rejects `Promise.all`, so
the instance polls while its other deliveries still run (`MarkFailedFails`). The
provider mails unless it remembers the key. It is external; its 24 hours and the
time from claim to request are `Window` and `Patience`. Faults are bounded in
number and in time; properties of safety do not need the second bound.

### 2.3 IntegrationCredentials

A worker is one database transaction, of a management route, of the deletion of
an account, or of a change of a membership. It takes the authority locks of the
creator and the actor in the order of user ids, then the rows of the integration
and of the credential, reads everything again, and stages its writes. The
deletion of an account is SERIALIZABLE: it works on the snapshot of its `Begin`,
and fails when a row that it has to change was changed or added since. The rows
its statements do not see are left alone. `Authenticate` is one read and a later
`RecordUsage`. Demotion and removal of members have no route at this commit; the
trigger handles them, so they are modelled as the update that fires it.

The row of the actor in `users` is locked too. An audit event of a management
operation refers to it and shares it (KEY SHARE) until the commit, a repeated
revocation's included; `Refers` waits for it. The deletion of an account refers to it
in its audit event (`ReferToUser`), then locks it (`LockUser`), and only then does
the BEFORE DELETE trigger ask for the authority lock. As a transaction locks no other
row of `users` than its actor's, these locks follow from where it is (`SharesUser`,
`LocksUser`); the others are in `held`.

Left out: `createIntegration` without a version, which only tests call; the last
member's deletion, which removes the workspace (in `Workspace`); the row locks of
memberships and workspaces; policies, scopes and digests. What the locks of
memberships add to the circles is in `LeavingCollides`: a demotion holds the row of
the membership before the authority, and the deletion of the same user's account asks
for them the other way round; a deletion that hands the workspace over locks the
membership of its successor, for which only the deletion of the successor's account
waits while it holds anything. Failures in their validation
are `Abort`. A rotation reads the policy before its step-up, but the policy of a
version is never changed, so what it read is what it would read.

### 2.4 Accounts

One email address and the requests about it. A worker is one HTTP request: a
handler reads the user (`LoginRead`, `GuardedRead`, `ResetRead`, ...), awaits
argon2 or another query, and writes in a later step (`RecordFailure`,
`ClearFailures`, `OpenSession`, `ChangePassword`, `ResetPassword`,
`SetupTwoFactor`, `EnableTwoFactor`, `DisableTwoFactor`, ...). A statement, or a
transaction whose order of statements does not matter, is one action, with the
predicate of its `WHERE`: `Redeem` asks that the code be unused.

Five transactions are READ COMMITTED and begin with a statement over all tokens or
codes of the user: the verification of an address, the reset of the password, setup,
activation and disabling of the second factor. Each is two actions. The first
(`TakeVerification`, `TakeResetLinks`, `TakeCodes`) is that statement: it takes what
is committed then (`taken`), without waiting for the row of the user. The second
(`VerifyEmail`, `ResetPassword`, `SetupTwoFactor`, `EnableTwoFactor`,
`DisableTwoFactor`) is the commit, at which the rest shows. In between others commit,
and what they add is not taken. The lock on the row of the user orders the commits,
which are single steps here, and a statement that waited for it is not run again, so
no more than these two points can be seen. Two resets of one account that have each
locked the token of the other are aborted by PostgreSQL, one of them or both; in the
model the later one finds its token used and is refused. `ChallengeLoad`, `RecordWrong` and `OpenProved` work on the
copy that express-session loaded and write the whole of it back. Passwords,
secrets and batches of recovery codes are numbered as they are issued; an answer
is right or wrong for them. A used token is dropped, because nothing accepts it.
Left out: names and other profile fields, audit events, mail (the outbox).

### 2.5 Workspace and Planning

One workspace, its members, transactions, budgets of one month, and one goal. A
worker is one database transaction.

| Action | Code |
|---|---|
| `BeginWrite`, then `CreateTransaction`, `UpdateTransaction`, `CreateBudget`, `UpdateBudget`, `WriteGoal` | the lock `FOR SHARE` of `lockWorkspaceCurrency` and the currency read under it; the insert or update and the commit |
| `BeginSettings`, `WriteSettings` | `updateWorkspaceSettings`: the lock `FOR UPDATE`, `isBaseCurrencyLocked`, the update |
| `BeginBalance`, `UpdateGoal`, `WriteOperation`, `Retry` | the SERIALIZABLE transactions of `goals.service.ts` and `runSerializable` |
| `BeginDeleteAccount`, then `DeleteWorkspace` or `LeaveWorkspace` | `deleteUserAccount`: the memberships it reads; the last member takes the workspace along, a last owner hands it over |
| `DeleteTransaction`, `DeleteBudget`, `SetArchived`, `DeleteGoal`, `Tick` | writes of one statement, the date |

SERIALIZABLE is a snapshot that becomes stale when another transaction commits to
what it read; a stale transaction cannot commit (`Commit`, `Retry`, `Abort`).
Amounts are in the base currency, in minor units. Months have one length. No
endpoint adds a member to a workspace, so the members only leave. A change of the
timezone may take the date back by a day; forward is a `Tick`.

`Planning` holds `GoalPlan`, `PercentageBasisPoints`, `TotalSpent` and
`BudgetProgress` as pure operators. `TreeAssumption` keeps the tree of categories
without circles, of whatever depth: the code means two levels, and `CategoryTree`
shows the race in which it does not keep them. `PlanReachesTarget` and `ProgressAddsUp` compare the calculators in
every reachable state with definitions that do not use them.

### 2.6 RateLimits

`rows` is `integration_rate_limits` with one key of each dimension, `pages` is
`auth_rate_limits`. The rolling instants of a row are counts per time (`Instants`):
the code filters them, counts them and takes the earliest, never their order. A machine request asks whether its source is blocked (`Ask`),
authenticates (`Authenticate`), and counts itself in a transaction of its own
(`CredentialRequest`, or `FailedAuthentication`); a step-up counts for its user and
then, in another transaction, for its source (`StepUp`); a page reads its clock
(`BeginPage`) and updates its rows later (`Page`), at most `MaxDelay` after. Machine requests,
step-ups and pages share no row, so each behaviour has one family of them
(`traffic`, chosen from `Traffic`). `CleanupExpired` comes at any time, and so does
`CleanupPages`, which works for a request and with the time that one read. `Unavailable`
is a database that does not answer, for which the code refuses the request. `served`
and `blocks` are history. The clock of the database does not go back.

### 2.7 CategoryTree

Create, update, archive and restore: READ COMMITTED transactions that check
(`CheckCreate`, `CheckUpdate`, `CheckRestore`) and then write (`Write`, `Fail`);
archiving has nothing to check. Names, types and the order of siblings are left out.

## 3. Runs

| Run | Question | Bounds | Distinct states |
|---|---|---|---|
| `external_keys` | one effect per key and retention, one row per external id, faithful replays, refinement of `AtomicLedger` | 2 workers, 1 key, 1 external id, 2 row ids, 2 bodies, clock 0-2, retention and lease 1 tick | 397 k |
| `external_rows` | policy, locks, versions, lost updates, every request ends | 2 workers, 2 credentials (one restricted to a category), 2 keys, versions to 4, no clock | 212 k |
| `outbox_safety` | one mail, no content lost | 2 instances, 2 messages, batch 1, 3 attempts, age limit 3, window 5, 2 faults | 323 k |
| `outbox_liveness` | each message is mailed | 2 instances, 1 message, 2 faults in the first 3 of 9 ticks | 20 k |
| `credential_lifecycle` | rotation, deletion, finality, usage | 1 administrator, 3 versions, 2 transactions, clock 0-1 | 2.0 M |
| `credential_authority` | authority behind versions, no circle of locks | 2 users, 2 integrations, 2 versions, 2 transactions, one instant | 5.8 M |
| `credential_orphan` | the deletion of an account leaves no active version | 2 users, 1 integration, 2 versions | violated |
| `account_safety` | sessions behind the password, codes and links used once, old codes gone, failures counted | 2 requests, 1 session row, 2 links, 3 passwords, 1 secret, 2 batches of 1 code, 7 of these issued in all (`MaxIssued`), limits 2, clock 0-1 | 5.6 M |
| `account_setup` | setup does not turn the second factor off | 2 requests, 2 secrets, 2 batches, no links | violated |
| `workspace` | one currency, balance, owner, plan, progress | 2 transactions, 3 members, 2 currencies, 2 rows, a category and one below it, amounts 3 and 32, a goal of 5 with 0 or 2 and deposits of 2, 2 attempts, 4 requests, days 0-3 in months of 2 | 1.5 M |
| `rate_limits` | rolling and fixed windows, blocks and Retry-After | 2 requests at a time and 6 in all (5 of the machine API), limits 1 and 2, rolling windows 2, block 3, pages with a limit of 2, a window of 3 and a delay of at most 2, clock 0-6 | 3.0 M |
| `category_tree` | two levels | 2 categories, 2 transactions | violated |

Why the bounds are enough. The hazards are races of pairs, and two workers meet
at every statement. Three versions are the fewest with which one version can be
replaced twice; two row ids the fewest with which an external id can be reused;
three passwords the fewest with two resets; two batches the fewest for a stale
code. Seven things issued (`WithinBudget`, a constraint, counts passwords, secrets,
batches and links) are what two resets after a registration take, or a setup and two
activations with a new password. One tick of retention suffices for a record to be live, expired and
reclaimed within a run. Amounts 3 and 32 make percentages that round down and
up and one exactly at half; a goal of 5 is not divisible by its months. A clock of
6 holds three windows of 2, or two of 3, and a block of 3 outlives its window; a
page that is late by 2 may be counted in a window that began after it. Four to six
requests let a pair that races meet a state that another pair left. Deadlock is not
checked where the bounds of clock, ids, requests and faults stop the models;
waiting for ever is checked as `EveryRequestEnds` and `NoLockCycle`. In the latter
both integrations may be the other administrator's, and the circles of
`LeavingCollides` do occur: without that disjunct the run finds one.

Each property was also run against a changed definition, kept beside the
original, that a plausible bug would amount to; each is found violated there.

### Fairness

* `ExternalTransactions!FairSpec`: strong fairness of the steps of each worker.
  PostgreSQL queues those who wait for a lock, and the code awaits nothing else
  without a limit. No request needs to arrive and no transaction needs to fail.
* `EmailOutbox!FairSpec`: weak fairness of the poll of each instance (an interval
  timer), of the deliveries in flight (requests and statements have time-outs)
  and of the clock. Faults are never required, and end early enough to leave an
  attempt before the age limit: without that the code gives the message up.

### Disagreements between code and documentation

`credential_orphan`. The ADR on credentials says that deleting the creator's
account atomically revokes every active version of the creator's integrations
(`docs/adr/0002-workspace-integration-credentials.md:187-190`) and leaves no live
credential (198-199). The deletion (`b/modules/auth/auth.repository.ts:482`) is
SERIALIZABLE and its snapshot is older than the authority lock that its trigger
takes. A version that another administrator commits through `createCredential`
in between stays active. Nothing at this commit routes to `createCredential`, and
authentication refuses such a version because its integration has no creator
any more; `AuthorityBehindCredential` holds. Rotation, and creation of an integration,
change rows that the deletion needs, so there the deletion is rolled back.

`account_setup`. A setup is refused when two-factor authentication is on
(`b/modules/auth/twoFactor.service.spec.ts:75`). The check is on the row that was
read before the secret is made; the write (`auth.repository.ts:487`) asks for the
id only. An activation that commits in between is undone: the second factor is
off and an unconfirmed secret is stored.

`category_tree`. A parent must be a top-level category and a category with children
cannot become a subcategory (`b/modules/categories/categories.service.ts:320`,
`:113`). Two updates that overlap, each moving one category below the other, both
find this true and both commit. The hierarchy then shows neither category, and
`getTotalSpent` (`b/modules/budgets/budget-progress.calculator.ts:71`) recurses on
the circle without end.

### What else the models show

No document says otherwise, so these are not findings.

* A failed login that was being verified while another one locked the account sets
  `locked_until` back to NULL: the lock ends early, and the count starts anew.
* Wrong second factors are counted in a copy of the session; two that overlap may
  count as one.
* A change of the timezone may take the date back after the date of a goal was
  checked; a goal without a month left has no recommended amount.
* The progress of a budget compares spending in the base currency with the
  amount of the budget in the currency it was entered in.
* The cleanup of pages (`authRateLimit.ts:120`) looks at the window only, so a block
  may end with it: hence two windows' worth in `PagesWithinTwo`. And a page reads
  its clock before it locks the rows, so a late one may be counted in the window
  after its own: two windows' worth holds of a span of `AuthWindow - MaxDelay`. Of
  the whole window it is false, which the attempt to prove it showed first.
* An operation on a goal that is under way when the goal is archived may commit.
* A reset link, or a batch of recovery codes, that is committed while a reset or a
  change of the second factor is between its statements is not seen by it and works
  afterwards. So two activations that overlap may leave two batches that work, and a
  setup or disabling may leave codes while the second factor is off, where nothing
  accepts them. `ResetsInOrder` and `OldCodesGone` say what is left: what the
  statement found does not work again.
* The deletion of an account and another request of its user may wait for each other:
  the deletion holds the row of the user and waits for the authority, a management
  request holds the authority and waits for the row. So may two deletions, and a
  demotion and a deletion of one user. PostgreSQL ends it by aborting one of them
  (`Abort`), and the abort is an error to the client: nothing retries it.

## 4. Proofs

All constants are arbitrary, under the named assumptions of the modules. Besides
types and positive limits, these are: the nulls are no rows (`AbsenceAssumption`,
`RowsAssumption`, `NoUserAssumption`), users, rows, operations and categories are
finitely many, categories make no circle (`TreeAssumption`),
`MaxAge + Patience < Window` for the provider, `MaxDelay < AuthWindow` for the
pages, and `FailureWindow <= Block` for the block of a source (5 and 15 minutes in
the code). Every invariant and every action property that a run checks is proved.

`ExternalTransactionsProofs`
* `TypeCorrect`: `Spec => []TypeOK`. Types alone are not inductive: that a staged
  version is in range, that a row is there under a found target, and that a
  keyless request never reaches the key's record depend on what each `pc` implies.
  `WorkInv` says that; `TInv == TypeOK /\ WorkInv` is inductive.
* `LocksAreExclusive`: `Spec => []LocksExclusive`. Each action that takes locks
  takes a set `Compatible` with those of the others; the rest only release.
* `OncePerKey`: `Spec => []ExactlyOncePerKey`. The argument is about time. `KInv`
  adds to the property `ClaimsOK` (a worker past its claim holds the key's
  lock, and every earlier result under its key had expired when it claimed) and
  `ResultsRetained` (a result within its retention still has its record, which
  decides its key). Claims look at the record under the lock; cleanup and
  expiry remove records only when the retention is over; a commit stores its own.

`AtomicLedgerProofs` adds `EInv` to those invariants. `AllInformed`: what a worker
read at each statement still holds, because it holds the locks under which it read
it, and what it staged is what the atomic step would do to the rows as they are.
`InsertsApart`: two staged inserts never have the same id or external id.
`RecordsBacked`: a completed record, and an answer about to be replayed, is a result
that was committed. `KeepsShown`: the references stored with a record are those its
answer shows; so `ShownHeld`: the check of a replay is on what it is about to show, and
the locks keep it so until the commit. From it:
* `ImplementsAtomicLedger`: `Spec => AtomicSpec`. The initial states map to initial
  states; a commit maps to the atomic request, member edits and outside inserts to
  themselves, the cleanup to `Forget`, everything else to a stutter. The proof
  found that `Forget` has to drop several records in one step.
* `IdsAreNeverReused`, `ReplaysAreFaithful`, `AnswersStayAuthorized`,
  `NoUpdateIsLost`, `VersionsAreDisciplined`: the properties of the same runs.

`EmailOutboxProofs`, from `OInv`
* `OutboxTypes`: `Spec => []TypeOK`.
* `NeverMailedTwice`: `Spec => []MailedAtMostOnce`, from
  `MaxAge + Patience < Window`. `JobsYoung`: what is being sent was claimed
  within the age limit and waits `Patience` at most. `KeysRemembered`: what was
  accepted was accepted after the creation of its message. So every request comes
  before the provider forgets the first.
* `ClearedAfterMail`: `Spec => []ClearedOnlyIfMailed`.

`IntegrationCredentialsProofs`
* `KInv` (`Known`): what a transaction has read and locked at each statement; a lock
  has one holder; rows refer to rows. `TypeCorrect` follows.
* `SInv`: what is staged is a new row, or the row that is locked, changed as the
  operation changes it; two transactions never stage the same row; a version
  that is about to become active has an administrator whose authority is locked;
  an integration is deleted just when its last version is. Hence
  `VersionsAnswerToAdministrators`, `RotatedOnce`, `IntegrationGoesWithLastVersion`,
  `LifecycleNeverTurnsBack`, `UseRecordedAtIntervals`. The deletion of an account
  is the hard case: it stages from a snapshot older than its locks, and commits
  only where the rows that it changes are still as it saw them.
* `NoDeadlock`: `Spec => []NoLockCycle`. For the row of a user only a deletion, or
  somebody a deletion keeps waiting, waits (`UserAwaited`), which is what
  `LeavingCollides` names; circles of that kind are real, and are not excluded. All
  other locks are taken in one order (`LInv`): authorities by user id, then an
  integration, then a version. In a circle nobody could hold a version, and so nobody
  an integration; and who holds the authority of the greatest user waited for would
  wait for a greater one.

`AccountsProofs`. `TInv`: types, what a request carries at each step, and that links
go with their account. `PInv`: a password that was given for a version of an account
is still the account's, unless the version has moved on; this is of sessions, and
of logins and challenges that are to become sessions, so `SessionsKnowThePassword`.
`CInv`: a code that works, or is yet to be issued, was not redeemed (`CodesWorkOnce`);
and a code that works is newer than any batch a committed change found, because what
such a change found it has removed, and what an open one found it has in `taken`
(`OldCodesStayGone`). `RInv` says the same of links: those that work, but for the ones
an open reset holds, were issued after every committed reset had taken what there was
(`ResetLinksWorkInOrder`). `replaced` and `resets` are history for these. `NoFailureLost`: `FailuresCounted`.

`WorkspaceProofs`: `TypeCorrect`, `CurrencyIsOne` (`OneBaseCurrency`) and
`AnOwnerRemains` (`OwnerRemains`), for any number of transactions, members,
currencies, rows and requests, from one inductive invariant
`Inv == TypeOK /\ Protected /\ OneBaseCurrency /\ Attended /\ OwnerRemains`.
* `Protected` is the lock: an open writer keeps the currency it read, nobody is
  open next to the settings, and settings that found no rows still find none.
  Without it nothing says that the currency a writer stores is the present one.
* `Attended`: a deletion of an account that may still commit saw the members there
  are, and nobody may open a transaction on a workspace that is gone. Hence two
  members that leave together cannot each believe the other stays.
* That `Gone` is no currency (`WorkspaceAssumption`) is how the model tells a
  workspace without a row from one with a currency.

Most steps only end a worker or make others stale; `Calm` names that and
`CalmKeeps` carries the part of the invariant about workers over it once.
* `BalanceStays` (`BalanceNeverNegative`): a transaction that may still commit has
  the goal and the operations as they are, so what it checked is what it leaves.
* `PlanReaches` (`PlanReachesTarget`): `CeilDivEnough`, and `MonthsCounted`: the
  calculator's difference of two months is the number of those that the property
  counts one by one.
* `ProgressIsTrue` (`ProgressAddsUp`): the recursion of `getTotalSpent` has a
  solution, from the leaves up (`TotalsExist`); summed over all categories, what
  lies below cancels, so the tops hold what was spent (`TopsHoldEverything`);
  categories without spending may be left out; `NearestPercentage`.

`RateLimitsProofs`: `RInv == TypeOK /\ Rolls /\ Blocked /\ Paged`.
* `Rolls`: rows are in order, and what was let through within a window is still
  counted in its row (`Covered`), which counts no more than the limit; so `LimitsHold`.
* `Blocked`: a block that lasts is the one in the row, which outlives the cleanup
  because `FailureWindow <= Block`; so `BlocksHold`.
* `Paged`: what was let through is what came before the present window began, at
  most a limit of it within a span, and what the row counts; so `PagesSeeTwo`.
* `RetryAfterIsHonest`, `PageRetryIsHonest`: action properties, from the same.

How data is reached. The library's induction takes an operator, which no backend can
instantiate. `Induction` states it with a set instead, over the library's theorem that
numbers are well-founded, and gets from it the facts about `MapThenSumSet`: terms
may be taken in any order, by groups, and without zeros. An induction on the
height of a category does for `TotalSpent`.

Only model-checked: the liveness properties `EveryMessageMailed` and
`EveryRequestEnds`. Fairness and ENABLED are out of the prover's reach.

## 5. Plan

Done: the machine API with its abstract specification; the outbox; credentials;
accounts and two-factor authentication; rate limits; the workspace with its
writers, goals, budgets and members; the calculators; the tree of categories; and
proofs of every invariant, action property and refinement that the passing runs
check.

Left, in this order:

1. That every tree stays without circles when the updates of `CategoryTree` do not
   overlap: what `TreeAssumption` takes from the code.
2. An abstract outbox (a message is pending, mailed once, or given up), with
   `EmailOutbox` shown to implement it.
3. Payment sources: the default flag, and the last-used preferences.

### Not modelled

* The web application and the generated API client, most of the repository's
  lines: components, forms, query caches and translations. What the server
  promises does not rest on them, and they share no state but through its API.
* Dashboard, export, health: they read, aggregate and format.
* Currency conversion and rates: decimal arithmetic over rates fetched from
  outside. A quote is an answer or an outage to its callers.
* The audit log: events are appended by the transaction they describe and no
  modelled decision reads them.
* Guards, filters, validation, logging, network policies, OpenAPI documents and the
  body boundary: pure functions of one request.
* Payment sources' defaults and the last-used preferences: a convenience of the
  form without an invariant behind it. The last-used source may be archived
  without any race, because an edit may keep an archived one.
* Names and order of categories, profile fields, tags, notes, and lists and cursors.
* Seeding, a tool of development.
* PostgreSQL, the session store, the mail provider and the TOTP library: modelled
  as far as the code relies on them.
