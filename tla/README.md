# aster-cloud in TLA+

aster-cloud is a SaaS for business policies written in a controlled natural
language: users save *versions* of a policy, have them approved, and execute the
version that is in force. This directory holds TLA+ specifications of the parts
of it that keep shared state under concurrency, TLC configurations that check
them on small instances, and TLAPS proofs about eight of them.

Paths below are relative to `src/src/`. The program is TypeScript on Cloudflare
Workers with PostgreSQL (drizzle, READ COMMITTED) and Workers KV. There are no
long-lived threads; concurrency comes from requests, background tasks
(`waitUntil`) and cron invocations that each run in a Worker of their own, and
which may be killed at any time. What is atomic is a database statement, or a
transaction as far as its row and advisory locks reach.

## 1. Inventory

| component | state | operations | what is hard | what makes it correct |
|---|---|---|---|---|
| Version workflow: `services/policy/version-manager.ts`, `version-approval-rules.ts`, `executable-version.ts` | `PolicyVersion.status`, `isDefault`, `createdBy`, seal, `PolicyApproval` | create, submit, approve / reject / request changes, set default, deprecate, archive, select the version to execute | every handler reads first and writes later; some writes look at the status again under a lock, some only name the row id | nothing executable without a review by an entitled other person; one default; the selected version is an approved one |
| Frozen vocabulary: `lib/domain-vocabulary-snapshot.ts` | `UserVocabularySnapshot.refCount`, `vocabularySnapshotIds` | freeze at approval, count, release on purge, roll back (nothing in the code reclaims a snapshot) | approvals of one author on several policies share snapshots; the author edits terms all the time; a purge can race or repeat | frozen = sealed; a count is never below the references that exist |
| Policy life cycle: `lib/policy-lifecycle.ts` | `Policy.deletedAt`, `PolicyRecycleBin` | soft delete, restore, permanent delete, empty trash, expiry clean-up | check and deletion are separate; the clean-up works from a list | bin and mark agree; only trashed policies are deleted |
| Policy access: `lib/policy-access.ts`, `lib/policy-access-matrix.ts`, `lib/team-permission-matrix.ts` | team roles | load a policy for an action | – | four eyes on team policies |
| Execution and its cache: `app/api/policies/[id]/execute/route.ts`, `lib/cache.ts` | the KV entry of a policy | execute (read-through, background write-back), invalidate after commits | four reads at four moments, late write-backs, lost invalidations | the version in force runs, with its frozen vocabulary |
| Bulk import: `lib/domain-vocabulary-jobs.ts`, `lib/domain-vocabulary-job-runner.ts`, landing in `lib/domain-vocabulary.ts` | `LexiconBulkJob`, `UserDomainTerm`, the plan's quota | enqueue, cancel, recover stale claims, claim, commit a chunk, fail | at-least-once workers: overlapping ticks, claims declared stale too early, death, partial chunks | each row decided once and reported, cancellation final, quota respected, every import ends |
| Vocabulary terms and retention: `lib/domain-vocabulary.ts`, `lib/domain-vocabulary-retention.ts`, `rollbackToSnapshot` | `UserDomainTerm` links, `archivedAt`, snapshots, two advisory locks | add, modify, delete, restore, bulk, roll back, archive after a downgrade | what is read before the lock is used under it; delete, roll-back and the sweep do not take the writers' lock; the sweep's lock is another one | what is added fits the quota read, no two active links in conflict, a link archived once |
| Version chain: `insertChainedVersion`, `services/policy/resolver-migration.ts` | `prevHash`, source hashes, envelopes, `archivedByResolverMigration` | append, reseal a version and re-link its successors, archive what no longer compiles and restore it | re-linking while appending and while another job re-links; locks taken in several orders; broken and forged rows from before | links preserved, tampering stays visible, nobody waits for ever, archiving is undone |
| Cron lease: `lib/cron-lease.ts`, `lib/cron-registry.ts`, `lib/cron-window.ts` | `CronJobLease` rows | run once per window | two triggers of one window, death in the body, failure to record success | at most one body per window |
| User life cycle: `lib/user-lifecycle.ts`, `app/api/cron/user-purge/route.ts`, `auth.ts`, `app/api/auth/signup/route.ts` | `User.email`, `emailNormalized`, `deletedAt`, `purgePendingUntil` | sign up, delete, sign in and thereby revive, purge | several addresses of one mailbox; revival from an old read; a purge that dies, and its lost window | one live account per mailbox; what is overdue goes in the end, unless a grant is in the way; a revival within the grace period works |
| AI metering: `lib/ai-quota.ts`, `lib/llm-sse-proxy.ts`, `lib/sse-frame.ts`, `app/api/internal/ai/usage/route.ts` | `AiUsageRecord`, the open streams | gate, stream, placeholder, report, correction | three writers of one row in any order; the gate counts rows that open calls do not have yet; clients go away | the gate counts every call from its first billable frame on; rows only gain; a call is settled as it was seen to end |
| Idempotency keys: `lib/api/idempotency.ts` | `LexiconIdempotencyKey` | reserve, run, store, replay, wait, clean up, discard an expired row | retries while the first attempt runs, several on one expired row, death or a failing statement between effect and response | an effect once, true answers, no endless wait |
| Replay protection: `services/security/nonce-service.ts` | nonces | insert, clean up | – (one INSERT decides) | a nonce is accepted once |
| Regional KV snapshots: `lib/snapshot-pusher.ts` | copies of users and API keys in the engine | push, push all | pushes overtake each other | the last state wins |
| Accounts: `lib/account-lockout.ts`, `lib/two-factor.ts`, `lib/totp.ts`, `lib/trusted-device.ts`, `lib/password-reset-tokens.ts` | failure counters, codes, tokens | fail, lock, verify, consume | concurrent attempts | a code is consumed once |
| Usage and limits: `lib/usage.ts`, `lib/rate-limit.ts`, `lib/rate-limit-distributed.ts` | counters | count, check | non-atomic KV counters (documented as approximate) | limits hold up to the documented slack |
| AI circuit breaker: `lib/ai-circuit-breaker.ts` | breaker state | trip, probe, reset | – | calls stop while the provider fails |
| Licences, billing, teams, evidence, telemetry, AI workspace, editor | – | – | mostly external services, signatures, user interface | – |

How they interact: saving, approving and retiring a version commits to the
database and *then* invalidates the policy's cache entry; an execution reads the
version rows, the entry, and on a miss the policy row. Approval freezes the
author's vocabulary, which users and bulk imports change under an advisory lock
per user, and counts the snapshots, which a purge gives back; the retention sweep
archives the vocabulary of an owner whose plan has lapsed. Vocabulary mutations
may carry an idempotency key, which wraps their handlers. The purges, the
retention sweep and the import worker are started by cron jobs under the cron
lease. The resolver migration rewrites the chain that new versions are appended to.

`PROJECT.json` lists each component with its status, and each hazard at its line
with the properties that cover it.

## 2. Modules

| module | what it is |
|---|---|
| `PolicyVersions` | version workflow, frozen vocabulary with its reference counts, life cycle of the policy row, access, selection of the executable version: one composed specification, since approvals lock the policy row and purges release what approvals counted |
| `ExecutionCache` | one policy's cache entry: execute requests against writers that commit and invalidate |
| `BulkJobs` | the import queue, its workers, and the user who interferes |
| `BulkImport` | what an import promises, without queue, claims or workers; `BulkJobs` implements it |
| `VocabularyTerms` | one owner's term links under (and beside) the vocabulary lock, roll-back, retention sweep |
| `VersionChain` | the hash chain of one policy: creations, the resolver migration, status changes |
| `CronLease` | the lease rows of one cron job |
| `AccountPurge` | composition: the accounts of one mailbox and the daily purge, which runs under `CronLease` |
| `AiMetering` | the AI calls of one user in a month |
| `Idempotency` | one idempotency key |
| `…_proofs` | theorems about `PolicyVersions`, `ExecutionCache`, `BulkJobs` (with `BulkImport`), `VocabularyTerms`, `VersionChain`, `AccountPurge` (with `CronLease`), `AiMetering` and `Idempotency`: one module for each |
| `MC…` | constants and symmetry for TLC |

### PolicyVersions

A request is a record in `req[h]`: what handler `h` has read and not yet acted
upon. `Begin…` actions are the read phase (authorisation, status checks, early
returns); the action that follows is the write, one statement or one
transaction. Between the two every other handler may move. `Abandon` is death of
the Worker, a failed statement, or a transaction whose re-check fails.

- `submitForApproval`, `deprecateVersion` and `archiveVersion` update by id, with
  no second look at the row: their write actions have no guard.
- `approveVersion` locks the policy row and the version row and re-checks both:
  `LockPolicyForSnapshotRefs` and `LockPendingVersion` are guards of the write.
- `setDefaultVersion` is one transaction of two UPDATEs. Under READ COMMITTED the
  first sees only the defaults committed when it starts, so it is a step of its
  own (`ClearDefaults`, which records the rows it clears) and the commit
  (`SetDefaultVersion`) clears those and sets one.
- `PurgePolicy` is `DELETE … RETURNING` without a condition on `deletedAt`; only
  the transaction that deletes the row releases, floored at zero.
- `CleanupExpiredTrashItem` purges one item of the list read by `BeginCleanup`.
- `EditVocabulary` stands for everything outside the version handlers that
  changes an author's terms (see `VocabularyTerms` for how).

Abstractions: a snapshot is `<<owner, group>>`, since its id is derived from the
content; a seal is the set of groups the source was compiled with. The caller's
role is a constant (membership changes during a request are not modelled), public
and shared policies add no right to the actions modelled and are left out; team
vocabulary, versions without author or seal from before those columns existed,
renaming on restore, and the rows of reviewers, shares and invitations are left
out. Version numbers are those of the chain's tail plus one; the hashes are in
`VersionChain`.

### ExecutionCache

`exec[e]` follows one execute request: `ReadVersions`, `GetCachedPolicyMeta`
(hit only if `IsCachedVersionCurrent`), `QueryPolicy` (404 when deleted),
`HydrateExecutableVersion` when another version than the current one is selected,
and `CachePolicyMeta` in the background, at any later time or never. Writers
commit (`SaveVersion`, `ApproveVersion`, …, `TrashOrRestore`) and leave one
invalidation outstanding, which may happen or be lost. A purge finds the policy in
the trash (`FindTrashed`) and deletes it by id later (`PurgePolicy`), whatever has
become of it, and invalidates nothing. `hist` and `stale` are history: what would have been selected at each
moment of the request, whether it was overtaken, and whether the entry may be out
of date for a known reason.

KV is one atomic cell; its propagation delay would only add staleness. Submission
and approval are one change here, since the cache cannot tell them apart.

### BulkJobs and BulkImport

`StartTick` is `recoverStaleRunning`, `ClaimNextJob` the `SKIP LOCKED` claim of
the oldest queued job, `GetLexiconQuota` the quota read outside the transaction,
`CommitChunk` the transaction of `processBulkJobChunk`, which keeps links and
progress only while `OwnedClaim` holds, `ChunkFails` any failing statement, and
`Crash` the death of an invocation. `AgeClaim` lets five minutes pass; with
`SlowWorkers` even under a worker that lives. A chunk may stop before its end
(`StopsAt`): only the row-by-row path stops, and never before its first valid
row. `broken` rows are those the row-by-row path isolates.

The claim token is the worker's name: an invocation holds at most one claim and
remembers nothing of an earlier one, so a fresh token per claim distinguishes
nothing more. A row is a term or `Invalid`; invalid rows and rows in conflicting
scope are both reported and never landed. A term that exists already is reported
as skipped. `markJobCompleted` for an empty chunk is unreachable (a job has at
least one row and is re-queued only below its total), and `markJobFailed`
followed by `failClaimedJob` has the effect of one of them.

`BulkImport` has two variables, the job as its user sees it and the fate of each
row, and three actions: submit, decide the next block of rows, give up. The
refinement maps `queued` and `running` to `open`.

### VocabularyTerms

Rows of `UserDomainTerm` are numbered in the order of their creation; `term`,
`deleted`, `archived` and `archiveSnap` are their columns. `Begin…` is what a
request reads before its transaction, the quota of the owner's plan included, which
may change (`ChangePlan`) before it is used; `Check…` takes the advisory lock and
makes the quota and conflict checks, the last action writes and commits. Deletion is
one statement and takes no lock. A roll-back reads the active links in one
statement (`BeginRollback`) and applies the difference in the later ones
(`RollbackToSnapshot`), with no lock: it deletes what it read by id, clears
`deletedAt` on some row of each missing term, and aborts on the unique index. The
retention sweep pins the active links under its own lock (`PinLinks`), stores or
counts a snapshot of them and archives the rows by id (`ArchiveLinks`).

`returned` is history: the active links that came back through a restore or a
roll-back, the two ways that look at no quota. Two terms *conflict* when they are
spelt alike and have different canonical names. One (domain, locale) group stands
for all, as locks and quota are per owner; the quota then counts this group. Dates
are left out: that 90 days have passed on the free plan is `maxTerms = 0`; an
unlimited quota is one larger than the rows there can be.

### VersionChain

A hash is a record of what went into it, so equal records are equal hashes and
nothing collides. `Forged` is a hash that nothing in the chain produces. The old
chain is any chain of rows with or without an envelope, broken off or linked, with
a sound or a tampered source hash. A migration of a row locks it
(`LockRow`), recompiles (with success or failure, nondeterministically), and then
locks and rewrites one successor after the other; what it has written stays in
`run[r].wrote` until `CommitRun`. `RelinkSuccessor` stops where the link did not
match before, or where the successor's link does not depend on its source hash.
Creation takes the advisory lock, then the tail row, and inserts.

### CronLease and AccountPurge

`Acquire` is the insert on conflict do nothing, `Record…` the update that ends a
run, and `Die` the end of a Worker in between, after which the row says
"running" for good. `AccountPurge` extends the lease with the purge as its body:
`ListExpired`, one `PurgeUser` or `PurgeFails` per listed user, and the end of the
run. Beside it run sign-ups, deletions, and sign-ins that read a tombstone
(`BeginSignIn`) and revive it by id later (`Revive`). Time is `NewDay`: a window
passes and the remaining grace of each tombstone decreases. Windows are told apart
modulo `MaxWindows`, so that the system runs for ever. Sign-up is by password;
whoever comes through an OAuth provider during the grace period signs in, and
revives the account. `grantors` are the accounts that some `StructuralAliasGrant` row
names as `grantedBy`: the foreign key (`ON DELETE RESTRICT`, the only one on users)
makes their deletion fail. Revoking a grant keeps its row; it goes when its grantee
is deleted (`GranteeDeleted`, a member with another mailbox).

### AiMetering

Per call: the proxy's phase, the row, what the watcher has seen, the placeholder
insert, and what aster-api has got from its provider. The placeholder is started by
the first billable frame and not waited for. Whether a frame is billable is decided
by parsing it, not by what happened at the provider: a comment, or a refusal cut off
by the end of the stream, is a delta with content, so that `SeeBillable` asks nothing
of `provider`; the report comes on another
connection, once the provider has returned, any number of times or never; the
correction after the stream ends marks the row as failed. The proxy's task waits
for both stream and placeholder (`Drain`, `Settle`). An abort ends the stream in one
step, as the runtime tears it down; what `transform` may still pass on is not
followed. Any statement may
fail (`faulty`). Token amounts are a Boolean; bans, rate limits and the risk tier
are one nondeterministic refusal.

### Idempotency

Each request with the key is followed from its first read. The row carries the id
of the request that reserved it, as the code's `reservationId` does, which is what
makes deleting *by id* different from deleting by key (`Discard`). A handler is
one transaction: it commits (`done`) or throws. Storing and cleaning up may fail,
a Worker may die anywhere. `Expire` lets the day of the key pass, when the
requests of the old life are over; `done` starts again from nothing.

## 3. Runs

Bounds are the constants named *bound* in the modules; each run takes between a
few seconds and a few minutes.

| run | question | result |
|---|---|---|
| `PV_concurrent` | two overlapping requests on two team policies of one author, whose snapshots are therefore shared: `TypeOK`, `RefCountCovers`, `BinIffTrashed`, `ReviewedBeforeExecutable`, `FrozenAsSealed`, `CountedOncePerSubmission` | hold |
| `PV_serial` | the same workflow with requests one at a time, three versions: `RunsOneApproved`, `RefCountExact` | hold |
| `EC_serving` | two execute requests, two versions, lost invalidations, purges of restored policies: `TypeOK`, `StableSelectionRuns`, `FreshWhenInvalidated` | hold |
| `BJ_import` | two ticks on one import with a repeated term, slow and dying workers, cancellation, quota changes: `TypeOK`, `RowsAccounted`, `EndedIsFinal`, `ImportsWithinQuota`, `ImplementsBulkImport` | hold |
| `BJ_progress` | two imports, one of two workers may die: `EveryJobEnds` under fairness | holds |
| `VT_writers` | two overlapping requests or sweeps on a vocabulary with a conflicting pair, under changes of plan: `TypeOK`, `AddsWithinQuotaRead`, `ConflictsOnlyByReturn`, `ArchivedOnce` | hold |
| `VC_chain` | two migration jobs, two creations, one person, on every old chain of up to two drafts: `TypeOK`, `ArchivingIsUndone`, `ChainOnlyGrows`, `TamperingStaysVisible`, `ResealedIfIntact`, and `TransactionsEnd` under fairness | hold |
| `AP_sweep` | two invocations of the purge, two accounts of one mailbox with two spellings, one sign-in at a time, grants that restrict a purge: `TypeOK`, `AtMostOncePerWindow`, `OneLiveAccount`, and `OverdueIsPurged` under fairness | hold |
| `AI_metering` | three calls, two under way at a time, a quota of one: `TypeOK`, `GateSeesStreams`, `SettledAsSeen`, `RowsOnlyGain`, and `SeenIsSettled` under fairness | hold |
| `ID_retries` | four requests with one key, one with another body: `TypeOK`, `AtMostOnce`, `AnswersAreTrue`, and `EveryRequestEnds` under fairness | hold |
| `VT_rollback` | `RollbackExact`, which the source states of a roll-back | violated |
| `AP_grace` | `GraceRestores`, which the source states of a sign-in within the grace period | violated |

Why the bounds are enough for the questions asked. Nearly every hazard listed is a
race of *two* invocations, one holding something stale; the third actor, where there
is one, is the environment (the author's edits, KV, time), which is not bounded.

- `PV_concurrent`: one version per policy, since what overlapping requests can do to
  a version they do to each; two policies sharing an author are what
  `RefCountCovers` needs. Alice wrote both and is an admin of the team, Bob owns
  it and alone may approve. `PV_serial` has the three versions an approved one, a
  default and a later draft need. One vocabulary group suffices, since groups are
  counted independently; `MaxRef = 2` lets one snapshot be held by both policies
  and be counted once too often.
- `EC_serving`: two versions are needed for a selection to change, one outstanding
  invalidation for it to be late, two requests for one to meet what the other left.
- `BJ_import`: three rows in chunks of two give a full and a short chunk, with a
  term repeated across them (`BJ_progress` needs two jobs but only one term, and
  an invalid row in each); quota 0, 1 and 2 forbid, truncate and admit. One crash
  is enough to strand a job, and the second worker remains.
- `VT_writers`: two links are a conflicting pair or one above a quota of one; a
  third term and a batch with a duplicate, a conflict and more rows than the quota
  exercise the screening. One snapshot, since a roll-back knows one. Of two
  requests and two sweeps, any two may be under way (`MaxInFlight`).
- `VC_chain`: three versions are the migrated row, a successor it rewrites, and the
  tail that is appended behind. Old rows are drafts of every shape (envelope none,
  old or forged; linked or not; sound or not); other statuses arise by submitting,
  reviewing and archiving, which the run allows while the chain has one version
  (`EditedUpTo`), since the status of a row matters to no other row. `DEPRECATED`
  behaves as `APPROVED` does here and is left out.
- `AP_sweep`: windows are told apart modulo two, yesterday's and today's, which is
  all a header can confuse; a run must have ended when its slot comes round.
  `Grace = 1` day of the model. `AP_grace` has three windows and one invocation.
- `AI_metering`: with a quota of one, two calls under way (`MaxOpen`: those the proxy
  or aster-api is at work on) may both pass the gate and overshoot it, and the third
  finds it used up. The bound is the model's, not the code's: how far concurrent
  calls overshoot the quota is bounded by nothing here but the rate limits.
- `ID_retries`: one request to fill the row, two to meet it together after its
  expiry, and one with another body.

Symmetry is used over handlers, policies, executors, sweeps and workers only in
runs without liveness; none of them is told apart by an initial state or a property.

`RunsOneApproved` and `RefCountExact` are what the workflow
promises a careful user, and they hold only while requests do not overlap.

Deadlock is checked except in `VC_chain`, `AI_metering` and `ID_retries`, whose
bounded systems come to an end: all versions are created and migrated, all calls
settled, all requests answered. In `VC_chain`, where transactions hold locks,
`TransactionsEnd` says more than the absence of deadlock.

### Fairness

- `BJ_progress`. `WF(WorkerStep(w))`: the cron starts a tick every minute, and an
  invocation that does not die goes on. `WF(AgeClaim(j))`: time passes a claim
  nobody works on. `SlowWorkers = FALSE` in this run: a living invocation works on
  a claim for at most its time budget of about 20 seconds, well below the five
  minutes after which a claim is stale. `MaxCrashes` bounds how many workers die;
  without a bound every claim could die, and no queue would progress.
- `VC_chain`. `WF(Create(a))` and weak fairness of an editor's update: a
  transaction goes on once its locks are free. `SF(Migrate(r))`: creations that
  are retried may take a row's lock again and again, but PostgreSQL grants a lock
  in the order of the requests for it.
- `AP_sweep`. `WF(NewDay)`: time. `SF` of starting a sweep: the scheduler fires in
  every window. `WF(Sweep(c))`: a run ends, be it by dying. `SF` of the list query
  and of the deletion of each user that no grant restricts: they do not fail for
  ever, though they may fail, and lose their window, any number of times. The
  deletion of a grantor is never enabled, so nothing is assumed of it; its account
  stays, and `OverdueIsPurged` excepts it.
- `AI_metering`. `WF(EndStream(c))`: streams end, at the latest when the client's
  abort signal fires. `WF(Proxy(c))`: the platform lets the task after the response
  run. Nothing is assumed of aster-api.
- `ID_retries`. `WF(Proceed(r))`: a request that is not killed goes on. `Die` is
  free to happen to any of them.

Nothing is assumed of users, of failures, or of crashes.

### Mutants

Each property of a passing run has a mutant in `PROJECT.json`: a definition of
the module (commented *Mutant*) that forgets a guard, a re-check, a reset or a
release, and under which TLC finds the property violated.

### Findings

- `VT_rollback`: rolling back to the snapshot that the retention sweep took finds
  the archived rows, clears their `deletedAt` only, and makes nothing active, while
  `domain-vocabulary-retention.ts:7-9` says the restore is exact
  (`domain-vocabulary-snapshot.ts:690`).
- `AP_grace`: after a deletion the mailbox can be registered under another
  spelling of its address; from then on the sign-in that should restore the first
  account fails on the unique index (`app/api/auth/signup/route.ts:169` against
  `app/api/user/delete/route.ts:20`).

Other places where code and intention part, visible in the models (the states are
reachable) and stated in `hazards`:

- two overlapping `setDefaultVersion` transactions leave two defaults;
  a version can become the default while `archiveVersion` retires it;
- a `submitForApproval` that read a draft reopens the version after its approval;
  approved again, its snapshots are counted twice and one count is never given back;
- a restore that commits between the trash check, or the listing of the clean-up,
  and the deletion does not save the policy;
- archiving the only approved version makes the fallback of
  `resolveExecutableVersion` select that archived version;
- an entry cached for a draft has no frozen vocabulary, and is served for the
  approved version of the same number until it is invalidated; a write-back
  overtaken by a deletion re-creates the entry, and a hit does not look at `deletedAt`;
- restoring terms and rolling back look at no quota, and a roll-back at no conflict;
  a quota that was read before a change of plan is used after it;
- a purge whose check preceded a restore leaves the cache entry of a policy that no
  longer exists, which is served until it expires;
- the account of a member who granted a structural alias is never purged while the
  grant's row exists, revoked or not: the deletion fails and is only logged;
- a refusal cut off by the end of the stream, or a frame without a data line, is
  billed, although `lib/llm-sse-proxy.ts:167-168` says that what ends before the
  provider is not;
- the archive lock (`lexicon-archive:`) has another key than the writers' lock
  (`lexicon-quota:`) it is said to exclude;
- a person's archiving that meets one by the migration is undone by the next run;
- a request that dies with its idempotency key reserved leaves a row that is
  pending for good: pending is looked at before expiry, and the sweep that
  `db/schema.ts:2616` announces does not exist.

## 4. Proofs

TLAPS proves the following for every value of the constants, from the `ASSUME` of
each module alone (cardinality arguments use `FiniteSetTheorems`). Each inductive
invariant named here was first checked by TLC on the instance of the component's
run. Theorems are about `Spec` without its fairness.

`PolicyVersions_proofs`: any sets of policies, users, vocabulary groups and
handlers, any role assignment, any number of versions.

- `TypeCorrect`: `Spec => []TypeOK`.
- `ReviewSafety`, `FrozenSafety`: `Spec => []ReviewedBeforeExecutable` and
  `Spec => []FrozenAsSealed`. Neither is inductive. A handler about to set a
  default or to retire a version holds a reference to a version it saw approved,
  and by then the status may be anything. `ReviewInv` adds what cannot be undone
  meanwhile: such a request names a *reviewed* version (`RequestOK`), approvals
  belong to inserted versions (`ApprovedExists`), and so author and seal are
  fixed. Re-approval cannot change what is frozen, because the frozen set equals
  the seal each time.
- `BinSafety`: `Spec => []BinIffTrashed`; inductive as it stands.
- `RefCountSafety`: `Spec => []RefCountCovers`. An approval adds one holder and
  one count; a re-approval adds a count only, since the frozen set is the same
  (this is where `FrozenAsSealed` is needed); a purge takes the holders of one
  policy and at most as many counts.
- `CountedOnce` (`CountedOncePerSubmission`, an action property): only `TypeOK` is
  needed, since both locks are re-checked in the transaction that counts.
- `SerialSelection`, `SerialCount`: `Spec => []RunsOneApproved` and
  `Spec => []RefCountExact` under the hypothesis `OneAtATime`, that there is one
  handler; with two, both are false (see Findings). `SerialInv` adds that what the
  request under way has read is still so, that a default is approved and the only
  one of its policy, and that a version waiting for approval holds no snapshot
  (`FrozenOnce`), which makes an approval count exactly what it adds.

`ExecutionCache_proofs`: any number of versions, execute requests, outstanding and
lost invalidations.

- `TypeCorrect`, `SelectionIsServed` (`[]StableSelectionRuns`), `EntryIsFresh`
  (`[]FreshWhenInvalidated`). `ServingInv` relates what a request holds to what was
  selected while it ran. The rows it read are those of an earlier moment whose
  selection it has seen (`RowsOnceCurrent`); what it took from the entry or the
  policy row is that selection if it saw only one (`RunsTheOneSeen`); and the meta
  it is about to write back is the row as it is, unless it was overtaken
  (`LoadedInv`). Without the last, a late write-back would make the entry stale
  with nothing owed. A policy in the trash has no fresh entry unless an invalidation
  is owed, which is why a purge that finds it there still may forget the cache; one
  that finds it restored may not, and the entry counts as stale from then on. `GreatestIsOne` shows that the `CHOOSE` of the selection finds
  a version; it takes the well-foundedness of the naturals.

`BulkJobs_proofs`: any jobs, rows, terms, workers, chunk size, quotas.

- `TypeCorrect`, `EveryRowAccounted` (`[]RowsAccounted`), `EndingIsFinal` and
  `ImportsFitQuota` (action properties). `QueueInv` adds `ClaimInv`: a worker that
  still owns its claim goes by the job row as it is in the database. Claims change
  hands, and a stale worker's view may be anything; but the conditional update
  (`OwnedClaim`) lets only an owner commit, and an owner's view is exact. This is
  why a row is decided once.
- `ImportIsImplemented`: `Spec => ImplementsBulkImport`. A commit that keeps its
  claim decides the next block of rows, ending the job with the last one; a failed
  chunk gives up; claiming, ageing, recovering, losing a claim and dying are
  stutters.

`VocabularyTerms_proofs`: any terms and conflicts between them, quotas, batches,
requests and sweeps.

- `TypeCorrect`, `ConflictsNeedReturn` (`[]ConflictsOnlyByReturn`), and the action
  properties `AddsHoldQuota` (`AddsWithinQuotaRead`) and `ArchivedByOne`
  (`ArchivedOnce`). `VocabularyInv` says of a request that holds the lock that what it
  checked still holds of the links that count (`Own`, the active ones nobody
  brought back): room for what it will insert within the quota it carries, and no
  conflict with it. It is
  inductive because those who do not take the lock, deletions, roll-backs and
  sweeps, can only shrink `Own` (`OwnShrinks`), and those who take it exclude each
  other. Of a sweep it says that the links it pinned are not archived while it has
  the archive lock. `Own` cannot be replaced by the active links: restores and
  roll-backs lengthen those.
- What the screening and the landing of a bulk chunk compute for every batch
  (`ScreenedAgree`, `InOrderRows`, `LandsWithinQuota`) is proved of the recursive
  functions of the model. The induction theorems of the library take an operator,
  so induction is done on sets: a set of numbers without a first gap has none
  (`FromZeroUp`), and a function defined by steps exists (`StepByStep`).

`VersionChain_proofs`: any old chain, any number of versions, jobs, creations and
people.

- `TypeCorrect`, `StatusComesBack` (`[]ArchivingIsUndone`), and the action
  properties `LinksSurvive` (`ChainOnlyGrows`), `NothingIsLaundered`
  (`TamperingStaysVisible`), `OnlyIntactIsResealed` (`ResealedIfIntact`).
  `MigrationInv` describes a job's private writes: they cover the rows from the one
  it resealed up to the one it is at, all of them locked by it; the first had an
  intact seal and has it still; every other one was linked to its predecessor and
  is written with the link to that predecessor's new row; and what follows the last
  is not linked to a link that changes (`WritingInv`). Of a creation it says that
  the tail is locked and the advisory lock held (`CreationInv`). What is committed
  is then a chain again, with every link as good as before. The hypotheses on old
  chains are weak: each row's source hash is its own or forged visibly, and a link
  that is not its predecessor's is visibly broken, as `OldChain` makes them.

`AccountPurge_proofs`: any callers, windows, accounts, spellings, sign-ins.

- `LeaseSafety`: `Spec => []AtMostOncePerWindow`. `LeaseInv` adds that a window
  without a row has had no run and has none under way, which is why the row must
  outlive the run.
- `AccountSafety`: `Spec => []OneLiveAccount`. `AccountInv` says that exactly the
  tombstones carry the suffix, and that index entry and addresses have one holder
  each; a revival keeps it because the unique index refuses a second holder.
- `TypeCorrect`: both invariants, `TodoInv` (a list belongs to a run under way), and
  that every grantor has its row (`GrantorStep`).

`AiMetering_proofs`: any calls, quota and bound on calls under way.

- `TypeCorrect`, `SettledSafety` (`[]SettledAsSeen`), `RowsSafety`
  (`RowsOnlyGain`, an action property). `MeterInv` says of each call what the proxy
  knows and what is recorded: what has been seen has its placeholder started, a
  placeholder that went through left a row, only the correction marks a failure,
  and it does so after the placeholder.
- `GateSafety` (`GateSeesStreams`, an action property): by `MeterInv` every call with
  a billable frame whose placeholder is over has a row, of a status the gate counts,
  unless its statement failed; so there are fewer than `Limit` of them when the gate
  lets a call in.

`Idempotency_proofs`: any requests and bodies.

- `TypeCorrect`, `OnceSafety` (`[]AtMostOnce`), `AnswersSafety` (`AnswersAreTrue`,
  an action property). `KeyInv` says that whoever runs the handler owns the
  pending row, that an effect keeps its row until the key expires, that a stored
  row of a living key has its effect, and that a request about to discard a row
  read an expired one: no other row ever has that id, so that deleting by id
  cannot hit a reservation made since.

Only model-checked: the five liveness properties (`EveryJobEnds`,
`TransactionsEnd`, `OverdueIsPurged`, `SeenIsSettled`, `EveryRequestEnds`), since
liveness under fairness and `ENABLED` are out of the prover's reach, and with them
the absence of deadlock. Every invariant and every action property that a passing
run checks, and the refinement, are proved.

## 5. Not modelled, and the plan

Theorems to add: a promise as short as `BulkImport` for the other components, and
their refinement of it: one effect per life of a key (`Idempotency`), one body per
window (`CronLease`), and a row that only gains (`AiMetering`).

Components left out, and why:

- nonces, account lockout, one-time codes and renewal tokens: one conditional
  statement decides each, and nothing interleaves;
- the AI circuit breaker and KV rate limits: counters documented as approximate,
  in one Worker or in KV;
- regional KV snapshots: what the receiving region does with overtaking pushes is
  in another repository;
- the purge of a user's vocabulary (`purgeUserVocabulary`), linked OAuth accounts,
  the audit log and the risk tier in the user life cycle;
- team membership changes during a request; public and shared policies;
- the commit of an idempotent handler whose acknowledgement is lost: the code
  takes it for a failure and lets a retry run;
- the execution engine, the language server, payment and mail providers (other
  systems), the user interface, signature and hash algorithms.
