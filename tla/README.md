# Verification of the data-governance platform

This directory holds TLA+ models of the platform's core, the TLC configurations
that check them on small instances, and theorems about them whose proofs TLAPS
checks. Paths below are relative to the repository root (`src/` in
`PROJECT.json`). `PROJECT.json` maps every definition to the lines it models.

## 1. The system

The platform materializes data assets and governs them. One Go binary
(`cmd/platform`) runs as API server, scheduler or worker; every process talks to
one PostgreSQL database and to nothing else. There is no leader and no message
bus: **the tables are the shared state**, and all coordination is done with row
locks, `SKIP LOCKED`, conditional `UPDATE`s, partial unique indexes and advisory
locks. Several replicas of each process may run.

### Components

| component | state | operations | interacts with |
|---|---|---|---|
| run state machine and claim (`internal/run`) | `runs` rows: state, claimed_by, last_heartbeat, priority, queued_at | claim (`FOR UPDATE SKIP LOCKED`), heartbeat, legal/reset edges | executor, reaper, everything that enqueues |
| reaper (`internal/run/reaper.go`) | candidate list of a sweep | select stale, conditional reset | one goroutine in each worker |
| executor (`internal/runtime`) | the run, step, attempt and tokens in hand | claim → plan → gate → tokens → user function → commit → terminal transition → event → release | runs, tokens, governance (gate), schema, lineage, policy masks, event log |
| token pool (`internal/concurrency`) | `concurrency_tokens` | Acquire (advisory lock, SUM, INSERT), Release, ReleaseAll, ReleaseStale | executor, worker boot |
| schedules (`internal/schedule`) | `schedules` rows: next_fire_at, last_fire_at | tick, fire one due row, detect misses, register | enqueues runs |
| sensors (`internal/sensor`) | `sensors` rows: cursor, last_run_key, failure count, enabled | evaluate, fire, cool down, count errors, disable | enqueues runs |
| backfill and partitions (`internal/backfill`, `internal/partition`) | `backfills` rows | expand a range to keys, enqueue, status | enqueues runs |
| governance workflow (`internal/governance`) | asset versions, reviews; the votes are lines of a review's comment | submit, auto-approve, approve, reject, reassign, SLA breach | executor gate, audit, notifications |
| audit chain (`internal/audit`) | hash-linked `audit_log`, sentinel row | append, verify, export, anchor, retention | every governed change |
| policy store and sync (`internal/policy`) | policies, bindings, sync jobs | apply, patch, delete, sync to warehouses, reconcile drift | executor masks, connectors |
| notifications (`internal/notification`) | in-memory queue of 256, four senders | enqueue, send, retry | governance, freshness, policy |
| quality and freshness (`internal/quality`) | freshness breaches | scan, open and close a breach | event log, notifications |
| lineage, schema capture, metadata (`internal/lineage`, `schema`, `metadata`) | graph edges, versioned schemas, descriptions | capture inside the executor's commit, diff, classify, query | executor |
| authentication and roles (`internal/auth`) | users, invites, role bindings | register, invite, accept, grant, revoke | API |
| assets, dag, retry, events, connectors, API, storage | definitions, pure functions, append-only log, adapters, routing | | |

### What is hard

* **Concurrency.** Two workers claim from one queue; two reapers sweep the same
  rows; the sweep reads its candidates in one statement and resets them in later
  ones, while heartbeats land in between. `Release` deletes token rows without
  taking the lock under which `Acquire` sums them.
* **Crashes.** A worker may die between any two statements: after claiming, with
  tokens checked out, between the terminal transition and its event, between the
  commit of a step and the next. Only the row, with its heartbeat, tells the others.
* **Lost answers.** A statement may report an error although it committed.
* **Timeouts against late workers.** A worker paused for longer than `StaleAfter`
  wakes up after its run was reset and is executing somewhere else. Nothing in
  the later statements compares `claimed_by`.
* **Partial failure.** Errors of the terminal transition, of its event and of the
  token releases are logged or dropped, and the worker carries on.
* **One lock for all.** Every governed change of every service writes its audit entry
  under the lock of one sentinel row, with other rows already locked, and not
  everywhere in the same order.
* **Reads before the transaction.** The automatic approval, the policy sync job, the
  reconciler, the freshness and SLA scans and the schema capture decide on rows that
  they read earlier.
* **Progress.** Every queued run must be executed in the end, in spite of dead
  workers, leaked tokens and retries.

`PROJECT.json` lists each of these under `hazards` at its line.

### What makes the components correct

* runs: rows move along the edges of `run/state.go` only; a terminal row stays;
  success means that all steps committed; a claim is reset at most once; one
  executor per run as long as heartbeats arrive; every queued run settles.
* tokens: a tag is never overcommitted, in the table and (which is the point)
  in the set of user functions that are really running; no caller waits for ever.
* schedules and sensors: a window fires once, and is not both fired and reported
  missed (where clocks agree), a run key is not repeated, a failing sensor is disabled.
* governance: no version is approved without its quorum of distinct reviewers (where
  comments quote no votes), a decision is final, only approved versions are materialized.
* audit: the chain is linked after any interleaving of writers and rollbacks, and the
  trail agrees with the rows it tells of.
* policy: what the warehouse enforces converges to the store, and a step's output is
  masked meanwhile.
* freshness: a stale asset is told of in the end, although the queue is bounded and in
  memory and any scheduler process may die with it.
* catalogue: breaking schema changes, drift and tag overrides stay on record and stop
  an automatic approval.

## 2. Modules

| module | role |
|---|---|
| `RunStates` | run states, legal and reset edges, priority tiers (`run/state.go`, `lifecycle.go`, `priority.go`) |
| `RunLifecycle` | abstract specification: what a row of `runs` promises |
| `RunEngine` | claim, executor, heartbeat, reaper, process death: implements `RunLifecycle` |
| `RunEngineProofs` | theorems about `RunEngine` |
| `AtomicPool` | abstract specification: check and take a token in one step |
| `TokenPool` | `concurrency.Pool` statement by statement: implements `AtomicPool` |
| `Triggers` | schedules, sensors and backfills enqueueing into the run table; scheduler replicas |
| `AuditChain` | `audit.WriteEntry`: the sentinel lock, the linked rows, commit and rollback. Extended by each writer |
| `AuditWriters` | the chain by itself, with primary keys, what is read back, and `audit.Verify` |
| `Ballot` | abstract specification: what the review of a version promises |
| `Governance` | submit, approve, reject, reassign and the SLA scan: extends `AuditChain`, implements `Ballot` |
| `Roles` | accounts, invitations and roles (`auth/service.go`): extends `AuditChain` |
| `Catalog` | what a step's commit records of its asset, and the automatic approval that reads it: extends `AuditChain` |
| `AuditedServices` | composition of `Roles` and `Catalog` over one chain |
| `PolicySync` | the three policy layers, sync jobs, reconciler and pipeline masks |
| `Alerts` | freshness scanners of the scheduler processes and their in-process notification queues |
| `PartitionKeys`, `Dag`, `Backoff`, `SchemaDiff` | pure algorithms: partition keys and ranges, execution plans, retry delays, schema comparison |
| `Algorithms` | these four side by side, for one run (each has a specification of its own, which the theorems are about) |
| `AuditChainProofs` | what the steps of a transaction do to the linked chain: lemmas for its writers |
| `GovernanceProofs`, `TriggersProofs`, `PolicySyncProofs`, `AlertsProofs`, `AuditedServicesProofs` | theorems about these modules |
| `LibraryProofs` | theorems about what the processes link and call: `TokenPool` and the four algorithms |
| `MC...` | constants for TLC |

### RunEngine and the code

A SQL statement, or a transaction that other transactions cannot see into, is one
action. The claim is two actions, because its row lock is visible to the other
claimers through `SKIP LOCKED`. `Acquire` is one action here; that this is right
is what `TokenPool` and the refinement to `AtomicPool` establish.

| action | code |
|---|---|
| `ClaimSelect`, `ClaimCommit`, `ClaimFault` | `run.ClaimNext`: select by tier and `queued_at`, update, commit; an error may hide a commit |
| `Start`, `StartFault`, `Unresolvable` | head of `Executor.Run`: resolve, `starting → running`; the error returns leave the row as it is |
| `Gate` | the governance gate of `runStep`, once per step, before the attempts |
| `AcquireOk`, `AcquireMiss`, `AcquireFault` | `global`, `backfill` and the asset's own tags, in this order; a refusal releases what is held and retries or fails |
| `MaterializeOk`, `MaterializeErr`, `MaskErr` | mask rules, then the user function (panics and timeouts included) |
| `CommitOk`, `CommitErr` | `commitSuccess`, one transaction |
| `Succeed`, `Fail`, `EmitTerminal`, `Cleanup` | terminal transition, event, `ReleaseAll`, each with its ignored error |
| `Heartbeat`, `Expire` | `heartbeatLoop`; time |
| `SweepSelect`, `SweepRow`, `SweepFault` | `SweepOnce`: candidates, then one conditional UPDATE each |
| `Crash`, `Restart`, `AgeToken` | process death or SIGTERM; boot with `ReleaseStale(24h)`; time |

*Time* is reduced to what the code compares. A heartbeat is `fresh` or `stale`
(older than `StaleAfter`); `old[w]` are the rows that are older than the cutoff
sweep `w` computed when it started, so that the second filter of the UPDATE is the
same comparison as in the code. While a live worker executes a run, its heartbeat
goes stale only by spending a *stall* (ten missed ticks).

*Token rows* of weight n are n units, so that `SUM(weight)` is a cardinality.
`by`, `done`, `events` and `outstanding` are history: no guard of the engine reads
them, except that `AgeToken` uses `by` to tell a live attempt from a leaked row.

### TokenPool and the code

`Begin` normalises the weight; `TakeLock` is `pg_advisory_xact_lock`; `CheckFits`
and `CheckFull` read `SUM(weight)`; `InsertCommit` makes the row visible and frees
the lock; `Abort` is the deferred rollback. `Release`, `ReleaseAll` and
`ReleaseStale` take no lock and are enabled at any time.

### Triggers and the code

Several scheduler processes run the tick of `cmd/platform/scheduler.go`: drain the
due schedules with `FireOneSchedule`, then the due sensors with
`evaluateOneSensor`. Each transaction is two actions, `Select...` (BEGIN and the
locking SELECT) and its end, because the other replicas see the row lock through
`SKIP LOCKED`, because time passes while the user's `Sense` runs, and because
what was read (`row[p]`) is used after it.

| action | code |
|---|---|
| `Boot`, `BootAborted` | `UpsertSchedules`, `UpsertSensors`; a serialization failure ends the registration and is only logged |
| `ReadClock` | `time.Now()`, evaluated before the call |
| `SelectSchedule` | BEGIN, due row by `next_fire_at`, miss detection |
| `Fire`, `RollForward`, `FireConflict`, `FireFault` | the three ends of `FireOneSchedule`, and an error |
| `SelectSensor` | BEGIN, due row by `last_evaluated_at NULLS FIRST` |
| `Evaluate`, `SensorConflict`, `SensorFault` | `safeEvaluate` with `updateSensorOnNoFire`, `handleFired`, `handleError` or `autoDisableOrphan`; a collision; an error |
| `Submit` | `backfill.Submit` |
| `Settle` | a run becomes terminal (what `EveryRunSettles` of the engine provides) |
| `Tick`, `Crash` | time; process death and restart |

There are two clocks. `now` is the database's: `NOW()` is `txn[p]`, its value at
BEGIN. A process reads its own, which is `Skew[p]` ahead. A cron expression is the
set of its windows; the empty set is a crontab that parses and matches no date, for
which `sched.Next` returns the zero time (`ZeroTime`). The partial unique index is
`Vacant`: `owner[k]` tells who has the in-flight run of partition `k`.
`computeNextAndDetectMiss` is stated over the set of windows in the interval its loop
walks through; with no windows the loop does not end, and the process stays at `walk`
with the row locked. `Known[p]` are the assets and sensors in the registry of `p`: a
process without the asset fires it without a partition key (`SlotOf`). `fired`,
`twice`, `reported`, `early`, `sensed` and `streak` are history; `early` are the windows
that were handled before the database's clock had reached them.

### AuditChain and its writers

`WriteEntry(t, body)` takes the sentinel's lock (`holder`), chains a row to the head
and keeps it as the transaction's `draft`; `PublishEntry` and `DiscardEntry` are COMMIT
and ROLLBACK. SHA-256 has no collisions: a hash is the sequence of what was hashed
into it. The writers extend the module and put these operators into their
transactions, so that their own row locks and the sentinel's are taken in the order
of the code.

A row's `num` is the number that is hashed into it and that `WriteEntry` returns: the
sentinel's. `AuditWriters` adds what `Verify` needs: `audit_log.seq`, which comes from a
BIGSERIAL sequence and not from the sentinel, and `Reread`, what PostgreSQL gives back
of a time stamp and of a JSON text.

### Governance and the code

| action | code |
|---|---|
| `SubmitCheck`, `SubmitInsert` | `Workflow.Submit` before and inside its transaction; the partial unique index makes the second of two wait |
| `Decide` | `Workflow.decide` up to the vote: `FOR UPDATE`, four eyes, `hasPriorVoteByDecider` over the lines of the comment |
| `Seal` | `audit.WriteEntry` of the transaction |
| `Commit`, `HandlerFault` | commit and the enqueue after it; error, lost answer or death |
| `Reassign` | `Workflow.Reassign` |
| `ScanSelect`, `ScanSeal`, `MarkBreached`, `ScanCommit`, `ScanAborts`, `ScanFault` | `SLAScanner.Scan`: list, then one transaction per row, which takes the sentinel before the review |
| `AbortHandler`, `AbortScan` | PostgreSQL's deadlock detector ends one of two transactions that wait for each other |
| `PassDeadline` | time |

What `AutoApprovalChecker` may find is an input here (`Findings`); `Catalog` has its
queries.

The votes of a review are the lines of its comment that begin with `[approved by
<uuid>]`, and a decider's own comment is appended to it as it is. A comment is modelled
by what its lines do to the ledger: how many read like an approval, and whom they name
(`Comments`). `votes` are the approvals that `decide` itself appended, `quoted` what
comments brought along; `countApprovals` and `hasPriorVote` read both, as the code does.
`Ballot` has the same allowance: a vote may come with a comment that quotes votes.

### Roles, Catalog and AuditedServices

`Roles` has one action for each statement that may wait for another transaction's
row: the insert of an account (`InsertAccount`, unique email), of a role or an
assignment (the partial unique index), the rows that `DeleteRole` and `RevokeRole`
update, the foreign key from assignments to roles; then `SealRole` and `CommitRole`
or `FailRole`.

`Catalog` follows `commitSuccess` of a step of one asset: `BeginStep`, `EmitAudit`
and `WriteTag` (`Propagator.applyOverride`), `CaptureRun` (asset version and drift),
`Describe` (the warehouse), `Compare` (`schema.Writer.Capture`), `CommitStep` or
`FailStep`. Two partitions may be in it at once and the table may change between
their reads. A submission is three steps: `ProbeBreaks` and `ProbeDrift`, the two probes of
`AutoApprovalChecker.Check` that read these tables, each a query of its own, and
`Activate`, the transaction of `Workflow.Submit` that flips the state on their verdict
(what the other probes find and the review rows are in `Governance`). `SealOverride`
keeps the number that `WriteEntry` returns, the sentinel's. Whether one schema breaks
readers of another is the constant `NonBreaking`; that it is a preorder, which
`CatalogAssumption` asks for, is proved of the code's classification
(`HarmlessIsPreorder`).

`AuditedServices` interleaves the two: they share nothing but the chain, and that is
the point.

### PolicySync and the code

One column of one asset. `rows` are the active rows of the three sources;
`Effective` is `Store.Resolve`. A sync job is a step for each statement: `Take` (or
`TakeFails`) resolves the policy and the connector, the status becomes `syncing`, the call
of the warehouse may fail or be applied without an answer, and the mode and the status are
written by two statements, each of which may fail by itself (`Record`), to whatever rows
are active then. A reconciler tick reads the warehouse's masks (`TickList`) and then the
rows (`TickCompare`). A run's step asks for its mask rules with two queries, as
`Store.MaskRulesForAsset` does: `ReadPolicies`, the rows that no warehouse enforces, and
`ReadFallback`, the PII columns without an active row. `Redeploy` gives the asset another
connector; the rows keep their modes.

### Alerts and the code

Several scheduler processes, each with its `Scanner.Scan`, a transaction per row of the
list it selected without a lock (`Mark` waits for the row that another process's
transaction holds, `RowFree`), and its own `InProcessQueue`: a channel of capacity
`Buffer`, workers, and a goroutine for each retry that waits for its delay and then for
room. Process death empties that process's queue. Instead of a clock, a time stamp may at
any moment become older than the lag.

### The algorithms and the code

* `PartitionKeys`: days are numbers from a Monday on; the calendar of package `time`
  (month lengths, leap years, the normalisation of `AddDate`, ISO weeks) is modelled
  by what it computes and marked external. `DailyKeys`, `WeeklyKeys`, `MonthlyKeys` are
  the loops of `KeysBetween`; `PrecedingWeekKey` and `PrecedingMonthKey` are what
  `computeFirePartitionKey` and `resolveSensorPartitionKey` compute.
* `Dag`: the walk of `buildSubgraph`, `BuildDAG` edge by edge, Kahn's loop. Go ranges
  over maps in any order; every order is a behaviour. How the graph library looks for a
  loop is external: `Above` is the reachability that its answer stands for.
* `Backoff`: `retry.Schedule` with the int64 width of `time.Duration` (scaled down) and
  the conversion from a float that is out of range.
* `SchemaDiff`: `Diff`, `Classify`, `IsWideningPostgres` and `HashSchema` over three
  schemas an asset has one after the other. A column says for itself whether it is of the
  key, which the hash reads and `Diff` does not: a descriptor fills it from the key, a
  schema that the asset returns with its result may say anything (`Reflagged`).

## 3. Runs

| run | what it checks | distinct states |
|---|---|---|
| `engine_crash` | `TypeOK`, `InFlightReapable`, `ExclusiveExecution`, `ConcurrencyHonoured`, `EventsMatchRows`, and `EveryRunSettles` under `FairSpec`: two workers, a gate that may refuse, retries, a process death | 118k |
| `engine_stall` | `OneResetPerClaim`, `SucceededMeansCommitted`, `ImplementsLifecycle`: a stall of a live worker and a failing statement, plans of two steps, a run that cannot be resolved | 1.5M |
| `pool` | `CapacityRespected`, `ImplementsAtomicPool`, and `AcquireAnswers` under `FairSpec` | 13k |
| `triggers_schedules` | `WindowFiredOnce`, `MissedWereNotFired`, and `DueScheduleHandled` under `FairSpec`: two replicas of different versions, one with its clock ahead of the database's, three schedules, one of them with a crontab without dates, a backfill, a crash, a failing statement | 319k |
| `triggers_sensors` | `SensorRunsSpaced`, `FailingSensorStops`, and `DueSensorHandled` under `FairSpec`: two replicas of different versions, one with its clock behind, a failing statement | 565k |
| `algorithms` | `KeysExact`, `MonthKeyExact`, `PlanExact`, `DelaysPaced`, `HarmlessComposes`, `HashFollowsDiff`: each algorithm against an independent definition | 74k |
| `governance` | `ChainUnbroken`, `QuorumHonoured`, `TrailComplete`, `ImplementsBallot`, and `EveryRequestAnswered`, `OverdueIsHandled` under `FairSpec`: two handlers, a scanner, comments that quote votes, a fault, deadlocks | 161k |
| `services` | `RolesFollowTrail`, `InviteSpentOnce`, `OverrideAuditedOnce`, `ObservationsOnRecord`, `ApprovalSeesAll`, and `EveryTransactionEnds` under `FairSpec`: two handlers of the API, two committing steps, changes of the table, a submission | 58k |
| `policy` | `MaskEventuallyEnforced` under `FairSpec`: two sync workers and a reconciler while the policies change, one call or statement that fails | 649k |
| `policy_steps` | `StepFollowsPolicy`: a step's two queries among these, with a redeployment and a failing statement | 835k |
| `alerts` | `EveryNotificationSettles`, `StaleIsTold` under `FairSpec`: one process, two assets, a full queue, failing sends, a lost answer or a death | 70k |
| `audit_verify` | `IntactChainVerifies` | **violated** |

The passing runs hold. `audit_verify` shows that `audit.Verify` rejects intact rows, against
`writer.go:51-53`, which `findings` quotes: `WriteEntry` hashes nanoseconds and the canonical
JSON text; the columns keep microseconds and PostgreSQL's own rendering. (Beside that, a
range from 1 is anchored at the head's hash, and the row's key stands where the writer
hashed the sentinel's number.)

### Sentences that the code does not live up to

The models contain each of the following behaviours of the code, which contradict a comment
or a document. The property named after each says what does hold there, and its comment says
what it leaves open.

1. The number that `WriteEntry` returns, which `column_pii_tags.pii_override_audit_seq`
   keeps, is the sentinel's. Migration `20260510000004:28` says it is the `audit_log` seq, a
   BIGSERIAL, which skips a value after a rollback; from then on the row names another
   entry. `OverrideAuditedOnce` is about the number in the hash.
2. The votes are counted in free text to which the decider's comment is appended as it is
   (`workflow.go:345-346`): a comment of several lines that quotes the ledger counts its
   quotations as votes, or makes the person it names a prior voter, while
   `workflow.go:606-610` says that only `decide` produces these lines. `QuorumHonoured` and
   `ImplementsBallot` count what comments quoted apart from what was voted.
3. `MaskRulesForAsset` is two queries outside a transaction (`store.go:694,731`). A first
   policy of a PII column that is committed between them is missed by the one and suppresses
   the other, and the step writes the column as it is, against the default that
   `store.go:657-659` promises. `StepFollowsPolicy` speaks of the policies at each query.
4. `enforcement_mode` belongs to the row, the connector to the asset. After a deployment
   with a connector that cannot mask, rows still say `warehouse-native` and steps pass over
   their policies until a sync job has run ("the warehouse handles them",
   `store.go:662-663`). `StepFollowsPolicy` allows it only after a warehouse took a mask.
5. The probes of the automatic approval and the transaction that activates the version
   are apart (`workflow.go:142,163`): a breaking change or drift that a step commits in
   between is not seen, while `workflow.go:97-100` says that all is one transaction.
   `ApprovalSeesAll` is about what was on record when the probes began.
6. A crontab that parses and matches no date (`0 0 30 2 *`) keeps the process that selects
   its row in the loop of `computeNextAndDetectMiss` for good, with the row locked, while
   `missed.go:51` says that the iteration is bounded. `DueScheduleHandled` asks for more
   processes than such rows.
7. A process whose clock is ahead of the database's fires a window that `last_fire_at`
   (`NOW()`, `fire.go:122`) does not cover, and the next fire reports it missed; `missed.go:36`
   counts the windows "skipped while the daemon was down". `MissedWereNotFired` excepts the
   windows that were handled early.
8. `cooldown_until` is written by one process's clock and compared with another's
   (`evaluate.go:234,262,304`), not with `NOW()` as `evaluate.go:226` says: clocks that differ
   shorten a cooldown. `SensorRunsSpaced` subtracts the difference.
9. Two scheduler processes that have selected one stale asset both report its breach
   (`freshness.go:17-19` says that the marker keeps reports apart). The second UPDATE has no
   condition on the marker, and the event is appended before the commit (`freshness.go:116`),
   so that a rolled-back marker repeats it too. `StaleIsTold` does not mind a repetition.
10. On the 31st (and on March 29 to 31) the "preceding window" of a monthly partition
    (`fire.go:168-169`) is the current month: `AddDate(0, -1, 0)` overflows. `MonthKeyExact`
    says on which days this happens, and that it happens on no other.

### Other observations

The models contain the following behaviours of the code as well. Where a property would
otherwise fail for one of them it is stated around it, and its comment says so.

*Engine and triggers*
* A failed `commitSuccess` makes `Run` mark the run `failed` (`executor.go:433`); the
  comments at 430-432 and 459-461 expect it to stay `running` for the reaper.
* A worker that lost its claim is not told so and commits its step beside the new owner
  (`executor.go:248`), while `claim.go:155-157` says that it aborts. The lifecycle
  survives this (`ImplementsLifecycle`, `SucceededMeansCommitted`).
* `last_fire_at` is the database's clock, `next_fire_at` comes from the process's earlier
  reading (`fire.go:122`). A window between the two is neither run nor reported. A
  window that was handled early, by a process clock ahead of the database's, can be
  reported missed; and if a process with another crontab and a slower clock registers
  after the fire, its upsert puts `next_fire_at` back to the window, which fires again.
  `WindowFiredOnce` and `MissedWereNotFired` except the windows that were handled early
  and no others.
* A row whose crontab has no dates holds one process for good, so that
  `DueScheduleHandled` asks for more processes than such rows.
* A gate refusal fails the run, while `executor.go:296-299` expects "a brief retry": the
  gate comes before the attempt loop. An error of the gate's query lets the run
  proceed. The gate is not read again before a retry.
* A re-run competes with the tokens its crashed claim leaked until a worker boots 24
  hours later (`.planning/phases/02-execution-engine/02-03-PLAN.md:1009` expects a
  ReleaseAll).
* An old binary disables the row of a sensor it does not know, and nothing enables it
  again. `total_partitions` of a backfill counts the keys asked for, not the runs
  created (`storage/ent/schema/backfill.go:42`).
* An upstream that is listed twice makes the graph library report a duplicate edge,
  which `dag.go:57-60` reports as a cycle. `Dag` takes upstreams as sets.
* A delay that leaves the range of a Duration is negative and passes `MaxDelay`
  (`retry/policy.go:30-33`): from the 35th attempt on with an initial delay of a second.

*Governance, audit, roles*
* A review that was approved automatically has no decider: it can still be approved or
  rejected, blocks a later submission through the unique index, and can breach its SLA
  (`workflow.go:24-27` says ErrReviewNotFound).
* Two scheduler processes report the breach of one review twice (`TrailComplete` allows
  one entry for each).
* A step that has audited an override holds the sentinel when it marks drift on the
  version's row (`lineage/capture.go:258`); a submission of that version holds the row when
  it asks for the sentinel (`workflow.go:201-215`). PostgreSQL aborts one of the two. No
  module has both sides, and `EveryTransactionEnds` leaves the reviews out.
* `quality_config_sanity` selects a column `schema_versions` does not have
  (`auto_approval.go:327-349`) and never fires. `Reassign` keeps the quorum of the reviewers
  before and writes no entry.
* `AssignRole` audits an assignment it did not make; a `DeleteRole` that overlaps with
  the creation of its role audits a deletion of nothing; two first registrations both
  become administrator (`auth/service.go:93-95`). `DeleteRole` needs a DELETE grant
  that the migrations do not give the application.
* Two acknowledgements of one schema change may both succeed, and the second replaces
  the first.

*Catalogue and policies*
* `ON CONFLICT ON CONSTRAINT` in `lineage/capture.go:97,180` names unique indexes, which
  PostgreSQL does not accept there; edges of assets with upstreams, column lineage and
  what is propagated along them are not modelled for this reason.
* A schema that an asset returns itself (`schema/capture.go:115`) may change a column's
  `is_pk` without changing the key: the hash is new, `Diff` finds nothing, and a version
  without changes is written. `HashFollowsDiff` says that this is the only case.
* Two first captures of an asset that overlap compare with nothing; a break between
  them is not recorded. Comment-only changes make no version. decimal(10,2) to
  decimal(10,4) counts as a widening although two integer digits are lost
  (`HarmlessComposes` exempts it).
* After the last policy of an asset is deleted the warehouse keeps the mask: the
  reconciler skips the asset and the sync job has nothing to apply. Production wires a
  store without a job queue and a reconciler that enqueues nothing
  (`cmd/platform`), so the sync pipeline is checked as its package has it.
* No production code writes `freshness_max_lag_seconds` (`schedule/registry.go:73-76`);
  the scanner is checked for rows that have it.

### Bounds

*Engine.* Two workers and two runs are what the races need: two claimers of one row, a
claimer and a sweeper, two sweepers with overlapping candidates, a stalled owner and
its successor, each with a competing run for the tokens. `MaxCrashes`, `MaxDbFaults`
and `MaxStalls` bound the faults; each run spends its budget where the fault matters,
and the proofs cover any number. The limits are tight enough for `ErrCapacity`;
`engine_stall` has plans of two steps and resources of weight two and of negative
weight. `Units` bounds the ids of token units above the largest sum that a leak can
build up. Workers are symmetric in `engine_stall`; the runs that check liveness use no
symmetry.

*Pool.* Two clients that ask for one tag, a weight that fits once and a negative one.

*Triggers.* One schedule has a window at every unit of time and a partition per day of
two units, so that windows collide on a partition; the other has none and stands behind
it in the queue, and the third has a crontab without dates, in the newer of two versions of the
assets. The units of time cover two fires with a skipped window between them,
or a cooldown with the runs before and after it and one failure more than the threshold.
In `triggers_schedules` one clock is a unit ahead of the database's, so that windows are
handled early, and the processes have different crontabs; in `triggers_sensors` one is a
unit behind. Schedules and sensors meet only in the run table, where the backfill stands for
the sensors and the in-flight run of the other sensor for the schedules.

*Algorithms.* Every range of at most 46 days from December 2019 to January 2021: a leap
day, a year of 53 weeks, months of all lengths. Every graph over three assets, cycles
and self-loops included. Retry policies with up to ten attempts where the ninth
doubling overflows. Schemas of two columns over the families of the lattice, with flags
that agree with the key and flags that do not, and two alterations after the first
capture, which is what a break hidden between two comparisons needs.

*Governance.* One version, two reviews of it one after the other, three users of whom
one submits, a quorum of everybody (two), one SLA that runs out, one fault, four
requests: a submission, two votes that race, and a second submission or a rejection; a
comment quotes nothing, or a vote of one of the three.

*Services.* Three role requests and two commits of steps, weighed against each other by
`MaxWork` (two handlers at full length with one commit, or two commits with none): the
chain is the only thing they share, and each kind reaches its own races alone. One role,
one user and one invitation; two code hashes, one with the override; two schemas, one of
which breaks the other's readers. Two changes of the table and one submission: a
schema may break, and be read again as it was, between any two queries.

*Policy.* Two masks and three layers, two workers so that jobs of different policies
overtake each other, two changes, one fault. `policy_steps` adds one step of a run and one
redeployment, and has one worker without a second attempt: a job that was taken before two
changes and a redeployment and writes its outcome after them is one of an older policy and
another connector, as a retry or a second worker's would be.

*Alerts.* `alerts`: two assets and one worker with a channel of one place and two
notifications, which fills the channel, the worker and the timers; two attempts; one
death or failing commit. The run has one process, which a restart follows: two processes
share nothing but the row, for which one may wait until the other's transaction ends. What
the queue of each one holds is the theorem `NotificationHeldOnce`, for any number of them.

`CHECK_DEADLOCK FALSE` everywhere but in the runs of `Alerts`: when the bounded
requests and faults are used up nothing is left to do.

### Fairness

* `RunEngine`: weak fairness of a live worker's next step (the user function is bounded
  by `StepTimeout` and every other step is a statement), of the reaper (a ticker
  goroutine in each worker), of the passing of time for a run that nobody executes, and
  of restarting a dead worker, which the deployment does. Nothing obliges runs to be
  enqueued, statements to fail, workers to stall or tokens to age. `EveryRunSettles` is
  about `Resolvable` runs: another one stays `starting`, is swept and claimed again for
  ever, by the early return in `Run`.
* `TokenPool`: strong fairness of the advisory lock, because PostgreSQL queues lock
  waiters, and weak fairness of the statements of a transaction. Callers need not
  release.
* `Triggers`: scheduler processes keep ticking (`Sense` is bounded by its context,
  panics are recovered) and in-flight runs settle, which is the engine's own liveness
  property. Backfills, clock ticks, faults and crashes are not obliged to happen.
* `Governance`, `AuditedServices`: strong fairness of a transaction's next step, which
  may wait for a row or for the sentinel, because PostgreSQL queues the waiters; weak
  fairness of the scanner and of the deadlock detector. Requests and faults are free.
* `PolicySync`: the workers and the reconciler work, a step goes on, and a row's last
  attempt gets old. Changes of the policies, redeployments and failing calls are not
  obliged to happen.
* `Alerts`: time passes, the schedulers tick, workers work (a send has a timeout), timers
  fire; strong where a goroutine waits for room in the channel or a transaction for a row,
  because Go queues the senders and PostgreSQL the waiters.

## 4. Proofs

The theorems hold for every value of the constants that satisfies the named assumption
of each module: any processes, runs, plans, priorities, limits, retry policies, crontabs,
reviews, routes and comments, clocks, and any fault budgets.
What the assumptions ask for beyond types:

* `ConstantsAssumption`, `PoolAssumption`: finitely many runs and token units.
* `GovernanceAssumption`: finitely many scanner processes (they are counted against the
  breach entries), finitely many roles of a route; the value that stands for "all
  reviewers" is negative, as in the code.
* `TriggersAssumption`: the run of time begins before it ends, and every process's clock
  stays within the numbers that stand for windows.
* `AlertsAssumption`, `PolicyAssumption`, `RolesAssumption`, `CatalogAssumption`: the
  null values are no values; the first capture is of a code version that is no longer
  deployed; `NonBreaking` is a preorder.
* `ServicesAssumption`: a handler of the API and a worker are different transactions.
* `DagAssumption`: finitely many assets, the target among them. `BackoffAssumption`,
  `KeysAssumption`: numbers are natural. `SchemaAssumption`: no declared length of a
  varchar is above `MaxLength`, the longest text that the database holds.

A theorem that needs more names it in an `ASSUME`, quoted below.

Each module has one inductive invariant, `IInv` where nothing else is said, with
one lemma for each action or group of actions that keep it. TLC checked the
invariants on small instances before they were proved.

### Engine and pool

`LibraryProofs`, the token pool
* `PoolInvariant`: types, finiteness of the table, `LockHeld` (a transaction past
  `TakeLock` holds the lock of its tag), `CheckStillHolds` and `CapacityRespected`. The
  capacity alone is not inductive: `InsertCommit` needs the sum it has read to be
  still an upper bound, which needs the lock to exclude other inserts of the tag
  (`LockExcludes`) and deletes only to lower the sum (`DeleteLowers`).
* `PoolCapacity`, `PoolCheckStillHolds`: from it. No run checks `CheckStillHolds` by itself:
  the refinement, which `pool` checks, fails without it.
* `PoolRefines`: each step maps to a step of `AtomicPool` or a stutter; the
  commit is the step that takes the token.
* `PoolLocksDoNotNest`: who waits for a tag's lock holds none. It is the safety half of
  `AcquireAnswers`, for any number of tags and callers.

`RunEngineProofs`
* `EngineInvariant`: `Types /\ RowInv`. `Types` adds to `TypeOK` that the number of
  tags held stays within the step's requests. `RowInv` holds what the row
  properties rest on: a claim in progress has its row locked and still queued, two
  claimers never lock one row, and a worker at step n has the steps below n
  committed. None of it mentions who owns the run, so it survives stalls.
* `EngineTypes`, `RowsStayReapable`, `ResetsAreUnique`, `SuccessIsCommitted`: its
  consequences, for any number of crashes, faults and stalls.
* `EngineImplementsLifecycle`: `Spec => ImplementsLifecycle`.
* `OnTimeInv`: as long as no heartbeat was late (`stalls = MaxStalls`: a budget only
  falls), `OwnershipInv` holds: a row with a live executor is fresh and in no sweep's
  `old`. This is what makes the second filter of the reaper's UPDATE indispensable.
  `ExecutionIsExclusive` is its consequence for `MaxStalls = 0`.
* `EventsAgreeWithRows`: as long as no heartbeat was late and no statement failed, a
  terminal event says what its row says. `EventInv` says that an event implies the
  terminal row; a row that is terminal stays so, and a worker emits only after a
  transition of its own, which in the absence of lost answers was made. With a late
  heartbeat or a failing statement `run.failed` can follow a success, as the code has
  it. `EventsNeverContradict` is the same for an engine without either
  (`MaxStalls = 0`, `MaxDbFaults = 0`).
* `LimitsAreHonoured`: `ConcurrencyHonoured`, which is about the functions that really
  run, not about the table. `HoldInv` maps each unit that a running function wants of a
  tag to a row of the table that its own run inserted and that is not aged, one to one
  (`HoldsWanted`); the rows fit the limit, so the functions do. A release deletes by
  run and tag, and nobody else executes the run as long as heartbeats are in time;
  `ReleaseStale` deletes aged rows only, which never belong to a live attempt.
* `TableWithinLimits`: `CapacityRespected` of the engine's own table, stalls and double
  executions included.

### Triggers

`TriggersInvariant`: `TypeInv`, `LocksHold` (a row has at most one transaction, and it is
in the phase that locks it) and `ReadHolds`: what a transaction has read of its row
(`FireRead`, `SenseRead`) is still true when it ends, whatever the other replicas did
meanwhile. On this stand:

* `MissedWindowsWereNotFired` and `WindowsFireOnce`, for any clocks and crontabs: `PastInv`,
  what was fired or reported is not after `last_fire_at`, or it was handled early (by a
  process whose clock showed the window before `NOW()` did), and what a transaction is
  about to fire or report is after it, because the row is locked since it was read. The
  exception is what the code does (section 3, sentence 7); where no clock is
  ahead nothing is handled early.
* `OneCrontabFiresOnce` (`ASSUME OneCrontab`: the processes that schedule an asset give it
  one crontab): no window fires a second time, early or not, from `DueInv`: all fired
  windows lie below `next_fire_at`. With two crontabs and a clock ahead this is false
  (see the observations).
* `FailingSensorsStop`: `StopInv` relates the failures in a row that were seen to
  the counter of the row, which every replica increments under the lock.
* `SensorRunsAreSpaced`, for any clocks: `SpacedInv`. `cooldown_until` is written with one
  process's clock and compared with another's, so the distance of two runs is the
  cooldown less what the second clock is ahead of the first.
* `SchedulesMoveOn`, an action property without any assumption on the clocks or the
  crontabs: only a registration with another crontab puts `next_fire_at` back. The row
  that a process fires was due by the clock it had read (`FireRead`), and what it writes
  is after that clock.

### Governance

`GovernanceInvariant`: `TypeInv /\ ChainInv /\ Sealed /\ LocksHold /\ TrailInv`.

* `ChainInv` is in `AuditChainProofs`, for any set of entries: the rows are linked, a
  draft exists only while its transaction holds the sentinel, and is chained to the head.
  The chain alone is not inductive, because the draft becomes the next row later.
  `Sealed`: whoever is past `WriteEntry` holds the sentinel with the entry of its request.
* `LocksHold`: what `Decide` and the scanner read under the row lock (`ReadHolds`) is still
  true at the commit, the lines of the comment included, and two transactions past their
  reads never have the same review (`Apart`).
* `TrailInv`: each review is what the trail tells of it (`RowSound`, `TrailOf`: the votes
  that `decide` appended are its approval entries; a quorum is these and the quoted
  ones), and the scanners that still have a review in
  their list account for the breach entries that may follow (`BreachesLeft`).

From it: `ChainStaysLinked`; `ApprovalsHaveQuorum`, which is about people where no comment
quotes a vote and otherwise says by how much the quorum falls short; `TrailIsComplete`;
and `GovernanceImplementsBallot`, `Spec => ImplementsBallot`: `Commit` of a request is the
submission, vote (with what its comment quotes) or rejection of the ballot, `Reassign`
its change of reviewers, all else stutters. `DecisionsAreFinal`, an action property, is what follows for
the rows: a decided review keeps its decision and its votes, and no vote is withdrawn.

### Roles, Catalog and AuditedServices

`ServicesInvariant`: the types of both, the budgets, `ChainInv` over the entries of
either service, and the links between a transaction before its commit and the draft it
has (`RoleLink`, `StepLink`). The theorems are about the composition, where every step
of one service happens between two of the other.

* `SharedChainStaysLinked`.
* `InvitesAreSpentOnce` with `AccountsInv`: the unique email reserves the account while its
  insert is uncommitted, so that two acceptances of one invitation collide there,
  though neither locks the invitation.
* `OverridesAreAuditedOnce` with `TagInv`: at most one step of overriding code is past
  its write of the tag, because the row of the tag is locked; and the number it will
  store is the one hashed into its own draft, because it holds the sentinel from
  `WriteEntry` to the commit. Which key PostgreSQL gives the row is another matter (section 3,
  sentence 1).
* `ObservationsStay` with `RecordInv`: the version that a commit compared with was on
  record. Transitivity of `NonBreaking` turns "breaks the first" into "breaks at some
  step", whatever overlapping commits compared with.
* `ApprovalsSeeEverything` with `RecordInv` and `SubmissionInv`: what the probes of a
  submission have not yet looked at only grows, so that an activation has weighed all
  that was on record when they began (`Weighed`), each break acknowledged by itself. It
  does not speak of what is committed after the probes (section 3, sentence 5).
* `TrailMatchesRows` with `GrantsInv`: the rows that `DeleteRole` and `RevokeRole` have
  updated are disjoint and keep what was read of them until the commit.

### PolicySync and Alerts

* `StepsFollowPolicy`: with `NeverNative` (an asset that never had a masking warehouse has
  no row that says warehouse-native: an old job writes `in-pipeline` there),
  `NativeWasPushed` (a row says so only after a warehouse has taken a mask) and `StepRead`
  (what the first of the two queries has found). The property says what a step applies in
  terms of the policies in force at each of its queries, and thus what is lost in between
  (section 3, sentences 3 and 4).
* `NotificationHeldOnce`, for any number of processes: `QueueInv`, which no run checks by
  itself. `HeldOnce`: the channel, the workers and the timers of a process share nothing,
  so that no notification is sent by two of them; `HeldIfAlive` and `WithinLimits` say
  what they hold and how much. How far apart two reports of a breach are is no theorem:
  the code does not keep them apart (section 3, sentence 9).

### The algorithms

`LibraryProofs`, after the token pool. Each theorem is about any inputs, where the run
`algorithms` enumerates small ones.

*Induction.* The library's induction theorems take a predicate as a parameter, which the
provers cannot instantiate; that `<` is well founded on the naturals (`WFMin`) can be
cited, because it speaks of a set. `LeastNatural` and `NatSetInduction` are induction in
that form: a property of n is the set of the n that have it.

* `KeysAreExact`. `MonthLength`: a month has 28 to 31 days, by cases of the month, where
  the leap days before a month change in February only. From it, by induction,
  `MonthBounds` and `MonthsAscend`, and thus a day lies in exactly one month
  (`MonthOfDay`, `OnlyMonthOfDay`), which the model finds by a `CHOOSE`. The keys of a
  range are then the months between the first and the last (`MonthlyKeysAre`), or the
  keys of Thursdays seven days apart (`WeeklyKeysAre`, `ThursdaysAscend`).
* `MonthKeysAreExact`, from `PrecedingMonthIs`: the key is the month before exactly when
  that month has the day of the fire; on any other day it is the month of the fire
  (section 3, sentence 10).
* `PlansAreExact`. `DagInv`: what the walk has reached lies in every set that is closed
  under the declared upstreams, and is such a set in the end (`WalkInv`); an asset in the
  order comes after its upstreams (`OrderInv`); in-degrees count the upstreams that are
  missing in the order, and the queue holds who misses none (`QueueInv`). An edge that
  is refused closes a cycle (`RefusedIsCyclic`); assets left over have an upstream among
  themselves; and an order leaves no room for a cycle, whose first member would come
  after another one (`OrderedIsAcyclic`).
* `DelaysArePaced`. A power of two is the number of subsets of a set (`PowerOfTwo`), so
  that a delay doubles without induction (`DoubledGrows`).
* `HarmlessChangesCompose`, `HashDecidesVersions`: a change is harmless exactly when it is
  so column by column (`NonBreakingAccepts`), which composes because widening does
  (`WidensComposes`); equal hashes mean the same columns but for comments, an empty diff
  the same but for comments and flags (`HashTells`, `DiffTells`), so that they part exactly
  where a kept column changed its `is_pk`. `HarmlessIsPreorder` discharges for this
  classification what `CatalogAssumption` asks of `NonBreaking`.

### Only model-checked

* Liveness: every property under `FairSpec`. Fairness and `ENABLED` are out of the
  prover's reach.
* The violated property of `audit_verify`.

## 5. Not modelled, and why

*Size.* The repository has about 93 000 lines of implementation; some 60 000 of them are
generated (`internal/storage/ent`, `proto/api/v1`): builders, getters and stubs that
keep no state beyond a request and take no decision. They are not modelled, and no
definition is mapped to them. Of the hand-written code the models cover what decides
and what coordinates; the rest is listed here.

* Step-level events, column metadata and column lineage written inside `commitSuccess`,
  edges between assets and PII along them (see the observations).
* Log lines, metrics, configuration, flags, bootstrap wiring.
* Collisions of `hashtext` between tags: they make two tags share a lock, which
  serialises more than needed and breaks nothing.
* Reuse of a worker id (`worker-<host>-<pid>`) after a restart: `claimed_by` is compared
  nowhere.
* Cancellation: `legalTransitions` has the edges to `canceled`, and no code outside
  tests takes them.
* In the triggers: `paused_at` (no code writes it), changes of a sensor's minimal
  interval, the tick that a process still runs while it shuts down, and the
  `sensor.*` events. In the backfills: the syntax of `--partitions`; `status` and
  `completed_at`, which no code updates.
* Passwords, tokens, sessions, the expiry of invitations, and the Casbin rules, which
  are updated on a connection of their own.
* Audit export, retention and anchoring: reads and file output.
* `allow_roles` of a policy and what a mask does to a value; several columns (they share
  nothing but the job queue).
* The evaluation of quality rules: SQL over user data. Notification channels: output.
* Asset definitions, the event log, metadata, connectors, HTTP handlers, storage, CLI:
  plain data, append-only inserts, input and output, formatting, routing.

## 6. Plan

Done: the plan of components; the refinements `RunEngine` to `RunLifecycle`, `TokenPool`
to `AtomicPool` and `Governance` to `Ballot`, each checked and proved; theorems for
every safety property that a passing run checks.

What could come next, when the code moves there: step-level events and column lineage,
once `lineage/capture.go` names its indexes in a form that PostgreSQL accepts; the engine
as a client of `AtomicPool`, which needs an abstract step that takes and returns in one
(a failing `Acquire` may commit a row that its own cleanup deletes).
