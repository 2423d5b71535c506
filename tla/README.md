# A verification development for samescale / harnesslab

The repository evaluates coding agents: it freezes an experiment plan, expands
it into logical run slots, lets worker processes claim and execute the slots
through lane runners (containers, providers), charges what they use to a frozen
budget, and keeps every physical attempt as immutable evidence. This directory
models the parts of it in which several processes and an operator change shared
state: the authoritative experiment lifecycle (`experiment/`, `budget/`), the
legacy queue and the block dispatch of methodology-v2 plans over it, the local
execution of saved plans (`local_execution/`), the Analyst's persisted
investigations (`analyst/`), three stores made of files (`custom_eval/`,
`external_evidence/` with `code_snapshots/`, the canary's launch journal in
`release/`) and the sandbox run of a hidden verifier (`sandbox/`). Paths below
are relative to `src/src/harnesslab/`.

## 1. Inventory

| Component | State it keeps | Operations | Interacts with | Correct when |
|---|---|---|---|---|
| `experiment/authoritative.py`, `lifecycle.py`, `outcomes.py` | attempt rows and their event chains, control events, reservations, reconciliations | `append_attempt_transition`, `create_recovery_attempt`, `reconcile_attempt_resources`, `issue_control` | called by queue, executor and operator inside their transactions | attempts move along one table, chains replay, every reservation is settled once, primary outcomes stay |
| `experiment/queue.py` | run rows: status, owner, lease, cancellation flag, outcome | `claim_authoritative_run`, `expire_authoritative_leases`, `heartbeat_run`, `transition_run`, `finish_run`, `request_run_cancellation`; legacy `claim_next_run`, `release_run`, `requeue_failed_infra_after_repair` | row locks, SKIP LOCKED | one owner drives a run, a lost run ends, a cancelled run yields no evidence |
| `experiment/executor.py` | the program counter of each coroutine, the claim it holds, its heartbeat task | `execute`, `run_until_idle`, `run_bounded` | the queue and the lane runners | a stale claim changes nothing |
| `budget/durable.py` | scope ledger: reserved and consumed totals; reservation rows | `initialize_budget_scope`, `reserve_budget` | called by the claim, settled by the reconciliation | totals account for the attempts and stay within the ceiling |
| `experiment/dispatch.py`, `execution.py` | block frontier, active tasks, lane and provider counts | `next_slot`, `restore_unclaimed`, `run` | claims exact slots through the executor | capacities hold, blocks are dispatched in order, no slot twice |
| `budget/plan.py`, `reservation.py`, `estimator.py` | in-memory reservation store under a lock | estimate, reserve, release | preflight | ceilings hold per dimension |
| `experiment/plan.py`, `funnel_*.py`, `methodology.py`, `statistics.py`, `report.py` | none (immutable values) | build and validate plans, gates, reports | queue | deterministic identities and denominators |
| `local_execution/` | lease row, file lock, sealed result file, containers | `claim`, `execute`, `_watch`, `_store`, `recover`, `once`, `authorize` | database, file system, Docker | an attempt runs at most once, a sealed result is never lost or replaced |
| `local_plans/` | saved plans, task files | assess, save | `local_execution` | a plan is stored once per idempotency key |
| `analyst/sessions.py`, `graph.py`, `real_backend.py` | session row (journal of decisions, calls and usage), advisory lock | create, `resume`, `propose`, `approve` | model provider, read-only tools | no call is replayed or refunded, spend stays below its ceilings, one resume at a time |
| `preflight/` | none (receipts) | unified preflight | claim | the claim's identities match the receipt |
| `evaluation_suites/` | exposure hash chain, admission registers (values) | append, assess, admit | plans | histories only grow, holdout is not exposed |
| `diagnosis/`, `failure_diagnosis/` | advisory artifacts | project, diagnose | read only | never writes acceptance evidence |
| `judgelab/` | calibration and evaluation rows | plan, run, persist | provider | one evaluation per slot |
| `custom_eval/` | snapshots under their content identity, an index file per task | import, read, qualify | `local_plans/tasks.py` imports under a file lock | a version is bound to one snapshot |
| `external_evidence/`, `code_snapshots/` | records, snapshots, verification attempts and receipts in one store with limits | `ingest`, `confirm`, `verify_workspace` | file locks, `sandbox/` | a record is verified once, the store stays within its limits |
| `evidence/`, `episodes/` | manifests, episode files | build, validate, hook | lanes | evidence is never rewritten |
| `sandbox/runner.py` | staging and artifact directories, a container, a manifest | run a hidden verifier | Docker commands with timeouts | a recorded cleanup means that the container is gone |
| `release/v6_canary.py` | launch markers, per-call evidence, one closeout | `execute` | provider | no call is retried, none is made past a failure |
| `model_lane/`, `harness_lane/`, `multi_harness/`, `egress.py` | containers, transcripts | run a lane | executor | external to the rows |
| `registry/`, other `release/`, `productization/`, `demo/`, `comparability/`, `tasks/`, `api/`, `cli.py`, `core/`, `contracts/`, `db/` | catalogue rows, gates, schemas | CRUD, validation, transport | all | see `PROJECT.json` |

### How the core interacts

`enqueue_plan` and `initialize_authoritative_lifecycle` create one run row and
one PRIMARY attempt per slot, `initialize_budget_scope` an empty ledger. A
worker's claim is one transaction under the experiment row's lock: it checks
that the control state is ACTIVE, ends every attempt whose lease has run out,
picks a QUEUED run, reserves the maximum of its envelope and takes the lease; a
denied reservation ends the attempt as BUDGET_EXHAUSTED. The coroutine then
makes one transaction per step (PREPARING, RUNNING, lane, VERIFYING, SCORING,
reconciliation, finish). A heartbeat task renews the lease during the lane. The
operator issues PAUSE, RESUME, RUN_REMAINING, RETRY_INFRA_SELECTED and CANCEL
(one transaction under the experiment row's lock), or cancels one run.

### How the queue and the dispatcher interact

Runs of an experiment without an authoritative lifecycle have no attempt rows. A
claim first cancels abandoned runs (flag raised, lease run out), then hands out
the first run that is queued or whose lease has run out, under the next attempt
number, so a lost run is taken over while its old worker may still be at it.
`BlockAwareDispatcher.run` is one coordinator of a methodology-v2 plan: it reads
the terminal and the live rows once, refuses to start beside a live lease, and
then claims exactly the slot its frontier names (the first open slot of the
first block that is not fully represented, if the global, lane and provider
limits allow), starts a task for it, and collects the tasks as they end. A lost
claim, a failed task or a cancellation of the call cancels all its tasks between
two of their transactions; their leases run on.

### How local execution interacts

`authorize` binds one authorization, one lease row (QUEUED) and one attempt to a
saved plan for ever. Each worker process loops over `once`: `recover`, then
`claim`, then `execute`. `recover` reads the ids of expired leases, and for each
takes the run's file lock without waiting, removes the run's containers, and
under the row lock ends the run with the sealed result, FAILED_INFRA if that is
invalid, or INTERRUPTED. `claim` takes a QUEUED row (attempt 0 becomes 1);
`execute` takes the file lock, `_prepare`s (RUNNING), enters the runner beside a
`_watch` task that renews the lease or cancels the lane, removes the containers,
seals the result in a file (write, fsync, rename) and `_store`s it. `cancel`
ends a queued run at once and otherwise raises a flag.

### How an investigation interacts

`resume` takes a PostgreSQL advisory lock on the session (or is refused as
busy), marks what a dead process left in flight as interrupted, and lets the
graph advance by one decision: ask the backend (the iteration and, for a real
provider, its usage entry are saved before the request leaves), execute the
read-only calls it asks for one after the other (each saved as RUNNING before,
with its result after), or write the report. All saves go through the connection
that holds the lock; if that connection is lost the lock is free at once, while
the process goes on until its next save raises. `propose` and `approve` take the
same lock for one save.

### How the file stores and the sandbox interact

Nothing but files keeps two processes apart here. A custom task is imported by
renaming a staged snapshot into place and then writing an index file; product
imports hold a lock file around both, the command line does not. Records and
code snapshots are staged, counted against the limits of the store and renamed
under the store's lock; a verification takes the record's own lock, burns its
single attempt by creating a file, runs the hidden verifier in the sandbox and
writes the receipt. The sandbox client kills Docker commands
that run out of time, while the daemon goes on carrying them out; it then
removes the container and believes only the daemon's listing. The canary marks
each of its three calls before sending it and describes it afterwards in a file
that is created once.

### What is hard here

* Workers, the expiry inside somebody else's claim, and the operator interleave
  between any two transactions; coroutines of one executor share an owner
  identity, so the attempt number is what tells a stale claim from a live one.
* A coroutine dies between two transactions, or comes back after its attempt
  was ended, settled and retried.
* CANCEL acts on attempts it read without a lock.
* Four rows (run, attempt, event chain, ledger) are written by separate
  statements of six handlers and must agree.
* Leases are expired only by a claim, and a claim does nothing unless ACTIVE.
* A local worker dies at any point between database, file system and Docker, or
  is alive and slow while its lease runs out: the lease row, the file lock, the
  sealed file and the containers must still tell one story.
* A provider that was asked may answer, and be paid, after the process that
  asked it is gone; a tool may have run although its result was never saved.
* A process dies between two file operations of what should be one step; a lock
  that some writers take and others do not.
* A killed command of Docker may still take effect.

`PROJECT.json` lists each hazard at its line, with the properties that cover it.


## 2. The modules

| Module | Models |
|---|---|
| `Lifecycle` | the two status vocabularies and the tables between them |
| `RunLifecycle` | abstract: the immutable `RunLifecycle` ledger value of `lifecycle.py` |
| `AuthoritativeRuns` | the durable rows, the ledger, the controls and the executor's coroutines |
| `AuthoritativeRunsProofs` | its theorems |
| `AttemptLog` | abstract: what the legacy queue promises for one logical run |
| `RunQueue` | run rows without attempt rows, and the executions that drive them |
| `RunQueueProofs` | types, attempts kept apart, one driver, the refinement of `AttemptLog` |
| `BlockDispatch` | coordinators over the rows and executions of `RunQueue` (instantiated, one execution per coordinator and slot) |
| `BlockDispatchProofs` | places are held, blocks and slots begin in order, each coordinator keeps the caps |
| `SingleAttempt` | abstract: what local execution promises for one authorized run |
| `LocalWorker` | lease rows, result rows, file locks, sealed files, containers and the worker processes |
| `LocalWorkerProofs` | types, clean ends, the file lock, results, the refinement of `SingleAttempt` |
| `AnalystSession` | one persisted investigation, the processes that resume it, the provider they ask |
| `AnalystSessionProofs` | its types and safety properties |
| `TaskStore` | snapshots and index files of custom tasks, and the processes that import them through two entry points |
| `CanaryJournal`, `CanaryJournalProofs` | the launch journal of the canary and its executors; no retry |
| `EvidenceStore`, `EvidenceStoreProofs` | records, snapshots and verifications in one store with a limit; one verification per record |
| `SandboxRun` | the run of a hidden verifier against a Docker daemon; the recorded cleanup |
| `Stores`, `StoresProofs` | the file stores and the sandbox side by side; the theorems about all of them |
| `MCAuthoritativeRuns`, `MCRunQueue`, `MCBlockDispatch`, `MCLocalWorker`, `MCAnalystSession`, `MCStores` | finite instances for TLC |

`Stores` holds six systems that share neither a file nor a process: the task store
with product imports only and with imports of both entry points, the canary with
one executor and with several, the evidence store, and the sandbox. A behaviour is
one of a single system; which one, the variable `store` says. In `BlockDispatch`
the variable `deployment` says likewise which coordinators there are and with
which `slot_ids` each calls `run`; neither ever changes. Both are variables and
not constants so that one theorem speaks of every case, and one run checks
several.

### AuthoritativeRuns and the code

| Model | Code |
|---|---|
| `run[r]` | `ExperimentRunRecord`: `status`, `attempt`, `lease_owner`, `cancellation_requested`, `normalized_outcome`; `lease` is the number of clock ticks left, 0 when there is none or it has expired |
| `att[r][n]`, `made[r]` | `ExperimentRunAttemptRecord` n of run r, with the result of replaying its event chain (`replay`), its reservation decision, its reconciliation and what that charged |
| `reserved`, `consumed` | `BudgetScopeLedgerRecord.reserved_totals_json`, `consumed_totals_json` |
| `control`, `lastControl` | `control_state`, the type of the last `ExperimentControlEventRecord` |
| `cancel` | a CANCEL transaction that has read the attempts and not yet committed |
| `worker[w]` | where coroutine w of `execute` stands, its claim (run, attempt), what its heartbeat task saw (`beat`) and what the lane returned (`result`) |
| `ClaimAuthoritativeRun` | `claim_authoritative_run` with `expire_authoritative_leases` and `reserve_budget`; three outcomes: nothing to claim, claimed, denied |
| `Prepare`, `Start`, `Verify`, `Score` | `transition_run` as `execute` calls it; a pending cancellation ends the attempt instead; anything the handler refuses raises and ends the coroutine |
| `Heartbeat`, `Dispatched`, `Inspect` | `heartbeat_run` in `_maintain_heartbeat`, which may also fail and so be lost while the lease is alive; the end of `dispatcher.execute`; the branch after a lost heartbeat |
| `ReconcileTerminal` | `_reconcile_terminal` and `reconcile_attempt_resources`: settled from a lane result, settled without one, exceeded, the same receipt again, refused |
| `FinishRun` | `finish_run` |
| `Crash` | the coroutine's process dies (or its task is cancelled) between two transactions |
| `Tick` | time passes |
| `Pause`, `Resume`, `RunRemaining`, `RetryInfraSelected`, `IssueCancel` | `issue_control` |
| `ReadCancel`, `CommitCancel`, `RollBackCancel` | the same CANCEL when other transactions overlap it |
| `RequestRunCancellation` | `request_run_cancellation` |

Abstractions:

* A transaction is one action, because every handler first locks the rows it
  decides on (`_locked_run` refreshes them). The exception is CANCEL, see
  `ReadCancel`. At most one event of an attempt can be overwritten by a CANCEL:
  a later one is refused as not monotonic, so the CANCEL rolls back.
* One ENFORCED dimension; every slot reserves the same `Maximum`. A lane
  result charges between 0 and `Maximum`, or exceeds it.
* Identities, digests, timestamps and preflight comparisons are taken to match;
  a mismatch raises before anything is written. The exact-repeat branch of
  `reserve_budget` is unreachable here: the request id is derived from an
  attempt, and an attempt is claimed once.
* `slot_ids` may select any claimable run, so a claim may pick any of them.
  Rows skipped by SKIP LOCKED during an expiry are not skipped in the model.
* `_refresh_experiment_status` is left out: nothing reads it.

### RunQueue and the code

| Model | Code |
|---|---|
| `run[r]` | `ExperimentRunRecord`, as above; `evidence` is the attempt whose manifest the row refers to |
| `worker[w]` | where execution w of `execute` stands, or how it ended |
| `ClaimNextRun` | `claim_next_run` with `reconcile_expired_cancellations` |
| `Prepare`, `Start`, `Verify`, `Score` | `transition_run` as `execute` calls it |
| `Heartbeat`, `Dispatched`, `FinishRun` | `heartbeat_run` in `_maintain_heartbeat` (refused, failed or done), the end of `dispatcher.execute`, `finish_run` |
| `ReleaseRun`, `RequestRunCancellation`, `RequeueFailedInfra` | `release_run`, `request_run_cancellation`, `requeue_failed_infra_after_repair` |
| `Crash`, `Tick` | the process of an execution dies, time passes |

Abstractions:

* SKIP LOCKED is the set `locked` of rows that other transactions hold when the
  statement runs. A claim takes the first unlocked row in slot order; as any
  earlier row may be locked, it may be any claimable row.
* The clock of a transaction is the one of its commit; `ClaimNextRun` compares a
  lease with the clock it would also renew it from.
* The code numbers attempts without limit; `MaxAttempt` bounds the model.
* The experiment's own status (`_refresh_experiment_status`) is left out.
* A `Busy` execution names the run and attempt of its claim; artifacts are not
  modelled beyond that pair, which is what `attempt_execution_id` is made of.

### BlockDispatch and the code

| Model | Code |
|---|---|
| `coord[c]` | the call of `run` that coordinator c is in: `represented` and `active` of `BlockDispatchCoordinator` and `run`, the `slot_ids` it was given, and whether `max_runs` slots have been launched (`draining`) |
| `deployment` | who calls `run`, with which `slot_ids`; fixed at the start |
| `unattended` | the slots whose `execute` returned the row still active and leased, until that lease ends (observed, not stored) |
| `Resume` | `_resume_state` and the check for live leases |
| `NextSlot`, `FirstIncomplete`, `Capacity` | `next_slot`, `_first_incomplete_block_index`, its limits |
| `Launch`, `LoseClaim` | the exact-slot claim and what follows it |
| `FinishOne`, `Return`, `Crash` | `finish_one`, the end of `run`, the death or cancellation of the call |
| `Task`, `Fail` | a step of an execution (`RunQueue`), among them the return of a row that is still leased after a failed heartbeat; a transaction of it that fails and is raised, which a heartbeat's is not |

`max_runs` may be any number: each launch may be the last. `run` waits for its
cancelled tasks before it raises, so leaving it puts all of them to rest. A
coordinator stops before a block whose provider is unavailable, and the claim
refuses its slots (`Unavailable`); the checked instance has no such block.
`Cancellable` bounds the slots whose cancellation is requested, and `locked` is
the set of rows that a claim skips.

### LocalWorker and the code

| Model | Code |
|---|---|
| `lease[r]` | `ExecutionLease`: `status` ("NONE" before `authorize`), `attempt`, `lease_owner`, `cancellation_requested`; `ticks` is the time until `lease_expires_at`, 0 when it has passed |
| `stored[r]` | the status of the `LocalExecutionResultRecord` |
| `lock[r]` | who holds `flock` on `<run>.lock`; it falls with its process |
| `sealed[r]` | `<run>.result.json`: its status, and whether it embeds an episode |
| `container[r]`, `launched[r]` | whether a subject or verifier container is alive; how often `runner.run` was entered |
| `damaged[r]` | the episode files no longer match the episode |
| `worker[w]` | where process w stands in `once`; its lane is being cancelled (`stopping`) |
| `Authorize`, `Cancel` | `service.authorize`, `service.cancel` |
| `Scan`, `LockAbandoned`, `CleanAbandoned`, `RecordLost` | `recover`: the unlocked read, the file lock, `_cleanup_abandoned`, the transaction |
| `Claim`, `LockClaimed`, `Prepare`, `Launch` | `claim`, the head of `execute`, `_prepare`, entering the runner |
| `Watch`, `Stop` | `_watch`; SIGTERM during the lane |
| `LaneEnds`, `CleanUp`, `Seal`, `Store` | the outcome of the lane, `_cleanup_abandoned`, `persist_completion`, `_store` |
| `CleanupFails`, `Crash` | `_cleanup_abandoned` raises; the process dies between two steps |
| `Damage`, `Tick` | the disk, the clock |

Abstractions:

* What invalidates an authorization (expiry, drift of task, image or policy) is
  the nondeterministic BLOCKED of `Prepare`; repeated or conflicting
  authorizations change nothing and are left out.
* A process restarted after its death keeps its name `w`, although the code
  draws a new owner id. A process asks only for the run it has in hand, so an
  old name never matches by accident.
* `validate_result` can fail only for a document with an episode: what else it
  compares was written by the same code. A torn `.result.tmp` is never read.
* A container appears when the runner is entered. A container that Docker
  creates after its worker has died is not modelled.
* The offline protocol double (its receipts can turn an outcome into TIMEOUT)
  and the Docker backends are not modelled.

### AnalystSession and the code

| Model | Code |
|---|---|
| `row` | the session row: the `AnalystSession` value with its journal of calls and usage entries, the error, the report, proposal and approval |
| `lock` | whose connection holds the advisory lock of the session |
| `proc[p]` | where a request stands, and the session value it holds in memory |
| `provider` | the requests that left, the ones still open, the tokens paid for (observed, not stored by the code) |
| `ran` | how often each tool call was executed (observed) |
| `Resume` | the lock, the check of the state, what was in flight marked as interrupted |
| `Decide`, `Reserve`, `Send`, `Answer`, `NoAnswer`, `FakeDecision` | the decision node: the iteration and the usage entry saved before the request, the request, its answer or its failure |
| `LimitReached`, `CallTool`, `ToolReturns`, `ToolLimit`, `ToolsDone` | the tool node: each call saved as RUNNING, executed, saved with its result |
| `Finalize`, `SaveRaises` | the report; a save on a lost connection |
| `SpendBlocked`, `OtherwiseBlocked` | the preflight of a real session refuses: by the spending limits, by anything else |
| `Propose`, `Approve` | the two requests that save once under the lock |
| `Disconnect`, `Die` | the connection is lost while the process goes on; the process ends |

Abstractions: the initial state is a created session. The limit on cost in USD
works like the one on tokens and is left out; so are the contents of decisions
and reports. Checks of profile, credential and scope are the one
nondeterministic `OtherwiseBlocked`. `RequestBound` is what a request may use at
most (context window plus output tokens), and an answer uses up to it.

### The file stores, the sandbox and the code

| Model | Code |
|---|---|
| `TaskStore`: `snapshot`, `index` | the `record.json` of each snapshot under its identity, the index file of each task version |
| `importer`, `lock`, `clock` | where each import stands, `.product-import.lock`, the time an import stamps into its record |
| `entries` | the entry points in use (`Entries` in `Stores`): `import_task`, which takes the lock, and the command line, which does not |
| `Begin`, `Bound`, `Look`, `Rename`, `OpenIndex`, `WriteIndex`, `Verify`, `Fail` | `_import`, file operation by file operation; it raises or its process dies |
| `CanaryJournal`: `marker`, `evidence`, `provider`, `closeout` | the files of each call and the closeout; Missing, partial or whole |
| `Start`, `TakeOver`, `Refuse`, `Decide` | `execute` reads the files of a call and goes on, raises, or is about to launch |
| `CreateMarker`, `FindMarker`, `FillMarker`, `SyncMarker`, `UnwriteMarker` | the marker, created exclusively, filled, synced |
| `Launch`, `Record`, `Answer` | the call, what the provider's side leaves on disk, its result |
| `Describe`, `FillEvidence`, `SyncEvidence`, `UnwriteEvidence` | the evidence, created exclusively, filled, synced, or removed again |
| `Close`, `FillCloseout`, `SyncCloseout`, `UnwriteCloseout`, `Crash` | the closeout, likewise; an executor dies |
| `EvidenceStore`: `saved`, `files`, `locks`, `lock`, `busy` | records and snapshots in place, the number of files, lock files that exist, who holds the store's lock and each record's |
| `attempt`, `started`, `receipt` | `verification-attempt.json`, `.verifier-started`, `verification.json` |
| `Ingest`, `Confirm`, `VerifyWorkspace` | the three requests; each first validates the whole store |
| `TakeStoreLock` … `Unstage`; `CheckRoom`, `OpenTarget`, `MoveSnapshot` | `ingest`; `confirm` |
| `LockRecord`, `Prior`, `Attempt`, `FillAttempt`, `StartVerifier`, `RunVerifier`, `CreateReceipt`, `FillReceipt` | `verify_workspace` |
| `SandboxRun`: `client`, `security`, `status`, `listed` | the step of the coroutine, the inspection, the status it will record, `cleanup_verified` |
| `container`, `requested` | the daemon's container; a create it has not carried out yet |
| `root`, `artifacts`, `manifest`, `returned` | the staging root, the artifact directory, the manifest, a result returned to the caller |
| `Reserve`, `Prepare`, `Create` … `Exit`, `Attached` | staging, `docker create`, `inspect`, `start --attach`; each may time out or be cancelled (`Abort`, `CancelEarly`) |
| `DaemonCreates`, `DaemonRefuses` | the daemon carries out a create, whether or not its command was killed |
| `Own`, `Remove`, `List`, `Decide`, `Copy`, `Write`, `Raise`, `Clear`, `Crash` | ownership, `rm --force`, the listing that decides `cleanup_verified`, the copy, the manifest, the end |

`launches`, `answers`, `extra` and `verdicts` are observed, not stored by the code. A file
that is written in place is first empty or partial and then whole; a process may
die in between. The byte limit of the evidence store works like the limit on
files. What a snapshot, a verifier or an image contains is left out.

## 3. Runs

| Run | Instance | Shows |
|---|---|---|
| `RunsOneSlot` | 1 run with a recovery, 2 coroutines of one owner, all controls, overlapped CANCEL | `TypeOK`, `StatusFollowsAttempt`, `ReservationFollowsRun`, `OneDriver`, `CancelledExperimentStops`, `CancelledNeverEvidence`, `LostWorkIsTerminalized` |
| `RunsTwoSlots` | 2 runs with recoveries, 2 coroutines, retries and CANCEL, symmetry (safety only) | `BudgetWithinCeiling`, `LedgerBalances`, `ImplementsRunLifecycle` |
| `Queue` | 1 run of a schema-1 experiment, 2 executions of one owner, 3 attempts | `TypeOK`, `AttemptsDistinct`, `OneDriver`, `ImplementsAttemptLog`, `AttemptEnds` |
| `Dispatch` | 3 slots in 2 blocks, 1 coordinator of all or of the last, or 2 coordinators of the first two; symmetry (safety only) | `LiveWithinCaps`, `PlacesAreHeld`, `FrozenOrder`, `LaterBlocksWait` |
| `LocalWorker` | 1 run, 3 processes, lease of 2 ticks | `TypeOK`, `TerminalIsClean`, `LockExcludes`, `ResultMatchesLease`, `VerdictsSurvive`, `ImplementsSingleAttempt`, `AuthorizedRunEnds` |
| `AnalystSession` | 1 investigation, fake or real, 2 processes | `TypeOK`, `OneRequestOutstanding`, `UsageIsExact`, `TokensWithinCeiling`, `ToolsRunOnce`, `ApprovalMatchesPlan`, `JournalGrows`, `SessionEnds` |
| `Stores` | the six systems of `Stores` | `TasksAreImmutable`, `LaunchedOnce`, `NoLaunchPastFailure`, `OneVerification`, `SnapshotsKeepEnvelope`, `RecordedMeansGone` |
| `RunsLeakedReservation` | 1 run, 1 coroutine, CANCEL | `TerminalAttemptsReconciled` violated |
| `RunsEventChain` | 1 run, 1 coroutine, overlapped CANCEL | `EventChainsReplay` violated |
| `RunsPrimaryOutcome` | 1 run, 1 coroutine, retry and single-run cancellation | `PrimaryOutcomeFrozen` violated |
| `QueueStranded` | 1 run of a schema-1 experiment | `NoStrandedRun` violated |
| `StoresReimport` | product imports | `ReimportsAgree` violated |

Each property of a passing run has a mutant in `PROJECT.json`: an operator of
the model changed the way a plausible bug would, under which the run fails.

### Bounds

* `RunsOneSlot`, `RunsTwoSlots`: one run with one recovery already has two
  physical attempts, a stale claim of the first, and every control between them;
  two runs are the least in which reservations compete and an expiry changes a
  run other than the one being claimed. Two coroutines are needed for a stale
  claim, and a third adds only copies. `TTL = 2` separates a renewed from a
  running-out lease. `Ceiling = 2` with `Maximum = 1` lets a retry be reserved
  after the expiry charged its first attempt in full, so that a stale claim
  meets a live one; with two runs it lets both run and denies the third
  reservation.
* `Queue`: legacy runs share only the claim, whose choice among them is free, so
  one run with a stale and a current execution and a third attempt after both is
  enough.
* `Dispatch`: with one coordinator (blocks `<<r1>>` and `<<r2, r3>>`, caps of one
  per lane and provider) the second slot waits for the lane of the first while
  the third could run, and a coordinator that was asked for the third slot only
  may die while it runs: a restart then meets a live lease that its own tasks do
  not count. Two coordinators on the first two slots, one in each block, and two
  attempts are the least in which one works from a view that the other has made
  stale. What a lane result says does not matter to the dispatch, so none
  validates; a cancellation is requested of the first two slots, one in each
  lane.
* `LocalWorker`: runs share nothing but the processes, so one run with an
  executor, a recovery and a third process that meets both is enough. A lease of
  two ticks lets a renewal and an expiry differ.
* `AnalystSession`: two requests, of which one may be on a lost connection; a
  decision may ask again for a call of an earlier one (`{k1}`, then
  `{k1, k2, k3}`) and for one call more than `MaxTools = 2`; two provider
  requests in three decisions, and a token ceiling of 3 below twice the bound of
  2 for a request, so that each limit is met first in some behaviour.
* `Stores`: two processes each; two packages for one task and one for another;
  three calls of the canary, each sent twice at most; two records of two files
  and two snapshots that together with lock files and a verification fill the
  limit of 8 files; four imports, enough
  for one that died, one that repeats it, and two that overlap.

Experiments, dispatches, investigations and the users of the stores really end
(or reach a bound), so deadlock is not checked there. A local worker process
that is never ended finds something to do for ever, so in `LocalWorker` it is.

### Fairness

`AuthoritativeRuns`: a coroutine keeps going and a worker keeps claiming
(`run_until_idle` loops; both are re-run by their operator), time passes, and an
open CANCEL ends. A claim waits for the row lock of the experiment, which the
database grants in the order of the requests: CANCELs that are opened again and
again delay it and cannot starve it, which is strong fairness of the claim. No
heartbeat, no survival of a process and no operator action is promised. With
`Crash` always possible the coroutine's own fairness finishes nothing: what ends
a lost attempt is another worker's claim after the lease ran out. Under these
assumptions `LostWorkIsTerminalized` holds while the experiment is ACTIVE.

`RunQueue`: each worker keeps claiming (with no row locked by somebody else), an
execution goes on, and time passes; again no heartbeat and no survival. What
ends an attempt then is the next claim (`AttemptEnds`).

`LocalWorker`: each process keeps going (it is started again after it died; the
lane ends because subject and verifier have timeouts) and time passes. Processes
die, and Docker fails to remove a container, only finitely often: `recover`
raises when a container cannot be removed, before `claim`, so a container that
stays for ever stops every run behind it.

`AnalystSession`: each process that could resume or go on does. `SessionEnds`
adds that lost connections, deaths and refusals of the environment stop at some
time; without that an investigation may be interrupted in every decision until
its limits are used up.

`BlockDispatch` and the stores are checked for safety only: `PlacesAreHeld` is
the part of "run returns" that does not depend on a scheduler.

### What the violated runs say

1. **Leaked reservation.** CANCEL of a CLAIMED run ends its QUEUED attempt; the
   executor's PREPARING transition then raises, and nobody settles the
   reservation, although `finish_run` insists that attempts reconcile first.
2. **Event chain.** CANCEL writes `from_state` QUEUED after the executor has
   committed PREPARING; `_validate_attempt_event_chain` rejects the chain.
3. **Primary outcome.** Cancelling a recovery overwrites the outcome that its
   primary attempt recorded.
4. **Stranded run.** A cancellation requested after a schema-1 run has failed
   stays raised when the run is requeued; no claim selects the run and no
   maintenance ends it. In schema 2 this cannot happen (proved).
5. **Re-import.** A product import that dies between the rename of its snapshot
   and the index file leaves a snapshot without an entry. The next import of the
   same package adopts the snapshot but writes a record with its own time into
   the index, which `_verify_snapshot` then refuses, now and on every read.

Other differences that were met are not runs of their own:

* Leases are expired only by a claim of an ACTIVE experiment, so
  `LostWorkIsTerminalized` is stated for one that stays ACTIVE.
* A control accepted while PAUSED (a retry, a partial cancel) makes a later
  RESUME fail, because RESUME compares the last control event.
* A coordinator looks for live leases of others only when it starts, so two may
  be live at once; `Dispatch` states what holds even then.
* A heartbeat transaction that fails (any exception, `executor.py:284`) makes
  `execute` return the row although it is RUNNING and leased (`executor.py:328`),
  and the coordinator gives its place away (`dispatch.py:249`). Live leases can
  then pass a cap until the abandoned one ends, even with a single coordinator;
  `LiveWithinCaps` counts the executions under way and every other live lease.
* With several canary executors one may take over evidence that can be read but
  is not flushed yet (`v6_canary.py:1871`), send the next call or write the
  closeout, and the writer may then fail to flush and remove the file: the
  evidence that a later call rests on is gone. `NoLaunchPastFailure` says for
  several what the calls answered, and for one executor also what stays on disk.
* Two command-line imports that overlap can rebind an index entry, which product
  imports cannot; `TasksAreImmutable` claims for them only that an entry names a
  snapshot that is in place.
* `confirm` checks the room of the store under the store's lock, but
  verifications add files without it, in spite of the comment at
  `code_snapshots/service.py:511`; `SnapshotsKeepEnvelope` says by how much the
  limit can be passed. `ingest` checks no room of its own, and what a killed one
  staged stays in the store.
* A receipt that was cut off makes its record corrupt, where
  `external_evidence/verification.py:65` speaks of NOT_VERIFIED.
* A client that is killed during `docker create` leaves a container that nobody
  removes; no manifest then claims that it is gone.

## 4. Proofs

Every theorem holds for arbitrary constants under the named assumption of its
module, which TLC evaluates in the runs, or under the assumption the theorem
states.

**`AuthoritativeRunsProofs`**, for every finite set of runs, every set of workers
and all bounds allowed by `ParameterAssumption`:

* `TypeCorrect`: `TypeOK` is inductive by itself. There is one lemma for each
  row update (what it returns), one for each action, and `NextKeepsType` puts
  them together. Its content is in the ranges: the ledger totals stay natural
  numbers and attempt numbers within the recovery limit.
* `BudgetSafe`: `BudgetWithinCeiling`, from `TypeOK /\ BudgetWithinCeiling`.
  `TypeOK` is needed because an expiry moves `ExpiryCharge`, a product with a
  cardinality, from `reserved` to `consumed` and a reconciliation releases
  `Maximum`: neither total may become negative.
* `RowsImplementLedger`: `LedgerMove(r)` reads one step of the abstract ledger
  off the rows; each action moves every slot by at most one step (an expiry
  moves several slots at once), and `MovesRefine` maps a move to
  `RunLedger!Next`.
* `RowFollowsAttempt`, `ReservationsFollowRuns`, `RunHasOneDriver`: from the
  inductive invariant `CoreInv`. `SlotInv` describes a slot (row, current
  attempt, its reservation and reconciliation, attempts not yet made) in each
  status; `WorkerInv` what a coroutine knows of its claim at each point of
  `execute`; `OneCoroutine` that two coroutines never hold one attempt. None is
  inductive without the others: that a stale claim of the same owner moves
  nothing needs the attempt number, which needs the row, which needs the
  coroutine that left it there. `CancelInv` says that what an open CANCEL has
  read is outdated in one direction only (an attempt it saw open may have moved
  on). A step changes a slot in one of six ways (`Keeps`, `Ends`, `Claims`,
  `Advances`, `Settles`, `Retried`); what each does to the slot and to the
  knowledge of the other coroutines is proved once.
* `LedgerAlwaysBalances`: `LedgerBalances`, from `LedgerInv`, which adds to
  `CoreInv` the balance itself over all attempts, made or not (`AccountInv`), that
  an executing run has an accepted reservation (or a claim would open a second
  one) and that what is not settled was not charged (or its settlement would
  charge twice). Every transaction settles some attempts for the same amount
  each and opens some (`AccountStep`); an expiry settles as many as it likes. The
  sum is a fold, a recursive definition: that adding the same amount to several
  summands adds its multiple to the sum, and that the fold of the community
  module is that sum, is proved on finite sets by the least counterexample.
* `CancelStopsExperiment`, `CancellationIsHeeded`: from `CoreInv`; for the
  second, a request stays on the row until a retry makes a new attempt, and the
  executor looks at it in the transaction that would record the evidence.

**`RunQueueProofs`**, for every set of runs and workers, every assignment of owner
identities to workers (shared or not), both schema versions and every bound:

* `QueueTypeCorrect`, `AttemptsStayDistinct` and `OneDriverHolds`, from one
  inductive invariant `Inv`. `AttemptsDistinct` needs `Behind` (no execution
  holds an attempt its run has not reached), or a claim could repeat a number
  that a stale execution still carries. `OneDriver` needs both, and `RowOK` (an
  ended row has no owner), or a stale owner could pass `_require_active_owner`.
  There are three kinds of steps: `CalmStep` (rows move within their attempts,
  executions go on or end), `ClaimStep` and `AdvanceStep`; each action is one.
* `RowsImplementAttemptLog`: each row update is shown once to be a step of the
  abstract log or none (`Moves`); a queue maintenance moves several rows.
* `NoStrandedRunInV2`: what `QueueStranded` refutes for schema 1 holds for
  schema 2, where nothing is requeued.

**`BlockDispatchProofs`**, every property of the run `Dispatch`, for every set of
slots in which a plan schedules each once, every deployment and every bound.

* `PlacesHeld`, `BlocksInOrder` and `SlotsInOrder` follow from one inductive
  invariant, `OrderInv`: the types with those of the queue (`RowOK` gives what a
  claim and an expiry return), `Begun` (a slot some coordinator has represented
  is no longer QUEUED: a coordinator that has gone on to a later block has
  represented every slot before it, so nobody finds one waiting) and
  `PlacesAreHeld`. A row moves within its attempt (`Moves`) in every step but a
  launch, so only `LaunchStep` has to look at the order.
* `CapsKept` (`LiveWithinCaps`) assumes `DistinctOwners`: callers name the owner of
  a dispatcher (`release/throughput_qualification.py:916` names a second one
  apart), and two that share a name would be counted as one. It needs more:
  `LeasesAreHeld` says that a coordinator under way has a place for every live
  lease of its own, held by a task that drives that very attempt with its
  heartbeat going or that has failed, unless its execution returned after a failed
  heartbeat (`unattended`). So a task that returns leaves no lease behind but an
  unattended one, a failed task ends the call, and the next call begins only when
  no lease is left. `Charged`: whatever is under way has a place, which
  `TasksHavePlaces` bounds. What coordinators hold together is not bounded: each looks at the
  leases of the others once, when it starts. `PlanWithinCaps` is the case of a
  single coordinator, whose executions and live leases are all there are.

**`LocalWorkerProofs`**, every safety property of the run `LocalWorker`, for every
set of runs and processes and every positive lease:

* `WorkerTypeCorrect`: `TypeOK`, inductive by itself.
* `EndedRunsAreClean` and `LockKeepsApart`, from the inductive invariant `Inv`.
  `RowInv` relates the row, the containers and the lock of a run; `ProcessInv`
  says what each process knows about its run at each point (an executor under
  its lock is alone with a RUNNING row, whoever is past the cleanup has no
  container); `OneExecutor` says that an attempt has one. None of them is
  inductive without the others: that a recovery meets no executor needs the
  lock, that the lock is held needs the process, and that a slow claimant never
  launches needs the row. The lemmas `Quiet`, `Waiting`, `Ended`, `Local` and
  `Executor` say once what kinds of steps there are; each action is one of them.
* `ResultsAgree`, `SealedVerdictsSurvive`, from `Results`, inductive relative to
  `Inv`: only `Seal`, `Store` and `RecordLost` touch a result, and each finds
  the run as `ProcessInv` describes it.
* `WorkersImplementSingleAttempt`: `AttemptMove(r)` reads one abstract step off
  the rows; every action moves one run by such a step or not at all.

**`AnalystSessionProofs`**, every safety property of the run `AnalystSession`, for
every set of processes, keys, call sets and plans and all limits allowed by
`AnalystAssumption`: `TypeCorrect`, `OneRequest`, `UsageExact`, `TokensBounded`,
`ToolsOnce`, `ApprovalFollowsPlan` and `JournalOnlyGrows`, from one inductive
invariant `IInv`. `SyncInv`: whoever holds the lock works on the value in the
row. `UsageInv`: one usage entry per decision, of which only the last can be
unsettled. `SpenderInv`: a process that is about to send, or waits for an
answer, perhaps on a lost connection, is alone, and its entry is unsettled; this
is why the lock may be lost without a second request. `LedgerInv` relates the
entries to what the provider was paid for, `ToolInv` the journal of calls to
what was executed.

**The stores.** `StoresProofs` states every property of the run `Stores`, for
every set of importers, packages, executors, processes and records, every number
of calls and every bound allowed by `StoresAssumption`. The task store and the
sandbox are proved about there; the canary and the evidence store have modules of
their own, and what happens to them in `Stores` is shown to be a behaviour of
those (`CanaryBehaves`, `EvidenceBehaves`), whose theorems then carry over.

* `TasksStayImmutable`: `TasksAreImmutable`, both parts, from `TaskInv`.
  `EntriesOK` says that an index file that says anything names its own task and a
  snapshot in place, and that an import has its snapshot in place before it
  touches the index; that is all that holds for imports of both entry points.
  `Alone` says what the lock adds where all imports are product imports: whoever
  is in an import holds it, and the index file that an import is about to write
  is the one it found missing, so nothing that was bound is written over.
* `RecordedIsGone`, from `SandboxInv`: only a run that has inspected its
  container records a verified cleanup, and then no create of it can still be
  under way at the daemon.
* `NoCallPastAFailure` for one executor or several, from
  `CanaryJournalProofs!NothingPastAFailure` and its `Inv`: whatever an executor
  has seen, and whatever a file says, was once answered (`answers` only grows, the
  files need not). That the files themselves stay is `EvidenceIsKept`, for one
  executor, with `StandInv`: the file it writes, and may remove again, is one that
  no launch and no closeout rests on yet.
  `NoCallTwice` for one executor, from `NoCallIsSentTwice` with `MarkInv`: a call
  that was sent has a whole marker, and the executor is never about to send one
  that was.
* `RecordsVerifiedOnce`, from `EvidenceStoreProofs!VerifiedOnce`: the lock of the
  record and the file that burns the attempt. `SnapshotsStayInEnvelope`, from
  `EnvelopeIsKept` with `RoomInv`: between the check of the room and the rename
  only verifications add files.

Model-checked only: the liveness properties (`LostWorkIsTerminalized`,
`AttemptEnds`, `AuthorizedRunEnds`, `SessionEnds`), because fairness and ENABLED
are outside the prover. Every safety invariant and every action property of a
passing run is a theorem.

## 5. What is left

In the order in which it would add most:

1. A budget ledger of several dimensions with unavailable maxima and usages, of
   which the one in `AuthoritativeRuns` is the one-dimension instance.
2. The egress proxy and the lane runners as actors of their own: the core sees
   a lane as a result, an exception or silence.

### Not modelled

Most of the repository's 104,000 lines compute values: plans, identities,
statistics, estimates, gates, reports, schemas, command-line and HTTP transport,
and scripts that audit recorded material. They keep no state, meet no other
process and depend on data that a small instance says little about; the modules
above cover the code in which the order of steps matters, a small share of the
lines. By component:

* Budget estimates and the in-memory reservation: arithmetic over catalogue data
  and one method of one object.
* Plans, methodology, statistics, local plans, preflight: construction and
  checks of immutable values. The core assumes that a claim's identities match
  its receipt; a mismatch raises before anything is written.
* The Analyst's evidence queries, reports and transport: read only.
* Evaluation suites, diagnosis and failure diagnosis: pure functions over
  immutable histories, and advisory artifacts.
* The judge laboratory: one row per slot, inserted or compared.
* Lanes: they drive containers and providers and change none of the rows.
* The registry, other `release/` checks, `productization/`, `demo/`,
  `comparability/`, `tasks/`: single-row operations and validation of files.
* `api/`, `cli.py`, `contracts/`, `core/`, `db/`: transport and types; the rows
  appear as the state of the modelled components.
* In modelled components: dimensions whose maximum is unavailable (the code then
  keeps totals of None), the status of an experiment (nothing reads it), the
  offline protocol double and the Docker backends of local execution, contents of
  packages, snapshots, evidence and images, the read side of the stores.
