# Specification and verification of the video download control system

This directory holds TLA+ models of the program under `src/src/video_download_control`,
the TLC configurations that check them and the proofs that TLAPS checks.
The program is a single-user Windows application: a control process serves an HTTP API and web
pages on the loopback interface, a Worker process downloads media, further services edit and
upload what was downloaded, and small isolated helpers do what is risky. They share SQLite
databases and a directory tree and little else, so what can go wrong goes wrong between two
transactions, between a transaction and a file operation, between a process and a helper it
waits for, or between a process and its successor after a crash.

`PROJECT.json` lists components, runs, mutants, hazards and theorems, and maps every
definition of the models to the lines it stands for.

## 1. Inventory

| Component | State | Operations | Talks to |
|---|---|---|---|
| Retry policy (`retry_policy.py`) | none | `decide(context)`: fail, retry after a delay, other adapter, pause the platform | called by the Worker for each failure |
| Download queue and Worker pool (`worker_repository.py`, `worker.py`, `worker_pool.py`) | `download_jobs`, `job_attempts`, `platform_circuits`, `queue_control`, `asset_commit_intents`; in memory: the pause latch, the stop event, two execution slots | claim, transition, heartbeat, finalise, fail, cancel, retry, pause and resume, reset of a circuit, recovery of lost leases and intents | API, adapters, asset files |
| Asset publication (`assets.py`, parts of the two above) | `media_assets`, commit intents, directories under `assets/` and `assets/.staging` | stage, record intent, rename and register, clean up, recover in three phases, reconcile | queue (lease tokens), file system |
| Discovery graph and aggregates (`repository.py`, `graph.py`, `worker_repository.py`) | `batches`, `inputs`, `discovery_jobs`, snapshots, links, child jobs and the statuses computed from them | submit, commit a discovery, fail, cancel, rediscover, retry | API, queue |
| Local application supervisor (`local_app.py`, `local_worker_cli.py`, `windows_job.py`) | the `worker_claim_gate` row, two file locks, two child processes and their channels | start, prepare, activate and stop the gate, stop or kill the children | control child, Worker child, operating system |
| Upload service (`uploads/service.py`) | `accounts`, `operations`, `requests`, `jobs`, `upload_attempts`, managed media; the scheduler thread and its lock file | create, confirm, cancel, retry, reconcile, delete and restore media, log in, check, disconnect, run the scheduler, recover | API, workflow adapter, upload backend |
| Upload activity lock and backup (`uploads/activity_lock.py`, `uploads/backup.py`) | a lock file, a backup set, a restored root | shared and exclusive leases, copy, audit, publish, restore | upload service |
| Upload tools and logins (`uploads/backend.py`, `bridge.py`, `browser_login.py`, `bilibili_login.py`) | a staged request, an owned child, a go file, a result file, the session file | log in, check, upload | upload scheduler, platforms |
| Editing plans and AI tasks (`editing/service.py`, `manager.py`, `ai_render.py`) | tasks, plans, timelines, checkpoints, outputs, the lease of the root | create, confirm, retry, cancel, claim, complete, fail, review, recover, stop | API, workflow, media tools |
| AI invocation ledger and execution (`editing/ai_ledger.py`, `ai_bridge.py`, `ai_execution.py`, `ai_worker.py`, `openai_provider.py`) | `ai_invocations`, one isolated worker process | reserve, dispatch, respond, release, reconcile, recover; one remote call | providers |
| Workflow service (`workflows/service.py`, `manager.py`, `local_adapter.py`) | one row per workflow with its references and its state | create, advance, confirm, retry, cancel, the manager's scan | queue, editing and upload services through the adapter |
| Database backup and restore (`backup.py`) | a backup set, a new root | copy under the writer lock, audit, publish, restore | database, asset tree |
| Database schema and migrations (`database.py`, `*/schema.py`) | four databases and their versions | create, validate, migrate | every service that opens one |
| Short links (`short_links.py`, `short_link_transport.py`) | replay markers, DNS slots | follow redirects; sign, check and serve one hop | HTTP, egress service |
| Egress proxy and relay (`security/*`) | open connections, byte budgets | admit, dial, exchange, time out, close | adapters, short links |
| Subprocess runner (`subprocess_runner.py`) | one child process | run with output limit, deadline and cancellation | adapters, media tools |
| Toolchain and runtime setup (`source_setup.py`, `toolchain.py`, `uploads/runtime_setup.py`, `editing/ai_runtime_builder.py`) | four tool directories, the setup lock | install, verify, repair, roll back | the application that runs from them |
| Adapters, credentials, capability evidence, logging, API and web pages, media rendering | little or none of their own | calls of external programs and pure I/O | the services above |

How the parts interact: the API and the workflow service write rows; the Worker, the
upload scheduler and the editing manager poll them. A transaction that writes starts with
`BEGIN IMMEDIATE`, so transactions are serial; between two of them anything may happen.
Ownership is passed by lease tokens (queue), by file locks (supervisor, Worker, upload
scheduler, backups, editing root, setup), by the claim gate (supervisor to Worker) and by state columns.

### What is hard, and what makes each part correct

* **Queue.** A lease may lapse under a running thread, so two threads act for one job.
  Correct: rows, attempts, slots and intents agree on who executes; a recorded
  cancellation wins; the half-open probe of a circuit belongs to a running attempt; a job waits
  for ever only where an operator has to act.
* **Asset publication and backup.** A rename and a commit cannot be one step, and a backup copies file
  after file. Correct: a registered file exists, an unregistered one is found again and removed,
  the result of one attempt appears at once or not at all, a backup agrees with itself and can be lived in.
* **Discovery.** Correct: the status of an input is that of its active snapshot, a late or canceled
  probe changes nothing, a source is downloaded once.
* **Supervisor and helpers.** Channels are advisory and late, children may never answer. Correct: a Worker claims
  only inside its run's window; whatever is stopped ends; output is whole or it is a failure.
* **Uploads.** A crash around the platform's answer leaves the outcome unknown. Correct: nothing
  is sent twice without a verdict on the first; an approval counts for the session
  and scheduler run it was given in; one process executes; what the tools report is so.
* **Editing and AI.** Paid calls with unknown outcomes. Correct: no call is repeated over an open outcome; the
  ledger never calls unsent what was sent; answers are believed only if nothing changed meanwhile; an end is final.
* **Workflow.** References to other domains are written after the domain acted. Correct: a repeated step creates
  nothing twice; an end says what became of the work; the manager uses no authority it was not given; the row settles.
* **Databases and tools.** Creation, migration and installation meet other openers and may stop anywhere. Correct: nobody
  works on a half-made file; approvals do not survive a change of what was approved; a directory that was called ready stays.

The hazards of `PROJECT.json` name the line where each of these bites and the properties that cover it. One has no
property: a `LostLease` raised in a failure handler ends the whole Worker; the model has it, but nothing promises otherwise.

## 2. Modules

| Module | Models | Built on |
|---|---|---|
| `RetryPolicy` | `RetryPolicy.decide` and its tables | |
| `DownloadQueue` | queue, circuits, leases, Worker pool | `RetryPolicy` |
| `AssetLibrary` | abstract: the library shows nothing or the whole result of one attempt | |
| `AssetCommit` | staging, intents, rename, registration, recovery | `AssetLibrary` by refinement |
| `AssetBackup` | a backup of that root while it works, and life in a restored one | `AssetCommit` |
| `DiscoveryGraph` | inputs, probes, snapshots, child jobs, reuse, aggregates | |
| `LocalApp` | supervisor, children, claim gate | |
| `UploadService` | requests, jobs, receipts, accounts, media files, scheduler, activity lease, backup, restore | |
| `UploadBridge` | one operation of the upload tools, host and child | |
| `EditingService` | AI tasks, plans, the ledger of their calls, checkpoints, the manager | |
| `AiCall` | one AI call through bridge, worker process and provider | |
| `WorkflowService` | one workflow over its three domains | |
| `ChildProcess`, `EgressProxy`, `UnixRelay`, `ShortLink` | one helper each | |
| `SchemaFiles` | creation and migration of a database that several processes open | |
| `LegacyRows` | what the migrations do to rows | |
| `RuntimeSetup` | installation of the directories the program runs from | |
| `DownloadQueue_proofs`, `DiscoveryGraph_proofs`, `UploadService_proofs`, `EditingService_proofs`, `WorkflowService_proofs`, `AiCall_proofs` | theorems about one module | TLAPS |
| `Processes_proofs` | theorems about `LocalApp`, the four helpers and their sum | `MCProcesses`, `AiCall_proofs` |
| `RootAndTools_proofs` | theorems about `AssetCommit`, `AssetBackup`, `UploadBridge`, `SchemaFiles`, `LegacyRows`, `RuntimeSetup` | `MCRootAndTools` |
| `MCProcesses` | `LocalApp`, the four helpers and `AiCall` as parts of one instance | |
| `MCRootAndTools` | `AssetBackup`, `DiscoveryGraph`, `UploadBridge`, `SchemaFiles`, `LegacyRows`, `RuntimeSetup` likewise | |
| other `MC...` | the instances for TLC | |

### DownloadQueue

One action per transaction of `WorkerRepository` or per step of `Worker.execute_claimed` between two
transactions. `job[j]` is the row of `download_jobs`; its token is the number of the attempt that
the lease was issued with, because every claim draws a fresh uuid. Time is the comparisons the
code makes: `live` is "the lease has not expired", `due` is "`available_at` has come", `cooled` is
"the cool-down is over", and `Lapse`, `BecomeDue`, `CoolDown` are time passing. A slot of
`run_concurrent_worker` goes through `run`, `storage`, `cleanup` and `raised`; `latched` is the
in-memory `_pause_persistence_failed`, `stopping` the stop event. `scanned` and `cleaning` split
`claim_once` where the code splits it: recovery of intents, then the claim. `FinishFailure`
calls `Decide` with the context that `_handle_failure` builds. A job is one flat download.

### AssetCommit and AssetBackup

One job, its attempts and any number of recovering processes. The long transaction of
`finalize_asset_commit_intents` calls back into the file system, so it is several steps under
`lock`, and a crash between two of them rolls the rows back and leaves the files. Recovery is
the code's three phases: `PrepareRecovery` fences the job and claims the intents in one transaction,
`RecoverFiles` removes files outside of any, `CompleteRecovery` deletes the intent if the claim is
still its own. Claims expire under their owner, processes die or go on after they were fenced. File operations
succeed or raise; what is inside a file is not modelled.

`AssetBackup` adds `create_backup`: it takes the writer lock, looks for intents, copies the database and then file after
file while everybody else goes on with files, audits and publishes, or fails. `restore_backup` puts the copy into a root
in which none of the old processes exist and its rows are lived with again. One restore.

### DiscoveryGraph

Inputs of one post, each as a graph or as one flat download. A probe is a claim, work outside any transaction, and
a commit that may come too late; an attempt of a child or flat job is one step to its outcome (its leases are
`DownloadQueue`'s). An input has one route policy, and `Others` are the statuses of the other inputs of its batch.
Two inputs that fetch the same attachment at once collide on `UNIQUE(source_item_id, media_key)` (`database.py:163`,
`worker_repository.py:2555`): the later child fails, and a rediscovery does not repair it (1885-1918). The model does the same.

### LocalApp

A run is one life of the supervisor. `sup` is the position in `_run_local_app_with_listener` and
`_cleanup_children`, `control` and `worker` are the children, `command` and `open` the Worker's
command channel, `ready` its handshake channel, `gate` the row that `prepare_claim_gate`,
`activate_claim_gate`, `stop_claim_gate` write and `claim_next` reads. The Worker tests its
channel (`PollStop`) and claims (`Claim`) in two steps, as `run_concurrent_worker` does. A failed
or timed-out step of the startup, an interrupt and a dead child all lead to `BeginCleanup`. A
second interrupt during the cleanup leaves it through the `finally` block (`InterruptCleanup`).
`KillJob` and `Reap` take effect: that both the job object and `terminate` fail is not modelled.

### UploadService

The rows are `account`, `op`, `job`, `attempt`, `request` and `media`; `files` are the sources whose managed file is in its place and
`move` is the deletion or restoration of each source that is in flight; `exec[p]` is what the scheduler thread of instance
`p` holds in local variables while it is between transactions, `owner` the holder of the scheduler lock. A login
session is the number of logins so far and an approval is the pair of the session and of the
recovery epoch it was given in, so that "current" can be stated; `accepted` is the set of jobs
the platform took whether or not anybody knows. The backend may answer anything, may accept and then
fail, and may accept late, until the operator's reconciliation: the operator is assumed to tell
the truth, and the backend not to invent a definite answer of its own.

A backup takes the activity lease exclusively, which no started instance gives up except a faulted one, copies the rows, audits them
conjunct by conjunct (`JobsSound`, `ReceiptsSound`, ...) and publishes or refuses. A restore replaces the rows under
`_apply_restore_state_policy`; what the old root sends afterwards is unknown to the new one. Left out: covers,
manifests and hashes, QR pages, the secrets of a login and their removal, pagination.

A media file moves inside an open transaction and its row is written at the end of it, in two steps: `DeleteSourceMedia` is
`delete_source_media` up to the rename to quarantine, `RestoreSourceMedia` is `restore_source_media` up to `os.link`, then
`CommitMedia` writes the row, or `RollBackMedia` gives the lock back and `UndoMedia` puts the file where it was, which may fail.
Everybody else's `BEGIN IMMEDIATE` waits for the transaction (`Writable`), not for the undoing. A death before the commit leaves
the file where it is, and `cut` (a ghost) records the sources whose last move ended so or could not be undone. What then holds and what not:

* Of a source in `cut` file and row may disagree. A death in the restoration leaves the row deleted and the file present: `delete`, `restore`, the managed
  import and the backup (`uploads/backup.py:690-692`) all refuse that, and nothing in the code repairs it. A death in the deletion
  leaves the row present without its file: jobs refuse it, a backup refuses it, and a restoration repairs it.
* Of every other source they agree whenever nothing is in flight (`MediaHeld`), and a source whose jobs may still be sent has its file, unless
  an earlier deletion was cut short and the restoration that would have repaired it is undone just after the jobs were made.
* A backup always finds rows that its audit accepts; it finds the media to fit them if nothing was cut short (`BackupPasses`). It may fail
  or be refused all the same, which is `EndBackup`.

### UploadBridge

The host stages a request, starts the child, lets it pass the go file once it owns it, and waits for it, a stop or the
deadline; the child authenticates, reads the confirmed parameters back and makes one final click. Pages, platforms
and the pinned uploader are environment: the page loses a parameter at any moment, the uploader presses again or gives up,
a click may or may not have taken effect. Exit 0 of biliup counts as accepted; the go file is written at once or not created: a
file that is created and cannot be written would let the child pass for the moment until the host kills it, with the operation reported as
failed, and is left out;
operations of the two orders are sequential. An exception before any click is reported as unknown (the code is careful), and
a login that ends failed may have replaced the session file.

### EditingService and AiCall

Tasks and plans are owners of ledger rows: `owner[o]` is a row of `ai_tasks` or `render_plans`, `inv[o][c]` the row of
`ai_invocations` for cue `c` with its resolution folded into its state. A task makes one remote call, a dubbing plan one for
each cue, a local task or an ordinary plan none (`units`). A claim token is the number of the opening of the root, because a
manager has one worker and never claims an owner twice in a run. `worker[m]` is the position of the worker thread: load
the checkpoint of the cue, reserve, test the cancellation, dispatch, launch, wait, respond, copy and record
the checkpoint. Every ledger transition and the failing, completion and recovery of an owner is one transaction and one action.
`sent` is what the provider got, whatever the program knows of it. Operations of two transactions leave an entry
in `ops` between them. `row` are the manifests and `file` the files of the speech checkpoints, which the plans of a
lineage share; `output` is the media in `asset_root`. `Fault` is a write that fails; the failing of an owner
is tried once and its own failure swallowed, so that owner stays running until the root is opened again. Left out: what timelines contain
and how tasks are bound to them, staging directories, request keys, failing reads. Removals of files take effect: the code's are best
effort (`editing/service.py:3173-3183`, 3516-3522), and what one of them leaves is tried again at the next opening, so `StorageClean` speaks of
openings whose removals succeeded.

`AiCall` opens the step "launch, wait, respond": the runtime's identity and the media are looked at, frozen, looked at
again, the ledger row is moved before and after, the worker's output is believed only if all of it still holds, and an
OpenAI call of many cues is cut into requests that fit. The runtime's files and the media change at most once (a change
that is undone is invisible to the code). One call at a time is what `_run_lock` gives, and a canceled call notices only when it has
the lock. A destination file may exist although the ledger's answer failed. The health check of an HTTP provider posts without a
ledger row, and `request_units` is not the number of HTTP requests; both are documented (`src/docs/AI_RUNTIME.md:174`).

### WorkflowService

`op[p]` is the one operation of a process (`_service_lock`): the row it read, its position between the transactions it makes in
four databases, and who asked. The revision is a flag per operation: whether the row is still the one that was read. Codes are the
classes the code tells apart. The domains are what the adapter can move and see of them: batches, one editing project with tasks
per stage and plans, jobs per segment, each with the tombstones (`planKey`, `upKey`) that fence a late creation. Workers of the domains,
the user on the domains' own pages, failures and a crash act between any two steps. Captions, covers, titles beyond "resolved",
session checks and digests are data; one account; the progress limit is not modelled. Download batches and AI tasks have no
tombstone against a second process, as the documents say (`src/validation/iteration-0.28.0-workflow-cancellation.md:7`,
`src/docs/CURRENT_ARCHITECTURE.md:188-193`), so `EndsAreTrue` says of these two only what holds with one process. `AuthorityHolds` says
with one process that no retry of an upload runs on the profile's authority; a process that has been replaced may still confirm one by the job
number it has read, if the user retried on the upload page meanwhile.

### ChildProcess, EgressProxy, UnixRelay, ShortLink

`ChildProcess`: `run()` with its polling loop, two bounded readers, a descendant that holds the pipes, both ways to take the tree
down. `EgressProxy`: admission, policy, dialling over approved addresses, the exchange with budgets, the failure answer,
close. `UnixRelay`: two pumps and the watchdog over their shared activity, in steps between two awaits. `ShortLink`: the batch, the
chain of one link, signed frames (a nonce and a time of issue) that anybody may repeat, replay workers that outlive their caller, markers that
are collected. Its egress clock never goes back, the control clock has a constant drift.

Observations that contradict no document: a descendant that keeps a pipe blocks `run()` past its deadline, because the
readers are joined without a timeout (`subprocess_runner.py:453`) and the tree is not terminated once the root process is gone (671);
the proxy's idle timeout is per direction and read while the relay's is shared; a queued replay worker canceled at close keeps its slot (the
process ends then); the second freshness check (`short_link_transport.py:821`) is what makes `LinksSound` hold.

### SchemaFiles and LegacyRows

`SchemaFiles` chooses a database and an old version. uploads, editing and workflows build a temporary file, link it
to the name and unlink it; uploads takes a lock on the file around everything; the control database is created empty and
migrated by one transaction up to version 7 and one for each later version. Openers look, lock, snapshot, validate, migrate, verify, and may die in between.
A process that dies between link and unlink leaves a second link, and every later open of an uploads, editing or workflow
database is refused until somebody removes the temporary name; the model shows it and no document promises otherwise.

`LegacyRows` takes a request of two jobs and a retry with any combination of old platform, category, tags, source, options and
state, or an owner of AI calls, and applies the migration's statements one after the other. A digest is the payload it hashes. "Legal" rows
are those an old service could store. The readiness audit of the main database (`database.py:1686-2902`), its version 8
rebuild and the outputs of old workflow rows are not modelled.

### RuntimeSetup

A bundle is a number of parts that are made in order, in place (the environment, the upload runtime) or beside the place (the media
tools, the AI runtime) and renamed into it. A part is right or wrong; every reader compares all of them. Setup holds the exclusive side of
a lock whose shared side the application holds; the tools' and the AI builder's own command lines hold none. Runs fail and die at any
step, a file is damaged, the user removes the directory.

Observations: the AI builder gives its directory its name before validating it, so that without the lock its rollback may take back
what a concurrent setup already found whole (excluded from the property as `OnTrial`); a crash before the owner's mark leaves a `.venv` that
every later setup refuses; a crash of `run_offline_smoke` leaves a temporary mark that makes the tools invalid; an interrupted download of
the upload runtime must be removed by hand. The digest cache and what staging leaves behind are not modelled, and the signature comparison and the rename of a rollback are one step.

## 3. Runs

| Run | Instance | Question |
|---|---|---|
| `queue_zombie` | 1 job, 2 Workers, 3 slots, 2 attempts, 2 generations | threads that outlive their lease: `LeasesSound`, `CancelWins` |
| `queue_circuit` | 2 jobs on 1 platform, 2 attempts, thresholds 3 and 2; fair | circuit and probe, `NoJobStuck` |
| `commit_live` | 2 items, 1 attempt, 2 recoverers; fair | the refinement of `AssetLibrary`, and that leftovers are removed |
| `upload_retry` | 1 instance, 1 request, 3 jobs, 2 epochs, media moved in two steps, a backup and a restore | duplicates, receipts, media, what a backup finds |
| `upload_session` | 2 instances, 1 request, 2 logins, 2 epochs, no media moved; fair | approvals, one executor, cancellation before dispatch, running and checking end |
| `processes` | six parts, see below; fair | supervisor, child process, egress, short links, AI call |
| `app_interrupt` | 1 run of the supervisor | expected violation, see section 6 |
| `edit_plans` | 2 managers, 2 plans, 2 cues, 2 openings, 1 fault | repeated calls, the ledger's word, checkpoints, media, lease |
| `edit_tasks` | 1 manager, 2 tasks, 2 openings, 1 fault; fair | confirmations, finality, stop |
| `root_and_tools` | six parts, see below | files, backups, discovery, upload tools, databases, tool directories |
| `workflow_race` | 2 processes, 1 segment, 1 stage | fences and references under two writers |
| `workflow_solo` | 1 process, 2 segments, 2 stages, 1 fault, 1 crash; fair | readability, authority, ends, settling |

`processes` and `root_and_tools` are sums: the parts share no variable, a behaviour chooses one and leaves the others at their
beginning, and every property speaks of one. They are checked exactly as they would be alone. TLC reports the next-state relation
of a sum as one action, so the firing of the actions inside was checked with `-coverage` on each part alone.

Some property names stand for a conjunction whose parts are named in the module:
`LeasesSound` (types, `LeaseMatchesAttempt`, `SlotsDisjoint`, `IntentsFenceClaims`), `FilesTracked` (files and rows account
for each other), `EvidenceHeld` (types, `MediaHeld`, `ReceiptsValid`, `BackupPasses`), `ExecutionSound` (`ApprovalCurrent`, `OneExecutor`),
`LedgerTruthful` (`SentStaysSent`, `DoneIsAnswered`, `UnknownShown`, `StorageClean`), `RowReadable` (the row's own consistency and `OneBatch`),
`EndsAreTrue` (`CompletedIsTrue`, `CanceledIsQuiet`), `WorkflowSettles` (`CancelSettles`, `AutoSettles`),
`GraphSound` (`GraphAudited`, `InputsAgree`), `LinksSound` (`FetchedOnce`, `ChainSound`), `EgressSound` (`EgressBounded`, `RelaySound`),
`BridgeHonest` (`VerdictHonest`, `LoginHonest`), `SchemaSound` (`SameFile`, `MigratedOnce`, `NewerUntouched`),
`SetupSound` (`NamedIsComplete`, `ReadyStays`, `UsedIsStable`, `ForeignIsKept`), `ProcessesEnd` (`RunReturns`, `ProxyStops`, `RelayStops`,
`BatchAnswered`, `AskEnds`), `ClaimsGated` (`ClaimWindow`, `PrepareFences`).

Bounds and why they are enough:

* Two of everything that competes. Two slots, Workers, recoverers, runs, instances, openers or setups show each pairwise
  race; a third actor meets the same rows through the same fences. `queue_zombie` has three
  slots so that one Worker has a stale and a fresh thread while the other Worker recovers; slots are symmetric there (no liveness).
* `MAX_ATTEMPTS` is 4 in the code. One attempt after another is enough for stale tokens, and an
  exhausted budget is reached with two. `RateLimitThreshold` and `BrokenThreshold` keep
  their real values 3 and 2 where the circuit is checked, with four attempts to reach them.
* `MaxJobs` = 3 in `upload_retry` is an original and two retries: the two that could compete for it. `Movers` are the instances that
  delete and restore media: the one of `upload_retry`, none in `upload_session`, whose questions are others. The moves of one source do not
  overlap, which leaves out that a second one begins while the first is being undone. `upload_retry` makes no account checks (`MaxChecks` = 0).
  `RunningEnds` is checked where two instances compete, without media; a media transaction only delays the scheduler, which `Writable` and the strong
  fairness express.
* Files: `root_and_tools` has two attempts and one recoverer, `commit_live` one attempt and two recoverers. Two of both
  is covered by the theorems. Discovery: two inputs, two attachments with the same child source and one with another, two
  generations, two probes.
* Two plans of `edit_plans` are a plan and its retry, or two unrelated ones; two cues give a plan that paid for one cue and not
  for the other. Two openings are one recovery; with two managers the second may open the root while the first lingers.
  One fault hits any single write. `MaxUnits` is the number of cues, so that a retried cue is refused by the
  ancestry and not by the allowance.
* Helpers: an output limit of one with two units written, two connections for one place, two dialled addresses and one that is refused,
  an idle time of two ticks, two nonces with one repeated frame over four clock values and a validity of one. An AI call has any
  of the 12 pairs of operation and kind of provider, three cues of which the middle one fits into no request with another, and one failed ledger write.
* Upload tools: two orders, two QR images, one refresh, publication at once or at time 3 with the host's margin 2 greater than the child's 1, as in the code.
* Databases: two openers and two deaths. Legacy rows: one request with a retry is what every pass relates. Setup: two
  runs, two deaths, one damage, one removal.
* `workflow_solo` has two acts and one fault. One branch needs more: a retry that finds its AI task blocked by the ledger (`RetryAI`). It is reached with one segment
  and stage, four acts and two faults, where the same invariants hold.
* `MaxGeneration`, `MaxClaims`, `MaxLogins`, `MaxChecks`, `MaxEpochs`, `MaxStarts`, `MaxFaults`, `MaxActs`, `MaxCrashes` and the like bound counters
  in guards. They stop new work and never disable a step that finishes old work, so liveness is not helped by them.

Deadlock is checked where every state has a successor or names itself final (`DownloadQueue`, `LocalApp`,
`processes`); elsewhere the one job, workflow or operation may be over for good, and of `UploadService` everything may be settled with the bounds used up.

### Fairness

* `DownloadQueue`: an executing slot goes on or ends, because adapters have deadlines; the
  coordinator loop polls; time passes. A lapsed lease is only assumed for one nobody renews.
  Strong fairness of `CompleteIntent`: a Worker does not die in every single recovery. Nothing is assumed of the user, of
  crashes or of storage errors, and `NoJobStuck` lists the states in which the code waits for an operator.
* `AssetCommit`: the same, with strong fairness for each asset: with it for "some asset" only, the
  recovery could begin with the same file and die for ever while another waits.
* `LocalApp`: the supervisor's own steps and nothing else. Every wait has a deadline, so a child need not answer.
* `UploadService`: the scheduler thread goes on (backend calls have deadlines), after a crash or
  a fault somebody starts an instance again, a media transaction goes on to its commit or its undoing, and a backup ends. Fairness of
  the scheduler and of a start is strong, because both need the database's lock: whoever polls for it gets it when it is free again
  and again, and no holder keeps it.
* `EditingService`: the worker thread goes on, because the isolated process has a time limit; API operations return; a begun
  recovery runs to its end; the lease is given back when nobody needs it. Opening the root, stopping and every request are
  the environment's.
* `WorkflowService`: the manager's loop scans and an operation goes on; the workers of the domains, whose own liveness is the business of
  their modules, finish what is confirmed. The user does nothing, and a workflow that waits for him has settled.
* Helpers: `run()`'s own loop, its readers, its deadline and the end of a descendant; the proxies' timeouts and close; the control
  side of a short link; the core's steps of an AI call (its deadline ends a silent worker). Peers, servers, the egress
  service and the AI worker need not do anything.
* `root_and_tools` has safety properties only.

Every property of a passing run has a mutant in `PROJECT.json`: a variant of one mapped definition, written before it,
with which TLC finds that property violated.

## 4. Proofs

`DownloadQueue_proofs` proves for every set of jobs, platforms, Workers and slots and every bound: `QueueSound` (`LeasesSound`),
`CancellationWins` (`CancelWins`) and `CircuitsSound` (`CircuitGuardsPlatform`), from `QueueAssumption` (the functions of jobs and slots have the right
types, jobs are numbered from 1, limits are at least 1, `Errors` are codes of the policy) and `MaxAttemptsAssumption`. Argument:

* Every statement of the repository writes the rows of one job, so the invariant is a conjunction over jobs of one formula `RowSound(r, a, q)` of
  the row, its attempts and its pending intents, and the lemmas are about rows: `ClaimRow`, `LeaseEnds`, `BusyRow`, `IdleRow`, `IntentComes`,
  `IntentsGo`. `RowStep` says in addition what a row may become when a cancellation is recorded (`CancelKept`), so that the action property comes
  out of the same lemmas. A claim that first recovers the lease and then takes the job again is two row steps (`ThenRow`).
* `LeaseMatchesAttempt` is not inductive: nothing in it stops a claim from taking a number that is no attempt's. `RowSound` adds that
  the attempts so far fit the generations so far, `total <= (gen - 1) * MAX_ATTEMPTS + used` (`NextNumber`).
* `CircuitGuardsPlatform` becomes `GuardSound(c, b)`, a formula of a circuit and the set of its platform's leases. A claim needs that
  the claim query refuses a platform with an active job, an end needs that the platform has no other lease. `ProbeOwner` shows that the
  releases of probes touch no other platform. `FailureGuard` is why the count stops at the limit: a circuit that has reached it is open, and an open one
  has no lease that could fail.

`RootAndTools_proofs` proves of `AssetCommit` for every set of items and of recoverers and every number of attempts:
`TypeCorrect`, `RegisteredFilesSafe`, `NoOrphans`, `RecoveryFenced`, `LiveFilesKept`, `FilesAccounted` (`FilesTracked`) and `Refinement`
(`Spec => PublishesAtomically`). The only assumption is `CommitAssumption` (there is an item, at least
one attempt, and no recoverer called "no one").

Argument. `RegisteredFilesExist` alone is not inductive: nothing in it says that the recovery which
is about to delete a directory has no right to delete a registered one. `IInv` adds what the code relies on:

* `LockInv`: inside the long transaction is the attempt whose token the job carries, and while
  it renames files all of its intents exist. So two finalizing attempts exclude each other.
* `TokenInv`, `IssuedInv`: tokens, intents and files belong to attempts that were started, so
  a new attempt starts without files of its own.
* `RegisteredInv`: once anything is registered the job is ready, what is registered is the result of
  exactly one attempt whose process only leaves, and no intent names it. So no recovery can find it.
* `RemovedInv`: a recovery that removed files cannot see them come back before it deletes the intent.
* `RecoveryFencesFirst`: a claim under work belongs to an attempt that lost its lease. This is
  what makes a recoverer safe which sleeps past the expiry of its claim.

There is one lemma per action, `NextInv` collects them, and the temporal theorems follow by PTL.
The refinement uses `PublishStep`: `registered` changes only in `CommitReady`, under the invariant, from empty to
all assets of one attempt. `LiveAttemptKeepsFiles` follows from `IInv` with an invariant of its own, proved in `KeepStep`.

The same module proves of `AssetBackup` `BackupsAreConsistent` (`BackupConsistent`) and `RestoredFilesAccounted` (`FilesTracked` through backups and
in a restored root) for the same constants. `Steady` is what the proofs about `AssetCommit` know of every state, and every step of
`AssetCommit` keeps it by the lemmas there. `BackupInv` adds why a copy that stops only the writers of the database is
consistent: from the copy of the rows to the audit no transaction runs and no intent exists; without intents the
published directories are exactly the registered ones (`NoIntents`); and steps that touch files while the lock is held touch none that is registered.
A restored root starts in a state of `Steady` because the database that was copied was sound (`DbSound`).

`Processes_proofs` proves of `LocalApp` for every set of runs and every number of slots and claims: `TypeCorrect`,
`WorkersExclude` (`OneWorker`), `ClaimsInWindow`, `GateFences` and their conjunction `ClaimsAreGated` (`ClaimsGated`), from
`LocalAppAssumption` and `NoRunAssumption` (there is a slot, and "none" is not a run). Argument:

* `WorkerLockInv`: whoever executes is past its preflight and holds the Worker lock. `OneWorker` follows.
* `GateInv`: an open gate belongs to a run in its window, or to one whose Worker was ended because the gate could
  not be closed. It is what makes the late stop test harmless, and it needs
  `LaunchedInv`: a Worker that was launched and is dead stays dead.
* `PreparedInv`: from its preparation on, the gate carries the starting run. It needs `AppLockHeld`, part of
  `TypeOK`: the application lock excludes two starting runs.
* `ClaimStep`: the only step that changes `claims` is the Worker's own claim, and the gate admitted it.

`EditingService_proofs` proves every safety property that the two runs of `EditingService` check: `WorkHoldsLease` (`LeaseHeld`),
`OneManager`, `ConfirmedInOpening` (`ConfirmedNow`), `EndsStay` (`EndIsFinal`), `NeverRepaid` (`NoBlindRepay`), `LedgerSound`
(`LedgerTruthful`) and `CuesPaidOnce` (`PaidOnce`), for every set of managers, every finite set of tasks and plans, every number of
cues and every bound, from `EditingAssumption` (tasks are no plans, "none" is nobody, the owners are finitely many because
`Ancestry` climbs as often as there are owners, the bounds are naturals). `LeaseHeld` is not inductive: it says nothing of a manager that is still
recovering or has no work. `LeaseInv` adds that every manager that is not down holds the lease, and that a worker or an
operation exists only while the root is open; opening needs a free lease, so all others are down. Most steps of a worker
are shown to fall under `Continues`, which says that they touch neither lease, phase nor operations.

None of the others is inductive either. They follow from two invariants, each carried through every action:

* `EditInv`. `AtWork`: a worker that is not at rest holds its owner, claimed under its own token and still active, and the ledger says of its
  call what its position says (reserved before the dispatch, dispatched until the answer is written, responded after it); the
  earlier calls are answered, and at the completion all of them, which is what `DoneIsAnswered` rests on. `LedgerOf`: only an
  active owner has open calls, none was made beyond the authorization, and a cancelled owner has no unknown call. `Root`: what
  recovery has established (no open calls, then no confirmation of an earlier opening and a code that shows the calls) stays so while the root is
  open. `Links`: only what ended is retried, once, when its calls are all closed and none is refused.
* The proof does not treat these facts action by action. Each action is shown to move every owner and every call as it may (`Keeps`:
  an end stays, a final state of a call stays, what was sent stays sent), and its worker to a position that fits. From
  that alone `Composed` derives retries, sent calls and answers. That only one manager acts comes from `LeaseInv`.
* Lineages are computed by a recursive function. `LevelsExist` shows that its recursion has a solution, `LineUp` that whoever is
  above an owner was retried, `LineSame` that a lineage is unchanged by what happens elsewhere, and `LineMeets` that of two owners whose
  lineages meet one is above the other. `NoBlindRepay` is `LineUp` with `Links`; the last one says that no plan runs in the lineage of a ready
  one, so that the clean-up of its checkpoints is not undone (`LineageRests`).
* `FileInv`. `Unpaid`: a plan on its way to a call has no checkpoint of the cue, which is what `PaidOnce` needs. `Stored`: also while
  the root is closed, a stored file has an owner and the registered media are those of ready plans.

`UploadService_proofs` proves `UploadTypes`, `UploadExecution` (`ExecutionSound`), `UploadRetries` and
`UploadOnce` (`NoDuplicateUpload`), `UploadEvidence` (`EvidenceHeld`) and the action property `UploadCancels`
(`CancelBeforeDispatch`) for every set of instances, accounts, requests and sources and every bound, from
`UploadAssumption` (the tables of requests have the right types, a request names at least one account, which `create_jobs`
checks, the bounds are naturals) and `UploadNames` ("nobody" is not an instance). None of the three invariants is inductive.

* `ExecutionSound` needs `Executing`: from the claim until the backend has returned, the job in hand is marked as running,
  so that nobody retries, reconciles or confirms it meanwhile; `Approved`: an approval that still waits is of the account's current login
  and of the current epoch, because login, disconnection, recovery and restore withdraw it, and a running job's is of the
  login that its receipt names, which the dispatch compares once more; `Numbered`: a new row replaces no old one; and `Copying`: while
  a backup copies, nobody executes and the rows stay as copied, so that the rows of a restored root satisfy the invariant too.
* `NoDuplicateUpload` needs `Sent`: the receipt of a job that the platform took is of a kind that allows no retry; a job that
  has a successor has a receipt that says "not taken", and has one successor (`Retried`); successors are later rows (`Ordered`);
  nothing was sent before the dispatch, and a failure that an execution holds in its hand is a fact (`KnownFailure`). A crash
  therefore has to turn a receipt that may have been dispatched into "unknown", which only the operator's conclusion about the
  end of the chain leaves.
* `EvidenceHeld` needs `Evident`, over the invariants above. `Fits`: each receipt belongs to its job's state. `Answers`: an execution
  has its job's account, and without a dispatch it brings back no outcome but a failure or a cancellation, so that the final
  transaction writes a receipt that recovery accepts. `AccountsFit`: a disconnected account has no login and no open operation.
  `RequestsFit`: a served request is the one that its original jobs name, in both directions, which is what a backup's check compares
  (an empty request would be served and have no job: hence the assumption). Of the files it needs `Placed`: a file fits its row unless its
  move is in flight or was cut short, a move in flight has already been made and says what the row will be, and a source
  with active jobs is not moved away (`SourcesKept`: a deletion and the making of a job exclude each other by the transaction). `Quiet` says that
  nothing is in flight while a backup copies, because a mover holds the activity lease. `CancelBeforeDispatch` is `DispatchRecorded`: only
  `MarkDispatch` of a running job without a cancellation records a dispatch, and restores bring back rows that were copied
  as they are.
* From these facts to chains of any length. `Ancestors` is a recursive function. `ChainExists` shows that its recursion has a
  solution, `SuccessorOf` that between a job and its ancestor there is a successor of the ancestor, and
  `OneEnd` that two ends of one chain are one job. The induction is by the least number of a set (`LeastNumber`),
  which the library's theorem on well-founded relations gives without a predicate as a parameter.

`WorkflowService_proofs` proves every safety property that the two runs of `WorkflowService` check: `RowsReadable` (`RowReadable`),
`EndsHold` (`EndsAreTrue`), `AuthorityKept` (`AuthorityHolds`), `RefsKept` (`RefsStable`) and `FenceKept` (`FenceHolds`), for every
finite set of processes, any number of segments and AI tasks, every set of profiles and every bound, from `WorkflowAssumption` (these
and that there is a segment and a task). None is inductive: `RowReadable` says nothing of the rows that operations have
in hand, `EndsAreTrue` nothing of the operations that are late, and the two action properties nothing of a state.

* `Inv` says the same of every row, be it the workflow's, one that an operation has read or one that it is about to write (`Good`):
  what it refers to rests on what comes before (`Ladder`), its state and code fit what it refers to (`Stands`), and the domains have it
  (`Backed`): a ready batch, a project, a plan and jobs of these numbers, outputs only of a ready plan, "completed" only with every upload
  acknowledged. `OpFit` says that a row in hand is an earlier version of the workflow's (`Below`) or it, that each write takes it
  one step further (`StepOf`), and what else was tested before the next call (`Ready`).
* An operation that is overtaken needs no argument of its own. A step of the domains only lets them grow (`Grows`), and
  under growth and later versions of the row everything an operation knows stays (`FitKept`). So each action is shown to move one
  lineage in an allowed way (`EditTurn`, `UploadTurn`) and its operation to a position that fits; `Acted`, `Composed` and
  `DomainsActed` conclude. A restart is the exception: it makes drafts of queued jobs, which breaks what one process knows of them;
  but then there is no operation left.
* `EndsAreTrue` for "canceled" is `Still`, and it is kept by late operations for two reasons. Of what the row refers to, everything is settled or
  ready, so a late confirmation finds nothing to confirm. What the row does not refer to has a tombstone or was stopped (`Fenced`, `Rooted`),
  because the cancellation looked for it by its key. `FenceHolds` follows from `Fenced` and `Below`: whoever creates has read a row that had
  come as far as the creation needs, so the cancelled row has come as far, too, and its key is taken.
* `RefsStable`: only `Write`, `RequireAttention` and `Cancel` change the row; the first two compare, and an ended row is no operation's to write.

`DiscoveryGraph_proofs` proves `GraphIsSound` (`GraphSound`) and `CancellationSticks` (`CancelSticks`) for every set of inputs,
attachments, snapshots and statuses of other inputs and every bound, from `GraphAssumption` (a snapshot is not empty and has no
two members of one source item). `GraphSound` is not inductive: the audit sees only the current generation, and the
statuses say nothing of what they are computed from.

* `GraphInv` adds: a main job is of its input's generation and its snapshot is there exactly when it is ready (`KindInv`); links
  are of a generation not later than the input's, and one of the current generation is of the active snapshot (`LinkInv`); the active snapshot is
  linked whole (`MemberInv`); only a ready job was made ready by reuse (`ReuseInv`); `UNIQUE(source_item_id, media_key)` holds (`KeyInv`);
  a status is the aggregate of the jobs it counts (`AgreeInv`); and nothing of a canceled input waits or runs (`CancelInv`).
* An action is shown to be one of five kinds of step (a main job moves, a child moves, an input starts anew, a probe is
  committed, a download is finished), and the invariant is proved for the kinds.

`AiCall_proofs` proves `AiCallsHonest` (`CallsHonest`) for every set of calls and every number of lines, from `AiCallAssumption`.
One of its conjuncts is about constants of the code: the bundled provider reports at most 250 steps of progress and a worker may write
256 lines (`MaxUpdates + 3 <= MaxTold`), without which `ProgressFits` does not hold. `AiInv` relates what no conjunct of `CallsHonest` says:

* `TurnInv`, `GuardInv`: one call is in, the others have touched nothing or are over; the bridge's guard is what the ledger row says unless
  the ledger failed, and it is "dispatched" before a worker exists (`HelperInv`). This is `UnsentRow` and `RepeatSafe`.
* `SentInv`: where a living worker is determines the last line it has sent, hence `InOrder`; what it computes from has the digest that was asked for.
  `ToldInv` bounds the progress by the position, with the monotonicity of `Bucket`.
* `ByInv`, `VerdictInv`: as long as the runtime is the approved one, everything was sent by it, and the files are
  looked at again after the worker's end, so that a changed one makes no result (`Believed`).

`Processes_proofs` proves of the four helpers `OutputIsWhole` (`OutputWhole`), `EgressIsSound` (`EgressSound`, over the sum `ProcessesSpec`)
and `LinksAreSound` (`LinksSound`), from the assumptions of their modules: limits are naturals, and of `ShortLink` that a
link to be resolved is no label of a state ("new"), nonces are numbered from 1 and no connection is called 0.

* `CommandInv`: of each stream what was written is what is kept plus what is in the pipe, unless the limit was exceeded; a reader is
  done only when nobody can write any more; a call without a failure has started both.
* `ProxyInv`, `RelayInv`: the counters are the cardinalities of finite sets of handlers (`CountInv`, `RelayCount`). What a
  client was told depends on the stage of its handler (`TellInv`), so a refusal cannot follow an answer. The watchdog's sleep and the
  time without activity add up to the idle time if nothing moved, and to no more if something did (`DogInv`): it never fires early.
* `RequestInv`: as long as a frame may be taken, one connection at most is entitled to fetch for it, none once it was fetched, and
  its marker stands (`NonceInv`). It needs that a replay worker was told a time that has passed and serves one
  connection (`WriterInv`, `WritersApart`); a crash frees the connections and keeps the markers. `ChainInv` counts the requests of a link by its visited URLs.

`RootAndTools_proofs` proves of the remaining parts, from `NoRun`, `"user"` and `NoOwner` being the names of no process (`SetupAssumption`,
`SchemaAssumption`), and that the states of old jobs are the service's (`LegacyRowsAssumption`):

* `BridgeIsHonest` (`BridgeHonest`). `BridgeInv` says how far an operation may have gone by the positions of host and child (`HowFar`), what the platform may have
  taken by then (`MayBeTaken`), and that each word that is on its way, in the child, in the result file or in the verdict, is one that
  may be said as things stand (`Sayable`, `Warranted`). The last needs that once "failed" is out nothing runs that could still send.
* `SchemasAreSound` (`SchemaSound`). `FoundHolds`: what an opener went by is still so when it acts, because versions only grow and a file
  is made once (`FileGrows`). `WriterBegins`: a transaction begins at the version of the file. `ReachedOnce` computes from old and
  present version which migrations were committed; `MigratedOnce` and its count follow.
* `RowsAreCarried` (`RowsCarried`). The migration is one step made of four statements. `Between` is what each of them keeps: every row follows its
  old one (`Follows`: unchanged, or withdrawn with a code), the rows of a request agree, and a provable digest is the
  payload of what is stored. One lemma per statement (`CategoriesBetween`, `TagsBetween`, `SourcesBetween`, `OptionsBetween`).
* `SetupIsSound` (`SetupSound`). `Locked`: who works on a directory holds the lock or was started without, and the application uses it only while nobody holds
  the lock. `RunsKnow`: a run that validates or checks works on the directory it made. `PartsOrdered`: only a part that is being
  made is half made. `ReadyStays` needs all three, because a rollback takes away what the run itself put there and nothing else.

Only model-checked: the seven liveness properties `NoJobStuck`, `LeftoversRemoved`, `RunningEnds`, `RunSettles`, `ProcessesEnd`, `StopReleases`
and `WorkflowSettles`, because the prover handles neither fairness nor `ENABLED`. Every other property of a passing run is a
theorem, and no theorem uses a fairness condition.

## 5. Not modelled

Components with status `not_modelled` in `PROJECT.json` carry the reason: adapters, credentials, capability evidence, logging, the
API and the web pages, media rendering. They are pure I/O or computation without state that
others share, or call the operations that are actions here. In the modelled parts: hashing, link counts
and path checks of files (a file is right or wrong, an operation succeeds or raises), progress counters and events, the formatting
and redaction of errors, HTTP and HTML, captions and timelines, covers, and rows that are written and read by nobody else. Section 2 names
for each module what else it leaves out.

## 6. Findings

* `app_interrupt`. The runbook (`src/docs/RUNBOOK.md:255-257`) and a comment in `_cleanup_children`
  say that the Worker's channel is closed only after the gate was stopped or the processes were
  ended. A `KeyboardInterrupt` raised while `stop_claim_gate` waits for SQLite is not an
  `Exception`: the `finally` around the cleanup closes the channel with the gate open, and only then the job
  object. A Worker that has passed its stop test can still claim in between. The claim is lost with
  the process and recovered later, so nothing is corrupted; the order that is promised does not hold.

## 7. Plan

What remains, in the order of its worth:

1. `EditingService`: the refinement of an abstract paid call: never made, made once, or unknown until reconciled.
2. `WorkflowService` over the real `UploadService` and `EditingService` in place of its own view of them, on the smallest instance.
3. The audit of the main database and its version 8 rebuild.
4. Covers and source captions, as data that an approval binds.
