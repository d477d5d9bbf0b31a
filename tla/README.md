# Verification of cargo-ai

TLA+ models of the parts of cargo-ai whose correctness depends on the order of
steps: several CLI processes over one SQLite ledger, requests whose answers may
be lost, processes that die between two transactions, builds that share a cache,
a tree of child processes under one gate, and an operation that is canceled while
its steps run.  Each model is checked by TLC on small instances; the results that
matter most are also proved, with TLAPS, for every size.

| Module | Content |
|---|---|
| `EventDelivery` | what cloud sync promises of each event |
| `UsageCloud` | the usage cloud queue, its sync passes and everything that changes the same tables; implements `EventDelivery` |
| `UsageCloudProofs` | theorems about it: types, and who owns queue rows and batches |
| `UsageCloudPassProofs` | theorems about its passes: progress, permission, budget, sends, lease |
| `UsageCloudDeliveryProofs` | the theorem that it implements `EventDelivery` |
| `AtomicReplace` | what a guidance transaction promises |
| `GuidanceTransaction` | the guidance transaction, one file operation per action; implements `AtomicReplace` |
| `GuidanceTransactionProofs` | theorems about it, the refinement among them |
| `BackupCopies` | what the hosted backup promises of the records it copies |
| `UsageBackup` | the hosted backup: consent intervals, the queue of selections, the lease, restore and deletion, the account service; implements `BackupCopies` |
| `UsageBackupProofs` | theorems about it, the refinement among them |
| `BuildCache` | `hatch`, `check` and `project build`: agent locks, workspaces and the shared build templates |
| `BuildCacheProofs` | theorems about it |
| `RoleSession` | admission of effects in a role invocation over a chain of child processes |
| `RoleSessionProofs` | theorems about it |
| `ActionRun` | one run's actions, steps and children, and their cancellation in machine mode |
| `ActionRunProofs` | theorems about it |
| `MC...` | one per model: the instances that TLC checks, one cfg per run |

Run a model with `tlc -workers 2 -config UsageCloud_solo.cfg MCUsageCloud`, check
the proofs with `tlapm UsageCloudProofs.tla`.  The runs that `PROJECT.json` lists
are those below; `UsageCloud_prompt`, `_quota`, `_overlap`, `_stuck` and
`GuidanceTransaction_lost`, `_torn` are further instances, described with them,
that show a bound or a known disagreement.

## 1. Inventory

Paths are relative to the repository; `C/` abbreviates `src/src/commands/` and
`T/` abbreviates `src/templates/src/`.

| Component | State it keeps | Operations | Hard behaviours |
|---|---|---|---|
| Usage cloud queue and sync pass (`T/usage_analytics.rs`, `T/usage_analytics/{queue,sync_job,local_queue,scheduler,transport}.rs`) | SQLite tables: consent interval and clear intent, consent windows, sender lease, queue rows, frozen batches, jobs and their members, terminal events | enable, disable, sync, resume, clear, reconcile; per pass: start/resume a job, renew the lease, capture, prepare a batch, reserve an attempt, upload, pause, acknowledge, finish | several processes, a lease that expires, crashes between transactions, lost answers, retry budgets and cooldowns, consent withdrawn mid-pass |
| Usage ledger and rolling retention (`src/src/usage_store.rs`, `src/src/usage_store/{retention,schema,codec}.rs`, `C/usage.rs`) | `usage_events`, the retention policy | record, delete, preview, confirm, expire | expiry of rows other components hold copies of |
| Guidance transaction (`C/add/guidance/transaction.rs`) | a journal, staging, displaced and old directories next to the live files | write lock, apply, recover, clean | crash between any two renames, a user editing the same files |
| Guidance lifecycle (`C/add/guidance.rs`, `C/add/guidance/lifecycle.rs`) | ownership manifest | status, add, update | computes the plan a transaction applies |
| Hosted usage backup (`T/usage_backup.rs`, `T/usage_backup/*`) | SQLite tables: consent intervals with a cursor each, a queue of selections, one lease row; the consent and binding in `config.toml` | enable, disable, include-history, sync and the automatic pass, restore, delete | a command of several transactions, calls and a settings write that may die between any two; a lease of 40 s without renewal; an account switched mid-pass; identities that come back by restore |
| Template cache and agent lock (`src/src/agent_builder/{lock,template_cache/*,cleanup}.rs`) | `locks/<agent>.lock`, `agents/<agent>`, `templates/<key>` | lock, replace, warm, prune, copy | nothing locks a template: one build removes, file by file, what another reads; a killed build leaves its files |
| Hatch and build pipeline (`C/hatch_pipeline.rs`, `C/build.rs`, `src/src/agent_builder/*`) | the target directory of a template, the exported binary | compile, export, tidy | binaries of many builds in one directory; every failure path must tidy and unlock |
| Runtime action interpreter (`C/runtime_actions.rs`, `T/main.rs`) | the place in each action's steps, the abort record, the failures, the time budget | walk, start a step, wait, time out, judge, collect | parallel lanes, a deadline inside any wait, abort against steps already decided |
| Role sessions and child processes (`T/role_*.rs`) | a gate per process, admissions under way, permits a parent keeps for its child, two pipes per child | admit, forward, settle, revoke, drop | replies that arrive late, tasks dropped while they wait, processes killed with permits under way |
| Machine mode (`C/machine.rs`, `C/machine_process.rs`) | the registry of children, the cancel flag, the count of lanes | register, cancel, sweep, drain, report | a child that starts between the flag and the sweep; a report that claims more than was cleaned |
| Credential stores (`src/src/credentials/*`) | file or keychain entries | migrate, refresh | partial migration |
| Configuration storage (`src/src/config/*`) | configuration files | load, update | lock and atomic replacement |
| Packages and locks (`C/local_packages.rs`, `C/package*.rs`, `C/tools.rs`) | installed packages, lock files | install, resolve, publish | partial installation |
| Account, client actions, providers, CLI | none of their own | HTTP calls, formatting | - |

How they interact.  Every run of the program records an event in the ledger
(`insert_event_inner`).  While cloud consent is on, a *sync pass* copies ledger
rows into the cloud queue and sends them; it runs explicitly (`usage cloud
sync`) or passively from the worker of any long-lived command (`scheduler.rs`).  The
ledger's retention removes raw rows and, through `local_queue.rs`, what the
queue holds of them, in one transaction.  `usage delete` removes raw rows only.
The hosted backup is a second consumer of the same ledger with its own tables.
The guidance commands share only the file system with the rest.  Every build
reads and writes the same templates.  A running agent is the process that walks
its actions (interpreter); in machine mode the dispatcher owns it and its
children; in a role invocation each effect of it first asks the gate of its
process, which asks its parent process.

What makes the first component correct: nothing is sent without a current
consent, and nothing that the user did not consent to; a job's progress never
claims more than the service holds; a frozen batch and the queue rows it claims
agree whatever expires; the retry budget survives crashes and takeovers; a lost
clear confirmation never leaves a trusted acknowledgment behind; a job
eventually finishes.

What makes the guidance transaction correct: the bundle and the files beside it
change together or not at all, whatever interrupts the change; the prior set can
be restored until the new one is committed; nothing the user wrote is lost; and
an interrupted transaction is completed or undone by the next update.  The backup
must not lose, repeat or misattribute a record across its unrenewed lease, and must
not queue what was recorded during a pause.  A build must end with its own binary
or with an error another build explains, and unlock.  An invocation's owner that
revokes it must learn of every effect that can still happen.  A canceled run must
leave no child behind, and its report must say no more than that.
`PROJECT.json` lists the hazards, line by line, with the
property that covers each.

## 2. Plan

1. **UsageCloud** (done): the queue, the sync pass and everything that
   changes the same tables, with several processes; the abstract specification
   **EventDelivery** (an event is recorded, permitted, sent, stored, confirmed or
   dropped), which it implements.  Proofs in **UsageCloudProofs**,
   **UsageCloudPassProofs** and **UsageCloudDeliveryProofs**.
2. **GuidanceTransaction** (done): `apply`, `clean` and `recover` of
   `transaction.rs` step by step, with a crash possible between any two file
   operations and a user who edits files; the abstract specification
   **AtomicReplace** (the files change from old to new in one step or not at
   all), which the detailed one implements under a refinement mapping.  Proofs
   in **GuidanceTransactionProofs**.
3. **UsageBackup** (done): every command of the hosted backup that changes its
   tables, its settings or the service; the abstract specification
   **BackupCopies** (a record is agreed to, selected, sent, kept by the service,
   confirmed and imported), which they implement.  Proofs in **UsageBackupProofs**.
4. **BuildCache** (done): warming, copying and pruning templates, with the agent
   lock, compilation and export.  Proofs in **BuildCacheProofs**.
5. **ActionRun** (done): the lanes of a run, their children and the dispatcher of
   machine mode.  Proofs in **ActionRunProofs**.  **RoleSession** (done):
   the other concurrent protocol of a running agent.  Proofs in
   **RoleSessionProofs**.
6. Left: several sources and the enabling transaction sequence of
   `usage_analytics.rs`; credential migration, configuration storage and package
   installation, each a module of its own.
7. Every safety and action property that holds is proved, under the hypotheses
   section 11 names.  The liveness properties (`JobSettles`, `Settles`,
   `PermitsSettle`, `RunsEnd`) stay with TLC.

## 3. UsageCloud: the model

`UsageCloud.tla` models one usage source of one cloud environment.

State.  Each variable is a table or a column group.

| Variable | In the code |
|---|---|
| `high`, `raw` | `sqlite_sequence` of `usage_events`, and the rows present; an event is its sequence number |
| `consent`, `windows` | `usage_cloud_state` (enabled, interval, cleared, clear intent) and `usage_cloud_windows` |
| `lease` | the token and expiry in `usage_cloud_schedule`; the token is the process that wrote it |
| `queued`, `retained`, `active` | `usage_cloud_queue`: the rows, `retained=1`, `active_batch_id` |
| `batches` | `usage_cloud_upload_batches` with members; `gone` keeps the frozen copy a process still holds in memory after the row is deleted |
| `jobs` | `usage_cloud_jobs` and `usage_cloud_job_members` |
| `terminal` | `usage_cloud_terminal_events` |
| `procs` | each process: where it is in `sync_pass`/`sync_leased` and its local variables |
| `wire`, `accepted`, `remote` | the service, seen through the requests it gets: batches sent and not yet indexed, indexed events, the clear |
| `permitted`, `deleted`, `quotaLeft`, and `run`, `idle` of a batch | history variables for the properties; no guard reads them |

Actions.  One database transaction is one action, since SQLite serialises them
(`BEGIN IMMEDIATE`); between two transactions every other actor may act.  A
pass runs `AcquireLease`, then `ContinueJob`, `CreateJob` or `StartRefused`
(`start_inner`), `RemoteStatus`, and then the loop of `sync_leased`:
`RenewLease`, `Capture` any number of times, then `ReuseBatch`, `BuildBatch`,
`NothingToSend` or `PrepareRefused` (`prepare_job_upload`), `Reserve` or
`ReserveRefused` (`reserve_upload_attempt`), and either `UploadFails` or
`UploadAnswered` followed by `HandleQuota`, `HandleExpired`, `HandleAck` or
`AnswerUnusable`; `BackoffElapsed` is the in-process wait.  `Deadline` ends the
loop at each of the code's `DEADLINE` and cancellation checks.  A pass ends with
`FinishRead`, `FinishWrite` (two statements of the code with the gap between
them) and `ReleaseLease`.  `Crash` stops a process anywhere: this is a killed
process, and also the abort of the worker in `scheduler.rs`; the rows it wrote stay.
Other actors are `Record`, `Enable`, `Disable`, `BeginClear`, `FinishClear`,
`ReconcileGeneration`, `UsageDelete`, `Expire` (the retention transaction) and
the service (`ServerIndex`, `ServerClear`).

Time.  The code stores absolute due times.  The model stores the time left, and
`Tick` lets one unit pass for all of them at once.  A process may be suspended
anywhere for any time, except in the instances with `Prompt = TRUE`, where time
passes only while a process waits for the service or for a backoff: this is the
assumption "local steps take no time", which the runs about timing state openly.

Abstractions.  An event is a number; codec, payload, digest and wording are left
out; the codec's size limit is the free choice of how many candidates a new
batch takes.  The service accepts, loses or rejects a request; its answer to a
batch is one of the classes in `Failures` and `Replies`, and an exact
acknowledgment is only given for indexed events.

What it promises.  `EventDelivery.tla` has no batches, jobs, leases, attempts or
processes: its seven variables say of each event whether it is recorded, kept,
allowed, in a message on its way, stored by the service and confirmed, and
whether consent is given.  An event may be sent only under consent and if it is
allowed, kept and not confirmed; it is confirmed only if it is stored and kept,
and under consent; what is dropped never comes back.  So an event may be sent
many times before its acknowledgment and never after it.  `UsageCloud` maps to
it with `Kept` (the rows of the ledger or the queue that have not expired at the
service), `Enabled`, the members of the batches on the wire, and `retained`;
`DeliversEvents` states the implementation.  `AllowPast` is the creation of a job
with a history window, `Drop` is `usage delete` (of events without a queue row),
local expiry and expiry at the service; capturing, batching, releasing, pausing
and finishing are stutters.

## 4. UsageCloud: the runs

All instances are in `MCUsageCloud.tla` with one cfg per run.  An event goes
through every stage that can go wrong with two events, and one batch can be
split or replaced with two or three batches; two processes are enough for a
takeover, which is always between the current and a former lease holder.

| Run | Instance | What it shows |
|---|---|---|
| `UsageCloud_solo` | 1 process, 2 events, 3 batches, 2 consent intervals; crash, disable, retention; ack, expired, retryable | batches and queue rows agree (`BatchesOwnTheirRows`); progress is honest (`JobsTellTheTruth`); the passes deliver events as `EventDelivery` says (`DeliversEvents`) |
| `UsageCloud_history` | 1 process, 2 jobs, history windows from 1 and from 2, event 2 ineligible, batches of one; disable, `usage delete`, a clear done elsewhere | over successive jobs, what reaches the service was recorded under consent or selected explicitly (`OnlyPermittedSent`) |
| `UsageCloud_race` | 2 processes suspended anywhere, crash, a clear with a lost confirmation; all answers but expiry | `BudgetHonoured` across crashes and takeovers; an acknowledgment no clear calls in question is true (`RecordedAckHonest`), and nothing is sent once a clear has begun (`SendsWithinConsent`); without retention, uploads do not overlap and a quota pause holds |
| `UsageCloud_live` | 1 process, crash, retention, expiry, retryable failures; fair, local steps instantaneous | a job is finished once mishaps end (`JobSettles`); one renewal per iteration is enough for an upload and a backoff (`LeaseOutlivesPass`) |

`UsageCloud_prompt` checks `LeaseOutlivesPass` with two processes and a longer
backoff; it passes.

`Budget = 2` stands for the code's four attempts: the boundaries (the last
attempt, the reset after the cooldown, the reset after a quota pause) are the
same.  `LeaseTtl`, `UploadTimeout`, `Cooldown`, `Backoff` and `QuotaWait` keep
the order the code's constants have (upload shorter than lease), scaled to one
or two ticks.  `CHECK_DEADLOCK FALSE` is set in every cfg because a bounded
instance comes to rest when events, batches, jobs and consent intervals are
used up; the code has no such end.  `Symmetry` permutes the processes, and is
not used in the liveness runs.

Three further instances end in a violation, and each is a disagreement between the
code and what `docs/usage-cloud.md` says.  They are kept with the project to be
run by hand.

* `UsageCloud_quota`: a sender that was suspended past its lease ends its pass
  with `finish_pass` (`sync_job.rs:263-277`), which does not check the lease, and
  overwrites the quota pause its successor has just stored.  If the paused batch
  meanwhile expires locally, a new batch is sent before the reset.
* `UsageCloud_overlap`: retention releases the lease of the sender whose batch it
  removes (`local_queue.rs:108`) while that sender's request is on the wire; a
  second process sends at the same time.
* `UsageCloud_stuck`: `usage delete` removes raw rows and leaves the queue's copies,
  which an attempt may still send.  When one member of a frozen batch is deleted, the capture
  marks it expired in the job, the batch is then never selected again
  (`queue.rs:576`), and its other members keep their claim.  The job stays
  unfinished, and since a source has one unfinished job at a time no other one
  can start, until rolling retention removes the copy; with the policy off, for
  ever.

## 5. GuidanceTransaction: model and runs

`GuidanceTransaction.tla` models one project.  An item is the bundle
(`.cargo-ai/guidance`, item 0) or a file beside it (`.gitignore`, `AGENTS.md`,
`CLAUDE.md`, in the order in which the code visits them).  Its content is
nothing, what the n-th update installs, what the n-th edit of the user left, a
fragment of a file, or some of the files of a bundle.

| Variable | In the code |
|---|---|
| `live` | the bundle and the files where agents and build tools read them |
| `dir` | `.cargo-ai/guidance-transaction` exists |
| `journal` | `journal.json` (open), `cleanup-committed.json`, `cleanup-restored.json`, a torn one, or none |
| `marker` | the file `committed` |
| `fresh`, `old`, `out` | `new-bundle` and `new-files`, `old-bundle` and `old-files`, `discarded-bundle` and `displaced-files` |
| `plan` | `Plan`: participants, before and after; the journal holds the same |
| `proc` | the process that holds the writer lock: its place in `apply`, `recover` or `clean`, the item it is at, whether it is in `recover` already, `committed` of `clean`, the bundle that `recover` read once, the files `clean` listed |
| `kept`, `exposed`, `touched` | history variables for the properties; no guard reads them |

Actions.  One file operation is one action.  `Plan` is `mutate` under the lock;
`Reserve` to `WriteMarker` are `apply`, with `Checked` and `Promote` the two
halves of `rename` (the destination check and the renaming) where the
destination is a live file; `StartRecovery`, `Recover`, `Undo`, `Restore` and
`CheckRestored` are `update` and `recover`; `ListArtifacts` to `RemoveDir` are
`clean`.  The bundle is written and removed in two steps, so that a crash can
leave part of it.  `IoError` makes any operation fail: `apply` then runs
`recover` in the same process, or gives up when the journal is not yet written.
An operation that takes effect and then fails, for instance in the directory
sync that follows it, is the operation followed by `IoError`.  `Crash` ends the
process and with it the lock.  `TornWrite` leaves part of the file that
`write_new` was writing.  `UserWrites` and `UserDeletes` change any item at any
time.

Abstractions.  The lock is not a variable: one process at a time holds it, and the
operating system frees it.  A crash is that of the process; what a power failure
leaves of unsynced directories is out.  Permissions, links, size limits and empty
directories are out; so are the manifest's hashes, of which `Plan` keeps the
question they answer (is every managed item as the live manifest says).  The order
in which `clean` removes the artifacts other than the marker is left open.  What
the user wrote in `.gitignore` is merged into the new one; from then on the
property about edits follows the merged file as the update's.

| Run | Instance | What it shows |
|---|---|---|
| `GuidanceTransaction_atomic` | 3 files, 2 updates, no user; crashes, errors and torn writes; fair | `Implements`: the detailed steps refine `AtomicReplace`; `Settles`: a pending transaction ends unless an interrupted write left a torn file |
| `GuidanceTransaction_edits` | 2 files, 2 updates, 2 edits; crashes, errors and torn writes | what the user leaves alone can be restored or is complete (`SetRecoverable`), and is never mixed (`AllOrNothing`); an edit is lost only in the window of `rename` (`OnlyExposedEditsLost`) |

Bounds.  The code has at most three files.  Two updates are needed for one that
replaces what another installed, with the first completed or rolled back; two
edits for one that follows another on the same item or on another.  Crashes and
errors are not bounded.  `CHECK_DEADLOCK FALSE` is set because an instance rests
when its updates and edits are used up.

The refinement mapping takes for the current set the after-images of the plan
once the marker or the committed journal is there, its before-images while the
journal says anything else, and the live files otherwise; what is live during a
transaction is promised to nobody (`docs/projects-and-tools.md:181` says so).

Two further instances end in a violation, and each is a disagreement between the
code and `docs/projects-and-tools.md`.

* `GuidanceTransaction_lost` (2 files, 1 update, 1 edit; `EditsIntact`): `rename`
  refuses an existing destination (`transaction.rs:154`), but a file that the user creates before `fs::rename`
  (`transaction.rs:165`) is replaced and cannot be recovered.  The same window
  exists when the rollback restores a file.  A bundle is safe: a directory with
  files in it is not replaced.
* `GuidanceTransaction_torn` (1 file, 1 update; fair; `JournaledSettles`): an
  update interrupted while it writes a staged file or the marker leaves a file that is not what the journal accounts for, and
  `validate_artifacts` (`transaction.rs:366`) refuses every later recovery, though
  the live files are at a complete set.

## 6. UsageBackup: model and runs

`UsageBackup.tla` models one home that backs its usage history up to an account
service which other homes use too.

| Variable | In the code |
|---|---|
| `high`, `raw`, `copy` | `usage_events`: its sequence, the rows present, and for a restored row the identity it carries |
| `windows`, `queued`, `acked` | `usage_backup_windows` (binding, start, end, last_scan) and `usage_backup_queue` |
| `settings` | `backup_enabled` and the binding (account and generation) in `config.toml` |
| `lease` | the unexpired lease row; its token is the process that wrote it |
| `account` | the account whose credentials are stored |
| `procs` | the running commands: where each is, and its local variables |
| `wire`, `server` | requests on their way; per account the generation, the consent and the records |
| `consented`, `chosen`, `accepted`, `interrupted` | history variables; no guard reads the first, second and last, and `accepted` stands for what an answer of the service can name |

Actions.  A database transaction, a write of the settings, and a call of the
service each are one action, so another command, a recorded event, a crash, a
sign-in or the end of the lease can fall between any two.  `Enable...` to
`Delete...` are the commands of `usage_backup.rs`; `DrainStart` to `DrainAck` are
`sync` and the automatic pass after a run.  `LeaseEnds` says that 40 s have
passed: its holder is dead, or, in the instances with `suspend`, was suspended and
carries on without the lease (`late`).  A request can be handled by the service
after the command that sent it has given up.

Abstractions.  A record is its identity; projection, digests and byte limits are
out.  `include-history` takes a snapshot that an earlier preview showed, so the
preview itself, which changes nothing, is the choice of `through`.  A restore
handles one page; the next page is another restore.  A page of the snapshot may be
any of the account's records.  The deferral of the automatic pass is out.

What it promises.  `BackupCopies.tla` has no commands, intervals, cursors, pages or
leases.  Its variables say of each record whether it was made here, is in the
ledger, was agreed to (recorded while backup was on under a binding, or chosen
from the past), is selected, in a request, kept by the service, or confirmed; and
of each binding whether backup is on under it here, whether the service takes
records under it, and whether it has been revoked.  A record is sent only if it is
selected, made here and not confirmed, while backup is on under its binding and its
account is signed in; it is confirmed only if the service has taken it; a revoked
binding never takes or keeps a record again; and what is imported is not here yet and
never becomes a record of this home.  The one exception is in the open: under a binding whose consent
an interrupted command changed (`excused`, the known disagreement below) records may
be selected that were not agreed to.  `UsageBackup` maps to it with the identities of
the ledger (`Here`, `Own`), the binding in the settings (`Backing`), the queue, the requests,
and the generation, consent and records of each account at the service (`Taking`, `Ended`,
`Kept`); `BacksUp` states the implementation.  A page of capture is `SelectAgreed`, a
restored page `ImportSome`, a saved answer `ConfirmTaken`, a deletion at the service `Revoke`;
opening, closing and pausing intervals, the lease and all that a command reads are stutters.

| Run | Instance | What it shows |
|---|---|---|
| `UsageBackup_home` | 1 process, 2 accounts, 2 events, pages of one; enable, sync, restore; sign-ins and another home | `CursorNeverSkips`: what a cursor has passed is queued, though pages are full and windows of several ages are scanned together; `SelectionsAreOwn` and `IdentitiesUnique` for records that come back; the steps implement `BackupCopies` (`BacksUp`), so requests carry the credentials of their own account whenever the user switches |
| `UsageBackup_shared` | 2 processes, one that may outlive its lease; enable, sync against disable, delete, include-history; crashes, failed saves, `usage delete`, 2 generations | `WindowsWellFormed`, `AckHonest`, `CommandsExclusive`; a pause leaks only through an interrupted command (`LeaksNeedInterruption`) |
| `UsageBackup_pause` | 1 process, enable, disable and sync; crashes | violation of `ConsentedOnly` |

Bounds.  A page of one makes a page full with two events, and lets the last page
be short; a second generation is needed for a deletion followed by an enable; two
processes, for a late command beside the lease holder.  The database properties and the
properties of commands beside each other are checked in an instance each,
because they need different actors; the proofs cover all of them at once.

The violation: `enable` commits the open interval and then saves the settings
(`usage_backup.rs:176-179`).  If it dies between the two, the interval counts
while backup is off.  A later `enable` is refused until `disable` closes the interval at
that moment, so what was recorded in the meantime is inside it, and the next
sync queues it; `queue.rs:103-104` and `docs/usage-backup.md:41-43` say otherwise.
`LeaksNeedInterruption` says that nothing else leaks.

Three neighbours of it were met while modelling and are not findings, as no
documented promise is broken.  The first `enable` of a home that dies there leaves
no binding, so that `disable` cannot close the interval.  A `disable` or `delete`
whose save fails after the pause leaves settings that say enabled with no open
interval.  A `delete` under a newer generation than the settings name leaves the
older generation's interval open; its generation is never current again.

## 7. BuildCache: model and runs

`BuildCache.tla` models the invocations of `hatch`, `check` and `project build`
on one machine; each runs once.

| Variable | In the code |
|---|---|
| `run` | an invocation: its command, its place from `try_acquire_agent_lock` to the drop of the guard, what is left to write or remove, the stale template it is pruning (`victim`), how it ended |
| `lock` | `locks/<agent>.lock` and who created it |
| `workspace` | `agents/<agent>`: which parts are there and whose definition was written into it |
| `template` | `templates/<key>`: which parts, and the binaries under `target/` by agent name |
| `output` | the exported binary of each agent: whose definition it has |
| `cut`, `crossed` | history: templates whose removal was interrupted or met another build; invocations whose template another one took |

A directory tree is a set of three parts: the four source files that
`template_workspace_ready` looks at (`checked`), the rest (`other`), and the target
directory with the seed binary (`seed`).  `remove_dir_all` and the writing and
copying of a tree take one part at a time, which is what makes two builds of
different agents under one key, or of different keys under the same parent
directory, interfere.  Pruning takes the stale templates one after another and stops at the first that it
cannot remove.  A removal may fail while another build works in the tree.
A compiler that loses part of its tree while it runs may fail or not; cargo
makes a lost target directory again.

| Run | Instance | What it shows |
|---|---|---|
| `BuildCache_pair` | two builds out of five commands (`Few`) over two agents and three keys of two compilers, one of which may be killed; the template of the former compiler, or both of the current one, may be warm | the exported binary is one's own (`ExportIsOwn`); what looks ready is whole, but for the named cases (`ReadyIsWhole`); a sound build fails in the template only because of another build (`FailuresExplained`); locks and workspaces are left clean (`EndsClean`); every build ends (`RunsEnd`) |

Bounds.  Two builds give every pair of interfering steps, and two warm templates under one parent
give a pruning that has more than one to remove.  A three-way case exists, and is out of this
instance: while one build compiles in a template and another writes it, the pruning of a build of
another compiler empties it.  The words "met another build" in `cut` are about it, and
the theorems of section 11 cover it.

Known limits of the code that the properties name rather than hide.  After a crash
the lock file refuses every later build of the agent, although `lock.rs` and the
message in `hatch_pipeline.rs` speak of a build in progress.  A template cut short
can look ready for ever, since only four files and the seed are looked at.  A
`project build` whose copy fails leaves the workspace (`?` in `build.rs`), so that a later
`hatch` without `--force` is refused.

## 8. RoleSession: model and runs

`RoleSession.tla` models a role invocation: the host (process 0) and a chain of
native children.  Each effect, that is a provider request, a tool or the launch
of a child, needs a permit of its own process's gate, and below the host also of
every gate above.

| Variable | In the code |
|---|---|
| `gate` | `Gate` of each process: `closed` and `outstanding` |
| `ask` | `Remote.waiting` and the tasks in `admit`; `orphan` is an entry whose task is gone |
| `effect`, `outcome` | what became of each effect where it runs, and what the host's snapshot says of it |
| `alive`, `reader` | the processes, and those whose reader thread still takes replies |
| `serve`, `permits` | for each child the conversation of `native` and the permits it keeps |
| `up`, `down` | the frames in the two pipes of a child, in order |
| `ack`, `orphaned` | history: what the revocation acknowledged; admissions granted to nobody |

One action is a critical section of a gate, a frame read from a pipe, or a step
of a task.  `Begin` to `ControlLost` are `admit`; `ServeAdmit` to `ServeResult` the
frames of a child; `EndsEarly` the drop of a task by a timeout, a cancellation
or a breach, with the kill of its child; `DropKept` and `DropOwn` the drops of permits,
the kept ones in any order, as a hash map gives them up.

| Run | Instance | What it shows |
|---|---|---|
| `RoleSession_chain` | a child with a lookup and a grandchild, which runs a tool that asks a provider; tasks may be dropped while they wait | the acknowledgement of a revocation lists everything that can still happen (`AckCoversEffects`, `EveryGateCounts`); reports are honest (`OutcomesHonest`); a channel breaks only after a loss of control or a drop (`BreachExplained`); in the end no permit is left (`PermitsSettle`) |

Bounds.  Two levels below the host are needed for a process that both forwards
and is forwarded, five effects for a launch beside another effect and an effect inside an
effect.  Each effect is asked for once; a longer invocation repeats the same with
other effects.

`GrantsReleased` states the comment at `role_session.rs:227-228` (a permit the parent
has counted is used or released) and no run lists it, because it does not hold: when an
admission loses its task and the parent grants it afterwards, the reply meets no
request, the reader closes the gate, and the permit stays at the parent until the
child ends.  That a healthy child is then killed for a breach of its channel is
the exception `orphaned` in `BreachExplained`.

## 9. ActionRun: model and runs

`ActionRun.tla` models one run of the top-level actions of a definition.

| Variable | In the code |
|---|---|
| `mode` | sequential or parallel execution, interactive or machine mode |
| `op` | `apply_actions_with_data`: the walk over the actions, the collection of results |
| `lane`, `doomed` | `run_matching_action_steps` of each action, in a task of its own in parallel mode; tasks to be aborted |
| `record`, `failures` | the recorded abort, `top_level_failures` |
| `child`, `registry` | the process of each step; `CHILDREN` |
| `canceled`, `budget` | `CANCELED`, the runtime budget and whether its end was recorded as the error |
| `dispatch`, `report` | the dispatcher of machine mode; the terminal response |
| `after` | history: steps started after the abort was recorded |

One action is what a task does between two points where another thread can be
seen: a lock, an atomic, an await, a process started or ended.  `Spawn` and
`Attach` are apart because a cancellation and its sweep can come between; `SweepStep` may
stop at a child it cannot end; `OpAborted` and `LaneAborted` are tokio's abort,
which takes effect where a task waits.  The registry is a set: how far an
incomplete sweep came is any part of it.  What a step computes, its condition and
whether its child succeeds are free choices.

| Run | Instance | What it shows |
|---|---|---|
| `ActionRun_all` | two actions of two steps (an exec and an agent step each), the three failure modes, all four modes of execution | machine mode owns its children (`ChildrenOwned`); the sweep is final (`SweepIsFinal`); the report claims no more than is so (`ReportHonest`); abort stops scheduling (`AbortStopsScheduling`); failures stay local (`FailuresStayLocal`); every run ends (`RunsEnd`) |

Bounds.  Two lanes are needed for a race between an abort and another lane, two
steps for a step already decided and one that must not start.

Limits of the code that the properties name: an interactive exec step that times out
leaves its child running, where an agent step ends it; an error in a step's
condition ends the operation, not only its action, while
`docs/actions-and-child-agents.md:55` speaks of failures that stay local; and in
machine mode a step that continues after a timeout still makes the run fail.

## 10. Fairness

`FairSpec` of UsageCloud assumes: the scheduler runs a process that can take its
next step (`WF` of `PassStep`); the user or the passive worker keeps asking for a
sync (`WF` of `AcquireLease`); the service indexes what it received (`WF` of
`ServerIndex`); time passes (`SF` of `Tick`: strong, because in a prompt instance
a process that goes through its steps disables it again and again); and mishaps
stop eventually.  A mishap is a crash, a failing status request, and, for a
process that holds the lease, a deadline before the loop has nothing left to do,
a failed upload or an answer other than an acknowledgment; a process that has
lost its lease or is about to release may end in any way.  That mishaps end is
not a property of the code: it is the hypothesis under which a promise to finish
makes sense at all.

`FairSpec` of GuidanceTransaction assumes that the process takes its next step,
that an update is asked for again while a transaction is pending (`StartRecovery`
is part of `Work`), and that crashes, errors and torn writes end.

`FairSpec` of BuildCache assumes that a build that is not killed goes on
(`WF` of `Step`), which includes that cargo ends.  `FairSpec` of ActionRun assumes
that tasks, the operation and the dispatcher run on and that the budget runs out;
it does not assume that a child ever ends.  `FairSpec` of RoleSession is
`WF_vars(Running)`: as every effect is asked for once, no behaviour runs for ever,
and weak fairness of what goes on is as strong as that of each of its actions; the
time limit of an effect is what makes an early end one of them.  No fairness is
stated for UsageBackup: the code retries nothing there until the user asks again.

## 11. What is proved

`UsageCloudProofs.tla`, for every value of the constants that satisfies
`ConstantsAssumption`:

* `TypeCorrect`: `Spec => []TypeOK`.  One lemma per group of actions
  (`TypeStart`, `TypeLoop`, `TypePrepare`, `TypeSend`, `TypeHandle`,
  `TypeFinish`, `TypeUser`, `TypeTick`); below them one lemma per kind of record
  update.  `TypeOK` says also that a process past the start of a pass has a job
  and one with an upload under way a batch, which the later steps index with.
* `OwnershipCorrect`: `Spec => []BatchesOwnTheirRows`.  The invariant is
  inductive with `TypeOK`: the argument is that batches are only changed by
  three families of steps.  Pausing, reserving and time leave state, consent and
  members alone (`OwnershipKept`); an expiry retires whole batches and gives up
  exactly their claims (`OwnershipRetired`); and a new batch takes rows that no
  batch of the current consent claims, because `Released` frees only the rows of
  batches of another one (`OwnershipPrepare`).

`UsageCloudPassProofs.tla` continues from there.  `NextMoves` says once what a step of the
system can be for one process (`Moves`: it stays, leaves, begins, goes on, reads,
claims, commits an attempt, or hears an answer), and the arguments below use that
instead of the thirty actions.

* `TruthCorrect`: `Spec => []JobsTellTheTruth`.  A job's row may be written long
  after what it says was learned, so the inductive `Truth` says what each process
  knows (`Knows`): an `ack` was heard only for members the service had indexed, a
  process about to write `done` has nothing pending.  It adds that an inactive job
  owes nothing, that a retained row is indexed and never pending, and that a captured
  event has its row.
* `RecordedAckCorrect`: `RecordedAckHonest`, if no clear is done in another
  environment (`"elsewhere" \notin UserOps`).  Without that hypothesis it is false: a
  clear elsewhere is unknown here until the next status request.
* `PermittedCorrect`: `Spec => []OnlyPermittedSent`.  Every window selects permitted
  events only (`WindowsPermit`), therefore every job (`JobsPermitted`), therefore
  every batch, on the wire and in memory (`BatchesPermitted`).
* `BudgetCorrect`: `Spec => []BudgetHonoured`.  The history count `run` of a batch
  may exceed nothing but what is stored: `run` is at most `attempts`, and
  after a spent budget the time waited and still to wait is a full cooldown
  (`AttemptsCounted`).  A process that read the count before a takeover cannot
  lower it, because reserving is one transaction that checks the lease.
* `SendsCorrect`: `Spec => SendsWithinConsent`, from `SendsWanted`: a pending member has
  its row (`QueueKept`), consent is open for the pending job (`PendingOpen`), one job
  at a time is active (`OneActiveJob`), a live batch is of an open consent
  (`LiveBatchOpen`), and what the lease holder's place implies (`HolderRules`).
* `LeaseCorrect`: `LeaseOutlivesPass`, if `Prompt` and
  `LeaseTtl > UploadTimeout + Backoff`; in the code 60 s against 30 s and at
  most 4 s.  `Prompt` is the assumption of section 3 about local steps; a process
  suspended past its lease loses it, as it should.
* `BatchSentOnceAtATime`: no batch is in two requests within their lifetime, whatever
  leases expire; no run lists it.

* `OneBatchAtATime`, `OneUploadAtATime`, `QuotaCorrect`: under `BatchesUndisturbed`,
  `Spec` implies `[]OneCurrentBatch`, `[]NoOverlappingSends` and `QuotaPauseHonoured`.
  The lease does not give this: it lapses under a sender.  What does is that a
  second batch cannot be built while a first one of the same consent is left, for
  `Capture` takes it up again.  Four facts are inductive together (`OneBatch`): no row is
  left without its event (`QueueInLedger`); an interval is not given again
  (`ConsentGivenOnce`); every member of a current batch is still captured for some job
  (`MembersOwed`), so that the holder of the lease finds the batch as its prior one
  (`CurrentPrior`); hence there is one (`OneCurrentBatch`).  A request in flight is of a
  current batch, and two of the same batch are excluded by `BatchSentOnceAtATime`.
  For the quota pause `QuotaStored` says where it is kept: a current batch waits at
  least as long, and the lease holder is not about to store an answer over it.

  `BatchesUndisturbed` excludes three user operations, and each has to be excluded.  A
  retention that expires members releases the lease while the holder's request is on
  the wire, which `UsageCloud_overlap` and `UsageCloud_quota` show.  `usage delete`
  does the same more slowly: `Capture` writes the deleted member off, the batch is no
  longer the prior one, and a second one is built beside the request.
  Disabling and enabling again starts an interval whose first batch may overlap
  the last one of the old interval.  Crashes, takeovers, clears here and elsewhere, lost
  answers and any number of events are covered.

`UsageCloudDeliveryProofs.tla` proves the refinement.

* `DeliveryCorrect`: `Spec => DeliversEvents`.  `SeenNext` sorts the steps into nine
  that the delivery can see and the rest (`Unseen`), which change at most the
  consent; each of the nine has a lemma that names its abstract step.  They rest on
  the invariants above, together `DeliveryInv`, with one addition, `Settled`: what
  expired at the service was permitted, hence recorded, and is not acknowledged.
  Without it a new event could be recorded as already dropped, and retention
  would take back an acknowledgment that delivery does not know to be dropped.
  The core is `CurrentBatch`: a live batch of the current consent carries only
  rows that are queued, permitted, not acknowledged and not expired, so that
  reserving it is a `Send` and acknowledging it a `Confirm`.

These rest on `ConstantsAssumption` and the hypotheses named.

`GuidanceTransactionProofs.tla`, for any number of files, updates and edits, from
`SizesAssumption` alone:

* `TransactionTypes`, `AlwaysRecoverable`, `NeverMixed`: `Spec` implies
  `[]TypeOK`, `[]SetRecoverable` and `[]AllOrNothing`.  The invariant that is
  inductive is `IInv`, the conjunction of `TypeOK`; `DirInv`, what the directory
  says of the live files (without a journal nothing is staged and the live set is
  one of the two; with an open one every displaced original is in `old`; with a
  terminal one, or a marker, the set it names is live); and `PlaceInv`, what each
  place of the process may rely on (before promotion everything staged is whole,
  at the marker the new set is live, in the sweep everything left is listed).
  `DirInv` alone is not inductive: that `WriteMarker` and `RetireJournal` make it
  true of the next state depends on where the process is.  One lemma per action;
  `Stopped` says that a crash or an error leaves nothing to rely on but `DirInv`,
  which is why recovery works from any point.  A change of the user's is
  absorbed because every claim is about the items the user has left alone
  (`UserKeeps`).
* `ImplementsAtomic`: `MaxEdits = 0 => (Spec => Implements)`.  The initial state
  maps to an initial one, and every step to `Begin` (`Reserve`), `Commit`
  (`WriteMarker`), `End` (`RemoveDir`) or a stutter; the delicate stutters are
  writing the journal, renaming it, and removing the marker and the journal,
  where the mapping changes its case and `IInv` says that both cases agree.  The
  hypothesis is needed: a user's edit is no step of `AtomicReplace`.

* `EditsKept`: `Spec => []OnlyExposedEditsLost`.  An edit is followed through the
  four places it can be in.  On top of `IInv`, `EditsInv` says that a new edit is
  nowhere yet (`Known`); that what the plan replaces and installs and what is
  staged is no edit that has to be kept (`Spent`), nor is anything that `clean` removes
  (`Cleared`); and that between the check and the renaming of `rename` the destination
  is empty or holds what the user put there in that moment (`Emptied`).

`UsageBackupProofs.tla`, for any number of processes, accounts, events and
generations and every page size, from `ConstantsAssumption`.  The inductive
invariant is `Inv`, of five parts, followed by two that rest on it:

* `Types`: `TypeOK`, and what a command carries at each of its places (a
  binding, credentials, and after the status call credentials of the binding's
  own account).  One lemma per command.
* `CommandsExclusive`, which is inductive by itself over `Types`: the lease has a
  working holder until it is released, ends or its holder becomes late.
* `Given`: every identity in the ledger, a batch, a request or the service belongs to a
  recorded event or came from another home.  It is what makes the next sequence
  number a new identity; it needs `BatchSteps`, `WireSteps` and `ServerSteps`, which
  say where identities come from.
* `Database`: `IdentitiesUnique`, `SelectionsAreOwn`, `WindowsWellFormed` and
  `CursorNeverSkips` together.  `DatabaseSteps` reduces the actions to seven
  kinds of change.  The page is where the arithmetic is: `PageOf` says that the first n
  rows of a finite set are all of it or hold every row up to the last of them, from which
  `DrainCaptureDatabase` concludes that no cursor moves past a row outside its page.
* `Traffic`: `SentWithOwnAccount`, `AckHonest`, and that a command about to store
  an acknowledgment has read it in an answer.

* `Consent`, on top of these, for `LeaksNeedInterruption`.  An interval is watched
  while the settings name its binding, an enable is about to write them, or the
  service has not revoked the generation.  What a watched interval covers was
  recorded with consent (`Covered`); an open watched interval means that backup is on
  (`Owned`); and a command between two of its effects knows what the settings
  say (`Places`), since it would have to be late, hence `interrupted`, to be wrong.  Steps
  are sorted by their effect on settings, intervals and service (`MoveSteps`), with one
  lemma for each.

* `Origin`, for `BacksUp`: what the service keeps under the current generation of an
  account, and what a restore has fetched from it, was taken from this home's requests or belongs to another
  home.  This is what makes `RestoreApply` an `ImportSome` however late the fetched
  page is applied.

`BackupCorrect`: `Spec => BacksUp`.  `SeenSteps` sorts the steps into those that
`BackupCopies` can see and the rest; each kind has a lemma that names its abstract
step (`PromisedCapture`, `PromisedSend`, ...).  They rest on the invariants above.  The
delicate ones: that a page of capture holds only agreed records is `LeaksNeedInterruption`
in the state it leads to; that a send happens under the binding of the settings and with
its credentials is what `DrainSend` rereads (`MayTransmit`) together with what a
command carries (`Types`) and `SelectionsAreOwn`.  `SentWithOwnAccount` by itself is a theorem
(`OwnAccount`) and listed in no run, as `BacksUp` includes it.

Theorems: `Exclusive`, `NeverSkips`, `WellFormed`, `OwnSelections`,
`UniqueIdentities`, `OwnAccount`, `HonestAcks`, `LeaksExplained`, `BackupCorrect`,
`TypeCorrect`: all
safety properties of the module but `ConsentedOnly`, which the code violates.

`BuildCacheProofs.tla`, for any number of builds, agents, keys and commands, from
`BuildAssumption`.  The inductive invariant `Inv` says, for each build by its place,
whether it holds the lock of its agent, whose definition its workspace has,
that between compile and export its binary is in the template or gone, and what is
left to do.  The argument for `ExportIsOwn` is that the lock makes the workspace
and the agent's name under `target/` its holder's alone, whatever happens to
the template.  Nothing locks a template, so `Shared`, the second invariant, says for each build what may have
happened to its template in the meantime: only other compilers' templates are pruned
(`PrunesStale`); what a build has written into its template is there, or the build was
`crossed` (`Made`, `HurtByOthers`, `BuiltStays`); the template it goes on to use, and what it
has copied from it, is whole, unless the build has such an excuse (`Served`, `Copied`); and `Failed`
names whose fault a failure is.  The first attempt at this proof showed that
the model let a pruning remove parts of several stale templates in turn and marked only one of
them when it was stopped; the code removes them one after another (`prune.rs:33`), and the model
now does so, which made a stronger `ReadyIsWhole` true.  Theorems: `ExportOwn`, `EndClean`,
`ReadyWhole`, `FailureExplained`, `TypeCorrect`: all safety properties of the module.

`ActionRunProofs.tla`, for any number of actions and steps of any kind and failure
mode, in every mode, from `RunAssumption`.  The inductive invariant `IInv` adds to
the properties:

* how far the operation has come (`Walking`, `RunningOne`, `Collecting`, `Ended`):
  the lanes behind it are over and collected, those ahead have not started, and the
  result names why the operation ended; `OneAtATime` in sequential mode;
* what an abort has already stopped (`Recorded`): the lane it came from has ended,
  and a lane that took a step after it is past every place from which it could take
  another;
* what the dispatcher knows at each place (`Dispatching`): from the first sweep on
  the run is canceled, so no lane registers a child any more, and a cleanup still to be
  confirmed after the drain means that the operation is over; and what machine mode
  alone can do (`Interactive`).

The steps of lanes are proved together: `Move` says what any of them does to lanes,
the record and the operation, `MoveKeeps` that this keeps all parts of `IInv` but types,
processes and the history, and `ProcessesKept` that a lane touches no process but that of
its step.  `OpStepKeeps` and `OutsideKeeps` do the same for the operation and for
everything outside it.  Theorems: `Owned`, `Final`, `Honest`, `AbortHolds`, `Local`,
`TypeCorrect`: all safety properties of the module.

`RoleSessionProofs.tla`, for any depth of children and any tree of effects, from
`RoleAssumption`.  None of its properties is inductive: whether a gate counts an effect
depends on where the request, the reply and the settlement of that effect are.  The
inductive invariant `Inv` has eight parts:

* `Domains`, the types, and `PipesOnce`: nothing is asked for, settled or answered twice in
  a pipe;
* `Protocol(e)`, which follows each effect through the gates, pipes and conversations
  between its process and the host.  Below the place where its request is, no gate has
  heard of it; above, every gate counts it until its settlement has passed, and the
  settlement is behind everything else about it;
* `Processes` and `KeptByLaunch`: a child is alive only while its launch runs, its parent
  talks with it exactly that long, a process that is gone has nothing under way, and permits
  are kept for a child only until its launch has dropped them;
* `Finishes`, `Revoked` and `Honest`: a result comes from a process that has ended; after
  the acknowledgment nothing joins the gate of the host; and what frames and the host say of
  an effect is what became of it.

`ProtocolStep` shows that every action keeps `Protocol` of each effect, sorted by what it
does to one of them and with the frame conditions for all others said once (`RefuseShape`,
`AskChange`, `GateChange`); `OthersStep` does the same for the rest.  Theorems:
`GatesCorrect`, `AckCorrect`, `OutcomesCorrect`, `TypeCorrect`.  The attempt corrected the
model twice: `TakeReply` used a `CASE` whose guards overlapped, which leaves the choice
open, and nothing said that an effect below the host has a parent, as the code checks
(`role_child.rs:403`, `603`); `Under` was cut off at three levels.

`BreachCorrect` needs a second invariant on top of `Inv`, since it is about how the frames of
*different* effects follow each other.  `InOrder` says that an effect is begun only inside
one that was let in (`AllBegunInside`) and, as long as no admission lost its task and no
launch was dropped (`Orderly`), that

* `InTransit`: an admission on its way is waited for in every process below;
* `EndsInside`: an effect ends before the one of its process it is inside of;
* `Awaited`: a permit kept for a child is in use there, about to be, or settled;
* `SettledInside` and `AllInnerFirst`: a pipe with the settlement of an outer effect
  has those of everything inside it that is still kept, and has them first.

`OrderlyBack` shows that a chain that is orderly was so before each step, so that a step may
assume all of this; one lemma for each action then shows what it leaves (`AdmitOrder`,
`SettledOrder`, `AdmissionOrder`, ...), with the settlement of a permit, wherever it is
made, in `SettleOrder`.  `ExplainedByOrder` draws the conclusion: the admission at the head of a pipe is
in a kept permit, and the settlement at its head has nothing inside it left.

Type invariants are listed in no run but that of
GuidanceTransaction: a type that goes wrong is an error of TLC or breaks the
properties that are listed.  Liveness stays with TLC in all modules, as does
everything about `ENABLED`: it is outside what TLAPS can prove.

## 12. Not modelled

In UsageCloud: the JSON codec and its digests, request bodies, the exact
arithmetic of Retry-After, the switch from one environment to another, the
sequence of transactions of `enable` in `usage_analytics.rs:280`, several
sources.  In GuidanceTransaction: the abstractions of section 5, and the status
command, which takes a shared lock and changes nothing.  Of the ledger: queries,
migration, the preview and confirmation of a policy.

In UsageBackup: the deferral of the automatic pass (`ready_at`, `defer_at`), the
status and preview reads, the projection of records and byte limits.  In
BuildCache: validation of definitions, the outer directory and loop of a project
build, packaging.  In RoleSession: compatibility children, the bootstrap
message and its validation, observer traces, projection of effective
definitions.  In ActionRun: evaluation of definitions and data selection, steps
that run inside the process, the JSON records of machine mode, and the
platform-specific process trees, whose end is one step.

Not modelled at all: the credential stores, configuration storage and packages
have state and are candidates for modules of their own, as section 2 says; the account and
client commands, the model providers, argument parsing and output are requests,
conversions and formatting with no state that two actors share.  They are most
of the code by lines, as is the validation of definitions, and a model of them would
only write their conversions down again.
