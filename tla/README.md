# Dashcam Analyser: a TLA+ verification project

The repository is a self-hosted server (`src/backend/app`, Python, one asyncio process,
SQLite) that indexes dashcam footage, analyses it in a worker pool and, optionally, pulls
it off an Android head unit in the car, on which a logger of its own runs
(`src/android`). This directory models the parts of it whose correctness depends on the
*order* of things: several actors share a table, a directory or a device, any of them may
die half way, and most of the code is there for the cases nobody sees in a test. Paths
below are relative to `src/backend/app` unless they start with `src/`.

## 1. Inventory

| Part | State it keeps | Operations | What makes it correct | Module |
| --- | --- | --- | --- | --- |
| Processing queue, `workers/queue.py` | tables `processing_jobs`, `recordings`; a pause marker | enqueue, claim, complete, fail, follow-up, cancel, retry, pause, clear, reclaim, release | one pipeline per recording; no row stacks, resurrects or retries for ever; every waiting recording is owed work | `ProcessingQueue` |
| Worker pool, `workers/worker.py` | `_active`, `_runs`, `_work` | claim under a barrier, run, heartbeat, record the outcome, abort, stop, start | an outcome overwrites only a row the run still owns; a lost outcome is healed | `ProcessingQueue` |
| Full reset, `workers/reset.py`; damaged-footage policy, `damaged_policy.py` | the mutation barrier; `ignored` | wipe, abort, rebuild; hide, keep, delete, review | a reset ends; a hidden recording is not work, a visible one is | `ProcessingQueue` |
| Radio coordinator, `ingest/radio_coordinator.py`, `radios.py`, with the watchdog script on the unit | table `ingest_radio_transitions` with a lease, a file fence, a capsule on the unit | begin, quiesce, capture, disable, restore, adopt, accept a report, clean up | a radio that is off is owed by a row somebody can restore from | `RadioTransition` |
| Poller and camera puller, `ingest/poller.py`, `puller.py`, `adb.py`, `transport.py`, `duplicate_cleanup.py` | staging directory, transfer records, run status, visit | gate, list, admit, stream, commit, sweep, rescue, erase, account for the run | nothing is erased on the card that is not safe here; the outcome is honest; every run ends | `CameraPull` |
| Clip movement and parked filter, `ingest/parked_filter.py`, `clip_exclusions.py` | transfer policy of the unit, exclusion audit | prove, match peers, fingerprint, defer, exclude | what is left behind is proved quiet; waiting never reaches the unit's sleep | `ParkedFilter` |
| OBD transfer, `ingest/obd_transfer.py`, `obd_bundle.py`, `obd_storage.py`, `api/routes/obd_import.py` | verified and quarantine directories, bundle rows, receipts on the unit | scan, stream, install, register, receipt, remove, validate, rebuild | no drive is lost, none imported twice, no claim stays | `ObdTransfer` |
| Pipeline stages, `pipeline/*` | stage rows, result rows, pictures | select, run, commit, skip, revalidate | results of one recording agree with each other; rows point to pictures that exist | `StagePipeline` |
| Scanner, `scanner/*`, and retention, `retention/*` | index rows, fingerprints, settling marks, removal plans | walk, settle, reset, reconcile; plan, re-check, remove | the index follows the share; nothing is removed that does not qualify at that moment | `Library` |
| Journeys, `journeys/*` | journeys and their rollups | assign, rebuild, merge, split | the clustering the gaps define; the user's journeys survive; regrouping ends | `Journeys` |
| Sign-in, `auth/*` | account, sessions, caches with expiry | gate, sign in and out, revoke, recover | a cached answer is not used longer than its time; nobody waits for a lookup nobody does | `Auth` |
| Settings, `core/settings_service.py` | rows, the process's cache, followers | load, set, reset, follow | the cache is what a restart would load | `SettingsStore` |
| Database file, `db/*` | file, snapshots, staged restore | boot, migrate, back up, upload, restore, retry writes | no row is lost to a boot, a restore or an upload nobody confirmed | `Database` |
| Scheduler, `workers/scheduler.py` | due times, requested scans, idle batch | scan, follow up, retention, idle cleanup | a scan asked for happens; idle recordings are not forgotten | `Scheduler` |
| Log writer, `core/logging.py` | window of repeats, bounded queue | emit, fold, write, stop | every line is stored, counted as dropped, or folded into a count | `LogSink` |
| Playback cache, `media/playback.py` | cached and exported files, locks | remux, export, prune, clear | one writer per file; the cache stays within its limit | `PlaybackCache` |
| Media slot, `hardware/ffmpeg.py`, `ai/detector.py` | a lock, living children, a verdict | acquire, probe, decode, reap | overlap on the media stack is known; every frame handed out once | `MediaGate` |
| Inference backend, `ai/openvino_session.py` | compiled models, native lanes, a marker file | compile, infer, move to ONNX, disable the GPU | native work is alone; a failed GPU is on record before the next start | `GpuBackend` |
| Maintenance hold, `ingest/maintenance.py` | cancellation record, lease on the unit, evidence | hold, renew, cancel, stop | the lease outlives what is believed of it | `Maintenance` |
| Logger pause, `ingest/obd_control.py` and `src/android` (`IngestionQuiesce.kt`) | request and acknowledgement files | request, acknowledge, renew, release | the logger is paused as long as the server counts on it, and polls again afterwards | `LoggerControl` |
| Logger events, `ingest/obd_events.py` | ring on the unit, mirrored rows, gaps | mirror, count gaps, prune | a gap is a loss; the newest event is kept | `LoggerEvents` |
| Movement report, `ingest/movement.py` | report of the unit, remembered copy | inspect, validate, persist, restore | "ready" means live; a clip that moved is never shown parked | `MovementStatus` |
| Unit logs, `ingest/unit_logs.py` | capture process, receipt, imported lines | arm, import, restart, restore the level | no line is dropped unread; the original level can be put back | `UnitLogs` |
| Power-off countdown, `ingest/status.py` | deadline and its evidence | track, read, admit | the server never believes in more time than there is | `SleepCountdown` |
| Health, diagnostics, progress figures | none | report | presentation | - |
| AI models, OSD, image processing, bundle parsing | none shared | pure computation | numerical, or a function of one file | - |
| HTTP reads, web frontend, recording on the unit | none of their own here | requests | see the parts they call | - |

**Interactions.** API, scheduler, scanner and workers all write `processing_jobs` and
`recordings` in separate transactions; the pool's memory decides which recordings a claim
must skip; the reset takes a barrier that every claim and every outcome needs. A scan
queues work for the pool, asks retention for nothing and is asked for by the ingest. A
finished analysis assigns its recording to a journey and lends its positions to the other
camera. The poller starts a pull on arrival; the pull asks the parked filter, runs an OBD
transfer, mirrors the logger's events, collects the movement report and starts a radio
transition under a logger pause; the maintenance hold and the countdown decide how long it
may take. The unit posts reports to `api/routes/ingest.py`; its watchdog acts without the
server.

**What is hard.** A run outlives its row; outcomes that cannot be written; a crash between
two commits, or between a file operation and the row about it; a barrier holder waiting
for a run that wants the barrier; attempts refunded by three paths; a command whose reply
is lost after it took effect; a lease that expires under a live owner; files replaced by
name between a listing and a deletion; a stream and a committer that each may stop the
other; one name used by a transfer, a manual validation and a background rebuild; plans
made from rows somebody changes before they are carried out; caches in front of revoked
rows; an estimate of time left, made from reads that take time themselves. `PROJECT.json`
lists each as a hazard at its line, with the properties that watch it.

## 2. Modules

Every component has one module with its state, one action per operation (named like the
function), `Next`, `Spec` and its properties. (`Journeys` calls them `JourneyNext`
and `JourneySpec`, so that `LibraryProofs` can extend it beside `Library`.) An MC module gives it an instance for TLC.

| Module | Instance | Also |
| --- | --- | --- |
| `ProcessingQueue` | `MCProcessingQueue` | `QueueProofs` |
| `RadioTransition` | `MCRadioTransition` | `RadioObligation` (abstract specification), `RadioProofs` |
| `Library` | `MCLibrary` | `LibraryProofs` |
| `CameraPull` | `MCCameraPull` | `PullProofs` |
| `ObdTransfer` | `MCObdTransfer` | `ObdProofs` |
| `StagePipeline` | `MCStagePipeline` | `StageProofs` |
| `ParkedFilter` | `MCParkedFilter` | `ParkedProofs` |
| `Journeys` | `MCJourneys` | `LibraryProofs` |
| `Auth`, `SettingsStore`, `Database`, `Scheduler`, `LogSink`, `PlaybackCache`, `MediaGate`, `GpuBackend` | `MCServer` | `ServerProofs` |
| `Maintenance`, `LoggerControl`, `LoggerEvents`, `MovementStatus`, `UnitLogs`, `SleepCountdown` | `MCUnit` | `UnitServices` (side by side), `ObdProofs` |

The services under `MCServer` and `MCUnit` share no state, so a behaviour picks one of
them and the others rest: exploring their product would multiply states and find nothing.
The large modules are not composed with each other either. They meet through a whole
database row or a finished file, and each module has the other side of that meeting as an
environment that may act at any step: the scan in `Library` has the worker, `CameraPull`
has radios and OBD as outcomes, `StagePipeline` has cancellation and crash.

Two conventions hold throughout. *Events* (requests, faults, what the car and the recorder
do) are bounded: a constant `Few` or `Few...` says how many may happen in a behaviour, and
`Budgets`, where there is one, lists larger mixes that may happen as well. A database
transaction is one action; an `await` between two of them, or between a file operation and
the row about it, separates actions.

### ProcessingQueue

State. `jobs[r]` is the sequence of rows of recording `r`; an id is a position, because
the code compares ids only within a recording (`release_stranded_recordings`,
`retry_failed`). `recs[r]` keeps the columns that decide something. `runs` is the pool's
memory: recording, row, phase (`starting` before the PROCESSING commit, `working`, `ended`
waiting to record, `stopping`) and outcome. `reset` is the barrier and how far its holder
has come. `spent` counts the requests and faults that happened.

Actions carry the names of the functions: `claim_next`, `StartWork` (the first commit of
`run_stages`), `_process`, `_make_thumbnail`, `Raise` (an exception outside the stages),
`_finish` (the outcome, with the re-read of the row, the policy and the follow-up, one
transaction in the code), `OutcomeLost`, `_heartbeat` (a run learns that its row is gone),
`Stopped`, `Reprocess`, `cancel`, `retry_failed`, `retry_job`, `pause`, `resume`,
`apply_known_damaged_policy`, `queue_unprocessed`, `_run_reclaim` (reclaim *and* release,
as the task does), `clear`, `abort_active`, `AbortTimeout`, `rebuild`, `stop`, `start`
(with its reviews and `reclaim_interrupted`), `Crash`.

Assumptions. A database transaction is one step, and the rebuild's commit immediately
after it leaves the barrier is folded into it. A locked database is an outcome of a run.
The priority 60 of a journey's reprocess is folded into 50; both precede a scan's 100.
The pool's size is a constant: the supervisor that resizes the pool changes only when a
claim happens. `METADATA_EXTRACTED` is not a state because nothing writes it.
A reset that times out in `abort_active` (`AbortTimeout`), or dies, after its wipe gives the
barrier back and rebuilds nothing, as in the code.
Not modelled: the pause marker that cannot be written, jobs without a recording, the
reset's counters, `reconcile_legacy_contention_failures` and
`reconcile_misclassified_probe_crashes` (one-off repairs of rows of older releases).
Settling and fingerprints are in `Library`.

### RadioTransition

State. `rows` is the table, oldest first; `pc`, `mine`, `mem` are the memory of each
server process. A process holds the operating-system fence exactly while its `pc` is not
`"idle"`. `radio`, `rearm`, `watchdog`, `logger`, `capsules`, `awake` are the unit, `reports`
the posts in flight. `home` remembers the operator's settings from before the first
backup; only the properties read it.

Actions follow a transition: `begin`, `prepare_logger`, `request_quiesce`,
`mark_obd_transfer_complete`, `capture`, `CommitBaseline`/`BaselineLost`,
`BluetoothIntent`, `_ensure_watchdog`, `disable_bluetooth`, `HotspotIntent`,
`disable_hotspot`, `quiet_state_verified`; then `restore` from wherever the run ended,
`restore_bluetooth`, `restore_hotspot`, `stand_down_watchdog`, `resume_logger`,
`_finish_transition`, `_cleanup_capsule_after_finish`, or `_persist_restore_failure` and
`LostRow`. Recovery is `_adopt_expired` (with the search for an unrecorded capsule that
`reconcile_pending` does) and `_cleanup_inactive_capsules`. The watchdog claims, enables
Bluetooth, restores the hotspot, reports and ends; `apply_unit_report` handles a report,
and may handle it twice when its answer is lost. Around them: `Crash`, `LeaseExpires`,
`Rearm`, `LoggerHoldExpires`, `Sleep`, `Wake`, `Reboot`.

Each intent (`..._disable_attempted`) is a commit of its own *before* the command, as in
the code. A command, its readback and the checkpoint after it are one step: a crash
between them leaves exactly what a lost reply leaves, and lost replies are modelled
(`refuse`).

Assumptions and abstractions. The watchdog's lease is proved alive immediately before
a command, so proof, final guard and command are one step. `apply_unit_report` reads and
writes its row in one step; the code does so in one session, and an adoption between its
SELECT and its UPDATE is not explored. The logger's hold outlasts the watchdog: `LoggerHoldExpires` needs a free
fence and no watchdog (`_logger_hold_s` is computed to guarantee this). Either clock of the
watchdog (lease, sleep deadline) is one claim that may come at any time while it is armed.
The report endpoint exists (`token` is TRUE at `begin`). An unreadable radio is an error
path before any radio is touched and is the same as leaving `"bt_intent"` by `restore`.
The hotspot capsule stands for both restore modes. Retries and time-outs of a checkpoint
are abstracted to "it succeeded" or "the run ended". The `phase` column is only displayed.
The interactive `RadioQuiet` path keeps no durable row and is left out.

`RadioObligation` has two Booleans: a debt is recorded (`owed`), a radio is not at home
(`away`). Its steps are borrow, change a radio while owed, repay with the radios back.
`ImplementsObligation` maps `owed` to "some row is active" and `away` to `radio # home`.

### CameraPull

State. `card`, `open`, `young` are the camera's memory card with the files still being
written or recently touched; `library` and `disk` are the footage directory as processes
see it and as it survives a power cut, `staging` the chunk directory. `run` is the one
pull, `queue`, `job`, `stage`, `failed` its commit pipeline, `status` and `poll` what the
operator and the poller see. `erased` and `hist` are history variables.

Actions. The poller: `PollArrives`, `PollDrainsAgain` with the retry delays, the budget of
passes per visit and the callbacks that give a pass back. The pull: gates, inventory,
delta, admission by free space, stream, sweeps over what the recorder wrote meanwhile, the
clips a transfer policy defers (`Defers`; a pass that left some is followed by another
whatever the visit has cost, and a sweep or a chunk may end the batch for them,
`YieldBatch`), rescue of stranded `pre_` files, salvage of a broken chunk, cleanup of duplicates, and
`_classify_cancellation` with the outcome and the sleep window. The committer: size check,
rename, sync, deletion on the card. Around them: the recorder, the car, the operator's
Stop, lost leases, the end of the native window, a power cut between any two steps.

Abstractions. A chunk is one file. A content number also stands for the size and time
stamp the recorder gave it; two contents may share a size, which is the case the size
comparison cannot tell. What was committed and what was wanted are sets of slots; the code
keeps lists of names and compares their lengths (`puller.py:3131`, `puller.py:3362`), in
which a name that is committed twice counts twice. Why and how long the policy defers a
clip is in `ParkedFilter`; here it may defer any. `delete_after_verify`, `quiet_radios`, `only_when_parked` and
`rescue_partials` are on, the settings under which most can go wrong. Wi-Fi band, root
access, radios and the OBD transfer are outcomes of a step.

### ParkedFilter

State. The unit's side (`now`, `off`, `ver`, `quiet`, `policy`, `logger`), the pull in
progress (`run`), the exclusion rows, what has been backed up. Bytes 2 of a clip are a
rewrite in which something moves. Actions: the passes of the filter (listing, policy,
proofs, peers, fingerprint, exclusion), the handoff that waits for an analysis, the pull of
the rest, and the unit, which publishes, rewrites, leaves and returns. Time is counted in
minutes with the code's guards and limits; a waiting pull looks again once a minute; the
logger publishes while the pull is idle, waits or plans. The handoff's own reading of the
footage directory, in a thread that no timeout bounds (`ingest/puller.py:1490-1513`), takes
no time here. The manifest's formats are one accepted-or-not outcome.

### ObdTransfer

State. The logger's outbox, raw rows and receipts; the verified and quarantine directories
with the bytes in them; the bundle row and the number of imports; the transfer of a visit
(`xfer`), a manual validation (`check`) and the background rebuild (`rebuild`), each with
what it read earlier (`sees`, `orig`, `known`). Actions follow the three programs step by
step, with registration as one transaction, and the start-up recovery; the environment
exports again, damages a file, drops a stream, fails a command, cancels, crashes.

A bundle is its SHA-256. `Apart` keeps a visit from overlapping a validation or a rebuild
once a file is damaged: nothing in the code does, and what then happens is under
*Disagreements*. The archives that keep older quarantined copies are left out, and so are
bundles refused for their size (`ingest/obd_transfer.py:1348`) and the cap on how many one
window takes (line 1353): the visits recur.

### StagePipeline

State. Per recording the stage records (`rec`), the rows of telemetry, tracks and plate
observations, each with its own stamp and the stamps of the rows it was built from, the
crops and preview directories on disk, the job and its run. Actions: `select_stages`, one
action per stage attempt with its commit, the file work before and after it, failure by
kind, cancellation, the crash, the sweep that revalidates plates and a change of the plate
settings (`auto_revalidate` is on). The plate pass reads the settings at three moments, each
a step: the key it will stamp (`OpenPlates`), the threshold compiled into the detector
(`LoadPlateModels`) and the rest (`ReadPlates`). Decoding, inference and OCR are an outcome
of a stage.

### Library

State. The share (bytes and stamp per file), whether it is mounted, the index rows, the
scan and the retention task in progress; `skipped` and `unread` are history, of the entries
a walk passed over and the files a scan could not read. Actions: the scan's walk, which
skips an entry whose stat fails (`SkipEntry`) and notes a directory it cannot list
(`WalkFails`); `Reconcile`, one file per batch, whose reading may fail after the row has
been changed;
`Settle`, the follow-up that looks at a file again; `Work`, a worker that analyses what
was queued and retries until the share is back; retention's evaluation, its three plans
(idle footage, parked journeys, oldest first), the re-check of each file, removal, the
update of the row; requests that protect or clean up; a crash. All files have one size.
`Apart` keeps a file from being replaced while it is analysed (*Disagreements*). The
damaged-footage policy is in `ProcessingQueue`.

### Journeys

State. Recordings with their journey and the set of journeys their derived rows name (0 for
none), journeys, the rebuild (`rb`), one analysis per recording (`asg`): due, in its
`stages`, which commit rows under no journey whatever journey the recording is in, planned,
and assigned, or failed with the rows it had committed. A recording may also have been
analysed and never grouped, as when `journeys.enabled` was off. Every hand reads rows, derives, and publishes
only if a comparison with what it read holds; read and publication are separate actions.
`_cluster` is the code's loop as an operator, and `ClustersAreSessions` compares it with a
definition by connected components. Four layouts of three recordings stand for the
shapes that decide: pauses around the gap, overlapping cameras, omitted clips between and
touching, a distant clip. `rebuild(since=...)` has no caller and is left out.

### Services of the server (`MCServer`)

* `Auth`: requests at every `await` of the gate, a shared lookup per token, caches with
  ages, revocation and the recovery command from another process. A unit of time is half a
  minute; epochs are left out because entries of an old epoch are dropped at the bump.
  `raced` is history: what a lookup had read when a revocation overtook it. Of the recovery
  command the account is modelled; the setting it writes to the rows (`auth/recover.py:112`)
  is read by the server at its next start. Rate limits and hashing are not modelled.
* `SettingsStore`: the write lock, rows, cache, publication, a follower and a caller that
  waits for a change. A kind of setting is its coercer; the `await`s of one service call
  under its lock are one step. Another process that writes rows behind the cache (the
  recovery command) is left out.
* `Database`: two processes boot against one data directory. The staged restore is applied
  by a process that boots alone, as in the container.
* `Scheduler`: due times are what is left of them, tested when the step is taken. Of the
  periodic tasks scan and retention stand for all; what they do is in `Library` and
  `ProcessingQueue`. Scanning is on: switched off, a request that comes due is dropped
  (`workers/scheduler.py:243`).
* `LogSink`: a window is named by the occurrence that opened it; the summaries of a sweep
  are queued in any order, since a key keeps its place in the dictionary when its window
  opens anew. The batch of a cancelled writer is lost without being counted as dropped, as
  in the code, and is a fate of its own.
* `PlaybackCache`: files have size 1; a sweep runs in a thread beside the others: it lists,
  reads size and age, and unlinks one file at a time; a listed file that is gone when it is
  to be read ends the sweep and fails its request. (`os.scandir` keeps the result of the
  first stat, so only `media/playback.py:383` can raise.) `Cuts` are the clips of which a
  part may be exported. A request that is cancelled is left out.
* `MediaGate`: one file, one child that may be wedged; the thumbnail is a decode. A launch, a
  decode and an inference may be cancelled; of the last the thread runs on (`orphan`).
* `GpuBackend`: an error that is not one of the GPU context is an answer like any other.

### Services for the unit (`UnitServices`, `MCUnit`)

* `Maintenance`: every adb call and write of the record ends an action, and may fail or be
  done with its answer lost; a write or a deletion of the record may also report failure
  after the file was replaced or removed, when the directory's sync raises. An observation is applied when it is made; a unit that
  rebooted is not connected; a boot's generation is the number of starts.
* `LoggerControl`: both sides of the request and acknowledgement files, with renames that
  a cut-off command may still carry out, and clocks that differ within the tolerance.
* `LoggerEvents`: the ring, the mirror with its attempts and deadline, pruning. Rows are
  pruned in the order of their numbers; the code goes by the unit's clock
  (`ingest/obd_events.py:594`), and a clock that was set back is left out.
* `MovementStatus`: the inspection, its validation thread, persistence, restoring.
* `UnitLogs`: shell commands on the unit run on after the server gave them up. Others
  never choose the very level this program sets; each shell's check and `setprop` are one
  step. Rotation, parsing, pruning and a disabled capture are left out.
* `SleepCountdown`: a read takes time between its start and its answer, the properties it
  reads are read together; the boot id is always readable, no maintenance lease is held,
  the window is rewritten at most once.

## 3. Runs

A run's properties are few; several are conjunctions of named parts, which stand with
their explanation in the module (or, for the services, in the service's module).

| Run | Bounds | Shows |
| --- | --- | --- |
| `queue_safety` | 1 recording, 3 rows, 2 workers; force/lost/silence/crash/retry, cancel/force/retry/silence, reset/policy/shutdown/linger/retry, reset/cancel/silence/pause | types; `OneRunPerRecording`; `LiveRows`: at most one RUNNING and two live rows; `AttemptsBounded`; `ThumbnailNeverLast`; `CancellationHolds` = `CancelledIsFinal` (only a retry revives a cancelled job) and `CancelStands` (no timer undoes a cancellation); `NoDemotionUnderRun` |
| `queue_live` | fair, 4 rows, 1 worker; force/lost/raise/crash, reset/silence/force, reset/linger/crash | `NotStranded`; `QueueComesToRest` = `WorkSettles` (every visible recording reaches a verdict) and `ResetCompletes` (the reset never deadlocks with a run) |
| `radio_safety` | 2 servers (symmetric), 5 mixes of faults | `OneController`; `DebtsRecorded` = types, `AwayIsOwed`, `HeldIsOwed`, `CapsuleTracked`; `ResumeAtHome` |
| `radio_live` | fair, 1 server; crash, sleep, lost reply | `ImplementsObligation` (refinement), `EverythingReturned` |
| `pull` | 2 names, 3 contents, 3 cards, 1 pass per visit, 1 retry; any 2 of 15 events, and write/recycle/power together; clips are deferred in one pull | `EraseOnlySaved`; `StaysInBounds` = types, `CleanerIsAlone`, `VisitBounded`; `OutcomeIsHonest` = `StopIsTerminal`, `NarrowWhenDrained`; `RunEnds` |
| `obd` | 2 drives, 4 bundles (two of the same rows, one invalid); any 2 events and 7 larger mixes | `KeptAndImportedOnce` = types, `NoDriveLost`, `ImportedOnce`; `DrivesGetThrough` = `Delivered`, `ClaimEnds` |
| `stages` | 2 overlapping recordings, 2 workers; any event, again with crash, settings changed and changed back; the one analysed before starts with positions or a gap | `PicturesExist`; `ResultsAgree` = types, `Coherent`, `NothingLeftBehind`, `NoEcho`, `ValidatedAsRead`; `JobsEnd` |
| `library` | 2 files, room for 1, half may be removed; any 2 of 8 events | `NothingWronglyRemoved` = types, `MissingIsReal`, `NotOverdone`; `DecidedOnWhatIs` = `QueuedSettled`, `SparedStaysSpared`; `IndexFollowsShare` = `AnalysisFollowsBytes`, `RemovalIsKnown` |
| `parked` | a front and two rear clips, 4 checks, native delay 10, horizon 11 minutes, policies at minutes 4 and 6; 1 disturbance | `LeftBehindIsQuiet`; `AccountedAndBounded` = types, `EveryClipAccounted`, `WaitIsBounded`, `WaitedIsSettled`; `Settled` |
| `journeys` | 3 recordings, 4 layouts, 5 journey ids, 2 analyses at a time; 1 edit, re-analysis or failed stage | `GroupedAsDefined` = types, `ClustersAreSessions`, `RowsFollow`; `RebuildKeepsManual`; `Converges` |
| `server` | see `Server.cfg`; the playback cache holds 1 file of 2 clips, one of them cut | `SignInIsCurrent`, `StoredIsKept`, `AcceptedIsRemembered`, `SharedAsAgreed`, `NobodyWaitsForever` |
| `unit` | see `Unit.cfg` | `TimeIsNotOverdrawn`, `RecordsAreTrue`, `NothingHeldForever` |

`PROJECT.json` keeps one seeded fault of the code per listed property that the run finds.
While the modules were written, every named part was broken by a fault of its own in the
same way.

**Bounds.** In the first four runs a *budget* says how often each event may happen, and a
behaviour may follow any one of several alternatives; that puts many small mixes of faults
into one run without multiplying them. One recording is enough for the queue because
recordings interact only through the pool's size, and two workers are what it takes for
two runs to meet on one recording; three or four rows leave room for a thumbnail, its
follow-up and one forced or rebuilt job. Two names and three contents are the least with
which a name is reused, with and without the same size, while another file is in the
pipeline. Two drives let one be transferred while the other is validated; four bundles give
a re-export of the same rows, one of others and an invalid one. Two overlapping
recordings are the least that lend positions, and three recordings the least that a gap or
a merge can divide in two ways. In the parked run three clips make a scene (one moment,
two cameras, a successor), and horizon 11 lets the first window, the wait and the reserve
all end inside the behaviour. The services have two of whatever competes. Three instances
were also run once with more: `UnitLogs` with two disturbances (9.6 million states) and
`SleepCountdown` with windows 6 and 7, evidence valid for 2 and horizon 9 (10.4 million), and
with windows 3, 5 and 7 (5 the resting one), samples up to 2 old, four events and horizon 4
(6.2 million).

Deadlock checking is off: a system with a spent budget and nothing to do really stops.

`radio_safety` uses a VIEW that leaves out what an idle process remembers: `begin` and
`_adopt_expired` overwrite it before it is read. Its symmetry is sound because the run
checks no liveness. `server` states the waiting of requests for one of them
(`ARequest`, `ABoot`): they are interchangeable.

**What the statements leave out.** Where the code does what a property would forbid, the
property excepts exactly that, and *Disagreements* describes it.

* `NotStranded` is not checked together with cancellations, and neither it nor `WorkSettles`
  speaks of what a reset left behind that gave up after its wipe (`ResetGaveUp`).
* `VisitBounded` allows one pass beyond the limit for each that started for deferred clips.
* `ValidatedAsRead` is about settings that were not changed back.
* `MissingIsReal` excepts the entries a walk passed over (`skipped`), `QueuedSettled` the
  files the scan could not read (`unread`).
* `RowsFollow` speaks of a recording between its analyses.
* `RevocationHolds` excepts what a lookup had read before the revocation (`raced`) and the
  recovery command, which the process is not told of. For those there is
  `StaleAtMostTTL`: what no longer holds is honoured at most `CACHE_TTL_S` longer.
* `OverlapIsKnown` does not count launches and inferences that were cancelled; `Bounded`
  does not count what came after the latest sweep that was carried through had listed the
  caches.
* `CycleReopens` excepts a record that is on disk although its write was reported as failed
  (`Orphaned`).
* `RequestStandsUnrefused`, `GapsAreLosses` and `Conservative` name the cases they except.

`queue_safety`
allows one policy change; with two, hiding and showing a recording while its thumbnail is
made leaves it to `release_stranded_recordings` and the next scan, which is the code's
intention. `WorkSettles` is checked without the pause flag: a queue the user leaves paused
does not drain. `AwayIsOwed` and `ResumeAtHome` are stated for behaviours in which
commands work (`CommandsWork`): if the server enables Bluetooth, is cut short, and the
watchdog's own hotspot command fails, a vendor re-arm after the watchdog's readback can
leave a hotspot on that the readback saw off, which no readback can exclude. `ClustersAreSessions`
speaks of layouts without a distant clip, for which the code has a further rule.

**Fairness** is assumed of what runs by itself, never of requests, faults, the car or the
recorder's choices.

* Queue: workers, heartbeats, the reclaim timer, the scan, the steps of a reset and a
  restart after a crash: asyncio tasks and periodic timers in a container with a restart
  policy.
* Radio: restore steps, adoption (attempted on every arrival and before every run),
  capsule cleanup, lease expiry without a renewing owner, the watchdog, the firmware's
  re-arm, the logger's finite hold, the return of the car and a report that keeps being
  possible. `begin` and the forward steps are not fair.
* Pull, OBD, stages: the pull's body, the committer, the cleaning thread and the poller;
  a transfer, a validation and a rebuild that were started, visits while the outbox holds
  something; a job's steps.
* Library: scans, retention and workers recur, the share comes back. Parked: the pull and
  the clock (strongly: it may be overtaken by steps that take no time), and the driver who
  is out comes home. Journeys: assignments, the rebuild, and the scheduler's pass, written
  as `[]<>(~P) \/ []<><<A>>_vars` so that TLC need not compute ENABLED of large actions.
* Services: the steps of a request, a thread, a boot, an inspection, a shell command; time
  passes. Strong fairness for a lock is the FIFO queue of `asyncio.Lock`.

### Disagreements between the code and its own statements

Met while modelling, each confirmed on a model before the runs were restricted, or the
properties given their exceptions, as said above.

* Queue: a cancellation between the claim and the run's first commit. `cancel`
  (`workers/queue.py:676`) settles the recording, the run then commits PROCESSING and is
  stopped without an outcome; `release_stranded_recordings` skips it because "`cancel` has
  already settled it" (`queue.py:1129`).
* Queue: a crash between the reset's wipe and its rebuild (`workers/reset.py:139`) loses
  the queue, documented as one where "restarts never lose or duplicate work"
  (`db/models.py:692`).
* Queue: a reset whose runs do not leave in time raises (`workers/worker.py:706`) after its
  wipe has committed: recordings stay QUEUED or PROCESSING with a cancelled last row, which
  `release_stranded_recordings` takes for the user's wish, until another reset.
* Queue: retry, then cancel, after the recording was given back to the scanner
  (`queue.py:751`): the next scan queues it again, what `queue.py:664` says would make "the
  Cancel button do nothing at all".
* Queue: a queued recording that the policy hid is wiped by a reset, not rebuilt, and stays
  QUEUED without a job, because the cleanup skips recordings whose newest job is cancelled
  (`reset.py:252`).
* Radio: a report that arrives after the server closed the row, and read a radio wrong,
  asks for a recovery on a row nothing may adopt (`ingest/radio_coordinator.py:1218`;
  `src/docs/ingest-radio-state-machine.md:78`: "server recovery debt is retained for
  another reachable attempt"); later backups are refused.
* Radio: the server's restore stops a hotspot and cannot start it; an older report of the
  unit then counts as proof and closes the row (`radio_coordinator.py:800`; the same
  document, line 97).
* Pull: `_loop` (`ingest/poller.py:548`) starts an arrival pull whenever `_was_online` is
  false, also after a poll that raised: a pull the operator stopped is followed by an
  automatic one, which `poller.py:269` calls "ignoring them".
* Pull: `_should_drain_again` (`ingest/poller.py:185`) looks at the limit of "passes a
  visit may copy on" (`poller.py:285`) only after a pull that moved files. A manual pull
  that finds nothing, or fails, restarts the automatic ones at the limit; `VisitBounded`
  speaks of visits without one. And with clips deferred by a policy it does not look at the
  limit at all (`poller.py:219-227`): each further pass copies what is there.
* OBD: `_sync_remote_bundles` repairs without `storage_claim_lock`
  (`ingest/obd_transfer.py:1458`). If it replaces a damaged file while the rebuild has
  judged the old bytes, the rebuild quarantines and then clears the fresh copy by name,
  and the unit's copy is removed under a receipt; `obd_storage.py:50` says the lock
  serializes "bundle registration and repair". It takes no damaged file: a re-export, a
  failed command and a restart, whose rebuild meets the next visit, suffice. `NoDriveLost`
  is therefore stated for visits apart from validations and rebuilds once a file is
  damaged, and the run has no mix of those three events.
* Library: `stage_summarise` (`pipeline/stages.py:2509`) sets COMPLETED whatever the scan
  wrote meanwhile: a file replaced during its analysis keeps the old results, the defect
  that `scanner/discovery.py:526` says was repaired.
* Library: the walk passes over an entry whose stat fails, and a directory with all that is
  in it, without counting an error (`scanner/discovery.py:220-222`), so that
  `_reconciliation_blocked` (line 118) has nothing to go by: files that are there are marked
  missing until a later scan can read them.
* Library: a fingerprint that cannot be taken (`discovery.py:556`) is counted and swallowed
  (378-381), and what was changed before it is committed: the new size and time (line 478),
  and a row taken out of settling (547-548). The recording is then queued on the fingerprint
  of its old bytes, which SETTLING is there to prevent (491-495); the next scan that can read
  the file puts it right.
* Stages: `stage_plates` stamps the key it took first (`pipeline/stages.py:1810`), although
  the threshold (line 903) and the other settings (1852-1856, 1874) are read after awaits.
  A change in between is caught, since the key is then out of date; one that is taken back
  leaves plates shown as validated that were read under what was between.
* Stages: results are "invalidated when that stage runs again" (`orchestrator.py:49`), but
  only a request does that; a run (`orchestrator.py:336`) marks the stage it starts and no
  other. A job that is killed after its detection and begun again rewrites the telemetry;
  cancelled there (or out of attempts after a second kill) it leaves new positions beside
  a detection still DONE on the old ones, and the next plate sweep completes the
  recording. `Coherent` therefore speaks of behaviours without a cancellation.
* Journeys: finishing a repeated analysis after a split inside the gap moves a recording
  out of a journey the user made (`journeys/builder.py:1696`);
  `src/docs/audit-analysis-2026-09-08.md:16` says reprocessing preserves those.
* Journeys: a stage writes its rows with `journey_id` NULL also for a recording that is in a
  journey (`pipeline/stages.py:1085`, 1144-1148): `stage_summarise` "backfills it the moment
  the journey is known" (`stages.py:142`), but here it is known from the start. Until the assignment at the end
  of the analysis, or after an analysis that failed until the journey is next refreshed, a
  ready recording's rows are in no journey, and its map is empty, what
  `journeys/builder.py:1746-1749` calls a defect it removes.
* Sign-in: "Revocation still takes effect immediately" and "Correctness never depends on a
  TTL expiring" (`auth/service.py:10-12`, and 94-96). A lookup that has read its row when the
  revocation is carried out is remembered afterwards under the new epoch (`auth/service.py:611`,
  634): the revoked session is honoured up to `CACHE_TTL_S` longer.
* Playback: `prune_cache` shall "Evict least-recently-used clips until the cache fits"
  (`media/playback.py:342`). It runs in a thread beside others, and a listed file that
  another sweep or `clear_cache` has unlinked raises at line 383: the request whose clip was
  just made fails, and the caches stay over their limit until a sweep is carried through.
* Scheduler: an ingest scan that comes due while a manual scan runs is refused and
  forgotten (`workers/scheduler.py:254`); the periodic scan finds the file later, so
  `FilesIndexed` holds and `RequestStandsUnrefused` excepts it.
* Media: inference asks `gpu_safe` before it waits for the slot (`ai/detector.py:267`),
  decoding after (`hardware/ffmpeg.py:254`): a verdict reached while it waits is not seen.
* Media: a task cancelled during inference (`workers/worker.py:649`, 693) gives the slot back
  at once (`ai/detector.py:281`) while the native thread goes on, and the next holder meets it
  on the chip. "The slot is the lock *and* the set of media children still alive"
  (`hardware/ffmpeg.py:147`), but of this user of the chip nobody tells the gate.
* Maintenance: `_write_record` shall "publish only after file and directory fsync"
  (`ingest/maintenance.py:448`), but replaces the file first and then syncs the directory
  (459-460). If that raises, the record is on disk and not in memory (431-436); no clear
  expects it (531-534), so the cancellation stays latched until a restart or a later start
  that can write.
* Logger events: once all rows of a unit have aged away, its numbers are taken to start
  again from 1 and old gaps are counted again (`ingest/obd_events.py:333`).
* Countdown: an ignition that comes on and goes off again between two samples of the Android
  logger leaves it with the old edge (`SleepDeadlineEvidence.kt:135`, `else -> evidence`),
  although "a missed observation is not permission to infer an edge" (its line 119). The old
  edge is too early, which is safe, unless the window was shortened in between: the server
  then believes in more time than the unit has; so it does when a status outlives a reboot
  with a shortened window. `Conservative` excepts these
  (`MayMisjudge`); without the exception it fails within the bounds of `Unit.cfg`.

## 4. Proofs

`QueueProofs` proves, for any set of recordings, pool size, attempt limits and
budget (assumptions: `RecordingsAssumption`, `BoundsAssumption`),

* `OwnershipInvariant`: `Spec => []Ownership`, with
  `Ownership == TypeOK /\ OneRunPerRecording /\ LiveRows`;
* `TypeCorrect`, `OneRunTheorem`, `LiveRowsTheorem`: its three parts.

No part is inductive alone. That a claim starts no second run needs that a run's recording
has no other RUNNING row to be finished under it; that a recording has at most two live
rows needs that a run in flight owns the running one and leaves room for one queued row
(`RunOwns`), which is what makes a retry, a forced request or a reclaim safe. The proof has
lemmas for single rows (record updates), for sequences of rows (`TableIsSeq`, `FewerLive`,
`AppendJob`, `EnqueueRows`, `ForceRows`), a frame lemma that reduces a step to one
recording (`KeepOwnership`), then one lemma per group of actions, put together in
`OwnershipNext`.

The module goes on from there.

* `AttemptsTheorem`: `Spec => []AttemptsBounded`. Three things refund an attempt (a lost
  outcome, a silent heartbeat, a shutdown), so that a row's count is bounded is not a
  property of the row. `Budgeted` relates a row to the pool: a queued row has an attempt
  left for the claim that will count it; a running row whose run is gone has one left
  because what took the run away also raised the ceiling or gave the attempt back; a row
  still owned by a run is under the ceiling; a pool whose queue was wiped runs nothing. It
  needs `MaxAttempts >= 1`, the least the setting admits.
* `CancelledTheorem`: `Spec => CancelledIsFinal`. The types are all it needs: of all that
  writes the table only a retry (or a wipe, which ends the table) touches a dead row.
* `NoDemotionTheorem`: `Spec => NoDemotionUnderRun`. `Attended` says that a run which was
  not cancelled still has a live row, so that `release_stranded_recordings` passes over
  its recording, and that the pool's memory dies with the process.

`RadioProofs` proves `FenceTheorem`: `Spec => []OneController` for any number of
servers. The invariant `Fenced` adds only that `pc` is defined on the servers; every step
of a process moves only its own `pc`, and it leaves `"idle"` only under a free fence.

It also proves, for any set of servers and any mix of faults, with the invariant `Owed`,

* `DebtsTheorem`: `Spec => []DebtsRecorded`;
* `ResumeTheorem`: `Spec => ResumeAtHome`;
* `ObligationTheorem`: `Spec /\ []CommandsWork => ImplementsObligation`, the refinement while
  a command that succeeds does what it says.

`Owed` says that at most one row is active and the process past `begin` owns it or has
lost it; what the owner has reached (its `pc`) fixes which intents the row records; what
the watchdog and a report in flight know is what the row they name once recorded; a
recovered radio is at home. The parts about the radios themselves are stated where
commands work, as the properties are. For the refinement every action is shown either to
leave the radios alone, and then to open or close at most the one row, or to leave the
table alone and change a radio under an active row.

`LibraryProofs` proves, for any set of files, sizes, ages, limits and budget
(`FilesAssumption`, `NumbersAssumption`), with the invariant `Justified`,

* `RemovalTheorem`: `Spec => []NothingWronglyRemoved`;
* `DecisionTheorem`: `Spec => DecidedOnWhatIs`.

`Justified` has a part per memory that can be out of date. `Passed`: a walk leaves behind
only names that were removed, skipped or never indexed, unless it noted an error or saw
nothing at all. `InHand`: the row a scan loaded agrees with the row as it is now in
everything the scan decides by, and the file's bytes change only with its stamp; what a
reading that fails leaves of it is on record in `unread`. `Doomed`: the file about
to be unlinked qualifies now, or was taken up after its check (`late`). `Measured`: what
is gone and what is still planned stay together under both limits. `Known`: a planned file
has a row. That a plan in order exists, which the step that makes one relies on, is proved
from the well-foundedness of strict inclusion on finite sets.

It also proves, for the journeys those recordings are grouped into, for any recordings,
omitted clips and gap (`JourneysAssumption`, which a recording without an end time
satisfies by ending where it starts) and any number of edits and rebuilds,

* `GroupedTheorem`: `JourneySpec => []GroupedAsDefined`;
* `ManualTheorem`: `JourneySpec => RebuildKeepsManual`.

`ClustersAreSessions` needs no behaviour, only that the times are in order. The code
compares a recording with one other, the earlier one that ends last, and asks merged
barriers whether an omission lies between. `BarrierBlocks` shows that the barriers answer
as the single omissions would; `PreviousEndsLast` and `LinkedOver` that a recording not
linked to that one is linked to nothing before it, so that nothing is joined across a
break (`NothingAcross`) and sessions end there (`TogetherGrouped`); between two breaks
each recording is joined to the one it was compared with, and so back to the break
(`GroupedTogether`). `JourneysInv` is about the rows (`GoesWith`): a journey that a
recording or one of its rows names has been derived from recordings, which tells it from a
deleted one, and between analyses the rows name their recording's journey and no other; an
analysis that publishes brings all rows of its members along (`Attached`), those its stages
committed under none with them; a rebuild works through groups of what it clustered. A merge may delete a journey because it moves whoever names it, a rebuild
because it looks for them in the same transaction.

`PullProofs` proves, for any names, contents, sizes, first card, limits, queue depth and
mix of faults (`ContentsAssumption`, `SizeAssumption`, `NumbersAssumption`,
`CardsAssumption`), with the invariant `Kept`,

* `EraseTheorem`: `Spec => EraseOnlySaved`;
* `OutcomeTheorem`: `Spec => OutcomeIsHonest`;
* `BoundsTheorem`: `Spec => []StaysInBounds`.

The eraser compares the card with the listing and not with the library, so what it relies
on has to be carried from the listing to the disk, through a stream, a queue, a rename and
a sync, while the recorder may replace the file at any step. What makes that possible is
`Distinct`: a recording that leaves its slot never comes back to it, because what the
recorder writes is new, and a file that is stranded moves to a name under which nobody
listed it. From the moment the card differs from what was listed it always will, and so
each place may say "as listed, or no longer on the card": `Arrivals` of what is staged and
due, `Filed` of what was renamed and then synced, `Promised` of what the window's
narrowing counts on. The other parts say who is at work when (`Hands`, `Cleaner`,
`Staged`, `Shown`), and `Visits` what a pass costs: a run in flight was paid for in the
visit it belongs to, or is one of those begun for deferred clips, which is what survives a
visit that is forgotten under a running pull.

`ObdProofs` proves, for any drives and bundles (`BundlesAssumption`) and any mix of
exports, damage, faults, requests and restarts, whatever `Apart` says,

* `ImportTheorem`: `Spec => [](TypeOK /\ ImportedOnce)`;
* `TrustTheorem`: `Spec => TrustStays`, a trusted row keeps its trust and its hash.

A visit, a validation and a rebuild may register one drive at the same time, and each
reads the rows in one transaction and writes in another. `StillTrue` says that what was
read in trust still holds when it is used, so a bundle that was found is not counted
again; what was read untrusted loses the insert to whoever committed first
(`UniqueFails`). Both rest on `RowsKeep`, which every step that writes a row is shown to
satisfy: trust is never taken back, and an import is counted exactly as trust is given.
The remaining part of `KeptAndImportedOnce`, `NoDriveLost`, is no theorem: it is false
where visits and rebuilds overlap freely (*Disagreements*).

It also proves, about what the unit recorded itself, for any ring, store and attempts of
the event mirror, any reports and cards of the movement report, any levels, policies and
commands of the unit's log, and any mix of faults (`UnitAssumption`),

* `RecordsTheorem`: `UnitSpec => []RecordsAreTrue`.

Each service has an invariant of its own, in the behaviours that pick it. `EventsInv`: the
gaps that were counted, and the one a mirror that has just stored will count, are together
at most the numbers that are missing below the newest stored one, and exactly these unless a
mirror was cut short (`EventsCounted`). What is missing is neither in the ring nor in a
snapshot any more, so that it cannot be stored later, and a snapshot about to be stored
reaches at least as far as the rows. `MovementInv`: every document in hand, in memory or on
disk passed the validation (`Credible`, `Saved`), the clips that were matched belong to the
document that is shown and to a verified card (`Matches`), and a process that has observed
something itself does not hold a restored copy. `LogsInv`: at any moment, also between the
commands that write the receipt and set the level, the receipt says what the level was
before this program changed it (`Explained`), and a command that was given up on may still
run to its end: until it locks it goes by the receipt it was made for (`CommandFits`), and
one command at a time holds the lock (`LockHeld`). Every line is in the capture's file or
imported, and before that file is deleted the capture was stopped and its lines imported
(`LinesHeld`, `CaptureKept`). `UnitAssumption` says that others never choose the very level
this program sets: nobody could tell the two apart.

`StageProofs` proves, for any recordings, workers, presets and mix of faults,

* `PicturesTheorem`: `Spec => []PicturesExist`;
* `ResultsTheorem`: the types, `NothingLeftBehind`, `NoEcho` and `ValidatedAsRead`.

Files change before or after the rows that name them, never with them, and a run may end
in between; so the invariant says, for each step of a stage, what has changed already.
`Previewed`: until the observations have committed the new previews lie beside the old
ones, and afterwards no row names what is about to go. `Cropped`: crops are ahead of the
tracks between the two writes, when the detection is marked running and not done.
`Validated` keeps the settings a plate pass has read between the key it took first and the
settings in force: they only move on until some come back, so a stamp that is in force
leaves room for no others. `Marked` ties the marks to the
run: what an ordinary job found failed or running is still selected or in hand, and that
is nothing by the time of `summarise`. `Given` bounds stamps by those handed out, which is
what makes a new directory new; `Lent` says that a copied position names another
recording's reading.

The remaining part of `ResultsAgree`, `Coherent`, is no theorem. That a later stage was
built on the rows of an earlier one takes the job to be worked on until it succeeds;
beyond single faults TLC has checked it on one analysed recording under mixes of up to
seven faults without a cancellation.

`ParkedProofs` proves, for any clips no longer than the guard, any budgets and any mix of
disturbances (`ClipsAssumption`, `LimitsAssumption`),

* `AccountTheorem`: `Spec => []AccountedAndBounded`;
* `LeftBehindTheorem`: `Spec => LeftBehindIsQuiet`.

A clip is left on the camera on the word of a policy that was fetched earlier, about bytes
that may have been rewritten since. What carries the theorem is `Truthful`: what a policy
takes for quiet was quiet, in bytes that were never rewritten before the policy saw them;
it holds of the policy on the unit and of each copy the pull keeps, whatever the clock and
the camera do. `Picked` says that the clips a pass settles are listed, told of and, by the
recheck, on record; `Apart` and `Covered` that the verdicts of the last pass neither
overlap nor miss a clip; `Budgeted` that checks in hand and checks spent stay together
under the limit; `Bounded` that while the pull waits the clock is within the budget of the
OFF edge it began with, although the edge may move under it. All are predicates of the
pull, the clock, the edge and the record, so that a step is judged by what it leaves.

`ServerProofs` proves, for the services of the server process,

* `SharedTheorem`: `Spec => []SharedAsAgreed`, for any viewers, clips and limit of the
  playback cache, any tasks and attempts on the media stack, any threads and models on
  the GPU (`PlayAssumption`, `MediaAssumption`, `GpuAssumption`);
* `StoredTheorem`: `Spec => []StoredIsKept`, for any writers of the settings that `Def`
  describes (`SettingsAssumption`) and any processes, schema revision and number of
  attempts of the database (`DatabaseAssumption`);
* `SignInTheorem`: `Spec => []SignInIsCurrent`, for any requests, sessions, passwords and
  any time for which an answer is remembered (`AuthAssumption`);
* `RememberedTheorem`: `Spec => []AcceptedIsRemembered`, for any recordings, intervals,
  delays and limits of the scheduler (`SchedulerAssumption`) and any log lines, capacity,
  batch size and number of windows (`LogAssumption`).

Each service keeps its invariant whether it is the one that runs or rests, so the
invariants are conjoined and no part of them speaks of `which`. `PlayInv`: who writes a
file holds its lock and the file is not in the cache yet. `SweepInv`, for the bound: what is
cached and a sweep did not list has come since (`Listed`), or is its own; what a sweep has
still to unlink keeps step with what it listed; and what came since two listings is ordered
as the listings are (`Chained`), so that a sweep carried through may answer for what others
that were cut short have left. `MediaInv`: what is on the chip holds the
slot, beside a wedged child it makes the gate unhealthy, and a probe's answer is as new as
its question; a cancelled inference is nobody's any more; a task whose turn has not come is untouched by the others because they move
the slot only as its holder (`GateMoves`). `GpuInv`: the counters of the lane count the
threads at its steps, which is why a lane found free is free; what is taken for a recorded
failure is on disk, being written, or lost to an accident. `SettingsInv`: while a writer
holds the lock the rows are those in memory with its values laid over them, and every value
in memory is one its coercer leaves alone. `DatabaseInv`: what the next step of a boot
overwrites is among the copies, nobody else is up while a restore is applied, and an upload
that was given up cannot come to be published. `AuthInv`: an answer in the cache lapsed no
earlier than the lookup began that it comes from, the grounds on which a request is accepted
survive until it is, and a lookup that others wait for belongs to a request still at work
on it. `Standing`: what is remembered, or was read and will be, stands, unless a revocation
overtook it or the process has not followed the one that ended it (`Excused`).
`SchedulerInv`: there is one walk at a time; a walk that was not told of a request
sees every file there is, and one that was told leaves the request standing; a batch of
recordings is in hand only while the loop cleans, and otherwise whoever is pending has a
deadline. `LogsInv`: each occurrence of a log line is in exactly one of six places, the
queue, a window, the batch of the writer, the batch of the last flush, the table or among
the lost (`Split`), so that a step only has to say what it moves; and once the last flush
has swept, what is older than it is in no window (`Drained`). Uploads are the three of
`Uploads`, one in a behaviour.

Some definitions were written so that they can be reasoned about: the arms of every `CASE`
are disjoint, because TLA+ gives them no order, and `Library` orders files by `CHOOSE`
over functions, because `SortSeq` is opaque to the prover; for the same reason `PlaybackCache` moves
files by their place in the order, and `LogSink` queues several records at once and
describes a sweep by the orders it may have, without a fold.

**Only model-checked.** The liveness properties (`QueueComesToRest`, `NotStranded` as it
is used there, `EverythingReturned`, `RunEnds`, `DrivesGetThrough`, `JobsEnd`,
`IndexFollowsShare`, `Settled`, `Converges`, `NobodyWaitsForever`, `NothingHeldForever`):
they rest on fairness and ENABLED, which are beyond the prover. `CancelStands`,
`NotStranded`, `ThumbnailNeverLast` and `Coherent` hold within the budgets of their runs
and not for every value of the constants (Section 3), so they are no theorems. `TimeIsNotOverdrawn`
is about clocks on both sides of a hold, a pause and a countdown, and is left to TLC.

## 5. Not modelled

* Image processing, OCR, tracking and object detection (`ai`, `osd`, `media` apart from the
  cache): numerical; the stages see an outcome.
* Parsing of bundles, manifests and file names: functions of one file without state; a
  file passes or it does not.
* Health, diagnostics and progress figures: presentation.
* HTTP routes that only read, and the web frontend.
* The recording side of the Android logger (adapter, sensors, its database): a program of
  its own; what it exchanges with the server is modelled with its side of the exchange.
* Rate limits and cryptography of the sign-in; row maintenance (`db/maintenance.py`);
  pruning of snapshots; the resizing of the pool; the duration repair of a stage.
* The database engine, which appears as the atomicity of a step.

## 6. Running

    tlc -workers 2 -config QueueSafety.cfg MCProcessingQueue.tla
    tlc -workers 2 -config Server.cfg MCServer.tla
    tlapm QueueProofs.tla
    tlapm RadioProofs.tla
    tlapm LibraryProofs.tla
    tlapm PullProofs.tla
    tlapm ObdProofs.tla
    tlapm StageProofs.tla
    tlapm ParkedProofs.tla
    tlapm ServerProofs.tla

`PROJECT.json` pairs each run's configuration with its module, maps every definition to the
lines it models, and names for every property a mutation of the model that breaks it. The
mutated forms (`..._NoFence`, `..._Blind`, ...) stand before the definitions they vary and
are used by no specification.
