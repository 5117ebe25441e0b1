------------------------------ MODULE MCServer ------------------------------
(***************************************************************************)
(* The services of the server process for TLC. They share no state, so the *)
(* run explores them side by side and not in their product: a behaviour    *)
(* picks one service and the others rest in an initial state.              *)
(***************************************************************************)
EXTENDS Integers, FiniteSets, TLC

CONSTANTS
    Requests, Tokens, Passwords, Headers, CACHE_TTL_S, NEGATIVE_TTL_S,
    MISCONFIGURED_RECHECK_S, AdminBound,                          \* Auth
    Keys, Writers, VersionBound,                                  \* SettingsStore
    Boots, Newest, DEFAULT_ATTEMPTS, MaxRows, DbEvents, FewDbEvents,   \* Database
    Recordings, INTERVAL, DEBOUNCE, SETTLING_SCAN_LIMIT, IDLE_QUEUE_LIMIT,
    IDLE_BATCH_SIZE, MaxFiles, SchedEvents, FewSchedEvents,       \* Scheduler
    Lines, Capacity, Batch, MaxKeys, MaxSeen, SinkEvents, FewSinkEvents,   \* LogSink
    Viewers, Clips, Cuts, LIMIT, PlayEvents, FewPlayEvents,             \* PlaybackCache
    Tasks, Kinds, ATTEMPTS, MediaEvents, FewMediaEvents,   \* MediaGate
    Threads, Models, MaxCalls, GpuEvents, FewGpuEvents            \* GpuBackend

\* The accounts are those Names names; what is remembered is remembered for a while.
ASSUME AuthAssumption ==
    /\ 1 \in Passwords /\ Passwords \subseteq 1 .. 2
    /\ CACHE_TTL_S \in Nat \ {0} /\ MISCONFIGURED_RECHECK_S \in Nat

\* Threads are numbered from 1: 0 is a lane nobody has.
ASSUME GpuAssumption == IsFiniteSet(Threads) /\ 0 \notin Threads

\* So are tasks; a decode is tried at least once.
ASSUME MediaAssumption == 0 \notin Tasks /\ ATTEMPTS \in Nat \ {0}

\* And requests for playback; the recordings are finitely many.
ASSUME PlayAssumption == IsFiniteSet(Viewers) /\ IsFiniteSet(Clips) /\ 0 \notin Viewers /\ LIMIT \in Nat

\* The settings are the ones Def describes.
ASSUME SettingsAssumption == Keys = 1 .. 3 /\ 0 \notin Writers

\* Processes are numbered from 1; there is a schema, and a write is tried.
ASSUME DatabaseAssumption == 0 \notin Boots /\ Newest \in Nat \ {0} /\ DEFAULT_ATTEMPTS \in Nat \ {0}

\* The delays and limits of the scheduler, for any IDLE_BATCH_SIZE.
ASSUME SchedulerAssumption ==
    DEBOUNCE \in Nat /\ SETTLING_SCAN_LIMIT \in Nat /\ IDLE_QUEUE_LIMIT \in Nat

\* The limits of the log writer: of a batch and of the lines told apart, one at least.
ASSUME LogAssumption ==
    Capacity \in Nat /\ Batch \in Nat \ {0} /\ MaxKeys \in Nat \ {0} /\ MaxSeen \in Nat

VARIABLES
    which,   \* the service of the behaviour
    credential, rows, issued, expired, required, known, lock, cache, missing, inflight,
    request, admin, changes, lapsed, since, raced,
    table, settings, writer, wlock, follower, waiter,
    db, backups, pending, proc, migrating, upload, write, count, dropped, faults,
    due, loop, scan, ingest, settling, idle, files, accepted, seen,
    queue, window, pump, closing, logs, fate, emitted, upset,
    cached, part, locks, viewer, sweep, unswept, odds,
    gate, task, child, wedged, orphan, engaged, verdict, file, probes, mishaps,
    lane, model, thread, backend, marker, calls, accidents

authVars == <<credential, rows, issued, expired, required, known, lock, cache, missing, inflight,
               request, admin, changes, lapsed, since, raced>>
settingsVars == <<table, settings, writer, wlock, follower, waiter>>
databaseVars == <<db, backups, pending, proc, migrating, upload, write, count, dropped, faults>>
schedulerVars == <<due, loop, scan, ingest, settling, idle, files, accepted, seen>>
logsVars == <<queue, window, pump, closing, logs, fate, emitted, upset>>
playbackVars == <<cached, part, locks, viewer, sweep, unswept, odds>>
mediaVars == <<gate, task, child, wedged, orphan, engaged, verdict, file, probes, mishaps>>
gpuVars == <<lane, model, thread, backend, marker, calls, accidents>>

\* Both accounts have the same user name: only the password tells them apart.
Names == <<1, 1>>

\* A number with limits, a path that cannot be changed, and a switch fixed by
\* the environment; values outside their limits or of the wrong kind (99).
Absent == -1
Def == <<
    [kind |-> "int", min |-> 1, max |-> 2, choices |-> {}, default |-> 1, fixed |-> Absent, read_only |-> FALSE],
    [kind |-> "path", min |-> 0, max |-> 0, choices |-> {2, 3}, default |-> 3, fixed |-> Absent, read_only |-> TRUE],
    [kind |-> "bool", min |-> 0, max |-> 0, choices |-> {}, default |-> 1, fixed |-> 1, read_only |-> FALSE]>>
Stored == {[k \in 1 .. 3 |-> Absent], <<0, 99, 1>>, <<12, 12, 99>>}
Asked == {<<0>>, <<1, 99>>, [k \in {1, 3} |-> IF k = 1 THEN 12 ELSE 0], [k \in {2, 3} |-> IF k = 2 THEN 2 ELSE 1]}
Dropped == {{1}, {1, 2, 3}}

\* An older database, one of a later version, and a damaged one.
Uploads == {[rev |-> 1, rows |-> {}, intact |-> TRUE], [rev |-> 3, rows |-> {}, intact |-> TRUE],
            [rev |-> 2, rows |-> {}, intact |-> FALSE]}

Auth == INSTANCE Auth
SettingsStore == INSTANCE SettingsStore
Database == INSTANCE Database WITH Head <- Newest
Scheduler == INSTANCE Scheduler
LogSink == INSTANCE LogSink
PlaybackCache == INSTANCE PlaybackCache
MediaGate == INSTANCE MediaGate
GpuBackend == INSTANCE GpuBackend

InAuth == which \in {"auth", "basic"}

Services == {"auth", "basic", "settings", "database", "scheduler", "logs", "playback", "media", "gpu"}

Init ==
    /\ which \in Services
    /\ Auth!Init /\ SettingsStore!Init /\ Database!Init /\ Scheduler!Init
    /\ LogSink!Init /\ PlaybackCache!Init /\ MediaGate!Init /\ GpuBackend!Init
    /\ ~InAuth => credential = 0
    /\ which # "auth" => rows = {}
    /\ which # "settings" => table = [k \in Keys |-> Absent]
    /\ which # "database" => db.rev = Newest
    /\ which # "media" => engaged

\* Clients show sessions or headers, never both in one behaviour: the caches
\* of the two are separate.
Offered ==
    /\ which = "basic" => rows' = {}
    /\ \A r \in Requests : request'[r].pc # "idle" =>
         request'[r].shown.kind = (IF which = "auth" THEN "session" ELSE "basic")

Next ==
    /\ which' = which
    /\ IF InAuth THEN Auth!Next /\ Offered ELSE UNCHANGED authVars
    /\ IF which = "settings" THEN SettingsStore!Next ELSE UNCHANGED settingsVars
    /\ IF which = "database" THEN Database!Next ELSE UNCHANGED databaseVars
    /\ IF which = "scheduler" THEN Scheduler!Next ELSE UNCHANGED schedulerVars
    /\ IF which = "logs" THEN LogSink!Next ELSE UNCHANGED logsVars
    /\ IF which = "playback" THEN PlaybackCache!Next ELSE UNCHANGED playbackVars
    /\ IF which = "media" THEN MediaGate!Next ELSE UNCHANGED mediaVars
    /\ IF which = "gpu" THEN GpuBackend!Next ELSE UNCHANGED gpuVars

vars == <<which, authVars, settingsVars, databaseVars, schedulerVars, logsVars,
          playbackVars, mediaVars, gpuVars>>

\* The fairness of each service's Spec, in the behaviours that pick it.  Viewers
\* and tasks share the conditions of strong fairness: a behaviour has only one
\* of the two at work.
Spec ==
    /\ Init /\ [][Next]_vars
    /\ WF_authVars(InAuth /\ Auth!Tick) /\ WF_authVars(InAuth /\ Auth!Follow)
    /\ \A r \in Requests :
         /\ WF_authVars(InAuth /\ Auth!Requesting(r))
         /\ WF_authVars(InAuth /\ \E s \in Auth!Shown : Auth!Arrive(r, s))
    /\ \A p \in Boots : WF_databaseVars(which = "database" /\ Database!Booting(p))
    /\ WF_schedulerVars(which = "scheduler" /\ Scheduler!Looping)
    /\ WF_schedulerVars(which = "scheduler" /\ Scheduler!Tick)
    /\ WF_schedulerVars(which = "scheduler" /\ Scheduler!Walk("manual"))
    /\ WF_schedulerVars(which = "scheduler" /\ Scheduler!_schedule_settling_scan("manual"))
    /\ \A v \in Viewers : WF_playbackVars(which = "playback" /\ PlaybackCache!Working(v))
    /\ \A t \in Tasks :
         /\ WF_mediaVars(which = "media" /\ MediaGate!Working(t))
         /\ WF_mediaVars(which = "media" /\ MediaGate!reap_later(t))
    /\ \A n \in Viewers \cup Tasks :
         SF_<<playbackVars, mediaVars>>(
            \/ n \in Viewers /\ which = "playback" /\ PlaybackCache!Lock(n) /\ UNCHANGED mediaVars
            \/ n \in Tasks /\ which = "media" /\ MediaGate!Acquire(n) /\ UNCHANGED playbackVars)
    /\ \A t \in Threads : WF_gpuVars(which = "gpu" /\ GpuBackend!Working(t))

---------------------------------------------------------------------------
\* A property of a service is stated for the behaviours that pick it; each is
\* explained in the service's module.

\* Sign-in: what the process remembers of a session or header is used no longer
\* than CACHE_TTL_S after it stopped being good, and every shared lookup has a
\* request that ends it (auth/service.py).
SignInIsCurrent ==
    InAuth => Auth!TypeOK /\ Auth!StaleAtMostTTL /\ Auth!RevocationHolds /\ Auth!NoOrphanFlight

\* What is stored is what the process and its followers go by: settings in
\* memory are what a restart would load, nobody sleeps through a change; and no
\* row is lost to a restore, a migration or an upload nobody confirmed
\* (core/settings_service.py, db/backup.py, db/session.py).
StoredIsKept ==
    /\ which = "settings" =>
         /\ SettingsStore!TypeOK /\ SettingsStore!CacheIsTheRows
         /\ SettingsStore!FollowersAgree /\ SettingsStore!NoLostWakeup
    /\ which = "database" =>
         /\ Database!TypeOK /\ Database!NothingLost
         /\ Database!MigratesOneCopy /\ Database!AbandonedNotStaged

\* What was accepted is not forgotten: a scan asked for, a recording to clean up,
\* a log line (workers/scheduler.py, core/logging.py).
AcceptedIsRemembered ==
    /\ which = "scheduler" =>
         Scheduler!TypeOK /\ Scheduler!RequestStandsUnrefused /\ Scheduler!CleanupRemembered
    /\ which = "logs" => LogSink!TypeOK /\ LogSink!Accounted /\ LogSink!NothingLeft

\* What tasks share is used as agreed: one writer of a playback file and a
\* bounded cache; overlaps on the media stack known and every frame handed out
\* once; native inference alone on the GPU, its failure on record
\* (media/playback.py, hardware/ffmpeg.py, ai/openvino_session.py).
SharedAsAgreed ==
    /\ which = "playback" =>
         PlaybackCache!TypeOK /\ PlaybackCache!OneWriter /\ PlaybackCache!Bounded
    /\ which = "media" =>
         /\ MediaGate!TypeOK /\ MediaGate!OverlapIsKnown
         /\ MediaGate!ProbeIsFresh /\ MediaGate!FramesOnce
    /\ which = "gpu" =>
         /\ GpuBackend!TypeOK /\ GpuBackend!NativeLanes
         /\ GpuBackend!FailureOnRecord /\ GpuBackend!MarkerRules

\* WaitersReleased, BootCompletes, FilesIndexed, Answered, SlotReached, CallsEnd
\* of the services, in one formula: a behaviour keeps to its service.
Waits ==
    \/ InAuth /\ request[Auth!ARequest].pc = "wait"
    \/ which = "database" /\ proc[Database!ABoot] = "lock"
    \/ which = "scheduler" /\ Scheduler!Unindexed # {}
    \/ which = "playback" /\ viewer[PlaybackCache!AViewer].pc # "idle"
    \/ which = "media" /\ task[MediaGate!ATask].pc = "acquire"
    \/ which = "gpu" /\ thread[GpuBackend!AThread].pc # "idle"

Helped ==
    \/ InAuth /\ request[Auth!ARequest].pc # "wait"
    \/ which = "database" /\ proc[Database!ABoot] \in {"serve", "off"}
    \/ which = "scheduler" /\ Scheduler!Unindexed = {}
    \/ which = "playback" /\ viewer[PlaybackCache!AViewer].pc = "idle"
    \/ which = "media" /\ task[MediaGate!ATask].pc # "acquire"
    \/ which = "gpu" /\ thread[GpuBackend!AThread].pc = "idle"

\* Nobody waits for ever: for a shared lookup, the account, the migration lock, a
\* scan, a playback file, the media slot, a native lane.
NobodyWaitsForever == (InAuth => Auth!KnowsTheAccount) /\ (Waits ~> Helped)
=============================================================================
