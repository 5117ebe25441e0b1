-------------------------- MODULE ProcessingQueue --------------------------
(***************************************************************************)
(* The durable processing queue of the backend, the worker pool that       *)
(* drains it and the full reset that rebuilds it                           *)
(* (backend/app/workers/queue.py, worker.py, reset.py).                    *)
(*                                                                         *)
(* Each recording has a sequence of job rows, oldest first: a job is       *)
(* <<r, i>>, row i of recording r. Row ids are compared by the code only   *)
(* within one recording, so the position in the sequence is all of an id   *)
(* that matters. Recordings are numbered by the time the camera started    *)
(* them, which is how claim_next orders jobs of equal priority.            *)
(*                                                                         *)
(* jobs and recs are database tables and survive a crash; runs (the pool's *)
(* _active, _work and _runs) and reset are memory of one process.          *)
(* A database transaction is one step. spent counts what the user and the  *)
(* faults did; Budgets bounds it.                                          *)
(***************************************************************************)
EXTENDS Integers, Sequences, FiniteSets

CONSTANTS
  Recordings,     \* recording numbers, in order of started_at
  MaxJobs,        \* rows a recording's history may reach (bound of the model)
  MaxAttempts,    \* processing.retry_max_attempts + 1
  MaxContention,  \* MAX_CONTENTION_RETRIES
  PoolSize,       \* processing.max_workers
  Budgets         \* alternative bounds on how often each event of Events happens

\* What happens to the system from outside: requests of the user, a change of
\* the damaged-footage policy, and faults. "silence" is a live run whose
\* heartbeats stopped landing, "lost" an outcome that could not be written,
\* "raise" an exception outside every stage, "linger" a run that outlives the
\* abort grace period.
Events == {"force", "cancel", "retry", "reset", "pause", "policy",
           "crash", "silence", "lost", "raise", "linger", "shutdown"}

ASSUME RecordingsAssumption == Recordings \subseteq Nat
ASSUME BoundsAssumption ==
  /\ MaxJobs \in Nat /\ MaxAttempts \in Nat \ {0} /\ MaxContention \in Nat
  /\ PoolSize \in Nat
  /\ Budgets \subseteq [Events -> Nat]

VARIABLES
  jobs,    \* recording -> its rows of processing_jobs
  recs,    \* recording -> its row of recordings
  runs,    \* the runs in flight, registered in the pool
  reset,   \* how far a full reset has come: it holds the barrier unless "idle"
  up,      \* the process is serving
  paused,  \* the durable pause flag
  spent     \* how often each event happened

vars == <<jobs, recs, runs, reset, up, paused, spent>>

JobKind == {"thumbnail", "process", "reprocess"}
JobState == {"queued", "running", "completed", "failed", "cancelled"}
Priority == {0, 50, 100, 200}
Job == [kind: JobKind, priority: Priority, state: JobState,
        attempts: Nat, refunds: Nat, waiting: BOOLEAN]

RecordingState == {"discovered", "queued", "processing", "completed",
                   "failed", "invalid", "deleted"}
\* missing is file_missing, analysed a processed_at, and reviewed the marker of
\* a hide that was reconsidered once.
Recording == [state: RecordingState, ignored: BOOLEAN, missing: BOOLEAN,
              analysed: BOOLEAN, reviewed: BOOLEAN]

\* How the work of a run ended: "ok", an ordinary failure, a locked database
\* (transient), or a permanent verdict about the source.
Outcome == {"ok", "error", "locked", "invalid"}
\* A run starts (hardware discovery), works, has ended and waits to record its
\* outcome, or was told to stop and has not left yet.
Phase == {"starting", "working", "ended", "stopping"}
Run == [rec: Recordings, job: Nat, phase: Phase, outcome: Outcome]

\* Every variable keeps its type; an attempt counter is never negative.
TypeOK ==
  /\ jobs \in [Recordings -> Seq(Job)]
  /\ recs \in [Recordings -> Recording]
  /\ runs \subseteq Run
  /\ \A x \in runs : x.job \in DOMAIN jobs[x.rec]
  /\ reset \in {"idle", "cleared", "aborting"}
  /\ up \in BOOLEAN
  /\ paused \in BOOLEAN
  /\ spent \in [Events -> Nat]

\* An event may happen while one of the budgets still covers all that happened.
Can(event) ==
  \E budget \in Budgets :
    \A e \in Events : spent[e] + (IF e = event THEN 1 ELSE 0) <= budget[e]
Spend(event) == spent' = [spent EXCEPT ![event] = @ + 1]

-----------------------------------------------------------------------------
(* The rows of one recording.                                              *)

LiveStates == {"queued", "running"}
Live(rows) == {i \in DOMAIN rows : rows[i].state \in LiveStates}
HasRunning(rows) == \E i \in DOMAIN rows : rows[i].state = "running"

\* The most recent row is a cancelled one (release_stranded_recordings).
CancelledLast(rows) ==
  /\ rows # <<>>
  /\ rows[Len(rows)].state = "cancelled"

NewJob(kind, priority) ==
  [kind |-> kind, priority |-> priority, state |-> "queued",
   attempts |-> 0, refunds |-> 0, waiting |-> FALSE]

WithState(job, state) == [job EXCEPT !.state = state]

\* Rows whose state is in from move to CANCELLED.
CancelRows(rows, from) ==
  [i \in DOMAIN rows |->
     IF rows[i].state \in from THEN WithState(rows[i], "cancelled") ELSE rows[i]]

\* enqueue without force: a live job swallows the request.
enqueue(rows, kind, priority) ==
  IF Live(rows) # {} THEN rows ELSE Append(rows, NewJob(kind, priority))

\* enqueue with force: queued and failed rows are superseded, a running one is
\* left alone.
enqueue_force(rows, kind, priority) ==
  Append(CancelRows(rows, {"queued", "failed"}), NewJob(kind, priority))

\* What enqueue does to the recording once it has added a row.
MarkQueued(rec) ==
  IF rec.state \in {"processing", "queued"} THEN rec
  ELSE [rec EXCEPT !.state = "queued"]

AnalysisKind(rec) == IF rec.analysed THEN "reprocess" ELSE "process"

complete(rows, i) == [rows EXCEPT ![i] = WithState(@, "completed")]

\* Mutant: the counter is not kept from going below zero.
Refund_NoFloor(attempts) == attempts - 1

\* A refunded attempt never makes the counter negative.
Refund(attempts) == IF attempts > 0 THEN attempts - 1 ELSE 0

\* Contention costs a refund and no attempt; another failure keeps the attempt.
RetryFree(job) ==
  [job EXCEPT !.state = "queued", !.waiting = TRUE,
              !.attempts = Refund(@), !.refunds = @ + 1]
RetryLater(job) == [job EXCEPT !.state = "queued", !.waiting = TRUE]

\* Mutant: one attempt too many.
FailedJob_OneMore(job, outcome) ==
  CASE outcome = "invalid" -> WithState(job, "failed")
    [] outcome = "locked" /\ job.refunds < MaxContention -> RetryFree(job)
    [] OTHER -> IF job.attempts <= MaxAttempts THEN RetryLater(job)
                                               ELSE WithState(job, "failed")

FailedJob(job, outcome) ==
  CASE outcome = "invalid" -> WithState(job, "failed")
    [] outcome = "locked" /\ job.refunds < MaxContention -> RetryFree(job)
    [] OTHER -> IF job.attempts < MaxAttempts THEN RetryLater(job)
                                              ELSE WithState(job, "failed")

fail(rows, i, outcome) == [rows EXCEPT ![i] = FailedJob(@, outcome)]

\* The row of a finished job after _finish has written its outcome.
Recorded(rows, i, outcome) ==
  IF outcome = "ok" THEN complete(rows, i) ELSE fail(rows, i, outcome)

\* Mutant: a thumbnail that could not be made hands nothing on.
HandsOn_CompletedOnly(rows, i, rec) ==
  /\ rows[i].kind = "thumbnail"
  /\ rows[i].state = "completed"
  /\ ~ rec.ignored

\* A thumbnail job that has just reached a terminal state hands its recording
\* on to analysis, unless the recording is hidden.
HandsOn(rows, i, rec) ==
  /\ rows[i].kind = "thumbnail"
  /\ rows[i].state \in {"completed", "failed"}
  /\ ~ rec.ignored

_follow_up_after_thumbnail(rows, i, rec) ==
  IF HandsOn(rows, i, rec) THEN enqueue(rows, AnalysisKind(rec), 200) ELSE rows

\* A row waiting again after its run was interrupted, the attempt refunded.
Interrupted(job) ==
  IF job.state = "running"
  THEN [job EXCEPT !.state = "queued", !.waiting = FALSE, !.attempts = Refund(@)]
  ELSE job

\* A row put back by the user: a clean slate.
Retried(job) ==
  [job EXCEPT !.state = "queued", !.attempts = 0, !.refunds = 0, !.waiting = FALSE]

\* The newest failed row, if any.
NewestFailed(rows) ==
  {i \in DOMAIN rows :
     /\ rows[i].state = "failed"
     /\ \A k \in DOMAIN rows : rows[k].state = "failed" => k <= i}

\* Mutant: released under a live job.
release_stranded_Live(rec, rows) ==
  IF rec.state \in {"processing", "queued"} /\ ~ CancelledLast(rows)
  THEN [rec EXCEPT !.state = "discovered"] ELSE rec

\* A recording that claims to be waiting although nothing will work on it and
\* nobody cancelled it goes back to the scanner.
release_stranded(rec, rows) ==
  IF /\ rec.state \in {"processing", "queued"}
     /\ Live(rows) = {}
     /\ ~ CancelledLast(rows)
  THEN [rec EXCEPT !.state = "discovered"] ELSE rec

\* The recording comes back with the job that was taken from a worker.
Requeued(rec) ==
  IF rec.state = "processing" THEN [rec EXCEPT !.state = "queued"] ELSE rec

-----------------------------------------------------------------------------
\* Footage the scanner has settled: new, or analysed some time ago.
Scanned(state, analysed) ==
  [state |-> state, ignored |-> FALSE, missing |-> FALSE,
   analysed |-> analysed, reviewed |-> FALSE]

Init ==
  /\ jobs = [r \in Recordings |-> <<>>]
  /\ recs \in [Recordings -> {Scanned("discovered", FALSE), Scanned("completed", TRUE)}]
  /\ runs = {}
  /\ reset = "idle"
  /\ up = TRUE
  /\ paused = FALSE
  /\ spent = [e \in Events |-> 0]

-----------------------------------------------------------------------------
(* The worker pool.                                                        *)

Ready(job) == [job EXCEPT !.waiting = FALSE]

\* A retry's backoff has elapsed (not_before is in the past).
BackoffElapsed(r, i) ==
  /\ i \in DOMAIN jobs[r]
  /\ jobs[r][i].state = "queued"
  /\ jobs[r][i].waiting
  /\ jobs' = [jobs EXCEPT ![r][i] = Ready(@)]
  /\ UNCHANGED <<recs, runs, reset, up, paused, spent>>

\* Mutants: a row left RUNNING does not hold its recording; a run still in
\* flight does not.
Runnable_RunningIgnored(r, i) ==
  /\ i \in DOMAIN jobs[r]
  /\ jobs[r][i].state = "queued" /\ ~ jobs[r][i].waiting
  /\ \A x \in runs : x.rec # r
  /\ ~ recs[r].ignored
Runnable_ActiveIgnored(r, i) ==
  /\ i \in DOMAIN jobs[r]
  /\ jobs[r][i].state = "queued" /\ ~ jobs[r][i].waiting
  /\ ~ HasRunning(jobs[r])
  /\ ~ recs[r].ignored

Runnable(r, i) ==
  /\ i \in DOMAIN jobs[r]
  /\ jobs[r][i].state = "queued"
  /\ ~ jobs[r][i].waiting
  /\ ~ HasRunning(jobs[r])
  /\ \A x \in runs : x.rec # r
  /\ ~ recs[r].ignored

ClaimedJob(job) == [job EXCEPT !.state = "running", !.attempts = @ + 1]

\* Priority, then the footage's age, then the row's.
ClaimedBefore(r, i, q, k) ==
  LET p == jobs[r][i].priority
      o == jobs[q][k].priority
  IN p < o \/ (p = o /\ (r < q \/ (r = q /\ i <= k)))

\* _worker: the claim and the registration of the run, under the barrier.
claim_next(r, i) ==
  /\ up /\ ~ paused
  /\ reset = "idle"
  /\ Cardinality(runs) < PoolSize
  /\ Runnable(r, i)
  /\ \A q \in Recordings : \A k \in DOMAIN jobs[q] :
       Runnable(q, k) => ClaimedBefore(r, i, q, k)
  /\ jobs' = [jobs EXCEPT ![r][i] = ClaimedJob(@)]
  /\ runs' = runs \cup
       {[rec |-> r, job |-> i, phase |-> "starting", outcome |-> "ok"]}
  /\ UNCHANGED <<recs, reset, up, paused, spent>>

Advance(x, phase, outcome) ==
  runs' = (runs \ {x}) \cup {[x EXCEPT !.phase = phase, !.outcome = outcome]}
Leave(x) == runs' = runs \ {x}

IsThumbnail(x) == jobs[x.rec][x.job].kind = "thumbnail"

\* Hardware discovery is over. An analysis commits recording.state =
\* PROCESSING before its first stage; a thumbnail leaves the recording alone.
StartWork(x) ==
  /\ x.phase = "starting"
  /\ recs' = IF IsThumbnail(x) THEN recs
             ELSE [recs EXCEPT ![x.rec].state = "processing"]
  /\ Advance(x, "working", x.outcome)
  /\ UNCHANGED <<jobs, reset, up, paused, spent>>

\* What run_stages leaves on the recording.
StagesRan(rec, outcome) ==
  CASE outcome = "ok" -> [rec EXCEPT !.state = "completed", !.analysed = TRUE]
    [] outcome = "invalid" -> [rec EXCEPT !.state = "invalid"]
    [] OTHER -> [rec EXCEPT !.state = "failed"]

\* The damaged-footage policy: damaged footage is hidden, or deleted and hidden.
\* "keep" stands for healthy footage too; a run starts on visible footage and has
\* nothing to restore.
apply_damaged_policy(rec, action) ==
  CASE action = "keep" -> rec
    [] action = "hide" -> [rec EXCEPT !.ignored = TRUE]
    [] action = "delete" ->
         [rec EXCEPT !.ignored = TRUE, !.missing = TRUE, !.state = "deleted"]

\* The thumbnail is made; its recording still waits for the analysis.
_make_thumbnail(x, outcome) ==
  /\ x.phase = "working" /\ IsThumbnail(x)
  /\ Advance(x, "ended", outcome)
  /\ UNCHANGED <<jobs, recs, reset, up, paused, spent>>

\* The stages have run, and the run has committed what it did to the recording.
_process(x, outcome, action) ==
  /\ x.phase = "working" /\ ~ IsThumbnail(x)
  /\ IF action = "keep" THEN UNCHANGED spent ELSE Can("policy") /\ Spend("policy")
  /\ recs' = [recs EXCEPT ![x.rec] =
                apply_damaged_policy(StagesRan(@, outcome), action)]
  /\ Advance(x, "ended", outcome)
  /\ UNCHANGED <<jobs, reset, up, paused>>

\* An exception escapes the run outside every stage: while it starts, or after
\* the last stage, when the commit of a failed stage is lost (the recording
\* stays PROCESSING) or follows the commit of a complete analysis.
Raise(x, outcome, analysed) ==
  /\ x.phase \in {"starting", "working"}
  /\ analysed => x.phase = "working" /\ ~ IsThumbnail(x)
  /\ Can("raise") /\ Spend("raise")
  /\ recs' = IF analysed
             THEN [recs EXCEPT ![x.rec].state = "completed", ![x.rec].analysed = TRUE]
             ELSE recs
  /\ Advance(x, "ended", outcome)
  /\ UNCHANGED <<jobs, reset, up, paused>>

\* Mutant: the outcome is written without re-reading the row.
_finish_Blind(x) ==
  /\ x.phase = "ended"
  /\ reset = "idle"
  /\ jobs' = [jobs EXCEPT ![x.rec] = Recorded(@, x.job, x.outcome)]
  /\ Leave(x)
  /\ UNCHANGED <<recs, reset, up, paused, spent>>

\* _finish, under the barrier: re-read the row, decline when it is cancelled,
\* else record the outcome and the follow-up in one transaction.
_finish(x) ==
  /\ x.phase = "ended"
  /\ reset = "idle"
  /\ LET r == x.rec
         rows == Recorded(jobs[r], x.job, x.outcome)
         after == _follow_up_after_thumbnail(rows, x.job, recs[r])
     IN IF jobs[r][x.job].state = "cancelled"
        THEN UNCHANGED <<jobs, recs>>
        ELSE /\ Len(after) <= MaxJobs
             /\ jobs' = [jobs EXCEPT ![r] = after]
             /\ recs' = IF Len(after) > Len(rows)
                        THEN [recs EXCEPT ![r] = MarkQueued(@)] ELSE recs
  /\ Leave(x)
  /\ UNCHANGED <<reset, up, paused, spent>>

\* Every attempt to write the outcome failed: the run leaves its row RUNNING.
OutcomeLost(x) ==
  /\ x.phase = "ended"
  /\ reset = "idle"
  /\ Can("lost") /\ Spend("lost")
  /\ Leave(x)
  /\ UNCHANGED <<jobs, recs, reset, up, paused>>

\* The heartbeat reads CANCELLED and cancels the work.
_heartbeat(x) ==
  /\ x.phase \in {"starting", "working"}
  /\ jobs[x.rec][x.job].state = "cancelled"
  /\ Advance(x, "stopping", x.outcome)
  /\ UNCHANGED <<jobs, recs, reset, up, paused, spent>>

\* A run told to stop reaches an await and leaves without an outcome.
Stopped(x) ==
  /\ x.phase = "stopping"
  /\ Leave(x)
  /\ UNCHANGED <<jobs, recs, reset, up, paused, spent>>

-----------------------------------------------------------------------------
(* The user.                                                               *)

\* The bulk repairs pick failed or analysed footage that is visible and there.
BulkCandidate(rec) ==
  /\ ~ rec.ignored /\ ~ rec.missing /\ rec.state # "invalid"
  /\ rec.state = "failed" \/ rec.analysed

\* reprocess_recording (priority 50, like reprocess_journey) and the targeted
\* bulk repairs (priority 200).
Reprocess(r, priority) ==
  /\ up /\ Can("force") /\ Spend("force")
  /\ priority = 200 => BulkCandidate(recs[r])
  /\ Len(jobs[r]) < MaxJobs
  /\ jobs' = [jobs EXCEPT ![r] = enqueue_force(@, "reprocess", priority)]
  /\ recs' = [recs EXCEPT ![r] = MarkQueued(@)]
  /\ UNCHANGED <<runs, reset, up, paused>>

\* The recording is settled with its last live job.
CancelledRec(rec, others) ==
  IF others = {} /\ rec.state \in {"queued", "processing"}
  THEN [rec EXCEPT !.state = "failed"] ELSE rec

cancel(r, i) ==
  /\ up /\ Can("cancel") /\ Spend("cancel")
  /\ i \in Live(jobs[r])
  /\ jobs' = [jobs EXCEPT ![r][i] = WithState(@, "cancelled")]
  /\ recs' = [recs EXCEPT ![r] = CancelledRec(@, Live(jobs[r]) \ {i})]
  /\ UNCHANGED <<runs, reset, up, paused>>

Retryable(r) == ~ recs[r].ignored /\ Live(jobs[r]) = {}

\* The newest failed row of every visible recording that holds no live job.
retry_failed ==
  /\ up /\ Can("retry") /\ Spend("retry")
  /\ \E r \in Recordings : Retryable(r) /\ NewestFailed(jobs[r]) # {}
  /\ jobs' = [r \in Recordings |->
       IF Retryable(r)
       THEN [i \in DOMAIN jobs[r] |->
               IF i \in NewestFailed(jobs[r]) THEN Retried(jobs[r][i]) ELSE jobs[r][i]]
       ELSE jobs[r]]
  /\ UNCHANGED <<recs, runs, reset, up, paused>>

\* One job, whatever its state.
retry_job(r, i) ==
  /\ up /\ Can("retry") /\ Spend("retry")
  /\ i \in DOMAIN jobs[r]
  /\ ~ recs[r].ignored
  /\ Live(jobs[r]) \subseteq {i}
  /\ jobs' = [jobs EXCEPT ![r][i] = Retried(@)]
  /\ UNCHANGED <<recs, runs, reset, up, paused>>

pause ==
  /\ up /\ ~ paused /\ Can("pause") /\ Spend("pause")
  /\ paused' = TRUE
  /\ UNCHANGED <<jobs, recs, runs, reset, up>>

resume ==
  /\ up /\ paused
  /\ paused' = FALSE
  /\ UNCHANGED <<jobs, recs, runs, reset, up, spent>>

\* After a scan the policy hides or deletes footage known to be damaged (invalid,
\* or probed and found unusable), or shows again what it hid.
apply_known_damaged_policy(r, action) ==
  /\ up /\ Can("policy") /\ Spend("policy")
  /\ ~ recs[r].missing
  /\ CASE action = "keep" -> recs[r].ignored
       [] OTHER -> /\ recs[r].analysed \/ recs[r].state \in {"invalid", "failed"}
                   /\ action = "hide" => ~ recs[r].ignored
  /\ recs' = [recs EXCEPT ![r] = IF action = "keep" THEN [@ EXCEPT !.ignored = FALSE]
                                 ELSE apply_damaged_policy(@, action)]
  /\ UNCHANGED <<jobs, runs, reset, up, paused>>

-----------------------------------------------------------------------------
(* The scheduler.                                                          *)

\* A reprocess job of a recording that was never analysed is new footage.
Promote(job, rec) ==
  IF /\ job.state = "queued" /\ job.kind = "reprocess" /\ job.priority > 100
     /\ ~ rec.analysed /\ ~ rec.ignored /\ ~ rec.missing
  THEN [job EXCEPT !.kind = "process", !.priority = 100] ELSE job

Unprocessed(r) ==
  /\ ~ recs[r].ignored /\ ~ recs[r].missing
  /\ recs[r].state = "discovered"
  /\ Live(jobs[r]) = {}

queue_unprocessed ==
  /\ up
  /\ LET promoted(r) == [i \in DOMAIN jobs[r] |-> Promote(jobs[r][i], recs[r])] IN
     /\ \A r \in Recordings : Unprocessed(r) => Len(jobs[r]) < MaxJobs
     /\ jobs' = [r \in Recordings |->
          IF Unprocessed(r) THEN Append(promoted(r), NewJob("process", 100))
                            ELSE promoted(r)]
     /\ recs' = [r \in Recordings |->
          IF Unprocessed(r) THEN [recs[r] EXCEPT !.state = "queued"] ELSE recs[r]]
  /\ jobs' # jobs
  /\ UNCHANGED <<runs, reset, up, paused, spent>>

\* Running rows of r that no run stands behind any more.
Orphaned(r) ==
  {i \in DOMAIN jobs[r] :
     jobs[r][i].state = "running" /\ \A x \in runs : ~ (x.rec = r /\ x.job = i)}

\* reclaim_stale over the rows of stale: no attempt is refunded.
Reclaimed(r, stale) ==
  [i \in DOMAIN jobs[r] |->
     IF <<r, i>> \in stale THEN WithState(jobs[r][i], "queued") ELSE jobs[r][i]]

\* _run_reclaim: reclaim_stale and release_stranded_recordings, one transaction.
_run_reclaim(stale) ==
  /\ up
  /\ jobs' = [r \in Recordings |-> Reclaimed(r, stale)]
  /\ recs' = [r \in Recordings |->
       release_stranded(IF \E i \in DOMAIN jobs[r] : <<r, i>> \in stale
                        THEN Requeued(recs[r]) ELSE recs[r],
                        Reclaimed(r, stale))]
  /\ <<jobs', recs'>> # <<jobs, recs>>
  /\ UNCHANGED <<runs, reset, up, paused>>

\* The rows whose last heartbeat is too old have lost their run...
ReclaimOrphans ==
  \E stale \in SUBSET UNION {{<<r, i>> : i \in Orphaned(r)} : r \in Recordings} :
    _run_reclaim(stale) /\ UNCHANGED spent

\* ... or belong to a live run whose heartbeats did not land.
ReclaimSilent ==
  \E x \in runs :
    /\ jobs[x.rec][x.job].state = "running"
    /\ Can("silence") /\ Spend("silence")
    /\ _run_reclaim({<<x.rec, x.job>>})

-----------------------------------------------------------------------------
(* The full reset: clear, abort, rebuild.                                  *)

\* _reset_under_barrier takes the barrier and commits the wipe.
clear ==
  /\ up /\ reset = "idle"
  /\ Can("reset") /\ Spend("reset")
  /\ jobs' = [r \in Recordings |-> CancelRows(jobs[r], {"queued", "running", "failed"})]
  /\ reset' = "cleared"
  /\ UNCHANGED <<recs, runs, up, paused>>

\* Mutant: a run that waits to record its outcome is not told.
abort_active_SkipsEnded ==
  /\ reset = "cleared"
  /\ runs' = {IF x.phase = "ended" THEN x ELSE [x EXCEPT !.phase = "stopping"] : x \in runs}
  /\ reset' = "aborting"
  /\ UNCHANGED <<jobs, recs, up, paused, spent>>

\* abort_active tells every registered run to stop.
abort_active ==
  /\ reset = "cleared"
  /\ runs' = {[x EXCEPT !.phase = "stopping"] : x \in runs}
  /\ reset' = "aborting"
  /\ UNCHANGED <<jobs, recs, up, paused, spent>>

\* A run outlives the grace period: the reset stops where it is.
AbortTimeout ==
  /\ reset = "aborting"
  /\ runs # {}
  /\ Can("linger") /\ Spend("linger")
  /\ reset' = "idle"
  /\ UNCHANGED <<jobs, recs, runs, up, paused>>

Eligible(r) == ~ recs[r].ignored /\ ~ recs[r].missing /\ recs[r].state # "invalid"

\* Mutant: only recordings without a thumbnail are queued again.
RebuiltRows_MissingOnly(r, missing) ==
  IF Eligible(r) /\ r \in missing THEN enqueue(jobs[r], "thumbnail", 0) ELSE jobs[r]

\* One job for every eligible recording, a thumbnail first where there is none.
RebuiltRows(r, missing) ==
  IF ~ Eligible(r) THEN jobs[r]
  ELSE IF r \in missing THEN enqueue(jobs[r], "thumbnail", 0)
  ELSE enqueue(jobs[r], AnalysisKind(recs[r]), 200)

rebuild(missing) ==
  /\ reset = "aborting"
  /\ runs = {}
  /\ \A r \in Recordings : Len(RebuiltRows(r, missing)) <= MaxJobs
  /\ jobs' = [r \in Recordings |-> RebuiltRows(r, missing)]
  /\ recs' = [r \in Recordings |->
       release_stranded(IF Eligible(r) THEN [recs[r] EXCEPT !.state = "queued"]
                                       ELSE recs[r],
                        RebuiltRows(r, missing))]
  /\ reset' = "idle"
  /\ UNCHANGED <<runs, up, paused, spent>>

-----------------------------------------------------------------------------
(* The process.                                                            *)

\* The container dies: every run and an unfinished reset are gone.
Crash ==
  /\ up /\ Can("crash") /\ Spend("crash")
  /\ up' = FALSE
  /\ runs' = {}
  /\ reset' = "idle"
  /\ UNCHANGED <<jobs, recs, paused>>

reclaim_interrupted(rows) == [i \in DOMAIN rows |-> Interrupted(rows[i])]

\* The recording of a job that was interrupted.
InterruptedRec(r) == IF HasRunning(jobs[r]) THEN Requeued(recs[r]) ELSE recs[r]

\* WorkerPool.stop: the runs are cancelled without an outcome and their jobs
\* handed back.
stop ==
  /\ up /\ reset = "idle" /\ Can("shutdown") /\ Spend("shutdown")
  /\ up' = FALSE
  /\ runs' = {}
  /\ jobs' = [r \in Recordings |-> reclaim_interrupted(jobs[r])]
  /\ recs' = [r \in Recordings |-> InterruptedRec(r)]
  /\ UNCHANGED <<reset, paused>>

\* reconcile_media_failure_hides gives a hidden recording back once.
Reviewed(rec) ==
  [rec EXCEPT !.ignored = FALSE, !.reviewed = TRUE, !.state = "queued"]

\* WorkerPool.start: interrupted jobs, stranded recordings, then the hides that
\* deserve a second look.
start(review) ==
  /\ ~ up
  /\ \A r \in review :
       /\ recs[r].ignored /\ ~ recs[r].reviewed /\ ~ recs[r].missing
       /\ Len(jobs[r]) < MaxJobs
  /\ up' = TRUE
  /\ LET rows(r) == reclaim_interrupted(jobs[r])
         rec(r) == release_stranded(InterruptedRec(r), rows(r))
     IN /\ jobs' = [r \in Recordings |->
             IF r \in review
             THEN enqueue(rows(r), AnalysisKind(recs[r]), IF recs[r].analysed THEN 200 ELSE 100)
             ELSE rows(r)]
        /\ recs' = [r \in Recordings |->
             IF r \in review THEN Reviewed(rec(r)) ELSE rec(r)]
  /\ UNCHANGED <<runs, reset, paused, spent>>

-----------------------------------------------------------------------------
RunStep(x) ==
  \/ StartWork(x)
  \/ \E o \in Outcome :
       \/ _make_thumbnail(x, o)
       \/ \E a \in {"keep", "hide", "delete"} : _process(x, o, a)
  \/ \E o \in {"error", "locked"}, a \in BOOLEAN : Raise(x, o, a)
  \/ _finish(x)
  \/ OutcomeLost(x)
  \/ _heartbeat(x)
  \/ Stopped(x)

JobStep(r, i) ==
  \/ BackoffElapsed(r, i)
  \/ claim_next(r, i)
  \/ cancel(r, i)
  \/ retry_job(r, i)

Next ==
  \/ \E x \in runs : RunStep(x)
  \/ \E r \in Recordings : \E i \in DOMAIN jobs[r] : JobStep(r, i)
  \/ \E r \in Recordings :
       \/ \E p \in {50, 200} : Reprocess(r, p)
       \/ \E a \in {"keep", "hide", "delete"} : apply_known_damaged_policy(r, a)
  \/ retry_failed
  \/ pause
  \/ resume
  \/ queue_unprocessed
  \/ ReclaimOrphans
  \/ ReclaimSilent
  \/ clear
  \/ abort_active
  \/ AbortTimeout
  \/ \E missing \in SUBSET Recordings : rebuild(missing)
  \/ Crash
  \/ stop
  \/ \E review \in SUBSET Recordings : start(review)

Spec == Init /\ [][Next]_vars

\* What a run does on its own: stages return, tasks reach an await, outcomes are
\* written. Raising, losing an outcome and lingering are not promised.
RunProgress(x) ==
  \/ StartWork(x)
  \/ \E o \in Outcome : _make_thumbnail(x, o) \/ _process(x, o, "keep")
  \/ _finish(x)
  \/ _heartbeat(x)
  \/ Stopped(x)

\* Time passes, workers poll and finish what they run, the scheduler's scan and
\* reclaim tasks keep firing, a reset request runs on, and a container that
\* died is started again.
Fairness ==
  /\ \A r \in Recordings, i \in 1..MaxJobs :
       /\ WF_vars(BackoffElapsed(r, i))
       /\ WF_vars(\E x \in runs : x.rec = r /\ x.job = i /\ RunProgress(x))
  /\ WF_vars(\E r \in Recordings : \E i \in DOMAIN jobs[r] : claim_next(r, i))
  /\ WF_vars(queue_unprocessed)
  /\ WF_vars(ReclaimOrphans)
  /\ WF_vars(abort_active)
  /\ WF_vars(\E missing \in SUBSET Recordings : rebuild(missing))
  /\ WF_vars(\E review \in SUBSET Recordings : start(review))

FairSpec == Spec /\ Fairness

-----------------------------------------------------------------------------
(* Properties.                                                             *)

\* Two runs never work on one recording at once, whatever was cancelled,
\* reclaimed, retried or reset meanwhile: claim_next keeps the recordings of the
\* pool's active runs excluded until their tasks have left.
OneRunPerRecording ==
  \A x, y \in runs : x.rec = y.rec => x = y

AtMostTwoLive(rows) ==
  /\ \A i, k \in DOMAIN rows :
       rows[i].state = "running" /\ rows[k].state = "running" => i = k
  /\ \A i, k, l \in Live(rows) : i = k \/ k = l \/ i = l

RunOwns(rows, j) ==
  /\ \A i \in DOMAIN rows : rows[i].state = "running" => i = j
  /\ \A i, k \in Live(rows) \ {j} : i = k

\* Forced requests, retries and reclaims never stack work without limit: a
\* recording has at most one RUNNING row, at most two live rows, and while a
\* run is in flight at most one live row besides the run's own, which is queued.
LiveRows ==
  \A r \in Recordings :
    /\ AtMostTwoLive(jobs[r])
    /\ \A x \in runs : x.rec = r => RunOwns(jobs[r], x.job)

\* A job exceeds its attempts only through rows reclaimed without a refund: the
\* free retries of fail and the refunds of a restart never cost or grant one.
AttemptsBounded ==
  \A r \in Recordings : \A i \in DOMAIN jobs[r] :
    /\ jobs[r][i].attempts <= MaxAttempts + spent["lost"] + spent["silence"]
    /\ jobs[r][i].refunds <= MaxContention

\* A reset gave up, or died with its process, and may have done so between the
\* wipe it had committed and its rebuild: what it wiped is then left without a
\* job until the user asks for another reset.
ResetGaveUp == spent["reset"] > 0 /\ spent["linger"] + spent["crash"] > 0

\* A recording shown as queued or processing is owed work: it has a live job, a
\* run still in flight, a reset that is about to requeue it, or
\* release_stranded_recordings will give it back to the scanner. It is said of
\* behaviours in which the user cancels nothing, and not of what a reset that
\* gave up left behind.
NotStranded ==
  \A r \in Recordings :
    recs[r].state \in {"queued", "processing"} /\ ~ ResetGaveUp =>
      \/ Live(jobs[r]) # {}
      \/ \E x \in runs : x.rec = r
      \/ reset # "idle"
      \/ ~ CancelledLast(jobs[r])

\* The thumbnail pass is a phase: a recording whose thumbnail job has finished,
\* with or without a picture, has a later job, unless the recording is hidden.
ThumbnailNeverLast ==
  \A r \in Recordings : \A i \in DOMAIN jobs[r] :
    /\ jobs[r][i].kind = "thumbnail"
    /\ jobs[r][i].state \in {"completed", "failed"}
    => i < Len(jobs[r]) \/ recs[r].ignored

\* Nothing but a retry asked for by the user takes a job out of CANCELLED: no
\* outcome, reclaim, restart or reset resurrects it.
CancelledIsFinal ==
  [][\A r \in Recordings : \A i \in DOMAIN jobs[r] :
       jobs[r][i].state = "cancelled" =>
         jobs'[r][i].state = "cancelled" \/ retry_job(r, i)]_vars

\* What the user cancelled stays stopped: no scan, reclaim or outcome gives a
\* recording whose last job is cancelled, with no run left, a new job.
CancelStands ==
  [][\A r \in Recordings :
       /\ CancelledLast(jobs[r]) /\ Live(jobs[r]) = {}
       /\ \A x \in runs : x.rec # r
       /\ reset = "idle"
       /\ queue_unprocessed \/ ReclaimOrphans \/ ReclaimSilent
       => Live(jobs'[r]) = {}]_vars

\* release_stranded_recordings never takes a recording away from the run that is
\* working on it, unless that run was cancelled.
NoDemotionUnderRun ==
  [][\A r \in Recordings :
       (\E x \in runs \cap runs' :
          x.rec = r /\ x.phase = "working" /\ jobs[r][x.job].state # "cancelled") =>
         ~ (recs[r].state = "processing" /\ recs'[r].state = "discovered")]_vars

\* No work is lost and no job retries for ever: whatever crashed, raised, fell
\* silent or was reset, every visible recording ends with a verdict and no live
\* job, unless a reset gave up after its wipe.
WorkSettles ==
  <>[](\A r \in Recordings :
         \/ recs[r].ignored \/ ResetGaveUp
         \/ /\ recs[r].state \in {"completed", "failed", "invalid"}
            /\ Live(jobs[r]) = {})

\* A reset that has wiped the queue comes to an end, also when a run outlives its
\* grace period or its process dies: the runs it waits for can all leave without
\* the barrier it holds.
ResetCompletes == reset # "idle" ~> reset = "idle"

\* A cancellation holds: neither its job nor its recording comes back by itself.
CancellationHolds == CancelledIsFinal /\ CancelStands

\* Work and resets both come to an end (queue.py's retries and reclaims, the
\* barrier of reset.py).
QueueComesToRest == WorkSettles /\ ResetCompletes
=============================================================================
