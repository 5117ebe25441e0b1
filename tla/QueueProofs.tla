---------------------------- MODULE QueueProofs -----------------------------
(***************************************************************************)
(* Proofs about ProcessingQueue for every set of recordings, every bound   *)
(* and every budget. The inductive invariant is Ownership: the type        *)
(* invariant, one run per recording, and LiveRows. On it rest the results  *)
(* of the second part: the attempts of a job never pass their ceiling, a   *)
(* cancelled job stays cancelled, and a recording is not given back to the *)
(* scanner under its run.                                                  *)
(***************************************************************************)
EXTENDS ProcessingQueue, SequenceTheorems, TLAPS

Ownership == TypeOK /\ OneRunPerRecording /\ LiveRows

-----------------------------------------------------------------------------
(* One row.                                                                *)

\* A row moved to another state is still a job row (every UPDATE of the state column).
LEMMA WithStateType ==
  ASSUME NEW job \in Job, NEW state \in JobState
  PROVE  WithState(job, state) \in Job /\ WithState(job, state).state = state
BY DEF WithState, Job

\* A row whose backoff is over is still a job row.
LEMMA ReadyType ==
  ASSUME NEW job \in Job
  PROVE  Ready(job) \in Job /\ Ready(job).state = job.state
BY DEF Ready, Job

\* claim_next counts the attempt and marks the row running; it stays a job row.
LEMMA ClaimedType ==
  ASSUME NEW job \in Job
  PROVE  ClaimedJob(job) \in Job /\ ClaimedJob(job).state = "running"
<1>1. job.attempts \in Nat
  BY DEF Job
<1>2. job.attempts + 1 \in Nat
  BY <1>1
<1>3. QED
  BY <1>2 DEF ClaimedJob, Job, JobState

\* retry_failed gives a row its attempts back; it stays a job row.
LEMMA RetriedType ==
  ASSUME NEW job \in Job
  PROVE  Retried(job) \in Job /\ Retried(job).state = "queued"
BY DEF Retried, Job, JobState

\* The paid retry of fail leaves a job row.
LEMMA RetryLaterType ==
  ASSUME NEW job \in Job
  PROVE  RetryLater(job) \in Job /\ RetryLater(job).state = "queued"
BY DEF RetryLater, Job, JobState

\* The refund of an attempt never goes below zero.
LEMMA RefundType ==
  ASSUME NEW n \in Nat
  PROVE  Refund(n) \in Nat
BY DEF Refund

\* The free retry of fail, after a locked database, leaves a job row.
LEMMA RetryFreeType ==
  ASSUME NEW job \in Job
  PROVE  RetryFree(job) \in Job /\ RetryFree(job).state = "queued"
<1>1. job.attempts \in Nat /\ job.refunds \in Nat
  BY DEF Job
<1>2. Refund(job.attempts) \in Nat
  BY <1>1, RefundType
<1>3. job.refunds + 1 \in Nat
  BY <1>1
<1>4. QED
  BY <1>2, <1>3 DEF RetryFree, Job, JobState

\* Whatever fail decides for a row, it stays a job row.
LEMMA FailedType ==
  ASSUME NEW job \in Job, NEW outcome \in Outcome
  PROVE  /\ FailedJob(job, outcome) \in Job
         /\ FailedJob(job, outcome).state \in {"queued", "failed"}
<1>1. WithState(job, "failed") \in Job /\ WithState(job, "failed").state = "failed"
  BY WithStateType DEF JobState
<1>2. QED
  BY <1>1, RetryFreeType, RetryLaterType DEF FailedJob

\* reclaim_interrupted refunds and requeues a row; it stays a job row.
LEMMA InterruptedType ==
  ASSUME NEW job \in Job
  PROVE  /\ Interrupted(job) \in Job
         /\ Interrupted(job).state # "running"
         /\ Interrupted(job).state \in LiveStates => job.state \in LiveStates
<1>1. Refund(job.attempts) \in Nat
  BY RefundType DEF Job
<1>2. QED
  BY <1>1 DEF Interrupted, Job, JobState, LiveStates

\* queue_unprocessed promotes a queued thumbnail row; it stays a job row.
LEMMA PromoteType ==
  ASSUME NEW job \in Job, NEW rec \in Recording
  PROVE  Promote(job, rec) \in Job /\ Promote(job, rec).state = job.state
BY DEF Promote, Job, JobKind, Priority

-----------------------------------------------------------------------------
(* The rows of one recording.                                              *)

\* A table of n jobs is a sequence of jobs (the form every bulk update of rows
\* produces).
LEMMA TableIsSeq ==
  ASSUME NEW rows \in Seq(Job), NEW new \in [DOMAIN rows -> Job]
  PROVE  new \in Seq(Job) /\ Len(new) = Len(rows) /\ DOMAIN new = DOMAIN rows
<1>1. DOMAIN rows = 1..Len(rows) /\ Len(rows) \in Nat
  OBVIOUS
<1>2. QED
  BY <1>1

\* Rows that only leave the running and the live states keep what LiveRows says
\* about them (cancel, clear, reclaim_stale, reclaim_interrupted, backoff,
\* promotion).
LEMMA FewerLive ==
  ASSUME NEW rows \in Seq(Job), NEW new \in Seq(Job), DOMAIN new = DOMAIN rows,
         \A i \in DOMAIN rows : new[i].state = "running" => rows[i].state = "running",
         \A i \in DOMAIN rows :
           new[i].state \in LiveStates => rows[i].state \in LiveStates
  PROVE  /\ AtMostTwoLive(rows) => AtMostTwoLive(new)
         /\ \A j : RunOwns(rows, j) => RunOwns(new, j)
         /\ Live(new) \subseteq Live(rows)
<1>1. Live(new) \subseteq Live(rows)
  BY DEF Live
<1>2. QED
  BY <1>1 DEF AtMostTwoLive, RunOwns

\* A row made by enqueue is a job row.
LEMMA NewJobType ==
  ASSUME NEW kind \in JobKind, NEW priority \in Priority
  PROVE  NewJob(kind, priority) \in Job /\ NewJob(kind, priority).state = "queued"
BY DEF NewJob, Job, JobState

\* What a new row at the end of a sequence changes.
LEMMA AppendJob ==
  ASSUME NEW rows \in Seq(Job), NEW job \in Job, job.state = "queued"
  PROVE  /\ Append(rows, job) \in Seq(Job)
         /\ DOMAIN Append(rows, job) = DOMAIN rows \cup {Len(rows) + 1}
         /\ Len(rows) + 1 \notin DOMAIN rows
         /\ Live(Append(rows, job)) = Live(rows) \cup {Len(rows) + 1}
         /\ \A i \in DOMAIN Append(rows, job) :
              Append(rows, job)[i].state = "running" =>
                i \in DOMAIN rows /\ rows[i].state = "running"
<1>1. /\ Append(rows, job) \in Seq(Job)
      /\ Len(Append(rows, job)) = Len(rows) + 1
      /\ Append(rows, job)[Len(rows) + 1] = job
      /\ \A i \in 1..Len(rows) : Append(rows, job)[i] = rows[i]
  BY AppendProperties
<1>2. DOMAIN rows = 1..Len(rows) /\ Len(rows) \in Nat
  OBVIOUS
<1>3. DOMAIN Append(rows, job) = 1..(Len(rows) + 1)
  BY <1>1, <1>2
<1>4. DOMAIN Append(rows, job) = DOMAIN rows \cup {Len(rows) + 1}
  BY <1>2, <1>3
<1>5. Len(rows) + 1 \notin DOMAIN rows
  BY <1>2
<1>6. Live(Append(rows, job)) = Live(rows) \cup {Len(rows) + 1}
  BY <1>1, <1>2, <1>4, <1>5 DEF Live, LiveStates
<1>7. \A i \in DOMAIN Append(rows, job) :
        Append(rows, job)[i].state = "running" =>
          i \in DOMAIN rows /\ rows[i].state = "running"
  BY <1>1, <1>2, <1>4
<1>8. QED
  BY <1>1, <1>4, <1>5, <1>6, <1>7

\* enqueue refuses to stack: it adds a row only where none is live.
LEMMA EnqueueRows ==
  ASSUME NEW rows \in Seq(Job), NEW kind \in JobKind, NEW priority \in Priority
  PROVE  /\ enqueue(rows, kind, priority) \in Seq(Job)
         /\ DOMAIN rows \subseteq DOMAIN enqueue(rows, kind, priority)
         /\ AtMostTwoLive(rows) => AtMostTwoLive(enqueue(rows, kind, priority))
         /\ \A j : RunOwns(rows, j) => RunOwns(enqueue(rows, kind, priority), j)
<1> DEFINE job == NewJob(kind, priority)
<1>1. job \in Job /\ job.state = "queued"
  BY NewJobType
<1> HIDE DEF job
<1>2. CASE Live(rows) # {}
  BY <1>2 DEF enqueue
<1>3. CASE Live(rows) = {}
  <2> DEFINE new == Append(rows, job)
  <2>1. /\ new \in Seq(Job)
        /\ DOMAIN new = DOMAIN rows \cup {Len(rows) + 1}
        /\ Live(new) = {Len(rows) + 1}
        /\ \A i \in DOMAIN new :
             new[i].state = "running" => i \in DOMAIN rows /\ rows[i].state = "running"
    BY <1>1, <1>3, AppendJob
  <2>2. enqueue(rows, kind, priority) = new
    BY <1>3 DEF enqueue, job
  <2> HIDE DEF new
  <2>3. QED
    BY <2>1, <2>2 DEF AtMostTwoLive, RunOwns
<1>4. QED
  BY <1>2, <1>3

\* new is a history that continues rows and keeps what LiveRows says of it.
Continues(rows, new) ==
  /\ new \in Seq(Job)
  /\ DOMAIN rows \subseteq DOMAIN new
  /\ AtMostTwoLive(rows) => AtMostTwoLive(new)
  /\ \A j : RunOwns(rows, j) => RunOwns(new, j)

\* After an enqueue the rows still serve the runs that own them.
LEMMA EnqueueContinues ==
  ASSUME NEW rows \in Seq(Job), NEW kind \in JobKind, NEW priority \in Priority
  PROVE  Continues(rows, enqueue(rows, kind, priority))
<1>1. /\ enqueue(rows, kind, priority) \in Seq(Job)
      /\ DOMAIN rows \subseteq DOMAIN enqueue(rows, kind, priority)
      /\ AtMostTwoLive(rows) => AtMostTwoLive(enqueue(rows, kind, priority))
      /\ \A j : RunOwns(rows, j) => RunOwns(enqueue(rows, kind, priority), j)
  BY EnqueueRows
<1>2. QED
  BY <1>1 DEF Continues

\* Superseding leaves only a running row live, beside the new one.
LEMMA ForceRows ==
  ASSUME NEW rows \in Seq(Job), NEW kind \in JobKind, NEW priority \in Priority,
         AtMostTwoLive(rows)
  PROVE  /\ enqueue_force(rows, kind, priority) \in Seq(Job)
         /\ DOMAIN rows \subseteq DOMAIN enqueue_force(rows, kind, priority)
         /\ AtMostTwoLive(enqueue_force(rows, kind, priority))
         /\ \A j : RunOwns(rows, j) => RunOwns(enqueue_force(rows, kind, priority), j)
<1> DEFINE job == NewJob(kind, priority)
           kept == CancelRows(rows, {"queued", "failed"})
           new == Append(kept, job)
<1>1. job \in Job /\ job.state = "queued"
  BY NewJobType
<1>2. kept \in [DOMAIN rows -> Job]
  BY WithStateType DEF CancelRows, JobState
<1>3. kept \in Seq(Job) /\ DOMAIN kept = DOMAIN rows /\ Len(kept) = Len(rows)
  BY <1>2, TableIsSeq
<1>4. \A i \in DOMAIN rows :
        /\ kept[i].state = "running" => rows[i].state = "running"
        /\ kept[i].state \in LiveStates => kept[i].state = "running"
  <2> SUFFICES ASSUME NEW i \in DOMAIN rows
               PROVE  /\ kept[i].state = "running" => rows[i].state = "running"
                      /\ kept[i].state \in LiveStates => kept[i].state = "running"
    OBVIOUS
  <2>0. rows[i] \in Job
    OBVIOUS
  <2>1. rows[i] \in Job /\ rows[i].state \in JobState
    BY <2>0 DEF Job
  <2>2. WithState(rows[i], "cancelled").state = "cancelled"
    BY <2>1, WithStateType DEF JobState
  <2>3. QED
    BY <2>1, <2>2 DEF CancelRows, LiveStates, JobState
<1>5. enqueue_force(rows, kind, priority) = new
  BY DEF enqueue_force
<1> HIDE DEF job, kept
<1>6. /\ new \in Seq(Job)
      /\ DOMAIN new = DOMAIN kept \cup {Len(kept) + 1}
      /\ Live(new) = Live(kept) \cup {Len(kept) + 1}
      /\ \A i \in DOMAIN new :
           new[i].state = "running" => i \in DOMAIN kept /\ kept[i].state = "running"
  BY <1>1, <1>3, AppendJob
<1> HIDE DEF new
<1>7. \A i \in Live(kept) : i \in DOMAIN rows /\ rows[i].state = "running"
  BY <1>3, <1>4 DEF Live
<1>8. \A i, k \in Live(kept) : i = k
  BY <1>7 DEF AtMostTwoLive
<1>9. AtMostTwoLive(new)
  BY <1>3, <1>4, <1>6, <1>8 DEF AtMostTwoLive
<1>10. ASSUME NEW j, RunOwns(rows, j) PROVE RunOwns(new, j)
  BY <1>3, <1>4, <1>6, <1>7, <1>10 DEF RunOwns
<1>11. QED
  BY <1>3, <1>5, <1>6, <1>9, <1>10

\* A bulk update that never makes a row running or live.
LEMMA TableFewerLive ==
  ASSUME NEW rows \in Seq(Job), NEW new \in [DOMAIN rows -> Job],
         \A i \in DOMAIN rows :
           /\ new[i].state = "running" => rows[i].state = "running"
           /\ new[i].state \in LiveStates => rows[i].state \in LiveStates
  PROVE  /\ new \in Seq(Job)
         /\ DOMAIN new = DOMAIN rows
         /\ AtMostTwoLive(rows) => AtMostTwoLive(new)
         /\ \A j : RunOwns(rows, j) => RunOwns(new, j)
<1>1. new \in Seq(Job) /\ DOMAIN new = DOMAIN rows
  BY TableIsSeq
<1>2. QED
  BY <1>1, FewerLive

\* The row of a run that records its outcome leaves RUNNING; the other live row,
\* if there is one, is untouched.
LEMMA RecordedRows ==
  ASSUME NEW rows \in Seq(Job), NEW j \in DOMAIN rows, NEW outcome \in Outcome,
         RunOwns(rows, j)
  PROVE  /\ Recorded(rows, j, outcome) \in Seq(Job)
         /\ DOMAIN Recorded(rows, j, outcome) = DOMAIN rows
         /\ AtMostTwoLive(Recorded(rows, j, outcome))
<1> DEFINE job == IF outcome = "ok" THEN WithState(rows[j], "completed")
                  ELSE FailedJob(rows[j], outcome)
           new == [rows EXCEPT ![j] = job]
<1>1. rows[j] \in Job
  OBVIOUS
<1>2. job \in Job /\ job.state # "running"
  BY <1>1, WithStateType, FailedType DEF JobState
<1>3. Recorded(rows, j, outcome) = new
  BY DEF Recorded, complete, fail
<1> HIDE DEF job
<1>4. new \in [DOMAIN rows -> Job]
  BY <1>2
<1>5. new \in Seq(Job) /\ DOMAIN new = DOMAIN rows
  BY <1>4, TableIsSeq
<1>6. /\ new[j] = job
      /\ \A i \in DOMAIN rows : i # j => new[i] = rows[i]
  OBVIOUS
<1> HIDE DEF new
<1>7. \A i \in DOMAIN new : new[i].state # "running"
  BY <1>2, <1>5, <1>6 DEF RunOwns
<1>8. Live(new) \ {j} = Live(rows) \ {j}
  BY <1>5, <1>6 DEF Live
<1>9. AtMostTwoLive(new)
  BY <1>7, <1>8 DEF AtMostTwoLive, RunOwns
<1>10. QED
  BY <1>3, <1>5, <1>9

\* The hand-on after a thumbnail is an enqueue.
LEMMA FollowUpRows ==
  ASSUME NEW rows \in Seq(Job), NEW j \in DOMAIN rows, NEW rec \in Recording,
         AtMostTwoLive(rows)
  PROVE  /\ _follow_up_after_thumbnail(rows, j, rec) \in Seq(Job)
         /\ DOMAIN rows \subseteq DOMAIN _follow_up_after_thumbnail(rows, j, rec)
         /\ AtMostTwoLive(_follow_up_after_thumbnail(rows, j, rec))
<1>1. AnalysisKind(rec) \in JobKind
  BY DEF AnalysisKind, JobKind
<1> DEFINE queued == enqueue(rows, AnalysisKind(rec), 200)
<1>2. /\ queued \in Seq(Job)
      /\ DOMAIN rows \subseteq DOMAIN queued
      /\ AtMostTwoLive(queued)
  BY <1>1, EnqueueRows DEF Priority
<1> HIDE DEF queued
<1>3. \/ _follow_up_after_thumbnail(rows, j, rec) = queued
      \/ _follow_up_after_thumbnail(rows, j, rec) = rows
  BY DEF _follow_up_after_thumbnail, queued
<1>4. QED
  BY <1>2, <1>3

-----------------------------------------------------------------------------
(* One recording.                                                          *)

\* Whatever a step does to a recording's row, it stays a recording.
LEMMA RecordingOps ==
  ASSUME NEW rec \in Recording
  PROVE  /\ MarkQueued(rec) \in Recording
         /\ Requeued(rec) \in Recording
         /\ Reviewed(rec) \in Recording
         /\ \A s \in RecordingState : [rec EXCEPT !.state = s] \in Recording
         /\ \A others : CancelledRec(rec, others) \in Recording
         /\ \A rows : release_stranded(rec, rows) \in Recording
<1>1. \A s \in RecordingState : [rec EXCEPT !.state = s] \in Recording
  BY DEF Recording
<1>2. MarkQueued(rec) \in Recording
  BY <1>1 DEF MarkQueued, RecordingState
<1>3. Requeued(rec) \in Recording
  BY <1>1 DEF Requeued, RecordingState
<1>4. Reviewed(rec) \in Recording
  BY DEF Reviewed, Recording, RecordingState
<1>5. \A others : CancelledRec(rec, others) \in Recording
  BY <1>1 DEF CancelledRec, RecordingState
<1>6. \A rows : release_stranded(rec, rows) \in Recording
  BY <1>1 DEF release_stranded, RecordingState
<1>7. QED
  BY <1>1, <1>2, <1>3, <1>4, <1>5, <1>6

\* What run_stages leaves of a recording is a recording.
LEMMA StagesRanType ==
  ASSUME NEW rec \in Recording, NEW outcome \in Outcome
  PROVE  StagesRan(rec, outcome) \in Recording
BY DEF StagesRan, Recording, RecordingState

\* What the damaged-footage policy leaves of a recording is a recording.
LEMMA PolicyType ==
  ASSUME NEW rec \in Recording, NEW action \in {"keep", "hide", "delete"}
  PROVE  apply_damaged_policy(rec, action) \in Recording
<1>1. CASE action = "keep"
  BY <1>1 DEF apply_damaged_policy
<1>2. CASE action = "hide"
  BY <1>2 DEF apply_damaged_policy, Recording
<1>3. CASE action = "delete"
  BY <1>3 DEF apply_damaged_policy, Recording, RecordingState
<1>4. QED
  BY <1>1, <1>2, <1>3

\* The count of events stays a function to Nat.
LEMMA SpendType ==
  ASSUME NEW event \in Events, spent \in [Events -> Nat], Spend(event)
  PROVE  spent' \in [Events -> Nat]
BY DEF Spend

-----------------------------------------------------------------------------
(* The runs in the pool.                                                   *)

\* A run that advances keeps its recording and its job.
LEMMA AdvanceRuns ==
  ASSUME runs \subseteq Run, OneRunPerRecording,
         NEW x \in runs, NEW phase \in Phase, NEW outcome \in Outcome,
         Advance(x, phase, outcome)
  PROVE  /\ runs' \subseteq Run
         /\ \A y \in runs' : \E z \in runs : z.rec = y.rec /\ z.job = y.job
         /\ OneRunPerRecording'
<1> DEFINE new == [x EXCEPT !.phase = phase, !.outcome = outcome]
<1>1. new \in Run /\ new.rec = x.rec /\ new.job = x.job
  BY DEF Run
<1>2. runs' = (runs \ {x}) \cup {new}
  BY DEF Advance
<1> HIDE DEF new
<1>3. QED
  BY <1>1, <1>2 DEF OneRunPerRecording

\* A step that adds no run and keeps every recording's rows and every run's
\* claim on them in order keeps Ownership.
LEMMA KeepOwnership ==
  ASSUME Ownership,
         jobs' \in [Recordings -> Seq(Job)],
         recs' \in [Recordings -> Recording],
         runs' \subseteq Run,
         OneRunPerRecording',
         reset' \in {"idle", "cleared", "aborting"},
         up' \in BOOLEAN, paused' \in BOOLEAN, spent' \in [Events -> Nat],
         \A r \in Recordings :
           DOMAIN jobs[r] \subseteq DOMAIN jobs'[r] /\ AtMostTwoLive(jobs'[r]),
         \A y \in runs' : \E x \in runs :
           x.rec = y.rec /\ x.job = y.job /\ RunOwns(jobs'[x.rec], x.job)
  PROVE  Ownership'
<1>1. \A y \in runs' : y.job \in DOMAIN jobs'[y.rec] /\ RunOwns(jobs'[y.rec], y.job)
  <2> SUFFICES ASSUME NEW y \in runs'
               PROVE  y.job \in DOMAIN jobs'[y.rec] /\ RunOwns(jobs'[y.rec], y.job)
    OBVIOUS
  <2>1. PICK x \in runs :
          x.rec = y.rec /\ x.job = y.job /\ RunOwns(jobs'[x.rec], x.job)
    OBVIOUS
  <2>2. x.rec \in Recordings /\ x.job \in DOMAIN jobs[x.rec]
    BY DEF Ownership, TypeOK, Run
  <2>3. QED
    BY <2>1, <2>2
<1>2. TypeOK'
  BY <1>1 DEF TypeOK
<1>3. LiveRows'
  BY <1>1 DEF LiveRows
<1>4. QED
  BY <1>2, <1>3 DEF Ownership

\* The rows are as they were and one run advances.
LEMMA RunAdvances ==
  ASSUME Ownership,
         NEW x \in runs, NEW phase \in Phase, NEW outcome \in Outcome,
         Advance(x, phase, outcome),
         recs' \in [Recordings -> Recording],
         spent' \in [Events -> Nat],
         UNCHANGED <<jobs, reset, up, paused>>
  PROVE  Ownership'
<1>1. /\ runs' \subseteq Run
      /\ \A y \in runs' : \E z \in runs : z.rec = y.rec /\ z.job = y.job
      /\ OneRunPerRecording'
  BY AdvanceRuns DEF Ownership, TypeOK
<1>2. \A z \in runs : z.rec \in Recordings /\ RunOwns(jobs'[z.rec], z.job)
  BY DEF Ownership, TypeOK, LiveRows, Run
<1>3. \A r \in Recordings :
        DOMAIN jobs[r] \subseteq DOMAIN jobs'[r] /\ AtMostTwoLive(jobs'[r])
  BY DEF Ownership, LiveRows
<1>4. QED
  BY <1>1, <1>2, <1>3, KeepOwnership DEF Ownership, TypeOK

\* No run is added or changed, and the runs that stay still own their rows.
LEMMA RunsShrink ==
  ASSUME Ownership,
         jobs' \in [Recordings -> Seq(Job)],
         recs' \in [Recordings -> Recording],
         runs' \subseteq runs,
         reset' \in {"idle", "cleared", "aborting"},
         up' \in BOOLEAN, paused' \in BOOLEAN, spent' \in [Events -> Nat],
         \A r \in Recordings :
           DOMAIN jobs[r] \subseteq DOMAIN jobs'[r] /\ AtMostTwoLive(jobs'[r]),
         \A x \in runs' : RunOwns(jobs'[x.rec], x.job)
  PROVE  Ownership'
<1>1. runs' \subseteq Run /\ OneRunPerRecording'
  BY DEF Ownership, TypeOK, OneRunPerRecording
<1>2. QED
  BY <1>1, KeepOwnership

\* What Ownership says about one recording and about one run.
LEMMA OwnershipFacts ==
  ASSUME Ownership
  PROVE  /\ \A r \in Recordings :
              /\ jobs[r] \in Seq(Job) /\ recs[r] \in Recording
              /\ AtMostTwoLive(jobs[r])
         /\ \A x \in runs :
              /\ x \in Run /\ x.rec \in Recordings /\ x.outcome \in Outcome
              /\ x.job \in DOMAIN jobs[x.rec]
              /\ RunOwns(jobs[x.rec], x.job)
BY DEF Ownership, TypeOK, LiveRows, Run

\* A bulk update of every recording's rows that makes none running or live.
LEMMA BulkFewerLive ==
  ASSUME Ownership,
         \A r \in Recordings :
           /\ jobs'[r] \in [DOMAIN jobs[r] -> Job]
           /\ \A i \in DOMAIN jobs[r] :
                /\ jobs'[r][i].state = "running" => jobs[r][i].state = "running"
                /\ jobs'[r][i].state \in LiveStates => jobs[r][i].state \in LiveStates
  PROVE  /\ \A r \in Recordings :
              /\ jobs'[r] \in Seq(Job)
              /\ DOMAIN jobs[r] \subseteq DOMAIN jobs'[r]
              /\ AtMostTwoLive(jobs'[r])
         /\ \A x \in runs : RunOwns(jobs'[x.rec], x.job)
<1>1. \A r \in Recordings :
        /\ jobs'[r] \in Seq(Job)
        /\ DOMAIN jobs'[r] = DOMAIN jobs[r]
        /\ AtMostTwoLive(jobs'[r])
        /\ \A j : RunOwns(jobs[r], j) => RunOwns(jobs'[r], j)
  <2> SUFFICES ASSUME NEW r \in Recordings
               PROVE  /\ jobs'[r] \in Seq(Job)
                      /\ DOMAIN jobs'[r] = DOMAIN jobs[r]
                      /\ AtMostTwoLive(jobs'[r])
                      /\ \A j : RunOwns(jobs[r], j) => RunOwns(jobs'[r], j)
    OBVIOUS
  <2> DEFINE rows == jobs[r]
             new == jobs'[r]
  <2>1. rows \in Seq(Job) /\ AtMostTwoLive(rows)
    BY OwnershipFacts
  <2>2. /\ new \in [DOMAIN rows -> Job]
        /\ \A i \in DOMAIN rows :
             /\ new[i].state = "running" => rows[i].state = "running"
             /\ new[i].state \in LiveStates => rows[i].state \in LiveStates
    OBVIOUS
  <2> HIDE DEF rows, new
  <2>3. /\ new \in Seq(Job)
        /\ DOMAIN new = DOMAIN rows
        /\ AtMostTwoLive(new)
        /\ \A j : RunOwns(rows, j) => RunOwns(new, j)
    BY <2>1, <2>2, TableFewerLive
  <2>4. QED
    BY <2>3 DEF rows, new
<1>2. QED
  BY <1>1, OwnershipFacts

\* One row is replaced by one that is running or live only if the old one was.
LEMMA OneRow ==
  ASSUME Ownership, NEW r \in Recordings, NEW i \in DOMAIN jobs[r], NEW job \in Job,
         jobs' = [jobs EXCEPT ![r] = [jobs[r] EXCEPT ![i] = job]],
         job.state = "running" => jobs[r][i].state = "running",
         job.state \in LiveStates => jobs[r][i].state \in LiveStates
  PROVE  /\ jobs' \in [Recordings -> Seq(Job)]
         /\ \A q \in Recordings :
              DOMAIN jobs[q] \subseteq DOMAIN jobs'[q] /\ AtMostTwoLive(jobs'[q])
         /\ \A x \in runs : RunOwns(jobs'[x.rec], x.job)
<1>1. jobs \in [Recordings -> Seq(Job)] /\ \A q \in Recordings : jobs[q] \in Seq(Job)
  BY DEF Ownership, TypeOK
<1>2. \A q \in Recordings : jobs[q] \in [DOMAIN jobs[q] -> Job]
  BY <1>1
<1>3. \A q \in Recordings : \A k \in DOMAIN jobs[q] :
        jobs'[q][k] = IF q = r /\ k = i THEN job ELSE jobs[q][k]
  BY <1>1, <1>2
<1>4. \A q \in Recordings : jobs'[q] \in [DOMAIN jobs[q] -> Job]
  BY <1>1, <1>2
<1>5. \A q \in Recordings :
        /\ jobs'[q] \in [DOMAIN jobs[q] -> Job]
        /\ \A k \in DOMAIN jobs[q] :
             /\ jobs'[q][k].state = "running" => jobs[q][k].state = "running"
             /\ jobs'[q][k].state \in LiveStates => jobs[q][k].state \in LiveStates
  BY <1>3, <1>4
<1>6. /\ \A q \in Recordings :
           /\ jobs'[q] \in Seq(Job)
           /\ DOMAIN jobs[q] \subseteq DOMAIN jobs'[q]
           /\ AtMostTwoLive(jobs'[q])
      /\ \A x \in runs : RunOwns(jobs'[x.rec], x.job)
  BY <1>5, BulkFewerLive
<1>7. jobs' \in [Recordings -> Seq(Job)]
  BY <1>1, <1>6
<1>8. QED
  BY <1>6, <1>7

-----------------------------------------------------------------------------
(* Every action keeps Ownership.                                           *)

\* The steps of a run that change no job row, or only the run's own.
LEMMA RunStepKeeps ==
  ASSUME Ownership, NEW x \in runs, RunStep(x)
  PROVE  Ownership'
<1>1. /\ x.rec \in Recordings /\ x.outcome \in Outcome /\ x.job \in DOMAIN jobs[x.rec]
      /\ jobs[x.rec] \in Seq(Job) /\ recs[x.rec] \in Recording
      /\ AtMostTwoLive(jobs[x.rec]) /\ RunOwns(jobs[x.rec], x.job)
  BY OwnershipFacts
<1>2. /\ jobs \in [Recordings -> Seq(Job)] /\ recs \in [Recordings -> Recording]
      /\ spent \in [Events -> Nat]
  BY DEF Ownership, TypeOK
<1>3. CASE StartWork(x)
  <2>1. [recs[x.rec] EXCEPT !.state = "processing"] \in Recording
    BY <1>1, RecordingOps DEF RecordingState
  <2>2. recs' \in [Recordings -> Recording]
    BY <1>2, <1>3, <2>1 DEF StartWork
  <2>3. QED
    BY <1>1, <1>2, <1>3, <2>2, RunAdvances DEF StartWork, Phase
<1>4. ASSUME NEW o \in Outcome, _make_thumbnail(x, o)
      PROVE  Ownership'
  BY <1>2, <1>4, RunAdvances DEF _make_thumbnail, Phase
<1>5. ASSUME NEW o \in Outcome, NEW a \in {"keep", "hide", "delete"}, _process(x, o, a)
      PROVE  Ownership'
  <2>1. apply_damaged_policy(StagesRan(recs[x.rec], o), a) \in Recording
    BY <1>1, StagesRanType, PolicyType
  <2>2. recs' \in [Recordings -> Recording]
    BY <1>2, <1>5, <2>1 DEF _process
  <2>3. spent' \in [Events -> Nat]
    BY <1>2, <1>5, SpendType DEF _process, Events
  <2>4. QED
    BY <1>5, <2>2, <2>3, RunAdvances DEF _process, Phase
<1>6. ASSUME NEW o \in {"error", "locked"}, NEW a \in BOOLEAN, Raise(x, o, a)
      PROVE  Ownership'
  <2> DEFINE rec == [recs[x.rec] EXCEPT !.state = "completed", !.analysed = TRUE]
  <2>1. rec \in Recording
    BY <1>1 DEF Recording, RecordingState
  <2>2. recs' = recs \/ recs' = [recs EXCEPT ![x.rec] = rec]
    BY <1>6 DEF Raise
  <2> HIDE DEF rec
  <2>3. recs' \in [Recordings -> Recording]
    BY <1>2, <2>1, <2>2
  <2>4. spent' \in [Events -> Nat]
    BY <1>2, <1>6, SpendType DEF Raise, Events
  <2>5. QED
    BY <1>6, <2>3, <2>4, RunAdvances DEF Raise, Phase, Outcome
<1>7. CASE _finish(x)
  <2> DEFINE rows == Recorded(jobs[x.rec], x.job, x.outcome)
             after == _follow_up_after_thumbnail(rows, x.job, recs[x.rec])
  <2>1. rows \in Seq(Job) /\ DOMAIN rows = DOMAIN jobs[x.rec] /\ AtMostTwoLive(rows)
    BY <1>1, RecordedRows
  <2>2. after \in Seq(Job) /\ DOMAIN rows \subseteq DOMAIN after /\ AtMostTwoLive(after)
    <3> HIDE DEF rows
    <3>1. QED
      BY <1>1, <2>1, FollowUpRows
  <2>3. /\ jobs' = jobs \/ jobs' = [jobs EXCEPT ![x.rec] = after]
        /\ recs' = recs \/ recs' = [recs EXCEPT ![x.rec] = MarkQueued(recs[x.rec])]
        /\ runs' = runs \ {x}
        /\ UNCHANGED <<reset, up, paused, spent>>
    BY <1>7 DEF _finish, Leave
  <2> HIDE DEF rows, after
  <2>4. recs' \in [Recordings -> Recording]
    BY <1>1, <1>2, <2>3, RecordingOps
  <2>5. jobs' \in [Recordings -> Seq(Job)]
    BY <1>2, <2>2, <2>3
  <2>6. \A r \in Recordings :
          DOMAIN jobs[r] \subseteq DOMAIN jobs'[r] /\ AtMostTwoLive(jobs'[r])
    BY <1>2, <2>1, <2>2, <2>3, OwnershipFacts
  <2>7. \A y \in runs' : y \in runs /\ y.rec # x.rec
    BY <2>3 DEF Ownership, OneRunPerRecording
  <2>8. \A y \in runs' : RunOwns(jobs'[y.rec], y.job)
    BY <1>2, <2>3, <2>7, OwnershipFacts
  <2>9. QED
    BY <2>3, <2>4, <2>5, <2>6, <2>7, <2>8, RunsShrink DEF Ownership, TypeOK
<1>8. CASE OutcomeLost(x)
  <2>1. spent' \in [Events -> Nat]
    BY <1>2, <1>8, SpendType DEF OutcomeLost, Events
  <2>2. QED
    BY <1>2, <1>8, <2>1, OwnershipFacts, RunsShrink
       DEF OutcomeLost, Leave, Ownership, TypeOK
<1>9. CASE _heartbeat(x)
  BY <1>1, <1>2, <1>9, RunAdvances DEF _heartbeat, Phase
<1>10. CASE Stopped(x)
  BY <1>2, <1>10, OwnershipFacts, RunsShrink DEF Stopped, Leave, Ownership, TypeOK
<1>11. QED
  BY <1>3, <1>4, <1>5, <1>6, <1>7, <1>8, <1>9, <1>10 DEF RunStep

\* The claim is where both halves of the invariant meet: it takes a row of a
\* recording with no run and no running row, and at most two live rows.
LEMMA ClaimKeeps ==
  ASSUME Ownership, NEW r \in Recordings, NEW i \in DOMAIN jobs[r], claim_next(r, i)
  PROVE  Ownership'
<1> DEFINE job == ClaimedJob(jobs[r][i])
           rows == jobs[r]
           new == [rows EXCEPT ![i] = job]
           run == [rec |-> r, job |-> i, phase |-> "starting", outcome |-> "ok"]
<1>1. rows \in Seq(Job) /\ AtMostTwoLive(rows) /\ rows[i] \in Job
  BY OwnershipFacts
<1>2. job \in Job /\ job.state = "running"
  BY <1>1, ClaimedType
<1>3. /\ jobs' = [jobs EXCEPT ![r] = new]
      /\ runs' = runs \cup {run}
      /\ UNCHANGED <<recs, reset, up, paused, spent>>
  BY DEF claim_next
<1>4. /\ rows[i].state = "queued"
      /\ \A k \in DOMAIN rows : rows[k].state # "running"
      /\ \A x \in runs : x.rec # r
  BY DEF claim_next, Runnable, HasRunning
<1>5. i \in Nat
  BY <1>1
<1>6. run \in Run /\ run.rec = r /\ run.job = i
  BY <1>5 DEF Run, Phase, Outcome
<1> HIDE DEF job, run
<1>7. new \in [DOMAIN rows -> Job]
  BY <1>1, <1>2
<1>8. new \in Seq(Job) /\ DOMAIN new = DOMAIN rows
  BY <1>1, <1>7, TableIsSeq
<1>9. \A k \in DOMAIN rows : new[k] = IF k = i THEN job ELSE rows[k]
  BY <1>1
<1>10. Live(new) = Live(rows) /\ i \in Live(rows)
  BY <1>2, <1>4, <1>8, <1>9 DEF Live, LiveStates
<1> HIDE DEF new
<1>11. AtMostTwoLive(new)
  BY <1>1, <1>4, <1>8, <1>9, <1>10 DEF AtMostTwoLive
<1>12. RunOwns(new, i)
  BY <1>1, <1>4, <1>8, <1>9, <1>10 DEF AtMostTwoLive, RunOwns
<1>13. jobs \in [Recordings -> Seq(Job)]
  BY DEF Ownership, TypeOK
<1>14. \A q \in Recordings : jobs'[q] = IF q = r THEN new ELSE jobs[q]
  BY <1>3, <1>13
<1>15. jobs' \in [Recordings -> Seq(Job)]
  BY <1>3, <1>8, <1>13
<1>16. \A x \in runs' :
         /\ x.rec \in Recordings
         /\ x.job \in DOMAIN jobs'[x.rec]
         /\ RunOwns(jobs'[x.rec], x.job)
  BY <1>3, <1>4, <1>6, <1>8, <1>12, <1>14, OwnershipFacts
<1>17. OneRunPerRecording'
  BY <1>3, <1>4, <1>6 DEF Ownership, OneRunPerRecording
<1>18. TypeOK'
  BY <1>3, <1>6, <1>15, <1>16 DEF Ownership, TypeOK
<1>19. LiveRows'
  BY <1>11, <1>14, <1>16, OwnershipFacts DEF LiveRows
<1>20. QED
  BY <1>17, <1>18, <1>19 DEF Ownership

\* The steps of one job row: its backoff, cancel and retry_job.
LEMMA JobStepKeeps ==
  ASSUME Ownership, NEW r \in Recordings, NEW i \in DOMAIN jobs[r], JobStep(r, i)
  PROVE  Ownership'
<1>1. /\ jobs[r] \in Seq(Job) /\ jobs[r][i] \in Job /\ recs[r] \in Recording
      /\ recs \in [Recordings -> Recording] /\ spent \in [Events -> Nat]
  BY OwnershipFacts DEF Ownership, TypeOK
<1>2. CASE BackoffElapsed(r, i)
  <2> DEFINE job == Ready(jobs[r][i])
  <2>1. job \in Job /\ job.state = jobs[r][i].state
    BY <1>1, ReadyType
  <2>2. /\ jobs' = [jobs EXCEPT ![r] = [jobs[r] EXCEPT ![i] = job]]
        /\ UNCHANGED <<recs, runs, reset, up, paused, spent>>
    BY <1>2 DEF BackoffElapsed
  <2> HIDE DEF job
  <2>3. QED
    BY <1>1, <2>1, <2>2, OneRow, RunsShrink DEF Ownership, TypeOK
<1>3. CASE claim_next(r, i)
  BY <1>3, ClaimKeeps
<1>4. CASE cancel(r, i)
  <2> DEFINE job == WithState(jobs[r][i], "cancelled")
             rec == CancelledRec(recs[r], Live(jobs[r]) \ {i})
  <2>1. job \in Job /\ job.state = "cancelled"
    BY <1>1, WithStateType DEF JobState
  <2>2. rec \in Recording
    BY <1>1, RecordingOps
  <2>3. /\ jobs' = [jobs EXCEPT ![r] = [jobs[r] EXCEPT ![i] = job]]
        /\ recs' = [recs EXCEPT ![r] = rec]
        /\ UNCHANGED <<runs, reset, up, paused>>
    BY <1>4 DEF cancel
  <2>4. spent' \in [Events -> Nat]
    BY <1>1, <1>4, SpendType DEF cancel, Events
  <2> HIDE DEF job, rec
  <2>5. recs' \in [Recordings -> Recording]
    BY <1>1, <2>2, <2>3
  <2>6. QED
    BY <2>1, <2>3, <2>4, <2>5, OneRow, RunsShrink DEF Ownership, TypeOK, LiveStates
<1>5. CASE retry_job(r, i)
  <2> DEFINE job == Retried(jobs[r][i])
             rows == jobs[r]
             new == [rows EXCEPT ![i] = job]
  <2>1. job \in Job /\ job.state = "queued"
    BY <1>1, RetriedType
  <2>2. /\ jobs' = [jobs EXCEPT ![r] = new]
        /\ Live(rows) \subseteq {i}
        /\ UNCHANGED <<recs, runs, reset, up, paused>>
    BY <1>5 DEF retry_job
  <2>3. spent' \in [Events -> Nat]
    BY <1>1, <1>5, SpendType DEF retry_job, Events
  <2> HIDE DEF job
  <2>4. new \in [DOMAIN rows -> Job]
    BY <1>1, <2>1
  <2>5. new \in Seq(Job) /\ DOMAIN new = DOMAIN rows
    BY <1>1, <2>4, TableIsSeq
  <2>6. \A k \in DOMAIN rows : new[k] = IF k = i THEN job ELSE rows[k]
    BY <1>1
  <2> HIDE DEF new
  <2>7. \A k \in DOMAIN new : new[k].state \in LiveStates => k = i
    BY <2>2, <2>5, <2>6 DEF Live
  <2>8. AtMostTwoLive(new) /\ \A j : RunOwns(new, j)
    BY <2>1, <2>5, <2>6, <2>7 DEF AtMostTwoLive, RunOwns, Live, LiveStates
  <2>9. jobs \in [Recordings -> Seq(Job)]
    BY DEF Ownership, TypeOK
  <2>10. \A q \in Recordings : jobs'[q] = IF q = r THEN new ELSE jobs[q]
    BY <2>2, <2>9
  <2>11. jobs' \in [Recordings -> Seq(Job)]
    BY <2>2, <2>5, <2>9
  <2>12. QED
    BY <1>1, <2>2, <2>3, <2>5, <2>8, <2>10, <2>11, OwnershipFacts, RunsShrink
       DEF Ownership, TypeOK
<1>6. QED
  BY <1>2, <1>3, <1>4, <1>5 DEF JobStep


\* A reprocess request supersedes what waits and leaves a running row alone.
LEMMA ReprocessKeeps ==
  ASSUME Ownership, NEW r \in Recordings, NEW p \in {50, 200}, Reprocess(r, p)
  PROVE  Ownership'
<1> DEFINE new == enqueue_force(jobs[r], "reprocess", p)
<1>1. /\ jobs[r] \in Seq(Job) /\ AtMostTwoLive(jobs[r]) /\ recs[r] \in Recording
      /\ jobs \in [Recordings -> Seq(Job)] /\ recs \in [Recordings -> Recording]
      /\ spent \in [Events -> Nat]
  BY OwnershipFacts DEF Ownership, TypeOK
<1>2. /\ new \in Seq(Job) /\ DOMAIN jobs[r] \subseteq DOMAIN new /\ AtMostTwoLive(new)
      /\ \A j : RunOwns(jobs[r], j) => RunOwns(new, j)
  BY <1>1, ForceRows DEF JobKind, Priority
<1>3. /\ jobs' = [jobs EXCEPT ![r] = new]
      /\ recs' = [recs EXCEPT ![r] = MarkQueued(recs[r])]
      /\ UNCHANGED <<runs, reset, up, paused>>
  BY DEF Reprocess
<1>4. spent' \in [Events -> Nat]
  BY <1>1, SpendType DEF Reprocess, Events
<1> HIDE DEF new
<1>5. recs' \in [Recordings -> Recording]
  BY <1>1, <1>3, RecordingOps
<1>6. jobs' \in [Recordings -> Seq(Job)]
  BY <1>1, <1>2, <1>3
<1>7. \A q \in Recordings : jobs'[q] = IF q = r THEN new ELSE jobs[q]
  BY <1>1, <1>3
<1>8. QED
  BY <1>2, <1>3, <1>4, <1>5, <1>6, <1>7, OwnershipFacts, RunsShrink
     DEF Ownership, TypeOK

\* Steps that leave the rows and the runs alone.
LEMMA RowsUntouched ==
  ASSUME Ownership, UNCHANGED jobs, runs' \subseteq runs,
         recs' \in [Recordings -> Recording],
         reset' \in {"idle", "cleared", "aborting"},
         up' \in BOOLEAN, paused' \in BOOLEAN, spent' \in [Events -> Nat]
  PROVE  Ownership'
<1>1. jobs' \in [Recordings -> Seq(Job)]
  BY DEF Ownership, TypeOK
<1>2. QED
  BY <1>1, OwnershipFacts, RunsShrink

\* The policy applied after a scan touches recordings only.
LEMMA KnownPolicyKeeps ==
  ASSUME Ownership, NEW r \in Recordings, NEW a \in {"keep", "hide", "delete"},
         apply_known_damaged_policy(r, a)
  PROVE  Ownership'
<1> DEFINE rec == IF a = "keep" THEN [recs[r] EXCEPT !.ignored = FALSE]
                  ELSE apply_damaged_policy(recs[r], a)
<1>1. /\ recs[r] \in Recording /\ recs \in [Recordings -> Recording]
      /\ spent \in [Events -> Nat]
  BY DEF Ownership, TypeOK
<1>2. [recs[r] EXCEPT !.ignored = FALSE] \in Recording
  BY <1>1 DEF Recording
<1>3. rec \in Recording
  BY <1>1, <1>2, PolicyType
<1>4. recs' = [recs EXCEPT ![r] = rec] /\ UNCHANGED <<jobs, runs, reset, up, paused>>
  BY DEF apply_known_damaged_policy
<1>5. spent' \in [Events -> Nat]
  BY <1>1, SpendType DEF apply_known_damaged_policy, Events
<1> HIDE DEF rec
<1>6. recs' \in [Recordings -> Recording]
  BY <1>1, <1>3, <1>4
<1>7. QED
  BY <1>4, <1>5, <1>6, RowsUntouched DEF Ownership, TypeOK

\* Pausing and resuming change the flag only.
LEMMA PauseKeeps ==
  ASSUME Ownership, pause \/ resume
  PROVE  Ownership'
<1>1. spent' \in [Events -> Nat]
  BY SpendType DEF pause, resume, Events, Ownership, TypeOK
<1>2. QED
  BY <1>1, RowsUntouched DEF pause, resume, Ownership, TypeOK

\* retry_failed revives one row of a recording without a live one.
LEMMA RetryFailedKeeps ==
  ASSUME Ownership, retry_failed
  PROVE  Ownership'
<1>1. spent' \in [Events -> Nat]
  BY SpendType DEF retry_failed, Events, Ownership, TypeOK
<1>2. UNCHANGED <<recs, runs, reset, up, paused>>
  BY DEF retry_failed
<1>3. jobs' = [r \in Recordings |->
        IF Retryable(r)
        THEN [i \in DOMAIN jobs[r] |->
                IF i \in NewestFailed(jobs[r]) THEN Retried(jobs[r][i]) ELSE jobs[r][i]]
        ELSE jobs[r]]
  BY DEF retry_failed
<1>4. ASSUME NEW r \in Recordings
      PROVE  /\ jobs'[r] \in Seq(Job)
             /\ DOMAIN jobs[r] \subseteq DOMAIN jobs'[r]
             /\ AtMostTwoLive(jobs'[r])
             /\ \A j : RunOwns(jobs[r], j) => RunOwns(jobs'[r], j)
  <2>1. jobs[r] \in Seq(Job) /\ AtMostTwoLive(jobs[r])
    BY OwnershipFacts
  <2>2. CASE ~ Retryable(r)
    BY <1>3, <2>1, <2>2
  <2>3. CASE Retryable(r)
    <3> DEFINE rows == jobs[r]
               new == [i \in DOMAIN rows |->
                         IF i \in NewestFailed(rows) THEN Retried(rows[i]) ELSE rows[i]]
    <3>1. jobs'[r] = new
      BY <1>3, <2>3
    <3>2. \A i \in DOMAIN rows : Retried(rows[i]) \in Job /\ Retried(rows[i]).state = "queued"
      BY <2>1, RetriedType
    <3>3. new \in [DOMAIN rows -> Job]
      BY <2>1, <3>2
    <3>4. new \in Seq(Job) /\ DOMAIN new = DOMAIN rows
      BY <2>1, <3>3, TableIsSeq
    <3>5. \A i, k \in NewestFailed(rows) : i = k
      <4>1. \A i \in DOMAIN rows : i \in Nat
        BY <2>1
      <4>2. \A i, k \in NewestFailed(rows) : i <= k /\ k <= i /\ i \in Nat /\ k \in Nat
        BY <4>1 DEF NewestFailed
      <4>3. QED
        BY <4>2
    <3>6. Live(rows) = {}
      BY <2>3 DEF Retryable
    <3>7. \A i \in DOMAIN rows :
            /\ new[i].state # "running"
            /\ new[i].state \in LiveStates => i \in NewestFailed(rows)
      BY <3>2, <3>6 DEF Live, LiveStates
    <3> HIDE DEF new
    <3>8. \A i, k \in Live(new) : i = k
      BY <3>4, <3>5, <3>7 DEF Live
    <3>9. AtMostTwoLive(new) /\ \A j : RunOwns(new, j)
      BY <3>4, <3>7, <3>8 DEF AtMostTwoLive, RunOwns
    <3>10. QED
      BY <3>1, <3>4, <3>9
  <2>4. QED
    BY <2>2, <2>3
<1>5. jobs' \in [Recordings -> Seq(Job)]
  BY <1>3, <1>4
<1>6. QED
  BY <1>1, <1>2, <1>4, <1>5, OwnershipFacts, RunsShrink DEF Ownership, TypeOK

\* A step that leaves the runs alone and, recording by recording, keeps the rows
\* in order.
LEMMA EachRecording ==
  ASSUME Ownership, runs' \subseteq runs,
         jobs' \in [Recordings -> Seq(Job)],
         recs' \in [Recordings -> Recording],
         reset' \in {"idle", "cleared", "aborting"},
         up' \in BOOLEAN, paused' \in BOOLEAN, spent' \in [Events -> Nat],
         \A r \in Recordings :
           /\ DOMAIN jobs[r] \subseteq DOMAIN jobs'[r]
           /\ AtMostTwoLive(jobs'[r])
           /\ \A j : RunOwns(jobs[r], j) => RunOwns(jobs'[r], j)
  PROVE  Ownership'
BY OwnershipFacts, RunsShrink

\* The scan's queue_unprocessed: promotion keeps every state, and the new job
\* goes only where no row is live.
LEMMA QueueUnprocessedKeeps ==
  ASSUME Ownership, queue_unprocessed
  PROVE  Ownership'
<1> DEFINE promoted(r) == [i \in DOMAIN jobs[r] |-> Promote(jobs[r][i], recs[r])]
<1>1. /\ jobs' = [r \in Recordings |->
           IF Unprocessed(r) THEN Append(promoted(r), NewJob("process", 100))
                             ELSE promoted(r)]
      /\ recs' = [r \in Recordings |->
           IF Unprocessed(r) THEN [recs[r] EXCEPT !.state = "queued"] ELSE recs[r]]
      /\ UNCHANGED <<runs, reset, up, paused, spent>>
  BY DEF queue_unprocessed
<1>2. ASSUME NEW r \in Recordings
      PROVE  /\ jobs'[r] \in Seq(Job)
             /\ DOMAIN jobs[r] \subseteq DOMAIN jobs'[r]
             /\ AtMostTwoLive(jobs'[r])
             /\ \A j : RunOwns(jobs[r], j) => RunOwns(jobs'[r], j)
  <2> DEFINE rows == jobs[r]
             new == promoted(r)
  <2>1. rows \in Seq(Job) /\ AtMostTwoLive(rows) /\ recs[r] \in Recording
    BY OwnershipFacts
  <2>2. \A i \in DOMAIN rows :
          Promote(rows[i], recs[r]) \in Job /\ Promote(rows[i], recs[r]).state = rows[i].state
    BY <2>1, PromoteType
  <2>3. new \in [DOMAIN rows -> Job]
    BY <2>2
  <2>4. \A i \in DOMAIN rows : new[i].state = rows[i].state
    BY <2>2
  <2>5. jobs'[r] = IF Unprocessed(r) THEN Append(new, NewJob("process", 100)) ELSE new
    BY <1>1
  <2>6. Unprocessed(r) => Live(rows) = {}
    BY DEF Unprocessed
  <2> HIDE DEF new, rows
  <2>7. /\ new \in Seq(Job) /\ DOMAIN new = DOMAIN rows /\ AtMostTwoLive(new)
        /\ \A j : RunOwns(rows, j) => RunOwns(new, j)
    BY <2>1, <2>3, <2>4, TableFewerLive
  <2>8. Unprocessed(r) => Live(new) = {}
    BY <2>4, <2>6, <2>7 DEF Live
  <2>9. jobs'[r] = IF Unprocessed(r) THEN enqueue(new, "process", 100) ELSE new
    BY <2>5, <2>8 DEF enqueue
  <2> DEFINE more == enqueue(new, "process", 100)
  <2>10. /\ more \in Seq(Job)
         /\ DOMAIN new \subseteq DOMAIN more
         /\ AtMostTwoLive(more)
         /\ \A j : RunOwns(new, j) => RunOwns(more, j)
    BY <2>7, EnqueueRows DEF JobKind, Priority
  <2> HIDE DEF more
  <2>11. QED
    BY <2>7, <2>9, <2>10 DEF rows, more
<1>3. \A r \in Recordings : recs[r] \in Recording
  BY OwnershipFacts
<1>4. \A r \in Recordings : [recs[r] EXCEPT !.state = "queued"] \in Recording
  BY <1>3, RecordingOps DEF RecordingState
<1> HIDE DEF promoted
<1>5. recs' \in [Recordings -> Recording]
  BY <1>1, <1>3, <1>4
<1>6. jobs' \in [Recordings -> Seq(Job)]
  BY <1>1, <1>2
<1>7. QED
  BY <1>1, <1>2, <1>5, <1>6, EachRecording DEF Ownership, TypeOK

\* Reclaiming puts running rows back in the queue; they stay live.
LEMMA ReclaimKeeps ==
  ASSUME Ownership, NEW stale, _run_reclaim(stale), spent' \in [Events -> Nat],
         \A r \in Recordings : \A i \in DOMAIN jobs[r] :
           <<r, i>> \in stale => jobs[r][i].state = "running"
  PROVE  Ownership'
<1>1. /\ jobs' = [r \in Recordings |-> Reclaimed(r, stale)]
      /\ recs' = [r \in Recordings |->
           release_stranded(IF \E i \in DOMAIN jobs[r] : <<r, i>> \in stale
                            THEN Requeued(recs[r]) ELSE recs[r],
                            Reclaimed(r, stale))]
      /\ UNCHANGED <<runs, reset, up, paused>>
  BY DEF _run_reclaim
<1>2. ASSUME NEW r \in Recordings
      PROVE  /\ jobs'[r] \in [DOMAIN jobs[r] -> Job]
             /\ \A i \in DOMAIN jobs[r] :
                  /\ jobs'[r][i].state = "running" => jobs[r][i].state = "running"
                  /\ jobs'[r][i].state \in LiveStates => jobs[r][i].state \in LiveStates
  <2>1. jobs[r] \in Seq(Job)
    BY OwnershipFacts
  <2>2. \A i \in DOMAIN jobs[r] :
          /\ jobs[r][i] \in Job
          /\ WithState(jobs[r][i], "queued") \in Job
          /\ WithState(jobs[r][i], "queued").state = "queued"
    BY <2>1, WithStateType DEF JobState
  <2>3. jobs'[r] = Reclaimed(r, stale)
    BY <1>1
  <2>4. QED
    BY <2>2, <2>3 DEF Reclaimed, LiveStates
<1>3. \A r \in Recordings : recs[r] \in Recording /\ Requeued(recs[r]) \in Recording
  BY OwnershipFacts, RecordingOps
<1>4. ASSUME NEW r \in Recordings
      PROVE  recs'[r] \in Recording
  <2> DEFINE rec == IF \E i \in DOMAIN jobs[r] : <<r, i>> \in stale
                    THEN Requeued(recs[r]) ELSE recs[r]
  <2>1. rec \in Recording
    BY <1>3
  <2>2. recs'[r] = release_stranded(rec, Reclaimed(r, stale))
    BY <1>1
  <2> HIDE DEF rec
  <2>3. QED
    BY <2>1, <2>2, RecordingOps
<1>5. recs' \in [Recordings -> Recording]
  BY <1>1, <1>4
<1>6. /\ \A r \in Recordings :
           /\ jobs'[r] \in Seq(Job)
           /\ DOMAIN jobs[r] \subseteq DOMAIN jobs'[r]
           /\ AtMostTwoLive(jobs'[r])
      /\ \A x \in runs : RunOwns(jobs'[x.rec], x.job)
  BY <1>2, BulkFewerLive
<1>7. jobs' \in [Recordings -> Seq(Job)]
  BY <1>1, <1>6
<1>8. QED
  BY <1>1, <1>5, <1>6, <1>7, RunsShrink DEF Ownership, TypeOK

\* The reclaim task of the scheduler: reclaim, then release what is stranded.
LEMMA ReclaimTaskKeeps ==
  ASSUME Ownership, ReclaimOrphans \/ ReclaimSilent
  PROVE  Ownership'
<1>1. CASE ReclaimOrphans
  <2>1. PICK stale \in SUBSET UNION {{<<r, i>> : i \in Orphaned(r)} : r \in Recordings} :
          _run_reclaim(stale) /\ UNCHANGED spent
    BY <1>1 DEF ReclaimOrphans
  <2>2. \A r \in Recordings : \A i \in DOMAIN jobs[r] :
          <<r, i>> \in stale => jobs[r][i].state = "running"
    BY DEF Orphaned
  <2>3. QED
    BY <2>1, <2>2, ReclaimKeeps DEF Ownership, TypeOK
<1>2. CASE ReclaimSilent
  <2>1. PICK x \in runs :
          /\ jobs[x.rec][x.job].state = "running"
          /\ Can("silence") /\ Spend("silence")
          /\ _run_reclaim({<<x.rec, x.job>>})
    BY <1>2 DEF ReclaimSilent
  <2>2. spent' \in [Events -> Nat]
    BY <2>1, SpendType DEF Events, Ownership, TypeOK
  <2>3. QED
    BY <2>1, <2>2, ReclaimKeeps
<1>3. QED
  BY <1>1, <1>2

\* The wipe only takes rows out of the live states.
LEMMA ClearKeeps ==
  ASSUME Ownership, clear
  PROVE  Ownership'
<1> DEFINE from == {"queued", "running", "failed"}
<1>1. /\ jobs' = [r \in Recordings |-> CancelRows(jobs[r], from)]
      /\ reset' = "cleared"
      /\ UNCHANGED <<recs, runs, up, paused>>
  BY DEF clear
<1>2. spent' \in [Events -> Nat]
  BY SpendType DEF clear, Events, Ownership, TypeOK
<1>3. ASSUME NEW r \in Recordings
      PROVE  /\ jobs'[r] \in [DOMAIN jobs[r] -> Job]
             /\ \A i \in DOMAIN jobs[r] :
                  /\ jobs'[r][i].state = "running" => jobs[r][i].state = "running"
                  /\ jobs'[r][i].state \in LiveStates => jobs[r][i].state \in LiveStates
  <2>1. jobs[r] \in Seq(Job)
    BY OwnershipFacts
  <2>2. \A i \in DOMAIN jobs[r] :
          /\ jobs[r][i] \in Job
          /\ WithState(jobs[r][i], "cancelled") \in Job
          /\ WithState(jobs[r][i], "cancelled").state = "cancelled"
    BY <2>1, WithStateType DEF JobState
  <2>3. jobs'[r] = CancelRows(jobs[r], from)
    BY <1>1
  <2>4. QED
    BY <2>2, <2>3 DEF CancelRows, LiveStates
<1>4. /\ \A r \in Recordings :
           /\ jobs'[r] \in Seq(Job)
           /\ DOMAIN jobs[r] \subseteq DOMAIN jobs'[r]
           /\ AtMostTwoLive(jobs'[r])
      /\ \A x \in runs : RunOwns(jobs'[x.rec], x.job)
  BY <1>3, BulkFewerLive
<1>5. jobs' \in [Recordings -> Seq(Job)]
  BY <1>1, <1>4
<1>6. QED
  BY <1>1, <1>2, <1>4, <1>5, RunsShrink DEF Ownership, TypeOK

\* Every run is told to stop; it keeps its recording and its job.
LEMMA AbortKeeps ==
  ASSUME Ownership, abort_active
  PROVE  Ownership'
<1> DEFINE stopped(x) == [x EXCEPT !.phase = "stopping"]
<1>1. /\ runs' = {stopped(x) : x \in runs}
      /\ reset' = "aborting"
      /\ UNCHANGED <<jobs, recs, up, paused, spent>>
  BY DEF abort_active
<1>2. \A x \in runs : /\ stopped(x) \in Run
                      /\ stopped(x).rec = x.rec /\ stopped(x).job = x.job
  <2> SUFFICES ASSUME NEW x \in runs
               PROVE  /\ stopped(x) \in Run
                      /\ stopped(x).rec = x.rec /\ stopped(x).job = x.job
    OBVIOUS
  <2>1. x \in Run
    BY OwnershipFacts
  <2>2. QED
    BY <2>1 DEF Run, Phase
<1> HIDE DEF stopped
<1>3. \A y \in runs' : \E x \in runs : y = stopped(x)
  BY <1>1
<1>4. runs' \subseteq Run
  BY <1>2, <1>3
<1>5. OneRunPerRecording'
  BY <1>2, <1>3 DEF Ownership, OneRunPerRecording
<1>6. \A y \in runs' : \E x \in runs :
        x.rec = y.rec /\ x.job = y.job /\ RunOwns(jobs'[x.rec], x.job)
  BY <1>1, <1>2, <1>3, OwnershipFacts
<1>7. \A r \in Recordings :
        DOMAIN jobs[r] \subseteq DOMAIN jobs'[r] /\ AtMostTwoLive(jobs'[r])
  BY <1>1, OwnershipFacts
<1>8. QED
  BY <1>1, <1>4, <1>5, <1>6, <1>7, KeepOwnership DEF Ownership, TypeOK

\* An abort that times out ends the reset and touches no row and no run.
LEMMA AbortTimeoutKeeps ==
  ASSUME Ownership, AbortTimeout
  PROVE  Ownership'
<1>1. spent' \in [Events -> Nat]
  BY SpendType DEF AbortTimeout, Events, Ownership, TypeOK
<1>2. QED
  BY <1>1, RowsUntouched DEF AbortTimeout, Ownership, TypeOK

\* The rebuild enqueues, and never stacks on a live row.
LEMMA RebuildKeeps ==
  ASSUME Ownership, NEW missing \in SUBSET Recordings, rebuild(missing)
  PROVE  Ownership'
<1>1. /\ jobs' = [r \in Recordings |-> RebuiltRows(r, missing)]
      /\ recs' = [r \in Recordings |->
           release_stranded(IF Eligible(r) THEN [recs[r] EXCEPT !.state = "queued"]
                                           ELSE recs[r],
                            RebuiltRows(r, missing))]
      /\ reset' = "idle"
      /\ UNCHANGED <<runs, up, paused, spent>>
  BY DEF rebuild
<1>2. ASSUME NEW r \in Recordings
      PROVE  /\ jobs'[r] \in Seq(Job)
             /\ DOMAIN jobs[r] \subseteq DOMAIN jobs'[r]
             /\ AtMostTwoLive(jobs'[r])
             /\ \A j : RunOwns(jobs[r], j) => RunOwns(jobs'[r], j)
  <2>1. jobs[r] \in Seq(Job) /\ AtMostTwoLive(jobs[r])
    BY OwnershipFacts
  <2>2. AnalysisKind(recs[r]) \in JobKind /\ "thumbnail" \in JobKind
    BY DEF AnalysisKind, JobKind
  <2>3. /\ Continues(jobs[r], enqueue(jobs[r], "thumbnail", 0))
        /\ Continues(jobs[r], enqueue(jobs[r], AnalysisKind(recs[r]), 200))
    BY <2>1, <2>2, EnqueueContinues DEF Priority
  <2>4. Continues(jobs[r], jobs[r])
    BY <2>1 DEF Continues
  <2>5. Continues(jobs[r], jobs'[r])
    BY <1>1, <2>3, <2>4 DEF RebuiltRows
  <2>6. QED
    BY <2>1, <2>5 DEF Continues
<1>3. ASSUME NEW r \in Recordings
      PROVE  recs'[r] \in Recording
  <2> DEFINE rec == IF Eligible(r) THEN [recs[r] EXCEPT !.state = "queued"] ELSE recs[r]
  <2>1. recs[r] \in Recording
    BY OwnershipFacts
  <2>2. [recs[r] EXCEPT !.state = "queued"] \in Recording
    BY <2>1, RecordingOps DEF RecordingState
  <2>3. rec \in Recording
    BY <2>1, <2>2
  <2>4. recs'[r] = release_stranded(rec, RebuiltRows(r, missing))
    BY <1>1
  <2> HIDE DEF rec
  <2>5. QED
    BY <2>3, <2>4, RecordingOps
<1>4. recs' \in [Recordings -> Recording]
  BY <1>1, <1>3
<1>5. jobs' \in [Recordings -> Seq(Job)]
  BY <1>1, <1>2
<1>6. QED
  BY <1>1, <1>2, <1>4, <1>5, EachRecording DEF Ownership, TypeOK

\* The rows of an interrupted process go back to the queue.
LEMMA InterruptedRows ==
  ASSUME NEW rows \in Seq(Job)
  PROVE  /\ reclaim_interrupted(rows) \in Seq(Job)
         /\ DOMAIN reclaim_interrupted(rows) = DOMAIN rows
         /\ AtMostTwoLive(rows) => AtMostTwoLive(reclaim_interrupted(rows))
         /\ \A j : RunOwns(rows, j) => RunOwns(reclaim_interrupted(rows), j)
<1> DEFINE new == reclaim_interrupted(rows)
<1>1. \A i \in DOMAIN rows :
        /\ Interrupted(rows[i]) \in Job
        /\ Interrupted(rows[i]).state # "running"
        /\ Interrupted(rows[i]).state \in LiveStates => rows[i].state \in LiveStates
  BY InterruptedType
<1>2. new \in [DOMAIN rows -> Job] /\ \A i \in DOMAIN rows : new[i] = Interrupted(rows[i])
  BY <1>1 DEF reclaim_interrupted
<1> HIDE DEF new
<1>3. /\ new \in Seq(Job)
      /\ DOMAIN new = DOMAIN rows
      /\ AtMostTwoLive(rows) => AtMostTwoLive(new)
      /\ \A j : RunOwns(rows, j) => RunOwns(new, j)
  BY <1>1, <1>2, TableFewerLive
<1>4. QED
  BY <1>3 DEF new

\* A crash, an orderly stop and the start that follows.
LEMMA ProcessKeeps ==
  ASSUME Ownership, Crash \/ stop \/ \E review \in SUBSET Recordings : start(review)
  PROVE  Ownership'
<1>1. \A r \in Recordings :
        /\ jobs[r] \in Seq(Job) /\ recs[r] \in Recording /\ AtMostTwoLive(jobs[r])
        /\ InterruptedRec(r) \in Recording
  BY OwnershipFacts, RecordingOps DEF InterruptedRec
<1>2. CASE Crash
  <2>1. spent' \in [Events -> Nat]
    BY <1>2, SpendType DEF Crash, Events, Ownership, TypeOK
  <2>2. QED
    BY <1>2, <2>1, RowsUntouched DEF Crash, Ownership, TypeOK
<1>3. CASE stop
  <2>1. spent' \in [Events -> Nat]
    BY <1>3, SpendType DEF stop, Events, Ownership, TypeOK
  <2>2. jobs' \in [Recordings -> Seq(Job)] /\ recs' \in [Recordings -> Recording]
    BY <1>1, <1>3, InterruptedRows DEF stop
  <2>3. \A r \in Recordings :
          /\ DOMAIN jobs[r] \subseteq DOMAIN jobs'[r]
          /\ AtMostTwoLive(jobs'[r])
          /\ \A j : RunOwns(jobs[r], j) => RunOwns(jobs'[r], j)
    BY <1>1, <1>3, InterruptedRows DEF stop
  <2>4. QED
    BY <1>3, <2>1, <2>2, <2>3, EachRecording DEF stop, Ownership, TypeOK
<1>4. ASSUME NEW review \in SUBSET Recordings, start(review)
      PROVE  Ownership'
  <2> DEFINE rows(r) == reclaim_interrupted(jobs[r])
             more(r) == enqueue(rows(r), AnalysisKind(recs[r]),
                                IF recs[r].analysed THEN 200 ELSE 100)
             rec(r) == release_stranded(InterruptedRec(r), rows(r))
  <2>1. /\ up' = TRUE
        /\ jobs' = [r \in Recordings |-> IF r \in review THEN more(r) ELSE rows(r)]
        /\ recs' = [r \in Recordings |-> IF r \in review THEN Reviewed(rec(r)) ELSE rec(r)]
        /\ UNCHANGED <<runs, reset, paused, spent>>
    BY <1>4 DEF start
  <2>2. ASSUME NEW r \in Recordings
        PROVE  /\ rows(r) \in Seq(Job)
               /\ DOMAIN jobs[r] = DOMAIN rows(r)
               /\ AtMostTwoLive(rows(r))
               /\ \A j : RunOwns(jobs[r], j) => RunOwns(rows(r), j)
    BY <1>1, InterruptedRows
  <2>3. ASSUME NEW r \in Recordings
        PROVE  rec(r) \in Recording /\ Reviewed(rec(r)) \in Recording
    BY <1>1, RecordingOps
  <2> HIDE DEF rows, rec
  <2>4. ASSUME NEW r \in Recordings
        PROVE  /\ more(r) \in Seq(Job)
               /\ DOMAIN rows(r) \subseteq DOMAIN more(r)
               /\ AtMostTwoLive(more(r))
               /\ \A j : RunOwns(rows(r), j) => RunOwns(more(r), j)
    BY <2>2, EnqueueRows DEF AnalysisKind, JobKind, Priority
  <2> HIDE DEF more
  <2>5. jobs' \in [Recordings -> Seq(Job)] /\ recs' \in [Recordings -> Recording]
    BY <2>1, <2>2, <2>3, <2>4
  <2>6. \A r \in Recordings :
          /\ DOMAIN jobs[r] \subseteq DOMAIN jobs'[r]
          /\ AtMostTwoLive(jobs'[r])
          /\ \A j : RunOwns(jobs[r], j) => RunOwns(jobs'[r], j)
    BY <2>1, <2>2, <2>4
  <2>7. QED
    BY <2>1, <2>5, <2>6, EachRecording DEF Ownership, TypeOK
<1>5. QED
  BY <1>2, <1>3, <1>4

-----------------------------------------------------------------------------
(* The theorems.                                                           *)

\* An empty queue satisfies Ownership.
LEMMA OwnershipInit == Init => Ownership
<1> SUFFICES ASSUME Init PROVE Ownership
  OBVIOUS
<1>1. Scanned("discovered", FALSE) \in Recording /\ Scanned("completed", TRUE) \in Recording
  BY DEF Scanned, Recording, RecordingState
<1>2. /\ jobs \in [Recordings -> Seq(Job)] /\ runs = {}
      /\ \A r \in Recordings : jobs[r] = <<>>
  BY DEF Init
<1>3. TypeOK
  BY <1>1, <1>2, BoundsAssumption DEF Init, TypeOK
<1>4. OneRunPerRecording
  BY <1>2 DEF OneRunPerRecording
<1>5. LiveRows
  BY <1>2 DEF LiveRows, AtMostTwoLive, Live
<1>6. QED
  BY <1>3, <1>4, <1>5 DEF Ownership

\* Every step of workers, API, scheduler, reset and process keeps Ownership.
LEMMA OwnershipNext == Ownership /\ [Next]_vars => Ownership'
<1> SUFFICES ASSUME Ownership, [Next]_vars PROVE Ownership'
  OBVIOUS
<1>1. ASSUME NEW x \in runs, RunStep(x) PROVE Ownership'
  BY <1>1, RunStepKeeps
<1>2. ASSUME NEW r \in Recordings, NEW i \in DOMAIN jobs[r], JobStep(r, i)
      PROVE  Ownership'
  BY <1>2, JobStepKeeps
<1>3. ASSUME NEW r \in Recordings, NEW p \in {50, 200}, Reprocess(r, p)
      PROVE  Ownership'
  BY <1>3, ReprocessKeeps
<1>4. ASSUME NEW r \in Recordings, NEW a \in {"keep", "hide", "delete"},
             apply_known_damaged_policy(r, a)
      PROVE  Ownership'
  BY <1>4, KnownPolicyKeeps
<1>5. ASSUME NEW missing \in SUBSET Recordings, rebuild(missing)
      PROVE  Ownership'
  BY <1>5, RebuildKeeps
<1>6. CASE UNCHANGED vars
  BY <1>6, RowsUntouched DEF vars, Ownership, TypeOK
<1>7. QED
  BY <1>1, <1>2, <1>3, <1>4, <1>5, <1>6, RetryFailedKeeps, PauseKeeps,
     QueueUnprocessedKeeps, ReclaimTaskKeeps, ClearKeeps, AbortKeeps,
     AbortTimeoutKeeps, ProcessKeeps
     DEF Next

\* The inductive invariant holds in every reachable state of the queue.
THEOREM OwnershipInvariant == Spec => []Ownership
BY OwnershipInit, OwnershipNext, PTL DEF Spec

\* The tables, the pool's registry and the reset keep their types, and every run
\* is registered for a job row that exists.
THEOREM TypeCorrect == Spec => []TypeOK
<1>1. Ownership => TypeOK
  BY DEF Ownership
<1>2. QED
  BY <1>1, OwnershipInvariant, PTL

\* No two runs of the pool ever work on the same recording, for any number of
\* workers, recordings, resets, cancellations, reclaims and crashes.
THEOREM OneRunTheorem == Spec => []OneRunPerRecording
<1>1. Ownership => OneRunPerRecording
  BY DEF Ownership
<1>2. QED
  BY <1>1, OwnershipInvariant, PTL

\* A recording never has two RUNNING rows or three live ones, and while a run is
\* in flight at most one other row of its recording is live.
THEOREM LiveRowsTheorem == Spec => []LiveRows
<1>1. Ownership => LiveRows
  BY DEF Ownership
<1>2. QED
  BY <1>1, OwnershipInvariant, PTL

-----------------------------------------------------------------------------
(* What a job has spent, and what it keeps.                                 *)

\* What a job may have spent: its attempts and those lost without a refund.
Ceiling == MaxAttempts + spent["lost"] + spent["silence"]

\* A queued row still has the attempt that its claim will count.
Fits(job, n) ==
  /\ job.refunds <= MaxContention
  /\ job.attempts <= n
  /\ job.state = "queued" => job.attempts < n

\* A run that will answer for its row.
Held(r, i) == \E x \in runs : x.rec = r /\ x.job = i /\ x.phase # "stopping"

\* A running row whose run is gone has an attempt left for the reclaim that
\* queues it again without a refund; a wiped queue runs nothing.
Budgeted ==
  \A r \in Recordings : \A i \in DOMAIN jobs[r] :
    /\ Fits(jobs[r][i], Ceiling)
    /\ up /\ jobs[r][i].state = "running" => jobs[r][i].attempts < Ceiling \/ Held(r, i)
    /\ jobs[r][i].state = "running" => reset # "cleared"

\* Every row of new is one of rows, or fits and does not run.
Quiet(rows, new, n) ==
  \A i \in DOMAIN new :
    \/ i \in DOMAIN rows /\ new[i] = rows[i]
    \/ Fits(new[i], n) /\ new[i].state # "running"

-----------------------------------------------------------------------------
(* One row.                                                                *)

\* A row that leaves the queue's live states keeps its counters.
LEMMA WithStateFits ==
  ASSUME NEW job \in Job, NEW state \in JobState, NEW n \in Nat, Fits(job, n),
         state # "queued" \/ job.attempts < n
  PROVE  Fits(WithState(job, state), n)
<1>1. /\ WithState(job, state).attempts = job.attempts
      /\ WithState(job, state).refunds = job.refunds
      /\ WithState(job, state).state = state
  BY DEF WithState, Job
<1>2. QED
  BY <1>1 DEF Fits

\* A row whose backoff is over keeps its counters.
LEMMA ReadyFits ==
  ASSUME NEW job \in Job, NEW n \in Nat, Fits(job, n)
  PROVE  Fits(Ready(job), n)
<1>1. /\ Ready(job).attempts = job.attempts
      /\ Ready(job).refunds = job.refunds
      /\ Ready(job).state = job.state
  BY DEF Ready, Job
<1>2. QED
  BY <1>1 DEF Fits

\* A queued row has room for the attempt that its claim counts.
LEMMA ClaimedFits ==
  ASSUME NEW job \in Job, NEW n \in Nat, Fits(job, n), job.state = "queued"
  PROVE  Fits(ClaimedJob(job), n)
<1>1. /\ ClaimedJob(job).attempts = job.attempts + 1
      /\ ClaimedJob(job).refunds = job.refunds
      /\ ClaimedJob(job).state = "running"
  BY DEF ClaimedJob, Job
<1>2. job.attempts \in Nat
  BY DEF Job
<1>3. QED
  BY <1>1, <1>2 DEF Fits

\* A row put back by the user starts from nothing.
LEMMA RetriedFits ==
  ASSUME NEW job \in Job, NEW n \in Nat, n > 0
  PROVE  Fits(Retried(job), n)
<1>1. /\ Retried(job).attempts = 0
      /\ Retried(job).refunds = 0
  BY DEF Retried, Job
<1>2. MaxContention \in Nat
  BY BoundsAssumption
<1>3. QED
  BY <1>1, <1>2 DEF Fits

\* So does a new row.
LEMMA NewJobFits ==
  ASSUME NEW kind \in JobKind, NEW priority \in Priority, NEW n \in Nat, n > 0
  PROVE  Fits(NewJob(kind, priority), n) /\ NewJob(kind, priority).state = "queued"
BY BoundsAssumption DEF NewJob, Fits

\* A refund leaves less than there may be.
LEMMA RefundFits ==
  ASSUME NEW m \in Nat, NEW n \in Nat, m <= n, n > 0
  PROVE  Refund(m) < n
BY DEF Refund

\* An interrupted row gets its attempt back.
LEMMA InterruptedFits ==
  ASSUME NEW job \in Job, NEW n \in Nat, n > 0, Fits(job, n)
  PROVE  Interrupted(job) = job \/ (Fits(Interrupted(job), n) /\ Interrupted(job).state = "queued")
<1>1. CASE job.state # "running"
  BY <1>1 DEF Interrupted
<1>2. CASE job.state = "running"
  <2>1. /\ Interrupted(job).attempts = Refund(job.attempts)
        /\ Interrupted(job).refunds = job.refunds
        /\ Interrupted(job).state = "queued"
    BY <1>2 DEF Interrupted, Job
  <2>2. job.attempts \in Nat /\ job.attempts <= n
    BY DEF Job, Fits
  <2>3. Refund(job.attempts) < n /\ Refund(job.attempts) \in Nat
    BY <2>2, RefundFits, RefundType
  <2>4. QED
    BY <2>1, <2>3 DEF Fits
<1>3. QED
  BY <1>1, <1>2

\* Whatever fail decides, the row may still be claimed if it is queued.
LEMMA FailedFits ==
  ASSUME NEW job \in Job, NEW outcome \in Outcome, NEW n \in Nat,
         MaxAttempts <= n, Fits(job, n)
  PROVE  Fits(FailedJob(job, outcome), n)
<1>0. n > 0 /\ MaxAttempts \in Nat /\ MaxContention \in Nat
  BY BoundsAssumption
<1>1. job.attempts \in Nat /\ job.refunds \in Nat /\ job.attempts <= n
  BY DEF Job, Fits
<1>2. Fits(WithState(job, "failed"), n)
  BY WithStateFits DEF JobState
<1>3. ASSUME job.refunds < MaxContention
      PROVE  Fits(RetryFree(job), n)
  <2>1. /\ RetryFree(job).attempts = Refund(job.attempts)
        /\ RetryFree(job).refunds = job.refunds + 1
    BY DEF RetryFree, Job
  <2>2. Refund(job.attempts) < n /\ Refund(job.attempts) \in Nat
    BY <1>0, <1>1, RefundFits, RefundType
  <2>3. QED
    BY <1>0, <1>1, <1>3, <2>1, <2>2 DEF Fits
<1>4. ASSUME job.attempts < MaxAttempts
      PROVE  Fits(RetryLater(job), n)
  <2>1. /\ RetryLater(job).attempts = job.attempts
        /\ RetryLater(job).refunds = job.refunds
    BY DEF RetryLater, Job
  <2>2. QED
    BY <1>0, <1>1, <1>4, <2>1 DEF Fits
<1>5. QED
  BY <1>2, <1>3, <1>4 DEF FailedJob

\* A promoted row keeps its counters.
LEMMA PromoteFits ==
  ASSUME NEW job \in Job, NEW rec \in Recording, NEW n \in Nat, Fits(job, n)
  PROVE  Promote(job, rec) = job \/ (Fits(Promote(job, rec), n) /\ Promote(job, rec).state = "queued")
<1>1. CASE Promote(job, rec) # job
  <2>1. job.state = "queued" /\ Promote(job, rec) = [job EXCEPT !.kind = "process", !.priority = 100]
    BY <1>1 DEF Promote
  <2>2. /\ Promote(job, rec).attempts = job.attempts
        /\ Promote(job, rec).refunds = job.refunds
        /\ Promote(job, rec).state = "queued"
    BY <2>1 DEF Job
  <2>3. QED
    BY <2>1, <2>2 DEF Fits
<1>2. QED
  BY <1>1

-----------------------------------------------------------------------------
(* The rows of one recording.                                              *)

\* Cancelling rows leaves them what they spent.
LEMMA CancelQuiet ==
  ASSUME NEW rows \in Seq(Job), NEW from, NEW n \in Nat,
         \A i \in DOMAIN rows : Fits(rows[i], n)
  PROVE  Quiet(rows, CancelRows(rows, from), n)
<1>1. ASSUME NEW i \in DOMAIN rows
      PROVE  /\ Fits(WithState(rows[i], "cancelled"), n)
             /\ WithState(rows[i], "cancelled").state = "cancelled"
  <2>1. rows[i] \in Job /\ Fits(rows[i], n)
    OBVIOUS
  <2>2. QED
    BY <2>1, WithStateFits, WithStateType DEF JobState
<1>2. QED
  BY <1>1 DEF Quiet, CancelRows

\* A new row beside quiet ones.
LEMMA AppendQuiet ==
  ASSUME NEW rows \in Seq(Job), NEW new \in Seq(Job), NEW job \in Job, NEW n \in Nat,
         Quiet(rows, new, n), Fits(job, n), job.state = "queued"
  PROVE  Quiet(rows, Append(new, job), n)
<1>1. /\ Len(Append(new, job)) = Len(new) + 1
      /\ Append(new, job)[Len(new) + 1] = job
      /\ \A i \in 1..Len(new) : Append(new, job)[i] = new[i]
      /\ Append(new, job) \in Seq(Job)
  BY AppendProperties
<1>2. DOMAIN new = 1..Len(new) /\ Len(new) \in Nat /\ DOMAIN Append(new, job) = 1..(Len(new) + 1)
  BY <1>1
<1>3. QED
  BY <1>1, <1>2 DEF Quiet

\* enqueue adds a row that fits or none.
LEMMA EnqueueQuiet ==
  ASSUME NEW rows \in Seq(Job), NEW new \in Seq(Job), NEW kind \in JobKind,
         NEW priority \in Priority, NEW n \in Nat, n > 0, Quiet(rows, new, n)
  PROVE  Quiet(rows, enqueue(new, kind, priority), n)
<1> DEFINE job == NewJob(kind, priority)
<1>1. job \in Job /\ job.state = "queued" /\ Fits(job, n)
  BY NewJobType, NewJobFits
<1>2. enqueue(new, kind, priority) = new \/ enqueue(new, kind, priority) = Append(new, job)
  BY DEF enqueue
<1> HIDE DEF job
<1>3. Quiet(rows, Append(new, job), n)
  BY <1>1, AppendQuiet
<1>4. QED
  BY <1>2, <1>3

\* So does a forced request, which cancels the rows it supersedes.
LEMMA ForceQuiet ==
  ASSUME NEW rows \in Seq(Job), NEW kind \in JobKind, NEW priority \in Priority,
         NEW n \in Nat, n > 0, \A i \in DOMAIN rows : Fits(rows[i], n)
  PROVE  Quiet(rows, enqueue_force(rows, kind, priority), n)
<1> DEFINE job == NewJob(kind, priority)
           kept == CancelRows(rows, {"queued", "failed"})
<1>1. job \in Job /\ job.state = "queued" /\ Fits(job, n)
  BY NewJobType, NewJobFits
<1>2. Quiet(rows, kept, n)
  BY CancelQuiet
<1>3. kept \in [DOMAIN rows -> Job]
  BY WithStateType DEF CancelRows, JobState
<1>4. kept \in Seq(Job)
  BY <1>3, TableIsSeq
<1>5. enqueue_force(rows, kind, priority) = Append(kept, job)
  BY DEF enqueue_force
<1> HIDE DEF job, kept
<1>6. QED
  BY <1>1, <1>2, <1>4, <1>5, AppendQuiet

\* The outcome of a run leaves its row within the ceiling and not running.
LEMMA RecordedQuiet ==
  ASSUME NEW rows \in Seq(Job), NEW j \in DOMAIN rows, NEW outcome \in Outcome,
         NEW n \in Nat, MaxAttempts <= n, Fits(rows[j], n)
  PROVE  /\ Quiet(rows, Recorded(rows, j, outcome), n)
         /\ Recorded(rows, j, outcome) \in Seq(Job)
         /\ DOMAIN Recorded(rows, j, outcome) = DOMAIN rows
         /\ Recorded(rows, j, outcome)[j].state # "running"
<1> DEFINE job == IF outcome = "ok" THEN WithState(rows[j], "completed")
                  ELSE FailedJob(rows[j], outcome)
           new == [rows EXCEPT ![j] = job]
<1>1. rows[j] \in Job
  OBVIOUS
<1>2. job \in Job /\ job.state # "running"
  BY <1>1, WithStateType, FailedType DEF JobState
<1>3. Fits(job, n)
  BY <1>1, WithStateFits, FailedFits DEF JobState
<1>4. Recorded(rows, j, outcome) = new
  BY DEF Recorded, complete, fail
<1> HIDE DEF job
<1>5. new \in [DOMAIN rows -> Job] /\ new[j] = job
  BY <1>2
<1>6. new \in Seq(Job) /\ DOMAIN new = DOMAIN rows
  BY <1>5, TableIsSeq
<1>7. \A i \in DOMAIN rows : new[i] = IF i = j THEN job ELSE rows[i]
  OBVIOUS
<1> HIDE DEF new
<1>8. Quiet(rows, new, n)
  BY <1>2, <1>3, <1>6, <1>7 DEF Quiet
<1>9. QED
  BY <1>2, <1>4, <1>5, <1>6, <1>8

-----------------------------------------------------------------------------
(* The frame of a step.                                                    *)

\* What Budgeted says about one row, with the types it needs.
LEMMA BudgetFacts ==
  ASSUME TypeOK
  PROVE  /\ Ceiling \in Nat /\ Ceiling > 0 /\ MaxAttempts <= Ceiling
         /\ \A r \in Recordings :
              /\ jobs[r] \in Seq(Job) /\ recs[r] \in Recording
              /\ \A i \in DOMAIN jobs[r] : jobs[r][i] \in Job /\ jobs[r][i].attempts \in Nat
         /\ \A x \in runs :
              /\ x.rec \in Recordings /\ x.outcome \in Outcome
              /\ x.job \in DOMAIN jobs[x.rec]
<1>1. spent["lost"] \in Nat /\ spent["silence"] \in Nat
  BY DEF TypeOK, Events
<1>2. Ceiling \in Nat /\ Ceiling > 0 /\ MaxAttempts <= Ceiling
  BY <1>1, BoundsAssumption DEF Ceiling
<1>3. \A r \in Recordings :
        /\ jobs[r] \in Seq(Job) /\ recs[r] \in Recording
        /\ \A i \in DOMAIN jobs[r] : jobs[r][i] \in Job
  BY DEF TypeOK
<1>4. \A r \in Recordings : \A i \in DOMAIN jobs[r] : jobs[r][i].attempts \in Nat
  BY <1>3 DEF Job
<1>5. \A x \in runs :
        /\ x.rec \in Recordings /\ x.outcome \in Outcome
        /\ x.job \in DOMAIN jobs[x.rec]
  BY DEF TypeOK, Run
<1>6. QED
  BY <1>2, <1>3, <1>4, <1>5

\* The ceiling only rises.
LEMMA CeilingRises ==
  ASSUME TypeOK, NEW event \in Events, UNCHANGED spent \/ Spend(event)
  PROVE  /\ Ceiling \in Nat /\ Ceiling' \in Nat /\ Ceiling <= Ceiling'
         /\ Spend(event) /\ event \in {"lost", "silence"} => Ceiling < Ceiling'
<1>1. spent["lost"] \in Nat /\ spent["silence"] \in Nat /\ MaxAttempts \in Nat
  BY BoundsAssumption DEF TypeOK, Events
<1>2. CASE UNCHANGED spent
  <2>1. Ceiling' = Ceiling /\ Ceiling \in Nat
    BY <1>1, <1>2 DEF Ceiling
  <2>2. ~ Spend(event)
    <3>1. spent[event] \in Nat /\ spent \in [Events -> Nat]
      BY DEF TypeOK
    <3>2. Spend(event) => spent'[event] = spent[event] + 1
      BY <3>1 DEF Spend
    <3>3. QED
      BY <1>2, <3>1, <3>2
  <2>3. QED
    BY <2>1, <2>2
<1>3. CASE Spend(event)
  <2>1. /\ spent'["lost"] = spent["lost"] + (IF event = "lost" THEN 1 ELSE 0)
        /\ spent'["silence"] = spent["silence"] + (IF event = "silence" THEN 1 ELSE 0)
    BY <1>3 DEF Spend, TypeOK, Events
  <2>2. QED
    BY <1>1, <2>1 DEF Ceiling
<1>4. QED
  BY <1>2, <1>3

\* A step whose rows are quiet keeps Budgeted when the running rows it leaves
\* alone keep their runs or have an attempt left.
LEMMA KeepBudget ==
  ASSUME TypeOK, Budgeted, Ceiling' \in Nat, Ceiling <= Ceiling',
         \A r \in Recordings : Quiet(jobs[r], jobs'[r], Ceiling'),
         up' => up, reset' = "cleared" => reset = "cleared",
         \A r \in Recordings : \A i \in DOMAIN jobs[r] :
           jobs[r][i].state = "running" /\ jobs'[r][i] = jobs[r][i] /\ up' /\ Held(r, i)
             => jobs[r][i].attempts < Ceiling' \/ Held(r, i)'
  PROVE  Budgeted'
<1> SUFFICES ASSUME NEW r \in Recordings, NEW i \in DOMAIN jobs'[r]
             PROVE  /\ Fits(jobs'[r][i], Ceiling')
                    /\ up' /\ jobs'[r][i].state = "running" =>
                         jobs'[r][i].attempts < Ceiling' \/ Held(r, i)'
                    /\ jobs'[r][i].state = "running" => reset' # "cleared"
  BY DEF Budgeted, Fits, Held
<1>1. CASE i \in DOMAIN jobs[r] /\ jobs'[r][i] = jobs[r][i]
  <2>1. /\ Fits(jobs[r][i], Ceiling)
        /\ up /\ jobs[r][i].state = "running" => jobs[r][i].attempts < Ceiling \/ Held(r, i)
        /\ jobs[r][i].state = "running" => reset # "cleared"
    BY <1>1 DEF Budgeted
  <2>2. Ceiling \in Nat /\ jobs[r][i].attempts \in Nat
    BY <1>1, BudgetFacts
  <2>3. Fits(jobs[r][i], Ceiling')
    BY <2>1, <2>2 DEF Fits
  <2>4. QED
    BY <1>1, <2>1, <2>2, <2>3
<1>2. CASE Fits(jobs'[r][i], Ceiling') /\ jobs'[r][i].state # "running"
  BY <1>2
<1>3. QED
  BY <1>1, <1>2 DEF Quiet

\* The same for a step that leaves no row running.
LEMMA NothingRuns ==
  ASSUME TypeOK, Budgeted, Ceiling' \in Nat, Ceiling <= Ceiling',
         \A r \in Recordings : Quiet(jobs[r], jobs'[r], Ceiling'),
         \A r \in Recordings : \A i \in DOMAIN jobs'[r] : jobs'[r][i].state # "running"
  PROVE  Budgeted'
<1> SUFFICES ASSUME NEW r \in Recordings, NEW i \in DOMAIN jobs'[r]
             PROVE  Fits(jobs'[r][i], Ceiling')
  BY DEF Budgeted, Fits, Held
<1>1. CASE i \in DOMAIN jobs[r] /\ jobs'[r][i] = jobs[r][i]
  <2>1. Fits(jobs[r][i], Ceiling) /\ Ceiling \in Nat /\ jobs[r][i].attempts \in Nat
    BY <1>1, BudgetFacts DEF Budgeted
  <2>2. QED
    BY <1>1, <2>1 DEF Fits
<1>2. QED
  BY <1>1 DEF Quiet

\* Rows that are as they were, or that a step does not touch, are quiet.
LEMMA SameQuiet ==
  ASSUME NEW rows, NEW n
  PROVE  Quiet(rows, rows, n)
BY DEF Quiet

-----------------------------------------------------------------------------
(* Every action keeps Budgeted.                                            *)

\* A run that goes on answers for its row as before.
LEMMA AdvanceBudget ==
  ASSUME TypeOK, Budgeted, NEW x \in runs, NEW phase \in Phase \ {"stopping"},
         NEW outcome \in Outcome, Advance(x, phase, outcome),
         Ceiling' \in Nat, Ceiling <= Ceiling', UNCHANGED <<jobs, reset, up>>
  PROVE  Budgeted'
<1> DEFINE new == [x EXCEPT !.phase = phase, !.outcome = outcome]
<1>1. x \in Run
  BY DEF TypeOK
<1>2. new.rec = x.rec /\ new.job = x.job /\ new.phase = phase
  BY <1>1 DEF Run
<1>3. runs' = (runs \ {x}) \cup {new}
  BY DEF Advance
<1> HIDE DEF new
<1>4. \A r, i : Held(r, i) => Held(r, i)'
  BY <1>2, <1>3 DEF Held
<1>5. QED
  BY <1>4, KeepBudget, SameQuiet

\* A run that leaves or stops, its row no longer running.
LEMMA LeaveBudget ==
  ASSUME TypeOK, Budgeted, NEW x \in runs,
         Ceiling' \in Nat, Ceiling <= Ceiling',
         \A r \in Recordings : Quiet(jobs[r], jobs'[r], Ceiling'),
         \A y \in runs \ {x} : y \in runs',
         jobs[x.rec][x.job].state = "running" =>
           \/ x.phase = "stopping"
           \/ jobs'[x.rec][x.job] # jobs[x.rec][x.job]
           \/ jobs[x.rec][x.job].attempts < Ceiling',
         UNCHANGED <<reset, up>>
  PROVE  Budgeted'
<1>1. ASSUME NEW r \in Recordings, NEW i \in DOMAIN jobs[r],
             jobs[r][i].state = "running", jobs'[r][i] = jobs[r][i], Held(r, i)
      PROVE  jobs[r][i].attempts < Ceiling' \/ Held(r, i)'
  <2>1. PICK y \in runs : y.rec = r /\ y.job = i /\ y.phase # "stopping"
    BY <1>1 DEF Held
  <2>2. CASE y = x
    BY <1>1, <2>1, <2>2
  <2>3. CASE y # x
    BY <2>1, <2>3 DEF Held
  <2>4. QED
    BY <2>2, <2>3
<1>2. QED
  BY <1>1, KeepBudget

\* The steps of a run: its row leaves RUNNING with its outcome, or the lost
\* outcome raises the ceiling.
LEMMA RunStepBudget ==
  ASSUME TypeOK, Budgeted, NEW x \in runs, RunStep(x)
  PROVE  Budgeted'
<1>1. /\ x.rec \in Recordings /\ x.outcome \in Outcome /\ x.job \in DOMAIN jobs[x.rec]
      /\ jobs[x.rec] \in Seq(Job) /\ recs[x.rec] \in Recording
      /\ Ceiling \in Nat /\ Ceiling > 0 /\ MaxAttempts <= Ceiling
      /\ Fits(jobs[x.rec][x.job], Ceiling)
      /\ jobs \in [Recordings -> Seq(Job)]
  BY BudgetFacts DEF Budgeted, TypeOK
<1>2. CASE StartWork(x)
  BY <1>1, <1>2, AdvanceBudget, CeilingRises DEF StartWork, Phase, Events
<1>3. ASSUME NEW o \in Outcome, _make_thumbnail(x, o)
      PROVE  Budgeted'
  BY <1>3, AdvanceBudget, CeilingRises DEF _make_thumbnail, Phase, Events
<1>4. ASSUME NEW o \in Outcome, NEW a \in {"keep", "hide", "delete"}, _process(x, o, a)
      PROVE  Budgeted'
  <2>1. UNCHANGED spent \/ Spend("policy")
    BY <1>4 DEF _process
  <2>2. Ceiling' \in Nat /\ Ceiling <= Ceiling'
    BY <2>1, CeilingRises DEF Events
  <2>3. QED
    BY <1>4, <2>2, AdvanceBudget DEF _process, Phase
<1>5. ASSUME NEW o \in {"error", "locked"}, NEW a \in BOOLEAN, Raise(x, o, a)
      PROVE  Budgeted'
  <2>1. Ceiling' \in Nat /\ Ceiling <= Ceiling'
    BY <1>5, CeilingRises DEF Raise, Events
  <2>2. QED
    BY <1>5, <2>1, AdvanceBudget DEF Raise, Phase, Outcome
<1>6. CASE _finish(x)
  <2> DEFINE rows == Recorded(jobs[x.rec], x.job, x.outcome)
             after == _follow_up_after_thumbnail(rows, x.job, recs[x.rec])
  <2>1. /\ Quiet(jobs[x.rec], rows, Ceiling) /\ rows \in Seq(Job)
        /\ DOMAIN rows = DOMAIN jobs[x.rec] /\ rows[x.job].state # "running"
    BY <1>1, RecordedQuiet
  <2>2. /\ \/ jobs' = jobs /\ jobs[x.rec][x.job].state = "cancelled"
           \/ jobs' = [jobs EXCEPT ![x.rec] = after]
        /\ runs' = runs \ {x}
        /\ UNCHANGED <<reset, up, spent>>
    BY <1>6 DEF _finish, Leave
  <2>3. after = rows \/ after = enqueue(rows, AnalysisKind(recs[x.rec]), 200)
    BY DEF _follow_up_after_thumbnail
  <2> HIDE DEF rows, after
  <2>4. AnalysisKind(recs[x.rec]) \in JobKind /\ 200 \in Priority
    BY DEF AnalysisKind, JobKind, Priority
  <2>5. Quiet(jobs[x.rec], after, Ceiling)
    BY <1>1, <2>1, <2>3, <2>4, EnqueueQuiet
  <2>6. after[x.job] = rows[x.job]
    <3>1. CASE after = rows
      BY <3>1
    <3>2. CASE after = Append(rows, NewJob(AnalysisKind(recs[x.rec]), 200))
      BY <1>1, <2>1, <3>2
    <3>3. QED
      BY <2>3, <3>1, <3>2 DEF enqueue
  <2>7. Ceiling' = Ceiling
    BY <2>2 DEF Ceiling
  <2>8. \A r \in Recordings : Quiet(jobs[r], jobs'[r], Ceiling')
    BY <1>1, <2>2, <2>5, <2>7, SameQuiet
  <2>9. jobs[x.rec][x.job].state = "running" => jobs'[x.rec][x.job] # jobs[x.rec][x.job]
    BY <1>1, <2>1, <2>2, <2>6
  <2>10. QED
    BY <1>1, <2>2, <2>7, <2>8, <2>9, LeaveBudget
<1>7. CASE OutcomeLost(x)
  <2>1. Ceiling' \in Nat /\ Ceiling < Ceiling'
    BY <1>7, CeilingRises DEF OutcomeLost, Events
  <2>2. jobs[x.rec][x.job].attempts \in Nat /\ jobs[x.rec][x.job].attempts <= Ceiling
    BY <1>1, BudgetFacts DEF Fits
  <2>3. jobs[x.rec][x.job].attempts < Ceiling'
    BY <1>1, <2>1, <2>2
  <2>4. UNCHANGED <<jobs, reset, up>> /\ runs' = runs \ {x}
    BY <1>7 DEF OutcomeLost, Leave
  <2>5. QED
    BY <1>1, <2>1, <2>3, <2>4, LeaveBudget, SameQuiet
<1>8. CASE _heartbeat(x)
  <2>1. /\ jobs[x.rec][x.job].state = "cancelled" /\ UNCHANGED <<jobs, reset, up, spent>>
        /\ \A y \in runs \ {x} : y \in runs'
    BY <1>8 DEF _heartbeat, Advance
  <2>2. Ceiling' = Ceiling
    BY <2>1 DEF Ceiling
  <2>3. QED
    BY <1>1, <2>1, <2>2, LeaveBudget, SameQuiet
<1>9. CASE Stopped(x)
  <2>1. x.phase = "stopping" /\ UNCHANGED <<jobs, reset, up, spent>> /\ runs' = runs \ {x}
    BY <1>9 DEF Stopped, Leave
  <2>2. Ceiling' = Ceiling
    BY <2>1 DEF Ceiling
  <2>3. QED
    BY <1>1, <2>1, <2>2, LeaveBudget, SameQuiet
<1>10. QED
  BY <1>2, <1>3, <1>4, <1>5, <1>6, <1>7, <1>8, <1>9 DEF RunStep

\* The claim spends the attempt that a queued row still has, and registers the
\* run that answers for it.
LEMMA ClaimBudget ==
  ASSUME TypeOK, Budgeted, NEW r \in Recordings, NEW i \in DOMAIN jobs[r], claim_next(r, i)
  PROVE  Budgeted'
<1> DEFINE job == ClaimedJob(jobs[r][i])
           run == [rec |-> r, job |-> i, phase |-> "starting", outcome |-> "ok"]
<1>1. /\ jobs[r] \in Seq(Job) /\ jobs[r][i] \in Job /\ Ceiling \in Nat
      /\ Fits(jobs[r][i], Ceiling) /\ jobs \in [Recordings -> Seq(Job)]
  BY BudgetFacts DEF Budgeted, TypeOK
<1>2. /\ jobs[r][i].state = "queued" /\ reset = "idle"
      /\ jobs' = [jobs EXCEPT ![r] = [jobs[r] EXCEPT ![i] = job]]
      /\ runs' = runs \cup {run}
      /\ UNCHANGED <<reset, up, spent>>
  BY DEF claim_next, Runnable
<1>3. Fits(job, Ceiling)
  BY <1>1, <1>2, ClaimedFits
<1>4. run.rec = r /\ run.job = i /\ run.phase # "stopping"
  OBVIOUS
<1> HIDE DEF job, run
<1>5. Ceiling' = Ceiling
  BY <1>2 DEF Ceiling
<1>6. Held(r, i)'
  BY <1>2, <1>4 DEF Held
<1>7. \A q, k : Held(q, k) => Held(q, k)'
  BY <1>2 DEF Held
<1>8. \A q \in Recordings : DOMAIN jobs'[q] = DOMAIN jobs[q]
  BY <1>1, <1>2
<1>9. \A q \in Recordings : \A k \in DOMAIN jobs[q] :
        jobs'[q][k] = IF q = r /\ k = i THEN job ELSE jobs[q][k]
  BY <1>1, <1>2
<1> SUFFICES ASSUME NEW q \in Recordings, NEW k \in DOMAIN jobs[q]
             PROVE  /\ Fits(jobs'[q][k], Ceiling)
                    /\ up /\ jobs'[q][k].state = "running" =>
                         jobs'[q][k].attempts < Ceiling \/ Held(q, k)'
                    /\ jobs'[q][k].state = "running" => reset # "cleared"
  BY <1>2, <1>5, <1>8 DEF Budgeted, Fits, Held
<1>10. CASE q = r /\ k = i
  BY <1>2, <1>3, <1>6, <1>9, <1>10
<1>11. CASE ~ (q = r /\ k = i)
  <2>1. jobs'[q][k] = jobs[q][k]
    BY <1>9, <1>11
  <2>2. /\ Fits(jobs[q][k], Ceiling)
        /\ up /\ jobs[q][k].state = "running" => jobs[q][k].attempts < Ceiling \/ Held(q, k)
        /\ jobs[q][k].state = "running" => reset # "cleared"
    BY DEF Budgeted
  <2>3. QED
    BY <1>7, <2>1, <2>2
<1>12. QED
  BY <1>10, <1>11

\* A step that leaves the runs as they are.
LEMMA RowsBudget ==
  ASSUME TypeOK, Budgeted, Ceiling' \in Nat, Ceiling <= Ceiling',
         \A r \in Recordings : Quiet(jobs[r], jobs'[r], Ceiling'),
         UNCHANGED <<runs, reset, up>>
  PROVE  Budgeted'
<1>1. \A r, i : Held(r, i) => Held(r, i)'
  BY DEF Held
<1>2. QED
  BY <1>1, KeepBudget

\* One row is replaced by one that fits and does not run.
LEMMA RowBudget ==
  ASSUME TypeOK, Budgeted, NEW r \in Recordings, NEW i \in DOMAIN jobs[r], NEW job \in Job,
         jobs' = [jobs EXCEPT ![r] = [jobs[r] EXCEPT ![i] = job]],
         Fits(job, Ceiling'), job.state # "running",
         Ceiling' \in Nat, Ceiling <= Ceiling', UNCHANGED <<runs, reset, up>>
  PROVE  Budgeted'
<1>1. jobs \in [Recordings -> Seq(Job)]
  BY DEF TypeOK
<1>2. \A q \in Recordings : DOMAIN jobs'[q] = DOMAIN jobs[q]
  BY <1>1
<1>3. \A q \in Recordings : \A k \in DOMAIN jobs[q] :
        jobs'[q][k] = IF q = r /\ k = i THEN job ELSE jobs[q][k]
  BY <1>1
<1>4. \A q \in Recordings : Quiet(jobs[q], jobs'[q], Ceiling')
  BY <1>2, <1>3 DEF Quiet
<1>5. QED
  BY <1>4, RowsBudget

\* The steps of one job row.
LEMMA JobStepBudget ==
  ASSUME TypeOK, Budgeted, NEW r \in Recordings, NEW i \in DOMAIN jobs[r], JobStep(r, i)
  PROVE  Budgeted'
<1>1. /\ jobs[r][i] \in Job /\ Ceiling \in Nat /\ Ceiling > 0
      /\ Fits(jobs[r][i], Ceiling) /\ jobs[r][i].attempts \in Nat
  BY BudgetFacts DEF Budgeted
<1>2. CASE BackoffElapsed(r, i)
  <2> DEFINE job == Ready(jobs[r][i])
  <2>1. /\ jobs' = [jobs EXCEPT ![r] = [jobs[r] EXCEPT ![i] = job]]
        /\ jobs[r][i].state = "queued"
        /\ UNCHANGED <<runs, reset, up, spent>>
    BY <1>2 DEF BackoffElapsed
  <2>2. job \in Job /\ job.state = "queued" /\ Fits(job, Ceiling)
    BY <1>1, <2>1, ReadyType, ReadyFits
  <2> HIDE DEF job
  <2>3. Ceiling' = Ceiling
    BY <2>1 DEF Ceiling
  <2>4. Ceiling' \in Nat /\ Ceiling <= Ceiling' /\ Fits(job, Ceiling') /\ job.state # "running"
    BY <1>1, <2>2, <2>3
  <2>5. UNCHANGED <<runs, reset, up>>
    BY <2>1
  <2>6. QED
    BY <2>1, <2>2, <2>4, <2>5, RowBudget
<1>3. CASE claim_next(r, i)
  BY <1>3, ClaimBudget
<1>4. CASE cancel(r, i)
  <2> DEFINE job == WithState(jobs[r][i], "cancelled")
  <2>1. /\ jobs' = [jobs EXCEPT ![r] = [jobs[r] EXCEPT ![i] = job]]
        /\ UNCHANGED <<runs, reset, up>> /\ Spend("cancel")
    BY <1>4 DEF cancel
  <2>2. Ceiling' \in Nat /\ Ceiling <= Ceiling'
    BY <2>1, CeilingRises DEF Events
  <2>3. Fits(jobs[r][i], Ceiling')
    BY <1>1, <2>2 DEF Fits
  <2>4. job \in Job /\ job.state = "cancelled" /\ Fits(job, Ceiling')
    BY <1>1, <2>2, <2>3, WithStateType, WithStateFits DEF JobState
  <2> HIDE DEF job
  <2>5. QED
    BY <2>1, <2>2, <2>4, RowBudget
<1>5. CASE retry_job(r, i)
  <2> DEFINE job == Retried(jobs[r][i])
  <2>1. /\ jobs' = [jobs EXCEPT ![r] = [jobs[r] EXCEPT ![i] = job]]
        /\ UNCHANGED <<runs, reset, up>> /\ Spend("retry")
    BY <1>5 DEF retry_job
  <2>2. Ceiling' \in Nat /\ Ceiling <= Ceiling'
    BY <2>1, CeilingRises DEF Events
  <2>3. job \in Job /\ job.state = "queued" /\ Fits(job, Ceiling')
    BY <1>1, <2>2, RetriedType, RetriedFits
  <2> HIDE DEF job
  <2>4. QED
    BY <2>1, <2>2, <2>3, RowBudget
<1>6. QED
  BY <1>2, <1>3, <1>4, <1>5 DEF JobStep

\* A forced request.
LEMMA ReprocessBudget ==
  ASSUME TypeOK, Budgeted, NEW r \in Recordings, NEW p \in {50, 200}, Reprocess(r, p)
  PROVE  Budgeted'
<1>1. /\ jobs' = [jobs EXCEPT ![r] = enqueue_force(jobs[r], "reprocess", p)]
      /\ UNCHANGED <<runs, reset, up>> /\ Spend("force")
  BY DEF Reprocess
<1>2. Ceiling' = Ceiling /\ Ceiling \in Nat /\ Ceiling > 0
  BY <1>1, BudgetFacts, BoundsAssumption DEF Ceiling, Spend, TypeOK, Events
<1>3. jobs[r] \in Seq(Job) /\ jobs \in [Recordings -> Seq(Job)]
      /\ \A i \in DOMAIN jobs[r] : Fits(jobs[r][i], Ceiling)
  BY DEF TypeOK, Budgeted
<1>4. "reprocess" \in JobKind /\ p \in Priority
  BY DEF JobKind, Priority
<1>5. Quiet(jobs[r], enqueue_force(jobs[r], "reprocess", p), Ceiling)
  BY <1>2, <1>3, <1>4, ForceQuiet
<1>6. \A q \in Recordings : Quiet(jobs[q], jobs'[q], Ceiling')
  BY <1>1, <1>2, <1>3, <1>5, SameQuiet
<1>7. QED
  BY <1>1, <1>2, <1>6, RowsBudget

\* Steps that leave rows and runs as they are: the policy and the pause.
LEMMA RowsUntouchedBudget ==
  ASSUME TypeOK, Budgeted, NEW event \in Events, UNCHANGED <<jobs, runs, reset, up>>,
         UNCHANGED spent \/ Spend(event)
  PROVE  Budgeted'
<1>1. Ceiling' \in Nat /\ Ceiling <= Ceiling'
  BY CeilingRises
<1>2. QED
  BY <1>1, RowsBudget, SameQuiet

\* retry_failed gives rows a clean slate.
LEMMA RetryFailedBudget ==
  ASSUME TypeOK, Budgeted, retry_failed
  PROVE  Budgeted'
<1>1. Ceiling' \in Nat /\ Ceiling <= Ceiling' /\ Ceiling > 0
  BY CeilingRises, BudgetFacts DEF retry_failed, Events
<1>2. ASSUME NEW r \in Recordings
      PROVE  Quiet(jobs[r], jobs'[r], Ceiling')
  <2>1. \A i \in DOMAIN jobs[r] : Fits(Retried(jobs[r][i]), Ceiling') /\ Retried(jobs[r][i]).state = "queued"
    BY <1>1, BudgetFacts, RetriedFits, RetriedType
  <2>2. jobs'[r] = jobs[r] \/ jobs'[r] = [i \in DOMAIN jobs[r] |->
               IF i \in NewestFailed(jobs[r]) THEN Retried(jobs[r][i]) ELSE jobs[r][i]]
    BY DEF retry_failed
  <2>3. QED
    BY <2>1, <2>2 DEF Quiet
<1>3. QED
  BY <1>1, <1>2, RowsBudget DEF retry_failed

\* The scan promotes rows and adds new ones.
LEMMA QueueUnprocessedBudget ==
  ASSUME TypeOK, Budgeted, queue_unprocessed
  PROVE  Budgeted'
<1> DEFINE promoted(r) == [i \in DOMAIN jobs[r] |-> Promote(jobs[r][i], recs[r])]
<1>1. Ceiling' = Ceiling /\ Ceiling \in Nat /\ Ceiling > 0
  BY BudgetFacts DEF queue_unprocessed, Ceiling
<1>2. ASSUME NEW r \in Recordings
      PROVE  Quiet(jobs[r], jobs'[r], Ceiling)
  <2>1. jobs[r] \in Seq(Job) /\ recs[r] \in Recording
    BY BudgetFacts
  <2>2. ASSUME NEW i \in DOMAIN jobs[r]
        PROVE  /\ Promote(jobs[r][i], recs[r]) \in Job
               /\ \/ Promote(jobs[r][i], recs[r]) = jobs[r][i]
                  \/ /\ Fits(Promote(jobs[r][i], recs[r]), Ceiling)
                     /\ Promote(jobs[r][i], recs[r]).state = "queued"
    <3>1. jobs[r][i] \in Job /\ Fits(jobs[r][i], Ceiling)
      BY BudgetFacts DEF Budgeted
    <3>2. QED
      BY <1>1, <2>1, <3>1, PromoteType, PromoteFits
  <2>3. promoted(r) \in [DOMAIN jobs[r] -> Job]
    BY <2>2
  <2>4. promoted(r) \in Seq(Job)
    BY <2>1, <2>3, TableIsSeq
  <2>5. Quiet(jobs[r], promoted(r), Ceiling)
    BY <2>2 DEF Quiet
  <2>6. jobs'[r] = promoted(r) \/ jobs'[r] = Append(promoted(r), NewJob("process", 100))
    BY DEF queue_unprocessed
  <2>7. /\ NewJob("process", 100) \in Job /\ NewJob("process", 100).state = "queued"
        /\ Fits(NewJob("process", 100), Ceiling)
    BY <1>1, NewJobType, NewJobFits DEF JobKind, Priority
  <2> HIDE DEF promoted
  <2>8. QED
    BY <1>1, <2>1, <2>4, <2>5, <2>6, <2>7, AppendQuiet
<1>3. QED
  BY <1>1, <1>2, RowsBudget DEF queue_unprocessed

\* A reclaimed row had an attempt left: its run was lost and counted, or it is
\* silent and counted now.
LEMMA ReclaimBudget ==
  ASSUME TypeOK, Budgeted, NEW stale, _run_reclaim(stale),
         Ceiling' \in Nat, Ceiling <= Ceiling',
         \A r \in Recordings : \A i \in DOMAIN jobs[r] :
           <<r, i>> \in stale => jobs[r][i].attempts < Ceiling'
  PROVE  Budgeted'
<1>1. ASSUME NEW r \in Recordings
      PROVE  Quiet(jobs[r], jobs'[r], Ceiling')
  <2>1. ASSUME NEW i \in DOMAIN jobs[r], <<r, i>> \in stale
        PROVE  /\ Fits(WithState(jobs[r][i], "queued"), Ceiling')
               /\ WithState(jobs[r][i], "queued").state = "queued"
    <3>1. /\ jobs[r][i] \in Job /\ jobs[r][i].attempts \in Nat /\ Ceiling \in Nat
          /\ Fits(jobs[r][i], Ceiling)
      BY BudgetFacts DEF Budgeted
    <3>2. jobs[r][i].attempts < Ceiling'
      BY <2>1
    <3>3. Fits(jobs[r][i], Ceiling')
      BY <3>1, <3>2 DEF Fits
    <3>4. QED
      BY <3>1, <3>2, <3>3, WithStateFits, WithStateType DEF JobState
  <2>2. jobs'[r] = Reclaimed(r, stale)
    BY DEF _run_reclaim
  <2>3. QED
    BY <2>1, <2>2 DEF Reclaimed, Quiet
<1>2. QED
  BY <1>1, RowsBudget DEF _run_reclaim

\* The reclaim task.
LEMMA ReclaimTaskBudget ==
  ASSUME TypeOK, Budgeted, ReclaimOrphans \/ ReclaimSilent
  PROVE  Budgeted'
<1>1. CASE ReclaimOrphans
  <2>1. PICK stale \in SUBSET UNION {{<<r, i>> : i \in Orphaned(r)} : r \in Recordings} :
          _run_reclaim(stale) /\ UNCHANGED spent
    BY <1>1 DEF ReclaimOrphans
  <2>2. Ceiling' = Ceiling /\ Ceiling \in Nat
    BY <2>1, BudgetFacts DEF Ceiling
  <2>3. ASSUME NEW r \in Recordings, NEW i \in DOMAIN jobs[r], <<r, i>> \in stale
        PROVE  jobs[r][i].attempts < Ceiling
    <3>1. i \in Orphaned(r)
      BY <2>1, <2>3
    <3>2. jobs[r][i].state = "running" /\ ~ Held(r, i) /\ up
      BY <2>1, <3>1 DEF Orphaned, Held, _run_reclaim
    <3>3. QED
      BY <3>2 DEF Budgeted
  <2>4. QED
    BY <2>1, <2>2, <2>3, ReclaimBudget
<1>2. CASE ReclaimSilent
  <2>1. PICK x \in runs : Spend("silence") /\ _run_reclaim({<<x.rec, x.job>>})
    BY <1>2 DEF ReclaimSilent
  <2>2. Ceiling \in Nat /\ Ceiling' \in Nat /\ Ceiling < Ceiling'
    BY <2>1, CeilingRises DEF Events
  <2>3. ASSUME NEW r \in Recordings, NEW i \in DOMAIN jobs[r]
        PROVE  jobs[r][i].attempts < Ceiling'
    <3>1. jobs[r][i].attempts \in Nat /\ jobs[r][i].attempts <= Ceiling
      BY BudgetFacts DEF Budgeted, Fits
    <3>2. QED
      BY <2>2, <3>1
  <2>4. QED
    BY <2>1, <2>2, <2>3, ReclaimBudget
<1>3. QED
  BY <1>1, <1>2

\* The wipe of a reset cancels every row that was running.
LEMMA ClearBudget ==
  ASSUME TypeOK, Budgeted, clear
  PROVE  Budgeted'
<1> DEFINE from == {"queued", "running", "failed"}
<1>1. Ceiling' \in Nat /\ Ceiling <= Ceiling'
  BY CeilingRises DEF clear, Events
<1>2. ASSUME NEW r \in Recordings
      PROVE  /\ Quiet(jobs[r], jobs'[r], Ceiling')
             /\ \A i \in DOMAIN jobs'[r] : jobs'[r][i].state # "running"
  <2>1. jobs[r] \in Seq(Job) /\ jobs'[r] = CancelRows(jobs[r], from)
    BY BudgetFacts DEF clear
  <2>2. \A i \in DOMAIN jobs[r] : Fits(jobs[r][i], Ceiling')
    BY <1>1, BudgetFacts DEF Budgeted, Fits
  <2>3. \A i \in DOMAIN jobs[r] : WithState(jobs[r][i], "cancelled").state = "cancelled"
    BY <2>1, WithStateType DEF JobState
  <2>4. Quiet(jobs[r], jobs'[r], Ceiling')
    BY <1>1, <2>1, <2>2, CancelQuiet
  <2>5. \A i \in DOMAIN jobs'[r] : jobs'[r][i].state # "running"
    BY <2>1, <2>3 DEF CancelRows
  <2>6. QED
    BY <2>4, <2>5
<1>3. QED
  BY <1>1, <1>2, NothingRuns

\* The runs that abort_active tells to stop answer for nothing: the queue was
\* wiped. The grace period may run out without a row having changed.
LEMMA AbortBudget ==
  ASSUME TypeOK, Budgeted, abort_active \/ AbortTimeout
  PROVE  Budgeted'
<1>1. CASE abort_active
  <2>1. Ceiling' = Ceiling /\ Ceiling \in Nat /\ jobs' = jobs /\ reset = "cleared"
    BY <1>1, BudgetFacts DEF abort_active, Ceiling
  <2>2. \A r \in Recordings : \A i \in DOMAIN jobs'[r] : jobs'[r][i].state # "running"
    BY <2>1 DEF Budgeted
  <2>3. QED
    BY <2>1, <2>2, NothingRuns, SameQuiet
<1>2. CASE AbortTimeout
  <2>1. Ceiling' \in Nat /\ Ceiling <= Ceiling'
    BY <1>2, CeilingRises DEF AbortTimeout, Events
  <2>2. UNCHANGED <<jobs, runs, up>> /\ reset' # "cleared"
    BY <1>2 DEF AbortTimeout
  <2>3. \A r, i : Held(r, i) => Held(r, i)'
    BY <2>2 DEF Held
  <2>4. QED
    BY <2>1, <2>2, <2>3, KeepBudget, SameQuiet
<1>3. QED
  BY <1>1, <1>2

\* The rebuild adds rows that have not been tried.
LEMMA RebuildBudget ==
  ASSUME TypeOK, Budgeted, NEW missing \in SUBSET Recordings, rebuild(missing)
  PROVE  Budgeted'
<1>1. /\ Ceiling' = Ceiling /\ Ceiling \in Nat /\ Ceiling > 0
      /\ UNCHANGED <<runs, up>> /\ reset' # "cleared"
  BY BudgetFacts DEF rebuild, Ceiling
<1>2. ASSUME NEW r \in Recordings
      PROVE  Quiet(jobs[r], jobs'[r], Ceiling')
  <2>1. jobs[r] \in Seq(Job) /\ jobs'[r] = RebuiltRows(r, missing)
    BY BudgetFacts DEF rebuild
  <2>2. /\ "thumbnail" \in JobKind /\ AnalysisKind(recs[r]) \in JobKind
        /\ 0 \in Priority /\ 200 \in Priority
    BY DEF AnalysisKind, JobKind, Priority
  <2>3. Quiet(jobs[r], jobs[r], Ceiling)
    BY SameQuiet
  <2>4. /\ Quiet(jobs[r], enqueue(jobs[r], "thumbnail", 0), Ceiling)
        /\ Quiet(jobs[r], enqueue(jobs[r], AnalysisKind(recs[r]), 200), Ceiling)
    BY <1>1, <2>1, <2>2, <2>3, EnqueueQuiet
  <2>5. QED
    BY <1>1, <2>1, <2>3, <2>4 DEF RebuiltRows
<1>3. \A r, i : Held(r, i) => Held(r, i)'
  BY <1>1 DEF Held
<1>4. QED
  BY <1>1, <1>2, <1>3, KeepBudget

\* The rows that an interruption puts back get their attempt back.
LEMMA InterruptedQuiet ==
  ASSUME NEW rows \in Seq(Job), NEW n \in Nat, n > 0, \A i \in DOMAIN rows : Fits(rows[i], n)
  PROVE  /\ Quiet(rows, reclaim_interrupted(rows), n)
         /\ reclaim_interrupted(rows) \in Seq(Job)
         /\ \A i \in DOMAIN reclaim_interrupted(rows) : reclaim_interrupted(rows)[i].state # "running"
<1>1. ASSUME NEW i \in DOMAIN rows
      PROVE  /\ Interrupted(rows[i]).state # "running"
             /\ \/ Interrupted(rows[i]) = rows[i]
                \/ Fits(Interrupted(rows[i]), n)
  <2>1. rows[i] \in Job /\ Fits(rows[i], n)
    OBVIOUS
  <2>2. QED
    BY <2>1, InterruptedType, InterruptedFits
<1>2. QED
  BY <1>1, InterruptedRows DEF Quiet, reclaim_interrupted

\* A crash takes the runs and leaves the rows to the start that follows; a stop
\* puts them back itself.
LEMMA ProcessBudget ==
  ASSUME TypeOK, Budgeted, Crash \/ stop \/ \E review \in SUBSET Recordings : start(review)
  PROVE  Budgeted'
<1>1. \A r \in Recordings :
        /\ jobs[r] \in Seq(Job)
        /\ \A i \in DOMAIN jobs[r] : Fits(jobs[r][i], Ceiling)
  BY BudgetFacts DEF Budgeted
<1>2. Ceiling \in Nat /\ Ceiling > 0
  BY BudgetFacts
<1>3. CASE Crash
  <2>1. Ceiling' \in Nat /\ Ceiling <= Ceiling'
    BY <1>3, CeilingRises DEF Crash, Events
  <2>2. jobs' = jobs /\ up' = FALSE /\ reset' # "cleared"
    BY <1>3 DEF Crash
  <2>3. QED
    BY <2>1, <2>2, KeepBudget, SameQuiet
<1>4. CASE stop
  <2>1. Ceiling' \in Nat /\ Ceiling <= Ceiling' /\ Ceiling' > 0
    BY <1>2, <1>4, CeilingRises DEF stop, Events
  <2>2. \A r \in Recordings : \A i \in DOMAIN jobs[r] : Fits(jobs[r][i], Ceiling')
    BY <2>1, BudgetFacts DEF Budgeted, Fits
  <2>3. \A r \in Recordings : jobs'[r] = reclaim_interrupted(jobs[r])
    BY <1>4 DEF stop
  <2>4. QED
    BY <1>1, <2>1, <2>2, <2>3, InterruptedQuiet, NothingRuns
<1>5. ASSUME NEW review \in SUBSET Recordings, start(review)
      PROVE  Budgeted'
  <2> DEFINE rows(r) == reclaim_interrupted(jobs[r])
             more(r) == enqueue(rows(r), AnalysisKind(recs[r]),
                                IF recs[r].analysed THEN 200 ELSE 100)
  <2>1. /\ jobs' = [r \in Recordings |-> IF r \in review THEN more(r) ELSE rows(r)]
        /\ UNCHANGED spent
    BY <1>5 DEF start
  <2>2. Ceiling' = Ceiling
    BY <2>1 DEF Ceiling
  <2>3. ASSUME NEW r \in Recordings
        PROVE  /\ Quiet(jobs[r], rows(r), Ceiling) /\ rows(r) \in Seq(Job)
               /\ \A i \in DOMAIN rows(r) : rows(r)[i].state # "running"
    BY <1>1, <1>2, InterruptedQuiet
  <2>4. ASSUME NEW r \in Recordings
        PROVE  /\ AnalysisKind(recs[r]) \in JobKind
               /\ (IF recs[r].analysed THEN 200 ELSE 100) \in Priority
    BY DEF AnalysisKind, JobKind, Priority
  <2>5. ASSUME NEW r \in Recordings
        PROVE  \/ more(r) = rows(r)
               \/ \E job \in Job : job.state = "queued" /\ more(r) = Append(rows(r), job)
    <3> DEFINE job == NewJob(AnalysisKind(recs[r]), IF recs[r].analysed THEN 200 ELSE 100)
    <3>1. job \in Job /\ job.state = "queued"
      BY <2>4, NewJobType DEF NewJob
    <3>2. more(r) = rows(r) \/ more(r) = Append(rows(r), job)
      BY DEF enqueue
    <3> HIDE DEF job, rows, more
    <3>3. QED
      BY <3>1, <3>2
  <2>6. ASSUME NEW r \in Recordings
        PROVE  Quiet(jobs[r], more(r), Ceiling)
    BY <1>1, <1>2, <2>3, <2>4, EnqueueQuiet
  <2> HIDE DEF rows, more
  <2>7. ASSUME NEW r \in Recordings, NEW i \in DOMAIN more(r)
        PROVE  more(r)[i].state # "running"
    <3>1. CASE more(r) = rows(r)
      BY <2>3, <3>1
    <3>2. ASSUME NEW job \in Job, job.state = "queued", more(r) = Append(rows(r), job)
          PROVE  more(r)[i].state # "running"
      <4>1. /\ DOMAIN more(r) = 1..(Len(rows(r)) + 1) /\ Len(rows(r)) \in Nat
            /\ DOMAIN rows(r) = 1..Len(rows(r))
            /\ more(r)[Len(rows(r)) + 1] = job
            /\ \A k \in 1..Len(rows(r)) : more(r)[k] = rows(r)[k]
        BY <2>3, <3>2, AppendProperties
      <4>2. QED
        BY <2>3, <3>2, <4>1
    <3>3. QED
      BY <2>5, <3>1, <3>2
  <2>8. ASSUME NEW r \in Recordings
        PROVE  /\ Quiet(jobs[r], jobs'[r], Ceiling')
               /\ \A i \in DOMAIN jobs'[r] : jobs'[r][i].state # "running"
    BY <2>1, <2>2, <2>3, <2>6, <2>7
  <2>9. QED
    BY <1>2, <2>2, <2>8, NothingRuns
<1>6. QED
  BY <1>3, <1>4, <1>5

-----------------------------------------------------------------------------
(* The theorems.                                                           *)

\* Nothing has been tried in an empty queue.
LEMMA BudgetInit == Init => Budgeted
BY DEF Init, Budgeted

\* Every step of workers, API, scheduler, reset and process keeps Budgeted.
LEMMA BudgetNext == TypeOK /\ Budgeted /\ [Next]_vars => Budgeted'
<1> SUFFICES ASSUME TypeOK, Budgeted, [Next]_vars PROVE Budgeted'
  OBVIOUS
<1>1. ASSUME NEW x \in runs, RunStep(x) PROVE Budgeted'
  BY <1>1, RunStepBudget
<1>2. ASSUME NEW r \in Recordings, NEW i \in DOMAIN jobs[r], JobStep(r, i)
      PROVE  Budgeted'
  BY <1>2, JobStepBudget
<1>3. ASSUME NEW r \in Recordings, NEW p \in {50, 200}, Reprocess(r, p)
      PROVE  Budgeted'
  BY <1>3, ReprocessBudget
<1>4. ASSUME NEW r \in Recordings, NEW a \in {"keep", "hide", "delete"},
             apply_known_damaged_policy(r, a)
      PROVE  Budgeted'
  BY <1>4, RowsUntouchedBudget DEF apply_known_damaged_policy, Events
<1>5. ASSUME NEW missing \in SUBSET Recordings, rebuild(missing)
      PROVE  Budgeted'
  BY <1>5, RebuildBudget
<1>6. CASE UNCHANGED vars
  BY <1>6, RowsUntouchedBudget DEF vars, Events
<1>7. CASE pause \/ resume
  BY <1>7, RowsUntouchedBudget DEF pause, resume, Events
<1>8. QED
  BY <1>1, <1>2, <1>3, <1>4, <1>5, <1>6, <1>7, RetryFailedBudget,
     QueueUnprocessedBudget, ReclaimTaskBudget, ClearBudget, AbortBudget, ProcessBudget
     DEF Next

\* No job is tried more often than the retry limit allows, whatever is retried,
\* reclaimed, refunded, reset or interrupted: only an outcome that could not be
\* written, or heartbeats that did not land, cost a further attempt, one each.
THEOREM AttemptsTheorem == Spec => []AttemptsBounded
<1>1. Budgeted => AttemptsBounded
  BY DEF Budgeted, Fits, AttemptsBounded, Ceiling
<1>2. QED
  BY <1>1, BudgetInit, BudgetNext, TypeCorrect, PTL DEF Spec

-----------------------------------------------------------------------------
(* A cancelled job stays cancelled.                                        *)

\* The rows of new that were cancelled before still are.
Kept(rows, new) ==
  \A i \in DOMAIN rows : rows[i].state = "cancelled" => new[i].state = "cancelled"

\* What every step promises of a cancelled job.
FinalStep ==
  \A r \in Recordings : \A i \in DOMAIN jobs[r] :
    jobs[r][i].state = "cancelled" =>
      jobs'[r][i].state = "cancelled" \/ retry_job(r, i)

\* Cancelling more rows keeps the cancelled ones.
LEMMA CancelKept ==
  ASSUME NEW rows \in Seq(Job), NEW from
  PROVE  /\ Kept(rows, CancelRows(rows, from))
         /\ CancelRows(rows, from) \in Seq(Job)
         /\ DOMAIN CancelRows(rows, from) = DOMAIN rows
<1>1. \A i \in DOMAIN rows :
        /\ WithState(rows[i], "cancelled") \in Job
        /\ WithState(rows[i], "cancelled").state = "cancelled"
  BY WithStateType DEF JobState
<1>2. CancelRows(rows, from) \in [DOMAIN rows -> Job]
  BY <1>1 DEF CancelRows
<1>3. CancelRows(rows, from) \in Seq(Job) /\ DOMAIN CancelRows(rows, from) = DOMAIN rows
  BY <1>2, TableIsSeq
<1>4. Kept(rows, CancelRows(rows, from))
  BY <1>1 DEF Kept, CancelRows
<1>5. QED
  BY <1>3, <1>4

\* A new row at the end changes none of the others.
LEMMA EnqueueKept ==
  ASSUME NEW rows \in Seq(Job), NEW new \in Seq(Job), DOMAIN new = DOMAIN rows,
         Kept(rows, new), NEW job
  PROVE  Kept(rows, Append(new, job))
<1>1. \A i \in DOMAIN rows : Append(new, job)[i] = new[i]
  OBVIOUS
<1>2. QED
  BY <1>1 DEF Kept

\* One row that was not cancelled, or still is, is replaced.
LEMMA RowFinal ==
  ASSUME TypeOK, NEW r \in Recordings, NEW i \in DOMAIN jobs[r], NEW job,
         jobs' = [jobs EXCEPT ![r] = [jobs[r] EXCEPT ![i] = job]],
         \/ jobs[r][i].state # "cancelled"
         \/ job.state = "cancelled"
         \/ retry_job(r, i)
  PROVE  FinalStep
<1>1. jobs \in [Recordings -> Seq(Job)]
  BY DEF TypeOK
<1>2. \A q \in Recordings : \A k \in DOMAIN jobs[q] :
        jobs'[q][k] = IF q = r /\ k = i THEN job ELSE jobs[q][k]
  BY <1>1
<1>3. QED
  BY <1>2 DEF FinalStep

\* The steps of one job row: only retry_job takes it out of CANCELLED.
LEMMA JobStepFinal ==
  ASSUME TypeOK, NEW r \in Recordings, NEW i \in DOMAIN jobs[r], JobStep(r, i)
  PROVE  FinalStep
<1>1. CASE BackoffElapsed(r, i)
  <2>1. /\ jobs' = [jobs EXCEPT ![r] = [jobs[r] EXCEPT ![i] = Ready(jobs[r][i])]]
        /\ jobs[r][i].state = "queued"
    BY <1>1 DEF BackoffElapsed
  <2>2. QED
    BY <2>1, RowFinal
<1>2. CASE claim_next(r, i)
  <2>1. /\ jobs' = [jobs EXCEPT ![r] = [jobs[r] EXCEPT ![i] = ClaimedJob(jobs[r][i])]]
        /\ jobs[r][i].state = "queued"
    BY <1>2 DEF claim_next, Runnable
  <2>2. QED
    BY <2>1, RowFinal
<1>3. CASE cancel(r, i)
  <2>1. jobs' = [jobs EXCEPT ![r] = [jobs[r] EXCEPT ![i] = WithState(jobs[r][i], "cancelled")]]
    BY <1>3 DEF cancel
  <2>2. WithState(jobs[r][i], "cancelled").state = "cancelled"
    BY BudgetFacts, WithStateType DEF JobState
  <2>3. QED
    BY <2>1, <2>2, RowFinal
<1>4. CASE retry_job(r, i)
  <2>1. jobs' = [jobs EXCEPT ![r] = [jobs[r] EXCEPT ![i] = Retried(jobs[r][i])]]
    BY <1>4 DEF retry_job
  <2>2. QED
    BY <1>4, <2>1, RowFinal
<1>5. QED
  BY <1>1, <1>2, <1>3, <1>4 DEF JobStep

\* A step that keeps the cancelled rows of every recording.
LEMMA KeptFinal ==
  ASSUME \A r \in Recordings : Kept(jobs[r], jobs'[r])
  PROVE  FinalStep
BY DEF Kept, FinalStep

\* A recorded outcome leaves a sequence of as many rows.
LEMMA RecordedType ==
  ASSUME NEW rows \in Seq(Job), NEW j \in DOMAIN rows, NEW outcome \in Outcome
  PROVE  Recorded(rows, j, outcome) \in Seq(Job) /\ DOMAIN Recorded(rows, j, outcome) = DOMAIN rows
<1>1. rows[j] \in Job
  OBVIOUS
<1>2. WithState(rows[j], "completed") \in Job /\ FailedJob(rows[j], outcome) \in Job
  BY <1>1, WithStateType, FailedType DEF JobState
<1>3. Recorded(rows, j, outcome) \in [DOMAIN rows -> Job]
  BY <1>2 DEF Recorded, complete, fail
<1>4. QED
  BY <1>3, TableIsSeq

\* A run writes its outcome only to a row that is not cancelled.
LEMMA RunStepFinal ==
  ASSUME TypeOK, NEW x \in runs, RunStep(x)
  PROVE  FinalStep
<1>1. CASE _finish(x)
  <2> DEFINE rows == Recorded(jobs[x.rec], x.job, x.outcome)
             after == _follow_up_after_thumbnail(rows, x.job, recs[x.rec])
  <2>1. /\ x.rec \in Recordings /\ x.job \in DOMAIN jobs[x.rec] /\ x.outcome \in Outcome
        /\ jobs[x.rec] \in Seq(Job) /\ jobs \in [Recordings -> Seq(Job)]
    BY BudgetFacts DEF TypeOK
  <2>2. \/ jobs' = jobs
        \/ /\ jobs[x.rec][x.job].state # "cancelled"
           /\ jobs' = [jobs EXCEPT ![x.rec] = after]
    BY <1>1 DEF _finish
  <2>3. \A i \in DOMAIN jobs[x.rec] : i # x.job => rows[i] = jobs[x.rec][i]
    BY <2>1 DEF Recorded, complete, fail
  <2>4. rows \in Seq(Job) /\ DOMAIN rows = DOMAIN jobs[x.rec]
    BY <2>1, RecordedType
  <2>5. after = rows \/ after = Append(rows, NewJob(AnalysisKind(recs[x.rec]), 200))
    BY DEF _follow_up_after_thumbnail, enqueue
  <2> HIDE DEF rows, after
  <2>6. ASSUME jobs[x.rec][x.job].state # "cancelled"
        PROVE  Kept(jobs[x.rec], after)
    <3>1. Kept(jobs[x.rec], rows)
      BY <2>3, <2>6 DEF Kept
    <3>2. QED
      BY <2>1, <2>4, <2>5, <3>1, EnqueueKept
  <2>7. QED
    BY <2>1, <2>2, <2>6, KeptFinal DEF Kept
<1>2. CASE UNCHANGED jobs
  BY <1>2 DEF FinalStep
<1>3. QED
  BY <1>1, <1>2 DEF RunStep, StartWork, _make_thumbnail, _process, Raise, OutcomeLost,
     _heartbeat, Stopped

\* Requests, scans, reclaims, resets and restarts pass over cancelled rows.
LEMMA BulkFinal ==
  ASSUME TypeOK, NEW r \in Recordings
  PROVE  /\ \A p \in {50, 200} : Kept(jobs[r], enqueue_force(jobs[r], "reprocess", p))
         /\ retry_failed => Kept(jobs[r], jobs'[r])
         /\ queue_unprocessed => Kept(jobs[r], jobs'[r])
         /\ ReclaimOrphans => Kept(jobs[r], jobs'[r])
         /\ ReclaimSilent => Kept(jobs[r], jobs'[r])
         /\ clear => Kept(jobs[r], jobs'[r])
         /\ \A missing \in SUBSET Recordings : rebuild(missing) => Kept(jobs[r], jobs'[r])
         /\ stop => Kept(jobs[r], jobs'[r])
         /\ \A review \in SUBSET Recordings : start(review) => Kept(jobs[r], jobs'[r])
<1>1. /\ jobs[r] \in Seq(Job) /\ recs[r] \in Recording
      /\ \A i \in DOMAIN jobs[r] : jobs[r][i] \in Job
      /\ Kept(jobs[r], jobs[r])
  BY BudgetFacts DEF Kept
<1>2. ASSUME NEW p \in {50, 200}
      PROVE  Kept(jobs[r], enqueue_force(jobs[r], "reprocess", p))
  BY <1>1, CancelKept, EnqueueKept DEF enqueue_force
<1>3. retry_failed => Kept(jobs[r], jobs'[r])
  BY <1>1 DEF retry_failed, NewestFailed, Kept
<1>4. ASSUME queue_unprocessed
      PROVE  Kept(jobs[r], jobs'[r])
  <2> DEFINE promoted == [i \in DOMAIN jobs[r] |-> Promote(jobs[r][i], recs[r])]
  <2>1. promoted \in [DOMAIN jobs[r] -> Job]
    BY <1>1, PromoteType
  <2>2. promoted \in Seq(Job) /\ DOMAIN promoted = DOMAIN jobs[r]
    BY <1>1, <2>1, TableIsSeq
  <2>3. Kept(jobs[r], promoted)
    BY DEF Kept, Promote
  <2>4. jobs'[r] = promoted \/ jobs'[r] = Append(promoted, NewJob("process", 100))
    BY <1>4 DEF queue_unprocessed
  <2> HIDE DEF promoted
  <2>5. QED
    BY <1>1, <2>2, <2>3, <2>4, EnqueueKept
<1>5. ASSUME NEW stale, _run_reclaim(stale),
             \A i \in DOMAIN jobs[r] : <<r, i>> \in stale => jobs[r][i].state = "running"
      PROVE  Kept(jobs[r], jobs'[r])
  <2>1. jobs'[r] = Reclaimed(r, stale)
    BY <1>5 DEF _run_reclaim
  <2>2. QED
    BY <1>5, <2>1 DEF Reclaimed, Kept
<1>6. ASSUME ReclaimOrphans
      PROVE  Kept(jobs[r], jobs'[r])
  <2>1. PICK stale \in SUBSET UNION {{<<q, i>> : i \in Orphaned(q)} : q \in Recordings} :
          _run_reclaim(stale)
    BY <1>6 DEF ReclaimOrphans
  <2>2. \A i \in DOMAIN jobs[r] : <<r, i>> \in stale => i \in Orphaned(r)
    BY <2>1
  <2>3. QED
    BY <1>5, <2>1, <2>2 DEF Orphaned
<1>7. ASSUME ReclaimSilent
      PROVE  Kept(jobs[r], jobs'[r])
  <2>1. PICK x \in runs : jobs[x.rec][x.job].state = "running" /\ _run_reclaim({<<x.rec, x.job>>})
    BY <1>7 DEF ReclaimSilent
  <2>2. QED
    BY <1>5, <2>1
<1>8. clear => Kept(jobs[r], jobs'[r])
  BY <1>1, CancelKept DEF clear
<1>9. ASSUME NEW kind, NEW priority, NEW new \in Seq(Job), DOMAIN new = DOMAIN jobs[r],
             Kept(jobs[r], new)
      PROVE  Kept(jobs[r], enqueue(new, kind, priority))
  BY <1>1, <1>9, EnqueueKept DEF enqueue
<1>10. ASSUME NEW missing \in SUBSET Recordings, rebuild(missing)
       PROVE  Kept(jobs[r], jobs'[r])
  <2>1. jobs'[r] = RebuiltRows(r, missing)
    BY <1>10 DEF rebuild
  <2>2. QED
    BY <1>1, <1>9, <2>1 DEF RebuiltRows
<1>11. /\ reclaim_interrupted(jobs[r]) \in Seq(Job)
       /\ DOMAIN reclaim_interrupted(jobs[r]) = DOMAIN jobs[r]
       /\ Kept(jobs[r], reclaim_interrupted(jobs[r]))
  BY <1>1, InterruptedRows DEF Kept, reclaim_interrupted, Interrupted
<1>12. stop => Kept(jobs[r], jobs'[r])
  BY <1>11 DEF stop
<1>13. ASSUME NEW review \in SUBSET Recordings, start(review)
       PROVE  Kept(jobs[r], jobs'[r])
  <2> DEFINE rows == reclaim_interrupted(jobs[r])
  <2>1. \/ jobs'[r] = rows
        \/ jobs'[r] = enqueue(rows, AnalysisKind(recs[r]),
                              IF recs[r].analysed THEN 200 ELSE 100)
    BY <1>13 DEF start
  <2> HIDE DEF rows
  <2>2. rows \in Seq(Job) /\ DOMAIN rows = DOMAIN jobs[r] /\ Kept(jobs[r], rows)
    BY <1>11 DEF rows
  <2>3. QED
    BY <1>9, <2>1, <2>2
<1>14. QED
  BY <1>2, <1>3, <1>4, <1>6, <1>7, <1>8, <1>10, <1>12, <1>13

\* Every step passes over cancelled jobs, but for the retry of one.
LEMMA FinalNext == TypeOK /\ [Next]_vars => FinalStep
<1> SUFFICES ASSUME TypeOK, [Next]_vars PROVE FinalStep
  OBVIOUS
<1>1. ASSUME NEW x \in runs, RunStep(x) PROVE FinalStep
  BY <1>1, RunStepFinal
<1>2. ASSUME NEW r \in Recordings, NEW i \in DOMAIN jobs[r], JobStep(r, i)
      PROVE  FinalStep
  BY <1>2, JobStepFinal
<1>3. ASSUME NEW r \in Recordings, NEW p \in {50, 200}, Reprocess(r, p)
      PROVE  FinalStep
  <2>1. jobs' = [jobs EXCEPT ![r] = enqueue_force(jobs[r], "reprocess", p)]
    BY <1>3 DEF Reprocess
  <2>2. \A q \in Recordings : jobs'[q] = jobs[q] \/ (q = r /\ jobs'[q] = enqueue_force(jobs[q], "reprocess", p))
    BY <2>1 DEF TypeOK
  <2>3. QED
    BY <2>2, BulkFinal, KeptFinal DEF Kept
<1>4. CASE UNCHANGED jobs
  BY <1>4 DEF FinalStep
<1>5. ASSUME \/ retry_failed \/ queue_unprocessed \/ ReclaimOrphans \/ ReclaimSilent
             \/ clear \/ stop
             \/ \E missing \in SUBSET Recordings : rebuild(missing)
             \/ \E review \in SUBSET Recordings : start(review)
      PROVE  FinalStep
  <2>1. \A r \in Recordings : Kept(jobs[r], jobs'[r])
    BY <1>5, BulkFinal
  <2>2. QED
    BY <2>1, KeptFinal
<1>6. (\E r \in Recordings, a \in {"keep", "hide", "delete"} : apply_known_damaged_policy(r, a))
        => UNCHANGED jobs
  BY DEF apply_known_damaged_policy
<1>7. pause \/ resume \/ abort_active \/ AbortTimeout \/ Crash \/ UNCHANGED vars => UNCHANGED jobs
  BY DEF pause, resume, abort_active, AbortTimeout, Crash, vars
<1>8. QED
  BY <1>1, <1>2, <1>3, <1>4, <1>5, <1>6, <1>7 DEF Next

\* Nothing but a retry asked for by the user takes a job out of CANCELLED, for
\* any number of recordings, jobs, runs and faults.
THEOREM CancelledTheorem == Spec => CancelledIsFinal
<1>1. TypeOK /\ [Next]_vars => [FinalStep]_vars
  BY FinalNext
<1>2. QED
  BY <1>1, TypeCorrect, PTL DEF Spec, CancelledIsFinal, FinalStep

-----------------------------------------------------------------------------
(* A recording under a run is not given back to the scanner.               *)

\* What a row may be while the run registered for it has not left.
Unsettled == {"queued", "running", "cancelled"}

\* The row of a run in flight has no outcome yet, and a process that is down
\* runs nothing.
Attended ==
  /\ \A x \in runs : jobs[x.rec][x.job].state \in Unsettled
  /\ ~ up => runs = {}

\* No row that has no outcome gets one.
Pends(rows, new) ==
  \A i \in DOMAIN rows : rows[i].state \in Unsettled => new[i].state \in Unsettled

\* What every step promises of a recording that a run is working on.
NoDemotionStep ==
  \A r \in Recordings :
    (\E x \in runs \cap runs' :
       x.rec = r /\ x.phase = "working" /\ jobs[r][x.job].state # "cancelled") =>
      ~ (recs[r].state = "processing" /\ recs'[r].state = "discovered")

\* The recording is not handed to the scanner by this step.
Claimed(rec, new) == rec.state = "processing" => new.state # "discovered"

\* A step in which no row is settled, no run appears and the process does not go
\* down under a run.
LEMMA KeepAttended ==
  ASSUME TypeOK, Attended,
         \A r \in Recordings : Pends(jobs[r], jobs'[r]),
         \A y \in runs' : \E z \in runs : z.rec = y.rec /\ z.job = y.job,
         ~ up' => ~ up \/ runs' = {}
  PROVE  Attended'
<1>1. ASSUME NEW y \in runs'
      PROVE  jobs'[y.rec][y.job].state \in Unsettled
  <2>1. PICK z \in runs : z.rec = y.rec /\ z.job = y.job
    OBVIOUS
  <2>2. /\ z.rec \in Recordings /\ z.job \in DOMAIN jobs[z.rec]
        /\ jobs[z.rec][z.job].state \in Unsettled
    BY BudgetFacts DEF Attended
  <2>3. QED
    BY <2>1, <2>2 DEF Pends
<1>2. ~ up => runs' = {}
  BY DEF Attended
<1>3. QED
  BY <1>1, <1>2 DEF Attended, Unsettled

\* A step that leaves every row alone.
LEMMA RowsUntouchedAttended ==
  ASSUME TypeOK, Attended, UNCHANGED jobs,
         \A y \in runs' : \E z \in runs : z.rec = y.rec /\ z.job = y.job,
         ~ up' => ~ up \/ runs' = {}
  PROVE  Attended'
BY KeepAttended DEF Pends

\* A step that replaces the row of one job.
LEMMA RowPends ==
  ASSUME TypeOK, NEW r \in Recordings, NEW i \in DOMAIN jobs[r], NEW job,
         jobs' = [jobs EXCEPT ![r] = [jobs[r] EXCEPT ![i] = job]],
         job.state \in Unsettled
  PROVE  \A q \in Recordings : Pends(jobs[q], jobs'[q])
<1>1. jobs \in [Recordings -> Seq(Job)] /\ jobs[r] \in Seq(Job)
  BY DEF TypeOK
<1>2. \A q \in Recordings \ {r} : jobs'[q] = jobs[q]
  BY <1>1
<1>3. jobs'[r] = [jobs[r] EXCEPT ![i] = job]
  BY <1>1
<1>4. QED
  BY <1>1, <1>2, <1>3 DEF Pends

\* A new row at the end settles none of the others.
LEMMA AppendPends ==
  ASSUME NEW rows \in Seq(Job), NEW new \in Seq(Job), DOMAIN new = DOMAIN rows,
         Pends(rows, new), NEW job
  PROVE  Pends(rows, new) /\ Pends(rows, Append(new, job))
BY DEF Pends

\* Every operation on the rows of a recording but an outcome leaves them pending.
LEMMA BulkPends ==
  ASSUME TypeOK, NEW r \in Recordings
  PROVE  /\ \A p \in {50, 200} : Pends(jobs[r], enqueue_force(jobs[r], "reprocess", p))
         /\ retry_failed => Pends(jobs[r], jobs'[r])
         /\ queue_unprocessed => Pends(jobs[r], jobs'[r])
         /\ \A stale : _run_reclaim(stale) => Pends(jobs[r], jobs'[r])
         /\ clear => Pends(jobs[r], jobs'[r])
<1>1. /\ jobs[r] \in Seq(Job) /\ recs[r] \in Recording
      /\ \A i \in DOMAIN jobs[r] :
           /\ jobs[r][i] \in Job
           /\ WithState(jobs[r][i], "cancelled").state = "cancelled"
           /\ WithState(jobs[r][i], "queued").state = "queued"
           /\ Retried(jobs[r][i]).state = "queued"
           /\ Promote(jobs[r][i], recs[r]) \in Job
           /\ Promote(jobs[r][i], recs[r]).state = jobs[r][i].state
  BY BudgetFacts, WithStateType, RetriedType, PromoteType DEF JobState
<1>2. ASSUME NEW p \in {50, 200}
      PROVE  Pends(jobs[r], enqueue_force(jobs[r], "reprocess", p))
  <2> DEFINE kept == CancelRows(jobs[r], {"queued", "failed"})
             job == NewJob("reprocess", p)
  <2>1. Pends(jobs[r], kept)
    BY <1>1 DEF CancelRows, Pends, Unsettled
  <2>2. kept \in Seq(Job) /\ DOMAIN kept = DOMAIN jobs[r]
    BY <1>1, CancelKept
  <2>3. enqueue_force(jobs[r], "reprocess", p) = Append(kept, job)
    BY DEF enqueue_force
  <2>4. jobs[r] \in Seq(Job)
    BY <1>1
  <2> HIDE DEF kept, job
  <2>5. Pends(jobs[r], Append(kept, job))
    BY <2>1, <2>2, <2>4, AppendPends
  <2>6. QED
    BY <2>3, <2>5
<1>3. retry_failed => Pends(jobs[r], jobs'[r])
  BY <1>1 DEF retry_failed, Pends, Unsettled
<1>4. ASSUME queue_unprocessed
      PROVE  Pends(jobs[r], jobs'[r])
  <2> DEFINE promoted == [i \in DOMAIN jobs[r] |-> Promote(jobs[r][i], recs[r])]
  <2>1. promoted \in [DOMAIN jobs[r] -> Job] /\ Pends(jobs[r], promoted)
    BY <1>1 DEF Pends
  <2>2. promoted \in Seq(Job) /\ DOMAIN promoted = DOMAIN jobs[r]
    BY <1>1, <2>1, TableIsSeq
  <2>3. jobs'[r] = promoted \/ jobs'[r] = Append(promoted, NewJob("process", 100))
    BY <1>4 DEF queue_unprocessed
  <2> HIDE DEF promoted
  <2>4. QED
    BY <1>1, <2>1, <2>2, <2>3, AppendPends
<1>5. ASSUME NEW stale, _run_reclaim(stale)
      PROVE  Pends(jobs[r], jobs'[r])
  <2>1. jobs'[r] = Reclaimed(r, stale)
    BY <1>5 DEF _run_reclaim
  <2>2. QED
    BY <1>1, <2>1 DEF Reclaimed, Pends, Unsettled
<1>6. clear => Pends(jobs[r], jobs'[r])
  BY <1>1 DEF clear, CancelRows, Pends, Unsettled
<1>7. QED
  BY <1>2, <1>3, <1>4, <1>5, <1>6

\* A run that has recorded its outcome has left; no other run is on its rows.
LEMMA RunStepAttended ==
  ASSUME Ownership, Attended, NEW x \in runs, RunStep(x)
  PROVE  Attended'
<1>0. TypeOK
  BY DEF Ownership
<1>1. CASE _finish(x)
  <2>1. /\ runs' = runs \ {x} /\ UNCHANGED up
        /\ \A q \in Recordings \ {x.rec} : jobs'[q] = jobs[q]
    BY <1>0, <1>1 DEF _finish, Leave, TypeOK
  <2>2. ASSUME NEW y \in runs'
        PROVE  jobs'[y.rec][y.job].state \in Unsettled
    <3>1. y \in runs /\ y.rec # x.rec /\ y.rec \in Recordings
      BY <1>0, <2>1, BudgetFacts DEF Ownership, OneRunPerRecording
    <3>2. QED
      BY <2>1, <3>1 DEF Attended
  <2>3. QED
    BY <2>1, <2>2 DEF Attended, Unsettled
<1>2. CASE OutcomeLost(x) \/ Stopped(x)
  BY <1>0, <1>2, RowsUntouchedAttended DEF OutcomeLost, Stopped, Leave
<1>3. ASSUME NEW phase, NEW outcome, Advance(x, phase, outcome), UNCHANGED <<jobs, up>>
      PROVE  Attended'
  <2>1. /\ [x EXCEPT !.phase = phase, !.outcome = outcome].rec = x.rec
        /\ [x EXCEPT !.phase = phase, !.outcome = outcome].job = x.job
    BY <1>0 DEF TypeOK, Run
  <2>2. \A y \in runs' : \E z \in runs : z.rec = y.rec /\ z.job = y.job
    BY <1>3, <2>1 DEF Advance
  <2>3. QED
    BY <1>0, <1>3, <2>2, RowsUntouchedAttended
<1>4. QED
  BY <1>1, <1>2, <1>3 DEF RunStep, StartWork, _make_thumbnail, _process, Raise, _heartbeat

\* A claim registers a run for the row it marks running; the other steps of a
\* row leave it pending.
LEMMA JobStepAttended ==
  ASSUME TypeOK, Attended, NEW r \in Recordings, NEW i \in DOMAIN jobs[r], JobStep(r, i)
  PROVE  Attended'
<1>0. jobs[r][i] \in Job
  BY DEF TypeOK
<1>1. CASE BackoffElapsed(r, i)
  <2>1. /\ jobs' = [jobs EXCEPT ![r] = [jobs[r] EXCEPT ![i] = Ready(jobs[r][i])]]
        /\ UNCHANGED <<runs, up>> /\ jobs[r][i].state = "queued"
    BY <1>1 DEF BackoffElapsed
  <2>2. Ready(jobs[r][i]).state \in Unsettled
    BY <1>0, <2>1, ReadyType DEF Unsettled
  <2>3. \A q \in Recordings : Pends(jobs[q], jobs'[q])
    BY <2>1, <2>2, RowPends
  <2>4. QED
    BY <2>1, <2>3, KeepAttended
<1>2. CASE claim_next(r, i)
  <2> DEFINE run == [rec |-> r, job |-> i, phase |-> "starting", outcome |-> "ok"]
  <2>1. /\ jobs' = [jobs EXCEPT ![r] = [jobs[r] EXCEPT ![i] = ClaimedJob(jobs[r][i])]]
        /\ runs' = runs \cup {run} /\ up /\ UNCHANGED up
    BY <1>2 DEF claim_next
  <2>2. ClaimedJob(jobs[r][i]).state = "running"
    BY <1>0, ClaimedType
  <2>3. \A q \in Recordings : Pends(jobs[q], jobs'[q])
    BY <2>1, <2>2, RowPends DEF Unsettled
  <2>4. run.rec = r /\ run.job = i
    OBVIOUS
  <2>5. jobs'[r][i].state = "running"
    BY <2>1, <2>2 DEF TypeOK
  <2> HIDE DEF run
  <2>6. ASSUME NEW y \in runs'
        PROVE  jobs'[y.rec][y.job].state \in Unsettled
    <3>1. CASE y = run
      BY <2>4, <2>5, <3>1 DEF Unsettled
    <3>2. CASE y \in runs
      <4>1. /\ y.rec \in Recordings /\ y.job \in DOMAIN jobs[y.rec]
            /\ jobs[y.rec][y.job].state \in Unsettled
        BY <3>2, BudgetFacts DEF Attended
      <4>2. QED
        BY <2>3, <4>1 DEF Pends
    <3>3. QED
      BY <2>1, <3>1, <3>2
  <2>7. QED
    BY <2>1, <2>6 DEF Attended, Unsettled
<1>3. CASE cancel(r, i)
  <2>1. /\ jobs' = [jobs EXCEPT ![r] = [jobs[r] EXCEPT ![i] = WithState(jobs[r][i], "cancelled")]]
        /\ UNCHANGED <<runs, up>>
    BY <1>3 DEF cancel
  <2>2. WithState(jobs[r][i], "cancelled").state \in Unsettled
    BY <1>0, WithStateType DEF JobState, Unsettled
  <2>3. \A q \in Recordings : Pends(jobs[q], jobs'[q])
    BY <2>1, <2>2, RowPends
  <2>4. QED
    BY <2>1, <2>3, KeepAttended
<1>4. CASE retry_job(r, i)
  <2>1. /\ jobs' = [jobs EXCEPT ![r] = [jobs[r] EXCEPT ![i] = Retried(jobs[r][i])]]
        /\ UNCHANGED <<runs, up>>
    BY <1>4 DEF retry_job
  <2>2. Retried(jobs[r][i]).state \in Unsettled
    BY <1>0, RetriedType DEF Unsettled
  <2>3. \A q \in Recordings : Pends(jobs[q], jobs'[q])
    BY <2>1, <2>2, RowPends
  <2>4. QED
    BY <2>1, <2>3, KeepAttended
<1>5. QED
  BY <1>1, <1>2, <1>3, <1>4 DEF JobStep

\* An aborted run stays registered for its row.
LEMMA AbortAttended ==
  ASSUME TypeOK, Attended, abort_active
  PROVE  Attended'
<1>1. /\ runs' = {[x EXCEPT !.phase = "stopping"] : x \in runs}
      /\ UNCHANGED <<jobs, up>>
  BY DEF abort_active
<1>2. \A x \in runs : /\ [x EXCEPT !.phase = "stopping"].rec = x.rec
                      /\ [x EXCEPT !.phase = "stopping"].job = x.job
  BY DEF TypeOK, Run
<1>3. \A y \in runs' : \E z \in runs : z.rec = y.rec /\ z.job = y.job
  BY <1>1, <1>2
<1>4. ~ up' => ~ up
  BY <1>1
<1>5. QED
  BY <1>1, <1>3, <1>4, RowsUntouchedAttended

\* Every step of workers, API, scheduler, reset and process keeps Attended.
LEMMA AttendedNext == Ownership /\ Attended /\ [Next]_vars => Attended'
<1> SUFFICES ASSUME Ownership, Attended, [Next]_vars PROVE Attended'
  OBVIOUS
<1>0. TypeOK
  BY DEF Ownership
<1>1. ASSUME NEW x \in runs, RunStep(x) PROVE Attended'
  BY <1>1, RunStepAttended
<1>2. ASSUME NEW r \in Recordings, NEW i \in DOMAIN jobs[r], JobStep(r, i)
      PROVE  Attended'
  BY <1>0, <1>2, JobStepAttended
<1>3. ASSUME NEW r \in Recordings, NEW p \in {50, 200}, Reprocess(r, p)
      PROVE  Attended'
  <2>1. /\ jobs' = [jobs EXCEPT ![r] = enqueue_force(jobs[r], "reprocess", p)]
        /\ UNCHANGED <<runs, up>>
    BY <1>3 DEF Reprocess
  <2>2. Pends(jobs[r], enqueue_force(jobs[r], "reprocess", p))
    BY <1>0, BulkPends
  <2>3. \A q \in Recordings : Pends(jobs[q], jobs'[q])
    BY <1>0, <2>1, <2>2 DEF TypeOK, Pends
  <2>4. QED
    BY <1>0, <2>1, <2>3, KeepAttended
<1>4. ASSUME UNCHANGED <<jobs, runs, up>>
      PROVE  Attended'
  BY <1>0, <1>4, RowsUntouchedAttended
<1>5. ASSUME \/ retry_failed \/ queue_unprocessed \/ ReclaimOrphans \/ ReclaimSilent \/ clear
      PROVE  Attended'
  <2>1. \A r \in Recordings : Pends(jobs[r], jobs'[r])
    BY <1>0, <1>5, BulkPends DEF ReclaimOrphans, ReclaimSilent
  <2>2. UNCHANGED <<runs, up>>
    BY <1>5 DEF retry_failed, queue_unprocessed, ReclaimOrphans, ReclaimSilent,
       _run_reclaim, clear
  <2>3. QED
    BY <1>0, <2>1, <2>2, KeepAttended
<1>6. ASSUME \/ Crash \/ stop
             \/ \E missing \in SUBSET Recordings : rebuild(missing)
             \/ \E review \in SUBSET Recordings : start(review)
      PROVE  Attended'
  <2>1. runs' = {}
    BY <1>6 DEF Crash, stop, rebuild, start, Attended
  <2>2. QED
    BY <2>1 DEF Attended
<1>7. (\E r \in Recordings, a \in {"keep", "hide", "delete"} : apply_known_damaged_policy(r, a))
        => UNCHANGED <<jobs, runs, up>>
  BY DEF apply_known_damaged_policy
<1>8. pause \/ resume \/ AbortTimeout \/ UNCHANGED vars => UNCHANGED <<jobs, runs, up>>
  BY DEF pause, resume, AbortTimeout, vars
<1>9. QED
  BY <1>0, <1>1, <1>2, <1>3, <1>4, <1>5, <1>6, <1>7, <1>8, AbortAttended DEF Next

\* No operation on a recording hands it to the scanner but release_stranded,
\* which leaves a recording with a live job alone.
LEMMA RecordingStays ==
  ASSUME NEW rec \in Recording
  PROVE  /\ Claimed(rec, MarkQueued(rec))
         /\ \A outcome \in Outcome : Claimed(rec, StagesRan(rec, outcome))
         /\ \A others : Claimed(rec, CancelledRec(rec, others))
         /\ \A rows : Live(rows) # {} =>
              Claimed(rec, release_stranded(rec, rows)) /\
              Claimed(rec, release_stranded(Requeued(rec), rows))
<1>1. \A s \in RecordingState : [rec EXCEPT !.state = s].state = s
  BY DEF Recording
<1>2. Requeued(rec) = rec \/ Requeued(rec).state = "queued"
  BY <1>1 DEF Requeued, RecordingState
<1>3. Claimed(rec, rec) /\ Claimed(rec, Requeued(rec))
  BY <1>2 DEF Claimed
<1>4. \A rows : Live(rows) # {} =>
        release_stranded(rec, rows) = rec /\ release_stranded(Requeued(rec), rows) = Requeued(rec)
  BY DEF release_stranded
<1>5. Claimed(rec, MarkQueued(rec))
  BY <1>1 DEF MarkQueued, Claimed, RecordingState
<1>6. ASSUME NEW outcome \in Outcome
      PROVE  Claimed(rec, StagesRan(rec, outcome))
  <2>1. [rec EXCEPT !.state = "completed", !.analysed = TRUE].state = "completed"
    BY DEF Recording
  <2>2. QED
    BY <1>1, <2>1 DEF StagesRan, Claimed, RecordingState
<1>7. ASSUME NEW others
      PROVE  Claimed(rec, CancelledRec(rec, others))
  BY <1>1 DEF CancelledRec, Claimed, RecordingState
<1>8. QED
  BY <1>3, <1>4, <1>5, <1>6, <1>7

\* Nor does the damaged-footage policy.
LEMMA PolicyStays ==
  ASSUME NEW rec \in Recording, NEW action \in {"keep", "hide", "delete"}
  PROVE  /\ Claimed(rec, apply_damaged_policy(rec, action))
         /\ Claimed(rec, [rec EXCEPT !.ignored = FALSE])
         /\ \A outcome \in Outcome :
              Claimed(rec, apply_damaged_policy(StagesRan(rec, outcome), action))
<1>1. ASSUME NEW old \in Recording
      PROVE  \/ apply_damaged_policy(old, action).state = old.state
             \/ apply_damaged_policy(old, action).state = "deleted"
  <2>1. /\ [old EXCEPT !.ignored = TRUE].state = old.state
        /\ [old EXCEPT !.ignored = TRUE, !.missing = TRUE, !.state = "deleted"].state = "deleted"
    BY DEF Recording
  <2>2. QED
    BY <2>1 DEF apply_damaged_policy
<1>2. [rec EXCEPT !.ignored = FALSE].state = rec.state
  BY DEF Recording
<1>3. \A outcome \in Outcome :
        StagesRan(rec, outcome) \in Recording /\ Claimed(rec, StagesRan(rec, outcome))
  BY StagesRanType, RecordingStays
<1>4. QED
  BY <1>1, <1>2, <1>3 DEF Claimed

\* A run and the user's requests leave every recording claimed.
LEMMA RunStepStays ==
  ASSUME TypeOK, NEW x \in runs, RunStep(x)
  PROVE  \A r \in Recordings : Claimed(recs[r], recs'[r])
<1>1. /\ x.rec \in Recordings /\ recs[x.rec] \in Recording
      /\ recs \in [Recordings -> Recording]
  BY BudgetFacts DEF TypeOK
<1>2. ASSUME NEW new, recs' = [recs EXCEPT ![x.rec] = new], Claimed(recs[x.rec], new)
      PROVE  \A r \in Recordings : Claimed(recs[r], recs'[r])
  BY <1>1, <1>2 DEF Claimed
<1>3. ASSUME UNCHANGED recs
      PROVE  \A r \in Recordings : Claimed(recs[r], recs'[r])
  BY <1>3 DEF Claimed
<1>4. /\ [recs[x.rec] EXCEPT !.state = "processing"].state = "processing"
      /\ [recs[x.rec] EXCEPT !.state = "completed", !.analysed = TRUE].state = "completed"
  BY <1>1 DEF Recording
<1>5. CASE StartWork(x)
  <2>1. \/ UNCHANGED recs
        \/ recs' = [recs EXCEPT ![x.rec] = [recs[x.rec] EXCEPT !.state = "processing"]]
    BY <1>5 DEF StartWork
  <2>2. QED
    BY <1>2, <1>3, <1>4, <2>1 DEF Claimed
<1>6. ASSUME NEW o \in Outcome, NEW a \in {"keep", "hide", "delete"}, _process(x, o, a)
      PROVE  \A r \in Recordings : Claimed(recs[r], recs'[r])
  <2>1. recs' = [recs EXCEPT ![x.rec] = apply_damaged_policy(StagesRan(recs[x.rec], o), a)]
    BY <1>6 DEF _process
  <2>2. QED
    BY <1>1, <1>2, <2>1, PolicyStays
<1>7. ASSUME NEW o \in {"error", "locked"}, NEW a \in BOOLEAN, Raise(x, o, a)
      PROVE  \A r \in Recordings : Claimed(recs[r], recs'[r])
  <2>1. \/ UNCHANGED recs
        \/ recs' = [recs EXCEPT ![x.rec] =
                      [recs[x.rec] EXCEPT !.state = "completed", !.analysed = TRUE]]
    BY <1>1, <1>7 DEF Raise
  <2>2. QED
    BY <1>2, <1>3, <1>4, <2>1 DEF Claimed
<1>8. CASE _finish(x)
  <2>1. UNCHANGED recs \/ recs' = [recs EXCEPT ![x.rec] = MarkQueued(recs[x.rec])]
    BY <1>8 DEF _finish
  <2>2. QED
    BY <1>1, <1>2, <1>3, <2>1, RecordingStays
<1>9. QED
  BY <1>3, <1>5, <1>6, <1>7, <1>8
     DEF RunStep, _make_thumbnail, OutcomeLost, _heartbeat, Stopped

\* The periodic reclaim gives back only recordings without a live job.
LEMMA ReclaimStays ==
  ASSUME TypeOK, Attended, NEW stale, _run_reclaim(stale)
  PROVE  NoDemotionStep
<1> SUFFICES ASSUME NEW r \in Recordings, NEW x \in runs,
                    x.rec = r, jobs[r][x.job].state # "cancelled"
             PROVE  Claimed(recs[r], recs'[r])
  BY DEF NoDemotionStep, Claimed
<1>1. /\ jobs[r] \in Seq(Job) /\ recs[r] \in Recording /\ x.job \in DOMAIN jobs[r]
      /\ jobs[r][x.job] \in Job
  BY BudgetFacts
<1>2. jobs[r][x.job].state \in {"queued", "running"}
  BY DEF Attended, Unsettled
<1>3. WithState(jobs[r][x.job], "queued").state = "queued"
  BY <1>1, WithStateType DEF JobState
<1>4. Reclaimed(r, stale)[x.job].state \in LiveStates /\ x.job \in DOMAIN Reclaimed(r, stale)
  BY <1>1, <1>2, <1>3 DEF Reclaimed, LiveStates
<1>5. Live(Reclaimed(r, stale)) # {}
  BY <1>4 DEF Live
<1>6. \/ recs'[r] = release_stranded(recs[r], Reclaimed(r, stale))
      \/ recs'[r] = release_stranded(Requeued(recs[r]), Reclaimed(r, stale))
  BY DEF _run_reclaim
<1>7. QED
  BY <1>1, <1>5, <1>6, RecordingStays

\* No step takes a recording away from the run that works on it.
LEMMA DemotionNext == TypeOK /\ Attended /\ [Next]_vars => NoDemotionStep
<1> SUFFICES ASSUME TypeOK, Attended, [Next]_vars PROVE NoDemotionStep
  OBVIOUS
<1>0. /\ \A r \in Recordings : recs[r] \in Recording
      /\ recs \in [Recordings -> Recording]
  BY DEF TypeOK
<1>1. ASSUME \A r \in Recordings : Claimed(recs[r], recs'[r])
      PROVE  NoDemotionStep
  BY <1>1 DEF Claimed, NoDemotionStep
<1>2. ASSUME UNCHANGED recs
      PROVE  NoDemotionStep
  BY <1>2 DEF NoDemotionStep
<1>3. ASSUME NEW r \in Recordings, NEW new, recs' = [recs EXCEPT ![r] = new],
             Claimed(recs[r], new)
      PROVE  NoDemotionStep
  <2>1. \A q \in Recordings : Claimed(recs[q], recs'[q])
    BY <1>0, <1>3 DEF Claimed
  <2>2. QED
    BY <1>1, <2>1
<1>4. ASSUME runs \cap runs' = {}
      PROVE  NoDemotionStep
  BY <1>4 DEF NoDemotionStep
<1>5. ASSUME NEW x \in runs, RunStep(x) PROVE NoDemotionStep
  BY <1>1, <1>5, RunStepStays
<1>6. ASSUME NEW r \in Recordings, NEW i \in DOMAIN jobs[r], JobStep(r, i)
      PROVE  NoDemotionStep
  <2>1. \/ UNCHANGED recs
        \/ recs' = [recs EXCEPT ![r] = CancelledRec(recs[r], Live(jobs[r]) \ {i})]
    BY <1>6 DEF JobStep, BackoffElapsed, claim_next, cancel, retry_job
  <2>2. QED
    BY <1>0, <1>2, <1>3, <2>1, RecordingStays
<1>7. ASSUME NEW r \in Recordings, NEW p \in {50, 200}, Reprocess(r, p)
      PROVE  NoDemotionStep
  <2>1. recs' = [recs EXCEPT ![r] = MarkQueued(recs[r])]
    BY <1>7 DEF Reprocess
  <2>2. Claimed(recs[r], MarkQueued(recs[r]))
    BY <1>0, RecordingStays
  <2>3. \A q \in Recordings : Claimed(recs[q], recs'[q])
    BY <1>0, <2>1, <2>2 DEF Claimed
  <2>4. QED
    BY <1>1, <2>3
<1>8. ASSUME NEW r \in Recordings, NEW a \in {"keep", "hide", "delete"},
             apply_known_damaged_policy(r, a)
      PROVE  NoDemotionStep
  <2>1. recs' = [recs EXCEPT ![r] = IF a = "keep" THEN [recs[r] EXCEPT !.ignored = FALSE]
                                    ELSE apply_damaged_policy(recs[r], a)]
    BY <1>8 DEF apply_known_damaged_policy
  <2>2. QED
    BY <1>0, <1>3, <2>1, PolicyStays
<1>9. ASSUME queue_unprocessed PROVE NoDemotionStep
  <2>1. \A r \in Recordings : [recs[r] EXCEPT !.state = "queued"].state = "queued"
    BY <1>0 DEF Recording
  <2>2. \A r \in Recordings :
          recs'[r] = recs[r] \/ recs'[r] = [recs[r] EXCEPT !.state = "queued"]
    BY <1>9 DEF queue_unprocessed
  <2>3. QED
    BY <1>1, <2>1, <2>2 DEF Claimed
<1>10. ASSUME ReclaimOrphans \/ ReclaimSilent PROVE NoDemotionStep
  BY <1>10, ReclaimStays DEF ReclaimOrphans, ReclaimSilent
<1>11. ASSUME \/ Crash \/ stop
              \/ \E missing \in SUBSET Recordings : rebuild(missing)
              \/ \E review \in SUBSET Recordings : start(review)
       PROVE  NoDemotionStep
  <2>1. runs' = {}
    BY <1>11 DEF Crash, stop, rebuild, start, Attended
  <2>2. QED
    BY <1>4, <2>1
<1>12. retry_failed \/ pause \/ resume \/ clear \/ abort_active \/ AbortTimeout
         \/ UNCHANGED vars => UNCHANGED recs
  BY DEF retry_failed, pause, resume, clear, abort_active, AbortTimeout, vars
<1>13. QED
  BY <1>2, <1>5, <1>6, <1>7, <1>8, <1>9, <1>10, <1>11, <1>12 DEF Next

\* release_stranded_recordings never takes a recording away from the run that is
\* working on it, unless that run was cancelled: the row of a run in flight is
\* still live, whatever was reclaimed, superseded or retried beside it.
THEOREM NoDemotionTheorem == Spec => NoDemotionUnderRun
<1>1. Init => Attended
  BY DEF Init, Attended
<1>2. Spec => []Attended
  BY <1>1, AttendedNext, OwnershipInvariant, PTL DEF Spec
<1>3. TypeOK /\ Attended /\ [Next]_vars => [NoDemotionStep]_vars
  BY DemotionNext
<1>4. QED
  BY <1>2, <1>3, TypeCorrect, PTL DEF Spec, NoDemotionUnderRun, NoDemotionStep

=============================================================================
