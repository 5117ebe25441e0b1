---------------------------- MODULE StagePipeline ----------------------------
(***************************************************************************)
(* The analysis of recordings (app/pipeline/orchestrator.py, stages.py,     *)
(* telemetry_quality.py): which stages a job selects, what each stage       *)
(* commits and in which transaction, the pictures that the rows point to,   *)
(* and the positions that two cameras of one drive lend each other.         *)
(*                                                                         *)
(* A stage's rows are known by a stamp, and by the stamps of the rows they  *)
(* were built from.  Rows, crops and directories of the plate previews      *)
(* carry the stamp of the pass that wrote them.                             *)
(***************************************************************************)
EXTENDS Integers, FiniteSets, Sequences

CONSTANTS
    Recs,       \* recordings of cameras that overlap in time
    Analysed,   \* those of them whose first analysis is over
    Workers,    \* jobs that run at once
    Few,        \* so many environment events may happen in any combination
    Budgets     \* larger combinations that may: a set of subsets of Events

ASSUME RecsAssumption == IsFiniteSet(Recs) /\ Analysed \subseteq Recs
ASSUME FewAssumption == Few \in Nat

STAGE_ORDER == <<"metadata", "telemetry", "detection", "plates", "summarise">>
Kept == {"metadata", "telemetry", "detection", "plates"}     \* _STAGE_FIELDS
Stages == Kept \cup {"summarise"}
Presets == {"auto", "metadata", "telemetry", "detection", "plates", "everything"}
Events == {"again", "disabled", "unavailable", "decode", "empty", "permanent",
           "lock", "cancel", "crash", "profile", "back"}

VARIABLES
    rec,        \* Recs -> the recording: state, stage states, current revisions,
                \*   ever processed; key, asked: plate profile validated, and requested
    telem,      \* Recs -> telemetry rows: stamp, fix, from
    tracks,     \* Recs -> tracked objects: stamp, on (telemetry), any
    crops,      \* Recs -> stamp of the vehicle crops on disk, 0 for none
    obs,        \* Recs -> plate observations: stamp, on (tracks), at (telemetry), dir,
                \*   prof (the plate profiles whose settings they were read under)
    dirs,       \* Recs -> stamps of the plate preview directories on disk
    want,       \* Recs -> the job: what was asked for, "none" when it is over
    run,        \* Recs -> the worker's run of that job
    profile,    \* the plate settings in force; their key (validation_key) is a hash,
                \*   so settings that come back have the key they had
    clock,      \* Recs -> stamps given out for it
    spent       \* the environment events that have happened, each once

rows == <<telem, tracks, obs>>
files == <<crops, dirs>>
vars == <<rec, rows, files, want, run, profile, clock, spent>>

Meets(event) ==
    /\ event \notin spent
    /\ \/ Cardinality(spent) < Few
       \/ \E b \in Budgets : spent \cup {event} \subseteq b
    /\ spent' = spent \cup {event}

NoRun == [pc |-> "off", left |-> {}, cur |-> "none", new |-> 0, fix |-> "none",
          old |-> {}, key |-> 0, prof |-> {}]
\* New recordings are queued; the analysed ones were completed before.
Init ==
    LET first(r, new, old) == IF r \in Analysed THEN old ELSE new IN
    /\ rec = [r \in Recs |-> [state |-> first(r, "discovered", "completed"),
                              st |-> [s \in Kept |-> first(r, "pending", "done")],
                              rev |-> [s \in Kept |-> r \in Analysed],
                              ever |-> r \in Analysed, key |-> first(r, 0, 1), asked |-> 0]]
    /\ telem \in [Recs -> [stamp : 0 .. 1, fix : {"none", "own", "gap", "nofix"}, from : {<<>>}]]
    /\ \A r \in Recs : telem[r].stamp = first(r, 0, 1) /\ (telem[r].fix = "none" <=> r \notin Analysed)
    /\ tracks = [r \in Recs |-> [stamp |-> first(r, 0, 2), on |-> first(r, 0, 1),
                                 any |-> r \in Analysed]]
    /\ obs = [r \in Recs |-> first(r, [stamp |-> 0, on |-> 0, at |-> 0, dir |-> 0, prof |-> {}],
                                      [stamp |-> 4, on |-> 2, at |-> 1, dir |-> 3, prof |-> {1}])]
    /\ crops = [r \in Recs |-> first(r, 0, 2)] /\ dirs = [r \in Recs |-> first(r, {}, {3})]
    /\ want = [r \in Recs |-> first(r, "auto", "none")] /\ run = [r \in Recs |-> NoRun]
    /\ clock = [r \in Recs |-> first(r, 0, 4)] /\ profile = 1 /\ spent = {}

-----------------------------------------------------------------------------
(* Which stages a job runs.                                                *)

\* _STAGE_DEPENDENTS, closed (_with_dependents).
Dependents(s) == CASE s = "telemetry" -> {"detection", "plates"}
                   [] s = "detection" -> {"plates"}
                   [] OTHER -> {}
_with_dependents(S) == S \cup UNION {Dependents(s) : s \in S}

expand_stages(request) ==
    IF request = "everything" THEN Stages ELSE _with_dependents({request}) \cup {"summarise"}

\* A stage left running is one whose worker died in it.
Needed(r) == {s \in Kept : rec[r].st[s] \in {"pending", "failed", "running"}}
pending_stages(r) ==
    IF Needed(r) = {} THEN {}
    ELSE IF "metadata" \in Needed(r) THEN Stages
    ELSE _with_dependents(Needed(r)) \cup {"summarise"}
Selected(r) ==
    IF want[r] # "auto" THEN expand_stages(want[r])
    ELSE IF pending_stages(r) = {} THEN Stages ELSE pending_stages(r)

\* What was selected runs in STAGE_ORDER.
Rank(s) == CHOOSE i \in DOMAIN STAGE_ORDER : STAGE_ORDER[i] = s
IsNext(s, left) == s \in left /\ \A t \in left : Rank(s) <= Rank(t)

\* invalidate_recordings: what was asked for again is hidden at once.
invalidate_recordings(record, request) ==
    LET chosen == expand_stages(request) \cap Kept IN
    [record EXCEPT !.st = [s \in Kept |-> IF s \in chosen THEN "pending" ELSE @[s]],
                   !.rev = [s \in Kept |-> @[s] /\ s \notin chosen]]
Reanalyse(r, request) ==
    /\ want[r] = "none" /\ request # "auto"
    /\ Meets("again")
    /\ rec' = [rec EXCEPT ![r] = invalidate_recordings(@, request)]
    /\ want' = [want EXCEPT ![r] = request]
    /\ UNCHANGED <<rows, files, run, profile, clock>>

\* The sweep after a start or a change of the plate settings.  A request is made
\* once for a profile, whatever became of it; tracks stored without samples are
\* found again first.
\* Mutant: the request is not remembered.
Requested(record) == record
Remembered(record) == [record EXCEPT !.asked = profile]
queue_plate_repairs(r, request) ==
    /\ want[r] = "none" /\ request \in {"detection", "plates"}
    /\ rec[r].state # "invalid" /\ rec[r].ever /\ rec[r].st["detection"] = "done"
    /\ rec[r].asked # profile
    /\ ~rec[r].rev["plates"] \/ rec[r].key # profile
    /\ rec' = [rec EXCEPT ![r] = Remembered(invalidate_recordings(@, request))]
    /\ want' = [want EXCEPT ![r] = request]
    /\ UNCHANGED <<rows, files, run, profile, clock, spent>>
ChangePlateSettings ==
    /\ \/ Meets("profile") /\ profile' = profile + 1
       \/ profile > 1 /\ Meets("back") /\ profile' = profile - 1
    /\ UNCHANGED <<rec, rows, files, want, run, clock>>

-----------------------------------------------------------------------------
(* run_stages.                                                             *)

At(r, place) == [run EXCEPT ![r].pc = place]
Over(r) == /\ run' = [run EXCEPT ![r] = NoRun]
           /\ want' = [want EXCEPT ![r] = "none"]

Begin(r) ==
    /\ want[r] # "none" /\ run[r].pc = "off"
    /\ Cardinality({x \in Recs : run[x].pc # "off"}) < Workers
    /\ run' = [run EXCEPT ![r] = [NoRun EXCEPT !.pc = "next", !.left = Selected(r)]]
    /\ rec' = [rec EXCEPT ![r].state = "processing"]
    /\ UNCHANGED <<rows, files, want, profile, clock, spent>>

\* The marker is committed before the stage's work.
StartStage(r, s) ==
    /\ run[r].pc = "next" /\ IsNext(s, run[r].left)
    /\ run' = [run EXCEPT ![r].pc = s, ![r].cur = s, ![r].left = @ \ {s}]
    /\ rec' = IF s \in Kept THEN [rec EXCEPT ![r].st[s] = "running"] ELSE rec
    /\ UNCHANGED <<rows, files, want, profile, clock, spent>>

\* The stage's state and its revision are committed together.
Mark(r, s, state, current) ==
    rec' = [rec EXCEPT ![r].st[s] = state, ![r].rev[s] = IF current THEN TRUE ELSE @]
Done(r, s) == Mark(r, s, "done", TRUE) /\ run' = At(r, "next")

\* A stage failed: the session is rolled back and the failure recorded; the
\* queue tries the job again, unless the source itself is at fault or the job
\* has no attempts left (counted in ProcessingQueue).
_revive(r, permanent) ==
    /\ rec' = [rec EXCEPT ![r].state = IF permanent THEN "invalid" ELSE "failed",
                          ![r].st = IF run[r].cur \in Kept
                                    THEN [@ EXCEPT ![run[r].cur] = "failed"] ELSE @]
    /\ run' = [run EXCEPT ![r] = NoRun]
    /\ \/ ~permanent /\ UNCHANGED want
       \/ want' = [want EXCEPT ![r] = "none"]
StageFails(r, event) ==
    Meets(event) /\ _revive(r, event = "permanent") /\ UNCHANGED <<rows, files, profile, clock>>

\* stage_inspect: the file is missing or the tools die (tried again), or the
\* file is judged; telemetry and the later stages have no such verdict.
stage_inspect(r) ==
    /\ run[r].pc = "metadata"
    /\ \/ Done(r, "metadata") /\ UNCHANGED <<rows, files, want, profile, clock, spent>>
       \/ StageFails(r, "permanent")
       \/ StageFails(r, "decode")

\* Switched off: settled.  A missing template or model: still to do.
Skips(r, s) ==
    /\ \/ Meets("disabled") /\ Mark(r, s, "skipped", TRUE)
       \/ /\ Meets("unavailable") \/ ("unavailable" \in spent /\ UNCHANGED spent)
          /\ Mark(r, s, "pending", FALSE)
    /\ run' = At(r, "next")
    /\ UNCHANGED <<rows, files, want, profile, clock>>

\* stage_telemetry: the overlay is read before anything is written.  What it
\* says of the position: a fix, an explicit no-fix, or nothing legible.
ReadOverlay(r) ==
    /\ run[r].pc = "telemetry"
    /\ \/ Skips(r, "telemetry")
       \/ StageFails(r, "decode")
       \/ /\ \E fix \in {"own", "gap", "nofix"} :
                run' = [run EXCEPT ![r].pc = "points", ![r].fix = fix]
          /\ UNCHANGED <<rec, rows, files, want, profile, clock, spent>>

\* Delete and insert, one transaction, retried while the database is locked.
WritePoints(r) ==
    /\ run[r].pc = "points"
    /\ \/ /\ telem' = [telem EXCEPT ![r] = [stamp |-> clock[r] + 1, fix |-> run[r].fix,
                                             from |-> <<>>]]
          /\ clock' = [clock EXCEPT ![r] = @ + 1] /\ run' = At(r, "pairing")
          /\ UNCHANGED <<rec, tracks, obs, files, want, profile, spent>>
       \/ StageFails(r, "lock")

\* recover_from_paired_camera, both ways: an illegible position is filled from
\* a camera that read its own, unless the copy does not fit the route.
Donor(rows_) == rows_.fix = "own"
Origin(d, rows_) == IF rows_.fix = "own" THEN <<d, rows_.stamp>> ELSE rows_.from
Lends(d, t) == t.fix = "gap" /\ Donor(d)
Filled(t, d, donor) == [t EXCEPT !.fix = "copied", !.from = Origin(d, donor)]
EndTelemetry(r) ==
    LET partners == {p \in Recs \ {r} : rec[p].st["telemetry"] = "done"}
        lenders == {p \in partners : Lends(telem[p], telem[r])} IN
    /\ run[r].pc = "pairing"
    /\ \E mine \in {telem[r]} \cup {Filled(telem[r], p, telem[p]) : p \in lenders} :
       \E lent \in SUBSET {p \in partners : Lends(mine, telem[p])} :
          telem' = [x \in Recs |-> IF x = r THEN mine
                                   ELSE IF x \in lent THEN Filled(telem[x], r, mine)
                                   ELSE telem[x]]
    /\ Done(r, "telemetry")
    /\ UNCHANGED <<tracks, obs, files, want, profile, clock, spent>>

\* stage_detect: decode and inference; a decode that fell over is no answer,
\* one that ended cleanly with nothing is.
FindObjects(r) ==
    /\ run[r].pc = "detection"
    /\ \/ Skips(r, "detection")
       \/ StageFails(r, "decode")
       \/ /\ run' = At(r, "vehicles")
          /\ UNCHANGED <<rec, rows, files, want, profile, clock, spent>>

\* The old crops are swept and the new ones saved before the rows change.
SaveCrops(r) ==
    /\ run[r].pc = "vehicles"
    /\ crops' = [crops EXCEPT ![r] = clock[r] + 1] /\ clock' = [clock EXCEPT ![r] = @ + 1]
    /\ run' = [run EXCEPT ![r].pc = "objects", ![r].new = clock[r] + 1]
    /\ UNCHANGED <<rec, rows, dirs, want, profile, spent>>

WriteTracks(r) ==
    LET written(any) == [tracks EXCEPT ![r] = [stamp |-> run[r].new,
                                               on |-> telem[r].stamp, any |-> any]] IN
    /\ run[r].pc = "objects"
    /\ \/ tracks' = written(TRUE) /\ UNCHANGED spent /\ run' = At(r, "counted")
       \/ Meets("empty") /\ tracks' = written(FALSE) /\ run' = At(r, "counted")
    /\ UNCHANGED <<rec, telem, obs, files, want, profile, clock>>

EndDetection(r) ==
    /\ run[r].pc = "counted" /\ Done(r, "detection")
    /\ UNCHANGED <<rows, files, want, profile, clock, spent>>

\* stage_plates: the key of the settings is taken first, the detector's threshold
\* when the models are loaded, and the other settings when the tracks are there;
\* the settings may change in between.
OpenPlates(r) ==
    /\ run[r].pc = "plates"
    /\ run' = [run EXCEPT ![r].pc = "models", ![r].key = profile, ![r].prof = {}]
    /\ UNCHANGED <<rec, rows, files, want, profile, clock, spent>>
LoadPlateModels(r) ==
    /\ run[r].pc = "models"
    /\ \/ Skips(r, "plates")
       \/ /\ run' = [run EXCEPT ![r].pc = "frames", ![r].prof = {profile}]
          /\ UNCHANGED <<rec, rows, files, want, profile, clock, spent>>

\* Every selected frame is read, or nothing is replaced; with no vehicle the old
\* observations still go.
ReadPlates(r) ==
    /\ run[r].pc = "frames"
    /\ \/ tracks[r].any /\ StageFails(r, "decode")
       \/ /\ run' = [run EXCEPT ![r].pc = "preview",
                                ![r].new = IF tracks[r].any THEN clock[r] + 1 ELSE 0,
                                ![r].prof = @ \cup {profile}]
          /\ dirs' = IF tracks[r].any THEN [dirs EXCEPT ![r] = @ \cup {clock[r] + 1}] ELSE dirs
          /\ clock' = [clock EXCEPT ![r] = @ + 1]
          /\ UNCHANGED <<rec, rows, crops, want, profile, spent>>

\* _write_observations: the replacement commits; the generation it retires is
\* removed after that.
_insert_observations(r) ==
    /\ obs' = [obs EXCEPT ![r] = [stamp |-> clock[r] + 1, on |-> tracks[r].stamp,
                                  at |-> telem[r].stamp, dir |-> run[r].new, prof |-> run[r].prof]]
    /\ clock' = [clock EXCEPT ![r] = @ + 1]
    /\ run' = [run EXCEPT ![r].pc = "retire", ![r].old = {obs[r].dir} \ {0}]
    /\ UNCHANGED <<rec, telem, tracks, files, want, profile, spent>>
\* Mutant: the old previews are removed before the commit.
RemovesFirst(r) ==
    /\ run[r].pc = "preview"
    /\ IF obs[r].dir \in dirs[r]
       THEN /\ dirs' = [dirs EXCEPT ![r] = @ \ {obs[r].dir}]
            /\ UNCHANGED <<rec, rows, crops, want, run, profile, clock, spent>>
       ELSE _insert_observations(r)
_write_observations(r) == run[r].pc = "preview" /\ _insert_observations(r)

\* When the database refused for good the new previews are removed.
WritePlatesFails(r) ==
    /\ run[r].pc = "preview" /\ Meets("lock") /\ _revive(r, FALSE)
    /\ dirs' = [dirs EXCEPT ![r] = @ \ {run[r].new}]
    /\ UNCHANGED <<rows, crops, profile, clock>>

\* stamp_validation with the key taken when the stage began.
\* Mutant: the key of the settings in force when it ends.
KeyAtTheEnd(r) == profile
stamp_validation(r) == run[r].key
Retire(r) ==
    /\ run[r].pc = "retire"
    /\ dirs' = [dirs EXCEPT ![r] = @ \ run[r].old]
    /\ rec' = [rec EXCEPT ![r].st["plates"] = "done", ![r].rev["plates"] = TRUE,
                          ![r].key = stamp_validation(r)]
    /\ run' = At(r, "next")
    /\ UNCHANGED <<rows, crops, want, profile, clock, spent>>

\* stage_summarise: completion commits with the journey's refresh, or both
\* roll back.
stage_summarise(r) ==
    /\ run[r].pc = "summarise"
    /\ \/ /\ rec' = [rec EXCEPT ![r].state = "completed", ![r].ever = TRUE] /\ Over(r)
          /\ UNCHANGED <<rows, files, profile, clock, spent>>
       \/ StageFails(r, "lock")

-----------------------------------------------------------------------------
(* Cancellation and crash.                                                 *)

\* The recording of a cancelled job is failed, but no stage's mark changes, and
\* the task unwinds at an await.  In the commit of the observations the outcome
\* is uncertain: the new previews go only when no row has them.
Cancel(r) ==
    /\ run[r].pc # "off" /\ Meets("cancel")
    /\ Over(r) /\ rec' = [rec EXCEPT ![r].state = "failed"]
    /\ \/ /\ dirs' = [dirs EXCEPT ![r] = IF run[r].pc = "preview" THEN @ \ {run[r].new}
                                         ELSE IF run[r].pc = "retire" THEN @ \ run[r].old
                                         ELSE @]
          /\ UNCHANGED <<obs, clock>>
       \/ /\ run[r].pc = "preview"
          /\ obs' = [obs EXCEPT ![r] = [stamp |-> clock[r] + 1, on |-> tracks[r].stamp,
                                        at |-> telem[r].stamp, dir |-> run[r].new, prof |-> run[r].prof]]
          /\ clock' = [clock EXCEPT ![r] = @ + 1] /\ UNCHANGED dirs
    /\ UNCHANGED <<telem, tracks, crops, profile>>

\* The process dies; its jobs are claimed again.
Crash ==
    /\ Meets("crash")
    /\ run' = [r \in Recs |-> NoRun]
    /\ UNCHANGED <<rec, rows, files, want, profile, clock>>

-----------------------------------------------------------------------------

Step(r) ==
    \/ Begin(r) \/ (\E s \in Stages : StartStage(r, s)) \/ stage_inspect(r) \/ ReadOverlay(r) \/ WritePoints(r)
    \/ EndTelemetry(r) \/ FindObjects(r) \/ SaveCrops(r) \/ WriteTracks(r)
    \/ run[r].pc = "objects" /\ StageFails(r, "lock")
    \/ EndDetection(r) \/ OpenPlates(r) \/ LoadPlateModels(r) \/ ReadPlates(r)
    \/ _write_observations(r) \/ WritePlatesFails(r)
    \/ Retire(r) \/ stage_summarise(r)
Next ==
    \/ \E r \in Recs : Step(r) \/ Cancel(r)
    \/ \E r \in Recs, request \in Presets : Reanalyse(r, request) \/ queue_plate_repairs(r, request)
    \/ ChangePlateSettings
    \/ Crash

\* A claimed job is worked on; faults are finitely many.
Spec == Init /\ [][Next]_vars /\ \A r \in Recs : WF_vars(Step(r))

-----------------------------------------------------------------------------

Stamps(r) == 0 .. clock[r]

\* Types of the recordings, rows, files and runs.
TypeOK ==
    /\ rec \in [Recs -> [state : {"discovered", "processing", "completed", "failed", "invalid"},
                         st : [Kept -> {"pending", "running", "done", "skipped", "failed"}],
                         rev : [Kept -> BOOLEAN], ever : BOOLEAN,
                         key : Nat, asked : Nat]]
    /\ \A r \in Recs :
        /\ telem[r].stamp \in Stamps(r) /\ tracks[r].stamp \in Stamps(r) /\ obs[r].stamp \in Stamps(r)
        /\ crops[r] \in Stamps(r) /\ dirs[r] \subseteq Stamps(r) \ {0}
        /\ run[r].left \subseteq Stages
        /\ want[r] \in Presets \cup {"none"}

\* Every stored observation has its previews on disk, in whatever step a run
\* was refused, cancelled or killed; and a recording whose detection is shown
\* as done has the crops of exactly those tracks.
PicturesExist ==
    \A r \in Recs :
        /\ obs[r].dir # 0 => obs[r].dir \in dirs[r]
        /\ rec[r].st["detection"] = "done" => crops[r] = tracks[r].stamp

\* When a job is over and no stage is marked as failed or cut short, detections
\* that are shown as done were placed on the telemetry that is stored, and plates
\* on those detections and that telemetry (_STAGE_DEPENDENTS).  A cancelled job
\* may have left new telemetry beside a detection still marked as done.
Settled(r) ==
    /\ want[r] = "none" /\ rec[r].state = "completed"
    /\ \A s \in Kept : rec[r].st[s] \notin {"failed", "running"}
Coherent ==
    "cancel" \notin spent => \A r \in Recs : Settled(r) =>
        /\ rec[r].st["detection"] = "done" => tracks[r].on = telem[r].stamp
        /\ rec[r].st["plates"] = "done" =>
              obs[r].on = tracks[r].stamp /\ obs[r].at = telem[r].stamp

\* A job that was not told which stages to run completes a recording only with
\* no stage left failed, or left running by a worker that died in it.
NothingLeftBehind ==
    \A r \in Recs : run[r].pc = "summarise" /\ want[r] = "auto" =>
        \A s \in Kept : rec[r].st[s] \notin {"failed", "running"}

\* A recording never holds a copy of a position that it read itself and has
\* since read differently: a wrong fix cannot survive by being lent back.
NoEcho ==
    \A r \in Recs : telem[r].fix = "copied" => telem[r].from[1] # r

\* Plates that are shown as validated under the settings in force were read under
\* those settings and no others, although the key, the threshold and the other
\* settings are read at three moments of the stage.  Settings that were changed
\* and changed back are the exception: the key of before is then in force again,
\* and the stage may have read under what was between (README, Disagreements).
ValidatedAsRead ==
    "back" \notin spent => \A r \in Recs :
        rec[r].st["plates"] = "done" /\ rec[r].rev["plates"] /\ rec[r].key = profile =>
            obs[r].prof \subseteq {profile}

\* Every job ends, however its runs were refused, killed or lost, and the
\* sweeps do not ask for the same repair for ever.
JobsEnd == <>[](\A r \in Recs : want[r] = "none")

\* What is stored agrees: done stages were built on the stored rows, an ordinary
\* job leaves no stage behind, no position is an echo of the recording's own, and
\* plates validated under the settings in force were read under them.
ResultsAgree == TypeOK /\ Coherent /\ NothingLeftBehind /\ NoEcho /\ ValidatedAsRead
=============================================================================
