------------------------------ MODULE StageProofs ------------------------------
(***************************************************************************)
(* Proofs about the analysis of recordings: the pictures that rows point to *)
(* are on disk, an ordinary job leaves no stage behind, no position is an   *)
(* echo of the recording's own, and plates validated under the settings in  *)
(* force were read with them.                                               *)
(*                                                                         *)
(* The files change before the rows that name them, or after, never with    *)
(* them, and a run may be refused, cancelled or killed in between.  The     *)
(* invariant says for each step of a stage which files, rows and marks it   *)
(* has already changed.  Recordings, workers, presets and faults are any.   *)
(***************************************************************************)
EXTENDS StagePipeline, TLAPS

InTelemetry == {"telemetry", "points", "pairing"}
InDetection == {"detection", "vehicles", "objects", "counted"}
InPlates == {"plates", "models", "frames", "preview", "retire"}
Places == {"off", "next", "metadata", "summarise"} \cup InTelemetry \cup InDetection \cup InPlates

States == {"pending", "running", "done", "skipped", "failed"}
Recording == [state : {"discovered", "processing", "completed", "failed", "invalid"},
              st : [Kept -> States], rev : [Kept -> BOOLEAN], ever : BOOLEAN,
              key : Nat, asked : Nat]
Points == [stamp : Nat, fix : {"none", "own", "gap", "nofix", "copied"},
           from : {<<>>} \cup (Recs \X Nat)]
Objects == [stamp : Nat, on : Nat, any : BOOLEAN]
Observations == [stamp : Nat, on : Nat, at : Nat, dir : Nat, prof : SUBSET Nat]
Run == [pc : Places, left : SUBSET Stages, cur : Stages \cup {"none"}, new : Nat,
        fix : {"none", "own", "gap", "nofix"}, old : SUBSET Nat, key : Nat,
        prof : SUBSET Nat]

\* The types of all that is kept.
Types ==
  /\ rec \in [Recs -> Recording] /\ telem \in [Recs -> Points]
  /\ tracks \in [Recs -> Objects] /\ obs \in [Recs -> Observations]
  /\ crops \in [Recs -> Nat] /\ dirs \in [Recs -> SUBSET Nat]
  /\ want \in [Recs -> Presets \cup {"none"}] /\ run \in [Recs -> Run]
  /\ profile \in Nat /\ clock \in [Recs -> Nat]

\* No stamp is ahead of those given out.
Given(r) ==
  /\ telem[r].stamp <= clock[r] /\ tracks[r].stamp <= clock[r] /\ obs[r].stamp <= clock[r]
  /\ obs[r].dir <= clock[r] /\ crops[r] <= clock[r] /\ dirs[r] \subseteq 1 .. clock[r]
  /\ run[r].new <= clock[r]

\* A run works for a job; the stage it is in is marked as running, and what was
\* found failed or running is still to come.
Marked(r) ==
  LET pc == run[r].pc IN
  /\ pc # "off" => want[r] # "none"
  /\ pc \notin {"off", "next"} /\ run[r].cur \in Kept => rec[r].st[run[r].cur] = "running"
  /\ pc = "metadata" => run[r].cur = "metadata"
  /\ pc \in InTelemetry => run[r].cur = "telemetry"
  /\ pc \in InDetection => run[r].cur = "detection"
  /\ pc \in InPlates => run[r].cur = "plates"
  /\ pc = "summarise" => run[r].left \cap Kept = {} /\ run[r].cur = "summarise"
  /\ pc # "off" /\ want[r] = "auto" =>
       \A s \in Kept : rec[r].st[s] \in {"failed", "running"} =>
          s \in run[r].left \/ (s = run[r].cur /\ pc # "next")

\* Crops are new before the tracks are, and the two agree again before the
\* detection is done.
Cropped(r) ==
  /\ run[r].pc = "objects" => crops[r] = run[r].new
  /\ run[r].pc = "counted" => crops[r] = tracks[r].stamp
  /\ rec[r].st["detection"] = "done" => crops[r] = tracks[r].stamp

\* New previews are beside the old ones until the observations have changed.
Previewed(r) ==
  /\ obs[r].dir # 0 => obs[r].dir \in dirs[r]
  /\ run[r].pc = "preview" /\ run[r].new # 0 => run[r].new \in dirs[r] /\ obs[r].dir # run[r].new
  /\ run[r].pc = "retire" => obs[r].dir \notin run[r].old

\* The settings plates are read under came no earlier than the key that is
\* stamped, and settings only move on until some come back.
Validated(r) ==
  /\ run[r].pc = "retire" => obs[r].prof = run[r].prof
  /\ "back" \notin spent =>
     /\ run[r].pc \in InPlates \ {"plates"} =>
          run[r].key <= profile /\ \A p \in run[r].prof : run[r].key <= p /\ p <= profile
     /\ rec[r].st["plates"] = "done" /\ rec[r].rev["plates"] =>
          \A p \in obs[r].prof : rec[r].key <= p /\ p <= profile

\* A copied position names the recording that read it.
Lent(r) == telem[r].fix = "copied" => telem[r].from # <<>> /\ telem[r].from[1] # r

Fits(r) == Given(r) /\ Marked(r) /\ Cropped(r) /\ Previewed(r) /\ Validated(r) /\ Lent(r)
Inv == Types /\ \A r \in Recs : Fits(r)

-----------------------------------------------------------------------------
(* What is left to show of a step.                                         *)

\* Nothing of a recording changes.
Same(x) ==
  /\ rec'[x] = rec[x] /\ telem'[x] = telem[x] /\ tracks'[x] = tracks[x] /\ obs'[x] = obs[x]
  /\ crops'[x] = crops[x] /\ dirs'[x] = dirs[x] /\ want'[x] = want[x] /\ run'[x] = run[x]
  /\ clock'[x] = clock[x]

\* A recording that a step does not touch still fits, also when the settings
\* have moved on.
LEMMA Untouched ==
  ASSUME Types, NEW x \in Recs, Fits(x), Same(x), spent \subseteq spent', profile' \in Nat,
         "back" \notin spent' => profile' >= profile
  PROVE  Fits(x)'
  <1>1. /\ rec[x].key \in Nat /\ run[x].key \in Nat /\ profile \in Nat
        /\ run[x].prof \subseteq Nat /\ obs[x].prof \subseteq Nat
    BY DEF Types, Recording, Run, Observations
  <1>2. Given(x)'
    BY DEF Given, Fits, Same
  <1>3. Marked(x)'
    BY DEF Marked, Fits, Same
  <1>4. Cropped(x)' /\ Previewed(x)' /\ Lent(x)'
    BY DEF Cropped, Previewed, Lent, Fits, Same
  <1>5. Validated(x)'
    <2>1. CASE "back" \in spent'
      BY <2>1 DEF Validated, Fits, Same
    <2>2. CASE "back" \notin spent'
      BY <1>1, <2>2 DEF Validated, Fits, Same
    <2> QED BY <2>1, <2>2
  <1> QED BY <1>2, <1>3, <1>4, <1>5 DEF Fits

\* A step of one recording has that recording to show.
LEMMA One ==
  ASSUME Inv, spent \subseteq spent', NEW r \in Recs, Types', UNCHANGED profile,
         \A x \in Recs \ {r} : Same(x), Fits(r)'
  PROVE  Inv'
  <1>1. ASSUME NEW x \in Recs \ {r} PROVE Fits(x)'
    <2>1. profile \in Nat
      BY DEF Inv, Types
    <2> QED BY <2>1, Untouched DEF Inv
  <1> QED BY <1>1 DEF Inv

\* The empty run is a run.
LEMMA NoRunIsRun ==
  /\ NoRun \in Run /\ NoRun.pc = "off" /\ NoRun.new = 0 /\ NoRun.prof = {}
  BY DEF NoRun, Run, Places

\* What a run's move to another step changes.
LEMMA AtValue ==
  ASSUME Types, NEW r \in Recs, NEW place \in Places, run' = At(r, place)
  PROVE  /\ run' \in [Recs -> Run] /\ \A x \in Recs \ {r} : run'[x] = run[x]
         /\ run'[r] = [run[r] EXCEPT !.pc = place]
         /\ run'[r].pc = place /\ run'[r].left = run[r].left /\ run'[r].cur = run[r].cur
         /\ run'[r].new = run[r].new /\ run'[r].prof = run[r].prof /\ run'[r].key = run[r].key /\ run'[r].old = run[r].old
  BY DEF Types, At, Run

\* What the mark of a stage changes.
LEMMA MarkValue ==
  ASSUME Types, NEW r \in Recs, NEW s \in Kept, NEW state \in States, NEW current \in BOOLEAN,
         Mark(r, s, state, current)
  PROVE  /\ rec' \in [Recs -> Recording] /\ \A x \in Recs \ {r} : rec'[x] = rec[x]
         /\ \A t \in Kept : rec'[r].st[t] = IF t = s THEN state ELSE rec[r].st[t]
         /\ \A t \in Kept : t # s => rec'[r].rev[t] = rec[r].rev[t]
         /\ rec'[r].key = rec[r].key /\ rec'[r].asked = rec[r].asked
  <1> DEFINE now == IF current THEN TRUE ELSE rec[r].rev[s]
  <1>1. rec \in [Recs -> Recording]
    BY DEF Types
  <1>2. rec' = [rec EXCEPT ![r].st[s] = state, ![r].rev[s] = now]
    BY DEF Mark
  <1>3. now \in BOOLEAN
    BY <1>1 DEF Recording
  <1> HIDE DEF now
  <1> QED BY <1>1, <1>2, <1>3 DEF Recording

\* What a failure changes.
LEMMA ReviveValue ==
  ASSUME Types, NEW r \in Recs, NEW permanent \in BOOLEAN, _revive(r, permanent)
  PROVE  /\ rec' \in [Recs -> Recording] /\ \A x \in Recs \ {r} : rec'[x] = rec[x]
         /\ \A t \in Kept : rec'[r].st[t] = IF t = run[r].cur THEN "failed" ELSE rec[r].st[t]
         /\ rec'[r].rev = rec[r].rev /\ rec'[r].key = rec[r].key
         /\ rec'[r].asked = rec[r].asked
         /\ run' \in [Recs -> Run] /\ run'[r] = NoRun /\ \A x \in Recs \ {r} : run'[x] = run[x]
         /\ want' \in [Recs -> Presets \cup {"none"}] /\ \A x \in Recs \ {r} : want'[x] = want[x]
  <1> DEFINE state == IF permanent THEN "invalid" ELSE "failed"
             cur == run[r].cur
             st == IF cur \in Kept THEN [rec[r].st EXCEPT ![cur] = "failed"] ELSE rec[r].st
  <1>1. rec \in [Recs -> Recording] /\ rec[r].st \in [Kept -> States]
    BY DEF Types, Recording
  <1>2. rec' = [rec EXCEPT ![r].state = state, ![r].st = st]
    BY <1>1 DEF _revive
  <1>3. state \in {"invalid", "failed"}
    OBVIOUS
  <1>4. st \in [Kept -> States] /\ \A t \in Kept : st[t] = IF t = cur THEN "failed" ELSE rec[r].st[t]
    BY <1>1 DEF States
  <1>5. /\ run' \in [Recs -> Run] /\ run'[r] = NoRun /\ \A x \in Recs \ {r} : run'[x] = run[x]
        /\ want' \in [Recs -> Presets \cup {"none"}] /\ \A x \in Recs \ {r} : want'[x] = want[x]
    BY NoRunIsRun DEF Types, _revive
  <1> HIDE DEF st, state
  <1>6. /\ rec' \in [Recs -> Recording] /\ \A x \in Recs \ {r} : rec'[x] = rec[x]
        /\ rec'[r].st = st /\ rec'[r].rev = rec[r].rev /\ rec'[r].key = rec[r].key
        /\ rec'[r].asked = rec[r].asked
    BY <1>1, <1>2, <1>3, <1>4 DEF Recording
  <1> QED BY <1>4, <1>5, <1>6

\* The mark stands while a run goes from step to step within a stage.
LEMMA MarkedWithin ==
  ASSUME Types, NEW r \in Recs, Marked(r), rec'[r] = rec[r], want'[r] = want[r],
         run'[r].left = run[r].left, run'[r].cur = run[r].cur,
         NEW G \in {InTelemetry, InDetection, InPlates}, run[r].pc \in G, run'[r].pc \in G
  PROVE  Marked(r)'
  BY DEF Marked, InTelemetry, InDetection, InPlates

\* When the stage ends it is settled, or put off, and no longer the run's.
LEMMA MarkedDone ==
  ASSUME Types, NEW r \in Recs, Marked(r), want'[r] = want[r],
         run[r].pc \notin {"off", "next"}, run'[r].pc = "next",
         run'[r].left = run[r].left, run'[r].cur = run[r].cur,
         \A t \in Kept : t # run[r].cur => rec'[r].st[t] = rec[r].st[t],
         run[r].cur \in Kept => rec'[r].st[run[r].cur] \notin {"failed", "running"}
  PROVE  Marked(r)'
  BY DEF Marked, InTelemetry, InDetection, InPlates

\* A run that is over marks nothing.
LEMMA MarkedOff ==
  ASSUME NEW r \in Recs, run'[r].pc = "off"
  PROVE  Marked(r)'
  BY DEF Marked, InTelemetry, InDetection, InPlates

-----------------------------------------------------------------------------
(* Selection and the run's frame.                                          *)

\* A stage failed.
LEMMA FailKeeps ==
  ASSUME Inv, spent \subseteq spent', NEW r \in Recs, NEW event, StageFails(r, event)
  PROVE  Inv'
  <1> DEFINE permanent == event = "permanent"
  <1>1. Types /\ Fits(r) /\ permanent \in BOOLEAN
    BY DEF Inv
  <1>2. _revive(r, permanent) /\ UNCHANGED <<rows, files, profile, clock>>
    BY DEF StageFails
  <1> HIDE DEF permanent
  <1>3. /\ rec' \in [Recs -> Recording] /\ \A x \in Recs \ {r} : rec'[x] = rec[x]
        /\ \A t \in Kept : rec'[r].st[t] = IF t = run[r].cur THEN "failed" ELSE rec[r].st[t]
        /\ rec'[r].rev = rec[r].rev /\ rec'[r].key = rec[r].key
        /\ rec'[r].asked = rec[r].asked
        /\ run' \in [Recs -> Run] /\ run'[r] = NoRun /\ \A x \in Recs \ {r} : run'[x] = run[x]
        /\ want' \in [Recs -> Presets \cup {"none"}] /\ \A x \in Recs \ {r} : want'[x] = want[x]
    BY <1>1, <1>2, ReviveValue
  <1>4. Types'
    BY <1>1, <1>2, <1>3 DEF Types, rows, files
  <1>5. Given(r)'
    <2>1. clock[r] \in Nat /\ profile \in Nat
      BY <1>1 DEF Types
    <2> QED BY <1>1, <1>2, <1>3, <2>1, NoRunIsRun DEF Fits, Given, rows, files
  <1>6. Marked(r)'
    BY <1>3, NoRunIsRun, MarkedOff
  <1>7. Cropped(r)' /\ Previewed(r)' /\ Validated(r)' /\ Lent(r)'
    BY <1>1, <1>2, <1>3, NoRunIsRun
       DEF Fits, Cropped, Previewed, Validated, InPlates, Lent, rows, files, Kept
  <1> QED BY <1>1, <1>2, <1>3, <1>4, <1>5, <1>6, <1>7, One DEF Fits, Same, rows, files

\* A job begins: what it is to run includes what it found unfinished.
LEMMA BeginKeeps ==
  ASSUME Inv, spent \subseteq spent', NEW r \in Recs, Begin(r)
  PROVE  Inv'
  <1>1. Types /\ Fits(r)
    BY DEF Inv
  <1>2. Selected(r) \subseteq Stages /\ (want[r] = "auto" => Needed(r) \subseteq Selected(r))
    <2>1. \A S \in SUBSET Stages : _with_dependents(S) \subseteq Stages
      BY DEF _with_dependents, Dependents, Stages, Kept
    <2>2. Needed(r) \subseteq Kept /\ Kept \subseteq Stages
      BY DEF Needed, Stages
    <2>3. want[r] \in Presets \cup {"none"}
      BY <1>1 DEF Types
    <2>4. CASE want[r] = "auto"
      BY <2>1, <2>2, <2>4 DEF Selected, pending_stages, _with_dependents, Stages
    <2>5. CASE want[r] # "auto"
      <3>1. want[r] = "everything" \/ {want[r]} \in SUBSET Stages
        BY <2>3, <2>5 DEF Presets, Stages, Kept, Begin
      <3> QED BY <2>1, <2>5, <3>1 DEF Selected, expand_stages, Stages
    <2> QED BY <2>4, <2>5
  <1> DEFINE left == Selected(r)
  <1>3. /\ run' = [run EXCEPT ![r] = [NoRun EXCEPT !.pc = "next", !.left = left]]
        /\ rec' = [rec EXCEPT ![r].state = "processing"]
        /\ UNCHANGED <<rows, files, want, profile, clock>> /\ want[r] # "none"
    BY DEF Begin
  <1>4. \A s \in Kept : want[r] = "auto" /\ rec[r].st[s] \in {"failed", "running"} => s \in left
    BY <1>2 DEF Needed
  <1> HIDE DEF left
  <1>5. [NoRun EXCEPT !.pc = "next", !.left = left] \in Run
    BY <1>2, NoRunIsRun DEF Run, Places, left
  <1>6. /\ run' \in [Recs -> Run] /\ \A x \in Recs \ {r} : run'[x] = run[x]
        /\ run'[r].pc = "next" /\ run'[r].left = left
        /\ run'[r].new = 0
    BY <1>1, <1>3, <1>5, NoRunIsRun DEF Types, NoRun
  <1>7. /\ rec' \in [Recs -> Recording] /\ \A x \in Recs \ {r} : rec'[x] = rec[x]
        /\ rec'[r].st = rec[r].st /\ rec'[r].rev = rec[r].rev
        /\ rec'[r].key = rec[r].key /\ rec'[r].asked = rec[r].asked
    BY <1>1, <1>3 DEF Types, Recording
  <1>8. Types'
    BY <1>1, <1>3, <1>6, <1>7 DEF Types, rows, files
  <1>9. Given(r)'
    <2>1. clock[r] \in Nat /\ profile \in Nat
      BY <1>1 DEF Types
    <2> QED BY <1>1, <1>3, <1>6, <1>7, <2>1 DEF Fits, Given, rows, files
  <1>10. Marked(r)'
    BY <1>3, <1>4, <1>6, <1>7 DEF Marked, InTelemetry, InDetection, InPlates
  <1>11. Cropped(r)' /\ Previewed(r)' /\ Validated(r)' /\ Lent(r)'
    BY <1>1, <1>3, <1>6, <1>7 DEF Fits, Cropped, Previewed, Validated, InPlates, Lent, rows, files
  <1> QED BY <1>1, <1>3, <1>6, <1>7, <1>8, <1>9, <1>10, <1>11, One DEF Fits, Same, rows, files

\* The order of the stages.
LEMMA Ranks ==
  /\ Rank("metadata") = 1 /\ Rank("telemetry") = 2 /\ Rank("detection") = 3
  /\ Rank("plates") = 4 /\ Rank("summarise") = 5
  <1>1. DOMAIN STAGE_ORDER = 1 .. 5
    BY DEF STAGE_ORDER
  <1>2. /\ STAGE_ORDER[1] = "metadata" /\ STAGE_ORDER[2] = "telemetry"
        /\ STAGE_ORDER[3] = "detection" /\ STAGE_ORDER[4] = "plates"
        /\ STAGE_ORDER[5] = "summarise"
    BY DEF STAGE_ORDER
  <1>3. \A i \in 1 .. 5 : i = 1 \/ i = 2 \/ i = 3 \/ i = 4 \/ i = 5
    OBVIOUS
  <1> QED BY <1>1, <1>2, <1>3 DEF Rank

\* The next stage is marked and taken up; the last one comes when no other is left.
LEMMA StartStageKeeps ==
  ASSUME Inv, spent \subseteq spent', NEW r \in Recs, NEW s \in Stages, StartStage(r, s)
  PROVE  Inv'
  <1>1. Types /\ Fits(r)
    BY DEF Inv
  <1>2. /\ run' = [run EXCEPT ![r].pc = s, ![r].cur = s, ![r].left = @ \ {s}]
        /\ run[r].pc = "next"
        /\ UNCHANGED <<rows, files, want, profile, clock>>
    BY DEF StartStage
  <1>3. /\ run' \in [Recs -> Run] /\ \A x \in Recs \ {r} : run'[x] = run[x]
        /\ run'[r].pc = s /\ run'[r].cur = s /\ run'[r].left = run[r].left \ {s}
        /\ run'[r].new = run[r].new /\ run'[r].prof = run[r].prof
        /\ run'[r].key = run[r].key
    <2> DEFINE left == run[r].left \ {s}
    <2>1. s \in Places
      BY DEF Stages, Kept, Places, InTelemetry, InDetection, InPlates
    <2>2. left \subseteq Stages /\ run \in [Recs -> Run]
      BY <1>1 DEF Types, Run
    <2>3. run' = [run EXCEPT ![r].pc = s, ![r].cur = s, ![r].left = left]
      BY <1>2
    <2>4. left = run[r].left \ {s}
      OBVIOUS
    <2> HIDE DEF left
    <2>5. /\ run' \in [Recs -> Run] /\ \A x \in Recs \ {r} : run'[x] = run[x]
          /\ run'[r].pc = s /\ run'[r].cur = s /\ run'[r].left = left
          /\ run'[r].new = run[r].new /\ run'[r].prof = run[r].prof
          /\ run'[r].key = run[r].key
      <3> DEFINE v == [run[r] EXCEPT !.pc = s, !.cur = s, !.left = left]
      <3>1. run' = [run EXCEPT ![r] = v]
        BY <2>2, <2>3
      <3>2. run[r] \in Run
        BY <2>2
      <3>3. v \in Run
        BY <2>1, <2>2, <3>2 DEF Run
      <3>4. v.pc = s /\ v.cur = s /\ v.left = left /\ v.new = run[r].new
            /\ v.prof = run[r].prof /\ v.key = run[r].key
        BY <3>2 DEF Run
      <3> HIDE DEF v
      <3> QED BY <2>2, <3>1, <3>3, <3>4
    <2> QED BY <2>4, <2>5
  <1>4. /\ rec' \in [Recs -> Recording] /\ \A x \in Recs \ {r} : rec'[x] = rec[x]
        /\ \A t \in Kept : rec'[r].st[t] = IF t = s THEN "running" ELSE rec[r].st[t]
        /\ rec'[r].rev = rec[r].rev
        /\ rec'[r].key = rec[r].key /\ rec'[r].asked = rec[r].asked
    <2>1. CASE s \in Kept
      <3>1. rec' = [rec EXCEPT ![r].st[s] = "running"]
        BY <2>1 DEF StartStage
      <3>2. rec \in [Recs -> Recording] /\ "running" \in States
        BY <1>1 DEF Types, States
      <3> QED BY <2>1, <3>1, <3>2 DEF Recording
    <2>2. CASE s \notin Kept
      BY <1>1, <2>2 DEF StartStage, Types
    <2> QED BY <2>1, <2>2
  <1>5. s = "summarise" => run'[r].left \cap Kept = {}
    <2>1. ASSUME s = "summarise", NEW t \in Kept, t \in run[r].left PROVE FALSE
      <3>1. Rank(s) <= Rank(t)
        BY <2>1 DEF StartStage, IsNext
      <3> QED BY <2>1, <3>1, Ranks DEF Kept
    <2> QED BY <1>3, <2>1
  <1>6. Types'
    BY <1>1, <1>2, <1>3, <1>4 DEF Types, rows, files
  <1>7. Given(r)'
    BY <1>1, <1>2, <1>3, <1>4 DEF Fits, Given, rows, files
  <1>8. Marked(r)'
    <2>1. /\ want[r] # "none"
          /\ want[r] = "auto" => \A t \in Kept : rec[r].st[t] \in {"failed", "running"} => t \in run[r].left
      BY <1>1, <1>2 DEF Fits, Marked
    <2>2. s \in {"metadata", "telemetry", "detection", "plates", "summarise"}
      BY DEF Stages, Kept
    <2> QED BY <1>2, <1>3, <1>4, <1>5, <2>1, <2>2 DEF Marked, InTelemetry, InDetection, InPlates
  <1>9. Cropped(r)' /\ Previewed(r)' /\ Validated(r)' /\ Lent(r)'
    <2>1. s \notin {"objects", "counted", "models", "frames", "preview", "retire"}
      BY DEF Stages, Kept
    <2> QED BY <1>1, <1>2, <1>3, <1>4, <2>1
            DEF Fits, Cropped, Previewed, Validated, InPlates, Lent, rows, files, Kept
  <1> QED BY <1>1, <1>2, <1>3, <1>4, <1>6, <1>7, <1>8, <1>9, One DEF Fits, Same, rows, files

-----------------------------------------------------------------------------
(* The stages.                                                             *)

\* A stage ends without another row: it is settled, or put off.
LEMMA StageEnds ==
  ASSUME Inv, spent \subseteq spent', NEW r \in Recs, NEW s \in Kept, run[r].cur = s,
         run[r].pc \notin {"off", "next", "summarise"},
         NEW state \in {"done", "skipped", "pending"}, NEW current \in BOOLEAN,
         Mark(r, s, state, current), run' = At(r, "next"),
         UNCHANGED <<rows, files, want, profile, clock>>,
         s = "detection" /\ state = "done" => crops[r] = tracks[r].stamp,
         s = "plates" => state # "done"
  PROVE  Inv'
  <1>1. Types /\ Fits(r) /\ "next" \in Places /\ state \in States
    BY DEF Inv, Places, States
  <1>2. /\ run' \in [Recs -> Run] /\ \A x \in Recs \ {r} : run'[x] = run[x]
        /\ run'[r].pc = "next" /\ run'[r].left = run[r].left /\ run'[r].cur = run[r].cur
        /\ run'[r].new = run[r].new /\ run'[r].prof = run[r].prof
        /\ run'[r].key = run[r].key
    BY <1>1, AtValue
  <1>3. /\ rec' \in [Recs -> Recording] /\ \A x \in Recs \ {r} : rec'[x] = rec[x]
        /\ \A t \in Kept : rec'[r].st[t] = IF t = s THEN state ELSE rec[r].st[t]
        /\ \A t \in Kept : t # s => rec'[r].rev[t] = rec[r].rev[t]
        /\ rec'[r].key = rec[r].key /\ rec'[r].asked = rec[r].asked
    BY <1>1, MarkValue
  <1>4. Types'
    BY <1>1, <1>2, <1>3 DEF Types, rows, files
  <1>5. Given(r)'
    BY <1>1, <1>2, <1>3 DEF Fits, Given, rows, files
  <1>6. Marked(r)'
    BY <1>1, <1>2, <1>3, MarkedDone DEF Fits
  <1>7. Cropped(r)' /\ Previewed(r)' /\ Validated(r)' /\ Lent(r)'
    BY <1>1, <1>2, <1>3 DEF Fits, Cropped, Previewed, Validated, InPlates, Lent, rows, files, Kept
  <1> QED BY <1>1, <1>2, <1>3, <1>4, <1>5, <1>6, <1>7, One DEF Fits, Same, rows, files

\* A stage is skipped.
LEMMA SkipsKeeps ==
  ASSUME Inv, spent \subseteq spent', NEW r \in Recs, NEW s \in {"telemetry", "detection", "plates"},
         NEW pc \in {"telemetry", "detection", "models"}, run[r].pc = pc,
         s = IF pc = "models" THEN "plates" ELSE pc, Skips(r, s)
  PROVE  Inv'
  <1>1. run[r].cur = s /\ s \in Kept /\ run[r].pc \notin {"off", "next", "summarise"}
    BY DEF Inv, Fits, Marked, InTelemetry, InDetection, InPlates, Kept
  <1> QED BY <1>1, StageEnds DEF Skips

\* A step within a stage that changes no row and no file.
LEMMA Within ==
  ASSUME Inv, spent \subseteq spent', NEW r \in Recs, NEW G \in {InTelemetry, InDetection, InPlates},
         run[r].pc \in G, run' \in [Recs -> Run], \A x \in Recs \ {r} : run'[x] = run[x],
         run'[r].pc \in G \ {"objects", "counted", "models", "frames", "preview", "retire"},
         run'[r].left = run[r].left, run'[r].cur = run[r].cur,
         run'[r].new = run[r].new, run'[r].prof = run[r].prof, run'[r].key = run[r].key,
         UNCHANGED <<rec, rows, files, want, profile, clock>>
  PROVE  Inv'
  <1>1. Types /\ Fits(r)
    BY DEF Inv
  <1>2. Types'
    BY <1>1 DEF Types, rows, files
  <1>3. Given(r)' /\ Cropped(r)' /\ Previewed(r)' /\ Validated(r)' /\ Lent(r)'
    BY <1>1 DEF Fits, Given, Cropped, Previewed, Validated, InPlates, Lent, rows, files
  <1>4. Marked(r)'
    BY <1>1, MarkedWithin DEF Fits
  <1> QED BY <1>1, <1>2, <1>3, <1>4, One DEF Fits, Same, rows, files

\* The file is judged.
LEMMA InspectKeeps ==
  ASSUME Inv, spent \subseteq spent', NEW r \in Recs, stage_inspect(r)
  PROVE  Inv'
  <1>1. CASE StageFails(r, "permanent") \/ StageFails(r, "decode")
    BY <1>1, FailKeeps
  <1>2. CASE Done(r, "metadata") /\ UNCHANGED <<rows, files, want, profile, clock, spent>>
    <2>1. run[r].pc = "metadata" /\ run[r].cur = "metadata" /\ "metadata" \in Kept
      BY DEF stage_inspect, Inv, Fits, Marked, Kept
    <2> QED BY <1>2, <2>1, StageEnds DEF Done
  <1> QED BY <1>1, <1>2 DEF stage_inspect

\* The overlay is read, and objects are looked for.
LEMMA ReadsKeep ==
  ASSUME Inv, spent \subseteq spent', NEW r \in Recs, ReadOverlay(r) \/ FindObjects(r)
  PROVE  Inv'
  <1>1. CASE StageFails(r, "decode")
    BY <1>1, FailKeeps
  <1>2. CASE \/ run[r].pc = "telemetry" /\ Skips(r, "telemetry")
             \/ run[r].pc = "detection" /\ Skips(r, "detection")
    BY <1>2, SkipsKeeps
  <1>3. ASSUME run[r].pc = "telemetry", NEW fix \in {"own", "gap", "nofix"},
               run' = [run EXCEPT ![r].pc = "points", ![r].fix = fix],
               UNCHANGED <<rec, rows, files, want, profile, clock, spent>>
        PROVE  Inv'
    <2>1. /\ run' \in [Recs -> Run] /\ \A x \in Recs \ {r} : run'[x] = run[x]
          /\ run'[r].pc = "points" /\ run'[r].left = run[r].left /\ run'[r].cur = run[r].cur
          /\ run'[r].new = run[r].new /\ run'[r].prof = run[r].prof
          /\ run'[r].key = run[r].key
      <3>1. "points" \in Places /\ run \in [Recs -> Run]
        BY DEF Places, InTelemetry, Inv, Types
      <3> QED BY <1>3, <3>1 DEF Run
    <2> QED BY <1>3, <2>1, Within DEF InTelemetry
  <1>4. ASSUME run[r].pc = "detection", run' = At(r, "vehicles"),
               UNCHANGED <<rec, rows, files, want, profile, clock, spent>>
        PROVE  Inv'
    <2>1. "vehicles" \in Places /\ Types
      BY DEF Places, InDetection, Inv
    <2> QED BY <1>4, <2>1, AtValue, Within DEF InDetection
  <1> QED BY <1>1, <1>2, <1>3, <1>4 DEF ReadOverlay, FindObjects

\* The rows of the telemetry are replaced.
LEMMA WritePointsKeeps ==
  ASSUME Inv, spent \subseteq spent', NEW r \in Recs, WritePoints(r)
  PROVE  Inv'
  <1>1. CASE StageFails(r, "lock")
    BY <1>1, FailKeeps
  <1>2. CASE ~StageFails(r, "lock")
    <2>1. Types /\ Fits(r) /\ "pairing" \in Places /\ run[r].pc = "points"
      BY DEF Inv, Places, InTelemetry, WritePoints
    <2>2. /\ telem' = [telem EXCEPT ![r] = [stamp |-> clock[r] + 1, fix |-> run[r].fix,
                                            from |-> <<>>]]
          /\ clock' = [clock EXCEPT ![r] = @ + 1] /\ run' = At(r, "pairing")
          /\ UNCHANGED <<rec, tracks, obs, files, want, profile>>
      BY <1>2 DEF WritePoints
    <2>3. clock[r] \in Nat /\ run[r].fix \in {"none", "own", "gap", "nofix"}
      BY <2>1 DEF Types, Run
    <2>4. /\ telem' \in [Recs -> Points] /\ \A x \in Recs \ {r} : telem'[x] = telem[x]
          /\ telem'[r].stamp = clock[r] + 1 /\ telem'[r].fix # "copied"
          /\ clock' \in [Recs -> Nat] /\ clock'[r] = clock[r] + 1
          /\ \A x \in Recs \ {r} : clock'[x] = clock[x]
      BY <2>1, <2>2, <2>3 DEF Types, Points
    <2>5. /\ run' \in [Recs -> Run] /\ \A x \in Recs \ {r} : run'[x] = run[x]
          /\ run'[r].pc = "pairing" /\ run'[r].left = run[r].left /\ run'[r].cur = run[r].cur
          /\ run'[r].new = run[r].new /\ run'[r].prof = run[r].prof
          /\ run'[r].key = run[r].key
      BY <2>1, <2>2, AtValue
    <2>6. Types'
      BY <2>1, <2>2, <2>4, <2>5 DEF Types, files
    <2>7. Given(r)'
      <3>1. /\ tracks[r].stamp \in Nat /\ obs[r].stamp \in Nat /\ obs[r].dir \in Nat
            /\ crops[r] \in Nat /\ run[r].new \in Nat
        BY <2>1 DEF Types, Objects, Observations, Run
      <3> QED BY <2>1, <2>2, <2>3, <2>4, <2>5, <3>1 DEF Fits, Given, files
    <2>8. Marked(r)'
      BY <2>1, <2>2, <2>5, MarkedWithin DEF Fits, InTelemetry
    <2>9. Cropped(r)' /\ Previewed(r)' /\ Validated(r)' /\ Lent(r)'
      BY <2>1, <2>2, <2>4, <2>5 DEF Fits, Cropped, Previewed, Validated, InPlates, Lent, files
    <2> QED BY <2>1, <2>2, <2>4, <2>5, <2>6, <2>7, <2>8, <2>9, One DEF Fits, Same, files
  <1> QED BY <1>1, <1>2

\* A copy from a camera that read its own position is never an echo.
LEMMA FilledValue ==
  ASSUME NEW t \in Recs, NEW d \in Recs \ {t}, NEW row_ \in Points, NEW donor \in Points,
         Lends(donor, row_)
  PROVE  /\ Filled(row_, d, donor) \in Points
         /\ Filled(row_, d, donor).stamp = row_.stamp
         /\ Filled(row_, d, donor).from # <<>> /\ Filled(row_, d, donor).from[1] # t
  <1>1. Origin(d, donor) = <<d, donor.stamp>> /\ donor.stamp \in Nat
    BY DEF Lends, Donor, Origin, Points
  <1>2. Origin(d, donor) \in Recs \X Nat /\ Origin(d, donor)[1] = d /\ Origin(d, donor) # <<>>
    BY <1>1
  <1> HIDE DEF Origin
  <1> QED BY <1>2 DEF Filled, Points

\* Two cameras fill each other's gaps, each with what the other read itself.
LEMMA EndTelemetryKeeps ==
  ASSUME Inv, spent \subseteq spent', NEW r \in Recs, EndTelemetry(r)
  PROVE  Inv'
  <1> DEFINE partners == {p \in Recs \ {r} : rec[p].st["telemetry"] = "done"}
             lenders == {p \in partners : Lends(telem[p], telem[r])}
  <1>1. Types /\ Fits(r) /\ "next" \in Places /\ "telemetry" \in Kept
        /\ "done" \in States /\ run[r].pc = "pairing"
    BY DEF Inv, Places, Kept, States, EndTelemetry
  <1>0. PICK mine \in {telem[r]} \cup {Filled(telem[r], p, telem[p]) : p \in lenders} :
          \E lent \in SUBSET {p \in partners : Lends(mine, telem[p])} :
             telem' = [x \in Recs |-> IF x = r THEN mine
                                      ELSE IF x \in lent THEN Filled(telem[x], r, mine)
                                      ELSE telem[x]]
    BY DEF EndTelemetry
  <1>2. PICK lent \in SUBSET {p \in partners : Lends(mine, telem[p])} :
          telem' = [x \in Recs |-> IF x = r THEN mine
                                   ELSE IF x \in lent THEN Filled(telem[x], r, mine)
                                   ELSE telem[x]]
    BY <1>0
  <1>3. Done(r, "telemetry") /\ UNCHANGED <<tracks, obs, files, want, profile, clock>>
    BY DEF EndTelemetry
  <1>4. /\ mine \in Points /\ mine.stamp = telem[r].stamp
        /\ mine.fix = "copied" => mine.from # <<>> /\ mine.from[1] # r
    <2>1. CASE mine = telem[r]
      BY <1>1, <2>1 DEF Types, Fits, Lent
    <2>2. ASSUME NEW p \in lenders, mine = Filled(telem[r], p, telem[p])
          PROVE  mine \in Points /\ mine.stamp = telem[r].stamp
                 /\ mine.from # <<>> /\ mine.from[1] # r
      BY <1>1, <2>2, FilledValue DEF Types
    <2> QED BY <1>0, <2>1, <2>2
  <1>5. ASSUME NEW x \in Recs
        PROVE  /\ telem'[x] \in Points /\ telem'[x].stamp = telem[x].stamp
               /\ telem'[x].fix = "copied" => telem'[x].from # <<>> /\ telem'[x].from[1] # x
    <2>1. CASE x = r
      BY <1>2, <1>4, <2>1
    <2>2. CASE x # r /\ x \in lent
      <3>1. telem'[x] = Filled(telem[x], r, mine) /\ Lends(mine, telem[x])
        BY <1>2, <2>2
      <3>2. telem[x] \in Points
        BY <1>1 DEF Types
      <3> QED BY <1>4, <2>2, <3>1, <3>2, FilledValue
    <2>3. CASE x # r /\ x \notin lent
      <3>1. telem'[x] = telem[x]
        BY <1>2, <2>3
      <3> QED BY <1>1, <3>1 DEF Inv, Types, Fits, Lent
    <2> QED BY <2>1, <2>2, <2>3
  <1>6. telem' \in [Recs -> Points]
    BY <1>2, <1>5
  <1>7. /\ run' \in [Recs -> Run] /\ \A x \in Recs \ {r} : run'[x] = run[x]
        /\ run'[r].pc = "next" /\ run'[r].left = run[r].left /\ run'[r].cur = run[r].cur
        /\ run'[r].new = run[r].new /\ run'[r].prof = run[r].prof
        /\ run'[r].key = run[r].key
    BY <1>1, <1>3, AtValue DEF Done
  <1>8. /\ rec' \in [Recs -> Recording] /\ \A x \in Recs \ {r} : rec'[x] = rec[x]
        /\ \A t \in Kept : rec'[r].st[t] = IF t = "telemetry" THEN "done" ELSE rec[r].st[t]
        /\ \A t \in Kept : t # "telemetry" => rec'[r].rev[t] = rec[r].rev[t]
        /\ rec'[r].key = rec[r].key /\ rec'[r].asked = rec[r].asked
    BY <1>1, <1>3, MarkValue DEF Done
  <1>9. Types'
    BY <1>1, <1>3, <1>6, <1>7, <1>8 DEF Types, files
  <1>10. Fits(r)'
    <2>1. run[r].cur = "telemetry"
      BY <1>1 DEF Fits, Marked, InTelemetry
    <2>2. Given(r)'
      BY <1>1, <1>3, <1>5, <1>7, <1>8 DEF Fits, Given, files
    <2>3. Marked(r)'
      BY <1>1, <1>3, <1>7, <1>8, <2>1, MarkedDone DEF Fits
    <2>4. Cropped(r)' /\ Previewed(r)' /\ Validated(r)' /\ Lent(r)'
      BY <1>1, <1>3, <1>5, <1>7, <1>8 DEF Fits, Cropped, Previewed, Validated, InPlates, Lent, files, Kept
    <2> QED BY <2>2, <2>3, <2>4 DEF Fits
  <1>11. ASSUME NEW x \in Recs \ {r} PROVE Fits(x)'
    <2>1. Fits(x) /\ UNCHANGED <<tracks, obs, crops, dirs, want, profile, clock>>
      BY <1>3 DEF Inv, files
    <2>2. Given(x)' /\ Marked(x)' /\ Cropped(x)' /\ Previewed(x)' /\ Validated(x)'
      BY <1>5, <1>7, <1>8, <2>1 DEF Fits, Given, Marked, Cropped, Previewed, Validated
    <2>3. Lent(x)'
      BY <1>5 DEF Lent
    <2> QED BY <2>2, <2>3 DEF Fits
  <1> QED BY <1>9, <1>10, <1>11 DEF Inv

\* The crops are saved.
LEMMA SaveCropsKeeps ==
  ASSUME Inv, spent \subseteq spent', NEW r \in Recs, SaveCrops(r)
  PROVE  Inv'
  <1> DEFINE now == clock[r] + 1
  <1>1. Types /\ Fits(r) /\ run[r].pc = "vehicles" /\ clock[r] \in Nat /\ "objects" \in Places
    BY DEF Inv, Types, SaveCrops, Places, InDetection
  <1>2. /\ crops' = [crops EXCEPT ![r] = now] /\ clock' = [clock EXCEPT ![r] = now]
        /\ run' = [run EXCEPT ![r].pc = "objects", ![r].new = now]
        /\ UNCHANGED <<rec, rows, dirs, want, profile>>
    BY DEF SaveCrops
  <1>3. now \in Nat /\ now = clock[r] + 1
    BY <1>1
  <1> HIDE DEF now
  <1>4. /\ crops' \in [Recs -> Nat] /\ clock' \in [Recs -> Nat] /\ crops'[r] = now /\ clock'[r] = now
        /\ \A x \in Recs \ {r} : crops'[x] = crops[x] /\ clock'[x] = clock[x]
    BY <1>1, <1>2, <1>3 DEF Types
  <1>5. /\ run' \in [Recs -> Run] /\ \A x \in Recs \ {r} : run'[x] = run[x]
        /\ run'[r].pc = "objects" /\ run'[r].left = run[r].left /\ run'[r].cur = run[r].cur
        /\ run'[r].new = now /\ run'[r].prof = run[r].prof
        /\ run'[r].key = run[r].key
    <2>1. run \in [Recs -> Run] /\ run' = [run EXCEPT ![r].pc = "objects", ![r].new = now]
      BY <1>1, <1>2 DEF Types
    <2> QED BY <1>1, <1>3, <2>1 DEF Run
  <1>6. Types'
    BY <1>1, <1>2, <1>4, <1>5 DEF Types, rows
  <1>7. Given(r)'
    <2>1. /\ telem[r].stamp \in Nat /\ tracks[r].stamp \in Nat /\ obs[r].stamp \in Nat
          /\ obs[r].dir \in Nat /\ crops[r] \in Nat
      BY <1>1 DEF Types, Points, Objects, Observations
    <2> QED BY <1>1, <1>2, <1>3, <1>4, <1>5, <2>1 DEF Fits, Given, rows
  <1>8. Marked(r)'
    BY <1>1, <1>2, <1>5, MarkedWithin DEF Fits, InDetection
  <1>9. rec[r].st["detection"] = "running"
    BY <1>1 DEF Fits, Marked, InDetection, Kept
  <1>10. Cropped(r)' /\ Previewed(r)' /\ Validated(r)' /\ Lent(r)'
    BY <1>1, <1>2, <1>4, <1>5, <1>9 DEF Fits, Cropped, Previewed, Validated, InPlates, Lent, rows
  <1> QED BY <1>1, <1>2, <1>4, <1>5, <1>6, <1>7, <1>8, <1>10, One DEF Fits, Same, rows

\* The tracks are replaced, by some or by none.
LEMMA WriteTracksKeeps ==
  ASSUME Inv, spent \subseteq spent', NEW r \in Recs, WriteTracks(r)
  PROVE  Inv'
  <1>1. Types /\ Fits(r) /\ run[r].pc = "objects" /\ "counted" \in Places
    BY DEF Inv, Types, WriteTracks, Places, InDetection
  <1>2. PICK any \in BOOLEAN :
          tracks' = [tracks EXCEPT ![r] = [stamp |-> run[r].new, on |-> telem[r].stamp,
                                           any |-> any]]
    BY DEF WriteTracks
  <1>3. run' = At(r, "counted") /\ UNCHANGED <<rec, telem, obs, files, want, profile, clock>>
    BY DEF WriteTracks
  <1>4. /\ tracks' \in [Recs -> Objects] /\ tracks'[r].stamp = run[r].new
        /\ \A x \in Recs \ {r} : tracks'[x] = tracks[x]
    <2>1. run[r].new \in Nat /\ telem[r].stamp \in Nat
      BY <1>1 DEF Types, Run, Points
    <2> QED BY <1>1, <1>2, <2>1 DEF Types, Objects
  <1>5. /\ run' \in [Recs -> Run] /\ \A x \in Recs \ {r} : run'[x] = run[x]
        /\ run'[r].pc = "counted" /\ run'[r].left = run[r].left /\ run'[r].cur = run[r].cur
        /\ run'[r].new = run[r].new /\ run'[r].prof = run[r].prof
        /\ run'[r].key = run[r].key
    BY <1>1, <1>3, AtValue
  <1>6. Types'
    BY <1>1, <1>3, <1>4, <1>5 DEF Types, files
  <1>7. Given(r)'
    BY <1>1, <1>3, <1>4, <1>5 DEF Fits, Given, files
  <1>8. Marked(r)'
    BY <1>1, <1>3, <1>5, MarkedWithin DEF Fits, InDetection
  <1>9. rec[r].st["detection"] = "running"
    BY <1>1 DEF Fits, Marked, InDetection, Kept
  <1>10. Cropped(r)' /\ Previewed(r)' /\ Validated(r)' /\ Lent(r)'
    BY <1>1, <1>3, <1>4, <1>5, <1>9 DEF Fits, Cropped, Previewed, Validated, InPlates, Lent, files
  <1> QED BY <1>1, <1>3, <1>4, <1>5, <1>6, <1>7, <1>8, <1>10, One DEF Fits, Same, files

\* The detection is done, on the crops of its tracks.
LEMMA EndDetectionKeeps ==
  ASSUME Inv, spent \subseteq spent', NEW r \in Recs, EndDetection(r)
  PROVE  Inv'
  <1>1. run[r].pc = "counted" /\ run[r].cur = "detection" /\ crops[r] = tracks[r].stamp
        /\ "detection" \in Kept
    BY DEF EndDetection, Inv, Fits, Marked, Cropped, InDetection, Kept
  <1> QED BY <1>1, StageEnds DEF EndDetection, Done

\* The key is taken, and then the settings the models are loaded with.
LEMMA PlateSettingsKeep ==
  ASSUME Inv, spent \subseteq spent', NEW r \in Recs, OpenPlates(r) \/ LoadPlateModels(r)
  PROVE  Inv'
  <1>1. CASE LoadPlateModels(r) /\ Skips(r, "plates")
    BY <1>1, SkipsKeeps DEF LoadPlateModels
  <1>2. CASE OpenPlates(r) \/ (LoadPlateModels(r) /\ ~Skips(r, "plates"))
    <2> DEFINE to == IF run[r].pc = "plates" THEN "models" ELSE "frames"
               key == IF run[r].pc = "plates" THEN profile ELSE run[r].key
               prof == IF run[r].pc = "plates" THEN {} ELSE {profile}
    <2>1. /\ Types /\ Fits(r) /\ profile \in Nat /\ run[r].key \in Nat /\ run \in [Recs -> Run]
          /\ run[r].pc \in {"plates", "models"}
          /\ UNCHANGED <<rec, rows, files, want, profile, clock>>
      BY <1>2 DEF Inv, Types, Run, OpenPlates, LoadPlateModels
    <2>2. run' = [run EXCEPT ![r].pc = to, ![r].key = key, ![r].prof = prof]
      <3>1. CASE run[r].pc = "plates"
        BY <1>2, <3>1 DEF OpenPlates, LoadPlateModels
      <3>2. CASE run[r].pc = "models"
        <4>1. run' = [run EXCEPT ![r].pc = "frames", ![r].prof = {profile}]
          BY <1>2, <3>2 DEF OpenPlates, LoadPlateModels
        <4> QED BY <2>1, <3>2, <4>1 DEF Run
      <3> QED BY <2>1, <3>1, <3>2
    <2>3. /\ to \in {"models", "frames"} /\ key \in Nat /\ prof \in SUBSET Nat
          /\ "back" \notin spent => key <= profile /\ \A p \in prof : key <= p /\ p <= profile
      BY <2>1 DEF Fits, Validated, InPlates
    <2> HIDE DEF to, key, prof
    <2>4. to \in Places
      BY <2>3 DEF Places, InPlates
    <2>5. /\ run' \in [Recs -> Run] /\ \A x \in Recs \ {r} : run'[x] = run[x]
          /\ run'[r].pc = to /\ run'[r].left = run[r].left /\ run'[r].cur = run[r].cur
          /\ run'[r].new = run[r].new /\ run'[r].key = key /\ run'[r].prof = prof
      <3> DEFINE v == [run[r] EXCEPT !.pc = to, !.key = key, !.prof = prof]
      <3>1. run' = [run EXCEPT ![r] = v]
        BY <2>1, <2>2
      <3>2. run[r] \in Run
        BY <2>1
      <3>3. v \in Run
        BY <2>3, <2>4, <3>2 DEF Run
      <3>4. v.pc = to /\ v.key = key /\ v.prof = prof /\ v.cur = run[r].cur
            /\ v.left = run[r].left /\ v.new = run[r].new
        BY <3>2 DEF Run
      <3> HIDE DEF v
      <3> QED BY <2>1, <3>1, <3>3, <3>4
    <2>6. Types' /\ Given(r)'
      BY <2>1, <2>5 DEF Types, Fits, Given, rows, files
    <2>7. Marked(r)'
      BY <2>1, <2>3, <2>5, MarkedWithin DEF Fits, InPlates
    <2>8. Cropped(r)' /\ Previewed(r)' /\ Lent(r)'
      BY <2>1, <2>3, <2>5 DEF Fits, Cropped, Previewed, Lent, rows, files
    <2>9. Validated(r)'
      BY <2>1, <2>3, <2>5 DEF Fits, Validated, InPlates, rows
    <2> QED BY <2>1, <2>5, <2>6, <2>7, <2>8, <2>9, One DEF Fits, Same, rows, files
  <1> QED BY <1>1, <1>2

\* The plates are read into new previews.
LEMMA ReadPlatesKeeps ==
  ASSUME Inv, spent \subseteq spent', NEW r \in Recs, ReadPlates(r)
  PROVE  Inv'
  <1>1. CASE StageFails(r, "decode")
    BY <1>1, FailKeeps DEF ReadPlates
  <1>2. CASE ~StageFails(r, "decode")
    <2> DEFINE now == clock[r] + 1
               new == IF tracks[r].any THEN now ELSE 0
               prof == run[r].prof \cup {profile}
    <2>1. Types /\ Fits(r) /\ run[r].pc = "frames" /\ clock[r] \in Nat /\ profile \in Nat
          /\ "preview" \in Places /\ run[r].prof \subseteq Nat
      BY DEF Inv, Types, Run, ReadPlates, Places, InPlates
    <2>2. /\ run' = [run EXCEPT ![r].pc = "preview", ![r].new = new, ![r].prof = prof]
          /\ dirs' = IF tracks[r].any THEN [dirs EXCEPT ![r] = @ \cup {now}] ELSE dirs
          /\ clock' = [clock EXCEPT ![r] = now]
          /\ UNCHANGED <<rec, rows, crops, want, profile>>
      BY <1>2 DEF ReadPlates
    <2>3. /\ now \in Nat /\ now = clock[r] + 1 /\ new \in Nat /\ new \in {0, now}
          /\ (new # 0 => tracks[r].any) /\ prof \in SUBSET Nat
      BY <2>1
    <2>12. "back" \notin spent => run[r].key <= profile /\ \A p \in prof : run[r].key <= p /\ p <= profile
      BY <2>1 DEF Fits, Validated, InPlates
    <2> HIDE DEF now, new, prof
    <2>4. /\ run' \in [Recs -> Run] /\ \A x \in Recs \ {r} : run'[x] = run[x]
          /\ run'[r].pc = "preview" /\ run'[r].left = run[r].left /\ run'[r].cur = run[r].cur
          /\ run'[r].new = new /\ run'[r].prof = prof /\ run'[r].key = run[r].key
      <3>1. /\ run \in [Recs -> Run] /\ "preview" \in Places /\ prof \in SUBSET Nat /\ new \in Nat
            /\ run' = [run EXCEPT ![r].pc = "preview", ![r].new = new, ![r].prof = prof]
        BY <2>1, <2>2, <2>3 DEF Types
      <3> DEFINE v == [run[r] EXCEPT !.pc = "preview", !.new = new, !.prof = prof]
      <3>2. run' = [run EXCEPT ![r] = v] /\ run[r] \in Run
        BY <3>1
      <3>3. v \in Run
        BY <3>1, <3>2 DEF Run
      <3>4. v.pc = "preview" /\ v.new = new /\ v.prof = prof /\ v.cur = run[r].cur
            /\ v.left = run[r].left /\ v.key = run[r].key
        BY <3>2 DEF Run
      <3> HIDE DEF v
      <3> QED BY <3>1, <3>2, <3>3, <3>4
    <2>5. /\ dirs' \in [Recs -> SUBSET Nat] /\ \A x \in Recs \ {r} : dirs'[x] = dirs[x]
          /\ dirs[r] \subseteq dirs'[r] /\ dirs'[r] \subseteq dirs[r] \cup {now}
          /\ new # 0 => new \in dirs'[r]
      <3>1. CASE tracks[r].any
        BY <2>1, <2>2, <2>3, <3>1 DEF Types
      <3>2. CASE ~tracks[r].any
        BY <2>1, <2>2, <2>3, <3>2 DEF Types
      <3> QED BY <3>1, <3>2
    <2>6. /\ clock' \in [Recs -> Nat] /\ clock'[r] = now
          /\ \A x \in Recs \ {r} : clock'[x] = clock[x]
      BY <2>1, <2>2, <2>3 DEF Types
    <2>7. Types'
      BY <2>1, <2>2, <2>4, <2>5, <2>6 DEF Types, rows
    <2>8. Given(r)'
      <3>1. /\ telem[r].stamp \in Nat /\ tracks[r].stamp \in Nat /\ obs[r].stamp \in Nat
            /\ obs[r].dir \in Nat /\ crops[r] \in Nat
        BY <2>1 DEF Types, Points, Objects, Observations
      <3>2. dirs'[r] \subseteq 1 .. now
        BY <2>1, <2>3, <2>5 DEF Fits, Given
      <3> QED BY <2>1, <2>2, <2>3, <2>4, <2>6, <3>1, <3>2 DEF Fits, Given, rows
    <2>9. Marked(r)'
      BY <2>1, <2>2, <2>4, MarkedWithin DEF Fits, InPlates
    <2>10. obs[r].dir # now
      <3>1. obs[r].dir \in Nat /\ obs[r].dir <= clock[r]
        BY <2>1 DEF Types, Observations, Fits, Given
      <3> QED BY <2>1, <2>3, <3>1
    <2>11. Cropped(r)' /\ Previewed(r)' /\ Lent(r)'
      BY <2>1, <2>2, <2>3, <2>4, <2>5, <2>10 DEF Fits, Cropped, Previewed, Lent, rows
    <2>13. Validated(r)'
      BY <2>1, <2>2, <2>4, <2>12 DEF Fits, Validated, InPlates, rows
    <2> QED BY <2>1, <2>2, <2>4, <2>5, <2>6, <2>7, <2>8, <2>9, <2>11, <2>13, One DEF Fits, Same, rows
  <1> QED BY <1>1, <1>2

\* What the insertion of observations changes: they name the new previews, the
\* profile of the reading, and a stamp of their own.
LEMMA InsertValue ==
  ASSUME Types, NEW r \in Recs,
         obs' = [obs EXCEPT ![r] = [stamp |-> clock[r] + 1, on |-> tracks[r].stamp,
                                    at |-> telem[r].stamp, dir |-> run[r].new,
                                    prof |-> run[r].prof]],
         clock' = [clock EXCEPT ![r] = @ + 1]
  PROVE  /\ obs' \in [Recs -> Observations] /\ \A x \in Recs \ {r} : obs'[x] = obs[x]
         /\ obs'[r].stamp = clock[r] + 1 /\ obs'[r].dir = run[r].new
         /\ obs'[r].prof = run[r].prof
         /\ clock' \in [Recs -> Nat] /\ clock'[r] = clock[r] + 1 /\ clock[r] \in Nat
         /\ \A x \in Recs \ {r} : clock'[x] = clock[x]
  <1>1. clock[r] \in Nat /\ tracks[r].stamp \in Nat /\ telem[r].stamp \in Nat
        /\ run[r].new \in Nat /\ run[r].prof \in SUBSET Nat
    BY DEF Types, Objects, Points, Run
  <1> QED BY <1>1 DEF Types, Observations

\* The observations are replaced.
LEMMA WriteObservationsKeeps ==
  ASSUME Inv, spent \subseteq spent', NEW r \in Recs, _write_observations(r)
  PROVE  Inv'
  <1> DEFINE old == {obs[r].dir} \ {0}
  <1>1. Types /\ Fits(r) /\ run[r].pc = "preview" /\ "retire" \in Places
    BY DEF Inv, _write_observations, Places, InPlates
  <1>2. /\ run' = [run EXCEPT ![r].pc = "retire", ![r].old = old]
        /\ UNCHANGED <<rec, telem, tracks, files, want, profile>>
    BY DEF _write_observations, _insert_observations
  <1>3. /\ obs' \in [Recs -> Observations] /\ \A x \in Recs \ {r} : obs'[x] = obs[x]
        /\ obs'[r].stamp = clock[r] + 1 /\ obs'[r].dir = run[r].new
        /\ obs'[r].prof = run[r].prof
        /\ clock' \in [Recs -> Nat] /\ clock'[r] = clock[r] + 1 /\ clock[r] \in Nat
        /\ \A x \in Recs \ {r} : clock'[x] = clock[x]
    BY <1>1, InsertValue DEF _write_observations, _insert_observations
  <1>4. old \in SUBSET Nat /\ run[r].new \notin old
    BY <1>1 DEF Types, Observations, Fits, Previewed
  <1> HIDE DEF old
  <1>5. /\ run' \in [Recs -> Run] /\ \A x \in Recs \ {r} : run'[x] = run[x]
        /\ run'[r].pc = "retire" /\ run'[r].left = run[r].left /\ run'[r].cur = run[r].cur
        /\ run'[r].new = run[r].new /\ run'[r].prof = run[r].prof /\ run'[r].key = run[r].key /\ run'[r].old = old
    BY <1>1, <1>2, <1>4 DEF Types, Run
  <1>6. Types'
    BY <1>1, <1>2, <1>3, <1>5 DEF Types, files
  <1>7. Given(r)'
    <2>1. /\ telem[r].stamp \in Nat /\ tracks[r].stamp \in Nat /\ crops[r] \in Nat
          /\ run[r].new \in Nat
      BY <1>1 DEF Types, Points, Objects, Run
    <2> QED BY <1>1, <1>2, <1>3, <1>5, <2>1 DEF Fits, Given, files
  <1>8. Marked(r)'
    BY <1>1, <1>2, <1>5, MarkedWithin DEF Fits, InPlates
  <1>9. rec[r].st["plates"] = "running"
    BY <1>1 DEF Fits, Marked, InPlates, Kept
  <1>10. Cropped(r)' /\ Previewed(r)' /\ Validated(r)' /\ Lent(r)'
    BY <1>1, <1>2, <1>3, <1>4, <1>5, <1>9
       DEF Fits, Cropped, Previewed, Validated, InPlates, Lent, files
  <1> QED BY <1>1, <1>2, <1>3, <1>5, <1>6, <1>7, <1>8, <1>10, One DEF Fits, Same, files

\* The new previews of a refused replacement are removed.
LEMMA WritePlatesFailsKeeps ==
  ASSUME Inv, spent \subseteq spent', NEW r \in Recs, WritePlatesFails(r)
  PROVE  Inv'
  <1>1. Types /\ Fits(r) /\ run[r].pc = "preview" /\ FALSE \in BOOLEAN
    BY DEF Inv, WritePlatesFails
  <1>2. /\ _revive(r, FALSE) /\ dirs' = [dirs EXCEPT ![r] = @ \ {run[r].new}]
        /\ UNCHANGED <<rows, crops, profile, clock>>
    BY DEF WritePlatesFails
  <1>3. /\ rec' \in [Recs -> Recording] /\ \A x \in Recs \ {r} : rec'[x] = rec[x]
        /\ \A t \in Kept : rec'[r].st[t] = IF t = run[r].cur THEN "failed" ELSE rec[r].st[t]
        /\ rec'[r].rev = rec[r].rev /\ rec'[r].key = rec[r].key
        /\ rec'[r].asked = rec[r].asked
        /\ run' \in [Recs -> Run] /\ run'[r] = NoRun /\ \A x \in Recs \ {r} : run'[x] = run[x]
        /\ want' \in [Recs -> Presets \cup {"none"}] /\ \A x \in Recs \ {r} : want'[x] = want[x]
    BY <1>1, <1>2, ReviveValue
  <1>4. /\ dirs' \in [Recs -> SUBSET Nat] /\ \A x \in Recs \ {r} : dirs'[x] = dirs[x]
        /\ dirs'[r] = dirs[r] \ {run[r].new}
    BY <1>1, <1>2 DEF Types
  <1>5. Types'
    BY <1>1, <1>2, <1>3, <1>4 DEF Types, rows
  <1>6. Given(r)'
    <2>1. clock[r] \in Nat /\ profile \in Nat
      BY <1>1 DEF Types
    <2> QED BY <1>1, <1>2, <1>3, <1>4, <2>1, NoRunIsRun DEF Fits, Given, rows
  <1>7. Marked(r)'
    BY <1>3, NoRunIsRun, MarkedOff
  <1>8. Cropped(r)' /\ Previewed(r)' /\ Validated(r)' /\ Lent(r)'
    BY <1>1, <1>2, <1>3, <1>4, NoRunIsRun
       DEF Fits, Cropped, Previewed, Validated, InPlates, Lent, rows, Kept
  <1> QED BY <1>1, <1>2, <1>3, <1>4, <1>5, <1>6, <1>7, <1>8, One DEF Fits, Same, rows

\* The retired previews are removed, and the plates shown as validated.
LEMMA RetireKeeps ==
  ASSUME Inv, spent \subseteq spent', NEW r \in Recs, Retire(r)
  PROVE  Inv'
  <1> DEFINE key == stamp_validation(r)
  <1>1. Types /\ Fits(r) /\ run[r].pc = "retire" /\ "next" \in Places
    BY DEF Inv, Retire, Places
  <1>2. /\ dirs' = [dirs EXCEPT ![r] = @ \ run[r].old]
        /\ rec' = [rec EXCEPT ![r].st["plates"] = "done", ![r].rev["plates"] = TRUE,
                              ![r].key = key]
        /\ run' = At(r, "next") /\ UNCHANGED <<rows, crops, want, profile, clock>>
    BY DEF Retire
  <1>3. key = run[r].key /\ key \in Nat
    BY <1>1 DEF stamp_validation, Types, Run
  <1> HIDE DEF key
  <1>4. /\ run' \in [Recs -> Run] /\ \A x \in Recs \ {r} : run'[x] = run[x]
        /\ run'[r].pc = "next" /\ run'[r].left = run[r].left /\ run'[r].cur = run[r].cur
        /\ run'[r].new = run[r].new /\ run'[r].prof = run[r].prof
        /\ run'[r].key = run[r].key
    BY <1>1, <1>2, AtValue
  <1>5. /\ rec' \in [Recs -> Recording] /\ \A x \in Recs \ {r} : rec'[x] = rec[x]
        /\ \A t \in Kept : rec'[r].st[t] = IF t = "plates" THEN "done" ELSE rec[r].st[t]
        /\ rec'[r].key = key /\ rec'[r].asked = rec[r].asked
    <2> DEFINE st == [rec[r].st EXCEPT !["plates"] = "done"]
               rev == [rec[r].rev EXCEPT !["plates"] = TRUE]
               shown == [rec[r] EXCEPT !.st = st, !.rev = rev, !.key = key]
    <2>1. /\ rec \in [Recs -> Recording] /\ rec[r] \in Recording
          /\ "done" \in States /\ "plates" \in Kept
      BY <1>1 DEF Types, States, Kept
    <2>2. rec' = [rec EXCEPT ![r].st["plates"] = "done", ![r].rev["plates"] = TRUE,
                             ![r].key = key]
      BY <1>2
    <2>3. rec' = [rec EXCEPT ![r] = shown]
      BY <2>1, <2>2 DEF Recording
    <2>4. rec[r].st \in [Kept -> States] /\ rec[r].rev \in [Kept -> BOOLEAN]
      BY <2>1 DEF Recording
    <2>5. /\ st \in [Kept -> States] /\ rev \in [Kept -> BOOLEAN]
          /\ \A t \in Kept : st[t] = IF t = "plates" THEN "done" ELSE rec[r].st[t]
      BY <2>1, <2>4
    <2> HIDE DEF st, rev
    <2>6. /\ shown \in Recording /\ shown.st = st /\ shown.key = key
          /\ shown.asked = rec[r].asked
      BY <1>3, <2>1, <2>5 DEF Recording
    <2> HIDE DEF shown
    <2> QED BY <2>1, <2>3, <2>5, <2>6
  <1>6. /\ dirs' \in [Recs -> SUBSET Nat] /\ \A x \in Recs \ {r} : dirs'[x] = dirs[x]
        /\ dirs'[r] = dirs[r] \ run[r].old
    BY <1>1, <1>2 DEF Types
  <1>7. Types'
    BY <1>1, <1>2, <1>4, <1>5, <1>6 DEF Types, rows
  <1>8. Given(r)'
    BY <1>1, <1>2, <1>3, <1>4, <1>5, <1>6 DEF Fits, Given, rows
  <1>9. run[r].cur = "plates"
    BY <1>1 DEF Fits, Marked, InPlates
  <1>10. Marked(r)'
    BY <1>1, <1>2, <1>4, <1>5, <1>9, MarkedDone DEF Fits
  <1>11. Cropped(r)' /\ Previewed(r)' /\ Validated(r)' /\ Lent(r)'
    BY <1>1, <1>2, <1>3, <1>4, <1>5, <1>6
       DEF Fits, Cropped, Previewed, Validated, InPlates, Lent, rows, Kept
  <1> QED BY <1>1, <1>2, <1>4, <1>5, <1>6, <1>7, <1>8, <1>10, <1>11, One DEF Fits, Same, rows

\* A run's end changes the run and the job.
LEMMA OverValue ==
  ASSUME Types, NEW r \in Recs, Over(r)
  PROVE  /\ run' \in [Recs -> Run] /\ run'[r] = NoRun /\ \A x \in Recs \ {r} : run'[x] = run[x]
         /\ want' \in [Recs -> Presets \cup {"none"}] /\ \A x \in Recs \ {r} : want'[x] = want[x]
  BY NoRunIsRun DEF Types, Over

\* The recording is completed.
LEMMA SummariseKeeps ==
  ASSUME Inv, spent \subseteq spent', NEW r \in Recs, stage_summarise(r)
  PROVE  Inv'
  <1>1. CASE StageFails(r, "lock")
    BY <1>1, FailKeeps
  <1>2. CASE ~StageFails(r, "lock")
    <2>1. Types /\ Fits(r)
      BY DEF Inv
    <2>2. /\ rec' = [rec EXCEPT ![r].state = "completed", ![r].ever = TRUE] /\ Over(r)
          /\ UNCHANGED <<rows, files, profile, clock>>
      BY <1>2 DEF stage_summarise
    <2>3. /\ rec' \in [Recs -> Recording] /\ \A x \in Recs \ {r} : rec'[x] = rec[x]
          /\ rec'[r].st = rec[r].st /\ rec'[r].rev = rec[r].rev
          /\ rec'[r].key = rec[r].key /\ rec'[r].asked = rec[r].asked
      <3>1. /\ rec \in [Recs -> Recording]
            /\ rec' = [rec EXCEPT ![r].state = "completed", ![r].ever = TRUE]
        BY <2>1, <2>2 DEF Types
      <3> QED BY <3>1 DEF Recording
    <2>4. /\ run' \in [Recs -> Run] /\ run'[r] = NoRun /\ \A x \in Recs \ {r} : run'[x] = run[x]
          /\ want' \in [Recs -> Presets \cup {"none"}]
          /\ \A x \in Recs \ {r} : want'[x] = want[x]
      BY <2>1, <2>2, OverValue
    <2>5. Types'
      BY <2>1, <2>2, <2>3, <2>4 DEF Types, rows, files
    <2>6. Given(r)'
      <3>1. clock[r] \in Nat /\ profile \in Nat
        BY <2>1 DEF Types
      <3> QED BY <2>1, <2>2, <2>3, <2>4, <3>1, NoRunIsRun DEF Fits, Given, rows, files
    <2>7. Marked(r)'
      BY <2>4, NoRunIsRun, MarkedOff
    <2>8. Cropped(r)' /\ Previewed(r)' /\ Validated(r)' /\ Lent(r)'
      BY <2>1, <2>2, <2>3, <2>4, NoRunIsRun
         DEF Fits, Cropped, Previewed, Validated, InPlates, Lent, rows, files
    <2> QED BY <2>1, <2>2, <2>3, <2>4, <2>5, <2>6, <2>7, <2>8, One DEF Fits, Same, rows, files
  <1> QED BY <1>1, <1>2

-----------------------------------------------------------------------------
(* Cancellation, crash and requests.                                       *)

\* A cancelled run leaves the pictures of the rows there are, whether or not
\* the replacement had committed.
LEMMA CancelKeeps ==
  ASSUME Inv, spent \subseteq spent', NEW r \in Recs, Cancel(r)
  PROVE  Inv'
  <1>1. /\ Types /\ Fits(r) /\ Over(r) /\ UNCHANGED <<telem, tracks, crops, profile>>
        /\ rec' = [rec EXCEPT ![r].state = "failed"]
    BY DEF Inv, Cancel
  <1>2. /\ run' \in [Recs -> Run] /\ run'[r] = NoRun /\ \A x \in Recs \ {r} : run'[x] = run[x]
        /\ want' \in [Recs -> Presets \cup {"none"}] /\ \A x \in Recs \ {r} : want'[x] = want[x]
    BY <1>1, OverValue
  <1>3. Marked(r)'
    BY <1>2, NoRunIsRun, MarkedOff
  <1>4. clock[r] \in Nat /\ profile \in Nat
    BY <1>1 DEF Types
  <1>5. /\ rec' \in [Recs -> Recording] /\ \A x \in Recs \ {r} : rec'[x] = rec[x]
        /\ rec'[r].st = rec[r].st /\ rec'[r].rev = rec[r].rev
        /\ rec'[r].key = rec[r].key /\ rec'[r].asked = rec[r].asked
    <2>1. rec \in [Recs -> Recording]
      BY <1>1 DEF Types
    <2> QED BY <1>1, <2>1 DEF Recording
  <1>6. ASSUME NEW gone, UNCHANGED <<obs, clock>>, dirs' = [dirs EXCEPT ![r] = @ \ gone],
               obs[r].dir # 0 => obs[r].dir \notin gone
        PROVE  Inv'
    <2>1. /\ dirs' \in [Recs -> SUBSET Nat] /\ \A x \in Recs \ {r} : dirs'[x] = dirs[x]
          /\ dirs'[r] = dirs[r] \ gone
      BY <1>1, <1>6 DEF Types
    <2>2. Types'
      BY <1>1, <1>2, <1>5, <1>6, <2>1 DEF Types
    <2>3. Given(r)' /\ Cropped(r)' /\ Previewed(r)' /\ Validated(r)' /\ Lent(r)'
      BY <1>1, <1>2, <1>4, <1>5, <1>6, <2>1, NoRunIsRun
         DEF Fits, Given, Cropped, Previewed, Validated, InPlates, Lent
    <2> QED BY <1>1, <1>2, <1>3, <1>5, <1>6, <2>1, <2>2, <2>3, One DEF Fits, Same
  <1>7. ASSUME run[r].pc = "preview", UNCHANGED dirs,
               obs' = [obs EXCEPT ![r] = [stamp |-> clock[r] + 1, on |-> tracks[r].stamp,
                                          at |-> telem[r].stamp, dir |-> run[r].new,
                                          prof |-> run[r].prof]],
               clock' = [clock EXCEPT ![r] = @ + 1]
        PROVE  Inv'
    <2>1. /\ obs' \in [Recs -> Observations] /\ \A x \in Recs \ {r} : obs'[x] = obs[x]
          /\ obs'[r].stamp = clock[r] + 1 /\ obs'[r].dir = run[r].new
          /\ clock' \in [Recs -> Nat] /\ clock'[r] = clock[r] + 1
          /\ \A x \in Recs \ {r} : clock'[x] = clock[x]
      BY <1>1, <1>7, InsertValue
    <2>2. Types'
      BY <1>1, <1>2, <1>5, <1>7, <2>1 DEF Types
    <2>3. Given(r)'
      <3>1. /\ telem[r].stamp \in Nat /\ tracks[r].stamp \in Nat /\ crops[r] \in Nat
            /\ run[r].new \in Nat
        BY <1>1 DEF Types, Points, Objects, Run
      <3> QED BY <1>1, <1>2, <1>4, <1>5, <1>7, <2>1, <3>1, NoRunIsRun DEF Fits, Given
    <2>4. rec[r].st["plates"] = "running"
      BY <1>1, <1>7 DEF Fits, Marked, InPlates, Kept
    <2>5. Cropped(r)' /\ Previewed(r)' /\ Validated(r)' /\ Lent(r)'
      BY <1>1, <1>2, <1>5, <1>7, <2>1, <2>4, NoRunIsRun
         DEF Fits, Cropped, Previewed, Validated, InPlates, Lent
    <2> QED BY <1>1, <1>2, <1>3, <1>5, <1>7, <2>1, <2>2, <2>3, <2>5, One DEF Fits, Same
  <1>8. CASE /\ UNCHANGED <<obs, clock>>
             /\ dirs' = [dirs EXCEPT ![r] = IF run[r].pc = "preview" THEN @ \ {run[r].new}
                                            ELSE IF run[r].pc = "retire" THEN @ \ run[r].old
                                            ELSE @]
    <2>1. CASE run[r].pc = "preview"
      <3>1. obs[r].dir # 0 => obs[r].dir \notin {run[r].new}
        BY <1>1, <2>1 DEF Fits, Previewed
      <3>2. dirs' = [dirs EXCEPT ![r] = @ \ {run[r].new}]
        BY <1>8, <2>1
      <3> QED BY <1>6, <1>8, <3>1, <3>2
    <2>2. CASE run[r].pc = "retire"
      <3>1. obs[r].dir # 0 => obs[r].dir \notin run[r].old
        BY <1>1, <2>2 DEF Fits, Previewed
      <3>2. dirs' = [dirs EXCEPT ![r] = @ \ run[r].old]
        BY <1>8, <2>2
      <3> QED BY <1>6, <1>8, <3>1, <3>2
    <2>3. CASE run[r].pc \notin {"preview", "retire"}
      <3>1. dirs' = [dirs EXCEPT ![r] = @ \ {}]
        BY <1>8, <2>3
      <3> QED BY <1>6, <1>8, <3>1
    <2> QED BY <2>1, <2>2, <2>3
  <1> QED BY <1>7, <1>8 DEF Cancel

\* The process dies with all its runs.
LEMMA CrashKeeps ==
  ASSUME Inv, spent \subseteq spent', Crash
  PROVE  Inv'
  <1>1. Types /\ run' = [r \in Recs |-> NoRun] /\ UNCHANGED <<rec, rows, files, want, profile, clock>>
    BY DEF Inv, Crash
  <1>2. Types'
    BY <1>1, NoRunIsRun DEF Types, rows, files
  <1>3. ASSUME NEW r \in Recs PROVE Fits(r)'
    <2>1. Fits(r) /\ run'[r] = NoRun /\ clock[r] \in Nat /\ profile \in Nat
      BY <1>1 DEF Inv, Types
    <2>2. Marked(r)'
      BY <2>1, NoRunIsRun, MarkedOff
    <2>3. Given(r)' /\ Cropped(r)' /\ Previewed(r)' /\ Validated(r)' /\ Lent(r)'
      BY <1>1, <2>1, NoRunIsRun
         DEF Fits, Given, Cropped, Previewed, Validated, InPlates, Lent, rows, files
    <2> QED BY <2>2, <2>3 DEF Fits
  <1> QED BY <1>2, <1>3 DEF Inv

\* A request hides what it asks for again; it is taken only when no run is there.
LEMMA RequestKeeps ==
  ASSUME Inv, spent \subseteq spent', NEW r \in Recs, NEW request \in Presets,
         Reanalyse(r, request) \/ queue_plate_repairs(r, request)
  PROVE  Inv'
  <1> DEFINE chosen == expand_stages(request) \cap Kept
             st == [s \in Kept |-> IF s \in chosen THEN "pending" ELSE rec[r].st[s]]
             rev == [s \in Kept |-> rec[r].rev[s] /\ s \notin chosen]
             hidden == [rec[r] EXCEPT !.st = st, !.rev = rev]
  <1>1. /\ Types /\ Fits(r) /\ want[r] = "none"
        /\ want' = [want EXCEPT ![r] = request]
        /\ UNCHANGED <<rows, files, run, profile, clock>>
    BY DEF Inv, Reanalyse, queue_plate_repairs
  <1>2. rec[r] \in Recording /\ rec \in [Recs -> Recording] /\ profile \in Nat
    BY <1>1 DEF Types
  <1>3. /\ st \in [Kept -> States] /\ rev \in [Kept -> BOOLEAN]
        /\ \A s \in Kept : st[s] = "done" => rec[r].st[s] = "done"
        /\ \A s \in Kept : rev[s] => rec[r].rev[s]
    BY <1>2 DEF Recording, States
  <1>4. invalidate_recordings(rec[r], request) = hidden
    BY DEF invalidate_recordings
  <1>5. rec' = [rec EXCEPT ![r] = hidden] \/ rec' = [rec EXCEPT ![r] = [hidden EXCEPT !.asked = profile]]
    BY <1>2, <1>4 DEF Reanalyse, queue_plate_repairs, Remembered
  <1> HIDE DEF st, rev
  <1>6. /\ hidden \in Recording /\ [hidden EXCEPT !.asked = profile] \in Recording
        /\ hidden.st = st /\ hidden.rev = rev /\ hidden.key = rec[r].key
        /\ hidden.asked = rec[r].asked
    BY <1>2, <1>3 DEF Recording
  <1> HIDE DEF hidden
  <1>7. /\ rec' \in [Recs -> Recording] /\ \A x \in Recs \ {r} : rec'[x] = rec[x]
        /\ rec'[r].st = st /\ rec'[r].rev = rev /\ rec'[r].key = rec[r].key
        /\ rec'[r].asked \in {rec[r].asked, profile}
    <2>1. CASE rec' = [rec EXCEPT ![r] = hidden]
      BY <1>2, <1>6, <2>1
    <2>2. CASE rec' = [rec EXCEPT ![r] = [hidden EXCEPT !.asked = profile]]
      <3>1. /\ [hidden EXCEPT !.asked = profile].st = st
            /\ [hidden EXCEPT !.asked = profile].rev = rev
            /\ [hidden EXCEPT !.asked = profile].key = rec[r].key
            /\ [hidden EXCEPT !.asked = profile].asked = profile
        BY <1>6 DEF Recording
      <3> QED BY <1>2, <1>6, <2>2, <3>1
    <2> QED BY <1>5, <2>1, <2>2
  <1>8. want' \in [Recs -> Presets \cup {"none"}] /\ \A x \in Recs \ {r} : want'[x] = want[x]
    BY <1>1 DEF Types
  <1>9. Types'
    BY <1>1, <1>7, <1>8 DEF Types, rows, files
  <1>10. run[r].pc = "off"
    BY <1>1 DEF Fits, Marked
  <1>11. Marked(r)'
    BY <1>1, <1>10, MarkedOff
  <1>12. Given(r)'
    BY <1>1, <1>2, <1>7 DEF Fits, Given, rows, files
  <1>13. Cropped(r)' /\ Previewed(r)' /\ Validated(r)' /\ Lent(r)'
    BY <1>1, <1>3, <1>7, <1>10 DEF Fits, Cropped, Previewed, Validated, InPlates, Lent, rows, files, Kept
  <1> QED BY <1>1, <1>7, <1>8, <1>9, <1>11, <1>12, <1>13, One DEF Fits, Same, rows, files

\* The plate settings change under everything.
LEMMA SettingsKeep ==
  ASSUME Inv, spent \subseteq spent', ChangePlateSettings
  PROVE  Inv'
  <1>1. /\ Types /\ profile' \in Nat /\ profile \in Nat
        /\ "back" \notin spent' => profile' >= profile
        /\ UNCHANGED <<rec, rows, files, want, run, clock>>
    BY DEF Inv, Types, ChangePlateSettings, Meets
  <1>2. Types'
    BY <1>1 DEF Types, rows, files
  <1>3. ASSUME NEW x \in Recs PROVE Fits(x)'
    BY <1>1, Untouched DEF Inv, Same, rows, files
  <1> QED BY <1>2, <1>3 DEF Inv

-----------------------------------------------------------------------------

\* New and analysed recordings fit.
LEMMA InitHolds == Init => Inv
  <1> SUFFICES ASSUME Init PROVE Inv
    OBVIOUS
  <1>1. Types
    <2>1. rec \in [Recs -> Recording]
      BY DEF Init, Recording, States
    <2>2. telem \in [Recs -> Points]
      BY DEF Init, Points
    <2>3. tracks \in [Recs -> Objects] /\ obs \in [Recs -> Observations]
      BY DEF Init, Objects, Observations
    <2>4. /\ crops \in [Recs -> Nat] /\ dirs \in [Recs -> SUBSET Nat]
          /\ want \in [Recs -> Presets \cup {"none"}] /\ run \in [Recs -> Run]
          /\ profile \in Nat /\ clock \in [Recs -> Nat]
      BY NoRunIsRun DEF Init, Presets
    <2> QED BY <2>1, <2>2, <2>3, <2>4 DEF Types
  <1>2. ASSUME NEW r \in Recs PROVE Fits(r)
    <2>1. run[r] = NoRun /\ profile = 1 /\ telem[r].fix # "copied"
      BY DEF Init
    <2>2. Given(r)
      <3>1. CASE r \in Analysed
        BY <2>1, <3>1, NoRunIsRun DEF Init, Given
      <3>2. CASE r \notin Analysed
        BY <2>1, <3>2, NoRunIsRun DEF Init, Given
      <3> QED BY <3>1, <3>2
    <2>3. Marked(r)
      BY <2>1, NoRunIsRun DEF Marked, InTelemetry, InDetection, InPlates
    <2>4. Cropped(r) /\ Previewed(r) /\ Validated(r) /\ Lent(r)
      <3>1. CASE r \in Analysed
        BY <2>1, <3>1, NoRunIsRun DEF Init, Cropped, Previewed, Validated, InPlates, Lent, Kept
      <3>2. CASE r \notin Analysed
        BY <2>1, <3>2, NoRunIsRun DEF Init, Cropped, Previewed, Validated, InPlates, Lent, Kept
      <3> QED BY <3>1, <3>2
    <2> QED BY <2>2, <2>3, <2>4 DEF Fits
  <1> QED BY <1>1, <1>2 DEF Inv

\* What has happened stays so.
LEMMA SpentGrows ==
  ASSUME [Next]_vars
  PROVE  spent \subseteq spent'
  <1>1. ASSUME NEW r \in Recs, NEW s, Skips(r, s) \/ StageFails(r, s) PROVE spent \subseteq spent'
    BY <1>1 DEF Skips, StageFails, Meets
  <1>2. ASSUME NEW r \in Recs, Step(r) PROVE spent \subseteq spent'
    <2>1. CASE Begin(r) \/ (\E s \in Stages : StartStage(r, s))
      BY <2>1 DEF Begin, StartStage
    <2>2. CASE stage_inspect(r) \/ ReadOverlay(r) \/ WritePoints(r) \/ EndTelemetry(r)
      BY <1>1, <2>2 DEF stage_inspect, ReadOverlay, WritePoints, EndTelemetry
    <2>3. CASE FindObjects(r) \/ SaveCrops(r) \/ WriteTracks(r) \/ StageFails(r, "lock") \/ EndDetection(r)
      BY <1>1, <2>3 DEF FindObjects, SaveCrops, WriteTracks, EndDetection, Meets
    <2>4. CASE OpenPlates(r) \/ LoadPlateModels(r) \/ ReadPlates(r)
      BY <1>1, <2>4 DEF OpenPlates, LoadPlateModels, ReadPlates
    <2>5. CASE _write_observations(r) \/ WritePlatesFails(r) \/ Retire(r) \/ stage_summarise(r)
      BY <1>1, <2>5 DEF _write_observations, _insert_observations, WritePlatesFails, Retire,
                        stage_summarise, Meets
    <2> QED BY <1>2, <2>1, <2>2, <2>3, <2>4, <2>5 DEF Step
  <1> QED BY <1>2 DEF Next, vars, Cancel, Crash, Reanalyse, queue_plate_repairs,
                      ChangePlateSettings, Meets

\* Every step keeps the invariant.
LEMMA StepHolds ==
  ASSUME Inv, [Next]_vars
  PROVE  Inv'
  <1> spent \subseteq spent'
    BY SpentGrows
  <1>1. CASE UNCHANGED vars
    BY <1>1 DEF Inv, Types, Fits, Given, Marked, Cropped, Previewed, Validated, InPlates, Lent,
                vars, rows, files
  <1>2. ASSUME NEW r \in Recs, Step(r) PROVE Inv'
    BY <1>2, BeginKeeps, StartStageKeeps, InspectKeeps, ReadsKeep, WritePointsKeeps,
       EndTelemetryKeeps, SaveCropsKeeps, WriteTracksKeeps, FailKeeps, EndDetectionKeeps,
       PlateSettingsKeep, ReadPlatesKeeps, WriteObservationsKeeps, WritePlatesFailsKeeps, RetireKeeps,
       SummariseKeeps DEF Step
  <1> QED BY <1>1, <1>2, CancelKeeps, CrashKeeps, RequestKeeps, SettingsKeep DEF Next

\* What the invariant says of the properties.
LEMMA InvSays ==
  ASSUME Inv
  PROVE  PicturesExist /\ NothingLeftBehind /\ NoEcho /\ ValidatedAsRead /\ TypeOK
  <1>1. PicturesExist /\ NoEcho
    BY DEF Inv, Fits, PicturesExist, NoEcho, Cropped, Previewed, Lent
  <1>4. ValidatedAsRead
    <2> SUFFICES ASSUME "back" \notin spent, NEW r \in Recs, rec[r].st["plates"] = "done",
                        rec[r].rev["plates"], rec[r].key = profile, NEW p \in obs[r].prof
                 PROVE  p = profile
      BY DEF ValidatedAsRead
    <2>1. p \in Nat /\ profile \in Nat
      BY DEF Inv, Types, Observations
    <2> QED BY <2>1 DEF Inv, Fits, Validated
  <1>2. NothingLeftBehind
    <2> SUFFICES ASSUME NEW r \in Recs, run[r].pc = "summarise", want[r] = "auto", NEW s \in Kept,
                        rec[r].st[s] \in {"failed", "running"}
                 PROVE  FALSE
      BY DEF NothingLeftBehind
    <2>1. Marked(r)
      BY DEF Inv, Fits
    <2> QED BY <2>1 DEF Marked, Kept
  <1>3. TypeOK
    <2>2. rec \in [Recs -> [state : {"discovered", "processing", "completed", "failed", "invalid"},
                            st : [Kept -> {"pending", "running", "done", "skipped", "failed"}],
                            rev : [Kept -> BOOLEAN], ever : BOOLEAN,
                            key : Nat, asked : Nat]]
      BY DEF Inv, Types, Recording, States
    <2>3. ASSUME NEW r \in Recs
          PROVE  /\ telem[r].stamp \in Stamps(r) /\ tracks[r].stamp \in Stamps(r)
                 /\ obs[r].stamp \in Stamps(r) /\ crops[r] \in Stamps(r)
                 /\ dirs[r] \subseteq Stamps(r) \ {0} /\ run[r].left \subseteq Stages
                 /\ want[r] \in Presets \cup {"none"}
      <3>1. /\ telem[r].stamp \in Nat /\ tracks[r].stamp \in Nat /\ obs[r].stamp \in Nat
            /\ crops[r] \in Nat /\ clock[r] \in Nat
            /\ run[r].left \subseteq Stages /\ want[r] \in Presets \cup {"none"}
        BY DEF Inv, Types, Points, Objects, Observations, Run
      <3>2. Given(r)
        BY DEF Inv, Fits
      <3> QED BY <3>1, <3>2 DEF Given, Stamps
    <2> QED BY <2>2, <2>3 DEF TypeOK
  <1> QED BY <1>1, <1>2, <1>3, <1>4

\* Every stored observation has its previews, and a done detection the crops of
\* exactly its tracks, in whatever step runs are refused, cancelled or killed.
THEOREM PicturesTheorem == Spec => []PicturesExist
  <1>1. Inv /\ [Next]_vars => Inv'
    BY StepHolds
  <1>2. Inv => PicturesExist
    BY InvSays
  <1> QED BY <1>1, <1>2, InitHolds, PTL DEF Spec

\* An ordinary job leaves no stage behind, no position is an echo, and plates shown
\* as validated for the settings in force were read under them and no others,
\* unless settings were changed back.
THEOREM ResultsTheorem == Spec => [](TypeOK /\ NothingLeftBehind /\ NoEcho /\ ValidatedAsRead)
  <1>1. Inv /\ [Next]_vars => Inv'
    BY StepHolds
  <1>2. Inv => TypeOK /\ NothingLeftBehind /\ NoEcho /\ ValidatedAsRead
    BY InvSays
  <1> QED BY <1>1, <1>2, InitHolds, PTL DEF Spec
=============================================================================
