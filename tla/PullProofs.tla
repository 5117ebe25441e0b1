----------------------------- MODULE PullProofs -----------------------------
(***************************************************************************)
(* Proofs about the backup of the camera's card: what is erased there is   *)
(* safe here, what a pull reports is so, and its bounds hold.              *)
(*                                                                         *)
(* The eraser compares the card with the listing, not with the library, so *)
(* the first of these needs the way of a file from the listing to the disk.*)
(* A name may be listed, copied and erased as three different recordings   *)
(* of one size.  What saves it is that a recording never comes back to a   *)
(* name (Distinct): as soon as the card differs from the listing it always *)
(* will, and so each step may say "as listed, or no longer on the card".   *)
(***************************************************************************)
EXTENDS CameraPull, TLAPS

Gates == {"gate", "list", "plan", "look", "admit"}
Copying == {"move", "stream", "submit", "close"}
Closing == {"settle", "join", "twins", "hash", "unlink", "finish"}
Places == Gates \cup Copying \cup Closing
            \cup {"off", "second", "sweep", "rescue", "total", "discard", "salvage"}

Run == [pc : Places, phase : {"main", "sweep", "rescue"}, inv : [Slots -> Stored],
        fresh : SUBSET Slots, listed : [Slots -> Stored], todo : SUBSET Slots,
        cur : Slots \cup {Nowhere}, expected : [Slots -> Stored], got : SUBSET Slots,
        gone : SUBSET Names, known : BOOLEAN, backlog : SUBSET Slots,
        twins : SUBSET Slots, admitted : BOOLEAN, recovered : BOOLEAN,
        complete : BOOLEAN, interrupted : BOOLEAN, sweeps : Nat,
        lease : {"none", "held", "lost"}, owed : BOOLEAN,
        deferred : BOOLEAN, yielded : BOOLEAN, result : Final]

\* The types of the records, and when a run is on.
RunTyped ==
  /\ run \in Run
  /\ status.running <=> run.pc # "off"
ControlTyped ==
  /\ status \in [running : BOOLEAN, state : Final \cup {"running"}, cancel : BOOLEAN,
                 reason : {"none", "lost", "window"}, narrowed : BOOLEAN,
                 deferred : BOOLEAN]
  /\ poll \in [was : BOOLEAN, backups : Nat, errors : Nat,
               ticket : {"none", "this", "old", "manual"}]
  /\ hist \in [stopRun : BOOLEAN, passes : Nat, beyond : Nat]

\* The committer has work only while the run is where it waits for it.
Hands ==
  /\ stage = "free" <=> job = Nowhere
  /\ queue # <<>> => run.pc \in Copying \cup {"discard"}
  /\ job # Nowhere => run.pc \in Copying \cup {"discard", "second", "salvage"}

\* What is planned was on the card when it was listed.
Listed ==
  /\ run.phase = "main" /\ run.pc \in Gates => run.expected = NoFiles
  /\ run.pc = "plan" => \A s \in Slots : run.inv[s] # 0 => s \in Video
  /\ run.pc \in {"look", "admit"} => \A s \in run.todo : run.inv[s] # 0
  /\ run.pc \in Copying => \A s \in run.todo : run.expected[s] # 0
  /\ run.pc = "stream" => run.cur \in Slots /\ run.expected[run.cur] # 0
  /\ run.pc \in {"hash", "unlink"} => run.cur \in Slots

\* What a listing, the plan or the ledger remembers of slot s.
Remembered(s) == {run.inv[s], run.expected[s], run.listed[s]}

\* A recording that is being written is known under its own name only.
Distinct ==
  /\ \A s \in Slots : card[s] \in used \cup {0} /\ Remembered(s) \subseteq used \cup {0}
  /\ open \subseteq Video
  /\ \A s \in open : card[s] # 0
  /\ \A s \in open : \A t \in Slots : t # s => card[s] # card[t] /\ card[s] \notin Remembered(t)

\* What arrived of slot s is what was listed, or the card has moved on.
Arrived(s) ==
  staging[s] \in {0, Torn, run.expected[s]} \/ card[s] # run.expected[s]

\* The committer has been given slot s, or will be.
Due(s) ==
  \/ \E i \in DOMAIN queue : queue[i] = s
  \/ job = s /\ stage = "check"
  \/ run.pc = "submit" /\ run.cur = s

Arrivals ==
  \A s \in Slots :
    /\ Due(s) \/ job = s => run.expected[s] # 0
    /\ Due(s) \/ (s \notin committed /\ run.expected[s] # 0) => Arrived(s)

\* Between the passes of a run nothing waits in staging.
Between == run.pc \in {"sweep", "rescue"} \/ (run.phase = "sweep" /\ run.pc \in Gates)
Staged ==
  /\ run.phase = "main" /\ run.pc \in Gates \ {"gate"} /\ ~ cleaning => staging = NoFiles
  /\ run.pc \in Copying \cup {"second"} \/ Between =>
       \A s \in Slots : staging[s] # 0 => run.expected[s] # 0
  /\ Between => \A s \in Slots : s \in committed \/ staging[s] = 0

\* What the committer reports and then erases is in the library, and then on the
\* disk, unless the card has moved on or somebody removed it.
Moved(s) == card[s] # run.expected[s] \/ Target(s) \in removed
Filed ==
  /\ stage = "sync" =>
       /\ library[Target(job)] = run.expected[job] \/ Moved(job)
       /\ Size(library[Target(job)]) >= Size(run.expected[job]) \/ Target(job) \in removed
  /\ stage = "reclaim" => disk[Target(job)] = run.expected[job] \/ Moved(job)

\* The thread that empties staging is awaited before the first byte.
Cleaner ==
  cleaning => /\ run.phase = "main" /\ run.got = {}
              /\ run.pc \in (Gates \ {"gate"}) \cup {"discard", "settle", "salvage", "join"}

\* A run that ends with nothing to show has committed nothing.
Empty == {"idle", "error", "offline", "unauthorized"}
Shown ==
  /\ run.pc \in Gates => run.phase # "rescue"
  /\ run.pc = "gate" => run.phase = "main" /\ run.got = {}
  /\ run.phase = "main" /\ run.pc \in Gates \cup {"off"} => committed = {}
  /\ run.pc \in Closing /\ run.result \in Empty =>
       committed = {} \/ (run.pc = "settle" /\ run.interrupted)
  /\ run.pc = "off" => run.phase = "main"
  /\ run.pc = "discard" => run.interrupted

\* A pass that copied was paid for; an automatic pull starts below the limit.
Paid ==
  /\ ~ poll.was => hist.passes = 0 /\ poll.backups = 0 /\ poll.ticket # "this"
  /\ poll.was => hist.passes <= poll.backups /\ hist.passes <= Limit + hist.beyond
  /\ poll.was /\ status.running =>
       /\ poll.ticket = "this"
       /\ hist.passes < Limit + hist.beyond /\ hist.passes < poll.backups
  /\ poll.was /\ status.state \in {"idle", "error"} => hist.passes < Limit + hist.beyond
Visits == Limit > 0 /\ "manual" \notin spent => Paid

\* What the first listing owed and the card still has is what is copied, and
\* once committed the library holds as much.
Promised ==
  \A s \in Slots :
    /\ run.listed[s] # 0 => s \in run.backlog /\ s \in Video
    /\ run.listed[s] # 0 /\ card[s] = run.listed[s] =>
         /\ run.inv[s] = run.listed[s]
         /\ run.expected[s] \in {0, run.listed[s]}
         /\ s \in committed =>
              Size(library[Target(s)]) >= Size(run.listed[s]) \/ Target(s) \in removed

\* A Stop stays on record until the run has ended.
StopKept == hist.stopRun /\ status.running => status.cancel /\ status.reason = "none"

\* The inductive invariant.
Kept ==
  /\ TypeOK /\ RunTyped /\ ControlTyped
  /\ Hands /\ Listed /\ Distinct /\ Arrivals /\ Staged /\ Filed
  /\ Cleaner /\ Shown /\ Visits /\ Promised /\ StopKept

-----------------------------------------------------------------------------
(* Constants.                                                              *)

\* No recording is "no file", and every slot has a name in the library.
LEMMA Basics ==
  /\ Torn \notin Contents /\ 0 \notin Contents /\ Torn # 0
  /\ \A s \in Slots : Target(s) \in Names
  /\ Nowhere \notin Slots /\ Video \subseteq Slots
  /\ \A n \in Names :
       /\ <<n, "video">> \in Video /\ <<n, "pre">> \in Slots
       /\ <<n, "video">> \in Slots
       /\ <<n, "pre">> # <<n, "video">> /\ <<n, "pre">> \notin Video
<1>1. Torn \notin Contents /\ 0 \notin Contents /\ Torn # 0
  BY ContentsAssumption DEF Torn
<1>2. \A s \in Slots : Target(s) \in Names
  BY DEF Slots, Target
<1>3. \A n, k : <<n, k>> \in Slots <=> n \in Names /\ k \in {"video", "pre"}
  BY DEF Slots
<1>4. Nowhere \notin Slots
  BY <1>3 DEF Nowhere
<1>5. Video \subseteq Slots
  BY DEF Video, Slots
<1>6. \A n \in Names :
       /\ <<n, "video">> \in Video /\ <<n, "pre">> \in Slots
       /\ <<n, "video">> \in Slots
       /\ <<n, "pre">> # <<n, "video">> /\ <<n, "pre">> \notin Video
  BY DEF Slots, Video
<1>7. QED
  BY <1>1, <1>2, <1>4, <1>5, <1>6

\* Sizes can be compared; no file is smaller than any recording.
LEMMA Sizes ==
  /\ \A c : Size(c) \in Int
  /\ \A c \in Contents : Size(c) > Size(0)
  /\ \A c : c \notin Contents => Size(c) = Size(0)
BY SizeAssumption, Basics DEF Size

\* Nothing that is spent is given back.
LEMMA Spending ==
  ASSUME NEW event
  PROVE  /\ Meets(event) => spent \subseteq spent' /\ event \in spent'
         /\ Spend(event) => spent \subseteq spent' /\ event \in spent'
BY DEF Meets, Spend

-----------------------------------------------------------------------------
(* Steps of the recorder, which change the card only.                      *)

\* The run keeps its listing, its plan and its ledger.
SameFiles ==
  /\ run'.inv = run.inv /\ run'.expected = run.expected
  /\ run'.listed = run.listed /\ run'.backlog = run.backlog

\* What was listed and is gone from its slot does not come back to it.
NothingReturns ==
  \A s \in Slots : card'[s] \in {card[s], 0} \/ card'[s] \notin Remembered(s)

\* The parts that know the card survive when nothing returns to it.
LEMMA CardMoves ==
  ASSUME TypeOK, Arrivals, Filed, Promised, Hands, NothingReturns,
         UNCHANGED <<library, disk, staging, removed, queue, committed>>, SameFiles,
         run'.pc = "submit" => run.pc = "submit" /\ run'.cur = run.cur,
         UNCHANGED <<job, stage>> \/ (stage' = "free" /\ job' = Nowhere)
  PROVE  Arrivals' /\ Filed' /\ Promised'
<1>1. \A s \in Slots : \A c \in Remembered(s) : c # 0 /\ card[s] # c => card'[s] # c
  BY DEF NothingReturns
<1>2. \A s \in Slots : /\ run.expected[s] \in Remembered(s) /\ run.listed[s] \in Remembered(s)
                       /\ Due(s)' \/ job' = s => Due(s) \/ job = s
                       /\ Due(s)' => Due(s)
  BY Basics DEF Remembered, Due
<1>3. Arrivals'
  <2>1. \A s \in Slots : run.expected[s] # 0 /\ Arrived(s) => Arrived(s)'
    BY <1>1, <1>2 DEF Arrived, SameFiles
  <2>2. QED
    BY <1>2, <2>1 DEF Arrivals, SameFiles
<1>4. Filed'
  <2>1. job # Nowhere => job \in Slots /\ run.expected[job] # 0
    BY DEF Arrivals, TypeOK
  <2>2. \A s \in Slots : run.expected[s] # 0 => (Moved(s) => Moved(s)')
    BY <1>1, <1>2 DEF Moved, SameFiles
  <2>3. stage \in {"sync", "reclaim"} => job # Nowhere
    BY DEF Hands
  <2>4. CASE UNCHANGED <<job, stage>>
    BY <2>1, <2>2, <2>3, <2>4 DEF Filed, SameFiles
  <2>5. CASE stage' = "free"
    BY <2>5 DEF Filed
  <2>6. QED
    BY <2>4, <2>5
<1>5. Promised'
  BY <1>1, <1>2 DEF Promised, SameFiles
<1>6. QED
  BY <1>3, <1>4, <1>5

\* A step of the recorder or the car.
LEMMA RecorderMoves ==
  ASSUME Kept, UNCHANGED <<hist, elsewhere>>, spent \subseteq spent', NothingReturns,
         card' \in [Slots -> Stored], used' \subseteq Contents, young' \subseteq Slots,
         car' \in [online : BOOLEAN, parked : BOOLEAN], Distinct'
  PROVE  Kept'
<1>1. UNCHANGED <<library, disk, staging, preserved, removed, cleaning, run, queue, job, stage,
                  failed, committed, status, poll, hist, erased>>
  BY DEF elsewhere, fileVars, pipeVars
<1>2. open' \subseteq Slots
  BY Basics DEF Distinct
<1>3. TypeOK' /\ RunTyped' /\ ControlTyped'
  <2>1. TypeOK'
    BY <1>1, <1>2 DEF Kept, TypeOK
  <2>2. QED
    BY <1>1, <2>1 DEF Kept, RunTyped, ControlTyped
<1>4. Hands' /\ Listed' /\ Staged' /\ Cleaner' /\ Shown' /\ StopKept'
  BY <1>1 DEF Kept, Hands, Listed, Staged, Between, Cleaner, Shown, StopKept
<1>5. Arrivals' /\ Filed' /\ Promised'
  BY <1>1, CardMoves DEF Kept, SameFiles
<1>6. Visits'
  BY <1>1 DEF Kept, Visits, Paid
<1>7. QED
  BY <1>3, <1>4, <1>5, <1>6 DEF Kept

\* A new recording is known under no name yet.
LEMMA Writes ==
  ASSUME Kept, NEW s \in Video, NEW c \in Contents, c \notin used, SameFiles,
         card' = [card EXCEPT ![s] = c], used' = used \cup {c},
         open \subseteq open', open' \subseteq open \cup {s}
  PROVE  Distinct' /\ NothingReturns /\ card' \in [Slots -> Stored] /\ used' \subseteq Contents
<1>1. s \in Slots /\ card \in [Slots -> Stored] /\ used \subseteq Contents /\ 0 \notin Contents
  BY Basics DEF Kept, TypeOK
<1>2. /\ card' \in [Slots -> Stored] /\ card'[s] = c
      /\ \A t \in Slots : t # s => card'[t] = card[t]
  BY <1>1 DEF Stored
<1>3. \A t : Remembered(t)' = Remembered(t)
  BY DEF Remembered, SameFiles
<1>4. /\ \A t \in Slots : card[t] \in used \cup {0} /\ Remembered(t) \subseteq used \cup {0}
      /\ open \subseteq Video
      /\ \A o \in open : card[o] # 0
      /\ \A o \in open : \A t \in Slots : t # o => card[o] # card[t] /\ card[o] \notin Remembered(t)
  BY DEF Kept, Distinct
<1>5. \A t \in Slots : c # card[t] /\ c \notin Remembered(t)
  BY <1>1, <1>4
<1>6. NothingReturns
  BY <1>2, <1>5 DEF NothingReturns
<1>7. \A o \in open' : o = s \/ (o \in open /\ o # s)
  OBVIOUS
<1>8. \A o \in open' : card'[o] # 0
  BY <1>1, <1>2, <1>4, <1>7, Basics
<1>9. \A o \in open' : \A t \in Slots : t # o => card'[o] # card'[t] /\ card'[o] \notin Remembered(t)
  <2>1. TAKE o \in open'
  <2>2. CASE o = s
    BY <1>2, <1>5, <2>2
  <2>3. CASE o \in open /\ o # s
    BY <1>1, <1>2, <1>4, <1>5, <2>3, Basics
  <2>4. QED
    BY <1>7, <2>2, <2>3
<1>10. \A t \in Slots : card'[t] \in used' \cup {0} /\ Remembered(t) \subseteq used' \cup {0}
  BY <1>1, <1>2, <1>4
<1>11. open' \subseteq Video
  BY <1>4
<1>12. Distinct'
  BY <1>3, <1>8, <1>9, <1>10, <1>11 DEF Distinct
<1>13. QED
  BY <1>1, <1>2, <1>6, <1>12

\* A slot that is emptied is written no more.
LEMMA Clears ==
  ASSUME Kept, NEW s \in Slots, SameFiles, UNCHANGED used,
         card' = [card EXCEPT ![s] = 0], open' \subseteq open \ {s}
  PROVE  Distinct' /\ NothingReturns /\ card' \in [Slots -> Stored]
<1>1. card \in [Slots -> Stored]
  BY DEF Kept, TypeOK
<1>2. /\ card' \in [Slots -> Stored] /\ card'[s] = 0
      /\ \A t \in Slots : t # s => card'[t] = card[t]
  BY <1>1 DEF Stored
<1>3. \A t : Remembered(t)' = Remembered(t)
  BY DEF Remembered, SameFiles
<1>4. NothingReturns
  BY <1>2 DEF NothingReturns
<1>5. Distinct'
  BY <1>2, <1>3, Basics DEF Kept, Distinct
<1>6. QED
  BY <1>2, <1>4, <1>5

\* The recorder and the car.
LEMMA RecorderKeeps == Kept /\ (Recorder \/ CarMoves) => Kept'
<1> SUFFICES ASSUME Kept, Recorder \/ CarMoves PROVE Kept'
  OBVIOUS
<1>1. /\ card \in [Slots -> Stored] /\ open \subseteq Video /\ young \subseteq Slots
      /\ used \subseteq Contents /\ car \in [online : BOOLEAN, parked : BOOLEAN]
  BY DEF Kept, TypeOK, Distinct
<1>2. ASSUME NEW n \in Names, NEW c \in Contents, Record(n, c) PROVE Kept'
  <2>1. /\ <<n, "video">> \in Video /\ c \notin used
        /\ card' = [card EXCEPT ![<<n, "video">>] = c] /\ used' = used \cup {c}
        /\ open' = open \cup {<<n, "video">>} /\ young' = young \cup {<<n, "video">>}
        /\ UNCHANGED <<car, hist, elsewhere>> /\ spent \subseteq spent'
    BY <1>2, Basics, Spending DEF Record
  <2>2. SameFiles
    BY <2>1 DEF elsewhere, SameFiles
  <2>3. Distinct' /\ NothingReturns /\ card' \in [Slots -> Stored] /\ used' \subseteq Contents
    BY <2>1, <2>2, Writes
  <2>4. young' \subseteq Slots
    BY <1>1, <2>1, Basics
  <2>5. QED
    BY <1>1, <2>1, <2>3, <2>4, RecorderMoves
<1>3. ASSUME NEW s \in open, NEW c \in Contents, Grow(s, c) PROVE Kept'
  <2>1. /\ s \in Video /\ c \notin used
        /\ card' = [card EXCEPT ![s] = c] /\ used' = used \cup {c}
        /\ UNCHANGED <<open, young, car, hist, elsewhere, spent>>
    BY <1>1, <1>3 DEF Grow
  <2>2. SameFiles
    BY <2>1 DEF elsewhere, SameFiles
  <2>3. Distinct' /\ NothingReturns /\ card' \in [Slots -> Stored] /\ used' \subseteq Contents
    BY <2>1, <2>2, Writes
  <2>4. QED
    BY <1>1, <2>1, <2>3, RecorderMoves
<1>4. ASSUME NEW s, Close(s) \/ Age(s) PROVE Kept'
  <2>1. /\ UNCHANGED <<card, used, car, hist, elsewhere, spent>>
        /\ open' \subseteq open /\ young' \subseteq young
    BY <1>4 DEF Close, Age
  <2>2. SameFiles
    BY <2>1 DEF elsewhere, SameFiles
  <2>3. Distinct' /\ NothingReturns
    BY <2>1, <2>2 DEF Kept, Distinct, Remembered, NothingReturns, SameFiles
  <2>4. QED
    BY <1>1, <2>1, <2>3, RecorderMoves
<1>5. ASSUME NEW s \in Slots, Recycle(s) PROVE Kept'
  <2>1. /\ card' = [card EXCEPT ![s] = 0] /\ open' \subseteq open \ {s}
        /\ young' \subseteq young
        /\ UNCHANGED <<open, used, car, hist, elsewhere>> /\ spent \subseteq spent'
    BY <1>5, Spending DEF Recycle
  <2>2. SameFiles
    BY <2>1 DEF elsewhere, SameFiles
  <2>3. Distinct' /\ NothingReturns /\ card' \in [Slots -> Stored]
    BY <2>1, <2>2, Clears
  <2>4. QED
    BY <1>1, <2>1, <2>3, RecorderMoves
<1>6. ASSUME NEW n \in Names, Strand(n) PROVE Kept'
  <2> DEFINE from == <<n, "video">>
             to == <<n, "pre">>
  <2>1. /\ from \in Slots /\ to \in Slots /\ to # from /\ from \in open /\ to \notin open
        /\ card[to] = 0 /\ card' = [card EXCEPT ![from] = 0, ![to] = card[from]]
        /\ open' = open \ {from} /\ young' = (young \ {from}) \cup {to}
        /\ UNCHANGED <<used, car, hist, elsewhere>> /\ spent \subseteq spent'
    BY <1>1, <1>6, Basics, Spending DEF Strand
  <2> HIDE DEF from, to
  <2>2. UNCHANGED run /\ \A t : Remembered(t)' = Remembered(t)
    BY <2>1 DEF elsewhere, Remembered
  <2>3. /\ card' \in [Slots -> Stored] /\ card'[from] = 0 /\ card'[to] = card[from]
        /\ \A t \in Slots : t # from /\ t # to => card'[t] = card[t]
    BY <1>1, <2>1 DEF Stored
  <2>4. NothingReturns
    <3>1. card[from] \notin Remembered(to)
      BY <2>1 DEF Kept, Distinct
    <3>2. QED
      BY <2>3, <3>1 DEF NothingReturns
  <2>5. Distinct'
    <3>1. \A s \in Slots : card'[s] \in used \cup {0} /\ Remembered(s) \subseteq used \cup {0}
      BY <2>1, <2>3 DEF Kept, Distinct
    <3>2. \A s \in open' : s \in open /\ s # from /\ s # to /\ s \in Slots
      BY <1>1, <2>1, Basics
    <3>3. \A s \in open' : card'[s] = card[s] /\ card[s] # 0
      BY <2>3, <3>2 DEF Kept, Distinct
    <3>4. \A s \in open' : \A t \in Slots : t # s => card[s] # card[t] /\ card[s] \notin Remembered(t)
      BY <3>2 DEF Kept, Distinct
    <3>5. \A s \in open' : \A t \in Slots : t # s => card'[s] # card'[t] /\ card'[s] \notin Remembered(t)
      BY <2>1, <2>3, <3>2, <3>3, <3>4
    <3>6. open' \subseteq Video /\ used' = used
      BY <1>1, <2>1
    <3>7. \A s \in open' : card'[s] # 0
      BY <3>3
    <3>8. QED
      BY <2>2, <3>1, <3>5, <3>6, <3>7 DEF Distinct
  <2>6. young' \subseteq Slots
    BY <1>1, <2>1
  <2>7. QED
    BY <1>1, <2>1, <2>3, <2>4, <2>5, <2>6, RecorderMoves
<1>7. ASSUME CarMoves PROVE Kept'
  <2>1. UNCHANGED <<card, open, young, used, hist, elsewhere>>
    BY <1>7 DEF CarMoves
  <2>2. car' \in [online : BOOLEAN, parked : BOOLEAN] /\ spent \subseteq spent'
    BY <1>1, <1>7, Spending DEF CarMoves
  <2>3. SameFiles
    BY <2>1 DEF elsewhere, SameFiles
  <2>4. Distinct' /\ NothingReturns
    BY <2>1, <2>3 DEF Kept, Distinct, Remembered, NothingReturns, SameFiles
  <2>5. QED
    BY <1>1, <2>1, <2>2, <2>4, RecorderMoves
<1>8. QED
  BY <1>2, <1>3, <1>4, <1>5, <1>6, <1>7 DEF Recorder

-----------------------------------------------------------------------------
(* Steps that change the record of the run only.                           *)

\* A run that keeps its files keeps what is known of them.
LEMMA FilesStay ==
  ASSUME Distinct, Promised, SameFiles, UNCHANGED <<card, used, open, library, removed, committed>>
  PROVE  Distinct' /\ Promised'
<1>1. \A s : Remembered(s)' = Remembered(s)
  BY DEF SameFiles, Remembered
<1>2. Distinct'
  BY <1>1 DEF Distinct
<1>3. Promised'
  BY DEF Promised, SameFiles
<1>4. QED
  BY <1>2, <1>3

\* A step of the run that leaves files and committer alone.
LEMMA RunMoves ==
  ASSUME Kept, UNCHANGED rest, spent \subseteq spent', cleaning' \in BOOLEAN,
         run' \in Run, run.pc # "off", run'.pc # "off",
         job # Nowhere => run'.expected = run.expected,
         Hands', Listed', Distinct', Arrivals', Staged', Cleaner', Shown', Promised'
  PROVE  Kept'
<1>1. UNCHANGED <<card, open, young, used, car, library, disk, staging, preserved, removed,
                  queue, job, stage, failed, committed, status, poll, hist, erased>>
  BY DEF rest, unitVars, fileVars, pipeVars, ctlVars
<1>2. TypeOK'
  BY <1>1 DEF Kept, TypeOK
<1>3. RunTyped' /\ ControlTyped' /\ StopKept' /\ Visits'
  BY <1>1 DEF Kept, RunTyped, ControlTyped, StopKept, Visits, Paid
<1>4. Filed'
  <2>1. stage \in {"sync", "reclaim"} => run'.expected = run.expected
    BY DEF Kept, Hands
  <2>2. QED
    BY <1>1, <2>1 DEF Kept, Filed, Moved
<1>5. QED
  BY <1>2, <1>3, <1>4 DEF Kept

\* Such a step that keeps its files too, and hands nothing over.
LEMMA RunTurns ==
  ASSUME Kept, UNCHANGED rest, spent \subseteq spent', cleaning' \in BOOLEAN,
         run' \in Run, run.pc # "off", run'.pc # "off", SameFiles,
         run'.pc = "submit" => run'.cur = Nowhere,
         Hands', Listed', Staged', Cleaner', Shown'
  PROVE  Kept'
<1>1. UNCHANGED <<card, used, open, library, removed, staging, queue, job, stage, committed>>
  BY DEF rest, unitVars, fileVars, pipeVars
<1>2. Distinct' /\ Promised'
  BY <1>1, FilesStay DEF Kept
<1>3. run'.expected = run.expected
  BY DEF SameFiles
<1>4. Arrivals'
  <2>1. \A s \in Slots : Due(s)' => Due(s)
    BY <1>1, Basics DEF Due
  <2>2. \A s \in Slots : Arrived(s)' = Arrived(s)
    BY <1>1, <1>3 DEF Arrived
  <2>3. QED
    BY <1>1, <1>3, <2>1, <2>2 DEF Kept, Arrivals
<1>5. QED
  BY <1>2, <1>3, <1>4, RunMoves

\* Nobody works for the committer at these places.
LEMMA HandsFree ==
  ASSUME Kept, run.pc \notin Copying \cup {"discard", "second", "salvage"}
  PROVE  queue = <<>> /\ job = Nowhere /\ stage = "free"
BY DEF Kept, Hands

\* An exception ends the body of a run.
LEMMA RaiseKeeps ==
  ASSUME Kept, UNCHANGED <<rest, cleaning>>, spent \subseteq spent', Raises, run.pc # "off"
  PROVE  Kept'
<1>0. run \in Run /\ cleaning' \in BOOLEAN
  BY DEF Kept, RunTyped, TypeOK
<1>1. /\ run' \in Run /\ run'.pc = "discard" /\ SameFiles
      /\ run'.phase = run.phase /\ run'.got = run.got /\ run'.interrupted
  BY <1>0 DEF Raises, Run, SameFiles, Places, Final
<1>2. UNCHANGED <<staging, queue, job, stage, committed>>
  BY DEF rest, fileVars, pipeVars
<1>3. Hands' /\ Listed' /\ Staged' /\ Shown'
  BY <1>1, <1>2 DEF Kept, Hands, Listed, Staged, Between, Shown, Gates, Copying, Closing
<1>4. Cleaner'
  BY <1>1 DEF Kept, Cleaner
<1>5. QED
  BY <1>0, <1>1, <1>3, <1>4, RunTurns

\* A run that ends early says so, and has committed nothing if it shows nothing.
LEMMA EndKeeps ==
  ASSUME Kept, UNCHANGED <<rest, cleaning>>, spent \subseteq spent',
         NEW r \in Final, Ends(r), run.pc \in Gates \cup {"total"},
         r \in Empty => committed = {}
  PROVE  Kept'
<1>0. run \in Run /\ cleaning' \in BOOLEAN /\ run.pc # "off"
  BY DEF Kept, RunTyped, TypeOK, Gates
<1>1. /\ run' \in Run /\ run'.pc = "settle" /\ SameFiles /\ run'.result = r
      /\ run'.phase = run.phase /\ run'.got = run.got
  BY <1>0 DEF Ends, Run, SameFiles, Places, Closing
<1>2. UNCHANGED <<staging, queue, job, stage, committed>>
  BY DEF rest, fileVars, pipeVars
<1>3. Hands'
  BY <1>1, <1>2, HandsFree DEF Hands, Gates, Copying
<1>4. Listed' /\ Staged' /\ Shown'
  BY <1>1, <1>2 DEF Listed, Staged, Between, Shown, Gates, Copying
<1>5. Cleaner'
  BY <1>1 DEF Kept, Cleaner
<1>6. QED
  BY <1>0, <1>1, <1>3, <1>4, <1>5, RunTurns

\* The gates of a run, before it lists the card.
LEMMA GateKeeps == Kept /\ Gate => Kept'
<1> SUFFICES ASSUME Kept, Gate PROVE Kept'
  OBVIOUS
<1>0. /\ UNCHANGED rest /\ run.pc = "gate" /\ run \in Run /\ run.phase = "main"
      /\ committed = {} /\ run.got = {} /\ run.expected = NoFiles /\ run.pc \in Gates
  BY DEF Gate, At, Kept, RunTyped, Shown, Listed, Gates
<1>1. spent \subseteq spent'
  BY Spending DEF Gate
<1>2. \/ /\ UNCHANGED cleaning
         /\ \E r \in Final : Ends(r)
      \/ cleaning' = TRUE /\ run' = [run EXCEPT !.pc = "list", !.gone = removed]
  BY DEF Gate, Final
<1>3. ASSUME UNCHANGED cleaning, NEW r \in Final, Ends(r) PROVE Kept'
  BY <1>0, <1>1, <1>3, EndKeeps
<1>4. ASSUME cleaning' = TRUE, run' = [run EXCEPT !.pc = "list", !.gone = removed]
      PROVE  Kept'
  <2>1. /\ run' \in Run /\ run'.pc = "list" /\ SameFiles
        /\ run'.phase = "main" /\ run'.got = {}
    <3>1. removed \in SUBSET Names
      BY DEF Kept, TypeOK
    <3>2. QED
      BY <1>0, <1>4, <3>1 DEF Run, SameFiles, Places, Gates
  <2>2. UNCHANGED <<staging, queue, job, stage, committed>> /\ run'.expected = NoFiles
    BY <1>0, <2>1 DEF rest, fileVars, pipeVars, SameFiles
  <2>3. Hands'
    BY <1>0, <2>2, HandsFree DEF Hands, Gates, Copying
  <2>4. Listed' /\ Staged' /\ Cleaner' /\ Shown'
    BY <1>0, <1>4, <2>1, <2>2 DEF Listed, Staged, Between, Cleaner, Shown, Gates, Copying, Closing
  <2>5. QED
    BY <1>0, <1>1, <1>4, <2>1, <2>3, <2>4, RunTurns
<1>5. QED
  BY <1>2, <1>3, <1>4

\* The listing.
LEMMA ListKeeps == Kept /\ List => Kept'
<1> SUFFICES ASSUME Kept, List PROVE Kept'
  OBVIOUS
<1> DEFINE seen == [s \in Slots |-> IF s \in Video THEN card[s] ELSE 0]
<1>0. /\ UNCHANGED <<rest, cleaning>> /\ run.pc = "list" /\ run \in Run /\ run.pc \in Gates
      /\ cleaning' \in BOOLEAN /\ card \in [Slots -> Stored] /\ young \in SUBSET Slots
  BY DEF List, At, Kept, RunTyped, TypeOK, Gates
<1>1. spent \subseteq spent' /\ (Raises \/ run' = [run EXCEPT !.pc = "plan", !.fresh = young, !.inv = seen])
  BY Spending DEF List
<1>2. CASE Raises
  BY <1>0, <1>1, <1>2, RaiseKeeps
<1>3. CASE run' = [run EXCEPT !.pc = "plan", !.fresh = young, !.inv = seen]
  <2>1. seen \in [Slots -> Stored] /\ \A s \in Slots : seen[s] = IF s \in Video THEN card[s] ELSE 0
    BY <1>0 DEF Stored
  <2> HIDE DEF seen
  <2>2. /\ run' \in Run /\ run'.pc = "plan" /\ run'.inv = seen /\ run'.got = run.got
        /\ run'.expected = run.expected /\ run'.listed = run.listed
        /\ run'.backlog = run.backlog /\ run'.phase = run.phase
    BY <1>0, <1>3, <2>1 DEF Run, Places, Gates
  <2>3. UNCHANGED <<card, open, used, library, removed, staging, queue, job, stage, committed>>
    BY <1>0 DEF rest, unitVars, fileVars, pipeVars
  <2>4. Hands'
    BY <1>0, <2>3, HandsFree DEF Hands, Gates, Copying
  <2>5. Listed'
    BY <1>0, <2>1, <2>2 DEF Kept, Listed, Gates, Copying
  <2>6. Staged' /\ Shown'
    BY <1>0, <2>2, <2>3 DEF Kept, Staged, Between, Shown, Gates, Copying, Closing
  <2>7. Cleaner'
    BY <1>0, <2>2 DEF Kept, Cleaner, Gates
  <2>8. Distinct'
    <3>1. \A s \in Slots : Remembered(s)' = {seen[s], run.expected[s], run.listed[s]}
      BY <2>2 DEF Remembered
    <3>2. \A s \in Slots : seen[s] = card[s] \/ seen[s] = 0
      BY <2>1
    <3>3. \A s \in Slots : /\ run.expected[s] \in Remembered(s) /\ run.listed[s] \in Remembered(s)
      BY DEF Remembered
    <3>4. \A s \in Slots : card[s] \in used \cup {0} /\ Remembered(s)' \subseteq used \cup {0}
      BY <3>1, <3>2, <3>3 DEF Kept, Distinct
    <3>5. \A s \in open : \A t \in Slots : t # s => card[s] # card[t] /\ card[s] \notin Remembered(t)'
      BY <3>1, <3>2, <3>3 DEF Kept, Distinct
    <3>6. QED
      BY <2>3, <3>4, <3>5 DEF Kept, Distinct
  <2>9. Promised'
    BY <2>1, <2>2, <2>3 DEF Kept, Promised
  <2>10. Arrivals'
    BY <1>0, <2>2, <2>3, HandsFree, Basics DEF Kept, Arrivals, Due, Arrived, Gates, Copying
  <2>11. QED
    BY <1>0, <1>1, <2>2, <2>4, <2>5, <2>6, <2>7, <2>8, <2>9, <2>10, RunMoves
<1>4. QED
  BY <1>1, <1>2, <1>3

\* The plan.
LEMMA PlanKeeps == Kept /\ delta => Kept'
<1> SUFFICES ASSUME Kept, delta PROVE Kept'
  OBVIOUS
<1> DEFINE plan == {s \in Ready : ~ Same(s)}
           first == run.phase = "main"
           backlog == IF first THEN plan ELSE run.backlog
           twins == IF first THEN Ready \ plan ELSE run.twins
           listed == IF first THEN [s \in Slots |-> IF s \in plan THEN run.inv[s] ELSE 0]
                     ELSE run.listed
<1>0. /\ UNCHANGED <<rest, cleaning>> /\ run.pc = "plan" /\ run \in Run /\ run.pc \in Gates
      /\ cleaning' \in BOOLEAN
  BY DEF delta, At, Kept, RunTyped, TypeOK, Gates
<1>1. PICK held \in SUBSET plan, yields \in BOOLEAN :
        /\ IF held = {} THEN UNCHANGED spent ELSE Defers
        /\ yields => held # {} /\ ~ first /\ ~ status.cancel
        /\ run' = [run EXCEPT
                     !.pc = IF status.cancel THEN "settle" ELSE IF yields THEN "rescue" ELSE "look",
                     !.result = "cancelled", !.known = TRUE,
                     !.todo = IF yields THEN {} ELSE plan \ held,
                     !.deferred = held # {}, !.yielded = yields,
                     !.backlog = backlog, !.twins = twins, !.listed = listed]
  BY DEF delta
<1> DEFINE pc == IF status.cancel THEN "settle" ELSE IF yields THEN "rescue" ELSE "look"
           todo == IF yields THEN {} ELSE plan \ held
           later == held # {}
<1>a. spent \subseteq spent'
  BY <1>1, Spending DEF Defers
<1>2. /\ plan \in SUBSET Slots /\ \A s \in plan : run.inv[s] # 0
      /\ twins \in SUBSET Slots /\ backlog \in SUBSET Slots
      /\ todo \in SUBSET plan /\ later \in BOOLEAN
  BY <1>0 DEF Run, Ready
<1>3. /\ listed \in [Slots -> Stored]
      /\ ~ first => listed = run.listed /\ backlog = run.backlog
      /\ first => backlog = plan /\ \A s \in Slots : listed[s] = IF s \in plan THEN run.inv[s] ELSE 0
  BY <1>0, <1>2 DEF Run, Stored
<1>4. pc \in {"settle", "look"} \/ (pc = "rescue" /\ run.phase = "sweep")
  BY <1>0, <1>1 DEF Kept, Shown, Run
<1>b. run' = [run EXCEPT !.pc = pc, !.result = "cancelled", !.known = TRUE, !.todo = todo,
                !.deferred = later, !.yielded = yields,
                !.backlog = backlog, !.twins = twins, !.listed = listed]
  BY <1>1
<1> HIDE DEF plan, pc, backlog, twins, listed, todo, later
<1>5. /\ run' \in Run /\ run'.pc = pc /\ run'.inv = run.inv /\ run'.got = run.got
      /\ run'.expected = run.expected /\ run'.listed = listed /\ run'.todo = todo
      /\ run'.backlog = backlog /\ run'.phase = run.phase /\ run'.result = "cancelled"
  <2>1. pc \in Places /\ todo \in SUBSET Slots
    BY <1>2, <1>4 DEF Places, Gates, Closing
  <2> DEFINE v == [run EXCEPT !.pc = pc, !.result = "cancelled", !.known = TRUE, !.todo = todo,
                     !.deferred = later, !.yielded = yields,
                     !.backlog = backlog, !.twins = twins, !.listed = listed]
  <2>2. v \in Run
    BY <1>0, <1>2, <1>3, <2>1 DEF Run, Final
  <2>3. /\ v.pc = pc /\ v.inv = run.inv /\ v.got = run.got
        /\ v.expected = run.expected /\ v.listed = listed /\ v.todo = todo
        /\ v.backlog = backlog /\ v.phase = run.phase /\ v.result = "cancelled"
    BY <1>0 DEF Run
  <2>4. QED
    BY <1>b, <2>2, <2>3
<1>6. UNCHANGED <<card, open, used, library, removed, staging, queue, job, stage, committed>>
  BY <1>0 DEF rest, unitVars, fileVars, pipeVars
<1>7. Hands'
  BY <1>0, <1>6, HandsFree DEF Hands, Gates, Copying
<1>8. Listed'
  BY <1>0, <1>2, <1>4, <1>5 DEF Kept, Listed, Gates, Copying
<1>9. Staged' /\ Shown'
  BY <1>0, <1>4, <1>5, <1>6 DEF Kept, Staged, Between, Shown, Gates, Copying, Closing, Empty
<1>10. Cleaner'
  BY <1>0, <1>4, <1>5 DEF Kept, Cleaner, Gates
<1>11. Distinct'
  <2>1. \A s \in Slots : listed[s] \in {run.listed[s], run.inv[s], 0}
    BY <1>3
  <2>2. \A s \in Slots : Remembered(s)' \subseteq Remembered(s) \cup {0}
    BY <1>5, <2>1 DEF Remembered
  <2>3. \A s \in Slots : Remembered(s)' \subseteq used \cup {0}
    BY <2>2 DEF Kept, Distinct
  <2>4. \A s \in open : \A t \in Slots : t # s => card[s] \notin Remembered(t)'
    BY <2>2 DEF Kept, Distinct
  <2>5. QED
    BY <1>6, <2>3, <2>4 DEF Kept, Distinct
<1>12. Promised'
  <2>1. CASE first
    <3>1. run.expected = NoFiles /\ committed = {} /\ \A s \in plan : s \in Video
      BY <1>0, <1>2, <2>1 DEF Kept, Listed, Shown
    <3>2. QED
      BY <1>3, <1>5, <1>6, <2>1, <3>1 DEF Promised, NoFiles
  <2>2. CASE ~ first
    BY <1>3, <1>5, <1>6, <2>2 DEF Kept, Promised
  <2>3. QED
    BY <2>1, <2>2
<1>13. Arrivals'
  BY <1>0, <1>4, <1>5, <1>6, HandsFree, Basics DEF Kept, Arrivals, Due, Arrived, Gates, Copying
<1>14. QED
  BY <1>0, <1>a, <1>4, <1>5, <1>7, <1>8, <1>9, <1>10, <1>11, <1>12, <1>13, RunMoves

\* The second look at the card.
LEMMA LookKeeps == Kept /\ _drop_still_growing => Kept'
<1> SUFFICES ASSUME Kept, _drop_still_growing PROVE Kept'
  OBVIOUS
<1>0. /\ UNCHANGED <<rest, cleaning>> /\ run.pc = "look" /\ run \in Run /\ run.pc \in Gates
      /\ cleaning' \in BOOLEAN /\ spent \subseteq spent'
  BY Spending DEF _drop_still_growing, At, Kept, RunTyped, TypeOK, Gates
<1>1. PICK keep \in {run.todo \ Growing} \cup (IF car.online THEN {} ELSE {run.todo}) :
        IF keep # {} \/ run.phase # "main"
        THEN run' = [run EXCEPT !.todo = keep, !.result = "idle",
                       !.pc = IF keep # {} THEN "admit" ELSE "sweep",
                       !.sweeps = IF run.phase = "main" THEN @ ELSE 0]
        ELSE \E admitted \in BOOLEAN :
               run' = [run EXCEPT !.todo = {}, !.result = "idle",
                         !.pc = "settle", !.admitted = admitted]
  BY DEF _drop_still_growing
<1>2. keep \in SUBSET run.todo
  OBVIOUS
<1> DEFINE pc == IF keep # {} THEN "admit" ELSE "sweep"
           sweeps == IF run.phase = "main" THEN run.sweeps ELSE 0
<1>3. CASE keep # {} \/ run.phase # "main"
  <2>1. run' = [run EXCEPT !.todo = keep, !.result = "idle", !.pc = pc, !.sweeps = sweeps]
    BY <1>1, <1>3
  <2>2. /\ pc \in {"admit", "sweep"} /\ sweeps \in Nat
        /\ pc = "sweep" => run.phase = "sweep"
    BY <1>0, <1>3 DEF Run, Kept, Shown
  <2> HIDE DEF pc, sweeps
  <2>3. /\ run' \in Run /\ run'.pc = pc /\ SameFiles /\ run'.todo = keep
        /\ run'.phase = run.phase /\ run'.got = run.got
    BY <1>0, <1>2, <2>1, <2>2 DEF Run, SameFiles, Places, Gates, Final
  <2>4. UNCHANGED <<staging, queue, job, stage, committed>>
    BY <1>0 DEF rest, fileVars, pipeVars
  <2>5. Hands'
    BY <1>0, <2>4, HandsFree DEF Hands, Gates, Copying
  <2>6. Listed'
    BY <1>0, <1>2, <2>2, <2>3 DEF Kept, Listed, SameFiles, Gates, Copying
  <2>7. Staged' /\ Shown'
    BY <1>0, <2>2, <2>3, <2>4 DEF Kept, Staged, Between, SameFiles, Shown, Gates, Copying, Closing
  <2>8. Cleaner'
    BY <1>0, <2>2, <2>3 DEF Kept, Cleaner, Gates
  <2>9. QED
    BY <1>0, <2>2, <2>3, <2>5, <2>6, <2>7, <2>8, RunTurns
<1>4. CASE ~ (keep # {} \/ run.phase # "main")
  <2>1. PICK admitted \in BOOLEAN : run' = [run EXCEPT !.todo = {}, !.result = "idle",
                                              !.pc = "settle", !.admitted = admitted]
    BY <1>1, <1>4
  <2>3. /\ run' \in Run /\ run'.pc = "settle" /\ SameFiles
        /\ run'.phase = run.phase /\ run'.got = run.got
    BY <1>0, <2>1 DEF Run, SameFiles, Places, Closing, Final
  <2>4. UNCHANGED <<staging, queue, job, stage, committed>> /\ committed = {}
    BY <1>0, <1>4 DEF rest, fileVars, pipeVars, Kept, Shown
  <2>5. Hands'
    BY <1>0, <2>4, HandsFree DEF Hands, Gates, Copying
  <2>6. Listed' /\ Staged' /\ Shown'
    BY <2>3, <2>4 DEF Listed, Staged, Between, Shown, Gates, Copying
  <2>7. Cleaner'
    BY <1>0, <2>3 DEF Kept, Cleaner, Gates
  <2>8. QED
    BY <1>0, <2>3, <2>5, <2>6, <2>7, RunTurns
<1>5. QED
  BY <1>3, <1>4

\* The admission: the plan becomes what the run expects.
LEMMA AdmitKeeps == Kept /\ Admit => Kept'
<1> SUFFICES ASSUME Kept, Admit PROVE Kept'
  OBVIOUS
<1>0. /\ UNCHANGED <<rest, cleaning>> /\ run.pc = "admit" /\ run \in Run /\ run.pc \in Gates
      /\ cleaning' \in BOOLEAN /\ run.phase \in {"main", "sweep"}
  BY DEF Admit, At, Kept, RunTyped, TypeOK, Gates, Shown, Run
<1>1. spent \subseteq spent'
  BY Spending DEF Admit, BandHolds, RootChannelLost, FootageUnsafe, Fits
<1>2. ASSUME run.phase = "main",
             \/ Ends("cancelled") \/ BandHolds \/ RootChannelLost \/ FootageUnsafe
      PROVE  Kept'
  <2>1. PICK r \in {"cancelled", "idle", "error"} : Ends(r)
    BY <1>2 DEF BandHolds, RootChannelLost, FootageUnsafe
  <2>2. r \in Final /\ committed = {}
    BY <1>0, <1>2 DEF Final, Kept, Shown
  <2>3. QED
    BY <1>0, <1>1, <2>1, <2>2, EndKeeps
<1>3. ASSUME StagingReady, NEW files \in SUBSET run.todo, 
             run' = [run EXCEPT !.pc = "move", !.todo = files,
                              !.lease = IF run.phase = "main" THEN "held" ELSE @,
                              !.admitted = TRUE, !.recovered = FALSE,
                              !.expected = [s \in Slots |->
                                  IF s \in files THEN run.inv[s] ELSE @[s]]]
      PROVE  Kept'
  <2> DEFINE lease == IF run.phase = "main" THEN "held" ELSE run.lease
             expected == [s \in Slots |-> IF s \in files THEN run.inv[s] ELSE run.expected[s]]
  <2>1. run' = [run EXCEPT !.pc = "move", !.todo = files, !.lease = lease, !.admitted = TRUE,
                             !.recovered = FALSE, !.expected = expected]
    BY <1>3
  <2>2. /\ lease \in {"none", "held", "lost"} /\ expected \in [Slots -> Stored]
        /\ \A s \in Slots : expected[s] = IF s \in files THEN run.inv[s] ELSE run.expected[s]
    BY <1>0 DEF Run, Stored
  <2> HIDE DEF lease, expected
  <2>3. files \in SUBSET Slots
    BY <1>0, <1>3 DEF Run
  <2>4. /\ run' \in Run /\ run'.pc = "move" /\ run'.inv = run.inv /\ run'.got = run.got
        /\ run'.expected = expected /\ run'.listed = run.listed /\ run'.todo = files
        /\ run'.backlog = run.backlog /\ run'.phase = run.phase
    BY <1>0, <2>1, <2>2, <2>3 DEF Run, Places, Copying
  <2>5. UNCHANGED <<card, open, used, library, removed, staging, queue, job, stage, committed, cleaning>>
    BY <1>0 DEF rest, unitVars, fileVars, pipeVars
  <2>6. Hands' /\ job = Nowhere /\ queue = <<>> /\ stage = "free"
    BY <1>0, <2>5, HandsFree DEF Hands, Gates, Copying
  <2>7. \A s \in files : s \in Slots /\ run.inv[s] # 0
    BY <1>0, <2>3, <1>3 DEF Kept, Listed
  <2>8. Listed'
    BY <2>2, <2>4, <2>7 DEF Listed, Gates, Copying
  <2>9. ~ cleaning
    BY <1>0, <1>3 DEF StagingReady, Kept, Cleaner
  <2>10. /\ \A s \in Slots : staging[s] # 0 => expected[s] # 0
         /\ \A s \in Slots : s \in committed \/ staging[s] = 0
    <3>1. CASE run.phase = "main"
      <4>1. staging = NoFiles
        BY <1>0, <2>9, <3>1 DEF Kept, Staged, Gates
      <4>2. QED
        BY <4>1 DEF NoFiles
    <3>2. CASE run.phase = "sweep"
      <4>1. Between
        BY <1>0, <3>2 DEF Between
      <4>2. QED
        BY <2>2, <2>7, <4>1 DEF Kept, Staged
    <3>3. QED
      BY <1>0, <3>1, <3>2
  <2>11. Staged'
    BY <2>4, <2>5, <2>10 DEF Staged, Between, Gates, Copying
  <2>12. Shown'
    BY <2>4, <2>5 DEF Shown, Gates, Closing
  <2>13. Cleaner'
    BY <2>5, <2>9 DEF Cleaner
  <2>14. Distinct'
    <3>1. \A s \in Slots : Remembered(s)' \subseteq Remembered(s)
      BY <2>2, <2>4 DEF Remembered
    <3>2. QED
      BY <2>5, <3>1 DEF Kept, Distinct
  <2>15. Promised'
    BY <2>2, <2>4, <2>5 DEF Kept, Promised
  <2>16. Arrivals'
    <3>1. \A s \in Slots : ~ Due(s)'
      BY <2>4, <2>5, <2>6, Basics DEF Due
    <3>2. QED
      BY <2>4, <2>5, <2>6, <2>10, <3>1, Basics DEF Arrivals, Arrived
  <2>17. QED
    BY <1>0, <1>1, <2>4, <2>6, <2>8, <2>11, <2>12, <2>13, <2>14, <2>15, <2>16, RunMoves
<1>4. QED
  BY <1>2, <1>3 DEF Admit, Fits

\* The next chunk is asked for, or the stream is over.
LEMMA LaunchKeeps == Kept /\ Launch => Kept'
<1> SUFFICES ASSUME Kept, Launch PROVE Kept'
  OBVIOUS
<1>0. /\ UNCHANGED <<rest, cleaning>> /\ run.pc = "move" /\ run \in Run
      /\ run.pc \in Copying /\ run.pc # "off" /\ cleaning' \in BOOLEAN
      /\ spent \subseteq spent'
  BY DEF Launch, At, Kept, RunTyped, TypeOK, Copying
<1>1. \/ Raises
      \/ run' = [run EXCEPT !.pc = "submit", !.cur = Nowhere, !.complete = FALSE]
      \/ \E s \in run.todo : run' = [run EXCEPT !.pc = "stream", !.cur = s]
  BY DEF Launch
<1>2. CASE Raises
  BY <1>0, <1>2, RaiseKeeps
<1>3. CASE ~ Raises
  <2>1. /\ run' \in Run /\ run'.pc \in {"submit", "stream"} /\ SameFiles
        /\ run'.todo = run.todo /\ run'.phase = run.phase /\ run'.got = run.got
        /\ run'.pc = "submit" => run'.cur = Nowhere
        /\ run'.pc = "stream" => run'.cur \in run.todo
    <3>1. CASE run' = [run EXCEPT !.pc = "submit", !.cur = Nowhere, !.complete = FALSE]
      BY <1>0, <3>1 DEF Run, SameFiles, Places, Copying
    <3>2. ASSUME NEW s \in run.todo, run' = [run EXCEPT !.pc = "stream", !.cur = s]
          PROVE  /\ run' \in Run /\ run'.pc = "stream" /\ SameFiles /\ run'.cur = s
                 /\ run'.todo = run.todo /\ run'.phase = run.phase /\ run'.got = run.got
      <4>1. s \in Slots
        BY <1>0 DEF Run
      <4>2. QED
        BY <1>0, <3>2, <4>1 DEF Run, SameFiles, Places, Copying
    <3>3. QED
      BY <1>1, <1>3, <3>1, <3>2
  <2>2. UNCHANGED <<staging, queue, job, stage, committed>>
    BY <1>0 DEF rest, fileVars, pipeVars
  <2>3. run'.pc \in Copying /\ run'.pc \notin Gates \cup Closing \cup {"off", "sweep", "rescue", "plan"}
    BY <2>1 DEF Copying, Gates, Closing
  <2>4. Hands' /\ Staged' /\ Shown'
    BY <1>0, <2>1, <2>2, <2>3 DEF Kept, Hands, Staged, Between, SameFiles, Shown, Gates
  <2>5. Listed'
    <3>1. run.todo \subseteq Slots /\ \A s \in run.todo : run.expected[s] # 0
      BY <1>0 DEF Kept, Listed, Run
    <3>2. QED
      BY <2>1, <2>3, <3>1 DEF Listed, SameFiles, Gates
  <2>6. Cleaner'
    BY <1>0, <2>2 DEF Kept, Cleaner, Gates
  <2>7. QED
    BY <1>0, <2>1, <2>4, <2>5, <2>6, RunTurns
<1>4. QED
  BY <1>2, <1>3

\* The batch ends early, with nothing more in hand.
LEMMA YieldKeeps == Kept /\ YieldBatch => Kept'
<1> SUFFICES ASSUME Kept, YieldBatch PROVE Kept'
  OBVIOUS
<1>0. /\ UNCHANGED <<rest, cleaning>> /\ run.pc = "move" /\ run \in Run
      /\ run.pc \in Copying /\ run.pc # "off" /\ cleaning' \in BOOLEAN
      /\ run' = [run EXCEPT !.pc = "submit", !.cur = Nowhere, !.todo = {},
                   !.deferred = TRUE, !.yielded = TRUE]
  BY DEF YieldBatch, At, Kept, RunTyped, TypeOK, Copying
<1>1. spent \subseteq spent'
  BY Spending DEF YieldBatch, Defers
<1>2. /\ run' \in Run /\ run'.pc = "submit" /\ SameFiles /\ run'.cur = Nowhere
      /\ run'.todo = {} /\ run'.phase = run.phase /\ run'.got = run.got
  BY <1>0 DEF Run, SameFiles, Places, Copying
<1>3. UNCHANGED <<staging, queue, job, stage, committed>>
  BY <1>0 DEF rest, fileVars, pipeVars
<1>4. Hands' /\ Listed' /\ Staged' /\ Shown'
  BY <1>0, <1>2, <1>3
  DEF Kept, Hands, Listed, Staged, Between, SameFiles, Shown, Gates, Copying, Closing
<1>5. Cleaner'
  BY <1>0, <1>3 DEF Kept, Cleaner, Gates
<1>6. QED
  BY <1>0, <1>1, <1>2, <1>4, <1>5, RunTurns

\* Everything that was handed over is done before the run goes on.
LEMMA CloseKeeps == Kept /\ close => Kept'
<1> SUFFICES ASSUME Kept, close PROVE Kept'
  OBVIOUS
<1>0. /\ UNCHANGED <<rest, cleaning>> /\ run.pc = "close" /\ run \in Run
      /\ run.pc \in Copying /\ run.pc # "off" /\ cleaning' \in BOOLEAN
      /\ spent \subseteq spent' /\ queue = <<>> /\ job = Nowhere
  BY DEF close, At, Kept, RunTyped, TypeOK, Copying
<1>1. Raises \/ \E p \in {"move", "second"} : run' = [run EXCEPT !.pc = p]
  BY DEF close
<1>2. CASE Raises
  BY <1>0, <1>2, RaiseKeeps
<1>3. ASSUME NEW p \in {"move", "second"}, run' = [run EXCEPT !.pc = p] PROVE Kept'
  <2>1. /\ run' \in Run /\ run'.pc = p /\ SameFiles
        /\ run'.todo = run.todo /\ run'.phase = run.phase /\ run'.got = run.got
    BY <1>0, <1>3 DEF Run, SameFiles, Places, Copying
  <2>2. UNCHANGED <<staging, queue, job, stage, committed>>
    BY <1>0 DEF rest, fileVars, pipeVars
  <2>3. p \in Copying \cup {"second"} /\ p \notin Gates \cup Closing \cup {"off", "sweep", "rescue", "plan", "submit", "stream"}
    BY DEF Copying, Gates, Closing
  <2>4. Hands' /\ Staged' /\ Shown'
    BY <1>0, <2>1, <2>2, <2>3 DEF Kept, Hands, Staged, Between, SameFiles, Shown, Gates
  <2>5. Listed'
    BY <1>0, <2>1, <2>3 DEF Kept, Listed, SameFiles, Gates
  <2>6. Cleaner'
    BY <1>0, <2>2 DEF Kept, Cleaner, Gates
  <2>7. QED
    BY <1>0, <2>1, <2>3, <2>4, <2>5, <2>6, RunTurns
<1>4. QED
  BY <1>1, <1>2, <1>3

\* The card is looked at again, or the stranded files are.
LEMMA SweepKeeps == Kept /\ Sweep => Kept'
<1> SUFFICES ASSUME Kept, Sweep PROVE Kept'
  OBVIOUS
<1>0. /\ UNCHANGED <<rest, cleaning>> /\ run.pc = "sweep" /\ run \in Run
      /\ run.pc # "off" /\ cleaning' \in BOOLEAN /\ spent \subseteq spent'
  BY DEF Sweep, At, Kept, RunTyped, TypeOK
<1>1. \/ /\ run.sweeps > 0
         /\ run' = [run EXCEPT !.pc = "list", !.phase = "sweep", !.sweeps = run.sweeps - 1]
      \/ run' = [run EXCEPT !.pc = "rescue"]
  BY DEF Sweep
<1>2. /\ run' \in Run /\ SameFiles /\ run'.got = run.got
      /\ run'.pc = "rescue" \/ (run'.pc = "list" /\ run'.phase = "sweep")
  <2>1. ASSUME NEW k \in Nat, run' = [run EXCEPT !.pc = "list", !.phase = "sweep", !.sweeps = k]
        PROVE  /\ run' \in Run /\ SameFiles /\ run'.got = run.got
               /\ run'.pc = "list" /\ run'.phase = "sweep"
    BY <1>0, <2>1 DEF Run, SameFiles, Places, Gates
  <2>2. CASE run' = [run EXCEPT !.pc = "rescue"]
    BY <1>0, <2>2 DEF Run, SameFiles, Places
  <2>3. run.sweeps > 0 => run.sweeps - 1 \in Nat
    BY <1>0 DEF Run
  <2>4. QED
    BY <1>1, <2>1, <2>2, <2>3
<1>3. UNCHANGED <<staging, queue, job, stage, committed>>
  BY <1>0 DEF rest, fileVars, pipeVars
<1>4. Hands'
  BY <1>0, <1>3, HandsFree DEF Hands, Copying
<1>5. Listed' /\ Staged' /\ Shown'
  BY <1>0, <1>2, <1>3 DEF Kept, Listed, Staged, Between, SameFiles, Shown, Gates, Copying, Closing
<1>6. Cleaner'
  BY <1>0, <1>3 DEF Kept, Cleaner, Gates
<1>7. QED
  BY <1>0, <1>2, <1>4, <1>5, <1>6, RunTurns

\* Stranded files are expected as they lie on the card.
LEMMA RescueKeeps == Kept /\ _rescue_partials => Kept'
<1> SUFFICES ASSUME Kept, _rescue_partials PROVE Kept'
  OBVIOUS
<1>0. /\ UNCHANGED <<rest, cleaning>> /\ run.pc = "rescue" /\ run \in Run
      /\ run.pc # "off" /\ cleaning' \in BOOLEAN /\ spent \subseteq spent'
      /\ card \in [Slots -> Stored]
  BY DEF _rescue_partials, At, Kept, RunTyped, TypeOK
<1> DEFINE inv == [s \in Slots |-> IF s \in Orphans THEN card[s] ELSE run.inv[s]]
           expected == [s \in Slots |-> IF s \in Orphans THEN card[s] ELSE run.expected[s]]
<1>1. \/ Raises
      \/ run' = [run EXCEPT !.pc = "total"]
      \/ run' = [run EXCEPT !.pc = "move", !.phase = "rescue", !.todo = Orphans,
                   !.recovered = FALSE, !.inv = inv, !.expected = expected]
  BY DEF _rescue_partials, Raises, MayRescue
<1>2. CASE Raises
  BY <1>0, <1>2, RaiseKeeps
<1>3. UNCHANGED <<card, open, used, library, removed, staging, queue, job, stage, committed, cleaning>>
  BY <1>0 DEF rest, unitVars, fileVars, pipeVars
<1>4. ~ cleaning
  BY <1>0 DEF Kept, Cleaner, Gates
<1>5. Hands' /\ job = Nowhere /\ queue = <<>> /\ stage = "free"
  BY <1>0, <1>3, HandsFree DEF Hands, Copying
<1>6. CASE run' = [run EXCEPT !.pc = "total"]
  <2>1. /\ run' \in Run /\ run'.pc = "total" /\ SameFiles
        /\ run'.phase = run.phase /\ run'.got = run.got
    BY <1>0, <1>6 DEF Run, SameFiles, Places
  <2>2. Listed' /\ Staged' /\ Shown' /\ Cleaner'
    BY <1>3, <1>4, <2>1 DEF Listed, Staged, Between, Shown, Cleaner, Gates, Copying, Closing
  <2>3. QED
    BY <1>0, <1>5, <2>1, <2>2, RunTurns
<1>7. CASE run' = [run EXCEPT !.pc = "move", !.phase = "rescue", !.todo = Orphans,
                     !.recovered = FALSE, !.inv = inv, !.expected = expected]
  <2>1. /\ inv \in [Slots -> Stored] /\ expected \in [Slots -> Stored]
        /\ \A s \in Slots : inv[s] = IF s \in Orphans THEN card[s] ELSE run.inv[s]
        /\ \A s \in Slots : expected[s] = IF s \in Orphans THEN card[s] ELSE run.expected[s]
    BY <1>0 DEF Run, Stored
  <2>2. Orphans \subseteq Slots /\ \A s \in Orphans : card[s] # 0
    BY DEF Orphans
  <2> HIDE DEF inv, expected
  <2>3. /\ run' \in Run /\ run'.pc = "move" /\ run'.inv = inv /\ run'.got = run.got
        /\ run'.expected = expected /\ run'.listed = run.listed /\ run'.todo = Orphans
        /\ run'.backlog = run.backlog /\ run'.phase = "rescue"
    BY <1>0, <1>7, <2>1, <2>2 DEF Run, Places, Copying
  <2>4. Listed'
    BY <2>1, <2>2, <2>3 DEF Listed, Gates, Copying
  <2>5. /\ \A s \in Slots : staging[s] # 0 => expected[s] # 0
        /\ \A s \in Slots : s \in committed \/ staging[s] = 0
    BY <1>0, <2>1, <2>2 DEF Kept, Staged, Between
  <2>6. Staged' /\ Shown' /\ Cleaner'
    BY <1>3, <1>4, <2>3, <2>5 DEF Staged, Between, Shown, Cleaner, Gates, Copying, Closing
  <2>7. Distinct'
    <3>1. \A s \in Slots : Remembered(s)' \subseteq Remembered(s) \cup {card[s]}
      BY <2>1, <2>3 DEF Remembered
    <3>2. \A s \in Slots : card[s] \in used \cup {0} /\ Remembered(s)' \subseteq used \cup {0}
      BY <3>1 DEF Kept, Distinct
    <3>3. \A s \in open : \A t \in Slots : t # s => card[s] # card[t] /\ card[s] \notin Remembered(t)'
      BY <3>1 DEF Kept, Distinct
    <3>4. QED
      BY <1>3, <3>2, <3>3 DEF Kept, Distinct
  <2>8. Promised'
    BY <1>3, <2>1, <2>3 DEF Kept, Promised
  <2>9. Arrivals'
    <3>1. \A s \in Slots : ~ Due(s)'
      BY <1>3, <1>5, <2>3, Basics DEF Due
    <3>2. QED
      BY <1>3, <1>5, <2>3, <2>5, <3>1, Basics DEF Arrivals, Arrived
  <2>10. QED
    BY <1>0, <1>5, <2>3, <2>4, <2>6, <2>7, <2>8, <2>9, RunMoves
<1>8. QED
  BY <1>1, <1>2, <1>6, <1>7

\* The body of a run sums itself up.
LEMMA TotalKeeps == Kept /\ Total => Kept'
<1> SUFFICES ASSUME Kept, Total PROVE Kept'
  OBVIOUS
<1>1. /\ UNCHANGED <<rest, cleaning>> /\ run.pc = "total" /\ spent \subseteq spent'
  BY DEF Total, At
<1>2. \E r \in Final : Ends(r) /\ (r \in Empty => committed = {})
  BY DEF Total, Final, Empty
<1>3. QED
  BY <1>1, <1>2, EndKeeps

\* The radios are returned.
LEMMA SettleKeeps == Kept /\ Settle => Kept'
<1> SUFFICES ASSUME Kept, Settle PROVE Kept'
  OBVIOUS
<1>0. /\ UNCHANGED <<rest, cleaning>> /\ run.pc = "settle" /\ run \in Run
      /\ run.pc # "off" /\ cleaning' \in BOOLEAN /\ spent \subseteq spent'
  BY Spending DEF Settle, At, Kept, RunTyped, TypeOK
<1>1. PICK lost \in BOOLEAN :
        run' = [run EXCEPT !.lease = "none", !.owed = lost,
                  !.pc = IF run.interrupted THEN "salvage" ELSE "join",
                  !.result = IF lost /\ @ = "ok" THEN "partial"
                             ELSE IF lost /\ status.reason = "window" /\ ~ run.interrupted
                             THEN IF committed # {} THEN "partial" ELSE "error"
                             ELSE @]
  <2>1. PICK restored \in BOOLEAN :
          LET lost == ~ restored /\ run.lease # "none" IN
          run' = [run EXCEPT !.lease = "none", !.owed = lost,
                  !.pc = IF run.interrupted THEN "salvage" ELSE "join",
                  !.result = IF lost /\ @ = "ok" THEN "partial"
                             ELSE IF lost /\ status.reason = "window" /\ ~ run.interrupted
                             THEN IF committed # {} THEN "partial" ELSE "error"
                             ELSE @]
    BY DEF Settle
  <2>2. (~ restored /\ run.lease # "none") \in BOOLEAN
    OBVIOUS
  <2>3. QED
    BY <2>1, <2>2
<1> DEFINE pc == IF run.interrupted THEN "salvage" ELSE "join"
           result == IF lost /\ run.result = "ok" THEN "partial"
                     ELSE IF lost /\ status.reason = "window" /\ ~ run.interrupted
                     THEN IF committed # {} THEN "partial" ELSE "error"
                     ELSE run.result
<1>2. run' = [run EXCEPT !.lease = "none", !.owed = lost, !.pc = pc, !.result = result]
  BY <1>1
<1>3. /\ pc \in {"salvage", "join"} /\ result \in Final
      /\ pc = "join" /\ result \in Empty => committed = {}
  <2>1. run.interrupted \/ run.result \notin Empty \/ committed = {}
    BY <1>0 DEF Kept, Shown, Closing
  <2>2. run.result \in Final
    BY <1>0 DEF Run
  <2>3. QED
    BY <2>1, <2>2 DEF Final, Empty
<1> HIDE DEF pc, result
<1>4. /\ run' \in Run /\ run'.pc = pc /\ SameFiles /\ run'.phase = run.phase
      /\ run'.got = run.got /\ run'.result = result
  BY <1>0, <1>2, <1>3 DEF Run, SameFiles, Places, Closing
<1>5. UNCHANGED <<staging, queue, job, stage, committed>>
  BY <1>0 DEF rest, fileVars, pipeVars
<1>6. Hands'
  BY <1>0, <1>5, HandsFree DEF Hands, Copying
<1>7. Listed' /\ Staged' /\ Shown'
  BY <1>3, <1>4, <1>5 DEF Listed, Staged, Between, Shown, Gates, Copying, Closing
<1>8. Cleaner'
  BY <1>0, <1>3, <1>4 DEF Kept, Cleaner
<1>9. QED
  BY <1>0, <1>3, <1>4, <1>6, <1>7, <1>8, RunTurns

\* The cleaning thread is awaited.
LEMMA JoinKeeps == Kept /\ _join_staging_cleanup => Kept'
<1> SUFFICES ASSUME Kept, _join_staging_cleanup PROVE Kept'
  OBVIOUS
<1>0. /\ UNCHANGED <<rest, cleaning>> /\ run.pc = "join" /\ run \in Run /\ ~ cleaning
      /\ run.pc # "off" /\ cleaning' \in BOOLEAN /\ spent \subseteq spent'
  BY DEF _join_staging_cleanup, At, Kept, RunTyped, TypeOK
<1>1. PICK p \in {"twins", "finish"} : run' = [run EXCEPT !.pc = p]
  BY DEF _join_staging_cleanup
<1>2. /\ run' \in Run /\ run'.pc = p /\ SameFiles /\ run'.phase = run.phase
      /\ run'.got = run.got /\ run'.result = run.result
  BY <1>0, <1>1 DEF Run, SameFiles, Places, Closing
<1>3. UNCHANGED <<staging, queue, job, stage, committed, cleaning>>
  BY <1>0 DEF rest, fileVars, pipeVars
<1>4. Hands'
  BY <1>0, <1>3, HandsFree DEF Hands, Copying
<1>5. Listed' /\ Staged' /\ Cleaner'
  BY <1>0, <1>2, <1>3 DEF Listed, Staged, Between, Cleaner, Gates, Copying
<1>6. Shown'
  BY <1>0, <1>2, <1>3 DEF Kept, Shown, Gates, Closing
<1>7. QED
  BY <1>0, <1>2, <1>4, <1>5, <1>6, RunTurns

-----------------------------------------------------------------------------
(* The stream and the committer.                                           *)

\* What no step of the committer touches.
LEMMA Untouched ==
  ASSUME Kept, UNCHANGED <<card, open, used, status, poll, hist>>, spent \subseteq spent',
         run' \in Run, SameFiles, run.pc # "off", run'.pc # "off"
  PROVE  RunTyped' /\ ControlTyped' /\ Distinct' /\ Visits' /\ StopKept'
<1>1. RunTyped' /\ ControlTyped' /\ Visits' /\ StopKept'
  BY DEF Kept, RunTyped, ControlTyped, Visits, Paid, StopKept
<1>2. \A s : Remembered(s)' = Remembered(s)
  BY DEF SameFiles, Remembered
<1>3. Distinct'
  BY <1>2 DEF Kept, Distinct
<1>4. QED
  BY <1>1, <1>3

\* A chunk arrives, whole, torn or not at all.
LEMMA ReceiveKeeps == Kept /\ receive => Kept'
<1> SUFFICES ASSUME Kept, receive PROVE Kept'
  OBVIOUS
<1> DEFINE s == run.cur
<1>0. /\ run.pc = "stream" /\ run \in Run /\ run.pc # "off" /\ s \in Slots
      /\ run.cur = s /\ run.expected[s] # 0 /\ ~ cleaning
      /\ card \in [Slots -> Stored] /\ staging \in [Slots -> Stored \cup {Torn}]
  BY DEF receive, At, Kept, RunTyped, TypeOK, Listed, Cleaner, Gates
<1>1. /\ UNCHANGED <<card, open, young, used, car, library, disk, preserved, removed, cleaning,
                     queue, job, stage, failed, committed, status, poll, hist, erased>>
      /\ spent \subseteq spent'
  BY Spending DEF receive, unitVars, pipeVars, ctlVars
<1>2. PICK arrival \in Stored \cup {Torn}, whole \in BOOLEAN, retryable \in BOOLEAN :
        /\ Received(arrival, whole, retryable)
        /\ arrival \in {Torn, card[s]} \/ (arrival = staging[s] /\ card[s] # run.expected[s])
  <2>1. \/ Received(Torn, FALSE, FALSE) \/ Received(Torn, FALSE, TRUE)
        \/ CASE card[s] = 0 -> Received(staging[s], FALSE, TRUE)
             [] card[s] # 0 /\ Size(card[s]) # Size(run.expected[s]) ->
                  Received(staging[s], FALSE, FALSE)
             [] OTHER -> Received(card[s], TRUE, FALSE)
    BY DEF receive
  <2>2. /\ card[s] = 0 \/ Size(card[s]) # Size(run.expected[s]) => card[s] # run.expected[s]
        /\ {Torn, card[s], staging[s]} \subseteq Stored \cup {Torn}
    BY <1>0
  <2>3. \/ Received(Torn, FALSE, FALSE) \/ Received(Torn, FALSE, TRUE)
        \/ card[s] = 0 /\ Received(staging[s], FALSE, TRUE)
        \/ Size(card[s]) # Size(run.expected[s]) /\ Received(staging[s], FALSE, FALSE)
        \/ Received(card[s], TRUE, FALSE)
    <3>1. CASE card[s] = 0
      BY <2>1, <3>1
    <3>2. CASE card[s] # 0 /\ Size(card[s]) # Size(run.expected[s])
      BY <2>1, <3>2
    <3>3. CASE card[s] # 0 /\ Size(card[s]) = Size(run.expected[s])
      BY <2>1, <3>3
    <3>4. QED
      BY <3>1, <3>2, <3>3
  <2>4. CASE Received(Torn, FALSE, FALSE) \/ Received(Torn, FALSE, TRUE)
    BY <2>2, <2>4
  <2>5. CASE card[s] = 0 /\ Received(staging[s], FALSE, TRUE)
    BY <2>2, <2>5
  <2>6. CASE Size(card[s]) # Size(run.expected[s]) /\ Received(staging[s], FALSE, FALSE)
    BY <2>2, <2>6
  <2>7. CASE Received(card[s], TRUE, FALSE)
    BY <2>2, <2>7
  <2>8. QED
    BY <2>3, <2>4, <2>5, <2>6, <2>7
<1>3. /\ staging' = [staging EXCEPT ![s] = arrival] /\ arrival \in Stored \cup {Torn}
  BY <1>2 DEF Received
<1>4. /\ staging' \in [Slots -> Stored \cup {Torn}] /\ staging'[s] = arrival
      /\ \A t \in Slots : t # s => staging'[t] = staging[t]
  BY <1>0, <1>3
<1>5. /\ run' \in Run /\ run'.pc \in {"discard", "submit", "move"} /\ SameFiles
      /\ run'.todo \subseteq run.todo /\ run'.phase = run.phase /\ run'.cur = s
      /\ run'.pc = "discard" => run'.interrupted
  <2>1. CASE Raises
    BY <1>0, <2>1 DEF Raises, Run, SameFiles, Places, Final
  <2>2. CASE run' = [run EXCEPT !.pc = "submit", !.todo = @ \ {s}, !.got = @ \cup {s}]
    <3>1. PICK todo \in SUBSET Slots, got \in SUBSET Slots :
            todo = run.todo \ {s} /\ got = run.got \cup {s}
      BY <1>0 DEF Run
    <3>2. run' = [run EXCEPT !.pc = "submit", !.todo = todo, !.got = got]
      BY <2>2, <3>1
    <3>3. QED
      BY <1>0, <3>1, <3>2 DEF Run, SameFiles, Places, Copying
  <2>3. CASE run' = [run EXCEPT !.pc = "move", !.recovered = TRUE]
    BY <1>0, <2>3 DEF Run, SameFiles, Places, Copying
  <2>4. CASE run' = [run EXCEPT !.pc = "submit", !.todo = {},
                       !.complete = @ /\ run.phase = "rescue"]
    <3>1. PICK c \in BOOLEAN : c = (run.complete /\ run.phase = "rescue")
      OBVIOUS
    <3>2. run' = [run EXCEPT !.pc = "submit", !.todo = {}, !.complete = c]
      BY <2>4, <3>1
    <3>3. QED
      BY <1>0, <3>2 DEF Run, SameFiles, Places, Copying
  <2>5. QED
    BY <1>2, <2>1, <2>2, <2>3, <2>4 DEF Received
<1> HIDE DEF s
<1>6. TypeOK'
  BY <1>1, <1>4 DEF Kept, TypeOK
<1>7. RunTyped' /\ ControlTyped' /\ Distinct' /\ Visits' /\ StopKept'
  BY <1>0, <1>1, <1>5, Untouched
<1>8. Hands' /\ Shown'
  BY <1>0, <1>1, <1>5 DEF Kept, Hands, Shown, Gates, Copying, Closing
<1>9. Listed'
  BY <1>0, <1>5 DEF Kept, Listed, SameFiles, Gates, Copying
<1>10. Staged'
  BY <1>0, <1>4, <1>5 DEF Kept, Staged, Between, SameFiles, Gates, Copying
<1>11. Filed' /\ Promised' /\ Cleaner'
  BY <1>0, <1>1, <1>5 DEF Kept, Filed, Moved, Promised, Cleaner, SameFiles
<1>12. Arrivals'
  <2>1. \A t \in Slots : t # s => (Arrived(t)' = Arrived(t)) /\ (Due(t)' => Due(t))
    BY <1>0, <1>1, <1>4, <1>5 DEF Arrived, Due, SameFiles
  <2>2. staging'[s] \in {0, Torn, run'.expected[s]} \/ card'[s] # run'.expected[s]
    <3>1. staging'[s] = Torn \/ staging'[s] = card[s] \/ card[s] # run.expected[s]
      BY <1>2, <1>4
    <3>2. QED
      BY <1>1, <1>5, <3>1 DEF SameFiles
  <2>3. SUFFICES ASSUME NEW t \in Slots
                 PROVE  /\ Due(t)' \/ job' = t => run'.expected[t] # 0
                        /\ Due(t)' \/ (t \notin committed' /\ run'.expected[t] # 0) => Arrived(t)'
    BY DEF Arrivals
  <2>4. CASE t = s
    BY <1>0, <1>5, <2>2, <2>4 DEF Arrived, SameFiles
  <2>5. CASE t # s
    BY <1>1, <1>5, <2>1, <2>5 DEF Kept, Arrivals, SameFiles
  <2>6. QED
    BY <2>4, <2>5
<1>13. QED
  BY <1>6, <1>7, <1>8, <1>9, <1>10, <1>11, <1>12 DEF Kept

\* A chunk is handed to the committer.
LEMMA SubmitKeeps == Kept /\ submit => Kept'
<1> SUFFICES ASSUME Kept, submit PROVE Kept'
  OBVIOUS
<1>0. /\ run.pc = "submit" /\ run \in Run /\ run.pc # "off" /\ ~ cleaning
      /\ queue \in Seq(Slots) /\ Len(queue) <= Depth /\ Depth \in Nat
  BY NumbersAssumption DEF submit, At, Kept, RunTyped, TypeOK, Cleaner, Gates
<1>1. /\ UNCHANGED <<unitVars, fileVars, cleaning, job, stage, failed, committed, ctlVars, erased, spent>>
      /\ UNCHANGED <<card, open, young, used, car, library, disk, staging, preserved, removed,
                     status, poll, hist>>
  BY DEF submit, unitVars, fileVars, ctlVars
<1>2. CASE failed
  <2>1. Raises /\ UNCHANGED queue
    BY <1>2 DEF submit
  <2>2. UNCHANGED <<rest, cleaning>>
    BY <1>1, <2>1 DEF rest, pipeVars
  <2>3. QED
    BY <1>0, <1>1, <2>1, <2>2, RaiseKeeps
<1>3. CASE ~ failed
  <2>1. /\ run.cur # Nowhere => Len(queue) < Depth
        /\ queue' = IF run.cur = Nowhere THEN queue ELSE Append(queue, run.cur)
        /\ \E p \in {"close", "move"} : run' = [run EXCEPT !.cur = Nowhere, !.pc = p]
    BY <1>3 DEF submit
  <2>2. /\ run' \in Run /\ run'.pc \in {"close", "move"} /\ SameFiles
        /\ run'.todo = run.todo /\ run'.phase = run.phase
    BY <1>0, <2>1 DEF Run, SameFiles, Places, Copying
  <2>3. /\ queue' \in Seq(Slots) /\ Len(queue') <= Depth
        /\ \A i \in DOMAIN queue' :
             (i \in DOMAIN queue /\ queue'[i] = queue[i]) \/ queue'[i] = run.cur
    <3>1. CASE run.cur = Nowhere
      BY <1>0, <2>1, <3>1
    <3>2. CASE run.cur # Nowhere
      <4>1. run.cur \in Slots
        BY <1>0, <3>2 DEF Run
      <4>2. queue' = Append(queue, run.cur) /\ Len(queue) < Depth
        BY <2>1, <3>2
      <4>3. QED
        BY <1>0, <4>1, <4>2
    <3>3. QED
      BY <3>1, <3>2
  <2>4. TypeOK'
    BY <1>1, <2>3 DEF Kept, TypeOK
  <2>5. RunTyped' /\ ControlTyped' /\ Distinct' /\ Visits' /\ StopKept'
    BY <1>0, <1>1, <2>2, Untouched
  <2>6. Hands' /\ Shown'
    BY <1>0, <1>1, <2>2 DEF Kept, Hands, Shown, Gates, Copying, Closing
  <2>7. Listed' /\ Staged'
    BY <1>0, <1>1, <2>2 DEF Kept, Listed, Staged, Between, SameFiles, Gates, Copying
  <2>8. Filed' /\ Promised' /\ Cleaner'
    BY <1>0, <1>1, <2>2 DEF Kept, Filed, Moved, Promised, Cleaner, SameFiles
  <2>9. Arrivals'
    <3>1. \A t \in Slots : Due(t)' => Due(t)
      BY <1>0, <1>1, <2>2, <2>3 DEF Due
    <3>2. \A t \in Slots : Arrived(t)' = Arrived(t)
      BY <1>1, <2>2 DEF Arrived, SameFiles
    <3>3. QED
      BY <1>1, <2>2, <3>1, <3>2 DEF Kept, Arrivals, SameFiles
  <2>10. QED
    BY <2>4, <2>5, <2>6, <2>7, <2>8, <2>9 DEF Kept
<1>4. QED
  BY <1>2, <1>3

\* What was queued is dropped.
LEMMA DiscardKeeps == Kept /\ Discard => Kept'
<1> SUFFICES ASSUME Kept, Discard PROVE Kept'
  OBVIOUS
<1>0. /\ run.pc = "discard" /\ run \in Run /\ run.interrupted /\ job = Nowhere
      /\ stage = "free" /\ queue' = <<>> /\ run' = [run EXCEPT !.pc = "settle"]
      /\ UNCHANGED <<job, stage, failed, committed, unitVars, fileVars, cleaning, ctlVars, erased, spent>>
  BY DEF Discard, At, Kept, RunTyped, Shown, Hands
<1>1. UNCHANGED <<card, open, young, used, car, library, disk, staging, preserved, removed,
                  status, poll, hist>>
  BY <1>0 DEF unitVars, fileVars, ctlVars
<1>2. /\ run' \in Run /\ run'.pc = "settle" /\ SameFiles /\ run'.interrupted
      /\ run'.phase = run.phase /\ run'.got = run.got
  BY <1>0 DEF Run, SameFiles, Places, Closing
<1>3. TypeOK'
  <2>1. queue' \in Seq(Slots) /\ Len(queue') <= Depth
    BY <1>0, NumbersAssumption
  <2>2. QED
    BY <1>0, <1>1, <2>1 DEF Kept, TypeOK
<1>4. RunTyped' /\ ControlTyped' /\ Distinct' /\ Visits' /\ StopKept'
  BY <1>0, <1>1, <1>2, Untouched
<1>5. Hands' /\ Listed' /\ Staged' /\ Shown' /\ Filed'
  BY <1>0, <1>2 DEF Hands, Listed, Staged, Between, Shown, Filed, Gates, Copying
<1>6. Promised' /\ Cleaner'
  BY <1>0, <1>1, <1>2 DEF Kept, Promised, Cleaner, SameFiles
<1>7. Arrivals'
  <2>1. \A t \in Slots : ~ Due(t)' /\ job' # t /\ (Arrived(t)' = Arrived(t))
    BY <1>0, <1>1, <1>2, Basics DEF Due, Arrived, SameFiles
  <2>2. QED
    BY <1>0, <1>2, <2>1 DEF Kept, Arrivals, SameFiles
<1>8. QED
  BY <1>3, <1>4, <1>5, <1>6, <1>7 DEF Kept

\* The committer is given an arrival that nobody has committed.
LEMMA TakesLeftover ==
  ASSUME Kept, NEW s \in Slots, run.pc \in {"second", "salvage"}, job = Nowhere,
         run.expected[s] # 0, s \notin committed, job' = s, stage' = "check",
         UNCHANGED <<unitVars, fileVars, cleaning, run, queue, failed, committed, ctlVars, erased, spent>>
  PROVE  Kept'
<1>1. UNCHANGED <<card, open, young, used, car, library, disk, staging, preserved, removed,
                  status, poll, hist>>
  BY DEF unitVars, fileVars, ctlVars
<1>2. TypeOK'
  BY <1>1 DEF Kept, TypeOK
<1>3. RunTyped' /\ ControlTyped' /\ Distinct' /\ Visits' /\ StopKept'
  BY <1>1, Untouched DEF Kept, RunTyped, SameFiles
<1>4. Hands'
  BY Basics DEF Kept, Hands
<1>5. Listed' /\ Staged' /\ Shown' /\ Filed' /\ Promised' /\ Cleaner'
  BY <1>1 DEF Kept, Listed, Staged, Between, Shown, Filed, Promised, Cleaner
<1>6. Arrivals'
  <2>1. \A t \in Slots : (Due(t)' => Due(t) \/ t = s) /\ (Arrived(t)' = Arrived(t))
    BY <1>1 DEF Due, Arrived
  <2>2. Arrived(s)
    BY DEF Kept, Arrivals
  <2>3. QED
    BY <2>1, <2>2 DEF Kept, Arrivals
<1>7. QED
  BY <1>2, <1>3, <1>4, <1>5, <1>6 DEF Kept

\* The second pass over staging.
LEMMA SecondPassKeeps == Kept /\ SecondPass => Kept'
<1> SUFFICES ASSUME Kept, SecondPass PROVE Kept'
  OBVIOUS
<1>0. /\ run.pc = "second" /\ run \in Run /\ job = Nowhere
      /\ UNCHANGED <<unitVars, fileVars, cleaning, queue, failed, committed, ctlVars, erased, spent>>
  BY DEF SecondPass, At, Kept, RunTyped
<1>1. ASSUME NEW s \in Leftover(Slots), job' = s, stage' = "check", UNCHANGED run
      PROVE  Kept'
  BY <1>0, <1>1, TakesLeftover DEF Leftover
<1>2. ASSUME Leftover(Slots) = {}, UNCHANGED <<job, stage>>,
             run' = [run EXCEPT !.pc = IF run.phase = "rescue" THEN "total" ELSE "sweep"]
      PROVE  Kept'
  <2>1. /\ run' \in Run /\ run'.pc \in {"total", "sweep"} /\ SameFiles
        /\ run'.phase = run.phase /\ run'.got = run.got
    BY <1>0, <1>2 DEF Run, SameFiles, Places
  <2>2. UNCHANGED rest
    BY <1>0, <1>2 DEF rest, pipeVars
  <2>3. queue = <<>> /\ UNCHANGED <<queue, job, stage, staging, committed>>
    BY <1>0, <2>2 DEF Kept, Hands, Copying, rest, pipeVars, fileVars
  <2>4. Hands'
    BY <1>0, <2>3 DEF Kept, Hands
  <2>5. Listed' /\ Shown'
    BY <2>1 DEF Listed, Shown, Gates, Copying, Closing
  <2>6. Staged'
    BY <1>0, <1>2, <2>1, <2>3 DEF Kept, Staged, Between, SameFiles, Leftover, Gates, Copying
  <2>7. Cleaner'
    BY <1>0 DEF Kept, Cleaner, Gates
  <2>8. cleaning' \in BOOLEAN
    BY <1>0 DEF Kept, TypeOK
  <2>9. QED
    BY <1>0, <2>1, <2>2, <2>4, <2>5, <2>6, <2>7, <2>8, RunTurns
<1>3. QED
  BY <1>1, <1>2 DEF SecondPass

\* After an exception, complete arrivals are committed still.
LEMMA SalvageKeeps == Kept /\ Salvage => Kept'
<1> SUFFICES ASSUME Kept, Salvage PROVE Kept'
  OBVIOUS
<1>0. /\ run.pc = "salvage" /\ run \in Run /\ job = Nowhere
      /\ UNCHANGED <<unitVars, fileVars, cleaning, queue, failed, committed, ctlVars, erased, spent>>
  BY DEF Salvage, At, Kept, RunTyped
<1>1. ASSUME NEW s \in Leftover(Video), job' = s, stage' = "check", UNCHANGED run
      PROVE  Kept'
  BY <1>0, <1>1, TakesLeftover, Basics DEF Leftover
<1>2. ASSUME UNCHANGED <<job, stage>>,
             run' = [run EXCEPT !.pc = "join",
                        !.result = IF committed # {} THEN "partial" ELSE "error"]
      PROVE  Kept'
  <2>1. PICK r \in {"partial", "error"} : r = IF committed # {} THEN "partial" ELSE "error"
    OBVIOUS
  <2>2. /\ run' \in Run /\ run'.pc = "join" /\ SameFiles /\ run'.result = r
        /\ run'.phase = run.phase /\ run'.got = run.got
    BY <1>0, <1>2, <2>1 DEF Run, SameFiles, Places, Closing, Final
  <2>3. UNCHANGED rest
    BY <1>0, <1>2 DEF rest, pipeVars
  <2>4. queue = <<>> /\ UNCHANGED <<queue, job, stage, staging, committed>>
    BY <1>0, <2>3 DEF Kept, Hands, Copying, rest, pipeVars, fileVars
  <2>5. Hands'
    BY <1>0, <2>4 DEF Kept, Hands
  <2>6. Listed' /\ Shown' /\ Staged'
    BY <2>1, <2>2, <2>4 DEF Listed, Shown, Staged, Between, Gates, Copying, Empty
  <2>7. Cleaner'
    BY <1>0, <2>2 DEF Kept, Cleaner, Gates
  <2>8. cleaning' \in BOOLEAN
    BY <1>0 DEF Kept, TypeOK
  <2>9. QED
    BY <1>0, <2>2, <2>3, <2>5, <2>6, <2>7, <2>8, RunTurns
<1>3. QED
  BY <1>1, <1>2 DEF Salvage

\* The committer takes the next chunk, or drops it.
LEMMA DrainKeeps == Kept /\ Drain => Kept'
<1> SUFFICES ASSUME Kept, Drain PROVE Kept'
  OBVIOUS
<1>0. /\ job = Nowhere /\ queue # <<>> /\ queue \in Seq(Slots) /\ Len(queue) <= Depth
      /\ queue' = Tail(queue) /\ run \in Run /\ stage = "free" /\ run.pc \in Copying
      /\ UNCHANGED <<unitVars, fileVars, cleaning, run, failed, committed, ctlVars, erased, spent>>
      /\ UNCHANGED <<job, stage>> \/ (job' = Head(queue) /\ stage' = "check")
  BY DEF Drain, At, Kept, TypeOK, RunTyped, Hands
<1>1. UNCHANGED <<card, open, young, used, car, library, disk, staging, preserved, removed,
                  status, poll, hist>>
  BY <1>0 DEF unitVars, fileVars, ctlVars
<1>2. /\ queue' \in Seq(Slots) /\ Len(queue') <= Depth /\ Head(queue) \in Slots
      /\ 1 \in DOMAIN queue /\ queue[1] = Head(queue)
      /\ \A i \in DOMAIN queue' : i + 1 \in DOMAIN queue /\ queue'[i] = queue[i + 1]
  BY <1>0, NumbersAssumption
<1>3. TypeOK'
  BY <1>0, <1>1, <1>2 DEF Kept, TypeOK
<1>4. RunTyped' /\ ControlTyped' /\ Distinct' /\ Visits' /\ StopKept'
  <2>1. run.pc # "off"
    BY <1>0 DEF Copying
  <2>2. QED
    BY <1>0, <1>1, <2>1, Untouched DEF SameFiles
<1>5. Hands' /\ Filed'
  BY <1>0, <1>2, Basics DEF Hands, Filed
<1>6. Listed' /\ Staged' /\ Shown' /\ Promised' /\ Cleaner'
  BY <1>0, <1>1 DEF Kept, Listed, Staged, Between, Shown, Promised, Cleaner
<1>7. Arrivals'
  <2>1. \A t \in Slots : (Arrived(t)' = Arrived(t)) /\ (Due(t)' \/ job' = t => Due(t))
    BY <1>0, <1>1, <1>2, Basics DEF Due, Arrived
  <2>2. QED
    BY <1>0, <2>1 DEF Kept, Arrivals
<1>8. QED
  BY <1>3, <1>4, <1>5, <1>6, <1>7 DEF Kept

\* The thread that empties the staging directory.
LEMMA CleanKeeps == Kept /\ Clean => Kept'
<1> SUFFICES ASSUME Kept, Clean PROVE Kept'
  OBVIOUS
<1>0. /\ cleaning /\ run \in Run /\ run.pc # "off" /\ staging \in [Slots -> Stored \cup {Torn}]
      /\ UNCHANGED <<unitVars, library, disk, preserved, removed, run, pipeVars, ctlVars, erased, spent>>
      /\ cleaning' \in BOOLEAN
      /\ ~ cleaning' => staging = NoFiles /\ UNCHANGED staging
      /\ UNCHANGED staging \/ \E s \in Slots : staging' = [staging EXCEPT ![s] = 0]
  BY DEF Clean, Kept, TypeOK, RunTyped, Cleaner, Gates
<1>1. UNCHANGED <<card, open, young, used, car, queue, job, stage, failed, committed, status, poll, hist>>
  BY <1>0 DEF unitVars, pipeVars, ctlVars
<1>2. /\ staging' \in [Slots -> Stored \cup {Torn}]
      /\ \A s \in Slots : staging'[s] = staging[s] \/ staging'[s] = 0
  BY <1>0 DEF Stored
<1>3. TypeOK'
  BY <1>0, <1>1, <1>2 DEF Kept, TypeOK
<1>4. RunTyped' /\ ControlTyped' /\ Distinct' /\ Visits' /\ StopKept'
  BY <1>0, <1>1, Untouched DEF SameFiles
<1>5. Hands' /\ Listed' /\ Shown' /\ Filed' /\ Promised' /\ Cleaner'
  BY <1>0, <1>1 DEF Kept, Hands, Listed, Shown, Filed, Moved, Promised, Cleaner
<1>6. Staged'
  BY <1>0, <1>1, <1>2 DEF Kept, Staged, Between
<1>7. Arrivals'
  <2>1. \A t \in Slots : (Arrived(t) => Arrived(t)') /\ (Due(t)' = Due(t))
    BY <1>0, <1>1, <1>2 DEF Due, Arrived
  <2>2. QED
    BY <1>0, <1>1, <2>1 DEF Kept, Arrivals
<1>8. QED
  BY <1>3, <1>4, <1>5, <1>6, <1>7 DEF Kept

\* An arrival is moved into the library, or found there.
LEMMA CommitKeeps == Kept /\ commit => Kept'
<1> SUFFICES ASSUME Kept, commit PROVE Kept'
  OBVIOUS
<1> DEFINE n == Target(job)
<1>0. /\ stage = "check" /\ job \in Slots /\ run \in Run
      /\ run.pc \in Copying \cup {"discard", "second", "salvage"}
      /\ staging \in [Slots -> Stored \cup {Torn}] /\ library \in [Names -> Stored]
      /\ UNCHANGED <<unitVars, disk, preserved, removed, cleaning, run, queue, failed, committed,
                     ctlVars, erased, spent>>
      /\ staging' = [staging EXCEPT ![job] = 0]
      /\ run.expected[job] # 0 /\ Arrived(job)
  <2>1. stage = "check" /\ job \in Slots
    BY DEF commit, Kept, Hands, TypeOK
  <2>2. Due(job)
    BY <2>1 DEF Due
  <2>3. QED
    BY <2>1, <2>2, Basics DEF commit, Kept, TypeOK, RunTyped, Hands, Arrivals
<1>1. UNCHANGED <<card, open, young, used, car, status, poll, hist>>
  BY <1>0 DEF unitVars, ctlVars
<1>2. /\ staging' \in [Slots -> Stored \cup {Torn}]
      /\ \A s \in Slots : staging'[s] = staging[s] \/ staging'[s] = 0
  BY <1>0 DEF Stored
<1>3. \/ /\ UNCHANGED library /\ stage' = "free" /\ job' = Nowhere
      \/ /\ UNCHANGED <<library, job>> /\ stage' = "sync" /\ Identical(job)
      \/ /\ library' = [library EXCEPT ![n] = staging[job]]
         /\ UNCHANGED job /\ stage' = "sync" /\ Publishes(job)
  BY DEF commit
<1>4. Publishes(job) => staging[job] \in Contents
  BY <1>0 DEF Publishes, Whole, Stored
<1>5. /\ library' \in [Names -> Stored] /\ n \in Names
      /\ stage' = "sync" => library'[n] = staging[job] /\ staging[job] # 0 /\ Whole(job)
      /\ \A m \in Names : Size(library'[m]) >= Size(library[m])
  <2>1. n \in Names
    BY <1>0, Basics
  <2>2. CASE UNCHANGED library
    <3>1. stage' = "sync" => Identical(job) \/ library' = [library EXCEPT ![n] = staging[job]]
      BY <1>3
    <3>2. Identical(job) => library[n] = staging[job] /\ staging[job] # 0 /\ Whole(job)
      BY DEF Identical
    <3>3. Publishes(job) => staging[job] # 0 /\ Whole(job)
      BY DEF Publishes
    <3>4. QED
      BY <1>0, <1>3, <2>1, <2>2, <3>2, <3>3, Sizes
  <2>3. CASE library' = [library EXCEPT ![n] = staging[job]] /\ Publishes(job)
    <3>1. staging[job] \in Contents /\ staging[job] # 0 /\ Whole(job)
      BY <1>4, <2>3, Basics DEF Publishes
    <3>2. Size(staging[job]) >= Size(library[n])
      BY <2>3, <3>1, Sizes DEF Publishes
    <3>3. /\ library' \in [Names -> Stored] /\ library'[n] = staging[job]
          /\ \A m \in Names : m # n => library'[m] = library[m]
      BY <1>0, <2>1, <2>3, <3>1 DEF Stored
    <3>4. QED
      BY <2>1, <3>1, <3>2, <3>3, Sizes
  <2>4. QED
    BY <1>3, <2>2, <2>3
<1> HIDE DEF n
<1>6. TypeOK'
  BY <1>0, <1>1, <1>2, <1>3, <1>5 DEF Kept, TypeOK
<1>7. RunTyped' /\ ControlTyped' /\ Distinct' /\ Visits' /\ StopKept'
  <2>1. run.pc # "off"
    BY <1>0 DEF Copying
  <2>2. QED
    BY <1>0, <1>1, <2>1, Untouched DEF SameFiles
<1>8. Hands' /\ Listed' /\ Shown' /\ Cleaner'
  BY <1>0, <1>3, Basics DEF Kept, Hands, Listed, Shown, Cleaner
<1>9. Staged'
  BY <1>0, <1>2 DEF Kept, Staged, Between, Gates, Copying
<1>10. Arrivals'
  <2>1. \A t \in Slots : (Arrived(t) => Arrived(t)') /\ (Due(t)' => Due(t)) /\ (job' = t => job = t)
    BY <1>0, <1>1, <1>2, <1>3, Basics DEF Due, Arrived
  <2>2. QED
    BY <1>0, <2>1 DEF Kept, Arrivals
<1>11. Promised'
  <2>1. \A t \in Slots : Size(library'[Target(t)]) >= Size(library[Target(t)])
    BY <1>5, Basics
  <2>2. \A t \in Slots : \A c : Size(library[Target(t)]) >= Size(c) => Size(library'[Target(t)]) >= Size(c)
    BY <2>1, Sizes
  <2>3. QED
    BY <1>0, <1>1, <2>2 DEF Kept, Promised
<1>12. Filed'
  <2>1. CASE stage' = "sync"
    <3>1. library'[n] = staging[job] /\ staging[job] # 0 /\ Whole(job) /\ job' = job
      BY <1>3, <1>5, <2>1
    <3>2. staging[job] = run.expected[job] \/ card[job] # run.expected[job]
      BY <1>0, <3>1 DEF Arrived, Whole
    <3>3. Size(library'[n]) >= Size(run.expected[job])
      BY <3>1, Sizes DEF Whole
    <3>4. QED
      BY <1>0, <1>1, <2>1, <3>1, <3>2, <3>3 DEF Filed, Moved, n
  <2>2. CASE stage' = "free"
    BY <2>2 DEF Filed
  <2>3. QED
    BY <1>3, <2>1, <2>2
<1>13. QED
  BY <1>6, <1>7, <1>8, <1>9, <1>10, <1>11, <1>12 DEF Kept

\* The directory entry is made durable, and only then is the name reported.
LEMMA SyncKeeps == Kept /\ _sync_directory => Kept'
<1> SUFFICES ASSUME Kept, _sync_directory PROVE Kept'
  OBVIOUS
<1>0. /\ stage = "sync" /\ job \in Slots /\ run \in Run
      /\ run.pc \in Copying \cup {"discard", "second", "salvage"}
      /\ disk \in [Names -> Stored] /\ library \in [Names -> Stored] /\ committed \subseteq Slots
      /\ UNCHANGED <<unitVars, library, staging, preserved, removed, cleaning, run, queue, failed,
                     ctlVars, erased>>
      /\ run.expected[job] # 0
  <2>1. stage = "sync" /\ job \in Slots
    BY DEF _sync_directory, Kept, Hands, TypeOK
  <2>2. QED
    BY <2>1, Basics DEF _sync_directory, Kept, TypeOK, RunTyped, Hands, Arrivals
<1>1. /\ UNCHANGED <<card, open, young, used, car, status, poll, hist>>
      /\ spent \subseteq spent'
  BY <1>0, Spending DEF _sync_directory, unitVars, ctlVars
<1>2. /\ \/ stage' = "free" /\ job' = Nowhere
         \/ stage' = "reclaim" /\ job' = job /\ disk' = [disk EXCEPT ![Target(job)] = library[Target(job)]]
      /\ \/ UNCHANGED <<disk, committed>>
         \/ /\ disk' = [disk EXCEPT ![Target(job)] = library[Target(job)]]
            /\ committed' = committed \cup {job}
  BY DEF _sync_directory
<1>3. /\ disk' \in [Names -> Stored]
      /\ stage' = "reclaim" => disk'[Target(job)] = library[Target(job)]
  BY <1>0, <1>2, Basics
<1>4. TypeOK'
  BY <1>0, <1>1, <1>2, <1>3 DEF Kept, TypeOK
<1>5. RunTyped' /\ ControlTyped' /\ Distinct' /\ Visits' /\ StopKept'
  <2>1. run.pc # "off"
    BY <1>0 DEF Copying
  <2>2. QED
    BY <1>0, <1>1, <2>1, Untouched DEF SameFiles
<1>6. Hands' /\ Listed' /\ Cleaner'
  BY <1>0, <1>2, Basics DEF Kept, Hands, Listed, Cleaner
<1>7. Shown'
  BY <1>0 DEF Kept, Shown, Gates, Copying, Closing
<1>8. Staged'
  BY <1>0, <1>2 DEF Kept, Staged, Between
<1>9. Arrivals'
  <2>1. \A t \in Slots : (Arrived(t)' = Arrived(t)) /\ (Due(t)' => Due(t)) /\ (job' = t => job = t)
    BY <1>0, <1>1, <1>2, Basics DEF Due, Arrived
  <2>2. QED
    BY <1>0, <1>2, <2>1 DEF Kept, Arrivals
<1>10. Filed'
  BY <1>0, <1>1, <1>2, <1>3 DEF Kept, Filed, Moved
<1>11. Promised'
  <2>1. Size(library[Target(job)]) >= Size(run.expected[job]) \/ Target(job) \in removed
    BY <1>0 DEF Kept, Filed
  <2>2. \A t \in committed' : t \in committed \/ t = job
    BY <1>2
  <2>3. SUFFICES ASSUME NEW s \in Slots, run.listed[s] # 0, card[s] = run.listed[s], s \in committed'
                 PROVE  Size(library[Target(s)]) >= Size(run.listed[s]) \/ Target(s) \in removed
    BY <1>0, <1>1 DEF Kept, Promised
  <2>4. CASE s \in committed
    BY <2>3, <2>4 DEF Kept, Promised
  <2>5. CASE s = job
    <3>1. run.expected[s] = run.listed[s]
      BY <1>0, <2>3, <2>5 DEF Kept, Promised
    <3>2. QED
      BY <2>1, <2>5, <3>1
  <2>6. QED
    BY <2>2, <2>3, <2>4, <2>5
<1>12. QED
  BY <1>4, <1>5, <1>6, <1>7, <1>8, <1>9, <1>10, <1>11 DEF Kept

\* What an erasure leaves of the card.
LEMMA Erases ==
  ASSUME Kept, NEW s \in Slots, SameFiles, card[s] # 0, Erase(s)
  PROVE  /\ Distinct' /\ NothingReturns /\ card' \in [Slots -> Stored]
         /\ open' \subseteq Slots /\ young' \subseteq Slots
         /\ erased' \subseteq [slot : Slots, content : Contents] /\ UNCHANGED <<used, car>>
<1>1. /\ card' = [card EXCEPT ![s] = 0] /\ open' = open \ {s} /\ young' = young \ {s}
      /\ erased' = erased \cup {[slot |-> s, content |-> card[s]]}
      /\ UNCHANGED <<used, car>>
  BY DEF Erase
<1>2. Distinct' /\ NothingReturns /\ card' \in [Slots -> Stored]
  BY <1>1, Clears
<1>3. card[s] \in Contents
  BY DEF Kept, TypeOK, Stored
<1>4. QED
  BY <1>1, <1>2, <1>3 DEF Kept, TypeOK

\* A committed file is erased on the card, or left there.
LEMMA ReclaimKeeps == Kept /\ _reclaim => Kept'
<1> SUFFICES ASSUME Kept, _reclaim PROVE Kept'
  OBVIOUS
<1>0. /\ stage = "reclaim" /\ job \in Slots /\ run \in Run
      /\ run.pc \in Copying \cup {"discard", "second", "salvage"}
      /\ stage' = "free" /\ job' = Nowhere
      /\ UNCHANGED <<fileVars, cleaning, run, queue, committed, ctlVars>>
  BY DEF _reclaim, Kept, TypeOK, RunTyped, Hands
<1>1. /\ failed' \in BOOLEAN /\ spent \subseteq spent'
      /\ (card[job] # 0 /\ Erase(job)) \/ UNCHANGED <<unitVars, erased>>
  BY Spending DEF _reclaim, Kept, TypeOK
<1>2. /\ UNCHANGED <<library, disk, staging, preserved, removed, status, poll, hist>>
      /\ SameFiles
  BY <1>0 DEF fileVars, ctlVars, SameFiles
<1>3. /\ Distinct' /\ NothingReturns /\ card' \in [Slots -> Stored] /\ UNCHANGED <<used, car>>
      /\ open' \subseteq Slots /\ young' \subseteq Slots
      /\ erased' \subseteq [slot : Slots, content : Contents]
  <2>1. CASE card[job] # 0 /\ Erase(job)
    BY <1>0, <1>2, <2>1, Erases
  <2>2. CASE UNCHANGED <<unitVars, erased>>
    BY <1>0, <2>2 DEF unitVars, Kept, TypeOK, Distinct, Remembered, NothingReturns
  <2>3. QED
    BY <1>1, <2>1, <2>2
<1>4. TypeOK'
  BY <1>0, <1>1, <1>2, <1>3 DEF Kept, TypeOK
<1>5. RunTyped' /\ ControlTyped' /\ Visits' /\ StopKept'
  BY <1>0, <1>1, <1>2 DEF Kept, RunTyped, ControlTyped, Visits, Paid, StopKept
<1>6. Hands' /\ Listed' /\ Cleaner' /\ Shown' /\ Staged'
  BY <1>0, <1>2 DEF Kept, Hands, Listed, Cleaner, Shown, Staged, Between
<1>7. Arrivals' /\ Filed' /\ Promised'
  BY <1>0, <1>2, <1>3, CardMoves DEF Kept
<1>8. QED
  BY <1>3, <1>4, <1>5, <1>6, <1>7 DEF Kept

-----------------------------------------------------------------------------
(* The cleanup of what the library already had.                            *)

\* A step of the cleanup.
LEMMA TwinMoves ==
  ASSUME Kept, run.pc \in {"twins", "hash", "unlink"}, run'.pc \in {"twins", "hash", "unlink", "finish"},
         run' \in Run, SameFiles, run'.phase = run.phase, run'.got = run.got,
         run'.result = run.result, run'.pc \in {"hash", "unlink"} => run'.cur \in Slots,
         UNCHANGED <<library, disk, staging, removed, cleaning, pipeVars, ctlVars>>,
         spent \subseteq spent', preserved' \in [Names -> Stored],
         Distinct', NothingReturns, card' \in [Slots -> Stored], UNCHANGED <<used, car>>,
         open' \subseteq Slots, young' \subseteq Slots,
         erased' \subseteq [slot : Slots, content : Contents]
  PROVE  Kept'
<1>1. UNCHANGED <<queue, job, stage, failed, committed, status, poll, hist>>
  BY DEF pipeVars, ctlVars
<1>2. queue = <<>> /\ job = Nowhere /\ stage = "free"
  BY HandsFree DEF Copying
<1>3. TypeOK'
  BY <1>1 DEF Kept, TypeOK
<1>4. RunTyped' /\ ControlTyped' /\ Visits' /\ StopKept'
  BY <1>1 DEF Kept, RunTyped, ControlTyped, Visits, Paid, StopKept
<1>5. Hands' /\ Listed' /\ Staged'
  BY <1>1, <1>2 DEF Hands, Listed, Staged, Between, Gates, Copying
<1>6. Shown'
  BY <1>1 DEF Kept, Shown, Gates, Closing
<1>7. Cleaner'
  BY DEF Kept, Cleaner, Gates
<1>8. Arrivals' /\ Filed' /\ Promised'
  BY <1>1, CardMoves DEF Kept
<1>9. QED
  BY <1>3, <1>4, <1>5, <1>6, <1>7, <1>8 DEF Kept

\* The three steps of it.
LEMMA TwinsKeep == Kept /\ (PrepareTwin \/ HashTwin \/ UnlinkTwin) => Kept'
<1> SUFFICES ASSUME Kept, PrepareTwin \/ HashTwin \/ UnlinkTwin PROVE Kept'
  OBVIOUS
<1>0. /\ run \in Run /\ library \in [Names -> Stored] /\ preserved \in [Names -> Stored]
      /\ run.pc \in {"twins", "hash", "unlink"} /\ run.twins \subseteq Slots
      /\ run.pc \in {"hash", "unlink"} => run.cur \in Slots
      /\ UNCHANGED <<library, disk, staging, removed, cleaning, pipeVars, ctlVars>>
  BY DEF PrepareTwin, HashTwin, UnlinkTwin, At, Kept, TypeOK, RunTyped, Run, Listed
<1>1. SUFFICES /\ run' \in Run /\ SameFiles /\ run'.phase = run.phase /\ run'.got = run.got
               /\ run'.result = run.result /\ run'.pc \in {"twins", "hash", "unlink", "finish"}
               /\ run'.pc \in {"hash", "unlink"} => run'.cur \in Slots
               /\ spent \subseteq spent' /\ preserved' \in [Names -> Stored]
               /\ \/ UNCHANGED <<unitVars, erased>>
                  \/ \E s \in Slots : card[s] # 0 /\ Erase(s)
  <2>1. CASE UNCHANGED <<unitVars, erased>>
    <3>1. /\ Distinct' /\ NothingReturns /\ card' \in [Slots -> Stored] /\ UNCHANGED <<used, car>>
          /\ open' \subseteq Slots /\ young' \subseteq Slots
          /\ erased' \subseteq [slot : Slots, content : Contents]
      BY <1>1, <2>1 DEF unitVars, Kept, TypeOK, Distinct, Remembered, NothingReturns, SameFiles
    <3>2. QED
      BY <1>0, <1>1, <3>1, TwinMoves
  <2>2. ASSUME NEW s \in Slots, card[s] # 0, Erase(s) PROVE Kept'
    <3>1. /\ Distinct' /\ NothingReturns /\ card' \in [Slots -> Stored] /\ UNCHANGED <<used, car>>
          /\ open' \subseteq Slots /\ young' \subseteq Slots
          /\ erased' \subseteq [slot : Slots, content : Contents]
      BY <1>1, <2>2, Erases
    <3>2. QED
      BY <1>0, <1>1, <3>1, TwinMoves
  <2>3. QED
    BY <1>1, <2>1, <2>2
<1>2. ASSUME NEW p \in {"twins", "hash", "unlink", "finish"}, NEW c \in Slots \cup {Nowhere},
             NEW twins \in SUBSET Slots,
             run' = [run EXCEPT !.pc = p, !.cur = c, !.twins = twins],
             p \in {"hash", "unlink"} => c \in Slots
      PROVE  /\ run' \in Run /\ SameFiles /\ run'.phase = run.phase /\ run'.got = run.got
             /\ run'.result = run.result /\ run'.pc \in {"twins", "hash", "unlink", "finish"}
             /\ run'.pc \in {"hash", "unlink"} => run'.cur \in Slots
  BY <1>0, <1>2 DEF Run, SameFiles, Places, Closing
<1>3. CASE PrepareTwin
  <2>1. UNCHANGED <<unitVars, erased, spent>> /\ run.pc = "twins"
    BY <1>3 DEF PrepareTwin, At
  <2>2. \/ \E s \in run.twins :
             /\ preserved' = [preserved EXCEPT ![Target(s)] = library[Target(s)]]
             /\ run' = [run EXCEPT !.pc = "hash", !.cur = s, !.twins = run.twins \ {s}]
        \/ \E twins \in SUBSET run.twins :
             UNCHANGED preserved /\ run' = [run EXCEPT !.twins = twins]
        \/ UNCHANGED preserved /\ run' = [run EXCEPT !.pc = "finish"]
    BY <1>3 DEF PrepareTwin
  <2>3. run.cur \in Slots \cup {Nowhere}
    BY <1>0 DEF Run
  <2>4. CASE \E s \in run.twins :
             /\ preserved' = [preserved EXCEPT ![Target(s)] = library[Target(s)]]
             /\ run' = [run EXCEPT !.pc = "hash", !.cur = s, !.twins = run.twins \ {s}]
    <3>1. PICK s \in run.twins :
             /\ preserved' = [preserved EXCEPT ![Target(s)] = library[Target(s)]]
             /\ run' = [run EXCEPT !.pc = "hash", !.cur = s, !.twins = run.twins \ {s}]
      BY <2>4
    <3>2. s \in Slots /\ run.twins \ {s} \in SUBSET Slots /\ Target(s) \in Names
      BY <1>0, Basics
    <3>3. preserved' \in [Names -> Stored]
      BY <1>0, <3>1, <3>2
    <3>4. QED
      BY <1>2, <2>1, <3>1, <3>2, <3>3
  <2>5. ASSUME NEW twins \in SUBSET run.twins, UNCHANGED preserved,
               run' = [run EXCEPT !.twins = twins]
        PROVE  /\ run' \in Run /\ SameFiles /\ run'.phase = run.phase /\ run'.got = run.got
               /\ run'.result = run.result /\ run'.pc = "twins"
    BY <1>0, <2>1, <2>5 DEF Run, SameFiles, Places, Closing
  <2>6. CASE UNCHANGED preserved /\ run' = [run EXCEPT !.pc = "finish"]
    BY <1>0, <2>1, <2>6 DEF Run, SameFiles, Places, Closing
  <2>7. QED
    BY <1>0, <2>1, <2>2, <2>4, <2>5, <2>6
<1>4. CASE HashTwin
  <2>1. /\ UNCHANGED <<unitVars, erased, spent>> /\ run.pc = "hash"
        /\ UNCHANGED preserved \/ preserved' = [preserved EXCEPT ![Target(run.cur)] = 0]
    BY <1>4 DEF HashTwin, At
  <2>2. PICK p \in {"twins", "unlink"}, twins \in SUBSET Slots :
          run' = [run EXCEPT !.pc = p, !.twins = twins]
    <3>1. \/ run' = [run EXCEPT !.pc = "unlink", !.twins = run.twins]
          \/ run' = [run EXCEPT !.pc = "twins", !.twins = {}]
      BY <1>4 DEF HashTwin
    <3>2. QED
      BY <1>0, <3>1
  <2>3. /\ run' \in Run /\ SameFiles /\ run'.phase = run.phase /\ run'.got = run.got
        /\ run'.result = run.result /\ run'.pc = p /\ run'.cur = run.cur
    BY <1>0, <2>2 DEF Run, SameFiles, Places, Closing
  <2>4. preserved' \in [Names -> Stored]
    BY <1>0, <2>1 DEF Stored
  <2>5. QED
    BY <1>0, <2>1, <2>3, <2>4
<1>5. CASE UnlinkTwin
  <2>1. /\ run.pc = "unlink" /\ run.cur \in Slots /\ spent \subseteq spent'
        /\ (card[run.cur] # 0 /\ Erase(run.cur)) \/ UNCHANGED <<unitVars, erased>>
        /\ UNCHANGED preserved \/ preserved' = [preserved EXCEPT ![Target(run.cur)] = 0]
    BY <1>0, <1>5, Spending DEF UnlinkTwin, At, Verified
  <2>2. PICK twins \in SUBSET Slots : run' = [run EXCEPT !.pc = "twins", !.twins = twins]
    <3>1. run' = [run EXCEPT !.pc = "twins", !.twins = run.twins] \/ run' = [run EXCEPT !.pc = "twins", !.twins = {}]
      BY <1>5 DEF UnlinkTwin
    <3>2. QED
      BY <1>0, <3>1
  <2>3. /\ run' \in Run /\ SameFiles /\ run'.phase = run.phase /\ run'.got = run.got
        /\ run'.result = run.result /\ run'.pc = "twins"
    BY <1>0, <2>2 DEF Run, SameFiles, Places, Closing
  <2>4. preserved' \in [Names -> Stored]
    BY <1>0, <2>1 DEF Stored
  <2>5. QED
    BY <2>1, <2>3, <2>4
<1>6. QED
  BY <1>3, <1>4, <1>5

-----------------------------------------------------------------------------
(* The beginning and the end of a run, and what happens around it.         *)

\* A run that knows nothing yet, or none at all.
Blank ==
  /\ run.inv = NoFiles /\ run.expected = NoFiles /\ run.listed = NoFiles
  /\ run.phase = "main" /\ run.got = {} /\ run.pc \in {"off", "gate"}

\* With nothing listed, nothing committed and nobody at work, what is said of a
\* listing holds.
LEMMA BlankKeeps ==
  ASSUME Blank, committed = {}, queue = <<>>, job = Nowhere, stage = "free", ~ cleaning,
         \A s \in Slots : card[s] \in used \cup {0}, open \subseteq Video,
         \A s \in open : card[s] # 0,
         \A s \in open : \A t \in Slots : t # s => card[s] # card[t]
  PROVE  /\ Hands /\ Listed /\ Distinct /\ Arrivals /\ Staged /\ Filed
         /\ Cleaner /\ Shown /\ Promised
<1>1. \A s \in Slots : NoFiles[s] = 0
  BY DEF NoFiles
<1>2. \A s \in Slots : Remembered(s) = {0}
  BY <1>1 DEF Blank, Remembered
<1>3. Hands /\ Listed /\ Staged /\ Filed /\ Cleaner /\ Shown
  BY DEF Blank, Hands, Listed, Staged, Between, Filed, Cleaner, Shown, Gates, Copying, Closing
<1>4. Distinct
  <2>1. open \subseteq Slots
    BY Basics
  <2>2. QED
    BY <1>2, <2>1 DEF Distinct
<1>5. Arrivals
  BY <1>1, Basics DEF Blank, Arrivals, Due
<1>6. Promised
  BY <1>1 DEF Blank, Promised
<1>7. QED
  BY <1>3, <1>4, <1>5, <1>6

\* No run is a run, and so is one at its gates.
LEMMA BlankRun ==
  ASSUME NEW r, r = NoRun \/ r = [NoRun EXCEPT !.pc = "gate"]
  PROVE  /\ r \in Run /\ r.inv = NoFiles /\ r.expected = NoFiles /\ r.listed = NoFiles
         /\ r.phase = "main" /\ r.got = {} /\ r.lease = "none"
         /\ r = NoRun => r.pc = "off"
         /\ r # NoRun => r.pc = "gate"
<1>1. NoFiles \in [Slots -> Stored] /\ Sweeps \in Nat
  BY NumbersAssumption DEF NoFiles, Stored
<1>2. /\ NoRun \in Run /\ NoRun.inv = NoFiles /\ NoRun.expected = NoFiles
      /\ NoRun.listed = NoFiles /\ NoRun.phase = "main" /\ NoRun.got = {}
      /\ NoRun.lease = "none" /\ NoRun.pc = "off"
  BY <1>1 DEF NoRun, Run, Places, Final
<1>3. CASE r = NoRun
  BY <1>2, <1>3
<1>4. CASE r = [NoRun EXCEPT !.pc = "gate"]
  <2>1. r.pc = "gate" /\ r # NoRun
    BY <1>2, <1>4 DEF Run
  <2>2. QED
    BY <1>2, <1>4, <2>1 DEF Run, Places, Gates
<1>5. QED
  BY <1>3, <1>4

\* A run begins, ends or is lost.
LEMMA BlankMoves ==
  ASSUME Kept, UNCHANGED <<card, open, used>>, run' = NoRun \/ run' = [NoRun EXCEPT !.pc = "gate"],
         committed' = {}, queue' = <<>>, job' = Nowhere, stage' = "free", ~ cleaning',
         TypeOK', status'.running <=> run' # NoRun, ControlTyped', Visits', StopKept'
  PROVE  Kept'
<1>1. Blank' /\ RunTyped'
  BY BlankRun DEF Blank, RunTyped
<1>2. /\ \A s \in Slots : card'[s] \in used' \cup {0}
      /\ open' \subseteq Video
      /\ \A s \in open' : card'[s] # 0
      /\ \A s \in open' : \A t \in Slots : t # s => card'[s] # card'[t]
  BY DEF Kept, Distinct
<1>3. \A s \in Slots : NoFiles[s] = 0
  BY DEF NoFiles
<1>4. \A s \in Slots : Remembered(s)' = {0}
  BY <1>1, <1>3 DEF Blank, Remembered
<1>5. Hands' /\ Listed' /\ Staged' /\ Filed' /\ Cleaner' /\ Shown'
  BY <1>1 DEF Blank, Hands, Listed, Staged, Between, Filed, Cleaner, Shown, Gates, Copying, Closing
<1>6. Distinct'
  <2>1. open' \subseteq Slots
    BY <1>2, Basics
  <2>2. QED
    BY <1>2, <1>4, <2>1 DEF Distinct
<1>7. Arrivals'
  BY <1>1, <1>3, Basics DEF Blank, Arrivals, Due
<1>8. Promised'
  BY <1>1, <1>3 DEF Blank, Promised
<1>9. QED
  BY <1>1, <1>5, <1>6, <1>7, <1>8 DEF Kept

\* The invariant holds at first.
LEMMA InitKept == Init => Kept
<1> SUFFICES ASSUME Init PROVE Kept
  OBVIOUS
<1>1. /\ card \in [Slots -> Stored] /\ used = {card[s] : s \in Slots} \ {0}
      /\ open = {} /\ young = {} /\ car = [online |-> TRUE, parked |-> TRUE]
      /\ library = [n \in Names |-> 0] /\ disk = library /\ preserved = library
      /\ staging = NoFiles /\ removed = {} /\ cleaning = FALSE
      /\ run = NoRun /\ queue = <<>> /\ job = Nowhere /\ stage = "free"
      /\ failed = FALSE /\ committed = {} /\ erased = {}
      /\ status = [running |-> FALSE, state |-> "idle", cancel |-> FALSE,
                   reason |-> "none", narrowed |-> FALSE, deferred |-> FALSE]
      /\ poll = [was |-> FALSE, backups |-> 0, errors |-> 0, ticket |-> "none"]
      /\ hist = [stopRun |-> FALSE, passes |-> 0, beyond |-> 0]
  BY CardsAssumption DEF Init
<1>2. used \subseteq Contents /\ \A s \in Slots : card[s] \in used \cup {0}
  BY <1>1 DEF Stored
<1>3. library \in [Names -> Stored] /\ staging \in [Slots -> Stored \cup {Torn}]
  BY <1>1 DEF NoFiles, Stored
<1>4. TypeOK
  <2>1. queue \in Seq(Slots) /\ Len(queue) <= Depth
    BY <1>1, NumbersAssumption
  <2>2. QED
    BY <1>1, <1>2, <1>3, <2>1 DEF TypeOK
<1>5. Blank /\ RunTyped
  BY <1>1, BlankRun DEF Blank, RunTyped
<1>6. ControlTyped /\ StopKept /\ Visits
  BY <1>1, NumbersAssumption DEF ControlTyped, StopKept, Visits, Paid, Final
<1>7. Hands /\ Listed /\ Distinct /\ Arrivals /\ Staged /\ Filed /\ Cleaner /\ Shown /\ Promised
  BY <1>1, <1>2, <1>5, BlankKeeps
<1>8. QED
  BY <1>4, <1>5, <1>6, <1>7 DEF Kept

\* A pull starts.
LEMMA StartsKeep == Kept /\ (ManualPull \/ PollArrives \/ PollDrainsAgain) => Kept'
<1> SUFFICES ASSUME Kept, ManualPull \/ PollArrives \/ PollDrainsAgain PROVE Kept'
  OBVIOUS
<1>0. Starts /\ spent \subseteq spent'
  BY Spending DEF ManualPull, PollArrives, PollDrainsAgain
<1>1. /\ ~ status.running /\ run' = [NoRun EXCEPT !.pc = "gate"]
      /\ status' = [running |-> TRUE, state |-> "running", cancel |-> FALSE,
                    reason |-> "none", narrowed |-> FALSE, deferred |-> FALSE]
      /\ UNCHANGED <<unitVars, fileVars, cleaning, pipeVars, erased>>
  BY <1>0 DEF Starts
<1>2. UNCHANGED <<card, open, young, used, car, library, disk, staging, preserved, removed,
                  queue, job, stage, failed, committed>>
  BY <1>1 DEF unitVars, fileVars, pipeVars
<1>3. run.pc = "off"
  BY <1>1 DEF Kept, RunTyped
<1>4. committed' = {} /\ queue' = <<>> /\ job' = Nowhere /\ stage' = "free" /\ ~ cleaning'
  <2>1. queue = <<>> /\ job = Nowhere /\ stage = "free"
    BY <1>3, HandsFree DEF Copying
  <2>2. committed = {} /\ ~ cleaning
    BY <1>3 DEF Kept, Shown, Cleaner, Gates
  <2>3. QED
    BY <1>1, <1>2, <2>1, <2>2
<1>5. TypeOK'
  BY <1>1, <1>2 DEF Kept, TypeOK
<1>6. poll.backups \in Nat /\ poll.errors \in Nat /\ hist.passes \in Nat /\ Limit \in Nat
      /\ hist.beyond \in Nat /\ poll.was \in BOOLEAN
  BY NumbersAssumption DEF Kept, ControlTyped
<1>7. ControlTyped' /\ StopKept' /\ Visits'
  <2>1. CASE ManualPull
    <3>1. /\ poll' = [poll EXCEPT !.ticket = "manual"] /\ hist' = [hist EXCEPT !.stopRun = FALSE]
          /\ "manual" \in spent'
      BY <2>1, Spending DEF ManualPull
    <3>2. QED
      BY <1>1, <3>1 DEF Kept, ControlTyped, StopKept, Visits
  <2>2. CASE PollArrives
    <3>1. /\ poll' = [was |-> TRUE, backups |-> 1, errors |-> 0, ticket |-> "this"]
          /\ hist' = [hist EXCEPT !.stopRun = FALSE, !.passes = 0, !.beyond = 0]
      BY <2>2 DEF PollArrives
    <3>2. /\ hist' \in [stopRun : BOOLEAN, passes : Nat, beyond : Nat] /\ hist'.passes = 0
          /\ hist'.beyond = 0 /\ ~ hist'.stopRun
      BY <3>1 DEF Kept, ControlTyped
    <3>3. ControlTyped' /\ StopKept'
      BY <1>1, <3>1, <3>2 DEF ControlTyped, StopKept
    <3>4. Visits'
      BY <1>1, <1>6, <3>1, <3>2 DEF Visits, Paid
    <3>5. QED
      BY <3>3, <3>4
  <2>3. CASE PollDrainsAgain
    <3>1. /\ poll' = [poll EXCEPT !.backups = poll.backups + 1, !.ticket = "this",
                        !.errors = IF status.state = "error" THEN poll.errors + 1 ELSE 0]
          /\ hist' = [hist EXCEPT !.stopRun = FALSE,
                        !.beyond = IF ForDeferred THEN hist.beyond + 1 ELSE hist.beyond]
          /\ poll.was /\ ShouldDrainAgain
      BY <2>3 DEF PollDrainsAgain
    <3>2. PICK e \in Nat : e = IF status.state = "error" THEN poll.errors + 1 ELSE 0
      BY <1>6
    <3>3. PICK b \in Nat : b = poll.backups + 1
      BY <1>6
    <3>a. PICK d \in Nat : d = IF ForDeferred THEN hist.beyond + 1 ELSE hist.beyond
      BY <1>6
    <3>4. /\ poll' \in [was : BOOLEAN, backups : Nat, errors : Nat,
                        ticket : {"none", "this", "old", "manual"}]
          /\ poll'.was = poll.was /\ poll'.backups = poll.backups + 1 /\ poll'.ticket = "this"
      <4>1. poll' = [poll EXCEPT !.backups = b, !.ticket = "this", !.errors = e]
        BY <3>1, <3>2, <3>3
      <4>2. QED
        BY <3>3, <4>1 DEF Kept, ControlTyped
    <3>5. /\ hist' \in [stopRun : BOOLEAN, passes : Nat, beyond : Nat] /\ hist'.passes = hist.passes
          /\ hist'.beyond = d /\ ~ hist'.stopRun
      <4>1. hist' = [hist EXCEPT !.stopRun = FALSE, !.beyond = d]
        BY <3>1, <3>a
      <4>2. hist \in [stopRun : BOOLEAN, passes : Nat, beyond : Nat]
        BY DEF Kept, ControlTyped
      <4>3. QED
        BY <4>1, <4>2
    <3>6. ControlTyped' /\ StopKept'
      BY <1>1, <3>4, <3>5 DEF ControlTyped, StopKept
    <3>7. Visits'
      <4>1. SUFFICES ASSUME Limit > 0, "manual" \notin spent' PROVE Paid'
        BY DEF Visits
      <4>2. Paid
        BY <1>0, <4>1 DEF Kept, Visits
      <4>3. hist.passes < Limit + d /\ hist.passes <= poll.backups
        <5>1. /\ hist.passes <= poll.backups /\ hist.passes <= Limit + hist.beyond
              /\ status.state \in {"idle", "error"} => hist.passes < Limit + hist.beyond
          BY <3>1, <4>2 DEF Paid
        <5>2. CASE ForDeferred
          BY <1>6, <3>a, <5>1, <5>2
        <5>3. CASE ~ ForDeferred
          <6>1. status.state \in {"idle", "error"} \/ poll.backups < Limit
            BY <3>1, <4>1, <5>3 DEF ShouldDrainAgain, ForDeferred, BelowLimit
          <6>2. QED
            BY <1>6, <3>a, <5>1, <5>3, <6>1
        <5>4. QED
          BY <5>2, <5>3
      <4>4. QED
        BY <1>1, <1>6, <3>1, <3>4, <3>5, <4>3 DEF Paid
    <3>8. QED
      BY <3>6, <3>7
  <2>4. QED
    BY <2>1, <2>2, <2>3
<1>8. run' # NoRun /\ status'.running
  <2>1. run'.pc = "gate" /\ NoRun.pc = "off"
    BY <1>1 DEF NoRun
  <2>2. QED
    BY <1>1, <2>1
<1>9. QED
  BY <1>1, <1>2, <1>4, <1>5, <1>7, <1>8, BlankMoves

\* The state a pull ends in is one that can be reported, and one that shows
\* nothing has committed nothing.
LEMMA ClassifiedTyped ==
  ASSUME Kept, run.pc = "finish"
  PROVE  /\ Classified \in Final
         /\ Classified \in {"idle", "error"} => committed = {}
<1>1. run.result \in Final /\ status.reason \in {"none", "lost", "window"}
      /\ status.cancel \in BOOLEAN
  BY DEF Kept, RunTyped, Run, ControlTyped
<1>2. run.result \in Empty => committed = {}
  BY DEF Kept, Shown, Closing
<1>3. QED
  BY <1>1, <1>2 DEF Classified, Final, Empty

\* The outcome is published.
LEMMA FinishKeeps == Kept /\ finish => Kept'
<1> SUFFICES ASSUME Kept, finish PROVE Kept'
  OBVIOUS
<1>1. /\ run.pc = "finish" /\ run' = NoRun /\ failed' = FALSE /\ committed' = {}
      /\ status' = [status EXCEPT !.running = FALSE, !.state = Classified,
                      !.narrowed = Narrows(Classified), !.deferred = run.deferred]
      /\ poll' = [poll EXCEPT !.ticket = "none", !.backups = PassesLeft(Classified)]
      /\ hist' = [hist EXCEPT !.passes =
                   IF poll.ticket = "this" /\ committed # {} THEN hist.passes + 1 ELSE hist.passes]
      /\ UNCHANGED <<unitVars, fileVars, cleaning, queue, job, stage, erased, spent>>
  BY DEF finish, At
<1>2. UNCHANGED <<card, open, young, used, car, library, disk, staging, preserved, removed>>
  BY <1>1 DEF unitVars, fileVars
<1>3. queue' = <<>> /\ job' = Nowhere /\ stage' = "free" /\ ~ cleaning'
  <2>1. queue = <<>> /\ job = Nowhere /\ stage = "free"
    BY <1>1, HandsFree DEF Copying
  <2>2. ~ cleaning
    BY <1>1 DEF Kept, Cleaner, Gates
  <2>3. QED
    BY <1>1, <2>1, <2>2
<1>4. TypeOK'
  BY <1>1, <1>2 DEF Kept, TypeOK
<1>5. /\ poll.backups \in Nat /\ poll.errors \in Nat /\ hist.passes \in Nat /\ Limit \in Nat
      /\ hist.beyond \in Nat /\ poll.was \in BOOLEAN /\ status.running
      /\ run.deferred \in BOOLEAN
  BY <1>1, NumbersAssumption DEF Kept, ControlTyped, RunTyped, Run
<1>6. PICK r \in Final : r = Classified /\ (r \in {"idle", "error"} => committed = {})
  BY <1>1, ClassifiedTyped
<1>7. PICK narrows \in BOOLEAN : narrows = Narrows(Classified)
  BY DEF Narrows, MayClose
<1>8. PICK left \in Nat :
        /\ left = PassesLeft(Classified)
        /\ left = poll.backups \/ (committed = {} /\ poll.ticket = "this" /\ left >= poll.backups - 1)
  BY <1>5 DEF PassesLeft
<1>9. PICK passes \in Nat :
        passes = IF poll.ticket = "this" /\ committed # {} THEN hist.passes + 1 ELSE hist.passes
  BY <1>5
<1>10. /\ status' \in [running : BOOLEAN, state : Final \cup {"running"}, cancel : BOOLEAN,
                       reason : {"none", "lost", "window"}, narrowed : BOOLEAN,
                       deferred : BOOLEAN]
       /\ ~ status'.running /\ status'.state = r
  <2>1. status' = [status EXCEPT !.running = FALSE, !.state = r, !.narrowed = narrows,
                     !.deferred = run.deferred]
    BY <1>1, <1>6, <1>7
  <2>2. QED
    BY <1>5, <2>1 DEF Kept, ControlTyped
<1>11. /\ poll' \in [was : BOOLEAN, backups : Nat, errors : Nat,
                     ticket : {"none", "this", "old", "manual"}]
       /\ poll'.was = poll.was /\ poll'.backups = left /\ poll'.ticket = "none"
  <2>1. poll' = [poll EXCEPT !.ticket = "none", !.backups = left]
    BY <1>1, <1>8
  <2>2. QED
    BY <2>1 DEF Kept, ControlTyped
<1>12. hist' \in [stopRun : BOOLEAN, passes : Nat, beyond : Nat] /\ hist'.passes = passes
       /\ hist'.beyond = hist.beyond
  <2>1. hist' = [hist EXCEPT !.passes = passes]
    BY <1>1, <1>9
  <2>2. QED
    BY <2>1 DEF Kept, ControlTyped
<1>13. ControlTyped' /\ StopKept'
  BY <1>10, <1>11, <1>12 DEF ControlTyped, StopKept
<1>14. Visits'
  <2>1. SUFFICES ASSUME Limit > 0, "manual" \notin spent PROVE Paid'
    BY <1>1 DEF Visits
  <2>2. Paid
    BY <2>1 DEF Kept, Visits
  <2>3. CASE ~ poll.was
    BY <1>5, <1>8, <1>9, <1>10, <1>11, <1>12, <2>2, <2>3 DEF Paid
  <2>4. CASE poll.was
    <3>1. /\ poll.ticket = "this" /\ hist.passes < Limit + hist.beyond
          /\ hist.passes < poll.backups
      BY <1>5, <2>2, <2>4 DEF Paid
    <3>2. passes <= left /\ passes <= Limit + hist.beyond
      BY <1>5, <1>8, <1>9, <3>1
    <3>3. r \in {"idle", "error"} => passes < Limit + hist.beyond
      BY <1>6, <1>9, <3>1
    <3>4. QED
      BY <1>10, <1>11, <1>12, <2>4, <3>2, <3>3 DEF Paid
  <2>5. QED
    BY <1>5, <2>3, <2>4
<1>15. QED
  BY <1>1, <1>2, <1>3, <1>4, <1>10, <1>13, <1>14, BlankMoves

\* The server loses power.
LEMMA PowerCutKeeps == Kept /\ PowerCut => Kept'
<1> SUFFICES ASSUME Kept, PowerCut PROVE Kept'
  OBVIOUS
<1>0. PICK lost \in SUBSET Names, tear \in BOOLEAN :
        /\ library' = [n \in Names |-> IF n \in lost THEN disk[n] ELSE library[n]]
        /\ staging' = [s \in Slots |-> IF tear /\ staging[s] # 0 THEN Torn ELSE staging[s]]
  BY DEF PowerCut
<1>1. /\ disk' = library' /\ cleaning' = FALSE /\ run' = NoRun
      /\ queue' = <<>> /\ job' = Nowhere /\ stage' = "free" /\ failed' = FALSE
      /\ committed' = {}
      /\ status' = [running |-> FALSE, state |-> "idle", cancel |-> FALSE,
                    reason |-> "none", narrowed |-> FALSE, deferred |-> FALSE]
      /\ poll' = [was |-> FALSE, backups |-> 0, errors |-> 0, ticket |-> "none"]
      /\ hist' = [stopRun |-> FALSE, passes |-> 0, beyond |-> 0]
      /\ UNCHANGED <<card, open, young, used, car, preserved, removed, erased>>
  BY DEF PowerCut, unitVars
<1>2. library' \in [Names -> Stored] /\ staging' \in [Slots -> Stored \cup {Torn}]
  BY <1>0 DEF Kept, TypeOK
<1>3. TypeOK'
  <2>1. queue' \in Seq(Slots) /\ Len(queue') <= Depth
    BY <1>1, NumbersAssumption
  <2>2. QED
    BY <1>1, <1>2, <2>1 DEF Kept, TypeOK
<1>4. ControlTyped' /\ StopKept' /\ Visits'
  BY <1>1, NumbersAssumption DEF ControlTyped, StopKept, Visits, Paid, Final
<1>5. QED
  BY <1>1, <1>3, <1>4, BlankMoves

\* A recording is removed from the library on purpose.
LEMMA RemoveKeeps == \A n \in Names : Kept /\ RemoveLocal(n) => Kept'
<1> SUFFICES ASSUME NEW n \in Names, Kept, RemoveLocal(n) PROVE Kept'
  OBVIOUS
<1>1. /\ library' = [library EXCEPT ![n] = 0] /\ disk' = [disk EXCEPT ![n] = 0]
      /\ removed' = removed \cup {n} /\ spent \subseteq spent'
      /\ UNCHANGED <<unitVars, staging, preserved, cleaning, run, pipeVars, ctlVars, erased>>
  BY Spending DEF RemoveLocal
<1>2. UNCHANGED <<card, open, young, used, car, queue, job, stage, failed, committed, status, poll, hist>>
  BY <1>1 DEF unitVars, pipeVars, ctlVars
<1>3. /\ library' \in [Names -> Stored] /\ disk' \in [Names -> Stored]
      /\ \A m \in Names : m # n => library'[m] = library[m] /\ disk'[m] = disk[m]
  BY <1>1 DEF Kept, TypeOK, Stored
<1>4. TypeOK'
  BY <1>1, <1>2, <1>3 DEF Kept, TypeOK
<1>5. RunTyped' /\ ControlTyped' /\ Visits' /\ StopKept'
  BY <1>1, <1>2 DEF Kept, RunTyped, ControlTyped, Visits, Paid, StopKept
<1>6. Hands' /\ Listed' /\ Staged' /\ Cleaner' /\ Shown'
  BY <1>1, <1>2 DEF Kept, Hands, Listed, Staged, Between, Cleaner, Shown
<1>7. Distinct' /\ Arrivals'
  BY <1>1, <1>2 DEF Kept, Distinct, Remembered, Arrivals, Due, Arrived
<1>8. Filed'
  <2>1. stage \in {"sync", "reclaim"} => Target(job) \in Names
    BY Basics DEF Kept, Hands, TypeOK
  <2>2. QED
    BY <1>1, <1>2, <1>3, <2>1 DEF Kept, Filed, Moved
<1>9. Promised'
  BY <1>1, <1>2, <1>3, Basics DEF Kept, Promised
<1>10. QED
  BY <1>4, <1>5, <1>6, <1>7, <1>8, <1>9 DEF Kept

\* A step that is about the visit, the status or the lease only.
LEMMA ControlMoves ==
  ASSUME Kept, UNCHANGED <<unitVars, fileVars, cleaning, pipeVars, erased>>, spent \subseteq spent',
         run' \in Run, SameFiles, run'.pc = run.pc, run'.phase = run.phase, run'.got = run.got,
         run'.todo = run.todo, run'.cur = run.cur, run'.result = run.result,
         run'.interrupted = run.interrupted, status'.running = status.running,
         ControlTyped', Visits', StopKept'
  PROVE  Kept'
<1>1. UNCHANGED <<card, open, young, used, car, library, disk, staging, preserved, removed,
                  queue, job, stage, failed, committed>>
  BY DEF unitVars, fileVars, pipeVars
<1>2. TypeOK' /\ RunTyped'
  BY <1>1 DEF Kept, TypeOK, RunTyped
<1>3. Hands' /\ Listed' /\ Staged' /\ Cleaner' /\ Shown'
  BY <1>1 DEF Kept, Hands, Listed, Staged, Between, Cleaner, Shown, SameFiles
<1>4. Distinct' /\ Promised'
  BY <1>1, FilesStay DEF Kept
<1>5. Arrivals' /\ Filed'
  BY <1>1 DEF Kept, Arrivals, Due, Arrived, Filed, Moved, SameFiles
<1>6. QED
  BY <1>2, <1>3, <1>4, <1>5 DEF Kept

\* A visit is over, or taken to be.
LEMMA VisitEnds == Kept /\ (PollAway \/ PollForgets) => Kept'
<1> SUFFICES ASSUME Kept, PollAway \/ PollForgets PROVE Kept'
  OBVIOUS
<1>1. /\ poll' = NewVisit /\ hist' = [hist EXCEPT !.passes = 0, !.beyond = 0]
      /\ UNCHANGED <<unitVars, fileVars, cleaning, run, pipeVars, erased>>
      /\ spent \subseteq spent'
      /\ UNCHANGED status \/ status' = [status EXCEPT !.state = "offline"]
  BY Spending DEF PollAway, PollForgets
<1>2. /\ status' \in [running : BOOLEAN, state : Final \cup {"running"}, cancel : BOOLEAN,
                      reason : {"none", "lost", "window"}, narrowed : BOOLEAN,
                      deferred : BOOLEAN]
      /\ status'.running = status.running /\ status'.cancel = status.cancel
      /\ status'.reason = status.reason
  BY <1>1 DEF Kept, ControlTyped, Final
<1>3. /\ poll' \in [was : BOOLEAN, backups : Nat, errors : Nat,
                    ticket : {"none", "this", "old", "manual"}]
      /\ ~ poll'.was /\ poll'.backups = 0 /\ poll'.ticket # "this"
  BY <1>1 DEF NewVisit, Kept, ControlTyped
<1>4. hist' \in [stopRun : BOOLEAN, passes : Nat, beyond : Nat] /\ hist'.passes = 0
      /\ hist'.beyond = 0 /\ hist'.stopRun = hist.stopRun
  BY <1>1 DEF Kept, ControlTyped
<1>5. ControlTyped' /\ StopKept' /\ Visits'
  BY <1>2, <1>3, <1>4 DEF Kept, ControlTyped, StopKept, Visits, Paid
<1>6. QED
  BY <1>1, <1>2, <1>5, ControlMoves DEF SameFiles, Kept, RunTyped

\* A pull is told to stop, by the operator or for its safety.
LEMMA StopKeeps == Kept /\ (Stop \/ LeaseStops("lost") \/ LeaseStops("window")) => Kept'
<1> SUFFICES ASSUME Kept, Stop \/ LeaseStops("lost") \/ LeaseStops("window") PROVE Kept'
  OBVIOUS
<1>1. /\ UNCHANGED <<unitVars, fileVars, cleaning, pipeVars, erased, poll>>
      /\ spent \subseteq spent'
      /\ UNCHANGED run \/ run' = [run EXCEPT !.lease = "lost"]
      /\ UNCHANGED hist \/ hist' = [hist EXCEPT !.stopRun = TRUE]
  BY Spending DEF Stop, LeaseStops
<1>2. PICK why \in {"none", "lost", "window"} :
        /\ status' = [status EXCEPT !.cancel = TRUE, !.reason = why]
        /\ why = "none" \/ (UNCHANGED hist /\ (status.cancel => why = status.reason))
  <2>1. CASE Stop
    BY <2>1 DEF Stop
  <2>2. ASSUME NEW w \in {"lost", "window"}, LeaseStops(w)
        PROVE  /\ status' = [status EXCEPT !.cancel = TRUE,
                               !.reason = IF status.cancel THEN status.reason ELSE w]
               /\ UNCHANGED hist
    BY <2>2 DEF LeaseStops
  <2>3. status.reason \in {"none", "lost", "window"}
    BY DEF Kept, ControlTyped
  <2>4. QED
    BY <2>1, <2>2, <2>3
<1>3. /\ status' \in [running : BOOLEAN, state : Final \cup {"running"}, cancel : BOOLEAN,
                      reason : {"none", "lost", "window"}, narrowed : BOOLEAN,
                      deferred : BOOLEAN]
      /\ status'.running = status.running /\ status'.cancel /\ status'.reason = why
      /\ status'.state = status.state
  BY <1>2 DEF Kept, ControlTyped
<1>4. /\ run' \in Run /\ SameFiles /\ run'.pc = run.pc /\ run'.phase = run.phase
      /\ run'.got = run.got /\ run'.todo = run.todo /\ run'.cur = run.cur
      /\ run'.result = run.result /\ run'.interrupted = run.interrupted
  <2>1. run \in Run
    BY DEF Kept, RunTyped
  <2>2. QED
    BY <1>1, <2>1 DEF Run, SameFiles
<1>5. hist' \in [stopRun : BOOLEAN, passes : Nat, beyond : Nat] /\ hist'.passes = hist.passes
      /\ hist'.beyond = hist.beyond
  BY <1>1 DEF Kept, ControlTyped
<1>6. ControlTyped' /\ StopKept' /\ Visits'
  <2>1. ControlTyped'
    BY <1>1, <1>3, <1>5 DEF Kept, ControlTyped
  <2>2. StopKept'
    BY <1>2, <1>3 DEF Kept, StopKept
  <2>3. Visits'
    BY <1>1, <1>3, <1>5 DEF Kept, Visits, Paid
  <2>4. QED
    BY <2>1, <2>2, <2>3
<1>7. QED
  BY <1>1, <1>3, <1>4, <1>6, ControlMoves

-----------------------------------------------------------------------------
(* The invariant.                                                          *)

\* Nothing happens.
LEMMA StutterKeeps == Kept /\ UNCHANGED vars => Kept'
<1> SUFFICES ASSUME Kept, UNCHANGED vars PROVE Kept'
  OBVIOUS
<1>1. /\ UNCHANGED <<unitVars, fileVars, cleaning, pipeVars, erased, run, status, poll, hist, spent>>
  BY DEF vars, ctlVars
<1>2. ControlTyped' /\ Visits' /\ StopKept'
  BY <1>1 DEF Kept, ControlTyped, Visits, Paid, StopKept
<1>3. QED
  BY <1>1, <1>2, ControlMoves DEF Kept, RunTyped, SameFiles

\* Every step keeps the invariant.
LEMMA KeptNext == Kept /\ [Next]_vars => Kept'
<1>1. Kept /\ Poller => Kept'
  BY StartsKeep, VisitEnds DEF Poller
<1>2. Kept /\ Body => Kept'
  BY YieldKeeps, GateKeeps, ListKeeps, PlanKeeps, LookKeeps, AdmitKeeps, LaunchKeeps, ReceiveKeeps,
     SubmitKeeps, CloseKeeps, DiscardKeeps, SecondPassKeeps, SweepKeeps, RescueKeeps,
     TotalKeeps, SettleKeeps, SalvageKeeps, JoinKeeps, TwinsKeep, FinishKeeps DEF Body
<1>3. Kept /\ Committer => Kept'
  BY DrainKeeps, CommitKeeps, SyncKeeps, ReclaimKeeps DEF Committer
<1>4. Kept /\ Operator => Kept'
  BY StopKeeps, StartsKeep, RemoveKeeps DEF Operator
<1>5. QED
  BY <1>1, <1>2, <1>3, <1>4, RecorderKeeps, CleanKeeps, StopKeeps, PowerCutKeeps, StutterKeeps
  DEF Next

\* The inductive invariant of the pull.
THEOREM KeptTheorem == Spec => []Kept
BY InitKept, KeptNext, PTL DEF Spec

-----------------------------------------------------------------------------
(* What is erased on the card.                                             *)

\* Only the committer and the cleanup of duplicates erase anything.
LEMMA OnlyErases ==
  [Next]_vars => UNCHANGED erased \/ (_reclaim /\ Erase(job)) \/ (UnlinkTwin /\ Verified(run.cur) /\ Erase(run.cur))
<1> SUFFICES ASSUME [Next]_vars
             PROVE  \/ UNCHANGED erased
                    \/ _reclaim /\ Erase(job)
                    \/ UnlinkTwin /\ Verified(run.cur) /\ Erase(run.cur)
  OBVIOUS
<1>1. CASE Recorder \/ CarMoves
  BY <1>1 DEF Recorder, Record, Grow, Close, Age, Recycle, Strand, CarMoves, elsewhere
<1>2. CASE Poller \/ Operator \/ LeaseStops("lost") \/ LeaseStops("window") \/ PowerCut \/ Clean
  BY <1>2 DEF Poller, PollAway, PollForgets, PollArrives, PollDrainsAgain, Operator, Stop,
     ManualPull, RemoveLocal, Starts, LeaseStops, PowerCut, Clean
<1>3. CASE Body
  <2>1. CASE Gate \/ List \/ delta \/ _drop_still_growing \/ Admit \/ Launch \/ receive
    BY <2>1 DEF Gate, List, delta, _drop_still_growing, Admit, Launch, receive, rest
  <2>2. CASE YieldBatch \/ submit \/ close \/ Discard \/ SecondPass \/ Sweep \/ _rescue_partials \/ Total
    BY <2>2 DEF YieldBatch, submit, close, Discard, SecondPass, Sweep, _rescue_partials, Total, rest
  <2>3. CASE Settle \/ Salvage \/ _join_staging_cleanup \/ PrepareTwin \/ HashTwin \/ finish
    BY <2>3 DEF Settle, Salvage, _join_staging_cleanup, PrepareTwin, HashTwin, finish, rest
  <2>4. CASE UnlinkTwin
    BY <2>4 DEF UnlinkTwin
  <2>5. QED
    BY <1>3, <2>1, <2>2, <2>3, <2>4 DEF Body
<1>4. CASE Committer
  BY <1>4 DEF Committer, Drain, commit, _sync_directory, _reclaim
<1>5. CASE UNCHANGED vars
  BY <1>5 DEF vars
<1>6. QED
  BY <1>1, <1>2, <1>3, <1>4, <1>5 DEF Next

\* What the invariant says of an erasure: the bytes are on the disk, in the
\* private copy, or were removed on purpose.
LEMMA ErasesSaved ==
  Kept /\ [Next]_vars =>
    \A e \in erased' \ erased :
       LET n == Target(e.slot) IN
       disk[n] = e.content \/ preserved[n] = e.content \/ n \in removed
<1> SUFFICES ASSUME Kept, [Next]_vars, NEW e \in erased' \ erased
             PROVE  LET n == Target(e.slot) IN
                    disk[n] = e.content \/ preserved[n] = e.content \/ n \in removed
  OBVIOUS
<1>1. CASE _reclaim /\ Erase(job)
  <2>1. e = [slot |-> job, content |-> card[job]] /\ stage = "reclaim"
    BY <1>1 DEF Erase, _reclaim
  <2>2. card[job] = run.expected[job]
    BY <1>1, <2>1 DEF _reclaim, Unchanged, unitVars
  <2>3. disk[Target(job)] = run.expected[job] \/ Target(job) \in removed
    BY <2>1, <2>2 DEF Kept, Filed, Moved
  <2>4. QED
    BY <2>1, <2>2, <2>3
<1>2. CASE UnlinkTwin /\ Verified(run.cur) /\ Erase(run.cur)
  <2>1. e = [slot |-> run.cur, content |-> card[run.cur]]
    BY <1>2 DEF Erase
  <2>2. preserved[Target(run.cur)] = card[run.cur]
    BY <1>2 DEF Verified
  <2>3. QED
    BY <2>1, <2>2
<1>3. QED
  BY <1>1, <1>2, OnlyErases

\* A recording is deleted on the card only while its bytes are saved here.
THEOREM EraseTheorem == Spec => EraseOnlySaved
<1>1. Kept /\ [Next]_vars =>
        [\A e \in erased' \ erased :
           LET n == Target(e.slot) IN
           disk[n] = e.content \/ preserved[n] = e.content \/ n \in removed]_vars
  BY ErasesSaved
<1>2. QED
  BY <1>1, KeptTheorem, PTL DEF Spec, EraseOnlySaved

-----------------------------------------------------------------------------
(* Bounds.                                                                 *)

\* The types hold, the staging directory is emptied by nobody else's leave, and
\* a visit has no more pulls than it may.
THEOREM BoundsTheorem == Spec => []StaysInBounds
<1>1. Kept => StaysInBounds
  <2>1. Kept => CleanerIsAlone
    BY DEF Kept, Cleaner, RunTyped, CleanerIsAlone, Gates
  <2>2. Kept => VisitBounded
    <3>1. SUFFICES ASSUME Kept, Limit > 0, "manual" \notin spent
                 PROVE  hist.passes <= Limit + hist.beyond
      BY DEF VisitBounded
    <3>2. Paid /\ poll.was \in BOOLEAN /\ hist.beyond \in Nat
      BY <3>1 DEF Kept, Visits, ControlTyped
    <3>3. QED
      BY <3>1, <3>2, NumbersAssumption DEF Paid
  <2>3. QED
    BY <2>1, <2>2 DEF StaysInBounds, Kept
<1>2. QED
  BY <1>1, KeptTheorem, PTL

-----------------------------------------------------------------------------
(* What a pull reports.                                                    *)

\* Nothing but the end of a run ends one or lets the unit go to sleep.
LEMMA OnlyFinishes ==
  ASSUME [Next]_vars, ~ finish, ~ PowerCut, ControlTyped
  PROVE  /\ status.running => status'.running
         /\ status'.narrowed => status.narrowed
<1> DEFINE Kind == [running : BOOLEAN, state : Final \cup {"running"}, cancel : BOOLEAN,
                    reason : {"none", "lost", "window"}, narrowed : BOOLEAN,
                    deferred : BOOLEAN]
<1>0. status \in Kind
  BY DEF ControlTyped
<1>1. CASE Recorder \/ CarMoves
  BY <1>1 DEF Recorder, Record, Grow, Close, Age, Recycle, Strand, CarMoves, elsewhere
<1>2. CASE Poller \/ Operator
  <2>1. CASE Starts
    BY <2>1 DEF Starts
  <2>2. CASE Stop \/ PollAway
    BY <1>0, <2>2 DEF Stop, PollAway
  <2>3. CASE PollForgets \/ \E n \in Names : RemoveLocal(n)
    BY <2>3 DEF PollForgets, RemoveLocal, ctlVars
  <2>4. QED
    BY <1>2, <2>1, <2>2, <2>3 DEF Poller, PollArrives, PollDrainsAgain, Operator, ManualPull
<1>3. CASE LeaseStops("lost") \/ LeaseStops("window")
  <2>1. PICK w \in {"lost", "window"} :
          status' = [status EXCEPT !.cancel = TRUE, !.reason = IF status.cancel THEN @ ELSE w]
    BY <1>3 DEF LeaseStops
  <2>2. QED
    BY <1>0, <2>1
<1>4. CASE Body
  <2>1. CASE Gate \/ List \/ delta \/ _drop_still_growing \/ Admit \/ Launch \/ receive
    BY <2>1 DEF Gate, List, delta, _drop_still_growing, Admit, Launch, receive, rest, ctlVars
  <2>2. CASE YieldBatch \/ submit \/ close \/ Discard \/ SecondPass \/ Sweep \/ _rescue_partials \/ Total
    BY <2>2 DEF YieldBatch, submit, close, Discard, SecondPass, Sweep, _rescue_partials, Total, rest, ctlVars
  <2>3. CASE Settle \/ Salvage \/ _join_staging_cleanup \/ PrepareTwin \/ HashTwin \/ UnlinkTwin
    BY <2>3 DEF Settle, Salvage, _join_staging_cleanup, PrepareTwin, HashTwin, UnlinkTwin, rest, ctlVars
  <2>4. QED
    BY <1>4, <2>1, <2>2, <2>3 DEF Body
<1>5. CASE Committer \/ Clean
  BY <1>5 DEF Committer, Drain, commit, _sync_directory, _reclaim, Clean, ctlVars
<1>6. CASE UNCHANGED vars
  BY <1>6 DEF vars, ctlVars
<1>7. QED
  BY <1>1, <1>2, <1>3, <1>4, <1>5, <1>6 DEF Next

\* The outcome of a run that was stopped is that it was.
LEMMA StopShown ==
  ASSUME Kept, [Next]_vars, Kept', hist.stopRun, run.pc = "finish", run'.pc = "off",
         status.running, hist'.stopRun
  PROVE  status'.state = "cancelled"
<1>1. ~ status'.running
  BY DEF Kept, RunTyped
<1>2. ~ PowerCut
  BY DEF PowerCut
<1>3. finish
  BY <1>1, <1>2, OnlyFinishes DEF Kept
<1>4. Classified = "cancelled"
  BY DEF Kept, StopKept, Classified
<1>5. status' = [status EXCEPT !.running = FALSE, !.state = Classified, !.narrowed = Narrows(Classified),
                  !.deferred = run.deferred]
  BY <1>3 DEF finish
<1>6. QED
  BY <1>4, <1>5 DEF Kept, ControlTyped

\* A unit that is let go to sleep has nothing left that its listing owed.
LEMMA SleepsDrained ==
  ASSUME Kept, [Next]_vars, status'.narrowed, ~ status.narrowed,
         NEW s \in Slots, run.listed[s] # 0, card[s] = run.listed[s]
  PROVE  Size(library[Target(s)]) >= Size(run.listed[s]) \/ Target(s) \in removed
<1>1. ~ PowerCut
  BY DEF PowerCut
<1>2. finish
  BY <1>1, OnlyFinishes DEF Kept
<1>3. status' = [status EXCEPT !.running = FALSE, !.state = Classified, !.narrowed = Narrows(Classified),
                  !.deferred = run.deferred]
  BY <1>2 DEF finish
<1>4. Narrows(Classified)
  BY <1>3 DEF Kept, ControlTyped
<1>5. run.backlog \subseteq committed
  BY <1>4 DEF Narrows, MayClose, BacklogLeft
<1>6. QED
  BY <1>5 DEF Kept, Promised

\* What a pull says of itself when it ends is so.
THEOREM OutcomeTheorem == Spec => OutcomeIsHonest
<1>1. Kept /\ [Next]_vars /\ Kept' =>
        [(hist.stopRun /\ run.pc = "finish" /\ run'.pc = "off" /\ status.running
          /\ hist'.stopRun) => status'.state = "cancelled"]_vars
  BY StopShown
<1>2. Kept /\ [Next]_vars =>
        [status'.narrowed /\ ~status.narrowed =>
           \A s \in Slots : run.listed[s] # 0 /\ card[s] = run.listed[s] =>
             \/ Size(library[Target(s)]) >= Size(run.listed[s])
             \/ Target(s) \in removed]_vars
  BY SleepsDrained
<1>3. Spec => StopIsTerminal
  BY <1>1, KeptTheorem, PTL DEF Spec, StopIsTerminal
<1>4. Spec => NarrowWhenDrained
  BY <1>2, KeptTheorem, PTL DEF Spec, NarrowWhenDrained
<1>5. QED
  BY <1>3, <1>4 DEF OutcomeIsHonest
=============================================================================
