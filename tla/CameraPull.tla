------------------------------ MODULE CameraPull ------------------------------
(***************************************************************************)
(* The backup of a dashcam's memory card onto the server: when a pull       *)
(* starts (app/ingest/poller.py), what one pull does (app/ingest/puller.py),*)
(* the control channel (adb.py), the bulk stream (transport.py) and the     *)
(* cleanup of files the server already had (duplicate_cleanup.py).          *)
(*                                                                         *)
(* The actors: the recorder in the car, which keeps writing, closing and    *)
(* recycling files on the card; the poller; the one pull in flight; the     *)
(* thread that empties the staging directory; the worker that commits and   *)
(* reclaims chunks behind the stream; the operator; the power supply.       *)
(*                                                                         *)
(* A recording is a content number.  Two contents may have one size, as two *)
(* recordings may; the number also stands for the (size, mtime) stamp the   *)
(* recorder gave it.  A chunk is one file.  0 is "no file", Torn one cut    *)
(* short.  The settings are the demanding ones: delete_after_verify,        *)
(* quiet_radios, only_when_parked and rescue_partials are on.               *)
(***************************************************************************)
EXTENDS Integers, FiniteSets, Sequences

CONSTANTS
    Names,      \* names a recording has in the footage library
    Contents,   \* what recordings can be made of, numbers above 0
    SizeOf,     \* Contents -> Nat, bytes of a recording
    Limit,      \* ingest.max_backups_per_visit, 0 for none
    Retries,    \* Len(ERROR_RETRY_DELAYS_S), pulls retried after an error
    Sweeps,     \* ingest.sweep_passes
    Depth,      \* ingest.commit_queue_depth
    Cards,      \* what the card may hold at first: functions Slots -> Stored
    Few,        \* so many environment events may happen in any combination
    Budgets     \* larger combinations that may: a set of subsets of Events

ASSUME ContentsAssumption == Contents \subseteq Nat \ {0}
ASSUME SizeAssumption == SizeOf \in [Contents -> Nat]
ASSUME NumbersAssumption ==
    /\ Limit \in Nat /\ Retries \in Nat /\ Sweeps \in Nat /\ Depth \in Nat \ {0}
    /\ Few \in Nat

Torn == -1
Stored == Contents \cup {0}

\* A recording lies in DCIM/Video, or stranded beside it as pre_<name>.
Slots == Names \X {"video", "pre"}
Video == Names \X {"video"}
Nowhere == <<"none", "none">>
NoFiles == [s \in Slots |-> 0]

ASSUME CardsAssumption == Cards \subseteq [Slots -> Stored]

Events == {"write", "recycle", "strand", "away", "drive", "hold", "fault",
           "drop", "stop", "lease", "power", "remove", "manual", "hiccup",
           "defer"}
Final == {"ok", "partial", "idle", "error", "cancelled", "offline",
          "unauthorized"}

VARIABLES
    card,       \* Slots -> Stored, what the card holds
    open,       \* slots the recorder is still writing
    young,      \* slots whose mtime is within skip_active_seconds
    used,       \* contents recorded so far
    car,        \* [online, parked]: the unit answers; its ignition is off
    library,    \* Names -> Stored, the footage directory as processes see it
    disk,       \* Names -> Stored, what of it survives a power cut
    staging,    \* Slots -> Stored or Torn, the staging directory
    preserved,  \* Names -> Stored, copies kept during duplicate cleanup
    removed,    \* names the library removed on purpose
    cleaning,   \* the thread that empties staging has not finished
    run,        \* the pull in flight
    queue,      \* Seq(Slots), chunks handed to the commit pipeline
    job,        \* the slot the committer holds, or Nowhere
    stage,      \* what the committer does with it next
    failed,     \* the pipeline's latched failure
    committed,  \* slots this run has committed
    status,     \* IngestStatus: running, state, cancel, reason, narrowed,
                \* deferred (of the last pull, policy_deferred_files > 0)
    poll,       \* IngestPoller: was, backups, errors, ticket
    erased,     \* history: [slot, content] the program deleted on the card
    hist,       \* history: stopRun, passes, beyond
    spent       \* the environment events that have happened, each once

unitVars == <<card, open, young, used, car>>
fileVars == <<library, disk, staging, preserved, removed>>
pipeVars == <<queue, job, stage, failed, committed>>
ctlVars == <<status, poll, hist>>
vars == <<unitVars, fileVars, cleaning, run, pipeVars, ctlVars, erased, spent>>

Can(event) ==
    /\ event \notin spent
    /\ \/ Cardinality(spent) < Few
       \/ \E b \in Budgets : spent \cup {event} \subseteq b
Spend(event) == spent' = spent \cup {event}
Meets(event) == Can(event) /\ Spend(event)

Size(c) == IF c \in Contents THEN SizeOf[c] ELSE -1
\* A slot's name in the library: the pre_ prefix is dropped.
Target(s) == s[1]

NoRun == [pc |-> "off", phase |-> "main", inv |-> NoFiles, fresh |-> {},
          listed |-> NoFiles, todo |-> {}, cur |-> Nowhere,
          expected |-> NoFiles, got |-> {}, gone |-> {}, known |-> FALSE,
          backlog |-> {}, twins |-> {}, admitted |-> FALSE,
          recovered |-> FALSE, complete |-> TRUE, interrupted |-> FALSE,
          sweeps |-> Sweeps, lease |-> "none", owed |-> FALSE,
          deferred |-> FALSE, yielded |-> FALSE, result |-> "error"]

NewVisit == [was |-> FALSE, backups |-> 0, errors |-> 0,
             ticket |-> IF poll.ticket = "this" THEN "old" ELSE poll.ticket]

Init ==
    /\ card \in Cards /\ used = {card[s] : s \in Slots} \ {0}
    /\ open = {} /\ young = {}
    /\ car = [online |-> TRUE, parked |-> TRUE]
    /\ library = [n \in Names |-> 0] /\ disk = library /\ preserved = library
    /\ staging = NoFiles /\ removed = {} /\ cleaning = FALSE
    /\ run = NoRun /\ queue = <<>> /\ job = Nowhere /\ stage = "free"
    /\ failed = FALSE /\ committed = {} /\ erased = {}
    /\ status = [running |-> FALSE, state |-> "idle", cancel |-> FALSE,
                 reason |-> "none", narrowed |-> FALSE, deferred |-> FALSE]
    /\ poll = [was |-> FALSE, backups |-> 0, errors |-> 0, ticket |-> "none"]
    /\ hist = [stopRun |-> FALSE, passes |-> 0, beyond |-> 0]
    /\ spent = {}

-----------------------------------------------------------------------------
(* The recorder and the car.                                               *)

elsewhere == <<fileVars, cleaning, run, pipeVars, status, poll, erased>>

\* A new segment is opened, under any of the camera's names that is free.
Record(n, c) ==
    LET s == <<n, "video">> IN
    /\ Meets("write")
    /\ card[s] = 0 /\ c \notin used
    /\ card' = [card EXCEPT ![s] = c] /\ used' = used \cup {c}
    /\ open' = open \cup {s} /\ young' = young \cup {s}
    /\ UNCHANGED <<car, hist, elsewhere>>

\* The open segment grows; its mtime need not move, the card is vfat.
Grow(s, c) ==
    /\ s \in open /\ c \notin used /\ Size(c) > Size(card[s])
    /\ card' = [card EXCEPT ![s] = c] /\ used' = used \cup {c}
    /\ UNCHANGED <<open, young, car, hist, elsewhere, spent>>

Close(s) ==
    /\ s \in open
    /\ open' = open \ {s}
    /\ UNCHANGED <<card, young, used, car, hist, elsewhere, spent>>

\* A segment's stamp leaves the skip_active_seconds window; a coarse or badly
\* set clock lets that happen to one that is still open.
Age(s) ==
    /\ s \in young
    /\ young' = young \ {s}
    /\ UNCHANGED <<card, open, used, car, hist, elsewhere, spent>>

\* The recorder drops a closed segment to make room.
Recycle(s) ==
    /\ Meets("recycle")
    /\ card[s] # 0 /\ s \notin open
    /\ card' = [card EXCEPT ![s] = 0] /\ young' = young \ {s}
    /\ UNCHANGED <<open, used, car, hist, elsewhere>>

\* The unit's power goes mid-segment: the partial stays behind as pre_<name>.
Strand(n) ==
    LET from == <<n, "video">>
        to == <<n, "pre">> IN
    /\ Meets("strand")
    /\ from \in open /\ card[to] = 0
    /\ card' = [card EXCEPT ![from] = 0, ![to] = card[from]]
    /\ open' = open \ {from} /\ young' = (young \ {from}) \cup {to}
    /\ UNCHANGED <<used, car, hist, elsewhere>>

\* The car leaves the network or returns; the ignition goes on or off.
CarMoves ==
    /\ \/ car.online /\ Meets("away") /\ car' = [car EXCEPT !.online = FALSE]
       \/ ~car.online /\ car' = [car EXCEPT !.online = TRUE] /\ UNCHANGED spent
       \/ car.parked /\ Meets("drive") /\ car' = [car EXCEPT !.parked = FALSE]
       \/ ~car.parked /\ car' = [car EXCEPT !.parked = TRUE] /\ UNCHANGED spent
    /\ UNCHANGED <<card, open, young, used, hist, elsewhere>>

\* Retention, the damaged-footage policy or the operator removes a recording
\* from the library, and its row says so.
RemoveLocal(n) ==
    /\ Meets("remove")
    /\ library[n] # 0
    /\ library' = [library EXCEPT ![n] = 0] /\ disk' = [disk EXCEPT ![n] = 0]
    /\ removed' = removed \cup {n}
    /\ UNCHANGED <<unitVars, staging, preserved, cleaning, run, pipeVars,
                   ctlVars, erased>>

-----------------------------------------------------------------------------
(* The poller.                                                             *)

Starts ==
    /\ ~status.running
    /\ status' = [running |-> TRUE, state |-> "running", cancel |-> FALSE,
                  reason |-> "none", narrowed |-> FALSE, deferred |-> FALSE]
    /\ run' = [NoRun EXCEPT !.pc = "gate"]
    /\ UNCHANGED <<unitVars, fileVars, cleaning, pipeVars, erased>>

\* POST /ingest/run: a pull that no visit pays for.
ManualPull ==
    /\ Meets("manual")
    /\ Starts
    /\ poll' = [poll EXCEPT !.ticket = "manual"]
    /\ hist' = [hist EXCEPT !.stopRun = FALSE]

PollAway ==
    /\ ~status.running /\ ~car.online
    /\ poll' = NewVisit
    /\ status' = [status EXCEPT !.state = "offline"]
    /\ hist' = [hist EXCEPT !.passes = 0, !.beyond = 0]
    /\ UNCHANGED <<unitVars, fileVars, cleaning, run, pipeVars, erased, spent>>

\* A reboot of the unit is observed, also while a pull runs; or a poll raises.
PollForgets ==
    /\ Meets("hiccup")
    /\ poll' = NewVisit
    /\ hist' = [hist EXCEPT !.passes = 0, !.beyond = 0]
    /\ UNCHANGED <<unitVars, fileVars, cleaning, run, pipeVars, status, erased>>

PollArrives ==
    /\ car.online /\ ~poll.was
    /\ Starts
    /\ poll' = [was |-> TRUE, backups |-> 1, errors |-> 0, ticket |-> "this"]
    /\ hist' = [hist EXCEPT !.stopRun = FALSE, !.passes = 0, !.beyond = 0]
    /\ UNCHANGED spent

\* _should_drain_again: an idle card is looked at again, and so is one on which
\* a policy left clips for later, whatever the visit has cost; one that gave
\* files up to the visit's limit, a failed pull while retries are left; a
\* cancelled one never.
BelowLimit == Limit = 0 \/ poll.backups < Limit
ShouldDrainAgain ==
    \/ status.state = "idle"
    \/ status.state \in {"ok", "partial"} /\ (status.deferred \/ BelowLimit)
    \/ status.state = "error" /\ poll.errors < Retries

\* A pass that starts for deferred clips alone, the visit's passes being used up.
ForDeferred == status.state \in {"ok", "partial"} /\ ~BelowLimit

PollDrainsAgain ==
    /\ car.online /\ poll.was /\ ShouldDrainAgain
    /\ Starts
    /\ poll' = [poll EXCEPT !.backups = @ + 1, !.ticket = "this",
                   !.errors = IF status.state = "error" THEN @ + 1 ELSE 0]
    /\ hist' = [hist EXCEPT !.stopRun = FALSE,
                   !.beyond = IF ForDeferred THEN @ + 1 ELSE @]
    /\ UNCHANGED spent

\* POST /ingest/cancel: status.cancel() without a reason outranks any other.
Stop ==
    /\ Meets("stop")
    /\ status.running
    /\ status' = [status EXCEPT !.cancel = TRUE, !.reason = "none"]
    /\ hist' = [hist EXCEPT !.stopRun = TRUE]
    /\ UNCHANGED <<unitVars, fileVars, cleaning, run, pipeVars, poll, erased>>

\* The radio lease is lost, or the native window or the ignition ends it.
LeaseStops(why) ==
    /\ Meets("lease")
    /\ run.lease = "held"
    /\ run' = [run EXCEPT !.lease = "lost"]
    /\ status' = [status EXCEPT !.cancel = TRUE,
                     !.reason = IF status.cancel THEN @ ELSE why]
    /\ UNCHANGED <<unitVars, fileVars, cleaning, pipeVars, poll, hist, erased>>

-----------------------------------------------------------------------------
(* One pull, from its gates to the end of its transfers.                   *)

At(place) == run.pc = place
Ends(r) == run' = [run EXCEPT !.pc = "settle", !.result = r]
Raises == run' = [run EXCEPT !.pc = "discard", !.interrupted = TRUE,
                     !.result = "error"]
rest == <<unitVars, fileVars, pipeVars, ctlVars, erased>>

\* Reachable, authorised, parked, card found, no radio recovery owed.
Gate ==
    /\ At("gate")
    /\ \/ ~car.online /\ Ends("offline") /\ UNCHANGED <<cleaning, spent>>
       \/ /\ car.online /\ Meets("fault") /\ UNCHANGED cleaning
          /\ \E r \in {"error", "unauthorized"} : Ends(r)
       \/ car.online /\ ~car.parked /\ Ends("idle") /\ UNCHANGED <<cleaning, spent>>
       \/ car.online /\ car.parked /\ Meets("hold") /\ Ends("idle") /\ UNCHANGED cleaning
       \/ /\ car.online /\ car.parked
          /\ run' = [run EXCEPT !.pc = "list", !.gone = removed]
          /\ cleaning' = TRUE
          /\ UNCHANGED spent
    /\ UNCHANGED rest

\* The thread that empties the staging directory, file by file.
Clean ==
    /\ cleaning
    /\ \/ \E s \in Slots : staging[s] # 0 /\ staging' = [staging EXCEPT ![s] = 0]
                           /\ UNCHANGED cleaning
       \/ staging = NoFiles /\ cleaning' = FALSE /\ UNCHANGED staging
    /\ UNCHANGED <<unitVars, library, disk, preserved, removed, run, pipeVars,
                   ctlVars, erased, spent>>

\* inventory_all: the card is listed; an AdbError ends the body of the run.
List ==
    /\ At("list")
    /\ \/ /\ car.online
          /\ run' = [run EXCEPT !.pc = "plan", !.fresh = young,
                        !.inv = [s \in Slots |-> IF s \in Video THEN card[s] ELSE 0]]
          /\ UNCHANGED spent
       \/ ~car.online /\ Raises /\ UNCHANGED spent
       \/ car.online /\ Meets("fault") /\ Raises
    /\ UNCHANGED <<rest, cleaning>>

\* delta: not a name the library removed, not inside the active window of the
\* listing, and not here already by its size.
Same(s) == library[Target(s)] # 0 /\ Size(library[Target(s)]) = Size(run.inv[s])
Ready == {s \in Slots : run.inv[s] # 0 /\ Target(s) \notin run.gone
                         /\ s \notin run.fresh}

\* A transfer policy may leave clips for later (ParkedFilter has the policy), and
\* may do so again at the next listing of the same pull.
Defers == IF run.deferred THEN UNCHANGED spent ELSE Meets("defer")

\* What is deferred is backlog and is not copied. A sweep that meets a clip whose
\* analysis is due may end the batch there, to let the logger look at it.
delta ==
    LET plan == {s \in Ready : ~Same(s)}
        first == run.phase = "main" IN
    /\ At("plan")
    /\ \E held \in SUBSET plan, yields \in BOOLEAN :
          /\ IF held = {} THEN UNCHANGED spent ELSE Defers
          /\ yields => held # {} /\ ~first /\ ~status.cancel
          /\ run' = [run EXCEPT !.pc = IF status.cancel THEN "settle"
                                       ELSE IF yields THEN "rescue" ELSE "look",
                  !.result = "cancelled", !.known = TRUE,
                  !.todo = IF yields THEN {} ELSE plan \ held,
                  !.deferred = held # {}, !.yielded = yields,
                  !.backlog = IF first THEN plan ELSE @,
                  !.twins = IF first THEN Ready \ plan ELSE @,
                  !.listed = IF first
                             THEN [s \in Slots |-> IF s \in plan THEN run.inv[s] ELSE 0]
                             ELSE @]
    /\ UNCHANGED <<rest, cleaning>>

\* _drop_still_growing: a second listing; what changed size or vanished is
\* left, and a listing that fails leaves the plan as it is.
Growing == {s \in run.todo : Size(card[s]) # Size(run.inv[s])}
_drop_still_growing ==
    /\ At("look")
    /\ \E keep \in {run.todo \ Growing} \cup (IF car.online THEN {} ELSE {run.todo}) :
          IF keep # {} \/ run.phase # "main"
          THEN /\ run' = [run EXCEPT !.todo = keep, !.result = "idle",
                             !.pc = IF keep # {} THEN "admit" ELSE "sweep",
                             !.sweeps = IF run.phase = "main" THEN @ ELSE 0]
               /\ UNCHANGED spent
          ELSE \E admitted \in BOOLEAN :
               /\ run' = [run EXCEPT !.todo = {}, !.result = "idle",
                             !.pc = "settle", !.admitted = admitted]
               /\ IF admitted THEN UNCHANGED spent ELSE Meets("hold")
    /\ UNCHANGED <<rest, cleaning>>

\* The staging directory is empty before the first byte of a run.
\* Mutant: the thread that empties it is not awaited.
CleanerIgnored == TRUE
StagingReady == ~cleaning \/ run.phase # "main"

\* Before the first byte: the band the unit is on is refused; its adbd does
\* not come back from a restart as root; the footage directory is not safe.
BandHolds == Meets("hold") /\ Ends("idle")
RootChannelLost == Meets("fault") /\ Ends("idle")
FootageUnsafe == Meets("fault") /\ Ends("error")

\* What of the plan fits on the footage volume: all of it, or a part.
Fits(files) ==
    /\ files # {} /\ files \subseteq run.todo
    /\ IF files = run.todo THEN UNCHANGED spent ELSE Meets("fault")

\* A run's admission, or a sweep's plan (which only has to fit).
Admit ==
    /\ At("admit")
    /\ \/ run.phase = "main" /\ status.cancel /\ Ends("cancelled") /\ UNCHANGED spent
       \/ run.phase = "main" /\ (BandHolds \/ RootChannelLost \/ FootageUnsafe)
       \/ /\ StagingReady
          /\ run.phase = "main" => ~status.cancel
          /\ \E files \in SUBSET run.todo :
                /\ Fits(files)
                /\ run' = [run EXCEPT !.pc = "move", !.todo = files,
                              !.lease = IF run.phase = "main" THEN "held" ELSE @,
                              !.admitted = TRUE, !.recovered = FALSE,
                              !.expected = [s \in Slots |->
                                  IF s \in files THEN run.inv[s] ELSE @[s]]]
    /\ UNCHANGED <<rest, cleaning>>

\* _move: the next chunk's listener, after the lease and the flag are read.
Launch ==
    /\ At("move")
    /\ IF run.lease = "lost" THEN Raises
       ELSE IF status.cancel
       THEN run' = [run EXCEPT !.pc = "submit", !.cur = Nowhere,
                       !.complete = FALSE]
       ELSE \E s \in run.todo : run' = [run EXCEPT !.pc = "stream", !.cur = s]
    /\ UNCHANGED <<rest, cleaning, spent>>

\* _yield_for_new_analysis: after a chunk the batch ends, complete as far as it
\* went, for a clip whose analysis is due.
YieldBatch ==
    /\ At("move") /\ run.phase = "main" /\ run.got # {}
    /\ Defers
    /\ run' = [run EXCEPT !.pc = "submit", !.cur = Nowhere, !.todo = {},
                  !.deferred = TRUE, !.yielded = TRUE]
    /\ UNCHANGED <<rest, cleaning>>

\* _can_resume_stream: one recovery per pass, of a parked car that answers.
CanResume == ~run.recovered /\ car.online /\ car.parked /\ ~status.cancel

\* What the receiver reports about the chunk it asked for.
Received(arrival, whole, retryable) ==
    LET s == run.cur IN
    /\ staging' = [staging EXCEPT ![s] = arrival]
    /\ IF run.lease = "lost" THEN Raises
       ELSE IF whole
       THEN run' = [run EXCEPT !.pc = "submit", !.todo = @ \ {s},
                       !.got = @ \cup {s}]
       ELSE IF retryable /\ CanResume
       THEN run' = [run EXCEPT !.pc = "move", !.recovered = TRUE]
       ELSE run' = [run EXCEPT !.pc = "submit", !.todo = {},
                       !.complete = @ /\ run.phase = "rescue"]

\* transport.receive: the tar stream into staging.  A member whose size is
\* not the listed one is refused; a stream that dies leaves the file torn.
receive ==
    LET s == run.cur IN
    /\ At("stream")
    /\ \/ status.cancel /\ Received(Torn, FALSE, FALSE) /\ UNCHANGED spent
       \/ ~car.online /\ Received(Torn, FALSE, TRUE) /\ UNCHANGED spent
       \/ car.online /\ Meets("drop") /\ Received(Torn, FALSE, TRUE)
       \/ /\ car.online /\ ~status.cancel /\ UNCHANGED spent
          /\ CASE card[s] = 0 -> Received(staging[s], FALSE, TRUE)
               [] card[s] # 0 /\ Size(card[s]) # Size(run.expected[s]) ->
                     Received(staging[s], FALSE, FALSE)
               [] OTHER -> Received(card[s], TRUE, FALSE)
    /\ UNCHANGED <<unitVars, library, disk, preserved, removed, cleaning,
                   pipeVars, ctlVars, erased>>

\* _CommitPipeline.submit: a chunk is handed over, waiting while the queue is
\* full; a failure of an earlier chunk surfaces here.  A sweep commits inline,
\* which is a hand-over that waits for the committer to be done.
Inline == run.phase # "main"
submit ==
    /\ At("submit")
    /\ \/ failed /\ Raises /\ UNCHANGED queue
       \/ /\ ~failed
          /\ run.cur # Nowhere => Len(queue) < Depth
          /\ queue' = IF run.cur = Nowhere THEN queue ELSE Append(queue, run.cur)
          /\ run' = [run EXCEPT !.cur = Nowhere,
                        !.pc = IF Inline THEN "close"
                               ELSE IF run.todo = {} \/ ~run.complete \/ status.cancel
                               THEN "close" ELSE "move"]
    /\ UNCHANGED <<unitVars, fileVars, cleaning, job, stage, failed, committed,
                   ctlVars, erased, spent>>

\* _CommitPipeline.close: what is queued is finished before anything is read.
close ==
    /\ At("close")
    /\ queue = <<>> /\ job = Nowhere
    /\ IF failed THEN Raises
       ELSE run' = [run EXCEPT !.pc =
                IF Inline /\ run.todo # {} /\ ~status.cancel THEN "move"
                ELSE "second"]
    /\ UNCHANGED <<rest, cleaning, spent>>

\* close(discard=True): queued chunks are dropped, the one in hand settles.
Discard ==
    /\ At("discard")
    /\ queue' = <<>>
    /\ job = Nowhere /\ UNCHANGED <<job, stage, failed, committed>>
    /\ run' = [run EXCEPT !.pc = "settle"]
    /\ UNCHANGED <<unitVars, fileVars, cleaning, ctlVars, erased, spent>>

\* The second pass over staging, for files the pipeline did not commit.
Leftover(where) == {s \in where : run.expected[s] # 0 /\ s \notin committed
                                   /\ staging[s] # 0}
SecondPass ==
    /\ At("second") /\ job = Nowhere
    /\ \/ /\ \E s \in Leftover(Slots) : job' = s
          /\ stage' = "check" /\ UNCHANGED run
       \/ /\ Leftover(Slots) = {}
          /\ run' = [run EXCEPT !.pc = IF run.phase = "rescue" THEN "total"
                                       ELSE "sweep"]
          /\ UNCHANGED <<job, stage>>
    /\ UNCHANGED <<unitVars, fileVars, cleaning, queue, failed, committed,
                   ctlVars, erased, spent>>

\* The card is looked at again for segments closed during the transfer.
Sweep ==
    /\ At("sweep")
    /\ run' = IF run.complete /\ ~run.yielded /\ ~status.cancel /\ run.sweeps > 0
              THEN [run EXCEPT !.pc = "list", !.phase = "sweep",
                       !.sweeps = @ - 1]
              ELSE [run EXCEPT !.pc = "rescue"]
    /\ UNCHANGED <<rest, cleaning, spent>>

\* _rescue_partials: stranded pre_ files that the library has neither kept
\* nor removed; losing the unit here costs the rescue, not the run.
Orphans == {s \in Slots \ Video : /\ card[s] # 0 /\ s \notin young
                                  /\ library[Target(s)] = 0
                                  /\ Target(s) \notin run.gone}
MayRescue == run.complete /\ ~run.yielded /\ ~status.cancel
_rescue_partials ==
    /\ At("rescue")
    /\ run' = IF run.lease = "lost" /\ MayRescue
              THEN [run EXCEPT !.pc = "discard", !.interrupted = TRUE,
                       !.result = "error"]
              ELSE IF MayRescue /\ car.online /\ Orphans # {}
              THEN [run EXCEPT !.pc = "move", !.phase = "rescue",
                       !.todo = Orphans, !.recovered = FALSE,
                       !.inv = [s \in Slots |-> IF s \in Orphans THEN card[s] ELSE @[s]],
                       !.expected = [s \in Slots |->
                           IF s \in Orphans THEN card[s] ELSE @[s]]]
              ELSE [run EXCEPT !.pc = "total"]
    /\ UNCHANGED <<rest, cleaning, spent>>

\* How the body of the run sums itself up.
Wanted == {s \in Video : run.expected[s] # 0}
\* A batch that was ended early wants no more than it got.
Undelivered == IF run.yielded THEN Slots \ run.got ELSE {}
Total ==
    /\ At("total")
    /\ Ends(IF run.complete /\ Wanted \ Undelivered \subseteq committed THEN "ok"
            ELSE IF status.cancel THEN "cancelled"
            ELSE IF committed # {} THEN "partial" ELSE "error")
    /\ UNCHANGED <<rest, cleaning, spent>>

-----------------------------------------------------------------------------
(* The committer: commit() and _reclaim(), one file at a time.             *)

\* Mutant: after a failure the worker takes nothing more.
DrainStops ==
    /\ job = Nowhere /\ queue # <<>> /\ ~At("discard") /\ ~failed
    /\ queue' = Tail(queue)
    /\ job' = Head(queue) /\ stage' = "check"
    /\ UNCHANGED <<unitVars, fileVars, cleaning, run, failed, committed,
                   ctlVars, erased, spent>>
\* The pipeline worker takes the next chunk; after a failure it only drains.
Drain ==
    /\ job = Nowhere /\ queue # <<>> /\ ~At("discard")
    /\ queue' = Tail(queue)
    /\ IF failed THEN UNCHANGED <<job, stage>>
       ELSE job' = Head(queue) /\ stage' = "check"
    /\ UNCHANGED <<unitVars, fileVars, cleaning, run, failed, committed,
                   ctlVars, erased, spent>>

\* A staged file of another size than listed is discarded; one of the size
\* the library has is compared byte by byte; a larger one there is kept.
Whole(s) == staging[s] # Torn /\ Size(staging[s]) = Size(run.expected[s])
Publishes(s) ==
    /\ staging[s] # 0 /\ Whole(s)
    /\ library[Target(s)] = 0 \/ Size(library[Target(s)]) < Size(staging[s])
Identical(s) == staging[s] # 0 /\ Whole(s) /\ library[Target(s)] = staging[s]

\* commit: the file is flushed and renamed over the library's name; the
\* directory entry is not durable yet.
commit ==
    LET s == job IN
    /\ stage = "check"
    /\ staging' = [staging EXCEPT ![s] = 0]
    /\ library' = IF Publishes(s)
                  THEN [library EXCEPT ![Target(s)] = staging[s]] ELSE library
    /\ IF Publishes(s) \/ Identical(s)
       THEN stage' = "sync" /\ UNCHANGED job
       ELSE stage' = "free" /\ job' = Nowhere
    /\ UNCHANGED <<unitVars, disk, preserved, removed, cleaning, run, queue,
                   failed, committed, ctlVars, erased, spent>>

\* _sync_directory: only now is the name reported committed.  An OSError
\* leaves the file where it is and the name unreported.
_sync_directory ==
    LET s == job IN
    /\ stage = "sync"
    /\ \/ /\ disk' = [disk EXCEPT ![Target(s)] = library[Target(s)]]
          /\ committed' = committed \cup {s}
          /\ IF At("salvage") THEN stage' = "free" /\ job' = Nowhere
             ELSE stage' = "reclaim" /\ UNCHANGED job
          /\ UNCHANGED spent
       \/ Meets("fault") /\ stage' = "free" /\ job' = Nowhere
          /\ UNCHANGED <<disk, committed>>
    /\ UNCHANGED <<unitVars, library, staging, preserved, removed, cleaning,
                   run, queue, failed, ctlVars, erased>>

\* The unit compares size and mtime with the listing and unlinks in one shell.
\* Mutant: only the size is compared.
SizeUnchanged(s) == Size(card[s]) = Size(run.expected[s])
Unchanged(s) == card[s] = run.expected[s]
Erase(s) ==
    /\ card' = [card EXCEPT ![s] = 0]
    /\ open' = open \ {s} /\ young' = young \ {s}
    /\ erased' = erased \cup {[slot |-> s, content |-> card[s]]}
    /\ UNCHANGED <<used, car>>
_reclaim ==
    LET s == job IN
    /\ stage = "reclaim"
    /\ stage' = "free" /\ job' = Nowhere
    /\ failed' = (failed \/ run.lease = "lost")
    /\ \/ /\ run.lease # "lost" /\ car.online /\ card[s] # 0 /\ Unchanged(s)
          /\ Erase(s) /\ UNCHANGED spent
       \/ /\ run.lease = "lost" \/ ~car.online \/ card[s] = 0 \/ ~Unchanged(s)
          /\ UNCHANGED <<unitVars, erased, spent>>
       \/ Meets("drop") /\ UNCHANGED <<unitVars, erased>>
    /\ UNCHANGED <<fileVars, cleaning, run, queue, committed, ctlVars>>

-----------------------------------------------------------------------------
(* The end of a run: radios, salvage, duplicates, the published outcome.   *)

\* The radios come first; what cannot be restored stays owed to a later run.
Settle ==
    /\ At("settle")
    /\ \E restored \in BOOLEAN :
          /\ restored => run.lease = "none" \/ car.online
          /\ IF restored \/ run.lease = "none" \/ ~car.online
             THEN UNCHANGED spent ELSE Meets("fault")
          /\ LET lost == ~restored /\ run.lease # "none" IN
             run' = [run EXCEPT !.lease = "none", !.owed = lost,
                !.pc = IF run.interrupted THEN "salvage" ELSE "join",
                !.result = IF lost /\ @ = "ok" THEN "partial"
                           ELSE IF lost /\ status.reason = "window"
                                   /\ ~run.interrupted
                           THEN IF committed # {} THEN "partial" ELSE "error"
                           ELSE @]
    /\ UNCHANGED <<rest, cleaning>>

\* After an exception every complete arrival is still committed, but nothing
\* is deleted on the card any more.
Salvage ==
    /\ At("salvage") /\ job = Nowhere
    /\ \/ \E s \in Leftover(Video) : job' = s /\ stage' = "check" /\ UNCHANGED run
       \/ /\ Leftover(Video) = {}
          /\ run' = [run EXCEPT !.pc = "join",
                        !.result = IF committed # {} THEN "partial" ELSE "error"]
          /\ UNCHANGED <<job, stage>>
    /\ UNCHANGED <<unitVars, fileVars, cleaning, queue, failed, committed,
                   ctlVars, erased, spent>>

\* _join_staging_cleanup: the deletion thread is awaited whatever happened.
_join_staging_cleanup ==
    /\ At("join") /\ ~cleaning
    /\ run' = [run EXCEPT !.pc =
          IF run.admitted /\ run.result \in {"ok", "idle"} /\ ~status.cancel
             /\ ~run.owed
          THEN "twins" ELSE "finish"]
    /\ UNCHANGED <<rest, cleaning, spent>>

\* cleanup_verified_duplicates: a private copy of the library's file is made,
\* the card's file is hashed against it, the library's file is looked at once
\* more, and only then is the card's file hashed again and unlinked.
Steady == car.online /\ car.parked /\ ~status.cancel
PrepareTwin ==
    /\ At("twins")
    /\ \/ /\ \E s \in run.twins :
                IF Steady /\ Same(s)
                THEN /\ preserved' = [preserved EXCEPT ![Target(s)] = library[Target(s)]]
                     /\ run' = [run EXCEPT !.pc = "hash", !.cur = s,
                                   !.twins = @ \ {s}]
                ELSE /\ UNCHANGED preserved
                     /\ run' = [run EXCEPT !.twins = IF Steady THEN @ \ {s} ELSE {}]
       \/ /\ run.twins = {} /\ UNCHANGED preserved
          /\ run' = [run EXCEPT !.pc = "finish"]
    /\ UNCHANGED <<unitVars, library, disk, staging, removed, cleaning,
                   pipeVars, ctlVars, erased, spent>>

Verified(s) == card[s] # 0 /\ card[s] = preserved[Target(s)]
               /\ card[s] = run.inv[s]
HashTwin ==
    LET s == run.cur
        sure == Steady /\ Verified(s) /\ library[Target(s)] = preserved[Target(s)] IN
    /\ At("hash")
    /\ run' = [run EXCEPT !.pc = IF sure THEN "unlink" ELSE "twins",
                  !.twins = IF sure THEN @ ELSE {}]
    /\ preserved' = IF sure THEN preserved
                    ELSE [preserved EXCEPT ![Target(s)] = 0]
    /\ UNCHANGED <<unitVars, library, disk, staging, removed, cleaning,
                   pipeVars, ctlVars, erased, spent>>

UnlinkTwin ==
    LET s == run.cur IN
    /\ At("unlink")
    /\ \/ car.online /\ Verified(s) /\ Erase(s) /\ UNCHANGED spent
       \/ ~(car.online /\ Verified(s)) /\ UNCHANGED <<unitVars, erased, spent>>
       \/ Meets("drop") /\ UNCHANGED <<unitVars, erased>>
    /\ run' = [run EXCEPT !.pc = "twins",
                  !.twins = IF erased' # erased THEN @ ELSE {}]
    /\ preserved' =
          IF erased' # erased /\ library[Target(s)] = preserved[Target(s)]
          THEN [preserved EXCEPT ![Target(s)] = 0] ELSE preserved
    /\ UNCHANGED <<library, disk, staging, removed, cleaning, pipeVars, ctlVars>>

\* _classify_cancellation: an operator's Stop ends as cancelled whatever else
\* happened; a safety stop stays retryable.
Classified ==
    LET r == run.result
        kept == IF committed # {} THEN "partial" ELSE "error" IN
    IF ~status.cancel THEN r
    ELSE IF status.reason = "none" THEN "cancelled"
    ELSE IF status.reason = "window" /\ r \in {"cancelled", "partial", "error"}
    THEN IF committed # {} THEN "partial" ELSE IF run.owed THEN "error" ELSE "idle"
    ELSE IF status.reason = "lost" /\ r \in {"cancelled", "partial"} THEN kept
    ELSE r

\* status.set_backlog: what was planned or found later and is not committed.
\* Mutant: what was planned but did not fit on the disk is forgotten.
BacklogSent == Wanted \ committed
BacklogLeft == (run.backlog \cup Wanted) \ committed

\* _sleep_window_may_close, and close_sleep_window, which asks the unit again.
MayClose(r) ==
    /\ r \in {"ok", "idle"} /\ run.known
    /\ BacklogLeft = {} /\ ~run.deferred /\ ~run.owed
Narrows(r) == MayClose(r) /\ car.online /\ car.parked

\* The poller's callback: a pull of this visit that postponed all copying
\* gives its pass back.
PassesLeft(r) ==
    IF poll.ticket = "this" /\ r = "idle" /\ committed = {}
    THEN IF poll.backups > 0 THEN poll.backups - 1 ELSE 0
    ELSE poll.backups

\* The outcome is published, the window narrows, the poller is told.
finish ==
    LET r == Classified IN
    /\ At("finish")
    /\ status' = [status EXCEPT !.running = FALSE, !.state = r,
                     !.narrowed = Narrows(r), !.deferred = run.deferred]
    /\ run' = NoRun /\ failed' = FALSE /\ committed' = {}
    /\ poll' = [poll EXCEPT !.ticket = "none", !.backups = PassesLeft(r)]
    /\ hist' = [hist EXCEPT !.passes =
                   IF poll.ticket = "this" /\ committed # {} THEN @ + 1 ELSE @]
    /\ UNCHANGED <<unitVars, fileVars, cleaning, queue, job, stage, erased, spent>>

\* The server loses power: what was not synced may be gone, the run is.
PowerCut ==
    /\ Meets("power")
    /\ \E lost \in SUBSET Names, tear \in BOOLEAN :
          /\ library' = [n \in Names |-> IF n \in lost THEN disk[n] ELSE library[n]]
          /\ staging' = [s \in Slots |->
                IF tear /\ staging[s] # 0 THEN Torn ELSE staging[s]]
    /\ disk' = library'
    /\ cleaning' = FALSE /\ run' = NoRun
    /\ queue' = <<>> /\ job' = Nowhere /\ stage' = "free" /\ failed' = FALSE
    /\ committed' = {}
    /\ status' = [running |-> FALSE, state |-> "idle", cancel |-> FALSE,
                  reason |-> "none", narrowed |-> FALSE, deferred |-> FALSE]
    /\ poll' = [was |-> FALSE, backups |-> 0, errors |-> 0, ticket |-> "none"]
    /\ hist' = [stopRun |-> FALSE, passes |-> 0, beyond |-> 0]
    /\ UNCHANGED <<unitVars, preserved, removed, erased>>

-----------------------------------------------------------------------------
Recorder ==
    \/ \E n \in Names, c \in Contents : Record(n, c)
    \/ \E s \in open, c \in Contents : Grow(s, c)
    \/ \E s \in open : Close(s)
    \/ \E s \in young : Age(s)
    \/ \E s \in Slots : Recycle(s)
    \/ \E n \in Names : Strand(n)
Poller == PollAway \/ PollForgets \/ PollArrives \/ PollDrainsAgain
Body ==
    \/ Gate \/ List \/ delta \/ _drop_still_growing \/ Admit \/ Launch
    \/ YieldBatch \/ receive \/ submit \/ close \/ Discard \/ SecondPass \/ Sweep
    \/ _rescue_partials \/ Total \/ Settle \/ Salvage \/ _join_staging_cleanup
    \/ PrepareTwin \/ HashTwin \/ UnlinkTwin \/ finish
Committer == Drain \/ commit \/ _sync_directory \/ _reclaim
Operator == Stop \/ ManualPull \/ \E n \in Names : RemoveLocal(n)

Next ==
    \/ Recorder \/ CarMoves \/ Poller \/ Body \/ Clean \/ Committer \/ Operator
    \/ LeaseStops("lost") \/ LeaseStops("window") \/ PowerCut

\* The event loop runs the pull, its worker and the cleaning thread, and the
\* poller ticks; car, recorder and operator owe nothing.
Fairness ==
    /\ WF_vars(Body) /\ WF_vars(Committer) /\ WF_vars(Clean)
    /\ WF_vars(PollArrives \/ PollDrainsAgain)

Spec == Init /\ [][Next]_vars /\ Fairness

-----------------------------------------------------------------------------
(* Properties.                                                             *)

\* Every variable keeps its type; in particular the library never shows a
\* recording that was cut short (commit's size check).
TypeOK ==
    /\ card \in [Slots -> Stored] /\ open \subseteq Slots
    /\ young \subseteq Slots /\ used \subseteq Contents
    /\ car \in [online : BOOLEAN, parked : BOOLEAN]
    /\ library \in [Names -> Stored] /\ disk \in [Names -> Stored]
    /\ staging \in [Slots -> Stored \cup {Torn}]
    /\ preserved \in [Names -> Stored] /\ removed \subseteq Names
    /\ cleaning \in BOOLEAN /\ queue \in Seq(Slots) /\ Len(queue) <= Depth
    /\ job \in Slots \cup {Nowhere}
    /\ stage \in {"free", "check", "sync", "reclaim"}
    /\ failed \in BOOLEAN /\ committed \subseteq Slots
    /\ erased \subseteq [slot : Slots, content : Contents]

\* The program deletes a recording from the card only while those very bytes
\* are on the server's disk, in the library or in the private copy of the
\* duplicate cleanup, or were removed from the library on purpose: however
\* the recorder reuses names, the stream breaks or the power fails.
EraseOnlySaved ==
    [][\A e \in erased' \ erased :
          LET n == Target(e.slot) IN
          disk[n] = e.content \/ preserved[n] = e.content \/ n \in removed]_vars

\* The thread that empties the staging directory is never at work once the
\* run has an arrival there, nor after the run is over.
CleanerIsAlone == cleaning => run.got = {} /\ status.running

\* A Stop by the operator is how the run ends: no later lease loss, window
\* end, error or success publishes another outcome (_classify_cancellation).
StopIsTerminal ==
    [][(hist.stopRun /\ run.pc = "finish" /\ run'.pc = "off" /\ status.running
        /\ hist'.stopRun) => status'.state = "cancelled"]_vars

\* Automatic pulls that copied footage stay within max_backups_per_visit, but for
\* one more for each pass that started at the limit for deferred clips,
\* although a postponed pull gives its pass back and may end in a later visit.
\* A pull the operator starts leaves an outcome that restarts the series, even
\* at the limit.
VisitBounded ==
    Limit > 0 /\ "manual" \notin spent => hist.passes <= Limit + hist.beyond

\* The unit is let go to sleep early only when everything the run's listing
\* owed and the card still has is in the library or was removed from it on
\* purpose: no file is left behind by a queue, a sweep or a failed commit.
NarrowWhenDrained ==
    [][status'.narrowed /\ ~status.narrowed =>
          \A s \in Slots : run.listed[s] # 0 /\ card[s] = run.listed[s] =>
             \/ Size(library[Target(s)]) >= Size(run.listed[s])
             \/ Target(s) \in removed]_vars

\* Every pull ends, whatever fails behind the stream (the queue keeps
\* draining after a failed commit).
RunEnds == status.running ~> ~status.running

\* The variables keep their types, the thread that empties the staging
\* directory is alone there, and a visit has no more pulls than it may.
StaysInBounds == TypeOK /\ CleanerIsAlone /\ VisitBounded

\* What a pull says of itself when it ends is so: a Stop is reported as one, and
\* the unit is let go to sleep only with nothing left on its card.
OutcomeIsHonest == StopIsTerminal /\ NarrowWhenDrained
=============================================================================
