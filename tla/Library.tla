------------------------------- MODULE Library -------------------------------
(***************************************************************************)
(* The library of recordings: the scan that compares the footage share with *)
(* the index (app/scanner), and the retention that removes footage          *)
(* (app/retention, run by app/workers/scheduler.py), beside the writer of   *)
(* the share and a worker that analyses what the scan queued.               *)
(*                                                                         *)
(* A file has bytes (c, 0 for an empty file) and a size and time stamp (t,  *)
(* not positive when there is no file); all files have the same size.  A    *)
(* scan handles one file per batch.                                        *)
(***************************************************************************)
EXTENDS Integers, FiniteSets, Sequences, SequencesExt

CONSTANTS
    Files,          \* names on the share, ordered by the time they were recorded
    Limit,          \* files that fit (storage.max_footage_gb)
    MaxPercent,     \* of the index one plan may remove (storage.max_delete_fraction)
    Still,          \* files in which nothing moves (idle, and parked journeys)
    Apart,          \* TRUE: no file is replaced while it is analysed
    Few,            \* so many environment events may happen in any combination
    Budgets         \* larger combinations that may: a set of subsets of Events

ASSUME FilesAssumption == Files \subseteq Nat /\ IsFiniteSet(Files) /\ Still \subseteq Files
ASSUME NumbersAssumption == Limit \in Nat /\ MaxPercent \in 0 .. 100 /\ Few \in Nat

Events == {"arrive", "replace", "touch", "unmount", "walk", "protect", "cleanup", "crash"}

VARIABLES
    disk,       \* Files -> [c, t, quiet]
    mounted,    \* whether the share is there
    row,        \* Files -> the recording, state "none" before there is one
    scan,       \* the scanner: pc, todo, seen, err, f, entry and row as loaded
    ret,        \* the retention task: pc, left (kinds), safe, cands, gone, indexed
    lost,       \* files that have really been removed from the share (history)
    late,       \* files a request or the queue changed after retention's check (history)
    skipped,    \* files the walk passed over and that were not reconciled since (history)
    unread,     \* files whose bytes could not be read when the scan last wanted to (history)
    spent       \* the environment events that have happened, each once

faults == <<skipped, unread>>
vars == <<disk, mounted, row, scan, ret, lost, late, faults, spent>>

Meets(event) ==
    /\ event \notin spent
    /\ \/ Cardinality(spent) < Few
       \/ \E b \in Budgets : spent \cup {event} \subseteq b
    /\ spent' = spent \cup {event}

QUEUEABLE_STATES == {"discovered", "metadata"}
NoRow == [state |-> "none", stat |-> 0, fp |-> 0, fpt |-> 0, missing |-> FALSE,
          ignored |-> FALSE, protected |-> FALSE, read |-> 0, job |-> "none"]
NoScan == [pc |-> "off", todo |-> {}, seen |-> {}, err |-> FALSE, f |-> 0,
           entry |-> 0, was |-> NoRow]
NoRet == [pc |-> "off", left |-> <<>>, safe |-> FALSE, cands |-> <<>>, gone |-> {},
          indexed |-> 0]
Touched(fs) == late' = IF ret.pc = "unlink" THEN late \cup (fs \cap {Head(ret.cands)}) ELSE late
OnDisk == {f \in Files : disk[f].t > 0}
Indexed == {f \in Files : row[f].state # "none" /\ ~row[f].missing}

Init ==
    /\ \E newest \in Files :
         disk = [f \in Files |-> IF f <= newest THEN [c |-> 1, t |-> 1, quiet |-> TRUE]
                                 ELSE [c |-> 0, t |-> 0, quiet |-> TRUE]]
    /\ mounted = TRUE /\ row = [f \in Files |-> NoRow]
    /\ scan = NoScan /\ ret = NoRet /\ lost = {} /\ late = {}
    /\ skipped = {} /\ unread = {} /\ spent = {}

-----------------------------------------------------------------------------
(* The share.                                                              *)

Replaced(f, content) ==
    disk' = [disk EXCEPT ![f] = [c |-> content, t |-> (IF @.t < 0 THEN -@.t ELSE @.t) + 1, quiet |-> FALSE]]
\* A pull or a copy: a new file, at first empty or not, a longer one in its
\* place, or the same bytes with a new time stamp.
Write(f) ==
    /\ mounted /\ (Apart => row[f].job # "running")
    /\ \/ /\ disk[f].t <= 0 /\ Meets("arrive")
          /\ \E content \in {0, disk[f].c + 1} : Replaced(f, content)
       \/ disk[f].t > 0 /\ Meets("replace") /\ Replaced(f, disk[f].c + 1)
       \/ disk[f].t > 0 /\ Meets("touch") /\ Replaced(f, disk[f].c)
    /\ UNCHANGED <<mounted, row, scan, ret, lost, late, faults>>

\* scanner.settle_seconds pass without a write.
Settle(f) ==
    /\ ~disk[f].quiet /\ disk' = [disk EXCEPT ![f].quiet = TRUE]
    /\ UNCHANGED <<mounted, row, scan, ret, lost, late, spent, faults>>

Unmount ==
    /\ mounted /\ Meets("unmount") /\ mounted' = FALSE
    /\ UNCHANGED <<disk, row, scan, ret, lost, late, faults>>
Mount ==
    /\ ~mounted /\ mounted' = TRUE
    /\ UNCHANGED <<disk, row, scan, ret, lost, late, spent, faults>>

-----------------------------------------------------------------------------
(* The scan.                                                               *)

\* assess
assess(entry, was) ==
    IF ~entry.quiet \/ (was.state # "none" /\ was.stat # entry.t) THEN "settling"
    ELSE IF entry.c = 0 THEN "invalid" ELSE "ready"

\* One scan at a time; a share that is not there at all ends it.
StartScan ==
    /\ scan.pc = "off"
    /\ scan' = [NoScan EXCEPT !.pc = IF mounted THEN "walk" ELSE "queue", !.todo = Files]
    /\ UNCHANGED <<disk, mounted, row, ret, lost, late, spent, faults>>

\* The next directory entry and its row.  A share that goes away under the walk
\* fails it; one that went away before its first entry looks empty.
WalkNext ==
    /\ scan.pc = "walk" /\ scan.todo # {}
    /\ LET f == CHOOSE f \in scan.todo : \A g \in scan.todo : f <= g IN
         scan' = IF ~mounted THEN [scan EXCEPT !.todo = {}, !.err = scan.todo # Files]
                 ELSE IF disk[f].t <= 0 THEN [scan EXCEPT !.todo = @ \ {f}]
                 ELSE [scan EXCEPT !.pc = "entry", !.todo = @ \ {f}, !.f = f,
                                   !.seen = @ \cup {f}, !.entry = disk[f], !.was = row[f]]
    /\ UNCHANGED <<disk, mounted, row, ret, lost, late, spent, faults>>

\* An entry whose type or stat cannot be read is passed over without an error,
\* and with a directory all that is in it.
SkipEntry ==
    /\ scan.pc = "walk" /\ mounted /\ Meets("walk")
    /\ \E fs \in SUBSET (scan.todo \cap OnDisk) :
          /\ fs # {} /\ skipped' = skipped \cup fs
          /\ scan' = [scan EXCEPT !.todo = @ \ fs]
    /\ UNCHANGED <<disk, mounted, row, ret, lost, late, unread>>

WalkFails ==
    /\ scan.pc = "walk" /\ scan.todo # {} /\ Meets("walk")
    /\ scan' = [scan EXCEPT !.todo = {}, !.err = TRUE]
    /\ UNCHANGED <<disk, mounted, row, ret, lost, late, faults>>

_mark_invalid(r) == [r EXCEPT !.state = "invalid", !.fp = 0, !.fpt = 0]

\* A row that is new: read when it is settled, and then only if it did not
\* change during the reading.
NewRow(entry, now) ==
    LET made == [NoRow EXCEPT !.state = "discovered", !.stat = entry.t] IN
    CASE assess(entry, NoRow) = "invalid" -> _mark_invalid(made)
      [] assess(entry, NoRow) = "settling" -> [made EXCEPT !.state = "settling"]
      [] OTHER -> IF now.t = entry.t THEN [made EXCEPT !.fp = now.c, !.fpt = entry.t]
                  ELSE [made EXCEPT !.state = "settling", !.stat = now.t]

\* A file that moves again is held back.
HeldBack(r) ==
    IF \/ r.state \in QUEUEABLE_STATES
       \/ r.state = "invalid" /\ r.fp = 0
    THEN [r EXCEPT !.state = "settling"] ELSE r

\* A ready file: one stat when its bytes were read before; otherwise they are
\* read, and different bytes start the analysis over.
AlreadyRead(r, entry) == r.fp # 0 /\ r.fpt = entry.t
Unstranded(r) ==
    IF r.state = "settling" /\ r.fp # 0 THEN [r EXCEPT !.state = "discovered"] ELSE r
\* Mutant: an analysed recording keeps its state when its bytes change.
KeepsVerdict(r, entry, now) ==
    [r EXCEPT !.fpt = entry.t, !.fp = now.c, !.state = IF @ = "settling" THEN "discovered" ELSE @]
Reread(r, entry, now) ==
    IF now.t # entry.t
    THEN [r EXCEPT !.stat = now.t,
                   !.state = IF @ \in QUEUEABLE_STATES \cup {"settling"} THEN "settling" ELSE @]
    ELSE IF r.fp = now.c
    THEN [r EXCEPT !.fpt = entry.t, !.state = IF @ = "settling" THEN "discovered" ELSE @]
    ELSE [r EXCEPT !.fpt = entry.t, !.fp = now.c, !.state = "discovered"]

\* _reconcile of a row that was loaded as was.
Returned(was, entry) == [was EXCEPT !.missing = FALSE, !.stat = entry.t,
                                !.state = IF was.missing /\ @ = "failed" THEN "discovered" ELSE @]
Reconciled(was, entry, now) ==
    LET back == Returned(was, entry)
        verdict == assess(entry, was) IN
    CASE verdict = "settling" -> HeldBack(back)
      [] verdict = "invalid" ->
            IF was.state # "invalid" \/ was.stat # entry.t THEN _mark_invalid(back) ELSE back
      [] verdict = "ready" /\ AlreadyRead(back, entry) -> Unstranded(back)
      [] OTHER -> Reread(Unstranded(back), entry, now)

\* Only the attributes that changed are written, over what others committed
\* since the row was loaded.  A file that is gone, or does not answer, when it is
\* to be read is an error of the scan; what was changed before is written all
\* the same (the batch commits), but no new row is made.
Merged(f, was, new) == [k \in DOMAIN new |-> IF new[k] # was[k] THEN new[k] ELSE row[f][k]]
Reads(was, entry) == assess(entry, was) = "ready" /\ ~AlreadyRead(was, entry)
Decided(was, entry, now, fails) ==
    IF was.state = "none" THEN NewRow(entry, now)
    ELSE IF fails THEN Unstranded(Returned(was, entry)) ELSE Reconciled(was, entry, now)
Reconcile ==
    LET f == scan.f  was == scan.was  e == scan.entry
        gone == ~mounted \/ disk[f].t <= 0 IN
    /\ scan.pc = "entry"
    /\ \E fails \in BOOLEAN :
        /\ fails => Reads(was, e)
        /\ Reads(was, e) /\ gone => fails
        /\ IF fails /\ ~gone THEN Meets("walk") ELSE UNCHANGED spent
        /\ row' = IF fails /\ was.state = "none" THEN row
                  ELSE [row EXCEPT ![f] = Merged(f, was, Decided(was, e, disk[f], fails))]
        /\ unread' = IF fails THEN unread \cup {f} ELSE unread \ {f}
        /\ scan' = [scan EXCEPT !.pc = "walk", !.err = @ \/ fails]
    /\ skipped' = IF row'[f].missing THEN skipped ELSE skipped \ {f}
    /\ UNCHANGED <<disk, mounted, ret, lost, late>>

\* Mutant: what was not seen is missing.
NeverBlocked == FALSE
_reconciliation_blocked ==
    \/ scan.err
    \/ Indexed # {} /\ 2 * Cardinality(scan.seen) < Cardinality(Indexed)
Unseen == Indexed \ scan.seen
_mark_missing ==
    /\ scan.pc = "walk" /\ scan.todo = {}
    /\ row' = IF _reconciliation_blocked THEN row
              ELSE [f \in Files |-> IF f \in Unseen THEN [row[f] EXCEPT !.missing = TRUE]
                                    ELSE row[f]]
    /\ scan' = [scan EXCEPT !.pc = "queue"]
    /\ UNCHANGED <<disk, mounted, ret, lost, late, spent, faults>>

\* queue_unprocessed after every scan (_scan_with_followup).
Queueable(f) ==
    /\ row[f].state \in QUEUEABLE_STATES /\ row[f].fp # 0 /\ row[f].job = "none"
    /\ ~row[f].missing /\ ~row[f].ignored
queue_unprocessed ==
    /\ scan.pc = "queue"
    /\ row' = [f \in Files |-> IF Queueable(f)
                               THEN [row[f] EXCEPT !.job = "queued", !.state = "queued"] ELSE row[f]]
    /\ scan' = NoScan
    /\ Touched({f \in Files : Queueable(f)})
    /\ UNCHANGED <<disk, mounted, ret, lost, spent, faults>>

-----------------------------------------------------------------------------
(* A worker.                                                               *)

\* A missing share is retried; the attempts last until it is back.
Claim(f) ==
    /\ row[f].job = "queued" /\ mounted
    /\ row' = [row EXCEPT ![f].job = "running", ![f].state = "processing", ![f].read = disk[f].c]
    /\ UNCHANGED <<disk, mounted, scan, ret, lost, late, spent, faults>>
Finish(f) ==
    /\ row[f].job = "running"
    /\ row' = [row EXCEPT ![f].job = IF mounted THEN "none" ELSE "queued",
                          ![f].state = IF ~mounted THEN "queued"
                                       ELSE IF disk[f].t > 0 THEN "completed" ELSE "failed"]
    /\ Touched({f})
    /\ UNCHANGED <<disk, mounted, scan, ret, lost, spent, faults>>

\* PATCH of a recording: protected.
Protect(f) ==
    /\ row[f].state # "none" /\ Meets("protect")
    /\ row' = [row EXCEPT ![f].protected = TRUE] /\ Touched({f})
    /\ UNCHANGED <<disk, mounted, scan, ret, lost, faults>>

-----------------------------------------------------------------------------
(* Retention.                                                              *)

\* The checks of evaluate_safety that depend on the share and the index.
evaluate_safety ==
    /\ mounted /\ OnDisk # {}
    /\ 2 * Cardinality(OnDisk) >= Cardinality(Indexed)

\* One evaluation for the three passes of a scheduled cleanup.
_run_retention ==
    /\ ret.pc = "off" /\ Meets("cleanup")
    /\ ret' = [NoRet EXCEPT !.pc = "plan", !.left = <<"oldest", "idle", "parked">>,
                            !.safe = evaluate_safety]
    /\ UNCHANGED <<disk, mounted, row, scan, lost, late, faults>>

live_condition(f) == row[f].state \notin {"none", "deleted"} /\ ~row[f].missing
settled_condition(f) == row[f].state = "completed" /\ ~row[f].ignored
\* A query's recordings, oldest first.
InOrder(fs) ==
    CHOOSE s \in [1 .. Cardinality(fs) -> fs] : \A i, j \in DOMAIN s : i < j => s[i] < s[j]
Oldest == InOrder({f \in Files : live_condition(f) /\ row[f].job = "none"
                                 /\ ~row[f].protected /\ row[f].state # "processing"})
ToFree == Cardinality(OnDisk) - Limit
\* Oldest first, until enough is freed; everything static; every recording of
\* a journey that never became a drive, once all of it is settled and idle.
plan == SubSeq(Oldest, 1, IF ToFree < Len(Oldest) THEN ToFree ELSE Len(Oldest))
plan_idle ==
    InOrder({f \in Still : /\ live_condition(f) /\ settled_condition(f)
                           /\ ~row[f].protected /\ row[f].job = "none"})
plan_parked ==
    LET journey == {f \in Files : live_condition(f)} IN
    IF /\ journey \subseteq Still
       /\ \A f \in journey : settled_condition(f) /\ row[f].job = "none"
    THEN InOrder({f \in journey : ~row[f].protected}) ELSE <<>>
Planned(kind) == CASE kind = "oldest" -> plan [] kind = "idle" -> plan_idle
                   [] OTHER -> plan_parked
\* The single-run limit.
TooMuch(cands) == Len(cands) * 100 > Cardinality(Indexed) * MaxPercent
Plan ==
    LET cands == Planned(Head(ret.left)) IN
    /\ ret.pc = "plan"
    /\ ret' = [ret EXCEPT !.pc = "check", !.gone = {}, !.indexed = Cardinality(Indexed),
                          !.cands = IF ret.safe /\ ~TooMuch(cands) THEN cands ELSE <<>>]
    /\ UNCHANGED <<disk, mounted, row, scan, lost, late, spent, faults>>

\* execute: every candidate is looked at again, right before its removal.
\* Mutant: the plan is trusted.
TrustPlan(f) == TRUE
StillDoomed(f) ==
    /\ ~row[f].missing /\ row[f].state \notin {"deleted", "processing"}
    /\ row[f].job = "none" /\ ~row[f].protected
Check ==
    LET f == Head(ret.cands) IN
    /\ ret.pc = "check" /\ ret.cands # <<>>
    /\ IF StillDoomed(f) THEN ret' = [ret EXCEPT !.pc = "unlink"]
       ELSE ret' = [ret EXCEPT !.cands = Tail(@)]
    /\ UNCHANGED <<disk, mounted, row, scan, lost, late, spent, faults>>
Unlink ==
    LET f == Head(ret.cands) IN
    /\ ret.pc = "unlink"
    /\ IF mounted /\ disk[f].t > 0
       THEN /\ disk' = [disk EXCEPT ![f].t = -@, ![f].quiet = TRUE]
            /\ lost' = lost \cup {f}
            /\ ret' = [ret EXCEPT !.pc = "check", !.cands = Tail(@), !.gone = @ \cup {f}]
       ELSE ret' = [ret EXCEPT !.pc = "check", !.cands = Tail(@)] /\ UNCHANGED <<disk, lost>>
    /\ late' = {}
    /\ UNCHANGED <<mounted, row, scan, spent, faults>>

\* The rows in one statement, after the last file; then the next pass.
MarkDeleted ==
    /\ ret.pc = "check" /\ ret.cands = <<>>
    /\ row' = [f \in Files |-> IF f \notin ret.gone THEN row[f]
                  ELSE [row[f] EXCEPT !.missing = TRUE, !.state = "deleted",
                                      !.ignored = @ \/ Head(ret.left) # "oldest"]]
    /\ ret' = IF Len(ret.left) = 1 THEN NoRet
              ELSE [ret EXCEPT !.pc = "plan", !.left = Tail(@), !.gone = {}, !.indexed = 0]
    /\ UNCHANGED <<disk, mounted, scan, lost, late, spent, faults>>

\* The process dies between any two steps; jobs are queued again.
Crash ==
    /\ Meets("crash") /\ scan' = NoScan /\ ret' = NoRet /\ late' = {}
    /\ row' = [f \in Files |-> IF row[f].job # "running" THEN row[f]
                               ELSE [row[f] EXCEPT !.job = "queued", !.state = "queued"]]
    /\ UNCHANGED <<disk, mounted, lost, faults>>

-----------------------------------------------------------------------------

ScanStep == WalkNext \/ Reconcile \/ _mark_missing \/ queue_unprocessed
Work(f) == Claim(f) \/ Finish(f)
Retain == Plan \/ Check \/ Unlink \/ MarkDeleted
Next ==
    \/ \E f \in Files : Write(f) \/ Settle(f) \/ Work(f) \/ Protect(f)
    \/ Unmount \/ Mount \/ StartScan \/ ScanStep \/ WalkFails \/ SkipEntry
    \/ _run_retention \/ Retain \/ Crash

\* The scheduler scans for ever, workers take what is queued, and the share
\* comes back.
Spec == /\ Init /\ [][Next]_vars
        /\ WF_vars(StartScan) /\ WF_vars(ScanStep) /\ WF_vars(Retain) /\ WF_vars(Mount)
        /\ \A f \in Files : WF_vars(Settle(f)) /\ WF_vars(Work(f))

-----------------------------------------------------------------------------

\* Types of the files, rows and tasks.
TypeOK ==
    /\ \A f \in Files :
        /\ disk[f].c \in Nat /\ disk[f].t \in Int
        /\ row[f].state \in {"none", "discovered", "settling", "queued", "processing",
                             "completed", "failed", "invalid", "deleted"}
        /\ row[f].job \in {"none", "queued", "running"}
        /\ row[f].fp = 0 <=> row[f].fpt = 0
    /\ scan.pc \in {"off", "walk", "entry", "queue"} /\ scan.seen \subseteq Files
    /\ ret.pc \in {"off", "plan", "check", "unlink"} /\ ToSet(ret.cands) \subseteq Files

\* A file is marked missing only when it was really removed, or when the walk
\* passed over its entry without noticing an error (README, Disagreements): a
\* share that is not mounted, goes away during a scan, or cannot be listed is no
\* deletion.
MissingIsReal == \A f \in Files : row[f].missing => f \in lost \cup skipped

\* A recording is queued only when the bytes that were fingerprinted are those
\* of the last observation, never while its file is being written; or when the
\* scan could not read them, after it had already taken the recording out of
\* settling (README, Disagreements).
QueuedSettled ==
    [][\A f \in Files : row[f].job = "none" /\ row'[f].job = "queued" =>
          row[f].fp # 0 /\ (row[f].fpt = row[f].stat \/ f \in unread)]_vars

\* A recording that was protected, queued or taken by a worker before retention
\* looked at it is not removed, however old the plan is.
SparedStaysSpared ==
    [][\A f \in ret'.gone \ ret.gone :
          f \in late \/ (row[f].job = "none" /\ ~row[f].protected)]_vars

\* One plan never removes more than its share of the index, and making room
\* never goes below the limit.
NotOverdone ==
    /\ Cardinality(ret.gone) * 100 <= ret.indexed * MaxPercent
    /\ ret.gone # {} /\ Head(ret.left) = "oldest" => Cardinality(OnDisk) >= Limit

\* In the end every file on the share has an analysis of the bytes it holds,
\* unless it is empty or was removed before and came back unchanged.
AnalysisFollowsBytes ==
    <>[](\A f \in OnDisk : disk[f].c # 0 /\ row[f].state # "deleted" /\ ~row[f].ignored =>
            row[f].state = "completed" /\ row[f].read = disk[f].c)

\* In the end every recording whose file is gone is marked missing, also when
\* the process died between the removal and the rows; but a share that looks
\* empty proves nothing.
RemovalIsKnown ==
    <>[](OnDisk # {} => \A f \in Files \ OnDisk : row[f].state # "none" => row[f].missing)

\* Nothing is taken for removed that is there, and no plan removes too much.
NothingWronglyRemoved == TypeOK /\ MissingIsReal /\ NotOverdone

\* The scan queues, and retention removes, on what the rows and files are now.
DecidedOnWhatIs == QueuedSettled /\ SparedStaysSpared

\* The index ends up agreeing with the share.
IndexFollowsShare == AnalysisFollowsBytes /\ RemovalIsKnown
=============================================================================
