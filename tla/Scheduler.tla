------------------------------ MODULE Scheduler ------------------------------
(* The scheduler (workers/scheduler.py): one loop that runs the periodic     *)
(* tasks, then the scans asked for by the ingest, the follow-up scans of     *)
(* files that had not settled and the cleanup of recordings reported idle.   *)
(*                                                                           *)
(* A due time is what is left to it.  A generation is compared, never        *)
(* counted: a scan under way is marked when a newer one begins.              *)
EXTENDS Integers, FiniteSets, Sequences

CONSTANTS
    Recordings,          \* recordings whose processing may end
    INTERVAL,            \* of a periodic task
    DEBOUNCE,            \* of an ingest scan, a follow-up and an idle cleanup
    SETTLING_SCAN_LIMIT, \* follow-ups of one chain
    IDLE_QUEUE_LIMIT, IDLE_BATCH_SIZE,
    MaxFiles,            \* bound: files that arrive
    SchedEvents,         \* the environment's events, each met once
    FewSchedEvents       \* bound: how many of them in one behaviour

VARIABLES
    due,       \* time left to each periodic task: [scan, retention]
    loop,      \* where the loop is
    scan,      \* scans under way, by caller: [pc, follow, told, older, unsettled, earlier, first]
    ingest,    \* _ingest_scan_due_at
    settling,  \* [due, left]
    idle,      \* [pending, due, batch, covered]
    files,     \* files of the footage directory: "new", "unsettled", "indexed"
    accepted,  \* history: recordings whose cleanup was accepted and not yet done
    seen       \* events of the environment met so far

vars == <<due, loop, scan, ingest, settling, idle, files, accepted, seen>>

Off == -1
Less(n) == IF n > 0 THEN n - 1 ELSE n
Sooner(a, b) == IF a = Off \/ b < a THEN b ELSE a
Meets(event) == event \in SchedEvents \ seen /\ Cardinality(seen) < FewSchedEvents /\ seen' = seen \cup {event}
NoScan == [pc |-> "none", follow |-> FALSE, told |-> FALSE, older |-> FALSE, unsettled |-> FALSE,
           earlier |-> Off, first |-> 0]
Callers == {"loop", "manual"}

Init ==
    /\ due = [scan |-> INTERVAL, retention |-> 0]
    /\ loop = "tasks"
    /\ scan = [c \in Callers |-> NoScan]
    /\ ingest = Off
    /\ settling = [due |-> Off, left |-> 0]
    /\ idle = [pending |-> {}, due |-> Off, batch |-> {}, covered |-> {}]
    /\ files = <<>> /\ accepted = {} /\ seen = {}

---------------------------------------------------------------------------
(* Scans: _scan_with_followup, with Scanner.scan (one at a time, refused    *)
(* otherwise) as a walk that sees the files there are.                      *)

Walking == \E c \in Callers : scan[c].pc = "walk"

\* The walk begins, over the files there are.
BeginScan(c, follow) ==
    scan' = [scan EXCEPT ![c] = [NoScan EXCEPT !.pc = "walk", !.follow = follow, !.first = Len(files)]]

\* A file seen once has not settled; seen again, it is indexed.
Visited(n, met) == IF n \notin met THEN files[n] ELSE IF files[n] = "new" THEN "unsettled" ELSE "indexed"

\* A request made during the walk keeps its own deadline.
Answered(c) == IF scan[c].told THEN ingest ELSE Off

\* The scan returns, having met the files there were and perhaps later ones (or,
\* when the share is away, none, with an error in its summary): the requests it
\* covers are answered and, unless it is a follow-up, a new chain of follow-ups
\* begins, which makes older ones stale.
Walk(c) ==
    LET fresh == ~scan[c].follow IN
    /\ scan[c].pc = "walk"
    /\ \E met \in SUBSET DOMAIN files :
          /\ \/ 1 .. scan[c].first \subseteq met /\ UNCHANGED seen
             \/ met = {} /\ Meets("share away")
          /\ files' = [n \in DOMAIN files |-> Visited(n, met)]
          /\ scan' = [d \in Callers |->
                        IF d = c THEN [scan[c] EXCEPT !.pc = "follow",
                                         !.unsettled = \E n \in met : Visited(n, met) = "unsettled",
                                         !.earlier = IF fresh /\ c = "manual" THEN settling.due ELSE Off]
                        ELSE IF fresh THEN [scan[d] EXCEPT !.older = scan[d].pc = "follow"] ELSE scan[d]]
    /\ ingest' = Answered(c)
    /\ settling' = IF fresh THEN [due |-> Off, left |-> SETTLING_SCAN_LIMIT] ELSE settling
    /\ UNCHANGED <<due, loop, idle, accepted>>

\* The scan raises: a follow-up ends its chain; one for the ingest also passes
\* the follow-ups over (the loop stands at "settling" behind it).
ScanFails(c) ==
    /\ scan[c].pc = "walk" /\ Meets("scan fails")
    /\ scan' = [scan EXCEPT ![c] = NoScan]
    /\ settling' = IF scan[c].follow THEN [due |-> Off, left |-> 0] ELSE settling
    /\ loop' = IF c = "loop" /\ loop = "settling" THEN "idle" ELSE loop
    /\ UNCHANGED <<due, ingest, idle, files, accepted>>

\* _schedule_settling_scan; then new recordings are queued and journeys kept.
_schedule_settling_scan(c) ==
    LET s == scan[c] IN
    /\ s.pc = "follow"
    /\ settling' = IF s.older THEN settling
                   ELSE IF ~s.unsettled \/ settling.left = 0 THEN [due |-> Off, left |-> 0]
                   ELSE [settling EXCEPT !.due = Sooner(s.earlier, DEBOUNCE)]
    /\ scan' = [scan EXCEPT ![c] = NoScan]
    /\ UNCHANGED <<due, loop, ingest, idle, files, accepted, seen>>

\* scan_now: refused while one runs.
scan_now ==
    /\ scan["manual"].pc = "none" /\ ~Walking /\ Meets("manual")
    /\ BeginScan("manual", FALSE)
    /\ UNCHANGED <<due, loop, ingest, settling, idle, files, accepted>>

\* A batch of footage is complete: request_ingest_scan.
request_ingest_scan ==
    /\ Len(files) < MaxFiles
    /\ files' = Append(files, "new")
    /\ ingest' = Sooner(ingest, DEBOUNCE)
    /\ scan' = [c \in Callers |-> [scan[c] EXCEPT !.told = scan[c].pc = "walk"]]
    /\ UNCHANGED <<due, loop, settling, idle, accepted, seen>>

---------------------------------------------------------------------------
(* The loop: one pass goes through its steps in order.  A scan it runs is    *)
(* awaited where the loop already stands at the step behind it.             *)

Free == scan["loop"].pc = "none"

\* A periodic task that is due runs, and is due again whether or not it failed.
Reschedule(ran) == INTERVAL

RunScanTask ==
    /\ Free /\ loop = "tasks"
    /\ loop' = "retention"
    /\ due' = [due EXCEPT !.scan = IF @ = 0 THEN Reschedule(~Walking) ELSE @]
    /\ IF due.scan = 0 /\ ~Walking THEN BeginScan("loop", FALSE) ELSE UNCHANGED scan
    /\ UNCHANGED <<ingest, settling, idle, files, accepted, seen>>

\* _run_retention: a whole-library cleanup covers the notifications it began with.
RunRetention ==
    /\ Free /\ loop = "retention"
    /\ IF due.retention > 0 THEN loop' = "ingest" /\ UNCHANGED <<due, idle>>
       ELSE /\ due' = [due EXCEPT !.retention = Reschedule(TRUE)]
            /\ idle' = [idle EXCEPT !.covered = idle.pending]
            /\ loop' = "retaining"
    /\ UNCHANGED <<scan, ingest, settling, files, accepted, seen>>

\* _idle_cleanup_finished: what is still pending is due again.
_idle_cleanup_finished(i) == [i EXCEPT !.due = IF i.pending = {} THEN Off ELSE DEBOUNCE]

RetentionDone ==
    /\ loop = "retaining"
    /\ \/ /\ idle' = _idle_cleanup_finished([idle EXCEPT !.pending = @ \ idle.covered, !.covered = {}])
          /\ accepted' = accepted \ idle.covered
          /\ UNCHANGED seen
       \/ Meets("retention fails") /\ idle' = [idle EXCEPT !.covered = {}] /\ UNCHANGED accepted
    /\ loop' = "ingest"
    /\ UNCHANGED <<due, scan, ingest, settling, files>>

\* The request is consumed before anything is awaited; then a scan may already
\* be running, and this one is refused.
_run_due_ingest_scan ==
    /\ Free /\ loop = "ingest"
    /\ IF ingest # 0 THEN loop' = "settling" /\ UNCHANGED <<ingest, scan, seen>>
       ELSE /\ ingest' = Off
            /\ IF Walking THEN loop' = "idle" /\ seen' = seen \cup {"refused"} /\ UNCHANGED scan
               ELSE BeginScan("loop", FALSE) /\ loop' = "settling" /\ UNCHANGED seen
    /\ UNCHANGED <<due, settling, idle, files, accepted>>

\* A follow-up uses one of the chain's scans up; refused, it ends the chain.
_run_due_settling_scan ==
    /\ Free /\ loop = "settling"
    /\ loop' = "idle"
    /\ IF settling.due # 0 THEN UNCHANGED <<settling, scan>>
       ELSE IF settling.left = 0 \/ Walking THEN settling' = [due |-> Off, left |-> 0] /\ UNCHANGED scan
       ELSE settling' = [due |-> Off, left |-> settling.left - 1] /\ BeginScan("loop", TRUE)
    /\ UNCHANGED <<due, ingest, idle, files, accepted, seen>>

---------------------------------------------------------------------------
(* Idle cleanup.                                                            *)

\* request_idle_cleanup: refused when the queue is full.
request_idle_cleanup(r) ==
    /\ "processed" \in SchedEvents /\ r \notin idle.pending
    /\ Cardinality(idle.pending) < IDLE_QUEUE_LIMIT
    /\ idle' = [idle EXCEPT !.pending = @ \cup {r}, !.due = Sooner(@, DEBOUNCE)]
    /\ accepted' = accepted \cup {r}
    /\ UNCHANGED <<due, loop, scan, ingest, settling, files, seen>>

_run_due_post_process_idle_cleanup ==
    /\ Free /\ loop = "idle"
    /\ IF idle.due # 0 \/ idle.pending = {} THEN loop' = "sleep" /\ UNCHANGED idle
       ELSE /\ \E batch \in SUBSET idle.pending :
                 /\ Cardinality(batch) = IF Cardinality(idle.pending) < IDLE_BATCH_SIZE
                                         THEN Cardinality(idle.pending) ELSE IDLE_BATCH_SIZE
                 /\ idle' = [idle EXCEPT !.pending = @ \ batch, !.batch = batch, !.due = Off]
            /\ loop' = "cleaning"
    /\ UNCHANGED <<due, scan, ingest, settling, files, accepted, seen>>

\* _restore_pending_idle: as many as there is room for.
_restore_pending_idle(i) ==
    IF Cardinality(i.pending \cup i.batch) <= IDLE_QUEUE_LIMIT THEN [i EXCEPT !.pending = @ \cup i.batch] ELSE i

CleanupDone ==
    /\ loop = "cleaning"
    /\ \/ accepted' = (accepted \ idle.batch) \cup idle.pending
          /\ idle' = _idle_cleanup_finished([idle EXCEPT !.batch = {}]) /\ UNCHANGED seen
       \/ /\ Meets("cleanup fails")
          /\ idle' = _idle_cleanup_finished([_restore_pending_idle(idle) EXCEPT !.batch = {}])
          /\ UNCHANGED accepted
    /\ loop' = "sleep"
    /\ UNCHANGED <<due, scan, ingest, settling, files>>

Wake ==
    /\ loop = "sleep"
    /\ loop' = "tasks"
    /\ UNCHANGED <<due, scan, ingest, settling, idle, files, accepted, seen>>

Tick ==
    /\ due' = [t \in DOMAIN due |-> Less(due[t])]
    /\ ingest' = Less(ingest)
    /\ settling' = [settling EXCEPT !.due = Less(@)]
    /\ idle' = [idle EXCEPT !.due = Less(@)]
    /\ scan' = [c \in Callers |-> [scan[c] EXCEPT !.earlier = Less(@)]]
    /\ <<due, ingest, settling, idle, scan>>' # <<due, ingest, settling, idle, scan>>
    /\ UNCHANGED <<loop, files, accepted, seen>>

Looping ==
    \/ RunScanTask \/ RunRetention \/ RetentionDone \/ _run_due_ingest_scan \/ _run_due_settling_scan
    \/ _run_due_post_process_idle_cleanup \/ CleanupDone \/ Wake
    \/ Walk("loop") \/ _schedule_settling_scan("loop")

Next ==
    \/ Looping \/ Walk("manual") \/ _schedule_settling_scan("manual") \/ \E c \in Callers : ScanFails(c)
    \/ scan_now \/ request_ingest_scan \/ (\E r \in Recordings : request_idle_cleanup(r)) \/ Tick

Spec == /\ Init /\ [][Next]_vars /\ WF_vars(Looping) /\ WF_vars(Tick)
        /\ WF_vars(Walk("manual")) /\ WF_vars(_schedule_settling_scan("manual"))

---------------------------------------------------------------------------
\* Timers and counters stay within their bounds, and two walks are never under
\* way.
TypeOK ==
    /\ ingest \in Off .. DEBOUNCE /\ settling.due \in Off .. DEBOUNCE /\ settling.left \in 0 .. SETTLING_SCAN_LIMIT
    /\ Cardinality(idle.pending) <= IDLE_QUEUE_LIMIT /\ idle.pending \cap idle.batch \in SUBSET Recordings
    /\ ~\E c, d \in Callers : c # d /\ scan[c].pc = "walk" /\ scan[d].pc = "walk"

New == {n \in DOMAIN files : files[n] = "new"}
Unindexed == {n \in DOMAIN files : files[n] # "indexed"}

\* A file whose arrival was announced is one a scan under way will see, or the
\* request for it still stands ("keeps its own deadline"), where no scan failed
\* and none was refused because another ran.
RequestStandsUnrefused ==
    seen \cap {"scan fails", "share away", "refused"} = {} /\ New # {} => ingest # Off \/ Walking

\* A recording accepted for cleanup is cleaned, in a batch, or pending with a
\* deadline: only a failed batch that meets a full queue is dropped.
CleanupRemembered ==
    /\ idle.pending # {} /\ loop # "cleaning" => idle.due # Off
    /\ "cleanup fails" \notin seen => accepted \subseteq idle.pending \cup idle.batch

\* Every announced file is indexed, whatever fails or is refused on the way.
FilesIndexed == [](Unindexed # {} => <>(Unindexed = {}))
=============================================================================
