---------------------------- MODULE LoggerEvents -----------------------------
(* The mirror of the logger's event journal (ingest/obd_events.py) and its   *)
(* place in a run (ingest/puller.py): the unit keeps a ring of numbered      *)
(* events, the server stores what it sees of it and counts the numbers that  *)
(* left the ring unseen.                                                     *)
EXTENDS Integers, FiniteSets, FiniteSetsExt

CONSTANTS
    Ring,                  \* events the unit keeps (external)
    MAX_SERVER_EVENTS,     \* rows the server keeps
    EVENT_STORE_ATTEMPTS,  \* tries against a locked database
    LastSequence,          \* bound: events of one behaviour
    MaxMirrors,            \* bound: mirrors of one behaviour
    MirrorEvents           \* the environment's events, each met once

VARIABLES
    ring,      \* numbers on the unit
    rows,      \* OBDLoggerEvent: numbers stored
    old,       \* numbers of events past SERVER_RETENTION_DAYS
    ever,      \* numbers that were ever stored
    mirror,    \* the task: [pc, snap, tries, gap, cancelled]
    waits,     \* the run waits for its mirror
    gaps,      \* LoggerEventStatus.sequence_gap
    started,   \* mirrors started
    happened   \* events of the environment met so far

vars == <<ring, rows, old, ever, mirror, waits, gaps, started, happened>>

NoMirror == [pc |-> "none", snap |-> {}, tries |-> 0, gap |-> 0, cancelled |-> FALSE]
Meets(event) == event \in MirrorEvents \ happened /\ happened' = happened \cup {event}
Latest(s) == IF s = {} THEN 0 ELSE Max(s)

Init ==
    /\ ring = {} /\ rows = {} /\ old = {} /\ ever = {}
    /\ mirror = NoMirror /\ waits = FALSE
    /\ gaps = 0 /\ started = 0 /\ happened = {}

\* The unit records an event; the oldest leaves the ring.
Journal ==
    LET next == Latest(ring) + 1 IN
    /\ next <= LastSequence
    /\ ring' = {n \in ring \cup {next} : n > next - Ring}
    /\ UNCHANGED <<rows, old, ever, mirror, waits, gaps, started, happened>>

\* Nothing happens for longer than the server keeps events.
Month ==
    /\ Meets("a month")
    /\ old' = 1 .. Latest(ring)
    /\ UNCHANGED <<ring, rows, ever, mirror, waits, gaps, started>>

---------------------------------------------------------------------------
\* _start_event_mirror: not while another is still cleaning up.
_start_event_mirror ==
    /\ ~waits /\ started < MaxMirrors
    /\ started' = started + 1
    /\ IF mirror = NoMirror
       THEN mirror' = [NoMirror EXCEPT !.pc = "read"] /\ waits' = TRUE
       ELSE UNCHANGED <<mirror, waits>>
    /\ UNCHANGED <<ring, rows, old, ever, gaps, happened>>

\* finish: the gap adds to those before it.
finish(result) ==
    /\ mirror' = NoMirror
    /\ gaps' = gaps + result

\* read_remote_event_snapshot and validate_event_snapshot: an absent, oversized
\* or malformed journal is no snapshot.
Read ==
    /\ mirror.pc = "read" /\ ~mirror.cancelled
    /\ \/ mirror' = [mirror EXCEPT !.pc = "store", !.snap = ring] /\ UNCHANGED <<gaps, happened>>
       \/ Meets("unreadable") /\ finish(0)
    /\ UNCHANGED <<ring, rows, old, ever, waits, started>>

\* The numbers between the latest row and the snapshot's, that are not in it.
SequenceGap(latest, snap) == Cardinality({n \in latest + 1 .. Latest(snap) : n \notin snap})

\* _prune_server_events: those past their time, then the oldest.  The code goes by
\* the unit's clock, the model by the sequence: the clock is not set back here.
_prune_server_events(kept) == {n \in kept : Cardinality({k \in kept : k > n}) < MAX_SERVER_EVENTS}

\* store_event_snapshot: one transaction; rows already there are left alone.
store_event_snapshot ==
    /\ mirror.pc = "store" /\ ~mirror.cancelled
    /\ rows' = _prune_server_events((rows \cup mirror.snap) \ old)
    /\ ever' = ever \cup mirror.snap
    /\ mirror' = [mirror EXCEPT !.pc = "stored", !.gap = SequenceGap(Latest(rows), mirror.snap)]
    /\ UNCHANGED <<ring, old, waits, gaps, started, happened>>

LastTry(tries) == tries + 1 = EVENT_STORE_ATTEMPTS

\* The database is locked: tried again, then given up.
Locked ==
    /\ mirror.pc = "store" /\ ~mirror.cancelled
    /\ Meets("locked") \/ (mirror.tries > 0 /\ UNCHANGED happened)
    /\ IF LastTry(mirror.tries) THEN finish(0)
       ELSE mirror' = [mirror EXCEPT !.tries = @ + 1] /\ UNCHANGED gaps
    /\ UNCHANGED <<ring, rows, old, ever, waits, started>>

Finished ==
    /\ mirror.pc = "stored" /\ ~mirror.cancelled
    /\ finish(mirror.gap)
    /\ UNCHANGED <<ring, rows, old, ever, waits, started, happened>>

\* A mirror that is cancelled rolls back, or has committed, before it ends; its
\* result is gone.
Unwound ==
    /\ mirror.cancelled
    /\ finish(0)
    /\ UNCHANGED <<ring, rows, old, ever, waits, started, happened>>

\* _await_event_mirror: it is done, or past the deadline and cancelled; the
\* wait does not include the cancelled task's cleanup.
Collected ==
    /\ waits /\ mirror = NoMirror
    /\ waits' = FALSE
    /\ UNCHANGED <<ring, rows, old, ever, mirror, gaps, started, happened>>

_cancel_event_mirror ==
    /\ waits /\ mirror # NoMirror
    /\ happened' = happened \cup {"deadline"}
    /\ mirror' = [mirror EXCEPT !.cancelled = TRUE]
    /\ waits' = FALSE
    /\ UNCHANGED <<ring, rows, old, ever, gaps, started>>

\* The process ends.
Crash ==
    /\ Meets("crash")
    /\ mirror' = NoMirror /\ waits' = FALSE /\ gaps' = 0
    /\ UNCHANGED <<ring, rows, old, ever, started>>

Next ==
    \/ Journal \/ Month \/ _start_event_mirror \/ Read \/ store_event_snapshot \/ Locked \/ Finished \/ Unwound
    \/ Collected \/ _cancel_event_mirror \/ Crash

Spec == Init /\ [][Next]_vars /\ WF_vars(Collected) /\ WF_vars(_cancel_event_mirror)

---------------------------------------------------------------------------
\* The store stays within its retention, a mirror within its tries.
TypeOK ==
    /\ rows \subseteq ever /\ Cardinality(rows) <= MAX_SERVER_EVENTS
    /\ mirror.tries < EVENT_STORE_ATTEMPTS
    /\ gaps \in Nat

Missed == {n \in 1 .. Latest(ever) : n \notin ever}

\* The count never exceeds the events that left the ring unseen, however often
\* a snapshot is stored again; and with no mirror cut short, it is exact.
\* (Once all rows of the unit have aged away, numbers count from 1 again.)
GapsAreLosses ==
    "a month" \notin happened =>
    /\ gaps <= Cardinality(Missed)
    /\ (happened \cap {"deadline", "crash"} = {} /\ mirror.pc # "stored" => gaps = Cardinality(Missed))

\* The newest event that was stored stays stored until it has aged.
NewestKept == "a month" \notin happened => Latest(rows) = Latest(ever)

\* A run goes on, whether or not its mirror ever ends.
RunGoesOn == waits ~> ~waits
=============================================================================
