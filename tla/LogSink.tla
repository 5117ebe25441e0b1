------------------------------- MODULE LogSink -------------------------------
(* The database log sink (core/logging.py): records from any thread, repeats  *)
(* folded into a summary, a bounded queue, a writer task and the flush of a   *)
(* shutdown.                                                                  *)
(*                                                                            *)
(* A record is the set of occurrences it stands for: itself, or the ones a    *)
(* summary counts.  The history variable "fate" says what became of each.     *)
EXTENDS Integers, FiniteSets, Sequences, Functions

CONSTANTS
    Lines,          \* log lines, told apart by their deduplication key
    Capacity,       \* of the queue
    Batch,          \* _MAX_BATCH
    MaxKeys,        \* _MAX_DEDUPE_KEYS
    MaxSeen,        \* bound: occurrences
    SinkEvents,     \* what may happen, each once
    FewSinkEvents   \* bound: how many of them in one behaviour

VARIABLES
    queue,    \* sequence of sets of occurrences
    window,   \* line -> [since, expired, suppressed]: since is the occurrence that opened it, 0 when closed
    pump,     \* the writer task: [pc, batch]: "wait", "flush", "write", "ended"
    closing,  \* the flush of stop: [pc, batch, force, since]
    logs,     \* occurrences in the LogEntry table
    fate,     \* [dropped, failed, cancelled]: occurrences lost, and how
    emitted,  \* occurrences so far
    upset     \* events so far

vars == <<queue, window, pump, closing, logs, fate, emitted, upset>>

Opened(n) == [since |-> n, expired |-> FALSE, suppressed |-> {}]
NoWindow == Opened(0)
Rest == [pc |-> "wait", batch |-> <<>>]
Meets(event) == event \in SinkEvents \ upset /\ Cardinality(upset) < FewSinkEvents /\ upset' = upset \cup {event}
Union(s) == UNION {s[i] : i \in DOMAIN s}

Init ==
    /\ queue = <<>> /\ window = [l \in Lines |-> NoWindow]
    /\ pump = Rest /\ closing = [pc |-> "none", batch |-> <<>>, force |-> FALSE, since |-> 0]
    /\ logs = {} /\ fate = [dropped |-> {}, failed |-> {}, cancelled |-> {}]
    /\ emitted = 0 /\ upset = {}

---------------------------------------------------------------------------
(* _enqueue_locked for some records in turn: a full queue loses its oldest. *)

_enqueue_locked(records) ==
    LET all == queue \o records
        over == IF Len(all) > Capacity THEN Len(all) - Capacity ELSE 0
    IN [queue |-> SubSeq(all, over + 1, Len(all)), dropped |-> fate.dropped \cup Union(SubSeq(all, 1, over))]

Set(q) == queue' = q.queue /\ fate' = [fate EXCEPT !.dropped = q.dropped]

\* _summary of a window, if it has one.
Summary(l) == IF window[l].suppressed = {} THEN <<>> ELSE <<window[l].suppressed>>

Open == {l \in Lines : window[l].since # 0}

\* emit: within its window a repeat is only counted; otherwise the summary of
\* the last window and the record are queued and a window opens, for which the
\* oldest may end early, with its summary (_trim_dedupe_locked).
emit(l) ==
    LET n == emitted + 1
        others == Open \ {l}
    IN
    /\ n <= MaxSeen /\ emitted' = n
    /\ \/ /\ l \in Open /\ ~window[l].expired
          /\ window' = [window EXCEPT ![l].suppressed = @ \cup {n}]
          /\ UNCHANGED <<queue, fate>>
       \/ /\ l \in Open => window[l].expired
          /\ Cardinality(Open \cup {l}) <= MaxKeys
          /\ window' = [window EXCEPT ![l] = Opened(n)]
          /\ Set(_enqueue_locked(Summary(l) \o <<{n}>>))
       \/ /\ l \in Open => window[l].expired
          /\ Cardinality(Open \cup {l}) > MaxKeys
          /\ \E oldest \in others :
                /\ \A k \in others : window[oldest].since <= window[k].since
                /\ window' = [window EXCEPT ![l] = Opened(n), ![oldest] = NoWindow]
                /\ Set(_enqueue_locked(Summary(l) \o Summary(oldest) \o <<{n}>>))
    /\ UNCHANGED <<pump, closing, logs, upset>>

\* _dedupe_window_s have passed since the window opened.
Expire(l) ==
    /\ l \in Open /\ ~window[l].expired
    /\ window' = [window EXCEPT ![l].expired = TRUE]
    /\ UNCHANGED <<queue, pump, closing, logs, fate, emitted, upset>>

---------------------------------------------------------------------------
(* flush: sweep the windows, take a batch, write it, until nothing is left. *)

Swept(force) == {l \in Open : force \/ window[l].expired}

\* _sweep_locked: the summaries of the windows that are over, in some order (a
\* key keeps its place in the dictionary when its window opens anew).
_sweep_locked(force) ==
    LET summed == {l \in Swept(force) : window[l].suppressed # {}} IN
    {_enqueue_locked([i \in DOMAIN f |-> window[f[i]].suppressed]) : f \in Bijection(1 .. Cardinality(summed), summed)}

\* _take_locked: the first records of q, and what stays.
Taken(q) == IF Len(q) < Batch THEN Len(q) ELSE Batch
Take(q) == SubSeq(q, 1, Taken(q))
Left(q) == SubSeq(q, Taken(q) + 1, Len(q))

\* Sweep, with the result q, and take, under the lock.
SweepAndTake(force, q) ==
    /\ q \in _sweep_locked(force)
    /\ window' = [l \in Lines |-> IF l \in Swept(force) THEN NoWindow ELSE window[l]]
    /\ queue' = Left(q.queue) /\ fate' = [fate EXCEPT !.dropped = q.dropped]

\* The writer task: every interval, and once more when it is told to stop.
Interval ==
    /\ pump.pc = "wait" /\ closing.pc = "none"
    /\ pump' = [pump EXCEPT !.pc = "flush"]
    /\ UNCHANGED <<queue, window, closing, logs, fate, emitted, upset>>

Flush ==
    /\ pump.pc = "flush"
    /\ \E q \in _sweep_locked(FALSE) :
          /\ SweepAndTake(FALSE, q)
          /\ pump' = IF Take(q.queue) # <<>> THEN [pc |-> "write", batch |-> Take(q.queue)]
                     ELSE [Rest EXCEPT !.pc = IF closing.pc = "none" THEN "wait" ELSE "ended"]
    /\ UNCHANGED <<closing, logs, emitted, upset>>

\* Mutant: a batch that could not be written is put aside without a word.
ForgetBatch(batch) == fate

FailedBatch(batch) == [fate EXCEPT !.failed = @ \cup Union(batch)]

\* _write: the batch is committed, or counted as a write error and dropped.
_write ==
    /\ pump.pc = "write"
    /\ \/ logs' = logs \cup Union(pump.batch) /\ UNCHANGED <<fate, upset>>
       \/ Meets("locked") /\ fate' = FailedBatch(pump.batch) /\ UNCHANGED logs
    /\ pump' = [pc |-> "flush", batch |-> <<>>]
    /\ UNCHANGED <<queue, window, closing, emitted>>

---------------------------------------------------------------------------
(* stop.                                                                    *)

\* The writer is told to stop and waited for.
stop ==
    /\ closing.pc = "none" /\ "stop" \in SinkEvents
    /\ closing' = [closing EXCEPT !.pc = "join"]
    /\ pump' = IF pump.pc = "wait" THEN [pump EXCEPT !.pc = "flush"] ELSE pump
    /\ UNCHANGED <<queue, window, logs, fate, emitted, upset>>

\* Five seconds have passed: it is cancelled, with the batch it was writing.
CancelWriter ==
    /\ closing.pc = "join" /\ pump.pc = "write" /\ Meets("slow")
    /\ fate' = [fate EXCEPT !.cancelled = @ \cup Union(pump.batch)]
    /\ pump' = [Rest EXCEPT !.pc = "ended"]
    /\ UNCHANGED <<queue, window, closing, logs, emitted>>

\* The last flush ends every window.
LastForced == TRUE

FinalFlush ==
    /\ closing.pc = "flush"
    /\ \E q \in _sweep_locked(closing.force) :
          /\ SweepAndTake(closing.force, q)
          /\ closing' = IF Take(q.queue) # <<>>
                        THEN [closing EXCEPT !.pc = "write", !.batch = Take(q.queue), !.force = FALSE]
                        ELSE [closing EXCEPT !.pc = "closed", !.force = FALSE]
    /\ UNCHANGED <<pump, logs, emitted, upset>>

Join ==
    /\ closing.pc = "join" /\ pump.pc = "ended"
    /\ closing' = [closing EXCEPT !.pc = "flush", !.force = LastForced, !.since = emitted]
    /\ UNCHANGED <<queue, window, pump, logs, fate, emitted, upset>>

FinalWrite ==
    /\ closing.pc = "write"
    /\ \/ logs' = logs \cup Union(closing.batch) /\ UNCHANGED <<fate, upset>>
       \/ Meets("locked") /\ fate' = FailedBatch(closing.batch) /\ UNCHANGED logs
    /\ closing' = [closing EXCEPT !.pc = "flush", !.batch = <<>>]
    /\ UNCHANGED <<queue, window, pump, emitted>>

Next ==
    \/ \E l \in Lines : emit(l) \/ Expire(l)
    \/ Interval \/ Flush \/ _write
    \/ stop \/ CancelWriter \/ Join \/ FinalFlush \/ FinalWrite

Spec == Init /\ [][Next]_vars

---------------------------------------------------------------------------
Lost == fate.dropped \cup fate.failed \cup fate.cancelled
Pending == Union(queue) \cup (UNION {window[l].suppressed : l \in Lines}) \cup Union(pump.batch) \cup Union(closing.batch)

\* The queue and the repeat windows stay within their limits.
TypeOK == emitted \in 0 .. MaxSeen /\ Cardinality(Open) <= MaxKeys /\ Len(queue) <= Capacity

\* Every occurrence is in the table, on its way there (itself or counted by a
\* summary), or lost in one of the three ways there are (pushed out of a full
\* queue, a failed write, a writer cancelled at its stop): never two, never none.
Accounted ==
    /\ logs \cup Pending \cup Lost = 1 .. emitted
    /\ logs \cap Pending = {} /\ logs \cap Lost = {} /\ Pending \cap Lost = {}

\* A stop leaves nothing behind of what was logged before its last flush began,
\* the repeats of a window that is still open included.
NothingLeft == closing.pc = "closed" => Pending \cap (1 .. closing.since) = {}
=============================================================================
