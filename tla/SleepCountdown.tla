---------------------------- MODULE SleepCountdown ----------------------------
(* How long the head unit still has before it sleeps (ingest/status.py), from  *)
(* reads that take a while (ingest/adb.py) and from the edge the Android       *)
(* logger witnessed (SleepDeadlineEvidence.kt).                                *)
(*                                                                             *)
(* The firmware latches its window when the ignition goes off and shows        *)
(* neither the timer nor that moment; "truth" is what nobody sees.  Times are  *)
(* on one clock; the unit's uptime is read within its boot.                    *)
EXTENDS Integers, FiniteSets

CONSTANTS
    Windows,          \* values of persist.sys.sleep.countdown.time
    Resting,          \* the one a drive begins with
    TTL,              \* UNIT_OBSERVATION_TTL_S
    READ_TIMEOUT,     \* RUNTIME_OBSERVATION_TIMEOUT_S
    EVIDENCE_TTL,     \* SLEEP_DEADLINE_EVIDENCE_TTL_S
    LOGGER_AGE,       \* DEADLINE_OBSERVATION_MAX_AGE_MS
    MIN_REMAINING,    \* RADIO_QUIET_MIN_REMAINING_S
    Horizon,          \* bound: the clock
    PowerEvents,      \* what may happen, each once
    FewPowerEvents    \* bound: how many of them in one behaviour

VARIABLES
    clock,
    truth,    \* [acc, deadline, window, boot]
    tracker,  \* the logger: [at, on, window, boot] of its last sample
    doc,      \* what it publishes: [at, on, lower, upper, window, boot]
    reading,  \* a read under way: what the unit said, and when
    status,   \* IngestStatus
    power     \* events so far

vars == <<clock, truth, tracker, doc, reading, status, power>>

None == -1
Margin == TTL + READ_TIMEOUT
Smaller(a, b) == IF a < b THEN a ELSE b
Larger(a, b) == IF a > b THEN a ELSE b
Meets(event) ==
    event \in PowerEvents \ power /\ Cardinality(power) < FewPowerEvents /\ power' = power \cup {event}

NoEdge == [at |-> None, on |-> FALSE, lower |-> None, upper |-> None, window |-> None, boot |-> 0]
NoRead == [busy |-> FALSE, at |-> None, acc |-> "on", window |-> None, boot |-> 0, doc |-> NoEdge]
NoStatus == [online |-> FALSE, failed |-> TRUE, at |-> None, boot |-> None, state |-> "unknown", window |-> None,
             off |-> None, quiet |-> None, unit |-> None, fresh |-> None, lastOn |-> None,
             lower |-> None, upper |-> None, operational |-> None, fromUnit |-> FALSE]

Init ==
    /\ clock = 0
    /\ truth = [acc |-> "on", deadline |-> None, window |-> Resting, boot |-> 1]
    /\ tracker = [at |-> None, on |-> FALSE, window |-> None, boot |-> 0] /\ doc = NoEdge
    /\ reading = NoRead /\ status = NoStatus /\ power = {}

---------------------------------------------------------------------------
(* The car and the unit.                                                    *)

\* Time passes; a read is over, or given up, in time.
Tick ==
    /\ clock < Horizon /\ (truth.acc = "off" => clock < truth.deadline)
    /\ reading.busy => clock < reading.at + READ_TIMEOUT
    /\ clock' = clock + 1
    /\ UNCHANGED <<truth, tracker, doc, reading, status, power>>

AccOff ==
    /\ truth.acc = "on"
    /\ truth' = [truth EXCEPT !.acc = "off", !.deadline = clock + truth.window]
    /\ UNCHANGED <<clock, tracker, doc, reading, status, power>>

AccOn ==
    /\ truth.acc = "off" /\ Meets("on again")
    /\ truth' = [truth EXCEPT !.acc = "on", !.deadline = None]
    /\ UNCHANGED <<clock, tracker, doc, reading, status>>

\* The window is set for the next timer.
Rewrite(w) ==
    /\ w # truth.window /\ Meets("rewrite")
    /\ truth' = [truth EXCEPT !.window = w]
    /\ UNCHANGED <<clock, tracker, doc, reading, status>>

\* The unit reboots; the logger's status file stays behind.
Reboot ==
    /\ Meets("reboot")
    /\ truth' = [truth EXCEPT !.acc = "on", !.deadline = None, !.boot = 2]
    /\ reading' = NoRead
    /\ UNCHANGED <<clock, tracker, doc, status>>

---------------------------------------------------------------------------
(* The logger: SleepDeadlineTracker.observe.                                *)

\* It may have changed on either side of the edge: the smaller one counts.
WindowOf(old, now) == Smaller(old, now)

observe ==
    LET old == tracker.boot = truth.boot /\ tracker.at # None /\ clock - tracker.at <= LOGGER_AGE
        fresh == [NoEdge EXCEPT !.at = clock, !.on = truth.acc = "on", !.boot = truth.boot]
        edge == [fresh EXCEPT !.lower = tracker.at, !.upper = clock, !.window = WindowOf(tracker.window, truth.window)]
        kept == [doc EXCEPT !.at = clock, !.on = FALSE]
        over(e) == e.lower # None /\ clock >= e.lower + e.window
        next == IF truth.acc = "on" \/ ~old THEN fresh ELSE IF tracker.on THEN edge ELSE kept
    IN
    /\ tracker.at # clock
    /\ tracker' = [at |-> clock, on |-> truth.acc = "on", window |-> truth.window, boot |-> truth.boot]
    /\ doc' = IF over(next) THEN fresh ELSE next
    /\ UNCHANGED <<clock, truth, reading, status, power>>

---------------------------------------------------------------------------
(* The server's read.                                                       *)

\* runtime_observation: what the unit says at this moment.
Read ==
    /\ ~reading.busy /\ status.at # clock
    /\ reading' = [busy |-> TRUE, at |-> clock, acc |-> truth.acc, window |-> truth.window, boot |-> truth.boot, doc |-> doc]
    /\ UNCHANGED <<clock, truth, tracker, doc, status, power>>

Fresh(s) == s.online /\ ~s.failed /\ s.at # None /\ clock - s.at <= TTL

\* _unit_countdown_remaining and _credible_countdown_remaining, as moments.
UnitDeadline(s) == IF s.unit = None \/ clock >= s.fresh THEN None ELSE s.unit

ServerDeadline(s) == IF s.off = None \/ s.quiet = None THEN None ELSE s.off + s.quiet - Margin

_credible(s) ==
    LET known == {UnitDeadline(s), ServerDeadline(s)} \ {None}
        all == IF s.operational # None THEN known \cup {s.operational} ELSE known
    IN IF ~Fresh(s) \/ s.state # "off" \/ known = {} THEN None
       ELSE Larger(clock, CHOOSE d \in all : \A e \in all : d <= e)

\* validated_sleep_deadline, and an edge not older than the last ON seen.
Valid(s, r) ==
    /\ r.acc = "off" /\ ~r.doc.on /\ r.doc.boot = r.boot /\ r.doc.lower # None
    /\ r.at - r.doc.at \in 0 .. EVIDENCE_TTL
    /\ s.lastOn # None => r.doc.upper > s.lastOn

\* A later edge, disjoint from the one in use.
Later(s, e) == e.lower > s.upper

\* The operational deadline of one timer only comes nearer.
Earliest(old, new) == IF old = None THEN new ELSE Smaller(old, new)

Unproven(s) == [s EXCEPT !.off = None, !.quiet = None]

\* The part for a read that says OFF: s is the status so far, "before" the one
\* of the last read.
WithOff(s, before, r, same) ==
    LET edge == same /\ Fresh(before) /\ before.state = "on"
        s1 == IF edge THEN [s EXCEPT !.off = clock,
                                     !.quiet = IF before.window = None THEN None ELSE WindowOf(before.window, r.window)]
              ELSE s
        e == r.doc
        other == s1.lower # None /\ (e.lower # s1.lower \/ e.upper # s1.upper)
        s2 == IF other /\ Later(s1, e) THEN [Unproven(s1) EXCEPT !.operational = None, !.fromUnit = FALSE] ELSE s1
        s3 == IF s2.fromUnit THEN s2 ELSE [s2 EXCEPT !.operational = None, !.fromUnit = TRUE]
    IN IF ~Valid(s, r) \/ (other /\ ~Later(s1, e)) THEN s1
       ELSE [Unproven(s3) EXCEPT !.lower = e.lower, !.upper = e.upper,
                !.unit = clock + e.window - (r.at - e.lower) - READ_TIMEOUT,
                !.fresh = clock + EVIDENCE_TTL - (r.at - e.at)]

WithOn(s, r) ==
    [Unproven(s) EXCEPT !.lastOn = Larger(r.at, s.lastOn), !.operational = None, !.fromUnit = FALSE]

\* observe_unit_runtime: the answer is taken in.
observe_unit_runtime ==
    LET r == reading
        same == status.boot = r.boot
        s0 == IF same /\ Fresh(status) THEN status ELSE Unproven(status)
        s1 == IF same THEN s0
              ELSE [s0 EXCEPT !.operational = None, !.fromUnit = FALSE, !.lower = None, !.upper = None, !.lastOn = None]
        s2 == [s1 EXCEPT !.online = TRUE, !.failed = FALSE, !.at = clock, !.boot = r.boot, !.state = r.acc,
                         !.window = r.window, !.unit = None, !.fresh = None]
        s3 == IF r.acc = "off" THEN WithOff(s2, status, r, same) ELSE WithOn(s2, r)
    IN
    /\ reading.busy
    /\ status' = IF _credible(s3) # None THEN [s3 EXCEPT !.operational = Earliest(@, _credible(s3))] ELSE s3
    /\ reading' = NoRead
    /\ UNCHANGED <<clock, truth, tracker, doc, power>>

\* The read fails: what is known of the power is withdrawn.
unit_observation_failed ==
    /\ reading.busy /\ Meets("read fails")
    /\ status' = [Unproven(status) EXCEPT !.failed = TRUE, !.state = "unknown", !.unit = None, !.fresh = None]
    /\ reading' = NoRead
    /\ UNCHANGED <<clock, truth, tracker, doc>>

Next ==
    \/ Tick \/ AccOff \/ AccOn \/ Reboot \/ \E w \in Windows : Rewrite(w)
    \/ observe \/ Read \/ observe_unit_runtime \/ unit_observation_failed

Spec == Init /\ [][Next]_vars

---------------------------------------------------------------------------
\* Every variable keeps its type.
TypeOK ==
    /\ clock \in 0 .. Horizon /\ truth.window \in Windows
    /\ status.operational \in Int /\ status.unit \in Int

\* radio_quieting_allowed: more than RADIO_QUIET_MIN_REMAINING_S are left.
radio_quieting_allowed ==
    _credible(status) # None /\ status.operational # None /\ _credible(status) - clock > MIN_REMAINING

\* The logger keeps its edge when the ignition comes on and goes off again
\* between two of its samples (SleepDeadlineEvidence.kt, "else -> evidence"), and
\* a status outlives a reboot: the edge is then too early, but its window may be
\* one that has since been shortened.
MayMisjudge == truth.window < Resting /\ power \cap {"on again", "reboot"} # {}

\* Apart from that, the time the server believes is left never exceeds what the
\* unit has, so that the radios are quieted only with more than the minimum left
\* (status.py, _credible_countdown_remaining and radio_quieting_allowed).
Conservative ==
    truth.acc = "off" /\ _credible(status) > clock /\ ~MayMisjudge
      => /\ _credible(status) <= truth.deadline
         /\ radio_quieting_allowed => truth.deadline - clock > MIN_REMAINING

\* For one witnessed edge the operational deadline only comes nearer, however
\* long the reads take.
Falls ==
    status.operational # None /\ status.fromUnit /\ status'.fromUnit /\ status'.lower = status.lower /\ status'.boot = status.boot
      => status'.operational <= status.operational
=============================================================================
