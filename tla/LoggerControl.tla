---------------------------- MODULE LoggerControl ----------------------------
(* The quiesce handshake with the OBD logger on the unit: a request file and *)
(* an acknowledgement file in its control directory (ingest/obd_control.py), *)
(* the coordinator's lease over it, and the logger's side of the same files  *)
(* (android: IngestionQuiesce.kt, ObdLoggerService.kt).                      *)
(*                                                                           *)
(* A deadline is the time left to it.  A rename on the unit is a step of its *)
(* own: a command cut off by its timeout may still reach it.                 *)
EXTENDS Integers, FiniteSets

CONSTANTS
    MAX_HOLD,               \* hold_s of a request or a renewal
    CLOCK_SKEW,             \* INGESTION_CLOCK_SKEW_SECONDS
    RENEWAL_WRITE_MARGIN_S, \* least time left to begin a renewal
    MINIMUM,                \* minimum_remaining_s
    TIMEOUT,                \* how long an acknowledgement is polled for
    COMMAND,                \* timeout of one adb command
    MaxRequests, MaxRenew,  \* bounds: requests, renewals of one behaviour
    LoggerFaults,           \* the environment's events
    FewFaults               \* bound: how many of them in one behaviour

VARIABLES
    ctrl,      \* files: [req, left, ack, state], left to the logger's expiry
    logger,    \* [pc, for, released]
    hold,      \* the coordinator: [pc, id, seen, left, age, since, asked, renewals]
    rename,    \* a rename still to come: [id, left], id 0 if none
    ahead,     \* by how much the unit's clock is ahead of the server's
    mishap     \* events of the environment met so far

vars == <<ctrl, logger, hold, rename, ahead, mishap>>

None == [id |-> 0, left |-> 0]
NoFiles == [req |-> 0, left |-> 0, ack |-> 0, state |-> "ready"]
Less(n) == IF n > 0 THEN n - 1 ELSE 0
Meets(event) ==
    event \in LoggerFaults \ mishap /\ Cardinality(mishap) < FewFaults /\ mishap' = mishap \cup {event}

\* What a body written now leaves the logger: its expiry is CLOCK_SKEW later
\* than the deadline, on a clock that may be ahead.
DeviceLeft == MAX_HOLD + CLOCK_SKEW - ahead

Init ==
    /\ ahead \in 0 .. CLOCK_SKEW
    /\ ctrl \in {NoFiles, [req |-> 9, left |-> 1, ack |-> 9, state |-> "ready"]}
    /\ logger = [pc |-> IF ctrl.req = 0 THEN "poll" ELSE "paused", for |-> ctrl.req, released |-> 0]
    /\ hold = [pc |-> "idle", id |-> 0, seen |-> None, left |-> 0, age |-> 0,
              since |-> 0, asked |-> 0, renewals |-> 0]
    /\ rename = None
    /\ mishap = {}

---------------------------------------------------------------------------
(* The server.                                                              *)

\* Each command has a timeout of its own; since counts from the first.
Step(pc) == hold' = [hold EXCEPT !.pc = pc, !.age = 0]

\* A semantic failure ends the lease: radios and logger are restored.
Lose == hold' = [hold EXCEPT !.pc = "lost", !.left = 0, !.age = 0, !.since = 0, !.seen = None]

\* request_quiesce: a new id; the files of a prior handshake are removed first.
request_quiesce ==
    /\ hold.pc = "idle" /\ hold.asked < MaxRequests
    /\ hold' = [hold EXCEPT !.pc = "clear", !.id = hold.asked + 1, !.asked = @ + 1, !.age = 0, !.since = 0]
    /\ UNCHANGED <<ctrl, logger, rename, ahead, mishap>>

\* _remove_files: nothing there, or rm and look again; the answers may be lost.
_remove_files(absent, failed) ==
    /\ \/ ctrl.req = 0 /\ ctrl.ack = 0 /\ UNCHANGED <<ctrl, mishap>> /\ absent
       \/ ctrl' = NoFiles /\ UNCHANGED mishap /\ absent
       \/ Meets("rm fails") /\ UNCHANGED ctrl /\ failed
       \/ ctrl' = NoFiles /\ Meets("rm unanswered") /\ failed
    /\ UNCHANGED <<logger, rename, ahead>>

Cleared == hold.pc = "clear" /\ _remove_files(Step("write"), Lose)

\* The body, made before the files were removed, beside its place; then the rename, the readback and the answer.
Write ==
    /\ hold.pc = "write" /\ rename = None
    /\ rename' = [id |-> hold.id, left |-> DeviceLeft - hold.since]
    /\ hold' = [hold EXCEPT !.pc = "rename"]
    /\ UNCHANGED <<ctrl, logger, ahead, mishap>>

Rename ==
    /\ rename # None
    /\ ctrl' = [ctrl EXCEPT !.req = rename.id, !.left = rename.left]
    /\ rename' = None
    /\ CASE hold.pc = "rename" /\ rename.id = hold.id -> Step("poll")
         [] hold.pc = "renaming" /\ rename.id = hold.id -> Step("renewed")
         [] OTHER -> UNCHANGED hold
    /\ UNCHANGED <<logger, ahead, mishap>>

\* _logger_valid_until counts from before the command: "conservative".
Proved(h) == [h EXCEPT !.pc = "held", !.left = IF MAX_HOLD > h.since THEN MAX_HOLD - h.since ELSE 0]

\* parse_ack: of this request, ready or refused.
Poll ==
    /\ hold.pc = "poll" /\ ctrl.ack # 0
    /\ IF ctrl.ack = hold.id /\ ctrl.state = "ready"
       THEN hold' = Proved(hold) ELSE Lose
    /\ UNCHANGED <<ctrl, logger, rename, ahead, mishap>>

PollEnds ==
    /\ hold.pc = "poll" /\ ctrl.ack = 0 /\ hold.age = TIMEOUT
    /\ Lose
    /\ UNCHANGED <<ctrl, logger, rename, ahead, mishap>>

Margin(seen) == seen.left + ahead - CLOCK_SKEW >= RENEWAL_WRITE_MARGIN_S

\* renew_quiesce and verify_quiesce: request, acknowledgement and request again,
\* unchanged and of this id, with the margin in hand.
renew_quiesce ==
    /\ hold.pc = "held" /\ hold.renewals < MaxRenew
    /\ hold' = [hold EXCEPT !.pc = "read", !.renewals = @ + 1, !.age = 0, !.since = 0]
    /\ UNCHANGED <<ctrl, logger, rename, ahead, mishap>>

ReadRequest ==
    /\ hold.pc = "read"
    /\ IF ctrl.req # hold.id THEN Lose
       ELSE hold' = [hold EXCEPT !.pc = "read ack", !.age = 0, !.seen = [id |-> ctrl.req, left |-> ctrl.left]]
    /\ UNCHANGED <<ctrl, logger, rename, ahead, mishap>>

ReadAck ==
    /\ hold.pc = "read ack"
    /\ IF ctrl.ack = hold.id /\ ctrl.state = "ready" THEN Step("reread") ELSE Lose
    /\ UNCHANGED <<ctrl, logger, rename, ahead, mishap>>

Reread ==
    /\ hold.pc = "reread"
    /\ IF ctrl.req = hold.id /\ ctrl.left = hold.seen.left /\ Margin(hold.seen)
       THEN Step("compare") ELSE Lose
    /\ UNCHANGED <<ctrl, logger, rename, ahead, mishap>>

\* The unit replaces exactly the body that was read.
Compare ==
    /\ hold.pc = "compare" /\ rename = None
    /\ IF ctrl.req = hold.id /\ ctrl.left = hold.seen.left
       THEN rename' = [id |-> hold.id, left |-> DeviceLeft] /\ hold' = [hold EXCEPT !.pc = "renaming"]
       ELSE Lose /\ UNCHANGED rename
    /\ UNCHANGED <<ctrl, logger, ahead, mishap>>

Renewed ==
    /\ hold.pc = "renewed"
    /\ IF MAX_HOLD - hold.since < MINIMUM THEN Lose ELSE hold' = [Proved(hold) EXCEPT !.seen = None]
    /\ UNCHANGED <<ctrl, logger, rename, ahead, mishap>>

InCommand == hold.pc \in {"clear", "write", "rename", "read", "read ack", "reread", "compare", "renaming", "resume"}
Working == InCommand \/ hold.pc = "poll"

\* A command times out.  A renewal is retried while the proven time covers the
\* radios' recovery; the rename may still happen.
Cut ==
    /\ hold.pc \in {"clear", "write", "rename", "read", "read ack", "reread", "compare", "renaming", "resume"}
    /\ hold.age >= COMMAND
    /\ IF hold.pc \notin {"clear", "write", "rename", "resume"} /\ hold.left > MINIMUM + RENEWAL_WRITE_MARGIN_S
       THEN hold' = [hold EXCEPT !.pc = "held", !.seen = None] ELSE Lose
    /\ UNCHANGED <<ctrl, logger, rename, ahead, mishap>>

\* resume_logger, once the transfer is over or the lease lost; tried again by
\* the transition's recovery.
resume_logger ==
    /\ hold.pc \in {"held", "lost"}
    /\ hold' = [hold EXCEPT !.pc = "resume", !.left = 0, !.age = 0, !.since = 0, !.seen = None]
    /\ UNCHANGED <<ctrl, logger, rename, ahead, mishap>>

Resumed ==
    /\ hold.pc = "resume"
    /\ _remove_files(hold' = [hold EXCEPT !.pc = "idle", !.id = 0, !.age = 0, !.since = 0], Lose)

\* The process ends; the transition's row still owes the resume.
ServerCrash ==
    /\ hold.pc \notin {"idle", "lost"} /\ Meets("server crash")
    /\ Lose
    /\ UNCHANGED <<ctrl, logger, rename, ahead>>

---------------------------------------------------------------------------
(* The logger.                                                              *)

Active(id) == ctrl.req = id /\ ctrl.left > 0 /\ id # logger.released

\* Mutant: an expired request holds the logger for good.
ForEver == [ctrl EXCEPT !.left = @]

\* clearExpiredLease: the request, and the acknowledgement correlated with it.
clearExpiredLease == [ctrl EXCEPT !.req = 0, !.ack = IF @ = ctrl.req THEN 0 ELSE @]

\* readRequest: a valid request is served, an expired one cleared.
readRequest ==
    /\ logger.pc \in {"poll", "paused"}
    /\ IF ctrl.req # 0 /\ ctrl.left = 0
       THEN ctrl' = clearExpiredLease /\ UNCHANGED logger
       ELSE IF ctrl.req # 0 /\ Active(ctrl.req) /\ (logger.pc = "poll" \/ ctrl.ack # ctrl.req)
       THEN logger' = [logger EXCEPT !.pc = "finish", !.for = ctrl.req] /\ UNCHANGED ctrl
       ELSE /\ logger.pc = "paused" /\ ~Active(ctrl.req)
            /\ ctrl' = IF ctrl.req = 0 THEN [ctrl EXCEPT !.ack = 0] ELSE ctrl
            /\ logger' = [logger EXCEPT !.pc = "poll"]
    /\ UNCHANGED <<hold, rename, ahead, mishap>>

\* The drive is finished, exported and the adapter let go; requestStillActive?
finalizeActiveDrive ==
    /\ logger.pc = "finish"
    /\ IF Active(logger.for) THEN logger' = [logger EXCEPT !.pc = "publish"] /\ UNCHANGED ctrl
       ELSE logger' = [logger EXCEPT !.pc = "poll"] /\ ctrl' = [ctrl EXCEPT !.ack = 0]
    /\ UNCHANGED <<hold, rename, ahead, mishap>>

publishReady ==
    /\ logger.pc = "publish"
    /\ ctrl' = [ctrl EXCEPT !.ack = logger.for, !.state = "ready"]
    /\ logger' = [logger EXCEPT !.pc = "paused"]
    /\ UNCHANGED <<hold, rename, ahead, mishap>>

publishFailed ==
    /\ logger.pc \in {"finish", "publish"} /\ Active(logger.for) /\ Meets("export fails")
    /\ ctrl' = [ctrl EXCEPT !.ack = logger.for, !.state = "failed"]
    /\ logger' = [logger EXCEPT !.pc = "poll"]
    /\ UNCHANGED <<hold, rename, ahead>>

\* The ignition releases the pause of the request in force.
IgnitionRelease ==
    /\ logger.pc = "paused" /\ Active(ctrl.req) /\ Meets("ignition")
    /\ logger' = [logger EXCEPT !.pc = "poll", !.released = ctrl.req]
    /\ ctrl' = [ctrl EXCEPT !.ack = ctrl.req, !.state = "failed"]
    /\ UNCHANGED <<hold, rename, ahead>>

\* clearLeaseAfterBoot; a rename that had not happened never will.
Boot ==
    /\ Meets("boot")
    /\ ctrl' = NoFiles /\ rename' = None
    /\ logger' = [pc |-> "poll", for |-> 0, released |-> 0]
    /\ UNCHANGED <<hold, ahead>>

Logging == readRequest \/ finalizeActiveDrive \/ publishReady

\* A command takes at most COMMAND, an acknowledgement is polled for TIMEOUT.
Tick ==
    /\ ~(InCommand /\ hold.age >= COMMAND) /\ hold.pc # "renewed" /\ ~(hold.pc = "poll" /\ hold.age >= TIMEOUT)
    /\ ctrl' = [ctrl EXCEPT !.left = Less(@)]
    /\ rename' = [rename EXCEPT !.left = Less(@)]
    /\ hold' = [hold EXCEPT !.left = Less(@), !.seen.left = Less(@),
                  !.age = IF Working THEN @ + 1 ELSE 0,
                  !.since = IF Working /\ hold.pc # "resume" THEN @ + 1 ELSE 0]
    /\ <<ctrl, rename, hold>>' # <<ctrl, rename, hold>>
    /\ UNCHANGED <<logger, ahead, mishap>>

Serving ==
    \/ Cleared \/ Write \/ Poll \/ PollEnds \/ ReadRequest \/ ReadAck \/ Reread \/ Compare \/ Renewed \/ Resumed

Next ==
    \/ request_quiesce \/ renew_quiesce \/ resume_logger \/ Serving \/ Rename \/ Cut \/ ServerCrash
    \/ Logging \/ publishFailed \/ IgnitionRelease \/ Boot \/ Tick

Spec == /\ Init /\ [][Next]_vars /\ WF_vars(Tick) /\ WF_vars(Logging) /\ WF_vars(Cut)
        /\ WF_vars(Serving) /\ WF_vars(Rename)

---------------------------------------------------------------------------
\* Every variable keeps its type; no hold is longer than the longest lease.
TypeOK ==
    /\ ctrl.req \in 0 .. MaxRequests \cup {9} /\ ctrl.left \in 0 .. MAX_HOLD + CLOCK_SKEW
    /\ logger.pc \in {"poll", "finish", "publish", "paused"}
    /\ hold.left \in 0 .. MAX_HOLD

\* While the coordinator's lease has time left by its own clock, the logger
\* does not poll the adapter: whatever a renewal took and however far the
\* unit's clock is ahead within the tolerance.  Only the ignition, a boot of
\* the unit and an export that failed end the pause before.
HoldKept == hold.left > 0 /\ mishap \cap {"ignition", "boot"} = {} => logger.pc # "poll"

\* The logger always polls again: a server that never comes back leaves a
\* request that expires.
LoggerReturns == []<>(logger.pc = "poll")
=============================================================================
