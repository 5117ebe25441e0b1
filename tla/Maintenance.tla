----------------------------- MODULE Maintenance -----------------------------
(* The maintenance hold (ingest/maintenance.py): the unit's own countdown to *)
(* sleep is cancelled, once per ignition cycle, and a lease renewed by a     *)
(* heartbeat stands in for it.                                               *)
(*                                                                           *)
(* Every adb call and every write of the cancellation record ends an action; *)
(* either may fail, or be done with its answer lost.  An observation is      *)
(* applied when it is made.  The unit of time is fifteen seconds.            *)
EXTENDS Integers

CONSTANTS
    EVIDENCE_TTL_S, DEVICE_HEARTBEAT_TTL_S, RESTORE_RESERVE_S,
    HEARTBEAT_REFRESH_TIMEOUT_S,
    Duration,      \* duration_s of a hold
    MaxTime,       \* bound: the unit's uptime, a hold apart
    MaxSwitch,     \* bound: ignition switches and reboots
    MaxStart,      \* bound: holds asked for
    MaxFault       \* bound: failures and crashes

VARIABLES
    unit,    \* [boot, on, shown, now, offAt, cancelled]; shown: the countdown is on screen
    lease,   \* LEASE_PATH on the unit: [boot, expiry, end]
    file,    \* the cancellation record on disk
    ctl,     \* the controller's memory
    op,      \* the start or hold under way
    clear,   \* _clear_task: what it expects to delete
    late,    \* a record write that outlived its timeout
    spent    \* [switch, start, fault]

vars == <<unit, lease, file, ctl, op, clear, late, spent>>

None == [boot |-> 0, gen |-> 0, after |-> -1, verified |-> FALSE, legacy |-> FALSE]
NoLease == [boot |-> 0, expiry |-> 0, end |-> 0]
NoClear == [run |-> FALSE, boot |-> 0, gen |-> 0, record |-> None]
NoOp == [pc |-> "idle", boot |-> 0, age |-> 0, to |-> "failed", locked |-> FALSE]

\* A controller that has just read this record.
Loaded(record) ==
    [state |-> "inactive", cancelled |-> FALSE, error |-> FALSE,
     durable |-> record.boot, gen |-> record.gen, record |-> record, fence |-> FALSE,
     boot |-> 0, left |-> 0, age |-> EVIDENCE_TTL_S]

Init ==
    /\ unit = [boot |-> 1, on |-> TRUE, shown |-> FALSE, now |-> 0, offAt |-> 0, cancelled |-> FALSE]
    /\ lease = NoLease
    /\ file \in {None, [None EXCEPT !.boot = 1, !.gen = 1, !.legacy = TRUE]}
    /\ ctl = Loaded(file)
    /\ op = NoOp /\ clear = NoClear /\ late = None
    /\ spent = [switch |-> 0, start |-> 0, fault |-> 0]

Fault == spent.fault < MaxFault /\ spent' = [spent EXCEPT !.fault = @ + 1]

---------------------------------------------------------------------------
(* The unit.                                                                *)

\* Ignition off shows the countdown; on, or a boot, ends the cycle.
Switch ==
    /\ spent.switch < MaxSwitch /\ spent' = [spent EXCEPT !.switch = @ + 1]
    /\ \/ unit.on /\ unit' = [unit EXCEPT !.on = FALSE, !.shown = TRUE, !.offAt = unit.now]
       \/ ~unit.on /\ unit' = [unit EXCEPT !.on = TRUE, !.shown = FALSE, !.cancelled = FALSE]
       \/ unit.boot < 2 /\ unit' = [boot |-> 2, on |-> FALSE, shown |-> TRUE, now |-> 0, offAt |-> 0, cancelled |-> FALSE]
    /\ UNCHANGED <<lease, file, ctl, op, clear, late>>

\* The age of the evidence, and what is left of the hold.
RunDown(c) == [c EXCEPT !.age = IF @ < EVIDENCE_TTL_S THEN @ + 1 ELSE @,
                        !.left = IF @ > 0 THEN @ - 1 ELSE 0]

\* Time passes; a refresh under way times out before it may take longer.
Tick ==
    /\ unit.now < MaxTime \/ ctl.left > 0
    /\ op.pc = "refresh" => op.age < HEARTBEAT_REFRESH_TIMEOUT_S
    /\ unit' = [unit EXCEPT !.now = @ + 1]
    /\ ctl' = RunDown(ctl)
    /\ op' = IF op.pc = "refresh" THEN [op EXCEPT !.age = @ + 1] ELSE op
    /\ UNCHANGED <<lease, file, clear, late, spent>>

\* maintenance_valid, in the watchdog on the unit.
maintenance_valid ==
    /\ lease.boot = unit.boot /\ ~unit.on
    /\ unit.now < lease.expiry /\ lease.expiry <= unit.now + DEVICE_HEARTBEAT_TTL_S
    /\ lease.expiry <= lease.end

---------------------------------------------------------------------------
(* The record: written before the countdown is touched.                     *)

\* _write_record, and the memory of it.
Written(record) ==
    /\ file' = record
    /\ ctl' = [ctl EXCEPT !.durable = record.boot, !.gen = record.gen, !.record = record, !.error = FALSE]

\* It fails, perhaps only after the file was replaced (the directory's sync):
\* the record is on disk then and not in memory.
WriteFails(record) ==
    /\ file' \in {file, record}
    /\ ctl' = [ctl EXCEPT !.error = TRUE]

\* A write happens, fails, or is still going on when the caller gives up.
Write(record, onDone, onError, onTimeout) ==
    \/ Written(record) /\ onDone /\ UNCHANGED <<late, spent>>
    \/ Fault /\ WriteFails(record) /\ onError /\ UNCHANGED late
    \/ Fault /\ onTimeout /\ late' = record /\ UNCHANGED <<file, ctl>>

\* The thread finishes the write that its caller gave up.
LateWrite ==
    /\ late # None /\ late' = None
    /\ Written(late) \/ WriteFails(late)
    /\ UNCHANGED <<unit, lease, op, clear, spent>>

\* What is on disk is what the observation was about.
Matches == /\ clear.record # None => file = clear.record
           /\ file # None => file.boot = clear.boot /\ file.gen = clear.gen

\* _clear_record: only what was expected is deleted; that may fail before the
\* file is gone, or after.
_clear_record ==
    /\ clear.run
    /\ LET forget == ctl.gen = clear.gen /\ (clear.record # None => ctl.record = clear.record) IN
       \/ ~Matches /\ UNCHANGED <<file, ctl, spent>>
       \/ /\ Matches /\ file' = None
          /\ ctl' = [ctl EXCEPT !.durable = 0, !.error = FALSE,
                       !.cancelled = @ /\ ~forget,
                       !.gen = IF forget THEN 0 ELSE @, !.record = IF forget THEN None ELSE @]
          /\ UNCHANGED spent
       \/ Matches /\ Fault /\ file' \in {file, None} /\ UNCHANGED ctl
    /\ clear' = NoClear
    /\ UNCHANGED <<unit, lease, op, late>>

\* _recorded_cycle: the unit's own evidence of an off edge after the cancellation.
_recorded_cycle ==
    /\ ~ctl.error /\ ctl.record # None /\ ~ctl.record.legacy /\ ctl.record.after >= 0
    /\ unit.boot = ctl.record.boot /\ ~unit.on
    /\ unit.offAt > ctl.record.after

Known == IF ctl.durable # 0 THEN ctl.durable ELSE ctl.boot

\* observe: a new boot, the ignition on or a new cycle ends the hold and lets
\* the record go.
observe ==
    LET ended == (Known # 0 /\ unit.boot # Known) \/ unit.on \/ _recorded_cycle IN
    /\ ~op.locked   \* start and stop hold _lock
    /\ \/ /\ ended
          /\ ctl' = IF ctl.state = "active" THEN [ctl EXCEPT !.state = "restoring"] ELSE ctl
          /\ clear' = IF (ctl.cancelled \/ ctl.durable # 0 \/ ctl.error) /\ ~clear.run
                      THEN [run |-> TRUE, boot |-> ctl.durable, gen |-> ctl.gen,
                            record |-> IF _recorded_cycle THEN ctl.record ELSE None]
                      ELSE clear
          /\ UNCHANGED <<file, spent>>
       \* _anchor_legacy_after_observation: an old record gets its time now.
       \/ /\ ~ended /\ ~ctl.error /\ ctl.record # None /\ ctl.record.legacy
          /\ ctl.state \in {"inactive", "failed", "expired"} /\ ~ctl.fence
          /\ unit.boot = ctl.record.boot /\ ~unit.on /\ file = ctl.record
          /\ LET anchored == [file EXCEPT !.after = unit.now + 1, !.legacy = FALSE]
             IN (Written(anchored) /\ UNCHANGED spent) \/ (WriteFails(anchored) /\ Fault)
          /\ UNCHANGED clear
    /\ UNCHANGED <<unit, lease, op, late>>

---------------------------------------------------------------------------
(* start: attest, prove, record, cancel, prove again, lease.                *)

Off == ~unit.on

start ==
    /\ op.pc = "idle" /\ ~ctl.fence /\ spent.start < MaxStart
    /\ spent' = [spent EXCEPT !.start = @ + 1]
    /\ ~clear.run /\ late = None /\ Off
    /\ op' = [NoOp EXCEPT !.pc = "look", !.boot = unit.boot, !.locked = TRUE]
    /\ ctl' = [ctl EXCEPT !.fence = TRUE]
    /\ UNCHANGED <<unit, lease, file, clear, late>>

\* Nothing was touched: the fence is let go.
Refuse ==
    /\ op.pc = "look"
    /\ op' = NoOp /\ ctl' = [ctl EXCEPT !.fence = FALSE]
    /\ UNCHANGED <<unit, lease, file, clear, late, spent>>

\* The countdown is on screen and the unit has not restarted meanwhile.
Prepare ==
    /\ op.pc = "look" /\ Off /\ unit.boot = op.boot /\ unit.shown
    /\ op' = [op EXCEPT !.pc = "record"]
    /\ ctl' = [ctl EXCEPT !.boot = unit.boot, !.cancelled = TRUE, !.state = "failed"]
    /\ UNCHANGED <<unit, lease, file, clear, late, spent>>

\* _retry_verified_cancellation: no countdown, but this cycle's is known to be
\* cancelled.
Retry ==
    LET r == ctl.record IN
    /\ op.pc = "look" /\ Off /\ unit.boot = op.boot /\ ~unit.shown
    /\ ~ctl.error /\ r # None /\ ~r.legacy /\ r.verified /\ r.boot = op.boot /\ file = r
    /\ ctl.gen = r.gen /\ ctl.durable = r.boot /\ unit.now >= r.after
    /\ op' = [op EXCEPT !.pc = "lease"]
    /\ ctl' = [ctl EXCEPT !.boot = unit.boot]
    /\ UNCHANGED <<unit, lease, file, clear, late, spent>>

Goto(pc) == op' = [op EXCEPT !.pc = pc]
Ending == op' = [op EXCEPT !.pc = "end", !.to = "failed"]

_record_cancellation ==
    /\ op.pc = "record"
    /\ Write([None EXCEPT !.boot = op.boot, !.gen = spent.start + 1], Goto("swipe"), Ending, Ending)
    /\ UNCHANGED <<unit, lease, clear>>

\* The swipe, whose answer may be lost.  A unit that has rebooted is not
\* connected any more.
Swipe ==
    /\ op.pc = "swipe"
    /\ unit' = IF unit.shown /\ unit.boot = op.boot
               THEN [unit EXCEPT !.shown = FALSE, !.cancelled = TRUE] ELSE unit
    /\ \/ unit.boot = op.boot /\ Goto("proof") /\ UNCHANGED spent
       \/ unit.boot = op.boot /\ Fault /\ Ending
       \/ unit.boot # op.boot /\ Ending /\ UNCHANGED spent
    /\ UNCHANGED <<lease, file, ctl, clear, late>>

\* Gone from the screen, ignition still off, same boot: the time is recorded.
_record_cycle_boundary ==
    /\ op.pc = "proof"
    /\ IF unit.shown \/ unit.on \/ unit.boot # op.boot \/ file # ctl.record
       THEN Ending /\ UNCHANGED <<file, ctl, late, spent>>
       ELSE Write([file EXCEPT !.after = unit.now + 1, !.verified = TRUE], Goto("lease"), Ending, Ending)
    /\ UNCHANGED <<unit, lease, clear>>

\* Mutant: the device is told the lease lasts no longer than the evidence.
ShortLease == unit.now + EVIDENCE_TTL_S - 1

\* _publish: when the lease on the unit runs out unless it is renewed.
Expiry == unit.now + DEVICE_HEARTBEAT_TTL_S

MinOf(a, b) == IF a < b THEN a ELSE b

_activate_lease ==
    /\ op.pc = "lease"
    /\ \/ /\ unit.boot = op.boot
          /\ lease' = [boot |-> unit.boot, expiry |-> MinOf(Expiry, unit.now + Duration), end |-> unit.now + Duration]
          /\ ctl' = [ctl EXCEPT !.cancelled = TRUE, !.state = "active", !.age = 0,
                       !.left = Duration]
          /\ op' = [op EXCEPT !.pc = "active", !.locked = FALSE] /\ UNCHANGED spent
       \/ /\ (unit.boot # op.boot /\ UNCHANGED spent) \/ Fault
          /\ Ending /\ UNCHANGED <<lease, ctl>>
    /\ UNCHANGED <<unit, file, clear, late>>

---------------------------------------------------------------------------
(* The hold.                                                                *)

HoldOver == ctl.state # "active" \/ ctl.left <= RESTORE_RESERVE_S

\* One refresh: screen, power, lease.
Heartbeat ==
    /\ op.pc = "active" /\ ~HoldOver /\ ctl.age < EVIDENCE_TTL_S
    /\ IF unit.shown \/ unit.on \/ unit.boot # ctl.boot
       THEN Ending /\ UNCHANGED lease
       ELSE /\ lease' = [boot |-> unit.boot, expiry |-> MinOf(Expiry, lease.end), end |-> lease.end]
            /\ op' = [op EXCEPT !.pc = "refresh", !.age = 0]
    /\ UNCHANGED <<unit, file, ctl, clear, late, spent>>

Refreshed ==
    /\ op.pc = "refresh"
    /\ ctl' = [ctl EXCEPT !.age = 0] /\ Goto("active")
    /\ UNCHANGED <<unit, lease, file, clear, late, spent>>

\* The evidence is lost: every attempt failed, or it is too old to refresh.
HeartbeatFails ==
    /\ \/ op.pc = "active" /\ ctl.age >= EVIDENCE_TTL_S /\ UNCHANGED spent
       \/ op.pc \in {"active", "refresh"} /\ Fault
    /\ Ending
    /\ UNCHANGED <<unit, lease, file, ctl, clear, late>>

HoldEnds ==
    /\ op.pc = "active" /\ HoldOver
    /\ op' = [op EXCEPT !.pc = "end", !.to = "expired"]
    /\ UNCHANGED <<unit, lease, file, ctl, clear, late, spent>>

\* stop, by the operator: waits for a start, takes a hold over.
stop ==
    /\ ~op.locked /\ (op.pc # "idle" \/ ctl.state = "restoring")
    /\ op' = [op EXCEPT !.pc = "end", !.to = "inactive", !.locked = TRUE]
    /\ UNCHANGED <<unit, lease, file, ctl, clear, late, spent>>

\* _end_hold: the lease goes, then the radios are restored.
_end_hold ==
    /\ op.pc = "end"
    /\ lease' = NoLease
    /\ ctl' = [ctl EXCEPT !.state = "restoring"]
    /\ Goto("restore")
    /\ UNCHANGED <<unit, file, clear, late, spent>>

\* stop_for_maintenance, and the writes still pending.
After(ok) ==
    [ctl EXCEPT !.state = IF ok THEN op.to ELSE "restoring", !.fence = IF ok THEN FALSE ELSE @]

Restore ==
    /\ op.pc = "restore"
    /\ \E ok \in BOOLEAN :
         /\ IF ok THEN late = None /\ ~clear.run /\ UNCHANGED spent ELSE Fault
         /\ ctl' = After(ok)
    /\ op' = NoOp
    /\ UNCHANGED <<unit, lease, file, clear, late>>

\* The server dies; what it had not yet written is lost or not.
Crash ==
    /\ Fault
    /\ file' \in IF late = None THEN {file} ELSE {file, late}
    /\ ctl' = Loaded(file')
    /\ op' = NoOp /\ clear' = NoClear /\ late' = None
    /\ UNCHANGED <<unit, lease>>

Start == start \/ Refuse \/ Prepare \/ Retry \/ _record_cancellation \/ Swipe \/ _record_cycle_boundary \/ _activate_lease
Hold == Heartbeat \/ Refreshed \/ HeartbeatFails \/ HoldEnds \/ _end_hold \/ Restore
Record == LateWrite \/ _clear_record

Next == Switch \/ Tick \/ Record \/ observe \/ Start \/ Hold \/ stop \/ Crash

Proceed == Record \/ Refuse \/ Prepare \/ Retry \/ _record_cancellation \/ Swipe
           \/ _record_cycle_boundary \/ _activate_lease \/ Hold

Spec == Init /\ [][Next]_vars /\ WF_vars(Tick) /\ WF_vars(Proceed) /\ WF_vars(observe)

---------------------------------------------------------------------------
\* native_cancelled: the countdown the unit had is not to be counted on.
native_cancelled == ctl.error \/ ctl.durable # 0 \/ (ctl.cancelled /\ unit.boot = ctl.boot)

\* remaining: what a backup may still use of the hold; 0 is none.
remaining ==
    IF ctl.state # "active" \/ ctl.error \/ ctl.age >= EVIDENCE_TTL_S \/ ctl.left <= RESTORE_RESERVE_S
    THEN 0 ELSE ctl.left - RESTORE_RESERVE_S

\* Every variable keeps its type: controller state, age of its evidence, time left, and
\* the snapshot taken after.
TypeOK ==
    /\ ctl.state \in {"inactive", "active", "restoring", "failed", "expired"}
    /\ ctl.age \in 0 .. EVIDENCE_TTL_S /\ ctl.left \in 0 .. Duration
    /\ file.after >= -1 /\ (file.verified => file.after >= 0)

\* Whenever the unit's countdown has been cancelled in this cycle the server
\* knows it, whatever answer was lost, write was slow or server died.
CancellationRemembered == unit.cancelled => native_cancelled

\* As long as the hold admits a backup, the lease on the unit has not run out:
\* the unit's watchdog does not end the hold under it.
LeaseOutlivesEvidence ==
    remaining > 0 /\ op.pc \in {"active", "refresh"} /\ unit.boot = ctl.boot /\ ~unit.on => maintenance_valid

\* The process keeps the fence as long as it holds, or owes, something.
FenceWhileOwing == ctl.state \in {"active", "restoring"} => ctl.fence

\* A hold ends by itself.
HoldsEnd == ctl.state = "active" ~> ctl.state # "active"

\* A write that failed after the file was replaced left a cancellation on disk
\* that the server does not know of: no clear expects it.
Orphaned == ctl.error /\ file # None /\ (file.boot # ctl.durable \/ file.gen # ctl.gen)

\* When the ignition stays on the cancellation is forgotten, so that the next
\* countdown counts again, whatever write or clear failed: all but for an
\* orphaned record, which holds until the server restarts.
CycleReopens == <>[](unit.on) => <>[](~native_cancelled \/ Orphaned)
=============================================================================
