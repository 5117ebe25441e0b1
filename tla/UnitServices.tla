---------------------------- MODULE UnitServices ----------------------------
(***************************************************************************)
(* The services that talk to the head unit. They share no state, so they   *)
(* are stated side by side and not as their product: a behaviour picks one *)
(* and the others rest in an initial state.                                *)
(***************************************************************************)
EXTENDS Integers

CONSTANTS
    EVIDENCE_TTL_S, DEVICE_HEARTBEAT_TTL_S, RESTORE_RESERVE_S, HEARTBEAT_REFRESH_TIMEOUT_S,
    Duration, MaxTime, MaxSwitch, MaxStart, MaxFault,             \* Maintenance
    MAX_HOLD, CLOCK_SKEW, RENEWAL_WRITE_MARGIN_S, MINIMUM, TIMEOUT, COMMAND, MaxRequests,
    MaxRenew, LoggerFaults, FewFaults,                            \* LoggerControl
    Ring, MAX_SERVER_EVENTS, EVENT_STORE_ATTEMPTS, LastSequence, MaxMirrors,
    MirrorEvents,                                                 \* LoggerEvents
    Reports, Remote, Cards, MAX_AGE, MaxInspections, ReportEvents, FewEvents,     \* MovementStatus
    OwnLevels, Policies, Legacy, Shells, MaxLine, MaxVisit, UnitEvents,
    FewUnitEvents,                                                \* UnitLogs
    Windows, Resting, TTL, READ_TIMEOUT, EVIDENCE_TTL, LOGGER_AGE, MIN_REMAINING, Horizon,
    PowerEvents, FewPowerEvents                                   \* SleepCountdown

UnitAssumption ==
    /\ Ring \in Nat \ {0} /\ MAX_SERVER_EVENTS \in Nat \ {0} /\ EVENT_STORE_ATTEMPTS \in Nat \ {0}
    /\ MaxLine \in Nat
    \* The counts and speeds of a well-formed report.
    /\ \A r \in Reports : r.valid => \A n \in DOMAIN r.clips :
         r.clips[n].moving \in Nat /\ r.clips[n].gpsmoving \in Nat /\ r.clips[n].top \in Nat
    \* Others never choose a level this program sets.
    /\ "-" \in OwnLevels /\ OwnLevels \cap (Policies \cup {"E", "none"}) = {}
    /\ Legacy => "E" \in Policies
ASSUME UnitAssumption

\* Evidence renewed by a heartbeat lapses before the lease it published, a body
\* is renamed before it expires, and a renewal before its margin is used up.
TimeAssumption ==
    /\ {EVIDENCE_TTL_S, DEVICE_HEARTBEAT_TTL_S, RESTORE_RESERVE_S, HEARTBEAT_REFRESH_TIMEOUT_S, Duration} \subseteq Nat
    /\ EVIDENCE_TTL_S + HEARTBEAT_REFRESH_TIMEOUT_S <= DEVICE_HEARTBEAT_TTL_S
    /\ {MAX_HOLD, CLOCK_SKEW, RENEWAL_WRITE_MARGIN_S, MINIMUM, TIMEOUT, COMMAND} \subseteq Nat
    /\ MAX_HOLD >= 1 /\ 2 * COMMAND <= MAX_HOLD /\ COMMAND < RENEWAL_WRITE_MARGIN_S
    /\ MaxRequests \in 0 .. 8   \* 9 is the request of an earlier process
    /\ Windows \subseteq Nat /\ Resting \in Windows /\ {TTL, READ_TIMEOUT, EVIDENCE_TTL, MIN_REMAINING, Horizon} \subseteq Nat
ASSUME TimeAssumption

VARIABLES
    which,   \* the service of the behaviour
    unit, lease, file, ctl, op, clear, late, sent,
    ctrl, logger, hold, rename, ahead, mishap,
    ring, rows, old, ever, mirror, waits, gaps, started, happened,
    device, memory, stored, load, persist, inspect, validator, tally, live, met,
    level, own, marker, shell, capture, visit, policy, job, book, imported, lines, trouble,
    clock, truth, tracker, doc, reading, status, power

holdVars == <<unit, lease, file, ctl, op, clear, late, sent>>
pauseVars == <<ctrl, logger, hold, rename, ahead, mishap>>
eventsVars == <<ring, rows, old, ever, mirror, waits, gaps, started, happened>>
movementVars == <<device, memory, stored, load, persist, inspect, validator, tally, live, met>>
logsVars == <<level, own, marker, shell, capture, visit, policy, job, book, imported, lines, trouble>>
sleepVars == <<clock, truth, tracker, doc, reading, status, power>>

Maintenance == INSTANCE Maintenance WITH spent <- sent
LoggerControl == INSTANCE LoggerControl
LoggerEvents == INSTANCE LoggerEvents
MovementStatus == INSTANCE MovementStatus
UnitLogs == INSTANCE UnitLogs WITH receipt <- marker
SleepCountdown == INSTANCE SleepCountdown

UnitInit ==
    /\ which \in {"hold", "pause", "events", "movement", "logs", "sleep"}
    /\ Maintenance!Init /\ LoggerControl!Init /\ LoggerEvents!Init
    /\ MovementStatus!Init /\ UnitLogs!Init /\ SleepCountdown!Init
    /\ which # "hold" => file = Maintenance!None
    /\ which # "pause" => ahead = 0 /\ ctrl.req = 0
    /\ which # "movement" =>
         stored = MovementStatus!NoFile /\ device = [report |-> CHOOSE r \in Reports : TRUE, card |-> 1]
    /\ which # "logs" => own = "-" /\ level = "-" /\ policy = "absent"

UnitNext ==
    /\ which' = which
    /\ IF which = "hold" THEN Maintenance!Next ELSE UNCHANGED holdVars
    /\ IF which = "pause" THEN LoggerControl!Next ELSE UNCHANGED pauseVars
    /\ IF which = "events" THEN LoggerEvents!Next ELSE UNCHANGED eventsVars
    /\ IF which = "movement" THEN MovementStatus!Next ELSE UNCHANGED movementVars
    /\ IF which = "logs" THEN UnitLogs!Next ELSE UNCHANGED logsVars
    /\ IF which = "sleep" THEN SleepCountdown!Next ELSE UNCHANGED sleepVars

servicesVars == <<which, holdVars, pauseVars, eventsVars, movementVars, logsVars, sleepVars>>

\* The fairness of each service's Spec, in the behaviours that pick it.
UnitSpec ==
    /\ UnitInit /\ [][UnitNext]_servicesVars
    /\ WF_holdVars(which = "hold" /\ Maintenance!Tick)
    /\ WF_holdVars(which = "hold" /\ Maintenance!Proceed)
    /\ WF_holdVars(which = "hold" /\ Maintenance!observe)
    /\ WF_pauseVars(which = "pause" /\ LoggerControl!Tick)
    /\ WF_pauseVars(which = "pause" /\ LoggerControl!Logging)
    /\ WF_pauseVars(which = "pause" /\ LoggerControl!Cut)
    /\ WF_pauseVars(which = "pause" /\ LoggerControl!Serving)
    /\ WF_pauseVars(which = "pause" /\ LoggerControl!Rename)
    /\ WF_eventsVars(which = "events" /\ LoggerEvents!Collected)
    /\ WF_eventsVars(which = "events" /\ LoggerEvents!_cancel_event_mirror)
    /\ WF_movementVars(which = "movement" /\ MovementStatus!Inspecting)
    /\ WF_logsVars(which = "logs" /\ UnitLogs!Working)
    /\ WF_logsVars(which = "logs" /\ UnitLogs!on_unit_seen)
    /\ WF_logsVars(which = "logs" /\ UnitLogs!on_unit_present)
    /\ WF_logsVars(which = "logs" /\ UnitLogs!Due)
    /\ \A p \in Shells : WF_logsVars(which = "logs" /\ UnitLogs!Shelling(p))

---------------------------------------------------------------------------
\* A property of a service is stated for the behaviours that pick it; each is
\* explained in the service's module.

\* Time given to the server on the unit is never overdrawn: the hold's lease
\* outlives the evidence for it and is fenced while anything is owed, the logger
\* stays paused as long as the coordinator counts on it, and, but for an ignition
\* the logger missed or a reboot, the server never believes in more time than the unit has
\* (ingest/maintenance.py, obd_control.py, status.py).
TimeIsNotOverdrawn ==
    /\ which = "hold" =>
         /\ Maintenance!TypeOK /\ Maintenance!CancellationRemembered
         /\ Maintenance!LeaseOutlivesEvidence /\ Maintenance!FenceWhileOwing
    /\ which = "pause" => LoggerControl!TypeOK /\ LoggerControl!HoldKept
    /\ which = "sleep" => SleepCountdown!TypeOK /\ SleepCountdown!Conservative

\* What the unit recorded is taken over as it was: event gaps are real losses and
\* the newest event is kept, no captured line is dropped unread, a changed log
\* level can be put back, and a movement report is shown as live only when it is,
\* never parking a clip that moved (ingest/obd_events.py, unit_logs.py,
\* movement.py).
RecordsAreTrue ==
    /\ which = "events" =>
         LoggerEvents!TypeOK /\ LoggerEvents!GapsAreLosses /\ LoggerEvents!NewestKept
    /\ which = "movement" =>
         /\ MovementStatus!TypeOK /\ MovementStatus!ReadyIsLive
         /\ MovementStatus!MovementNeverParks
    /\ which = "logs" => UnitLogs!TypeOK /\ UnitLogs!LinesKept /\ UnitLogs!OriginalKept

\* Nothing is held for ever: holds and the memory of a cancelled countdown end,
\* the logger polls again, a run outlives its mirror, an inspection ends, a
\* stopped capture is started again, and no read puts a deadline off.
NothingHeldForever ==
    /\ which = "hold" => Maintenance!HoldsEnd /\ Maintenance!CycleReopens
    /\ which = "pause" => LoggerControl!LoggerReturns
    /\ which = "events" => LoggerEvents!RunGoesOn
    /\ which = "movement" => MovementStatus!InspectionEnds
    /\ which = "logs" => UnitLogs!Rearmed
    /\ [][SleepCountdown!Falls]_sleepVars
=============================================================================
