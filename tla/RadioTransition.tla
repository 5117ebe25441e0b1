-------------------------- MODULE RadioTransition --------------------------
(***************************************************************************)
(* Radio ownership during a backup (backend/app/ingest/radio_coordinator   *)
(* .py, radios.py): a server process turns Bluetooth and the hotspot of    *)
(* the head unit off while it copies, and owes their return. The debt is a *)
(* durable row, held under a lease and an operating-system fence. A        *)
(* watchdog left on the unit restores the radios by itself when the lease  *)
(* runs out or the unit is about to sleep, and posts a report. After a     *)
(* crash or a failed restore another process adopts the expired row.       *)
(*                                                                         *)
(* rows is the table ingest_radio_transitions, oldest first; pc, mine and  *)
(* mem are memory of a server process, and a process holds the fence while *)
(* its pc is not "idle". radio, rearm, watchdog, logger, capsules and      *)
(* awake are the head unit. The phase column is only displayed, and left   *)
(* out. A checkpoint is one step, and so is a command of the unit together *)
(* with the readback and the checkpoint that record it: a crash in between *)
(* leaves what a lost reply leaves.                                        *)
(***************************************************************************)
EXTENDS Integers, Sequences, FiniteSets

CONSTANTS
  Servers,   \* server processes that share the database and the fence
  Budgets    \* alternative bounds on how often each event of Events happens

\* A transition begins; and the faults: a server crashes; a live owner's lease
\* runs out; the unit sleeps or reboots; a command is refused, or applied and its
\* reply lost; a restore is cut short; a restore stops the hotspot and cannot
\* start it again; a command of the watchdog fails.
Events == {"begin", "crash", "stall", "sleep", "reboot", "refuse", "cut", "halt",
           "wdfail"}

ASSUME BudgetsAssumption == Budgets \subseteq [Events -> Nat]

VARIABLES
  rows,      \* the transitions
  pc,        \* server -> what it does next
  mine,      \* server -> the row of its transition
  mem,       \* server -> the rest of its memory of the transition
  radio,     \* radio -> state on the unit
  rearm,     \* Bluetooth has just come on and the vendor may start the hotspot
  watchdog,  \* the detached process on the unit
  logger,    \* the OBD logger: "running" or "held"
  capsules,  \* rows whose recovery capsule is on the unit
  awake,     \* the unit is awake and reachable
  reports,   \* reports posted and not yet handled
  home,      \* the operator's radio states, before any backup
  spent       \* how often each event happened

server == <<pc, mine, mem>>
unit == <<radio, rearm, watchdog, logger, capsules, awake>>
vars == <<rows, pc, mine, mem, radio, rearm, watchdog, logger, capsules, awake,
          reports, home, spent>>

Radios == {"bluetooth", "hotspot"}
\* "transport" is a hotspot interface that carries the connection to the unit.
RadioState == {"on", "off", "transport"}
\* fresh: lease_expires_at is in the future. logger: a logger_request_id is set.
\* attempted: disable_attempted. verified: restore_verified. evidence:
\* restore_evidence_source is the unit. ref: hotspot_restore_ref is set. token:
\* unit_report_token is set.
Row == [active: BOOLEAN, recovery: BOOLEAN, owner: Servers, fresh: BOOLEAN,
        logger: BOOLEAN, resumed: BOOLEAN, exported: BOOLEAN,
        before: [Radios -> RadioState \cup {"unknown"}],
        attempted: SUBSET Radios, verified: SUBSET Radios,
        evidence: BOOLEAN, ref: BOOLEAN, token: BOOLEAN]

Forward == {"begun", "quiescing", "exporting", "exported", "captured",
            "bt_intent", "bt_cut", "hs_intent", "hs_cut", "checking",
            "ingesting", "failing"}
Restoring == {"restore_bluetooth", "restore_hotspot", "stand_down", "resume",
              "finish"}
\* handle: this process armed the watchdog. settle: it knows when a re-arm is
\* over. ok: everything was verified so far. untracked: a capsule that could not
\* be removed and is not in the row. rebooted: the unit's boot id is not the row's.
Memory == [handle: BOOLEAN, settle: BOOLEAN, ok: BOOLEAN, untracked: BOOLEAN,
           rebooted: BOOLEAN]
Report == [row: Nat, bluetooth: {"0", "1", "skip"}, hotspot: {"0", "1", "skip"}]

\* Every variable keeps its type; a process' transition is a row there is.
TypeOK ==
  /\ rows \in Seq(Row)
  /\ pc \in [Servers -> Forward \cup Restoring \cup {"idle", "cleanup"}]
  /\ mine \in [Servers -> Nat]
  /\ \A s \in Servers : pc[s] # "idle" => mine[s] \in DOMAIN rows
  /\ mem \in [Servers -> Memory]
  /\ radio \in [Radios -> RadioState]
  /\ rearm \in BOOLEAN
  /\ watchdog \in [phase: {"none", "armed", "claimed", "enabled", "restored", "posted"}, row: Nat]
  /\ watchdog.phase # "none" => watchdog.row \in DOMAIN rows
  /\ logger \in {"running", "held"}
  /\ capsules \subseteq DOMAIN rows
  /\ awake \in BOOLEAN
  /\ reports \subseteq Report
  /\ \A m \in reports : m.row \in DOMAIN rows
  /\ home \in [Radios -> RadioState]
  /\ spent \in [Events -> Nat]

\* An event may happen while one of the budgets still covers all that happened.
Can(event) ==
  \E budget \in Budgets :
    \A e \in Events : spent[e] + (IF e = event THEN 1 ELSE 0) <= budget[e]
Spend(event) == spent' = [spent EXCEPT ![event] = @ + 1]

NoWatchdog == [phase |-> "none", row |-> 0]
Fresh == [handle |-> FALSE, settle |-> FALSE, ok |-> TRUE, untracked |-> FALSE,
          rebooted |-> FALSE]

Init ==
  /\ rows = <<>>
  /\ pc = [s \in Servers |-> "idle"]
  /\ mine = [s \in Servers |-> 0]
  /\ mem = [s \in Servers |-> Fresh]
  /\ home \in {[bluetooth |-> b, hotspot |-> h] :
                 b \in {"on", "off"}, h \in {"on", "off", "transport"}}
  /\ radio = home
  /\ rearm = FALSE
  /\ watchdog = NoWatchdog
  /\ logger = "running"
  /\ capsules = {}
  /\ awake = TRUE
  /\ reports = {}
  /\ spent = [e \in Events |-> 0]

-----------------------------------------------------------------------------
(* Ownership.                                                              *)

\* No process holds the fence.
FenceFree == \A s \in Servers : pc[s] = "idle"

\* _row: the row is active and still names this process.
Owns(s) == rows[mine[s]].active /\ rows[mine[s]].owner = s

\* A checkpoint outside a restore also needs an unexpired lease.
Holds(s) == Owns(s) /\ rows[mine[s]].fresh

Goto(s, label) == pc' = [pc EXCEPT ![s] = label]
Put(s, row) == rows' = [rows EXCEPT ![mine[s]] = row]
Mine(s) == rows[mine[s]]

\* _active_row: the oldest row that is active or still owes a recovery.
Pending(i) == rows[i].active \/ rows[i].recovery
ActiveRow(i) ==
  /\ i \in DOMAIN rows /\ Pending(i)
  /\ \A k \in DOMAIN rows : Pending(k) => i <= k

NewRow(s) ==
  [active |-> TRUE, recovery |-> FALSE, owner |-> s, fresh |-> TRUE,
   logger |-> FALSE, resumed |-> FALSE, exported |-> FALSE,
   before |-> [r \in Radios |-> "unknown"], attempted |-> {}, verified |-> {},
   evidence |-> FALSE, ref |-> FALSE, token |-> TRUE]

\* begin, which run calls only after reconcile_pending found nothing owed.
begin(s) ==
  /\ FenceFree /\ awake
  /\ Can("begin") /\ Spend("begin")
  /\ \A i \in DOMAIN rows : ~ Pending(i)
  /\ rows' = Append(rows, NewRow(s))
  /\ mine' = [mine EXCEPT ![s] = Len(rows) + 1]
  /\ mem' = [mem EXCEPT ![s] = Fresh]
  /\ Goto(s, "begun")
  /\ UNCHANGED <<unit, reports, home>>

\* close: the process lets go of the fence and forgets the transition.
Close(s) == Goto(s, "idle")

-----------------------------------------------------------------------------
(* Towards quiet radios.                                                   *)

\* The request is committed before the logger is asked.
prepare_logger(s) ==
  /\ pc[s] = "begun" /\ Holds(s)
  /\ Put(s, [Mine(s) EXCEPT !.logger = TRUE])
  /\ Goto(s, "quiescing")
  /\ UNCHANGED <<mine, mem, unit, reports, home, spent>>

\* The logger stops. Its answer arrives, or is lost.
request_quiesce(s) ==
  /\ pc[s] = "quiescing" /\ awake
  /\ logger' = "held"
  /\ \/ Holds(s) /\ Goto(s, "exporting") /\ UNCHANGED spent
     \/ Can("refuse") /\ Spend("refuse") /\ Goto(s, "failing")
  /\ UNCHANGED <<rows, mine, mem, radio, rearm, watchdog, capsules, awake, reports, home>>

\* Every export is on the server. A logger that does not own Bluetooth is not
\* asked to stop.
mark_obd_transfer_complete(s) ==
  /\ pc[s] \in {"begun", "exporting"} /\ awake /\ Holds(s)
  /\ Put(s, [Mine(s) EXCEPT !.exported = TRUE])
  /\ Goto(s, "exported")
  /\ UNCHANGED <<mine, mem, unit, reports, home, spent>>

\* The radios are read, and what is needed to start a hotspot again is put in a
\* capsule on the unit.
capture(s) ==
  /\ pc[s] = "exported" /\ awake /\ Holds(s)
  /\ Mine(s).exported
  /\ capsules' = IF radio["hotspot"] = "on" THEN capsules \cup {mine[s]} ELSE capsules
  /\ Goto(s, "captured")
  /\ UNCHANGED <<rows, mine, mem, radio, rearm, watchdog, logger, awake, reports, home, spent>>

\* The baseline and the capsule's path are committed.
CommitBaseline(s) ==
  /\ pc[s] = "captured" /\ Holds(s)
  /\ Put(s, [Mine(s) EXCEPT !.before = radio, !.ref = mine[s] \in capsules])
  /\ Goto(s, "bt_intent")
  /\ UNCHANGED <<mine, mem, unit, reports, home, spent>>

\* They could not be: no radio was touched, the capsule is removed, or
\* remembered.
BaselineLost(s) ==
  /\ pc[s] = "captured"
  /\ \/ awake /\ capsules' = capsules \ {mine[s]} /\ UNCHANGED mem
     \/ /\ mine[s] \in capsules
        /\ mem' = [mem EXCEPT ![s].untracked = TRUE]
        /\ UNCHANGED capsules
  /\ Goto(s, "failing")
  /\ UNCHANGED <<rows, mine, radio, rearm, watchdog, logger, awake, reports, home, spent>>

\* Mutant: the intent to disable Bluetooth is not committed.
BluetoothIntent_NotCommitted(s) ==
  /\ pc[s] = "bt_intent" /\ Holds(s)
  /\ Goto(s, IF Mine(s).before["bluetooth"] = "on" THEN "bt_cut" ELSE "hs_intent")
  /\ UNCHANGED <<rows, mine, mem, unit, reports, home, spent>>

\* bluetooth_disable_attempted is committed before the command.
BluetoothIntent(s) ==
  /\ pc[s] = "bt_intent" /\ Holds(s)
  /\ IF Mine(s).before["bluetooth"] = "on"
     THEN /\ Put(s, [Mine(s) EXCEPT !.attempted = @ \cup {"bluetooth"}])
          /\ Goto(s, "bt_cut")
     ELSE Goto(s, "hs_intent") /\ UNCHANGED rows
  /\ UNCHANGED <<mine, mem, unit, reports, home, spent>>

\* The watchdog is launched and proved alive before the first radio is touched.
_ensure_watchdog(s) ==
  /\ pc[s] \in {"bt_cut", "hs_cut"} /\ awake
  /\ ~ mem[s].handle
  /\ watchdog.phase = "none"
  /\ watchdog' = [phase |-> "armed", row |-> mine[s]]
  /\ mem' = [mem EXCEPT ![s].handle = TRUE]
  /\ UNCHANGED <<rows, pc, mine, radio, rearm, logger, capsules, awake, reports, home, spent>>

\* The watchdog's own handshake is the last thing before the command.
Guarded(s) == mem[s].handle /\ watchdog = [phase |-> "armed", row |-> mine[s]]

\* Before the first command: the logger is still on hold, the unit did not restart.
final_radio_guard(s) ==
  /\ Mine(s).logger => logger = "held"
  /\ ~ mem[s].rebooted

disable_bluetooth(s) ==
  /\ pc[s] = "bt_cut" /\ awake /\ Guarded(s) /\ final_radio_guard(s)
  /\ radio' = [radio EXCEPT !["bluetooth"] = "off"]
  /\ \/ Goto(s, "hs_intent") /\ UNCHANGED spent
     \/ Can("refuse") /\ Spend("refuse") /\ Goto(s, "failing")
  /\ UNCHANGED <<rows, mine, mem, rearm, watchdog, logger, capsules, awake, reports, home>>

HotspotIntent(s) ==
  /\ pc[s] = "hs_intent" /\ Holds(s)
  /\ IF Mine(s).before["hotspot"] = "on"
     THEN /\ Put(s, [Mine(s) EXCEPT !.attempted = @ \cup {"hotspot"}])
          /\ Goto(s, "hs_cut")
     ELSE Goto(s, "checking") /\ UNCHANGED rows
  /\ UNCHANGED <<mine, mem, unit, reports, home, spent>>

disable_hotspot(s) ==
  /\ pc[s] = "hs_cut" /\ awake /\ Guarded(s)
  /\ Mine(s).before["bluetooth"] # "on" => final_radio_guard(s)
  /\ radio' = [radio EXCEPT !["hotspot"] = "off"]
  /\ \/ Goto(s, "checking") /\ UNCHANGED spent
     \/ Can("refuse") /\ Spend("refuse") /\ Goto(s, "failing")
  /\ UNCHANGED <<rows, mine, mem, rearm, watchdog, logger, capsules, awake, reports, home>>

\* The copy starts once both radios read quiet.
quiet_state_verified(s) ==
  /\ pc[s] = "checking" /\ awake /\ Holds(s)
  /\ radio["bluetooth"] = "off" /\ radio["hotspot"] # "on"
  /\ Goto(s, "ingesting")
  /\ UNCHANGED <<rows, mine, mem, unit, reports, home, spent>>

-----------------------------------------------------------------------------
(* Back to the baseline.                                                   *)

\* Every way a run ends: the copy is done, cancelled or failed, the lease is
\* lost, the ignition came on, the unit is about to sleep. A row that another
\* authority closed or adopted is left alone.
restore(s) ==
  /\ pc[s] \in Forward \ {"captured"}
  /\ IF Owns(s)
     THEN Put(s, [Mine(s) EXCEPT !.fresh = TRUE]) /\ Goto(s, "restore_bluetooth")
     ELSE Close(s) /\ UNCHANGED rows
  /\ UNCHANGED <<mine, mem, unit, reports, home, spent>>

\* Bluetooth coming on makes the vendor start the hotspot a moment later.
EnableBluetooth ==
  /\ radio' = [radio EXCEPT !["bluetooth"] = "on"]
  /\ rearm' = (rearm \/ radio["bluetooth"] = "off")

\* _unit_already_verified
UnitVerified(s, r) == Mine(s).evidence /\ r \in Mine(s).verified

\* The checkpoint after a restore command: the radio is verified, or the restore
\* goes on knowing that it is not. Without the row the restore ends.
Verify(s, r, ok, settle, next) ==
  IF Owns(s)
  THEN /\ Put(s, [Mine(s) EXCEPT !.fresh = TRUE,
                                 !.verified = IF ok THEN @ \cup {r} ELSE @ \ {r}])
       /\ mem' = [mem EXCEPT ![s].ok = @ /\ ok, ![s].settle = settle]
       /\ Goto(s, next)
  ELSE Close(s) /\ UNCHANGED <<rows, mem>>

\* The checkpoint before a restore command: without the row no command is sent.
LostRow(s) ==
  /\ pc[s] \in {"restore_bluetooth", "restore_hotspot", "resume"} /\ ~ Owns(s)
  /\ Close(s)
  /\ UNCHANGED <<rows, mine, mem, unit, reports, home, spent>>

\* A radio that nobody tried to change is not touched.
restore_bluetooth(s) ==
  /\ pc[s] = "restore_bluetooth"
  /\ IF "bluetooth" \notin Mine(s).attempted
     THEN /\ Goto(s, "restore_hotspot")
          /\ UNCHANGED <<rows, mem, radio, rearm, spent>>
     ELSE \/ /\ awake
             /\ EnableBluetooth
             /\ Verify(s, "bluetooth", TRUE, TRUE, "restore_hotspot")
             /\ UNCHANGED spent
          \/ /\ awake /\ Can("refuse") /\ Spend("refuse")
             /\ EnableBluetooth
             /\ Verify(s, "bluetooth", UnitVerified(s, "bluetooth"), FALSE, "restore_hotspot")
          \/ /\ ~ awake
             /\ Verify(s, "bluetooth", UnitVerified(s, "bluetooth"), FALSE, "restore_hotspot")
             /\ UNCHANGED <<radio, rearm, spent>>
  /\ UNCHANGED <<mine, watchdog, logger, capsules, awake, reports, home>>

\* Mutant: only a hotspot that was stopped is looked after.
HotspotDue_IfStopped(row) == "hotspot" \in row.attempted

\* Bluetooth coming back may start a hotspot that was off: it is restored too.
HotspotDue(row) == row.attempted # {}

\* The hotspot of the baseline is on or off again, and stays so once a pending
\* re-arm is over. A serving hotspot that does not read as the captured one is
\* stopped first, and may then fail to start.
restore_hotspot(s) ==
  LET before == Mine(s).before["hotspot"]
      blind == Verify(s, "hotspot", UnitVerified(s, "hotspot"), mem[s].settle, "stand_down")
  IN
  /\ pc[s] = "restore_hotspot"
  /\ IF ~ HotspotDue(Mine(s))
     THEN /\ Goto(s, "stand_down")
          /\ UNCHANGED <<rows, mem, radio, rearm, spent>>
     ELSE \/ /\ before = "transport"
             /\ Verify(s, "hotspot", TRUE, mem[s].settle, "stand_down")
             /\ UNCHANGED <<radio, rearm, spent>>
          \/ /\ awake /\ before # "transport"
             /\ before = "on" => mine[s] \in capsules
             /\ radio' = [radio EXCEPT !["hotspot"] = before]
             /\ rearm' = (rearm /\ ~ mem[s].settle)
             /\ Verify(s, "hotspot", TRUE, mem[s].settle, "stand_down")
             /\ UNCHANGED spent
          \/ /\ awake /\ before # "transport" /\ Can("refuse") /\ Spend("refuse")
             /\ blind
             /\ UNCHANGED <<radio, rearm>>
          \/ /\ awake /\ before = "on" /\ radio["hotspot"] = "on"
             /\ Can("halt") /\ Spend("halt")
             /\ radio' = [radio EXCEPT !["hotspot"] = "off"]
             /\ blind
             /\ UNCHANGED rearm
          \/ /\ ~ awake /\ before # "transport"
             /\ blind
             /\ UNCHANGED <<radio, rearm, spent>>
  /\ UNCHANGED <<mine, watchdog, logger, capsules, awake, reports, home>>

\* Mutant: an adopter, too, only clears a watchdog of its own.
Cleared_OwnOnly(s) == awake /\ watchdog.row = mine[s]

\* The process that armed the watchdog accepts no other generation; an adopter
\* clears whatever it finds.
Cleared(s) == awake /\ (mem[s].handle => watchdog.row = mine[s])

\* The watchdog is disarmed once both radios are back, if one was to be changed.
stand_down_watchdog(s) ==
  /\ pc[s] = "stand_down"
  /\ LET due == mem[s].ok /\ Mine(s).attempted # {} IN
     \/ ~ due /\ UNCHANGED <<mem, watchdog, spent>>
     \/ due /\ Cleared(s) /\ watchdog' = NoWatchdog /\ UNCHANGED <<mem, spent>>
     \/ /\ due
        /\ \/ ~ Cleared(s) /\ UNCHANGED spent
           \/ Can("refuse") /\ Spend("refuse")
        /\ mem' = [mem EXCEPT ![s].ok = FALSE]
        /\ UNCHANGED watchdog
  /\ Goto(s, "resume")
  /\ UNCHANGED <<rows, mine, radio, rearm, logger, capsules, awake, reports, home>>

\* Mutant: the logger is resumed whatever became of the radios.
resume_logger_Early(s) ==
  /\ pc[s] = "resume" /\ awake
  /\ logger' = "running"
  /\ Owns(s)
  /\ Put(s, [Mine(s) EXCEPT !.resumed = TRUE, !.fresh = TRUE])
  /\ Goto(s, "finish")
  /\ UNCHANGED <<mine, mem, radio, rearm, watchdog, capsules, awake, reports, home, spent>>

\* The logger is resumed only when the radios are.
resume_logger(s) ==
  /\ pc[s] = "resume"
  /\ \/ /\ ~ (Mine(s).logger /\ mem[s].ok)
        /\ Goto(s, "finish")
        /\ UNCHANGED <<rows, mem, logger, spent>>
     \/ /\ Mine(s).logger /\ mem[s].ok /\ awake
        /\ logger' = "running"
        /\ IF Owns(s) THEN /\ Put(s, [Mine(s) EXCEPT !.resumed = TRUE, !.fresh = TRUE])
                           /\ Goto(s, "finish")
                      ELSE Close(s) /\ UNCHANGED rows
        /\ UNCHANGED <<mem, spent>>
     \/ /\ Mine(s).logger /\ mem[s].ok
        /\ \/ ~ awake /\ UNCHANGED <<logger, spent>>
           \/ awake /\ Can("refuse") /\ Spend("refuse") /\ logger' = "running"
        /\ mem' = [mem EXCEPT ![s].ok = FALSE]
        /\ Goto(s, "finish")
        /\ UNCHANGED rows
  /\ UNCHANGED <<mine, radio, rearm, watchdog, capsules, awake, reports, home>>

\* The debt is closed, or expired for the next process.
_finish_transition(s) ==
  /\ pc[s] = "finish"
  /\ IF ~ Owns(s) THEN Close(s) /\ UNCHANGED rows
     ELSE LET ref == Mine(s).ref \/ mem[s].untracked IN
          IF mem[s].ok
          THEN /\ Put(s, [Mine(s) EXCEPT !.active = FALSE, !.recovery = FALSE, !.ref = ref])
               /\ Goto(s, IF ref THEN "cleanup" ELSE "idle")
          ELSE /\ Put(s, [Mine(s) EXCEPT !.recovery = TRUE, !.fresh = FALSE])
               /\ Close(s)
  /\ UNCHANGED <<mine, mem, unit, reports, home, spent>>

\* A restore that raises, is cancelled or runs out of time expires its row.
_persist_restore_failure(s) ==
  /\ pc[s] \in Restoring
  /\ Can("cut") /\ Spend("cut")
  /\ IF Owns(s) THEN Put(s, [Mine(s) EXCEPT !.recovery = TRUE, !.fresh = FALSE])
                ELSE UNCHANGED rows
  /\ Close(s)
  /\ UNCHANGED <<mine, mem, unit, reports, home>>

\* The capsule goes after the debt is closed. If it cannot be removed, its path
\* stays in the row.
_cleanup_capsule_after_finish(s) ==
  /\ pc[s] = "cleanup"
  /\ \/ /\ awake
        /\ capsules' = capsules \ {mine[s]}
        /\ Put(s, [Mine(s) EXCEPT !.ref = FALSE])
        /\ UNCHANGED spent
     \/ ~ awake /\ UNCHANGED <<capsules, rows, spent>>
     \/ Can("refuse") /\ Spend("refuse") /\ UNCHANGED <<capsules, rows>>
  /\ Close(s)
  /\ UNCHANGED <<mine, mem, radio, rearm, watchdog, logger, awake, reports, home>>

-----------------------------------------------------------------------------
(* Recovery by another process, or by the same one after a restart.        *)

\* Mutant: an adopter does not wait for the fence.
_adopt_expired_NoFence(s, i) ==
  /\ pc[s] = "idle" /\ awake
  /\ ActiveRow(i) /\ rows[i].active /\ ~ rows[i].fresh
  /\ rows' = [rows EXCEPT ![i] = [rows[i] EXCEPT !.owner = s, !.fresh = TRUE]]
  /\ mine' = [mine EXCEPT ![s] = i]
  /\ mem' = [mem EXCEPT ![s] = Fresh]
  /\ Goto(s, "failing")
  /\ UNCHANGED <<unit, reports, home, spent>>

\* reconcile_pending: the oldest pending row, if active and expired, gets a new
\* owner, which restores at once. A capsule may have been written and not
\* recorded: its path follows from the transition.
_adopt_expired(s, i) ==
  /\ FenceFree /\ awake
  /\ ActiveRow(i) /\ rows[i].active /\ ~ rows[i].fresh
  /\ LET unrecorded == rows[i].before["hotspot"] = "unknown" /\ rows[i].attempted = {}
     IN rows' = [rows EXCEPT ![i] =
                   [rows[i] EXCEPT !.owner = s, !.fresh = TRUE, !.ref = @ \/ unrecorded]]
  /\ mine' = [mine EXCEPT ![s] = i]
  /\ mem' = [mem EXCEPT ![s] = Fresh]
  /\ Goto(s, "failing")
  /\ UNCHANGED <<unit, reports, home, spent>>

\* A capsule outlived its closed row.
_cleanup_inactive_capsules(i) ==
  /\ FenceFree /\ awake
  /\ ~ rows[i].active /\ rows[i].ref
  /\ capsules' = capsules \ {i}
  /\ rows' = [rows EXCEPT ![i].ref = FALSE]
  /\ UNCHANGED <<server, radio, rearm, watchdog, logger, awake, reports, home, spent>>

Crash(s) ==
  /\ pc[s] # "idle" /\ Can("crash") /\ Spend("crash")
  /\ Close(s)
  /\ UNCHANGED <<rows, mine, mem, unit, reports, home>>

\* A live process that still renews the lease of row i.
Renewed(i) == \E s \in Servers : pc[s] # "idle" /\ mine[s] = i /\ rows[i].owner = s

\* Time passes without a heartbeat.
LeaseExpires(i) ==
  /\ rows[i].active /\ rows[i].fresh
  /\ IF Renewed(i) THEN Can("stall") /\ Spend("stall") ELSE UNCHANGED spent
  /\ rows' = [rows EXCEPT ![i].fresh = FALSE]
  /\ UNCHANGED <<server, unit, reports, home>>

-----------------------------------------------------------------------------
(* The head unit.                                                          *)

\* The vendor starts a stopped hotspot after Bluetooth came on.
Rearm ==
  /\ awake /\ rearm
  /\ rearm' = FALSE
  /\ radio' = [radio EXCEPT !["hotspot"] = IF @ = "off" THEN "on" ELSE @]
  /\ UNCHANGED <<rows, server, watchdog, logger, capsules, awake, reports, home, spent>>

Baseline == rows[watchdog.row].before

\* Its lease ran out, or the unit is about to sleep.
WatchdogClaims ==
  /\ awake /\ watchdog.phase = "armed"
  /\ watchdog' = [watchdog EXCEPT !.phase = "claimed"]
  /\ UNCHANGED <<rows, server, radio, rearm, logger, capsules, awake, reports, home, spent>>

WatchdogEnables ==
  /\ awake /\ watchdog.phase = "claimed"
  /\ watchdog' = [watchdog EXCEPT !.phase = "enabled"]
  /\ \/ Baseline["bluetooth"] = "off" /\ UNCHANGED <<radio, rearm, spent>>
     \/ Baseline["bluetooth"] = "on" /\ EnableBluetooth /\ UNCHANGED spent
     \/ Can("wdfail") /\ Spend("wdfail") /\ UNCHANGED <<radio, rearm>>
  /\ UNCHANGED <<rows, server, logger, capsules, awake, reports, home>>

\* After the time a re-arm takes, the hotspot is started from its capsule or
\* stopped.
WatchdogRestores ==
  LET before == Baseline["hotspot"] IN
  /\ awake /\ watchdog.phase = "enabled"
  /\ watchdog' = [watchdog EXCEPT !.phase = "restored"]
  /\ rearm' = FALSE
  /\ \/ /\ before = "on" /\ watchdog.row \in capsules
        /\ radio' = [radio EXCEPT !["hotspot"] = "on"]
        /\ UNCHANGED spent
     \/ before = "off" /\ radio' = [radio EXCEPT !["hotspot"] = "off"] /\ UNCHANGED spent
     \/ before = "transport" /\ UNCHANGED <<radio, spent>>
     \/ Can("wdfail") /\ Spend("wdfail") /\ UNCHANGED radio
  /\ UNCHANGED <<rows, server, logger, capsules, awake, reports, home>>

Readback(r) ==
  IF Baseline[r] = "transport" \/ (r = "bluetooth" /\ Baseline[r] = "off") THEN "skip"
  ELSE IF radio[r] = Baseline[r] THEN "1" ELSE "0"

\* verify_radios and the post of publish_report.
WatchdogReports ==
  /\ awake /\ watchdog.phase = "restored"
  /\ reports' = reports \cup
       {[row |-> watchdog.row, bluetooth |-> Readback("bluetooth"),
         hotspot |-> Readback("hotspot")]}
  /\ watchdog' = [watchdog EXCEPT !.phase = "posted"]
  /\ UNCHANGED <<rows, server, radio, rearm, logger, capsules, awake, home, spent>>

\* The report was accepted or every attempt to post it failed.
WatchdogEnds ==
  /\ awake /\ watchdog.phase = "posted"
  /\ watchdog' = NoWatchdog
  /\ UNCHANGED <<rows, server, radio, rearm, logger, capsules, awake, reports, home, spent>>

\* The hold of the logger is finite. It outlasts the watchdog and is renewed by
\* a live owner.
LoggerHoldExpires ==
  /\ logger = "held" /\ watchdog.phase = "none" /\ FenceFree
  /\ logger' = "running"
  /\ UNCHANGED <<rows, server, radio, rearm, watchdog, capsules, awake, reports, home, spent>>

Sleep ==
  /\ awake /\ Can("sleep") /\ Spend("sleep")
  /\ awake' = FALSE
  /\ UNCHANGED <<rows, server, radio, rearm, watchdog, logger, capsules, reports, home>>

Wake ==
  /\ ~ awake
  /\ awake' = TRUE
  /\ UNCHANGED <<rows, server, radio, rearm, watchdog, logger, capsules, reports, home, spent>>

\* A reboot removes the watchdog, which is no Android service.
Reboot ==
  /\ Can("reboot") /\ Spend("reboot")
  /\ watchdog' = NoWatchdog
  /\ mem' = [s \in Servers |-> [mem[s] EXCEPT !.rebooted = @ \/ pc[s] \in Forward]]
  /\ UNCHANGED <<rows, pc, mine, radio, rearm, logger, capsules, awake, reports, home>>

-----------------------------------------------------------------------------
(* The report of the unit.                                                 *)

\* restore_verified as the report leaves it.
Reported(row, m) ==
  {r \in Radios : m[r] = "1" \/ (m[r] = "skip" /\ r \in row.verified)}

\* What the report leaves owed: a radio it read wrong, one it skipped although a
\* restore is due, or the logger, of which it says nothing.
Outstanding(row, m) ==
  \/ \E r \in Radios : m[r] = "0"
  \/ /\ m.bluetooth = "skip" /\ "bluetooth" \in row.attempted
     /\ "bluetooth" \notin row.verified
  \/ /\ m.hotspot = "skip" /\ row.before["hotspot"] # "transport"
     /\ row.attempted # {} /\ "hotspot" \notin row.verified
  \/ row.logger /\ ~ row.resumed

\* A live owner is never closed out; otherwise the report closes the row or
\* calls for a recovery.
ReportedRow(row, m) ==
  LET noted == [row EXCEPT !.evidence = TRUE, !.verified = Reported(row, m)] IN
  IF row.active /\ row.fresh THEN noted
  ELSE IF Outstanding(row, m) THEN [noted EXCEPT !.recovery = TRUE]
  ELSE [noted EXCEPT !.recovery = FALSE, !.active = FALSE, !.token = FALSE]

\* An answer that does not reach the watchdog makes it post again.
apply_unit_report(m) ==
  /\ \/ reports' = reports \ {m}
     \/ watchdog.phase = "posted" /\ UNCHANGED reports
  /\ IF rows[m.row].token
     THEN rows' = [rows EXCEPT ![m.row] = ReportedRow(@, m)]
     ELSE UNCHANGED rows
  /\ UNCHANGED <<server, unit, home, spent>>

\* A post that never arrives.
ReportLost(m) ==
  /\ reports' = reports \ {m}
  /\ UNCHANGED <<rows, server, unit, home, spent>>

-----------------------------------------------------------------------------
ForwardStep(s) ==
  \/ prepare_logger(s)
  \/ request_quiesce(s)
  \/ mark_obd_transfer_complete(s)
  \/ capture(s)
  \/ CommitBaseline(s)
  \/ BaselineLost(s)
  \/ BluetoothIntent(s)
  \/ _ensure_watchdog(s)
  \/ disable_bluetooth(s)
  \/ HotspotIntent(s)
  \/ disable_hotspot(s)
  \/ quiet_state_verified(s)

RestoreStep(s) ==
  \/ restore(s)
  \/ LostRow(s)
  \/ restore_bluetooth(s)
  \/ restore_hotspot(s)
  \/ stand_down_watchdog(s)
  \/ resume_logger(s)
  \/ _finish_transition(s)
  \/ _cleanup_capsule_after_finish(s)

WatchdogStep ==
  \/ WatchdogClaims
  \/ WatchdogEnables
  \/ WatchdogRestores
  \/ WatchdogReports
  \/ WatchdogEnds

Next ==
  \/ \E s \in Servers :
       \/ begin(s)
       \/ ForwardStep(s)
       \/ RestoreStep(s)
       \/ _persist_restore_failure(s)
       \/ Crash(s)
       \/ \E i \in DOMAIN rows : _adopt_expired(s, i)
  \/ \E i \in DOMAIN rows : _cleanup_inactive_capsules(i) \/ LeaseExpires(i)
  \/ WatchdogStep
  \/ Rearm
  \/ LoggerHoldExpires
  \/ Sleep
  \/ Wake
  \/ Reboot
  \/ \E m \in reports : apply_unit_report(m) \/ ReportLost(m)

Spec == Init /\ [][Next]_vars

-----------------------------------------------------------------------------
(* Properties.                                                             *)

\* One process at a time may issue commands to the unit: an adopter never joins
\* an owner whose lease ran out while it was busy.
OneController == \A s, t \in Servers : pc[s] # "idle" /\ pc[t] # "idle" => s = t

\* No hotspot was stopped by a restore that could not start it, and no command of
\* the watchdog failed.
CommandsWork == spent["halt"] = 0 /\ spent["wdfail"] = 0

\* While commands work, a radio that is not as the operator left it is owed by an
\* active row that knows its baseline, exported the drive first and, for a
\* stopped hotspot, names a capsule that is still on the unit.
AwayIsOwed ==
  \A r \in Radios : CommandsWork /\ radio[r] # home[r] =>
    \E i \in DOMAIN rows :
      /\ rows[i].active /\ rows[i].exported
      /\ rows[i].before = home
      /\ rows[i].attempted # {}
      /\ r = "bluetooth" => r \in rows[i].attempted
      /\ r = "hotspot" /\ radio[r] = "off" => rows[i].ref /\ i \in capsules

Obligation ==
  INSTANCE RadioObligation
  WITH owed <- \E i \in DOMAIN rows : rows[i].active, away <- radio # home

\* Every step of servers, watchdog and unit is one of borrowing under a recorded
\* debt, changing a radio while the debt is recorded, or writing the debt off with
\* the radios back: no crash, adoption or report leaves a radio changed and
\* nobody owing it.
ImplementsObligation == Obligation!Spec

\* A logger held for a backup is given back only with its radios: the server
\* never resumes it while a radio is away, as long as commands work.
ResumeAtHome ==
  [][\A s \in Servers :
       /\ CommandsWork
       /\ pc[s] = "resume" /\ logger = "held" /\ logger' = "running"
       => radio = home]_vars

\* A logger on hold is owed by an active row that asked for it: a report about
\* the radios, or a finish, never closes a row whose logger was not resumed.
HeldIsOwed ==
  logger = "held" => \E i \in DOMAIN rows : rows[i].active /\ rows[i].logger

\* A capsule on the unit is never forgotten: its row names it, or the row is
\* still active and whoever restores it will find it.
CapsuleTracked ==
  \A i \in capsules :
    \/ rows[i].ref
    \/ /\ rows[i].active /\ rows[i].before["hotspot"] = "unknown"
       /\ rows[i].attempted = {}

\* Whatever was taken from the unit, a radio, the logger or a capsule, is on a
\* row from which a process can give it back.
DebtsRecorded == TypeOK /\ AwayIsOwed /\ HeldIsOwed /\ CapsuleTracked

Settled ==
  /\ \A i \in DOMAIN rows : ~ Pending(i)
  /\ radio = home /\ logger = "running" /\ capsules = {}

\* Whatever crashed, expired, slept or was refused, every debt is paid in the
\* end: radios at home, logger running, no capsule, no pending row.
EverythingReturned == <>[]Settled

Fairness ==
  /\ \A s \in Servers : WF_vars(RestoreStep(s)) /\ WF_vars(BaselineLost(s))
  /\ WF_vars(\E s \in Servers, i \in DOMAIN rows : _adopt_expired(s, i))
  /\ WF_vars(\E i \in DOMAIN rows : _cleanup_inactive_capsules(i))
  /\ WF_vars(\E i \in DOMAIN rows : ~ Renewed(i) /\ LeaseExpires(i))
  /\ WF_vars(WatchdogStep)
  /\ WF_vars(Rearm)
  /\ WF_vars(LoggerHoldExpires)
  /\ WF_vars(Wake)
  /\ WF_vars(\E m \in reports : apply_unit_report(m))

FairSpec == Spec /\ Fairness
=============================================================================
