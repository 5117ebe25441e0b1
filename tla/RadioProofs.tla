---------------------------- MODULE RadioProofs ----------------------------
(***************************************************************************)
(* Proofs about RadioTransition for any number of server processes, rows   *)
(* and faults. First the fence of radio ownership: a step of a process     *)
(* moves only its own pc, and only begin and _adopt_expired leave "idle",  *)
(* which both do under a free fence. Then the debts: whatever a backup     *)
(* takes from the head unit is on a row from which a process can give it   *)
(* back, and RadioTransition implements RadioObligation.                   *)
(***************************************************************************)
EXTENDS RadioTransition, TLAPS

\* The inductive invariant: OneController, and pc speaks of every server.
Fenced == DOMAIN pc = Servers /\ OneController

\* Process s moves, holding the fence before or taking a free one.
MovesAlone(s) ==
  /\ pc[s] # "idle" \/ FenceFree
  /\ DOMAIN pc' = Servers
  /\ \A t \in Servers : t # s => pc'[t] = pc[t]

\* A process that moves alone keeps the fence exclusive.
LEMMA AloneKeepsFence ==
  ASSUME Fenced, NEW s \in Servers, MovesAlone(s)
  PROVE  Fenced'
<1>1. \A t \in Servers : t # s => pc[t] = "idle"
  BY DEF Fenced, OneController, MovesAlone, FenceFree
<1>2. QED
  BY <1>1 DEF Fenced, OneController, MovesAlone

\* A process that goes to a label, holding or taking the fence, moves alone.
LEMMA GotoMoves ==
  ASSUME Fenced, NEW s \in Servers, NEW label, pc[s] # "idle" \/ FenceFree,
         pc' = [pc EXCEPT ![s] = label]
  PROVE  MovesAlone(s)
BY DEF Fenced, MovesAlone

\* The way to quiet radios: every step is of a process that holds the fence.
LEMMA ForwardAlone ==
  ASSUME Fenced, NEW s \in Servers, ForwardStep(s)
  PROVE  MovesAlone(s) \/ UNCHANGED pc
<1>1. CASE prepare_logger(s)
  BY <1>1, GotoMoves DEF prepare_logger, Goto
<1>2. CASE request_quiesce(s)
  BY <1>2, GotoMoves DEF request_quiesce, Goto
<1>3. CASE mark_obd_transfer_complete(s)
  BY <1>3, GotoMoves DEF mark_obd_transfer_complete, Goto
<1>4. CASE capture(s)
  BY <1>4, GotoMoves DEF capture, Goto
<1>5. CASE CommitBaseline(s)
  BY <1>5, GotoMoves DEF CommitBaseline, Goto
<1>6. CASE BaselineLost(s)
  BY <1>6, GotoMoves DEF BaselineLost, Goto
<1>7. CASE BluetoothIntent(s)
  BY <1>7, GotoMoves DEF BluetoothIntent, Goto
<1>8. CASE _ensure_watchdog(s)
  BY <1>8 DEF _ensure_watchdog
<1>9. CASE disable_bluetooth(s)
  BY <1>9, GotoMoves DEF disable_bluetooth, Goto
<1>10. CASE HotspotIntent(s)
  BY <1>10, GotoMoves DEF HotspotIntent, Goto
<1>11. CASE disable_hotspot(s)
  BY <1>11, GotoMoves DEF disable_hotspot, Goto
<1>12. CASE quiet_state_verified(s)
  BY <1>12, GotoMoves DEF quiet_state_verified, Goto
<1>13. QED
  BY <1>1, <1>2, <1>3, <1>4, <1>5, <1>6, <1>7, <1>8, <1>9, <1>10, <1>11, <1>12
     DEF ForwardStep

\* The way back: a restore, too, is of a process that holds the fence.
LEMMA RestoreAlone ==
  ASSUME Fenced, NEW s \in Servers, RestoreStep(s)
  PROVE  MovesAlone(s)
<1>1. CASE restore(s)
  BY <1>1, GotoMoves DEF restore, Forward, Close, Goto
<1>2. CASE LostRow(s)
  BY <1>2, GotoMoves DEF LostRow, Close, Goto
<1>3. CASE restore_bluetooth(s)
  BY <1>3, GotoMoves DEF restore_bluetooth, Verify, Close, Goto
<1>4. CASE restore_hotspot(s)
  BY <1>4, GotoMoves DEF restore_hotspot, Verify, Close, Goto
<1>5. CASE stand_down_watchdog(s)
  BY <1>5, GotoMoves DEF stand_down_watchdog, Goto
<1>6. CASE resume_logger(s)
  BY <1>6, GotoMoves DEF resume_logger, Close, Goto
<1>7. CASE _finish_transition(s)
  BY <1>7, GotoMoves DEF _finish_transition, Close, Goto
<1>8. CASE _cleanup_capsule_after_finish(s)
  BY <1>8, GotoMoves DEF _cleanup_capsule_after_finish, Close, Goto
<1>9. QED
  BY <1>1, <1>2, <1>3, <1>4, <1>5, <1>6, <1>7, <1>8 DEF RestoreStep

\* Watchdog, unit, clocks and reports take no fence.
LEMMA UnitTakesNoFence ==
  ASSUME \/ \E i \in DOMAIN rows : _cleanup_inactive_capsules(i) \/ LeaseExpires(i)
         \/ WatchdogStep
         \/ Rearm \/ LoggerHoldExpires \/ Sleep \/ Wake \/ Reboot
         \/ \E m \in reports : apply_unit_report(m) \/ ReportLost(m)
  PROVE  UNCHANGED pc
<1>1. CASE WatchdogStep
  BY <1>1 DEF WatchdogStep, WatchdogClaims, WatchdogEnables, WatchdogRestores,
              WatchdogReports, WatchdogEnds, server
<1>2. CASE Rearm \/ LoggerHoldExpires \/ Sleep \/ Wake \/ Reboot
  BY <1>2 DEF Rearm, LoggerHoldExpires, Sleep, Wake, Reboot, server
<1>3. CASE \E i \in DOMAIN rows : _cleanup_inactive_capsules(i) \/ LeaseExpires(i)
  BY <1>3 DEF _cleanup_inactive_capsules, LeaseExpires, server
<1>4. CASE \E m \in reports : apply_unit_report(m) \/ ReportLost(m)
  BY <1>4 DEF apply_unit_report, ReportLost, server
<1>5. QED
  BY <1>1, <1>2, <1>3, <1>4

\* Every step of Next keeps the fence exclusive.
LEMMA FencedNext == Fenced /\ [Next]_vars => Fenced'
<1> SUFFICES ASSUME Fenced, [Next]_vars PROVE Fenced'
  OBVIOUS
<1>1. CASE UNCHANGED pc
  BY <1>1 DEF Fenced, OneController
<1>2. ASSUME NEW s \in Servers,
             \/ begin(s) \/ ForwardStep(s) \/ RestoreStep(s)
             \/ _persist_restore_failure(s) \/ Crash(s)
             \/ \E i \in DOMAIN rows : _adopt_expired(s, i)
      PROVE  Fenced'
  <2>1. CASE begin(s)
    BY <2>1, AloneKeepsFence, GotoMoves DEF begin, Goto
  <2>2. CASE ForwardStep(s)
    BY <2>2, <1>1, ForwardAlone, AloneKeepsFence
  <2>3. CASE RestoreStep(s)
    BY <2>3, RestoreAlone, AloneKeepsFence
  <2>4. CASE _persist_restore_failure(s)
    BY <2>4, AloneKeepsFence, GotoMoves DEF _persist_restore_failure, Restoring, Close, Goto
  <2>5. CASE Crash(s)
    BY <2>5, AloneKeepsFence, GotoMoves DEF Crash, Close, Goto
  <2>6. CASE \E i \in DOMAIN rows : _adopt_expired(s, i)
    BY <2>6, AloneKeepsFence, GotoMoves DEF _adopt_expired, Goto
  <2>7. QED
    BY <1>2, <2>1, <2>2, <2>3, <2>4, <2>5, <2>6
<1>3. QED
  BY <1>1, <1>2, UnitTakesNoFence DEF Next, vars

\* At most one server process commands the unit at a time, for any number of
\* processes, however leases expire, processes crash and rows are adopted.
THEOREM FenceTheorem == Spec => []OneController
<1>1. Init => Fenced
  BY DEF Init, Fenced, OneController
<1>2. Fenced => OneController
  BY DEF Fenced
<1>3. QED
  BY <1>1, <1>2, FencedNext, PTL DEF Spec

-----------------------------------------------------------------------------
(* One row of the table, as each checkpoint leaves it.                     *)

SameHolder(new, row) == new.active = row.active /\ new.owner = row.owner
SameLogger(new, row) == new.logger = row.logger /\ new.resumed = row.resumed
SameBaseline(new, row) ==
  /\ new.exported = row.exported /\ new.before = row.before
  /\ new.attempted = row.attempted
SameTrace(new, row) == new.evidence = row.evidence /\ new.ref = row.ref

\* A row that differs only in what no debt depends on: its lease, the radios
\* verified, the recovery flag and the token.
Alike(new, row) ==
  /\ SameHolder(new, row) /\ SameLogger(new, row)
  /\ SameBaseline(new, row) /\ SameTrace(new, row)

\* prepare_logger commits the request.
LEMMA LoggerAsked ==
  ASSUME NEW row \in Row, NEW new, new = [row EXCEPT !.logger = TRUE]
  PROVE  new \in Row /\ SameHolder(new, row) /\ SameBaseline(new, row) /\ SameTrace(new, row)
         /\ new.logger /\ new.resumed = row.resumed
BY DEF Row, SameHolder, SameLogger, SameBaseline, SameTrace, Alike

\* resume_logger records that the logger runs again.
LEMMA LoggerReturned ==
  ASSUME NEW row \in Row, NEW new, new = [row EXCEPT !.resumed = TRUE, !.fresh = TRUE]
  PROVE  new \in Row /\ SameHolder(new, row) /\ SameBaseline(new, row) /\ SameTrace(new, row)
         /\ new.resumed /\ new.logger = row.logger
BY DEF Row, SameHolder, SameLogger, SameBaseline, SameTrace, Alike

\* Every export is on the server.
LEMMA Exported ==
  ASSUME NEW row \in Row, NEW new, new = [row EXCEPT !.exported = TRUE]
  PROVE  new \in Row /\ SameHolder(new, row) /\ SameLogger(new, row) /\ SameTrace(new, row)
         /\ new.exported /\ new.before = row.before /\ new.attempted = row.attempted
BY DEF Row, SameHolder, SameLogger, SameBaseline, SameTrace, Alike

Committed(row, states, i, held) == [row EXCEPT !.before = states, !.ref = i \in held]

\* The baseline and the capsule's path are committed.
LEMMA BaselineRead ==
  ASSUME NEW row \in Row, NEW states \in [Radios -> RadioState], NEW i, NEW held
  PROVE  LET new == Committed(row, states, i, held) IN
         /\ new \in Row /\ SameHolder(new, row) /\ SameLogger(new, row)
         /\ new.exported = row.exported /\ new.before = states
         /\ new.attempted = row.attempted
         /\ new.evidence = row.evidence /\ (new.ref <=> i \in held)
<1> DEFINE new == Committed(row, states, i, held)
<1>0. new = [row EXCEPT !.before = states, !.ref = i \in held]
  BY DEF Committed
<1> HIDE DEF new
<1>1. ASSUME NEW ref \in BOOLEAN, new = [row EXCEPT !.before = states, !.ref = ref]
      PROVE  new \in Row /\ SameHolder(new, row) /\ SameLogger(new, row)
             /\ new.exported = row.exported /\ new.before = states
             /\ new.attempted = row.attempted
             /\ new.evidence = row.evidence /\ new.ref = ref
  BY <1>1 DEF Row, SameHolder, SameLogger
<1>2. CASE i \in held
  <2>1. new = [row EXCEPT !.before = states, !.ref = TRUE]
    BY <1>0, <1>2
  <2>2. QED
    BY <1>1, <1>2, <2>1 DEF new
<1>3. CASE i \notin held
  <2>1. (i \in held) = FALSE
    BY <1>3
  <2>2. new = [row EXCEPT !.before = states, !.ref = FALSE]
    BY <1>0, <2>1, Zenon
  <2>3. QED
    BY <1>1, <1>3, <2>2 DEF new
<1>4. QED
  BY <1>2, <1>3

\* The intent to disable a radio is committed.
LEMMA Intended ==
  ASSUME NEW row \in Row, NEW r \in Radios, NEW new, new = [row EXCEPT !.attempted = @ \cup {r}]
  PROVE  new \in Row /\ SameHolder(new, row) /\ SameLogger(new, row) /\ SameTrace(new, row)
         /\ new.exported = row.exported /\ new.before = row.before
         /\ new.attempted = row.attempted \cup {r}
BY DEF Row, SameHolder, SameLogger, SameBaseline, SameTrace, Alike

\* A checkpoint of a restore renews the lease.
LEMMA Renews ==
  ASSUME NEW row \in Row, NEW new, new = [row EXCEPT !.fresh = TRUE]
  PROVE  new \in Row /\ Alike(new, row)
BY DEF Row, SameHolder, SameLogger, SameBaseline, SameTrace, Alike

\* A lease runs out.
LEMMA Expires ==
  ASSUME NEW row \in Row, NEW new, new = [row EXCEPT !.fresh = FALSE]
  PROVE  new \in Row /\ Alike(new, row)
BY DEF Row, SameHolder, SameLogger, SameBaseline, SameTrace, Alike

\* A failed restore expires its row and calls for a recovery.
LEMMA Fails ==
  ASSUME NEW row \in Row, NEW new, new = [row EXCEPT !.recovery = TRUE, !.fresh = FALSE]
  PROVE  new \in Row /\ Alike(new, row)
BY DEF Row, SameHolder, SameLogger, SameBaseline, SameTrace, Alike

\* The checkpoint after a restore command.
LEMMA Verifies ==
  ASSUME NEW row \in Row, NEW verified \in SUBSET Radios,
         NEW new, new = [row EXCEPT !.fresh = TRUE, !.verified = verified]
  PROVE  new \in Row /\ Alike(new, row)
BY DEF Row, SameHolder, SameLogger, SameBaseline, SameTrace, Alike

\* A capsule that is gone is forgotten.
LEMMA Forgets ==
  ASSUME NEW row \in Row, NEW new, new = [row EXCEPT !.ref = FALSE]
  PROVE  new \in Row /\ SameHolder(new, row) /\ SameLogger(new, row) /\ SameBaseline(new, row)
         /\ new.evidence = row.evidence /\ ~ new.ref
BY DEF Row, SameHolder, SameLogger, SameBaseline, SameTrace, Alike

\* What the unit reports closes no row whose logger is still on hold.
LEMMA ReportNoted ==
  ASSUME NEW row \in Row, NEW m \in Report, NEW new, new = ReportedRow(row, m)
  PROVE  /\ new \in Row /\ SameLogger(new, row) /\ SameBaseline(new, row)
         /\ new.owner = row.owner /\ new.ref = row.ref /\ new.evidence
         /\ new.active => row.active
         /\ row.active /\ ~ new.active => ~ row.logger \/ row.resumed
<1> DEFINE verified == Reported(row, m)
           noted == [row EXCEPT !.evidence = TRUE, !.verified = verified]
<1>1. verified \in SUBSET Radios
  BY DEF Reported
<1> HIDE DEF verified
<1>2. /\ noted \in Row /\ SameLogger(noted, row) /\ SameBaseline(noted, row)
      /\ noted.owner = row.owner /\ noted.ref = row.ref /\ noted.evidence
      /\ noted.active = row.active
  BY <1>1 DEF Row, SameLogger, SameBaseline
<1>3. \/ new = noted
      \/ new = [noted EXCEPT !.recovery = TRUE]
      \/ /\ new = [noted EXCEPT !.recovery = FALSE, !.active = FALSE, !.token = FALSE]
         /\ ~ Outstanding(row, m)
  BY DEF ReportedRow, verified
<1> HIDE DEF noted
<1>4. ASSUME NEW old \in Row, NEW next, next = [old EXCEPT !.recovery = TRUE]
      PROVE  next \in Row /\ Alike(next, old)
  BY <1>4 DEF Row, Alike, SameHolder, SameLogger, SameBaseline, SameTrace
<1>5. ASSUME NEW old \in Row, NEW next,
             next = [old EXCEPT !.recovery = FALSE, !.active = FALSE, !.token = FALSE]
      PROVE  /\ next \in Row /\ SameLogger(next, old) /\ SameBaseline(next, old)
             /\ SameTrace(next, old) /\ next.owner = old.owner /\ ~ next.active
  BY <1>5 DEF Row, SameLogger, SameBaseline, SameTrace
<1>6. Outstanding(row, m) \/ ~ row.logger \/ row.resumed
  BY DEF Outstanding
<1>7. CASE new = noted
  BY <1>2, <1>7
<1>8. CASE new = [noted EXCEPT !.recovery = TRUE]
  <2>1. new \in Row /\ Alike(new, noted)
    BY <1>2, <1>4, <1>8
  <2>2. QED
    BY <1>2, <2>1 DEF Alike, SameHolder, SameLogger, SameBaseline, SameTrace
<1>9. CASE /\ new = [noted EXCEPT !.recovery = FALSE, !.active = FALSE, !.token = FALSE]
           /\ ~ Outstanding(row, m)
  <2>1. /\ new \in Row /\ SameLogger(new, noted) /\ SameBaseline(new, noted)
        /\ SameTrace(new, noted) /\ new.owner = noted.owner /\ ~ new.active
    BY <1>2, <1>5, <1>9
  <2>2. QED
    BY <1>2, <1>6, <1>9, <2>1 DEF SameLogger, SameBaseline, SameTrace
<1>10. QED
  BY <1>3, <1>7, <1>8, <1>9

\* A new row owes nothing yet.
LEMMA NewRowOwes ==
  ASSUME NEW s \in Servers
  PROVE  /\ NewRow(s) \in Row /\ NewRow(s).owner = s /\ NewRow(s).active
         /\ NewRow(s).before["hotspot"] = "unknown" /\ NewRow(s).attempted = {}
         /\ ~ NewRow(s).resumed /\ ~ NewRow(s).evidence
BY DEF NewRow, Row, Radios

-----------------------------------------------------------------------------
(* The memory of a process.                                                *)

\* The watchdog is armed.
LEMMA Arms ==
  ASSUME NEW m \in Memory, NEW new, new = [m EXCEPT !.handle = TRUE]
  PROVE  new \in Memory /\ new.handle /\ new.ok = m.ok /\ new.untracked = m.untracked
BY DEF Memory

\* A capsule could not be removed.
LEMMA Remembers ==
  ASSUME NEW m \in Memory, NEW new, new = [m EXCEPT !.untracked = TRUE]
  PROVE  new \in Memory /\ new.untracked /\ new.handle = m.handle /\ new.ok = m.ok
BY DEF Memory

\* A step of the restore failed.
LEMMA Doubts ==
  ASSUME NEW m \in Memory, NEW new, new = [m EXCEPT !.ok = FALSE]
  PROVE  new \in Memory /\ ~ new.ok /\ new.untracked = m.untracked
BY DEF Memory

-----------------------------------------------------------------------------
(* The table.                                                              *)

\* A checkpoint replaces one row.
LEMMA PutRow ==
  ASSUME rows \in Seq(Row), NEW i \in DOMAIN rows, NEW row \in Row,
         rows' = [rows EXCEPT ![i] = row]
  PROVE  /\ rows' \in Seq(Row) /\ DOMAIN rows' = DOMAIN rows
         /\ rows'[i] = row /\ \A k \in DOMAIN rows : k # i => rows'[k] = rows[k]
OBVIOUS

\* begin adds one.
LEMMA AddRow ==
  ASSUME rows \in Seq(Row), NEW row \in Row, rows' = Append(rows, row)
  PROVE  /\ rows' \in Seq(Row)
         /\ DOMAIN rows' = DOMAIN rows \cup {Len(rows) + 1}
         /\ Len(rows) + 1 \notin DOMAIN rows /\ Len(rows) + 1 \in Nat
         /\ rows'[Len(rows) + 1] = row
         /\ \A k \in DOMAIN rows : rows'[k] = rows[k]
OBVIOUS

\* Faults only add up.
LEMMA SpentGrows ==
  ASSUME TypeOK, NEW event \in Events, UNCHANGED spent \/ Spend(event)
  PROVE  /\ spent' \in [Events -> Nat]
         /\ CommandsWork' => CommandsWork
         /\ Spend(event) /\ event \in {"halt", "wdfail"} => ~ CommandsWork'
<1>1. spent \in [Events -> Nat] /\ "halt" \in Events /\ "wdfail" \in Events
  BY DEF TypeOK, Events
<1>2. CASE UNCHANGED spent
  <2>1. ~ Spend(event)
    BY <1>1, <1>2 DEF Spend
  <2>2. QED
    BY <1>1, <1>2, <2>1 DEF CommandsWork
<1>3. CASE Spend(event)
  <2>1. spent' \in [Events -> Nat]
    BY <1>1, <1>3 DEF Spend
  <2>2. \A e \in Events : spent'[e] = spent[e] + (IF e = event THEN 1 ELSE 0)
    BY <1>1, <1>3 DEF Spend
  <2>3. QED
    BY <1>1, <2>1, <2>2 DEF CommandsWork
<1>4. QED
  BY <1>2, <1>3

-----------------------------------------------------------------------------
(* The inductive invariant.                                                *)

\* The baseline of row i is recorded.
Baselined(i) == rows[i].before["hotspot"] # "unknown"
ReportOf(i) == \E m \in reports : m.row = i

\* Where a process is before and after it has recorded the baseline.
Early == {"begun", "quiescing", "exporting", "exported", "captured"}
Cutting == {"bt_intent", "bt_cut", "hs_intent", "hs_cut", "checking", "ingesting"}
Labels == Forward \cup Restoring \cup {"idle", "cleanup"}

\* At most one row is active, and the columns of a row are filled in order.
Table ==
  /\ \A i, k \in DOMAIN rows : rows[i].active /\ rows[k].active => i = k
  /\ \A i \in DOMAIN rows :
       /\ Baselined(i) => rows[i].exported
       /\ rows[i].attempted # {} => Baselined(i)
       /\ \A r \in rows[i].attempted : rows[i].before[r] = "on"

\* The watchdog and its reports know a row that was to be changed, and until the
\* watchdog has reported its row is open.
UnitKnown ==
  /\ \A m \in reports : Baselined(m.row)
  /\ watchdog.phase # "none" => rows[watchdog.row].attempted # {}
  /\ watchdog.phase \in {"armed", "claimed", "enabled", "restored"} =>
       /\ rows[watchdog.row].active /\ ~ rows[watchdog.row].evidence
       /\ ~ ReportOf(watchdog.row)
  /\ logger = "held" =>
       \E i \in DOMAIN rows : rows[i].active /\ rows[i].logger /\ ~ rows[i].resumed
  /\ CapsuleTracked

\* A process that holds the fence owns the active row, if there is one, and knows
\* what it did: in particular it has a row to itself until it arms a watchdog.
Process(s) ==
  /\ pc[s] # "idle" =>
       /\ rows[mine[s]].owner = s
       /\ \A i \in DOMAIN rows : rows[i].active => i = mine[s]
  /\ pc[s] = "cleanup" => ~ rows[mine[s]].active
  /\ pc[s] \in Early => ~ Baselined(mine[s]) /\ ~ mem[s].handle
  /\ pc[s] = "captured" => rows[mine[s]].exported
  /\ pc[s] \in Cutting => Baselined(mine[s])
  /\ pc[s] = "bt_cut" => "bluetooth" \in rows[mine[s]].attempted
  /\ pc[s] = "hs_cut" => "hotspot" \in rows[mine[s]].attempted
  /\ pc[s] = "quiescing" => rows[mine[s]].logger
  /\ pc[s] \in {"begun", "quiescing"} => ~ rows[mine[s]].resumed
  /\ pc[s] \in Early \cup Cutting /\ ~ mem[s].handle =>
       /\ rows[mine[s]].active /\ ~ rows[mine[s]].evidence
       /\ ~ ReportOf(mine[s])
       /\ ~ (watchdog.phase # "none" /\ watchdog.row = mine[s])
  /\ pc[s] \in {"resume", "finish"} /\ mem[s].ok =>
       watchdog.phase = "none" \/ rows[mine[s]].attempted = {}
  /\ pc[s] = "finish" /\ mem[s].ok /\ rows[mine[s]].logger => rows[mine[s]].resumed
  /\ pc[s] \notin {"idle", "captured", "cleanup"} /\ mine[s] \in capsules =>
       rows[mine[s]].ref \/ mem[s].untracked

Structure ==
  TypeOK /\ Fenced /\ Table /\ UnitKnown /\ \A s \in Servers : Process(s)

\* The vendor may still start a hotspot that was stopped.
Restless == rearm /\ home["hotspot"] # "transport"
BluetoothHome == radio["bluetooth"] = home["bluetooth"]
AtHome == radio = home /\ ~ Restless

\* The watchdog has restored the radios of row i.
Recovered(i) ==
  \/ rows[i].evidence \/ ReportOf(i)
  \/ watchdog.phase \in {"restored", "posted"} /\ watchdog.row = i

\* Where the radios are while commands work.
Places ==
  /\ \A i \in DOMAIN rows : Baselined(i) => rows[i].before = home
  /\ home["hotspot"] = "transport" => radio["hotspot"] = "transport"
  /\ home["hotspot"] = "on" =>
       \A i \in DOMAIN rows : rows[i].active /\ Baselined(i) => rows[i].ref /\ i \in capsules
  /\ ~ BluetoothHome \/ Restless =>
       \E i \in DOMAIN rows : rows[i].active /\ "bluetooth" \in rows[i].attempted
  /\ radio # home => \E i \in DOMAIN rows : rows[i].active /\ rows[i].attempted # {}
  /\ \A i \in DOMAIN rows : rows[i].active /\ Recovered(i) => AtHome
  /\ watchdog.phase = "enabled" => BluetoothHome

\* What a process that has verified its radios so far may rely on.
Returns(s) ==
  /\ pc[s] = "captured" /\ home["hotspot"] = "on" => mine[s] \in capsules
  /\ mem[s].ok /\ pc[s] = "restore_hotspot" => BluetoothHome /\ (Restless => mem[s].settle)
  /\ mem[s].ok /\ pc[s] \in {"stand_down", "resume", "finish"} => AtHome

Owed == Structure /\ (CommandsWork => Places /\ \A s \in Servers : Returns(s))

-----------------------------------------------------------------------------
(* The frame of a step.                                                    *)

RowsAlike ==
  DOMAIN rows' = DOMAIN rows /\ \A i \in DOMAIN rows : Alike(rows'[i], rows[i])

\* A step that leaves every row alike keeps what the table owes.
LEMMA AlikeKeepsTable ==
  ASSUME Table, RowsAlike
  PROVE  Table'
BY DEF Table, RowsAlike, Alike, SameHolder, SameBaseline, Baselined

\* So it does what the unit's debts rest on.
LEMMA AlikeKeepsUnit ==
  ASSUME TypeOK, UnitKnown, RowsAlike, UNCHANGED <<watchdog, logger, capsules, reports>>
  PROVE  UnitKnown'
<1>1. /\ \A m \in reports : m.row \in DOMAIN rows
      /\ watchdog.phase # "none" => watchdog.row \in DOMAIN rows
      /\ capsules \subseteq DOMAIN rows
  BY DEF TypeOK
<1>2. QED
  BY <1>1 DEF UnitKnown, RowsAlike, Alike, SameHolder, SameBaseline, SameLogger, SameTrace,
     Baselined, ReportOf, CapsuleTracked

\* And where the radios are.
LEMMA AlikeKeepsPlaces ==
  ASSUME Places, RowsAlike, UNCHANGED <<watchdog, capsules, reports, radio, rearm, home>>
  PROVE  Places'
BY DEF Places, RowsAlike, Alike, SameHolder, SameBaseline, SameTrace, Baselined,
   Recovered, ReportOf, BluetoothHome, Restless, AtHome

\* What a process that holds the fence may rely on.
LEMMA AloneFacts ==
  ASSUME Owed, NEW s \in Servers, pc[s] # "idle"
  PROVE  /\ \A t \in Servers : t # s => pc[t] = "idle"
         /\ mine[s] \in DOMAIN rows /\ rows[mine[s]] \in Row /\ mem[s] \in Memory
         /\ rows \in Seq(Row) /\ DOMAIN pc = Servers
         /\ rows[mine[s]].owner = s
         /\ \A i \in DOMAIN rows : rows[i].active => i = mine[s]
         /\ Process(s) /\ (CommandsWork => Returns(s))
<1>1. /\ mine[s] \in DOMAIN rows /\ rows[mine[s]] \in Row /\ mem[s] \in Memory
      /\ rows \in Seq(Row)
  BY DEF Owed, Structure, TypeOK
<1>2. \A t \in Servers : t # s => pc[t] = "idle"
  BY DEF Owed, Structure, Fenced, OneController
<1>3. QED
  BY <1>1, <1>2 DEF Owed, Structure, Process, Fenced

\* A step of the process that holds the fence: what it must keep.
LEMMA ProcessKeeps ==
  ASSUME Owed, NEW s \in Servers, pc[s] # "idle", NEW label \in Labels,
         pc' = [pc EXCEPT ![s] = label],
         TypeOK', Table', UnitKnown', Process(s)',
         CommandsWork' => CommandsWork,
         CommandsWork' => Places' /\ Returns(s)'
  PROVE  Owed'
<1>1. \A t \in Servers : t # s => pc'[t] = "idle"
  BY AloneFacts
<1>2. Fenced'
  BY <1>1, GotoMoves, AloneKeepsFence DEF Owed, Structure
<1>3. \A t \in Servers : t # s => Process(t)' /\ Returns(t)'
  BY <1>1 DEF Process, Returns, Early, Cutting
<1>4. QED
  BY <1>2, <1>3 DEF Owed, Structure

\* A checkpoint of a process that holds the fence replaces its own row.
LEMMA PutMine ==
  ASSUME Owed, NEW s \in Servers, pc[s] # "idle", NEW row \in Row, Put(s, row)
  PROVE  /\ rows' \in Seq(Row) /\ DOMAIN rows' = DOMAIN rows
         /\ rows'[mine[s]] = row
         /\ \A k \in DOMAIN rows : k # mine[s] => rows'[k] = rows[k]
<1>1. rows \in Seq(Row) /\ mine[s] \in DOMAIN rows
  BY AloneFacts
<1>2. QED
  BY <1>1, PutRow DEF Put

\* A process that goes to a label is there.
LEMMA GoesTo ==
  ASSUME Owed, NEW s \in Servers, NEW label \in Labels, Goto(s, label)
  PROVE  /\ pc' = [pc EXCEPT ![s] = label] /\ pc'[s] = label
         /\ pc' \in [Servers -> Labels]
         /\ \A t \in Servers : t # s => pc'[t] = pc[t]
BY DEF Owed, Structure, TypeOK, Goto, Labels

\* A row that is as open as before, owes the logger it owed, and names a capsule
\* that it may have to name.
Grows(k) ==
  /\ rows'[k].active = rows[k].active /\ rows'[k].evidence = rows[k].evidence
  /\ Baselined(k) => Baselined(k)'
  /\ rows[k].attempted # {} => rows'[k].attempted # {}
  /\ rows[k].logger /\ ~ rows[k].resumed => rows'[k].logger /\ ~ rows'[k].resumed
  /\ k \in capsules =>
       \/ rows'[k].ref
       \/ rows[k].active /\ ~ Baselined(k)' /\ rows'[k].attempted = {}

\* A step in which rows only grow keeps what the unit's debts rest on.
LEMMA GrowingKeepsUnit ==
  ASSUME TypeOK, UnitKnown, DOMAIN rows' = DOMAIN rows, \A k \in DOMAIN rows : Grows(k),
         UNCHANGED <<watchdog, logger, capsules, reports>>
  PROVE  UnitKnown'
<1>1. /\ \A m \in reports : m.row \in DOMAIN rows
      /\ watchdog.phase # "none" => watchdog.row \in DOMAIN rows
      /\ capsules \subseteq DOMAIN rows
  BY DEF TypeOK
<1>2. QED
  BY <1>1 DEF UnitKnown, Grows, Baselined, ReportOf, CapsuleTracked

-----------------------------------------------------------------------------
(* Towards quiet radios.                                                   *)

\* The logger's request is on the row before the logger is asked.
LEMMA PrepareKeeps ==
  ASSUME Owed, NEW s \in Servers, prepare_logger(s)
  PROVE  Owed'
<1> DEFINE i == mine[s]
           row == [rows[i] EXCEPT !.logger = TRUE]
<1>1. /\ pc[s] = "begun" /\ Goto(s, "quiescing") /\ Put(s, row)
      /\ UNCHANGED <<mine, mem, radio, rearm, watchdog, logger, capsules, awake, reports,
                     home, spent>>
  BY DEF prepare_logger, unit, Mine
<1>2. i \in DOMAIN rows /\ rows[i] \in Row /\ Process(s) /\ TypeOK
  BY <1>1, AloneFacts DEF Owed, Structure
<1>3. /\ row \in Row /\ SameHolder(row, rows[i]) /\ SameBaseline(row, rows[i])
      /\ SameTrace(row, rows[i]) /\ row.logger /\ row.resumed = rows[i].resumed
  BY <1>2, LoggerAsked
<1>4. pc' = [pc EXCEPT ![s] = "quiescing"] /\ pc'[s] = "quiescing" /\ pc' \in [Servers -> Labels]
  BY <1>1, GoesTo DEF Labels, Forward
<1> HIDE DEF row
<1>5. /\ rows' \in Seq(Row) /\ DOMAIN rows' = DOMAIN rows /\ rows'[i] = row
      /\ \A k \in DOMAIN rows : k # i => rows'[k] = rows[k]
  BY <1>1, <1>3, PutMine
<1>6. TypeOK'
  BY <1>1, <1>2, <1>4, <1>5, AloneFacts DEF TypeOK, Labels
<1>7. Table'
  BY <1>2, <1>3, <1>5 DEF Owed, Structure, Table, SameHolder, SameBaseline, Baselined
<1>8. \A k \in DOMAIN rows : Grows(k)
  BY <1>1, <1>2, <1>3, <1>5 DEF Owed, Structure, UnitKnown, Grows, SameHolder, SameBaseline,
     SameTrace, Baselined, CapsuleTracked
<1>9. Process(s)'
  BY <1>1, <1>2, <1>3, <1>4, <1>5 DEF Process, SameHolder, SameBaseline, SameTrace,
     Baselined, ReportOf, Early, Cutting
<1>10. CommandsWork' => CommandsWork /\ Places' /\ Returns(s)'
  BY <1>1, <1>2, <1>3, <1>4, <1>5 DEF Owed, Places, SameHolder, SameBaseline, SameTrace,
     Baselined, ReportOf, Recovered, CommandsWork, Returns, BluetoothHome, AtHome, Restless
<1>11. UnitKnown'
  BY <1>1, <1>2, <1>5, <1>8, GrowingKeepsUnit DEF Owed, Structure
<1>12. QED
  BY <1>1, <1>4, <1>6, <1>7, <1>9, <1>10, <1>11, ProcessKeeps DEF Labels, Forward

\* Every export is on the server before a baseline is taken.
LEMMA ExportedKeeps ==
  ASSUME Owed, NEW s \in Servers, mark_obd_transfer_complete(s)
  PROVE  Owed'
<1> DEFINE i == mine[s]
           row == [rows[i] EXCEPT !.exported = TRUE]
<1>1. /\ pc[s] \in {"begun", "exporting"} /\ Goto(s, "exported") /\ Put(s, row)
      /\ UNCHANGED <<mine, mem, radio, rearm, watchdog, logger, capsules, awake, reports,
                     home, spent>>
  BY DEF mark_obd_transfer_complete, unit, Mine
<1>2. i \in DOMAIN rows /\ rows[i] \in Row /\ Process(s) /\ TypeOK /\ pc[s] # "idle"
  BY <1>1, AloneFacts DEF Owed, Structure
<1>3. /\ row \in Row /\ SameHolder(row, rows[i]) /\ SameLogger(row, rows[i])
      /\ SameTrace(row, rows[i]) /\ row.exported /\ row.before = rows[i].before
      /\ row.attempted = rows[i].attempted
  BY <1>2, Exported
<1>4. pc' = [pc EXCEPT ![s] = "exported"] /\ pc'[s] = "exported" /\ pc' \in [Servers -> Labels]
  BY <1>1, GoesTo DEF Labels, Forward
<1> HIDE DEF row
<1>5. /\ rows' \in Seq(Row) /\ DOMAIN rows' = DOMAIN rows /\ rows'[i] = row
      /\ \A k \in DOMAIN rows : k # i => rows'[k] = rows[k]
  BY <1>1, <1>2, <1>3, PutMine
<1>6. TypeOK'
  BY <1>1, <1>2, <1>4, <1>5, AloneFacts DEF TypeOK, Labels
<1>7. Table'
  BY <1>2, <1>3, <1>5 DEF Owed, Structure, Table, SameHolder, Baselined
<1>8. \A k \in DOMAIN rows : Grows(k)
  BY <1>1, <1>2, <1>3, <1>5 DEF Owed, Structure, UnitKnown, Grows, SameHolder, SameLogger,
     SameTrace, Baselined, CapsuleTracked
<1>9. UnitKnown'
  BY <1>1, <1>2, <1>5, <1>8, GrowingKeepsUnit DEF Owed, Structure
<1>10. Process(s)'
  BY <1>1, <1>2, <1>3, <1>4, <1>5 DEF Process, SameHolder, SameTrace,
     Baselined, ReportOf, Early, Cutting
<1>11. CommandsWork' => CommandsWork /\ Places' /\ Returns(s)'
  BY <1>1, <1>2, <1>3, <1>4, <1>5 DEF Owed, Places, SameHolder, SameTrace,
     Baselined, ReportOf, Recovered, CommandsWork, Returns, BluetoothHome, AtHome, Restless
<1>12. QED
  BY <1>1, <1>2, <1>4, <1>6, <1>7, <1>9, <1>10, <1>11, ProcessKeeps DEF Labels, Forward

\* A step that changes no row and nothing on the unit but, perhaps, whether it is
\* awake.
LEMMA AlikeStep ==
  ASSUME Owed, NEW s \in Servers, pc[s] # "idle", NEW label \in Labels, Goto(s, label),
         rows' \in Seq(Row), RowsAlike,
         UNCHANGED <<mine, radio, rearm, watchdog, logger, capsules, awake, reports, home>>,
         mem' \in [Servers -> Memory], spent' \in [Events -> Nat],
         Process(s)',
         CommandsWork' => CommandsWork /\ Returns(s)'
  PROVE  Owed'
<1>1. /\ pc' = [pc EXCEPT ![s] = label] /\ pc' \in [Servers -> Labels]
      /\ TypeOK /\ \A t \in Servers : pc'[t] # "idle" => pc[t] # "idle"
  BY GoesTo DEF Owed, Structure
<1>2. TypeOK'
  BY <1>1 DEF TypeOK, Labels, RowsAlike
<1>3. Table' /\ UnitKnown'
  BY <1>1, AlikeKeepsTable, AlikeKeepsUnit DEF Owed, Structure
<1>4. CommandsWork' => Places'
  BY AlikeKeepsPlaces DEF Owed
<1>5. QED
  BY <1>1, <1>2, <1>3, <1>4, ProcessKeeps

\* A table that is not touched is alike.
LEMMA SameRows ==
  ASSUME TypeOK, UNCHANGED rows
  PROVE  RowsAlike /\ rows' \in Seq(Row)
BY DEF RowsAlike, Alike, SameHolder, SameLogger, SameBaseline, SameTrace, TypeOK

\* A checkpoint of the own row that no debt depends on.
LEMMA AlikeRow ==
  ASSUME Owed, NEW s \in Servers, pc[s] # "idle", NEW row \in Row, Put(s, row),
         Alike(row, rows[mine[s]])
  PROVE  RowsAlike /\ rows' \in Seq(Row)
<1>1. /\ rows' \in Seq(Row) /\ DOMAIN rows' = DOMAIN rows /\ rows'[mine[s]] = row
      /\ \A k \in DOMAIN rows : k # mine[s] => rows'[k] = rows[k]
  BY PutMine
<1>2. QED
  BY <1>1 DEF RowsAlike, Alike, SameHolder, SameLogger, SameBaseline, SameTrace

\* The logger is on hold for a row that asked for it and will be resumed.
LEMMA QuiesceKeeps ==
  ASSUME Owed, NEW s \in Servers, request_quiesce(s)
  PROVE  Owed'
<1>1. /\ pc[s] = "quiescing" /\ logger' = "held"
      /\ UNCHANGED <<rows, mine, mem, radio, rearm, watchdog, capsules, awake, reports, home>>
      /\ \/ Goto(s, "exporting") /\ UNCHANGED spent
         \/ Goto(s, "failing") /\ Spend("refuse")
  BY DEF request_quiesce
<1>2. PICK label \in {"exporting", "failing"} : Goto(s, label)
  BY <1>1
<1>3. /\ mine[s] \in DOMAIN rows /\ Process(s) /\ TypeOK /\ UnitKnown /\ Table
      /\ label \in Labels /\ spent' \in [Events -> Nat] /\ (CommandsWork' => CommandsWork)
  BY <1>1, AloneFacts, SpentGrows DEF Owed, Structure, Labels, Forward, Events
<1>4. /\ pc' = [pc EXCEPT ![s] = label] /\ pc'[s] = label /\ pc' \in [Servers -> Labels]
      /\ \A t \in Servers : t # s => pc'[t] = pc[t]
  BY <1>2, <1>3, GoesTo
<1>5. TypeOK'
  BY <1>1, <1>3, <1>4, AloneFacts DEF TypeOK, Labels
<1>6. rows[mine[s]].active /\ rows[mine[s]].logger /\ ~ rows[mine[s]].resumed
  BY <1>1, <1>3 DEF Process, Early
<1>7. UnitKnown'
  BY <1>1, <1>3, <1>6 DEF UnitKnown, Baselined, ReportOf, CapsuleTracked
<1>8. Table' /\ Process(s)'
  BY <1>1, <1>3, <1>4 DEF Table, Process, Baselined, ReportOf, Early, Cutting
<1>9. CommandsWork' => Places' /\ Returns(s)'
  BY <1>1, <1>3, <1>4 DEF Owed, Places, Baselined, ReportOf, Recovered, Returns,
     BluetoothHome, AtHome, Restless
<1>10. QED
  BY <1>1, <1>3, <1>4, <1>5, <1>7, <1>8, <1>9, ProcessKeeps

\* While a row was not to be changed, the radios are at home: there is no other
\* debt.
LEMMA UntouchedHome ==
  ASSUME Owed, CommandsWork, NEW s \in Servers, pc[s] # "idle",
         rows[mine[s]].active => rows[mine[s]].attempted = {}
  PROVE  AtHome
<1>1. \A i \in DOMAIN rows : rows[i].active => i = mine[s]
  BY AloneFacts
<1>2. QED
  BY <1>1 DEF Owed, Places, AtHome

\* The capsule that is put on the unit is on a row that will name it.
LEMMA CaptureKeeps ==
  ASSUME Owed, NEW s \in Servers, capture(s)
  PROVE  Owed'
<1>1. /\ pc[s] = "exported" /\ Goto(s, "captured") /\ "captured" \in Labels
      /\ rows[mine[s]].exported
      /\ capsules' = IF radio["hotspot"] = "on" THEN capsules \cup {mine[s]} ELSE capsules
      /\ UNCHANGED <<rows, mine, mem, radio, rearm, watchdog, logger, awake, reports,
                     home, spent>>
  BY DEF capture, Labels, Forward, Mine
<1>2. mine[s] \in DOMAIN rows /\ Process(s) /\ TypeOK /\ UnitKnown /\ Table
  BY <1>1, AloneFacts DEF Owed, Structure
<1>3. /\ pc' = [pc EXCEPT ![s] = "captured"] /\ pc'[s] = "captured"
      /\ pc' \in [Servers -> Labels] /\ \A t \in Servers : t # s => pc'[t] = pc[t]
  BY <1>1, GoesTo
<1>4. TypeOK'
  BY <1>1, <1>2, <1>3, AloneFacts DEF TypeOK, Labels
<1>5. rows[mine[s]].active /\ ~ Baselined(mine[s]) /\ rows[mine[s]].attempted = {}
  BY <1>1, <1>2 DEF Process, Early, Table
<1>6. UnitKnown'
  BY <1>1, <1>2, <1>5 DEF UnitKnown, Baselined, ReportOf, CapsuleTracked
<1>7. Table' /\ Process(s)'
  BY <1>1, <1>2, <1>3 DEF Table, Process, Baselined, ReportOf, Early, Cutting
<1>8. ASSUME CommandsWork'
      PROVE  CommandsWork /\ Places' /\ Returns(s)'
  <2>1. CommandsWork
    BY <1>1, <1>8 DEF CommandsWork
  <2>2. AtHome
    BY <1>1, <1>5, <2>1, UntouchedHome
  <2>3. Places'
    BY <1>1, <2>1 DEF Owed, Places, Baselined, ReportOf, Recovered, BluetoothHome, AtHome,
       Restless
  <2>4. QED
    BY <1>1, <1>3, <2>1, <2>2, <2>3 DEF Returns, AtHome
<1>9. QED
  BY <1>1, <1>3, <1>4, <1>6, <1>7, <1>8, ProcessKeeps

\* The baseline that is committed is what the operator left, with the capsule
\* that can bring a stopped hotspot back.
LEMMA CommitKeeps ==
  ASSUME Owed, NEW s \in Servers, CommitBaseline(s)
  PROVE  Owed'
<1> DEFINE i == mine[s]
           row == Committed(rows[i], radio, i, capsules)
<1>1. /\ pc[s] = "captured" /\ Goto(s, "bt_intent") /\ Put(s, row)
      /\ UNCHANGED <<mine, mem, radio, rearm, watchdog, logger, capsules, awake, reports,
                     home, spent>>
  BY DEF CommitBaseline, unit, Mine, Committed
<1>2. /\ i \in DOMAIN rows /\ rows[i] \in Row /\ Process(s) /\ TypeOK /\ pc[s] # "idle"
      /\ radio \in [Radios -> RadioState]
  BY <1>1, AloneFacts DEF Owed, Structure, TypeOK
<1>3. /\ row \in Row /\ SameHolder(row, rows[i]) /\ SameLogger(row, rows[i])
      /\ row.exported = rows[i].exported /\ row.before = radio
      /\ row.attempted = rows[i].attempted
      /\ row.evidence = rows[i].evidence /\ (row.ref <=> i \in capsules)
  BY <1>2, BaselineRead
<1>4. pc' = [pc EXCEPT ![s] = "bt_intent"] /\ pc'[s] = "bt_intent" /\ pc' \in [Servers -> Labels]
  BY <1>1, GoesTo DEF Labels, Forward
<1> HIDE DEF row
<1>5. /\ rows' \in Seq(Row) /\ DOMAIN rows' = DOMAIN rows /\ rows'[i] = row
      /\ \A k \in DOMAIN rows : k # i => rows'[k] = rows[k]
  BY <1>1, <1>2, <1>3, PutMine
<1>6. /\ ~ Baselined(i) /\ rows[i].attempted = {} /\ rows[i].active /\ ~ rows[i].evidence
      /\ ~ ReportOf(i) /\ ~ (watchdog.phase # "none" /\ watchdog.row = i)
      /\ rows[i].exported
  BY <1>1, <1>2 DEF Owed, Structure, Process, Table, Early
<1>7. radio["hotspot"] # "unknown" /\ Baselined(i)'
  BY <1>1, <1>2, <1>3, <1>5 DEF Radios, RadioState, Baselined
<1>8. TypeOK'
  BY <1>1, <1>2, <1>4, <1>5, AloneFacts DEF TypeOK, Labels
<1>9. Table'
  <2>1. row.active = rows[i].active /\ row.exported /\ row.attempted = {}
    BY <1>3, <1>6 DEF SameHolder
  <2>2. QED
    BY <1>2, <1>5, <2>1 DEF Owed, Structure, Table, Baselined
<1>10. \A k \in DOMAIN rows : Grows(k)
  BY <1>1, <1>2, <1>3, <1>5, <1>6, <1>7 DEF Owed, Structure, UnitKnown, Grows, SameHolder,
     SameLogger, Baselined, CapsuleTracked
<1>11. UnitKnown'
  BY <1>1, <1>2, <1>5, <1>10, GrowingKeepsUnit DEF Owed, Structure
<1>12. Process(s)'
  BY <1>1, <1>2, <1>3, <1>4, <1>5, <1>6, <1>7 DEF Process, SameHolder,
     ReportOf, Early, Cutting
<1>13. ASSUME CommandsWork'
       PROVE  CommandsWork /\ Places' /\ Returns(s)'
  <2>1. CommandsWork /\ Places /\ Returns(s)
    BY <1>1, <1>13 DEF CommandsWork, Owed
  <2>2. AtHome
    BY <1>1, <1>2, <1>6, <2>1, UntouchedHome
  <2>3. home["hotspot"] = "on" => i \in capsules
    BY <1>1, <2>1 DEF Returns
  <2>4. ~ Recovered(i)'
    BY <1>1, <1>3, <1>5, <1>6 DEF Recovered, ReportOf
  <2>5. Places'
    BY <1>1, <1>2, <1>3, <1>5, <1>6, <2>1, <2>2, <2>3, <2>4 DEF Places, SameHolder,
       Baselined, ReportOf, Recovered, BluetoothHome, AtHome, Restless
  <2>6. QED
    BY <1>4, <2>1, <2>5 DEF Returns
<1>14. QED
  BY <1>1, <1>2, <1>4, <1>8, <1>9, <1>11, <1>12, <1>13, ProcessKeeps DEF Labels, Forward

\* A capsule whose row could not be written is removed, or remembered.
LEMMA BaselineLostKeeps ==
  ASSUME Owed, NEW s \in Servers, BaselineLost(s)
  PROVE  Owed'
<1> DEFINE m == [mem[s] EXCEPT !.untracked = TRUE]
<1>1. /\ pc[s] = "captured" /\ Goto(s, "failing") /\ "failing" \in Labels
      /\ \/ capsules' = capsules \ {mine[s]} /\ UNCHANGED mem
         \/ mem' = [mem EXCEPT ![s] = m] /\ UNCHANGED capsules
      /\ UNCHANGED <<rows, mine, radio, rearm, watchdog, logger, awake, reports,
                     home, spent>>
  BY DEF BaselineLost, Labels, Forward
<1>2. /\ mine[s] \in DOMAIN rows /\ Process(s) /\ TypeOK /\ UnitKnown /\ Table
      /\ mem[s] \in Memory
  BY <1>1, AloneFacts DEF Owed, Structure
<1>3. m \in Memory /\ m.untracked
  BY <1>2, Remembers
<1> HIDE DEF m
<1>4. /\ pc' = [pc EXCEPT ![s] = "failing"] /\ pc'[s] = "failing"
      /\ pc' \in [Servers -> Labels] /\ \A t \in Servers : t # s => pc'[t] = pc[t]
  BY <1>1, GoesTo
<1>5. /\ mem' \in [Servers -> Memory] /\ capsules' \subseteq capsules
      /\ mem'[s].untracked \/ mine[s] \notin capsules'
  BY <1>1, <1>2, <1>3 DEF TypeOK
<1>6. TypeOK'
  BY <1>1, <1>2, <1>4, <1>5, AloneFacts DEF TypeOK, Labels
<1>7. UnitKnown'
  BY <1>1, <1>2, <1>5 DEF UnitKnown, Baselined, ReportOf, CapsuleTracked
<1>8. ~ Baselined(mine[s]) /\ rows[mine[s]].attempted = {}
  BY <1>1, <1>2 DEF Process, Early, Table
<1>9. Table' /\ Process(s)'
  BY <1>1, <1>2, <1>4, <1>5 DEF Table, Process, Baselined, ReportOf, Early, Cutting
<1>10. ASSUME CommandsWork'
       PROVE  CommandsWork /\ Places' /\ Returns(s)'
  <2>1. CommandsWork /\ Places
    BY <1>1, <1>10 DEF CommandsWork, Owed
  <2>2. \A i \in DOMAIN rows : Baselined(i) /\ i \in capsules => i \in capsules'
    BY <1>1, <1>8
  <2>3. Places'
    BY <1>1, <2>1, <2>2 DEF Places, Baselined, ReportOf, Recovered, BluetoothHome, AtHome,
       Restless
  <2>4. QED
    BY <1>4, <2>1, <2>3 DEF Returns
<1>11. QED
  BY <1>1, <1>4, <1>6, <1>7, <1>9, <1>10, ProcessKeeps

\* The intent to disable a radio is on the row before the command is sent.
LEMMA IntentKeeps ==
  ASSUME Owed, NEW s \in Servers, NEW r \in Radios, NEW label \in {"bt_cut", "hs_cut"},
         pc[s] \in {"bt_intent", "hs_intent"}, Mine(s).before[r] = "on",
         label = "bt_cut" => r = "bluetooth", label = "hs_cut" => r = "hotspot",
         Put(s, [Mine(s) EXCEPT !.attempted = @ \cup {r}]), Goto(s, label),
         UNCHANGED <<mine, mem, unit, reports, home, spent>>
  PROVE  Owed'
<1> DEFINE i == mine[s]
           row == [rows[i] EXCEPT !.attempted = @ \cup {r}]
<1>1. /\ Put(s, row) /\ rows[i].before[r] = "on"
      /\ UNCHANGED <<mine, mem, radio, rearm, watchdog, logger, capsules, awake, reports,
                     home, spent>>
  BY DEF unit, Mine
<1>2. /\ i \in DOMAIN rows /\ rows[i] \in Row /\ Process(s) /\ TypeOK /\ pc[s] # "idle"
      /\ label \in Labels
  BY AloneFacts DEF Owed, Structure, Labels, Forward
<1>3. /\ row \in Row /\ SameHolder(row, rows[i]) /\ SameLogger(row, rows[i])
      /\ SameTrace(row, rows[i])
      /\ row.exported = rows[i].exported /\ row.before = rows[i].before
      /\ row.attempted = rows[i].attempted \cup {r}
  BY <1>2, Intended
<1>4. pc' = [pc EXCEPT ![s] = label] /\ pc'[s] = label /\ pc' \in [Servers -> Labels]
  BY <1>2, GoesTo
<1> HIDE DEF row
<1>5. /\ rows' \in Seq(Row) /\ DOMAIN rows' = DOMAIN rows /\ rows'[i] = row
      /\ \A k \in DOMAIN rows : k # i => rows'[k] = rows[k]
  BY <1>1, <1>2, <1>3, PutMine
<1>6. Baselined(i) /\ row.attempted # {}
  BY <1>2, <1>3 DEF Process, Cutting
<1>7. TypeOK'
  BY <1>1, <1>2, <1>4, <1>5, AloneFacts DEF TypeOK, Labels
<1>8. Table'
  BY <1>1, <1>2, <1>3, <1>5, <1>6 DEF Owed, Structure, Table, SameHolder, Baselined
<1>9. \A k \in DOMAIN rows : Grows(k)
  BY <1>1, <1>2, <1>3, <1>5, <1>6 DEF Owed, Structure, UnitKnown, Grows, SameHolder,
     SameLogger, SameTrace, Baselined, CapsuleTracked
<1>10. UnitKnown'
  BY <1>1, <1>2, <1>5, <1>9, GrowingKeepsUnit DEF Owed, Structure
<1>11. Process(s)'
  BY <1>1, <1>2, <1>3, <1>4, <1>5, <1>6 DEF Process, SameHolder, SameTrace, Baselined,
     ReportOf, Early, Cutting
<1>12. CommandsWork' => CommandsWork /\ Places' /\ Returns(s)'
  BY <1>1, <1>2, <1>3, <1>4, <1>5, <1>6 DEF Owed, Places, SameHolder, SameTrace,
     Baselined, ReportOf, Recovered, CommandsWork, Returns, BluetoothHome, AtHome, Restless
<1>13. QED
  BY <1>1, <1>2, <1>4, <1>7, <1>8, <1>10, <1>11, <1>12, ProcessKeeps

\* A radio that was not on is not to be changed; a quiet unit is copied from.
LEMMA SkipKeeps ==
  ASSUME Owed, NEW s \in Servers, NEW label \in {"hs_intent", "checking", "ingesting"},
         pc[s] \in Cutting, Goto(s, label),
         UNCHANGED <<rows, mine, mem, unit, reports, home, spent>>
  PROVE  Owed'
<1>1. /\ TypeOK /\ pc[s] # "idle" /\ label \in Labels /\ Process(s)
      /\ mem \in [Servers -> Memory] /\ spent \in [Events -> Nat]
      /\ UNCHANGED <<radio, rearm, watchdog, logger, capsules, awake>>
  BY AloneFacts DEF Owed, Structure, TypeOK, Cutting, Labels, Forward, unit
<1>2. pc'[s] = label
  BY <1>1, GoesTo
<1>3. Process(s)' /\ Returns(s)'
  BY <1>1, <1>2 DEF Process, Returns, Baselined, ReportOf, Early, Cutting
<1>4. CommandsWork' => CommandsWork
  BY DEF CommandsWork
<1>5. QED
  BY <1>1, <1>3, <1>4, SameRows, AlikeStep

\* The watchdog is armed for a row that was to be changed and is not reported.
LEMMA WatchdogKeeps ==
  ASSUME Owed, NEW s \in Servers, _ensure_watchdog(s)
  PROVE  Owed'
<1> DEFINE m == [mem[s] EXCEPT !.handle = TRUE]
           w == [phase |-> "armed", row |-> mine[s]]
<1>1. /\ pc[s] \in {"bt_cut", "hs_cut"} /\ ~ mem[s].handle /\ watchdog.phase = "none"
      /\ watchdog' = w /\ mem' = [mem EXCEPT ![s] = m]
      /\ UNCHANGED <<rows, pc, mine, radio, rearm, logger, capsules, awake, reports, home,
                     spent>>
  BY DEF _ensure_watchdog
<1>2. /\ mine[s] \in DOMAIN rows /\ Process(s) /\ TypeOK /\ UnitKnown /\ Table
      /\ mem[s] \in Memory /\ pc[s] \in Labels /\ pc = [pc EXCEPT ![s] = pc[s]]
      /\ mine[s] \in Nat /\ pc[s] # "idle"
  BY <1>1, AloneFacts DEF Owed, Structure, TypeOK, Labels
<1>3. m \in Memory /\ m.handle /\ m.ok = mem[s].ok /\ m.untracked = mem[s].untracked
  BY <1>2, Arms
<1>4. w.phase = "armed" /\ w.row = mine[s]
  OBVIOUS
<1>5. w \in [phase: {"none", "armed", "claimed", "enabled", "restored", "posted"}, row: Nat]
  BY <1>2
<1> HIDE DEF m, w
<1>6. mem' \in [Servers -> Memory] /\ mem'[s] = m
  BY <1>1, <1>2, <1>3 DEF TypeOK
<1>7. TypeOK'
  BY <1>1, <1>2, <1>4, <1>5, <1>6 DEF TypeOK
<1>8. /\ rows[mine[s]].attempted # {} /\ rows[mine[s]].active /\ ~ rows[mine[s]].evidence
      /\ ~ ReportOf(mine[s])
  BY <1>1, <1>2 DEF Process, Cutting
<1>9. Table' /\ UnitKnown'
  BY <1>1, <1>2, <1>4, <1>8 DEF Table, UnitKnown, Baselined, ReportOf, CapsuleTracked
<1>10. Process(s)'
  BY <1>1, <1>2, <1>3, <1>6 DEF Process, Baselined, ReportOf, Early, Cutting
<1>11. CommandsWork' => CommandsWork /\ Places' /\ Returns(s)'
  BY <1>1, <1>4 DEF Owed, Places, Baselined, ReportOf, Recovered, CommandsWork, Returns,
     BluetoothHome, AtHome, Restless
<1>12. pc' = [pc EXCEPT ![s] = pc[s]]
  BY <1>1, <1>2
<1>13. QED
  BY <1>2, <1>7, <1>9, <1>10, <1>11, <1>12, ProcessKeeps

\* A radio is stopped under a watchdog that is armed for a row naming that radio.
LEMMA CutKeeps ==
  ASSUME Owed, NEW s \in Servers, NEW r \in Radios,
         NEW label \in {"hs_intent", "checking", "failing"},
         pc[s] \in {"bt_cut", "hs_cut"}, Guarded(s), r \in rows[mine[s]].attempted,
         Goto(s, label), radio' = [radio EXCEPT ![r] = "off"],
         UNCHANGED spent \/ Spend("refuse"),
         UNCHANGED <<rows, mine, mem, rearm, watchdog, logger, capsules, awake, reports,
                     home>>
  PROVE  Owed'
<1> DEFINE i == mine[s]
<1>1. /\ i \in DOMAIN rows /\ Process(s) /\ TypeOK /\ UnitKnown /\ Table
      /\ label \in Labels /\ pc[s] # "idle"
      /\ \A k \in DOMAIN rows : rows[k].active => k = i
  BY AloneFacts DEF Owed, Structure, Labels, Forward
<1>2. /\ spent' \in [Events -> Nat] /\ (CommandsWork' => CommandsWork)
  BY <1>1, SpentGrows DEF Events
<1>3. /\ pc' = [pc EXCEPT ![s] = label] /\ pc'[s] = label /\ pc' \in [Servers -> Labels]
      /\ \A t \in Servers : t # s => pc'[t] = pc[t]
  BY <1>1, GoesTo
<1>4. /\ watchdog.phase = "armed" /\ watchdog.row = i /\ mem[s].handle
      /\ rows[i].active /\ ~ rows[i].evidence /\ ~ ReportOf(i)
  BY <1>1 DEF Guarded, UnitKnown
<1>5. TypeOK'
  <2>1. radio' \in [Radios -> RadioState]
    BY <1>1 DEF TypeOK, RadioState
  <2>2. QED
    BY <1>1, <1>2, <1>3, <2>1, AloneFacts DEF TypeOK, Labels
<1>6. Table' /\ UnitKnown'
  BY <1>1 DEF Table, UnitKnown, Baselined, ReportOf, CapsuleTracked
<1>7. Process(s)'
  BY <1>1, <1>3, <1>4 DEF Process, Table, Baselined, ReportOf, Early, Cutting
<1>8. ASSUME CommandsWork'
      PROVE  Places' /\ Returns(s)'
  <2>1. Places /\ rows[i].before = home /\ rows[i].before[r] = "on"
    BY <1>1, <1>2, <1>8 DEF Owed, Places, Table
  <2>2. /\ radio'[r] = "off" /\ \A q \in Radios : q # r => radio'[q] = radio[q]
    BY <1>1 DEF TypeOK
  <2>3. rows[i].attempted # {} /\ rows[i].active /\ ~ Recovered(i)
    BY <1>4 DEF Recovered
  <2>4. \A k \in DOMAIN rows : rows[k].active => ~ Recovered(k)
    BY <1>1, <2>3
  <2>5. /\ home["hotspot"] = "transport" => r = "bluetooth"
        /\ ~ BluetoothHome' => ~ BluetoothHome \/ r = "bluetooth"
    BY <2>1, <2>2 DEF Radios, BluetoothHome
  <2>6. ~ BluetoothHome' \/ Restless' =>
          \E k \in DOMAIN rows : rows[k].active /\ "bluetooth" \in rows[k].attempted
    BY <1>1, <2>1, <2>3, <2>5 DEF Places, Restless
  <2>7. home["hotspot"] = "transport" => radio'["hotspot"] = "transport"
    BY <2>1, <2>2, <2>5 DEF Places, Radios
  <2>8. Places'
    BY <1>1, <1>4, <2>1, <2>3, <2>4, <2>6, <2>7 DEF Places, Baselined, ReportOf, Recovered
  <2>9. QED
    BY <1>3, <2>8 DEF Returns
<1>9. QED
  BY <1>1, <1>2, <1>3, <1>5, <1>6, <1>7, <1>8, ProcessKeeps

\* Every step towards quiet radios.
LEMMA ForwardKeeps ==
  ASSUME Owed, NEW s \in Servers, ForwardStep(s)
  PROVE  Owed'
<1>1. CASE prepare_logger(s)
  BY <1>1, PrepareKeeps
<1>2. CASE request_quiesce(s)
  BY <1>2, QuiesceKeeps
<1>3. CASE mark_obd_transfer_complete(s)
  BY <1>3, ExportedKeeps
<1>4. CASE capture(s)
  BY <1>4, CaptureKeeps
<1>5. CASE CommitBaseline(s)
  BY <1>5, CommitKeeps
<1>6. CASE BaselineLost(s)
  BY <1>6, BaselineLostKeeps
<1>7. CASE BluetoothIntent(s)
  <2>1. CASE Mine(s).before["bluetooth"] = "on"
    BY <1>7, <2>1, IntentKeeps DEF BluetoothIntent, Radios
  <2>2. CASE Mine(s).before["bluetooth"] # "on"
    BY <1>7, <2>2, SkipKeeps DEF BluetoothIntent, Cutting
  <2>3. QED
    BY <2>1, <2>2
<1>8. CASE _ensure_watchdog(s)
  BY <1>8, WatchdogKeeps
<1>9. CASE disable_bluetooth(s)
  <2>1. pc[s] = "bt_cut" /\ Process(s)
    BY <1>9, AloneFacts DEF disable_bluetooth
  <2>2. "bluetooth" \in rows[mine[s]].attempted
    BY <2>1 DEF Process
  <2>3. QED
    BY <1>9, <2>2, CutKeeps DEF disable_bluetooth, Radios
<1>10. CASE HotspotIntent(s)
  <2>1. CASE Mine(s).before["hotspot"] = "on"
    BY <1>10, <2>1, IntentKeeps DEF HotspotIntent, Radios
  <2>2. CASE Mine(s).before["hotspot"] # "on"
    BY <1>10, <2>2, SkipKeeps DEF HotspotIntent, Cutting
  <2>3. QED
    BY <2>1, <2>2
<1>11. CASE disable_hotspot(s)
  <2>1. pc[s] = "hs_cut" /\ Process(s)
    BY <1>11, AloneFacts DEF disable_hotspot
  <2>2. "hotspot" \in rows[mine[s]].attempted
    BY <2>1 DEF Process
  <2>3. QED
    BY <1>11, <2>2, CutKeeps DEF disable_hotspot, Radios
<1>12. CASE quiet_state_verified(s)
  BY <1>12, SkipKeeps DEF quiet_state_verified, Cutting
<1>13. QED
  BY <1>1, <1>2, <1>3, <1>4, <1>5, <1>6, <1>7, <1>8, <1>9, <1>10, <1>11, <1>12
     DEF ForwardStep

-----------------------------------------------------------------------------
(* Back to the baseline.                                                   *)

\* A process that lets go of the fence leaves every debt where it is.
LEMMA LetsGo ==
  ASSUME Owed, NEW s \in Servers, NEW event \in Events, pc[s] # "idle", Close(s),
         rows' \in Seq(Row), RowsAlike, UNCHANGED spent \/ Spend(event),
         UNCHANGED <<mine, mem, radio, rearm, watchdog, logger, capsules, awake, reports,
                     home>>
  PROVE  Owed'
<1>1. /\ TypeOK /\ Goto(s, "idle") /\ "idle" \in Labels
      /\ mem' \in [Servers -> Memory]
  BY DEF Owed, Structure, TypeOK, Close, Labels
<1>2. pc'[s] = "idle"
  BY <1>1, GoesTo
<1>3. spent' \in [Events -> Nat] /\ (CommandsWork' => CommandsWork)
  BY <1>1, SpentGrows
<1>4. Process(s)' /\ Returns(s)'
  BY <1>2 DEF Process, Returns, Early, Cutting
<1>5. QED
  BY <1>1, <1>3, <1>4, AlikeStep

\* A restore begins with the row, or ends without it.
LEMMA RestoreKeeps ==
  ASSUME Owed, NEW s \in Servers, restore(s)
  PROVE  Owed'
<1> DEFINE row == [rows[mine[s]] EXCEPT !.fresh = TRUE]
<1>1. /\ pc[s] \in Forward \ {"captured"} /\ pc[s] # "idle"
      /\ UNCHANGED <<mine, mem, radio, rearm, watchdog, logger, capsules, awake, reports,
                     home, spent>>
  BY DEF restore, unit, Forward
<1>2. TypeOK /\ rows[mine[s]] \in Row /\ Process(s) /\ mine[s] \in DOMAIN rows
  BY <1>1, AloneFacts DEF Owed, Structure
<1>3. row \in Row /\ Alike(row, rows[mine[s]])
  BY <1>2, Renews
<1>4. CASE Owns(s)
  <2>1. Put(s, row) /\ Goto(s, "restore_bluetooth") /\ "restore_bluetooth" \in Labels
    BY <1>4 DEF restore, Mine, Labels, Restoring
  <2> HIDE DEF row
  <2>2. RowsAlike /\ rows' \in Seq(Row)
    BY <1>1, <1>3, <2>1, AlikeRow
  <2>3. pc'[s] = "restore_bluetooth"
    BY <2>1, GoesTo
  <2>4. Process(s)' /\ Returns(s)'
    BY <1>1, <1>2, <2>2, <2>3
       DEF Process, Returns, RowsAlike, Alike, SameHolder, SameTrace, Early, Cutting, Forward
  <2>5. mem' \in [Servers -> Memory] /\ spent' \in [Events -> Nat]
        /\ (CommandsWork' => CommandsWork)
    BY <1>1, <1>2 DEF TypeOK, CommandsWork
  <2>6. QED
    BY <1>1, <2>1, <2>2, <2>4, <2>5, AlikeStep
<1>5. CASE ~ Owns(s)
  BY <1>1, <1>2, <1>5, LetsGo, SameRows DEF restore, Events
<1>6. QED
  BY <1>4, <1>5

\* Without its row a restore sends no command.
LEMMA LostRowKeeps ==
  ASSUME Owed, NEW s \in Servers, LostRow(s)
  PROVE  Owed'
<1>1. TypeOK /\ pc[s] # "idle"
  BY DEF Owed, Structure, LostRow
<1>2. QED
  BY <1>1, LetsGo, SameRows DEF LostRow, unit, Events

\* A restore command of process s takes no radio further from home than a row to
\* be restored explains.
Kinder(s) ==
  /\ home["hotspot"] = "transport" /\ radio["hotspot"] = "transport"
       => radio'["hotspot"] = "transport"
  /\ BluetoothHome => BluetoothHome'
  /\ Restless' => \/ Restless
                  \/ rows[mine[s]].active /\ "bluetooth" \in rows[mine[s]].attempted
  /\ radio' # home => radio # home
  /\ AtHome => AtHome'

\* A kind command keeps what is known of the radios.
LEMMA KinderKeepsPlaces ==
  ASSUME Owed, NEW s \in Servers, pc[s] # "idle", Places, RowsAlike, Kinder(s),
         UNCHANGED <<mine, watchdog, capsules, reports, home>>
  PROVE  Places'
<1>1. mine[s] \in DOMAIN rows
  BY AloneFacts
<1>2. \A i \in DOMAIN rows : Recovered(i)' => Recovered(i)
  BY DEF RowsAlike, Alike, SameTrace, Recovered, ReportOf
<1>3. ~ BluetoothHome' \/ Restless' =>
        \E i \in DOMAIN rows : rows[i].active /\ "bluetooth" \in rows[i].attempted
  BY <1>1 DEF Places, Kinder
<1>4. \A i \in DOMAIN rows : rows'[i].active /\ Recovered(i)' => AtHome'
  BY <1>2 DEF Places, Kinder, RowsAlike, Alike, SameHolder
<1>5. QED
  BY <1>3, <1>4 DEF Places, Kinder, RowsAlike, Alike, SameHolder, SameBaseline, SameTrace,
     Baselined

\* The memory of a process after a restore command.
Learnt(m, ok, settle) == [m EXCEPT !.ok = @ /\ ok, !.settle = settle]

\* The checkpoint after a restore command: a process that goes on believing in its
\* radios may believe in them.
LEMMA VerifyKeeps ==
  ASSUME Owed, NEW s \in Servers, NEW r \in Radios, NEW ok \in BOOLEAN,
         NEW settle \in BOOLEAN, NEW next \in {"restore_hotspot", "stand_down"},
         pc[s] \in {"restore_bluetooth", "restore_hotspot"},
         Verify(s, r, ok, settle, next),
         radio' \in [Radios -> RadioState], rearm' \in BOOLEAN,
         spent' \in [Events -> Nat], CommandsWork' => CommandsWork /\ Kinder(s),
         CommandsWork' /\ Owns(s) /\ mem[s].ok /\ ok =>
           IF next = "restore_hotspot" THEN BluetoothHome' /\ (Restless' => settle)
                                       ELSE AtHome',
         UNCHANGED <<mine, watchdog, logger, capsules, awake, reports, home>>
  PROVE  Owed'
<1> DEFINE verified == IF ok THEN rows[mine[s]].verified \cup {r}
                             ELSE rows[mine[s]].verified \ {r}
           row == [rows[mine[s]] EXCEPT !.fresh = TRUE, !.verified = verified]
           m == Learnt(mem[s], ok, settle)
<1>1. /\ TypeOK /\ rows[mine[s]] \in Row /\ Process(s) /\ mine[s] \in DOMAIN rows
      /\ mem[s] \in Memory /\ pc[s] # "idle" /\ next \in Labels
  BY AloneFacts DEF Owed, Structure, Labels, Restoring
<1>2. verified \in SUBSET Radios
  BY <1>1 DEF Row
<1> HIDE DEF verified
<1>3. row \in Row /\ Alike(row, rows[mine[s]])
  BY <1>1, <1>2, Verifies
<1>4. m \in Memory /\ m.untracked = mem[s].untracked /\ (m.ok => mem[s].ok /\ ok)
      /\ m.settle = settle
  <2>1. \A old \in Memory :
          LET new == Learnt(old, ok, settle) IN
          /\ new \in Memory /\ new.untracked = old.untracked
          /\ (new.ok => old.ok /\ ok) /\ new.settle = settle
    BY DEF Learnt, Memory
  <2>2. QED
    BY <1>1, <2>1
<1>5. \/ Owns(s) /\ Put(s, row) /\ mem' = [mem EXCEPT ![s] = m] /\ Goto(s, next)
      \/ Goto(s, "idle") /\ UNCHANGED <<rows, mem>>
  BY DEF Verify, Mine, Close, verified, Learnt
<1> HIDE DEF row, m
<1>6. RowsAlike /\ rows' \in Seq(Row)
  BY <1>1, <1>3, <1>5, AlikeRow, SameRows
<1>7. PICK label \in {next, "idle"} :
        /\ Goto(s, label)
        /\ \/ Owns(s) /\ mem' = [mem EXCEPT ![s] = m]
           \/ label = "idle" /\ UNCHANGED mem
  BY <1>5
<1>8. /\ label \in Labels /\ pc' = [pc EXCEPT ![s] = label] /\ pc'[s] = label
      /\ pc' \in [Servers -> Labels] /\ \A t \in Servers : t # s => pc'[t] = pc[t]
  BY <1>1, <1>7, GoesTo DEF Labels
<1>9. /\ mem' \in [Servers -> Memory] /\ mem'[s].untracked = mem[s].untracked
      /\ label = "idle" \/ (Owns(s) /\ mem'[s] = m)
  BY <1>1, <1>4, <1>7 DEF TypeOK
<1>10. TypeOK'
  <2>1. DOMAIN rows' = DOMAIN rows
    BY <1>6 DEF RowsAlike
  <2>2. \A t \in Servers : pc'[t] # "idle" => pc[t] # "idle"
    BY <1>1, <1>8
  <2>3. QED
    BY <1>1, <1>6, <1>8, <1>9, <2>1, <2>2 DEF TypeOK, Labels
<1>11. Table' /\ UnitKnown'
  BY <1>1, <1>6, AlikeKeepsTable, AlikeKeepsUnit DEF Owed, Structure
<1>12. Process(s)'
  BY <1>1, <1>6, <1>8, <1>9 DEF Process, RowsAlike, Alike, SameHolder, SameTrace, Early, Cutting
<1>13. CommandsWork' => Places'
  BY <1>1, <1>6, KinderKeepsPlaces DEF Owed
<1>14. CommandsWork' => Returns(s)'
  BY <1>4, <1>8, <1>9 DEF Returns
<1>15. QED
  BY <1>1, <1>8, <1>10, <1>11, <1>12, <1>13, <1>14, ProcessKeeps

\* Bluetooth is turned on for a row whose baseline has it on.
LEMMA EnablingIsKind ==
  ASSUME Owed, CommandsWork, NEW s \in Servers, pc[s] # "idle",
         "bluetooth" \in rows[mine[s]].attempted, EnableBluetooth, UNCHANGED home
  PROVE  Kinder(s) /\ BluetoothHome'
<1>1. /\ TypeOK /\ Table /\ Places /\ mine[s] \in DOMAIN rows
      /\ \A i \in DOMAIN rows : rows[i].active => i = mine[s]
  BY AloneFacts DEF Owed, Structure
<1>2. home["bluetooth"] = "on"
  BY <1>1 DEF Table, Places
<1>3. /\ radio'["bluetooth"] = "on" /\ radio'["hotspot"] = radio["hotspot"]
      /\ DOMAIN radio' = Radios /\ DOMAIN radio = Radios /\ DOMAIN home = Radios
      /\ radio \in [Radios -> RadioState] /\ radio' \in [Radios -> RadioState]
      /\ home \in [Radios -> RadioState]
  BY <1>1 DEF TypeOK, EnableBluetooth, Radios, RadioState
<1>4. BluetoothHome'
  BY <1>2, <1>3 DEF BluetoothHome
<1>5. BluetoothHome => UNCHANGED <<radio, rearm>>
  <2>1. SUFFICES ASSUME BluetoothHome PROVE UNCHANGED <<radio, rearm>>
    OBVIOUS
  <2>2. radio["bluetooth"] = "on"
    BY <1>2, <2>1 DEF BluetoothHome
  <2>3. radio' = radio
    BY <1>3, <2>2 DEF EnableBluetooth
  <2>4. rearm' = rearm
    BY <1>1, <2>2 DEF EnableBluetooth, TypeOK
  <2>5. QED
    BY <2>3, <2>4
<1>6. radio = home => BluetoothHome
  BY DEF BluetoothHome
<1>7. radio' # home => radio # home
  BY <1>5, <1>6
<1>8. AtHome => AtHome'
  BY <1>5, <1>6 DEF AtHome, Restless
<1>9. Restless' => \/ Restless
                   \/ rows[mine[s]].active /\ "bluetooth" \in rows[mine[s]].attempted
  BY <1>1, <1>5 DEF Places, Restless
<1>10. QED
  BY <1>3, <1>4, <1>7, <1>8, <1>9 DEF Kinder

\* A command that leaves the radios alone is kind.
LEMMA LeavingIsKind ==
  ASSUME NEW s \in Servers, UNCHANGED <<radio, rearm, home>>
  PROVE  Kinder(s) /\ (AtHome => AtHome')
BY DEF Kinder, BluetoothHome, Restless, AtHome

\* What the unit has verified of an open row is at home.
LEMMA VerifiedIsHome ==
  ASSUME Owed, CommandsWork, NEW s \in Servers, NEW r \in Radios, pc[s] # "idle",
         Owns(s), UnitVerified(s, r)
  PROVE  AtHome
<1>1. mine[s] \in DOMAIN rows /\ Places
  BY AloneFacts DEF Owed
<1>2. QED
  BY <1>1 DEF Places, Owns, UnitVerified, Recovered, Mine

\* Bluetooth comes back, or the restore knows that it did not.
LEMMA RestoreBluetoothKeeps ==
  ASSUME Owed, NEW s \in Servers, restore_bluetooth(s)
  PROVE  Owed'
<1>1. /\ pc[s] = "restore_bluetooth"
      /\ UNCHANGED <<mine, watchdog, logger, capsules, awake, reports, home>>
  BY DEF restore_bluetooth
<1>2. TypeOK /\ Process(s) /\ mine[s] \in DOMAIN rows /\ rows[mine[s]] \in Row
  BY <1>1, AloneFacts DEF Owed, Structure
<1>3. CASE "bluetooth" \notin Mine(s).attempted
  <2>1. /\ Goto(s, "restore_hotspot") /\ "restore_hotspot" \in Labels
        /\ UNCHANGED <<rows, mem, radio, rearm, spent>>
    BY <1>3 DEF restore_bluetooth, Labels, Restoring
  <2>2. pc'[s] = "restore_hotspot"
    BY <2>1, GoesTo
  <2>3. Process(s)'
    BY <1>1, <1>2, <2>1, <2>2 DEF Process, Early, Cutting
  <2>4. ASSUME CommandsWork'
        PROVE  CommandsWork /\ Returns(s)'
    <3>1. CommandsWork /\ Places
      BY <2>1, <2>4 DEF CommandsWork, Owed
    <3>2. BluetoothHome /\ ~ Restless
      BY <1>1, <1>3, <3>1, AloneFacts DEF Places, Mine
    <3>3. QED
      BY <1>1, <2>1, <2>2, <3>1, <3>2 DEF Returns, BluetoothHome, Restless
  <2>5. mem' \in [Servers -> Memory] /\ spent' \in [Events -> Nat]
    BY <1>2, <2>1 DEF TypeOK
  <2>6. QED
    BY <1>1, <1>2, <2>1, <2>3, <2>4, <2>5, SameRows, AlikeStep
<1>4. CASE "bluetooth" \in Mine(s).attempted
  <2>1. "bluetooth" \in rows[mine[s]].attempted
    BY <1>4 DEF Mine
  <2>2. PICK ok \in BOOLEAN, settle \in BOOLEAN :
          /\ Verify(s, "bluetooth", ok, settle, "restore_hotspot")
          /\ \/ EnableBluetooth /\ settle
             \/ ok = UnitVerified(s, "bluetooth")
                /\ (EnableBluetooth \/ UNCHANGED <<radio, rearm>>)
          /\ UNCHANGED spent \/ Spend("refuse")
    <3>1. UnitVerified(s, "bluetooth") \in BOOLEAN
      BY <1>2 DEF UnitVerified, Mine, Row
    <3>2. QED
      BY <1>4, <3>1 DEF restore_bluetooth
  <2>3. spent' \in [Events -> Nat] /\ (CommandsWork' => CommandsWork)
    BY <1>2, <2>2, SpentGrows DEF Events
  <2>4. radio' \in [Radios -> RadioState] /\ rearm' \in BOOLEAN
    BY <1>2, <2>2 DEF TypeOK, EnableBluetooth, RadioState
  <2>5. CommandsWork' => Kinder(s)
    BY <1>1, <2>1, <2>2, <2>3, EnablingIsKind, LeavingIsKind
  <2>6. ASSUME CommandsWork', Owns(s), mem[s].ok, ok
        PROVE  BluetoothHome' /\ (Restless' => settle)
    <3>1. CASE EnableBluetooth /\ settle
      BY <1>1, <2>1, <2>3, <2>6, <3>1, EnablingIsKind
    <3>2. CASE ok = UnitVerified(s, "bluetooth")
      <4>1. AtHome
        BY <1>1, <2>3, <2>6, <3>2, VerifiedIsHome DEF Radios
      <4>2. AtHome'
        BY <2>3, <2>5, <2>6, <4>1 DEF Kinder
      <4>3. QED
        BY <4>2 DEF AtHome, BluetoothHome
    <3>3. QED
      BY <2>2, <3>1, <3>2
  <2>7. QED
    BY <1>1, <2>2, <2>3, <2>4, <2>5, <2>6, VerifyKeeps DEF Radios
<1>5. QED
  BY <1>3, <1>4

\* The hotspot of the baseline comes back, or the restore knows that it did not.
LEMMA RestoreHotspotKeeps ==
  ASSUME Owed, NEW s \in Servers, restore_hotspot(s)
  PROVE  Owed'
<1> DEFINE before == rows[mine[s]].before["hotspot"]
           verified == UnitVerified(s, "hotspot")
           settled == mem[s].settle
<1>1. /\ pc[s] = "restore_hotspot"
      /\ UNCHANGED <<mine, watchdog, logger, capsules, awake, reports, home>>
  BY DEF restore_hotspot
<1>2. /\ TypeOK /\ Table /\ Process(s) /\ mine[s] \in DOMAIN rows /\ rows[mine[s]] \in Row
      /\ mem[s] \in Memory
  BY <1>1, AloneFacts DEF Owed, Structure
<1>3. CASE ~ HotspotDue(Mine(s))
  <2>1. /\ Goto(s, "stand_down") /\ "stand_down" \in Labels
        /\ UNCHANGED <<rows, mem, radio, rearm, spent>>
        /\ rows[mine[s]].attempted = {}
    BY <1>3 DEF restore_hotspot, Labels, Restoring, HotspotDue, Mine
  <2>2. pc'[s] = "stand_down"
    BY <2>1, GoesTo
  <2>3. Process(s)'
    BY <1>1, <1>2, <2>1, <2>2 DEF Process, Early, Cutting
  <2>4. ASSUME CommandsWork'
        PROVE  CommandsWork /\ Returns(s)'
    <3>1. CommandsWork
      BY <2>1, <2>4 DEF CommandsWork
    <3>2. AtHome
      BY <1>1, <2>1, <3>1, UntouchedHome
    <3>3. QED
      BY <1>1, <2>1, <2>2, <3>1, <3>2 DEF Returns, AtHome, Restless
  <2>5. mem' \in [Servers -> Memory] /\ spent' \in [Events -> Nat]
    BY <1>2, <2>1 DEF TypeOK
  <2>6. QED
    BY <1>1, <1>2, <2>1, <2>3, <2>4, <2>5, SameRows, AlikeStep
<1>4. CASE HotspotDue(Mine(s))
  <2>1. rows[mine[s]].attempted # {} /\ Baselined(mine[s]) /\ before \in RadioState
    BY <1>2, <1>4 DEF HotspotDue, Mine, Table, Baselined, Row, Radios
  <2>2. verified \in BOOLEAN /\ settled \in BOOLEAN
    BY <1>2 DEF UnitVerified, Mine, Row, Memory
  <2>3. PICK ok \in BOOLEAN :
          /\ Verify(s, "hotspot", ok, settled, "stand_down")
          /\ \/ before = "transport" /\ UNCHANGED <<radio, rearm, spent>>
             \/ /\ before # "transport" /\ radio' = [radio EXCEPT !["hotspot"] = before]
                /\ rearm' = (rearm /\ ~ settled) /\ UNCHANGED spent
             \/ /\ ok = verified /\ UNCHANGED <<radio, rearm>>
                /\ UNCHANGED spent \/ Spend("refuse")
             \/ /\ Spend("halt") /\ radio' = [radio EXCEPT !["hotspot"] = "off"]
                /\ UNCHANGED rearm
    BY <1>4, <2>2 DEF restore_hotspot, Mine
  <2> HIDE DEF before, verified, settled
  <2>4. spent' \in [Events -> Nat] /\ (CommandsWork' => CommandsWork)
        /\ (Spend("halt") => ~ CommandsWork')
    BY <1>2, <2>3, SpentGrows DEF Events
  <2>5. radio' \in [Radios -> RadioState] /\ rearm' \in BOOLEAN
    <3>1. "off" \in RadioState /\ radio \in [Radios -> RadioState] /\ rearm \in BOOLEAN
      BY <1>2 DEF TypeOK, RadioState
    <3>2. QED
      BY <2>1, <2>2, <2>3, <3>1
  <2>6. ASSUME CommandsWork'
        PROVE  Kinder(s) /\ (Owns(s) /\ mem[s].ok /\ ok => AtHome')
    <3>1. /\ CommandsWork /\ before = home["hotspot"] /\ Places /\ Returns(s)
          /\ home \in [Radios -> RadioState] /\ radio \in [Radios -> RadioState]
      BY <1>1, <1>2, <2>1, <2>4, <2>6, AloneFacts DEF Owed, Places, before, TypeOK
    <3>2. CASE before = "transport" /\ UNCHANGED <<radio, rearm>>
      <4>1. radio["hotspot"] = home["hotspot"] /\ (mem[s].ok => BluetoothHome)
        BY <1>1, <3>1, <3>2 DEF Places, Returns
      <4>2. BluetoothHome => radio = home
        BY <3>1, <4>1 DEF BluetoothHome, Radios
      <4>3. QED
        BY <1>1, <3>1, <3>2, <4>1, <4>2, LeavingIsKind DEF AtHome, Restless
    <3>3. CASE /\ before # "transport" /\ radio' = [radio EXCEPT !["hotspot"] = before]
               /\ rearm' = (rearm /\ ~ settled)
      <4>1. radio'["hotspot"] = home["hotspot"] /\ radio'["bluetooth"] = radio["bluetooth"]
            /\ home' = home
        BY <1>1, <3>1, <3>3 DEF Radios
      <4>2. BluetoothHome <=> BluetoothHome'
        BY <4>1 DEF BluetoothHome
      <4>3. BluetoothHome => radio' = home
        BY <2>5, <3>1, <4>1 DEF BluetoothHome, Radios
      <4>4. Restless' => Restless /\ ~ settled
        BY <3>3, <4>1 DEF Restless
      <4>5. radio = home => BluetoothHome
        BY DEF BluetoothHome
      <4>6. Kinder(s)
        BY <3>1, <3>3, <4>1, <4>2, <4>3, <4>4, <4>5 DEF Kinder, AtHome
      <4>7. mem[s].ok => AtHome'
        BY <1>1, <3>1, <4>1, <4>3, <4>4 DEF Returns, AtHome, settled
      <4>8. QED
        BY <4>6, <4>7
    <3>4. CASE ok = verified /\ UNCHANGED <<radio, rearm>>
      BY <1>1, <3>1, <3>4, LeavingIsKind, VerifiedIsHome DEF Radios, verified
    <3>5. QED
      BY <2>3, <2>4, <2>6, <3>2, <3>3, <3>4
  <2>7. QED
    BY <1>1, <2>2, <2>3, <2>4, <2>5, <2>6, VerifyKeeps DEF Radios
<1>5. QED
  BY <1>3, <1>4

\* The watchdog is stood down when it has nothing left to restore.
LEMMA StandDownKeeps ==
  ASSUME Owed, NEW s \in Servers, stand_down_watchdog(s)
  PROVE  Owed'
<1> DEFINE m == [mem[s] EXCEPT !.ok = FALSE]
           due == mem[s].ok /\ rows[mine[s]].attempted # {}
<1>1. /\ pc[s] = "stand_down" /\ Goto(s, "resume") /\ "resume" \in Labels
      /\ UNCHANGED <<rows, mine, radio, rearm, logger, capsules, awake, reports, home>>
      /\ UNCHANGED spent \/ Spend("refuse")
      /\ \/ ~ due /\ UNCHANGED <<mem, watchdog>>
         \/ watchdog' = NoWatchdog /\ UNCHANGED mem
         \/ mem' = [mem EXCEPT ![s] = m] /\ UNCHANGED watchdog
  BY DEF stand_down_watchdog, Mine, Labels, Restoring
<1>2. /\ TypeOK /\ Table /\ UnitKnown /\ Process(s) /\ mine[s] \in DOMAIN rows
      /\ mem[s] \in Memory
  BY <1>1, AloneFacts DEF Owed, Structure
<1>3. m \in Memory /\ ~ m.ok /\ m.untracked = mem[s].untracked
  BY <1>2, Doubts
<1> HIDE DEF m
<1>4. /\ pc' = [pc EXCEPT ![s] = "resume"] /\ pc'[s] = "resume" /\ pc' \in [Servers -> Labels]
      /\ \A t \in Servers : t # s => pc'[t] = pc[t]
  BY <1>1, GoesTo
<1>5. /\ mem' \in [Servers -> Memory] /\ mem'[s].untracked = mem[s].untracked
      /\ mem'[s].ok => mem[s].ok /\ (watchdog'.phase = "none" \/ rows[mine[s]].attempted = {})
  <2>1. mem \in [Servers -> Memory]
    BY <1>2 DEF TypeOK
  <2>2. CASE ~ due /\ UNCHANGED mem
    BY <2>1, <2>2
  <2>3. CASE watchdog' = NoWatchdog /\ UNCHANGED mem
    BY <2>1, <2>3 DEF NoWatchdog
  <2>4. CASE mem' = [mem EXCEPT ![s] = m]
    BY <1>3, <2>1, <2>4
  <2>5. QED
    BY <1>1, <2>2, <2>3, <2>4
<1>6. /\ watchdog' \in [phase: {"none", "armed", "claimed", "enabled", "restored", "posted"},
                        row: Nat]
      /\ watchdog'.phase = "none" \/ watchdog' = watchdog
  BY <1>1, <1>2 DEF NoWatchdog, TypeOK
<1>7. spent' \in [Events -> Nat] /\ (CommandsWork' => CommandsWork)
  BY <1>1, <1>2, SpentGrows DEF Events
<1>8. TypeOK'
  BY <1>1, <1>2, <1>4, <1>5, <1>6, <1>7, AloneFacts DEF TypeOK, Labels
<1>9. Table' /\ UnitKnown'
  BY <1>1, <1>2, <1>6 DEF Table, UnitKnown, Baselined, ReportOf, CapsuleTracked
<1>10. Process(s)'
  BY <1>1, <1>2, <1>4, <1>5 DEF Process, Early, Cutting
<1>11. CommandsWork' => Places' /\ Returns(s)'
  BY <1>1, <1>4, <1>5, <1>6, <1>7, AloneFacts DEF Owed, Places, Returns, Baselined, ReportOf,
     Recovered, BluetoothHome, AtHome, Restless
<1>12. QED
  BY <1>1, <1>4, <1>7, <1>8, <1>9, <1>10, <1>11, ProcessKeeps

\* The logger of a row runs again, and the row says so.
LEMMA ResumeKeeps ==
  ASSUME Owed, NEW s \in Servers, resume_logger(s)
  PROVE  Owed'
<1> DEFINE i == mine[s]
           m == [mem[s] EXCEPT !.ok = FALSE]
           row == [rows[i] EXCEPT !.resumed = TRUE, !.fresh = TRUE]
<1>1. /\ pc[s] = "resume"
      /\ UNCHANGED <<mine, radio, rearm, watchdog, capsules, awake, reports, home>>
  BY DEF resume_logger
<1>2. /\ TypeOK /\ Table /\ UnitKnown /\ Process(s) /\ i \in DOMAIN rows
      /\ mem[s] \in Memory /\ rows[i] \in Row
  BY <1>1, AloneFacts DEF Owed, Structure
<1>3. m \in Memory /\ ~ m.ok /\ m.untracked = mem[s].untracked
  BY <1>2, Doubts
<1>4. /\ row \in Row /\ SameHolder(row, rows[i]) /\ SameBaseline(row, rows[i])
      /\ SameTrace(row, rows[i]) /\ row.resumed /\ row.logger = rows[i].logger
  BY <1>2, LoggerReturned
<1>5. PICK label \in {"finish", "idle"} :
        /\ Goto(s, label)
        /\ \/ /\ ~ (rows[i].logger /\ mem[s].ok)
              /\ UNCHANGED <<rows, mem, logger, spent>>
           \/ /\ Put(s, row) /\ logger' = "running" /\ UNCHANGED <<mem, spent>>
           \/ /\ label = "idle" /\ logger' = "running" /\ UNCHANGED <<rows, mem, spent>>
           \/ /\ mem' = [mem EXCEPT ![s] = m] /\ UNCHANGED rows
              /\ logger' = "running" \/ UNCHANGED logger
              /\ UNCHANGED spent \/ Spend("refuse")
  BY DEF resume_logger, Mine, Close
<1> HIDE DEF m, row
<1>6. /\ label \in Labels /\ pc' = [pc EXCEPT ![s] = label] /\ pc'[s] = label
      /\ pc' \in [Servers -> Labels] /\ \A t \in Servers : t # s => pc'[t] = pc[t]
  BY <1>5, GoesTo DEF Labels, Restoring
<1>7. spent' \in [Events -> Nat] /\ (CommandsWork' => CommandsWork)
  BY <1>2, <1>5, SpentGrows DEF Events
<1>8. /\ rows' \in Seq(Row) /\ DOMAIN rows' = DOMAIN rows
      /\ \A k \in DOMAIN rows : k # i => rows'[k] = rows[k]
      /\ rows'[i] = row \/ rows'[i] = rows[i]
  BY <1>1, <1>2, <1>4, <1>5, PutMine DEF TypeOK
<1>9. /\ mem' \in [Servers -> Memory] /\ mem'[s].untracked = mem[s].untracked
      /\ mem'[s].ok => mem[s].ok
      /\ mem'[s].ok /\ label = "finish" => ~ rows[i].logger \/ rows'[i] = row
  BY <1>1, <1>2, <1>3, <1>4, <1>5, PutMine DEF TypeOK
<1>10. \A k \in DOMAIN rows : /\ SameHolder(rows'[k], rows[k])
                              /\ SameBaseline(rows'[k], rows[k])
                              /\ SameTrace(rows'[k], rows[k])
                              /\ rows'[k].logger = rows[k].logger
  BY <1>4, <1>8 DEF SameHolder, SameBaseline, SameTrace
<1>11. logger' \in {"running", "held"} /\ (logger' = "held" => logger = "held" /\ UNCHANGED rows)
  BY <1>2, <1>5 DEF TypeOK
<1>12. TypeOK'
  <2>1. \A t \in Servers : pc'[t] # "idle" => pc[t] # "idle"
    BY <1>1, <1>6
  <2>2. QED
    BY <1>1, <1>2, <1>6, <1>7, <1>8, <1>9, <1>11, <2>1 DEF TypeOK, Labels
<1>13. Table'
  BY <1>2, <1>8, <1>10 DEF Table, SameHolder, SameBaseline, Baselined
<1>14. UnitKnown'
  <2>1. /\ \A n \in reports : n.row \in DOMAIN rows
        /\ watchdog.phase # "none" => watchdog.row \in DOMAIN rows
        /\ capsules \subseteq DOMAIN rows
    BY <1>2 DEF TypeOK
  <2>2. QED
    BY <1>1, <1>2, <1>8, <1>10, <1>11, <2>1 DEF UnitKnown, SameHolder, SameBaseline, SameTrace,
       Baselined, ReportOf, CapsuleTracked
<1>15. Process(s)'
  BY <1>1, <1>2, <1>4, <1>6, <1>8, <1>9, <1>10 DEF Process, SameHolder, SameBaseline, SameTrace,
     Early, Cutting
<1>16. CommandsWork' => Places' /\ Returns(s)'
  <2>1. CommandsWork => Places /\ Returns(s)
    BY DEF Owed
  <2>2. Places => Places'
    BY <1>1, <1>8, <1>10 DEF Places, SameHolder, SameBaseline, SameTrace, Baselined, ReportOf,
       Recovered, BluetoothHome, AtHome, Restless
  <2>3. Returns(s) => Returns(s)'
    BY <1>1, <1>6, <1>9 DEF Returns, AtHome, Restless
  <2>4. QED
    BY <1>7, <2>1, <2>2, <2>3
<1>17. QED
  BY <1>1, <1>6, <1>7, <1>12, <1>13, <1>14, <1>15, <1>16, ProcessKeeps

\* The debt is closed with the radios back and the logger running, or expired.
LEMMA FinishKeeps ==
  ASSUME Owed, NEW s \in Servers, _finish_transition(s)
  PROVE  Owed'
<1> DEFINE i == mine[s]
           ref == IF rows[i].ref \/ mem[s].untracked THEN TRUE ELSE FALSE
           failed == [rows[i] EXCEPT !.recovery = TRUE, !.fresh = FALSE]
           row == [rows[i] EXCEPT !.active = FALSE, !.recovery = FALSE, !.ref = ref]
<1>1. /\ pc[s] = "finish"
      /\ UNCHANGED <<mine, mem, radio, rearm, watchdog, logger, capsules, awake, reports,
                     home, spent>>
  BY DEF _finish_transition, unit
<1>2. /\ TypeOK /\ Table /\ UnitKnown /\ Process(s) /\ i \in DOMAIN rows
      /\ mem[s] \in Memory /\ rows[i] \in Row
      /\ \A k \in DOMAIN rows : rows[k].active => k = i
  BY <1>1, AloneFacts DEF Owed, Structure
<1>3. CASE ~ Owns(s)
  BY <1>1, <1>2, <1>3, LetsGo, SameRows DEF _finish_transition, Events
<1>4. CASE Owns(s) /\ ~ mem[s].ok
  <2>1. Put(s, failed) /\ Close(s)
    BY <1>4 DEF _finish_transition, Mine
  <2>2. failed \in Row /\ Alike(failed, rows[i])
    BY <1>2, Fails
  <2> HIDE DEF failed
  <2>3. RowsAlike /\ rows' \in Seq(Row)
    BY <1>1, <2>1, <2>2, AlikeRow
  <2>4. QED
    BY <1>1, <2>1, <2>3, LetsGo DEF Events
<1>5. CASE Owns(s) /\ mem[s].ok
  <2>1. ref = (rows[i].ref \/ mem[s].untracked)
    BY <1>2 DEF Row, Memory
  <2>2. PICK label \in {"cleanup", "idle"} : Goto(s, label)
    BY <1>5 DEF _finish_transition
  <2>3. Put(s, row)
    BY <1>5, <2>1 DEF _finish_transition, Mine
  <2>4. ref \in BOOLEAN /\ (rows[i].ref \/ mem[s].untracked => ref)
    OBVIOUS
  <2> HIDE DEF ref
  <2>5. /\ row \in Row /\ SameLogger(row, rows[i]) /\ SameBaseline(row, rows[i])
        /\ ~ row.active /\ row.owner = rows[i].owner
        /\ row.evidence = rows[i].evidence /\ row.ref = ref
    <3>1. \A old \in Row, r \in BOOLEAN :
            LET new == [old EXCEPT !.active = FALSE, !.recovery = FALSE, !.ref = r] IN
            /\ new \in Row /\ SameLogger(new, old) /\ SameBaseline(new, old)
            /\ ~ new.active /\ new.owner = old.owner
            /\ new.evidence = old.evidence /\ new.ref = r
      BY DEF Row, SameLogger, SameBaseline
    <3>2. QED
      BY <1>2, <2>4, <3>1
  <2> HIDE DEF row
  <2>6. /\ rows' \in Seq(Row) /\ DOMAIN rows' = DOMAIN rows /\ rows'[i] = row
        /\ \A k \in DOMAIN rows : k # i => rows'[k] = rows[k]
    BY <1>1, <2>3, <2>5, PutMine
  <2>7. /\ label \in Labels /\ pc' = [pc EXCEPT ![s] = label] /\ pc'[s] = label
        /\ pc' \in [Servers -> Labels] /\ \A t \in Servers : t # s => pc'[t] = pc[t]
    BY <2>2, GoesTo DEF Labels
  <2>8. TypeOK'
    <3>1. \A t \in Servers : pc'[t] # "idle" => pc[t] # "idle"
      BY <1>1, <2>7
    <3>2. QED
      BY <1>1, <1>2, <2>6, <2>7, <3>1 DEF TypeOK, Labels
  <2>9. /\ \A k \in DOMAIN rows : ~ rows'[k].active
        /\ \A k \in DOMAIN rows : SameBaseline(rows'[k], rows[k])
        /\ \A k \in DOMAIN rows : rows'[k].evidence = rows[k].evidence
    BY <1>2, <2>5, <2>6 DEF SameBaseline
  <2>10. Table'
    BY <1>2, <2>6, <2>9 DEF Table, SameBaseline, Baselined
  <2>11. /\ watchdog.phase = "none" \/ rows[i].attempted = {}
         /\ rows[i].logger => rows[i].resumed
         /\ i \in capsules => rows[i].ref \/ mem[s].untracked
    BY <1>1, <1>2, <1>5 DEF Process
  <2>12. watchdog.phase \notin {"armed", "claimed", "enabled", "restored"}
    <3>1. watchdog.phase # "none" => watchdog.row \in DOMAIN rows
      BY <1>2 DEF TypeOK
    <3>2. QED
      BY <1>2, <2>11, <3>1 DEF UnitKnown
  <2>13. logger # "held"
    BY <1>2, <2>11 DEF UnitKnown
  <2>14. \A k \in capsules : rows'[k].ref
    <3>1. capsules \subseteq DOMAIN rows
      BY <1>2 DEF TypeOK
    <3>2. QED
      BY <1>2, <2>4, <2>5, <2>6, <2>11, <3>1 DEF UnitKnown, CapsuleTracked
  <2>15. UnitKnown'
    <3>1. /\ \A n \in reports : n.row \in DOMAIN rows
          /\ watchdog.phase # "none" => watchdog.row \in DOMAIN rows
      BY <1>2 DEF TypeOK
    <3>2. QED
      BY <1>1, <1>2, <2>9, <2>12, <2>13, <2>14, <3>1
         DEF UnitKnown, SameBaseline, Baselined, ReportOf, CapsuleTracked
  <2>16. Process(s)'
    BY <1>1, <1>2, <2>5, <2>6, <2>7, <2>9 DEF Process, Early, Cutting
  <2>17. CommandsWork' => CommandsWork /\ Places' /\ Returns(s)'
    <3>1. CommandsWork => Places /\ AtHome
      BY <1>1, <1>5 DEF Owed, Returns
    <3>2. Places /\ AtHome => Places'
      BY <1>1, <2>6, <2>9, <2>12 DEF Places, SameBaseline, Baselined, ReportOf,
         Recovered, BluetoothHome, AtHome, Restless
    <3>3. Returns(s)'
      BY <2>7 DEF Returns
    <3>4. CommandsWork' => CommandsWork
      BY <1>1 DEF CommandsWork
    <3>5. QED
      BY <3>1, <3>2, <3>3, <3>4
  <2>18. QED
    BY <1>1, <2>7, <2>8, <2>10, <2>15, <2>16, <2>17, ProcessKeeps
<1>6. QED
  BY <1>3, <1>4, <1>5

\* A restore that is cut short calls for a recovery.
LEMMA PersistKeeps ==
  ASSUME Owed, NEW s \in Servers, _persist_restore_failure(s)
  PROVE  Owed'
<1> DEFINE failed == [rows[mine[s]] EXCEPT !.recovery = TRUE, !.fresh = FALSE]
<1>1. /\ pc[s] # "idle" /\ Close(s) /\ Spend("cut")
      /\ UNCHANGED <<mine, mem, radio, rearm, watchdog, logger, capsules, awake, reports,
                     home>>
      /\ Put(s, failed) \/ UNCHANGED rows
  BY DEF _persist_restore_failure, unit, Restoring, Mine
<1>2. TypeOK /\ rows[mine[s]] \in Row
  BY <1>1, AloneFacts DEF Owed, Structure
<1>3. failed \in Row /\ Alike(failed, rows[mine[s]])
  BY <1>2, Fails
<1> HIDE DEF failed
<1>4. RowsAlike /\ rows' \in Seq(Row)
  BY <1>1, <1>2, <1>3, AlikeRow, SameRows
<1>5. QED
  BY <1>1, <1>4, LetsGo DEF Events

\* A crash leaves what is on disk and on the unit.
LEMMA CrashKeeps ==
  ASSUME Owed, NEW s \in Servers, Crash(s)
  PROVE  Owed'
<1>1. TypeOK
  BY DEF Owed, Structure
<1>2. QED
  BY <1>1, LetsGo, SameRows DEF Crash, unit, Events

\* What is needed when a closed row forgets its capsule.
LEMMA ForgettingKeeps ==
  ASSUME Owed, NEW i \in DOMAIN rows, ~ rows[i].active,
         rows' = [rows EXCEPT ![i] = [rows[i] EXCEPT !.ref = FALSE]],
         capsules' = capsules \ {i},
         UNCHANGED <<radio, rearm, watchdog, logger, reports, home, spent>>
  PROVE  /\ rows' \in Seq(Row) /\ DOMAIN rows' = DOMAIN rows
         /\ capsules' \subseteq DOMAIN rows
         /\ \A k \in DOMAIN rows : rows'[k].owner = rows[k].owner
                                   /\ (rows'[k].active <=> rows[k].active)
         /\ Table' /\ UnitKnown' /\ (CommandsWork' => CommandsWork /\ Places')
<1> DEFINE row == [rows[i] EXCEPT !.ref = FALSE]
<1>1. /\ TypeOK /\ Table /\ UnitKnown /\ rows \in Seq(Row) /\ rows[i] \in Row
      /\ capsules \subseteq DOMAIN rows
  BY DEF Owed, Structure, TypeOK
<1>2. /\ row \in Row /\ SameHolder(row, rows[i]) /\ SameLogger(row, rows[i])
      /\ SameBaseline(row, rows[i]) /\ row.evidence = rows[i].evidence /\ ~ row.ref
  BY <1>1, Forgets
<1>3. rows' = [rows EXCEPT ![i] = row]
  OBVIOUS
<1> HIDE DEF row
<1>4. /\ rows' \in Seq(Row) /\ DOMAIN rows' = DOMAIN rows /\ rows'[i] = row
      /\ \A k \in DOMAIN rows : k # i => rows'[k] = rows[k]
  BY <1>1, <1>2, <1>3, PutRow
<1>5. \A k \in DOMAIN rows :
        /\ SameHolder(rows'[k], rows[k]) /\ SameLogger(rows'[k], rows[k])
        /\ SameBaseline(rows'[k], rows[k]) /\ rows'[k].evidence = rows[k].evidence
        /\ k # i => rows'[k].ref = rows[k].ref
  BY <1>2, <1>4 DEF SameHolder, SameLogger, SameBaseline
<1>6. Table'
  BY <1>1, <1>4, <1>5 DEF Table, SameHolder, SameBaseline, Baselined
<1>7. /\ \A m \in reports : m.row \in DOMAIN rows
      /\ watchdog.phase # "none" => watchdog.row \in DOMAIN rows
  BY <1>1 DEF TypeOK
<1>8. UnitKnown'
  BY <1>1, <1>4, <1>5, <1>7 DEF UnitKnown, SameHolder, SameLogger, SameBaseline, Baselined,
     ReportOf, CapsuleTracked
<1>9. CommandsWork => Places
  BY DEF Owed
<1>10. CommandsWork' => CommandsWork /\ Places'
  BY <1>4, <1>5, <1>9 DEF Places, SameHolder, SameBaseline, Baselined, ReportOf, Recovered,
     BluetoothHome, AtHome, Restless, CommandsWork
<1>11. QED
  BY <1>1, <1>4, <1>5, <1>6, <1>8, <1>10 DEF SameHolder

\* A capsule goes after its row is closed.
LEMMA CleanupKeeps ==
  ASSUME Owed, NEW s \in Servers, _cleanup_capsule_after_finish(s)
  PROVE  Owed'
<1>1. /\ pc[s] = "cleanup" /\ Close(s) /\ Goto(s, "idle") /\ "idle" \in Labels
      /\ UNCHANGED <<mine, mem, radio, rearm, watchdog, logger, awake, reports, home>>
  BY DEF _cleanup_capsule_after_finish, Close, Labels
<1>2. TypeOK /\ Process(s) /\ mine[s] \in DOMAIN rows
  BY <1>1, AloneFacts DEF Owed, Structure
<1>3. CASE /\ capsules' = capsules \ {mine[s]} /\ UNCHANGED spent
           /\ Put(s, [Mine(s) EXCEPT !.ref = FALSE])
  <2>1. /\ rows' \in Seq(Row) /\ DOMAIN rows' = DOMAIN rows
        /\ capsules' \subseteq DOMAIN rows
        /\ Table' /\ UnitKnown' /\ (CommandsWork' => CommandsWork /\ Places')
    BY <1>1, <1>2, <1>3, ForgettingKeeps DEF Process, Put, Mine
  <2>2. /\ pc' = [pc EXCEPT ![s] = "idle"] /\ pc'[s] = "idle" /\ pc' \in [Servers -> Labels]
        /\ \A t \in Servers : t # s => pc'[t] = pc[t]
    BY <1>1, GoesTo
  <2>3. TypeOK'
    BY <1>1, <1>2, <1>3, <2>1, <2>2 DEF TypeOK, Labels
  <2>4. Process(s)' /\ Returns(s)'
    BY <2>2 DEF Process, Returns, Early, Cutting
  <2>5. QED
    BY <1>1, <2>1, <2>2, <2>3, <2>4, ProcessKeeps
<1>4. CASE UNCHANGED <<capsules, rows>> /\ (UNCHANGED spent \/ Spend("refuse"))
  BY <1>1, <1>2, <1>4, LetsGo, SameRows DEF Events
<1>5. QED
  BY <1>3, <1>4 DEF _cleanup_capsule_after_finish

\* Every step back to the baseline.
LEMMA RestoringKeeps ==
  ASSUME Owed, NEW s \in Servers, RestoreStep(s)
  PROVE  Owed'
BY RestoreKeeps, LostRowKeeps, RestoreBluetoothKeeps, RestoreHotspotKeeps, StandDownKeeps,
   ResumeKeeps, FinishKeeps, CleanupKeeps DEF RestoreStep

-----------------------------------------------------------------------------
(* A process that takes the fence, and whoever needs none.                 *)

\* A process that takes a free fence.
LEMMA TakesFence ==
  ASSUME Owed, NEW s \in Servers, FenceFree, NEW label \in Labels, Goto(s, label),
         TypeOK', Table', UnitKnown', Process(s)',
         CommandsWork' => Places' /\ Returns(s)'
  PROVE  Owed'
<1>1. \A t \in Servers : t # s => pc'[t] = "idle"
  BY GoesTo DEF FenceFree
<1>2. Fenced'
  BY GotoMoves, AloneKeepsFence DEF Owed, Structure, Goto
<1>3. \A t \in Servers : t # s => Process(t)' /\ Returns(t)'
  BY <1>1 DEF Process, Returns, Early, Cutting
<1>4. QED
  BY <1>2, <1>3 DEF Owed, Structure

\* A backup begins with no debt of an earlier one.
LEMMA BeginKeeps ==
  ASSUME Owed, NEW s \in Servers, begin(s)
  PROVE  Owed'
<1> DEFINE row == NewRow(s)
<1>0. PICK n : n = Len(rows) + 1
  OBVIOUS
<1>1. /\ FenceFree /\ Goto(s, "begun") /\ "begun" \in Labels
      /\ rows' = Append(rows, row) /\ mine' = [mine EXCEPT ![s] = n]
      /\ mem' = [mem EXCEPT ![s] = Fresh] /\ Spend("begin")
      /\ \A i \in DOMAIN rows : ~ rows[i].active
      /\ UNCHANGED <<radio, rearm, watchdog, logger, capsules, awake, reports, home>>
  BY <1>0 DEF begin, unit, Pending, Labels, Forward
<1>2. /\ TypeOK /\ Table /\ UnitKnown /\ rows \in Seq(Row)
      /\ mine \in [Servers -> Nat] /\ mem \in [Servers -> Memory]
      /\ \A m \in reports : m.row \in DOMAIN rows
      /\ watchdog.phase # "none" => watchdog.row \in DOMAIN rows
      /\ capsules \subseteq DOMAIN rows
  BY DEF Owed, Structure, TypeOK
<1>3. /\ row \in Row /\ row.owner = s /\ row.active
      /\ row.before["hotspot"] = "unknown" /\ row.attempted = {}
      /\ ~ row.resumed /\ ~ row.evidence
  BY NewRowOwes
<1>4. Fresh \in Memory /\ ~ Fresh.handle
  BY DEF Fresh, Memory
<1> HIDE DEF row
<1>5. /\ rows' \in Seq(Row) /\ DOMAIN rows' = DOMAIN rows \cup {n}
      /\ n \notin DOMAIN rows /\ n \in Nat /\ rows'[n] = row
      /\ \A k \in DOMAIN rows : rows'[k] = rows[k]
  BY <1>0, <1>1, <1>2, <1>3, AddRow
<1>6. /\ pc' = [pc EXCEPT ![s] = "begun"] /\ pc'[s] = "begun" /\ pc' \in [Servers -> Labels]
      /\ \A t \in Servers : t # s => pc'[t] = "idle"
  BY <1>1, GoesTo DEF FenceFree
<1>7. /\ mine' \in [Servers -> Nat] /\ mine'[s] = n
      /\ mem' \in [Servers -> Memory] /\ ~ mem'[s].handle
  BY <1>1, <1>2, <1>4, <1>5
<1>8. spent' \in [Events -> Nat] /\ (CommandsWork' => CommandsWork)
  BY <1>1, <1>2, SpentGrows DEF Events
<1>9. TypeOK'
  BY <1>1, <1>2, <1>5, <1>6, <1>7, <1>8 DEF TypeOK, Labels
<1>10. Table'
  BY <1>1, <1>2, <1>3, <1>5 DEF Table, Baselined
<1>11. UnitKnown'
  BY <1>1, <1>2, <1>5 DEF UnitKnown, Baselined, ReportOf, CapsuleTracked
<1>12. ~ (\E m \in reports : m.row = n) /\ ~ (watchdog.phase # "none" /\ watchdog.row = n)
       /\ n \notin capsules
  BY <1>2, <1>5
<1>13. Process(s)'
  BY <1>1, <1>3, <1>5, <1>6, <1>7, <1>12 DEF Process, Baselined, ReportOf, Early, Cutting
<1>14. CommandsWork' => Places' /\ Returns(s)'
  <2>1. CommandsWork => Places
    BY DEF Owed
  <2>2. ~ Recovered(n)' /\ ~ Baselined(n)'
    BY <1>1, <1>3, <1>5, <1>12 DEF Recovered, ReportOf, Baselined
  <2>3. Places => AtHome
    BY <1>1 DEF Places, AtHome
  <2>4. Places => Places'
    BY <1>1, <1>5, <2>2, <2>3 DEF Places, Baselined, ReportOf, Recovered, BluetoothHome, AtHome,
       Restless
  <2>5. Returns(s)'
    BY <1>6 DEF Returns
  <2>6. QED
    BY <1>8, <2>1, <2>4, <2>5
<1>15. QED
  BY <1>1, <1>9, <1>10, <1>11, <1>13, <1>14, TakesFence

\* An adopted row owes what it owed, and a capsule that nobody recorded.
LEMMA AdoptKeeps ==
  ASSUME Owed, NEW s \in Servers, NEW i \in DOMAIN rows, _adopt_expired(s, i)
  PROVE  Owed'
<1> DEFINE unrecorded == rows[i].before["hotspot"] = "unknown" /\ rows[i].attempted = {}
           ref == IF rows[i].ref \/ unrecorded THEN TRUE ELSE FALSE
           row == [rows[i] EXCEPT !.owner = s, !.fresh = TRUE, !.ref = ref]
<1>1. /\ TypeOK /\ UnitKnown /\ rows \in Seq(Row) /\ rows[i] \in Row
      /\ mine \in [Servers -> Nat] /\ mem \in [Servers -> Memory]
      /\ \A m \in reports : m.row \in DOMAIN rows
      /\ watchdog.phase # "none" => watchdog.row \in DOMAIN rows
      /\ capsules \subseteq DOMAIN rows
      /\ i \in Nat
  BY DEF Owed, Structure, TypeOK
<1>0. Table
  BY DEF Owed, Structure
<1>2. ref = (rows[i].ref \/ unrecorded) /\ ref \in BOOLEAN
      /\ (rows[i].ref \/ unrecorded => ref)
  BY <1>1 DEF Row
<1>3. /\ FenceFree /\ Goto(s, "failing") /\ "failing" \in Labels /\ rows[i].active
      /\ rows' = [rows EXCEPT ![i] = row] /\ mine' = [mine EXCEPT ![s] = i]
      /\ mem' = [mem EXCEPT ![s] = Fresh]
      /\ UNCHANGED <<radio, rearm, watchdog, logger, capsules, awake, reports, home, spent>>
  BY <1>2 DEF _adopt_expired, unit, Labels, Forward
<1> HIDE DEF ref
<1>4. /\ row \in Row /\ SameLogger(row, rows[i]) /\ SameBaseline(row, rows[i])
      /\ row.active = rows[i].active /\ row.owner = s
      /\ row.evidence = rows[i].evidence /\ row.ref = ref
  <2>1. \A old \in Row, r \in BOOLEAN :
          LET new == [old EXCEPT !.owner = s, !.fresh = TRUE, !.ref = r] IN
          /\ new \in Row /\ SameLogger(new, old) /\ SameBaseline(new, old)
          /\ new.active = old.active /\ new.owner = s
          /\ new.evidence = old.evidence /\ new.ref = r
    BY DEF Row, SameLogger, SameBaseline
  <2>2. rows[i] \in Row /\ ref \in BOOLEAN
    BY <1>1, <1>2
  <2>3. QED
    BY <2>1, <2>2
<1> HIDE DEF row
<1>5. /\ rows' \in Seq(Row) /\ DOMAIN rows' = DOMAIN rows /\ rows'[i] = row
      /\ \A k \in DOMAIN rows : k # i => rows'[k] = rows[k]
  BY <1>1, <1>3, <1>4, PutRow
<1>6. /\ pc' = [pc EXCEPT ![s] = "failing"] /\ pc'[s] = "failing"
      /\ pc' \in [Servers -> Labels] /\ \A t \in Servers : t # s => pc'[t] = "idle"
  BY <1>3, GoesTo DEF FenceFree
<1>7. Fresh \in Memory
  BY DEF Fresh, Memory
<1>8. /\ mine' \in [Servers -> Nat] /\ mine'[s] = i /\ mem' \in [Servers -> Memory]
  BY <1>1, <1>3, <1>7
<1>9. TypeOK'
  BY <1>1, <1>3, <1>5, <1>6, <1>8 DEF TypeOK, Labels
<1>10. \A k \in DOMAIN rows : /\ SameLogger(rows'[k], rows[k])
                              /\ SameBaseline(rows'[k], rows[k])
                              /\ rows'[k].active = rows[k].active
                              /\ rows'[k].evidence = rows[k].evidence
  BY <1>4, <1>5 DEF SameLogger, SameBaseline
<1>11. Table'
  BY <1>0, <1>5, <1>10 DEF Table, SameBaseline, Baselined
<1>12. /\ i \in capsules => row.ref
       /\ \A k \in DOMAIN rows : rows[k].ref => rows'[k].ref
  BY <1>1, <1>2, <1>4, <1>5 DEF UnitKnown, CapsuleTracked
<1>13. UnitKnown'
  BY <1>1, <1>3, <1>5, <1>10, <1>12 DEF UnitKnown, SameLogger, SameBaseline, Baselined, ReportOf,
     CapsuleTracked
<1>14. Process(s)'
  BY <1>1, <1>3, <1>4, <1>5, <1>6, <1>8, <1>10, <1>12, <1>0 DEF Process, Table, Early, Cutting
<1>15. CommandsWork' => Places' /\ Returns(s)'
  <2>1. CommandsWork => Places
    BY DEF Owed
  <2>2. Places => Places'
    BY <1>3, <1>5, <1>10, <1>12 DEF Places, SameBaseline, Baselined, ReportOf, Recovered,
       BluetoothHome, AtHome, Restless
  <2>3. Returns(s)'
    BY <1>6 DEF Returns
  <2>4. QED
    BY <1>3, <2>1, <2>2, <2>3 DEF CommandsWork
<1>16. QED
  BY <1>3, <1>9, <1>11, <1>13, <1>14, <1>15, TakesFence

\* A step of no process.
LEMMA UnitSteps ==
  ASSUME Owed, UNCHANGED pc, TypeOK', Table', UnitKnown',
         \A s \in Servers : Process(s)', CommandsWork' => CommandsWork,
         CommandsWork' => Places' /\ \A s \in Servers : Returns(s)'
  PROVE  Owed'
BY DEF Owed, Structure, Fenced, OneController

\* What a process is doing while the fence is free: nothing.
LEMMA FreeFence ==
  ASSUME FenceFree, UNCHANGED pc
  PROVE  \A s \in Servers : Process(s)' /\ Returns(s)'
BY DEF FenceFree, Process, Returns, Early, Cutting

\* The capsule of a closed row is removed when somebody finds it.
LEMMA InactiveKeeps ==
  ASSUME Owed, NEW i \in DOMAIN rows, _cleanup_inactive_capsules(i)
  PROVE  Owed'
<1>1. /\ FenceFree /\ ~ rows[i].active
      /\ rows' = [rows EXCEPT ![i] = [rows[i] EXCEPT !.ref = FALSE]]
      /\ capsules' = capsules \ {i}
      /\ UNCHANGED <<pc, mine, mem, radio, rearm, watchdog, logger, awake, reports, home, spent>>
  BY DEF _cleanup_inactive_capsules, server
<1>2. TypeOK
  BY DEF Owed, Structure
<1>3. /\ rows' \in Seq(Row) /\ DOMAIN rows' = DOMAIN rows
      /\ capsules' \subseteq DOMAIN rows
      /\ Table' /\ UnitKnown' /\ (CommandsWork' => CommandsWork /\ Places')
  BY <1>1, ForgettingKeeps
<1>4. TypeOK'
  BY <1>1, <1>2, <1>3 DEF TypeOK
<1>5. QED
  BY <1>1, <1>3, <1>4, FreeFence, UnitSteps

\* A lease that runs out changes no debt.
LEMMA LeaseKeeps ==
  ASSUME Owed, NEW i \in DOMAIN rows, LeaseExpires(i)
  PROVE  Owed'
<1> DEFINE row == [rows[i] EXCEPT !.fresh = FALSE]
<1>1. /\ rows' = [rows EXCEPT ![i] = row] /\ (UNCHANGED spent \/ Spend("stall"))
      /\ UNCHANGED <<pc, mine, mem, radio, rearm, watchdog, logger, capsules, awake, reports,
                     home>>
  BY DEF LeaseExpires, server, unit
<1>2. TypeOK /\ Table /\ UnitKnown /\ rows \in Seq(Row) /\ rows[i] \in Row
  BY DEF Owed, Structure, TypeOK
<1>3. row \in Row /\ Alike(row, rows[i])
  BY <1>2, Expires
<1> HIDE DEF row
<1>4. rows' \in Seq(Row) /\ RowsAlike
  BY <1>1, <1>2, <1>3, PutRow
     DEF RowsAlike, Alike, SameHolder, SameLogger, SameBaseline, SameTrace
<1>5. spent' \in [Events -> Nat] /\ (CommandsWork' => CommandsWork)
  BY <1>1, <1>2, SpentGrows DEF Events
<1>6. TypeOK'
  BY <1>1, <1>2, <1>4, <1>5 DEF TypeOK, RowsAlike
<1>7. Table' /\ UnitKnown'
  BY <1>1, <1>2, <1>4, AlikeKeepsTable, AlikeKeepsUnit
<1>8. ASSUME NEW s \in Servers
      PROVE  Process(s)' /\ (CommandsWork => Returns(s)')
  <2>1. Process(s) /\ (pc[s] # "idle" => mine[s] \in DOMAIN rows)
        /\ (CommandsWork => Returns(s))
    BY DEF Owed, Structure, TypeOK
  <2>2. CASE pc[s] = "idle"
    BY <1>1, <2>2 DEF Process, Returns, Early, Cutting
  <2>3. CASE pc[s] # "idle"
    <3>1. Alike(rows'[mine[s]], rows[mine[s]]) /\ DOMAIN rows' = DOMAIN rows
          /\ \A k \in DOMAIN rows : rows'[k].active = rows[k].active
      BY <1>4, <2>1, <2>3 DEF RowsAlike, Alike, SameHolder
    <3>2. Process(s)'
      BY <1>1, <2>1, <2>3, <3>1 DEF Process, Alike, SameHolder, SameLogger, SameBaseline, SameTrace,
         Baselined, ReportOf
    <3>3. QED
      BY <1>1, <2>1, <3>2 DEF Returns, BluetoothHome, AtHome, Restless
  <2>4. QED
    BY <2>2, <2>3
<1>9. CommandsWork' => Places'
  BY <1>1, <1>4, <1>5, AlikeKeepsPlaces DEF Owed
<1>10. QED
  BY <1>1, <1>5, <1>6, <1>7, <1>8, <1>9, UnitSteps

-----------------------------------------------------------------------------
(* The head unit.                                                          *)

\* A step that leaves processes and rows alone keeps what a process knows, if the
\* watchdog and the reports speak of no row they did not.
LEMMA ProcessUnmoved ==
  ASSUME Owed, UNCHANGED <<rows, pc, mine, capsules>>,
         \A s \in Servers : /\ mem'[s].handle = mem[s].handle /\ mem'[s].ok = mem[s].ok
                            /\ mem'[s].untracked = mem[s].untracked,
         watchdog'.phase = "none" \/ (watchdog.phase # "none" /\ watchdog'.row = watchdog.row),
         \A i : ReportOf(i)' => ReportOf(i) \/ (watchdog.phase # "none" /\ watchdog.row = i)
  PROVE  \A s \in Servers : Process(s)'
<1> SUFFICES ASSUME NEW s \in Servers PROVE Process(s)'
  OBVIOUS
<1>1. Process(s)
  BY DEF Owed, Structure
<1>2. ReportOf(mine[s])' => ReportOf(mine[s]) \/ (watchdog.phase # "none" /\ watchdog.row = mine[s])
  BY DEF ReportOf
<1>3. QED
  BY <1>1, <1>2 DEF Process, Baselined, Early, Cutting

\* The watchdog owes what its row owes.
LEMMA WatchdogFacts ==
  ASSUME Owed, watchdog.phase # "none"
  PROVE  /\ watchdog.row \in DOMAIN rows /\ watchdog.row \in Nat
         /\ rows[watchdog.row].attempted # {} /\ Baselined(watchdog.row)
         /\ CommandsWork => Places /\ Baseline = home
         /\ watchdog.phase \in {"claimed", "enabled"} => rows[watchdog.row].active
<1>1. TypeOK /\ Table /\ UnitKnown
  BY DEF Owed, Structure
<1>2. watchdog.row \in DOMAIN rows /\ watchdog.row \in Nat
  BY <1>1 DEF TypeOK
<1>3. rows[watchdog.row].attempted # {} /\ Baselined(watchdog.row)
  BY <1>1, <1>2 DEF Table, UnitKnown
<1>4. QED
  BY <1>1, <1>2, <1>3 DEF Owed, Places, Baseline, UnitKnown

\* The watchdog takes over.
LEMMA ClaimsKeeps ==
  ASSUME Owed, WatchdogClaims
  PROVE  Owed'
<1>1. /\ watchdog.phase = "armed" /\ watchdog' = [watchdog EXCEPT !.phase = "claimed"]
      /\ UNCHANGED <<rows, pc, mine, mem, radio, rearm, logger, capsules, awake, reports, home,
                     spent>>
  BY DEF WatchdogClaims, server
<1>2. TypeOK /\ Table /\ UnitKnown
  BY DEF Owed, Structure
<1>3. /\ watchdog' \in [phase: {"none", "armed", "claimed", "enabled", "restored", "posted"},
                        row: Nat]
      /\ watchdog'.phase = "claimed" /\ watchdog'.row = watchdog.row
  BY <1>1, <1>2 DEF TypeOK
<1>4. TypeOK'
  BY <1>1, <1>2, <1>3 DEF TypeOK
<1>5. Table' /\ UnitKnown'
  BY <1>1, <1>2, <1>3 DEF Table, UnitKnown, Baselined, ReportOf, CapsuleTracked
<1>6. \A s \in Servers : Process(s)'
  BY <1>1, <1>3, ProcessUnmoved DEF ReportOf
<1>7. CommandsWork' => CommandsWork /\ Places' /\ \A s \in Servers : Returns(s)'
  BY <1>1, <1>3 DEF Owed, Places, Returns, Baselined, ReportOf, Recovered, BluetoothHome, AtHome,
     Restless, CommandsWork
<1>8. QED
  BY <1>1, <1>4, <1>5, <1>6, <1>7, UnitSteps

\* A radio that comes on by itself, while nothing else changes: what has to be
\* shown of the radios.
LEMMA RadioMoves ==
  ASSUME Owed, UNCHANGED <<rows, pc, mine, mem, logger, capsules, reports, home>>,
         awake' \in BOOLEAN, radio' \in [Radios -> RadioState], rearm' \in BOOLEAN,
         spent' \in [Events -> Nat], CommandsWork' => CommandsWork,
         watchdog' \in [phase: {"none", "armed", "claimed", "enabled", "restored", "posted"},
                        row: Nat],
         (watchdog.phase # "none" /\ watchdog'.row = watchdog.row) \/ UNCHANGED watchdog,
         watchdog.phase \in {"claimed", "enabled"} \/ UNCHANGED watchdog,
         watchdog'.phase \in {"enabled", "restored"} \/ UNCHANGED watchdog,
         CommandsWork' =>
           /\ home["hotspot"] = "transport" => radio'["hotspot"] = radio["hotspot"]
           /\ BluetoothHome => BluetoothHome'
           /\ Restless' => Restless \/ ~ BluetoothHome
           /\ radio' # home => radio # home \/ Restless
           /\ AtHome => AtHome'
           /\ \A s \in Servers : pc[s] = "restore_hotspot" /\ BluetoothHome
                => (Restless' => Restless)
           /\ watchdog'.phase = "enabled" => BluetoothHome'
           /\ watchdog'.phase = "restored" => AtHome'
  PROVE  Owed'
<1>1. TypeOK /\ Table /\ UnitKnown
  BY DEF Owed, Structure
<1>2. TypeOK'
  BY <1>1 DEF TypeOK
<1>3. Table' /\ UnitKnown'
  BY <1>1 DEF Table, UnitKnown, Baselined, ReportOf, CapsuleTracked
<1>4. \A s \in Servers : Process(s)'
  BY ProcessUnmoved DEF ReportOf
<1>5. ASSUME CommandsWork'
      PROVE  Places' /\ \A s \in Servers : Returns(s)'
  <2>1. Places /\ \A s \in Servers : Returns(s)
    BY <1>5 DEF Owed
  <2>2. ~ BluetoothHome' \/ Restless' =>
          \E i \in DOMAIN rows : rows[i].active /\ "bluetooth" \in rows[i].attempted
    BY <1>5, <2>1 DEF Places
  <2>3. radio' # home => \E i \in DOMAIN rows : rows[i].active /\ rows[i].attempted # {}
    BY <1>5, <2>1 DEF Places
  <2>4. ASSUME NEW i \in DOMAIN rows, rows[i].active, Recovered(i)'
        PROVE  AtHome'
    BY <1>5, <2>1, <2>4 DEF Places, Recovered, ReportOf
  <2>5. watchdog'.phase = "enabled" => BluetoothHome'
    BY <1>5
  <2>6. home["hotspot"] = "transport" => radio'["hotspot"] = "transport"
    BY <1>5, <2>1 DEF Places
  <2>7. Places'
    BY <2>1, <2>2, <2>3, <2>4, <2>5, <2>6 DEF Places, Baselined
  <2>8. ASSUME NEW s \in Servers
        PROVE  Returns(s)'
    BY <1>5, <2>1 DEF Returns
  <2>9. QED
    BY <2>7, <2>8
<1>6. QED
  BY <1>2, <1>3, <1>4, <1>5, UnitSteps

\* The watchdog turns Bluetooth on again, if the baseline has it on.
LEMMA EnablesKeeps ==
  ASSUME Owed, WatchdogEnables
  PROVE  Owed'
<1>1. /\ watchdog.phase = "claimed" /\ watchdog' = [watchdog EXCEPT !.phase = "enabled"]
      /\ UNCHANGED <<rows, pc, mine, mem, logger, capsules, awake, reports, home>>
      /\ \/ Baseline["bluetooth"] = "off" /\ UNCHANGED <<radio, rearm, spent>>
         \/ Baseline["bluetooth"] = "on" /\ EnableBluetooth /\ UNCHANGED spent
         \/ Spend("wdfail") /\ UNCHANGED <<radio, rearm>>
  BY DEF WatchdogEnables, server
<1>2. /\ TypeOK /\ Table /\ UnitKnown
      /\ radio \in [Radios -> RadioState] /\ home \in [Radios -> RadioState]
      /\ rearm \in BOOLEAN
  BY DEF Owed, Structure, TypeOK
<1>3. /\ watchdog' \in [phase: {"none", "armed", "claimed", "enabled", "restored", "posted"},
                        row: Nat]
      /\ watchdog'.phase = "enabled" /\ watchdog'.row = watchdog.row
  BY <1>1, <1>2 DEF TypeOK
<1>4. /\ spent' \in [Events -> Nat] /\ (CommandsWork' => CommandsWork)
      /\ Spend("wdfail") => ~ CommandsWork'
  BY <1>1, <1>2, SpentGrows DEF Events
<1>5. radio' \in [Radios -> RadioState] /\ rearm' \in BOOLEAN
  BY <1>1, <1>2 DEF EnableBluetooth, RadioState
<1>6. ASSUME CommandsWork'
      PROVE  /\ radio'["hotspot"] = radio["hotspot"] /\ BluetoothHome'
             /\ BluetoothHome => UNCHANGED <<radio, rearm>>
  <2>1. Places /\ Baseline = home /\ watchdog.row \in DOMAIN rows
        /\ \A i \in DOMAIN rows : rows[i].active => i = watchdog.row
    BY <1>1, <1>2, <1>4, <1>6, WatchdogFacts DEF Table
  <2>2. CASE Baseline["bluetooth"] = "off" /\ UNCHANGED <<radio, rearm>>
    <3>1. ~ BluetoothHome => "bluetooth" \in rows[watchdog.row].attempted
      BY <2>1 DEF Places
    <3>2. "bluetooth" \in rows[watchdog.row].attempted => Baseline["bluetooth"] = "on"
      BY <1>2, <2>1 DEF Table, Baseline
    <3>3. QED
      BY <1>1, <2>2, <3>1, <3>2 DEF BluetoothHome
  <2>3. CASE Baseline["bluetooth"] = "on" /\ EnableBluetooth
    <3>1. radio'["bluetooth"] = "on" /\ radio'["hotspot"] = radio["hotspot"]
      BY <1>2, <2>3 DEF EnableBluetooth, Radios
    <3>2. home["bluetooth"] = "on"
      BY <2>1, <2>3
    <3>3. BluetoothHome => radio' = radio /\ rearm' = rearm
      BY <1>2, <2>3, <3>2 DEF EnableBluetooth, BluetoothHome
    <3>4. QED
      BY <1>1, <3>1, <3>2, <3>3 DEF BluetoothHome
  <2>4. QED
    BY <1>1, <1>4, <1>6, <2>2, <2>3
<1>7. ASSUME CommandsWork'
      PROVE  /\ Restless' => Restless \/ ~ BluetoothHome
             /\ radio' # home => radio # home \/ Restless
             /\ AtHome => AtHome'
             /\ BluetoothHome => (Restless' => Restless)
  <2>1. radio = home => BluetoothHome
    BY DEF BluetoothHome
  <2>2. QED
    BY <1>1, <1>6, <1>7, <2>1 DEF Restless, AtHome
<1>8. QED
  BY <1>1, <1>2, <1>3, <1>4, <1>5, <1>6, <1>7, RadioMoves DEF TypeOK

\* The watchdog brings the hotspot back, after whatever a re-arm did to it.
LEMMA RestoresKeeps ==
  ASSUME Owed, WatchdogRestores
  PROVE  Owed'
<1> DEFINE before == Baseline["hotspot"]
<1>1. /\ watchdog.phase = "enabled" /\ watchdog' = [watchdog EXCEPT !.phase = "restored"]
      /\ rearm' = FALSE
      /\ UNCHANGED <<rows, pc, mine, mem, logger, capsules, awake, reports, home>>
      /\ \/ /\ before \in {"on", "off"} /\ UNCHANGED spent
            /\ radio' = [radio EXCEPT !["hotspot"] = before]
         \/ before = "transport" /\ UNCHANGED <<radio, spent>>
         \/ Spend("wdfail") /\ UNCHANGED radio
  BY DEF WatchdogRestores, server
<1>2. /\ TypeOK /\ Table /\ UnitKnown
      /\ radio \in [Radios -> RadioState] /\ home \in [Radios -> RadioState]
  BY DEF Owed, Structure, TypeOK
<1>3. /\ watchdog' \in [phase: {"none", "armed", "claimed", "enabled", "restored", "posted"},
                        row: Nat]
      /\ watchdog'.phase = "restored" /\ watchdog'.row = watchdog.row
  BY <1>1, <1>2 DEF TypeOK
<1>4. /\ spent' \in [Events -> Nat] /\ (CommandsWork' => CommandsWork)
      /\ Spend("wdfail") => ~ CommandsWork'
  BY <1>1, <1>2, SpentGrows DEF Events
<1>5. radio' \in [Radios -> RadioState] /\ rearm' \in BOOLEAN
  BY <1>1, <1>2 DEF RadioState
<1>6. ASSUME CommandsWork'
      PROVE  /\ home["hotspot"] = "transport" => radio'["hotspot"] = radio["hotspot"]
             /\ BluetoothHome' /\ AtHome' /\ ~ Restless'
  <2>1. Places /\ before = home["hotspot"] /\ BluetoothHome
    BY <1>1, <1>4, <1>6, WatchdogFacts DEF Places
  <2>2. /\ radio'["hotspot"] = home["hotspot"] /\ radio'["bluetooth"] = radio["bluetooth"]
        /\ home["hotspot"] = "transport" => radio'["hotspot"] = radio["hotspot"]
    BY <1>1, <1>2, <1>4, <1>6, <2>1 DEF Places, Radios
  <2>3. radio' = home
    BY <1>2, <1>5, <2>1, <2>2 DEF BluetoothHome, Radios
  <2>4. QED
    BY <1>1, <2>2, <2>3 DEF BluetoothHome, AtHome, Restless
<1>7. QED
  BY <1>1, <1>2, <1>3, <1>4, <1>5, <1>6, RadioMoves DEF TypeOK, AtHome

\* The vendor starts a stopped hotspot while Bluetooth is owed.
LEMMA RearmKeeps ==
  ASSUME Owed, Rearm
  PROVE  Owed'
<1>1. /\ rearm /\ rearm' = FALSE
      /\ radio' = [radio EXCEPT !["hotspot"] = IF @ = "off" THEN "on" ELSE @]
      /\ UNCHANGED <<rows, pc, mine, mem, watchdog, logger, capsules, awake, reports, home, spent>>
  BY DEF Rearm, server
<1>2. /\ TypeOK /\ radio \in [Radios -> RadioState] /\ home \in [Radios -> RadioState]
      /\ watchdog \in [phase: {"none", "armed", "claimed", "enabled", "restored", "posted"},
                       row: Nat]
      /\ awake \in BOOLEAN /\ spent \in [Events -> Nat]
  BY DEF Owed, Structure, TypeOK
<1>3. radio' \in [Radios -> RadioState]
  BY <1>1, <1>2 DEF RadioState, Radios
<1>4. /\ radio'["bluetooth"] = radio["bluetooth"]
      /\ radio["hotspot"] = "transport" => radio' = radio
  BY <1>1, <1>2 DEF Radios
<1>5. (BluetoothHome <=> BluetoothHome') /\ ~ Restless'
  BY <1>1, <1>4 DEF BluetoothHome, Restless
<1>6. ASSUME CommandsWork'
      PROVE  /\ home["hotspot"] = "transport" => radio' = radio
             /\ radio' # home => radio # home \/ Restless
             /\ AtHome => AtHome'
             /\ watchdog.phase = "enabled" => BluetoothHome
             /\ watchdog.phase = "restored" => AtHome
  <2>1. CommandsWork /\ Places
    BY <1>1, <1>6 DEF CommandsWork, Owed
  <2>2. home["hotspot"] = "transport" => radio' = radio
    BY <1>4, <2>1 DEF Places
  <2>3. watchdog.phase = "restored" => AtHome
    <3>1. SUFFICES ASSUME watchdog.phase = "restored" PROVE AtHome
      OBVIOUS
    <3>2. UnitKnown /\ watchdog.row \in DOMAIN rows
      BY <3>1, WatchdogFacts DEF Owed, Structure
    <3>3. QED
      BY <2>1, <3>1, <3>2 DEF UnitKnown, Places, Recovered
  <2>4. QED
    BY <1>1, <1>5, <2>1, <2>2, <2>3 DEF Places, AtHome, Restless
<1>7. QED
  BY <1>1, <1>2, <1>3, <1>5, <1>6, RadioMoves DEF CommandsWork

\* The watchdog goes, or has restored and reports: a row whose radios it has
\* restored is one of which it has reported, or it is still there to.
LEMMA WatchdogLeaves ==
  ASSUME Owed, UNCHANGED <<rows, pc, mine, radio, rearm, logger, capsules, awake, home>>,
         mem' \in [Servers -> Memory],
         \A s \in Servers : /\ mem'[s].handle = mem[s].handle /\ mem'[s].ok = mem[s].ok
                            /\ mem'[s].untracked = mem[s].untracked
                            /\ mem'[s].settle = mem[s].settle,
         spent' \in [Events -> Nat], CommandsWork' => CommandsWork,
         watchdog' \in [phase: {"none", "armed", "claimed", "enabled", "restored", "posted"},
                        row: Nat],
         watchdog'.phase = "none" \/
           (/\ watchdog.phase = "restored" /\ watchdog'.phase = "posted"
            /\ watchdog'.row = watchdog.row),
         reports' \subseteq Report,
         \A m \in reports' : m \in reports
                             \/ (watchdog.phase = "restored" /\ m.row = watchdog.row)
  PROVE  Owed'
<1>1. /\ TypeOK /\ Table /\ UnitKnown
      /\ watchdog.phase # "none" => Baselined(watchdog.row) /\ watchdog.row \in DOMAIN rows
  BY WatchdogFacts DEF Owed, Structure
<1>2. TypeOK'
  BY <1>1 DEF TypeOK
<1>3. Table' /\ UnitKnown'
  BY <1>1 DEF Table, UnitKnown, Baselined, ReportOf, CapsuleTracked
<1>4. \A i : ReportOf(i)' => ReportOf(i) \/ (watchdog.phase = "restored" /\ watchdog.row = i)
  BY DEF ReportOf
<1>5. \A s \in Servers : Process(s)'
  BY <1>4, ProcessUnmoved
<1>6. \A i : Recovered(i)' => Recovered(i)
  BY <1>4 DEF Recovered
<1>7. CommandsWork' => Places'
  BY <1>6 DEF Owed, Places, Baselined, BluetoothHome, AtHome, Restless
<1>8. CommandsWork' => \A s \in Servers : Returns(s)'
  BY DEF Owed, Returns, BluetoothHome, AtHome, Restless
<1>9. QED
  BY <1>2, <1>3, <1>5, <1>7, <1>8, UnitSteps

\* The watchdog posts what it reads.
LEMMA ReportsKeeps ==
  ASSUME Owed, WatchdogReports
  PROVE  Owed'
<1> DEFINE report == [row |-> watchdog.row, bluetooth |-> Readback("bluetooth"),
                      hotspot |-> Readback("hotspot")]
<1>1. /\ watchdog.phase = "restored" /\ watchdog' = [watchdog EXCEPT !.phase = "posted"]
      /\ reports' = reports \cup {report}
      /\ UNCHANGED <<rows, pc, mine, mem, radio, rearm, logger, capsules, awake, home, spent>>
  BY DEF WatchdogReports, server
<1>2. /\ TypeOK /\ mem \in [Servers -> Memory] /\ spent \in [Events -> Nat]
      /\ reports \subseteq Report
      /\ watchdog \in [phase: {"none", "armed", "claimed", "enabled", "restored", "posted"},
                       row: Nat]
  BY DEF Owed, Structure, TypeOK
<1>3. /\ watchdog' \in [phase: {"none", "armed", "claimed", "enabled", "restored", "posted"},
                        row: Nat]
      /\ watchdog'.phase = "posted" /\ watchdog'.row = watchdog.row
  BY <1>1, <1>2
<1>4. /\ Readback("bluetooth") \in {"0", "1", "skip"}
      /\ Readback("hotspot") \in {"0", "1", "skip"}
  BY DEF Readback
<1>5. report \in Report /\ report.row = watchdog.row
  BY <1>2, <1>4 DEF Report
<1> HIDE DEF report
<1>6. CommandsWork' => CommandsWork
  BY <1>1 DEF CommandsWork
<1>7. QED
  BY <1>1, <1>2, <1>3, <1>5, <1>6, WatchdogLeaves

\* The watchdog goes.
LEMMA EndsKeeps ==
  ASSUME Owed, WatchdogEnds
  PROVE  Owed'
<1>1. /\ watchdog' = NoWatchdog
      /\ UNCHANGED <<rows, pc, mine, mem, radio, rearm, logger, capsules, awake, reports, home,
                     spent>>
  BY DEF WatchdogEnds, server
<1>2. /\ TypeOK /\ mem \in [Servers -> Memory] /\ spent \in [Events -> Nat]
      /\ reports \subseteq Report
  BY DEF Owed, Structure, TypeOK
<1>3. /\ watchdog' \in [phase: {"none", "armed", "claimed", "enabled", "restored", "posted"},
                        row: Nat]
      /\ watchdog'.phase = "none"
  BY <1>1 DEF NoWatchdog
<1>4. CommandsWork' => CommandsWork
  BY <1>1 DEF CommandsWork
<1>5. QED
  BY <1>1, <1>2, <1>3, <1>4, WatchdogLeaves

\* A reboot takes the watchdog with it; a process that cuts radios sees it.
LEMMA RebootKeeps ==
  ASSUME Owed, Reboot
  PROVE  Owed'
<1>1. /\ watchdog' = NoWatchdog /\ Spend("reboot")
      /\ mem' = [s \in Servers |-> [mem[s] EXCEPT !.rebooted = @ \/ pc[s] \in Forward]]
      /\ UNCHANGED <<rows, pc, mine, radio, rearm, logger, capsules, awake, reports, home>>
  BY DEF Reboot
<1>2. /\ TypeOK /\ mem \in [Servers -> Memory] /\ reports \subseteq Report
  BY DEF Owed, Structure, TypeOK
<1>3. /\ watchdog' \in [phase: {"none", "armed", "claimed", "enabled", "restored", "posted"},
                        row: Nat]
      /\ watchdog'.phase = "none"
  BY <1>1 DEF NoWatchdog
<1>4. spent' \in [Events -> Nat] /\ (CommandsWork' => CommandsWork)
  BY <1>1, <1>2, SpentGrows DEF Events
<1>5. ASSUME NEW s \in Servers
      PROVE  /\ mem'[s] \in Memory
             /\ mem'[s].handle = mem[s].handle /\ mem'[s].ok = mem[s].ok
             /\ mem'[s].untracked = mem[s].untracked
             /\ mem'[s].settle = mem[s].settle
  <2>1. \A m \in Memory : \A p :
          LET new == [m EXCEPT !.rebooted = @ \/ p \in Forward] IN
          /\ new \in Memory /\ new.handle = m.handle /\ new.ok = m.ok
          /\ new.untracked = m.untracked /\ new.settle = m.settle
    BY DEF Memory
  <2>2. mem[s] \in Memory
    BY <1>2
  <2>3. mem'[s] = [mem[s] EXCEPT !.rebooted = @ \/ pc[s] \in Forward]
    BY <1>1
  <2>4. QED
    BY <2>1, <2>2, <2>3
<1>6. mem' \in [Servers -> Memory]
  BY <1>1, <1>5
<1>7. QED
  BY <1>1, <1>2, <1>3, <1>4, <1>5, <1>6, WatchdogLeaves

\* The logger runs again by itself only when no backup holds it.
LEMMA HoldKeeps ==
  ASSUME Owed, LoggerHoldExpires
  PROVE  Owed'
<1>1. /\ FenceFree /\ logger' = "running"
      /\ UNCHANGED <<rows, pc, mine, mem, radio, rearm, watchdog, capsules, awake, reports, home,
                     spent>>
  BY DEF LoggerHoldExpires, server
<1>2. TypeOK /\ Table /\ UnitKnown
  BY DEF Owed, Structure
<1>3. TypeOK'
  BY <1>1, <1>2 DEF TypeOK
<1>4. Table' /\ UnitKnown'
  BY <1>1, <1>2 DEF Table, UnitKnown, Baselined, ReportOf, CapsuleTracked
<1>5. CommandsWork' => CommandsWork /\ Places'
  BY <1>1 DEF CommandsWork, Owed, Places, Baselined, ReportOf, Recovered, BluetoothHome, AtHome,
     Restless
<1>6. QED
  BY <1>1, <1>3, <1>4, <1>5, FreeFence, UnitSteps

\* The unit sleeps and wakes with all its debts.
LEMMA SleepKeeps ==
  ASSUME Owed, Sleep \/ Wake
  PROVE  Owed'
<1>1. /\ awake' \in BOOLEAN /\ (UNCHANGED spent \/ Spend("sleep"))
      /\ UNCHANGED <<rows, pc, mine, mem, radio, rearm, watchdog, logger, capsules, reports,
                     home>>
  BY DEF Sleep, Wake, server
<1>2. TypeOK /\ Table /\ UnitKnown
  BY DEF Owed, Structure
<1>3. spent' \in [Events -> Nat] /\ (CommandsWork' => CommandsWork)
  BY <1>1, <1>2, SpentGrows DEF Events
<1>4. TypeOK'
  BY <1>1, <1>2, <1>3 DEF TypeOK
<1>5. Table' /\ UnitKnown'
  BY <1>1, <1>2 DEF Table, UnitKnown, Baselined, ReportOf, CapsuleTracked
<1>6. \A s \in Servers : Process(s)'
  BY <1>1, ProcessUnmoved DEF ReportOf
<1>7. CommandsWork' => Places' /\ \A s \in Servers : Returns(s)'
  BY <1>1, <1>3 DEF Owed, Places, Returns, Baselined, ReportOf, Recovered, BluetoothHome, AtHome,
     Restless
<1>8. QED
  BY <1>1, <1>3, <1>4, <1>5, <1>6, <1>7, UnitSteps

-----------------------------------------------------------------------------
(* The report of the unit.                                                 *)

\* A report closes a row only with its radios back and its logger running.
LEMMA ReportKeeps ==
  ASSUME Owed, NEW m \in reports, apply_unit_report(m)
  PROVE  Owed'
<1> DEFINE i == m.row
<1>1. /\ reports' \subseteq reports
      /\ UNCHANGED <<pc, mine, mem, radio, rearm, watchdog, logger, capsules, awake, home, spent>>
      /\ rows' = [rows EXCEPT ![i] = ReportedRow(rows[i], m)] \/ UNCHANGED rows
  BY DEF apply_unit_report, server, unit
<1>2. /\ TypeOK /\ UnitKnown /\ rows \in Seq(Row) /\ m \in Report
      /\ i \in DOMAIN rows /\ rows[i] \in Row /\ Baselined(i) /\ ReportOf(i)
  BY DEF Owed, Structure, TypeOK, UnitKnown, ReportOf
<1>3. Table
  BY DEF Owed, Structure
<1>4. PICK row \in Row :
        /\ rows' = [rows EXCEPT ![i] = row]
        /\ SameLogger(row, rows[i]) /\ SameBaseline(row, rows[i])
        /\ row.owner = rows[i].owner /\ row.ref = rows[i].ref
        /\ row.active => rows[i].active
        /\ row.evidence \/ row.evidence = rows[i].evidence
        /\ rows[i].active /\ ~ row.active => ~ rows[i].logger \/ rows[i].resumed
  <2>1. CASE rows' = [rows EXCEPT ![i] = ReportedRow(rows[i], m)]
    <3> DEFINE old == rows[i]
               new == ReportedRow(old, m)
    <3>1. old \in Row /\ m \in Report
      BY <1>2
    <3> HIDE DEF old
    <3>2. /\ new \in Row /\ SameLogger(new, old) /\ SameBaseline(new, old)
          /\ new.owner = old.owner /\ new.ref = old.ref /\ new.evidence
          /\ new.active => old.active
          /\ old.active /\ ~ new.active => ~ old.logger \/ old.resumed
      BY <3>1, ReportNoted
    <3> HIDE DEF new
    <3>3. rows' = [rows EXCEPT ![i] = new]
      BY <2>1 DEF new, old
    <3>4. QED
      BY <3>2, <3>3 DEF old
  <2>2. CASE UNCHANGED rows
    <3>1. rows' = [rows EXCEPT ![i] = rows[i]]
      BY <1>2, <2>2
    <3>2. QED
      BY <1>2, <3>1 DEF SameLogger, SameBaseline
  <2>3. QED
    BY <1>1, <2>1, <2>2
<1>5. /\ rows' \in Seq(Row) /\ DOMAIN rows' = DOMAIN rows /\ rows'[i] = row
      /\ \A k \in DOMAIN rows : k # i => rows'[k] = rows[k]
  BY <1>2, <1>4, PutRow
<1>6. \A k \in DOMAIN rows :
        /\ SameLogger(rows'[k], rows[k]) /\ SameBaseline(rows'[k], rows[k])
        /\ rows'[k].owner = rows[k].owner /\ rows'[k].ref = rows[k].ref
        /\ rows'[k].active => rows[k].active
        /\ rows[k].active /\ ~ rows'[k].active =>
             k = i /\ (~ rows[k].logger \/ rows[k].resumed)
        /\ rows'[k].evidence = rows[k].evidence \/ k = i
  BY <1>4, <1>5 DEF SameLogger, SameBaseline
<1>7. \A k \in DOMAIN rows : Baselined(k)' <=> Baselined(k)
  BY <1>5, <1>6 DEF Baselined, SameBaseline
<1>8. TypeOK'
  BY <1>1, <1>2, <1>5 DEF TypeOK
<1>9. Table'
  BY <1>3, <1>5, <1>6, <1>7 DEF Table, SameBaseline
<1>10. UnitKnown'
  <2>1. /\ \A n \in reports : n.row \in DOMAIN rows
        /\ watchdog.phase # "none" => watchdog.row \in DOMAIN rows
        /\ capsules \subseteq DOMAIN rows
    BY <1>2 DEF TypeOK
  <2>2. /\ \A n \in reports' : Baselined(n.row)'
        /\ watchdog'.phase # "none" => rows'[watchdog'.row].attempted # {}
    BY <1>1, <1>2, <1>6, <1>7, <2>1 DEF UnitKnown, SameBaseline
  <2>3. watchdog.phase \in {"armed", "claimed", "enabled", "restored"} =>
          /\ rows'[watchdog.row].active /\ ~ rows'[watchdog.row].evidence
          /\ ~ ReportOf(watchdog.row)'
    BY <1>1, <1>2, <1>6, <2>1 DEF UnitKnown, ReportOf
  <2>4. logger = "held" =>
          \E k \in DOMAIN rows : rows'[k].active /\ rows'[k].logger /\ ~ rows'[k].resumed
    BY <1>2, <1>6 DEF UnitKnown, SameLogger
  <2>5. CapsuleTracked'
    <3>1. i \in capsules => rows[i].ref
      BY <1>2 DEF UnitKnown, CapsuleTracked, Baselined
    <3>2. \A k \in capsules : k # i => rows'[k] = rows[k]
      BY <1>5, <2>1
    <3>3. QED
      BY <1>1, <1>2, <1>6, <2>1, <3>1, <3>2 DEF UnitKnown, CapsuleTracked
  <2>6. QED
    BY <1>1, <1>5, <2>2, <2>3, <2>4, <2>5 DEF UnitKnown, ReportOf
<1>11. ASSUME NEW s \in Servers
       PROVE  Process(s)'
  <2>1. Process(s) /\ (pc[s] # "idle" => mine[s] \in DOMAIN rows)
    BY DEF Owed, Structure, TypeOK
  <2>2. CASE pc[s] = "idle"
    BY <1>1, <2>2 DEF Process, Early, Cutting
  <2>3. CASE pc[s] # "idle"
    <3>1. pc[s] \in Early \cup Cutting /\ ~ mem[s].handle => mine[s] # i
      BY <1>2, <2>1 DEF Process
    <3>2. ReportOf(mine[s])' => ReportOf(mine[s])
      BY <1>1 DEF ReportOf
    <3>3. /\ rows'[mine[s]].owner = rows[mine[s]].owner
          /\ rows'[mine[s]].ref = rows[mine[s]].ref
          /\ SameLogger(rows'[mine[s]], rows[mine[s]])
          /\ SameBaseline(rows'[mine[s]], rows[mine[s]])
          /\ rows'[mine[s]].active => rows[mine[s]].active
          /\ mine[s] # i => rows'[mine[s]] = rows[mine[s]]
      BY <1>5, <1>6, <2>1, <2>3
    <3>4. Baselined(mine[s])' <=> Baselined(mine[s])
      BY <1>1, <3>3 DEF Baselined, SameBaseline
    <3>5. \A k \in DOMAIN rows' : rows'[k].active => k = mine[s]
      BY <1>5, <1>6, <2>1, <2>3 DEF Process
    <3>6. QED
      BY <1>1, <2>1, <2>3, <3>1, <3>2, <3>3, <3>4, <3>5
         DEF Process, Baselined, ReportOf, SameLogger, SameBaseline, Early, Cutting
  <2>4. QED
    BY <2>2, <2>3
<1>12. ASSUME CommandsWork'
       PROVE  CommandsWork /\ Places' /\ \A s \in Servers : Returns(s)'
  <2>1. CommandsWork /\ Places /\ \A s \in Servers : Returns(s)
    BY <1>1, <1>12 DEF CommandsWork, Owed
  <2>2. rows[i].active => AtHome
    BY <1>2, <2>1 DEF Places, Recovered
  <2>3. \A k \in DOMAIN rows : Recovered(k)' => Recovered(k)
    BY <1>1, <1>2, <1>6 DEF Recovered, ReportOf
  <2>4. \A k \in DOMAIN rows : rows[k].active /\ ~ rows'[k].active => AtHome
    BY <1>6, <2>2
  <2>5. ~ AtHome => \A k \in DOMAIN rows : rows'[k].active = rows[k].active
    <3>1. \A k \in DOMAIN rows : rows'[k] \in Row /\ rows[k] \in Row
      BY <1>2, <1>5
    <3>2. \A k \in DOMAIN rows : rows'[k].active \in BOOLEAN /\ rows[k].active \in BOOLEAN
      BY <3>1 DEF Row
    <3>3. QED
      BY <1>6, <2>4, <3>2
  <2>6. ~ BluetoothHome' \/ Restless' => ~ AtHome /\ (~ BluetoothHome \/ Restless)
    BY <1>1 DEF BluetoothHome, AtHome, Restless
  <2>7. ~ BluetoothHome' \/ Restless' =>
          \E k \in DOMAIN rows : rows'[k].active /\ "bluetooth" \in rows'[k].attempted
    BY <1>6, <2>1, <2>5, <2>6 DEF Places, SameBaseline
  <2>8. radio' # home' =>
          \E k \in DOMAIN rows : rows'[k].active /\ rows'[k].attempted # {}
    BY <1>1, <1>6, <2>1, <2>5 DEF Places, SameBaseline, AtHome
  <2>9. \A k \in DOMAIN rows : rows'[k].active /\ Recovered(k)' => AtHome'
    BY <1>1, <1>6, <2>1, <2>3 DEF Places, AtHome, Restless
  <2>10. Places'
    BY <1>1, <1>5, <1>6, <1>7, <2>1, <2>7, <2>8, <2>9
       DEF Places, SameBaseline, BluetoothHome
  <2>11. \A s \in Servers : Returns(s)'
    BY <1>1, <2>1 DEF Returns, BluetoothHome, AtHome, Restless
  <2>12. QED
    BY <2>1, <2>10, <2>11
<1>13. QED
  BY <1>1, <1>8, <1>9, <1>10, <1>11, <1>12, UnitSteps

\* A report that is lost was worth nothing.
LEMMA LossKeeps ==
  ASSUME Owed, NEW m \in reports, ReportLost(m)
  PROVE  Owed'
<1>1. /\ reports' \subseteq reports
      /\ UNCHANGED <<rows, pc, mine, mem, radio, rearm, watchdog, logger, capsules, awake, home,
                     spent>>
  BY DEF ReportLost, server, unit
<1>2. TypeOK /\ Table /\ UnitKnown
  BY DEF Owed, Structure
<1>3. TypeOK'
  BY <1>1, <1>2 DEF TypeOK
<1>4. Table' /\ UnitKnown'
  BY <1>1, <1>2 DEF Table, UnitKnown, Baselined, ReportOf, CapsuleTracked
<1>5. \A s \in Servers : Process(s)'
  BY <1>1, ProcessUnmoved DEF ReportOf
<1>6. CommandsWork' => CommandsWork /\ Places' /\ \A s \in Servers : Returns(s)'
  BY <1>1 DEF CommandsWork, Owed, Places, Returns, Baselined, ReportOf, Recovered, BluetoothHome,
     AtHome, Restless
<1>7. QED
  BY <1>1, <1>3, <1>4, <1>5, <1>6, UnitSteps

-----------------------------------------------------------------------------
(* Every step.                                                             *)

\* At first nothing was taken.
LEMMA OwedInit == Init => Owed
<1> SUFFICES ASSUME Init PROVE Owed
  OBVIOUS
<1>1. /\ rows = <<>> /\ pc = [s \in Servers |-> "idle"] /\ mine = [s \in Servers |-> 0]
      /\ mem = [s \in Servers |-> Fresh] /\ radio = home /\ rearm = FALSE
      /\ watchdog = NoWatchdog /\ logger = "running" /\ capsules = {} /\ awake = TRUE
      /\ reports = {} /\ spent = [e \in Events |-> 0]
  BY DEF Init
<1>2. home \in [Radios -> RadioState]
  BY DEF Init, Radios, RadioState
<1>3. Fresh \in Memory
  BY DEF Fresh, Memory
<1>4. watchdog.phase = "none"
      /\ watchdog \in [phase: {"none", "armed", "claimed", "enabled", "restored", "posted"},
                       row: Nat]
  BY <1>1 DEF NoWatchdog
<1>5. DOMAIN rows = {} /\ rows \in Seq(Row)
  BY <1>1
<1>6. \A s \in Servers : pc[s] = "idle"
  BY <1>1
<1>7. TypeOK
  BY <1>1, <1>2, <1>3, <1>4, <1>5, <1>6 DEF TypeOK
<1>8. Fenced
  BY <1>1, <1>6 DEF Fenced, OneController
<1>9. Table /\ UnitKnown
  BY <1>1, <1>4, <1>5 DEF Table, UnitKnown, CapsuleTracked
<1>10. \A s \in Servers : Process(s) /\ Returns(s)
  BY <1>6 DEF Process, Returns, Early, Cutting
<1>11. Places
  BY <1>1, <1>4, <1>5 DEF Places, BluetoothHome, Restless, AtHome
<1>12. QED
  BY <1>7, <1>8, <1>9, <1>10, <1>11 DEF Owed, Structure

\* No step loses a debt.
LEMMA OwedNext == Owed /\ [Next]_vars => Owed'
<1> SUFFICES ASSUME Owed, [Next]_vars PROVE Owed'
  OBVIOUS
<1>1. CASE UNCHANGED vars
  <2>1. UNCHANGED <<rows, pc, mine, mem, radio, rearm, watchdog, logger, capsules, awake,
                    reports, home, spent>>
    BY <1>1 DEF vars
  <2>2. TypeOK /\ Table /\ UnitKnown
    BY DEF Owed, Structure
  <2>3. TypeOK'
    BY <2>1, <2>2 DEF TypeOK
  <2>4. Table' /\ UnitKnown'
    BY <2>1, <2>2 DEF Table, UnitKnown, Baselined, ReportOf, CapsuleTracked
  <2>5. \A s \in Servers : Process(s)'
    BY <2>1, ProcessUnmoved DEF ReportOf
  <2>6. CommandsWork' => CommandsWork /\ Places' /\ \A s \in Servers : Returns(s)'
    BY <2>1 DEF CommandsWork, Owed, Places, Returns, Baselined, ReportOf, Recovered,
       BluetoothHome, AtHome, Restless
  <2>7. QED
    BY <2>1, <2>3, <2>4, <2>5, <2>6, UnitSteps
<1>2. ASSUME NEW s \in Servers,
             \/ begin(s) \/ ForwardStep(s) \/ RestoreStep(s)
             \/ _persist_restore_failure(s) \/ Crash(s)
             \/ \E i \in DOMAIN rows : _adopt_expired(s, i)
      PROVE  Owed'
  BY <1>2, BeginKeeps, ForwardKeeps, RestoringKeeps, PersistKeeps, CrashKeeps, AdoptKeeps
<1>3. CASE \E i \in DOMAIN rows : _cleanup_inactive_capsules(i) \/ LeaseExpires(i)
  BY <1>3, InactiveKeeps, LeaseKeeps
<1>4. CASE WatchdogStep
  BY <1>4, ClaimsKeeps, EnablesKeeps, RestoresKeeps, ReportsKeeps, EndsKeeps DEF WatchdogStep
<1>5. CASE Rearm \/ LoggerHoldExpires \/ Sleep \/ Wake \/ Reboot
  BY <1>5, RearmKeeps, HoldKeeps, SleepKeeps, RebootKeeps
<1>6. CASE \E m \in reports : apply_unit_report(m) \/ ReportLost(m)
  BY <1>6, ReportKeeps, LossKeeps
<1>7. QED
  BY <1>1, <1>2, <1>3, <1>4, <1>5, <1>6 DEF Next

-----------------------------------------------------------------------------
(* What follows.                                                           *)

\* The invariant says of every radio that is away, and of the logger and the
\* capsules, which row owes it.
LEMMA OwedRecords == Owed => DebtsRecorded
<1> SUFFICES ASSUME Owed PROVE DebtsRecorded
  OBVIOUS
<1>1. TypeOK /\ Table /\ UnitKnown /\ home \in [Radios -> RadioState]
      /\ radio \in [Radios -> RadioState]
  BY DEF Owed, Structure, TypeOK
<1>2. ASSUME NEW r \in Radios, CommandsWork, radio[r] # home[r]
      PROVE  \E i \in DOMAIN rows :
               /\ rows[i].active /\ rows[i].exported
               /\ rows[i].before = home
               /\ rows[i].attempted # {}
               /\ r = "bluetooth" => r \in rows[i].attempted
               /\ r = "hotspot" /\ radio[r] = "off" => rows[i].ref /\ i \in capsules
  <2>1. Places /\ radio # home
    BY <1>2 DEF Owed
  <2>2. PICK i \in DOMAIN rows : rows[i].active /\ rows[i].attempted # {}
    BY <2>1 DEF Places
  <2>3. \A k \in DOMAIN rows : rows[k].active => k = i
    BY <1>1, <2>2 DEF Table
  <2>4. Baselined(i) /\ rows[i].exported /\ rows[i].before = home
    BY <1>1, <2>1, <2>2 DEF Table, Places
  <2>5. r = "bluetooth" => r \in rows[i].attempted
    BY <1>2, <2>1, <2>3 DEF Places, BluetoothHome
  <2>6. r = "hotspot" /\ radio[r] = "off" => home["hotspot"] = "on"
    BY <1>1, <1>2, <2>1 DEF Places, Radios, RadioState
  <2>7. home["hotspot"] = "on" => rows[i].ref /\ i \in capsules
    BY <2>1, <2>2, <2>4 DEF Places
  <2>8. QED
    BY <2>2, <2>4, <2>5, <2>6, <2>7
<1>3. AwayIsOwed
  BY <1>2 DEF AwayIsOwed
<1>4. HeldIsOwed
  BY <1>1 DEF HeldIsOwed, UnitKnown
<1>5. QED
  BY <1>1, <1>3, <1>4 DEF DebtsRecorded, UnitKnown

\* Whatever was taken from the unit, a radio, the logger or a capsule, is on a
\* row from which a process can give it back: for any number of processes and
\* rows, however often servers crash, leases expire, the unit sleeps or reboots
\* and reports are lost or repeated.
THEOREM DebtsTheorem == Spec => []DebtsRecorded
<1>1. QED
  BY OwedInit, OwedNext, OwedRecords, PTL DEF Spec

\* A step of process s gives a held logger back: it has verified every radio.
LEMMA ResumeStep ==
  Owed /\ [Next]_vars =>
    \A s \in Servers :
      CommandsWork /\ pc[s] = "resume" /\ logger = "held" /\ logger' = "running" => radio = home
<1> SUFFICES ASSUME Owed, [Next]_vars, NEW s \in Servers, CommandsWork, pc[s] = "resume",
                    logger = "held", logger' = "running"
             PROVE  radio = home
  OBVIOUS
<1>1. Returns(s) /\ ~ FenceFree /\ \A t \in Servers : t # s => pc[t] = "idle"
  BY AloneFacts DEF FenceFree
<1>2. logger' # logger
  OBVIOUS
<1>3. resume_logger(s) => mem[s].ok
  BY <1>2 DEF resume_logger
<1>4. ASSUME NEW t \in Servers,
             \/ begin(t) \/ ForwardStep(t) \/ RestoreStep(t)
             \/ _persist_restore_failure(t) \/ Crash(t)
             \/ \E i \in DOMAIN rows : _adopt_expired(t, i)
      PROVE  resume_logger(s)
  <2>1. pc[t] # "idle" => t = s
    BY <1>1
  <2>2. CASE ForwardStep(t)
    <3>1. request_quiesce(t) \/ UNCHANGED logger
      BY <2>2 DEF ForwardStep, prepare_logger, mark_obd_transfer_complete, capture, CommitBaseline,
         BaselineLost, BluetoothIntent, _ensure_watchdog, disable_bluetooth, HotspotIntent,
         disable_hotspot, quiet_state_verified, unit
    <3>2. QED
      BY <3>1 DEF request_quiesce
  <2>3. CASE RestoreStep(t)
    <3>1. resume_logger(t) \/ UNCHANGED logger
      BY <2>3 DEF RestoreStep, restore, LostRow, restore_bluetooth, restore_hotspot,
         stand_down_watchdog, _finish_transition, _cleanup_capsule_after_finish, unit
    <3>2. QED
      BY <1>2, <2>1, <3>1 DEF resume_logger
  <2>4. QED
    BY <1>1, <1>2, <1>4, <2>2, <2>3
       DEF begin, _persist_restore_failure, Crash, _adopt_expired, unit
<1>5. ~ UNCHANGED vars
  BY <1>2 DEF vars
<1>6. ~ (\E i \in DOMAIN rows : _cleanup_inactive_capsules(i) \/ LeaseExpires(i))
  BY <1>2 DEF _cleanup_inactive_capsules, LeaseExpires, unit
<1>7. ~ WatchdogStep
  BY <1>2 DEF WatchdogStep, WatchdogClaims, WatchdogEnables, WatchdogRestores, WatchdogReports,
     WatchdogEnds
<1>8. ~ (Rearm \/ LoggerHoldExpires \/ Sleep \/ Wake \/ Reboot)
  BY <1>1, <1>2 DEF Rearm, LoggerHoldExpires, Sleep, Wake, Reboot
<1>9. ~ (\E m \in reports : apply_unit_report(m) \/ ReportLost(m))
  BY <1>2 DEF apply_unit_report, ReportLost, unit
<1>10. resume_logger(s)
  BY <1>4, <1>5, <1>6, <1>7, <1>8, <1>9 DEF Next
<1>11. QED
  BY <1>1, <1>3, <1>10 DEF Returns, AtHome

\* While commands work, no server gives the logger back before the radios.
THEOREM ResumeTheorem == Spec => ResumeAtHome
<1>1. Owed /\ [Next]_vars =>
        [\A s \in Servers :
           /\ CommandsWork
           /\ pc[s] = "resume" /\ logger = "held" /\ logger' = "running"
           => radio = home]_vars
  BY ResumeStep
<1>2. QED
  BY <1>1, OwedInit, OwedNext, PTL DEF Spec, ResumeAtHome

-----------------------------------------------------------------------------
(* The refinement of RadioObligation.                                      *)

SomebodyOwes == \E i \in DOMAIN rows : rows[i].active

\* A step either leaves the radios alone, or opens and closes no row.
LEMMA RadiosOrRows ==
  Owed /\ [Next]_vars => /\ UNCHANGED home
                         /\ UNCHANGED radio \/ (SomebodyOwes' <=> SomebodyOwes)
<1> SUFFICES ASSUME Owed, [Next]_vars
             PROVE  UNCHANGED home /\ (UNCHANGED radio \/ (SomebodyOwes' <=> SomebodyOwes))
  OBVIOUS
<1>1. UNCHANGED rows => (SomebodyOwes' <=> SomebodyOwes)
  BY DEF SomebodyOwes
<1>2. ASSUME NEW s \in Servers, NEW r \in Radios, NEW ok \in BOOLEAN, NEW settle, NEW next,
             pc[s] # "idle", Verify(s, r, ok, settle, next)
      PROVE  SomebodyOwes' <=> SomebodyOwes
  <2> DEFINE verified == IF ok THEN rows[mine[s]].verified \cup {r}
                               ELSE rows[mine[s]].verified \ {r}
             row == [rows[mine[s]] EXCEPT !.fresh = TRUE, !.verified = verified]
  <2>1. rows[mine[s]] \in Row
    BY <1>2, AloneFacts
  <2>2. verified \in SUBSET Radios
    BY <2>1 DEF Row
  <2>3. Put(s, row) \/ UNCHANGED rows
    BY <1>2 DEF Verify, Mine
  <2> HIDE DEF verified
  <2>4. row \in Row /\ Alike(row, rows[mine[s]])
    BY <2>1, <2>2, Verifies
  <2> HIDE DEF row
  <2>5. TypeOK
    BY DEF Owed, Structure
  <2>6. RowsAlike
    BY <1>2, <2>3, <2>4, <2>5, AlikeRow, SameRows
  <2>7. QED
    BY <2>6 DEF RowsAlike, Alike, SameHolder, SomebodyOwes
<1>3. ASSUME NEW s \in Servers,
             \/ begin(s) \/ ForwardStep(s) \/ RestoreStep(s)
             \/ _persist_restore_failure(s) \/ Crash(s)
             \/ \E i \in DOMAIN rows : _adopt_expired(s, i)
      PROVE  UNCHANGED home /\ (UNCHANGED radio \/ (SomebodyOwes' <=> SomebodyOwes))
  <2>1. CASE ForwardStep(s)
    <3>1. UNCHANGED home
      BY <2>1 DEF ForwardStep, prepare_logger, request_quiesce, mark_obd_transfer_complete, capture,
         CommitBaseline, BaselineLost, BluetoothIntent, _ensure_watchdog, disable_bluetooth,
         HotspotIntent, disable_hotspot, quiet_state_verified
    <3>2. UNCHANGED radio \/ UNCHANGED rows
      BY <2>1 DEF ForwardStep, prepare_logger, request_quiesce, mark_obd_transfer_complete, capture,
         CommitBaseline, BaselineLost, BluetoothIntent, _ensure_watchdog, disable_bluetooth,
         HotspotIntent, disable_hotspot, quiet_state_verified, unit
    <3>3. QED
      BY <1>1, <3>1, <3>2
  <2>2. CASE restore_bluetooth(s)
    <3>1. rows[mine[s]] \in Row /\ pc[s] # "idle"
      BY <2>2, AloneFacts DEF restore_bluetooth
    <3>2. UnitVerified(s, "bluetooth") \in BOOLEAN
      BY <3>1 DEF UnitVerified, Mine, Row
    <3>3. UNCHANGED home
          /\ \/ UNCHANGED rows
             \/ Verify(s, "bluetooth", TRUE, TRUE, "restore_hotspot")
             \/ Verify(s, "bluetooth", UnitVerified(s, "bluetooth"), FALSE, "restore_hotspot")
      BY <2>2 DEF restore_bluetooth
    <3>4. QED
      BY <1>1, <1>2, <3>1, <3>2, <3>3 DEF Radios
  <2>3. CASE restore_hotspot(s)
    <3>1. rows[mine[s]] \in Row /\ pc[s] # "idle"
      BY <2>3, AloneFacts DEF restore_hotspot
    <3>2. UnitVerified(s, "hotspot") \in BOOLEAN
      BY <3>1 DEF UnitVerified, Mine, Row
    <3>3. UNCHANGED home
          /\ \/ UNCHANGED rows
             \/ Verify(s, "hotspot", TRUE, mem[s].settle, "stand_down")
             \/ Verify(s, "hotspot", UnitVerified(s, "hotspot"), mem[s].settle, "stand_down")
      BY <2>3 DEF restore_hotspot
    <3>4. QED
      BY <1>1, <1>2, <3>1, <3>2, <3>3 DEF Radios
  <2>4. CASE \/ restore(s) \/ LostRow(s) \/ stand_down_watchdog(s) \/ resume_logger(s)
             \/ _finish_transition(s) \/ _cleanup_capsule_after_finish(s)
    BY <2>4 DEF restore, LostRow, stand_down_watchdog, resume_logger, _finish_transition,
       _cleanup_capsule_after_finish, unit
  <2>5. CASE \/ begin(s) \/ _persist_restore_failure(s) \/ Crash(s)
             \/ \E i \in DOMAIN rows : _adopt_expired(s, i)
    BY <2>5 DEF begin, _persist_restore_failure, Crash, _adopt_expired, unit
  <2>6. QED
    BY <1>3, <2>1, <2>2, <2>3, <2>4, <2>5 DEF RestoreStep
<1>4. CASE \E i \in DOMAIN rows : _cleanup_inactive_capsules(i) \/ LeaseExpires(i)
  BY <1>4 DEF _cleanup_inactive_capsules, LeaseExpires, unit
<1>5. CASE WatchdogStep
  BY <1>1, <1>5 DEF WatchdogStep, WatchdogClaims, WatchdogEnables, WatchdogRestores,
     WatchdogReports, WatchdogEnds
<1>6. CASE Rearm \/ LoggerHoldExpires \/ Sleep \/ Wake \/ Reboot
  BY <1>1, <1>6 DEF Rearm, LoggerHoldExpires, Sleep, Wake, Reboot
<1>7. CASE \E m \in reports : apply_unit_report(m) \/ ReportLost(m)
  BY <1>7 DEF apply_unit_report, ReportLost, unit
<1>8. CASE UNCHANGED vars
  BY <1>8 DEF vars
<1>9. QED
  BY <1>3, <1>4, <1>5, <1>6, <1>7, <1>8 DEF Next

\* While commands work, every step borrows the radios, changes them under a debt,
\* or writes a debt off with the radios back.
LEMMA ObligationStep ==
  Owed /\ Owed' /\ CommandsWork /\ CommandsWork' /\ [Next]_vars =>
    [Obligation!Next]_<<\E i \in DOMAIN rows : rows[i].active, radio # home>>
<1> SUFFICES ASSUME Owed, Owed', CommandsWork, CommandsWork', [Next]_vars
             PROVE  [Obligation!Next]_<<\E i \in DOMAIN rows : rows[i].active, radio # home>>
  OBVIOUS
<1> DEFINE owed == \E i \in DOMAIN rows : rows[i].active
           away == radio # home
<1>1. (away => owed) /\ (away' => owed')
  BY DEF Owed, Places
<1>2. (away' = away) \/ (owed' = owed)
  BY RadiosOrRows DEF SomebodyOwes
<1>3. CASE owed /\ owed'
  BY <1>3 DEF Obligation!Next, Obligation!Change
<1>4. CASE ~ owed /\ ~ owed'
  BY <1>1, <1>4
<1>5. CASE ~ owed /\ owed'
  BY <1>1, <1>2, <1>5 DEF Obligation!Next, Obligation!Borrow
<1>6. CASE owed /\ ~ owed'
  BY <1>1, <1>2, <1>6 DEF Obligation!Next, Obligation!Repay
<1>7. QED
  BY <1>3, <1>4, <1>5, <1>6

\* While commands work, the radio protocol implements RadioObligation.
THEOREM ObligationTheorem == Spec /\ []CommandsWork => ImplementsObligation
<1>1. Init => Obligation!Init
  BY DEF Init, Obligation!Init
<1>2. QED
  BY <1>1, OwedInit, OwedNext, ObligationStep, PTL DEF Spec, ImplementsObligation, Obligation!Spec

=============================================================================
