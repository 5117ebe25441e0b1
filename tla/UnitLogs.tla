------------------------------- MODULE UnitLogs -------------------------------
(* Collecting the head unit's own log (ingest/unit_logs.py): one task per unit *)
(* that stops the capture, imports it and starts a fresh one, and the receipt  *)
(* on the unit that lets a changed log level be put back.                      *)
(*                                                                             *)
(* One unit and one log tag.  "own" is a history variable: the level the tag   *)
(* would have had if this program had never touched it.                        *)
EXTENDS Naturals, FiniteSets

CONSTANTS
    OwnLevels,      \* levels others give the tag, "-" (unset) among them
    Policies,       \* what the settings ask for: "E", "S" or "absent"
    Legacy,         \* an old version raised this tag to "E" without a receipt
    Shells,         \* slots for level commands still running on the unit
    MaxLine,        \* bound: log lines
    MaxVisit,       \* bound: visits
    UnitEvents,     \* what may happen, each once
    FewUnitEvents   \* bound: how many of them in one behaviour

VARIABLES
    level,     \* log.tag.<tag> on the unit
    own,       \* see above
    receipt,   \* what the receipt file says of the tag
    shell,     \* level commands on the unit: [pc, same, prior, want, plan, keep]
    capture,   \* [running, file]: the detached logcat and its file
    visit,     \* [id, online, arriving]
    policy,    \* the settings
    job,       \* the task: [pc, arrival, got, shell]
    book,      \* [needs, pending, asked, due]: the module's dictionaries
    imported,  \* lines imported
    lines,     \* lines captured so far
    trouble    \* events so far

vars == <<level, own, receipt, shell, capture, visit, policy, job, book, imported, lines, trouble>>
unit == <<level, own, receipt, shell>>

None == [original |-> "none", previous |-> "none", target |-> "none"]
NoShell == [pc |-> "none", same |-> TRUE, prior |-> None, want |-> "absent", plan |-> None, keep |-> TRUE]
NoJob == [pc |-> "none", arrival |-> FALSE, got |-> {}, shell |-> 0]
NotAsked == [visit |-> 0, policy |-> "absent"]
NoBook == [needs |-> FALSE, pending |-> FALSE, asked |-> NotAsked, due |-> TRUE]
Meets(event) ==
    event \in UnitEvents \ trouble /\ Cardinality(trouble) < FewUnitEvents /\ trouble' = trouble \cup {event}

Init ==
    /\ own \in OwnLevels /\ (level = own \/ (Legacy /\ own = "-" /\ level = "E"))
    /\ receipt = None /\ shell = [p \in Shells |-> NoShell]
    /\ capture = [running |-> FALSE, file |-> {}]
    /\ visit = [id |-> 1, online |-> TRUE, arriving |-> TRUE]
    /\ policy \in Policies /\ job = NoJob /\ book = NoBook
    /\ imported = {} /\ lines = 0 /\ trouble = {}

---------------------------------------------------------------------------
(* The level command, on the unit.                                          *)

\* Whether the level is one this program set: one of the two of the receipt
\* (it is written before the level is changed), or the legacy one.
Ours(rec) == IF rec # None THEN level \in {rec.previous, rec.target} ELSE Legacy /\ level = "E"
Original(rec) == IF ~Ours(rec) THEN level ELSE IF rec # None THEN rec.original ELSE "-"

\* mv -f: a new file, so every command made for the old one is stale.
Replaced(p, pc) == [q \in Shells |-> IF q = p THEN [shell[p] EXCEPT !.pc = pc] ELSE [shell[q] EXCEPT !.same = FALSE]]
Die(p) == shell' = [shell EXCEPT ![p] = [NoShell EXCEPT !.pc = "dead"]]
Holding == {p \in Shells : shell[p].pc \in {"plan", "pend", "set", "final"}}

\* Mutant: the receipt is not compared with the one the command was made for.
AnyReceipt(p) == TRUE

\* The receipt file is still the one the server read: no other took its place.
SameReceipt(p) == shell[p].same

\* flock -n, and the receipt's identity: otherwise the command ends at once.
Guard(p) ==
    /\ shell[p].pc = "start"
    /\ IF Holding = {} /\ SameReceipt(p) THEN shell' = [shell EXCEPT ![p].pc = "plan"] ELSE Die(p)
    /\ UNCHANGED <<level, own, receipt, capture, visit, policy, job, book, imported, lines, trouble>>

\* The first loop: what to do with the tag, from its level now.
Plan(p) ==
    LET prior == shell[p].prior
        absent == shell[p].want = "absent"
        plan == [original |-> Original(prior), previous |-> level,
                 target |-> IF absent THEN Original(prior) ELSE shell[p].want]
    IN
    /\ shell[p].pc = "plan"
    /\ shell' = [shell EXCEPT ![p] = [NoShell EXCEPT !.pc = "pend", !.keep = ~absent,
                                         !.plan = IF absent /\ ~Ours(prior) THEN None ELSE plan]]
    /\ UNCHANGED <<level, own, receipt, capture, visit, policy, job, book, imported, lines, trouble>>

\* The pending receipt replaces the old one.
Pending(p) == shell[p].plan

Pend(p) ==
    /\ shell[p].pc = "pend"
    /\ receipt' = Pending(p)
    /\ shell' = Replaced(p, "set")
    /\ UNCHANGED <<level, own, capture, visit, policy, job, book, imported, lines, trouble>>

\* The second loop: a level that moved since the plan ends the command.
SetLevel(p) ==
    /\ shell[p].pc = "set"
    /\ IF shell[p].plan = None THEN shell' = [shell EXCEPT ![p].pc = "final"] /\ UNCHANGED level
       ELSE IF level # shell[p].plan.previous THEN Die(p) /\ UNCHANGED level
       ELSE shell' = [shell EXCEPT ![p].pc = "final"] /\ level' = shell[p].plan.target
    /\ UNCHANGED <<own, receipt, capture, visit, policy, job, book, imported, lines, trouble>>

\* The final receipt holds the tags that stay managed.
Final(p) ==
    LET plan == shell[p].plan IN
    /\ shell[p].pc = "final"
    /\ receipt' = IF plan # None /\ shell[p].keep THEN [plan EXCEPT !.previous = plan.target] ELSE None
    /\ shell' = [Replaced(p, "done") EXCEPT ![p] = [NoShell EXCEPT !.pc = "done"]]
    /\ UNCHANGED <<level, own, capture, visit, policy, job, book, imported, lines, trouble>>

\* The command is cut short wherever it is.
Cut(p) ==
    /\ shell[p].pc \in {"start", "plan", "pend", "set", "final"} /\ Meets("cut")
    /\ Die(p)
    /\ UNCHANGED <<level, own, receipt, capture, visit, policy, job, book, imported, lines>>

\* Somebody else sets the tag's level.
Foreign(l) ==
    /\ l # level /\ Meets("foreign")
    /\ level' = l /\ own' = l
    /\ UNCHANGED <<receipt, shell, capture, visit, policy, job, book, imported, lines>>

Shelling(p) == Guard(p) \/ Plan(p) \/ Pend(p) \/ SetLevel(p) \/ Final(p)

---------------------------------------------------------------------------
(* The task.                                                                *)

\* The address leaves _needs_collection only when a fresh capture was started.
Needed(b, armed) == [b EXCEPT !.needs = @ /\ ~armed]

\* _start_task; an arrival is on the books from its first step.
Started(b, arrival) == [b EXCEPT !.needs = @ \/ arrival, !.due = FALSE]
Begun(arrival) == [NoJob EXCEPT !.pc = "read", !.arrival = arrival]

\* _task_finished: an arrival that came meanwhile is served now.
_task_finished(armed) ==
    LET b == IF job.arrival THEN Needed(book, armed) ELSE book IN
    IF b.pending
    THEN job' = Begun(TRUE) /\ book' = Started([b EXCEPT !.pending = FALSE], TRUE)
    ELSE job' = NoJob /\ book' = b

\* on_unit_seen: once per visit and policy, and again while a collection is owed.
on_unit_seen ==
    LET request == [visit |-> visit.id, policy |-> policy]
        b == [book EXCEPT !.asked = request]
    IN
    /\ visit.online /\ visit.arriving
    /\ \/ /\ book.asked = request
          /\ IF book.needs /\ job.pc = "none" /\ book.due
             THEN job' = Begun(TRUE) /\ book' = Started(book, TRUE)
             ELSE UNCHANGED <<job, book>>
       \/ /\ book.asked # request /\ job.pc # "none"
          /\ book' = [b EXCEPT !.pending = TRUE] /\ UNCHANGED job
       \/ /\ book.asked # request /\ job.pc = "none"
          /\ job' = Begun(TRUE) /\ book' = Started(b, TRUE)
    /\ \E held \in BOOLEAN : visit' = [visit EXCEPT !.arriving = held]
    /\ UNCHANGED <<unit, capture, policy, imported, lines, trouble>>

\* on_unit_present: a refresh, or the arrival's work while it is owed.
on_unit_present ==
    /\ visit.online /\ job.pc = "none" /\ book.due
    /\ job' = Begun(book.needs) /\ book' = Started(book, book.needs)
    /\ UNCHANGED <<unit, capture, visit, policy, imported, lines, trouble>>

\* REFRESH_S have passed.
Due ==
    /\ ~book.due /\ book' = [book EXCEPT !.due = TRUE]
    /\ UNCHANGED <<unit, capture, visit, policy, job, imported, lines, trouble>>

\* UnitLogReadError: the task ends, the capture stays for the next one.
Unread == _task_finished(FALSE)

\* _read_capture: an arrival stops the capture first.  The answer may be lost
\* after that.
_read_capture ==
    /\ job.pc = "read" /\ visit.online
    /\ capture' = [capture EXCEPT !.running = @ /\ ~job.arrival]
    /\ \/ job' = [job EXCEPT !.pc = "store", !.got = capture.file] /\ UNCHANGED <<book, trouble>>
       \/ Meets("unread") /\ Unread
    /\ UNCHANGED <<unit, visit, policy, imported, lines>>

\* store: one row per line, however often it is read; or the database is locked.
store ==
    /\ job.pc = "store"
    /\ \/ /\ imported' = imported \cup job.got /\ UNCHANGED trouble
          /\ IF job.arrival THEN job' = [job EXCEPT !.pc = "receipt", !.got = {}] /\ UNCHANGED book
             ELSE _task_finished(FALSE)
       \/ Meets("locked") /\ _task_finished(FALSE) /\ UNCHANGED imported
    /\ UNCHANGED <<unit, capture, visit, policy, lines>>

Free == {p \in Shells : shell[p].pc \in {"none", "dead", "done"}}

\* ensure_logging: the receipt is read and the command for it sent.
ensure_logging ==
    /\ job.pc = "receipt" /\ visit.online
    /\ \E p \in Free :
         /\ \A q \in Free : p <= q
         /\ shell' = [shell EXCEPT ![p] = [NoShell EXCEPT !.pc = "start", !.prior = receipt, !.want = policy]]
         /\ job' = [job EXCEPT !.pc = "apply", !.shell = p]
    /\ UNCHANGED <<level, own, receipt, capture, visit, policy, book, imported, lines, trouble>>

\* Its answer: applied, refused, or none within UNIT_LOG_TIMEOUT_S while the
\* command goes on.
Applied ==
    /\ job.pc = "apply"
    /\ \/ shell[job.shell].pc = "done" /\ job' = [job EXCEPT !.pc = "launch"] /\ UNCHANGED <<book, trouble>>
       \/ shell[job.shell].pc = "dead" /\ _task_finished(FALSE) /\ UNCHANGED trouble
       \/ Meets("no answer") /\ _task_finished(FALSE)
    /\ UNCHANGED <<unit, capture, visit, policy, imported, lines>>

\* arm: the files are deleted and a capture is started; the answer may be lost.
arm ==
    /\ job.pc = "launch" /\ visit.online
    /\ capture' = [running |-> TRUE, file |-> {}]
    /\ \/ _task_finished(TRUE) /\ UNCHANGED trouble
       \/ Meets("no answer") /\ _task_finished(FALSE)
    /\ UNCHANGED <<unit, visit, policy, imported, lines>>

\* The unit is gone: whatever the task asks fails.
Unreachable ==
    /\ job.pc \in {"read", "receipt", "launch"} /\ ~visit.online
    /\ _task_finished(FALSE)
    /\ UNCHANGED <<unit, capture, visit, policy, imported, lines, trouble>>

Working == _read_capture \/ store \/ ensure_logging \/ Applied \/ arm \/ Unreachable

---------------------------------------------------------------------------
(* The environment.                                                         *)

\* The capture writes a line.
Line ==
    /\ capture.running /\ lines < MaxLine
    /\ lines' = lines + 1 /\ capture' = [capture EXCEPT !.file = @ \cup {lines + 1}]
    /\ UNCHANGED <<unit, visit, policy, job, book, imported, trouble>>

\* The car leaves; the capture goes on.
Leave ==
    /\ visit.online /\ visit.id < MaxVisit
    /\ visit' = [visit EXCEPT !.online = FALSE]
    /\ UNCHANGED <<unit, capture, policy, job, book, imported, lines, trouble>>

Arrive ==
    /\ ~visit.online
    /\ visit' = [id |-> visit.id + 1, online |-> TRUE, arriving |-> TRUE]
    /\ UNCHANGED <<unit, capture, policy, job, book, imported, lines, trouble>>

\* The unit reboots away from home: levels do not survive, files do.
Reboot ==
    /\ ~visit.online /\ Meets("reboot")
    /\ level' = "-" /\ own' = "-"
    /\ shell' = [p \in Shells |-> IF shell[p].pc = "none" THEN NoShell ELSE [NoShell EXCEPT !.pc = "dead"]]
    /\ capture' = [capture EXCEPT !.running = FALSE]
    /\ UNCHANGED <<receipt, visit, policy, job, book, imported, lines>>

\* The settings change.
SetPolicy(p) ==
    /\ p # policy /\ Meets("policy") /\ policy' = p
    /\ UNCHANGED <<unit, capture, visit, job, book, imported, lines>>

\* shutdown, and a new process: the poller meets the unit anew.
shutdown ==
    /\ Meets("restart")
    /\ job' = NoJob /\ book' = NoBook /\ visit' = [visit EXCEPT !.arriving = TRUE]
    /\ UNCHANGED <<unit, capture, policy, imported, lines>>

Next ==
    \/ \E p \in Shells : Shelling(p) \/ Cut(p)
    \/ \E l \in OwnLevels : Foreign(l)
    \/ \E p \in Policies : SetPolicy(p)
    \/ on_unit_seen \/ on_unit_present \/ Due \/ Working
    \/ Line \/ Leave \/ Arrive \/ Reboot \/ shutdown

Spec == /\ Init /\ [][Next]_vars /\ WF_vars(Working) /\ WF_vars(on_unit_seen) /\ WF_vars(on_unit_present)
        /\ WF_vars(Due) /\ \A p \in Shells : WF_vars(Shelling(p))

---------------------------------------------------------------------------
\* Every variable keeps its type: the level, the lock on it and the captures.
TypeOK ==
    /\ level \in OwnLevels \cup (Policies \ {"absent"}) /\ own \in OwnLevels
    /\ Cardinality(Holding) <= 1
    /\ capture.file \subseteq 1 .. lines /\ imported \subseteq 1 .. lines

\* A line that was captured is imported before its file is deleted.
LinesKept == imported \cup capture.file = 1 .. lines

\* However often the level command is cut short, repeated or overtaken, the
\* level others gave the tag is known: it is the tag's level, or the original
\* of the receipt under which this program changed it.
OriginalKept == Original(receipt) = own

\* A capture that is not running is started while the unit is here, whatever
\* fails on the way.
Rearmed == visit.online /\ ~capture.running ~> capture.running \/ ~visit.online
=============================================================================
