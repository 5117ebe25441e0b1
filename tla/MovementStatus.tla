--------------------------- MODULE MovementStatus ----------------------------
(* The movement report of the unit as the server last saw it                 *)
(* (ingest/movement.py): read and validated before a plan is made, matched   *)
(* with the clips on the card, kept in memory and in one file.               *)
EXTENDS Integers, FiniteSets

CONSTANTS
    Reports,          \* texts the unit may hold: [valid, card, clips, age]
    Cards,            \* cards that may be in the unit
    Remote,           \* listing of the card: clip -> [size, mtime]
    MAX_AGE,          \* age from which a report is stale
    MaxInspections,   \* bound: inspections of one behaviour
    ReportEvents,     \* the environment's events, each met once
    FewEvents         \* bound: how many of them in one behaviour

VARIABLES
    device,     \* [report, card]
    memory,     \* MovementStatus: [doc, inventory, error, checked, restored, loaded]
    stored,     \* last-observation.json, or NoFile
    load,       \* load_once in a thread: [pc, read]
    persist,    \* the single writer: [pc, envelope]
    inspect,    \* inspection: [pc, doc, error, card]
    validator,  \* a validation thread is busy
    tally,      \* inspections begun
    live,       \* history: this process has made an observation of its own
    met         \* events of the environment met so far

vars == <<device, memory, stored, load, persist, inspect, validator, tally, live, met>>

Classes == {"unknown", "moving_observed", "sampled_stationary", "acc_off_candidate"}
Nothing == [valid |-> FALSE]
NoFile == [checked |-> 0]
NoInventory == [card |-> "unknown", matched |-> {}]
Memory == [doc |-> Nothing, inventory |-> NoInventory, error |-> "none", checked |-> 0, restored |-> FALSE, loaded |-> FALSE]
Meets(event) == event \in ReportEvents \ met /\ Cardinality(met) < FewEvents /\ met' = met \cup {event}

---------------------------------------------------------------------------
(* What a clip's claim is worth: [claim, path, locked, time, window, acc,   *)
(* off, speed, gap, samples, moving, top, gps, gpsmoving, gpstop, size,     *)
(* mtime]; coverage in tenths of the window.                                *)

\* _validate_clip: the marks of a clip agree with its place; an orphan claims nothing.
_validate_clip(c) ==
    /\ c.claim \in Classes
    /\ c.locked = (c.path = "LockVideo")
    /\ c.path = "pre" => c.claim = "unknown" /\ c.time = "unknown"

\* validate_manifest: clips only from a ready report of a known card.
validate_manifest(doc) ==
    /\ doc.valid
    /\ DOMAIN doc.clips # {} => doc.card # 0
    /\ \A n \in DOMAIN doc.clips : _validate_clip(doc.clips[n])

\* _time_agrees
_time_agrees(c) == c.time = "bounded" /\ c.window > 0

\* Any sign of movement contradicts a claim that the car stood.
Contradicted(c) == c.moving > 0 \/ c.gpsmoving > 0 \/ c.top > 0

Positive(c) == (c.moving > 0 /\ c.top > 0) \/ (c.gpsmoving > 0 /\ c.gps >= 2 /\ c.gpstop > 1)

\* _effective_class: a claim its own evidence does not carry is "unknown".
_effective_class(c) ==
    IF \/ ~_time_agrees(c)
       \/ c.acc > 10 \/ c.speed > 10 \/ c.off > c.acc
       \/ c.moving > c.samples \/ c.gpsmoving > c.gps
    THEN "unknown"
    ELSE CASE c.claim = "moving_observed" /\ Positive(c) -> c.claim
           [] c.claim = "sampled_stationary" /\ ~Contradicted(c) /\ c.samples > 0 /\ c.top = 0
                /\ c.speed >= 9 /\ c.gap <= 10 -> c.claim
           [] c.claim = "acc_off_candidate" /\ ~Contradicted(c) /\ c.acc >= 9 /\ c.off >= 9 -> c.claim
           [] OTHER -> "unknown"

\* inventory_summary: only clips of the verified card, of the size and time
\* reported, count under their class.
inventory_summary(doc, card) ==
    [card |-> card,
     matched |-> IF ~doc.valid \/ card # "verified" THEN {}
                 ELSE {n \in DOMAIN Remote \cap DOMAIN doc.clips :
                         doc.clips[n].size = Remote[n].size /\ doc.clips[n].mtime = Remote[n].mtime}]

---------------------------------------------------------------------------
Init ==
    /\ device \in [report : Reports, card : Cards]
    /\ memory = Memory
    /\ stored \in {NoFile} \cup {[checked |-> 1, doc |-> r, inventory |-> NoInventory, error |-> "none"] : r \in {r \in Reports : validate_manifest(r)}}
    /\ load = [pc |-> "idle", read |-> NoFile]
    /\ persist = [pc |-> "idle", envelope |-> NoFile]
    /\ inspect = [pc |-> "idle", doc |-> Nothing, error |-> "none", card |-> "unknown"]
    /\ validator = FALSE /\ tally = 0 /\ live = FALSE /\ met = {}

\* The unit writes another report, or another card is put in.
Rewrite ==
    /\ \/ \E r \in Reports : r # device.report /\ Meets("report") /\ device' = [device EXCEPT !.report = r]
       \/ \E c \in Cards : c # device.card /\ Meets("card") /\ device' = [device EXCEPT !.card = c]
    /\ UNCHANGED <<memory, stored, load, persist, inspect, validator, tally, live>>

\* load_status: the file is read once, in a thread.
BeginLoad ==
    /\ load.pc = "idle" /\ ~memory.loaded
    /\ memory' = [memory EXCEPT !.loaded = TRUE]
    /\ load' = [pc |-> "read", read |-> stored]
    /\ UNCHANGED <<device, stored, persist, inspect, validator, tally, live, met>>

\* ... and published only where nothing was observed meanwhile.
Loaded(mem, file) ==
    IF mem.checked # 0 THEN mem
    ELSE [mem EXCEPT !.doc = file.doc, !.inventory = file.inventory, !.error = file.error, !.checked = file.checked, !.restored = TRUE]

load_once ==
    /\ load.pc = "read"
    /\ memory' = IF load.read = NoFile \/ (load.read.doc.valid /\ ~validate_manifest(load.read.doc))
                 THEN memory ELSE Loaded(memory, load.read)
    /\ load' = [pc |-> "done", read |-> NoFile]
    /\ UNCHANGED <<device, stored, persist, inspect, validator, tally, live, met>>

---------------------------------------------------------------------------
(* _inspect_before_plan.                                                    *)

inspect_before_plan ==
    /\ inspect.pc = "idle" /\ tally < MaxInspections
    /\ tally' = tally + 1
    /\ inspect' = [pc |-> "read", doc |-> Nothing, error |-> "none", card |-> "unknown"]
    /\ UNCHANGED <<device, memory, stored, load, persist, validator, live, met>>

\* read_remote_manifest and _validate_async: one validation at a time; the
\* thread of one that was cut off goes on.
read_remote_manifest ==
    /\ inspect.pc = "read"
    /\ \/ /\ ~validator
          /\ validator' = TRUE
          /\ inspect' = [inspect EXCEPT !.pc = "validate", !.doc = device.report]
          /\ UNCHANGED met
       \/ /\ \/ validator /\ UNCHANGED met
             \/ Meets("unreadable")
          /\ inspect' = [inspect EXCEPT !.pc = "update", !.error = "read_failed"]
          /\ UNCHANGED validator
    /\ UNCHANGED <<device, memory, stored, load, persist, tally, live>>

Validated ==
    /\ inspect.pc = "validate" /\ validator
    /\ validator' = FALSE
    /\ inspect' = IF validate_manifest(inspect.doc) THEN [inspect EXCEPT !.pc = "card"]
                  ELSE [inspect EXCEPT !.pc = "update", !.doc = Nothing, !.error = "invalid_manifest"]
    /\ UNCHANGED <<device, memory, stored, load, persist, tally, live, met>>

ValidatorEnds ==
    /\ inspect.pc # "validate" /\ validator
    /\ validator' = FALSE
    /\ UNCHANGED <<device, memory, stored, load, persist, inspect, tally, live, met>>

\* read_remote_card_id: the card that is in the unit now, or no answer.
read_remote_card_id ==
    /\ inspect.pc = "card"
    /\ \E card \in {"unknown", IF device.card = inspect.doc.card THEN "verified" ELSE "mismatch"} :
         inspect' = [inspect EXCEPT !.pc = "update", !.card = card]
    /\ UNCHANGED <<device, memory, stored, load, persist, validator, tally, live, met>>

Observed(mem, doc, inventory, error) ==
    [mem EXCEPT !.loaded = TRUE, !.restored = FALSE, !.checked = 2, !.error = error, !.inventory = inventory,
                !.doc = IF doc = Nothing THEN @ ELSE doc]

\* update_memory, once the file has been loaded.
update_memory ==
    /\ inspect.pc = "update" /\ memory.loaded /\ load.pc # "read"
    /\ memory' = Observed(memory, inspect.doc, inventory_summary(inspect.doc, inspect.card), inspect.error)
    /\ live' = TRUE
    /\ inspect' = [inspect EXCEPT !.pc = "persist", !.doc = Nothing]
    /\ UNCHANGED <<device, stored, load, persist, validator, tally, met>>

\* The inspection's time is up: it says so without waiting for the load.
TimedOut ==
    /\ inspect.pc \notin {"idle", "persist"} /\ Meets("timeout")
    /\ memory' = Observed(memory, Nothing, NoInventory, "read_timeout")
    /\ live' = TRUE
    /\ inspect' = [inspect EXCEPT !.pc = "idle", !.doc = Nothing, !.error = "none", !.card = "unknown"]
    /\ UNCHANGED <<device, stored, load, persist, validator, tally>>

\* _persist_async: joins the writer under way, or starts one.
_persist_async ==
    /\ inspect.pc = "persist"
    /\ inspect' = [inspect EXCEPT !.pc = "idle", !.error = "none", !.card = "unknown"]
    /\ persist' = IF persist.pc = "idle"
                  THEN [pc |-> "write", envelope |-> [checked |-> memory.checked, doc |-> memory.doc,
                                                      inventory |-> memory.inventory, error |-> memory.error]]
                  ELSE persist
    /\ UNCHANGED <<device, memory, stored, load, validator, tally, live, met>>

_persist ==
    /\ persist.pc = "write"
    /\ \/ stored' = persist.envelope /\ UNCHANGED met
       \/ Meets("disk full") /\ UNCHANGED stored
    /\ persist' = [pc |-> "idle", envelope |-> NoFile]
    /\ UNCHANGED <<device, memory, load, inspect, validator, tally, live>>

Restart ==
    /\ Meets("restart")
    /\ memory' = Memory /\ live' = FALSE /\ validator' = FALSE
    /\ load' = [pc |-> "idle", read |-> NoFile]
    /\ persist' = [pc |-> "idle", envelope |-> NoFile]
    /\ inspect' = [pc |-> "idle", doc |-> Nothing, error |-> "none", card |-> "unknown"]
    /\ UNCHANGED <<device, stored, tally>>

Next ==
    \/ Rewrite \/ BeginLoad \/ load_once \/ inspect_before_plan \/ read_remote_manifest \/ Validated
    \/ ValidatorEnds \/ read_remote_card_id \/ update_memory \/ TimedOut \/ _persist_async \/ _persist \/ Restart

Inspecting ==
    \/ BeginLoad \/ load_once \/ read_remote_manifest \/ Validated \/ read_remote_card_id \/ update_memory \/ _persist_async

Spec == Init /\ [][Next]_vars /\ WF_vars(Inspecting)

---------------------------------------------------------------------------
\* snapshot: what is shown; class counts of a stale or failed observation are
\* all "unknown".
snapshot ==
    LET stale == memory.restored \/ (memory.doc.valid /\ memory.doc.age > MAX_AGE) IN
    [state |-> IF memory.error # "none" THEN "error"
               ELSE IF ~memory.doc.valid THEN "unavailable" ELSE IF stale THEN "stale" ELSE "ready",
     classes |-> IF stale \/ memory.error # "none" THEN {}
                 ELSE {_effective_class(memory.doc.clips[n]) : n \in memory.inventory.matched}]

\* The document in memory is one that passes validation.
TypeOK ==
    /\ memory.doc.valid => validate_manifest(memory.doc)
    /\ memory.inventory.matched \subseteq DOMAIN Remote
    /\ memory.checked \in 0 .. 2

\* What is shown as ready was observed by this process and checked to the end; a
\* restored observation is never shown as a live one.
ReadyIsLive ==
    /\ snapshot.state = "ready" => live /\ ~memory.restored
    /\ live => memory.checked = 2 /\ ~memory.restored

\* A clip counted as one in which the car stood still is on the card that was
\* verified, unchanged, and carries no sign of movement, whatever it claims.
MovementNeverParks ==
    snapshot.classes # {} =>
    \A n \in memory.inventory.matched :
        LET c == memory.doc.clips[n] IN
        _effective_class(c) \in {"sampled_stationary", "acc_off_candidate"} =>
        /\ c.moving = 0 /\ c.gpsmoving = 0 /\ c.top = 0 /\ c.path # "pre"
        /\ memory.inventory.card = "verified" /\ c.size = Remote[n].size

\* An inspection ends, and never waits for the file it saves.
InspectionEnds == inspect.pc # "idle" ~> inspect.pc = "idle"
=============================================================================
