------------------------------ MODULE MediaGate ------------------------------
(* The slot for work that touches the Intel media stack (hardware/ffmpeg.py): *)
(* a lock, the media children still alive and a verdict on both.  ffprobe,    *)
(* hardware decoding and inference on the iGPU (ai/detector.py) go through    *)
(* it; software decoding does not.                                            *)
(*                                                                            *)
(* One recording file serves every task.  A child that does not die when it   *)
(* is killed is wedged until the driver lets it go.                           *)
EXTENDS Naturals, FiniteSets

CONSTANTS
    Tasks,           \* the tasks of the event loop
    Kinds,           \* what they do: "probe", "decode", "detect"
    ATTEMPTS,        \* hardware attempts of one decode (3)
    MediaEvents,     \* what may happen, each once
    FewMediaEvents   \* bound: how many of them in one behaviour

VARIABLES
    gate,      \* [holder, unhealthy]
    task,      \* [pc, kind, label, tries, out, asked, told]
    child,     \* task -> its media child: "none", "gated", "plain"
    wedged,    \* tasks whose killed child is still there, registered
    orphan,    \* tasks that left a child nobody registered, or an inference
    engaged,   \* inference uses the iGPU (gpu_inference_engaged)
    verdict,   \* of hardware decoding this file: [proven, refused]
    file,      \* the version of the file
    probes,    \* _probe_cache and _probe_failures: [known, shows, failed]
    mishaps    \* events so far

vars == <<gate, task, child, wedged, orphan, engaged, verdict, file, probes, mishaps>>
shared == <<engaged, verdict, file, probes>>

Nobody == 0
Absent == 99
NoTask == [pc |-> "idle", kind |-> "probe", label |-> "software", tries |-> 0, out |-> FALSE, asked |-> 0, told |-> 0]
Meets(event) ==
    event \in MediaEvents \ mishaps /\ Cardinality(mishaps) < FewMediaEvents /\ mishaps' = mishaps \cup {event}

Init ==
    /\ gate = [holder |-> Nobody, unhealthy |-> FALSE]
    /\ task = [t \in Tasks |-> NoTask]
    /\ child = [t \in Tasks |-> "none"]
    /\ wedged = {} /\ orphan = {} /\ engaged \in BOOLEAN
    /\ verdict = [proven |-> FALSE, refused |-> FALSE]
    /\ file = 0 /\ probes = [known |-> Absent, shows |-> Absent, failed |-> Absent]
    /\ mishaps = {}

Goto(t, pc) == task' = [task EXCEPT ![t].pc = pc]

\* The gated children that are alive, and the registered ones among them.
Alive == {t \in Tasks : child[t] = "gated"}
Enrolled == {t \in Alive : task[t].pc # "launch"}
Registered == Enrolled \cup wedged

---------------------------------------------------------------------------
(* The gate.                                                                *)

\* __aenter__: the lock, then settle.
Acquire(t) ==
    /\ task[t].pc = "acquire" /\ gate.holder = Nobody
    /\ gate' = [gate EXCEPT !.holder = t]
    /\ Goto(t, "settle")
    /\ UNCHANGED <<child, wedged, orphan, shared, mishaps>>

\* settle: every gated child has exited, or MEDIA_SETTLE_TIMEOUT_S have passed
\* and the gate is unhealthy; either way the slot is entered.
settle(t) ==
    /\ task[t].pc = "settle"
    /\ gate' = [gate EXCEPT !.unhealthy = @ \/ Registered # {}]
    /\ Goto(t, "inside")
    /\ UNCHANGED <<child, wedged, orphan, shared, mishaps>>

\* Mutant: the lock is kept.
KeepSlot(t, g) == g

\* __aexit__.
Release(t, g) == IF g.holder = t THEN [g EXCEPT !.holder = Nobody] ELSE g

\* retire: the verdict stands while a gated child is registered.
retire(left) == gate.unhealthy /\ left # {}

\* The reaper: the driver lets the child go.
reap_later(t) ==
    /\ t \in wedged
    /\ wedged' = wedged \ {t}
    /\ gate' = [gate EXCEPT !.unhealthy = retire(Enrolled \cup (wedged \ {t}))]
    /\ UNCHANGED <<task, child, orphan, shared, mishaps>>

---------------------------------------------------------------------------
(* What the tasks do.                                                       *)

\* software_decode_reason: the gate is unhealthy or inference has the iGPU.
software_decode_reason == gate.unhealthy \/ engaged
Label == IF software_decode_reason \/ verdict.refused THEN "software" ELSE "vaapi"

\* probe: the identity of the file, then the caches.
AskProbe(t) ==
    /\ task[t].pc = "idle" /\ "probe" \in Kinds
    /\ IF probes.known = file
       THEN task' = [task EXCEPT ![t] = [NoTask EXCEPT !.pc = "answered", !.asked = file, !.told = probes.shows]]
       ELSE IF probes.failed = file
       THEN task' = [task EXCEPT ![t] = [NoTask EXCEPT !.pc = "failed"]]
       ELSE task' = [task EXCEPT ![t] = [NoTask EXCEPT !.pc = "acquire", !.asked = file]]
    /\ UNCHANGED <<gate, child, wedged, orphan, shared, mishaps>>

\* iter_frames, write_thumbnail: the decoder is chosen; hardware needs the slot.
AskDecode(t) ==
    /\ task[t].pc = "idle" /\ "decode" \in Kinds
    /\ task' = [task EXCEPT ![t] = [NoTask EXCEPT !.kind = "decode", !.label = Label,
                                      !.pc = IF Label = "vaapi" THEN "acquire" ELSE "inside"]]
    /\ UNCHANGED <<gate, child, wedged, orphan, shared, mishaps>>

\* detect: on the iGPU only while the slot is sound, otherwise demoted to CPU.
\* The question is asked before the slot is waited for.
AskDetect(t) ==
    /\ task[t].pc = "idle" /\ "detect" \in Kinds /\ engaged
    /\ engaged' = ~gate.unhealthy
    /\ task' = [task EXCEPT ![t] = [NoTask EXCEPT !.kind = "detect",
                                      !.pc = IF gate.unhealthy THEN "answered" ELSE "acquire"]]
    /\ UNCHANGED <<gate, child, wedged, orphan, verdict, file, probes, mishaps>>

\* Inside: a child is launched (a decoder that was to be hardware is chosen
\* again), or the inference runs.
Launch(t) ==
    LET label == IF task[t].label = "software" THEN "software" ELSE Label IN
    /\ task[t].pc = "inside"
    /\ task' = [task EXCEPT ![t].label = label,
         ![t].pc = CASE task[t].kind = "detect" -> "infer"
                     [] task[t].kind = "decode" /\ label = "software" -> "run"
                     [] OTHER -> "launch"]
    /\ child' = [child EXCEPT ![t] = CASE task[t].kind = "detect" -> "none"
                                       [] task[t].kind = "probe" -> "gated"
                                       [] OTHER -> IF label = "vaapi" THEN "gated" ELSE "plain"]
    /\ UNCHANGED <<gate, wedged, orphan, shared, mishaps>>

Inferred(t) ==
    /\ task[t].pc = "infer"
    /\ gate' = Release(t, gate) /\ Goto(t, "answered")
    /\ UNCHANGED <<child, wedged, orphan, shared, mishaps>>

\* Cancelled while it waits for the inference (a cancelled job, abort_active),
\* the task gives the slot back; the thread goes on.
InferenceCancelled(t) ==
    /\ task[t].pc = "infer" /\ t \notin orphan /\ Meets("cancelled")
    /\ orphan' = orphan \cup {t}
    /\ task' = [task EXCEPT ![t] = [NoTask EXCEPT !.pc = "failed"]] /\ gate' = Release(t, gate)
    /\ UNCHANGED <<child, wedged, shared>>

\* _spawn_media waits MEDIA_LAUNCH_SETTLE_S before the child is registered.
_register_child(t) ==
    /\ task[t].pc = "launch"
    /\ Goto(t, "run")
    /\ UNCHANGED <<gate, child, wedged, orphan, shared, mishaps>>

\* Cancelled in that wait, the task leaves a child nobody knows.
LaunchCancelled(t) ==
    /\ task[t].pc = "launch" /\ child[t] = "gated" /\ t \notin orphan /\ Meets("cancelled")
    /\ orphan' = orphan \cup {t} /\ child' = [child EXCEPT ![t] = "none"]
    /\ task' = [task EXCEPT ![t] = [NoTask EXCEPT !.pc = "failed"]] /\ gate' = Release(t, gate)
    /\ UNCHANGED <<wedged, shared>>

\* The child exits, or the inference returns.
OrphanExits(t) ==
    /\ t \in orphan
    /\ orphan' = orphan \ {t}
    /\ UNCHANGED <<gate, task, child, wedged, shared, mishaps>>

\* _decode_frames hands a frame out: the file is proven.
Frame(t) ==
    /\ task[t].pc = "run" /\ task[t].kind = "decode" /\ ~task[t].out
    /\ task' = [task EXCEPT ![t].out = TRUE]
    /\ verdict' = [verdict EXCEPT !.proven = @ \/ child[t] = "gated"]
    /\ UNCHANGED <<gate, child, wedged, orphan, engaged, file, probes, mishaps>>

---------------------------------------------------------------------------
(* _close_child, then what the outcome means.                               *)

\* The child is gone when the slot is given back, or wedged and with the reaper.
_close_child(t) ==
    /\ child' = [child EXCEPT ![t] = "none"]
    /\ \/ /\ UNCHANGED <<wedged, mishaps>>
          /\ gate' = Release(t, [gate EXCEPT !.unhealthy = retire((Enrolled \ {t}) \cup wedged)])
       \/ /\ child[t] = "gated" /\ t \notin wedged /\ Meets("wedged")
          /\ wedged' = wedged \cup {t}
          /\ gate' = Release(t, gate)

\* The identity read before the probe ran.
Identity(t) == task[t].asked

\* ffprobe answers for the file there is, or fails and is not tried again for a while.
Probed(t) ==
    /\ task[t].pc = "run" /\ task[t].kind = "probe"
    /\ \/ /\ task' = [task EXCEPT ![t].pc = "close", ![t].told = file, ![t].out = TRUE]
          /\ UNCHANGED mishaps
       \/ Meets("probe fails") /\ Goto(t, "close")
    /\ UNCHANGED <<gate, child, wedged, orphan, shared>>

ProbeDone(t) ==
    /\ task[t].pc = "close" /\ task[t].kind = "probe"
    /\ _close_child(t)
    /\ probes' = IF task[t].out THEN [known |-> Identity(t), shows |-> task[t].told, failed |-> Absent]
                 ELSE [probes EXCEPT !.failed = Identity(t)]
    /\ IF task[t].out THEN Goto(t, "answered") ELSE task' = [task EXCEPT ![t] = [NoTask EXCEPT !.pc = "failed"]]
    /\ UNCHANGED <<orphan, engaged, verdict, file>>

\* _PROBE_FAILURE_BACKOFF_S have passed.
Backoff ==
    /\ probes.failed # Absent
    /\ probes' = [probes EXCEPT !.failed = Absent]
    /\ UNCHANGED <<gate, task, child, wedged, orphan, engaged, verdict, file, mishaps>>

DecodeDone(t) ==
    /\ task[t].pc = "run" /\ task[t].kind = "decode" /\ task[t].out
    /\ _close_child(t)
    /\ task' = [task EXCEPT ![t] = [NoTask EXCEPT !.pc = "answered", !.kind = "decode"]]
    /\ UNCHANGED <<orphan, shared>>

\* Only a hardware decode that handed nothing out may be begun again.
Retryable(t) == child[t] = "gated" /\ ~task[t].out

\* A decode fails: for good, again in hardware (transient), or in software,
\* after which the file is refused unless it has been proven.
DecodeFails(t) ==
    /\ task[t].pc = "run" /\ task[t].kind = "decode"
    /\ \E transient \in BOOLEAN :
          /\ IF ~Retryable(t) THEN task' = [task EXCEPT ![t] = [NoTask EXCEPT !.pc = "failed"]] /\ UNCHANGED verdict
             ELSE IF transient /\ task[t].tries + 1 < ATTEMPTS
             THEN task' = [task EXCEPT ![t].pc = "acquire", ![t].tries = @ + 1] /\ UNCHANGED verdict
             ELSE /\ task' = [task EXCEPT ![t].pc = "inside", ![t].label = "software"]
                  /\ verdict' = [verdict EXCEPT !.refused = @ \/ (~transient /\ ~verdict.proven)]
    /\ _close_child(t)
    /\ UNCHANGED <<orphan, engaged, file, probes>>

---------------------------------------------------------------------------
Return(t) ==
    /\ task[t].pc \in {"answered", "failed"}
    /\ task' = [task EXCEPT ![t] = NoTask]
    /\ UNCHANGED <<gate, child, wedged, orphan, shared, mishaps>>

\* The file is replaced by another of its name.
Replaced ==
    /\ Meets("replaced") /\ file' = file + 1
    /\ UNCHANGED <<gate, task, child, wedged, orphan, engaged, verdict, probes>>

Working(t) ==
    \/ settle(t) \/ Launch(t) \/ Inferred(t) \/ _register_child(t) \/ Frame(t) \/ Probed(t) \/ ProbeDone(t)
    \/ DecodeDone(t) \/ Return(t)

Next ==
    \/ \E t \in Tasks :
         \/ AskProbe(t) \/ AskDecode(t) \/ AskDetect(t) \/ Acquire(t) \/ Working(t) \/ DecodeFails(t)
         \/ InferenceCancelled(t) \/ LaunchCancelled(t) \/ OrphanExits(t) \/ reap_later(t)
    \/ Backoff \/ Replaced

Spec == /\ Init /\ [][Next]_vars
        /\ \A t \in Tasks : WF_vars(Working(t)) /\ SF_vars(Acquire(t)) /\ WF_vars(reap_later(t))

---------------------------------------------------------------------------
\* Every variable keeps its type: the slot, the children and the tries.
TypeOK ==
    /\ gate.holder \in Tasks \cup {Nobody} /\ gate.unhealthy \in BOOLEAN
    /\ \A t \in Tasks : task[t].tries < ATTEMPTS /\ child[t] \in {"none", "gated", "plain"}
    /\ wedged \subseteq Tasks /\ orphan \subseteq Tasks

\* What is on the chip, but for what a cancelled task left there.
OnTheChip == Cardinality(Alive \cup {t \in Tasks : task[t].pc = "infer"}) + Cardinality(wedged)

\* Two users of the chip at once are never unnoticed: the gate is unhealthy for
\* as long as they are.  Cancellation breaks it: a child not yet registered and
\* an inference go on unknown to the gate, and are not counted here.
OverlapIsKnown == OnTheChip > 1 => gate.unhealthy

\* A caller is told of the file as it was when it asked, or later: a cache
\* entry never describes an earlier file than its identity.
ProbeIsFresh == \A t \in Tasks : task[t].pc = "answered" /\ task[t].kind = "probe" => task[t].told >= task[t].asked

\* Frames that were handed out are not decoded again for the same caller.
FramesOnce == \A t \in Tasks : task[t].out /\ task[t].kind = "decode" => task[t].pc = "run"

\* Tasks are interchangeable: what holds of one holds of each.
ATask == CHOOSE t \in Tasks : TRUE

\* Nobody waits for the slot for ever, whatever is wedged, cancelled or fails.
SlotReached == task[ATask].pc = "acquire" ~> task[ATask].pc # "acquire"
=============================================================================
