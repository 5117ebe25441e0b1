----------------------------- MODULE GpuBackend -----------------------------
(* Inference through OpenVINO (ai/openvino_session.py): the native lanes of   *)
(* the worker threads, the one-way disable after a failure of the GPU context *)
(* and the marker that outlives the process.                                  *)
(*                                                                            *)
(* A model answers through its compiled graph ("native") or through the       *)
(* ONNX session it was moved to ("ort").  Requests for frames are calls.      *)
EXTENDS Naturals, FiniteSets

CONSTANTS
    Threads, Models,
    MaxCalls,       \* bound: calls of one behaviour
    GpuEvents,      \* what may happen, each once
    FewGpuEvents    \* bound: how many of them in one behaviour

VARIABLES
    lane,      \* [lock, writers, cpu]: _native_condition and its counters
    model,     \* "none", "GPU", "CPU" or "ort"
    thread,    \* [pc, of]
    backend,   \* [disabled, failed, persisted]
    marker,    \* gpu-inference-failed.json exists
    calls,     \* calls so far
    accidents  \* events so far

vars == <<lane, model, thread, backend, marker, calls, accidents>>

NoThread == [pc |-> "idle", of |-> 0]
Free == 0
Meets(event) ==
    event \in GpuEvents \ accidents /\ Cardinality(accidents) < FewGpuEvents /\ accidents' = accidents \cup {event}
Fresh == [disabled |-> FALSE, failed |-> FALSE, persisted |-> FALSE]

Init ==
    /\ lane = [lock |-> Free, writers |-> 0, cpu |-> 0]
    /\ model = [m \in Models |-> "none"]
    /\ thread = [t \in Threads |-> NoThread]
    /\ backend = Fresh /\ marker = FALSE
    /\ calls = 0 /\ accidents = {}

Goto(t, pc) == thread' = [thread EXCEPT ![t].pc = pc]
Done(t) == thread' = [thread EXCEPT ![t] = NoThread]

\* selected_device: the GPU unless it is disabled.
selected_device == IF backend.disabled THEN "CPU" ELSE "GPU"

---------------------------------------------------------------------------
(* A call: the session is made on first use, then detect and run.           *)

\* detect: a model on the GPU, or any after a context failure, is demoted first.
Call(t, m) ==
    /\ thread[t].pc = "idle" /\ calls < MaxCalls
    /\ calls' = calls + 1
    /\ thread' = [thread EXCEPT ![t] = [of |-> m, pc |->
         CASE model[m] = "none" -> "enter"
           [] model[m] = "ort" -> "ort"
           [] OTHER -> IF (model[m] = "GPU" /\ backend.disabled) \/ backend.failed THEN "move"
                       ELSE IF model[m] = "GPU" THEN "enter" ELSE "cpu lane"]]
    /\ UNCHANGED <<lane, model, backend, marker, accidents>>

\* _exclusive_native_lane: the writer is counted, then waits for the readers.
Enter(t) ==
    /\ thread[t].pc = "enter" /\ lane.lock = Free
    /\ lane' = [lane EXCEPT !.writers = @ + 1]
    /\ Goto(t, "drain")
    /\ UNCHANGED <<model, backend, marker, calls, accidents>>

\* Mutant: the writer does not wait for the calls on the CPU.
EnterAtOnce == lane.lock = Free

Drained == lane.lock = Free /\ lane.cpu = 0

Drain(t) ==
    /\ thread[t].pc = "drain" /\ Drained
    /\ lane' = [lane EXCEPT !.lock = t]
    /\ Goto(t, "inside")
    /\ UNCHANGED <<model, backend, marker, calls, accidents>>

Left == [lane EXCEPT !.lock = Free, !.writers = @ - 1]

\* Inside the lane: a model not there is compiled, one on the GPU infers; after
\* a context failure, or once the GPU is disabled, neither is tried.
Begin(t) ==
    LET m == thread[t].of IN
    /\ thread[t].pc = "inside"
    /\ IF model[m] = "none" /\ backend.failed
       THEN model' = [model EXCEPT ![m] = "ort"] /\ lane' = Left /\ Done(t)
       ELSE IF model[m] = "none" /\ selected_device = "CPU"
       THEN model' = [model EXCEPT ![m] = "CPU"] /\ lane' = Left /\ Done(t)
       ELSE IF model[m] \in {"ort", "CPU"} \/ (model[m] = "GPU" /\ backend.disabled)
       THEN lane' = Left /\ Done(t) /\ UNCHANGED model
       ELSE Goto(t, "gpu") /\ UNCHANGED <<lane, model>>
    /\ UNCHANGED <<backend, marker, calls, accidents>>

\* The GPU answers: with a graph or a result.
GpuAnswers(t) ==
    LET m == thread[t].of IN
    /\ thread[t].pc = "gpu"
    /\ model' = [model EXCEPT ![m] = IF @ = "none" THEN "GPU" ELSE @]
    /\ lane' = Left /\ Done(t)
    /\ UNCHANGED <<backend, marker, calls, accidents>>

\* It cannot take the graph: the model is compiled for the CPU.
CompileFails(t) ==
    LET m == thread[t].of IN
    /\ thread[t].pc = "gpu" /\ model[m] = "none" /\ Meets("unsupported")
    /\ model' = [model EXCEPT ![m] = "CPU"]
    /\ lane' = Left /\ Done(t)
    /\ UNCHANGED <<backend, marker, calls>>

---------------------------------------------------------------------------
(* disable_gpu_backend.                                                     *)

\* A durable failure is written once, whoever disabled the GPU before.
ShouldPersist(durable) == durable /\ ~backend.persisted

disable_gpu_backend(durable) ==
    backend' = [disabled |-> TRUE, failed |-> backend.failed \/ durable,
                persisted |-> backend.persisted \/ ShouldPersist(durable)]

\* The context fails, in the lane; a model that was being made uses ONNX.
ContextFails(t) ==
    LET m == thread[t].of IN
    /\ thread[t].pc = "gpu" /\ Meets("context failure")
    /\ disable_gpu_backend(TRUE)
    /\ model' = [model EXCEPT ![m] = IF @ = "none" THEN "ort" ELSE @]
    /\ IF ShouldPersist(TRUE) THEN Goto(t, "persist") /\ UNCHANGED lane ELSE Done(t) /\ lane' = Left
    /\ UNCHANGED <<marker, calls>>

\* _persist_gpu_failure: a synchronised file and a rename; what failed is not
\* counted as written.
_persist_gpu_failure(t) ==
    /\ thread[t].pc = "persist"
    /\ \/ marker' = TRUE /\ UNCHANGED <<backend, accidents>>
       \/ Meets("disk full") /\ backend' = [backend EXCEPT !.persisted = FALSE] /\ UNCHANGED marker
    /\ lane' = Left /\ Done(t)
    /\ UNCHANGED <<model, calls>>

\* ensure_cpu, _move_to_cpu: the model gets an ONNX session.
ensure_cpu(t) ==
    LET m == thread[t].of IN
    /\ thread[t].pc = "move"
    /\ IF model[m] = "GPU" \/ backend.failed
       THEN disable_gpu_backend(FALSE) /\ model' = [model EXCEPT ![m] = "ort"]
       ELSE UNCHANGED <<backend, model>>
    /\ Goto(t, "ort")
    /\ UNCHANGED <<lane, marker, calls, accidents>>

\* The media slot is unhealthy (hardware/ffmpeg.py): demoted without a failure.
Demote(t, m) ==
    /\ thread[t].pc = "idle" /\ model[m] = "GPU" /\ calls < MaxCalls /\ Meets("slot unhealthy")
    /\ calls' = calls + 1
    /\ thread' = [thread EXCEPT ![t] = [pc |-> "move", of |-> m]]
    /\ UNCHANGED <<lane, model, backend, marker>>

Ort(t) ==
    /\ thread[t].pc = "ort"
    /\ Done(t)
    /\ UNCHANGED <<lane, model, backend, marker, calls, accidents>>

---------------------------------------------------------------------------
(* _cpu_native_lane.                                                        *)

Usable == ~backend.failed

_cpu_native_lane(t) ==
    /\ thread[t].pc = "cpu lane" /\ lane.lock = Free /\ lane.writers = 0
    /\ IF Usable THEN lane' = [lane EXCEPT !.cpu = @ + 1] /\ Goto(t, "cpu") ELSE Goto(t, "move") /\ UNCHANGED lane
    /\ UNCHANGED <<model, backend, marker, calls, accidents>>

LeftCpu == [lane EXCEPT !.cpu = @ - 1]

CpuAnswers(t) ==
    /\ thread[t].pc = "cpu" /\ lane.lock = Free
    /\ lane' = LeftCpu
    /\ Done(t)
    /\ UNCHANGED <<model, backend, marker, calls, accidents>>

---------------------------------------------------------------------------
(* The process and the marker.                                              *)

\* restore_gpu_failure_state.
restore_gpu_failure_state == [Fresh EXCEPT !.disabled = marker]

Restart ==
    /\ Meets("restart")
    /\ lane' = [lock |-> Free, writers |-> 0, cpu |-> 0]
    /\ model' = [m \in Models |-> "none"]
    /\ thread' = [t \in Threads |-> NoThread]
    /\ backend' = restore_gpu_failure_state
    /\ UNCHANGED <<marker, calls>>

\* system_gpu_retry: the next start decides.
clear_gpu_failure_state ==
    /\ marker /\ Meets("cleared")
    /\ marker' = FALSE /\ backend' = [backend EXCEPT !.persisted = FALSE]
    /\ UNCHANGED <<lane, model, thread, calls>>

Working(t) ==
    \/ Enter(t) \/ Drain(t) \/ Begin(t) \/ GpuAnswers(t) \/ _persist_gpu_failure(t) \/ ensure_cpu(t) \/ Ort(t)
    \/ _cpu_native_lane(t) \/ CpuAnswers(t)

Next ==
    \/ \E t \in Threads : Working(t) \/ CompileFails(t) \/ ContextFails(t) \/ \E m \in Models : Call(t, m) \/ Demote(t, m)
    \/ Restart \/ clear_gpu_failure_state

Spec == Init /\ [][Next]_vars /\ \A t \in Threads : WF_vars(Working(t))

---------------------------------------------------------------------------
\* Every variable keeps its type; the writers counted are threads there are.
TypeOK ==
    /\ lane.writers \in 0 .. Cardinality(Threads) /\ lane.cpu \in Nat
    /\ lane.lock \in Threads \cup {Free}
    /\ model \in [Models -> {"none", "GPU", "CPU", "ort"}]

At(pc) == {t \in Threads : thread[t].pc = pc}

\* The GPU computes alone, and in a broken context nothing native computes at
\* all, on either device: both share it.
NativeLanes ==
    /\ At("gpu") # {} => Cardinality(At("gpu")) = 1 /\ At("cpu") = {}
    /\ backend.failed => At("gpu") \cup At("cpu") = {}

\* A context failure is on record for the next start, also when a demotion had
\* disabled the GPU while the failing call was under way; only a disk that
\* refused the marker or the user who cleared it leave none.
FailureOnRecord ==
    backend.failed /\ At("persist") = {} /\ accidents \cap {"disk full", "cleared"} = {} => marker

\* While the marker is there, no process has the GPU enabled.
MarkerRules == marker => backend.disabled

\* Threads are interchangeable: what holds of one holds of each.
AThread == CHOOSE t \in Threads : TRUE

\* Every call ends: no lane is left occupied.
CallsEnd == thread[AThread].pc # "idle" ~> thread[AThread].pc = "idle"
=============================================================================
