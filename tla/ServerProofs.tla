----------------------------- MODULE ServerProofs -----------------------------
(***************************************************************************)
(* Proofs about the services of the server process, for any callers, keys, *)
(* files, limits and budgets and any mix of failures.                      *)
(*                                                                         *)
(* The services share no state, and each keeps its invariant whether it is *)
(* the one that runs or rests: the invariants say nothing of "which".      *)
(***************************************************************************)
EXTENDS MCServer, FiniteSetTheorems, SequenceTheorems, TLAPS

-----------------------------------------------------------------------------
(* Counting.                                                               *)

\* A set that differs from another in one element at most is larger or
\* smaller by that.
LEMMA CountStep ==
  ASSUME NEW S, IsFiniteSet(S), NEW T, NEW t, T \ {t} = S \ {t}
  PROVE  /\ IsFiniteSet(T) /\ Cardinality(S) \in Nat /\ Cardinality(T) \in Nat
         /\ t \in T /\ t \notin S => Cardinality(T) = Cardinality(S) + 1
         /\ t \notin T /\ t \in S => Cardinality(T) = Cardinality(S) - 1
         /\ (t \in T <=> t \in S) => T = S
<1>1. IsFiniteSet(S \ {t}) /\ IsFiniteSet(T)
  <2>1. IsFiniteSet(S \ {t})
    BY FS_RemoveElement
  <2>2. IsFiniteSet((T \ {t}) \cup {t})
    BY <2>1, FS_AddElement
  <2>3. T \subseteq (T \ {t}) \cup {t}
    OBVIOUS
  <2> QED BY <2>1, <2>2, <2>3, FS_Subset
<1>2. Cardinality(S) \in Nat /\ Cardinality(T) \in Nat
  BY <1>1, FS_CardinalityType
<1>3. ASSUME t \in T, t \notin S PROVE Cardinality(T) = Cardinality(S) + 1
  <2>1. T = S \cup {t}
    BY <1>3
  <2> QED BY <2>1, <1>3, FS_AddElement
<1>4. ASSUME t \notin T, t \in S PROVE Cardinality(T) = Cardinality(S) - 1
  <2>1. T = S \ {t}
    BY <1>4
  <2> QED BY <2>1, <1>4, FS_RemoveElement
<1>5. ASSUME t \in T <=> t \in S PROVE T = S
  BY <1>5
<1> QED
  BY <1>1, <1>2, <1>3, <1>4, <1>5

\* A set without two members has at most one.
LEMMA AtMostOne ==
  ASSUME NEW S, \A a, b \in S : a = b
  PROVE  IsFiniteSet(S) /\ Cardinality(S) \in Nat /\ Cardinality(S) <= 1
<1>1. CASE S = {}
  BY <1>1, FS_EmptySet
<1>2. CASE S # {}
  <2>1. PICK a \in S : TRUE
    BY <1>2
  <2>2. S = {a}
    BY <2>1
  <2> QED BY <2>2, FS_Singleton
<1> QED
  BY <1>1, <1>2

-----------------------------------------------------------------------------
(* The inference backend.                                                  *)

GpuPlaces == {"idle", "enter", "drain", "inside", "gpu", "persist", "move", "ort", "cpu lane", "cpu"}
Claimed == {"drain", "inside", "gpu", "persist"}   \* counted as writers
Alone == {"inside", "gpu", "persist"}              \* hold the native lock

Calls == [Threads -> [pc : GpuPlaces, of : Models \cup {0}]]

\* The threads at one of the given steps.
Within(places, th) == {t \in Threads : th[t].pc \in places}

GpuTypes ==
  /\ lane \in [lock : Threads \cup {0}, writers : Nat, cpu : Nat]
  /\ model \in [Models -> {"none", "GPU", "CPU", "ort"}]
  /\ thread \in Calls
  /\ \A t \in Threads : thread[t].pc # "idle" => thread[t].of \in Models
  /\ backend \in [disabled : BOOLEAN, failed : BOOLEAN, persisted : BOOLEAN]
  /\ marker \in BOOLEAN

\* The counters of the lane count, and who has the lock is alone in it.
Lanes ==
  /\ \A t \in Threads : thread[t].pc \in Alone <=> lane.lock = t
  /\ lane.writers = Cardinality(Within(Claimed, thread))
  /\ lane.cpu = Cardinality(Within({"cpu"}, thread))
  /\ lane.lock # 0 => Within({"cpu"}, thread) = {}

\* A failure disables the GPU before anything else can be begun on it; what the
\* process takes for written is written, or being written, or an accident undid it.
Failures ==
  /\ backend.failed => backend.disabled /\ Within({"gpu", "cpu"}, thread) = {}
  /\ marker => backend.disabled
  /\ Within({"persist"}, thread) # {} => backend.disabled
  /\ backend.failed \/ backend.persisted
       => marker \/ Within({"persist"}, thread) # {} \/ accidents \cap {"disk full", "cleared"} # {}

GpuInv == GpuTypes /\ Lanes /\ Failures

\* One thread goes on to another step.
GpuGoes(t, pc) ==
  /\ thread' \in Calls
  /\ \A u \in Threads : thread'[u].pc # "idle" => thread'[u].of \in Models
  /\ thread'[t].pc = pc
  /\ \A u \in Threads : u # t => thread'[u].pc = thread[u].pc

\* What a thread does to the counts.
LEMMA GpuMove ==
  ASSUME GpuTypes, Lanes, NEW t \in Threads, NEW pc \in GpuPlaces, GpuGoes(t, pc), NEW P \in SUBSET GpuPlaces
  PROVE  /\ Cardinality(Within(P, thread)) \in Nat
         /\ pc \in P /\ thread[t].pc \notin P
              => Cardinality(Within(P, thread')) = Cardinality(Within(P, thread)) + 1
         /\ pc \notin P /\ thread[t].pc \in P
              => Cardinality(Within(P, thread')) = Cardinality(Within(P, thread)) - 1
         /\ (pc \in P <=> thread[t].pc \in P) => Within(P, thread') = Within(P, thread)
<1>1. Within(P, thread') \ {t} = Within(P, thread) \ {t}
  BY DEF Within, GpuGoes
<1>2. t \in Within(P, thread') <=> pc \in P
  BY DEF Within, GpuGoes
<1>3. t \in Within(P, thread) <=> thread[t].pc \in P
  BY DEF Within
<1>4. IsFiniteSet(Within(P, thread))
  BY FS_Subset, GpuAssumption DEF Within
<1> HIDE DEF Within
<1> QED
  BY <1>1, <1>2, <1>3, <1>4, CountStep

\* By how much a thread that goes from one step to another changes a count.
Change(P, old, new) == (IF new \in P THEN 1 ELSE 0) - (IF old \in P THEN 1 ELSE 0)

LEMMA GpuCount ==
  ASSUME GpuTypes, Lanes, NEW t \in Threads, NEW pc \in GpuPlaces, GpuGoes(t, pc), NEW P \in SUBSET GpuPlaces
  PROVE  Cardinality(Within(P, thread')) = Cardinality(Within(P, thread)) + Change(P, thread[t].pc, pc)
BY GpuMove DEF Change

\* A lane that follows a thread's step stays in order.
LEMMA LanesKept ==
  ASSUME GpuTypes, Lanes, NEW t \in Threads, NEW pc \in GpuPlaces, GpuGoes(t, pc),
         lane' \in [lock : Threads \cup {0}, writers : Int, cpu : Int],
         pc \in Alone => lane.lock \in {0, t} /\ lane'.lock = t,
         pc \notin Alone => lane'.lock = IF thread[t].pc \in Alone THEN 0 ELSE lane.lock,
         lane'.writers = lane.writers + Change(Claimed, thread[t].pc, pc),
         lane'.cpu = lane.cpu + Change({"cpu"}, thread[t].pc, pc),
         lane'.lock # 0 => lane.cpu = 0 /\ pc # "cpu"
  PROVE  Lanes' /\ lane' \in [lock : Threads \cup {0}, writers : Nat, cpu : Nat]
<1>1. Claimed \in SUBSET GpuPlaces /\ {"cpu"} \in SUBSET GpuPlaces
  BY DEF Claimed, GpuPlaces
<1>2. lane'.writers = Cardinality(Within(Claimed, thread')) /\ lane'.cpu = Cardinality(Within({"cpu"}, thread'))
  BY <1>1, GpuCount DEF Lanes
<1>3. \A u \in Threads : thread'[u].pc \in Alone <=> lane'.lock = u
  <2> TAKE u \in Threads
  <2>1. CASE u = t
    BY <2>1, GpuAssumption DEF GpuGoes, Lanes
  <2>2. CASE u # t
    BY <2>2, GpuAssumption DEF GpuGoes, Lanes
  <2> QED BY <2>1, <2>2
<1>4. IsFiniteSet(Within({"cpu"}, thread)) /\ IsFiniteSet(Within({"cpu"}, thread')) /\ IsFiniteSet(Within(Claimed, thread'))
  BY FS_Subset, GpuAssumption DEF Within
<1>5. lane'.writers \in Nat /\ lane'.cpu \in Nat
  BY <1>2, <1>4, FS_CardinalityType
<1>6. lane'.lock # 0 => Within({"cpu"}, thread') = {}
  <2> HAVE lane'.lock # 0
  <2>1. Within({"cpu"}, thread) = {}
    BY <1>4, FS_EmptySet DEF Lanes
  <2>2. \A u \in Threads : thread[u].pc # "cpu"
    BY <2>1 DEF Within
  <2>3. \A u \in Threads : thread'[u].pc # "cpu"
    BY <2>2 DEF GpuGoes
  <2> QED BY <2>3 DEF Within
<1> QED
  BY <1>2, <1>3, <1>5, <1>6 DEF Lanes

\* A thread given a step and a model.
LEMMA GpuSet ==
  ASSUME GpuTypes, NEW t \in Threads, NEW pc \in GpuPlaces, NEW m \in Models \cup {0},
         pc # "idle" => m \in Models, thread' = [thread EXCEPT ![t] = [pc |-> pc, of |-> m]]
  PROVE  GpuGoes(t, pc)
<1>1. [pc |-> pc, of |-> m] \in [pc : GpuPlaces, of : Models \cup {0}]
  OBVIOUS
<1>2. thread' \in Calls
  BY <1>1 DEF GpuTypes, Calls
<1>3. thread'[t] = [pc |-> pc, of |-> m] /\ \A u \in Threads \ {t} : thread'[u] = thread[u]
  BY DEF GpuTypes, Calls
<1> QED
  BY <1>2, <1>3 DEF GpuGoes, GpuTypes

\* A thread sent on to a step.
LEMMA GpuGoto ==
  ASSUME GpuTypes, NEW t \in Threads, NEW pc \in GpuPlaces, thread[t].pc # "idle",
         GpuBackend!Goto(t, pc)
  PROVE  GpuGoes(t, pc)
<1>1. thread[t] \in [pc : GpuPlaces, of : Models \cup {0}] /\ thread[t].of \in Models
  BY DEF GpuTypes, Calls
<1>2. [thread[t] EXCEPT !.pc = pc] = [pc |-> pc, of |-> thread[t].of]
  BY <1>1
<1>3. thread' = [thread EXCEPT ![t] = [thread[t] EXCEPT !.pc = pc]]
  BY <1>1 DEF GpuBackend!Goto, GpuTypes, Calls
<1> QED
  BY <1>1, <1>2, <1>3, GpuSet

\* A thread that is done.
LEMMA GpuDone ==
  ASSUME GpuTypes, NEW t \in Threads, GpuBackend!Done(t)
  PROVE  GpuGoes(t, "idle")
BY GpuSet DEF GpuBackend!Done, GpuBackend!NoThread, GpuPlaces

\* What is on record stays so, when one thread goes on.
LEMMA FailuresKept ==
  ASSUME GpuTypes, Failures, NEW t \in Threads, NEW pc \in GpuPlaces, GpuGoes(t, pc),
         backend'.failed => /\ backend'.disabled /\ pc \notin {"gpu", "cpu"}
                            /\ \A u \in Threads \ {t} : thread[u].pc \notin {"gpu", "cpu"},
         marker' => backend'.disabled,
         backend.disabled \/ pc = "persist" => backend'.disabled,
         backend'.failed \/ backend'.persisted
           => \/ marker' \/ pc = "persist" \/ accidents' \cap {"disk full", "cleared"} # {}
              \/ \E u \in Threads \ {t} : thread[u].pc = "persist"
  PROVE  Failures'
<1>1. \A u \in Threads \ {t} : thread'[u].pc = thread[u].pc
  BY DEF GpuGoes
<1>2. thread'[t].pc = pc
  BY DEF GpuGoes
<1>3. backend'.failed => backend'.disabled /\ Within({"gpu", "cpu"}, thread') = {}
  BY <1>1, <1>2 DEF Within
<1>4. Within({"persist"}, thread') # {} => backend'.disabled
  BY <1>1, <1>2 DEF Within, Failures
<1>5. pc = "persist" \/ (\E u \in Threads \ {t} : thread[u].pc = "persist")
        => Within({"persist"}, thread') # {}
  BY <1>1, <1>2 DEF Within
<1> QED
  BY <1>3, <1>4, <1>5 DEF Failures

\* In particular when nothing of it changes.
LEMMA FailuresStand ==
  ASSUME GpuTypes, Failures, NEW t \in Threads, NEW pc \in GpuPlaces, GpuGoes(t, pc),
         thread[t].pc # "persist", pc # "persist", pc \in {"gpu", "cpu"} => ~backend.failed,
         UNCHANGED <<backend, marker, accidents>>
  PROVE  Failures'
<1>1. backend.failed => \A u \in Threads : thread[u].pc \notin {"gpu", "cpu"}
  BY DEF Failures, Within
<1>2. Within({"persist"}, thread) # {} => \E u \in Threads \ {t} : thread[u].pc = "persist"
  BY DEF Within
<1> QED
  BY <1>1, <1>2, FailuresKept DEF Failures

\* The types are kept when one thread goes on.
LEMMA GpuTypesKept ==
  ASSUME GpuTypes, NEW t \in Threads, NEW pc \in GpuPlaces, GpuGoes(t, pc),
         lane' \in [lock : Threads \cup {0}, writers : Nat, cpu : Nat],
         model' \in [Models -> {"none", "GPU", "CPU", "ort"}],
         backend' \in [disabled : BOOLEAN, failed : BOOLEAN, persisted : BOOLEAN], marker' \in BOOLEAN
  PROVE  GpuTypes'
BY DEF GpuTypes, GpuGoes

\* Steps that leave the lane alone and no failure behind.
LEMMA GpuQuiet ==
  ASSUME GpuInv, NEW t \in Threads, NEW pc \in GpuPlaces, GpuGoes(t, pc),
         thread[t].pc \notin Claimed \cup {"cpu"}, pc \notin Claimed \cup {"cpu"},
         UNCHANGED lane
  PROVE  Lanes' /\ lane' \in [lock : Threads \cup {0}, writers : Nat, cpu : Nat]
<1>1. Change(Claimed, thread[t].pc, pc) = 0 /\ Change({"cpu"}, thread[t].pc, pc) = 0
  BY DEF Change
<1>2. IsFiniteSet(Within({"cpu"}, thread))
  BY FS_Subset, GpuAssumption DEF Within
<1>3. lane.lock # 0 => lane.cpu = 0
  BY <1>2, FS_EmptySet DEF GpuInv, Lanes
<1> QED
  BY <1>1, <1>3, LanesKept DEF GpuInv, GpuTypes, Alone, Claimed

\* A call begins.
LEMMA GpuCall ==
  ASSUME GpuInv, NEW t \in Threads, NEW m \in Models, GpuBackend!Call(t, m)
  PROVE  GpuInv'
<1> DEFINE pc == CASE model[m] = "none" -> "enter"
                   [] model[m] = "ort" -> "ort"
                   [] OTHER -> IF (model[m] = "GPU" /\ backend.disabled) \/ backend.failed THEN "move"
                               ELSE IF model[m] = "GPU" THEN "enter" ELSE "cpu lane"
<1>1. thread' = [thread EXCEPT ![t] = [of |-> m, pc |-> pc]] /\ thread[t].pc = "idle"
  BY DEF GpuBackend!Call
<1>2. pc \in {"enter", "ort", "move", "cpu lane"}
  OBVIOUS
<1> HIDE DEF pc
<1>3. pc \in GpuPlaces /\ [of |-> m, pc |-> pc] = [pc |-> pc, of |-> m]
  BY <1>2 DEF GpuPlaces
<1>4. GpuGoes(t, pc)
  BY <1>1, <1>3, GpuSet DEF GpuInv
<1>5. UNCHANGED <<lane, model, backend, marker, accidents>>
  BY DEF GpuBackend!Call
<1>6. thread[t].pc \notin Claimed \cup {"cpu"} /\ pc \notin Claimed \cup {"cpu"}
  BY <1>1, <1>2 DEF Claimed
<1>7. Lanes' /\ lane' \in [lock : Threads \cup {0}, writers : Nat, cpu : Nat]
  BY <1>3, <1>4, <1>5, <1>6, GpuQuiet
<1>8. Failures'
  BY <1>1, <1>2, <1>3, <1>4, <1>5, FailuresStand DEF GpuInv
<1>9. GpuTypes'
  BY <1>3, <1>4, <1>5, <1>7, GpuTypesKept DEF GpuInv, GpuTypes
<1> QED
  BY <1>7, <1>8, <1>9 DEF GpuInv

\* A thread leaves the native lane.
LEMMA GpuLeave ==
  ASSUME GpuInv, NEW t \in Threads, thread[t].pc \in Alone, GpuBackend!Done(t), lane' = GpuBackend!Left
  PROVE  GpuGoes(t, "idle") /\ Lanes' /\ lane' \in [lock : Threads \cup {0}, writers : Nat, cpu : Nat]
<1>1. GpuGoes(t, "idle")
  BY GpuDone DEF GpuInv
<1>2. lane' = [lane EXCEPT !.lock = 0, !.writers = @ - 1]
  BY DEF GpuBackend!Left, GpuBackend!Free
<1>0. lane \in [lock : Threads \cup {0}, writers : Nat, cpu : Nat] /\ lane.writers - 1 \in Int
  BY DEF GpuInv, GpuTypes
<1>3. lane' \in [lock : Threads \cup {0}, writers : Int, cpu : Int]
      /\ lane'.lock = 0 /\ lane'.writers = lane.writers - 1 /\ lane'.cpu = lane.cpu
  <2>1. lane' = [lane EXCEPT !.lock = 0, !.writers = lane.writers - 1]
    BY <1>2, <1>0
  <2>2. lane'.lock = 0 /\ lane'.writers = lane.writers - 1 /\ lane'.cpu = lane.cpu
    BY <2>1, <1>0
  <2>3. lane' \in [lock : Threads \cup {0}, writers : Int, cpu : Int]
    <3>1. lane \in [lock : Threads \cup {0}, writers : Int, cpu : Int]
      BY <1>0
    <3>2. \A n \in Int : [lane EXCEPT !.lock = 0, !.writers = n] \in [lock : Threads \cup {0}, writers : Int, cpu : Int]
      BY <3>1
    <3> QED BY <3>2, <2>1, <1>0
  <2> QED BY <2>2, <2>3
<1>4. Change(Claimed, thread[t].pc, "idle") = -1 /\ Change({"cpu"}, thread[t].pc, "idle") = 0
  BY DEF Change, Claimed, Alone
<1>5. "idle" \in GpuPlaces /\ "idle" \notin Alone
  BY DEF GpuPlaces, Alone
<1>6. lane'.writers = lane.writers + Change(Claimed, thread[t].pc, "idle")
      /\ lane'.cpu = lane.cpu + Change({"cpu"}, thread[t].pc, "idle")
  BY <1>3, <1>4 DEF GpuInv, GpuTypes
<1> QED
  BY <1>1, <1>3, <1>5, <1>6, LanesKept DEF GpuInv

\* A step inside the lane.
LEMMA GpuInside ==
  ASSUME GpuInv, NEW t \in Threads, NEW pc \in Alone, thread[t].pc \in Alone, GpuGoes(t, pc), UNCHANGED lane
  PROVE  Lanes' /\ lane' \in [lock : Threads \cup {0}, writers : Nat, cpu : Nat]
<1>1. lane.lock = t /\ lane.cpu = 0
  <2>1. IsFiniteSet(Within({"cpu"}, thread))
    BY FS_Subset, GpuAssumption DEF Within
  <2> QED BY <2>1, FS_EmptySet, GpuAssumption DEF GpuInv, Lanes
<1>2. Change(Claimed, thread[t].pc, pc) = 0 /\ Change({"cpu"}, thread[t].pc, pc) = 0
  BY DEF Change, Claimed, Alone
<1>3. pc \in GpuPlaces /\ pc # "cpu"
  BY DEF GpuPlaces, Alone
<1>4. lane'.writers = lane.writers + Change(Claimed, thread[t].pc, pc)
      /\ lane'.cpu = lane.cpu + Change({"cpu"}, thread[t].pc, pc)
  BY <1>2 DEF GpuInv, GpuTypes
<1> QED
  BY <1>1, <1>3, <1>4, LanesKept DEF GpuInv, GpuTypes

\* While one thread has the lane no other is in it, and nothing runs on the CPU.
LEMMA GpuAlone ==
  ASSUME GpuInv, NEW t \in Threads, thread[t].pc \in Alone
  PROVE  \A u \in Threads \ {t} : thread[u].pc \notin Alone \cup {"cpu"}
BY GpuAssumption DEF GpuInv, Lanes, Within

\* A writer is counted.
LEMMA GpuEnter ==
  ASSUME GpuInv, NEW t \in Threads, GpuBackend!Enter(t)
  PROVE  GpuInv'
<1>1. thread[t].pc = "enter" /\ lane.lock = 0 /\ lane' = [lane EXCEPT !.writers = @ + 1]
  BY DEF GpuBackend!Enter, GpuBackend!Free
<1>2. "drain" \in GpuPlaces /\ "drain" \notin Alone /\ "enter" \notin Alone
  BY DEF GpuPlaces, Alone
<1>3. GpuGoes(t, "drain")
  BY <1>1, <1>2, GpuGoto DEF GpuInv, GpuBackend!Enter
<1>4. lane' \in [lock : Threads \cup {0}, writers : Int, cpu : Int]
      /\ lane'.lock = 0 /\ lane'.writers = lane.writers + 1 /\ lane'.cpu = lane.cpu
  BY <1>1 DEF GpuInv, GpuTypes
<1>5. Change(Claimed, "enter", "drain") = 1 /\ Change({"cpu"}, "enter", "drain") = 0
  BY DEF Change, Claimed
<1>6. lane'.writers = lane.writers + Change(Claimed, thread[t].pc, "drain")
      /\ lane'.cpu = lane.cpu + Change({"cpu"}, thread[t].pc, "drain")
  BY <1>1, <1>4, <1>5 DEF GpuInv, GpuTypes
<1>7. Lanes' /\ lane' \in [lock : Threads \cup {0}, writers : Nat, cpu : Nat]
  BY <1>1, <1>2, <1>3, <1>4, <1>6, LanesKept DEF GpuInv
<1>8. UNCHANGED <<model, backend, marker, accidents>>
  BY DEF GpuBackend!Enter
<1>9. Failures' /\ GpuTypes'
  BY <1>1, <1>2, <1>3, <1>7, <1>8, FailuresStand, GpuTypesKept DEF GpuInv, GpuTypes
<1> QED
  BY <1>7, <1>9 DEF GpuInv

\* The last reader has left.
LEMMA GpuDrain ==
  ASSUME GpuInv, NEW t \in Threads, GpuBackend!Drain(t)
  PROVE  GpuInv'
<1>1. thread[t].pc = "drain" /\ lane.lock = 0 /\ lane.cpu = 0 /\ lane' = [lane EXCEPT !.lock = t]
  BY DEF GpuBackend!Drain, GpuBackend!Drained, GpuBackend!Free
<1>2. "inside" \in GpuPlaces /\ "inside" \in Alone
  BY DEF GpuPlaces, Alone
<1>3. GpuGoes(t, "inside")
  BY <1>1, <1>2, GpuGoto DEF GpuInv, GpuBackend!Drain
<1>4. lane' \in [lock : Threads \cup {0}, writers : Int, cpu : Int]
      /\ lane'.lock = t /\ lane'.writers = lane.writers /\ lane'.cpu = lane.cpu
  BY <1>1 DEF GpuInv, GpuTypes
<1>5. Change(Claimed, "drain", "inside") = 0 /\ Change({"cpu"}, "drain", "inside") = 0
  BY DEF Change, Claimed
<1>6. lane'.writers = lane.writers + Change(Claimed, thread[t].pc, "inside")
      /\ lane'.cpu = lane.cpu + Change({"cpu"}, thread[t].pc, "inside")
  BY <1>1, <1>4, <1>5 DEF GpuInv, GpuTypes
<1>7. Lanes' /\ lane' \in [lock : Threads \cup {0}, writers : Nat, cpu : Nat]
  BY <1>1, <1>2, <1>3, <1>4, <1>6, LanesKept DEF GpuInv
<1>8. UNCHANGED <<model, backend, marker, accidents>>
  BY DEF GpuBackend!Drain
<1>9. Failures' /\ GpuTypes'
  BY <1>1, <1>2, <1>3, <1>7, <1>8, FailuresStand, GpuTypesKept DEF GpuInv, GpuTypes
<1> QED
  BY <1>7, <1>9 DEF GpuInv

\* Inside, the model is made or the GPU is asked.
LEMMA GpuBegin ==
  ASSUME GpuInv, NEW t \in Threads, GpuBackend!Begin(t)
  PROVE  GpuInv'
<1> DEFINE m == thread[t].of
<1>1. thread[t].pc = "inside" /\ thread[t].pc \in Alone /\ m \in Models
  BY DEF GpuBackend!Begin, Alone, GpuInv, GpuTypes
<1>2. UNCHANGED <<backend, marker, accidents>>
  BY DEF GpuBackend!Begin
<1>3. CASE /\ lane' = GpuBackend!Left /\ GpuBackend!Done(t)
           /\ \/ \E x \in {"ort", "CPU"} : model' = [model EXCEPT ![m] = x]
              \/ UNCHANGED model
  <2>1. GpuGoes(t, "idle") /\ Lanes' /\ lane' \in [lock : Threads \cup {0}, writers : Nat, cpu : Nat]
    BY <1>1, <1>3, GpuLeave
  <2>2. model' \in [Models -> {"none", "GPU", "CPU", "ort"}]
    BY <1>3 DEF GpuInv, GpuTypes
  <2>3. "idle" \in GpuPlaces
    BY DEF GpuPlaces
  <2> QED BY <1>1, <1>2, <2>1, <2>2, <2>3, FailuresStand, GpuTypesKept DEF GpuInv, GpuTypes
<1>4. CASE /\ GpuBackend!Goto(t, "gpu") /\ UNCHANGED <<lane, model>>
           /\ ~backend.failed
  <2>1. "gpu" \in GpuPlaces /\ "gpu" \in Alone
    BY DEF GpuPlaces, Alone
  <2>2. GpuGoes(t, "gpu")
    BY <1>1, <1>4, <2>1, GpuGoto DEF GpuInv
  <2>3. Lanes' /\ lane' \in [lock : Threads \cup {0}, writers : Nat, cpu : Nat]
    BY <1>1, <1>4, <2>1, <2>2, GpuInside
  <2> QED BY <1>1, <1>2, <1>4, <2>1, <2>2, <2>3, FailuresStand, GpuTypesKept DEF GpuInv, GpuTypes
<1>5. model[m] \in {"none", "GPU", "CPU", "ort"} /\ (backend.failed => backend.disabled)
  BY <1>1 DEF GpuInv, GpuTypes, Failures
<1> QED
  BY <1>3, <1>4, <1>5 DEF GpuBackend!Begin, GpuBackend!selected_device

\* Calls on the GPU that leave the backend as it is.
LEMMA GpuReturns ==
  ASSUME GpuInv, NEW t \in Threads, thread[t].pc = "gpu",
         NEW x \in {"none", "GPU", "CPU", "ort"}, model' = [model EXCEPT ![thread[t].of] = x],
         lane' = GpuBackend!Left, GpuBackend!Done(t), UNCHANGED <<backend, marker>>, accidents \subseteq accidents'
  PROVE  GpuInv'
<1>1. thread[t].pc \in Alone /\ "idle" \in GpuPlaces
  BY DEF Alone, GpuPlaces
<1>2. GpuGoes(t, "idle") /\ Lanes' /\ lane' \in [lock : Threads \cup {0}, writers : Nat, cpu : Nat]
  BY <1>1, GpuLeave
<1>3. model' \in [Models -> {"none", "GPU", "CPU", "ort"}]
  BY DEF GpuInv, GpuTypes
<1>4. GpuTypes'
  BY <1>1, <1>2, <1>3, GpuTypesKept DEF GpuInv, GpuTypes
<1>5. ~backend.failed
  BY DEF GpuInv, Failures, Within
<1>6. Within({"persist"}, thread) # {} => \E u \in Threads \ {t} : thread[u].pc = "persist"
  BY DEF Within
<1>7. Failures'
  BY <1>1, <1>2, <1>5, <1>6, FailuresKept DEF GpuInv, Failures
<1> QED
  BY <1>2, <1>4, <1>7 DEF GpuInv

\* The GPU answers, or refuses the graph.
LEMMA GpuAnswers ==
  ASSUME GpuInv, NEW t \in Threads, GpuBackend!GpuAnswers(t) \/ GpuBackend!CompileFails(t)
  PROVE  GpuInv'
<1>1. thread[t].pc = "gpu" /\ thread[t].of \in Models
  BY DEF GpuBackend!GpuAnswers, GpuBackend!CompileFails, GpuInv, GpuTypes
<1>2. \E x \in {"none", "GPU", "CPU", "ort"} : model' = [model EXCEPT ![thread[t].of] = x]
  <2>1. CASE GpuBackend!GpuAnswers(t)
    BY <1>1, <2>1 DEF GpuBackend!GpuAnswers, GpuInv, GpuTypes
  <2>2. CASE GpuBackend!CompileFails(t)
    BY <2>2 DEF GpuBackend!CompileFails
  <2> QED BY <2>1, <2>2
<1>3. /\ lane' = GpuBackend!Left /\ GpuBackend!Done(t) /\ UNCHANGED <<backend, marker>>
      /\ accidents \subseteq accidents'
  BY DEF GpuBackend!GpuAnswers, GpuBackend!CompileFails, GpuBackend!Meets
<1> QED
  BY <1>1, <1>2, <1>3, GpuReturns

\* The context fails, and the marker is to be written or was.
LEMMA GpuContextFails ==
  ASSUME GpuInv, NEW t \in Threads, GpuBackend!ContextFails(t)
  PROVE  GpuInv'
<1> DEFINE m == thread[t].of
<1>1. thread[t].pc = "gpu" /\ thread[t].pc \in Alone /\ m \in Models
  BY DEF GpuBackend!ContextFails, Alone, GpuInv, GpuTypes
<1>2. backend' = [disabled |-> TRUE, failed |-> TRUE, persisted |-> TRUE] /\ UNCHANGED marker
  BY DEF GpuBackend!ContextFails, GpuBackend!disable_gpu_backend, GpuBackend!ShouldPersist, GpuInv, GpuTypes
<1>3. model' \in [Models -> {"none", "GPU", "CPU", "ort"}]
  BY <1>1 DEF GpuBackend!ContextFails, GpuInv, GpuTypes
<1>4. accidents \subseteq accidents'
  BY DEF GpuBackend!ContextFails, GpuBackend!Meets
<1>5. \A u \in Threads \ {t} : thread[u].pc \notin Alone \cup {"cpu"}
  BY <1>1, GpuAlone
<1>6. CASE ~backend.persisted
  <2>1. GpuBackend!Goto(t, "persist") /\ UNCHANGED lane
    BY <1>6 DEF GpuBackend!ContextFails, GpuBackend!ShouldPersist
  <2>2. "persist" \in GpuPlaces /\ "persist" \in Alone
    BY DEF GpuPlaces, Alone
  <2>3. GpuGoes(t, "persist")
    BY <1>1, <2>1, <2>2, GpuGoto DEF GpuInv
  <2>4. Lanes' /\ lane' \in [lock : Threads \cup {0}, writers : Nat, cpu : Nat]
    BY <1>1, <2>1, <2>2, <2>3, GpuInside
  <2>5. Failures'
    BY <1>2, <1>5, <2>2, <2>3, FailuresKept DEF GpuInv, Alone
  <2> QED BY <1>2, <1>3, <2>2, <2>3, <2>4, <2>5, GpuTypesKept DEF GpuInv, GpuTypes
<1>7. CASE backend.persisted
  <2>1. lane' = GpuBackend!Left /\ GpuBackend!Done(t)
    BY <1>7 DEF GpuBackend!ContextFails, GpuBackend!ShouldPersist
  <2>2. GpuGoes(t, "idle") /\ Lanes' /\ lane' \in [lock : Threads \cup {0}, writers : Nat, cpu : Nat]
    BY <1>1, <2>1, GpuLeave
  <2>3. marker \/ accidents \cap {"disk full", "cleared"} # {}
    BY <1>1, <1>5, <1>7 DEF GpuInv, Failures, Within, Alone
  <2>4. "idle" \in GpuPlaces
    BY DEF GpuPlaces
  <2>5. Failures'
    BY <1>2, <1>4, <1>5, <2>2, <2>3, <2>4, FailuresKept DEF GpuInv, Alone
  <2> QED BY <1>2, <1>3, <2>2, <2>4, <2>5, GpuTypesKept DEF GpuInv, GpuTypes
<1> QED
  BY <1>6, <1>7 DEF GpuInv, GpuTypes

\* The marker is written, or the disk is full.
LEMMA GpuPersist ==
  ASSUME GpuInv, NEW t \in Threads, GpuBackend!_persist_gpu_failure(t)
  PROVE  GpuInv'
<1>1. thread[t].pc = "persist" /\ thread[t].pc \in Alone /\ "idle" \in GpuPlaces
  BY DEF GpuBackend!_persist_gpu_failure, Alone, GpuPlaces
<1>2. lane' = GpuBackend!Left /\ GpuBackend!Done(t) /\ UNCHANGED model
  BY DEF GpuBackend!_persist_gpu_failure
<1>3. GpuGoes(t, "idle") /\ Lanes' /\ lane' \in [lock : Threads \cup {0}, writers : Nat, cpu : Nat]
  BY <1>1, <1>2, GpuLeave
<1>4. \A u \in Threads \ {t} : thread[u].pc \notin Alone \cup {"cpu"}
  BY <1>1, GpuAlone
<1>5. backend.disabled
  BY <1>1 DEF GpuInv, Failures, Within
<1>6. /\ backend' \in [disabled : BOOLEAN, failed : BOOLEAN, persisted : BOOLEAN]
      /\ backend'.disabled /\ marker' \in BOOLEAN
  <2>1. backend' \in {backend, [backend EXCEPT !.persisted = FALSE]} /\ marker' \in {marker, TRUE}
    BY DEF GpuBackend!_persist_gpu_failure
  <2> QED BY <1>5, <2>1 DEF GpuInv, GpuTypes
<1>7. marker' \/ accidents' \cap {"disk full", "cleared"} # {}
  BY DEF GpuBackend!_persist_gpu_failure, GpuBackend!Meets
<1>8. \A u \in Threads \ {t} : thread[u].pc \notin {"gpu", "cpu"}
  BY <1>4 DEF Alone
<1>9. Failures'
  BY <1>1, <1>3, <1>6, <1>7, <1>8, FailuresKept DEF GpuInv
<1>10. GpuTypes'
  BY <1>1, <1>2, <1>3, <1>6, GpuTypesKept DEF GpuInv, GpuTypes
<1> QED
  BY <1>3, <1>9, <1>10 DEF GpuInv

\* A model is moved to ONNX.
LEMMA GpuMoves ==
  ASSUME GpuInv, NEW t \in Threads, GpuBackend!ensure_cpu(t)
  PROVE  GpuInv'
<1>1. thread[t].pc = "move" /\ thread[t].of \in Models /\ "ort" \in GpuPlaces
  BY DEF GpuBackend!ensure_cpu, GpuInv, GpuTypes, GpuPlaces
<1>2. GpuGoes(t, "ort")
  BY <1>1, GpuGoto DEF GpuBackend!ensure_cpu, GpuInv
<1>3. UNCHANGED <<lane, marker, accidents>>
  BY DEF GpuBackend!ensure_cpu
<1>4. Lanes' /\ lane' \in [lock : Threads \cup {0}, writers : Nat, cpu : Nat]
  BY <1>1, <1>2, <1>3, GpuQuiet DEF Claimed
<1>5. /\ model' \in [Models -> {"none", "GPU", "CPU", "ort"}]
      /\ \/ UNCHANGED backend
         \/ backend' = [disabled |-> TRUE, failed |-> backend.failed, persisted |-> backend.persisted]
  BY <1>1 DEF GpuBackend!ensure_cpu, GpuBackend!disable_gpu_backend, GpuBackend!ShouldPersist, GpuInv, GpuTypes
<1>6. backend' \in [disabled : BOOLEAN, failed : BOOLEAN, persisted : BOOLEAN]
      /\ (backend.disabled => backend'.disabled) /\ backend'.failed = backend.failed
      /\ backend'.persisted = backend.persisted
  <2>1. backend.failed \in BOOLEAN /\ backend.persisted \in BOOLEAN
        /\ backend \in [disabled : BOOLEAN, failed : BOOLEAN, persisted : BOOLEAN]
    BY DEF GpuInv, GpuTypes
  <2>2. CASE UNCHANGED backend
    BY <2>1, <2>2
  <2>3. CASE backend' = [disabled |-> TRUE, failed |-> backend.failed, persisted |-> backend.persisted]
    <3>1. backend' \in [disabled : BOOLEAN, failed : BOOLEAN, persisted : BOOLEAN]
      BY <2>1, <2>3
    <3>2. backend'.disabled /\ backend'.failed = backend.failed /\ backend'.persisted = backend.persisted
      BY <2>3
    <3> QED BY <3>1, <3>2
  <2> QED BY <1>5, <2>2, <2>3
<1>7. Failures'
  <2>1. backend.failed => \A u \in Threads : thread[u].pc \notin {"gpu", "cpu"}
    BY DEF GpuInv, Failures, Within
  <2>2. Within({"persist"}, thread) # {} => \E u \in Threads \ {t} : thread[u].pc = "persist"
    BY <1>1 DEF Within
  <2> QED BY <1>1, <1>2, <1>3, <1>6, <2>1, <2>2, FailuresKept DEF GpuInv, Failures
<1>8. GpuTypes'
  BY <1>1, <1>2, <1>3, <1>4, <1>5, <1>6, GpuTypesKept DEF GpuInv, GpuTypes
<1> QED
  BY <1>4, <1>7, <1>8 DEF GpuInv

\* A model is demoted, or a call through ONNX ends.
LEMMA GpuOutside ==
  ASSUME GpuInv, NEW t \in Threads, GpuBackend!Ort(t) \/ \E m \in Models : GpuBackend!Demote(t, m)
  PROVE  GpuInv'
<1>1. CASE GpuBackend!Ort(t)
  <2>1. thread[t].pc = "ort" /\ GpuGoes(t, "idle") /\ UNCHANGED <<lane, model, backend, marker, accidents>>
    BY <1>1, GpuDone DEF GpuBackend!Ort, GpuInv
  <2>2. "idle" \in GpuPlaces /\ {"idle", "ort"} \cap (Claimed \cup {"cpu"}) = {}
    BY DEF GpuPlaces, Claimed
  <2>3. Lanes' /\ lane' \in [lock : Threads \cup {0}, writers : Nat, cpu : Nat]
    BY <2>1, <2>2, GpuQuiet
  <2> QED BY <2>1, <2>2, <2>3, FailuresStand, GpuTypesKept DEF GpuInv, GpuTypes
<1>2. CASE \E m \in Models : GpuBackend!Demote(t, m)
  <2>0. PICK m \in Models : GpuBackend!Demote(t, m)
    BY <1>2
  <2>1. /\ thread[t].pc = "idle" /\ thread' = [thread EXCEPT ![t] = [pc |-> "move", of |-> m]]
        /\ UNCHANGED <<lane, model, backend, marker>> /\ accidents \subseteq accidents'
    BY <2>0 DEF GpuBackend!Demote, GpuBackend!Meets
  <2>2. "move" \in GpuPlaces /\ {"idle", "move"} \cap (Claimed \cup {"cpu"}) = {}
    BY DEF GpuPlaces, Claimed
  <2>3. GpuGoes(t, "move")
    BY <2>1, <2>2, GpuSet DEF GpuInv
  <2>4. Lanes' /\ lane' \in [lock : Threads \cup {0}, writers : Nat, cpu : Nat]
    BY <2>1, <2>2, <2>3, GpuQuiet
  <2>5. Failures'
    <3>1. backend.failed => \A u \in Threads : thread[u].pc \notin {"gpu", "cpu"}
      BY DEF GpuInv, Failures, Within
    <3>2. Within({"persist"}, thread) # {} => \E u \in Threads \ {t} : thread[u].pc = "persist"
      BY <2>1 DEF Within
    <3> QED BY <2>1, <2>2, <2>3, <3>1, <3>2, FailuresKept DEF GpuInv, Failures
  <2> QED BY <2>1, <2>2, <2>3, <2>4, <2>5, GpuTypesKept DEF GpuInv, GpuTypes
<1> QED
  BY <1>1, <1>2

\* A call on the CPU begins, if the backend is still usable, and ends.
LEMMA GpuCpu ==
  ASSUME GpuInv, NEW t \in Threads, GpuBackend!_cpu_native_lane(t) \/ GpuBackend!CpuAnswers(t)
  PROVE  GpuInv'
<1>0. UNCHANGED <<model, backend, marker, accidents>> /\ lane.lock = 0
  BY DEF GpuBackend!_cpu_native_lane, GpuBackend!CpuAnswers, GpuBackend!Free
<1>1. ASSUME NEW pc \in {"idle", "move", "cpu"}, GpuGoes(t, pc), thread[t].pc \in {"cpu lane", "cpu"},
             pc = "cpu" => ~backend.failed,
             lane' \in [lock : Threads \cup {0}, writers : Int, cpu : Int],
             lane'.lock = 0, lane'.writers = lane.writers,
             lane'.cpu = lane.cpu + Change({"cpu"}, thread[t].pc, pc)
      PROVE  GpuInv'
  <2>0. lane.writers + 0 = lane.writers
    BY DEF GpuInv, GpuTypes
  <2>1. pc \in GpuPlaces /\ {pc, thread[t].pc} \cap (Claimed \cup Alone) = {}
    BY <1>1 DEF GpuPlaces, Claimed, Alone
  <2>2. Change(Claimed, thread[t].pc, pc) = 0
    BY <2>1 DEF Change
  <2>3. Lanes' /\ lane' \in [lock : Threads \cup {0}, writers : Nat, cpu : Nat]
    BY <1>0, <1>1, <2>0, <2>1, <2>2, LanesKept DEF GpuInv
  <2>4. Failures'
    BY <1>0, <1>1, <2>1, FailuresStand DEF GpuInv
  <2>5. GpuTypes'
    BY <1>0, <1>1, <2>1, <2>3, GpuTypesKept DEF GpuInv, GpuTypes
  <2> QED BY <2>3, <2>4, <2>5 DEF GpuInv
<1>2. lane \in [lock : Threads \cup {0}, writers : Int, cpu : Int]
  BY DEF GpuInv, GpuTypes
<1>3. {"idle", "move", "cpu"} \subseteq GpuPlaces
  BY DEF GpuPlaces
<1>4. CASE GpuBackend!_cpu_native_lane(t) /\ ~backend.failed
  <2>1. thread[t].pc = "cpu lane" /\ GpuGoes(t, "cpu") /\ lane' = [lane EXCEPT !.cpu = @ + 1]
    BY <1>3, <1>4, GpuGoto DEF GpuBackend!_cpu_native_lane, GpuBackend!Usable, GpuInv
  <2>2. /\ lane' \in [lock : Threads \cup {0}, writers : Int, cpu : Int]
        /\ lane'.lock = 0 /\ lane'.writers = lane.writers /\ lane'.cpu = lane.cpu + 1
    <3>0. lane.cpu + 1 \in Int
      BY <1>2
    <3>1. lane' = [lane EXCEPT !.cpu = lane.cpu + 1]
      BY <2>1
    <3>2. \A n \in Int : [lane EXCEPT !.cpu = n] \in [lock : Threads \cup {0}, writers : Int, cpu : Int]
      BY <1>2
    <3>3. lane'.lock = 0 /\ lane'.writers = lane.writers /\ lane'.cpu = lane.cpu + 1
      BY <1>0, <1>2, <3>1
    <3> QED BY <3>0, <3>1, <3>2, <3>3
  <2>3. Change({"cpu"}, "cpu lane", "cpu") = 1
    BY DEF Change
  <2> QED BY <1>1, <1>4, <2>1, <2>2, <2>3
<1>5. CASE GpuBackend!_cpu_native_lane(t) /\ backend.failed
  <2>1. thread[t].pc = "cpu lane" /\ GpuGoes(t, "move") /\ UNCHANGED lane
    BY <1>3, <1>5, GpuGoto DEF GpuBackend!_cpu_native_lane, GpuBackend!Usable, GpuInv
  <2>2. Change({"cpu"}, "cpu lane", "move") = 0
    BY DEF Change
  <2>3. lane.cpu + 0 = lane.cpu
    BY <1>2
  <2> QED BY <1>0, <1>1, <1>2, <2>1, <2>2, <2>3
<1>6. CASE GpuBackend!CpuAnswers(t)
  <2>1. thread[t].pc = "cpu" /\ GpuGoes(t, "idle") /\ lane' = [lane EXCEPT !.cpu = @ - 1]
    BY <1>6, GpuDone DEF GpuBackend!CpuAnswers, GpuBackend!LeftCpu, GpuInv
  <2>2. /\ lane' \in [lock : Threads \cup {0}, writers : Int, cpu : Int]
        /\ lane'.lock = 0 /\ lane'.writers = lane.writers /\ lane'.cpu = lane.cpu - 1
    <3>0. lane.cpu - 1 \in Int
      BY <1>2
    <3>1. lane' = [lane EXCEPT !.cpu = lane.cpu - 1]
      BY <2>1
    <3>2. \A n \in Int : [lane EXCEPT !.cpu = n] \in [lock : Threads \cup {0}, writers : Int, cpu : Int]
      BY <1>2
    <3>3. lane'.lock = 0 /\ lane'.writers = lane.writers /\ lane'.cpu = lane.cpu - 1
      BY <1>0, <1>2, <3>1
    <3> QED BY <3>0, <3>1, <3>2, <3>3
  <2>3. Change({"cpu"}, "cpu", "idle") = -1
    BY DEF Change
  <2> QED BY <1>1, <1>2, <2>1, <2>2, <2>3
<1>7. backend.failed \in BOOLEAN
  BY DEF GpuInv, GpuTypes
<1> QED
  BY <1>4, <1>5, <1>6, <1>7

\* A start knows the marker and nothing else.
LEMMA GpuRestart ==
  ASSUME GpuInv, GpuBackend!Restart
  PROVE  GpuInv'
<1>1. /\ lane' = [lock |-> 0, writers |-> 0, cpu |-> 0]
      /\ model' = [m \in Models |-> "none"]
      /\ thread' = [t \in Threads |-> [pc |-> "idle", of |-> 0]]
      /\ UNCHANGED marker
  BY DEF GpuBackend!Restart, GpuBackend!NoThread, GpuBackend!Free
<1>2. backend' = [disabled |-> marker, failed |-> FALSE, persisted |-> FALSE]
  BY DEF GpuBackend!Restart, GpuBackend!restore_gpu_failure_state, GpuBackend!Fresh
<1>3. \A P : "idle" \notin P => Within(P, thread') = {}
  BY <1>1 DEF Within
<1>4. GpuTypes'
  BY <1>1, <1>2 DEF GpuInv, GpuTypes, Calls, GpuPlaces
<1>5. Lanes'
  <2>1. \A t \in Threads : thread'[t].pc = "idle" /\ t # 0
    BY <1>1, GpuAssumption
  <2>2. Within(Claimed, thread') = {} /\ Within({"cpu"}, thread') = {}
    BY <1>3 DEF Claimed
  <2>3. "idle" \notin Alone
    BY DEF Alone
  <2> QED BY <1>1, <2>1, <2>2, <2>3, FS_EmptySet DEF Lanes
<1>6. Failures'
  <2>1. Within({"persist"}, thread') = {}
    BY <1>3
  <2> QED BY <1>1, <1>2, <2>1 DEF Failures
<1> QED
  BY <1>4, <1>5, <1>6 DEF GpuInv

\* Clearing the marker leaves its trace.
LEMMA GpuClear ==
  ASSUME GpuInv, GpuBackend!clear_gpu_failure_state
  PROVE  GpuInv'
<1>1. /\ marker' = FALSE /\ backend' = [backend EXCEPT !.persisted = FALSE]
      /\ UNCHANGED <<lane, model, thread>> /\ "cleared" \in accidents'
  BY DEF GpuBackend!clear_gpu_failure_state, GpuBackend!Meets
<1>2. /\ backend' \in [disabled : BOOLEAN, failed : BOOLEAN, persisted : BOOLEAN]
      /\ backend'.disabled = backend.disabled /\ backend'.failed = backend.failed
  BY <1>1 DEF GpuInv, GpuTypes
<1>3. GpuTypes'
  BY <1>1, <1>2 DEF GpuInv, GpuTypes
<1>4. Lanes'
  BY <1>1 DEF GpuInv, Lanes, Within
<1>5. Failures'
  BY <1>1, <1>2 DEF GpuInv, Failures, Within
<1> QED
  BY <1>3, <1>4, <1>5 DEF GpuInv

\* The first state.
LEMMA GpuInit == GpuBackend!Init => GpuInv
<1> HAVE GpuBackend!Init
<1>1. /\ lane = [lock |-> 0, writers |-> 0, cpu |-> 0]
      /\ model = [m \in Models |-> "none"]
      /\ thread = [t \in Threads |-> [pc |-> "idle", of |-> 0]]
      /\ marker = FALSE /\ backend = [disabled |-> FALSE, failed |-> FALSE, persisted |-> FALSE]
  BY DEF GpuBackend!Init, GpuBackend!NoThread, GpuBackend!Free, GpuBackend!Fresh
<1>2. GpuTypes
  BY <1>1 DEF GpuTypes, Calls, GpuPlaces
<1>3. Within(Claimed, thread) = {} /\ Within({"cpu"}, thread) = {} /\ Within({"persist"}, thread) = {}
  BY <1>1 DEF Within, Claimed
<1>4. \A t \in Threads : thread[t].pc = "idle" /\ t # 0
  BY <1>1, GpuAssumption
<1>5. "idle" \notin Alone
  BY DEF Alone
<1> QED
  BY <1>1, <1>2, <1>3, <1>4, <1>5, FS_EmptySet DEF GpuInv, Lanes, Failures

\* The backend's invariant is kept by its steps, and while it rests.
LEMMA GpuKeeps ==
  ASSUME GpuInv, GpuBackend!Next \/ UNCHANGED gpuVars
  PROVE  GpuInv'
<1>1. CASE UNCHANGED gpuVars
  BY <1>1 DEF gpuVars, GpuInv, GpuTypes, Lanes, Failures, Within
<1>2. ASSUME NEW t \in Threads, GpuBackend!Working(t) PROVE GpuInv'
  BY <1>2, GpuEnter, GpuDrain, GpuBegin, GpuAnswers, GpuPersist, GpuMoves, GpuOutside, GpuCpu
  DEF GpuBackend!Working
<1> QED
  BY <1>1, <1>2, GpuAnswers, GpuContextFails, GpuCall, GpuOutside, GpuRestart, GpuClear DEF GpuBackend!Next

\* The backend counts as everybody does.
LEMMA GpuCardinality == \A S : GpuBackend!Cardinality(S) = Cardinality(S)
BY DEF GpuBackend!Cardinality, Cardinality

\* What is promised of the backend follows.
LEMMA GpuPromised ==
  ASSUME GpuInv
  PROVE  GpuBackend!TypeOK /\ GpuBackend!NativeLanes /\ GpuBackend!FailureOnRecord /\ GpuBackend!MarkerRules
<1>1. \A pc : GpuBackend!At(pc) = Within({pc}, thread)
  BY DEF GpuBackend!At, Within
<1>2. GpuBackend!TypeOK
  <2>1. Cardinality(Within(Claimed, thread)) \in Nat
        /\ Cardinality(Within(Claimed, thread)) <= Cardinality(Threads) /\ Cardinality(Threads) \in Nat
    BY FS_Subset, FS_CardinalityType, GpuAssumption DEF Within
  <2> QED BY <2>1, GpuCardinality
    DEF GpuInv, GpuTypes, Lanes, GpuBackend!TypeOK, GpuBackend!Free
<1>3. GpuBackend!NativeLanes
  <2>1. ASSUME Within({"gpu"}, thread) # {}
        PROVE  Cardinality(Within({"gpu"}, thread)) = 1 /\ Within({"cpu"}, thread) = {}
    <3>1. PICK t \in Threads : thread[t].pc = "gpu"
      BY <2>1 DEF Within
    <3>2. \A u \in Threads \ {t} : thread[u].pc \notin {"gpu", "cpu"}
      BY <3>1, GpuAlone DEF Alone
    <3>3. Within({"gpu"}, thread) = {t} /\ Within({"cpu"}, thread) = {}
      BY <3>1, <3>2 DEF Within
    <3> QED BY <3>3, FS_Singleton
  <2>2. backend.failed => Within({"gpu"}, thread) \cup Within({"cpu"}, thread) = {}
    BY DEF GpuInv, Failures, Within
  <2> QED BY <1>1, <2>1, <2>2, GpuCardinality DEF GpuBackend!NativeLanes
<1>4. GpuBackend!FailureOnRecord /\ GpuBackend!MarkerRules
  BY <1>1 DEF GpuInv, Failures, GpuBackend!FailureOnRecord, GpuBackend!MarkerRules
<1> QED
  BY <1>2, <1>3, <1>4

-----------------------------------------------------------------------------
(* The media slot.                                                         *)

MediaPlaces == {"idle", "acquire", "settle", "inside", "launch", "infer", "run", "close", "answered", "failed"}
MediaTask == [pc : MediaPlaces, kind : {"probe", "decode", "detect"}, label : {"software", "vaapi"},
              tries : Nat, out : BOOLEAN, asked : Nat, told : Nat]
Gates == [holder : Tasks \cup {0}, unhealthy : BOOLEAN]

MediaTypes ==
  /\ gate \in Gates /\ task \in [Tasks -> MediaTask]
  /\ child \in [Tasks -> {"none", "gated", "plain"}]
  /\ wedged \subseteq Tasks /\ orphan \subseteq Tasks
  /\ file \in Nat /\ probes \in [known : Nat, shows : Nat, failed : Nat]

\* Task r, the slot g and the wedged children w; f is the version of the file.
\* What is on the chip holds the slot; beside a wedged child it makes the gate
\* unhealthy.  A probe's answer is as new as its question.
Fine(t, r, c, g, w, f) ==
  /\ r.tries < ATTEMPTS /\ r.asked <= f
  /\ c = "gated" => g.holder = t /\ r.pc \in {"launch", "run", "close"}
  /\ r.pc \in {"settle", "launch", "infer"} => g.holder = t
  /\ r.pc = "inside" /\ (r.kind # "decode" \/ r.label = "vaapi") => g.holder = t
  /\ g.holder = t => r.pc \in {"settle", "inside", "launch", "infer", "run", "close"}
  /\ r.pc = "infer" => r.kind = "detect"
  /\ (c = "gated" \/ r.pc \in {"launch", "infer"} \/ (r.pc = "inside" /\ g.holder = t)) /\ w # {} => g.unhealthy
  /\ r.kind = "probe" /\ (r.pc = "answered" \/ (r.pc = "close" /\ r.out)) => r.told >= r.asked
  /\ r.out => (r.kind = "decode" /\ r.pc = "run") \/ (r.kind = "probe" /\ r.pc \in {"close", "answered"})

\* Several wedged children are never unnoticed.
Noticed(g, w) == g.unhealthy \/ \A a, b \in w : a = b

MediaInv ==
  /\ MediaTypes
  /\ \A t \in Tasks : Fine(t, task[t], child[t], gate, wedged, file)
  /\ Noticed(gate, wedged)
  /\ probes.shows >= probes.known

\* How the slot and the wedged children may change with a step of task t.
GateMoves(t, g, h, w, x) ==
  /\ h \in Gates /\ x \subseteq Tasks
  /\ h.holder = g.holder \/ (g.holder = t /\ h.holder = 0) \/ (g.holder = 0 /\ h.holder = t)
  /\ x # {} /\ g.unhealthy => h.unhealthy
  /\ x \subseteq w \/ (x \subseteq w \cup {t} /\ g.holder = t)

\* Another task is fine with that.
LEMMA OthersFine ==
  ASSUME NEW t \in Tasks, NEW u \in Tasks, u # t, NEW r \in MediaTask, NEW c, NEW g \in Gates, NEW h, NEW w, NEW x,
         NEW f \in Nat, NEW n \in Nat, f <= n, GateMoves(t, g, h, w, x), Fine(u, r, c, g, w, f)
  PROVE  Fine(u, r, c, h, x, n)
<1>1. g.holder = u <=> h.holder = u
  BY MediaAssumption DEF GateMoves
<1>2. g.holder = u /\ x # {} => w # {}
  BY DEF GateMoves
<1>3. r.asked \in Nat
  BY DEF MediaTask
<1> QED
  BY <1>1, <1>2, <1>3 DEF GateMoves, Fine

\* A step of one task keeps the invariant if it leaves that task fine.
LEMMA MediaMove ==
  ASSUME MediaInv, NEW t \in Tasks, NEW r \in MediaTask, NEW c \in {"none", "gated", "plain"},
         task' = [task EXCEPT ![t] = r], child' = [child EXCEPT ![t] = c],
         GateMoves(t, gate, gate', wedged, wedged'), Noticed(gate', wedged'),
         Fine(t, r, c, gate', wedged', file),
         UNCHANGED file, probes' \in [known : Nat, shows : Nat, failed : Nat], probes'.shows >= probes'.known,
         orphan' \subseteq Tasks
  PROVE  MediaInv'
<1>1. MediaTypes'
  BY DEF MediaInv, MediaTypes, GateMoves
<1>2. \A u \in Tasks : Fine(u, task'[u], child'[u], gate', wedged', file')
  <2> TAKE u \in Tasks
  <2>1. CASE u = t
    BY <2>1 DEF MediaInv, MediaTypes
  <2>2. CASE u # t
    <3>1. task'[u] = task[u] /\ child'[u] = child[u] /\ task[u] \in MediaTask /\ gate \in Gates /\ file \in Nat
      BY <2>2 DEF MediaInv, MediaTypes
    <3>2. Fine(u, task[u], child[u], gate, wedged, file) /\ file <= file
      BY <3>1 DEF MediaInv
    <3> QED BY <2>2, <3>1, <3>2, OthersFine
  <2> QED BY <2>1, <2>2
<1> QED
  BY <1>1, <1>2 DEF MediaInv

\* What is known of a task and the slot when it takes a step.
LEMMA MediaAtHand ==
  ASSUME MediaInv, NEW t \in Tasks
  PROVE  /\ task[t] \in MediaTask /\ child[t] \in {"none", "gated", "plain"} /\ gate \in Gates
         /\ Fine(t, task[t], child[t], gate, wedged, file) /\ Noticed(gate, wedged)
         /\ file \in Nat /\ wedged \subseteq Tasks /\ orphan \subseteq Tasks
         /\ probes \in [known : Nat, shows : Nat, failed : Nat] /\ probes.shows >= probes.known
BY DEF MediaInv, MediaTypes

\* The slot as it is.
LEMMA GateStays ==
  ASSUME MediaInv, NEW t \in Tasks
  PROVE  GateMoves(t, gate, gate, wedged, wedged)
BY MediaAtHand DEF GateMoves

\* The records a task begins with, or fails with.
LEMMA NoTaskType ==
  LET n == MediaGate!NoTask IN
  n \in MediaTask /\ n.pc = "idle" /\ n.kind = "probe" /\ n.label = "software" /\ n.tries = 0 /\ n.out = FALSE
  /\ n.asked = 0 /\ n.told = 0
BY DEF MediaGate!NoTask, MediaTask, MediaPlaces

\* r begins: nothing tried, nothing handed out.
Begins(r, pc, kind, asked, told) ==
  r \in MediaTask /\ r.pc = pc /\ r.kind = kind /\ r.tries = 0 /\ r.out = FALSE /\ r.asked = asked /\ r.told = told

\* So do these.
LEMMA Beginnings ==
  ASSUME NEW pc \in MediaPlaces, NEW a \in Nat, NEW n \in Nat, NEW label \in {"software", "vaapi"}
  PROVE  /\ Begins([MediaGate!NoTask EXCEPT !.pc = pc], pc, "probe", 0, 0)
         /\ Begins([MediaGate!NoTask EXCEPT !.pc = pc, !.asked = a], pc, "probe", a, 0)
         /\ Begins([MediaGate!NoTask EXCEPT !.pc = pc, !.asked = a, !.told = n], pc, "probe", a, n)
         /\ Begins([MediaGate!NoTask EXCEPT !.kind = "decode", !.label = label, !.pc = pc], pc, "decode", 0, 0)
         /\ [MediaGate!NoTask EXCEPT !.kind = "decode", !.label = label, !.pc = pc].label = label
         /\ Begins([MediaGate!NoTask EXCEPT !.kind = "detect", !.pc = pc], pc, "detect", 0, 0)
         /\ Begins([MediaGate!NoTask EXCEPT !.pc = pc, !.kind = "decode"], pc, "decode", 0, 0)
<1> USE NoTaskType DEF Begins, MediaTask
<1>1. Begins([MediaGate!NoTask EXCEPT !.pc = pc], pc, "probe", 0, 0)
  OBVIOUS
<1>2. Begins([MediaGate!NoTask EXCEPT !.pc = pc, !.asked = a], pc, "probe", a, 0)
  OBVIOUS
<1>3. Begins([MediaGate!NoTask EXCEPT !.pc = pc, !.asked = a, !.told = n], pc, "probe", a, n)
  OBVIOUS
<1>4. Begins([MediaGate!NoTask EXCEPT !.kind = "decode", !.label = label, !.pc = pc], pc, "decode", 0, 0)
      /\ [MediaGate!NoTask EXCEPT !.kind = "decode", !.label = label, !.pc = pc].label = label
  OBVIOUS
<1>5. Begins([MediaGate!NoTask EXCEPT !.kind = "detect", !.pc = pc], pc, "detect", 0, 0)
  OBVIOUS
<1>6. Begins([MediaGate!NoTask EXCEPT !.pc = pc, !.kind = "decode"], pc, "decode", 0, 0)
  OBVIOUS
<1> QED
  BY <1>1, <1>2, <1>3, <1>4, <1>5, <1>6

\* A task sent on.
LEMMA MediaGoto ==
  ASSUME MediaInv, NEW t \in Tasks, NEW pc \in MediaPlaces, MediaGate!Goto(t, pc)
  PROVE  /\ task' = [task EXCEPT ![t] = [task[t] EXCEPT !.pc = pc]]
         /\ [task[t] EXCEPT !.pc = pc] \in MediaTask
         /\ child = [child EXCEPT ![t] = child[t]]
<1>1. task \in [Tasks -> MediaTask] /\ child \in [Tasks -> {"none", "gated", "plain"}] /\ task[t] \in MediaTask
  BY DEF MediaInv, MediaTypes
<1>2. [task[t] EXCEPT !.pc = pc] \in MediaTask
  BY <1>1 DEF MediaTask
<1> QED
  BY <1>1, <1>2 DEF MediaGate!Goto

\* A task begins something, or goes back to rest.
LEMMA MediaRecord ==
  ASSUME MediaInv, NEW t \in Tasks, NEW r, NEW pc, NEW kind, NEW asked, NEW told,
         Begins(r, pc, kind, asked, told),
         asked <= file, kind = "probe" /\ pc = "answered" => told >= asked,
         pc \notin {"settle", "launch", "infer"},
         pc = "inside" => kind = "decode" /\ r.label = "software",
         gate.holder # t, child[t] # "gated",
         task' = [task EXCEPT ![t] = r],
         UNCHANGED <<gate, child, wedged, file, probes>>,
         orphan' \subseteq Tasks
  PROVE  MediaInv'
<1>1. Fine(t, r, child[t], gate, wedged, file)
  BY MediaAssumption DEF Fine, Begins
<1>2. child' = [child EXCEPT ![t] = child[t]]
  BY DEF MediaInv, MediaTypes
<1>3. GateMoves(t, gate, gate', wedged, wedged')
  BY GateStays
<1> QED
  BY <1>1, <1>2, <1>3, MediaAtHand, MediaMove DEF Begins

\* A task at rest asks for something.
LEMMA MediaAsk ==
  ASSUME MediaInv, NEW t \in Tasks,
         MediaGate!AskProbe(t) \/ MediaGate!AskDecode(t) \/ MediaGate!AskDetect(t)
  PROVE  MediaInv'
<1>0. task[t].pc = "idle"
  BY DEF MediaGate!AskProbe, MediaGate!AskDecode, MediaGate!AskDetect
<1>1. child[t] # "gated" /\ gate.holder # t
  BY <1>0, MediaAtHand DEF Fine
<1>2. /\ orphan' \subseteq Tasks
      /\ UNCHANGED <<gate, child, wedged, file, probes>>
  BY MediaAtHand DEF MediaGate!AskProbe, MediaGate!AskDecode, MediaGate!AskDetect, MediaGate!shared
<1>3. {"idle", "acquire", "inside", "answered", "failed"} \subseteq MediaPlaces
  BY DEF MediaPlaces
<1>4. file \in Nat /\ probes.shows \in Nat /\ probes.known \in Nat /\ probes.shows >= probes.known
      /\ file <= file /\ 0 <= file /\ 0 >= 0
  BY MediaAtHand
<1>5. CASE MediaGate!AskProbe(t)
  <2>1. CASE probes.known = file
           /\ task' = [task EXCEPT ![t] = [MediaGate!NoTask EXCEPT !.pc = "answered", !.asked = file, !.told = probes.shows]]
    <3> DEFINE r == [MediaGate!NoTask EXCEPT !.pc = "answered", !.asked = file, !.told = probes.shows]
    <3>1. Begins(r, "answered", "probe", file, probes.shows)
      BY <1>3, <1>4, Beginnings
    <3>2. task' = [task EXCEPT ![t] = r]
      BY <2>1
    <3> DEFINE s == probes.shows
    <3>3. Begins(r, "answered", "probe", file, s) /\ s >= file /\ file <= file
      BY <1>4, <2>1, <3>1
    <3> HIDE DEF r, s
    <3> QED BY <1>1, <1>2, <3>2, <3>3, MediaRecord
  <2>2. CASE task' = [task EXCEPT ![t] = [MediaGate!NoTask EXCEPT !.pc = "failed"]]
    <3> DEFINE r == [MediaGate!NoTask EXCEPT !.pc = "failed"]
    <3>1. Begins(r, "failed", "probe", 0, 0)
      BY <1>3, Beginnings
    <3>2. task' = [task EXCEPT ![t] = r]
      BY <2>2
    <3> HIDE DEF r
    <3> QED BY <1>1, <1>2, <1>4, <3>1, <3>2, MediaRecord
  <2>3. CASE task' = [task EXCEPT ![t] = [MediaGate!NoTask EXCEPT !.pc = "acquire", !.asked = file]]
    <3> DEFINE r == [MediaGate!NoTask EXCEPT !.pc = "acquire", !.asked = file]
    <3>1. Begins(r, "acquire", "probe", file, 0)
      BY <1>3, <1>4, Beginnings
    <3>2. task' = [task EXCEPT ![t] = r]
      BY <2>3
    <3> HIDE DEF r
    <3> QED BY <1>1, <1>2, <1>4, <3>1, <3>2, MediaRecord
  <2> QED BY <1>5, <2>1, <2>2, <2>3 DEF MediaGate!AskProbe
<1>6. CASE MediaGate!AskDecode(t)
  <2> DEFINE l == MediaGate!Label
             pc == IF l = "vaapi" THEN "acquire" ELSE "inside"
             r == [MediaGate!NoTask EXCEPT !.kind = "decode", !.label = l, !.pc = pc]
  <2>1. l \in {"software", "vaapi"}
    BY DEF MediaGate!Label
  <2>2. task' = [task EXCEPT ![t] = r]
    BY <1>6 DEF MediaGate!AskDecode
  <2> HIDE DEF l
  <2>3. pc \in MediaPlaces /\ pc \in {"acquire", "inside"} /\ (pc = "inside" => l = "software")
    BY <1>3, <2>1
  <2> HIDE DEF pc
  <2>4. Begins(r, pc, "decode", 0, 0) /\ r.label = l
    BY <2>1, <2>3, Beginnings
  <2> HIDE DEF r
  <2> QED BY <1>1, <1>2, <1>4, <2>2, <2>3, <2>4, MediaRecord
<1>7. CASE MediaGate!AskDetect(t)
  <2> DEFINE pc == IF gate.unhealthy THEN "answered" ELSE "acquire"
             r == [MediaGate!NoTask EXCEPT !.kind = "detect", !.pc = pc]
  <2>1. task' = [task EXCEPT ![t] = r]
    BY <1>7 DEF MediaGate!AskDetect
  <2>2. pc \in MediaPlaces /\ pc \in {"answered", "acquire"}
    BY <1>3
  <2> HIDE DEF pc
  <2>3. Begins(r, pc, "detect", 0, 0)
    BY <2>2, Beginnings
  <2> HIDE DEF r
  <2> QED BY <1>1, <1>2, <1>4, <2>1, <2>2, <2>3, MediaRecord
<1> QED
  BY <1>5, <1>6, <1>7

\* A task that was answered, or failed, is at rest again.
LEMMA MediaReturn ==
  ASSUME MediaInv, NEW t \in Tasks, MediaGate!Return(t)
  PROVE  MediaInv'
<1>1. task[t].pc \in {"answered", "failed"} /\ task' = [task EXCEPT ![t] = MediaGate!NoTask]
      /\ UNCHANGED <<gate, child, wedged, file, probes, orphan, mishaps>>
  BY DEF MediaGate!Return, MediaGate!shared
<1>2. child[t] # "gated" /\ gate.holder # t
  BY <1>1, MediaAtHand DEF Fine
<1>3. Begins(MediaGate!NoTask, "idle", "probe", 0, 0) /\ file \in Nat /\ 0 <= file
  BY MediaAtHand, NoTaskType DEF Begins
<1> QED
  BY <1>1, <1>2, <1>3, MediaAtHand, MediaRecord

\* A task is sent on within the slot, or from it, with the child it has.
LEMMA MediaSent ==
  ASSUME MediaInv, NEW t \in Tasks, NEW pc \in MediaPlaces, MediaGate!Goto(t, pc),
         GateMoves(t, gate, gate', wedged, wedged'), Noticed(gate', wedged'), UNCHANGED <<child, orphan, file, probes>>,
         mishaps \subseteq mishaps',
         Fine(t, [task[t] EXCEPT !.pc = pc], child[t], gate', wedged', file)
  PROVE  MediaInv'
<1>1. /\ task' = [task EXCEPT ![t] = [task[t] EXCEPT !.pc = pc]]
      /\ [task[t] EXCEPT !.pc = pc] \in MediaTask
      /\ child' = [child EXCEPT ![t] = child[t]]
  BY MediaGoto
<1> QED
  BY <1>1, MediaAtHand, MediaMove

\* The lock is taken.
LEMMA MediaAcquire ==
  ASSUME MediaInv, NEW t \in Tasks, MediaGate!Acquire(t)
  PROVE  MediaInv'
<1>1. /\ task[t].pc = "acquire" /\ gate.holder = 0 /\ gate' = [gate EXCEPT !.holder = t]
      /\ MediaGate!Goto(t, "settle") /\ UNCHANGED <<child, wedged, orphan, file, probes, mishaps>>
  BY DEF MediaGate!Acquire, MediaGate!shared, MediaGate!Nobody
<1>2. gate' \in Gates /\ gate'.holder = t /\ gate'.unhealthy = gate.unhealthy
  BY <1>1, MediaAtHand DEF Gates
<1>3. GateMoves(t, gate, gate', wedged, wedged')
  BY <1>1, <1>2, MediaAtHand DEF GateMoves
<1>4. Noticed(gate', wedged')
  BY <1>1, <1>2, MediaAtHand DEF Noticed
<1> DEFINE r == [task[t] EXCEPT !.pc = "settle"]
<1>5. /\ r.pc = "settle" /\ r.tries = task[t].tries /\ r.asked = task[t].asked /\ r.kind = task[t].kind
      /\ r.out = task[t].out
  BY MediaAtHand DEF MediaTask
<1>6. Fine(t, task[t], child[t], gate, wedged, file)
  BY MediaAtHand
<1> HIDE DEF r
<1>7. Fine(t, r, child[t], gate', wedged', file)
  BY <1>1, <1>2, <1>5, <1>6 DEF Fine
<1>8. "settle" \in MediaPlaces
  BY DEF MediaPlaces
<1> QED
  BY <1>1, <1>3, <1>4, <1>7, <1>8, MediaSent DEF r

\* The slot is entered, a wedged child noticed.
LEMMA MediaSettle ==
  ASSUME MediaInv, NEW t \in Tasks, MediaGate!settle(t)
  PROVE  MediaInv'
<1>1. /\ task[t].pc = "settle" /\ gate' = [gate EXCEPT !.unhealthy = @ \/ MediaGate!Registered # {}]
      /\ MediaGate!Goto(t, "inside") /\ UNCHANGED <<child, wedged, orphan, file, probes, mishaps>>
  BY DEF MediaGate!settle, MediaGate!shared
<1>2. wedged \subseteq MediaGate!Registered
  BY DEF MediaGate!Registered
<1>3. gate' \in Gates /\ gate'.holder = gate.holder /\ (gate.unhealthy \/ wedged # {} => gate'.unhealthy)
  BY <1>1, <1>2, MediaAtHand DEF Gates
<1>4. GateMoves(t, gate, gate', wedged, wedged')
  BY <1>1, <1>3, MediaAtHand DEF GateMoves
<1>5. Noticed(gate', wedged')
  BY <1>1, <1>3, MediaAtHand DEF Noticed
<1> DEFINE r == [task[t] EXCEPT !.pc = "inside"]
<1>6. /\ r.pc = "inside" /\ r.tries = task[t].tries /\ r.asked = task[t].asked /\ r.kind = task[t].kind
      /\ r.out = task[t].out
  BY MediaAtHand DEF MediaTask
<1>7. Fine(t, task[t], child[t], gate, wedged, file)
  BY MediaAtHand
<1> HIDE DEF r
<1>8. Fine(t, r, child[t], gate', wedged', file)
  BY <1>1, <1>3, <1>6, <1>7 DEF Fine
<1>9. "inside" \in MediaPlaces
  BY DEF MediaPlaces
<1> QED
  BY <1>1, <1>4, <1>5, <1>8, <1>9, MediaSent DEF r

\* The child is registered; nothing else moves.
LEMMA MediaRegister ==
  ASSUME MediaInv, NEW t \in Tasks, MediaGate!_register_child(t)
  PROVE  MediaInv'
<1>1. /\ task[t].pc = "launch" /\ MediaGate!Goto(t, "run")
      /\ UNCHANGED <<gate, child, wedged, orphan, file, probes, mishaps>>
  BY DEF MediaGate!_register_child, MediaGate!shared
<1> DEFINE r == [task[t] EXCEPT !.pc = "run"]
<1>2. /\ r.pc = "run" /\ r.tries = task[t].tries /\ r.asked = task[t].asked /\ r.kind = task[t].kind
      /\ r.out = task[t].out
  BY MediaAtHand DEF MediaTask
<1>3. Fine(t, task[t], child[t], gate, wedged, file)
  BY MediaAtHand
<1> HIDE DEF r
<1>4. Fine(t, r, child[t], gate', wedged', file)
  BY <1>1, <1>2, <1>3 DEF Fine
<1>5. "run" \in MediaPlaces /\ Noticed(gate', wedged') /\ GateMoves(t, gate, gate', wedged, wedged')
  BY <1>1, MediaAtHand, GateStays DEF MediaPlaces, Noticed
<1> QED
  BY <1>1, <1>4, <1>5, MediaSent DEF r

\* The slot given back.
LEMMA MediaRelease ==
  ASSUME NEW g \in Gates, NEW t \in Tasks
  PROVE  /\ MediaGate!Release(t, g) \in Gates /\ MediaGate!Release(t, g).unhealthy = g.unhealthy
         /\ MediaGate!Release(t, g).holder = IF g.holder = t THEN 0 ELSE g.holder
         /\ MediaGate!Release(t, g).holder # t
BY MediaAssumption DEF MediaGate!Release, MediaGate!Nobody, Gates

\* The inference is over.
LEMMA MediaInferred ==
  ASSUME MediaInv, NEW t \in Tasks, MediaGate!Inferred(t)
  PROVE  MediaInv'
<1>1. /\ task[t].pc = "infer" /\ gate' = MediaGate!Release(t, gate) /\ MediaGate!Goto(t, "answered")
      /\ UNCHANGED <<child, wedged, orphan, file, probes, mishaps>>
  BY DEF MediaGate!Inferred, MediaGate!shared
<1>2. Fine(t, task[t], child[t], gate, wedged, file)
  BY MediaAtHand
<1>3. gate' \in Gates /\ gate'.holder # t /\ gate'.unhealthy = gate.unhealthy
      /\ gate'.holder = IF gate.holder = t THEN 0 ELSE gate.holder
  BY <1>1, MediaAtHand, MediaRelease
<1>4. GateMoves(t, gate, gate', wedged, wedged') /\ Noticed(gate', wedged')
  BY <1>1, <1>3, MediaAtHand DEF GateMoves, Noticed
<1> DEFINE r == [task[t] EXCEPT !.pc = "answered"]
<1>5. /\ r.pc = "answered" /\ r.tries = task[t].tries /\ r.asked = task[t].asked /\ r.kind = task[t].kind
      /\ r.out = task[t].out
  BY MediaAtHand DEF MediaTask
<1> HIDE DEF r
<1>6. Fine(t, r, child[t], gate', wedged', file)
  BY <1>1, <1>2, <1>3, <1>5 DEF Fine
<1>7. "answered" \in MediaPlaces
  BY DEF MediaPlaces
<1> QED
  BY <1>1, <1>4, <1>6, <1>7, MediaSent DEF r

\* A frame is handed out.
LEMMA MediaFrame ==
  ASSUME MediaInv, NEW t \in Tasks, MediaGate!Frame(t)
  PROVE  MediaInv'
<1> DEFINE r == [task[t] EXCEPT !.out = TRUE]
<1>1. /\ task[t].pc = "run" /\ task[t].kind = "decode"
      /\ task' = [task EXCEPT ![t].out = TRUE]
      /\ UNCHANGED <<gate, child, wedged, orphan, file, probes, mishaps>>
  BY DEF MediaGate!Frame
<1>2. task' = [task EXCEPT ![t] = r] /\ child' = [child EXCEPT ![t] = child[t]]
  BY <1>1 DEF MediaInv, MediaTypes
<1>3. /\ r \in MediaTask /\ r.pc = "run" /\ r.tries = task[t].tries /\ r.asked = task[t].asked /\ r.kind = "decode"
  BY <1>1, MediaAtHand DEF MediaTask
<1>4. Fine(t, task[t], child[t], gate, wedged, file)
  BY MediaAtHand
<1> HIDE DEF r
<1>5. Fine(t, r, child[t], gate, wedged, file)
  BY <1>1, <1>3, <1>4 DEF Fine
<1>6. GateMoves(t, gate, gate', wedged, wedged')
  BY <1>1, GateStays
<1> QED
  BY <1>1, <1>2, <1>3, <1>5, <1>6, MediaAtHand, MediaMove

\* ffprobe answers, or fails.
LEMMA MediaProbed ==
  ASSUME MediaInv, NEW t \in Tasks, MediaGate!Probed(t)
  PROVE  MediaInv'
<1>1. /\ task[t].pc = "run" /\ task[t].kind = "probe"
      /\ UNCHANGED <<gate, child, wedged, orphan, file, probes>> /\ mishaps \subseteq mishaps'
  BY DEF MediaGate!Probed, MediaGate!shared, MediaGate!Meets
<1>2. Fine(t, task[t], child[t], gate, wedged, file) /\ task[t] \in MediaTask /\ file \in Nat
  BY MediaAtHand
<1>3. GateMoves(t, gate, gate', wedged, wedged') /\ Noticed(gate', wedged') /\ "close" \in MediaPlaces
  BY <1>1, GateStays, MediaAtHand DEF MediaPlaces
<1>4. CASE task' = [task EXCEPT ![t].pc = "close", ![t].told = file, ![t].out = TRUE]
  <2> DEFINE r == [task[t] EXCEPT !.pc = "close", !.told = file, !.out = TRUE]
  <2>1. task' = [task EXCEPT ![t] = r] /\ child' = [child EXCEPT ![t] = child[t]]
    BY <1>1, <1>4 DEF MediaInv, MediaTypes
  <2>2. r \in MediaTask
    BY <1>2, <1>3 DEF MediaTask
  <2>3. /\ r.pc = "close" /\ r.tries = task[t].tries /\ r.asked = task[t].asked /\ r.kind = "probe"
        /\ r.told = file
    BY <1>1, <1>2 DEF MediaTask
  <2> HIDE DEF r
  <2>4. Fine(t, r, child[t], gate', wedged', file)
    BY <1>1, <1>2, <2>3 DEF Fine, MediaTask
  <2> QED BY <1>1, <1>3, <2>1, <2>2, <2>4, MediaAtHand, MediaMove
<1>5. CASE MediaGate!Goto(t, "close")
  <2> DEFINE r == [task[t] EXCEPT !.pc = "close"]
  <2>1. /\ r.pc = "close" /\ r.tries = task[t].tries /\ r.asked = task[t].asked /\ r.kind = "probe"
        /\ r.told = task[t].told /\ r.out = task[t].out
    BY <1>1, <1>2 DEF MediaTask
  <2>2. ~task[t].out
    BY <1>1, <1>2 DEF Fine
  <2> HIDE DEF r
  <2>3. Fine(t, r, child[t], gate', wedged', file)
    BY <1>1, <1>2, <2>1, <2>2 DEF Fine
  <2> QED BY <1>1, <1>3, <1>5, <2>3, MediaSent DEF r
<1> QED
  BY <1>4, <1>5 DEF MediaGate!Probed

\* What closing a child leaves of the slot.
LEMMA MediaClose ==
  ASSUME MediaInv, NEW t \in Tasks, MediaGate!_close_child(t)
  PROVE  /\ child' = [child EXCEPT ![t] = "none"]
         /\ gate' \in Gates /\ gate'.holder # t
         /\ GateMoves(t, gate, gate', wedged, wedged') /\ Noticed(gate', wedged')
         /\ mishaps \subseteq mishaps'
<1>1. child' = [child EXCEPT ![t] = "none"]
  BY DEF MediaGate!_close_child
<1>2. Fine(t, task[t], child[t], gate, wedged, file) /\ gate \in Gates /\ wedged \subseteq Tasks /\ Noticed(gate, wedged)
  BY MediaAtHand
<1>3. CASE /\ UNCHANGED <<wedged, mishaps>>
           /\ gate' = MediaGate!Release(t, [gate EXCEPT !.unhealthy =
                         MediaGate!retire((MediaGate!Enrolled \ {t}) \cup wedged)])
  <2> DEFINE b == MediaGate!retire((MediaGate!Enrolled \ {t}) \cup wedged)
             g == [gate EXCEPT !.unhealthy = b]
  <2>1. b \in BOOLEAN /\ (wedged # {} => b = gate.unhealthy)
    BY <1>2 DEF MediaGate!retire, Gates
  <2>2. gate' = MediaGate!Release(t, g)
    BY <1>3
  <2> HIDE DEF b
  <2>3. g \in Gates /\ g.unhealthy = b /\ g.holder = gate.holder
    BY <1>2, <2>1 DEF Gates
  <2> HIDE DEF g
  <2>4. gate' \in Gates /\ gate'.holder # t /\ gate'.unhealthy = b
        /\ gate'.holder = IF gate.holder = t THEN 0 ELSE gate.holder
    BY <2>2, <2>3, MediaRelease
  <2>5. GateMoves(t, gate, gate', wedged, wedged')
    BY <1>2, <1>3, <2>1, <2>4 DEF GateMoves
  <2>6. Noticed(gate', wedged')
    BY <1>2, <1>3, <2>1, <2>4 DEF Noticed
  <2> QED BY <1>1, <1>3, <2>4, <2>5, <2>6
<1>4. CASE /\ child[t] = "gated" /\ t \notin wedged /\ MediaGate!Meets("wedged")
           /\ wedged' = wedged \cup {t}
           /\ gate' = MediaGate!Release(t, gate)
  <2>1. gate' \in Gates /\ gate'.holder # t /\ gate'.unhealthy = gate.unhealthy
        /\ gate'.holder = IF gate.holder = t THEN 0 ELSE gate.holder
    BY <1>2, <1>4, MediaRelease
  <2>2. gate.holder = t /\ (wedged # {} => gate.unhealthy)
    BY <1>2, <1>4 DEF Fine
  <2>3. GateMoves(t, gate, gate', wedged, wedged')
    BY <1>2, <1>4, <2>1, <2>2 DEF GateMoves
  <2>4. Noticed(gate', wedged')
    BY <1>4, <2>1, <2>2 DEF Noticed
  <2> QED BY <1>1, <1>4, <2>1, <2>3, <2>4 DEF MediaGate!Meets
<1> QED
  BY <1>3, <1>4 DEF MediaGate!_close_child

\* A task goes on without its child.
LEMMA MediaClosed ==
  ASSUME MediaInv, NEW t \in Tasks, MediaGate!_close_child(t), NEW r \in MediaTask,
         task' = [task EXCEPT ![t] = r],
         r.tries < ATTEMPTS, r.asked <= file, r.pc \notin {"settle", "launch", "infer"},
         r.pc = "inside" => r.kind = "decode" /\ r.label = "software",
         r.kind = "probe" /\ r.pc = "answered" => r.told >= r.asked, r.pc # "close",
         r.out => r.kind = "probe" /\ r.pc = "answered",
         UNCHANGED <<orphan, file>>,
         probes' \in [known : Nat, shows : Nat, failed : Nat], probes'.shows >= probes'.known
  PROVE  MediaInv'
<1>1. /\ child' = [child EXCEPT ![t] = "none"] /\ gate' \in Gates /\ gate'.holder # t
      /\ GateMoves(t, gate, gate', wedged, wedged') /\ Noticed(gate', wedged') /\ mishaps \subseteq mishaps'
  BY MediaClose
<1>2. Fine(t, r, "none", gate', wedged', file)
  BY <1>1 DEF Fine
<1>3. orphan' \subseteq Tasks
  BY <1>1, MediaAtHand
<1> QED
  BY <1>1, <1>2, <1>3, MediaMove

\* Or at rest, with nothing in hand.
LEMMA MediaOver ==
  ASSUME MediaInv, NEW t \in Tasks, MediaGate!_close_child(t), NEW r, NEW pc \in {"answered", "failed"}, NEW kind,
         Begins(r, pc, kind, 0, 0), kind = "probe" => pc = "failed",
         task' = [task EXCEPT ![t] = r], UNCHANGED <<orphan, file>>,
         probes' \in [known : Nat, shows : Nat, failed : Nat], probes'.shows >= probes'.known
  PROVE  MediaInv'
<1>1. r \in MediaTask /\ r.pc = pc /\ r.kind = kind /\ r.tries = 0 /\ r.out = FALSE /\ r.asked = 0
  BY DEF Begins
<1>2. file \in Nat /\ 0 <= file /\ 0 < ATTEMPTS
  BY MediaAtHand, MediaAssumption
<1>3. r.tries < ATTEMPTS /\ r.asked <= file
  BY <1>1, <1>2
<1>4. r.pc \notin {"settle", "launch", "infer", "inside", "close"} /\ ~(r.kind = "probe" /\ r.pc = "answered") /\ ~r.out
  BY <1>1
<1> QED
  BY <1>1, <1>3, <1>4, MediaClosed

\* The probe is over; what it says is remembered under the file it was asked of.
LEMMA MediaProbeDone ==
  ASSUME MediaInv, NEW t \in Tasks, MediaGate!ProbeDone(t)
  PROVE  MediaInv'
<1>1. /\ task[t].pc = "close" /\ task[t].kind = "probe" /\ MediaGate!_close_child(t)
      /\ UNCHANGED <<orphan, file>>
      /\ probes' = IF task[t].out THEN [known |-> task[t].asked, shows |-> task[t].told, failed |-> 99]
                   ELSE [probes EXCEPT !.failed = task[t].asked]
  BY DEF MediaGate!ProbeDone, MediaGate!Identity, MediaGate!Absent
<1>2. /\ Fine(t, task[t], child[t], gate, wedged, file) /\ task[t] \in MediaTask /\ file \in Nat /\ 0 <= file
      /\ probes \in [known : Nat, shows : Nat, failed : Nat] /\ probes.shows >= probes.known
  BY MediaAtHand
<1>3. task[t].out \in BOOLEAN /\ task[t].asked \in Nat /\ task[t].told \in Nat
  BY <1>2 DEF MediaTask
<1>4. CASE task[t].out
  <2>1. probes' = [known |-> task[t].asked, shows |-> task[t].told, failed |-> 99] /\ task[t].told >= task[t].asked
    BY <1>1, <1>2, <1>4 DEF Fine
  <2>2. probes' \in [known : Nat, shows : Nat, failed : Nat] /\ probes'.shows >= probes'.known
    BY <1>3, <2>1
  <2>3. "answered" \in MediaPlaces /\ MediaGate!Goto(t, "answered")
    BY <1>4 DEF MediaPlaces, MediaGate!ProbeDone
  <2> DEFINE r == [task[t] EXCEPT !.pc = "answered"]
  <2>4. r \in MediaTask /\ task' = [task EXCEPT ![t] = r]
    BY <2>3, MediaGoto
  <2>5. /\ r.pc = "answered" /\ r.tries = task[t].tries /\ r.asked = task[t].asked /\ r.kind = "probe"
        /\ r.told = task[t].told
    BY <1>1, <1>2 DEF MediaTask
  <2> HIDE DEF r
  <2>6. r.tries < ATTEMPTS /\ r.asked <= file
    BY <1>2, <2>5 DEF Fine
  <2> QED BY <1>1, <2>1, <2>2, <2>4, <2>5, <2>6, MediaClosed
<1>5. CASE ~task[t].out
  <2>1. probes' = [probes EXCEPT !.failed = task[t].asked]
    BY <1>1, <1>5
  <2>2. probes' \in [known : Nat, shows : Nat, failed : Nat] /\ probes'.shows >= probes'.known
    BY <1>2, <1>3, <2>1
  <2> DEFINE r == [MediaGate!NoTask EXCEPT !.pc = "failed"]
  <2>3. task' = [task EXCEPT ![t] = r]
    BY <1>5 DEF MediaGate!ProbeDone
  <2>4. Begins(r, "failed", "probe", 0, 0)
    BY Beginnings DEF MediaPlaces
  <2> HIDE DEF r
  <2> QED BY <1>1, <2>2, <2>3, <2>4, MediaOver
<1> QED
  BY <1>3, <1>4, <1>5

\* The decode has handed its frames out.
LEMMA MediaDecodeDone ==
  ASSUME MediaInv, NEW t \in Tasks, MediaGate!DecodeDone(t)
  PROVE  MediaInv'
<1> DEFINE r == [MediaGate!NoTask EXCEPT !.pc = "answered", !.kind = "decode"]
<1>1. /\ MediaGate!_close_child(t) /\ task' = [task EXCEPT ![t] = r] /\ UNCHANGED <<orphan, file, probes>>
  BY DEF MediaGate!DecodeDone, MediaGate!shared
<1>2. Begins(r, "answered", "decode", 0, 0)
  BY Beginnings DEF MediaPlaces
<1> HIDE DEF r
<1>3. probes' \in [known : Nat, shows : Nat, failed : Nat] /\ probes'.shows >= probes'.known
  BY <1>1, MediaAtHand
<1> QED
  BY <1>1, <1>2, <1>3, MediaOver

\* It fails, for good or to be begun again.
LEMMA MediaDecodeFails ==
  ASSUME MediaInv, NEW t \in Tasks, MediaGate!DecodeFails(t)
  PROVE  MediaInv'
<1>1. /\ task[t].pc = "run" /\ task[t].kind = "decode" /\ MediaGate!_close_child(t)
      /\ UNCHANGED <<orphan, file, probes>>
  BY DEF MediaGate!DecodeFails
<1>2. /\ Fine(t, task[t], child[t], gate, wedged, file) /\ task[t] \in MediaTask /\ file \in Nat /\ 0 <= file
      /\ probes \in [known : Nat, shows : Nat, failed : Nat] /\ probes.shows >= probes.known
  BY MediaAtHand
<1>3. {"failed", "acquire", "inside"} \subseteq MediaPlaces
  BY DEF MediaPlaces
<1>4. CASE task' = [task EXCEPT ![t] = [MediaGate!NoTask EXCEPT !.pc = "failed"]]
  <2> DEFINE r == [MediaGate!NoTask EXCEPT !.pc = "failed"]
  <2>1. task' = [task EXCEPT ![t] = r]
    BY <1>4
  <2>2. Begins(r, "failed", "probe", 0, 0)
    BY <1>3, Beginnings
  <2> HIDE DEF r
  <2>3. probes' \in [known : Nat, shows : Nat, failed : Nat] /\ probes'.shows >= probes'.known
    BY <1>1, <1>2
  <2> QED BY <1>1, <2>1, <2>2, <2>3, MediaOver
<1>5. CASE /\ task' = [task EXCEPT ![t].pc = "acquire", ![t].tries = @ + 1]
           /\ ~task[t].out /\ task[t].tries + 1 < ATTEMPTS
  <2> DEFINE n == task[t].tries + 1
             r == [task[t] EXCEPT !.pc = "acquire", !.tries = n]
  <2>1. task' = [task EXCEPT ![t] = r]
    BY <1>2, <1>5 DEF MediaInv, MediaTypes
  <2>2. n \in Nat /\ n < ATTEMPTS
    BY <1>2, <1>5 DEF MediaTask
  <2> HIDE DEF n
  <2>3. r \in MediaTask
    BY <1>2, <1>3, <2>2 DEF MediaTask
  <2>4. /\ r.pc = "acquire" /\ r.tries = n /\ r.asked = task[t].asked /\ r.kind = "decode" /\ ~r.out
    BY <1>1, <1>2, <1>5 DEF MediaTask
  <2> HIDE DEF r
  <2>5. r.asked <= file
    BY <1>2, <2>4 DEF Fine
  <2> QED BY <1>1, <1>2, <2>1, <2>2, <2>3, <2>4, <2>5, MediaClosed
<1>6. CASE task' = [task EXCEPT ![t].pc = "inside", ![t].label = "software"] /\ ~task[t].out
  <2> DEFINE r == [task[t] EXCEPT !.pc = "inside", !.label = "software"]
  <2>1. task' = [task EXCEPT ![t] = r]
    BY <1>2, <1>6 DEF MediaInv, MediaTypes
  <2>2. r \in MediaTask
    BY <1>2, <1>3 DEF MediaTask
  <2>3. /\ r.pc = "inside" /\ r.tries = task[t].tries /\ r.asked = task[t].asked /\ r.kind = "decode"
        /\ r.label = "software" /\ ~r.out
    BY <1>1, <1>2, <1>6 DEF MediaTask
  <2> HIDE DEF r
  <2>4. r.tries < ATTEMPTS /\ r.asked <= file
    BY <1>2, <2>3 DEF Fine
  <2> QED BY <1>1, <1>2, <2>1, <2>2, <2>3, <2>4, MediaClosed
<1> QED
  BY <1>4, <1>5, <1>6 DEF MediaGate!DecodeFails, MediaGate!Retryable

\* The child is launched, or the inference begins.
LEMMA MediaLaunch ==
  ASSUME MediaInv, NEW t \in Tasks, MediaGate!Launch(t)
  PROVE  MediaInv'
<1> DEFINE label == IF task[t].label = "software" THEN "software" ELSE MediaGate!Label
<1>1. task[t].pc = "inside" /\ UNCHANGED <<gate, wedged, orphan, file, probes, mishaps>>
  BY DEF MediaGate!Launch, MediaGate!shared
<1>2. /\ Fine(t, task[t], child[t], gate, wedged, file) /\ task[t] \in MediaTask
      /\ task[t].kind \in {"probe", "decode", "detect"} /\ task[t].label \in {"software", "vaapi"}
  BY MediaAtHand DEF MediaTask
<1>3. label \in {"software", "vaapi"} /\ (label = "vaapi" => task[t].label = "vaapi")
  BY <1>2 DEF MediaGate!Label
<1>4. {"infer", "run", "launch"} \subseteq MediaPlaces /\ GateMoves(t, gate, gate', wedged, wedged')
      /\ Noticed(gate', wedged')
  BY <1>1, GateStays, MediaAtHand DEF MediaPlaces
<1>5. ASSUME NEW pc \in {"infer", "run", "launch"}, NEW c \in {"none", "gated", "plain"}, NEW l \in {"software", "vaapi"},
             task' = [task EXCEPT ![t].label = l, ![t].pc = pc], child' = [child EXCEPT ![t] = c],
             pc = "infer" => task[t].kind = "detect",
             pc \in {"infer", "launch"} \/ c = "gated" => gate.holder = t, c = "gated" => pc = "launch"
      PROVE  MediaInv'
  <2> DEFINE r == [task[t] EXCEPT !.label = l, !.pc = pc]
  <2>1. task' = [task EXCEPT ![t] = r]
    BY <1>5 DEF MediaInv, MediaTypes
  <2>2. r \in MediaTask
    BY <1>2, <1>4 DEF MediaTask
  <2>3. /\ r.pc = pc /\ r.tries = task[t].tries /\ r.asked = task[t].asked /\ r.kind = task[t].kind
        /\ r.out = task[t].out
    BY <1>2 DEF MediaTask
  <2> HIDE DEF r
  <2>4. Fine(t, r, c, gate', wedged', file)
    BY <1>1, <1>2, <1>5, <2>3 DEF Fine
  <2> QED BY <1>1, <1>4, <1>5, <2>1, <2>2, <2>4, MediaAtHand, MediaMove
<1>6. CASE task[t].kind = "detect"
  <2>1. task' = [task EXCEPT ![t].label = label, ![t].pc = "infer"] /\ child' = [child EXCEPT ![t] = "none"]
    BY <1>6 DEF MediaGate!Launch
  <2>2. gate.holder = t
    BY <1>1, <1>2, <1>6 DEF Fine
  <2> HIDE DEF label
  <2> QED BY <1>3, <1>5, <1>6, <2>1, <2>2
<1>7. CASE task[t].kind = "decode" /\ label = "software"
  <2>1. task' = [task EXCEPT ![t].label = label, ![t].pc = "run"] /\ child' = [child EXCEPT ![t] = "plain"]
    BY <1>7 DEF MediaGate!Launch
  <2> HIDE DEF label
  <2> QED BY <1>3, <1>5, <2>1
<1>8. CASE task[t].kind = "probe" \/ (task[t].kind = "decode" /\ label = "vaapi")
  <2>1. task' = [task EXCEPT ![t].label = label, ![t].pc = "launch"] /\ child' = [child EXCEPT ![t] = "gated"]
    BY <1>8 DEF MediaGate!Launch
  <2>2. gate.holder = t
    BY <1>1, <1>2, <1>3, <1>8 DEF Fine
  <2> HIDE DEF label
  <2> QED BY <1>3, <1>5, <2>1, <2>2
<1> QED
  BY <1>2, <1>3, <1>6, <1>7, <1>8

\* The launch is cancelled: the task fails and knows no child any more.
LEMMA MediaCancelled ==
  ASSUME MediaInv, NEW t \in Tasks, MediaGate!LaunchCancelled(t) \/ MediaGate!InferenceCancelled(t)
  PROVE  MediaInv'
<1> DEFINE r == [MediaGate!NoTask EXCEPT !.pc = "failed"]
<1>1. /\ child' = [child EXCEPT ![t] = "none"] \/ (child' = child /\ task[t].pc = "infer")
      /\ gate' = MediaGate!Release(t, gate)
      /\ task' = [task EXCEPT ![t] = r] /\ orphan' = orphan \cup {t}
      /\ UNCHANGED <<wedged, file, probes>>
  BY DEF MediaGate!LaunchCancelled, MediaGate!InferenceCancelled, MediaGate!shared
<1>2. Begins(r, "failed", "probe", 0, 0)
  BY Beginnings DEF MediaPlaces
<1> HIDE DEF r
<1>3. gate' \in Gates /\ gate'.holder # t /\ gate'.unhealthy = gate.unhealthy
      /\ gate'.holder = IF gate.holder = t THEN 0 ELSE gate.holder
  BY <1>1, MediaAtHand, MediaRelease
<1>4. GateMoves(t, gate, gate', wedged, wedged') /\ Noticed(gate', wedged')
  BY <1>1, <1>3, MediaAtHand DEF GateMoves, Noticed
<1>5. file \in Nat /\ 0 <= file /\ 0 < ATTEMPTS
  BY MediaAtHand, MediaAssumption
<1>6. r \in MediaTask /\ r.pc = "failed" /\ r.kind = "probe" /\ r.tries = 0 /\ r.out = FALSE /\ r.asked = 0
  BY <1>2 DEF Begins
<1>7. PICK c \in {"none", "plain"} : child' = [child EXCEPT ![t] = c]
  <2>1. task[t].pc = "infer" => child[t] \in {"none", "plain"}
    BY MediaAtHand DEF Fine
  <2>2. child \in [Tasks -> {"none", "gated", "plain"}]
    BY DEF MediaInv, MediaTypes
  <2> QED BY <1>1, <2>1, <2>2
<1>8. Fine(t, r, c, gate', wedged', file)
  BY <1>3, <1>5, <1>6 DEF Fine
<1>9. orphan' \subseteq Tasks
  BY <1>1, MediaAtHand
<1> QED
  BY <1>1, <1>4, <1>6, <1>7, <1>8, <1>9, MediaAtHand, MediaMove

\* A child nobody knew exits.
LEMMA MediaOrphan ==
  ASSUME MediaInv, NEW t \in Tasks, MediaGate!OrphanExits(t)
  PROVE  MediaInv'
BY DEF MediaGate!OrphanExits, MediaGate!shared, MediaInv, MediaTypes

\* The driver lets a child go: what it leaves is judged again.
LEMMA MediaReaped ==
  ASSUME MediaInv, NEW t \in Tasks, MediaGate!reap_later(t)
  PROVE  MediaInv'
<1> DEFINE b == MediaGate!retire(MediaGate!Enrolled \cup (wedged \ {t}))
<1>1. /\ t \in wedged /\ wedged' = wedged \ {t} /\ gate' = [gate EXCEPT !.unhealthy = b]
      /\ UNCHANGED <<task, child, orphan, file, probes, mishaps>>
  BY DEF MediaGate!reap_later, MediaGate!shared
<1>2. gate \in Gates /\ Noticed(gate, wedged)
  BY DEF MediaInv, MediaTypes
<1>3. b \in BOOLEAN /\ (wedged' # {} => b = gate.unhealthy)
  BY <1>1, <1>2 DEF MediaGate!retire, Gates
<1> HIDE DEF b
<1>4. gate' \in Gates /\ gate'.holder = gate.holder /\ gate'.unhealthy = b
  BY <1>1, <1>2, <1>3 DEF Gates
<1>5. Noticed(gate', wedged')
  BY <1>1, <1>2, <1>3, <1>4 DEF Noticed
<1>6. ASSUME NEW u \in Tasks
      PROVE  Fine(u, task'[u], child'[u], gate', wedged', file')
  <2>1. Fine(u, task[u], child[u], gate, wedged, file)
    BY DEF MediaInv
  <2>2. wedged' # {} => wedged # {}
    BY <1>1
  <2> QED BY <1>1, <1>3, <1>4, <2>1, <2>2 DEF Fine
<1>7. MediaTypes'
  BY <1>1, <1>4 DEF MediaInv, MediaTypes
<1> QED
  BY <1>1, <1>5, <1>6, <1>7 DEF MediaInv

\* A failed probe is forgotten; the file is replaced.
LEMMA MediaOutside ==
  ASSUME MediaInv, MediaGate!Backoff \/ MediaGate!Replaced
  PROVE  MediaInv'
<1>1. CASE MediaGate!Backoff
  <2>1. probes' = [probes EXCEPT !.failed = 99] /\ UNCHANGED <<gate, task, child, wedged, orphan, file, mishaps>>
    BY <1>1 DEF MediaGate!Backoff, MediaGate!Absent
  <2>2. probes' \in [known : Nat, shows : Nat, failed : Nat] /\ probes'.shows = probes.shows
        /\ probes'.known = probes.known
    BY <2>1 DEF MediaInv, MediaTypes
  <2> QED BY <2>1, <2>2 DEF MediaInv, MediaTypes
<1>2. CASE MediaGate!Replaced
  <2>1. file' = file + 1 /\ "replaced" \in mishaps' /\ mishaps \subseteq mishaps'
        /\ UNCHANGED <<gate, task, child, wedged, orphan, probes>>
    BY <1>2 DEF MediaGate!Replaced, MediaGate!Meets
  <2>2. file \in Nat /\ file + 1 \in Nat
    BY DEF MediaInv, MediaTypes
  <2>3. ASSUME NEW u \in Tasks
        PROVE  Fine(u, task'[u], child'[u], gate', wedged', file')
    <3>1. Fine(u, task[u], child[u], gate, wedged, file) /\ task[u] \in MediaTask
      BY DEF MediaInv, MediaTypes
    <3>2. task[u].asked \in Nat
      BY <3>1 DEF MediaTask
    <3>3. task[u].asked <= file
      BY <3>1 DEF Fine
    <3>4. task[u].asked <= file + 1
      BY <2>2, <3>2, <3>3
    <3> QED BY <2>1, <3>1, <3>4 DEF Fine
  <2>4. MediaTypes'
    BY <2>1, <2>2 DEF MediaInv, MediaTypes
  <2> QED BY <2>1, <2>3, <2>4 DEF MediaInv
<1> QED
  BY <1>1, <1>2

\* The first state.
LEMMA MediaInit == MediaGate!Init => MediaInv
<1> HAVE MediaGate!Init
<1>1. /\ gate = [holder |-> 0, unhealthy |-> FALSE]
      /\ task = [t \in Tasks |-> MediaGate!NoTask] /\ child = [t \in Tasks |-> "none"]
      /\ wedged = {} /\ orphan = {} /\ file = 0 /\ probes = [known |-> 99, shows |-> 99, failed |-> 99]
  BY DEF MediaGate!Init, MediaGate!Nobody, MediaGate!Absent
<1>2. gate \in Gates /\ gate.holder \notin Tasks
  BY <1>1, MediaAssumption DEF Gates
<1>3. MediaTypes
  BY <1>1, <1>2, NoTaskType DEF MediaTypes
<1>4. ASSUME NEW u \in Tasks
      PROVE  Fine(u, task[u], child[u], gate, wedged, file)
  <2>1. task[u] = MediaGate!NoTask /\ child[u] = "none" /\ 0 < ATTEMPTS /\ gate.holder # u
    BY <1>1, <1>2, MediaAssumption
  <2> QED BY <1>1, <2>1, NoTaskType DEF Fine
<1> QED
  BY <1>1, <1>3, <1>4 DEF MediaInv, Noticed

\* The slot's invariant is kept by its steps, and while it rests.
LEMMA MediaKeeps ==
  ASSUME MediaInv, MediaGate!Next \/ UNCHANGED mediaVars
  PROVE  MediaInv'
<1>1. CASE UNCHANGED mediaVars
  BY <1>1 DEF mediaVars, MediaInv, MediaTypes
<1>2. ASSUME NEW t \in Tasks, MediaGate!Working(t) PROVE MediaInv'
  BY <1>2, MediaSettle, MediaLaunch, MediaInferred, MediaRegister, MediaFrame, MediaProbed, MediaProbeDone,
     MediaDecodeDone, MediaReturn DEF MediaGate!Working
<1> QED
  BY <1>1, <1>2, MediaAsk, MediaAcquire, MediaDecodeFails, MediaCancelled, MediaOrphan, MediaReaped, MediaOutside
  DEF MediaGate!Next

\* The slot counts as everybody does.
LEMMA MediaCardinality == \A S : MediaGate!Cardinality(S) = Cardinality(S)
BY DEF MediaGate!Cardinality, Cardinality

\* What is promised of the slot follows.
LEMMA MediaPromised ==
  ASSUME MediaInv
  PROVE  MediaGate!TypeOK /\ MediaGate!OverlapIsKnown /\ MediaGate!ProbeIsFresh /\ MediaGate!FramesOnce
<1>1. MediaGate!TypeOK
  BY DEF MediaInv, MediaTypes, Fine, Gates, MediaGate!TypeOK, MediaGate!Nobody
<1>2. MediaGate!OverlapIsKnown
  <2> DEFINE users == MediaGate!Alive \cup {t \in Tasks : task[t].pc = "infer"}
  <2>1. SUFFICES ASSUME ~gate.unhealthy
                 PROVE  ~(MediaGate!OnTheChip > 1)
    BY DEF MediaInv, MediaTypes, Gates, MediaGate!OverlapIsKnown
  <2>3. \A u \in users : u = gate.holder /\ wedged = {}
    BY <2>1 DEF MediaInv, Fine, MediaGate!Alive
  <2>4. \A a, b \in users : a = b
    BY <2>3
  <2>5. \A a, b \in wedged : a = b
    BY <2>1 DEF MediaInv, Noticed
  <2>6. Cardinality({}) = 0
    BY FS_EmptySet
  <2>7. MediaGate!OnTheChip = Cardinality(users) + Cardinality(wedged)
    BY MediaCardinality DEF MediaGate!OnTheChip
  <2>8. users = {} \/ wedged = {}
    BY <2>3
  <2> HIDE DEF users
  <2>9. Cardinality(users) \in Nat /\ Cardinality(users) <= 1 /\ Cardinality(wedged) \in Nat /\ Cardinality(wedged) <= 1
    BY <2>4, <2>5, AtMostOne
  <2>10. Cardinality(users) = 0 \/ Cardinality(wedged) = 0
    BY <2>6, <2>8
  <2>11. MediaGate!OnTheChip <= 1 /\ MediaGate!OnTheChip \in Nat
    BY <2>6, <2>7, <2>9, <2>10
  <2> QED BY <2>11
<1>3. MediaGate!ProbeIsFresh
  BY DEF MediaInv, Fine, MediaGate!ProbeIsFresh
<1>4. MediaGate!FramesOnce
  BY DEF MediaInv, Fine, MediaGate!FramesOnce
<1> QED
  BY <1>1, <1>2, <1>3, <1>4

-----------------------------------------------------------------------------
(* The playback cache.                                                     *)

PlayPlaces == {"idle", "look", "lock", "write", "prune", "stat", "unlink", "serve", "failed"}
Request == [pc : PlayPlaces, of : Clips \cup {CHOOSE c \in Clips : TRUE}, export : BOOLEAN,
            gives : PlaybackCache!Files \cup {<<>>}]

Distinct(s) == \A i, j \in 1 .. Len(s) : s[i] = s[j] => i = j
Held(s) == {s[i] : i \in 1 .. Len(s)}

PlayTypes ==
  /\ cached \in Seq(PlaybackCache!Files) /\ Distinct(cached)
  /\ part \subseteq PlaybackCache!Files
  /\ locks \in [PlaybackCache!Files -> Viewers \cup {0}]
  /\ viewer \in [Viewers -> Request]

\* The file request r is about.
TargetOf(r) == IF r.export THEN PlaybackCache!Export(r.of) ELSE PlaybackCache!Stream(r.of)

\* Who writes a file has its lock, and the file is not among the cached s.
Orderly(v, r, l, s) ==
  /\ r.pc # "idle" => r.of \in Clips
  /\ r.pc = "write" => l[TargetOf(r)] = v /\ TargetOf(r) \notin Held(s)

PlayInv ==
  /\ PlayTypes
  /\ \A v \in Viewers : Orderly(v, viewer[v], locks, cached)

\* Where a file stands among distinct ones.
LEMMA PlaceOf ==
  ASSUME NEW S, NEW s \in Seq(S), NEW f
  PROVE  /\ f \notin Held(s) => PlaybackCache!Place(s, f) = 0
         /\ f \in Held(s) => PlaybackCache!Place(s, f) \in 1 .. Len(s) /\ s[PlaybackCache!Place(s, f)] = f
<1>1. DOMAIN s = 1 .. Len(s) /\ Len(s) \in Nat
  BY LenProperties
<1>2. f \in PlaybackCache!ToSet(s) <=> f \in Held(s)
  BY <1>1 DEF PlaybackCache!ToSet, Held
<1>3. ASSUME f \in Held(s)
      PROVE  PlaybackCache!Place(s, f) \in 1 .. Len(s) /\ s[PlaybackCache!Place(s, f)] = f
  <2>1. PlaybackCache!Place(s, f) = CHOOSE i \in DOMAIN s : s[i] = f
    BY <1>2, <1>3 DEF PlaybackCache!Place
  <2>2. \E i \in DOMAIN s : s[i] = f
    BY <1>1, <1>3 DEF Held
  <2> QED BY <1>1, <2>1, <2>2
<1> QED
  BY <1>2, <1>3 DEF PlaybackCache!Place

\* What is left of a sequence without its first n elements.
LEMMA RestOf ==
  ASSUME NEW S, NEW s \in Seq(S), NEW n \in Nat
  PROVE  LET r == SubSeq(s, n + 1, Len(s)) IN
         /\ r \in Seq(S) /\ Len(r) = IF n <= Len(s) THEN Len(s) - n ELSE 0
         /\ \A i \in 1 .. Len(r) : r[i] = s[n + i] /\ n + i \in 1 .. Len(s)
<1> DEFINE r == SubSeq(s, n + 1, Len(s))
<1>1. Len(s) \in Nat /\ \A i \in 1 .. Len(s) : s[i] \in S
  BY LenProperties, ElementOfSeq
<1>2. n + 1 \in Int /\ Len(s) \in Int /\ \A i \in n + 1 .. Len(s) : s[i] \in S
  BY <1>1
<1>3. /\ r \in Seq(S) /\ Len(r) = IF n + 1 <= Len(s) THEN Len(s) - (n + 1) + 1 ELSE 0
      /\ \A i \in 1 .. Len(s) - (n + 1) + 1 : r[i] = s[(n + 1) + i - 1]
  BY <1>2, SubSeqProperties
<1> HIDE DEF r
<1>4. Len(r) = IF n <= Len(s) THEN Len(s) - n ELSE 0
  BY <1>1, <1>3
<1>5. ASSUME NEW i \in 1 .. Len(r) PROVE r[i] = s[n + i] /\ n + i \in 1 .. Len(s)
  <2>1. i \in 1 .. Len(s) - (n + 1) + 1 /\ (n + 1) + i - 1 = n + i /\ n + i \in 1 .. Len(s)
    BY <1>1, <1>4
  <2> QED BY <1>3, <2>1
<1> QED
  BY <1>3, <1>4, <1>5 DEF r

\* The first n - 1 elements.
LEMMA FirstOf ==
  ASSUME NEW S, NEW s \in Seq(S), NEW n \in 0 .. Len(s)
  PROVE  LET r == SubSeq(s, 1, n - 1) IN
         /\ r \in Seq(S) /\ Len(r) = IF n = 0 THEN 0 ELSE n - 1
         /\ \A i \in 1 .. Len(r) : r[i] = s[i] /\ i \in 1 .. Len(s)
<1> DEFINE r == SubSeq(s, 1, n - 1)
<1>1. Len(s) \in Nat /\ \A i \in 1 .. Len(s) : s[i] \in S
  BY LenProperties, ElementOfSeq
<1>2. 1 \in Int /\ n - 1 \in Int /\ \A i \in 1 .. n - 1 : s[i] \in S
  BY <1>1
<1>3. /\ r \in Seq(S) /\ Len(r) = IF 1 <= n - 1 THEN (n - 1) - 1 + 1 ELSE 0
      /\ \A i \in 1 .. (n - 1) - 1 + 1 : r[i] = s[1 + i - 1]
  BY <1>2, SubSeqProperties
<1> HIDE DEF r
<1>4. Len(r) = IF n = 0 THEN 0 ELSE n - 1
  BY <1>1, <1>3
<1>5. ASSUME NEW i \in 1 .. Len(r) PROVE r[i] = s[i] /\ i \in 1 .. Len(s)
  <2>1. i \in 1 .. (n - 1) - 1 + 1 /\ 1 + i - 1 = i /\ i \in 1 .. Len(s)
    BY <1>1, <1>4
  <2> QED BY <1>3, <2>1
<1> QED
  BY <1>3, <1>4, <1>5 DEF r

\* A file is taken out of a sequence.
LEMMA TakenOut ==
  ASSUME NEW S, NEW s \in Seq(S), Distinct(s), NEW f
  PROVE  LET t == PlaybackCache!Without(s, f) IN
         t \in Seq(S) /\ Distinct(t) /\ Held(t) \subseteq Held(s) /\ f \notin Held(t)
<1> DEFINE n == PlaybackCache!Place(s, f)
           a == SubSeq(s, 1, n - 1)
           b == SubSeq(s, n + 1, Len(s))
           t == a \o b
<1>1. /\ f \notin Held(s) => n = 0
      /\ f \in Held(s) => n \in 1 .. Len(s) /\ s[n] = f
  BY PlaceOf
<1>2. Len(s) \in Nat /\ n \in 0 .. Len(s) /\ n \in Nat
  BY <1>1, LenProperties
<1>3. t = PlaybackCache!Without(s, f)
  BY DEF PlaybackCache!Without
<1> HIDE DEF n
<1>4. /\ a \in Seq(S) /\ Len(a) = IF n = 0 THEN 0 ELSE n - 1
      /\ \A i \in 1 .. Len(a) : a[i] = s[i] /\ i \in 1 .. Len(s)
  BY <1>2, FirstOf
<1>5. /\ b \in Seq(S) /\ Len(b) = IF n <= Len(s) THEN Len(s) - n ELSE 0
      /\ \A i \in 1 .. Len(b) : b[i] = s[n + i] /\ n + i \in 1 .. Len(s)
  BY <1>2, RestOf
<1> HIDE DEF a, b
<1>6. /\ t \in Seq(S) /\ Len(t) = Len(a) + Len(b)
      /\ \A i \in 1 .. Len(a) + Len(b) : t[i] = IF i <= Len(a) THEN a[i] ELSE b[i - Len(a)]
  BY <1>4, <1>5, ConcatProperties
<1> HIDE DEF t
<1>7. Len(t) = IF n = 0 THEN Len(s) ELSE Len(s) - 1
  BY <1>2, <1>4, <1>5, <1>6
<1> DEFINE p(i) == IF n = 0 \/ i < n THEN i ELSE i + 1
<1>8. ASSUME NEW i \in 1 .. Len(t)
      PROVE  t[i] = s[p(i)]
  <2>1. CASE i <= Len(a)
    <3>1. i \in 1 .. Len(a) /\ n # 0 /\ i < n
      BY <1>2, <1>4, <2>1
    <3> QED BY <1>4, <1>6, <3>1
  <2>2. CASE ~(i <= Len(a))
    <3>1. i - Len(a) \in 1 .. Len(b) /\ i \in 1 .. Len(a) + Len(b)
          /\ n + (i - Len(a)) = p(i)
      BY <1>2, <1>4, <1>5, <1>6, <2>2
    <3> HIDE DEF p
    <3>2. t[i] = b[i - Len(a)]
      BY <1>6, <2>2, <3>1
    <3> QED BY <1>5, <3>1, <3>2
  <2> QED BY <2>1, <2>2
<1>9. \A i \in 1 .. Len(t) : p(i) \in 1 .. Len(s) /\ p(i) # n
  BY <1>2, <1>7
<1>10. \A i, j \in 1 .. Len(t) : p(i) = p(j) => i = j
  BY <1>2, <1>7
<1> HIDE DEF p
<1>11. Distinct(t)
  <2>1. ASSUME NEW i \in 1 .. Len(t), NEW j \in 1 .. Len(t), t[i] = t[j] PROVE i = j
    <3>1. s[p(i)] = s[p(j)] /\ p(i) \in 1 .. Len(s) /\ p(j) \in 1 .. Len(s)
      BY <1>8, <1>9, <2>1
    <3>2. p(i) = p(j)
      BY <3>1 DEF Distinct
    <3> QED BY <1>10, <3>2
  <2> QED BY <2>1 DEF Distinct
<1>12. ASSUME NEW i \in 1 .. Len(t) PROVE t[i] \in Held(s) /\ t[i] # f
  <2>1. t[i] = s[p(i)] /\ p(i) \in 1 .. Len(s) /\ p(i) # n
    BY <1>8, <1>9
  <2>2. CASE f \notin Held(s)
    BY <2>1, <2>2 DEF Held
  <2>3. CASE f \in Held(s)
    BY <1>1, <2>1, <2>3 DEF Distinct, Held
  <2> QED BY <2>2, <2>3
<1> QED
  BY <1>3, <1>6, <1>11, <1>12 DEF Held

\* A file that is touched is in the cache, the others stay there.
LEMMA Touched ==
  ASSUME NEW S, NEW s \in Seq(S), Distinct(s), NEW f \in S
  PROVE  LET t == PlaybackCache!Touch(s, f) IN
         t \in Seq(S) /\ Distinct(t) /\ Held(t) \subseteq Held(s) \cup {f}
<1> DEFINE c == PlaybackCache!Without(s, f)
           t == c \o <<f>>
<1>1. c \in Seq(S) /\ Distinct(c) /\ Held(c) \subseteq Held(s) /\ f \notin Held(c)
  BY TakenOut
<1>2. t = PlaybackCache!Touch(s, f)
  BY DEF PlaybackCache!Touch
<1> HIDE DEF c
<1>3. <<f>> \in Seq(S) /\ Len(<<f>>) = 1 /\ <<f>>[1] = f
  OBVIOUS
<1>4. Len(c) \in Nat
  BY <1>1, LenProperties
<1>5. /\ t \in Seq(S) /\ Len(t) = Len(c) + 1
      /\ \A i \in 1 .. Len(c) + 1 : t[i] = IF i <= Len(c) THEN c[i] ELSE <<f>>[i - Len(c)]
  BY <1>1, <1>3, ConcatProperties
<1> HIDE DEF t
<1>6. \A i \in 1 .. Len(c) : t[i] = c[i] /\ t[i] # f
  BY <1>1, <1>4, <1>5 DEF Held
<1>7. t[Len(c) + 1] = f
  BY <1>3, <1>4, <1>5
<1>8. \A i \in 1 .. Len(t) : i \in 1 .. Len(c) \/ i = Len(c) + 1
  BY <1>4, <1>5
<1>9. Distinct(t)
  BY <1>1, <1>6, <1>7, <1>8 DEF Distinct
<1>10. Held(t) \subseteq Held(s) \cup {f}
  BY <1>1, <1>6, <1>7, <1>8 DEF Held
<1> QED
  BY <1>2, <1>5, <1>9, <1>10

\* Another request is as orderly as before: only a file of v, or a free one,
\* changed hands, and only a file of v came into the cache.
LEMMA PlayOthers ==
  ASSUME NEW v, NEW w, w # v, w # 0, NEW r, NEW l, NEW m, NEW s, NEW t, NEW f,
         Orderly(w, r, l, s), r.pc = "write" => TargetOf(r) \in PlaybackCache!Files,
         \A g \in PlaybackCache!Files : m[g] = l[g] \/ (g = f /\ l[f] \in {0, v}),
         \A g \in Held(t) : g \in Held(s) \/ (g = f /\ l[f] = v)
  PROVE  Orderly(w, r, m, t)
BY DEF Orderly

\* A step of request v.
LEMMA PlayMove ==
  ASSUME PlayInv, NEW v \in Viewers, NEW r \in Request, viewer' = [viewer EXCEPT ![v] = r],
         cached' \in Seq(PlaybackCache!Files), Distinct(cached'), part' \subseteq PlaybackCache!Files,
         NEW f \in PlaybackCache!Files, NEW x \in {v, 0}, locks[f] \in {0, v},
         locks' = locks \/ locks' = [locks EXCEPT ![f] = x],
         \A g \in Held(cached') : g \in Held(cached) \/ (g = f /\ locks[f] = v),
         Orderly(v, r, locks', cached')
  PROVE  PlayInv'
<1>1. /\ locks \in [PlaybackCache!Files -> Viewers \cup {0}] /\ viewer \in [Viewers -> Request]
  BY DEF PlayInv, PlayTypes
<1>2. locks' \in [PlaybackCache!Files -> Viewers \cup {0}] /\ viewer' \in [Viewers -> Request]
  BY <1>1
<1>3. PlayTypes'
  BY <1>2 DEF PlayTypes
<1>4. \A g \in PlaybackCache!Files : locks'[g] = locks[g] \/ (g = f /\ locks[f] \in {0, v})
  BY <1>1
<1>5. ASSUME NEW w \in Viewers PROVE Orderly(w, viewer'[w], locks', cached')
  <2>1. CASE w = v
    BY <1>1, <2>1
  <2>2. CASE w # v
    <3>1. viewer'[w] = viewer[w] /\ Orderly(w, viewer[w], locks, cached) /\ w # 0
      BY <1>1, <2>2, PlayAssumption DEF PlayInv
    <3>2. viewer[w].pc = "write" => TargetOf(viewer[w]) \in PlaybackCache!Files
      BY <3>1 DEF Orderly, TargetOf, PlaybackCache!Files
    <3> DEFINE q == viewer[w]
    <3>3. Orderly(w, q, locks, cached) /\ w # 0 /\ (q.pc = "write" => TargetOf(q) \in PlaybackCache!Files)
      BY <3>1, <3>2
    <3>4. viewer'[w] = q
      BY <3>1
    <3> HIDE DEF q
    <3> DEFINE l == locks
               m == locks'
               s == cached
               t == cached'
    <3>5. Orderly(w, q, l, s) /\ (\A g \in PlaybackCache!Files : m[g] = l[g] \/ (g = f /\ l[f] \in {0, v}))
          /\ \A g \in Held(t) : g \in Held(s) \/ (g = f /\ l[f] = v)
      BY <1>4, <3>3
    <3> HIDE DEF l, m, s, t
    <3>6. Orderly(w, q, m, t)
      BY <2>2, <3>3, <3>5, PlayOthers
    <3> QED BY <3>4, <3>6 DEF m, t
  <2> QED BY <2>1, <2>2
<1> QED
  BY <1>3, <1>5 DEF PlayInv

\* Whatever a request is about is one of the files.
LEMMA PlayTarget ==
  ASSUME PlayInv, NEW v \in Viewers
  PROVE  /\ viewer[v] \in Request /\ Orderly(v, viewer[v], locks, cached)
         /\ PlaybackCache!Target(v) = TargetOf(viewer[v])
         /\ viewer[v].pc # "idle" => TargetOf(viewer[v]) \in PlaybackCache!Files
         /\ PlaybackCache!Whole = Held(cached)
<1>1. viewer[v] \in Request /\ Orderly(v, viewer[v], locks, cached)
  BY DEF PlayInv, PlayTypes
<1>2. PlaybackCache!Whole = Held(cached)
  <2>1. DOMAIN cached = 1 .. Len(cached)
    BY LenProperties DEF PlayInv, PlayTypes
  <2> QED BY <2>1 DEF PlaybackCache!Whole, PlaybackCache!ToSet, Held
<1>3. viewer[v].pc # "idle" => TargetOf(viewer[v]) \in PlaybackCache!Files
  BY <1>1 DEF Orderly, TargetOf, PlaybackCache!Files
<1> QED
  BY <1>1, <1>2, <1>3 DEF PlaybackCache!Target, TargetOf

\* A request comes in, is answered, or failed.
LEMMA PlayBegins ==
  ASSUME PlayInv, NEW v \in Viewers,
         PlaybackCache!Serve(v) \/ PlaybackCache!Failed(v) \/ \E c \in Clips : PlaybackCache!Ask(v, c)
  PROVE  PlayInv'
<1>1. ASSUME NEW r \in Request, viewer' = [viewer EXCEPT ![v] = r], r.pc # "write",
             UNCHANGED <<cached, part, locks>>, r.pc # "idle" => r.of \in Clips
      PROVE  PlayInv'
  <2>1. viewer \in [Viewers -> Request] /\ PlayTypes
    BY DEF PlayInv, PlayTypes
  <2>3. PlayTypes'
    BY <1>1, <2>1 DEF PlayTypes
  <2>4. ASSUME NEW w \in Viewers PROVE Orderly(w, viewer'[w], locks', cached')
    <3>1. CASE w = v
      BY <1>1, <2>1, <3>1 DEF Orderly
    <3>2. CASE w # v
      BY <1>1, <2>1, <3>2 DEF PlayInv
    <3> QED BY <3>1, <3>2
  <2> QED BY <2>3, <2>4 DEF PlayInv
<1>2. PlaybackCache!NoViewer \in Request /\ PlaybackCache!NoViewer.pc = "idle" /\ "look" \in PlayPlaces
      /\ PlaybackCache!NoViewer.export = FALSE
  BY DEF PlaybackCache!NoViewer, Request, PlayPlaces
<1>3. viewer \in [Viewers -> Request] /\ viewer[v] \in Request /\ Orderly(v, viewer[v], locks, cached)
  BY DEF PlayInv, PlayTypes
<1>4. CASE PlaybackCache!Failed(v)
  BY <1>1, <1>2, <1>4 DEF PlaybackCache!Failed
<1>5. CASE PlaybackCache!Serve(v)
  <2>1. viewer[v].pc = "serve" /\ UNCHANGED <<cached, part, locks>>
    BY <1>5 DEF PlaybackCache!Serve
  <2>2. CASE viewer' = [viewer EXCEPT ![v] = PlaybackCache!NoViewer]
    BY <1>1, <1>2, <2>1, <2>2
  <2>3. CASE viewer' = [viewer EXCEPT ![v].pc = "look", ![v].export = TRUE]
    <3> DEFINE r == [viewer[v] EXCEPT !.pc = "look", !.export = TRUE]
    <3>1. r \in Request /\ r.pc = "look" /\ r.of = viewer[v].of
      BY <1>2, <1>3 DEF Request
    <3>2. viewer' = [viewer EXCEPT ![v] = r]
      BY <1>3, <2>3
    <3> HIDE DEF r
    <3>3. r.of \in Clips
      BY <1>3, <2>1, <3>1 DEF Orderly
    <3> QED BY <1>1, <2>1, <3>1, <3>2, <3>3
  <2> QED BY <1>5, <2>2, <2>3 DEF PlaybackCache!Serve
<1>6. ASSUME NEW c \in Clips, PlaybackCache!Ask(v, c) PROVE PlayInv'
  <2> DEFINE r == [PlaybackCache!NoViewer EXCEPT !.pc = "look", !.of = c]
  <2>1. /\ viewer[v].pc = "idle" /\ viewer' = [viewer EXCEPT ![v] = r] /\ UNCHANGED <<cached, part, locks>>
    BY <1>6 DEF PlaybackCache!Ask
  <2>2. r \in Request /\ r.pc = "look" /\ r.of = c
    BY <1>2 DEF Request
  <2> HIDE DEF r
  <2> QED BY <1>1, <2>1, <2>2
<1> QED
  BY <1>4, <1>5, <1>6

\* The record of a request that is sent on.
LEMMA PlaySent ==
  ASSUME PlayInv, NEW v \in Viewers, NEW pc \in PlayPlaces, PlaybackCache!Goto(v, pc)
  PROVE  LET r == [viewer[v] EXCEPT !.pc = pc] IN
         /\ r \in Request /\ r.pc = pc /\ r.of = viewer[v].of /\ r.export = viewer[v].export
         /\ viewer' = [viewer EXCEPT ![v] = r]
<1>1. viewer \in [Viewers -> Request] /\ viewer[v] \in Request
  BY DEF PlayInv, PlayTypes
<1> QED
  BY <1>1 DEF Request, PlaybackCache!Goto

\* A request goes on to pc, with g to give.
Gives(v, pc, g) == viewer' = [viewer EXCEPT ![v].pc = pc, ![v].gives = g]

\* Its record then.
LEMMA PlayGiven ==
  ASSUME PlayInv, NEW v \in Viewers, NEW pc \in PlayPlaces, NEW g \in PlaybackCache!Files \cup {<<>>},
         Gives(v, pc, g)
  PROVE  \E r \in Request : r.pc = pc /\ r.of = viewer[v].of /\ viewer' = [viewer EXCEPT ![v] = r]
<1>1. viewer \in [Viewers -> Request] /\ viewer[v] \in Request
  BY DEF PlayInv, PlayTypes
<1> DEFINE r == [viewer[v] EXCEPT !.pc = pc, !.gives = g]
<1>2. r \in Request /\ r.pc = pc /\ r.of = viewer[v].of
  BY <1>1 DEF Request
<1>3. viewer' = [viewer EXCEPT ![v] = r]
  BY <1>1 DEF Gives
<1> QED
  BY <1>2, <1>3

\* A request is sent on while nothing of the cache but the order changes.
LEMMA PlayOn ==
  ASSUME PlayInv, NEW v \in Viewers, NEW r \in Request, viewer' = [viewer EXCEPT ![v] = r],
         viewer[v].pc # "idle", r.pc # "write", r.of = viewer[v].of,
         cached' \in Seq(PlaybackCache!Files), Distinct(cached'), part' \subseteq PlaybackCache!Files,
         Held(cached') \subseteq Held(cached),
         \/ locks' = locks
         \/ viewer[v].pc = "write" /\ locks' = [locks EXCEPT ![TargetOf(viewer[v])] = 0]
  PROVE  PlayInv'
<1>1. viewer[v] \in Request /\ Orderly(v, viewer[v], locks, cached) /\ TargetOf(viewer[v]) \in PlaybackCache!Files
  BY PlayTarget
<1> DEFINE f == TargetOf(viewer[v])
<1>2. r.of \in Clips
  BY <1>1 DEF Orderly
<1>3. Orderly(v, r, locks', cached')
  BY <1>2 DEF Orderly
<1>5. f \in PlaybackCache!Files /\ (locks' = locks \/ (locks[f] = v /\ locks' = [locks EXCEPT ![f] = 0]))
  BY <1>1 DEF Orderly
<1>6. viewer \in [Viewers -> Request] /\ PlayTypes
  BY DEF PlayInv, PlayTypes
<1> HIDE DEF f
<1>7. CASE locks' = locks
  <2>1. PlayTypes'
    BY <1>6, <1>7 DEF PlayTypes
  <2>2. ASSUME NEW w \in Viewers PROVE Orderly(w, viewer'[w], locks', cached')
    <3>1. CASE w = v
      BY <1>3, <1>6, <3>1
    <3>2. CASE w # v
      <4>1. viewer'[w] = viewer[w] /\ Orderly(w, viewer[w], locks, cached)
        BY <1>6, <3>2 DEF PlayInv
      <4> QED BY <1>7, <4>1 DEF Orderly
    <3> QED BY <3>1, <3>2
  <2> QED BY <2>1, <2>2 DEF PlayInv
<1>8. CASE locks[f] = v /\ locks' = [locks EXCEPT ![f] = 0]
  BY <1>3, <1>5, <1>8, PlayMove
<1> QED
  BY <1>5, <1>7, <1>8

\* The cache is looked at.
LEMMA PlayLook ==
  ASSUME PlayInv, NEW v \in Viewers, PlaybackCache!Look(v)
  PROVE  PlayInv'
<1> DEFINE f == PlaybackCache!Target(v)
<1>1. viewer[v].pc = "look" /\ UNCHANGED <<part, locks>>
  BY DEF PlaybackCache!Look
<1>2. /\ f \in PlaybackCache!Files /\ PlaybackCache!Whole = Held(cached)
      /\ cached \in Seq(PlaybackCache!Files) /\ Distinct(cached) /\ part \subseteq PlaybackCache!Files
  BY <1>1, PlayTarget DEF PlayInv, PlayTypes
<1>3. {"serve", "lock"} \subseteq PlayPlaces
  BY DEF PlayPlaces
<1>4. CASE f \in Held(cached)
  <2>1. cached' = PlaybackCache!Touch(cached, f) /\ Gives(v, "serve", f)
    BY <1>2, <1>4 DEF PlaybackCache!Look, PlaybackCache!Give, Gives
  <2> HIDE DEF f
  <2>2. PICK q \in Request : q.pc = "serve" /\ q.of = viewer[v].of /\ viewer' = [viewer EXCEPT ![v] = q]
    BY <1>2, <1>3, <2>1, PlayGiven
  <2>3. cached' \in Seq(PlaybackCache!Files) /\ Distinct(cached') /\ Held(cached') \subseteq Held(cached)
    <3>1. /\ cached' \in Seq(PlaybackCache!Files) /\ Distinct(cached')
          /\ Held(cached') \subseteq Held(cached) \cup {f}
      BY <1>2, <2>1, Touched
    <3> QED BY <1>4, <3>1
  <2> QED BY <1>1, <1>2, <2>2, <2>3, PlayOn
<1>5. CASE f \notin Held(cached)
  <2>1. UNCHANGED cached /\ PlaybackCache!Goto(v, "lock")
    BY <1>2, <1>5 DEF PlaybackCache!Look
  <2> DEFINE r == [viewer[v] EXCEPT !.pc = "lock"]
  <2>2. /\ r \in Request /\ r.pc = "lock" /\ r.of = viewer[v].of
        /\ viewer' = [viewer EXCEPT ![v] = r]
    BY <1>2, <1>3, <2>1, PlaySent
  <2> HIDE DEF r, f
  <2> QED BY <1>1, <1>2, <2>1, <2>2, PlayOn
<1> QED
  BY <1>4, <1>5

\* The lock is taken; the cache is looked at again.
LEMMA PlayLock ==
  ASSUME PlayInv, NEW v \in Viewers, PlaybackCache!Lock(v)
  PROVE  PlayInv'
<1> DEFINE f == TargetOf(viewer[v])
<1>1. viewer[v].pc = "lock" /\ locks[f] = 0
  BY PlayTarget DEF PlaybackCache!Lock, PlaybackCache!LockFree, PlaybackCache!Free
<1>2. /\ f \in PlaybackCache!Files /\ PlaybackCache!Whole = Held(cached) /\ PlaybackCache!Target(v) = f
      /\ cached \in Seq(PlaybackCache!Files) /\ Distinct(cached) /\ part \subseteq PlaybackCache!Files
      /\ locks \in [PlaybackCache!Files -> Viewers \cup {0}] /\ viewer[v].of \in Clips
  BY <1>1, PlayTarget DEF PlayInv, PlayTypes, Orderly
<1>3. {"serve", "write"} \subseteq PlayPlaces
  BY DEF PlayPlaces
<1>4. CASE f \in Held(cached)
  <2>1. /\ UNCHANGED <<part, locks>> /\ Gives(v, "serve", f)
        /\ cached' = cached \/ cached' = PlaybackCache!Touch(cached, f)
    BY <1>2, <1>4 DEF PlaybackCache!Lock, PlaybackCache!Give, PlaybackCache!Present, Gives
  <2> HIDE DEF f
  <2>2. PICK q \in Request : q.pc = "serve" /\ q.of = viewer[v].of /\ viewer' = [viewer EXCEPT ![v] = q]
    BY <1>2, <1>3, <2>1, PlayGiven
  <2>3. cached' \in Seq(PlaybackCache!Files) /\ Distinct(cached') /\ Held(cached') \subseteq Held(cached) \cup {f}
    BY <1>2, <2>1, Touched
  <2>4. Held(cached') \subseteq Held(cached)
    BY <1>4, <2>3
  <2> QED BY <1>1, <1>2, <2>1, <2>2, <2>3, <2>4, PlayOn
<1>5. CASE f \notin Held(cached)
  <2>1. UNCHANGED cached /\ locks' = [locks EXCEPT ![f] = v] /\ part' = part \cup {f} /\ PlaybackCache!Goto(v, "write")
    BY <1>2, <1>5 DEF PlaybackCache!Lock, PlaybackCache!Present
  <2> DEFINE r == [viewer[v] EXCEPT !.pc = "write"]
  <2>2. /\ r \in Request /\ r.pc = "write" /\ r.of = viewer[v].of /\ r.export = viewer[v].export
        /\ viewer' = [viewer EXCEPT ![v] = r]
    BY <1>2, <1>3, <2>1, PlaySent
  <2>3. TargetOf(r) = f
    BY <2>2 DEF TargetOf
  <2> HIDE DEF r, f
  <2>4. Orderly(v, r, locks', cached')
    BY <1>1, <1>2, <1>5, <2>1, <2>2, <2>3 DEF Orderly
  <2> QED BY <1>1, <1>2, <2>1, <2>2, <2>4, PlayMove
<1> QED
  BY <1>4, <1>5

\* The file is written and in the cache; the lock is let go.
LEMMA PlayWritten ==
  ASSUME PlayInv, NEW v \in Viewers, PlaybackCache!Written(v)
  PROVE  PlayInv'
<1> DEFINE f == TargetOf(viewer[v])
<1>1. viewer[v].pc = "write"
  BY DEF PlaybackCache!Written
<1>2. /\ f \in PlaybackCache!Files /\ PlaybackCache!Target(v) = f
      /\ cached \in Seq(PlaybackCache!Files) /\ Distinct(cached) /\ part \subseteq PlaybackCache!Files
      /\ locks[f] = v /\ f \notin Held(cached) /\ viewer[v].of \in Clips
  BY <1>1, PlayTarget DEF PlayInv, PlayTypes, Orderly
<1>3. /\ part' = part \ {f} /\ cached' = PlaybackCache!Touch(cached, f) /\ locks' = [locks EXCEPT ![f] = 0]
      /\ PlaybackCache!Goto(v, "prune") /\ "prune" \in PlayPlaces
  BY <1>2 DEF PlaybackCache!Written, PlaybackCache!Free, PlayPlaces
<1> DEFINE r == [viewer[v] EXCEPT !.pc = "prune"]
<1>4. /\ r \in Request /\ r.pc = "prune" /\ r.of = viewer[v].of
      /\ viewer' = [viewer EXCEPT ![v] = r]
  BY <1>3, PlaySent
<1> HIDE DEF r, f
<1>5. /\ cached' \in Seq(PlaybackCache!Files) /\ Distinct(cached')
      /\ Held(cached') \subseteq Held(cached) \cup {f}
  BY <1>2, <1>3, Touched
<1>6. Orderly(v, r, locks', cached')
  BY <1>2, <1>4 DEF Orderly
<1> QED
  BY <1>2, <1>3, <1>4, <1>5, <1>6, PlayMove

\* A sweep lists, looks or removes.
LEMMA PlaySweeps ==
  ASSUME PlayInv, NEW v \in Viewers, PlaybackCache!List(v) \/ PlaybackCache!Stat(v) \/ PlaybackCache!Unlink(v)
  PROVE  PlayInv'
<1> DEFINE f == TargetOf(viewer[v])
<1>1. viewer[v].pc \in {"prune", "stat", "unlink"} /\ UNCHANGED <<part, locks>>
  BY DEF PlaybackCache!List, PlaybackCache!Stat, PlaybackCache!Unlink
<1>2. /\ f \in PlaybackCache!Files /\ PlaybackCache!Target(v) = f /\ viewer[v] \in Request /\ viewer \in [Viewers -> Request]
      /\ cached \in Seq(PlaybackCache!Files) /\ Distinct(cached) /\ part \subseteq PlaybackCache!Files
  BY <1>1, PlayTarget DEF PlayInv, PlayTypes
<1>3. cached' = cached \/ \E g : cached' = PlaybackCache!Without(cached, g)
  BY DEF PlaybackCache!List, PlaybackCache!Stat, PlaybackCache!Unlink
<1>4. cached' \in Seq(PlaybackCache!Files) /\ Distinct(cached') /\ Held(cached') \subseteq Held(cached)
  BY <1>2, <1>3, TakenOut
<1>5. \/ Gives(v, "serve", f) \/ viewer' = viewer
      \/ \E pc \in {"stat", "unlink", "failed"} : PlaybackCache!Goto(v, pc)
  BY <1>2 DEF PlaybackCache!List, PlaybackCache!Stat, PlaybackCache!Unlink, PlaybackCache!Swept, PlaybackCache!Give, Gives
<1>6. {"serve", "stat", "unlink", "failed"} \subseteq PlayPlaces
  BY DEF PlayPlaces
<1> HIDE DEF f
<1>7. \E r \in Request : r.pc # "write" /\ r.of = viewer[v].of /\ viewer' = [viewer EXCEPT ![v] = r]
  <2>1. CASE Gives(v, "serve", f)
    <3>1. PICK r \in Request : r.pc = "serve" /\ r.of = viewer[v].of /\ viewer' = [viewer EXCEPT ![v] = r]
      BY <1>2, <1>6, <2>1, PlayGiven
    <3> QED BY <3>1
  <2>2. CASE viewer' = viewer
    BY <1>1, <1>2, <2>2
  <2>3. ASSUME NEW pc \in {"stat", "unlink", "failed"}, PlaybackCache!Goto(v, pc)
        PROVE  \E r \in Request : r.pc # "write" /\ r.of = viewer[v].of /\ viewer' = [viewer EXCEPT ![v] = r]
    <3> DEFINE r == [viewer[v] EXCEPT !.pc = pc]
    <3>1. r \in Request /\ r.pc = pc /\ r.of = viewer[v].of /\ viewer' = [viewer EXCEPT ![v] = r]
      BY <1>6, <2>3, PlaySent
    <3> HIDE DEF r
    <3> QED BY <3>1
  <2> QED BY <1>5, <2>1, <2>2, <2>3
<1>8. PICK r \in Request : r.pc # "write" /\ r.of = viewer[v].of /\ viewer' = [viewer EXCEPT ![v] = r]
  BY <1>7
<1> QED
  BY <1>1, <1>2, <1>4, <1>8, PlayOn

\* The file is not written: it failed, or its directory is gone.
LEMMA PlayFails ==
  ASSUME PlayInv, NEW v \in Viewers, PlaybackCache!WriteFails(v) \/ PlaybackCache!Gone(v)
  PROVE  PlayInv'
<1>1. viewer[v].pc = "write" /\ UNCHANGED cached
  BY DEF PlaybackCache!WriteFails, PlaybackCache!Gone
<1> DEFINE f == TargetOf(viewer[v])
           pc == IF viewer[v].export THEN "failed" ELSE "serve"
<1>2. /\ f \in PlaybackCache!Files /\ PlaybackCache!Target(v) = f
      /\ cached \in Seq(PlaybackCache!Files) /\ Distinct(cached) /\ part \subseteq PlaybackCache!Files
  BY <1>1, PlayTarget DEF PlayInv, PlayTypes
<1>3. /\ part' \in {part, part \ {f}} /\ locks' = [locks EXCEPT ![f] = 0]
      /\ Gives(v, pc, <<>>)
  BY <1>2 DEF Gives, PlaybackCache!WriteFails, PlaybackCache!Gone, PlaybackCache!Unlock, PlaybackCache!Free
<1>4. pc \in PlayPlaces /\ pc \notin {"prune", "write"}
  BY DEF PlayPlaces
<1> HIDE DEF pc
<1>5. PICK r \in Request : r.pc = pc /\ r.of = viewer[v].of /\ viewer' = [viewer EXCEPT ![v] = r]
  BY <1>3, <1>4, PlayGiven
<1>6. part' \subseteq PlaybackCache!Files /\ viewer[v].pc \notin {"idle", "prune"}
  BY <1>1, <1>2, <1>3
<1> QED
  BY <1>1, <1>2, <1>3, <1>4, <1>5, <1>6, PlayOn

\* Everything is cleared.
LEMMA PlayClear ==
  ASSUME PlayInv, PlaybackCache!clear_cache
  PROVE  PlayInv'
<1>1. cached' = <<>> /\ part' = {} /\ UNCHANGED <<locks, viewer>>
  BY DEF PlaybackCache!clear_cache
<1>2. <<>> \in Seq(PlaybackCache!Files) /\ Len(<<>>) = 0
  OBVIOUS
<1>3. Distinct(<<>>) /\ Held(<<>>) = {}
  BY <1>2 DEF Distinct, Held
<1>4. PlayTypes'
  BY <1>1, <1>2, <1>3 DEF PlayInv, PlayTypes
<1>5. \A w \in Viewers : Orderly(w, viewer'[w], locks', cached')
  <2> TAKE w \in Viewers
  <2>1. Orderly(w, viewer[w], locks, cached)
    BY DEF PlayInv
  <2> QED BY <1>1, <1>3, <2>1 DEF Orderly
<1> QED
  BY <1>4, <1>5 DEF PlayInv

\* The first state.
LEMMA PlayInit == PlaybackCache!Init => PlayInv
<1> HAVE PlaybackCache!Init
<1>1. /\ cached = <<>> /\ part = {}
      /\ locks = [f \in PlaybackCache!Files |-> 0]
      /\ viewer = [v \in Viewers |-> PlaybackCache!NoViewer]
  BY DEF PlaybackCache!Init, PlaybackCache!Free
<1>2. PlaybackCache!NoViewer \in Request /\ PlaybackCache!NoViewer.pc = "idle"
  BY DEF PlaybackCache!NoViewer, Request, PlayPlaces
<1>3. <<>> \in Seq(PlaybackCache!Files) /\ Len(<<>>) = 0
  OBVIOUS
<1>4. PlayTypes
  BY <1>1, <1>2, <1>3 DEF PlayTypes, Distinct
<1>5. \A v \in Viewers : Orderly(v, viewer[v], locks, cached)
  BY <1>1, <1>2 DEF Orderly
<1> QED
  BY <1>4, <1>5 DEF PlayInv

\* The cache's invariant is kept by its steps, and while it rests.
LEMMA PlayKeeps ==
  ASSUME PlayInv, PlaybackCache!Next \/ UNCHANGED playbackVars
  PROVE  PlayInv'
<1>1. CASE UNCHANGED playbackVars
  BY <1>1 DEF playbackVars, PlayInv, PlayTypes
<1>2. ASSUME NEW v \in Viewers, PlaybackCache!Working(v) PROVE PlayInv'
  BY <1>2, PlayBegins, PlayLook, PlayLock, PlayWritten, PlaySweeps, PlayFails DEF PlaybackCache!Working
<1> QED
  BY <1>1, <1>2, PlayBegins, PlayFails, PlayClear DEF PlaybackCache!Next

\* The cache counts as everybody does.
LEMMA PlayCardinality == \A S : PlaybackCache!Cardinality(S) = Cardinality(S)
BY DEF PlaybackCache!Cardinality, Cardinality

\* The files are finitely many.
LEMMA FinitelyManyFiles == IsFiniteSet(PlaybackCache!Files)
<1> DEFINE S == {PlaybackCache!Stream(c) : c \in Clips}
           T == {PlaybackCache!Export(c) : c \in Clips}
<1>1. IsFiniteSet(S)
  <2> DEFINE g == [c \in Clips |-> PlaybackCache!Stream(c)]
  <2>1. g \in Surjection(Clips, S)
    BY DEF Surjection
  <2> HIDE DEF g, S
  <2> QED BY <2>1, PlayAssumption, FS_Surjection
<1>2. IsFiniteSet(T)
  <2> DEFINE g == [c \in Clips |-> PlaybackCache!Export(c)]
  <2>1. g \in Surjection(Clips, T)
    BY DEF Surjection
  <2> HIDE DEF g, T
  <2> QED BY <2>1, PlayAssumption, FS_Surjection
<1> HIDE DEF S, T
<1>3. IsFiniteSet(S \cup T)
  BY <1>1, <1>2, FS_Union
<1> QED
  BY <1>3 DEF S, T, PlaybackCache!Files

\* A sweep's record, and what it says: of what the caches hold (H) all that came
\* before it listed them is on its list, and too many by what is left to remove.
SweepPcs == {"stat", "unlink"}
SweepRecord == [list : SUBSET PlaybackCache!Files, age : [PlaybackCache!Files -> Nat], left : Int,
                new : SUBSET PlaybackCache!Files]
Listed(r, z, H) ==
  /\ r.pc \in SweepPcs => H \ z.new \subseteq z.list \cup {TargetOf(r)}
  /\ r.pc = "unlink" => Cardinality(z.list) <= z.left + LIMIT
  /\ r.pc \notin SweepPcs => z.new = {}
Chained(A, B) == A \subseteq B \/ B \subseteq A

\* What came since two listings is ordered as the listings are.
SweepInv ==
  /\ sweep \in [Viewers -> SweepRecord]
  /\ \A v \in Viewers : Listed(viewer[v], sweep[v], Held(cached)) /\ Chained(sweep[v].new, unswept)
  /\ \A v, w \in Viewers : Chained(sweep[v].new, sweep[w].new)
  /\ Cardinality(Held(cached) \ unswept) <= LIMIT + 1

\* The files of the caches are finitely many.
LEMMA HeldFinite ==
  ASSUME PlayInv
  PROVE  IsFiniteSet(Held(cached)) /\ Held(cached) \subseteq PlaybackCache!Files
<1>1. \A i \in 1 .. Len(cached) : cached[i] \in PlaybackCache!Files
  BY ElementOfSeq DEF PlayInv, PlayTypes
<1> QED
  BY <1>1, FinitelyManyFiles, FS_Subset DEF Held

\* A part of few files is few.
LEMMA FewerFiles ==
  ASSUME NEW A, NEW B, IsFiniteSet(B), A \subseteq B, NEW n \in Nat, Cardinality(B) <= n
  PROVE  IsFiniteSet(A) /\ Cardinality(A) \in Nat /\ Cardinality(A) <= n
<1>1. IsFiniteSet(A) /\ Cardinality(A) <= Cardinality(B)
  BY FS_Subset
<1>2. Cardinality(A) \in Nat /\ Cardinality(B) \in Nat
  BY <1>1, FS_CardinalityType
<1> QED
  BY <1>1, <1>2

\* A step of one sweep, or of a request that has none: nothing comes in.
LEMMA SweepMove ==
  ASSUME SweepInv, viewer \in [Viewers -> Request], NEW v \in Viewers, NEW r \in Request, NEW z \in SweepRecord,
         viewer' = [viewer EXCEPT ![v] = r], sweep' = [sweep EXCEPT ![v] = z],
         z.new = sweep[v].new \/ z.new = {}, unswept' = unswept \/ unswept' = unswept \cap sweep[v].new,
         Held(cached') \subseteq Held(cached), Listed(r, z, Held(cached')),
         Cardinality(Held(cached') \ unswept') <= LIMIT + 1
  PROVE  SweepInv'
<1>1. sweep' \in [Viewers -> SweepRecord] /\ sweep'[v] = z /\ viewer'[v] = r
      /\ \A w \in Viewers : w # v => sweep'[w] = sweep[w] /\ viewer'[w] = viewer[w]
  BY DEF SweepInv
<1>2. \A w \in Viewers : sweep'[w].new = sweep[w].new \/ sweep'[w].new = {}
  BY <1>1
<1>3. \A w \in Viewers : Chained(sweep[w].new, unswept) /\ Chained(sweep[w].new, sweep[v].new)
  BY DEF SweepInv
<1>4. ASSUME NEW w \in Viewers PROVE Chained(sweep'[w].new, unswept')
  BY <1>2, <1>3 DEF Chained
<1>5. ASSUME NEW u \in Viewers, NEW w \in Viewers PROVE Chained(sweep'[u].new, sweep'[w].new)
  <2>1. Chained(sweep[u].new, sweep[w].new)
    BY DEF SweepInv
  <2> QED BY <1>2, <2>1 DEF Chained
<1>6. ASSUME NEW w \in Viewers PROVE Listed(viewer'[w], sweep'[w], Held(cached'))
  <2>1. CASE w = v
    BY <1>1, <2>1
  <2>2. CASE w # v
    <3>1. Listed(viewer[w], sweep[w], Held(cached))
      BY DEF SweepInv
    <3> QED BY <1>1, <2>2, <3>1 DEF Listed
  <2> QED BY <2>1, <2>2
<1> QED
  BY <1>1, <1>4, <1>5, <1>6 DEF SweepInv

\* There is room while nothing comes in.
LEMMA RoomStays ==
  ASSUME PlayInv, SweepInv, Held(cached') \subseteq Held(cached), UNCHANGED unswept
  PROVE  Cardinality(Held(cached') \ unswept') <= LIMIT + 1
<1> DEFINE A == Held(cached') \ unswept'
           B == Held(cached) \ unswept
<1>1. A \subseteq B /\ LIMIT + 1 \in Nat
  BY PlayAssumption
<1>2. IsFiniteSet(B)
  BY HeldFinite, FS_Subset
<1>3. Cardinality(B) <= LIMIT + 1
  BY DEF SweepInv
<1> HIDE DEF A, B
<1>4. Cardinality(A) <= LIMIT + 1
  BY <1>1, <1>2, <1>3, FewerFiles
<1> QED
  BY <1>4 DEF A

\* A request without a sweep goes on.
LEMMA SweepQuiet ==
  ASSUME PlayInv, SweepInv, NEW v \in Viewers, NEW r \in Request, viewer' = [viewer EXCEPT ![v] = r],
         viewer[v].pc \notin SweepPcs, r.pc \notin SweepPcs, UNCHANGED <<sweep, unswept>>,
         Held(cached') \subseteq Held(cached)
  PROVE  SweepInv'
<1>1. viewer \in [Viewers -> Request] /\ sweep[v] \in SweepRecord /\ sweep' = [sweep EXCEPT ![v] = sweep[v]]
  BY DEF PlayInv, PlayTypes, SweepInv
<1>2. Listed(viewer[v], sweep[v], Held(cached))
  BY DEF SweepInv
<1>3. Listed(r, sweep[v], Held(cached'))
  BY <1>2 DEF Listed, SweepPcs
<1>4. Cardinality(Held(cached') \ unswept') <= LIMIT + 1
  BY RoomStays
<1> QED
  BY <1>1, <1>3, <1>4, SweepMove

\* A sweep is over: it has kept the limit on what it listed.
LEMMA SweepEnds ==
  ASSUME PlayInv, SweepInv, NEW v \in Viewers, NEW r \in Request, viewer' = [viewer EXCEPT ![v] = r], r.pc \notin SweepPcs,
         sweep' = [sweep EXCEPT ![v] = PlaybackCache!NoSweep], unswept' = unswept \cap sweep[v].new,
         Held(cached') \subseteq Held(cached), NEW f, NEW S, IsFiniteSet(S), Cardinality(S) <= LIMIT,
         Held(cached') \ sweep[v].new \subseteq S \cup {f}
  PROVE  SweepInv'
<1>1. viewer \in [Viewers -> Request] /\ Chained(sweep[v].new, unswept)
  BY DEF PlayInv, PlayTypes, SweepInv
<1>2. PlaybackCache!NoSweep \in SweepRecord /\ PlaybackCache!NoSweep.new = {}
  BY DEF PlaybackCache!NoSweep, SweepRecord
<1>3. Listed(r, PlaybackCache!NoSweep, Held(cached'))
  BY <1>2 DEF Listed, SweepPcs
<1>4. Cardinality(Held(cached') \ unswept') <= LIMIT + 1
  <2>1. CASE unswept \subseteq sweep[v].new
    <3>1. unswept' = unswept
      BY <2>1
    <3> QED BY <3>1, RoomStays
  <2>2. CASE sweep[v].new \subseteq unswept
    <3> DEFINE A == Held(cached') \ unswept'
               B == S \cup {f}
    <3>1. A \subseteq B
      BY <2>2
    <3>2. IsFiniteSet(B) /\ Cardinality(B) = IF f \in S THEN Cardinality(S) ELSE Cardinality(S) + 1
      BY FS_AddElement
    <3>3. Cardinality(S) \in Nat /\ LIMIT \in Nat
      BY FS_CardinalityType, PlayAssumption
    <3> HIDE DEF A, B
    <3>4. Cardinality(B) <= LIMIT + 1 /\ LIMIT + 1 \in Nat
      BY <3>2, <3>3
    <3>5. Cardinality(A) <= LIMIT + 1
      BY <3>1, <3>2, <3>4, FewerFiles
    <3> QED BY <3>5 DEF A
  <2> QED BY <1>1, <2>1, <2>2 DEF Chained
<1> QED
  BY <1>1, <1>2, <1>3, <1>4, SweepMove

\* A file comes in: it is new to every sweep under way.
LEMMA SweepWritten ==
  ASSUME PlayInv, SweepInv, NEW v \in Viewers, PlaybackCache!Written(v)
  PROVE  SweepInv'
<1> DEFINE f == TargetOf(viewer[v])
<1>1. /\ viewer[v].pc = "write" /\ f \in PlaybackCache!Files /\ PlaybackCache!Target(v) = f
      /\ viewer[v] \in Request /\ viewer \in [Viewers -> Request]
      /\ cached \in Seq(PlaybackCache!Files) /\ Distinct(cached)
  BY PlayTarget DEF PlaybackCache!Written, PlayInv, PlayTypes
<1>2. /\ cached' = PlaybackCache!Touch(cached, f) /\ PlaybackCache!Goto(v, "prune") /\ "prune" \in PlayPlaces
      /\ sweep' = [w \in Viewers |-> IF w \in PlaybackCache!Sweeping
                                     THEN [sweep[w] EXCEPT !.new = @ \cup {f}] ELSE sweep[w]]
      /\ unswept' = unswept \cup {f}
  BY <1>1 DEF PlaybackCache!Written, PlayPlaces
<1> HIDE DEF f
<1>3. Held(cached') \subseteq Held(cached) \cup {f}
  BY <1>1, <1>2, Touched
<1>4. viewer' = [viewer EXCEPT ![v].pc = "prune"]
  BY <1>2 DEF PlaybackCache!Goto
<1>5. ASSUME NEW w \in Viewers
      PROVE  /\ sweep'[w] \in SweepRecord /\ sweep'[w].list = sweep[w].list /\ sweep'[w].left = sweep[w].left
             /\ viewer[w].pc \in SweepPcs => sweep'[w].new = sweep[w].new \cup {f} /\ viewer'[w] = viewer[w]
             /\ viewer[w].pc \notin SweepPcs => sweep'[w].new = {} /\ viewer'[w].pc \notin SweepPcs
  <2>1. sweep[w] \in SweepRecord /\ Listed(viewer[w], sweep[w], Held(cached))
    BY DEF SweepInv
  <2>2. CASE viewer[w].pc \in SweepPcs
    <3> DEFINE z == [sweep[w] EXCEPT !.new = @ \cup {f}]
    <3>1. sweep'[w] = z /\ w # v
      BY <1>1, <1>2, <2>2 DEF PlaybackCache!Sweeping, SweepPcs
    <3>2. z \in SweepRecord /\ z.list = sweep[w].list /\ z.left = sweep[w].left /\ z.new = sweep[w].new \cup {f}
      BY <1>1, <2>1 DEF SweepRecord
    <3>3. viewer'[w] = viewer[w]
      BY <1>1, <1>4, <3>1
    <3> QED BY <2>2, <3>1, <3>2, <3>3
  <2>3. CASE viewer[w].pc \notin SweepPcs
    <3>1. sweep'[w] = sweep[w] /\ sweep[w].new = {}
      BY <1>2, <2>1, <2>3 DEF PlaybackCache!Sweeping, SweepPcs, Listed
    <3>2. viewer'[w].pc = IF w = v THEN "prune" ELSE viewer[w].pc
      BY <1>1, <1>4 DEF Request
    <3> QED BY <2>1, <2>3, <3>1, <3>2 DEF SweepPcs
  <2> QED BY <2>2, <2>3
<1>6. sweep' \in [Viewers -> SweepRecord]
  <2> DEFINE g == [w \in Viewers |-> IF w \in PlaybackCache!Sweeping
                                     THEN [sweep[w] EXCEPT !.new = @ \cup {f}] ELSE sweep[w]]
  <2>1. sweep' = g /\ \A w \in Viewers : g[w] \in SweepRecord
    BY <1>2, <1>5
  <2>2. g = [w \in Viewers |-> g[w]]
    OBVIOUS
  <2> HIDE DEF g
  <2> QED BY <2>1, <2>2
<1>7. ASSUME NEW w \in Viewers
      PROVE  Listed(viewer'[w], sweep'[w], Held(cached')) /\ Chained(sweep'[w].new, unswept')
  <2>1. Listed(viewer[w], sweep[w], Held(cached)) /\ Chained(sweep[w].new, unswept)
    BY DEF SweepInv
  <2>2. CASE viewer[w].pc \in SweepPcs
    <3>1. sweep'[w].new = sweep[w].new \cup {f} /\ viewer'[w] = viewer[w]
      BY <1>5, <2>2
    <3>2. Held(cached') \ sweep'[w].new \subseteq Held(cached) \ sweep[w].new
      BY <1>3, <3>1
    <3>3. Listed(viewer'[w], sweep'[w], Held(cached'))
      BY <1>5, <2>1, <2>2, <3>1, <3>2 DEF Listed
    <3> QED BY <1>2, <2>1, <3>1, <3>3 DEF Chained
  <2>3. CASE viewer[w].pc \notin SweepPcs
    <3>1. sweep'[w].new = {} /\ viewer'[w].pc \notin SweepPcs
      BY <1>5, <2>3
    <3> QED BY <3>1 DEF Listed, Chained, SweepPcs
  <2> QED BY <2>2, <2>3
<1>8. ASSUME NEW u \in Viewers, NEW w \in Viewers PROVE Chained(sweep'[u].new, sweep'[w].new)
  <2>1. Chained(sweep[u].new, sweep[w].new)
    BY DEF SweepInv
  <2>2. /\ sweep'[u].new = sweep[u].new \cup {f} \/ sweep'[u].new = {}
        /\ sweep'[w].new = sweep[w].new \cup {f} \/ sweep'[w].new = {}
    BY <1>5
  <2> QED BY <2>1, <2>2 DEF Chained
<1>9. Cardinality(Held(cached') \ unswept') <= LIMIT + 1
  <2> DEFINE A == Held(cached') \ unswept'
             B == Held(cached) \ unswept
  <2>1. A \subseteq B /\ LIMIT + 1 \in Nat
    BY <1>2, <1>3, PlayAssumption
  <2>2. IsFiniteSet(B)
    BY HeldFinite, FS_Subset
  <2>3. Cardinality(B) <= LIMIT + 1
    BY DEF SweepInv
  <2> HIDE DEF A, B
  <2>4. Cardinality(A) <= LIMIT + 1
    BY <2>1, <2>2, <2>3, FewerFiles
  <2> QED BY <2>4 DEF A
<1> QED
  BY <1>6, <1>7, <1>8, <1>9 DEF SweepInv

\* The caches are listed: all that is there is on the list.
LEMMA SweepLists ==
  ASSUME PlayInv, SweepInv, NEW v \in Viewers, PlaybackCache!List(v)
  PROVE  SweepInv'
<1> DEFINE f == TargetOf(viewer[v])
           L == PlaybackCache!Whole \ {PlaybackCache!Target(v)}
           z == [PlaybackCache!NoSweep EXCEPT !.list = L]
           r == [viewer[v] EXCEPT !.pc = "stat"]
<1>1. /\ viewer[v].pc = "prune" /\ PlaybackCache!Goto(v, "stat") /\ sweep' = [sweep EXCEPT ![v] = z]
      /\ UNCHANGED <<cached, unswept>>
  BY DEF PlaybackCache!List
<1>2. L = Held(cached) \ {f} /\ viewer \in [Viewers -> Request]
  BY <1>1, PlayTarget DEF PlayInv, PlayTypes
<1>3. r \in Request /\ r.pc = "stat" /\ r.of = viewer[v].of /\ r.export = viewer[v].export
      /\ viewer' = [viewer EXCEPT ![v] = r]
  BY <1>1, PlaySent DEF PlayPlaces
<1>4. TargetOf(r) = f
  BY <1>3 DEF TargetOf
<1>5. L \in SUBSET PlaybackCache!Files
  BY <1>2, HeldFinite
<1> HIDE DEF f, L, r
<1>6. z \in SweepRecord /\ z.list = L /\ z.new = {}
  BY <1>5 DEF PlaybackCache!NoSweep, SweepRecord
<1> HIDE DEF z
<1>7. Listed(r, z, Held(cached'))
  BY <1>1, <1>2, <1>3, <1>4, <1>6 DEF Listed, SweepPcs
<1>8. Cardinality(Held(cached') \ unswept') <= LIMIT + 1
  BY <1>1, RoomStays
<1> QED
  BY <1>1, <1>2, <1>3, <1>6, <1>7, <1>8, SweepMove

\* The list is looked through.
LEMMA SweepStats ==
  ASSUME PlayInv, SweepInv, NEW v \in Viewers, PlaybackCache!Stat(v)
  PROVE  SweepInv'
<1> DEFINE f == TargetOf(viewer[v])
           L == sweep[v].list
<1>1. viewer[v].pc = "stat" /\ UNCHANGED cached
  BY DEF PlaybackCache!Stat
<1>2. /\ f \in PlaybackCache!Files /\ PlaybackCache!Target(v) = f /\ viewer \in [Viewers -> Request]
  BY <1>1, PlayTarget DEF PlayInv, PlayTypes
<1>3. /\ sweep[v] \in SweepRecord /\ L \in SUBSET PlaybackCache!Files
      /\ Held(cached) \ sweep[v].new \subseteq L \cup {f}
  BY <1>1 DEF SweepInv, Listed, SweepPcs, SweepRecord
<1>4. IsFiniteSet(L) /\ Cardinality(L) \in Nat /\ LIMIT \in Nat
  BY <1>3, FinitelyManyFiles, FS_Subset, FS_CardinalityType, PlayAssumption
<1>5. {"failed", "serve", "unlink"} \subseteq PlayPlaces
  BY DEF PlayPlaces
<1>6. CASE /\ PlaybackCache!Goto(v, "failed")
           /\ sweep' = [sweep EXCEPT ![v] = PlaybackCache!NoSweep] /\ UNCHANGED unswept
  <2> DEFINE r == [viewer[v] EXCEPT !.pc = "failed"]
  <2>1. r \in Request /\ r.pc = "failed" /\ viewer' = [viewer EXCEPT ![v] = r]
    BY <1>5, <1>6, PlaySent
  <2> HIDE DEF r
  <2>2. PlaybackCache!NoSweep \in SweepRecord /\ PlaybackCache!NoSweep.new = {}
    BY DEF PlaybackCache!NoSweep, SweepRecord
  <2>3. Listed(r, PlaybackCache!NoSweep, Held(cached'))
    BY <2>1, <2>2 DEF Listed, SweepPcs
  <2>4. Cardinality(Held(cached') \ unswept') <= LIMIT + 1
    BY <1>1, <1>6, RoomStays
  <2> QED BY <1>1, <1>2, <1>6, <2>1, <2>2, <2>3, <2>4, SweepMove
<1>7. CASE Cardinality(L) <= LIMIT /\ PlaybackCache!Swept(v)
  <2>1. /\ Gives(v, "serve", f) /\ sweep' = [sweep EXCEPT ![v] = PlaybackCache!NoSweep]
        /\ unswept' = unswept \cap sweep[v].new
    BY <1>2, <1>7 DEF PlaybackCache!Swept, PlaybackCache!Give, Gives
  <2> HIDE DEF f, L
  <2>2. PICK r \in Request : r.pc = "serve" /\ viewer' = [viewer EXCEPT ![v] = r]
    BY <1>2, <1>5, <2>1, PlayGiven
  <2>3. r.pc \notin SweepPcs
    BY <2>2 DEF SweepPcs
  <2> QED BY <1>1, <1>3, <1>4, <1>7, <2>1, <2>2, <2>3, SweepEnds
<1>8. CASE /\ PlaybackCache!Goto(v, "unlink") /\ UNCHANGED unswept
           /\ sweep' = [sweep EXCEPT ![v] = [@ EXCEPT !.age = PlaybackCache!Age(L),
                                                      !.left = PlaybackCache!Cardinality(L) - LIMIT]]
  <2> DEFINE a == PlaybackCache!Age(L)
             n == PlaybackCache!Cardinality(L) - LIMIT
             z == [sweep[v] EXCEPT !.age = a, !.left = n]
             r == [viewer[v] EXCEPT !.pc = "unlink"]
  <2>1. r \in Request /\ r.pc = "unlink" /\ r.of = viewer[v].of /\ r.export = viewer[v].export
        /\ viewer' = [viewer EXCEPT ![v] = r]
    BY <1>5, <1>8, PlaySent
  <2>2. TargetOf(r) = f
    BY <2>1 DEF TargetOf
  <2>3. sweep' = [sweep EXCEPT ![v] = z]
    BY <1>8 DEF SweepInv
  <2>4. a \in [PlaybackCache!Files -> Nat]
    <3>1. \A g \in PlaybackCache!Files : PlaybackCache!Older(L, g) \subseteq L
      BY DEF PlaybackCache!Older
    <3> HIDE DEF L
    <3>2. \A g \in PlaybackCache!Files : Cardinality(PlaybackCache!Older(L, g)) \in Nat
      BY <1>4, <3>1, FS_Subset, FS_CardinalityType
    <3> QED BY <3>2, PlayCardinality DEF PlaybackCache!Age
  <2>5. n = Cardinality(L) - LIMIT
    BY PlayCardinality
  <2> HIDE DEF a, n, r, f, L
  <2>6. n \in Int /\ n + LIMIT = Cardinality(L)
    BY <1>4, <2>5
  <2>7. z \in SweepRecord /\ z.list = sweep[v].list /\ z.left = n /\ z.new = sweep[v].new
    BY <1>3, <2>4, <2>6 DEF SweepRecord
  <2> HIDE DEF z
  <2>8. Listed(r, z, Held(cached'))
    <3>1. z.list = L
      BY <2>7 DEF L
    <3> QED BY <1>1, <1>3, <1>4, <2>1, <2>2, <2>6, <2>7, <3>1 DEF Listed, SweepPcs
  <2>9. Cardinality(Held(cached') \ unswept') <= LIMIT + 1
    BY <1>1, <1>8, RoomStays
  <2> QED BY <1>1, <1>2, <1>8, <2>1, <2>3, <2>7, <2>8, <2>9, SweepMove
<1> QED
  BY <1>6, <1>7, <1>8, PlayCardinality DEF PlaybackCache!Stat

\* A file is removed.
LEMMA SweepUnlinks ==
  ASSUME PlayInv, SweepInv, NEW v \in Viewers, PlaybackCache!Unlink(v)
  PROVE  SweepInv'
<1> DEFINE f == TargetOf(viewer[v])
           L == sweep[v].list
           n == sweep[v].left
<1>1. viewer[v].pc = "unlink"
  BY DEF PlaybackCache!Unlink
<1>2. /\ f \in PlaybackCache!Files /\ PlaybackCache!Target(v) = f /\ viewer \in [Viewers -> Request] /\ viewer[v] \in Request
      /\ cached \in Seq(PlaybackCache!Files) /\ Distinct(cached)
  BY <1>1, PlayTarget DEF PlayInv, PlayTypes
<1>3. /\ sweep[v] \in SweepRecord /\ L \in SUBSET PlaybackCache!Files /\ n \in Int
      /\ Held(cached) \ sweep[v].new \subseteq L \cup {f} /\ Cardinality(L) <= n + LIMIT
  BY <1>1 DEF SweepInv, Listed, SweepPcs, SweepRecord
<1>4. IsFiniteSet(L) /\ Cardinality(L) \in Nat /\ LIMIT \in Nat
  BY <1>3, FinitelyManyFiles, FS_Subset, FS_CardinalityType, PlayAssumption
<1>5. PICK g \in L : /\ cached' = PlaybackCache!Without(cached, g)
                     /\ \/ /\ PlaybackCache!LeftAfter(v, g) = 0 \/ L = {g}
                           /\ PlaybackCache!Swept(v)
                        \/ /\ UNCHANGED <<viewer, unswept>>
                           /\ sweep' = [sweep EXCEPT ![v].list = @ \ {g}, ![v].left = PlaybackCache!LeftAfter(v, g)]
  BY DEF PlaybackCache!Unlink
<1> DEFINE m == PlaybackCache!LeftAfter(v, g)
           M == L \ {g}
<1>6. m \in {n, n - 1}
  BY DEF PlaybackCache!LeftAfter
<1> HIDE DEF m, n
<1>7. IsFiniteSet(M) /\ Cardinality(M) = Cardinality(L) - 1
  BY <1>4, FS_RemoveElement
<1>8. m \in Int /\ Cardinality(M) \in Nat /\ Cardinality(M) <= m + LIMIT
  <2> DEFINE x == Cardinality(M)
             y == Cardinality(L)
  <2>1. x = y - 1 /\ y \in Nat /\ y <= n + LIMIT /\ n \in Int /\ m \in {n, n - 1} /\ LIMIT \in Nat
    BY <1>3, <1>4, <1>6, <1>7
  <2>2. x \in Nat
    BY <1>7, FS_CardinalityType
  <2> HIDE DEF x, y
  <2>3. m \in Int /\ x <= m + LIMIT
    BY <2>1
  <2> QED BY <2>2, <2>3 DEF x
<1>9. Held(cached') \subseteq Held(cached) /\ g \notin Held(cached')
  BY <1>2, <1>5, TakenOut
<1>10. Held(cached') \ sweep[v].new \subseteq M \cup {f}
  BY <1>3, <1>9
<1> HIDE DEF M
<1>11. CASE (m = 0 \/ L = {g}) /\ PlaybackCache!Swept(v)
  <2>1. /\ Gives(v, "serve", f) /\ sweep' = [sweep EXCEPT ![v] = PlaybackCache!NoSweep]
        /\ unswept' = unswept \cap sweep[v].new /\ "serve" \in PlayPlaces
    BY <1>2, <1>11 DEF PlaybackCache!Swept, PlaybackCache!Give, Gives, PlayPlaces
  <2>2. Cardinality(M) <= LIMIT
    <3>1. CASE m = 0
      BY <1>4, <1>8, <3>1
    <3>2. CASE L = {g}
      <4>1. M = {}
        BY <3>2 DEF M
      <4> QED BY <1>4, <4>1, FS_EmptySet
    <3> QED BY <1>11, <3>1, <3>2
  <2> HIDE DEF f, L
  <2>3. PICK r \in Request : r.pc = "serve" /\ viewer' = [viewer EXCEPT ![v] = r]
    BY <1>2, <2>1, PlayGiven
  <2>4. r.pc \notin SweepPcs
    BY <2>3 DEF SweepPcs
  <2> QED BY <1>7, <1>9, <1>10, <2>1, <2>2, <2>3, <2>4, SweepEnds
<1>12. CASE /\ UNCHANGED <<viewer, unswept>>
            /\ sweep' = [sweep EXCEPT ![v].list = @ \ {g}, ![v].left = PlaybackCache!LeftAfter(v, g)]
  <2> DEFINE z == [sweep[v] EXCEPT !.list = M, !.left = m]
             r == viewer[v]
  <2>1. sweep' = [sweep EXCEPT ![v] = z]
    <3>1. M = sweep[v].list \ {g} /\ m = PlaybackCache!LeftAfter(v, g)
      BY DEF M, L, m
    <3> DEFINE y == [sweep[v] EXCEPT !.list = sweep[v].list \ {g}, !.left = PlaybackCache!LeftAfter(v, g)]
    <3>2. sweep' = [sweep EXCEPT ![v] = y]
      BY <1>12
    <3>3. y = z
      BY <3>1
    <3> QED BY <3>2, <3>3
  <2>2. M \in SUBSET PlaybackCache!Files
    BY <1>3 DEF M
  <2> HIDE DEF L
  <2>3. z \in SweepRecord /\ z.list = M /\ z.left = m /\ z.new = sweep[v].new
    BY <1>3, <1>8, <2>2 DEF SweepRecord
  <2> HIDE DEF z
  <2>4. r \in Request /\ viewer' = [viewer EXCEPT ![v] = r]
    BY <1>2, <1>12
  <2>5. Listed(r, z, Held(cached'))
    BY <1>1, <1>8, <1>10, <2>3 DEF Listed, SweepPcs
  <2>6. Cardinality(Held(cached') \ unswept') <= LIMIT + 1
    BY <1>9, <1>12, RoomStays
  <2> HIDE DEF r
  <2> QED BY <1>2, <1>9, <1>12, <2>1, <2>3, <2>4, <2>5, <2>6, SweepMove
<1> QED
  BY <1>5, <1>11, <1>12 DEF m

\* A request comes in, looks, waits, writes, fails, is answered: it has no sweep.
LEMMA SweepOthers ==
  ASSUME PlayInv, SweepInv, NEW v \in Viewers,
         \/ PlaybackCache!Look(v) \/ PlaybackCache!Lock(v) \/ PlaybackCache!WriteFails(v) \/ PlaybackCache!Gone(v)
         \/ PlaybackCache!Serve(v) \/ PlaybackCache!Failed(v) \/ \E c \in Clips : PlaybackCache!Ask(v, c)
  PROVE  SweepInv'
<1>1. /\ viewer[v].pc \in {"idle", "look", "lock", "write", "serve", "failed"} /\ UNCHANGED <<sweep, unswept>>
      /\ viewer[v] \in Request /\ viewer \in [Viewers -> Request]
      /\ cached \in Seq(PlaybackCache!Files) /\ Distinct(cached)
  BY DEF PlaybackCache!Look, PlaybackCache!Lock, PlaybackCache!WriteFails, PlaybackCache!Gone,
     PlaybackCache!Serve, PlaybackCache!Failed, PlaybackCache!Ask, PlaybackCache!sweeps, PlayInv, PlayTypes
<1> DEFINE f == PlaybackCache!Target(v)
<1>2. cached' = cached \/ (f \in Held(cached) /\ f \in PlaybackCache!Files /\ cached' = PlaybackCache!Touch(cached, f))
  <2>1. PlaybackCache!Whole = Held(cached) /\ (viewer[v].pc # "idle" => f \in PlaybackCache!Files)
    BY PlayTarget
  <2> QED BY <2>1 DEF PlaybackCache!Look, PlaybackCache!Lock, PlaybackCache!WriteFails, PlaybackCache!Gone,
         PlaybackCache!Serve, PlaybackCache!Failed, PlaybackCache!Ask, PlaybackCache!Present
<1>3. \/ viewer' = [viewer EXCEPT ![v] = PlaybackCache!NoViewer]
      \/ viewer' = [viewer EXCEPT ![v].pc = "look", ![v].export = TRUE]
      \/ \E pc \in {"lock", "write"} : PlaybackCache!Goto(v, pc)
      \/ \E pc \in {"serve", "failed"}, g \in PlaybackCache!Files \cup {<<>>} : Gives(v, pc, g)
      \/ \E c \in Clips : viewer' = [viewer EXCEPT ![v] = [PlaybackCache!NoViewer EXCEPT !.pc = "look", !.of = c]]
  <2>1. viewer[v].pc # "idle" => f \in PlaybackCache!Files
    BY PlayTarget
  <2> HIDE DEF f
  <2>2. CASE PlaybackCache!Look(v) \/ PlaybackCache!Lock(v)
    BY <2>1, <2>2 DEF PlaybackCache!Look, PlaybackCache!Lock, PlaybackCache!Give, Gives, f
  <2>3. CASE PlaybackCache!WriteFails(v) \/ PlaybackCache!Gone(v)
    BY <2>3 DEF PlaybackCache!WriteFails, PlaybackCache!Gone, Gives
  <2>4. CASE PlaybackCache!Serve(v) \/ PlaybackCache!Failed(v) \/ \E c \in Clips : PlaybackCache!Ask(v, c)
    BY <2>4 DEF PlaybackCache!Serve, PlaybackCache!Failed, PlaybackCache!Ask
  <2> QED BY <2>2, <2>3, <2>4
<1> HIDE DEF f
<1>4. Held(cached') \subseteq Held(cached)
  <2>1. ASSUME f \in Held(cached), f \in PlaybackCache!Files, cached' = PlaybackCache!Touch(cached, f)
        PROVE  Held(cached') \subseteq Held(cached)
    <3>1. Held(cached') \subseteq Held(cached) \cup {f}
      BY <1>1, <2>1, Touched
    <3> QED BY <2>1, <3>1
  <2> QED BY <1>2, <2>1
<1>5. \E r \in Request : viewer' = [viewer EXCEPT ![v] = r] /\ r.pc \notin SweepPcs
  <2> DEFINE Found == \E r \in Request : viewer' = [viewer EXCEPT ![v] = r] /\ r.pc \notin SweepPcs
  <2>1. PlaybackCache!NoViewer \in Request /\ PlaybackCache!NoViewer.pc = "idle"
        /\ {"look", "lock", "write", "serve", "failed"} \subseteq PlayPlaces
    BY DEF PlaybackCache!NoViewer, Request, PlayPlaces
  <2>2. CASE viewer' = [viewer EXCEPT ![v] = PlaybackCache!NoViewer]
    BY <2>1, <2>2 DEF SweepPcs
  <2>3. CASE viewer' = [viewer EXCEPT ![v].pc = "look", ![v].export = TRUE]
    <3> DEFINE r == [viewer[v] EXCEPT !.pc = "look", !.export = TRUE]
    <3>1. r \in Request /\ r.pc = "look" /\ viewer' = [viewer EXCEPT ![v] = r]
      BY <1>1, <2>1, <2>3 DEF Request
    <3> HIDE DEF r
    <3> QED BY <3>1 DEF SweepPcs
  <2>4. ASSUME NEW pc \in {"lock", "write"}, PlaybackCache!Goto(v, pc) PROVE Found
    <3> DEFINE r == [viewer[v] EXCEPT !.pc = pc]
    <3>1. r \in Request /\ r.pc = pc /\ viewer' = [viewer EXCEPT ![v] = r]
      BY <2>1, <2>4, PlaySent
    <3> HIDE DEF r
    <3> QED BY <3>1 DEF SweepPcs
  <2>5. ASSUME NEW pc \in {"serve", "failed"}, NEW g \in PlaybackCache!Files \cup {<<>>}, Gives(v, pc, g) PROVE Found
    <3>1. pc \in PlayPlaces
      BY <2>1
    <3>2. PICK r \in Request : r.pc = pc /\ viewer' = [viewer EXCEPT ![v] = r]
      BY <2>5, <3>1, PlayGiven
    <3> QED BY <3>2 DEF SweepPcs
  <2>6. ASSUME NEW c \in Clips, viewer' = [viewer EXCEPT ![v] = [PlaybackCache!NoViewer EXCEPT !.pc = "look", !.of = c]]
        PROVE  Found
    <3> DEFINE r == [PlaybackCache!NoViewer EXCEPT !.pc = "look", !.of = c]
    <3>1. r \in Request /\ r.pc = "look"
      BY <2>1 DEF Request
    <3>2. viewer' = [viewer EXCEPT ![v] = r]
      BY <2>6
    <3> HIDE DEF r
    <3> QED BY <3>1, <3>2 DEF SweepPcs
  <2> QED BY <1>3, <2>2, <2>3, <2>4, <2>5, <2>6
<1>6. viewer[v].pc \notin SweepPcs
  BY <1>1 DEF SweepPcs
<1> QED
  BY <1>1, <1>4, <1>5, <1>6, SweepQuiet

\* Everything is cleared: there is nothing to keep within the limit.
LEMMA SweepCleared ==
  ASSUME PlayInv, SweepInv, PlaybackCache!clear_cache
  PROVE  SweepInv'
<1>1. cached' = <<>> /\ UNCHANGED <<viewer, sweep, unswept>>
  BY DEF PlaybackCache!clear_cache, PlaybackCache!sweeps
<1>2. Held(<<>>) = {}
  BY DEF Held
<1>3. \A w \in Viewers : Listed(viewer[w], sweep[w], {})
  BY DEF SweepInv, Listed
<1>4. Held(cached') \ unswept' = {} /\ 0 <= LIMIT + 1 /\ Cardinality({}) = 0
  BY <1>1, <1>2, PlayAssumption, FS_EmptySet
<1>5. Cardinality(Held(cached') \ unswept') <= LIMIT + 1
  BY <1>4
<1> QED
  BY <1>1, <1>2, <1>3, <1>5 DEF SweepInv

\* The first state.
LEMMA SweepInit == PlaybackCache!Init => SweepInv
<1> HAVE PlaybackCache!Init
<1>1. /\ cached = <<>> /\ unswept = {} /\ sweep = [v \in Viewers |-> PlaybackCache!NoSweep]
      /\ viewer = [v \in Viewers |-> PlaybackCache!NoViewer]
  BY DEF PlaybackCache!Init
<1>2. PlaybackCache!NoSweep \in SweepRecord /\ PlaybackCache!NoSweep.new = {}
  BY DEF PlaybackCache!NoSweep, SweepRecord
<1>3. PlaybackCache!NoViewer.pc = "idle"
  BY DEF PlaybackCache!NoViewer
<1>4. Held(cached) = {}
  BY <1>1 DEF Held
<1>5. \A w \in Viewers : Listed(viewer[w], sweep[w], Held(cached))
  BY <1>1, <1>2, <1>3 DEF Listed, SweepPcs
<1>6. Held(cached) \ unswept = {} /\ 0 <= LIMIT + 1 /\ Cardinality({}) = 0
  BY <1>4, PlayAssumption, FS_EmptySet
<1>7. Cardinality(Held(cached) \ unswept) <= LIMIT + 1
  BY <1>6
<1> QED
  BY <1>1, <1>2, <1>5, <1>7 DEF SweepInv, Chained

\* The sweeps' invariant is kept by the steps of the cache, and while it rests.
LEMMA SweepKeeps ==
  ASSUME PlayInv, SweepInv, PlaybackCache!Next \/ UNCHANGED playbackVars
  PROVE  SweepInv'
<1>1. CASE UNCHANGED playbackVars
  BY <1>1 DEF playbackVars, SweepInv
<1>2. ASSUME NEW v \in Viewers, PlaybackCache!Working(v) PROVE SweepInv'
  BY <1>2, SweepWritten, SweepLists, SweepStats, SweepUnlinks, SweepOthers DEF PlaybackCache!Working
<1> QED
  BY <1>1, <1>2, SweepOthers, SweepCleared DEF PlaybackCache!Next

\* What is promised of the cache follows.
LEMMA PlayPromised ==
  ASSUME PlayInv, SweepInv
  PROVE  PlaybackCache!TypeOK /\ PlaybackCache!OneWriter /\ PlaybackCache!Bounded
<1>1. cached \in Seq(PlaybackCache!Files) /\ Distinct(cached) /\ part \subseteq PlaybackCache!Files /\ Len(cached) \in Nat
  BY LenProperties DEF PlayInv, PlayTypes
<1>2. PlaybackCache!Whole = Held(cached)
  <2>1. DOMAIN cached = 1 .. Len(cached)
    BY <1>1, LenProperties
  <2> QED BY <2>1 DEF PlaybackCache!Whole, PlaybackCache!ToSet, Held
<1>3. PlaybackCache!TypeOK
  <2>1. \A i \in 1 .. Len(cached) : cached[i] \in PlaybackCache!Files
    BY <1>1, ElementOfSeq
  <2>2. PlaybackCache!Whole \subseteq PlaybackCache!Files
    BY <1>2, <2>1 DEF Held
  <2> DEFINE n == Len(cached)
             F == PlaybackCache!Files
             g == [i \in 1 .. n |-> cached[i]]
  <2>3. g \in Injection(1 .. n, F) /\ IsFiniteSet(F) /\ n \in Nat
    BY <1>1, <2>1, FinitelyManyFiles DEF Injection, IsInjective, Distinct
  <2> HIDE DEF n, F, g
  <2>4. Cardinality(1 .. n) <= Cardinality(F)
    BY <2>3, FS_Injection
  <2>5. Cardinality(1 .. n) = n
    BY <2>3, FS_Interval
  <2> QED BY <1>1, <2>2, <2>4, <2>5, PlayCardinality DEF PlaybackCache!TypeOK, n, F
<1>4. PlaybackCache!OneWriter
  <2>1. ASSUME NEW f \in PlaybackCache!Files
        PROVE  Cardinality(PlaybackCache!WritersOf(f)) <= 1 /\ (PlaybackCache!WritersOf(f) # {} => f \notin Held(cached))
    <3>1. \A v \in PlaybackCache!WritersOf(f) : locks[f] = v /\ f \notin Held(cached)
      BY PlayTarget DEF PlayInv, Orderly, PlaybackCache!WritersOf
    <3> DEFINE W == PlaybackCache!WritersOf(f)
    <3>2. \A a, b \in W : a = b
      BY <3>1
    <3> HIDE DEF W
    <3>3. Cardinality(W) <= 1
      BY <3>2, AtMostOne
    <3> QED BY <3>1, <3>3 DEF W
  <2> QED BY <1>2, <2>1, PlayCardinality DEF PlaybackCache!OneWriter
<1>5. PlaybackCache!Bounded
  BY <1>2, PlayCardinality DEF SweepInv, PlaybackCache!Bounded
<1> QED
  BY <1>3, <1>4, <1>5

-----------------------------------------------------------------------------
(* The settings.                                                           *)

Writings == {"idle", "lock", "publish"}

\* A value that reads back as itself.
Coerced(k, c) ==
  /\ c \in Int /\ c \notin {99, -1} /\ SettingsStore!coerce_setting(k, c) = c
  /\ Def[k].kind = "int" => c \in Def[k].min .. Def[k].max

\* Row and cache agree on setting k: the cache is what a start reads.
Agree(k, row, c, explicit) ==
  LET read == SettingsStore!coerce_setting(k, row) IN
  /\ explicit <=> row # -1 /\ read # 99
  /\ c = IF row # -1 /\ read # 99 THEN read ELSE Def[k].default

\* What writer w carries, once it was accepted, and is about to publish.
Carries(r) ==
  /\ r.pc \in Writings /\ r.reset \in BOOLEAN
  /\ r = [pc |-> r.pc, values |-> r.values, reset |-> r.reset]
  /\ r.pc # "idle" => DOMAIN r.values \subseteq Keys
       /\ \A k \in DOMAIN r.values : Coerced(k, r.values[k]) /\ (r.reset => r.values[k] = Def[k].default)

\* The rows t, while writer r has the lock.
Committed(r, t, s) ==
  \A k \in Keys :
     IF k \in DOMAIN r.values THEN t[k] = IF r.reset THEN -1 ELSE r.values[k]
     ELSE Agree(k, t[k], s.cache[k], k \in s.explicit)

SettingsTypes ==
  /\ \A k \in Keys : table[k] \in Int
  /\ settings \in [cache : [Keys -> Int], explicit : SUBSET Keys, version : Nat, event : Nat]
  /\ \A k \in Keys : Coerced(k, settings.cache[k])
  /\ DOMAIN writer = Writers /\ \A w \in Writers : Carries(writer[w])

SettingsLock ==
  /\ wlock \in Writers \cup {0}
  /\ \A w \in Writers : writer[w].pc = "publish" <=> wlock = w
  /\ wlock = 0 => \A k \in Keys : Agree(k, table[k], settings.cache[k], k \in settings.explicit)
  /\ wlock # 0 => Committed(writer[wlock], table, settings)

SettingsTold ==
  /\ follower = settings.cache
  /\ settings.version = settings.event
  /\ waiter.on \in Nat /\ waiter.since \in Nat /\ (waiter.pc = "wait" => waiter.on <= waiter.since)

SettingsInv == SettingsTypes /\ SettingsLock /\ SettingsTold

\* The settings there are.
LEMMA TheSettings ==
  ASSUME NEW k \in Keys
  PROVE  /\ k \in {1, 2, 3}
         /\ k = 1 => Def[k].kind = "int" /\ Def[k].min = 1 /\ Def[k].max = 2 /\ Def[k].default = 1 /\ Def[k].fixed = -1
         /\ k = 2 => Def[k].kind = "path" /\ Def[k].choices = {2, 3} /\ Def[k].default = 3 /\ Def[k].fixed = -1
         /\ k = 3 => Def[k].kind = "bool" /\ Def[k].default = 1 /\ Def[k].fixed = 1
<1>1. k \in {1, 2, 3}
  BY SettingsAssumption
<1> QED
  BY <1>1 DEF Def, Absent

\* What a coercer accepts reads back as itself, and lies within the limits; so
\* does the default.
LEMMA CoercedTwice ==
  ASSUME NEW k \in Keys, NEW raw \in Int
  PROVE  /\ SettingsStore!coerce_setting(k, raw) # 99 => Coerced(k, SettingsStore!coerce_setting(k, raw))
         /\ Coerced(k, Def[k].default)
         /\ SettingsStore!_effective_default(k) = Def[k].default
<1> USE TheSettings
    DEF SettingsStore!coerce_setting, SettingsStore!_coerce_bool, SettingsStore!_coerce_int, SettingsStore!_coerce_path,
        SettingsStore!_clamp, SettingsStore!Malformed, SettingsStore!Absent
<1>1. CASE k = 1
  <2>1. \A n \in Int : SettingsStore!coerce_setting(k, n) =
                         IF n = 99 THEN 99 ELSE IF n < 1 THEN 1 ELSE IF n > 2 THEN 2 ELSE n
    BY <1>1
  <2> QED BY <1>1, <2>1 DEF Coerced, SettingsStore!_effective_default
<1>2. CASE k = 2
  <2>1. \A n \in Int : SettingsStore!coerce_setting(k, n) =
                         IF n \in {2, 12} THEN 2 ELSE IF n \in {3, 13} THEN 3 ELSE 99
    BY <1>2
  <2>2. Def[k].kind # "int"
    BY <1>2
  <2> QED BY <1>2, <2>1, <2>2 DEF Coerced, SettingsStore!_effective_default
<1>3. CASE k = 3
  <2>1. \A n \in Int : SettingsStore!coerce_setting(k, n) = IF n \in {0, 1} THEN 1 ELSE 99
    BY <1>3
  <2>2. Def[k].kind # "int"
    BY <1>3
  <2> QED BY <1>3, <2>1, <2>2 DEF Coerced, SettingsStore!_effective_default
<1> QED
  BY <1>1, <1>2, <1>3

\* What a start reads agrees with the rows.
LEMMA ReadAgrees ==
  ASSUME NEW t, NEW k \in Keys, t[k] \in Int
  PROVE  /\ Agree(k, t[k], SettingsStore!CacheOf(t)[k], k \in SettingsStore!ExplicitOf(t))
         /\ Coerced(k, SettingsStore!CacheOf(t)[k])
BY CoercedTwice DEF Agree, SettingsStore!CacheOf, SettingsStore!ExplicitOf, SettingsStore!Parses,
   SettingsStore!Malformed, SettingsStore!Absent

\* And nothing else does.
LEMMA AgreeIsRead ==
  ASSUME NEW t, NEW c \in [Keys -> Int], NEW e \in SUBSET Keys,
         \A k \in Keys : Agree(k, t[k], c[k], k \in e)
  PROVE  c = SettingsStore!CacheOf(t) /\ e = SettingsStore!ExplicitOf(t)
<1>1. \A k \in Keys : c[k] = SettingsStore!CacheOf(t)[k]
  BY DEF Agree, SettingsStore!CacheOf, SettingsStore!Parses, SettingsStore!Malformed, SettingsStore!Absent,
         SettingsStore!_effective_default
<1>2. \A k \in Keys : k \in e <=> k \in SettingsStore!ExplicitOf(t)
  BY DEF Agree, SettingsStore!ExplicitOf, SettingsStore!Parses, SettingsStore!Malformed, SettingsStore!Absent
<1>3. DOMAIN SettingsStore!CacheOf(t) = Keys /\ SettingsStore!ExplicitOf(t) \subseteq Keys
  BY DEF SettingsStore!CacheOf, SettingsStore!ExplicitOf
<1>4. SettingsStore!CacheOf(t) = [k \in Keys |-> SettingsStore!CacheOf(t)[k]]
  BY DEF SettingsStore!CacheOf
<1>5. c = [k \in Keys |-> c[k]]
  OBVIOUS
<1> QED
  BY <1>1, <1>2, <1>3, <1>4, <1>5

\* A writer that is neither before nor after its commit changes its record.
LEMMA WriterMoves ==
  ASSUME SettingsInv, NEW w \in Writers, NEW r, Carries(r), r.pc # "publish", writer[w].pc # "publish",
         writer' = [writer EXCEPT ![w] = r], UNCHANGED <<table, settings, wlock, follower, waiter>>
  PROVE  SettingsInv'
<1>1. DOMAIN writer = Writers /\ DOMAIN writer' = Writers /\ writer'[w] = r
      /\ \A u \in Writers : u # w => writer'[u] = writer[u]
  BY DEF SettingsInv, SettingsTypes
<1>2. SettingsTypes'
  BY <1>1 DEF SettingsInv, SettingsTypes
<1>3. wlock # w
  BY DEF SettingsInv, SettingsLock
<1>4. \A u \in Writers : writer'[u].pc = "publish" <=> wlock = u
  BY <1>1, <1>3 DEF SettingsInv, SettingsLock
<1>5. wlock # 0 => writer'[wlock] = writer[wlock]
  BY <1>1, <1>3 DEF SettingsInv, SettingsLock
<1>6. wlock # 0 => Committed(writer'[wlock], table, settings)
  BY <1>5 DEF SettingsInv, SettingsLock
<1>7. SettingsLock'
  BY <1>4, <1>6 DEF SettingsInv, SettingsLock
<1>8. SettingsTold'
  BY DEF SettingsInv, SettingsTold
<1> QED
  BY <1>2, <1>7, <1>8 DEF SettingsInv

\* A writer at rest.
LEMMA AtRest == Carries(SettingsStore!NoWriter) /\ SettingsStore!NoWriter.pc = "idle"
BY DEF Carries, SettingsStore!NoWriter, Writings

\* The requests are about the settings.
LEMMA AskedSettings ==
  /\ \A values \in Asked : DOMAIN values \subseteq Keys /\ \A k \in DOMAIN values : values[k] \in Int
  /\ \A keys \in Dropped : keys \subseteq Keys
<1>1. Keys = {1, 2, 3}
  BY SettingsAssumption
<1>2. \A keys \in Dropped : keys \subseteq Keys
  BY <1>1 DEF Dropped
<1>3. ASSUME NEW values \in Asked PROVE DOMAIN values \subseteq Keys /\ \A k \in DOMAIN values : values[k] \in Int
  <2>1. CASE values = <<0>>
    BY <1>1, <2>1
  <2>2. CASE values = <<1, 99>>
    BY <1>1, <2>2
  <2>3. CASE values = [k \in {1, 3} |-> IF k = 1 THEN 12 ELSE 0] \/ values = [k \in {2, 3} |-> IF k = 2 THEN 2 ELSE 1]
    BY <1>1, <2>3
  <2> QED BY <2>1, <2>2, <2>3 DEF Asked
<1> QED
  BY <1>2, <1>3

\* Values are accepted, or a reset is.
LEMMA SettingsAccept ==
  ASSUME SettingsInv, NEW w \in Writers,
         \/ \E keys \in Dropped : SettingsStore!reset_many(w, keys)
         \/ \E values \in Asked, internal \in BOOLEAN : SettingsStore!set_many(w, values, internal)
  PROVE  SettingsInv'
<1>1. ASSUME NEW keys \in Dropped, SettingsStore!reset_many(w, keys) PROVE SettingsInv'
  <2> DEFINE r == [pc |-> "lock", reset |-> TRUE, values |-> [k \in keys |-> SettingsStore!_effective_default(k)]]
  <2>1. /\ writer[w].pc = "idle" /\ writer' = [writer EXCEPT ![w] = r]
        /\ UNCHANGED <<table, settings, wlock, follower, waiter>>
    BY <1>1 DEF SettingsStore!reset_many
  <2>2. keys \subseteq Keys
    BY AskedSettings
  <2>3. \A k \in keys : Coerced(k, SettingsStore!_effective_default(k))
                        /\ SettingsStore!_effective_default(k) = Def[k].default
    BY <2>2, CoercedTwice
  <2>4. /\ r.pc = "lock" /\ DOMAIN r.values = keys /\ r.reset = TRUE
        /\ r = [pc |-> r.pc, values |-> r.values, reset |-> r.reset]
        /\ \A k \in keys : r.values[k] = SettingsStore!_effective_default(k)
    OBVIOUS
  <2> HIDE DEF r
  <2>5. Carries(r)
    BY <2>2, <2>3, <2>4 DEF Carries, Writings
  <2> QED BY <2>1, <2>4, <2>5, WriterMoves
<1>2. ASSUME NEW values \in Asked, NEW internal \in BOOLEAN, SettingsStore!set_many(w, values, internal)
      PROVE  SettingsInv'
  <2> DEFINE r == [pc |-> "lock", reset |-> FALSE,
                   values |-> [k \in DOMAIN values |-> SettingsStore!coerce_setting(k, values[k])]]
  <2>1. /\ writer[w].pc = "idle" /\ writer' = [writer EXCEPT ![w] = r]
        /\ UNCHANGED <<table, settings, wlock, follower, waiter>>
        /\ \A k \in DOMAIN values : SettingsStore!coerce_setting(k, values[k]) # 99
    BY <1>2 DEF SettingsStore!set_many, SettingsStore!Malformed
  <2>2. DOMAIN values \subseteq Keys /\ \A k \in DOMAIN values : values[k] \in Int
    BY AskedSettings
  <2>3. \A k \in DOMAIN values : Coerced(k, SettingsStore!coerce_setting(k, values[k]))
    BY <2>1, <2>2, CoercedTwice
  <2>4. /\ r.pc = "lock" /\ r.reset = FALSE /\ DOMAIN r.values = DOMAIN values
        /\ r = [pc |-> r.pc, values |-> r.values, reset |-> r.reset]
        /\ \A k \in DOMAIN values : r.values[k] = SettingsStore!coerce_setting(k, values[k])
    OBVIOUS
  <2> HIDE DEF r
  <2>5. Carries(r)
    BY <2>2, <2>3, <2>4 DEF Carries, Writings
  <2> QED BY <2>1, <2>4, <2>5, WriterMoves
<1> QED
  BY <1>1, <1>2

\* The rows are committed.
LEMMA SettingsCommit ==
  ASSUME SettingsInv, NEW w \in Writers, SettingsStore!WriteRows(w)
  PROVE  SettingsInv'
<1> DEFINE v == writer[w].values
           r == [writer[w] EXCEPT !.pc = "publish"]
<1>1. /\ writer[w].pc = "lock" /\ wlock = 0 /\ wlock' = w
      /\ table' = [k \in Keys |-> IF k \notin DOMAIN v THEN table[k] ELSE IF writer[w].reset THEN -1 ELSE v[k]]
      /\ writer' = [writer EXCEPT ![w] = r]
      /\ UNCHANGED <<settings, follower, waiter>>
  BY DEF SettingsStore!WriteRows, SettingsStore!Open, SettingsStore!Absent, SettingsInv, SettingsTypes
<1>2. Carries(writer[w]) /\ DOMAIN writer = Writers /\ w # 0
  BY SettingsAssumption DEF SettingsInv, SettingsTypes
<1>3. writer[w].pc \in Writings /\ DOMAIN v \subseteq Keys
      /\ \A k \in DOMAIN v : Coerced(k, v[k]) /\ (writer[w].reset => v[k] = Def[k].default)
  BY <1>1, <1>2 DEF Carries
<1>4. r = [pc |-> "publish", values |-> v, reset |-> writer[w].reset] /\ writer[w].reset \in BOOLEAN
  BY <1>2 DEF Carries
<1>5. r.pc = "publish" /\ r.values = v /\ r.reset = writer[w].reset
      /\ r = [pc |-> r.pc, values |-> r.values, reset |-> r.reset]
  BY <1>4
<1> HIDE DEF r, v
<1>6. Carries(r)
  BY <1>3, <1>4, <1>5 DEF Carries, Writings
<1>7. DOMAIN writer' = Writers /\ writer'[w] = r /\ \A u \in Writers : u # w => writer'[u] = writer[u]
  BY <1>1, <1>2
<1>8. SettingsTypes'
  <2>1. \A k \in Keys : table'[k] \in Int
    BY <1>1, <1>3 DEF SettingsInv, SettingsTypes, Coerced
  <2> QED BY <1>1, <1>6, <1>7, <2>1 DEF SettingsInv, SettingsTypes
<1>9. Committed(r, table', settings)
  <2>1. ASSUME NEW k \in Keys, k \notin DOMAIN v
        PROVE  Agree(k, table'[k], settings.cache[k], k \in settings.explicit)
    <3>1. table'[k] = table[k]
      BY <1>1, <2>1
    <3> QED BY <1>1, <3>1 DEF SettingsInv, SettingsLock
  <2>2. ASSUME NEW k \in Keys, k \in DOMAIN v
        PROVE  table'[k] = IF r.reset THEN -1 ELSE r.values[k]
    BY <1>1, <1>5, <2>2
  <2> QED BY <1>5, <2>1, <2>2 DEF Committed
<1>10. SettingsLock'
  <2>1. \A u \in Writers : u # w => writer[u].pc # "publish"
    BY <1>1, SettingsAssumption DEF SettingsInv, SettingsLock
  <2>2. \A u \in Writers : writer'[u].pc = "publish" <=> wlock' = u
    BY <1>1, <1>5, <1>7, <2>1
  <2>3. Committed(writer'[wlock'], table', settings')
    BY <1>1, <1>7, <1>9
  <2> QED BY <1>1, <1>2, <2>2, <2>3 DEF SettingsLock
<1>11. SettingsTold'
  BY <1>1 DEF SettingsInv, SettingsTold
<1> QED
  BY <1>8, <1>10, <1>11 DEF SettingsInv

\* The commit fails: the writer is at rest.
LEMMA SettingsFail ==
  ASSUME SettingsInv, NEW w \in Writers, SettingsStore!WriteFails(w)
  PROVE  SettingsInv'
<1>1. writer[w].pc = "lock" /\ writer' = [writer EXCEPT ![w] = SettingsStore!NoWriter]
      /\ UNCHANGED <<table, settings, wlock, follower, waiter>>
  BY DEF SettingsStore!WriteFails
<1> QED
  BY <1>1, AtRest, WriterMoves

\* The rows are published: in one step the cache and its follower agree with
\* them again.
LEMMA SettingsPublish ==
  ASSUME SettingsInv, NEW w \in Writers, SettingsStore!Publish(w)
  PROVE  SettingsInv'
<1> DEFINE r == writer[w]
           v == r.values
           fresh == [k \in Keys |-> IF k \in DOMAIN v THEN v[k] ELSE settings.cache[k]]
           changed == {k \in DOMAIN v : settings.cache[k] # v[k]}
           explicit == IF r.reset THEN settings.explicit \ DOMAIN v ELSE settings.explicit \cup DOMAIN v
           next == [settings EXCEPT !.cache = fresh, !.explicit = explicit]
<1>1. /\ r.pc = "publish" /\ wlock' = 0
      /\ settings' = IF changed = {} THEN next ELSE SettingsStore!_bump(next)
      /\ follower' = [k \in Keys |-> IF k \in changed THEN fresh[k] ELSE follower[k]]
      /\ writer' = [writer EXCEPT ![w] = SettingsStore!NoWriter]
      /\ UNCHANGED <<table, waiter>>
  BY DEF SettingsStore!Publish, SettingsStore!Open, SettingsStore!_dispatch
<1>2. /\ Carries(r) /\ DOMAIN writer = Writers /\ w # 0 /\ wlock = w
      /\ settings \in [cache : [Keys -> Int], explicit : SUBSET Keys, version : Nat, event : Nat]
      /\ settings.version = settings.event /\ follower = settings.cache
      /\ \A k \in Keys : Coerced(k, settings.cache[k])
  BY <1>1, SettingsAssumption DEF SettingsInv, SettingsTypes, SettingsLock, SettingsTold
<1>3. /\ DOMAIN v \subseteq Keys /\ r.reset \in BOOLEAN
      /\ \A k \in DOMAIN v : Coerced(k, v[k]) /\ (r.reset => v[k] = Def[k].default)
  BY <1>1, <1>2 DEF Carries
<1>4. Committed(r, table, settings)
  BY <1>2 DEF SettingsInv, SettingsLock
<1>5. fresh \in [Keys -> Int] /\ explicit \in SUBSET Keys /\ \A k \in Keys : Coerced(k, fresh[k])
  BY <1>2, <1>3 DEF Coerced
<1> HIDE DEF fresh, explicit, changed, v, r
<1>6. /\ next \in [cache : [Keys -> Int], explicit : SUBSET Keys, version : Nat, event : Nat]
      /\ next.cache = fresh /\ next.explicit = explicit /\ next.version = settings.version /\ next.event = settings.event
  BY <1>2, <1>5
<1> HIDE DEF next
<1>7. /\ settings' \in [cache : [Keys -> Int], explicit : SUBSET Keys, version : Nat, event : Nat]
      /\ settings'.cache = fresh /\ settings'.explicit = explicit /\ settings'.version = settings'.event
  <2>1. CASE changed = {}
    BY <1>1, <1>2, <1>6, <2>1
  <2>2. CASE changed # {}
    <3> DEFINE n == next.version + 1
               m == next.event + 1
    <3>1. settings' = [next EXCEPT !.version = n, !.event = m]
      BY <1>1, <2>2 DEF SettingsStore!_bump
    <3>2. n \in Nat /\ m \in Nat /\ n = m
      BY <1>2, <1>6
    <3> HIDE DEF n, m
    <3> QED BY <1>6, <3>1, <3>2
  <2> QED BY <2>1, <2>2
<1>8. \A k \in Keys : Agree(k, table[k], fresh[k], k \in explicit)
  <2>1. ASSUME NEW k \in Keys, k \notin DOMAIN v PROVE Agree(k, table[k], fresh[k], k \in explicit)
    <3>1. Agree(k, table[k], settings.cache[k], k \in settings.explicit)
      BY <1>4, <2>1 DEF Committed, v
    <3>2. fresh[k] = settings.cache[k] /\ (k \in explicit <=> k \in settings.explicit)
      BY <2>1 DEF fresh, explicit
    <3> QED BY <3>1, <3>2 DEF Agree
  <2>2. ASSUME NEW k \in Keys, k \in DOMAIN v PROVE Agree(k, table[k], fresh[k], k \in explicit)
    <3>1. table[k] = IF r.reset THEN -1 ELSE v[k]
      BY <1>4, <2>2 DEF Committed, v
    <3>2. fresh[k] = v[k] /\ (k \in explicit <=> ~r.reset)
      BY <1>3, <2>2 DEF fresh, explicit
    <3>3. Coerced(k, v[k]) /\ (r.reset => v[k] = Def[k].default)
      BY <1>3, <2>2
    <3> QED BY <1>3, <3>1, <3>2, <3>3 DEF Agree, Coerced
  <2> QED BY <2>1, <2>2
<1>9. DOMAIN writer' = Writers /\ writer'[w] = SettingsStore!NoWriter
      /\ \A u \in Writers : u # w => writer'[u] = writer[u]
  BY <1>1, <1>2
<1>10. \A u \in Writers : Carries(writer'[u]) /\ writer'[u].pc # "publish" /\ u # 0
  BY <1>2, <1>9, AtRest, SettingsAssumption DEF SettingsInv, SettingsTypes, SettingsLock
<1>11. SettingsTypes'
  <2>1. \A k \in Keys : table'[k] \in Int
    BY <1>1 DEF SettingsInv, SettingsTypes
  <2> QED BY <1>5, <1>7, <1>9, <1>10, <2>1 DEF SettingsTypes
<1>12. SettingsLock'
  BY <1>1, <1>7, <1>8, <1>10 DEF SettingsLock
<1>13. follower' = fresh
  <2>1. \A k \in Keys : (IF k \in changed THEN fresh[k] ELSE follower[k]) = fresh[k]
    BY <1>2 DEF changed, fresh
  <2>2. fresh = [k \in Keys |-> fresh[k]]
    BY DEF fresh
  <2>3. follower' = [k \in Keys |-> fresh[k]]
    BY <1>1, <2>1
  <2> QED BY <2>2, <2>3
<1>14. SettingsTold'
  BY <1>1, <1>7, <1>13 DEF SettingsInv, SettingsTold
<1> QED
  BY <1>11, <1>12, <1>14 DEF SettingsInv

\* A start reads the rows, whatever was committed.
LEMMA SettingsRestart ==
  ASSUME SettingsInv, SettingsStore!Restart
  PROVE  SettingsInv'
<1> DEFINE fresh == SettingsStore!CacheOf(table)
           explicit == SettingsStore!ExplicitOf(table)
<1>1. /\ writer' = [w \in Writers |-> SettingsStore!NoWriter] /\ wlock' = 0
      /\ settings' = [settings EXCEPT !.cache = fresh, !.explicit = explicit]
      /\ follower' = settings'.cache /\ waiter' = [pc |-> "idle", since |-> 0, on |-> 0]
      /\ UNCHANGED table
  BY DEF SettingsStore!Restart, SettingsStore!Open
<1>2. \A k \in Keys : table[k] \in Int
  BY DEF SettingsInv, SettingsTypes
<1>3. \A k \in Keys : Agree(k, table[k], fresh[k], k \in explicit) /\ Coerced(k, fresh[k])
  BY <1>2, ReadAgrees
<1>4. explicit \in SUBSET Keys /\ fresh \in [Keys -> Int]
  <2>1. fresh = [k \in Keys |-> fresh[k]]
    BY DEF SettingsStore!CacheOf
  <2>2. \A k \in Keys : fresh[k] \in Int
    BY <1>3 DEF Coerced
  <2>3. explicit \in SUBSET Keys
    BY DEF SettingsStore!ExplicitOf
  <2> HIDE DEF fresh
  <2> QED BY <2>1, <2>2, <2>3
<1> HIDE DEF fresh, explicit
<1>5. /\ settings' \in [cache : [Keys -> Int], explicit : SUBSET Keys, version : Nat, event : Nat]
      /\ settings'.cache = fresh /\ settings'.explicit = explicit /\ settings'.version = settings'.event
  BY <1>1, <1>4 DEF SettingsInv, SettingsTypes, SettingsTold
<1>6. SettingsTypes'
  BY <1>1, <1>2, <1>3, <1>5, AtRest DEF SettingsTypes
<1>7. SettingsLock'
  BY <1>1, <1>3, <1>5, AtRest, SettingsAssumption DEF SettingsLock
<1>8. SettingsTold'
  BY <1>1, <1>5 DEF SettingsTold
<1> QED
  BY <1>6, <1>7, <1>8 DEF SettingsInv

\* The first state.
LEMMA SettingsInit ==
  ASSUME SettingsStore!Init, table \in Stored
  PROVE  SettingsInv
<1> DEFINE fresh == SettingsStore!CacheOf(table)
           explicit == SettingsStore!ExplicitOf(table)
<1>1. /\ writer = [w \in Writers |-> SettingsStore!NoWriter] /\ wlock = 0
      /\ settings = [cache |-> fresh, explicit |-> explicit, version |-> 0, event |-> 0]
      /\ follower = settings.cache /\ waiter = [pc |-> "idle", since |-> 0, on |-> 0]
  BY DEF SettingsStore!Init, SettingsStore!Open
<1>2. \A k \in Keys : table[k] \in Int
  <2>1. Keys = {1, 2, 3}
    BY SettingsAssumption
  <2>2. CASE table = [k \in 1 .. 3 |-> Absent]
    BY <2>1, <2>2 DEF Absent
  <2>3. CASE table = <<0, 99, 1>> \/ table = <<12, 12, 99>>
    BY <2>1, <2>3
  <2> QED BY <2>2, <2>3 DEF Stored
<1>3. \A k \in Keys : Agree(k, table[k], fresh[k], k \in explicit) /\ Coerced(k, fresh[k])
  BY <1>2, ReadAgrees
<1>4. explicit \in SUBSET Keys /\ fresh \in [Keys -> Int]
  <2>1. fresh = [k \in Keys |-> fresh[k]]
    BY DEF SettingsStore!CacheOf
  <2>2. \A k \in Keys : fresh[k] \in Int
    BY <1>3 DEF Coerced
  <2>3. explicit \in SUBSET Keys
    BY DEF SettingsStore!ExplicitOf
  <2> HIDE DEF fresh
  <2> QED BY <2>1, <2>2, <2>3
<1> HIDE DEF fresh, explicit
<1>5. SettingsTypes
  BY <1>1, <1>2, <1>3, <1>4, AtRest DEF SettingsTypes
<1>6. SettingsLock
  BY <1>1, <1>3, AtRest, SettingsAssumption DEF SettingsLock
<1>7. SettingsTold
  BY <1>1 DEF SettingsTold
<1> QED
  BY <1>5, <1>6, <1>7 DEF SettingsInv

\* A caller waits, and is woken.
LEMMA SettingsWait ==
  ASSUME SettingsInv, SettingsStore!wait_for_change \/ SettingsStore!Wake
  PROVE  SettingsInv'
<1>1. UNCHANGED <<table, settings, writer, wlock, follower>>
  BY DEF SettingsStore!wait_for_change, SettingsStore!Wake
<1>2. /\ settings.version \in Nat /\ settings.event = settings.version /\ waiter.on \in Nat /\ waiter.since \in Nat
      /\ (waiter.pc = "wait" => waiter.on <= waiter.since)
  BY DEF SettingsInv, SettingsTypes, SettingsTold
<1>3. waiter'.on \in Nat /\ waiter'.since \in Nat /\ (waiter'.pc = "wait" => waiter'.on <= waiter'.since)
  <2>1. CASE SettingsStore!wait_for_change
    BY <1>2, <2>1 DEF SettingsStore!wait_for_change
  <2>2. CASE SettingsStore!Wake
    BY <1>2, <2>2 DEF SettingsStore!Wake
  <2> QED BY <2>1, <2>2
<1> QED
  BY <1>1, <1>3 DEF SettingsInv, SettingsTypes, SettingsLock, SettingsTold, Committed

\* The settings' invariant is kept by their steps, and while they rest.
LEMMA SettingsKeeps ==
  ASSUME SettingsInv, SettingsStore!Next \/ UNCHANGED settingsVars
  PROVE  SettingsInv'
<1>1. CASE UNCHANGED settingsVars
  BY <1>1 DEF settingsVars, SettingsInv, SettingsTypes, SettingsLock, SettingsTold, Committed
<1> QED
  BY <1>1, SettingsAccept, SettingsCommit, SettingsFail, SettingsPublish, SettingsRestart, SettingsWait
  DEF SettingsStore!Next

\* What is promised of the settings follows.
LEMMA SettingsPromised ==
  ASSUME SettingsInv
  PROVE  /\ SettingsStore!TypeOK /\ SettingsStore!CacheIsTheRows
         /\ SettingsStore!FollowersAgree /\ SettingsStore!NoLostWakeup
<1>1. settings.cache \in [Keys -> Int] /\ settings.explicit \in SUBSET Keys
  BY DEF SettingsInv, SettingsTypes
<1>2. SettingsStore!TypeOK
  BY <1>1 DEF SettingsInv, SettingsTypes, Coerced, SettingsStore!TypeOK, SettingsStore!Malformed
<1>3. SettingsStore!CacheIsTheRows
  <2>1. ASSUME wlock = 0
        PROVE  settings.cache = SettingsStore!CacheOf(table) /\ settings.explicit = SettingsStore!ExplicitOf(table)
    <3> DEFINE c == settings.cache
               e == settings.explicit
    <3>1. c \in [Keys -> Int] /\ e \in SUBSET Keys /\ \A k \in Keys : Agree(k, table[k], c[k], k \in e)
      BY <1>1, <2>1 DEF SettingsInv, SettingsLock
    <3> HIDE DEF c, e
    <3>2. c = SettingsStore!CacheOf(table) /\ e = SettingsStore!ExplicitOf(table)
      BY <3>1, AgreeIsRead
    <3> QED BY <3>2 DEF c, e
  <2> QED BY <2>1 DEF SettingsStore!CacheIsTheRows, SettingsStore!Open
<1>4. SettingsStore!FollowersAgree /\ SettingsStore!NoLostWakeup
  <2>1. settings.version \in Nat
    BY DEF SettingsInv, SettingsTypes
  <2> QED BY <2>1 DEF SettingsInv, SettingsTold, SettingsStore!FollowersAgree, SettingsStore!NoLostWakeup
<1> QED
  BY <1>2, <1>3, <1>4

-----------------------------------------------------------------------------
(* The database.                                                           *)

DbPlaces == {"off", "validate", "snapshot", "replace", "lock", "backup", "upgrade", "serve"}
Restoring == {"validate", "snapshot", "replace"}   \* boots alone
Migrating == {"backup", "upgrade"}                 \* holds the migration lock
Files == [rev : Int, rows : SUBSET Nat]
NoFile == [rev |-> 0, rows |-> {}]

DatabaseTypes ==
  /\ db \in Files /\ db.rev \in 1 .. Newest
  /\ backups \subseteq Files
  /\ pending = NoFile \/ (pending \in Uploads /\ pending.rev \in 1 .. Newest /\ pending.intact)
  /\ proc \in [Boots -> DbPlaces]
  /\ write \in [pc : {"idle", "try"}, tries : Nat] /\ write.tries <= DEFAULT_ATTEMPTS
  /\ upload = [pc |-> upload.pc, file |-> upload.file, abandoned |-> upload.abandoned]
  /\ count \in Nat

\* Process p at step pc: m has the lock, d is the database, k its copies and n
\* the staged restore.  What is about to be overwritten is among the copies,
\* and who serves has the newest schema.
Sound(p, pc, m, d, k, n) ==
  /\ pc \in Migrating <=> m = p
  /\ pc \in Restoring => n # NoFile
  /\ pc = "replace" => d \in k
  /\ pc = "upgrade" /\ d.rev # Newest => d \in k
  /\ pc = "serve" => d.rev = Newest

Boots1 == \A p \in Boots : Sound(p, proc[p], migrating, db, backups, pending)

\* Who restores is alone.
AloneAtRestore == \A p, q \in Boots : proc[p] \in Restoring /\ q # p => proc[q] = "off"

\* A row is in the database or in a copy.
Safe(n, d, k) == n \in d.rows \/ \E b \in k : n \in b.rows
RowsSafe == \A n \in 1 .. count : Safe(n, db, backups)

\* There is one upload; it is under way while somebody serves, and until then
\* nothing is staged.  Once it was given up it stays so.
OneUpload ==
  /\ "upload" \notin faults => upload.pc = "idle" /\ pending = NoFile /\ dropped = {}
  /\ upload.pc # "idle" => /\ pending = NoFile /\ upload.file \in Uploads /\ \E p \in Boots : proc[p] = "serve"
                           /\ dropped # {} => upload.abandoned
  /\ upload.pc = "valid" => upload.file.intact /\ upload.file.rev \in 1 .. Newest
  /\ pending # NoFile => dropped = {}
  /\ dropped \subseteq Uploads

DatabaseInv == DatabaseTypes /\ Boots1 /\ AloneAtRestore /\ RowsSafe /\ OneUpload

\* What a client may send is no empty file.
LEMMA UploadsAre ==
  ASSUME NEW u \in Uploads
  PROVE  u.rev \in Nat \ {0} /\ u.rows = {} /\ u # NoFile
BY DEF Uploads, NoFile

\* A step of process p, from one place to another.
LEMMA ProcMoves ==
  ASSUME DatabaseInv, NEW p \in Boots, NEW pc \in DbPlaces, proc' = [proc EXCEPT ![p] = pc],
         Sound(p, pc, migrating', db', backups', pending'),
         \A q \in Boots : q # p => Sound(q, proc[q], migrating', db', backups', pending'),
         pc = "off" \/ (\A q \in Boots : q # p => proc[q] \notin Restoring),
         pc \in Restoring => \A q \in Boots : q # p => proc[q] = "off"
  PROVE  proc' \in [Boots -> DbPlaces] /\ Boots1' /\ AloneAtRestore'
<1>1. proc \in [Boots -> DbPlaces]
  BY DEF DatabaseInv, DatabaseTypes
<1>2. proc' \in [Boots -> DbPlaces] /\ proc'[p] = pc /\ \A q \in Boots : q # p => proc'[q] = proc[q]
  BY <1>1
<1>3. Boots1'
  BY <1>2 DEF Boots1
<1>4. AloneAtRestore'
  <2>1. ASSUME NEW q \in Boots, NEW o \in Boots, proc'[q] \in Restoring, o # q PROVE proc'[o] = "off"
    <3>1. CASE q = p
      BY <1>2, <2>1, <3>1
    <3>2. CASE q # p /\ o = p
      BY <1>2, <2>1, <3>2 DEF DatabaseInv, AloneAtRestore
    <3>3. CASE q # p /\ o # p
      BY <1>2, <2>1, <3>3 DEF DatabaseInv, AloneAtRestore
    <3> QED BY <3>1, <3>2, <3>3
  <2> QED BY <2>1 DEF AloneAtRestore
<1> QED
  BY <1>2, <1>3, <1>4

\* What is known when process p takes a step.
LEMMA ProcAtHand ==
  ASSUME DatabaseInv, NEW p \in Boots
  PROVE  /\ proc \in [Boots -> DbPlaces] /\ proc[p] \in DbPlaces /\ p # 0
         /\ Sound(p, proc[p], migrating, db, backups, pending)
         /\ db \in Files /\ db.rev \in 1 .. Newest /\ backups \subseteq Files
         /\ proc[p] # "off" => \A q \in Boots : q # p => proc[q] \notin Restoring
         /\ proc[p] \in Restoring => \A q \in Boots : q # p => proc[q] = "off"
BY DatabaseAssumption DEF DatabaseInv, DatabaseTypes, Boots1, AloneAtRestore

\* The upload is left alone while the same processes serve.
LEMMA UploadStays ==
  ASSUME OneUpload, UNCHANGED <<pending, upload, dropped>>, faults \subseteq faults',
         \A p \in Boots : proc[p] = "serve" => proc'[p] = "serve"
  PROVE  OneUpload'
BY DEF OneUpload

\* The other services of the boot: another process is as sound as before.
LEMMA OthersSound ==
  ASSUME NEW p, NEW q, q # p, NEW pc, NEW m, NEW o, NEW d, NEW e, NEW k, NEW l, NEW n,
         Sound(q, pc, m, d, k, n), k \subseteq l, m = q <=> o = q,
         d = e \/ pc \in {"off", "lock"} \/ (pc = "serve" /\ e.rev = Newest)
  PROVE  Sound(q, pc, o, e, l, n)
BY DEF Sound, Restoring, Migrating

\* A boot begins.
LEMMA DbBoot ==
  ASSUME DatabaseInv, NEW p \in Boots, Database!Boot(p)
  PROVE  DatabaseInv'
<1> DEFINE pc == IF pending = NoFile THEN "lock" ELSE "validate"
<1>1. /\ proc[p] = "off" /\ proc' = [proc EXCEPT ![p] = pc]
      /\ pending # NoFile => \A q \in Boots : proc[q] = "off"
      /\ \A q \in Boots : proc[q] \notin Restoring
      /\ UNCHANGED <<db, backups, pending, migrating, upload, write, count, dropped, faults>>
  BY DEF Database!Boot, Database!Go, Database!NoDb, NoFile, Restoring
<1>2. pc \in DbPlaces /\ pc \notin Migrating /\ pc # "replace" /\ pc # "upgrade" /\ pc # "serve" /\ pc # "off"
      /\ (pc \in Restoring => pending # NoFile)
  BY DEF DbPlaces, Restoring, Migrating
<1> HIDE DEF pc
<1>3. Sound(p, pc, migrating', db', backups', pending')
  BY <1>1, <1>2, ProcAtHand DEF Sound, Migrating
<1>4. \A q \in Boots : q # p => Sound(q, proc[q], migrating', db', backups', pending')
  BY <1>1 DEF DatabaseInv, Boots1
<1>5. proc' \in [Boots -> DbPlaces] /\ Boots1' /\ AloneAtRestore'
  BY <1>1, <1>2, <1>3, <1>4, ProcMoves
<1>6. \A q \in Boots : proc[q] = "serve" => proc'[q] = "serve"
  BY <1>1, ProcAtHand
<1>7. OneUpload'
  BY <1>1, <1>6, UploadStays DEF DatabaseInv
<1> QED
  BY <1>1, <1>5, <1>7 DEF DatabaseInv, DatabaseTypes, RowsSafe

\* Rows stay where they are, or a copy has them.
LEMMA RowsStay ==
  ASSUME RowsSafe, UNCHANGED count, backups \subseteq backups', db.rows \subseteq db'.rows \/ db \in backups'
  PROVE  RowsSafe'
BY DEF RowsSafe, Safe

\* While no process moves and the database is as it was, copies may be added
\* and a restore be staged.
LEMMA ServedStays ==
  ASSUME DatabaseInv, UNCHANGED <<db, proc, migrating, count>>, backups \subseteq backups',
         pending' = pending \/ pending' # NoFile
  PROVE  Boots1' /\ AloneAtRestore' /\ RowsSafe'
<1>1. Boots1'
  <2>1. ASSUME NEW q \in Boots PROVE Sound(q, proc[q], migrating, db, backups', pending')
    <3>1. Sound(q, proc[q], migrating, db, backups, pending)
      BY <2>1 DEF DatabaseInv, Boots1
    <3> QED BY <3>1 DEF Sound
  <2> QED BY <2>1 DEF Boots1
<1> QED
  BY <1>1, RowsStay DEF DatabaseInv, AloneAtRestore

\* The staged file is validated again.
LEMMA DbValidate ==
  ASSUME DatabaseInv, NEW p \in Boots, Database!Validate(p)
  PROVE  DatabaseInv'
<1>1. /\ proc[p] = "validate" /\ proc' = [proc EXCEPT ![p] = "snapshot"]
      /\ UNCHANGED <<db, backups, pending, migrating, upload, write, count, dropped, faults>>
  BY DEF Database!Validate, Database!Go
<1>2. Sound(p, "snapshot", migrating', db', backups', pending')
  BY <1>1, ProcAtHand DEF Sound, Restoring, Migrating
<1>3. \A q \in Boots : q # p => Sound(q, proc[q], migrating', db', backups', pending')
  BY <1>1 DEF DatabaseInv, Boots1
<1>4. proc' \in [Boots -> DbPlaces] /\ Boots1' /\ AloneAtRestore'
  BY <1>1, <1>2, <1>3, ProcAtHand, ProcMoves DEF DbPlaces, Restoring
<1>5. \A q \in Boots : proc[q] = "serve" => proc'[q] = "serve"
  BY <1>1, ProcAtHand
<1>6. OneUpload'
  BY <1>1, <1>5, UploadStays DEF DatabaseInv
<1> QED
  BY <1>1, <1>4, <1>6 DEF DatabaseInv, DatabaseTypes, RowsSafe

\* The database is copied before the restore, or the boot fails.
LEMMA DbSnapshot ==
  ASSUME DatabaseInv, NEW p \in Boots, Database!SnapshotBefore(p)
  PROVE  DatabaseInv'
<1>1. PICK pc \in {"replace", "off"} :
        /\ proc[p] = "snapshot" /\ proc' = [proc EXCEPT ![p] = pc]
        /\ backups' \in {backups, backups \cup {db}} /\ (pc = "replace" => db \in backups')
        /\ faults \subseteq faults'
        /\ UNCHANGED <<db, pending, migrating, upload, write, count, dropped>>
  BY DEF Database!SnapshotBefore, Database!Go, Database!_create_snapshot, Database!Meets
<1>2. Sound(p, pc, migrating', db', backups', pending')
  BY <1>1, ProcAtHand DEF Sound, Restoring, Migrating
<1>3. ASSUME NEW q \in Boots, q # p PROVE Sound(q, proc[q], migrating', db', backups', pending')
  <2>1. Sound(q, proc[q], migrating, db, backups, pending)
    BY <1>3 DEF DatabaseInv, Boots1
  <2>2. backups \subseteq backups' /\ db' = db /\ pending' = pending /\ migrating' = migrating
    BY <1>1
  <2> QED BY <2>1, <2>2 DEF Sound
<1>4. proc' \in [Boots -> DbPlaces] /\ Boots1' /\ AloneAtRestore'
  <2>1. proc[p] \in Restoring /\ pc \in DbPlaces
    BY <1>1 DEF DbPlaces, Restoring
  <2> QED BY <1>1, <1>2, <1>3, <2>1, ProcAtHand, ProcMoves DEF Restoring
<1>5. \A q \in Boots : proc[q] = "serve" => proc'[q] = "serve"
  BY <1>1, ProcAtHand
<1>6. OneUpload'
  BY <1>1, <1>5, UploadStays DEF DatabaseInv
<1>7. RowsSafe'
  BY <1>1, RowsStay DEF DatabaseInv
<1>8. backups' \subseteq Files
  BY <1>1, ProcAtHand
<1> QED
  BY <1>1, <1>4, <1>6, <1>7, <1>8 DEF DatabaseInv, DatabaseTypes

\* The restore replaces the database: the copy has its rows.
LEMMA DbReplace ==
  ASSUME DatabaseInv, NEW p \in Boots, Database!Replace(p)
  PROVE  DatabaseInv'
<1>1. /\ proc[p] = "replace" /\ proc' = [proc EXCEPT ![p] = "lock"]
      /\ db' = [rev |-> pending.rev, rows |-> pending.rows] /\ pending' = NoFile
      /\ UNCHANGED <<backups, migrating, upload, write, count, dropped, faults>>
  BY DEF Database!Replace, Database!Go, Database!NoDb, NoFile
<1>2. proc[p] \in Restoring /\ \A q \in Boots : q # p => proc[q] = "off"
  BY <1>1, ProcAtHand DEF Restoring
<1>3. pending # NoFile /\ db \in backups /\ migrating # p
  BY <1>1, <1>2, ProcAtHand DEF Sound, Migrating
<1>4. pending \in Uploads /\ pending.rev \in 1 .. Newest
  BY <1>3 DEF DatabaseInv, DatabaseTypes
<1>5. db' \in Files /\ db'.rev \in 1 .. Newest
  <2>1. pending.rows = {} /\ pending.rev \in Int
    BY <1>4, UploadsAre
  <2> QED BY <1>1, <1>4, <2>1 DEF Files
<1>6. Sound(p, "lock", migrating', db', backups', pending')
  BY <1>1, <1>3 DEF Sound, Restoring, Migrating
<1>7. ASSUME NEW q \in Boots, q # p PROVE Sound(q, proc[q], migrating', db', backups', pending')
  <2>1. Sound(q, "off", migrating, db, backups, pending) /\ proc[q] = "off"
    BY <1>2, <1>7 DEF DatabaseInv, Boots1
  <2> QED BY <1>1, <2>1 DEF Sound, Restoring, Migrating
<1>8. proc' \in [Boots -> DbPlaces] /\ Boots1' /\ AloneAtRestore'
  BY <1>1, <1>2, <1>6, <1>7, ProcMoves DEF DbPlaces, Restoring
<1>9. OneUpload'
  BY <1>1, <1>3 DEF DatabaseInv, OneUpload
<1>10. RowsSafe'
  BY <1>1, <1>3, RowsStay DEF DatabaseInv
<1> QED
  BY <1>1, <1>5, <1>8, <1>9, <1>10 DEF DatabaseInv, DatabaseTypes

\* The migration lock is taken; a stale schema is to be copied first.
LEMMA DbLock ==
  ASSUME DatabaseInv, NEW p \in Boots, Database!_migration_lock(p)
  PROVE  DatabaseInv'
<1>1. PICK pc \in Migrating :
        /\ proc[p] = "lock" /\ migrating = 0 /\ migrating' = p /\ proc' = [proc EXCEPT ![p] = pc]
        /\ pc = "upgrade" => db.rev = Newest
        /\ UNCHANGED <<db, backups, pending, upload, write, count, dropped, faults>>
  BY DEF Database!_migration_lock, Database!LockFree, Database!Go, Migrating
<1>2. pc \in DbPlaces /\ pc \notin Restoring /\ pc # "serve"
  BY <1>1 DEF DbPlaces, Restoring, Migrating
<1>3. Sound(p, pc, migrating', db', backups', pending')
  BY <1>1, <1>2 DEF Sound, Restoring
<1>4. ASSUME NEW q \in Boots, q # p PROVE Sound(q, proc[q], migrating', db', backups', pending')
  <2>1. Sound(q, proc[q], migrating, db, backups, pending) /\ q # 0
    BY <1>4, ProcAtHand
  <2>2. migrating # q /\ migrating' # q
    BY <1>1, <1>4, <2>1
  <2> QED BY <1>1, <2>1, <2>2 DEF Sound
<1>5. \A q \in Boots : q # p => proc[q] \notin Restoring
  BY <1>1, ProcAtHand
<1>6. proc' \in [Boots -> DbPlaces] /\ Boots1' /\ AloneAtRestore'
  BY <1>1, <1>2, <1>3, <1>4, <1>5, ProcMoves
<1>7. \A q \in Boots : proc[q] = "serve" => proc'[q] = "serve"
  BY <1>1, ProcAtHand
<1>8. OneUpload'
  BY <1>1, <1>7, UploadStays DEF DatabaseInv
<1> QED
  BY <1>1, <1>6, <1>8 DEF DatabaseInv, DatabaseTypes, RowsSafe

\* The stale schema is copied, or the boot fails.
LEMMA DbCopy ==
  ASSUME DatabaseInv, NEW p \in Boots, Database!create_pre_migration_backup(p)
  PROVE  DatabaseInv'
<1>1. PICK pc \in {"upgrade", "off"} :
        /\ proc[p] = "backup" /\ proc' = [proc EXCEPT ![p] = pc]
        /\ backups' \in {backups, backups \cup {db}} /\ (pc = "upgrade" => db \in backups')
        /\ migrating' = IF pc = "off" THEN 0 ELSE migrating
        /\ faults \subseteq faults'
        /\ UNCHANGED <<db, pending, upload, write, count, dropped>>
  BY DEF Database!create_pre_migration_backup, Database!Go, Database!Meets
<1>2. migrating = p /\ p # 0
  BY <1>1, ProcAtHand DEF Sound, Migrating
<1>3. Sound(p, pc, migrating', db', backups', pending')
  BY <1>1, <1>2 DEF Sound, Restoring, Migrating
<1>4. ASSUME NEW q \in Boots, q # p PROVE Sound(q, proc[q], migrating', db', backups', pending')
  <2>1. Sound(q, proc[q], migrating, db, backups, pending) /\ q # 0
    BY <1>4, ProcAtHand
  <2>2. migrating # q /\ migrating' # q
    BY <1>1, <1>2, <1>4, <2>1
  <2>3. backups \subseteq backups' /\ db' = db /\ pending' = pending
    BY <1>1
  <2> QED BY <2>1, <2>2, <2>3 DEF Sound
<1>5. \A q \in Boots : q # p => proc[q] \notin Restoring
  BY <1>1, ProcAtHand
<1>6. proc' \in [Boots -> DbPlaces] /\ Boots1' /\ AloneAtRestore'
  <2>1. pc \in DbPlaces /\ pc \notin Restoring
    BY <1>1 DEF DbPlaces, Restoring
  <2> QED BY <1>1, <2>1, <1>3, <1>4, <1>5, ProcMoves
<1>7. \A q \in Boots : proc[q] = "serve" => proc'[q] = "serve"
  BY <1>1, ProcAtHand
<1>8. OneUpload'
  BY <1>1, <1>7, UploadStays DEF DatabaseInv
<1>9. RowsSafe'
  BY <1>1, RowsStay DEF DatabaseInv
<1>10. backups' \subseteq Files
  BY <1>1, ProcAtHand
<1> QED
  BY <1>1, <1>6, <1>8, <1>9, <1>10 DEF DatabaseInv, DatabaseTypes

\* A database of the newest schema suits whoever does not restore.
LEMMA NewestSuits ==
  ASSUME NEW q, NEW pc, NEW m, NEW d, NEW e, NEW k, NEW n,
         Sound(q, pc, m, d, k, n), pc \notin Restoring, e.rev = Newest
  PROVE  Sound(q, pc, m, e, k, n)
BY DEF Sound, Restoring

\* The schema is migrated, and its process serves.
LEMMA DbUpgrade ==
  ASSUME DatabaseInv, NEW p \in Boots, Database!Upgrade(p)
  PROVE  DatabaseInv'
<1>1. /\ proc[p] = "upgrade" /\ proc' = [proc EXCEPT ![p] = "serve"]
      /\ db' = [db EXCEPT !.rev = Newest] /\ migrating' = 0
      /\ UNCHANGED <<backups, pending, upload, write, count, dropped, faults>>
  BY DEF Database!Upgrade, Database!Go
<1>2. migrating = p /\ p # 0
  BY <1>1, ProcAtHand DEF Sound, Migrating
<1>3. db' \in Files /\ db'.rev = Newest /\ db'.rev \in 1 .. Newest /\ db'.rows = db.rows
  BY <1>1, ProcAtHand, DatabaseAssumption DEF Files
<1>4. Sound(p, "serve", migrating', db', backups', pending')
  BY <1>1, <1>2, <1>3 DEF Sound, Restoring, Migrating
<1>5. \A q \in Boots : q # p => proc[q] \notin Restoring
  BY <1>1, ProcAtHand
<1>6. ASSUME NEW q \in Boots, q # p PROVE Sound(q, proc[q], migrating', db', backups', pending')
  <2>1. Sound(q, proc[q], migrating, db, backups, pending) /\ q # 0 /\ proc[q] \notin Restoring
    BY <1>5, <1>6, ProcAtHand
  <2>2. Sound(q, proc[q], migrating', db, backups, pending)
    BY <1>1, <1>2, <1>6, <2>1 DEF Sound
  <2> QED BY <1>1, <1>3, <2>1, <2>2, NewestSuits
<1>7. proc' \in [Boots -> DbPlaces] /\ Boots1' /\ AloneAtRestore'
  BY <1>1, <1>4, <1>5, <1>6, ProcMoves DEF DbPlaces, Restoring
<1>8. \A q \in Boots : proc[q] = "serve" => proc'[q] = "serve"
  BY <1>1, ProcAtHand
<1>9. OneUpload'
  BY <1>1, <1>8, UploadStays DEF DatabaseInv
<1>10. RowsSafe'
  BY <1>1, <1>3, RowsStay DEF DatabaseInv
<1> QED
  BY <1>1, <1>3, <1>7, <1>9, <1>10 DEF DatabaseInv, DatabaseTypes

\* A process ends, and its lock with it; the last one that serves takes the
\* upload and the write with it.
LEMMA DbStop ==
  ASSUME DatabaseInv, NEW p \in Boots, Database!Stop(p)
  PROVE  DatabaseInv'
<1>1. /\ proc' = [proc EXCEPT ![p] = "off"] /\ faults \subseteq faults'
      /\ migrating' = IF migrating = p THEN 0 ELSE migrating
      /\ write' \in {write, [pc |-> "idle", tries |-> 0]}
      /\ upload' = IF Database!Serving = {p} THEN Database!NoUpload ELSE upload
      /\ UNCHANGED <<db, backups, pending, count, dropped>>
  BY DEF Database!Stop, Database!Go, Database!Meets
<1>2. p # 0 /\ proc \in [Boots -> DbPlaces]
  BY ProcAtHand
<1>3. Sound(p, "off", migrating', db', backups', pending')
  BY <1>1, <1>2 DEF Sound, Restoring, Migrating
<1>4. ASSUME NEW q \in Boots, q # p PROVE Sound(q, proc[q], migrating', db', backups', pending')
  <2>1. Sound(q, proc[q], migrating, db, backups, pending) /\ q # 0
    BY <1>4, ProcAtHand
  <2>2. migrating = q <=> migrating' = q
    BY <1>1, <1>4, <2>1
  <2> QED BY <1>1, <2>1, <2>2 DEF Sound
<1>5. proc' \in [Boots -> DbPlaces] /\ Boots1' /\ AloneAtRestore'
  BY <1>1, <1>3, <1>4, ProcMoves DEF DbPlaces, Restoring
<1>6. OneUpload'
  <2>1. CASE Database!Serving = {p}
    BY <1>1, <2>1 DEF DatabaseInv, OneUpload, Database!NoUpload
  <2>2. CASE Database!Serving # {p}
    <3>1. upload' = upload
      BY <1>1, <2>2
    <3>2. ASSUME \E q \in Boots : proc[q] = "serve" PROVE \E q \in Boots : proc'[q] = "serve"
      <4>1. PICK q \in Boots : proc[q] = "serve" /\ q # p
        BY <2>2, <3>2 DEF Database!Serving
      <4> QED BY <1>1, <1>2, <4>1
    <3> QED BY <1>1, <3>1, <3>2 DEF DatabaseInv, OneUpload
  <2> QED BY <2>1, <2>2
<1>7. /\ upload' = [pc |-> upload'.pc, file |-> upload'.file, abandoned |-> upload'.abandoned]
      /\ write' \in [pc : {"idle", "try"}, tries : Nat] /\ write'.tries <= DEFAULT_ATTEMPTS
  <2>1. upload' = [pc |-> upload'.pc, file |-> upload'.file, abandoned |-> upload'.abandoned]
    BY <1>1 DEF DatabaseInv, DatabaseTypes, Database!NoUpload
  <2>2. write' \in [pc : {"idle", "try"}, tries : Nat] /\ write'.tries <= DEFAULT_ATTEMPTS
    BY <1>1, DatabaseAssumption DEF DatabaseInv, DatabaseTypes
  <2> QED BY <2>1, <2>2
<1> QED
  BY <1>1, <1>5, <1>6, <1>7 DEF DatabaseInv, DatabaseTypes, RowsSafe

\* A write begins.
LEMMA DbBeginWrite ==
  ASSUME DatabaseInv, Database!BeginWrite
  PROVE  DatabaseInv'
<1>1. /\ write' = [pc |-> "try", tries |-> 1]
      /\ UNCHANGED <<db, backups, pending, proc, migrating, upload, count, dropped, faults>>
  BY DEF Database!BeginWrite
<1>2. write' \in [pc : {"idle", "try"}, tries : Nat] /\ write'.tries <= DEFAULT_ATTEMPTS
  BY <1>1, DatabaseAssumption
<1>3. Boots1' /\ AloneAtRestore' /\ RowsSafe'
  BY <1>1, ServedStays
<1>4. OneUpload'
  BY <1>1, UploadStays DEF DatabaseInv
<1> QED
  BY <1>1, <1>2, <1>3, <1>4 DEF DatabaseInv, DatabaseTypes

\* A write is committed while somebody serves, so nobody restores; or it is
\* tried again.
LEMMA DbWrite ==
  ASSUME DatabaseInv, Database!write_with_retry
  PROVE  DatabaseInv'
<1>1. /\ Database!Serving # {} /\ faults \subseteq faults'
      /\ UNCHANGED <<backups, pending, proc, migrating, upload, dropped>>
  BY DEF Database!write_with_retry, Database!Meets
<1>2. write \in [pc : {"idle", "try"}, tries : Nat] /\ write.tries <= DEFAULT_ATTEMPTS /\ count \in Nat
      /\ db \in Files /\ db.rev \in 1 .. Newest /\ proc \in [Boots -> DbPlaces]
  BY DEF DatabaseInv, DatabaseTypes
<1>3. write' \in [pc : {"idle", "try"}, tries : Nat] /\ write'.tries <= DEFAULT_ATTEMPTS
  <2>1. CASE write' = [pc |-> "idle", tries |-> 0]
    BY <2>1, DatabaseAssumption
  <2>2. CASE write' # [pc |-> "idle", tries |-> 0]
    <3> DEFINE n == write.tries + 1
    <3>1. ~(write.tries >= DEFAULT_ATTEMPTS) /\ write' = [write EXCEPT !.tries = n]
      BY <2>2 DEF Database!write_with_retry
    <3>2. n \in Nat /\ n <= DEFAULT_ATTEMPTS
      BY <1>2, <3>1, DatabaseAssumption
    <3> HIDE DEF n
    <3> QED BY <1>2, <3>1, <3>2
  <2> QED BY <2>1, <2>2
<1>4. OneUpload'
  BY <1>1, UploadStays DEF DatabaseInv
<1>5. ASSUME UNCHANGED <<db, count>> PROVE DatabaseInv'
  <2>1. Boots1' /\ AloneAtRestore' /\ RowsSafe'
    BY <1>1, <1>5, ServedStays
  <2> QED BY <1>1, <1>3, <1>4, <1>5, <2>1 DEF DatabaseInv, DatabaseTypes
<1>6. ASSUME db' = [db EXCEPT !.rows = @ \cup {count + 1}], count' = count + 1 PROVE DatabaseInv'
  <2> DEFINE n == count + 1
  <2>1. n \in Nat /\ count' = n /\ db' = [db EXCEPT !.rows = @ \cup {n}]
    BY <1>2, <1>6
  <2>2. \A m \in 1 .. n : m \in 1 .. count \/ m = n
    BY <1>2
  <2> HIDE DEF n
  <2>3. db' \in Files /\ db'.rev = db.rev /\ db'.rows = db.rows \cup {n}
    BY <1>2, <2>1 DEF Files
  <2>4. PICK p \in Boots : proc[p] = "serve"
    BY <1>1 DEF Database!Serving
  <2>5. db.rev = Newest
    BY <2>4 DEF DatabaseInv, Boots1, Sound
  <2>6. \A q \in Boots : proc[q] \notin Restoring
    <3>1. "serve" \notin Restoring /\ "serve" # "off"
      BY DEF Restoring
    <3> QED BY <2>4, <3>1 DEF DatabaseInv, AloneAtRestore
  <2>7. Boots1'
    <3>1. ASSUME NEW q \in Boots PROVE Sound(q, proc[q], migrating, db', backups, pending)
      <4>1. Sound(q, proc[q], migrating, db, backups, pending)
        BY <3>1 DEF DatabaseInv, Boots1
      <4> QED BY <2>3, <2>5, <2>6, <3>1, <4>1, NewestSuits
    <3> QED BY <1>1, <3>1 DEF Boots1
  <2>8. RowsSafe'
    <3>1. ASSUME NEW m \in 1 .. n PROVE Safe(m, db', backups)
      <4>1. CASE m = n
        BY <2>3, <4>1 DEF Safe
      <4>2. CASE m \in 1 .. count
        BY <2>3, <4>2 DEF DatabaseInv, RowsSafe, Safe
      <4> QED BY <2>2, <3>1, <4>1, <4>2
    <3> QED BY <1>1, <2>1, <3>1 DEF RowsSafe
  <2> QED BY <1>1, <1>2, <1>3, <1>4, <2>1, <2>3, <2>7, <2>8 DEF DatabaseInv, DatabaseTypes, AloneAtRestore
<1> QED
  BY <1>5, <1>6 DEF Database!write_with_retry

\* A copy is made while the server runs.
LEMMA DbBackup ==
  ASSUME DatabaseInv, Database!create_backup
  PROVE  DatabaseInv'
<1>1. /\ backups' = backups \cup {db} /\ faults \subseteq faults'
      /\ UNCHANGED <<db, pending, proc, migrating, upload, write, count, dropped>>
  BY DEF Database!create_backup, Database!_create_snapshot, Database!Meets
<1>2. Boots1' /\ AloneAtRestore' /\ RowsSafe'
  BY <1>1, ServedStays
<1>3. OneUpload'
  BY <1>1, UploadStays DEF DatabaseInv
<1>4. backups' \subseteq Files
  BY <1>1 DEF DatabaseInv, DatabaseTypes
<1> QED
  BY <1>1, <1>2, <1>3, <1>4 DEF DatabaseInv, DatabaseTypes

\* The one upload begins.
LEMMA DbBeginUpload ==
  ASSUME DatabaseInv, Database!BeginUpload
  PROVE  DatabaseInv'
<1>1. PICK f \in Uploads :
        /\ upload' = [pc |-> "received", file |-> f, abandoned |-> FALSE]
        /\ Database!Serving # {} /\ "upload" \notin faults /\ faults' = faults \cup {"upload"}
        /\ UNCHANGED <<db, backups, pending, proc, migrating, write, count, dropped>>
  BY DEF Database!BeginUpload, Database!Meets
<1>2. Boots1' /\ AloneAtRestore' /\ RowsSafe'
  BY <1>1, ServedStays
<1>3. OneUpload'
  BY <1>1 DEF DatabaseInv, OneUpload, Database!Serving
<1> QED
  BY <1>1, <1>2, <1>3 DEF DatabaseInv, DatabaseTypes

\* An upload is validated, published, refused or given up.
LEMMA DbUpload ==
  ASSUME DatabaseInv, Database!ValidateUpload \/ Database!publish \/ Database!Refused \/ Database!Abandon
  PROVE  DatabaseInv'
<1>1. /\ faults \subseteq faults'
      /\ UNCHANGED <<db, backups, proc, migrating, write, count>>
  BY DEF Database!ValidateUpload, Database!publish, Database!Refused, Database!Abandon, Database!Meets
<1>2. upload = [pc |-> upload.pc, file |-> upload.file, abandoned |-> upload.abandoned] /\ upload.pc # "idle"
  BY DEF DatabaseInv, DatabaseTypes, Database!ValidateUpload, Database!publish, Database!Publishable,
         Database!Refused, Database!Abandon
<1>3. "upload" \in faults /\ pending = NoFile /\ upload.file \in Uploads /\ (\E p \in Boots : proc[p] = "serve")
      /\ (dropped # {} => upload.abandoned) /\ dropped \subseteq Uploads
  BY <1>2 DEF DatabaseInv, OneUpload
<1>4. ASSUME UNCHANGED <<pending, dropped>>,
             \/ upload' = Database!NoUpload
             \/ upload' = [upload EXCEPT !.pc = "valid"] /\ Database!validate_database(upload.file)
      PROVE  DatabaseInv'
  <2>1. Boots1' /\ AloneAtRestore' /\ RowsSafe'
    BY <1>1, <1>4, ServedStays
  <2>2. CASE upload' = Database!NoUpload
    <3>1. upload'.pc = "idle" /\ upload' = [pc |-> upload'.pc, file |-> upload'.file, abandoned |-> upload'.abandoned]
      BY <2>2 DEF Database!NoUpload
    <3>2. OneUpload'
      BY <1>1, <1>3, <1>4, <3>1 DEF OneUpload
    <3> QED BY <1>1, <1>4, <2>1, <3>1, <3>2 DEF DatabaseInv, DatabaseTypes
  <2>3. CASE upload' = [upload EXCEPT !.pc = "valid"] /\ Database!validate_database(upload.file)
    <3>1. upload' = [pc |-> "valid", file |-> upload.file, abandoned |-> upload.abandoned]
      BY <1>2, <2>3
    <3>2. OneUpload'
      BY <1>1, <1>3, <1>4, <2>3, <3>1 DEF OneUpload, Database!validate_database
    <3> QED BY <1>1, <1>4, <2>1, <3>1, <3>2 DEF DatabaseInv, DatabaseTypes
  <2> QED BY <1>4, <2>2, <2>3
<1>5. ASSUME Database!publish PROVE DatabaseInv'
  <2>1. /\ upload.pc = "valid" /\ ~upload.abandoned /\ pending' = upload.file /\ upload' = Database!NoUpload
        /\ dropped' = dropped
    BY <1>5 DEF Database!publish, Database!Publishable
  <2>2. pending' \in Uploads /\ pending'.rev \in 1 .. Newest /\ pending'.intact /\ dropped = {}
    BY <1>3, <2>1 DEF DatabaseInv, OneUpload
  <2>3. Boots1' /\ AloneAtRestore' /\ RowsSafe'
    BY <1>1, <2>2, UploadsAre, ServedStays
  <2>4. upload'.pc = "idle" /\ upload' = [pc |-> upload'.pc, file |-> upload'.file, abandoned |-> upload'.abandoned]
    BY <2>1 DEF Database!NoUpload
  <2>5. OneUpload'
    BY <1>1, <1>3, <2>1, <2>2, <2>4 DEF OneUpload
  <2> QED BY <1>1, <2>2, <2>3, <2>4, <2>5 DEF DatabaseInv, DatabaseTypes
<1>6. ASSUME Database!Abandon PROVE DatabaseInv'
  <2>1. /\ upload' = [pc |-> upload.pc, file |-> upload.file, abandoned |-> TRUE]
        /\ dropped' = dropped \cup {upload.file} /\ pending' = pending
    BY <1>2, <1>6 DEF Database!Abandon
  <2>2. Boots1' /\ AloneAtRestore' /\ RowsSafe'
    BY <1>1, <2>1, ServedStays
  <2>3. OneUpload'
    BY <1>1, <1>3, <2>1 DEF DatabaseInv, OneUpload
  <2> QED BY <1>1, <2>1, <2>2, <2>3 DEF DatabaseInv, DatabaseTypes
<1>7. ASSUME Database!ValidateUpload \/ Database!Refused PROVE DatabaseInv'
  <2>1. UNCHANGED <<pending, dropped>>
    BY <1>7 DEF Database!ValidateUpload, Database!Refused
  <2>2. \/ upload' = Database!NoUpload
        \/ upload' = [upload EXCEPT !.pc = "valid"] /\ Database!validate_database(upload.file)
    BY <1>7 DEF Database!ValidateUpload, Database!Refused
  <2> QED BY <2>1, <2>2, <1>4
<1> QED
  BY <1>5, <1>6, <1>7

\* The first state.
LEMMA DatabaseInit ==
  ASSUME Database!Init
  PROVE  DatabaseInv
<1>1. PICK r \in 1 .. Newest : db = [rev |-> r, rows |-> {}]
  BY DEF Database!Init
<1>2. /\ backups = {} /\ pending = NoFile /\ proc = [p \in Boots |-> "off"] /\ migrating = 0
      /\ upload = [pc |-> "idle", file |-> NoFile, abandoned |-> FALSE]
      /\ write = [pc |-> "idle", tries |-> 0] /\ count = 0 /\ dropped = {} /\ faults = {}
  BY DEF Database!Init, Database!NoDb, Database!NoUpload, NoFile
<1>3. DatabaseTypes
  BY <1>1, <1>2, DatabaseAssumption DEF DatabaseTypes, Files, DbPlaces
<1>4. Boots1 /\ AloneAtRestore
  BY <1>2, DatabaseAssumption DEF Boots1, AloneAtRestore, Sound, Restoring, Migrating
<1>5. RowsSafe /\ OneUpload
  BY <1>2 DEF RowsSafe, OneUpload
<1> QED
  BY <1>3, <1>4, <1>5 DEF DatabaseInv

\* The database's invariant is kept by its steps, and while it rests.
LEMMA DatabaseKeeps ==
  ASSUME DatabaseInv, Database!Next \/ UNCHANGED databaseVars
  PROVE  DatabaseInv'
<1>1. CASE UNCHANGED databaseVars
  BY <1>1 DEF databaseVars, DatabaseInv, DatabaseTypes, Boots1, AloneAtRestore, RowsSafe, OneUpload
<1> QED
  BY <1>1, DbBoot, DbValidate, DbSnapshot, DbReplace, DbLock, DbCopy, DbUpgrade, DbStop, DbBeginWrite, DbWrite,
     DbBackup, DbBeginUpload, DbUpload
  DEF Database!Next, Database!Booting

\* What is promised of the database follows.
LEMMA DatabasePromised ==
  ASSUME DatabaseInv
  PROVE  /\ Database!TypeOK /\ Database!NothingLost
         /\ Database!MigratesOneCopy /\ Database!AbandonedNotStaged
<1>1. Database!TypeOK
  BY DEF DatabaseInv, DatabaseTypes, Database!TypeOK, Database!validate_database, Database!NoDb, NoFile
<1>2. Database!NothingLost
  BY DEF DatabaseInv, RowsSafe, Safe, Database!NothingLost
<1>3. Database!MigratesOneCopy
  <2> DEFINE holders == {p \in Boots : proc[p] \in {"backup", "upgrade"}}
  <2>1. \A a, b \in holders : a = b
    BY DEF DatabaseInv, Boots1, Sound, Migrating
  <2>2. Cardinality(holders) <= 1
    <3> HIDE DEF holders
    <3> QED BY <2>1, AtMostOne
  <2>3. ASSUME NEW p \in Boots, proc[p] = "upgrade", db.rev # Newest
        PROVE  \E b \in backups : b.rev = db.rev /\ db.rows \subseteq b.rows
    BY <2>3 DEF DatabaseInv, Boots1, Sound
  <2>4. Database!Cardinality(holders) = Cardinality(holders)
    BY DEF Cardinality, Database!Cardinality
  <2> QED BY <2>2, <2>3, <2>4 DEF Database!MigratesOneCopy
<1>4. Database!AbandonedNotStaged
  <2>1. CASE pending = NoFile
    BY <2>1, UploadsAre DEF DatabaseInv, OneUpload, Database!AbandonedNotStaged
  <2>2. CASE pending # NoFile
    BY <2>2 DEF DatabaseInv, OneUpload, Database!AbandonedNotStaged
  <2> QED BY <2>1, <2>2
<1> QED
  BY <1>1, <1>2, <1>3, <1>4

-----------------------------------------------------------------------------
(* Sign-in.                                                                *)

AuthPlaces == {"idle", "gate", "account", "open", "auth", "wait", "load", "row", "accepted", "refused", "failed"}
Ages == 0 .. CACHE_TTL_S
AuthRequest == [pc : AuthPlaces, shown : Auth!Shown \cup {Auth!Header(1)}, age : Ages, found : Passwords \cup {0},
                future : {"none", "pending", "done", "cancelled"}, on : Requests \cup {0}]

AuthTypes ==
  /\ credential \in Passwords \cup {0} /\ rows \subseteq Tokens
  /\ known \in [user : Passwords \cup {0}, loaded : BOOLEAN, checked : 0 .. MISCONFIGURED_RECHECK_S]
  /\ cache \in [Auth!Shown -> Ages] /\ missing \in [Auth!Shown -> Ages] /\ lapsed \in [Auth!Shown -> Ages]
  /\ request \in [Requests -> AuthRequest] /\ DOMAIN since = Requests
  /\ inflight \in [Tokens -> Requests \cup {0}]
  /\ admin \in [pc : {"idle", "bump", "know"}, to : Passwords \cup {0}]

\* What is good has not lapsed, and what is remembered lapsed no earlier than
\* the lookup began that it comes from.
Aged ==
  \A s \in Auth!Shown : /\ Auth!Good(s) => lapsed[s] = 0
                        /\ cache[s] < CACHE_TTL_S => lapsed[s] <= cache[s]

\* Request q, with l the ages since each token or header was good: n says that
\* it has grounds to be accepted.  It has while what it shows is good or lapsed
\* within the limit, and still when that is over, once its row was found.
Grounds(q, l, n) ==
  /\ q.pc # "idle" => q.shown \in Auth!Shown /\ (l[q.shown] < CACHE_TTL_S => n)
  /\ q.found = 1 => q.pc = "account" \/ n
  /\ q.found = 1 /\ q.pc = "row" => l[q.shown] <= q.age
  /\ q.pc = "accepted" => n
  /\ q.pc = "wait" => q.on \in Requests
  /\ q.pc \in {"gate", "account"} => q.future = "none"

\* Request q is looking token t up.
LooksUp(q, t) == q.future = "pending" /\ q.pc \in {"load", "row"} /\ q.shown = Auth!Session(t)

Grounded == \A r \in Requests : Grounds(request[r], lapsed, since[r])
Flights == \A t \in Tokens : inflight[t] # 0 => LooksUp(request[inflight[t]], t)

AuthInv == AuthTypes /\ Aged /\ Grounded /\ Flights

\* Growing older keeps an age in its range and the order of two.
LEMMA OlderAge ==
  ASSUME NEW a \in Ages, NEW b \in Ages
  PROVE  /\ Auth!Older(a) \in Ages /\ a <= Auth!Older(a)
         /\ a <= b => Auth!Older(a) <= Auth!Older(b)
         /\ Auth!Older(a) < CACHE_TTL_S => a < CACHE_TTL_S /\ Auth!Older(a) = a + 1
BY AuthAssumption DEF Ages, Auth!Older, Auth!Never

\* The rows say the same of what they said before.
LEMMA GoodStays ==
  ASSUME NEW s, UNCHANGED <<credential, rows, issued, expired>>
  PROVE  Auth!Good(s)' <=> Auth!Good(s)
BY DEF Auth!Good

\* Time passes.
LEMMA AuthTick ==
  ASSUME AuthInv, Auth!Tick
  PROVE  AuthInv'
<1>1. /\ known' = [known EXCEPT !.checked = IF @ < MISCONFIGURED_RECHECK_S THEN @ + 1 ELSE @]
      /\ cache' = [s \in Auth!Shown |-> Auth!Older(cache[s])]
      /\ missing' = [s \in Auth!Shown |-> Auth!Older(missing[s])]
      /\ lapsed' = [s \in Auth!Shown |-> IF Auth!Good(s) THEN 0 ELSE Auth!Older(lapsed[s])]
      /\ request' = [r \in Requests |-> [request[r] EXCEPT !.age =
                       IF request[r].pc \in {"load", "row"} THEN Auth!Older(@) ELSE @]]
      /\ UNCHANGED <<credential, rows, issued, expired, inflight, since, admin>>
  BY DEF Auth!Tick, Auth!account
<1>2. /\ known \in [user : Passwords \cup {0}, loaded : BOOLEAN, checked : 0 .. MISCONFIGURED_RECHECK_S]
      /\ cache \in [Auth!Shown -> Ages] /\ missing \in [Auth!Shown -> Ages] /\ lapsed \in [Auth!Shown -> Ages]
      /\ request \in [Requests -> AuthRequest]
  BY DEF AuthInv, AuthTypes
<1>3. known' \in [user : Passwords \cup {0}, loaded : BOOLEAN, checked : 0 .. MISCONFIGURED_RECHECK_S]
  <2> DEFINE n == IF known.checked < MISCONFIGURED_RECHECK_S THEN known.checked + 1 ELSE known.checked
  <2>1. n \in 0 .. MISCONFIGURED_RECHECK_S
    BY <1>2, AuthAssumption
  <2>2. known' = [known EXCEPT !.checked = n]
    BY <1>1
  <2> HIDE DEF n
  <2> QED BY <1>2, <2>1, <2>2
<1>4. 0 \in Ages
  BY AuthAssumption DEF Ages
<1>5. cache' \in [Auth!Shown -> Ages] /\ missing' \in [Auth!Shown -> Ages] /\ lapsed' \in [Auth!Shown -> Ages]
  BY <1>1, <1>2, <1>4, OlderAge
<1>6. ASSUME NEW r \in Requests
      PROVE  \E a \in Ages : /\ request'[r] = [request[r] EXCEPT !.age = a]
                             /\ request[r].pc = "row" => a = Auth!Older(request[r].age)
  <2> DEFINE a == IF request[r].pc \in {"load", "row"} THEN Auth!Older(request[r].age) ELSE request[r].age
  <2>1. request[r].age \in Ages
    BY <1>2, <1>6 DEF AuthRequest
  <2>2. a \in Ages
    BY <2>1, OlderAge
  <2>3. request'[r] = [request[r] EXCEPT !.age = a] /\ (request[r].pc = "row" => a = Auth!Older(request[r].age))
    BY <1>1, <1>6
  <2> QED BY <2>2, <2>3
<1>7. ASSUME NEW r \in Requests
      PROVE  /\ request'[r] \in AuthRequest
             /\ request'[r].pc = request[r].pc /\ request'[r].shown = request[r].shown
             /\ request'[r].found = request[r].found /\ request'[r].future = request[r].future
             /\ request'[r].on = request[r].on
             /\ request[r].pc = "row" => request'[r].age = Auth!Older(request[r].age)
  <2>1. PICK a \in Ages : /\ request'[r] = [request[r] EXCEPT !.age = a]
                          /\ request[r].pc = "row" => a = Auth!Older(request[r].age)
    BY <1>6, <1>7
  <2>2. request[r] \in AuthRequest
    BY <1>2, <1>7
  <2> QED BY <2>1, <2>2 DEF AuthRequest
<1>8. request' \in [Requests -> AuthRequest]
  <2>1. DOMAIN request' = Requests /\ request' = [r \in Requests |-> request'[r]]
    BY <1>1
  <2> QED BY <1>7, <2>1
<1>9. AuthTypes'
  BY <1>1, <1>3, <1>5, <1>8 DEF AuthInv, AuthTypes
<1>10. Aged'
  <2>1. ASSUME NEW s \in Auth!Shown
        PROVE  /\ Auth!Good(s)' => lapsed'[s] = 0
               /\ cache'[s] < CACHE_TTL_S => lapsed'[s] <= cache'[s]
    <3>1. /\ cache[s] \in Ages /\ lapsed[s] \in Ages /\ cache'[s] = Auth!Older(cache[s])
          /\ lapsed'[s] = IF Auth!Good(s) THEN 0 ELSE Auth!Older(lapsed[s])
      BY <1>1, <1>2, <2>1
    <3>2. Auth!Good(s)' <=> Auth!Good(s)
      BY <1>1, GoodStays
    <3>3. cache[s] < CACHE_TTL_S => lapsed[s] <= cache[s]
      BY <2>1 DEF AuthInv, Aged
    <3>4. cache'[s] \in Ages /\ 0 <= cache'[s]
      BY <3>1, OlderAge DEF Ages
    <3> QED BY <3>1, <3>2, <3>3, <3>4, OlderAge
  <2> QED BY <2>1 DEF Aged
<1>11. Grounded'
  <2>1. ASSUME NEW r \in Requests PROVE Grounds(request'[r], lapsed', since'[r])
    <3> DEFINE q == request[r]
               o == request'[r]
               s == q.shown
    <3>1. Grounds(q, lapsed, since[r]) /\ q.age \in Ages
      BY <1>2, <2>1 DEF AuthInv, Grounded, AuthRequest
    <3>2. /\ o.pc = q.pc /\ o.shown = s /\ o.found = q.found /\ o.on = q.on /\ o.future = q.future /\ since' = since
          /\ q.pc = "row" => o.age = Auth!Older(q.age)
      BY <1>1, <1>7, <2>1
    <3>3. ASSUME q.pc # "idle"
          PROVE  /\ s \in Auth!Shown /\ lapsed[s] \in Ages
                 /\ (lapsed'[s] = 0 /\ lapsed[s] = 0) \/ lapsed'[s] = Auth!Older(lapsed[s])
      <4>1. s \in Auth!Shown
        BY <3>1, <3>3 DEF Grounds
      <4>2. Auth!Good(s) => lapsed[s] = 0
        BY <4>1 DEF AuthInv, Aged
      <4> HIDE DEF s
      <4> QED BY <1>1, <1>2, <4>1, <4>2
    <3> HIDE DEF q, o, s
    <3>4. ASSUME q.pc # "idle", lapsed'[s] < CACHE_TTL_S PROVE lapsed[s] < CACHE_TTL_S
      BY <3>3, <3>4, OlderAge
    <3>5. ASSUME q.pc = "row", lapsed[s] <= q.age PROVE lapsed'[s] <= o.age
      <4>1. o.age = Auth!Older(q.age) /\ 0 <= Auth!Older(q.age)
        BY <3>1, <3>2, <3>5, OlderAge DEF Ages
      <4> QED BY <3>1, <3>3, <3>5, <4>1, OlderAge
    <3>6. Grounds(q, lapsed, since[r]) <=>
            /\ q.pc # "idle" => s \in Auth!Shown /\ (lapsed[s] < CACHE_TTL_S => since[r])
            /\ q.found = 1 => q.pc = "account" \/ since[r]
            /\ q.found = 1 /\ q.pc = "row" => lapsed[s] <= q.age
            /\ q.pc = "accepted" => since[r]
            /\ q.pc = "wait" => q.on \in Requests
            /\ q.pc \in {"gate", "account"} => q.future = "none"
      BY DEF Grounds, s
    <3>7. Grounds(o, lapsed', since'[r])
      BY <3>1, <3>2, <3>4, <3>5, <3>6 DEF Grounds
    <3> QED BY <3>7 DEF o
  <2> QED BY <2>1 DEF Grounded
<1>12. Flights'
  <2>1. ASSUME NEW t \in Tokens, inflight[t] # 0 PROVE LooksUp(request'[inflight[t]], t)
    <3>1. inflight[t] \in Requests /\ LooksUp(request[inflight[t]], t)
      BY <2>1 DEF AuthInv, AuthTypes, Flights
    <3> QED BY <1>7, <3>1 DEF LooksUp
  <2> QED BY <1>1, <2>1 DEF Flights
<1> QED
  BY <1>9, <1>10, <1>11, <1>12 DEF AuthInv

\* The rows change: the ages and the grounds follow, and nothing else moves.
LEMMA AuthNoted ==
  ASSUME AuthInv, Auth!Note(rows', credential'), credential' \in Passwords \cup {0}, rows' \subseteq Tokens,
         admin' \in [pc : {"idle", "bump", "know"}, to : Passwords \cup {0}],
         UNCHANGED <<known, cache, missing, inflight, request>>
  PROVE  AuthInv'
<1> DEFINE good(s) == IF s.kind = "session" THEN s.of \in rows' \ expired' ELSE s.of = credential'
<1>1. /\ lapsed' = [s \in Auth!Shown |-> IF good(s) \/ Auth!Good(s) THEN 0 ELSE lapsed[s]]
      /\ since' = [r \in Requests |-> since[r] \/ (request[r].pc # "idle" /\ good(request[r].shown))]
  BY DEF Auth!Note
<1>2. cache \in [Auth!Shown -> Ages] /\ lapsed \in [Auth!Shown -> Ages] /\ 0 \in Ages
  BY AuthAssumption DEF AuthInv, AuthTypes, Ages
<1>3. ASSUME NEW s \in Auth!Shown
      PROVE  /\ Auth!Good(s)' => lapsed'[s] = 0
             /\ lapsed'[s] \in Ages /\ lapsed'[s] <= lapsed[s]
             /\ lapsed'[s] = lapsed[s] \/ good(s)
  <2>1. Auth!Good(s)' <=> good(s)
    BY DEF Auth!Good
  <2>2. Auth!Good(s) => lapsed[s] = 0
    BY <1>3 DEF AuthInv, Aged
  <2>3. lapsed[s] \in Ages /\ 0 <= lapsed[s] /\ 0 <= 0
    BY <1>2, <1>3 DEF Ages
  <2> HIDE DEF good
  <2>4. lapsed'[s] = IF good(s) \/ Auth!Good(s) THEN 0 ELSE lapsed[s]
    BY <1>1, <1>3
  <2> QED BY <1>2, <2>1, <2>2, <2>3, <2>4 DEF Ages
<1>4. AuthTypes'
  <2>1. lapsed' \in [Auth!Shown -> Ages]
    <3>1. lapsed' = [s \in Auth!Shown |-> lapsed'[s]]
      BY <1>1
    <3> QED BY <1>3, <3>1
  <2>2. DOMAIN since' = Requests
    BY <1>1
  <2> QED BY <2>1, <2>2 DEF AuthInv, AuthTypes
<1>5. Aged'
  <2>1. ASSUME NEW s \in Auth!Shown, cache[s] < CACHE_TTL_S PROVE lapsed'[s] <= cache[s]
    <3>1. lapsed[s] <= cache[s] /\ lapsed[s] \in Int /\ cache[s] \in Int /\ lapsed'[s] \in Int
      BY <1>2, <1>3, <2>1 DEF AuthInv, Aged, Ages
    <3> QED BY <1>3, <2>1, <3>1
  <2> QED BY <1>3, <2>1 DEF Aged
<1>6. ASSUME NEW r \in Requests PROVE Grounds(request[r], lapsed', since'[r])
  <2> DEFINE q == request[r]
  <2>1. Grounds(q, lapsed, since[r]) /\ q.age \in Ages
    BY <1>6 DEF AuthInv, AuthTypes, Grounded, AuthRequest
  <2>2. since'[r] <=> since[r] \/ (q.pc # "idle" /\ good(q.shown))
    BY <1>1, <1>6
  <2>3. ASSUME q.shown \in Auth!Shown
        PROVE  /\ lapsed[q.shown] \in Ages /\ lapsed'[q.shown] \in Ages /\ lapsed'[q.shown] <= lapsed[q.shown]
               /\ lapsed'[q.shown] = lapsed[q.shown] \/ good(q.shown)
    BY <1>2, <1>3, <2>3
  <2> HIDE DEF q, good
  <2>4. q.pc # "idle" => q.shown \in Auth!Shown /\ (lapsed'[q.shown] < CACHE_TTL_S => since'[r])
    BY <2>1, <2>2, <2>3 DEF Grounds
  <2>5. q.found = 1 /\ q.pc = "row" => lapsed'[q.shown] <= q.age
    BY <2>1, <2>3 DEF Grounds, Ages
  <2>6. Grounds(q, lapsed', since'[r])
    BY <2>1, <2>2, <2>4, <2>5 DEF Grounds
  <2> QED BY <2>6 DEF q
<1> QED
  BY <1>4, <1>5, <1>6 DEF AuthInv, Grounded, Flights

\* Sessions come and go, the account changes, here or in another process.
LEMMA AuthChanges ==
  ASSUME AuthInv,
         \/ \E t \in Tokens : Auth!CreateSession(t) \/ Auth!Expire(t) \/ Auth!revoke_session(t)
         \/ \E g \in Passwords : Auth!set_credential(g)
         \/ Auth!clear_credential \/ Auth!revoke_all_sessions
         \/ \E g \in Passwords \cup {0} : Auth!Recover(g)
  PROVE  AuthInv'
<1>1. credential \in Passwords \cup {0} /\ rows \subseteq Tokens
  BY DEF AuthInv, AuthTypes
<1> DEFINE admins == [pc : {"idle", "bump", "know"}, to : Passwords \cup {0}]
<1>0. admin \in admins
  BY DEF AuthInv, AuthTypes
<1>2. ASSUME NEW t \in Tokens, Auth!CreateSession(t) \/ Auth!Expire(t) PROVE AuthInv'
  <2>1. /\ credential' \in Passwords \cup {0} /\ rows' \subseteq Tokens /\ Auth!Note(rows', credential')
        /\ UNCHANGED <<known, cache, missing, inflight, request, admin>>
    <3>1. CASE Auth!CreateSession(t)
      BY <1>1, <1>2, <3>1 DEF Auth!CreateSession, Auth!caches
    <3>2. CASE Auth!Expire(t)
      <4>1. rows' = rows /\ credential' = credential /\ Auth!Note(rows, credential)
        BY <3>2 DEF Auth!Expire
      <4> QED BY <1>1, <3>2, <4>1 DEF Auth!Expire, Auth!caches
    <3> QED BY <1>2, <3>1, <3>2
  <2> QED BY <1>0, <2>1, AuthNoted
<1>3. ASSUME NEW g \in Passwords \cup {0}, NEW kept, Auth!Commit(g, kept) PROVE AuthInv'
  <2>1. /\ credential' = g /\ rows' = rows \cap kept /\ Auth!Note(rows', g)
        /\ UNCHANGED <<known, cache, missing, inflight, request>>
        /\ admin' = [pc |-> IF g = credential THEN "bump" ELSE "know", to |-> g]
    BY <1>3 DEF Auth!Commit, Auth!caches
  <2>2. admin' \in admins
    BY <2>1
  <2> QED BY <1>1, <2>1, <2>2, AuthNoted
<1>4. ASSUME NEW g \in Passwords \cup {0}, Auth!Recover(g) PROVE AuthInv'
  <2>1. /\ credential' = g /\ rows' = {} /\ Auth!Note({}, g)
        /\ UNCHANGED <<known, cache, missing, inflight, request, admin>>
    BY <1>4 DEF Auth!Recover, Auth!caches
  <2> QED BY <1>0, <2>1, AuthNoted
<1> QED
  BY <1>1, <1>2, <1>3, <1>4 DEF Auth!revoke_session, Auth!set_credential, Auth!clear_credential, Auth!revoke_all_sessions

\* What one request does, while the rows are as they were: it goes on as q, and
\* no other is touched.
AuthGoes(r, q) ==
  /\ request' = [request EXCEPT ![r] = q]
  /\ DOMAIN since' = Requests /\ \A u \in Requests : u # r => since'[u] = since[u]
  /\ UNCHANGED <<credential, rows, issued, expired, lapsed, admin>>

\* The lookups j after a step: over, another request's, or its own.
FlightsOf(r, p, q, i, j) ==
  /\ j \in [Tokens -> Requests \cup {0}]
  /\ \A t \in Tokens : \/ j[t] = 0
                       \/ j[t] = i[t] /\ (LooksUp(p, t) => LooksUp(q, t))
                       \/ j[t] = r /\ LooksUp(q, t)

\* The caches after a step.
CachesOf(l, c, m) ==
  /\ c \in [Auth!Shown -> Ages] /\ m \in [Auth!Shown -> Ages]
  /\ \A s \in Auth!Shown : c[s] < CACHE_TTL_S => l[s] <= c[s]

Knowledge == [user : Passwords \cup {0}, loaded : BOOLEAN, checked : 0 .. MISCONFIGURED_RECHECK_S]

\* A step of one request.
LEMMA AuthMove ==
  ASSUME AuthInv, NEW r \in Requests, NEW q \in AuthRequest, AuthGoes(r, q), Grounds(q, lapsed, since'[r]),
         FlightsOf(r, request[r], q, inflight, inflight'), known' \in Knowledge, CachesOf(lapsed, cache', missing')
  PROVE  AuthInv'
<1>1. request \in [Requests -> AuthRequest] /\ DOMAIN since = Requests
  BY DEF AuthInv, AuthTypes
<1>2. /\ request' \in [Requests -> AuthRequest] /\ DOMAIN since' = Requests
      /\ request'[r] = q
      /\ \A u \in Requests : u # r => request'[u] = request[u] /\ since'[u] = since[u]
      /\ UNCHANGED <<credential, rows, issued, expired, lapsed, admin>>
  BY <1>1 DEF AuthGoes
<1>3. AuthTypes'
  BY <1>2 DEF AuthInv, AuthTypes, Knowledge, CachesOf, FlightsOf
<1>4. Aged'
  <2>1. ASSUME NEW s \in Auth!Shown PROVE Auth!Good(s)' => lapsed'[s] = 0
    BY <1>2, <2>1, GoodStays DEF AuthInv, Aged
  <2> QED BY <1>2, <2>1 DEF Aged, CachesOf
<1>5. Grounded'
  BY <1>2 DEF AuthInv, Grounded
<1>6. Flights'
  <2>1. ASSUME NEW t \in Tokens, inflight'[t] # 0 PROVE LooksUp(request'[inflight'[t]], t)
    <3>1. CASE inflight'[t] = r /\ LooksUp(q, t)
      BY <1>2, <3>1
    <3>2. CASE inflight'[t] = inflight[t] /\ (LooksUp(request[r], t) => LooksUp(q, t))
      <4>1. inflight[t] \in Requests /\ LooksUp(request[inflight[t]], t)
        BY <2>1, <3>2 DEF AuthInv, AuthTypes, Flights
      <4> QED BY <1>2, <3>2, <4>1
    <3> QED BY <2>1, <3>1, <3>2 DEF FlightsOf
  <2> QED BY <2>1 DEF Flights
<1> QED
  BY <1>3, <1>4, <1>5, <1>6 DEF AuthInv

\* What is known when a request takes a step.
LEMMA AuthAtHand ==
  ASSUME AuthInv, NEW r \in Requests
  PROVE  /\ request \in [Requests -> AuthRequest] /\ request[r] \in AuthRequest
         /\ Grounds(request[r], lapsed, since[r]) /\ DOMAIN since = Requests
         /\ inflight \in [Tokens -> Requests \cup {0}] /\ known \in Knowledge
         /\ lapsed \in [Auth!Shown -> Ages] /\ CachesOf(lapsed, cache, missing)
BY DEF AuthInv, AuthTypes, Aged, Grounded, Knowledge, CachesOf

\* A step that leaves the lookups, the caches and the account alone, and takes
\* no lookup back.
LEMMA AuthOn ==
  ASSUME AuthInv, NEW r \in Requests, NEW q \in AuthRequest, AuthGoes(r, q), Grounds(q, lapsed, since'[r]),
         UNCHANGED <<known, cache, missing, inflight>>, request[r].pc \notin {"load", "row"}
  PROVE  AuthInv'
<1>1. FlightsOf(r, request[r], q, inflight, inflight')
  BY AuthAtHand DEF FlightsOf, LooksUp
<1>2. known' \in Knowledge /\ CachesOf(lapsed, cache', missing')
  BY AuthAtHand
<1> QED
  BY <1>1, <1>2, AuthMove

\* A request goes to another place and is the same otherwise.
LEMMA AuthPlace ==
  ASSUME AuthInv, NEW r \in Requests, NEW pc \in AuthPlaces, Auth!Goto(r, pc)
  PROVE  \E q \in AuthRequest :
            /\ request' = [request EXCEPT ![r] = q]
            /\ q.pc = pc /\ q.shown = request[r].shown /\ q.age = request[r].age /\ q.found = request[r].found
            /\ q.future = request[r].future /\ q.on = request[r].on
<1> DEFINE q == [request[r] EXCEPT !.pc = pc]
<1>1. request' = [request EXCEPT ![r] = q]
  BY DEF Auth!Goto
<1>2. /\ q \in AuthRequest
      /\ q.pc = pc /\ q.shown = request[r].shown /\ q.age = request[r].age /\ q.found = request[r].found
      /\ q.future = request[r].future /\ q.on = request[r].on
  BY AuthAtHand DEF AuthRequest
<1> QED
  BY <1>1, <1>2

\* A request at rest.
LEMMA IdleRequest ==
  /\ Auth!Idle \in AuthRequest /\ Auth!Idle.pc = "idle" /\ Auth!Idle.found = 0
  /\ Auth!Idle.future = "none"
<1>1. Auth!Idle = [pc |-> "idle", shown |-> Auth!Header(1), age |-> 0, found |-> 0, future |-> "none", on |-> 0]
  BY DEF Auth!Idle, Auth!Nobody
<1>2. 0 \in Ages
  BY AuthAssumption DEF Ages
<1> QED
  BY <1>1, <1>2 DEF AuthRequest, AuthPlaces

\* A request comes: it has grounds if what it shows was good within the limit.
LEMMA AuthArrive ==
  ASSUME AuthInv, NEW r \in Requests, NEW s \in Auth!Shown, Auth!Arrive(r, s)
  PROVE  AuthInv'
<1> DEFINE q == [Auth!Idle EXCEPT !.pc = "gate", !.shown = s]
<1>1. /\ request[r].pc = "idle" /\ request' = [request EXCEPT ![r] = q]
      /\ since' = [since EXCEPT ![r] = lapsed[s] < CACHE_TTL_S]
      /\ UNCHANGED <<credential, rows, issued, expired, lapsed, admin, known, cache, missing, inflight>>
  BY ZenonT(30) DEF Auth!Arrive, Auth!account, Auth!caches
<1>2. q \in AuthRequest /\ q.pc = "gate" /\ q.shown = s /\ q.found = 0 /\ q.future = "none"
  BY IdleRequest DEF AuthRequest, AuthPlaces
<1> HIDE DEF q
<1>3. AuthGoes(r, q) /\ (since'[r] <=> lapsed[s] < CACHE_TTL_S)
  BY <1>1, AuthAtHand DEF AuthGoes
<1>4. Grounds(q, lapsed, since'[r])
  BY <1>2, <1>3 DEF Grounds
<1> QED
  BY <1>1, <1>2, <1>3, <1>4, AuthOn

\* The gate lets it through, or on to the caches.
LEMMA AuthGate ==
  ASSUME AuthInv, NEW r \in Requests, Auth!Gate(r)
  PROVE  AuthInv'
<1>1. PICK pc \in {"open", "auth"} :
        /\ request[r].pc = "gate" /\ Auth!Goto(r, pc)
        /\ UNCHANGED <<credential, rows, issued, expired, lapsed, admin, since, known, cache, missing, inflight>>
  BY DEF Auth!Gate, Auth!account, Auth!caches
<1>2. PICK q \in AuthRequest :
        /\ request' = [request EXCEPT ![r] = q]
        /\ q.pc = pc /\ q.shown = request[r].shown /\ q.age = request[r].age /\ q.found = request[r].found
        /\ q.future = request[r].future /\ q.on = request[r].on
  <2>1. pc \in AuthPlaces /\ Auth!Goto(r, pc)
    BY <1>1 DEF AuthPlaces
  <2> QED BY <2>1, AuthPlace
<1>3. AuthGoes(r, q)
  BY <1>1, <1>2, AuthAtHand DEF AuthGoes
<1>4. Grounds(q, lapsed, since'[r])
  BY <1>1, <1>2, AuthAtHand DEF Grounds
<1> QED
  BY <1>1, <1>3, <1>4, AuthOn

\* The account is read.
LEMMA AuthReadAccount ==
  ASSUME AuthInv, NEW r \in Requests, Auth!ReadAccount(r)
  PROVE  AuthInv'
<1> DEFINE q == [request[r] EXCEPT !.pc = "account", !.found = credential]
<1>1. /\ request[r].pc = "gate" /\ request' = [request EXCEPT ![r] = q]
      /\ known' = IF known.loaded THEN [known EXCEPT !.checked = 0] ELSE known
      /\ UNCHANGED <<credential, rows, issued, expired, lapsed, admin, since, cache, missing, inflight>>
  BY DEF Auth!ReadAccount, Auth!account, Auth!caches
<1>2. credential \in Passwords \cup {0}
  BY DEF AuthInv, AuthTypes
<1>3. q \in AuthRequest /\ q.pc = "account" /\ q.shown = request[r].shown /\ q.future = request[r].future
  BY <1>2, AuthAtHand DEF AuthRequest, AuthPlaces
<1>4. AuthGoes(r, q)
  BY <1>1, AuthAtHand DEF AuthGoes
<1>5. Grounds(q, lapsed, since'[r])
  <2> HIDE DEF q
  <2> QED BY <1>1, <1>3, AuthAtHand DEF Grounds
<1>6. known' \in Knowledge
  <2>1. 0 \in 0 .. MISCONFIGURED_RECHECK_S
    BY AuthAssumption
  <2> QED BY <1>1, <2>1, AuthAtHand DEF Knowledge
<1>7. FlightsOf(r, request[r], q, inflight, inflight') /\ CachesOf(lapsed, cache', missing')
  <2> HIDE DEF q
  <2> QED BY <1>1, AuthAtHand DEF FlightsOf, LooksUp
<1> QED
  BY <1>3, <1>4, <1>5, <1>6, <1>7, AuthMove

\* A bump: what is remembered of "gone" is dropped, the lookups are cancelled.
LEMMA AuthBump ==
  ASSUME AuthInv, NEW gone, request' \in [Requests -> AuthRequest], Auth!Forget(gone), known' \in Knowledge,
         \A u \in Requests : Grounds(request'[u], lapsed, since[u]),
         admin' \in [pc : {"idle", "bump", "know"}, to : Passwords \cup {0}],
         UNCHANGED <<credential, rows, issued, expired, lapsed, since>>
  PROVE  AuthInv'
<1>1. /\ cache' = [s \in Auth!Shown |-> IF s \in gone THEN CACHE_TTL_S ELSE cache[s]]
      /\ missing' = [s \in Auth!Shown |-> IF s \in gone THEN CACHE_TTL_S ELSE missing[s]]
      /\ inflight' = [t \in Tokens |-> 0]
  BY DEF Auth!Forget, Auth!Never, Auth!NoFlight, Auth!Nobody
<1>2. CACHE_TTL_S \in Ages /\ ~(CACHE_TTL_S < CACHE_TTL_S)
  BY AuthAssumption DEF Ages
<1>3. AuthTypes'
  <2>1. cache' \in [Auth!Shown -> Ages] /\ missing' \in [Auth!Shown -> Ages]
    BY <1>1, <1>2 DEF AuthInv, AuthTypes
  <2> QED BY <1>1, <2>1 DEF AuthInv, AuthTypes, Knowledge
<1>4. Aged'
  <2>1. ASSUME NEW s \in Auth!Shown PROVE Auth!Good(s)' => lapsed'[s] = 0
    BY <2>1, GoodStays DEF AuthInv, Aged
  <2> QED BY <1>1, <1>2, <2>1 DEF AuthInv, Aged
<1>5. Grounded' /\ Flights'
  BY <1>1 DEF Grounded, Flights
<1> QED
  BY <1>3, <1>4, <1>5 DEF AuthInv

\* A request that is released from its lookup is the same otherwise.
LEMMA AuthReleased ==
  ASSUME AuthInv
  PROVE  /\ Auth!Released \in [Requests -> AuthRequest]
         /\ \A u \in Requests : Grounds(Auth!Released[u], lapsed, since[u]) /\ Auth!Released[u].pc = request[u].pc
<1>1. ASSUME NEW u \in Requests
      PROVE  /\ Auth!Released[u] \in AuthRequest /\ Grounds(Auth!Released[u], lapsed, since[u])
             /\ Auth!Released[u].pc = request[u].pc
  <2>1. PICK f \in {request[u].future, "cancelled"} :
          Auth!Released[u] = [request[u] EXCEPT !.future = f] /\ (f = request[u].future \/ request[u].future = "pending")
    BY <1>1 DEF Auth!Released
  <2> DEFINE q == Auth!Released[u]
  <2>2. /\ q \in AuthRequest /\ q.pc = request[u].pc /\ q.shown = request[u].shown /\ q.age = request[u].age
        /\ q.found = request[u].found /\ q.on = request[u].on
        /\ q.future = request[u].future \/ request[u].future = "pending"
    BY <1>1, <2>1, AuthAtHand DEF AuthRequest
  <2> HIDE DEF q
  <2>3. Grounds(q, lapsed, since[u])
    BY <1>1, <2>2, AuthAtHand DEF Grounds
  <2> QED BY <2>2, <2>3 DEF q
<1> QED
  BY <1>1 DEF Auth!Released

\* The user name of an account.
LEMMA UserNames ==
  ASSUME NEW g \in Passwords \cup {0}
  PROVE  Auth!Username(g) \in Passwords \cup {0}
<1>1. Names[1] = 1 /\ Names[2] = 1
  BY DEF Names
<1>2. g = 0 \/ g = 1 \/ g = 2
  BY AuthAssumption
<1> HIDE DEF Names
<1> QED
  BY <1>1, <1>2, AuthAssumption DEF Auth!Username

\* What was read of the account becomes what is known; if it is another one
\* everything remembered goes.
LEMMA AuthKnow ==
  ASSUME AuthInv, NEW r \in Requests, Auth!KnowAccount(r)
  PROVE  AuthInv'
<1> DEFINE user == Auth!Username(request[r].found)
<1>1. /\ request[r].pc = "account"
      /\ known' = [user |-> user, loaded |-> TRUE, checked |-> IF known.loaded THEN known.checked ELSE 0]
      /\ UNCHANGED <<credential, rows, issued, expired, lapsed, admin, since>>
  BY DEF Auth!KnowAccount, Auth!account
<1>2. user \in Passwords \cup {0}
  <2>1. request[r].found \in Passwords \cup {0}
    BY AuthAtHand DEF AuthRequest
  <2>2. \A g \in Passwords \cup {0} : Auth!Username(g) \in Passwords \cup {0}
    BY UserNames
  <2> QED BY <2>1, <2>2
<1>3. known' \in Knowledge
  <2> HIDE DEF user
  <2>1. 0 \in 0 .. MISCONFIGURED_RECHECK_S
    BY AuthAssumption
  <2> QED BY <1>1, <1>2, <2>1, AuthAtHand DEF Knowledge
<1>4. ASSUME NEW q \in AuthRequest, q.pc = "account", Grounds(q, lapsed, since[r])
      PROVE  /\ [q EXCEPT !.pc = "gate", !.found = 0] \in AuthRequest
             /\ Grounds([q EXCEPT !.pc = "gate", !.found = 0], lapsed, since[r])
  <2> DEFINE o == [q EXCEPT !.pc = "gate", !.found = 0]
  <2>1. o \in AuthRequest /\ o.pc = "gate" /\ o.found = 0 /\ o.shown = q.shown /\ o.future = q.future
    BY DEF AuthRequest, AuthPlaces
  <2>2. Grounds(o, lapsed, since[r])
    <3> HIDE DEF o
    <3> QED BY <1>4, <2>1 DEF Grounds
  <2> QED BY <2>1, <2>2
<1>5. ASSUME known.loaded /\ known.user = user PROVE AuthInv'
  <2> DEFINE q == [request[r] EXCEPT !.pc = "gate", !.found = 0]
  <2>1. request' = [request EXCEPT ![r] = q] /\ UNCHANGED <<cache, missing, inflight>>
    BY <1>5 DEF Auth!KnowAccount, Auth!caches
  <2>2. q \in AuthRequest /\ Grounds(q, lapsed, since'[r])
    BY <1>1, <1>4, AuthAtHand
  <2> HIDE DEF q
  <2>3. AuthGoes(r, q)
    BY <1>1, <2>1, AuthAtHand DEF AuthGoes
  <2>4. FlightsOf(r, request[r], q, inflight, inflight') /\ CachesOf(lapsed, cache', missing')
    BY <1>1, <2>1, AuthAtHand DEF FlightsOf, LooksUp
  <2> QED BY <1>3, <2>2, <2>3, <2>4, AuthMove
<1>6. ASSUME ~(known.loaded /\ known.user = user) PROVE AuthInv'
  <2>1. Auth!Forget(Auth!Shown) /\ request' = [Auth!Released EXCEPT ![r].pc = "gate", ![r].found = 0]
    BY <1>6 DEF Auth!KnowAccount
  <2>2. /\ Auth!Released \in [Requests -> AuthRequest]
        /\ \A u \in Requests : Grounds(Auth!Released[u], lapsed, since[u]) /\ Auth!Released[u].pc = request[u].pc
    BY AuthReleased
  <2> DEFINE f == Auth!Released
             q == [f[r] EXCEPT !.pc = "gate", !.found = 0]
  <2>3. q \in AuthRequest /\ Grounds(q, lapsed, since[r])
    BY <1>1, <1>4, <2>2
  <2>4. request' = [f EXCEPT ![r] = q]
    BY <2>1
  <2> HIDE DEF f, q
  <2>5. request' \in [Requests -> AuthRequest] /\ \A u \in Requests : Grounds(request'[u], lapsed, since[u])
    BY <2>2, <2>3, <2>4 DEF f
  <2> QED BY <1>1, <1>3, <2>1, <2>5, AuthBump DEF AuthInv, AuthTypes
<1> QED
  BY <1>5, <1>6

\* The process follows a change to the account.
LEMMA AuthFollow ==
  ASSUME AuthInv, Auth!Follow
  PROVE  AuthInv'
<1> DEFINE user == Auth!Username(admin.to)
<1>1. /\ known' = IF admin.pc = "know" THEN [known EXCEPT !.user = user, !.loaded = TRUE] ELSE known
      /\ Auth!Forget(Auth!Retired) /\ request' = Auth!Released /\ admin' = [admin EXCEPT !.pc = "idle"]
      /\ UNCHANGED <<credential, rows, issued, expired, lapsed, since>>
  BY DEF Auth!Follow, Auth!account
<1>2. admin \in [pc : {"idle", "bump", "know"}, to : Passwords \cup {0}] /\ known \in Knowledge
  BY DEF AuthInv, AuthTypes, Knowledge
<1>3. user \in Passwords \cup {0}
  BY <1>2, UserNames
<1> HIDE DEF user
<1>4. known' \in Knowledge
  BY <1>1, <1>2, <1>3 DEF Knowledge
<1>5. admin' \in [pc : {"idle", "bump", "know"}, to : Passwords \cup {0}]
  BY <1>1, <1>2
<1> QED
  BY <1>1, <1>4, <1>5, AuthReleased, AuthBump

\* From the caches: accepted on what is remembered, which lapsed no earlier;
\* or refused, or sent to wait for a lookup, or to look up itself.
LEMMA AuthAuthenticate ==
  ASSUME AuthInv, NEW r \in Requests, Auth!Authenticate(r)
  PROVE  AuthInv'
<1> DEFINE s == request[r].shown
<1>1. /\ request[r].pc = "auth"
      /\ UNCHANGED <<credential, rows, issued, expired, lapsed, admin, since, known>>
  BY DEF Auth!Authenticate, Auth!account
<1>2. s \in Auth!Shown /\ Grounds(request[r], lapsed, since[r]) /\ request[r] \in AuthRequest
  BY <1>1, AuthAtHand DEF Grounds
<1>3. known' \in Knowledge /\ CachesOf(lapsed, cache, missing) /\ CACHE_TTL_S \in Ages
  BY <1>1, AuthAtHand, AuthAssumption DEF Ages
<1>4. ASSUME NEW pc \in {"accepted", "refused"}, Auth!Goto(r, pc), pc = "accepted" => since[r],
             CachesOf(lapsed, cache', missing'), inflight' = inflight
      PROVE  AuthInv'
  <2>1. pc \in AuthPlaces
    BY <1>4 DEF AuthPlaces
  <2>2. PICK q \in AuthRequest :
          /\ request' = [request EXCEPT ![r] = q]
          /\ q.pc = pc /\ q.shown = request[r].shown /\ q.age = request[r].age /\ q.found = request[r].found
          /\ q.future = request[r].future /\ q.on = request[r].on
    BY <1>4, <2>1, AuthPlace
  <2>3. AuthGoes(r, q)
    BY <1>1, <2>2, AuthAtHand DEF AuthGoes
  <2>4. Grounds(q, lapsed, since'[r])
    BY <1>1, <1>2, <1>4, <2>2 DEF Grounds
  <2>5. FlightsOf(r, request[r], q, inflight, inflight')
    BY <1>1, <1>4, AuthAtHand DEF FlightsOf, LooksUp
  <2> QED BY <1>3, <1>4, <2>3, <2>4, <2>5, AuthMove
<1>5. ASSUME Auth!Goto(r, "refused"), inflight' = inflight, missing' = missing,
             cache' = cache \/ cache' = [cache EXCEPT ![s] = CACHE_TTL_S]
      PROVE  AuthInv'
  <2>1. CachesOf(lapsed, cache', missing')
    BY <1>2, <1>3, <1>5, AuthAssumption DEF CachesOf
  <2> QED BY <1>4, <1>5, <2>1
<1>6. ASSUME Auth!Goto(r, "accepted"), cache[s] < CACHE_TTL_S, UNCHANGED <<cache, missing, inflight>>
      PROVE  AuthInv'
  <2>1. lapsed[s] < CACHE_TTL_S
    <3>1. lapsed[s] \in Ages /\ cache[s] \in Ages /\ lapsed[s] <= cache[s]
      BY <1>2, <1>3, <1>6, AuthAtHand DEF CachesOf
    <3> QED BY <1>6, <3>1, AuthAssumption DEF Ages
  <2>2. since[r]
    BY <1>1, <1>2, <2>1 DEF Grounds
  <2> QED BY <1>3, <1>4, <1>6, <2>2
<1>7. ASSUME s.kind = "session", inflight[s.of] # 0, UNCHANGED <<cache, missing, inflight>>,
             request' = [request EXCEPT ![r].pc = "wait", ![r].on = inflight[s.of]]
      PROVE  AuthInv'
  <2> DEFINE o == inflight[s.of]
             q == [request[r] EXCEPT !.pc = "wait", !.on = o]
  <2>1. request' = [request EXCEPT ![r] = q]
    BY <1>7
  <2>2. o \in Requests
    <3>1. s.of \in Tokens
      BY <1>2, <1>7 DEF Auth!Shown
    <3> QED BY <1>7, <3>1, AuthAtHand
  <2> HIDE DEF o
  <2>3. q \in AuthRequest /\ q.pc = "wait" /\ q.on = o /\ q.shown = s /\ q.found = request[r].found
    BY <1>2, <2>2 DEF AuthRequest, AuthPlaces
  <2> HIDE DEF q
  <2>4. AuthGoes(r, q)
    BY <1>1, <2>1, AuthAtHand DEF AuthGoes
  <2>5. Grounds(q, lapsed, since'[r])
    BY <1>1, <1>2, <2>2, <2>3 DEF Grounds
  <2> QED BY <1>1, <1>7, <2>3, <2>4, <2>5, AuthOn
<1>8. ASSUME request' = [request EXCEPT ![r].pc = "load", ![r].age = 0,
                           ![r].future = IF s.kind = "session" THEN "pending" ELSE "none"],
             inflight' = IF s.kind = "session" THEN [inflight EXCEPT ![s.of] = r] ELSE inflight,
             missing' = [missing EXCEPT ![s] = CACHE_TTL_S], cache' = cache
      PROVE  AuthInv'
  <2> DEFINE f == IF s.kind = "session" THEN "pending" ELSE "none"
             q == [request[r] EXCEPT !.pc = "load", !.age = 0, !.future = f]
  <2>1. request' = [request EXCEPT ![r] = q]
    BY <1>8
  <2>2. f \in {"none", "pending"} /\ 0 \in Ages
    BY AuthAssumption DEF Ages
  <2>3. s.kind = "session" => f = "pending" /\ s.of \in Tokens /\ s = Auth!Session(s.of)
    BY <1>2 DEF Auth!Shown, Auth!Session
  <2> HIDE DEF f
  <2>4. /\ q \in AuthRequest /\ q.pc = "load" /\ q.shown = s /\ q.found = request[r].found
        /\ q.future = f
    BY <1>2, <2>2 DEF AuthRequest, AuthPlaces
  <2> HIDE DEF q
  <2>5. AuthGoes(r, q)
    BY <1>1, <2>1, AuthAtHand DEF AuthGoes
  <2>6. Grounds(q, lapsed, since'[r])
    BY <1>1, <1>2, <2>4 DEF Grounds
  <2>7. CachesOf(lapsed, cache', missing')
    BY <1>2, <1>3, <1>8 DEF CachesOf
  <2>8. FlightsOf(r, request[r], q, inflight, inflight')
    <3>1. CASE s.kind = "session"
      <4>1. LooksUp(q, s.of) /\ inflight' = [inflight EXCEPT ![s.of] = r]
        BY <1>8, <2>3, <2>4, <3>1 DEF LooksUp
      <4> QED BY <1>1, <4>1, AuthAtHand DEF FlightsOf, LooksUp
    <3>2. CASE s.kind # "session"
      BY <1>1, <1>8, <3>2, AuthAtHand DEF FlightsOf, LooksUp
    <3> QED BY <3>1, <3>2
  <2> QED BY <1>3, <2>4, <2>5, <2>6, <2>7, <2>8, AuthMove
<1> QED
  BY <1>5, <1>6, <1>7, <1>8 DEF Auth!Authenticate, Auth!caches, Auth!Never, Auth!Nobody

\* The row is read: what is good has not lapsed, whatever the age of the lookup.
LEMMA AuthReadRow ==
  ASSUME AuthInv, NEW r \in Requests, Auth!ReadRow(r)
  PROVE  AuthInv'
<1> DEFINE s == request[r].shown
           n == IF Auth!Good(s) THEN 1 ELSE 0
           q == [request[r] EXCEPT !.pc = "row", !.found = n]
<1>1. /\ request[r].pc = "load" /\ request' = [request EXCEPT ![r] = q]
      /\ UNCHANGED <<credential, rows, issued, expired, lapsed, admin, since, known, inflight>>
      /\ \/ UNCHANGED <<cache, missing>>
         \/ cache' = [cache EXCEPT ![s] = CACHE_TTL_S] /\ missing' = [missing EXCEPT ![s] = request[r].age]
  BY DEF Auth!ReadRow, Auth!account, Auth!caches, Auth!Never
<1>2. /\ s \in Auth!Shown /\ Grounds(request[r], lapsed, since[r]) /\ request[r] \in AuthRequest
      /\ request[r].age \in Ages
  BY <1>1, AuthAtHand DEF Grounds, AuthRequest
<1>3. /\ n \in Passwords \cup {0}
      /\ n = 1 => lapsed[s] = 0
  BY <1>2, AuthAssumption DEF AuthInv, Aged
<1> HIDE DEF n
<1>4. /\ q \in AuthRequest /\ q.pc = "row" /\ q.shown = s /\ q.found = n /\ q.age = request[r].age
      /\ q.future = request[r].future
  BY <1>2, <1>3 DEF AuthRequest, AuthPlaces
<1> HIDE DEF q
<1>5. AuthGoes(r, q)
  BY <1>1, AuthAtHand DEF AuthGoes
<1>6. Grounds(q, lapsed, since'[r])
  <2>1. n = 1 => lapsed[s] <= q.age /\ since'[r]
    BY <1>1, <1>2, <1>3, <1>4, AuthAssumption DEF Grounds, Ages
  <2> QED BY <1>1, <1>2, <1>4, <2>1 DEF Grounds
<1>7. CachesOf(lapsed, cache', missing')
  <2>1. CACHE_TTL_S \in Ages
    BY AuthAssumption DEF Ages
  <2> QED BY <1>1, <1>2, <2>1, AuthAtHand, AuthAssumption DEF CachesOf
<1>8. FlightsOf(r, request[r], q, inflight, inflight')
  BY <1>1, <1>4, AuthAtHand DEF FlightsOf, LooksUp
<1> QED
  BY <1>1, <1>4, <1>5, <1>6, <1>7, <1>8, AuthAtHand, AuthMove

\* The answer is remembered as of when the lookup began, and given.
LEMMA AuthAnswer ==
  ASSUME AuthInv, NEW r \in Requests, Auth!Answer(r)
  PROVE  AuthInv'
<1> DEFINE s == request[r].shown
           a == request[r].age
<1>1. /\ request[r].pc = "row" /\ Auth!_remember(s, a, request[r].found = 1)
      /\ UNCHANGED <<credential, rows, issued, expired, lapsed, admin, since, known>>
  BY DEF Auth!Answer, Auth!account
<1>2. s \in Auth!Shown /\ Grounds(request[r], lapsed, since[r]) /\ request[r] \in AuthRequest /\ a \in Ages
  BY <1>1, AuthAtHand DEF Grounds, AuthRequest
<1>3. CachesOf(lapsed, cache', missing')
  <2>1. request[r].found = 1 => lapsed[s] <= a
    BY <1>1, <1>2 DEF Grounds
  <2>2. /\ cache' = IF request[r].found = 1 THEN [cache EXCEPT ![s] = a] ELSE cache
        /\ missing' = missing \/ missing' = [missing EXCEPT ![s] = a]
    BY <1>1 DEF Auth!_remember
  <2> HIDE DEF s, a
  <2> QED BY <1>2, <2>1, <2>2, AuthAtHand DEF CachesOf
<1>4. ASSUME NEW q \in AuthRequest, request' = [request EXCEPT ![r] = q],
             q.shown = s, q.found = request[r].found, q.pc \in {"accepted", "refused", "failed"},
             q.pc = "accepted" => request[r].found = 1,
             \/ inflight' = inflight /\ s.kind = "basic"
             \/ inflight' = [inflight EXCEPT ![s.of] = 0] /\ s.kind # "basic"
      PROVE  AuthInv'
  <2>1. AuthGoes(r, q)
    BY <1>1, <1>4, AuthAtHand DEF AuthGoes
  <2>2. Grounds(q, lapsed, since'[r])
    BY <1>1, <1>2, <1>4 DEF Grounds
  <2>3. FlightsOf(r, request[r], q, inflight, inflight')
    <3>1. ASSUME NEW t \in Tokens, LooksUp(request[r], t) PROVE s.kind = "session" /\ s.of = t
      BY <3>1 DEF LooksUp, Auth!Session
    <3>2. CASE inflight' = inflight /\ s.kind = "basic"
      BY <3>1, <3>2, AuthAtHand DEF FlightsOf
    <3>3. CASE inflight' = [inflight EXCEPT ![s.of] = 0]
      BY <3>1, <3>3, AuthAtHand DEF FlightsOf
    <3> QED BY <1>4, <3>2, <3>3
  <2> QED BY <1>1, <1>3, <2>1, <2>2, <2>3, AuthAtHand, AuthMove
<1>5. ASSUME s.kind = "basic" PROVE AuthInv'
  <2> DEFINE pc == IF request[r].found = 1 THEN "accepted" ELSE "refused"
  <2>1. Auth!Goto(r, pc) /\ inflight' = inflight
    BY <1>5 DEF Auth!Answer
  <2>2. pc \in AuthPlaces /\ pc \in {"accepted", "refused"} /\ (pc = "accepted" => request[r].found = 1)
    BY DEF AuthPlaces
  <2> HIDE DEF pc
  <2>3. PICK q \in AuthRequest :
          /\ request' = [request EXCEPT ![r] = q]
          /\ q.pc = pc /\ q.shown = request[r].shown /\ q.age = request[r].age /\ q.found = request[r].found
          /\ q.future = request[r].future /\ q.on = request[r].on
    BY <2>1, <2>2, AuthPlace
  <2> QED BY <1>4, <1>5, <2>1, <2>2, <2>3
<1>6. ASSUME s.kind # "basic" PROVE AuthInv'
  <2> DEFINE pc == IF request[r].future = "cancelled" THEN "failed"
                   ELSE IF request[r].found = 1 THEN "accepted" ELSE "refused"
             f == IF request[r].future = "pending" THEN "done" ELSE request[r].future
             q == [request[r] EXCEPT !.pc = pc, !.age = 0, !.future = f]
  <2>1. request' = [request EXCEPT ![r] = q] /\ inflight' = [inflight EXCEPT ![s.of] = 0]
    BY <1>6 DEF Auth!Answer, Auth!Unregister, Auth!Nobody
  <2>2. /\ pc \in {"accepted", "refused", "failed"} /\ (pc = "accepted" => request[r].found = 1)
        /\ f \in {"none", "pending", "done", "cancelled"} /\ 0 \in Ages
    BY <1>2, AuthAssumption DEF AuthRequest, Ages
  <2> HIDE DEF pc, f
  <2>3. q \in AuthRequest /\ q.pc = pc /\ q.shown = s /\ q.found = request[r].found
    BY <1>2, <2>2 DEF AuthRequest, AuthPlaces
  <2> HIDE DEF q
  <2> QED BY <1>4, <1>6, <2>1, <2>2, <2>3
<1> QED
  BY <1>5, <1>6

\* Who waited takes the answer, and the grounds, of the one that looked up.
LEMMA AuthShare ==
  ASSUME AuthInv, NEW r \in Requests, Auth!Share(r)
  PROVE  AuthInv'
<1> DEFINE o == request[r].on
           pc == IF request[o].future = "cancelled" THEN "failed"
                 ELSE IF request[o].found = 1 THEN "accepted" ELSE "refused"
           q == [request[r] EXCEPT !.on = 0, !.pc = pc]
<1>1. /\ request[r].pc = "wait" /\ request[o].future \in {"done", "cancelled"}
      /\ request' = [request EXCEPT ![r] = q]
      /\ UNCHANGED <<credential, rows, issued, expired, lapsed, admin, known, cache, missing, inflight>>
  BY DEF Auth!Share, Auth!account, Auth!caches, Auth!Nobody
<1>2. since' = [since EXCEPT ![r] = since[r] \/ since[o]]
  BY ZenonT(30) DEF Auth!Share
<1>3. o \in Requests /\ Grounds(request[r], lapsed, since[r]) /\ request[r] \in AuthRequest
  BY <1>1, AuthAtHand DEF Grounds
<1>4. request[o].found = 1 => since[o]
  BY <1>1, <1>3, AuthAtHand DEF Grounds
<1>5. pc \in {"accepted", "refused", "failed"} /\ (pc = "accepted" => since[o])
  BY <1>4
<1> HIDE DEF pc
<1>6. q \in AuthRequest /\ q.pc = pc /\ q.shown = request[r].shown /\ q.found = request[r].found
  BY <1>3, <1>5 DEF AuthRequest, AuthPlaces
<1> HIDE DEF q, o
<1>7. AuthGoes(r, q) /\ (since'[r] <=> since[r] \/ since[o])
  BY <1>1, <1>2, AuthAtHand DEF AuthGoes
<1>8. Grounds(q, lapsed, since'[r])
  BY <1>1, <1>3, <1>5, <1>6, <1>7 DEF Grounds
<1> QED
  BY <1>1, <1>6, <1>7, <1>8, AuthOn

\* The client goes away, and with it the lookup it did.
LEMMA AuthDisconnect ==
  ASSUME AuthInv, NEW r \in Requests, Auth!Disconnect(r)
  PROVE  AuthInv'
<1> DEFINE s == request[r].shown
           f == IF request[r].future = "pending" THEN "cancelled" ELSE request[r].future
           q == [request[r] EXCEPT !.pc = "failed", !.on = 0, !.age = 0, !.future = f]
<1>1. /\ request[r].pc \in {"load", "row", "wait"}
      /\ request' = [request EXCEPT ![r] = q]
      /\ inflight' = IF request[r].future = "pending" THEN [inflight EXCEPT ![s.of] = 0] ELSE inflight
      /\ UNCHANGED <<credential, rows, issued, expired, lapsed, admin, since, known, cache, missing>>
  BY DEF Auth!Disconnect, Auth!account, Auth!caches, Auth!Nobody, Auth!Unregister
<1>2. Grounds(request[r], lapsed, since[r]) /\ request[r] \in AuthRequest
  BY AuthAtHand
<1>3. f \in {"none", "pending", "done", "cancelled"} /\ 0 \in Ages
  BY <1>2, AuthAssumption DEF AuthRequest, Ages
<1> HIDE DEF f
<1>4. q \in AuthRequest /\ q.pc = "failed" /\ q.shown = s /\ q.found = request[r].found
  BY <1>2, <1>3 DEF AuthRequest, AuthPlaces
<1> HIDE DEF q
<1>5. AuthGoes(r, q)
  BY <1>1, AuthAtHand DEF AuthGoes
<1>6. Grounds(q, lapsed, since'[r])
  BY <1>1, <1>2, <1>4 DEF Grounds
<1>7. FlightsOf(r, request[r], q, inflight, inflight')
  <2>1. ASSUME NEW t \in Tokens, LooksUp(request[r], t) PROVE s.of = t /\ request[r].future = "pending"
    BY <2>1 DEF LooksUp, Auth!Session
  <2> QED BY <1>1, <2>1, AuthAtHand DEF FlightsOf
<1> QED
  BY <1>1, <1>4, <1>5, <1>6, <1>7, AuthAtHand, AuthMove

\* The response goes out.
LEMMA AuthRespond ==
  ASSUME AuthInv, NEW r \in Requests, Auth!Respond(r)
  PROVE  AuthInv'
<1>1. /\ request[r].pc \in {"open", "accepted", "refused", "failed"}
      /\ request' = [request EXCEPT ![r] = Auth!Idle] /\ since' = [since EXCEPT ![r] = FALSE]
      /\ UNCHANGED <<credential, rows, issued, expired, lapsed, admin, known, cache, missing, inflight>>
  BY ZenonT(30) DEF Auth!Respond, Auth!account, Auth!caches
<1>2. AuthGoes(r, Auth!Idle)
  BY <1>1, AuthAtHand DEF AuthGoes
<1>3. Grounds(Auth!Idle, lapsed, since'[r])
  BY IdleRequest DEF Grounds
<1> QED
  BY <1>1, <1>2, <1>3, IdleRequest, AuthOn

\* The first state.
LEMMA AuthInit == Auth!Init => AuthInv
<1> SUFFICES ASSUME Auth!Init PROVE AuthInv
  OBVIOUS
<1>1. /\ credential \in {0, 1} /\ rows \in SUBSET Tokens
      /\ known = [user |-> 0, loaded |-> FALSE, checked |-> 0]
      /\ inflight = [t \in Tokens |-> 0]
      /\ cache = [s \in Auth!Shown |-> CACHE_TTL_S] /\ missing = cache
      /\ request = [r \in Requests |-> Auth!Idle] /\ admin = [pc |-> "idle", to |-> 0]
      /\ lapsed = [s \in Auth!Shown |-> IF Auth!Good(s) THEN 0 ELSE CACHE_TTL_S]
      /\ since = [r \in Requests |-> FALSE]
  BY DEF Auth!Init, Auth!NoFlight, Auth!Nobody, Auth!Never
<1>2. 0 \in Ages /\ CACHE_TTL_S \in Ages /\ 0 \in 0 .. MISCONFIGURED_RECHECK_S /\ ~(CACHE_TTL_S < CACHE_TTL_S)
  BY AuthAssumption DEF Ages
<1>3. AuthTypes
  BY <1>1, <1>2, IdleRequest, AuthAssumption DEF AuthTypes
<1>4. Aged
  BY <1>1, <1>2 DEF Aged
<1>5. Grounded /\ Flights
  BY <1>1, IdleRequest DEF Grounded, Grounds, Flights
<1> QED
  BY <1>3, <1>4, <1>5 DEF AuthInv

\* The sign-in's invariant is kept by its steps, and while it rests.
LEMMA AuthKeeps ==
  ASSUME AuthInv, Auth!Next \/ UNCHANGED authVars
  PROVE  AuthInv'
<1>1. CASE UNCHANGED authVars
  <2>1. UNCHANGED <<credential, rows, issued, expired, known, cache, missing, lapsed, request, since, inflight, admin>>
    BY <1>1 DEF authVars
  <2>2. \A s : Auth!Good(s)' <=> Auth!Good(s)
    BY <2>1, GoodStays
  <2> QED BY <2>1, <2>2 DEF AuthInv, AuthTypes, Aged, Grounded, Flights
<1>2. CASE Auth!Next
  <2>1. CASE Auth!Tick
    BY <2>1, AuthTick
  <2>2. ASSUME NEW r \in Requests, Auth!Requesting(r) \/ Auth!Disconnect(r) \/ \E s \in Auth!Shown : Auth!Arrive(r, s)
        PROVE  AuthInv'
    BY <2>2, AuthGate, AuthReadAccount, AuthKnow, AuthAuthenticate, AuthReadRow, AuthAnswer, AuthShare, AuthRespond,
       AuthDisconnect, AuthArrive DEF Auth!Requesting
  <2>3. CASE Auth!Follow
    BY <2>3, AuthFollow
  <2> QED BY <1>2, <2>1, <2>2, <2>3, AuthChanges DEF Auth!Next
<1> QED
  BY <1>1, <1>2

\* What is remembered, or was read and will be, stands: or a revocation overtook
\* it, or the process has not yet followed the one that ended it.
Excused(s) ==
  \/ Auth!Stands(s) \/ s \in raced
  \/ admin.pc = "know" \/ (admin.pc = "bump" /\ s.kind = "session")
Standing ==
  /\ \A s \in Auth!Shown : cache[s] < CACHE_TTL_S => Excused(s)
  /\ \A r \in Requests : request[r].pc = "row" /\ request[r].found = 1 => Excused(request[r].shown)

\* Nothing changes what stands, nothing new is remembered or read.
LEMMA StandingStays ==
  ASSUME Standing, UNCHANGED <<credential, rows, expired, admin, raced>>,
         \A s \in Auth!Shown : cache'[s] < CACHE_TTL_S => cache[s] < CACHE_TTL_S,
         \A r \in Requests : request'[r].pc = "row" /\ request'[r].found = 1 =>
             /\ request[r].pc = "row" /\ request[r].found = 1 /\ request'[r].shown = request[r].shown
  PROVE  Standing'
<1>1. \A s : Excused(s) => Excused(s)'
  BY DEF Excused, Auth!Stands
<1> QED
  BY <1>1 DEF Standing

\* Time passes, or a request does anything but read a row or remember it.
LEMMA StandingKept ==
  ASSUME AuthInv, Standing,
         \/ Auth!Tick
         \/ \E r \in Requests :
              \/ Auth!Gate(r) \/ Auth!ReadAccount(r) \/ Auth!KnowAccount(r) \/ Auth!Authenticate(r)
              \/ Auth!Share(r) \/ Auth!Respond(r) \/ Auth!Disconnect(r) \/ \E s \in Auth!Shown : Auth!Arrive(r, s)
  PROVE  Standing'
<1>1. UNCHANGED <<credential, rows, expired, admin, raced>>
  BY DEF Auth!Tick, Auth!Gate, Auth!ReadAccount, Auth!KnowAccount, Auth!Authenticate, Auth!Share, Auth!Respond,
     Auth!Disconnect, Auth!Arrive, Auth!account
<1>2. request \in [Requests -> AuthRequest] /\ cache \in [Auth!Shown -> Ages] /\ CACHE_TTL_S \in Nat
  BY AuthAssumption DEF AuthInv, AuthTypes
<1>3. CASE Auth!Tick
  <2>1. \A s \in Auth!Shown : cache'[s] < CACHE_TTL_S => cache[s] < CACHE_TTL_S
    BY <1>2, <1>3, OlderAge DEF Auth!Tick
  <2>2. \A r \in Requests : /\ request'[r].pc = request[r].pc /\ request'[r].found = request[r].found
                            /\ request'[r].shown = request[r].shown
    BY <1>2, <1>3 DEF Auth!Tick, AuthRequest
  <2> QED BY <1>1, <2>1, <2>2, StandingStays
<1>4. ASSUME NEW r \in Requests,
             \/ Auth!Gate(r) \/ Auth!ReadAccount(r) \/ Auth!Authenticate(r)
             \/ Auth!Share(r) \/ Auth!Respond(r) \/ Auth!Disconnect(r) \/ \E s \in Auth!Shown : Auth!Arrive(r, s)
      PROVE  Standing'
  <2>1. \A u \in Requests : request'[u].pc = "row" => request'[u] = request[u]
    <3>1. PICK q : request' = [request EXCEPT ![r] = q] /\ q.pc # "row"
      <4>2. \A pc \in AuthPlaces \ {"row"} : Auth!Goto(r, pc) => \E q : request' = [request EXCEPT ![r] = q] /\ q.pc # "row"
        <5>1. ASSUME NEW pc \in AuthPlaces \ {"row"}, Auth!Goto(r, pc)
              PROVE  \E q : request' = [request EXCEPT ![r] = q] /\ q.pc # "row"
          <6> DEFINE q == [request[r] EXCEPT !.pc = pc]
          <6>1. request' = [request EXCEPT ![r] = q] /\ q.pc = pc
            BY <1>2, <5>1 DEF Auth!Goto, AuthRequest
          <6> QED BY <6>1
        <5> QED BY <5>1
      <4>3. CASE Auth!Gate(r)
        BY <4>2, <4>3 DEF Auth!Gate, AuthPlaces
      <4>4. CASE Auth!ReadAccount(r)
        <5> DEFINE q == [request[r] EXCEPT !.pc = "account", !.found = credential]
        <5>1. request' = [request EXCEPT ![r] = q] /\ q.pc = "account"
          BY <1>2, <4>4 DEF Auth!ReadAccount, AuthRequest
        <5> QED BY <5>1
      <4>5. CASE Auth!Authenticate(r)
        <5>1. \/ Auth!Goto(r, "refused") \/ Auth!Goto(r, "accepted")
              \/ \E on \in Requests \cup {0} : request' = [request EXCEPT ![r].pc = "wait", ![r].on = on]
              \/ \E f \in {"pending", "none"} : request' = [request EXCEPT ![r].pc = "load", ![r].age = 0, ![r].future = f]
          <6> DEFINE f == IF request[r].shown.kind = "session" THEN "pending" ELSE "none"
                     on == inflight[request[r].shown.of]
          <6>1. f \in {"pending", "none"} /\ (on \in Requests \cup {0} \/ request[r].shown.kind # "session")
            <7>1. request[r].shown \in Auth!Shown
              BY <4>5 DEF Auth!Authenticate, AuthInv, Grounded, Grounds
            <7>2. request[r].shown.kind = "session" => request[r].shown.of \in Tokens
              BY <7>1 DEF Auth!Shown
            <7> QED BY <7>2 DEF AuthInv, AuthTypes
          <6>2. \/ Auth!Goto(r, "refused") \/ Auth!Goto(r, "accepted")
                \/ request[r].shown.kind = "session" /\ request' = [request EXCEPT ![r].pc = "wait", ![r].on = on]
                \/ request' = [request EXCEPT ![r].pc = "load", ![r].age = 0, ![r].future = f]
            BY <4>5 DEF Auth!Authenticate
          <6> HIDE DEF f, on
          <6> QED BY <6>1, <6>2
        <5>2. ASSUME NEW on, request' = [request EXCEPT ![r].pc = "wait", ![r].on = on]
              PROVE  \E q : request' = [request EXCEPT ![r] = q] /\ q.pc # "row"
          <6> DEFINE q == [request[r] EXCEPT !.pc = "wait", !.on = on]
          <6>1. request' = [request EXCEPT ![r] = q] /\ q.pc = "wait"
            BY <1>2, <5>2 DEF AuthRequest
          <6> QED BY <6>1
        <5>3. ASSUME NEW f, request' = [request EXCEPT ![r].pc = "load", ![r].age = 0, ![r].future = f]
              PROVE  \E q : request' = [request EXCEPT ![r] = q] /\ q.pc # "row"
          <6> DEFINE q == [request[r] EXCEPT !.pc = "load", !.age = 0, !.future = f]
          <6>1. request' = [request EXCEPT ![r] = q] /\ q.pc = "load"
            BY <1>2, <5>3 DEF AuthRequest
          <6> QED BY <6>1
        <5> QED BY <4>2, <5>1, <5>2, <5>3 DEF AuthPlaces
      <4>6. CASE Auth!Share(r)
        <5>1. PICK pc \in {"failed", "accepted", "refused"} : request' = [request EXCEPT ![r].on = 0, ![r].pc = pc]
          BY <4>6 DEF Auth!Share, Auth!Nobody
        <5> DEFINE q == [request[r] EXCEPT !.on = 0, !.pc = pc]
        <5>2. request' = [request EXCEPT ![r] = q] /\ q.pc = pc
          BY <1>2, <5>1 DEF AuthRequest
        <5> QED BY <5>2
      <4>7. CASE Auth!Disconnect(r)
        <5>1. PICK f : request' = [request EXCEPT ![r].pc = "failed", ![r].on = 0, ![r].age = 0, ![r].future = f]
          BY <4>7 DEF Auth!Disconnect, Auth!Nobody
        <5> DEFINE q == [request[r] EXCEPT !.pc = "failed", !.on = 0, !.age = 0, !.future = f]
        <5>2. request' = [request EXCEPT ![r] = q] /\ q.pc = "failed"
          BY <1>2, <5>1 DEF AuthRequest
        <5> QED BY <5>2
      <4>8. CASE Auth!Respond(r)
        <5>1. request' = [request EXCEPT ![r] = Auth!Idle] /\ Auth!Idle.pc = "idle"
          BY <4>8 DEF Auth!Respond, Auth!Idle
        <5> QED BY <5>1
      <4>9. ASSUME NEW s \in Auth!Shown, Auth!Arrive(r, s) PROVE \E q : request' = [request EXCEPT ![r] = q] /\ q.pc # "row"
        <5> DEFINE q == [Auth!Idle EXCEPT !.pc = "gate", !.shown = s]
        <5>1. request' = [request EXCEPT ![r] = q] /\ q.pc = "gate"
          BY <4>9 DEF Auth!Arrive, Auth!Idle
        <5> QED BY <5>1
      <4> QED BY <1>4, <4>3, <4>4, <4>5, <4>6, <4>7, <4>8, <4>9
    <3> QED BY <1>2, <3>1
  <2>2. \A s \in Auth!Shown : cache'[s] = cache[s] \/ cache'[s] = CACHE_TTL_S
    BY <1>2, <1>4 DEF Auth!Gate, Auth!ReadAccount, Auth!Authenticate, Auth!Share, Auth!Respond, Auth!Disconnect,
       Auth!Arrive, Auth!caches, Auth!Never
  <2> QED BY <1>1, <1>2, <2>1, <2>2, StandingStays
<1>5. ASSUME NEW r \in Requests, Auth!KnowAccount(r) PROVE Standing'
  <2>1. \A u \in Requests : /\ Auth!Released[u].pc = request[u].pc /\ Auth!Released[u].found = request[u].found
                            /\ Auth!Released[u].shown = request[u].shown
    BY <1>2 DEF Auth!Released, AuthRequest
  <2>2. \/ request' = [request EXCEPT ![r].pc = "gate", ![r].found = 0]
        \/ request' = [Auth!Released EXCEPT ![r].pc = "gate", ![r].found = 0]
    BY <1>5 DEF Auth!KnowAccount
  <2>3. \A u \in Requests : request'[u].pc = "row" =>
          /\ request[u].pc = "row" /\ request'[u].found = request[u].found /\ request'[u].shown = request[u].shown
    <3>1. CASE request' = [request EXCEPT ![r].pc = "gate", ![r].found = 0]
      BY <1>2, <3>1 DEF AuthRequest
    <3>2. CASE request' = [Auth!Released EXCEPT ![r].pc = "gate", ![r].found = 0]
      <4>1. Auth!Released \in [Requests -> AuthRequest]
        BY AuthReleased
      <4> QED BY <2>1, <3>2, <4>1 DEF AuthRequest
    <3> QED BY <2>2, <3>1, <3>2
  <2>4. \A s \in Auth!Shown : cache'[s] = cache[s] \/ cache'[s] = CACHE_TTL_S
    BY <1>2, <1>5 DEF Auth!KnowAccount, Auth!Forget, Auth!caches, Auth!Never
  <2> QED BY <1>1, <1>2, <2>3, <2>4, StandingStays
<1> QED
  BY <1>3, <1>4, <1>5

\* A row that is read stands; what was read is remembered.
LEMMA StandingRead ==
  ASSUME AuthInv, Standing, NEW r \in Requests, Auth!ReadRow(r) \/ Auth!Answer(r)
  PROVE  Standing'
<1> DEFINE s == request[r].shown
<1>1. UNCHANGED <<credential, rows, expired, admin, raced>>
  BY DEF Auth!ReadRow, Auth!Answer, Auth!account
<1>2. request \in [Requests -> AuthRequest] /\ cache \in [Auth!Shown -> Ages] /\ CACHE_TTL_S \in Nat
  BY AuthAssumption DEF AuthInv, AuthTypes
<1>3. \A x : Excused(x) => Excused(x)'
  BY <1>1 DEF Excused, Auth!Stands
<1>4. CASE Auth!ReadRow(r)
  <2>1. \A u \in Requests : u # r => request'[u] = request[u]
    BY <1>2, <1>4 DEF Auth!ReadRow
  <2>2. request'[r].shown = s /\ (request'[r].found = 1 => Auth!Good(s))
    BY <1>2, <1>4 DEF Auth!ReadRow, AuthRequest
  <2>3. \A x \in Auth!Shown : cache'[x] = cache[x] \/ cache'[x] = CACHE_TTL_S
    BY <1>2, <1>4 DEF Auth!ReadRow, Auth!caches, Auth!Never
  <2>4. Auth!Good(s) => Excused(s)
    BY DEF Excused, Auth!Good, Auth!Stands
  <2> HIDE DEF s
  <2> QED BY <1>2, <1>3, <2>1, <2>2, <2>3, <2>4 DEF Standing
<1>5. CASE Auth!Answer(r)
  <2>1. \A u \in Requests : request'[u].pc = "row" => request'[u] = request[u]
    BY <1>2, <1>5 DEF Auth!Answer, Auth!Goto, AuthRequest
  <2>2. request[r].found = 1 => Excused(s)
    BY <1>5 DEF Auth!Answer, Standing
  <2>3. \A x \in Auth!Shown : cache'[x] = cache[x] \/ (x = s /\ request[r].found = 1)
    BY <1>2, <1>5 DEF Auth!Answer, Auth!_remember
  <2> HIDE DEF s
  <2> QED BY <1>2, <1>3, <2>1, <2>2, <2>3 DEF Standing
<1> QED
  BY <1>4, <1>5

\* The account or its sessions change, and the process follows.
LEMMA StandingChanges ==
  ASSUME AuthInv, Standing,
         \/ \E t \in Tokens : Auth!CreateSession(t) \/ Auth!Expire(t) \/ Auth!revoke_session(t)
         \/ \E g \in Passwords : Auth!set_credential(g)
         \/ Auth!clear_credential \/ Auth!revoke_all_sessions \/ Auth!Follow
         \/ \E g \in Passwords \cup {0} : Auth!Recover(g)
  PROVE  Standing'
<1>1. /\ request \in [Requests -> AuthRequest] /\ cache \in [Auth!Shown -> Ages] /\ CACHE_TTL_S \in Nat
      /\ admin \in [pc : {"idle", "bump", "know"}, to : Passwords \cup {0}] /\ rows \subseteq Tokens
  BY AuthAssumption DEF AuthInv, AuthTypes
<1>2. \A r \in Requests : request[r].pc = "row" => request[r].shown \in Auth!Shown
  BY DEF AuthInv, Grounded, Grounds
<1>3. ASSUME \A s \in Auth!Shown : Excused(s) => Excused(s)', UNCHANGED <<cache, request>> PROVE Standing'
  BY <1>2, <1>3 DEF Standing
<1>4. ASSUME NEW t \in Tokens, Auth!CreateSession(t) \/ Auth!Expire(t) PROVE Standing'
  <2>1. UNCHANGED <<cache, request, credential, admin, raced>> /\ rows \cup expired \subseteq rows' \cup expired'
    BY <1>4 DEF Auth!CreateSession, Auth!Expire, Auth!caches
  <2>2. \A s \in Auth!Shown : Excused(s) => Excused(s)'
    BY <2>1 DEF Excused, Auth!Stands
  <2> QED BY <1>3, <2>1, <2>2
<1>5. ASSUME NEW g \in Passwords \cup {0}, NEW kept, Auth!Commit(g, kept) PROVE Standing'
  <2>1. /\ UNCHANGED <<cache, request, raced>> /\ credential' = g /\ admin.pc = "idle"
        /\ admin'.pc = IF g = credential THEN "bump" ELSE "know"
    BY <1>5 DEF Auth!Commit, Auth!caches
  <2>2. \A s \in Auth!Shown : Excused(s) => Excused(s)'
    BY <2>1 DEF Excused, Auth!Stands
  <2> QED BY <1>3, <2>1, <2>2
<1>6. ASSUME NEW g \in Passwords \cup {0}, Auth!Recover(g) PROVE Standing'
  <2>1. UNCHANGED <<cache, request>> /\ raced' = Auth!Shown
    BY <1>6 DEF Auth!Recover, Auth!caches
  <2>2. \A s \in Auth!Shown : Excused(s)'
    BY <2>1 DEF Excused
  <2> QED BY <1>3, <2>1, <2>2
<1>7. CASE Auth!Follow
  <2>1. /\ UNCHANGED <<credential, rows, expired>> /\ admin.pc \in {"bump", "know"}
        /\ cache' = [s \in Auth!Shown |-> IF s \in Auth!Retired THEN CACHE_TTL_S ELSE cache[s]]
        /\ request' = Auth!Released
    BY <1>7 DEF Auth!Follow, Auth!account, Auth!Forget, Auth!Never
  <2>2. \A r \in Requests : request[r].pc = "row" /\ request[r].shown \in Auth!Retired => request[r].shown \in raced'
    BY <1>7 DEF Auth!Follow
  <2>3. raced \subseteq raced'
    BY <1>7 DEF Auth!Follow
  <2>4. \A s \in Auth!Shown : Excused(s) => s \in Auth!Retired \/ Excused(s)'
    BY <2>1, <2>3 DEF Excused, Auth!Stands, Auth!Retired
  <2>5. \A r \in Requests : /\ request'[r].pc = request[r].pc /\ request'[r].found = request[r].found
                            /\ request'[r].shown = request[r].shown
    BY <1>1, <2>1 DEF Auth!Released, AuthRequest
  <2>6. ASSUME NEW s \in Auth!Shown, cache'[s] < CACHE_TTL_S PROVE Excused(s)'
    BY <1>1, <2>1, <2>4, <2>6 DEF Standing
  <2>7. ASSUME NEW r \in Requests, NEW s, s = request'[r].shown, request'[r].pc = "row", request'[r].found = 1
        PROVE  Excused(s)'
    <3>1. request[r].shown = s /\ request[r].pc = "row" /\ request[r].found = 1 /\ s \in Auth!Shown
      BY <1>2, <2>5, <2>7
    <3>2. Excused(s)
      BY <3>1 DEF Standing
    <3>3. s \in Auth!Retired => s \in raced'
      BY <2>2, <3>1
    <3> QED BY <2>4, <3>1, <3>2, <3>3 DEF Excused
  <2>8. \A r \in Requests : \A s : s = request'[r].shown /\ request'[r].pc = "row" /\ request'[r].found = 1 => Excused(s)'
    BY <2>7
  <2> QED BY <2>6, <2>8 DEF Standing
<1> QED
  BY <1>1, <1>4, <1>5, <1>6, <1>7 DEF Auth!revoke_session, Auth!set_credential, Auth!clear_credential,
     Auth!revoke_all_sessions, AuthInv, AuthTypes

\* Nothing is remembered at first.
LEMMA StandingInit == Auth!Init => Standing
BY AuthAssumption DEF Auth!Init, Auth!Never, Auth!Idle, Standing

LEMMA StandingKeeps ==
  ASSUME AuthInv, Standing, Auth!Next \/ UNCHANGED authVars
  PROVE  Standing'
<1>1. CASE UNCHANGED authVars
  BY <1>1, StandingStays DEF authVars
<1>2. CASE Auth!Next
  BY <1>2, StandingKept, StandingRead, StandingChanges DEF Auth!Next, Auth!Requesting
<1> QED
  BY <1>1, <1>2

\* What is promised of the sign-in follows.
LEMMA AuthPromised ==
  ASSUME AuthInv, Standing
  PROVE  Auth!TypeOK /\ Auth!StaleAtMostTTL /\ Auth!RevocationHolds /\ Auth!NoOrphanFlight
<1>1. Auth!TypeOK
  BY DEF AuthInv, AuthTypes, Ages, Auth!TypeOK, Auth!Never
<1>2. Auth!StaleAtMostTTL
  BY DEF AuthInv, Grounded, Grounds, Auth!StaleAtMostTTL
<1>3. Auth!NoOrphanFlight
  BY DEF AuthInv, Flights, LooksUp, Auth!NoOrphanFlight, Auth!Nobody
<1>4. Auth!RevocationHolds
  BY DEF Standing, Excused, Auth!RevocationHolds
<1> QED
  BY <1>1, <1>2, <1>3, <1>4

-----------------------------------------------------------------------------
(* The scheduler.                                                          *)

Due == Scheduler!Off .. DEBOUNCE
Scan == [pc : {"none", "walk", "follow"}, follow : BOOLEAN, told : BOOLEAN, older : BOOLEAN,
         unsettled : BOOLEAN, earlier : Due, first : Nat]

ScanTypes ==
  /\ scan \in [Scheduler!Callers -> Scan]
  /\ ingest \in Due /\ settling \in [due : Due, left : 0 .. SETTLING_SCAN_LIMIT]
  /\ files \in Seq({"new", "unsettled", "indexed"})

OneWalk == \A c, d \in Scheduler!Callers : scan[c].pc = "walk" /\ scan[d].pc = "walk" => c = d

\* A walk that was not told of a request sees all the files there are; one that
\* was told leaves the request standing.
Covers(q, due_at, n) == q.pc = "walk" => IF q.told THEN due_at # Scheduler!Off ELSE q.first = n

\* Nothing has happened that passes a request over.
Heeded == seen \cap {"scan fails", "share away", "refused"} = {}

Announced ==
  Heeded => /\ \A c \in Scheduler!Callers : Covers(scan[c], ingest, Len(files))
            /\ Scheduler!New # {} => ingest # Scheduler!Off \/ Scheduler!Walking

ScanInv == ScanTypes /\ OneWalk /\ Announced

IdleTypes ==
  /\ idle \in [pending : SUBSET Recordings, due : Due, batch : SUBSET Recordings, covered : SUBSET Recordings]
  /\ IsFiniteSet(idle.pending) /\ IsFiniteSet(idle.batch)
  /\ Cardinality(idle.pending) <= IDLE_QUEUE_LIMIT

\* A batch is in hand only while the loop cleans.
IdleInv ==
  /\ IdleTypes
  /\ loop # "cleaning" => idle.batch = {}
  /\ idle.pending # {} /\ loop # "cleaning" => idle.due # Scheduler!Off
  /\ "cleanup fails" \notin seen => accepted \subseteq idle.pending \cup idle.batch

SchedulerInv == ScanInv /\ IdleInv

\* What is left to a due time, and the sooner of two.
LEMMA DueRange ==
  ASSUME NEW a \in Due, NEW b \in Due
  PROVE  /\ Scheduler!Less(a) \in Due /\ (Scheduler!Less(a) = Scheduler!Off <=> a = Scheduler!Off)
         /\ Scheduler!Off \in Due /\ DEBOUNCE \in Due
         /\ Scheduler!Sooner(a, DEBOUNCE) \in Due /\ Scheduler!Sooner(a, DEBOUNCE) # Scheduler!Off
BY SchedulerAssumption DEF Due, Scheduler!Less, Scheduler!Sooner, Scheduler!Off

\* No scan.
LEMMA EmptyScan == Scheduler!NoScan \in Scan /\ ~Scheduler!NoScan.told /\ Scheduler!NoScan.pc = "none"
<1>1. Scheduler!Off \in Due
  BY SchedulerAssumption DEF Due, Scheduler!Off
<1>2. Scheduler!NoScan \in Scan
  BY <1>1 DEF Scheduler!NoScan, Scan
<1>3. ~Scheduler!NoScan.told /\ Scheduler!NoScan.pc = "none"
  BY DEF Scheduler!NoScan
<1> QED
  BY <1>2, <1>3

\* A walk that begins over all files, where no other is under way.
LEMMA WalkBegins ==
  ASSUME ScanInv, NEW c \in Scheduler!Callers, NEW follow \in BOOLEAN, ~Scheduler!Walking,
         Scheduler!BeginScan(c, follow), UNCHANGED files, seen \subseteq seen', ingest' \in Due,
         settling' \in [due : Due, left : 0 .. SETTLING_SCAN_LIMIT]
  PROVE  ScanInv'
<1> DEFINE q == [Scheduler!NoScan EXCEPT !.pc = "walk", !.follow = follow, !.first = Len(files)]
<1>1. scan' = [scan EXCEPT ![c] = q]
  BY DEF Scheduler!BeginScan
<1>2. Len(files) \in Nat /\ scan \in [Scheduler!Callers -> Scan] /\ files \in Seq({"new", "unsettled", "indexed"})
  BY DEF ScanInv, ScanTypes
<1>3. q \in Scan /\ q.pc = "walk" /\ ~q.told /\ q.first = Len(files)
  <2>1. Scheduler!NoScan \in Scan /\ ~Scheduler!NoScan.told
    BY EmptyScan
  <2>2. q \in Scan
    BY <1>2, <2>1 DEF Scan
  <2>3. q.pc = "walk" /\ q.first = Len(files)
    BY <1>2, <2>1 DEF Scan
  <2>4. q.told = Scheduler!NoScan.told
    BY <1>2, <2>1 DEF Scan
  <2> HIDE DEF q
  <2> QED BY <2>1, <2>2, <2>3, <2>4
<1> HIDE DEF q
<1>4. scan' \in [Scheduler!Callers -> Scan]
  BY <1>1, <1>2, <1>3
<1>5. scan'[c] = q /\ \A d \in Scheduler!Callers : d # c => scan'[d] = scan[d] /\ scan[d].pc # "walk"
  BY <1>1, <1>2 DEF Scheduler!Walking
<1>6. ScanTypes'
  BY <1>2, <1>4 DEF ScanTypes
<1>7. OneWalk'
  BY <1>5 DEF OneWalk
<1>8. Announced'
  BY <1>3, <1>5 DEF Announced, Covers, Scheduler!Walking
<1> QED
  BY <1>6, <1>7, <1>8 DEF ScanInv

\* Nothing of the scans moves.
LEMMA ScanRests ==
  ASSUME ScanInv, UNCHANGED <<scan, files, ingest>>, seen \subseteq seen',
         settling' \in [due : Due, left : 0 .. SETTLING_SCAN_LIMIT]
  PROVE  ScanInv'
<1>1. ScanTypes'
  BY DEF ScanInv, ScanTypes
<1>2. OneWalk'
  BY DEF ScanInv, OneWalk
<1>3. Heeded' => Heeded
  BY DEF Heeded
<1>4. Scheduler!New' = Scheduler!New /\ Scheduler!Walking' = Scheduler!Walking
  BY DEF Scheduler!New, Scheduler!Walking
<1>5. Announced'
  BY <1>3, <1>4 DEF ScanInv, Announced
<1> QED
  BY <1>1, <1>2, <1>5 DEF ScanInv

\* A scan that has walked has seen what there was, or left the request standing.
LEMMA WalkKeeps ==
  ASSUME ScanInv, NEW c \in Scheduler!Callers, Scheduler!Walk(c)
  PROVE  ScanInv'
<1> DEFINE fresh == ~scan[c].follow
<1>1. PICK met \in SUBSET DOMAIN files :
        /\ \/ 1 .. scan[c].first \subseteq met /\ UNCHANGED seen
           \/ met = {} /\ Scheduler!Meets("share away")
        /\ files' = [n \in DOMAIN files |-> Scheduler!Visited(n, met)]
        /\ scan' = [d \in Scheduler!Callers |->
                      IF d = c THEN [scan[c] EXCEPT !.pc = "follow",
                                       !.unsettled = \E n \in met : Scheduler!Visited(n, met) = "unsettled",
                                       !.earlier = IF fresh /\ c = "manual" THEN settling.due ELSE Scheduler!Off]
                      ELSE IF fresh THEN [scan[d] EXCEPT !.older = scan[d].pc = "follow"] ELSE scan[d]]
  BY DEF Scheduler!Walk
<1>2. /\ scan[c].pc = "walk" /\ ingest' = Scheduler!Answered(c)
      /\ settling' = IF fresh THEN [due |-> Scheduler!Off, left |-> SETTLING_SCAN_LIMIT] ELSE settling
  BY DEF Scheduler!Walk
<1>3. /\ scan \in [Scheduler!Callers -> Scan] /\ files \in Seq({"new", "unsettled", "indexed"})
      /\ ingest \in Due /\ settling \in [due : Due, left : 0 .. SETTLING_SCAN_LIMIT] /\ Scheduler!Off \in Due
  BY SchedulerAssumption DEF ScanInv, ScanTypes, Due, Scheduler!Off
<1>4. scan'[c] \in Scan /\ scan'[c].pc = "follow"
  <2>1. PICK b \in BOOLEAN, a \in Due : scan'[c] = [scan[c] EXCEPT !.pc = "follow", !.unsettled = b, !.earlier = a]
    <3> DEFINE a == IF fresh /\ c = "manual" THEN settling.due ELSE Scheduler!Off
               b == \E n \in met : Scheduler!Visited(n, met) = "unsettled"
    <3>1. a \in Due
      BY <1>3
    <3>2. b \in BOOLEAN
      OBVIOUS
    <3>3. scan'[c] = [scan[c] EXCEPT !.pc = "follow", !.unsettled = b, !.earlier = a]
      BY <1>1
    <3> HIDE DEF a, b
    <3> QED BY <3>1, <3>2, <3>3
  <2>2. scan[c] \in Scan
    BY <1>3
  <2> QED BY <2>1, <2>2 DEF Scan
<1>5. ASSUME NEW d \in Scheduler!Callers, d # c
      PROVE  scan'[d] \in Scan /\ scan'[d].pc = scan[d].pc
  <2>1. scan[d] \in Scan
    BY <1>3, <1>5
  <2>2. CASE fresh
    <3>1. scan'[d] = [scan[d] EXCEPT !.older = scan[d].pc = "follow"]
      BY <1>1, <1>5, <2>2
    <3>2. PICK b \in BOOLEAN : scan'[d] = [scan[d] EXCEPT !.older = b]
      BY <3>1
    <3> QED BY <3>2, <2>1 DEF Scan
  <2>3. CASE ~fresh
    BY <1>1, <1>5, <2>1, <2>3
  <2> QED BY <2>2, <2>3
<1>6. scan' \in [Scheduler!Callers -> Scan]
  <2>1. DOMAIN scan' = Scheduler!Callers /\ scan' = [d \in Scheduler!Callers |-> scan'[d]]
    BY <1>1
  <2> QED BY <1>4, <1>5, <2>1
<1>7. files' \in Seq({"new", "unsettled", "indexed"}) /\ Len(files') = Len(files) /\ DOMAIN files' = DOMAIN files
  <2>4. files' = [n \in DOMAIN files |-> Scheduler!Visited(n, met)]
    BY <1>1
  <2>5. DOMAIN files = 1 .. Len(files) /\ \A n \in 1 .. Len(files) : files[n] \in {"new", "unsettled", "indexed"}
    BY <1>3
  <2>1. \A n \in 1 .. Len(files) : files'[n] \in {"new", "unsettled", "indexed"}
    BY <2>4, <2>5 DEF Scheduler!Visited
  <2>2. files' = [n \in 1 .. Len(files) |-> files'[n]]
    BY <2>4, <2>5
  <2>3. Len(files) \in Nat
    BY <1>3
  <2> QED BY <2>1, <2>2, <2>3
<1>8. ScanTypes'
  <2>1. ingest' \in Due
    BY <1>2, <1>3 DEF Scheduler!Answered
  <2>2. settling' \in [due : Due, left : 0 .. SETTLING_SCAN_LIMIT]
    BY <1>2, <1>3, SchedulerAssumption
  <2> QED BY <1>6, <1>7, <2>1, <2>2 DEF ScanTypes
<1>9. \A d \in Scheduler!Callers : scan'[d].pc # "walk"
  BY <1>2, <1>4, <1>5 DEF ScanInv, OneWalk
<1>10. OneWalk'
  BY <1>9 DEF OneWalk
<1>11. Announced'
  <2> SUFFICES ASSUME Heeded' PROVE Scheduler!New' # {} => ingest' # Scheduler!Off
    BY <1>9 DEF Announced, Covers
  <2>1. 1 .. scan[c].first \subseteq met /\ UNCHANGED seen
    BY <1>1 DEF Heeded, Scheduler!Meets
  <2>2. Heeded
    BY <2>1 DEF Heeded
  <2>3. IF scan[c].told THEN ingest # Scheduler!Off ELSE scan[c].first = Len(files)
    BY <1>2, <2>2 DEF ScanInv, Announced, Covers
  <2>4. CASE scan[c].told
    BY <1>2, <2>3, <2>4 DEF Scheduler!Answered
  <2>5. CASE ~scan[c].told
    <3>1. DOMAIN files \subseteq met
      BY <1>3, <2>1, <2>3, <2>5
    <3>2. \A n \in DOMAIN files : files'[n] # "new"
      BY <1>1, <3>1 DEF Scheduler!Visited
    <3> QED BY <1>7, <3>2 DEF Scheduler!New
  <2> QED BY <2>4, <2>5
<1> QED
  BY <1>8, <1>10, <1>11 DEF ScanInv

\* A scan that raised, or whose follow-up was decided on, is over.
LEMMA ScanEnds ==
  ASSUME ScanInv, NEW c \in Scheduler!Callers, scan' = [scan EXCEPT ![c] = Scheduler!NoScan],
         UNCHANGED <<ingest, files>>, settling' \in [due : Due, left : 0 .. SETTLING_SCAN_LIMIT],
         seen \subseteq seen', scan[c].pc # "walk" \/ "scan fails" \in seen'
  PROVE  ScanInv'
<1>1. scan \in [Scheduler!Callers -> Scan]
  BY DEF ScanInv, ScanTypes
<1>2. scan' \in [Scheduler!Callers -> Scan]
  BY <1>1, EmptyScan
<1>3. scan'[c].pc = "none" /\ \A d \in Scheduler!Callers : d # c => scan'[d] = scan[d]
  BY <1>1, EmptyScan
<1>4. ScanTypes'
  BY <1>2 DEF ScanInv, ScanTypes
<1>5. OneWalk'
  BY <1>3 DEF ScanInv, OneWalk
<1>6. Announced'
  <2> SUFFICES ASSUME Heeded'
               PROVE  /\ \A d \in Scheduler!Callers : Covers(scan'[d], ingest, Len(files))
                      /\ Scheduler!New # {} => ingest # Scheduler!Off \/ Scheduler!Walking'
    BY DEF Announced, Scheduler!New
  <2>1. Heeded /\ scan[c].pc # "walk"
    BY DEF Heeded
  <2>2. \A d \in Scheduler!Callers : Covers(scan'[d], ingest, Len(files))
    BY <1>3, <2>1 DEF Covers, ScanInv, Announced
  <2>3. Scheduler!Walking' <=> Scheduler!Walking
    BY <1>3, <2>1 DEF Scheduler!Walking
  <2> QED BY <2>1, <2>2, <2>3 DEF ScanInv, Announced
<1> QED
  BY <1>4, <1>5, <1>6 DEF ScanInv

\* A request reaches the scan under way.
LEMMA RequestKeeps ==
  ASSUME ScanInv, Scheduler!request_ingest_scan
  PROVE  ScanInv'
<1>1. /\ files' = Append(files, "new") /\ ingest' = Scheduler!Sooner(ingest, DEBOUNCE)
      /\ scan' = [c \in Scheduler!Callers |-> [scan[c] EXCEPT !.told = scan[c].pc = "walk"]]
      /\ UNCHANGED settling
  BY DEF Scheduler!request_ingest_scan
<1>2. /\ scan \in [Scheduler!Callers -> Scan] /\ files \in Seq({"new", "unsettled", "indexed"})
      /\ ingest \in Due /\ settling \in [due : Due, left : 0 .. SETTLING_SCAN_LIMIT]
  BY DEF ScanInv, ScanTypes
<1>3. ASSUME NEW c \in Scheduler!Callers
      PROVE  /\ scan'[c] \in Scan /\ scan'[c].pc = scan[c].pc
             /\ scan'[c].told <=> scan[c].pc = "walk"
  <2>1. PICK b \in BOOLEAN : b = (scan[c].pc = "walk")
    OBVIOUS
  <2>2. scan'[c] = [scan[c] EXCEPT !.told = b]
    BY <1>1, <1>3, <2>1
  <2>3. scan[c] \in Scan
    BY <1>2, <1>3
  <2>4. scan'[c] \in Scan /\ scan'[c].pc = scan[c].pc
    BY <2>2, <2>3 DEF Scan
  <2>5. scan'[c].told = b
    BY <2>2, <2>3 DEF Scan
  <2> QED BY <2>1, <2>4, <2>5
<1>4. scan' \in [Scheduler!Callers -> Scan]
  <2>1. DOMAIN scan' = Scheduler!Callers /\ scan' = [d \in Scheduler!Callers |-> scan'[d]]
    BY <1>1
  <2> QED BY <1>3, <2>1
<1>5. ingest' \in Due /\ ingest' # Scheduler!Off
  BY <1>1, <1>2, DueRange
<1>6. ScanTypes'
  BY <1>1, <1>2, <1>4, <1>5 DEF ScanTypes
<1>7. OneWalk'
  BY <1>3 DEF ScanInv, OneWalk
<1>8. Announced'
  BY <1>3, <1>5 DEF Announced, Covers
<1> QED
  BY <1>6, <1>7, <1>8 DEF ScanInv

\* Time passes for the scans.
LEMMA ScanTick ==
  ASSUME ScanInv, Scheduler!Tick
  PROVE  ScanInv'
<1>1. /\ ingest' = Scheduler!Less(ingest)
      /\ settling' = [settling EXCEPT !.due = Scheduler!Less(@)]
      /\ scan' = [c \in Scheduler!Callers |-> [scan[c] EXCEPT !.earlier = Scheduler!Less(@)]]
      /\ UNCHANGED <<files, seen>>
  BY DEF Scheduler!Tick
<1>2. /\ scan \in [Scheduler!Callers -> Scan] /\ ingest \in Due
      /\ settling \in [due : Due, left : 0 .. SETTLING_SCAN_LIMIT]
  BY DEF ScanInv, ScanTypes
<1>3. \A a \in Due : Scheduler!Less(a) \in Due /\ (Scheduler!Less(a) = Scheduler!Off <=> a = Scheduler!Off)
  BY DueRange
<1>4. ASSUME NEW c \in Scheduler!Callers
      PROVE  /\ scan'[c] \in Scan /\ scan'[c].pc = scan[c].pc
             /\ scan'[c].first = scan[c].first /\ scan'[c].told = scan[c].told
  <2>1. scan[c] \in Scan /\ scan[c].earlier \in Due
    BY <1>2, <1>4 DEF Scan
  <2>2. PICK a \in Due : scan'[c] = [scan[c] EXCEPT !.earlier = a]
    BY <1>1, <1>3, <1>4, <2>1
  <2>3. scan'[c] \in Scan /\ scan'[c].pc = scan[c].pc /\ scan'[c].first = scan[c].first
    BY <2>1, <2>2 DEF Scan
  <2>4. scan'[c].told = scan[c].told
    BY <2>1, <2>2 DEF Scan
  <2> QED BY <2>3, <2>4
<1>5. scan' \in [Scheduler!Callers -> Scan]
  <2>1. DOMAIN scan' = Scheduler!Callers /\ scan' = [d \in Scheduler!Callers |-> scan'[d]]
    BY <1>1
  <2> QED BY <1>4, <2>1
<1>6. ingest' \in Due /\ (ingest' = Scheduler!Off <=> ingest = Scheduler!Off)
  BY <1>1, <1>2, <1>3
<1>7. settling' \in [due : Due, left : 0 .. SETTLING_SCAN_LIMIT]
  BY <1>1, <1>2, <1>3
<1>8. ScanTypes'
  BY <1>1, <1>5, <1>6, <1>7 DEF ScanInv, ScanTypes
<1>9. OneWalk'
  BY <1>4 DEF ScanInv, OneWalk
<1>10. Scheduler!New' = Scheduler!New /\ (Scheduler!Walking' <=> Scheduler!Walking) /\ (Heeded' <=> Heeded)
  BY <1>1, <1>4 DEF Scheduler!New, Scheduler!Walking, Heeded
<1>11. Announced'
  <2> SUFFICES ASSUME Heeded'
               PROVE  /\ \A c \in Scheduler!Callers : Covers(scan'[c], ingest', Len(files))
                      /\ Scheduler!New # {} => ingest' # Scheduler!Off \/ Scheduler!Walking
    BY <1>1, <1>10 DEF Announced
  <2>1. \A c \in Scheduler!Callers : Covers(scan'[c], ingest', Len(files))
    <3> TAKE c \in Scheduler!Callers
    <3>1. Covers(scan[c], ingest, Len(files))
      BY <1>10 DEF ScanInv, Announced
    <3> QED BY <1>4, <1>6, <3>1 DEF Covers
  <2> QED BY <1>6, <1>10, <2>1 DEF ScanInv, Announced
<1> QED
  BY <1>8, <1>9, <1>11 DEF ScanInv

\* Every step of the scheduler keeps the scans in order.
LEMMA ScanKeeps ==
  ASSUME ScanInv, Scheduler!Next
  PROVE  ScanInv'
<1>1. /\ \A c \in {"loop", "manual"} : c \in Scheduler!Callers
      /\ settling \in [due : Due, left : 0 .. SETTLING_SCAN_LIMIT] /\ ingest \in Due
      /\ scan \in [Scheduler!Callers -> Scan] /\ Scheduler!Off \in Due /\ DEBOUNCE \in Due
      /\ 0 \in 0 .. SETTLING_SCAN_LIMIT
  BY SchedulerAssumption DEF ScanInv, ScanTypes, Scheduler!Callers, Due, Scheduler!Off
<1>2. ASSUME NEW c \in Scheduler!Callers, Scheduler!_schedule_settling_scan(c) PROVE ScanInv'
  <2>1. scan[c].earlier \in Due
    BY <1>1, <1>2 DEF Scan
  <2>2. settling' \in [due : Due, left : 0 .. SETTLING_SCAN_LIMIT]
    <3>1. Scheduler!Sooner(scan[c].earlier, DEBOUNCE) \in Due
      BY <1>1, <2>1, DueRange
    <3> QED BY <1>1, <1>2, <3>1 DEF Scheduler!_schedule_settling_scan
  <2> QED BY <1>2, <2>2, ScanEnds DEF Scheduler!_schedule_settling_scan
<1>3. ASSUME NEW c \in Scheduler!Callers, Scheduler!ScanFails(c) PROVE ScanInv'
  <2>1. settling' \in [due : Due, left : 0 .. SETTLING_SCAN_LIMIT]
    BY <1>1, <1>3 DEF Scheduler!ScanFails
  <2> QED BY <1>3, <2>1, ScanEnds DEF Scheduler!ScanFails, Scheduler!Meets
<1>4. CASE Scheduler!scan_now
  BY <1>1, <1>4, WalkBegins DEF Scheduler!scan_now, Scheduler!Meets
<1>5. CASE Scheduler!RunScanTask
  <2>1. CASE due.scan = 0 /\ ~Scheduler!Walking
    BY <1>1, <1>5, <2>1, WalkBegins DEF Scheduler!RunScanTask
  <2>2. CASE ~(due.scan = 0 /\ ~Scheduler!Walking)
    BY <1>1, <1>5, <2>2, ScanRests DEF Scheduler!RunScanTask
  <2> QED BY <2>1, <2>2
<1>6. CASE Scheduler!_run_due_ingest_scan
  <2>1. CASE ingest # 0
    BY <1>1, <1>6, <2>1, ScanRests DEF Scheduler!_run_due_ingest_scan
  <2>2. CASE ingest = 0 /\ Scheduler!Walking
    <3>1. ~Heeded' /\ ScanTypes'
      BY <1>1, <1>6, <2>2 DEF Scheduler!_run_due_ingest_scan, Heeded, ScanInv, ScanTypes
    <3>2. OneWalk'
      BY <1>6, <2>2 DEF Scheduler!_run_due_ingest_scan, ScanInv, OneWalk
    <3> QED BY <3>1, <3>2 DEF ScanInv, Announced
  <2>3. CASE ingest = 0 /\ ~Scheduler!Walking
    BY <1>1, <1>6, <2>3, WalkBegins DEF Scheduler!_run_due_ingest_scan
  <2> QED BY <2>1, <2>2, <2>3
<1>7. CASE Scheduler!_run_due_settling_scan
  <2>1. CASE settling.due # 0
    BY <1>1, <1>7, <2>1, ScanRests DEF Scheduler!_run_due_settling_scan
  <2>2. CASE settling.due = 0 /\ (settling.left = 0 \/ Scheduler!Walking)
    <3>1. settling' = [due |-> Scheduler!Off, left |-> 0] /\ UNCHANGED <<scan, files, ingest, seen>>
      BY <1>7, <2>2 DEF Scheduler!_run_due_settling_scan
    <3> QED BY <1>1, <3>1, ScanRests
  <2>3. CASE settling.due = 0 /\ settling.left # 0 /\ ~Scheduler!Walking
    <3>1. /\ settling' = [due |-> Scheduler!Off, left |-> settling.left - 1]
          /\ Scheduler!BeginScan("loop", TRUE) /\ UNCHANGED <<files, ingest, seen>>
      BY <1>7, <2>3 DEF Scheduler!_run_due_settling_scan
    <3>2. settling.left - 1 \in 0 .. SETTLING_SCAN_LIMIT
      BY <1>1, <2>3, SchedulerAssumption
    <3> QED BY <1>1, <2>3, <3>1, <3>2, WalkBegins
  <2> QED BY <2>1, <2>2, <2>3
<1>8. CASE Scheduler!RunRetention \/ Scheduler!RetentionDone \/ Scheduler!_run_due_post_process_idle_cleanup
           \/ Scheduler!CleanupDone \/ Scheduler!Wake \/ \E r \in Recordings : Scheduler!request_idle_cleanup(r)
  <2>1. UNCHANGED <<scan, files, ingest, settling>> /\ seen \subseteq seen'
    BY <1>8 DEF Scheduler!RunRetention, Scheduler!RetentionDone, Scheduler!_run_due_post_process_idle_cleanup,
                Scheduler!CleanupDone, Scheduler!Wake, Scheduler!request_idle_cleanup, Scheduler!Meets
  <2> QED BY <1>1, <2>1, ScanRests
<1> QED
  BY <1>1, <1>2, <1>3, <1>4, <1>5, <1>6, <1>7, <1>8, WalkKeeps, RequestKeeps, ScanTick
     DEF Scheduler!Next, Scheduler!Looping

\* The scheduler counts as everybody does.
LEMMA SchedulerCardinality == \A S : Scheduler!Cardinality(S) = Cardinality(S)
BY DEF Scheduler!Cardinality, Cardinality

\* The rest of the idle cleanup is kept: what is pending has a deadline.
LEMMA IdleTypesKept ==
  ASSUME NEW p \in SUBSET Recordings, IsFiniteSet(p), Cardinality(p) <= IDLE_QUEUE_LIMIT,
         NEW b \in SUBSET Recordings, IsFiniteSet(b), NEW v \in SUBSET Recordings, NEW d \in Due,
         idle' = [pending |-> p, due |-> d, batch |-> b, covered |-> v]
  PROVE  IdleTypes'
BY DEF IdleTypes

\* The idle cleanup, field by field.
LEMMA IdleShape ==
  ASSUME IdleTypes
  PROVE  /\ idle = [pending |-> idle.pending, due |-> idle.due, batch |-> idle.batch, covered |-> idle.covered]
         /\ idle.pending \in SUBSET Recordings /\ idle.batch \in SUBSET Recordings
         /\ idle.covered \in SUBSET Recordings /\ idle.due \in Due
         /\ IsFiniteSet(idle.pending) /\ IsFiniteSet(idle.batch)
         /\ Cardinality(idle.pending) \in Nat /\ Cardinality(idle.pending) <= IDLE_QUEUE_LIMIT
         /\ \A p \in SUBSET idle.pending : /\ p \in SUBSET Recordings /\ IsFiniteSet(p)
                                           /\ Cardinality(p) <= IDLE_QUEUE_LIMIT
<1>1. \A p \in SUBSET idle.pending : IsFiniteSet(p) /\ Cardinality(p) <= Cardinality(idle.pending) /\ Cardinality(p) \in Nat
  BY FS_Subset, FS_CardinalityType DEF IdleTypes
<1>2. Cardinality(idle.pending) \in Nat
  BY FS_CardinalityType DEF IdleTypes
<1> QED
  BY <1>1, <1>2, SchedulerAssumption DEF IdleTypes

\* A pass that is over sets a deadline for what is pending.
LEMMA IdleFinished ==
  ASSUME IdleTypes, NEW p \in SUBSET Recordings, IsFiniteSet(p), Cardinality(p) <= IDLE_QUEUE_LIMIT,
         NEW b \in SUBSET Recordings, IsFiniteSet(b), NEW v \in SUBSET Recordings, NEW e,
         idle' = Scheduler!_idle_cleanup_finished([pending |-> p, due |-> e, batch |-> b, covered |-> v])
  PROVE  IdleTypes' /\ idle'.pending = p /\ idle'.batch = b /\ (p # {} => idle'.due # Scheduler!Off)
<1>1. PICK d \in Due : /\ p # {} => d # Scheduler!Off
                       /\ idle' = [pending |-> p, due |-> d, batch |-> b, covered |-> v]
  <2> DEFINE d == IF p = {} THEN Scheduler!Off ELSE DEBOUNCE
  <2>1. d \in Due /\ (p # {} => d # Scheduler!Off)
    BY SchedulerAssumption DEF Due, Scheduler!Off
  <2>2. idle' = [pending |-> p, due |-> d, batch |-> b, covered |-> v]
    BY DEF Scheduler!_idle_cleanup_finished
  <2> QED BY <2>1, <2>2
<1>2. IdleTypes'
  BY <1>1, IdleTypesKept
<1> QED
  BY <1>1, <1>2

\* A recording reported idle joins those pending.
LEMMA IdleRequested ==
  ASSUME IdleInv, NEW r \in Recordings, Scheduler!request_idle_cleanup(r)
  PROVE  IdleInv'
<1>1. /\ r \notin idle.pending /\ Cardinality(idle.pending) < IDLE_QUEUE_LIMIT
      /\ idle' = [idle EXCEPT !.pending = @ \cup {r}, !.due = Scheduler!Sooner(@, DEBOUNCE)]
      /\ accepted' = accepted \cup {r} /\ UNCHANGED <<loop, seen>>
  BY SchedulerCardinality DEF Scheduler!request_idle_cleanup
<1>2. IdleTypes
  BY DEF IdleInv
<1> DEFINE p == idle.pending \cup {r}
           d == Scheduler!Sooner(idle.due, DEBOUNCE)
<1>3. idle' = [pending |-> p, due |-> d, batch |-> idle.batch, covered |-> idle.covered]
  <2>1. idle' = [idle EXCEPT !.pending = p, !.due = d]
    BY <1>1
  <2> HIDE DEF p, d
  <2>2. idle \in [pending : SUBSET Recordings, due : Due, batch : SUBSET Recordings, covered : SUBSET Recordings]
    BY <1>2 DEF IdleTypes
  <2> QED BY <2>1, <2>2
<1>4. d \in Due /\ d # Scheduler!Off
  BY <1>2, IdleShape, DueRange
<1>5. p \in SUBSET Recordings /\ IsFiniteSet(p) /\ Cardinality(p) <= IDLE_QUEUE_LIMIT
  <2>1. IsFiniteSet(p) /\ Cardinality(p) = Cardinality(idle.pending) + 1
    BY <1>1, <1>2, IdleShape, FS_AddElement
  <2> QED BY <1>1, <1>2, <2>1, IdleShape, SchedulerAssumption
<1>6. p = idle.pending \cup {r}
  OBVIOUS
<1> HIDE DEF p, d
<1>7. IdleTypes'
  BY <1>2, <1>3, <1>4, <1>5, IdleShape, IdleTypesKept
<1>8. idle'.pending = p /\ idle'.due = d /\ idle'.batch = idle.batch
  BY <1>3
<1> QED
  BY <1>1, <1>4, <1>6, <1>7, <1>8 DEF IdleInv

\* The whole library was cleaned up, or that failed.
LEMMA IdleRetention ==
  ASSUME IdleInv, Scheduler!RunRetention \/ Scheduler!RetentionDone
  PROVE  IdleInv'
<1>1. IdleTypes
  BY DEF IdleInv
<1>2. CASE Scheduler!RunRetention
  <2>1. loop' # "cleaning" /\ loop # "cleaning" /\ UNCHANGED <<accepted, seen>>
    BY <1>2 DEF Scheduler!RunRetention
  <2>2. IdleTypes' /\ idle'.pending = idle.pending /\ idle'.batch = idle.batch /\ idle'.due = idle.due
    <3>1. CASE UNCHANGED idle
      BY <1>1, <3>1 DEF IdleTypes
    <3>2. CASE idle' = [idle EXCEPT !.covered = idle.pending]
      <4>1. idle' = [pending |-> idle.pending, due |-> idle.due, batch |-> idle.batch, covered |-> idle.pending]
        BY <1>1, <3>2, IdleShape
      <4>2. IdleTypes'
        BY <1>1, <4>1, IdleShape, IdleTypesKept
      <4> QED BY <4>1, <4>2
    <3> QED BY <1>2, <3>1, <3>2 DEF Scheduler!RunRetention
  <2> QED BY <2>1, <2>2 DEF IdleInv
<1>3. CASE Scheduler!RetentionDone
  <2>1. loop' # "cleaning" /\ loop # "cleaning"
    BY <1>3 DEF Scheduler!RetentionDone
  <2>2. CASE /\ idle' = Scheduler!_idle_cleanup_finished([idle EXCEPT !.pending = @ \ idle.covered, !.covered = {}])
             /\ accepted' = accepted \ idle.covered /\ UNCHANGED seen
    <3> DEFINE p == idle.pending \ idle.covered
    <3>0. p = idle.pending \ idle.covered
      OBVIOUS
    <3>1. [idle EXCEPT !.pending = @ \ idle.covered, !.covered = {}]
            = [pending |-> p, due |-> idle.due, batch |-> idle.batch, covered |-> {}]
      <4> HIDE DEF p
      <4>1. idle \in [pending : SUBSET Recordings, due : Due, batch : SUBSET Recordings, covered : SUBSET Recordings]
        BY <1>1 DEF IdleTypes
      <4>2. [idle EXCEPT !.pending = @ \ idle.covered, !.covered = {}] = [idle EXCEPT !.pending = p, !.covered = {}]
        BY <3>0
      <4>3. PICK q : q = [idle EXCEPT !.pending = p, !.covered = {}]
        OBVIOUS
      <4>4. q = [pending |-> p, due |-> idle.due, batch |-> idle.batch, covered |-> {}]
        BY <4>1, <4>3
      <4> QED BY <4>2, <4>3, <4>4
    <3>2. p \in SUBSET Recordings /\ IsFiniteSet(p) /\ Cardinality(p) <= IDLE_QUEUE_LIMIT
      BY <1>1, IdleShape
    <3> HIDE DEF p
    <3>4. IdleTypes' /\ idle'.pending = p /\ idle'.batch = idle.batch /\ (p # {} => idle'.due # Scheduler!Off)
      BY <1>1, <2>2, <3>1, <3>2, IdleShape, IdleFinished
    <3> QED BY <2>1, <2>2, <3>0, <3>4 DEF IdleInv
  <2>3. CASE Scheduler!Meets("retention fails") /\ idle' = [idle EXCEPT !.covered = {}] /\ UNCHANGED accepted
    <3>1. idle' = [pending |-> idle.pending, due |-> idle.due, batch |-> idle.batch, covered |-> {}]
      BY <1>1, <2>3, IdleShape
    <3>2. IdleTypes'
      BY <1>1, <3>1, IdleShape, IdleTypesKept
    <3>3. seen \subseteq seen'
      BY <2>3 DEF Scheduler!Meets
    <3>4. idle'.pending = idle.pending /\ idle'.batch = idle.batch /\ idle'.due = idle.due
      BY <3>1
    <3> QED BY <2>1, <2>3, <3>2, <3>3, <3>4 DEF IdleInv
  <2> QED BY <1>3, <2>2, <2>3 DEF Scheduler!RetentionDone
<1> QED
  BY <1>2, <1>3

\* A batch is taken.
LEMMA IdleBatch ==
  ASSUME IdleInv, Scheduler!_run_due_post_process_idle_cleanup
  PROVE  IdleInv'
<1>1. IdleTypes /\ idle.batch = {} /\ UNCHANGED <<accepted, seen>>
  BY DEF IdleInv, Scheduler!_run_due_post_process_idle_cleanup
<1>2. CASE UNCHANGED idle /\ loop' = "sleep"
  <2>1. loop # "cleaning"
    BY DEF Scheduler!_run_due_post_process_idle_cleanup
  <2>2. IdleTypes'
    BY <1>1, <1>2 DEF IdleTypes
  <2> QED BY <1>1, <1>2, <2>1, <2>2 DEF IdleInv
<1>3. ASSUME NEW b \in SUBSET idle.pending, loop' = "cleaning",
             idle' = [idle EXCEPT !.pending = @ \ b, !.batch = b, !.due = Scheduler!Off]
      PROVE  IdleInv'
  <2> DEFINE p == idle.pending \ b
  <2>1. p = idle.pending \ b
    OBVIOUS
  <2>2. /\ p \in SUBSET Recordings /\ IsFiniteSet(p) /\ Cardinality(p) <= IDLE_QUEUE_LIMIT
        /\ b \in SUBSET Recordings /\ IsFiniteSet(b)
    BY <1>1, <1>3, IdleShape
  <2> HIDE DEF p
  <2>3. idle' = [pending |-> p, due |-> Scheduler!Off, batch |-> b, covered |-> idle.covered]
    <3>1. idle \in [pending : SUBSET Recordings, due : Due, batch : SUBSET Recordings, covered : SUBSET Recordings]
      BY <1>1 DEF IdleTypes
    <3>2. idle' = [idle EXCEPT !.pending = p, !.batch = b, !.due = Scheduler!Off]
      BY <1>3, <2>1
    <3> QED BY <3>1, <3>2
  <2>4. Scheduler!Off \in Due
    BY SchedulerAssumption DEF Due, Scheduler!Off
  <2>5. IdleTypes'
    BY <1>1, <2>2, <2>3, <2>4, IdleShape, IdleTypesKept
  <2>6. idle'.pending = p /\ idle'.batch = b
    BY <2>3
  <2> QED BY <1>1, <1>3, <2>1, <2>5, <2>6 DEF IdleInv
<1> QED
  BY <1>2, <1>3 DEF Scheduler!_run_due_post_process_idle_cleanup

\* A batch is done with.
LEMMA IdleDone ==
  ASSUME IdleInv, Scheduler!CleanupDone
  PROVE  IdleInv'
<1>1. IdleTypes /\ loop' = "sleep"
  BY DEF IdleInv, Scheduler!CleanupDone
<1>2. idle \in [pending : SUBSET Recordings, due : Due, batch : SUBSET Recordings, covered : SUBSET Recordings]
  BY <1>1 DEF IdleTypes
<1>3. {} \in SUBSET Recordings /\ IsFiniteSet({})
  BY FS_EmptySet
<1>4. CASE /\ accepted' = (accepted \ idle.batch) \cup idle.pending /\ UNCHANGED seen
           /\ idle' = Scheduler!_idle_cleanup_finished([idle EXCEPT !.batch = {}])
  <2>1. [idle EXCEPT !.batch = {}] = [pending |-> idle.pending, due |-> idle.due, batch |-> {}, covered |-> idle.covered]
    BY <1>2
  <2>2. IdleTypes' /\ idle'.pending = idle.pending /\ idle'.batch = {} /\ (idle.pending # {} => idle'.due # Scheduler!Off)
    <3>1. idle' = Scheduler!_idle_cleanup_finished([pending |-> idle.pending, due |-> idle.due, batch |-> {},
                                                    covered |-> idle.covered])
      BY <1>4, <2>1
    <3>2. idle.pending \in SUBSET Recordings /\ IsFiniteSet(idle.pending) /\ Cardinality(idle.pending) <= IDLE_QUEUE_LIMIT
      BY <1>1, IdleShape
    <3>3. idle.covered \in SUBSET Recordings
      BY <1>1, IdleShape
    <3> QED BY <1>1, <1>3, <3>1, <3>2, <3>3, IdleFinished
  <2> QED BY <1>1, <1>4, <2>2 DEF IdleInv
<1>5. CASE /\ Scheduler!Meets("cleanup fails")
           /\ idle' = Scheduler!_idle_cleanup_finished([Scheduler!_restore_pending_idle(idle) EXCEPT !.batch = {}])
  <2>1. PICK p \in SUBSET Recordings :
          /\ IsFiniteSet(p) /\ Cardinality(p) <= IDLE_QUEUE_LIMIT
          /\ [Scheduler!_restore_pending_idle(idle) EXCEPT !.batch = {}]
               = [pending |-> p, due |-> idle.due, batch |-> {}, covered |-> idle.covered]
    <3>1. CASE Cardinality(idle.pending \cup idle.batch) <= IDLE_QUEUE_LIMIT
      <4> DEFINE p == idle.pending \cup idle.batch
      <4>1. p \in SUBSET Recordings /\ IsFiniteSet(p) /\ Cardinality(p) <= IDLE_QUEUE_LIMIT
        BY <1>1, <3>1, IdleShape, FS_Union
      <4>2. Scheduler!_restore_pending_idle(idle) = [idle EXCEPT !.pending = p]
        BY <3>1, SchedulerCardinality DEF Scheduler!_restore_pending_idle
      <4> HIDE DEF p
      <4>3. PICK q : q = [idle EXCEPT !.pending = p]
        OBVIOUS
      <4>4. q = [pending |-> p, due |-> idle.due, batch |-> idle.batch, covered |-> idle.covered]
        BY <1>2, <4>3
      <4>5. [q EXCEPT !.batch = {}] = [pending |-> p, due |-> idle.due, batch |-> {}, covered |-> idle.covered]
        BY <4>4
      <4>6. [Scheduler!_restore_pending_idle(idle) EXCEPT !.batch = {}] = [q EXCEPT !.batch = {}]
        BY <4>2, <4>3
      <4> QED BY <4>1, <4>5, <4>6
    <3>2. CASE ~(Cardinality(idle.pending \cup idle.batch) <= IDLE_QUEUE_LIMIT)
      <4>1. Scheduler!_restore_pending_idle(idle) = idle
        BY <3>2, SchedulerCardinality DEF Scheduler!_restore_pending_idle
      <4>2. [idle EXCEPT !.batch = {}]
              = [pending |-> idle.pending, due |-> idle.due, batch |-> {}, covered |-> idle.covered]
        BY <1>2
      <4> QED BY <1>1, <4>1, <4>2, IdleShape
    <3> QED BY <3>1, <3>2
  <2>2. IdleTypes' /\ idle'.pending = p /\ idle'.batch = {} /\ (p # {} => idle'.due # Scheduler!Off)
    BY <1>1, <1>3, <1>5, <2>1, IdleShape, IdleFinished
  <2>3. "cleanup fails" \in seen'
    BY <1>5 DEF Scheduler!Meets
  <2> QED BY <1>1, <2>2, <2>3 DEF IdleInv
<1> QED
  BY <1>4, <1>5 DEF Scheduler!CleanupDone

\* What has nothing to do with the cleanup leaves it alone.
LEMMA IdleRests ==
  ASSUME IdleInv, UNCHANGED <<idle, accepted>>, seen \subseteq seen', loop' # "cleaning", loop # "cleaning"
  PROVE  IdleInv'
<1>1. IdleTypes'
  BY DEF IdleInv, IdleTypes
<1> QED
  BY <1>1 DEF IdleInv

\* Scans have nothing to do with the cleanup.
LEMMA IdleRestsWith ==
  ASSUME IdleInv, UNCHANGED <<idle, accepted, loop>>, seen \subseteq seen'
  PROVE  IdleInv'
<1>1. IdleTypes'
  BY DEF IdleInv, IdleTypes
<1> QED
  BY <1>1 DEF IdleInv

\* Time passes for the cleanup.
LEMMA IdleTick ==
  ASSUME IdleInv, Scheduler!Tick
  PROVE  IdleInv'
<1>1. idle' = [idle EXCEPT !.due = Scheduler!Less(@)] /\ UNCHANGED <<loop, accepted, seen>>
  BY DEF Scheduler!Tick
<1>2. IdleTypes
  BY DEF IdleInv
<1>3. PICK d \in Due : d = Scheduler!Less(idle.due) /\ (d = Scheduler!Off <=> idle.due = Scheduler!Off)
  BY <1>2, IdleShape, DueRange
<1>4. idle' = [pending |-> idle.pending, due |-> d, batch |-> idle.batch, covered |-> idle.covered]
  <2>1. idle \in [pending : SUBSET Recordings, due : Due, batch : SUBSET Recordings, covered : SUBSET Recordings]
    BY <1>2 DEF IdleTypes
  <2> QED BY <1>1, <1>3, <2>1
<1>5. IdleTypes'
  BY <1>2, <1>4, IdleShape, IdleTypesKept
<1>6. idle'.pending = idle.pending /\ idle'.batch = idle.batch /\ idle'.due = d
  BY <1>4
<1> QED
  BY <1>1, <1>3, <1>5, <1>6 DEF IdleInv

\* Every step of the scheduler keeps the cleanup in order.
LEMMA IdleKeeps ==
  ASSUME IdleInv, Scheduler!Next
  PROVE  IdleInv'
<1>1. CASE Scheduler!RunScanTask \/ Scheduler!_run_due_ingest_scan \/ Scheduler!_run_due_settling_scan \/ Scheduler!Wake
  <2>1. UNCHANGED <<idle, accepted>> /\ seen \subseteq seen' /\ loop' # "cleaning" /\ loop # "cleaning"
    BY <1>1 DEF Scheduler!RunScanTask, Scheduler!_run_due_ingest_scan, Scheduler!_run_due_settling_scan, Scheduler!Wake
  <2> QED BY <2>1, IdleRests
<1>2. ASSUME NEW c \in Scheduler!Callers, Scheduler!Walk(c) \/ Scheduler!_schedule_settling_scan(c)
      PROVE  IdleInv'
  <2>1. UNCHANGED <<idle, accepted, loop>>
    BY <1>2 DEF Scheduler!Walk, Scheduler!_schedule_settling_scan
  <2>2. seen \subseteq seen'
    BY <1>2 DEF Scheduler!Walk, Scheduler!_schedule_settling_scan, Scheduler!Meets
  <2> QED BY <2>1, <2>2, IdleRestsWith
<1>3. ASSUME NEW c \in Scheduler!Callers, Scheduler!ScanFails(c) PROVE IdleInv'
  <2>1. CASE UNCHANGED loop
    BY <1>3, <2>1, IdleRestsWith DEF Scheduler!ScanFails, Scheduler!Meets
  <2>2. CASE loop = "settling" /\ loop' = "idle"
    BY <1>3, <2>2, IdleRests DEF Scheduler!ScanFails, Scheduler!Meets
  <2> QED BY <1>3, <2>1, <2>2 DEF Scheduler!ScanFails
<1>4. CASE Scheduler!scan_now \/ Scheduler!request_ingest_scan
  BY <1>4, IdleRestsWith DEF Scheduler!scan_now, Scheduler!request_ingest_scan, Scheduler!Meets
<1>5. "loop" \in Scheduler!Callers /\ "manual" \in Scheduler!Callers
  BY DEF Scheduler!Callers
<1> QED
  BY <1>1, <1>2, <1>3, <1>4, <1>5, IdleRequested, IdleRetention, IdleBatch, IdleDone, IdleTick
     DEF Scheduler!Next, Scheduler!Looping

\* The scheduler begins in order.
LEMMA SchedulerInit == Scheduler!Init => SchedulerInv
<1> SUFFICES ASSUME Scheduler!Init PROVE SchedulerInv
  OBVIOUS
<1>1. /\ scan = [c \in Scheduler!Callers |-> Scheduler!NoScan] /\ ingest = Scheduler!Off
      /\ settling = [due |-> Scheduler!Off, left |-> 0]
      /\ idle = [pending |-> {}, due |-> Scheduler!Off, batch |-> {}, covered |-> {}]
      /\ files = <<>> /\ accepted = {} /\ seen = {} /\ loop = "tasks"
  BY DEF Scheduler!Init
<1>2. Scheduler!Off \in Due
  BY SchedulerAssumption DEF Due, Scheduler!Off
<1>3. ScanTypes
  BY <1>1, <1>2, EmptyScan, SchedulerAssumption DEF ScanTypes
<1>4. OneWalk /\ Announced
  BY <1>1, EmptyScan DEF OneWalk, Announced, Covers, Scheduler!New
<1>5. IdleTypes
  BY <1>1, <1>2, FS_EmptySet, SchedulerAssumption DEF IdleTypes
<1> QED
  BY <1>1, <1>3, <1>4, <1>5 DEF SchedulerInv, ScanInv, IdleInv

\* And stays so.
LEMMA SchedulerKeeps ==
  ASSUME SchedulerInv, Scheduler!Next \/ UNCHANGED schedulerVars
  PROVE  SchedulerInv'
<1>1. CASE Scheduler!Next
  BY <1>1, ScanKeeps, IdleKeeps DEF SchedulerInv
<1>2. CASE UNCHANGED schedulerVars
  <2>1. UNCHANGED <<due, loop, scan, ingest, settling, idle, files, accepted, seen>>
    BY <1>2 DEF schedulerVars
  <2>2. settling \in [due : Due, left : 0 .. SETTLING_SCAN_LIMIT]
    BY DEF SchedulerInv, ScanInv, ScanTypes
  <2> QED BY <2>1, <2>2, ScanRests, IdleRestsWith DEF SchedulerInv
<1> QED
  BY <1>1, <1>2

\* What is promised of the scheduler follows.
LEMMA SchedulerPromised ==
  ASSUME SchedulerInv
  PROVE  Scheduler!TypeOK /\ Scheduler!RequestStandsUnrefused /\ Scheduler!CleanupRemembered
<1>1. Scheduler!TypeOK
  <2>1. /\ ingest \in Due /\ settling.due \in Due /\ settling.left \in 0 .. SETTLING_SCAN_LIMIT
    BY DEF SchedulerInv, ScanInv, ScanTypes
  <2>2. Scheduler!Cardinality(idle.pending) <= IDLE_QUEUE_LIMIT /\ idle.pending \cap idle.batch \in SUBSET Recordings
    BY SchedulerCardinality DEF SchedulerInv, IdleInv, IdleTypes
  <2>3. ~\E c, d \in Scheduler!Callers : c # d /\ scan[c].pc = "walk" /\ scan[d].pc = "walk"
    BY DEF SchedulerInv, ScanInv, OneWalk
  <2> QED BY <2>1, <2>2, <2>3 DEF Scheduler!TypeOK, Due
<1>2. Scheduler!RequestStandsUnrefused
  BY DEF SchedulerInv, ScanInv, Announced, Heeded, Scheduler!RequestStandsUnrefused
<1>3. Scheduler!CleanupRemembered
  BY DEF SchedulerInv, IdleInv, Scheduler!CleanupRemembered
<1> QED
  BY <1>1, <1>2, <1>3

-----------------------------------------------------------------------------
(* The log writer.                                                         *)

Window == [since : Nat, expired : BOOLEAN, suppressed : SUBSET Nat]

\* A sequence of records that have no occurrence in common.
Tidy(s) == s \in Seq(SUBSET Nat) /\ \A i, j \in 1 .. Len(s) : i # j => s[i] \cap s[j] = {}

\* The occurrences that are only counted.
Folded(w) == UNION {w[l].suppressed : l \in Lines}

WindowInv ==
  /\ window \in [Lines -> Window]
  /\ IsFiniteSet(LogSink!Open) /\ Cardinality(LogSink!Open) <= MaxKeys
  /\ \A l \in Lines : window[l].since = 0 => window[l].suppressed = {}
  /\ \A k, l \in Lines : k # l => window[k].suppressed \cap window[l].suppressed = {}

WriterInv ==
  /\ Tidy(queue) /\ Len(queue) <= Capacity
  /\ pump \in [pc : {"wait", "flush", "write", "ended"}, batch : Seq(SUBSET Nat)]
  /\ closing \in [pc : {"none", "join", "flush", "write", "closed"}, batch : Seq(SUBSET Nat), force : BOOLEAN, since : Nat]
  /\ fate \in [dropped : SUBSET Nat, failed : SUBSET Nat, cancelled : SUBSET Nat]
  /\ emitted \in 0 .. MaxSeen /\ closing.since <= emitted
  /\ pump.pc # "write" => pump.batch = <<>>
  /\ closing.pc # "write" => closing.batch = <<>>
  /\ closing.pc \in {"flush", "write", "closed"} => pump.pc = "ended"

\* The occurrences 1 .. n are queued, folded, in the hands of the writer or of the
\* last flush, stored or lost, and each in one way only.
Split(Q, W, P, C, L, X, n) ==
  /\ Q \cup W \cup P \cup C \cup L \cup X = 1 .. n
  /\ Q \cap (W \cup P \cup C \cup L \cup X) = {}
  /\ W \cap (P \cup C \cup L \cup X) = {}
  /\ P \cap (C \cup L \cup X) = {}
  /\ C \cap (L \cup X) = {}
  /\ L \cap X = {}

Located == Split(LogSink!Union(queue), Folded(window), LogSink!Union(pump.batch), LogSink!Union(closing.batch),
                 logs, LogSink!Lost, emitted)

\* Nothing that is older than the last flush is folded once it has swept, or
\* queued once it is over.
Drained ==
  /\ closing.pc \in {"write", "closed"} \/ (closing.pc = "flush" /\ ~closing.force)
       => Folded(window) \cap (1 .. closing.since) = {}
  /\ closing.pc = "closed" => LogSink!Union(queue) \cap (1 .. closing.since) = {}

LogsInv == WindowInv /\ WriterInv /\ Located /\ Drained

\* The log writer counts as everybody does.
LEMMA LogsCardinality == \A S : LogSink!Cardinality(S) = Cardinality(S)
BY DEF LogSink!Cardinality, Cardinality

\* An occurrence of a sequence is one of its records.
LEMMA InUnion ==
  ASSUME NEW s \in Seq(SUBSET Nat)
  PROVE  /\ \A o : o \in LogSink!Union(s) <=> \E i \in 1 .. Len(s) : o \in s[i]
         /\ LogSink!Union(s) \subseteq Nat
<1>1. DOMAIN s = 1 .. Len(s) /\ \A i \in 1 .. Len(s) : s[i] \subseteq Nat
  OBVIOUS
<1> QED
  BY <1>1 DEF LogSink!Union

\* Records in two sequences, one after the other.
LEMMA Joined ==
  ASSUME NEW s, NEW t, Tidy(s), Tidy(t), LogSink!Union(s) \cap LogSink!Union(t) = {}
  PROVE  Tidy(s \o t) /\ LogSink!Union(s \o t) = LogSink!Union(s) \cup LogSink!Union(t)
<1>1. s \in Seq(SUBSET Nat) /\ t \in Seq(SUBSET Nat)
  BY DEF Tidy
<1>2. /\ s \o t \in Seq(SUBSET Nat) /\ Len(s \o t) = Len(s) + Len(t)
      /\ Len(s) \in Nat /\ Len(t) \in Nat
      /\ \A i \in 1 .. Len(s) + Len(t) : (s \o t)[i] = IF i <= Len(s) THEN s[i] ELSE t[i - Len(s)]
  BY <1>1, ConcatProperties
<1>3. ASSUME NEW o PROVE o \in LogSink!Union(s \o t) <=> o \in LogSink!Union(s) \cup LogSink!Union(t)
  <2>1. ASSUME NEW i \in 1 .. Len(s \o t), o \in (s \o t)[i] PROVE o \in LogSink!Union(s) \cup LogSink!Union(t)
    <3>1. CASE i <= Len(s)
      <4>1. o \in s[i] /\ i \in 1 .. Len(s)
        BY <1>2, <2>1, <3>1
      <4> QED BY <1>1, <4>1, InUnion
    <3>2. CASE ~(i <= Len(s))
      <4>1. o \in t[i - Len(s)] /\ i - Len(s) \in 1 .. Len(t)
        BY <1>2, <2>1, <3>2
      <4> QED BY <1>1, <4>1, InUnion
    <3> QED BY <3>1, <3>2
  <2>2. ASSUME NEW i \in 1 .. Len(s), o \in s[i] PROVE o \in LogSink!Union(s \o t)
    <3>1. i \in 1 .. Len(s \o t) /\ o \in (s \o t)[i]
      BY <1>2, <2>2
    <3> QED BY <1>2, <3>1, InUnion
  <2>3. ASSUME NEW i \in 1 .. Len(t), o \in t[i] PROVE o \in LogSink!Union(s \o t)
    <3>1. i + Len(s) \in 1 .. Len(s \o t) /\ o \in (s \o t)[i + Len(s)]
      BY <1>2, <2>3
    <3> QED BY <1>2, <3>1, InUnion
  <2> QED BY <1>1, <1>2, <2>1, <2>2, <2>3, InUnion
<1>4. ASSUME NEW i \in 1 .. Len(s \o t), NEW j \in 1 .. Len(s \o t), i # j
      PROVE  (s \o t)[i] \cap (s \o t)[j] = {}
  <2>1. ASSUME NEW a \in 1 .. Len(s), NEW b \in 1 .. Len(t) PROVE s[a] \cap t[b] = {}
    <3>1. s[a] \subseteq LogSink!Union(s) /\ t[b] \subseteq LogSink!Union(t)
      BY <1>1, InUnion
    <3> QED BY <3>1
  <2>2. CASE i <= Len(s) /\ j <= Len(s)
    BY <1>2, <1>4, <2>2 DEF Tidy
  <2>3. CASE i <= Len(s) /\ ~(j <= Len(s))
    <3>1. i \in 1 .. Len(s) /\ j - Len(s) \in 1 .. Len(t) /\ (s \o t)[i] = s[i] /\ (s \o t)[j] = t[j - Len(s)]
      BY <1>2, <2>3
    <3> QED BY <2>1, <3>1
  <2>4. CASE ~(i <= Len(s)) /\ j <= Len(s)
    <3>1. j \in 1 .. Len(s) /\ i - Len(s) \in 1 .. Len(t) /\ (s \o t)[j] = s[j] /\ (s \o t)[i] = t[i - Len(s)]
      BY <1>2, <2>4
    <3> QED BY <2>1, <3>1
  <2>5. CASE ~(i <= Len(s)) /\ ~(j <= Len(s))
    <3>1. /\ i - Len(s) \in 1 .. Len(t) /\ j - Len(s) \in 1 .. Len(t) /\ i - Len(s) # j - Len(s)
          /\ (s \o t)[i] = t[i - Len(s)] /\ (s \o t)[j] = t[j - Len(s)]
      BY <1>2, <1>4, <2>5
    <3> QED BY <3>1 DEF Tidy
  <2> QED BY <2>2, <2>3, <2>4, <2>5
<1> QED
  BY <1>2, <1>3, <1>4 DEF Tidy

\* A sequence of records, cut in two.
LEMMA Cut ==
  ASSUME NEW s, Tidy(s), NEW k \in 0 .. Len(s)
  PROVE  /\ Tidy(SubSeq(s, k + 1, Len(s))) /\ Len(SubSeq(s, k + 1, Len(s))) = Len(s) - k
         /\ SubSeq(s, 1, k) \in Seq(SUBSET Nat) /\ Len(SubSeq(s, 1, k)) = k
         /\ LogSink!Union(SubSeq(s, 1, k)) \cup LogSink!Union(SubSeq(s, k + 1, Len(s))) = LogSink!Union(s)
         /\ LogSink!Union(SubSeq(s, 1, k)) \cap LogSink!Union(SubSeq(s, k + 1, Len(s))) = {}
<1> DEFINE a == SubSeq(s, 1, k)
           b == SubSeq(s, k + 1, Len(s))
<1>1. s \in Seq(SUBSET Nat) /\ Len(s) \in Nat /\ \A i \in 1 .. Len(s) : s[i] \in SUBSET Nat
  BY DEF Tidy
<1>2. /\ a \in Seq(SUBSET Nat) /\ Len(a) = k /\ \A i \in 1 .. k : a[i] = s[i]
  <2>1. /\ a \in Seq(SUBSET Nat) /\ Len(a) = IF 1 <= k THEN k - 1 + 1 ELSE 0
        /\ \A i \in 1 .. k - 1 + 1 : a[i] = s[1 + i - 1]
    BY <1>1, SubSeqProperties
  <2> HIDE DEF a
  <2> QED BY <1>1, <2>1
<1>3. /\ b \in Seq(SUBSET Nat) /\ Len(b) = Len(s) - k /\ \A i \in 1 .. Len(s) - k : b[i] = s[k + i]
  <2>1. /\ b \in Seq(SUBSET Nat) /\ Len(b) = IF k + 1 <= Len(s) THEN Len(s) - (k + 1) + 1 ELSE 0
        /\ \A i \in 1 .. Len(s) - (k + 1) + 1 : b[i] = s[k + 1 + i - 1]
    <3>1. k + 1 \in Int /\ Len(s) \in Int /\ \A i \in k + 1 .. Len(s) : s[i] \in SUBSET Nat
      BY <1>1
    <3> QED BY <3>1, SubSeqProperties
  <2> HIDE DEF b
  <2> QED BY <1>1, <2>1
<1> HIDE DEF a, b
<1>4. \A i, j \in 1 .. Len(s) : i # j => s[i] \cap s[j] = {}
  BY DEF Tidy
<1>5. Tidy(b)
  <2>1. ASSUME NEW i \in 1 .. Len(b), NEW j \in 1 .. Len(b), i # j PROVE b[i] \cap b[j] = {}
    <3>1. k + i \in 1 .. Len(s) /\ k + j \in 1 .. Len(s) /\ k + i # k + j /\ b[i] = s[k + i] /\ b[j] = s[k + j]
      BY <1>1, <1>3, <2>1
    <3> QED BY <1>4, <3>1
  <2> QED BY <1>3, <2>1 DEF Tidy
<1>6. ASSUME NEW o PROVE /\ o \in LogSink!Union(a) => o \in LogSink!Union(s)
                         /\ o \in LogSink!Union(b) => o \in LogSink!Union(s)
                         /\ o \in LogSink!Union(s) => o \in LogSink!Union(a) \cup LogSink!Union(b)
                         /\ o \notin LogSink!Union(a) \cap LogSink!Union(b)
  <2>1. ASSUME NEW i \in 1 .. Len(a), o \in a[i] PROVE i \in 1 .. Len(s) /\ o \in s[i]
    BY <1>1, <1>2, <2>1
  <2>2. ASSUME NEW i \in 1 .. Len(b), o \in b[i] PROVE k + i \in 1 .. Len(s) /\ o \in s[k + i]
    BY <1>1, <1>3, <2>2
  <2>3. ASSUME NEW i \in 1 .. Len(s), o \in s[i]
        PROVE  \/ \E j \in 1 .. Len(a) : o \in a[j]
               \/ \E j \in 1 .. Len(b) : o \in b[j]
    <3>1. CASE i <= k
      BY <1>1, <1>2, <2>3, <3>1
    <3>2. CASE ~(i <= k)
      <4>1. i - k \in 1 .. Len(b) /\ b[i - k] = s[i]
        BY <1>1, <1>3, <3>2
      <4> QED BY <2>3, <4>1
    <3> QED BY <3>1, <3>2
  <2>4. ASSUME NEW i \in 1 .. Len(a), NEW j \in 1 .. Len(b), o \in a[i], o \in b[j] PROVE FALSE
    <3>1. i \in 1 .. Len(s) /\ k + j \in 1 .. Len(s) /\ i # k + j /\ o \in s[i] /\ o \in s[k + j]
      BY <1>1, <1>2, <1>3, <2>4
    <3> QED BY <1>4, <3>1
  <2>5. /\ o \in LogSink!Union(a) <=> \E i \in 1 .. Len(a) : o \in a[i]
        /\ o \in LogSink!Union(b) <=> \E i \in 1 .. Len(b) : o \in b[i]
        /\ o \in LogSink!Union(s) <=> \E i \in 1 .. Len(s) : o \in s[i]
    BY <1>1, <1>2, <1>3, InUnion
  <2>6. o \in LogSink!Union(a) => o \in LogSink!Union(s)
    BY <2>1, <2>5
  <2>7. o \in LogSink!Union(b) => o \in LogSink!Union(s)
    BY <2>2, <2>5
  <2>8. o \in LogSink!Union(s) => o \in LogSink!Union(a) \cup LogSink!Union(b)
    BY <2>3, <2>5
  <2>9. o \notin LogSink!Union(a) \cap LogSink!Union(b)
    BY <2>4, <2>5
  <2> QED BY <2>6, <2>7, <2>8, <2>9
<1>7. LogSink!Union(a) \cup LogSink!Union(b) = LogSink!Union(s) /\ LogSink!Union(a) \cap LogSink!Union(b) = {}
  BY <1>6
<1> QED
  BY <1>2, <1>3, <1>5, <1>7 DEF a, b

\* One record, or none.
LEMMA OneRecord ==
  ASSUME NEW r \in SUBSET Nat
  PROVE  /\ Tidy(<<r>>) /\ LogSink!Union(<<r>>) = r
         /\ Tidy(<<>>) /\ LogSink!Union(<<>>) = {}
<1>1. <<r>> \in Seq(SUBSET Nat) /\ Len(<<r>>) = 1 /\ <<r>>[1] = r
  OBVIOUS
<1>2. Tidy(<<r>>)
  BY <1>1 DEF Tidy
<1>3. LogSink!Union(<<r>>) = r
  <2>1. DOMAIN <<r>> = {1}
    OBVIOUS
  <2>2. {<<r>>[i] : i \in {1}} = {r}
    BY <1>1
  <2> QED BY <2>1, <2>2 DEF LogSink!Union
<1>4. Tidy(<<>>) /\ LogSink!Union(<<>>) = {}
  BY DEF Tidy, LogSink!Union
<1> QED
  BY <1>2, <1>3, <1>4

\* Some records are enqueued: each occurrence is in the queue or was pushed out
\* of it, and not both.
LEMMA Enqueues ==
  ASSUME Tidy(queue), fate.dropped \in SUBSET Nat, NEW s, Tidy(s),
         LogSink!Union(queue) \cap LogSink!Union(s) = {},
         fate.dropped \cap (LogSink!Union(queue) \cup LogSink!Union(s)) = {}
  PROVE  LET q == LogSink!_enqueue_locked(s) IN
         /\ Tidy(q.queue) /\ Len(q.queue) <= Capacity /\ q.dropped \in SUBSET Nat
         /\ fate.dropped \subseteq q.dropped
         /\ LogSink!Union(q.queue) \cup q.dropped = LogSink!Union(queue) \cup LogSink!Union(s) \cup fate.dropped
         /\ LogSink!Union(q.queue) \cap q.dropped = {}
<1> DEFINE all == queue \o s
           over == IF Len(all) > Capacity THEN Len(all) - Capacity ELSE 0
           q == LogSink!_enqueue_locked(s)
<1>1. Tidy(all) /\ LogSink!Union(all) = LogSink!Union(queue) \cup LogSink!Union(s)
  BY Joined
<1>2. Len(all) \in Nat
  BY <1>1 DEF Tidy
<1>3. q = [queue |-> SubSeq(all, over + 1, Len(all)), dropped |-> fate.dropped \cup LogSink!Union(SubSeq(all, 1, over))]
  BY DEF LogSink!_enqueue_locked
<1> HIDE DEF all
<1>4. over \in 0 .. Len(all) /\ Len(all) - over <= Capacity
  BY <1>2, LogAssumption
<1> HIDE DEF over, q
<1>5. /\ Tidy(SubSeq(all, over + 1, Len(all))) /\ Len(SubSeq(all, over + 1, Len(all))) = Len(all) - over
      /\ SubSeq(all, 1, over) \in Seq(SUBSET Nat)
      /\ LogSink!Union(SubSeq(all, 1, over)) \cup LogSink!Union(SubSeq(all, over + 1, Len(all))) = LogSink!Union(all)
      /\ LogSink!Union(SubSeq(all, 1, over)) \cap LogSink!Union(SubSeq(all, over + 1, Len(all))) = {}
  BY <1>1, <1>4, Cut
<1>6. LogSink!Union(SubSeq(all, 1, over)) \subseteq Nat
  BY <1>5, InUnion
<1>7. q.queue = SubSeq(all, over + 1, Len(all)) /\ q.dropped = fate.dropped \cup LogSink!Union(SubSeq(all, 1, over))
  BY <1>3
<1>8. Tidy(q.queue) /\ Len(q.queue) <= Capacity
  BY <1>4, <1>5, <1>7
<1>9. /\ q.dropped \in SUBSET Nat /\ fate.dropped \subseteq q.dropped
      /\ LogSink!Union(q.queue) \cup q.dropped = LogSink!Union(queue) \cup LogSink!Union(s) \cup fate.dropped
      /\ LogSink!Union(q.queue) \cap q.dropped = {}
  BY <1>1, <1>5, <1>6, <1>7
<1> QED
  BY <1>8, <1>9 DEF q

\* A batch is taken from the front.
LEMMA Takes ==
  ASSUME NEW s, Tidy(s)
  PROVE  /\ Tidy(LogSink!Left(s)) /\ Len(LogSink!Left(s)) <= Len(s) /\ LogSink!Take(s) \in Seq(SUBSET Nat)
         /\ LogSink!Union(LogSink!Take(s)) \cup LogSink!Union(LogSink!Left(s)) = LogSink!Union(s)
         /\ LogSink!Union(LogSink!Take(s)) \cap LogSink!Union(LogSink!Left(s)) = {}
         /\ LogSink!Take(s) = <<>> => LogSink!Union(s) = {}
<1>1. Len(s) \in Nat
  BY DEF Tidy
<1>2. LogSink!Taken(s) \in 0 .. Len(s) /\ (LogSink!Taken(s) = 0 => Len(s) = 0)
  BY <1>1, LogAssumption DEF LogSink!Taken
<1>3. /\ Tidy(LogSink!Left(s)) /\ Len(LogSink!Left(s)) = Len(s) - LogSink!Taken(s)
      /\ LogSink!Take(s) \in Seq(SUBSET Nat) /\ Len(LogSink!Take(s)) = LogSink!Taken(s)
      /\ LogSink!Union(LogSink!Take(s)) \cup LogSink!Union(LogSink!Left(s)) = LogSink!Union(s)
      /\ LogSink!Union(LogSink!Take(s)) \cap LogSink!Union(LogSink!Left(s)) = {}
  BY <1>2, Cut DEF LogSink!Take, LogSink!Left
<1>4. ASSUME LogSink!Take(s) = <<>> PROVE LogSink!Union(s) = {}
  <2>1. Len(s) = 0
    BY <1>2, <1>3, <1>4
  <2>2. s \in Seq(SUBSET Nat)
    BY DEF Tidy
  <2>3. \A o : o \notin LogSink!Union(s)
    <3>1. \A i \in 1 .. Len(s) : FALSE
      BY <2>1
    <3> QED BY <2>2, <3>1, InUnion
  <2> QED BY <2>3
<1> QED
  BY <1>1, <1>2, <1>3, <1>4

\* The summary of a window.
LEMMA Summarises ==
  ASSUME WindowInv, NEW l \in Lines
  PROVE  /\ Tidy(LogSink!Summary(l)) /\ LogSink!Union(LogSink!Summary(l)) = window[l].suppressed
         /\ window[l].suppressed \in SUBSET Nat /\ window[l].suppressed \subseteq Folded(window)
<1>1. window[l].suppressed \in SUBSET Nat
  BY DEF WindowInv, Window
<1>2. Tidy(LogSink!Summary(l)) /\ LogSink!Union(LogSink!Summary(l)) = window[l].suppressed
  BY <1>1, OneRecord DEF LogSink!Summary
<1> QED
  BY <1>1, <1>2 DEF Folded

\* The summaries of the windows that are over, in any order.
LEMMA Sweeps ==
  ASSUME WindowInv, NEW force, NEW q \in LogSink!_sweep_locked(force)
  PROVE  \E s : /\ Tidy(s) /\ q = LogSink!_enqueue_locked(s)
                /\ LogSink!Union(s) = UNION {window[l].suppressed : l \in LogSink!Swept(force)}
<1> DEFINE summed == {l \in LogSink!Swept(force) : window[l].suppressed # {}}
           c == Cardinality(summed)
<1>1. PICK f \in LogSink!Bijection(1 .. LogSink!Cardinality(summed), summed) :
             q = LogSink!_enqueue_locked([i \in DOMAIN f |-> window[f[i]].suppressed])
  BY DEF LogSink!_sweep_locked
<1>2. /\ f \in [1 .. c -> summed]
      /\ \A i, j \in 1 .. c : f[i] = f[j] => i = j
      /\ \A l \in summed : \E i \in 1 .. c : f[i] = l
  <2>1. f \in LogSink!Bijection(1 .. c, summed)
    BY <1>1, LogsCardinality
  <2> HIDE DEF c, summed
  <2> QED BY <2>1 DEF LogSink!Bijection, LogSink!Injection, LogSink!Surjection, LogSink!IsInjective
<1>3. summed \subseteq LogSink!Open /\ summed \subseteq Lines
  BY DEF LogSink!Swept, LogSink!Open
<1>4. c \in Nat
  <2>1. IsFiniteSet(summed)
    BY <1>3, FS_Subset DEF WindowInv
  <2> QED BY <2>1, FS_CardinalityType
<1>5. \A l \in summed : window[l].suppressed \in SUBSET Nat
  BY <1>3 DEF WindowInv, Window
<1>6. \A k, l \in summed : k # l => window[k].suppressed \cap window[l].suppressed = {}
  BY <1>3 DEF WindowInv
<1>7. UNION {window[l].suppressed : l \in LogSink!Swept(force)} = UNION {window[l].suppressed : l \in summed}
  OBVIOUS
<1> HIDE DEF c, summed
<1> DEFINE s == [i \in 1 .. c |-> window[f[i]].suppressed]
<1>8. q = LogSink!_enqueue_locked(s)
  BY <1>1, <1>2
<1>9. s \in Seq(SUBSET Nat) /\ Len(s) = c /\ \A i \in 1 .. c : s[i] = window[f[i]].suppressed
  BY <1>2, <1>4, <1>5
<1> HIDE DEF s
<1>10. Tidy(s)
  <2>1. ASSUME NEW i \in 1 .. c, NEW j \in 1 .. c, i # j PROVE s[i] \cap s[j] = {}
    <3>1. f[i] \in summed /\ f[j] \in summed /\ f[i] # f[j]
      BY <1>2, <2>1
    <3> QED BY <1>6, <1>9, <2>1, <3>1
  <2> QED BY <1>9, <2>1 DEF Tidy
<1>11. LogSink!Union(s) = UNION {window[l].suppressed : l \in summed}
  <2>1. ASSUME NEW o, NEW i \in 1 .. Len(s), o \in s[i] PROVE \E l \in summed : o \in window[l].suppressed
    BY <1>2, <1>9, <2>1
  <2>2. ASSUME NEW o, NEW l \in summed, o \in window[l].suppressed PROVE \E i \in 1 .. Len(s) : o \in s[i]
    BY <1>2, <1>9, <2>2
  <2> QED BY <1>9, <2>1, <2>2, InUnion
<1> QED
  BY <1>7, <1>8, <1>10, <1>11

\* Occurrences go into the queue, or out of it and are lost.
LEMMA SplitEmits ==
  ASSUME NEW Q, NEW W, NEW P, NEW C, NEW L, NEW D, NEW F, NEW n \in Nat, Split(Q, W, P, C, L, D \cup F, n),
         NEW R \in SUBSET W, NEW Q2, NEW D2, D \subseteq D2, Q2 \cap D2 = {},
         Q2 \cup D2 = Q \cup (R \cup {n + 1}) \cup D
  PROVE  Split(Q2, W \ R, P, C, L, D2 \cup F, n + 1)
<1>1. 1 .. n + 1 = (1 .. n) \cup {n + 1} /\ n + 1 \notin 1 .. n
  OBVIOUS
<1>2. n + 1 \notin Q \cup W \cup P \cup C \cup L \cup D \cup F
  BY <1>1 DEF Split
<1>3. Q2 \cup (W \ R) \cup P \cup C \cup L \cup (D2 \cup F) = 1 .. n + 1
  BY <1>1 DEF Split
<1>4. Q2 \subseteq Q \cup R \cup {n + 1} /\ D2 \subseteq Q \cup R \cup {n + 1} \cup D
  OBVIOUS
<1>5. Q2 \cap ((W \ R) \cup P \cup C \cup L \cup (D2 \cup F)) = {}
  BY <1>2, <1>4 DEF Split
<1>6. (W \ R) \cap (P \cup C \cup L \cup (D2 \cup F)) = {}
  BY <1>2, <1>4 DEF Split
<1>7. P \cap (C \cup L \cup (D2 \cup F)) = {} /\ C \cap (L \cup (D2 \cup F)) = {} /\ L \cap (D2 \cup F) = {}
  BY <1>2, <1>4 DEF Split
<1> QED
  BY <1>3, <1>5, <1>6, <1>7 DEF Split

\* Occurrences go into the queue and a batch A out of it.
LEMMA SplitSweeps ==
  ASSUME NEW Q, NEW W, NEW P, NEW C, NEW L, NEW D, NEW F, NEW n \in Nat, Split(Q, W, P, C, L, D \cup F, n),
         NEW R \in SUBSET W, NEW A, NEW B, NEW D2, D \subseteq D2, (A \cup B) \cap D2 = {}, A \cap B = {},
         A \cup B \cup D2 = Q \cup R \cup D
  PROVE  /\ P = {} => Split(B, W \ R, A, C, L, D2 \cup F, n)
         /\ C = {} => Split(B, W \ R, P, A, L, D2 \cup F, n)
<1>1. A \cup B \subseteq Q \cup R /\ D2 \subseteq Q \cup R \cup D
  OBVIOUS
<1>2. ASSUME P = {} PROVE Split(B, W \ R, A, C, L, D2 \cup F, n)
  BY <1>1, <1>2 DEF Split
<1>3. ASSUME C = {} PROVE Split(B, W \ R, P, A, L, D2 \cup F, n)
  BY <1>1, <1>3 DEF Split
<1> QED
  BY <1>2, <1>3

\* Some windows end, or open anew.
LEMMA WindowsEnd ==
  ASSUME WindowInv, NEW w \in [Lines -> Window], NEW E \in SUBSET Lines,
         \A k \in E : w[k].suppressed = {}, \A k \in Lines \ E : w[k] = window[k]
  PROVE  /\ Folded(w) = Folded(window) \ UNION {window[k].suppressed : k \in E}
         /\ UNION {window[k].suppressed : k \in E} \subseteq Folded(window)
         /\ \A l \in Lines : w[l].since = 0 => w[l].suppressed = {}
         /\ \A k, l \in Lines : k # l => w[k].suppressed \cap w[l].suppressed = {}
<1>1. \A k, l \in Lines : k # l => window[k].suppressed \cap window[l].suppressed = {}
  BY DEF WindowInv
<1>2. \A l \in Lines : w[l].suppressed = IF l \in E THEN {} ELSE window[l].suppressed
  OBVIOUS
<1>3. ASSUME NEW o PROVE o \in Folded(w) <=> o \in Folded(window) /\ ~\E k \in E : o \in window[k].suppressed
  <2>1. o \in Folded(w) <=> \E l \in Lines : o \in w[l].suppressed
    BY DEF Folded
  <2>2. o \in Folded(window) <=> \E l \in Lines : o \in window[l].suppressed
    BY DEF Folded
  <2> QED BY <1>1, <1>2, <2>1, <2>2
<1>4. Folded(w) = Folded(window) \ UNION {window[k].suppressed : k \in E}
  BY <1>3
<1>5. UNION {window[k].suppressed : k \in E} \subseteq Folded(window)
  BY DEF Folded
<1>6. \A l \in Lines : w[l].since = 0 => w[l].suppressed = {}
  BY <1>2 DEF WindowInv
<1>7. \A k, l \in Lines : k # l => w[k].suppressed \cap w[l].suppressed = {}
  BY <1>1, <1>2
<1> QED
  BY <1>4, <1>5, <1>6, <1>7

\* A window that has just opened, or none.
LEMMA Fresh ==
  ASSUME NEW n \in Nat
  PROVE  LogSink!Opened(n) \in Window /\ LogSink!Opened(n).suppressed = {} /\ LogSink!Opened(n).since = n
<1>1. LogSink!Opened(n) \in Window
  BY DEF LogSink!Opened, Window
<1>2. LogSink!Opened(n).suppressed = {} /\ LogSink!Opened(n).since = n
  BY DEF LogSink!Opened
<1> QED
  BY <1>1, <1>2

\* What was lost is what was pushed out and what else was lost.
Otherwise == fate.failed \cup fate.cancelled

\* What the lock guards, after a sweep and a batch taken: the batch, the queue and
\* the occurrences pushed out share those there were, and folded ones R.
LEMMA SweepTakes ==
  ASSUME WindowInv, WriterInv, Located, NEW force, NEW q, LogSink!SweepAndTake(force, q)
  PROVE  /\ WindowInv' /\ Tidy(queue') /\ Len(queue') <= Capacity
         /\ fate' \in [dropped : SUBSET Nat, failed : SUBSET Nat, cancelled : SUBSET Nat] /\ Otherwise' = Otherwise
         /\ LogSink!Take(q.queue) \in Seq(SUBSET Nat)
         /\ LogSink!Take(q.queue) = <<>> => LogSink!Union(queue') = {}
         /\ force => Folded(window') = {}
         /\ \E R \in SUBSET Folded(window) :
              /\ Folded(window') = Folded(window) \ R
              /\ fate.dropped \subseteq fate'.dropped
              /\ (LogSink!Union(LogSink!Take(q.queue)) \cup LogSink!Union(queue')) \cap fate'.dropped = {}
              /\ LogSink!Union(LogSink!Take(q.queue)) \cap LogSink!Union(queue') = {}
              /\ LogSink!Union(LogSink!Take(q.queue)) \cup LogSink!Union(queue') \cup fate'.dropped
                   = LogSink!Union(queue) \cup R \cup fate.dropped
<1>1. /\ q \in LogSink!_sweep_locked(force) /\ queue' = LogSink!Left(q.queue)
      /\ window' = [l \in Lines |-> IF l \in LogSink!Swept(force) THEN LogSink!NoWindow ELSE window[l]]
      /\ fate' = [fate EXCEPT !.dropped = q.dropped]
  BY DEF LogSink!SweepAndTake
<1>2. PICK s : /\ Tidy(s) /\ q = LogSink!_enqueue_locked(s)
               /\ LogSink!Union(s) = UNION {window[l].suppressed : l \in LogSink!Swept(force)}
  BY <1>1, Sweeps
<1> DEFINE R == UNION {window[l].suppressed : l \in LogSink!Swept(force)}
<1>3. LogSink!Swept(force) \subseteq LogSink!Open /\ LogSink!Open \subseteq Lines
  BY DEF LogSink!Swept, LogSink!Open
<1>4. window \in [Lines -> Window] /\ LogSink!NoWindow \in Window /\ LogSink!NoWindow.suppressed = {}
      /\ LogSink!NoWindow.since = 0
  BY Fresh DEF WindowInv, LogSink!NoWindow
<1>5. window' \in [Lines -> Window]
  BY <1>1, <1>4
<1>6. /\ Folded(window') = Folded(window) \ R /\ R \subseteq Folded(window)
      /\ \A l \in Lines : window'[l].since = 0 => window'[l].suppressed = {}
      /\ \A k, l \in Lines : k # l => window'[k].suppressed \cap window'[l].suppressed = {}
  <2>1. /\ LogSink!Swept(force) \in SUBSET Lines
        /\ \A k \in LogSink!Swept(force) : window'[k].suppressed = {}
        /\ \A k \in Lines \ LogSink!Swept(force) : window'[k] = window[k]
    BY <1>1, <1>3, <1>4
  <2> QED BY <1>5, <2>1, WindowsEnd
<1>7. LogSink!Open' \subseteq LogSink!Open
  BY <1>1, <1>4 DEF LogSink!Open
<1>8. IsFiniteSet(LogSink!Open') /\ Cardinality(LogSink!Open') <= MaxKeys
  <2>1. /\ IsFiniteSet(LogSink!Open') /\ Cardinality(LogSink!Open') <= Cardinality(LogSink!Open)
        /\ Cardinality(LogSink!Open') \in Nat /\ Cardinality(LogSink!Open) \in Nat
    BY <1>7, FS_Subset, FS_CardinalityType DEF WindowInv
  <2> QED BY <2>1, LogAssumption DEF WindowInv
<1>9. WindowInv'
  BY <1>5, <1>6, <1>8 DEF WindowInv
<1>10. ASSUME force PROVE Folded(window') = {}
  <2>1. LogSink!Swept(force) = LogSink!Open
    BY <1>10 DEF LogSink!Swept
  <2>2. \A l \in Lines : window'[l].suppressed = {}
    BY <1>1, <1>4, <2>1 DEF WindowInv, LogSink!Open
  <2> QED BY <2>2 DEF Folded
<1>11. /\ Tidy(queue) /\ Len(queue) <= Capacity
       /\ fate \in [dropped : SUBSET Nat, failed : SUBSET Nat, cancelled : SUBSET Nat]
  BY DEF WriterInv
<1>12. /\ LogSink!Union(queue) \cap R = {}
       /\ fate.dropped \cap (LogSink!Union(queue) \cup R) = {}
  BY <1>6 DEF Located, Split, LogSink!Lost
<1> HIDE DEF R
<1>13. LogSink!Union(s) = R
  BY <1>2 DEF R
<1>14. /\ Tidy(q.queue) /\ Len(q.queue) <= Capacity /\ q.dropped \in SUBSET Nat
       /\ fate.dropped \subseteq q.dropped
       /\ LogSink!Union(q.queue) \cup q.dropped = LogSink!Union(queue) \cup R \cup fate.dropped
       /\ LogSink!Union(q.queue) \cap q.dropped = {}
  <2>1. fate.dropped \in SUBSET Nat
    BY <1>11
  <2> QED BY <1>2, <1>11, <1>12, <1>13, <2>1, Enqueues
<1>15. /\ Tidy(queue') /\ Len(queue') <= Len(q.queue) /\ LogSink!Take(q.queue) \in Seq(SUBSET Nat)
       /\ LogSink!Union(LogSink!Take(q.queue)) \cup LogSink!Union(queue') = LogSink!Union(q.queue)
       /\ LogSink!Union(LogSink!Take(q.queue)) \cap LogSink!Union(queue') = {}
       /\ LogSink!Take(q.queue) = <<>> => LogSink!Union(q.queue) = {}
  BY <1>1, <1>14, Takes
<1>16. /\ fate' \in [dropped : SUBSET Nat, failed : SUBSET Nat, cancelled : SUBSET Nat]
       /\ fate'.dropped = q.dropped /\ fate'.failed = fate.failed /\ fate'.cancelled = fate.cancelled
  BY <1>1, <1>11, <1>14
<1>17. Otherwise' = Otherwise
  BY <1>16 DEF Otherwise
<1>18. Len(queue') <= Capacity
  <2>1. Len(queue') \in Nat /\ Len(q.queue) \in Nat
    BY <1>14, <1>15 DEF Tidy
  <2> QED BY <1>14, <1>15, <2>1, LogAssumption
<1>19. LogSink!Take(q.queue) = <<>> => LogSink!Union(queue') = {}
  BY <1>15
<1>20. /\ R \in SUBSET Folded(window) /\ Folded(window') = Folded(window) \ R
       /\ fate.dropped \subseteq fate'.dropped
       /\ (LogSink!Union(LogSink!Take(q.queue)) \cup LogSink!Union(queue')) \cap fate'.dropped = {}
       /\ LogSink!Union(LogSink!Take(q.queue)) \cap LogSink!Union(queue') = {}
       /\ LogSink!Union(LogSink!Take(q.queue)) \cup LogSink!Union(queue') \cup fate'.dropped
            = LogSink!Union(queue) \cup R \cup fate.dropped
  BY <1>6, <1>14, <1>15, <1>16
<1> QED
  BY <1>9, <1>10, <1>15, <1>16, <1>17, <1>18, <1>19, <1>20

\* Records, the new one among them, are queued, and the windows E end or open anew.
LEMMA Opens ==
  ASSUME LogsInv, NEW E \in SUBSET Lines, window' \in [Lines -> Window],
         \A k \in E : window'[k].suppressed = {}, \A k \in Lines \ E : window'[k] = window[k],
         IsFiniteSet(LogSink!Open'), Cardinality(LogSink!Open') <= MaxKeys,
         NEW s, Tidy(s), LogSink!Union(s) = (UNION {window[k].suppressed : k \in E}) \cup {emitted + 1},
         LogSink!Set(LogSink!_enqueue_locked(s)), emitted' = emitted + 1, emitted + 1 <= MaxSeen,
         UNCHANGED <<pump, closing, logs>>
  PROVE  LogsInv'
<1> DEFINE R == UNION {window[k].suppressed : k \in E}
           q == LogSink!_enqueue_locked(s)
<1>1. /\ Folded(window') = Folded(window) \ R /\ R \subseteq Folded(window)
      /\ \A l \in Lines : window'[l].since = 0 => window'[l].suppressed = {}
      /\ \A k, l \in Lines : k # l => window'[k].suppressed \cap window'[l].suppressed = {}
  BY WindowsEnd DEF LogsInv
<1>2. WindowInv'
  BY <1>1 DEF WindowInv
<1> HIDE DEF R
<1>3. /\ Tidy(queue) /\ Len(queue) <= Capacity /\ emitted \in Nat
      /\ fate \in [dropped : SUBSET Nat, failed : SUBSET Nat, cancelled : SUBSET Nat]
  BY LogAssumption DEF LogsInv, WriterInv
<1>4. Split(LogSink!Union(queue), Folded(window), LogSink!Union(pump.batch), LogSink!Union(closing.batch),
            logs, fate.dropped \cup Otherwise, emitted)
  <2>1. LogSink!Lost = fate.dropped \cup Otherwise
    BY DEF LogSink!Lost, Otherwise
  <2> QED BY <2>1 DEF LogsInv, Located
<1>5. LogSink!Union(s) = R \cup {emitted + 1}
  BY DEF R
<1>6. /\ LogSink!Union(queue) \cap LogSink!Union(s) = {}
      /\ fate.dropped \cap (LogSink!Union(queue) \cup LogSink!Union(s)) = {}
  <2>1. emitted + 1 \notin 1 .. emitted
    BY <1>3
  <2> QED BY <1>1, <1>4, <1>5, <2>1 DEF Split
<1>7. /\ Tidy(q.queue) /\ Len(q.queue) <= Capacity /\ q.dropped \in SUBSET Nat
      /\ fate.dropped \subseteq q.dropped
      /\ LogSink!Union(q.queue) \cup q.dropped = LogSink!Union(queue) \cup LogSink!Union(s) \cup fate.dropped
      /\ LogSink!Union(q.queue) \cap q.dropped = {}
  <2>1. fate.dropped \in SUBSET Nat
    BY <1>3
  <2> QED BY <1>3, <1>6, <2>1, Enqueues
<1>8. queue' = q.queue /\ fate' = [fate EXCEPT !.dropped = q.dropped]
  BY DEF LogSink!Set
<1> HIDE DEF q
<1>9. /\ fate' \in [dropped : SUBSET Nat, failed : SUBSET Nat, cancelled : SUBSET Nat]
      /\ fate'.dropped = q.dropped /\ fate'.failed = fate.failed /\ fate'.cancelled = fate.cancelled
  BY <1>3, <1>7, <1>8
<1>10. emitted' \in 0 .. MaxSeen /\ closing.since <= emitted'
  <2>1. closing.since \in Nat /\ closing.since <= emitted
    BY DEF LogsInv, WriterInv
  <2> QED BY <1>3, <2>1, LogAssumption
<1>11. WriterInv'
  BY <1>7, <1>8, <1>9, <1>10 DEF LogsInv, WriterInv
<1>12. Split(LogSink!Union(q.queue), Folded(window) \ R, LogSink!Union(pump.batch), LogSink!Union(closing.batch),
             logs, q.dropped \cup Otherwise, emitted + 1)
  <2>1. /\ R \in SUBSET Folded(window) /\ emitted \in Nat /\ fate.dropped \subseteq q.dropped
        /\ LogSink!Union(q.queue) \cap q.dropped = {}
        /\ LogSink!Union(q.queue) \cup q.dropped = LogSink!Union(queue) \cup (R \cup {emitted + 1}) \cup fate.dropped
    BY <1>1, <1>3, <1>5, <1>7
  <2> QED BY <1>4, <2>1, SplitEmits
<1>13. Located'
  <2>1. LogSink!Lost' = q.dropped \cup Otherwise
    BY <1>9 DEF LogSink!Lost, Otherwise
  <2>2. LogSink!Union(queue') = LogSink!Union(q.queue) /\ LogSink!Union(queue)' = LogSink!Union(queue')
    BY <1>8 DEF LogSink!Union
  <2>3. LogSink!Union(pump.batch)' = LogSink!Union(pump.batch) /\ LogSink!Union(closing.batch)' = LogSink!Union(closing.batch)
    BY DEF LogSink!Union
  <2> QED BY <1>1, <1>12, <2>1, <2>2, <2>3 DEF Located
<1>14. Drained'
  <2>1. /\ Folded(window') \subseteq Folded(window)
        /\ LogSink!Union(queue') \subseteq LogSink!Union(queue) \cup Folded(window) \cup {emitted + 1}
    BY <1>1, <1>5, <1>7, <1>8
  <2>2. emitted + 1 \notin 1 .. closing.since
    <3>1. closing.since \in Nat /\ closing.since <= emitted
      BY DEF LogsInv, WriterInv
    <3> QED BY <1>3, <3>1
  <2>3. UNCHANGED closing /\ Drained
    BY DEF LogsInv
  <2> QED BY <2>1, <2>2, <2>3 DEF Drained
<1> QED
  BY <1>2, <1>11, <1>13, <1>14 DEF LogsInv

\* A repeat is counted in its window.
LEMMA Repeats ==
  ASSUME LogsInv, NEW l \in LogSink!Open, window' = [window EXCEPT ![l].suppressed = @ \cup {emitted + 1}],
         UNCHANGED <<queue, fate, pump, closing, logs>>, emitted' = emitted + 1, emitted + 1 <= MaxSeen
  PROVE  LogsInv'
<1> DEFINE n == emitted + 1
<1>1. /\ window \in [Lines -> Window] /\ l \in Lines /\ window[l].since # 0 /\ emitted \in Nat
      /\ closing.since \in Nat /\ closing.since <= emitted
  BY LogAssumption DEF LogsInv, WindowInv, WriterInv, LogSink!Open
<1>2. n \in Nat /\ n \notin 1 .. emitted /\ 1 .. n = (1 .. emitted) \cup {n} /\ n \notin 1 .. closing.since
      /\ n \in 0 .. MaxSeen /\ closing.since <= n
  BY <1>1, LogAssumption
<1>3. window' = [window EXCEPT ![l].suppressed = @ \cup {n}] /\ emitted' = n
  OBVIOUS
<1> HIDE DEF n
<1>4. /\ window'[l] \in Window /\ window'[l].since = window[l].since
      /\ window'[l].suppressed = window[l].suppressed \cup {n}
  <2>1. window[l] \in Window /\ window'[l] = [window[l] EXCEPT !.suppressed = window[l].suppressed \cup {n}]
    BY <1>1, <1>3
  <2> QED BY <1>2, <2>1 DEF Window
<1>5. \A k \in Lines : k # l => window'[k] = window[k]
  BY <1>1, <1>3
<1>6. window' \in [Lines -> Window]
  <2>1. DOMAIN window' = Lines /\ window' = [k \in Lines |-> window'[k]]
    BY <1>1, <1>3
  <2>2. \A k \in Lines : window'[k] \in Window
    BY <1>1, <1>4, <1>5
  <2> QED BY <2>1, <2>2
<1>7. Folded(window') = Folded(window) \cup {n}
  <2>1. ASSUME NEW o PROVE o \in Folded(window') <=> o \in Folded(window) \cup {n}
    <3>1. o \in Folded(window') <=> \E k \in Lines : o \in window'[k].suppressed
      BY DEF Folded
    <3>2. o \in Folded(window) <=> \E k \in Lines : o \in window[k].suppressed
      BY DEF Folded
    <3>3. ASSUME NEW k \in Lines, o \in window'[k].suppressed PROVE o \in Folded(window) \cup {n}
      <4>1. CASE k = l
        BY <1>4, <3>2, <3>3, <4>1
      <4>2. CASE k # l
        BY <1>5, <3>2, <3>3, <4>2
      <4> QED BY <4>1, <4>2
    <3>4. ASSUME NEW k \in Lines, o \in window[k].suppressed PROVE o \in window'[k].suppressed
      <4>1. CASE k = l
        BY <1>4, <3>4, <4>1
      <4>2. CASE k # l
        BY <1>5, <3>4, <4>2
      <4> QED BY <4>1, <4>2
    <3>5. n \in window'[l].suppressed
      BY <1>4
    <3> QED BY <1>1, <3>1, <3>2, <3>3, <3>4, <3>5
  <2> QED BY <2>1
<1>8. n \notin Folded(window)
  BY <1>2 DEF LogsInv, Located, Split
<1>9. WindowInv'
  <2>1. LogSink!Open' = LogSink!Open
    BY <1>4, <1>5 DEF LogSink!Open
  <2>2. \A k \in Lines : window'[k].since = 0 => window'[k].suppressed = {}
    BY <1>1, <1>4, <1>5 DEF LogsInv, WindowInv
  <2>3. ASSUME NEW j \in Lines, NEW k \in Lines, j # k PROVE window'[j].suppressed \cap window'[k].suppressed = {}
    <3>1. window[j].suppressed \cap window[k].suppressed = {}
      BY <2>3 DEF LogsInv, WindowInv
    <3>2. n \notin window[j].suppressed /\ n \notin window[k].suppressed
      BY <1>8 DEF Folded
    <3> QED BY <1>4, <1>5, <2>3, <3>1, <3>2
  <2> QED BY <1>6, <2>1, <2>2, <2>3 DEF LogsInv, WindowInv
<1>10. WriterInv'
  BY <1>2, <1>3 DEF LogsInv, WriterInv
<1>11. Located'
  <2>1. LogSink!Lost' = LogSink!Lost
    BY DEF LogSink!Lost
  <2>2. /\ LogSink!Union(queue)' = LogSink!Union(queue)
        /\ LogSink!Union(pump.batch)' = LogSink!Union(pump.batch)
        /\ LogSink!Union(closing.batch)' = LogSink!Union(closing.batch)
    BY DEF LogSink!Union
  <2>3. Split(LogSink!Union(queue), Folded(window) \cup {n}, LogSink!Union(pump.batch), LogSink!Union(closing.batch),
              logs, LogSink!Lost, n)
    BY <1>2 DEF LogsInv, Located, Split
  <2> QED BY <1>3, <1>7, <2>1, <2>2, <2>3 DEF Located
<1>12. Drained'
  <2>1. LogSink!Union(queue)' = LogSink!Union(queue) /\ UNCHANGED closing /\ Drained
    BY DEF LogsInv, LogSink!Union
  <2> QED BY <1>2, <1>7, <2>1 DEF Drained
<1> QED
  BY <1>9, <1>10, <1>11, <1>12 DEF LogsInv

\* A line is logged.
LEMMA LogsEmit ==
  ASSUME LogsInv, NEW l \in Lines, LogSink!emit(l)
  PROVE  LogsInv'
<1> DEFINE n == emitted + 1
           others == LogSink!Open \ {l}
<1>1. n <= MaxSeen /\ emitted' = n /\ UNCHANGED <<pump, closing, logs>>
  BY DEF LogSink!emit
<1>2. /\ window \in [Lines -> Window] /\ n \in Nat /\ n # 0 /\ IsFiniteSet(LogSink!Open)
      /\ Cardinality(LogSink!Open) <= MaxKeys /\ LogSink!Open \subseteq Lines
  BY LogAssumption DEF LogsInv, WindowInv, WriterInv, LogSink!Open
<1>3. LogSink!Opened(n) \in Window /\ LogSink!Opened(n).suppressed = {} /\ LogSink!Opened(n).since = n
  BY <1>2, Fresh
<1>4. /\ LogSink!NoWindow \in Window /\ LogSink!NoWindow.suppressed = {} /\ LogSink!NoWindow.since = 0
  BY Fresh DEF LogSink!NoWindow
<1>5. /\ Tidy(LogSink!Summary(l)) /\ LogSink!Union(LogSink!Summary(l)) = window[l].suppressed
      /\ window[l].suppressed \subseteq Folded(window)
  BY Summarises DEF LogsInv
<1>6. n \notin Folded(window)
  <2>1. n \notin 1 .. emitted
    BY LogAssumption DEF LogsInv, WriterInv
  <2> QED BY <2>1 DEF LogsInv, Located, Split
<1>7. Tidy(<<{n}>>) /\ LogSink!Union(<<{n}>>) = {n}
  BY <1>2, OneRecord
<1>8. CASE /\ l \in LogSink!Open
           /\ window' = [window EXCEPT ![l].suppressed = @ \cup {n}] /\ UNCHANGED <<queue, fate>>
  BY <1>1, <1>8, Repeats
<1> HIDE DEF n
<1>9. CASE /\ Cardinality(LogSink!Open \cup {l}) <= MaxKeys
           /\ window' = [window EXCEPT ![l] = LogSink!Opened(n)]
           /\ LogSink!Set(LogSink!_enqueue_locked(LogSink!Summary(l) \o <<{n}>>))
  <2> DEFINE s == LogSink!Summary(l) \o <<{n}>>
  <2>1. Tidy(s) /\ LogSink!Union(s) = window[l].suppressed \cup {n}
    BY <1>5, <1>6, <1>7, Joined
  <2>2. LogSink!Union(s) = (UNION {window[k].suppressed : k \in {l}}) \cup {emitted + 1}
    BY <2>1 DEF n
  <2>3. LogSink!Set(LogSink!_enqueue_locked(s))
    BY <1>9
  <2> HIDE DEF s
  <2>4. /\ window' \in [Lines -> Window] /\ {l} \in SUBSET Lines
        /\ \A k \in {l} : window'[k].suppressed = {}
        /\ \A k \in Lines \ {l} : window'[k] = window[k]
    BY <1>2, <1>3, <1>9
  <2>5. LogSink!Open' = LogSink!Open \cup {l}
    BY <1>2, <1>3, <1>9, <2>4 DEF LogSink!Open
  <2>6. IsFiniteSet(LogSink!Open') /\ Cardinality(LogSink!Open') <= MaxKeys
    BY <1>2, <1>9, <2>5, FS_AddElement
  <2> QED BY <1>1, <2>1, <2>2, <2>3, <2>4, <2>6, Opens DEF n
<1>10. ASSUME NEW oldest \in others,
              window' = [window EXCEPT ![l] = LogSink!Opened(n), ![oldest] = LogSink!NoWindow],
              LogSink!Set(LogSink!_enqueue_locked(LogSink!Summary(l) \o LogSink!Summary(oldest) \o <<{n}>>))
       PROVE  LogsInv'
  <2> DEFINE t == LogSink!Summary(l) \o LogSink!Summary(oldest)
             s == t \o <<{n}>>
  <2>1. oldest \in Lines /\ oldest # l /\ oldest \in LogSink!Open
    BY <1>2, <1>10
  <2>2. /\ Tidy(LogSink!Summary(oldest)) /\ LogSink!Union(LogSink!Summary(oldest)) = window[oldest].suppressed
        /\ window[oldest].suppressed \subseteq Folded(window)
    BY <2>1, Summarises DEF LogsInv
  <2>3. window[l].suppressed \cap window[oldest].suppressed = {}
    BY <2>1 DEF LogsInv, WindowInv
  <2>4. Tidy(t) /\ LogSink!Union(t) = window[l].suppressed \cup window[oldest].suppressed
    BY <1>5, <2>2, <2>3, Joined
  <2>5. LogSink!Set(LogSink!_enqueue_locked(s))
    BY <1>10
  <2> HIDE DEF t
  <2>6. Tidy(s) /\ LogSink!Union(s) = window[l].suppressed \cup window[oldest].suppressed \cup {n}
    BY <1>5, <1>6, <1>7, <2>2, <2>4, Joined
  <2> HIDE DEF s
  <2>7. LogSink!Union(s) = (UNION {window[k].suppressed : k \in {l, oldest}}) \cup {emitted + 1}
    BY <2>6 DEF n
  <2>8. /\ window' \in [Lines -> Window] /\ {l, oldest} \in SUBSET Lines
        /\ window'[l] = LogSink!Opened(n) /\ window'[oldest] = LogSink!NoWindow
        /\ \A k \in Lines \ {l, oldest} : window'[k] = window[k]
    BY <1>2, <1>3, <1>4, <1>10, <2>1
  <2>9. \A k \in {l, oldest} : window'[k].suppressed = {}
    BY <1>3, <1>4, <2>8
  <2>10. LogSink!Open' = (LogSink!Open \cup {l}) \ {oldest}
    <3>1. ASSUME NEW k \in Lines PROVE window'[k].since # 0 <=> (window[k].since # 0 \/ k = l) /\ k # oldest
      <4>1. CASE k = l
        BY <1>2, <1>3, <2>1, <2>8, <4>1
      <4>2. CASE k = oldest
        BY <1>4, <2>8, <4>2
      <4>3. CASE k \notin {l, oldest}
        BY <2>8, <4>3
      <4> QED BY <4>1, <4>2, <4>3
    <3> QED BY <3>1 DEF LogSink!Open
  <2>11. IsFiniteSet(LogSink!Open') /\ Cardinality(LogSink!Open') <= MaxKeys
    <3> DEFINE S == LogSink!Open \ {oldest}
    <3>1. IsFiniteSet(S) /\ Cardinality(S) = Cardinality(LogSink!Open) - 1 /\ Cardinality(LogSink!Open) \in Nat
      BY <1>2, <2>1, FS_RemoveElement, FS_CardinalityType
    <3>2. LogSink!Open' = S \cup {l}
      BY <2>1, <2>10
    <3> HIDE DEF S
    <3>3. IsFiniteSet(S \cup {l}) /\ (Cardinality(S \cup {l}) = Cardinality(S) + 1 \/ Cardinality(S \cup {l}) = Cardinality(S))
      BY <3>1, FS_AddElement
    <3> QED BY <1>2, <3>1, <3>2, <3>3, LogAssumption
  <2> QED BY <1>1, <2>5, <2>6, <2>7, <2>8, <2>9, <2>11, Opens DEF n
<1> QED
  <2>1. \/ /\ l \in LogSink!Open
           /\ window' = [window EXCEPT ![l].suppressed = @ \cup {emitted + 1}] /\ UNCHANGED <<queue, fate>>
        \/ /\ Cardinality(LogSink!Open \cup {l}) <= MaxKeys
           /\ window' = [window EXCEPT ![l] = LogSink!Opened(emitted + 1)]
           /\ LogSink!Set(LogSink!_enqueue_locked(LogSink!Summary(l) \o <<{emitted + 1}>>))
        \/ \E oldest \in LogSink!Open \ {l} :
             /\ window' = [window EXCEPT ![l] = LogSink!Opened(emitted + 1), ![oldest] = LogSink!NoWindow]
             /\ LogSink!Set(LogSink!_enqueue_locked(LogSink!Summary(l) \o LogSink!Summary(oldest) \o <<{emitted + 1}>>))
    BY LogsCardinality DEF LogSink!emit
  <2> QED BY <1>8, <1>9, <1>10, <2>1 DEF n

\* A window has lasted long enough.
LEMMA LogsExpire ==
  ASSUME LogsInv, NEW l \in Lines, LogSink!Expire(l)
  PROVE  LogsInv'
<1>1. /\ window' = [window EXCEPT ![l].expired = TRUE]
      /\ UNCHANGED <<queue, pump, closing, logs, fate, emitted>>
  BY DEF LogSink!Expire
<1>2. window \in [Lines -> Window]
  BY DEF LogsInv, WindowInv
<1>3. ASSUME NEW k \in Lines
      PROVE  window'[k] \in Window /\ window'[k].since = window[k].since /\ window'[k].suppressed = window[k].suppressed
  <2>1. PICK b \in BOOLEAN : window'[k] = [window[k] EXCEPT !.expired = b] \/ window'[k] = window[k]
    BY <1>1, <1>2
  <2>2. window[k] \in Window
    BY <1>2
  <2> QED BY <2>1, <2>2 DEF Window
<1>4. window' \in [Lines -> Window]
  <2>1. DOMAIN window' = Lines /\ window' = [k \in Lines |-> window'[k]]
    BY <1>1, <1>2
  <2> QED BY <1>3, <2>1
<1>5. Folded(window') = Folded(window)
  <2>1. {window'[k].suppressed : k \in Lines} = {window[k].suppressed : k \in Lines}
    BY <1>3
  <2> QED BY <2>1 DEF Folded
<1>6. LogSink!Open' = LogSink!Open
  BY <1>3 DEF LogSink!Open
<1>7. WindowInv'
  <2>1. \A k \in Lines : window'[k].since = 0 => window'[k].suppressed = {}
    BY <1>3 DEF LogsInv, WindowInv
  <2>2. \A j, k \in Lines : j # k => window'[j].suppressed \cap window'[k].suppressed = {}
    BY <1>3 DEF LogsInv, WindowInv
  <2> QED BY <1>4, <1>6, <2>1, <2>2 DEF LogsInv, WindowInv
<1>8. WriterInv'
  BY <1>1 DEF LogsInv, WriterInv
<1>9. Located'
  BY <1>1, <1>5 DEF LogsInv, Located, LogSink!Union, LogSink!Lost
<1>10. Drained'
  BY <1>1, <1>5 DEF LogsInv, Drained, LogSink!Union
<1> QED
  BY <1>7, <1>8, <1>9, <1>10 DEF LogsInv

\* The windows are left alone.
LEMMA WindowRests ==
  ASSUME WindowInv, UNCHANGED window
  PROVE  WindowInv' /\ Folded(window') = Folded(window)
BY DEF WindowInv, LogSink!Open

\* The writer or the one who stops it goes on, with nothing in hand that it had not.
LEMMA LogsGoOn ==
  ASSUME LogsInv, UNCHANGED <<queue, window, logs, fate, emitted>>,
         pump' \in [pc : {"wait", "flush", "write", "ended"}, batch : Seq(SUBSET Nat)],
         closing' \in [pc : {"none", "join", "flush", "write", "closed"}, batch : Seq(SUBSET Nat), force : BOOLEAN, since : Nat],
         pump'.batch = pump.batch, closing'.batch = closing.batch, closing'.since <= emitted,
         pump'.pc = "write" <=> pump.pc = "write", closing'.pc \notin {"write", "closed"}, closing.batch = <<>>,
         closing'.pc = "flush" => closing'.force /\ pump'.pc = "ended"
  PROVE  LogsInv'
<1>1. WindowInv' /\ Folded(window') = Folded(window)
  BY WindowRests DEF LogsInv
<1>2. WriterInv'
  BY DEF LogsInv, WriterInv
<1>3. Located'
  <2>1. LogSink!Lost' = LogSink!Lost
    BY DEF LogSink!Lost
  <2>2. /\ LogSink!Union(queue)' = LogSink!Union(queue)
        /\ LogSink!Union(pump.batch)' = LogSink!Union(pump.batch)
        /\ LogSink!Union(closing.batch)' = LogSink!Union(closing.batch)
    BY DEF LogSink!Union
  <2> QED BY <1>1, <2>1, <2>2 DEF LogsInv, Located
<1>4. Drained'
  BY DEF Drained
<1> QED
  BY <1>1, <1>2, <1>3, <1>4 DEF LogsInv

\* The interval is over, the writer is told to stop, or it is waited for.
LEMMA LogsStop ==
  ASSUME LogsInv, LogSink!Interval \/ LogSink!stop \/ LogSink!Join
  PROVE  LogsInv'
<1>1. /\ pump \in [pc : {"wait", "flush", "write", "ended"}, batch : Seq(SUBSET Nat)]
      /\ closing \in [pc : {"none", "join", "flush", "write", "closed"}, batch : Seq(SUBSET Nat), force : BOOLEAN, since : Nat]
      /\ closing.pc # "write" => closing.batch = <<>>
      /\ emitted \in Nat /\ closing.since <= emitted
  BY LogAssumption DEF LogsInv, WriterInv
<1>2. CASE LogSink!Interval
  <2>1. /\ pump.pc = "wait" /\ closing.pc = "none" /\ pump' = [pump EXCEPT !.pc = "flush"]
        /\ UNCHANGED <<queue, window, closing, logs, fate, emitted>>
    BY <1>2 DEF LogSink!Interval
  <2>2. /\ pump' \in [pc : {"wait", "flush", "write", "ended"}, batch : Seq(SUBSET Nat)]
        /\ pump'.batch = pump.batch /\ pump'.pc = "flush"
    BY <1>1, <2>1
  <2> QED BY <1>1, <2>1, <2>2, LogsGoOn
<1>3. CASE LogSink!stop
  <2>1. /\ closing.pc = "none" /\ closing' = [closing EXCEPT !.pc = "join"]
        /\ pump' = IF pump.pc = "wait" THEN [pump EXCEPT !.pc = "flush"] ELSE pump
        /\ UNCHANGED <<queue, window, logs, fate, emitted>>
    BY <1>3 DEF LogSink!stop
  <2>2. /\ pump' \in [pc : {"wait", "flush", "write", "ended"}, batch : Seq(SUBSET Nat)]
        /\ pump'.batch = pump.batch /\ (pump'.pc = "write" <=> pump.pc = "write")
    BY <1>1, <2>1
  <2>3. /\ closing' \in [pc : {"none", "join", "flush", "write", "closed"}, batch : Seq(SUBSET Nat), force : BOOLEAN, since : Nat]
        /\ closing'.batch = closing.batch /\ closing'.pc = "join" /\ closing'.since = closing.since
    BY <1>1, <2>1
  <2> QED BY <1>1, <2>1, <2>2, <2>3, LogsGoOn
<1>4. CASE LogSink!Join
  <2>1. /\ closing.pc = "join" /\ pump.pc = "ended"
        /\ closing' = [closing EXCEPT !.pc = "flush", !.force = TRUE, !.since = emitted]
        /\ UNCHANGED <<queue, window, pump, logs, fate, emitted>>
    BY <1>4 DEF LogSink!Join, LogSink!LastForced
  <2>2. /\ closing' \in [pc : {"none", "join", "flush", "write", "closed"}, batch : Seq(SUBSET Nat), force : BOOLEAN, since : Nat]
        /\ closing'.batch = closing.batch /\ closing'.pc = "flush" /\ closing'.since = emitted
    BY <1>1, <2>1
  <2>3. closing'.force
    BY <1>1, <2>1
  <2> QED BY <1>1, <2>1, <2>2, <2>3, LogsGoOn
<1> QED
  BY <1>2, <1>3, <1>4

\* The writer sweeps and takes a batch.
LEMMA LogsFlush ==
  ASSUME LogsInv, LogSink!Flush
  PROVE  LogsInv'
<1>1. PICK q : /\ LogSink!SweepAndTake(FALSE, q)
               /\ pump' = IF LogSink!Take(q.queue) # <<>> THEN [pc |-> "write", batch |-> LogSink!Take(q.queue)]
                          ELSE [LogSink!Rest EXCEPT !.pc = IF closing.pc = "none" THEN "wait" ELSE "ended"]
  BY DEF LogSink!Flush
<1>2. pump.pc = "flush" /\ UNCHANGED <<closing, logs, emitted>>
  BY DEF LogSink!Flush
<1>3. pump.batch = <<>> /\ closing.pc \in {"none", "join"} /\ emitted \in Nat
  BY <1>2, LogAssumption DEF LogsInv, WriterInv
<1> DEFINE batch == LogSink!Take(q.queue)
<1>4. /\ WindowInv' /\ Tidy(queue') /\ Len(queue') <= Capacity
      /\ fate' \in [dropped : SUBSET Nat, failed : SUBSET Nat, cancelled : SUBSET Nat] /\ Otherwise' = Otherwise
      /\ batch \in Seq(SUBSET Nat)
  BY <1>1, SweepTakes DEF LogsInv
<1>5. PICK R \in SUBSET Folded(window) :
        /\ Folded(window') = Folded(window) \ R
        /\ fate.dropped \subseteq fate'.dropped
        /\ (LogSink!Union(batch) \cup LogSink!Union(queue')) \cap fate'.dropped = {}
        /\ LogSink!Union(batch) \cap LogSink!Union(queue') = {}
        /\ LogSink!Union(batch) \cup LogSink!Union(queue') \cup fate'.dropped
             = LogSink!Union(queue) \cup R \cup fate.dropped
  BY <1>1, SweepTakes DEF LogsInv
<1> HIDE DEF batch
<1>6. /\ pump' \in [pc : {"wait", "flush", "write", "ended"}, batch : Seq(SUBSET Nat)]
      /\ pump'.batch = batch /\ (pump'.pc # "write" => batch = <<>>)
  <2>1. CASE batch # <<>>
    <3>1. pump' = [pc |-> "write", batch |-> batch]
      BY <1>1, <2>1 DEF batch
    <3> QED BY <1>4, <3>1
  <2>2. CASE batch = <<>>
    <3>1. pump' = [LogSink!Rest EXCEPT !.pc = IF closing.pc = "none" THEN "wait" ELSE "ended"]
      BY <1>1, <2>2 DEF batch
    <3>2. \/ pump' = [pc |-> "wait", batch |-> <<>>]
          \/ pump' = [pc |-> "ended", batch |-> <<>>]
      BY <3>1 DEF LogSink!Rest
    <3>3. CASE pump' = [pc |-> "wait", batch |-> <<>>]
      <4>1. pump' \in [pc : {"wait", "flush", "write", "ended"}, batch : Seq(SUBSET Nat)] /\ pump'.batch = <<>>
        BY <3>3
      <4> QED BY <2>2, <4>1
    <3>4. CASE pump' = [pc |-> "ended", batch |-> <<>>]
      <4>1. pump' \in [pc : {"wait", "flush", "write", "ended"}, batch : Seq(SUBSET Nat)] /\ pump'.batch = <<>>
        BY <3>4
      <4> QED BY <2>2, <4>1
    <3> QED BY <3>2, <3>3, <3>4
  <2> QED BY <2>1, <2>2
<1>7. WriterInv'
  BY <1>2, <1>3, <1>4, <1>6 DEF LogsInv, WriterInv
<1>8. Located'
  <2>1. LogSink!Union(pump.batch) = {}
    BY <1>3 DEF LogSink!Union
  <2>2. LogSink!Lost = fate.dropped \cup Otherwise /\ LogSink!Lost' = fate'.dropped \cup Otherwise
    BY <1>4 DEF LogSink!Lost, Otherwise
  <2>3. Split(LogSink!Union(queue), Folded(window), {}, LogSink!Union(closing.batch), logs, fate.dropped \cup Otherwise, emitted)
    BY <2>1, <2>2 DEF LogsInv, Located
  <2>4. Split(LogSink!Union(queue'), Folded(window) \ R, LogSink!Union(batch), LogSink!Union(closing.batch),
              logs, fate'.dropped \cup Otherwise, emitted)
    BY <1>3, <1>5, <2>3, SplitSweeps
  <2>5. /\ LogSink!Union(queue)' = LogSink!Union(queue') /\ LogSink!Union(pump.batch)' = LogSink!Union(batch)
        /\ LogSink!Union(closing.batch)' = LogSink!Union(closing.batch)
    BY <1>2, <1>6 DEF LogSink!Union
  <2> QED BY <1>2, <1>5, <2>2, <2>4, <2>5 DEF Located
<1>9. Drained'
  BY <1>2, <1>3 DEF Drained
<1> QED
  BY <1>4, <1>7, <1>8, <1>9 DEF LogsInv

\* The last flush sweeps and takes a batch, or finds nothing.
LEMMA LogsFinalFlush ==
  ASSUME LogsInv, LogSink!FinalFlush
  PROVE  LogsInv'
<1>1. PICK q : /\ LogSink!SweepAndTake(closing.force, q)
               /\ closing' = IF LogSink!Take(q.queue) # <<>>
                             THEN [closing EXCEPT !.pc = "write", !.batch = LogSink!Take(q.queue), !.force = FALSE]
                             ELSE [closing EXCEPT !.pc = "closed", !.force = FALSE]
  BY DEF LogSink!FinalFlush
<1>2. closing.pc = "flush" /\ UNCHANGED <<pump, logs, emitted>>
  BY DEF LogSink!FinalFlush
<1>3. /\ closing.batch = <<>> /\ pump.pc = "ended" /\ emitted \in Nat
      /\ closing \in [pc : {"none", "join", "flush", "write", "closed"}, batch : Seq(SUBSET Nat), force : BOOLEAN, since : Nat]
  BY <1>2, LogAssumption DEF LogsInv, WriterInv
<1> DEFINE batch == LogSink!Take(q.queue)
<1>4. /\ WindowInv' /\ Tidy(queue') /\ Len(queue') <= Capacity
      /\ fate' \in [dropped : SUBSET Nat, failed : SUBSET Nat, cancelled : SUBSET Nat] /\ Otherwise' = Otherwise
      /\ batch \in Seq(SUBSET Nat)
      /\ batch = <<>> => LogSink!Union(queue') = {}
      /\ closing.force => Folded(window') = {}
  BY <1>1, SweepTakes DEF LogsInv
<1>5. PICK R \in SUBSET Folded(window) :
        /\ Folded(window') = Folded(window) \ R
        /\ fate.dropped \subseteq fate'.dropped
        /\ (LogSink!Union(batch) \cup LogSink!Union(queue')) \cap fate'.dropped = {}
        /\ LogSink!Union(batch) \cap LogSink!Union(queue') = {}
        /\ LogSink!Union(batch) \cup LogSink!Union(queue') \cup fate'.dropped
             = LogSink!Union(queue) \cup R \cup fate.dropped
  BY <1>1, SweepTakes DEF LogsInv
<1> HIDE DEF batch
<1>6. /\ closing' \in [pc : {"none", "join", "flush", "write", "closed"}, batch : Seq(SUBSET Nat), force : BOOLEAN, since : Nat]
      /\ closing'.batch = batch /\ closing'.since = closing.since
      /\ closing'.pc \in {"write", "closed"} /\ (closing'.pc # "write" => batch = <<>>)
  <2>1. CASE batch # <<>>
    <3>1. closing' = [closing EXCEPT !.pc = "write", !.batch = batch, !.force = FALSE]
      BY <1>1, <2>1 DEF batch
    <3>2. closing' \in [pc : {"none", "join", "flush", "write", "closed"}, batch : Seq(SUBSET Nat), force : BOOLEAN, since : Nat]
      BY <1>3, <1>4, <3>1
    <3>3. closing'.batch = batch /\ closing'.since = closing.since /\ closing'.pc = "write"
      BY <1>3, <3>1
    <3> QED BY <3>2, <3>3
  <2>2. CASE batch = <<>>
    <3>1. closing' = [closing EXCEPT !.pc = "closed", !.force = FALSE]
      BY <1>1, <2>2 DEF batch
    <3>2. closing' \in [pc : {"none", "join", "flush", "write", "closed"}, batch : Seq(SUBSET Nat), force : BOOLEAN, since : Nat]
      BY <1>3, <3>1
    <3>3. closing'.batch = closing.batch /\ closing'.since = closing.since /\ closing'.pc = "closed"
      BY <1>3, <3>1
    <3> QED BY <1>3, <2>2, <3>2, <3>3
  <2> QED BY <2>1, <2>2
<1>7. WriterInv'
  BY <1>2, <1>3, <1>4, <1>6 DEF LogsInv, WriterInv
<1>8. Located'
  <2>1. LogSink!Union(closing.batch) = {}
    BY <1>3 DEF LogSink!Union
  <2>2. LogSink!Lost = fate.dropped \cup Otherwise /\ LogSink!Lost' = fate'.dropped \cup Otherwise
    BY <1>4 DEF LogSink!Lost, Otherwise
  <2>3. Split(LogSink!Union(queue), Folded(window), LogSink!Union(pump.batch), {}, logs, fate.dropped \cup Otherwise, emitted)
    BY <2>1, <2>2 DEF LogsInv, Located
  <2>4. Split(LogSink!Union(queue'), Folded(window) \ R, LogSink!Union(pump.batch), LogSink!Union(batch),
              logs, fate'.dropped \cup Otherwise, emitted)
    BY <1>3, <1>5, <2>3, SplitSweeps
  <2>5. /\ LogSink!Union(queue)' = LogSink!Union(queue') /\ LogSink!Union(pump.batch)' = LogSink!Union(pump.batch)
        /\ LogSink!Union(closing.batch)' = LogSink!Union(batch)
    BY <1>2, <1>6 DEF LogSink!Union
  <2> QED BY <1>2, <1>5, <2>2, <2>4, <2>5 DEF Located
<1>9. Folded(window') \cap (1 .. closing.since) = {}
  <2>1. CASE closing.force
    BY <1>4, <2>1
  <2>2. CASE ~closing.force
    BY <1>2, <1>5, <2>2 DEF LogsInv, Drained
  <2> QED BY <2>1, <2>2
<1>10. Drained'
  <2>1. LogSink!Union(queue)' = LogSink!Union(queue')
    BY DEF LogSink!Union
  <2>2. closing'.pc = "closed" => LogSink!Union(queue') = {}
    BY <1>4, <1>6
  <2> QED BY <1>6, <1>9, <2>1, <2>2 DEF Drained
<1> QED
  BY <1>4, <1>7, <1>8, <1>10 DEF LogsInv

\* A batch comes to the table or is lost.
LEMMA SplitWrites ==
  ASSUME NEW Q, NEW W, NEW P, NEW C, NEW L, NEW X, NEW n, Split(Q, W, P, C, L, X, n)
  PROVE  /\ Split(Q, W, {}, C, L \cup P, X, n) /\ Split(Q, W, {}, C, L, X \cup P, n)
         /\ Split(Q, W, P, {}, L \cup C, X, n) /\ Split(Q, W, P, {}, L, X \cup C, n)
<1>1. Split(Q, W, {}, C, L \cup P, X, n)
  BY DEF Split
<1>2. Split(Q, W, {}, C, L, X \cup P, n)
  BY DEF Split
<1>3. Split(Q, W, P, {}, L \cup C, X, n)
  BY DEF Split
<1>4. Split(Q, W, P, {}, L, X \cup C, n)
  BY DEF Split
<1> QED
  BY <1>1, <1>2, <1>3, <1>4

\* A batch that is written or lost: the table and what is lost afterwards.
LEMMA BatchEnds ==
  ASSUME LogsInv, NEW batch, batch = pump.batch \/ batch = closing.batch,
         \/ logs' = logs \cup LogSink!Union(batch) /\ UNCHANGED fate
         \/ fate' = LogSink!FailedBatch(batch) /\ UNCHANGED logs
         \/ fate' = [fate EXCEPT !.cancelled = @ \cup LogSink!Union(batch)] /\ UNCHANGED logs
  PROVE  /\ fate' \in [dropped : SUBSET Nat, failed : SUBSET Nat, cancelled : SUBSET Nat]
         /\ \/ logs' = logs \cup LogSink!Union(batch) /\ LogSink!Lost' = LogSink!Lost
            \/ logs' = logs /\ LogSink!Lost' = LogSink!Lost \cup LogSink!Union(batch)
<1>1. /\ fate \in [dropped : SUBSET Nat, failed : SUBSET Nat, cancelled : SUBSET Nat]
      /\ batch \in Seq(SUBSET Nat)
  BY DEF LogsInv, WriterInv
<1>2. LogSink!Union(batch) \in SUBSET Nat
  BY <1>1, InUnion
<1>3. CASE logs' = logs \cup LogSink!Union(batch) /\ UNCHANGED fate
  BY <1>1, <1>3 DEF LogSink!Lost
<1>4. CASE fate' = LogSink!FailedBatch(batch) /\ UNCHANGED logs
  <2>1. fate' = [fate EXCEPT !.failed = @ \cup LogSink!Union(batch)]
    BY <1>4 DEF LogSink!FailedBatch
  <2>2. /\ fate' \in [dropped : SUBSET Nat, failed : SUBSET Nat, cancelled : SUBSET Nat]
        /\ fate'.dropped = fate.dropped /\ fate'.cancelled = fate.cancelled
        /\ fate'.failed = fate.failed \cup LogSink!Union(batch)
    BY <1>1, <1>2, <2>1
  <2>3. LogSink!Lost' = LogSink!Lost \cup LogSink!Union(batch)
    BY <2>2 DEF LogSink!Lost
  <2> QED BY <1>4, <2>2, <2>3
<1>5. CASE fate' = [fate EXCEPT !.cancelled = @ \cup LogSink!Union(batch)] /\ UNCHANGED logs
  <2>1. /\ fate' \in [dropped : SUBSET Nat, failed : SUBSET Nat, cancelled : SUBSET Nat]
        /\ fate'.dropped = fate.dropped /\ fate'.failed = fate.failed
        /\ fate'.cancelled = fate.cancelled \cup LogSink!Union(batch)
    BY <1>1, <1>2, <1>5
  <2>2. LogSink!Lost' = LogSink!Lost \cup LogSink!Union(batch)
    BY <2>1 DEF LogSink!Lost
  <2> QED BY <1>5, <2>1, <2>2
<1> QED
  BY <1>3, <1>4, <1>5

\* The writer has written its batch, or failed to, or is cancelled with it.
LEMMA LogsWrite ==
  ASSUME LogsInv, LogSink!_write \/ LogSink!CancelWriter
  PROVE  LogsInv'
<1>1. /\ \/ logs' = logs \cup LogSink!Union(pump.batch) /\ UNCHANGED fate
         \/ fate' = LogSink!FailedBatch(pump.batch) /\ UNCHANGED logs
         \/ fate' = [fate EXCEPT !.cancelled = @ \cup LogSink!Union(pump.batch)] /\ UNCHANGED logs
      /\ pump.pc = "write" /\ UNCHANGED <<queue, window, closing, emitted>>
  BY DEF LogSink!_write, LogSink!CancelWriter
<1>2. \/ pump' = [pc |-> "flush", batch |-> <<>>]
      \/ pump' = [pc |-> "ended", batch |-> <<>>]
  BY DEF LogSink!_write, LogSink!CancelWriter, LogSink!Rest
<1>3. /\ pump' \in [pc : {"wait", "flush", "write", "ended"}, batch : Seq(SUBSET Nat)]
      /\ pump'.batch = <<>> /\ pump'.pc # "write"
  <2>1. CASE pump' = [pc |-> "flush", batch |-> <<>>]
    BY <2>1
  <2>2. CASE pump' = [pc |-> "ended", batch |-> <<>>]
    BY <2>2
  <2> QED BY <1>2, <2>1, <2>2
<1>4. WindowInv' /\ Folded(window') = Folded(window)
  BY <1>1, WindowRests DEF LogsInv
<1>5. /\ fate' \in [dropped : SUBSET Nat, failed : SUBSET Nat, cancelled : SUBSET Nat]
      /\ \/ logs' = logs \cup LogSink!Union(pump.batch) /\ LogSink!Lost' = LogSink!Lost
         \/ logs' = logs /\ LogSink!Lost' = LogSink!Lost \cup LogSink!Union(pump.batch)
  BY <1>1, BatchEnds
<1>6. closing.pc \in {"none", "join"}
  BY <1>1 DEF LogsInv, WriterInv
<1>7. WriterInv'
  BY <1>1, <1>3, <1>5, <1>6 DEF LogsInv, WriterInv
<1>8. Located'
  <2>1. Split(LogSink!Union(queue), Folded(window), {}, LogSink!Union(closing.batch), logs', LogSink!Lost', emitted)
    <3>1. Split(LogSink!Union(queue), Folded(window), LogSink!Union(pump.batch), LogSink!Union(closing.batch),
                logs, LogSink!Lost, emitted)
      BY DEF LogsInv, Located
    <3>2. /\ Split(LogSink!Union(queue), Folded(window), {}, LogSink!Union(closing.batch),
                   logs \cup LogSink!Union(pump.batch), LogSink!Lost, emitted)
          /\ Split(LogSink!Union(queue), Folded(window), {}, LogSink!Union(closing.batch),
                   logs, LogSink!Lost \cup LogSink!Union(pump.batch), emitted)
      BY <3>1, SplitWrites
    <3> QED BY <1>5, <3>2
  <2>2. /\ LogSink!Union(queue)' = LogSink!Union(queue) /\ LogSink!Union(pump.batch)' = {}
        /\ LogSink!Union(closing.batch)' = LogSink!Union(closing.batch)
    BY <1>1, <1>3 DEF LogSink!Union
  <2> QED BY <1>1, <1>4, <2>1, <2>2 DEF Located
<1>9. Drained'
  BY <1>1, <1>6 DEF Drained
<1> QED
  BY <1>4, <1>7, <1>8, <1>9 DEF LogsInv

\* The last flush has written its batch, or failed to.
LEMMA LogsFinalWrite ==
  ASSUME LogsInv, LogSink!FinalWrite
  PROVE  LogsInv'
<1>1. /\ \/ logs' = logs \cup LogSink!Union(closing.batch) /\ UNCHANGED fate
         \/ fate' = LogSink!FailedBatch(closing.batch) /\ UNCHANGED logs
      /\ closing.pc = "write" /\ closing' = [closing EXCEPT !.pc = "flush", !.batch = <<>>]
      /\ UNCHANGED <<queue, window, pump, emitted>>
  BY DEF LogSink!FinalWrite
<1>2. /\ closing \in [pc : {"none", "join", "flush", "write", "closed"}, batch : Seq(SUBSET Nat), force : BOOLEAN, since : Nat]
      /\ closing.since <= emitted /\ pump.pc = "ended"
  BY <1>1 DEF LogsInv, WriterInv
<1>3. /\ closing' \in [pc : {"none", "join", "flush", "write", "closed"}, batch : Seq(SUBSET Nat), force : BOOLEAN, since : Nat]
      /\ closing'.batch = <<>> /\ closing'.pc = "flush" /\ closing'.since = closing.since
  <2>1. ASSUME NEW b \in Seq(SUBSET Nat), closing' = [closing EXCEPT !.pc = "flush", !.batch = b]
        PROVE  /\ closing' \in [pc : {"none", "join", "flush", "write", "closed"}, batch : Seq(SUBSET Nat), force : BOOLEAN, since : Nat]
               /\ closing'.batch = b /\ closing'.pc = "flush" /\ closing'.since = closing.since
    <3>1. closing' \in [pc : {"none", "join", "flush", "write", "closed"}, batch : Seq(SUBSET Nat), force : BOOLEAN, since : Nat]
      BY <1>2, <2>1
    <3>2. closing'.batch = b /\ closing'.pc = "flush" /\ closing'.since = closing.since
      BY <1>2, <2>1
    <3> QED BY <3>1, <3>2
  <2>2. <<>> \in Seq(SUBSET Nat)
    OBVIOUS
  <2>3. closing' = [closing EXCEPT !.pc = "flush", !.batch = <<>>]
    BY <1>1
  <2> QED BY <2>1, <2>2, <2>3
<1>4. WindowInv' /\ Folded(window') = Folded(window)
  BY <1>1, WindowRests DEF LogsInv
<1>5. /\ fate' \in [dropped : SUBSET Nat, failed : SUBSET Nat, cancelled : SUBSET Nat]
      /\ \/ logs' = logs \cup LogSink!Union(closing.batch) /\ LogSink!Lost' = LogSink!Lost
         \/ logs' = logs /\ LogSink!Lost' = LogSink!Lost \cup LogSink!Union(closing.batch)
  BY <1>1, BatchEnds
<1>6. WriterInv'
  BY <1>1, <1>2, <1>3, <1>5 DEF LogsInv, WriterInv
<1>7. Located'
  <2>1. Split(LogSink!Union(queue), Folded(window), LogSink!Union(pump.batch), {}, logs', LogSink!Lost', emitted)
    <3>1. Split(LogSink!Union(queue), Folded(window), LogSink!Union(pump.batch), LogSink!Union(closing.batch),
                logs, LogSink!Lost, emitted)
      BY DEF LogsInv, Located
    <3>2. /\ Split(LogSink!Union(queue), Folded(window), LogSink!Union(pump.batch), {},
                   logs \cup LogSink!Union(closing.batch), LogSink!Lost, emitted)
          /\ Split(LogSink!Union(queue), Folded(window), LogSink!Union(pump.batch), {},
                   logs, LogSink!Lost \cup LogSink!Union(closing.batch), emitted)
      BY <3>1, SplitWrites
    <3> QED BY <1>5, <3>2
  <2>2. /\ LogSink!Union(queue)' = LogSink!Union(queue) /\ LogSink!Union(closing.batch)' = {}
        /\ LogSink!Union(pump.batch)' = LogSink!Union(pump.batch)
    BY <1>1, <1>3 DEF LogSink!Union
  <2> QED BY <1>1, <1>4, <2>1, <2>2 DEF Located
<1>8. Drained'
  <2>1. Folded(window) \cap (1 .. closing.since) = {}
    BY <1>1 DEF LogsInv, Drained
  <2> QED BY <1>3, <1>4, <2>1 DEF Drained
<1> QED
  BY <1>4, <1>6, <1>7, <1>8 DEF LogsInv

\* The sink starts empty.
LEMMA LogsInit ==
  ASSUME LogSink!Init
  PROVE  LogsInv
<1>1. /\ queue = <<>> /\ window = [l \in Lines |-> [since |-> 0, expired |-> FALSE, suppressed |-> {}]]
      /\ pump = [pc |-> "wait", batch |-> <<>>]
      /\ closing = [pc |-> "none", batch |-> <<>>, force |-> FALSE, since |-> 0]
      /\ logs = {} /\ fate = [dropped |-> {}, failed |-> {}, cancelled |-> {}] /\ emitted = 0
  BY DEF LogSink!Init, LogSink!NoWindow, LogSink!Opened, LogSink!Rest
<1>2. Folded(window) = {} /\ LogSink!Open = {}
  BY <1>1 DEF Folded, LogSink!Open
<1>3. WindowInv
  <2>1. window \in [Lines -> Window]
    BY <1>1 DEF Window
  <2>2. IsFiniteSet(LogSink!Open) /\ Cardinality(LogSink!Open) <= MaxKeys
    BY <1>2, FS_EmptySet, LogAssumption
  <2> QED BY <1>1, <2>1, <2>2 DEF WindowInv
<1>4. WriterInv
  <2>1. Tidy(queue) /\ Len(queue) <= Capacity
    BY <1>1, LogAssumption DEF Tidy
  <2>2. /\ pump \in [pc : {"wait", "flush", "write", "ended"}, batch : Seq(SUBSET Nat)]
        /\ pump.pc = "wait" /\ pump.batch = <<>>
    BY <1>1
  <2>3. /\ closing \in [pc : {"none", "join", "flush", "write", "closed"}, batch : Seq(SUBSET Nat), force : BOOLEAN, since : Nat]
        /\ closing.pc = "none" /\ closing.batch = <<>> /\ closing.since = 0
    BY <1>1
  <2>4. fate \in [dropped : SUBSET Nat, failed : SUBSET Nat, cancelled : SUBSET Nat]
    BY <1>1
  <2>5. emitted \in 0 .. MaxSeen /\ closing.since <= emitted
    BY <1>1, <2>3, LogAssumption
  <2> QED BY <2>1, <2>2, <2>3, <2>4, <2>5 DEF WriterInv
<1>5. Located
  <2>1. LogSink!Union(queue) = {} /\ LogSink!Union(pump.batch) = {} /\ LogSink!Union(closing.batch) = {}
    BY <1>1 DEF LogSink!Union
  <2>2. LogSink!Lost = {} /\ 1 .. emitted = {}
    BY <1>1 DEF LogSink!Lost
  <2> QED BY <1>1, <1>2, <2>1, <2>2 DEF Located, Split
<1>6. Drained
  BY <1>1 DEF Drained
<1> QED
  BY <1>3, <1>4, <1>5, <1>6 DEF LogsInv

\* Every step of the sink keeps its invariant.
LEMMA LogsKeeps ==
  ASSUME LogsInv, LogSink!Next \/ UNCHANGED logsVars
  PROVE  LogsInv'
<1>1. CASE \E l \in Lines : LogSink!emit(l)
  BY <1>1, LogsEmit
<1>2. CASE \E l \in Lines : LogSink!Expire(l)
  BY <1>2, LogsExpire
<1>3. CASE LogSink!Interval \/ LogSink!stop \/ LogSink!Join
  BY <1>3, LogsStop
<1>4. CASE LogSink!Flush
  BY <1>4, LogsFlush
<1>5. CASE LogSink!FinalFlush
  BY <1>5, LogsFinalFlush
<1>6. CASE LogSink!_write \/ LogSink!CancelWriter
  BY <1>6, LogsWrite
<1>7. CASE LogSink!FinalWrite
  BY <1>7, LogsFinalWrite
<1>8. CASE UNCHANGED logsVars
  <2>1. UNCHANGED <<queue, window, pump, closing, logs, fate, emitted>>
    BY <1>8 DEF logsVars
  <2>2. WindowInv' /\ Folded(window') = Folded(window)
    BY <2>1, WindowRests DEF LogsInv
  <2>3. WriterInv'
    BY <2>1 DEF LogsInv, WriterInv
  <2>4. /\ LogSink!Union(queue)' = LogSink!Union(queue) /\ LogSink!Union(pump.batch)' = LogSink!Union(pump.batch)
        /\ LogSink!Union(closing.batch)' = LogSink!Union(closing.batch) /\ LogSink!Lost' = LogSink!Lost
    BY <2>1 DEF LogSink!Union, LogSink!Lost
  <2>5. Located'
    BY <2>1, <2>2, <2>4 DEF LogsInv, Located
  <2>6. Drained'
    BY <2>1, <2>2, <2>4 DEF LogsInv, Drained
  <2> QED BY <2>2, <2>3, <2>5, <2>6 DEF LogsInv
<1> QED
  BY <1>1, <1>2, <1>3, <1>4, <1>5, <1>6, <1>7, <1>8 DEF LogSink!Next

\* What the sink promises.
LEMMA LogsPromised ==
  ASSUME LogsInv
  PROVE  LogSink!TypeOK /\ LogSink!Accounted /\ LogSink!NothingLeft
<1>1. LogSink!TypeOK
  <2>1. emitted \in 0 .. MaxSeen /\ Cardinality(LogSink!Open) <= MaxKeys /\ Len(queue) <= Capacity
    BY DEF LogsInv, WindowInv, WriterInv
  <2> QED BY <2>1, LogsCardinality DEF LogSink!TypeOK
<1>2. LogSink!Pending = LogSink!Union(queue) \cup Folded(window) \cup LogSink!Union(pump.batch) \cup LogSink!Union(closing.batch)
  BY DEF LogSink!Pending, Folded
<1>3. LogSink!Accounted
  <2>1. Split(LogSink!Union(queue), Folded(window), LogSink!Union(pump.batch), LogSink!Union(closing.batch),
              logs, LogSink!Lost, emitted)
    BY DEF LogsInv, Located
  <2>2. logs \cup LogSink!Pending \cup LogSink!Lost = 1 .. emitted
    BY <1>2, <2>1 DEF Split
  <2>3. logs \cap LogSink!Pending = {} /\ logs \cap LogSink!Lost = {} /\ LogSink!Pending \cap LogSink!Lost = {}
    BY <1>2, <2>1 DEF Split
  <2> QED BY <2>2, <2>3 DEF LogSink!Accounted
<1>4. LogSink!NothingLeft
  <2> SUFFICES ASSUME closing.pc = "closed" PROVE LogSink!Pending \cap (1 .. closing.since) = {}
    BY DEF LogSink!NothingLeft
  <2>1. pump.batch = <<>> /\ closing.batch = <<>>
    BY DEF LogsInv, WriterInv
  <2>2. LogSink!Union(pump.batch) = {} /\ LogSink!Union(closing.batch) = {}
    BY <2>1 DEF LogSink!Union
  <2>3. Folded(window) \cap (1 .. closing.since) = {} /\ LogSink!Union(queue) \cap (1 .. closing.since) = {}
    BY DEF LogsInv, Drained
  <2> QED BY <1>2, <2>2, <2>3
<1> QED
  BY <1>1, <1>3, <1>4

-----------------------------------------------------------------------------
(* The server process.                                                     *)

\* The services of SharedAsAgreed, of StoredIsKept and of AcceptedIsRemembered.
SharedInv == PlayInv /\ SweepInv /\ MediaInv /\ GpuInv
StoredInv == SettingsInv /\ DatabaseInv
RememberedInv == SchedulerInv /\ LogsInv

\* The process begins with each service in an initial state of its own.
LEMMA ServerInit ==
  ASSUME Init
  PROVE  SharedInv /\ StoredInv /\ AuthInv /\ Standing /\ RememberedInv
<1>1. /\ Auth!Init /\ PlaybackCache!Init /\ MediaGate!Init /\ GpuBackend!Init
      /\ SettingsStore!Init /\ Database!Init /\ Scheduler!Init /\ LogSink!Init
  BY DEF Init
<1>2. table \in Stored
  BY <1>1 DEF SettingsStore!Init
<1>3. SharedInv
  BY <1>1, PlayInit, SweepInit, MediaInit, GpuInit DEF SharedInv
<1>4. StoredInv
  BY <1>1, <1>2, SettingsInit, DatabaseInit DEF StoredInv
<1>5. RememberedInv
  BY <1>1, SchedulerInit, LogsInit DEF RememberedInv
<1> QED
  BY <1>1, <1>3, <1>4, <1>5, AuthInit, StandingInit

\* A step is one of a service's own, or leaves it alone.
LEMMA ServerStep ==
  ASSUME Next \/ UNCHANGED vars
  PROVE  /\ Auth!Next \/ UNCHANGED authVars
         /\ PlaybackCache!Next \/ UNCHANGED playbackVars
         /\ MediaGate!Next \/ UNCHANGED mediaVars
         /\ GpuBackend!Next \/ UNCHANGED gpuVars
         /\ SettingsStore!Next \/ UNCHANGED settingsVars
         /\ Database!Next \/ UNCHANGED databaseVars
         /\ Scheduler!Next \/ UNCHANGED schedulerVars
         /\ LogSink!Next \/ UNCHANGED logsVars
<1>1. CASE Next
  BY <1>1 DEF Next
<1>2. CASE UNCHANGED vars
  BY <1>2 DEF vars
<1> QED
  BY <1>1, <1>2

\* Tasks use what they share as agreed: a playback file has one writer and the
\* cache its bound, an overlap on the media stack is known and each frame
\* handed out once, native inference is alone and its failure on record
\* (media/playback.py, hardware/ffmpeg.py, ai/openvino_session.py).
THEOREM SharedTheorem == Spec => []SharedAsAgreed
<1>1. Init => SharedInv
  BY ServerInit
<1>2. SharedInv /\ [Next]_vars => SharedInv'
  BY ServerStep, PlayKeeps, SweepKeeps, MediaKeeps, GpuKeeps DEF SharedInv
<1>3. SharedInv => SharedAsAgreed
  BY PlayPromised, MediaPromised, GpuPromised DEF SharedInv, SharedAsAgreed
<1> QED
  BY <1>1, <1>2, <1>3, PTL DEF Spec

\* What is stored is what the process goes by: the settings in memory are those
\* a restart would load, and no row is lost to a migration, a restore or an
\* upload nobody confirmed (core/settings_service.py, db/backup.py,
\* db/session.py).
THEOREM StoredTheorem == Spec => []StoredIsKept
<1>1. Init => StoredInv
  BY ServerInit
<1>2. StoredInv /\ [Next]_vars => StoredInv'
  BY ServerStep, SettingsKeeps, DatabaseKeeps DEF StoredInv
<1>3. StoredInv => StoredIsKept
  BY SettingsPromised, DatabasePromised DEF StoredInv, StoredIsKept
<1> QED
  BY <1>1, <1>2, <1>3, PTL DEF Spec

\* Sign-in is current: a session or header is honoured no longer than
\* CACHE_TTL_S after it stopped being good; a revocation the process has followed
\* is in force at once but for a lookup it overtook; and whoever waits for a shared
\* lookup waits for a request that will end it (auth/service.py).
THEOREM SignInTheorem == Spec => []SignInIsCurrent
<1>1. Init => AuthInv /\ Standing
  BY ServerInit
<1>2. AuthInv /\ Standing /\ [Next]_vars => (AuthInv /\ Standing)'
  BY ServerStep, AuthKeeps, StandingKeeps
<1>3. AuthInv /\ Standing => SignInIsCurrent
  BY AuthPromised DEF SignInIsCurrent
<1> QED
  BY <1>1, <1>2, <1>3, PTL DEF Spec

\* What was accepted is remembered: the request for an announced file stands
\* until a scan sees it (where none failed or was refused), a recording accepted
\* for cleanup stays with the cleanup, and every occurrence of a log line is
\* stored, on its way or lost in one of the ways that are counted
\* (workers/scheduler.py, core/logging.py).
THEOREM RememberedTheorem == Spec => []AcceptedIsRemembered
<1>1. Init => RememberedInv
  BY ServerInit
<1>2. RememberedInv /\ [Next]_vars => RememberedInv'
  BY ServerStep, SchedulerKeeps, LogsKeeps DEF RememberedInv
<1>3. RememberedInv => AcceptedIsRemembered
  BY SchedulerPromised, LogsPromised DEF RememberedInv, AcceptedIsRemembered
<1> QED
  BY <1>1, <1>2, <1>3, PTL DEF Spec
=============================================================================
