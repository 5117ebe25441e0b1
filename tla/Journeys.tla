------------------------------ MODULE Journeys ------------------------------
(* Recordings grouped into journeys (journeys/builder.py).                   *)
(*                                                                           *)
(* Three hands group the same rows: a finished analysis attaches its         *)
(* recording to a journey, a rebuild clusters the whole library cluster by   *)
(* cluster, and the user merges and splits by hand.  Each derives its rollup *)
(* from rows it read earlier and publishes only if they are still the same.  *)
(*                                                                           *)
(* A recording is ready unless one of its stages is invalidated; hidden      *)
(* recordings are simply not in Recs.  A journey row's updated_at is the row *)
(* itself.  rebuild(since=...) has no caller and is left out.                *)
(*                                                                           *)
(* The specification has names of its own, so that a module may extend this  *)
(* one beside the Library's.                                                 *)
EXTENDS Naturals, FiniteSets, FiniteSetsExt

CONSTANTS
    Recs,          \* recordings, by id
    Layouts,       \* [start, end, omitted, far, min, new]: when they were taken,
                   \* the setting journeys.min_recordings, and which are not yet
                   \* analysed, the others while journeys.enabled was off
    Gap,           \* journeys.gap_minutes
    Workers,       \* how many analyses run at a time
    MaxJourney,    \* bound: journey ids
    FewEdits       \* bound: user edits and re-analyses of one behaviour

\* What is known of the recordings' times, whatever they are: a recording
\* without an end ends where it starts; no time is the zero of Gone.
ASSUME JourneysAssumption ==
    /\ Recs \subseteq Nat /\ IsFiniteSet(Recs) /\ Gap \in Nat /\ MaxJourney \in Nat
    /\ \A l \in Layouts :
         /\ \A r \in Recs : l.start[r] \in Nat /\ l.end[r] \in Nat \ {0} /\ l.start[r] <= l.end[r]
         /\ IsFiniteSet(l.omitted) /\ l.omitted \subseteq Nat \X Nat

VARIABLES
    layout,   \* the recordings' times
    rec,      \* Recording: [journey, ready, rows]; rows: what the journey_id of
              \* its telemetry, tracks and plates names, 0: no journey
    jou,      \* Journey by id: [manual, first, last], or Gone
    nextId,   \* the next journey id
    rb,       \* the rebuild under _REBUILD_LOCKS
    asg,      \* recording -> its analysis, and the plan of its last stage
    done      \* edits so far

journeyVars == <<layout, rec, jou, nextId, rb, asg, done>>

Ids == 1 .. MaxJourney
Gone == [manual |-> FALSE, first |-> 0, last |-> 0]
Exists(j) == jou[j] # Gone
NoPlan == [pc |-> "none", target |-> 0, members |-> {}, seen |-> <<>>, row |-> Gone]
Idle == [pc |-> "idle", clusters |-> {}, expected |-> <<>>, used |-> {}, sources |-> {},
         deferred |-> {}, seen |-> <<>>]

MinRecordings == layout.min
Start(r) == layout.start[r]
End(r) == layout.end[r]

JourneyInit ==
    /\ layout \in Layouts
    /\ rec = [r \in Recs |-> [journey |-> 0, ready |-> TRUE, rows |-> {0}]]
    /\ jou = [j \in Ids |-> Gone]
    /\ nextId = 1
    /\ rb = Idle
    /\ asg = [r \in Recs |-> [NoPlan EXCEPT !.pc = IF r \in layout.new THEN "due" ELSE "none"]]
    /\ done = {}

Once(edit) == /\ edit \notin done
              /\ done' = done \cup {edit}
              /\ Cardinality(done') <= FewEdits

---------------------------------------------------------------------------
(* Clustering.                                                              *)

\* IntentionalGapBarriers.from_intervals: omitted intervals, merged where they
\* touch.
from_intervals(omitted) ==
    LET real == {i \in omitted : i[1] < i[2]}
        opens == {i[1] : i \in {j \in real : ~\E k \in real : k[1] < j[1] /\ j[1] <= k[2]}}
        close(s) == Min({i[2] : i \in {j \in real : s < j[2] /\ ~\E k \in real : k[1] <= j[2] /\ j[2] < k[2]}})
    IN {<<s, close(s)>> : s \in opens}

\* IntentionalGapBarriers.blocks: the last barrier that starts before the end.
blocks(barriers, from, to) ==
    LET before == {b \in barriers : b[1] < to} IN
    from < to /\ \E b \in before : b[2] > from /\ \A c \in before : c[1] <= b[1]

_same_journey(p, c, barriers) ==
    /\ Start(c) <= End(p) + Gap
    /\ ~blocks(barriers, End(p), Start(c))
    /\ {p, c} \notin layout.far

Before(a, b) == Start(a) < Start(b) \/ (Start(a) = Start(b) /\ a < b)

\* The recording a later one is compared with: of those before it, the one
\* that ends last.
Previous(S, r) ==
    CHOOSE p \in S : /\ Before(p, r)
                     /\ \A q \in S : Before(q, r) =>
                          q = p \/ End(q) < End(p) \/ (End(q) = End(p) /\ Before(q, p))

\* The groups of recordings, each between one break and the next.
_cluster(S, barriers) ==
    LET breaks == {r \in S : (\E p \in S : Before(p, r))
                                => ~_same_journey(Previous(S, r), r, barriers)}
    IN {{r \in S : ~Before(r, b) /\ \A c \in breaks : Before(c, b) \/ c = b \/ Before(r, c)}
           : b \in breaks}

\* intentional_intervals of a span of time.
_intentional_gaps(first, last) ==
    from_intervals(IF last <= first THEN {}
                   ELSE {i \in layout.omitted : i[1] < last /\ i[2] > first})

Spanning(S) == _intentional_gaps(Min({Start(r) : r \in S}), Max({End(r) : r \in S}))

Manual(j) == j # 0 /\ jou[j].manual
Ready(S) == {r \in S : rec[r].ready}
Movable == {r \in Ready(Recs) : ~Manual(rec[r].journey)}
Clusters == _cluster(Movable, IF Movable = {} THEN {} ELSE Spanning(Movable))

\* Mutant: the setting for short journeys is not consulted.
NeedsJourney ==
    LET clusters == Clusters
        held(S) == {rec[r].journey : r \in S}
    IN \E S \in clusters : \/ Cardinality(held(S)) # 1 \/ 0 \in held(S)
                           \/ \E T \in clusters \ {S} : held(T) = held(S)

\* A rebuild would group the library differently.
needs_recluster ==
    LET clusters == Clusters
        held(S) == {rec[r].journey : r \in S}
    IN \E S \in clusters :
        \/ Cardinality(S) < MinRecordings /\ held(S) # {0}
        \/ /\ Cardinality(S) >= MinRecordings
           /\ \/ Cardinality(held(S)) # 1 \/ 0 \in held(S)
              \/ \E T \in clusters \ {S} : Cardinality(T) >= MinRecordings /\ held(T) = held(S)

---------------------------------------------------------------------------
(* Refresh: derive from what was read, publish if it still stands.          *)

Members(j) == {r \in Ready(Recs) : rec[r].journey = j}

\* _derive_refresh: the rollup of these recordings over an old row.
Rollup(row, S) ==
    IF S = {} THEN row
    ELSE [row EXCEPT !.first = Min({Start(r) : r \in S}), !.last = Max({End(r) : r \in S})]

\* Mutant: only the recordings are pointed at their journey.
RecordingsOnly(f, S, j) == [r \in Recs |-> IF r \in S THEN [f[r] EXCEPT !.journey = j] ELSE f[r]]

\* _attach: the recordings and the rows that point at their journey.
_attach(f, S, j) == [r \in Recs |-> IF r \in S THEN [f[r] EXCEPT !.journey = j, !.rows = {j}] ELSE f[r]]

Seen(S) == [r \in S |-> rec[r]]

_prepare_refresh(j, extra) ==
    LET members == IF j = 0 THEN {} ELSE Members(j) IN
    [pc |-> "planned", target |-> j, members |-> members, seen |-> Seen(members \cup extra),
     row |-> IF j = 0 THEN Gone ELSE jou[j]]

\* JourneyRefreshConflict
Conflict(plan) ==
    \/ plan.target # 0 /\ jou[plan.target] # plan.row
    \/ Seen(DOMAIN plan.seen) # plan.seen
    \/ plan.target # 0 /\ Members(plan.target) # plan.members

---------------------------------------------------------------------------
(* An analysis, whose last stage is assign_recording.                       *)

Running == {"stages", "planned"}

\* A re-analysis of some stages invalidates what they wrote; that of a
\* replaced file, or the first one, does not.
Reanalyse(r) ==
    /\ asg[r].pc \in {"none", "failed"} /\ Once("again")
    /\ \E ready \in {FALSE, rec[r].ready} : rec' = [rec EXCEPT ![r].ready = ready]
    /\ asg' = [asg EXCEPT ![r].pc = "due"]
    /\ UNCHANGED <<layout, jou, nextId, rb>>

\* A worker takes the next of them up.
AnalysisStarts(r) ==
    /\ asg[r].pc = "due" /\ Cardinality({q \in Recs : asg[q].pc \in Running}) < Workers
    /\ asg' = [asg EXCEPT ![r].pc = "stages"]
    /\ UNCHANGED <<layout, rec, jou, nextId, rb, done>>

\* A stage commits: its rows are written anew, under no journey, whatever
\* journey the recording is in; the last one due makes the recording ready.
StageCommits(r) ==
    /\ asg[r].pc = "stages"
    /\ \E kept \in SUBSET rec[r].rows, ready \in {rec[r].ready, TRUE} :
         rec' = [rec EXCEPT ![r].rows = {0} \cup kept, ![r].ready = ready]
    /\ UNCHANGED <<layout, jou, nextId, rb, asg, done>>

\* A stage fails for good: what was committed stays, nothing is assigned.
StageFails(r) ==
    /\ asg[r].pc = "stages" /\ Once("failure")
    /\ asg' = [asg EXCEPT ![r].pc = "failed"]
    /\ UNCHANGED <<layout, rec, jou, nextId, rb>>

Near(r) == {j \in Ids : Exists(j) /\ jou[j].first <= Start(r) + Gap /\ jou[j].last + Gap >= Start(r)}

Takes(j, r) ==
    LET first == Min({jou[j].first, Start(r)})
        last == Max({jou[j].last, End(r)})
        barriers == _intentional_gaps(first, last)
        members == Members(j) \ {r}
        clusters == _cluster(members \cup {r}, barriers)
    IN \/ jou[j].manual
       \/ barriers = {}
       \/ \E S \in clusters : r \in S /\ S \cap members # {}

\* The latest journey near it that takes it, or a new one.
AssignPlan(r) ==
    /\ asg[r].pc = "stages"
    /\ LET takers == {j \in Near(r) : Takes(j, r)} IN
       \E j \in IF takers = {} THEN {0}
                ELSE {k \in takers : \A l \in takers : jou[l].first <= jou[k].first} :
         asg' = [asg EXCEPT ![r] = _prepare_refresh(j, {r})]
    /\ UNCHANGED <<layout, rec, jou, nextId, rb, done>>

\* A conflict rolls back and fails the stage; its job is retried, stages and
\* all.  A stage without its model is passed over: the recording need not be
\* ready.
AssignPublish(r) ==
    /\ asg[r].pc = "planned"
    /\ LET plan == asg[r]
           group == DOMAIN plan.seen
           j == IF plan.target = 0 THEN nextId ELSE plan.target
       IN \/ /\ Conflict(plan)
             /\ asg' = [asg EXCEPT ![r] = [NoPlan EXCEPT !.pc = "due"]]
             /\ UNCHANGED <<rec, jou, nextId>>
          \/ /\ ~Conflict(plan) /\ nextId <= MaxJourney
             /\ rec' = _attach(rec, group, j)
             /\ jou' = [jou EXCEPT ![j] = Rollup(@, group)]
             /\ nextId' = IF plan.target = 0 THEN nextId + 1 ELSE nextId
             /\ asg' = [asg EXCEPT ![r] = NoPlan]
    /\ UNCHANGED <<layout, rb, done>>

---------------------------------------------------------------------------
(* rebuild: one transaction per cluster.                                    *)

\* The scheduler, when it would change something; the user, at any time.
RebuildStart ==
    /\ rb.pc = "idle" /\ Clusters # {}
    /\ (needs_recluster /\ UNCHANGED done) \/ Once("rebuild")
    /\ rb' = [Idle EXCEPT !.pc = "plan", !.clusters = Clusters, !.expected = Seen(Movable)]
    /\ UNCHANGED <<layout, rec, jou, nextId, asg>>

\* The clusters are taken in the order of time.
Now == CHOOSE S \in rb.clusters : \A T \in rb.clusters : \E r \in S : \A q \in T : r = q \/ Before(r, q)
WasIn(S) == {rb.expected[r].journey : r \in S} \ {0}

\* The derivation of the next cluster's rollup.
RebuildPlan ==
    /\ rb.pc = "plan" /\ rb.clusters # {}
    /\ rb' = [rb EXCEPT !.pc = "publish", !.seen = Seen(Now)]
    /\ UNCHANGED <<layout, rec, jou, nextId, asg, done>>

\* Mutant: a recording the user moved meanwhile is taken back.
StillReady(S) == \A r \in S : rec[r].ready

\* The recordings are still where the clustering found them, and movable.
Unchanged(S) ==
    \A r \in S : rec[r].ready /\ ~Manual(rec[r].journey) /\ rec[r].journey = rb.expected[r].journey

\* The last cluster of the plan that takes from a journey may keep its row.
KeepsRow(j) == \A T \in rb.clusters \ {Now} : j \notin WasIn(T)

\* The journeys whose row the cluster may keep (Journey.title, which would be
\* preferred, has no writer).
Reusable(S) ==
    {j \in {rec[r].journey : r \in S} \ {0} :
        ~jou[j].manual /\ j \notin rb.used /\ KeepsRow(j) /\ Members(j) \subseteq S}

Step(r) == [r EXCEPT !.pc = "plan", !.clusters = @ \ {Now}, !.seen = <<>>]

RebuildCluster ==
    /\ rb.pc = "publish"
    /\ LET S == Now
           old == {rec[r].journey : r \in S} \ {0}
           j == IF Reusable(S) = {} THEN nextId ELSE Min(Reusable(S))
       IN \/ /\ ~Unchanged(S) \/ (Cardinality(S) >= MinRecordings /\ Seen(S) # rb.seen)
             /\ rb' = Step([rb EXCEPT !.deferred = @ \cup WasIn(S)])
             /\ UNCHANGED <<rec, jou, nextId>>
          \/ /\ Unchanged(S) /\ Cardinality(S) < MinRecordings
             /\ rec' = _attach(rec, S, 0)
             /\ rb' = Step([rb EXCEPT !.sources = @ \cup old])
             /\ UNCHANGED <<jou, nextId>>
          \/ /\ Unchanged(S) /\ Cardinality(S) >= MinRecordings /\ Seen(S) = rb.seen
             /\ j <= MaxJourney
             /\ rec' = _attach(rec, S, j)
             /\ jou' = [jou EXCEPT ![j] = Rollup(@, S)]
             /\ nextId' = IF j = nextId THEN nextId + 1 ELSE nextId
             /\ rb' = Step([rb EXCEPT !.sources = @ \cup old, !.used = @ \cup {j}])
    /\ UNCHANGED <<layout, asg, done>>

Leftover == rb.sources \ (rb.used \cup rb.deferred)
Unreferenced(j) == \A r \in Recs : rec[r].journey # j /\ j \notin rec[r].rows

\* Donors are recomputed; an empty one is deleted.
RebuildClose ==
    /\ rb.pc = "plan" /\ rb.clusters = {}
    /\ IF Leftover = {} THEN rb' = Idle /\ UNCHANGED jou
       ELSE LET j == Min(Leftover) IN
            /\ rb' = [rb EXCEPT !.sources = @ \ {j}]
            /\ jou' = [jou EXCEPT ![j] =
                 IF @.manual \/ ~Exists(j) THEN @
                 ELSE IF Members(j) # {} THEN Rollup(@, Members(j))
                 ELSE IF Unreferenced(j) THEN Gone
                 ELSE @]
    /\ UNCHANGED <<layout, rec, nextId, asg, done>>

---------------------------------------------------------------------------
(* The user.                                                                *)

merge ==
    /\ Once("merge")
    /\ \E j, k \in Ids :
         /\ j # k /\ Exists(j) /\ Exists(k) /\ jou[j].first <= jou[k].first
         /\ LET moved == [r \in Recs |->
                  [rec[r] EXCEPT !.journey = IF @ = k THEN j ELSE @,
                                 !.rows = IF k \in @ THEN (@ \ {k}) \cup {0} ELSE @]]
                members == {r \in Recs : moved[r].ready /\ moved[r].journey = j}
            IN /\ rec' = _attach(moved, members, j)
               /\ jou' = [jou EXCEPT ![k] = Gone, ![j] = [Rollup(@, members) EXCEPT !.manual = TRUE]]
    /\ UNCHANGED <<layout, nextId, rb, asg>>

split ==
    /\ Once("split") /\ nextId <= MaxJourney
    /\ \E j \in Ids, at \in Recs :
         LET order == {r \in Recs : rec[r].journey = j}
             tail == {r \in order : ~Before(r, at)}
             moved == [r \in Recs |-> IF r \in tail THEN [rec[r] EXCEPT !.journey = nextId] ELSE rec[r]]
             ready(k) == {r \in Recs : moved[r].ready /\ moved[r].journey = k}
         IN /\ Exists(j) /\ at \in order /\ tail # order
            /\ rec' = _attach(_attach(moved, ready(j), j), ready(nextId), nextId)
            /\ jou' = [jou EXCEPT
                 ![j] = [Rollup(@, ready(j)) EXCEPT !.manual = TRUE],
                 ![nextId] = Rollup([Gone EXCEPT !.manual = TRUE, !.first = Start(at),
                                                 !.last = Max({End(r) : r \in tail})],
                                    ready(nextId))]
    /\ nextId' = nextId + 1
    /\ UNCHANGED <<layout, rb, asg>>

\* revalidate_motion, repair_stale: one journey's rollup is derived anew.
refresh ==
    /\ \E j \in Ids : Exists(j) /\ Once("refresh") /\ jou' = [jou EXCEPT ![j] = Rollup(@, Members(j))]
                      /\ rec' = _attach(rec, Members(j), j)
    /\ UNCHANGED <<layout, nextId, rb, asg>>

Rebuild == RebuildStart \/ RebuildPlan \/ RebuildCluster \/ RebuildClose
Assign == \E r \in Recs : AnalysisStarts(r) \/ AssignPlan(r) \/ AssignPublish(r)
Stage == \E r \in Recs : StageCommits(r) \/ StageFails(r)
User == merge \/ split \/ refresh \/ \E r \in Recs : Reanalyse(r)

JourneyNext == Rebuild \/ Assign \/ Stage \/ User

Working == \E r \in Recs : asg[r].pc \in Running \cup {"due"}
RebuildStep == RebuildPlan \/ RebuildCluster \/ RebuildClose
Due == rb.pc = "idle" /\ needs_recluster

\* Weak fairness, the enabling conditions written out: workers retry a failed
\* stage, a rebuild runs to its end, and the scheduler's pass comes round.
JourneySpec ==
    /\ JourneyInit /\ [][JourneyNext]_journeyVars
    /\ []<>(~Working) \/ []<><<Assign>>_journeyVars
    /\ []<>(rb.pc = "idle") \/ []<><<RebuildStep>>_journeyVars
    /\ []<>(~Due) \/ []<><<RebuildStart>>_journeyVars

---------------------------------------------------------------------------
\* Every variable keeps its type, and a journey's times their order.
JourneyTypeOK ==
    /\ \A r \in Recs : rec[r].journey \in 0 .. MaxJourney /\ rec[r].rows \subseteq 0 .. MaxJourney
    /\ nextId \in 1 .. MaxJourney + 1
    /\ rb.used \subseteq Ids
    /\ \A j \in Ids : jou[j].first <= jou[j].last

\* The clustering against its meaning: two recordings belong together exactly
\* when no cut separates them, where a recording is linked to a later one if
\* the pause is within the gap and no omitted clip falls into it.
ClustersAreSessions ==
    LET linked(a, b) == /\ Start(b) <= End(a) + Gap
                        /\ \A i \in layout.omitted : ~(i[1] < Start(b) /\ i[2] > End(a) /\ End(a) < Start(b)
                                                       /\ i[1] < i[2])
        joined(a, b) == IF Start(a) <= Start(b) THEN linked(a, b) ELSE linked(b, a)
        together(a, b) == ~\E S \in SUBSET Recs :
                              a \in S /\ b \notin S /\ ~\E x \in S, y \in Recs \ S : joined(x, y)
        clusters == _cluster(Recs, Spanning(Recs))
    IN nextId = 1 /\ layout.far = {} =>
         \A a, b \in Recs :
             together(a, b) <=> \E S \in clusters : {a, b} \subseteq S

\* A rebuild never moves a recording out of a journey the user made, not even
\* one merged or split while the rebuild was deriving it.
RebuildKeepsManual ==
    [][RebuildCluster =>
         \A r \in Recs : Manual(rec[r].journey) => rec'[r].journey = rec[r].journey]_journeyVars

\* Recordings and rows name journeys there are.  Once an analysis has been
\* assigned, and until the next one is due, a ready recording and all rows
\* derived from it name the same journey, whoever regrouped it since: the rows
\* the stages left under none, or under one it is no longer in, have followed.
RowsFollow ==
    \A r \in Recs :
        /\ rec[r].ready /\ asg[r].pc = "none" => rec[r].rows = {rec[r].journey}
        /\ rec[r].journey # 0 => Exists(rec[r].journey)
        /\ \A j \in rec[r].rows \ {0} : Exists(j)

\* Analyses, rebuilds and edits come to rest: a rebuild ends up with nothing
\* left to change.
Converges == <>[](~needs_recluster)

\* Journeys are the sessions the gaps define, and rows name the journeys there are.
GroupedAsDefined == JourneyTypeOK /\ ClustersAreSessions /\ RowsFollow
=============================================================================
