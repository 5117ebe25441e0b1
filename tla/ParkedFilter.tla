---------------------------- MODULE ParkedFilter ----------------------------
(* Which clips of a parked car a pull leaves on the unit                     *)
(* (ingest/parked_filter.py, ingest/clip_exclusions.py and the quiet         *)
(* analysis handoff of ingest/puller.py).                                    *)
(*                                                                           *)
(* The logger on the unit publishes a transfer policy: per clip whether its  *)
(* picture was quiet.  A pull asks for it again on every listing, checks the *)
(* proof, the clips of the same moment and the bytes themselves, records the *)
(* exclusion, and uploads whatever is not proved.  While an analysis is      *)
(* pending it may wait, never into the unit's own sleep.                     *)
(*                                                                           *)
(* Time counts minutes.  Clip lengths, guards and limits are the code's.     *)
(* skip_parked_footage and quiet_radios are on.                              *)
EXTENDS Naturals, FiniteSets, FiniteSetsExt

CONSTANTS
    Clips,         \* the clips
    Start, End,    \* clip -> the minute it starts, and ends
    Camera,        \* clip -> its camera
    Quiets,        \* the sets of clips whose picture may have been quiet
    MaxChecks,     \* MAX_FINGERPRINT_CHECKS of one pull
    Native,        \* the unit's own sleep delay after ignition OFF
    Horizon,       \* bound: the clock stops here
    Words(_),      \* what a policy may say of a clip in this instance
    Slots,         \* bound: the minutes at which it publishes
    Publications,  \* bound: policies the logger publishes
    Few            \* bound: disturbances of one behaviour

Guard == 2           \* ignition OFF on both sides of a clip (120 s)
MaxAge == 3          \* MAX_AGE_SECONDS
MaxDefer == 6        \* MAX_DEFER_SECONDS
DeferReserve == 2    \* DEFER_SLEEP_RESERVE_SECONDS
FirstWindow == 8     \* QUIET_ANALYSIS_FIRST_WINDOW_S
MaxWait == 3         \* QUIET_ANALYSIS_MAX_WAIT_S
NativeReserve == 4   \* QUIET_ANALYSIS_NATIVE_RESERVE_S
On == 99             \* no ignition OFF edge

\* A recorded clip lasts at most the two minutes that _eligible_quiet accepts
\* and that _paired_candidates looks back for an unknown peer.
ASSUME ClipsAssumption ==
    /\ IsFiniteSet(Clips)
    /\ Start \in [Clips -> Nat] /\ End \in [Clips -> Nat]
    /\ \A c \in Clips : Start[c] < End[c] /\ End[c] <= Start[c] + Guard

\* The clock starts at 3 and stops before On; budgets are numbers of minutes
\* and of checks.
ASSUME LimitsAssumption ==
    /\ MaxChecks \in Nat /\ Native \in Nat
    /\ Horizon \in 3 .. (On - 1)

VARIABLES
    now,      \* the clock
    off,      \* when the ignition went OFF; 99 while it is on
    ver,      \* clip -> the bytes under its name, 1 or 2
    quiet,    \* clips whose bytes 1 show nothing moving; bytes 2 always do
    policy,   \* the published policy, or NoPolicy
    logger,   \* "ready" | "scanning" | "starting" | "gone"
    run,      \* the pull in progress
    rows,     \* ClipTransferExclusion: <<clip, bytes>>
    backed,   \* <<clip, bytes>> pulled to the server
    spent     \* disturbances so far

vars == <<now, off, ver, quiet, policy, logger, run, rows, backed, spent>>

NoPolicy == [at |-> 0, says |-> <<>>, count |-> 0]
NoResult == [files |-> {}, deferred |-> {}, skipped |-> {}, ready |-> FALSE, terminal |-> {}]

NoRun == [pc |-> "idle", stage |-> "first", remote |-> <<>>, log |-> [state |-> "gone", at |-> 0],
          policy |-> NoPolicy, sel |-> {}, def |-> {}, ready |-> FALSE, checks |-> 0, used |-> 0,
          released |-> {}, waited |-> FALSE, sawPending |-> FALSE, off |-> 0, until |-> 0,
          result |-> NoResult]

Init ==
    /\ now = 3
    /\ \/ off = 0 /\ logger = "ready"          \* parked for a while
       \/ off = now /\ logger = "starting"     \* just left again
    /\ ver = [c \in Clips |-> 1]
    /\ quiet \in Quiets
    /\ policy = NoPolicy
    /\ run = NoRun
    /\ rows = {} /\ backed = {} /\ spent = {}

Meets(event) == /\ event \notin spent
                /\ Cardinality(spent) < Few
                /\ spent' = spent \cup {event}

---------------------------------------------------------------------------
(* The car, the recorder and the logger (external).                         *)

Started == {c \in Clips : Start[c] <= now}

\* The handoff stops at its deadline: every await in it is under a timeout.
Due == run.stage = "loop" /\ now >= run.until

\* A pass takes seconds; a slow link can stretch it over a minute.
Tick ==
    /\ now < Horizon /\ ~Due /\ off # On
    /\ \/ run.pc \in {"idle", "wait"} /\ UNCHANGED spent
       \/ run.pc \notin {"idle", "wait"} /\ Meets("slow")
    /\ now' = now + 1
    /\ UNCHANGED <<off, ver, quiet, policy, logger, run, rows, backed>>

\* The driver comes back for a moment: a new ignition OFF edge, early enough
\* for the clock to reach the end of its window.
Ignition ==
    /\ \/ off # On /\ now + Native - NativeReserve <= Horizon /\ Meets("drive") /\ off' = On
       \/ off = On /\ off' = now /\ UNCHANGED spent
    /\ UNCHANGED <<now, ver, quiet, policy, logger, run, rows, backed>>

\* The recorder reuses a name.
Rewrite ==
    /\ Meets("rewrite")
    /\ \E c \in Started : ver' = [ver EXCEPT ![c] = 2]
    /\ UNCHANGED <<now, off, quiet, policy, logger, run, rows, backed>>

LoggerMoves ==
    /\ \/ logger \in {"starting", "scanning"} /\ logger' = "ready" /\ UNCHANGED spent
       \/ logger = "ready" /\ Meets("scan") /\ logger' = "scanning"
       \/ logger = "ready" /\ Meets("logger") /\ logger' = "starting"
       \/ logger # "gone" /\ Meets("gone") /\ logger' = "gone"
    /\ UNCHANGED <<now, off, ver, quiet, policy, run, rows, backed>>

\* What a policy may truthfully say of a clip that has ended.
Sayings(c) ==
    {"pending", "peer_pending"}
      \cup IF ver[c] = 1 /\ c \in quiet THEN {"skip", "quiet_wait", "peer"} ELSE {"activity"}

\* A pass reads the policy once: publishing between its steps changes nothing.
Publish ==
    /\ policy.count < Publications /\ logger # "gone" /\ off # On
    /\ now \in Slots /\ policy.at < now /\ run.pc \in {"idle", "wait", "plan"}
    /\ \E told \in SUBSET {c \in Clips : End[c] <= now} :
         \E says \in [told -> UNION {Words(c) : c \in told}] :
           /\ \A c \in told : says[c] \in Sayings(c) \cap Words(c)
           /\ policy' = [at |-> now, count |-> policy.count + 1,
                         says |-> [c \in told |-> [kind |-> says[c], bytes |-> ver[c]]]]
    /\ UNCHANGED <<now, off, ver, quiet, logger, run, rows, backed, spent>>

---------------------------------------------------------------------------
(* The proofs a policy may carry.                                           *)

Told(p) == DOMAIN p.says
Kind(p, c) == p.says[c].kind

\* validate_policy_manifest, _eligible_quiet: the guard reaches past the end
\* and no further than the policy.
GuardAfter(p, c) == p.at >= End[c] + Guard

eligible_skip(p) == {c \in Told(p) : Kind(p, c) = "skip" /\ GuardAfter(p, c)}

_quiet_witness(p) ==
    {c \in Told(p) : Kind(p, c) \in {"skip", "peer", "quiet_wait"} /\ GuardAfter(p, c)}

DeferUntil(c) == End[c] + MaxDefer

Remaining == IF off = On THEN 0 ELSE off + Native - now

Deferrable(p, c) ==
    /\ End[c] <= now /\ now < DeferUntil(c)
    /\ Remaining > DeferUntil(c) - now + DeferReserve
    /\ End[c] <= p.at /\ p.at <= now

eligible_defer(p) ==
    {c \in Told(p) : Kind(p, c) \in {"pending", "quiet_wait"} /\ Deferrable(p, c)}

_pending_witness(p) ==
    _quiet_witness(p) \cup
    {c \in Told(p) : Kind(p, c) \in {"pending", "quiet_wait", "peer_pending"} /\ Deferrable(p, c)}

\* The listing shows the clip as the policy knew it: size and mtime.
_matched_proofs(p, remote, accepted) ==
    {c \in accepted \cap DOMAIN remote : remote[c] = p.says[c].bytes}

Overlaps(c, d) == d # c /\ Start[d] < End[c] /\ End[d] > Start[c]
_overlapping_peers(p, c) == {d \in Told(p) : Overlaps(c, d) /\ Camera[d] # Camera[c]}
_covers(peers, c) == \A t \in Start[c] .. (End[c] - 1) : \E d \in peers : Start[d] <= t /\ t < End[d]

\* A listed clip of the same moment that the policy cannot place.
UnknownPeer(p, remote, c) ==
    \E d \in DOMAIN remote \ {c} :
        Start[c] <= Start[d] + Guard /\ Start[d] < End[c] /\ d \notin Told(p)

_paired_candidates(p, remote, accepted, witnessing) ==
    LET witnesses == _matched_proofs(p, remote, witnessing) IN
    {c \in _matched_proofs(p, remote, accepted) :
        /\ ~UnknownPeer(p, remote, c)
        /\ \A d \in Told(p) : Overlaps(c, d) => d \in witnesses
        /\ _covers(_overlapping_peers(p, c), c)}

_required_quiet_proofs(p, selected) ==
    {d \in Told(p) : d \in selected \/ \E c \in selected : Overlaps(c, d)}

---------------------------------------------------------------------------
(* filter_inventory: one pass over one listing.                             *)

Usable(log) == log.at = now /\ log.state \in {"ready", "scanning"}

At(pc) == run.pc = pc
Keep == UNCHANGED <<now, off, ver, quiet, policy, logger>>

\* Nothing is proved: every clip is uploaded.
Unproved(r) == [r EXCEPT !.pc = "audit", !.sel = {}, !.def = {}, !.ready = FALSE]

Pending(p, remote) == _paired_candidates(p, remote, eligible_defer(p), _pending_witness(p))

Current == Usable(run.log) /\ policy # NoPolicy /\ now - policy.at <= MaxAge

\* The policy and the card it is about are read; what they prove is picked.
ReadPolicy ==
    /\ At("read")
    /\ \/ ~Current /\ run' = [Unproved(run) EXCEPT !.policy = policy] /\ UNCHANGED spent
       \/ Meets("adb") /\ run' = Unproved(run)
       \/ Meets("card") /\ run' = [Unproved(run) EXCEPT !.policy = policy]
       \/ /\ Current
          /\ LET sel == IF run.log.state = "ready"
                        THEN _paired_candidates(policy, run.remote,
                                                eligible_skip(policy), _quiet_witness(policy))
                        ELSE {}
             IN run' = [run EXCEPT !.policy = policy, !.sel = sel,
                                   !.def = Pending(policy, run.remote), !.ready = TRUE,
                                   !.pc = IF sel = {} THEN "audit" ELSE "finger"]
          /\ UNCHANGED spent
    /\ Keep /\ UNCHANGED <<rows, backed>>

Least(a, b) == IF a <= b THEN a ELSE b

Budget == MaxChecks - run.used

\* Mutant: the listing's size and mtime are taken for the bytes.
Trusted(checking, p) == {c \in checking : run.remote[c] = p.says[c].bytes}

\* The unit hashes the bytes under the name; the first Budget of them.
Verified(checking, p) == {c \in checking : ver[c] = p.says[c].bytes}

_verify_fingerprints ==
    /\ At("finger")
    /\ LET p == run.policy
           required == _required_quiet_proofs(p, run.sel)
           hashes == Least(Cardinality(required), Budget)
       IN \/ \E checking \in kSubset(hashes, required) :
               LET verified == Verified(checking, p)
               IN /\ run' = [run EXCEPT
                        !.pc = "audit", !.checks = hashes,
                        !.sel = _paired_candidates(p, run.remote, eligible_skip(p) \cap verified,
                                                   _quiet_witness(p) \cap verified)]
                  /\ UNCHANGED spent
          \/ Meets("adb") /\ run' = Unproved([run EXCEPT !.checks = hashes])
    /\ Keep /\ UNCHANGED <<rows, backed>>

Names(r) == DOMAIN r.remote

\* _filter_parked_inventory: what was waited for is not deferred again.
Released(r, result) ==
    [result EXCEPT !.files = @ \cup (result.deferred \cap r.released),
                   !.deferred = @ \ r.released]

\* The pass ends with these verdicts.
Returns(r, result) ==
    [r EXCEPT !.pc = IF r.stage = "final" THEN "plan" ELSE "judged", !.used = @ + r.checks, !.checks = 0, !.sel = {}, !.def = {},
              !.policy = NoPolicy, !.result = Released(r, result)]

Everything == [NoResult EXCEPT !.files = Names(run)]

\* record_evaluation refuses proofs of a policy gone stale.
Recordable == run.sel = {} \/ now - run.policy.at <= MaxAge

record_evaluation ==
    /\ At("audit")
    /\ \/ /\ Recordable
          /\ rows' = rows \cup {<<c, run.policy.says[c].bytes>> : c \in run.sel}
          /\ run' = [run EXCEPT !.pc = "recheck"]
          /\ UNCHANGED spent
       \/ /\ \/ ~Recordable /\ UNCHANGED spent
             \/ Meets("audit")
          /\ run' = Returns(run, Everything)
          /\ UNCHANGED rows
    /\ Keep /\ UNCHANGED backed

\* Deferrals are judged again after the awaits; proofs keep their verdict.
StillPending ==
    IF run.def # {} /\ now - run.policy.at <= MaxAge /\ run.log.at = now
    THEN run.def \cap Pending(run.policy, run.remote)
    ELSE {}

Terminal(c) == /\ Kind(run.policy, c) = "activity" /\ run.remote[c] = run.policy.says[c].bytes
               /\ End[c] <= now /\ now < DeferUntil(c)

Judge ==
    /\ At("recheck")
    /\ run' = Returns(run,
         [files |-> Names(run) \ (run.sel \cup StillPending),
          deferred |-> StillPending \ run.sel,
          skipped |-> run.sel,
          ready |-> run.ready,
          terminal |-> IF run.ready THEN {c \in Names(run) \cap Told(run.policy) : Terminal(c)}
                       ELSE {}])
    /\ Keep /\ UNCHANGED <<rows, backed, spent>>

---------------------------------------------------------------------------
(* The quiet analysis handoff.                                              *)

\* Mutant: a listing forgets clips that started more than eight minutes ago.
RecentListing == [c \in {d \in Started : now <= Start[d] + 8} |-> ver[c]]

Listing == [c \in Started |-> ver[c]]
LogNow == [state |-> logger, at |-> now]

StartRun ==
    /\ At("idle") /\ off # On
    /\ run' = [NoRun EXCEPT !.pc = "read", !.remote = Listing, !.log = LogNow]
    /\ Keep /\ UNCHANGED <<rows, backed, spent>>

\* _analysis_native_budget
NativeBudget == off # On /\ off + Native > now + NativeReserve

\* Mutant: the wait may run to the moment of sleep.
UntilSleep(t) == Least(t, off + Native)

\* The end of the wait within the native budget.
BeforeSleep(t) == Least(t, off + Native - NativeReserve)

Missing(clips) == {c \in clips : <<c, run.remote[c]>> \notin backed}
NextUntil(deferred) == Min({DeferUntil(c) : c \in deferred})

\* The pull goes on with what it has; after a wait the filter runs once more.
GoOn(r) ==
    IF r.waited
    THEN [r EXCEPT !.stage = "final", !.pc = "read", !.log = LogNow,
                   !.released = @ \cup r.result.deferred]
    ELSE [r EXCEPT !.pc = "plan"]

StartsUp == run.log.state = "starting" /\ run.log.at = now /\ NativeBudget /\ off = now

\* _await_parked_indexer: seconds, until the indexer is ready or gives up.
_await_parked_indexer ==
    /\ At("judged") /\ run.stage = "first" /\ ~run.waited /\ Names(run) # {} /\ StartsUp
    /\ run' = IF logger \in {"ready", "scanning"}
              THEN [run EXCEPT !.waited = TRUE, !.pc = "read", !.remote = Listing, !.log = LogNow]
              ELSE GoOn([run EXCEPT !.waited = TRUE])
    /\ Keep /\ UNCHANGED <<rows, backed, spent>>

BeginHandoff ==
    /\ At("judged") /\ run.stage = "first" /\ (run.waited \/ Names(run) = {} \/ ~StartsUp)
    /\ LET deferred == run.result.deferred
           anticipate == now - off < FirstWindow
           first == IF anticipate THEN off + FirstWindow
                    ELSE Least(NextUntil(deferred), now + MaxWait)
       IN run' = IF Usable(run.log) /\ run.result.ready /\ NativeBudget
                    /\ (anticipate \/ deferred # {})
                 THEN [run EXCEPT
                        !.pc = "loop", !.stage = "loop", !.off = off,
                        !.sawPending = deferred # {},
                        !.until = BeforeSleep(IF deferred = {} THEN first
                                              ELSE Least(first, NextUntil(deferred)))]
                 ELSE GoOn(run)
    /\ Keep /\ UNCHANGED <<rows, backed, spent>>

\* The head of the wait loop.
HandoffLoop ==
    /\ At("loop")
    /\ LET pending == Missing(run.result.deferred)
           terminal == {c \in Missing(run.result.terminal) : Start[c] >= run.off + Guard}
           r == [run EXCEPT !.result.deferred = pending]
       IN run' = IF Due \/ (pending = {} /\ (terminal # {} \/ Missing(run.result.files) = {}))
                 THEN GoOn(IF Due THEN run ELSE r)
                 ELSE [r EXCEPT !.pc = "wait", !.waited = TRUE]
    /\ Keep /\ UNCHANGED <<rows, backed, spent>>

\* The unit's OFF edge is the one the wait began with.
SameEdge == off = run.off

ProbeAgrees == SameEdge /\ NativeBudget /\ logger \in {"ready", "scanning"}

\* The rechecks of one minute see the same minute: one of them is kept.
HandoffProbe ==
    /\ At("wait")
    /\ \/ (Due \/ ~ProbeAgrees) /\ run' = GoOn(run) /\ UNCHANGED spent
       \/ Meets("probe") /\ run' = GoOn(run)
       \/ /\ ~Due /\ ProbeAgrees /\ run.log.at < now
          /\ run' = [run EXCEPT !.pc = "read", !.remote = Listing, !.log = LogNow,
                                !.until = BeforeSleep(@)]
          /\ UNCHANGED spent
    /\ Keep /\ UNCHANGED <<rows, backed>>

\* The deadline interrupts a pass; the verdicts of the one before stand.
HandoffTimesOut ==
    /\ Due /\ run.pc \in {"read", "finger", "audit", "recheck"}
    /\ run' = GoOn([run EXCEPT !.checks = 0, !.sel = {}, !.def = {},
                                !.policy = NoPolicy])
    /\ Keep /\ UNCHANGED <<rows, backed, spent>>

HandoffJudged ==
    /\ At("judged") /\ run.stage = "loop"
    /\ LET deferred == run.result.deferred IN
       run' = IF ~run.result.ready \/ (deferred = {} /\ run.sawPending)
              THEN GoOn(run)
              ELSE IF deferred = {} THEN [run EXCEPT !.pc = "loop"]
              ELSE [run EXCEPT !.pc = "loop", !.sawPending = TRUE,
                               !.until = Least(@, NextUntil(deferred))]
    /\ Keep /\ UNCHANGED <<rows, backed, spent>>

---------------------------------------------------------------------------
(* The transfer, and the sweep after it (the copying itself is CameraPull). *)

Yields == run.result.ready /\ Missing(run.result.deferred) # {}

Transfer ==
    /\ At("plan")
    /\ backed' = backed \cup {<<c, ver[c]>> : c \in run.result.files}
    /\ run' = IF run.stage = "sweep" THEN NoRun
              ELSE [run EXCEPT !.pc = "read", !.stage = "sweep", !.remote = Listing,
                               !.log = LogNow]
    /\ Keep /\ UNCHANGED <<rows, spent>>

\* A clip still being analysed ends the pull early: the logger gets its turn.
SweepJudged ==
    /\ At("judged") /\ run.stage = "sweep"
    /\ run' = IF Yields THEN NoRun ELSE [run EXCEPT !.pc = "plan"]
    /\ Keep /\ UNCHANGED <<rows, backed, spent>>

Pass == ReadPolicy \/ _verify_fingerprints \/ record_evaluation \/ Judge
Handoff == \/ _await_parked_indexer \/ BeginHandoff \/ HandoffLoop \/ HandoffProbe
           \/ HandoffTimesOut \/ HandoffJudged
Pull == StartRun \/ Transfer \/ SweepJudged
Unit == Tick \/ Ignition \/ Rewrite \/ LoggerMoves \/ Publish

Next == Pass \/ Handoff \/ Pull \/ Unit

\* The pull's own steps and the clock go on; the driver leaves again.
Spec == /\ Init /\ [][Next]_vars
        /\ WF_vars(Pass \/ Handoff \/ Pull)
        /\ SF_vars(Tick)
        /\ WF_vars(off = On /\ Ignition)

---------------------------------------------------------------------------
Versions == Clips \X {1, 2}

\* Every variable keeps its type, and a pull its number of checks.
TypeOK ==
    /\ now \in 0 .. Horizon /\ off \in 0 .. Horizon \cup {On}
    /\ ver \in [Clips -> {1, 2}]
    /\ logger \in {"ready", "scanning", "starting", "gone"}
    /\ rows \subseteq Versions /\ backed \subseteq Versions
    /\ run.used \in 0 .. MaxChecks /\ run.released \subseteq Clips
    /\ run.result.skipped \subseteq Clips

\* When the pull settles on clips to leave behind, the bytes on the unit at
\* that moment are quiet for each of them and for every listed clip of the
\* same moment, whatever was rewritten since the listing or the policy.
LeftBehindIsQuiet ==
    [][_verify_fingerprints =>
         \A c \in run'.sel, d \in Started :
             d = c \/ (d \in DOMAIN run.remote /\ Overlaps(c, d)) => ver[d] = 1 /\ d \in quiet]_vars

\* A clip left behind has its exclusion on record, and every listed clip is
\* uploaded, waited for or left behind: exactly one of them.
EveryClipAccounted ==
    run.pc \in {"judged", "loop", "wait", "plan"} =>
      /\ \A c \in run.result.skipped : \E v \in {1, 2} : <<c, v>> \in rows
      /\ run.result.files \cap (run.result.deferred \cup run.result.skipped) = {}
      /\ run.result.deferred \cap run.result.skipped = {}
      /\ (run.pc = "judged") =>
           run.result.files \cup run.result.deferred \cup run.result.skipped = Names(run)

\* The wait for an analysis never reaches into the reserve before the unit's
\* own sleep, and a new OFF edge does not renew it.
WaitIsBounded ==
    run.stage = "loop" =>
      /\ off # On => now <= off + Native - NativeReserve
      /\ now <= run.off + FirstWindow \/ run.sawPending

\* A pull that has waited for a clip settles it in this pull.
WaitedIsSettled ==
    run.pc \in {"judged", "plan"} /\ run.stage \in {"final", "sweep"} =>
        run.result.deferred \cap run.released = {}

\* No clip is deferred for ever: each ends up pulled, or excluded on record.
Settled == <>(\A c \in Clips : \E v \in {1, 2} : <<c, v>> \in backed \cup rows)

\* Every listed clip is in exactly one place, and the wait for an analysis is
\* bounded and not repeated.
AccountedAndBounded == TypeOK /\ EveryClipAccounted /\ WaitIsBounded /\ WaitedIsSettled
=============================================================================
