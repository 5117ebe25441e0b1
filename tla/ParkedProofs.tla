---------------------------- MODULE ParkedProofs ----------------------------
(***************************************************************************)
(* Proofs about ParkedFilter for any clips of at most two minutes, any     *)
(* policies that tell the truth about the bytes they saw, any budgets and  *)
(* any mix of disturbances.                                                *)
(*                                                                         *)
(* World says what the variables outside the pull are; Sound says of the   *)
(* pull in progress what its steps rely on, as a predicate of the pull,    *)
(* the clock, the OFF edge and the recorded exclusions, so that a step is  *)
(* judged by the record it leaves.                                         *)
(***************************************************************************)
EXTENDS ParkedFilter, FiniteSetTheorems, WellFoundedInduction, TLAPS

-----------------------------------------------------------------------------
(* The inductive invariant.                                                *)

Listings == UNION {[S -> {1, 2}] : S \in SUBSET Clips}
Verdicts == [kind : {"pending", "peer_pending", "skip", "quiet_wait", "peer", "activity"},
             bytes : {1, 2}]
Policies == [at : Nat, says : UNION {[S -> Verdicts] : S \in SUBSET Clips}, count : Nat]
LoggerStates == {"ready", "scanning", "starting", "gone"}
Logs == [state : LoggerStates, at : Nat]
Results == [files : SUBSET Clips, deferred : SUBSET Clips, skipped : SUBSET Clips,
            ready : BOOLEAN, terminal : SUBSET Clips]

\* A pull, as its steps leave it.
Runs ==
  [pc : {"idle", "read", "finger", "audit", "recheck", "judged", "loop", "wait", "plan"},
   stage : {"first", "loop", "final", "sweep"}, remote : Listings, log : Logs, policy : Policies,
   sel : SUBSET Clips, def : SUBSET Clips, ready : BOOLEAN, checks : Nat, used : Nat,
   released : SUBSET Clips, waited : BOOLEAN, sawPending : BOOLEAN, off : Nat, until : Nat,
   result : Results]

\* What a policy takes for quiet was quiet, and its bytes were never rewritten
\* before the policy saw them.
Truthful(p, still) ==
  \A c \in Told(p) : Kind(p, c) \in {"skip", "peer", "quiet_wait"}
                       => p.says[c].bytes = 1 /\ c \in still

OnRecord(w, c) == \E v \in {1, 2} : <<c, v>> \in w

\* The clips a pass picked are listed and told of, and recorded before the
\* pass goes on.
Picked(r, w) ==
  /\ r.pc \in {"finger", "audit", "recheck"} => r.sel \subseteq DOMAIN r.remote \cap Told(r.policy)
  /\ r.pc = "recheck" => \A c \in r.sel : OnRecord(w, c)

\* The verdicts of the last pass are disjoint, and what it leaves behind is on
\* record; a pull that has just been judged has a verdict for every clip.
Apart(result, w) ==
  /\ \A c \in result.skipped : OnRecord(w, c)
  /\ result.files \cap (result.deferred \cup result.skipped) = {}
  /\ result.deferred \cap result.skipped = {}

Covered(r) ==
  r.pc = "judged" =>
    r.result.files \cup r.result.deferred \cup r.result.skipped = DOMAIN r.remote

Budgeted(r) == r.used + r.checks <= MaxChecks

\* While it waits, t is within the native budget of the OFF edge the wait
\* began with, and so is the deadline; o is that edge or a later one.
Bounded(r, t, o) ==
  r.stage = "loop" =>
    /\ r.off <= t /\ (o # On => r.off <= o)
    /\ t <= r.off + Native - NativeReserve
    /\ r.until <= r.off + Native - NativeReserve
    /\ ~r.sawPending => t <= r.off + FirstWindow /\ r.until <= r.off + FirstWindow

\* The wait is a stage of its own, and a pull that ends one settles what it
\* waited for.
Staged(r) ==
  /\ r.pc \in {"loop", "wait"} => r.stage = "loop"
  /\ r.pc \in {"judged", "plan"} /\ r.stage \in {"final", "sweep"}
       => r.result.deferred \cap r.released = {}

Sound(r, t, o, w) ==
  /\ r \in Runs
  /\ Picked(r, w) /\ Apart(r.result, w) /\ Covered(r)
  /\ Budgeted(r) /\ Bounded(r, t, o) /\ Staged(r)

World ==
  /\ now \in 0 .. Horizon /\ off \in 0 .. Horizon \cup {On}
  /\ off # On => off <= now
  /\ ver \in [Clips -> {1, 2}] /\ logger \in LoggerStates
  /\ policy \in Policies /\ Truthful(policy, quiet)
  /\ rows \subseteq Versions /\ backed \subseteq Versions

IInv == World /\ Sound(run, now, off, rows) /\ Truthful(run.policy, quiet)

-----------------------------------------------------------------------------
(* Numbers, listings and policies.                                         *)

\* The earlier of two moments is a moment, no later than either.
LEMMA LeastType ==
  ASSUME NEW a \in Nat, NEW b \in Nat
  PROVE  Least(a, b) \in Nat /\ Least(a, b) <= a /\ Least(a, b) <= b
BY DEF Least

\* A nonempty set of moments has an earliest one.
LEMMA MinType ==
  ASSUME NEW S \in SUBSET Nat, S # {}
  PROVE  Min(S) \in S
<1> DEFINE Less == {ss \in Nat \X Nat : ss[1] < ss[2]}
<1>1. PICK x \in S : \A y \in S : ~ (<<y, x>> \in Less)
  <2>1. IsWellFoundedOn(Less, Nat)
    BY Zenon, NatLessThanWellFounded DEF OpToRel
  <2> HIDE DEF Less
  <2> QED BY <2>1, WFMin
<1>2. ASSUME NEW y \in S PROVE x <= y
  <2>1. x \in Nat /\ y \in Nat
    OBVIOUS
  <2>2. y < x => <<y, x>> \in Less
    BY <2>1
  <2>3. ~ (<<y, x>> \in Less)
    <3> HIDE DEF Less
    <3> QED BY <1>1
  <2> HIDE DEF Less
  <2> QED BY <2>1, <2>2, <2>3
<1> QED
  BY <1>1, <1>2 DEF Min

\* The first deadline of deferred clips is a moment.
LEMMA NextUntilType ==
  ASSUME NEW S \in SUBSET Clips, S # {}
  PROVE  NextUntil(S) \in Nat
<1> DEFINE T == {DeferUntil(c) : c \in S}
<1>1. T \subseteq Nat
  BY ClipsAssumption DEF DeferUntil, MaxDefer
<1>2. T # {}
  OBVIOUS
<1>3. Min(T) \in T
  <2> HIDE DEF T
  <2> QED BY <1>1, <1>2, MinType
<1> QED
  BY <1>1, <1>3 DEF NextUntil

\* What a listing shows.
LEMMA ListingDomain ==
  ASSUME NEW f \in Listings
  PROVE  DOMAIN f \subseteq Clips /\ \A c \in DOMAIN f : f[c] \in {1, 2}
BY DEF Listings

\* The listing of this moment is one.
LEMMA ListingType ==
  ASSUME World
  PROVE  Listing \in Listings /\ LogNow \in Logs
<1>1. Started \in SUBSET Clips
  BY DEF Started
<1>2. Listing \in [Started -> {1, 2}]
  BY <1>1 DEF Listing, World
<1> QED
  BY <1>1, <1>2, LimitsAssumption DEF World, Listings, LogNow, Logs

\* What a policy tells of its clips.
LEMMA PolicyType ==
  ASSUME NEW p \in Policies
  PROVE  Told(p) \subseteq Clips /\ \A c \in Told(p) : p.says[c] \in Verdicts
<1>1. p.says \in UNION {[S -> Verdicts] : S \in SUBSET Clips}
  BY DEF Policies
<1>2. PICK S \in SUBSET Clips : p.says \in [S -> Verdicts]
  BY <1>1
<1> QED
  BY <1>2 DEF Told

\* No policy is one.
LEMMA NoPolicyType == NoPolicy \in Policies /\ Told(NoPolicy) = {}
<1>1. <<>> \in [{} -> Verdicts] /\ DOMAIN <<>> = {}
  OBVIOUS
<1>2. <<>> \in UNION {[S -> Verdicts] : S \in SUBSET Clips}
  BY <1>1
<1> QED
  BY <1>1, <1>2 DEF NoPolicy, Policies, Told

\* A policy that tells nothing tells no lie.
LEMMA NoPolicyTruthful == \A still : Truthful(NoPolicy, still)
BY NoPolicyType DEF Truthful

\* A pull that has not begun.
LEMMA NoRunType == NoRun \in Runs
<1>1. <<>> \in Listings
  <2>1. <<>> \in [{} -> {1, 2}]
    OBVIOUS
  <2> QED BY <2>1 DEF Listings
<1>2. NoResult \in Results
  BY DEF NoResult, Results
<1>3. [state |-> "gone", at |-> 0] \in Logs
  BY DEF Logs, LoggerStates
<1> QED
  BY <1>1, <1>2, <1>3, NoPolicyType DEF NoRun, Runs

\* The clips that are picked are among those that were accepted and listed.
LEMMA PairedSubset ==
  ASSUME NEW p, NEW remote, NEW accepted, NEW witnessing
  PROVE  _paired_candidates(p, remote, accepted, witnessing) \subseteq accepted \cap DOMAIN remote
BY DEF _paired_candidates, _matched_proofs

\* The clips a policy accepts are told of.
LEMMA AcceptedTold ==
  ASSUME NEW p
  PROVE  eligible_skip(p) \subseteq Told(p) /\ eligible_defer(p) \subseteq Told(p)
BY DEF eligible_skip, eligible_defer

-----------------------------------------------------------------------------
(* How a pull's record moves.                                              *)

\* The parts of Sound that no label of a pull's step depends on.
Carried(r, t, o, w) == Apart(r.result, w) /\ Budgeted(r) /\ Bounded(r, t, o)

\* The pull goes on with what it has, or judges once more what it waited for.
LEMMA GoOnSound ==
  ASSUME World, NEW r \in Runs, NEW t, NEW o, NEW w, Carried(r, t, o, w),
         r.stage \in {"first", "loop"}
  PROVE  Sound(GoOn(r), t, o, w) /\ GoOn(r).policy = r.policy
<1>1. LogNow \in Logs
  BY ListingType
<1>2. r.result.deferred \in SUBSET Clips
  BY DEF Runs, Results
<1>3. CASE r.waited
  <2> DEFINE new == GoOn(r)
             more == r.released \cup r.result.deferred
             log == LogNow
  <2>1. new = [r EXCEPT !.stage = "final", !.pc = "read", !.log = log, !.released = more]
    BY <1>3 DEF GoOn
  <2>3. more \in SUBSET Clips /\ log \in Logs
    BY <1>1, <1>2 DEF Runs
  <2> HIDE DEF more, log
  <2>2. /\ new \in Runs /\ new.stage = "final" /\ new.pc = "read" /\ new.result = r.result
        /\ new.used = r.used /\ new.checks = r.checks /\ new.policy = r.policy
    BY <2>1, <2>3 DEF Runs
  <2> HIDE DEF new
  <2> QED
    BY <2>2 DEF new, Sound, Carried, Picked, Covered, Budgeted, Bounded, Staged
<1>4. CASE ~r.waited
  <2> DEFINE new == GoOn(r)
  <2>1. new = [r EXCEPT !.pc = "plan"]
    BY <1>4 DEF GoOn
  <2>2. /\ new \in Runs /\ new.stage = r.stage /\ new.pc = "plan" /\ new.result = r.result
        /\ new.used = r.used /\ new.checks = r.checks /\ new.policy = r.policy
        /\ new.off = r.off /\ new.until = r.until /\ new.sawPending = r.sawPending
    BY <2>1 DEF Runs
  <2> HIDE DEF new
  <2> QED
    BY <2>2 DEF new, Sound, Carried, Picked, Covered, Budgeted, Bounded, Staged
<1> QED
  BY <1>3, <1>4 DEF Runs

\* A pass ends with a verdict for every listed clip.
LEMMA ReturnsSound ==
  ASSUME NEW r \in Runs, NEW t, NEW o, NEW w, Carried(r, t, o, w),
         r.pc \in {"audit", "recheck"},
         NEW result \in Results, Apart(result, w),
         result.files \cup result.deferred \cup result.skipped = DOMAIN r.remote
  PROVE  Sound(Returns(r, result), t, o, w) /\ Returns(r, result).policy = NoPolicy
<1> DEFINE final == Released(r, result)
           new == Returns(r, result)
           label == IF r.stage = "final" THEN "plan" ELSE "judged"
           used == r.used + r.checks
<1>1. /\ final = [result EXCEPT !.files = result.files \cup (result.deferred \cap r.released),
                                !.deferred = result.deferred \ r.released]
      /\ result.deferred \in SUBSET Clips /\ r.released \in SUBSET Clips
      /\ result.files \in SUBSET Clips
  BY DEF Released, Results, Runs
<1>2. /\ final \in Results /\ final.deferred = result.deferred \ r.released
      /\ final.files = result.files \cup (result.deferred \cap r.released)
      /\ final.skipped = result.skipped
  BY <1>1 DEF Results
<1>3. Apart(final, w) /\ final.deferred \cap r.released = {}
  <2> HIDE DEF final
  <2> QED BY <1>2 DEF Apart
<1>4. final.files \cup final.deferred \cup final.skipped = DOMAIN r.remote
  <2> HIDE DEF final
  <2> QED BY <1>2
<1>5. /\ used \in Nat /\ used <= MaxChecks /\ label \in {"plan", "judged"}
      /\ NoPolicy \in Policies
  BY NoPolicyType DEF Runs, Carried, Budgeted
<1> HIDE DEF final
<1>6. new = [r EXCEPT !.pc = label, !.used = used, !.checks = 0, !.sel = {}, !.def = {},
                      !.policy = NoPolicy, !.result = final]
  BY DEF Returns, final
<1>7. /\ new \in Runs /\ new.stage = r.stage /\ new.result = final
      /\ new.pc = label /\ new.used = used /\ new.checks = 0 /\ new.policy = NoPolicy
      /\ new.off = r.off /\ new.until = r.until /\ new.sawPending = r.sawPending
      /\ new.released = r.released /\ new.remote = r.remote
  <2> HIDE DEF label, used, new
  <2> QED BY <1>2, <1>5, <1>6 DEF Runs
<1> HIDE DEF new, used
<1> QED
  BY <1>3, <1>4, <1>5, <1>7
  DEF new, Sound, Carried, Picked, Covered, Budgeted, Bounded, Staged

\* A pass that proves nothing goes on to upload every clip, whichever policy it
\* read.
LEMMA UnprovedSound ==
  ASSUME NEW r \in Runs, NEW t, NEW o, NEW w, Carried(r, t, o, w), NEW p \in Policies
  PROVE  /\ Sound(Unproved(r), t, o, w) /\ Unproved(r).policy = r.policy
         /\ Sound([Unproved(r) EXCEPT !.policy = p], t, o, w)
         /\ [Unproved(r) EXCEPT !.policy = p].policy = p
<1> DEFINE new == Unproved(r)
           other == [Unproved(r) EXCEPT !.policy = p]
<1>1. /\ new \in Runs /\ new.stage = r.stage /\ new.pc = "audit" /\ new.result = r.result
      /\ new.used = r.used /\ new.checks = r.checks /\ new.policy = r.policy
      /\ new.off = r.off /\ new.until = r.until /\ new.sawPending = r.sawPending
      /\ new.sel = {}
  BY DEF Unproved, Runs
<1>2. other = [new EXCEPT !.policy = p]
  OBVIOUS
<1> HIDE DEF new, other
<1>3. /\ other \in Runs /\ other.stage = r.stage /\ other.pc = "audit" /\ other.result = r.result
      /\ other.used = r.used /\ other.checks = r.checks /\ other.policy = p
      /\ other.off = r.off /\ other.until = r.until /\ other.sawPending = r.sawPending
      /\ other.sel = {}
  BY <1>1, <1>2 DEF Runs
<1>4. Sound(new, t, o, w)
  BY <1>1 DEF Sound, Carried, Picked, Covered, Budgeted, Bounded, Staged
<1>5. Sound(other, t, o, w)
  BY <1>3 DEF Sound, Carried, Picked, Covered, Budgeted, Bounded, Staged
<1> QED
  BY <1>1, <1>3, <1>4, <1>5 DEF new, other

\* A pass that has counted its checks, within what is left of them.
LEMMA ChecksSound ==
  ASSUME NEW r \in Runs, NEW t, NEW o, NEW w, Carried(r, t, o, w),
         NEW n \in Nat, r.used + n <= MaxChecks
  PROVE  /\ [r EXCEPT !.checks = n] \in Runs /\ Carried([r EXCEPT !.checks = n], t, o, w)
         /\ [r EXCEPT !.checks = n].policy = r.policy
<1> DEFINE new == [r EXCEPT !.checks = n]
<1>1. /\ new \in Runs /\ new.stage = r.stage /\ new.result = r.result
      /\ new.used = r.used /\ new.checks = n /\ new.policy = r.policy
      /\ new.off = r.off /\ new.until = r.until /\ new.sawPending = r.sawPending
  BY DEF Runs
<1> HIDE DEF new
<1>2. Carried(new, t, o, w)
  BY <1>1 DEF Carried, Budgeted, Bounded
<1> QED
  BY <1>1, <1>2 DEF new

-----------------------------------------------------------------------------
(* One pass over one listing.                                              *)

\* What every step finds of the pull.
LEMMA AtHand ==
  ASSUME IInv
  PROVE  /\ World /\ run \in Runs /\ Carried(run, now, off, rows)
         /\ Truthful(policy, quiet) /\ Truthful(run.policy, quiet)
         /\ run.policy \in Policies /\ policy \in Policies
BY DEF IInv, World, Sound, Carried, Runs

\* The policy is read, and what it proves is picked.
LEMMA ReadPolicySound ==
  ASSUME IInv, ReadPolicy
  PROVE  Sound(run', now, off, rows) /\ Truthful(run'.policy, quiet)
<1> USE AtHand
<1>1. CASE run' = Unproved(run)
  BY <1>1, UnprovedSound
<1>2. CASE run' = [Unproved(run) EXCEPT !.policy = policy]
  BY <1>2, UnprovedSound
<1>3. CASE \E sel, def :
             /\ sel \subseteq DOMAIN run.remote \cap Told(policy) /\ def \subseteq DOMAIN run.remote
             /\ run' = [run EXCEPT !.policy = policy, !.sel = sel, !.def = def, !.ready = TRUE,
                                   !.pc = IF sel = {} THEN "audit" ELSE "finger"]
  <2>1. PICK sel, def :
             /\ sel \subseteq DOMAIN run.remote \cap Told(policy) /\ def \subseteq DOMAIN run.remote
             /\ run' = [run EXCEPT !.policy = policy, !.sel = sel, !.def = def, !.ready = TRUE,
                                   !.pc = IF sel = {} THEN "audit" ELSE "finger"]
    BY <1>3
  <2>2. DOMAIN run.remote \subseteq Clips
    BY ListingDomain DEF Runs
  <2> DEFINE label == IF sel = {} THEN "audit" ELSE "finger"
  <2>3. /\ label \in {"audit", "finger"} /\ sel \in SUBSET Clips /\ def \in SUBSET Clips
        /\ run' = [run EXCEPT !.policy = policy, !.sel = sel, !.def = def, !.ready = TRUE,
                              !.pc = label]
    BY <2>1, <2>2
  <2> HIDE DEF label
  <2>4. /\ run' \in Runs /\ run'.stage = run.stage /\ run'.pc \in {"audit", "finger"}
        /\ run'.result = run.result /\ run'.used = run.used /\ run'.checks = run.checks
        /\ run'.policy = policy /\ run'.off = run.off /\ run'.until = run.until
        /\ run'.sawPending = run.sawPending /\ run'.sel = sel /\ run'.remote = run.remote
    BY <2>3 DEF Runs
  <2> QED
    BY <2>1, <2>4 DEF Sound, Carried, Picked, Covered, Budgeted, Bounded, Staged
<1>4. run' # Unproved(run) /\ run' # [Unproved(run) EXCEPT !.policy = policy] =>
        \E sel, def :
             /\ sel \subseteq DOMAIN run.remote \cap Told(policy) /\ def \subseteq DOMAIN run.remote
             /\ run' = [run EXCEPT !.policy = policy, !.sel = sel, !.def = def, !.ready = TRUE,
                                   !.pc = IF sel = {} THEN "audit" ELSE "finger"]
  <2> DEFINE sel == IF run.log.state = "ready"
                    THEN _paired_candidates(policy, run.remote,
                                            eligible_skip(policy), _quiet_witness(policy))
                    ELSE {}
             def == Pending(policy, run.remote)
  <2>1. sel \subseteq DOMAIN run.remote \cap Told(policy) /\ def \subseteq DOMAIN run.remote
    BY PairedSubset, AcceptedTold DEF Pending
  <2>2. run' # Unproved(run) /\ run' # [Unproved(run) EXCEPT !.policy = policy] =>
          run' = [run EXCEPT !.policy = policy, !.sel = sel, !.def = def, !.ready = TRUE,
                             !.pc = IF sel = {} THEN "audit" ELSE "finger"]
    BY DEF ReadPolicy
  <2> HIDE DEF sel, def
  <2> QED BY <2>1, <2>2
<1> QED
  BY <1>1, <1>2, <1>3, <1>4

\* The bytes are verified: fewer clips may be left, and the checks are counted.
LEMMA VerifySound ==
  ASSUME IInv, _verify_fingerprints
  PROVE  Sound(run', now, off, rows) /\ Truthful(run'.policy, quiet)
<1> USE AtHand
<1> DEFINE required == _required_quiet_proofs(run.policy, run.sel)
           hashes == Least(Cardinality(required), Budget)
<1>1. hashes \in Nat /\ run.used + hashes <= MaxChecks
  <2>1. IsFiniteSet(required)
    <3>1. required \subseteq Clips
      BY PolicyType DEF _required_quiet_proofs
    <3> HIDE DEF required
    <3> QED BY <3>1, ClipsAssumption, FS_Subset
  <2>2. Cardinality(required) \in Nat
    BY <2>1, FS_CardinalityType
  <2>3. run.used \in Nat /\ Budget \in Nat /\ run.used + Budget <= MaxChecks
    BY LimitsAssumption DEF Budget, Runs, Carried, Budgeted
  <2> HIDE DEF required
  <2>4. hashes \in Nat /\ hashes <= Budget
    BY <2>2, <2>3, LeastType
  <2> HIDE DEF hashes
  <2> QED BY <2>3, <2>4, LimitsAssumption
<1>2. \/ run' = Unproved([run EXCEPT !.checks = hashes])
      \/ \E sel : /\ sel \subseteq DOMAIN run.remote \cap Told(run.policy)
                  /\ run' = [run EXCEPT !.pc = "audit", !.checks = hashes, !.sel = sel]
  <2>1. ASSUME NEW checking,
               run' = [run EXCEPT !.pc = "audit", !.checks = hashes,
                        !.sel = _paired_candidates(run.policy, run.remote,
                                  eligible_skip(run.policy) \cap Verified(checking, run.policy),
                                  _quiet_witness(run.policy) \cap Verified(checking, run.policy))]
        PROVE  \E sel : /\ sel \subseteq DOMAIN run.remote \cap Told(run.policy)
                        /\ run' = [run EXCEPT !.pc = "audit", !.checks = hashes, !.sel = sel]
    <3> DEFINE sel == _paired_candidates(run.policy, run.remote,
                        eligible_skip(run.policy) \cap Verified(checking, run.policy),
                        _quiet_witness(run.policy) \cap Verified(checking, run.policy))
    <3>1. sel \subseteq DOMAIN run.remote \cap Told(run.policy)
      BY PairedSubset, AcceptedTold
    <3>2. run' = [run EXCEPT !.pc = "audit", !.checks = hashes, !.sel = sel]
      BY <2>1
    <3> HIDE DEF sel
    <3> QED BY <3>1, <3>2
  <2> QED
    BY <2>1 DEF _verify_fingerprints
<1> HIDE DEF hashes
<1>3. CASE run' = Unproved([run EXCEPT !.checks = hashes])
  <2> DEFINE counted == [run EXCEPT !.checks = hashes]
  <2>1. counted \in Runs /\ Carried(counted, now, off, rows) /\ counted.policy = run.policy
    BY <1>1, ChecksSound
  <2>2. run' = Unproved(counted)
    BY <1>3
  <2> HIDE DEF counted
  <2> QED BY <2>1, <2>2, UnprovedSound
<1>4. ASSUME NEW sel, sel \subseteq DOMAIN run.remote \cap Told(run.policy),
             run' = [run EXCEPT !.pc = "audit", !.checks = hashes, !.sel = sel]
      PROVE  Sound(run', now, off, rows) /\ Truthful(run'.policy, quiet)
  <2>1. sel \in SUBSET Clips
    BY <1>4, PolicyType
  <2>2. /\ run' \in Runs /\ run'.stage = run.stage /\ run'.pc = "audit"
        /\ run'.result = run.result /\ run'.used = run.used /\ run'.checks = hashes
        /\ run'.policy = run.policy /\ run'.off = run.off /\ run'.until = run.until
        /\ run'.sawPending = run.sawPending /\ run'.sel = sel /\ run'.remote = run.remote
    BY <1>1, <1>4, <2>1 DEF Runs
  <2> QED
    BY <1>1, <1>4, <2>2 DEF Sound, Carried, Picked, Covered, Budgeted, Bounded, Staged
<1> QED
  BY <1>2, <1>3, <1>4

\* What is on record stays on record, and so does what rests on it.
LEMMA RecordKept ==
  ASSUME NEW r, NEW t, NEW o, NEW w, NEW more, w \subseteq more, Carried(r, t, o, w)
  PROVE  Carried(r, t, o, more)
BY DEF Carried, Apart, OnRecord

\* A listing whose every clip is uploaded is settled.
LEMMA EverythingApart ==
  ASSUME World, NEW w, run \in Runs
  PROVE  /\ Everything \in Results /\ Apart(Everything, w)
         /\ Everything.files \cup Everything.deferred \cup Everything.skipped = DOMAIN run.remote
<1> DEFINE names == Names(run)
<1>1. names \in SUBSET Clips
  BY ListingDomain DEF Names, Runs
<1>2. NoResult \in Results /\ NoResult.deferred = {} /\ NoResult.skipped = {}
  BY DEF NoResult, Results
<1>3. names = DOMAIN run.remote /\ Everything = [NoResult EXCEPT !.files = names]
  BY DEF Names, Everything
<1> HIDE DEF names
<1>4. /\ Everything \in Results /\ Everything.files = names
      /\ Everything.deferred = {} /\ Everything.skipped = {}
  BY <1>1, <1>2, <1>3 DEF Results
<1> QED
  BY <1>3, <1>4 DEF Apart

\* The proofs are audited: what the pass leaves behind is on record before it
\* goes on, or everything is uploaded.
LEMMA RecordSound ==
  ASSUME IInv, record_evaluation
  PROVE  /\ Sound(run', now, off, rows') /\ Truthful(run'.policy, quiet)
         /\ rows' \subseteq Versions
<1> USE AtHand
<1>1. CASE /\ rows' = rows \cup {<<c, run.policy.says[c].bytes>> : c \in run.sel}
           /\ run' = [run EXCEPT !.pc = "recheck"]
  <2>1. run.pc = "audit" /\ run.sel \subseteq DOMAIN run.remote \cap Told(run.policy)
    BY DEF IInv, Sound, Picked, record_evaluation, At
  <2>2. \A c \in run.sel : c \in Clips /\ run.policy.says[c].bytes \in {1, 2}
    BY <2>1, PolicyType DEF Verdicts
  <2>3. /\ run' \in Runs /\ run'.stage = run.stage /\ run'.pc = "recheck"
        /\ run'.result = run.result /\ run'.used = run.used /\ run'.checks = run.checks
        /\ run'.policy = run.policy /\ run'.off = run.off /\ run'.until = run.until
        /\ run'.sawPending = run.sawPending /\ run'.sel = run.sel /\ run'.remote = run.remote
    BY <1>1 DEF Runs
  <2>4. \A c \in run.sel : OnRecord(rows', c)
    BY <1>1, <2>2 DEF OnRecord
  <2>5. Carried(run, now, off, rows')
    BY <1>1, RecordKept
  <2>6. Sound(run', now, off, rows')
    BY <2>1, <2>3, <2>4, <2>5
    DEF Sound, Carried, Picked, Covered, Budgeted, Bounded, Staged
  <2>7. rows' \subseteq Versions
    BY <1>1, <2>2 DEF World, Versions
  <2> QED
    BY <2>3, <2>6, <2>7
<1>2. CASE run' = Returns(run, Everything) /\ rows' = rows
  <2>1. run.pc = "audit"
    BY DEF record_evaluation, At
  <2>2. /\ Everything \in Results /\ Apart(Everything, rows)
        /\ Everything.files \cup Everything.deferred \cup Everything.skipped = DOMAIN run.remote
    BY EverythingApart
  <2>3. Sound(run', now, off, rows) /\ run'.policy = NoPolicy
    BY <1>2, <2>1, <2>2, ReturnsSound
  <2> QED
    BY <1>2, <2>3, NoPolicyTruthful DEF World
<1> QED
  BY <1>1, <1>2 DEF record_evaluation

\* The verdicts of a pass.
LEMMA JudgeSound ==
  ASSUME IInv, Judge
  PROVE  Sound(run', now, off, rows) /\ Truthful(run'.policy, quiet)
<1> USE AtHand
<1> DEFINE terminal == IF run.ready
                       THEN {c \in Names(run) \cap Told(run.policy) : Terminal(c)} ELSE {}
           result == [files |-> Names(run) \ (run.sel \cup StillPending),
                      deferred |-> StillPending \ run.sel, skipped |-> run.sel,
                      ready |-> run.ready, terminal |-> terminal]
<1>1. run' = Returns(run, result) /\ run.pc = "recheck"
  BY DEF Judge, At
<1>2. /\ run.sel \subseteq DOMAIN run.remote
      /\ \A c \in run.sel : OnRecord(rows, c)
  BY <1>1 DEF IInv, Sound, Picked
<1>3. StillPending \subseteq DOMAIN run.remote
  BY PairedSubset DEF StillPending, Pending
<1>4. Names(run) = DOMAIN run.remote /\ DOMAIN run.remote \in SUBSET Clips
  BY ListingDomain DEF Names, Runs
<1>5. terminal \in SUBSET Clips /\ run.ready \in BOOLEAN
  BY <1>4 DEF Runs
<1> HIDE DEF terminal
<1>6. /\ result.files = DOMAIN run.remote \ (run.sel \cup StillPending)
      /\ result.deferred = StillPending \ run.sel /\ result.skipped = run.sel
      /\ result \in Results
  BY <1>2, <1>3, <1>4, <1>5 DEF Results
<1> HIDE DEF result
<1>7. Apart(result, rows)
  BY <1>2, <1>6 DEF Apart
<1>8. result.files \cup result.deferred \cup result.skipped = DOMAIN run.remote
  BY <1>2, <1>3, <1>6
<1>9. Sound(run', now, off, rows) /\ run'.policy = NoPolicy
  BY <1>1, <1>6, <1>7, <1>8, ReturnsSound
<1> QED
  BY <1>9, NoPolicyTruthful

-----------------------------------------------------------------------------
(* The quiet analysis handoff.                                             *)

\* A pull begins with the listing of its moment.
LEMMA StartSound ==
  ASSUME IInv, StartRun
  PROVE  Sound(run', now, off, rows) /\ Truthful(run'.policy, quiet)
<1> USE AtHand
<1>1. Listing \in Listings /\ LogNow \in Logs
  BY ListingType
<1>2. run' = [NoRun EXCEPT !.pc = "read", !.remote = Listing, !.log = LogNow]
  BY DEF StartRun
<1>3. /\ NoRun \in Runs /\ NoRun.stage = "first" /\ NoRun.result = NoResult
      /\ NoRun.used = 0 /\ NoRun.checks = 0 /\ NoRun.policy = NoPolicy
  BY NoRunType DEF NoRun
<1>4. /\ run' \in Runs /\ run'.stage = "first" /\ run'.pc = "read" /\ run'.result = NoResult
      /\ run'.used = 0 /\ run'.checks = 0 /\ run'.policy = NoPolicy
  BY <1>1, <1>2, <1>3 DEF Runs
<1> QED
  BY <1>4, NoPolicyTruthful, LimitsAssumption
  DEF Sound, Apart, NoResult, Picked, Covered, Budgeted, Bounded, Staged

\* Another look at the card at this moment, for the pass that follows.
LEMMA RelistSound ==
  ASSUME World, NEW r \in Runs, NEW t, NEW o, NEW w, Carried(r, t, o, w)
  PROVE  /\ Sound([r EXCEPT !.pc = "read", !.remote = Listing, !.log = LogNow], t, o, w)
         /\ [r EXCEPT !.pc = "read", !.remote = Listing, !.log = LogNow].policy = r.policy
<1> DEFINE new == [r EXCEPT !.pc = "read", !.remote = Listing, !.log = LogNow]
           listing == Listing
           log == LogNow
<1>1. listing \in Listings /\ log \in Logs
  BY ListingType
<1>2. new = [r EXCEPT !.pc = "read", !.remote = listing, !.log = log]
  OBVIOUS
<1> HIDE DEF new, listing, log
<1>3. /\ new \in Runs /\ new.stage = r.stage /\ new.pc = "read" /\ new.result = r.result
      /\ new.used = r.used /\ new.checks = r.checks /\ new.policy = r.policy
      /\ new.off = r.off /\ new.until = r.until /\ new.sawPending = r.sawPending
  BY <1>1, <1>2 DEF Runs
<1>4. Sound(new, t, o, w)
  BY <1>3 DEF Sound, Carried, Picked, Covered, Budgeted, Bounded, Staged
<1> QED
  BY <1>3, <1>4 DEF new, listing, log

\* A pull that notes that it has waited.
LEMMA WaitedSound ==
  ASSUME NEW r \in Runs, NEW t, NEW o, NEW w, Carried(r, t, o, w)
  PROVE  /\ [r EXCEPT !.waited = TRUE] \in Runs /\ Carried([r EXCEPT !.waited = TRUE], t, o, w)
         /\ [r EXCEPT !.waited = TRUE].policy = r.policy
         /\ [r EXCEPT !.waited = TRUE].stage = r.stage
<1> DEFINE new == [r EXCEPT !.waited = TRUE]
<1>1. /\ new \in Runs /\ new.stage = r.stage /\ new.result = r.result
      /\ new.used = r.used /\ new.checks = r.checks /\ new.policy = r.policy
      /\ new.off = r.off /\ new.until = r.until /\ new.sawPending = r.sawPending
  BY DEF Runs
<1> HIDE DEF new
<1>2. Carried(new, t, o, w)
  BY <1>1 DEF Carried, Budgeted, Bounded
<1> QED
  BY <1>1, <1>2 DEF new

\* The pull waits for an indexer that is starting, and lists again.
LEMMA AwaitSound ==
  ASSUME IInv, _await_parked_indexer
  PROVE  Sound(run', now, off, rows) /\ Truthful(run'.policy, quiet)
<1> USE AtHand
<1> DEFINE waited == [run EXCEPT !.waited = TRUE]
<1>1. run.stage = "first"
  BY DEF _await_parked_indexer
<1>2. waited \in Runs /\ Carried(waited, now, off, rows)
      /\ waited.policy = run.policy /\ waited.stage = "first"
  BY <1>1, WaitedSound
<1>3. \/ run' = [waited EXCEPT !.pc = "read", !.remote = Listing, !.log = LogNow]
      \/ run' = GoOn(waited)
  <2>1. [run EXCEPT !.waited = TRUE, !.pc = "read", !.remote = Listing, !.log = LogNow]
          = [waited EXCEPT !.pc = "read", !.remote = Listing, !.log = LogNow]
    OBVIOUS
  <2> HIDE DEF waited
  <2>2. \/ run' = [run EXCEPT !.waited = TRUE, !.pc = "read", !.remote = Listing, !.log = LogNow]
        \/ run' = GoOn(waited)
    BY DEF _await_parked_indexer, waited
  <2> QED BY <2>1, <2>2
<1> HIDE DEF waited
<1>4. Sound(GoOn(waited), now, off, rows) /\ GoOn(waited).policy = run.policy
  BY <1>2, GoOnSound
<1> DEFINE relisted == [waited EXCEPT !.pc = "read", !.remote = Listing, !.log = LogNow]
<1>5. Sound(relisted, now, off, rows) /\ relisted.policy = run.policy
  BY <1>2, RelistSound
<1> HIDE DEF relisted
<1> QED
  BY <1>3, <1>4, <1>5 DEF relisted

\* A wait within the native budget of the present OFF edge ends in time.
LEMMA BeforeSleepType ==
  ASSUME World, NativeBudget, NEW t \in Nat
  PROVE  /\ off \in Nat /\ off <= now /\ now \in Nat /\ now <= off + Native - NativeReserve
         /\ BeforeSleep(t) \in Nat /\ BeforeSleep(t) <= t
         /\ BeforeSleep(t) <= off + Native - NativeReserve
<1>1. /\ off \in Nat /\ now \in Nat /\ off <= now /\ off + Native > now + NativeReserve
      /\ Native \in Nat
  BY LimitsAssumption DEF World, NativeBudget, On
<1> DEFINE end == off + Native - NativeReserve
<1>2. end \in Nat /\ now <= end
  BY <1>1 DEF NativeReserve
<1>3. Least(t, end) \in Nat /\ Least(t, end) <= t /\ Least(t, end) <= end
  <2> HIDE DEF end
  <2> QED BY <1>2, LeastType
<1> QED
  BY <1>1, <1>2, <1>3 DEF BeforeSleep

\* The wait begins: its deadline is in the first window of the OFF edge, or a
\* clip is waited for.
LEMMA BeginSound ==
  ASSUME IInv, BeginHandoff
  PROVE  Sound(run', now, off, rows) /\ Truthful(run'.policy, quiet)
<1> USE AtHand
<1> DEFINE deferred == run.result.deferred
           anticipate == now - off < FirstWindow
           first == IF anticipate THEN off + FirstWindow
                    ELSE Least(NextUntil(deferred), now + MaxWait)
           goal == IF deferred = {} THEN first ELSE Least(first, NextUntil(deferred))
           until == BeforeSleep(goal)
           saw == deferred # {}
<1>1. \/ /\ NativeBudget /\ (anticipate \/ deferred # {})
         /\ run' = [run EXCEPT !.pc = "loop", !.stage = "loop", !.off = off,
                               !.sawPending = saw, !.until = until]
      \/ run' = GoOn(run)
  BY DEF BeginHandoff
<1>2. run.stage = "first"
  BY DEF BeginHandoff
<1>3. CASE run' = GoOn(run)
  BY <1>2, <1>3, GoOnSound
<1>4. CASE /\ NativeBudget /\ (anticipate \/ deferred # {})
           /\ run' = [run EXCEPT !.pc = "loop", !.stage = "loop", !.off = off,
                                 !.sawPending = saw, !.until = until]
  <2>1. off \in Nat /\ off <= now /\ now \in Nat /\ now <= off + Native - NativeReserve
    BY <1>4, BeforeSleepType
  <2>2. deferred # {} => NextUntil(deferred) \in Nat
    <3>1. deferred \in SUBSET Clips
      BY DEF Runs, Results
    <3> HIDE DEF deferred
    <3> QED BY <3>1, NextUntilType
  <2>3. first \in Nat
    BY <1>4, <2>1, <2>2, LeastType DEF FirstWindow, MaxWait
  <2>4. goal \in Nat
    <3> HIDE DEF first, deferred
    <3> QED BY <2>2, <2>3, LeastType
  <2>5. until \in Nat /\ until <= goal /\ until <= off + Native - NativeReserve
    <3> HIDE DEF goal
    <3> QED BY <1>4, <2>4, BeforeSleepType
  <2>6. ~saw => now <= off + FirstWindow /\ until <= off + FirstWindow
    <3>1. ~saw => anticipate /\ goal = off + FirstWindow
      BY <1>4
    <3> HIDE DEF goal, until
    <3> QED BY <2>1, <2>5, <3>1 DEF FirstWindow
  <2>7. saw \in BOOLEAN
    OBVIOUS
  <2> HIDE DEF until, saw
  <2>8. /\ run' \in Runs /\ run'.stage = "loop" /\ run'.pc = "loop"
        /\ run'.result = run.result /\ run'.used = run.used /\ run'.checks = run.checks
        /\ run'.policy = run.policy /\ run'.off = off /\ run'.until = until
        /\ run'.sawPending = saw
    BY <1>4, <2>1, <2>5, <2>7 DEF Runs
  <2> QED
    BY <2>1, <2>5, <2>6, <2>8
    DEF Sound, Carried, Picked, Covered, Budgeted, Bounded, Staged
<1> QED
  BY <1>1, <1>3, <1>4

\* The head of the wait loop forgets deferrals that are no longer missing.
LEMMA LoopSound ==
  ASSUME IInv, HandoffLoop
  PROVE  Sound(run', now, off, rows) /\ Truthful(run'.policy, quiet)
<1> USE AtHand
<1> DEFINE pending == Missing(run.result.deferred)
           result == [run.result EXCEPT !.deferred = pending]
           r == [run EXCEPT !.result = result]
<1>1. run.stage = "loop"
  BY DEF HandoffLoop, At, IInv, Sound, Staged
<1>2. run.result \in Results /\ pending \subseteq run.result.deferred
      /\ pending \in SUBSET Clips
  BY DEF Missing, Runs, Results
<1> HIDE DEF pending
<1>3. /\ result \in Results /\ result.deferred = pending
      /\ result.files = run.result.files /\ result.skipped = run.result.skipped
  BY <1>2 DEF Results
<1>4. [run EXCEPT !.result.deferred = pending] = r
  OBVIOUS
<1>5. \/ run' = GoOn(run) \/ run' = GoOn(r)
      \/ run' = [r EXCEPT !.pc = "wait", !.waited = TRUE]
  <2>1. LET new == [run EXCEPT !.result.deferred = pending]
        IN  \/ run' = GoOn(run) \/ run' = GoOn(new)
            \/ run' = [new EXCEPT !.pc = "wait", !.waited = TRUE]
    BY DEF HandoffLoop, pending
  <2> HIDE DEF r
  <2> QED BY <1>4, <2>1
<1> HIDE DEF result
<1>6. Apart(result, rows)
  BY <1>2, <1>3 DEF Carried, Apart
<1>7. /\ r \in Runs /\ r.stage = run.stage /\ r.result = result
      /\ r.used = run.used /\ r.checks = run.checks /\ r.policy = run.policy
      /\ r.off = run.off /\ r.until = run.until /\ r.sawPending = run.sawPending
  BY <1>3 DEF Runs
<1> HIDE DEF r
<1>8. Carried(r, now, off, rows)
  BY <1>6, <1>7 DEF Carried, Budgeted, Bounded
<1>9. CASE run' = GoOn(run)
  BY <1>1, <1>9, GoOnSound
<1>10. CASE run' = GoOn(r)
  BY <1>1, <1>7, <1>8, <1>10, GoOnSound
<1>11. CASE run' = [r EXCEPT !.pc = "wait", !.waited = TRUE]
  <2>1. /\ run' \in Runs /\ run'.stage = r.stage /\ run'.pc = "wait" /\ run'.result = r.result
        /\ run'.used = r.used /\ run'.checks = r.checks /\ run'.policy = r.policy
        /\ run'.off = r.off /\ run'.until = r.until /\ run'.sawPending = r.sawPending
    BY <1>7, <1>11 DEF Runs
  <2> QED
    BY <1>1, <1>7, <1>8, <2>1
    DEF Sound, Carried, Picked, Covered, Budgeted, Bounded, Staged
<1> QED
  BY <1>5, <1>9, <1>10, <1>11

\* A probe finds the unit as the wait left it and lists again, with a deadline
\* no later; or the wait is over.
LEMMA ProbeSound ==
  ASSUME IInv, HandoffProbe
  PROVE  Sound(run', now, off, rows) /\ Truthful(run'.policy, quiet)
<1> USE AtHand
<1> DEFINE until == BeforeSleep(run.until)
           r == [run EXCEPT !.until = until]
<1>1. run.stage = "loop"
  BY DEF HandoffProbe, At, IInv, Sound, Staged
<1>2. \/ run' = GoOn(run)
      \/ /\ NativeBudget
         /\ run' = [run EXCEPT !.pc = "read", !.remote = Listing, !.log = LogNow,
                               !.until = until]
  BY DEF HandoffProbe, ProbeAgrees
<1>3. CASE run' = GoOn(run)
  BY <1>1, <1>3, GoOnSound
<1>4. CASE /\ NativeBudget
           /\ run' = [run EXCEPT !.pc = "read", !.remote = Listing, !.log = LogNow,
                                 !.until = until]
  <2>1. run.until \in Nat
    BY DEF Runs
  <2>2. until \in Nat /\ until <= run.until
    BY <1>4, <2>1, BeforeSleepType
  <2>3. run' = [r EXCEPT !.pc = "read", !.remote = Listing, !.log = LogNow]
    BY <1>4
  <2> HIDE DEF until
  <2>4. /\ r \in Runs /\ r.stage = run.stage /\ r.result = run.result
        /\ r.used = run.used /\ r.checks = run.checks /\ r.policy = run.policy
        /\ r.off = run.off /\ r.until = until /\ r.sawPending = run.sawPending
    BY <2>2 DEF Runs
  <2> HIDE DEF r
  <2>5. Carried(r, now, off, rows)
    <3>1. run.off \in Nat /\ Native \in Nat /\ run.until \in Nat
      BY LimitsAssumption DEF Runs
    <3> QED
      BY <2>2, <2>4, <3>1 DEF Carried, Budgeted, Bounded, FirstWindow, NativeReserve
  <2> QED
    BY <2>3, <2>4, <2>5, RelistSound
<1> QED
  BY <1>2, <1>3, <1>4

\* The deadline interrupts a pass: what the pass held is dropped.
LEMMA TimesOutSound ==
  ASSUME IInv, HandoffTimesOut
  PROVE  Sound(run', now, off, rows) /\ Truthful(run'.policy, quiet)
<1> USE AtHand
<1> DEFINE r == [run EXCEPT !.checks = 0, !.sel = {}, !.def = {}, !.policy = NoPolicy]
<1>1. run' = GoOn(r) /\ run.stage = "loop"
  BY DEF HandoffTimesOut, Due
<1>2. /\ r \in Runs /\ r.stage = run.stage /\ r.result = run.result
      /\ r.used = run.used /\ r.checks = 0 /\ r.policy = NoPolicy
      /\ r.off = run.off /\ r.until = run.until /\ r.sawPending = run.sawPending
  BY NoPolicyType DEF Runs
<1> HIDE DEF r
<1>3. Carried(r, now, off, rows)
  <2>1. run.used \in Nat /\ run.checks \in Nat
    BY DEF Runs
  <2> QED BY <1>2, <2>1, LimitsAssumption DEF Carried, Budgeted, Bounded
<1> QED
  BY <1>1, <1>2, <1>3, GoOnSound, NoPolicyTruthful

\* The verdicts of a pass in the wait: the deadline is never put off.
LEMMA JudgedSound ==
  ASSUME IInv, HandoffJudged
  PROVE  Sound(run', now, off, rows) /\ Truthful(run'.policy, quiet)
<1> USE AtHand
<1> DEFINE deferred == run.result.deferred
           until == Least(run.until, NextUntil(deferred))
<1>1. run.stage = "loop"
  BY DEF HandoffJudged
<1>2. \/ run' = GoOn(run)
      \/ run' = [run EXCEPT !.pc = "loop"]
      \/ /\ deferred # {}
         /\ run' = [run EXCEPT !.pc = "loop", !.sawPending = TRUE, !.until = until]
  BY DEF HandoffJudged
<1>3. CASE run' = GoOn(run)
  BY <1>1, <1>3, GoOnSound
<1>4. CASE run' = [run EXCEPT !.pc = "loop"]
  <2>1. /\ run' \in Runs /\ run'.stage = run.stage /\ run'.pc = "loop"
        /\ run'.result = run.result
        /\ run'.used = run.used /\ run'.checks = run.checks /\ run'.policy = run.policy
        /\ run'.off = run.off /\ run'.until = run.until /\ run'.sawPending = run.sawPending
    BY <1>4 DEF Runs
  <2> QED
    BY <1>1, <2>1 DEF Sound, Carried, Picked, Covered, Budgeted, Bounded, Staged
<1>5. CASE /\ deferred # {}
           /\ run' = [run EXCEPT !.pc = "loop", !.sawPending = TRUE, !.until = until]
  <2>1. deferred \in SUBSET Clips /\ run.until \in Nat /\ run.off \in Nat /\ Native \in Nat
    BY LimitsAssumption DEF Runs, Results
  <2>2. until \in Nat /\ until <= run.until
    <3> HIDE DEF deferred
    <3> QED BY <1>5, <2>1, NextUntilType, LeastType
  <2> HIDE DEF until
  <2>3. /\ run' \in Runs /\ run'.stage = run.stage /\ run'.pc = "loop"
        /\ run'.result = run.result
        /\ run'.used = run.used /\ run'.checks = run.checks /\ run'.policy = run.policy
        /\ run'.off = run.off /\ run'.until = until /\ run'.sawPending = TRUE
    BY <1>5, <2>2 DEF Runs
  <2> QED
    BY <1>1, <2>1, <2>2, <2>3
    DEF Sound, Carried, Picked, Covered, Budgeted, Bounded, Staged, NativeReserve
<1> QED
  BY <1>2, <1>3, <1>4, <1>5

-----------------------------------------------------------------------------
(* The transfer, and the steps of the car, the recorder and the logger.    *)

\* A pull that is over, or has not begun, is sound.
LEMMA IdleSound ==
  ASSUME NEW t, NEW o, NEW w
  PROVE  Sound(NoRun, t, o, w) /\ NoRun.policy = NoPolicy
<1>1. /\ NoRun.pc = "idle" /\ NoRun.stage = "first" /\ NoRun.result = NoResult
      /\ NoRun.used = 0 /\ NoRun.checks = 0 /\ NoRun.policy = NoPolicy
  BY DEF NoRun
<1>2. Apart(NoResult, w)
  BY DEF Apart, NoResult
<1> QED
  BY <1>1, <1>2, NoRunType, LimitsAssumption
  DEF Sound, Picked, Covered, Budgeted, Bounded, Staged

\* The transfer: every file of the plan is pulled, with the bytes it has now.
LEMMA TransferSound ==
  ASSUME IInv, Transfer
  PROVE  /\ Sound(run', now, off, rows) /\ Truthful(run'.policy, quiet)
         /\ backed' \subseteq Versions
<1> USE AtHand
<1>1. backed' \subseteq Versions
  <2>1. run.result.files \subseteq Clips
    BY DEF Runs, Results
  <2>2. \A c \in Clips : <<c, ver[c]>> \in Versions
    BY DEF World, Versions
  <2>3. backed' = backed \cup {<<c, ver[c]>> : c \in run.result.files} /\ backed \subseteq Versions
    BY DEF Transfer, World
  <2> QED BY <2>1, <2>2, <2>3
<1>2. CASE run' = NoRun
  BY <1>1, <1>2, IdleSound, NoPolicyTruthful
<1>3. CASE run' = [run EXCEPT !.pc = "read", !.stage = "sweep", !.remote = Listing,
                              !.log = LogNow]
  <2>1. Listing \in Listings /\ LogNow \in Logs
    BY ListingType
  <2>2. /\ run' \in Runs /\ run'.stage = "sweep" /\ run'.pc = "read"
        /\ run'.result = run.result /\ run'.used = run.used /\ run'.checks = run.checks
        /\ run'.policy = run.policy
    BY <1>3, <2>1 DEF Runs
  <2> QED
    BY <1>1, <2>2 DEF Sound, Carried, Picked, Covered, Budgeted, Bounded, Staged
<1> QED
  BY <1>2, <1>3 DEF Transfer

\* The sweep ends the pull for a clip that is still being analysed, or goes on.
LEMMA SweepSound ==
  ASSUME IInv, SweepJudged
  PROVE  Sound(run', now, off, rows) /\ Truthful(run'.policy, quiet)
<1> USE AtHand
<1>1. /\ run.stage = "sweep" /\ run.pc = "judged"
      /\ run.result.deferred \cap run.released = {}
  BY DEF SweepJudged, At, IInv, Sound, Staged
<1>2. CASE run' = NoRun
  BY <1>2, IdleSound, NoPolicyTruthful
<1>3. CASE run' = [run EXCEPT !.pc = "plan"]
  <2>1. /\ run' \in Runs /\ run'.stage = "sweep" /\ run'.pc = "plan"
        /\ run'.result = run.result /\ run'.used = run.used /\ run'.checks = run.checks
        /\ run'.policy = run.policy /\ run'.released = run.released
    BY <1>1, <1>3 DEF Runs
  <2> QED
    BY <1>1, <2>1 DEF Sound, Carried, Picked, Covered, Budgeted, Bounded, Staged
<1> QED
  BY <1>2, <1>3 DEF SweepJudged

\* A minute passes only while no deadline of a wait is due.
LEMMA TickKeeps ==
  ASSUME IInv, Tick
  PROVE  IInv'
<1> USE AtHand
<1>1. /\ now' = now + 1 /\ now < Horizon /\ off # On /\ ~Due
      /\ UNCHANGED <<off, ver, quiet, policy, logger, run, rows, backed>>
  BY DEF Tick
<1>2. /\ now \in Nat /\ now' \in 0 .. Horizon /\ off \in Nat /\ off <= now'
  BY <1>1, LimitsAssumption DEF World, On
<1>3. World'
  BY <1>1, <1>2 DEF World, Truthful, Told, Kind, Versions
<1>4. Bounded(run, now', off)
  <2>1. run.off \in Nat /\ run.until \in Nat /\ Native \in Nat
    BY LimitsAssumption DEF Runs
  <2> QED
    BY <1>1, <1>2, <2>1 DEF Carried, Bounded, Due, NativeReserve, FirstWindow
<1>5. Sound(run, now', off, rows)
  BY <1>4 DEF IInv, Sound
<1> QED
  BY <1>1, <1>3, <1>5 DEF IInv, Truthful, Told, Kind

\* A new OFF edge is no earlier than the one a wait began with.
LEMMA IgnitionKeeps ==
  ASSUME IInv, Ignition
  PROVE  IInv'
<1> USE AtHand
<1>1. /\ off' = On \/ off' = now
      /\ UNCHANGED <<now, ver, quiet, policy, logger, run, rows, backed>>
  BY DEF Ignition
<1>2. World'
  BY <1>1, LimitsAssumption DEF World, On, Truthful, Told, Kind, Versions
<1>3. Bounded(run, now, off')
  BY <1>1 DEF Carried, Bounded, On
<1>4. Sound(run, now, off', rows)
  BY <1>3 DEF IInv, Sound
<1> QED
  BY <1>1, <1>2, <1>4 DEF IInv, Truthful, Told, Kind

\* The recorder reuses a name, or the logger changes state.
LEMMA RewriteKeeps ==
  ASSUME IInv, Rewrite \/ LoggerMoves
  PROVE  IInv'
<1> USE AtHand
<1>1. UNCHANGED <<now, off, quiet, policy, run, rows, backed>>
  BY DEF Rewrite, LoggerMoves
<1>2. ver' \in [Clips -> {1, 2}] /\ logger' \in LoggerStates
  BY DEF Rewrite, LoggerMoves, Started, World, LoggerStates
<1>3. World'
  BY <1>1, <1>2 DEF World, Truthful, Told, Kind, Versions
<1> QED
  BY <1>1, <1>3 DEF IInv, Truthful, Told, Kind

\* What the logger may say of a clip is a verdict, and quiet only of quiet bytes.
LEMMA SayingsType ==
  ASSUME World, NEW c \in Clips, NEW kind \in Sayings(c)
  PROVE  /\ [kind |-> kind, bytes |-> ver[c]] \in Verdicts
         /\ kind \in {"skip", "peer", "quiet_wait"} => ver[c] = 1 /\ c \in quiet
BY DEF Sayings, Verdicts, World

\* The logger publishes what it found.
LEMMA PublishKeeps ==
  ASSUME IInv, Publish
  PROVE  IInv'
<1> USE AtHand
<1>1. UNCHANGED <<now, off, ver, quiet, logger, run, rows, backed>>
  BY DEF Publish
<1>2. PICK told \in SUBSET Clips : \E says :
        /\ \A c \in told : says[c] \in Sayings(c)
        /\ policy' = [at |-> now, count |-> policy.count + 1,
                      says |-> [c \in told |-> [kind |-> says[c], bytes |-> ver[c]]]]
  BY DEF Publish
<1>3. PICK says :
        /\ \A c \in told : says[c] \in Sayings(c)
        /\ policy' = [at |-> now, count |-> policy.count + 1,
                      says |-> [c \in told |-> [kind |-> says[c], bytes |-> ver[c]]]]
  BY <1>2
<1> DEFINE verdicts == [c \in told |-> [kind |-> says[c], bytes |-> ver[c]]]
<1>4. \A c \in told :
        /\ [kind |-> says[c], bytes |-> ver[c]] \in Verdicts
        /\ says[c] \in {"skip", "peer", "quiet_wait"} => ver[c] = 1 /\ c \in quiet
  BY <1>3, SayingsType
<1>5. verdicts \in [told -> Verdicts]
  BY <1>4
<1>6. /\ DOMAIN verdicts = told
      /\ \A c \in told : verdicts[c].kind = says[c] /\ verdicts[c].bytes = ver[c]
  OBVIOUS
<1>7. verdicts \in UNION {[S -> Verdicts] : S \in SUBSET Clips}
  BY <1>5
<1>8. /\ policy'.says = verdicts /\ policy' = [at |-> now, count |-> policy.count + 1, says |-> verdicts]
      /\ now \in Nat /\ policy.count + 1 \in Nat
  BY <1>3, LimitsAssumption DEF World, Policies
<1> HIDE DEF verdicts
<1>9. policy' \in Policies
  BY <1>7, <1>8 DEF Policies
<1>10. Truthful(policy', quiet)
  BY <1>4, <1>6, <1>8 DEF Truthful, Told, Kind
<1>11. World'
  BY <1>1, <1>9, <1>10 DEF World, Truthful, Told, Kind, Versions
<1> QED
  BY <1>1, <1>11 DEF IInv, Truthful, Told, Kind

-----------------------------------------------------------------------------
(* The theorems.                                                           *)

\* A step of the pull keeps the world, and what it records is of its type.
LEMMA PullKeeps ==
  ASSUME IInv, Keep, rows' \subseteq Versions, backed' \subseteq Versions,
         Sound(run', now, off, rows'), Truthful(run'.policy, quiet)
  PROVE  IInv'
<1>1. World'
  BY DEF IInv, World, Keep, Truthful, Told, Kind, Versions
<1> QED
  BY <1>1 DEF IInv, Keep, Truthful, Told, Kind

\* The invariant is inductive: one case per action.
LEMMA IInvNext ==
  ASSUME IInv, [Next]_vars
  PROVE  IInv'
<1>0. rows \subseteq Versions /\ backed \subseteq Versions
  BY AtHand DEF World
<1>1. CASE ReadPolicy
  <2>1. Keep /\ UNCHANGED <<rows, backed>>
    BY <1>1 DEF ReadPolicy
  <2> QED BY <1>0, <1>1, <2>1, ReadPolicySound, PullKeeps
<1>2. CASE _verify_fingerprints
  <2>1. Keep /\ UNCHANGED <<rows, backed>>
    BY <1>2 DEF _verify_fingerprints
  <2> QED BY <1>0, <1>2, <2>1, VerifySound, PullKeeps
<1>3. CASE record_evaluation
  <2>1. Keep /\ UNCHANGED backed
    BY <1>3 DEF record_evaluation
  <2> QED BY <1>0, <1>3, <2>1, RecordSound, PullKeeps
<1>4. CASE Judge
  <2>1. Keep /\ UNCHANGED <<rows, backed>>
    BY <1>4 DEF Judge
  <2> QED BY <1>0, <1>4, <2>1, JudgeSound, PullKeeps
<1>5. CASE _await_parked_indexer
  <2>1. Keep /\ UNCHANGED <<rows, backed>>
    BY <1>5 DEF _await_parked_indexer
  <2> QED BY <1>0, <1>5, <2>1, AwaitSound, PullKeeps
<1>6. CASE BeginHandoff
  <2>1. Keep /\ UNCHANGED <<rows, backed>>
    BY <1>6 DEF BeginHandoff
  <2> QED BY <1>0, <1>6, <2>1, BeginSound, PullKeeps
<1>7. CASE HandoffLoop
  <2>1. Keep /\ UNCHANGED <<rows, backed>>
    BY <1>7 DEF HandoffLoop
  <2> QED BY <1>0, <1>7, <2>1, LoopSound, PullKeeps
<1>8. CASE HandoffProbe
  <2>1. Keep /\ UNCHANGED <<rows, backed>>
    BY <1>8 DEF HandoffProbe
  <2> QED BY <1>0, <1>8, <2>1, ProbeSound, PullKeeps
<1>9. CASE HandoffTimesOut
  <2>1. Keep /\ UNCHANGED <<rows, backed>>
    BY <1>9 DEF HandoffTimesOut
  <2> QED BY <1>0, <1>9, <2>1, TimesOutSound, PullKeeps
<1>10. CASE HandoffJudged
  <2>1. Keep /\ UNCHANGED <<rows, backed>>
    BY <1>10 DEF HandoffJudged
  <2> QED BY <1>0, <1>10, <2>1, JudgedSound, PullKeeps
<1>11. CASE StartRun
  <2>1. Keep /\ UNCHANGED <<rows, backed>>
    BY <1>11 DEF StartRun
  <2> QED BY <1>0, <1>11, <2>1, StartSound, PullKeeps
<1>12. CASE Transfer
  <2>1. Keep /\ UNCHANGED rows
    BY <1>12 DEF Transfer
  <2> QED BY <1>0, <1>12, <2>1, TransferSound, PullKeeps
<1>13. CASE SweepJudged
  <2>1. Keep /\ UNCHANGED <<rows, backed>>
    BY <1>13 DEF SweepJudged
  <2> QED BY <1>0, <1>13, <2>1, SweepSound, PullKeeps
<1>14. CASE Unit
  BY <1>14, TickKeeps, IgnitionKeeps, RewriteKeeps, PublishKeeps DEF Unit
<1>15. CASE UNCHANGED vars
  BY <1>15 DEF vars, IInv, World, Truthful, Told, Kind, Versions
<1> QED
  BY <1>1, <1>2, <1>3, <1>4, <1>5, <1>6, <1>7, <1>8, <1>9, <1>10, <1>11, <1>12, <1>13, <1>14,
     <1>15
  DEF Next, Pass, Handoff, Pull

\* The initial states.
LEMMA IInvInit == Init => IInv
<1>1. ASSUME Init PROVE IInv
  <2>1. World
    BY <1>1, NoPolicyType, NoPolicyTruthful, LimitsAssumption
    DEF Init, World, On, LoggerStates
  <2> QED
    BY <1>1, <2>1, IdleSound, NoPolicyTruthful DEF Init, IInv
<1> QED
  BY <1>1

\* In every reachable state the world is of its types, every policy in hand
\* tells the truth about the bytes it saw, and the pull is sound.
THEOREM SoundInvariant == Spec => []IInv
<1>1. IInv /\ [Next]_vars => IInv'
  BY IInvNext
<1> QED
  BY <1>1, IInvInit, PTL DEF Spec

\* Every clip of a listing has one place, what is left behind is on record, the
\* wait ends before the unit sleeps, and what was waited for is settled.
LEMMA SoundAccounts ==
  ASSUME IInv
  PROVE  AccountedAndBounded
<1> USE AtHand
<1>1. TypeOK
  <2>1. /\ run.used \in Nat /\ run.checks \in Nat /\ run.released \subseteq Clips
        /\ run.result.skipped \subseteq Clips
    BY DEF Runs, Results
  <2>2. run.used \in 0 .. MaxChecks
    BY <2>1, LimitsAssumption DEF Carried, Budgeted
  <2> QED
    BY <2>1, <2>2 DEF TypeOK, World, LoggerStates
<1>2. EveryClipAccounted
  BY DEF EveryClipAccounted, IInv, Sound, Carried, Apart, OnRecord, Covered, Names
<1>3. WaitIsBounded
  <2>1. run.off \in Nat /\ now \in Nat /\ Native \in Nat /\ off \in Nat
    BY LimitsAssumption DEF World, Runs, On
  <2> QED
    BY <2>1 DEF WaitIsBounded, Carried, Bounded, NativeReserve, FirstWindow
<1>4. WaitedIsSettled
  BY DEF WaitedIsSettled, IInv, Sound, Staged
<1> QED
  BY <1>1, <1>2, <1>3, <1>4 DEF AccountedAndBounded

\* A pull never loses track of a listed clip, never leaves one behind without its
\* exclusion on record, never waits into the reserve before the unit's own sleep,
\* and settles whatever it has waited for, for any clips, policies and budgets.
THEOREM AccountTheorem == Spec => []AccountedAndBounded
<1>1. IInv => AccountedAndBounded
  BY SoundAccounts
<1> QED
  BY <1>1, SoundInvariant, PTL

\* A clip of at most two minutes that overlaps one a policy accepted has begun
\* late enough to be looked for: the policy knows it, or the clip is uploaded.
LEMMA PeersAreKnown ==
  ASSUME NEW p, NEW remote, NEW accepted, NEW witnessing,
         NEW c \in _paired_candidates(p, remote, accepted, witnessing), c \in Clips,
         NEW d \in DOMAIN remote, d \in Clips, Overlaps(c, d)
  PROVE  d \in Told(p) /\ d \in witnessing /\ remote[d] = p.says[d].bytes
<1>1. /\ ~UnknownPeer(p, remote, c)
      /\ \A e \in Told(p) : Overlaps(c, e) => e \in _matched_proofs(p, remote, witnessing)
  BY DEF _paired_candidates
<1>2. d # c /\ Start[d] < End[c] /\ Start[c] <= Start[d] + Guard
  <2>1. /\ Start[c] \in Nat /\ Start[d] \in Nat /\ End[d] \in Nat /\ End[c] \in Nat
        /\ End[d] <= Start[d] + Guard
    BY ClipsAssumption
  <2> QED BY <2>1 DEF Overlaps, Guard
<1>3. d \in Told(p)
  BY <1>1, <1>2 DEF UnknownPeer
<1> QED
  BY <1>1, <1>3 DEF _matched_proofs

\* What is verified of a truthful policy and taken for quiet is quiet now.
LEMMA VerifiedIsQuiet ==
  ASSUME NEW p, Truthful(p, quiet), NEW checking, NEW c \in Verified(checking, p), c \in Told(p),
         Kind(p, c) \in {"skip", "peer", "quiet_wait"}
  PROVE  ver[c] = 1 /\ c \in quiet
BY DEF Verified, Truthful

\* The step that settles on the clips to leave behind.
LEMMA LeftBehindStep ==
  ASSUME IInv, _verify_fingerprints,
         NEW c \in run'.sel, NEW d \in Started,
         d = c \/ (d \in DOMAIN run.remote /\ Overlaps(c, d))
  PROVE  ver[d] = 1 /\ d \in quiet
<1> USE AtHand
<1> DEFINE p == run.policy
           hashes == Least(Cardinality(_required_quiet_proofs(p, run.sel)), Budget)
<1>1. PICK checking : run'.sel = _paired_candidates(p, run.remote,
                        eligible_skip(p) \cap Verified(checking, p),
                        _quiet_witness(p) \cap Verified(checking, p))
  <2>1. ASSUME run' = Unproved([run EXCEPT !.checks = hashes]) PROVE FALSE
    <3>1. run'.sel = {}
      BY <2>1 DEF Unproved, Runs
    <3> QED BY <3>1
  <2>2. ASSUME NEW checking,
               run' = [run EXCEPT !.pc = "audit", !.checks = hashes,
                        !.sel = _paired_candidates(p, run.remote,
                                  eligible_skip(p) \cap Verified(checking, p),
                                  _quiet_witness(p) \cap Verified(checking, p))]
        PROVE  run'.sel = _paired_candidates(p, run.remote,
                            eligible_skip(p) \cap Verified(checking, p),
                            _quiet_witness(p) \cap Verified(checking, p))
    <3> DEFINE sel == _paired_candidates(p, run.remote,
                        eligible_skip(p) \cap Verified(checking, p),
                        _quiet_witness(p) \cap Verified(checking, p))
    <3>1. run' = [run EXCEPT !.pc = "audit", !.checks = hashes, !.sel = sel]
      BY <2>2
    <3> HIDE DEF sel, hashes, p
    <3>2. run'.sel = sel
      BY <3>1 DEF Runs
    <3> QED BY <3>2 DEF sel
  <2> QED
    BY <2>1, <2>2 DEF _verify_fingerprints
<1>2. c \in eligible_skip(p) /\ c \in Verified(checking, p)
  BY <1>1, PairedSubset
<1>3. c \in Told(p) /\ Kind(p, c) = "skip" /\ c \in Clips
  BY <1>2, PolicyType DEF eligible_skip
<1>4. CASE d = c
  BY <1>2, <1>3, <1>4, VerifiedIsQuiet
<1>5. CASE d \in DOMAIN run.remote /\ Overlaps(c, d)
  <2>1. d \in Clips /\ c \in _paired_candidates(p, run.remote,
                               eligible_skip(p) \cap Verified(checking, p),
                               _quiet_witness(p) \cap Verified(checking, p))
    BY <1>1 DEF Started
  <2>2. d \in Told(p) /\ d \in _quiet_witness(p) \cap Verified(checking, p)
    BY <1>3, <1>5, <2>1, PeersAreKnown
  <2>3. Kind(p, d) \in {"skip", "peer", "quiet_wait"}
    BY <2>2 DEF _quiet_witness
  <2> QED
    BY <2>2, <2>3, VerifiedIsQuiet
<1> QED
  BY <1>4, <1>5

\* When a pull settles on clips to leave on the unit, the bytes there at that
\* moment show nothing moving, for each of them and for every listed clip of the
\* same moment, whatever was rewritten since the listing or the policy.
THEOREM LeftBehindTheorem == Spec => LeftBehindIsQuiet
<1>1. IInv /\ [Next]_vars =>
        [_verify_fingerprints =>
           \A c \in run'.sel, d \in Started :
             d = c \/ (d \in DOMAIN run.remote /\ Overlaps(c, d)) => ver[d] = 1 /\ d \in quiet]_vars
  BY LeftBehindStep
<1> QED
  BY <1>1, SoundInvariant, PTL DEF Spec, LeftBehindIsQuiet

=============================================================================
