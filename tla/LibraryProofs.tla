---------------------------- MODULE LibraryProofs ----------------------------
(***************************************************************************)
(* Proofs about the library: no share that is missing, empty or unreadable *)
(* makes footage count as removed but an entry the walk passed over without *)
(* noticing, retention keeps to its two limits and spares what was claimed *)
(* or protected before it looked, and a recording is queued only on a      *)
(* fingerprint of its last observation, unless its bytes could not be read. *)
(*                                                                         *)
(* None of these is inductive.  What the scan concludes at its end rests   *)
(* on every entry it passed, on the row it loaded before others committed, *)
(* and on a file's bytes changing only with its time stamp; what retention *)
(* removed is bounded by what its plan still holds.  The conjunction of    *)
(* those facts is the invariant Justified.                                 *)
(*                                                                         *)
(* The last sections are about what the library's recordings are grouped   *)
(* into: journeys are the sessions the gaps define, the rows that name     *)
(* them agree, and a rebuild leaves the user's alone.  Their invariant is  *)
(* JourneysInv; the clustering is a fact about any layout of recordings.   *)
(***************************************************************************)
EXTENDS Library, Journeys, FiniteSetTheorems, WellFoundedInduction, TLAPS

States == {"none", "discovered", "settling", "queued", "processing",
           "completed", "failed", "invalid", "deleted"}
Jobs == {"none", "queued", "running"}
Entry == [c : Nat, t : Int, quiet : BOOLEAN]
Recording == [state : States, stat : Int, fp : Nat, fpt : Int, missing : BOOLEAN,
              ignored : BOOLEAN, protected : BOOLEAN, read : Nat, job : Jobs]
Scan == [pc : {"off", "walk", "entry", "queue"}, todo : SUBSET Files, seen : SUBSET Files,
         err : BOOLEAN, f : Files \cup {0}, entry : Entry \cup {0}, was : Recording]
Retention == [pc : {"off", "plan", "check", "unlink"},
              left : Seq({"oldest", "idle", "parked"}), safe : BOOLEAN,
              cands : Seq(Files), gone : SUBSET Files, indexed : Nat]

\* The types of all that is kept.
Types ==
  /\ disk \in [Files -> Entry] /\ mounted \in BOOLEAN
  /\ row \in [Files -> Recording]
  /\ scan \in Scan /\ ret \in Retention
  /\ lost \subseteq Files /\ late \subseteq Files
  /\ skipped \subseteq Files /\ unread \subseteq Files

\* A fingerprint comes with the time stamp of its bytes, and what waits to be
\* queued was last observed as it was read.
Fingerprinted(r) ==
  /\ r.fp = 0 <=> r.fpt = 0
  /\ r.state \in QUEUEABLE_STATES /\ r.fp # 0 => r.fpt = r.stat

\* A row is made for a file that was there, and called missing once that file
\* was removed or passed over; only bytes that could not be read leave it ready to
\* be queued on what was read before.
RowIsReal(f) ==
  /\ row[f].fp = 0 <=> row[f].fpt = 0
  /\ f \in unread \/ Fingerprinted(row[f])
  /\ row[f].state = "none" => row[f] = NoRow
  /\ row[f].state # "none" => disk[f].t # 0
  /\ row[f].missing => f \in lost \cup skipped

\* A removed name keeps the time stamp it had.
LostIsReal(f) ==
  /\ f \in lost => disk[f].t # 0
  /\ disk[f].t < 0 => f \in lost

\* A walk without an error has passed over nothing but removed files, entries that
\* could not be read and files nobody indexed, unless the share looked empty from its first entry on.
Passed ==
  scan.pc \in {"walk", "entry"} =>
    /\ scan.todo \cap scan.seen = {}
    /\ \/ scan.err
       \/ scan.todo = {} /\ scan.seen = {}
       \/ \A f \in Files \ (scan.todo \cup scan.seen) :
            f \in lost \cup skipped \/ row[f].state = "none"

\* The entry in hand still tells the bytes of its time stamp, and nobody but the
\* scan touches what the scan decides about the row it loaded.
InHand ==
  scan.pc = "entry" =>
    LET f == scan.f  was == scan.was IN
    /\ f \in Files /\ f \in scan.seen
    /\ scan.entry \in Entry /\ scan.entry.t > 0
    /\ disk[f].t >= scan.entry.t \/ disk[f].t <= - scan.entry.t
    /\ disk[f].t = scan.entry.t => disk[f].c = scan.entry.c
    /\ was.fp = row[f].fp /\ was.fpt = row[f].fpt /\ was.stat = row[f].stat
    /\ was.state = "none" <=> row[f].state = "none"
    /\ was.state = "none" => was = NoRow
    /\ row[f].state \in QUEUEABLE_STATES => was.state = row[f].state

\* Retention holds a file it found free, or somebody came after it looked.
Doomed ==
  ret.pc = "unlink" =>
    /\ ret.cands # <<>>
    /\ \/ Head(ret.cands) \in late
       \/ row[Head(ret.cands)].job = "none" /\ ~ row[Head(ret.cands)].protected

\* What is gone and what is still planned stay together under both limits.
Measured ==
  /\ ret.pc \in {"off", "plan"} => ret.gone = {}
  /\ ret.pc # "off" => ret.left # <<>>
  /\ ret.gone \subseteq lost
  /\ ret.pc \in {"check", "unlink"} =>
       /\ (Cardinality(ret.gone) + Len(ret.cands)) * 100 <= ret.indexed * MaxPercent
       /\ Head(ret.left) = "oldest" /\ (ret.gone # {} \/ ret.cands # <<>>) =>
            Cardinality(OnDisk) - Len(ret.cands) >= Limit

\* Retention works on rows there are.
Known ==
  \A f \in Files :
    f \in ret.gone \/ (\E i \in DOMAIN ret.cands : ret.cands[i] = f) => row[f].state # "none"

\* The inductive invariant.
Justified ==
  /\ Types
  /\ \A f \in Files : RowIsReal(f) /\ LostIsReal(f)
  /\ Passed /\ InHand /\ Doomed /\ Measured /\ Known

-----------------------------------------------------------------------------
(* Files in order.                                                         *)

\* A set of names has a least one.
LEMMA Least ==
  ASSUME NEW S \in SUBSET Files, S # {}
  PROVE  \E m \in S : \A g \in S : m <= g
<1> DEFINE Bad == {T \in FiniteSubsetsOf(Files) :
                    T # {} /\ ~ \E m \in T : \A g \in T : m <= g}
<1>1. Files \subseteq Nat /\ S \in FiniteSubsetsOf(Files)
  BY FilesAssumption, FS_Subset DEF FiniteSubsetsOf
<1>2. SUFFICES ASSUME Bad # {} PROVE FALSE
  BY <1>1
<1>3. PICK T \in Bad : \A U \in Bad : ~ (<<U, T>> \in StrictSubsetOrdering(Files))
  <2> Bad \subseteq FiniteSubsetsOf(Files)
    OBVIOUS
  <2> HIDE DEF Bad
  <2> QED BY <1>2, FS_StrictSubsetOrderingWellFounded, WFMin
<1>4. PICK x \in T : TRUE
  OBVIOUS
<1>5. T \ {x} \in FiniteSubsetsOf(Files) /\ <<T \ {x}, T>> \in StrictSubsetOrdering(Files)
  BY <1>4, FS_RemoveElement DEF FiniteSubsetsOf, StrictSubsetOrdering
<1>6. PICK m \in T : \A g \in T \ {x} : m <= g
  BY <1>3, <1>4, <1>5
<1>7. \E k \in T : \A g \in T : k <= g
  <2>1. T \subseteq Nat
    BY <1>1 DEF FiniteSubsetsOf
  <2>2. CASE m <= x
    BY <1>6, <2>2
  <2>3. CASE ~ (m <= x)
    BY <1>4, <1>6, <2>1, <2>3
  <2> QED BY <2>2, <2>3
<1> QED
  BY <1>7

\* The files a query names can be put in order.
LEMMA Orderable ==
  \A S \in SUBSET Files :
    \E s \in [1 .. Cardinality(S) -> S] : \A i, j \in DOMAIN s : i < j => s[i] < s[j]
<1> DEFINE Ordered(S) ==
             \E s \in [1 .. Cardinality(S) -> S] : \A i, j \in DOMAIN s : i < j => s[i] < s[j]
           Bad == {S \in FiniteSubsetsOf(Files) : ~ Ordered(S)}
<1>1. \A S \in SUBSET Files :
        S \in FiniteSubsetsOf(Files) /\ IsFiniteSet(S) /\ Cardinality(S) \in Nat
  BY FilesAssumption, FS_Subset, FS_CardinalityType DEF FiniteSubsetsOf
<1>2. SUFFICES ASSUME Bad # {} PROVE FALSE
  <2> HIDE DEF Ordered
  <2>1. \A S \in SUBSET Files : Ordered(S)
    BY <1>1, <1>2
  <2> QED BY <2>1 DEF Ordered
<1>3. PICK S \in Bad : \A U \in Bad : ~ (<<U, S>> \in StrictSubsetOrdering(Files))
  <2> HIDE DEF Ordered
  <2> Bad \subseteq FiniteSubsetsOf(Files)
    OBVIOUS
  <2> HIDE DEF Bad
  <2> QED BY <1>2, FS_StrictSubsetOrderingWellFounded, WFMin
<1>4. S \in SUBSET Files /\ ~ Ordered(S)
  <2> HIDE DEF Ordered
  <2> QED BY <1>3 DEF FiniteSubsetsOf
<1> DEFINE n == Cardinality(S)
<1>5. S # {}
  <2>1. SUFFICES ASSUME S = {} PROVE Ordered(S)
    BY <1>4
  <2>2. Cardinality(S) = 0
    BY <2>1, FS_EmptySet
  <2>3. [i \in 1 .. Cardinality(S) |-> i] \in [1 .. Cardinality(S) -> S]
    BY <2>2
  <2> QED BY <2>2, <2>3
<1>6. PICK m \in S : \A g \in S : m <= g
  BY <1>4, <1>5, Least
<1>7. /\ IsFiniteSet(S \ {m}) /\ Cardinality(S \ {m}) = n - 1 /\ n - 1 \in Nat
      /\ S \ {m} \in SUBSET Files /\ n \in Nat /\ n # 0
  BY <1>1, <1>4, <1>5, <1>6, FS_RemoveElement, FS_EmptySet
<1>8. Ordered(S \ {m})
  <2> HIDE DEF Ordered
  <2>1. <<S \ {m}, S>> \in StrictSubsetOrdering(Files)
    BY <1>1, <1>4, <1>6, <1>7 DEF StrictSubsetOrdering, FiniteSubsetsOf
  <2> QED BY <1>1, <1>3, <1>7, <2>1
<1>9. PICK s \in [1 .. (n - 1) -> S \ {m}] : \A i, j \in 1 .. (n - 1) : i < j => s[i] < s[j]
  BY <1>7, <1>8
<1> DEFINE t == [i \in 1 .. n |-> IF i = 1 THEN m ELSE s[i - 1]]
<1>10. t \in [1 .. n -> S]
  BY <1>6, <1>7, <1>9
<1>11. \A i, j \in 1 .. n : i < j => t[i] < t[j]
  <2>1. SUFFICES ASSUME NEW i \in 1 .. n, NEW j \in 1 .. n, i < j PROVE t[i] < t[j]
    OBVIOUS
  <2>2. t[j] = s[j - 1] /\ j - 1 \in 1 .. (n - 1) /\ s[j - 1] \in S \ {m} /\ n \in Nat
    BY <1>7, <1>9, <2>1
  <2>3. CASE i = 1
    <3>1. m <= s[j - 1] /\ m # s[j - 1] /\ m \in Nat /\ s[j - 1] \in Nat
        BY <1>4, <1>6, <2>2, FilesAssumption
    <3> QED BY <2>2, <2>3, <3>1
  <2>4. CASE i # 1
    <3>1. t[i] = s[i - 1] /\ i - 1 \in 1 .. (n - 1) /\ i - 1 < j - 1
      BY <1>7, <2>1, <2>4
    <3> QED BY <1>9, <2>2, <3>1
  <2> QED BY <2>3, <2>4
<1>12. Ordered(S)
  <2> HIDE DEF t
  <2>1. DOMAIN t = 1 .. n
    BY <1>10
  <2> QED BY <1>4, <1>10, <1>11, <2>1
<1> QED
  BY <1>4, <1>12

\* A query lists each of its recordings once.
LEMMA Listed ==
  ASSUME NEW S \in SUBSET Files
  PROVE  /\ InOrder(S) \in Seq(Files)
         /\ \A i \in DOMAIN InOrder(S) : InOrder(S)[i] \in S
         /\ Len(InOrder(S)) = Cardinality(S)
<1>1. IsFiniteSet(S) /\ Cardinality(S) \in Nat
  BY FilesAssumption, FS_Subset, FS_CardinalityType
<1>2. InOrder(S) \in [1 .. Cardinality(S) -> S]
  BY Orderable DEF InOrder
<1> HIDE DEF InOrder
<1> QED
  BY <1>1, <1>2

\* Every plan is a list of files, and the first frees no more than is needed.
LEMMA PlansAreFiles ==
  ASSUME Types, NEW kind
  PROVE  /\ Planned(kind) \in Seq(Files)
         /\ \A i \in DOMAIN Planned(kind) : row[Planned(kind)[i]].state # "none"
         /\ kind = "oldest" /\ Planned(kind) # <<>> => Len(Planned(kind)) <= ToFree
<1> DEFINE Good(s) == s \in Seq(Files) /\ \A i \in DOMAIN s : row[s[i]].state # "none"
<1>1. Good(Oldest) /\ Good(plan_idle) /\ Good(plan_parked)
  <2>1. \A S \in SUBSET {f \in Files : live_condition(f)} : Good(InOrder(S))
    BY Listed DEF live_condition
  <2>2. Still \subseteq Files /\ Good(<<>>)
    BY FilesAssumption
  <2> HIDE DEF Good
  <2> QED BY <2>1, <2>2 DEF Oldest, plan_idle, plan_parked
<1>2. ToFree \in Int
  <2>1. IsFiniteSet(OnDisk) /\ Cardinality(OnDisk) \in Nat
    BY FilesAssumption, FS_Subset, FS_CardinalityType DEF OnDisk
  <2> QED BY <2>1, NumbersAssumption DEF ToFree
<1> HIDE DEF Oldest, ToFree
<1>3. Good(plan) /\ (plan # <<>> => Len(plan) <= ToFree)
  BY <1>1, <1>2 DEF plan
<1> HIDE DEF plan, plan_idle, plan_parked
<1> QED
  BY <1>1, <1>3 DEF Planned

-----------------------------------------------------------------------------
(* What the scan makes of one entry.                                       *)

\* An entry read again: its time stamp tells its bytes.
SameBytes(entry, now) ==
  /\ entry \in Entry /\ now \in Entry /\ entry.t > 0
  /\ now.t = entry.t => now.c = entry.c

\* A row is empty, or belongs to a recording.
LEMMA NoRowTyped == NoRow \in Recording /\ Fingerprinted(NoRow)
BY DEF NoRow, Recording, States, Jobs, Fingerprinted, QUEUEABLE_STATES

\* A row that becomes invalid has no fingerprint.
LEMMA InvalidRow ==
  ASSUME NEW r \in Recording
  PROVE  /\ _mark_invalid(r) \in Recording /\ Fingerprinted(_mark_invalid(r))
         /\ _mark_invalid(r).state = "invalid" /\ _mark_invalid(r).missing = r.missing
         /\ _mark_invalid(r).job = r.job /\ _mark_invalid(r).protected = r.protected
<1>1. PICK st \in States : st = "invalid"
  BY DEF States
<1>2. PICK stamp \in Int : stamp = 0
  OBVIOUS
<1>3. PICK bytes \in Nat : bytes = 0
  OBVIOUS
<1>4. \A new : new = [r EXCEPT !.state = st, !.fp = bytes, !.fpt = stamp] =>
        /\ new \in Recording /\ new.fp = bytes /\ new.fpt = stamp /\ new.state = st
        /\ new.missing = r.missing /\ new.job = r.job /\ new.protected = r.protected
  BY DEF Recording
<1> DEFINE marked == _mark_invalid(r)
<1>5. marked = [r EXCEPT !.state = st, !.fp = bytes, !.fpt = stamp]
  BY <1>1, <1>2, <1>3 DEF _mark_invalid
<1> HIDE DEF marked
<1>6. /\ marked \in Recording /\ marked.fp = 0 /\ marked.fpt = 0 /\ marked.state = "invalid"
      /\ marked.missing = r.missing /\ marked.job = r.job /\ marked.protected = r.protected
  BY <1>1, <1>2, <1>3, <1>4, <1>5
<1> QED
  BY <1>6 DEF Fingerprinted, marked, QUEUEABLE_STATES

\* A file that moves is not queued.
LEMMA HeldRow ==
  ASSUME NEW r \in Recording, r.fp = 0 <=> r.fpt = 0, r.state # "none"
  PROVE  /\ HeldBack(r) \in Recording /\ Fingerprinted(HeldBack(r))
         /\ HeldBack(r).state # "none" /\ HeldBack(r).missing = r.missing
         /\ HeldBack(r).job = r.job /\ HeldBack(r).protected = r.protected
BY DEF HeldBack, Recording, States, Fingerprinted, QUEUEABLE_STATES

\* A settled file whose bytes were read before goes on.
LEMMA UnstrandedRow ==
  ASSUME NEW r \in Recording, r.fp = 0 <=> r.fpt = 0, r.state # "none"
  PROVE  /\ Unstranded(r) \in Recording /\ Unstranded(r).state # "none"
         /\ Unstranded(r).fp = r.fp /\ Unstranded(r).fpt = r.fpt
         /\ Unstranded(r).stat = r.stat /\ Unstranded(r).missing = r.missing
         /\ Unstranded(r).job = r.job /\ Unstranded(r).protected = r.protected
BY DEF Unstranded, Recording, States

\* A file that is read anew is queued on what was read, or waits.
LEMMA RereadRow ==
  ASSUME NEW r \in Recording, NEW entry, NEW now, SameBytes(entry, now), entry.c # 0,
         r.fp = 0 <=> r.fpt = 0, r.stat = entry.t, r.state # "none"
  PROVE  LET new == Reread(r, entry, now) IN
         /\ new \in Recording /\ Fingerprinted(new) /\ new.state # "none"
         /\ new.missing = r.missing /\ new.job = r.job /\ new.protected = r.protected
<1>1. now.t \in Int /\ entry.t \in Int /\ now.c \in Nat /\ r.state \in States
  BY DEF SameBytes, Entry, Recording
<1>2. CASE now.t # entry.t
  <2>1. PICK st \in States \ QUEUEABLE_STATES :
          st # "none" /\ Reread(r, entry, now) = [r EXCEPT !.stat = now.t, !.state = st]
    <3> DEFINE st == IF r.state \in QUEUEABLE_STATES \cup {"settling"} THEN "settling" ELSE r.state
    <3>1. st \in States \ QUEUEABLE_STATES /\ st # "none"
      BY <1>1 DEF States, QUEUEABLE_STATES
    <3>2. Reread(r, entry, now) = [r EXCEPT !.stat = now.t, !.state = st]
      BY <1>2 DEF Reread
    <3> HIDE DEF st
    <3> QED BY <3>1, <3>2
  <2>2. \A new : new = [r EXCEPT !.stat = now.t, !.state = st] =>
          /\ new \in Recording /\ new.fp = r.fp /\ new.fpt = r.fpt /\ new.state = st
          /\ new.missing = r.missing /\ new.job = r.job /\ new.protected = r.protected
    BY <1>1 DEF Recording
  <2> QED BY <2>1, <2>2 DEF Fingerprinted
<1>3. CASE now.t = entry.t /\ r.fp = now.c
  <2>1. PICK st \in States :
          st # "none" /\ Reread(r, entry, now) = [r EXCEPT !.fpt = entry.t, !.state = st]
    <3> DEFINE st == IF r.state = "settling" THEN "discovered" ELSE r.state
    <3>1. st \in States /\ st # "none"
      BY <1>1 DEF States
    <3>2. Reread(r, entry, now) = [r EXCEPT !.fpt = entry.t, !.state = st]
      BY <1>3 DEF Reread
    <3> HIDE DEF st
    <3> QED BY <3>1, <3>2
  <2>2. \A new : new = [r EXCEPT !.fpt = entry.t, !.state = st] =>
          /\ new \in Recording /\ new.fp = r.fp /\ new.fpt = entry.t /\ new.state = st
          /\ new.stat = r.stat
          /\ new.missing = r.missing /\ new.job = r.job /\ new.protected = r.protected
    BY <1>1 DEF Recording
  <2>3. r.fp # 0 /\ entry.t # 0
    BY <1>3 DEF SameBytes, Entry
  <2> QED BY <2>1, <2>2, <2>3 DEF Fingerprinted
<1>4. CASE now.t = entry.t /\ r.fp # now.c
  <2>1. Reread(r, entry, now) = [r EXCEPT !.fpt = entry.t, !.fp = now.c, !.state = "discovered"]
    BY <1>4 DEF Reread
  <2>2. \A new : new = [r EXCEPT !.fpt = entry.t, !.fp = now.c, !.state = "discovered"] =>
          /\ new \in Recording /\ new.fp = now.c /\ new.fpt = entry.t
          /\ new.state = "discovered" /\ new.stat = r.stat
          /\ new.missing = r.missing /\ new.job = r.job /\ new.protected = r.protected
    BY <1>1 DEF Recording, States
  <2>3. now.c # 0 /\ entry.t # 0
    BY <1>4 DEF SameBytes, Entry
  <2> QED BY <2>1, <2>2, <2>3 DEF Fingerprinted
<1> QED
  BY <1>2, <1>3, <1>4

\* What a scan decides about a file it sees for the first time.
LEMMA NewRowDecided ==
  ASSUME NEW entry, NEW now, SameBytes(entry, now)
  PROVE  LET new == NewRow(entry, now) IN
         /\ new \in Recording /\ Fingerprinted(new) /\ new.state # "none" /\ ~ new.missing
         /\ new.job = NoRow.job /\ new.protected = NoRow.protected
<1> DEFINE made == [NoRow EXCEPT !.state = "discovered", !.stat = entry.t]
<1>1. /\ made \in Recording /\ made.fp = 0 /\ made.fpt = 0 /\ ~ made.missing
      /\ made.stat = entry.t
      /\ made.job = NoRow.job /\ made.protected = NoRow.protected
  <2>1. entry.t \in Int /\ "discovered" \in States
    BY DEF SameBytes, Entry, States
  <2>2. made \in Recording /\ made.fp = NoRow.fp /\ made.fpt = NoRow.fpt
        /\ made.missing = NoRow.missing /\ made.stat = entry.t
        /\ made.job = NoRow.job /\ made.protected = NoRow.protected
    <3>1. \A r \in Recording : \A new : new = [r EXCEPT !.state = "discovered", !.stat = entry.t] =>
            /\ new \in Recording /\ new.fp = r.fp /\ new.fpt = r.fpt
            /\ new.missing = r.missing /\ new.stat = entry.t
            /\ new.job = r.job /\ new.protected = r.protected
      BY <2>1 DEF Recording
    <3> QED BY <3>1, NoRowTyped
  <2>3. NoRow.fp = 0 /\ NoRow.fpt = 0 /\ NoRow.missing = FALSE
    BY DEF NoRow
  <2> HIDE DEF made
  <2> QED BY <2>2, <2>3
<1>2. /\ assess(entry, NoRow) = "ready" => entry.c # 0
      /\ assess(entry, NoRow) \in {"ready", "settling", "invalid"}
  BY DEF assess
<1> HIDE DEF made
<1>3. CASE assess(entry, NoRow) = "invalid"
  <2>1. NewRow(entry, now) = _mark_invalid(made)
    BY <1>3 DEF NewRow, made
  <2> QED BY <1>1, <2>1, InvalidRow
<1>4. CASE assess(entry, NoRow) = "settling"
  <2>1. NewRow(entry, now) = [made EXCEPT !.state = "settling"]
    BY <1>4 DEF NewRow, made
  <2> QED
    BY <1>1, <2>1 DEF Recording, States, Fingerprinted, QUEUEABLE_STATES
<1>5. CASE assess(entry, NoRow) = "ready" /\ now.t = entry.t
  <2>1. NewRow(entry, now) = [made EXCEPT !.fp = now.c, !.fpt = entry.t]
    BY <1>5 DEF NewRow, made
  <2>2. /\ now.c \in Nat /\ now.c # 0 /\ entry.t \in Int /\ entry.t # 0
    BY <1>2, <1>5 DEF SameBytes, Entry
  <2>3. \A new : new = [made EXCEPT !.fp = now.c, !.fpt = entry.t] =>
          /\ new \in Recording /\ new.fp = now.c /\ new.fpt = entry.t
          /\ new.stat = made.stat /\ new.state = made.state
          /\ new.missing = made.missing /\ new.job = made.job /\ new.protected = made.protected
    BY <1>1, <2>2 DEF Recording
  <2>4. made.state # "none"
    BY DEF made, NoRow
  <2> QED BY <1>1, <2>1, <2>2, <2>3, <2>4 DEF Fingerprinted
<1>6. CASE assess(entry, NoRow) = "ready" /\ now.t # entry.t
  <2>1. NewRow(entry, now) = [made EXCEPT !.state = "settling", !.stat = now.t]
    BY <1>6 DEF NewRow, made
  <2> QED
    BY <1>1, <2>1
       DEF Recording, States, Fingerprinted, QUEUEABLE_STATES, SameBytes, Entry
<1> QED
  BY <1>2, <1>3, <1>4, <1>5, <1>6

\* What every scan notes of a file that is there again.
LEMMA ReturnedRow ==
  ASSUME NEW was \in Recording, NEW entry, entry \in Entry, was.state # "none",
         NEW back, back = Returned(was, entry)
  PROVE  /\ back \in Recording /\ back.fp = was.fp /\ back.fpt = was.fpt /\ ~ back.missing
         /\ back.stat = entry.t /\ back.state # "none"
         /\ back.job = was.job /\ back.protected = was.protected
         /\ back.state = was.state \/ (was.state = "failed" /\ back.state = "discovered")
<1>1. PICK st \in States :
        /\ st # "none"
        /\ st = was.state \/ (was.state = "failed" /\ st = "discovered")
        /\ back = [was EXCEPT !.missing = FALSE, !.stat = entry.t, !.state = st]
  <2> DEFINE st == IF was.missing /\ was.state = "failed" THEN "discovered" ELSE was.state
  <2>1. st \in States /\ st # "none"
        /\ (st = was.state \/ (was.state = "failed" /\ st = "discovered"))
    BY DEF States, Recording
  <2>2. back = [was EXCEPT !.missing = FALSE, !.stat = entry.t, !.state = st]
    BY DEF Returned
  <2> HIDE DEF st
  <2> QED BY <2>1, <2>2
<1>2. entry.t \in Int
  BY DEF Entry
<1>3. \A new : new = [was EXCEPT !.missing = FALSE, !.stat = entry.t, !.state = st] =>
        /\ new \in Recording /\ new.fp = was.fp /\ new.fpt = was.fpt /\ ~ new.missing
        /\ new.stat = entry.t /\ new.state = st
        /\ new.job = was.job /\ new.protected = was.protected
  BY <1>2 DEF Recording
<1>4. /\ back \in Recording /\ back.fp = was.fp /\ back.fpt = was.fpt /\ ~ back.missing
      /\ back.stat = entry.t /\ back.state # "none"
      /\ back.job = was.job /\ back.protected = was.protected
      /\ back.state = was.state \/ (was.state = "failed" /\ back.state = "discovered")
  BY <1>1, <1>3
<1> QED BY <1>4

\* What it decides about a file it knows.
LEMMA ReconciledDecided ==
  ASSUME NEW was \in Recording, NEW entry, NEW now, SameBytes(entry, now),
         was.fp = 0 <=> was.fpt = 0, was.state # "none"
  PROVE  LET new == Reconciled(was, entry, now) IN
         /\ new \in Recording /\ Fingerprinted(new) /\ new.state # "none" /\ ~ new.missing
         /\ new.job = was.job /\ new.protected = was.protected
<1> DEFINE back == Returned(was, entry)
<1>0. entry \in Entry
  BY DEF SameBytes
<1>1. /\ back \in Recording /\ back.fp = was.fp /\ back.fpt = was.fpt /\ ~ back.missing
      /\ back.stat = entry.t /\ back.state # "none"
      /\ back.job = was.job /\ back.protected = was.protected
      /\ back.state = was.state \/ (was.state = "failed" /\ back.state = "discovered")
  BY <1>0, ReturnedRow
<1>2. back.fp = 0 <=> back.fpt = 0
  <2> HIDE DEF back
  <2> QED BY <1>1
<1>3. /\ assess(entry, was) = "ready" => entry.c # 0
      /\ assess(entry, was) \in {"ready", "settling", "invalid"}
  BY DEF assess
<1>4. entry.t # 0
  BY DEF SameBytes, Entry
<1>9. Reconciled(was, entry, now) =
        CASE assess(entry, was) = "settling" -> HeldBack(back)
          [] assess(entry, was) = "invalid" ->
               (IF was.state # "invalid" \/ was.stat # entry.t THEN _mark_invalid(back) ELSE back)
          [] assess(entry, was) = "ready" /\ AlreadyRead(back, entry) -> Unstranded(back)
          [] OTHER -> Reread(Unstranded(back), entry, now)
  BY DEF Reconciled
<1> HIDE DEF back
<1>5. CASE assess(entry, was) = "settling"
  <2>1. Reconciled(was, entry, now) = HeldBack(back)
    BY <1>5, <1>9
  <2> QED BY <1>1, <1>2, <2>1, HeldRow
<1>6. CASE assess(entry, was) = "invalid"
  <2>1. \/ Reconciled(was, entry, now) = _mark_invalid(back)
        \/ Reconciled(was, entry, now) = back /\ was.state = "invalid"
    BY <1>6, <1>9
  <2>2. was.state = "invalid" => back.state = "invalid"
    BY <1>1
  <2>3. CASE Reconciled(was, entry, now) = _mark_invalid(back)
    BY <1>1, <2>3, InvalidRow
  <2>4. CASE Reconciled(was, entry, now) = back /\ back.state = "invalid"
    BY <1>1, <1>2, <2>4 DEF Fingerprinted, QUEUEABLE_STATES
  <2> QED BY <2>1, <2>2, <2>3, <2>4
<1>7. CASE assess(entry, was) = "ready" /\ AlreadyRead(back, entry)
  <2>1. Reconciled(was, entry, now) = Unstranded(back)
    BY <1>7 DEF Reconciled, back
  <2>2. back.fpt = back.stat
    BY <1>1, <1>7 DEF AlreadyRead
  <2> QED BY <1>1, <1>2, <2>1, <2>2, UnstrandedRow DEF Fingerprinted
<1>8. CASE assess(entry, was) = "ready" /\ ~ AlreadyRead(back, entry)
  <2>1. Reconciled(was, entry, now) = Reread(Unstranded(back), entry, now)
    BY <1>8 DEF Reconciled, back
  <2>2. /\ Unstranded(back) \in Recording /\ Unstranded(back).state # "none"
        /\ Unstranded(back).fp = 0 <=> Unstranded(back).fpt = 0
        /\ Unstranded(back).stat = entry.t /\ ~ Unstranded(back).missing
        /\ Unstranded(back).job = was.job /\ Unstranded(back).protected = was.protected
    BY <1>1, <1>2, UnstrandedRow
  <2> DEFINE r == Unstranded(back)
  <2> HIDE DEF r
  <2>3. r \in Recording /\ r.state # "none" /\ (r.fp = 0 <=> r.fpt = 0) /\ r.stat = entry.t
        /\ ~ r.missing /\ r.job = was.job /\ r.protected = was.protected
    BY <2>2 DEF r
  <2>4. LET new == Reread(r, entry, now) IN
        /\ new \in Recording /\ Fingerprinted(new) /\ new.state # "none"
        /\ new.missing = r.missing /\ new.job = r.job /\ new.protected = r.protected
    BY <1>3, <1>8, <2>3, RereadRow
  <2> QED BY <2>1, <2>3, <2>4 DEF r
<1> QED
  BY <1>3, <1>5, <1>6, <1>7, <1>8

\* A checkpoint of the scan writes what changed over what others committed.
LEMMA MergedRow ==
  ASSUME Types, NEW f \in Files, NEW was \in Recording, NEW new \in Recording,
         NEW merged, merged = Merged(f, was, new)
  PROVE  /\ merged \in Recording
         /\ merged.fp = (IF new.fp # was.fp THEN new.fp ELSE row[f].fp)
         /\ merged.fpt = (IF new.fpt # was.fpt THEN new.fpt ELSE row[f].fpt)
         /\ merged.stat = (IF new.stat # was.stat THEN new.stat ELSE row[f].stat)
         /\ merged.state = (IF new.state # was.state THEN new.state ELSE row[f].state)
         /\ merged.missing = (IF new.missing # was.missing THEN new.missing ELSE row[f].missing)
         /\ merged.job = (IF new.job # was.job THEN new.job ELSE row[f].job)
         /\ merged.protected =
              (IF new.protected # was.protected THEN new.protected ELSE row[f].protected)
<1> DEFINE cur == row[f]
<1>1. cur \in Recording
  BY DEF Types
<1> HIDE DEF cur
<1>2. merged = [k \in DOMAIN new |-> IF new[k] # was[k] THEN new[k] ELSE cur[k]]
  BY DEF Merged, cur
<1>3. DOMAIN new = {"state", "stat", "fp", "fpt", "missing", "ignored", "protected", "read", "job"}
  BY DEF Recording
<1>4. /\ merged.fp = (IF new.fp # was.fp THEN new.fp ELSE cur.fp)
      /\ merged.fpt = (IF new.fpt # was.fpt THEN new.fpt ELSE cur.fpt)
      /\ merged.stat = (IF new.stat # was.stat THEN new.stat ELSE cur.stat)
      /\ merged.state = (IF new.state # was.state THEN new.state ELSE cur.state)
      /\ merged.missing = (IF new.missing # was.missing THEN new.missing ELSE cur.missing)
      /\ merged.ignored = (IF new.ignored # was.ignored THEN new.ignored ELSE cur.ignored)
      /\ merged.read = (IF new.read # was.read THEN new.read ELSE cur.read)
      /\ merged.job = (IF new.job # was.job THEN new.job ELSE cur.job)
      /\ merged.protected = (IF new.protected # was.protected THEN new.protected ELSE cur.protected)
  BY <1>2, <1>3
<1>5. merged = [state |-> merged.state, stat |-> merged.stat, fp |-> merged.fp, fpt |-> merged.fpt,
                missing |-> merged.missing, ignored |-> merged.ignored,
                protected |-> merged.protected, read |-> merged.read, job |-> merged.job]
  BY <1>2, <1>3
<1>6. /\ merged.state \in States /\ merged.stat \in Int /\ merged.fp \in Nat /\ merged.fpt \in Int
      /\ merged.missing \in BOOLEAN /\ merged.ignored \in BOOLEAN
      /\ merged.protected \in BOOLEAN /\ merged.read \in Nat /\ merged.job \in Jobs
  BY <1>1, <1>4 DEF Recording
<1>7. merged \in Recording
  BY <1>5, <1>6 DEF Recording
<1> QED
  BY <1>4, <1>7 DEF cur

-----------------------------------------------------------------------------
(* The share, the walk.                                                    *)

\* Sets of files are finite.
LEMMA FilesFinite ==
  \A S \in SUBSET Files : IsFiniteSet(S) /\ Cardinality(S) \in Nat
BY FilesAssumption, FS_Subset, FS_CardinalityType

\* Nothing happened that the invariant speaks of.
LEMMA MountKeeps ==
  ASSUME Justified, Mount \/ Unmount
  PROVE  Justified'
<1>1. UNCHANGED <<disk, row, scan, ret, lost, late, skipped, unread>> /\ mounted' \in BOOLEAN
  BY DEF Mount, Unmount, faults
<1>2. Types'
  BY <1>1 DEF Justified, Types
<1> QED
  BY <1>1, <1>2
     DEF Justified, RowIsReal, Fingerprinted, LostIsReal, Passed, InHand, Doomed, Measured, OnDisk, Known

\* A write or its settling: the bytes change with the time stamp only, which
\* never comes back, and a file that is there stays.
LEMMA WriteKeeps ==
  ASSUME Justified, NEW f \in Files, Write(f) \/ Settle(f)
  PROVE  Justified'
<1>1. UNCHANGED <<mounted, row, scan, ret, lost, late, skipped, unread>>
  BY DEF Write, Settle, Replaced, faults
<1>2. disk[f] \in Entry
  BY DEF Justified, Types
<1>3. PICK new \in Entry :
        /\ disk' = [disk EXCEPT ![f] = new]
        /\ \/ new.t = disk[f].t /\ new.c = disk[f].c
           \/ new.t > 0 /\ new.t > disk[f].t /\ new.t > - disk[f].t
  <2>1. CASE Settle(f)
    <3> DEFINE new == [disk[f] EXCEPT !.quiet = TRUE]
    <3>1. new \in Entry /\ new.t = disk[f].t /\ new.c = disk[f].c
      BY <1>2 DEF Entry
    <3>2. disk' = [disk EXCEPT ![f] = new]
      BY <2>1 DEF Settle
    <3> HIDE DEF new
    <3> QED BY <3>1, <3>2
  <2>2. CASE Write(f)
    <3>1. PICK content \in Nat : Replaced(f, content)
      <4>1. disk[f].c \in Nat
        BY <1>2 DEF Entry
      <4>2. \E content \in {0, disk[f].c, disk[f].c + 1} : Replaced(f, content)
        BY <2>2 DEF Write
      <4> QED BY <4>1, <4>2
    <3> DEFINE t == (IF disk[f].t < 0 THEN - disk[f].t ELSE disk[f].t) + 1
               new == [c |-> content, t |-> t, quiet |-> FALSE]
    <3>2. t \in Int /\ t > 0 /\ t > disk[f].t /\ t > - disk[f].t
      BY <1>2 DEF Entry
    <3>3. new \in Entry /\ new.t = t
      BY <3>2 DEF Entry
    <3>4. disk' = [disk EXCEPT ![f] = new]
      BY <3>1 DEF Replaced, Justified, Types
    <3> HIDE DEF t, new
    <3> QED BY <3>2, <3>3, <3>4
  <2> QED BY <2>1, <2>2
<1>4. /\ disk' \in [Files -> Entry] /\ disk'[f] = new
      /\ \A g \in Files : g # f => disk'[g] = disk[g]
  BY <1>3 DEF Justified, Types
<1>5. \A g \in Files : disk[g] \in Entry /\ disk[g].t \in Int /\ disk[g].c \in Nat
  BY DEF Justified, Types, Entry
<1>6. new.t \in Int
  BY <1>3 DEF Entry
<1>7. Types'
  BY <1>1, <1>4 DEF Justified, Types
<1>8. ASSUME NEW g \in Files
      PROVE  RowIsReal(g)' /\ LostIsReal(g)'
  <2>1. RowIsReal(g) /\ LostIsReal(g)
    BY DEF Justified
  <2>2. /\ disk[g].t # 0 => disk'[g].t # 0
        /\ disk'[g].t < 0 => disk[g].t < 0
    BY <1>3, <1>4, <1>5, <1>6
  <2> QED BY <1>1, <2>1, <2>2 DEF RowIsReal, Fingerprinted, LostIsReal
<1>9. Passed'
  BY <1>1 DEF Justified, Passed
<1>10. InHand'
  <2>1. SUFFICES ASSUME scan.pc = "entry" PROVE InHand'
    BY <1>1 DEF InHand
  <2> DEFINE e == scan.entry  g == scan.f
  <2>2. /\ e \in Entry /\ e.t > 0 /\ g \in Files
        /\ disk[g].t >= e.t \/ disk[g].t <= - e.t
        /\ disk[g].t = e.t => disk[g].c = e.c
    BY <2>1 DEF Justified, InHand
  <2>3. e.t \in Int
    BY <2>2 DEF Entry
  <2> HIDE DEF e, g
  <2>4. /\ disk'[g].t >= e.t \/ disk'[g].t <= - e.t
        /\ disk'[g].t = e.t => disk'[g].c = e.c
    BY <1>3, <1>4, <1>5, <1>6, <2>2, <2>3
  <2> QED BY <1>1, <2>1, <2>4 DEF Justified, InHand, e, g
<1>11. Doomed'
  BY <1>1 DEF Justified, Doomed
<1>12. Measured'
  <2>1. Cardinality(OnDisk') >= Cardinality(OnDisk)
    <3>1. OnDisk \subseteq OnDisk'
      BY <1>3, <1>4, <1>5, <1>6 DEF OnDisk
    <3>2. OnDisk' \subseteq Files
      BY DEF OnDisk
    <3> QED BY <3>1, <3>2, FilesFinite, FS_Subset
  <2>2. /\ Cardinality(OnDisk) \in Nat /\ Cardinality(OnDisk') \in Nat /\ Limit \in Nat
        /\ Len(ret.cands) \in Nat
    <3>1. OnDisk \in SUBSET Files /\ OnDisk' \in SUBSET Files
      BY DEF OnDisk
    <3> QED BY <3>1, FilesFinite, NumbersAssumption DEF Justified, Types, Retention
  <2>3. Measured
    BY DEF Justified
  <2> DEFINE n == Cardinality(OnDisk)  n2 == Cardinality(OnDisk')
  <2>4. n2 >= n /\ n \in Nat /\ n2 \in Nat
    BY <2>1, <2>2
  <2>5. ret.pc \in {"check", "unlink"} /\ Head(ret.left) = "oldest"
          /\ (ret.gone # {} \/ ret.cands # <<>>) => n - Len(ret.cands) >= Limit
    BY <2>3 DEF Measured
  <2> HIDE DEF n, n2
  <2>6. ret.pc \in {"check", "unlink"} /\ Head(ret.left) = "oldest"
          /\ (ret.gone # {} \/ ret.cands # <<>>) => n2 - Len(ret.cands) >= Limit
    BY <2>2, <2>4, <2>5
  <2> QED BY <1>1, <2>3, <2>6 DEF Measured, n2
<1>13. Known'
  BY <1>1 DEF Justified, Known
<1> QED
  BY <1>7, <1>8, <1>9, <1>10, <1>11, <1>12, <1>13 DEF Justified

\* What a step of the walk alone has to show.
LEMMA ScanOnly ==
  ASSUME Justified, UNCHANGED <<disk, mounted, row, ret, lost, late, unread>>,
         skipped \subseteq skipped', skipped' \subseteq Files,
         scan' \in Scan, Passed', InHand'
  PROVE  Justified'
<1>1. Types'
  BY DEF Justified, Types
<1>2. (\A f \in Files : RowIsReal(f) /\ LostIsReal(f))'
  BY DEF Justified, RowIsReal, Fingerprinted, LostIsReal
<1>3. Doomed' /\ Measured' /\ Known'
  BY DEF Justified, Doomed, Measured, OnDisk, Known
<1> QED
  BY <1>1, <1>2, <1>3 DEF Justified

\* No scan.
LEMMA NoScanTyped == NoScan \in Scan /\ NoScan.pc = "off"
BY NoRowTyped DEF NoScan, Scan

\* A scan starts with everything before it.
LEMMA StartScanKeeps ==
  ASSUME Justified, StartScan
  PROVE  Justified'
<1> DEFINE pc == IF mounted THEN "walk" ELSE "queue"
<1>1. scan' = [NoScan EXCEPT !.pc = pc, !.todo = Files]
  BY DEF StartScan
<1>2. pc \in {"walk", "queue"}
  OBVIOUS
<1> HIDE DEF pc
<1>3. \A old \in Scan : \A new : new = [old EXCEPT !.pc = pc, !.todo = Files] =>
        new \in Scan /\ new.pc = pc /\ new.todo = Files /\ new.seen = old.seen
  BY <1>2 DEF Scan
<1>4. scan' \in Scan /\ scan'.pc = pc /\ scan'.todo = Files /\ scan'.seen = NoScan.seen
  BY <1>1, <1>3, NoScanTyped
<1>5. scan'.seen = {}
  BY <1>4 DEF NoScan
<1>6. Passed' /\ InHand'
  BY <1>2, <1>4, <1>5 DEF Passed, InHand
<1> QED
  BY <1>4, <1>6, ScanOnly DEF StartScan, faults, Justified, Types

\* A walk that fails reconciles nothing.
LEMMA WalkFailsKeeps ==
  ASSUME Justified, WalkFails
  PROVE  Justified'
<1>1. \A new : new = [scan EXCEPT !.todo = {}, !.err = TRUE] =>
        new \in Scan /\ new.pc = scan.pc /\ new.err /\ new.todo = {}
  BY DEF Justified, Types, Scan
<1>2. scan' \in Scan /\ scan'.pc = "walk" /\ scan'.err /\ scan'.todo = {}
  BY <1>1 DEF WalkFails
<1>3. Passed' /\ InHand'
  BY <1>2 DEF Passed, InHand
<1> QED
  BY <1>2, <1>3, ScanOnly DEF WalkFails, faults, Justified, Types

\* A walk that passes over an entry notes no error.
LEMMA SkipEntryKeeps ==
  ASSUME Justified, SkipEntry
  PROVE  Justified'
<1>1. PICK fs \in SUBSET (scan.todo \cap OnDisk) :
        skipped' = skipped \cup fs /\ scan' = [scan EXCEPT !.todo = @ \ fs]
  BY DEF SkipEntry
<1>2. scan \in Scan /\ scan.todo \in SUBSET Files /\ scan.pc = "walk" /\ skipped \subseteq Files
  BY DEF Justified, Types, Scan, SkipEntry
<1>3. \A new : new = [scan EXCEPT !.todo = @ \ fs] =>
        /\ new \in Scan /\ new.pc = scan.pc /\ new.err = scan.err
        /\ new.todo = scan.todo \ fs /\ new.seen = scan.seen
  BY <1>2 DEF Scan
<1>4. /\ scan' \in Scan /\ scan'.pc = "walk" /\ scan'.err = scan.err
      /\ scan'.todo = scan.todo \ fs /\ scan'.seen = scan.seen
  BY <1>1, <1>2, <1>3
<1>5. UNCHANGED <<disk, mounted, row, ret, lost, late, unread>>
  BY DEF SkipEntry
<1>6. Passed'
  BY <1>1, <1>2, <1>4, <1>5 DEF Justified, Passed
<1>7. InHand'
  BY <1>4 DEF InHand
<1>8. skipped \subseteq skipped' /\ skipped' \subseteq Files
  BY <1>1, <1>2
<1> QED
  BY <1>4, <1>5, <1>6, <1>7, <1>8, ScanOnly

\* The walk takes the next entry, passes over a name that is not there, or finds
\* the share gone.
LEMMA WalkNextKeeps ==
  ASSUME Justified, WalkNext
  PROVE  Justified'
<1> DEFINE next == CHOOSE f \in scan.todo : \A g \in scan.todo : f <= g
<1>1. scan \in Scan /\ scan.todo \in SUBSET Files /\ scan.todo # {} /\ scan.pc = "walk"
      /\ scan.seen \in SUBSET Files /\ scan.err \in BOOLEAN
  BY DEF Justified, Types, Scan, WalkNext
<1>2. next \in scan.todo
  BY <1>1, Least
<1>3. PICK f \in scan.todo :
        \/ ~ mounted /\ scan' = [scan EXCEPT !.todo = {}, !.err = scan.todo # Files]
        \/ disk[f].t <= 0 /\ scan' = [scan EXCEPT !.todo = @ \ {f}]
        \/ /\ disk[f].t > 0
           /\ scan' = [scan EXCEPT !.pc = "entry", !.todo = @ \ {f}, !.f = f,
                                   !.seen = @ \cup {f}, !.entry = disk[f], !.was = row[f]]
  <2>1. disk[next].t \in Int
    BY <1>1, <1>2 DEF Justified, Types, Entry
  <2>2. \/ ~ mounted /\ scan' = [scan EXCEPT !.todo = {}, !.err = scan.todo # Files]
        \/ disk[next].t <= 0 /\ scan' = [scan EXCEPT !.todo = @ \ {next}]
        \/ /\ ~ (disk[next].t <= 0)
           /\ scan' = [scan EXCEPT !.pc = "entry", !.todo = @ \ {next}, !.f = next,
                                   !.seen = @ \cup {next}, !.entry = disk[next], !.was = row[next]]
    BY DEF WalkNext
  <2> HIDE DEF next
  <2>3. ~ (disk[next].t <= 0) => disk[next].t > 0
    BY <2>1
  <2> QED BY <1>2, <2>2, <2>3, Zenon
<1>4. Passed
  BY DEF Justified
<1>5. CASE ~ mounted /\ scan' = [scan EXCEPT !.todo = {}, !.err = scan.todo # Files]
  <2>1. PICK err \in BOOLEAN : err = (scan.todo # Files)
    OBVIOUS
  <2>2. \A new : new = [scan EXCEPT !.todo = {}, !.err = err] =>
          new \in Scan /\ new.pc = scan.pc /\ new.err = err /\ new.todo = {}
          /\ new.seen = scan.seen
    BY <1>1 DEF Scan
  <2>3. scan' \in Scan /\ scan'.pc = "walk" /\ scan'.err = err /\ scan'.todo = {}
        /\ scan'.seen = scan.seen
    BY <1>1, <1>5, <2>1, <2>2
  <2>4. ~ err => scan.seen = {}
    BY <1>1, <1>4, <2>1 DEF Passed
  <2>5. Passed' /\ InHand'
    BY <2>3, <2>4 DEF Passed, InHand
  <2> QED BY <2>3, <2>5, ScanOnly DEF WalkNext, faults, Justified, Types
<1>6. CASE disk[f].t <= 0 /\ scan' = [scan EXCEPT !.todo = @ \ {f}]
  <2>1. \A new : new = [scan EXCEPT !.todo = @ \ {f}] =>
          /\ new \in Scan /\ new.pc = scan.pc /\ new.err = scan.err
          /\ new.todo = scan.todo \ {f} /\ new.seen = scan.seen
    BY <1>1 DEF Scan
  <2>2. /\ scan' \in Scan /\ scan'.pc = "walk" /\ scan'.err = scan.err
        /\ scan'.todo = scan.todo \ {f} /\ scan'.seen = scan.seen
    BY <1>1, <1>6, <2>1
  <2>3. f \in lost \cup skipped \/ row[f].state = "none"
    <3>1. f \in Files /\ disk[f].t \in Int /\ RowIsReal(f) /\ LostIsReal(f)
      BY <1>1 DEF Justified, Types, Entry
    <3> QED BY <1>6, <3>1 DEF RowIsReal, LostIsReal
  <2>4. Passed'
    BY <1>1, <1>4, <2>2, <2>3 DEF Passed, WalkNext, faults
  <2>5. InHand'
    BY <2>2 DEF InHand
  <2> QED BY <2>2, <2>4, <2>5, ScanOnly DEF WalkNext, faults, Justified, Types
<1>7. CASE /\ disk[f].t > 0
           /\ scan' = [scan EXCEPT !.pc = "entry", !.todo = @ \ {f}, !.f = f,
                                   !.seen = @ \cup {f}, !.entry = disk[f], !.was = row[f]]
  <2>1. disk[f] \in Entry /\ row[f] \in Recording /\ f \in Files
    BY <1>1 DEF Justified, Types
  <2>2. PICK t \in SUBSET Files, s \in SUBSET Files, g \in Files \cup {0},
             e \in Entry \cup {0}, r \in Recording :
          /\ t = scan.todo \ {f} /\ s = scan.seen \cup {f} /\ g = f
          /\ e = disk[f] /\ r = row[f]
    BY <1>1, <2>1
  <2>6. scan' = [scan EXCEPT !.pc = "entry", !.todo = t, !.f = g, !.seen = s, !.entry = e,
                             !.was = r]
    BY <1>7, <2>2
  <2>3. /\ scan' \in Scan /\ scan'.pc = "entry" /\ scan'.err = scan.err
        /\ scan'.todo = scan.todo \ {f} /\ scan'.seen = scan.seen \cup {f}
        /\ scan'.f = f /\ scan'.entry = disk[f] /\ scan'.was = row[f]
    <3>2. \A new :
            new = [scan EXCEPT !.pc = "entry", !.todo = t, !.f = g, !.seen = s, !.entry = e,
                               !.was = r] =>
              /\ new \in Scan /\ new.pc = "entry" /\ new.err = scan.err
              /\ new.todo = t /\ new.seen = s /\ new.f = g /\ new.entry = e /\ new.was = r
      BY <1>1 DEF Scan
    <3>3. /\ scan' \in Scan /\ scan'.pc = "entry" /\ scan'.err = scan.err
          /\ scan'.todo = t /\ scan'.seen = s /\ scan'.f = g /\ scan'.entry = e
          /\ scan'.was = r
      BY <2>6, <3>2
    <3> QED BY <2>2, <3>3
  <2>4. Passed'
    BY <1>1, <1>4, <2>3 DEF Passed, WalkNext, faults
  <2>5. InHand'
    <3>1. row[f].state = "none" => row[f] = NoRow
      BY <2>1 DEF Justified, RowIsReal
    <3>2. disk' = disk /\ row' = row
      BY DEF WalkNext
    <3>3. f \in scan'.seen /\ disk[f].t \in Int
      BY <2>1, <2>3 DEF Entry
    <3>4. disk[f].t >= disk[f].t
      BY <3>3
    <3> QED BY <1>7, <2>1, <2>3, <3>1, <3>2, <3>3, <3>4 DEF InHand
  <2> QED BY <2>3, <2>4, <2>5, ScanOnly DEF WalkNext, faults, Justified, Types
<1> QED
  BY <1>3, <1>5, <1>6, <1>7

-----------------------------------------------------------------------------
(* The rows.                                                               *)

\* What everybody but the scan leaves alone in a row, and what it may do.
Worked(f, new, old) ==
  /\ new.fp = old.fp /\ new.fpt = old.fpt /\ new.stat = old.stat
  /\ old.state = "none" => new = old
  /\ old.state # "none" => new.state # "none"
  /\ new.state \in QUEUEABLE_STATES => new.state = old.state
  /\ new.missing /\ ~ old.missing => f \in lost \cup skipped

\* Rows that are worked on tell the scan and the index nothing new.
LEMMA RowsWorked ==
  ASSUME Justified, UNCHANGED <<disk, lost, skipped, unread>>,
         \A f \in Files : Worked(f, row'[f], row[f])
  PROVE  /\ (\A f \in Files : RowIsReal(f) /\ LostIsReal(f))'
         /\ UNCHANGED scan => Passed' /\ InHand'
<1>1. ASSUME NEW f \in Files
      PROVE  RowIsReal(f)' /\ LostIsReal(f)'
  <2>1. RowIsReal(f) /\ LostIsReal(f) /\ Worked(f, row'[f], row[f])
    BY DEF Justified
  <2>2. (row'[f].fp = 0 <=> row'[f].fpt = 0) /\ (f \in unread \/ Fingerprinted(row'[f]))
    BY <2>1 DEF RowIsReal, Fingerprinted, Worked
  <2>3. row'[f].state = "none" => row'[f] = NoRow
    BY <2>1 DEF RowIsReal, Worked
  <2> QED BY <2>1, <2>2, <2>3 DEF RowIsReal, LostIsReal, Worked
<1>2. ASSUME UNCHANGED scan
      PROVE  Passed'
  <2>1. \A f \in Files : row[f].state = "none" => row'[f].state = "none"
    BY DEF Worked
  <2>2. Passed /\ scan.todo = scan'.todo
    BY <1>2 DEF Justified
  <2> QED BY <1>2, <2>1, <2>2 DEF Passed
<1>3. ASSUME UNCHANGED scan
      PROVE  InHand'
  <2>1. SUFFICES ASSUME scan.pc = "entry" PROVE InHand'
    BY <1>3 DEF InHand
  <2>2. InHand /\ scan.f \in Files /\ Worked(scan.f, row'[scan.f], row[scan.f])
    BY <2>1 DEF Justified, InHand
  <2> QED BY <1>3, <2>1, <2>2 DEF InHand, Worked
<1> QED
  BY <1>1, <1>2, <1>3

\* Retention's file stays free, or somebody came after it looked.
LEMMA DoomedKept ==
  ASSUME Justified, UNCHANGED ret,
         \A f \in Files : \/ row'[f].job = row[f].job /\ row'[f].protected = row[f].protected
                          \/ row[f].job # "none"
                          \/ ret.pc = "unlink" => f # Head(ret.cands) \/ f \in late',
         late \subseteq late'
  PROVE  Doomed'
<1>1. SUFFICES ASSUME ret.pc = "unlink" PROVE Doomed'
  BY DEF Doomed
<1>2. Doomed /\ ret.cands # <<>> /\ Head(ret.cands) \in Files
  BY <1>1 DEF Justified, Doomed, Types, Retention
<1> QED
  BY <1>1, <1>2 DEF Doomed

\* A row that was made stays.
LEMMA KnownKept ==
  ASSUME Justified, UNCHANGED ret,
         \A f \in Files : row[f].state # "none" => row'[f].state # "none"
  PROVE  Known'
BY DEF Justified, Known

\* What is measured depends on the plan and the share.
LEMMA MeasuredKept ==
  ASSUME Justified, UNCHANGED <<disk, ret, lost>>
  PROVE  Measured'
BY DEF Justified, Measured, OnDisk

\* A request or the queue is noticed if it concerns the file in hand.
LEMMA TouchNoticed ==
  ASSUME Justified, NEW fs \in SUBSET Files, Touched(fs)
  PROVE  /\ late' \subseteq Files /\ late \subseteq late'
         /\ \A f \in fs : ret.pc = "unlink" => f # Head(ret.cands) \/ f \in late'
BY DEF Touched, Justified, Types

\* A worker takes a recording or is done with it; a request protects one.
LEMMA WorkKeeps ==
  ASSUME Justified, NEW f \in Files, Work(f) \/ Protect(f)
  PROVE  Justified'
<1>1. UNCHANGED <<disk, mounted, scan, ret, lost, skipped, unread>>
  BY DEF Work, Claim, Finish, Protect, faults
<1>2. row[f] \in Recording /\ row \in [Files -> Recording] /\ disk[f].c \in Nat
  BY DEF Justified, Types, Entry
<1>3. PICK new \in Recording :
        /\ row' = [row EXCEPT ![f] = new]
        /\ Worked(f, new, row[f])
        /\ \/ Touched({f})
           \/ late' = late /\ row[f].job # "none"
  <2>1. row[f].job # "none" => row[f].state # "none"
    BY DEF Justified, RowIsReal, NoRow
  <2>2. CASE Claim(f)
    <3> DEFINE new == [row[f] EXCEPT !.job = "running", !.state = "processing", !.read = disk[f].c]
    <3>1. /\ new \in Recording /\ new.fp = row[f].fp /\ new.fpt = row[f].fpt
          /\ new.stat = row[f].stat /\ new.missing = row[f].missing
          /\ new.state = "processing"
      BY <1>2 DEF Recording, States, Jobs
    <3>2. row' = [row EXCEPT ![f] = new] /\ late' = late /\ row[f].job # "none"
      BY <1>2, <2>2 DEF Claim
    <3> HIDE DEF new
    <3>3. Worked(f, new, row[f])
      BY <2>1, <3>1, <3>2 DEF Worked, QUEUEABLE_STATES
    <3> QED BY <3>1, <3>2, <3>3
  <2>3. CASE Finish(f)
    <3>1. PICK job \in Jobs, state \in {"queued", "completed", "failed"} :
            row' = [row EXCEPT ![f] = [row[f] EXCEPT !.job = job, !.state = state]]
      <4> DEFINE job == IF mounted THEN "none" ELSE "queued"
                 state == IF ~mounted THEN "queued"
                          ELSE IF disk[f].t > 0 THEN "completed" ELSE "failed"
      <4>1. job \in Jobs /\ state \in {"queued", "completed", "failed"}
        BY DEF Jobs
      <4>2. row' = [row EXCEPT ![f] = [row[f] EXCEPT !.job = job, !.state = state]]
        BY <1>2, <2>3 DEF Finish
      <4> HIDE DEF job, state
      <4> QED BY <4>1, <4>2
    <3> DEFINE new == [row[f] EXCEPT !.job = job, !.state = state]
    <3>2. state \in States
      BY DEF States
    <3>3. /\ new \in Recording /\ new.fp = row[f].fp /\ new.fpt = row[f].fpt
          /\ new.stat = row[f].stat /\ new.missing = row[f].missing
          /\ new.state = state
      BY <1>2, <3>2 DEF Recording
    <3>4. row[f].job # "none" /\ Touched({f})
      BY <2>3 DEF Finish
    <3> HIDE DEF new
    <3>5. Worked(f, new, row[f])
      BY <2>1, <3>3, <3>4 DEF Worked, QUEUEABLE_STATES
    <3> QED BY <3>1, <3>3, <3>4, <3>5 DEF new
  <2>4. CASE Protect(f)
    <3> DEFINE new == [row[f] EXCEPT !.protected = TRUE]
    <3>1. /\ new \in Recording /\ new.fp = row[f].fp /\ new.fpt = row[f].fpt
          /\ new.stat = row[f].stat /\ new.missing = row[f].missing
          /\ new.state = row[f].state
      BY <1>2 DEF Recording
    <3>2. row' = [row EXCEPT ![f] = new] /\ Touched({f}) /\ row[f].state # "none"
      BY <1>2, <2>4 DEF Protect
    <3> HIDE DEF new
    <3>3. Worked(f, new, row[f])
      BY <3>1, <3>2 DEF Worked
    <3> QED BY <3>1, <3>2, <3>3
  <2> QED BY <2>2, <2>3, <2>4 DEF Work
<1>4. /\ row' \in [Files -> Recording] /\ row'[f] = new
      /\ \A g \in Files : g # f => row'[g] = row[g]
  BY <1>2, <1>3
<1>5. \A g \in Files : Worked(g, row'[g], row[g])
  BY <1>3, <1>4 DEF Worked
<1>6. /\ late' \subseteq Files /\ late \subseteq late'
      /\ \/ row[f].job # "none"
         \/ ret.pc = "unlink" => f # Head(ret.cands) \/ f \in late'
  BY <1>3, TouchNoticed DEF Justified, Types
<1>7. Types'
  BY <1>1, <1>4, <1>6 DEF Justified, Types
<1>8. (\A g \in Files : RowIsReal(g) /\ LostIsReal(g))' /\ Passed' /\ InHand'
  BY <1>1, <1>5, RowsWorked
<1>9. Doomed'
  BY <1>1, <1>4, <1>6, DoomedKept
<1>10. Measured'
  BY <1>1, MeasuredKept
<1>11. Known'
  BY <1>1, <1>5, KnownKept DEF Worked
<1> QED
  BY <1>7, <1>8, <1>9, <1>10, <1>11 DEF Justified

\* The scan writes what it decided about the entry in hand.
LEMMA ReconcileKeeps ==
  ASSUME Justified, Reconcile
  PROVE  Justified' /\ \A g \in Files : row'[g].job = row[g].job
<1> DEFINE f == scan.f  was == scan.was  e == scan.entry  now == disk[f]
<1>1. scan.pc = "entry" /\ UNCHANGED <<disk, mounted, ret, lost, late>>
  BY DEF Reconcile
<1>2. /\ f \in Files /\ f \in scan.seen /\ e \in Entry /\ e.t > 0
      /\ now.t = e.t => now.c = e.c
      /\ was.fp = row[f].fp /\ was.fpt = row[f].fpt /\ was.stat = row[f].stat
      /\ was.state = "none" <=> row[f].state = "none"
      /\ was.state = "none" => was = NoRow
      /\ row[f].state \in QUEUEABLE_STATES => was.state = row[f].state
      /\ disk[f].t >= e.t \/ disk[f].t <= - e.t
  BY <1>1 DEF Justified, InHand
<1>3. /\ was \in Recording /\ row \in [Files -> Recording] /\ row[f] \in Recording
      /\ now \in Entry /\ scan \in Scan
  BY <1>2 DEF Justified, Types, Scan
<1>4. RowIsReal(f)
  BY <1>2 DEF Justified
<1>5. SameBytes(e, now)
  BY <1>2, <1>3 DEF SameBytes
<1>6. was.fp = 0 <=> was.fpt = 0
  BY <1>2, <1>4 DEF RowIsReal
<1>a. PICK fails \in BOOLEAN :
        /\ row' = IF fails /\ was.state = "none" THEN row
                  ELSE [row EXCEPT ![f] = Merged(f, was, Decided(was, e, now, fails))]
        /\ unread' = IF fails THEN unread \cup {f} ELSE unread \ {f}
        /\ scan' = [scan EXCEPT !.pc = "walk", !.err = scan.err \/ fails]
  BY DEF Reconcile
<1>b. skipped' = IF row'[f].missing THEN skipped ELSE skipped \ {f}
  BY DEF Reconcile
<1> DEFINE new == Decided(was, e, now, fails)
\* What the scan decided; on bytes it could not read, without a fingerprint of them.
<1>7. ~ (fails /\ was.state = "none") =>
        /\ new \in Recording /\ new.state # "none" /\ ~ new.missing
        /\ new.fp = 0 <=> new.fpt = 0
        /\ fails \/ Fingerprinted(new)
        /\ new.job = was.job /\ new.protected = was.protected
  <2> DEFINE a == NewRow(e, now)  b == Reconciled(was, e, now)  c == Unstranded(Returned(was, e))
  <2>1. CASE was.state = "none" /\ ~ fails
    <3>1. /\ a \in Recording /\ Fingerprinted(a) /\ a.state # "none" /\ ~ a.missing
          /\ a.job = NoRow.job /\ a.protected = NoRow.protected
      BY <1>5, NewRowDecided
    <3>2. new = a
      BY <2>1 DEF Decided
    <3>3. was.job = NoRow.job /\ was.protected = NoRow.protected
      BY <1>2, <2>1
    <3> HIDE DEF a, new, f, was, e
    <3> QED BY <3>1, <3>2, <3>3 DEF Fingerprinted
  <2>2. CASE was.state # "none" /\ ~ fails
    <3>1. /\ b \in Recording /\ Fingerprinted(b) /\ b.state # "none" /\ ~ b.missing
          /\ b.job = was.job /\ b.protected = was.protected
      BY <1>3, <1>5, <1>6, <2>2, ReconciledDecided
    <3>2. new = b
      BY <2>2 DEF Decided
    <3> HIDE DEF b, new, f, was, e
    <3> QED BY <3>1, <3>2 DEF Fingerprinted
  <2>3. CASE was.state # "none" /\ fails
    <3> DEFINE back == Returned(was, e)
    <3>1. /\ back \in Recording /\ back.fp = was.fp /\ back.fpt = was.fpt /\ ~ back.missing
          /\ back.state # "none" /\ back.job = was.job /\ back.protected = was.protected
      BY <1>2, <1>3, <2>3, ReturnedRow
    <3>2. new = c
      BY <2>3 DEF Decided
    <3> HIDE DEF back
    <3>3. back.fp = 0 <=> back.fpt = 0
      BY <1>6, <3>1
    <3>4. /\ Unstranded(back) \in Recording /\ Unstranded(back).state # "none"
          /\ Unstranded(back).fp = back.fp /\ Unstranded(back).fpt = back.fpt
          /\ Unstranded(back).missing = back.missing
          /\ Unstranded(back).job = back.job /\ Unstranded(back).protected = back.protected
      BY <3>1, <3>3, UnstrandedRow
    <3>5. c = Unstranded(back)
      BY DEF back
    <3> HIDE DEF c, new, f, was, e
    <3> QED BY <2>3, <3>1, <3>2, <3>3, <3>4, <3>5
  <2> QED BY <2>1, <2>2, <2>3
<1>9. \/ row' = row /\ fails
      \/ /\ ~ (fails /\ was.state = "none")
         /\ row' = [row EXCEPT ![f] = Merged(f, was, new)]
  BY <1>a
<1>10. PICK err \in BOOLEAN :
         err = (scan.err \/ fails) /\ scan' = [scan EXCEPT !.pc = "walk", !.err = err]
  BY <1>a
<1>11. scan.err => err
  BY <1>10
<1> HIDE DEF new
<1>12. /\ scan' \in Scan /\ scan'.pc = "walk" /\ scan'.err = err
       /\ scan'.todo = scan.todo /\ scan'.seen = scan.seen
  <2>1. \A n : n = [scan EXCEPT !.pc = "walk", !.err = err] =>
          n \in Scan /\ n.pc = "walk" /\ n.err = err /\ n.todo = scan.todo /\ n.seen = scan.seen
    BY <1>3 DEF Scan
  <2> QED BY <1>10, <2>1
<1> HIDE DEF f, was, e, now
\* The row that is written.
<1>13. /\ row' \in [Files -> Recording]
       /\ \A g \in Files : g # f => row'[g] = row[g]
       /\ row'[f].job = row[f].job /\ row'[f].protected = row[f].protected
       /\ row'[f] = row[f] \/ row'[f].state # "none"
       /\ row'[f].fp = 0 <=> row'[f].fpt = 0
       /\ fails \/ Fingerprinted(row'[f])
       /\ row'[f].missing => row[f].missing
  <2>1. CASE row' = row /\ fails
    BY <1>2, <1>3, <1>4, <2>1 DEF RowIsReal
  <2>2. CASE /\ ~ (fails /\ was.state = "none")
             /\ row' = [row EXCEPT ![f] = Merged(f, was, new)]
    <3> DEFINE merged == Merged(f, was, new)
    <3>0. /\ new \in Recording /\ new.state # "none" /\ ~ new.missing
          /\ new.fp = 0 <=> new.fpt = 0
          /\ fails \/ Fingerprinted(new)
          /\ new.job = was.job /\ new.protected = was.protected
      BY <1>7, <2>2
    <3>1. /\ merged \in Recording
          /\ merged.fp = (IF new.fp # was.fp THEN new.fp ELSE row[f].fp)
          /\ merged.fpt = (IF new.fpt # was.fpt THEN new.fpt ELSE row[f].fpt)
          /\ merged.stat = (IF new.stat # was.stat THEN new.stat ELSE row[f].stat)
          /\ merged.state = (IF new.state # was.state THEN new.state ELSE row[f].state)
          /\ merged.missing = (IF new.missing # was.missing THEN new.missing ELSE row[f].missing)
          /\ merged.job = (IF new.job # was.job THEN new.job ELSE row[f].job)
          /\ merged.protected =
               (IF new.protected # was.protected THEN new.protected ELSE row[f].protected)
      BY <1>2, <1>3, <3>0, MergedRow DEF Justified
    <3> HIDE DEF merged
    <3>2. row' \in [Files -> Recording] /\ row'[f] = merged
          /\ \A g \in Files : g # f => row'[g] = row[g]
      BY <1>2, <1>3, <2>2, <3>1 DEF merged
    <3>3. merged.missing => row[f].missing
      BY <3>0, <3>1
    <3>4. merged.state # "none"
      BY <1>2, <3>0, <3>1
    <3>5. merged.fp = new.fp /\ merged.fpt = new.fpt /\ merged.stat = new.stat
      BY <1>2, <3>1
    <3>6. merged.state \in QUEUEABLE_STATES => new.state = merged.state
      BY <1>2, <3>1
    <3>7. (merged.fp = 0 <=> merged.fpt = 0) /\ (fails \/ Fingerprinted(merged))
      BY <3>0, <3>5, <3>6 DEF Fingerprinted
    <3> QED BY <3>0, <3>1, <3>2, <3>3, <3>4, <3>7
  <2> QED BY <1>9, <2>1, <2>2
<1>14. Types'
  BY <1>1, <1>2, <1>a, <1>b, <1>12, <1>13 DEF Justified, Types
<1>15. ASSUME NEW g \in Files
       PROVE  RowIsReal(g)' /\ LostIsReal(g)'
  <2>1. RowIsReal(g) /\ LostIsReal(g)
    BY DEF Justified
  <2>2. CASE g # f
    <3>1. (g \in unread' <=> g \in unread) /\ (g \in skipped' <=> g \in skipped)
      BY <1>a, <1>b, <2>2
    <3> QED BY <1>1, <1>13, <2>1, <2>2, <3>1 DEF RowIsReal, LostIsReal, Fingerprinted
  <2>3. CASE g = f
    <3>1. disk[f].t # 0
      BY <1>2, <1>3 DEF Entry, now
    <3>2. fails => f \in unread'
      BY <1>a
    <3>3. row'[f].missing => f \in lost \cup skipped'
      BY <1>b, <1>13, <2>1, <2>3 DEF RowIsReal
    <3>4. row'[f].state = "none" => row'[f] = NoRow
      BY <1>13, <2>1, <2>3 DEF RowIsReal
    <3> QED BY <1>1, <1>13, <2>1, <2>3, <3>1, <3>2, <3>3, <3>4 DEF RowIsReal, LostIsReal
  <2> QED BY <2>2, <2>3
<1>16. Passed'
  <2>1. Passed /\ f \in scan'.seen
    BY <1>2, <1>12 DEF Justified
  <2>2. skipped \ {f} \subseteq skipped'
    BY <1>b
  <2> QED BY <1>1, <1>11, <1>12, <1>13, <2>1, <2>2 DEF Passed
<1>17. InHand'
  BY <1>12 DEF InHand
<1>18. Doomed'
  <2>1. \A g \in Files : row'[g].job = row[g].job /\ row'[g].protected = row[g].protected
    BY <1>13
  <2> QED BY <1>1, <2>1, DoomedKept
<1>19. Measured'
  BY <1>1, MeasuredKept
<1>20. Known'
  <2>1. \A g \in Files : row[g].state # "none" => row'[g].state # "none"
    BY <1>13
  <2> QED BY <1>1, <2>1, KnownKept
<1>21. \A g \in Files : row'[g].job = row[g].job
  BY <1>13
<1> QED
  BY <1>14, <1>15, <1>16, <1>17, <1>18, <1>19, <1>20, <1>21 DEF Justified

\* What was indexed and not seen is missing: only after a walk without an error
\* that saw at least half of the index.
LEMMA MarkMissingKeeps ==
  ASSUME Justified, _mark_missing
  PROVE  Justified'
<1>1. /\ UNCHANGED <<disk, mounted, ret, lost, late, skipped, unread>>
      /\ scan.pc = "walk" /\ scan.todo = {} /\ scan' = [scan EXCEPT !.pc = "queue"]
  BY DEF _mark_missing, faults
<1>2. scan \in Scan /\ row \in [Files -> Recording]
  BY DEF Justified, Types
<1>3. scan' \in Scan /\ scan'.pc = "queue"
  <2>1. \A n : n = [scan EXCEPT !.pc = "queue"] => n \in Scan /\ n.pc = "queue"
    BY <1>2 DEF Scan
  <2> QED BY <1>1, <2>1
<1>4. \A f \in Unseen : ~ _reconciliation_blocked => f \in lost \cup skipped
  <2>1. SUFFICES ASSUME ~ _reconciliation_blocked, NEW f \in Unseen
                 PROVE  f \in lost \cup skipped
    OBVIOUS
  <2>2. f \in Indexed /\ f \in Files /\ f \notin scan.seen /\ row[f].state # "none"
    BY DEF Unseen, Indexed
  <2>3. scan.seen # {}
    <3>1. SUFFICES ASSUME scan.seen = {} PROVE FALSE
      OBVIOUS
    <3>2. Cardinality(scan.seen) = 0
      BY <3>1, FS_EmptySet
    <3>3. Indexed \in SUBSET Files /\ Indexed # {}
      BY <2>2 DEF Indexed
    <3>4. Cardinality(Indexed) \in Nat /\ Cardinality(Indexed) # 0
      BY <3>3, FilesFinite, FS_EmptySet
    <3> QED BY <2>1, <3>2, <3>3, <3>4 DEF _reconciliation_blocked
  <2>4. ~ scan.err /\ Passed
    BY <2>1 DEF _reconciliation_blocked, Justified
  <2> QED BY <1>1, <2>2, <2>3, <2>4 DEF Passed
<1>5. ASSUME NEW r \in Recording
      PROVE  \A n : n = [r EXCEPT !.missing = TRUE] =>
               /\ n \in Recording /\ n.fp = r.fp /\ n.fpt = r.fpt /\ n.stat = r.stat
               /\ n.state = r.state /\ n.job = r.job /\ n.protected = r.protected
  BY DEF Recording
<1>6. ASSUME NEW f \in Files
      PROVE  /\ row'[f] \in Recording /\ Worked(f, row'[f], row[f])
             /\ row'[f].job = row[f].job /\ row'[f].protected = row[f].protected
  <2>1. row[f] \in Recording
    BY <1>2
  <2>2. CASE row'[f] = row[f]
    BY <2>1, <2>2 DEF Worked
  <2>3. CASE /\ row'[f] = [row[f] EXCEPT !.missing = TRUE]
             /\ f \in Unseen /\ ~ _reconciliation_blocked
    <3>1. /\ row'[f] \in Recording /\ row'[f].fp = row[f].fp /\ row'[f].fpt = row[f].fpt
          /\ row'[f].stat = row[f].stat /\ row'[f].state = row[f].state
          /\ row'[f].job = row[f].job /\ row'[f].protected = row[f].protected
      BY <1>5, <2>1, <2>3
    <3>2. f \in lost \cup skipped /\ row[f].state # "none"
      BY <1>4, <2>3 DEF Unseen, Indexed
    <3> QED BY <3>1, <3>2 DEF Worked
  <2>4. \/ row'[f] = row[f]
        \/ /\ row'[f] = [row[f] EXCEPT !.missing = TRUE]
           /\ f \in Unseen /\ ~ _reconciliation_blocked
    BY DEF _mark_missing
  <2> QED BY <2>2, <2>3, <2>4
<1>7. row' \in [Files -> Recording]
  <2>1. row' = [f \in Files |-> row'[f]]
    <3>1. CASE _reconciliation_blocked
      BY <1>2, <3>1 DEF _mark_missing
    <3>2. CASE ~ _reconciliation_blocked
      BY <3>2 DEF _mark_missing
    <3> QED BY <3>1, <3>2
  <2> QED BY <1>6, <2>1
<1>8. Types'
  BY <1>1, <1>3, <1>7 DEF Justified, Types
<1>9. (\A f \in Files : RowIsReal(f) /\ LostIsReal(f))'
  BY <1>1, <1>6, RowsWorked
<1>10. Passed' /\ InHand'
  BY <1>3 DEF Passed, InHand
<1>11. Doomed'
  BY <1>1, <1>6, DoomedKept
<1>12. Measured'
  BY <1>1, MeasuredKept
<1>13. Known'
  BY <1>1, <1>6, KnownKept DEF Worked
<1> QED
  BY <1>8, <1>9, <1>10, <1>11, <1>12, <1>13 DEF Justified

\* The queue takes what is settled and not yet claimed.
LEMMA QueueKeeps ==
  ASSUME Justified, queue_unprocessed
  PROVE  Justified'
<1> DEFINE taken == {f \in Files : Queueable(f)}
<1>1. /\ UNCHANGED <<disk, mounted, ret, lost, skipped, unread>>
      /\ scan' = NoScan /\ Touched(taken)
      /\ row' = [f \in Files |-> IF Queueable(f)
                                 THEN [row[f] EXCEPT !.job = "queued", !.state = "queued"]
                                 ELSE row[f]]
  BY DEF queue_unprocessed, faults
<1>2. scan' \in Scan /\ scan'.pc = "off"
  BY <1>1, NoScanTyped
<1>3. ASSUME NEW r \in Recording
      PROVE  \A n : n = [r EXCEPT !.job = "queued", !.state = "queued"] =>
               /\ n \in Recording /\ n.fp = r.fp /\ n.fpt = r.fpt /\ n.stat = r.stat
               /\ n.state = "queued" /\ n.missing = r.missing
  BY DEF Recording, Jobs, States
<1>4. ASSUME NEW f \in Files
      PROVE  row'[f] \in Recording /\ Worked(f, row'[f], row[f])
  <2>1. row[f] \in Recording
    BY DEF Justified, Types
  <2>2. CASE ~ Queueable(f)
    BY <1>1, <2>1, <2>2 DEF Worked
  <2>3. CASE Queueable(f)
    <3>1. row'[f] = [row[f] EXCEPT !.job = "queued", !.state = "queued"]
      BY <1>1, <2>3
    <3>2. /\ row'[f] \in Recording /\ row'[f].fp = row[f].fp /\ row'[f].fpt = row[f].fpt
          /\ row'[f].stat = row[f].stat /\ row'[f].state = "queued"
          /\ row'[f].missing = row[f].missing
      BY <1>3, <2>1, <3>1
    <3>3. row[f].state # "none"
      BY <2>3 DEF Queueable, QUEUEABLE_STATES
    <3> QED BY <3>2, <3>3 DEF Worked, QUEUEABLE_STATES
  <2> QED BY <2>2, <2>3
<1>5. row' \in [Files -> Recording]
  <2>1. row' = [f \in Files |-> row'[f]]
    BY <1>1
  <2> QED BY <1>4, <2>1
<1>6. /\ late' \subseteq Files /\ late \subseteq late'
      /\ \A f \in taken : ret.pc = "unlink" => f # Head(ret.cands) \/ f \in late'
  <2>1. taken \in SUBSET Files
    OBVIOUS
  <2> HIDE DEF taken
  <2> QED BY <1>1, <2>1, TouchNoticed
<1>7. Types'
  BY <1>1, <1>2, <1>5, <1>6 DEF Justified, Types
<1>8. (\A f \in Files : RowIsReal(f) /\ LostIsReal(f))'
  BY <1>1, <1>4, RowsWorked
<1>9. Passed' /\ InHand'
  BY <1>2 DEF Passed, InHand
<1>10. Doomed'
  <2>1. \A f \in Files : f \notin taken => row'[f] = row[f]
    BY <1>1
  <2> HIDE DEF taken
  <2> QED BY <1>1, <1>6, <2>1, DoomedKept
<1>11. Measured'
  BY <1>1, MeasuredKept
<1>12. Known'
  BY <1>1, <1>4, KnownKept DEF Worked
<1> QED
  BY <1>7, <1>8, <1>9, <1>10, <1>11, <1>12 DEF Justified

-----------------------------------------------------------------------------
(* Retention.                                                              *)

\* No retention.
LEMMA NoRetTyped == NoRet \in Retention /\ NoRet.pc = "off" /\ NoRet.gone = {} /\ NoRet.cands = <<>>
BY DEF NoRet, Retention

\* The list without its first file.
LEMMA Shorter ==
  ASSUME NEW S, NEW s \in Seq(S), s # <<>>
  PROVE  /\ Head(s) \in S /\ Tail(s) \in Seq(S) /\ Len(Tail(s)) = Len(s) - 1
         /\ Len(s) # 1 => Tail(s) # <<>>
<1>1. Len(s) \in Nat /\ Len(s) # 0
  OBVIOUS
<1>2. Head(s) \in S /\ Tail(s) \in Seq(S) /\ Len(Tail(s)) = Len(s) - 1
  OBVIOUS
<1>3. Len(<<>>) = 0
  OBVIOUS
<1> QED
  BY <1>1, <1>2, <1>3

\* What a step of retention that leaves files and rows alone has to show.
LEMMA RetOnly ==
  ASSUME Justified, UNCHANGED <<disk, mounted, row, scan, lost, late, skipped, unread>>,
         ret' \in Retention, Doomed', Measured', Known'
  PROVE  Justified'
<1>1. Types'
  BY DEF Justified, Types
<1>2. (\A f \in Files : RowIsReal(f) /\ LostIsReal(f))' /\ Passed' /\ InHand'
  BY DEF Justified, RowIsReal, Fingerprinted, LostIsReal, Passed, InHand
<1> QED
  BY <1>1, <1>2 DEF Justified

\* A cleanup begins with its evaluation.
LEMMA RunKeeps ==
  ASSUME Justified, _run_retention
  PROVE  Justified'
<1>1. PICK safe \in BOOLEAN, left \in Seq({"oldest", "idle", "parked"}) :
        left # <<>> /\ ret' = [NoRet EXCEPT !.pc = "plan", !.left = left, !.safe = safe]
  <2>1. evaluate_safety \in BOOLEAN /\ <<"oldest", "idle", "parked">> # <<>>
        /\ <<"oldest", "idle", "parked">> \in Seq({"oldest", "idle", "parked"})
    BY DEF evaluate_safety
  <2>2. ret' = [NoRet EXCEPT !.pc = "plan", !.left = <<"oldest", "idle", "parked">>,
                             !.safe = evaluate_safety]
    BY DEF _run_retention
  <2> QED BY <2>1, <2>2, Zenon
<1>2. \A old \in Retention : \A n : n = [old EXCEPT !.pc = "plan", !.left = left, !.safe = safe] =>
        n \in Retention /\ n.pc = "plan" /\ n.gone = old.gone /\ n.left = left
        /\ n.cands = old.cands
  BY DEF Retention
<1>3. ret' \in Retention /\ ret'.pc = "plan" /\ ret'.gone = {} /\ ret'.left # <<>>
      /\ ret'.cands = <<>>
  BY <1>1, <1>2, NoRetTyped
<1>4. Doomed' /\ Measured' /\ Known'
  BY <1>3 DEF Doomed, Measured, Known
<1> QED
  BY <1>3, <1>4, RetOnly DEF _run_retention, faults

\* A plan is within both limits, or it is empty.
LEMMA PlanKeeps ==
  ASSUME Justified, Plan
  PROVE  Justified'
<1> DEFINE kind == Head(ret.left)
           cands == IF ret.safe /\ ~ TooMuch(Planned(kind)) THEN Planned(kind) ELSE <<>>
<1>1. ret.pc = "plan" /\ ret \in Retention
      /\ ret' = [ret EXCEPT !.pc = "check", !.gone = {}, !.indexed = Cardinality(Indexed),
                            !.cands = cands]
  BY DEF Plan, Justified, Types
<1>2. /\ Planned(kind) \in Seq(Files)
      /\ \A i \in DOMAIN Planned(kind) : row[Planned(kind)[i]].state # "none"
      /\ kind = "oldest" /\ Planned(kind) # <<>> => Len(Planned(kind)) <= ToFree
  BY PlansAreFiles DEF Justified
<1>3. cands \in Seq(Files) /\ \A i \in DOMAIN cands : row[cands[i]].state # "none"
  BY <1>2
<1>4. Cardinality(Indexed) \in Nat /\ Cardinality(OnDisk) \in Nat
  BY FilesFinite DEF Indexed, OnDisk
<1>5. Len(cands) * 100 <= Cardinality(Indexed) * MaxPercent
  <2>1. MaxPercent \in Nat /\ Cardinality(Indexed) * MaxPercent \in Nat
    BY <1>4, NumbersAssumption
  <2>2. CASE cands = <<>>
    BY <2>1, <2>2
  <2>3. CASE cands # <<>>
    <3>1. ~ TooMuch(cands) /\ Len(cands) \in Nat
      BY <1>3, <2>3
    <3> HIDE DEF cands
    <3> QED BY <2>1, <3>1 DEF TooMuch
  <2> QED BY <2>2, <2>3
<1>6. kind = "oldest" /\ cands # <<>> => Cardinality(OnDisk) - Len(cands) >= Limit
  <2>1. SUFFICES ASSUME kind = "oldest", cands # <<>>
                 PROVE  Cardinality(OnDisk) - Len(cands) >= Limit
    OBVIOUS
  <2>2. Len(cands) <= ToFree /\ Len(cands) \in Nat
    BY <1>2, <1>3, <2>1
  <2> HIDE DEF cands
  <2> QED BY <1>4, <2>2, NumbersAssumption DEF ToFree
<1> HIDE DEF cands
<1>7. PICK indexed \in Nat : indexed = Cardinality(Indexed)
  BY <1>4
<1>8. \A n : n = [ret EXCEPT !.pc = "check", !.gone = {}, !.indexed = indexed, !.cands = cands] =>
        /\ n \in Retention /\ n.pc = "check" /\ n.gone = {} /\ n.indexed = indexed
        /\ n.cands = cands /\ n.left = ret.left
  BY <1>1, <1>3 DEF Retention
<1>9. /\ ret' \in Retention /\ ret'.pc = "check" /\ ret'.gone = {} /\ ret'.indexed = indexed
      /\ ret'.cands = cands /\ ret'.left = ret.left
  BY <1>1, <1>7, <1>8
<1>10. Doomed'
  BY <1>9 DEF Doomed
<1>11. Measured'
  <2>1. ret.left # <<>> /\ Cardinality({}) = 0 /\ Len(cands) \in Nat
    BY <1>1, <1>3, FS_EmptySet DEF Justified, Measured
  <2>2. (Cardinality({}) + Len(cands)) * 100 <= indexed * MaxPercent
    BY <1>5, <1>7, <2>1
  <2>3. OnDisk' = OnDisk
    BY DEF OnDisk, Plan
  <2> QED BY <1>6, <1>9, <2>1, <2>2, <2>3 DEF Measured
<1>12. Known'
  BY <1>3, <1>9 DEF Known, Plan
<1> QED
  BY <1>9, <1>10, <1>11, <1>12, RetOnly DEF Plan, faults

\* A file that is looked at is taken off the list or is free.
LEMMA CheckKeeps ==
  ASSUME Justified, Check
  PROVE  Justified'
<1> DEFINE f == Head(ret.cands)
<1>1. ret.pc = "check" /\ ret.cands # <<>> /\ ret \in Retention /\ ret.cands \in Seq(Files)
  BY DEF Check, Justified, Types, Retention
<1>2. CASE StillDoomed(f) /\ ret' = [ret EXCEPT !.pc = "unlink"]
  <2>1. \A n : n = [ret EXCEPT !.pc = "unlink"] =>
          /\ n \in Retention /\ n.pc = "unlink" /\ n.gone = ret.gone /\ n.indexed = ret.indexed
          /\ n.cands = ret.cands /\ n.left = ret.left
    BY <1>1 DEF Retention
  <2>2. /\ ret' \in Retention /\ ret'.pc = "unlink" /\ ret'.gone = ret.gone
        /\ ret'.indexed = ret.indexed /\ ret'.cands = ret.cands /\ ret'.left = ret.left
    BY <1>2, <2>1
  <2>3. Doomed'
    BY <1>1, <1>2, <2>2 DEF Doomed, StillDoomed, Check
  <2>4. Measured'
    <3>1. Measured /\ OnDisk' = OnDisk /\ lost' = lost
      BY DEF Justified, Check, OnDisk
    <3> QED BY <1>1, <2>2, <3>1 DEF Measured
  <2>5. Known'
    BY <2>2 DEF Justified, Known, Check
  <2> QED BY <2>2, <2>3, <2>4, <2>5, RetOnly DEF Check, faults
<1>3. CASE ret' = [ret EXCEPT !.cands = Tail(@)]
  <2>1. PICK rest \in Seq(Files) : rest = Tail(ret.cands) /\ Len(rest) = Len(ret.cands) - 1
    BY <1>1, Shorter
  <2>2. \A n : n = [ret EXCEPT !.cands = rest] =>
          /\ n \in Retention /\ n.pc = ret.pc /\ n.gone = ret.gone /\ n.indexed = ret.indexed
          /\ n.cands = rest /\ n.left = ret.left
    BY <1>1 DEF Retention
  <2>3. /\ ret' \in Retention /\ ret'.pc = "check" /\ ret'.gone = ret.gone
        /\ ret'.indexed = ret.indexed /\ ret'.cands = rest /\ ret'.left = ret.left
    BY <1>1, <1>3, <2>1, <2>2
  <2>4. Doomed'
    BY <2>3 DEF Doomed
  <2>5. Measured'
    <3>1. Measured /\ OnDisk' = OnDisk /\ lost' = lost
      BY DEF Justified, Check, OnDisk
    <3>2. /\ Cardinality(ret.gone) \in Nat /\ Cardinality(OnDisk) \in Nat
          /\ ret.indexed * MaxPercent \in Nat /\ Len(ret.cands) \in Nat /\ Limit \in Nat
      BY <1>1, FilesFinite, NumbersAssumption DEF OnDisk, Retention
    <3>3. (Cardinality(ret.gone) + Len(rest)) * 100 <= ret.indexed * MaxPercent
      BY <1>1, <2>1, <3>1, <3>2 DEF Measured
    <3>4. Head(ret.left) = "oldest" /\ (ret.gone # {} \/ rest # <<>>) =>
            Cardinality(OnDisk) - Len(rest) >= Limit
      BY <1>1, <2>1, <3>1, <3>2 DEF Measured
    <3> QED BY <1>1, <2>3, <3>1, <3>3, <3>4 DEF Measured
  <2>6. Known'
    <3>1. \A i \in DOMAIN rest : i + 1 \in DOMAIN ret.cands /\ rest[i] = ret.cands[i + 1]
      BY <1>1, <2>1
    <3>2. \A f1 \in Files : (\E i \in DOMAIN rest : rest[i] = f1) =>
                              \E i \in DOMAIN ret.cands : ret.cands[i] = f1
      BY <3>1
    <3> QED BY <2>3, <3>2 DEF Justified, Known, Check
  <2> QED BY <2>3, <2>4, <2>5, <2>6, RetOnly DEF Check, faults
<1> QED
  BY <1>2, <1>3 DEF Check

\* A file that is removed was planned, and moves from what is planned to what is
\* gone.
LEMMA UnlinkKeeps ==
  ASSUME Justified, Unlink
  PROVE  Justified'
<1>1. /\ ret.pc = "unlink" /\ ret.cands # <<>> /\ ret \in Retention /\ ret.cands \in Seq(Files)
      /\ UNCHANGED <<mounted, row, scan, skipped, unread>> /\ late' = {}
  BY DEF Unlink, faults, Justified, Types, Retention, Doomed
<1>2. PICK f \in Files : f = Head(ret.cands)
  BY <1>1, Shorter
<1>3. PICK rest \in Seq(Files) : rest = Tail(ret.cands) /\ Len(rest) = Len(ret.cands) - 1
  BY <1>1, Shorter
<1>4. disk[f] \in Entry /\ disk \in [Files -> Entry] /\ lost \subseteq Files
      /\ ret.gone \in SUBSET Files
  BY <1>1 DEF Justified, Types, Retention
<1>5. PICK gone \in SUBSET Files :
        /\ ret' = [ret EXCEPT !.pc = "check", !.cands = rest, !.gone = gone]
        /\ \/ /\ gone = ret.gone \cup {f} /\ disk[f].t > 0 /\ lost' = lost \cup {f}
              /\ disk' = [disk EXCEPT ![f] = [disk[f] EXCEPT !.t = - disk[f].t, !.quiet = TRUE]]
           \/ gone = ret.gone /\ UNCHANGED <<disk, lost>>
  <2>1. CASE mounted /\ disk[f].t > 0
    <3> DEFINE gone == ret.gone \cup {f}
    <3>1. gone \in SUBSET Files
      BY <1>4
    <3>2. /\ ret' = [ret EXCEPT !.pc = "check", !.cands = rest, !.gone = gone]
          /\ lost' = lost \cup {f}
          /\ disk' = [disk EXCEPT ![f] = [disk[f] EXCEPT !.t = - disk[f].t, !.quiet = TRUE]]
      BY <1>2, <1>3, <1>4, <2>1 DEF Unlink
    <3> QED BY <2>1, <3>1, <3>2
  <2>2. CASE ~ (mounted /\ disk[f].t > 0)
    <3>1. ret' = [ret EXCEPT !.pc = "check", !.cands = rest] /\ UNCHANGED <<disk, lost>>
      BY <1>2, <1>3, <2>2 DEF Unlink
    <3>2. [ret EXCEPT !.pc = "check", !.cands = rest] =
            [ret EXCEPT !.pc = "check", !.cands = rest, !.gone = ret.gone]
      BY <1>1 DEF Retention
    <3> QED BY <1>4, <3>1, <3>2
  <2> QED BY <2>1, <2>2
<1>6. /\ ret' \in Retention /\ ret'.pc = "check" /\ ret'.gone = gone
      /\ ret'.indexed = ret.indexed /\ ret'.cands = rest /\ ret'.left = ret.left
  <2>1. \A n : n = [ret EXCEPT !.pc = "check", !.cands = rest, !.gone = gone] =>
          /\ n \in Retention /\ n.pc = "check" /\ n.gone = gone /\ n.indexed = ret.indexed
          /\ n.cands = rest /\ n.left = ret.left
    BY <1>1 DEF Retention
  <2> QED BY <1>5, <2>1
<1>7. /\ disk' \in [Files -> Entry] /\ \A g \in Files : g # f => disk'[g] = disk[g]
      /\ \/ /\ gone = ret.gone \cup {f} /\ disk[f].t > 0 /\ lost' = lost \cup {f}
            /\ disk'[f].t = - disk[f].t
         \/ gone = ret.gone /\ UNCHANGED <<disk, lost>>
  <2>1. \A t \in Int : \A n : n = [disk[f] EXCEPT !.t = t, !.quiet = TRUE] => n \in Entry /\ n.t = t
    BY <1>4 DEF Entry
  <2>2. - disk[f].t \in Int
    BY <1>4 DEF Entry
  <2>3. PICK n \in Entry : n = [disk[f] EXCEPT !.t = - disk[f].t, !.quiet = TRUE]
                           /\ n.t = - disk[f].t
    BY <2>1, <2>2
  <2> QED BY <1>4, <1>5, <2>3
<1>8. \A g \in Files : disk[g].t \in Int /\ disk[g].c \in Nat
  BY <1>4 DEF Entry
<1>9. Types'
  BY <1>1, <1>4, <1>6, <1>7 DEF Justified, Types
<1>10. ASSUME NEW g \in Files
       PROVE  RowIsReal(g)' /\ LostIsReal(g)'
  <2>1. RowIsReal(g) /\ LostIsReal(g)
    BY DEF Justified
  <2>2. /\ disk[g].t # 0 => disk'[g].t # 0
        /\ g \in lost => g \in lost'
        /\ g \in lost' => disk'[g].t # 0
        /\ disk'[g].t < 0 => g \in lost'
    BY <1>7, <1>8, <2>1 DEF LostIsReal
  <2> QED BY <1>1, <2>1, <2>2 DEF RowIsReal, Fingerprinted, LostIsReal
<1>11. Passed'
  <2>1. lost \subseteq lost'
    BY <1>7
  <2> QED BY <1>1, <2>1 DEF Justified, Passed
<1>12. InHand'
  <2>1. SUFFICES ASSUME scan.pc = "entry" PROVE InHand'
    BY <1>1 DEF InHand
  <2> DEFINE e == scan.entry  g == scan.f
  <2>2. /\ e \in Entry /\ e.t > 0 /\ g \in Files
        /\ disk[g].t >= e.t \/ disk[g].t <= - e.t
        /\ disk[g].t = e.t => disk[g].c = e.c
    BY <2>1 DEF Justified, InHand
  <2>3. e.t \in Int
    BY <2>2 DEF Entry
  <2> HIDE DEF e, g
  <2>4. /\ disk'[g].t >= e.t \/ disk'[g].t <= - e.t
        /\ disk'[g].t = e.t => disk'[g].c = e.c
    BY <1>7, <1>8, <2>2, <2>3
  <2> QED BY <1>1, <2>1, <2>4 DEF Justified, InHand, e, g
<1>13. Doomed'
  BY <1>6 DEF Doomed
<1>14. Measured'
  <2>1. Measured
    BY DEF Justified
  <2>2. OnDisk \in SUBSET Files /\ OnDisk' \in SUBSET Files
    BY DEF OnDisk
  <2>3. /\ Cardinality(ret.gone) \in Nat /\ Cardinality(gone) \in Nat
        /\ Cardinality(OnDisk) \in Nat /\ Cardinality(OnDisk') \in Nat
        /\ ret.indexed * MaxPercent \in Nat /\ Len(ret.cands) \in Nat /\ Limit \in Nat
    BY <1>1, <1>4, <2>2, FilesFinite, NumbersAssumption DEF Retention
  <2>4. Cardinality(gone) <= Cardinality(ret.gone) + 1
    <3>1. IsFiniteSet(ret.gone)
      BY <1>4, FilesFinite
    <3>2. Cardinality(ret.gone \cup {f}) = (IF f \in ret.gone THEN Cardinality(ret.gone)
                                            ELSE Cardinality(ret.gone) + 1)
      BY <3>1, FS_AddElement
    <3>3. CASE gone = ret.gone \cup {f}
      BY <2>3, <3>2, <3>3
    <3>4. CASE gone = ret.gone
      BY <2>3, <3>4
    <3> QED BY <1>7, <3>3, <3>4
  <2>5. Cardinality(OnDisk') >= Cardinality(OnDisk) - 1
    <3>1. CASE disk' = disk
      BY <2>3, <3>1 DEF OnDisk
    <3>2. CASE disk[f].t > 0 /\ disk'[f].t = - disk[f].t
      <4>1. f \in OnDisk /\ OnDisk' = OnDisk \ {f}
        BY <1>7, <1>8, <3>2 DEF OnDisk
      <4>2. IsFiniteSet(OnDisk)
        BY <2>2, FilesFinite
      <4>3. Cardinality(OnDisk \ {f}) = Cardinality(OnDisk) - 1
        BY <4>1, <4>2, FS_RemoveElement
      <4> QED BY <2>3, <4>1, <4>3
    <3> QED BY <1>7, <3>1, <3>2
  <2>6. gone \subseteq lost'
    BY <1>7, <2>1 DEF Measured
  <2>7. /\ (Cardinality(ret.gone) + Len(ret.cands)) * 100 <= ret.indexed * MaxPercent
        /\ Head(ret.left) = "oldest" => Cardinality(OnDisk) - Len(ret.cands) >= Limit
    BY <1>1, <2>1 DEF Measured
  <2>8. (Cardinality(gone) + Len(rest)) * 100 <= ret.indexed * MaxPercent
    BY <1>3, <2>3, <2>4, <2>7
  <2>9. Head(ret.left) = "oldest" => Cardinality(OnDisk') - Len(rest) >= Limit
    BY <1>3, <2>3, <2>5, <2>7
  <2>10. ret.left # <<>>
    BY <1>1, <2>1 DEF Measured
  <2> QED BY <1>6, <2>6, <2>8, <2>9, <2>10 DEF Measured
<1>15. Known'
  <2>1. \A i \in DOMAIN rest : i + 1 \in DOMAIN ret.cands /\ rest[i] = ret.cands[i + 1]
    BY <1>1, <1>3
  <2>2. 1 \in DOMAIN ret.cands /\ ret.cands[1] = f
    BY <1>1, <1>2
  <2>3. \A g \in Files : g \in gone \/ (\E i \in DOMAIN rest : rest[i] = g) =>
                         g \in ret.gone \/ \E i \in DOMAIN ret.cands : ret.cands[i] = g
    BY <1>7, <2>1, <2>2
  <2> QED BY <1>1, <1>6, <2>3 DEF Justified, Known
<1> QED
  BY <1>9, <1>10, <1>11, <1>12, <1>13, <1>14, <1>15 DEF Justified

\* The rows of what is gone, and the next pass.
LEMMA MarkDeletedKeeps ==
  ASSUME Justified, MarkDeleted
  PROVE  Justified'
<1>1. /\ UNCHANGED <<disk, mounted, scan, lost, late, skipped, unread>>
      /\ ret.pc = "check" /\ ret \in Retention
      /\ row \in [Files -> Recording] /\ lost \subseteq Files /\ ret.gone \subseteq lost
      /\ ret.cands = <<>>
  BY DEF MarkDeleted, faults, Justified, Types, Measured
<1>2. /\ ret' \in Retention /\ ret'.pc \in {"off", "plan"} /\ ret'.gone = {}
      /\ ret'.pc # "off" => ret'.left # <<>>
  <2>1. CASE ret' = NoRet
    BY <2>1, NoRetTyped
  <2>2. CASE Len(ret.left) # 1
             /\ ret' = [ret EXCEPT !.pc = "plan", !.left = Tail(@), !.gone = {}, !.indexed = 0]
    <3>1. ret.left \in Seq({"oldest", "idle", "parked"}) /\ ret.left # <<>>
      BY <1>1 DEF Justified, Measured, Retention
    <3>2. Tail(ret.left) \in Seq({"oldest", "idle", "parked"}) /\ Tail(ret.left) # <<>>
      BY <2>2, <3>1, Shorter
    <3>3. PICK left \in Seq({"oldest", "idle", "parked"}) : left = Tail(ret.left)
      BY <3>2
    <3>4. PICK none \in SUBSET Files, zero \in Nat : none = {} /\ zero = 0
      OBVIOUS
    <3>5. \A n : n = [ret EXCEPT !.pc = "plan", !.left = left, !.gone = none, !.indexed = zero] =>
            n \in Retention /\ n.pc = "plan" /\ n.gone = none /\ n.left = left
      BY <1>1 DEF Retention
    <3>6. ret' = [ret EXCEPT !.pc = "plan", !.left = left, !.gone = none, !.indexed = zero]
      BY <2>2, <3>3, <3>4
    <3> QED BY <3>2, <3>3, <3>4, <3>5, <3>6
  <2> QED BY <2>1, <2>2 DEF MarkDeleted
<1>3. row' = [f \in Files |-> row'[f]]
  BY DEF MarkDeleted
<1>5. ASSUME NEW f \in Files
      PROVE  row'[f] \in Recording /\ Worked(f, row'[f], row[f])
  <2>1. row[f] \in Recording
    BY <1>1
  <2>2. CASE f \notin ret.gone
    <3>1. row'[f] = row[f]
      BY <2>2 DEF MarkDeleted
    <3> QED BY <2>1, <3>1 DEF Worked
  <2>3. CASE f \in ret.gone
    <3>1. PICK ignored \in BOOLEAN :
            row'[f] = [row[f] EXCEPT !.missing = TRUE, !.state = "deleted", !.ignored = ignored]
      <4> DEFINE ignored == row[f].ignored \/ Head(ret.left) # "oldest"
      <4>1. ignored \in BOOLEAN
        BY <2>1 DEF Recording
      <4>2. row'[f] = [row[f] EXCEPT !.missing = TRUE, !.state = "deleted", !.ignored = ignored]
        BY <2>3 DEF MarkDeleted
      <4> HIDE DEF ignored
      <4> QED BY <4>1, <4>2
    <3>2. /\ row'[f] \in Recording /\ row'[f].fp = row[f].fp /\ row'[f].fpt = row[f].fpt
          /\ row'[f].stat = row[f].stat /\ row'[f].state = "deleted"
      <4>1. \A n : n = [row[f] EXCEPT !.missing = TRUE, !.state = "deleted", !.ignored = ignored] =>
              /\ n \in Recording /\ n.fp = row[f].fp /\ n.fpt = row[f].fpt
              /\ n.stat = row[f].stat /\ n.state = "deleted"
        BY <2>1 DEF Recording, States
      <4> QED BY <3>1, <4>1
    <3>3. f \in lost /\ row[f].state # "none"
      BY <1>1, <2>3 DEF Justified, Known
    <3> QED BY <3>2, <3>3 DEF Worked, QUEUEABLE_STATES
  <2> QED BY <2>2, <2>3
<1>6. row' \in [Files -> Recording]
  BY <1>3, <1>5
<1>7. Types'
  BY <1>1, <1>2, <1>6 DEF Justified, Types
<1>8. (\A f \in Files : RowIsReal(f) /\ LostIsReal(f))' /\ Passed' /\ InHand'
  BY <1>1, <1>5, RowsWorked
<1>9. Doomed'
  BY <1>2 DEF Doomed
<1>10. Measured'
  BY <1>2 DEF Measured
<1>11. Known'
  <2>1. ret'.cands = <<>>
    <3>1. CASE ret' = NoRet
      BY <3>1, NoRetTyped
    <3>2. CASE ret' = [ret EXCEPT !.pc = "plan", !.left = Tail(@), !.gone = {}, !.indexed = 0]
      BY <1>1, <3>2 DEF Retention
    <3> QED BY <3>1, <3>2 DEF MarkDeleted
  <2> QED BY <1>2, <2>1 DEF Known
<1> QED
  BY <1>7, <1>8, <1>9, <1>10, <1>11 DEF Justified

\* A process that dies leaves scan and retention behind, and its jobs queued.
LEMMA CrashKeeps ==
  ASSUME Justified, Crash
  PROVE  Justified'
<1>1. /\ UNCHANGED <<disk, mounted, lost, skipped, unread>> /\ scan' = NoScan /\ ret' = NoRet /\ late' = {}
      /\ row \in [Files -> Recording]
      /\ row' = [f \in Files |-> IF row[f].job # "running" THEN row[f]
                                 ELSE [row[f] EXCEPT !.job = "queued", !.state = "queued"]]
  BY DEF Crash, faults, Justified, Types
<1>2. ASSUME NEW f \in Files
      PROVE  row'[f] \in Recording /\ Worked(f, row'[f], row[f])
  <2>1. row[f] \in Recording /\ RowIsReal(f)
    BY <1>1 DEF Justified
  <2>2. CASE row[f].job # "running"
    BY <1>1, <2>1, <2>2 DEF Worked
  <2>3. CASE row[f].job = "running"
    <3>1. row'[f] = [row[f] EXCEPT !.job = "queued", !.state = "queued"]
      BY <1>1, <2>3
    <3>2. \A n : n = [row[f] EXCEPT !.job = "queued", !.state = "queued"] =>
            /\ n \in Recording /\ n.fp = row[f].fp /\ n.fpt = row[f].fpt /\ n.stat = row[f].stat
            /\ n.state = "queued" /\ n.missing = row[f].missing
      BY <2>1 DEF Recording, Jobs, States
    <3>3. row[f].state # "none"
      BY <2>1, <2>3 DEF RowIsReal, NoRow
    <3> QED BY <3>1, <3>2, <3>3 DEF Worked, QUEUEABLE_STATES
  <2> QED BY <2>2, <2>3
<1>3. row' \in [Files -> Recording]
  BY <1>1, <1>2
<1>4. scan' \in Scan /\ scan'.pc = "off" /\ ret' \in Retention /\ ret'.pc = "off"
      /\ ret'.gone = {} /\ ret'.cands = <<>>
  BY <1>1, NoScanTyped, NoRetTyped
<1>5. Types'
  BY <1>1, <1>3, <1>4 DEF Justified, Types
<1>6. (\A f \in Files : RowIsReal(f) /\ LostIsReal(f))'
  BY <1>1, <1>2, RowsWorked
<1>7. Passed' /\ InHand' /\ Doomed' /\ Measured' /\ Known'
  BY <1>4 DEF Passed, InHand, Doomed, Measured, Known
<1> QED
  BY <1>5, <1>6, <1>7 DEF Justified

-----------------------------------------------------------------------------
(* The theorems.                                                           *)

\* Before the first scan nothing is indexed and nothing was removed.
LEMMA StartsJustified == Init => Justified
<1>1. SUFFICES ASSUME Init PROVE Justified
  OBVIOUS
<1>2. disk \in [Files -> Entry] /\ \A f \in Files : disk[f].t >= 0
  <2>1. PICK newest \in Files :
          disk = [f \in Files |-> IF f <= newest THEN [c |-> 1, t |-> 1, quiet |-> TRUE]
                                  ELSE [c |-> 0, t |-> 0, quiet |-> TRUE]]
    BY <1>1, Zenon DEF Init
  <2>2. /\ [c |-> 1, t |-> 1, quiet |-> TRUE] \in Entry
        /\ [c |-> 0, t |-> 0, quiet |-> TRUE] \in Entry
    BY DEF Entry
  <2>3. disk \in [Files -> Entry]
    BY <2>1, <2>2
  <2>4. \A f \in Files : disk[f].t = 1 \/ disk[f].t = 0
    BY <2>1
  <2> QED BY <2>3, <2>4
<1>7. /\ mounted = TRUE /\ row = [f \in Files |-> NoRow]
      /\ scan = NoScan /\ ret = NoRet /\ lost = {} /\ late = {}
      /\ skipped = {} /\ unread = {}
  BY <1>1, Zenon DEF Init
<1>3. /\ row \in [Files -> Recording] /\ scan \in Scan /\ scan.pc = "off"
      /\ ret \in Retention /\ ret.pc = "off" /\ ret.gone = {} /\ ret.cands = <<>>
  BY <1>7, NoRowTyped, NoScanTyped, NoRetTyped
<1>4. Types
  BY <1>2, <1>3, <1>7 DEF Types
<1>5. \A f \in Files : RowIsReal(f) /\ LostIsReal(f)
  <2>1. NoRow.state = "none" /\ NoRow.missing = FALSE
    BY DEF NoRow
  <2>2. ASSUME NEW f \in Files
        PROVE  RowIsReal(f) /\ LostIsReal(f)
    <3>1. row[f] = NoRow /\ lost = {} /\ disk[f].t \in Int /\ disk[f].t >= 0
      BY <1>2, <1>7 DEF Entry
    <3>2. NoRow.fp = 0 /\ NoRow.fpt = 0 /\ NoRow.missing = FALSE
      BY DEF NoRow
    <3>3. Fingerprinted(row[f]) /\ row[f].fp = 0 /\ row[f].fpt = 0
          /\ row[f].missing = FALSE /\ row[f].state = "none"
      BY <2>1, <3>1, <3>2, NoRowTyped
    <3>4. RowIsReal(f)
      BY <3>1, <3>3 DEF RowIsReal
    <3>5. LostIsReal(f)
      BY <3>1 DEF LostIsReal
    <3> QED BY <3>4, <3>5
  <2> QED BY <2>2
<1>6. Passed /\ InHand /\ Doomed /\ Measured /\ Known
  BY <1>3 DEF Passed, InHand, Doomed, Measured, Known
<1> QED
  BY <1>4, <1>5, <1>6 DEF Justified

\* Every step of scan, retention, worker, writer and environment keeps it.
LEMMA StaysJustified == Justified /\ [Next]_vars => Justified'
<1>1. SUFFICES ASSUME Justified, [Next]_vars PROVE Justified'
  OBVIOUS
<1>2. CASE UNCHANGED vars
  <2>1. Types' /\ (\A f \in Files : RowIsReal(f) /\ LostIsReal(f))'
    BY <1>1, <1>2 DEF Justified, Types, RowIsReal, Fingerprinted, LostIsReal, vars, faults
  <2>2. Passed' /\ InHand' /\ Doomed' /\ Measured' /\ Known'
    BY <1>1, <1>2 DEF Justified, Passed, InHand, Doomed, Measured, OnDisk, Known, vars, faults
  <2> QED BY <2>1, <2>2 DEF Justified
<1>3. CASE \E f \in Files : Write(f) \/ Settle(f)
  BY <1>1, <1>3, WriteKeeps
<1>4. CASE \E f \in Files : Work(f) \/ Protect(f)
  BY <1>1, <1>4, WorkKeeps
<1>5. CASE Mount \/ Unmount
  BY <1>1, <1>5, MountKeeps
<1>6. CASE StartScan \/ WalkFails \/ SkipEntry
  BY <1>1, <1>6, StartScanKeeps, WalkFailsKeeps, SkipEntryKeeps
<1>7. CASE ScanStep
  BY <1>1, <1>7, WalkNextKeeps, ReconcileKeeps, MarkMissingKeeps, QueueKeeps DEF ScanStep
<1>8. CASE _run_retention \/ Retain
  BY <1>1, <1>8, RunKeeps, PlanKeeps, CheckKeeps, UnlinkKeeps, MarkDeletedKeeps DEF Retain
<1>9. CASE Crash
  BY <1>1, <1>9, CrashKeeps
<1> QED
  BY <1>1, <1>2, <1>3, <1>4, <1>5, <1>6, <1>7, <1>8, <1>9 DEF Next

\* The inductive invariant behind the results below.
THEOREM JustifiedInvariant == Spec => []Justified
BY StartsJustified, StaysJustified, PTL DEF Spec

\* The invariant says what the run checks.
LEMMA JustifiedIsRight == Justified => NothingWronglyRemoved
<1>1. SUFFICES ASSUME Justified PROVE NothingWronglyRemoved
  OBVIOUS
<1>2. TypeOK
  <2>1. ASSUME NEW f \in Files
        PROVE  /\ disk[f].c \in Nat /\ disk[f].t \in Int
               /\ row[f].state \in States /\ row[f].job \in Jobs
               /\ row[f].fp = 0 <=> row[f].fpt = 0
    BY <1>1 DEF Justified, Types, Entry, Recording, RowIsReal, Fingerprinted
  <2>2. /\ scan.pc \in {"off", "walk", "entry", "queue"} /\ scan.seen \subseteq Files
        /\ ret.pc \in {"off", "plan", "check", "unlink"} /\ ret.cands \in Seq(Files)
    BY <1>1 DEF Justified, Types, Scan, Retention
  <2>3. ToSet(ret.cands) \subseteq Files
    BY <2>2 DEF ToSet
  <2> QED BY <2>1, <2>2, <2>3 DEF TypeOK, States, Jobs
<1>3. MissingIsReal
  BY <1>1 DEF Justified, RowIsReal, MissingIsReal
<1>4. NotOverdone
  <2>1. /\ Cardinality(ret.gone) \in Nat /\ Cardinality(OnDisk) \in Nat
        /\ ret.indexed * MaxPercent \in Nat /\ Len(ret.cands) \in Nat /\ Limit \in Nat
        /\ ret.pc \in {"off", "plan", "check", "unlink"}
    <3>1. OnDisk \in SUBSET Files /\ ret.gone \in SUBSET Files /\ ret.indexed \in Nat
      BY <1>1 DEF OnDisk, Justified, Types, Retention
    <3> QED BY <1>1, <3>1, FilesFinite, NumbersAssumption DEF Justified, Types, Retention
  <2>2. CASE ret.gone = {}
    <3>1. Cardinality(ret.gone) = 0
      BY <2>2, FS_EmptySet
    <3> QED BY <2>1, <2>2, <3>1 DEF NotOverdone
  <2>3. CASE ret.gone # {}
    <3>1. /\ (Cardinality(ret.gone) + Len(ret.cands)) * 100 <= ret.indexed * MaxPercent
          /\ Head(ret.left) = "oldest" => Cardinality(OnDisk) - Len(ret.cands) >= Limit
      BY <1>1, <2>1, <2>3 DEF Justified, Measured
    <3>2. Cardinality(ret.gone) * 100 <= ret.indexed * MaxPercent
      BY <2>1, <3>1
    <3>3. Head(ret.left) = "oldest" => Cardinality(OnDisk) >= Limit
      BY <2>1, <3>1
    <3> QED BY <3>2, <3>3 DEF NotOverdone
  <2> QED BY <2>2, <2>3
<1> QED
  BY <1>2, <1>3, <1>4 DEF NothingWronglyRemoved

\* For any files, limits and faults: nothing is called missing that was not
\* removed from the share, or an entry of it passed over in silence (discovery.py's
\* reconciliation and its walk), and no plan removes
\* more than its share of the index or goes below the limit (planner.py).
THEOREM RemovalTheorem == Spec => []NothingWronglyRemoved
BY JustifiedInvariant, JustifiedIsRight, PTL

\* The queue takes a recording on the fingerprint of its last observation, or on
\* an older one when the bytes could not be read.
LEMMA QueuedStep == Justified /\ [Next]_vars =>
  \A f \in Files : row[f].job = "none" /\ row'[f].job = "queued" =>
    row[f].fp # 0 /\ (row[f].fpt = row[f].stat \/ f \in unread)
<1>1. SUFFICES ASSUME Justified, [Next]_vars, NEW f \in Files,
                      row[f].job = "none", row'[f].job = "queued"
               PROVE  row[f].fp # 0 /\ (row[f].fpt = row[f].stat \/ f \in unread)
  OBVIOUS
<1>2. row[f] \in Recording /\ row \in [Files -> Recording] /\ RowIsReal(f)
  BY <1>1 DEF Justified, Types
<1>3. row' # row /\ row'[f].job # row[f].job
  BY <1>1
<1>4. \/ \E g \in Files : Work(g) \/ Protect(g)
      \/ Reconcile \/ _mark_missing \/ queue_unprocessed \/ MarkDeleted \/ Crash
  BY <1>1, <1>3
     DEF Next, vars, Write, Settle, Mount, Unmount, StartScan, WalkFails, SkipEntry, ScanStep,
         WalkNext, _run_retention, Retain, Plan, Check, Unlink
<1>5. ASSUME NEW g \in Files, Work(g) \/ Protect(g) PROVE FALSE
  <2>1. CASE Claim(g)
    <3>1. g = f => row[f].job = "queued"
      BY <2>1 DEF Claim
    <3>2. g # f => row'[f] = row[f]
      BY <1>2, <2>1 DEF Claim
    <3> QED BY <1>1, <3>1, <3>2
  <2>2. CASE Finish(g)
    <3>1. g = f => row[f].job = "running"
      BY <2>2 DEF Finish
    <3>2. g # f => row'[f] = row[f]
      BY <1>2, <2>2 DEF Finish
    <3> QED BY <1>1, <3>1, <3>2
  <2>3. CASE Protect(g)
    <3>1. g = f => row'[f] = [row[f] EXCEPT !.protected = TRUE]
      BY <1>2, <2>3 DEF Protect
    <3>2. \A n : n = [row[f] EXCEPT !.protected = TRUE] => n.job = row[f].job
      BY <1>2 DEF Recording
    <3>3. g # f => row'[f] = row[f]
      BY <1>2, <2>3 DEF Protect
    <3> QED BY <1>3, <3>1, <3>2, <3>3
  <2> QED BY <1>5, <2>1, <2>2, <2>3 DEF Work
<1>6. ~ Reconcile
  BY <1>1, <1>3, ReconcileKeeps
<1>7. ASSUME _mark_missing PROVE FALSE
  <2>1. row'[f] = row[f] \/ row'[f] = [row[f] EXCEPT !.missing = TRUE]
    BY <1>7 DEF _mark_missing
  <2>2. \A n : n = [row[f] EXCEPT !.missing = TRUE] => n.job = row[f].job
    BY <1>2 DEF Recording
  <2> QED BY <1>3, <2>1, <2>2
<1>8. ASSUME MarkDeleted PROVE FALSE
  <2>1. PICK ignored :
          \/ row'[f] = row[f]
          \/ row'[f] = [row[f] EXCEPT !.missing = TRUE, !.state = "deleted", !.ignored = ignored]
    BY <1>8 DEF MarkDeleted
  <2>2. \A n : n = [row[f] EXCEPT !.missing = TRUE, !.state = "deleted", !.ignored = ignored] =>
          n.job = row[f].job
    BY <1>2 DEF Recording
  <2> QED BY <1>3, <2>1, <2>2
<1>9. ASSUME Crash PROVE FALSE
  BY <1>1, <1>9 DEF Crash
<1>10. CASE queue_unprocessed
  <2>1. Queueable(f)
    BY <1>3, <1>10 DEF queue_unprocessed
  <2> QED BY <1>2, <2>1 DEF Queueable, RowIsReal, Fingerprinted
<1> QED
  BY <1>4, <1>5, <1>6, <1>7, <1>8, <1>9, <1>10

\* Retention removes what it found free and nobody touched since.
LEMMA SparedStep == Justified /\ [Next]_vars =>
  \A f \in ret'.gone \ ret.gone :
    f \in late \/ (row[f].job = "none" /\ ~ row[f].protected)
<1>1. SUFFICES ASSUME Justified, [Next]_vars, NEW f \in ret'.gone \ ret.gone
               PROVE  f \in late \/ (row[f].job = "none" /\ ~ row[f].protected)
  OBVIOUS
<1>2. ret \in Retention /\ ret' # ret
  BY <1>1 DEF Justified, Types
<1>3. _run_retention \/ Plan \/ Check \/ Unlink \/ MarkDeleted \/ Crash
  BY <1>1, <1>2
     DEF Next, vars, Write, Settle, Work, Claim, Finish, Protect, Mount, Unmount, StartScan,
         WalkFails, SkipEntry, ScanStep, WalkNext, Reconcile, _mark_missing, queue_unprocessed, Retain
<1>4. ASSUME _run_retention \/ Plan PROVE FALSE
  <2>2. \A a, b, n : n = [ret EXCEPT !.pc = "check", !.gone = {}, !.indexed = a, !.cands = b] =>
          n.gone = {}
    BY <1>2 DEF Retention
  <2>3. ASSUME _run_retention PROVE ret'.gone = {}
    <3>1. PICK a, b : ret' = [NoRet EXCEPT !.pc = "plan", !.left = a, !.safe = b]
      BY <2>3, Zenon DEF _run_retention
    <3>2. \A old \in Retention : \A n : n = [old EXCEPT !.pc = "plan", !.left = a, !.safe = b] =>
            n.gone = old.gone
      BY DEF Retention
    <3> QED BY <3>1, <3>2, NoRetTyped
  <2>4. Plan => ret'.gone = {}
    BY <2>2 DEF Plan
  <2> QED BY <1>1, <1>4, <2>3, <2>4
<1>5. ASSUME Check PROVE FALSE
  <2>1. \A a, n : n = [ret EXCEPT !.pc = a] \/ n = [ret EXCEPT !.cands = a] => n.gone = ret.gone
    BY <1>2 DEF Retention
  <2>2. ret'.gone = ret.gone
    BY <1>5, <2>1 DEF Check
  <2> QED BY <1>1, <2>2
<1>6. ASSUME MarkDeleted \/ Crash PROVE FALSE
  <2>1. \A a, n : n = [ret EXCEPT !.pc = "plan", !.left = a, !.gone = {}, !.indexed = 0] =>
          n.gone = {}
    BY <1>2 DEF Retention
  <2>2. ret'.gone = {}
    BY <1>6, <2>1, NoRetTyped DEF MarkDeleted, Crash
  <2> QED BY <1>1, <2>2
<1>7. CASE Unlink
  <2>1. \A a, b, n : n = [ret EXCEPT !.pc = "check", !.cands = a, !.gone = b] => n.gone = b
    BY <1>2 DEF Retention
  <2>2. \A a, n : n = [ret EXCEPT !.pc = "check", !.cands = a] => n.gone = ret.gone
    BY <1>2 DEF Retention
  <2>3. ret'.gone = ret.gone \cup {Head(ret.cands)} \/ ret'.gone = ret.gone
    <3>1. \/ ret' = [ret EXCEPT !.pc = "check", !.cands = Tail(ret.cands),
                                !.gone = ret.gone \cup {Head(ret.cands)}]
          \/ ret' = [ret EXCEPT !.pc = "check", !.cands = Tail(ret.cands)]
      BY <1>7, Zenon DEF Unlink
    <3>2. ASSUME NEW b, NEW a, ret' = [ret EXCEPT !.pc = "check", !.cands = a, !.gone = b]
          PROVE  ret'.gone = b
      BY <2>1, <3>2
    <3>3. ASSUME NEW a, ret' = [ret EXCEPT !.pc = "check", !.cands = a]
          PROVE  ret'.gone = ret.gone
      BY <2>2, <3>3
    <3> QED BY <3>1, <3>2, <3>3
  <2>4. f = Head(ret.cands)
    BY <1>1, <2>3
  <2> QED BY <1>1, <1>7, <2>4 DEF Justified, Doomed, Unlink
<1> QED
  BY <1>3, <1>4, <1>5, <1>6, <1>7

\* For any files, limits and faults: the scan queues a recording only on what it
\* last observed, unless it could not read the bytes then, and retention removes no recording that was protected, queued
\* or taken by a worker before its check of that very file (planner.py's execute).
THEOREM DecisionTheorem == Spec => DecidedOnWhatIs
<1>1. Justified /\ [Next]_vars =>
        [\A f \in Files : row[f].job = "none" /\ row'[f].job = "queued" =>
           row[f].fp # 0 /\ (row[f].fpt = row[f].stat \/ f \in unread)]_vars
  BY QueuedStep
<1>2. Justified /\ [Next]_vars =>
        [\A f \in ret'.gone \ ret.gone :
           f \in late \/ (row[f].job = "none" /\ ~row[f].protected)]_vars
  BY SparedStep
<1>3. Spec => QueuedSettled
  BY <1>1, JustifiedInvariant, PTL DEF Spec, QueuedSettled
<1>4. Spec => SparedStaysSpared
  BY <1>2, JustifiedInvariant, PTL DEF Spec, SparedStaysSpared
<1> QED
  BY <1>3, <1>4 DEF DecidedOnWhatIs

-----------------------------------------------------------------------------
(* Journeys.                                                               *)

\* The recordings' times are one of the layouts there may be.
Timed == layout \in Layouts

Row == [manual : BOOLEAN, first : Nat, last : Nat]
Membership == [journey : 0 .. MaxJourney, ready : BOOLEAN, rows : SUBSET (0 .. MaxJourney)]
Memory == UNION {[S -> Membership] : S \in SUBSET Recs}
Refresh == [pc : {"none", "due", "stages", "planned", "failed"}, target : 0 .. MaxJourney, members : SUBSET Recs, seen : Memory, row : Row]
Regrouping == [pc : {"idle", "plan", "publish"}, clusters : SUBSET (SUBSET Recs), expected : Memory, used : SUBSET Ids,
               sources : SUBSET Ids, deferred : SUBSET Ids, seen : Memory]

JourneyTypes ==
  /\ rec \in [Recs -> Membership] /\ jou \in [Ids -> Row] /\ nextId \in 1 .. MaxJourney + 1
  /\ rb \in Regrouping /\ asg \in [Recs -> Refresh]

\* A journey that is there has recordings behind its times.
Dated(j) == jou[j] # Gone => 0 < jou[j].last /\ jou[j].first <= jou[j].last

\* A recording and its rows name journeys there are; they name the same one
\* between its analyses.
GoesWith(m, at, times) ==
  /\ m.ready /\ at = "none" => m.rows = {m.journey}
  /\ m.journey # 0 => 0 < times[m.journey].last
  /\ \A i \in m.rows \ {0} : 0 < times[i].last

\* What an analysis has planned is about its own recording and those of its journey.
Scheduled(r) ==
  asg[r].pc = "planned" =>
    /\ DOMAIN asg[r].seen = asg[r].members \cup {r}
    /\ IF asg[r].target = 0 THEN asg[r].members = {} ELSE asg[r].row # Gone

\* A rebuild works through groups of what it found.
Regrouped ==
  /\ \A S \in rb.clusters : S # {} /\ S \subseteq DOMAIN rb.expected
  /\ rb.pc = "publish" => rb.clusters # {}

JourneysInv ==
  /\ Timed /\ JourneyTypes
  /\ \A j \in Ids : Dated(j)
  /\ \A r \in Recs : GoesWith(rec[r], asg[r].pc, jou) /\ Scheduled(r)
  /\ Regrouped

\* A finite set has a last member, in any order.
LEMMA LastOf ==
  ASSUME NEW S, IsFiniteSet(S), S # {}, NEW R,
         \A x, y \in S : x = y \/ <<x, y>> \in R \/ <<y, x>> \in R,
         \A x, y, z \in S : <<x, y>> \in R /\ <<y, z>> \in R => <<x, z>> \in R
  PROVE  \E m \in S : \A y \in S : y = m \/ <<y, m>> \in R
<1> DEFINE Bad == {T \in FiniteSubsetsOf(S) :
                    T # {} /\ ~ \E m \in T : \A y \in T : y = m \/ <<y, m>> \in R}
<1>1. S \in FiniteSubsetsOf(S)
  BY DEF FiniteSubsetsOf
<1>2. SUFFICES ASSUME Bad # {} PROVE FALSE
  BY <1>1
<1>3. PICK T \in Bad : \A U \in Bad : ~ (<<U, T>> \in StrictSubsetOrdering(S))
  <2> Bad \subseteq FiniteSubsetsOf(S)
    OBVIOUS
  <2> HIDE DEF Bad
  <2> QED BY <1>2, FS_StrictSubsetOrderingWellFounded, WFMin
<1>4. PICK x \in T : TRUE
  OBVIOUS
<1>5. T \subseteq S
  BY DEF FiniteSubsetsOf
<1>6. T \ {x} \in FiniteSubsetsOf(S) /\ <<T \ {x}, T>> \in StrictSubsetOrdering(S)
  BY <1>4, FS_RemoveElement DEF FiniteSubsetsOf, StrictSubsetOrdering
<1>7. CASE T \ {x} = {}
  <2>1. \A y \in T : y = x
    BY <1>7
  <2> QED BY <1>4, <2>1
<1>8. CASE T \ {x} # {}
  <2>1. PICK m \in T \ {x} : \A y \in T \ {x} : y = m \/ <<y, m>> \in R
    BY <1>3, <1>6, <1>8
  <2>2. CASE <<x, m>> \in R
    <3>1. \A y \in T : y = m \/ <<y, m>> \in R
      BY <2>1, <2>2
    <3> QED BY <2>1, <3>1
  <2>3. CASE <<m, x>> \in R
    <3>1. \A y \in T : y = x \/ <<y, x>> \in R
      BY <1>4, <1>5, <2>1, <2>3
    <3> QED BY <1>4, <3>1
  <2> QED BY <1>4, <1>5, <2>1, <2>2, <2>3
<1> QED
  BY <1>7, <1>8

\* A finite set of numbers has a least and a greatest.
LEMMA Extremes ==
  ASSUME NEW S \in SUBSET Nat, IsFiniteSet(S), S # {}
  PROVE  /\ Min(S) \in S /\ \A x \in S : Min(S) <= x
         /\ Max(S) \in S /\ \A x \in S : x <= Max(S)
<1> DEFINE Up == {p \in S \X S : p[1] < p[2]}
           Down == {p \in S \X S : p[2] < p[1]}
<1>1. \A x, y \in S : (<<x, y>> \in Up <=> x < y) /\ (<<x, y>> \in Down <=> y < x)
  OBVIOUS
<1> HIDE DEF Up, Down
<1>2. /\ \A x, y \in S : x = y \/ <<x, y>> \in Up \/ <<y, x>> \in Up
      /\ \A x, y, z \in S : <<x, y>> \in Up /\ <<y, z>> \in Up => <<x, z>> \in Up
  BY <1>1
<1>3. /\ \A x, y \in S : x = y \/ <<x, y>> \in Down \/ <<y, x>> \in Down
      /\ \A x, y, z \in S : <<x, y>> \in Down /\ <<y, z>> \in Down => <<x, z>> \in Down
  BY <1>1
<1>4. PICK m \in S : \A y \in S : y = m \/ <<y, m>> \in Up
  BY <1>2, LastOf
<1>5. PICK n \in S : \A y \in S : y = n \/ <<y, n>> \in Down
  BY <1>3, LastOf
<1>6. (\A y \in S : m >= y) /\ \A y \in S : n <= y
  <2>1. \A y \in S : (y = m \/ y < m) /\ (y = n \/ n < y)
    BY <1>1, <1>4, <1>5
  <2>2. m \in Nat /\ n \in Nat /\ \A y \in S : y \in Nat
    OBVIOUS
  <2> QED BY <2>1, <2>2
<1> QED
  BY <1>6 DEF Min, Max

\* Recordings have their times.
LEMMA TimesOf ==
  ASSUME Timed
  PROVE  /\ Gap \in Nat /\ MaxJourney \in Nat /\ Recs \subseteq Nat /\ IsFiniteSet(Recs)
         /\ \A r \in Recs : /\ Start(r) \in Nat /\ End(r) \in Nat
                            /\ Start(r) <= End(r) /\ 0 < End(r)
         /\ IsFiniteSet(layout.omitted) /\ layout.omitted \subseteq Nat \X Nat
<1>1. /\ Recs \subseteq Nat /\ IsFiniteSet(Recs) /\ Gap \in Nat /\ MaxJourney \in Nat
      /\ \A r \in Recs : layout.start[r] \in Nat /\ layout.end[r] \in Nat \ {0} /\ layout.start[r] <= layout.end[r]
      /\ IsFiniteSet(layout.omitted) /\ layout.omitted \subseteq Nat \X Nat
  BY JourneysAssumption DEF Timed
<1> QED
  BY <1>1 DEF Start, End

\* The order of time is one.
LEMMA BeforeOrder ==
  ASSUME Timed
  PROVE  /\ \A a \in Recs : ~Before(a, a)
         /\ \A a, b \in Recs : /\ a = b \/ Before(a, b) \/ Before(b, a)
                               /\ ~(Before(a, b) /\ Before(b, a))
                               /\ Before(a, b) => Start(a) <= Start(b)
                               /\ Start(a) < Start(b) => Before(a, b)
         /\ \A a, b, c \in Recs : Before(a, b) /\ Before(b, c) => Before(a, c)
<1>1. \A r \in Recs : Start(r) \in Nat /\ r \in Nat
  BY TimesOf
<1> QED
  BY <1>1 DEF Before

\* Some recordings have a first, and a last.
LEMMA Ends ==
  ASSUME Timed, NEW S \in SUBSET Recs, S # {}
  PROVE  /\ \E f \in S : \A r \in S : r = f \/ Before(f, r)
         /\ \E f \in S : \A r \in S : r = f \/ Before(r, f)
<1> DEFINE Up == {p \in S \X S : Before(p[1], p[2])}
           Down == {p \in S \X S : Before(p[2], p[1])}
<1>1. IsFiniteSet(S)
  BY TimesOf, FS_Subset
<1>2. \A x, y \in S : (<<x, y>> \in Up <=> Before(x, y)) /\ (<<x, y>> \in Down <=> Before(y, x))
  OBVIOUS
<1> HIDE DEF Up, Down
<1>3. /\ \A x, y \in S : x = y \/ <<x, y>> \in Up \/ <<y, x>> \in Up
      /\ \A x, y, z \in S : <<x, y>> \in Up /\ <<y, z>> \in Up => <<x, z>> \in Up
  BY <1>2, BeforeOrder
<1>4. /\ \A x, y \in S : x = y \/ <<x, y>> \in Down \/ <<y, x>> \in Down
      /\ \A x, y, z \in S : <<x, y>> \in Down /\ <<y, z>> \in Down => <<x, z>> \in Down
  BY <1>2, BeforeOrder
<1>5. PICK m \in S : \A y \in S : y = m \/ <<y, m>> \in Up
  BY <1>1, <1>3, LastOf
<1>6. PICK n \in S : \A y \in S : y = n \/ <<y, n>> \in Down
  BY <1>1, <1>4, LastOf
<1> QED
  BY <1>2, <1>5, <1>6

\* The recording a later one is compared with ends last.
LEMMA PreviousEndsLast ==
  ASSUME Timed, NEW S \in SUBSET Recs, NEW r \in Recs, \E p \in S : Before(p, r)
  PROVE  /\ Previous(S, r) \in S /\ Before(Previous(S, r), r)
         /\ \A q \in S : Before(q, r) => End(q) <= End(Previous(S, r))
<1> DEFINE E == {p \in S : Before(p, r)}
           Sooner(q, p) == \/ End(q) < End(p)
                           \/ End(q) = End(p) /\ Before(q, p)
           Rel == {p \in E \X E : Sooner(p[1], p[2])}
<1>1. E # {} /\ E \subseteq Recs /\ IsFiniteSet(E)
  BY TimesOf, FS_Subset
<1>2. \A q \in E : End(q) \in Nat
  BY <1>1, TimesOf
<1>3. \A x, y \in E : x = y \/ Sooner(x, y) \/ Sooner(y, x)
  BY <1>1, <1>2, BeforeOrder
<1>4. \A x, y, z \in E : Sooner(x, y) /\ Sooner(y, z) => Sooner(x, z)
  BY <1>1, <1>2, BeforeOrder
<1>5. \A x, y \in E : <<x, y>> \in Rel <=> Sooner(x, y)
  OBVIOUS
<1> HIDE DEF Sooner
<1>6. /\ \A x, y \in E : x = y \/ <<x, y>> \in Rel \/ <<y, x>> \in Rel
      /\ \A x, y, z \in E : <<x, y>> \in Rel /\ <<y, z>> \in Rel => <<x, z>> \in Rel
  BY <1>3, <1>4, <1>5
<1> HIDE DEF Rel, E
<1>7. PICK m \in E : \A y \in E : y = m \/ <<y, m>> \in Rel
  BY <1>1, <1>6, LastOf
<1>8. m \in S /\ Before(m, r) /\ \A q \in S : Before(q, r) => q = m \/ Sooner(q, m)
  BY <1>5, <1>7 DEF E
<1> USE DEF Sooner
<1>9. LET p == Previous(S, r) IN
      p \in S /\ Before(p, r) /\ \A q \in S : Before(q, r) => q = p \/ Sooner(q, p)
  BY <1>8 DEF Previous
<1> QED
  BY <1>9, TimesOf

-----------------------------------------------------------------------------
(* The clusters of a layout are its sessions.                              *)

\* A recording is linked to a later one within the gap, with nothing left out
\* between them.
Linked(a, b) ==
  /\ Start(b) <= End(a) + Gap
  /\ \A i \in layout.omitted : ~(/\ i[1] < Start(b) /\ i[2] > End(a)
                                 /\ End(a) < Start(b) /\ i[1] < i[2])
Joined(a, b) == IF Start(a) <= Start(b) THEN Linked(a, b) ELSE Linked(b, a)
Together(a, b) ==
  ~\E S \in SUBSET Recs : a \in S /\ b \notin S /\ ~\E x \in S, y \in Recs \ S : Joined(x, y)

\* A barrier lies between two times exactly if an omitted interval reaches into
\* the time between them.
LEMMA BarrierBlocks ==
  ASSUME NEW O \in SUBSET (Nat \X Nat), IsFiniteSet(O), NEW from \in Nat, NEW to \in Nat, from < to
  PROVE  blocks(from_intervals(O), from, to)
           <=> \E i \in O : i[1] < i[2] /\ i[1] < to /\ i[2] > from
<1> DEFINE real == {i \in O : i[1] < i[2]}
           opens == {i[1] : i \in {j \in real : ~\E k \in real : k[1] < j[1] /\ j[1] <= k[2]}}
           over(s) == {i[2] : i \in {j \in real : s < j[2] /\ ~\E k \in real : k[1] <= j[2] /\ j[2] < k[2]}}
           close(s) == Min(over(s))
           bars == {<<s, close(s)>> : s \in opens}
<1>1. from_intervals(O) = bars
  BY DEF from_intervals
<1>2. \A i \in real : i \in O /\ i[1] \in Nat /\ i[2] \in Nat /\ i[1] < i[2]
  OBVIOUS
<1>3. IsFiniteSet(real) /\ IsFiniteSet({i[1] : i \in real}) /\ IsFiniteSet({i[2] : i \in real})
  <2>1. IsFiniteSet(real)
    BY FS_Subset
  <2> HIDE DEF real
  <2> DEFINE one == [i \in real |-> i[1]]
             two == [i \in real |-> i[2]]
             ones == {i[1] : i \in real}
             twos == {i[2] : i \in real}
  <2>2. one \in Surjection(real, ones) /\ two \in Surjection(real, twos)
    BY DEF Surjection
  <2> HIDE DEF one, two, ones, twos
  <2>3. IsFiniteSet(ones) /\ IsFiniteSet(twos)
    BY <2>1, <2>2, FS_Surjection
  <2> QED BY <2>1, <2>3 DEF ones, twos
<1> HIDE DEF real
<1>4. /\ \A x : x \in opens <=> \E i \in real : x = i[1] /\ ~\E k \in real : k[1] < i[1] /\ i[1] <= k[2]
      /\ opens \subseteq Nat /\ IsFiniteSet(opens)
  <2>1. opens \subseteq {i[1] : i \in real} /\ opens \subseteq Nat
    BY <1>2
  <2>2. IsFiniteSet(opens)
    BY <1>3, <2>1, FS_Subset
  <2> QED BY <2>1, <2>2
<1>5. ASSUME NEW s \in opens
      PROVE  /\ close(s) \in Nat /\ s < close(s)
             /\ \E j \in real : close(s) = j[2] /\ ~\E k \in real : k[1] <= j[2] /\ j[2] < k[2]
             /\ \A j \in real : s < j[2] /\ ~(\E k \in real : k[1] <= j[2] /\ j[2] < k[2]) => close(s) <= j[2]
  <2>1. over(s) \subseteq {i[2] : i \in real} /\ over(s) \subseteq Nat
    BY <1>2
  <2>2. IsFiniteSet(over(s))
    BY <1>3, <2>1, FS_Subset
  <2>3. over(s) # {}
    <3>1. PICK i \in real : s = i[1]
      BY <1>4
    <3>2. {k[2] : k \in real} \subseteq Nat /\ {k[2] : k \in real} # {}
      BY <1>2, <3>1
    <3> DEFINE top == Max({k[2] : k \in real})
    <3>3. top \in {k[2] : k \in real} /\ \A x \in {k[2] : k \in real} : x <= top
      BY <1>3, <3>2, Extremes
    <3> HIDE DEF top
    <3>4. PICK j \in real : top = j[2]
      BY <3>3
    <3>5. \A k \in real : k[2] <= j[2]
      BY <3>3, <3>4
    <3>6. s < j[2] /\ ~\E k \in real : k[1] <= j[2] /\ j[2] < k[2]
      BY <1>2, <3>1, <3>5
    <3> QED BY <3>6
  <2> DEFINE c == close(s)
  <2>4. c \in over(s) /\ \A x \in over(s) : c <= x
    <3> HIDE DEF over
    <3> QED BY <2>1, <2>2, <2>3, Extremes
  <2> HIDE DEF c
  <2>5. PICK j \in real : c = j[2] /\ s < j[2] /\ ~\E k \in real : k[1] <= j[2] /\ j[2] < k[2]
    BY <2>4
  <2>6. \A i \in real : s < i[2] /\ ~(\E k \in real : k[1] <= i[2] /\ i[2] < k[2]) => c <= i[2]
    BY <2>4
  <2> QED BY <1>2, <2>5, <2>6 DEF c
<1> HIDE DEF opens, close, over
<1>6. blocks(bars, from, to)
        <=> \E s \in opens : s < to /\ close(s) > from /\ \A z \in opens : z < to => z <= s
  <2>1. ASSUME NEW b \in {x \in bars : x[1] < to}, b[2] > from, \A c \in {x \in bars : x[1] < to} : c[1] <= b[1]
        PROVE  \E s \in opens : s < to /\ close(s) > from /\ \A z \in opens : z < to => z <= s
    <3>1. PICK s \in opens : b = <<s, close(s)>>
      OBVIOUS
    <3>2. s < to /\ close(s) > from
      BY <2>1, <3>1
    <3>3. ASSUME NEW z \in opens, z < to PROVE z <= s
      <4>1. <<z, close(z)>> \in {x \in bars : x[1] < to}
        BY <3>3
      <4>2. <<z, close(z)>>[1] <= b[1]
        BY <2>1, <4>1
      <4> QED BY <3>1, <4>2
    <3> QED BY <3>2, <3>3
  <2>2. ASSUME NEW s \in opens, s < to, close(s) > from, \A z \in opens : z < to => z <= s
        PROVE  \E b \in {x \in bars : x[1] < to} : b[2] > from /\ \A c \in {x \in bars : x[1] < to} : c[1] <= b[1]
    <3> DEFINE b == <<s, close(s)>>
    <3>1. b \in {x \in bars : x[1] < to} /\ b[2] > from /\ b[1] = s
      BY <2>2
    <3>2. \A c \in {x \in bars : x[1] < to} : c[1] <= s
      BY <2>2
    <3> HIDE DEF b, bars
    <3> QED BY <3>1, <3>2
  <2> HIDE DEF bars
  <2> QED BY <2>1, <2>2 DEF blocks
<1>7. ASSUME NEW s \in opens, s < to, close(s) > from
      PROVE  \E i \in real : i[1] < to /\ i[2] > from
  <2>1. PICK i \in real : s = i[1]
    BY <1>4
  <2> DEFINE A == {k \in real : k[1] < to}
             tops == {k[2] : k \in A}
  <2>2. i \in A /\ tops \subseteq {k[2] : k \in real} /\ tops # {} /\ tops \subseteq Nat
    BY <1>2, <1>7, <2>1
  <2>3. IsFiniteSet(tops)
    BY <1>3, <2>2, FS_Subset
  <2>4. PICK m \in A : \A k \in A : k[2] <= m[2]
    <3> DEFINE top == Max(tops)
    <3>1. top \in tops /\ \A x \in tops : x <= top
      <4> HIDE DEF tops
      <4> QED BY <2>2, <2>3, Extremes
    <3> HIDE DEF top
    <3> QED BY <3>1
  <2>5. CASE m[2] > from
    BY <2>4, <2>5
  <2>6. CASE ~(m[2] > from)
    <3>1. m[2] <= from /\ s < m[2] /\ m \in real
      BY <1>2, <2>1, <2>2, <2>4, <2>6
    <3>2. ~\E k \in real : k[1] <= m[2] /\ m[2] < k[2]
      <4>1. ASSUME NEW k \in real, k[1] <= m[2], m[2] < k[2] PROVE FALSE
        <5>1. k[1] < to
          BY <1>2, <3>1, <4>1
        <5>2. k \in A
          BY <5>1
        <5> QED BY <1>2, <2>4, <3>1, <4>1, <5>2
      <4> QED BY <4>1
    <3>3. close(s) <= m[2]
      BY <1>5, <3>1, <3>2
    <3> QED BY <1>2, <1>5, <1>7, <3>1, <3>3
  <2> QED BY <2>5, <2>6
<1>8. ASSUME NEW i \in real, i[1] < to, i[2] > from
      PROVE  \E s \in opens : s < to /\ close(s) > from /\ \A z \in opens : z < to => z <= s
  <2>1. PICK o \in opens : o < to
    <3> DEFINE starts == {k[1] : k \in real}
    <3>1. starts \subseteq Nat /\ starts # {}
      BY <1>2
    <3> DEFINE low == Min(starts)
    <3>2. low \in starts /\ \A x \in starts : low <= x
      <4> HIDE DEF starts
      <4> QED BY <1>3, <3>1, Extremes DEF starts
    <3> HIDE DEF low
    <3>3. PICK k \in real : \A h \in real : k[1] <= h[1]
      BY <3>2
    <3>4. k[1] \in opens
      BY <1>2, <1>4, <3>3
    <3> QED BY <1>2, <1>8, <3>3, <3>4
  <2> DEFINE early == {z \in opens : z < to}
             s == Max(early)
  <2>2. s \in early /\ \A z \in early : z <= s
    <3>1. early \subseteq Nat /\ early # {} /\ early \subseteq opens
      BY <1>4, <2>1
    <3>2. IsFiniteSet(early)
      BY <1>4, <3>1, FS_Subset
    <3> HIDE DEF early
    <3> QED BY <3>1, <3>2, Extremes
  <2> HIDE DEF s
  <2>3. s \in opens /\ s < to /\ \A z \in opens : z < to => z <= s
    BY <2>2
  <2>4. CASE close(s) > from
    BY <2>3, <2>4
  <2>5. CASE ~(close(s) > from)
    <3> DEFINE c == close(s)
    <3>1. PICK j \in real : c = j[2] /\ ~\E k \in real : k[1] <= j[2] /\ j[2] < k[2]
      BY <1>5, <2>3
    <3>2. c \in Nat /\ s < c /\ c <= from /\ s \in Nat
      BY <1>4, <1>5, <2>3, <2>5
    <3> HIDE DEF c
    <3> DEFINE B == {k \in real : k[1] > c /\ k[1] < to}
               firsts == {k[1] : k \in B}
    <3>3. i \in B
      BY <1>2, <1>8, <3>1, <3>2
    <3>4. firsts \subseteq Nat /\ firsts # {} /\ firsts \subseteq {k[1] : k \in real}
      BY <1>2, <3>3
    <3>5. PICK k \in B : \A h \in B : k[1] <= h[1]
      <4>1. IsFiniteSet(firsts)
        BY <1>3, <3>4, FS_Subset
      <4> DEFINE low == Min(firsts)
      <4>2. low \in firsts /\ \A x \in firsts : low <= x
        <5> HIDE DEF firsts
        <5> QED BY <3>4, <4>1, Extremes
      <4> HIDE DEF low
      <4> QED BY <4>2
    <3>6. k \in real /\ k[1] > c /\ k[1] < to /\ k[1] \in Nat
      BY <1>2, <3>5
    <3>7. ~\E h \in real : h[1] < k[1] /\ k[1] <= h[2]
      <4>1. ASSUME NEW h \in real, h[1] < k[1], k[1] <= h[2] PROVE FALSE
        <5>1. h[1] \in Nat /\ h[2] \in Nat
          BY <1>2
        <5>2. CASE h[1] > c
          <6>1. h \in B
            BY <3>6, <4>1, <5>1, <5>2, <1>8
          <6> QED BY <3>5, <3>6, <4>1, <5>1, <6>1
        <5>3. CASE ~(h[1] > c)
          BY <3>1, <3>2, <3>6, <4>1, <5>1, <5>3
        <5> QED BY <5>2, <5>3
      <4> QED BY <4>1
    <3>8. k[1] \in opens
      BY <1>4, <3>6, <3>7
    <3> QED BY <2>3, <3>2, <3>6, <3>8
  <2> QED BY <2>4, <2>5
<1> QED
  BY <1>1, <1>6, <1>7, <1>8 DEF real

\* What is linked across a moment is linked to the first recording after it.
LEMMA LinkedOver ==
  ASSUME Timed, NEW p \in Recs, NEW q \in Recs, NEW x \in Recs, NEW y \in Recs
  PROVE  /\ (x = y \/ Before(x, y)) /\ Linked(p, y) => Linked(p, x)
         /\ End(p) <= End(q) /\ Linked(p, y) => Linked(q, y)
         /\ Before(x, y) => (Joined(x, y) <=> Linked(x, y)) /\ (Joined(y, x) <=> Linked(x, y))
<1>1. \A r \in Recs : Start(r) \in Nat /\ End(r) \in Nat /\ Start(r) <= End(r)
  BY TimesOf
<1>2. Gap \in Nat /\ \A i \in layout.omitted : i[1] \in Nat /\ i[2] \in Nat
  BY TimesOf
<1>3. Before(x, y) => Start(x) <= Start(y)
  BY BeforeOrder
<1>4. (x = y \/ Before(x, y)) /\ Linked(p, y) => Linked(p, x)
  BY <1>1, <1>2, <1>3 DEF Linked
<1>5. End(p) <= End(q) /\ Linked(p, y) => Linked(q, y)
  BY <1>1, <1>2 DEF Linked
<1>6. Before(x, y) => (Joined(x, y) <=> Linked(x, y)) /\ (Joined(y, x) <=> Linked(x, y))
  <2>1. CASE Start(x) < Start(y)
    BY <1>1, <2>1 DEF Joined
  <2>2. CASE Start(x) = Start(y)
    <3>1. Linked(x, y) /\ Linked(y, x)
      BY <1>1, <1>2, <2>2 DEF Linked
    <3> QED BY <3>1 DEF Joined
  <2> QED BY <1>1, <1>3, <2>1, <2>2
<1> QED
  BY <1>4, <1>5, <1>6

\* _same_journey says whether two recordings are linked.
LEMMA SameIsLinked ==
  ASSUME Timed, layout.far = {}, NEW p \in Recs, NEW c \in Recs
  PROVE  _same_journey(p, c, Spanning(Recs)) <=> Linked(p, c)
<1> DEFINE starts == {Start(r) : r \in Recs}
           ends == {End(r) : r \in Recs}
           first == Min(starts)
           last == Max(ends)
           O == IF last <= first THEN {} ELSE {i \in layout.omitted : i[1] < last /\ i[2] > first}
           from == End(p)
           to == Start(c)
<1>1. Spanning(Recs) = from_intervals(O)
  BY DEF Spanning, _intentional_gaps
<1>2. /\ \A r \in Recs : Start(r) \in Nat /\ End(r) \in Nat /\ Start(r) <= End(r)
      /\ IsFiniteSet(Recs) /\ IsFiniteSet(layout.omitted) /\ layout.omitted \subseteq Nat \X Nat
  BY TimesOf
<1>3. first \in Nat /\ last \in Nat /\ first <= Start(p) /\ End(c) <= last
  <2> DEFINE f == [r \in Recs |-> Start(r)]
             g == [r \in Recs |-> End(r)]
  <2>1. f \in Surjection(Recs, starts) /\ g \in Surjection(Recs, ends)
    BY DEF Surjection
  <2>2. starts \subseteq Nat /\ ends \subseteq Nat /\ Start(p) \in starts /\ End(c) \in ends
    BY <1>2
  <2> HIDE DEF f, g, starts, ends
  <2>3. IsFiniteSet(starts) /\ IsFiniteSet(ends)
    BY <1>2, <2>1, FS_Surjection
  <2> QED BY <2>2, <2>3, Extremes
<1> HIDE DEF first, last
<1>4. from < to => (blocks(from_intervals(O), from, to)
                      <=> \E i \in layout.omitted : i[1] < i[2] /\ i[1] < to /\ i[2] > from)
  <2> SUFFICES ASSUME from < to
               PROVE  blocks(from_intervals(O), from, to)
                        <=> \E i \in layout.omitted : i[1] < i[2] /\ i[1] < to /\ i[2] > from
    OBVIOUS
  <2>1. O \in SUBSET (Nat \X Nat) /\ IsFiniteSet(O)
    BY <1>2, FS_Subset, FS_EmptySet
  <2>2. from \in Nat /\ to \in Nat
    BY <1>2
  <2>3. first <= from /\ to <= last /\ ~(last <= first)
    BY <1>2, <1>3
  <2>4. \A i \in layout.omitted : i[1] \in Nat /\ i[2] \in Nat
    BY <1>2
  <2>5. (\E i \in O : i[1] < i[2] /\ i[1] < to /\ i[2] > from)
          <=> \E i \in layout.omitted : i[1] < i[2] /\ i[1] < to /\ i[2] > from
    BY <1>3, <2>2, <2>3, <2>4
  <2>6. blocks(from_intervals(O), from, to)
          <=> \E i \in O : i[1] < i[2] /\ i[1] < to /\ i[2] > from
    <3> HIDE DEF O, from, to
    <3> QED BY <2>1, <2>2, BarrierBlocks
  <2> QED BY <2>5, <2>6
<1>5. ~(from < to) => ~blocks(from_intervals(O), from, to)
  BY DEF blocks
<1> HIDE DEF O
<1>6. _same_journey(p, c, Spanning(Recs))
        <=> to <= from + Gap /\ ~blocks(from_intervals(O), from, to)
  BY <1>1 DEF _same_journey
<1>7. Linked(p, c) <=> to <= from + Gap /\ ~(from < to /\ \E i \in layout.omitted : i[1] < i[2] /\ i[1] < to /\ i[2] > from)
  BY DEF Linked
<1> QED
  BY <1>4, <1>5, <1>6, <1>7

\* The recordings at which a new group begins.
Breaks == {r \in Recs : (\E p \in Recs : Before(p, r))
                          => ~_same_journey(Previous(Recs, r), r, Spanning(Recs))}
Group(b) == {r \in Recs : ~Before(r, b) /\ \A c \in Breaks : Before(c, b) \/ c = b \/ Before(r, c)}

\* A break is linked to nothing before it, and nothing is linked across it.
LEMMA BreaksCut ==
  ASSUME Timed, layout.far = {}, NEW r \in Recs
  PROVE  /\ r \in Breaks <=> \A p \in Recs : Before(p, r) => ~Linked(p, r)
         /\ \A p, q \in Recs : r \in Breaks /\ Before(p, r) /\ (r = q \/ Before(r, q)) => ~Linked(p, q)
<1>1. CASE \E p \in Recs : Before(p, r)
  <2> DEFINE m == Previous(Recs, r)
  <2>1. m \in Recs /\ Before(m, r) /\ \A q \in Recs : Before(q, r) => End(q) <= End(m)
    BY <1>1, PreviousEndsLast
  <2>2. r \in Breaks <=> ~_same_journey(m, r, Spanning(Recs))
    BY <1>1 DEF Breaks
  <2> HIDE DEF m
  <2>3. r \in Breaks <=> ~Linked(m, r)
    BY <2>1, <2>2, SameIsLinked
  <2>4. \A q \in Recs : Before(q, r) /\ Linked(q, r) => Linked(m, r)
    BY <2>1, LinkedOver
  <2>5. r \in Breaks <=> \A p \in Recs : Before(p, r) => ~Linked(p, r)
    BY <2>1, <2>3, <2>4
  <2> QED BY <2>5, LinkedOver
<1>2. CASE ~\E p \in Recs : Before(p, r)
  <2>1. r \in Breaks
    BY <1>2 DEF Breaks
  <2> QED BY <1>2, <2>1
<1> QED
  BY <1>1, <1>2

\* Every recording has a last break at or before it.
LEMMA HasGroup ==
  ASSUME Timed, NEW r \in Recs
  PROVE  \E b \in Breaks : r \in Group(b)
<1> DEFINE E == {c \in Breaks : c = r \/ Before(c, r)}
<1>1. Breaks \subseteq Recs
  BY DEF Breaks
<1>2. E # {}
  <2>1. PICK f \in Recs : \A x \in Recs : x = f \/ Before(f, x)
    <3>1. Recs \in SUBSET Recs /\ Recs # {}
      OBVIOUS
    <3> QED BY <3>1, Ends
  <2>2. f \in Breaks
    BY <2>1, BeforeOrder DEF Breaks
  <2> QED BY <2>1, <2>2
<1>3. PICK b \in E : \A c \in E : c = b \/ Before(c, b)
  <2>1. E \in SUBSET Recs
    BY <1>1
  <2> HIDE DEF E
  <2> QED BY <1>2, <2>1, Ends
<1>4. ~Before(r, b)
  BY <1>1, <1>3, BeforeOrder
<1>5. ASSUME NEW c \in Breaks PROVE Before(c, b) \/ c = b \/ Before(r, c)
  <2>1. CASE c \in E
    BY <1>3, <2>1
  <2>2. CASE c \notin E
    BY <1>1, <2>2, BeforeOrder
  <2> QED BY <2>1, <2>2
<1> QED
  BY <1>3, <1>4, <1>5 DEF Group

\* Nothing is joined across a break.
LEMMA NothingAcross ==
  ASSUME Timed, layout.far = {}, NEW b \in Breaks, NEW x \in Recs, NEW y \in Recs,
         Before(x, b), ~Before(y, b)
  PROVE  ~Joined(x, y) /\ ~Joined(y, x)
<1>1. b \in Recs
  BY DEF Breaks
<1>2. b = y \/ Before(b, y)
  BY <1>1, BeforeOrder
<1>3. Before(x, y)
  BY <1>1, <1>2, BeforeOrder
<1>4. ~Linked(x, y)
  BY <1>1, <1>2, BreaksCut
<1> QED
  BY <1>3, <1>4, LinkedOver

\* Recordings that no cut separates are in one group.
LEMMA TogetherGrouped ==
  ASSUME Timed, layout.far = {}, NEW a \in Recs, NEW b \in Recs, Together(a, b)
  PROVE  \E h \in Breaks : a \in Group(h) /\ b \in Group(h)
<1>1. PICK h \in Breaks : a \in Group(h)
  BY HasGroup
<1>2. SUFFICES ASSUME b \notin Group(h) PROVE FALSE
  BY <1>1
<1>3. ~Before(a, h) /\ \A c \in Breaks : Before(c, h) \/ c = h \/ Before(a, c)
  BY <1>1 DEF Group
<1>4. CASE Before(b, h)
  <2> DEFINE S == {x \in Recs : ~Before(x, h)}
  <2>1. a \in S /\ b \notin S /\ S \in SUBSET Recs
    BY <1>3, <1>4
  <2>2. \A x \in S, y \in Recs \ S : ~Joined(x, y)
    BY NothingAcross
  <2> HIDE DEF S
  <2> QED BY <2>1, <2>2 DEF Together
<1>5. CASE ~Before(b, h)
  <2>1. PICK c \in Breaks : ~(Before(c, h) \/ c = h \/ Before(b, c))
    BY <1>2, <1>5 DEF Group
  <2> DEFINE S == {x \in Recs : Before(x, c)}
  <2>2. a \in S /\ b \notin S /\ S \in SUBSET Recs
    BY <1>3, <2>1
  <2>3. \A x \in S, y \in Recs \ S : ~Joined(x, y)
    BY NothingAcross
  <2> HIDE DEF S
  <2> QED BY <2>2, <2>3 DEF Together
<1> QED
  BY <1>4, <1>5

\* No cut separates the recordings of a group.
LEMMA GroupedTogether ==
  ASSUME Timed, layout.far = {}, NEW h \in Breaks, NEW a \in Group(h), NEW b \in Group(h)
  PROVE  Together(a, b)
<1> SUFFICES ASSUME NEW S \in SUBSET Recs, a \in S, b \notin S, ~\E x \in S, y \in Recs \ S : Joined(x, y)
             PROVE  FALSE
  BY DEF Together
<1>1. /\ h \in Recs /\ Breaks \subseteq Recs /\ Group(h) \subseteq Recs
      /\ \A r \in Group(h) : ~Before(r, h) /\ \A c \in Breaks : Before(c, h) \/ c = h \/ Before(r, c)
  BY DEF Breaks, Group
<1> DEFINE X == IF h \in S THEN Group(h) \ S ELSE Group(h) \cap S
<1>2. X # {} /\ X \in SUBSET Recs /\ X \subseteq Group(h) /\ h \notin X
  BY <1>1
<1>3. \A p, r \in Group(h) : p \notin X /\ r \in X => ~Joined(p, r) \/ ~Joined(r, p)
  BY <1>1
<1> HIDE DEF X
<1>4. PICK r \in X : \A x \in X : x = r \/ Before(r, x)
  BY <1>2, Ends
<1>5. r \in Recs /\ r \in Group(h) /\ r # h /\ Before(h, r)
  BY <1>1, <1>2, <1>4, BeforeOrder
<1>6. r \notin Breaks
  BY <1>1, <1>5, BeforeOrder
<1>7. PICK p \in Recs : Before(p, r) /\ Linked(p, r)
  BY <1>5, <1>6, BreaksCut
<1>8. ~Before(p, h)
  BY <1>1, <1>5, <1>7, BreaksCut
<1>9. p \in Group(h)
  <2>1. \A c \in Breaks : Before(c, h) \/ c = h \/ Before(p, c)
    BY <1>1, <1>5, <1>7, BeforeOrder
  <2> QED BY <1>8, <2>1 DEF Group
<1>10. p \notin X
  BY <1>2, <1>4, <1>5, <1>7, BeforeOrder
<1>11. Joined(p, r) /\ Joined(r, p)
  BY <1>5, <1>7, LinkedOver
<1> QED
  BY <1>3, <1>4, <1>5, <1>9, <1>10, <1>11

\* The clustering of any layout is that of its sessions (journeys/builder.py,
\* _cluster and IntentionalGapBarriers).
LEMMA ClustersRight ==
  ASSUME Timed
  PROVE  ClustersAreSessions
<1> SUFFICES ASSUME layout.far = {}, NEW a \in Recs, NEW b \in Recs
             PROVE  Together(a, b)
                      <=> \E S \in _cluster(Recs, Spanning(Recs)) : {a, b} \subseteq S
  BY DEF ClustersAreSessions, Together, Joined, Linked
<1>1. _cluster(Recs, Spanning(Recs)) = {Group(h) : h \in Breaks}
  BY DEF _cluster, Group, Breaks
<1>2. (\E S \in {Group(h) : h \in Breaks} : {a, b} \subseteq S) <=> \E h \in Breaks : a \in Group(h) /\ b \in Group(h)
  OBVIOUS
<1> QED
  BY <1>1, <1>2, TogetherGrouped, GroupedTogether

-----------------------------------------------------------------------------
(* Journeys there are.                                                     *)

\* The times of some recordings.
LEMMA SpanOf ==
  ASSUME Timed, NEW S \in SUBSET Recs, S # {}
  PROVE  LET first == Min({Start(r) : r \in S})
             last == Max({End(r) : r \in S})
         IN first \in Nat /\ last \in Nat /\ first <= last /\ 0 < last
<1> DEFINE starts == {Start(r) : r \in S}
           ends == {End(r) : r \in S}
           f == [r \in S |-> Start(r)]
           g == [r \in S |-> End(r)]
<1>1. f \in Surjection(S, starts) /\ g \in Surjection(S, ends)
  BY DEF Surjection
<1>2. IsFiniteSet(S) /\ \A r \in S : /\ Start(r) \in Nat /\ End(r) \in Nat
                                     /\ Start(r) <= End(r) /\ 0 < End(r)
  BY TimesOf, FS_Subset
<1>3. PICK r \in S : TRUE
  OBVIOUS
<1>4. /\ starts \subseteq Nat /\ ends \subseteq Nat /\ Start(r) \in starts /\ End(r) \in ends
      /\ starts # {} /\ ends # {}
  BY <1>2
<1> HIDE DEF f, g
<1>5. IsFiniteSet(starts) /\ IsFiniteSet(ends)
  BY <1>1, <1>2, FS_Surjection
<1> DEFINE first == Min(starts)
           last == Max(ends)
<1>6. first \in Nat /\ first <= Start(r) /\ last \in Nat /\ End(r) <= last
  <2> HIDE DEF starts, ends
  <2> QED BY <1>4, <1>5, Extremes
<1> HIDE DEF first, last
<1>7. first \in Nat /\ last \in Nat /\ first <= last /\ 0 < last
  BY <1>2, <1>3, <1>6
<1> QED
  BY <1>7 DEF first, last

\* A rollup over some recordings, or over none.
LEMMA RollupOf ==
  ASSUME Timed, NEW old \in Row, NEW S \in SUBSET Recs
  PROVE  LET q == Rollup(old, S) IN
         /\ q \in Row /\ q.manual = old.manual
         /\ S = {} => q = old
         /\ S # {} \/ (0 < old.last /\ old.first <= old.last) => 0 < q.last /\ q.first <= q.last
<1> DEFINE q == Rollup(old, S)
<1>1. CASE S = {}
  <2>1. q = old
    BY <1>1 DEF Rollup
  <2> QED BY <1>1, <2>1
<1>2. CASE S # {}
  <2>1. PICK f \in Nat, l \in Nat : f <= l /\ 0 < l /\ q = [old EXCEPT !.first = f, !.last = l]
    BY <1>2, SpanOf DEF Rollup
  <2>2. q \in Row /\ q.manual = old.manual /\ q.first = f /\ q.last = l
    BY <2>1 DEF Row
  <2> QED BY <1>2, <2>1, <2>2
<1> QED
  BY <1>1, <1>2

\* A journey becomes the user's.
LEMMA MadeManual ==
  ASSUME NEW old \in Row, NEW q, q = [old EXCEPT !.manual = TRUE]
  PROVE  q \in Row /\ q.first = old.first /\ q.last = old.last
<1>1. PICK b \in BOOLEAN : q = [old EXCEPT !.manual = b]
  OBVIOUS
<1> QED
  BY <1>1 DEF Row

\* Nothing is older than the zero of Gone.
LEMMA GoneIs == Gone \in Row /\ Gone.first = 0 /\ Gone.last = 0
BY DEF Gone, Row

\* Recordings are attached to a journey.
Attached(g, f, S, j) ==
  /\ g \in [Recs -> Membership]
  /\ \A r \in S : g[r].journey = j /\ g[r].rows = {j} /\ g[r].ready = f[r].ready
  /\ \A r \in Recs \ S : g[r] = f[r]

LEMMA AttachedTo ==
  ASSUME NEW f \in [Recs -> Membership], NEW S \in SUBSET Recs, NEW j \in 0 .. MaxJourney
  PROVE  Attached(_attach(f, S, j), f, S, j)
<1> DEFINE g == _attach(f, S, j)
<1>1. g = [r \in Recs |-> IF r \in S THEN [f[r] EXCEPT !.journey = j, !.rows = {j}] ELSE f[r]]
  BY DEF _attach
<1> HIDE DEF g
<1>2. ASSUME NEW r \in Recs
      PROVE  /\ g[r] \in Membership
             /\ r \in S => g[r].journey = j /\ g[r].rows = {j} /\ g[r].ready = f[r].ready
             /\ r \notin S => g[r] = f[r]
  <2>1. f[r] \in Membership
    OBVIOUS
  <2>2. CASE r \in S
    <3>1. PICK n \in SUBSET (0 .. MaxJourney) : n = {j} /\ g[r] = [f[r] EXCEPT !.journey = j, !.rows = n]
      BY <1>1, <2>2
    <3> QED BY <2>1, <2>2, <3>1 DEF Membership
  <2>3. CASE r \notin S
    BY <1>1, <2>1, <2>3
  <2> QED BY <2>2, <2>3
<1>3. g \in [Recs -> Membership]
  BY <1>1, <1>2
<1>4. Attached(g, f, S, j)
  BY <1>2, <1>3 DEF Attached
<1> QED
  BY <1>4 DEF g

\* What is seen is of the recordings' type.
LEMMA SeenIs ==
  ASSUME rec \in [Recs -> Membership], NEW S \in SUBSET Recs
  PROVE  Seen(S) \in Memory /\ DOMAIN Seen(S) = S
<1>1. Seen(S) \in [S -> Membership]
  BY DEF Seen
<1> QED
  BY <1>1 DEF Memory

\* The next cluster of a rebuild is one of its clusters.
LEMMA NowIs ==
  ASSUME Timed, rb \in Regrouping, rb.clusters # {}, \A S \in rb.clusters : S # {}
  PROVE  Now \in rb.clusters /\ Now \in SUBSET Recs /\ Now # {}
<1>1. rb.clusters \in SUBSET (SUBSET Recs)
  BY DEF Regrouping
<1>2. (UNION rb.clusters) \in SUBSET Recs /\ UNION rb.clusters # {}
  BY <1>1
<1>3. PICK f \in UNION rb.clusters : \A r \in UNION rb.clusters : r = f \/ Before(f, r)
  BY <1>2, Ends
<1>4. PICK S \in rb.clusters : f \in S
  BY <1>3
<1>5. \A T \in rb.clusters : \E r \in S : \A q \in T : r = q \/ Before(r, q)
  BY <1>3, <1>4
<1>6. Now \in rb.clusters
  BY <1>4, <1>5 DEF Now
<1> QED
  BY <1>1, <1>6

\* A clustering divides what it is given.
LEMMA ClustersWithin ==
  ASSUME Timed, NEW S \in SUBSET Recs, NEW bars, NEW T \in _cluster(S, bars)
  PROVE  T # {} /\ T \subseteq S
<1> DEFINE breaks == {r \in S : (\E p \in S : Before(p, r))
                                  => ~_same_journey(Previous(S, r), r, bars)}
           group(b) == {r \in S : ~Before(r, b)
                                  /\ \A c \in breaks : Before(c, b) \/ c = b \/ Before(r, c)}
<1>1. PICK b \in breaks : T = group(b)
  BY DEF _cluster
<1>2. breaks \subseteq S
  OBVIOUS
<1> HIDE DEF breaks
<1>3. b \in group(b)
  BY <1>1, <1>2, BeforeOrder
<1> QED
  BY <1>1, <1>3

\* The invariant is kept by what leaves the times alone.
LEMMA StillTimed == ASSUME Timed, UNCHANGED layout PROVE Timed'
BY DEF Timed

\* Journeys go on, none ends that a recording or its rows name.
LEMMA StillGoes ==
  ASSUME NEW m \in Membership, NEW at, NEW then, NEW times, NEW after, MaxJourney \in Nat,
         GoesWith(m, at, times), then = "none" => at = "none",
         \A i \in Ids : i = m.journey \/ i \in m.rows => (0 < times[i].last => 0 < after[i].last)
  PROVE  GoesWith(m, then, after)
<1>1. m.journey # 0 => m.journey \in Ids
  BY DEF Membership, Ids
<1>2. \A i \in m.rows \ {0} : i \in Ids
  BY DEF Membership, Ids
<1> QED
  BY <1>1, <1>2 DEF GoesWith

\* A step of one analysis: it moves on, and what it does to its recording.
LEMMA OneAnalysis ==
  ASSUME JourneysInv, NEW r \in Recs, UNCHANGED <<layout, jou, nextId, rb>>,
         NEW m \in Membership, rec' = [rec EXCEPT ![r] = m],
         NEW pc \in {"due", "stages", "failed"}, asg' = [asg EXCEPT ![r].pc = pc],
         m.journey = rec[r].journey, m.rows \subseteq rec[r].rows \cup {0}
  PROVE  JourneysInv'
<1>1. MaxJourney \in Nat /\ JourneyTypes
  BY TimesOf DEF JourneysInv
<1>2. ASSUME NEW q \in Recs
      PROVE  /\ asg'[q] \in Refresh /\ Scheduled(q)'
             /\ rec'[q] \in Membership /\ GoesWith(rec'[q], asg'[q].pc, jou')
  <2>1. /\ asg[q] \in Refresh /\ Scheduled(q)
        /\ rec[q] \in Membership /\ GoesWith(rec[q], asg[q].pc, jou)
    BY DEF JourneysInv, JourneyTypes
  <2>2. CASE q = r
    <3>1. asg'[q] = [asg[q] EXCEPT !.pc = pc]
      BY <1>1, <2>2 DEF JourneyTypes
    <3>2. asg'[q] \in Refresh /\ asg'[q].pc = pc /\ Scheduled(q)'
      BY <2>1, <3>1 DEF Refresh, Scheduled
    <3>3. rec'[q] = m
      BY <1>1, <2>2 DEF JourneyTypes
    <3>4. GoesWith(m, pc, jou)
      BY <2>1, <2>2 DEF GoesWith
    <3> QED BY <3>2, <3>3, <3>4
  <2>3. CASE q # r
    <3>1. asg'[q] = asg[q] /\ rec'[q] = rec[q]
      BY <1>1, <2>3 DEF JourneyTypes
    <3> QED BY <2>1, <3>1 DEF Scheduled
  <2> QED BY <2>2, <2>3
<1>3. JourneyTypes'
  <2>1. rec' \in [Recs -> Membership]
    BY <1>1, <1>2 DEF JourneyTypes
  <2>2. asg' \in [Recs -> Refresh]
    BY <1>1, <1>2 DEF JourneyTypes
  <2> QED BY <1>1, <2>1, <2>2 DEF JourneyTypes
<1>4. Timed' /\ (\A j \in Ids : Dated(j)') /\ Regrouped'
  BY StillTimed DEF JourneysInv, Dated, Regrouped
<1> QED
  BY <1>2, <1>3, <1>4 DEF JourneysInv

\* An analysis comes due, starts, commits a stage or gives up.
LEMMA JourneysStages ==
  ASSUME JourneysInv, NEW r \in Recs,
         Reanalyse(r) \/ AnalysisStarts(r) \/ StageCommits(r) \/ StageFails(r)
  PROVE  JourneysInv'
<1>1. JourneyTypes /\ rec[r] \in Membership /\ MaxJourney \in Nat
  BY TimesOf DEF JourneysInv, JourneyTypes
<1>2. rec = [rec EXCEPT ![r] = rec[r]]
  BY <1>1 DEF JourneyTypes
<1>3. CASE Reanalyse(r)
  <2>1. PICK b \in {FALSE, rec[r].ready} : rec' = [rec EXCEPT ![r].ready = b]
    BY <1>3 DEF Reanalyse
  <2>2. PICK m : m = [rec[r] EXCEPT !.ready = b]
    OBVIOUS
  <2>3. b \in BOOLEAN
    BY <1>1 DEF Membership
  <2>4. m \in Membership /\ m.journey = rec[r].journey /\ m.rows = rec[r].rows
    BY <1>1, <2>2, <2>3 DEF Membership
  <2>5. rec' = [rec EXCEPT ![r] = m]
    BY <1>1, <2>1, <2>2 DEF JourneyTypes
  <2>6. asg' = [asg EXCEPT ![r].pc = "due"] /\ UNCHANGED <<layout, jou, nextId, rb>>
    BY <1>3 DEF Reanalyse
  <2> QED BY <2>4, <2>5, <2>6, OneAnalysis
<1>4. CASE AnalysisStarts(r)
  <2>1. asg' = [asg EXCEPT ![r].pc = "stages"] /\ UNCHANGED <<layout, rec, jou, nextId, rb>>
    BY <1>4 DEF AnalysisStarts
  <2> QED BY <1>1, <1>2, <2>1, OneAnalysis
<1>5. CASE StageCommits(r)
  <2>1. PICK kept \in SUBSET rec[r].rows, b \in {rec[r].ready, TRUE} :
          rec' = [rec EXCEPT ![r].rows = {0} \cup kept, ![r].ready = b]
    BY <1>5 DEF StageCommits
  <2>2. PICK n : n = {0} \cup kept
    OBVIOUS
  <2>3. b \in BOOLEAN /\ n \in SUBSET (0 .. MaxJourney) /\ n \subseteq rec[r].rows \cup {0}
    <3>1. /\ rec[r].ready \in BOOLEAN /\ rec[r].rows \in SUBSET (0 .. MaxJourney)
          /\ 0 \in 0 .. MaxJourney
      BY <1>1 DEF Membership
    <3>2. b \in BOOLEAN
      BY <2>1, <3>1
    <3>3. n \subseteq rec[r].rows \cup {0}
      BY <2>2
    <3> QED BY <3>1, <3>2, <3>3
  <2>4. PICK m : m = [rec[r] EXCEPT !.rows = n, !.ready = b]
    OBVIOUS
  <2>5. m \in Membership /\ m.journey = rec[r].journey /\ m.rows = n
    BY <1>1, <2>3, <2>4 DEF Membership
  <2>6. rec' = [rec EXCEPT ![r] = m]
    BY <1>1, <2>1, <2>2, <2>4 DEF JourneyTypes
  <2>7. asg = [asg EXCEPT ![r].pc = "stages"]
    <3>1. asg[r].pc = "stages" /\ asg[r] \in Refresh
      BY <1>1, <1>5 DEF StageCommits, JourneyTypes
    <3>2. asg[r] = [asg[r] EXCEPT !.pc = "stages"]
      BY <3>1 DEF Refresh
    <3> QED BY <1>1, <3>2 DEF JourneyTypes
  <2>8. UNCHANGED <<layout, jou, nextId, rb, asg>>
    BY <1>5 DEF StageCommits
  <2>9. m.rows \subseteq rec[r].rows \cup {0}
    BY <2>3, <2>5
  <2> QED BY <2>5, <2>6, <2>7, <2>8, <2>9, OneAnalysis
<1>6. CASE StageFails(r)
  <2>1. asg' = [asg EXCEPT ![r].pc = "failed"] /\ UNCHANGED <<layout, rec, jou, nextId, rb>>
    BY <1>6 DEF StageFails
  <2> QED BY <1>1, <1>2, <2>1, OneAnalysis
<1> QED
  BY <1>3, <1>4, <1>5, <1>6

\* An analysis plans its refresh.
LEMMA JourneysAssignPlan ==
  ASSUME JourneysInv, NEW r \in Recs, AssignPlan(r)
  PROVE  JourneysInv'
<1>1. PICK j : /\ j = 0 \/ (j \in Ids /\ Exists(j))
               /\ asg' = [asg EXCEPT ![r] = _prepare_refresh(j, {r})]
  <2> DEFINE takers == {j \in Near(r) : Takes(j, r)}
  <2>1. \A j \in takers : j \in Ids /\ Exists(j)
    BY DEF Near, Ids
  <2>2. \E j \in IF takers = {} THEN {0} ELSE {k \in takers : \A l \in takers : jou[l].first <= jou[k].first} :
          asg' = [asg EXCEPT ![r] = _prepare_refresh(j, {r})]
    BY DEF AssignPlan
  <2> HIDE DEF takers
  <2> QED BY <2>1, <2>2
<1>2. UNCHANGED <<layout, rec, jou, nextId, rb>>
  BY DEF AssignPlan
<1>3. MaxJourney \in Nat /\ JourneyTypes
  BY TimesOf DEF JourneysInv
<1> DEFINE members == IF j = 0 THEN {} ELSE Members(j)
           seen == Seen(members \cup {r})
           old == IF j = 0 THEN Gone ELSE jou[j]
<1>4. /\ members \in SUBSET Recs /\ (j = 0 => members = {})
      /\ seen \in Memory /\ DOMAIN seen = members \cup {r}
  <2>1. members \in SUBSET Recs
    BY DEF Members, Ready
  <2>2. members \cup {r} \in SUBSET Recs
    BY <2>1
  <2> HIDE DEF members
  <2>3. seen \in Memory /\ DOMAIN seen = members \cup {r}
    BY <1>3, <2>2, SeenIs DEF JourneyTypes
  <2> QED BY <2>1, <2>3 DEF members
<1>5. old \in Row /\ j \in 0 .. MaxJourney /\ (j # 0 => old # Gone)
  BY <1>1, <1>3, GoneIs DEF JourneyTypes, Ids, Exists
<1>6. _prepare_refresh(j, {r}) = [pc |-> "planned", target |-> j, members |-> members, seen |-> seen, row |-> old]
  BY DEF _prepare_refresh
<1> HIDE DEF members, seen, old
<1>7. ASSUME NEW q \in Recs PROVE asg'[q] \in Refresh /\ Scheduled(q)'
  <2>1. asg[q] \in Refresh /\ Scheduled(q)
    BY DEF JourneysInv, JourneyTypes
  <2>2. CASE q = r
    <3>1. asg'[q] = [pc |-> "planned", target |-> j, members |-> members, seen |-> seen, row |-> old]
      BY <1>1, <1>3, <1>6, <2>2 DEF JourneyTypes
    <3> QED BY <1>4, <1>5, <2>2, <3>1 DEF Refresh, Scheduled
  <2>3. CASE q # r
    <3>1. asg'[q] = asg[q]
      BY <1>1, <1>3, <2>3 DEF JourneyTypes
    <3> QED BY <2>1, <3>1 DEF Scheduled
  <2> QED BY <2>2, <2>3
<1>8. JourneyTypes'
  <2>1. asg' \in [Recs -> Refresh]
    BY <1>1, <1>3, <1>7 DEF JourneyTypes
  <2> QED BY <1>2, <1>3, <2>1 DEF JourneyTypes
<1>9. Timed' /\ (\A i \in Ids : Dated(i)') /\ Regrouped'
  BY <1>2, StillTimed DEF JourneysInv, Dated, Regrouped
<1>10. ASSUME NEW q \in Recs PROVE GoesWith(rec'[q], asg'[q].pc, jou')
  <2>1. asg'[q].pc = "none" => asg[q].pc = "none"
    <3>1. CASE q = r
      BY <1>1, <1>3, <1>6, <3>1 DEF JourneyTypes
    <3>2. CASE q # r
      BY <1>1, <1>3, <3>2 DEF JourneyTypes
    <3> QED BY <3>1, <3>2
  <2> QED BY <1>2, <2>1 DEF JourneysInv, GoesWith
<1> QED
  BY <1>7, <1>8, <1>9, <1>10 DEF JourneysInv

\* Some recordings are attached to a journey whose times are derived from them.
LEMMA Grouping ==
  ASSUME Timed, JourneyTypes, NEW f \in [Recs -> Membership], NEW S \in SUBSET Recs, S # {}, NEW j \in Ids,
         \A q \in Ids : Dated(q),
         \A q \in Recs \ S : GoesWith(f[q], asg'[q].pc, jou),
         rec' = _attach(f, S, j),
         jou' = [jou EXCEPT ![j] = Rollup(@, S)]
  PROVE  /\ rec' \in [Recs -> Membership] /\ jou' \in [Ids -> Row]
         /\ (\A q \in Ids : Dated(q)') /\ \A q \in Recs : GoesWith(rec'[q], asg'[q].pc, jou')
<1>1. MaxJourney \in Nat /\ j \in 0 .. MaxJourney /\ j # 0 /\ jou \in [Ids -> Row]
  BY TimesOf DEF Ids, JourneyTypes
<1>2. /\ rec' \in [Recs -> Membership]
      /\ \A r \in S : rec'[r].journey = j /\ rec'[r].rows = {j} /\ rec'[r].ready = f[r].ready
      /\ \A r \in Recs \ S : rec'[r] = f[r]
  <2>1. Attached(_attach(f, S, j), f, S, j)
    BY <1>1, AttachedTo
  <2> QED BY <2>1 DEF Attached
<1>3. jou'[j] \in Row /\ 0 < jou'[j].last /\ jou'[j].first <= jou'[j].last
  <2>1. jou'[j] = Rollup(jou[j], S) /\ jou[j] \in Row
    BY <1>1
  <2> QED BY <2>1, RollupOf
<1>4. \A q \in Ids : q # j => jou'[q] = jou[q]
  BY <1>1
<1>5. jou' \in [Ids -> Row]
  BY <1>1, <1>3, <1>4
<1>6. \A q \in Ids : Dated(q)'
  BY <1>3, <1>4 DEF Dated
<1>7. ASSUME NEW q \in Recs PROVE GoesWith(rec'[q], asg'[q].pc, jou')
  <2>1. CASE q \in S
    BY <1>2, <1>3, <2>1 DEF GoesWith
  <2>2. CASE q \notin S
    <3>1. rec'[q] = f[q] /\ f[q] \in Membership /\ GoesWith(f[q], asg'[q].pc, jou)
      BY <1>2, <2>2
    <3>2. \A i \in Ids : 0 < jou[i].last => 0 < jou'[i].last
      BY <1>3, <1>4
    <3>3. \A i : i # 0 /\ (i = f[q].journey \/ i \in f[q].rows) => i \in Ids
      BY <1>1, <3>1 DEF Membership, Ids
    <3> QED BY <3>1, <3>2, <3>3 DEF GoesWith
  <2> QED BY <2>1, <2>2
<1> QED
  BY <1>2, <1>5, <1>6, <1>7

\* An analysis publishes its refresh, or finds it overtaken.
LEMMA JourneysAssignPublish ==
  ASSUME JourneysInv, NEW r \in Recs, AssignPublish(r)
  PROVE  JourneysInv'
<1>1. MaxJourney \in Nat /\ JourneyTypes /\ Timed /\ \A q \in Recs : rec[q] \in Membership /\ GoesWith(rec[q], asg[q].pc, jou)
  BY TimesOf DEF JourneysInv, JourneyTypes
<1>2. UNCHANGED <<layout, rb>> /\ asg[r].pc = "planned" /\ asg[r] \in Refresh /\ Scheduled(r)
  BY DEF AssignPublish, JourneysInv, JourneyTypes
<1> DEFINE draft == asg[r]
           group == DOMAIN draft.seen
           j == IF draft.target = 0 THEN nextId ELSE draft.target
<1>3. \/ /\ asg' = [asg EXCEPT ![r] = [NoPlan EXCEPT !.pc = "due"]] /\ UNCHANGED <<rec, jou, nextId>>
      \/ /\ ~Conflict(draft) /\ nextId <= MaxJourney
         /\ rec' = _attach(rec, group, j)
         /\ jou' = [jou EXCEPT ![j] = Rollup(@, group)]
         /\ nextId' = IF draft.target = 0 THEN nextId + 1 ELSE nextId
         /\ asg' = [asg EXCEPT ![r] = NoPlan]
  BY DEF AssignPublish
<1>4. \E p \in {"none", "due"} : asg' = [asg EXCEPT ![r] = [pc |-> p, target |-> 0, members |-> {}, seen |-> <<>>, row |-> Gone]]
  <2>1. NoPlan = [pc |-> "none", target |-> 0, members |-> {}, seen |-> <<>>, row |-> Gone]
    BY DEF NoPlan
  <2>2. [NoPlan EXCEPT !.pc = "due"] = [pc |-> "due", target |-> 0, members |-> {}, seen |-> <<>>, row |-> Gone]
    <3> DEFINE gone == Gone
               none == <<>>
    <3>1. NoPlan = [pc |-> "none", target |-> 0, members |-> {}, seen |-> none, row |-> gone]
      BY <2>1
    <3> SUFFICES [NoPlan EXCEPT !.pc = "due"] = [pc |-> "due", target |-> 0, members |-> {}, seen |-> none, row |-> gone]
      OBVIOUS
    <3> HIDE DEF gone, none
    <3> QED BY <3>1
  <2> QED BY <1>3, <2>1, <2>2
<1>5. asg' \in [Recs -> Refresh] /\ \A q \in Recs : Scheduled(q)'
  <2>1. PICK p \in {"none", "due"} : asg' = [asg EXCEPT ![r] = [pc |-> p, target |-> 0, members |-> {}, seen |-> <<>>, row |-> Gone]]
    BY <1>4
  <2>2. <<>> \in Memory
    <3>1. <<>> \in [{} -> Membership]
      OBVIOUS
    <3> QED BY <3>1 DEF Memory
  <2>3. [pc |-> p, target |-> 0, members |-> {}, seen |-> <<>>, row |-> Gone] \in Refresh
    BY <1>1, <2>2, GoneIs DEF Refresh
  <2>4. asg' \in [Recs -> Refresh]
    BY <1>1, <2>1, <2>3 DEF JourneyTypes
  <2>5. ASSUME NEW q \in Recs PROVE Scheduled(q)'
    <3>1. CASE q = r
      <4>1. asg'[q].pc = p
        BY <1>1, <2>1, <3>1 DEF JourneyTypes
      <4> QED BY <4>1 DEF Scheduled
    <3>2. CASE q # r
      <4>1. asg'[q] = asg[q] /\ Scheduled(q)
        BY <1>1, <2>1, <3>2 DEF JourneysInv, JourneyTypes
      <4> QED BY <4>1 DEF Scheduled
    <3> QED BY <3>1, <3>2
  <2> QED BY <2>4, <2>5
<1>6. /\ rec' \in [Recs -> Membership] /\ jou' \in [Ids -> Row] /\ nextId' \in 1 .. MaxJourney + 1
      /\ (\A q \in Ids : Dated(q)') /\ \A q \in Recs : GoesWith(rec'[q], asg'[q].pc, jou')
  <2>1. CASE /\ asg' = [asg EXCEPT ![r] = [NoPlan EXCEPT !.pc = "due"]]
             /\ UNCHANGED <<rec, jou, nextId>>
    <3>1. ASSUME NEW q \in Recs PROVE GoesWith(rec[q], asg'[q].pc, jou)
      <4>1. CASE q = r
        <5>1. asg'[q].pc # "none"
          BY <1>1, <2>1, <4>1 DEF JourneyTypes, NoPlan
        <5> QED BY <1>1, <5>1, StillGoes
      <4>2. CASE q # r
        <5>1. asg'[q] = asg[q]
          BY <1>1, <1>4, <4>2 DEF JourneyTypes
        <5> QED BY <1>1, <5>1
      <4> QED BY <4>1, <4>2
    <3> QED BY <1>1, <2>1, <3>1 DEF JourneysInv, JourneyTypes, Dated
  <2>2. CASE /\ ~Conflict(draft) /\ nextId <= MaxJourney
             /\ rec' = _attach(rec, group, j)
             /\ jou' = [jou EXCEPT ![j] = Rollup(@, group)]
             /\ nextId' = IF draft.target = 0 THEN nextId + 1 ELSE nextId
    <3>1. group = draft.members \cup {r} /\ draft.members \in SUBSET Recs /\ draft.target \in 0 .. MaxJourney
      BY <1>2 DEF Scheduled, Refresh
    <3>2. j \in Ids /\ nextId \in 1 .. MaxJourney + 1
      BY <1>1, <2>2, <3>1 DEF Ids, JourneyTypes
    <3>3. nextId' \in 1 .. MaxJourney + 1
      BY <1>1, <2>2, <3>2
    <3> HIDE DEF j
    <3>4. group \in SUBSET Recs /\ group # {} /\ r \in group
      BY <3>1
    <3> HIDE DEF group
    <3>5. \A q \in Recs \ group : GoesWith(rec[q], asg'[q].pc, jou)
      <4>1. \A q \in Recs \ {r} : asg'[q] = asg[q]
        BY <1>1, <1>4 DEF JourneyTypes
      <4> QED BY <1>1, <3>4, <4>1
    <3>6. (\A q \in Ids : Dated(q)) /\ rec \in [Recs -> Membership]
      BY DEF JourneysInv, JourneyTypes
    <3> QED BY <1>1, <2>2, <3>2, <3>3, <3>4, <3>5, <3>6, Grouping
  <2> QED BY <1>3, <2>1, <2>2
<1>7. JourneyTypes'
  BY <1>1, <1>2, <1>5, <1>6 DEF JourneyTypes
<1>8. Timed' /\ Regrouped'
  BY <1>2, StillTimed DEF JourneysInv, Regrouped
<1> QED
  BY <1>5, <1>6, <1>7, <1>8 DEF JourneysInv

-----------------------------------------------------------------------------
(* Rebuilds.                                                               *)

\* A rebuild that moves no recording and no journey keeps the invariant when
\* its own state is as it should be.
LEMMA OnlyRebuild ==
  ASSUME JourneysInv, UNCHANGED <<layout, rec, jou, nextId, asg>>, rb' \in Regrouping, Regrouped'
  PROVE  JourneysInv'
<1>1. JourneyTypes'
  BY DEF JourneysInv, JourneyTypes
<1>2. \A j \in Ids : Dated(j)'
  BY DEF JourneysInv, Dated
<1>3. \A r \in Recs : GoesWith(rec'[r], asg'[r].pc, jou') /\ Scheduled(r)'
  BY DEF JourneysInv, GoesWith, Scheduled
<1> QED
  BY <1>1, <1>2, <1>3, StillTimed DEF JourneysInv

\* A rebuild clusters the library.
LEMMA JourneysRebuildStart ==
  ASSUME JourneysInv, RebuildStart
  PROVE  JourneysInv'
<1> DEFINE M == Movable
           C == Clusters
           seen == Seen(M)
<1>1. /\ UNCHANGED <<layout, rec, jou, nextId, asg>>
      /\ rb' = [pc |-> "plan", clusters |-> C, expected |-> seen, used |-> {}, sources |-> {},
                deferred |-> {}, seen |-> <<>>]
  BY DEF RebuildStart, Idle
<1>2. M \in SUBSET Recs
  BY DEF Movable, Ready
<1>3. \A S \in C : S # {} /\ S \subseteq M
  BY <1>2, ClustersWithin DEF Clusters, JourneysInv
<1>4. seen \in Memory /\ DOMAIN seen = M
  BY <1>2, SeenIs DEF JourneysInv, JourneyTypes
<1>5. <<>> \in Memory
  <2>1. <<>> \in [{} -> Membership]
    OBVIOUS
  <2> QED BY <2>1 DEF Memory
<1> HIDE DEF M, C, seen
<1>6. rb' \in Regrouping
  BY <1>1, <1>2, <1>3, <1>4, <1>5 DEF Regrouping
<1>7. Regrouped'
  BY <1>1, <1>3, <1>4 DEF Regrouped
<1> QED
  BY <1>1, <1>6, <1>7, OnlyRebuild

\* A rebuild derives the next cluster's rollup.
LEMMA JourneysRebuildPlan ==
  ASSUME JourneysInv, RebuildPlan
  PROVE  JourneysInv'
<1> DEFINE seen == Seen(Now)
<1>1. /\ UNCHANGED <<layout, rec, jou, nextId, asg>> /\ rb.clusters # {}
      /\ rb' = [rb EXCEPT !.pc = "publish", !.seen = seen]
  BY DEF RebuildPlan
<1>2. rb \in Regrouping /\ Regrouped
  BY DEF JourneysInv, JourneyTypes
<1>3. Now \in SUBSET Recs
  BY <1>1, <1>2, NowIs DEF JourneysInv, Regrouped
<1>4. seen \in Memory
  BY <1>3, SeenIs DEF JourneysInv, JourneyTypes
<1> HIDE DEF seen
<1>5. rb' \in Regrouping
  BY <1>1, <1>2, <1>4 DEF Regrouping
<1>6. Regrouped'
  BY <1>1, <1>2 DEF Regrouped, Regrouping
<1> QED
  BY <1>1, <1>5, <1>6, OnlyRebuild

\* A rebuild is done with the next cluster.
LEMMA Stepped ==
  ASSUME JourneysInv, rb.clusters # {},
         NEW u \in SUBSET Ids, NEW s \in SUBSET Ids, NEW d \in SUBSET Ids, NEW q,
         q = [[rb EXCEPT !.used = u, !.sources = s, !.deferred = d]
                EXCEPT !.pc = "plan", !.clusters = @ \ {Now}, !.seen = <<>>],
         rb' = q
  PROVE  rb' \in Regrouping /\ Regrouped'
<1>1. rb \in Regrouping /\ Regrouped
  BY DEF JourneysInv, JourneyTypes
<1>2. <<>> \in Memory
  <2>1. <<>> \in [{} -> Membership]
    OBVIOUS
  <2> QED BY <2>1 DEF Memory
<1> DEFINE c == rb.clusters \ {Now}
<1>3. rb' = [rb EXCEPT !.used = u, !.sources = s, !.deferred = d, !.pc = "plan", !.clusters = c, !.seen = <<>>]
  BY <1>1 DEF Regrouping
<1>4. c \in SUBSET (SUBSET Recs) /\ c \subseteq rb.clusters
  BY <1>1 DEF Regrouping
<1> HIDE DEF c
<1>5. rb' \in Regrouping
  BY <1>1, <1>2, <1>3, <1>4 DEF Regrouping
<1>6. rb'.expected = rb.expected /\ rb'.pc = "plan" /\ rb'.clusters = c
  BY <1>1, <1>3 DEF Regrouping
<1> QED
  BY <1>1, <1>4, <1>5, <1>6 DEF Regrouped

\* The journeys a cluster was found in, and is in.
LEMMA WasInIds ==
  ASSUME JourneysInv, rb.clusters # {}
  PROVE  LET S == Now IN
         /\ S \in SUBSET Recs /\ S # {}
         /\ WasIn(S) \in SUBSET Ids
         /\ {rec[r].journey : r \in S} \ {0} \in SUBSET Ids
<1> DEFINE S == Now
<1>1. rb \in Regrouping /\ Regrouped /\ MaxJourney \in Nat /\ JourneyTypes
  BY TimesOf DEF JourneysInv, JourneyTypes
<1>2. S \in rb.clusters /\ S \in SUBSET Recs /\ S # {}
  BY <1>1, NowIs DEF JourneysInv, Regrouped
<1> HIDE DEF S
<1>3. S \subseteq DOMAIN rb.expected
  BY <1>1, <1>2 DEF Regrouped
<1>4. \A r \in DOMAIN rb.expected : rb.expected[r] \in Membership
  <2>1. rb.expected \in Memory
    BY <1>1 DEF Regrouping
  <2>2. PICK D \in SUBSET Recs : rb.expected \in [D -> Membership]
    BY <2>1 DEF Memory
  <2> QED BY <2>2
<1>5. WasIn(S) \in SUBSET Ids
  BY <1>1, <1>3, <1>4 DEF WasIn, Membership, Ids
<1>6. \A r \in S : rec[r] \in Membership
  BY <1>1, <1>2 DEF JourneyTypes
<1>7. {rec[r].journey : r \in S} \ {0} \in SUBSET Ids
  BY <1>1, <1>6 DEF Membership, Ids
<1> QED
  BY <1>2, <1>5, <1>7 DEF S

\* A rebuild regroups one cluster, or leaves it to a later one.
LEMMA JourneysRebuildCluster ==
  ASSUME JourneysInv, RebuildCluster
  PROVE  JourneysInv'
<1> DEFINE S == Now
           old == {rec[r].journey : r \in S} \ {0}
           j == IF Reusable(S) = {} THEN nextId ELSE Min(Reusable(S))
<1>1. /\ Timed /\ JourneyTypes /\ rb \in Regrouping /\ Regrouped /\ MaxJourney \in Nat
      /\ \A r \in Recs : rec[r] \in Membership /\ GoesWith(rec[r], asg[r].pc, jou) /\ Scheduled(r)
      /\ \A q \in Ids : Dated(q)
  BY TimesOf DEF JourneysInv, JourneyTypes
<1>2. rb.pc = "publish" /\ UNCHANGED <<layout, asg>>
  BY DEF RebuildCluster
<1>3. rb.clusters # {}
  BY <1>1, <1>2 DEF Regrouped
<1>4. S \in SUBSET Recs /\ S # {} /\ WasIn(S) \in SUBSET Ids /\ old \in SUBSET Ids
  BY <1>3, WasInIds
<1>5. rb.used \in SUBSET Ids /\ rb.sources \in SUBSET Ids /\ rb.deferred \in SUBSET Ids
  BY <1>1 DEF Regrouping
<1>6. \/ /\ rb' = Step([rb EXCEPT !.deferred = @ \cup WasIn(S)])
         /\ UNCHANGED <<rec, jou, nextId>>
      \/ /\ Unchanged(S)
         /\ rec' = _attach(rec, S, 0)
         /\ rb' = Step([rb EXCEPT !.sources = @ \cup old])
         /\ UNCHANGED <<jou, nextId>>
      \/ /\ Unchanged(S)
         /\ j <= MaxJourney
         /\ rec' = _attach(rec, S, j)
         /\ jou' = [jou EXCEPT ![j] = Rollup(@, S)]
         /\ nextId' = IF j = nextId THEN nextId + 1 ELSE nextId
         /\ rb' = Step([rb EXCEPT !.sources = @ \cup old, !.used = @ \cup {j}])
  BY DEF RebuildCluster
<1>7. j <= MaxJourney => j \in Ids
  <2>1. CASE Reusable(S) = {}
    BY <1>1, <2>1 DEF JourneyTypes, Ids
  <2>2. CASE Reusable(S) # {}
    <3> DEFINE R == Reusable(S)
    <3>1. R \subseteq old
      BY DEF Reusable
    <3>2. R \in SUBSET Ids /\ Ids \in SUBSET Nat /\ IsFiniteSet(Ids)
      BY <1>1, <1>4, <3>1, FS_Interval DEF Ids
    <3>3. R \in SUBSET Nat /\ IsFiniteSet(R)
      BY <3>2, FS_Subset
    <3> HIDE DEF R
    <3>4. Min(R) \in R
      BY <2>2, <3>3, Extremes DEF R
    <3> QED BY <2>2, <3>2, <3>4 DEF R
  <2> QED BY <2>1, <2>2
<1> HIDE DEF j, old
<1>8. rb' \in Regrouping /\ Regrouped'
  <2>1. CASE rb' = Step([rb EXCEPT !.deferred = @ \cup WasIn(S)])
    <3> DEFINE d == rb.deferred \cup WasIn(S)
    <3>1. d \in SUBSET Ids
      BY <1>4, <1>5
    <3>2. rb' = [[rb EXCEPT !.used = rb.used, !.sources = rb.sources, !.deferred = d]
                   EXCEPT !.pc = "plan", !.clusters = @ \ {Now}, !.seen = <<>>]
      BY <1>1, <2>1 DEF Regrouping, Step
    <3> HIDE DEF d
    <3> QED BY <1>3, <1>5, <3>1, <3>2, Stepped
  <2>2. CASE rb' = Step([rb EXCEPT !.sources = @ \cup old])
    <3> DEFINE s == rb.sources \cup old
    <3>1. s \in SUBSET Ids
      BY <1>4, <1>5
    <3>2. rb' = [[rb EXCEPT !.used = rb.used, !.sources = s, !.deferred = rb.deferred]
                   EXCEPT !.pc = "plan", !.clusters = @ \ {Now}, !.seen = <<>>]
      BY <1>1, <2>2 DEF Regrouping, Step
    <3> HIDE DEF s
    <3> QED BY <1>3, <1>5, <3>1, <3>2, Stepped
  <2>3. CASE j <= MaxJourney /\ rb' = Step([rb EXCEPT !.sources = @ \cup old, !.used = @ \cup {j}])
    <3> DEFINE s == rb.sources \cup old
               u == rb.used \cup {j}
    <3>1. s \in SUBSET Ids /\ u \in SUBSET Ids
      BY <1>4, <1>5, <1>7, <2>3
    <3>2. rb' = [[rb EXCEPT !.used = u, !.sources = s, !.deferred = rb.deferred]
                   EXCEPT !.pc = "plan", !.clusters = @ \ {Now}, !.seen = <<>>]
      BY <1>1, <2>3 DEF Regrouping, Step
    <3> HIDE DEF s, u
    <3> QED BY <1>3, <1>5, <3>1, <3>2, Stepped
  <2> QED BY <1>6, <2>1, <2>2, <2>3
<1> HIDE DEF S
<1>9. /\ rec' \in [Recs -> Membership] /\ jou' \in [Ids -> Row] /\ nextId' \in 1 .. MaxJourney + 1
      /\ (\A q \in Ids : Dated(q)') /\ \A q \in Recs : GoesWith(rec'[q], asg'[q].pc, jou')
  <2>1. CASE UNCHANGED <<rec, jou, nextId>>
    BY <1>1, <1>2, <2>1 DEF JourneyTypes, Dated, GoesWith
  <2>2. CASE rec' = _attach(rec, S, 0) /\ UNCHANGED <<jou, nextId>>
    <3>1. /\ rec' \in [Recs -> Membership]
          /\ \A r \in S : rec'[r].journey = 0 /\ rec'[r].rows = {0}
          /\ \A r \in Recs \ S : rec'[r] = rec[r]
      <4>1. rec \in [Recs -> Membership] /\ 0 \in 0 .. MaxJourney
        BY <1>1 DEF JourneyTypes
      <4>2. Attached(_attach(rec, S, 0), rec, S, 0)
        BY <1>4, <4>1, AttachedTo
      <4> QED BY <2>2, <4>2 DEF Attached
    <3>2. \A q \in Recs : GoesWith(rec'[q], asg'[q].pc, jou')
      BY <1>1, <1>2, <2>2, <3>1 DEF GoesWith
    <3> QED BY <1>1, <2>2, <3>1, <3>2 DEF JourneyTypes, Dated
  <2>3. CASE /\ Unchanged(S)
             /\ j <= MaxJourney
             /\ rec' = _attach(rec, S, j)
             /\ jou' = [jou EXCEPT ![j] = Rollup(@, S)]
             /\ nextId' = IF j = nextId THEN nextId + 1 ELSE nextId
    <3>1. j \in Ids /\ rec \in [Recs -> Membership] /\ \A q \in Recs \ S : GoesWith(rec[q], asg'[q].pc, jou)
      BY <1>1, <1>2, <1>7, <2>3 DEF JourneyTypes
    <3>3. nextId' \in 1 .. MaxJourney + 1
      BY <1>1, <2>3, <3>1 DEF JourneyTypes, Ids
    <3> QED BY <1>1, <1>4, <2>3, <3>1, <3>3, Grouping
  <2> QED BY <1>6, <2>1, <2>2, <2>3
<1>10. JourneyTypes'
  BY <1>1, <1>2, <1>8, <1>9 DEF JourneyTypes
<1>11. Timed' /\ \A r \in Recs : Scheduled(r)'
  BY <1>1, <1>2, StillTimed DEF Scheduled
<1> QED
  BY <1>8, <1>9, <1>10, <1>11 DEF JourneysInv

\* A journey row is derived anew, or an empty one deleted.
LEMMA JourneysRebuildClose ==
  ASSUME JourneysInv, RebuildClose
  PROVE  JourneysInv'
<1>1. /\ Timed /\ JourneyTypes /\ rb \in Regrouping /\ Regrouped /\ MaxJourney \in Nat
      /\ \A r \in Recs : rec[r] \in Membership /\ GoesWith(rec[r], asg[r].pc, jou) /\ Scheduled(r)
      /\ \A q \in Ids : Dated(q)
  BY TimesOf DEF JourneysInv, JourneyTypes
<1>2. UNCHANGED <<layout, rec, nextId, asg>> /\ rb.pc = "plan" /\ rb.clusters = {}
  BY DEF RebuildClose
<1>3. CASE rb' = Idle /\ UNCHANGED jou
  <2>1. <<>> \in Memory
    <3>1. <<>> \in [{} -> Membership]
      OBVIOUS
    <3> QED BY <3>1 DEF Memory
  <2>2. rb' \in Regrouping /\ Regrouped'
    BY <1>3, <2>1 DEF Idle, Regrouping, Regrouped
  <2> QED BY <1>2, <1>3, <2>2, OnlyRebuild
<1>4. CASE Leftover # {}
  <2> DEFINE L == Leftover
             j == Min(L)
             next == IF jou[j].manual \/ ~Exists(j) THEN jou[j]
                     ELSE IF Members(j) # {} THEN Rollup(jou[j], Members(j))
                     ELSE IF Unreferenced(j) THEN Gone
                     ELSE jou[j]
  <2>1. rb' = [rb EXCEPT !.sources = @ \ {j}] /\ jou' = [jou EXCEPT ![j] = next]
    BY <1>4 DEF RebuildClose
  <2>2. j \in Ids
    <3>1. L \in SUBSET Ids /\ Ids \in SUBSET Nat /\ IsFiniteSet(Ids)
      <4>1. Ids \in SUBSET Nat /\ IsFiniteSet(Ids)
        <5>1. MaxJourney \in Nat
          BY <1>1
        <5> QED BY <5>1, FS_Interval DEF Ids
      <4>2. rb.sources \in SUBSET Ids
        <5>1. rb \in Regrouping
          BY <1>1
        <5> QED BY <5>1 DEF Regrouping
      <4>3. L \in SUBSET rb.sources
        BY DEF Leftover
      <4> QED BY <4>1, <4>2, <4>3
    <3>2. L \in SUBSET Nat /\ IsFiniteSet(L) /\ L # {}
      BY <1>4, <3>1, FS_Subset
    <3> HIDE DEF L
    <3>3. Min(L) \in L
      BY <3>2, Extremes
    <3> QED BY <3>1, <3>3
  <2> HIDE DEF j
  <2>3. /\ next \in Row
        /\ \/ next = jou[j]
           \/ 0 < next.last /\ next.first <= next.last
           \/ next = Gone /\ Unreferenced(j)
    <3>1. jou[j] \in Row /\ Members(j) \in SUBSET Recs
      BY <1>1, <2>2 DEF JourneyTypes, Members, Ready
    <3>2. CASE next = Rollup(jou[j], Members(j)) /\ Members(j) # {}
      <4> HIDE DEF next
      <4> QED BY <1>1, <3>1, <3>2, RollupOf
    <3> QED BY <3>1, <3>2, GoneIs
  <2> HIDE DEF next
  <2>4. jou' \in [Ids -> Row] /\ jou'[j] = next /\ \A q \in Ids : q # j => jou'[q] = jou[q]
    BY <1>1, <2>1, <2>2, <2>3 DEF JourneyTypes
  <2>5. \A q \in Ids : Dated(q)'
    BY <1>1, <2>3, <2>4 DEF Dated
  <2>6. ASSUME NEW r \in Recs PROVE GoesWith(rec'[r], asg'[r].pc, jou')
    <3>1. rec'[r] = rec[r] /\ rec[r] \in Membership /\ GoesWith(rec[r], asg[r].pc, jou)
      BY <1>1, <1>2
    <3>2. j = rec[r].journey \/ j \in rec[r].rows => next = jou[j] \/ 0 < next.last
      BY <2>3 DEF Unreferenced
    <3>3. \A i \in Ids : i = rec[r].journey \/ i \in rec[r].rows => (0 < jou[i].last => 0 < jou'[i].last)
      BY <2>4, <3>2
    <3>4. asg' = asg
      BY <1>2
    <3> QED BY <1>1, <3>1, <3>3, <3>4, StillGoes
  <2>7. rb' \in Regrouping /\ Regrouped'
    BY <1>1, <1>2, <2>1 DEF Regrouping, Regrouped
  <2>8. JourneyTypes'
    BY <1>1, <1>2, <2>4, <2>7 DEF JourneyTypes
  <2>9. Timed' /\ \A r \in Recs : Scheduled(r)'
    BY <1>1, <1>2, StillTimed DEF Scheduled
  <2> QED
    BY <2>5, <2>6, <2>7, <2>8, <2>9 DEF JourneysInv
<1> QED
  BY <1>3, <1>4 DEF RebuildClose

-----------------------------------------------------------------------------
(* The user, and the theorems.                                             *)

\* An edit leaves the analyses and the rebuild as they are.
LEMMA OnlyRows ==
  ASSUME JourneysInv, UNCHANGED <<layout, rb, asg>>,
         rec' \in [Recs -> Membership], jou' \in [Ids -> Row], nextId' \in 1 .. MaxJourney + 1,
         \A q \in Ids : Dated(q)', \A q \in Recs : GoesWith(rec'[q], asg'[q].pc, jou')
  PROVE  JourneysInv'
<1>1. JourneyTypes' /\ Regrouped'
  BY DEF JourneysInv, JourneyTypes, Regrouped
<1>2. \A r \in Recs : Scheduled(r)'
  BY DEF JourneysInv, Scheduled
<1> QED
  BY <1>1, <1>2, StillTimed DEF JourneysInv

\* The user merges two journeys.
LEMMA JourneysMerge ==
  ASSUME JourneysInv, merge
  PROVE  JourneysInv'
<1>1. /\ Timed /\ JourneyTypes /\ MaxJourney \in Nat
      /\ \A r \in Recs : rec[r] \in Membership /\ GoesWith(rec[r], asg[r].pc, jou)
      /\ \A q \in Ids : Dated(q)
  BY TimesOf DEF JourneysInv, JourneyTypes
<1>2. UNCHANGED <<layout, nextId, rb, asg>>
  BY DEF merge
<1>3. PICK j \in Ids, k \in Ids :
         /\ j # k /\ Exists(j) /\ Exists(k)
         /\ LET moved == [r \in Recs |->
                  [rec[r] EXCEPT !.journey = IF @ = k THEN j ELSE @,
                                 !.rows = IF k \in @ THEN (@ \ {k}) \cup {0} ELSE @]]
                members == {r \in Recs : moved[r].ready /\ moved[r].journey = j}
            IN /\ rec' = _attach(moved, members, j)
               /\ jou' = [jou EXCEPT ![k] = Gone, ![j] = [Rollup(@, members) EXCEPT !.manual = TRUE]]
  BY DEF merge, Ids
<1> DEFINE moved == [r \in Recs |->
                  [rec[r] EXCEPT !.journey = IF @ = k THEN j ELSE @,
                                 !.rows = IF k \in @ THEN (@ \ {k}) \cup {0} ELSE @]]
           members == {r \in Recs : moved[r].ready /\ moved[r].journey = j}
           rollup == Rollup(jou[j], members)
           fresh == [rollup EXCEPT !.manual = TRUE]
<1>4. /\ rec' = _attach(moved, members, j) /\ members \in SUBSET Recs
      /\ jou' = [jou EXCEPT ![k] = Gone, ![j] = fresh]
  <2>1. jou' = [jou EXCEPT ![k] = Gone, ![j] = [Rollup(@, members) EXCEPT !.manual = TRUE]]
    BY <1>3
  <2>2. [jou EXCEPT ![k] = Gone][j] = jou[j]
    BY <1>1, <1>3 DEF JourneyTypes
  <2> HIDE DEF moved
  <2> QED BY <1>3, <2>1, <2>2 DEF moved
<1>5. ASSUME NEW r \in Recs
      PROVE  /\ moved[r] \in Membership /\ moved[r].ready = rec[r].ready
             /\ moved[r].journey = IF rec[r].journey = k THEN j ELSE rec[r].journey
             /\ moved[r].rows = IF k \in rec[r].rows THEN (rec[r].rows \ {k}) \cup {0} ELSE rec[r].rows
  <2> DEFINE to == IF rec[r].journey = k THEN j ELSE rec[r].journey
             c == IF k \in rec[r].rows THEN (rec[r].rows \ {k}) \cup {0} ELSE rec[r].rows
  <2>1. to \in 0 .. MaxJourney /\ c \in SUBSET (0 .. MaxJourney)
    <3>1. rec[r].journey \in 0 .. MaxJourney /\ rec[r].rows \in SUBSET (0 .. MaxJourney)
      BY <1>1 DEF Membership
    <3>2. j \in 0 .. MaxJourney /\ 0 \in 0 .. MaxJourney
      BY <1>1 DEF Ids
    <3> QED BY <3>1, <3>2
  <2>2. moved[r] = [rec[r] EXCEPT !.journey = to, !.rows = c]
    OBVIOUS
  <2> HIDE DEF moved, to, c
  <2>3. rec[r] \in Membership
    BY <1>1
  <2>4. moved[r] \in Membership /\ moved[r].journey = to /\ moved[r].rows = c /\ moved[r].ready = rec[r].ready
    <3> DEFINE w == moved[r]
    <3>1. w = [rec[r] EXCEPT !.journey = to, !.rows = c]
      BY <2>2
    <3> HIDE DEF w
    <3>2. w \in Membership /\ w.journey = to /\ w.rows = c /\ w.ready = rec[r].ready
      BY <2>1, <2>3, <3>1 DEF Membership
    <3> QED BY <3>2 DEF w
  <2> QED BY <2>4 DEF to, c
<1>6. moved \in [Recs -> Membership]
  <2>1. DOMAIN moved = Recs /\ moved = [r \in Recs |-> moved[r]]
    OBVIOUS
  <2> HIDE DEF moved
  <2> QED BY <1>5, <2>1
<1>7. \A r \in Recs : r \in members <=> rec[r].ready /\ rec[r].journey \in {j, k}
  <2>1. \A r \in Recs : r \in members <=> moved[r].ready /\ moved[r].journey = j
    OBVIOUS
  <2> HIDE DEF moved, members
  <2> QED BY <1>3, <1>5, <2>1
<1>8. rollup \in Row /\ 0 < rollup.last /\ rollup.first <= rollup.last
  <2>1. jou[j] \in Row /\ 0 < jou[j].last /\ jou[j].first <= jou[j].last
    BY <1>1, <1>3 DEF JourneyTypes, Dated, Exists
  <2> HIDE DEF members
  <2> QED BY <1>1, <1>4, <2>1, RollupOf
<1> HIDE DEF rollup
<1>9. fresh \in Row /\ 0 < fresh.last /\ fresh.first <= fresh.last
  BY <1>8, MadeManual
<1> HIDE DEF fresh, moved, members
<1>10. /\ rec' \in [Recs -> Membership]
       /\ \A r \in members : rec'[r].journey = j /\ rec'[r].rows = {j} /\ rec'[r].ready = moved[r].ready
       /\ \A r \in Recs \ members : rec'[r] = moved[r]
  <2>1. moved \in [Recs -> Membership] /\ members \in SUBSET Recs /\ j \in 0 .. MaxJourney
    BY <1>1, <1>4, <1>6 DEF Ids
  <2>2. Attached(_attach(moved, members, j), moved, members, j)
    BY <2>1, AttachedTo
  <2> QED BY <1>4, <2>2 DEF Attached
<1>11. /\ jou' \in [Ids -> Row] /\ jou'[j] = fresh /\ jou'[k] = Gone
       /\ \A q \in Ids : q # j /\ q # k => jou'[q] = jou[q]
  BY <1>1, <1>3, <1>4, <1>9, GoneIs DEF JourneyTypes
<1>12. \A q \in Ids : Dated(q)'
  BY <1>1, <1>9, <1>11 DEF Dated
<1>13. ASSUME NEW r \in Recs PROVE GoesWith(rec'[r], asg'[r].pc, jou')
  <2>1. rec[r] \in Membership /\ GoesWith(rec[r], asg[r].pc, jou) /\ asg' = asg
    BY <1>1, <1>2
  <2>2. CASE r \in members
    <3>1. rec'[r].journey = j /\ rec'[r].rows = {j}
      BY <1>10, <2>2
    <3> QED BY <1>9, <1>11, <3>1 DEF GoesWith
  <2>3. CASE r \notin members
    <3>1. rec'[r] = moved[r]
      BY <1>10, <2>3
    <3>2. \A i \in Ids \ {k} : 0 < jou[i].last => 0 < jou'[i].last
      BY <1>9, <1>11
    <3>3. rec[r].journey \in 0 .. MaxJourney /\ rec[r].rows \in SUBSET (0 .. MaxJourney)
      BY <2>1 DEF Membership
    <3>4. rec'[r].journey # 0 => 0 < jou'[rec'[r].journey].last
      <4>1. CASE rec[r].journey = k
        BY <1>5, <1>9, <1>11, <3>1, <4>1
      <4>2. CASE rec[r].journey # k
        <5>1. rec'[r].journey = rec[r].journey
          BY <1>5, <3>1, <4>2
        <5> QED BY <1>1, <2>1, <3>2, <3>3, <4>2, <5>1 DEF GoesWith, Ids
      <4> QED BY <4>1, <4>2
    <3>5. \A i \in rec'[r].rows \ {0} : 0 < jou'[i].last
      <4>1. \A i \in rec'[r].rows \ {0} : i # k /\ i \in rec[r].rows
        BY <1>5, <3>1
      <4> QED BY <1>1, <2>1, <3>2, <3>3, <4>1 DEF GoesWith, Ids
    <3>6. rec'[r].ready /\ asg[r].pc = "none" => rec'[r].rows = {rec'[r].journey}
      <4>1. SUFFICES ASSUME rec'[r].ready, asg[r].pc = "none"
                     PROVE  rec'[r].rows = {rec'[r].journey}
        OBVIOUS
      <4>2. rec[r].ready /\ rec[r].journey # k
        BY <1>5, <1>7, <2>3, <3>1, <4>1
      <4>3. rec[r].rows = {rec[r].journey}
        BY <2>1, <4>1, <4>2 DEF GoesWith
      <4>4. rec'[r].rows = rec[r].rows /\ rec'[r].journey = rec[r].journey
        BY <1>5, <3>1, <4>2, <4>3
      <4> QED BY <4>3, <4>4
    <3> QED BY <2>1, <3>4, <3>5, <3>6 DEF GoesWith
  <2> QED BY <2>2, <2>3
<1>14. nextId' \in 1 .. MaxJourney + 1
  BY <1>1, <1>2 DEF JourneyTypes
<1> QED
  BY <1>2, <1>10, <1>11, <1>12, <1>13, <1>14, OnlyRows

\* A journey's rollup is derived anew.
LEMMA JourneysRefresh ==
  ASSUME JourneysInv, refresh
  PROVE  JourneysInv'
<1>1. /\ Timed /\ JourneyTypes /\ MaxJourney \in Nat
      /\ \A r \in Recs : rec[r] \in Membership /\ GoesWith(rec[r], asg[r].pc, jou)
      /\ \A q \in Ids : Dated(q)
  BY TimesOf DEF JourneysInv, JourneyTypes
<1>2. PICK j \in Ids : /\ Exists(j)
                       /\ jou' = [jou EXCEPT ![j] = Rollup(@, Members(j))]
                       /\ rec' = _attach(rec, Members(j), j)
  BY DEF refresh, Ids
<1>3. UNCHANGED <<layout, nextId, rb, asg>>
  BY DEF refresh
<1> DEFINE members == Members(j)
           fresh == Rollup(jou[j], members)
<1>4. members \in SUBSET Recs /\ \A r \in Recs : r \in members <=> rec[r].ready /\ rec[r].journey = j
  BY DEF Members, Ready
<1> HIDE DEF members
<1>5. fresh \in Row /\ 0 < fresh.last /\ fresh.first <= fresh.last
  <2>1. jou[j] \in Row /\ 0 < jou[j].last /\ jou[j].first <= jou[j].last
    BY <1>1, <1>2 DEF JourneyTypes, Dated, Exists
  <2> QED BY <1>1, <1>4, <2>1, RollupOf
<1>6. jou' = [jou EXCEPT ![j] = fresh] /\ rec' = _attach(rec, members, j)
  BY <1>2 DEF members
<1> HIDE DEF fresh
<1>7. /\ rec' \in [Recs -> Membership]
      /\ \A r \in members : rec'[r].journey = j /\ rec'[r].rows = {j} /\ rec'[r].ready = rec[r].ready
      /\ \A r \in Recs \ members : rec'[r] = rec[r]
  <2>1. j \in 0 .. MaxJourney /\ rec \in [Recs -> Membership]
    BY <1>1 DEF Ids, JourneyTypes
  <2>2. Attached(_attach(rec, members, j), rec, members, j)
    BY <1>4, <2>1, AttachedTo
  <2> QED BY <1>6, <2>2 DEF Attached
<1>8. jou' \in [Ids -> Row] /\ jou'[j] = fresh /\ \A q \in Ids : q # j => jou'[q] = jou[q]
  BY <1>1, <1>5, <1>6 DEF JourneyTypes
<1>9. \A q \in Ids : Dated(q)'
  BY <1>1, <1>5, <1>8 DEF Dated
<1>10. ASSUME NEW r \in Recs PROVE GoesWith(rec'[r], asg'[r].pc, jou')
  <2>1. rec[r] \in Membership /\ GoesWith(rec[r], asg[r].pc, jou)
    BY <1>1
  <2>2. CASE r \in members
    <3>1. rec'[r].journey = j /\ rec'[r].rows = {j}
      BY <1>7, <2>2
    <3> QED BY <1>5, <1>8, <3>1 DEF GoesWith
  <2>3. CASE r \notin members
    <3>1. rec'[r] = rec[r] /\ asg' = asg
      BY <1>3, <1>7, <2>3
    <3>2. \A i \in Ids : 0 < jou[i].last => 0 < jou'[i].last
      BY <1>5, <1>8
    <3> QED BY <1>1, <2>1, <3>1, <3>2, StillGoes
  <2> QED BY <2>2, <2>3
<1>11. nextId' \in 1 .. MaxJourney + 1
  BY <1>1, <1>3 DEF JourneyTypes
<1> QED
  BY <1>3, <1>7, <1>8, <1>9, <1>10, <1>11, OnlyRows

\* The user splits a journey in two.
LEMMA JourneysSplit ==
  ASSUME JourneysInv, split
  PROVE  JourneysInv'
<1>1. /\ Timed /\ JourneyTypes /\ MaxJourney \in Nat
      /\ \A r \in Recs : rec[r] \in Membership /\ GoesWith(rec[r], asg[r].pc, jou)
      /\ \A q \in Ids : Dated(q)
  BY TimesOf DEF JourneysInv, JourneyTypes
<1>2. UNCHANGED <<layout, rb, asg>> /\ nextId <= MaxJourney /\ nextId' = nextId + 1
  BY DEF split
<1>3. PICK j \in Ids, at \in Recs :
         LET order == {r \in Recs : rec[r].journey = j}
             tail == {r \in order : ~Before(r, at)}
             moved == [r \in Recs |-> IF r \in tail THEN [rec[r] EXCEPT !.journey = nextId] ELSE rec[r]]
             ready(k) == {r \in Recs : moved[r].ready /\ moved[r].journey = k}
         IN /\ Exists(j) /\ at \in order
            /\ rec' = _attach(_attach(moved, ready(j), j), ready(nextId), nextId)
            /\ jou' = [jou EXCEPT
                 ![j] = [Rollup(@, ready(j)) EXCEPT !.manual = TRUE],
                 ![nextId] = Rollup([Gone EXCEPT !.manual = TRUE, !.first = Start(at),
                                                !.last = Max({End(r) : r \in tail})],
                                    ready(nextId))]
  BY DEF split, Ids
<1> DEFINE order == {r \in Recs : rec[r].journey = j}
           tail == {r \in order : ~Before(r, at)}
           moved == [r \in Recs |-> IF r \in tail THEN [rec[r] EXCEPT !.journey = nextId] ELSE rec[r]]
           stay == {r \in Recs : moved[r].ready /\ moved[r].journey = j}
           go == {r \in Recs : moved[r].ready /\ moved[r].journey = nextId}
           rollup == Rollup(jou[j], stay)
           head == [rollup EXCEPT !.manual = TRUE]
           last == Max({End(r) : r \in tail})
           seed == [Gone EXCEPT !.manual = TRUE, !.first = Start(at), !.last = last]
           fresh == Rollup(seed, go)
           g == _attach(moved, stay, j)
<1>4. /\ Exists(j) /\ at \in order
      /\ rec' = _attach(g, go, nextId) /\ jou' = [jou EXCEPT ![j] = head, ![nextId] = fresh]
  BY <1>3
<1>5. tail \in SUBSET Recs /\ at \in tail
  BY <1>1, <1>4, BeforeOrder
<1>6. nextId \in Ids /\ nextId \in 0 .. MaxJourney /\ j \in 0 .. MaxJourney
  BY <1>1, <1>2 DEF JourneyTypes, Ids
<1>7. \A r \in Recs \ tail : moved[r] = rec[r]
  OBVIOUS
<1>8. \A r \in tail : moved[r] = [rec[r] EXCEPT !.journey = nextId]
  BY <1>5
<1>9. DOMAIN moved = Recs /\ moved = [r \in Recs |-> moved[r]]
  OBVIOUS
<1>10. /\ stay \in SUBSET Recs /\ go \in SUBSET Recs
       /\ \A r \in Recs : /\ r \in stay <=> moved[r].ready /\ moved[r].journey = j
                          /\ r \in go <=> moved[r].ready /\ moved[r].journey = nextId
  OBVIOUS
<1>11. \A r \in tail : rec[r].journey = j
  OBVIOUS
<1> HIDE DEF order, moved, stay, go
<1>12. seed \in Row /\ 0 < seed.last /\ seed.first <= seed.last
  <2> DEFINE ends == {End(r) : r \in tail}
             f == [r \in tail |-> End(r)]
             true == TRUE
             from == Start(at)
  <2>1. f \in Surjection(tail, ends)
    BY DEF Surjection
  <2>2. IsFiniteSet(tail) /\ \A r \in tail : End(r) \in Nat
    BY <1>1, <1>5, TimesOf, FS_Subset
  <2>3. ends \in SUBSET Nat /\ End(at) \in ends
    BY <1>5, <2>2
  <2> HIDE DEF tail, f
  <2>4. IsFiniteSet(ends)
    BY <2>1, <2>2, FS_Surjection
  <2> HIDE DEF ends
  <2>5. Max(ends) \in Nat /\ End(at) <= Max(ends)
    BY <2>3, <2>4, Extremes
  <2>6. last \in Nat /\ End(at) <= last
    BY <2>5 DEF ends
  <2>7. /\ from \in Nat /\ from <= End(at) /\ 0 < End(at) /\ End(at) \in Nat
        /\ true \in BOOLEAN
    BY <1>1, <1>5, TimesOf
  <2>8. seed = [Gone EXCEPT !.manual = true, !.first = from, !.last = last]
    OBVIOUS
  <2> HIDE DEF seed, true, from, last
  <2>9. seed \in Row /\ seed.first = from /\ seed.last = last
    BY <2>6, <2>7, <2>8, GoneIs DEF Row
  <2> QED BY <2>6, <2>7, <2>9
<1> HIDE DEF tail, seed, last
<1>13. ASSUME NEW r \in Recs
       PROVE  /\ moved[r] \in Membership /\ moved[r].ready = rec[r].ready /\ moved[r].rows = rec[r].rows
              /\ moved[r].journey = IF r \in tail THEN nextId ELSE rec[r].journey
  <2>1. CASE r \in tail
    <3>1. rec[r] \in Membership /\ moved[r] = [rec[r] EXCEPT !.journey = nextId]
      BY <1>1, <1>8, <2>1
    <3> QED BY <1>6, <2>1, <3>1 DEF Membership
  <2>2. CASE r \notin tail
    BY <1>1, <1>7, <2>2
  <2> QED BY <2>1, <2>2
<1>14. moved \in [Recs -> Membership]
  BY <1>9, <1>13
<1>15. rollup \in Row /\ 0 < rollup.last /\ rollup.first <= rollup.last
  <2>1. jou[j] \in Row /\ 0 < jou[j].last /\ jou[j].first <= jou[j].last
    BY <1>1, <1>4 DEF JourneyTypes, Dated, Exists
  <2> QED BY <1>1, <1>10, <2>1, RollupOf
<1>16. fresh \in Row /\ 0 < fresh.last /\ fresh.first <= fresh.last
  BY <1>1, <1>10, <1>12, RollupOf
<1> HIDE DEF rollup, fresh
<1>17. head \in Row /\ 0 < head.last /\ head.first <= head.last
  BY <1>15, MadeManual
<1> HIDE DEF head
<1>18. /\ g \in [Recs -> Membership]
       /\ \A r \in stay : g[r].journey = j /\ g[r].rows = {j} /\ g[r].ready = moved[r].ready
       /\ \A r \in Recs \ stay : g[r] = moved[r]
  <2>1. Attached(_attach(moved, stay, j), moved, stay, j)
    BY <1>6, <1>10, <1>14, AttachedTo
  <2> QED BY <2>1 DEF Attached
<1> HIDE DEF g
<1>19. /\ rec' \in [Recs -> Membership]
       /\ \A r \in go : rec'[r].journey = nextId /\ rec'[r].rows = {nextId} /\ rec'[r].ready = g[r].ready
       /\ \A r \in Recs \ go : rec'[r] = g[r]
  <2>1. g \in [Recs -> Membership] /\ go \in SUBSET Recs /\ nextId \in 0 .. MaxJourney
    BY <1>6, <1>10, <1>18
  <2>2. Attached(_attach(g, go, nextId), g, go, nextId)
    BY <2>1, AttachedTo
  <2> QED BY <1>4, <2>2 DEF Attached
<1>20. /\ jou' \in [Ids -> Row] /\ jou'[nextId] = fresh /\ jou'[j] \in {head, fresh}
       /\ \A q \in Ids : q # j /\ q # nextId => jou'[q] = jou[q]
  <2>1. jou \in [Ids -> Row]
    BY <1>1 DEF JourneyTypes
  <2> QED BY <1>4, <1>6, <1>16, <1>17, <2>1
<1>21. \A q \in Ids : Dated(q)'
  BY <1>1, <1>16, <1>17, <1>20 DEF Dated
<1>22. 0 < jou'[nextId].last /\ 0 < jou'[j].last
  BY <1>16, <1>17, <1>20
<1>23. ASSUME NEW r \in Recs PROVE GoesWith(rec'[r], asg'[r].pc, jou')
  <2>1. rec[r] \in Membership /\ GoesWith(rec[r], asg[r].pc, jou) /\ asg' = asg
    BY <1>1, <1>2
  <2>2. CASE r \in go
    <3>1. rec'[r].journey = nextId /\ rec'[r].rows = {nextId}
      BY <1>19, <2>2
    <3> QED BY <1>22, <3>1 DEF GoesWith
  <2>3. CASE r \in stay /\ r \notin go
    <3>1. rec'[r].journey = j /\ rec'[r].rows = {j}
      BY <1>18, <1>19, <2>3
    <3> QED BY <1>22, <3>1 DEF GoesWith
  <2>4. CASE r \notin stay /\ r \notin go
    <3>1. rec'[r] = moved[r]
      BY <1>18, <1>19, <2>4
    <3>2. \A i \in Ids : 0 < jou[i].last => 0 < jou'[i].last
      BY <1>20, <1>22
    <3>3. CASE r \notin tail
      <4>1. rec'[r] = rec[r]
        BY <1>7, <3>1, <3>3
      <4> QED BY <1>1, <2>1, <3>2, <4>1, StillGoes
    <3>4. CASE r \in tail
      <4>1. rec'[r].journey = nextId /\ rec'[r].rows = rec[r].rows /\ ~rec'[r].ready
        BY <1>10, <1>13, <2>4, <3>1, <3>4
      <4>2. \A i \in rec[r].rows \ {0} : i \in Ids
        BY <1>1, <2>1 DEF Membership, Ids
      <4>3. \A i \in rec[r].rows \ {0} : 0 < jou'[i].last
        BY <2>1, <3>2, <4>2 DEF GoesWith
      <4> QED BY <1>22, <4>1, <4>3 DEF GoesWith
    <3> QED BY <3>3, <3>4
  <2> QED BY <2>2, <2>3, <2>4
<1>24. nextId' \in 1 .. MaxJourney + 1
  BY <1>1, <1>2 DEF JourneyTypes
<1> QED
  BY <1>2, <1>19, <1>20, <1>21, <1>23, <1>24, OnlyRows

\* At first nothing is grouped.
LEMMA JourneysInit ==
  ASSUME JourneyInit
  PROVE  JourneysInv
<1>1. Timed
  BY DEF Timed, JourneyInit
<1>2. MaxJourney \in Nat
  BY <1>1, TimesOf
<1>3. <<>> \in Memory
  <2>1. <<>> \in [{} -> Membership]
    OBVIOUS
  <2> QED BY <2>1 DEF Memory
<1>4. /\ jou = [j \in Ids |-> Gone] /\ nextId = 1 /\ rb = Idle
      /\ rec = [r \in Recs |-> [journey |-> 0, ready |-> TRUE, rows |-> {0}]]
      /\ asg = [r \in Recs |-> [NoPlan EXCEPT !.pc = IF r \in layout.new THEN "due" ELSE "none"]]
  BY DEF JourneyInit, Ids
<1>5. \A r \in Recs : rec[r] \in Membership /\ GoesWith(rec[r], asg[r].pc, jou)
  <2> DEFINE true == TRUE
  <2>1. \A r \in Recs : rec[r] = [journey |-> 0, ready |-> true, rows |-> {0}] /\ true \in BOOLEAN
    BY <1>4
  <2> HIDE DEF true
  <2> QED BY <1>2, <2>1 DEF Membership, GoesWith
<1>6. \A r \in Recs : asg[r] \in Refresh /\ Scheduled(r)
  <2> SUFFICES ASSUME NEW r \in Recs PROVE asg[r] \in Refresh /\ Scheduled(r)
    OBVIOUS
  <2>1. PICK pc \in {"none", "due"} : asg[r] = [NoPlan EXCEPT !.pc = pc]
    <3> DEFINE p == IF r \in layout.new THEN "due" ELSE "none"
    <3>1. asg[r] = [NoPlan EXCEPT !.pc = p] /\ p \in {"none", "due"}
      BY <1>4
    <3> HIDE DEF p
    <3> QED BY <3>1
  <2>2. PICK gone \in Row, none \in Memory :
          NoPlan = [pc |-> "none", target |-> 0, members |-> {}, seen |-> none, row |-> gone]
    BY <1>3, GoneIs DEF NoPlan
  <2>3. asg[r] = [pc |-> pc, target |-> 0, members |-> {}, seen |-> none, row |-> gone]
    BY <2>1, <2>2
  <2> QED BY <1>2, <2>3 DEF Refresh, Scheduled
<1>7. rb \in Regrouping /\ Regrouped
  BY <1>3, <1>4 DEF Idle, Regrouping, Regrouped
<1>8. rec \in [Recs -> Membership] /\ asg \in [Recs -> Refresh]
  BY <1>4, <1>5, <1>6
<1>9. jou \in [Ids -> Row] /\ nextId \in 1 .. MaxJourney + 1 /\ \A j \in Ids : Dated(j)
  BY <1>2, <1>4, GoneIs DEF Dated
<1> QED
  BY <1>1, <1>5, <1>6, <1>7, <1>8, <1>9 DEF JourneysInv, JourneyTypes

\* Every step keeps the invariant.
LEMMA JourneysKeeps ==
  ASSUME JourneysInv, [JourneyNext]_journeyVars
  PROVE  JourneysInv'
<1>1. CASE UNCHANGED journeyVars
  <2>1. UNCHANGED <<layout, rec, jou, nextId, rb, asg>>
    BY <1>1 DEF journeyVars
  <2>2. rb' \in Regrouping /\ Regrouped'
    BY <2>1 DEF JourneysInv, JourneyTypes, Regrouped
  <2> QED BY <2>1, <2>2, OnlyRebuild
<1>2. CASE Rebuild
  BY <1>2, JourneysRebuildStart, JourneysRebuildPlan, JourneysRebuildCluster, JourneysRebuildClose
  DEF Rebuild
<1>3. CASE Assign
  BY <1>3, JourneysStages, JourneysAssignPlan, JourneysAssignPublish DEF Assign
<1>4. CASE Stage
  BY <1>4, JourneysStages DEF Stage
<1>5. CASE User
  BY <1>5, JourneysMerge, JourneysSplit, JourneysRefresh, JourneysStages DEF User
<1> QED
  BY <1>1, <1>2, <1>3, <1>4, <1>5 DEF JourneyNext

\* What the invariant says of the journeys.
LEMMA JourneysPromised ==
  ASSUME JourneysInv
  PROVE  GroupedAsDefined
<1>1. /\ Timed /\ JourneyTypes /\ MaxJourney \in Nat /\ rb \in Regrouping
      /\ \A r \in Recs : rec[r] \in Membership /\ GoesWith(rec[r], asg[r].pc, jou)
      /\ \A q \in Ids : Dated(q) /\ jou[q] \in Row
  BY TimesOf DEF JourneysInv, JourneyTypes
<1>2. JourneyTypeOK
  <2>1. \A q \in Ids : jou[q].first <= jou[q].last
    BY <1>1, GoneIs DEF Dated
  <2> QED BY <1>1, <2>1 DEF JourneyTypeOK, JourneyTypes, Membership, Regrouping, Ids
<1>3. RowsFollow
  <2>1. \A j : 0 < jou[j].last => Exists(j)
    BY GoneIs DEF Exists
  <2> QED BY <1>1, <2>1 DEF RowsFollow, GoesWith
<1> QED
  BY <1>1, <1>2, <1>3, ClustersRight DEF GroupedAsDefined

\* Journeys are the sessions the gaps define; recordings and rows name journeys
\* there are; and between its analyses a ready recording and its rows name one,
\* although every stage writes its rows under none: whatever analyses, rebuilds,
\* merges and splits do to each other (journeys/builder.py, _cluster,
\* assign_recording, rebuild, merge and split; pipeline/stages.py:1085).
THEOREM GroupedTheorem == JourneySpec => []GroupedAsDefined
<1>1. JourneyInit => JourneysInv
  BY JourneysInit
<1>2. JourneysInv /\ [JourneyNext]_journeyVars => JourneysInv'
  BY JourneysKeeps
<1>3. JourneysInv => GroupedAsDefined
  BY JourneysPromised
<1> QED
  BY <1>1, <1>2, <1>3, PTL DEF JourneySpec

\* A rebuild never takes a recording out of a journey the user made, whatever
\* the user did since the rebuild grouped it (journeys/builder.py, rebuild's
\* second look at the recordings of a cluster).
THEOREM ManualTheorem == JourneySpec => RebuildKeepsManual
<1> DEFINE Kept == RebuildCluster =>
                     \A r \in Recs : Manual(rec[r].journey) => rec'[r].journey = rec[r].journey
<1>1. ASSUME RebuildCluster, NEW r \in Recs, Manual(rec[r].journey)
      PROVE  rec'[r].journey = rec[r].journey
  <2>1. UNCHANGED rec \/ \E j : Unchanged(Now) /\ rec' = _attach(rec, Now, j)
    BY <1>1 DEF RebuildCluster
  <2>2. ASSUME NEW j, Unchanged(Now), rec' = _attach(rec, Now, j)
        PROVE  rec'[r] = rec[r]
    <3>1. r \notin Now
      BY <1>1, <2>2 DEF Unchanged
    <3> QED BY <2>2, <3>1 DEF _attach
  <2> QED BY <2>1, <2>2
<1>2. [JourneyNext]_journeyVars => [Kept]_journeyVars
  BY <1>1
<1> QED
  BY <1>2, PTL DEF JourneySpec, RebuildKeepsManual
=============================================================================
