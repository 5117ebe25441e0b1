---------------------------- MODULE PlaybackCache ----------------------------
(* The stream and export caches (media/playback.py): a recording is remuxed   *)
(* into the cache once, exports are cut from what is playable, and the caches *)
(* are pruned to their limit, oldest first, after every new file.  A sweep    *)
(* runs in a thread, beside requests, other sweeps and clear_cache.           *)
(*                                                                            *)
(* Every cached file has size 1; the limit counts files.  A file is "part"    *)
(* while ffmpeg writes it and "whole" after the rename.                       *)
EXTENDS Naturals, FiniteSets, Sequences, SequencesExt

CONSTANTS
    Viewers,        \* requests
    Clips,          \* recordings
    Cuts,           \* bound: those an export is asked of
    LIMIT,          \* general.stream_cache_gb, in files
    PlayEvents,     \* what may happen, each once
    FewPlayEvents   \* bound: how many of them in one behaviour

VARIABLES
    cached,   \* the files of the caches, the one used longest ago first
    part,     \* the ".part.mp4" being written
    locks,    \* file -> the request that holds its lock
    viewer,   \* [pc, of, export, gives]: gives is the file it answers with
    sweep,    \* request -> [list, age, left, new]: its prune_cache; age orders
              \* the list, new are the files that came since it was made
    unswept,  \* the files that came since the latest sweep to be carried through
              \* had listed the caches
    odds      \* events so far

vars == <<cached, part, locks, viewer, sweep, unswept, odds>>
sweeps == <<sweep, unswept>>

Original == "original"
Stream(c) == <<"stream", c>>
Export(c) == <<"export", c>>
Files == {Stream(c) : c \in Clips} \cup {Export(c) : c \in Clips}
Whole == ToSet(cached)
Free == 0
NoSweep == [list |-> {}, age |-> [f \in Files |-> 0], left |-> 0, new |-> {}]
NoViewer == [pc |-> "idle", of |-> CHOOSE c \in Clips : TRUE, export |-> FALSE, gives |-> <<>>]
Meets(event) == event \in PlayEvents \ odds /\ Cardinality(odds) < FewPlayEvents /\ odds' = odds \cup {event}

Init ==
    /\ cached = <<>> /\ part = {}
    /\ locks = [f \in Files |-> Free]
    /\ viewer = [v \in Viewers |-> NoViewer]
    /\ sweep = [v \in Viewers |-> NoSweep] /\ unswept = {}
    /\ odds = {}

\* Where f stands among the files, 0 if it is not there.
Place(files, f) == IF f \in ToSet(files) THEN CHOOSE i \in DOMAIN files : files[i] = f ELSE 0

Without(files, f) ==
    LET n == Place(files, f) IN SubSeq(files, 1, n - 1) \o SubSeq(files, n + 1, Len(files))

\* A file is used: it is the youngest now.
Touch(files, f) == Without(files, f) \o <<f>>

\* What the request makes: its stream file first, then its export.
Target(v) == IF viewer[v].export THEN Export(viewer[v].of) ELSE Stream(viewer[v].of)
Goto(v, pc) == viewer' = [viewer EXCEPT ![v].pc = pc]
Give(v, f) == viewer' = [viewer EXCEPT ![v].pc = "serve", ![v].gives = f]

\* A request for a clip, or for a part of it.
Ask(v, c) ==
    /\ viewer[v].pc = "idle"
    /\ viewer' = [viewer EXCEPT ![v] = [NoViewer EXCEPT !.pc = "look", !.of = c]]
    /\ UNCHANGED <<cached, part, locks, sweeps, odds>>

\* ensure_playable, ensure_export_clip: served from the cache, and touched.
Look(v) ==
    /\ viewer[v].pc = "look"
    /\ IF Target(v) \in Whole THEN cached' = Touch(cached, Target(v)) /\ Give(v, Target(v))
       ELSE Goto(v, "lock") /\ UNCHANGED cached
    /\ UNCHANGED <<part, locks, sweeps, odds>>

\* The cache is looked at again under the lock.
Present(v) == Target(v) \in Whole

\* _lock_for.
LockFree(v) == locks[Target(v)] = Free

Lock(v) ==
    /\ viewer[v].pc = "lock" /\ LockFree(v)
    /\ IF Present(v)
       THEN /\ cached' = IF viewer[v].export THEN Touch(cached, Target(v)) ELSE cached
            /\ Give(v, Target(v)) /\ UNCHANGED <<part, locks>>
       ELSE /\ locks' = [locks EXCEPT ![Target(v)] = v]
            /\ part' = part \cup {Target(v)}
            /\ Goto(v, "write") /\ UNCHANGED cached
    /\ UNCHANGED <<sweeps, odds>>

Sweeping == {w \in Viewers : viewer[w].pc \in {"stat", "unlink"}}

\* _remux, _remux_plain: written, renamed; the lock is let go before pruning.
Written(v) ==
    /\ viewer[v].pc = "write"
    /\ part' = part \ {Target(v)}
    /\ cached' = Touch(cached, Target(v))
    /\ locks' = [locks EXCEPT ![Target(v)] = Free]
    /\ sweep' = [w \in Viewers |-> IF w \in Sweeping THEN [sweep[w] EXCEPT !.new = @ \cup {Target(v)}] ELSE sweep[w]]
    /\ unswept' = unswept \cup {Target(v)}
    /\ Goto(v, "prune")
    /\ UNCHANGED odds

Unlock(v) == [locks EXCEPT ![Target(v)] = Free]

\* It fails or times out: the part goes, and the original is served instead of
\* a stream; an export fails, also when its input was pruned away.
WriteFails(v) ==
    /\ viewer[v].pc = "write"
    /\ \/ Meets("ffmpeg fails")
       \/ viewer[v].export /\ viewer[v].gives # <<>> /\ viewer[v].gives \notin Whole /\ UNCHANGED odds
    /\ part' = part \ {Target(v)}
    /\ locks' = Unlock(v)
    /\ viewer' = [viewer EXCEPT ![v].pc = IF viewer[v].export THEN "failed" ELSE "serve", ![v].gives = <<>>]
    /\ UNCHANGED <<cached, sweeps>>

\* prune_cache: the directories are listed, but for the file just made.
List(v) ==
    /\ viewer[v].pc = "prune"
    /\ sweep' = [sweep EXCEPT ![v] = [NoSweep EXCEPT !.list = Whole \ {Target(v)}]]
    /\ Goto(v, "stat")
    /\ UNCHANGED <<cached, part, locks, unswept, odds>>

\* The sweep is carried through: of what it listed, the limit is kept.
Swept(v) ==
    /\ Give(v, Target(v))
    /\ sweep' = [sweep EXCEPT ![v] = NoSweep]
    /\ unswept' = unswept \cap sweep[v].new

\* How many of the list were used before f.
Older(list, f) == {g \in list : f \in list /\ Place(cached, g) < Place(cached, f)}
Age(list) == [f \in Files |-> Cardinality(Older(list, f))]

\* Size and age of every listed file are read.  One that another sweep or
\* clear_cache has removed by now ends the sweep and fails the request.
Stat(v) ==
    LET list == sweep[v].list IN
    /\ viewer[v].pc = "stat"
    /\ \/ ~(list \subseteq Whole) /\ Goto(v, "failed")
          /\ sweep' = [sweep EXCEPT ![v] = NoSweep] /\ UNCHANGED unswept
       \/ list \subseteq Whole /\ Cardinality(list) <= LIMIT /\ Swept(v)
       \/ list \subseteq Whole /\ Cardinality(list) > LIMIT /\ Goto(v, "unlink")
          /\ sweep' = [sweep EXCEPT ![v] = [@ EXCEPT !.age = Age(list), !.left = Cardinality(list) - LIMIT]]
          /\ UNCHANGED unswept
    /\ UNCHANGED <<cached, part, locks, odds>>

\* How many files are too many after f is removed: one that was gone already
\* still counts.
LeftAfter(v, f) == IF f \in Whole THEN sweep[v].left - 1 ELSE sweep[v].left

\* The oldest of the list goes, until the rest is within the limit.
Unlink(v) ==
    /\ viewer[v].pc = "unlink"
    /\ \E f \in sweep[v].list :
         /\ \A g \in sweep[v].list : sweep[v].age[f] <= sweep[v].age[g]
         /\ cached' = Without(cached, f)
         /\ \/ (LeftAfter(v, f) = 0 \/ sweep[v].list = {f}) /\ Swept(v)
            \/ /\ LeftAfter(v, f) # 0 /\ sweep[v].list # {f}
               /\ sweep' = [sweep EXCEPT ![v].list = @ \ {f}, ![v].left = LeftAfter(v, f)]
               /\ UNCHANGED <<viewer, unswept>>
    /\ UNCHANGED <<part, locks, odds>>

\* The answer is sent; an export goes on with what is playable.
Serve(v) ==
    /\ viewer[v].pc = "serve"
    /\ \/ viewer' = [viewer EXCEPT ![v] = NoViewer]
       \/ ~viewer[v].export /\ viewer[v].of \in Cuts /\ viewer' = [viewer EXCEPT ![v].pc = "look", ![v].export = TRUE]
    /\ UNCHANGED <<cached, part, locks, sweeps, odds>>

Failed(v) ==
    /\ viewer[v].pc = "failed"
    /\ viewer' = [viewer EXCEPT ![v] = NoViewer]
    /\ UNCHANGED <<cached, part, locks, sweeps, odds>>

\* clear_cache: the directories go, with what is being written; ffmpeg's rename
\* then fails.
clear_cache ==
    /\ Meets("cleared")
    /\ cached' = <<>> /\ part' = {}
    /\ UNCHANGED <<locks, viewer, sweeps>>

Gone(v) ==
    /\ viewer[v].pc = "write" /\ Target(v) \notin part
    /\ locks' = Unlock(v)
    /\ viewer' = [viewer EXCEPT ![v].pc = IF viewer[v].export THEN "failed" ELSE "serve", ![v].gives = <<>>]
    /\ UNCHANGED <<cached, part, sweeps, odds>>

Working(v) ==
    \/ Look(v) \/ Lock(v) \/ (Target(v) \in part /\ Written(v)) \/ Gone(v)
    \/ List(v) \/ Stat(v) \/ Unlink(v) \/ Serve(v) \/ Failed(v)

Next ==
    \/ \E v \in Viewers : Working(v) \/ WriteFails(v) \/ \E c \in Clips : Ask(v, c)
    \/ clear_cache

Spec == Init /\ [][Next]_vars /\ \A v \in Viewers : WF_vars(Working(v)) /\ SF_vars(Lock(v))

---------------------------------------------------------------------------
\* Parts, whole files and the list of cached ones stay within the files.
TypeOK == part \subseteq Files /\ Whole \subseteq Files /\ Len(cached) <= Cardinality(Files)

WritersOf(f) == {v \in Viewers : viewer[v].pc = "write" /\ Target(v) = f}

\* No two requests write the same part, and nothing that is being written is
\* in the cache: a file another request finds is whole.
OneWriter == \A f \in Files : Cardinality(WritersOf(f)) <= 1 /\ (WritersOf(f) # {} => f \notin Whole)

\* Sweeps that run at once, or are cut short because another removed what they
\* listed, cost no room for good: of what had come when the latest sweep to be
\* carried through listed the caches, at most the limit is there and one file
\* more, its own.
Bounded == Cardinality(Whole \ unswept) <= LIMIT + 1

\* Requests are interchangeable: what holds of one holds of each.
AViewer == CHOOSE v \in Viewers : TRUE

\* Every request is answered.
Answered == viewer[AViewer].pc # "idle" ~> viewer[AViewer].pc = "idle"
=============================================================================
