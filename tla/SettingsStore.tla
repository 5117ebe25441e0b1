---------------------------- MODULE SettingsStore ----------------------------
(* The settings: AppSetting rows, the process's cache of them and those who  *)
(* follow it (core/settings_service.py, the schema of core/settings_schema). *)
(*                                                                           *)
(* Raw values are numbers; what a kind of setting accepts of them, and turns *)
(* them into, is its coercer.  A text that is no such value is Malformed.    *)
EXTENDS Integers, FiniteSets

CONSTANTS
    Keys,         \* settings of the schema
    Def,          \* [kind, min, max, choices, default, fixed, read_only] of each
    Stored,       \* tables a process may start from
    Asked,        \* requests: partial functions from settings to raw values
    Dropped,      \* sets of settings asked to be reset
    Writers,      \* callers of set_many and reset_many
    VersionBound  \* bound: changes of one behaviour

VARIABLES
    table,      \* AppSetting: key -> stored value, or Absent
    settings,   \* the service: [cache, explicit, version, event, loaded]
    writer,     \* [pc, values, reset]
    wlock,      \* holder of _write_lock
    follower,   \* what a subscriber was told, setting by setting
    waiter      \* wait_for_change: [pc, since, on]

vars == <<table, settings, writer, wlock, follower, waiter>>

Absent == -1
Malformed == 99
Open == 0          \* a writer without the lock
NoWriter == [pc |-> "idle", values |-> <<>>, reset |-> FALSE]

---------------------------------------------------------------------------
(* Coercion.                                                                *)

_clamp(d, v) == IF v < d.min THEN d.min ELSE IF v > d.max THEN d.max ELSE v

_coerce_bool(raw) == IF raw \in {0, 1} THEN raw ELSE Malformed
_coerce_int(d, raw) == IF raw = Malformed THEN Malformed ELSE _clamp(d, raw)
_coerce_select(d, raw) == IF raw \in d.choices THEN raw ELSE Malformed

\* A path is trimmed of its last slash (path n with a slash is n + 10) and has
\* to lie under the directory the container was given.
_coerce_path(d, raw) ==
    LET trimmed == IF raw \in 10 .. 19 THEN raw - 10 ELSE raw IN
    IF trimmed \in d.choices THEN trimmed ELSE Malformed

\* coerce_setting: Malformed is a SettingValidationError.
coerce_setting(k, raw) ==
    LET d == Def[k]
        value == CASE d.kind = "bool" -> _coerce_bool(raw)
                   [] d.kind = "int" -> _coerce_int(d, raw)
                   [] d.kind = "select" -> _coerce_select(d, raw)
                   [] d.kind = "path" -> _coerce_path(d, raw)
    IN IF value # Malformed /\ d.fixed # Absent THEN d.fixed ELSE value

_effective_default(k) == Def[k].default

\* _build_cache: rows that no longer parse fall back to the default.
Parses(rows, k) == rows[k] # Absent /\ coerce_setting(k, rows[k]) # Malformed
CacheOf(rows) == [k \in Keys |-> IF Parses(rows, k) THEN coerce_setting(k, rows[k]) ELSE _effective_default(k)]
ExplicitOf(rows) == {k \in Keys : Parses(rows, k)}

---------------------------------------------------------------------------
Init ==
    /\ table \in Stored
    /\ settings = [cache |-> CacheOf(table), explicit |-> ExplicitOf(table), version |-> 0, event |-> 0]
    /\ writer = [w \in Writers |-> NoWriter]
    /\ wlock = Open
    /\ follower = settings.cache
    /\ waiter = [pc |-> "idle", since |-> 0, on |-> 0]

\* set_many: everything is coerced before anything is written; one bad value
\* refuses them all.
set_many(w, values, internal) ==
    /\ writer[w].pc = "idle"
    /\ \A k \in DOMAIN values : coerce_setting(k, values[k]) # Malformed /\ (Def[k].read_only => internal)
    /\ writer' = [writer EXCEPT ![w] = [pc |-> "lock", reset |-> FALSE,
                    values |-> [k \in DOMAIN values |-> coerce_setting(k, values[k])]]]
    /\ UNCHANGED <<table, settings, wlock, follower, waiter>>

reset_many(w, keys) ==
    /\ writer[w].pc = "idle"
    /\ writer' = [writer EXCEPT ![w] = [pc |-> "lock", reset |-> TRUE,
                    values |-> [k \in keys |-> _effective_default(k)]]]
    /\ UNCHANGED <<table, settings, wlock, follower, waiter>>

\* The rows are committed under the lock.
WriteRows(w) ==
    LET v == writer[w].values IN
    /\ writer[w].pc = "lock" /\ wlock = Open
    /\ wlock' = w
    /\ table' = [k \in Keys |-> IF k \notin DOMAIN v THEN table[k]
                                ELSE IF writer[w].reset THEN Absent ELSE v[k]]
    /\ writer' = [writer EXCEPT ![w].pc = "publish"]
    /\ UNCHANGED <<settings, follower, waiter>>

\* The commit fails: the lock is released and nothing has changed.
WriteFails(w) ==
    /\ writer[w].pc = "lock" /\ wlock = Open
    /\ writer' = [writer EXCEPT ![w] = NoWriter]
    /\ UNCHANGED <<table, settings, wlock, follower, waiter>>

\* _bump: a new version; the old event is set and replaced.
_bump(s) == [s EXCEPT !.version = @ + 1, !.event = @ + 1]

\* _dispatch
_dispatch(told, changed, values) == [k \in Keys |-> IF k \in changed THEN values[k] ELSE told[k]]

\* Then the cache and, in the same breath, the subscribers.
Publish(w) ==
    LET v == writer[w].values
        cache == [k \in Keys |-> IF k \in DOMAIN v THEN v[k] ELSE settings.cache[k]]
        changed == {k \in DOMAIN v : settings.cache[k] # v[k]}
        next == [settings EXCEPT !.cache = cache,
                   !.explicit = IF writer[w].reset THEN @ \ DOMAIN v ELSE @ \cup DOMAIN v]
    IN
    /\ writer[w].pc = "publish" /\ settings.version < VersionBound
    /\ wlock' = Open
    /\ settings' = IF changed = {} THEN next ELSE _bump(next)
    /\ follower' = _dispatch(follower, changed, cache)
    /\ writer' = [writer EXCEPT ![w] = NoWriter]
    /\ UNCHANGED <<table, waiter>>

\* The process starts again and reads the rows (the version, which starts
\* over, counts on here as the bound).
Restart ==
    /\ writer' = [w \in Writers |-> NoWriter] /\ wlock' = Open
    /\ settings' = [settings EXCEPT !.cache = CacheOf(table), !.explicit = ExplicitOf(table)]
    /\ follower' = settings'.cache
    /\ waiter' = [pc |-> "idle", since |-> 0, on |-> 0]
    /\ UNCHANGED table

\* wait_for_change(since): the current event is waited for.
wait_for_change ==
    /\ waiter.pc = "idle"
    /\ waiter' = [pc |-> "wait", since |-> settings.version, on |-> settings.event]
    /\ UNCHANGED <<table, settings, writer, wlock, follower>>

Wake ==
    /\ waiter.pc = "wait" /\ waiter.on < settings.event
    /\ waiter' = IF settings.version <= waiter.since THEN [waiter EXCEPT !.on = settings.event]
                 ELSE [waiter EXCEPT !.pc = "idle"]
    /\ UNCHANGED <<table, settings, writer, wlock, follower>>

Next ==
    \/ \E w \in Writers :
         \/ \E keys \in Dropped : reset_many(w, keys)
         \/ \E values \in Asked, internal \in BOOLEAN : set_many(w, values, internal)
         \/ WriteRows(w) \/ WriteFails(w) \/ Publish(w)
    \/ Restart \/ wait_for_change \/ Wake

Spec == Init /\ [][Next]_vars

Writing(w) == WriteRows(w) \/ Publish(w)

---------------------------------------------------------------------------
\* Every variable keeps its type; a stored value is one its setting allows.
TypeOK ==
    /\ \A k \in Keys : settings.cache[k] # Malformed
    /\ settings.explicit \subseteq Keys
    /\ \A k \in Keys : Def[k].kind = "int" => settings.cache[k] \in Def[k].min .. Def[k].max

\* With no write between its commit and its publication, the cache is what a
\* start would read from the rows, and "explicit" names the same settings:
\* what is coerced on the way in reads back as itself.
CacheIsTheRows ==
    wlock = Open => settings.cache = CacheOf(table) /\ settings.explicit = ExplicitOf(table)

\* A subscriber that applies what it is told always holds the cached values.
FollowersAgree == follower = settings.cache

\* A caller that waits for a change newer than it knows is woken by the next.
NoLostWakeup == waiter.pc = "wait" /\ settings.version > waiter.since => waiter.on < settings.event
=============================================================================
