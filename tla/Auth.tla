-------------------------------- MODULE Auth --------------------------------
(* Sign-in: the account and session rows, and the caches in front of them    *)
(* (auth/service.py, auth/gate.py, auth/recover.py, api/routes/auth.py).     *)
(*                                                                           *)
(* A credential is a number: the account's password in that generation, 0    *)
(* for no account.  A request presents a session token or a Basic header.    *)
(* Every await of the code ends an action.  Cache entries carry the epoch    *)
(* current when they are stored and are dropped at every bump, so the epochs *)
(* themselves are left out.  The unit of time is half a minute.              *)
EXTENDS Naturals, FiniteSets

CONSTANTS
    Requests,       \* requests that may be under way together
    Tokens,         \* session tokens, in the order they are handed out
    Passwords,      \* generations of the account, 1 .. n
    Names,          \* the user name of each
    Headers,        \* those that some client sends as a Basic header
    CACHE_TTL_S, NEGATIVE_TTL_S, MISCONFIGURED_RECHECK_S,
    AdminBound      \* bound: changes to the account and its sessions

VARIABLES
    credential,   \* the AuthCredential row
    rows,         \* AuthSession: tokens that have a row
    issued,       \* tokens that have been handed out
    expired,      \* tokens whose expires_at has passed
    required,     \* security.require_login
    known,        \* [user, loaded, checked]: the account as the process knows it
    lock,         \* holder of _credential_lock
    cache,        \* age of what is known of a token or header: _session_cache, _basic_cache
    missing,      \* the same for refusals: _session_missing, _basic_rejected
    inflight,     \* token -> the request that is looking it up
    request,      \* [pc, shown, age, found, future, on]
    admin,        \* the change to the account under way
    changes,      \* changes so far
    lapsed,       \* age of the last moment a token or header was good
    since,        \* request -> what it shows was good within the TTL or later
    raced         \* what a lookup had read when a revocation overtook it

vars == <<credential, rows, issued, expired, required, known, lock, cache, missing, inflight,
          request, admin, changes, lapsed, since, raced>>
account == <<credential, rows, issued, expired>>
caches == <<cache, missing>>

Nobody == 0
Shown == [kind : {"session"}, of : Tokens] \cup [kind : {"basic"}, of : Headers]
Header(g) == [kind |-> "basic", of |-> g]
Session(t) == [kind |-> "session", of |-> t]
Never == CACHE_TTL_S   \* the age of what is not there; ages stop counting there

Username(g) == IF g = 0 THEN 0 ELSE Names[g]

\* The rows say this is good.
Good(s) == IF s.kind = "session" THEN s.of \in rows \ expired ELSE s.of = credential

Idle == [pc |-> "idle", shown |-> Header(1), age |-> 0, found |-> 0, future |-> "none", on |-> Nobody]
NoFlight == [t \in Tokens |-> Nobody]

Older(a) == IF a < Never THEN a + 1 ELSE a

Init ==
    /\ credential \in {0, 1} /\ rows \in SUBSET Tokens /\ (credential = 0 => rows = {})
    /\ issued = rows /\ expired = {}
    /\ required = TRUE   \* with sign-in off the gate lets everything through
    /\ known = [user |-> 0, loaded |-> FALSE, checked |-> 0]
    /\ lock = Nobody /\ inflight = NoFlight
    /\ cache = [s \in Shown |-> Never] /\ missing = cache
    /\ request = [r \in Requests |-> Idle]
    /\ admin = [pc |-> "idle", to |-> 0] /\ changes = 0
    /\ lapsed = [s \in Shown |-> IF Good(s) THEN 0 ELSE Never]
    /\ since = [r \in Requests |-> FALSE] /\ raced = {}

Tick ==
    /\ known' = [known EXCEPT !.checked = IF @ < MISCONFIGURED_RECHECK_S THEN @ + 1 ELSE @]
    /\ cache' = [s \in Shown |-> Older(cache[s])]
    /\ missing' = [s \in Shown |-> Older(missing[s])]
    /\ lapsed' = [s \in Shown |-> IF Good(s) THEN 0 ELSE Older(lapsed[s])]
    /\ request' = [r \in Requests |-> [request[r] EXCEPT !.age = IF request[r].pc \in {"load", "row"} THEN Older(@) ELSE @]]
    /\ UNCHANGED <<account, required, lock, inflight, admin, changes, since, raced>>

---------------------------------------------------------------------------
(* One request through the gate.                                            *)

Goto(r, pc) == request' = [request EXCEPT ![r].pc = pc]

\* _bump_credential, _bump_sessions: the caches go, the lookups under way are
\* cancelled.
Released == [r \in Requests |->
    [request[r] EXCEPT !.future =
        IF @ = "pending" /\ \E t \in Tokens : inflight[t] = r THEN "cancelled" ELSE @]]

Forget(gone) ==
    /\ cache' = [s \in Shown |-> IF s \in gone THEN Never ELSE cache[s]]
    /\ missing' = [s \in Shown |-> IF s \in gone THEN Never ELSE missing[s]]
    /\ inflight' = NoFlight

Arrive(r, s) ==
    /\ request[r].pc = "idle" /\ (s.kind = "session" => s.of \in issued)
    /\ request' = [request EXCEPT ![r] = [Idle EXCEPT !.pc = "gate", !.shown = s]]
    /\ since' = [since EXCEPT ![r] = lapsed[s] < CACHE_TTL_S]
    /\ UNCHANGED <<account, required, known, lock, caches, inflight, admin, changes, lapsed, raced>>

\* MISCONFIGURED_RECHECK_S have passed since the account was read.
RecheckDue == ~known.loaded \/ known.checked >= MISCONFIGURED_RECHECK_S

\* sign_in_required: off, or the account is known well enough.
Gate(r) ==
    /\ request[r].pc = "gate"
    /\ \/ /\ ~required /\ Goto(r, "open")
       \/ /\ required /\ ~RecheckDue
          /\ Goto(r, IF known.user = 0 THEN "open" ELSE "auth")
    /\ UNCHANGED <<account, required, known, lock, caches, inflight, admin, changes, lapsed, since, raced>>

\* ensure_credential_loaded, _recheck_credential: the row is read under the lock.
ReadAccount(r) ==
    /\ request[r].pc = "gate" /\ required /\ lock = Nobody /\ RecheckDue
    /\ lock' = r
    /\ request' = [request EXCEPT ![r].pc = "account", ![r].found = credential]
    /\ known' = IF known.loaded THEN [known EXCEPT !.checked = 0] ELSE known
    /\ UNCHANGED <<account, required, caches, inflight, admin, changes, lapsed, since, raced>>

\* What was read becomes what is known.
KnowAccount(r) ==
    /\ request[r].pc = "account"
    /\ lock' = Nobody
    /\ known' = [user |-> Username(request[r].found), loaded |-> TRUE,
                 checked |-> IF known.loaded THEN known.checked ELSE 0]
    /\ IF known.loaded /\ known.user = Username(request[r].found)
       THEN request' = [request EXCEPT ![r].pc = "gate", ![r].found = 0] /\ UNCHANGED <<caches, inflight>>
       ELSE Forget(Shown) /\ request' = [Released EXCEPT ![r].pc = "gate", ![r].found = 0]
    /\ UNCHANGED <<account, required, admin, changes, lapsed, since, raced>>

\* authenticate, from the caches: accepted or refused at once, or one request
\* looks the row up and the others of that token wait for it.
Authenticate(r) ==
    LET s == request[r].shown IN
    /\ request[r].pc = "auth"
    /\ IF known.user = 0 THEN Goto(r, "refused") /\ UNCHANGED <<caches, inflight>>
       ELSE IF s.kind = "session" /\ cache[s] < Never /\ s.of \in expired
       THEN Goto(r, "refused") /\ cache' = [cache EXCEPT ![s] = Never] /\ UNCHANGED <<missing, inflight>>
       ELSE IF cache[s] < CACHE_TTL_S THEN Goto(r, "accepted") /\ UNCHANGED <<caches, inflight>>
       ELSE IF missing[s] < (IF s.kind = "session" THEN NEGATIVE_TTL_S ELSE CACHE_TTL_S)
       THEN Goto(r, "refused") /\ UNCHANGED <<caches, inflight>>
       ELSE IF s.kind = "session" /\ inflight[s.of] # Nobody
       THEN /\ request' = [request EXCEPT ![r].pc = "wait", ![r].on = inflight[s.of]]
            /\ UNCHANGED <<caches, inflight>>
       ELSE /\ request' = [request EXCEPT ![r].pc = "load", ![r].age = 0,
                             ![r].future = IF s.kind = "session" THEN "pending" ELSE "none"]
            /\ inflight' = IF s.kind = "session" THEN [inflight EXCEPT ![s.of] = r] ELSE inflight
            /\ missing' = [missing EXCEPT ![s] = Never] /\ UNCHANGED cache
    /\ UNCHANGED <<account, required, known, lock, admin, changes, lapsed, since, raced>>

\* _load_session, verify_credential: the row is read; a miss is noted at once
\* for a token, after the comparison for a password.
ReadRow(r) ==
    LET s == request[r].shown IN
    /\ request[r].pc = "load"
    /\ request' = [request EXCEPT ![r].pc = "row", ![r].found = IF Good(s) THEN 1 ELSE 0]
    /\ IF s.kind = "session" /\ ~Good(s)
       THEN cache' = [cache EXCEPT ![s] = Never] /\ missing' = [missing EXCEPT ![s] = request[r].age]
       ELSE UNCHANGED caches
    /\ UNCHANGED <<account, required, known, lock, inflight, admin, changes, lapsed, since, raced>>

\* Mutant: the entry counts from when it is stored, not from when it was asked.
RememberNow(s, age, found) ==
    /\ cache' = IF found THEN [cache EXCEPT ![s] = 0] ELSE cache
    /\ missing' = IF ~found /\ s.kind = "basic" THEN [missing EXCEPT ![s] = 0] ELSE missing

\* _remember, with the time the request came to the lookup.
_remember(s, age, found) ==
    /\ cache' = IF found THEN [cache EXCEPT ![s] = age] ELSE cache
    /\ missing' = IF ~found /\ s.kind = "basic" THEN [missing EXCEPT ![s] = age] ELSE missing

\* The finally clause: whatever is registered under the token goes.
Unregister(t) == inflight' = [inflight EXCEPT ![t] = Nobody]

\* The answer, shared with those who wait.  A lookup that was cancelled by a
\* bump meanwhile cannot set its result: the request fails.
Answer(r) ==
    LET s == request[r].shown
        found == request[r].found = 1
    IN
    /\ request[r].pc = "row"
    /\ _remember(s, request[r].age, found)
    /\ IF s.kind = "basic" THEN Goto(r, IF found THEN "accepted" ELSE "refused") /\ UNCHANGED inflight
       ELSE /\ Unregister(s.of)
            /\ request' = [request EXCEPT
                 ![r].pc = IF request[r].future = "cancelled" THEN "failed"
                           ELSE IF found THEN "accepted" ELSE "refused",
                 ![r].age = 0,
                 ![r].future = IF @ = "pending" THEN "done" ELSE @]
    /\ UNCHANGED <<account, required, known, lock, admin, changes, lapsed, since, raced>>

\* A request that waited takes the answer of the one it waited for.
Share(r) ==
    LET q == request[r].on IN
    /\ request[r].pc = "wait" /\ request[q].future \in {"done", "cancelled"}
    /\ request' = [request EXCEPT ![r].on = Nobody,
         ![r].pc = IF request[q].future = "cancelled" THEN "failed"
                   ELSE IF request[q].found = 1 THEN "accepted" ELSE "refused"]
    /\ since' = [since EXCEPT ![r] = @ \/ since[q]]
    /\ UNCHANGED <<account, required, known, lock, caches, inflight, admin, changes, lapsed, raced>>

\* The browser navigates away: the lookup, or the wait, is cancelled.
Disconnect(r) ==
    /\ request[r].pc \in {"load", "row", "wait"}
    /\ request' = [request EXCEPT ![r].pc = "failed", ![r].on = Nobody, ![r].age = 0,
                     ![r].future = IF @ = "pending" THEN "cancelled" ELSE @]
    /\ IF request[r].future = "pending" THEN Unregister(request[r].shown.of) ELSE UNCHANGED inflight
    /\ UNCHANGED <<account, required, known, lock, caches, admin, changes, lapsed, since, raced>>

Respond(r) ==
    /\ request[r].pc \in {"open", "accepted", "refused", "failed"} /\ \A q \in Requests : request[q].on # r
    /\ request' = [request EXCEPT ![r] = Idle]
    /\ since' = [since EXCEPT ![r] = FALSE]
    /\ UNCHANGED <<account, required, known, lock, caches, inflight, admin, changes, lapsed, raced>>

---------------------------------------------------------------------------
(* Changes to the account: a transaction, then the process's own knowledge. *)

Change == changes < AdminBound /\ changes' = changes + 1

\* Ghosts: a token or header that stops being good starts to age; a request
\* that shows one that becomes good is justified.
Note(rows2, cred2) ==
    LET good(s) == IF s.kind = "session" THEN s.of \in rows2 \ expired' ELSE s.of = cred2 IN
    /\ lapsed' = [s \in Shown |-> IF good(s) \/ Good(s) THEN 0 ELSE lapsed[s]]
    /\ since' = [r \in Requests |-> since[r] \/ (request[r].pc # "idle" /\ good(request[r].shown))]

\* login, then create_session; set_credential signs its caller in as well.
CreateSession(t) ==
    /\ Change /\ credential # 0 /\ issued' = issued \cup {t} /\ t \notin issued
    /\ rows' = (rows \ expired) \cup {t} /\ UNCHANGED <<credential, expired>>
    /\ Note(rows', credential)
    /\ UNCHANGED <<required, known, lock, caches, inflight, request, admin, raced>>

Expire(t) ==
    /\ Change /\ t \in rows \ expired /\ expired' = expired \cup {t}
    /\ UNCHANGED <<credential, rows, issued>> /\ Note(rows, credential)
    /\ UNCHANGED <<required, known, lock, caches, inflight, request, admin, raced>>

\* set_credential (g > 0), clear_credential (g = 0), revoke_* (g = credential).
Commit(g, kept) ==
    /\ Change /\ admin.pc = "idle"
    /\ credential' = g /\ rows' = rows \cap kept /\ UNCHANGED <<issued, expired>>
    /\ Note(rows', g)
    /\ admin' = [pc |-> IF g = credential THEN "bump" ELSE "know", to |-> g]
    /\ UNCHANGED <<required, known, lock, caches, inflight, request, raced>>

set_credential(g) == g # credential /\ Commit(g, {})
clear_credential == credential # 0 /\ Commit(0, {})
revoke_session(t) == t \in rows /\ Commit(credential, Tokens \ {t})
revoke_all_sessions == rows # {} /\ \E keep \in SUBSET Tokens : Cardinality(keep) <= 1 /\ Commit(credential, keep)

\* A revocation takes the sessions, a new or deleted account the passwords too.
Retired == IF admin.pc = "bump" THEN {s \in Shown : s.kind = "session"} ELSE Shown

\* Then the process follows; a cleared account also switches sign-in off.
Follow ==
    /\ admin.pc \in {"bump", "know"}
    /\ known' = IF admin.pc = "know" THEN [known EXCEPT !.user = Username(admin.to), !.loaded = TRUE] ELSE known
    /\ Forget(Retired) /\ request' = Released
    /\ raced' = raced \cup (Retired \cap {request[r].shown : r \in {q \in Requests : request[q].pc = "row"}})
    /\ required' = (required /\ (admin.pc = "bump" \/ admin.to # 0))
    /\ admin' = [admin EXCEPT !.pc = "idle"]
    /\ UNCHANGED <<account, lock, changes, lapsed, since>>

\* recover-login in another process: only the rows change.  The setting it
\* writes is read by this process at its next start.
Recover(g) ==
    /\ Change /\ g # credential
    /\ credential' = g /\ rows' = {} /\ UNCHANGED <<issued, expired>> /\ Note({}, g)
    /\ raced' = Shown   \* this process is not told
    /\ UNCHANGED <<required, known, lock, caches, inflight, request, admin>>

Requesting(r) ==
    \/ Gate(r) \/ ReadAccount(r) \/ KnowAccount(r) \/ Authenticate(r) \/ ReadRow(r)
    \/ Answer(r) \/ Share(r) \/ Respond(r)

Next ==
    \/ Tick
    \/ \E r \in Requests : Requesting(r) \/ Disconnect(r) \/ \E s \in Shown : Arrive(r, s)
    \/ \E t \in Tokens : CreateSession(t) \/ Expire(t) \/ revoke_session(t)
    \/ \E g \in Passwords : set_credential(g)
    \/ clear_credential \/ revoke_all_sessions \/ Follow
    \/ \E g \in Passwords \cup {0} : Recover(g)

Spec == /\ Init /\ [][Next]_vars /\ WF_vars(Tick) /\ WF_vars(Follow)
        /\ \A r \in Requests : WF_vars(Requesting(r)) /\ WF_vars(\E s \in Shown : Arrive(r, s))

---------------------------------------------------------------------------
\* Every variable keeps its type: credential, rows, known account and cache ages.
TypeOK ==
    /\ credential \in Passwords \cup {0} /\ rows \subseteq Tokens
    /\ known.user \in Passwords \cup {0} /\ known.checked \in 0 .. MISCONFIGURED_RECHECK_S
    /\ \A s \in Shown : cache[s] \in 0 .. Never /\ missing[s] \in 0 .. Never

\* An accepted request showed a session or password that was good at some
\* moment since CACHE_TTL_S before it, or the lookup it shared, began, whatever was revoked, changed or
\* recovered meanwhile: a cache entry is never renewed by a late lookup.
StaleAtMostTTL == \A r \in Requests : request[r].pc = "accepted" => since[r]

\* The rows hold the session, or held it until it ran out; or it is the password.
Stands(s) == IF s.kind = "session" THEN s.of \in rows \cup expired ELSE s.of = credential

\* A revocation that the process has followed is in force at once, without any
\* limit running out: what is remembered stands, but for what a lookup had read
\* before and remembers after it, and for the recovery command.
RevocationHolds ==
    admin.pc = "idle" => \A s \in Shown : cache[s] < CACHE_TTL_S => Stands(s) \/ s \in raced

\* Every registered lookup belongs to a request that is still working on it:
\* nobody comes to wait for a future that nobody will complete.
NoOrphanFlight ==
    \A t \in Tokens : inflight[t] # Nobody =>
        request[inflight[t]].future = "pending" /\ request[inflight[t]].pc \in {"load", "row"}

\* Requests are interchangeable: what holds of one holds of each.
ARequest == CHOOSE r \in Requests : TRUE

\* A request that waits for another's lookup is answered or released.
WaitersReleased == request[ARequest].pc = "wait" ~> request[ARequest].pc # "wait"

\* After the last change the process comes to know the account the database
\* holds, a change made by the recovery command included, so that a deleted
\* account cannot go on being asked for.
KnowsTheAccount == <>[](required => known.user = Username(credential))
=============================================================================
