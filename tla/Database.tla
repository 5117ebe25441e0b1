------------------------------ MODULE Database -------------------------------
(* The SQLite file through boots, migrations, backups and restores           *)
(* (db/session.py, db/backup.py, db/retry.py, api/routes/system.py): a       *)
(* restore is uploaded, validated and staged while the server runs, and      *)
(* applied by the next boot, before its first connection.                    *)
EXTENDS Integers, FiniteSets

CONSTANTS
    Boots,            \* processes that may boot against the data directory
    Head,             \* revision of this version's schema
    Uploads,          \* files a client may send: [rev, rows, intact]
    DEFAULT_ATTEMPTS, \* tries of a write against a locked database
    MaxRows,          \* bound: rows written
    DbEvents,         \* the environment's events, each met once
    FewDbEvents       \* bound: how many of them in one behaviour

VARIABLES
    db,        \* the database file: [rev, rows]
    backups,   \* snapshots under backups/
    pending,   \* restore.pending.db, or NoDb
    proc,      \* pc of each process
    migrating, \* holder of .migrate.lock, 0 if free
    upload,    \* [pc, file, abandoned]
    write,     \* a write under way: [pc, tries]
    count,     \* rows written so far
    dropped,   \* history: uploads given up before they were published
    faults     \* events of the environment met so far

vars == <<db, backups, pending, proc, migrating, upload, write, count, dropped, faults>>

NoDb == [rev |-> 0, rows |-> {}]
NoUpload == [pc |-> "idle", file |-> NoDb, abandoned |-> FALSE]
Meets(event) == event \in DbEvents \ faults /\ Cardinality(faults) < FewDbEvents /\ faults' = faults \cup {event}
Serving == {p \in Boots : proc[p] = "serve"}
Go(p, pc) == proc' = [proc EXCEPT ![p] = pc]

Init ==
    /\ db \in {[rev |-> r, rows |-> {}] : r \in 1 .. Head}
    /\ backups = {} /\ pending = NoDb
    /\ proc = [p \in Boots |-> "off"]
    /\ migrating = 0 /\ upload = NoUpload
    /\ write = [pc |-> "idle", tries |-> 0]
    /\ count = 0 /\ dropped = {} /\ faults = {}

---------------------------------------------------------------------------
(* A boot: init_db.                                                         *)

\* A staged restore is applied by a process that boots alone (session.py: "a
\* live WAL database"); otherwise processes may boot together.
Boot(p) ==
    /\ proc[p] = "off"
    /\ pending # NoDb => \A q \in Boots : proc[q] = "off"
    /\ \A q \in Boots : proc[q] \notin {"validate", "snapshot", "replace"}
    /\ Go(p, IF pending = NoDb THEN "lock" ELSE "validate")
    /\ UNCHANGED <<db, backups, pending, migrating, upload, write, count, dropped, faults>>

\* validate_database(compatible): sound, ours, of a revision this version knows.
validate_database(file) == file.intact /\ file.rev \in 1 .. Head

Validate(p) ==
    /\ proc[p] = "validate"
    /\ Go(p, "snapshot")
    /\ UNCHANGED <<db, backups, pending, migrating, upload, write, count, dropped, faults>>

\* Mutant: the restore keeps no copy of what it replaces.
NoSnapshot(kept, file) == kept

\* _create_snapshot: a complete, validated copy under its own name.
_create_snapshot(kept, file) == kept \cup {file}

\* apply_pending_restore: the copy first, or nothing (no space, database busy:
\* the boot fails); then the replacement.
SnapshotBefore(p) ==
    /\ proc[p] = "snapshot"
    /\ \/ backups' = _create_snapshot(backups, db) /\ Go(p, "replace") /\ UNCHANGED faults
       \/ Meets("no space") /\ Go(p, "off") /\ UNCHANGED backups
    /\ UNCHANGED <<db, pending, migrating, upload, write, count, dropped>>

Replace(p) ==
    /\ proc[p] = "replace"
    /\ db' = [rev |-> pending.rev, rows |-> pending.rows]
    /\ pending' = NoDb
    /\ Go(p, "lock")
    /\ UNCHANGED <<backups, migrating, upload, write, count, dropped, faults>>

LockFree(p) == migrating = 0

\* upgrade_to_head, under _migration_lock: a stale schema is copied first.
_migration_lock(p) ==
    /\ proc[p] = "lock" /\ LockFree(p)
    /\ migrating' = p
    /\ Go(p, IF db.rev = Head THEN "upgrade" ELSE "backup")
    /\ UNCHANGED <<db, backups, pending, upload, write, count, dropped, faults>>

create_pre_migration_backup(p) ==
    /\ proc[p] = "backup"
    /\ \/ backups' = backups \cup {db} /\ Go(p, "upgrade") /\ UNCHANGED <<migrating, faults>>
       \/ Meets("no space") /\ Go(p, "off") /\ migrating' = 0 /\ UNCHANGED backups
    /\ UNCHANGED <<db, pending, upload, write, count, dropped>>

Upgrade(p) ==
    /\ proc[p] = "upgrade"
    /\ db' = [db EXCEPT !.rev = Head]
    /\ migrating' = 0
    /\ Go(p, "serve")
    /\ UNCHANGED <<backups, pending, upload, write, count, dropped, faults>>

\* The process ends, by request or not; the operating system frees its lock.
Stop(p) ==
    /\ proc[p] # "off"
    /\ \/ proc[p] = "serve" /\ Meets("restart")
       \/ Meets("crash")
    /\ Go(p, "off")
    /\ migrating' = IF migrating = p THEN 0 ELSE migrating
    /\ write' = IF Serving = {p} THEN [pc |-> "idle", tries |-> 0] ELSE write
    /\ upload' = IF Serving = {p} THEN NoUpload ELSE upload
    /\ UNCHANGED <<db, backups, pending, count, dropped>>

---------------------------------------------------------------------------
(* Writes of a server: write_with_retry.                                    *)

BeginWrite ==
    /\ Serving # {} /\ write.pc = "idle" /\ count < MaxRows
    /\ write' = [pc |-> "try", tries |-> 1]
    /\ UNCHANGED <<db, backups, pending, proc, migrating, upload, count, dropped, faults>>

\* The operation and its commit; a locked database rolls back and tries again.
write_with_retry ==
    /\ write.pc = "try" /\ Serving # {}
    /\ \/ /\ db' = [db EXCEPT !.rows = @ \cup {count + 1}]
          /\ count' = count + 1
          /\ write' = [pc |-> "idle", tries |-> 0]
          /\ UNCHANGED faults
       \/ /\ Meets("locked") \/ (write.tries > 1 /\ UNCHANGED faults)
          /\ write' = IF write.tries >= DEFAULT_ATTEMPTS THEN [pc |-> "idle", tries |-> 0]
                      ELSE [write EXCEPT !.tries = @ + 1]
          /\ UNCHANGED <<db, count>>
    /\ UNCHANGED <<backups, pending, proc, migrating, upload, dropped>>

create_backup ==
    /\ Serving # {} /\ Meets("backup")
    /\ backups' = _create_snapshot(backups, db)
    /\ UNCHANGED <<db, pending, proc, migrating, upload, write, count, dropped>>

---------------------------------------------------------------------------
(* upload_database_restore: received, validated, published, closed.         *)

BeginUpload ==
    /\ Serving # {} /\ upload.pc = "idle" /\ Meets("upload")
    /\ \E f \in Uploads : upload' = [pc |-> "received", file |-> f, abandoned |-> FALSE]
    /\ UNCHANGED <<db, backups, pending, proc, migrating, write, count, dropped>>

ValidateUpload ==
    /\ upload.pc = "received"
    /\ upload' = IF validate_database(upload.file) /\ ~upload.abandoned
                 THEN [upload EXCEPT !.pc = "valid"] ELSE NoUpload
    /\ UNCHANGED <<db, backups, pending, proc, migrating, write, count, dropped, faults>>

Publishable == upload.pc = "valid" /\ ~upload.abandoned

\* publish: one replace, unless the request was cancelled before.
publish ==
    /\ Publishable
    /\ pending' = upload.file
    /\ upload' = NoUpload
    /\ UNCHANGED <<db, backups, proc, migrating, write, count, dropped, faults>>

Refused ==
    /\ upload.pc = "valid" /\ upload.abandoned
    /\ upload' = NoUpload
    /\ UNCHANGED <<db, backups, pending, proc, migrating, write, count, dropped, faults>>

\* The client goes away while a thread works for it.
Abandon ==
    /\ upload.pc # "idle" /\ ~upload.abandoned /\ Meets("disconnect")
    /\ upload' = [upload EXCEPT !.abandoned = TRUE]
    /\ dropped' = dropped \cup {upload.file}
    /\ UNCHANGED <<db, backups, pending, proc, migrating, write, count>>

Booting(p) ==
    \/ Boot(p) \/ Validate(p) \/ SnapshotBefore(p) \/ Replace(p) \/ _migration_lock(p)
    \/ create_pre_migration_backup(p) \/ Upgrade(p)

Next ==
    \/ \E p \in Boots : Booting(p) \/ Stop(p)
    \/ BeginWrite \/ write_with_retry \/ create_backup
    \/ BeginUpload \/ ValidateUpload \/ publish \/ Refused \/ Abandon

Spec == Init /\ [][Next]_vars /\ \A p \in Boots : WF_vars(Booting(p))

---------------------------------------------------------------------------
\* Revisions stay within the migrations, tries within the attempts, and what is
\* staged for a restore is a database.
TypeOK ==
    /\ db.rev \in 1 .. Head
    /\ pending # NoDb => validate_database(pending)
    /\ write.tries <= DEFAULT_ATTEMPTS

\* A row that was ever committed is in the database or in a backup, whatever
\* was restored or migrated over it and wherever a boot ended.
NothingLost == \A n \in 1 .. count : n \in db.rows \/ \E b \in backups : n \in b.rows

\* A schema is migrated by one process at a time, and only once a copy of it
\* as it was is kept.
MigratesOneCopy ==
    /\ Cardinality({p \in Boots : proc[p] \in {"backup", "upgrade"}}) <= 1
    /\ \A p \in Boots : proc[p] = "upgrade" /\ db.rev # Head => \E b \in backups : b.rev = db.rev /\ db.rows \subseteq b.rows

\* An upload whose client went away before it was published is never staged.
AbandonedNotStaged == pending \notin dropped

\* Processes are interchangeable: what holds of one holds of each.
ABoot == CHOOSE p \in Boots : TRUE

\* A process that boots comes to serve, whoever holds the lock first.
BootCompletes == proc[ABoot] = "lock" ~> (proc[ABoot] = "serve" \/ proc[ABoot] = "off")
=============================================================================
