------------------------------ MODULE ObdTransfer ------------------------------
(***************************************************************************)
(* The recordings of the OBD logger on their way to the server: the bundle  *)
(* transfer of a visit (app/ingest/obd_transfer.py), the registration of a  *)
(* bundle in the database (obd_bundle.py), the manual validation of one     *)
(* bundle (app/api/routes/obd_import.py) and the rebuild of the bundle      *)
(* storage that the server starts in the background (obd_storage.py).       *)
(*                                                                         *)
(* A drive has one file name.  A bundle is a number that stands for its     *)
(* SHA-256; 0 is no file, and on the server Damaged is a file whose bytes   *)
(* went bad and Torn one whose size changed too.                            *)
(* Two exports of one drive differ in their number and, when only the clock *)
(* of the export moved, agree in Payload.  Valid bundles pass               *)
(* validate_bundle.  The process lock leaves one transfer at a time.        *)
(***************************************************************************)
EXTENDS Integers, FiniteSets

CONSTANTS
    Drives,     \* drive ids, one bundle file name each
    Bundles,    \* contents a bundle can have, numbers above 0
    Valid,      \* the contents that pass validation
    Payload,    \* Bundles -> what the export recorded
    Few,        \* so many environment events may happen in any combination
    Budgets,    \* larger combinations that may: a set of subsets of Events
    Apart       \* BOOLEAN: once a file is damaged, no visit overlaps with a
                \* validation or a rebuild (nothing in the code sees to that)

ASSUME BundlesAssumption == Bundles \subseteq Nat \ {0} /\ Valid \subseteq Bundles
ASSUME FewAssumption == Few \in Nat
ASSUME ApartAssumption == Apart \in BOOLEAN

Damaged == -1
Torn == -2
Bytes == Bundles \cup {0, Damaged, Torn}
Events == {"export", "damage", "drop", "fault", "cancel", "validate",
           "rebuild", "restart"}

VARIABLES
    ready,      \* Drives -> Bundles or 0, the logger's outbox on the unit
    exported,   \* contents the logger has made so far
    raw,        \* Drives -> Bundles or 0: the export whose raw rows the logger keeps
    receipt,    \* Drives -> Bundles or 0, verification receipts on the unit
    verified,   \* Drives -> Bytes, the directory of verified bundles
    quarantine, \* Drives -> Bytes, the quarantine directory
    reexports,  \* subset of Drives \X Bundles: preserved equivalent re-exports
    row,        \* Drives -> the OBDBundle row
    imports,    \* Drives -> Nat, OBDDrive rows
    staged,     \* Drives -> Bundles or 0, the transfer directory
    xfer,       \* the transfer of a visit
    check,      \* the validation of one bundle
    rebuild,    \* the rebuild of the bundle storage, which holds the claim lock
    spent       \* the environment events that have happened, each once

unitVars == <<ready, exported, raw, receipt>>
fileVars == <<verified, quarantine, reexports>>
dbVars == <<row, imports>>
vars == <<unitVars, fileVars, dbVars, staged, xfer, check, rebuild, spent>>

Meets(event) ==
    /\ event \notin spent
    /\ \/ Cardinality(spent) < Few
       \/ \E b \in Budgets : spent \cup {event} \subseteq b
    /\ spent' = spent \cup {event}
KeepApart == Apart /\ "damage" \in spent

NoRow == [hash |-> 0, trusted |-> FALSE, state |-> "none", dated |-> FALSE,
          kind |-> "none"]
NoXfer == [pc |-> "off", phase |-> "scan", todo |-> {}, pending |-> {},
           cur |-> 0, owned |-> FALSE, sees |-> NoRow, ack |-> 0]
NoCheck == [pc |-> "off", cur |-> 0, orig |-> NoRow, sees |-> NoRow, got |-> 0,
            ends |-> NoRow]
NoRebuild == [pc |-> "off", todo |-> {}, cur |-> 0, known |-> NoRow,
              sees |-> NoRow, got |-> 0, moved |-> FALSE]

Init ==
    /\ ready = [d \in Drives |-> 0] /\ receipt = ready
    /\ raw = ready /\ exported = {}
    /\ verified = ready /\ quarantine = ready /\ staged = ready
    /\ reexports = {} /\ row = [d \in Drives |-> NoRow]
    /\ imports = [d \in Drives |-> 0]
    /\ xfer = NoXfer /\ check = NoCheck /\ rebuild = NoRebuild /\ spent = {}

-----------------------------------------------------------------------------
(* The logger on the unit.                                                 *)

\* A drive is exported; one whose raw rows are still there may be exported
\* again, with the same rows or after more were recovered.
Export(d, c) ==
    /\ c \notin exported
    /\ IF exported = {} THEN UNCHANGED spent
       ELSE Meets("export") /\ (raw[d] # 0 \/ receipt[d] = 0)
    /\ ready' = [ready EXCEPT ![d] = c] /\ raw' = [raw EXCEPT ![d] = c]
    /\ exported' = exported \cup {c}
    /\ UNCHANGED <<receipt, fileVars, dbVars, staged, xfer, check, rebuild>>

\* The logger prunes the raw rows once the exact export is acknowledged.
Prune(d) ==
    /\ raw[d] # 0 /\ receipt[d] = raw[d]
    /\ raw' = [raw EXCEPT ![d] = 0]
    /\ UNCHANGED <<ready, exported, receipt, fileVars, dbVars, staged, xfer,
                   check, rebuild, spent>>

\* A verified file goes bad on the server's disk between two visits, while
\* the unit still has the bundle.
Damage(d) ==
    /\ verified[d] \in Bundles /\ ready[d] = verified[d]
    /\ xfer.pc = "off" /\ check.pc = "off" /\ rebuild.pc = "off"
    /\ Meets("damage")
    /\ \E bad \in {Damaged, Torn} : verified' = [verified EXCEPT ![d] = bad]
    /\ UNCHANGED <<unitVars, quarantine, reexports, dbVars, staged, xfer,
                   check, rebuild>>

-----------------------------------------------------------------------------
(* Registration: store_validated_bundle and store_rejected_bundle.         *)

validate_bundle(c) == c \in Valid

\* Mutant: the row of a quarantined bundle is not repaired.
NeverRepairable(r) == FALSE
Repairable(r) ==
    \/ r.state = "quarantined"
    \/ r.state = "failed" /\ r.kind \in {"integrity", "local_path", "quarantine_io"}
\* _receipt_eligible: trusted, verified and stored.
Eligible(r) == r.trusted /\ r.dated /\ r.state = "stored"
Stored(c) == [hash |-> c, trusted |-> TRUE, state |-> "stored", dated |-> TRUE,
              kind |-> "none"]

\* What the rows read at the start of a registration say of bundle c.
Exists(r, c) == r.trusted /\ r.hash = c
Conflicts(r, c) == r.trusted /\ r.hash # c
\* An insert fails when another registration of the drive committed first.
UniqueFails(d, r) ==
    ~r.trusted /\ (row[d].trusted \/ (r.state = "none" /\ row[d].state # "none"))

\* The transaction that ends a registration that had read r: a bundle found
\* again is repaired and never imported a second time.
store_validated_bundle(d, r, c) ==
    /\ row' = IF Exists(r, c) /\ ~Repairable(r) THEN row
              ELSE [row EXCEPT ![d] = Stored(c)]
    /\ imports' = [imports EXCEPT ![d] = IF Exists(r, c) THEN @ ELSE @ + 1]

\* A bad copy never replaces a trusted row.
store_rejected_bundle(d, c, moved) ==
    row' = IF row[d].trusted THEN row
           ELSE [row EXCEPT ![d] =
                   [hash |-> c, trusted |-> FALSE, dated |-> FALSE,
                    state |-> IF moved THEN "quarantined" ELSE "failed",
                    kind |-> IF moved THEN "integrity" ELSE "quarantine_io"]]

-----------------------------------------------------------------------------
(* The transfer of one visit: _sync_remote_bundles.                        *)

others == <<check, rebuild>>

At(d, place, r) == [xfer EXCEPT !.pc = place, !.cur = d, !.sees = r,
                                !.todo = @ \ {d}, !.pending = @ \ {d}]
Back == [xfer EXCEPT !.pc = "next", !.cur = 0, !.owned = FALSE, !.sees = NoRow,
                     !.ack = 0]
SkipOver(d) == [Back EXCEPT !.todo = @ \ {d}]
Pend(d) == [Back EXCEPT !.todo = @ \ {d}, !.pending = @ \cup {d}]

\* The process lock is taken, orphaned staging removed, the outbox listed.
Sync ==
    LET there == {d \in Drives : ready[d] # 0} IN
    /\ xfer.pc = "off" /\ there # {}
    /\ KeepApart => check.pc = "off" /\ rebuild.pc = "off"
    /\ xfer' = [NoXfer EXCEPT !.pc = "next", !.todo = there]
    /\ staged' = [d \in Drives |-> 0]
    /\ UNCHANGED <<unitVars, fileVars, dbVars, others, spent>>

\* _already_verified, _already_rejected: what the server has of the file.
\* Mutant: a file of the right name counts as the verified copy.
KnownByName(d) == row[d].dated /\ verified[d] # 0
KnownHere(d) == row[d].dated /\ verified[d] = row[d].hash
KnownBad(d) == /\ ~row[d].trusted /\ row[d].state = "quarantined"
               /\ quarantine[d] = row[d].hash
Scan(d) ==
    /\ xfer.pc = "next" /\ d \in xfer.todo
    /\ xfer' = IF KnownHere(d)
               THEN At(d, IF Repairable(row[d]) THEN "repair" ELSE "identify", row[d])
               ELSE IF KnownBad(d) THEN At(d, "identify", row[d]) ELSE Pend(d)
    /\ UNCHANGED <<unitVars, fileVars, dbVars, staged, others, spent>>

\* A quarantined row whose verified bytes are whole is taken back, unless it
\* changed since it was read.
Repair ==
    LET d == xfer.cur
        still == Repairable(row[d]) IN
    /\ xfer.pc = "repair"
    /\ row' = IF still THEN [row EXCEPT ![d].state = "stored", ![d].dated = TRUE,
                                        ![d].kind = "none"] ELSE row
    /\ quarantine' = IF still THEN [quarantine EXCEPT ![d] = 0] ELSE quarantine
    /\ xfer' = IF still \/ row[d].state = "stored" THEN At(d, "identify", row'[d])
               ELSE Pend(d)
    /\ UNCHANGED <<unitVars, verified, reexports, imports, staged, others, spent>>

\* _remote_bundle_sha256: the unit hashes its file.  A bundle that is known
\* whole is acknowledged without a copy, one known bad is left where it is.
Identify ==
    LET d == xfer.cur IN
    /\ xfer.pc = "identify"
    /\ \/ /\ xfer' = IF ready[d] # xfer.sees.hash THEN Pend(d)
                     ELSE IF Eligible(xfer.sees)
                          THEN [xfer EXCEPT !.pc = "receipt", !.ack = xfer.sees.hash]
                          ELSE SkipOver(d)
          /\ UNCHANGED spent
       \/ Meets("fault") /\ xfer' = Pend(d)
    /\ UNCHANGED <<unitVars, fileVars, dbVars, staged, others>>

\* The stream: which of the pending files arrived whole.
Receive ==
    LET there == {d \in xfer.pending : ready[d] # 0} IN
    /\ xfer.pc = "next" /\ xfer.phase = "scan" /\ xfer.todo = {} /\ xfer.pending # {}
    /\ \E got \in SUBSET there :
          /\ IF got = there THEN UNCHANGED spent ELSE Meets("drop")
          /\ staged' = [d \in Drives |-> IF d \in got THEN ready[d] ELSE 0]
          /\ xfer' = [xfer EXCEPT !.phase = "batch", !.pending = got]
    /\ UNCHANGED <<unitVars, fileVars, dbVars, others>>

\* validate_bundle on an arrival; then the file of that name in verified/.
\* When that differs, the row says which of the two is the damaged one.
Fate(d) ==
    IF ~validate_bundle(staged[d]) THEN "reject"
    ELSE IF verified[d] \in {0, staged[d]} THEN "install"
    ELSE IF row[d].state = "none" THEN "reject"
    ELSE IF row[d].hash = staged[d] THEN "swap" ELSE "reexport"
Validate(d) ==
    /\ xfer.pc = "next" /\ xfer.phase = "batch" /\ d \in xfer.pending
    /\ xfer' = [At(d, Fate(d), row[d]) EXCEPT
                  !.owned = Fate(d) = "install" /\ verified[d] = 0,
                  !.ack = staged[d]]
    /\ UNCHANGED <<unitVars, fileVars, dbVars, staged, others, spent>>

\* Nothing is left to do: the transfer directory is removed, the lock released.
EndSync ==
    /\ xfer.pc = "next" /\ xfer.todo = {} /\ xfer.pending = {}
    /\ xfer' = NoXfer /\ staged' = [d \in Drives |-> 0]
    /\ UNCHANGED <<unitVars, fileVars, dbVars, others, spent>>

\* The damaged file of that name goes to quarantine first.
Swap ==
    LET d == xfer.cur IN
    /\ xfer.pc = "swap"
    /\ IF verified[d] = 0
       THEN xfer' = [xfer EXCEPT !.pc = "reject"] /\ UNCHANGED <<verified, quarantine>>
       ELSE /\ quarantine' = [quarantine EXCEPT ![d] = verified[d]]
            /\ verified' = [verified EXCEPT ![d] = 0]
            /\ xfer' = [xfer EXCEPT !.pc = "install", !.owned = TRUE]
    /\ UNCHANGED <<unitVars, reexports, dbVars, staged, others, spent>>

\* The arrival is moved under its name, or dropped when its bytes are there.
Install ==
    LET d == xfer.cur IN
    /\ xfer.pc = "install"
    /\ verified' = IF xfer.owned THEN [verified EXCEPT ![d] = staged[d]] ELSE verified
    /\ staged' = [staged EXCEPT ![d] = 0]
    /\ xfer' = [xfer EXCEPT !.pc = "lookup"]
    /\ UNCHANGED <<unitVars, quarantine, reexports, dbVars, others, spent>>

\* _prove_equivalent_reexport, _preserve_equivalent_reexport: the same
\* observations under a new export clock are kept beside the original.
Equivalent(d) ==
    /\ Eligible(xfer.sees) /\ verified[d] = xfer.sees.hash
    /\ Payload[staged[d]] = Payload[xfer.sees.hash]
PreserveReexport ==
    LET d == xfer.cur IN
    /\ xfer.pc = "reexport"
    /\ IF Equivalent(d)
       THEN /\ reexports' = reexports \cup {<<d, staged[d]>>}
            /\ staged' = [staged EXCEPT ![d] = 0]
            /\ xfer' = [xfer EXCEPT !.pc = "receipt"]
       ELSE xfer' = [xfer EXCEPT !.pc = "reject"] /\ UNCHANGED <<reexports, staged>>
    /\ UNCHANGED <<unitVars, verified, quarantine, dbVars, others, spent>>

\* _register: the rows are read, later the transaction commits or fails.
Lookup ==
    LET r == row[xfer.cur] IN
    /\ xfer.pc = "lookup"
    /\ xfer' = [xfer EXCEPT !.sees = r,
                            !.pc = IF Conflicts(r, xfer.ack) THEN "reject" ELSE "register"]
    /\ UNCHANGED <<unitVars, fileVars, dbVars, staged, others, spent>>

\* _registered_winner: the loser of a race accepts what won when row and file
\* are exactly its bundle.
Winner(d) == /\ row[d].trusted /\ row[d].dated /\ row[d].hash = xfer.ack
             /\ verified[d] = xfer.ack
Register ==
    LET d == xfer.cur IN
    /\ xfer.pc = "register"
    /\ IF UniqueFails(d, xfer.sees)
       THEN /\ xfer' = [xfer EXCEPT !.sees = row[d],
                           !.pc = IF ~Winner(d) THEN "reject"
                                  ELSE IF Eligible(row[d]) THEN "receipt" ELSE "keep"]
            /\ UNCHANGED dbVars
       ELSE /\ store_validated_bundle(d, xfer.sees, xfer.ack)
            /\ xfer' = [xfer EXCEPT !.pc = "clear", !.sees = row'[d]]
    /\ UNCHANGED <<unitVars, fileVars, staged, others, spent>>

\* _clear_stale_quarantine, for a row that is stored.
Clear ==
    LET d == xfer.cur
        stored == xfer.sees.state = "stored" IN
    /\ xfer.pc = "clear"
    /\ quarantine' = IF stored THEN [quarantine EXCEPT ![d] = 0] ELSE quarantine
    /\ xfer' = [xfer EXCEPT !.pc = IF Eligible(xfer.sees) THEN "receipt" ELSE "keep"]
    /\ UNCHANGED <<unitVars, verified, reexports, dbVars, staged, others, spent>>

\* The source stays on the unit until its row is coherent.
Keep ==
    /\ xfer.pc = "keep"
    /\ xfer' = Back
    /\ UNCHANGED <<unitVars, fileVars, dbVars, staged, others, spent>>

\* A refused arrival, or the file this run installed, goes to quarantine; a
\* file of that name that was there before is never touched.
Reject ==
    LET d == xfer.cur
        mine == staged[d] = 0 /\ xfer.owned /\ verified[d] # 0
        c == IF mine THEN verified[d] ELSE staged[d] IN
    /\ xfer.pc = "reject"
    /\ IF c # 0
       THEN /\ quarantine' = [quarantine EXCEPT ![d] = c]
            /\ verified' = IF mine THEN [verified EXCEPT ![d] = 0] ELSE verified
            /\ staged' = [staged EXCEPT ![d] = 0]
            /\ store_rejected_bundle(d, c, TRUE)
       ELSE UNCHANGED <<quarantine, verified, staged, row>>
    /\ xfer' = Back
    /\ UNCHANGED <<unitVars, reexports, imports, others, spent>>

\* write_verification_receipt: written, synced and read back.
WriteReceipt ==
    /\ xfer.pc = "receipt"
    /\ \/ /\ receipt' = [receipt EXCEPT ![xfer.cur] = xfer.ack]
          /\ xfer' = [xfer EXCEPT !.pc = "remove"] /\ UNCHANGED spent
       \/ Meets("fault") /\ UNCHANGED receipt /\ xfer' = Back
    /\ UNCHANGED <<ready, exported, raw, fileVars, dbVars, staged, others>>

\* _delete_remote_if_hash: the file is set aside, hashed, and only then
\* removed; one that changed is put back.
SameRemote(d) == ready[d] = xfer.ack
Remove ==
    LET d == xfer.cur IN
    /\ xfer.pc = "remove"
    /\ \/ /\ ready' = IF SameRemote(d) THEN [ready EXCEPT ![d] = 0] ELSE ready
          /\ UNCHANGED spent
       \/ Meets("fault") /\ UNCHANGED ready
    /\ xfer' = Back
    /\ UNCHANGED <<exported, raw, receipt, fileVars, dbVars, staged, others>>

\* Stop, or the end of the visit, seen between two steps.
Cancel ==
    /\ xfer.pc \in {"next", "identify", "receipt", "remove"}
    /\ Meets("cancel")
    /\ xfer' = NoXfer /\ staged' = [d \in Drives |-> 0]
    /\ UNCHANGED <<unitVars, fileVars, dbVars, others>>

-----------------------------------------------------------------------------
(* The validation of one bundle that a user asks for: validate_one.        *)

checkOnly == <<unitVars, reexports, staged, xfer, rebuild>>
WasQuarantined == check.orig.state = "quarantined"

\* The claim: a committed compare-and-swap of the row's state under the lock.
Claim(d) ==
    /\ check.pc = "off" /\ rebuild.pc = "off" /\ (KeepApart => xfer.pc = "off")
    /\ row[d].state \notin {"none", "validating"}
    /\ Meets("validate")
    /\ row' = [row EXCEPT ![d].state = "validating"]
    /\ check' = [NoCheck EXCEPT !.pc = "check", !.cur = d, !.orig = row[d]]
    /\ UNCHANGED <<unitVars, fileVars, imports, staged, xfer, rebuild>>

\* validate_bundle, on the copy that the row's state pointed to.
CheckCopy ==
    LET d == check.cur
        c == IF WasQuarantined THEN quarantine[d] ELSE verified[d]
        good == validate_bundle(c) /\ ~Conflicts(check.orig, c) IN
    /\ check.pc = "check"
    /\ check' = [check EXCEPT !.got = c,
                    !.pc = IF ~good THEN "fail"
                           ELSE IF check.orig.trusted THEN "promote" ELSE "lookup"]
    /\ UNCHANGED <<checkOnly, verified, quarantine, dbVars, spent>>

Ends(state, kind, dated) == [NoRow EXCEPT !.state = state, !.kind = kind, !.dated = dated]

\* _quarantine_row: a copy already in quarantine is not rotated.
FailCopy ==
    LET d == check.cur
        moved == ~WasQuarantined /\ verified[d] # 0 IN
    /\ check.pc = "fail"
    /\ quarantine' = IF moved THEN [quarantine EXCEPT ![d] = verified[d]] ELSE quarantine
    /\ verified' = IF moved THEN [verified EXCEPT ![d] = 0] ELSE verified
    /\ check' = [check EXCEPT !.pc = "end",
                    !.ends = IF moved \/ WasQuarantined
                             THEN Ends("quarantined", "integrity", row[d].dated)
                             ELSE Ends("failed", "quarantine_io", row[d].dated)]
    /\ UNCHANGED <<checkOnly, dbVars, spent>>

\* An untrusted row is registered from the copy, and stays claimed.
CheckLookup ==
    LET d == check.cur IN
    /\ check.pc = "lookup"
    /\ check' = IF Conflicts(row[d], check.got)
                THEN [check EXCEPT !.pc = "end",
                        !.ends = Ends(IF WasQuarantined THEN "quarantined" ELSE "failed",
                                      "registration", row[d].dated)]
                ELSE [check EXCEPT !.pc = "store", !.sees = row[d]]
    /\ UNCHANGED <<checkOnly, verified, quarantine, dbVars, spent>>

\* A lost race ends the request with the row still claimed.
CheckStore ==
    LET d == check.cur IN
    /\ check.pc = "store"
    /\ IF UniqueFails(d, check.sees)
       THEN check' = NoCheck /\ UNCHANGED dbVars
       ELSE /\ row' = [row EXCEPT ![d] = [Stored(check.got) EXCEPT !.state = "validating"]]
            /\ imports' = [imports EXCEPT ![d] = IF Exists(check.sees, check.got)
                                                THEN @ ELSE @ + 1]
            /\ check' = [check EXCEPT !.pc = "promote"]
    /\ UNCHANGED <<checkOnly, verified, quarantine, spent>>

\* restore_from_quarantine never replaces a verified file.
Promote ==
    LET d == check.cur
        moves == WasQuarantined /\ verified[d] = 0 /\ quarantine[d] # 0 IN
    /\ check.pc = "promote"
    /\ verified' = IF moves THEN [verified EXCEPT ![d] = quarantine[d]] ELSE verified
    /\ quarantine' = IF moves THEN [quarantine EXCEPT ![d] = 0] ELSE quarantine
    /\ check' = [check EXCEPT !.pc = "end",
                    !.ends = IF WasQuarantined /\ ~moves
                             THEN Ends("quarantined", "quarantine_io", TRUE)
                             ELSE IF WasQuarantined \/ ~check.orig.trusted
                             THEN Ends("stored", "none", TRUE)
                             ELSE Ends(check.orig.state, check.orig.kind, TRUE)]
    /\ UNCHANGED <<checkOnly, dbVars, spent>>

\* The request's last commit.
EndCheck ==
    /\ check.pc = "end"
    /\ row' = [row EXCEPT ![check.cur].state = check.ends.state,
                          ![check.cur].kind = check.ends.kind,
                          ![check.cur].dated = check.ends.dated]
    /\ check' = NoCheck
    /\ UNCHANGED <<checkOnly, verified, quarantine, imports, spent>>

-----------------------------------------------------------------------------
(* The rebuild of the bundle storage: reconcile_orphan_bundles.            *)

rebuildOnly == <<unitVars, reexports, staged, xfer, check>>
NextFile == [rebuild EXCEPT !.pc = "next", !.todo = @ \ {rebuild.cur}]
Rebuilding == [NoRebuild EXCEPT !.pc = "next",
                                !.todo = {d \in Drives : verified[d] # 0}]

\* A user asks for it.
StartRebuild ==
    /\ rebuild.pc = "off" /\ (KeepApart => xfer.pc = "off")
    /\ Meets("rebuild")
    /\ rebuild' = Rebuilding
    /\ UNCHANGED <<rebuildOnly, verified, quarantine, dbVars>>

\* A file whose row is claimed, or dated and of the file's size and in no
\* need of repair, is passed over.
SameSize(a, b) == a = b \/ a = Damaged
PassedOver(d) ==
    \/ verified[d] = 0 \/ row[d].state = "validating"
    \/ /\ row[d].dated /\ SameSize(verified[d], row[d].hash)
       /\ row[d].trusted /\ ~Repairable(row[d])
LookAtFile(d) ==
    /\ rebuild.pc = "next" /\ d \in rebuild.todo
    /\ rebuild' = IF PassedOver(d) THEN [rebuild EXCEPT !.todo = @ \ {d}]
                  ELSE [rebuild EXCEPT !.pc = "check", !.cur = d, !.known = row[d]]
    /\ UNCHANGED <<rebuildOnly, verified, quarantine, dbVars, spent>>

\* validate_bundle and the read that starts the registration.
CheckFile ==
    LET d == rebuild.cur
        c == verified[d]
        good == validate_bundle(c) /\ ~Conflicts(row[d], c) IN
    /\ rebuild.pc = "check"
    /\ rebuild' = [rebuild EXCEPT !.pc = IF good THEN "store" ELSE "move",
                      !.got = c, !.sees = row[d]]
    /\ UNCHANGED <<rebuildOnly, verified, quarantine, dbVars, spent>>

\* A lost race is an error the rebuild does not catch.
StoreFile ==
    LET d == rebuild.cur IN
    /\ rebuild.pc = "store"
    /\ IF UniqueFails(d, rebuild.sees)
       THEN rebuild' = NoRebuild /\ UNCHANGED dbVars
       ELSE /\ store_validated_bundle(d, rebuild.sees, rebuild.got)
            /\ rebuild' = IF row'[d].state = "stored" THEN [rebuild EXCEPT !.pc = "clear"]
                          ELSE NextFile
    /\ UNCHANGED <<rebuildOnly, verified, quarantine, spent>>

ClearFile ==
    /\ rebuild.pc = "clear"
    /\ quarantine' = [quarantine EXCEPT ![rebuild.cur] = 0]
    /\ rebuild' = NextFile
    /\ UNCHANGED <<rebuildOnly, verified, dbVars, spent>>

\* move_to_quarantine, by name.
MoveFile ==
    LET d == rebuild.cur IN
    /\ rebuild.pc = "move"
    /\ quarantine' = IF verified[d] = 0 THEN quarantine
                     ELSE [quarantine EXCEPT ![d] = verified[d]]
    /\ verified' = [verified EXCEPT ![d] = 0]
    /\ rebuild' = [rebuild EXCEPT !.pc = "row", !.moved = verified[d] # 0,
                                  !.got = verified[d]]
    /\ UNCHANGED <<rebuildOnly, dbVars, spent>>

RecordFile ==
    LET d == rebuild.cur IN
    /\ rebuild.pc = "row"
    /\ IF rebuild.got # 0 /\ ~rebuild.known.trusted
       THEN store_rejected_bundle(d, rebuild.got, rebuild.moved)
       ELSE row' = IF rebuild.known.state = "none" THEN row
                   ELSE [row EXCEPT
                      ![d].state = IF rebuild.moved THEN "quarantined" ELSE "failed",
                      ![d].kind = IF rebuild.moved THEN "integrity" ELSE "quarantine_io"]
    /\ rebuild' = NextFile
    /\ UNCHANGED <<rebuildOnly, verified, quarantine, imports, spent>>

EndRebuild ==
    /\ rebuild.pc = "next" /\ rebuild.todo = {}
    /\ rebuild' = NoRebuild
    /\ UNCHANGED <<rebuildOnly, verified, quarantine, dbVars, spent>>

-----------------------------------------------------------------------------
(* The process stops and starts again: recover_interrupted_validations     *)
(* resolves what was claimed, then the rebuild starts.                     *)

Claimed(d) == row[d].state = "validating"
Broken(d) == /\ Claimed(d) /\ quarantine[d] = 0 /\ row[d].trusted
             /\ verified[d] \notin {0, row[d].hash}
RecoveredRow(d) ==
    IF ~Claimed(d) THEN row[d]
    ELSE IF quarantine[d] # 0
    THEN [row[d] EXCEPT !.state = "quarantined",
                        !.kind = IF @ = "none" THEN "interrupted" ELSE @]
    ELSE IF row[d].trusted /\ verified[d] = row[d].hash THEN Stored(row[d].hash)
    ELSE IF Broken(d) THEN [row[d] EXCEPT !.state = "quarantined", !.kind = "integrity"]
    ELSE [row[d] EXCEPT !.state = "failed", !.kind = "local_path"]
Recovered(d) == RecoveredRow(d)
Restart ==
    /\ Meets("restart")
    /\ row' = [d \in Drives |-> Recovered(d)]
    /\ quarantine' = [d \in Drives |-> IF Broken(d) THEN verified[d] ELSE quarantine[d]]
    /\ verified' = [d \in Drives |-> IF Broken(d) THEN 0 ELSE verified[d]]
    /\ xfer' = NoXfer /\ check' = NoCheck
    /\ rebuild' = [NoRebuild EXCEPT !.pc = "next",
                                    !.todo = {d \in Drives : verified'[d] # 0}]
    /\ UNCHANGED <<unitVars, reexports, imports, staged>>

-----------------------------------------------------------------------------

Transfer ==
    \/ Sync \/ Repair \/ Identify \/ Receive \/ EndSync \/ Swap \/ Install
    \/ PreserveReexport \/ Lookup \/ Register \/ Clear \/ Keep \/ Reject
    \/ WriteReceipt \/ Remove
    \/ \E d \in Drives : Scan(d) \/ Validate(d)
Check == CheckCopy \/ FailCopy \/ CheckLookup \/ CheckStore \/ Promote \/ EndCheck
RebuildStep ==
    \/ CheckFile \/ StoreFile \/ ClearFile \/ MoveFile \/ RecordFile \/ EndRebuild
    \/ \E d \in Drives : LookAtFile(d)
Environment ==
    \/ \E d \in Drives, c \in Bundles : Export(d, c)
    \/ \E d \in Drives : Prune(d) \/ Damage(d) \/ Claim(d)
    \/ Cancel \/ StartRebuild \/ Restart
Next == Transfer \/ Check \/ RebuildStep \/ Environment

\* Visits recur while the outbox holds a bundle; a request and the rebuild
\* that were started run on.
Fairness == WF_vars(Transfer) /\ WF_vars(Check) /\ WF_vars(RebuildStep)
Spec == Init /\ [][Next]_vars /\ Fairness

-----------------------------------------------------------------------------

RowType == [hash : Bytes, trusted : BOOLEAN, dated : BOOLEAN,
            state : {"none", "stored", "quarantined", "failed", "validating"},
            kind : {"none", "integrity", "local_path", "quarantine_io",
                    "registration", "interrupted"}]

\* Types of the directories, the rows and the unit's outbox and receipts.
TypeOK ==
    /\ ready \in [Drives -> Bundles \cup {0}] /\ raw \in [Drives -> Bundles \cup {0}]
    /\ receipt \in [Drives -> Bundles \cup {0}] /\ staged \in [Drives -> Bundles \cup {0}]
    /\ verified \in [Drives -> Bytes] /\ quarantine \in [Drives -> Bytes]
    /\ reexports \subseteq Drives \X Bundles
    /\ row \in [Drives -> RowType] /\ imports \in [Drives -> Nat]
    /\ spent \subseteq Events

Holds(S, c) == \E b \in S \cap Bundles : Payload[b] = Payload[c]

\* What a drive recorded is somewhere: in the logger's raw rows, in its
\* outbox, or in the bundle the server imported.  Nothing the transfer removes
\* from the unit, and nothing the server quarantines, clears or restores
\* beside it, is the last copy.
NoDriveLost ==
    \A d \in Drives : receipt[d] # 0 /\ raw[d] = 0 =>
        Holds({verified[d], quarantine[d], ready[d]}, receipt[d])

\* A bundle is imported once, however often it is copied, repaired, validated
\* or found again, and a bundle that is trusted was imported.
ImportedOnce ==
    \A d \in Drives : imports[d] = IF row[d].trusted THEN 1 ELSE 0

\* A claim ends: with the request that made it, or at the restart that
\* interrupted it (recover_interrupted_validations).
ClaimEnds == \A d \in Drives : (row[d].state = "validating") ~> (row[d].state # "validating")

\* No bundle stays in the outbox in doubt: it is acknowledged and removed, or
\* refused for a reason that a row records (it is invalid, or the drive is
\* stored with other contents, or with bytes that went bad).
Refused(d) ==
    \/ KnownBad(d) /\ row[d].hash = ready[d]
    \/ row[d].trusted /\ Payload[row[d].hash] # Payload[ready[d]]
    \/ row[d].trusted /\ row[d].hash # ready[d] /\ verified[d] # row[d].hash
Delivered == \A d \in Drives : []<>(ready[d] = 0 \/ Refused(d))

\* What a drive recorded is kept somewhere and imported exactly once, in files
\* and rows of their types.
KeptAndImportedOnce == TypeOK /\ NoDriveLost /\ ImportedOnce

\* No bundle stays in the outbox in doubt, and no row stays claimed.
DrivesGetThrough == Delivered /\ ClaimEnds
=============================================================================
