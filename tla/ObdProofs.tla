------------------------------ MODULE ObdProofs ------------------------------
(***************************************************************************)
(* Proofs about the bundle transfer: the types of what it keeps, a drive    *)
(* imported exactly when its row is trusted and never twice, and a trusted  *)
(* row that no registration, repair, validation or restart takes back.      *)
(*                                                                         *)
(* Three registrations of one drive may run at once: each reads the rows,   *)
(* and its transaction comes later.  Importing once is not inductive: it    *)
(* needs that what a registration read still holds when it writes, and that *)
(* rests on a trusted row keeping its hash.  The proof assumes nothing of   *)
(* Apart, and any number of exports, faults, requests and restarts.         *)
(*                                                                         *)
(* Then, about what the unit recorded itself: its events, its movement      *)
(* report and its log are taken over as they were.                          *)
(***************************************************************************)
EXTENDS ObdTransfer, UnitServices, FiniteSetTheorems, WellFoundedInduction, TLAPS

Xfer == [pc : {"off", "next", "repair", "identify", "swap", "install", "reexport",
               "lookup", "register", "clear", "keep", "reject", "receipt", "remove"},
         phase : {"scan", "batch"}, todo : SUBSET Drives, pending : SUBSET Drives,
         cur : Drives \cup {0}, owned : BOOLEAN, sees : RowType,
         ack : Bundles \cup {0}]
Request == [pc : {"off", "check", "fail", "lookup", "store", "promote", "end"},
            cur : Drives \cup {0}, orig : RowType, sees : RowType, got : Bytes,
            ends : RowType]
Rebuild == [pc : {"off", "next", "check", "store", "clear", "move", "row"},
            todo : SUBSET Drives, cur : Drives \cup {0}, known : RowType,
            sees : RowType, got : Bytes, moved : BOOLEAN]

Working == {"repair", "identify", "swap", "install", "reexport", "lookup",
            "register", "clear", "keep", "reject", "receipt", "remove"}

\* A row that was read in trust for bundle c still holds.
StillTrue(d, r, c) ==
  /\ ~Conflicts(r, c)
  /\ r.trusted => row[d].trusted /\ row[d].hash = r.hash

\* Each of the three works on a drive, carries a bundle into the step that
\* stores it, and registers on what it read.
XferFits ==
  /\ xfer \in Xfer /\ (xfer.pc \in Working => xfer.cur \in Drives)
  /\ xfer.pc = "reexport" => staged[xfer.cur] \in Bundles
  /\ xfer.pc = "register" => StillTrue(xfer.cur, xfer.sees, xfer.ack)
CheckFits ==
  /\ check \in Request /\ (check.pc # "off" => check.cur \in Drives)
  /\ check.pc \in {"lookup", "store"} => check.got \in Bundles
  /\ check.pc = "store" => StillTrue(check.cur, check.sees, check.got)
RebuildFits ==
  /\ rebuild \in Rebuild
  /\ rebuild.pc \notin {"off", "next"} => rebuild.cur \in Drives
  /\ rebuild.pc = "store" => /\ rebuild.got \in Bundles
                             /\ StillTrue(rebuild.cur, rebuild.sees, rebuild.got)

Inv == TypeOK /\ XferFits /\ CheckFits /\ RebuildFits /\ ImportedOnce

\* What a step may do to a row: trust is never taken back, nor its hash
\* changed, and the import is counted as trust is given.
Trusted(d) == row[d].trusted => row'[d].trusted /\ row'[d].hash = row[d].hash
Counted(d) ==
  imports'[d] = IF row'[d].trusted /\ ~row[d].trusted THEN imports[d] + 1 ELSE imports[d]
RowsKeep == \A d \in Drives : Trusted(d) /\ Counted(d)

\* Nothing that happens later takes a registered bundle back: not another
\* export of the drive, a damaged or missing file, a refused copy, nor the
\* restart that resolves an interrupted validation.
TrustStays ==
  [][\A d \in Drives : row[d].trusted => row'[d].trusted /\ row'[d].hash = row[d].hash]_vars

-----------------------------------------------------------------------------
(* The values steps write.                                                 *)

\* The empty records, and the row of a stored bundle, are of their types.
LEMMA Records ==
  /\ NoRow \in RowType /\ NoXfer \in Xfer /\ NoCheck \in Request /\ NoRebuild \in Rebuild
  /\ \A c \in Bytes : Stored(c) \in RowType /\ Stored(c).trusted /\ Stored(c).hash = c
  BY DEF NoRow, NoXfer, NoCheck, NoRebuild, Stored, RowType, Xfer, Request, Rebuild, Bytes

\* Where a transfer goes from one file to the next.
LEMMA Moves ==
  ASSUME xfer \in Xfer, NEW d \in Drives, NEW r \in RowType, NEW place \in Working
  PROVE  /\ At(d, place, r) \in Xfer /\ At(d, place, r).cur = d
         /\ At(d, place, r).pc = place /\ At(d, place, r).sees = r
         /\ Back \in Xfer /\ Back.pc = "next"
         /\ SkipOver(d) \in Xfer /\ SkipOver(d).pc = "next"
         /\ Pend(d) \in Xfer /\ Pend(d).pc = "next"
  <1>1. At(d, place, r) \in Xfer /\ At(d, place, r).cur = d
        /\ At(d, place, r).pc = place /\ At(d, place, r).sees = r
    BY DEF At, Xfer, Working
  <1>2. Back \in Xfer /\ Back.pc = "next"
    BY Records DEF Back, Xfer
  <1>3. SkipOver(d) \in Xfer /\ SkipOver(d).pc = "next"
    BY <1>2 DEF SkipOver, Xfer
  <1>4. Pend(d) \in Xfer /\ Pend(d).pc = "next"
    BY <1>2 DEF Pend, Xfer
  <1> QED BY <1>1, <1>2, <1>3, <1>4

\* A step that keeps trust and counts what it trusts imports a drive once.
LEMMA CountedOnce ==
  ASSUME ImportedOnce, RowsKeep, row' \in [Drives -> RowType]
  PROVE  ImportedOnce'
  <1> SUFFICES ASSUME NEW d \in Drives
               PROVE  imports'[d] = IF row'[d].trusted THEN 1 ELSE 0
    BY DEF ImportedOnce
  <1> QED BY DEF ImportedOnce, RowsKeep, Trusted, Counted

\* What was read in trust stays true as long as rows keep their trust.
LEMMA ReadKept ==
  ASSUME RowsKeep, NEW d \in Drives, NEW r, NEW c, StillTrue(d, r, c)
  PROVE  ~Conflicts(r, c) /\ (r.trusted => row'[d].trusted /\ row'[d].hash = r.hash)
  BY DEF RowsKeep, Trusted, StillTrue

\* A step that leaves the rows alone keeps them.
LEMMA RowsAlone ==
  ASSUME UNCHANGED dbVars
  PROVE  RowsKeep
  BY DEF dbVars, RowsKeep, Trusted, Counted

\* A transfer that another step leaves where it was still fits.
LEMMA XferAlone ==
  ASSUME XferFits, RowsKeep, UNCHANGED <<xfer, staged>>
  PROVE  XferFits'
  BY ReadKept DEF XferFits, StillTrue, Working

\* So does a validation.
LEMMA CheckAlone ==
  ASSUME CheckFits, RowsKeep, UNCHANGED check
  PROVE  CheckFits'
  BY ReadKept DEF CheckFits, StillTrue

\* And a rebuild.
LEMMA RebuildAlone ==
  ASSUME RebuildFits, RowsKeep, UNCHANGED rebuild
  PROVE  RebuildFits'
  BY ReadKept DEF RebuildFits, StillTrue

-----------------------------------------------------------------------------
(* The transfer of a visit.                                                *)

\* A transfer's step that leaves the rows alone has its own part to show.
LEMMA TransferStep ==
  ASSUME Inv, UNCHANGED <<dbVars, others>>, TypeOK', XferFits'
  PROVE  Inv' /\ RowsKeep
  <1>1. RowsKeep
    BY RowsAlone
  <1> QED BY <1>1, CheckAlone, RebuildAlone, CountedOnce DEF Inv, TypeOK, others

\* The outbox is listed, and the transfer ends.
LEMMA SyncKeeps ==
  ASSUME Inv, Sync \/ EndSync \/ Cancel
  PROVE  Inv' /\ RowsKeep
  <1>1. TypeOK'
    BY DEF Inv, TypeOK, Sync, EndSync, Cancel, Meets, Events, unitVars, fileVars, dbVars
  <1>2. xfer' \in Xfer /\ xfer'.pc \in {"next", "off"}
    <2>1. CASE xfer' = NoXfer
      BY <2>1, Records DEF NoXfer
    <2>2. CASE \E there \in SUBSET Drives :
                 xfer' = [NoXfer EXCEPT !.pc = "next", !.todo = there]
      BY <2>2, Records DEF Xfer
    <2> QED BY <2>1, <2>2 DEF Sync, EndSync, Cancel
  <1>3. XferFits'
    BY <1>2 DEF XferFits, Working
  <1> QED BY <1>1, <1>3, TransferStep DEF Sync, EndSync, Cancel

\* A file on the unit is looked up by its name.
LEMMA ScanKeeps ==
  ASSUME Inv, NEW d \in Drives, Scan(d)
  PROVE  Inv' /\ RowsKeep
  <1>1. TypeOK'
    BY DEF Inv, TypeOK, Scan, unitVars, fileVars, dbVars
  <1>2. xfer' \in {At(d, "repair", row[d]), At(d, "identify", row[d]), Pend(d)}
    BY DEF Scan
  <1>3. row[d] \in RowType /\ xfer \in Xfer
    BY DEF Inv, TypeOK, XferFits
  <1>4. XferFits'
    BY <1>2, <1>3, Moves DEF XferFits, Working
  <1> QED BY <1>1, <1>4, TransferStep DEF Scan

\* The unit hashes its file.
LEMMA IdentifyKeeps ==
  ASSUME Inv, Identify
  PROVE  Inv' /\ RowsKeep
  <1>1. TypeOK'
    BY DEF Inv, TypeOK, Identify, Meets, Events, unitVars, fileVars, dbVars
  <1>2. xfer \in Xfer /\ xfer.cur \in Drives
    BY DEF Inv, XferFits, Identify, Working
  <1>3. CASE xfer' \in {Pend(xfer.cur), SkipOver(xfer.cur)}
    <2>1. XferFits'
      BY <1>2, <1>3, Moves, Records DEF XferFits, Working
    <2> QED BY <1>1, <2>1, TransferStep DEF Identify
  <1>4. CASE /\ ready[xfer.cur] = xfer.sees.hash
             /\ xfer' = [xfer EXCEPT !.pc = "receipt", !.ack = xfer.sees.hash]
    <2>1. xfer.sees.hash \in Bundles \cup {0}
      BY <1>2, <1>4 DEF Inv, TypeOK
    <2>2. XferFits'
      BY <1>2, <1>4, <2>1 DEF XferFits, Xfer
    <2> QED BY <1>1, <2>2, TransferStep DEF Identify
  <1> QED BY <1>3, <1>4 DEF Identify

\* The stream arrives.
LEMMA ReceiveKeeps ==
  ASSUME Inv, Receive
  PROVE  Inv' /\ RowsKeep
  <1> DEFINE there == {d \in xfer.pending : ready[d] # 0}
  <1>1. PICK got \in SUBSET there :
          /\ IF got = there THEN UNCHANGED spent ELSE Meets("drop")
          /\ staged' = [d \in Drives |-> IF d \in got THEN ready[d] ELSE 0]
          /\ xfer' = [xfer EXCEPT !.phase = "batch", !.pending = got]
    BY DEF Receive
  <1>2. xfer \in Xfer /\ xfer.pc = "next"
    BY DEF Inv, XferFits, Receive
  <1>3. TypeOK'
    BY <1>1 DEF Inv, TypeOK, Receive, Meets, Events, unitVars, fileVars, dbVars
  <1>4. xfer' \in Xfer /\ xfer'.pc = "next"
    <2>1. got \in SUBSET Drives
      BY <1>2 DEF Xfer
    <2> HIDE DEF there
    <2> QED BY <1>1, <1>2, <2>1 DEF Xfer
  <1>5. XferFits'
    BY <1>4 DEF XferFits, Working
  <1> QED BY <1>3, <1>5, TransferStep DEF Receive

\* An arrival is validated.
LEMMA ValidateKeeps ==
  ASSUME Inv, NEW d \in Drives, Validate(d)
  PROVE  Inv' /\ RowsKeep
  <1>1. TypeOK'
    BY DEF Inv, TypeOK, Validate, unitVars, fileVars, dbVars
  <1> DEFINE to == At(d, Fate(d), row[d])
             mine == Fate(d) = "install" /\ verified[d] = 0
  <1>2. row[d] \in RowType /\ xfer \in Xfer /\ staged[d] \in Bundles \cup {0}
    BY DEF Inv, TypeOK, XferFits
  <1>3. Fate(d) \in {"reject", "install", "swap", "reexport"}
    BY DEF Fate
  <1>4. to \in Xfer /\ to.pc = Fate(d) /\ to.cur = d
    BY <1>2, <1>3, Moves DEF Working
  <1>5. xfer' = [to EXCEPT !.owned = mine, !.ack = staged[d]] /\ mine \in BOOLEAN
    BY DEF Validate
  <1>6. Fate(d) = "reexport" => staged[d] \in Bundles
    BY BundlesAssumption DEF Fate, validate_bundle
  <1> HIDE DEF to, mine
  <1>7. xfer' \in Xfer /\ xfer'.pc = Fate(d) /\ xfer'.cur = d
    BY <1>2, <1>4, <1>5 DEF Xfer
  <1>8. UNCHANGED staged
    BY DEF Validate
  <1>9. XferFits'
    BY <1>3, <1>6, <1>7, <1>8 DEF XferFits
  <1> QED BY <1>1, <1>9, TransferStep DEF Validate

\* The damaged file goes to quarantine, the arrival takes its place.
LEMMA InstallKeeps ==
  ASSUME Inv, Swap \/ Install
  PROVE  Inv' /\ RowsKeep
  <1>1. xfer \in Xfer /\ xfer.cur \in Drives
    BY DEF Inv, XferFits, Swap, Install, Working
  <1>2. TypeOK'
    <2>1. staged[xfer.cur] \in Bytes
      BY <1>1 DEF Inv, TypeOK, Bytes
    <2> QED BY <1>1, <2>1 DEF Inv, TypeOK, Swap, Install, Bytes, unitVars, dbVars
  <1>3. /\ xfer' \in Xfer /\ xfer'.cur = xfer.cur
        /\ xfer'.pc \in {"reject", "install", "lookup"}
    BY <1>1 DEF Swap, Install, Xfer
  <1>4. XferFits'
    BY <1>1, <1>3 DEF XferFits
  <1> QED BY <1>2, <1>4, TransferStep DEF Swap, Install

\* An equivalent re-export is kept beside the original.
LEMMA PreserveKeeps ==
  ASSUME Inv, PreserveReexport
  PROVE  Inv' /\ RowsKeep
  <1>1. xfer \in Xfer /\ xfer.cur \in Drives /\ staged[xfer.cur] \in Bundles
    BY DEF Inv, XferFits, PreserveReexport, Working
  <1>2. TypeOK'
    BY <1>1 DEF Inv, TypeOK, PreserveReexport, unitVars, dbVars
  <1>3. xfer' \in Xfer /\ xfer'.cur = xfer.cur /\ xfer'.pc \in {"receipt", "reject"}
    BY <1>1 DEF PreserveReexport, Xfer
  <1>4. XferFits'
    BY <1>1, <1>3 DEF XferFits
  <1> QED BY <1>2, <1>4, TransferStep DEF PreserveReexport

\* The rows are read.
LEMMA LookupKeeps ==
  ASSUME Inv, Lookup
  PROVE  Inv' /\ RowsKeep
  <1> DEFINE r == row[xfer.cur]
             to == IF Conflicts(r, xfer.ack) THEN "reject" ELSE "register"
  <1>1. xfer \in Xfer /\ xfer.cur \in Drives
    BY DEF Inv, XferFits, Lookup, Working
  <1>2. r \in RowType
    BY <1>1 DEF Inv, TypeOK
  <1>3. TypeOK'
    BY DEF Inv, TypeOK, Lookup, unitVars, fileVars, dbVars
  <1>4. xfer' = [xfer EXCEPT !.sees = r, !.pc = to]
    BY DEF Lookup
  <1>5. /\ xfer' \in Xfer /\ xfer'.cur = xfer.cur /\ xfer'.pc = to /\ xfer'.sees = r
        /\ xfer'.ack = xfer.ack
    <2>1. to \in {"reject", "register"}
      OBVIOUS
    <2> HIDE DEF r, to
    <2> QED BY <1>1, <1>2, <1>4, <2>1 DEF Xfer
  <1>6. UNCHANGED row
    BY DEF Lookup, dbVars
  <1>7. XferFits'
    BY <1>1, <1>5, <1>6 DEF XferFits, StillTrue
  <1> QED BY <1>3, <1>7, TransferStep DEF Lookup

\* The stale copy in quarantine goes, or the source stays where it is.
LEMMA ClearKeeps ==
  ASSUME Inv, Clear \/ Keep
  PROVE  Inv' /\ RowsKeep
  <1>1. xfer \in Xfer /\ xfer.cur \in Drives
    BY DEF Inv, XferFits, Clear, Keep, Working
  <1>2. TypeOK'
    BY <1>1 DEF Inv, TypeOK, Clear, Keep, Bytes, unitVars, fileVars, dbVars
  <1>3. /\ xfer' \in Xfer /\ xfer'.pc \in {"receipt", "keep", "next"}
        /\ xfer'.pc \in Working => xfer'.cur = xfer.cur
    <2>1. CASE Clear
      BY <1>1, <2>1 DEF Clear, Xfer
    <2>2. CASE Keep
      BY <1>1, <2>2, Moves, Records DEF Keep, Working
    <2> QED BY <2>1, <2>2
  <1>4. XferFits'
    BY <1>1, <1>3 DEF XferFits
  <1> QED BY <1>2, <1>4, TransferStep DEF Clear, Keep

\* The receipt is written, and the source removed.
LEMMA ReceiptKeeps ==
  ASSUME Inv, WriteReceipt \/ Remove
  PROVE  Inv' /\ RowsKeep
  <1>1. xfer \in Xfer /\ xfer.cur \in Drives /\ xfer.ack \in Bundles \cup {0}
    BY DEF Inv, XferFits, WriteReceipt, Remove, Working, Xfer
  <1>2. TypeOK'
    BY <1>1 DEF Inv, TypeOK, WriteReceipt, Remove, Meets, Events, fileVars, dbVars
  <1>3. /\ xfer' \in Xfer /\ xfer'.pc \in {"remove", "next"}
        /\ xfer'.pc \in Working => xfer'.cur = xfer.cur
    <2>1. CASE xfer' = [xfer EXCEPT !.pc = "remove"]
      BY <1>1, <2>1 DEF Xfer
    <2>2. CASE xfer' = Back
      BY <1>1, <2>2, Moves, Records DEF Working
    <2> QED BY <2>1, <2>2 DEF WriteReceipt, Remove
  <1>4. XferFits'
    BY <1>1, <1>3 DEF XferFits
  <1> QED BY <1>2, <1>4, TransferStep DEF WriteReceipt, Remove

\* A transfer's step that writes rows has to keep their trust as well.
LEMMA TransferWrites ==
  ASSUME Inv, UNCHANGED others, TypeOK', XferFits', RowsKeep
  PROVE  Inv'
  BY CheckAlone, RebuildAlone, CountedOnce DEF Inv, TypeOK, others

\* A quarantined row is taken back.
LEMMA RepairKeeps ==
  ASSUME Inv, Repair
  PROVE  Inv' /\ RowsKeep
  <1> DEFINE d == xfer.cur
  <1>1. xfer \in Xfer /\ d \in Drives
    BY DEF Inv, XferFits, Repair, Working
  <1>2. /\ row \in [Drives -> RowType] /\ row' \in [Drives -> RowType]
        /\ \A e \in Drives : row'[e].trusted = row[e].trusted /\ row'[e].hash = row[e].hash
    <2>1. row \in [Drives -> RowType]
      BY DEF Inv, TypeOK
    <2>2. CASE row' = row
      BY <2>1, <2>2
    <2>3. CASE row' = [row EXCEPT ![d].state = "stored", ![d].dated = TRUE, ![d].kind = "none"]
      BY <1>1, <2>1, <2>3 DEF RowType
    <2> QED BY <2>1, <2>2, <2>3 DEF Repair
  <1>3. RowsKeep
    BY <1>2 DEF RowsKeep, Trusted, Counted, Repair
  <1>4. TypeOK'
    BY <1>1, <1>2 DEF Inv, TypeOK, Repair, Bytes, unitVars
  <1>5. xfer' \in {At(d, "identify", row'[d]), Pend(d)}
    BY DEF Repair
  <1>6. XferFits'
    BY <1>1, <1>2, <1>5, Moves, Records DEF XferFits, Working
  <1> QED BY <1>3, <1>4, <1>6, TransferWrites DEF Repair

\* The transaction of a registration: what was read in trust is not imported
\* again, and what was not loses to any registration that committed first.
LEMMA StoreKeeps ==
  ASSUME TypeOK, NEW d \in Drives, NEW r \in RowType, NEW c \in Bundles \cup {0},
         StillTrue(d, r, c), ~UniqueFails(d, r),
         store_validated_bundle(d, r, c)
  PROVE  /\ row' \in [Drives -> RowType] /\ imports' \in [Drives -> Nat]
         /\ RowsKeep /\ row'[d].trusted /\ row'[d].hash = c
  <1>1. row \in [Drives -> RowType] /\ imports \in [Drives -> Nat] /\ c \in Bytes
    BY DEF TypeOK, Bytes
  <1>2. Stored(c) \in RowType /\ Stored(c).trusted /\ Stored(c).hash = c
    BY <1>1, Records
  <1>3. CASE Exists(r, c)
    <2>1. imports' = imports
      BY <1>1, <1>3 DEF store_validated_bundle
    <2>2. row[d].trusted /\ row[d].hash = c
      BY <1>3 DEF StillTrue, Exists
    <2>3. row' = row \/ row' = [row EXCEPT ![d] = Stored(c)]
      BY DEF store_validated_bundle
    <2> HIDE DEF Stored
    <2> QED BY <1>1, <1>2, <2>1, <2>2, <2>3 DEF RowsKeep, Trusted, Counted
  <1>4. CASE ~Exists(r, c)
    <2>1. ~row[d].trusted
      BY <1>4 DEF StillTrue, Exists, Conflicts, UniqueFails
    <2>2. /\ row' = [row EXCEPT ![d] = Stored(c)]
          /\ imports' = [imports EXCEPT ![d] = @ + 1]
      BY <1>4 DEF store_validated_bundle
    <2> QED BY <1>1, <1>2, <2>1, <2>2 DEF RowsKeep, Trusted, Counted
  <1> QED BY <1>3, <1>4

\* The registration of a visit.
LEMMA RegisterKeeps ==
  ASSUME Inv, Register
  PROVE  Inv' /\ RowsKeep
  <1> DEFINE d == xfer.cur
  <1>1. /\ xfer \in Xfer /\ d \in Drives /\ xfer.sees \in RowType
        /\ xfer.ack \in Bundles \cup {0} /\ StillTrue(d, xfer.sees, xfer.ack)
    BY DEF Inv, XferFits, Register, Working, Xfer
  <1>2. TypeOK
    BY DEF Inv
  <1>3. CASE UniqueFails(d, xfer.sees)
    <2> DEFINE to == IF ~Winner(d) THEN "reject"
                     ELSE IF Eligible(row[d]) THEN "receipt" ELSE "keep"
    <2>1. xfer' = [xfer EXCEPT !.sees = row[d], !.pc = to]
          /\ UNCHANGED <<unitVars, fileVars, dbVars, staged, others, spent>>
      BY <1>3 DEF Register
    <2>2. to \in {"reject", "receipt", "keep"} /\ row[d] \in RowType
      BY <1>1, <1>2 DEF TypeOK
    <2> HIDE DEF to
    <2>3. xfer' \in Xfer /\ xfer'.cur = d /\ xfer'.pc \in {"reject", "receipt", "keep"}
      BY <1>1, <2>1, <2>2 DEF Xfer
    <2>4. XferFits'
      BY <1>1, <2>3 DEF XferFits
    <2>5. TypeOK'
      BY <1>2, <2>1 DEF TypeOK, unitVars, fileVars, dbVars
    <2> QED BY <2>1, <2>4, <2>5, TransferStep
  <1>4. CASE ~UniqueFails(d, xfer.sees)
    <2>1. /\ store_validated_bundle(d, xfer.sees, xfer.ack)
          /\ xfer' = [xfer EXCEPT !.pc = "clear", !.sees = row'[d]]
          /\ UNCHANGED <<unitVars, fileVars, staged, others, spent>>
      BY <1>4 DEF Register
    <2>2. row' \in [Drives -> RowType] /\ imports' \in [Drives -> Nat] /\ RowsKeep
      BY <1>1, <1>2, <1>4, <2>1, StoreKeeps
    <2>3. xfer' \in Xfer /\ xfer'.cur = d /\ xfer'.pc = "clear"
      BY <1>1, <2>1, <2>2 DEF Xfer
    <2>4. XferFits'
      BY <1>1, <2>3 DEF XferFits
    <2>5. TypeOK'
      BY <1>2, <2>1, <2>2 DEF TypeOK, unitVars, fileVars
    <2> QED BY <2>1, <2>2, <2>4, <2>5, TransferWrites
  <1> QED BY <1>3, <1>4

\* A rejected bundle's row: a trusted one is left alone.
LEMMA RejectedKeeps ==
  ASSUME TypeOK, NEW d \in Drives, NEW c \in Bytes, NEW moved \in BOOLEAN,
         store_rejected_bundle(d, c, moved), UNCHANGED imports
  PROVE  row' \in [Drives -> RowType] /\ RowsKeep
  <1> DEFINE new == [hash |-> c, trusted |-> FALSE, dated |-> FALSE,
                     state |-> IF moved THEN "quarantined" ELSE "failed",
                     kind |-> IF moved THEN "integrity" ELSE "quarantine_io"]
  <1>1. row \in [Drives -> RowType]
    BY DEF TypeOK
  <1>2. new \in RowType /\ ~new.trusted
    BY DEF RowType
  <1>3. row' = IF row[d].trusted THEN row ELSE [row EXCEPT ![d] = new]
    BY DEF store_rejected_bundle
  <1> HIDE DEF new
  <1> QED BY <1>1, <1>2, <1>3 DEF RowsKeep, Trusted, Counted

\* What a visit refuses goes to quarantine.
LEMMA RejectKeeps ==
  ASSUME Inv, Reject
  PROVE  Inv' /\ RowsKeep
  <1> DEFINE d == xfer.cur
             mine == staged[d] = 0 /\ xfer.owned /\ verified[d] # 0
             c == IF mine THEN verified[d] ELSE staged[d]
  <1>1. xfer \in Xfer /\ d \in Drives /\ TypeOK
    BY DEF Inv, XferFits, Reject, Working
  <1>2. c \in Bytes
    BY <1>1 DEF TypeOK, Bytes
  <1>3. /\ row' \in [Drives -> RowType] /\ RowsKeep
        /\ verified' \in [Drives -> Bytes] /\ quarantine' \in [Drives -> Bytes]
        /\ staged' \in [Drives -> Bundles \cup {0}]
    <2>1. CASE c # 0
      <3>1. /\ quarantine' = [quarantine EXCEPT ![d] = c]
            /\ verified' = IF mine THEN [verified EXCEPT ![d] = 0] ELSE verified
            /\ staged' = [staged EXCEPT ![d] = 0]
            /\ store_rejected_bundle(d, c, TRUE) /\ UNCHANGED imports
        BY <2>1 DEF Reject
      <3>2. row' \in [Drives -> RowType] /\ RowsKeep
        BY <1>1, <1>2, <3>1, RejectedKeeps
      <3> HIDE DEF c, mine
      <3> QED BY <1>1, <1>2, <3>1, <3>2 DEF TypeOK, Bytes
    <2>2. CASE c = 0
      <3>1. UNCHANGED <<quarantine, verified, staged, row, imports>>
        BY <2>2 DEF Reject
      <3> QED BY <1>1, <3>1, RowsAlone DEF TypeOK, dbVars
    <2> QED BY <2>1, <2>2
  <1>4. TypeOK'
    BY <1>1, <1>3 DEF TypeOK, Reject, unitVars
  <1>5. xfer' \in Xfer /\ xfer'.pc = "next"
    BY <1>1, Moves, Records DEF Reject, Working
  <1>6. XferFits'
    BY <1>5 DEF XferFits, Working
  <1> QED BY <1>3, <1>4, <1>6, TransferWrites DEF Reject

-----------------------------------------------------------------------------
(* The validation of one bundle.                                           *)

\* A validation's step has its own part to show, and that rows keep their trust.
LEMMA CheckStep ==
  ASSUME Inv, UNCHANGED <<xfer, staged, rebuild>>, TypeOK', CheckFits', RowsKeep
  PROVE  Inv'
  BY XferAlone, RebuildAlone, CountedOnce DEF Inv, TypeOK

\* A write to the state, the kind and the date of a row keeps its trust.
LEMMA RowMarked ==
  ASSUME TypeOK, NEW d \in Drives,
         \A e \in Drives : row'[e].trusted = row[e].trusted /\ row'[e].hash = row[e].hash,
         UNCHANGED imports
  PROVE  RowsKeep
  BY DEF RowsKeep, Trusted, Counted

\* A row is claimed.
LEMMA ClaimKeeps ==
  ASSUME Inv, NEW d \in Drives, Claim(d)
  PROVE  Inv' /\ RowsKeep
  <1>1. TypeOK /\ row[d] \in RowType
    BY DEF Inv, TypeOK
  <1>2. /\ row' = [row EXCEPT ![d].state = "validating"]
        /\ check' = [NoCheck EXCEPT !.pc = "check", !.cur = d, !.orig = row[d]]
        /\ UNCHANGED <<unitVars, fileVars, imports, staged, xfer, rebuild>>
        /\ spent' = spent \cup {"validate"}
    BY DEF Claim, Meets
  <1>3. /\ row' \in [Drives -> RowType]
        /\ \A e \in Drives : row'[e].trusted = row[e].trusted /\ row'[e].hash = row[e].hash
    BY <1>1, <1>2 DEF TypeOK, RowType
  <1>4. RowsKeep
    BY <1>1, <1>2, <1>3, RowMarked
  <1>5. TypeOK'
    BY <1>1, <1>2, <1>3 DEF TypeOK, Events, unitVars, fileVars
  <1>6. check' \in Request /\ check'.pc = "check" /\ check'.cur = d
    BY <1>1, <1>2, Records DEF Request
  <1>7. CheckFits'
    BY <1>6 DEF CheckFits
  <1> QED BY <1>2, <1>4, <1>5, <1>7, CheckStep

\* The copy is validated.
LEMMA CheckCopyKeeps ==
  ASSUME Inv, CheckCopy
  PROVE  Inv' /\ RowsKeep
  <1> DEFINE d == check.cur
             c == IF WasQuarantined THEN quarantine[d] ELSE verified[d]
             good == validate_bundle(c) /\ ~Conflicts(check.orig, c)
             to == IF ~good THEN "fail" ELSE IF check.orig.trusted THEN "promote" ELSE "lookup"
  <1>1. TypeOK /\ check \in Request /\ d \in Drives
    BY DEF Inv, CheckFits, CheckCopy
  <1>2. c \in Bytes
    BY <1>1 DEF TypeOK
  <1>3. to \in {"fail", "promote", "lookup"} /\ (to = "lookup" => c \in Bundles)
    BY BundlesAssumption DEF validate_bundle
  <1>4. check' = [check EXCEPT !.got = c, !.pc = to]
    BY DEF CheckCopy
  <1> HIDE DEF c, good, to
  <1>5. check' \in Request /\ check'.pc = to /\ check'.cur = d /\ check'.got = c
    BY <1>1, <1>2, <1>3, <1>4 DEF Request
  <1>6. CheckFits'
    BY <1>1, <1>3, <1>5 DEF CheckFits
  <1>7. RowsKeep /\ TypeOK'
    BY <1>1, RowsAlone DEF CheckCopy, TypeOK, checkOnly, dbVars, unitVars
  <1> QED BY <1>6, <1>7, CheckStep DEF CheckCopy, checkOnly

\* What a request may write to its row at its end.
LEMMA EndsFit ==
  ASSUME NEW s \in {"stored", "quarantined", "failed", "none", "validating"},
         NEW k \in {"none", "integrity", "local_path", "quarantine_io",
                    "registration", "interrupted"}, NEW b \in BOOLEAN
  PROVE  Ends(s, k, b) \in RowType
  BY Records DEF Ends, RowType

\* A bad copy is moved, a good one of a quarantined row restored.
LEMMA CopyMovedKeeps ==
  ASSUME Inv, FailCopy \/ Promote
  PROVE  Inv' /\ RowsKeep
  <1> DEFINE d == check.cur
  <1>1. TypeOK /\ check \in Request /\ d \in Drives /\ row[d] \in RowType
        /\ check.orig \in RowType
    BY DEF Inv, CheckFits, FailCopy, Promote, TypeOK, Request
  <1>2. \E ends \in RowType : check' = [check EXCEPT !.pc = "end", !.ends = ends]
    <2>1. /\ row[d].dated \in BOOLEAN
          /\ check.orig.state \in {"stored", "quarantined", "failed", "none", "validating"}
          /\ check.orig.kind \in {"none", "integrity", "local_path", "quarantine_io",
                                  "registration", "interrupted"}
      BY <1>1 DEF RowType
    <2>2. CASE FailCopy
      BY <2>1, <2>2, EndsFit DEF FailCopy
    <2>3. CASE Promote
      BY <2>1, <2>3, EndsFit DEF Promote
    <2> QED BY <2>2, <2>3
  <1>3. check' \in Request /\ check'.pc = "end" /\ check'.cur = d
    BY <1>1, <1>2 DEF Request
  <1>4. CheckFits'
    BY <1>1, <1>3 DEF CheckFits
  <1>5. TypeOK'
    BY <1>1 DEF FailCopy, Promote, TypeOK, Bytes, checkOnly, dbVars, unitVars
  <1>6. RowsKeep
    BY RowsAlone DEF FailCopy, Promote, dbVars
  <1> QED BY <1>4, <1>5, <1>6, CheckStep DEF FailCopy, Promote, checkOnly

\* The registration of a validated copy reads the rows.
LEMMA CheckLookupKeeps ==
  ASSUME Inv, CheckLookup
  PROVE  Inv' /\ RowsKeep
  <1> DEFINE d == check.cur
             state == IF WasQuarantined THEN "quarantined" ELSE "failed"
  <1>1. TypeOK /\ check \in Request /\ d \in Drives /\ row[d] \in RowType
        /\ check.got \in Bundles
    BY DEF Inv, CheckFits, CheckLookup, TypeOK
  <1>2. TypeOK'
    BY <1>1 DEF CheckLookup, TypeOK, checkOnly, dbVars, unitVars
  <1>3. RowsKeep
    BY RowsAlone DEF CheckLookup
  <1>4. CASE Conflicts(row[d], check.got)
    <2> DEFINE ends == Ends(state, "registration", row[d].dated)
    <2>1. ends \in RowType
      BY <1>1, EndsFit DEF RowType
    <2>2. check' = [check EXCEPT !.pc = "end", !.ends = ends]
      BY <1>4 DEF CheckLookup
    <2> HIDE DEF ends
    <2>3. check' \in Request /\ check'.pc = "end" /\ check'.cur = d
      BY <1>1, <2>1, <2>2 DEF Request
    <2>4. CheckFits'
      BY <1>1, <2>3 DEF CheckFits
    <2> QED BY <1>2, <1>3, <2>4, CheckStep DEF CheckLookup, checkOnly
  <1>5. CASE ~Conflicts(row[d], check.got)
    <2>1. check' = [check EXCEPT !.pc = "store", !.sees = row[d]]
      BY <1>5 DEF CheckLookup
    <2>2. /\ check' \in Request /\ check'.pc = "store" /\ check'.cur = d
          /\ check'.sees = row[d] /\ check'.got = check.got
      BY <1>1, <2>1 DEF Request
    <2>3. UNCHANGED row
      BY DEF CheckLookup, dbVars
    <2>4. CheckFits'
      BY <1>1, <1>5, <2>2, <2>3 DEF CheckFits, StillTrue
    <2> QED BY <1>2, <1>3, <2>4, CheckStep DEF CheckLookup, checkOnly
  <1> QED BY <1>4, <1>5

\* Its transaction.
LEMMA CheckStoreKeeps ==
  ASSUME Inv, CheckStore
  PROVE  Inv' /\ RowsKeep
  <1> DEFINE d == check.cur
             new == [Stored(check.got) EXCEPT !.state = "validating"]
  <1>1. /\ TypeOK /\ check \in Request /\ d \in Drives
        /\ check.got \in Bundles /\ StillTrue(d, check.sees, check.got)
    BY DEF Inv, CheckFits, CheckStore
  <1>2. CASE UniqueFails(d, check.sees)
    <2>1. CheckFits' /\ UNCHANGED dbVars
      BY <1>2, Records DEF CheckStore, CheckFits, NoCheck
    <2>2. TypeOK'
      BY <1>1, <2>1 DEF CheckStore, TypeOK, checkOnly, dbVars, unitVars
    <2> QED BY <2>1, <2>2, RowsAlone, CheckStep DEF CheckStore, checkOnly
  <1>3. CASE ~UniqueFails(d, check.sees)
    <2>1. /\ row' = [row EXCEPT ![d] = new]
          /\ imports' = [imports EXCEPT ![d] = IF Exists(check.sees, check.got)
                                              THEN @ ELSE @ + 1]
          /\ check' = [check EXCEPT !.pc = "promote"]
      BY <1>3 DEF CheckStore
    <2>2. new \in RowType /\ new.trusted /\ new.hash = check.got
      BY <1>1, Records DEF RowType, Bytes
    <2>3. row \in [Drives -> RowType] /\ imports \in [Drives -> Nat]
      BY <1>1 DEF TypeOK
    <2> HIDE DEF new
    <2>4. RowsKeep
      <3>1. CASE Exists(check.sees, check.got)
        <4>1. row[d].trusted /\ row[d].hash = check.got
          BY <1>1, <3>1 DEF StillTrue, Exists
        <4>2. imports' = imports
          BY <2>1, <2>3, <3>1
        <4> QED BY <1>1, <2>1, <2>2, <2>3, <4>1, <4>2 DEF RowsKeep, Trusted, Counted
      <3>2. CASE ~Exists(check.sees, check.got)
        <4>1. ~row[d].trusted
          BY <1>1, <1>3, <3>2 DEF StillTrue, Exists, Conflicts, UniqueFails
        <4>2. imports' = [imports EXCEPT ![d] = @ + 1]
          BY <2>1, <3>2
        <4> QED BY <1>1, <2>1, <2>2, <2>3, <4>1, <4>2 DEF RowsKeep, Trusted, Counted
      <3> QED BY <3>1, <3>2
    <2>5. row' \in [Drives -> RowType] /\ imports' \in [Drives -> Nat]
      BY <1>1, <2>1, <2>2, <2>3
    <2>6. check' \in Request /\ check'.pc = "promote" /\ check'.cur = d
      BY <1>1, <2>1 DEF Request
    <2>7. CheckFits'
      BY <1>1, <2>6 DEF CheckFits
    <2>8. TypeOK'
      BY <1>1, <2>5 DEF CheckStore, TypeOK, checkOnly, unitVars
    <2> QED BY <2>4, <2>7, <2>8, CheckStep DEF CheckStore, checkOnly
  <1> QED BY <1>2, <1>3

\* The request's last commit.
LEMMA EndCheckKeeps ==
  ASSUME Inv, EndCheck
  PROVE  Inv' /\ RowsKeep
  <1> DEFINE d == check.cur
             ends == check.ends
  <1>1. TypeOK /\ check \in Request /\ d \in Drives /\ ends \in RowType
    BY DEF Inv, CheckFits, EndCheck, Request
  <1>2. /\ row' = [row EXCEPT ![d].state = ends.state, ![d].kind = ends.kind,
                              ![d].dated = ends.dated]
        /\ check' = NoCheck
    BY DEF EndCheck
  <1>3. /\ row' \in [Drives -> RowType]
        /\ \A e \in Drives : row'[e].trusted = row[e].trusted /\ row'[e].hash = row[e].hash
    <2> HIDE DEF ends
    <2> QED BY <1>1, <1>2 DEF TypeOK, RowType
  <1>4. RowsKeep
    BY <1>1, <1>3, RowMarked DEF EndCheck
  <1>5. TypeOK'
    BY <1>1, <1>3 DEF EndCheck, TypeOK, checkOnly, unitVars
  <1>6. CheckFits'
    BY <1>2, Records DEF CheckFits, NoCheck
  <1> QED BY <1>4, <1>5, <1>6, CheckStep DEF EndCheck, checkOnly

-----------------------------------------------------------------------------
(* The rebuild of the storage.                                             *)

\* A rebuild's step, likewise.
LEMMA RebuildStepKeeps ==
  ASSUME Inv, UNCHANGED <<xfer, staged, check>>, TypeOK', RebuildFits', RowsKeep
  PROVE  Inv'
  BY XferAlone, CheckAlone, CountedOnce DEF Inv, TypeOK

\* The next file is looked for.
LEMMA NextFileFits ==
  ASSUME rebuild \in Rebuild
  PROVE  NextFile \in Rebuild /\ NextFile.pc = "next"
  BY DEF NextFile, Rebuild

\* A rebuild begins, and ends.
LEMMA StartRebuildKeeps ==
  ASSUME Inv, StartRebuild \/ EndRebuild
  PROVE  Inv' /\ RowsKeep
  <1>1. RowsKeep
    BY RowsAlone DEF StartRebuild, EndRebuild
  <1>2. TypeOK'
    BY DEF Inv, TypeOK, StartRebuild, EndRebuild, Meets, Events, rebuildOnly, unitVars, dbVars
  <1>3. rebuild' \in Rebuild /\ rebuild'.pc \in {"off", "next"}
    <2>1. CASE rebuild' = NoRebuild
      BY <2>1, Records DEF NoRebuild
    <2>2. CASE rebuild' = Rebuilding
      <3>1. PICK todo \in SUBSET Drives :
              rebuild' = [NoRebuild EXCEPT !.pc = "next", !.todo = todo]
        BY <2>2 DEF Rebuilding
      <3> QED BY <3>1, Records DEF Rebuild
    <2> QED BY <2>1, <2>2 DEF StartRebuild, EndRebuild
  <1>4. RebuildFits'
    BY <1>3 DEF RebuildFits
  <1> QED BY <1>1, <1>2, <1>4, RebuildStepKeeps DEF StartRebuild, EndRebuild, rebuildOnly

\* A file is looked at.
LEMMA LookAtFileKeeps ==
  ASSUME Inv, NEW d \in Drives, LookAtFile(d)
  PROVE  Inv' /\ RowsKeep
  <1>1. RowsKeep
    BY RowsAlone DEF LookAtFile
  <1>2. TypeOK'
    BY DEF Inv, TypeOK, LookAtFile, rebuildOnly, unitVars, dbVars
  <1>3. rebuild \in Rebuild /\ row[d] \in RowType
    BY DEF Inv, TypeOK, RebuildFits
  <1>4. /\ rebuild' \in Rebuild /\ rebuild'.pc \in {"next", "check"}
        /\ rebuild'.pc = "check" => rebuild'.cur = d
    <2>1. CASE rebuild' = [rebuild EXCEPT !.todo = @ \ {d}]
      BY <1>3, <2>1 DEF LookAtFile, Rebuild
    <2>2. CASE rebuild' = [rebuild EXCEPT !.pc = "check", !.cur = d, !.known = row[d]]
      BY <1>3, <2>2 DEF Rebuild
    <2> QED BY <2>1, <2>2 DEF LookAtFile
  <1>5. RebuildFits'
    BY <1>4 DEF RebuildFits
  <1> QED BY <1>1, <1>2, <1>5, RebuildStepKeeps DEF LookAtFile, rebuildOnly

\* A file is validated, and the rows are read.
LEMMA CheckFileKeeps ==
  ASSUME Inv, CheckFile
  PROVE  Inv' /\ RowsKeep
  <1> DEFINE d == rebuild.cur
             c == verified[d]
             good == validate_bundle(c) /\ ~Conflicts(row[d], c)
             to == IF good THEN "store" ELSE "move"
  <1>1. /\ TypeOK /\ rebuild \in Rebuild /\ d \in Drives
        /\ row[d] \in RowType /\ c \in Bytes
    BY DEF Inv, TypeOK, RebuildFits, CheckFile
  <1>2. rebuild' = [rebuild EXCEPT !.pc = to, !.got = c, !.sees = row[d]]
    BY DEF CheckFile
  <1>3. to \in {"store", "move"} /\ (to = "store" => c \in Bundles /\ ~Conflicts(row[d], c))
    BY BundlesAssumption DEF validate_bundle
  <1> HIDE DEF c, good, to
  <1>4. /\ rebuild' \in Rebuild /\ rebuild'.pc = to /\ rebuild'.cur = d
        /\ rebuild'.got = c /\ rebuild'.sees = row[d]
    BY <1>1, <1>2, <1>3 DEF Rebuild
  <1>5. UNCHANGED row
    BY DEF CheckFile, dbVars
  <1>6. RebuildFits'
    BY <1>1, <1>3, <1>4, <1>5 DEF RebuildFits, StillTrue
  <1>7. RowsKeep /\ TypeOK'
    BY <1>1, RowsAlone DEF CheckFile, TypeOK, rebuildOnly, unitVars, dbVars
  <1> QED BY <1>6, <1>7, RebuildStepKeeps DEF CheckFile, rebuildOnly

\* It is registered.
LEMMA StoreFileKeeps ==
  ASSUME Inv, StoreFile
  PROVE  Inv' /\ RowsKeep
  <1> DEFINE d == rebuild.cur
  <1>1. /\ TypeOK /\ rebuild \in Rebuild /\ d \in Drives /\ rebuild.sees \in RowType
        /\ rebuild.got \in Bundles /\ StillTrue(d, rebuild.sees, rebuild.got)
    BY DEF Inv, RebuildFits, StoreFile, Rebuild
  <1>2. rebuild' \in {NoRebuild, NextFile, [rebuild EXCEPT !.pc = "clear"]}
    BY DEF StoreFile
  <1>3. /\ rebuild' \in Rebuild /\ rebuild'.pc \in {"off", "next", "clear"}
        /\ rebuild'.pc = "clear" => rebuild'.cur = d
    <2>1. CASE rebuild' = NoRebuild
      BY <2>1, Records DEF NoRebuild
    <2>2. CASE rebuild' = NextFile
      BY <1>1, <2>2, NextFileFits
    <2>3. CASE rebuild' = [rebuild EXCEPT !.pc = "clear"]
      BY <1>1, <2>3 DEF Rebuild
    <2> QED BY <1>2, <2>1, <2>2, <2>3
  <1>4. RebuildFits'
    BY <1>1, <1>3 DEF RebuildFits
  <1>5. row' \in [Drives -> RowType] /\ imports' \in [Drives -> Nat] /\ RowsKeep
    <2>1. CASE UniqueFails(d, rebuild.sees)
      BY <1>1, <2>1, RowsAlone DEF StoreFile, TypeOK, dbVars
    <2>2. CASE ~UniqueFails(d, rebuild.sees)
      <3>1. store_validated_bundle(d, rebuild.sees, rebuild.got)
        BY <2>2 DEF StoreFile
      <3> QED BY <1>1, <2>2, <3>1, StoreKeeps
    <2> QED BY <2>1, <2>2
  <1>6. TypeOK'
    BY <1>1, <1>5 DEF StoreFile, TypeOK, rebuildOnly, unitVars
  <1> QED BY <1>4, <1>5, <1>6, RebuildStepKeeps DEF StoreFile, rebuildOnly

\* Its stale copy goes, or it goes to quarantine itself.
LEMMA MoveFileKeeps ==
  ASSUME Inv, ClearFile \/ MoveFile
  PROVE  Inv' /\ RowsKeep
  <1> DEFINE d == rebuild.cur
             moved == verified[d] # 0
  <1>1. TypeOK /\ rebuild \in Rebuild /\ d \in Drives /\ verified[d] \in Bytes
    BY DEF Inv, TypeOK, RebuildFits, ClearFile, MoveFile
  <1>2. \/ rebuild' = NextFile
        \/ rebuild' = [rebuild EXCEPT !.pc = "row", !.moved = moved, !.got = verified[d]]
    BY DEF ClearFile, MoveFile
  <1>3. moved \in BOOLEAN
    OBVIOUS
  <1> HIDE DEF moved
  <1>4. /\ rebuild' \in Rebuild /\ rebuild'.pc \in {"next", "row"}
        /\ rebuild'.pc = "row" => rebuild'.cur = d
    BY <1>1, <1>2, <1>3, NextFileFits DEF Rebuild
  <1>5. RebuildFits'
    BY <1>1, <1>4 DEF RebuildFits
  <1>6. TypeOK'
    BY <1>1 DEF ClearFile, MoveFile, TypeOK, Bytes, rebuildOnly, unitVars, dbVars
  <1>7. RowsKeep
    BY RowsAlone DEF ClearFile, MoveFile
  <1> QED BY <1>5, <1>6, <1>7, RebuildStepKeeps DEF ClearFile, MoveFile, rebuildOnly

\* A row tells what became of it.
LEMMA RecordFileKeeps ==
  ASSUME Inv, RecordFile
  PROVE  Inv' /\ RowsKeep
  <1> DEFINE d == rebuild.cur
             state == IF rebuild.moved THEN "quarantined" ELSE "failed"
             kind == IF rebuild.moved THEN "integrity" ELSE "quarantine_io"
  <1>1. /\ TypeOK /\ rebuild \in Rebuild /\ d \in Drives /\ rebuild.got \in Bytes
        /\ rebuild.moved \in BOOLEAN
    BY DEF Inv, RebuildFits, RecordFile, Rebuild
  <1>2. row' \in [Drives -> RowType] /\ RowsKeep
    <2>1. UNCHANGED imports
      BY DEF RecordFile
    <2>2. CASE store_rejected_bundle(d, rebuild.got, rebuild.moved)
      BY <1>1, <2>1, <2>2, RejectedKeeps
    <2>3. CASE row' = row
      BY <1>1, <2>1, <2>3, RowsAlone DEF TypeOK, dbVars
    <2>4. CASE row' = [row EXCEPT ![d].state = state, ![d].kind = kind]
      <3>1. state \in {"quarantined", "failed"} /\ kind \in {"integrity", "quarantine_io"}
        OBVIOUS
      <3> HIDE DEF state, kind
      <3>2. /\ row' \in [Drives -> RowType]
            /\ \A e \in Drives : row'[e].trusted = row[e].trusted /\ row'[e].hash = row[e].hash
        BY <1>1, <2>4, <3>1 DEF TypeOK, RowType
      <3> QED BY <1>1, <2>1, <3>2, RowMarked
    <2> QED BY <2>2, <2>3, <2>4 DEF RecordFile
  <1>3. TypeOK'
    BY <1>1, <1>2 DEF RecordFile, TypeOK, rebuildOnly, unitVars
  <1>4. rebuild' \in Rebuild /\ rebuild'.pc = "next"
    BY <1>1, NextFileFits DEF RecordFile
  <1>5. RebuildFits'
    BY <1>4 DEF RebuildFits
  <1> QED BY <1>2, <1>3, <1>5, RebuildStepKeeps DEF RecordFile, rebuildOnly

-----------------------------------------------------------------------------
(* The logger, the disk and the restart.                                   *)

\* The unit's own steps, and a file that goes bad.
LEMMA WorldKeeps ==
  ASSUME Inv, \/ \E d \in Drives, c \in Bundles : Export(d, c)
              \/ \E d \in Drives : Prune(d) \/ Damage(d)
  PROVE  Inv' /\ RowsKeep
  <1>1. UNCHANGED <<dbVars, staged, xfer, check, rebuild>>
    BY DEF Export, Prune, Damage
  <1>2. TypeOK'
    <2>1. CASE \E d \in Drives, c \in Bundles : Export(d, c)
      <3>1. PICK d \in Drives, c \in Bundles : Export(d, c)
        BY <2>1
      <3>2. spent' \subseteq Events
        BY <3>1 DEF Inv, TypeOK, Export, Meets, Events
      <3>3. /\ ready' = [ready EXCEPT ![d] = c] /\ raw' = [raw EXCEPT ![d] = c]
            /\ UNCHANGED <<receipt, fileVars, dbVars, staged>>
        BY <3>1 DEF Export
      <3>4. ready' \in [Drives -> Bundles \cup {0}] /\ raw' \in [Drives -> Bundles \cup {0}]
        BY <3>3 DEF Inv, TypeOK
      <3> QED BY <3>2, <3>3, <3>4 DEF Inv, TypeOK, fileVars, dbVars
    <2>2. CASE \E d \in Drives : Prune(d)
      BY <2>2 DEF Inv, TypeOK, Prune, fileVars, dbVars
    <2>3. CASE \E d \in Drives : Damage(d)
      BY <2>3 DEF Inv, TypeOK, Damage, Meets, Events, Bytes, unitVars, dbVars
    <2> QED BY <2>1, <2>2, <2>3
  <1>3. RowsKeep
    BY <1>1, RowsAlone
  <1> QED BY <1>1, <1>2, <1>3, XferAlone, CheckAlone, RebuildAlone, CountedOnce DEF Inv, TypeOK

\* What a restart makes of a claimed row is as much trusted as the row was.
LEMMA RecoveredFits ==
  ASSUME TypeOK, NEW d \in Drives
  PROVE  /\ Recovered(d) \in RowType
         /\ Recovered(d).trusted = row[d].trusted /\ Recovered(d).hash = row[d].hash
  <1>1. row[d] \in RowType
    BY DEF TypeOK
  <1>2. CASE Recovered(d) = Stored(row[d].hash) /\ row[d].trusted
    <2>1. row[d].hash \in Bytes /\ row[d].trusted = TRUE
      BY <1>1, <1>2 DEF RowType
    <2>2. Recovered(d) \in RowType
      BY <1>2, <2>1, Records
    <2> QED BY <1>2, <2>1, <2>2 DEF Stored
  <1>3. CASE Recovered(d) = row[d]
    BY <1>1, <1>3
  <1>4. CASE \E s \in {"quarantined", "failed"},
                k \in {"none", "integrity", "local_path", "quarantine_io",
                       "registration", "interrupted"} :
               Recovered(d) = [row[d] EXCEPT !.state = s, !.kind = k]
    BY <1>1, <1>4 DEF RowType
  <1>5. row[d].kind \in {"none", "integrity", "local_path", "quarantine_io",
                         "registration", "interrupted"}
    BY <1>1 DEF RowType
  <1> QED BY <1>2, <1>3, <1>4, <1>5 DEF Recovered, RecoveredRow

\* The process stops and starts again.
LEMMA RestartKeeps ==
  ASSUME Inv, Restart
  PROVE  Inv' /\ RowsKeep
  <1>1. TypeOK
    BY DEF Inv
  <1>2. /\ row' \in [Drives -> RowType]
        /\ \A e \in Drives : row'[e].trusted = row[e].trusted /\ row'[e].hash = row[e].hash
    <2>1. row' = [d \in Drives |-> Recovered(d)]
      BY DEF Restart
    <2> QED BY <1>1, <2>1, RecoveredFits
  <1>3. RowsKeep
    BY <1>2 DEF Restart, RowsKeep, Trusted, Counted
  <1>4. TypeOK'
    <2>1. verified' \in [Drives -> Bytes] /\ quarantine' \in [Drives -> Bytes]
      BY <1>1 DEF Restart, TypeOK, Bytes
    <2> QED BY <1>1, <1>2, <2>1 DEF Restart, TypeOK, Meets, Events, unitVars
  <1>5. XferFits' /\ CheckFits'
    BY Records DEF Restart, XferFits, CheckFits, NoXfer, NoCheck, Working
  <1>6. RebuildFits'
    <2>1. PICK todo \in SUBSET Drives :
            rebuild' = [NoRebuild EXCEPT !.pc = "next", !.todo = todo]
      BY DEF Restart
    <2>2. rebuild' \in Rebuild /\ rebuild'.pc = "next"
      BY <2>1, Records DEF Rebuild
    <2> QED BY <2>2 DEF RebuildFits
  <1> QED BY <1>2, <1>3, <1>4, <1>5, <1>6, CountedOnce DEF Inv

-----------------------------------------------------------------------------

\* The invariant holds at the start.
LEMMA InitHolds == Init => Inv
  <1> SUFFICES ASSUME Init PROVE Inv
    OBVIOUS
  <1>1. TypeOK /\ ImportedOnce
    BY Records DEF Init, TypeOK, ImportedOnce, Bytes, NoRow
  <1>2. XferFits /\ CheckFits /\ RebuildFits
    BY Records DEF Init, XferFits, CheckFits, RebuildFits, NoXfer, NoCheck, NoRebuild, Working
  <1> QED BY <1>1, <1>2 DEF Inv

\* Every step keeps it, and takes back no trust.
LEMMA StepHolds ==
  ASSUME Inv, [Next]_vars
  PROVE  Inv' /\ RowsKeep
  <1>1. CASE UNCHANGED vars
    <2>1. RowsKeep
      BY <1>1, RowsAlone DEF vars
    <2>2. TypeOK'
      BY <1>1 DEF Inv, TypeOK, vars, unitVars, fileVars, dbVars
    <2> QED BY <1>1, <2>1, <2>2, XferAlone, CheckAlone, RebuildAlone, CountedOnce
            DEF Inv, TypeOK, vars
  <1>2. CASE Transfer
    BY <1>2, SyncKeeps, ScanKeeps, IdentifyKeeps, ReceiveKeeps, ValidateKeeps, InstallKeeps,
       PreserveKeeps, LookupKeeps, ClearKeeps, ReceiptKeeps, RepairKeeps, RegisterKeeps,
       RejectKeeps DEF Transfer
  <1>3. CASE Check
    BY <1>3, CheckCopyKeeps, CopyMovedKeeps, CheckLookupKeeps, CheckStoreKeeps, EndCheckKeeps
       DEF Check
  <1>4. CASE RebuildStep
    BY <1>4, LookAtFileKeeps, CheckFileKeeps, StoreFileKeeps, MoveFileKeeps, RecordFileKeeps,
       StartRebuildKeeps DEF RebuildStep
  <1>5. CASE Environment
    BY <1>5, WorldKeeps, ClaimKeeps, SyncKeeps, StartRebuildKeeps, RestartKeeps DEF Environment
  <1> QED BY <1>1, <1>2, <1>3, <1>4, <1>5 DEF Next

\* Everything the transfer keeps is of its type, and a drive is imported once,
\* exactly when its row is trusted: over any number of exports, validations,
\* rebuilds and restarts, however they overlap.
THEOREM ImportTheorem == Spec => [](TypeOK /\ ImportedOnce)
  <1>1. Inv /\ [Next]_vars => Inv'
    BY StepHolds
  <1>2. Inv => TypeOK /\ ImportedOnce
    BY DEF Inv
  <1> QED BY <1>1, <1>2, InitHolds, PTL DEF Spec

\* A trusted row stays trusted, with its hash.
THEOREM TrustTheorem == Spec => TrustStays
  <1>1. Inv /\ [Next]_vars => Inv'
    BY StepHolds
  <1>2. Inv /\ [Next]_vars =>
          [\A d \in Drives : row[d].trusted => row'[d].trusted /\ row'[d].hash = row[d].hash]_vars
    BY StepHolds DEF RowsKeep, Trusted
  <1> QED BY <1>1, <1>2, InitHolds, PTL DEF Spec, TrustStays

-----------------------------------------------------------------------------
(* Orders and counts.                                                       *)

\* A finite set has a last member, in any order.
LEMMA LastOf ==
  ASSUME NEW S, IsFiniteSet(S), S # {}, NEW R,
         \A x, y \in S : x = y \/ <<x, y>> \in R \/ <<y, x>> \in R,
         \A x, y, z \in S : <<x, y>> \in R /\ <<y, z>> \in R => <<x, z>> \in R
  PROVE  \E m \in S : \A y \in S : y = m \/ <<y, m>> \in R
<1> DEFINE Bad == {T \in FiniteSubsetsOf(S) :
                    T # {} /\ ~ \E m \in T : \A y \in T : y = m \/ <<y, m>> \in R}
<1>1. S \in FiniteSubsetsOf(S)
  BY DEF FiniteSubsetsOf
<1>2. SUFFICES ASSUME Bad # {} PROVE FALSE
  BY <1>1
<1>3. PICK T \in Bad : \A U \in Bad : ~ (<<U, T>> \in StrictSubsetOrdering(S))
  <2> Bad \subseteq FiniteSubsetsOf(S)
    OBVIOUS
  <2> HIDE DEF Bad
  <2> QED BY <1>2, FS_StrictSubsetOrderingWellFounded, WFMin
<1>4. PICK x \in T : TRUE
  OBVIOUS
<1>5. T \subseteq S
  BY DEF FiniteSubsetsOf
<1>6. T \ {x} \in FiniteSubsetsOf(S) /\ <<T \ {x}, T>> \in StrictSubsetOrdering(S)
  BY <1>4, FS_RemoveElement DEF FiniteSubsetsOf, StrictSubsetOrdering
<1>7. CASE T \ {x} = {}
  <2>1. \A y \in T : y = x
    BY <1>7
  <2> QED BY <1>4, <2>1
<1>8. CASE T \ {x} # {}
  <2>1. PICK m \in T \ {x} : \A y \in T \ {x} : y = m \/ <<y, m>> \in R
    BY <1>3, <1>6, <1>8
  <2>2. CASE <<x, m>> \in R
    <3>1. \A y \in T : y = m \/ <<y, m>> \in R
      BY <2>1, <2>2
    <3> QED BY <2>1, <3>1
  <2>3. CASE <<m, x>> \in R
    <3>1. \A y \in T : y = x \/ <<y, x>> \in R
      BY <1>4, <1>5, <2>1, <2>3
    <3> QED BY <1>4, <3>1
  <2> QED BY <1>4, <1>5, <2>1, <2>2, <2>3
<1> QED
  BY <1>7, <1>8

\* A set without two members has at most one.
LEMMA AtMostOne ==
  ASSUME NEW S, \A a, b \in S : a = b
  PROVE  IsFiniteSet(S) /\ Cardinality(S) \in Nat /\ Cardinality(S) <= 1
<1>1. CASE S = {}
  BY <1>1, FS_EmptySet
<1>2. CASE S # {}
  <2>1. PICK a \in S : TRUE
    BY <1>2
  <2>2. S = {a}
    BY <2>1
  <2> QED BY <2>2, FS_Singleton
<1> QED
  BY <1>1, <1>2

\* A finite set of numbers has a least, and a last that is its Latest.
LEMMA LatestOf ==
  ASSUME NEW S \in SUBSET Nat, IsFiniteSet(S), S # {}
  PROVE  /\ \E m \in S : \A x \in S : m <= x
         /\ LoggerEvents!Latest(S) \in S /\ \A x \in S : x <= LoggerEvents!Latest(S)
<1> DEFINE Up == {p \in S \X S : p[1] < p[2]}
           Down == {p \in S \X S : p[2] < p[1]}
<1>1. \A x, y \in S : (<<x, y>> \in Up <=> x < y) /\ (<<x, y>> \in Down <=> y < x)
  OBVIOUS
<1> HIDE DEF Up, Down
<1>2. /\ \A x, y \in S : x = y \/ <<x, y>> \in Up \/ <<y, x>> \in Up
      /\ \A x, y, z \in S : <<x, y>> \in Up /\ <<y, z>> \in Up => <<x, z>> \in Up
  BY <1>1
<1>3. /\ \A x, y \in S : x = y \/ <<x, y>> \in Down \/ <<y, x>> \in Down
      /\ \A x, y, z \in S : <<x, y>> \in Down /\ <<y, z>> \in Down => <<x, z>> \in Down
  BY <1>1
<1>4. PICK m \in S : \A y \in S : y = m \/ <<y, m>> \in Up
  BY <1>2, LastOf
<1>5. PICK n \in S : \A y \in S : y = n \/ <<y, n>> \in Down
  BY <1>3, LastOf
<1>6. (\A y \in S : m >= y) /\ \A y \in S : n <= y
  <2>1. \A y \in S : (y = m \/ y < m) /\ (y = n \/ n < y)
    BY <1>1, <1>4, <1>5
  <2>2. m \in Nat /\ n \in Nat /\ \A y \in S : y \in Nat
    OBVIOUS
  <2> QED BY <2>1, <2>2
<1>7. LoggerEvents!Latest(S) \in S /\ \A y \in S : LoggerEvents!Latest(S) >= y
  BY <1>6 DEF LoggerEvents!Latest, LoggerEvents!Max
<1> QED
  BY <1>6, <1>7

\* A number that is Latest of a set.
IsTop(t, S) == t \in Nat /\ (S = {} => t = 0) /\ (S # {} => t \in S) /\ \A x \in S : x <= t

LEMMA TopIsLatest ==
  ASSUME NEW S \in SUBSET Nat, NEW t, IsTop(t, S)
  PROVE  LoggerEvents!Latest(S) = t
<1>1. CASE S = {}
  BY <1>1 DEF IsTop, LoggerEvents!Latest
<1>2. CASE S # {}
  <2>1. t \in S /\ \A y \in S : t >= y
    BY <1>2 DEF IsTop
  <2>2. LoggerEvents!Max(S) \in S /\ \A y \in S : LoggerEvents!Max(S) >= y
    BY <2>1 DEF LoggerEvents!Max
  <2>3. LoggerEvents!Max(S) = t
    <3> DEFINE m == LoggerEvents!Max(S)
    <3> HIDE DEF m
    <3>1. m \in S /\ m >= t /\ t >= m /\ m \in Nat /\ t \in Nat
      BY <2>1, <2>2 DEF m
    <3>2. m = t
      BY <3>1
    <3> QED BY <3>2 DEF m
  <2> QED BY <1>2, <2>3 DEF LoggerEvents!Latest
<1> QED
  BY <1>1, <1>2

LEMMA LatestIsTop ==
  ASSUME NEW S \in SUBSET Nat, IsFiniteSet(S)
  PROVE  IsTop(LoggerEvents!Latest(S), S)
<1>1. CASE S = {}
  BY <1>1 DEF IsTop, LoggerEvents!Latest
<1>2. CASE S # {}
  BY <1>2, LatestOf DEF IsTop
<1> QED
  BY <1>1, <1>2

LEMMA EventCardinality == \A S : LoggerEvents!Cardinality(S) = Cardinality(S)
BY DEF LoggerEvents!Cardinality, Cardinality

LEMMA EventConstants ==
  Ring \in Nat \ {0} /\ MAX_SERVER_EVENTS \in Nat \ {0} /\ EVENT_STORE_ATTEMPTS \in Nat \ {0}
BY UnitAssumption DEF UnitAssumption

\* The last Ring of the numbers up to t.
Window(t) == {n \in 1 .. t : n > t - Ring}

LEMMA WindowTop ==
  ASSUME NEW t \in Nat
  PROVE  /\ Window(t) \in SUBSET Nat /\ IsFiniteSet(Window(t)) /\ IsTop(t, Window(t))
         /\ LoggerEvents!Latest(Window(t)) = t
<1>1. Window(t) \in SUBSET Nat /\ IsTop(t, Window(t))
  BY EventConstants DEF Window, IsTop
<1>2. IsFiniteSet(Window(t))
  <2>1. IsFiniteSet(1 .. t)
    BY FS_Interval
  <2>2. Window(t) \subseteq 1 .. t
    BY DEF Window
  <2> QED BY <2>1, <2>2, FS_Subset
<1> QED
  BY <1>1, <1>2, TopIsLatest

\* What the unit keeps once it records event k.
RingAfter(kept, k) == {n \in kept \cup {k} : n > k - Ring}

LEMMA RingMoves ==
  ASSUME NEW t \in Nat
  PROVE  RingAfter(Window(t), t + 1) = Window(t + 1)
BY EventConstants DEF Window, RingAfter

\* What is left by the removal of the oldest stays within its bound, and the
\* newest is left.
LEMMA Pruned ==
  ASSUME NEW kept \in SUBSET Nat, IsFiniteSet(kept)
  PROVE  LET rest == LoggerEvents!_prune_server_events(kept) IN
         /\ rest \subseteq kept /\ IsFiniteSet(rest)
         /\ Cardinality(rest) <= MAX_SERVER_EVENTS
         /\ \A t : IsTop(t, kept) => IsTop(t, rest)
<1> DEFINE Above(n) == {k \in kept : k > n}
           rest == {n \in kept : Cardinality(Above(n)) < MAX_SERVER_EVENTS}
<1>1. rest = LoggerEvents!_prune_server_events(kept)
  BY EventCardinality DEF LoggerEvents!_prune_server_events
<1>2. rest \subseteq kept /\ IsFiniteSet(rest)
  BY FS_Subset
<1>3. Cardinality(rest) <= MAX_SERVER_EVENTS
  <2>1. CASE rest = {}
    <3>1. Cardinality(rest) = 0
      BY <2>1, FS_EmptySet
    <3> QED BY <3>1, EventConstants
  <2>2. CASE rest # {}
    <3>1. PICK m \in rest : \A x \in rest : m <= x
      BY <1>2, <2>2, LatestOf
    <3>2. rest \ {m} \subseteq Above(m) /\ IsFiniteSet(Above(m)) /\ Cardinality(Above(m)) < MAX_SERVER_EVENTS
      <4>1. \A x \in rest \ {m} : x \in Nat /\ m \in Nat /\ m <= x
        BY <1>2, <3>1
      <4>2. \A x \in rest \ {m} : x > m
        BY <4>1
      <4>3. rest \ {m} \subseteq Above(m)
        BY <1>2, <4>2
      <4>4. Above(m) \subseteq kept
        OBVIOUS
      <4> QED BY <3>1, <4>3, <4>4, FS_Subset
    <3>3. Cardinality(rest \ {m}) <= Cardinality(Above(m)) /\ Cardinality(Above(m)) \in Nat
      BY <3>2, FS_Subset, FS_CardinalityType
    <3>4. Cardinality(rest) \in Nat /\ Cardinality(rest \ {m}) = Cardinality(rest) - 1
      BY <1>2, <3>1, FS_RemoveElement, FS_CardinalityType
    <3> HIDE DEF rest, Above
    <3> QED BY <3>2, <3>3, <3>4, EventConstants
  <2> QED BY <2>1, <2>2
<1>4. ASSUME NEW t, IsTop(t, kept) PROVE IsTop(t, rest)
  <2>1. CASE kept = {}
    BY <1>4, <2>1 DEF IsTop
  <2>2. CASE kept # {}
    <3>1. t \in kept /\ Above(t) = {}
      <4>1. t \in kept /\ t \in Nat /\ \A x \in kept : x \in Nat /\ x <= t
        BY <1>4, <2>2 DEF IsTop
      <4>2. \A x \in kept : ~(x > t)
        BY <4>1
      <4> QED BY <4>1, <4>2
    <3>2. t \in rest
      BY <3>1, FS_EmptySet, EventConstants
    <3> HIDE DEF rest
    <3> QED BY <1>2, <1>4, <3>2 DEF IsTop
  <2> QED BY <2>1, <2>2
<1> QED
  BY <1>1, <1>2, <1>3, <1>4

-----------------------------------------------------------------------------
(* The mirror of the logger's events.                                       *)

Mirror == [pc : {"none", "read", "store", "stored"}, snap : SUBSET Nat, tries : 0 .. EVENT_STORE_ATTEMPTS - 1,
           gap : Nat, cancelled : BOOLEAN]

\* The unit keeps a ring, the server numbers it has seen there.
EventTypes ==
  /\ \E t \in Nat : ring = Window(t) /\ ever \in SUBSET (1 .. t) /\ \E s \in 0 .. t : mirror.snap = Window(s)
  /\ rows \subseteq ever /\ Cardinality(rows) <= MAX_SERVER_EVENTS
  /\ mirror \in Mirror /\ gaps \in Nat
  /\ mirror.cancelled => "deadline" \in happened

\* A gap that was found and not yet counted.
Uncounted == IF mirror.pc = "stored" THEN mirror.gap ELSE 0

\* What was missed is neither on the unit nor in a snapshot, the snapshot to
\* be stored is no older than the rows, and the count of losses is right.
EventsCounted ==
  /\ old = {}
  /\ LoggerEvents!Latest(rows) = LoggerEvents!Latest(ever)
  /\ \A n \in LoggerEvents!Missed : n \notin ring
  /\ mirror.pc = "store" =>
       /\ LoggerEvents!Latest(mirror.snap) >= LoggerEvents!Latest(ever)
       /\ \A n \in LoggerEvents!Missed : n \notin mirror.snap
  /\ gaps + Uncounted <= Cardinality(LoggerEvents!Missed)
  /\ happened \cap {"deadline", "crash"} = {} => gaps + Uncounted = Cardinality(LoggerEvents!Missed)

EventsInv == EventTypes /\ ("a month" \notin happened => EventsCounted)

LEMMA EventsInit ==
  ASSUME LoggerEvents!Init
  PROVE  EventsInv
<1>1. Window(0) = {}
  BY DEF Window
<1>2. /\ ring = {} /\ rows = {} /\ old = {} /\ ever = {} /\ mirror = LoggerEvents!NoMirror
      /\ gaps = 0 /\ happened = {}
  BY DEF LoggerEvents!Init
<1>3. mirror \in Mirror /\ mirror.snap = {} /\ mirror.pc = "none" /\ ~mirror.cancelled
  BY <1>2, EventConstants DEF Mirror, LoggerEvents!NoMirror
<1>4. EventTypes
  BY <1>1, <1>2, <1>3, FS_EmptySet, EventConstants DEF EventTypes
<1>5. LoggerEvents!Missed = {}
  BY <1>2 DEF LoggerEvents!Missed, LoggerEvents!Latest
<1>6. Cardinality(LoggerEvents!Missed) = 0
  BY <1>5, FS_EmptySet
<1>7. EventsCounted
  BY <1>2, <1>3, <1>5, <1>6 DEF EventsCounted, Uncounted
<1> QED
  BY <1>4, <1>7 DEF EventsInv

\* Sets of the mirror are finite sets of numbers.
LEMMA EventSets ==
  ASSUME EventTypes
  PROVE  /\ ever \in SUBSET Nat /\ IsFiniteSet(ever) /\ rows \in SUBSET Nat /\ IsFiniteSet(rows)
         /\ mirror.snap \in SUBSET Nat /\ IsFiniteSet(mirror.snap)
         /\ IsTop(LoggerEvents!Latest(ever), ever) /\ IsTop(LoggerEvents!Latest(rows), rows)
         /\ IsFiniteSet(LoggerEvents!Missed) /\ Cardinality(LoggerEvents!Missed) \in Nat
<1>1. PICK t \in Nat : ring = Window(t) /\ ever \in SUBSET (1 .. t) /\ \E s \in 0 .. t : mirror.snap = Window(s)
  BY DEF EventTypes
<1>2. ever \in SUBSET Nat /\ IsFiniteSet(ever)
  <2>1. IsFiniteSet(1 .. t)
    BY FS_Interval
  <2>2. ever \in SUBSET Nat
    BY <1>1
  <2> QED BY <1>1, <2>1, <2>2, FS_Subset
<1>3. rows \in SUBSET Nat /\ IsFiniteSet(rows)
  BY <1>2, FS_Subset DEF EventTypes
<1>4. mirror.snap \in SUBSET Nat /\ IsFiniteSet(mirror.snap)
  BY <1>1, WindowTop
<1>5. IsTop(LoggerEvents!Latest(ever), ever) /\ IsTop(LoggerEvents!Latest(rows), rows)
  BY <1>2, <1>3, LatestIsTop
<1>6. LoggerEvents!Latest(ever) \in Nat
  BY <1>5 DEF IsTop
<1>7. IsFiniteSet(LoggerEvents!Missed)
  <2>1. IsFiniteSet(1 .. LoggerEvents!Latest(ever))
    BY <1>6, FS_Interval
  <2>2. LoggerEvents!Missed \subseteq 1 .. LoggerEvents!Latest(ever)
    BY DEF LoggerEvents!Missed
  <2> QED BY <2>1, <2>2, FS_Subset
<1> QED
  BY <1>2, <1>3, <1>4, <1>5, <1>7, FS_CardinalityType

\* A step that leaves the rows and the numbers alone; a snapshot to be stored
\* is kept, or taken of the ring, and what is counted becomes less only where a
\* mirror is cut short.
SameRows == UNCHANGED <<ring, rows, ever>>
MirrorGoes ==
  /\ mirror' \in Mirror /\ gaps' \in Nat
  /\ mirror'.snap = mirror.snap \/ mirror'.snap = ring \/ mirror'.snap = {}
  /\ mirror'.pc = "store" => (mirror.pc = "store" /\ mirror'.snap = mirror.snap) \/ mirror'.snap = ring
EventsMet ==
  /\ happened \subseteq happened' /\ (old' = old \/ "a month" \in happened')
  /\ mirror'.cancelled => mirror.cancelled \/ "deadline" \in happened'
CountsLess ==
  /\ (gaps + Uncounted)' <= gaps + Uncounted
  /\ happened' \cap {"deadline", "crash"} = {} => (gaps + Uncounted)' = gaps + Uncounted

LEMMA EventsRest ==
  ASSUME EventsInv, SameRows, MirrorGoes, EventsMet, CountsLess
  PROVE  EventsInv'
<1>1. PICK t \in Nat : ring = Window(t) /\ ever \in SUBSET (1 .. t) /\ \E s \in 0 .. t : mirror.snap = Window(s)
  BY DEF EventsInv, EventTypes
<1>2. LoggerEvents!Latest(ring) = t
  BY <1>1, WindowTop
<1>3. \E s \in 0 .. t : mirror'.snap = Window(s)
  <2>1. Window(0) = {}
    BY DEF Window
  <2>2. 0 \in 0 .. t /\ t \in 0 .. t
    OBVIOUS
  <2> QED BY <1>1, <2>1, <2>2 DEF MirrorGoes
<1>4. EventTypes'
  BY <1>1, <1>3 DEF EventsInv, EventTypes, SameRows, MirrorGoes, EventsMet
<1>5. LoggerEvents!Missed' = LoggerEvents!Missed
  BY DEF LoggerEvents!Missed, SameRows
<1>6. LoggerEvents!Latest(ever) <= t
  <2>1. IsTop(LoggerEvents!Latest(ever), ever)
    BY EventSets DEF EventsInv
  <2>2. \A x \in ever : x <= t
    BY <1>1
  <2> DEFINE top == LoggerEvents!Latest(ever)
  <2> HIDE DEF top
  <2>3. top <= t
    BY <2>1, <2>2 DEF IsTop, top
  <2> QED BY <2>3 DEF top
<1>7. ASSUME "a month" \notin happened' PROVE EventsCounted'
  <2>1. EventsCounted /\ old' = old
    BY <1>7 DEF EventsInv, EventsMet
  <2>2. old' = {} /\ (LoggerEvents!Latest(rows) = LoggerEvents!Latest(ever))' /\ (\A n \in LoggerEvents!Missed : n \notin ring)'
    BY <1>5, <2>1 DEF EventsCounted, SameRows
  <2>3. (mirror.pc = "store" =>
          /\ LoggerEvents!Latest(mirror.snap) >= LoggerEvents!Latest(ever)
          /\ \A n \in LoggerEvents!Missed : n \notin mirror.snap)'
    <3> SUFFICES ASSUME mirror'.pc = "store"
                 PROVE  /\ LoggerEvents!Latest(mirror'.snap) >= LoggerEvents!Latest(ever)
                        /\ \A n \in LoggerEvents!Missed : n \notin mirror'.snap
      BY <1>5 DEF SameRows
    <3>1. CASE mirror'.snap = ring
      BY <1>2, <1>6, <2>1, <3>1 DEF EventsCounted
    <3>2. CASE mirror.pc = "store" /\ mirror'.snap = mirror.snap
      BY <2>1, <3>2 DEF EventsCounted
    <3> QED BY <3>1, <3>2 DEF MirrorGoes
  <2>5. /\ (gaps + Uncounted <= Cardinality(LoggerEvents!Missed))'
        /\ (happened \cap {"deadline", "crash"} = {} => gaps + Uncounted = Cardinality(LoggerEvents!Missed))'
    <3>1. Cardinality(LoggerEvents!Missed) \in Nat
      BY EventSets DEF EventsInv
    <3>2. gaps + Uncounted \in Nat /\ (gaps + Uncounted)' \in Nat
      <4>1. mirror.gap \in Nat /\ mirror'.gap \in Nat /\ gaps \in Nat /\ gaps' \in Nat
        BY DEF EventsInv, EventTypes, Mirror, MirrorGoes
      <4>2. Uncounted \in Nat
        BY <4>1 DEF Uncounted
      <4>3. Uncounted' \in Nat
        BY <4>1 DEF Uncounted
      <4> HIDE DEF Uncounted
      <4>4. \A x, y \in Nat : x + y \in Nat
        OBVIOUS
      <4> QED BY <4>1, <4>2, <4>3, <4>4
    <3>3. happened' \cap {"deadline", "crash"} = {} => happened \cap {"deadline", "crash"} = {}
      BY DEF EventsMet
    <3> HIDE DEF Uncounted
    <3> QED BY <1>5, <2>1, <3>1, <3>2, <3>3 DEF EventsCounted, CountsLess
  <2> QED BY <2>2, <2>3, <2>5 DEF EventsCounted
<1> QED
  BY <1>4, <1>7 DEF EventsInv

\* The unit records an event.
LEMMA JournalKeeps ==
  ASSUME EventsInv, LoggerEvents!Journal
  PROVE  EventsInv'
<1>1. PICK t \in Nat : ring = Window(t) /\ ever \in SUBSET (1 .. t) /\ \E s \in 0 .. t : mirror.snap = Window(s)
  BY DEF EventsInv, EventTypes
<1>2. LoggerEvents!Latest(ring) = t
  BY <1>1, WindowTop
<1>3. ring' = Window(t + 1) /\ UNCHANGED <<rows, old, ever, mirror, gaps, happened>>
  <2>1. UNCHANGED <<rows, old, ever, mirror, gaps, happened>>
    BY DEF LoggerEvents!Journal
  <2>2. LoggerEvents!Latest(Window(t)) = t
    BY WindowTop
  <2>3. ring' = RingAfter(ring, LoggerEvents!Latest(ring) + 1)
    BY DEF LoggerEvents!Journal, RingAfter
  <2>4. ring' = RingAfter(Window(t), t + 1)
    BY <1>1, <2>2, <2>3
  <2> QED BY <2>1, <2>4, RingMoves
<1>4. ever \in SUBSET (1 .. t + 1) /\ \E s \in 0 .. t + 1 : mirror.snap = Window(s)
  BY <1>1
<1>5. EventTypes'
  <2>1. t + 1 \in Nat
    OBVIOUS
  <2> QED BY <1>3, <1>4, <2>1 DEF EventsInv, EventTypes
<1>6. LoggerEvents!Missed' = LoggerEvents!Missed /\ Uncounted' = Uncounted
  BY <1>3 DEF LoggerEvents!Missed, Uncounted
<1>7. ASSUME EventsCounted PROVE EventsCounted'
  <2>1. \A n \in LoggerEvents!Missed : n \notin Window(t + 1)
    <3> SUFFICES ASSUME NEW n \in LoggerEvents!Missed, n \in Window(t + 1) PROVE FALSE
      OBVIOUS
    <3>1. IsTop(LoggerEvents!Latest(ever), ever)
      BY EventSets DEF EventsInv
    <3>2. n \in 1 .. LoggerEvents!Latest(ever)
      BY DEF LoggerEvents!Missed
    <3>3. n \in Nat /\ n <= t
      BY <1>1, <3>1, <3>2 DEF IsTop
    <3>4. n \in Window(t)
      BY <3>3, EventConstants DEF Window
    <3> QED BY <1>1, <1>7, <3>4 DEF EventsCounted
  <2> QED BY <1>3, <1>6, <1>7, <2>1 DEF EventsCounted
<1> QED
  BY <1>3, <1>5, <1>7 DEF EventsInv

\* What a snapshot adds to the numbers missed is the gap that is found.
LEMMA MirrorKeeps ==
  ASSUME EventsInv, LoggerEvents!store_event_snapshot
  PROVE  EventsInv'
<1> DEFINE Gap == {n \in LoggerEvents!Latest(rows) + 1 .. LoggerEvents!Latest(mirror.snap) : n \notin mirror.snap}
           kept == (rows \cup mirror.snap) \ old
           last == LoggerEvents!Latest(mirror.snap)
<1>1. PICK t \in Nat : /\ ring = Window(t) /\ ever \in SUBSET (1 .. t)
                       /\ \E s \in 0 .. t : mirror.snap = Window(s)
  BY DEF EventsInv, EventTypes
<1>2. PICK s \in 0 .. t : mirror.snap = Window(s)
  BY <1>1
<1>3. /\ rows' = LoggerEvents!_prune_server_events(kept)
      /\ ever' = ever \cup mirror.snap
      /\ mirror' = [mirror EXCEPT !.pc = "stored", !.gap = LoggerEvents!SequenceGap(LoggerEvents!Latest(rows), mirror.snap)]
      /\ UNCHANGED <<ring, old, waits, gaps, started, happened>>
      /\ mirror.pc = "store" /\ ~mirror.cancelled
  BY DEF LoggerEvents!store_event_snapshot
<1>4. LoggerEvents!SequenceGap(LoggerEvents!Latest(rows), mirror.snap) = Cardinality(Gap)
  BY EventCardinality DEF LoggerEvents!SequenceGap
<1>5. s \in Nat /\ last = s
  BY <1>2, WindowTop
<1>6. /\ ever \in SUBSET Nat /\ rows \in SUBSET Nat /\ mirror.snap \in SUBSET Nat
      /\ IsFiniteSet(rows) /\ IsFiniteSet(mirror.snap) /\ IsFiniteSet(LoggerEvents!Missed)
      /\ Cardinality(LoggerEvents!Missed) \in Nat
      /\ IsTop(LoggerEvents!Latest(ever), ever) /\ IsTop(LoggerEvents!Latest(rows), rows)
  BY EventSets DEF EventsInv
<1>7. LoggerEvents!Latest(rows) \in Nat /\ LoggerEvents!Latest(ever) \in Nat
  BY <1>6 DEF IsTop
<1>8. IsFiniteSet(Gap) /\ Cardinality(Gap) \in Nat
  <2>1. IsFiniteSet(LoggerEvents!Latest(rows) + 1 .. last)
    BY <1>5, <1>7, FS_Interval
  <2>2. Gap \subseteq LoggerEvents!Latest(rows) + 1 .. last
    OBVIOUS
  <2> HIDE DEF Gap
  <2> QED BY <2>1, <2>2, FS_Subset, FS_CardinalityType
<1>9. kept \in SUBSET Nat /\ IsFiniteSet(kept) /\ kept \subseteq ever'
  <2>1. IsFiniteSet(rows \cup mirror.snap)
    BY <1>6, FS_Union
  <2>2. kept \subseteq rows \cup mirror.snap
    OBVIOUS
  <2>3. rows \subseteq ever
    BY DEF EventsInv, EventTypes
  <2> HIDE DEF kept
  <2> QED BY <1>3, <1>6, <2>1, <2>2, <2>3, FS_Subset
<1>10. /\ rows' \subseteq kept /\ Cardinality(rows') <= MAX_SERVER_EVENTS
       /\ \A n : IsTop(n, kept) => IsTop(n, rows')
  <2> HIDE DEF kept
  <2> QED BY <1>3, <1>9, Pruned
<1>11. mirror' \in Mirror /\ mirror'.snap = mirror.snap /\ mirror'.gap = Cardinality(Gap)
       /\ mirror'.pc = "stored" /\ ~mirror'.cancelled
  <2> HIDE DEF Gap
  <2>1. mirror \in Mirror
    BY DEF EventsInv, EventTypes
  <2> QED BY <1>3, <1>4, <1>8, <2>1 DEF Mirror
<1>12. EventTypes'
  <2>1. ever' \in SUBSET (1 .. t)
    BY <1>1, <1>2, <1>3 DEF Window
  <2>2. rows' \subseteq ever'
    BY <1>9, <1>10
  <2> HIDE DEF Gap, kept
  <2>3. gaps' \in Nat
    BY <1>3 DEF EventsInv, EventTypes
  <2> QED BY <1>1, <1>2, <1>3, <1>10, <1>11, <2>1, <2>2, <2>3 DEF EventTypes
<1>13. ASSUME EventsCounted PROVE EventsCounted'
  <2>1. /\ old = {} /\ LoggerEvents!Latest(rows) = LoggerEvents!Latest(ever)
        /\ \A n \in LoggerEvents!Missed : n \notin ring
        /\ LoggerEvents!Latest(ever) <= s
        /\ \A n \in LoggerEvents!Missed : n \notin mirror.snap
    BY <1>3, <1>5, <1>13 DEF EventsCounted
  <2>2. IsTop(s, kept) /\ IsTop(s, ever')
    <3>1. IsTop(s, mirror.snap)
      BY <1>2, <1>5, WindowTop
    <3>2. kept = rows \cup mirror.snap
      BY <2>1
    <3>3. (\A x \in rows : x <= s) /\ \A x \in ever : x <= s
      <4>1. (\A x \in rows : x \in Nat /\ x <= LoggerEvents!Latest(rows)) /\ \A x \in ever : x \in Nat /\ x <= LoggerEvents!Latest(ever)
        BY <1>6 DEF IsTop
      <4> DEFINE le == LoggerEvents!Latest(ever)
      <4>2. \A x \in Nat : x <= le => x <= s
        <5>1. le \in Nat /\ le <= s /\ s \in Nat
          BY <1>5, <1>7, <2>1
        <5> HIDE DEF le
        <5> QED BY <5>1
      <4> QED BY <2>1, <4>1, <4>2
    <3>4. s = 0 => rows = {} /\ ever = {}
      <4>1. (\A x \in rows : x \in 1 .. t) /\ \A x \in ever : x \in 1 .. t
        BY <1>1 DEF EventsInv, EventTypes
      <4> QED BY <3>3, <4>1
    <3>5. s # 0 => s \in mirror.snap
      BY <3>1 DEF IsTop
    <3> QED BY <1>3, <1>5, <3>1, <3>2, <3>3, <3>4, <3>5 DEF IsTop
  <2>3. LoggerEvents!Latest(ever)' = s /\ LoggerEvents!Latest(rows)' = s
    <3>1. ever' \in SUBSET Nat /\ rows' \in SUBSET Nat
      <4> HIDE DEF kept
      <4> QED BY <1>3, <1>6, <1>9, <1>10
    <3>2. LoggerEvents!Latest(ever') = s /\ LoggerEvents!Latest(rows') = s
      <4> HIDE DEF kept
      <4> QED BY <1>10, <2>2, <3>1, TopIsLatest
    <3> QED BY <3>2
  <2>4. LoggerEvents!Missed' = LoggerEvents!Missed \cup Gap /\ LoggerEvents!Missed \cap Gap = {}
    <3> DEFINE le == LoggerEvents!Latest(ever)
    <3>1. LoggerEvents!Missed' = {n \in 1 .. s : n \notin ever /\ n \notin mirror.snap}
      BY <1>3, <2>3 DEF LoggerEvents!Missed
    <3>2. LoggerEvents!Missed = {n \in 1 .. le : n \notin ever}
      BY DEF LoggerEvents!Missed
    <3>3. Gap = {n \in le + 1 .. s : n \notin mirror.snap}
      BY <1>5, <2>1
    <3>4. le \in Nat /\ s \in Nat /\ le <= s /\ \A x \in ever : x \in Nat /\ x <= le
      BY <1>5, <1>6, <1>7, <2>1 DEF IsTop
    <3>5. \A n \in LoggerEvents!Missed : n \notin mirror.snap
      BY <2>1
    <3> HIDE DEF le, Gap
    <3>6. \A n : n \in LoggerEvents!Missed' <=> n \in LoggerEvents!Missed \/ n \in Gap
      BY <3>1, <3>2, <3>3, <3>4, <3>5
    <3>7. \A n : ~ (n \in LoggerEvents!Missed /\ n \in Gap)
      BY <3>2, <3>3, <3>4
    <3> QED BY <3>6, <3>7
  <2>5. Cardinality(LoggerEvents!Missed') = Cardinality(LoggerEvents!Missed) + Cardinality(Gap)
    <3>1. Cardinality(LoggerEvents!Missed \cap Gap) = 0
      BY <2>4, FS_EmptySet
    <3> HIDE DEF Gap
    <3>2. Cardinality(LoggerEvents!Missed \cup Gap)
            = Cardinality(LoggerEvents!Missed) + Cardinality(Gap) - Cardinality(LoggerEvents!Missed \cap Gap)
      BY <1>6, <1>8, FS_Union
    <3> QED BY <1>6, <1>8, <2>4, <3>1, <3>2
  <2>6. \A n \in LoggerEvents!Missed' : n \notin ring'
    <3> SUFFICES ASSUME NEW n \in Gap, n \in ring PROVE FALSE
      BY <1>3, <2>1, <2>4
    <3>1. n \in Nat /\ n >= 1 /\ n <= s /\ n \notin Window(s)
      BY <1>2, <1>5, <1>7
    <3>2. n \in Window(t)
      BY <1>1
    <3>3. t \in Nat /\ s \in Nat /\ s <= t /\ Ring \in Nat
      BY EventConstants
    <3> QED BY <3>1, <3>2, <3>3 DEF Window
  <2>7. gaps \in Nat /\ gaps' = gaps /\ Uncounted = 0 /\ Uncounted' = Cardinality(Gap)
    <3> HIDE DEF Gap
    <3> QED BY <1>3, <1>11 DEF Uncounted, EventsInv, EventTypes
  <2>8. /\ gaps <= Cardinality(LoggerEvents!Missed)
        /\ happened \cap {"deadline", "crash"} = {} => gaps = Cardinality(LoggerEvents!Missed)
    <3>1. gaps + 0 = gaps
      BY <2>7
    <3> QED BY <1>13, <2>7, <3>1 DEF EventsCounted
  <2>9. /\ gaps' + Uncounted' <= Cardinality(LoggerEvents!Missed')
        /\ happened \cap {"deadline", "crash"} = {} => gaps' + Uncounted' = Cardinality(LoggerEvents!Missed')
    <3> HIDE DEF Gap
    <3> QED BY <1>6, <1>8, <2>5, <2>7, <2>8
  <2> QED BY <1>3, <1>11, <2>1, <2>3, <2>6, <2>9 DEF EventsCounted
<1> QED
  BY <1>3, <1>12, <1>13 DEF EventsInv

\* Steps that leave the rows and the numbers alone.
LEMMA EventsOther ==
  ASSUME EventsInv,
         \/ LoggerEvents!Month \/ LoggerEvents!_start_event_mirror \/ LoggerEvents!Read
         \/ LoggerEvents!Locked \/ LoggerEvents!Finished \/ LoggerEvents!Unwound
         \/ LoggerEvents!Collected \/ LoggerEvents!_cancel_event_mirror \/ LoggerEvents!Crash
         \/ UNCHANGED eventsVars
  PROVE  EventsInv'
<1>1. mirror \in Mirror /\ gaps \in Nat /\ (mirror.cancelled => "deadline" \in happened)
  BY DEF EventsInv, EventTypes
<1>2. LoggerEvents!NoMirror \in Mirror /\ LoggerEvents!NoMirror.snap = {} /\ LoggerEvents!NoMirror.pc = "none"
      /\ ~LoggerEvents!NoMirror.cancelled
  BY EventConstants DEF LoggerEvents!NoMirror, Mirror
<1>3. Window(0) = {}
  BY DEF Window
<1>4. ring \in SUBSET Nat
  BY WindowTop DEF EventsInv, EventTypes
<1>5. mirror.gap \in Nat /\ Uncounted \in Nat
  <2>1. mirror.gap \in Nat
    BY <1>1 DEF Mirror
  <2> QED BY <2>1 DEF Uncounted
<1>6. gaps + 0 = gaps /\ gaps + Uncounted \in Nat /\ gaps + mirror.gap \in Nat /\ gaps + mirror.gap + 0 = gaps + mirror.gap
      /\ gaps <= gaps + Uncounted /\ 0 <= gaps + Uncounted
  <2> HIDE DEF Uncounted
  <2>1. \A x, y \in Nat : x + 0 = x /\ x + y \in Nat /\ x + y + 0 = x + y /\ x <= x + y /\ 0 <= x + y
    OBVIOUS
  <2> QED BY <1>1, <1>5, <2>1
<1>7. CASE LoggerEvents!Month \/ LoggerEvents!Collected \/ UNCHANGED eventsVars
  <2>1. /\ SameRows /\ mirror' = mirror /\ gaps' = gaps
        /\ happened \subseteq happened' /\ (old' = old \/ "a month" \in happened')
    BY <1>7 DEF LoggerEvents!Month, LoggerEvents!Collected, LoggerEvents!Meets, eventsVars, SameRows
  <2>2. MirrorGoes /\ EventsMet
    BY <1>1, <2>1 DEF MirrorGoes, EventsMet
  <2>3. Uncounted' = Uncounted
    BY <2>1 DEF Uncounted
  <2>4. CountsLess
    <3> HIDE DEF Uncounted
    <3>1. (gaps + Uncounted)' = gaps + Uncounted
      BY <2>1, <2>3
    <3>2. \A x \in Nat : x <= x
      OBVIOUS
    <3> QED BY <1>6, <3>1, <3>2 DEF CountsLess
  <2> QED BY <2>1, <2>2, <2>4, EventsRest
<1>8. CASE LoggerEvents!_start_event_mirror
  <2>1. /\ SameRows /\ gaps' = gaps /\ happened' = happened /\ old' = old
        /\ \/ mirror = LoggerEvents!NoMirror /\ mirror' = [LoggerEvents!NoMirror EXCEPT !.pc = "read"]
           \/ mirror' = mirror
    BY <1>8 DEF LoggerEvents!_start_event_mirror, SameRows
  <2>2. MirrorGoes /\ EventsMet
    <3>1. CASE mirror' = mirror
      BY <1>1, <2>1, <3>1 DEF MirrorGoes, EventsMet
    <3>2. CASE mirror' = [LoggerEvents!NoMirror EXCEPT !.pc = "read"]
      <4>1. mirror' \in Mirror /\ mirror'.snap = {} /\ mirror'.pc = "read" /\ ~mirror'.cancelled
        BY <1>2, <3>2 DEF Mirror
      <4> QED BY <1>1, <2>1, <4>1 DEF MirrorGoes, EventsMet
    <3> QED BY <2>1, <3>1, <3>2
  <2>3. Uncounted' = Uncounted
    <3>1. CASE mirror' = mirror
      BY <3>1 DEF Uncounted
    <3>2. CASE mirror = LoggerEvents!NoMirror /\ mirror' = [LoggerEvents!NoMirror EXCEPT !.pc = "read"]
      <4>1. mirror.pc = "none" /\ mirror'.pc = "read"
        BY <1>2, <3>2 DEF Mirror
      <4> QED BY <4>1 DEF Uncounted
    <3> QED BY <2>1, <3>1, <3>2
  <2>4. CountsLess
    <3> HIDE DEF Uncounted
    <3>1. (gaps + Uncounted)' = gaps + Uncounted
      BY <2>1, <2>3
    <3>2. \A x \in Nat : x <= x
      OBVIOUS
    <3> QED BY <1>6, <3>1, <3>2 DEF CountsLess
  <2> QED BY <2>1, <2>2, <2>4, EventsRest
<1>9. ASSUME LoggerEvents!Read \/ LoggerEvents!Locked,
             mirror' # LoggerEvents!NoMirror
      PROVE  EventsInv'
  <2>1. /\ SameRows /\ gaps' = gaps /\ happened \subseteq happened' /\ old' = old
        /\ \/ mirror.pc = "read" /\ mirror' = [mirror EXCEPT !.pc = "store", !.snap = ring]
           \/ /\ mirror.pc = "store" /\ ~LoggerEvents!LastTry(mirror.tries)
              /\ mirror' = [mirror EXCEPT !.tries = @ + 1]
    BY <1>9 DEF LoggerEvents!Read, LoggerEvents!Locked, LoggerEvents!finish, LoggerEvents!Meets, SameRows
  <2>2. MirrorGoes /\ EventsMet /\ mirror.pc # "stored" /\ mirror'.pc # "stored"
    <3>1. CASE mirror.pc = "read" /\ mirror' = [mirror EXCEPT !.pc = "store", !.snap = ring]
      <4>1. mirror' \in Mirror /\ mirror'.snap = ring /\ mirror'.pc = "store" /\ mirror'.cancelled = mirror.cancelled
        BY <1>1, <1>4, <3>1 DEF Mirror
      <4> QED BY <1>1, <2>1, <3>1, <4>1 DEF MirrorGoes, EventsMet
    <3>2. CASE /\ mirror.pc = "store" /\ ~LoggerEvents!LastTry(mirror.tries)
               /\ mirror' = [mirror EXCEPT !.tries = @ + 1]
      <4>1. mirror.tries \in 0 .. EVENT_STORE_ATTEMPTS - 1 /\ mirror.tries + 1 # EVENT_STORE_ATTEMPTS
        BY <1>1, <3>2 DEF Mirror, LoggerEvents!LastTry
      <4>2. mirror.tries + 1 \in 0 .. EVENT_STORE_ATTEMPTS - 1
        BY <4>1, EventConstants
      <4>3. mirror' \in Mirror /\ mirror'.snap = mirror.snap /\ mirror'.pc = "store" /\ mirror'.cancelled = mirror.cancelled
        BY <1>1, <3>2, <4>2 DEF Mirror
      <4> QED BY <1>1, <2>1, <3>2, <4>3 DEF MirrorGoes, EventsMet
    <3> QED BY <2>1, <3>1, <3>2
  <2>3. Uncounted' = Uncounted
    BY <2>2 DEF Uncounted
  <2>4. CountsLess
    <3> HIDE DEF Uncounted
    <3>1. (gaps + Uncounted)' = gaps + Uncounted
      BY <2>1, <2>3
    <3>2. \A x \in Nat : x <= x
      OBVIOUS
    <3> QED BY <1>6, <3>1, <3>2 DEF CountsLess
  <2> QED BY <2>1, <2>2, <2>4, EventsRest
<1>10. ASSUME \/ LoggerEvents!Read \/ LoggerEvents!Locked
              \/ LoggerEvents!Finished \/ LoggerEvents!Unwound \/ LoggerEvents!Crash,
              mirror' = LoggerEvents!NoMirror
       PROVE  EventsInv'
  <2>1. /\ SameRows /\ happened \subseteq happened' /\ old' = old
        /\ \/ mirror.pc \in {"read", "store"} /\ gaps' = gaps + 0
           \/ mirror.pc = "stored" /\ gaps' = gaps + mirror.gap
           \/ mirror.cancelled /\ gaps' = gaps + 0
           \/ "crash" \in happened' /\ gaps' = 0
    <3>1. CASE LoggerEvents!Read
      <4>1. mirror.pc = "read" /\ SameRows /\ old' = old
        BY <3>1 DEF LoggerEvents!Read, SameRows
      <4>2. mirror' # [mirror EXCEPT !.pc = "store", !.snap = ring]
        BY <1>1, <1>2, <1>10 DEF Mirror
      <4> QED BY <3>1, <4>1, <4>2 DEF LoggerEvents!Read, LoggerEvents!finish, LoggerEvents!Meets
    <3>2. CASE LoggerEvents!Locked
      <4>1. mirror.pc = "store" /\ SameRows /\ old' = old /\ happened \subseteq happened'
        BY <3>2 DEF LoggerEvents!Locked, LoggerEvents!Meets, SameRows
      <4>2. mirror' # [mirror EXCEPT !.tries = @ + 1]
        BY <1>1, <1>2, <1>10, <4>1 DEF Mirror
      <4> QED BY <3>2, <4>1, <4>2 DEF LoggerEvents!Locked, LoggerEvents!finish
    <3>3. CASE LoggerEvents!Finished
      BY <3>3 DEF LoggerEvents!Finished, LoggerEvents!finish, SameRows
    <3>4. CASE LoggerEvents!Unwound
      BY <3>4 DEF LoggerEvents!Unwound, LoggerEvents!finish, SameRows
    <3>5. CASE LoggerEvents!Crash
      BY <3>5 DEF LoggerEvents!Crash, LoggerEvents!Meets, SameRows
    <3> QED BY <1>10, <3>1, <3>2, <3>3, <3>4, <3>5
  <2>2. mirror' \in Mirror /\ mirror'.snap = {} /\ mirror'.pc = "none" /\ ~mirror'.cancelled
    BY <1>2, <1>10
  <2>3. gaps' \in Nat
    BY <1>1, <1>6, <2>1
  <2>4. MirrorGoes /\ EventsMet
    BY <2>1, <2>2, <2>3 DEF MirrorGoes, EventsMet
  <2>5. Uncounted' = 0 /\ (gaps + Uncounted)' = gaps' + 0 /\ gaps' + 0 = gaps'
    <3>1. Uncounted' = 0
      BY <2>2 DEF Uncounted
    <3> HIDE DEF Uncounted
    <3>2. \A x \in Nat : x + 0 = x
      OBVIOUS
    <3> QED BY <2>3, <3>1, <3>2
  <2>6. CountsLess
    <3>1. CASE mirror.pc \in {"read", "store"} /\ gaps' = gaps + 0
      <4>1. Uncounted = 0
        BY <3>1 DEF Uncounted
      <4> HIDE DEF Uncounted
      <4>2. gaps' = gaps + Uncounted /\ gaps' <= gaps + Uncounted
        BY <1>6, <3>1, <4>1
      <4> QED BY <2>5, <4>2 DEF CountsLess
    <3>2. CASE mirror.pc = "stored" /\ gaps' = gaps + mirror.gap
      <4>1. Uncounted = mirror.gap
        BY <3>2 DEF Uncounted
      <4> HIDE DEF Uncounted
      <4>2. \A x \in Nat : x <= x
        OBVIOUS
      <4>3. gaps' = gaps + Uncounted /\ gaps' <= gaps + Uncounted
        BY <1>6, <3>2, <4>1, <4>2
      <4> QED BY <2>5, <4>3 DEF CountsLess
    <3>3. CASE mirror.cancelled /\ gaps' = gaps + 0
      <4> HIDE DEF Uncounted
      <4>1. gaps' <= gaps + Uncounted /\ "deadline" \in happened'
        BY <1>1, <1>6, <2>1, <3>3
      <4> QED BY <2>5, <4>1 DEF CountsLess
    <3>4. CASE "crash" \in happened' /\ gaps' = 0
      <4> HIDE DEF Uncounted
      <4>1. gaps' <= gaps + Uncounted
        BY <1>6, <3>4
      <4> QED BY <2>5, <3>4, <4>1 DEF CountsLess
    <3> QED BY <2>1, <3>1, <3>2, <3>3, <3>4
  <2> QED BY <2>1, <2>4, <2>6, EventsRest
<1>11. CASE LoggerEvents!_cancel_event_mirror
  <2>1. /\ SameRows /\ gaps' = gaps /\ happened' = happened \cup {"deadline"} /\ old' = old
        /\ mirror' = [mirror EXCEPT !.cancelled = TRUE]
    BY <1>11 DEF LoggerEvents!_cancel_event_mirror, SameRows
  <2>2. mirror' \in Mirror /\ mirror'.snap = mirror.snap /\ mirror'.pc = mirror.pc /\ mirror'.gap = mirror.gap
    BY <1>1, <2>1 DEF Mirror
  <2>3. MirrorGoes /\ EventsMet
    BY <1>1, <2>1, <2>2 DEF MirrorGoes, EventsMet
  <2>4. Uncounted' = Uncounted
    BY <2>2 DEF Uncounted
  <2>5. CountsLess
    <3> HIDE DEF Uncounted
    <3>1. (gaps + Uncounted)' = gaps + Uncounted
      BY <2>1, <2>4
    <3>2. \A x \in Nat : x <= x
      OBVIOUS
    <3> QED BY <1>6, <3>1, <3>2 DEF CountsLess
  <2> QED BY <2>1, <2>3, <2>5, EventsRest
<1>12. ASSUME LoggerEvents!Finished \/ LoggerEvents!Unwound \/ LoggerEvents!Crash
       PROVE  mirror' = LoggerEvents!NoMirror
  BY <1>12 DEF LoggerEvents!Finished, LoggerEvents!Unwound, LoggerEvents!Crash, LoggerEvents!finish
<1> QED
  BY <1>7, <1>8, <1>9, <1>10, <1>11, <1>12

LEMMA EventsKeeps ==
  ASSUME EventsInv, LoggerEvents!Next \/ UNCHANGED eventsVars
  PROVE  EventsInv'
BY JournalKeeps, MirrorKeeps, EventsOther DEF LoggerEvents!Next

LEMMA EventsPromised ==
  ASSUME EventsInv
  PROVE  LoggerEvents!TypeOK /\ LoggerEvents!GapsAreLosses /\ LoggerEvents!NewestKept
<1>1. mirror \in Mirror /\ rows \subseteq ever /\ Cardinality(rows) <= MAX_SERVER_EVENTS /\ gaps \in Nat
  BY DEF EventsInv, EventTypes
<1>2. mirror.tries < EVENT_STORE_ATTEMPTS
  BY <1>1, EventConstants DEF Mirror
<1>3. LoggerEvents!TypeOK
  BY <1>1, <1>2, EventCardinality DEF LoggerEvents!TypeOK
<1>4. ASSUME EventsCounted PROVE LoggerEvents!GapsAreLosses /\ LoggerEvents!NewestKept
  <2>1. Cardinality(LoggerEvents!Missed) \in Nat /\ mirror.gap \in Nat
    BY <1>1, EventSets DEF EventsInv, Mirror
  <2>2. Uncounted \in Nat /\ (mirror.pc # "stored" => Uncounted = 0)
    BY <2>1 DEF Uncounted
  <2>3. /\ gaps + Uncounted <= Cardinality(LoggerEvents!Missed)
        /\ happened \cap {"deadline", "crash"} = {} => gaps + Uncounted = Cardinality(LoggerEvents!Missed)
    BY <1>4 DEF EventsCounted
  <2>4. /\ gaps <= Cardinality(LoggerEvents!Missed)
        /\ happened \cap {"deadline", "crash"} = {} /\ mirror.pc # "stored" => gaps = Cardinality(LoggerEvents!Missed)
    <3> HIDE DEF Uncounted
    <3> QED BY <1>1, <2>1, <2>2, <2>3
  <2> QED BY <1>4, <2>4, EventCardinality DEF EventsCounted, LoggerEvents!GapsAreLosses, LoggerEvents!NewestKept
<1> QED
  BY <1>3, <1>4 DEF EventsInv, LoggerEvents!GapsAreLosses, LoggerEvents!NewestKept

-----------------------------------------------------------------------------
(* The movement report.                                                     *)

Docs == Reports \cup {MovementStatus!Nothing}
Errors == {"none", "read_failed", "invalid_manifest", "read_timeout"}
Marks == {"unknown", "verified", "mismatch"}
Inventories == [card : Marks, matched : SUBSET DOMAIN Remote]
Credible(document) == document \in Docs /\ (document.valid => MovementStatus!validate_manifest(document))

\* What a file of the report, or a thread that reads or writes it, holds.
Saved(envelope) ==
  \/ envelope = MovementStatus!NoFile
  \/ /\ envelope \in [checked : 0 .. 2, doc : Docs, inventory : Inventories, error : Errors]
     /\ Credible(envelope.doc)

\* The clips that are counted are those of the document that is shown, on the
\* card that was verified.
Matches(document, inventory) ==
  inventory.matched # {} =>
    /\ document.valid /\ inventory.card = "verified"
    /\ \A n \in inventory.matched : n \in DOMAIN document.clips /\ document.clips[n].size = Remote[n].size

Memories == [doc : Docs, inventory : Inventories, error : Errors, checked : 0 .. 2,
             restored : BOOLEAN, loaded : BOOLEAN]

MemoryHolds ==
  /\ memory \in Memories /\ Credible(memory.doc)
  /\ live => memory.checked = 2 /\ ~memory.restored
  /\ ~memory.restored =>
       /\ memory.doc.valid => live
       /\ memory.error = "none" => Matches(memory.doc, memory.inventory)

Inspections == [pc : {"idle", "read", "validate", "card", "update", "persist"}, doc : Docs, error : Errors,
                card : Marks]

InspectHolds ==
  /\ inspect \in Inspections
  /\ inspect.pc = "read" => inspect.doc = MovementStatus!Nothing
  /\ inspect.pc \in {"card", "update"} => Credible(inspect.doc)

FilesHold == Saved(stored) /\ Saved(load.read) /\ Saved(persist.envelope)

Devices == [report : Reports, card : Cards]

MovementInv == MemoryHolds /\ InspectHolds /\ FilesHold /\ device \in Devices

\* The empty records.
LEMMA EmptyReport ==
  /\ Credible(MovementStatus!Nothing) /\ MovementStatus!Nothing \in Docs /\ ~MovementStatus!Nothing.valid
  /\ MovementStatus!NoInventory \in Inventories /\ MovementStatus!NoInventory.matched = {}
  /\ MovementStatus!Memory \in Memories /\ MovementStatus!Memory.doc = MovementStatus!Nothing
  /\ MovementStatus!Memory.inventory = MovementStatus!NoInventory
  /\ Saved(MovementStatus!NoFile)
<1>1. ~MovementStatus!Nothing.valid /\ MovementStatus!Nothing \in Docs
  BY DEF MovementStatus!Nothing, Docs
<1>2. MovementStatus!NoInventory \in Inventories /\ MovementStatus!NoInventory.matched = {}
  BY DEF MovementStatus!NoInventory, Inventories, Marks
<1>3. /\ MovementStatus!Memory \in Memories /\ MovementStatus!Memory.doc = MovementStatus!Nothing
      /\ MovementStatus!Memory.inventory = MovementStatus!NoInventory
  BY <1>1, <1>2 DEF MovementStatus!Memory, Memories, Errors
<1> QED
  BY <1>1, <1>2, <1>3 DEF Credible, Saved

\* A process that begins has observed nothing.
LEMMA MemoryBegins ==
  ASSUME NEW m, m = MovementStatus!Memory
  PROVE  m \in Memories /\ Credible(m.doc) /\ ~m.doc.valid /\ Matches(m.doc, m.inventory)
BY EmptyReport DEF Matches

LEMMA MovementInit ==
  ASSUME MovementStatus!Init
  PROVE  MovementInv
<1>1. /\ memory = MovementStatus!Memory /\ ~live /\ device \in Devices
      /\ load.read = MovementStatus!NoFile /\ persist.envelope = MovementStatus!NoFile
      /\ inspect = [pc |-> "idle", doc |-> MovementStatus!Nothing, error |-> "none", card |-> "unknown"]
  BY DEF MovementStatus!Init, Devices
<1>2. MemoryHolds
  BY <1>1, MemoryBegins DEF MemoryHolds
<1>3. InspectHolds
  BY <1>1, EmptyReport DEF InspectHolds, Inspections, Errors, Marks
<1>4. Saved(stored)
  <2>1. CASE stored = MovementStatus!NoFile
    BY <2>1 DEF Saved
  <2>2. ASSUME NEW r \in Reports, MovementStatus!validate_manifest(r),
               stored = [checked |-> 1, doc |-> r, inventory |-> MovementStatus!NoInventory, error |-> "none"]
        PROVE  Saved(stored)
    <3>1. r \in Docs /\ Credible(r)
      BY <2>2 DEF Docs, Credible
    <3> QED BY <2>2, <3>1, EmptyReport DEF Saved, Errors
  <2> QED BY <2>1, <2>2 DEF MovementStatus!Init
<1> QED
  BY <1>1, <1>2, <1>3, <1>4, EmptyReport DEF MovementInv, FilesHold

\* An observation of this process, of a document or of none, replaces what was
\* shown.
LEMMA ObservedHolds ==
  ASSUME MemoryHolds, live',
         NEW document, Credible(document), NEW inventory \in Inventories, NEW error \in Errors,
         document = MovementStatus!Nothing => inventory.matched = {},
         document # MovementStatus!Nothing => Matches(document, inventory),
         memory' = MovementStatus!Observed(memory, document, inventory, error)
  PROVE  MemoryHolds'
<1> DEFINE shown == IF document = MovementStatus!Nothing THEN memory.doc ELSE document
<1>1. shown \in Docs /\ Credible(shown) /\ Matches(shown, inventory)
  BY DEF MemoryHolds, Credible, Matches
<1>2. memory' = [memory EXCEPT !.loaded = TRUE, !.restored = FALSE, !.checked = 2, !.error = error,
                               !.inventory = inventory, !.doc = shown]
  BY DEF MovementStatus!Observed
<1> HIDE DEF shown
<1>3. /\ memory' \in Memories /\ memory'.doc = shown /\ memory'.inventory = inventory
      /\ memory'.checked = 2 /\ ~memory'.restored
  <2>1. memory \in Memories
    BY DEF MemoryHolds
  <2>2. memory' = [doc |-> shown, inventory |-> inventory, error |-> error, checked |-> 2,
                      restored |-> FALSE, loaded |-> TRUE]
    BY <1>2, <2>1 DEF Memories
  <2> QED BY <1>1, <2>2 DEF Memories
<1> QED
  BY <1>1, <1>3 DEF MemoryHolds

\* A file is published only where nothing was observed since the start, and as
\* a restored one.
LEMMA LoadedHolds ==
  ASSUME MemoryHolds, NEW envelope, Saved(envelope), envelope # MovementStatus!NoFile,
         memory' = MovementStatus!Loaded(memory, envelope), live' = live
  PROVE  MemoryHolds'
<1>1. CASE memory.checked # 0
  BY <1>1 DEF MemoryHolds, MovementStatus!Loaded
<1>2. CASE memory.checked = 0
  <2>1. ~live
    BY <1>2 DEF MemoryHolds
  <2>2. /\ envelope.checked \in 0 .. 2 /\ envelope.doc \in Docs /\ envelope.inventory \in Inventories
        /\ envelope.error \in Errors /\ Credible(envelope.doc)
    BY DEF Saved
  <2>3. memory' = [memory EXCEPT !.doc = envelope.doc, !.inventory = envelope.inventory,
                     !.error = envelope.error, !.checked = envelope.checked, !.restored = TRUE]
    BY <1>2 DEF MovementStatus!Loaded
  <2>4. memory' \in Memories /\ memory'.doc = envelope.doc /\ memory'.restored
    BY <2>2, <2>3 DEF MemoryHolds, Memories
  <2> QED BY <2>1, <2>2, <2>4 DEF MemoryHolds
<1> QED
  BY <1>1, <1>2

\* The steps of the process's memory and of its files.
LEMMA MemoryKeeps ==
  ASSUME MovementInv,
         \/ MovementStatus!BeginLoad \/ MovementStatus!load_once \/ MovementStatus!_persist
         \/ MovementStatus!update_memory \/ MovementStatus!TimedOut \/ MovementStatus!_persist_async
  PROVE  MovementInv'
<1>1. /\ MemoryHolds /\ InspectHolds /\ memory \in Memories /\ inspect \in Inspections
      /\ Saved(stored) /\ Saved(load.read) /\ Saved(persist.envelope) /\ device \in Devices
  BY DEF MovementInv, MemoryHolds, InspectHolds, FilesHold
<1>2. CASE MovementStatus!BeginLoad
  <2>1. /\ memory' = [memory EXCEPT !.loaded = TRUE] /\ load' = [pc |-> "read", read |-> stored]
        /\ UNCHANGED <<device, stored, persist, inspect, live>>
    BY <1>2 DEF MovementStatus!BeginLoad
  <2>2. /\ memory' \in Memories /\ memory'.doc = memory.doc /\ memory'.inventory = memory.inventory
        /\ memory'.error = memory.error /\ memory'.checked = memory.checked /\ memory'.restored = memory.restored
    BY <1>1, <2>1 DEF Memories
  <2>3. MemoryHolds'
    BY <1>1, <2>1, <2>2 DEF MemoryHolds
  <2>4. InspectHolds' /\ FilesHold'
    BY <1>1, <2>1 DEF InspectHolds, FilesHold
  <2> QED BY <1>1, <2>1, <2>3, <2>4 DEF MovementInv
<1>3. CASE MovementStatus!load_once
  <2>1. /\ \/ memory' = memory
           \/ load.read # MovementStatus!NoFile /\ memory' = MovementStatus!Loaded(memory, load.read)
        /\ load' = [pc |-> "done", read |-> MovementStatus!NoFile]
        /\ UNCHANGED <<device, stored, persist, inspect, live>>
    BY <1>3 DEF MovementStatus!load_once
  <2>2. MemoryHolds'
    <3>1. CASE memory' = memory
      BY <1>1, <2>1, <3>1 DEF MemoryHolds
    <3>2. CASE load.read # MovementStatus!NoFile /\ memory' = MovementStatus!Loaded(memory, load.read)
      BY <1>1, <2>1, <3>2, LoadedHolds
    <3> QED BY <2>1, <3>1, <3>2
  <2>3. InspectHolds' /\ FilesHold'
    BY <1>1, <2>1, EmptyReport DEF InspectHolds, FilesHold
  <2> QED BY <1>1, <2>1, <2>2, <2>3 DEF MovementInv
<1>4. CASE MovementStatus!_persist
  <2>1. /\ stored' \in {stored, persist.envelope} /\ persist' = [pc |-> "idle", envelope |-> MovementStatus!NoFile]
        /\ UNCHANGED <<device, memory, load, inspect, live>>
    BY <1>4 DEF MovementStatus!_persist
  <2> QED BY <1>1, <2>1, EmptyReport DEF MovementInv, MemoryHolds, InspectHolds, FilesHold
<1>5. CASE MovementStatus!update_memory
  <2> DEFINE found == MovementStatus!inventory_summary(inspect.doc, inspect.card)
  <2>1. /\ inspect.pc = "update" /\ live'
        /\ memory' = MovementStatus!Observed(memory, inspect.doc, found, inspect.error)
        /\ inspect' = [inspect EXCEPT !.pc = "persist", !.doc = MovementStatus!Nothing]
        /\ UNCHANGED <<device, stored, load, persist>>
    BY <1>5 DEF MovementStatus!update_memory
  <2>2. Credible(inspect.doc) /\ inspect.error \in Errors /\ inspect.card \in Marks
    BY <1>1, <2>1 DEF InspectHolds, Inspections, Errors, Marks
  <2>3. /\ found.matched \subseteq DOMAIN Remote /\ found.card = inspect.card /\ found \in Inventories
        /\ ~inspect.doc.valid => found.matched = {}
        /\ Matches(inspect.doc, found)
    BY <2>2 DEF MovementStatus!inventory_summary, Inventories, Matches
  <2> HIDE DEF found
  <2>4. inspect.doc = MovementStatus!Nothing => found.matched = {}
    BY <2>3, EmptyReport
  <2>5. MemoryHolds'
    BY <1>1, <2>1, <2>2, <2>3, <2>4, ObservedHolds
  <2>6. inspect' \in Inspections /\ inspect'.pc = "persist"
    BY <1>1, <2>1, EmptyReport DEF Inspections, Errors, Marks
  <2>7. InspectHolds' /\ FilesHold'
    BY <1>1, <2>1, <2>6 DEF InspectHolds, FilesHold
  <2> QED BY <1>1, <2>1, <2>5, <2>7 DEF MovementInv
<1>6. CASE MovementStatus!TimedOut
  <2>1. /\ live'
        /\ memory' = MovementStatus!Observed(memory, MovementStatus!Nothing, MovementStatus!NoInventory, "read_timeout")
        /\ inspect' = [inspect EXCEPT !.pc = "idle", !.doc = MovementStatus!Nothing, !.error = "none", !.card = "unknown"]
        /\ UNCHANGED <<device, stored, load, persist>>
    BY <1>6 DEF MovementStatus!TimedOut
  <2>2. MemoryHolds'
    <3>1. "read_timeout" \in Errors
      BY DEF Errors
    <3> QED BY <1>1, <2>1, <3>1, EmptyReport, ObservedHolds
  <2>3. inspect' \in Inspections /\ inspect'.pc = "idle"
    BY <1>1, <2>1, EmptyReport DEF Inspections, Errors, Marks
  <2>4. InspectHolds' /\ FilesHold'
    BY <1>1, <2>1, <2>3 DEF InspectHolds, FilesHold
  <2> QED BY <1>1, <2>1, <2>2, <2>4 DEF MovementInv
<1>7. CASE MovementStatus!_persist_async
  <2> DEFINE envelope == [checked |-> memory.checked, doc |-> memory.doc,
                          inventory |-> memory.inventory, error |-> memory.error]
  <2>1. /\ inspect' = [inspect EXCEPT !.pc = "idle", !.error = "none", !.card = "unknown"]
        /\ persist' = persist \/ persist' = [pc |-> "write", envelope |-> envelope]
        /\ UNCHANGED <<device, memory, stored, load, live>>
    BY <1>7 DEF MovementStatus!_persist_async
  <2>2. Saved(envelope)
    BY <1>1 DEF Saved, MemoryHolds, Memories
  <2> HIDE DEF envelope
  <2>3. Saved(persist'.envelope)
    BY <1>1, <2>1, <2>2
  <2>4. inspect' \in Inspections /\ inspect'.pc = "idle"
    BY <1>1, <2>1 DEF Inspections, Errors, Marks
  <2>5. MemoryHolds' /\ InspectHolds' /\ FilesHold'
    BY <1>1, <2>1, <2>3, <2>4 DEF MemoryHolds, InspectHolds, FilesHold
  <2> QED BY <1>1, <2>1, <2>5 DEF MovementInv
<1> QED
  BY <1>2, <1>3, <1>4, <1>5, <1>6, <1>7

\* The steps of an inspection, of the unit and of a restart.
LEMMA InspectKeeps ==
  ASSUME MovementInv,
         \/ MovementStatus!Rewrite \/ MovementStatus!inspect_before_plan \/ MovementStatus!read_remote_manifest
         \/ MovementStatus!Validated \/ MovementStatus!ValidatorEnds \/ MovementStatus!read_remote_card_id
         \/ MovementStatus!Restart \/ UNCHANGED movementVars
  PROVE  MovementInv'
<1>1. /\ MemoryHolds /\ InspectHolds /\ FilesHold /\ inspect \in Inspections /\ device \in Devices
  BY DEF MovementInv, InspectHolds
<1>2. ASSUME UNCHANGED <<memory, live, stored, load, persist>>, InspectHolds', device' \in Devices
      PROVE  MovementInv'
  BY <1>1, <1>2 DEF MovementInv, MemoryHolds, FilesHold
<1>3. CASE MovementStatus!Rewrite
  <2>1. /\ UNCHANGED <<memory, live, stored, load, persist, inspect>>
        /\ \/ \E r \in Reports : device' = [device EXCEPT !.report = r]
           \/ \E c \in Cards : device' = [device EXCEPT !.card = c]
    BY <1>3 DEF MovementStatus!Rewrite
  <2>2. device' \in Devices
    BY <1>1, <2>1 DEF Devices
  <2> QED BY <1>1, <1>2, <2>1, <2>2 DEF InspectHolds
<1>4. CASE MovementStatus!inspect_before_plan
  <2>1. /\ UNCHANGED <<memory, live, stored, load, persist, device>>
        /\ inspect' = [pc |-> "read", doc |-> MovementStatus!Nothing, error |-> "none", card |-> "unknown"]
    BY <1>4 DEF MovementStatus!inspect_before_plan
  <2>2. InspectHolds'
    BY <2>1, EmptyReport DEF InspectHolds, Inspections, Errors, Marks
  <2> QED BY <1>1, <1>2, <2>1, <2>2
<1>5. CASE MovementStatus!read_remote_manifest
  <2>1. /\ UNCHANGED <<memory, live, stored, load, persist, device>> /\ inspect.pc = "read"
        /\ \/ inspect' = [inspect EXCEPT !.pc = "validate", !.doc = device.report]
           \/ inspect' = [inspect EXCEPT !.pc = "update", !.error = "read_failed"]
    BY <1>5 DEF MovementStatus!read_remote_manifest
  <2>2. inspect.doc = MovementStatus!Nothing /\ device.report \in Docs
    BY <1>1, <2>1 DEF InspectHolds, Docs, Devices
  <2>3. InspectHolds'
    <3>1. CASE inspect' = [inspect EXCEPT !.pc = "validate", !.doc = device.report]
      <4>1. inspect' \in Inspections /\ inspect'.pc = "validate"
        BY <1>1, <2>2, <3>1 DEF Inspections, Errors, Marks
      <4> QED BY <4>1 DEF InspectHolds
    <3>2. CASE inspect' = [inspect EXCEPT !.pc = "update", !.error = "read_failed"]
      <4>1. inspect' \in Inspections /\ inspect'.pc = "update" /\ inspect'.doc = inspect.doc
        BY <1>1, <3>2 DEF Inspections, Errors, Marks
      <4> QED BY <2>2, <4>1, EmptyReport DEF InspectHolds
    <3> QED BY <2>1, <3>1, <3>2
  <2> QED BY <1>1, <1>2, <2>1, <2>3
<1>6. CASE MovementStatus!Validated
  <2>1. /\ UNCHANGED <<memory, live, stored, load, persist, device>>
        /\ \/ MovementStatus!validate_manifest(inspect.doc) /\ inspect' = [inspect EXCEPT !.pc = "card"]
           \/ inspect' = [inspect EXCEPT !.pc = "update", !.doc = MovementStatus!Nothing, !.error = "invalid_manifest"]
    BY <1>6 DEF MovementStatus!Validated
  <2>2. InspectHolds'
    <3>1. CASE MovementStatus!validate_manifest(inspect.doc) /\ inspect' = [inspect EXCEPT !.pc = "card"]
      <4>1. inspect' \in Inspections /\ inspect'.pc = "card" /\ inspect'.doc = inspect.doc /\ inspect.doc \in Docs
        BY <1>1, <3>1 DEF Inspections, Errors, Marks
      <4> QED BY <3>1, <4>1 DEF InspectHolds, Credible
    <3>2. CASE inspect' = [inspect EXCEPT !.pc = "update", !.doc = MovementStatus!Nothing, !.error = "invalid_manifest"]
      <4>1. inspect' \in Inspections /\ inspect'.pc = "update" /\ inspect'.doc = MovementStatus!Nothing
        BY <1>1, <3>2, EmptyReport DEF Inspections, Errors, Marks
      <4> QED BY <4>1, EmptyReport DEF InspectHolds
    <3> QED BY <2>1, <3>1, <3>2
  <2> QED BY <1>1, <1>2, <2>1, <2>2
<1>7. CASE MovementStatus!read_remote_card_id
  <2>1. PICK card \in Marks :
          inspect' = [inspect EXCEPT !.pc = "update", !.card = card]
    BY <1>7 DEF MovementStatus!read_remote_card_id, Marks
  <2>2. UNCHANGED <<memory, live, stored, load, persist, device>> /\ inspect.pc = "card"
    BY <1>7 DEF MovementStatus!read_remote_card_id
  <2>3. inspect' \in Inspections /\ inspect'.pc = "update" /\ inspect'.doc = inspect.doc
    BY <1>1, <2>1 DEF Inspections, Errors, Marks
  <2>4. InspectHolds'
    BY <1>1, <2>2, <2>3 DEF InspectHolds
  <2> QED BY <1>1, <1>2, <2>2, <2>4
<1>8. CASE MovementStatus!ValidatorEnds \/ UNCHANGED movementVars
  <2>1. UNCHANGED <<memory, live, stored, load, persist, device, inspect>>
    BY <1>8 DEF MovementStatus!ValidatorEnds, movementVars
  <2> QED BY <1>1, <1>2, <2>1 DEF InspectHolds
<1>9. CASE MovementStatus!Restart
  <2>1. /\ memory' = MovementStatus!Memory /\ ~live' /\ UNCHANGED <<device, stored>>
        /\ load' = [pc |-> "idle", read |-> MovementStatus!NoFile]
        /\ persist' = [pc |-> "idle", envelope |-> MovementStatus!NoFile]
        /\ inspect' = [pc |-> "idle", doc |-> MovementStatus!Nothing, error |-> "none", card |-> "unknown"]
    BY <1>9 DEF MovementStatus!Restart
  <2>2. MemoryHolds'
    BY <2>1, MemoryBegins DEF MemoryHolds
  <2>3. InspectHolds' /\ FilesHold'
    BY <1>1, <2>1, EmptyReport DEF InspectHolds, Inspections, Errors, Marks, FilesHold
  <2> QED BY <1>1, <2>1, <2>2, <2>3 DEF MovementInv
<1> QED
  BY <1>3, <1>4, <1>5, <1>6, <1>7, <1>8, <1>9

LEMMA MovementKeeps ==
  ASSUME MovementInv, MovementStatus!Next \/ UNCHANGED movementVars
  PROVE  MovementInv'
BY MemoryKeeps, InspectKeeps DEF MovementStatus!Next

\* A claim that the car stood is carried only by evidence without movement.
LEMMA StoodStill ==
  ASSUME NEW c, c.moving \in Nat, c.gpsmoving \in Nat, c.top \in Nat, MovementStatus!_validate_clip(c),
         MovementStatus!_effective_class(c) \in {"sampled_stationary", "acc_off_candidate"}
  PROVE  c.moving = 0 /\ c.gpsmoving = 0 /\ c.top = 0 /\ c.path # "pre"
<1>1. ~MovementStatus!Contradicted(c) /\ c.claim \in {"sampled_stationary", "acc_off_candidate"}
  BY DEF MovementStatus!_effective_class
<1>2. ~(c.moving > 0) /\ ~(c.gpsmoving > 0) /\ ~(c.top > 0)
  BY <1>1 DEF MovementStatus!Contradicted
<1>3. c.path # "pre"
  BY <1>1 DEF MovementStatus!_validate_clip
<1> QED
  BY <1>2, <1>3

LEMMA MovementPromised ==
  ASSUME MovementInv
  PROVE  MovementStatus!TypeOK /\ MovementStatus!ReadyIsLive /\ MovementStatus!MovementNeverParks
<1>1. memory \in Memories /\ Credible(memory.doc) /\ memory.inventory \in Inventories /\ memory.checked \in 0 .. 2
  BY DEF MovementInv, MemoryHolds, Memories
<1>2. MovementStatus!TypeOK
  BY <1>1 DEF MovementStatus!TypeOK, Credible, Inventories
<1>3. MovementStatus!ReadyIsLive
  <2>1. MovementStatus!snapshot.state = "ready" => memory.doc.valid /\ ~memory.restored
    BY DEF MovementStatus!snapshot
  <2> QED BY <2>1 DEF MovementStatus!ReadyIsLive, MovementInv, MemoryHolds
<1>4. MovementStatus!MovementNeverParks
  <2> SUFFICES ASSUME MovementStatus!snapshot.classes # {}, NEW n \in memory.inventory.matched,
                      MovementStatus!_effective_class(memory.doc.clips[n]) \in {"sampled_stationary", "acc_off_candidate"}
               PROVE  /\ memory.doc.clips[n].moving = 0 /\ memory.doc.clips[n].gpsmoving = 0
                      /\ memory.doc.clips[n].top = 0 /\ memory.doc.clips[n].path # "pre"
                      /\ memory.inventory.card = "verified" /\ memory.doc.clips[n].size = Remote[n].size
    BY DEF MovementStatus!MovementNeverParks
  <2>1. ~memory.restored /\ memory.error = "none"
    BY DEF MovementStatus!snapshot
  <2>2. Matches(memory.doc, memory.inventory)
    BY <2>1 DEF MovementInv, MemoryHolds
  <2>3. /\ memory.doc.valid /\ memory.inventory.card = "verified"
        /\ n \in DOMAIN memory.doc.clips /\ memory.doc.clips[n].size = Remote[n].size
    BY <2>2 DEF Matches
  <2>4. memory.doc \in Reports /\ MovementStatus!validate_manifest(memory.doc)
    BY <1>1, <2>3, EmptyReport DEF Credible, Docs
  <2>5. MovementStatus!_validate_clip(memory.doc.clips[n])
    BY <2>3, <2>4 DEF MovementStatus!validate_manifest
  <2>6. memory.doc.clips[n].moving \in Nat /\ memory.doc.clips[n].gpsmoving \in Nat /\ memory.doc.clips[n].top \in Nat
    BY <2>3, <2>4, UnitAssumption DEF UnitAssumption
  <2> QED BY <2>3, <2>5, <2>6, StoodStill
<1> QED
  BY <1>2, <1>3, <1>4

-----------------------------------------------------------------------------
(* The unit's log.                                                          *)

Set == Policies \ {"absent"}
Levels == OwnLevels \cup Set
Receipts == {UnitLogs!None} \cup [original : OwnLevels, previous : Levels, target : Levels]

\* A level of others in a receipt is the one they gave the tag.
Faithful(rec) ==
  /\ rec \in Receipts
  /\ rec # UnitLogs!None =>
       /\ rec.previous \in OwnLevels => rec.original = rec.previous
       /\ rec.target \in OwnLevels => rec.original = rec.target

LinesHeld ==
  /\ lines \in Nat /\ capture \in [running : BOOLEAN, file : SUBSET (1 .. lines)]
  /\ imported \in SUBSET (1 .. lines)
  /\ job \in [pc : {"none", "read", "store", "receipt", "apply", "launch"}, arrival : {job.arrival},
              got : SUBSET (1 .. lines), shell : Shells \cup {0}]
  /\ imported \cup capture.file = 1 .. lines

\* A capture that will be deleted is stopped, and was read, then imported.
CaptureKept ==
  /\ job.pc = "store" /\ job.arrival => ~capture.running /\ capture.file \subseteq job.got
  /\ job.pc \in {"receipt", "apply", "launch"} => ~capture.running /\ capture.file \subseteq imported

Commands == [pc : {"none", "dead", "done", "start", "plan", "pend", "set", "final"}, same : BOOLEAN,
             prior : Receipts, want : Policies \cup {"absent"}, plan : Receipts, keep : BOOLEAN]

LevelTypes ==
  /\ level \in Levels /\ own \in OwnLevels /\ policy \in Policies /\ Faithful(marker)
  /\ shell \in [Shells -> Commands]

\* The level others gave the tag is o, by the receipt and the tag's level.
Explained(rec, l, o) ==
  IF rec # UnitLogs!None
  THEN IF l \in {rec.previous, rec.target} THEN rec.original = o ELSE l = o
  ELSE IF Legacy /\ l = "E" THEN o = "-" ELSE l = o

\* A command that holds the lock does so alone.
LockHeld == \A p, q \in UnitLogs!Holding : p = q

\* What a command goes by: the receipt it was made for, until that is replaced;
\* then a plan that explains the level, is in the receipt, and is carried out.
CommandFits(p) ==
  /\ (shell[p].pc = "start" /\ shell[p].same) \/ shell[p].pc = "plan" => shell[p].prior = marker
  /\ shell[p].pc \in {"pend", "set", "final"} =>
       /\ Faithful(shell[p].plan) /\ Explained(shell[p].plan, level, own)
       /\ shell[p].plan = UnitLogs!None => level = own
       /\ shell[p].plan # UnitLogs!None =>
            IF shell[p].keep THEN shell[p].plan.target \notin OwnLevels
            ELSE shell[p].plan.target = shell[p].plan.original
  /\ shell[p].pc \in {"set", "final"} => marker = shell[p].plan
  /\ shell[p].pc = "final" /\ shell[p].plan # UnitLogs!None => level \in {shell[p].plan.target, own}

LevelKnown == Explained(marker, level, own) /\ \A p \in Shells : CommandFits(p)

LogsInv == LinesHeld /\ CaptureKept /\ LevelTypes /\ LockHeld /\ LevelKnown

LEMMA LogConstants ==
  /\ MaxLine \in Nat /\ "-" \in OwnLevels /\ "none" \notin OwnLevels
  /\ \A l \in OwnLevels : l \notin Set
  /\ Legacy => "E" \notin OwnLevels /\ "E" \in Set
<1>1. "E" # "absent"
  OBVIOUS
<1> QED
  BY <1>1, UnitAssumption DEF UnitAssumption, Set

\* A receipt that was written is no empty one.
LEMMA ReceiptKinds ==
  ASSUME NEW original \in OwnLevels, NEW previous \in Levels, NEW target \in Levels
  PROVE  LET rec == [original |-> original, previous |-> previous, target |-> target] IN
         rec \in Receipts /\ rec # UnitLogs!None
<1> DEFINE rec == [original |-> original, previous |-> previous, target |-> target]
<1>1. rec.original = original /\ UnitLogs!None.original = "none"
  BY DEF UnitLogs!None
<1>2. rec \in Receipts
  BY DEF Receipts
<1> QED
  BY <1>1, <1>2, LogConstants

\* A level that others gave the tag is explained by every receipt.
LEMMA OwnIsExplained ==
  ASSUME NEW rec, Faithful(rec), NEW l \in OwnLevels
  PROVE  Explained(rec, l, l)
BY LogConstants DEF Explained, Faithful

\* What a command takes for the original is what others gave the tag.
LEMMA OriginalIs ==
  ASSUME NEW rec
  PROVE  (UnitLogs!Original(rec) = own) <=> Explained(rec, level, own)
BY DEF Explained, UnitLogs!Original, UnitLogs!Ours

LEMMA LogRecords ==
  /\ UnitLogs!NoJob = [pc |-> "none", arrival |-> FALSE, got |-> {}, shell |-> 0]
  /\ UnitLogs!NoShell \in Commands /\ UnitLogs!NoShell.pc = "none" /\ Faithful(UnitLogs!None)
<1>1. UnitLogs!None \in Receipts /\ Faithful(UnitLogs!None)
  BY DEF Receipts, Faithful
<1> QED
  BY <1>1 DEF UnitLogs!NoJob, UnitLogs!NoShell, Commands

LEMMA LogsInit ==
  ASSUME UnitLogs!Init
  PROVE  LogsInv
<1>1. /\ own \in OwnLevels /\ (level = own \/ (Legacy /\ own = "-" /\ level = "E"))
      /\ marker = UnitLogs!None /\ shell = [p \in Shells |-> UnitLogs!NoShell]
      /\ capture = [running |-> FALSE, file |-> {}] /\ policy \in Policies /\ job = UnitLogs!NoJob
      /\ imported = {} /\ lines = 0
  BY DEF UnitLogs!Init
<1>2. LinesHeld /\ CaptureKept
  <2>1. 1 .. 0 = {} /\ 0 \in Nat
    OBVIOUS
  <2> QED BY <1>1, <2>1, LogRecords DEF LinesHeld, CaptureKept
<1>3. LevelTypes
  <2>1. level \in Levels
    BY <1>1, LogConstants DEF Levels
  <2> QED BY <1>1, <2>1, LogRecords DEF LevelTypes
<1>4. \A p \in Shells : shell[p].pc = "none"
  BY <1>1, LogRecords
<1>5. LockHeld
  BY <1>4 DEF LockHeld, UnitLogs!Holding
<1>6. LevelKnown
  <2>1. Explained(marker, level, own)
    BY <1>1, LogConstants DEF Explained
  <2> QED BY <1>4, <2>1 DEF LevelKnown, CommandFits
<1> QED
  BY <1>2, <1>3, <1>5, <1>6 DEF LogsInv

\* The task ends, or one is started.
JobRestarts == job' = UnitLogs!NoJob \/ \E arrival : job' = UnitLogs!Begun(arrival)

\* The task and the capture: the lines.
LEMMA LogsLines ==
  ASSUME LinesHeld, CaptureKept, UnitLogs!Next \/ UNCHANGED logsVars
  PROVE  LinesHeld' /\ CaptureKept'
<1>1. /\ lines \in Nat /\ capture \in [running : BOOLEAN, file : SUBSET (1 .. lines)]
      /\ imported \in SUBSET (1 .. lines) /\ imported \cup capture.file = 1 .. lines
      /\ job \in [pc : {"none", "read", "store", "receipt", "apply", "launch"}, arrival : {job.arrival},
                  got : SUBSET (1 .. lines), shell : Shells \cup {0}]
  BY DEF LinesHeld
\* A job that begins or ends holds no lines.
<1>2. ASSUME JobRestarts
      PROVE  /\ job' \in [pc : {"none", "read", "store", "receipt", "apply", "launch"}, arrival : {job'.arrival},
                          got : SUBSET (1 .. lines), shell : Shells \cup {0}]
             /\ job'.pc \in {"none", "read"}
  <2>1. \E c : job' \in {[pc |-> "none", arrival |-> c, got |-> {}, shell |-> 0],
                       [pc |-> "read", arrival |-> c, got |-> {}, shell |-> 0]}
    BY <1>2, LogRecords DEF JobRestarts, UnitLogs!Begun
  <2> QED BY <2>1
<1>3. ASSUME NEW armed, UnitLogs!_task_finished(armed)
      PROVE  JobRestarts
  BY <1>3 DEF UnitLogs!_task_finished, JobRestarts
<1>4. ASSUME job' = job \/ JobRestarts,
             UNCHANGED <<lines, imported>>, capture'.file = capture.file,
             capture' \in [running : BOOLEAN, file : SUBSET (1 .. lines)], capture'.running => capture.running
      PROVE  LinesHeld' /\ CaptureKept'
  <2>1. LinesHeld'
    BY <1>1, <1>2, <1>4 DEF LinesHeld
  <2>2. CaptureKept'
    BY <1>2, <1>4 DEF CaptureKept
  <2> QED BY <2>1, <2>2
<1>5. CASE \/ \E p \in Shells : UnitLogs!Shelling(p) \/ UnitLogs!Cut(p)
           \/ \E l \in OwnLevels : UnitLogs!Foreign(l)
           \/ \E p \in Policies : UnitLogs!SetPolicy(p)
           \/ UnitLogs!Due \/ UnitLogs!Leave \/ UnitLogs!Arrive \/ UNCHANGED logsVars
  <2>1. UNCHANGED <<job, lines, imported, capture>>
    BY <1>5 DEF UnitLogs!Shelling, UnitLogs!Guard, UnitLogs!Plan, UnitLogs!Pend, UnitLogs!SetLevel, UnitLogs!Final,
                UnitLogs!Cut, UnitLogs!Foreign, UnitLogs!SetPolicy, UnitLogs!Due, UnitLogs!Leave, UnitLogs!Arrive, logsVars
  <2> QED BY <1>1, <1>4, <2>1
<1>6. CASE UnitLogs!on_unit_seen \/ UnitLogs!on_unit_present \/ UnitLogs!shutdown \/ UnitLogs!Unreachable
  <2>1. UNCHANGED <<lines, imported, capture>>
    BY <1>6 DEF UnitLogs!on_unit_seen, UnitLogs!on_unit_present, UnitLogs!shutdown, UnitLogs!Unreachable
  <2>2. job' = job \/ JobRestarts
    <3>1. CASE UnitLogs!Unreachable
      BY <1>3, <3>1 DEF UnitLogs!Unreachable
    <3>2. CASE UnitLogs!on_unit_seen
      BY <3>2 DEF UnitLogs!on_unit_seen, JobRestarts
    <3>3. CASE UnitLogs!shutdown
      BY <3>3 DEF UnitLogs!shutdown, JobRestarts
    <3>4. CASE UnitLogs!on_unit_present
      BY <3>4 DEF UnitLogs!on_unit_present, JobRestarts
    <3> QED BY <1>6, <3>1, <3>2, <3>3, <3>4
  <2> QED BY <1>1, <1>4, <2>1, <2>2
<1>7. CASE UnitLogs!Reboot \/ UnitLogs!_read_capture
  <2>1. UNCHANGED <<lines, imported>> /\ capture'.file = capture.file
        /\ capture' \in [running : BOOLEAN, file : SUBSET (1 .. lines)] /\ (capture'.running => capture.running)
    <3>1. CASE UnitLogs!Reboot
      BY <1>1, <3>1 DEF UnitLogs!Reboot
    <3>2. CASE UnitLogs!_read_capture
      BY <1>1, <3>2 DEF UnitLogs!_read_capture
    <3> QED BY <1>7, <3>1, <3>2
  <2>2. CASE job' = job \/ JobRestarts
    BY <1>4, <2>1, <2>2
  <2>3. CASE UnitLogs!_read_capture /\ job' = [job EXCEPT !.pc = "store", !.got = capture.file]
    <3>1. /\ job' \in [pc : {"store"}, arrival : {job'.arrival}, got : SUBSET (1 .. lines), shell : Shells \cup {0}]
          /\ job'.got = capture.file /\ job'.arrival = job.arrival /\ job'.pc = "store"
      BY <1>1, <2>3
    <3>2. capture'.running => ~job.arrival
      BY <1>1, <2>3 DEF UnitLogs!_read_capture
    <3>3. LinesHeld'
      BY <1>1, <2>1, <3>1 DEF LinesHeld
    <3>4. CaptureKept'
      BY <2>1, <3>1, <3>2 DEF CaptureKept
    <3> QED BY <3>3, <3>4
  <2>4. job' = job \/ JobRestarts \/ job' = [job EXCEPT !.pc = "store", !.got = capture.file]
    <3>1. CASE UnitLogs!Reboot
      BY <3>1 DEF UnitLogs!Reboot
    <3>2. CASE UnitLogs!_read_capture
      BY <1>3, <3>2 DEF UnitLogs!_read_capture, UnitLogs!Unread
    <3> QED BY <1>7, <3>1, <3>2
  <2>5. UnitLogs!Reboot => job' = job
    BY DEF UnitLogs!Reboot
  <2> QED BY <1>7, <2>2, <2>3, <2>4, <2>5
<1>8. CASE UnitLogs!store
  <2>1. UNCHANGED <<lines, capture>> /\ job.pc = "store"
    BY <1>8 DEF UnitLogs!store
  <2>2. CASE imported' = imported /\ JobRestarts
    BY <1>1, <1>4, <2>1, <2>2
  <2>3. CASE imported' = imported \cup job.got /\ JobRestarts
    <3>1. LinesHeld'
      BY <1>1, <1>2, <2>1, <2>3 DEF LinesHeld
    <3>2. CaptureKept'
      BY <1>2, <2>3 DEF CaptureKept
    <3> QED BY <3>1, <3>2
  <2>4. CASE imported' = imported \cup job.got /\ job.arrival /\ job' = [job EXCEPT !.pc = "receipt", !.got = {}]
    <3>1. /\ job' \in [pc : {"receipt"}, arrival : {job'.arrival}, got : SUBSET (1 .. lines), shell : Shells \cup {0}]
          /\ job'.pc = "receipt"
      BY <1>1, <2>4
    <3>2. LinesHeld'
      BY <1>1, <2>1, <2>4, <3>1 DEF LinesHeld
    <3>3. CaptureKept'
      BY <2>1, <2>4, <3>1 DEF CaptureKept
    <3> QED BY <3>2, <3>3
  <2> QED BY <1>3, <1>8, <2>2, <2>3, <2>4 DEF UnitLogs!store
<1>9. CASE UnitLogs!ensure_logging \/ UnitLogs!Applied
  <2>1. UNCHANGED <<lines, capture, imported>>
    BY <1>9 DEF UnitLogs!ensure_logging, UnitLogs!Applied
  <2>2. CASE JobRestarts
    BY <1>1, <1>4, <2>1, <2>2
  <2>3. ASSUME NEW pc \in {"apply", "launch"}, NEW p \in Shells \cup {0},
               job' = [job EXCEPT !.pc = pc, !.shell = p], job.pc \in {"receipt", "apply"}
        PROVE  LinesHeld' /\ CaptureKept'
    <3>1. /\ job' \in [pc : {"apply", "launch"}, arrival : {job'.arrival}, got : SUBSET (1 .. lines), shell : Shells \cup {0}]
          /\ job'.pc = pc
      BY <1>1, <2>3
    <3>2. LinesHeld'
      BY <1>1, <2>1, <3>1 DEF LinesHeld
    <3>3. CaptureKept'
      BY <2>1, <2>3, <3>1 DEF CaptureKept
    <3> QED BY <3>2, <3>3
  <2>4. CASE UnitLogs!ensure_logging
    <3>1. PICK p \in Shells : job' = [job EXCEPT !.pc = "apply", !.shell = p]
      BY <2>4 DEF UnitLogs!ensure_logging, UnitLogs!Free
    <3>2. job.pc = "receipt"
      BY <2>4 DEF UnitLogs!ensure_logging
    <3> QED BY <2>3, <3>1, <3>2
  <2>5. CASE UnitLogs!Applied
    <3>1. job.pc = "apply" /\ (JobRestarts \/ job' = [job EXCEPT !.pc = "launch"])
      BY <1>3, <2>5 DEF UnitLogs!Applied
    <3>2. [job EXCEPT !.pc = "launch"] = [job EXCEPT !.pc = "launch", !.shell = job.shell]
      BY <1>1
    <3> QED BY <1>1, <2>2, <2>3, <3>1, <3>2
  <2> QED BY <1>9, <2>4, <2>5
<1>10. CASE UnitLogs!arm
  <2>1. /\ UNCHANGED <<lines, imported>> /\ capture' = [running |-> TRUE, file |-> {}]
        /\ job.pc = "launch" /\ JobRestarts
    BY <1>3, <1>10 DEF UnitLogs!arm
  <2>2. imported = 1 .. lines
    BY <1>1, <2>1 DEF CaptureKept
  <2>3. LinesHeld'
    BY <1>1, <1>2, <2>1, <2>2 DEF LinesHeld
  <2>4. CaptureKept'
    BY <1>2, <2>1 DEF CaptureKept
  <2> QED BY <2>3, <2>4
<1>11. CASE UnitLogs!Line
  <2>1. /\ capture.running /\ lines' = lines + 1 /\ capture' = [capture EXCEPT !.file = @ \cup {lines + 1}]
        /\ UNCHANGED <<job, imported>>
    BY <1>11 DEF UnitLogs!Line
  <2>2. lines' \in Nat /\ 1 .. lines' = (1 .. lines) \cup {lines + 1}
    BY <1>1, <2>1
  <2>3. capture'.running = capture.running /\ capture'.file = capture.file \cup {lines + 1}
        /\ capture' \in [running : BOOLEAN, file : SUBSET (1 .. lines')]
    BY <1>1, <2>1, <2>2
  <2>4. job \in [pc : {"none", "read", "store", "receipt", "apply", "launch"}, arrival : {job.arrival},
                 got : SUBSET (1 .. lines'), shell : Shells \cup {0}]
    BY <1>1, <2>2
  <2>5. LinesHeld'
    BY <1>1, <2>1, <2>2, <2>3, <2>4 DEF LinesHeld
  <2>6. CaptureKept'
    BY <2>1, <2>3 DEF CaptureKept
  <2> QED BY <2>5, <2>6
<1> QED
  BY <1>5, <1>6, <1>7, <1>8, <1>9, <1>10, <1>11 DEF UnitLogs!Next, UnitLogs!Working

-----------------------------------------------------------------------------
(* The level command.                                                       *)

Locked == {"plan", "pend", "set", "final"}

\* A step of command p that leaves the level and the receipt alone, and the
\* other commands.
LEMMA OneCommand ==
  ASSUME LevelTypes, LockHeld, LevelKnown, NEW p \in Shells, NEW c \in Commands,
         shell' = [shell EXCEPT ![p] = c], UNCHANGED <<own, marker>>, policy' = policy,
         level' \in Levels, level' = level \/ shell[p].pc \in Locked,
         Explained(marker, level', own),
         c.pc \in Locked => (shell[p].pc \in Locked \/ UnitLogs!Holding = {}),
         CommandFits(p)'
  PROVE  LevelTypes' /\ LockHeld' /\ LevelKnown'
<1>1. /\ shell \in [Shells -> Commands] /\ shell' \in [Shells -> Commands]
      /\ shell'[p] = c /\ \A q \in Shells \ {p} : shell'[q] = shell[q]
  BY DEF LevelTypes
<1>2. LevelTypes'
  BY <1>1 DEF LevelTypes
<1>3. UnitLogs!Holding' \subseteq UnitLogs!Holding \cup {p} /\ (c.pc \notin Locked => UnitLogs!Holding' \subseteq UnitLogs!Holding)
      /\ (shell[p].pc \in Locked => p \in UnitLogs!Holding)
  BY <1>1 DEF UnitLogs!Holding, Locked
<1>4. LockHeld'
  BY <1>3 DEF LockHeld
<1>5. ASSUME NEW q \in Shells \ {p} PROVE CommandFits(q)'
  <2>1. CommandFits(q) /\ shell'[q] = shell[q]
    BY <1>1 DEF LevelKnown
  <2>2. CASE level' = level
    BY <2>1, <2>2 DEF CommandFits
  <2>3. CASE shell[p].pc \in Locked
    <3>1. shell[q].pc \notin Locked
      BY <2>3 DEF LockHeld, UnitLogs!Holding, Locked
    <3> QED BY <2>1, <3>1 DEF CommandFits, Locked
  <2> QED BY <2>2, <2>3
<1> QED
  BY <1>2, <1>4, <1>5 DEF LevelKnown

\* A step of a command that holds the lock and replaces the receipt.
LEMMA ReceiptStep ==
  ASSUME LevelTypes, LockHeld, LevelKnown, NEW p \in Shells, shell[p].pc \in Locked, NEW c \in Commands,
         shell' = [q \in Shells |-> IF q = p THEN c ELSE [shell[q] EXCEPT !.same = FALSE]],
         Faithful(marker'), UNCHANGED <<level, own, policy>>,
         Explained(marker', level, own), CommandFits(p)'
  PROVE  LevelTypes' /\ LockHeld' /\ LevelKnown'
<1>1. /\ shell' \in [Shells -> Commands] /\ shell'[p] = c
      /\ \A q \in Shells \ {p} : shell'[q].pc = shell[q].pc /\ ~shell'[q].same
  BY DEF LevelTypes, Commands
<1>2. LevelTypes'
  BY <1>1 DEF LevelTypes
<1>3. UnitLogs!Holding' \subseteq UnitLogs!Holding
  BY <1>1 DEF UnitLogs!Holding, Locked
<1>4. LockHeld'
  BY <1>3 DEF LockHeld
<1>5. ASSUME NEW q \in Shells \ {p} PROVE CommandFits(q)'
  <2>1. shell[q].pc \notin Locked
    BY DEF LockHeld, UnitLogs!Holding, Locked
  <2> QED BY <1>1, <2>1 DEF CommandFits, Locked
<1> QED
  BY <1>2, <1>4, <1>5 DEF LevelKnown

\* Nothing of the level changes.
LEMMA LevelRests ==
  ASSUME LevelTypes, LockHeld, LevelKnown, UNCHANGED <<level, own, marker, shell>>, policy' \in Policies
  PROVE  LevelTypes' /\ LockHeld' /\ LevelKnown'
<1>1. LevelTypes'
  BY DEF LevelTypes
<1>2. LockHeld'
  BY DEF LockHeld, UnitLogs!Holding
<1>3. ASSUME NEW p \in Shells PROVE CommandFits(p)'
  BY DEF LevelKnown, CommandFits
<1> QED
  BY <1>1, <1>2, <1>3 DEF LevelKnown

\* A command that ends wherever it is.
LEMMA DieKeeps ==
  ASSUME LevelTypes, LockHeld, LevelKnown, NEW p \in Shells, UnitLogs!Die(p), UNCHANGED <<level, own, marker, policy>>
  PROVE  LevelTypes' /\ LockHeld' /\ LevelKnown'
<1> DEFINE c == [UnitLogs!NoShell EXCEPT !.pc = "dead"]
<1>1. c \in Commands /\ c.pc = "dead" /\ shell' = [shell EXCEPT ![p] = c]
  BY LogRecords DEF UnitLogs!Die, Commands
<1> HIDE DEF c
<1>2. shell'[p] = c
  BY <1>1 DEF LevelTypes
<1>3. CommandFits(p)'
  BY <1>1, <1>2 DEF CommandFits
<1>4. level' \in Levels /\ Explained(marker, level', own)
  BY DEF LevelTypes, LevelKnown
<1> QED
  BY <1>1, <1>3, <1>4, OneCommand DEF Locked

LEMMA GuardKeeps ==
  ASSUME LevelTypes, LockHeld, LevelKnown, NEW p \in Shells, UnitLogs!Guard(p)
  PROVE  LevelTypes' /\ LockHeld' /\ LevelKnown'
<1>1. CASE UnitLogs!Holding = {} /\ shell[p].same /\ shell' = [shell EXCEPT ![p].pc = "plan"]
  <2> DEFINE c == [shell[p] EXCEPT !.pc = "plan"]
  <2>1. /\ shell[p] \in Commands /\ shell' = [shell EXCEPT ![p] = c] /\ shell[p].pc = "start"
        /\ UNCHANGED <<level, own, marker, policy>>
    BY <1>1 DEF LevelTypes, UnitLogs!Guard
  <2>2. c \in Commands /\ c.pc = "plan" /\ c.prior = shell[p].prior
    BY <2>1 DEF Commands
  <2> HIDE DEF c
  <2>3. shell'[p] = c
    BY <2>1 DEF LevelTypes
  <2>4. shell[p].prior = marker
    BY <1>1, <2>1 DEF LevelKnown, CommandFits
  <2>5. CommandFits(p)'
    BY <2>1, <2>2, <2>3, <2>4 DEF CommandFits
  <2>6. level' \in Levels /\ Explained(marker, level', own)
    BY <2>1 DEF LevelTypes, LevelKnown
  <2> QED BY <1>1, <2>1, <2>2, <2>5, <2>6, OneCommand
<1>2. CASE UnitLogs!Die(p)
  BY <1>2, DieKeeps DEF UnitLogs!Guard
<1> QED
  BY <1>1, <1>2 DEF UnitLogs!Guard, UnitLogs!SameReceipt

\* A plan takes the level others gave the tag for the original.
LEMMA PlanKeeps ==
  ASSUME LevelTypes, LockHeld, LevelKnown, NEW p \in Shells, UnitLogs!Plan(p)
  PROVE  LevelTypes' /\ LockHeld' /\ LevelKnown'
<1> DEFINE absent == shell[p].want = "absent"
           plan == [original |-> own, previous |-> level, target |-> IF absent THEN own ELSE shell[p].want]
           none == absent /\ ~UnitLogs!Ours(marker)
           c == [UnitLogs!NoShell EXCEPT !.pc = "pend", !.keep = ~absent,
                                         !.plan = IF none THEN UnitLogs!None ELSE plan]
<1>1. shell[p].pc = "plan" /\ shell[p] \in Commands /\ shell[p].prior = marker /\ Explained(marker, level, own)
      /\ own \in OwnLevels /\ level \in Levels
  BY DEF UnitLogs!Plan, LevelTypes, LevelKnown, CommandFits
<1>2. UnitLogs!Original(marker) = own
  BY <1>1, OriginalIs
<1>3. shell' = [shell EXCEPT ![p] = c] /\ UNCHANGED <<level, own, marker, policy>>
  BY <1>1, <1>2 DEF UnitLogs!Plan
<1>4. /\ plan.target \in Levels /\ plan \in Receipts /\ plan # UnitLogs!None
      /\ ~absent => plan.target \in Set
      /\ absent => plan.target = own
  <2>1. plan.target = IF absent THEN own ELSE shell[p].want
    OBVIOUS
  <2>2. ~absent => shell[p].want \in Set
    BY <1>1 DEF Commands, Set
  <2>3. plan.target \in Levels
    BY <1>1, <2>1, <2>2 DEF Levels
  <2> QED BY <1>1, <2>1, <2>2, <2>3, ReceiptKinds
<1>5. plan.original = own /\ plan.previous = level
  OBVIOUS
<1>6. level \in OwnLevels => level = own
  <2>1. Faithful(marker)
    BY DEF LevelTypes
  <2> QED BY <1>1, <2>1, LogConstants DEF Explained, Faithful
<1> HIDE DEF plan
<1>7. Faithful(plan) /\ Explained(plan, level, own)
  BY <1>1, <1>4, <1>5, <1>6, LogConstants DEF Faithful, Explained
<1>8. none => level = own
  <2>1. ~UnitLogs!Ours(marker) => UnitLogs!Original(marker) = level
    BY DEF UnitLogs!Original
  <2> QED BY <1>2, <2>1
<1>9. UnitLogs!None \in Receipts /\ Faithful(UnitLogs!None) /\ (level = own => Explained(UnitLogs!None, level, own))
  BY <1>1, LogRecords, OwnIsExplained DEF Receipts
<1> HIDE DEF none, absent
<1>10. c \in Commands /\ c.pc = "pend" /\ (c.keep <=> ~absent) /\ c.plan = IF none THEN UnitLogs!None ELSE plan
  <2>1. (~absent) \in BOOLEAN /\ (IF none THEN UnitLogs!None ELSE plan) \in Receipts
    BY <1>4, <1>9
  <2> QED BY <2>1, LogRecords DEF Commands
<1> HIDE DEF c
<1>11. shell'[p] = c
  BY <1>3 DEF LevelTypes
<1>12. CommandFits(p)'
  <2>1. CASE none
    BY <1>3, <1>8, <1>9, <1>10, <1>11, <2>1 DEF CommandFits
  <2>2. CASE ~none
    BY <1>3, <1>4, <1>5, <1>7, <1>10, <1>11, <2>2, LogConstants DEF CommandFits
  <2> QED BY <2>1, <2>2
<1> QED
  BY <1>1, <1>3, <1>10, <1>12, OneCommand DEF Locked

LEMMA PendKeeps ==
  ASSUME LevelTypes, LockHeld, LevelKnown, NEW p \in Shells, UnitLogs!Pend(p)
  PROVE  LevelTypes' /\ LockHeld' /\ LevelKnown'
<1> DEFINE c == [shell[p] EXCEPT !.pc = "set"]
<1>1. /\ shell[p].pc = "pend" /\ shell[p] \in Commands /\ marker' = shell[p].plan
      /\ shell' = [q \in Shells |-> IF q = p THEN c ELSE [shell[q] EXCEPT !.same = FALSE]]
      /\ UNCHANGED <<level, own, policy>>
  BY DEF UnitLogs!Pend, UnitLogs!Pending, UnitLogs!Replaced, LevelTypes
<1>2. c \in Commands /\ c.pc = "set" /\ c.plan = shell[p].plan /\ c.keep = shell[p].keep
  BY <1>1 DEF Commands
<1> HIDE DEF c
<1>3. shell'[p] = c
  BY <1>1
<1>4. Faithful(marker') /\ Explained(marker', level, own) /\ CommandFits(p)
  BY <1>1 DEF LevelKnown, CommandFits
<1>5. CommandFits(p)'
  BY <1>1, <1>2, <1>3, <1>4 DEF CommandFits
<1> QED
  BY <1>1, <1>2, <1>4, <1>5, ReceiptStep DEF Locked

\* The level is set under a receipt that explains it before and after.
LEMMA SetKeeps ==
  ASSUME LevelTypes, LockHeld, LevelKnown, NEW p \in Shells, UnitLogs!SetLevel(p)
  PROVE  LevelTypes' /\ LockHeld' /\ LevelKnown'
<1> DEFINE c == [shell[p] EXCEPT !.pc = "final"]
           plan == shell[p].plan
<1>1. /\ shell[p].pc = "set" /\ shell[p] \in Commands /\ UNCHANGED <<own, marker, policy>>
      /\ marker = plan /\ Faithful(plan) /\ Explained(plan, level, own) /\ CommandFits(p)
      /\ level \in Levels
  BY DEF UnitLogs!SetLevel, LevelTypes, LevelKnown, CommandFits
<1>2. c \in Commands /\ c.pc = "final" /\ c.plan = plan /\ c.keep = shell[p].keep
  BY <1>1 DEF Commands
<1> HIDE DEF c, plan
<1>3. ASSUME shell' = [shell EXCEPT ![p] = c], level' \in Levels, Explained(marker, level', own),
             plan = UnitLogs!None => level' = own,
             plan # UnitLogs!None => level' = plan.target
      PROVE  LevelTypes' /\ LockHeld' /\ LevelKnown'
  <2>1. shell'[p] = c
    BY <1>3 DEF LevelTypes
  <2>2. CommandFits(p)'
    BY <1>1, <1>2, <1>3, <2>1 DEF CommandFits, plan
  <2> QED BY <1>1, <1>2, <1>3, <2>2, OneCommand DEF Locked
<1>4. CASE plan = UnitLogs!None
  <2>1. shell' = [shell EXCEPT ![p] = c] /\ level' = level
    BY <1>4 DEF UnitLogs!SetLevel, c, plan
  <2>2. level = own
    BY <1>1, <1>4 DEF CommandFits, plan
  <2> QED BY <1>1, <1>3, <1>4, <2>1, <2>2
<1>5. CASE plan # UnitLogs!None /\ level = plan.previous
  <2>1. shell' = [shell EXCEPT ![p] = c] /\ level' = plan.target
    BY <1>5 DEF UnitLogs!SetLevel, c, plan
  <2>2. plan \in Receipts /\ plan.target \in Levels
    BY <1>1, <1>5 DEF Faithful, Receipts
  <2>3. plan.original = own
    BY <1>1, <1>5 DEF Explained
  <2>4. Explained(marker, plan.target, own)
    BY <1>1, <1>5, <2>3 DEF Explained
  <2> QED BY <1>3, <1>5, <2>1, <2>2, <2>4
<1>6. CASE plan # UnitLogs!None /\ level # plan.previous
  BY <1>1, <1>6, DieKeeps DEF UnitLogs!SetLevel, plan
<1> QED
  BY <1>4, <1>5, <1>6

\* What stays managed stays explained; a level that was put back needs no receipt.
LEMMA FinalKeeps ==
  ASSUME LevelTypes, LockHeld, LevelKnown, NEW p \in Shells, UnitLogs!Final(p)
  PROVE  LevelTypes' /\ LockHeld' /\ LevelKnown'
<1> DEFINE c == [UnitLogs!NoShell EXCEPT !.pc = "done"]
           plan == shell[p].plan
           rec == [plan EXCEPT !.previous = plan.target]
<1>1. /\ shell[p].pc = "final" /\ UNCHANGED <<level, own, policy>> /\ CommandFits(p)
      /\ own \in OwnLevels /\ marker = plan /\ Faithful(plan) /\ Explained(plan, level, own)
  BY DEF UnitLogs!Final, LevelTypes, LevelKnown, CommandFits
<1>2. c \in Commands /\ c.pc = "done"
  BY LogRecords DEF Commands
<1>3. shell' = [q \in Shells |-> IF q = p THEN c ELSE [shell[q] EXCEPT !.same = FALSE]]
  BY DEF UnitLogs!Final, UnitLogs!Replaced
<1>4. marker' = IF plan # UnitLogs!None /\ shell[p].keep THEN rec ELSE UnitLogs!None
  BY DEF UnitLogs!Final
<1> HIDE DEF c
<1>5. CommandFits(p)'
  <2>1. shell'[p] = c
    BY <1>3
  <2> QED BY <1>2, <2>1 DEF CommandFits
<1>6. Faithful(marker') /\ Explained(marker', level, own)
  <2>1. CASE plan # UnitLogs!None /\ shell[p].keep
    <3>1. plan \in [original : OwnLevels, previous : Levels, target : Levels]
      BY <1>1, <2>1 DEF Faithful, Receipts
    <3>2. rec = [original |-> plan.original, previous |-> plan.target, target |-> plan.target]
      BY <3>1
    <3>3. rec \in Receipts /\ rec # UnitLogs!None /\ plan.target \notin OwnLevels
      BY <1>1, <2>1, <3>1, <3>2, ReceiptKinds DEF CommandFits
    <3>4. level \in {plan.target, own} /\ marker' = rec
      BY <1>1, <1>4, <2>1 DEF CommandFits
    <3> HIDE DEF plan, rec
    <3>5. Faithful(rec)
      BY <3>2, <3>3 DEF Faithful
    <3>6. Explained(rec, level, own)
      BY <1>1, <2>1, <3>2, <3>3, <3>4 DEF Explained
    <3> QED BY <3>4, <3>5, <3>6
  <2>2. CASE plan # UnitLogs!None /\ ~shell[p].keep
    <3>1. plan.target = plan.original /\ level \in {plan.target, own}
      BY <1>1, <2>2 DEF CommandFits
    <3> HIDE DEF plan
    <3>2. level = own
      BY <1>1, <2>2, <3>1 DEF Explained
    <3>3. marker' = UnitLogs!None
      BY <1>4, <2>2
    <3> QED BY <1>1, <3>2, <3>3, LogRecords, OwnIsExplained
  <2>3. CASE plan = UnitLogs!None
    <3>1. level = own /\ marker' = UnitLogs!None
      BY <1>1, <1>4, <2>3 DEF CommandFits
    <3> QED BY <1>1, <3>1, LogRecords, OwnIsExplained
  <2> QED BY <2>1, <2>2, <2>3
<1> QED
  BY <1>1, <1>2, <1>3, <1>5, <1>6, ReceiptStep DEF Locked

\* Somebody else sets the tag's level, or the unit forgets it.
LEMMA OthersKeep ==
  ASSUME LevelTypes, LockHeld, LevelKnown,
         (\E l \in OwnLevels : UnitLogs!Foreign(l)) \/ UnitLogs!Reboot
  PROVE  LevelTypes' /\ LockHeld' /\ LevelKnown'
<1>1. /\ level' \in OwnLevels /\ own' = level' /\ UNCHANGED <<marker, policy>> /\ Faithful(marker)
      /\ shell \in [Shells -> Commands] /\ shell' \in [Shells -> Commands]
      /\ \A p \in Shells : shell'[p] = shell[p] \/ shell'[p].pc \in {"none", "dead"}
  <2>1. CASE \E l \in OwnLevels : UnitLogs!Foreign(l)
    BY <2>1 DEF UnitLogs!Foreign, LevelTypes
  <2>2. CASE UnitLogs!Reboot
    <3> DEFINE c == [UnitLogs!NoShell EXCEPT !.pc = "dead"]
    <3>1. c \in Commands /\ c.pc = "dead"
      BY LogRecords DEF Commands
    <3>2. shell' = [p \in Shells |-> IF shell[p].pc = "none" THEN UnitLogs!NoShell ELSE c]
      BY <2>2 DEF UnitLogs!Reboot
    <3> HIDE DEF c
    <3>3. shell' \in [Shells -> Commands] /\ \A p \in Shells : shell'[p].pc \in {"none", "dead"}
      BY <3>1, <3>2, LogRecords
    <3> QED BY <2>2, <3>3, LogConstants DEF UnitLogs!Reboot, LevelTypes
  <2> QED BY <2>1, <2>2
<1>2. LevelTypes'
  BY <1>1 DEF LevelTypes, Levels
<1>3. UnitLogs!Holding' \subseteq UnitLogs!Holding
  BY <1>1 DEF UnitLogs!Holding
<1>4. LockHeld'
  BY <1>3 DEF LockHeld
<1>5. \A rec : Faithful(rec) => Explained(rec, level', own')
  BY <1>1, OwnIsExplained
<1>6. ASSUME NEW p \in Shells PROVE CommandFits(p)'
  <2>1. CASE shell'[p].pc \in {"none", "dead"}
    BY <2>1 DEF CommandFits
  <2>2. CASE shell'[p] = shell[p]
    <3>1. CommandFits(p)
      BY DEF LevelKnown
    <3>2. shell[p].pc \in {"pend", "set", "final"} => Explained(shell[p].plan, level', own')
      BY <1>5, <3>1 DEF CommandFits
    <3> QED BY <1>1, <2>2, <3>1, <3>2 DEF CommandFits
  <2> QED BY <1>1, <2>1, <2>2
<1> QED
  BY <1>1, <1>2, <1>4, <1>5, <1>6 DEF LevelKnown

\* The receipt is read and a command for it sent.
LEMMA EnsureKeeps ==
  ASSUME LevelTypes, LockHeld, LevelKnown, UnitLogs!ensure_logging
  PROVE  LevelTypes' /\ LockHeld' /\ LevelKnown'
<1> DEFINE c == [UnitLogs!NoShell EXCEPT !.pc = "start", !.prior = marker, !.want = policy]
<1>1. PICK p \in Shells : shell' = [shell EXCEPT ![p] = c]
  BY DEF UnitLogs!ensure_logging, UnitLogs!Free
<1>2. /\ UNCHANGED <<level, own, marker, policy>> /\ level \in Levels /\ marker \in Receipts /\ policy \in Policies
      /\ Explained(marker, level, own)
  BY DEF UnitLogs!ensure_logging, LevelTypes, LevelKnown, Faithful
<1>3. c \in Commands /\ c.pc = "start" /\ c.prior = marker
  BY <1>2, LogRecords DEF Commands
<1> HIDE DEF c
<1>4. shell'[p] = c
  BY <1>1 DEF LevelTypes
<1>5. CommandFits(p)'
  BY <1>2, <1>3, <1>4 DEF CommandFits
<1> QED
  BY <1>1, <1>2, <1>3, <1>5, OneCommand DEF Locked

LEMMA LogsKeeps ==
  ASSUME LogsInv, UnitLogs!Next \/ UNCHANGED logsVars
  PROVE  LogsInv'
<1>1. LevelTypes /\ LockHeld /\ LevelKnown /\ LinesHeld /\ CaptureKept
  BY DEF LogsInv
<1>2. LinesHeld' /\ CaptureKept'
  BY <1>1, LogsLines
<1> SUFFICES LevelTypes' /\ LockHeld' /\ LevelKnown'
  BY <1>2 DEF LogsInv
<1>3. CASE \E p \in Shells : UnitLogs!Shelling(p) \/ UnitLogs!Cut(p)
  <2> PICK p \in Shells : UnitLogs!Shelling(p) \/ UnitLogs!Cut(p)
    BY <1>3
  <2>1. CASE UnitLogs!Shelling(p)
    BY <1>1, <2>1, GuardKeeps, PlanKeeps, PendKeeps, SetKeeps, FinalKeeps DEF UnitLogs!Shelling
  <2>2. CASE UnitLogs!Cut(p)
    <3>1. UnitLogs!Die(p) /\ UNCHANGED <<level, own, marker, policy>>
      BY <2>2 DEF UnitLogs!Cut
    <3> QED BY <1>1, <3>1, DieKeeps
  <2> QED BY <2>1, <2>2
<1>4. CASE (\E l \in OwnLevels : UnitLogs!Foreign(l)) \/ UnitLogs!Reboot
  BY <1>1, <1>4, OthersKeep
<1>5. CASE \E p \in Policies : UnitLogs!SetPolicy(p)
  <2>1. UNCHANGED <<level, own, marker, shell>> /\ policy' \in Policies
    BY <1>5 DEF UnitLogs!SetPolicy, UnitLogs!unit
  <2> QED BY <1>1, <2>1, LevelRests
<1>6. CASE UnitLogs!ensure_logging
  BY <1>1, <1>6, EnsureKeeps
<1>7. CASE \/ UnitLogs!on_unit_seen \/ UnitLogs!on_unit_present \/ UnitLogs!Due \/ UnitLogs!_read_capture
           \/ UnitLogs!store \/ UnitLogs!Applied \/ UnitLogs!arm \/ UnitLogs!Unreachable
           \/ UnitLogs!Line \/ UnitLogs!Leave \/ UnitLogs!Arrive \/ UnitLogs!shutdown \/ UNCHANGED logsVars
  <2>1. UNCHANGED <<level, own, marker, shell, policy>>
    BY <1>7 DEF UnitLogs!on_unit_seen, UnitLogs!on_unit_present, UnitLogs!Due, UnitLogs!_read_capture,
                UnitLogs!store, UnitLogs!Applied, UnitLogs!arm, UnitLogs!Unreachable, UnitLogs!Line,
                UnitLogs!Leave, UnitLogs!Arrive, UnitLogs!shutdown, UnitLogs!unit, logsVars
  <2>2. policy' \in Policies
    BY <1>1, <2>1 DEF LevelTypes
  <2> QED BY <1>1, <2>1, <2>2, LevelRests
<1> QED
  BY <1>3, <1>4, <1>5, <1>6, <1>7 DEF UnitLogs!Next, UnitLogs!Working

LEMMA LogsPromised ==
  ASSUME LogsInv
  PROVE  UnitLogs!TypeOK /\ UnitLogs!LinesKept /\ UnitLogs!OriginalKept
<1>1. UnitLogs!LinesKept
  BY DEF LogsInv, LinesHeld, UnitLogs!LinesKept
<1>2. UnitLogs!OriginalKept
  BY OriginalIs DEF LogsInv, LevelKnown, UnitLogs!OriginalKept
<1>3. UnitLogs!Cardinality(UnitLogs!Holding) <= 1
  <2>1. Cardinality(UnitLogs!Holding) <= 1
    BY AtMostOne DEF LogsInv, LockHeld
  <2>2. UnitLogs!Cardinality(UnitLogs!Holding) = Cardinality(UnitLogs!Holding)
    BY DEF UnitLogs!Cardinality, Cardinality
  <2> QED BY <2>1, <2>2
<1>4. UnitLogs!TypeOK
  BY <1>3 DEF LogsInv, LevelTypes, LinesHeld, Levels, Set, UnitLogs!TypeOK
<1> QED
  BY <1>1, <1>2, <1>4

-----------------------------------------------------------------------------
(* The services for the unit.                                               *)

RecordsInv ==
  /\ which = "events" => EventsInv
  /\ which = "movement" => MovementInv
  /\ which = "logs" => LogsInv

\* What the unit recorded is taken over as it was: event gaps are real losses
\* and the newest event is kept, no captured line is dropped unread, a changed
\* log level can be put back, and a movement report is shown as live only when
\* it is, never parking a clip that moved (ingest/obd_events.py, unit_logs.py,
\* movement.py).
THEOREM RecordsTheorem == UnitSpec => []RecordsAreTrue
<1>1. UnitInit => RecordsInv
  BY EventsInit, MovementInit, LogsInit DEF UnitInit, RecordsInv
<1>2. RecordsInv /\ [UnitNext]_servicesVars => RecordsInv'
  <2> SUFFICES ASSUME RecordsInv, [UnitNext]_servicesVars PROVE RecordsInv'
    OBVIOUS
  <2>1. /\ which' = which
        /\ which = "events" => LoggerEvents!Next \/ UNCHANGED eventsVars
        /\ which = "movement" => MovementStatus!Next \/ UNCHANGED movementVars
        /\ which = "logs" => UnitLogs!Next \/ UNCHANGED logsVars
    BY DEF UnitNext, servicesVars
  <2> QED BY <2>1, EventsKeeps, MovementKeeps, LogsKeeps DEF RecordsInv
<1>3. RecordsInv => RecordsAreTrue
  BY EventsPromised, MovementPromised, LogsPromised DEF RecordsInv, RecordsAreTrue
<1> QED
  BY <1>1, <1>2, <1>3, PTL DEF UnitSpec

=============================================================================
