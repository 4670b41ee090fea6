----------------------------- MODULE Publication -----------------------------
(***************************************************************************)
(* One release folder <platform>/<version> of the native library and the   *)
(* runs (processes) that open, publish, recover and close it:              *)
(* internal/library/library.go and ownership.go.                           *)
(*                                                                         *)
(* A run takes the lock file, finishes an interrupted publication that it  *)
(* finds in the journal, stages a copy of the release, and publishes by    *)
(* journal, rename of the release to a snapshot, rename of the stage to    *)
(* the release, and removal of the journal.  Every file system call is a   *)
(* step, so a crash, a power loss, an I/O error or another run falls       *)
(* between any two of them.                                                *)
(*                                                                         *)
(* SyncDir of a directory commits the names in it, not the name that the   *)
(* directory itself has in its parent: a folder that Mkdir made is lost    *)
(* with power, whatever was synced inside it, until its parent is synced.  *)
(* A rename reaches the disk as a whole or not at all.                     *)
(*                                                                         *)
(* A directory tree is abstracted to the run whose manifest it carries and *)
(* whether it verifies; the journal to the run, its previous run and       *)
(* whether it decodes; a lock or journal inode and token to its run.       *)
(***************************************************************************)
EXTENDS FiniteSets

CONSTANTS Runs,             \* processes, each one library transaction
          NoRun, Unread,
          PdfRuns,          \* runs that leave only PDFs (ReplaceHTMLWithPDF and onlyPDFs)
          Healthy,          \* runs that meet no crash and no I/O error
          CarelessOperator, \* TRUE: a lock may be removed while its owner lives
          PowerMayFail      \* TRUE: the machine may lose power

ASSUME RunsAssumption == /\ NoRun \notin Runs /\ Unread \notin Runs /\ NoRun # Unread
                         /\ PdfRuns \subseteq Runs /\ Healthy \subseteq Runs
ASSUME SwitchAssumption == CarelessOperator \in BOOLEAN /\ PowerMayFail \in BOOLEAN

VARIABLES
  disk,     \* what the processes see
  durable,  \* the states of the disk that a power loss could leave
  pc,       \* pc[r]: the next step of run r
  move,     \* move[r]: the rename that renameTransaction carries out for r
  prev,     \* prev[r]: Run.previous.RunID, or Unread before it is read
  tx,       \* tx[r]: the journalState that r expects to find
  outcome   \* outcome[r]: how the run ended

vars == <<disk, durable, pc, move, prev, tx, outcome>>

-----------------------------------------------------------------------------
(* The release folder and what surrounds it.                               *)

Forms == {"absent", "partial", "whole", "stripped", "pdfs"}
NoTree == [of |-> NoRun, form |-> "absent"]
Trees == {NoTree} \cup [of : Runs, form : Forms \ {"absent"}]
Whole(r) == [of |-> r, form |-> "whole"]

Target == <<"target", NoRun>>
Place(kind, r) == <<kind, r>>
Places == {Target} \cup ({"stage", "snapshot", "recovery"} \X Runs)

NoJournal == [run |-> NoRun, prev |-> NoRun, form |-> "absent"]
Journals == {NoJournal} \cup [run : Runs, prev : Runs \cup {NoRun}, form : {"partial", "whole"}]

\* Folders whose names in their parents are synced late or never: a stage and a
\* recovery in .staging, and the folder of the release's snapshots in .snapshots.
Snapshots == <<"snapshots", NoRun>>
Staging == {"stage", "recovery"} \X Runs
Entries == Staging \cup {Snapshots}

\* fresh: the entries that no SyncDir has covered; lost: the whole trees that
\* power losses have taken, each with its place (history, read by no run).
Disks == [lock : Runs \cup {NoRun}, journal : Journals, tree : [Places -> Trees],
          fresh : SUBSET Entries, lost : SUBSET (Places \X Trees)]

Present(d, place) == d.tree[place].form # "absent"
Put(place, t) == [disk EXCEPT !.tree[place] = t]
Made(d, entry) == [d EXCEPT !.fresh = @ \cup {entry}]
Renamed(from, to) == [disk EXCEPT !.tree[from] = NoTree, !.tree[to] = disk.tree[from]]

\* A change that a later SyncDir commits; until then a power loss may undo it.
Write(d) == disk' = d /\ durable' = IF PowerMayFail THEN durable \cup {d} ELSE {d}
\* SyncDir, or a change made together with its SyncDir.  It commits all that was
\* changed, but not the entries that are still fresh.
Commit(d) == disk' = d /\ durable' = {d}
Sync == Commit(disk)
Read == UNCHANGED <<disk, durable>>

\* Between two syncs the journal file may reach the disk before or after the
\* directories that were renamed around it.
Survivors == {[trees EXCEPT !.journal = records.journal] : trees, records \in durable}

\* d after a power loss that took the entries in gone, with all that was in them.
\* What it spared is on the disk for good.
Taken(d, gone) == {p \in Places : p \in gone \/ (Snapshots \in gone /\ p[1] = "snapshot")}
Without(d, gone) ==
  [d EXCEPT !.tree = [p \in Places |-> IF p \in Taken(d, gone) THEN NoTree ELSE d.tree[p]],
            !.fresh = {},
            !.lost = @ \cup {<<p, d.tree[p]>> : p \in {q \in Taken(d, gone) : d.tree[q].form = "whole"}}]

-----------------------------------------------------------------------------
(* Ownership, and the error path that every failing call takes.            *)

Owns(r) == disk.lock = r
OwnsTransaction(r) == Owns(r) /\ disk.journal = tx[r]

Goto(r, l) == pc' = [pc EXCEPT ![r] = l]
End(r, l, why) == Goto(r, l) /\ outcome' = [outcome EXCEPT ![r] = why]

\* renameTransaction to the target failed after the previous release was moved
\* away, or the move away could not be synced: Publish rolls back.
RollsBack(r) == \/ pc[r] \in {"guard", "rename", "renamed"} /\ move[r] = "promote" /\ prev[r] # NoRun
                \/ pc[r] = "moveSync" /\ move[r] = "snapshot"

Abort(r) ==
  /\ IF RollsBack(r)
     THEN /\ Goto(r, "guard")
          /\ move' = [move EXCEPT ![r] = "rollback"]
          /\ UNCHANGED outcome
     ELSE /\ UNCHANGED move
          /\ CASE pc[r] \in {"preflight", "acquire"} -> End(r, "done", "failed")
               [] pc[r] \in {"close", "unlock"} -> Goto(r, "done") /\ UNCHANGED outcome
               [] pc[r] = "journalWrite" -> Goto(r, "journalCleanup") /\ UNCHANGED outcome
               [] OTHER -> End(r, "close", "failed")
  /\ UNCHANGED <<disk, durable, prev, tx>>

\* The step at l succeeds and leads to l2, changing nothing but disk and durable.
Step(r, l, l2) == pc[r] = l /\ Goto(r, l2) /\ UNCHANGED <<move, prev, tx, outcome>>

\* renameTransaction is called for m.
Start(r, m) == Goto(r, "guard") /\ move' = [move EXCEPT ![r] = m]

\* What the run finds in the folder needs manual inspection.
Refuse(r) == End(r, "close", "refused") /\ Read /\ UNCHANGED <<move, prev, tx>>

-----------------------------------------------------------------------------
(* Opening the release folder.                                             *)

\* readLibraryTree accepts the release folder, or there is none.
RecordsIgnored(d) == d.tree[Target].form \in {"absent", "whole", "pdfs"}
Readable(d) == d.tree[Target].form \in {"absent", "whole"}

\* What preflightRootWithPolicy refuses: a journal that does not decode, or a
\* release folder without a library that verifies.
Incompatible(d) == d.journal.form = "partial" \/ ~Readable(d)

\* The journal and the folder are read before the lock is taken.
Preflight(r) ==
  /\ pc[r] = "preflight"
  /\ IF Incompatible(disk) THEN End(r, "done", "refused")
                           ELSE Goto(r, "acquire") /\ UNCHANGED outcome
  /\ Read /\ UNCHANGED <<move, prev, tx>>

\* The lock file is created exclusively.
LockOverwritten == TRUE
LockAbsent == disk.lock = NoRun

AcquireWaiting(r) ==
  LockAbsent /\ Step(r, "acquire", "recover") /\ Commit([disk EXCEPT !.lock = r])

Acquire(r) ==
  \/ LockAbsent /\ Step(r, "acquire", "recover") /\ Commit([disk EXCEPT !.lock = r])
  \/ /\ ~LockAbsent
     /\ pc[r] = "acquire" /\ End(r, "done", "locked")
     /\ Read /\ UNCHANGED <<move, prev, tx>>

\* The tree that finishes an interrupted publication, and the run it must carry.
RecoverFrom(j) == IF j.prev = NoRun THEN Place("stage", j.run) ELSE Place("snapshot", j.run)
ExpectedNewRun(j) == j.run
ExpectedRun(j) == IF j.prev = NoRun THEN j.run ELSE j.prev
ReadableTarget(d) == /\ d.tree[Target].form = "whole"
                     /\ d.tree[Target].of \in {d.journal.run, d.journal.prev}

\* Where a run goes when nothing is to be recovered.
ReadFirst == "read"

\* recoverContext and recoverLegacyPublication, up to the first change.
Recover(r) ==
  /\ pc[r] = "recover"
  /\ LET j == disk.journal IN
     \/ Owns(r) /\ j.form = "absent" /\ Step(r, "recover", ReadFirst) /\ Read
     \/ /\ Owns(r) /\ j.form = "whole"
        /\ \/ Present(disk, Target) /\ ReadableTarget(disk) /\ Goto(r, "journalCheck")
           \/ ~Present(disk, Target) /\ disk.tree[RecoverFrom(j)] = Whole(ExpectedRun(j)) /\ Goto(r, "copy")
        /\ tx' = [tx EXCEPT ![r] = j]
        /\ Read /\ UNCHANGED <<move, prev, outcome>>
     \/ Owns(r) /\ j.form = "partial" /\ Refuse(r)
     \/ /\ \/ ~Owns(r)
           \/ j.form = "whole" /\ IF Present(disk, Target) THEN ~ReadableTarget(disk)
                                  ELSE disk.tree[RecoverFrom(j)] # Whole(ExpectedRun(j))
        /\ Abort(r)

\* CopyTree fills a recovery folder beside the target; its last SyncDir ends it.
Copy(r) ==
  \/ /\ pc[r] = "copy"
     /\ IF OwnsTransaction(r)
        THEN Step(r, "copy", "copying") /\ Write(Made(Put(Place("recovery", r), [Whole(ExpectedRun(tx[r])) EXCEPT !.form = "partial"]),
                                                          Place("recovery", r)))
        ELSE Abort(r)
  \/ /\ pc[r] = "copying"
     /\ IF disk.tree[RecoverFrom(tx[r])].form = "whole"
        THEN Start(r, "recovery") /\ Commit(Put(Place("recovery", r), Whole(ExpectedRun(tx[r])))) /\ UNCHANGED <<prev, tx, outcome>>
        ELSE Abort(r)

\* The library found in the folder becomes the run's previous release.
ReadPrevious(r) ==
  /\ pc[r] = "read"
  /\ IF Readable(disk)
     THEN /\ Goto(r, "stage") /\ prev' = [prev EXCEPT ![r] = disk.tree[Target].of]
          /\ Read /\ UNCHANGED <<move, tx, outcome>>
     ELSE Refuse(r)

\* The stage is created and filled with a copy of the release; guides are then
\* downloaded and accepted into it.
Stage(r) ==
  /\ pc[r] = "stage"
  /\ IF Owns(r)
     THEN Step(r, "stage", "publish") /\ Write(Made(Put(Place("stage", r), [of |-> r, form |-> "partial"]), Place("stage", r)))
     ELSE Abort(r)

-----------------------------------------------------------------------------
(* Publishing.                                                             *)

\* A folder of snapshots without any is taken as one to be made.
NoSnapshots == \A s \in Runs : ~Present(disk, Place("snapshot", s))

\* Publish rechecks the folder under the lock, makes the folder of snapshots,
\* writes the index and the manifest into the stage and reads the staged library
\* back.  All in the stage is synced, its name in .staging is not.
Publish(r) ==
  /\ pc[r] = "publish"
  /\ IF /\ Owns(r)
        /\ ~Incompatible(disk)
        /\ disk.journal.form = "absent"
        /\ disk.tree[Target].of = prev[r]
     THEN /\ Step(r, "publish", "journalOpen")
          /\ LET d == Put(Place("stage", r), Whole(r)) IN
             Commit(IF prev[r] # NoRun /\ NoSnapshots THEN Made(d, Snapshots) ELSE d)
     ELSE Abort(r)

\* The SyncDir that ends createJournal.
JournalUnsynced == Read
JournalSynced == Sync

JournalOf(r) == [run |-> r, prev |-> prev[r], form |-> "whole"]

\* createJournal: check, exclusive create, write, then sync; a failed write
\* removes the partial file again while lock and file are still this run's.
CreateJournal(r) ==
  \/ /\ pc[r] = "journalOpen"
     /\ IF Owns(r) THEN Step(r, "journalOpen", "journalCreate") /\ Read ELSE Abort(r)
  \/ /\ pc[r] = "journalCreate"
     /\ IF disk.journal.form = "absent"
        THEN /\ Goto(r, "journalWrite") /\ tx' = [tx EXCEPT ![r] = JournalOf(r)]
             /\ Write([disk EXCEPT !.journal = [JournalOf(r) EXCEPT !.form = "partial"]])
             /\ UNCHANGED <<move, prev, outcome>>
        ELSE Abort(r)
  \/ /\ pc[r] = "journalWrite"
     /\ IF disk.journal.run = r
        THEN Step(r, "journalWrite", "journalSync") /\ Write([disk EXCEPT !.journal.form = "whole"])
        ELSE Step(r, "journalWrite", "journalSync") /\ Read
  \/ /\ pc[r] = "journalSync"
     /\ IF OwnsTransaction(r)
        THEN Start(r, IF prev[r] # NoRun THEN "snapshot" ELSE "promote") /\ JournalSynced /\ UNCHANGED <<prev, tx, outcome>>
        ELSE Abort(r)
  \/ /\ pc[r] = "journalCleanup" /\ End(r, "close", "failed")
     /\ IF Owns(r) /\ disk.journal.run = r THEN Write([disk EXCEPT !.journal = NoJournal]) ELSE Read
     /\ UNCHANGED <<move, prev, tx>>

From(r) == CASE move[r] = "recovery" -> Place("recovery", r)
             [] move[r] = "snapshot" -> Target
             [] move[r] = "promote"  -> Place("stage", r)
             [] move[r] = "rollback" -> Place("snapshot", r)

To(r) == IF move[r] = "snapshot" THEN Place("snapshot", r) ELSE Target

\* rollback reads the snapshot back before it moves it.
Verified(r) == move[r] = "rollback" => disk.tree[From(r)] = Whole(prev[r])

\* The Lstat of the destination.
DestinationUnchecked(p) == TRUE
Vacant(p) == ~Present(disk, p)

\* The SyncDir of the two parent directories: .staging is one of them after the
\* move of a stage or of a recovery.
RenameUnsynced(r) == Read
RenameSynced(r) == Commit(IF move[r] \in {"recovery", "promote"}
                          THEN [disk EXCEPT !.fresh = @ \ Staging] ELSE disk)

\* renameTransaction and the SyncDir its callers add: check, rename, recheck.
Rename(r) ==
  \/ /\ pc[r] = "guard"
     /\ IF OwnsTransaction(r) /\ Verified(r) /\ Vacant(To(r))
        THEN Step(r, "guard", "rename") /\ Read
        ELSE Abort(r)
  \/ /\ pc[r] = "rename"
     /\ IF Present(disk, From(r)) /\ Vacant(To(r))
        THEN Step(r, "rename", "renamed") /\ Write(Renamed(From(r), To(r)))
        ELSE Abort(r)
  \/ /\ pc[r] = "renamed"
     /\ IF OwnsTransaction(r) THEN Step(r, "renamed", "moveSync") /\ Read ELSE Abort(r)
  \/ /\ pc[r] = "moveSync" /\ RenameSynced(r)
     /\ CASE move[r] = "snapshot" -> Start(r, "promote") /\ UNCHANGED outcome
          [] move[r] = "rollback" -> End(r, "close", "failed") /\ UNCHANGED move
          [] OTHER                -> Goto(r, "journalCheck") /\ UNCHANGED <<move, outcome>>
     /\ UNCHANGED <<prev, tx>>

Published(r) == End(r, "close", "published")

\* Publish goes on to dropRecords when ReplaceHTMLWithPDF and onlyPDFs hold.
DropsRecords(r) == r \in PdfRuns

\* removeJournal, after a recovery or a publication.
RemoveJournal(r) ==
  \/ /\ pc[r] = "journalCheck"
     /\ IF OwnsTransaction(r) THEN Step(r, "journalCheck", "journalRemove") /\ Read ELSE Abort(r)
  \/ /\ pc[r] = "journalRemove"
     /\ IF disk.journal.form # "absent"
        THEN Step(r, "journalRemove", "journalGone") /\ Write([disk EXCEPT !.journal = NoJournal])
        ELSE Abort(r)
  \/ /\ pc[r] = "journalGone"
     /\ IF Owns(r)
        THEN /\ Sync
             /\ CASE tx[r].run # r -> Goto(r, "read") /\ UNCHANGED outcome
                  [] tx[r].run = r /\ DropsRecords(r) -> Goto(r, "drop") /\ UNCHANGED outcome
                  [] OTHER -> Published(r)
             /\ UNCHANGED <<move, prev, tx>>
        ELSE Abort(r)

\* dropRecords: the records one by one, the manifest last, then the snapshots.
\* (No SyncDir covers the removal of a snapshot, and no run reads one that came
\* back: it counts as committed with the next SyncDir.)
DropRecords(r) ==
  \/ /\ pc[r] = "drop"
     /\ IF Owns(r) THEN Step(r, "drop", "strip") /\ Read ELSE Abort(r)
  \/ /\ pc[r] = "strip"
     /\ CASE disk.tree[Target].form = "whole" ->
               Step(r, "strip", "strip") /\ Write([disk EXCEPT !.tree[Target].form = "stripped"])
          [] disk.tree[Target].form = "stripped" ->
               Step(r, "strip", "dropSync") /\ Write([disk EXCEPT !.tree[Target].form = "pdfs"])
          [] OTHER -> Abort(r)
  \/ Step(r, "dropSync", "prune") /\ Sync
  \/ /\ pc[r] = "prune"
     /\ \/ \E s \in Runs : /\ Present(disk, Place("snapshot", s))
                           /\ Step(r, "prune", "prune")
                           /\ Write(Put(Place("snapshot", s), NoTree))
        \/ /\ NoSnapshots
           /\ Published(r) /\ Read /\ UNCHANGED <<move, prev, tx>>

\* Close removes the lock only while it is this run's; its SyncDir may fail.
Close(r) ==
  \/ /\ pc[r] = "close"
     /\ IF Owns(r) THEN Step(r, "close", "unlock") /\ Read ELSE Abort(r)
  \/ /\ Step(r, "unlock", "done")
     /\ LET d == [disk EXCEPT !.lock = NoRun] IN Commit(d) \/ (r \notin Healthy /\ Write(d))

-----------------------------------------------------------------------------
(* The surroundings: I/O errors, crashes, power, and the operator.         *)

Running(r) == pc[r] \notin {"done", "crashed"}

\* Any call of a run may fail; journalCleanup and prune report what they failed at.
Fault(r) == /\ r \notin Healthy
            /\ Running(r) /\ pc[r] # "journalCleanup"
            /\ Abort(r)

Crash(r) == /\ r \notin Healthy
            /\ Running(r) /\ pc[r] # "preflight"
            /\ Goto(r, "crashed")
            /\ Read /\ UNCHANGED <<move, prev, tx, outcome>>

PowerLoss == /\ PowerMayFail
             /\ pc' = [r \in Runs |-> IF Running(r) /\ pc[r] # "preflight" THEN "crashed" ELSE pc[r]]
             /\ \E d \in Survivors : \E gone \in SUBSET d.fresh : Commit(Without(d, gone))
             /\ UNCHANGED <<move, prev, tx, outcome>>

\* "confirm the owning process has stopped before manually removing this
\* specific lock"
RemoveLock == /\ disk.lock # NoRun
              /\ CarelessOperator \/ ~Running(disk.lock)
              /\ Commit([disk EXCEPT !.lock = NoRun])
              /\ UNCHANGED <<pc, move, prev, tx, outcome>>

Finished == (\A r \in Runs : ~Running(r)) /\ UNCHANGED vars

-----------------------------------------------------------------------------
Init ==
  /\ disk = [lock |-> NoRun, journal |-> NoJournal, tree |-> [p \in Places |-> NoTree],
             fresh |-> {}, lost |-> {}]
  /\ durable = {disk}
  /\ pc = [r \in Runs |-> "preflight"]
  /\ move = [r \in Runs |-> "none"]
  /\ prev = [r \in Runs |-> Unread]
  /\ tx = [r \in Runs |-> NoJournal]
  /\ outcome = [r \in Runs |-> "none"]

RunStep(r) == \/ Preflight(r) \/ Acquire(r) \/ Recover(r) \/ Copy(r)
              \/ ReadPrevious(r) \/ Stage(r) \/ Publish(r) \/ CreateJournal(r)
              \/ Rename(r) \/ RemoveJournal(r) \/ DropRecords(r) \/ Close(r)

Next == \/ \E r \in Runs : RunStep(r) \/ Fault(r) \/ Crash(r)
        \/ PowerLoss \/ RemoveLock \/ Finished

Spec == Init /\ [][Next]_vars

\* A healthy process keeps running; nothing obliges any other process, the
\* operator or the power supply.
FairSpec == Spec /\ \A r \in Healthy : WF_vars(RunStep(r))

-----------------------------------------------------------------------------
(* Properties.                                                             *)

Labels == {"preflight", "acquire", "recover", "copy", "copying", "read", "stage", "publish",
           "journalOpen", "journalCreate", "journalWrite", "journalSync", "journalCleanup",
           "guard", "rename", "renamed", "moveSync", "journalCheck", "journalRemove",
           "journalGone", "drop", "strip", "dropSync", "prune", "close", "unlock",
           "done", "crashed"}

\* The steps of a run that use Run.previous.
UsesPrevious == {"stage", "publish", "journalOpen", "journalCreate", "journalWrite", "journalSync"}

\* Type invariant of the lock, journal, tree and run variables; Run.previous is
\* read before it is used.
TypeOK ==
  /\ disk \in Disks
  /\ durable \subseteq Disks
  /\ pc \in [Runs -> Labels]
  /\ move \in [Runs -> {"none", "recovery", "snapshot", "promote", "rollback"}]
  /\ prev \in [Runs -> Runs \cup {NoRun, Unread}]
  /\ tx \in [Runs -> Journals]
  /\ outcome \in [Runs -> {"none", "refused", "locked", "failed", "published"}]
  /\ \A r \in Runs : pc[r] \in UsesPrevious => prev[r] # Unread

\* The release that the next run would open, after recovery if there is a journal.
Exposed(d) == IF Present(d, Target) THEN d.tree[Target].of
              ELSE IF d.journal.form = "whole" THEN ExpectedRun(d.journal) ELSE NoRun

\* Its files are all there: in the release folder, or where recovery takes them from.
\* Without either, nothing was ever published.
Backed(d) ==
  IF d.journal.form = "whole"
  THEN IF Present(d, Target) THEN ReadableTarget(d)
       ELSE d.tree[RecoverFrom(d.journal)] = Whole(ExpectedRun(d.journal))
  ELSE Present(d, Target) \/ \A r \in Runs : outcome[r] # "published"

\* A power loss took the tree that the journal needs, with a folder whose name
\* in .staging or .snapshots was not synced.
Cut(d) == /\ d.journal.form = "whole" /\ ~Present(d, Target)
          /\ <<RecoverFrom(d.journal), Whole(ExpectedRun(d.journal))>> \in d.lost

\* Wherever a run, or the machine, stops, recovery finds the tree that the
\* journal promises: recoverLegacyPublication ends in "interrupted publication
\* requires manual recovery" only after a power loss that took the unsynced
\* folder of that very tree.
AlwaysRecoverable == \A d \in Survivors \cup {disk} : Backed(d) \/ Cut(d)

\* Publishing is a compare and swap of one register: no run replaces a release
\* that it did not open, and a publication that Publish reported is never
\* undone, not by a later failure, recovery or power loss.  (The register is the
\* release that folder and journal name; AlwaysRecoverable says when its files
\* are there.)
Register == INSTANCE ReleaseRegister WITH
              release <- Exposed(disk), based <- prev,
              reported <- {r \in Runs : outcome[r] = "published"}
AtomicPublication == Register!Spec

Holding == Labels \ {"preflight", "acquire", "done", "crashed"}

\* Only the run named in the lock file is between acquire and Close, so the
\* checks of lock and journal before each change never find a peer's.
OneOwner == \A r \in Runs : pc[r] \in Holding => Owns(r)

\* Even when locks are removed under living runs, a published release stays
\* whole in the release folder or in a snapshot (the ownership checks of
\* renameTransaction, and renames that never replace anything), unless power was
\* lost before the folder of its snapshot had reached the disk.
Retained == {disk.tree[Target]} \cup {disk.tree[Place("snapshot", r)] : r \in Runs}
Lost == {l[2] : l \in disk.lost}
NothingDestroyed == \A r \in Runs : outcome[r] = "published" => Whole(r) \in Retained \cup Lost

\* A healthy run that got the lock publishes or is refused: whatever earlier
\* runs left, its recovery, renames and journal steps never fail, but for the
\* tree that a power loss cut off.
HealthyNeverFails == \A r \in Healthy : outcome[r] = "failed" => Cut(disk)

\* A healthy run ends: it publishes or is turned away, unless power fails.
HealthyEnds == \A r \in Healthy : <>(pc[r] \in {"done", "crashed"})

\* Once the removal of the records has reached the disk, the folder of PDFs is
\* never changed again: preflight refuses it (pdfOnlyFolderError, holdsOnlyPDFs).
PdfFolderUntouched ==
  [][(\A d \in durable : d.tree[Target].form = "pdfs") => disk'.tree[Target] = disk.tree[Target]]_vars

\* README.md on an interrupted download, "Just run the same command again": with
\* no other run at work, a run is refused only a folder that a finished run left with only PDFs.
Alone(r) == \A q \in Runs \ {r} : pc[q] \notin Holding
RefusedOnlyPdfFolders ==
  [][\A r \in Runs : outcome[r] # "refused" /\ outcome'[r] = "refused" /\ Alone(r)
                       => disk.tree[Target].form \in {"pdfs", "stripped"}]_vars

\* docs/go-architecture.md on PDF-only releases, "The records are written,
\* verified and published first, so an interrupted publication recovers as any
\* other": no later run is refused because the removal of the records stopped.
InterruptedDropRecovers ==
  [][\A r \in Runs : outcome[r] # "refused" /\ outcome'[r] = "refused" /\ Alone(r)
                       => disk.tree[Target].form # "stripped"]_vars
=============================================================================
