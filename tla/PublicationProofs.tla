-------------------------- MODULE PublicationProofs --------------------------
(***************************************************************************)
(* What holds of Publication for every set of runs.                        *)
(*                                                                         *)
(* The lock: its types, and that the lock file names the one run at work,  *)
(* as long as nobody removes the lock of a living run.  Every step but     *)
(* acquire, unlock, a power loss and the operator's removal keeps the lock *)
(* file (KeepsLock); that and the labels a step leads from and to are all  *)
(* the argument needs.                                                     *)
(*                                                                         *)
(* Crash recovery: under the same condition, recovery always finds the     *)
(* tree that the journal promises, no healthy run fails, publishing is a   *)
(* compare and swap of one register, and a folder of PDFs stays.  The      *)
(* inductive invariant IInv says, label by label, what the run at work     *)
(* knows of the disk and how far the disks that a power loss could leave   *)
(* differ from it: either in the trees or in the journal, never in both.   *)
(* The exception is a power loss that takes a folder whose name was not    *)
(* synced, and with it the tree that the journal needs: it leads out of    *)
(* IInv to Stranded, where every run fails to recover and nothing but the  *)
(* lock changes any more.                                                  *)
(*                                                                         *)
(* Published releases: they stay whole even if locks are removed under     *)
(* living runs (KInv, DInv), unless they were in such a folder.            *)
(***************************************************************************)
EXTENDS Publication, TLAPS

Renaming == {"guard", "rename", "renamed", "moveSync"}

\* Beyond the types: a run uses prev, tx and move only once it has set them.
RunOK ==
  /\ pc \in [Runs -> Labels]
  /\ move \in [Runs -> {"none", "recovery", "snapshot", "promote", "rollback"}]
  /\ prev \in [Runs -> Runs \cup {NoRun, Unread}]
  /\ tx \in [Runs -> Journals]
  /\ outcome \in [Runs -> {"none", "refused", "locked", "failed", "published"}]
  /\ \A r \in Runs : pc[r] \in UsesPrevious => prev[r] # Unread
  /\ \A r \in Runs : pc[r] \in {"copy", "copying"} => tx[r] # NoJournal
  /\ \A r \in Runs : pc[r] \in Renaming => move[r] # "none"

DiskOK == disk \in Disks /\ durable \subseteq Disks

LEMMA TypeParts == RunOK /\ DiskOK => TypeOK
BY DEF TypeOK, RunOK, DiskOK

\* The trees, places and journals that the actions name are well formed.
LEMMA Shapes ==
  /\ NoTree \in Trees /\ NoJournal \in Journals /\ Target \in Places
  /\ \A r \in Runs : /\ Whole(r) \in Trees
                     /\ [of |-> r, form |-> "partial"] \in Trees
                     /\ \A k \in {"stage", "snapshot", "recovery"} : Place(k, r) \in Places
BY DEF Trees, NoTree, Journals, NoJournal, Target, Places, Place, Whole, Forms

-----------------------------------------------------------------------------
(* Steps that keep the lock file.                                          *)

KeepsLock ==
  \/ UNCHANGED <<disk, durable>>
  \/ \E d \in Disks : /\ d.lock = disk.lock /\ d.lost = disk.lost
                      /\ Write(d) \/ Commit(d)

LEMMA KeepsDisk ==
  ASSUME DiskOK, KeepsLock
  PROVE  DiskOK' /\ disk'.lock = disk.lock /\ disk'.lost = disk.lost
BY DEF DiskOK, KeepsLock, Write, Commit

\* A tree is put in its place, in a folder made for it or not.
Puts(p, t) == {Put(p, t)} \cup {Made(Put(p, t), e) : e \in Entries}

LEMMA PutKeeps ==
  ASSUME DiskOK, NEW p \in Places, NEW t \in Trees, NEW d \in Puts(p, t)
  PROVE  d \in Disks /\ d.lock = disk.lock /\ d.lost = disk.lost
<1>1. Put(p, t) \in Disks /\ Put(p, t).lock = disk.lock /\ Put(p, t).lost = disk.lost
  BY DEF DiskOK, Put, Disks
<1>2. ASSUME NEW e \in Entries, d = Made(Put(p, t), e)
      PROVE  d \in Disks /\ d.lock = disk.lock /\ d.lost = disk.lost
  <2> DEFINE x == Put(p, t)
  <2>1. x \in Disks /\ x.lock = disk.lock /\ x.lost = disk.lost
    BY <1>1
  <2> HIDE DEF x
  <2> QED BY <1>2, <2>1 DEF Made, Disks, x
<1> QED BY <1>1, <1>2 DEF Puts

LEMMA JournalKeeps ==
  ASSUME DiskOK, NEW j \in Journals
  PROVE  LET d == [disk EXCEPT !.journal = j] IN
         d \in Disks /\ d.lock = disk.lock /\ d.lost = disk.lost
BY DEF DiskOK, Disks

LEMMA RenamedKeeps ==
  ASSUME DiskOK, NEW p \in Places, NEW q \in Places
  PROVE  Renamed(p, q) \in Disks /\ Renamed(p, q).lock = disk.lock /\ Renamed(p, q).lost = disk.lost
BY Shapes DEF DiskOK, Disks, Renamed

LEMMA FormKeeps ==
  ASSUME DiskOK, Present(disk, Target), NEW f \in Forms \ {"absent"}
  PROVE  /\ [disk EXCEPT !.tree[Target].form = f] \in Disks
         /\ [disk EXCEPT !.tree[Target].form = f].lock = disk.lock
         /\ [disk EXCEPT !.tree[Target].form = f].lost = disk.lost
<1>1. disk.tree[Target] \in Trees \ {NoTree}
  BY Shapes DEF DiskOK, Disks, Present, NoTree
<1>2. [disk.tree[Target] EXCEPT !.form = f] \in Trees
  BY <1>1 DEF Trees
<1> QED BY <1>1, <1>2, Shapes DEF DiskOK, Disks

-----------------------------------------------------------------------------
(* Steps of one run.                                                       *)

\* r moves to another label, and does not start to hold the folder by it.
Moves(r) == /\ pc' = [pc EXCEPT ![r] = pc'[r]]
            /\ pc'[r] \in Holding => pc[r] \in Holding

Keeps(r) == RunOK' /\ KeepsLock /\ Moves(r)

LEMMA StepKeeps ==
  ASSUME NEW r \in Runs, NEW l \in Labels, NEW m \in Labels, RunOK, Step(r, l, m),
         m \in Holding => l \in Holding,
         m \in UsesPrevious => l \in UsesPrevious,
         m = "copying" => l = "copy", m # "copy",
         m \in Renaming => l \in Renaming
  PROVE  RunOK' /\ Moves(r)
<1>1. pc[r] = l /\ pc' = [pc EXCEPT ![r] = m] /\ pc'[r] = m
  BY DEF Step, Goto, RunOK
<1>2. UNCHANGED <<move, prev, tx, outcome>>
  BY DEF Step
<1>3. pc' \in [Runs -> Labels]
  BY <1>1 DEF RunOK
<1>4. \A q \in Runs : pc'[q] \in UsesPrevious => prev'[q] # Unread
  BY <1>1, <1>2 DEF RunOK
<1>5. \A q \in Runs : pc'[q] \in {"copy", "copying"} => tx'[q] # NoJournal
  BY <1>1, <1>2 DEF RunOK
<1>6. \A q \in Runs : pc'[q] \in Renaming => move'[q] # "none"
  BY <1>1, <1>2 DEF RunOK
<1> QED BY <1>1, <1>2, <1>3, <1>4, <1>5, <1>6 DEF RunOK, Moves

\* The error path of every call.
LEMMA AbortKeeps ==
  ASSUME NEW r \in Runs, RunOK, Abort(r), Running(r)
  PROVE  Keeps(r)
<1>1. UNCHANGED <<disk, durable, prev, tx>>
  BY DEF Abort
<1>2. KeepsLock
  BY <1>1 DEF KeepsLock
<1>3. CASE RollsBack(r)
  <2>1. pc' = [pc EXCEPT ![r] = "guard"] /\ move' = [move EXCEPT ![r] = "rollback"] /\ outcome' = outcome
    BY <1>3 DEF Abort, Goto
  <2>2. pc[r] \in Holding
    BY <1>3 DEF RollsBack, Holding, Labels
  <2> QED BY <1>1, <1>2, <2>1, <2>2 DEF Keeps, Moves, RunOK, Labels, UsesPrevious, Renaming
<1>4. CASE ~RollsBack(r) /\ pc[r] \in {"preflight", "acquire"}
  <2>1. End(r, "done", "failed") /\ UNCHANGED move
    BY <1>4 DEF Abort
  <2>2. pc' = [pc EXCEPT ![r] = "done"] /\ outcome' = [outcome EXCEPT ![r] = "failed"]
    BY <2>1 DEF End, Goto
  <2> QED BY <1>1, <1>2, <2>1, <2>2 DEF Keeps, Moves, RunOK, Labels, UsesPrevious, Renaming, Holding
<1>5. CASE ~RollsBack(r) /\ pc[r] \in {"close", "unlock"}
  <2>1. pc' = [pc EXCEPT ![r] = "done"] /\ UNCHANGED <<move, outcome>>
    BY <1>5 DEF Abort, Goto
  <2> QED BY <1>1, <1>2, <2>1 DEF Keeps, Moves, RunOK, Labels, UsesPrevious, Renaming, Holding
<1>6. CASE ~RollsBack(r) /\ pc[r] = "journalWrite"
  <2>1. pc' = [pc EXCEPT ![r] = "journalCleanup"] /\ UNCHANGED <<move, outcome>>
    BY <1>6 DEF Abort, Goto
  <2> QED BY <1>1, <1>2, <1>6, <2>1 DEF Keeps, Moves, RunOK, Labels, UsesPrevious, Renaming, Holding
<1>7. CASE ~RollsBack(r) /\ pc[r] \notin {"preflight", "acquire", "close", "unlock", "journalWrite"}
  <2>1. End(r, "close", "failed") /\ UNCHANGED move
    BY <1>7 DEF Abort
  <2>2. pc' = [pc EXCEPT ![r] = "close"] /\ outcome' = [outcome EXCEPT ![r] = "failed"]
    BY <2>1 DEF End, Goto
  <2>3. pc[r] \in Holding
    BY <1>7 DEF Running, Holding, RunOK
  <2> QED BY <1>1, <1>2, <2>1, <2>2, <2>3 DEF Keeps, Moves, RunOK, Labels, UsesPrevious, Renaming
<1> QED BY <1>3, <1>4, <1>5, <1>6, <1>7

LEMMA WriteKeeps ==
  ASSUME NEW d \in Disks, d.lock = disk.lock, d.lost = disk.lost, Write(d) \/ Commit(d)
  PROVE  KeepsLock
BY DEF KeepsLock

LEMMA ReadKeeps ==
  ASSUME Read
  PROVE  KeepsLock
BY DEF KeepsLock, Read

\* The disk with or without the fresh entries of .staging.
Swept == {disk, [disk EXCEPT !.fresh = @ \ Staging]}

LEMMA SweptSame ==
  ASSUME DiskOK, NEW d \in Swept
  PROVE  d \in Disks /\ d.lock = disk.lock /\ d.lost = disk.lost /\ d.journal = disk.journal /\ d.tree = disk.tree
BY DEF DiskOK, Swept, Disks

LEMMA SyncKeeps ==
  ASSUME DiskOK, Sync \/ \E r : RenameSynced(r)
  PROVE  KeepsLock
<1>1. PICK d \in Swept : Commit(d)
  BY DEF Sync, RenameSynced, Swept
<1> QED BY <1>1, SweptSame, WriteKeeps

LEMMA RefuseKeeps ==
  ASSUME NEW r \in Runs, RunOK, Refuse(r), pc[r] \in Holding
  PROVE  Keeps(r)
<1>1. pc' = [pc EXCEPT ![r] = "close"] /\ outcome' = [outcome EXCEPT ![r] = "refused"]
  BY DEF Refuse, End, Goto
<1>2. UNCHANGED <<move, prev, tx>> /\ KeepsLock
  BY ReadKeeps DEF Refuse
<1> QED BY <1>1, <1>2 DEF Keeps, Moves, RunOK, Labels, UsesPrevious, Renaming

LEMMA PreflightKeeps ==
  ASSUME NEW r \in Runs, RunOK, Preflight(r)
  PROVE  Keeps(r)
<1>1. KeepsLock /\ UNCHANGED <<move, prev, tx>>
  BY ReadKeeps DEF Preflight
<1>2. CASE Incompatible(disk)
  <2>1. pc' = [pc EXCEPT ![r] = "done"] /\ outcome' = [outcome EXCEPT ![r] = "refused"]
    BY <1>2 DEF Preflight, End, Goto
  <2> QED BY <1>1, <2>1 DEF Keeps, Moves, RunOK, Labels, UsesPrevious, Renaming, Holding
<1>3. CASE ~Incompatible(disk)
  <2>1. pc' = [pc EXCEPT ![r] = "acquire"] /\ UNCHANGED outcome
    BY <1>3 DEF Preflight, Goto
  <2> QED BY <1>1, <2>1 DEF Keeps, Moves, RunOK, Labels, UsesPrevious, Renaming, Holding
<1> QED BY <1>2, <1>3

LEMMA RecoverKeeps ==
  ASSUME NEW r \in Runs, RunOK, DiskOK, Recover(r)
  PROVE  Keeps(r)
<1>0. pc[r] = "recover" /\ pc[r] \in Holding /\ Running(r) /\ disk.journal \in Journals
  BY DEF Recover, Holding, Labels, Running, DiskOK, Disks
<1>1. CASE Step(r, "recover", ReadFirst) /\ Read
  BY <1>0, <1>1, StepKeeps, ReadKeeps DEF Keeps, ReadFirst, Labels, UsesPrevious, Renaming, Holding
<1>2. CASE /\ Goto(r, "journalCheck") \/ Goto(r, "copy")
           /\ tx' = [tx EXCEPT ![r] = disk.journal] /\ disk.journal.form = "whole"
           /\ Read /\ UNCHANGED <<move, prev, outcome>>
  <2>1. KeepsLock
    BY <1>2, ReadKeeps
  <2>2. disk.journal # NoJournal
    BY <1>2, <1>0 DEF NoJournal
  <2> QED BY <1>0, <1>2, <2>1, <2>2 DEF Keeps, Goto, Moves, RunOK, Labels, UsesPrevious, Renaming
<1>3. CASE Refuse(r)
  BY <1>0, <1>3, RefuseKeeps
<1>4. CASE Abort(r)
  BY <1>0, <1>4, AbortKeeps
<1> QED BY <1>1, <1>2, <1>3, <1>4 DEF Recover

\* A run that copies does so for a journal, which names the run to expect.
LEMMA ExpectedIsRun ==
  ASSUME NEW j \in Journals \ {NoJournal}
  PROVE  ExpectedRun(j) \in Runs
BY RunsAssumption DEF Journals, NoJournal, ExpectedRun

LEMMA StagingEntries ==
  Snapshots \in Entries /\ \A r \in Runs : Place("stage", r) \in Entries /\ Place("recovery", r) \in Entries
BY DEF Entries, Staging, Place

LEMMA CopyKeeps ==
  ASSUME NEW r \in Runs, RunOK, DiskOK, Copy(r)
  PROVE  Keeps(r)
<1>0. pc[r] \in {"copy", "copying"} /\ pc[r] \in Holding /\ Running(r)
  BY DEF Copy, Holding, Labels, Running
<1>1. CASE Abort(r)
  BY <1>0, <1>1, AbortKeeps
<1>2. ExpectedRun(tx[r]) \in Runs
  BY <1>0, ExpectedIsRun DEF RunOK
<1>3. /\ [Whole(ExpectedRun(tx[r])) EXCEPT !.form = "partial"] \in Trees
      /\ Whole(ExpectedRun(tx[r])) \in Trees
  BY <1>2 DEF Whole, Trees, Forms
<1>4. CASE /\ Step(r, "copy", "copying")
           /\ Write(Made(Put(Place("recovery", r), [Whole(ExpectedRun(tx[r])) EXCEPT !.form = "partial"]),
                         Place("recovery", r)))
  <2>1. KeepsLock
    BY <1>3, <1>4, Shapes, PutKeeps, StagingEntries, WriteKeeps DEF Puts
  <2> QED BY <1>4, <2>1, StepKeeps DEF Keeps, Labels, UsesPrevious, Renaming, Holding
<1>5. CASE /\ Start(r, "recovery") /\ UNCHANGED <<prev, tx, outcome>>
           /\ Commit(Put(Place("recovery", r), Whole(ExpectedRun(tx[r]))))
  <2>1. KeepsLock
    BY <1>3, <1>5, Shapes, PutKeeps, WriteKeeps DEF Puts
  <2> QED BY <1>0, <1>5, <2>1 DEF Keeps, Start, Goto, Moves, RunOK, Labels, UsesPrevious, Renaming
<1> QED BY <1>1, <1>4, <1>5 DEF Copy

LEMMA ReadPreviousKeeps ==
  ASSUME NEW r \in Runs, RunOK, DiskOK, ReadPrevious(r)
  PROVE  Keeps(r)
<1>0. pc[r] = "read" /\ pc[r] \in Holding
  BY DEF ReadPrevious, Holding, Labels
<1>1. CASE ~Readable(disk)
  BY <1>0, <1>1, RefuseKeeps DEF ReadPrevious
<1>2. CASE Readable(disk)
  <2>1. /\ pc' = [pc EXCEPT ![r] = "stage"] /\ UNCHANGED <<move, tx, outcome>> /\ KeepsLock
        /\ prev' = [prev EXCEPT ![r] = disk.tree[Target].of]
    BY <1>2, ReadKeeps DEF ReadPrevious, Goto
  <2>2. disk.tree[Target].of \in Runs \cup {NoRun} /\ disk.tree[Target].of # Unread
    BY Shapes, RunsAssumption DEF DiskOK, Disks, Trees, NoTree
  <2> QED BY <1>0, <2>1, <2>2 DEF Keeps, Moves, RunOK, Labels, UsesPrevious, Renaming
<1> QED BY <1>1, <1>2

LEMMA StageKeeps ==
  ASSUME NEW r \in Runs, RunOK, DiskOK, Stage(r)
  PROVE  Keeps(r)
<1>0. pc[r] = "stage" /\ Running(r)
  BY DEF Stage, Running
<1>1. CASE ~Owns(r)
  BY <1>0, <1>1, AbortKeeps DEF Stage
<1>2. CASE Owns(r)
  <2>1. KeepsLock
    BY <1>2, Shapes, PutKeeps, StagingEntries, WriteKeeps DEF Stage, Puts
  <2> QED BY <1>2, <2>1, StepKeeps DEF Stage, Keeps, Labels, UsesPrevious, Renaming, Holding
<1> QED BY <1>1, <1>2

LEMMA PublishKeeps ==
  ASSUME NEW r \in Runs, RunOK, DiskOK, Publish(r)
  PROVE  Keeps(r)
<1>0. pc[r] = "publish" /\ Running(r)
  BY DEF Publish, Running
<1>1. CASE Abort(r)
  BY <1>0, <1>1, AbortKeeps
<1>2. CASE Step(r, "publish", "journalOpen") /\ \E d \in Puts(Place("stage", r), Whole(r)) : Commit(d)
  <2>1. KeepsLock
    BY <1>2, Shapes, PutKeeps, WriteKeeps
  <2> QED BY <1>2, <2>1, StepKeeps DEF Keeps, Labels, UsesPrevious, Renaming, Holding
<1> QED BY <1>1, <1>2, StagingEntries DEF Publish, Puts

LEMMA CreateJournalKeeps ==
  ASSUME NEW r \in Runs, RunOK, DiskOK, CreateJournal(r)
  PROVE  Keeps(r)
<1>0. /\ pc[r] \in {"journalOpen", "journalCreate", "journalWrite", "journalSync", "journalCleanup"}
      /\ pc[r] \in Holding /\ Running(r)
  BY DEF CreateJournal, Holding, Labels, Running
<1>1. CASE Abort(r)
  BY <1>0, <1>1, AbortKeeps
<1>2. CASE Step(r, "journalOpen", "journalCreate") /\ Read
  BY <1>2, StepKeeps, ReadKeeps DEF Keeps, Labels, UsesPrevious, Renaming, Holding
<1>3. CASE /\ pc[r] = "journalCreate" /\ Goto(r, "journalWrite")
           /\ tx' = [tx EXCEPT ![r] = JournalOf(r)]
           /\ Write([disk EXCEPT !.journal = [JournalOf(r) EXCEPT !.form = "partial"]])
           /\ UNCHANGED <<move, prev, outcome>>
  <2>1. prev[r] \in Runs \cup {NoRun}
    BY <1>3 DEF RunOK, UsesPrevious
  <2>2. JournalOf(r) \in Journals /\ [JournalOf(r) EXCEPT !.form = "partial"] \in Journals
    BY <2>1 DEF JournalOf, Journals
  <2>3. KeepsLock
    BY <1>3, <2>2, JournalKeeps, WriteKeeps
  <2> QED BY <1>0, <1>3, <2>2, <2>3 DEF Keeps, Goto, Moves, RunOK, Labels, UsesPrevious, Renaming
<1>4. CASE /\ disk.journal.run = r /\ Step(r, "journalWrite", "journalSync")
           /\ Write([disk EXCEPT !.journal.form = "whole"])
  <2>1. [disk.journal EXCEPT !.form = "whole"] \in Journals
    BY <1>4, RunsAssumption DEF DiskOK, Disks, Journals, NoJournal
  <2>2. [disk EXCEPT !.journal.form = "whole"] = [disk EXCEPT !.journal = [disk.journal EXCEPT !.form = "whole"]]
    BY DEF DiskOK, Disks
  <2>3. KeepsLock
    BY <1>4, <2>1, <2>2, JournalKeeps, WriteKeeps
  <2> QED BY <1>4, <2>3, StepKeeps DEF Keeps, Labels, UsesPrevious, Renaming, Holding
<1>5. CASE Step(r, "journalWrite", "journalSync") /\ Read
  BY <1>5, StepKeeps, ReadKeeps DEF Keeps, Labels, UsesPrevious, Renaming, Holding
<1>6. CASE /\ Start(r, IF prev[r] # NoRun THEN "snapshot" ELSE "promote")
           /\ JournalSynced /\ UNCHANGED <<prev, tx, outcome>>
  <2>1. KeepsLock
    BY <1>6, SyncKeeps DEF JournalSynced
  <2> QED BY <1>0, <1>6, <2>1 DEF Keeps, Start, Goto, Moves, RunOK, Labels, UsesPrevious, Renaming
<1>7. CASE /\ End(r, "close", "failed") /\ UNCHANGED <<move, prev, tx>>
           /\ Write([disk EXCEPT !.journal = NoJournal]) \/ Read
  <2>1. KeepsLock
    BY <1>7, Shapes, JournalKeeps, WriteKeeps, ReadKeeps
  <2> QED BY <1>0, <1>7, <2>1 DEF Keeps, End, Goto, Moves, RunOK, Labels, UsesPrevious, Renaming
<1> QED BY <1>1, <1>2, <1>3, <1>4, <1>5, <1>6, <1>7 DEF CreateJournal

LEMMA RenameKeeps ==
  ASSUME NEW r \in Runs, RunOK, DiskOK, Rename(r)
  PROVE  Keeps(r)
<1>0. pc[r] \in {"guard", "rename", "renamed", "moveSync"} /\ pc[r] \in Holding /\ Running(r)
  BY DEF Rename, Step, Holding, Labels, Running
<1>1. CASE Abort(r)
  BY <1>0, <1>1, AbortKeeps
<1>2. CASE (Step(r, "guard", "rename") \/ Step(r, "renamed", "moveSync")) /\ Read
  BY <1>2, StepKeeps, ReadKeeps DEF Keeps, Labels, UsesPrevious, Renaming, Holding
<1>3. CASE /\ Present(disk, From(r)) /\ Step(r, "rename", "renamed")
           /\ Write(Renamed(From(r), To(r)))
  <2>1. move[r] \in {"recovery", "snapshot", "promote", "rollback"}
    BY <1>0 DEF RunOK, Renaming
  <2>2. From(r) \in Places
    BY <2>1, Shapes DEF From
  <2>3. To(r) \in Places
    BY Shapes DEF To
  <2>4. KeepsLock
    BY <1>3, <2>2, <2>3, RenamedKeeps, WriteKeeps
  <2> QED BY <1>3, <2>4, StepKeeps DEF Keeps, Labels, UsesPrevious, Renaming, Holding
<1>4. CASE pc[r] = "moveSync" /\ RenameSynced(r) /\ UNCHANGED <<prev, tx>>
           /\ \/ Start(r, "promote") /\ UNCHANGED outcome
              \/ End(r, "close", "failed") /\ UNCHANGED move
              \/ Goto(r, "journalCheck") /\ UNCHANGED <<move, outcome>>
  <2>1. KeepsLock
    BY <1>4, SyncKeeps
  <2>2. CASE Start(r, "promote") /\ UNCHANGED outcome
    BY <1>0, <1>4, <2>1, <2>2 DEF Start, Keeps, Goto, Moves, RunOK, Labels, UsesPrevious, Renaming
  <2>3. CASE End(r, "close", "failed") /\ UNCHANGED move
    BY <1>0, <1>4, <2>1, <2>3 DEF End, Keeps, Goto, Moves, RunOK, Labels, UsesPrevious, Renaming
  <2>4. CASE Goto(r, "journalCheck") /\ UNCHANGED <<move, outcome>>
    BY <1>0, <1>4, <2>1, <2>4 DEF Keeps, Goto, Moves, RunOK, Labels, UsesPrevious, Renaming
  <2> QED BY <1>4, <2>2, <2>3, <2>4
<1> QED BY <1>1, <1>2, <1>3, <1>4 DEF Rename

LEMMA PublishedKeeps ==
  ASSUME NEW r \in Runs, RunOK, KeepsLock, pc[r] \in Holding, Published(r), UNCHANGED <<move, prev, tx>>
  PROVE  Keeps(r)
BY DEF Published, End, Keeps, Goto, Moves, RunOK, Labels, UsesPrevious, Renaming

LEMMA RemoveJournalKeeps ==
  ASSUME NEW r \in Runs, RunOK, DiskOK, RemoveJournal(r)
  PROVE  Keeps(r)
<1>0. pc[r] \in {"journalCheck", "journalRemove", "journalGone"} /\ pc[r] \in Holding /\ Running(r)
  BY DEF RemoveJournal, Step, Holding, Labels, Running
<1>1. CASE Abort(r)
  BY <1>0, <1>1, AbortKeeps
<1>2. CASE Step(r, "journalCheck", "journalRemove") /\ Read
  BY <1>2, StepKeeps, ReadKeeps DEF Keeps, Labels, UsesPrevious, Renaming, Holding
<1>3. CASE Step(r, "journalRemove", "journalGone") /\ Write([disk EXCEPT !.journal = NoJournal])
  <2>1. KeepsLock
    BY <1>3, Shapes, JournalKeeps, WriteKeeps
  <2> QED BY <1>3, <2>1, StepKeeps DEF Keeps, Labels, UsesPrevious, Renaming, Holding
<1>4. CASE pc[r] = "journalGone" /\ Sync /\ UNCHANGED <<move, prev, tx>>
           /\ \/ Goto(r, "read") /\ UNCHANGED outcome
              \/ Goto(r, "drop") /\ UNCHANGED outcome
              \/ Published(r)
  <2>1. KeepsLock
    BY <1>4, SyncKeeps
  <2>2. CASE (Goto(r, "read") \/ Goto(r, "drop")) /\ UNCHANGED outcome
    BY <1>0, <1>4, <2>1, <2>2 DEF Keeps, Goto, Moves, RunOK, Labels, UsesPrevious, Renaming
  <2>3. CASE Published(r)
    BY <1>0, <1>4, <2>1, <2>3, PublishedKeeps
  <2> QED BY <1>4, <2>2, <2>3
<1> QED BY <1>1, <1>2, <1>3, <1>4 DEF RemoveJournal

LEMMA DropRecordsKeeps ==
  ASSUME NEW r \in Runs, RunOK, DiskOK, DropRecords(r)
  PROVE  Keeps(r)
<1>0. pc[r] \in {"drop", "strip", "dropSync", "prune"} /\ pc[r] \in Holding /\ Running(r)
  BY DEF DropRecords, Step, Holding, Labels, Running
<1>1. CASE Abort(r)
  BY <1>0, <1>1, AbortKeeps
<1>2. CASE Step(r, "drop", "strip") /\ Read
  BY <1>2, StepKeeps, ReadKeeps DEF Keeps, Labels, UsesPrevious, Renaming, Holding
<1>3. CASE /\ disk.tree[Target].form \in {"whole", "stripped"}
           /\ \/ /\ Step(r, "strip", "strip")
                 /\ Write([disk EXCEPT !.tree[Target].form = "stripped"])
              \/ /\ Step(r, "strip", "dropSync")
                 /\ Write([disk EXCEPT !.tree[Target].form = "pdfs"])
  <2>1. Present(disk, Target)
    BY <1>3 DEF Present
  <2>2. KeepsLock
    BY <1>3, <2>1, FormKeeps, WriteKeeps DEF Forms
  <2> QED BY <1>3, <2>2, StepKeeps DEF Keeps, Labels, UsesPrevious, Renaming, Holding
<1>4. CASE Step(r, "dropSync", "prune") /\ Sync
  BY <1>4, StepKeeps, SyncKeeps DEF Keeps, Labels, UsesPrevious, Renaming, Holding
<1>5. ASSUME NEW s \in Runs, Step(r, "prune", "prune"), Write(Put(Place("snapshot", s), NoTree))
      PROVE  Keeps(r)
  <2>1. KeepsLock
    BY <1>5, Shapes, PutKeeps, WriteKeeps DEF Puts
  <2> QED BY <1>5, <2>1, StepKeeps DEF Keeps, Labels, UsesPrevious, Renaming, Holding
<1>6. CASE Published(r) /\ Read /\ UNCHANGED <<move, prev, tx>>
  BY <1>0, <1>6, ReadKeeps, PublishedKeeps
<1> QED BY <1>1, <1>2, <1>3, <1>4, <1>5, <1>6 DEF DropRecords

LEMMA FaultKeeps ==
  ASSUME NEW r \in Runs, RunOK, Fault(r)
  PROVE  Keeps(r)
BY AbortKeeps DEF Fault

LEMMA CrashKeeps ==
  ASSUME NEW r \in Runs, RunOK, Crash(r)
  PROVE  Keeps(r)
BY ReadKeeps DEF Crash, Keeps, Goto, Moves, RunOK, Labels, UsesPrevious, Renaming, Holding

LEMMA RunStepKeeps ==
  ASSUME NEW r \in Runs, RunOK, DiskOK, RunStep(r) \/ Fault(r) \/ Crash(r), ~Acquire(r), ~Close(r)
  PROVE  Keeps(r)
BY PreflightKeeps, RecoverKeeps, CopyKeeps, ReadPreviousKeeps, StageKeeps, PublishKeeps,
   CreateJournalKeeps, RenameKeeps, RemoveJournalKeeps, DropRecordsKeeps, FaultKeeps, CrashKeeps
   DEF RunStep

-----------------------------------------------------------------------------
(* The steps that change the lock file.                                    *)

LEMMA LockLemma ==
  ASSUME DiskOK, NEW o \in Runs \cup {NoRun}
  PROVE  LET d == [disk EXCEPT !.lock = o] IN d \in Disks /\ d.lock = o /\ d.lost = disk.lost
BY DEF DiskOK, Disks

LEMMA AcquireLemma ==
  ASSUME NEW r \in Runs, RunOK, DiskOK, Acquire(r)
  PROVE  /\ RunOK' /\ DiskOK'
         /\ \/ disk.lock = NoRun /\ disk'.lock = r /\ pc' = [pc EXCEPT ![r] = "recover"]
            \/ disk'.lock = disk.lock /\ pc' = [pc EXCEPT ![r] = "done"]
<1>1. CASE LockAbsent /\ Step(r, "acquire", "recover") /\ Commit([disk EXCEPT !.lock = r])
  <2>1. pc' = [pc EXCEPT ![r] = "recover"] /\ UNCHANGED <<move, prev, tx, outcome>>
    BY <1>1 DEF Step, Goto
  <2>2. DiskOK' /\ disk'.lock = r /\ disk.lock = NoRun
    BY <1>1, LockLemma DEF Commit, DiskOK, LockAbsent
  <2> QED BY <2>1, <2>2 DEF RunOK, Labels, UsesPrevious, Renaming
<1>2. CASE pc[r] = "acquire" /\ End(r, "done", "locked") /\ Read /\ UNCHANGED <<move, prev, tx>>
  <2>1. pc' = [pc EXCEPT ![r] = "done"] /\ outcome' = [outcome EXCEPT ![r] = "locked"]
    BY <1>2 DEF End, Goto
  <2>2. DiskOK' /\ disk'.lock = disk.lock
    BY <1>2, ReadKeeps, KeepsDisk
  <2> QED BY <1>2, <2>1, <2>2 DEF RunOK, Labels, UsesPrevious, Renaming
<1> QED BY <1>1, <1>2 DEF Acquire

LEMMA CloseLemma ==
  ASSUME NEW r \in Runs, RunOK, DiskOK, Close(r)
  PROVE  \/ Keeps(r)
         \/ /\ RunOK' /\ DiskOK'
            /\ pc[r] = "unlock" /\ pc' = [pc EXCEPT ![r] = "done"] /\ disk'.lock = NoRun
<1>1. CASE pc[r] = "close" /\ Abort(r)
  BY <1>1, AbortKeeps DEF Running
<1>2. CASE Step(r, "close", "unlock") /\ Read
  BY <1>2, StepKeeps, ReadKeeps DEF Keeps, Labels, UsesPrevious, Renaming, Holding
<1>3. CASE /\ Step(r, "unlock", "done")
           /\ Commit([disk EXCEPT !.lock = NoRun]) \/ Write([disk EXCEPT !.lock = NoRun])
  <2>1. pc[r] = "unlock" /\ pc' = [pc EXCEPT ![r] = "done"]
    BY <1>3 DEF Step, Goto
  <2>2. RunOK'
    BY <1>3, StepKeeps DEF Labels, UsesPrevious, Renaming, Holding
  <2>3. DiskOK' /\ disk'.lock = NoRun
    BY <1>3, LockLemma DEF Commit, Write, DiskOK
  <2> QED BY <2>1, <2>2, <2>3
<1> QED BY <1>1, <1>2, <1>3 DEF Close

LEMMA SurvivorsOK ==
  ASSUME DiskOK
  PROVE  Survivors \subseteq Disks
BY DEF Survivors, DiskOK, Disks

\* What a power loss leaves of a disk.
LEMMA WithoutOK ==
  ASSUME NEW d \in Disks, NEW gone
  PROVE  /\ Without(d, gone) \in Disks
         /\ Without(d, gone).journal = d.journal /\ Without(d, gone).fresh = {}
         /\ d.lost \subseteq Without(d, gone).lost
         /\ \A p \in Places :
              \/ Without(d, gone).tree[p] = d.tree[p]
              \/ /\ p \in Taken(d, gone) /\ Without(d, gone).tree[p] = NoTree
                 /\ d.tree[p].form = "whole" => <<p, d.tree[p]>> \in Without(d, gone).lost
<1> DEFINE kept == [p \in Places |-> IF p \in Taken(d, gone) THEN NoTree ELSE d.tree[p]]
           more == {<<p, d.tree[p]>> : p \in {q \in Taken(d, gone) : d.tree[q].form = "whole"}}
<1>1. Taken(d, gone) \subseteq Places
  BY DEF Taken
<1>2. kept \in [Places -> Trees]
  BY Shapes DEF Disks
<1>3. more \subseteq Places \X Trees
  BY <1>1 DEF Disks
<1>4. Without(d, gone) = [d EXCEPT !.tree = kept, !.fresh = {}, !.lost = d.lost \cup more]
  BY DEF Without, Disks
<1>5. \A p \in Places : kept[p] = IF p \in Taken(d, gone) THEN NoTree ELSE d.tree[p]
  OBVIOUS
<1>6. \A p \in Taken(d, gone) : d.tree[p].form = "whole" => <<p, d.tree[p]>> \in more
  OBVIOUS
<1> HIDE DEF kept, more
<1>7. Without(d, gone).tree = kept /\ Without(d, gone).lost = d.lost \cup more
  BY <1>4 DEF Disks
<1> QED BY <1>2, <1>3, <1>4, <1>5, <1>6, <1>7 DEF Disks

LEMMA PowerLossLemma ==
  ASSUME RunOK, DiskOK, PowerLoss
  PROVE  RunOK' /\ DiskOK' /\ \A r \in Runs : pc'[r] \notin Holding
<1>0. PICK d \in Disks : \E gone \in SUBSET d.fresh : Commit(Without(d, gone))
  BY SurvivorsOK DEF PowerLoss
<1>1. PICK gone \in SUBSET d.fresh : Commit(Without(d, gone))
  BY <1>0
<1>2. DiskOK'
  BY <1>1, WithoutOK DEF Commit, DiskOK
<1>3. \A r \in Runs : /\ (pc'[r] = pc[r] \/ pc'[r] = "crashed")
                      /\ pc'[r] \in {"preflight", "done", "crashed"}
  BY DEF PowerLoss, Running
<1>4. pc' \in [Runs -> Labels]
  BY DEF PowerLoss, RunOK, Labels
<1>5. RunOK'
  BY <1>3, <1>4 DEF PowerLoss, RunOK, UsesPrevious, Renaming
<1> QED BY <1>2, <1>3, <1>5 DEF Holding

LEMMA RemoveLockLemma ==
  ASSUME RunOK, DiskOK, RemoveLock
  PROVE  RunOK' /\ DiskOK' /\ pc' = pc
<1>1. DiskOK'
  BY LockLemma DEF RemoveLock, Commit, DiskOK
<1> QED BY <1>1 DEF RemoveLock, RunOK

LEMMA StutterLemma ==
  ASSUME RunOK, DiskOK, UNCHANGED vars
  PROVE  RunOK' /\ DiskOK'
BY DEF vars, RunOK, DiskOK

-----------------------------------------------------------------------------
(* The types, and one owner.                                               *)

LEMMA InitOK == Init => RunOK /\ DiskOK /\ OneOwner
<1> SUFFICES ASSUME Init PROVE RunOK /\ DiskOK /\ OneOwner
  OBVIOUS
<1>1. [p \in Places |-> NoTree] \in [Places -> Trees]
  BY Shapes
<1>2. DiskOK
  BY <1>1, Shapes DEF Init, DiskOK, Disks
<1>3. RunOK
  BY Shapes DEF Init, RunOK, Labels, UsesPrevious, Renaming
<1>4. OneOwner
  BY DEF Init, OneOwner, Holding
<1> QED BY <1>2, <1>3, <1>4

LEMMA TypesStep ==
  ASSUME RunOK, DiskOK, [Next]_vars
  PROVE  RunOK' /\ DiskOK'
<1>1. ASSUME NEW r \in Runs, RunStep(r) \/ Fault(r) \/ Crash(r)
      PROVE  RunOK' /\ DiskOK'
  <2>1. CASE Acquire(r)
    BY <2>1, AcquireLemma
  <2>2. CASE Close(r)
    BY <2>2, CloseLemma, KeepsDisk DEF Keeps
  <2>3. CASE ~Acquire(r) /\ ~Close(r)
    BY <1>1, <2>3, RunStepKeeps, KeepsDisk DEF Keeps
  <2> QED BY <2>1, <2>2, <2>3
<1>2. CASE PowerLoss
  BY <1>2, PowerLossLemma
<1>3. CASE RemoveLock
  BY <1>3, RemoveLockLemma
<1>4. CASE Finished \/ UNCHANGED vars
  BY <1>4, StutterLemma DEF Finished
<1> QED BY <1>1, <1>2, <1>3, <1>4 DEF Next

\* The variables keep their types, and a run reads Run.previous before it uses it.
THEOREM TypeCorrect == Spec => []TypeOK
<1>1. Init => RunOK /\ DiskOK
  BY InitOK
<1>2. RunOK /\ DiskOK /\ [Next]_vars => (RunOK /\ DiskOK)'
  BY TypesStep
<1> QED BY <1>1, <1>2, TypeParts, PTL DEF Spec

\* A step of one run that keeps the lock file lets nobody else in.
LEMMA KeepsOwner ==
  ASSUME NEW r \in Runs, RunOK, DiskOK, OneOwner, Keeps(r)
  PROVE  OneOwner'
<1>1. disk'.lock = disk.lock
  BY KeepsDisk DEF Keeps
<1>2. \A q \in Runs : pc'[q] \in Holding => pc[q] \in Holding
  BY DEF Keeps, Moves, RunOK
<1> QED BY <1>1, <1>2 DEF OneOwner, Owns

\* The lock file names the only run between acquire and Close, whatever
\* crashes, as long as a lock is removed only after its owner has stopped
\* (Run.acquire, Run.checkOwnership, Run.Close).
THEOREM OneOwnerAlways == ASSUME ~CarelessOperator PROVE Spec => []OneOwner
<1>1. Init => RunOK /\ DiskOK /\ OneOwner
  BY InitOK
<1>2. RunOK /\ DiskOK /\ OneOwner /\ [Next]_vars => (RunOK /\ DiskOK /\ OneOwner)'
  <2> SUFFICES ASSUME RunOK, DiskOK, OneOwner, [Next]_vars PROVE OneOwner'
    BY TypesStep
  <2>1. ASSUME NEW r \in Runs, RunStep(r) \/ Fault(r) \/ Crash(r) PROVE OneOwner'
    <3>1. CASE Acquire(r)
      <4>1. CASE disk.lock = NoRun /\ disk'.lock = r /\ pc' = [pc EXCEPT ![r] = "recover"]
        <5>1. \A q \in Runs : pc[q] \notin Holding
          BY <4>1, RunsAssumption DEF OneOwner, Owns
        <5> QED BY <4>1, <5>1 DEF OneOwner, Owns, RunOK
      <4>2. CASE disk'.lock = disk.lock /\ pc' = [pc EXCEPT ![r] = "done"]
        BY <4>2 DEF OneOwner, Owns, RunOK, Holding
      <4> QED BY <3>1, <4>1, <4>2, AcquireLemma
    <3>2. CASE Close(r)
      <4>1. CASE Keeps(r)
        BY <4>1, KeepsOwner
      <4>2. CASE pc[r] = "unlock" /\ pc' = [pc EXCEPT ![r] = "done"] /\ disk'.lock = NoRun
        <5>1. pc[r] \in Holding
          BY <4>2 DEF Holding, Labels
        <5>2. \A q \in Runs \ {r} : pc[q] \notin Holding
          BY <5>1 DEF OneOwner, Owns
        <5> QED BY <4>2, <5>2 DEF OneOwner, Owns, RunOK, Holding
      <4> QED BY <3>2, <4>1, <4>2, CloseLemma
    <3>3. CASE ~Acquire(r) /\ ~Close(r)
      BY <2>1, <3>3, RunStepKeeps, KeepsOwner
    <3> QED BY <3>1, <3>2, <3>3
  <2>2. CASE PowerLoss
    BY <2>2, PowerLossLemma DEF OneOwner
  <2>3. CASE RemoveLock
    <3>1. ~Running(disk.lock) /\ pc' = pc
      BY <2>3, RemoveLockLemma DEF RemoveLock
    <3>2. \A q \in Runs : pc[q] \notin Holding
      BY <3>1 DEF OneOwner, Owns, Running, Holding
    <3> QED BY <3>1, <3>2 DEF OneOwner
  <2>4. CASE Finished \/ UNCHANGED vars
    BY <2>4 DEF Finished, vars, OneOwner, Owns
  <2> QED BY <2>1, <2>2, <2>3, <2>4 DEF Next
<1> QED BY <1>1, <1>2, PTL DEF Spec

-----------------------------------------------------------------------------
(* Crash recovery.                                                         *)

Synced == durable = {disk}
SameJournal == \A d \in durable : d.journal = disk.journal
SameTrees == \A d \in durable : d.tree = disk.tree

Snapshot(r) == Place("snapshot", r)
Staged(r) == Place("stage", r)
Holds(place, r) == disk.tree[place] = Whole(r)
Empty(place) == disk.tree[place] = NoTree

-----------------------------------------------------------------------------
(* What the run at work knows, by label.                                   *)

Recovering(r) ==
  /\ pc[r] = "recover" => Synced
  /\ pc[r] \in {"copy", "copying"} =>
       /\ disk.journal = tx[r] /\ tx[r].form = "whole" /\ tx[r].run # r
       /\ Empty(Target) /\ SameJournal
       /\ pc[r] = "copy" => Synced

Opening(r) ==
  /\ pc[r] = "read" => Synced /\ disk.journal = NoJournal
  /\ pc[r] \in {"stage", "publish", "journalOpen", "journalCreate"} =>
       /\ disk.journal = NoJournal /\ SameJournal
       /\ disk.tree[Target].of = prev[r] /\ Readable(disk)
       /\ pc[r] # "publish" => Synced
       /\ pc[r] \in {"journalOpen", "journalCreate"} => Holds(Staged(r), r)

Journaling(r) ==
  /\ pc[r] \in {"journalWrite", "journalSync"} =>
       /\ tx[r] = JournalOf(r) /\ SameTrees
       /\ Holds(Staged(r), r) /\ Empty(Snapshot(r))
       /\ disk.tree[Target].of = prev[r] /\ Readable(disk)
       /\ pc[r] = "journalWrite" => /\ disk.journal = [JournalOf(r) EXCEPT !.form = "partial"]
                                    /\ \A d \in durable : d.journal.form # "whole"
       /\ pc[r] = "journalSync" => disk.journal = JournalOf(r)
  /\ pc[r] = "journalCleanup" => disk.journal.form = "partial" /\ SameTrees

\* Where the tree is that the run renames.
Carried(r) ==
  LET unmoved == pc[r] \in {"guard", "rename"} IN
  /\ move[r] = "recovery" => IF unmoved THEN Empty(Target) /\ Holds(Place("recovery", r), ExpectedRun(tx[r]))
                             ELSE Holds(Target, ExpectedRun(tx[r]))
  /\ move[r] = "snapshot" => /\ Holds(Staged(r), r)
                             /\ IF unmoved THEN Holds(Target, prev[r]) /\ Empty(Snapshot(r))
                                ELSE Empty(Target)
  /\ move[r] = "promote" => IF unmoved THEN Empty(Target) /\ Holds(Staged(r), r) ELSE Holds(Target, r)
  /\ move[r] = "rollback" => /\ pc[r] = "rename" => Empty(Target) /\ Holds(Snapshot(r), prev[r])
                             /\ pc[r] \in {"renamed", "moveSync"} => Holds(Target, prev[r])

Moving(r) ==
  pc[r] \in Renaming =>
    /\ disk.journal = tx[r] /\ tx[r].form = "whole" /\ SameJournal
    /\ move[r] # "rollback" /\ pc[r] \in {"guard", "rename"} => Synced
    /\ IF move[r] = "recovery" THEN tx[r].run # r ELSE tx[r] = JournalOf(r)
    /\ move[r] \in {"snapshot", "rollback"} => prev[r] # NoRun
    /\ Carried(r)

Removing(r) ==
  pc[r] \in {"journalCheck", "journalRemove", "journalGone"} =>
    /\ Present(disk, Target) /\ SameTrees /\ tx[r] # NoJournal
    /\ tx[r].run = r => Holds(Target, r)
    /\ IF pc[r] = "journalGone" THEN disk.journal = NoJournal
       ELSE Synced /\ disk.journal = tx[r] /\ tx[r].form = "whole"

Dropping(r) ==
  pc[r] \in {"drop", "strip", "dropSync", "prune"} =>
    /\ SameJournal /\ disk.journal = NoJournal
    /\ \A d \in durable : Present(d, Target) /\ d.tree[Target].of = r
    /\ pc[r] = "drop" => disk.tree[Target].form = "whole"
    /\ pc[r] = "strip" => disk.tree[Target].form \in {"whole", "stripped"}
    /\ pc[r] \in {"dropSync", "prune"} => disk.tree[Target].form = "pdfs"

AtWork(r) == Recovering(r) /\ Opening(r) /\ Journaling(r) /\ Moving(r) /\ Removing(r) /\ Dropping(r)

-----------------------------------------------------------------------------
(* What every run knows.                                                   *)

\* r has not created its journal.
JournalLater(r) ==
  \/ pc[r] \in {"preflight", "acquire", "recover", "copy", "copying", "read", "stage", "publish",
                "journalOpen", "journalCreate"}
  \/ pc[r] \in Renaming /\ move[r] = "recovery"
  \/ pc[r] \in {"journalCheck", "journalRemove", "journalGone"} /\ tx[r].run # r
ReadsLater(r) == JournalLater(r) /\ pc[r] \notin {"stage", "publish", "journalOpen", "journalCreate"}

Fresh(r) ==
  /\ JournalLater(r) => \A d \in durable : d.journal.run # r /\ d.tree[Snapshot(r)] = NoTree
  /\ ReadsLater(r) => prev[r] = Unread
  /\ pc[r] \notin {"close", "unlock", "done", "crashed"} => outcome[r] = "none"

HealthyOK(r) ==
  r \in Healthy => /\ outcome[r] # "failed" /\ pc[r] # "journalCleanup"
                   /\ pc[r] \in Renaming => move[r] # "rollback"

\* A power loss exposes the same release, or takes back one that was not reported.
Falls(d) ==
  \/ Exposed(d) = Exposed(disk)
  \/ \E r \in Runs : Exposed(disk) = r /\ outcome[r] # "published" /\ Exposed(d) = prev[r]

DurableOK ==
  /\ disk \in durable /\ (SameJournal \/ SameTrees)
  /\ \A d \in durable : /\ Backed(d) /\ Falls(d)
                        /\ d.tree[Target].form = "pdfs" => d.tree[Target] = disk.tree[Target]

RunsAtWork == \A r \in Runs : AtWork(r) /\ Fresh(r) /\ HealthyOK(r)

IInv == DurableOK /\ RunsAtWork

-----------------------------------------------------------------------------
(* What the writes do to the disk.                                         *)

LEMMA PutEffect ==
  ASSUME DiskOK, NEW p \in Places, NEW t \in Trees, NEW d \in Puts(p, t)
  PROVE  /\ d.journal = disk.journal
         /\ d.tree[p] = t
         /\ \A q \in Places \ {p} : d.tree[q] = disk.tree[q]
<1> DEFINE x == Put(p, t)
<1>1. /\ x \in Disks /\ x.journal = disk.journal /\ x.tree[p] = t
      /\ \A q \in Places \ {p} : x.tree[q] = disk.tree[q]
  BY DEF DiskOK, Put, Disks
<1> HIDE DEF x
<1>2. d.journal = x.journal /\ d.tree = x.tree
  BY <1>1 DEF Puts, Made, Disks, x
<1> QED BY <1>1, <1>2

LEMMA RenamedEffect ==
  ASSUME DiskOK, NEW p \in Places, NEW q \in Places, p # q
  PROVE  /\ Renamed(p, q).journal = disk.journal
         /\ Renamed(p, q).tree[p] = NoTree
         /\ Renamed(p, q).tree[q] = disk.tree[p]
         /\ \A o \in Places \ {p, q} : Renamed(p, q).tree[o] = disk.tree[o]
BY DEF DiskOK, Renamed, Disks

LEMMA JournalEffect ==
  ASSUME DiskOK, NEW j \in Journals
  PROVE  /\ [disk EXCEPT !.journal = j].journal = j
         /\ [disk EXCEPT !.journal = j].tree = disk.tree
BY DEF DiskOK, Disks

LEMMA LockEffect ==
  ASSUME DiskOK, NEW o \in Runs \cup {NoRun}
  PROVE  /\ [disk EXCEPT !.lock = o].journal = disk.journal
         /\ [disk EXCEPT !.lock = o].tree = disk.tree
         /\ [disk EXCEPT !.lock = o].fresh = disk.fresh
         /\ [disk EXCEPT !.lock = o].lost = disk.lost
BY DEF DiskOK, Disks

LEMMA FormEffect ==
  ASSUME DiskOK, NEW f \in Forms
  PROVE  LET d == [disk EXCEPT !.tree[Target].form = f] IN
         /\ d.journal = disk.journal
         /\ d.tree[Target] = [disk.tree[Target] EXCEPT !.form = f]
         /\ \A q \in Places \ {Target} : d.tree[q] = disk.tree[q]
BY Shapes DEF DiskOK, Disks

LEMMA PlacesDiffer ==
  ASSUME NEW r \in Runs, NEW s \in Runs
  PROVE  /\ Snapshot(r) # Target /\ Staged(r) # Target /\ Place("recovery", r) # Target
         /\ Snapshot(r) # Staged(s) /\ Snapshot(r) # Place("recovery", s)
         /\ Staged(r) # Place("recovery", s)
         /\ r # s => Snapshot(r) # Snapshot(s) /\ Staged(r) # Staged(s)
         /\ Snapshot(r) \in Places /\ Staged(r) \in Places /\ Place("recovery", r) \in Places
BY Shapes DEF Snapshot, Staged, Place, Target

LEMMA TreeShape ==
  ASSUME DiskOK, NEW d \in durable \cup {disk}, NEW p \in Places
  PROVE  /\ d.tree[p] \in Trees /\ d.journal \in Journals
         /\ d.tree[p].form = "absent" => d.tree[p] = NoTree
         /\ d.tree[p].form # "absent" => d.tree[p].of \in Runs
BY DEF DiskOK, Disks, Trees, NoTree

LEMMA JournalShape ==
  ASSUME NEW j \in Journals
  PROVE  /\ j.form = "absent" => j = NoJournal
         /\ j.form # "absent" => j.run \in Runs /\ j.prev \in Runs \cup {NoRun}
         /\ j = NoJournal => j.form = "absent" /\ j.run = NoRun
BY DEF Journals, NoJournal

-----------------------------------------------------------------------------
(* What is exposed and backed depends on journal and trees only.           *)

LEMMA SameLook ==
  ASSUME NEW d, NEW e, d.journal = e.journal, d.tree = e.tree
  PROVE  Exposed(d) = Exposed(e) /\ (Backed(d) <=> Backed(e))
BY DEF Exposed, Backed, Present, ReadableTarget

\* A survivor looks like a disk that a power loss could leave after one call.
LEMMA Twin ==
  ASSUME DiskOK, DurableOK, NEW d \in Survivors
  PROVE  \E e \in durable : d.journal = e.journal /\ d.tree = e.tree
<1>1. PICK a \in durable, b \in durable : d = [a EXCEPT !.journal = b.journal]
  BY DEF Survivors
<1>2. d.tree = a.tree /\ d.journal = b.journal
  BY <1>1 DEF DiskOK, Disks
<1> QED BY <1>2 DEF DurableOK, SameJournal, SameTrees

-----------------------------------------------------------------------------
(* What a step does to the release folder as others see it.                *)

Mapped == [Register!Next]_(Register!vars)
PdfKept == (\A d \in durable : d.tree[Target].form = "pdfs") => disk'.tree[Target] = disk.tree[Target]
World == DurableOK' /\ Mapped /\ PdfKept

NothingReported == \A r \in Runs : outcome'[r] = "published" <=> outcome[r] = "published"
Grows == disk' \in durable' /\ durable' \subseteq durable \cup {disk'}

\* A step that exposes the same release.
LEMMA WorldKept ==
  ASSUME DurableOK, Grows, NothingReported, UNCHANGED prev,
         Exposed(disk') = Exposed(disk), Backed(disk'), SameJournal' \/ SameTrees',
         disk.tree[Target].form = "pdfs" => disk'.tree[Target] = disk.tree[Target]
  PROVE  World
<1>1. UNCHANGED Register!vars
  BY DEF NothingReported, Register!vars
<1>2. ASSUME NEW d \in durable'
      PROVE  /\ Backed(d)' /\ Falls(d)'
             /\ d.tree[Target].form = "pdfs" => d.tree[Target] = disk'.tree[Target]
  <2>1. CASE d \in durable
    <3>1. Backed(d) /\ Falls(d) /\ (d.tree[Target].form = "pdfs" => d.tree[Target] = disk.tree[Target])
      BY <2>1 DEF DurableOK
    <3>2. Backed(d)'
      BY <3>1 DEF Backed, NothingReported
    <3>3. Falls(d)'
      BY <3>1 DEF Falls, NothingReported
    <3> QED BY <3>1, <3>2, <3>3
  <2>2. CASE d = disk'
    <3>1. Backed(d)'
      BY <2>2 DEF Backed, NothingReported
    <3>2. Falls(d)'
      BY <2>2 DEF Falls
    <3> QED BY <2>2, <3>1, <3>2
  <2> QED BY <2>1, <2>2 DEF Grows
<1>3. DurableOK'
  BY <1>2 DEF DurableOK, Grows
<1> QED BY <1>1, <1>3 DEF World, Mapped, PdfKept, DurableOK

\* A step after which a power loss leaves what the processes see.
LEMMA WorldSynced ==
  ASSUME Synced', Backed(disk)', Mapped,
         disk.tree[Target].form = "pdfs" => disk'.tree[Target] = disk.tree[Target], disk \in durable
  PROVE  World
BY DEF World, PdfKept, DurableOK, Synced, SameJournal, Falls

\* A step that reads.
LEMMA WorldRead ==
  ASSUME DurableOK, Read, NothingReported, UNCHANGED prev
  PROVE  World
<1>1. Backed(disk) /\ Grows /\ Exposed(disk') = Exposed(disk)
  BY DEF Read, DurableOK, Grows
<1>2. SameJournal' \/ SameTrees'
  BY DEF Read, DurableOK, SameJournal, SameTrees
<1>3. Backed(disk')
  BY <1>1 DEF Read
<1> QED BY <1>1, <1>2, <1>3, WorldKept DEF Read

\* A SyncDir.
LEMMA WorldSync ==
  ASSUME DurableOK, disk'.journal = disk.journal, disk'.tree = disk.tree, Grows, SameJournal',
         NothingReported, UNCHANGED prev
  PROVE  World
<1>1. Exposed(disk') = Exposed(disk) /\ Backed(disk')
  BY SameLook DEF DurableOK
<1> QED BY <1>1, WorldKept

-----------------------------------------------------------------------------
(* What a step of one run leaves to the others.                            *)

Local(r) == \A q \in Runs \ {r} : /\ pc'[q] = pc[q] /\ move'[q] = move[q] /\ prev'[q] = prev[q]
                                  /\ tx'[q] = tx[q] /\ outcome'[q] = outcome[q]

\* The journal and the snapshots of the other runs are not r's to make.
Tidy(r) ==
  /\ disk'.journal.run \in {disk.journal.run, r, NoRun}
  /\ \A q \in Runs \ {r} : disk'.tree[Snapshot(q)] \in {disk.tree[Snapshot(q)], NoTree}

Alive(r) == AtWork(r) /\ Fresh(r) /\ HealthyOK(r)

\* A step that reads leaves the others as they are.
LEMMA OthersRead ==
  ASSUME NEW r \in Runs, RunsAtWork, Read, Local(r)
  PROVE  \A q \in Runs \ {r} : Alive(q)'
<1> SUFFICES ASSUME NEW q \in Runs \ {r} PROVE Alive(q)'
  OBVIOUS
<1>0. AtWork(q) /\ Fresh(q) /\ HealthyOK(q)
  BY DEF RunsAtWork
<1>1. disk' = disk /\ durable' = durable
  BY DEF Read
<1>2. pc'[q] = pc[q] /\ move'[q] = move[q] /\ prev'[q] = prev[q] /\ tx'[q] = tx[q] /\ outcome'[q] = outcome[q]
  BY DEF Local
<1>3. Recovering(q)' /\ Opening(q)'
  BY <1>0, <1>1, <1>2 DEF AtWork, Recovering, Opening, Empty, Synced, SameJournal, Readable, Holds, Staged
<1>4. Journaling(q)'
  BY <1>0, <1>1, <1>2 DEF AtWork, Journaling, SameTrees, Holds, Empty, Readable, JournalOf, Staged, Snapshot
<1>5. Carried(q)' = Carried(q)
  BY <1>1, <1>2 DEF Carried, Holds, Empty
<1>6. Moving(q)'
  BY <1>0, <1>1, <1>2, <1>5 DEF AtWork, Moving, Synced, SameJournal, JournalOf
<1>7. Removing(q)' /\ Dropping(q)'
  BY <1>0, <1>1, <1>2 DEF AtWork, Removing, Dropping, Synced, SameJournal, SameTrees, Present, Holds
<1>8. Fresh(q)' /\ HealthyOK(q)'
  BY <1>0, <1>1, <1>2 DEF Fresh, JournalLater, ReadsLater, HealthyOK
<1> QED BY <1>3, <1>4, <1>6, <1>7, <1>8 DEF Alive, AtWork

\* A run that does not hold the folder knows nothing of it.
LEMMA Idle ==
  ASSUME NEW r, pc'[r] \notin Holding \/ pc'[r] \in {"close", "unlock"}, pc'[r] \in Labels
  PROVE  AtWork(r)'
<1>1. pc'[r] \in {"preflight", "acquire", "done", "crashed", "close", "unlock"}
  BY DEF Holding
<1> QED BY <1>1 DEF AtWork, Recovering, Opening, Journaling, Moving, Removing, Dropping, Renaming

\* A step of the run at work leaves the others, who are not, as they are.
LEMMA OthersIdle ==
  ASSUME NEW r \in Runs, RunOK', RunsAtWork, DurableOK, Grows, Local(r), Tidy(r),
         \A q \in Runs \ {r} : pc[q] \notin Holding
  PROVE  \A q \in Runs \ {r} : Alive(q)'
<1> SUFFICES ASSUME NEW q \in Runs \ {r} PROVE Alive(q)'
  OBVIOUS
<1>0. Fresh(q) /\ HealthyOK(q)
  BY DEF RunsAtWork
<1>1. pc'[q] = pc[q] /\ move'[q] = move[q] /\ prev'[q] = prev[q] /\ tx'[q] = tx[q] /\ outcome'[q] = outcome[q]
  BY DEF Local
<1>2. AtWork(q)'
  <2>1. pc'[q] \in Labels /\ pc'[q] \notin Holding
    BY <1>1 DEF RunOK
  <2> QED BY <2>1, Idle
<1>3. ASSUME JournalLater(q), NEW d \in durable'
      PROVE  d.journal.run # q /\ d.tree[Snapshot(q)] = NoTree
  <2>1. CASE d \in durable
    BY <2>1, <1>0, <1>3 DEF Fresh
  <2>2. CASE d = disk'
    <3>1. disk.journal.run # q /\ disk.tree[Snapshot(q)] = NoTree
      BY <1>0, <1>3 DEF Fresh, DurableOK
    <3>2. disk'.journal.run # q
      BY <3>1, RunsAssumption DEF Tidy
    <3>3. disk'.tree[Snapshot(q)] = NoTree
      BY <3>1 DEF Tidy
    <3> QED BY <2>2, <3>2, <3>3
  <2> QED BY <2>1, <2>2 DEF Grows
<1>4. JournalLater(q)' = JournalLater(q) /\ ReadsLater(q)' = ReadsLater(q)
  BY <1>1 DEF JournalLater, ReadsLater
<1>5. Fresh(q)' /\ HealthyOK(q)'
  BY <1>0, <1>1, <1>3, <1>4 DEF Fresh, HealthyOK
<1> QED BY <1>2, <1>5 DEF Alive

-----------------------------------------------------------------------------
(* Steps of one run.                                                       *)

Sound(r) == World /\ Alive(r)' /\ Local(r) /\ (Read \/ (Grows /\ Tidy(r)))

Settled == {"close", "unlock", "done", "crashed"}

\* By the label of the run, one part of AtWork says it all.
LEMMA OnlyThat ==
  ASSUME NEW r
  PROVE  /\ pc'[r] \in {"recover", "copy", "copying"} /\ Recovering(r)' => AtWork(r)'
         /\ pc'[r] \in {"read", "stage", "publish", "journalOpen", "journalCreate"} /\ Opening(r)' => AtWork(r)'
         /\ pc'[r] \in {"journalWrite", "journalSync", "journalCleanup"} /\ Journaling(r)' => AtWork(r)'
         /\ pc'[r] \in Renaming /\ Moving(r)' => AtWork(r)'
         /\ pc'[r] \in {"journalCheck", "journalRemove", "journalGone"} /\ Removing(r)' => AtWork(r)'
         /\ pc'[r] \in {"drop", "strip", "dropSync", "prune"} /\ Dropping(r)' => AtWork(r)'
<1>1. pc'[r] \in {"recover", "copy", "copying"} =>
        Opening(r)' /\ Journaling(r)' /\ Moving(r)' /\ Removing(r)' /\ Dropping(r)'
  BY DEF Opening, Journaling, Moving, Removing, Dropping, Renaming
<1>2. pc'[r] \in {"read", "stage", "publish", "journalOpen", "journalCreate"} =>
        Recovering(r)' /\ Journaling(r)' /\ Moving(r)' /\ Removing(r)' /\ Dropping(r)'
  BY DEF Recovering, Journaling, Moving, Removing, Dropping, Renaming
<1>3. pc'[r] \in {"journalWrite", "journalSync", "journalCleanup"} =>
        Recovering(r)' /\ Opening(r)' /\ Moving(r)' /\ Removing(r)' /\ Dropping(r)'
  BY DEF Recovering, Opening, Moving, Removing, Dropping, Renaming
<1>4. pc'[r] \in Renaming =>
        Recovering(r)' /\ Opening(r)' /\ Journaling(r)' /\ Removing(r)' /\ Dropping(r)'
  BY DEF Recovering, Opening, Journaling, Removing, Dropping, Renaming
<1>5. pc'[r] \in {"journalCheck", "journalRemove", "journalGone"} =>
        Recovering(r)' /\ Opening(r)' /\ Journaling(r)' /\ Moving(r)' /\ Dropping(r)'
  BY DEF Recovering, Opening, Journaling, Moving, Dropping, Renaming
<1>6. pc'[r] \in {"drop", "strip", "dropSync", "prune"} =>
        Recovering(r)' /\ Opening(r)' /\ Journaling(r)' /\ Moving(r)' /\ Removing(r)'
  BY DEF Recovering, Opening, Journaling, Moving, Removing, Renaming
<1> QED BY <1>1, <1>2, <1>3, <1>4, <1>5, <1>6 DEF AtWork

\* What r knows of its own marks survives a step that leaves them alone.
LEMMA FreshStep ==
  ASSUME NEW r \in Runs, IInv, Grows, prev'[r] = prev[r],
         JournalLater(r)' => /\ JournalLater(r)
                             /\ disk'.journal.run \in {disk.journal.run, NoRun}
                             /\ disk'.tree[Snapshot(r)] = disk.tree[Snapshot(r)],
         ReadsLater(r)' => ReadsLater(r),
         pc'[r] \notin Settled => pc[r] \notin Settled /\ outcome'[r] = outcome[r]
  PROVE  Fresh(r)'
<1>0. Fresh(r) /\ disk \in durable
  BY DEF IInv, RunsAtWork, DurableOK
<1>1. ASSUME JournalLater(r)', NEW d \in durable'
      PROVE  d.journal.run # r /\ d.tree[Snapshot(r)] = NoTree
  <2>1. CASE d \in durable
    BY <1>0, <1>1, <2>1 DEF Fresh
  <2>2. CASE d = disk'
    <3>1. disk.journal.run # r /\ disk.tree[Snapshot(r)] = NoTree
      BY <1>0, <1>1 DEF Fresh
    <3>2. disk'.journal.run # r
      BY <3>1, <1>1, RunsAssumption
    <3> QED BY <1>1, <2>2, <3>1, <3>2
  <2> QED BY <2>1, <2>2 DEF Grows
<1>2. ReadsLater(r)' => prev'[r] = Unread
  BY <1>0 DEF Fresh
<1>3. pc'[r] \notin Settled => outcome'[r] = "none"
  BY <1>0 DEF Fresh, Settled
<1> QED BY <1>1, <1>2, <1>3 DEF Fresh, Settled

LEMMA ReadGrows ==
  ASSUME IInv, Read \/ Sync
  PROVE  Grows /\ UNCHANGED disk
BY DEF IInv, DurableOK, Read, Sync, Commit, Grows

\* A run that has ended, or is about to let go, without publishing.
LEMMA EndSound ==
  ASSUME NEW r \in Runs, NEW l \in Settled, NEW why \in {"none", "refused", "locked", "failed"},
         RunOK, IInv, Read, pc[r] \notin {"close", "unlock", "done", "crashed"},
         End(r, l, why), UNCHANGED <<move, prev, tx>>, why = "failed" => r \notin Healthy
  PROVE  Sound(r)
<1>1. pc' = [pc EXCEPT ![r] = l] /\ outcome' = [outcome EXCEPT ![r] = why]
  BY DEF End, Goto
<1>2. Local(r)
  BY <1>1 DEF Local, RunOK
<1>3. outcome[r] = "none"
  BY DEF IInv, RunsAtWork, Fresh
<1>4. NothingReported
  BY <1>1, <1>3 DEF NothingReported, RunOK
<1>5. World
  BY <1>4, WorldRead DEF IInv
<1>6. pc'[r] \in Settled /\ pc'[r] \in Labels
  BY <1>1 DEF RunOK, Settled, Labels
<1>7. AtWork(r)'
  BY <1>6, Idle DEF Settled, Holding
<1>8. ~JournalLater(r)'
  BY <1>6 DEF Settled, JournalLater, Renaming
<1>9. Fresh(r)'
  BY <1>6, <1>8, FreshStep, ReadGrows DEF ReadsLater
<1>10. HealthyOK(r)'
  BY <1>1, <1>6 DEF HealthyOK, Settled, Renaming, RunOK
<1> QED BY <1>2, <1>5, <1>7, <1>9, <1>10 DEF Sound, Alive

\* A run that stops, or lets go, as it is.
LEMMA StopSound ==
  ASSUME NEW r \in Runs, NEW l \in {"unlock", "done", "crashed"}, RunOK, IInv, Read,
         Goto(r, l), UNCHANGED <<move, prev, tx, outcome>>
  PROVE  Sound(r)
<1>1. pc' = [pc EXCEPT ![r] = l]
  BY DEF Goto
<1>2. Local(r) /\ pc'[r] \in Settled /\ pc'[r] \in Labels
  BY <1>1 DEF Local, RunOK, Settled, Labels
<1>3. World
  BY WorldRead DEF IInv, NothingReported
<1>4. AtWork(r)'
  BY <1>2, Idle DEF Settled, Holding
<1>5. ~JournalLater(r)'
  BY <1>2 DEF Settled, JournalLater, Renaming
<1>6. Fresh(r)'
  BY <1>2, <1>5, FreshStep, ReadGrows DEF ReadsLater
<1>7. HealthyOK(r)'
  BY <1>2 DEF HealthyOK, Settled, Renaming, IInv, RunsAtWork
<1> QED BY <1>2, <1>3, <1>4, <1>6, <1>7 DEF Sound, Alive

\* A step that changes neither what is exposed nor what is reported.
LEMMA QuietSound ==
  ASSUME NEW r \in Runs, NEW l \in Labels, RunOK, IInv, Goto(r, l), l \notin Settled, pc[r] \notin Settled,
         UNCHANGED <<prev, outcome>>, Local(r), World, AtWork(r)', Grows, Tidy(r),
         JournalLater(r)' => /\ JournalLater(r)
                             /\ disk'.journal.run \in {disk.journal.run, NoRun}
                             /\ disk'.tree[Snapshot(r)] = disk.tree[Snapshot(r)],
         l \in {"stage", "publish", "journalOpen", "journalCreate"} \/ ~JournalLater(r)' \/ ReadsLater(r),
         l # "journalCleanup",
         l \in Renaming => move'[r] # "rollback" \/ (move'[r] = move[r] /\ pc[r] \in Renaming)
  PROVE  Sound(r)
<1>1. pc'[r] = l
  BY DEF Goto, RunOK
<1>2. Fresh(r)'
  BY <1>1, FreshStep DEF ReadsLater
<1>3. HealthyOK(r)'
  BY <1>1 DEF HealthyOK, IInv, RunsAtWork
<1> QED BY <1>2, <1>3 DEF Sound, Alive

LEMMA ReadTidy ==
  ASSUME NEW r \in Runs, disk' = disk
  PROVE  Tidy(r)
BY DEF Tidy

\* Publish rolls back with the journal and the trees as renameTransaction left them.
LEMMA RollbackSound ==
  ASSUME NEW r \in Runs, RunOK, IInv, Abort(r), RollsBack(r), r \notin Healthy
  PROVE  Sound(r)
<1>1. /\ pc' = [pc EXCEPT ![r] = "guard"] /\ move' = [move EXCEPT ![r] = "rollback"]
      /\ UNCHANGED <<disk, durable, prev, tx, outcome>>
  BY DEF Abort, Goto
<1>2. pc'[r] = "guard" /\ move'[r] = "rollback" /\ Local(r)
  BY <1>1 DEF RunOK, Local
<1>3. pc[r] \in Renaming /\ move[r] \in {"promote", "snapshot"} /\ pc[r] \notin Settled
  BY DEF RollsBack, Renaming, Settled
<1>4. Moving(r)
  BY DEF IInv, RunsAtWork, AtWork
<1>5. /\ disk.journal = tx[r] /\ tx[r].form = "whole" /\ SameJournal /\ tx[r] = JournalOf(r)
      /\ prev[r] # NoRun
  BY <1>3, <1>4 DEF Moving, RollsBack
<1>6. Moving(r)'
  <2>1. Carried(r)'
    BY <1>2 DEF Carried
  <2>2. (disk.journal = tx[r] /\ tx[r].form = "whole" /\ SameJournal /\ tx[r] = JournalOf(r) /\ prev[r] # NoRun)'
    BY <1>1, <1>5 DEF SameJournal, JournalOf
  <2> QED BY <1>2, <2>1, <2>2 DEF Moving
<1>7. AtWork(r)'
  BY <1>2, <1>6, OnlyThat DEF Renaming
<1>8. World /\ Read
  BY <1>1, WorldRead DEF IInv, NothingReported, Read
<1>9. ~JournalLater(r)'
  BY <1>2 DEF JournalLater, Renaming
<1>10. Fresh(r)'
  BY <1>1, <1>2, <1>3, <1>8, <1>9, FreshStep, ReadGrows DEF ReadsLater, Settled
<1>11. HealthyOK(r)'
  BY DEF HealthyOK
<1> QED BY <1>2, <1>7, <1>8, <1>10, <1>11 DEF Sound, Alive

\* A journal that could not be written is taken back.
LEMMA CleanupSound ==
  ASSUME NEW r \in Runs, RunOK, IInv, Abort(r), pc[r] = "journalWrite", r \notin Healthy
  PROVE  Sound(r)
<1>1. pc' = [pc EXCEPT ![r] = "journalCleanup"] /\ UNCHANGED <<disk, durable, move, prev, tx, outcome>>
  BY DEF Abort, Goto, RollsBack
<1>2. pc'[r] = "journalCleanup" /\ Local(r)
  BY <1>1 DEF RunOK, Local
<1>3. Journaling(r)'
  <2>1. Journaling(r)
    BY DEF IInv, RunsAtWork, AtWork
  <2>2. disk.journal = [JournalOf(r) EXCEPT !.form = "partial"] /\ SameTrees
    BY <2>1 DEF Journaling
  <2>3. disk.journal.form = "partial"
    BY <2>2 DEF JournalOf
  <2> QED BY <1>1, <1>2, <2>2, <2>3 DEF Journaling, SameTrees
<1>4. AtWork(r)'
  BY <1>2, <1>3, OnlyThat
<1>5. World /\ Read
  BY <1>1, WorldRead DEF IInv, NothingReported, Read
<1>6. ~JournalLater(r)'
  BY <1>2 DEF JournalLater, Renaming
<1>7. Fresh(r)'
  BY <1>1, <1>2, <1>5, <1>6, FreshStep, ReadGrows DEF ReadsLater, Settled
<1>8. HealthyOK(r)'
  BY DEF HealthyOK
<1> QED BY <1>2, <1>4, <1>5, <1>7, <1>8 DEF Sound, Alive

\* The error path of every call.
LEMMA AbortSound ==
  ASSUME NEW r \in Runs, RunOK, IInv, Abort(r), Running(r), r \notin Healthy
  PROVE  Sound(r)
<1>0. Read /\ UNCHANGED <<prev, tx>>
  BY DEF Abort, Read
<1>1. CASE RollsBack(r)
  BY <1>1, RollbackSound
<1>2. CASE ~RollsBack(r) /\ pc[r] \in {"preflight", "acquire"}
  <2>1. End(r, "done", "failed") /\ UNCHANGED move
    BY <1>2 DEF Abort
  <2> QED BY <1>0, <1>2, <2>1, EndSound DEF Settled
<1>3. CASE ~RollsBack(r) /\ pc[r] \in {"close", "unlock"}
  <2>1. Goto(r, "done") /\ UNCHANGED <<move, outcome>>
    BY <1>3 DEF Abort
  <2> QED BY <1>0, <2>1, StopSound
<1>4. CASE pc[r] = "journalWrite"
  BY <1>4, CleanupSound
<1>5. CASE ~RollsBack(r) /\ pc[r] \notin {"preflight", "acquire", "close", "unlock", "journalWrite"}
  <2>1. End(r, "close", "failed") /\ UNCHANGED move
    BY <1>5 DEF Abort
  <2>2. pc[r] \notin {"close", "unlock", "done", "crashed"}
    BY <1>5 DEF Running
  <2> QED BY <1>0, <2>1, <2>2, EndSound DEF Settled
<1> QED BY <1>1, <1>2, <1>3, <1>4, <1>5

LEMMA CrashSound ==
  ASSUME NEW r \in Runs, RunOK, IInv, Crash(r)
  PROVE  Sound(r)
BY StopSound DEF Crash

LEMMA PreflightSound ==
  ASSUME NEW r \in Runs, RunOK, DiskOK, IInv, Preflight(r)
  PROVE  Sound(r)
<1>0. pc[r] = "preflight" /\ Read /\ UNCHANGED <<move, prev, tx>>
  BY DEF Preflight
<1>1. CASE Incompatible(disk)
  BY <1>0, <1>1, EndSound DEF Preflight, Settled
<1>2. CASE ~Incompatible(disk)
  <2>1. pc' = [pc EXCEPT ![r] = "acquire"] /\ UNCHANGED outcome /\ Goto(r, "acquire")
    BY <1>2 DEF Preflight, Goto
  <2>2. Local(r) /\ pc'[r] = "acquire"
    BY <1>0, <2>1 DEF Local, RunOK
  <2>3. World
    BY <1>0, <2>1, WorldRead DEF IInv, NothingReported
  <2>4. AtWork(r)'
    BY <2>2, Idle DEF Holding, Labels
  <2>5. Fresh(r)'
    BY <1>0, <2>1, <2>2, FreshStep, ReadGrows DEF JournalLater, ReadsLater, Settled
  <2>6. HealthyOK(r)'
    BY <2>1, <2>2 DEF HealthyOK, IInv, RunsAtWork, Renaming
  <2> QED BY <1>0, <2>2, <2>3, <2>4, <2>5, <2>6 DEF Sound, Alive
<1> QED BY <1>1, <1>2

\* A step of the run at work: it owns the folder.
LEMMA RecoverSound ==
  ASSUME NEW r \in Runs, RunOK, DiskOK, IInv, Owns(r), Recover(r)
  PROVE  Sound(r)
<1>0. pc[r] = "recover" /\ Running(r) /\ disk.journal \in Journals
  BY DEF Recover, Running, DiskOK, Disks
<1>1. Synced /\ Fresh(r) /\ Backed(disk)
  BY <1>0 DEF IInv, RunsAtWork, AtWork, Recovering, DurableOK
<1>2. JournalLater(r) /\ ReadsLater(r) /\ disk.journal.run # r
  BY <1>0, <1>1 DEF JournalLater, ReadsLater, Fresh, Synced
<1>3. CASE disk.journal.form = "absent" /\ Step(r, "recover", ReadFirst) /\ Read
  <2>1. pc' = [pc EXCEPT ![r] = "read"] /\ UNCHANGED <<move, prev, tx, outcome>> /\ Goto(r, "read")
    BY <1>3 DEF Step, Goto, ReadFirst
  <2>2. Local(r) /\ pc'[r] = "read"
    BY <1>0, <2>1 DEF Local, RunOK
  <2>3. Opening(r)'
    <3>1. disk.journal = NoJournal
      BY <1>0, <1>3, JournalShape
    <3> QED BY <1>1, <1>3, <2>2, <3>1 DEF Opening, Synced, Read
  <2>4. AtWork(r)'
    BY <2>2, <2>3, OnlyThat
  <2>5. World
    BY <1>3, <2>1, WorldRead DEF IInv, NothingReported
  <2> QED BY <1>0, <1>2, <1>3, <2>1, <2>2, <2>4, <2>5, QuietSound, ReadGrows, ReadTidy DEF Labels, Settled, Renaming
<1>4. CASE /\ Goto(r, "journalCheck") /\ Present(disk, Target) /\ disk.journal.form = "whole"
           /\ tx' = [tx EXCEPT ![r] = disk.journal] /\ Read /\ UNCHANGED <<move, prev, outcome>>
  <2>1. pc' = [pc EXCEPT ![r] = "journalCheck"]
    BY <1>4 DEF Goto
  <2>2. Local(r) /\ pc'[r] = "journalCheck" /\ tx'[r] = disk.journal
    BY <1>0, <1>4, <2>1 DEF Local, RunOK
  <2>3. Removing(r)'
    <3>1. Present(disk, Target)' /\ SameTrees' /\ Synced'
      BY <1>1, <1>4 DEF Present, Synced, SameTrees, Read
    <3>2. disk'.journal = tx'[r] /\ tx'[r].form = "whole" /\ tx'[r].run # r /\ tx'[r] # NoJournal
      BY <1>2, <1>4, <2>2 DEF Read, NoJournal
    <3> QED BY <2>2, <3>1, <3>2 DEF Removing
  <2>4. AtWork(r)'
    BY <2>2, <2>3, OnlyThat
  <2>5. World
    BY <1>4, WorldRead DEF IInv, NothingReported
  <2> QED BY <1>0, <1>2, <1>4, <2>1, <2>2, <2>4, <2>5, QuietSound, ReadGrows, ReadTidy DEF Labels, Settled, Renaming
<1>5. CASE /\ Goto(r, "copy") /\ ~Present(disk, Target) /\ disk.journal.form = "whole"
           /\ tx' = [tx EXCEPT ![r] = disk.journal] /\ Read /\ UNCHANGED <<move, prev, outcome>>
  <2>1. pc' = [pc EXCEPT ![r] = "copy"]
    BY <1>5 DEF Goto
  <2>2. Local(r) /\ pc'[r] = "copy" /\ tx'[r] = disk.journal
    BY <1>0, <1>5, <2>1 DEF Local, RunOK
  <2>3. Recovering(r)'
    <3>1. Empty(Target)
      BY <1>5, TreeShape, Shapes DEF Present, Empty
    <3>2. Empty(Target)' /\ SameJournal' /\ Synced'
      BY <1>1, <1>5, <3>1 DEF Synced, SameJournal, Read, Empty
    <3>3. disk'.journal = tx'[r] /\ tx'[r].form = "whole" /\ tx'[r].run # r
      BY <1>2, <1>5, <2>2 DEF Read
    <3> QED BY <2>2, <3>2, <3>3 DEF Recovering
  <2>4. AtWork(r)'
    BY <2>2, <2>3, OnlyThat
  <2>5. World
    BY <1>5, WorldRead DEF IInv, NothingReported
  <2> QED BY <1>0, <1>2, <1>5, <2>1, <2>2, <2>4, <2>5, QuietSound, ReadGrows, ReadTidy DEF Labels, Settled, Renaming
<1>6. CASE Refuse(r)
  BY <1>0, <1>6, EndSound DEF Refuse, Settled
<1>7. CASE Abort(r) /\ \/ ~Owns(r)
                       \/ /\ disk.journal.form = "whole"
                          /\ IF Present(disk, Target) THEN ~ReadableTarget(disk)
                             ELSE disk.tree[RecoverFrom(disk.journal)] # Whole(ExpectedRun(disk.journal))
  BY <1>1, <1>7 DEF Backed
<1> QED BY <1>3, <1>4, <1>5, <1>6, <1>7 DEF Recover

-----------------------------------------------------------------------------
(* Steps of the run at work, which owns the folder.                        *)

LEMMA WriteGrows ==
  ASSUME IInv, NEW d, Write(d) \/ Commit(d)
  PROVE  /\ Grows /\ disk' = d
         /\ SameJournal /\ d.journal = disk.journal => SameJournal'
         /\ SameTrees /\ d.tree = disk.tree => SameTrees'
         /\ Commit(d) => Synced'
BY DEF IInv, DurableOK, Write, Commit, Grows, SameJournal, SameTrees, Synced

LEMMA SyncedSame == Synced => SameJournal /\ SameTrees
BY DEF Synced, SameJournal, SameTrees

\* A change beside the release folder and the tree that recovery would take.
LEMMA BesideKeeps ==
  ASSUME NEW d, NEW e, e.journal = d.journal, e.tree[Target] = d.tree[Target],
         d.journal.form = "whole" /\ ~Present(d, Target) =>
           e.tree[RecoverFrom(d.journal)] = d.tree[RecoverFrom(d.journal)]
  PROVE  Exposed(e) = Exposed(d) /\ (Backed(d) => Backed(e))
BY DEF Exposed, Backed, Present, ReadableTarget

LEMMA WholeForm == \A r \in Runs : Whole(r).form = "whole" /\ Whole(r).of = r /\ Whole(r) # NoTree
BY DEF Whole, NoTree

LEMMA CopySound ==
  ASSUME NEW r \in Runs, RunOK, DiskOK, IInv, Owns(r), Copy(r)
  PROVE  Sound(r)
<1>0. pc[r] \in {"copy", "copying"} /\ pc[r] \notin Settled /\ Running(r)
  BY DEF Copy, Running, Settled
<1>1. /\ disk.journal = tx[r] /\ tx[r].form = "whole" /\ tx[r].run # r
      /\ Empty(Target) /\ SameJournal
  BY <1>0 DEF IInv, RunsAtWork, AtWork, Recovering
<1>2. Backed(disk) /\ tx[r] \in Journals /\ JournalLater(r) /\ ReadsLater(r)
  BY <1>0 DEF IInv, DurableOK, RunOK, JournalLater, ReadsLater
<1>3. tx[r].run \in Runs /\ ExpectedRun(tx[r]) \in Runs
  BY <1>1, <1>2, JournalShape DEF ExpectedRun
<1>4. ~Present(disk, Target) /\ disk.tree[RecoverFrom(tx[r])] = Whole(ExpectedRun(tx[r]))
  BY <1>1, <1>2 DEF Backed, Empty, Present, NoTree
<1>5. RecoverFrom(tx[r]) \in Places /\ RecoverFrom(tx[r]) # Place("recovery", r)
  BY <1>3, PlacesDiffer DEF RecoverFrom, Snapshot, Staged
<1>6. ASSUME NEW t \in Trees, NEW d \in Puts(Place("recovery", r), t), Write(d) \/ Commit(d),
             UNCHANGED <<prev, tx, outcome>>
      PROVE  World /\ Grows /\ Tidy(r) /\ disk'.journal = disk.journal
             /\ disk'.tree[Snapshot(r)] = disk.tree[Snapshot(r)]
             /\ disk'.tree[Target] = NoTree /\ disk'.tree[Place("recovery", r)] = t /\ SameJournal'
    <2>1. d.journal = disk.journal /\ d.tree[Target] = disk.tree[Target]
          /\ d.tree[RecoverFrom(tx[r])] = disk.tree[RecoverFrom(tx[r])] /\ d.tree[Place("recovery", r)] = t
      BY <1>5, PutEffect, PlacesDiffer, Shapes
    <2>2. \A q \in Runs : d.tree[Snapshot(q)] = disk.tree[Snapshot(q)]
      BY PutEffect, PlacesDiffer
    <2>3. disk' = d /\ Grows /\ SameJournal'
      BY <1>1, <1>6, <2>1, WriteGrows
    <2>4. Exposed(d) = Exposed(disk) /\ Backed(d)
      BY <1>1, <1>2, <2>1, BesideKeeps
    <2>5. World
      BY <1>6, <2>1, <2>3, <2>4, WorldKept DEF IInv, NothingReported
    <2> QED BY <1>1, <2>1, <2>2, <2>3, <2>5 DEF Tidy, Empty
<1>7. CASE Abort(r) /\ pc[r] = "copy" /\ ~OwnsTransaction(r)
  BY <1>1, <1>7 DEF OwnsTransaction
<1>8. CASE Abort(r) /\ disk.tree[RecoverFrom(tx[r])].form # "whole"
  BY <1>3, <1>4, <1>8, WholeForm
<1>9. CASE /\ Step(r, "copy", "copying")
           /\ Write(Made(Put(Place("recovery", r), [Whole(ExpectedRun(tx[r])) EXCEPT !.form = "partial"]),
                         Place("recovery", r)))
  <2>1. pc' = [pc EXCEPT ![r] = "copying"] /\ UNCHANGED <<move, prev, tx, outcome>> /\ Goto(r, "copying")
    BY <1>9 DEF Step, Goto
  <2>2. [Whole(ExpectedRun(tx[r])) EXCEPT !.form = "partial"] \in Trees
    BY <1>3 DEF Whole, Trees, Forms
  <2>3. World /\ Grows /\ Tidy(r) /\ disk'.journal = disk.journal /\ disk'.tree[Target] = NoTree /\ SameJournal'
        /\ disk'.tree[Snapshot(r)] = disk.tree[Snapshot(r)]
    BY <1>6, <1>9, <2>1, <2>2, StagingEntries DEF Puts
  <2>4. Local(r) /\ pc'[r] = "copying"
    BY <2>1 DEF Local, RunOK
  <2>5. Recovering(r)'
    BY <1>1, <2>1, <2>3, <2>4 DEF Recovering, Empty
  <2>6. AtWork(r)'
    BY <2>4, <2>5, OnlyThat
  <2> QED BY <1>0, <1>2, <2>1, <2>3, <2>4, <2>6, QuietSound DEF Labels, Settled, Renaming
<1>10. CASE /\ Start(r, "recovery") /\ UNCHANGED <<prev, tx, outcome>>
            /\ Commit(Put(Place("recovery", r), Whole(ExpectedRun(tx[r]))))
  <2>1. pc' = [pc EXCEPT ![r] = "guard"] /\ move' = [move EXCEPT ![r] = "recovery"] /\ Goto(r, "guard")
    BY <1>10 DEF Start, Goto
  <2>2. Whole(ExpectedRun(tx[r])) \in Trees
    BY <1>3, Shapes
  <2>3. World /\ Grows /\ Tidy(r) /\ disk'.journal = disk.journal /\ disk'.tree[Target] = NoTree /\ SameJournal'
        /\ disk'.tree[Snapshot(r)] = disk.tree[Snapshot(r)]
        /\ disk'.tree[Place("recovery", r)] = Whole(ExpectedRun(tx[r]))
    BY <1>6, <1>10, <2>2 DEF Puts
  <2>4. Local(r) /\ pc'[r] = "guard" /\ move'[r] = "recovery"
    BY <1>10, <2>1 DEF Local, RunOK
  <2>5. Synced'
    BY <1>10, WriteGrows
  <2>6. Carried(r)'
    BY <1>10, <2>3, <2>4 DEF Carried, Empty, Holds
  <2>7. Moving(r)'
    BY <1>1, <1>10, <2>3, <2>4, <2>5, <2>6 DEF Moving
  <2>8. AtWork(r)'
    BY <2>4, <2>7, OnlyThat DEF Renaming
  <2> QED BY <1>0, <1>2, <1>10, <2>1, <2>3, <2>4, <2>8, QuietSound DEF Labels, Settled, Renaming
<1> QED BY <1>7, <1>8, <1>9, <1>10 DEF Copy

LEMMA ReadPreviousSound ==
  ASSUME NEW r \in Runs, RunOK, DiskOK, IInv, ReadPrevious(r)
  PROVE  Sound(r)
<1>0. pc[r] = "read" /\ pc[r] \notin Settled
  BY DEF ReadPrevious, Settled
<1>1. CASE ~Readable(disk)
  BY <1>0, <1>1, EndSound DEF ReadPrevious, Refuse, Settled
<1>2. CASE Readable(disk)
  <2>1. /\ pc' = [pc EXCEPT ![r] = "stage"] /\ Read /\ UNCHANGED <<move, tx, outcome>>
        /\ prev' = [prev EXCEPT ![r] = disk.tree[Target].of]
    BY <1>2 DEF ReadPrevious, Goto
  <2>2. Synced /\ disk.journal = NoJournal /\ Backed(disk) /\ disk \in durable
    BY <1>0 DEF IInv, RunsAtWork, AtWork, Opening, DurableOK
  <2>3. Fresh(r) /\ JournalLater(r) /\ ReadsLater(r)
    BY <1>0 DEF IInv, RunsAtWork, JournalLater, ReadsLater
  <2>4. Exposed(disk) = disk.tree[Target].of
    BY <2>2, TreeShape, Shapes DEF Exposed, Present, NoTree, NoJournal
  <2>5. Mapped
    <3>1. prev[r] = Unread
      BY <2>3 DEF Fresh
    <3>2. Register!Open(r)
      BY <2>1, <2>4, <3>1 DEF Register!Open, Read
    <3> QED BY <3>2 DEF Mapped, Register!Next
  <2>6. Synced' /\ SameJournal' /\ Backed(disk)'
    BY <2>1, <2>2 DEF Synced, SameJournal, Read, Backed
  <2>7. World
    BY <2>1, <2>2, <2>5, <2>6, WorldSynced DEF Read
  <2>8. Local(r) /\ pc'[r] = "stage" /\ prev'[r] = disk.tree[Target].of
    BY <2>1 DEF Local, RunOK
  <2>9. Opening(r)'
    BY <1>2, <2>1, <2>2, <2>6, <2>8 DEF Opening, Readable, Read
  <2>10. AtWork(r)'
    BY <2>8, <2>9, OnlyThat
  <2>11. Fresh(r)'
    BY <1>0, <2>1, <2>3, <2>8 DEF Fresh, ReadsLater, Settled, Read
  <2>12. HealthyOK(r)'
    BY <2>1, <2>8 DEF HealthyOK, IInv, RunsAtWork, Renaming
  <2> QED BY <2>1, <2>7, <2>8, <2>10, <2>11, <2>12 DEF Sound, Alive
<1> QED BY <1>1, <1>2

\* The stage is filled or completed: nothing else changes.
LEMMA StagedEffect ==
  ASSUME NEW r \in Runs, NEW t \in Trees, DiskOK, IInv,
         disk.journal = NoJournal, SameJournal,
         NEW d \in Puts(Staged(r), t), Write(d) \/ Commit(d), UNCHANGED <<prev, outcome>>
  PROVE  /\ World /\ Grows /\ Tidy(r) /\ SameJournal'
         /\ disk'.journal = disk.journal /\ disk'.tree[Target] = disk.tree[Target]
         /\ disk'.tree[Snapshot(r)] = disk.tree[Snapshot(r)] /\ disk'.tree[Staged(r)] = t
<1>1. /\ d.journal = disk.journal /\ d.tree[Target] = disk.tree[Target] /\ d.tree[Staged(r)] = t
      /\ \A q \in Runs : d.tree[Snapshot(q)] = disk.tree[Snapshot(q)]
  BY PutEffect, PlacesDiffer, Shapes
<1>2. disk' = d /\ Grows /\ SameJournal'
  BY <1>1, WriteGrows
<1>3. Exposed(d) = Exposed(disk) /\ Backed(d)
  BY <1>1, BesideKeeps DEF NoJournal, IInv, DurableOK
<1>4. World
  BY <1>1, <1>2, <1>3, WorldKept DEF IInv, NothingReported
<1> QED BY <1>1, <1>2, <1>4 DEF Tidy

LEMMA StageSound ==
  ASSUME NEW r \in Runs, RunOK, DiskOK, IInv, Owns(r), Stage(r)
  PROVE  Sound(r)
<1>0. pc[r] = "stage" /\ pc[r] \notin Settled /\ JournalLater(r)
  BY DEF Stage, Settled, JournalLater
<1>1. /\ disk.journal = NoJournal /\ SameJournal
      /\ disk.tree[Target].of = prev[r] /\ Readable(disk)
  BY <1>0 DEF IInv, RunsAtWork, AtWork, Opening
<1>2. /\ pc' = [pc EXCEPT ![r] = "publish"] /\ Goto(r, "publish") /\ UNCHANGED <<move, prev, tx, outcome>>
      /\ \E d \in Puts(Staged(r), [of |-> r, form |-> "partial"]) : Write(d)
  BY StagingEntries DEF Stage, Step, Goto, Staged, Puts
<1>3. /\ World /\ Grows /\ Tidy(r) /\ SameJournal'
      /\ disk'.journal = disk.journal /\ disk'.tree[Target] = disk.tree[Target]
      /\ disk'.tree[Snapshot(r)] = disk.tree[Snapshot(r)]
  BY <1>1, <1>2, StagedEffect, Shapes
<1>4. Local(r) /\ pc'[r] = "publish"
  BY <1>2 DEF Local, RunOK
<1>5. Opening(r)'
  BY <1>1, <1>2, <1>3, <1>4 DEF Opening, Readable
<1>6. AtWork(r)'
  BY <1>4, <1>5, OnlyThat
<1> QED BY <1>0, <1>2, <1>3, <1>4, <1>6, QuietSound DEF Labels, Settled, Renaming

LEMMA PublishSound ==
  ASSUME NEW r \in Runs, RunOK, DiskOK, IInv, Owns(r), Publish(r)
  PROVE  Sound(r)
<1>0. pc[r] = "publish" /\ pc[r] \notin Settled /\ JournalLater(r)
  BY DEF Publish, Settled, JournalLater
<1>1. /\ disk.journal = NoJournal /\ SameJournal
      /\ disk.tree[Target].of = prev[r] /\ Readable(disk)
  BY <1>0 DEF IInv, RunsAtWork, AtWork, Opening
<1>2. Step(r, "publish", "journalOpen") /\ \E d \in Puts(Staged(r), Whole(r)) : Commit(d)
  BY <1>1, StagingEntries DEF Publish, Incompatible, NoJournal, Staged, Puts
<1>3. /\ pc' = [pc EXCEPT ![r] = "journalOpen"] /\ Goto(r, "journalOpen") /\ UNCHANGED <<move, prev, tx, outcome>>
  BY <1>2 DEF Step, Goto
<1>4. /\ World /\ Grows /\ Tidy(r) /\ SameJournal'
      /\ disk'.journal = disk.journal /\ disk'.tree[Target] = disk.tree[Target]
      /\ disk'.tree[Snapshot(r)] = disk.tree[Snapshot(r)] /\ disk'.tree[Staged(r)] = Whole(r)
  BY <1>1, <1>2, <1>3, StagedEffect, Shapes
<1>5. Local(r) /\ pc'[r] = "journalOpen" /\ Synced'
  BY <1>2, <1>3, WriteGrows DEF Local, RunOK
<1>6. Opening(r)'
  BY <1>1, <1>3, <1>4, <1>5 DEF Opening, Readable, Holds
<1>7. AtWork(r)'
  BY <1>5, <1>6, OnlyThat
<1> QED BY <1>0, <1>3, <1>4, <1>5, <1>7, QuietSound DEF Labels, Settled, Renaming

\* The run goes on to Close.
LEMMA LastSound ==
  ASSUME NEW r \in Runs, NEW why \in {"failed", "published"}, RunOK, IInv, End(r, "close", why), UNCHANGED <<move, prev, tx>>,
         World, Grows, Tidy(r), why = "failed" => r \notin Healthy
  PROVE  Sound(r)
<1>1. pc' = [pc EXCEPT ![r] = "close"] /\ outcome' = [outcome EXCEPT ![r] = why]
  BY DEF End, Goto
<1>2. Local(r) /\ pc'[r] = "close" /\ outcome'[r] = why
  BY <1>1 DEF Local, RunOK
<1>3. AtWork(r)'
  BY <1>2, Idle DEF Labels
<1>4. Fresh(r)'
  BY <1>2 DEF Fresh, JournalLater, ReadsLater, Renaming
<1>5. HealthyOK(r)'
  BY <1>2 DEF HealthyOK, Renaming
<1> QED BY <1>2, <1>3, <1>4, <1>5 DEF Sound, Alive

\* A journal that does not decode counts for nothing.
LEMMA UndecodedKeeps ==
  ASSUME NEW d, NEW e, e.tree = d.tree, d.journal.form # "whole", e.journal.form # "whole"
  PROVE  Exposed(e) = Exposed(d) /\ (Backed(d) => Backed(e))
BY DEF Exposed, Backed, Present

LEMMA JournalOfShape ==
  ASSUME NEW r \in Runs, RunOK, prev[r] # Unread
  PROVE  /\ JournalOf(r) \in Journals /\ [JournalOf(r) EXCEPT !.form = "partial"] \in Journals
         /\ [JournalOf(r) EXCEPT !.form = "partial"].form = "partial"
         /\ [JournalOf(r) EXCEPT !.form = "partial"].run = r
         /\ JournalOf(r).form = "whole" /\ JournalOf(r).run = r /\ JournalOf(r).prev = prev[r]
         /\ [[JournalOf(r) EXCEPT !.form = "partial"] EXCEPT !.form = "whole"] = JournalOf(r)
         /\ JournalOf(r) # NoJournal
<1>1. prev[r] \in Runs \cup {NoRun}
  BY DEF RunOK
<1>2. [JournalOf(r) EXCEPT !.form = "partial"] = [run |-> r, prev |-> prev[r], form |-> "partial"]
  BY DEF JournalOf
<1>3. [[JournalOf(r) EXCEPT !.form = "partial"] EXCEPT !.form = "whole"] = JournalOf(r)
  <2>1. [[run |-> r, prev |-> prev[r], form |-> "partial"] EXCEPT !.form = "whole"]
          = [run |-> r, prev |-> prev[r], form |-> "whole"]
    OBVIOUS
  <2> QED BY <1>2, <2>1 DEF JournalOf
<1>4. JournalOf(r) \in Journals /\ [JournalOf(r) EXCEPT !.form = "partial"] \in Journals
  BY <1>1, <1>2 DEF JournalOf, Journals
<1> QED BY <1>2, <1>3, <1>4 DEF JournalOf, NoJournal

LEMMA JournalOpenSound ==
  ASSUME NEW r \in Runs, RunOK, DiskOK, IInv, Step(r, "journalOpen", "journalCreate"), Read
  PROVE  Sound(r)
<1>0. pc[r] = "journalOpen" /\ pc[r] \notin Settled /\ JournalLater(r)
  BY DEF Step, Settled, JournalLater
<1>1. pc' = [pc EXCEPT ![r] = "journalCreate"] /\ Goto(r, "journalCreate") /\ UNCHANGED <<move, prev, tx, outcome>>
  BY DEF Step, Goto
<1>2. Local(r) /\ pc'[r] = "journalCreate"
  BY <1>1 DEF Local, RunOK
<1>3. Opening(r)'
  <2>1. Opening(r)
    BY DEF IInv, RunsAtWork, AtWork
  <2> QED BY <1>0, <1>1, <1>2, <2>1 DEF Opening, Read, SameJournal, Synced, Readable, Holds
<1>4. AtWork(r)'
  BY <1>2, <1>3, OnlyThat
<1>5. World
  BY <1>1, WorldRead DEF IInv, NothingReported
<1> QED BY <1>0, <1>1, <1>2, <1>4, <1>5, QuietSound, ReadGrows, ReadTidy DEF Labels, Settled, Renaming

LEMMA JournalCreateSound ==
  ASSUME NEW r \in Runs, RunOK, DiskOK, IInv, pc[r] = "journalCreate",
         Goto(r, "journalWrite"), tx' = [tx EXCEPT ![r] = JournalOf(r)],
         Write([disk EXCEPT !.journal = [JournalOf(r) EXCEPT !.form = "partial"]]),
         UNCHANGED <<move, prev, outcome>>
  PROVE  Sound(r)
<1> DEFINE j == [JournalOf(r) EXCEPT !.form = "partial"]
           d == [disk EXCEPT !.journal = j]
<1>1. /\ disk.journal = NoJournal /\ Synced /\ Holds(Staged(r), r)
      /\ disk.tree[Target].of = prev[r] /\ Readable(disk)
  BY DEF IInv, RunsAtWork, AtWork, Opening
<1>2. Empty(Snapshot(r)) /\ Backed(disk) /\ prev[r] # Unread
  BY DEF IInv, RunsAtWork, Fresh, JournalLater, DurableOK, Empty, RunOK, UsesPrevious
<1>3. j \in Journals /\ j.form = "partial" /\ j.run = r
  BY <1>2, JournalOfShape
<1>4. pc' = [pc EXCEPT ![r] = "journalWrite"]
  BY DEF Goto
<1>5. Local(r) /\ pc'[r] = "journalWrite" /\ tx'[r] = JournalOf(r)
  BY <1>4 DEF Local, RunOK
<1> HIDE DEF j
<1>6. d.journal = j /\ d.tree = disk.tree
  BY <1>3, JournalEffect
<1>7. disk' = d /\ Grows /\ SameTrees'
  BY <1>1, <1>6, SyncedSame, WriteGrows DEF j
<1> HIDE DEF d
<1>8. Exposed(disk') = Exposed(disk) /\ Backed(disk')
  BY <1>1, <1>2, <1>3, <1>6, <1>7, UndecodedKeeps DEF NoJournal
<1>9. World
  BY <1>6, <1>7, <1>8, WorldKept DEF IInv, NothingReported
<1>10. Journaling(r)'
  <2>1. JournalOf(r)' = JournalOf(r)
    BY DEF JournalOf
  <2>2. \A e \in durable' : e.journal.form # "whole"
    BY <1>1, <1>3, <1>6, <1>7 DEF Synced, Grows, NoJournal
  <2>3. (Holds(Staged(r), r) /\ Empty(Snapshot(r)) /\ disk.tree[Target].of = prev[r] /\ Readable(disk))'
    BY <1>1, <1>2, <1>6, <1>7 DEF Holds, Empty, Readable
  <2> QED BY <1>5, <1>6, <1>7, <2>1, <2>2, <2>3 DEF Journaling, j
<1>11. AtWork(r)'
  BY <1>5, <1>10, OnlyThat
<1>12. Tidy(r)
  BY <1>3, <1>6, <1>7 DEF Tidy
<1>13. ~JournalLater(r)'
  BY <1>5 DEF JournalLater, Renaming
<1> QED BY <1>5, <1>7, <1>9, <1>11, <1>12, <1>13, QuietSound DEF Labels, Settled, Renaming

\* The step that publishes a first release: from here on recovery finishes it.
LEMMA JournalWriteSound ==
  ASSUME NEW r \in Runs, RunOK, DiskOK, IInv, Step(r, "journalWrite", "journalSync"),
         Write([disk EXCEPT !.journal.form = "whole"])
  PROVE  Sound(r)
<1> DEFINE d == [disk EXCEPT !.journal = JournalOf(r)]
<1>0. pc[r] = "journalWrite" /\ pc[r] \notin Settled
  BY DEF Step, Settled
<1>1. /\ tx[r] = JournalOf(r) /\ SameTrees /\ Holds(Staged(r), r) /\ Empty(Snapshot(r))
      /\ disk.tree[Target].of = prev[r] /\ Readable(disk)
      /\ disk.journal = [JournalOf(r) EXCEPT !.form = "partial"]
      /\ \A e \in durable : e.journal.form # "whole"
  BY <1>0 DEF IInv, RunsAtWork, AtWork, Journaling
<1>2. /\ outcome[r] = "none" /\ prev[r] # Unread /\ disk \in durable
      /\ \A e \in durable : Backed(e) /\ (e.tree[Target].form = "pdfs" => e.tree[Target] = disk.tree[Target])
  BY <1>0 DEF IInv, RunsAtWork, Fresh, DurableOK, RunOK, UsesPrevious
<1>3. pc' = [pc EXCEPT ![r] = "journalSync"] /\ Goto(r, "journalSync") /\ UNCHANGED <<move, prev, tx, outcome>>
  BY DEF Step, Goto
<1>4. Local(r) /\ pc'[r] = "journalSync"
  BY <1>3 DEF Local, RunOK
<1>5. [disk EXCEPT !.journal.form = "whole"] = d
  BY <1>1, <1>2, JournalOfShape DEF DiskOK, Disks
<1>6. d.journal = JournalOf(r) /\ d.tree = disk.tree /\ JournalOf(r) \in Journals
  BY <1>2, JournalEffect, JournalOfShape
<1>7. disk' = d /\ Grows /\ SameTrees'
  BY <1>1, <1>5, <1>6, WriteGrows
<1> HIDE DEF d
<1>7a. /\ disk'.tree = disk.tree /\ disk'.journal = JournalOf(r) /\ disk'.journal.form = "whole"
       /\ disk'.journal.run = r /\ disk'.journal.prev = prev[r]
  BY <1>2, <1>6, <1>7, JournalOfShape
<1>8. ASSUME Present(disk, Target) PROVE World
  <2>1. disk'.tree[Target].form = "whole" /\ Present(disk', Target)
    BY <1>1, <1>6, <1>7, <1>8 DEF Readable, Present
  <2>2. Backed(disk')
    BY <1>1, <1>7a, <2>1 DEF Backed, ReadableTarget
  <2>3. Exposed(disk') = Exposed(disk)
    BY <1>6, <1>7, <1>8 DEF Exposed, Present
  <2> QED BY <1>3, <1>7, <1>7a, <2>2, <2>3, WorldKept DEF IInv, NothingReported
<1>9. ASSUME ~Present(disk, Target) PROVE World
  <2>1. prev[r] = NoRun /\ disk.tree[Target] = NoTree
    BY <1>1, <1>9, TreeShape, Shapes DEF Present, NoTree
  <2>2. ~Present(disk', Target)
    BY <1>6, <1>7, <1>9 DEF Present
  <2>3. Exposed(disk') = r /\ Backed(disk')
    BY <1>1, <1>7a, <2>1, <2>2 DEF Exposed, Backed, ExpectedRun, RecoverFrom, Holds, Staged
  <2>4. \A e \in durable : Exposed(e) = NoRun
    BY <1>1, <1>9 DEF Exposed, SameTrees, Present
  <2>5. Mapped
    <3>1. Exposed(disk) = NoRun
      BY <1>2, <2>4
    <3>2. Register!Replace(r)
      BY <1>3, <2>1, <2>3, <3>1 DEF Register!Replace
    <3> QED BY <3>2 DEF Mapped, Register!Next
  <2>6. ASSUME NEW e \in durable'
        PROVE  Backed(e)' /\ Falls(e)' /\ (e.tree[Target].form = "pdfs" => e.tree[Target] = disk'.tree[Target])
    <3>1. CASE e \in durable
      <4>1. Backed(e)'
        BY <1>2, <1>3, <3>1 DEF Backed
      <4>2. Falls(e)'
        BY <1>2, <1>3, <2>1, <2>3, <2>4, <3>1 DEF Falls
      <4> QED BY <1>2, <1>6, <1>7, <3>1, <4>1, <4>2
    <3>2. CASE e = disk'
      <4>1. Backed(e)'
        BY <1>3, <2>3, <3>2 DEF Backed
      <4> QED BY <3>2, <4>1 DEF Falls
    <3> QED BY <1>7, <3>1, <3>2 DEF Grows
  <2>7. DurableOK'
    BY <1>7, <2>6 DEF DurableOK, Grows
  <2> QED BY <1>7a, <2>5, <2>7 DEF World, PdfKept
<1>10. World
  BY <1>8, <1>9
<1>11. Journaling(r)'
  <2>1. JournalOf(r)' = JournalOf(r)
    BY <1>3 DEF JournalOf
  <2>2. (Holds(Staged(r), r) /\ Empty(Snapshot(r)) /\ disk.tree[Target].of = prev[r] /\ Readable(disk))'
    BY <1>1, <1>3, <1>6, <1>7 DEF Holds, Empty, Readable
  <2> QED BY <1>1, <1>3, <1>4, <1>6, <1>7, <2>1, <2>2 DEF Journaling
<1>12. AtWork(r)'
  BY <1>4, <1>11, OnlyThat
<1>13. Tidy(r)
  BY <1>2, <1>6, <1>7, JournalOfShape DEF Tidy
<1>14. ~JournalLater(r)'
  BY <1>4 DEF JournalLater, Renaming
<1> QED BY <1>0, <1>3, <1>4, <1>7, <1>10, <1>12, <1>13, <1>14, QuietSound DEF Labels, Settled, Renaming

\* A release folder that can be read is there whole, or not at all.
LEMMA ReadableShape ==
  ASSUME DiskOK, Readable(disk)
  PROVE  IF disk.tree[Target].of = NoRun THEN Empty(Target)
         ELSE disk.tree[Target].of \in Runs /\ Holds(Target, disk.tree[Target].of)
<1>1. disk.tree[Target] \in Trees
  BY TreeShape, Shapes
<1> QED BY <1>1, RunsAssumption DEF Trees, NoTree, Readable, Empty, Holds, Whole

LEMMA JournalSyncSound ==
  ASSUME NEW r \in Runs, RunOK, DiskOK, IInv, pc[r] = "journalSync",
         Start(r, IF prev[r] # NoRun THEN "snapshot" ELSE "promote"), Sync, UNCHANGED <<prev, tx, outcome>>
  PROVE  Sound(r)
<1>1. /\ tx[r] = JournalOf(r) /\ SameTrees /\ Holds(Staged(r), r) /\ Empty(Snapshot(r))
      /\ disk.tree[Target].of = prev[r] /\ Readable(disk) /\ disk.journal = JournalOf(r)
  BY DEF IInv, RunsAtWork, AtWork, Journaling
<1>2. prev[r] # Unread /\ JournalOf(r).form = "whole"
  BY JournalOfShape DEF RunOK, UsesPrevious
<1>3. pc' = [pc EXCEPT ![r] = "guard"] /\ move' = [move EXCEPT ![r] = IF prev[r] # NoRun THEN "snapshot" ELSE "promote"]
      /\ Goto(r, "guard")
  BY DEF Start, Goto
<1>4. Local(r) /\ pc'[r] = "guard" /\ move'[r] = IF prev[r] # NoRun THEN "snapshot" ELSE "promote"
  BY <1>3 DEF Local, RunOK
<1>5. Grows /\ disk' = disk /\ Synced' /\ SameJournal'
  BY ReadGrows DEF Sync, Commit, Synced, SameJournal
<1>6. World
  BY <1>5, WorldSync DEF IInv, NothingReported
<1>7. Carried(r)'
  <2>1. IF prev[r] = NoRun THEN Empty(Target) ELSE Holds(Target, prev[r])
    BY <1>1, ReadableShape
  <2> QED BY <1>1, <1>4, <1>5, <2>1 DEF Carried, Holds, Empty
<1>8. Moving(r)'
  <2>1. JournalOf(r)' = JournalOf(r)
    BY DEF JournalOf
  <2> QED BY <1>1, <1>2, <1>4, <1>5, <1>7, <2>1 DEF Moving
<1>9. AtWork(r)'
  BY <1>4, <1>8, OnlyThat DEF Renaming
<1>10. ~JournalLater(r)'
  BY <1>4 DEF JournalLater
<1> QED BY <1>3, <1>4, <1>5, <1>6, <1>9, <1>10, QuietSound, ReadTidy DEF Labels, Settled

LEMMA JournalCleanupSound ==
  ASSUME NEW r \in Runs, RunOK, DiskOK, IInv, pc[r] = "journalCleanup", End(r, "close", "failed"),
         Write([disk EXCEPT !.journal = NoJournal]) \/ Read, UNCHANGED <<move, prev, tx>>
  PROVE  Sound(r)
<1> DEFINE d == [disk EXCEPT !.journal = NoJournal]
<1>1. disk.journal.form = "partial" /\ SameTrees
  BY DEF IInv, RunsAtWork, AtWork, Journaling
<1>2. r \notin Healthy /\ outcome[r] = "none" /\ Backed(disk)
  BY DEF IInv, RunsAtWork, HealthyOK, Fresh, DurableOK
<1>3. NothingReported
  BY <1>2 DEF NothingReported, End, RunOK
<1>4. CASE Read
  <2>1. World
    BY <1>3, <1>4, WorldRead DEF IInv
  <2> QED BY <1>2, <1>4, <2>1, LastSound, ReadGrows, ReadTidy
<1>5. CASE Write(d)
  <2>1. d.journal = NoJournal /\ d.tree = disk.tree
    BY JournalEffect, Shapes
  <2>2. disk' = d /\ Grows /\ SameTrees'
    BY <1>1, <1>5, <2>1, WriteGrows
  <2> HIDE DEF d
  <2>3. Exposed(disk') = Exposed(disk) /\ Backed(disk')
    BY <1>1, <1>2, <2>1, <2>2, UndecodedKeeps DEF NoJournal
  <2>4. World
    BY <1>3, <2>1, <2>2, <2>3, WorldKept DEF IInv
  <2>5. Tidy(r)
    BY <2>1, <2>2 DEF Tidy, NoJournal
  <2> QED BY <1>2, <2>2, <2>4, <2>5, LastSound
<1> QED BY <1>4, <1>5

LEMMA CreateJournalSound ==
  ASSUME NEW r \in Runs, RunOK, DiskOK, IInv, Owns(r), CreateJournal(r)
  PROVE  Sound(r)
<1>1. CASE pc[r] = "journalOpen" /\ IF Owns(r) THEN Step(r, "journalOpen", "journalCreate") /\ Read ELSE Abort(r)
  BY <1>1, JournalOpenSound
<1>2. CASE /\ pc[r] = "journalCreate"
           /\ IF disk.journal.form = "absent"
              THEN /\ Goto(r, "journalWrite") /\ tx' = [tx EXCEPT ![r] = JournalOf(r)]
                   /\ Write([disk EXCEPT !.journal = [JournalOf(r) EXCEPT !.form = "partial"]])
                   /\ UNCHANGED <<move, prev, outcome>>
              ELSE Abort(r)
  <2>1. disk.journal.form = "absent"
    BY <1>2 DEF IInv, RunsAtWork, AtWork, Opening, NoJournal
  <2> QED BY <1>2, <2>1, JournalCreateSound
<1>3. CASE /\ pc[r] = "journalWrite"
           /\ IF disk.journal.run = r
              THEN Step(r, "journalWrite", "journalSync") /\ Write([disk EXCEPT !.journal.form = "whole"])
              ELSE Step(r, "journalWrite", "journalSync") /\ Read
  <2>1. disk.journal = [JournalOf(r) EXCEPT !.form = "partial"]
    BY <1>3 DEF IInv, RunsAtWork, AtWork, Journaling
  <2>2. disk.journal.run = r
    BY <2>1 DEF JournalOf
  <2> QED BY <1>3, <2>2, JournalWriteSound
<1>4. CASE /\ pc[r] = "journalSync"
           /\ IF OwnsTransaction(r)
              THEN Start(r, IF prev[r] # NoRun THEN "snapshot" ELSE "promote") /\ JournalSynced /\ UNCHANGED <<prev, tx, outcome>>
              ELSE Abort(r)
  <2>1. OwnsTransaction(r)
    BY <1>4 DEF IInv, RunsAtWork, AtWork, Journaling, OwnsTransaction
  <2> QED BY <1>4, <2>1, JournalSyncSound DEF JournalSynced
<1>5. CASE /\ pc[r] = "journalCleanup" /\ End(r, "close", "failed") /\ UNCHANGED <<move, prev, tx>>
           /\ IF Owns(r) /\ disk.journal.run = r THEN Write([disk EXCEPT !.journal = NoJournal]) ELSE Read
  BY <1>5, JournalCleanupSound
<1> QED BY <1>1, <1>2, <1>3, <1>4, <1>5 DEF CreateJournal

-----------------------------------------------------------------------------
(* renameTransaction.                                                      *)

LEMMA MovingFacts ==
  ASSUME NEW r \in Runs, RunOK, IInv, pc[r] \in Renaming
  PROVE  /\ move[r] \in {"recovery", "snapshot", "promote", "rollback"} /\ pc[r] \notin Settled
         /\ disk.journal = tx[r] /\ tx[r].form = "whole" /\ tx[r] \in Journals /\ SameJournal
         /\ move[r] # "rollback" /\ pc[r] \in {"guard", "rename"} => Synced
         /\ IF move[r] = "recovery" THEN tx[r].run # r ELSE tx[r] = JournalOf(r)
         /\ move[r] \in {"snapshot", "rollback"} => prev[r] # NoRun
         /\ Carried(r)
         /\ JournalLater(r) <=> move[r] = "recovery"
         /\ ReadsLater(r) <=> move[r] = "recovery"
         /\ tx[r].run \in Runs /\ tx[r].prev \in Runs \cup {NoRun} /\ ExpectedRun(tx[r]) \in Runs
<1>1. Moving(r)
  BY DEF IInv, RunsAtWork, AtWork
<1>2. tx[r] \in Journals /\ tx[r].form = "whole"
  BY <1>1 DEF RunOK, Moving
<1>3. tx[r].run \in Runs /\ tx[r].prev \in Runs \cup {NoRun} /\ ExpectedRun(tx[r]) \in Runs
  BY <1>2, JournalShape DEF ExpectedRun
<1>4. (JournalLater(r) <=> move[r] = "recovery") /\ (ReadsLater(r) <=> move[r] = "recovery") /\ pc[r] \notin Settled
  BY DEF JournalLater, ReadsLater, Renaming, Settled
<1> QED BY <1>1, <1>2, <1>3, <1>4 DEF RunOK, Moving

LEMMA GuardSound ==
  ASSUME NEW r \in Runs, RunOK, DiskOK, IInv, Owns(r), OwnsTransaction(r), Verified(r), Vacant(To(r)),
         Step(r, "guard", "rename"), Read
  PROVE  Sound(r)
<1>0. pc[r] = "guard" /\ pc[r] \in Renaming
  BY DEF Step, Renaming
<1>1. pc' = [pc EXCEPT ![r] = "rename"] /\ Goto(r, "rename") /\ UNCHANGED <<move, prev, tx, outcome>>
  BY DEF Step, Goto
<1>2. Local(r) /\ pc'[r] = "rename" /\ disk' = disk /\ durable' = durable
  BY <1>1 DEF Local, RunOK, Read
<1>3. Carried(r)'
  <2>1. Carried(r)
    BY <1>0, MovingFacts
  <2>2. CASE move[r] = "rollback"
    <3>1. Holds(Snapshot(r), prev[r])
      BY <2>2 DEF Verified, From, Holds, Snapshot
    <3>2. Empty(Target)
      BY <2>2, TreeShape, Shapes DEF To, Vacant, Present, Empty
    <3> QED BY <1>1, <1>2, <2>2, <3>1, <3>2 DEF Carried, Holds, Empty
  <2>3. CASE move[r] # "rollback"
    BY <1>0, <1>1, <1>2, <2>1, <2>3 DEF Carried, Holds, Empty
  <2> QED BY <2>2, <2>3
<1>4. Moving(r)'
  <2>1. JournalOf(r)' = JournalOf(r)
    BY <1>1 DEF JournalOf
  <2> QED BY <1>0, <1>1, <1>2, <1>3, <2>1, MovingFacts DEF Moving, SameJournal, Synced
<1>5. AtWork(r)'
  BY <1>2, <1>4, OnlyThat DEF Renaming
<1>6. World
  BY <1>1, WorldRead DEF IInv, NothingReported
<1>7. JournalLater(r)' => JournalLater(r) /\ ReadsLater(r)
  BY <1>0, <1>1, <1>2, MovingFacts DEF JournalLater
<1> QED BY <1>0, <1>1, <1>2, <1>5, <1>6, <1>7, MovingFacts, QuietSound, ReadGrows, ReadTidy DEF Labels, Settled

\* The rename: of the four trees that a run carries, each arrives whole.
LEMMA MoveEffect ==
  ASSUME NEW r \in Runs, RunOK, DiskOK, IInv, pc[r] = "rename", pc'[r] = "renamed",
         UNCHANGED <<move, prev, tx, outcome>>, Write(Renamed(From(r), To(r)))
  PROVE  /\ World /\ Tidy(r) /\ Carried(r)'
         /\ move[r] = "recovery" => disk'.tree[Snapshot(r)] = disk.tree[Snapshot(r)]
<1> DEFINE d == Renamed(From(r), To(r))
<1>0. pc[r] \in Renaming /\ Backed(disk) /\ disk \in durable /\ outcome[r] = "none"
  BY DEF Renaming, IInv, RunsAtWork, Fresh, DurableOK
<1>1. /\ move[r] \in {"recovery", "snapshot", "promote", "rollback"}
      /\ disk.journal = tx[r] /\ tx[r].form = "whole" /\ Carried(r)
      /\ tx[r].run \in Runs /\ ExpectedRun(tx[r]) \in Runs
      /\ IF move[r] = "recovery" THEN tx[r].run # r ELSE tx[r] = JournalOf(r)
      /\ move[r] \in {"snapshot", "rollback"} => prev[r] # NoRun
      /\ SameJournal
  BY <1>0, MovingFacts
<1>2. From(r) \in Places /\ To(r) \in Places /\ From(r) # To(r)
  BY <1>1, PlacesDiffer, Shapes DEF From, To, Snapshot, Staged
<1>3. /\ d.journal = disk.journal
      /\ d.tree[From(r)] = NoTree /\ d.tree[To(r)] = disk.tree[From(r)]
      /\ \A o \in Places \ {From(r), To(r)} : d.tree[o] = disk.tree[o]
  BY <1>2, RenamedEffect
<1>4. disk' = d /\ Grows /\ SameJournal'
  BY <1>1, <1>3, WriteGrows
<1> HIDE DEF d
<1>5. Tidy(r)
  <2>1. \A q \in Runs \ {r} : Snapshot(q) \in Places \ {From(r), To(r)}
    BY <1>1, PlacesDiffer DEF From, To, Snapshot, Staged
  <2> QED BY <1>3, <1>4, <2>1 DEF Tidy
<1>6. ASSUME Exposed(d) = Exposed(disk), Backed(d), disk.tree[Target].form # "pdfs" PROVE World
  BY <1>4, <1>6, WorldKept DEF IInv, NothingReported
<1>7. CASE move[r] = "recovery"
  <2>1. Empty(Target) /\ Holds(Place("recovery", r), ExpectedRun(tx[r]))
    BY <1>1, <1>7 DEF Carried
  <2>2. From(r) = Place("recovery", r) /\ To(r) = Target
    BY <1>7 DEF From, To
  <2>3. d.tree[Target] = Whole(ExpectedRun(tx[r])) /\ d.tree[Snapshot(r)] = disk.tree[Snapshot(r)]
    BY <1>3, <2>1, <2>2, PlacesDiffer DEF Holds
  <2>4. Backed(d)
    BY <1>1, <1>3, <2>3, WholeForm DEF Backed, Present, ReadableTarget, ExpectedRun
  <2>5. Exposed(d) = Exposed(disk)
    BY <1>1, <1>3, <2>1, <2>3, WholeForm DEF Exposed, Present, Empty, NoTree
  <2>6. World
    BY <1>6, <2>1, <2>4, <2>5 DEF Empty, NoTree
  <2>7. Carried(r)'
    BY <1>4, <1>7, <2>3 DEF Carried, Holds
  <2> QED BY <1>4, <1>5, <2>3, <2>6, <2>7
<1>8. CASE move[r] = "snapshot"
  <2>1. Holds(Target, prev[r]) /\ Empty(Snapshot(r)) /\ Holds(Staged(r), r) /\ prev[r] # NoRun
    BY <1>1, <1>8 DEF Carried
  <2>2. From(r) = Target /\ To(r) = Snapshot(r)
    BY <1>8 DEF From, To, Snapshot
  <2>3. d.tree[Target] = NoTree /\ d.tree[Snapshot(r)] = Whole(prev[r]) /\ d.tree[Staged(r)] = Whole(r)
    BY <1>3, <2>1, <2>2, PlacesDiffer DEF Holds
  <2>4. disk.journal = JournalOf(r) /\ ExpectedRun(disk.journal) = prev[r] /\ RecoverFrom(disk.journal) = Snapshot(r)
    BY <1>1, <1>8, <2>1 DEF JournalOf, ExpectedRun, RecoverFrom, Snapshot
  <2>5. Backed(d)
    BY <1>1, <1>3, <2>3, <2>4 DEF Backed, Present, NoTree
  <2>6. Exposed(d) = Exposed(disk)
    BY <1>1, <1>3, <2>1, <2>3, <2>4 DEF Exposed, Present, Holds, NoTree, Whole
  <2>7. World
    BY <1>6, <2>1, <2>5, <2>6 DEF Holds, Whole
  <2>8. Carried(r)'
    BY <1>4, <1>8, <2>3 DEF Carried, Holds, Empty
  <2> QED BY <1>5, <1>8, <2>7, <2>8
<1>9. CASE move[r] = "promote"
  <2>1. Empty(Target) /\ Holds(Staged(r), r)
    BY <1>1, <1>9 DEF Carried
  <2>2. From(r) = Staged(r) /\ To(r) = Target
    BY <1>9 DEF From, To, Staged
  <2>3. d.tree[Target] = Whole(r)
    BY <1>3, <2>1, <2>2 DEF Holds
  <2>4. disk.journal.run = r /\ disk.journal.prev = prev[r] /\ disk.journal.form = "whole"
    BY <1>1, <1>9 DEF JournalOf
  <2>5. Backed(d) /\ Exposed(d) = r
    BY <1>3, <2>3, <2>4 DEF Backed, Exposed, Present, ReadableTarget, Whole
  <2>6. Exposed(disk) = IF prev[r] = NoRun THEN r ELSE prev[r]
    BY <2>1, <2>4 DEF Exposed, Present, Empty, NoTree, ExpectedRun
  <2>7. CASE prev[r] = NoRun
    <3>1. World
      BY <1>6, <2>1, <2>5, <2>6, <2>7 DEF Empty, NoTree
    <3>2. Carried(r)'
      BY <1>4, <1>9, <2>3 DEF Carried, Holds
    <3> QED BY <1>5, <1>9, <3>1, <3>2
  <2>8. CASE prev[r] # NoRun
    <3>1. Mapped
      <4>1. Register!Replace(r)
        BY <1>4, <2>5, <2>6, <2>8 DEF Register!Replace
      <4> QED BY <4>1 DEF Mapped, Register!Next
    <3>2. ASSUME NEW e \in durable'
          PROVE  Backed(e)' /\ Falls(e)' /\ (e.tree[Target].form = "pdfs" => e.tree[Target] = disk'.tree[Target])
      <4>1. CASE e = disk'
        BY <1>4, <2>5, <4>1 DEF Falls, Backed
      <4>2. CASE e \in durable
        <5>1. Synced /\ e = disk
          BY <1>0, <1>9, <4>2, MovingFacts DEF Synced
        <5>2. Backed(e)'
          BY <1>0, <5>1 DEF Backed
        <5>3. Falls(e)'
          BY <1>0, <1>4, <2>5, <2>6, <2>8, <5>1 DEF Falls
        <5> QED BY <2>1, <5>1, <5>2, <5>3 DEF Empty, NoTree
      <4> QED BY <1>4, <4>1, <4>2 DEF Grows
    <3>3. DurableOK'
      BY <1>4, <3>2 DEF DurableOK, Grows
    <3>4. PdfKept
      BY <1>0, <2>1 DEF PdfKept, Empty, NoTree
    <3>5. Carried(r)'
      BY <1>4, <1>9, <2>3 DEF Carried, Holds
    <3> QED BY <1>5, <1>9, <3>1, <3>3, <3>4, <3>5 DEF World
  <2> QED BY <2>7, <2>8
<1>10. CASE move[r] = "rollback"
  <2>1. Empty(Target) /\ Holds(Snapshot(r), prev[r]) /\ prev[r] # NoRun
    BY <1>1, <1>10 DEF Carried
  <2>2. From(r) = Snapshot(r) /\ To(r) = Target
    BY <1>10 DEF From, To, Snapshot
  <2>3. d.tree[Target] = Whole(prev[r])
    BY <1>3, <2>1, <2>2 DEF Holds
  <2>4. disk.journal = JournalOf(r) /\ ExpectedRun(disk.journal) = prev[r] /\ disk.journal.prev = prev[r]
    BY <1>1, <1>10, <2>1 DEF JournalOf, ExpectedRun
  <2>5. Backed(d)
    BY <1>1, <1>3, <2>3, <2>4 DEF Backed, Present, ReadableTarget, Whole
  <2>6. Exposed(d) = Exposed(disk)
    BY <1>1, <1>3, <2>1, <2>3, <2>4 DEF Exposed, Present, Empty, NoTree, Whole
  <2>7. World
    BY <1>6, <2>1, <2>5, <2>6 DEF Empty, NoTree
  <2>8. Carried(r)'
    BY <1>4, <1>10, <2>3 DEF Carried, Holds
  <2> QED BY <1>5, <1>10, <2>7, <2>8
<1> QED BY <1>1, <1>7, <1>8, <1>9, <1>10

LEMMA MoveSound ==
  ASSUME NEW r \in Runs, RunOK, DiskOK, IInv, Step(r, "rename", "renamed"), Write(Renamed(From(r), To(r)))
  PROVE  Sound(r)
<1>0. pc[r] = "rename" /\ pc[r] \in Renaming
  BY DEF Step, Renaming
<1>1. pc' = [pc EXCEPT ![r] = "renamed"] /\ Goto(r, "renamed") /\ UNCHANGED <<move, prev, tx, outcome>>
  BY DEF Step, Goto
<1>2. Local(r) /\ pc'[r] = "renamed" /\ pc'[r] \in Renaming
  BY <1>1 DEF Local, RunOK, Renaming
<1>3. /\ World /\ Tidy(r) /\ Carried(r)'
      /\ move[r] = "recovery" => disk'.tree[Snapshot(r)] = disk.tree[Snapshot(r)]
  BY <1>0, <1>1, <1>2, MoveEffect
<1>4. disk'.journal = disk.journal /\ Grows /\ SameJournal'
  <2>1. From(r) \in Places /\ To(r) \in Places /\ From(r) # To(r)
    BY <1>0, MovingFacts, PlacesDiffer, Shapes DEF From, To, Snapshot, Staged
  <2>2. Renamed(From(r), To(r)).journal = disk.journal
    BY <2>1, RenamedEffect
  <2>3. SameJournal
    BY <1>0, MovingFacts
  <2> QED BY <2>2, <2>3, WriteGrows
<1>5. Moving(r)'
  <2>1. JournalOf(r)' = JournalOf(r)
    BY <1>1 DEF JournalOf
  <2> QED BY <1>0, <1>1, <1>2, <1>3, <1>4, <2>1, MovingFacts DEF Moving
<1>6. AtWork(r)'
  BY <1>2, <1>5, OnlyThat
<1>7. JournalLater(r)' => JournalLater(r) /\ ReadsLater(r) /\ move[r] = "recovery"
  BY <1>0, <1>1, <1>2, MovingFacts DEF JournalLater
<1> QED BY <1>0, <1>1, <1>2, <1>3, <1>4, <1>6, <1>7, MovingFacts, QuietSound DEF Labels, Settled

LEMMA RenamedSound ==
  ASSUME NEW r \in Runs, RunOK, DiskOK, IInv, Step(r, "renamed", "moveSync"), Read
  PROVE  Sound(r)
<1>0. pc[r] = "renamed" /\ pc[r] \in Renaming
  BY DEF Step, Renaming
<1>1. pc' = [pc EXCEPT ![r] = "moveSync"] /\ Goto(r, "moveSync") /\ UNCHANGED <<move, prev, tx, outcome>>
  BY DEF Step, Goto
<1>2. Local(r) /\ pc'[r] = "moveSync" /\ disk' = disk /\ durable' = durable
  BY <1>1 DEF Local, RunOK, Read
<1>3. Carried(r)'
  BY <1>0, <1>1, <1>2, MovingFacts DEF Carried, Holds, Empty
<1>4. Moving(r)'
  <2>1. JournalOf(r)' = JournalOf(r)
    BY <1>1 DEF JournalOf
  <2> QED BY <1>0, <1>1, <1>2, <1>3, <2>1, MovingFacts DEF Moving, SameJournal
<1>5. AtWork(r)'
  BY <1>2, <1>4, OnlyThat DEF Renaming
<1>6. World
  BY <1>1, WorldRead DEF IInv, NothingReported
<1>7. JournalLater(r)' => JournalLater(r) /\ ReadsLater(r)
  BY <1>0, <1>1, <1>2, MovingFacts DEF JournalLater
<1> QED BY <1>0, <1>1, <1>2, <1>5, <1>6, <1>7, MovingFacts, QuietSound, ReadGrows, ReadTidy DEF Labels, Settled

LEMMA MoveSyncSound ==
  ASSUME NEW r \in Runs, RunOK, DiskOK, IInv, pc[r] = "moveSync", RenameSynced(r), UNCHANGED <<prev, tx>>,
         CASE move[r] = "snapshot" -> Start(r, "promote") /\ UNCHANGED outcome
           [] move[r] = "rollback" -> End(r, "close", "failed") /\ UNCHANGED move
           [] OTHER                -> Goto(r, "journalCheck") /\ UNCHANGED <<move, outcome>>
  PROVE  Sound(r)
<1>0. pc[r] \in Renaming /\ outcome[r] = "none" /\ HealthyOK(r)
  BY DEF Renaming, IInv, RunsAtWork, Fresh
<1>1. Grows /\ disk'.journal = disk.journal /\ disk'.tree = disk.tree /\ Synced' /\ SameJournal' /\ SameTrees'
      /\ Tidy(r)
  <2>1. PICK d \in Swept : Commit(d)
    BY DEF RenameSynced, Swept
  <2>2. d.journal = disk.journal /\ d.tree = disk.tree /\ disk' = d /\ Grows /\ Synced'
    BY <2>1, SweptSame, WriteGrows
  <2> QED BY <2>2, SyncedSame DEF Tidy, Synced, SameJournal, SameTrees
<1>2. Carried(r)
  BY <1>0, MovingFacts
<1>3. CASE move[r] = "snapshot" /\ Start(r, "promote") /\ UNCHANGED outcome
  <2>1. pc' = [pc EXCEPT ![r] = "guard"] /\ move' = [move EXCEPT ![r] = "promote"] /\ Goto(r, "guard")
    BY <1>3 DEF Start, Goto
  <2>2. Local(r) /\ pc'[r] = "guard" /\ move'[r] = "promote"
    BY <1>3, <2>1 DEF Local, RunOK
  <2>3. Carried(r)'
    <3>1. Empty(Target) /\ Holds(Staged(r), r)
      BY <1>2, <1>3 DEF Carried
    <3> QED BY <1>1, <2>2, <3>1 DEF Carried, Empty, Holds
  <2>4. Moving(r)'
    <3>1. JournalOf(r)' = JournalOf(r)
      BY DEF JournalOf
    <3> QED BY <1>0, <1>1, <1>3, <2>2, <2>3, <3>1, MovingFacts DEF Moving
  <2>5. AtWork(r)'
    BY <2>2, <2>4, OnlyThat DEF Renaming
  <2>6. World
    BY <1>1, <1>3, WorldSync DEF IInv, NothingReported
  <2>7. ~JournalLater(r)'
    BY <2>2 DEF JournalLater
  <2> QED BY <1>0, <1>1, <1>3, <2>1, <2>2, <2>5, <2>6, <2>7, MovingFacts, QuietSound DEF Labels, Settled
<1>4. CASE move[r] = "rollback" /\ End(r, "close", "failed") /\ UNCHANGED move
  <2>1. r \notin Healthy
    BY <1>0, <1>4 DEF HealthyOK
  <2>2. NothingReported
    BY <1>0, <1>4 DEF NothingReported, End, RunOK
  <2>3. World
    BY <1>1, <2>2, WorldSync DEF IInv
  <2> QED BY <1>1, <1>4, <2>1, <2>3, LastSound
<1>5. CASE move[r] \in {"recovery", "promote"} /\ Goto(r, "journalCheck") /\ UNCHANGED <<move, outcome>>
  <2>1. pc' = [pc EXCEPT ![r] = "journalCheck"]
    BY <1>5 DEF Goto
  <2>2. Local(r) /\ pc'[r] = "journalCheck"
    BY <1>5, <2>1 DEF Local, RunOK
  <2>3. Removing(r)'
    <3>1. CASE move[r] = "recovery"
      <4>1. Holds(Target, ExpectedRun(tx[r])) /\ tx[r].run # r
        BY <1>0, <1>2, <3>1, MovingFacts DEF Carried
      <4>2. Present(disk, Target)
        BY <4>1 DEF Holds, Present, Whole
      <4> QED BY <1>0, <1>1, <2>2, <4>1, <4>2, MovingFacts DEF Removing, Present, NoJournal
    <3>2. CASE move[r] = "promote"
      <4>1. Holds(Target, r)
        BY <1>2, <3>2 DEF Carried
      <4>2. Present(disk, Target)
        BY <4>1 DEF Holds, Present, Whole
      <4> QED BY <1>0, <1>1, <2>2, <4>1, <4>2, MovingFacts DEF Removing, Present, NoJournal, Holds
    <3> QED BY <1>5, <3>1, <3>2
  <2>4. AtWork(r)'
    BY <2>2, <2>3, OnlyThat
  <2>5. World
    BY <1>1, <1>5, WorldSync DEF IInv, NothingReported
  <2>6. JournalLater(r)' => JournalLater(r) /\ ReadsLater(r)
    <3>1. ASSUME move[r] = "promote" PROVE tx[r].run = r
      <4>1. tx[r] = JournalOf(r)
        BY <1>0, <3>1, MovingFacts
      <4> QED BY <4>1 DEF JournalOf
    <3> QED BY <1>0, <1>5, <2>2, <3>1, MovingFacts DEF JournalLater, Renaming
  <2> QED BY <1>0, <1>1, <1>5, <2>2, <2>4, <2>5, <2>6, MovingFacts, QuietSound DEF Labels, Settled, Renaming
<1> QED BY <1>0, <1>3, <1>4, <1>5, MovingFacts

LEMMA RenameSound ==
  ASSUME NEW r \in Runs, RunOK, DiskOK, IInv, Owns(r), Rename(r)
  PROVE  Sound(r)
<1>1. CASE /\ pc[r] = "guard"
           /\ IF OwnsTransaction(r) /\ Verified(r) /\ Vacant(To(r))
              THEN Step(r, "guard", "rename") /\ Read
              ELSE Abort(r)
  <2>0. pc[r] \in Renaming /\ Running(r)
    BY <1>1 DEF Renaming, Running
  <2>1. CASE OwnsTransaction(r) /\ Verified(r) /\ Vacant(To(r))
    BY <1>1, <2>1, GuardSound
  <2>2. CASE ~(OwnsTransaction(r) /\ Verified(r) /\ Vacant(To(r))) /\ r \in Healthy
    <3>1. move[r] # "rollback"
      BY <2>0, <2>2 DEF IInv, RunsAtWork, HealthyOK
    <3>2. OwnsTransaction(r) /\ Verified(r)
      BY <2>0, <3>1, MovingFacts DEF OwnsTransaction, Verified
    <3>3. Vacant(To(r))
      BY <1>1, <2>0, <3>1, MovingFacts DEF Carried, Vacant, To, Present, Empty, NoTree, Snapshot
    <3> QED BY <2>2, <3>2, <3>3
  <2>3. CASE Abort(r) /\ r \notin Healthy
    BY <2>0, <2>3, AbortSound
  <2> QED BY <1>1, <2>1, <2>2, <2>3
<1>2. CASE /\ pc[r] = "rename"
           /\ IF Present(disk, From(r)) /\ Vacant(To(r))
              THEN Step(r, "rename", "renamed") /\ Write(Renamed(From(r), To(r)))
              ELSE Abort(r)
  <2>1. pc[r] \in Renaming
    BY <1>2 DEF Renaming
  <2>2. move[r] \in {"recovery", "snapshot", "promote", "rollback"} /\ Carried(r) /\ ExpectedRun(tx[r]) \in Runs
    BY <2>1, MovingFacts
  <2>3. Present(disk, From(r)) /\ Vacant(To(r))
    BY <1>2, <2>2 DEF Carried, From, To, Vacant, Present, Empty, Holds, NoTree, Whole, Snapshot, Staged
  <2> QED BY <1>2, <2>3, MoveSound
<1>3. CASE pc[r] = "renamed" /\ IF OwnsTransaction(r) THEN Step(r, "renamed", "moveSync") /\ Read ELSE Abort(r)
  <2>1. OwnsTransaction(r)
    BY <1>3, MovingFacts DEF OwnsTransaction, Renaming
  <2> QED BY <1>3, <2>1, RenamedSound
<1>4. CASE /\ pc[r] = "moveSync" /\ RenameSynced(r)
           /\ CASE move[r] = "snapshot" -> Start(r, "promote") /\ UNCHANGED outcome
                [] move[r] = "rollback" -> End(r, "close", "failed") /\ UNCHANGED move
                [] OTHER                -> Goto(r, "journalCheck") /\ UNCHANGED <<move, outcome>>
           /\ UNCHANGED <<prev, tx>>
  BY <1>4, MoveSyncSound
<1> QED BY <1>1, <1>2, <1>3, <1>4 DEF Rename

-----------------------------------------------------------------------------
(* removeJournal, dropRecords and Close.                                   *)

LEMMA RemovingFacts ==
  ASSUME NEW r \in Runs, IInv, pc[r] \in {"journalCheck", "journalRemove", "journalGone"}
  PROVE  /\ pc[r] \notin Settled /\ outcome[r] = "none"
         /\ Present(disk, Target) /\ SameTrees /\ tx[r] # NoJournal
         /\ tx[r].run = r => Holds(Target, r)
         /\ IF pc[r] = "journalGone" THEN disk.journal = NoJournal
            ELSE Synced /\ disk.journal = tx[r] /\ tx[r].form = "whole"
         /\ JournalLater(r) <=> tx[r].run # r
         /\ ReadsLater(r) <=> tx[r].run # r
<1>1. Removing(r) /\ Fresh(r)
  BY DEF IInv, RunsAtWork, AtWork
<1>2. (JournalLater(r) <=> tx[r].run # r) /\ (ReadsLater(r) <=> tx[r].run # r)
  BY DEF JournalLater, ReadsLater, Renaming
<1> QED BY <1>1, <1>2 DEF Removing, Fresh, Settled

LEMMA JournalCheckSound ==
  ASSUME NEW r \in Runs, RunOK, DiskOK, IInv, Step(r, "journalCheck", "journalRemove"), Read
  PROVE  Sound(r)
<1>0. pc[r] = "journalCheck"
  BY DEF Step
<1>1. pc' = [pc EXCEPT ![r] = "journalRemove"] /\ Goto(r, "journalRemove") /\ UNCHANGED <<move, prev, tx, outcome>>
  BY DEF Step, Goto
<1>2. Local(r) /\ pc'[r] = "journalRemove"
  BY <1>1 DEF Local, RunOK
<1>3. Removing(r)'
  BY <1>0, <1>1, <1>2, RemovingFacts DEF Removing, Read, Present, SameTrees, Synced, Holds
<1>4. AtWork(r)'
  BY <1>2, <1>3, OnlyThat
<1>5. World
  BY <1>1, WorldRead DEF IInv, NothingReported
<1>6. JournalLater(r)' => JournalLater(r) /\ ReadsLater(r)
  BY <1>0, <1>1, <1>2, RemovingFacts DEF JournalLater, Renaming
<1> QED BY <1>0, <1>1, <1>2, <1>4, <1>5, <1>6, RemovingFacts, QuietSound, ReadGrows, ReadTidy DEF Labels, Settled, Renaming

LEMMA JournalRemoveSound ==
  ASSUME NEW r \in Runs, RunOK, DiskOK, IInv, Step(r, "journalRemove", "journalGone"),
         Write([disk EXCEPT !.journal = NoJournal])
  PROVE  Sound(r)
<1> DEFINE d == [disk EXCEPT !.journal = NoJournal]
<1>0. pc[r] = "journalRemove"
  BY DEF Step
<1>1. /\ Present(disk, Target) /\ SameTrees /\ tx[r] # NoJournal /\ (tx[r].run = r => Holds(Target, r))
  BY <1>0, RemovingFacts
<1>2. pc' = [pc EXCEPT ![r] = "journalGone"] /\ Goto(r, "journalGone") /\ UNCHANGED <<move, prev, tx, outcome>>
  BY DEF Step, Goto
<1>3. Local(r) /\ pc'[r] = "journalGone"
  BY <1>2 DEF Local, RunOK
<1>4. d.journal = NoJournal /\ d.tree = disk.tree
  BY JournalEffect, Shapes
<1>5. disk' = d /\ Grows /\ SameTrees'
  BY <1>1, <1>4, WriteGrows
<1> HIDE DEF d
<1>6. Exposed(d) = Exposed(disk) /\ Backed(d)
  BY <1>1, <1>4 DEF Exposed, Backed, Present, NoJournal
<1>7. World
  BY <1>2, <1>4, <1>5, <1>6, WorldKept DEF IInv, NothingReported
<1>8. Removing(r)'
  BY <1>1, <1>2, <1>3, <1>4, <1>5 DEF Removing, Present, Holds
<1>9. AtWork(r)'
  BY <1>3, <1>8, OnlyThat
<1>10. Tidy(r)
  BY <1>4, <1>5 DEF Tidy, NoJournal
<1>11. JournalLater(r)' => JournalLater(r) /\ ReadsLater(r)
  BY <1>0, <1>2, <1>3, RemovingFacts DEF JournalLater, Renaming
<1>12. disk'.journal.run = NoRun /\ disk'.tree[Snapshot(r)] = disk.tree[Snapshot(r)]
  BY <1>4, <1>5 DEF NoJournal
<1> QED BY <1>0, <1>2, <1>3, <1>5, <1>7, <1>9, <1>10, <1>11, <1>12, RemovingFacts, QuietSound DEF Labels, Settled, Renaming

LEMMA JournalGoneSound ==
  ASSUME NEW r \in Runs, RunOK, DiskOK, IInv, pc[r] = "journalGone", Sync,
         CASE tx[r].run # r -> Goto(r, "read") /\ UNCHANGED outcome
           [] tx[r].run = r /\ DropsRecords(r) -> Goto(r, "drop") /\ UNCHANGED outcome
           [] OTHER -> Published(r),
         UNCHANGED <<move, prev, tx>>
  PROVE  Sound(r)
<1>1. /\ Present(disk, Target) /\ (tx[r].run = r => Holds(Target, r)) /\ disk.journal = NoJournal
      /\ outcome[r] = "none" /\ pc[r] \notin Settled /\ disk \in durable
  BY RemovingFacts DEF IInv, DurableOK
<1>2. Grows /\ disk' = disk /\ Synced' /\ SameJournal' /\ SameTrees' /\ Tidy(r)
  BY ReadGrows, ReadTidy DEF Sync, Commit, Synced, SameJournal, SameTrees
<1>3. CASE tx[r].run # r /\ Goto(r, "read") /\ UNCHANGED outcome
  <2>1. pc' = [pc EXCEPT ![r] = "read"]
    BY <1>3 DEF Goto
  <2>2. Local(r) /\ pc'[r] = "read"
    BY <1>3, <2>1 DEF Local, RunOK
  <2>3. Opening(r)'
    BY <1>1, <1>2, <2>2 DEF Opening
  <2>4. AtWork(r)'
    BY <2>2, <2>3, OnlyThat
  <2>5. World
    BY <1>2, <1>3, WorldSync DEF IInv, NothingReported
  <2> QED BY <1>1, <1>2, <1>3, <2>2, <2>4, <2>5, RemovingFacts, QuietSound DEF Labels, Settled, Renaming
<1>4. CASE tx[r].run = r /\ Goto(r, "drop") /\ UNCHANGED outcome
  <2>1. pc' = [pc EXCEPT ![r] = "drop"]
    BY <1>4 DEF Goto
  <2>2. Local(r) /\ pc'[r] = "drop"
    BY <1>4, <2>1 DEF Local, RunOK
  <2>3. Dropping(r)'
    <3>1. disk.tree[Target] = Whole(r)
      BY <1>1, <1>4 DEF Holds
    <3>2. \A d \in durable' : d = disk
      BY <1>2 DEF Synced
    <3> QED BY <1>1, <1>2, <2>2, <3>1, <3>2, WholeForm DEF Dropping, Present
  <2>4. AtWork(r)'
    BY <2>2, <2>3, OnlyThat
  <2>5. World
    BY <1>2, <1>4, WorldSync DEF IInv, NothingReported
  <2>6. ~JournalLater(r)'
    BY <2>2 DEF JournalLater, Renaming
  <2> QED BY <1>1, <1>2, <1>4, <2>2, <2>4, <2>5, <2>6, QuietSound DEF Labels, Settled, Renaming
<1>5. CASE tx[r].run = r /\ Published(r)
  <2>1. outcome' = [outcome EXCEPT ![r] = "published"]
    BY <1>5 DEF Published, End
  <2>2. Exposed(disk) = r
    BY <1>1, <1>5 DEF Exposed, Holds, Whole
  <2>3. Mapped
    <3>1. Register!Report(r)
      BY <1>2, <2>1, <2>2 DEF Register!Report, RunOK
    <3> QED BY <3>1 DEF Mapped, Register!Next
  <2>4. Backed(disk)'
    BY <1>1, <1>2 DEF Backed, Present, NoJournal
  <2>5. World
    BY <1>1, <1>2, <2>3, <2>4, WorldSynced
  <2> QED BY <1>2, <1>5, <2>5, LastSound DEF Published
<1> QED BY <1>3, <1>4, <1>5

LEMMA RemoveJournalSound ==
  ASSUME NEW r \in Runs, RunOK, DiskOK, IInv, Owns(r), RemoveJournal(r)
  PROVE  Sound(r)
<1>1. CASE pc[r] = "journalCheck" /\ IF OwnsTransaction(r) THEN Step(r, "journalCheck", "journalRemove") /\ Read ELSE Abort(r)
  <2>1. OwnsTransaction(r)
    BY <1>1, RemovingFacts DEF OwnsTransaction
  <2> QED BY <1>1, <2>1, JournalCheckSound
<1>2. CASE /\ pc[r] = "journalRemove"
           /\ IF disk.journal.form # "absent"
              THEN Step(r, "journalRemove", "journalGone") /\ Write([disk EXCEPT !.journal = NoJournal])
              ELSE Abort(r)
  <2>1. disk.journal.form # "absent"
    BY <1>2, RemovingFacts
  <2> QED BY <1>2, <2>1, JournalRemoveSound
<1>3. CASE /\ pc[r] = "journalGone"
           /\ IF Owns(r)
              THEN /\ Sync
                   /\ CASE tx[r].run # r -> Goto(r, "read") /\ UNCHANGED outcome
                        [] tx[r].run = r /\ DropsRecords(r) -> Goto(r, "drop") /\ UNCHANGED outcome
                        [] OTHER -> Published(r)
                   /\ UNCHANGED <<move, prev, tx>>
              ELSE Abort(r)
  BY <1>3, JournalGoneSound
<1> QED BY <1>1, <1>2, <1>3 DEF RemoveJournal

LEMMA DroppingFacts ==
  ASSUME NEW r \in Runs, IInv, pc[r] \in {"drop", "strip", "dropSync", "prune"}
  PROVE  /\ pc[r] \notin Settled /\ outcome[r] = "none" /\ disk \in durable
         /\ SameJournal /\ disk.journal = NoJournal
         /\ \A d \in durable : Present(d, Target) /\ d.tree[Target].of = r
         /\ Present(disk, Target) /\ disk.tree[Target].of = r
         /\ Exposed(disk) = r
         /\ pc[r] = "drop" => disk.tree[Target].form = "whole"
         /\ pc[r] = "strip" => disk.tree[Target].form \in {"whole", "stripped"}
         /\ pc[r] \in {"dropSync", "prune"} => disk.tree[Target].form = "pdfs"
BY DEF IInv, RunsAtWork, AtWork, Fresh, DurableOK, Dropping, Settled, Exposed

\* A step of dropRecords that leaves some tree of r in the release folder.
LEMMA DropStepSound ==
  ASSUME NEW r \in Runs, RunOK, DiskOK, IInv, pc[r] \in {"drop", "strip", "dropSync", "prune"},
         NEW l \in {"strip", "dropSync", "prune"}, Step(r, pc[r], l),
         Grows, disk'.journal = NoJournal, SameJournal',
         \A q \in Runs : disk'.tree[Snapshot(q)] \in {disk.tree[Snapshot(q)], NoTree},
         Present(disk', Target), disk'.tree[Target].of = r,
         disk.tree[Target].form = "pdfs" => disk'.tree[Target] = disk.tree[Target],
         l = "strip" => disk'.tree[Target].form \in {"whole", "stripped"},
         l \in {"dropSync", "prune"} => disk'.tree[Target].form = "pdfs"
  PROVE  Sound(r)
<1>1. pc' = [pc EXCEPT ![r] = l] /\ Goto(r, l) /\ UNCHANGED <<move, prev, tx, outcome>>
  BY DEF Step, Goto
<1>2. Local(r) /\ pc'[r] = l /\ l \in Labels
  BY <1>1 DEF Local, RunOK, Labels
<1>3. Exposed(disk') = Exposed(disk) /\ Backed(disk')
  BY DroppingFacts DEF Exposed, Backed, NoJournal
<1>4. World
  BY <1>1, <1>3, WorldKept DEF IInv, NothingReported
<1>5. \A d \in durable' : Present(d, Target) /\ d.tree[Target].of = r
  BY DroppingFacts DEF Grows
<1>6. Dropping(r)'
  <2>1. SameJournal' /\ (disk.journal = NoJournal)' /\ (\A d \in durable : Present(d, Target) /\ d.tree[Target].of = r)'
    BY <1>5
  <2> QED BY <1>2, <2>1 DEF Dropping
<1>7. AtWork(r)'
  BY <1>2, <1>6, OnlyThat
<1>8. Tidy(r)
  BY DEF Tidy, NoJournal
<1>9. ~JournalLater(r)'
  BY <1>2 DEF JournalLater, Renaming
<1> QED BY <1>1, <1>2, <1>4, <1>7, <1>8, <1>9, DroppingFacts, QuietSound DEF Settled, Renaming

LEMMA StripSound ==
  ASSUME NEW r \in Runs, NEW f \in {"stripped", "pdfs"}, RunOK, DiskOK, IInv, pc[r] = "strip",
         disk.tree[Target].form = IF f = "stripped" THEN "whole" ELSE "stripped",
         Step(r, "strip", IF f = "stripped" THEN "strip" ELSE "dropSync"),
         Write([disk EXCEPT !.tree[Target].form = f])
  PROVE  Sound(r)
<1> DEFINE d == [disk EXCEPT !.tree[Target].form = f]
<1>1. d.journal = disk.journal /\ d.tree[Target] = [disk.tree[Target] EXCEPT !.form = f]
      /\ \A q \in Places \ {Target} : d.tree[q] = disk.tree[q]
  BY FormEffect DEF Forms
<1>2. disk' = d /\ Grows /\ SameJournal'
  BY <1>1, WriteGrows, DroppingFacts
<1> HIDE DEF d
<1>3. disk.tree[Target] \in Trees
  BY TreeShape, Shapes
<1>4. d.tree[Target].form = f /\ d.tree[Target].of = disk.tree[Target].of
  BY <1>1, <1>3 DEF Trees, NoTree
<1>5. Present(disk', Target) /\ disk'.tree[Target].of = r /\ disk'.journal = NoJournal
      /\ \A q \in Runs : disk'.tree[Snapshot(q)] = disk.tree[Snapshot(q)]
  BY <1>1, <1>2, <1>4, DroppingFacts, PlacesDiffer DEF Present
<1> QED BY <1>2, <1>4, <1>5, DropStepSound

LEMMA DropRecordsSound ==
  ASSUME NEW r \in Runs, RunOK, DiskOK, IInv, Owns(r), DropRecords(r)
  PROVE  Sound(r)
<1>1. CASE pc[r] = "drop" /\ IF Owns(r) THEN Step(r, "drop", "strip") /\ Read ELSE Abort(r)
  <2>1. Grows /\ disk' = disk /\ SameJournal'
    BY <1>1, ReadGrows, DroppingFacts DEF Read, SameJournal
  <2> QED BY <1>1, <2>1, DroppingFacts, DropStepSound
<1>2. CASE /\ pc[r] = "strip"
           /\ CASE disk.tree[Target].form = "whole" ->
                     Step(r, "strip", "strip") /\ Write([disk EXCEPT !.tree[Target].form = "stripped"])
                [] disk.tree[Target].form = "stripped" ->
                     Step(r, "strip", "dropSync") /\ Write([disk EXCEPT !.tree[Target].form = "pdfs"])
                [] OTHER -> Abort(r)
  <2>1. disk.tree[Target].form \in {"whole", "stripped"}
    BY <1>2, DroppingFacts
  <2> QED BY <1>2, <2>1, StripSound
<1>3. CASE Step(r, "dropSync", "prune") /\ Sync
  <2>1. pc[r] = "dropSync"
    BY <1>3 DEF Step
  <2>2. Grows /\ disk' = disk /\ SameJournal'
    BY <1>3, ReadGrows DEF Sync, Commit, SameJournal
  <2> QED BY <1>3, <2>1, <2>2, DroppingFacts, DropStepSound
<1>4. ASSUME NEW s \in Runs, Step(r, "prune", "prune"), Write(Put(Place("snapshot", s), NoTree))
      PROVE  Sound(r)
  <2>1. pc[r] = "prune"
    BY <1>4 DEF Step
  <2> DEFINE d == Put(Place("snapshot", s), NoTree)
  <2>2. d.journal = disk.journal /\ d.tree[Target] = disk.tree[Target]
        /\ \A q \in Runs : d.tree[Snapshot(q)] \in {disk.tree[Snapshot(q)], NoTree}
    BY PutEffect, PlacesDiffer, Shapes DEF Snapshot, Puts
  <2>3. disk' = d /\ Grows /\ SameJournal'
    BY <1>4, <2>1, <2>2, WriteGrows, DroppingFacts
  <2> HIDE DEF d
  <2> QED BY <1>4, <2>1, <2>2, <2>3, DroppingFacts, DropStepSound DEF Present
<1>5. CASE pc[r] = "prune" /\ Published(r) /\ Read /\ UNCHANGED <<move, prev, tx>>
  <2>1. outcome' = [outcome EXCEPT ![r] = "published"]
    BY <1>5 DEF Published, End
  <2>2. Mapped
    <3>1. Register!Report(r)
      BY <1>5, <2>1, DroppingFacts DEF Register!Report, RunOK, Read
    <3> QED BY <3>1 DEF Mapped, Register!Next
  <2>3. \A d \in durable : Backed(d)' /\ Exposed(d) = r
    BY <1>5, DroppingFacts DEF Backed, Exposed, SameJournal, NoJournal
  <2>4. DurableOK'
    BY <1>5, <2>3, DroppingFacts DEF IInv, DurableOK, Read, SameJournal, SameTrees, Falls
  <2>5. World
    BY <1>5, <2>2, <2>4 DEF World, PdfKept, Read
  <2> QED BY <1>5, <2>5, LastSound, ReadGrows, ReadTidy DEF Published
<1> QED BY <1>1, <1>2, <1>3, <1>4, <1>5 DEF DropRecords

\* The lock file is nothing that a recovery looks at.
LEMMA WorldLock ==
  ASSUME DiskOK, IInv, NEW o \in Runs \cup {NoRun}, UNCHANGED <<prev, outcome>>,
         Write([disk EXCEPT !.lock = o]) \/ Commit([disk EXCEPT !.lock = o])
  PROVE  World /\ Grows /\ disk'.journal = disk.journal /\ disk'.tree = disk.tree
<1> DEFINE d == [disk EXCEPT !.lock = o]
<1>1. d.journal = disk.journal /\ d.tree = disk.tree
  BY LockEffect
<1>2. disk' = d /\ Grows
  BY WriteGrows
<1>3. SameJournal' \/ SameTrees'
  BY <1>1, WriteGrows DEF IInv, DurableOK
<1> HIDE DEF d
<1>4. Exposed(d) = Exposed(disk) /\ Backed(d)
  BY <1>1, SameLook DEF IInv, DurableOK
<1> QED BY <1>1, <1>2, <1>3, <1>4, WorldKept DEF IInv, NothingReported

LEMMA CloseSound ==
  ASSUME NEW r \in Runs, RunOK, DiskOK, IInv, Owns(r), Close(r)
  PROVE  Sound(r)
<1>1. CASE pc[r] = "close" /\ IF Owns(r) THEN Step(r, "close", "unlock") /\ Read ELSE Abort(r)
  BY <1>1, StopSound DEF Step
<1>2. CASE /\ Step(r, "unlock", "done")
           /\ Commit([disk EXCEPT !.lock = NoRun]) \/ Write([disk EXCEPT !.lock = NoRun])
  <2>1. pc' = [pc EXCEPT ![r] = "done"] /\ UNCHANGED <<move, prev, tx, outcome>>
    BY <1>2 DEF Step, Goto
  <2>2. Local(r) /\ pc'[r] = "done"
    BY <2>1 DEF Local, RunOK, Step
  <2>3. World /\ Grows /\ Tidy(r)
    BY <1>2, <2>1, WorldLock DEF Tidy
  <2>4. AtWork(r)'
    BY <2>2, Idle DEF Labels, Holding
  <2>5. Fresh(r)'
    BY <2>1, <2>2, <2>3, FreshStep DEF JournalLater, ReadsLater, Renaming, Settled
  <2>6. HealthyOK(r)'
    BY <2>1, <2>2 DEF HealthyOK, IInv, RunsAtWork, Renaming
  <2> QED BY <2>2, <2>3, <2>4, <2>5, <2>6 DEF Sound, Alive
<1> QED BY <1>1, <1>2 DEF Close


-----------------------------------------------------------------------------
(* Steps that take or lose the folder.                                     *)

\* After a power loss that took the tree which the journal needs, with the
\* unsynced folder it was in, runs come and go and change nothing but the lock.
Waiting == {"preflight", "acquire", "recover"}

Stranded ==
  /\ disk \in durable /\ Cut(disk) /\ ~Backed(disk)
  /\ \A d \in durable : /\ d.journal = disk.journal /\ d.tree = disk.tree
                        /\ d.fresh = {} /\ d.lost = disk.lost
  /\ \A r \in Runs : /\ pc[r] \in Waiting \cup Settled
                     /\ pc[r] \in Waiting => outcome[r] = "none"

Advances == (IInv \/ Stranded)' /\ Mapped /\ PdfKept

LEMMA SoundAdvances ==
  ASSUME NEW r \in Runs, RunOK', IInv, Sound(r), Read \/ \A q \in Runs \ {r} : pc[q] \notin Holding
  PROVE  Advances
<1>1. \A q \in Runs \ {r} : Alive(q)'
  <2>1. CASE Read
    BY <2>1, OthersRead DEF IInv, Sound
  <2>2. CASE ~Read /\ \A q \in Runs \ {r} : pc[q] \notin Holding
    BY <2>2, OthersIdle DEF IInv, Sound
  <2> QED BY <2>1, <2>2
<1>2. RunsAtWork'
  BY <1>1 DEF RunsAtWork, Alive, Sound
<1> QED BY <1>2 DEF Advances, IInv, Sound, World

LEMMA NobodyAtWork ==
  ASSUME OneOwner, RunOK, \A r \in Runs : ~Owns(r) \/ ~Running(r)
  PROVE  \A r \in Runs : pc[r] \notin Holding
BY DEF OneOwner, Running, Holding

LEMMA AcquireAdvances ==
  ASSUME NEW r \in Runs, RunOK, DiskOK, OneOwner, IInv, RunOK', Acquire(r)
  PROVE  Advances
<1>1. CASE LockAbsent /\ Step(r, "acquire", "recover") /\ Commit([disk EXCEPT !.lock = r])
  <2>0. pc[r] = "acquire" /\ \A q \in Runs : pc[q] \notin Holding
    BY <1>1, NobodyAtWork, RunsAssumption DEF LockAbsent, Owns, Step
  <2>1. pc' = [pc EXCEPT ![r] = "recover"] /\ Goto(r, "recover") /\ UNCHANGED <<move, prev, tx, outcome>>
    BY <1>1 DEF Step, Goto
  <2>2. Local(r) /\ pc'[r] = "recover"
    BY <2>1 DEF Local, RunOK
  <2>3. World /\ Grows /\ disk'.journal = disk.journal /\ disk'.tree = disk.tree
    BY <1>1, <2>1, WorldLock
  <2>4. Recovering(r)'
    BY <1>1, <2>2, WriteGrows DEF Recovering
  <2>5. AtWork(r)'
    BY <2>2, <2>4, OnlyThat
  <2>6. Tidy(r)
    BY <2>3 DEF Tidy
  <2>7. Sound(r)
    BY <2>0, <2>1, <2>2, <2>3, <2>5, <2>6, QuietSound DEF Labels, Settled, Renaming, JournalLater, ReadsLater
  <2> QED BY <2>0, <2>7, SoundAdvances
<1>2. CASE pc[r] = "acquire" /\ End(r, "done", "locked") /\ Read /\ UNCHANGED <<move, prev, tx>>
  BY <1>2, EndSound, SoundAdvances DEF Settled
<1> QED BY <1>1, <1>2 DEF Acquire

\* A power loss leaves the release folder and the journal, and takes the tree
\* that the journal needs only where it lay in a folder not yet synced.
LEMMA PowerLossLeaves ==
  ASSUME DiskOK, IInv, PowerLoss
  PROVE  /\ durable' = {disk'} /\ disk'.fresh = {}
         /\ \E e \in durable : /\ disk'.journal = e.journal /\ disk'.tree[Target] = e.tree[Target]
                               /\ \A p \in Places : disk'.tree[p] \in {e.tree[p], NoTree}
         /\ Backed(disk') \/ Cut(disk')
<1>0. PICK d \in Survivors : \E gone \in SUBSET d.fresh : Commit(Without(d, gone))
  BY DEF PowerLoss
<1>1. PICK gone \in SUBSET d.fresh : Commit(Without(d, gone))
  BY <1>0
<1>2. d \in Disks /\ disk' = Without(d, gone) /\ durable' = {disk'}
  BY <1>1, SurvivorsOK DEF Commit
<1>3. PICK e \in durable : d.journal = e.journal /\ d.tree = e.tree
  BY Twin DEF IInv
<1>4. Target \notin Taken(d, gone)
  <2>1. Target \notin Entries
    BY DEF Entries, Staging, Snapshots, Target
  <2>2. gone \subseteq Entries /\ Target[1] # "snapshot"
    BY <1>2 DEF Disks, Target
  <2> QED BY <2>1, <2>2 DEF Taken
<1>5. /\ disk'.journal = e.journal /\ disk'.tree[Target] = e.tree[Target] /\ disk'.fresh = {}
      /\ \A p \in Places : disk'.tree[p] \in {e.tree[p], NoTree}
  BY <1>2, <1>3, <1>4, WithoutOK, Shapes
<1>6. ASSUME disk'.journal.form = "whole", ~Present(disk', Target)
      PROVE  Backed(disk') \/ Cut(disk')
  <2> DEFINE place == RecoverFrom(disk'.journal)
             tree == Whole(ExpectedRun(disk'.journal))
  <2>1. e.journal \in Journals /\ e.tree[place] = tree /\ Backed(e)
    BY <1>5, <1>6 DEF IInv, DurableOK, Backed, Present, DiskOK, Disks
  <2>2. place \in Places
    BY <1>5, <1>6, <2>1, JournalShape, Shapes DEF RecoverFrom
  <2>3. d.tree[place].form = "whole"
    BY <1>3, <2>1 DEF Whole
  <2>4. disk'.tree[place] = tree \/ <<place, tree>> \in disk'.lost
    BY <1>2, <1>3, <2>1, <2>2, <2>3, WithoutOK
  <2> QED BY <1>6, <2>4 DEF Backed, Cut
<1>7. ASSUME disk'.journal.form # "whole" \/ Present(disk', Target)
      PROVE  Backed(disk')
  BY <1>5, <1>7 DEF IInv, DurableOK, Backed, Present, ReadableTarget
<1> QED BY <1>2, <1>3, <1>5, <1>6, <1>7

LEMMA PowerLossAdvances ==
  ASSUME RunOK, DiskOK, IInv, PowerLoss
  PROVE  Advances
<1>2. PICK e \in durable : /\ disk'.journal = e.journal /\ disk'.tree[Target] = e.tree[Target]
                           /\ \A p \in Places : disk'.tree[p] \in {e.tree[p], NoTree}
  BY PowerLossLeaves
<1>3. durable' = {disk'} /\ Synced' /\ disk'.fresh = {} /\ UNCHANGED <<move, prev, tx, outcome>>
  BY PowerLossLeaves DEF Synced, PowerLoss
<1>4. Exposed(disk') = Exposed(e) /\ (Backed(disk') \/ Cut(disk'))
  BY <1>2, PowerLossLeaves DEF Exposed, Present
<1>5. Backed(disk') <=> Backed(disk)'
  BY <1>3 DEF Backed
<1>6. Mapped
  <2>1. CASE Exposed(e) = Exposed(disk)
    BY <1>3, <1>4, <2>1 DEF Mapped, Register!vars
  <2>2. CASE Exposed(e) # Exposed(disk)
    <3>1. PICK r \in Runs : Exposed(disk) = r /\ outcome[r] # "published" /\ Exposed(e) = prev[r]
      BY <2>2 DEF IInv, DurableOK, Falls
    <3>2. Register!Lose(r)
      BY <1>3, <1>4, <3>1 DEF Register!Lose
    <3> QED BY <3>2 DEF Mapped, Register!Next
  <2> QED BY <2>1, <2>2
<1>7. PdfKept
  BY <1>2 DEF PdfKept, IInv, DurableOK
<1>8. \A r \in Runs : pc'[r] \in {"preflight", "done", "crashed"} /\ pc'[r] \in {pc[r], "crashed"} /\ pc'[r] \in Labels
  BY DEF PowerLoss, Running, RunOK, Labels
<1>9. CASE Backed(disk')
  <2>1. DurableOK'
    BY <1>3, <1>5, <1>9 DEF DurableOK, Synced, SameJournal, Falls
  <2>2. RunsAtWork'
    <3> SUFFICES ASSUME NEW r \in Runs PROVE AtWork(r)' /\ Fresh(r)' /\ HealthyOK(r)'
      BY DEF RunsAtWork
    <3>1. AtWork(r)'
      BY <1>8, Idle DEF Holding
    <3>2. Snapshot(r) \in Places
      BY PlacesDiffer
    <3>3. Fresh(r)'
      BY <1>2, <1>3, <1>8, <3>2 DEF IInv, RunsAtWork, Fresh, JournalLater, ReadsLater, Renaming
    <3>4. HealthyOK(r)'
      BY <1>3, <1>8 DEF IInv, RunsAtWork, HealthyOK, Renaming
    <3> QED BY <3>1, <3>3, <3>4
  <2> QED BY <1>6, <1>7, <2>1, <2>2 DEF Advances, IInv
<1>10. CASE ~Backed(disk')
  <2>1. Cut(disk)' /\ ~Backed(disk)'
    BY <1>4, <1>5, <1>10 DEF Cut
  <2>2. ASSUME NEW r \in Runs, pc'[r] \in Waiting PROVE outcome'[r] = "none"
    BY <1>3, <1>8, <2>2 DEF Waiting, IInv, RunsAtWork, Fresh
  <2>3. Stranded'
    BY <1>3, <1>8, <2>1, <2>2 DEF Stranded, Waiting, Settled
  <2> QED BY <1>6, <1>7, <2>3 DEF Advances
<1> QED BY <1>9, <1>10

LEMMA RemoveLockAdvances ==
  ASSUME RunOK, DiskOK, OneOwner, IInv, ~CarelessOperator, RemoveLock
  PROVE  Advances
<1>1. \A r \in Runs : pc[r] \notin Holding
  BY NobodyAtWork DEF RemoveLock, Owns
<1>2. Commit([disk EXCEPT !.lock = NoRun]) /\ UNCHANGED <<pc, move, prev, tx, outcome>>
  BY DEF RemoveLock
<1>3. World /\ Grows /\ disk'.journal = disk.journal /\ disk'.tree = disk.tree /\ Synced'
  BY <1>2, WorldLock, WriteGrows
<1>4. RunsAtWork'
  <2> SUFFICES ASSUME NEW r \in Runs PROVE AtWork(r)' /\ Fresh(r)' /\ HealthyOK(r)'
    BY DEF RunsAtWork
  <2>1. pc'[r] \notin Holding /\ pc'[r] \in Labels
    BY <1>1, <1>2 DEF RunOK
  <2>2. AtWork(r)'
    BY <2>1, Idle
  <2>3. disk \in durable
    BY DEF IInv, DurableOK
  <2>4. Fresh(r)'
    BY <1>2, <1>3, <2>3 DEF IInv, RunsAtWork, Fresh, JournalLater, ReadsLater, Synced
  <2>5. HealthyOK(r)'
    BY <1>2 DEF IInv, RunsAtWork, HealthyOK
  <2> QED BY <2>2, <2>4, <2>5
<1> QED BY <1>3, <1>4 DEF Advances, IInv, World

LEMMA StutterAdvances ==
  ASSUME IInv, UNCHANGED vars
  PROVE  Advances
<1>1. UNCHANGED Register!vars /\ PdfKept
  BY DEF vars, Register!vars, PdfKept
<1>2. DurableOK'
  BY DEF IInv, vars, DurableOK, SameJournal, SameTrees, Backed, Falls
<1>3. RunsAtWork'
  <2> SUFFICES ASSUME NEW r \in Runs PROVE AtWork(r)' /\ Fresh(r)' /\ HealthyOK(r)'
    BY DEF RunsAtWork
  <2>0. Read /\ UNCHANGED <<pc, move, prev, tx, outcome>>
    BY DEF vars, Read
  <2>1. Fresh(r)' /\ HealthyOK(r)'
    BY <2>0 DEF IInv, RunsAtWork, Fresh, JournalLater, ReadsLater, HealthyOK, Read
  <2>2. AtWork(r)
    BY DEF IInv, RunsAtWork
  <2>3. Recovering(r)' /\ Opening(r)'
    BY <2>0, <2>2 DEF AtWork, Recovering, Opening, Empty, Synced, SameJournal, Readable, Holds, Read
  <2>4. Journaling(r)'
    BY <2>0, <2>2 DEF AtWork, Journaling, SameTrees, Holds, Empty, Readable, JournalOf, Read
  <2>5. Carried(r)' = Carried(r)
    BY <2>0 DEF Carried, Holds, Empty, Read
  <2>6. Moving(r)'
    BY <2>0, <2>2, <2>5 DEF AtWork, Moving, Synced, SameJournal, JournalOf, Read
  <2>7. Removing(r)' /\ Dropping(r)'
    BY <2>0, <2>2 DEF AtWork, Removing, Dropping, Synced, SameJournal, SameTrees, Present, Holds, Read
  <2> QED BY <2>1, <2>3, <2>4, <2>6, <2>7 DEF AtWork
<1> QED BY <1>1, <1>2, <1>3 DEF Advances, IInv, Mapped

LEMMA RunAdvances ==
  ASSUME NEW r \in Runs, RunOK, DiskOK, OneOwner, IInv, RunOK', RunStep(r) \/ Fault(r) \/ Crash(r)
  PROVE  Advances
<1>1. CASE Acquire(r)
  BY <1>1, AcquireAdvances
<1>2. CASE Preflight(r)
  BY <1>2, PreflightSound, SoundAdvances DEF Preflight
<1>3. CASE Fault(r)
  BY <1>3, AbortSound, SoundAdvances DEF Fault, Abort, Read
<1>4. CASE Crash(r)
  BY <1>4, CrashSound, SoundAdvances DEF Crash
<1>5. CASE \/ Recover(r) \/ Copy(r) \/ ReadPrevious(r) \/ Stage(r) \/ Publish(r) \/ CreateJournal(r)
           \/ Rename(r) \/ RemoveJournal(r) \/ DropRecords(r) \/ Close(r)
  <2>1. pc[r] \in Holding
    BY <1>5 DEF Recover, Copy, ReadPrevious, Stage, Publish, CreateJournal, Rename, RemoveJournal,
                DropRecords, Close, Step, Holding, Labels
  <2>2. Owns(r) /\ \A q \in Runs \ {r} : pc[q] \notin Holding
    BY <2>1 DEF OneOwner, Owns
  <2>3. Sound(r)
    BY <1>5, <2>2, RecoverSound, CopySound, ReadPreviousSound, StageSound, PublishSound, CreateJournalSound,
       RenameSound, RemoveJournalSound, DropRecordsSound, CloseSound
  <2> QED BY <2>2, <2>3, SoundAdvances
<1> QED BY <1>1, <1>2, <1>3, <1>4, <1>5 DEF RunStep

-----------------------------------------------------------------------------
(* The tree that the journal needs is gone.                                *)

\* A step that changes no more than the lock file leaves it so.
LEMMA StillStranded ==
  ASSUME Stranded, disk' \in durable', durable' \subseteq durable \cup {disk'},
         disk'.journal = disk.journal, disk'.tree = disk.tree, disk'.fresh = {}, disk'.lost = disk.lost,
         NothingReported, UNCHANGED prev,
         \A r \in Runs : /\ pc'[r] \in Waiting \cup Settled
                         /\ pc'[r] \in Waiting => outcome'[r] = "none"
  PROVE  Advances
<1>1. Cut(disk') /\ ~Backed(disk') /\ Exposed(disk') = Exposed(disk)
  <2>1. Cut(disk')
    BY DEF Stranded, Cut, Present
  <2>2. Exposed(disk') = Exposed(disk) /\ (Backed(disk') <=> Backed(disk))
    BY SameLook
  <2> QED BY <2>1, <2>2 DEF Stranded
<1>2. Cut(disk)' /\ ~Backed(disk)'
  BY <1>1 DEF Cut, Backed
<1>3. Stranded'
  BY <1>2 DEF Stranded
<1>4. UNCHANGED Register!vars /\ PdfKept
  BY <1>1 DEF Register!vars, NothingReported, PdfKept
<1> QED BY <1>3, <1>4 DEF Advances, Mapped

LEMMA LockOnly ==
  ASSUME DiskOK, Stranded,
         \/ UNCHANGED <<disk, durable>>
         \/ \E o \in Runs \cup {NoRun} : Write([disk EXCEPT !.lock = o]) \/ Commit([disk EXCEPT !.lock = o])
  PROVE  /\ disk' \in durable' /\ durable' \subseteq durable \cup {disk'}
         /\ disk'.journal = disk.journal /\ disk'.tree = disk.tree
         /\ disk'.fresh = {} /\ disk'.lost = disk.lost
<1>0. disk \in durable /\ disk.fresh = {}
  BY DEF Stranded
<1>1. CASE UNCHANGED <<disk, durable>>
  BY <1>0, <1>1
<1>2. ASSUME NEW o \in Runs \cup {NoRun}, Write([disk EXCEPT !.lock = o]) \/ Commit([disk EXCEPT !.lock = o])
      PROVE  /\ disk' \in durable' /\ durable' \subseteq durable \cup {disk'}
             /\ disk'.journal = disk.journal /\ disk'.tree = disk.tree
             /\ disk'.fresh = {} /\ disk'.lost = disk.lost
  <2> DEFINE d == [disk EXCEPT !.lock = o]
  <2>1. d.journal = disk.journal /\ d.tree = disk.tree /\ d.fresh = {} /\ d.lost = disk.lost
    BY <1>0, LockEffect
  <2>2. disk' = d /\ disk' \in durable' /\ durable' \subseteq durable \cup {disk'}
    BY <1>2 DEF Write, Commit
  <2> HIDE DEF d
  <2> QED BY <2>1, <2>2
<1> QED BY <1>1, <1>2

\* A run finds the journal whole, the release folder gone and nothing to recover
\* it from, and fails.
LEMMA StrandedRecover ==
  ASSUME NEW r \in Runs, Stranded, Recover(r)
  PROVE  Abort(r) /\ pc[r] = "recover"
BY DEF Stranded, Cut, Backed, Recover, Refuse

LEMMA StrandedRun ==
  ASSUME NEW r \in Runs, RunOK, DiskOK, Stranded, RunStep(r) \/ Fault(r) \/ Crash(r)
  PROVE  Advances
<1>0. pc[r] \in Waiting \cup Settled /\ (pc[r] \in Waiting => outcome[r] = "none")
  BY DEF Stranded
<1>1. ASSUME NEW l \in Waiting \cup Settled, NEW why \in {"refused", "locked", "failed"},
             \/ Goto(r, l) /\ UNCHANGED outcome /\ (l \in Waiting => pc[r] \in Waiting)
             \/ End(r, l, why) /\ l \notin Waiting /\ pc[r] \in Waiting,
             UNCHANGED prev,
             \/ UNCHANGED <<disk, durable>>
             \/ \E o \in Runs \cup {NoRun} : Write([disk EXCEPT !.lock = o]) \/ Commit([disk EXCEPT !.lock = o])
      PROVE  Advances
  <2>1. pc' = [pc EXCEPT ![r] = l] /\ (outcome' = outcome \/ (outcome' = [outcome EXCEPT ![r] = why] /\ outcome[r] = "none"))
    BY <1>0, <1>1 DEF Goto, End
  <2>2. NothingReported
    BY <2>1 DEF NothingReported, RunOK
  <2>3. ASSUME NEW q \in Runs PROVE pc'[q] \in Waiting \cup Settled /\ (pc'[q] \in Waiting => outcome'[q] = "none")
    <3>1. CASE q = r
      BY <1>0, <1>1, <2>1, <3>1 DEF RunOK, Goto, End
    <3>2. CASE q # r
      BY <2>1, <3>2 DEF RunOK, Stranded
    <3> QED BY <3>1, <3>2
  <2> QED BY <1>1, <2>2, <2>3, LockOnly, StillStranded
<1>2. CASE Abort(r) /\ Running(r)
  <2>1. ~RollsBack(r) /\ pc[r] \notin {"journalWrite"} /\ UNCHANGED <<disk, durable, prev>>
    BY <1>0, <1>2 DEF RollsBack, Waiting, Settled, Abort
  <2>2. CASE pc[r] \in {"preflight", "acquire"}
    <3>1. End(r, "done", "failed")
      BY <1>2, <2>1, <2>2 DEF Abort
    <3> QED BY <1>1, <2>1, <2>2, <3>1 DEF Waiting, Settled
  <2>3. CASE pc[r] \in {"close", "unlock"}
    <3>1. Goto(r, "done") /\ UNCHANGED outcome
      BY <1>2, <2>1, <2>3 DEF Abort
    <3> QED BY <1>1, <2>1, <3>1 DEF Waiting, Settled
  <2>4. CASE pc[r] = "recover"
    <3>1. End(r, "close", "failed")
      BY <1>2, <2>1, <2>4 DEF Abort
    <3> QED BY <1>1, <2>1, <2>4, <3>1 DEF Waiting, Settled
  <2> QED BY <1>0, <1>2, <2>2, <2>3, <2>4 DEF Running, Waiting, Settled
<1>3. CASE Preflight(r)
  BY <1>1, <1>3 DEF Preflight, Read, Waiting, Settled
<1>4. CASE Acquire(r)
  <2>1. CASE Step(r, "acquire", "recover") /\ Commit([disk EXCEPT !.lock = r])
    BY <1>1, <2>1 DEF Step, Waiting
  <2>2. CASE pc[r] = "acquire" /\ End(r, "done", "locked") /\ Read /\ UNCHANGED <<move, prev, tx>>
    BY <1>1, <2>2 DEF Read, Waiting, Settled
  <2> QED BY <1>4, <2>1, <2>2 DEF Acquire
<1>5. CASE Recover(r)
  BY <1>2, <1>5, StrandedRecover DEF Running
<1>6. CASE Close(r)
  <2>1. CASE pc[r] = "close" /\ Abort(r)
    BY <1>2, <2>1 DEF Running
  <2>2. CASE Step(r, "close", "unlock") /\ Read
    BY <1>1, <2>2 DEF Step, Read, Waiting, Settled
  <2>3. CASE Step(r, "unlock", "done") /\ (Commit([disk EXCEPT !.lock = NoRun]) \/ Write([disk EXCEPT !.lock = NoRun]))
    <3>1. Goto(r, "done") /\ UNCHANGED <<outcome, prev>> /\ "done" \in Settled /\ "done" \notin Waiting
      BY <2>3 DEF Step, Waiting, Settled
    <3>2. \E o \in Runs \cup {NoRun} : Write([disk EXCEPT !.lock = o]) \/ Commit([disk EXCEPT !.lock = o])
      BY <2>3
    <3> QED BY <1>1, <3>1, <3>2
  <2> QED BY <1>6, <2>1, <2>2, <2>3 DEF Close
<1>7. CASE Fault(r)
  BY <1>2, <1>7 DEF Fault
<1>8. CASE Crash(r)
  BY <1>1, <1>8 DEF Crash, Read, Waiting, Settled
<1>9. CASE \/ Copy(r) \/ ReadPrevious(r) \/ Stage(r) \/ Publish(r) \/ CreateJournal(r)
           \/ Rename(r) \/ RemoveJournal(r) \/ DropRecords(r)
  BY <1>0, <1>9 DEF Copy, ReadPrevious, Stage, Publish, CreateJournal, Rename, RemoveJournal, DropRecords,
                    Step, Waiting, Settled
<1> QED BY <1>2, <1>3, <1>4, <1>5, <1>6, <1>7, <1>8, <1>9 DEF RunStep

\* Nothing is left for another power loss to take.
LEMMA StrandedPower ==
  ASSUME RunOK, DiskOK, Stranded, PowerLoss
  PROVE  Advances
<1>0. PICK d \in Survivors : \E gone \in SUBSET d.fresh : Commit(Without(d, gone))
  BY DEF PowerLoss
<1>1. PICK gone \in SUBSET d.fresh : Commit(Without(d, gone))
  BY <1>0
<1>2. PICK a \in durable, b \in durable : d = [a EXCEPT !.journal = b.journal]
  BY DEF Survivors
<1>3. /\ d.journal = disk.journal /\ d.tree = disk.tree /\ d.fresh = {} /\ d.lost = disk.lost /\ d \in Disks
  BY <1>2, SurvivorsOK DEF Stranded, DiskOK, Disks
<1>4. gone = {} /\ Taken(d, gone) = {}
  BY <1>1, <1>3 DEF Taken
<1>5. /\ Without(d, gone).journal = disk.journal /\ Without(d, gone).tree = disk.tree
      /\ Without(d, gone).fresh = {} /\ Without(d, gone).lost = disk.lost
  <2>1. [p \in Places |-> IF p \in Taken(d, gone) THEN NoTree ELSE d.tree[p]] = d.tree
    BY <1>3, <1>4 DEF Disks
  <2>2. {<<p, d.tree[p]>> : p \in {q \in Taken(d, gone) : d.tree[q].form = "whole"}} = {}
    BY <1>4
  <2> QED BY <1>3, <2>1, <2>2 DEF Without, Disks
<1>6. disk' = Without(d, gone) /\ durable' = {disk'} /\ UNCHANGED <<prev, outcome>>
  BY <1>1 DEF Commit, PowerLoss
<1>7. ASSUME NEW r \in Runs PROVE pc'[r] \in Waiting \cup Settled /\ (pc'[r] \in Waiting => outcome'[r] = "none")
  BY <1>6 DEF PowerLoss, Stranded, Waiting, Settled, RunOK
<1> QED BY <1>5, <1>6, <1>7, StillStranded DEF NothingReported

LEMMA StrandedAdvances ==
  ASSUME RunOK, DiskOK, Stranded, [Next]_vars
  PROVE  Advances
<1>1. CASE RemoveLock \/ UNCHANGED vars
  <2>1. UNCHANGED <<pc, prev, outcome>>
        /\ (UNCHANGED <<disk, durable>> \/ Commit([disk EXCEPT !.lock = NoRun]))
    BY <1>1 DEF RemoveLock, vars
  <2> QED BY <2>1, LockOnly, StillStranded DEF NothingReported, Stranded
<1> QED BY <1>1, StrandedRun, StrandedPower DEF Next, Finished

-----------------------------------------------------------------------------
(* Recovery, healthy runs, atomicity.                                      *)

LEMMA InitAdvances == Init => IInv /\ Register!Init
<1> SUFFICES ASSUME Init PROVE IInv /\ Register!Init
  OBVIOUS
<1>1. disk.journal = NoJournal /\ disk.tree[Target] = NoTree /\ durable = {disk}
      /\ \A r \in Runs : disk.tree[Snapshot(r)] = NoTree
  BY Shapes DEF Init, Snapshot
<1>2. Exposed(disk) = NoRun
  BY <1>1 DEF Exposed, Present, NoTree, NoJournal
<1>3. Register!Init
  BY <1>2 DEF Init, Register!Init
<1>4. Backed(disk)
  BY <1>1 DEF Init, Backed, NoJournal
<1>5. DurableOK
  BY <1>1, <1>4 DEF DurableOK, SameJournal, Falls
<1>6. ASSUME NEW r \in Runs PROVE AtWork(r) /\ Fresh(r) /\ HealthyOK(r)
  <2>1. pc[r] = "preflight" /\ outcome[r] = "none" /\ prev[r] = Unread
    BY DEF Init
  <2>2. AtWork(r)
    BY <2>1 DEF AtWork, Recovering, Opening, Journaling, Moving, Removing, Dropping, Renaming
  <2>3. Fresh(r)
    BY <1>1, <2>1, RunsAssumption DEF Fresh, NoJournal
  <2>4. HealthyOK(r)
    BY <2>1 DEF HealthyOK, Renaming
  <2> QED BY <2>2, <2>3, <2>4
<1> QED BY <1>3, <1>5, <1>6 DEF IInv, RunsAtWork

LEMMA StepAdvances ==
  ASSUME ~CarelessOperator, RunOK, DiskOK, OneOwner, IInv \/ Stranded, RunOK', [Next]_vars
  PROVE  Advances
<1>1. CASE IInv
  BY <1>1, RunAdvances, PowerLossAdvances, RemoveLockAdvances, StutterAdvances DEF Next, Finished
<1>2. CASE Stranded
  BY <1>2, StrandedAdvances
<1> QED BY <1>1, <1>2

\* What the run at work knows of the disk and of the disks that a power loss
\* could leave, whatever crashes, fails or loses power; or that the tree which
\* the journal needs was lost with power.
LEMMA AlwaysIInv ==
  ASSUME ~CarelessOperator
  PROVE  Spec => [](RunOK /\ DiskOK /\ OneOwner /\ (IInv \/ Stranded))
<1>1. Init => RunOK /\ DiskOK /\ OneOwner /\ (IInv \/ Stranded)
  BY InitOK, InitAdvances
<1>2. RunOK /\ DiskOK /\ [Next]_vars => (RunOK /\ DiskOK)'
  BY TypesStep
<1>3. RunOK /\ DiskOK /\ OneOwner /\ (IInv \/ Stranded) /\ RunOK' /\ [Next]_vars => (IInv \/ Stranded)'
  BY StepAdvances DEF Advances
<1>4. Spec => []OneOwner
  BY OneOwnerAlways
<1> QED BY <1>1, <1>2, <1>3, <1>4, PTL DEF Spec

LEMMA IInvRecoverable ==
  ASSUME DiskOK, IInv \/ Stranded
  PROVE  AlwaysRecoverable /\ HealthyNeverFails
<1>1. CASE IInv
  <2>1. ASSUME NEW d \in Survivors PROVE Backed(d)
    <3>1. PICK e \in durable : d.journal = e.journal /\ d.tree = e.tree
      BY <1>1, Twin DEF IInv
    <3> QED BY <1>1, <3>1, SameLook DEF IInv, DurableOK
  <2>2. Backed(disk)
    BY <1>1 DEF IInv, DurableOK
  <2>3. HealthyNeverFails
    BY <1>1, RunsAssumption DEF IInv, RunsAtWork, HealthyOK, HealthyNeverFails
  <2> QED BY <2>1, <2>2, <2>3 DEF AlwaysRecoverable
<1>2. CASE Stranded
  <2>1. ASSUME NEW d \in Survivors PROVE Cut(d)
    <3>1. PICK a \in durable, b \in durable : d = [a EXCEPT !.journal = b.journal]
      BY DEF Survivors
    <3>2. d.journal = disk.journal /\ d.tree = disk.tree /\ d.lost = disk.lost
      BY <1>2, <3>1 DEF Stranded, DiskOK, Disks
    <3> QED BY <1>2, <3>2 DEF Stranded, Cut, Present
  <2> QED BY <1>2, <2>1 DEF AlwaysRecoverable, HealthyNeverFails, Stranded
<1> QED BY <1>1, <1>2

\* Wherever a run or the machine stops, the next run's recovery finds the tree
\* that the journal promises (Run.recoverContext, recoverLegacyPublication),
\* unless a power loss took the unsynced folder which that very tree was in.
THEOREM AlwaysRecovers == ASSUME ~CarelessOperator PROVE Spec => []AlwaysRecoverable
<1>1. DiskOK /\ (IInv \/ Stranded) => AlwaysRecoverable
  BY IInvRecoverable
<1> QED BY <1>1, AlwaysIInv, PTL

\* A run that meets no fault of its own never fails for what earlier runs left
\* behind: none of Publish, createJournal, renameTransaction and removeJournal
\* finds a state of the folder that it refuses, and recovery finds one only
\* after a power loss took the tree that the journal needs.
THEOREM HealthyAlwaysSucceed == ASSUME ~CarelessOperator PROVE Spec => []HealthyNeverFails
<1>1. DiskOK /\ (IInv \/ Stranded) => HealthyNeverFails
  BY IInvRecoverable
<1> QED BY <1>1, AlwaysIInv, PTL

\* Publishing is a compare and swap of one register (ReleaseRegister): lock,
\* journal, renames, crashes and recoveries are steps that nobody sees.
THEOREM PublishingIsAtomic == ASSUME ~CarelessOperator PROVE Spec => AtomicPublication
<1>1. Init => Register!Init
  BY InitAdvances
<1>2. RunOK /\ DiskOK /\ OneOwner /\ (IInv \/ Stranded) /\ RunOK' /\ [Next]_vars => [Register!Next]_(Register!vars)
  BY StepAdvances DEF Advances, Mapped
<1> QED BY <1>1, <1>2, AlwaysIInv, PTL DEF Spec, AtomicPublication, Register!Spec

\* A folder of PDFs that has reached the disk is not changed by any later run,
\* crash or power loss (pdfOnlyFolderError, holdsOnlyPDFs).
THEOREM PdfFolderKept == ASSUME ~CarelessOperator PROVE Spec => PdfFolderUntouched
<1>1. RunOK /\ DiskOK /\ OneOwner /\ (IInv \/ Stranded) /\ RunOK' /\ [Next]_vars =>
        [(\A d \in durable : d.tree[Target].form = "pdfs") => disk'.tree[Target] = disk.tree[Target]]_vars
  BY StepAdvances DEF Advances, PdfKept
<1> QED BY <1>1, AlwaysIInv, PTL DEF Spec, PdfFolderUntouched

-----------------------------------------------------------------------------
(* Locks removed under living runs: nothing published is lost.             *)

\* The labels from which r still has to move its stage to the release folder.
Unpromoted(r) == \/ pc[r] \in {"journalOpen", "journalCreate", "journalWrite", "journalSync"}
                 \/ pc[r] \in Renaming /\ move[r] = "snapshot"
                 \/ pc[r] \in {"guard", "rename"} /\ move[r] = "promote"

Promoted(r) == \/ pc[r] \in {"renamed", "moveSync"} /\ move[r] = "promote"
               \/ pc[r] \in {"journalCheck", "journalRemove", "journalGone"} /\ tx[r].run = r
               \/ outcome[r] = "published"

\* What is kept, or was taken by a power loss with the folder of its snapshot.
Held == Retained \cup Lost

\* With nobody's records dropped: whatever journal and lock say, r's tree is in
\* its stage until r itself moves it, and is kept from then on.
Kept(r) ==
  /\ JournalLater(r) => disk.journal.run # r /\ tx[r].run # r
  /\ pc[r] \in {"journalWrite", "journalSync"} \/ (pc[r] \in Renaming /\ move[r] # "recovery") => tx[r].run = r
  /\ Unpromoted(r) => disk.tree[Staged(r)] = Whole(r)
  /\ Promoted(r) => Whole(r) \in Held
  /\ pc[r] \notin {"drop", "strip", "dropSync", "prune"}

KInv == \A r \in Runs : Kept(r)

RetainedGrows == \A s \in Runs : Whole(s) \in Held => Whole(s) \in Held'

\* What of r's course bears on the disks that a power loss could leave.
Onward(r) ==
  /\ Local(r)
  /\ JournalLater(r)' => JournalLater(r)
  /\ outcome'[r] = "published" => outcome[r] = "published" \/ Sync

\* What a step of r does to the trees and the journal, whoever else is at work.
Spares(r) ==
  /\ Onward(r) /\ RetainedGrows /\ Kept(r)'
  /\ disk'.journal.run \in {disk.journal.run, r, NoRun}
  /\ \A q \in Runs \ {r} : disk'.tree[Staged(q)] = disk.tree[Staged(q)]

LEMMA SparesAll ==
  ASSUME NEW r \in Runs, KInv, Spares(r)
  PROVE  KInv' /\ Onward(r)
<1> SUFFICES ASSUME NEW q \in Runs \ {r} PROVE Kept(q)'
  BY DEF KInv, Spares
<1>1. Kept(q)
  BY DEF KInv
<1>2. pc'[q] = pc[q] /\ move'[q] = move[q] /\ tx'[q] = tx[q] /\ outcome'[q] = outcome[q]
  BY DEF Spares, Onward, Local
<1>3. JournalLater(q)' = JournalLater(q) /\ Unpromoted(q)' = Unpromoted(q) /\ Promoted(q)' = Promoted(q)
  BY <1>2 DEF JournalLater, Unpromoted, Promoted
<1>4. disk.journal.run # q => disk'.journal.run # q
  BY RunsAssumption DEF Spares
<1>5. disk'.tree[Staged(q)] = disk.tree[Staged(q)] /\ (Whole(q) \in Held => Whole(q) \in Held')
  BY DEF Spares, RetainedGrows
<1> QED BY <1>1, <1>2, <1>3, <1>4, <1>5 DEF Kept

SameSight == disk'.journal = disk.journal /\ disk'.tree = disk.tree /\ disk'.lost = disk.lost

\* The retained places are left alone.
LEMMA RetainedSame ==
  ASSUME disk'.tree[Target] = disk.tree[Target],
         \A q \in Runs : disk'.tree[Snapshot(q)] = disk.tree[Snapshot(q)],
         disk'.lost = disk.lost
  PROVE  RetainedGrows
BY DEF RetainedGrows, Held, Retained, Lost, Snapshot

\* A step that changes no tree and no journal.
LEMMA SightSpares ==
  ASSUME NEW r \in Runs, KInv, Local(r), SameSight,
         JournalLater(r)' => JournalLater(r) /\ tx'[r].run # r,
         pc'[r] \in {"journalWrite", "journalSync"} \/ (pc'[r] \in Renaming /\ move'[r] # "recovery") => tx'[r].run = r,
         Unpromoted(r)' => Unpromoted(r),
         Promoted(r)' => Promoted(r),
         outcome'[r] = "published" => outcome[r] = "published" \/ Sync,
         pc'[r] \notin {"drop", "strip", "dropSync", "prune"}
  PROVE  KInv' /\ Onward(r)
<1>1. Kept(r)
  BY DEF KInv
<1>2. RetainedGrows /\ (Whole(r) \in Held => Whole(r) \in Held')
  BY RetainedSame DEF SameSight, RetainedGrows
<1>3. Kept(r)'
  BY <1>1, <1>2 DEF Kept, SameSight
<1>4. Spares(r)
  BY <1>2, <1>3 DEF Spares, Onward, SameSight
<1> QED BY <1>4, SparesAll

LEMMA LockSight ==
  ASSUME DiskOK, NEW o \in Runs \cup {NoRun}, Write([disk EXCEPT !.lock = o]) \/ Commit([disk EXCEPT !.lock = o])
  PROVE  SameSight
<1> DEFINE d == [disk EXCEPT !.lock = o]
<1>1. d.journal = disk.journal /\ d.tree = disk.tree /\ d.lost = disk.lost
  BY LockEffect
<1>2. disk' = d
  BY DEF Write, Commit
<1> QED BY <1>1, <1>2 DEF SameSight

LEMMA ReadSight == Read \/ Sync => SameSight
BY DEF Read, Sync, Commit, SameSight

LEMMA SweptSight ==
  ASSUME NEW r, DiskOK, RenameSynced(r)
  PROVE  SameSight
<1>1. PICK d \in Swept : Commit(d)
  BY DEF RenameSynced, Swept
<1> QED BY <1>1, SweptSame DEF Commit, SameSight

LEMMA GotoLocal ==
  ASSUME NEW r \in Runs, RunOK, NEW l, Goto(r, l) \/ \E why : End(r, l, why),
         outcome' = outcome \/ \E why : End(r, l, why),
         move' = move \/ \E m : Start(r, m),
         prev' = prev \/ \E p : prev' = [prev EXCEPT ![r] = p],
         tx' = tx \/ \E j : tx' = [tx EXCEPT ![r] = j]
  PROVE  Local(r) /\ pc'[r] = l
<1>1. pc' = [pc EXCEPT ![r] = l]
  BY DEF Goto, End
<1>2. \A q \in Runs \ {r} : outcome'[q] = outcome[q] /\ move'[q] = move[q]
  BY DEF End, Start, RunOK
<1>3. \A q \in Runs \ {r} : prev'[q] = prev[q] /\ tx'[q] = tx[q]
  BY DEF RunOK
<1> QED BY <1>1, <1>2, <1>3 DEF Local, RunOK

LEMMA AbortSpares ==
  ASSUME NEW r \in Runs, RunOK, KInv, Abort(r), Running(r)
  PROVE  KInv' /\ Onward(r)
<1>0. SameSight /\ UNCHANGED <<prev, tx>>
  BY DEF Abort, SameSight
<1>1. CASE RollsBack(r)
  <2>1. /\ pc' = [pc EXCEPT ![r] = "guard"] /\ move' = [move EXCEPT ![r] = "rollback"] /\ UNCHANGED outcome
    BY <1>1 DEF Abort, Goto
  <2>2. Local(r) /\ pc'[r] = "guard" /\ move'[r] = "rollback"
    BY <1>0, <2>1 DEF Local, RunOK
  <2>3. tx[r].run = r
    BY <1>1 DEF KInv, Kept, RollsBack, Renaming
  <2> QED BY <1>0, <2>1, <2>2, <2>3, SightSpares DEF JournalLater, Unpromoted, Promoted, Renaming
<1>2. CASE ~RollsBack(r)
  <2>1. /\ pc'[r] \in {"done", "journalCleanup", "close"} /\ UNCHANGED move
        /\ outcome'[r] \in {outcome[r], "failed"} /\ Local(r)
    <3>1. CASE pc[r] \in {"preflight", "acquire"} /\ End(r, "done", "failed")
      BY <1>0, <1>2, <3>1 DEF Abort, End, Goto, RunOK, Local
    <3>2. CASE Goto(r, "done") /\ UNCHANGED outcome
      BY <1>0, <1>2, <3>2 DEF Abort, Goto, RunOK, Local
    <3>3. CASE Goto(r, "journalCleanup") /\ UNCHANGED outcome
      BY <1>0, <1>2, <3>3 DEF Abort, Goto, RunOK, Local
    <3>4. CASE End(r, "close", "failed")
      BY <1>0, <1>2, <3>4 DEF Abort, End, Goto, RunOK, Local
    <3> QED BY <1>2, <3>1, <3>2, <3>3, <3>4 DEF Abort
  <2> QED BY <1>0, <2>1, SightSpares DEF JournalLater, Unpromoted, Promoted, Renaming
<1> QED BY <1>1, <1>2

\* A step that reads, or that syncs, and changes what the next lines say.
LEMMA StepSpares ==
  ASSUME NEW r \in Runs, NEW l, NEW m, RunOK, KInv, Step(r, l, m), SameSight,
         m \notin {"drop", "strip", "dropSync", "prune"},
         <<l, m>> \in {<<"recover", "read">>, <<"journalOpen", "journalCreate">>, <<"journalWrite", "journalSync">>,
                       <<"guard", "rename">>, <<"renamed", "moveSync">>, <<"journalCheck", "journalRemove">>,
                       <<"close", "unlock">>, <<"unlock", "done">>, <<"acquire", "recover">>}
  PROVE  KInv' /\ Onward(r)
<1>1. pc[r] = l /\ Goto(r, m) /\ UNCHANGED <<move, prev, tx, outcome>>
  BY DEF Step
<1>2. Local(r) /\ pc'[r] = m
  BY <1>1, GotoLocal
<1>3. Kept(r)
  BY DEF KInv
<1>4. JournalLater(r)' => JournalLater(r) /\ tx'[r].run # r
  BY <1>1, <1>2, <1>3 DEF Kept, JournalLater, Renaming
<1>5. pc'[r] \in {"journalWrite", "journalSync"} \/ (pc'[r] \in Renaming /\ move'[r] # "recovery") => tx'[r].run = r
  BY <1>1, <1>2, <1>3 DEF Kept, Renaming
<1>6. (Unpromoted(r)' => Unpromoted(r)) /\ (Promoted(r)' => Promoted(r))
  BY <1>1, <1>2 DEF Unpromoted, Promoted, Renaming
<1>7. (outcome'[r] = "published" => outcome[r] = "published" \/ Sync)
      /\ pc'[r] \notin {"drop", "strip", "dropSync", "prune"}
  BY <1>1, <1>2
<1> QED BY <1>2, <1>4, <1>5, <1>6, <1>7, SightSpares

LEMMA EndSpares ==
  ASSUME NEW r \in Runs, NEW l \in {"close", "done"}, NEW why, RunOK, KInv, End(r, l, why), SameSight,
         why = "published" => Promoted(r) /\ Sync, UNCHANGED <<move, prev, tx>>
  PROVE  KInv' /\ Onward(r)
<1>1. Local(r) /\ pc'[r] = l
  BY GotoLocal
<1>2. outcome'[r] = why
  BY DEF End, RunOK
<1>3. ~JournalLater(r)' /\ ~Unpromoted(r)' /\ pc'[r] \notin Renaming
      /\ pc'[r] \notin {"journalWrite", "journalSync", "drop", "strip", "dropSync", "prune"}
  BY <1>1 DEF JournalLater, Unpromoted, Renaming
<1>4. Promoted(r)' => why = "published"
  BY <1>1, <1>2 DEF Promoted
<1>5. (outcome'[r] = "published" => Sync) /\ (Promoted(r)' => Promoted(r))
  BY <1>2, <1>4
<1> QED BY <1>1, <1>3, <1>5, SightSpares

\* A run writes to a place of its own that nobody keeps.
LEMMA PutSpares ==
  ASSUME NEW r \in Runs, NEW k \in {"stage", "recovery"}, NEW t \in Trees, DiskOK,
         NEW d \in Puts(Place(k, r), t), Write(d) \/ Commit(d)
  PROVE  /\ disk'.journal = disk.journal /\ RetainedGrows
         /\ disk'.tree[Place(k, r)] = t
         /\ \A q \in Runs \ {r} : disk'.tree[Staged(q)] = disk.tree[Staged(q)]
<1>0. Place(k, r) \in Places
  BY Shapes
<1>1. d.journal = disk.journal /\ d.tree[Place(k, r)] = t /\ d.lost = disk.lost
      /\ \A o \in Places \ {Place(k, r)} : d.tree[o] = disk.tree[o]
  BY <1>0, PutEffect, PutKeeps
<1>2. disk' = d
  BY DEF Write, Commit
<1>3. Target # Place(k, r) /\ \A q \in Runs : Snapshot(q) # Place(k, r) /\ (q # r => Staged(q) # Place(k, r))
  BY PlacesDiffer DEF Staged
<1> QED BY <1>1, <1>2, <1>3, Shapes, PlacesDiffer, RetainedSame

LEMMA RecoverSpares ==
  ASSUME NEW r \in Runs, RunOK, KInv, Recover(r)
  PROVE  KInv' /\ Onward(r)
<1>0. pc[r] = "recover" /\ Kept(r) /\ Running(r)
  BY DEF Recover, KInv, Running
<1>1. CASE Step(r, "recover", ReadFirst) /\ Read
  BY <1>1, StepSpares, ReadSight DEF ReadFirst
<1>2. CASE /\ Goto(r, "journalCheck") \/ Goto(r, "copy")
           /\ tx' = [tx EXCEPT ![r] = disk.journal]
           /\ Read /\ UNCHANGED <<move, prev, outcome>>
  <2>1. Local(r) /\ pc'[r] \in {"journalCheck", "copy"}
    BY <1>2, GotoLocal
  <2>2. tx'[r].run # r
    BY <1>0, <1>2 DEF Kept, JournalLater, RunOK
  <2> QED BY <1>0, <1>2, <2>1, <2>2, SightSpares, ReadSight DEF JournalLater, Unpromoted, Promoted, Renaming
<1>3. CASE Refuse(r)
  BY <1>3, EndSpares, ReadSight DEF Refuse
<1>4. CASE Abort(r)
  BY <1>0, <1>4, AbortSpares
<1> QED BY <1>1, <1>2, <1>3, <1>4 DEF Recover

LEMMA CopySpares ==
  ASSUME NEW r \in Runs, RunOK, DiskOK, KInv, Copy(r)
  PROVE  KInv' /\ Onward(r)
<1>0. pc[r] \in {"copy", "copying"} /\ Kept(r) /\ Running(r) /\ JournalLater(r)
  BY DEF Copy, KInv, Running, JournalLater
<1>1. ExpectedRun(tx[r]) \in Runs
  BY <1>0, ExpectedIsRun DEF RunOK
<1>2. CASE Abort(r)
  BY <1>0, <1>2, AbortSpares
<1>3. CASE /\ Step(r, "copy", "copying")
           /\ Write(Made(Put(Place("recovery", r), [Whole(ExpectedRun(tx[r])) EXCEPT !.form = "partial"]),
                         Place("recovery", r)))
  <2>1. [Whole(ExpectedRun(tx[r])) EXCEPT !.form = "partial"] \in Trees
    BY <1>1 DEF Whole, Trees, Forms
  <2>2. disk'.journal = disk.journal /\ RetainedGrows
        /\ \A q \in Runs \ {r} : disk'.tree[Staged(q)] = disk.tree[Staged(q)]
    BY <1>3, <2>1, StagingEntries, PutSpares DEF Puts
  <2>3. Local(r) /\ pc'[r] = "copying" /\ UNCHANGED <<move, tx, outcome>>
    BY <1>3, GotoLocal DEF Step
  <2>4. Kept(r)' /\ Onward(r)
    BY <1>0, <2>2, <2>3 DEF Onward, Kept, JournalLater, Unpromoted, Promoted, Renaming, RetainedGrows
  <2> QED BY <2>2, <2>3, <2>4, SparesAll DEF Spares
<1>4. CASE /\ Start(r, "recovery") /\ UNCHANGED <<prev, tx, outcome>>
           /\ Commit(Put(Place("recovery", r), Whole(ExpectedRun(tx[r]))))
  <2>1. Whole(ExpectedRun(tx[r])) \in Trees
    BY <1>1, Shapes
  <2>2. disk'.journal = disk.journal /\ RetainedGrows
        /\ \A q \in Runs \ {r} : disk'.tree[Staged(q)] = disk.tree[Staged(q)]
    BY <1>4, <2>1, PutSpares DEF Puts
  <2>3. Local(r) /\ pc'[r] = "guard" /\ move'[r] = "recovery"
    BY <1>4, GotoLocal DEF Start, RunOK
  <2>4. Kept(r)' /\ Onward(r)
    BY <1>0, <1>4, <2>2, <2>3 DEF Onward, Kept, JournalLater, Unpromoted, Promoted, Renaming, RetainedGrows
  <2> QED BY <2>2, <2>3, <2>4, SparesAll DEF Spares
<1> QED BY <1>2, <1>3, <1>4 DEF Copy

LEMMA StagingSpares ==
  ASSUME NEW r \in Runs, RunOK, DiskOK, KInv, ReadPrevious(r) \/ Stage(r) \/ Publish(r)
  PROVE  KInv' /\ Onward(r)
<1>0. pc[r] \in {"read", "stage", "publish"} /\ Kept(r) /\ Running(r) /\ JournalLater(r)
  BY DEF ReadPrevious, Stage, Publish, KInv, Running, JournalLater
<1>1. CASE Abort(r)
  BY <1>0, <1>1, AbortSpares
<1>2. CASE Refuse(r)
  BY <1>2, EndSpares, ReadSight DEF Refuse
<1>3. CASE pc[r] = "read" /\ Goto(r, "stage") /\ prev' = [prev EXCEPT ![r] = disk.tree[Target].of]
           /\ Read /\ UNCHANGED <<move, tx, outcome>>
  <2>1. Local(r) /\ pc'[r] = "stage"
    BY <1>3, GotoLocal
  <2> QED BY <1>0, <1>3, <2>1, SightSpares, ReadSight DEF Kept, JournalLater, Unpromoted, Promoted, Renaming
<1>4. CASE /\ Step(r, "stage", "publish")
           /\ \E d \in Puts(Place("stage", r), [of |-> r, form |-> "partial"]) : Write(d)
  <2>1. disk'.journal = disk.journal /\ RetainedGrows
        /\ \A q \in Runs \ {r} : disk'.tree[Staged(q)] = disk.tree[Staged(q)]
    BY <1>4, Shapes, PutSpares
  <2>2. Local(r) /\ pc'[r] = "publish" /\ UNCHANGED <<move, tx, outcome>>
    BY <1>4, GotoLocal DEF Step
  <2>3. Kept(r)' /\ Onward(r)
    BY <1>0, <2>1, <2>2 DEF Onward, Kept, JournalLater, Unpromoted, Promoted, Renaming, RetainedGrows
  <2> QED BY <2>1, <2>2, <2>3, SparesAll DEF Spares
<1>5. CASE Step(r, "publish", "journalOpen") /\ \E d \in Puts(Place("stage", r), Whole(r)) : Commit(d)
  <2>1. disk'.journal = disk.journal /\ RetainedGrows /\ disk'.tree[Staged(r)] = Whole(r)
        /\ \A q \in Runs \ {r} : disk'.tree[Staged(q)] = disk.tree[Staged(q)]
    BY <1>5, Shapes, PutSpares DEF Staged
  <2>2. Local(r) /\ pc'[r] = "journalOpen" /\ UNCHANGED <<move, tx, outcome>>
    BY <1>5, GotoLocal DEF Step
  <2>3. Kept(r)' /\ Onward(r)
    BY <1>0, <2>1, <2>2 DEF Onward, Kept, JournalLater, Unpromoted, Promoted, Renaming, RetainedGrows
  <2> QED BY <2>1, <2>2, <2>3, SparesAll DEF Spares
<1> QED BY <1>1, <1>2, <1>3, <1>4, <1>5, StagingEntries DEF ReadPrevious, Stage, Publish, Puts

\* The trees stay where they are, and no journal becomes another run's.
LEMMA JournalSpares ==
  ASSUME NEW r \in Runs, NEW j \in Journals, DiskOK, Write([disk EXCEPT !.journal = j])
  PROVE  disk'.journal = j /\ disk'.tree = disk.tree /\ RetainedGrows
<1> DEFINE d == [disk EXCEPT !.journal = j]
<1>1. d.journal = j /\ d.tree = disk.tree /\ d.lost = disk.lost
  BY JournalEffect, JournalKeeps
<1>2. disk' = d
  BY DEF Write
<1> HIDE DEF d
<1> QED BY <1>1, <1>2, RetainedSame

LEMMA CreateJournalSpares ==
  ASSUME NEW r \in Runs, RunOK, DiskOK, KInv, CreateJournal(r)
  PROVE  KInv' /\ Onward(r)
<1>0. /\ pc[r] \in {"journalOpen", "journalCreate", "journalWrite", "journalSync", "journalCleanup"}
      /\ Kept(r) /\ Running(r)
  BY DEF CreateJournal, KInv, Running
<1>1. CASE Abort(r)
  BY <1>0, <1>1, AbortSpares
<1>2. CASE (Step(r, "journalOpen", "journalCreate") \/ Step(r, "journalWrite", "journalSync")) /\ Read
  BY <1>2, StepSpares, ReadSight
<1>3. CASE /\ pc[r] = "journalCreate" /\ Goto(r, "journalWrite")
           /\ tx' = [tx EXCEPT ![r] = JournalOf(r)]
           /\ Write([disk EXCEPT !.journal = [JournalOf(r) EXCEPT !.form = "partial"]])
           /\ UNCHANGED <<move, prev, outcome>>
  <2>1. prev[r] # Unread
    BY <1>3 DEF RunOK, UsesPrevious
  <2> DEFINE j == [JournalOf(r) EXCEPT !.form = "partial"]
  <2>a. j \in Journals /\ j.run = r /\ JournalOf(r).run = r
    BY <2>1, JournalOfShape
  <2> HIDE DEF j
  <2>2. disk'.journal.run = r /\ disk'.tree = disk.tree /\ RetainedGrows
    <3>1. Write([disk EXCEPT !.journal = j])
      BY <1>3 DEF j
    <3> QED BY <2>a, <3>1, JournalSpares
  <2>3. Local(r) /\ pc'[r] = "journalWrite" /\ tx'[r].run = r
    <3>1. Local(r) /\ pc'[r] = "journalWrite"
      BY <1>3, GotoLocal
    <3>2. tx'[r] = JournalOf(r)
      BY <1>3 DEF RunOK
    <3> QED BY <2>a, <3>1, <3>2
  <2>4. Kept(r)' /\ Onward(r)
    BY <1>0, <1>3, <2>2, <2>3 DEF Onward, Kept, JournalLater, Unpromoted, Promoted, Renaming, RetainedGrows
  <2> QED BY <2>2, <2>3, <2>4, SparesAll DEF Spares
<1>4. CASE /\ disk.journal.run = r /\ Step(r, "journalWrite", "journalSync")
           /\ Write([disk EXCEPT !.journal.form = "whole"])
  <2>1. [disk.journal EXCEPT !.form = "whole"] \in Journals /\ [disk.journal EXCEPT !.form = "whole"].run = r
    BY <1>4, RunsAssumption DEF DiskOK, Disks, Journals, NoJournal
  <2>2. [disk EXCEPT !.journal.form = "whole"] = [disk EXCEPT !.journal = [disk.journal EXCEPT !.form = "whole"]]
    BY DEF DiskOK, Disks
  <2>3. disk'.journal.run = r /\ disk'.tree = disk.tree /\ RetainedGrows
    BY <1>4, <2>1, <2>2, JournalSpares
  <2>4. Local(r) /\ pc[r] = "journalWrite" /\ pc'[r] = "journalSync" /\ UNCHANGED <<move, tx, outcome>>
    BY <1>4, GotoLocal DEF Step
  <2>5. Kept(r)' /\ Onward(r)
    BY <1>0, <2>3, <2>4 DEF Onward, Kept, JournalLater, Unpromoted, Promoted, Renaming, RetainedGrows
  <2> QED BY <2>3, <2>4, <2>5, SparesAll DEF Spares
<1>5. CASE /\ pc[r] = "journalSync" /\ Start(r, IF prev[r] # NoRun THEN "snapshot" ELSE "promote")
           /\ JournalSynced /\ UNCHANGED <<prev, tx, outcome>>
  <2>1. Local(r) /\ pc'[r] = "guard" /\ move'[r] \in {"snapshot", "promote"}
    BY <1>5, GotoLocal DEF Start, RunOK
  <2> QED BY <1>0, <1>5, <2>1, SightSpares, ReadSight
         DEF Kept, JournalLater, Unpromoted, Promoted, Renaming, JournalSynced
<1>6. CASE /\ pc[r] = "journalCleanup" /\ End(r, "close", "failed") /\ UNCHANGED <<move, prev, tx>>
           /\ Write([disk EXCEPT !.journal = NoJournal]) \/ Read
  <2>1. CASE Read
    BY <1>6, <2>1, EndSpares, ReadSight
  <2>2. CASE Write([disk EXCEPT !.journal = NoJournal])
    <3>1. disk'.journal = NoJournal /\ disk'.tree = disk.tree /\ RetainedGrows
      BY <2>2, Shapes, JournalSpares
    <3>2. Local(r) /\ pc'[r] = "close" /\ outcome'[r] = "failed"
      BY <1>6, GotoLocal DEF End, RunOK
    <3>3. Kept(r)' /\ Onward(r)
      BY <3>2 DEF Onward, Kept, JournalLater, Unpromoted, Promoted, Renaming
    <3> QED BY <3>1, <3>2, <3>3, SparesAll DEF Spares, NoJournal
  <2> QED BY <1>6, <2>1, <2>2
<1> QED BY <1>1, <1>2, <1>3, <1>4, <1>5, <1>6 DEF CreateJournal

\* A rename replaces nothing, so every tree that was kept is kept at one place
\* or the other.
LEMMA RenamedSpares ==
  ASSUME NEW r \in Runs, RunOK, DiskOK, pc[r] \in Renaming,
         Present(disk, From(r)), Vacant(To(r)), Write(Renamed(From(r), To(r)))
  PROVE  /\ disk'.journal = disk.journal /\ RetainedGrows
         /\ disk'.tree[To(r)] = disk.tree[From(r)]
         /\ \A q \in Runs \ {r} : disk'.tree[Staged(q)] = disk.tree[Staged(q)]
         /\ move[r] = "snapshot" => disk'.tree[Staged(r)] = disk.tree[Staged(r)]
<1> DEFINE d == Renamed(From(r), To(r))
<1>1. move[r] \in {"recovery", "snapshot", "promote", "rollback"}
  BY DEF RunOK
<1>2. From(r) \in Places /\ To(r) \in Places /\ From(r) # To(r)
  BY <1>1, PlacesDiffer, Shapes DEF From, To, Snapshot, Staged
<1>3. /\ d.journal = disk.journal /\ d.tree[To(r)] = disk.tree[From(r)] /\ d.lost = disk.lost
      /\ \A o \in Places \ {From(r), To(r)} : d.tree[o] = disk.tree[o]
  BY <1>2, RenamedEffect, RenamedKeeps
<1>4. disk' = d
  BY DEF Write
<1> HIDE DEF d
<1>5. \A q \in Runs : Staged(q) \in Places /\ Staged(q) # To(r)
                      /\ (q # r \/ move[r] = "snapshot" => Staged(q) # From(r))
  BY <1>1, PlacesDiffer DEF From, To, Snapshot, Staged
<1>6. To(r) \in {Target, Snapshot(r)}
  BY DEF To, Snapshot
<1>7. ASSUME NEW s \in Runs, NEW p \in {Target} \cup {Snapshot(q) : q \in Runs}, disk.tree[p] = Whole(s)
      PROVE  Whole(s) \in Retained'
  <2>1. p # To(r) /\ p \in Places
    BY <1>7, WholeForm, PlacesDiffer, Shapes DEF Vacant, Present, Whole
  <2>2. CASE p = From(r)
    BY <1>3, <1>4, <1>6, <1>7, <2>2 DEF Retained, Snapshot
  <2>3. CASE p # From(r)
    <3>1. disk'.tree[p] = Whole(s)
      BY <1>3, <1>4, <1>7, <2>1, <2>3
    <3> QED BY <1>7, <3>1 DEF Retained, Snapshot
  <2> QED BY <2>2, <2>3
<1>8. RetainedGrows
  <2>0. Lost' = Lost
    BY <1>3, <1>4 DEF Lost
  <2> SUFFICES ASSUME NEW s \in Runs, Whole(s) \in Retained PROVE Whole(s) \in Retained'
    BY <2>0 DEF RetainedGrows, Held
  <2>1. PICK p \in {Target} \cup {Snapshot(q) : q \in Runs} : disk.tree[p] = Whole(s)
    BY DEF Retained, Snapshot
  <2> QED BY <1>7, <2>1
<1> QED BY <1>3, <1>4, <1>5, <1>8

LEMMA RenameSpares ==
  ASSUME NEW r \in Runs, RunOK, DiskOK, KInv, Rename(r)
  PROVE  KInv' /\ Onward(r)
<1>0. pc[r] \in Renaming /\ Kept(r) /\ Running(r) /\ move[r] # "none"
  BY DEF Rename, Step, KInv, Running, Renaming, RunOK
<1>1. CASE Abort(r)
  BY <1>0, <1>1, AbortSpares
<1>2. CASE (Step(r, "guard", "rename") \/ Step(r, "renamed", "moveSync")) /\ Read
  BY <1>2, StepSpares, ReadSight
<1>3. CASE /\ Present(disk, From(r)) /\ Vacant(To(r)) /\ Step(r, "rename", "renamed")
           /\ Write(Renamed(From(r), To(r)))
  <2>1. Local(r) /\ pc[r] = "rename" /\ pc'[r] = "renamed" /\ UNCHANGED <<move, tx, outcome>>
    BY <1>3, GotoLocal DEF Step
  <2>2. /\ disk'.journal = disk.journal /\ RetainedGrows
        /\ disk'.tree[To(r)] = disk.tree[From(r)]
        /\ \A q \in Runs \ {r} : disk'.tree[Staged(q)] = disk.tree[Staged(q)]
        /\ move[r] = "snapshot" => disk'.tree[Staged(r)] = disk.tree[Staged(r)]
    BY <1>0, <1>3, RenamedSpares
  <2>3. move[r] = "promote" => Whole(r) \in Held'
    <3>1. move[r] = "promote" => disk.tree[Staged(r)] = Whole(r) /\ From(r) = Staged(r) /\ To(r) = Target
      BY <1>0, <2>1 DEF Kept, Unpromoted, From, To, Staged
    <3> QED BY <2>2, <3>1 DEF Held, Retained
  <2>4. Kept(r)' /\ Onward(r)
    BY <1>0, <2>1, <2>2, <2>3 DEF Onward, Kept, JournalLater, Unpromoted, Promoted, Renaming, RetainedGrows
  <2> QED BY <2>1, <2>2, <2>4, SparesAll DEF Spares
<1>4. CASE pc[r] = "moveSync" /\ RenameSynced(r) /\ UNCHANGED <<prev, tx>>
           /\ \/ move[r] = "snapshot" /\ Start(r, "promote") /\ UNCHANGED outcome
              \/ move[r] = "rollback" /\ End(r, "close", "failed") /\ UNCHANGED move
              \/ move[r] \in {"recovery", "promote"} /\ Goto(r, "journalCheck") /\ UNCHANGED <<move, outcome>>
  <2>0. SameSight
    BY <1>4, SweptSight
  <2>1. CASE move[r] = "snapshot" /\ Start(r, "promote") /\ UNCHANGED outcome
    <3>1. Local(r) /\ pc'[r] = "guard" /\ move'[r] = "promote"
      BY <1>4, <2>1, GotoLocal DEF Start, RunOK
    <3> QED BY <1>0, <1>4, <2>0, <2>1, <3>1, SightSpares DEF Kept, JournalLater, Unpromoted, Promoted, Renaming
  <2>2. CASE End(r, "close", "failed") /\ UNCHANGED move
    BY <1>4, <2>0, <2>2, EndSpares
  <2>3. CASE move[r] \in {"recovery", "promote"} /\ Goto(r, "journalCheck") /\ UNCHANGED <<move, outcome>>
    <3>1. Local(r) /\ pc'[r] = "journalCheck"
      BY <1>4, <2>3, GotoLocal
    <3>2. (JournalLater(r)' => JournalLater(r) /\ tx'[r].run # r) /\ (Promoted(r)' => Promoted(r))
      BY <1>0, <1>4, <2>3, <3>1 DEF Kept, JournalLater, Promoted, Renaming
    <3> QED BY <1>0, <2>0, <2>3, <3>1, <3>2, SightSpares DEF Unpromoted, Renaming
  <2> QED BY <1>4, <2>1, <2>2, <2>3
<1> QED BY <1>0, <1>1, <1>2, <1>3, <1>4 DEF Rename, RunOK

LEMMA RemoveJournalSpares ==
  ASSUME NEW r \in Runs, PdfRuns = {}, RunOK, DiskOK, KInv, RemoveJournal(r)
  PROVE  KInv' /\ Onward(r)
<1>0. pc[r] \in {"journalCheck", "journalRemove", "journalGone"} /\ Kept(r) /\ Running(r)
  BY DEF RemoveJournal, Step, KInv, Running
<1>1. CASE Abort(r)
  BY <1>0, <1>1, AbortSpares
<1>2. CASE Step(r, "journalCheck", "journalRemove") /\ Read
  BY <1>2, StepSpares, ReadSight
<1>3. CASE Step(r, "journalRemove", "journalGone") /\ Write([disk EXCEPT !.journal = NoJournal])
  <2>1. disk'.journal = NoJournal /\ disk'.tree = disk.tree /\ RetainedGrows
    BY <1>3, Shapes, JournalSpares
  <2>2. Local(r) /\ pc[r] = "journalRemove" /\ pc'[r] = "journalGone" /\ UNCHANGED <<move, tx, outcome>>
    BY <1>3, GotoLocal DEF Step
  <2>3. Kept(r)' /\ Onward(r)
    BY <1>0, <2>1, <2>2, RunsAssumption
       DEF Onward, Kept, JournalLater, Unpromoted, Promoted, Renaming, RetainedGrows, NoJournal
  <2> QED BY <2>1, <2>2, <2>3, SparesAll DEF Spares, NoJournal
<1>4. CASE pc[r] = "journalGone" /\ Sync /\ UNCHANGED <<move, prev, tx>>
           /\ \/ tx[r].run # r /\ Goto(r, "read") /\ UNCHANGED outcome
              \/ tx[r].run = r /\ Published(r)
  <2>1. CASE tx[r].run # r /\ Goto(r, "read") /\ UNCHANGED outcome
    <3>1. Local(r) /\ pc'[r] = "read"
      BY <1>4, <2>1, GotoLocal
    <3> QED BY <1>0, <1>4, <2>1, <3>1, SightSpares, ReadSight DEF Kept, JournalLater, Unpromoted, Promoted, Renaming
  <2>2. CASE tx[r].run = r /\ Published(r)
    BY <1>4, <2>2, EndSpares, ReadSight DEF Published, Promoted
  <2> QED BY <1>4, <2>1, <2>2
<1> QED BY <1>1, <1>2, <1>3, <1>4 DEF RemoveJournal, DropsRecords

LEMMA RunSpares ==
  ASSUME NEW r \in Runs, PdfRuns = {}, RunOK, DiskOK, KInv, RunStep(r) \/ Fault(r) \/ Crash(r)
  PROVE  KInv' /\ Onward(r)
<1>0. Kept(r)
  BY DEF KInv
<1>1. CASE Preflight(r)
  <2>1. CASE End(r, "done", "refused")
    BY <1>1, <2>1, EndSpares, ReadSight DEF Preflight
  <2>2. CASE Goto(r, "acquire") /\ UNCHANGED outcome
    <3>1. Local(r) /\ pc[r] = "preflight" /\ pc'[r] = "acquire" /\ UNCHANGED <<move, prev, tx>> /\ SameSight
      BY <1>1, <2>2, GotoLocal, ReadSight DEF Preflight
    <3> QED BY <1>0, <2>2, <3>1, SightSpares DEF Kept, JournalLater, Unpromoted, Promoted, Renaming
  <2> QED BY <1>1, <2>1, <2>2 DEF Preflight
<1>2. CASE Acquire(r)
  <2>1. CASE Step(r, "acquire", "recover") /\ Commit([disk EXCEPT !.lock = r])
    BY <2>1, StepSpares, LockSight
  <2>2. CASE End(r, "done", "locked") /\ Read /\ UNCHANGED <<move, prev, tx>>
    BY <2>2, EndSpares, ReadSight
  <2> QED BY <1>2, <2>1, <2>2 DEF Acquire
<1>3. CASE DropRecords(r)
  BY <1>0, <1>3 DEF DropRecords, Step, Kept
<1>4. CASE Close(r)
  <2>1. CASE pc[r] = "close" /\ Abort(r)
    BY <2>1, AbortSpares DEF Running
  <2>2. CASE Step(r, "close", "unlock") /\ Read
    BY <2>2, StepSpares, ReadSight
  <2>3. CASE Step(r, "unlock", "done") /\ (Commit([disk EXCEPT !.lock = NoRun]) \/ Write([disk EXCEPT !.lock = NoRun]))
    BY <2>3, StepSpares, LockSight
  <2> QED BY <1>4, <2>1, <2>2, <2>3 DEF Close
<1>5. CASE Fault(r)
  BY <1>5, AbortSpares DEF Fault
<1>6. CASE Crash(r)
  <2>1. Local(r) /\ pc'[r] = "crashed" /\ SameSight /\ UNCHANGED <<move, prev, tx, outcome>>
    BY <1>6, GotoLocal, ReadSight DEF Crash
  <2> QED BY <2>1, SightSpares DEF JournalLater, Unpromoted, Promoted, Renaming
<1> QED BY <1>1, <1>2, <1>3, <1>4, <1>5, <1>6, RecoverSpares, CopySpares, StagingSpares, CreateJournalSpares,
           RenameSpares, RemoveJournalSpares DEF RunStep

\* What a power loss could leave: no journal of a run that has not written one,
\* and every release that was reported, unless an earlier power loss took it.
RetainedIn(d) == {d.tree[Target]} \cup {d.tree[Snapshot(q)] : q \in Runs} \cup {l[2] : l \in d.lost}

SafeIn(d, r) == /\ JournalLater(r) => d.journal.run # r
                /\ outcome[r] = "published" => Whole(r) \in RetainedIn(d)

DInv == disk \in durable /\ \A d \in durable, r \in Runs : SafeIn(d, r)

LEMMA KeepsGrows ==
  ASSUME DiskOK, disk \in durable, KeepsLock
  PROVE  Grows
BY DEF DiskOK, KeepsLock, Write, Commit, Grows

LEMMA RunGrows ==
  ASSUME NEW r \in Runs, RunOK, DiskOK, disk \in durable, RunStep(r) \/ Fault(r) \/ Crash(r)
  PROVE  Grows
<1>1. CASE Acquire(r)
  BY <1>1 DEF Acquire, Commit, Read, Grows
<1>2. CASE Close(r)
  <2>1. CASE pc[r] = "close" /\ Abort(r)
    BY <2>1 DEF Abort, Grows
  <2>2. CASE Read \/ Commit([disk EXCEPT !.lock = NoRun]) \/ Write([disk EXCEPT !.lock = NoRun])
    BY <2>2 DEF Commit, Write, Read, Grows
  <2> QED BY <1>2, <2>1, <2>2 DEF Close
<1>3. CASE ~Acquire(r) /\ ~Close(r)
  BY <1>3, RunStepKeeps, KeepsGrows DEF Keeps
<1> QED BY <1>1, <1>2, <1>3

\* A publication is reported together with its SyncDir.
LEMMA OnwardDurable ==
  ASSUME NEW r \in Runs, DInv, KInv', Grows, Onward(r)
  PROVE  DInv'
<1> SUFFICES ASSUME NEW d \in durable', NEW q \in Runs PROVE SafeIn(d, q)'
  BY DEF DInv, Grows
<1>1. CASE d = disk'
  <2>1. Kept(q)'
    BY DEF KInv
  <2>2. Promoted(q)' => Whole(q) \in RetainedIn(d)
    BY <1>1, <2>1 DEF Kept, Held, Retained, Lost, RetainedIn, Snapshot
  <2> QED BY <1>1, <2>1, <2>2 DEF Kept, SafeIn, Promoted, RetainedIn
<1>2. CASE d # disk'
  <2>1. d \in durable /\ SafeIn(d, q) /\ (durable' # {disk'})
    BY <1>2 DEF DInv, Grows
  <2>2. ~Sync
    BY <2>1 DEF Sync, Commit
  <2>3. JournalLater(q)' => JournalLater(q)
    BY DEF Onward, Local, JournalLater
  <2>4. outcome'[q] = "published" => outcome[q] = "published"
    BY <2>2 DEF Onward, Local
  <2> QED BY <2>1, <2>3, <2>4 DEF SafeIn, RetainedIn
<1> QED BY <1>1, <1>2

\* The trees of one surviving disk and the journal of another.  Of the trees
\* that the loss takes, the whole ones are remembered.
LEMMA PowerLossHolds ==
  ASSUME DiskOK, PowerLoss
  PROVE  \E trees, records \in durable :
           /\ disk'.journal = records.journal /\ durable' = {disk'}
           /\ \A q \in Runs : Whole(q) \in RetainedIn(trees) => Whole(q) \in RetainedIn(disk')
<1>0. PICK d \in Survivors : \E gone \in SUBSET d.fresh : Commit(Without(d, gone))
  BY DEF PowerLoss
<1>1. PICK gone \in SUBSET d.fresh : Commit(Without(d, gone))
  BY <1>0
<1>2. PICK trees \in durable, records \in durable : d = [trees EXCEPT !.journal = records.journal]
  BY DEF Survivors
<1>3. d \in Disks /\ d.tree = trees.tree /\ d.lost = trees.lost /\ d.journal = records.journal
  BY <1>2, SurvivorsOK DEF DiskOK, Disks
<1>4. disk' = Without(d, gone) /\ durable' = {disk'}
  BY <1>1 DEF Commit
<1>5. /\ disk'.journal = records.journal /\ trees.lost \subseteq disk'.lost
      /\ \A p \in Places : \/ disk'.tree[p] = trees.tree[p]
                           \/ trees.tree[p].form = "whole" => <<p, trees.tree[p]>> \in disk'.lost
  BY <1>3, <1>4, WithoutOK
<1>6. ASSUME NEW q \in Runs, NEW p \in {Target} \cup {Snapshot(o) : o \in Runs}, trees.tree[p] = Whole(q)
      PROVE  Whole(q) \in RetainedIn(disk')
  <2>1. p \in Places
    BY Shapes, PlacesDiffer
  <2>2. CASE disk'.tree[p] = trees.tree[p]
    BY <1>6, <2>2 DEF RetainedIn
  <2>3. CASE <<p, Whole(q)>> \in disk'.lost
    BY <2>3 DEF RetainedIn
  <2> QED BY <1>5, <1>6, <2>1, <2>2, <2>3 DEF Whole
<1>7. ASSUME NEW q \in Runs, Whole(q) \in RetainedIn(trees)
      PROVE  Whole(q) \in RetainedIn(disk')
  <2>1. CASE \E p \in {Target} \cup {Snapshot(o) : o \in Runs} : trees.tree[p] = Whole(q)
    BY <1>6, <2>1
  <2>2. CASE \E l \in trees.lost : l[2] = Whole(q)
    BY <1>5, <2>2 DEF RetainedIn
  <2> QED BY <1>7, <2>1, <2>2 DEF RetainedIn
<1> QED BY <1>4, <1>5, <1>7

LEMMA PowerLossSpares ==
  ASSUME RunOK, DiskOK, KInv, DInv, PowerLoss
  PROVE  KInv' /\ DInv'
<1>1. PICK trees \in durable, records \in durable :
        /\ disk'.journal = records.journal /\ durable' = {disk'}
        /\ \A q \in Runs : Whole(q) \in RetainedIn(trees) => Whole(q) \in RetainedIn(disk')
  BY PowerLossHolds
<1>4. UNCHANGED <<move, tx, outcome>>
  BY DEF PowerLoss
<1>5. ASSUME NEW q \in Runs PROVE SafeIn(disk, q)' /\ Kept(q)'
  <2>1. SafeIn(trees, q) /\ SafeIn(records, q) /\ Kept(q)
    BY DEF DInv, KInv
  <2>2. pc'[q] \in {"done", "crashed"} \/ (pc'[q] = "preflight" /\ pc[q] = "preflight")
    BY DEF PowerLoss, Running
  <2>3. (JournalLater(q)' => JournalLater(q)) /\ ~Unpromoted(q)' /\ (Promoted(q)' => outcome'[q] = "published")
    BY <2>2 DEF JournalLater, Unpromoted, Promoted, Renaming
  <2>4. outcome'[q] = "published" => Whole(q) \in RetainedIn(disk')
    BY <1>1, <1>4, <2>1 DEF SafeIn
  <2>5. Promoted(q)' => Whole(q) \in Held'
    BY <2>3, <2>4 DEF Held, Retained, Lost, RetainedIn, Snapshot
  <2>6. JournalLater(q)' => disk'.journal.run # q /\ tx'[q].run # q
    BY <1>1, <1>4, <2>1, <2>3 DEF SafeIn, Kept
  <2>7. SafeIn(disk, q)'
    BY <2>4, <2>6 DEF SafeIn, RetainedIn
  <2> QED BY <2>2, <2>3, <2>5, <2>6, <2>7 DEF Kept, Renaming
<1> QED BY <1>1, <1>5 DEF KInv, DInv

LEMMA SurroundingsSpare ==
  ASSUME DiskOK, KInv, DInv, RemoveLock \/ UNCHANGED vars
  PROVE  KInv' /\ DInv'
<1>1. SameSight /\ UNCHANGED <<pc, move, tx, outcome>> /\ Grows
  BY LockSight DEF RemoveLock, vars, SameSight, DInv, Grows, Commit
<1>2. \A r \in Runs : Local(r) => Onward(r)
  BY <1>1 DEF Onward, JournalLater
<1>3. Held' = Held
  BY <1>1 DEF SameSight, Held, Retained, Lost
<1>4. ASSUME NEW r \in Runs PROVE Kept(r)'
  <2>1. Kept(r)
    BY DEF KInv
  <2> QED BY <1>1, <1>3, <2>1 DEF SameSight, Kept, JournalLater, Unpromoted, Promoted
<1>5. ASSUME NEW d \in durable', NEW r \in Runs PROVE SafeIn(d, r)'
  <2>1. SafeIn(d, r) \/ d = disk'
    BY <1>1 DEF DInv, Grows
  <2>2. SafeIn(disk, r)
    BY DEF DInv
  <2>3. RetainedIn(disk') = RetainedIn(disk)
    BY <1>1 DEF SameSight, RetainedIn
  <2> QED BY <1>1, <2>1, <2>2, <2>3 DEF SameSight, SafeIn, JournalLater, RetainedIn
<1> QED BY <1>1, <1>4, <1>5 DEF KInv, DInv, Grows

\* A release that Publish reported stays whole in the release folder or in a
\* snapshot, even if locks are removed under living runs and power fails: the
\* checks of renameTransaction and its SyncDir, not the lock, protect it.  Only
\* power that fails before the folder of its snapshot is on the disk takes it.
\* (As long as no run drops records: dropRecords is there to remove releases.)
THEOREM NothingEverDestroyed ==
  ASSUME PdfRuns = {}
  PROVE  Spec => []NothingDestroyed
<1>1. Init => RunOK /\ DiskOK /\ KInv /\ DInv
  <2> SUFFICES ASSUME Init PROVE KInv /\ DInv
    BY InitOK
  <2>1. disk.journal = NoJournal /\ durable = {disk}
    BY DEF Init
  <2>2. KInv
    BY <2>1, RunsAssumption DEF Init, KInv, Kept, JournalLater, Unpromoted, Promoted, Renaming, NoJournal
  <2>3. \A r \in Runs : SafeIn(disk, r)
    BY <2>1, RunsAssumption DEF Init, SafeIn, NoJournal
  <2> QED BY <2>1, <2>2, <2>3 DEF DInv
<1>2. RunOK /\ DiskOK /\ KInv /\ DInv /\ [Next]_vars => (RunOK /\ DiskOK /\ KInv /\ DInv)'
  <2> SUFFICES ASSUME RunOK, DiskOK, KInv, DInv, [Next]_vars PROVE KInv' /\ DInv'
    BY TypesStep
  <2>1. ASSUME NEW r \in Runs, RunStep(r) \/ Fault(r) \/ Crash(r) PROVE KInv' /\ DInv'
    <3>1. KInv' /\ Onward(r)
      BY <2>1, RunSpares
    <3>2. Grows
      BY <2>1, RunGrows DEF DInv
    <3> QED BY <3>1, <3>2, OnwardDurable
  <2> QED BY <2>1, PowerLossSpares, SurroundingsSpare DEF Next, Finished
<1>3. KInv => NothingDestroyed
  BY DEF KInv, Kept, Promoted, Held, NothingDestroyed
<1> QED BY <1>1, <1>2, <1>3, PTL DEF Spec
=============================================================================
