------------------------------ MODULE Sidecars ------------------------------
(***************************************************************************)
(* The pinned Chrome and qpdf: a process is started only after every file  *)
(* of the tool has been found to hold its pinned bytes.  Hashing hundreds  *)
(* of megabytes before every start would be slow, so a file is hashed once *)
(* and afterwards recognised by a snapshot of its metadata, while a sync   *)
(* client touches the files and the user may replace or edit them at any   *)
(* moment, also while one is being read.  On macOS the same memory decides *)
(* which files are released from the download quarantine.                  *)
(*                                                                         *)
(* A snapshot is reduced to the inode and the two times; a file's times    *)
(* are read from the clock of the changes, pinClock.                       *)
(***************************************************************************)
EXTENDS Naturals, Sequences, FiniteSets

CONSTANTS
  PinnedFiles,  \* the files of one tool, in the order they are verified
  MaxPinChanges,\* bound: changes made to them from outside
  MaxChecks     \* bound: verifications in one run

MaxReads == 3   \* maxPinnedFileReads

Pinned == {PinnedFiles[i] : i \in DOMAIN PinnedFiles}

VARIABLES
  files,      \* what is at each path
  strayAt,    \* when an unpinned file appeared beside them, 0 if there is none
  pinClock,   \* the clock of the changes
  memo,       \* verifiedSidecarContent
  overridden, \* the tool was named by a flag or the environment
  listFirst,  \* Chrome's directory is listed before its files are hashed, qpdf's after
  check,      \* the verification that is running
  checksLeft,
  launched    \* the last verification ended with the process started

sidecarVars == <<files, strayAt, pinClock, memo, overridden, listFirst, check, checksLeft, launched>>

Snapshot(file) == [inode |-> file.inode, mtime |-> file.mtime, ctime |-> file.ctime]
Forgotten == [inode |-> 0, mtime |-> 0, ctime |-> 0]
NoCheck == [at |-> "idle", goal |-> "none", began |-> 0, next |-> 1, info |-> Forgotten,
            good |-> FALSE, reads |-> 0]
Times == 0..MaxPinChanges
Snapshots == [inode : Times, mtime : Times, ctime : Times]

TypeOK ==
  /\ files \in [Pinned -> [inode : Times, mtime : Times, ctime : Times, pinned : BOOLEAN, held : BOOLEAN]]
  /\ strayAt \in Times /\ pinClock \in Times
  /\ memo \in [Pinned -> Snapshots] /\ overridden \in BOOLEAN /\ listFirst \in BOOLEAN
  /\ check \in [at : {"idle", "list", "look", "open", "reading", "listLast", "look2", "removing", "refused"},
                goal : {"none", "clear", "launch"}, began : Times, next : 1..(Len(PinnedFiles) + 1),
                info : Snapshots, good : BOOLEAN, reads : 0..MaxReads]
  /\ checksLeft \in 0..MaxChecks /\ launched \in BOOLEAN

Init ==
  /\ \E downloaded \in BOOLEAN :
       files = [f \in Pinned |-> [inode |-> 1, mtime |-> 1, ctime |-> 1, pinned |-> TRUE, held |-> downloaded]]
  /\ strayAt = 0 /\ pinClock = 1
  /\ memo = [f \in Pinned |-> Forgotten]
  /\ overridden \in BOOLEAN /\ listFirst \in BOOLEAN
  /\ check = NoCheck /\ checksLeft = MaxChecks /\ launched = FALSE

-----------------------------------------------------------------------------
(* What happens to the files outside the program.  Writing a file moves    *)
(* both its times, and its mtime can be set back; ctime cannot.            *)

Changed(f, file) ==
  /\ pinClock < MaxPinChanges /\ pinClock' = pinClock + 1
  /\ files' = [files EXCEPT ![f] = file]
  /\ UNCHANGED <<strayAt, memo, overridden, listFirst, check, checksLeft, launched>>

Edited(f) ==
  \E setBack \in BOOLEAN :
    Changed(f, [files[f] EXCEPT !.pinned = ~files[f].pinned, !.ctime = pinClock + 1,
                                !.mtime = IF setBack THEN files[f].mtime ELSE pinClock + 1])
Replaced(f) ==
  \E setBack \in BOOLEAN :
    Changed(f, [inode |-> pinClock + 1, ctime |-> pinClock + 1, pinned |-> ~files[f].pinned, held |-> TRUE,
                mtime |-> IF setBack THEN files[f].mtime ELSE pinClock + 1])
\* A sync client writes an extended attribute.
Synced(f) == Changed(f, [files[f] EXCEPT !.ctime = pinClock + 1])

Strayed ==
  /\ pinClock < MaxPinChanges /\ pinClock' = pinClock + 1
  /\ strayAt' = IF strayAt = 0 THEN pinClock + 1 ELSE 0
  /\ UNCHANGED <<files, memo, overridden, listFirst, check, checksLeft, launched>>

Outside == Strayed \/ \E f \in Pinned : Edited(f) \/ Replaced(f) \/ Synced(f)

-----------------------------------------------------------------------------
(* The verification, one system call at a time.                            *)

Current == PinnedFiles[check.next]
Checking == UNCHANGED <<files, strayAt, pinClock, overridden, listFirst, checksLeft, launched>>
Step(changes) == check' = changes
Refuse == check' = [NoCheck EXCEPT !.at = "refused", !.goal = check.goal]

\* The tool is verified before it is cleared, and again before every start.
Begin(goal) ==
  /\ check.at \in {"idle", "refused"} /\ checksLeft > 0 /\ checksLeft' = checksLeft - 1
  /\ check' = [NoCheck EXCEPT !.at = IF listFirst THEN "list" ELSE "look", !.goal = goal, !.began = pinClock]
  /\ launched' = FALSE
  /\ UNCHANGED <<files, strayAt, pinClock, memo, overridden, listFirst>>

List ==
  /\ check.at = "list"
  /\ IF strayAt # 0 THEN Refuse ELSE Step([check EXCEPT !.at = "look"])
  /\ UNCHANGED memo /\ Checking

\* The next file, or the end: a file last seen as it was verified is not read.
NextFile(from) ==
  IF from <= Len(PinnedFiles) THEN Step([check EXCEPT !.at = "look", !.next = from, !.info = Forgotten,
                                                       !.good = FALSE, !.reads = 0])
  ELSE Step([check EXCEPT !.at = "listLast", !.next = from, !.info = Forgotten, !.good = FALSE, !.reads = 0])

SameModification(f) == memo[f].inode = files[f].inode /\ memo[f].mtime = files[f].mtime
PinnedContentCurrent(f) == memo[f] = Snapshot(files[f])
Look ==
  /\ check.at = "look"
  /\ IF PinnedContentCurrent(Current)
     THEN NextFile(check.next + 1) /\ UNCHANGED memo
     ELSE /\ Step([check EXCEPT !.at = "open", !.info = Snapshot(files[Current])])
          /\ memo' = [memo EXCEPT ![Current] = Forgotten]
  /\ Checking

\* Opened by path, it must be the inode that was looked at.
OpenFile ==
  /\ check.at = "open"
  /\ IF files[Current].inode # check.info.inode THEN Refuse
     ELSE Step([check EXCEPT !.at = "reading", !.good = files[Current].pinned, !.reads = check.reads + 1])
  /\ UNCHANGED memo /\ Checking

\* The digest counts only when the file is as it was before the read; one
\* whose ctime alone moved is read again.
OnlyChangeTimeDiffers(info, now) == info.inode = now.inode /\ info.mtime = now.mtime
FinishRead ==
  /\ check.at = "reading"
  /\ LET now == Snapshot(files[Current]) IN
     \/ /\ check.info = now /\ check.good
        /\ memo' = [memo EXCEPT ![Current] = check.info]
        /\ NextFile(check.next + 1)
     \/ /\ check.info = now /\ ~check.good
        /\ Refuse /\ UNCHANGED memo
     \/ /\ check.info # now
        /\ IF check.reads < MaxReads /\ OnlyChangeTimeDiffers(check.info, now)
           THEN Step([check EXCEPT !.at = "open", !.info = now]) ELSE Refuse
        /\ UNCHANGED memo
  /\ Checking

\* Every file is pinned: qpdf's directories are listed, and the tool is
\* started or its quarantine looked at.
ListLast ==
  /\ check.at = "listLast"
  /\ \/ ~listFirst /\ strayAt # 0 /\ Refuse /\ UNCHANGED launched
     \/ /\ listFirst \/ strayAt = 0
        /\ IF check.goal = "launch" THEN Step([NoCheck EXCEPT !.began = check.began]) /\ launched' = TRUE
           ELSE Step([check EXCEPT !.at = "look2", !.next = 1]) /\ UNCHANGED launched
  /\ UNCHANGED <<files, strayAt, pinClock, memo, overridden, listFirst, checksLeft>>

NextHeld(from) ==
  IF from <= Len(PinnedFiles) THEN Step([check EXCEPT !.at = "look2", !.next = from, !.info = Forgotten])
  ELSE Step(NoCheck)

\* clearPinnedQuarantine: the opened file must still be the verified one; it
\* keeps its quarantine when the tool was named by the user.
LookHeld ==
  /\ check.at = "look2"
  /\ LET f == Current IN
     IF PinnedContentCurrent(f) /\ files[f].held /\ ~overridden
     THEN Step([check EXCEPT !.at = "removing", !.info = Snapshot(files[f])])
     ELSE NextHeld(check.next + 1)
  /\ UNCHANGED memo /\ Checking

\* The attribute is removed from the file that was opened, which may have
\* been replaced at its path meanwhile; removing it moves ctime.
Remove ==
  /\ check.at = "removing"
  /\ LET f == Current IN
     IF files[f].inode = check.info.inode /\ pinClock < MaxPinChanges
     THEN /\ files' = [files EXCEPT ![f].held = FALSE, ![f].ctime = pinClock + 1]
          /\ pinClock' = pinClock + 1
     ELSE UNCHANGED <<files, pinClock>>
  /\ NextHeld(check.next + 1)
  /\ UNCHANGED <<strayAt, memo, overridden, listFirst, checksLeft, launched>>

Verifying == List \/ Look \/ OpenFile \/ FinishRead \/ ListLast \/ LookHeld \/ Remove
Next == Outside \/ Verifying \/ \E goal \in {"clear", "launch"} : Begin(goal)

Spec == Init /\ [][Next]_sidecarVars

-----------------------------------------------------------------------------
(* The memory can be trusted: a file that still has the snapshot under     *)
(* which it was remembered holds the pinned bytes, whenever it was edited, *)
(* replaced or touched.  So a tool is started only when every file that    *)
(* was not changed since the verification began is pinned and no unpinned  *)
(* file stood beside them, and the quarantine is about to be removed only  *)
(* from a pinned file of a tool the user did not name.                     *)
OnlyPinnedIsTrusted ==
  /\ \A f \in Pinned : memo[f] = Snapshot(files[f]) => files[f].pinned
  /\ launched => /\ \A f \in Pinned : files[f].ctime <= check.began => files[f].pinned
                 /\ ~(strayAt > 0 /\ strayAt <= check.began)
  /\ check.at = "removing" =>
       ~overridden /\ (Snapshot(files[Current]) = check.info => files[Current].pinned)

=============================================================================
