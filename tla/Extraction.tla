----------------------------- MODULE Extraction -----------------------------
(***************************************************************************)
(* Unpacking a pinned release archive (Chrome, qpdf, a toolchain).  The    *)
(* archive is hashed, every member is examined before anything is written, *)
(* the tree is unpacked into a private staging directory and renamed to    *)
(* its destination; hash and identity are checked again before unpacking   *)
(* and before the rename.  Meanwhile the archive may be rewritten or       *)
(* replaced, the destination may appear, and the staging directory or its  *)
(* parent may be swapped by somebody else.  A rewritten archive stays so.  *)
(*                                                                         *)
(* A path is a sequence of names.  Two names with the same Folded value    *)
(* are one file on a case-insensitive volume.                              *)
(***************************************************************************)
EXTENDS Integers, Sequences, FiniteSets

CONSTANTS
  Archive,      \* the archives: [members, trailing]; a member is [path, kind, size, sound]
  Selecting,    \* the selections: sets of [from, to], {} for the whole archive
  AllowedRoots, \* allowlisted top-level names
  Folded,       \* a function on names
  MaxMembers, MaxFileBytes, MaxTotalBytes

VARIABLES
  pinnedArchive,  \* what the archive holds
  selections,     \* what is asked for
  archiveFile,    \* "pinned" or "rewritten", as read through the open file
  archivePath,    \* the path still leads to that file
  unpackAt,       \* where ExtractArchive is
  nextMember,     \* the member the walk is at
  nodes,          \* memberSet: [path, dir, link, explicit, size]
  stageDir,       \* "none", "ours", "swapped" or "removed"
  staged,         \* what the staging directory holds: [path, dir, true]
  parentDir,      \* "same" or "swapped"
  destinationDir, \* "free", "foreign" or "ours"
  unpackResult    \* "none", "done", "failed" or "killed"

unpackVars == <<pinnedArchive, selections, archiveFile, archivePath, unpackAt, nextMember, nodes,
                stageDir, staged, parentDir, destinationDir, unpackResult>>
disk == <<archiveFile, archivePath, parentDir>>
request == <<pinnedArchive, selections>>

-----------------------------------------------------------------------------
Members == pinnedArchive.members
Selective == selections # {}
Ancestors(path) == {SubSeq(path, 1, n) : n \in 1..Len(path)}
Folds(path) == [i \in DOMAIN path |-> Folded[path[i]]]
Clash(p, q) == p # q /\ Folds(p) = Folds(q)

\* validateSelections: inside an allowed root, no file twice, none a directory of another.
SelectionsHold ==
  /\ \A s \in selections : s.from[1] \in AllowedRoots /\ Len(s.from) > 1
  /\ \A s, t \in selections : s # t =>
       /\ s.from # t.from /\ s.to \notin Ancestors(t.to)
       /\ \A p \in Ancestors(s.to), q \in Ancestors(t.to) : ~Clash(p, q)

NodeAt(path) == {n \in nodes : n.path = path}
ExplicitNodes == {n \in nodes : n.explicit}
\* set.total: the bytes of all files, counted one by one.
Bytes == UNION {{n.path} \X (1..n.size) : n \in {n \in ExplicitNodes : ~n.dir /\ ~n.link}}
Total == Cardinality(Bytes)
WithinLimits(m) ==
  /\ Cardinality(ExplicitNodes) < MaxMembers
  /\ m.kind = "file" => m.size <= MaxFileBytes /\ Total + m.size <= MaxTotalBytes
InAllowedRoot(m) == m.path[1] \in AllowedRoots /\ (Len(m.path) = 1 => m.kind = "dir")
SameSpelling(m) == \A p \in Ancestors(m.path) : \A n \in nodes : ~Clash(p, n.path)
FitsTree(m) ==
  /\ SameSpelling(m)
  /\ \A p \in Ancestors(m.path) : \A n \in NodeAt(p) :
       n.dir = (p # m.path \/ m.kind = "dir") /\ (p = m.path => ~n.explicit)
Admissible(m) ==
  /\ m.sound /\ (m.kind = "link" => Selective)
  /\ InAllowedRoot(m) /\ WithinLimits(m) /\ FitsTree(m)
Implied(p) == [path |-> p, dir |-> TRUE, link |-> FALSE, explicit |-> FALSE, size |-> 0]
Explicit(m) == [path |-> m.path, dir |-> m.kind = "dir", link |-> m.kind = "link", explicit |-> TRUE, size |-> m.size]
Added(m) ==
  (nodes \ NodeAt(m.path)) \cup {Explicit(m)}
  \cup {Implied(p) : p \in {p \in Ancestors(m.path) \ {m.path} : NodeAt(p) = {}}}

\* prepareExtractionMembers: every selection is an explicit regular file.
AllSelectedFound == \A s \in selections : \E n \in nodes : n.path = s.from /\ n.explicit /\ ~n.dir /\ ~n.link
Outputs(m) == IF Selective THEN {s.to : s \in {s \in selections : s.from = m.path}} ELSE {m.path}
Unpacked(m, asPinned) ==
  UNION {{[path |-> p, dir |-> p # out \/ m.kind = "dir", true |-> asPinned \/ p # out] : p \in Ancestors(out)} : out \in Outputs(m)}

-----------------------------------------------------------------------------
HashMatches == archiveFile = "pinned"
IdentityHolds == archivePath
StillTheArchive == HashMatches /\ IdentityHolds
\* The directory that was made for the stage is what is at the path of the stage.
OursAtPath == stageDir = "ours" /\ parentDir = "same"
\* The check before the rename.
AnyStage == stageDir # "none"
StageIsOurs == OursAtPath

UnpackGoesTo(step) == unpackAt' = step /\ UNCHANGED <<request, disk>>
\* The deferred cleanup looks for the staging directory by its path, and removes
\* what it finds only if that is ours: under a parent that was swapped it finds
\* nothing of ours.
Removed == IF OursAtPath THEN stageDir' = "removed" /\ staged' = {} ELSE UNCHANGED <<stageDir, staged>>
FailUnpack ==
  /\ UnpackGoesTo("ended") /\ Removed /\ unpackResult' = "failed"
  /\ UNCHANGED <<nextMember, nodes, destinationDir>>
StepTo(step) == UnpackGoesTo(step) /\ UNCHANGED <<nextMember, nodes, stageDir, staged, destinationDir, unpackResult>>
IfSo(condition, step) == IF condition THEN StepTo(step) ELSE FailUnpack

Begin ==
  /\ unpackAt = "begin"
  /\ IfSo(SelectionsHold /\ destinationDir = "free" /\ archivePath /\ HashMatches, "preflight")
\* Any read or write of the archive, the staging directory or its parent may fail,
\* and the context is checked at every read.
FailsAnywhere == unpackAt \notin {"ended", "renamed"} /\ FailUnpack

\* What is read of a rewritten archive here goes no further than Recheck.
PreflightMember ==
  /\ unpackAt = "preflight" /\ nextMember <= Len(Members)
  /\ LET m == Members[nextMember] IN
     IF ~Admissible(m) THEN FailUnpack
     ELSE /\ nodes' = Added(m) /\ nextMember' = nextMember + 1
          /\ UnpackGoesTo("preflight") /\ UNCHANGED <<stageDir, staged, destinationDir, unpackResult>>
EndPreflight ==
  /\ unpackAt = "preflight" /\ nextMember > Len(Members)
  /\ IfSo(Members # <<>> /\ ~pinnedArchive.trailing /\ AllSelectedFound, "recheck")
Recheck == unpackAt = "recheck" /\ IfSo(StillTheArchive, "stage")

CreateStage ==
  /\ unpackAt = "stage" /\ stageDir' = "ours" /\ nextMember' = 1
  /\ UnpackGoesTo("unpack") /\ UNCHANGED <<nodes, staged, destinationDir, unpackResult>>
UnpackMember ==
  /\ unpackAt = "unpack" /\ nextMember <= Len(Members)
  /\ staged' = staged \cup Unpacked(Members[nextMember], HashMatches)
  /\ nextMember' = nextMember + 1
  /\ UnpackGoesTo("unpack") /\ UNCHANGED <<nodes, stageDir, destinationDir, unpackResult>>
SyncTree == unpackAt = "unpack" /\ nextMember > Len(Members) /\ StepTo("confirm")
Confirm == unpackAt = "confirm" /\ IfSo(StillTheArchive, "publish")
CheckPublish == unpackAt = "publish" /\ IfSo(destinationDir = "free" /\ StageIsOurs, "rename")
\* The rename fails if somebody's files have appeared at the destination.
RenameStage ==
  /\ unpackAt = "rename"
  /\ IF destinationDir # "free" THEN FailUnpack
     ELSE /\ destinationDir' = (IF OursAtPath THEN "ours" ELSE "foreign")
          /\ stageDir' = "none"
          /\ UnpackGoesTo("renamed") /\ UNCHANGED <<nextMember, nodes, staged, unpackResult>>
SyncParent ==
  /\ unpackAt = "renamed" /\ \E result \in {"done", "failed"} : unpackResult' = result
  /\ UnpackGoesTo("ended") /\ UNCHANGED <<nextMember, nodes, stageDir, staged, destinationDir>>

\* Others.
Undisturbed == UNCHANGED <<request, unpackAt, nextMember, nodes, staged, unpackResult>>
RewriteArchive ==
  /\ unpackAt # "ended" /\ archiveFile = "pinned" /\ archiveFile' = "rewritten"
  /\ Undisturbed /\ UNCHANGED <<archivePath, parentDir, stageDir, destinationDir>>
ReplaceArchive ==
  /\ unpackAt # "ended" /\ archivePath /\ archivePath' = FALSE
  /\ Undisturbed /\ UNCHANGED <<archiveFile, parentDir, stageDir, destinationDir>>
Occupy ==
  /\ unpackAt # "ended" /\ destinationDir = "free" /\ destinationDir' = "foreign"
  /\ Undisturbed /\ UNCHANGED <<disk, stageDir>>
SwapStage ==
  /\ unpackAt \in {"unpack", "confirm", "publish"} /\ stageDir = "ours" /\ stageDir' = "swapped"
  /\ Undisturbed /\ UNCHANGED <<disk, destinationDir>>
SwapParent ==
  /\ unpackAt \in {"unpack", "confirm", "publish"} /\ parentDir = "same" /\ parentDir' = "swapped"
  /\ Undisturbed /\ UNCHANGED <<archiveFile, archivePath, stageDir, destinationDir>>
Kill ==
  /\ unpackAt # "ended" /\ UnpackGoesTo("ended") /\ unpackResult' = "killed"
  /\ UNCHANGED <<nextMember, nodes, stageDir, staged, destinationDir>>

-----------------------------------------------------------------------------
Init ==
  /\ pinnedArchive \in Archive /\ selections \in Selecting
  /\ archiveFile \in {"pinned", "rewritten"} /\ archivePath = TRUE /\ parentDir = "same"
  /\ destinationDir \in {"free", "foreign"} /\ stageDir = "none" /\ staged = {} /\ nodes = {}
  /\ unpackAt = "begin" /\ nextMember = 1 /\ unpackResult = "none"

Unpacking ==
  \/ Begin \/ PreflightMember \/ EndPreflight \/ Recheck \/ CreateStage \/ UnpackMember
  \/ SyncTree \/ Confirm \/ CheckPublish \/ RenameStage \/ SyncParent
Others == RewriteArchive \/ ReplaceArchive \/ Occupy \/ SwapStage \/ SwapParent \/ Kill
Next == Unpacking \/ FailsAnywhere \/ Others

TypeOK ==
  /\ unpackAt \in {"begin", "preflight", "recheck", "stage", "unpack", "confirm", "publish", "rename", "renamed", "ended"}
  /\ archiveFile \in {"pinned", "rewritten"} /\ archivePath \in BOOLEAN /\ parentDir \in {"same", "swapped"}
  /\ nextMember \in 1..(Len(Members) + 1) /\ stageDir \in {"none", "ours", "swapped", "removed"}
  /\ destinationDir \in {"free", "foreign", "ours"} /\ unpackResult \in {"none", "done", "failed", "killed"}
  /\ \A n \in nodes : n.explicit \/ n.dir

(* What is found at the destination is the pinned archive: every selected  *)
(* file or every member, with the directories that hold them, each byte    *)
(* read before the archive was rewritten, within the limits, inside the    *)
(* allowed roots and with no two names one file on a case-insensitive      *)
(* volume.  Success means that this tree is there, and an extraction that  *)
(* ended leaves its staging directory behind only after a kill, or under a *)
(* parent that was swapped.                                                *)
Chosen == UNION {Outputs(Members[k]) : k \in DOMAIN Members}
TreeIsThePinnedArchive ==
  /\ destinationDir = "ours" =>
       /\ {f.path : f \in staged} = UNION {Ancestors(out) : out \in Chosen}
       /\ \A f \in staged : f.true
       /\ \A f, g \in staged : (f.path = g.path => f = g) /\ ~Clash(f.path, g.path)
       /\ \A f \in staged : ~f.dir => ~\E g \in staged : g # f /\ f.path \in Ancestors(g.path)
       /\ Selective => \A s \in selections : \E f \in staged : f.path = s.to /\ ~f.dir
       /\ Len(Members) <= MaxMembers /\ Total <= MaxTotalBytes
  /\ unpackResult = "done" => destinationDir = "ours"
  /\ unpackAt = "ended" /\ unpackResult # "killed" /\ parentDir = "same" => stageDir # "ours"

=============================================================================
