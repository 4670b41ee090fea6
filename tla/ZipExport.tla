------------------------------ MODULE ZipExport ------------------------------
(***************************************************************************)
(* The export of a published release as a ZIP beside it                    *)
(* (internal/library/zip.go), while others may change the release's files, *)
(* remove the lock or interrupt the run.                                   *)
(*                                                                         *)
(* The release is inspected three times: listed, verified against its      *)
(* manifest and hashed, then copied into a part that is read back and      *)
(* renamed over the ZIP.  Each inspection of one file is a step.           *)
(***************************************************************************)
EXTENDS FiniteSets, Naturals

CONSTANTS Files,    \* the files of the release
          Hidden,   \* those with a hidden component
          Changes   \* how many changes others make

VARIABLES
  zipAt,      \* where the export is
  present,    \* present[f]: the node at the file's name, its content and size
  changes,    \* changes made so far
  listed,     \* the nodes found by the walk
  hashed,     \* what hashZIPSource read of each file
  part,       \* members of the temporary ZIP, None if there is none
  target,     \* members of the ZIP beside the release
  zipLocked,  \* the run's lock is still its own
  zipEnded,   \* the run's context has ended
  zipResult   \* "none", "exported", or why not

zipVars == <<zipAt, present, changes, listed, hashed, part, target, zipLocked, zipEnded, zipResult>>

Nodes == [node : {"first", "second"}, content : {"published", "edited"}, size : {"full", "cut"}]
Whole == [node |-> "first", content |-> "published", size |-> "full"]
NoMembers == [f \in {} |-> Whole]
Zip(kind, members) == [kind |-> kind, members |-> members]
None == Zip("none", NoMembers)
Prior == Zip("earlier", NoMembers)

Visible == DOMAIN listed \ Hidden

With(members, f) == [g \in DOMAIN members \cup {f} |-> IF g = f THEN present[f] ELSE members[g]]

\* hashZIPSource and copyZIPSource refuse a file that is no longer the listed
\* node or has another size.
Same(f) == present[f].node = listed[f].node /\ present[f].size = listed[f].size

Stop(why) == zipAt' = "cleanup" /\ zipResult' = why
Step(next) == zipAt' = next /\ UNCHANGED zipResult
Kept == UNCHANGED <<present, changes, zipLocked, zipEnded>>

\* collectZIPEntries: the walk refuses a tree it cannot read.
Collect ==
  /\ zipAt = "collect"
  /\ IF zipEnded THEN Stop("cancelled") /\ UNCHANGED listed
     ELSE Step("verify") /\ listed' = present
  /\ UNCHANGED <<hashed, part, target>> /\ Kept

\* verifyPublishedZIPSource, or the manifest in memory for a folder of PDFs.
Verify ==
  /\ zipAt = "verify"
  /\ IF \A f \in Files : present[f].content = "published" /\ present[f].size = "full"
     THEN Step("hash") ELSE Stop("invalid")
  /\ UNCHANGED <<listed, hashed, part, target>> /\ Kept

Hash ==
  /\ zipAt = "hash"
  /\ \/ \E f \in Visible \ DOMAIN hashed :
          /\ UNCHANGED part
          /\ \/ zipEnded /\ Stop("cancelled") /\ UNCHANGED hashed
             \/ ~zipEnded /\ ~Same(f) /\ Stop("changed") /\ UNCHANGED hashed
             \/ ~zipEnded /\ Same(f) /\ hashed' = With(hashed, f) /\ UNCHANGED <<zipAt, zipResult>>
     \/ DOMAIN hashed = Visible /\ Step("copy") /\ part' = Zip("part", NoMembers) /\ UNCHANGED hashed
  /\ UNCHANGED <<listed, target>> /\ Kept

\* A member is copied and hashed at once; the hash must be the one taken before.
AnyHash(f) == TRUE
HashHeld(f) == present[f].content = hashed[f].content
Copy ==
  /\ zipAt = "copy"
  /\ \/ \E f \in Visible \ DOMAIN part.members :
          \/ zipEnded /\ Stop("cancelled") /\ UNCHANGED part
          \/ ~zipEnded /\ ~(Same(f) /\ HashHeld(f)) /\ Stop("changed") /\ UNCHANGED part
          \/ /\ ~zipEnded /\ Same(f) /\ HashHeld(f)
             /\ part' = Zip("part", With(part.members, f)) /\ UNCHANGED <<zipAt, zipResult>>
     \/ DOMAIN part.members = Visible /\ Step("validate") /\ UNCHANGED part
  /\ UNCHANGED <<listed, hashed, target>> /\ Kept

\* writer.Close, Sync, and validateTemporaryZIP, which reads the part back: a
\* write may have failed, or the part may be damaged.
Validate ==
  /\ zipAt = "validate"
  /\ \/ zipEnded /\ Stop("cancelled")
     \/ ~zipEnded /\ (Step("owner") \/ Stop("invalid"))
  /\ UNCHANGED <<listed, hashed, part, target>> /\ Kept

\* beforeReplace checks that the run still owns the library.
Owner ==
  /\ zipAt = "owner"
  /\ IF zipLocked THEN Step("replace") ELSE Stop("lost")
  /\ UNCHANGED <<listed, hashed, part, target>> /\ Kept

Replace ==
  /\ zipAt = "replace"
  /\ \/ target' = Zip("export", part.members) /\ part' = None /\ zipAt' = "done" /\ zipResult' = "exported"
     \/ Stop("invalid") /\ UNCHANGED <<target, part>>
  /\ UNCHANGED <<listed, hashed>> /\ Kept

\* The deferred removal of a part that was not renamed.
DroppedPart == part' = None
Cleanup ==
  /\ zipAt = "cleanup"
  /\ DroppedPart /\ zipAt' = "done"
  /\ UNCHANGED <<listed, hashed, target, zipResult>> /\ Kept

-----------------------------------------------------------------------------
\* Others edit a file in place, replace it, or cut it short.
Change(f) ==
  /\ changes < Changes /\ zipAt # "done"
  /\ \E n \in Nodes : n # present[f] /\ present' = [present EXCEPT ![f] = n]
  /\ changes' = changes + 1
  /\ UNCHANGED <<zipAt, listed, hashed, part, target, zipLocked, zipEnded, zipResult>>

RemoveZipLock == /\ zipAt # "done" /\ zipLocked /\ zipLocked' = FALSE
                 /\ UNCHANGED <<zipAt, present, changes, listed, hashed, part, target, zipEnded, zipResult>>
EndZip == /\ zipAt # "done" /\ ~zipEnded /\ zipEnded' = TRUE
          /\ UNCHANGED <<zipAt, present, changes, listed, hashed, part, target, zipLocked, zipResult>>

ExportStep == Collect \/ Verify \/ Hash \/ Copy \/ Validate \/ Owner \/ Replace \/ Cleanup

Init ==
  /\ zipAt = "collect" /\ present = [f \in Files |-> Whole] /\ changes = 0
  /\ listed = NoMembers /\ hashed = NoMembers /\ part = None /\ target \in {None, Prior}
  /\ zipLocked = TRUE /\ zipEnded = FALSE /\ zipResult = "none"

Next == ExportStep \/ (\E f \in Files : Change(f)) \/ RemoveZipLock \/ EndZip

-----------------------------------------------------------------------------
TypeOK ==
  /\ zipAt \in {"collect", "verify", "hash", "copy", "validate", "owner", "replace", "cleanup", "done"}
  /\ present \in [Files -> Nodes]
  /\ DOMAIN listed \subseteq Files /\ DOMAIN hashed \subseteq Files
  /\ zipResult \in {"none", "exported", "cancelled", "invalid", "changed", "lost"}

\* The ZIP beside the release is the one that was there or a whole new one: every
\* visible file of the listing, each with the content it had when it was hashed;
\* an export that fails leaves the earlier ZIP, and no part.
ZipWhole ==
  /\ target \in {None, Prior} \/
       /\ DOMAIN target.members = Files \ Hidden
       /\ \A f \in DOMAIN target.members :
            target.members[f] = [listed[f] EXCEPT !.content = hashed[f].content]
  /\ zipAt = "done" => /\ part = None
                       /\ zipResult = "exported" <=> target \notin {None, Prior}

=============================================================================
