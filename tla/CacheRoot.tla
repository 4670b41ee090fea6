------------------------------ MODULE CacheRoot ------------------------------
(***************************************************************************)
(* Admission of the raw cache's root directory (internal/cache/root.go).   *)
(*                                                                         *)
(* A process prepares the directory twice and admits it once more before   *)
(* the Store opens (cli.go, OpenContext).  The first process to find the   *)
(* directory empty writes the marker to a temporary part and renames it;   *)
(* processes that find only parts wait for the marker.                     *)
(*                                                                         *)
(* Each file system call that another process can observe is a step.  A    *)
(* process holds the directory by a descriptor, which goes stale when      *)
(* another one removes the directory.                                      *)
(***************************************************************************)
EXTENDS Naturals

CONSTANTS Openers,     \* processes that open one cache path
          Faults,      \* what may happen to them: subset of {"cancel", "io", "kill"}
          Foundations  \* what the path may hold before: subset of {"absent", "private", "open", "foreign", "native"}

VARIABLES
  root,      \* the directory at the path
  origin,    \* what the path held before
  opener,    \* opener[p]: where a process is and what it remembers
  hit        \* faults that have happened

rootVars == <<root, origin, opener, hit>>

Absent == [present |-> FALSE, mode |-> "private", marker |-> FALSE, foreign |-> FALSE, parts |-> {}]
Directory(mode, marker, foreign) ==
  [present |-> TRUE, mode |-> mode, marker |-> marker, foreign |-> foreign, parts |-> {}]

Foundation(kind) ==
  CASE kind = "absent" -> Absent
    [] kind = "private" -> Directory("private", FALSE, FALSE)
    [] kind = "open" -> Directory("open", FALSE, FALSE)
    [] kind = "foreign" -> Directory("open", FALSE, TRUE)
    [] kind = "native" -> Directory("private", TRUE, FALSE)

\* The admissions of a process: Prepare, Prepare in openRoot, admitRoot there.
Admissions == 3

NewOpener == [at |-> "look", admission |-> 1, created |-> FALSE, fd |-> "none",
              previous |-> "private", cancelled |-> FALSE, failure |-> "none"]

At(p) == opener[p].at
Go(p, step) == opener' = [opener EXCEPT ![p].at = step]
Live(p) == opener[p].fd = "live"

-----------------------------------------------------------------------------
(* Prepare.                                                                *)

\* A failure before the descriptor is used ends the process.
Fails(p, why) == opener' = [opener EXCEPT ![p].at = "failed", ![p].failure = why]

Look(p) ==
  /\ At(p) = "look"
  /\ IF opener[p].cancelled THEN Fails(p, "cancelled")
     ELSE Go(p, IF root.present THEN "open" ELSE "make")
  /\ UNCHANGED <<root, origin, hit>>

\* MkdirAll is content with a directory that another process made meanwhile.
Make(p) ==
  /\ At(p) = "make"
  /\ root' = IF root.present THEN root ELSE Directory("private", FALSE, FALSE)
  /\ opener' = [opener EXCEPT ![p].at = "open", ![p].created = TRUE]
  /\ UNCHANGED <<origin, hit>>

Open(p) ==
  /\ At(p) = "open"
  /\ IF root.present THEN opener' = [opener EXCEPT ![p].at = "admit", ![p].fd = "live"]
                     ELSE Fails(p, "lost")
  /\ UNCHANGED <<root, origin, hit>>

\* Through a stale descriptor the directory is empty and takes no entries.
Seen(p) == IF Live(p) THEN root ELSE Directory("private", FALSE, FALSE)

-----------------------------------------------------------------------------
(* admitRoot and initializeRootMarker.                                     *)

\* The way out of an admission that failed: the part goes, the mode comes back,
\* and Prepare removes a directory it created.
Undo(p, why, step) == opener' = [opener EXCEPT ![p].at = step, ![p].failure = why]

\* The admission succeeded.
Admitted(p) ==
  LET o == opener[p] IN
  IF o.admission = Admissions
  THEN opener' = [opener EXCEPT ![p].at = "in"]
  ELSE opener' = [opener EXCEPT ![p] =
         [NewOpener EXCEPT !.admission = o.admission + 1, !.cancelled = o.cancelled,
            !.at = IF o.admission + 1 = Admissions THEN "open" ELSE "look"]]

Admit(p) ==
  /\ At(p) = "admit"
  /\ CASE opener[p].cancelled -> Undo(p, "cancelled", "remove")
       [] ~opener[p].cancelled /\ Seen(p).marker /\ Seen(p).mode = "private" -> Admitted(p)
       [] ~opener[p].cancelled /\ Seen(p).marker /\ Seen(p).mode # "private" -> Undo(p, "refused", "remove")
       [] OTHER -> Go(p, "list")
  /\ UNCHANGED <<root, origin, hit>>

OnlyParts(p) == Seen(p).parts # {} /\ ~Seen(p).marker /\ ~Seen(p).foreign
Empty(p) == Seen(p).parts = {} /\ ~Seen(p).marker /\ ~Seen(p).foreign

\* A directory that holds only parts belongs to a process that is writing.
List(p) ==
  /\ At(p) = "list"
  /\ Go(p, CASE Empty(p) -> "stat" [] OnlyParts(p) -> "admit" [] OTHER -> "relook")
  /\ UNCHANGED <<root, origin, hit>>

RefusesAtOnce(p) == Undo(p, "refused", "remove")
LooksOnceMore(p) == IF Seen(p).marker THEN Go(p, "admit") ELSE Undo(p, "refused", "remove")
Relook(p) == /\ At(p) = "relook" /\ LooksOnceMore(p) /\ UNCHANGED <<root, origin, hit>>

Stat(p) ==
  /\ At(p) = "stat"
  /\ opener' = [opener EXCEPT ![p].at = "chmod", ![p].previous = Seen(p).mode]
  /\ UNCHANGED <<root, origin, hit>>

SetMode(p, mode) == root' = IF Live(p) THEN [root EXCEPT !.mode = mode] ELSE root

Chmod(p) ==
  /\ At(p) = "chmod"
  /\ SetMode(p, "private")
  /\ Go(p, "create")
  /\ UNCHANGED <<origin, hit>>

Create(p) ==
  /\ At(p) = "create"
  /\ CASE opener[p].cancelled -> Undo(p, "cancelled", "restore") /\ UNCHANGED root
       [] ~opener[p].cancelled /\ Live(p) -> root' = [root EXCEPT !.parts = @ \cup {p}] /\ Go(p, "write")
       [] OTHER -> Undo(p, "lost", "restore") /\ UNCHANGED root
  /\ UNCHANGED <<origin, hit>>

\* The marker is written and synced.
Write(p) ==
  /\ At(p) = "write"
  /\ IF opener[p].cancelled THEN Undo(p, "cancelled", "unlink") ELSE Go(p, "rename")
  /\ UNCHANGED <<root, origin, hit>>

Installs(p) == /\ root' = [root EXCEPT !.marker = TRUE, !.parts = @ \ {p}]
               /\ Go(p, "sync")
Rename(p) ==
  /\ At(p) = "rename"
  /\ IF opener[p].cancelled THEN Undo(p, "cancelled", "unlink") /\ UNCHANGED root ELSE Installs(p)
  /\ UNCHANGED <<origin, hit>>

Sync(p) == At(p) = "sync" /\ Admitted(p) /\ UNCHANGED <<root, origin, hit>>

\* Writing, renaming or syncing may fail.
FailIO(p) ==
  /\ "io" \in Faults /\ At(p) \in {"write", "rename", "sync"}
  /\ Undo(p, "io", IF At(p) = "sync" THEN "restore" ELSE "unlink")
  /\ hit' = hit \cup {"io"}
  /\ UNCHANGED <<root, origin>>

DropsPart(p) == root' = [root EXCEPT !.parts = @ \ {p}]
Unlink(p) == /\ At(p) = "unlink" /\ DropsPart(p) /\ Go(p, "restore") /\ UNCHANGED <<origin, hit>>

Restore(p) ==
  /\ At(p) = "restore"
  /\ IF opener[p].previous # "private" THEN SetMode(p, opener[p].previous) ELSE UNCHANGED root
  /\ Go(p, "remove")
  /\ UNCHANGED <<origin, hit>>

\* os.Remove takes an empty directory only; whoever held it holds nothing now.
Removable == root.present /\ root.parts = {} /\ ~root.marker /\ ~root.foreign
Leaves(p, o) == [o EXCEPT ![p].at = "failed"]
Remove(p) ==
  /\ At(p) = "remove"
  /\ IF opener[p].created /\ Removable
     THEN /\ root' = Absent
          /\ opener' = Leaves(p, [q \in Openers |->
               IF opener[q].fd = "live" THEN [opener[q] EXCEPT !.fd = "stale"] ELSE opener[q]])
     ELSE opener' = Leaves(p, opener) /\ UNCHANGED root
  /\ UNCHANGED <<origin, hit>>

-----------------------------------------------------------------------------
Ended(p) == At(p) \in {"in", "failed", "dead"}

Cancel(p) == /\ "cancel" \in Faults /\ ~Ended(p) /\ ~opener[p].cancelled
             /\ opener' = [opener EXCEPT ![p].cancelled = TRUE]
             /\ hit' = hit \cup {"cancel"}
             /\ UNCHANGED <<root, origin>>

\* A killed process leaves its part.
Kill(p) == /\ "kill" \in Faults /\ ~Ended(p)
           /\ Go(p, "dead") /\ hit' = hit \cup {"kill"}
           /\ UNCHANGED <<root, origin>>

OpenerStep(p) ==
  \/ Look(p) \/ Make(p) \/ Open(p) \/ Admit(p) \/ List(p) \/ Relook(p) \/ Stat(p) \/ Chmod(p)
  \/ Create(p) \/ Write(p) \/ Rename(p) \/ Sync(p) \/ Unlink(p) \/ Restore(p) \/ Remove(p)

Init ==
  /\ origin \in Foundations /\ root = Foundation(origin)
  /\ opener = [p \in Openers |-> NewOpener]
  /\ hit = {}

Next == \E p \in Openers : OpenerStep(p) \/ FailIO(p) \/ Cancel(p) \/ Kill(p)

Spec == Init /\ [][Next]_rootVars

-----------------------------------------------------------------------------
(* Properties.                                                             *)

Steps == {"look", "make", "open", "admit", "list", "relook", "stat", "chmod", "create", "write",
          "rename", "sync", "unlink", "restore", "remove", "in", "failed", "dead"}
TypeOK ==
  /\ root \in [present : BOOLEAN, mode : {"private", "open"}, marker : BOOLEAN, foreign : BOOLEAN,
               parts : SUBSET Openers]
  /\ origin \in Foundations
  /\ opener \in [Openers -> [at : Steps, admission : 1 .. Admissions, created : BOOLEAN,
                             fd : {"none", "live", "stale"}, previous : {"private", "open"},
                             cancelled : BOOLEAN, failure : {"none", "cancelled", "refused", "io", "lost"}]]
  /\ hit \subseteq Faults

\* A process that is in works in the directory at the path, under its marker and,
\* unless the directory was found open to others, privately: no process that gives
\* up takes the cache from one that goes on.
InHoldsTheRoot ==
  \A p \in Openers : At(p) = "in" =>
    /\ Live(p) /\ root.marker /\ ~root.foreign
    /\ origin # "open" => root.mode = "private"

\* "Existing state is preserved": a directory of something else is never admitted,
\* nor is anything in it changed.
ForeignPreserved == origin = "foreign" => root = Foundation("foreign")

\* Whichever order the processes open a new cache in, nobody is refused and
\* nobody loses it, as long as nobody is cut short (TestConcurrentEmptyRootInitialization).
TogetherAllEnter ==
  origin # "foreign" /\ hit = {} => \A p \in Openers : At(p) # "failed"

AdmissionSafe == InHoldsTheRoot /\ ForeignPreserved /\ TogetherAllEnter

\* Where the openings come to rest: as long as nobody is killed every process
\* leaves the admission, and nobody waits for a marker that nobody writes.
AdmissionEnded == "kill" \in hit \/ \A p \in Openers : Ended(p)

=============================================================================
