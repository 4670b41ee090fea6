--------------------------- MODULE ReleaseRegister ---------------------------
(***************************************************************************)
(* What publishing a release promises, without lock, journal, directories  *)
(* or crashes: one register holds the published release, and a run         *)
(* replaces the release it opened, never one it has not seen.  A release    *)
(* that was reported to the user stays until a later run replaces it; one  *)
(* that was not may vanish again when the machine loses power.             *)
(***************************************************************************)
CONSTANTS Runs,      \* downloads, each publishing at most one release
          NoRun,     \* no release
          Unread     \* a run that has not opened the release folder

VARIABLES release,   \* the published release: the run that made it
          based,     \* based[r]: the release run r opened
          reported   \* the runs whose publication was reported as done

vars == <<release, based, reported>>

Init == /\ release = NoRun
        /\ based = [r \in Runs |-> Unread]
        /\ reported = {}

Open(r) == /\ based[r] = Unread
           /\ based' = [based EXCEPT ![r] = release]
           /\ UNCHANGED <<release, reported>>

Replace(r) == /\ based[r] = release
              /\ release' = r
              /\ UNCHANGED <<based, reported>>

Report(r) == /\ release = r
             /\ reported' = reported \cup {r}
             /\ UNCHANGED <<release, based>>

Lose(r) == /\ release = r
           /\ r \notin reported
           /\ release' = based[r]
           /\ UNCHANGED <<based, reported>>

Next == \E r \in Runs : Open(r) \/ Replace(r) \/ Report(r) \/ Lose(r)

Spec == Init /\ [][Next]_vars
=============================================================================
