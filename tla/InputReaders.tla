---------------------------- MODULE InputReaders ----------------------------
(***************************************************************************)
(* planner.readAll (internal/source/planning.go): a guide's source inputs  *)
(* are read by a pool of goroutines that an unbuffered channel feeds.  The *)
(* first failure cancels the reads still running; what was read is         *)
(* recorded in the order of the jobs.                                      *)
(***************************************************************************)
EXTENDS Naturals, SequencesExt, Ordered

CONSTANTS Readers,   \* goroutines of the pool
          Inputs     \* how many inputs are read

Jobs == 1 .. Inputs

VARIABLES
  optional,    \* the jobs whose absence the plan can do without
  fed,         \* jobs handed over
  feeding,     \* the loop over the jobs goes on
  reading,     \* reading[r]: the job of a goroutine, 0 if it asks for one, Gone
  jobResult,   \* jobResult[j]: "none", "read", "absent", "missing", "failed" or "cancelled"
  poolEnded,   \* the context of the pool is cancelled
  planEnded,   \* the planner's context is cancelled
  readOutcome, \* "none", "read", "failed" or "cancelled"
  recorded     \* the inputs recorded in the plan, in order

readVars == <<optional, fed, feeding, reading, jobResult, poolEnded, planEnded, readOutcome, recorded>>

Gone == Inputs + 1
Ended == poolEnded \/ planEnded

\* The channel has no buffer: a goroutine that asks takes the job at once.
Feed(r) ==
  /\ feeding /\ fed < Inputs /\ reading[r] = 0
  /\ fed' = fed + 1 /\ reading' = [reading EXCEPT ![r] = fed + 1]
  /\ UNCHANGED <<optional, feeding, jobResult, poolEnded, planEnded, readOutcome, recorded>>

\* The loop ends when all jobs are handed over or the pool is cancelled.
StopFeeding ==
  /\ feeding /\ (fed = Inputs \/ Ended)
  /\ feeding' = FALSE
  /\ UNCHANGED <<optional, fed, reading, jobResult, poolEnded, planEnded, readOutcome, recorded>>

\* fetchInput: a read succeeds only if the context holds to its end; a
\* refusal or an absence may still be what the fetcher answers.
Answers == {"failed", "missing"} \cup (IF Ended THEN {"cancelled"} ELSE {"read"})

\* An optional input that the publisher does not have is no failure.
Weighed(j, answer) == IF answer = "missing" /\ j \in optional THEN "absent" ELSE answer

Answer(r) ==
  /\ reading[r] \in Jobs
  /\ \E answer \in Answers :
       LET j == reading[r]  weighed == Weighed(j, answer) IN
       /\ jobResult' = [jobResult EXCEPT ![j] = weighed]
       /\ poolEnded' = (poolEnded \/ weighed \notin {"read", "absent"})
  /\ reading' = [reading EXCEPT ![r] = 0]
  /\ UNCHANGED <<optional, fed, feeding, planEnded, readOutcome, recorded>>

LeavePool(r) ==
  /\ ~feeding /\ reading[r] = 0
  /\ reading' = [reading EXCEPT ![r] = Gone]
  /\ UNCHANGED <<optional, fed, feeding, jobResult, poolEnded, planEnded, readOutcome, recorded>>

EndPlan ==
  /\ ~planEnded /\ readOutcome = "none" /\ planEnded' = TRUE
  /\ UNCHANGED <<optional, fed, feeding, reading, jobResult, poolEnded, readOutcome, recorded>>

Having(results) == {j \in Jobs : jobResult[j] \in results}
FirstOfAny == IF Having({"failed", "missing", "cancelled"}) = {} THEN "read"
              ELSE LET first == CHOOSE j \in Having({"failed", "missing", "cancelled"}) :
                                  \A k \in Having({"failed", "missing", "cancelled"}) : j <= k
                   IN IF jobResult[first] = "cancelled" THEN "cancelled" ELSE "failed"
\* The first failure that is not the cancellation of another read.
Verdict == IF Having({"failed", "missing"}) # {} THEN "failed"
           ELSE IF Having({"cancelled"}) # {} THEN "cancelled" ELSE "read"

InJobOrder == Those([j \in Jobs |-> j], Having({"read"}))
ReturnInputs ==
  /\ readOutcome = "none" /\ \A r \in Readers : reading[r] = Gone
  /\ readOutcome' = IF planEnded THEN "cancelled" ELSE Verdict
  /\ recorded' = IF readOutcome' = "read" THEN InJobOrder ELSE <<>>
  /\ UNCHANGED <<optional, fed, feeding, reading, jobResult, poolEnded, planEnded>>

ReadStep == StopFeeding \/ ReturnInputs \/ \E r \in Readers : Feed(r) \/ Answer(r) \/ LeavePool(r)

Init ==
  /\ optional \in SUBSET Jobs
  /\ fed = 0 /\ feeding = TRUE /\ reading = [r \in Readers |-> 0]
  /\ jobResult = [j \in Jobs |-> "none"]
  /\ poolEnded = FALSE /\ planEnded = FALSE /\ readOutcome = "none" /\ recorded = <<>>

Next == ReadStep \/ EndPlan

-----------------------------------------------------------------------------
TypeOK ==
  /\ optional \subseteq Jobs /\ fed \in 0 .. Inputs
  /\ reading \in [Readers -> 0 .. Gone]
  /\ jobResult \in [Jobs -> {"none", "read", "absent", "missing", "failed", "cancelled"}]
  /\ readOutcome \in {"none", "read", "failed", "cancelled"}

\* Success means that every input was read, but for optional ones the publisher
\* does not have, and the evidence is recorded in the order of the jobs, however
\* the reads overtook each other.  A plan that fails though nobody cancelled it
\* reports what failed, never the cancellation that the failure caused.
ReadsTruthful ==
  CASE readOutcome = "read" ->
         /\ \A j \in Jobs \ optional : jobResult[j] = "read"
         /\ \A j \in optional : jobResult[j] \in {"read", "absent"}
         /\ ToSet(recorded) = Having({"read"})
         /\ \A i, k \in DOMAIN recorded : i < k => recorded[i] < recorded[k]
    [] readOutcome = "cancelled" -> planEnded /\ recorded = <<>>
    [] readOutcome = "failed" -> recorded = <<>> /\ Having({"failed", "missing"}) # {}
    [] OTHER -> recorded = <<>>

\* Where readAll comes to rest: the pool drains, cancelled or not.
ReadsReturned == readOutcome # "none"
=============================================================================
