----------------------------- MODULE GuideRounds -----------------------------
(***************************************************************************)
(* The guides of a download: the passes over them (internal/cli/           *)
(* download.go) and what the open library accepts and publishes of each    *)
(* (internal/library/library.go).                                          *)
(*                                                                         *)
(* The selected guides are attempted in turn.  One that fails because the  *)
(* publisher stopped answering is put aside and tried again after the      *)
(* others, at most Rounds times.  Every other result is accepted at once:  *)
(* it replaces the guide's previous copy in the staged release, or leaves  *)
(* it there.  Publish makes the staged release the library.  Runs follow   *)
(* one another; ReleaseRegister and Publication say how one run is         *)
(* published.                                                              *)
(*                                                                         *)
(* Time is abstract: the wait before a retry may end at any moment.  A     *)
(* guide's folder and its PDF's name differ (a PDF's name has spaces).     *)
(***************************************************************************)
EXTENDS FiniteSets, Naturals, Sequences

CONSTANTS Guides,   \* the guides of the release
          Names,    \* file names of PDFs
          None,     \* no guide, copy or name
          Rounds,   \* len(stalledGuideWaits)
          Offers    \* what the publisher may serve of each guide

\* The copies of a guide that can be accepted.
CopySet == [format : {"html", "pdf"}, holes : UNION {{o.holes : o \in Offers[g]} : g \in Guides},
            name : Names, pdf : {"none", "complete", "failed"}, root : BOOLEAN]

ASSUME RoundsAssumption == Rounds \in Nat
ASSUME NoneAssumption == None \notin Guides \cup Names \cup CopySet
ASSUME OffersAssumption == \A g \in Guides : \A offer \in Offers[g] : offer.name \in Names

VARIABLES
  phase,      \* "closed", "pass", "retry" or "publish"
  mode,       \* what becomes of HTML: "pages", "companion" PDF or "replace"
  selected,   \* the guides to download
  todo,       \* those the first pass has not attempted
  current,    \* the attempt under way: its guide and the guide's first failure
  stalled,    \* attempts put aside for a later round
  retry,      \* those of this round still to be tried again
  round,      \* 0 in the first pass
  tries,      \* attempts of each guide in this run
  ended,      \* the run's context has ended
  cancelled,  \* and the run has noticed
  work,       \* guides with a folder in .work
  guides,     \* Run.guides: the accepted copy of each guide
  stage,      \* the entries of the staged release
  attempts,   \* Run.attempts, by guide
  library,    \* the guides of the published release
  pdfOnly,    \* the release folder keeps no records
  report      \* how the last run ended

passVars == <<phase, mode, selected, todo, current, stalled, retry, round, tries>>
runVars == <<work, guides, stage, attempts>>
outVars == <<library, pdfOnly, report>>
vars == <<passVars, ended, cancelled, runVars, outVars>>

-----------------------------------------------------------------------------
(* Copies of a guide.                                                      *)

\* holes: the images and topics the publisher does not serve.  pdf: the PDF
\* generated from HTML.  root: only the PDF is kept, in the release folder.
Copy(offer, pdf) == [format |-> offer.format, holes |-> offer.holes, name |-> offer.name,
                     pdf |-> pdf, root |-> FALSE]

Complete(copy) == copy.holes = {}
Degraded(copy) == copy.holes # {}
GeneratedFailed(copy) == copy.format = "html" /\ copy.pdf = "failed"
Generated(copy) == copy.format = "html" /\ copy.pdf = "complete"
HasPDF(copy) == copy.format = "pdf" \/ Generated(copy)

\* The copies an attempt can end with: publisher's PDFs have none generated.
Copies(g) ==
  {Copy(o, p) : o \in {x \in Offers[g] : x.format = "pdf"}, p \in {"none"}} \cup
  {Copy(o, p) : o \in {x \in Offers[g] : x.format = "html"},
                p \in IF mode = "pages" THEN {"none"} ELSE {"complete", "failed"}}

\* The release folder that holds these guides: folders, and who owns each PDF.
Entries(of) ==
  [folders |-> {g \in Guides : of[g] # None /\ ~of[g].root},
   files |-> [n \in Names |->
     IF \E g \in Guides : of[g] # None /\ of[g].root /\ of[g].name = n
     THEN CHOOSE g \in Guides : of[g] # None /\ of[g].root /\ of[g].name = n
     ELSE None]]

-----------------------------------------------------------------------------
(* Run.Accept.                                                             *)

\* missingResourceSubset and unpublishedTopicSubset.
LacksNoMore(copy, previous) == copy.holes \subseteq previous.holes

\* A result that must not replace the previous copy.
NothingRetained(g, copy) == FALSE
Retained(g, copy) ==
  LET previous == guides[g] IN
  /\ previous # None
  /\ \/ Complete(previous) /\ (copy = None \/ Degraded(copy))
     \/ copy # None /\ GeneratedFailed(copy) /\ Generated(previous)
     \/ Degraded(previous) /\ copy # None /\ Degraded(copy) /\ ~LacksNoMore(copy, previous)

\* releaseRootPDF: another guide keeps a PDF of this name in the release folder.
NameTaken(g, name) ==
  \E other \in Guides \ {g} : guides[other] # None /\ guides[other].root /\ guides[other].name = name
AtRoot(g, copy) == mode = "replace" /\ HasPDF(copy) /\ ~NameTaken(g, copy.name)

PlaceBesideOldPDF(g, copy) ==
  IF AtRoot(g, copy)
  THEN [folders |-> stage.folders \ {g}, files |-> [stage.files EXCEPT ![copy.name] = g]]
  ELSE [folders |-> stage.folders \cup {g}, files |-> stage.files]

\* The guide's folder and its PDF in the release folder go; then the work
\* folder, or only its PDF, is renamed into the stage.
Place(g, copy) ==
  LET previous == guides[g]
      cleared == IF previous # None /\ previous.root
                 THEN [stage.files EXCEPT ![previous.name] = None] ELSE stage.files
  IN IF AtRoot(g, copy)
     THEN [folders |-> stage.folders \ {g}, files |-> [cleared EXCEPT ![copy.name] = g]]
     ELSE [folders |-> stage.folders \cup {g}, files |-> cleared]

AttemptStatus(copy) == CASE copy = None -> "failed"
                         [] copy # None /\ GeneratedFailed(copy) -> "incomplete"
                         [] OTHER -> IF Complete(copy) THEN "complete" ELSE "degraded"

\* copy is None when the attempt failed.  first is the earlier failure that the
\* result's warnings name, 0 if there is none.
Accept(g, copy, first) ==
  LET retained == Retained(g, copy)
      accepted == copy # None /\ ~retained
  IN /\ attempts' = [attempts EXCEPT ![g] = Append(@,
          [status |-> AttemptStatus(copy), retained |-> retained, first |-> first])]
     /\ IF accepted
        THEN /\ guides' = [guides EXCEPT ![g] = [copy EXCEPT !.root = AtRoot(g, copy)]]
             /\ stage' = Place(g, copy)
             /\ work' = work \ {g}
        ELSE /\ UNCHANGED <<guides, stage>>
             /\ work' = IF retained /\ copy # None /\ Degraded(copy) THEN work \ {g} ELSE work

-----------------------------------------------------------------------------
(* downloadGuides.                                                         *)

NoAttempt == [guide |-> None, first |-> 0]
Idle == current = NoAttempt

\* A run in memory that has no document to attempt and nothing accepted.
Emptied ==
  /\ mode' = "pages" /\ selected' = {} /\ todo' = {}
  /\ current' = NoAttempt /\ stalled' = <<>> /\ retry' = <<>> /\ round' = 0
  /\ tries' = [g \in Guides |-> 0] /\ attempts' = [g \in Guides |-> <<>>]
  /\ ended' = FALSE /\ cancelled' = FALSE
  /\ work' = {} /\ stage' = Entries(guides')

\* The staging directory is named for the run, so .work starts without folders.
NewWork == {}

\* library.Open copies the published release into the stage.  It refuses a
\* folder that keeps only PDFs.
Open ==
  /\ phase = "closed" /\ ~pdfOnly
  /\ phase' = "pass"
  /\ mode' \in {"pages", "companion", "replace"}
  /\ selected' \in SUBSET Guides \ {{}}
  /\ todo' = selected'
  /\ current' = NoAttempt /\ stalled' = <<>> /\ retry' = <<>> /\ round' = 0
  /\ tries' = [g \in Guides |-> 0]
  /\ ended' = FALSE /\ cancelled' = FALSE
  /\ work' = NewWork /\ guides' = library /\ stage' = Entries(library)
  /\ attempts' = [g \in Guides |-> <<>>]
  /\ report' = [exit |-> "running", status |-> "none"]
  /\ UNCHANGED <<library, pdfOnly>>

Begin(g, first) ==
  /\ current' = [guide |-> g, first |-> first]
  /\ tries' = [tries EXCEPT ![g] = @ + 1]
  /\ work' = work \cup {g}      \* GuideOutput, after DiscardGuideOutput

\* The next document of the first pass; --guides may name them in any order.
Attempt(g) ==
  /\ phase = "pass" /\ Idle /\ ~ended /\ ~cancelled /\ g \in todo
  /\ todo' = todo \ {g}
  /\ Begin(g, 0)
  /\ UNCHANGED <<phase, mode, selected, stalled, retry, round, ended, cancelled,
                 guides, stage, attempts, outVars>>

\* The last round does not put a guide aside.
MayDefer == round < Rounds

\* A guide's first failure is the one that is remembered.
FirstFailure == IF current.first # 0 THEN current.first ELSE tries[current.guide]

\* The attempt failed, and fetch.Stalled says that the publisher stopped answering.
Defer ==
  /\ ~Idle /\ MayDefer /\ ~ended
  /\ stalled' = Append(stalled, [guide |-> current.guide, first |-> FirstFailure])
  /\ current' = NoAttempt
  /\ UNCHANGED <<phase, mode, selected, todo, retry, round, tries, ended, cancelled, runVars, outVars>>

\* The attempt ended otherwise, or a stalled one may not be put aside.
Finish ==
  /\ ~Idle
  /\ \E copy \in Copies(current.guide) \cup {None} : Accept(current.guide, copy, current.first)
  /\ cancelled' = (cancelled \/ ended)
  /\ current' = NoAttempt
  /\ UNCHANGED <<phase, mode, selected, todo, stalled, retry, round, tries, ended, outVars>>

SameRound == retry' = stalled /\ stalled' = <<>> /\ round' = round
StartRound == retry' = stalled /\ stalled' = <<>> /\ round' = round + 1

\* The first pass is over: nothing is left, or the run is cancelled.
EndPass ==
  /\ phase = "pass" /\ Idle
  /\ todo = {} \/ ended \/ cancelled
  /\ cancelled' = (cancelled \/ (ended /\ todo # {}))
  /\ IF Rounds = 0 THEN phase' = "publish" /\ UNCHANGED <<retry, stalled, round>>
                   ELSE phase' = "retry" /\ StartRound
  /\ UNCHANGED <<mode, selected, todo, current, tries, ended, runVars, outVars>>

Stop == cancelled \/ ended

\* The wait is over and the first stalled guide of the round is tried again.
AttemptAgain ==
  /\ phase = "retry" /\ Idle /\ retry # <<>> /\ ~Stop
  /\ Begin(Head(retry).guide, Head(retry).first)
  /\ retry' = Tail(retry)
  /\ UNCHANGED <<phase, mode, selected, todo, stalled, round, ended, cancelled,
                 guides, stage, attempts, outVars>>

\* The run is cancelled: the failure the guide already had is recorded.
ForgetStalled == UNCHANGED runVars
RecordStalled == Accept(Head(retry).guide, None, 0)
GiveUp ==
  /\ phase = "retry" /\ Idle /\ retry # <<>> /\ Stop
  /\ cancelled' = TRUE
  /\ RecordStalled
  /\ retry' = Tail(retry)
  /\ UNCHANGED <<phase, mode, selected, todo, current, stalled, round, tries, ended, outVars>>

EndRound ==
  /\ phase = "retry" /\ Idle /\ retry = <<>>
  /\ IF round < Rounds THEN StartRound /\ UNCHANGED phase
                       ELSE phase' = "publish" /\ UNCHANGED <<retry, stalled, round>>
  /\ UNCHANGED <<mode, selected, todo, current, tries, ended, cancelled, runVars, outVars>>

EndContext == /\ phase # "closed" /\ ~ended /\ ended' = TRUE
              /\ UNCHANGED <<passVars, cancelled, runVars, outVars>>

-----------------------------------------------------------------------------
(* Run.Publish, and the exit code.                                         *)

AllRecords == UNION {{attempts[g][i] : i \in DOMAIN attempts[g]} : g \in Guides}
Published == {guides[g] : g \in {x \in Guides : guides[x] # None}}

\* Run.errors: the cancellation, unfinished work, and what the attempts reported.
Errors == cancelled \/ work # {} \/ \E a \in AllRecords : a.status \in {"failed", "incomplete"}

VersionStatus ==
  CASE Errors -> "incomplete"
    [] ~Errors /\ ((\E a \in AllRecords : a.status = "degraded") \/ (\E c \in Published : Degraded(c))) -> "degraded"
    [] OTHER -> "complete"

\* onlyPDFs, for a run that replaces HTML.
OnlyPDFs(status) == /\ mode = "replace" /\ status # "incomplete"
                    /\ Published # {} /\ \A c \in Published : c.root

Verified == stage = Entries(guides)

\* A context that ends during Publish changes the exit code only.
ExitCode(status) == CASE cancelled \/ ended -> "130"
                      [] ~(cancelled \/ ended) /\ status # "complete" -> "2"
                      [] OTHER -> "0"

Publish ==
  /\ phase = "publish" /\ Verified
  /\ phase' = "closed"
  /\ library' = guides
  /\ pdfOnly' = OnlyPDFs(VersionStatus)
  /\ report' \in {[exit |-> e, status |-> VersionStatus] :
                    e \in {ExitCode(VersionStatus)} \cup
                          (IF ExitCode(VersionStatus) = "130" THEN {} ELSE {"1"})}  \* the ZIP or Close failed
  /\ UNCHANGED <<mode, selected, todo, current, stalled, retry, round, tries, ended, cancelled, runVars>>

\* A file operation failed, the staged release does not verify, or the process
\* was killed: the library stays as it was.
Abort ==
  /\ phase # "closed"
  /\ phase' = "closed"
  /\ guides' = library /\ Emptied
  /\ report' = [exit |-> "1", status |-> "none"]
  /\ UNCHANGED <<library, pdfOnly>>

-----------------------------------------------------------------------------
Init ==
  /\ phase = "closed" /\ mode = "pages" /\ selected = {} /\ todo = {}
  /\ current = NoAttempt /\ stalled = <<>> /\ retry = <<>> /\ round = 0
  /\ tries = [g \in Guides |-> 0]
  /\ ended = FALSE /\ cancelled = FALSE
  /\ work = {} /\ guides = [g \in Guides |-> None] /\ stage = Entries(guides)
  /\ attempts = [g \in Guides |-> <<>>]
  /\ library = [g \in Guides |-> None] /\ pdfOnly = FALSE
  /\ report = [exit |-> "running", status |-> "none"]

RunStep == \/ \E g \in Guides : Attempt(g)
           \/ Defer \/ Finish \/ EndPass \/ AttemptAgain \/ GiveUp \/ EndRound \/ Publish

\* No run is obliged to follow a closed one.
Rest == phase = "closed" /\ UNCHANGED vars

Next == Open \/ RunStep \/ EndContext \/ Abort \/ Rest

Spec == Init /\ [][Next]_vars

\* Attempts end (their retrievals do) and the run goes on.
FairSpec == Spec /\ WF_vars(RunStep)

-----------------------------------------------------------------------------
(* Properties.                                                             *)

Items == [guide : Guides, first : 1 .. Rounds]
Records == [status : {"complete", "degraded", "incomplete", "failed"}, retained : BOOLEAN, first : 0 .. Rounds]
TypeOK ==
  /\ phase \in {"closed", "pass", "retry", "publish"}
  /\ mode \in {"pages", "companion", "replace"}
  /\ selected \subseteq Guides /\ todo \subseteq selected
  /\ current \in [guide : Guides \cup {None}, first : 0 .. Rounds]
  /\ stalled \in Seq(Items) /\ retry \in Seq(Items)
  /\ round \in 0 .. Rounds
  /\ tries \in [Guides -> 0 .. Rounds + 1]
  /\ ended \in BOOLEAN /\ cancelled \in BOOLEAN
  /\ work \subseteq selected
  /\ guides \in [Guides -> CopySet \cup {None}]
  /\ stage \in [folders : SUBSET Guides, files : [Names -> Guides \cup {None}]]
  /\ attempts \in [Guides -> Seq(Records)]
  /\ library \in [Guides -> CopySet \cup {None}]
  /\ pdfOnly \in BOOLEAN
  /\ report \in [exit : {"running", "0", "1", "2", "130"},
                 status : {"none", "complete", "degraded", "incomplete"}]

\* What is put aside is accounted for: when the run comes to publish, a guide
\* that was attempted has exactly one record, cancelled or not, and one that was
\* not attempted has none; without a cancellation all selected guides have one.
EveryGuideRecordedOnce ==
  phase = "publish" =>
    /\ \A g \in Guides : Len(attempts[g]) = IF tries[g] > 0 THEN 1 ELSE 0
    /\ ~cancelled => \A g \in selected : tries[g] > 0

\* "Its first failure is recorded with the guide that finally publishes": a
\* guide that was tried again names the failure of its first attempt.
FirstFailureRecorded ==
  \A g \in Guides : attempts[g] # <<>> /\ attempts[g][1].status # "failed" =>
    attempts[g][1].first = IF tries[g] > 1 THEN 1 ELSE 0

\* The staged release holds the folder or the PDF of every accepted guide and
\* nothing else, whatever was renamed over what, and the work folders left in it
\* are those of this run's guides: Publish never meets a release that
\* checkLibraryEntries refuses.
StageMatchesGuides == phase # "closed" => Verified /\ work \subseteq selected

\* "It never replaces that guide's prior complete copy": across runs a published
\* guide never vanishes, a complete copy never becomes degraded, a degraded one
\* never lacks more, and a PDF generated earlier gives way only to a copy whose
\* own PDF did not fail.
NeverWorse ==
  [][\A g \in Guides : library[g] # None =>
       /\ library'[g] # None
       /\ library'[g].holes \subseteq library[g].holes
       /\ Generated(library[g]) => ~GeneratedFailed(library'[g])]_vars

\* What a closed run says of itself is true.  Exit code 0 promises that it fetched
\* every selected guide whole, that nothing of the release is degraded, and that no
\* work was left behind.  Records are dropped only when every guide is a PDF in the
\* release folder and "nothing failed or was cancelled": no later run needs them.
ClosedTruthfully ==
  /\ report.exit = "0" =>
       /\ \A g \in selected : \E i \in DOMAIN attempts[g] :
            attempts[g][i].status = "complete" /\ ~attempts[g][i].retained
       /\ \A g \in Guides : library[g] # None => Complete(library[g])
       /\ work = {}
  /\ pdfOnly =>
       /\ \A g \in Guides : library[g] # None => library[g].root
       /\ \A g \in selected : library[g] # None
       /\ work = {} /\ ~cancelled

\* What a run records and reports is true of it, from the attempts of its guides
\* to its exit code.
RecordsTruthful == EveryGuideRecordedOnce /\ FirstFailureRecorded /\ ClosedTruthfully

\* A run ends: rounds are not added without end, and a cancellation does not
\* leave it waiting for a guide.
RunEnds == phase # "closed" ~> phase = "closed"
=============================================================================
