----------------------------- MODULE PdfRender -----------------------------
(***************************************************************************)
(* GenerateInRoot turns one archived HTML guide into a companion PDF: it   *)
(* assembles a print document, drives Chrome twice and qpdf eight times,   *)
(* each under a monitor of its memory, and then publishes the file, the    *)
(* link in index.html and the manifest, rolling the three back when any of *)
(* the last steps fails.  The caller records a failure in the manifest and *)
(* hands the guide to Run.Accept, whose verification decides whether the   *)
(* guide enters the library or the whole download stops.                   *)
(*                                                                         *)
(* Only what the steps leave behind is modelled: whether the PDF is in the *)
(* guide's folder, whether the index links it, what the manifest on disk   *)
(* and the one in memory say of it.                                        *)
(***************************************************************************)
EXTENDS Naturals

VARIABLES
  pdfAt,        \* where the call is
  pdfClock,     \* whether generationCtx is still running
  slot,         \* who holds renderSlot
  tool,         \* the Chrome or qpdf process of this step, with its monitor
  runsLeft,     \* process runs this step has left
  startsLeft,   \* whether a Chrome that did not start is started again
  pdfRecord,    \* the named result `record`: its status, and whether it claims output
  guideDisk,    \* the guide's folder
  guideHTML,    \* *result.HTML in memory
  restored,     \* whether a rollback succeeded ("unused" when none ran)
  keptBefore,   \* the library already holds this guide with a complete generated PDF
  noticed       \* history: a run was refused a resource, or seen above its limit

renderVars == <<pdfAt, pdfClock, slot, tool, runsLeft, startsLeft, pdfRecord,
                guideDisk, guideHTML, restored, keptBefore, noticed>>
callVars == <<pdfRecord, guideDisk, guideHTML, restored, keptBefore, noticed>>

Manifests == [generated : {"none", "failed", "claiming", "complete"}, index : {"plain", "linked"}]
Archived == [generated |-> "none", index |-> "plain"]
NoTool == [kind |-> "none", phase |-> "none", over |-> FALSE, blocked |-> FALSE, tripped |-> FALSE]
Unfinished == [status |-> "failed", claims |-> FALSE]

\* The order of the steps, and the ones that run a tool.
After ==
  [ preflight |-> "slot", slot |-> "assemble", assemble |-> "raw", raw |-> "rawCheck",
    rawCheck |-> "inspect", inspect |-> "footerPlan", footerPlan |-> "footer",
    footer |-> "footerCheck", footerCheck |-> "merge", merge |-> "mergeCheck",
    mergeCheck |-> "outline", outline |-> "seal", seal |-> "rename", rename |-> "index",
    index |-> "manifest", manifest |-> "sync", sync |-> "late", late |-> "ok" ]
ChromeSteps == {"raw", "footer"}
QPDFRuns == [inspect |-> 1, merge |-> 4, outline |-> 3]
Runs(step) == IF step \in ChromeSteps THEN 1
              ELSE IF step \in DOMAIN QPDFRuns THEN QPDFRuns[step] ELSE 0
Published == {"index", "manifest", "sync", "late"}
PdfEnds == {"accepted", "incomplete", "refused"}

TypeOK ==
  /\ pdfAt \in DOMAIN After \cup {"undo", "failed", "ok", "accept"} \cup PdfEnds
  /\ pdfClock \in {"running", "over"}
  /\ slot \in {"free", "other", "ours"}
  /\ tool \in [kind : {"none", "chrome", "qpdf"}, over : BOOLEAN, blocked : BOOLEAN, tripped : BOOLEAN,
               phase : {"none", "confirm", "starting", "measuring", "loading", "printing", "running", "stopping",
                        "broken"}]
  /\ runsLeft \in 0..4 /\ startsLeft \in 0..1
  /\ pdfRecord \in [status : {"failed", "complete"}, claims : BOOLEAN]
  /\ guideDisk \in [pdf : BOOLEAN, index : {"plain", "linked"}, manifest : Manifests]
  /\ guideHTML \in Manifests
  /\ restored \in {"unused", "worked", "failed"} /\ keptBefore \in BOOLEAN /\ noticed \in BOOLEAN

Init ==
  /\ pdfAt = "preflight" /\ pdfClock = "running" /\ slot \in {"free", "other"}
  /\ tool = NoTool /\ runsLeft = 0 /\ startsLeft = 0 /\ pdfRecord = Unfinished
  /\ guideDisk = [pdf |-> FALSE, index |-> "plain", manifest |-> Archived]
  /\ guideHTML = Archived /\ restored = "unused" /\ keptBefore \in BOOLEAN
  /\ noticed = FALSE

-----------------------------------------------------------------------------
(* Moving on, and returning an error through the deferred calls.           *)

Goto(step) ==
  /\ pdfAt' = step /\ runsLeft' = Runs(step)
  /\ startsLeft' = IF step \in ChromeSteps THEN 1 ELSE 0
Enter(step) ==
  /\ Goto(step)
  /\ slot' = IF step \in {"ok", "failed", "undo"} /\ slot = "ours" THEN "free" ELSE slot

Fails == Enter(IF pdfAt \in Published THEN "undo" ELSE "failed")
Passes == Enter(After[pdfAt])

\* The error path resets the status only: the hash, the size and the page
\* count a finished record carries stay in it.
RecordFails == pdfRecord' = [pdfRecord EXCEPT !.status = "failed"]

\* The deadline of the generation passes, or the user cancels.
ClockEnds ==
  /\ pdfAt \notin PdfEnds /\ pdfClock = "running" /\ pdfClock' = "over"
  /\ UNCHANGED <<pdfAt, slot, tool, runsLeft, startsLeft, callVars>>

\* The input must be a publishable archive of the same document, and both
\* tools must be the pinned ones.
Preflight ==
  /\ pdfAt = "preflight"
  /\ \/ pdfClock = "running" /\ Passes
     \/ Fails
  /\ UNCHANGED <<pdfClock, tool, callVars>>

TakeSlot ==
  /\ pdfAt = "slot" /\ slot = "free"
  /\ Goto(After["slot"]) /\ slot' = "ours"
  /\ UNCHANGED <<pdfClock, tool, callVars>>
GiveUpSlot ==
  /\ pdfAt = "slot" /\ pdfClock = "over" /\ Fails
  /\ UNCHANGED <<pdfClock, tool, callVars>>
OtherRenderEnds ==
  /\ slot = "other" /\ slot' = "free"
  /\ UNCHANGED <<pdfAt, pdfClock, tool, runsLeft, startsLeft, callVars>>

(* The steps between the tools: opening the guide and assembling the print *)
(* document; what Chrome and qpdf wrote, checked.                          *)
Work(step, checksClock) ==
  /\ pdfAt = step
  /\ \/ (checksClock => pdfClock = "running") /\ Passes
     \/ Fails
  /\ UNCHANGED <<pdfClock, tool, callVars>>
Assemble == Work("assemble", TRUE)
CheckRaw == Work("rawCheck", TRUE)
PlanFooter == Work("footerPlan", FALSE)
CheckFooter == Work("footerCheck", FALSE)
CheckMerged == Work("mergeCheck", FALSE)

-----------------------------------------------------------------------------
(* One run of a tool.  The sidecar is verified again before every start.   *)

ToolStays == UNCHANGED <<pdfAt, slot, runsLeft, startsLeft, pdfRecord, guideDisk, guideHTML, restored, keptBefore>>
Toolless == ToolStays /\ UNCHANGED noticed
Phase(p) == tool' = [tool EXCEPT !.phase = p]
ToolFails == tool' = NoTool /\ Fails /\ UNCHANGED callVars

Confirm ==
  /\ Runs(pdfAt) > 0 /\ tool = NoTool
  /\ IF pdfAt \in ChromeSteps
     THEN tool' = [NoTool EXCEPT !.kind = "chrome", !.phase = "starting"]
     ELSE tool' = [NoTool EXCEPT !.kind = "qpdf", !.phase = "running"]
  /\ Toolless /\ UNCHANGED pdfClock
ConfirmFails ==
  /\ Runs(pdfAt) > 0 /\ tool = NoTool
  /\ ToolFails /\ UNCHANGED pdfClock

\* Chrome did not answer its first command: launched once more, with the
\* output emptied, unless the generation is over.
ChromeStart ==
  /\ tool.phase = "starting"
  /\ \/ pdfClock = "running" /\ Phase("measuring") /\ Toolless
     \/ /\ startsLeft > 0 /\ pdfClock = "running" /\ tool' = NoTool
        /\ startsLeft' = startsLeft - 1 /\ UNCHANGED <<pdfAt, slot, runsLeft, callVars>>
     \/ (startsLeft = 0 \/ pdfClock = "over") /\ ToolFails
  /\ UNCHANGED pdfClock

\* The first measurement; then the monitor starts.
Measured ==
  /\ tool.phase = "measuring"
  /\ \/ ~tool.over /\ Phase("loading") /\ Toolless
     \/ ToolFails
  /\ UNCHANGED pdfClock

\* A request outside the guide is refused and remembered; it can come as
\* long as the page is open.
RequestBlocked ==
  /\ tool.phase \in {"loading", "printing"} /\ ~tool.blocked
  /\ tool' = [tool EXCEPT !.blocked = TRUE] /\ noticed' = TRUE
  /\ ToolStays /\ UNCHANGED pdfClock

\* The page is loaded and audited.
Loaded ==
  /\ tool.phase = "loading"
  /\ \/ ~tool.blocked /\ pdfClock = "running" /\ ~tool.tripped /\ Phase("printing")
     \/ Phase("broken")
  /\ Toolless /\ UNCHANGED pdfClock

\* The stream ended; the context and the blocked requests are looked at again.
Printed ==
  /\ tool.phase = "printing"
  /\ \/ ~tool.blocked /\ pdfClock = "running" /\ ~tool.tripped /\ Phase("stopping")
     \/ Phase("broken")
  /\ Toolless /\ UNCHANGED pdfClock

QPDFEnds ==
  /\ tool.phase = "running"
  /\ \/ pdfClock = "running" /\ ~tool.tripped /\ Phase("stopping")
     \/ Phase("broken")
  /\ Toolless /\ UNCHANGED pdfClock

\* The tool grows past its limit, and the monitor notices at its next sample
\* or fails to measure: either cancels the run.
Grows ==
  /\ tool.phase \in {"starting", "loading", "printing", "running"} /\ ~tool.over
  /\ tool' = [tool EXCEPT !.over = TRUE] /\ noticed' = (noticed \/ tool.kind = "qpdf")
  /\ ToolStays /\ UNCHANGED pdfClock
MonitorTrips ==
  /\ tool.phase \in {"loading", "printing", "running", "stopping"} /\ ~tool.tripped
  /\ tool' = [tool EXCEPT !.tripped = TRUE] /\ noticed' = TRUE
  /\ ToolStays /\ UNCHANGED pdfClock

\* The monitor is stopped and its observation joined to the run's error;
\* qpdf's own peak counts too.
NoticedOver == tool.tripped \/ (tool.kind = "qpdf" /\ tool.over)
StopTool ==
  /\ tool.phase = "stopping" /\ ~NoticedOver /\ tool' = NoTool
  /\ IF runsLeft > 1
     THEN runsLeft' = runsLeft - 1 /\ UNCHANGED <<pdfAt, slot, startsLeft>>
     ELSE Passes
  /\ UNCHANGED <<pdfClock, callVars>>
StopBrokenTool ==
  /\ tool.phase = "broken" \/ (tool.phase = "stopping" /\ NoticedOver)
  /\ ToolFails /\ UNCHANGED pdfClock

-----------------------------------------------------------------------------
(* Publication in the guide's folder, and the rollback.                    *)

\* The final file is validated and hashed, and the record finished.
Seal ==
  /\ pdfAt = "seal"
  /\ \/ Passes /\ pdfRecord' = [status |-> "complete", claims |-> TRUE]
     \/ Fails /\ UNCHANGED pdfRecord
  /\ UNCHANGED <<pdfClock, tool, guideDisk, guideHTML, restored, keptBefore, noticed>>

\* The index is read and the new one computed before the file is renamed.
RenamePDF ==
  /\ pdfAt = "rename"
  /\ \/ Passes /\ guideDisk' = [guideDisk EXCEPT !.pdf = TRUE]
     \/ Fails /\ UNCHANGED guideDisk
  /\ UNCHANGED <<pdfClock, tool, pdfRecord, guideHTML, restored, keptBefore, noticed>>

WriteIndex ==
  /\ pdfAt = "index"
  /\ \/ /\ Passes /\ guideDisk' = [guideDisk EXCEPT !.index = "linked"]
        /\ guideHTML' = [generated |-> "complete", index |-> "linked"]
     \/ Fails /\ UNCHANGED <<guideDisk, guideHTML>>
  /\ UNCHANGED <<pdfClock, tool, pdfRecord, restored, keptBefore, noticed>>

WriteManifest ==
  /\ pdfAt = "manifest"
  /\ \/ Passes /\ guideDisk' = [guideDisk EXCEPT !.manifest = guideHTML]
     \/ Fails /\ UNCHANGED guideDisk
  /\ UNCHANGED <<pdfClock, tool, pdfRecord, guideHTML, restored, keptBefore, noticed>>

SyncGuide == Work("sync", FALSE)
CheckLate == Work("late", TRUE)

\* Four operations, each tried whatever the others did.
ForgetsIndex(pdfGone, indexBack, manifestBack) ==
  [ pdf |-> guideDisk.pdf /\ ~pdfGone, index |-> guideDisk.index,
    manifest |-> IF manifestBack THEN Archived ELSE guideDisk.manifest ]
Undone(pdfGone, indexBack, manifestBack) ==
  [ pdf |-> guideDisk.pdf /\ ~pdfGone,
    index |-> IF indexBack THEN "plain" ELSE guideDisk.index,
    manifest |-> IF manifestBack THEN Archived ELSE guideDisk.manifest ]
RollBack ==
  /\ pdfAt = "undo"
  /\ \E pdfGone, indexBack, manifestBack, synced \in BOOLEAN :
       /\ guideDisk' = Undone(pdfGone, indexBack, manifestBack)
       /\ restored' = IF pdfGone /\ indexBack /\ manifestBack /\ synced THEN "worked" ELSE "failed"
  /\ guideHTML' = Archived /\ Enter("failed")
  /\ UNCHANGED <<pdfClock, tool, pdfRecord, keptBefore, noticed>>

\* RecordFailureInRoot: what the manifest says after a failed conversion.
FailedEntry == IF pdfRecord.claims THEN "claiming" ELSE "failed"
RecordFailure ==
  /\ pdfAt = "failed"
  /\ RecordFails
  /\ LET said == [guideHTML EXCEPT !.generated = FailedEntry]
     IN \/ /\ guideHTML' = said /\ guideDisk' = [guideDisk EXCEPT !.manifest = said]
           /\ \E synced \in BOOLEAN : Enter(IF synced THEN "accept" ELSE "incomplete")
        \/ Enter("incomplete") /\ UNCHANGED <<guideHTML, guideDisk>>
  /\ UNCHANGED <<pdfClock, tool, restored, keptBefore, noticed>>
HandOver ==
  /\ pdfAt = "ok" /\ Enter("accept")
  /\ UNCHANGED <<pdfClock, tool, callVars>>

\* verifyHTMLGuide, as far as it looks at the generated PDF: the manifest on
\* disk is the accepted one, a failed record claims no output, a complete one
\* has its file, the index has the recorded hash, and no other file is there.
Verifies ==
  /\ guideDisk.manifest = guideHTML
  /\ guideHTML.generated # "claiming"
  /\ guideDisk.index = guideHTML.index
  /\ guideDisk.pdf <=> (guideHTML.generated = "complete")
RetainsOld == keptBefore /\ guideHTML.generated \in {"failed", "claiming"}
Accept ==
  /\ pdfAt = "accept"
  /\ Enter(IF RetainsOld THEN "incomplete" ELSE IF Verifies THEN "accepted" ELSE "refused")
  /\ UNCHANGED <<pdfClock, tool, callVars>>

Publishing == Seal \/ RenamePDF \/ WriteIndex \/ WriteManifest \/ SyncGuide \/ CheckLate \/ RollBack
Working == Preflight \/ TakeSlot \/ GiveUpSlot \/ Assemble \/ CheckRaw \/ PlanFooter \/ CheckFooter \/ CheckMerged
Closing == Confirm \/ ConfirmFails \/ Measured \/ StopTool \/ StopBrokenTool
Tooling == ChromeStart \/ Loaded \/ Printed \/ QPDFEnds
Ending == RecordFailure \/ HandOver \/ Accept
Next == Working \/ Closing \/ Tooling \/ Publishing \/ Ending \/ ClockEnds \/ OtherRenderEnds
        \/ RequestBlocked \/ Grows \/ MonitorTrips

\* A tool need not make progress by itself; once its context is over or its
\* monitor has cancelled it, it is stopped.
ToolCancelled == (pdfClock = "over" \/ tool.tripped) /\ Tooling

-----------------------------------------------------------------------------
(* A guide the library accepts is what its manifest says: a complete       *)
(* generated PDF is there and linked and was printed without a refused     *)
(* request or a noticed excess of memory, and without one the folder is as *)
(* the archive left it -- whichever of the publication's steps failed, and *)
(* whichever step of the rollback failed after it.  When the rollback      *)
(* worked the guide is the one that was archived.                          *)
GuideIsAsRecorded ==
  /\ pdfAt = "accepted" =>
       /\ guideDisk.manifest = guideHTML
       /\ IF guideHTML.generated = "complete"
          THEN guideDisk.pdf /\ guideDisk.index = "linked" /\ pdfRecord.status = "complete" /\ ~noticed
          ELSE ~guideDisk.pdf /\ guideDisk.index = "plain"
  /\ pdfAt = "failed" /\ restored # "failed" =>
       guideDisk = [pdf |-> FALSE, index |-> "plain", manifest |-> Archived] /\ guideHTML = Archived

(* A guide whose PDF failed keeps its HTML: README.md, "A guide whose PDF  *)
(* fails keeps its HTML in its folder and is reported as incomplete", says *)
(* it of every failure.  A refused guide ends the download instead.        *)
FailureKeepsHTML == pdfAt = "refused" => restored = "failed"

(* However long a tool hangs, the conversion ends, with no process left    *)
(* and the slot given back.                                                *)
RenderSettled == pdfAt \in PdfEnds /\ tool = NoTool /\ slot # "ours"
=============================================================================
