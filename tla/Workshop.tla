------------------------------ MODULE Workshop ------------------------------
(***************************************************************************)
(* The parts that do the work of a run: attempt budget, cache              *)
(* root, ZIP export, topic prefetch, prompts, PDF rendering, sidecar       *)
(* checks, PDF outline audit and the extraction of pinned archives.  They  *)
(* share no state, so each behaviour takes one of them, from any of its    *)
(* initial states; the variables of the others stay at zero, those of the  *)
(* budget, which this module extends, at its initial state.                *)
(***************************************************************************)
EXTENDS AttemptBudget, Sequences

CONSTANTS Parts,  \* the parts considered
          Pair, Faults, Foundations, Files, Hidden, Changes, Topics, MayCancel,
          Questions, Offered, Disabled, Keys, MaxKeys, MaxPending,
          PinnedFiles, MaxPinChanges, MaxChecks, GuideEntries, OutlinePages, FooterTopics,
          Archive, Selecting, AllowedRoots, Folded, MaxMembers, MaxFileBytes, MaxTotalBytes

\* A path is a sequence of names.
Paths == Seq(DOMAIN Folded) \ {<<>>}

ASSUME WorkshopAssumption ==
  /\ Faults \subseteq {"cancel", "io", "kill"}
  /\ Foundations \subseteq {"absent", "private", "open", "foreign", "native"}
  /\ Hidden \subseteq Files /\ IsFiniteSet(Files)
  /\ Topics \in Nat /\ Cardinality(Pair) <= Topics /\ MayCancel \in BOOLEAN
  /\ IsFiniteSet(Pair)
  /\ Offered \subseteq Nat /\ Offered \ Disabled # {} /\ Questions \in Nat /\ MaxPending \in Nat
  /\ PinnedFiles \in Seq({PinnedFiles[i] : i \in DOMAIN PinnedFiles}) /\ PinnedFiles # <<>>
  /\ MaxPinChanges \in Nat \ {0} /\ MaxChecks \in Nat
  /\ \A a \in Archive :
       /\ a.trailing \in BOOLEAN
       /\ a.members \in Seq([path : Paths, kind : {"dir", "file", "link"}, size : Nat, sound : BOOLEAN])
  /\ \A chosen \in Selecting : \A s \in chosen : s \in [from : Paths, to : Paths]
  /\ MaxMembers \in Nat /\ MaxFileBytes \in Nat /\ MaxTotalBytes \in Nat

VARIABLES component,
  root, origin, opener, hit,
  zipAt, present, changes, listed, hashed, part, target, zipLocked, zipEnded, zipResult,
  main, topic, next, jobs, results, kept, worker, served, outcome, stopped, err,
  caller, asked, loop, prompt, response, pending, pendingErr, pressed, used, replies, promptCut, starting,
  requests, lastOrder, completer, request,
  pdfAt, pdfClock, slot, tool, runsLeft, startsLeft, pdfRecord, guideDisk, guideHTML, restored, keptBefore,
  noticed,
  files, strayAt, pinClock, memo, overridden, listFirst, check, checksLeft, launched,
  shape, plan, pdf, walkAt, accepted, frames, seen, entries, places, footers, active,
  pinnedArchive, selections, archiveFile, archivePath, unpackAt, nextMember, nodes, stageDir, staged,
  parentDir, destinationDir, unpackResult

rootVars == <<root, origin, opener, hit>>
zipVars == <<zipAt, present, changes, listed, hashed, part, target, zipLocked, zipEnded, zipResult>>
prefetchVars == <<main, topic, next, jobs, results, kept, worker, served, outcome, stopped, err>>
promptVars == <<caller, asked, loop, prompt, response, pending, pendingErr, pressed, used, replies, promptCut,
                starting, requests, lastOrder, completer, request>>
renderVars == <<pdfAt, pdfClock, slot, tool, runsLeft, startsLeft, pdfRecord, guideDisk, guideHTML, restored,
                keptBefore, noticed>>
sidecarVars == <<files, strayAt, pinClock, memo, overridden, listFirst, check, checksLeft, launched>>
outlineVars == <<shape, plan, pdf, walkAt, accepted, frames, seen, entries, places, footers, active>>
unpackVars == <<pinnedArchive, selections, archiveFile, archivePath, unpackAt, nextMember, nodes, stageDir,
                staged, parentDir, destinationDir, unpackResult>>
sumVars == <<component, vars, rootVars, zipVars, prefetchVars, promptVars, renderVars, sidecarVars, outlineVars, unpackVars>>

-----------------------------------------------------------------------------
Root == INSTANCE CacheRootProofs WITH Openers <- Pair
Zip == INSTANCE ZipExport
Prefetch == INSTANCE TopicPrefetchProofs WITH Workers <- Pair, cancelled <- stopped
Prompts == INSTANCE Prompts
Render == INSTANCE PdfRender
Sidecar == INSTANCE Sidecars
Outline == INSTANCE PdfOutline
Unpack == INSTANCE Extraction

\* What the parts that are not taken hold.
NoRoot ==
  /\ root = 0 /\ origin = 0 /\ opener = 0 /\ hit = 0
NoZip ==
  /\ zipAt = 0 /\ present = 0 /\ changes = 0 /\ listed = 0 /\ hashed = 0 /\ part = 0 /\ target = 0
  /\ zipLocked = 0 /\ zipEnded = 0 /\ zipResult = 0
NoPrefetch ==
  /\ main = 0 /\ topic = 0 /\ next = 0 /\ jobs = 0 /\ results = 0 /\ kept = 0 /\ worker = 0 /\ served = 0
  /\ outcome = 0 /\ stopped = 0 /\ err = 0
NoPrompts ==
  /\ caller = 0 /\ asked = 0 /\ loop = 0 /\ prompt = 0 /\ response = 0 /\ pending = 0 /\ pendingErr = 0
  /\ pressed = 0 /\ used = 0 /\ replies = 0 /\ promptCut = 0 /\ starting = 0 /\ requests = 0 /\ lastOrder = 0
  /\ completer = 0 /\ request = 0
NoRender ==
  /\ pdfAt = 0 /\ pdfClock = 0 /\ slot = 0 /\ tool = 0 /\ runsLeft = 0 /\ startsLeft = 0 /\ pdfRecord = 0
  /\ guideDisk = 0 /\ guideHTML = 0 /\ restored = 0 /\ keptBefore = 0 /\ noticed = 0
NoSidecar ==
  /\ files = 0 /\ strayAt = 0 /\ pinClock = 0 /\ memo = 0 /\ overridden = 0 /\ listFirst = 0 /\ check = 0
  /\ checksLeft = 0 /\ launched = 0
NoOutline ==
  /\ shape = 0 /\ plan = 0 /\ pdf = 0 /\ walkAt = 0 /\ accepted = 0 /\ frames = 0 /\ seen = 0 /\ entries = 0
  /\ places = 0 /\ footers = 0 /\ active = 0
NoUnpack ==
  /\ pinnedArchive = 0 /\ selections = 0 /\ archiveFile = 0 /\ archivePath = 0 /\ unpackAt = 0
  /\ nextMember = 0 /\ nodes = 0 /\ stageDir = 0 /\ staged = 0 /\ parentDir = 0 /\ destinationDir = 0
  /\ unpackResult = 0

SumInit ==
  /\ component \in Parts
  /\ Init
  /\ IF component = "root" THEN Root!Init ELSE NoRoot
  /\ IF component = "zip" THEN Zip!Init ELSE NoZip
  /\ IF component = "prefetch" THEN Prefetch!Init ELSE NoPrefetch
  /\ IF component = "prompts" THEN Prompts!Init ELSE NoPrompts
  /\ IF component = "render" THEN Render!Init ELSE NoRender
  /\ IF component = "sidecar" THEN Sidecar!Init ELSE NoSidecar
  /\ IF component = "outline" THEN Outline!Init ELSE NoOutline
  /\ IF component = "unpack" THEN Unpack!Init ELSE NoUnpack

\* Nothing but the variables of the part taken changes.
Within(chosen) ==
  /\ component = chosen /\ UNCHANGED component
  /\ IF chosen = "budget" THEN TRUE ELSE UNCHANGED vars
  /\ IF chosen = "root" THEN TRUE ELSE UNCHANGED rootVars
  /\ IF chosen = "zip" THEN TRUE ELSE UNCHANGED zipVars
  /\ IF chosen = "prefetch" THEN TRUE ELSE UNCHANGED prefetchVars
  /\ IF chosen = "prompts" THEN TRUE ELSE UNCHANGED promptVars
  /\ IF chosen = "render" THEN TRUE ELSE UNCHANGED renderVars
  /\ IF chosen = "sidecar" THEN TRUE ELSE UNCHANGED sidecarVars
  /\ IF chosen = "outline" THEN TRUE ELSE UNCHANGED outlineVars
  /\ IF chosen = "unpack" THEN TRUE ELSE UNCHANGED unpackVars

SumNext ==
  \/ Within("budget") /\ Next
  \/ Within("root") /\ Root!Next
  \/ Within("zip") /\ Zip!Next
  \/ Within("prefetch") /\ Prefetch!Next
  \/ Within("prompts") /\ Prompts!Next
  \/ Within("render") /\ Render!Next
  \/ Within("sidecar") /\ Sidecar!Next
  \/ Within("outline") /\ Outline!Next
  \/ Within("unpack") /\ Unpack!Next

\* Goroutines and processes are scheduled; a tool need not make progress until its
\* context is over; the audit goes on; the user owes no answer.
Fairness ==
  /\ \A p \in Pair : WF_rootVars(component = "root" /\ Root!OpenerStep(p))
  /\ WF_prefetchVars(component = "prefetch" /\ Prefetch!MainStep)
  /\ \A w \in Pair : WF_prefetchVars(component = "prefetch" /\ Prefetch!WorkerStep(w))
  /\ WF_promptVars(component = "prompts" /\ Prompts!CallerStep)
  /\ WF_promptVars(component = "prompts" /\ Prompts!LoopStep)
  /\ WF_promptVars(component = "prompts" /\ Prompts!WorkerStep)
  /\ WF_renderVars(component = "render" /\ (Render!Working \/ Render!Closing \/ Render!Publishing \/ Render!Ending))
  /\ WF_renderVars(component = "render" /\ Render!ClockEnds)
  /\ WF_renderVars(component = "render" /\ Render!ToolCancelled)
  /\ WF_outlineVars(component = "outline" /\ Outline!Next)
SumSpec == SumInit /\ [][SumNext]_sumVars /\ Fairness

-----------------------------------------------------------------------------
\* Processes that open one cache at the same moment all work in the directory at
\* its path, and nothing foreign is admitted or touched (cache/root.go).
AdmissionSafe == component = "root" => Root!TypeOK /\ Root!AdmissionSafe

\* The ZIP beside a release is the earlier one or a whole new one, whatever changes
\* in the folder while it is written (library/zip.go).
ZipWhole == component = "zip" => Zip!TypeOK /\ Zip!ZipWhole

\* A prefetched topic is treated by its own result, the window is kept, and a
\* success is complete (archive/html.go, topicPrefetch).
PrefetchSound == component = "prefetch" => Prefetch!TypeOK /\ Prefetch!PrefetchSound

\* Keys typed ahead reach the prompts in order, no question gets a disabled answer,
\* and suggestions belong to the text under them (cli/prompt.go, completion.go).
KeysInOrder == component = "prompts" => Prompts!TypeOK /\ Prompts!KeysInOrder

\* A guide accepted after its PDF was rendered is what its manifest says, whichever
\* step of publication or rollback failed (pdfgen/render.go).
GuideIsAsRecorded == component = "render" => Render!TypeOK /\ Render!GuideIsAsRecorded

\* README.md:513, "A guide whose PDF fails keeps its HTML in its folder": a guide
\* whose rendering failed is refused only when its rollback failed too.
FailureKeepsHTML == component = "render" => Render!FailureKeepsHTML

\* A remembered check of a pinned file is never trusted for other bytes, and the
\* quarantine goes only from pinned files (pdfgen/sidecar_tree.go, quarantine.go).
OnlyPinnedIsTrusted == component = "sidecar" => Sidecar!TypeOK /\ Sidecar!OnlyPinnedIsTrusted

\* What the generator accepts has the planned outline and footers, and the audit
\* can read nothing else from it (pdfgen/qpdf_outline.go, qpdf_audit.go, footer.go).
PdfIsAsPlanned == component = "outline" => Outline!TypeOK /\ Outline!PdfIsAsPlanned

\* What is found at the destination is the pinned archive, and nothing of others is
\* replaced or removed (releasepkg/acquire.go).
TreeIsThePinnedArchive == component = "unpack" => Unpack!TypeOK /\ Unpack!TreeIsThePinnedArchive

\* The work comes to rest: openers leave the admission, the archive its workers,
\* prompts and suggestions their goroutines, tools their process and slot, and the
\* audit an outline whose links run in a circle.
WorkSettles == []<>(
  CASE component = "root" -> Root!AdmissionEnded
    [] component = "prefetch" -> Prefetch!InventoryReturned
    [] component = "prompts" -> Prompts!PromptsSettled
    [] component = "render" -> Render!RenderSettled
    [] component = "outline" -> Outline!AuditEnded
    [] OTHER -> TRUE)
=============================================================================
