------------------------------- MODULE Assets -------------------------------
(***************************************************************************)
(* The files that the pages of an HTML archive need besides themselves:    *)
(* stylesheets, vectors, images and fonts (internal/archive/assets.go, and *)
(* the uses of it in rewrite.go, image_placeholder.go, svg.go,             *)
(* table_style_recovery.go, ordinary_style_recovery.go,                    *)
(* unavailable_style.go and font_recovery.go).  What became of a file is   *)
(* remembered; a stylesheet or vector is rewritten while it is loaded, so  *)
(* loads nest, and files that refer to each other are met again while they *)
(* are in work.  What the publisher no longer serves is replaced, or left  *)
(* out and recorded, or makes the guide incomplete, by the way it is used. *)
(***************************************************************************)
EXTENDS Naturals, Sequences, SequencesExt, FiniteSets

CONSTANTS Sheets, Vectors, Images, Fonts,  \* files, by what they are
          GuidesConsidered,  \* what pages and files refer to: see GuideShape
          MaxAssets,         \* files of an archive (10 000 in the code)
          MaxUses            \* bound on the uses of the pages

VARIABLES
  guide,            \* the guide archived, one of GuidesConsidered
  assetAt,          \* "prepare", "emit" or "done"
  assets,           \* assets[f]: what the manager knows of file f
  order,            \* files in the order they were first kept
  probeFailures,    \* probeFailures[f]: how a read on trial failed
  imageFailures,    \* images that failed as images
  unserved,         \* targets of dropped links
  omitted,          \* stylesheets that pages are archived without
  todo,             \* stylesheets to be tried before the pages are written
  probes,           \* probes[s]: what trying a same-named stylesheet gave
  groups,           \* groups[p]: what the same-named stylesheets of page p gave
  tableCandidates,  \* stylesheets that may stand for a table stylesheet
  resolution,       \* resolution[s]: what stands for a same-named stylesheet
  tableResolution,  \* and for a table stylesheet of another guide
  refsOf,           \* refsOf[f]: references written into file f, or "page"
  losses,           \* what is lost and the manifest or a warning names
  asked,            \* uses the pages made
  errors,           \* the guide has an error
  stack,            \* files in work, the innermost last
  answer,           \* of the load that has just ended, or "none"
  pageUse,          \* the use in work, or NoUse
  usesLeft

fileVars == <<assets, order, probeFailures, errors, stack, answer>>
styleVars == <<todo, probes, groups, tableCandidates, resolution, tableResolution, omitted>>
pageVars == <<imageFailures, unserved, refsOf, losses, asked, pageUse, usesLeft>>
assetVars == <<guide, assetAt, fileVars, styleVars, pageVars>>

Files == Sheets \cup Vectors \cup Images \cup Fonts
Kinds == {"css", "svgstyle", "asset", "font"}
\* A reference inside a file: a rule that no page's class or ID selects is kept for vectors only.
Dependency == [file : Files, kind : Kinds, always : BOOLEAN]
\* deps: references in files; same: per page, stylesheets of one name; tables: table
\* stylesheets outside the guide; advertised: those inside; uses: what pages refer to.
GuideShape == [deps : [Sheets \cup Vectors -> Seq(Dependency)], same : [1 .. 2 -> Seq(Sheets)],
               tables : SUBSET Sheets, advertised : Seq(Sheets),
               uses : SUBSET [op : {"resource", "link", "style", "slot"}, file : Files, kind : Kinds,
                              page : 1 .. 2, others : Seq(Images)]]
NoUse == [op |-> "none"]
Absent == [status |-> "absent", processing |-> FALSE, svg |-> FALSE, needs |-> FALSE]

Is(f, status) == assets[f].status = status
Full == Cardinality({f \in Files : ~Is(f, "absent")}) >= MaxAssets
Top == Last(stack)

\* fail
Failing(f, why) ==
  /\ assets' = [assets EXCEPT ![f].status = "failed", ![f].processing = FALSE]
  /\ errors' = TRUE /\ answer' = why
Answer(what) == answer' = what /\ UNCHANGED <<assets, errors>>
Install(f, status) == assets' = [assets EXCEPT ![f] = [Absent EXCEPT !.status = status]] /\ order' = Append(order, f)
Why(outcome) == IF outcome = "gone" THEN "gone" ELSE "fail"

\* rewriteCSSFiltered, rewriteSVG: what a file refers to.  For a vector a stylesheet
\* keeps every rule, and what it imports is for the vector too.
Wanted(f, kind) ==
  LET all == guide.deps[f]
  IN IF f \in Vectors THEN all
     ELSE IF kind = "svgstyle"
     THEN [i \in DOMAIN all |-> IF all[i].kind = "css" THEN [all[i] EXCEPT !.kind = "svgstyle"] ELSE all[i]]
     ELSE SelectSeq(all, LAMBDA d : d.always)
Begin(f, kind) == [file |-> f, kind |-> kind, rest |-> Wanted(f, kind), refs |-> {}, cause |-> "none"]

\* How a read ends: served, HTTP 404 or 410, 403, too late or cut short, another
\* failure, or served as something else.
Outcomes == {"ok", "gone", "refused", "late", "failed", "junk"}

\* processLoaded: what was served is kept; stylesheets and vectors are rewritten first.
Arrived(f, kind, outcome) ==
  \/ /\ outcome = "ok" /\ f \in Sheets \cup Vectors
     /\ assets' = [assets EXCEPT ![f] = [Absent EXCEPT !.status = "pending", !.processing = TRUE]]
     /\ order' = Append(order, f) /\ stack' = Append(stack, Begin(f, kind)) /\ UNCHANGED <<errors, answer>>
  \/ /\ outcome = "ok" /\ f \in Images \cup Fonts /\ Install(f, "complete")
     /\ answer' = "ok" /\ UNCHANGED <<errors, stack>>
  \/ /\ outcome = "junk" /\ Install(f, "failed")
     /\ errors' = TRUE /\ answer' = "fail" /\ UNCHANGED stack

\* Mutated: what stands for a missing image is taken for the image.
UsableOrSubstituted(f) == assets[f].status \in {"pending", "complete", "substituted"}
\* A file that is there, or will be.
Usable(f) == assets[f].status \in {"pending", "complete"}

\* load, for a file met before.
LoadKnown(f, kind) ==
  /\ UNCHANGED <<order, probeFailures>>
  /\ \/ Is(f, "failed") /\ Answer("fail") /\ UNCHANGED stack
     \/ /\ Is(f, "substituted") \/ (Is(f, "unavailable") /\ kind # "font")
        /\ Failing(f, "fail") /\ UNCHANGED stack
     \/ Is(f, "unavailable") /\ kind = "font" /\ Answer("lost") /\ UNCHANGED stack
     \/ /\ Usable(f) /\ (kind = "svgstyle" => assets[f].svg)
        /\ Answer("ok") /\ UNCHANGED stack
     \/ /\ Usable(f) /\ kind = "svgstyle" /\ ~assets[f].svg
        /\ IF assets[f].processing
           THEN assets' = [assets EXCEPT ![f].needs = TRUE] /\ answer' = "ok" /\ UNCHANGED <<errors, stack>>
           ELSE /\ assets' = [assets EXCEPT ![f].processing = TRUE]
                /\ stack' = Append(stack, Begin(f, kind)) /\ UNCHANGED <<errors, answer>>

\* load, for a new file: a failure on trial counts now.
LoadNew(f, kind) ==
  /\ Is(f, "absent")
  /\ \/ /\ probeFailures[f] # "none" /\ probeFailures' = [probeFailures EXCEPT ![f] = "none"]
        /\ Install(f, "failed") /\ errors' = TRUE /\ answer' = Why(probeFailures[f]) /\ UNCHANGED stack
     \/ /\ probeFailures[f] = "none" /\ Full
        /\ Answer("fail") /\ UNCHANGED <<order, probeFailures, stack>>
     \/ /\ probeFailures[f] = "none" /\ ~Full /\ UNCHANGED probeFailures
        /\ \E outcome \in Outcomes :
             \/ Arrived(f, kind, outcome)
             \/ /\ kind = "font" /\ outcome \in {"gone", "refused"}
                /\ Install(f, "unavailable") /\ answer' = "lost" /\ UNCHANGED <<errors, stack>>
             \/ /\ outcome \notin {"ok", "junk"} /\ ~(kind = "font" /\ outcome \in {"gone", "refused"})
                /\ Install(f, "failed") /\ errors' = TRUE /\ answer' = Why(outcome) /\ UNCHANGED stack

Load(f, kind) == LoadKnown(f, kind) \/ LoadNew(f, kind)

\* probe: a read whose failure is only remembered.
Probe(f, kind) ==
  \/ Is(f, "failed") /\ Answer("fail") /\ UNCHANGED <<order, probeFailures, stack>>
  \/ Is(f, "unavailable") /\ Failing(f, "fail") /\ UNCHANGED <<order, probeFailures, stack>>
  \/ /\ assets[f].status \in {"pending", "complete", "substituted"}
     /\ Answer("ok") /\ UNCHANGED <<order, probeFailures, stack>>
  \/ /\ Is(f, "absent") /\ probeFailures[f] # "none"
     /\ Answer(Why(probeFailures[f])) /\ UNCHANGED <<order, probeFailures, stack>>
  \/ /\ Is(f, "absent") /\ probeFailures[f] = "none"
     /\ \/ Full /\ Answer("fail") /\ UNCHANGED <<order, probeFailures, stack>>
        \/ /\ ~Full
           /\ \E outcome \in Outcomes :
                \/ Arrived(f, kind, outcome) /\ UNCHANGED probeFailures
                \/ /\ outcome \notin {"ok", "junk"} /\ probeFailures' = [probeFailures EXCEPT ![f] = outcome]
                   /\ Answer(Why(outcome)) /\ UNCHANGED <<order, stack>>

\* recordFailure: a failure on trial counts, for the use that reports it.
RecordFailure(f) ==
  /\ errors' = TRUE
  /\ \/ Is(f, "absent") /\ Install(f, "failed")
     \/ Is(f, "unavailable") /\ assets' = [assets EXCEPT ![f].status = "failed"] /\ UNCHANGED order
     \/ ~Is(f, "absent") /\ ~Is(f, "unavailable") /\ UNCHANGED <<assets, order>>

-----------------------------------------------------------------------------
(* Files in work.                                                          *)

ResolveNext ==
  /\ stack # <<>> /\ answer = "none" /\ Top.rest # <<>>
  /\ Load(Head(Top.rest).file, Head(Top.rest).kind)
  /\ UNCHANGED <<guide, assetAt, styleVars, pageVars>>

\* A reference is written, a font that is refused is dropped; any other failure ends
\* a stylesheet at once and a vector when all of it has been seen.
TakeAnswer ==
  /\ stack # <<>> /\ answer # "none"
  /\ LET dep == Head(Top.rest)
         moved == [Top EXCEPT !.rest = Tail(@)]
         On(frame) == stack' = Append(Front(stack), frame) /\ answer' = "none" /\ UNCHANGED <<assets, errors>>
     IN \/ /\ answer = "ok" /\ On([moved EXCEPT !.refs = @ \cup {[file |-> dep.file, kind |-> dep.kind]}])
           /\ UNCHANGED losses
        \/ answer = "lost" /\ On(moved) /\ losses' = losses \cup {[file |-> dep.file, op |-> "font"]}
        \/ /\ answer \in {"gone", "fail"} /\ UNCHANGED losses
           /\ IF Top.file \in Sheets THEN Failing(Top.file, answer) /\ stack' = Front(stack)
              ELSE On([moved EXCEPT !.cause = IF @ = "gone" THEN @ ELSE answer])
  /\ UNCHANGED <<guide, assetAt, order, probeFailures, styleVars, imageFailures, unserved, refsOf, asked, pageUse, usesLeft>>

\* rewriteStylesheet and the end of processLoaded: the file is written.  A stylesheet
\* that a vector asked for meanwhile is rewritten again, for the vector.
FinishFile ==
  /\ stack # <<>> /\ answer = "none" /\ Top.rest = <<>>
  /\ LET f == Top.file
         forVectors == f \in Sheets /\ (assets[f].svg \/ Top.kind = "svgstyle")
         again == f \in Sheets /\ assets[f].needs /\ ~forVectors
     IN \/ /\ Top.cause # "none" /\ Failing(f, Top.cause) /\ stack' = Front(stack) /\ UNCHANGED refsOf
        \/ /\ Top.cause = "none" /\ Failing(f, "fail") /\ stack' = Front(stack) /\ UNCHANGED refsOf
        \/ /\ Top.cause = "none" /\ refsOf' = [refsOf EXCEPT ![f] = Top.refs]
           /\ assets' = [assets EXCEPT ![f] = [status |-> "complete", processing |-> again, svg |-> forVectors, needs |-> FALSE]]
           /\ IF again THEN stack' = Append(Front(stack), Begin(f, "svgstyle")) /\ UNCHANGED answer
              ELSE stack' = Front(stack) /\ answer' = "ok"
           /\ UNCHANGED errors
  /\ UNCHANGED <<guide, assetAt, order, probeFailures, styleVars, imageFailures, unserved, losses, asked, pageUse, usesLeft>>

-----------------------------------------------------------------------------
(* Before the pages are written: prepareTableStyleCandidates and           *)
(* prepareOrdinaryStyleRecoveries try the stylesheets that may replace one *)
(* that is gone.                                                           *)

Idle == stack = <<>> /\ answer = "none" /\ pageUse = NoUse
Ended == stack = <<>> /\ answer # "none"
Trying(op) == [op |-> op, file |-> Head(todo).file, page |-> Head(todo).page]

TryCandidate ==
  /\ assetAt = "prepare" /\ Idle /\ todo # <<>> /\ Head(todo).page = 0
  /\ Probe(Head(todo).file, "css") /\ pageUse' = Trying("candidate")
  /\ UNCHANGED <<guide, assetAt, styleVars, imageFailures, unserved, refsOf, losses, asked, usesLeft>>

\* probeOrdinaryStyle: each is tried once.
TrySameNamed ==
  /\ assetAt = "prepare" /\ Idle /\ todo # <<>> /\ Head(todo).page # 0
  /\ pageUse' = Trying("same")
  /\ LET s == Head(todo).file
     IN IF probes[s] = "none" THEN Probe(s, "css")
        ELSE answer' = probes[s] /\ UNCHANGED <<assets, order, probeFailures, errors, stack>>
  /\ UNCHANGED <<guide, assetAt, styleVars, imageFailures, unserved, refsOf, losses, asked, usesLeft>>

Tried ==
  /\ assetAt = "prepare" /\ Ended
  /\ LET s == pageUse.file
         fit == answer = "ok" /\ Is(s, "complete")
     IN \/ /\ pageUse.op = "candidate" /\ UNCHANGED <<probes, groups>>
           /\ tableCandidates' = IF fit THEN tableCandidates \cup {s} ELSE tableCandidates
        \/ /\ pageUse.op = "same" /\ UNCHANGED tableCandidates /\ probes' = [probes EXCEPT ![s] = answer]
           /\ groups' = [groups EXCEPT ![pageUse.page] =
                [ok |-> @.ok \cup {x \in {s} : fit}, gone |-> @.gone \cup {x \in {s} : answer = "gone"},
                 valid |-> @.valid /\ (fit \/ answer = "gone")]]
  /\ todo' = Tail(todo) /\ answer' = "none" /\ pageUse' = NoUse
  /\ UNCHANGED <<guide, assetAt, assets, order, probeFailures, errors, stack, resolution, tableResolution, omitted,
                 imageFailures, unserved, refsOf, losses, asked, usesLeft>>

\* One of the same-named stylesheets of a page is served and the others are gone.
Recovers(p) == groups[p].valid /\ Cardinality(groups[p].ok) = 1 /\ groups[p].gone # {}
Standing(p) == CHOOSE s \in groups[p].ok : TRUE

StartEmit ==
  /\ assetAt = "prepare" /\ Idle /\ todo = <<>> /\ assetAt' = "emit"
  /\ resolution' = [s \in Sheets |->
       LET by == {p \in 1 .. 2 : Recovers(p) /\ s \in groups[p].gone}
       IN IF by = {} THEN "none" ELSE Standing(CHOOSE p \in by : \A q \in by : q <= p)]
  /\ UNCHANGED <<guide, fileVars, todo, probes, groups, tableCandidates, tableResolution, omitted, pageVars>>

-----------------------------------------------------------------------------
(* Uses.  The pages are written one after the other; what a page refers to *)
(* is any of the guide's uses.                                             *)

Ask(u) ==
  /\ assetAt = "emit" /\ Idle /\ usesLeft > 0 /\ usesLeft' = usesLeft - 1
  /\ asked' = asked \cup {u}
Done == pageUse' = NoUse /\ answer' = "none"
Quiet == UNCHANGED <<assets, order, probeFailures, errors, stack, answer>>
Refer(f, kind) == refsOf' = [refsOf EXCEPT !["page"] = @ \cup {[file |-> f, kind |-> kind]}]
Record(f, op) == losses' = losses \cup {[file |-> f, op |-> op]}

\* local, from a style attribute, an inline stylesheet, a background, an inline
\* vector, a source or a vector shown by an image element.
AskResource(u) ==
  /\ u.op = "resource" /\ Ask(u) /\ Load(u.file, u.kind) /\ pageUse' = u
  /\ UNCHANGED <<guide, assetAt, styleVars, imageFailures, unserved, refsOf, losses>>

\* linkedImage
AskLink(u) ==
  /\ u.op = "link" /\ Ask(u)
  /\ \/ u.file \in unserved /\ Record(u.file, "link") /\ Quiet /\ UNCHANGED pageUse
     \/ /\ u.file \notin unserved /\ Is(u.file, "absent")
        /\ Probe(u.file, "asset") /\ pageUse' = [u EXCEPT !.op = "probed link"] /\ UNCHANGED losses
     \/ /\ u.file \notin unserved /\ ~Is(u.file, "absent")
        /\ Load(u.file, "asset") /\ pageUse' = u /\ UNCHANGED losses
  /\ UNCHANGED <<guide, assetAt, styleVars, imageFailures, unserved, refsOf>>

\* localPageStyle, localOrdinaryPageStyle
AskStyle(u) ==
  LET s == u.file
      recovers == Recovers(u.page) /\ s \in groups[u.page].gone
      stands == Standing(u.page)
      Try(op) == Probe(s, "css") /\ pageUse' = [u EXCEPT !.op = op] /\ UNCHANGED <<resolution, tableResolution, refsOf, losses>>
      Stand(c) == Refer(c, "css") /\ Record(s, "style") /\ Quiet /\ UNCHANGED <<pageUse, resolution, tableResolution>>
      OfTables == s \in guide.tables
      NoMore == UNCHANGED <<pageUse, refsOf, losses, probeFailures, stack, answer>>
  IN /\ u.op = "style" /\ Ask(u)
     /\ \/ /\ recovers /\ resolution[s] = "failed"
           /\ errors' = TRUE /\ NoMore /\ UNCHANGED <<assets, order, resolution, tableResolution>>
        \/ recovers /\ resolution[s] = stands /\ Is(stands, "complete") /\ Stand(stands)
        \/ /\ recovers /\ resolution[s] # "failed" /\ (resolution[s] # stands \/ ~Is(stands, "complete"))
           /\ RecordFailure(s) /\ resolution' = [resolution EXCEPT ![s] = "failed"]
           /\ NoMore /\ UNCHANGED tableResolution
        \/ /\ ~recovers /\ s \in omitted
           /\ Record(s, "style") /\ Quiet /\ UNCHANGED <<pageUse, refsOf, resolution, tableResolution>>
        \/ ~recovers /\ s \notin omitted /\ ~OfTables /\ Try("served style")
        \/ ~recovers /\ s \notin omitted /\ OfTables /\ tableResolution[s] = "none" /\ Try("table style")
        \/ /\ ~recovers /\ s \notin omitted /\ OfTables /\ tableResolution[s] = "failed"
           /\ errors' = TRUE /\ NoMore /\ UNCHANGED <<assets, order, resolution, tableResolution>>
        \/ /\ ~recovers /\ s \notin omitted /\ OfTables /\ tableResolution[s] \in Sheets
           /\ IF Is(tableResolution[s], "complete") THEN Stand(tableResolution[s])
              ELSE /\ RecordFailure(s) /\ tableResolution' = [tableResolution EXCEPT ![s] = "failed"]
                   /\ NoMore /\ UNCHANGED resolution
     /\ UNCHANGED <<guide, assetAt, todo, probes, groups, tableCandidates, omitted, imageFailures, unserved>>

\* The rest of local, linkedImage, servedPageStyle, omitStyle and localPageStyle, when
\* the file has been loaded or tried.
EndUse ==
  /\ assetAt = "emit" /\ Ended /\ pageUse # NoUse
  /\ LET f == pageUse.file
         kind == IF pageUse.op = "resource" THEN pageUse.kind ELSE IF pageUse.op \in {"link", "probed link"} THEN "asset" ELSE "css"
         Kept == UNCHANGED <<assets, order, errors>>
     IN \/ /\ answer = "ok" /\ Refer(f, kind) /\ Kept /\ UNCHANGED <<losses, unserved, omitted, tableResolution>>
        \/ /\ answer = "lost" /\ Record(f, "font") /\ Kept /\ UNCHANGED <<refsOf, unserved, omitted, tableResolution>>
        \/ /\ answer = "gone" /\ pageUse.op = "probed link"
           /\ unserved' = unserved \cup {f} /\ Record(f, "link") /\ Kept /\ UNCHANGED <<refsOf, omitted, tableResolution>>
        \/ /\ answer = "gone" /\ (pageUse.op = "served style" \/ (pageUse.op = "table style" /\ Cardinality(tableCandidates) # 1))
           /\ omitted' = omitted \cup {f} /\ Record(f, "style") /\ Kept /\ UNCHANGED <<refsOf, unserved, tableResolution>>
        \/ /\ answer = "gone" /\ pageUse.op = "table style" /\ Cardinality(tableCandidates) = 1
           /\ LET c == CHOOSE c \in tableCandidates : TRUE
              IN IF Is(c, "complete")
                 THEN Refer(c, "css") /\ Record(f, "style") /\ Kept /\ tableResolution' = [tableResolution EXCEPT ![f] = c]
                 ELSE RecordFailure(f) /\ tableResolution' = [tableResolution EXCEPT ![f] = "failed"] /\ UNCHANGED <<refsOf, losses>>
           /\ UNCHANGED <<unserved, omitted>>
        \/ /\ answer = "fail" \/ (answer = "gone" /\ pageUse.op \in {"resource", "link"})
           /\ IF pageUse.op \in {"resource", "link"} THEN errors' = TRUE /\ UNCHANGED <<assets, order>> ELSE RecordFailure(f)
           /\ tableResolution' = IF pageUse.op = "table style" THEN [tableResolution EXCEPT ![f] = "failed"] ELSE tableResolution
           /\ UNCHANGED <<refsOf, losses, unserved, omitted>>
  /\ Done
  /\ UNCHANGED <<guide, assetAt, probeFailures, stack, todo, probes, groups, tableCandidates, resolution, imageFailures,
                 asked, usesLeft>>

\* rewriteImageSlot: an image, or the sources of a picture in turn.
AskSlot(u) ==
  /\ u.op = "slot" /\ Ask(u) /\ pageUse' = [op |-> "slot", file |-> u.file, others |-> u.others, failed |-> {}]
  /\ UNCHANGED <<guide, assetAt, fileVars, styleVars, imageFailures, unserved, refsOf, losses>>

\* A source has failed: the next is tried, or all of them are recorded as missing.
NextSource(f) ==
  IF pageUse.others = <<>>
  THEN /\ losses' = losses \cup {[file |-> x, op |-> "slot"] : x \in pageUse.failed \cup {f}}
       /\ pageUse' = NoUse
  ELSE pageUse' = [pageUse EXCEPT !.file = Head(pageUse.others), !.others = Tail(@), !.failed = @ \cup {f}] /\ UNCHANGED losses

\* tryRaster, reportMissingRaster
TryRaster ==
  /\ assetAt = "emit" /\ pageUse.op = "slot" /\ stack = <<>> /\ answer = "none"
  /\ LET f == pageUse.file
         Shown == Refer(f, "asset") /\ pageUse' = NoUse /\ UNCHANGED <<imageFailures, losses>>
         Given == pageUse' = NoUse /\ UNCHANGED <<imageFailures, refsOf, losses>>
     IN \/ f \in imageFailures /\ NextSource(f) /\ UNCHANGED <<assets, order, errors, imageFailures, refsOf>>
        \/ /\ f \notin imageFailures /\ Is(f, "unavailable")
           /\ assets' = [assets EXCEPT ![f].status = "failed"] /\ errors' = TRUE /\ Given /\ UNCHANGED order
        \/ f \notin imageFailures /\ Is(f, "complete") /\ Shown /\ UNCHANGED <<assets, order, errors>>
        \/ /\ f \notin imageFailures /\ assets[f].status \notin {"unavailable", "complete"}
           /\ \E outcome \in Outcomes :
                \/ outcome = "ok" /\ ~Full /\ Install(f, "complete") /\ Shown /\ UNCHANGED errors
                \/ outcome = "ok" /\ ~Full /\ Install(f, "failed") /\ errors' = TRUE /\ Given  \* it cannot be stored
                \/ outcome = "ok" /\ Full /\ errors' = TRUE /\ Given /\ UNCHANGED <<assets, order>>
                \/ outcome \in {"refused", "failed"} /\ RecordFailure(f) /\ Given
                \/ /\ outcome \in {"gone", "late", "junk"} /\ imageFailures' = imageFailures \cup {f}
                   /\ IF Is(f, "absent") THEN Install(f, "substituted") ELSE UNCHANGED <<assets, order>>
                   /\ NextSource(f) /\ UNCHANGED <<errors, refsOf>>
  /\ UNCHANGED <<guide, assetAt, probeFailures, stack, answer, styleVars, unserved, asked, usesLeft>>

EndEmit ==
  /\ assetAt = "emit" /\ Idle /\ assetAt' = "done"
  /\ UNCHANGED <<guide, fileVars, styleVars, pageVars>>

-----------------------------------------------------------------------------
Init ==
  /\ guide \in GuidesConsidered /\ assetAt = "prepare"
  /\ assets = [f \in Files |-> Absent] /\ order = <<>> /\ probeFailures = [f \in Files |-> "none"]
  /\ imageFailures = {} /\ unserved = {} /\ omitted = {} /\ tableCandidates = {}
  /\ LET Tasks(sheets, p) == [i \in DOMAIN sheets |-> [file |-> sheets[i], page |-> p]]
         Same(p) == IF Len(guide.same[p]) < 2 THEN <<>> ELSE Tasks(guide.same[p], p)
     IN todo = (IF guide.tables = {} THEN <<>> ELSE Tasks(guide.advertised, 0)) \o Same(1) \o Same(2)
  /\ probes = [s \in Sheets |-> "none"] /\ groups = [p \in 1 .. 2 |-> [ok |-> {}, gone |-> {}, valid |-> TRUE]]
  /\ resolution = [s \in Sheets |-> "none"] /\ tableResolution = [s \in Sheets |-> "none"]
  /\ refsOf = [f \in Files \cup {"page"} |-> {}] /\ losses = {} /\ asked = {} /\ errors = FALSE
  /\ stack = <<>> /\ answer = "none" /\ pageUse = NoUse /\ usesLeft = MaxUses

AssetStep ==
  \/ ResolveNext \/ TakeAnswer \/ FinishFile
  \/ TryCandidate \/ TrySameNamed \/ Tried \/ StartEmit
  \/ \E u \in guide.uses : AskResource(u) \/ AskLink(u) \/ AskStyle(u) \/ AskSlot(u)
  \/ EndUse \/ TryRaster \/ EndEmit
Next == AssetStep \/ (assetAt = "done" /\ UNCHANGED assetVars)

-----------------------------------------------------------------------------
\* records: what is replaced or dropped is not listed.
ListedFiles == SelectSeq(order, LAMBDA f : assets[f].status \notin {"substituted", "unavailable"})
\* HTMLInRoot, the status of the archive
Incomplete == errors \/ \E i \in DOMAIN ListedFiles : ~Is(ListedFiles[i], "complete")
AssetsEnded == assetAt = "done"

\* A file is marked as in work exactly while it is being rewritten, once at a time:
\* files that refer to each other are met again and not entered again (assets.go, load).
TypeOK ==
  /\ guide \in GuidesConsidered /\ assetAt \in {"prepare", "emit", "done"} /\ errors \in BOOLEAN
  /\ answer \in {"none", "ok", "gone", "fail", "lost"} /\ losses \subseteq [file : Files, op : {"font", "link", "style", "slot"}]
  /\ \A f \in Files : assets[f].processing <=> \E i \in DOMAIN stack : stack[i].file = f
  /\ \A i, j \in DOMAIN stack : stack[i].file = stack[j].file => i = j

\* What use u of a page became: a reference, or a loss that is recorded.
Accounted(u) ==
  LET Written(f) == [file |-> f, kind |-> u.kind] \in refsOf["page"]
      Lost(f, op) == [file |-> f, op |-> op] \in losses
      sources == {u.file} \cup ToSet(u.others)
  IN CASE u.op = "slot" -> (\E f \in sources : Written(f)) \/ (\A f \in sources : Lost(f, "slot"))
       [] u.op = "resource" -> Written(u.file) \/ (u.kind = "font" /\ Lost(u.file, "font"))
       [] OTHER -> Written(u.file) \/ Lost(u.file, u.op)

\* Unless the guide is incomplete, every reference that is written, into a page or a
\* file, leads to a file that is stored and listed once, a stylesheet a vector relies
\* on keeps every rule, and what a page refers to is there or recorded as lost:
\* whatever order files that refer to each other were loaded in, and whatever use met
\* a missing file first (assets.go; rewrite.go; table_ and ordinary_style_recovery.go).
ArchiveTruthful ==
  AssetsEnded /\ ~Incomplete =>
    /\ IsInjective(ListedFiles)
    /\ \A file \in {"page"} \cup ToSet(ListedFiles) : \A r \in refsOf[file] :
         Is(r.file, "complete") /\ r.file \in ToSet(ListedFiles) /\ (r.kind = "svgstyle" => assets[r.file].svg)
    /\ \A u \in asked : Accounted(u)
=============================================================================
