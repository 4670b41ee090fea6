------------------------------ MODULE Planning ------------------------------
(***************************************************************************)
(* The parts that turn a choice into a printed guide: catalogue,           *)
(* pool of readers, plans of the Flare/HPE and Oxygen portals, routes,     *)
(* guided selection, files of an archive and print assembly.  They run one *)
(* after the other in one process and share no state, so each behaviour    *)
(* takes one of them, from any of its initial states, and leaves the       *)
(* variables of the others at zero.                                        *)
(***************************************************************************)
EXTENDS Naturals, FiniteSets

CONSTANTS Parts,  \* the parts considered
          Pair, Inputs, GuideIds, MaxResources,
          Pages, FrontPage, ContentsPage, MaxNodes, Chunks,
          GuidePages, NavFiles, MaxItems, MaxEntries, MaxMatter,
          Switches, Platform, AbsoluteTargets, MappingsConsidered, Releases, Stems, MaxScans,
          Places, Versions, Guides, PDFs, Resolved, FaultyPlaces, CommandLines,
          Home, TitlePage, Elsewhere, ContentsTables, AcceptedArchives, ReferencesOfAPage,
          Sheets, Vectors, Images, Fonts, ArchivedGuides, MaxAssets, MaxUses

ASSUME PlanningAssumption ==
  /\ {Inputs, MaxResources, MaxNodes, MaxScans, MaxEntries, MaxAssets, MaxUses} \subseteq Nat
  /\ {Chunks, MaxItems, MaxMatter} \subseteq Nat \ {0}
  /\ Pair # {} /\ IsFiniteSet(Pair)
  /\ {FrontPage, ContentsPage} \subseteq Pages /\ Releases \subseteq Nat /\ Platform \in Switches

VARIABLES component,
  resources, stage, entries, offered, loading, finished, reports, loadEnded, catalog,
  optional, fed, feeding, reading, jobResult, poolEnded, planEnded, readOutcome, recorded,
  kind, wish, planAt, topics, contents, notes, shortcut, modules, toc, chunks, indexed, eligible, planCut, planned,
  oxyAt, tiles, serves, outline, visited, before, after, following, oxyTopics, oxyCut, oxyResult,
  mapping, book, release, override, mapped, scanAt, scansLeft, wanted, status, pdfStatus, candidates, tried,
  replacement, goneNow, fresh, scanCut,
  given, platform, version, mode, all, guides, draft, destination, prefer, convert, refresh, skipped, snapshot,
  sources, publisher, replaced, current, history, held, selAt, selected,
  printTOC, archive, normal, printAt, printContents, included, sections, references, printOutline, labels,
  guide, assetAt, assets, order, probeFailures, imageFailures, unserved, omitted, todo, probes, groups,
  tableCandidates, resolution, tableResolution, refsOf, losses, asked, errors, stack, answer, pageUse, usesLeft

catalogVars == <<resources, stage, entries, offered, loading, finished, reports, loadEnded, catalog>>
readVars == <<optional, fed, feeding, reading, jobResult, poolEnded, planEnded, readOutcome, recorded>>
planVars == <<kind, wish, planAt, topics, contents, notes, shortcut, modules, toc, chunks, indexed, eligible,
              planCut, planned>>
oxyVars == <<oxyAt, tiles, serves, outline, visited, before, after, following, oxyTopics, oxyCut, oxyResult>>
routeVars == <<mapping, book, release, override, mapped, scanAt, scansLeft, wanted, status, pdfStatus,
               candidates, tried, replacement, goneNow, fresh, scanCut>>
selVars == <<given, platform, version, mode, all, guides, draft, destination, prefer, convert, refresh,
             skipped, snapshot, sources, publisher, replaced, current, history, held, selAt, selected>>
printVars == <<printTOC, archive, normal, printAt, printContents, included, sections, references, printOutline,
               labels>>
fileVars == <<guide, assetAt, assets, order, probeFailures, imageFailures, unserved, omitted, todo, probes, groups,
              tableCandidates, resolution, tableResolution, refsOf, losses, asked, errors, stack, answer, pageUse,
              usesLeft>>
sumVars == <<component, catalogVars, readVars, planVars, oxyVars, routeVars, selVars, printVars, fileVars>>

-----------------------------------------------------------------------------
Catalog == INSTANCE CatalogReaders WITH Loaders <- Pair
Reads == INSTANCE InputReaders WITH Readers <- Pair
Plan == INSTANCE GuidePlan
Oxygen == INSTANCE OxygenPlan
Route == INSTANCE Routes WITH Platforms <- Switches, Absolute <- DOMAIN AbsoluteTargets,
           AbsoluteKind <- AbsoluteTargets, Mappings <- MappingsConsidered
Choice == INSTANCE Selection WITH Platforms <- Places, Documents <- Resolved, Faulty <- FaultyPlaces, Starts <- CommandLines

\* Command lines are accepted ones, and the catalogue resolves guides for every place.
ASSUME ChoiceAssumption ==
  /\ \A line \in CommandLines : Choice!CommandLine(line)
  /\ Resolved \in [Places \X Versions -> SUBSET Guides]

Printing == INSTANCE PrintAssembly WITH toc <- printTOC, contents <- printContents, outline <- printOutline,
           Tables <- ContentsTables, Archives <- AcceptedArchives, Links <- ReferencesOfAPage
Files == INSTANCE Assets WITH GuidesConsidered <- ArchivedGuides

\* What the parts that are not taken hold.
NoCatalog ==
  /\ resources = 0 /\ stage = 0 /\ entries = 0 /\ offered = 0 /\ loading = 0 /\ finished = 0 /\ reports = 0
  /\ loadEnded = 0 /\ catalog = 0
NoReads ==
  /\ optional = 0 /\ fed = 0 /\ feeding = 0 /\ reading = 0 /\ jobResult = 0 /\ poolEnded = 0 /\ planEnded = 0
  /\ readOutcome = 0 /\ recorded = 0
NoPlan ==
  /\ kind = 0 /\ wish = 0 /\ planAt = 0 /\ topics = 0 /\ contents = 0 /\ notes = 0 /\ shortcut = 0
  /\ modules = 0 /\ toc = 0 /\ chunks = 0 /\ indexed = 0 /\ eligible = 0 /\ planCut = 0 /\ planned = 0
NoOxygen ==
  /\ oxyAt = 0 /\ tiles = 0 /\ serves = 0 /\ outline = 0 /\ visited = 0 /\ before = 0 /\ after = 0
  /\ following = 0 /\ oxyTopics = 0 /\ oxyCut = 0 /\ oxyResult = 0
NoRoute ==
  /\ mapping = 0 /\ book = 0 /\ release = 0 /\ override = 0 /\ mapped = 0 /\ scanAt = 0 /\ scansLeft = 0
  /\ wanted = 0 /\ status = 0 /\ pdfStatus = 0 /\ candidates = 0 /\ tried = 0 /\ replacement = 0 /\ goneNow = 0
  /\ fresh = 0 /\ scanCut = 0
NoChoice ==
  /\ given = 0 /\ platform = 0 /\ version = 0 /\ mode = 0 /\ all = 0 /\ guides = 0 /\ draft = 0
  /\ destination = 0 /\ prefer = 0 /\ convert = 0 /\ refresh = 0 /\ skipped = 0 /\ snapshot = 0 /\ sources = 0
  /\ publisher = 0 /\ replaced = 0 /\ current = 0 /\ history = 0 /\ held = 0 /\ selAt = 0
  /\ selected = 0
NoPrinting ==
  /\ printTOC = 0 /\ archive = 0 /\ normal = 0 /\ printAt = 0 /\ printContents = 0 /\ included = 0
  /\ sections = 0 /\ references = 0 /\ printOutline = 0 /\ labels = 0
NoFiles ==
  /\ guide = 0 /\ assetAt = 0 /\ assets = 0 /\ order = 0 /\ probeFailures = 0 /\ imageFailures = 0
  /\ unserved = 0 /\ omitted = 0 /\ todo = 0 /\ probes = 0 /\ groups = 0 /\ tableCandidates = 0
  /\ resolution = 0 /\ tableResolution = 0 /\ refsOf = 0 /\ losses = 0 /\ asked = 0 /\ errors = 0
  /\ stack = 0 /\ answer = 0 /\ pageUse = 0 /\ usesLeft = 0

Init ==
  /\ component \in Parts
  /\ IF component = "catalog" THEN Catalog!Init ELSE NoCatalog
  /\ IF component = "reads" THEN Reads!Init ELSE NoReads
  /\ IF component = "plan" THEN Plan!Init ELSE NoPlan
  /\ IF component = "oxygen" THEN Oxygen!Init ELSE NoOxygen
  /\ IF component = "route" THEN Route!Init ELSE NoRoute
  /\ IF component = "choice" THEN Choice!Init ELSE NoChoice
  /\ IF component = "print" THEN Printing!Init ELSE NoPrinting
  /\ IF component = "files" THEN Files!Init ELSE NoFiles

\* Nothing but the variables of the part taken changes.
Within(part) ==
  /\ component = part /\ UNCHANGED component
  /\ IF part = "catalog" THEN TRUE ELSE UNCHANGED catalogVars
  /\ IF part = "reads" THEN TRUE ELSE UNCHANGED readVars
  /\ IF part = "plan" THEN TRUE ELSE UNCHANGED planVars
  /\ IF part = "oxygen" THEN TRUE ELSE UNCHANGED oxyVars
  /\ IF part = "route" THEN TRUE ELSE UNCHANGED routeVars
  /\ IF part = "choice" THEN TRUE ELSE UNCHANGED selVars
  /\ IF part = "print" THEN TRUE ELSE UNCHANGED printVars
  /\ IF part = "files" THEN TRUE ELSE UNCHANGED fileVars

Next ==
  \/ Within("catalog") /\ Catalog!Next
  \/ Within("reads") /\ Reads!Next
  \/ Within("plan") /\ Plan!Next
  \/ Within("oxygen") /\ Oxygen!Next
  \/ Within("route") /\ Route!Next
  \/ Within("choice") /\ Choice!Next
  \/ Within("print") /\ Printing!Next
  \/ Within("files") /\ Files!Next

\* Goroutines are scheduled and reads end; a plan and an archive go on.
Fairness ==
  /\ WF_catalogVars(component = "catalog" /\ Catalog!LoadStep)
  /\ WF_readVars(component = "reads" /\ Reads!StopFeeding)
  /\ WF_readVars(component = "reads" /\ Reads!ReturnInputs)
  /\ \A g \in Pair :
       /\ WF_catalogVars(component = "catalog" /\ Catalog!LoaderStep(g))
       /\ WF_readVars(component = "reads" /\ (Reads!Feed(g) \/ Reads!Answer(g) \/ Reads!LeavePool(g)))
  /\ WF_planVars(component = "plan" /\ Plan!PlanStep)
  /\ WF_oxyVars(component = "oxygen" /\ Oxygen!OxygenStep)
  /\ WF_fileVars(component = "files" /\ Files!AssetStep)
FairSpec == Init /\ [][Next]_sumVars /\ Fairness

-----------------------------------------------------------------------------
\* A catalog that is returned has every guide of the publisher's configuration
\* once, in its order, with its mapping or an error that warns, however the
\* goroutines of the pool overtake each other (source/catalog.go).
CatalogComplete == component = "catalog" => Catalog!TypeOK /\ Catalog!CatalogComplete

\* Inputs read side by side succeed only together, are recorded in the order of
\* the jobs, and a failure is reported as itself, never as the cancellation it
\* causes in the others (source/planning.go, readAll).
ReadsTruthful == component = "reads" => Reads!TypeOK /\ Reads!ReadsTruthful

\* A plan has every page of the guide that any of the publisher's data names, once,
\* and a page passed over or a PDF wished for in vain leaves a warning (source/flare.go,
\* hpe.go, static.go, preference.go).  A plan of the Oxygen portal has every page of
\* its TOC and around them pages the TOC does not list, none twice, whatever cycles
\* data files and links have (source/oxygen.go).
PlansComplete ==
  /\ component = "plan" => Plan!TypeOK /\ Plan!PlanComplete
  /\ component = "oxygen" => Oxygen!TypeOK /\ Oxygen!OxygenComplete

\* A guide is replaced only when its own document is known to be gone, and only
\* by one the publisher's data name for it (source/availability.go, peer.go).
ReplacementsEarned == component = "route" => Route!TypeOK /\ Route!ReplacementsEarned

\* However the user wanders back and forth through the questions, the choice
\* stands for the place finally chosen and for the command line (cli/selection.go).
ChoiceStands == component = "choice" => Choice!TypeOK /\ Choice!ChoiceStands

\* README.md:889, "Guides unavailable at their resolved mapped routes are reported":
\* of the guides of a place each is downloaded or reported as skipped.
AllReported == component = "choice" => Choice!AllReported

\* What is printed is the whole archive, every local link leads into it, and the
\* bookmarks agree with the contents page (publication/publication.go, outline.go).
PrintIsWhole == component = "print" => Printing!TypeOK /\ Printing!PrintIsWhole

\* Unless a guide is incomplete, whatever its pages and files refer to is stored and
\* listed once, or recorded as lost, in whatever order files that refer to each other
\* were met and whatever use met a missing file first (archive/assets.go, rewrite.go).
ArchiveTruthful == component = "files" => Files!TypeOK /\ Files!ArchiveTruthful

\* Planning comes to rest: pools drain, whatever fails or is cancelled in them, and
\* plans and archives end although data files, links and stylesheets form cycles.
PlanningSettles == []<>(
  CASE component = "catalog" -> Catalog!CatalogReturned
    [] component = "reads" -> Reads!ReadsReturned
    [] component = "plan" -> Plan!PlanEnded
    [] component = "oxygen" -> Oxygen!OxygenEnded
    [] component = "files" -> Files!AssetsEnded
    [] OTHER -> TRUE)
=============================================================================
