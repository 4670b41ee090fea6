------------------------------ MODULE GuidePlan ------------------------------
(***************************************************************************)
(* LoadPlanWithWorkers (internal/source: plan.go, flare.go, static.go,     *)
(* hpe.go, pdf.go): from the front page of a guide to the complete list of *)
(* its topics, or to a verified PDF.                                       *)
(*                                                                         *)
(* What the publisher serves is chosen when it is read: any page may be    *)
(* missing or refused, and data may contradict other data.  Oxygen guides  *)
(* are planned by OxygenPlan.                                              *)
(***************************************************************************)
EXTENDS Naturals, Sequences, SequencesExt, FiniteSets, FiniteSetsExt

CONSTANTS Pages,      \* pages inside the guide, with the two below
          FrontPage,      \* the front page
          ContentsPage,   \* the detailed table of contents it may link
          MaxNodes,   \* bound on the nodes of a TOC (100 000 in the code)
          Chunks      \* most chunks of a TOC

VARIABLES
  kind,       \* the kind of the document
  wish,       \* an original PDF is preferred
  planAt,     \* the step of the planner
  topics,     \* topics in the order found
  contents,   \* targets of the TOC, in its order
  notes,      \* warnings
  shortcut,   \* the detailed TOC: "unlinked", "linked", "read", "skipped"
  modules,    \* TOC modules that the pages read so far link
  toc,        \* the tree of the module: index and chunk of every node
  chunks,     \* chunks of the module, chunks read
  indexed,    \* indexed[i]: page and chunk of an index
  eligible,   \* the front page admits the help system's module
  planCut,    \* the context has ended
  planned     \* "none", "html", "pdf", "oxygen", "failed" or "cancelled"

planVars == <<kind, wish, planAt, topics, contents, notes, shortcut, modules, toc, chunks,
              indexed, eligible, planCut, planned>>

Outside == "outside"   \* a page of another publication
Untargeted == "none"   \* a title without a link
Targets == Pages \cup {Outside, Untargeted}
Indexes == 1 .. MaxNodes

-----------------------------------------------------------------------------
(* Reading and registering.                                                *)

Finish(result) == planned' = result /\ planAt' = "planned"
Then(step) == planAt' = step /\ UNCHANGED planned

\* A read fails, or the context ends it.
Unread == \/ planCut /\ Finish("cancelled")
          \/ Finish("failed")
Readable == ~planCut

Register(known, page) == IF page \in Pages /\ ~Contains(known, page) THEN Append(known, page) ELSE known
RegisterAll(known, pages) == FoldLeft(Register, known, pages)

\* finish: the last check of the context.
Complete(result) == Finish(IF planCut THEN "cancelled" ELSE result)

ReadFront ==
  /\ planAt = "front"
  /\ \/ Unread /\ UNCHANGED eligible
     \/ /\ Readable
        /\ \/ Complete("pdf") /\ UNCHANGED eligible
           \/ /\ kind # "pdf" /\ eligible' \in BOOLEAN
              /\ Then(IF wish THEN "prefer" ELSE "format")
  /\ UNCHANGED <<kind, wish, topics, contents, notes, shortcut, modules, toc, chunks, indexed, planCut>>

\* The preferred PDF: advertised once, served and valid.  Anything else but a
\* cancellation falls back to HTML with a warning.
Prefer ==
  /\ planAt = "prefer"
  /\ \/ Readable /\ Complete("pdf") /\ UNCHANGED notes
     \/ planCut /\ Finish("cancelled") /\ UNCHANGED notes
     \/ notes' = notes \cup {"fallback"} /\ Then("format")
  /\ UNCHANGED <<kind, wish, topics, contents, shortcut, modules, toc, chunks, indexed, eligible, planCut>>

-----------------------------------------------------------------------------
(* Flare.                                                                  *)

\* The front page names its help system: also a static guide may turn out as one.
StartFlare ==
  /\ planAt = "format" /\ kind \in {"flare", "static"}
  /\ kind' = "flare"
  /\ \/ Finish("failed") /\ UNCHANGED <<topics, shortcut, modules>>
     \/ /\ topics' = <<FrontPage>> /\ Then("shortcut")
        /\ shortcut' \in {"unlinked", "linked"}
        /\ modules' \in SUBSET {"own", "other"}
  /\ UNCHANGED <<wish, contents, notes, toc, chunks, indexed, eligible, planCut>>

\* A detailed TOC that the publisher answers with 404 or 410 is passed over if the
\* help system can stand in for it.
ReadShortcut ==
  /\ planAt = "shortcut"
  /\ \/ shortcut = "unlinked" /\ Then("module") /\ UNCHANGED <<topics, shortcut, modules>>
     \/ shortcut = "linked" /\ Unread /\ UNCHANGED <<topics, shortcut, modules>>
     \/ /\ shortcut = "linked" /\ eligible
        /\ shortcut' = "skipped" /\ Then("module") /\ UNCHANGED <<topics, modules>>
     \/ /\ shortcut = "linked" /\ Readable
        /\ shortcut' = "read" /\ topics' = Register(topics, ContentsPage)
        /\ \E more \in SUBSET {"own", "other"} : modules' = modules \cup more
        /\ Then("module")
  /\ UNCHANGED <<kind, wish, contents, notes, toc, chunks, indexed, eligible, planCut>>

\* flareHelpSystemModule stands in for a passed-over shortcut, whose pages may
\* link no other module, and for pages that link none.
NeedsHelpSystem == shortcut = "skipped" \/ modules = {}
Conflict == IF shortcut = "skipped" THEN modules \notin {{}, {"own"}} ELSE Cardinality(modules) > 1
ChooseModule ==
  /\ planAt = "module"
  /\ \/ Conflict /\ Finish("failed")
     \/ NeedsHelpSystem /\ Unread
     \/ ~Conflict /\ (NeedsHelpSystem => eligible /\ Readable) /\ Then("tree")
  /\ modules' = {} /\ eligible' = FALSE   \* not used again
  /\ UNCHANGED <<kind, wish, topics, contents, notes, shortcut, toc, chunks, indexed, planCut>>

ReadTree ==
  /\ planAt = "tree"
  /\ \/ Unread /\ UNCHANGED <<toc, chunks>>
     \/ /\ Readable /\ Then("chunks")
        /\ \E count \in 1 .. Chunks : chunks' = [count |-> count, read |-> 0]
        /\ \E n \in 1 .. MaxNodes : toc' \in [1 .. n -> [index : Indexes, chunk : 0 .. Chunks]]
  /\ UNCHANGED <<kind, wish, topics, contents, notes, shortcut, modules, indexed, eligible, planCut>>

\* A chunk describes indexes; one that an earlier chunk described is refused.
ReadChunk ==
  /\ planAt = "chunks" /\ chunks.read < chunks.count
  /\ chunks' = [chunks EXCEPT !.read = @ + 1]
  /\ \/ Unread /\ UNCHANGED indexed
     \/ Readable /\ \E described \in SUBSET Indexes :
          IF described \cap DOMAIN indexed # {}
          THEN Finish("failed") /\ UNCHANGED indexed
          ELSE /\ UNCHANGED <<planAt, planned>>
               /\ \E page \in [described -> Targets] :
                    indexed' = [i \in DOMAIN indexed \cup described |->
                                  IF i \in described THEN [page |-> page[i], chunk |-> chunks.read + 1]
                                  ELSE indexed[i]]
  /\ UNCHANGED <<kind, wish, topics, contents, notes, shortcut, modules, toc, eligible, planCut>>

\* The walk refuses a node whose index is missing or in another chunk than the
\* node says; all that the chunks describe must be in the tree.
Resolves(node) == node.index \in DOMAIN indexed
                  /\ node.chunk \in {0, indexed[node.index].chunk}
Used == {toc[n].index : n \in DOMAIN toc}
AllUsed == Used = DOMAIN indexed
Targeted == [n \in DOMAIN toc |-> indexed[toc[n].index].page]
ShortcutIsNoTopic == shortcut = "skipped" => \A i \in DOMAIN indexed : indexed[i].page # ContentsPage

WalkFlare ==
  /\ planAt = "chunks" /\ chunks.read = chunks.count
  /\ \/ planCut /\ Finish("cancelled") /\ UNCHANGED <<topics, contents, notes>>
     \/ /\ \/ \E n \in DOMAIN toc : ~Resolves(toc[n])
           \/ (\A n \in DOMAIN toc : Resolves(toc[n])) /\ ~AllUsed
           \/ /\ \A n \in DOMAIN toc : Resolves(toc[n])
              /\ ToSet(Targeted) \cap Pages = {}
           \/ ~ShortcutIsNoTopic
        /\ Finish("failed") /\ UNCHANGED <<topics, contents, notes>>
     \/ /\ \A n \in DOMAIN toc : Resolves(toc[n])
        /\ AllUsed /\ ToSet(Targeted) \cap Pages # {} /\ ShortcutIsNoTopic
        /\ topics' = RegisterAll(topics, Targeted)
        /\ contents' = Targeted
        /\ notes' = IF shortcut = "skipped" THEN notes \cup {"shortcut"} ELSE notes
        /\ Complete("html")
  /\ UNCHANGED <<kind, wish, shortcut, modules, toc, chunks, indexed, eligible, planCut>>

-----------------------------------------------------------------------------
(* Static guides and HPE documents: the TOC is one page.                   *)

\* A static front page may carry Oxygen tiles, or no TOC that can be read.
StartStatic ==
  /\ planAt = "format" /\ kind = "static"
  /\ \/ Finish("oxygen") /\ UNCHANGED <<topics, shortcut>>
     \/ Finish("failed") /\ UNCHANGED <<topics, shortcut>>
     \/ topics' = <<FrontPage>> /\ shortcut' \in {"unlinked", "linked"} /\ Then("list")
  /\ UNCHANGED <<kind, wish, contents, notes, modules, toc, chunks, indexed, eligible, planCut>>

\* HPE: without its main part the front page may advertise a PDF.
StartHPE ==
  /\ planAt = "format" /\ kind = "hpe"
  /\ \/ Unread /\ UNCHANGED topics
     \/ Readable /\ Complete("pdf") /\ UNCHANGED topics
     \/ Readable /\ topics' = <<FrontPage>> /\ Then("list")
  /\ UNCHANGED <<kind, wish, contents, notes, shortcut, modules, toc, chunks, indexed, eligible, planCut>>

ReadList ==
  /\ planAt = "list"
  /\ \/ Unread /\ UNCHANGED <<topics, contents, shortcut>>
     \/ /\ Readable
        /\ shortcut' = IF shortcut = "linked" THEN "read" ELSE shortcut
        /\ LET fronts == IF shortcut = "linked" THEN <<FrontPage, ContentsPage>> ELSE <<FrontPage>>
               linkable == IF kind = "hpe" THEN Targets \ {Outside} ELSE Targets
           IN \E n \in 0 .. MaxNodes : \E list \in [1 .. n -> linkable] :
                /\ contents' = list
                /\ topics' = RegisterAll(fronts, list)
                /\ IF Len(topics') <= Len(fronts) THEN Finish("failed") ELSE Complete("html")
  /\ UNCHANGED <<kind, wish, notes, modules, toc, chunks, indexed, eligible, planCut>>

-----------------------------------------------------------------------------
CutPlan == /\ ~planCut /\ planAt # "planned" /\ planCut' = TRUE
           /\ UNCHANGED <<kind, wish, planAt, topics, contents, notes, shortcut, modules, toc, chunks,
                          indexed, eligible, planned>>

PlanStep == \/ ReadFront \/ Prefer \/ StartFlare \/ ReadShortcut \/ ChooseModule \/ ReadTree
            \/ ReadChunk \/ WalkFlare \/ StartStatic \/ StartHPE \/ ReadList

Init ==
  /\ kind \in {"pdf", "flare", "static", "hpe"} /\ wish \in BOOLEAN
  /\ planAt = "front" /\ topics = <<>> /\ contents = <<>> /\ notes = {}
  /\ shortcut = "unlinked" /\ modules = {} /\ toc = <<>> /\ chunks = [count |-> 0, read |-> 0]
  /\ indexed = [i \in {} |-> FrontPage] /\ eligible = FALSE /\ planCut = FALSE /\ planned = "none"

Next == PlanStep \/ CutPlan

-----------------------------------------------------------------------------
TypeOK ==
  /\ topics \in Seq(Pages) /\ contents \in Seq(Targets)
  /\ notes \subseteq {"fallback", "shortcut"}
  /\ shortcut \in {"unlinked", "linked", "read", "skipped"}
  /\ planned \in {"none", "html", "pdf", "oxygen", "failed", "cancelled"}

\* A plan names every page of the guide that any of the publisher's data lists,
\* once, after the pages it started from; a page that was passed over is not one
\* of them, and says so in a warning, like a PDF that was wished for in vain.
PlanComplete ==
  planned = "html" =>
    /\ ToSet(topics) = {FrontPage} \cup (IF shortcut = "read" THEN {ContentsPage} ELSE {})
                       \cup (ToSet(contents) \cap Pages)
    /\ IsInjective(topics)
    /\ \A i \in DOMAIN indexed : Contains(contents, indexed[i].page)
    /\ shortcut = "skipped" => ~Contains(topics, ContentsPage) /\ "shortcut" \in notes
    /\ wish => "fallback" \in notes

\* Where planning comes to rest, with a plan or a reason.
PlanEnded == planAt = "planned"
=============================================================================
