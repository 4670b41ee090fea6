----------------------------- MODULE OxygenPlan -----------------------------
(***************************************************************************)
(* The plan of an Oxygen WebHelp guide (internal/source/oxygen.go): the    *)
(* TOC is read level by level from data files that name each other, checked*)
(* against what the pages render, and extended by the pages that its first *)
(* and last page link.  The files and links are the publisher's: they may  *)
(* form cycles, repeat each other or be missing.                           *)
(***************************************************************************)
EXTENDS Naturals, Sequences, SequencesExt, FiniteSets

CONSTANTS GuidePages,  \* pages of the guide
          NavFiles,    \* data files of the TOC
          MaxItems,    \* bound on the entries of one list
          MaxEntries,  \* entries of the TOC (100 000 in the code)
          MaxMatter    \* pages followed outside the TOC (50 in the code)

VARIABLES
  oxyAt,      \* the step of the planner
  tiles,      \* tile pages not tried yet
  serves,     \* serves[p]: a page was read, is missing, or is not known
  outline,    \* the TOC in reading order: page, and data file not read yet
  visited,    \* data files read
  before,     \* pages in front of the TOC, nearest first
  after,      \* pages behind the TOC
  following,  \* the page whose links are followed
  oxyTopics,  \* the topics of the plan
  oxyCut,     \* the context has ended
  oxyResult   \* "none", "planned", "failed" or "cancelled"

oxyVars == <<oxyAt, tiles, serves, outline, visited, before, after, following, oxyTopics, oxyCut, oxyResult>>

OutsideGuide == "elsewhere"  \* outside the guide, or a title without a link
Nowhere == "nowhere"
NoFile == "leaf"
Item == [page : GuidePages \cup {OutsideGuide}, file : NavFiles \cup {NoFile}]
Lists == UNION {[1 .. n -> Item] : n \in 1 .. MaxItems}

OxyFinish(result) == oxyResult' = result /\ oxyAt' = "done"
OxyThen(step) == oxyAt' = step /\ UNCHANGED oxyResult
OxyUnread == OxyFinish("failed") \/ (oxyCut /\ OxyFinish("cancelled"))

\* The first tile page that is served holds the top level of the TOC.
ReadTile ==
  /\ oxyAt = "tiles"
  /\ \/ tiles = 0 /\ OxyFinish("failed") /\ UNCHANGED <<tiles, outline>>
     \/ tiles > 0 /\ OxyUnread /\ UNCHANGED <<tiles, outline>>
     \/ tiles > 0 /\ tiles' = tiles - 1 /\ UNCHANGED <<oxyAt, oxyResult, outline>>
     \/ tiles > 0 /\ ~oxyCut /\ outline' \in Lists /\ OxyThen("expand") /\ UNCHANGED tiles
  /\ UNCHANGED <<serves, visited, before, after, following, oxyTopics, oxyCut>>

Branches == {i \in DOMAIN outline : outline[i].file # NoFile}
LevelFiles == {outline[i].file : i \in Branches}
\* navLinksURL: a data file that a branch names again is refused.
Repeated == LevelFiles \cap visited # {} \/ Cardinality(LevelFiles) < Cardinality(Branches)
BranchPages == {outline[i].page : i \in Branches} \cap GuidePages

\* entries and verify: what a branch lists.  A page that renders its branch lists
\* the same entries as the data file, or the plan fails; the links are then the page's.
BranchLists == Lists \cup {<<>>}

\* The children follow their branch in reading order.
Expanded(children) ==
  FoldLeft(LAMBDA list, i : Append(list, [outline[i] EXCEPT !.file = NoFile])
                            \o (IF i \in Branches THEN children[i] ELSE <<>>),
           <<>>, [i \in DOMAIN outline |-> i])

\* expand: one level of data files and the branches' pages are read together; a
\* page that is missing leaves its branch with the data.
Expand ==
  /\ oxyAt = "expand" /\ Branches # {}
  /\ \/ Repeated /\ OxyFinish("failed") /\ UNCHANGED <<outline, visited, serves>>
     \/ OxyUnread /\ UNCHANGED <<outline, visited, serves>>
     \/ /\ ~Repeated /\ ~oxyCut
        /\ \E missing \in SUBSET {p \in BranchPages : serves[p] # "served"} :
             serves' = [p \in GuidePages |-> IF p \in missing THEN "missing"
                                             ELSE IF p \in BranchPages THEN "served" ELSE serves[p]]
        /\ visited' = visited \cup LevelFiles
        /\ \E children \in [Branches -> BranchLists] :
             IF Len(Expanded(children)) > MaxEntries
             THEN OxyFinish("failed") /\ UNCHANGED outline
             ELSE outline' = Expanded(children) /\ UNCHANGED <<oxyAt, oxyResult>>
  /\ UNCHANGED <<tiles, before, after, following, oxyTopics, oxyCut>>

Listed == SelectSeq([i \in DOMAIN outline |-> outline[i].page], LAMBDA p : p \in GuidePages)

\* matterAround: the first page's predecessors, then the last page's successors.
\* An end of the TOC that is missing links none.
Around(end, step, next) ==
  \/ serves[end] = "served" /\ following' = end /\ OxyThen(step) /\ UNCHANGED serves
  \/ /\ serves[end] # "served"
     /\ \/ OxyUnread /\ UNCHANGED <<following, serves>>
        \/ OxyThen(next) /\ serves' = [serves EXCEPT ![end] = "missing"] /\ UNCHANGED following
        \/ ~oxyCut /\ following' = end /\ OxyThen(step) /\ serves' = [serves EXCEPT ![end] = "served"]

StartBefore ==
  /\ oxyAt = "expand" /\ Branches = {}
  /\ IF Listed = <<>> THEN OxyFinish("failed") /\ UNCHANGED <<following, serves>>
     ELSE Around(Listed[1], "before", "ends")
  /\ UNCHANGED <<tiles, outline, visited, before, after, oxyTopics, oxyCut>>

StartAfter ==
  /\ oxyAt = "ends"
  /\ Around(Listed[Len(Listed)], "after", "register")
  /\ UNCHANGED <<tiles, outline, visited, before, after, oxyTopics, oxyCut>>

\* matter: links are followed until they leave the guide or meet a page that the
\* TOC or the chain holds.
KnownInTOC(found) == ToSet(Listed)
Known(found) == ToSet(Listed) \cup ToSet(found)
Follow(found, target) ==
  \/ OxyUnread /\ UNCHANGED <<following, serves>>
  \/ /\ Len(found) < MaxMatter /\ (serves[target] = "served" \/ ~oxyCut)
     /\ following' = target /\ serves' = [serves EXCEPT ![target] = "served"]
     /\ UNCHANGED <<oxyAt, oxyResult>>
\* A chain as long as the limit is refused, wherever it would lead.
EndOfChain(found, next) ==
  /\ IF Len(found) = MaxMatter THEN OxyFinish("failed") ELSE OxyThen(next)
  /\ UNCHANGED <<following, serves>>

FollowBefore ==
  /\ oxyAt = "before"
  /\ \/ \E target \in GuidePages \ Known(before) :
          Follow(before, target) /\ before' = IF following' = target THEN Append(before, target) ELSE before
     \/ EndOfChain(before, "ends") /\ UNCHANGED before
  /\ UNCHANGED <<tiles, outline, visited, after, oxyTopics, oxyCut>>

FollowAfter ==
  /\ oxyAt = "after"
  /\ \/ \E target \in GuidePages \ Known(after) :
          Follow(after, target) /\ after' = IF following' = target THEN Append(after, target) ELSE after
     \/ EndOfChain(after, "register") /\ UNCHANGED after
  /\ UNCHANGED <<tiles, outline, visited, before, oxyTopics, oxyCut>>

\* Topics are registered in reading order, each once.
ReadingOrder == Reverse(before) \o Listed \o after
RegisterOxygen ==
  /\ oxyAt = "register"
  /\ oxyTopics' = FoldLeft(LAMBDA known, p : IF Contains(known, p) THEN known ELSE Append(known, p),
                           <<>>, ReadingOrder)
  /\ OxyFinish(IF oxyCut THEN "cancelled" ELSE "planned")
  /\ UNCHANGED <<tiles, serves, outline, visited, before, after, following, oxyCut>>

CutOxygen == /\ ~oxyCut /\ oxyAt # "done" /\ oxyCut' = TRUE
             /\ UNCHANGED <<oxyAt, tiles, serves, outline, visited, before, after, following, oxyTopics, oxyResult>>

OxygenStep == \/ ReadTile \/ Expand \/ StartBefore \/ FollowBefore \/ StartAfter \/ FollowAfter
              \/ RegisterOxygen

Init ==
  /\ oxyAt = "tiles" /\ tiles \in 1 .. 2 /\ serves = [p \in GuidePages |-> "unknown"]
  /\ outline = <<>> /\ visited = {} /\ before = <<>> /\ after = <<>> /\ following = Nowhere
  /\ oxyTopics = <<>> /\ oxyCut = FALSE /\ oxyResult = "none"

Next == OxygenStep \/ CutOxygen

-----------------------------------------------------------------------------
TypeOK ==
  /\ serves \in [GuidePages -> {"unknown", "served", "missing"}]
  /\ outline \in Seq(Item) /\ visited \subseteq NavFiles
  /\ Len(before) <= MaxMatter /\ Len(after) <= MaxMatter
  /\ oxyResult \in {"none", "planned", "failed", "cancelled"}

\* A plan has every page of the TOC, and around it pages that the TOC does not
\* list, none twice on a side; no branch is left unread, and no data file was
\* read for two branches, whatever cycles the publisher's data has.
OxygenComplete ==
  oxyResult = "planned" =>
    /\ Branches = {} /\ Listed # <<>>
    /\ ToSet(oxyTopics) = ToSet(before) \cup ToSet(Listed) \cup ToSet(after)
    /\ IsInjective(oxyTopics) /\ IsInjective(before) /\ IsInjective(after)
    /\ (ToSet(before) \cup ToSet(after)) \cap ToSet(Listed) = {}
    /\ \A p \in ToSet(before) \cup ToSet(after) : serves[p] = "served"

\* Where planning comes to rest, also when data files and links form cycles.
OxygenEnded == oxyAt = "done"
=============================================================================
