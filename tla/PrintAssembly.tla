--------------------------- MODULE PrintAssembly ---------------------------
(***************************************************************************)
(* The print document of a guide: one HTML page assembled from a verified  *)
(* archive, with the contents page, the plan of the PDF's bookmarks and    *)
(* the labels of its footers.  The three are built from one publisher TOC  *)
(* by different walks, after the publisher's navigation wrappers ("Home",  *)
(* the guide's title, "Table of Contents") gave way to what they hold.     *)
(*                                                                         *)
(* A TOC is a sequence of entries in reading order, each with its depth.   *)
(* An entry is its position in it, and so is its title.                    *)
(***************************************************************************)
EXTENDS Integers, Sequences, FiniteSets, SequencesExt, FiniteSetsExt

CONSTANTS
  Tables,      \* the TOCs: sequences of [depth, title, url, fragment]
  Home,        \* the guide's own URL
  TitlePage,   \* the URL of a Flare title page
  Elsewhere,   \* URLs on other hosts
  Archives,    \* [kind, pages, planned, unpublished]; a page is [url, final, extra]
  Links        \* what a page may refer to: [use, to, page, url, fragment]

NoURL == "none"
NoPage == 0
Lead(to, page, url) == [to |-> to, page |-> page, url |-> url]
NoContents == [entries |-> <<>>, more |-> {}]
NoTarget == Lead("nothing", NoPage, NoURL)
Anchor(p) == Lead("anchor", p, NoURL)
Bookmark(p) == Lead("bookmark", p, NoURL)
Online(url) == Lead("online", NoPage, url)
File(kind) == Lead("file", NoPage, kind)

VARIABLES
  toc,        \* the plan's TOC
  archive,    \* the accepted archive, one of Archives
  normal,      \* the TOC's entries once the wrappers gave way
  printAt,    \* where Assemble is
  contents,   \* the contents page: entries, then additional pages
  included,   \* pages the TOC walks have met
  sections,   \* pages printed, in order
  references, \* [page, link, target] of the links written so far
  outline,    \* the outline plan
  labels      \* the footer label of every page

printVars == <<toc, archive, normal, printAt, contents, included, sections, references, outline, labels>>

-----------------------------------------------------------------------------
(* The tree.                                                               *)

Entries == DOMAIN toc
Inside(i) == {j \in Entries : j > i /\ \A k \in (i + 1)..j : toc[k].depth > toc[i].depth}
InOrder(set) == IF set = {} THEN <<>> ELSE SelectSeq([k \in 1..Max(set) |-> k], LAMBDA k : k \in set)
Kids(i) == InOrder({j \in Inside(i) : toc[j].depth = toc[i].depth + 1})
Roots == InOrder({i \in Entries : toc[i].depth = 1})
Leaf(i) == Inside(i) = {}
\* Both walks are in reading order.
Walked(tops) == InOrder(ToSet(tops) \cup UNION {Inside(i) : i \in ToSet(tops)})

ArchivedPages == DOMAIN archive.pages
Claims(p) == {archive.pages[p].url, archive.pages[p].final}
FirstClaim(url) ==
  LET owners == {p \in ArchivedPages : url \in Claims(p)} IN IF owners = {} THEN NoPage ELSE Min(owners)
\* A URL that two pages claim stands for neither.
TopicFor(url) ==
  LET owners == {p \in ArchivedPages : url \in Claims(p)} IN
  IF Cardinality(owners) = 1 THEN CHOOSE p \in owners : TRUE ELSE NoPage
Named(i) == TopicFor(toc[i].url)
IsPlanned(url) == url \in archive.planned

-----------------------------------------------------------------------------
(* The publisher's wrappers.                                               *)

ContentsLeaf(i) == Leaf(i) /\ toc[i].title = "contents" /\ IsPlanned(toc[i].url)
DocumentLeaf(i) == Leaf(i) /\ toc[i].title = "guide" /\ toc[i].url = Home
\* The guide's title alone, or behind the product, platform or release.
GuideTitled(i) == toc[i].title \in {"guide", "longGuide"}
SourceTitle(i) ==
  /\ toc[i].title # "contents" /\ toc[i].url # NoURL
  /\ Cardinality({r \in ToSet(Roots) : ContentsLeaf(r) /\ toc[r].url = toc[i].url}) = 1
Wrapper(i) ==
  LET e == toc[i]
      holdsPage == e.url = NoURL \/ IsPlanned(e.url)
  IN IF Leaf(i) THEN "none"
     ELSE IF e.title = "home" /\ e.url = Home THEN "home"
     ELSE IF e.title = "contents" /\ holdsPage THEN "contents"
     ELSE IF GuideTitled(i) /\ (holdsPage \/ e.url = Home) THEN "guide"
     ELSE IF SourceTitle(i) THEN "source" ELSE "none"
IsWrapper(i) == Wrapper(i) # "none"
OnOtherHost(i) == ~IsWrapper(i) /\ toc[i].url \in Elsewhere \ archive.planned
TitleLeaf(i) == archive.kind = "flare" /\ Leaf(i) /\ toc[i].title = "title" /\ toc[i].url = TitlePage /\ IsPlanned(TitlePage)

Refused == [ok |-> FALSE, roots |-> <<>>, kinds |-> {}]
Found(tops, kinds) == [ok |-> TRUE, roots |-> tops, kinds |-> kinds]
\* A chain of wrappers, each the only child of the one before it.
Unwrapped[i \in Nat] ==
  IF ~IsWrapper(i) THEN Found(<<i>>, {})
  ELSE IF Len(Kids(i)) # 1 THEN Found(Kids(i), {Wrapper(i)})
  ELSE LET deeper == Unwrapped[Kids(i)[1]] IN
       IF ~deeper.ok \/ Wrapper(i) \in deeper.kinds THEN Refused
       ELSE Found(deeper.roots, deeper.kinds \cup {Wrapper(i)})

Prefix ==
  IF Roots = <<>> \/ ~DocumentLeaf(Roots[1]) THEN 0
  ELSE IF Len(Roots) > 1 /\ ContentsLeaf(Roots[2]) THEN 2 ELSE 1
AfterPrefix(rest) ==
  IF rest = <<>> THEN Refused
  ELSE LET later == Tail(rest)
           titles == SelectSeq(later, TitleLeaf)
       IN IF ~IsWrapper(rest[1])
          THEN IF \E i \in ToSet(later) : IsWrapper(i) THEN Refused ELSE Found(rest, {})
          ELSE IF Len(titles) > 1 \/ \E i \in ToSet(later) : ~OnOtherHost(i) /\ ~TitleLeaf(i) THEN Refused
          ELSE LET chain == Unwrapped[rest[1]] IN
               IF chain.ok THEN Found(chain.roots \o SelectSeq(later, OnOtherHost), chain.kinds) ELSE Refused
Normalized ==
  IF Prefix > 0 THEN AfterPrefix(SubSeq(Roots, Prefix + 1, Len(Roots)))
  ELSE IF Len(Roots) = 1 /\ IsWrapper(Roots[1]) THEN Unwrapped[Roots[1]]
  ELSE IF \E i \in ToSet(Roots) : IsWrapper(i) THEN Refused ELSE Found(Roots, {})

-----------------------------------------------------------------------------
(* Destinations.  A fragment is held by its page, gone at the publisher,   *)
(* or lost between the publisher and the archive.                          *)

Destination(p, fragment) == IF fragment = "held" THEN Bookmark(p) ELSE Anchor(p)
Target(i) ==
  IF Named(i) # NoPage THEN Destination(Named(i), toc[i].fragment)
  ELSE IF toc[i].url # NoURL THEN Online(toc[i].url) ELSE NoTarget
\* A category leads where the first entry below it leads.
FirstTarget(i) ==
  LET leads == {j \in {i} \cup Inside(i) : Target(j) # NoTarget}
  IN IF leads = {} THEN NoTarget ELSE Target(Min(leads))
Lost(i) == Named(i) # NoPage /\ toc[i].fragment = "lost"

Overview == IF archive.kind = "hpe" /\ Roots # <<>> THEN Named(Roots[1]) ELSE NoPage
Listed ==
  IF Overview # NoPage THEN Kids(Roots[1]) \o Tail(Roots)
  ELSE IF normal.ok THEN normal.roots ELSE Roots
NamedAmong(set) == {Named(i) : i \in set} \ {NoPage}
\* The pages the omitted wrappers name are printed, so they are met as well.
OnlyListed == NamedAmong(ToSet(Walked(Listed)))
MetByContents == IF Overview = NoPage /\ normal.ok THEN NamedAmong(Entries) ELSE OnlyListed

-----------------------------------------------------------------------------
Moves(step) == printAt' = step
InputsKept == UNCHANGED <<toc, archive, normal>>
Record == <<contents, included, sections, references, outline, labels>>
\* Assemble returns an error, and what it made so far is dropped.
Refuse ==
  /\ Moves("refused") /\ contents' = NoContents /\ included' = {} /\ sections' = <<>> /\ references' = <<>>
  /\ outline' = <<>> /\ labels' = <<>>

CancelPrint == /\ printAt \notin {"passed", "refused"} /\ Refuse /\ InputsKept

PageURLs == {archive.pages[p].url : p \in ArchivedPages}
PlanHolds ==
  /\ \A p \in ArchivedPages : archive.pages[p].extra \/ IsPlanned(archive.pages[p].url)
  /\ archive.unpublished \cap PageURLs = {}
  /\ archive.planned \subseteq archive.unpublished \cup PageURLs
VerifyAndIndex ==
  /\ printAt = "verify"
  /\ \E asManifested \in BOOLEAN :
     IF asManifested /\ PlanHolds /\ ArchivedPages # {}
     THEN Moves("contents") /\ normal' = Normalized /\ UNCHANGED Record
     ELSE Refuse /\ UNCHANGED normal
  /\ UNCHANGED <<toc, archive>>

RenderTOC ==
  /\ printAt = "contents"
  /\ LET walked == Walked(Listed) IN
     IF \E i \in ToSet(walked) : Lost(i) THEN Refuse
     ELSE /\ included' = MetByContents
          /\ contents' = [ entries |-> [k \in DOMAIN walked |-> [entry |-> walked[k], target |-> Target(walked[k])]],
                           more |-> ArchivedPages \ (included' \cup {Overview}) ]
          /\ Moves("topics") /\ UNCHANGED <<sections, references, outline, labels>>
  /\ InputsKept

NextPage ==
  IF sections = <<>> /\ Overview # NoPage THEN Overview
  ELSE Min(ArchivedPages \ ({Overview} \cup ToSet(sections)))

\* Where a link of a page leads in print; a resource must be in the guide.
LinkTarget(link) ==
  LET named == IF link.to = "page" THEN link.page ELSE IF link.to = "url" THEN TopicFor(link.url) ELSE NoPage
  IN CASE named # NoPage /\ (link.to = "page" \/ link.use = "navigation") ->
            IF link.fragment = "lost" THEN NoTarget ELSE Destination(named, link.fragment)
       [] link.to = "asset" -> IF link.use = "navigation" THEN Online("asset") ELSE File("asset")
       [] link.to = "otherGuide" /\ link.use = "navigation" -> File("otherGuide")
       [] link.to = "url" /\ named = NoPage /\ link.use = "navigation" -> Online(link.url)
       [] OTHER -> NoTarget
Rewritten(link) == link.page \in ArchivedPages \cup {NoPage} /\ LinkTarget(link) # NoTarget

\* Only the last page has a link of interest; the others link to the publisher.
Plain == [use |-> "navigation", to |-> "url", page |-> NoPage, url |-> "publisher", fragment |-> "none"]
RenderTopic ==
  /\ printAt = "topics" /\ Len(sections) < Cardinality(ArchivedPages)
  /\ \E link \in {Plain} \cup (IF Len(sections) + 1 = Cardinality(ArchivedPages) THEN Links ELSE {}) :
       IF ~Rewritten(link) THEN Refuse
       ELSE /\ sections' = Append(sections, NextPage)
            /\ references' = Append(references, [page |-> NextPage, link |-> link, target |-> LinkTarget(link)])
            /\ UNCHANGED <<printAt, contents, included, outline, labels>>
  /\ InputsKept

Supplementary(p) == archive.pages[p].extra
AdditionalGroup(pages) ==
  IF pages = {} THEN <<>>
  ELSE <<[depth |-> 1, entry |-> 0, target |-> Anchor(Min(pages))]>> \o
       [k \in 1..Cardinality(pages) |-> [depth |-> 2, entry |-> 0, target |-> Anchor(InOrder(pages)[k])]]
RootOf(i) == Max({j \in 1..i : j \in ToSet(normal.roots)})
PlanOutline ==
  /\ printAt = "topics" /\ Len(sections) = Cardinality(ArchivedPages)
  /\ LET walked == Walked(normal.roots)
         met == included \cup NamedAmong(ToSet(walked))
         entries == [k \in DOMAIN walked |->
                      [ depth |-> toc[walked[k]].depth - toc[RootOf(walked[k])].depth + 1,
                        entry |-> walked[k], target |-> FirstTarget(walked[k]) ]]
         more == {p \in ArchivedPages : Supplementary(p) /\ p \notin met}
     IN IF ~normal.ok \/ (\E i \in ToSet(walked) : Lost(i)) \/ (walked = <<>> /\ more = {}) THEN Refuse
        ELSE /\ outline' = entries \o AdditionalGroup(more) /\ included' = met
             /\ Moves("footer") /\ UNCHANGED <<contents, sections, references, labels>>
  /\ InputsKept

\* The label of a page: its root's title, or the title above its first entry.
Above(i) == IF i \in ToSet(normal.roots) THEN i ELSE Max({j \in 1..(i - 1) : i \in Inside(j)})
LabelOf(p) ==
  LET at == {i \in ToSet(Walked(normal.roots)) : Named(i) = p}
  IN IF at # {} THEN Above(Min(at)) ELSE IF Supplementary(p) THEN -1 ELSE 0
PlanFooter ==
  /\ printAt = "footer"
  /\ labels' = [p \in ArchivedPages |-> LabelOf(p)]
  /\ Moves("passed") /\ UNCHANGED <<contents, included, sections, references, outline>> /\ InputsKept

-----------------------------------------------------------------------------
Init ==
  /\ toc \in Tables /\ archive \in Archives /\ normal = Refused /\ printAt = "verify"
  /\ contents = NoContents /\ included = {} /\ sections = <<>> /\ references = <<>>
  /\ outline = <<>> /\ labels = <<>>

Assemble == VerifyAndIndex \/ RenderTOC \/ RenderTopic \/ PlanOutline \/ PlanFooter
Next == CancelPrint \/ Assemble

TypeOK ==
  /\ archive \in Archives /\ ToSet(normal.roots) \subseteq Entries
  /\ printAt \in {"verify", "contents", "topics", "footer", "passed", "refused"}
  /\ included \subseteq ArchivedPages /\ ToSet(sections) \subseteq ArchivedPages /\ contents.more \subseteq ArchivedPages
  /\ \A k \in DOMAIN references : references[k].link \in Links \cup {Plain}

(* What was printed is the whole plan: every archived page once, the       *)
(* overview first; every planned page is among them or known to be         *)
(* unpublished; every page can be found from the contents page, unless it  *)
(* is the overview or the TOC names it only by a wrapper; no page counts   *)
(* as additional that the TOC names; and every local link, of the contents *)
(* or of a page, leads to a page that is printed.                          *)
Local(target) == target.to \in {"anchor", "bookmark"}
PrintedWhole ==
  printAt = "passed" =>
    LET linked == {contents.entries[k].target.page : k \in {k \in DOMAIN contents.entries : Local(contents.entries[k].target)}}
        leads == {contents.entries[k].target : k \in DOMAIN contents.entries}
                 \cup {references[k].target : k \in DOMAIN references}
    IN /\ ToSet(sections) = ArchivedPages /\ IsInjective(sections)
       /\ Overview # NoPage => sections[1] = Overview
       /\ archive.planned \subseteq PageURLs \cup archive.unpublished
       /\ ArchivedPages \subseteq linked \cup contents.more \cup {Overview} \cup NamedAmong(Entries)
       /\ Overview = NoPage => contents.more \cap NamedAmong(Entries) = {}
       /\ \A target \in leads : Local(target) => target.page \in ToSet(sections)

(* The bookmarks agree with the print.  Without an overview they are the   *)
(* entries of the contents page in the same order; each is one level below *)
(* the entry that holds it; each leads to a printed page, to the publisher *)
(* or, if nothing below it leads anywhere, nowhere; a URL that two pages   *)
(* claim leads to neither; every supplementary page the TOC does not name  *)
(* is among them once; and the footer labels a page with a bookmark, with  *)
(* the guide's title, or as additional.                                    *)
OutlineAgrees ==
  printAt = "passed" =>
    LET planned == SelectSeq(outline, LAMBDA item : item.entry # 0)
        extras == {k \in DOMAIN outline : outline[k].entry = 0 /\ outline[k].depth = 2}
    IN /\ Overview = NoPage =>
            [k \in DOMAIN planned |-> planned[k].entry] = [k \in DOMAIN contents.entries |-> contents.entries[k].entry]
       /\ \A k \in DOMAIN outline : k > 1 => outline[k].depth <= outline[k - 1].depth + 1
       /\ \A k \in DOMAIN outline : Local(outline[k].target) => outline[k].target.page \in ToSet(sections)
       /\ \A k \in DOMAIN planned : Target(planned[k].entry) # NoTarget => planned[k].target = Target(planned[k].entry)
       /\ \A k \in DOMAIN planned : Local(planned[k].target) =>
            \E i \in {planned[k].entry} \cup Inside(planned[k].entry) :
              /\ toc[i].url \in Claims(planned[k].target.page)
              /\ \A p \in ArchivedPages \ {planned[k].target.page} : toc[i].url \notin Claims(p)
       /\ {outline[k].target.page : k \in extras} = {p \in ArchivedPages : Supplementary(p)} \ included
       /\ \A p \in ArchivedPages : labels[p] > 0 => \E k \in DOMAIN planned : planned[k].entry = labels[p]

(* Both of one print: what is printed and what its bookmarks say. *)
PrintIsWhole == PrintedWhole /\ OutlineAgrees

=============================================================================
