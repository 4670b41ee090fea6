----------------------------- MODULE PdfOutline -----------------------------
(***************************************************************************)
(* The bookmarks of a generated PDF.  The plan of the outline is linked    *)
(* into a doubly linked tree of PDF objects, qpdf writes it, and what qpdf *)
(* wrote is read back and compared with the plan link by link.  The        *)
(* acceptance audit later reads the same outline without a plan, so it     *)
(* must find its way through a damaged tree and stop.  The footer of every *)
(* page is planned from where the topics landed.                           *)
(*                                                                         *)
(* An outline is a sequence of depths in reading order: Cover and Contents *)
(* first, then the entries of the guide.  A node is its position in that   *)
(* sequence; its title stands for itself.                                  *)
(***************************************************************************)
EXTENDS Integers, Sequences, FiniteSets, FiniteSetsExt

CONSTANTS
  GuideEntries,  \* outline entries of the guide
  OutlinePages,  \* pages of the PDF whose footers are planned
  FooterTopics   \* topics in it

Absent == -1
Root == 0
Nodes == 1..(GuideEntries + 2)

VARIABLES
  shape,     \* the depth of every node
  plan,      \* the linked outline of the guide, the root object among its objects
  pdf,       \* the outline objects in the PDF, the root among them
  walkAt,    \* what happens to the outline
  accepted,  \* validateQPDFOutline found it to be the plan
  frames,    \* the calls of the audit's recursion
  seen,      \* `visited`
  entries,   \* the entries the audit has listed, with their depth
  places,    \* where the topics and the provenance section start
  footers,   \* the footer plan, one entry a page
  active     \* the label a page without a topic takes over

outlineVars == <<shape, plan, pdf, walkAt, accepted, frames, seen, entries, places, footers, active>>

-----------------------------------------------------------------------------
(* The tree of a sequence of depths.                                       *)

Shapes == {d \in [Nodes -> 1..GuideEntries] :
             /\ d[1] = 1 /\ d[2] = 1 /\ d[3] = 1
             /\ \A i \in Nodes \ {1} : d[i] <= d[i - 1] + 1}
Up(d, i) == LET above == {j \in 1..(i - 1) : d[j] = d[i] - 1}
            IN IF above = {} THEN Root ELSE Max(above)
Below(d, i) == {j \in Nodes : j > i /\ \A k \in (i + 1)..j : d[k] > d[i]}
FirstOf(set) == IF set = {} THEN Absent ELSE Min(set)
LastOf(set) == IF set = {} THEN Absent ELSE Max(set)

\* An entry without a destination of its own takes the first one below it.
Target(d, own, i) == FirstOf({j \in {i} \cup Below(d, i) : j \in own})

Linked(d, own) ==
  LET up == [i \in Nodes |-> Up(d, i)]
      children == [p \in {Root} \cup Nodes |-> {j \in Nodes : up[j] = p}]
      siblings(i) == children[up[i]]
  IN [i \in {Root} \cup Nodes |->
       IF i = Root
       THEN [ title |-> Absent, parent |-> Absent, prev |-> Absent, next |-> Absent, target |-> Absent,
              first |-> FirstOf(children[Root]), last |-> LastOf(children[Root]), count |-> Cardinality(Nodes) ]
       ELSE [ title |-> i, parent |-> up[i], target |-> Target(d, own, i),
              prev |-> LastOf({j \in siblings(i) : j < i}), next |-> FirstOf({j \in siblings(i) : j > i}),
              first |-> FirstOf(children[i]), last |-> LastOf(children[i]),
              count |-> IF children[i] = {} THEN Absent ELSE Cardinality(Below(d, i)) ]]

Fields == {"title", "parent", "prev", "next", "target", "first", "last", "count"}
Values == {Absent, Root} \cup Nodes

-----------------------------------------------------------------------------
(* Reading it back against the plan.                                       *)

Field(r, f) == IF r \in Nodes THEN pdf[r][f] ELSE Absent

\* `at` is the object reached for each node of the plan: the parent's /First,
\* or the previous sibling's /Next.
Reached ==
  LET at[i \in Nodes] ==
        IF plan[i].prev # Absent THEN Field(at[plan[i].prev], "next")
        ELSE IF plan[i].parent = Root THEN pdf[Root].first ELSE Field(at[plan[i].parent], "first")
  IN at
Object(at, i) == IF i \in Nodes THEN at[i] ELSE i

CarriesTitle(at, i) == Field(at[i], "title") = i /\ Field(at[i], "target") = plan[i].target
\* Only whether there is a link, or the links themselves.
LinksPresent(at, i) == \A f \in {"parent", "prev", "next"} : (plan[i][f] = Absent) = (Field(at[i], f) = Absent)
IsLinkedBack(at, i) ==
  /\ \A f \in {"parent", "prev"} : Field(at[i], f) = Object(at, plan[i][f])
  /\ (plan[i].next = Absent) = (Field(at[i], "next") = Absent)
HoldsChildren(at, i) ==
  /\ (plan[i].first = Absent) = (Field(at[i], "first") = Absent)
  /\ Field(at[i], "count") = plan[i].count
  /\ plan[i].first # Absent => Field(at[i], "last") = Object(at, plan[i].last)
NodeAsPlanned(at, i) == at[i] \in Nodes /\ CarriesTitle(at, i) /\ IsLinkedBack(at, i) /\ HoldsChildren(at, i)
Validates ==
  LET at == Reached IN
  /\ \A i, j \in Nodes : i # j => at[i] # at[j]
  /\ \A i \in Nodes : NodeAsPlanned(at, i)
  /\ pdf[Root].count = Cardinality(Nodes)
  /\ pdf[Root].last = Object(at, plan[Root].last)

-----------------------------------------------------------------------------
(* The audit: the tree is walked along /First and /Next.                   *)

Frame(parent, first) == [parent |-> parent, last |-> Absent, next |-> first, listed |-> Len(entries)]
Now == frames[Len(frames)]
Outer == SubSeq(frames, 1, Len(frames) - 1)
Moved(frame, node) == [frame EXCEPT !.last = node, !.next = pdf[node].next]

Footering == UNCHANGED <<places, footers, active>>
Outlining == UNCHANGED <<shape, plan, pdf>>
Ends(result) == walkAt' = result /\ UNCHANGED <<frames, seen, entries>>

\* Whatever qpdf wrote: the plan, or the plan with one field of one object changed.
Postprocess ==
  /\ walkAt = "planned"
  /\ \/ pdf' = plan
     \/ \E r \in {Root} \cup Nodes, f \in Fields, v \in Values : pdf' = [plan EXCEPT ![r][f] = v]
  /\ walkAt' = "written"
  /\ UNCHANGED <<shape, plan, accepted, frames, seen, entries>> /\ Footering

Validate ==
  /\ walkAt = "written"
  /\ accepted' = Validates /\ walkAt' = "validated"
  /\ UNCHANGED <<frames, seen, entries>> /\ Outlining /\ Footering

StartAudit ==
  /\ walkAt = "validated"
  /\ IF pdf[Root].first = Absent \/ pdf[Root].last = Absent \/ pdf[Root].count < 1
     THEN Ends("refused")
     ELSE /\ frames' = <<Frame(Root, pdf[Root].first)>> /\ walkAt' = "walking"
          /\ UNCHANGED <<seen, entries>>
  /\ UNCHANGED accepted /\ Outlining /\ Footering

SeenBefore(node) == node \in seen
LeadsSomewhere(node) == pdf[node].target \in Nodes
Readable(node) ==
  /\ ~SeenBefore(node) /\ node # Root
  /\ pdf[node].parent = Now.parent /\ pdf[node].prev = Now.last
  /\ pdf[node].title \in Nodes /\ LeadsSomewhere(node)
ChildLinksHold(node) ==
  IF pdf[node].first # Absent THEN pdf[node].last # Absent /\ pdf[node].count >= 1
  ELSE pdf[node].last = Absent /\ pdf[node].count = Absent
VisitNode ==
  /\ walkAt = "walking" /\ Now.next # Absent
  /\ LET node == Now.next IN
     IF ~Readable(node) \/ ~ChildLinksHold(node) THEN Ends("refused")
     ELSE /\ seen' = seen \cup {node}
          /\ entries' = Append(entries, [depth |-> Len(frames), title |-> pdf[node].title])
          /\ frames' = IF pdf[node].first = Absent THEN Append(Outer, Moved(Now, node))
                       ELSE Append(frames, [Frame(node, pdf[node].first) EXCEPT !.listed = @ + 1])
          /\ UNCHANGED walkAt
  /\ UNCHANGED accepted /\ Outlining /\ Footering

\* The end of a chain of siblings: the parent's /Last and /Count must agree.
ReturnFromChildren ==
  /\ walkAt = "walking" /\ Now.next = Absent
  /\ LET node == Now.parent IN
     IF Now.last # pdf[node].last \/ Len(entries) - Now.listed # pdf[node].count THEN Ends("refused")
     ELSE IF node = Root THEN Ends("passed")
     ELSE /\ frames' = Append(SubSeq(Outer, 1, Len(Outer) - 1), Moved(Outer[Len(Outer)], node))
          /\ UNCHANGED <<walkAt, seen, entries>>
  /\ UNCHANGED accepted /\ Outlining /\ Footering

-----------------------------------------------------------------------------
(* The footers.  A topic starts at some height of its page, 2 being the    *)
(* top; several may start on one page.  Contents starts on page 2 and the  *)
(* provenance section comes last.                                          *)

CoverPage == -2
Contents == -1
GuideTitle == 0
Labelled == 1..FooterTopics
Provenance == FooterTopics + 1
Top == 2
Spots == [page : 2..OutlinePages, height : 0..Top]
Layouts == {l \in [1..Provenance -> Spots] : \A t \in Labelled : l[t].page <= l[Provenance].page}
NoPlaces == [t \in 1..Provenance |-> [page |-> 2, height |-> 0]]

FirstPage == Min({places[t].page : t \in Labelled})
StartingOn(page) == {t \in Labelled : places[t].page = page}
\* The events of a page in their order: from the top down, then as planned.
Ahead(t, u) == places[t].height > places[u].height \/ (places[t].height = places[u].height /\ t < u)
Uppermost(page) == CHOOSE t \in StartingOn(page) : \A u \in StartingOn(page) \ {t} : Ahead(t, u)
Lowest(page) == CHOOSE t \in StartingOn(page) : \A u \in StartingOn(page) \ {t} : Ahead(u, t)
EndsWithProvenance(page) == page = places[Provenance].page /\ places[Provenance].height = Top

Label(page) ==
  CASE page = 1 -> CoverPage
    [] page > 1 /\ page < FirstPage -> Contents
    [] page >= FirstPage /\ EndsWithProvenance(page) -> Provenance
    [] OTHER -> IF StartingOn(page) # {} /\ places[Uppermost(page)].height = Top
                THEN Uppermost(page) ELSE active
Carried(page) ==
  IF page < FirstPage THEN active
  ELSE IF EndsWithProvenance(page) THEN Provenance
  ELSE IF StartingOn(page) # {} THEN Lowest(page) ELSE active

RefuseFooters ==
  /\ walkAt = "footers" /\ FirstPage <= 2 /\ Ends("refused")
  /\ UNCHANGED accepted /\ Outlining /\ Footering
PlanPage ==
  /\ walkAt = "footers" /\ FirstPage > 2
  /\ LET page == Len(footers) + 1 IN
     /\ footers' = Append(footers, Label(page)) /\ active' = Carried(page)
     /\ Ends(IF page = OutlinePages THEN "passed" ELSE "footers")
  /\ UNCHANGED <<accepted, places>> /\ Outlining

-----------------------------------------------------------------------------
Init ==
  /\ accepted = FALSE /\ frames = <<>> /\ seen = {} /\ entries = <<>>
  /\ footers = <<>> /\ active = GuideTitle
  /\ \/ /\ walkAt = "planned" /\ places = NoPlaces /\ shape \in Shapes
        /\ \E some \in SUBSET (Nodes \ {1, 2}) : plan = Linked(shape, {1, 2} \cup some)
     \/ /\ walkAt = "footers" /\ places \in Layouts
        /\ shape = [i \in Nodes |-> 1] /\ plan = Linked(shape, {1, 2})
  /\ pdf = plan

Walking == Validate \/ StartAudit \/ VisitNode \/ ReturnFromChildren \/ RefuseFooters \/ PlanPage
Next == Postprocess \/ Walking
OutlineEnds == {"passed", "refused"}

TypeOK ==
  /\ DOMAIN shape = Nodes /\ \A r \in {Root} \cup Nodes, f \in Fields : {plan[r][f], pdf[r][f]} \subseteq Values
  /\ walkAt \in {"planned", "written", "validated", "walking", "footers"} \cup OutlineEnds
  /\ accepted \in BOOLEAN /\ seen \in SUBSET Nodes
  /\ \A i \in DOMAIN frames : frames[i].parent \in {Root} \cup Nodes /\ frames[i].listed \in 0..Len(entries)
  /\ \A i \in DOMAIN entries : entries[i].depth \in Nodes /\ entries[i].title \in Nodes
  /\ places \in [1..Provenance -> Spots] /\ active \in 0..Provenance
  /\ \A page \in DOMAIN footers : footers[page] \in CoverPage..Provenance

(* Whichever one link, title, count or destination qpdf damaged, reading   *)
(* back by the links tells: an accepted outline is the planned one object  *)
(* by object, but for a /Last left on an entry without children, which     *)
(* only the audit refuses.  The audit can read nothing but the plan from   *)
(* an accepted file, it reads all of an undamaged one whose every entry    *)
(* leads somewhere, and whatever it passes at all is a tree it saw whole.  *)
PlannedEntries == [i \in Nodes |-> [depth |-> shape[i], title |-> i]]
StrayLast(i, f) == i \in Nodes /\ f = "last" /\ plan[i].first = Absent
Judged(i) == IF i = Root THEN {"first", "last", "count"} ELSE Fields
OutlineIsThePlan ==
  /\ accepted => \A i \in {Root} \cup Nodes : \A f \in Judged(i) : StrayLast(i, f) \/ pdf[i][f] = plan[i][f]
  /\ walkAt \in OutlineEnds /\ footers = <<>> =>
       /\ accepted /\ walkAt = "passed" => entries = PlannedEntries
       /\ pdf = plan /\ (\A i \in Nodes : plan[i].target # Absent) /\ entries # <<>> =>
            accepted /\ walkAt = "passed"
       /\ walkAt = "passed" => Len(entries) = Cardinality(seen) /\ Len(entries) = pdf[Root].count

(* Every page after the contents is labelled by the topic that starts at   *)
(* its top, or else by the last one that started before it, however many   *)
(* topics start on a page; once the provenance section has begun at the    *)
(* top of a page it keeps the label.                                       *)
StartedBefore(page) == {t \in Labelled : places[t].page < page}
LastStarted(page) ==
  CHOOSE t \in StartedBefore(page) : \A u \in StartedBefore(page) \ {t} :
    places[u].page < places[t].page \/ (places[u].page = places[t].page /\ Ahead(u, t))
FootersNameTheTopic ==
  \A page \in DOMAIN footers \ {1} :
    LET atTop == {t \in StartingOn(page) : places[t].height = Top}
        closed == places[Provenance].height = Top /\ page >= places[Provenance].page
    IN footers[page] =
         IF page < FirstPage THEN Contents
         ELSE IF closed THEN Provenance
         ELSE IF atTop # {} THEN Min(atTop)
         ELSE IF StartedBefore(page) # {} THEN LastStarted(page) ELSE GuideTitle

(* Both are read off one file: what the generator accepted is the plan, in *)
(* bookmarks and in footers.                                               *)
PdfIsAsPlanned == OutlineIsThePlan /\ FootersNameTheTopic

(* Where the audit comes to rest, also that of links which run in a circle. *)
AuditEnded == walkAt \in OutlineEnds
=============================================================================
