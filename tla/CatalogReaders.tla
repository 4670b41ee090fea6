--------------------------- MODULE CatalogReaders ---------------------------
(***************************************************************************)
(* LoadCatalogWithWorkersObserved and loadPortal (internal/source):        *)
(* the portal is discovered file by file, then a pool of goroutines reads  *)
(* the mapping of every guide.  A mapping that cannot be read is an error  *)
(* of its guide, not of the catalog.                                       *)
(***************************************************************************)
EXTENDS Naturals, SequencesExt, Ordered

CONSTANTS Loaders,     \* goroutines of the pool
          GuideIds,    \* identifiers of guides
          MaxResources \* bound on the resources of the configuration

VARIABLES
  resources,   \* what the portal's configuration lists
  stage,       \* the file that is read next, or "feed", "drain", "returned"
  entries,     \* the guides: id, what became of the mapping
  offered,     \* guides handed to the pool
  loading,     \* loading[l]: the guide of a goroutine, 0 if none, Left
  finished,    \* finished[l]: its mapping is done and not yet reported
  reports,     \* the numbers reported to the observer
  loadEnded,   \* the context has ended
  catalog      \* what is returned

catalogVars == <<resources, stage, entries, offered, loading, finished, reports, loadEnded, catalog>>

Left == MaxResources + 1
Resource == [id : GuideIds, listed : BOOLEAN]
Nothing == [kind |-> "none", guides |-> <<>>, warnings |-> <<>>]
Refused(kind) == [Nothing EXCEPT !.kind = kind]

\* loadPortal: page, registry, configuration and route adapter are each read and
\* checked; any of them that is not as expected refuses the portal.
NextStage == [page |-> "registry", registry |-> "config", config |-> "adapter", adapter |-> "guides"]
Discover ==
  /\ stage \in DOMAIN NextStage
  /\ \/ stage' = NextStage[stage] /\ UNCHANGED catalog
     \/ stage' = "returned" /\ catalog' = Refused("refused")
  /\ UNCHANGED <<resources, entries, offered, loading, finished, reports, loadEnded>>

Listed == Those(resources, {r \in Resource : r.listed})
\* A configuration that lists no guide, or one twice, is refused.
ListGuides ==
  /\ stage = "guides"
  /\ IF Listed = <<>> \/ ~IsInjective([i \in DOMAIN Listed |-> Listed[i].id])
     THEN stage' = "returned" /\ catalog' = Refused("refused") /\ UNCHANGED entries
     ELSE IF loadEnded THEN stage' = "returned" /\ catalog' = Refused("cancelled") /\ UNCHANGED entries
     ELSE /\ stage' = "feed" /\ UNCHANGED catalog
          /\ entries' = [i \in DOMAIN Listed |-> [id |-> Listed[i].id, mapping |-> "unread"]]
  /\ UNCHANGED <<resources, offered, loading, finished, reports, loadEnded>>

\* jobs has no buffer and the sender does not watch the context.
Offer(l) ==
  /\ stage = "feed" /\ offered < Len(entries) /\ loading[l] = 0
  /\ offered' = offered + 1 /\ loading' = [loading EXCEPT ![l] = offered + 1]
  /\ UNCHANGED <<resources, stage, entries, finished, reports, loadEnded, catalog>>

CloseJobs ==
  /\ stage = "feed" /\ offered = Len(entries) /\ stage' = "drain"
  /\ UNCHANGED <<resources, entries, offered, loading, finished, reports, loadEnded, catalog>>

\* A mapping is read whole, or its guide has an error: refused by the publisher,
\* a duplicate key, an entry too much.
Map(l) ==
  /\ loading[l] \in DOMAIN entries /\ ~finished[l]
  /\ \E mapping \in {"error"} \cup (IF loadEnded THEN {} ELSE {"read"}) :
       entries' = [entries EXCEPT ![loading[l]].mapping = mapping]
  /\ finished' = [finished EXCEPT ![l] = TRUE]
  /\ UNCHANGED <<resources, stage, offered, loading, reports, loadEnded, catalog>>

\* The observer is called under a lock, unless the context has ended.
ReportsRead(l) == entries[loading[l]].mapping = "read"
ReportsAny(l) == ~loadEnded
Report(l) ==
  /\ loading[l] \in DOMAIN entries /\ finished[l]
  /\ reports' = IF ReportsAny(l) THEN Append(reports, Len(reports) + 1) ELSE reports
  /\ loading' = [loading EXCEPT ![l] = 0] /\ finished' = [finished EXCEPT ![l] = FALSE]
  /\ UNCHANGED <<resources, stage, entries, offered, loadEnded, catalog>>

\* A goroutine goes on until jobs is closed, also when the context has ended:
\* the sender counts on it.
LeavesCancelled == stage = "drain" \/ (stage = "feed" /\ loadEnded)
LeavesClosed == stage = "drain"
LeaveLoad(l) ==
  /\ LeavesClosed /\ loading[l] = 0
  /\ loading' = [loading EXCEPT ![l] = Left]
  /\ UNCHANGED <<resources, stage, entries, offered, finished, reports, loadEnded, catalog>>

\* Guides keep the publisher's order; a guide with an error warns.
Warned(guides) == Those(guides, [id : GuideIds, mapping : {"error"}])
ReturnCatalog ==
  /\ stage = "drain" /\ \A l \in Loaders : loading[l] = Left
  /\ stage' = "returned"
  /\ catalog' = IF loadEnded THEN Refused("cancelled")
                ELSE [kind |-> "catalog", guides |-> entries, warnings |-> Warned(entries)]
  /\ UNCHANGED <<resources, entries, offered, loading, finished, reports, loadEnded>>

EndLoad == /\ ~loadEnded /\ stage # "returned" /\ loadEnded' = TRUE
           /\ UNCHANGED <<resources, stage, entries, offered, loading, finished, reports, catalog>>

LoaderStep(l) == Offer(l) \/ Map(l) \/ Report(l) \/ LeaveLoad(l)
LoadStep == Discover \/ ListGuides \/ CloseJobs \/ ReturnCatalog

Init ==
  /\ resources \in BoundedSeq(Resource, MaxResources)
  /\ stage = "page" /\ entries = <<>> /\ offered = 0
  /\ loading = [l \in Loaders |-> 0] /\ finished = [l \in Loaders |-> FALSE]
  /\ reports = <<>> /\ loadEnded = FALSE /\ catalog = Nothing

Next == LoadStep \/ EndLoad \/ \E l \in Loaders : LoaderStep(l)

-----------------------------------------------------------------------------
TypeOK ==
  /\ stage \in DOMAIN NextStage \cup {"guides", "feed", "drain", "returned"}
  /\ offered \in 0 .. Len(entries)
  /\ loading \in [Loaders -> 0 .. Left]
  /\ catalog.kind \in {"none", "refused", "cancelled", "catalog"}

\* A catalog that is returned has every guide of the configuration once, in the
\* publisher's order, each with its mapping or an error and a warning, and the
\* observer has seen the progress count up to the last of them.
CatalogComplete ==
  catalog.kind = "catalog" =>
    /\ [i \in DOMAIN catalog.guides |-> catalog.guides[i].id] = [i \in DOMAIN Listed |-> Listed[i].id]
    /\ \A i \in DOMAIN catalog.guides : catalog.guides[i].mapping \in {"read", "error"}
    /\ catalog.warnings = Warned(catalog.guides)
    /\ reports = [i \in DOMAIN catalog.guides |-> i]

\* Where a load comes to rest: the senders never outlive the pool.
CatalogReturned == stage = "returned"
=============================================================================
