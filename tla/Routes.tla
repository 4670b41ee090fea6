------------------------------- MODULE Routes -------------------------------
(***************************************************************************)
(* The route of one guide and the check that the publisher serves it       *)
(* (internal/source: catalog.go, peer.go, override.go, availability.go,    *)
(* preference.go; scanAvailability and probeReplacements of                *)
(* internal/cli/selection.go).                                             *)
(*                                                                         *)
(* The workers of a scan share nothing but a counter, and their outcomes   *)
(* are put in the order of the documents: one document stands for all.  A  *)
(* release is the number after "10." of its label, for compareRelease.     *)
(***************************************************************************)
EXTENDS Naturals, Sequences, SequencesExt, FiniteSets, FiniteSetsExt

CONSTANTS Platforms, Platform,  \* switch families, and the one selected
          Releases,             \* releases of the catalogue
          Stems, Absolute,      \* targets: folder stems, absolute document URLs
          AbsoluteKind,         \* kinds of the absolute ones
          Mappings,             \* the guide's mappings considered
          MaxScans              \* bound on the scans of one selection

Unmapped == "unmapped"
None == "none"
NoDocument == [kind |-> None, url |-> <<None, None>>, origin |-> None]

VARIABLES
  mapping,      \* target of every release and platform
  book,         \* guide ID: "cli" or "other"
  release,      \* the release selected
  override,     \* the --guide-source of the guide, or None
  mapped,       \* the document resolved
  scanAt,       \* "resolve", "idle", "probe", "find", "try" or "ended"
  scansLeft,    \* scans to come
  wanted,       \* the scan asks for the optional PDF
  status,       \* sourceStatus: "unseen", "served", "gone" or "unknown"
  pdfStatus,    \* availability: "unseen", "offered", "refused" or "unclear"
  candidates,   \* of the scan that found the document gone
  tried,        \* candidates probed
  replacement,  \* replacements: the candidate used, if one is
  goneNow,      \* the scan's own probe of the mapped document found it gone
  fresh,        \* preflightFresh: which URLs need no revalidation
  scanCut       \* the context has ended

routeVars == <<mapping, book, release, override, mapped, scanAt, scansLeft, wanted, status, pdfStatus,
               candidates, tried, replacement, goneNow, fresh, scanCut>>

-----------------------------------------------------------------------------
(* Resolution.                                                             *)

Resolvable(target) == target \in Stems \cup Absolute
Stem == "adapter-derived-book-stem"

Adapted(id, target) ==
  CASE release >= 17                 -> "static"
    [] release > 12 /\ release < 17  -> IF id = "cli" THEN "pdf" ELSE "flare"
    [] OTHER                         -> "archived"

Resolve(id, target) ==
  IF target \in Absolute
  THEN [kind |-> AbsoluteKind[target], url |-> <<"publisher", target>>, origin |-> "publisher-url"]
  ELSE [kind |-> IF Adapted(id, target) = "archived" THEN "pdf" ELSE Adapted(id, target),
        url |-> <<Adapted(id, target), target>>, origin |-> Stem]

\* OverrideGuideSource: an absolute URL on the catalogue's host or HPE's.
Overridden(raw) == [Resolve(book, raw) EXCEPT !.origin = "user-supplied"]
Own == mapping[release][Platform]

ResolveDocument ==
  /\ scanAt = "resolve"
  /\ IF override = None /\ ~Resolvable(Own)
     THEN scanAt' = "ended" /\ UNCHANGED mapped   \* a diagnostic, and no document
     ELSE /\ mapped' = IF override = None THEN Resolve(book, Own) ELSE Overridden(override)
          /\ scanAt' = "idle"
  /\ UNCHANGED <<mapping, book, release, override, scansLeft, wanted, status, pdfStatus, candidates,
                 tried, replacement, goneNow, fresh, scanCut>>

-----------------------------------------------------------------------------
(* Replacements.                                                           *)

\* peerTarget: in the nearest releases that map the platform others share its
\* document; all of these that are mapped here agree on one other target.
Mapping(r) == mapping[r][Platform] # Unmapped
Neighbours == LET before == {r \in Releases : r < release /\ Mapping(r)}
                  after == {r \in Releases : r > release /\ Mapping(r)}
              IN (IF before = {} THEN {} ELSE {Max(before)}) \cup (IF after = {} THEN {} ELSE {Min(after)})
Sharing(r) == {p \in Platforms \ {Platform} : mapping[r][p] = mapping[r][Platform]}
Peers == UNION {Sharing(r) : r \in Neighbours}
TargetsOf(peers) == {mapping[release][p] : p \in peers} \ {Unmapped}
AnyAgreement(targets) == targets \notin {{}, {Own}}
Agreement(targets) == Cardinality(targets) = 1 /\ targets # {Own}
PeerTargets ==
  IF (\A r \in Neighbours : Sharing(r) # {}) /\ Agreement(TargetsOf(Peers)) THEN TargetsOf(Peers) ELSE {}

\* FindReplacements, in the order to try them.
Candidate(document, origin, target) == [document |-> [document EXCEPT !.origin = origin], target |-> target]
Differs(document) == document.url # mapped.url
PeerDocuments == {Candidate(Resolve(book, t), "publisher-peer-mapping", t) :
                    t \in {u \in PeerTargets : Resolvable(u) /\ Differs(Resolve(book, u))}}
HasReleasePDF(target) == release > 12 /\ Resolvable(target) /\ Resolve("cli", target).kind = "pdf"
ReleasePDFs(targets, origin) ==
  {Candidate(Resolve("cli", t), origin, t) : t \in {u \in targets : HasReleasePDF(u)}}
NewIn(list, candidate) == \A i \in DOMAIN list : list[i].document.url # candidate.document.url

FindReplacements ==
  LET html == SetToSeq(PeerDocuments)
      pdfs == SetToSeq(ReleasePDFs({Own}, "publisher-release-pdf"))
              \o SetToSeq(ReleasePDFs(PeerTargets, "publisher-peer-release-pdf"))
  IN IF mapped.kind = "pdf" \/ mapped.origin # Stem THEN html
     ELSE FoldLeft(LAMBDA list, c : IF NewIn(list, c) THEN Append(list, c) ELSE list, html, pdfs)

IsReleasePDF(candidate) ==
  candidate.document.origin \in {"publisher-release-pdf", "publisher-peer-release-pdf"}

\* CheckPDFTitle: what the PDF's own title names.
Titles == SUBSET {"guide", "release", "platform"}
NamesGuide(candidate, title) == "guide" \in title
TitleFits(candidate, title) ==
  /\ NamesGuide(candidate, title)
  /\ candidate.document.origin = "publisher-peer-release-pdf" => {"release", "platform"} \subseteq title

-----------------------------------------------------------------------------
(* Probes.                                                                 *)

\* What a probe reports: classifySourceFailure and the checks of the answer.
Answers == {"served", "gone", "unknown"}

\* The publisher PDF that a front page advertises once, or HPE's export of it.
Offers(document) ==
  IF ~wanted \/ document.kind = "pdf" THEN {"unseen"} ELSE {"offered", "refused", "unclear"}

\* scanAvailability skips what it has seen, but for PDFs it did not ask for.
Skipped(asked) == status # "unseen"
                  /\ (~asked \/ mapped.kind = "pdf" \/ pdfStatus # "unseen" \/ status # "served")

StartScan ==
  /\ scanAt = "idle" /\ scansLeft > 0
  /\ scansLeft' = scansLeft - 1
  /\ \E asked \in BOOLEAN :
       IF Skipped(asked) THEN UNCHANGED <<scanAt, wanted>> ELSE wanted' = asked /\ scanAt' = "probe"
  /\ UNCHANGED <<mapping, book, release, override, mapped, status, pdfStatus, candidates, tried,
                 replacement, goneNow, fresh, scanCut>>

\* An HTML or HPE front page was just read through the cache; a PDF by HEAD was not.
Record(answer, offer, url) ==
  /\ status' = answer
  /\ pdfStatus' = IF offer # "unseen" /\ mapped.kind # "pdf" THEN offer ELSE pdfStatus
  /\ fresh' = IF answer = "served" /\ mapped.kind # "pdf" THEN fresh \cup {url} ELSE fresh
  /\ scanAt' = "idle"

Definitive(answer) == answer = "gone"

ProbeMapped ==
  /\ scanAt = "probe"
  /\ IF scanCut THEN scanAt' = "ended" /\ UNCHANGED <<status, pdfStatus, fresh, replacement, goneNow>>
     ELSE \E answer \in Answers :
       /\ goneNow' = (answer = "gone")
       /\ IF Definitive(answer)
          THEN scanAt' = "find" /\ UNCHANGED <<status, pdfStatus, fresh, replacement>>
          ELSE /\ replacement' = {}
               /\ \E offer \in IF answer = "served" THEN Offers(mapped) ELSE {"unseen"} :
                    Record(answer, offer, mapped.url)
  /\ UNCHANGED <<mapping, book, release, override, mapped, scansLeft, wanted, candidates, tried, scanCut>>

Find == /\ scanAt = "find"
        /\ candidates' = FindReplacements /\ tried' = 0 /\ scanAt' = "try"
        /\ UNCHANGED <<mapping, book, release, override, mapped, scansLeft, wanted, status, pdfStatus,
                       replacement, goneNow, fresh, scanCut>>

\* probeReplacements: the first candidate served, and identified if it is a PDF.
TryCandidate ==
  /\ scanAt = "try" /\ tried < Len(candidates)
  /\ tried' = tried + 1
  /\ LET candidate == candidates[tried + 1] IN
     IF scanCut THEN scanAt' = "ended" /\ UNCHANGED <<status, pdfStatus, fresh, replacement>>
     ELSE \/ UNCHANGED <<scanAt, status, pdfStatus, fresh, replacement>>   \* not usable
          \/ \E title \in Titles :
               /\ IF IsReleasePDF(candidate) THEN TitleFits(candidate, title) ELSE title = {}
               /\ replacement' = {[candidate |-> candidate, title |-> title]}
               /\ \E offer \in IF IsReleasePDF(candidate) THEN {"unseen"} ELSE Offers(candidate.document) :
                    Record("served", offer, candidate.document.url)
  /\ UNCHANGED <<mapping, book, release, override, mapped, scansLeft, wanted, candidates, goneNow, scanCut>>

\* None is served: the document is recorded as gone, what replaced it before stays.
GiveUp == /\ scanAt = "try" /\ tried = Len(candidates)
          /\ Record("gone", "unseen", mapped.url)
          /\ UNCHANGED <<mapping, book, release, override, mapped, scansLeft, wanted, candidates, tried,
                         replacement, goneNow, scanCut>>

CutScan == /\ ~scanCut /\ scanAt # "ended" /\ scanCut' = TRUE
           /\ UNCHANGED <<mapping, book, release, override, mapped, scanAt, scansLeft, wanted, status,
                          pdfStatus, candidates, tried, replacement, goneNow, fresh>>

EndSelection == /\ scanAt = "idle" /\ scansLeft = 0 /\ scanAt' = "ended"
                /\ UNCHANGED <<mapping, book, release, override, mapped, scansLeft, wanted, status, pdfStatus,
                               candidates, tried, replacement, goneNow, fresh, scanCut>>

RouteStep == ResolveDocument \/ StartScan \/ ProbeMapped \/ Find \/ TryCandidate \/ GiveUp \/ EndSelection

Init ==
  /\ mapping \in Mappings /\ release \in {r \in Releases : mapping[r][Platform] # Unmapped}
  /\ book \in {"cli", "other"} /\ override \in {None} \cup Absolute
  /\ mapped = NoDocument /\ scanAt = "resolve" /\ scansLeft = MaxScans /\ wanted = FALSE
  /\ status = "unseen" /\ pdfStatus = "unseen" /\ candidates = <<>> /\ tried = 0
  /\ replacement = {} /\ goneNow = FALSE /\ fresh = {} /\ scanCut = FALSE

Next == RouteStep \/ CutScan

-----------------------------------------------------------------------------
TypeOK ==
  /\ scanAt \in {"resolve", "idle", "probe", "find", "try", "ended"}
  /\ status \in {"unseen"} \cup Answers
  /\ pdfStatus \in {"unseen", "offered", "refused", "unclear"}
  /\ tried \in 0 .. Len(candidates) /\ scansLeft \in 0 .. MaxScans

\* A guide is replaced only when the publisher says that its own document is
\* gone, and only by a document the publisher's data name for it: under the
\* target of the platform itself, or the one on which all platforms agree that
\* shared its document before and after.  A PDF must name the guide, and, if it
\* is the peers', the release and the platform.
ReplacementsEarned ==
  /\ \A used \in replacement :
       /\ goneNow
       /\ IsReleasePDF(used.candidate) => "guide" \in used.title
       /\ used.candidate.document.origin = "publisher-peer-release-pdf"
            => used.title = {"guide", "release", "platform"}
       /\ used.candidate.target # Own =>
            /\ \E p \in Platforms : mapping[release][p] = used.candidate.target
            /\ \A p \in Platforms, r \in Neighbours :
                 mapping[r][p] = mapping[r][Platform] /\ p # Platform =>
                   mapping[release][p] \in {used.candidate.target, Unmapped}
  /\ \A i, j \in DOMAIN candidates : i # j => candidates[i].document.url # candidates[j].document.url
  /\ \A i \in DOMAIN candidates : candidates[i].document.url # mapped.url

=============================================================================
