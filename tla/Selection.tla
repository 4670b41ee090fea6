------------------------------ MODULE Selection ------------------------------
(***************************************************************************)
(* What to download: the guided questions of the terminal and the direct   *)
(* path of a complete command line (internal/cli/selection.go).            *)
(*                                                                         *)
(* The publisher may answer every probe differently; Routes says how one   *)
(* guide is probed and replaced.  The user may answer, go back or give up  *)
(* at every question, and the release folder may come and go meanwhile.    *)
(***************************************************************************)
EXTENDS Naturals, Sequences, SequencesExt, FiniteSets

CONSTANTS Platforms, Versions, Guides,
          Documents,   \* Documents[platform, version]: the guides resolved
          Faulty,      \* the places with a mapping or route error
          PDFs,        \* guides whose document is a PDF
          Starts       \* the command lines considered

Unset == "unset"
Options == {"platform", "version", "all", "guides", "destination", "prefer", "convert", "refresh"}
Steps == <<"platform", "version", "mode", "guides", "destination", "preference", "conversion", "existing">>

VARIABLES
  given,        \* the command line
  platform, version, mode, all, guides, draft, destination, prefer, convert, refresh,
  skipped,      \* skippedUnavailable
  snapshot,     \* allAvailableSnapshot
  sources,      \* sourceStatus of the place: "unseen", "served", "gone", "unknown"
  publisher,    \* publisher PDFs: "unseen", "offered", "not offered"
  replaced,     \* documents with an entry in replacements
  current, history,
  held,         \* the release folder at destination "old": "none", "library", "blocked"
  selAt,        \* "start", "present", "prompt", "follow", "ended"
  selected      \* outcome: "none", "failed" or "chosen"

selVars == <<given, platform, version, mode, all, guides, draft, destination, prefer, convert, refresh,
             skipped, snapshot, sources, publisher, replaced, current, history, held, selAt, selected>>

place == <<platform, version, destination>>
choice == <<mode, all, guides, draft, skipped, snapshot>>
wishes == <<prefer, convert, refresh>>
seen == <<sources, publisher, replaced>>

Fixed(option) == option \in given.fixed
Docs == IF platform = Unset \/ version = Unset THEN {} ELSE Documents[platform, version]
HTML(docs) == docs \ PDFs
Gone(docs) == {d \in docs : sources[d] = "gone"}

\* Only ever the last conjunct of an action.
Fail == selAt' = "ended" /\ selected' = "failed"

-----------------------------------------------------------------------------
(* scanAvailability: which documents it probes, and what it may learn.     *)

Probed(docs, optional) ==
  {d \in docs : \/ sources[d] = "unseen"
                \/ optional /\ d \notin PDFs /\ publisher[d] = "unseen" /\ sources[d] = "served"}

\* A replacement served counts as the document, and its PDF status may stay unseen.
Outcomes(d, optional) ==
  {[source |-> s, pdf |-> "unseen", replaced |-> FALSE] : s \in {"gone", "unknown"}}
  \cup [source : {"served"}, replaced : BOOLEAN,
        pdf : IF optional /\ d \notin PDFs THEN {"offered", "not offered"} ELSE {"unseen"}]
  \cup {[source |-> "served", pdf |-> "unseen", replaced |-> TRUE]}

Scan(docs, optional) ==
  \E learnt \in [Probed(docs, optional) -> UNION {Outcomes(d, optional) : d \in Guides}] :
    /\ \A d \in DOMAIN learnt : learnt[d] \in Outcomes(d, optional)
    /\ sources' = [d \in Guides |-> IF d \in DOMAIN learnt THEN learnt[d].source ELSE sources[d]]
    /\ publisher' = [d \in Guides |-> IF d \in DOMAIN learnt /\ learnt[d].pdf # "unseen"
                                      THEN learnt[d].pdf ELSE publisher[d]]
    /\ replaced' = {r \in replaced : r[2] \notin DOMAIN learnt \/ r[1] # version
                                     \/ learnt[r[2]].source = "gone"}
                   \cup {<<version, d>> : d \in {e \in DOMAIN learnt : learnt[e].replaced}}

\* applyAvailableSelection, after a scan.
Left(docs) == {d \in docs : sources'[d] # "gone"}
Apply(docs) ==
  /\ guides' = Left(docs) /\ skipped' = docs \ Left(docs) /\ snapshot' = TRUE

-----------------------------------------------------------------------------
(* What is selected so far, and which questions it raises.                 *)

\* selectedForAvailability: not ready while something is missing.
All == all \/ mode = "all"
Chosen == IF guides # {} THEN guides ELSE draft
ForAvailability ==
  IF All THEN IF snapshot /\ guides # {} THEN Docs \cap guides ELSE Docs
  ELSE Docs \cap Chosen
Ready == /\ platform # Unset /\ version # Unset
         /\ IF All THEN snapshot /\ guides # {} => guides \subseteq Docs
            ELSE Chosen # {} /\ Chosen \subseteq Docs

\* prepareSelectedAvailability.
Prepare ==
  IF ~Ready THEN UNCHANGED <<seen, guides, skipped, snapshot>>
  ELSE /\ Scan(ForAvailability, ~Fixed("prefer") \/ prefer)
       /\ IF All THEN Apply(ForAvailability) ELSE UNCHANGED <<guides, skipped, snapshot>>
Unprepared == Ready /\ \/ All /\ Left(ForAvailability) = {}
                       \/ ~All /\ Fixed("guides") /\ Left(ForAvailability) # ForAvailability

\* preferenceRelevant, conversionRelevant and existingLibrary, after Prepare.
Prepared == IF All /\ Ready THEN guides' ELSE ForAvailability
Offered == {d \in HTML(Prepared) : Ready /\ publisher'[d] = "offered"}
MayStayHTML(wish) == {d \in HTML(Prepared) : Ready /\ (~wish \/ publisher'[d] # "offered")}
LooksForLibrary == /\ destination = "old" /\ platform # Unset /\ version # Unset
                   /\ ~(Fixed("refresh") /\ refresh)

Wish(wish) == IF Fixed("prefer") \/ Offered # {} THEN wish ELSE FALSE
Relevant(step, wish) ==
  CASE step = "mode"       -> ~Fixed("all") /\ ~Fixed("guides")
    [] step = "guides"     -> mode = "some" /\ ~Fixed("guides")
    [] step = "preference" -> ~Fixed("prefer") /\ Offered # {}
    [] step = "conversion" -> ~Fixed("convert") /\ MayStayHTML(wish) # {}
    [] step = "existing"   -> ~Fixed("refresh") /\ LooksForLibrary /\ held = "library"
    [] OTHER               -> ~Fixed(step)

\* The questions raised, by their place in Steps, and the ones that are still to be asked.
Questions(wish) == {n \in DOMAIN Steps : Relevant(Steps[n], wish)}
Remaining(raised) ==
  IF selAt = "start" THEN raised ELSE {n \in raised : \E m \in raised : Steps[m] = current /\ m < n}
StillRaised(raised) == selAt = "start" \/ \E n \in raised : Steps[n] = current

\* validateComplete and selectedDocuments.
FinalAll == IF mode = "" THEN all ELSE mode = "all"
FinalGuides == IF mode = "some" THEN draft ELSE guides'
Result == IF FinalAll /\ ~snapshot' THEN Docs ELSE FinalGuides
Valid == /\ platform # Unset /\ version # Unset /\ destination # Unset
         /\ ~(FinalAll /\ <<platform, version>> \in Faulty)
         /\ Result # {} /\ Result \subseteq Docs
         /\ \A d \in Result : sources'[d] = "gone" => <<version, d>> \in replaced'

\* After an answer, or before the first question.
Proceed ==
  /\ Prepare
  /\ LET wish == Wish(prefer)
         raised == Questions(wish)
         rest == Remaining(raised) IN
       IF Unprepared \/ (LooksForLibrary /\ held = "blocked")
       THEN Fail /\ UNCHANGED <<all, draft, prefer, convert, current, history>>
       ELSE /\ prefer' = wish
            /\ convert' = IF Fixed("convert") \/ MayStayHTML(wish) # {} THEN convert ELSE "no"
            /\ \/ /\ \E n \in rest : current' = Steps[n] /\ \A m \in rest : n <= m
                  /\ history' = IF selAt = "start" THEN history ELSE Append(history, current)
                  /\ selAt' = "present" /\ UNCHANGED <<all, draft, selected>>
               \/ /\ rest = {} /\ StillRaised(raised)
                  /\ all' = FinalAll
                  /\ IF Valid THEN selAt' = "ended" /\ selected' = "chosen" ELSE Fail
                  /\ UNCHANGED <<draft, current, history>>
               \/ /\ ~StillRaised(raised)   \* the step became invalid
                  /\ Fail /\ UNCHANGED <<all, draft, current, history>>
  /\ UNCHANGED <<given, place, mode, refresh, held>>

\* A command line that Cobra and validateFor accept: what is not fixed has its default.
CommandLine(line) ==
  /\ line.fixed \subseteq Options
  /\ line.platform \in Platforms \cup {Unset} /\ line.version \in Versions \cup {Unset}
  /\ line.all \in BOOLEAN /\ line.guides \subseteq Guides /\ line.destination \in {Unset, "old", "new"}
  /\ line.prefer \in BOOLEAN /\ line.refresh \in BOOLEAN /\ line.convert \in {"no", "convert", "replace"}
  /\ ("all" \in line.fixed <=> line.all) /\ ("guides" \in line.fixed <=> line.guides # {})
  /\ ~(line.all /\ line.guides # {})
  /\ "prefer" \in line.fixed \/ ~line.prefer
  /\ "convert" \in line.fixed \/ line.convert = "no"
  /\ "refresh" \in line.fixed \/ ~line.refresh
  /\ line.guided <=> \/ Unset \in {line.platform, line.version, line.destination}
                     \/ line.guides = {} /\ ~line.all

Guided == given.guided
Begin == selAt = "start" /\ Guided /\ Proceed
Follow == selAt = "follow" /\ Proceed

\* The mode and guides questions scan the whole place before they are shown.
Present ==
  /\ selAt = "present"
  /\ IF current \notin {"mode", "guides"} THEN selAt' = "prompt" /\ UNCHANGED <<seen, selected>>
     ELSE IF Docs = {} THEN Fail /\ UNCHANGED seen
     ELSE Scan(Docs, TRUE) /\ selAt' = "prompt" /\ UNCHANGED selected
  /\ UNCHANGED <<given, place, choice, wishes, current, history, held>>

-----------------------------------------------------------------------------
(* Answers.                                                                *)

Asking(step) == selAt = "prompt" /\ current = step
Answered == selAt' = "follow" /\ UNCHANGED <<given, current, history, held, selected>>

\* revalidateGuides, for another platform or version.
ResetExisting == refresh' = IF Fixed("refresh") THEN refresh ELSE given.refresh
SnapshotKept == UNCHANGED <<skipped, snapshot>>
SnapshotReset == skipped' = {} /\ snapshot' = FALSE
Revalidate(docs) ==
  /\ sources' = [d \in Guides |-> "unseen"] /\ publisher' = [d \in Guides |-> "unseen"]
  /\ SnapshotReset
  /\ prefer' = IF Fixed("prefer") THEN prefer ELSE FALSE
  /\ convert' = IF Fixed("convert") THEN convert ELSE "no"
  /\ IF Fixed("guides") THEN UNCHANGED <<guides, draft>>
     ELSE guides' = guides \cap docs /\ draft' = draft \cap docs
  /\ ResetExisting

AnswerPlatform ==
  /\ Asking("platform")
  /\ \E p \in Platforms :
       IF p = platform THEN UNCHANGED <<platform, version, choice, wishes, seen>>
       ELSE /\ platform' = p
            /\ version' = IF Fixed("version") THEN version ELSE Unset
            /\ Revalidate(IF Fixed("version") THEN Documents[p, version] ELSE {})
            /\ UNCHANGED <<mode, all, replaced>>
  /\ Answered /\ UNCHANGED destination

\* releaseChoices: a release without a guide cannot be chosen.
OpenVersions == {v \in Versions : Documents[platform, v] # {}}
AnswerVersion ==
  /\ Asking("version")
  /\ \E v \in OpenVersions :
       IF v = version THEN UNCHANGED <<version, choice, wishes, seen>>
       ELSE version' = v /\ Revalidate(Documents[platform, v]) /\ UNCHANGED <<mode, all, replaced>>
  /\ Answered /\ UNCHANGED <<platform, destination>>

\* availableModeChoice is disabled while mappings or routes are in error.
AllOffered == <<platform, version>> \notin Faulty
AnswerMode ==
  /\ Asking("mode")
  /\ \/ /\ mode' = "some" /\ all' = FALSE /\ UNCHANGED <<guides, skipped, snapshot>> /\ Answered
     \/ /\ AllOffered
        /\ mode' = "all" /\ all' = TRUE
        /\ UNCHANGED <<seen, given, current, history, held>>
        /\ IF Gone(Docs) = Docs THEN Fail /\ UNCHANGED <<guides, skipped, snapshot>>
           ELSE Apply(Docs) /\ selAt' = "follow" /\ UNCHANGED selected
  /\ UNCHANGED <<place, draft, wishes, seen>>

\* guideChoices: what is gone cannot be ticked.
Tickable == Docs \ Gone(Docs)
AnswerGuides ==
  /\ Asking("guides")
  /\ \E values \in (SUBSET Tickable) \ {{}} : draft' = values /\ guides' = values
  /\ all' = FALSE
  /\ Answered /\ UNCHANGED <<place, mode, skipped, snapshot, wishes, seen>>

AnswerDestination ==
  /\ Asking("destination")
  /\ \E value \in {"old", "new"} :
       /\ destination' = value
       /\ IF value = destination THEN UNCHANGED refresh ELSE ResetExisting
  /\ Answered /\ UNCHANGED <<platform, version, choice, prefer, convert, seen>>

AnswerWish ==
  /\ \/ Asking("preference") /\ prefer' \in BOOLEAN /\ UNCHANGED <<convert, refresh>>
     \/ Asking("conversion") /\ convert' \in {"no", "convert", "replace"} /\ UNCHANGED <<prefer, refresh>>
     \/ Asking("existing") /\ refresh' \in BOOLEAN /\ UNCHANGED <<prefer, convert>>
  /\ Answered /\ UNCHANGED <<place, choice, seen>>

\* Left Arrow: the guides ticked so far are remembered.
Back ==
  /\ selAt = "prompt" /\ history # <<>>
  /\ current' = Last(history) /\ history' = SubSeq(history, 1, Len(history) - 1)
  /\ IF current = "guides" THEN draft' \in SUBSET Tickable ELSE UNCHANGED draft
  /\ selAt' = "present"
  /\ UNCHANGED <<given, place, mode, all, guides, skipped, snapshot, wishes, seen, held, selected>>

\* Ctrl-C, a closed terminal or the end of the context.
GiveUp ==
  /\ selAt \in {"start", "present", "prompt", "follow"} /\ Fail
  /\ UNCHANGED <<given, place, choice, wishes, seen, current, history, held>>

-----------------------------------------------------------------------------
\* selectDocuments refuses what is not mapped.
Refused(docs) == Docs = {} \/ ~(docs \subseteq Docs) \/ (all /\ <<platform, version>> \in Faulty)

\* A complete command line: completeInteractiveSelection without questions.
Direct ==
  /\ selAt = "start" /\ ~Guided
  /\ LET docs == IF all THEN Docs ELSE guides IN
     IF Refused(docs) THEN Fail /\ UNCHANGED <<seen, guides, skipped, snapshot>>
     ELSE /\ Scan(docs, prefer)
          /\ IF all THEN Apply(docs) ELSE UNCHANGED <<guides, skipped, snapshot>>
          /\ IF (IF all THEN Left(docs) = {} ELSE Left(docs) # docs) THEN Fail
             ELSE selAt' = "ended" /\ selected' = "chosen"
  /\ UNCHANGED <<given, place, mode, all, draft, wishes, current, history, held>>

\* Another run publishes the release, or an operator moves it away.
Disturb ==
  /\ selAt \in {"present", "prompt"} /\ held # "blocked" /\ held' \in {"none", "library", "blocked"} \ {held}
  /\ UNCHANGED <<given, place, choice, wishes, seen, current, history, selAt, selected>>

Answer == \/ AnswerPlatform \/ AnswerVersion \/ AnswerMode \/ AnswerGuides
          \/ AnswerDestination \/ AnswerWish
SelectionStep == Begin \/ Follow \/ Present \/ Answer \/ Back \/ GiveUp \/ Direct

Init ==
  /\ given \in Starts
  /\ platform = given.platform /\ version = given.version /\ all = given.all /\ guides = given.guides
  /\ mode = (IF given.all THEN "all" ELSE IF given.guides # {} THEN "some" ELSE "")
  /\ draft = given.guides /\ destination = given.destination
  /\ prefer = given.prefer /\ convert = given.convert /\ refresh = given.refresh
  /\ skipped = {} /\ snapshot = FALSE /\ replaced = {}
  /\ sources = [d \in Guides |-> "unseen"] /\ publisher = [d \in Guides |-> "unseen"]
  /\ current = "" /\ history = <<>> /\ held \in {"none", "library"}
  /\ selAt = "start" /\ selected = "none"

Next == SelectionStep \/ Disturb

-----------------------------------------------------------------------------
TypeOK ==
  /\ platform \in Platforms \cup {Unset} /\ version \in Versions \cup {Unset}
  /\ mode \in {"", "all", "some"} /\ guides \subseteq Guides /\ draft \subseteq Guides
  /\ sources \in [Guides -> {"unseen", "served", "gone", "unknown"}]
  /\ publisher \in [Guides -> {"unseen", "offered", "not offered"}]
  /\ replaced \subseteq Versions \X Guides /\ skipped \subseteq Guides
  /\ selAt \in {"start", "present", "prompt", "follow", "ended"}

\* The guides that the download takes.
Taken == IF all /\ ~snapshot THEN Docs ELSE IF mode = "some" /\ Guided THEN draft ELSE guides

\* However the user wandered through the questions, the choice stands for the
\* place finally chosen: its guides are mapped there and none is known to be
\* gone, "all" leaves out only what is gone, what the command line fixed is
\* untouched, and no answer survives that the final choice would not ask for.
ChoiceStands ==
  selected = "chosen" =>
    /\ Taken # {} /\ Taken \subseteq Docs
    /\ \A d \in Taken : sources[d] = "gone" => <<version, d>> \in replaced
    /\ all => Taken = Docs \ Gone(Docs) /\ <<platform, version>> \notin Faulty
    /\ \A option \in given.fixed :
         CASE option = "platform" -> platform = given.platform
           [] option = "version" -> version = given.version
           [] option = "destination" -> destination = given.destination
           [] option = "guides" -> Taken = given.guides
           [] option = "all" -> all
           [] option = "prefer" -> prefer = given.prefer
           [] option = "convert" -> convert = given.convert
           [] option = "refresh" -> refresh = given.refresh
    /\ prefer /\ ~Fixed("prefer") => \E d \in HTML(Taken) : publisher[d] = "offered"
    /\ convert # "no" /\ ~Fixed("convert") =>
         \E d \in HTML(Taken) : ~prefer \/ publisher[d] # "offered"
    /\ refresh /\ ~Fixed("refresh") => destination = "old"

\* README.md:889: "Guides unavailable at their resolved mapped routes are
\* reported": of all guides of a place each is downloaded or reported as skipped.
AllReported == selected = "chosen" /\ all => Taken \cup skipped = Docs

=============================================================================
