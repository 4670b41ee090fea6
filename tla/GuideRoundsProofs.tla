------------------------- MODULE GuideRoundsProofs -------------------------
(***************************************************************************)
(* What holds of GuideRounds for every number of guides, rounds and runs,  *)
(* whatever the publisher serves.                                          *)
(*                                                                         *)
(* A guide is in one place at a time: not attempted yet, being attempted,  *)
(* put aside once, to be tried again once, or recorded once.  So a run     *)
(* accepts a guide at most once, which is what lets a copy be compared     *)
(* with the published one, and its record says what became of it.          *)
(***************************************************************************)
EXTENDS GuideRounds, TLAPS

-----------------------------------------------------------------------------
(* The invariant.                                                          *)

Queued(s, g) == \E i \in 1..Len(s) : s[i].guide = g
QueuedOnce(s) == \A i, j \in 1..Len(s) : s[i].guide = s[j].guide => i = j

\* A guide that was not tried is nowhere; one that was tried is in one place.
OnePlace ==
  /\ QueuedOnce(stalled) /\ QueuedOnce(retry)
  /\ \A g \in Guides :
       /\ g \in todo \/ g \notin selected <=> tries[g] = 0
       /\ tries[g] > 0 <=> current.guide = g \/ Queued(stalled, g) \/ Queued(retry, g) \/ attempts[g] # <<>>
       /\ current.guide = g => ~Queued(stalled, g) /\ ~Queued(retry, g)
       /\ Queued(stalled, g) => ~Queued(retry, g)
       /\ current.guide = g \/ Queued(stalled, g) \/ Queued(retry, g) => attempts[g] = <<>>
       /\ Len(attempts[g]) <= 1

\* How often a guide was tried, and the first failure it goes by.
Tried ==
  /\ current = NoAttempt \/ current.guide \in Guides
  /\ current # NoAttempt => /\ tries[current.guide] = round + 1
                            /\ current.first = IF round > 0 THEN 1 ELSE 0
  /\ \A i \in 1..Len(stalled) : stalled[i].first = 1 /\ tries[stalled[i].guide] = round + 1
  /\ \A i \in 1..Len(retry) : retry[i].first = 1 /\ tries[retry[i].guide] = round
  /\ FirstFailureRecorded

\* What the phases have left behind.
Phases ==
  /\ phase = "pass" => round = 0 /\ retry = <<>>
  /\ phase \in {"publish", "closed"} => Idle /\ stalled = <<>> /\ retry = <<>>
  /\ round = Rounds => stalled = <<>>
  /\ phase \in {"retry", "publish"} => todo = {} \/ cancelled
  /\ phase # "closed" => report.exit = "running" /\ ~pdfOnly
  /\ phase = "closed" => guides = library

Better(old, new) ==
  /\ new # None /\ new.holes \subseteq old.holes
  /\ Generated(old) => ~GeneratedFailed(new)

\* A guide without a record is as it was published, one with a record no worse.
Kept ==
  \A g \in Guides :
    /\ attempts[g] = <<>> => guides[g] = library[g]
    /\ library[g] # None => Better(library[g], guides[g])
    /\ \A i \in 1..Len(attempts[g]) :
         /\ attempts[g][i].status # "failed" => guides[g] # None
         /\ attempts[g][i].status = "complete" => ~attempts[g][i].retained

AtRootAs(of, g, n) == of[g] # None /\ of[g].root /\ of[g].name = n

\* No two guides keep a PDF of the same name in the release folder.
RootsApart(of) == \A g, h \in Guides : \A n \in Names : AtRootAs(of, g, n) /\ AtRootAs(of, h, n) => g = h

Matches(st, of) ==
  /\ st.folders = {g \in Guides : of[g] # None /\ ~of[g].root}
  /\ \A n \in Names : \A g \in Guides : st.files[n] = g <=> AtRootAs(of, g, n)

Staged == RootsApart(guides) /\ RootsApart(library) /\ Matches(stage, guides)

Inv == TypeOK /\ OnePlace /\ Tried /\ Phases /\ Kept /\ Staged /\ ClosedTruthfully

-----------------------------------------------------------------------------
(* Queues of attempts.                                                     *)

LEMMA QueueGuides ==
  ASSUME NEW s \in Seq(Items)
  PROVE  \A i \in 1..Len(s) : s[i].guide \in Guides /\ Queued(s, s[i].guide)
<1>1. \A i \in 1..Len(s) : s[i] \in Items
  OBVIOUS
<1> QED BY <1>1 DEF Items, Queued

\* Putting a guide aside.
LEMMA QueueAppend ==
  ASSUME NEW s \in Seq(Items), NEW x \in Items, QueuedOnce(s), ~Queued(s, x.guide)
  PROVE  /\ Append(s, x) \in Seq(Items) /\ QueuedOnce(Append(s, x))
         /\ \A g : Queued(Append(s, x), g) <=> Queued(s, g) \/ g = x.guide
         /\ \A i \in 1..Len(Append(s, x)) : Append(s, x)[i] = x \/ \E j \in 1..Len(s) : Append(s, x)[i] = s[j]
<1> DEFINE t == Append(s, x)
<1>1. /\ t \in Seq(Items) /\ Len(t) = Len(s) + 1 /\ Len(s) \in Nat
      /\ t[Len(s) + 1] = x /\ \A i \in 1..Len(s) : t[i] = s[i]
  OBVIOUS
<1> HIDE DEF t
<1>2. QueuedOnce(t)
  BY <1>1 DEF QueuedOnce, Queued
<1>3. \A g : Queued(t, g) <=> Queued(s, g) \/ g = x.guide
  BY <1>1 DEF Queued
<1>4. \A i \in 1..Len(t) : t[i] = x \/ \E j \in 1..Len(s) : t[i] = s[j]
  BY <1>1
<1> QED BY <1>1, <1>2, <1>3, <1>4 DEF t

\* Taking the first one up again.
LEMMA QueueTail ==
  ASSUME NEW s \in Seq(Items), s # <<>>, QueuedOnce(s)
  PROVE  /\ Tail(s) \in Seq(Items) /\ Head(s) \in Items /\ QueuedOnce(Tail(s))
         /\ 1 \in 1..Len(s) /\ Head(s) = s[1] /\ Queued(s, Head(s).guide)
         /\ \A g : Queued(Tail(s), g) <=> Queued(s, g) /\ g # Head(s).guide
         /\ \A i \in 1..Len(Tail(s)) : \E j \in 1..Len(s) : Tail(s)[i] = s[j]
<1> DEFINE t == Tail(s)
<1>1. /\ t \in Seq(Items) /\ Len(t) = Len(s) - 1 /\ Len(s) \in Nat \ {0}
      /\ \A i \in 1..Len(t) : t[i] = s[i + 1]
  OBVIOUS
<1>2. Head(s) = s[1] /\ 1 \in 1..Len(s) /\ s[1] \in Items
  BY <1>1
<1> HIDE DEF t
<1>3. QueuedOnce(t)
  BY <1>1 DEF QueuedOnce
<1>4. ASSUME NEW g PROVE Queued(t, g) <=> Queued(s, g) /\ g # Head(s).guide
  <2>1. ASSUME Queued(t, g) PROVE Queued(s, g) /\ g # Head(s).guide
    <3>1. PICK i \in 1..Len(t) : t[i].guide = g
      BY <2>1 DEF Queued
    <3>2. i + 1 \in 1..Len(s) /\ s[i + 1].guide = g /\ i + 1 # 1
      BY <1>1, <3>1
    <3> QED BY <1>2, <3>2 DEF Queued, QueuedOnce
  <2>2. ASSUME Queued(s, g), g # Head(s).guide PROVE Queued(t, g)
    <3>1. PICK i \in 1..Len(s) : s[i].guide = g
      BY <2>2 DEF Queued
    <3>2. i # 1 /\ i - 1 \in 1..Len(t) /\ t[i - 1] = s[i]
      BY <1>1, <1>2, <2>2, <3>1
    <3> QED BY <3>1, <3>2 DEF Queued
  <2> QED BY <2>1, <2>2
<1>5. Queued(s, Head(s).guide)
  BY <1>2 DEF Queued
<1>6. \A i \in 1..Len(t) : i + 1 \in 1..Len(s) /\ t[i] = s[i + 1]
  BY <1>1
<1> QED BY <1>1, <1>2, <1>3, <1>4, <1>5, <1>6 DEF t

LEMMA QueueEmpty ==
  /\ <<>> \in Seq(Items) /\ QueuedOnce(<<>>) /\ Len(<<>>) = 0 /\ \A g : ~Queued(<<>>, g)
BY DEF QueuedOnce, Queued

\* The first record of a guide.
LEMMA FirstRecord ==
  ASSUME NEW r \in Records
  PROVE  /\ Append(<<>>, r) \in Seq(Records) /\ Len(Append(<<>>, r)) = 1 /\ Append(<<>>, r)[1] = r
         /\ Append(<<>>, r) # <<>>
OBVIOUS

-----------------------------------------------------------------------------
(* The staged release.                                                     *)

\* What Entries gives when no two guides keep a PDF of one name.
LEMMA EntriesMatch ==
  ASSUME NEW of, RootsApart(of)
  PROVE  Matches(Entries(of), of) /\ Entries(of) \in [folders : SUBSET Guides, files : [Names -> Guides \cup {None}]]
<1> DEFINE own(n) == IF \E g \in Guides : AtRootAs(of, g, n) THEN CHOOSE g \in Guides : AtRootAs(of, g, n) ELSE None
<1>1. Entries(of) = [folders |-> {g \in Guides : of[g] # None /\ ~of[g].root}, files |-> [n \in Names |-> own(n)]]
  BY DEF Entries, AtRootAs
<1>2. ASSUME NEW n \in Names
      PROVE  own(n) \in Guides \cup {None} /\ \A g \in Guides : own(n) = g <=> AtRootAs(of, g, n)
  <2>1. CASE \E g \in Guides : AtRootAs(of, g, n)
    <3>1. own(n) \in Guides /\ AtRootAs(of, own(n), n)
      BY <2>1
    <3> QED BY <3>1 DEF RootsApart
  <2>2. CASE ~\E g \in Guides : AtRootAs(of, g, n)
    BY <2>2, NoneAssumption
  <2> QED BY <2>1, <2>2
<1> HIDE DEF own
<1> QED BY <1>1, <1>2 DEF Matches

\* A release folder that matches the guides is theirs.
LEMMA MatchIsEntries ==
  ASSUME NEW of, RootsApart(of), Matches(stage, of), TypeOK
  PROVE  stage = Entries(of)
<1> DEFINE Shape == [folders : SUBSET Guides, files : [Names -> Guides \cup {None}]]
<1>1. stage \in Shape /\ Entries(of) \in Shape
  BY EntriesMatch DEF TypeOK
<1>2. Matches(Entries(of), of)
  BY EntriesMatch
<1>3. stage.folders = Entries(of).folders
  BY <1>2 DEF Matches
<1>4. \A n \in Names : stage.files[n] = Entries(of).files[n]
  BY <1>1, <1>2 DEF Matches
<1>5. stage.files = Entries(of).files
  BY <1>1, <1>4
<1> QED BY <1>1, <1>3, <1>5

Stages == [folders : SUBSET Guides, files : [Names -> Guides \cup {None}]]

LEMMA CopyTypes ==
  ASSUME NEW g \in Guides, NEW copy \in Copies(g)
  PROVE  copy \in CopySet /\ copy # None
<1>1. PICK offer \in Offers[g], pdf \in {"none", "complete", "failed"} :
        offer.format \in {"html", "pdf"} /\ copy = Copy(offer, pdf)
  BY DEF Copies
<1>2. offer.name \in Names
  BY <1>1, OffersAssumption
<1>3. offer.holes \in UNION {{o.holes : o \in Offers[h]} : h \in Guides}
  BY <1>1
<1>4. copy \in CopySet
  BY <1>1, <1>2, <1>3 DEF Copy, CopySet
<1> QED BY <1>4, NoneAssumption

\* The guides once the copy is accepted.
WithCopy(g, copy) == [guides EXCEPT ![g] = [copy EXCEPT !.root = AtRoot(g, copy)]]

\* The copy that is placed takes the place of the guide's earlier folder or PDF
\* and of nothing else.
LEMMA PlaceMatches ==
  ASSUME TypeOK, Staged, NEW g \in Guides, NEW copy \in CopySet, NEW new,
         new = WithCopy(g, copy)
  PROVE  /\ new \in [Guides -> CopySet \cup {None}] /\ new[g] # None
         /\ new[g].holes = copy.holes /\ new[g].format = copy.format /\ new[g].pdf = copy.pdf
         /\ \A h \in Guides \ {g} : new[h] = guides[h]
         /\ RootsApart(new) /\ Matches(Place(g, copy), new) /\ Place(g, copy) \in Stages
<1> DEFINE c == [copy EXCEPT !.root = AtRoot(g, copy)]
<1>1. AtRoot(g, copy) \in BOOLEAN
  BY DEF AtRoot
<1>2. /\ c \in CopySet /\ c.holes = copy.holes /\ c.format = copy.format /\ c.pdf = copy.pdf /\ c.name = copy.name
      /\ c.root = AtRoot(g, copy)
  BY <1>1 DEF CopySet
<1>3. c # None /\ copy.name \in Names
  BY <1>2, NoneAssumption DEF CopySet
<1>4. new = [guides EXCEPT ![g] = c]
  BY DEF WithCopy
<1> HIDE DEF c
<1>5. guides \in [Guides -> CopySet \cup {None}] /\ stage \in Stages
  BY DEF TypeOK, Stages
<1>6. new \in [Guides -> CopySet \cup {None}] /\ new[g] = c /\ \A h \in Guides \ {g} : new[h] = guides[h]
  BY <1>2, <1>4, <1>5
<1>7. /\ \A n \in Names : AtRootAs(new, g, n) <=> AtRoot(g, copy) /\ copy.name = n
      /\ \A h \in Guides \ {g} : \A n \in Names : AtRootAs(new, h, n) <=> AtRootAs(guides, h, n)
  BY <1>2, <1>3, <1>6 DEF AtRootAs
<1>8. AtRoot(g, copy) => \A h \in Guides \ {g} : ~AtRootAs(guides, h, copy.name)
  BY DEF AtRoot, NameTaken, AtRootAs
<1>9. RootsApart(guides) /\ Matches(stage, guides)
  BY DEF Staged
<1>10. RootsApart(new)
  <2>1. ASSUME NEW h \in Guides, NEW k \in Guides, NEW n \in Names, AtRootAs(new, h, n), AtRootAs(new, k, n)
        PROVE  h = k
    <3>1. CASE h # g /\ k # g
      BY <1>7, <1>9, <2>1, <3>1 DEF RootsApart
    <3>2. CASE h = g /\ k # g
      BY <1>7, <1>8, <2>1, <3>2
    <3>3. CASE h # g /\ k = g
      BY <1>7, <1>8, <2>1, <3>3
    <3> QED BY <3>1, <3>2, <3>3
  <2> QED BY <2>1 DEF RootsApart
<1> DEFINE cleared == IF guides[g] # None /\ guides[g].root
                      THEN [stage.files EXCEPT ![guides[g].name] = None] ELSE stage.files
<1>11. cleared \in [Names -> Guides \cup {None}]
  BY <1>5 DEF Stages
<1>12. \A n \in Names : \A h \in Guides : cleared[n] = h <=> h # g /\ AtRootAs(guides, h, n)
  <2>1. CASE guides[g] # None /\ guides[g].root
    <3>1. guides[g].name \in Names /\ AtRootAs(guides, g, guides[g].name)
      BY <1>5, <2>1 DEF CopySet, AtRootAs
    <3>2. /\ cleared[guides[g].name] = None
          /\ \A n \in Names \ {guides[g].name} : cleared[n] = stage.files[n]
      BY <1>5, <2>1, <3>1 DEF Stages
    <3>3. \A h \in Guides : AtRootAs(guides, h, guides[g].name) => h = g
      BY <1>9, <3>1 DEF RootsApart
    <3>4. \A n \in Names : AtRootAs(guides, g, n) => n = guides[g].name
      BY DEF AtRootAs
    <3>5. \A n \in Names : \A h \in Guides : stage.files[n] = h <=> AtRootAs(guides, h, n)
      BY <1>9 DEF Matches
    <3>6. None \notin Guides
      BY NoneAssumption
    <3> HIDE DEF cleared
    <3> QED BY <3>1, <3>2, <3>3, <3>4, <3>5, <3>6
  <2>2. CASE ~(guides[g] # None /\ guides[g].root)
    <3>1. cleared = stage.files /\ \A n \in Names : ~AtRootAs(guides, g, n)
      BY <2>2 DEF AtRootAs
    <3> HIDE DEF cleared
    <3> QED BY <1>9, <3>1 DEF Matches
  <2> QED BY <2>1, <2>2
<1>13. stage.folders \subseteq Guides /\ stage.folders = {h \in Guides : guides[h] # None /\ ~guides[h].root}
  BY <1>5, <1>9 DEF Stages, Matches
<1>14. CASE AtRoot(g, copy)
  <2>1. Place(g, copy) = [folders |-> stage.folders \ {g}, files |-> [cleared EXCEPT ![copy.name] = g]]
    BY <1>14 DEF Place
  <2> HIDE DEF cleared
  <2>2. Place(g, copy) \in Stages
    <3>1. [cleared EXCEPT ![copy.name] = g] \in [Names -> Guides \cup {None}]
      BY <1>11
    <3> QED BY <1>13, <2>1, <3>1 DEF Stages
  <2>3. Place(g, copy).folders = {h \in Guides : new[h] # None /\ ~new[h].root}
    <3>1. \A h \in Guides : new[h] # None /\ ~new[h].root <=> h # g /\ guides[h] # None /\ ~guides[h].root
      BY <1>2, <1>6, <1>14
    <3> QED BY <1>13, <2>1, <3>1
  <2>4. \A n \in Names : Place(g, copy).files[n] = IF n = copy.name THEN g ELSE cleared[n]
    BY <1>3, <1>11, <2>1
  <2>5. \A n \in Names : \A h \in Guides : Place(g, copy).files[n] = h <=> AtRootAs(new, h, n)
    <3>1. ASSUME NEW n \in Names, NEW h \in Guides
          PROVE  Place(g, copy).files[n] = h <=> AtRootAs(new, h, n)
      <4>1. cleared[n] = h <=> h # g /\ AtRootAs(guides, h, n)
        BY <1>12
      <4>2. h # g => (AtRootAs(new, h, n) <=> AtRootAs(guides, h, n))
        BY <1>7
      <4>3. AtRootAs(new, g, n) <=> n = copy.name
        BY <1>7, <1>14
      <4>4. CASE n = copy.name
        <5>1. Place(g, copy).files[n] = g
          BY <2>4, <4>4
        <5>2. h # g => ~AtRootAs(guides, h, n)
          BY <1>8, <1>14, <4>4
        <5> QED BY <4>2, <4>3, <4>4, <5>1, <5>2
      <4>5. CASE n # copy.name
        <5>1. Place(g, copy).files[n] = cleared[n]
          BY <2>4, <4>5
        <5> QED BY <4>1, <4>2, <4>3, <4>5, <5>1
      <4> QED BY <4>4, <4>5
    <3> QED BY <3>1
  <2> QED BY <1>2, <1>3, <1>6, <1>10, <2>2, <2>3, <2>5 DEF Matches
<1>15. CASE ~AtRoot(g, copy)
  <2>1. Place(g, copy) = [folders |-> stage.folders \cup {g}, files |-> cleared]
    BY <1>15 DEF Place
  <2> HIDE DEF cleared
  <2>2. Place(g, copy) \in Stages
    BY <1>11, <1>13, <2>1 DEF Stages
  <2>3. Place(g, copy).folders = {h \in Guides : new[h] # None /\ ~new[h].root}
    <3>1. \A h \in Guides : new[h] # None /\ ~new[h].root <=> h = g \/ (guides[h] # None /\ ~guides[h].root)
      BY <1>2, <1>3, <1>6, <1>15
    <3> QED BY <1>13, <2>1, <3>1
  <2>4. \A n \in Names : \A h \in Guides : Place(g, copy).files[n] = h <=> AtRootAs(new, h, n)
    <3>1. \A n \in Names : Place(g, copy).files[n] = cleared[n]
      BY <2>1
    <3>2. ASSUME NEW n \in Names, NEW h \in Guides
          PROVE  AtRootAs(new, h, n) <=> h # g /\ AtRootAs(guides, h, n)
      BY <1>7, <1>15
    <3> QED BY <1>12, <3>1, <3>2
  <2> QED BY <1>2, <1>3, <1>6, <1>10, <2>2, <2>3, <2>4 DEF Matches
<1> QED BY <1>14, <1>15

-----------------------------------------------------------------------------
(* Run.Accept.                                                             *)

LEMMA StatusIs ==
  ASSUME NEW copy
  PROVE  /\ AttemptStatus(copy) \in {"complete", "degraded", "incomplete", "failed"}
         /\ AttemptStatus(copy) = "failed" <=> copy = None
         /\ AttemptStatus(copy) = "complete" => copy # None /\ ~GeneratedFailed(copy) /\ Complete(copy)
<1>1. copy = None => AttemptStatus(copy) = "failed"
  BY DEF AttemptStatus
<1>2. copy # None /\ GeneratedFailed(copy) => AttemptStatus(copy) = "incomplete"
  BY DEF AttemptStatus
<1>3. copy # None /\ ~GeneratedFailed(copy) => AttemptStatus(copy) = IF Complete(copy) THEN "complete" ELSE "degraded"
  BY DEF AttemptStatus
<1> QED BY <1>1, <1>2, <1>3

\* A result that is not retained is no worse than the copy it replaces.
LEMMA NotRetained ==
  ASSUME NEW g \in Guides, NEW copy, copy # None, ~Retained(g, copy), guides[g] # None
  PROVE  /\ copy.holes \subseteq guides[g].holes
         /\ Generated(guides[g]) => ~GeneratedFailed(copy)
BY DEF Retained, Complete, Degraded, LacksNoMore

\* What accepting a guide's first result of the run does.
LEMMA AcceptKeeps ==
  ASSUME TypeOK, Staged, Kept, NEW g \in Guides, NEW copy \in CopySet \cup {None}, NEW first \in 0..Rounds,
         attempts[g] = <<>>, Accept(g, copy, first), UNCHANGED library
  PROVE  /\ guides' \in [Guides -> CopySet \cup {None}] /\ stage' \in Stages /\ work' \subseteq work
         /\ attempts' \in [Guides -> Seq(Records)]
         /\ \A h \in Guides \ {g} : attempts'[h] = attempts[h]
         /\ attempts'[g] # <<>> /\ Len(attempts'[g]) = 1 /\ attempts'[g][1].first = first
         /\ attempts'[g][1].status = AttemptStatus(copy)
         /\ Kept' /\ Staged'
<1> DEFINE r == [status |-> AttemptStatus(copy), retained |-> Retained(g, copy), first |-> first]
<1>1. Retained(g, copy) \in BOOLEAN
  BY DEF Retained
<1>2. r \in Records /\ r.status = AttemptStatus(copy) /\ (r.retained <=> Retained(g, copy)) /\ r.first = first
  BY <1>1, StatusIs DEF Records
<1>3. attempts' = [attempts EXCEPT ![g] = Append(<<>>, r)]
  BY DEF Accept
<1> HIDE DEF r
<1>4. attempts \in [Guides -> Seq(Records)]
  BY DEF TypeOK
<1>5. /\ attempts' \in [Guides -> Seq(Records)] /\ \A h \in Guides \ {g} : attempts'[h] = attempts[h]
      /\ attempts'[g] # <<>> /\ Len(attempts'[g]) = 1 /\ attempts'[g][1] = r
  BY <1>2, <1>3, <1>4, FirstRecord
<1>6. library[g] = guides[g]
  BY DEF Kept
<1>7. /\ guides' \in [Guides -> CopySet \cup {None}] /\ stage' \in Stages /\ work' \subseteq work
      /\ \A h \in Guides \ {g} : guides'[h] = guides[h]
      /\ guides[g] # None => Better(guides[g], guides'[g])
      /\ copy # None => guides'[g] # None
      /\ RootsApart(guides') /\ Matches(stage', guides')
  <2>1. CASE copy # None /\ ~Retained(g, copy)
    <3>1. /\ guides' = [guides EXCEPT ![g] = [copy EXCEPT !.root = AtRoot(g, copy)]]
          /\ stage' = Place(g, copy) /\ work' = work \ {g}
      BY <2>1 DEF Accept
    <3>2. copy \in CopySet
      BY <2>1
    <3>3. PICK new : new = guides'
      OBVIOUS
    <3>4. new = WithCopy(g, copy)
      BY <3>1, <3>3 DEF WithCopy
    <3>5. /\ new \in [Guides -> CopySet \cup {None}] /\ new[g] # None
          /\ new[g].holes = copy.holes /\ new[g].format = copy.format /\ new[g].pdf = copy.pdf
          /\ \A h \in Guides \ {g} : new[h] = guides[h]
          /\ RootsApart(new) /\ Matches(Place(g, copy), new) /\ Place(g, copy) \in Stages
      BY <3>2, <3>4, PlaceMatches
    <3>6. guides[g] # None => Better(guides[g], new[g])
      BY <2>1, <3>5, NotRetained DEF Better, GeneratedFailed
    <3> QED BY <3>1, <3>3, <3>5, <3>6
  <2>2. CASE ~(copy # None /\ ~Retained(g, copy))
    <3>1. guides' = guides /\ stage' = stage /\ work' \subseteq work
      BY <2>2 DEF Accept
    <3>2. copy # None => guides[g] # None
      BY <2>2 DEF Retained
    <3>3. guides[g] # None => Better(guides[g], guides[g])
      BY DEF Better, Generated, GeneratedFailed
    <3> QED BY <3>1, <3>2, <3>3 DEF TypeOK, Staged, Stages
  <2> QED BY <2>1, <2>2
<1>8. r.status = "complete" => ~r.retained
  <2>1. ASSUME copy # None, ~GeneratedFailed(copy), Complete(copy) PROVE ~Retained(g, copy)
    BY <2>1 DEF Retained, Complete, Degraded
  <2> QED BY <1>2, <2>1, StatusIs
<1>9. Kept'
  <2>1. ASSUME NEW h \in Guides \ {g}
        PROVE  (/\ attempts[h] = <<>> => guides[h] = library[h]
                /\ library[h] # None => Better(library[h], guides[h])
                /\ \A i \in 1..Len(attempts[h]) :
                     /\ attempts[h][i].status # "failed" => guides[h] # None
                     /\ attempts[h][i].status = "complete" => ~attempts[h][i].retained)'
    BY <1>5, <1>7 DEF Kept
  <2>2. r.status # "failed" => guides'[g] # None
    BY <1>2, <1>7, StatusIs
  <2>3. (/\ attempts[g] # <<>>
         /\ library[g] # None => Better(library[g], guides[g])
         /\ \A i \in 1..Len(attempts[g]) :
              /\ attempts[g][i].status # "failed" => guides[g] # None
              /\ attempts[g][i].status = "complete" => ~attempts[g][i].retained)'
    BY <1>5, <1>6, <1>7, <1>8, <2>2
  <2> QED BY <2>1, <2>3 DEF Kept
<1>10. Staged'
  BY <1>7 DEF Staged
<1> QED BY <1>2, <1>5, <1>7, <1>9, <1>10

-----------------------------------------------------------------------------
(* The passes.                                                             *)

\* What the invariant says of the attempt under way.
LEMMA Current ==
  ASSUME Inv
  PROVE  /\ Idle <=> current.guide \notin Guides
         /\ ~Idle => /\ current.guide \in selected /\ attempts[current.guide] = <<>> /\ current.first \in 0..Rounds
                     /\ ~Queued(stalled, current.guide) /\ ~Queued(retry, current.guide)
                     /\ phase \notin {"publish", "closed"}
<1>1. NoAttempt.guide = None /\ None \notin Guides
  BY NoneAssumption DEF NoAttempt
<1>2. Idle <=> current.guide \notin Guides
  BY <1>1 DEF Inv, Tried, Idle
<1>3. current.first \in 0..Rounds
  BY DEF Inv, TypeOK
<1>4. ASSUME NEW g \in Guides, current.guide = g
      PROVE  g \in selected /\ attempts[g] = <<>> /\ ~Queued(stalled, g) /\ ~Queued(retry, g)
  <2>1. tries[g] > 0
    BY <1>4 DEF Inv, OnePlace
  <2> QED BY <1>4, <2>1 DEF Inv, OnePlace
<1> QED BY <1>2, <1>3, <1>4 DEF Inv, Phases

\* A run that goes on has reported nothing yet.
LEMMA RunningTruthful ==
  ASSUME Inv, phase # "closed", UNCHANGED <<report, pdfOnly>>
  PROVE  ClosedTruthfully'
<1>1. report'.exit = "running" /\ ~pdfOnly'
  BY DEF Inv, Phases
<1> QED BY <1>1 DEF ClosedTruthfully

LEMMA AttemptKeeps ==
  ASSUME Inv, NEW g \in Guides, Attempt(g)
  PROVE  Inv'
<1>1. /\ phase = "pass" /\ Idle /\ g \in todo /\ todo' = todo \ {g}
      /\ current' = [guide |-> g, first |-> 0] /\ tries' = [tries EXCEPT ![g] = @ + 1] /\ work' = work \cup {g}
      /\ UNCHANGED <<phase, mode, selected, stalled, retry, round, ended, cancelled, guides, stage, attempts,
                     library, pdfOnly, report>>
  BY DEF Attempt, Begin, outVars
<1>2. tries \in [Guides -> 0..Rounds + 1] /\ tries[g] = 0 /\ round = 0 /\ g \in selected /\ Rounds \in Nat
  BY <1>1, RoundsAssumption DEF Inv, TypeOK, OnePlace, Phases
<1>3. tries' \in [Guides -> 0..Rounds + 1] /\ tries'[g] = 1 /\ \A h \in Guides \ {g} : tries'[h] = tries[h]
  BY <1>1, <1>2
<1>4. ~Queued(stalled, g) /\ ~Queued(retry, g) /\ attempts[g] = <<>>
  BY <1>2 DEF Inv, OnePlace
<1>5. current.guide \notin Guides /\ current'.guide = g /\ current'.first = 0 /\ current' # NoAttempt
  BY <1>1, Current, NoneAssumption DEF NoAttempt
<1>6. TypeOK'
  <2>1. current' \in [guide : Guides \cup {None}, first : 0..Rounds]
    BY <1>1, <1>2
  <2> QED BY <1>1, <1>2, <1>3, <2>1 DEF Inv, TypeOK
<1>7. OnePlace'
  <2>1. ASSUME NEW h \in Guides
        PROVE  (/\ h \in todo \/ h \notin selected <=> tries[h] = 0
                /\ tries[h] > 0 <=> current.guide = h \/ Queued(stalled, h) \/ Queued(retry, h) \/ attempts[h] # <<>>
                /\ current.guide = h => ~Queued(stalled, h) /\ ~Queued(retry, h)
                /\ Queued(stalled, h) => ~Queued(retry, h)
                /\ current.guide = h \/ Queued(stalled, h) \/ Queued(retry, h) => attempts[h] = <<>>
                /\ Len(attempts[h]) <= 1)'
    <3>1. UNCHANGED <<Queued(stalled, h), Queued(retry, h), attempts[h], selected>>
      BY <1>1
    <3>2. CASE h = g
      BY <1>1, <1>2, <1>3, <1>4, <1>5, <3>1, <3>2 DEF Inv, OnePlace
    <3>3. CASE h # g
      BY <1>1, <1>3, <1>5, <3>1, <3>3 DEF Inv, OnePlace
    <3> QED BY <3>2, <3>3
  <2> QED BY <1>1, <2>1 DEF Inv, OnePlace
<1>8. Tried'
  <2>1. \A i \in 1..Len(stalled) : stalled[i].guide \in Guides \ {g}
    BY <1>4, QueueGuides DEF Inv, TypeOK
  <2>2. \A i \in 1..Len(retry) : retry[i].guide \in Guides \ {g}
    BY <1>4, QueueGuides DEF Inv, TypeOK
  <2>3. FirstFailureRecorded'
    BY <1>1, <1>3, <1>4 DEF Inv, Tried, FirstFailureRecorded
  <2> QED BY <1>1, <1>2, <1>3, <1>5, <2>1, <2>2, <2>3 DEF Inv, Tried
<1>9. Phases'
  BY <1>1 DEF Inv, Phases
<1>10. Kept' /\ Staged'
  BY <1>1 DEF Inv, Kept, Staged
<1>11. ClosedTruthfully'
  BY <1>1, RunningTruthful
<1> QED BY <1>6, <1>7, <1>8, <1>9, <1>10, <1>11 DEF Inv

LEMMA AttemptAgainKeeps ==
  ASSUME Inv, AttemptAgain
  PROVE  Inv'
<1> DEFINE g == Head(retry).guide
<1>1. /\ phase = "retry" /\ Idle /\ retry # <<>> /\ retry' = Tail(retry)
      /\ current' = [guide |-> g, first |-> Head(retry).first]
      /\ tries' = [tries EXCEPT ![g] = @ + 1] /\ work' = work \cup {g}
      /\ UNCHANGED <<phase, mode, selected, todo, stalled, round, ended, cancelled, guides, stage, attempts,
                     library, pdfOnly, report>>
  BY DEF AttemptAgain, Begin, outVars
<1>2. /\ Tail(retry) \in Seq(Items) /\ Head(retry) \in Items /\ QueuedOnce(Tail(retry))
      /\ 1 \in 1..Len(retry) /\ Head(retry) = retry[1] /\ Queued(retry, g)
      /\ \A h : Queued(Tail(retry), h) <=> Queued(retry, h) /\ h # g
      /\ \A i \in 1..Len(Tail(retry)) : \E j \in 1..Len(retry) : Tail(retry)[i] = retry[j]
  BY <1>1, QueueTail DEF Inv, TypeOK, OnePlace
<1>3. g \in Guides /\ Head(retry).first = 1 /\ tries[g] = round
  BY <1>2 DEF Items, Inv, Tried
<1> HIDE DEF g
<1>4. tries[g] > 0 /\ attempts[g] = <<>> /\ ~Queued(stalled, g) /\ g \in selected /\ g \notin todo
  BY <1>2, <1>3 DEF Inv, OnePlace
<1>5. tries \in [Guides -> 0..Rounds + 1] /\ round \in 1..Rounds /\ Rounds \in Nat
  BY <1>3, <1>4, RoundsAssumption DEF Inv, TypeOK
<1>6. tries' \in [Guides -> 0..Rounds + 1] /\ tries'[g] = round + 1 /\ \A h \in Guides \ {g} : tries'[h] = tries[h]
  BY <1>1, <1>3, <1>5
<1>7. current.guide \notin Guides /\ current'.guide = g /\ current'.first = 1 /\ current' # NoAttempt
  BY <1>1, <1>3, Current DEF NoAttempt
<1>8. TypeOK'
  <2>1. current' \in [guide : Guides \cup {None}, first : 0..Rounds]
    BY <1>1, <1>3, <1>5
  <2> QED BY <1>1, <1>2, <1>4, <1>6, <2>1 DEF Inv, TypeOK
<1>9. OnePlace'
  <2>1. ASSUME NEW h \in Guides
        PROVE  (/\ h \in todo \/ h \notin selected <=> tries[h] = 0
                /\ tries[h] > 0 <=> current.guide = h \/ Queued(stalled, h) \/ Queued(retry, h) \/ attempts[h] # <<>>
                /\ current.guide = h => ~Queued(stalled, h) /\ ~Queued(retry, h)
                /\ Queued(stalled, h) => ~Queued(retry, h)
                /\ current.guide = h \/ Queued(stalled, h) \/ Queued(retry, h) => attempts[h] = <<>>
                /\ Len(attempts[h]) <= 1)'
    <3>1. UNCHANGED <<Queued(stalled, h), attempts[h], selected, todo>>
      BY <1>1
    <3>2. Queued(retry', h) <=> Queued(retry, h) /\ h # g
      BY <1>1, <1>2
    <3>3. CASE h = g
      BY <1>4, <1>5, <1>6, <1>7, <3>1, <3>2, <3>3 DEF Inv, OnePlace
    <3>4. CASE h # g
      BY <1>6, <1>7, <3>1, <3>2, <3>4 DEF Inv, OnePlace
    <3> QED BY <3>3, <3>4
  <2> QED BY <1>1, <1>2, <2>1 DEF Inv, OnePlace
<1>10. Tried'
  <2>1. \A i \in 1..Len(stalled) : stalled[i].guide \in Guides \ {g}
    BY <1>4, QueueGuides DEF Inv, TypeOK
  <2>2. \A i \in 1..Len(retry') : retry'[i].first = 1 /\ tries'[retry'[i].guide] = round
    <3>1. SUFFICES ASSUME NEW i \in 1..Len(retry') PROVE retry'[i].first = 1 /\ tries'[retry'[i].guide] = round
      OBVIOUS
    <3>2. PICK j \in 1..Len(retry) : retry'[i] = retry[j]
      BY <1>1, <1>2
    <3>3. Queued(retry', retry'[i].guide)
      BY DEF Queued
    <3>4. retry[j].guide \in Guides \ {g}
      BY <1>1, <1>2, <3>2, <3>3, QueueGuides DEF Inv, TypeOK
    <3> QED BY <1>6, <3>2, <3>4 DEF Inv, Tried
  <2>3. FirstFailureRecorded'
    BY <1>1, <1>4, <1>6 DEF Inv, Tried, FirstFailureRecorded
  <2> QED BY <1>1, <1>3, <1>5, <1>6, <1>7, <2>1, <2>2, <2>3 DEF Inv, Tried
<1>11. Phases'
  BY <1>1 DEF Inv, Phases
<1>12. Kept' /\ Staged'
  BY <1>1 DEF Inv, Kept, Staged
<1>13. ClosedTruthfully'
  BY <1>1, RunningTruthful
<1> QED BY <1>8, <1>9, <1>10, <1>11, <1>12, <1>13 DEF Inv

LEMMA DeferKeeps ==
  ASSUME Inv, Defer
  PROVE  Inv'
<1> DEFINE g == current.guide
<1> DEFINE x == [guide |-> g, first |-> FirstFailure]
<1>1. /\ ~Idle /\ round < Rounds /\ stalled' = Append(stalled, x) /\ current' = NoAttempt
      /\ UNCHANGED <<phase, mode, selected, todo, retry, round, tries, ended, cancelled, work, guides, stage, attempts,
                     library, pdfOnly, report>>
  BY DEF Defer, MayDefer, runVars, outVars
<1>2. /\ g \in Guides /\ g \in selected /\ attempts[g] = <<>> /\ ~Queued(stalled, g) /\ ~Queued(retry, g)
      /\ phase \notin {"publish", "closed"}
  BY <1>1, Current
<1>3. round \in Nat /\ Rounds \in Nat /\ tries[g] = round + 1
  BY <1>1, RoundsAssumption DEF Inv, TypeOK, Tried, Idle
<1>4. FirstFailure = 1
  BY <1>1, <1>3 DEF Inv, Tried, Idle, FirstFailure
<1>5. x \in Items /\ x.guide = g /\ x.first = 1
  BY <1>1, <1>2, <1>3, <1>4 DEF Items
<1> HIDE DEF x
<1>6. stalled \in Seq(Items) /\ QueuedOnce(stalled)
  BY DEF Inv, TypeOK, OnePlace
<1>7. /\ stalled' \in Seq(Items) /\ QueuedOnce(stalled')
      /\ \A h : Queued(stalled', h) <=> Queued(stalled, h) \/ h = g
      /\ \A i \in 1..Len(stalled') : stalled'[i] = x \/ \E j \in 1..Len(stalled) : stalled'[i] = stalled[j]
  BY <1>1, <1>2, <1>5, <1>6, QueueAppend
<1> HIDE DEF g
<1>8. current'.guide \notin Guides
  BY <1>1, NoneAssumption DEF NoAttempt
<1>9. TypeOK'
  <2>1. current' \in [guide : Guides \cup {None}, first : 0..Rounds]
    BY <1>1, <1>3 DEF NoAttempt
  <2> QED BY <1>1, <1>7, <2>1 DEF Inv, TypeOK
<1>10. OnePlace'
  <2>1. ASSUME NEW h \in Guides
        PROVE  (/\ h \in todo \/ h \notin selected <=> tries[h] = 0
                /\ tries[h] > 0 <=> current.guide = h \/ Queued(stalled, h) \/ Queued(retry, h) \/ attempts[h] # <<>>
                /\ current.guide = h => ~Queued(stalled, h) /\ ~Queued(retry, h)
                /\ Queued(stalled, h) => ~Queued(retry, h)
                /\ current.guide = h \/ Queued(stalled, h) \/ Queued(retry, h) => attempts[h] = <<>>
                /\ Len(attempts[h]) <= 1)'
    <3>1. UNCHANGED <<Queued(retry, h), attempts[h], tries, selected, todo>>
      BY <1>1
    <3>2. current.guide = h <=> h = g
      BY DEF g
    <3> QED BY <1>2, <1>7, <1>8, <3>1, <3>2 DEF Inv, OnePlace
  <2> QED BY <1>1, <1>7, <2>1 DEF Inv, OnePlace
<1>11. Tried'
  BY <1>1, <1>3, <1>5, <1>7 DEF Inv, Tried, FirstFailureRecorded
<1>12. Phases'
  BY <1>1, <1>2, <1>3 DEF Inv, Phases
<1>13. Kept' /\ Staged'
  BY <1>1 DEF Inv, Kept, Staged
<1>14. ClosedTruthfully'
  BY <1>1, <1>2, RunningTruthful
<1> QED BY <1>9, <1>10, <1>11, <1>12, <1>13, <1>14 DEF Inv

LEMMA FinishKeeps ==
  ASSUME Inv, Finish
  PROVE  Inv'
<1> DEFINE g == current.guide
<1>1. /\ ~Idle /\ (cancelled' <=> cancelled \/ ended) /\ cancelled' \in BOOLEAN /\ current' = NoAttempt
      /\ UNCHANGED <<phase, mode, selected, todo, stalled, retry, round, tries, ended, library, pdfOnly, report>>
  BY DEF Finish, outVars, Inv, TypeOK
<1>2. /\ g \in Guides /\ g \in selected /\ attempts[g] = <<>> /\ ~Queued(stalled, g) /\ ~Queued(retry, g)
      /\ phase \notin {"publish", "closed"} /\ current.first \in 0..Rounds
  BY <1>1, Current
<1>3. PICK copy \in Copies(g) \cup {None} : Accept(g, copy, current.first)
  BY DEF Finish
<1>4. copy \in CopySet \cup {None}
  BY <1>2, CopyTypes
<1>5. TypeOK /\ Staged /\ Kept
  BY DEF Inv
<1> HIDE DEF g
<1>6. UNCHANGED library
  BY <1>1
<1>7. /\ guides' \in [Guides -> CopySet \cup {None}] /\ stage' \in Stages /\ work' \subseteq work
      /\ attempts' \in [Guides -> Seq(Records)]
      /\ \A h \in Guides \ {g} : attempts'[h] = attempts[h]
      /\ attempts'[g] # <<>> /\ Len(attempts'[g]) = 1 /\ attempts'[g][1].first = current.first
      /\ Kept' /\ Staged'
  BY <1>2, <1>3, <1>4, <1>5, <1>6, AcceptKeeps
<1>8. current'.guide \notin Guides /\ round \in Nat /\ Rounds \in Nat
  BY <1>1, NoneAssumption, RoundsAssumption DEF NoAttempt, Inv, TypeOK
<1>9. tries[g] = round + 1 /\ current.first = IF round > 0 THEN 1 ELSE 0
  BY <1>1 DEF Inv, Tried, Idle, g
<1>10. TypeOK'
  <2>1. current' \in [guide : Guides \cup {None}, first : 0..Rounds]
    BY <1>1, <1>8 DEF NoAttempt
  <2> QED BY <1>1, <1>7, <2>1 DEF Inv, TypeOK, Stages
<1>11. OnePlace'
  <2>1. ASSUME NEW h \in Guides
        PROVE  (/\ h \in todo \/ h \notin selected <=> tries[h] = 0
                /\ tries[h] > 0 <=> current.guide = h \/ Queued(stalled, h) \/ Queued(retry, h) \/ attempts[h] # <<>>
                /\ current.guide = h => ~Queued(stalled, h) /\ ~Queued(retry, h)
                /\ Queued(stalled, h) => ~Queued(retry, h)
                /\ current.guide = h \/ Queued(stalled, h) \/ Queued(retry, h) => attempts[h] = <<>>
                /\ Len(attempts[h]) <= 1)'
    <3>1. /\ UNCHANGED <<tries, selected, todo>>
          /\ Queued(stalled', h) <=> Queued(stalled, h)
          /\ Queued(retry', h) <=> Queued(retry, h)
      BY <1>1
    <3>2. current.guide = h <=> h = g
      BY DEF g
    <3>3. CASE h = g
      <4>1. tries[g] > 0 /\ tries[g] # 0 /\ (g \in todo \/ g \notin selected <=> tries[g] = 0)
        BY <1>2, <1>8, <1>9 DEF Inv, OnePlace
      <4>2. ~Queued(stalled', h) /\ ~Queued(retry', h) /\ current'.guide # h
        BY <1>2, <1>8, <3>1, <3>3
      <4>3. attempts'[h] # <<>> /\ Len(attempts'[h]) = 1
        BY <1>7, <3>3
      <4> QED BY <3>1, <3>3, <4>1, <4>2, <4>3
    <3>4. CASE h # g
      BY <1>7, <1>8, <3>1, <3>2, <3>4 DEF Inv, OnePlace
    <3> QED BY <3>3, <3>4
  <2> QED BY <1>1, <2>1 DEF Inv, OnePlace
<1>12. Tried'
  <2>1. ASSUME NEW h \in Guides, attempts'[h] # <<>>, attempts'[h][1].status # "failed"
        PROVE  attempts'[h][1].first = IF tries[h] > 1 THEN 1 ELSE 0
    <3>1. CASE h = g
      BY <1>7, <1>8, <1>9, <3>1
    <3>2. CASE h # g
      BY <1>7, <2>1, <3>2 DEF Inv, Tried, FirstFailureRecorded
    <3> QED BY <3>1, <3>2
  <2>2. FirstFailureRecorded'
    BY <1>1, <2>1 DEF FirstFailureRecorded
  <2> QED BY <1>1, <2>2 DEF Inv, Tried
<1>13. Phases'
  BY <1>1, <1>2 DEF Inv, Phases
<1>14. ClosedTruthfully'
  BY <1>1, <1>2, RunningTruthful
<1> QED BY <1>7, <1>10, <1>11, <1>12, <1>13, <1>14 DEF Inv

LEMMA GiveUpKeeps ==
  ASSUME Inv, GiveUp
  PROVE  Inv'
<1> DEFINE g == Head(retry).guide
<1>1. /\ phase = "retry" /\ Idle /\ retry # <<>> /\ retry' = Tail(retry) /\ cancelled' = TRUE
      /\ Accept(g, None, 0)
      /\ UNCHANGED <<phase, mode, selected, todo, current, stalled, round, tries, ended, library, pdfOnly, report>>
  BY DEF GiveUp, RecordStalled, outVars
<1>2. /\ Tail(retry) \in Seq(Items) /\ Head(retry) \in Items /\ QueuedOnce(Tail(retry))
      /\ 1 \in 1..Len(retry) /\ Head(retry) = retry[1] /\ Queued(retry, g)
      /\ \A h : Queued(Tail(retry), h) <=> Queued(retry, h) /\ h # g
      /\ \A i \in 1..Len(Tail(retry)) : \E j \in 1..Len(retry) : Tail(retry)[i] = retry[j]
  BY <1>1, QueueTail DEF Inv, TypeOK, OnePlace
<1>3. g \in Guides
  BY <1>2 DEF Items
<1> HIDE DEF g
<1>4. attempts[g] = <<>> /\ ~Queued(stalled, g) /\ current.guide \notin Guides
  BY <1>1, <1>2, <1>3, Current DEF Inv, OnePlace
<1>5. TypeOK /\ Staged /\ Kept /\ 0 \in 0..Rounds /\ UNCHANGED library
  BY <1>1, RoundsAssumption DEF Inv
<1>6. /\ guides' \in [Guides -> CopySet \cup {None}] /\ stage' \in Stages /\ work' \subseteq work
      /\ attempts' \in [Guides -> Seq(Records)]
      /\ \A h \in Guides \ {g} : attempts'[h] = attempts[h]
      /\ attempts'[g] # <<>> /\ Len(attempts'[g]) = 1 /\ attempts'[g][1].status = AttemptStatus(None)
      /\ Kept' /\ Staged'
  BY <1>1, <1>3, <1>4, <1>5, AcceptKeeps
<1>7. TypeOK'
  BY <1>1, <1>2, <1>6 DEF Inv, TypeOK, Stages
<1>8. OnePlace'
  <2>1. ASSUME NEW h \in Guides
        PROVE  (/\ h \in todo \/ h \notin selected <=> tries[h] = 0
                /\ tries[h] > 0 <=> current.guide = h \/ Queued(stalled, h) \/ Queued(retry, h) \/ attempts[h] # <<>>
                /\ current.guide = h => ~Queued(stalled, h) /\ ~Queued(retry, h)
                /\ Queued(stalled, h) => ~Queued(retry, h)
                /\ current.guide = h \/ Queued(stalled, h) \/ Queued(retry, h) => attempts[h] = <<>>
                /\ Len(attempts[h]) <= 1)'
    <3>1. UNCHANGED <<current, tries, selected, todo>> /\ (Queued(stalled', h) <=> Queued(stalled, h))
      BY <1>1
    <3>2. Queued(retry', h) <=> Queued(retry, h) /\ h # g
      BY <1>1, <1>2
    <3>3. CASE h = g
      <4>1. tries[g] > 0 /\ (g \in todo \/ g \notin selected <=> tries[g] = 0)
        BY <1>2, <1>3 DEF Inv, OnePlace
      <4>2. tries[g] \in Nat
        BY <1>3, RoundsAssumption DEF Inv, TypeOK
      <4>3. ~Queued(stalled', h) /\ ~Queued(retry', h) /\ current'.guide # h
        BY <1>4, <3>1, <3>2, <3>3
      <4>4. attempts'[h] # <<>> /\ Len(attempts'[h]) = 1
        BY <1>6, <3>3
      <4> QED BY <3>1, <3>3, <4>1, <4>2, <4>3, <4>4
    <3>4. CASE h # g
      BY <1>6, <3>1, <3>2, <3>4 DEF Inv, OnePlace
    <3> QED BY <3>3, <3>4
  <2> QED BY <1>1, <1>2, <2>1 DEF Inv, OnePlace
<1>9. Tried'
  <2>1. ASSUME NEW h \in Guides, attempts'[h] # <<>>, attempts'[h][1].status # "failed"
        PROVE  attempts'[h][1].first = IF tries[h] > 1 THEN 1 ELSE 0
    <3>1. h # g
      BY <1>6, <2>1, StatusIs
    <3> QED BY <1>6, <2>1, <3>1 DEF Inv, Tried, FirstFailureRecorded
  <2>2. FirstFailureRecorded'
    BY <1>1, <2>1 DEF FirstFailureRecorded
  <2> QED BY <1>1, <1>2, <2>2 DEF Inv, Tried
<1>10. Phases'
  BY <1>1 DEF Inv, Phases
<1>11. ClosedTruthfully'
  BY <1>1, RunningTruthful
<1> QED BY <1>6, <1>7, <1>8, <1>9, <1>10, <1>11 DEF Inv

\* The guides put aside are those to be tried again.
LEMMA StartRoundKeeps ==
  ASSUME Inv, Idle, retry = <<>>, round < Rounds, StartRound,
         UNCHANGED <<todo, selected, tries, attempts, current>>
  PROVE  /\ OnePlace' /\ Tried'
         /\ retry' \in Seq(Items) /\ stalled' \in Seq(Items) /\ round' \in 0..Rounds /\ round' > 0 /\ stalled' = <<>>
<1>1. retry' = stalled /\ stalled' = <<>> /\ round' = round + 1
  BY DEF StartRound
<1>2. stalled \in Seq(Items) /\ round \in 0..Rounds /\ Rounds \in Nat
  BY RoundsAssumption DEF Inv, TypeOK
<1>3. \A h : ~Queued(stalled', h) /\ ~Queued(retry, h) /\ (Queued(retry', h) <=> Queued(stalled, h))
  BY <1>1, QueueEmpty
<1>4. OnePlace'
  <2>1. ASSUME NEW h \in Guides
        PROVE  (/\ h \in todo \/ h \notin selected <=> tries[h] = 0
                /\ tries[h] > 0 <=> current.guide = h \/ Queued(stalled, h) \/ Queued(retry, h) \/ attempts[h] # <<>>
                /\ current.guide = h => ~Queued(stalled, h) /\ ~Queued(retry, h)
                /\ Queued(stalled, h) => ~Queued(retry, h)
                /\ current.guide = h \/ Queued(stalled, h) \/ Queued(retry, h) => attempts[h] = <<>>
                /\ Len(attempts[h]) <= 1)'
    BY <1>3 DEF Inv, OnePlace
  <2> QED BY <1>1, <2>1, QueueEmpty DEF Inv, OnePlace
<1>5. Tried'
  <2>1. \A i \in 1..Len(retry') : retry'[i].first = 1 /\ tries'[retry'[i].guide] = round'
    BY <1>1 DEF Inv, Tried
  <2>2. \A i \in 1..Len(stalled') : FALSE
    BY <1>1
  <2>3. current' = NoAttempt /\ FirstFailureRecorded'
    BY DEF Inv, Tried, Idle, FirstFailureRecorded
  <2> QED BY <2>1, <2>2, <2>3 DEF Tried
<1> QED BY <1>1, <1>2, <1>4, <1>5, QueueEmpty

LEMMA EndPassKeeps ==
  ASSUME Inv, EndPass
  PROVE  Inv'
<1>1. /\ phase = "pass" /\ Idle /\ (todo = {} \/ ended \/ cancelled)
      /\ (cancelled' <=> cancelled \/ (ended /\ todo # {})) /\ cancelled' \in BOOLEAN
      /\ UNCHANGED <<mode, selected, todo, current, tries, ended, work, guides, stage, attempts, library, pdfOnly, report>>
  BY DEF EndPass, runVars, outVars, Inv, TypeOK
<1>2. round = 0 /\ retry = <<>> /\ Rounds \in Nat
  BY <1>1, RoundsAssumption DEF Inv, Phases
<1>3. Kept' /\ Staged' /\ ClosedTruthfully'
  BY <1>1, RunningTruthful DEF Inv, Kept, Staged
<1>4. CASE Rounds = 0
  <2>1. phase' = "publish" /\ UNCHANGED <<retry, stalled, round>>
    BY <1>4 DEF EndPass
  <2>2. TypeOK' /\ OnePlace' /\ Tried'
    BY <1>1, <2>1 DEF Inv, TypeOK, OnePlace, Tried, FirstFailureRecorded
  <2>3. Phases'
    BY <1>1, <1>2, <1>4, <2>1 DEF Inv, Phases, Idle
  <2> QED BY <1>3, <2>2, <2>3 DEF Inv
<1>5. CASE Rounds # 0
  <2>1. phase' = "retry" /\ StartRound
    BY <1>5 DEF EndPass
  <2>2. /\ OnePlace' /\ Tried'
        /\ retry' \in Seq(Items) /\ stalled' \in Seq(Items) /\ round' \in 0..Rounds /\ round' > 0 /\ stalled' = <<>>
    BY <1>1, <1>2, <1>5, <2>1, StartRoundKeeps
  <2>3. TypeOK'
    BY <1>1, <2>1, <2>2 DEF Inv, TypeOK
  <2>4. Phases'
    BY <1>1, <2>1, <2>2 DEF Inv, Phases
  <2> QED BY <1>3, <2>2, <2>3, <2>4 DEF Inv
<1> QED BY <1>4, <1>5

LEMMA EndRoundKeeps ==
  ASSUME Inv, EndRound
  PROVE  Inv'
<1>1. /\ phase = "retry" /\ Idle /\ retry = <<>>
      /\ UNCHANGED <<mode, selected, todo, current, tries, ended, cancelled, work, guides, stage, attempts,
                     library, pdfOnly, report>>
  BY DEF EndRound, runVars, outVars
<1>2. Kept' /\ Staged' /\ ClosedTruthfully'
  BY <1>1, RunningTruthful DEF Inv, Kept, Staged
<1>3. CASE round < Rounds
  <2>1. StartRound /\ UNCHANGED phase
    BY <1>3 DEF EndRound
  <2>2. /\ OnePlace' /\ Tried'
        /\ retry' \in Seq(Items) /\ stalled' \in Seq(Items) /\ round' \in 0..Rounds /\ round' > 0 /\ stalled' = <<>>
    BY <1>1, <1>3, <2>1, StartRoundKeeps
  <2>3. TypeOK'
    BY <1>1, <2>1, <2>2 DEF Inv, TypeOK
  <2>4. Phases'
    BY <1>1, <2>1, <2>2 DEF Inv, Phases
  <2> QED BY <1>2, <2>2, <2>3, <2>4 DEF Inv
<1>4. CASE ~(round < Rounds)
  <2>1. phase' = "publish" /\ UNCHANGED <<retry, stalled, round>>
    BY <1>4 DEF EndRound
  <2>2. TypeOK' /\ OnePlace' /\ Tried'
    BY <1>1, <2>1 DEF Inv, TypeOK, OnePlace, Tried, FirstFailureRecorded
  <2>3. round = Rounds
    BY <1>4, RoundsAssumption DEF Inv, TypeOK
  <2>4. Phases'
    BY <1>1, <2>1, <2>3 DEF Inv, Phases, Idle
  <2> QED BY <1>2, <2>2, <2>4 DEF Inv
<1> QED BY <1>3, <1>4

LEMMA EndContextKeeps ==
  ASSUME Inv, EndContext
  PROVE  Inv'
<1>1. /\ phase # "closed" /\ ended' = TRUE
      /\ UNCHANGED <<phase, mode, selected, todo, current, stalled, retry, round, tries, cancelled,
                     work, guides, stage, attempts, library, pdfOnly, report>>
  BY DEF EndContext, passVars, runVars, outVars
<1>2. TypeOK'
  BY <1>1 DEF Inv, TypeOK
<1>3. OnePlace' /\ Tried' /\ Phases' /\ Kept' /\ Staged'
  BY <1>1 DEF Inv, OnePlace, Tried, FirstFailureRecorded, Phases, Idle, Kept, Staged
<1>4. ClosedTruthfully'
  BY <1>1, RunningTruthful
<1> QED BY <1>2, <1>3, <1>4 DEF Inv

-----------------------------------------------------------------------------
(* The beginning and the end of a run.                                     *)

\* A copy is no worse than itself.
LEMMA BetterItself ==
  ASSUME NEW c, c # None
  PROVE  Better(c, c)
BY DEF Better, Generated, GeneratedFailed

\* Nothing was attempted, and the stage is the published release.
Fresh ==
  /\ selected \in SUBSET Guides /\ todo = selected
  /\ current = NoAttempt /\ stalled = <<>> /\ retry = <<>> /\ round = 0
  /\ tries = [g \in Guides |-> 0] /\ attempts = [g \in Guides |-> <<>>]
  /\ ended = FALSE /\ cancelled = FALSE
  /\ work = {} /\ guides = library /\ stage = Entries(guides)
  /\ library \in [Guides -> CopySet \cup {None}] /\ RootsApart(library)
  /\ phase \in {"closed", "pass", "retry", "publish"} /\ mode \in {"pages", "companion", "replace"}
  /\ pdfOnly \in BOOLEAN
  /\ report \in [exit : {"running", "0", "1", "2", "130"}, status : {"none", "complete", "degraded", "incomplete"}]

LEMMA FreshKeeps ==
  ASSUME Fresh
  PROVE  TypeOK /\ OnePlace /\ Tried /\ Kept /\ Staged
<1>1. Rounds \in Nat /\ None \notin Guides
  BY RoundsAssumption, NoneAssumption
<1>2. current.guide = None /\ current \in [guide : Guides \cup {None}, first : 0..Rounds]
  BY <1>1 DEF Fresh, NoAttempt
<1>3. /\ tries \in [Guides -> 0..Rounds + 1] /\ \A g \in Guides : tries[g] = 0
      /\ attempts \in [Guides -> Seq(Records)] /\ \A g \in Guides : attempts[g] = <<>> /\ Len(attempts[g]) = 0
  BY <1>1 DEF Fresh
<1>4. RootsApart(guides) /\ Matches(stage, guides) /\ stage \in Stages
  BY EntriesMatch DEF Fresh, Stages
<1>5. TypeOK
  <2>1. /\ stalled \in Seq(Items) /\ retry \in Seq(Items) /\ round \in 0..Rounds
    BY <1>1, QueueEmpty DEF Fresh
  <2>2. /\ selected \subseteq Guides /\ todo \subseteq selected /\ work \subseteq selected
        /\ ended \in BOOLEAN /\ cancelled \in BOOLEAN
        /\ guides \in [Guides -> CopySet \cup {None}]
    BY DEF Fresh
  <2> QED BY <1>2, <1>3, <1>4, <2>1, <2>2 DEF Fresh, TypeOK, Stages
<1>6. OnePlace
  <2>1. QueuedOnce(stalled) /\ QueuedOnce(retry) /\ \A g : ~Queued(stalled, g) /\ ~Queued(retry, g)
    BY QueueEmpty DEF Fresh
  <2>2. ASSUME NEW g \in Guides
        PROVE  /\ g \in todo \/ g \notin selected <=> tries[g] = 0
               /\ tries[g] > 0 <=> current.guide = g \/ Queued(stalled, g) \/ Queued(retry, g) \/ attempts[g] # <<>>
               /\ current.guide # g /\ ~Queued(stalled, g) /\ ~Queued(retry, g) /\ Len(attempts[g]) <= 1
    <3>1. tries[g] = 0 /\ attempts[g] = <<>> /\ Len(attempts[g]) = 0 /\ ~(tries[g] > 0)
      BY <1>3
    <3>2. current.guide # g /\ (g \in todo \/ g \notin selected)
      BY <1>1, <1>2 DEF Fresh
    <3> QED BY <2>1, <3>1, <3>2
  <2> QED BY <2>1, <2>2 DEF OnePlace
<1>7. Tried
  BY <1>3 DEF Fresh, Tried, FirstFailureRecorded
<1>8. Kept
  BY <1>3, BetterItself DEF Fresh, Kept
<1>9. Staged
  BY <1>4 DEF Fresh, Staged
<1> QED BY <1>5, <1>6, <1>7, <1>8, <1>9

LEMMA InvInit ==
  ASSUME Init
  PROVE  Inv
<1>1. library \in [Guides -> CopySet \cup {None}] /\ RootsApart(library) /\ guides = library
  BY DEF Init, RootsApart, AtRootAs
<1>2. Fresh
  BY <1>1 DEF Init, Fresh
<1>3. Phases
  BY <1>1 DEF Init, Phases, Idle
<1>4. ClosedTruthfully
  BY DEF Init, ClosedTruthfully
<1> QED BY <1>2, <1>3, <1>4, FreshKeeps DEF Inv

LEMMA OpenKeeps ==
  ASSUME Inv, Open
  PROVE  Inv'
<1>1. /\ phase = "closed" /\ ~pdfOnly /\ phase' = "pass" /\ mode' \in {"pages", "companion", "replace"}
      /\ selected' \in SUBSET Guides /\ todo' = selected'
      /\ current' = NoAttempt /\ stalled' = <<>> /\ retry' = <<>> /\ round' = 0
      /\ tries' = [g \in Guides |-> 0] /\ attempts' = [g \in Guides |-> <<>>]
      /\ ended' = FALSE /\ cancelled' = FALSE
      /\ work' = {} /\ guides' = library /\ stage' = Entries(library)
      /\ report' = [exit |-> "running", status |-> "none"] /\ UNCHANGED <<library, pdfOnly>>
  BY DEF Open, NewWork
<1>2. library \in [Guides -> CopySet \cup {None}] /\ RootsApart(library) /\ pdfOnly \in BOOLEAN
  BY DEF Inv, TypeOK, Staged
<1>3. Fresh'
  BY <1>1, <1>2 DEF Fresh
<1>4. (TypeOK /\ OnePlace /\ Tried /\ Kept /\ Staged)'
  BY <1>3, FreshKeeps, PTL
<1>5. Phases' /\ ClosedTruthfully'
  BY <1>1 DEF Phases, ClosedTruthfully
<1> QED BY <1>4, <1>5 DEF Inv

LEMMA AbortKeeps ==
  ASSUME Inv, Abort
  PROVE  Inv'
<1>1. /\ phase # "closed" /\ phase' = "closed" /\ mode' = "pages" /\ selected' = {} /\ todo' = {}
      /\ current' = NoAttempt /\ stalled' = <<>> /\ retry' = <<>> /\ round' = 0
      /\ tries' = [g \in Guides |-> 0] /\ attempts' = [g \in Guides |-> <<>>]
      /\ ended' = FALSE /\ cancelled' = FALSE
      /\ work' = {} /\ guides' = library /\ stage' = Entries(guides')
      /\ report' = [exit |-> "1", status |-> "none"] /\ UNCHANGED <<library, pdfOnly>>
  BY DEF Abort, Emptied
<1>2. library \in [Guides -> CopySet \cup {None}] /\ RootsApart(library) /\ ~pdfOnly /\ pdfOnly \in BOOLEAN
  BY <1>1 DEF Inv, TypeOK, Staged, Phases
<1>3. Fresh'
  <2>1. stage' = Entries(library)
    BY <1>1
  <2>2. selected' \in SUBSET Guides /\ todo' = selected'
    BY <1>1
  <2>3. report' \in [exit : {"running", "0", "1", "2", "130"}, status : {"none", "complete", "degraded", "incomplete"}]
    BY <1>1
  <2> QED BY <1>1, <1>2, <2>1, <2>2, <2>3 DEF Fresh
<1>4. (TypeOK /\ OnePlace /\ Tried /\ Kept /\ Staged)'
  BY <1>3, FreshKeeps, PTL
<1>5. Phases' /\ ClosedTruthfully'
  BY <1>1, <1>2 DEF Phases, Idle, ClosedTruthfully
<1> QED BY <1>4, <1>5 DEF Inv

\* When the run comes to publish, every guide it attempted has one record.
LEMMA RecordedOnce ==
  ASSUME Inv
  PROVE  EveryGuideRecordedOnce
<1>1. SUFFICES ASSUME phase = "publish"
               PROVE  /\ \A g \in Guides : Len(attempts[g]) = IF tries[g] > 0 THEN 1 ELSE 0
                      /\ ~cancelled => \A g \in selected : tries[g] > 0
  BY DEF EveryGuideRecordedOnce
<1>2. Idle /\ stalled = <<>> /\ retry = <<>> /\ (todo = {} \/ cancelled)
  BY <1>1 DEF Inv, Phases
<1>3. current.guide \notin Guides /\ \A g : ~Queued(stalled, g) /\ ~Queued(retry, g)
  BY <1>2, Current, QueueEmpty
<1>4. ASSUME NEW g \in Guides PROVE Len(attempts[g]) = IF tries[g] > 0 THEN 1 ELSE 0
  <2>1. attempts[g] \in Seq(Records) /\ Len(attempts[g]) <= 1
    BY DEF Inv, TypeOK, OnePlace
  <2>2. tries[g] > 0 <=> attempts[g] # <<>>
    BY <1>3 DEF Inv, OnePlace
  <2> QED BY <2>1, <2>2
<1>5. ASSUME ~cancelled, NEW g \in selected PROVE tries[g] > 0
  <2>1. g \in Guides /\ g \notin todo /\ tries[g] \in Nat
    BY <1>2, <1>5, RoundsAssumption DEF Inv, TypeOK
  <2>2. tries[g] # 0
    BY <1>5, <2>1 DEF Inv, OnePlace
  <2> QED BY <2>1, <2>2
<1> QED BY <1>4, <1>5

\* What the status of a release promises.
LEMMA StatusPromises ==
  ASSUME Inv
  PROVE  /\ VersionStatus \in {"complete", "degraded", "incomplete"}
         /\ VersionStatus # "incomplete" =>
              /\ ~cancelled /\ work = {}
              /\ \A g \in Guides : \A i \in 1..Len(attempts[g]) : attempts[g][i].status \in {"complete", "degraded"}
         /\ VersionStatus = "complete" =>
              /\ \A g \in Guides : \A i \in 1..Len(attempts[g]) : attempts[g][i].status = "complete"
              /\ \A g \in Guides : guides[g] # None => Complete(guides[g])
<1> DEFINE Shortfall == (\E a \in AllRecords : a.status = "degraded") \/ (\E c \in Published : Degraded(c))
<1>1. /\ Errors => VersionStatus = "incomplete"
      /\ ~Errors /\ Shortfall => VersionStatus = "degraded"
      /\ ~Errors /\ ~Shortfall => VersionStatus = "complete"
  BY DEF VersionStatus
<1>2. ASSUME NEW g \in Guides, NEW i \in 1..Len(attempts[g])
      PROVE  attempts[g][i] \in AllRecords /\ attempts[g][i] \in Records
  <2>1. attempts[g] \in Seq(Records) /\ i \in DOMAIN attempts[g]
    BY DEF Inv, TypeOK
  <2> QED BY <2>1 DEF AllRecords
<1>3. ASSUME NEW g \in Guides, NEW i \in 1..Len(attempts[g])
      PROVE  attempts[g][i].status \in {"complete", "degraded", "incomplete", "failed"}
  BY <1>2 DEF Records
<1>4. ASSUME ~Errors
      PROVE  /\ ~cancelled /\ work = {}
             /\ \A g \in Guides : \A i \in 1..Len(attempts[g]) : attempts[g][i].status \in {"complete", "degraded"}
  BY <1>2, <1>3, <1>4 DEF Errors
<1>5. ASSUME ~Errors, ~Shortfall
      PROVE  /\ \A g \in Guides : \A i \in 1..Len(attempts[g]) : attempts[g][i].status = "complete"
             /\ \A g \in Guides : guides[g] # None => Complete(guides[g])
  <2>1. \A g \in Guides : \A i \in 1..Len(attempts[g]) : attempts[g][i].status = "complete"
    BY <1>2, <1>4, <1>5
  <2>2. \A g \in Guides : guides[g] # None => guides[g] \in Published
    BY DEF Published
  <2> QED BY <1>5, <2>1, <2>2 DEF Complete, Degraded
<1> HIDE DEF Shortfall
<1> QED BY <1>1, <1>4, <1>5

LEMMA PublishKeeps ==
  ASSUME Inv, Publish
  PROVE  Inv'
<1>1. /\ phase = "publish" /\ phase' = "closed" /\ library' = guides /\ pdfOnly' = OnlyPDFs(VersionStatus)
      /\ UNCHANGED <<mode, selected, todo, current, stalled, retry, round, tries, ended, cancelled,
                     work, guides, stage, attempts>>
  BY DEF Publish, runVars
<1>2. PICK e \in {ExitCode(VersionStatus), "1"} : report' = [exit |-> e, status |-> VersionStatus]
  BY DEF Publish
<1>3. /\ cancelled \/ ended => ExitCode(VersionStatus) = "130"
      /\ ~(cancelled \/ ended) /\ VersionStatus # "complete" => ExitCode(VersionStatus) = "2"
      /\ ~(cancelled \/ ended) /\ VersionStatus = "complete" => ExitCode(VersionStatus) = "0"
  BY DEF ExitCode
<1>4. VersionStatus \in {"complete", "degraded", "incomplete"}
  BY StatusPromises
<1>5. ASSUME NEW g \in selected, ~cancelled
      PROVE  g \in Guides /\ 1 \in 1..Len(attempts[g]) /\ 1 \in DOMAIN attempts[g]
  <2>1. g \in Guides
    BY <1>5 DEF Inv, TypeOK
  <2>2. Len(attempts[g]) = 1
    BY <1>1, <1>5, <2>1, RecordedOnce DEF EveryGuideRecordedOnce
  <2>3. attempts[g] \in Seq(Records)
    BY <2>1 DEF Inv, TypeOK
  <2> QED BY <2>1, <2>2, <2>3
<1>6. TypeOK'
  <2>1. pdfOnly' \in BOOLEAN
    BY <1>1 DEF OnlyPDFs
  <2>2. report' \in [exit : {"running", "0", "1", "2", "130"}, status : {"none", "complete", "degraded", "incomplete"}]
    BY <1>2, <1>3, <1>4
  <2> QED BY <1>1, <2>1, <2>2 DEF Inv, TypeOK
<1>7. OnePlace' /\ Tried'
  BY <1>1 DEF Inv, OnePlace, Tried, FirstFailureRecorded
<1>8. Phases'
  BY <1>1 DEF Inv, Phases, Idle
<1>9. Kept' /\ Staged'
  BY <1>1, BetterItself DEF Inv, Kept, Staged
<1>10. ASSUME report'.exit = "0"
       PROVE  /\ \A g \in selected : \E i \in DOMAIN attempts[g] :
                   attempts[g][i].status = "complete" /\ ~attempts[g][i].retained
              /\ \A g \in Guides : guides[g] # None => Complete(guides[g])
              /\ work = {}
  <2>1. VersionStatus = "complete" /\ ~cancelled
    BY <1>2, <1>3, <1>10
  <2>2. ASSUME NEW g \in selected
        PROVE  \E i \in DOMAIN attempts[g] : attempts[g][i].status = "complete" /\ ~attempts[g][i].retained
    <3>1. g \in Guides /\ 1 \in 1..Len(attempts[g]) /\ 1 \in DOMAIN attempts[g]
      BY <1>5, <2>1
    <3>2. attempts[g][1].status = "complete"
      BY <2>1, <3>1, StatusPromises
    <3>3. ~attempts[g][1].retained
      BY <3>1, <3>2 DEF Inv, Kept
    <3> QED BY <3>1, <3>2, <3>3
  <2> QED BY <2>1, <2>2, StatusPromises
<1>11. ASSUME OnlyPDFs(VersionStatus)
       PROVE  /\ \A g \in Guides : guides[g] # None => guides[g].root
              /\ \A g \in selected : guides[g] # None
              /\ work = {} /\ ~cancelled
  <2>1. VersionStatus # "incomplete" /\ \A c \in Published : c.root
    BY <1>11 DEF OnlyPDFs
  <2>2. ~cancelled /\ work = {}
    BY <2>1, StatusPromises
  <2>3. ASSUME NEW g \in selected PROVE guides[g] # None
    <3>1. g \in Guides /\ 1 \in 1..Len(attempts[g])
      BY <1>5, <2>2
    <3>2. attempts[g][1].status \in {"complete", "degraded"}
      BY <2>1, <3>1, StatusPromises
    <3> QED BY <3>1, <3>2 DEF Inv, Kept
  <2> QED BY <2>1, <2>2, <2>3 DEF Published
<1>12. ClosedTruthfully'
  <2>1. report'.exit = "0" =>
          (/\ \A g \in selected : \E i \in DOMAIN attempts[g] :
                attempts[g][i].status = "complete" /\ ~attempts[g][i].retained
           /\ \A g \in Guides : library[g] # None => Complete(library[g])
           /\ work = {})'
    BY <1>1, <1>10 DEF Complete
  <2>2. pdfOnly' =>
          (/\ \A g \in Guides : library[g] # None => library[g].root
           /\ \A g \in selected : library[g] # None
           /\ work = {} /\ ~cancelled)'
    BY <1>1, <1>11
  <2> QED BY <2>1, <2>2 DEF ClosedTruthfully
<1> QED BY <1>6, <1>7, <1>8, <1>9, <1>12 DEF Inv

-----------------------------------------------------------------------------
(* The theorems.                                                           *)

LEMMA InvStep ==
  ASSUME Inv, [Next]_vars
  PROVE  Inv'
<1>1. CASE UNCHANGED vars
  <2>1. UNCHANGED <<phase, mode, selected, todo, current, stalled, retry, round, tries, ended, cancelled,
                    work, guides, stage, attempts, library, pdfOnly, report>>
    BY <1>1 DEF vars, passVars, runVars, outVars
  <2>2. TypeOK' /\ OnePlace' /\ Tried' /\ Phases'
    BY <2>1 DEF Inv, TypeOK, OnePlace, Tried, FirstFailureRecorded, Phases, Idle
  <2>3. Kept' /\ Staged' /\ ClosedTruthfully'
    BY <2>1 DEF Inv, Kept, Staged, ClosedTruthfully
  <2> QED BY <2>2, <2>3 DEF Inv
<1>2. CASE Next
  BY <1>1, <1>2, OpenKeeps, AttemptKeeps, DeferKeeps, FinishKeeps, EndPassKeeps, AttemptAgainKeeps, GiveUpKeeps,
     EndRoundKeeps, PublishKeeps, EndContextKeeps, AbortKeeps DEF Next, RunStep, Rest
<1> QED BY <1>1, <1>2

LEMMA Invariance == Spec => []Inv
<1> QED BY InvInit, InvStep, PTL DEF Spec

\* The variables keep their types.
THEOREM TypeCorrect == Spec => []TypeOK
<1>1. Inv => TypeOK
  BY DEF Inv
<1> QED BY <1>1, Invariance, PTL

\* What a run records and reports is true of it, whatever was deferred, failed,
\* was retained or was cancelled: a guide that was attempted has one record when
\* the run is published, the record names its first failure, exit code 0 means
\* that every selected guide was fetched whole, and the records are dropped only
\* when no later run needs them.
THEOREM RecordsAlwaysTruthful == Spec => []RecordsTruthful
<1>1. Inv => RecordsTruthful
  BY RecordedOnce DEF Inv, Tried, RecordsTruthful
<1> QED BY <1>1, Invariance, PTL

\* The staged release always holds the folder or the PDF of every accepted guide
\* and nothing else, though guides change between the two and share names.
THEOREM StageAlwaysMatches == Spec => []StageMatchesGuides
<1>1. Inv => StageMatchesGuides
  BY MatchIsEntries DEF Inv, Staged, StageMatchesGuides, Verified, TypeOK
<1> QED BY <1>1, Invariance, PTL

LEMMA PublishNeverWorse ==
  ASSUME Inv, Publish
  PROVE  \A g \in Guides : library[g] # None =>
           /\ library'[g] # None
           /\ library'[g].holes \subseteq library[g].holes
           /\ Generated(library[g]) => ~GeneratedFailed(library'[g])
<1>1. library' = guides
  BY DEF Publish
<1> QED BY <1>1 DEF Inv, Kept, Better

\* No run, however it ends, takes a published guide away, loses a part of it
\* that was published, or gives up its PDF for a copy whose PDF failed.
THEOREM NeverGetsWorse == Spec => NeverWorse
<1>1. ASSUME Inv, [Next]_vars
      PROVE  [\A g \in Guides : library[g] # None =>
                 /\ library'[g] # None
                 /\ library'[g].holes \subseteq library[g].holes
                 /\ Generated(library[g]) => ~GeneratedFailed(library'[g])]_vars
  <2>1. CASE Publish
    BY <1>1, <2>1, PublishNeverWorse
  <2>2. CASE UNCHANGED library
    <3>1. \A g \in Guides : library[g] # None => Better(library[g], library[g])
      BY BetterItself
    <3> QED BY <2>2, <3>1 DEF Better
  <2>3. CASE UNCHANGED vars
    BY <2>3
  <2>4. Next /\ ~Publish => UNCHANGED library \/ UNCHANGED vars
    BY DEF Next, RunStep, Rest, Open, Attempt, Defer, Finish, EndPass, AttemptAgain, GiveUp, EndRound, EndContext,
           Abort, outVars
  <2> QED BY <1>1, <2>1, <2>2, <2>3, <2>4
<1> QED BY <1>1, Invariance, PTL DEF Spec, NeverWorse
=============================================================================
