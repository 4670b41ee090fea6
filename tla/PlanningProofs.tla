--------------------------- MODULE PlanningProofs ---------------------------
(***************************************************************************)
(* What holds of Planning for every value of its constants: the catalogue  *)
(* is complete whatever goroutines read it and in whatever order, the pool *)
(* that reads a guide's inputs reports what happened, and a guided choice  *)
(* stands for what was answered last.  The other parts stay with TLC.      *)
(*                                                                         *)
(* Both pools are proved by counting: each guide or input handed out is in *)
(* the hands of one goroutine or has its result.  What is then listed in   *)
(* the order of the data rests on the lemmas about Those, by induction     *)
(* over the length of the sequence.  The wizard is proved by the order of  *)
(* its questions: what lies behind the question asked may still be asked,  *)
(* and the question about guides is never passed over.                     *)
(***************************************************************************)
EXTENDS Planning, Ordered, Sequences, FiniteSetTheorems, WellFoundedInduction, NaturalsInduction, TLAPS

-----------------------------------------------------------------------------
(* Elements of a sequence, in its order.                                   *)

\* Both pools list with the same operator.
LEMMA SameThose ==
  ASSUME NEW s, NEW picked
  PROVE  Catalog!Those(s, picked) = Those(s, picked) /\ Reads!Those(s, picked) = Those(s, picked)
BY DEF Those, Catalog!Those, Reads!Those

\* The elements picked out of the first elements, one length after the other.
PickedUpTo(s, picked, n, f) ==
  f = [k \in 0 .. n |-> IF k = 0 THEN <<>> ELSE IF s[k] \in picked THEN Append(f[k - 1], s[k]) ELSE f[k - 1]]

\* A set of numbers that has 0, and with each number its successor, has all of them.
LEMMA AllNumbers ==
  ASSUME NEW T, NEW N \in Nat, 0 \in T, \A n \in 0 .. N : n \in T /\ n < N => n + 1 \in T
  PROVE  \A n \in 0 .. N : n \in T
<1> DEFINE Out == {n \in Nat : n <= N /\ n \notin T}
           R == OpToRel(<, Nat)
<1> SUFFICES ASSUME Out # {} PROVE FALSE
  OBVIOUS
<1>1. IsWellFoundedOn(R, Nat)
  BY NatLessThanWellFounded
<1>2. Out \subseteq Nat
  OBVIOUS
<1> HIDE DEF Out
<1>3. PICK x \in Out : \A y \in Out : ~ (<<y, x>> \in R)
  BY <1>1, <1>2, WFMin
<1>4. x \in Nat /\ x <= N /\ x \notin T /\ x # 0
  BY <1>3 DEF Out
<1>5. x - 1 \in Nat /\ x - 1 < x /\ x - 1 < N /\ (x - 1) + 1 = x
  BY <1>4
<1>6. x - 1 \in T
  <2>1. ASSUME x - 1 \notin T PROVE FALSE
    <3>1. x - 1 \in Out
      BY <1>4, <1>5, <2>1 DEF Out
    <3>2. <<x - 1, x>> \in R
      BY <1>4, <1>5 DEF OpToRel
    <3> QED BY <1>3, <3>1, <3>2
  <2> QED BY <2>1
<1> QED BY <1>4, <1>5, <1>6

LEMMA PickedExists ==
  ASSUME NEW s, NEW picked, NEW N \in Nat
  PROVE  \E f : PickedUpTo(s, picked, N, f)
<1> DEFINE T == {n \in Nat : \E f : PickedUpTo(s, picked, n, f)}
<1>1. 0 \in T
  <2>1. PickedUpTo(s, picked, 0, [k \in 0 .. 0 |-> <<>>])
    BY DEF PickedUpTo
  <2> QED BY <2>1
<1>2. ASSUME NEW n \in Nat, n \in T PROVE n + 1 \in T
  <2>1. PICK f : PickedUpTo(s, picked, n, f)
    BY <1>2
  <2> DEFINE g == [k \in 0 .. (n + 1) |-> IF k = 0 THEN <<>>
                                          ELSE IF s[k] \in picked THEN Append(f[k - 1], s[k]) ELSE f[k - 1]]
  <2>2. \A k \in 0 .. n : g[k] = f[k]
    <3> SUFFICES ASSUME NEW k \in 0 .. n PROVE g[k] = f[k]
      OBVIOUS
    <3>1. k \in 0 .. (n + 1)
      OBVIOUS
    <3> DEFINE Body(j) == IF j = 0 THEN <<>> ELSE IF s[j] \in picked THEN Append(f[j - 1], s[j]) ELSE f[j - 1]
    <3>2. f = [j \in 0 .. n |-> Body(j)]
      BY <2>1 DEF PickedUpTo
    <3>3. g[k] = Body(k)
      BY <3>1
    <3> HIDE DEF Body, g
    <3>4. f[k] = Body(k)
      BY <3>2
    <3> QED BY <3>3, <3>4
  <2>3. \A k \in 0 .. (n + 1) : k # 0 => k - 1 \in 0 .. n
    OBVIOUS
  <2>4. g = [k \in 0 .. (n + 1) |-> IF k = 0 THEN <<>>
                                    ELSE IF s[k] \in picked THEN Append(g[k - 1], s[k]) ELSE g[k - 1]]
    BY <2>2, <2>3
  <2> HIDE DEF g
  <2>5. PickedUpTo(s, picked, n + 1, g)
    BY <2>4 DEF PickedUpTo
  <2> QED BY <2>5
<1> HIDE DEF T
<1>3. N \in T
  BY <1>1, <1>2, AllNumbers
<1> QED BY <1>3 DEF T

LEMMA ThoseStepwise ==
  ASSUME NEW s, NEW picked, Len(s) \in Nat
  PROVE  \E f : PickedUpTo(s, picked, Len(s), f) /\ Those(s, picked) = f[Len(s)]
<1>1. \E f : PickedUpTo(s, picked, Len(s), f)
  BY PickedExists
<1> DEFINE upTo == CHOOSE f : PickedUpTo(s, picked, Len(s), f)
<1>2. PickedUpTo(s, picked, Len(s), upTo)
  BY <1>1
<1>3. Those(s, picked) = upTo[Len(s)]
  BY DEF Those, PickedUpTo
<1> QED BY <1>2, <1>3

\* What one length adds.
LEMMA PickedStep ==
  ASSUME NEW s, NEW picked, NEW N \in Nat, NEW f, PickedUpTo(s, picked, N, f)
  PROVE  /\ f[0] = <<>>
         /\ \A n \in 0 .. N : n < N => f[n + 1] = (IF s[n + 1] \in picked THEN Append(f[n], s[n + 1]) ELSE f[n])
<1> DEFINE Body(j) == IF j = 0 THEN <<>> ELSE IF s[j] \in picked THEN Append(f[j - 1], s[j]) ELSE f[j - 1]
<1>1. f = [j \in 0 .. N |-> Body(j)]
  BY DEF PickedUpTo
<1>2. Body(0) = <<>>
  OBVIOUS
<1>3. \A n \in 0 .. N : n < N => Body(n + 1) = (IF s[n + 1] \in picked THEN Append(f[n], s[n + 1]) ELSE f[n])
  <2>1. \A n \in 0 .. N : n + 1 # 0 /\ (n + 1) - 1 = n
    OBVIOUS
  <2> QED BY <2>1
<1>4. \A n \in 0 .. N : n < N => n + 1 \in 0 .. N
  OBVIOUS
<1> HIDE DEF Body
<1>5. \A j \in 0 .. N : f[j] = Body(j)
  BY <1>1
<1>6. f[0] = Body(0)
  BY <1>5
<1> QED BY <1>2, <1>3, <1>4, <1>5, <1>6

\* The elements picked are those of the sequence that are picked; of numbers in
\* order they are in order.
Picked(s, picked, n, t) ==
  /\ t \in Seq({s[i] : i \in 1 .. n} \cap picked) /\ Len(t) <= n
  /\ \A i \in 1 .. n : s[i] \in picked => \E k \in DOMAIN t : t[k] = s[i]
  /\ (\A i, j \in 1 .. n : i < j => s[i] < s[j]) => \A i, k \in DOMAIN t : i < k => t[i] < t[k]

LEMMA PickedOneMore ==
  ASSUME NEW s, NEW picked, NEW n \in Nat, NEW t, Picked(s, picked, n, t), s[n + 1] \in picked
  PROVE  Picked(s, picked, n + 1, Append(t, s[n + 1]))
<1> DEFINE x == s[n + 1]
           U == {s[i] : i \in 1 .. n} \cap picked
           V == {s[i] : i \in 1 .. (n + 1)} \cap picked
           u == Append(t, x)
<1>1. 1 .. n \subseteq 1 .. (n + 1) /\ n + 1 \in 1 .. (n + 1) /\ \A i \in 1 .. (n + 1) : i # n + 1 => i \in 1 .. n
  OBVIOUS
<1>2. U \subseteq V /\ x \in V
  BY <1>1
<1>3. t \in Seq(U) /\ Len(t) <= n
  BY DEF Picked
<1> HIDE DEF U, V, x
<1>4. t \in Seq(V)
  BY <1>2, <1>3
<1>5. /\ u \in Seq(V) /\ Len(u) = Len(t) + 1 /\ Len(t) \in Nat /\ DOMAIN u = 1 .. (Len(t) + 1) /\ DOMAIN t = 1 .. Len(t)
      /\ \A k \in DOMAIN t : k \in DOMAIN u /\ u[k] = t[k]
      /\ u[Len(t) + 1] = x
  BY <1>2, <1>4
<1>6. Len(u) <= n + 1
  BY <1>3, <1>5
<1>7. \A i \in 1 .. (n + 1) : s[i] \in picked => \E k \in DOMAIN u : u[k] = s[i]
  <2> SUFFICES ASSUME NEW i \in 1 .. (n + 1), s[i] \in picked PROVE \E k \in DOMAIN u : u[k] = s[i]
    OBVIOUS
  <2>1. CASE i = n + 1
    <3>1. Len(t) + 1 \in DOMAIN u /\ s[i] = x
      BY <1>5, <2>1 DEF x
    <3> QED BY <1>5, <3>1
  <2>2. CASE i # n + 1
    <3>1. PICK k \in DOMAIN t : t[k] = s[i]
      BY <1>1, <2>2 DEF Picked
    <3> QED BY <1>5, <3>1
  <2> QED BY <2>1, <2>2
<1>8. ASSUME \A i, j \in 1 .. (n + 1) : i < j => s[i] < s[j] PROVE \A i, k \in DOMAIN u : i < k => u[i] < u[k]
  <2> SUFFICES ASSUME NEW i \in DOMAIN u, NEW k \in DOMAIN u, i < k PROVE u[i] < u[k]
    OBVIOUS
  <2>1. i \in DOMAIN t
    BY <1>5
  <2>2. CASE k \in DOMAIN t
    <3>1. \A a, b \in 1 .. n : a < b => s[a] < s[b]
      BY <1>1, <1>8
    <3>2. t[i] < t[k]
      BY <2>1, <2>2, <3>1 DEF Picked
    <3> QED BY <1>5, <2>1, <2>2, <3>2
  <2>3. CASE k \notin DOMAIN t
    <3>1. k = Len(t) + 1
      BY <1>5, <2>3
    <3>2. t[i] \in U
      BY <1>3, <2>1
    <3>3. PICK a \in 1 .. n : t[i] = s[a]
      BY <3>2 DEF U
    <3>4. a < n + 1 /\ s[a] < x
      BY <1>1, <1>8, <3>3 DEF x
    <3> QED BY <1>5, <2>1, <3>1, <3>3, <3>4
  <2> QED BY <2>2, <2>3
<1>9. u \in Seq(V) /\ V = {s[i] : i \in 1 .. (n + 1)} \cap picked
  BY <1>5 DEF V
<1> QED BY <1>6, <1>7, <1>8, <1>9 DEF Picked, x

LEMMA PickedNoMore ==
  ASSUME NEW s, NEW picked, NEW n \in Nat, NEW t, Picked(s, picked, n, t), s[n + 1] \notin picked
  PROVE  Picked(s, picked, n + 1, t)
<1>1. 1 .. n \subseteq 1 .. (n + 1) /\ \A i \in 1 .. (n + 1) : i # n + 1 => i \in 1 .. n
  OBVIOUS
<1>2. {s[i] : i \in 1 .. (n + 1)} \cap picked = {s[i] : i \in 1 .. n} \cap picked
  BY <1>1
<1>3. t \in Seq({s[i] : i \in 1 .. (n + 1)} \cap picked) /\ Len(t) <= n + 1
  <2>1. Len(t) \in Nat /\ Len(t) <= n
    BY DEF Picked
  <2> QED BY <1>2, <2>1 DEF Picked
<1>4. \A i \in 1 .. (n + 1) : s[i] \in picked => i \in 1 .. n
  BY <1>1
<1>5. \A i \in 1 .. (n + 1) : s[i] \in picked => \E k \in DOMAIN t : t[k] = s[i]
  BY <1>4 DEF Picked
<1>6. (\A i, j \in 1 .. (n + 1) : i < j => s[i] < s[j]) => \A i, k \in DOMAIN t : i < k => t[i] < t[k]
  BY <1>1 DEF Picked
<1> QED BY <1>3, <1>5, <1>6 DEF Picked

LEMMA ThosePicked ==
  ASSUME NEW s, NEW picked, Len(s) \in Nat
  PROVE  Picked(s, picked, Len(s), Those(s, picked))
<1>1. PICK f : PickedUpTo(s, picked, Len(s), f) /\ Those(s, picked) = f[Len(s)]
  BY ThoseStepwise
<1>a. /\ f[0] = <<>>
      /\ \A n \in 0 .. Len(s) : n < Len(s) =>
           f[n + 1] = (IF s[n + 1] \in picked THEN Append(f[n], s[n + 1]) ELSE f[n])
  BY <1>1, PickedStep
<1> DEFINE T == {n \in Nat : Picked(s, picked, n, f[n])}
<1>2. 0 \in T
  <2>1. f[0] = <<>>
    BY <1>a
  <2>2. Picked(s, picked, 0, <<>>)
    BY DEF Picked
  <2> QED BY <2>1, <2>2
<1>3. ASSUME NEW n \in 0 .. Len(s), n \in T, n < Len(s) PROVE n + 1 \in T
  <2>1. f[n + 1] = (IF s[n + 1] \in picked THEN Append(f[n], s[n + 1]) ELSE f[n])
    BY <1>a, <1>3
  <2>2. Picked(s, picked, n, f[n]) /\ n \in Nat /\ n + 1 \in Nat
    BY <1>3
  <2>3. Picked(s, picked, n + 1, f[n + 1])
    <3>1. CASE s[n + 1] \in picked
      BY <2>1, <2>2, <3>1, PickedOneMore
    <3>2. CASE s[n + 1] \notin picked
      BY <2>1, <2>2, <3>2, PickedNoMore
    <3> QED BY <3>1, <3>2
  <2> QED BY <2>2, <2>3
<1> HIDE DEF T
<1>4. \A n \in 0 .. Len(s) : n \in T
  BY <1>2, <1>3, AllNumbers
<1>5. Len(s) \in T
  BY <1>4
<1> QED BY <1>1, <1>5 DEF T

-----------------------------------------------------------------------------
(* The catalogue.                                                          *)

CatalogSetting == MaxResources \in Nat /\ IsFiniteSet(Pair)

GuideEntry == [id : GuideIds, mapping : {"unread", "read", "error"}]
BeforePool == DOMAIN Catalog!NextStage \cup {"guides"}

\* The goroutines that have a guide in hand.
Loading == {l \in Pair : loading[l] \in DOMAIN entries}

\* CatalogInv, while guides are handed out and read: each guide handed out is in the hands of one
\* goroutine or has its mapping, and the observer saw all those that are out of hand.
LoadingOK ==
  /\ entries \in Seq(GuideEntry) /\ Len(entries) = Len(Catalog!Listed)
  /\ \A i \in DOMAIN entries : entries[i].id = Catalog!Listed[i].id
  /\ offered <= Len(entries) /\ (stage = "drain" => offered = Len(entries))
  /\ \A l \in Pair : /\ loading[l] \in 0 .. offered \/ (loading[l] = Catalog!Left /\ stage = "drain")
                     /\ finished[l] => loading[l] \in DOMAIN entries /\ entries[loading[l]].mapping # "unread"
  /\ \A l, m \in Pair : l # m /\ loading[l] \in DOMAIN entries => loading[l] # loading[m]
  /\ \A i \in DOMAIN entries :
       i <= offered /\ entries[i].mapping = "unread" => \E l \in Pair : loading[l] = i /\ ~finished[l]
  /\ ~loadEnded => /\ reports = [i \in 1 .. Len(reports) |-> i] /\ Len(reports) \in Nat
                   /\ Len(reports) + Cardinality(Loading) = offered

CatalogInv ==
  /\ Catalog!TypeOK
  /\ resources \in Seq(Catalog!Resource) /\ Len(resources) <= MaxResources
  /\ loadEnded \in BOOLEAN /\ finished \in [Pair -> BOOLEAN]
  /\ stage \in BeforePool => /\ entries = <<>> /\ offered = 0 /\ reports = <<>> /\ catalog = Catalog!Nothing
                             /\ \A l \in Pair : loading[l] = 0 /\ ~finished[l]
  /\ stage \in {"feed", "drain"} => LoadingOK /\ catalog = Catalog!Nothing
  /\ stage = "returned" => \A l \in Pair : loading[l] \notin DOMAIN entries
  /\ Catalog!CatalogComplete

\* What is listed of the configuration is a sequence no longer than it.
LEMMA ListedIsSeq ==
  ASSUME CatalogSetting, CatalogInv
  PROVE  /\ Catalog!Listed \in Seq(Catalog!Resource) /\ Len(Catalog!Listed) \in Nat /\ Len(Catalog!Listed) <= MaxResources
         /\ Len(Catalog!Listed) < Catalog!Left /\ DOMAIN Catalog!Listed = 1 .. Len(Catalog!Listed)
         /\ \A i \in DOMAIN Catalog!Listed : Catalog!Listed[i].id \in GuideIds
<1> DEFINE picked == {r \in Catalog!Resource : r.listed}
<1>1. resources \in Seq(Catalog!Resource) /\ Len(resources) \in Nat /\ Len(resources) <= MaxResources
      /\ MaxResources \in Nat
  BY DEF CatalogInv, CatalogSetting
<1>2. Catalog!Listed = Those(resources, picked)
  BY SameThose DEF Catalog!Listed
<1>3. Picked(resources, picked, Len(resources), Catalog!Listed)
  BY <1>1, <1>2, ThosePicked
<1>4. {resources[i] : i \in 1 .. Len(resources)} \cap picked \subseteq Catalog!Resource
  OBVIOUS
<1> HIDE DEF picked
<1>5. Catalog!Listed \in Seq(Catalog!Resource) /\ Len(Catalog!Listed) <= Len(resources)
  BY <1>3, <1>4 DEF Picked
<1>6. \A i \in DOMAIN Catalog!Listed : Catalog!Listed[i] \in Catalog!Resource
  BY <1>5
<1>7. Len(Catalog!Listed) \in Nat /\ DOMAIN Catalog!Listed = 1 .. Len(Catalog!Listed)
  BY <1>5
<1> QED BY <1>1, <1>5, <1>6, <1>7 DEF Catalog!Left, Catalog!Resource

\* Before the catalog is returned there is nothing to be said of it.
LEMMA NothingIsComplete ==
  ASSUME catalog = Catalog!Nothing \/ \E how \in {"refused", "cancelled"} : catalog = Catalog!Refused(how)
  PROVE  Catalog!CatalogComplete
<1>1. catalog.kind # "catalog"
  BY DEF Catalog!Nothing, Catalog!Refused
<1> QED BY <1>1 DEF Catalog!CatalogComplete

\* A catalog stays complete when nothing it is made of changes.
LEMMA CompleteKept ==
  ASSUME Catalog!CatalogComplete, UNCHANGED <<resources, catalog>>,
         catalog.kind = "catalog" => UNCHANGED reports
  PROVE  Catalog!CatalogComplete'
<1>1. Catalog!Listed' = Catalog!Listed
  BY DEF Catalog!Listed
<1> QED BY <1>1 DEF Catalog!CatalogComplete

\* The files of the portal are read before the pool starts.
LEMMA StagesApart ==
  /\ "feed" \notin BeforePool /\ "drain" \notin BeforePool /\ "returned" \notin BeforePool /\ "guides" \in BeforePool
  /\ DOMAIN Catalog!NextStage = {"page", "registry", "config", "adapter"}
  /\ \A s \in DOMAIN Catalog!NextStage : Catalog!NextStage[s] \in BeforePool
  /\ BeforePool = {"page", "registry", "config", "adapter", "guides"}
BY DEF BeforePool, Catalog!NextStage

LEMMA CatalogStarts ==
  ASSUME CatalogSetting, Catalog!Init
  PROVE  CatalogInv
<1>1. /\ stage = "page" /\ entries = <<>> /\ offered = 0
      /\ loading = [l \in Pair |-> 0] /\ finished = [l \in Pair |-> FALSE]
      /\ reports = <<>> /\ loadEnded = FALSE /\ catalog = Catalog!Nothing
  BY DEF Catalog!Init
<1>2. PICK m \in 0 .. MaxResources : resources \in [1 .. m -> Catalog!Resource]
  BY DEF Catalog!Init, Catalog!BoundedSeq, Catalog!SeqOf
<1>3. resources \in Seq(Catalog!Resource) /\ Len(resources) <= MaxResources
  BY <1>2 DEF CatalogSetting
<1>4. Catalog!Left \in Nat /\ Len(entries) = 0 /\ DOMAIN entries = {}
  BY <1>1 DEF Catalog!Left, CatalogSetting
<1>5. Catalog!TypeOK
  BY <1>1, <1>4, StagesApart DEF Catalog!TypeOK, Catalog!Nothing
<1>6. Catalog!CatalogComplete
  BY <1>1, NothingIsComplete
<1> QED BY <1>1, <1>3, <1>5, <1>6, StagesApart DEF CatalogInv

LEMMA DiscoverKeeps ==
  ASSUME CatalogSetting, CatalogInv, Catalog!Discover
  PROVE  CatalogInv'
<1>1. /\ stage \in DOMAIN Catalog!NextStage
      /\ \/ stage' = Catalog!NextStage[stage] /\ UNCHANGED catalog
         \/ stage' = "returned" /\ catalog' = Catalog!Refused("refused")
      /\ UNCHANGED <<resources, entries, offered, loading, finished, reports, loadEnded>>
  BY DEF Catalog!Discover
<1>2. stage \in BeforePool
  BY <1>1, StagesApart
<1>3. /\ entries = <<>> /\ offered = 0 /\ reports = <<>> /\ catalog = Catalog!Nothing
      /\ \A l \in Pair : loading[l] = 0 /\ ~finished[l]
  BY <1>2 DEF CatalogInv
<1>4. Catalog!CatalogComplete'
  BY <1>1, <1>3, NothingIsComplete DEF Catalog!CatalogComplete, Catalog!Nothing, Catalog!Refused
<1>5. DOMAIN entries = {}
  BY <1>3
<1>6. (stage' \in BeforePool /\ catalog' = Catalog!Nothing)
      \/ (stage' = "returned" /\ catalog' = Catalog!Refused("refused"))
  BY <1>1, <1>3, StagesApart
<1>7. Catalog!TypeOK'
  BY <1>1, <1>6, StagesApart DEF CatalogInv, Catalog!TypeOK, Catalog!Nothing, Catalog!Refused
<1> QED BY <1>1, <1>3, <1>4, <1>5, <1>6, <1>7, StagesApart DEF CatalogInv

LEMMA ListGuidesKeeps ==
  ASSUME CatalogSetting, CatalogInv, Catalog!ListGuides
  PROVE  CatalogInv'
<1>1. /\ stage = "guides" /\ UNCHANGED <<resources, offered, loading, finished, reports, loadEnded>>
      /\ \/ stage' = "returned" /\ (\E how \in {"refused", "cancelled"} : catalog' = Catalog!Refused(how))
            /\ UNCHANGED entries
         \/ /\ stage' = "feed" /\ UNCHANGED catalog
            /\ entries' = [i \in DOMAIN Catalog!Listed |-> [id |-> Catalog!Listed[i].id, mapping |-> "unread"]]
  BY DEF Catalog!ListGuides
<1>2. /\ entries = <<>> /\ offered = 0 /\ reports = <<>> /\ catalog = Catalog!Nothing
      /\ \A l \in Pair : loading[l] = 0 /\ ~finished[l]
  BY <1>1, StagesApart DEF CatalogInv
<1>3. Catalog!Listed' = Catalog!Listed
  BY <1>1 DEF Catalog!Listed
<1>4. Catalog!CatalogComplete'
  BY <1>1, <1>2 DEF Catalog!CatalogComplete, Catalog!Nothing, Catalog!Refused
<1>5. CASE stage' = "returned" /\ (\E how \in {"refused", "cancelled"} : catalog' = Catalog!Refused(how))
      /\ UNCHANGED entries
  <2>1. Catalog!TypeOK'
    BY <1>1, <1>5 DEF CatalogInv, Catalog!TypeOK, Catalog!Nothing, Catalog!Refused
  <2>2. DOMAIN entries' = {}
    BY <1>2, <1>5
  <2> QED BY <1>1, <1>2, <1>4, <1>5, <2>1, <2>2, StagesApart DEF CatalogInv
<1>6. CASE /\ stage' = "feed" /\ UNCHANGED catalog
           /\ entries' = [i \in DOMAIN Catalog!Listed |-> [id |-> Catalog!Listed[i].id, mapping |-> "unread"]]
  <2>1. /\ Len(Catalog!Listed) \in Nat /\ DOMAIN Catalog!Listed = 1 .. Len(Catalog!Listed)
        /\ \A i \in DOMAIN Catalog!Listed : Catalog!Listed[i].id \in GuideIds
    BY ListedIsSeq
  <2>2. entries' \in Seq(GuideEntry) /\ Len(entries') = Len(Catalog!Listed) /\ DOMAIN entries' = DOMAIN Catalog!Listed
        /\ \A i \in DOMAIN entries' : entries'[i].id = Catalog!Listed[i].id
    BY <1>6, <2>1 DEF GuideEntry
  <2>3. 0 \notin DOMAIN entries' /\ 0 \in 0 .. offered' /\ offered' \in 0 .. Len(entries')
    BY <1>1, <1>2, <2>1, <2>2
  <2>4. Loading' = {}
    BY <1>1, <1>2, <2>3 DEF Loading
  <2>5. Cardinality(Loading') = 0
    BY <2>4, FS_EmptySet
  <2>6. Len(reports') = 0 /\ reports' = [i \in 1 .. Len(reports') |-> i]
    BY <1>1, <1>2
  <2>7. \A i \in DOMAIN entries' : ~(i <= offered')
    BY <1>1, <1>2, <2>1, <2>2
  <2>8. LoadingOK'
    BY <1>1, <1>2, <1>3, <1>6, <2>2, <2>3, <2>5, <2>6, <2>7 DEF LoadingOK
  <2>9. Catalog!TypeOK'
    BY <1>1, <1>6, <2>3 DEF CatalogInv, Catalog!TypeOK
  <2> QED BY <1>1, <1>2, <1>4, <1>6, <2>8, <2>9, StagesApart DEF CatalogInv
<1> QED BY <1>1, <1>5, <1>6

\* What a goroutine at work finds.
LEMMA AtWork ==
  ASSUME CatalogSetting, CatalogInv, stage \in {"feed", "drain"}
  PROVE  /\ LoadingOK /\ catalog = Catalog!Nothing /\ stage \notin BeforePool
         /\ entries \in Seq(GuideEntry) /\ Len(entries) \in Nat /\ Len(entries) < Catalog!Left
            /\ DOMAIN entries = 1 .. Len(entries)
         /\ Catalog!Left \in Nat /\ Catalog!Left \notin DOMAIN entries /\ 0 \notin DOMAIN entries
         /\ offered \in 0 .. Len(entries) /\ offered \in Nat
         /\ loading \in [Pair -> 0 .. Catalog!Left] /\ finished \in [Pair -> BOOLEAN]
         /\ IsFiniteSet(Loading)
<1>1. LoadingOK /\ catalog = Catalog!Nothing /\ stage \notin BeforePool
  BY StagesApart DEF CatalogInv
<1>2. Len(Catalog!Listed) < Catalog!Left /\ Catalog!Left \in Nat
  BY ListedIsSeq DEF Catalog!Left, CatalogSetting
<1>3. entries \in Seq(GuideEntry) /\ Len(entries) \in Nat /\ DOMAIN entries = 1 .. Len(entries)
      /\ Len(entries) < Catalog!Left
  BY <1>1, <1>2 DEF LoadingOK
<1>4. IsFiniteSet(Loading)
  BY FS_Subset DEF Loading, CatalogSetting
<1> QED BY <1>1, <1>2, <1>3, <1>4 DEF CatalogInv, Catalog!TypeOK

LEMMA OfferKeeps ==
  ASSUME CatalogSetting, CatalogInv, NEW l \in Pair, Catalog!Offer(l)
  PROVE  CatalogInv'
<1>1. /\ stage = "feed" /\ offered < Len(entries) /\ loading[l] = 0
      /\ offered' = offered + 1 /\ loading' = [loading EXCEPT ![l] = offered + 1]
      /\ UNCHANGED <<resources, stage, entries, finished, reports, loadEnded, catalog>>
  BY DEF Catalog!Offer
<1>2. /\ LoadingOK /\ catalog = Catalog!Nothing /\ stage \notin BeforePool
      /\ entries \in Seq(GuideEntry) /\ Len(entries) \in Nat /\ Len(entries) < Catalog!Left
         /\ DOMAIN entries = 1 .. Len(entries)
      /\ Catalog!Left \in Nat /\ Catalog!Left \notin DOMAIN entries /\ 0 \notin DOMAIN entries
      /\ offered \in 0 .. Len(entries) /\ offered \in Nat
      /\ loading \in [Pair -> 0 .. Catalog!Left] /\ finished \in [Pair -> BOOLEAN]
      /\ IsFiniteSet(Loading)
  BY <1>1, AtWork
<1>3. /\ offered' \in 0 .. Len(entries) /\ offered' \in DOMAIN entries /\ offered' \in 0 .. Catalog!Left
         /\ offered' # Catalog!Left
      /\ offered' > offered
  BY <1>1, <1>2
<1>4. loading' \in [Pair -> 0 .. Catalog!Left] /\ loading'[l] = offered' /\ \A m \in Pair \ {l} : loading'[m] = loading[m]
  BY <1>1, <1>2, <1>3
<1>5. Catalog!Listed' = Catalog!Listed
  BY <1>1 DEF Catalog!Listed
<1>6. ~finished[l]
  BY <1>1, <1>2 DEF LoadingOK
<1>7. \A m \in Pair : loading[m] \in DOMAIN entries => loading[m] \in 0 .. offered /\ loading[m] # offered'
  <2> SUFFICES ASSUME NEW m \in Pair, loading[m] \in DOMAIN entries
               PROVE  loading[m] \in 0 .. offered /\ loading[m] # offered'
    OBVIOUS
  <2>1. loading[m] \in 0 .. offered
    BY <1>2 DEF LoadingOK
  <2> QED BY <1>2, <1>3, <2>1
<1>8. \A m \in Pair : /\ loading'[m] \in 0 .. offered' \/ (loading'[m] = Catalog!Left /\ stage = "drain")
                      /\ finished[m] => loading'[m] \in DOMAIN entries /\ entries[loading'[m]].mapping # "unread"
  <2> SUFFICES ASSUME NEW m \in Pair
               PROVE  /\ loading'[m] \in 0 .. offered' \/ (loading'[m] = Catalog!Left /\ stage = "drain")
                      /\ finished[m] => loading'[m] \in DOMAIN entries /\ entries[loading'[m]].mapping # "unread"
    OBVIOUS
  <2>1. 0 .. offered \subseteq 0 .. offered' /\ offered' \in 0 .. offered'
    BY <1>2, <1>3
  <2>2. CASE m = l
    BY <1>4, <1>6, <2>1, <2>2
  <2>3. CASE m # l
    BY <1>2, <1>4, <2>1, <2>3 DEF LoadingOK
  <2> QED BY <2>2, <2>3
<1>9. \A k, m \in Pair : k # m /\ loading'[k] \in DOMAIN entries => loading'[k] # loading'[m]
  <2> SUFFICES ASSUME NEW k \in Pair, NEW m \in Pair, k # m, loading'[k] \in DOMAIN entries,
                      loading'[k] = loading'[m]
               PROVE  FALSE
    OBVIOUS
  <2>1. CASE k # l /\ m # l
    BY <1>2, <1>4, <2>1 DEF LoadingOK
  <2>2. CASE k = l
    BY <1>3, <1>4, <1>7, <2>2
  <2>3. CASE m = l
    BY <1>3, <1>4, <1>7, <2>3
  <2> QED BY <2>1, <2>2, <2>3
<1>10. \A i \in DOMAIN entries :
         i <= offered' /\ entries[i].mapping = "unread" => \E m \in Pair : loading'[m] = i /\ ~finished[m]
  <2> SUFFICES ASSUME NEW i \in DOMAIN entries, i <= offered', entries[i].mapping = "unread"
               PROVE  \E m \in Pair : loading'[m] = i /\ ~finished[m]
    OBVIOUS
  <2>1. CASE i = offered'
    BY <1>4, <1>6, <2>1
  <2>2. CASE i # offered'
    <3>1. i <= offered
      BY <1>1, <1>2, <2>2
    <3>2. PICK m \in Pair : loading[m] = i /\ ~finished[m]
      BY <1>2, <3>1 DEF LoadingOK
    <3>3. m # l
      BY <1>1, <1>2, <3>2
    <3> QED BY <1>4, <3>2, <3>3
  <2> QED BY <2>1, <2>2
<1>11. Loading' = Loading \cup {l} /\ l \notin Loading
  BY <1>1, <1>2, <1>3, <1>4 DEF Loading
<1>12. Cardinality(Loading') = Cardinality(Loading) + 1 /\ Cardinality(Loading) \in Nat
  BY <1>2, <1>11, FS_AddElement, FS_CardinalityType
<1>13. ~loadEnded' => /\ reports' = [i \in 1 .. Len(reports') |-> i] /\ Len(reports') \in Nat
                      /\ Len(reports') + Cardinality(Loading') = offered'
  <2> SUFFICES ASSUME ~loadEnded
               PROVE  /\ reports = [i \in 1 .. Len(reports) |-> i] /\ Len(reports) \in Nat
                      /\ Len(reports) + Cardinality(Loading') = offered'
    BY <1>1
  <2>1. /\ reports = [i \in 1 .. Len(reports) |-> i] /\ Len(reports) \in Nat
        /\ Len(reports) + Cardinality(Loading) = offered
    BY <1>2 DEF LoadingOK
  <2> QED BY <1>1, <1>2, <1>12, <2>1
<1>14. LoadingOK'
  BY <1>1, <1>2, <1>3, <1>5, <1>8, <1>9, <1>10, <1>13 DEF LoadingOK
<1>15. Catalog!TypeOK'
  BY <1>1, <1>3, <1>4 DEF CatalogInv, Catalog!TypeOK
<1>16. Catalog!CatalogComplete'
  BY <1>1, <1>2, CompleteKept DEF CatalogInv, Catalog!Nothing
<1> QED BY <1>1, <1>2, <1>14, <1>15, <1>16 DEF CatalogInv

LEMMA CloseJobsKeeps ==
  ASSUME CatalogSetting, CatalogInv, Catalog!CloseJobs
  PROVE  CatalogInv'
<1>1. /\ stage = "feed" /\ offered = Len(entries) /\ stage' = "drain"
      /\ UNCHANGED <<resources, entries, offered, loading, finished, reports, loadEnded, catalog>>
  BY DEF Catalog!CloseJobs
<1>2. LoadingOK /\ catalog = Catalog!Nothing
  BY <1>1, AtWork
<1>3. Catalog!Listed' = Catalog!Listed /\ Loading' = Loading
  BY <1>1 DEF Catalog!Listed, Loading
<1>4. LoadingOK'
  BY <1>1, <1>2, <1>3 DEF LoadingOK, Catalog!Left
<1>5. Catalog!TypeOK'
  BY <1>1 DEF CatalogInv, Catalog!TypeOK
<1>6. Catalog!CatalogComplete'
  BY <1>1, <1>2, CompleteKept DEF CatalogInv, Catalog!Nothing
<1> QED BY <1>1, <1>2, <1>4, <1>5, <1>6, StagesApart DEF CatalogInv

\* A goroutine has a guide in hand only while guides are handed out or awaited.
LEMMA HandsFull ==
  ASSUME CatalogSetting, CatalogInv, NEW l \in Pair, loading[l] \in DOMAIN entries
  PROVE  stage \in {"feed", "drain"}
<1>1. stage \in BeforePool \cup {"feed", "drain", "returned"}
  BY StagesApart DEF CatalogInv, Catalog!TypeOK, BeforePool
<1>2. stage \in BeforePool => FALSE
  BY DEF CatalogInv
<1> QED BY <1>1, <1>2 DEF CatalogInv

LEMMA MapKeeps ==
  ASSUME CatalogSetting, CatalogInv, NEW l \in Pair, Catalog!Map(l)
  PROVE  CatalogInv'
<1> DEFINE at == loading[l]
<1>1. /\ at \in DOMAIN entries /\ ~finished[l] /\ finished' = [finished EXCEPT ![l] = TRUE]
      /\ UNCHANGED <<resources, stage, offered, loading, reports, loadEnded, catalog>>
  BY DEF Catalog!Map
<1>2. PICK found \in {"error", "read"} : entries' = [entries EXCEPT ![at].mapping = found]
  BY DEF Catalog!Map
<1>3. stage \in {"feed", "drain"}
  BY <1>1, HandsFull
<1>4. /\ LoadingOK /\ catalog = Catalog!Nothing /\ stage \notin BeforePool
      /\ entries \in Seq(GuideEntry) /\ Len(entries) \in Nat /\ Len(entries) < Catalog!Left
         /\ DOMAIN entries = 1 .. Len(entries)
      /\ Catalog!Left \in Nat /\ Catalog!Left \notin DOMAIN entries /\ 0 \notin DOMAIN entries
      /\ offered \in 0 .. Len(entries) /\ offered \in Nat
      /\ loading \in [Pair -> 0 .. Catalog!Left] /\ finished \in [Pair -> BOOLEAN]
      /\ IsFiniteSet(Loading)
  BY <1>3, AtWork
<1> HIDE DEF at
<1>5. entries[at] \in GuideEntry
  BY <1>1, <1>4
<1>6. [entries[at] EXCEPT !.mapping = found] \in GuideEntry
      /\ [entries[at] EXCEPT !.mapping = found].mapping = found
      /\ [entries[at] EXCEPT !.mapping = found].id = entries[at].id
  BY <1>5 DEF GuideEntry
<1>7. /\ entries' \in Seq(GuideEntry) /\ Len(entries') = Len(entries) /\ DOMAIN entries' = DOMAIN entries
      /\ entries'[at] = [entries[at] EXCEPT !.mapping = found]
      /\ \A i \in DOMAIN entries \ {at} : entries'[i] = entries[i]
  BY <1>1, <1>2, <1>4, <1>6
<1>8. /\ entries'[at].mapping # "unread" /\ \A i \in DOMAIN entries : entries'[i].id = entries[i].id
      /\ \A i \in DOMAIN entries : entries[i].mapping # "unread" => entries'[i].mapping # "unread"
  BY <1>6, <1>7
<1>9. finished' \in [Pair -> BOOLEAN] /\ finished'[l] /\ \A m \in Pair \ {l} : finished'[m] = finished[m]
  BY <1>1, <1>4
<1>10. Catalog!Listed' = Catalog!Listed /\ Loading' = Loading
  BY <1>1, <1>7 DEF Catalog!Listed, Loading
<1>11. \A m \in Pair : finished'[m] => loading[m] \in DOMAIN entries /\ entries'[loading[m]].mapping # "unread"
  BY <1>1, <1>4, <1>8, <1>9 DEF LoadingOK, at
<1>12. \A i \in DOMAIN entries :
         i <= offered /\ entries'[i].mapping = "unread" => \E m \in Pair : loading[m] = i /\ ~finished'[m]
  <2> SUFFICES ASSUME NEW i \in DOMAIN entries, i <= offered, entries'[i].mapping = "unread"
               PROVE  \E m \in Pair : loading[m] = i /\ ~finished'[m]
    OBVIOUS
  <2>1. i # at /\ entries[i].mapping = "unread"
    BY <1>7, <1>8
  <2>2. PICK m \in Pair : loading[m] = i /\ ~finished[m]
    BY <1>4, <2>1 DEF LoadingOK
  <2>3. m # l
    BY <2>1, <2>2 DEF at
  <2> QED BY <1>9, <2>2, <2>3
<1>13. LoadingOK'
  BY <1>1, <1>4, <1>7, <1>8, <1>10, <1>11, <1>12 DEF LoadingOK, Catalog!Left
<1>14. Catalog!TypeOK'
  BY <1>1, <1>7 DEF CatalogInv, Catalog!TypeOK
<1>15. Catalog!CatalogComplete'
  BY <1>1, <1>4, CompleteKept DEF CatalogInv, Catalog!Nothing
<1> QED BY <1>1, <1>3, <1>4, <1>9, <1>13, <1>14, <1>15 DEF CatalogInv

LEMMA ReportKeeps ==
  ASSUME CatalogSetting, CatalogInv, NEW l \in Pair, Catalog!Report(l)
  PROVE  CatalogInv'
<1>1. /\ loading[l] \in DOMAIN entries /\ finished[l]
      /\ reports' = IF ~loadEnded THEN Append(reports, Len(reports) + 1) ELSE reports
      /\ loading' = [loading EXCEPT ![l] = 0] /\ finished' = [finished EXCEPT ![l] = FALSE]
      /\ UNCHANGED <<resources, stage, entries, offered, loadEnded, catalog>>
  BY DEF Catalog!Report, Catalog!ReportsAny
<1>2. stage \in {"feed", "drain"}
  BY <1>1, HandsFull
<1>3. /\ LoadingOK /\ catalog = Catalog!Nothing /\ stage \notin BeforePool
      /\ entries \in Seq(GuideEntry) /\ Len(entries) \in Nat /\ Len(entries) < Catalog!Left
         /\ DOMAIN entries = 1 .. Len(entries)
      /\ Catalog!Left \in Nat /\ Catalog!Left \notin DOMAIN entries /\ 0 \notin DOMAIN entries
      /\ offered \in 0 .. Len(entries) /\ offered \in Nat
      /\ loading \in [Pair -> 0 .. Catalog!Left] /\ finished \in [Pair -> BOOLEAN]
      /\ IsFiniteSet(Loading)
  BY <1>2, AtWork
<1>4. /\ loading' \in [Pair -> 0 .. Catalog!Left] /\ loading'[l] = 0 /\ finished' \in [Pair -> BOOLEAN] /\ ~finished'[l]
      /\ \A m \in Pair \ {l} : loading'[m] = loading[m] /\ finished'[m] = finished[m]
  BY <1>1, <1>3
<1>5. Catalog!Listed' = Catalog!Listed
  BY <1>1 DEF Catalog!Listed
<1>6. Loading' = Loading \ {l} /\ l \in Loading
  BY <1>1, <1>3, <1>4 DEF Loading
<1>7. Cardinality(Loading') = Cardinality(Loading) - 1 /\ Cardinality(Loading) \in Nat
  BY <1>3, <1>6, FS_RemoveElement, FS_CardinalityType
<1>8. ~loadEnded => /\ reports' = [i \in 1 .. Len(reports') |-> i] /\ Len(reports') \in Nat
                    /\ Len(reports') + Cardinality(Loading') = offered
  <2> SUFFICES ASSUME ~loadEnded
               PROVE  /\ reports' = [i \in 1 .. Len(reports') |-> i] /\ Len(reports') \in Nat
                      /\ Len(reports') + Cardinality(Loading') = offered
    OBVIOUS
  <2>1. /\ reports = [i \in 1 .. Len(reports) |-> i] /\ Len(reports) \in Nat
        /\ Len(reports) + Cardinality(Loading) = offered
    BY <1>3 DEF LoadingOK
  <2>2. reports \in Seq(Nat)
    BY <2>1
  <2>3. Len(reports') = Len(reports) + 1 /\ reports' = [i \in 1 .. (Len(reports) + 1) |-> i]
    BY <1>1, <2>1, <2>2
  <2> QED BY <1>3, <1>7, <2>1, <2>3
<1>9. \A m \in Pair : /\ loading'[m] \in 0 .. offered \/ (loading'[m] = Catalog!Left /\ stage = "drain")
                      /\ finished'[m] => loading'[m] \in DOMAIN entries /\ entries[loading'[m]].mapping # "unread"
  <2>1. 0 \in 0 .. offered
    BY <1>3
  <2> QED BY <1>3, <1>4, <2>1 DEF LoadingOK
<1>10. \A k, m \in Pair : k # m /\ loading'[k] \in DOMAIN entries => loading'[k] # loading'[m]
  BY <1>3, <1>4 DEF LoadingOK
<1>11. \A i \in DOMAIN entries :
         i <= offered /\ entries[i].mapping = "unread" => \E m \in Pair : loading'[m] = i /\ ~finished'[m]
  <2> SUFFICES ASSUME NEW i \in DOMAIN entries, i <= offered, entries[i].mapping = "unread"
               PROVE  \E m \in Pair : loading'[m] = i /\ ~finished'[m]
    OBVIOUS
  <2>1. PICK m \in Pair : loading[m] = i /\ ~finished[m]
    BY <1>3 DEF LoadingOK
  <2> QED BY <1>1, <1>4, <2>1
<1>12. LoadingOK'
  BY <1>1, <1>3, <1>5, <1>8, <1>9, <1>10, <1>11 DEF LoadingOK, Catalog!Left
<1>13. Catalog!TypeOK'
  BY <1>1, <1>4 DEF CatalogInv, Catalog!TypeOK
<1>14. Catalog!CatalogComplete'
  BY <1>1, <1>3, CompleteKept DEF CatalogInv, Catalog!Nothing
<1> QED BY <1>1, <1>2, <1>3, <1>4, <1>12, <1>13, <1>14 DEF CatalogInv

LEMMA LeaveKeeps ==
  ASSUME CatalogSetting, CatalogInv, NEW l \in Pair, Catalog!LeaveLoad(l)
  PROVE  CatalogInv'
<1>1. /\ stage = "drain" /\ loading[l] = 0 /\ loading' = [loading EXCEPT ![l] = Catalog!Left]
      /\ UNCHANGED <<resources, stage, entries, offered, finished, reports, loadEnded, catalog>>
  BY DEF Catalog!LeaveLoad, Catalog!LeavesClosed
<1>2. /\ LoadingOK /\ catalog = Catalog!Nothing /\ stage \notin BeforePool
      /\ Catalog!Left \in Nat /\ Catalog!Left \notin DOMAIN entries /\ 0 \notin DOMAIN entries
      /\ loading \in [Pair -> 0 .. Catalog!Left]
  BY <1>1, AtWork
<1>3. loading' \in [Pair -> 0 .. Catalog!Left] /\ loading'[l] = Catalog!Left
      /\ \A m \in Pair \ {l} : loading'[m] = loading[m]
  BY <1>1, <1>2
<1>4. Catalog!Listed' = Catalog!Listed /\ Loading' = Loading
  BY <1>1, <1>2, <1>3 DEF Catalog!Listed, Loading
<1>5. ~finished[l]
  BY <1>1, <1>2 DEF LoadingOK
<1>6. \A m \in Pair : /\ loading'[m] \in 0 .. offered \/ (loading'[m] = Catalog!Left /\ stage = "drain")
                      /\ finished[m] => loading'[m] \in DOMAIN entries /\ entries[loading'[m]].mapping # "unread"
  BY <1>1, <1>2, <1>3, <1>5 DEF LoadingOK
<1>7. \A k, m \in Pair : k # m /\ loading'[k] \in DOMAIN entries => loading'[k] # loading'[m]
  BY <1>2, <1>3 DEF LoadingOK
<1>8. \A i \in DOMAIN entries :
        i <= offered /\ entries[i].mapping = "unread" => \E m \in Pair : loading'[m] = i /\ ~finished[m]
  <2> SUFFICES ASSUME NEW i \in DOMAIN entries, i <= offered, entries[i].mapping = "unread"
               PROVE  \E m \in Pair : loading'[m] = i /\ ~finished[m]
    OBVIOUS
  <2>1. PICK m \in Pair : loading[m] = i /\ ~finished[m]
    BY <1>2 DEF LoadingOK
  <2> QED BY <1>1, <1>2, <1>3, <2>1
<1>9. LoadingOK'
  BY <1>1, <1>2, <1>4, <1>6, <1>7, <1>8 DEF LoadingOK, Catalog!Left
<1>10. Catalog!TypeOK'
  BY <1>1, <1>3 DEF CatalogInv, Catalog!TypeOK
<1>11. Catalog!CatalogComplete'
  BY <1>1, <1>2, CompleteKept DEF CatalogInv, Catalog!Nothing
<1> QED BY <1>1, <1>2, <1>9, <1>10, <1>11 DEF CatalogInv

LEMMA ReturnCatalogKeeps ==
  ASSUME CatalogSetting, CatalogInv, Catalog!ReturnCatalog
  PROVE  CatalogInv'
<1>1. /\ stage = "drain" /\ \A l \in Pair : loading[l] = Catalog!Left
      /\ stage' = "returned"
      /\ catalog' = IF loadEnded THEN Catalog!Refused("cancelled")
                    ELSE [kind |-> "catalog", guides |-> entries, warnings |-> Catalog!Warned(entries)]
      /\ UNCHANGED <<resources, entries, offered, loading, finished, reports, loadEnded>>
  BY DEF Catalog!ReturnCatalog
<1>2. /\ LoadingOK /\ entries \in Seq(GuideEntry) /\ DOMAIN entries = 1 .. Len(entries) /\ Len(entries) \in Nat
      /\ Catalog!Left \notin DOMAIN entries
  BY <1>1, AtWork
<1>3. Catalog!Listed' = Catalog!Listed
  BY <1>1 DEF Catalog!Listed
<1>4. CASE loadEnded
  <2>1. catalog'.kind = "cancelled"
    BY <1>1, <1>4 DEF Catalog!Refused, Catalog!Nothing
  <2>2. Catalog!TypeOK' /\ Catalog!CatalogComplete'
    BY <1>1, <2>1 DEF CatalogInv, Catalog!TypeOK, Catalog!CatalogComplete
  <2> QED BY <1>1, <1>2, <2>2, StagesApart DEF CatalogInv
<1>5. CASE ~loadEnded
  <2>1. catalog'.kind = "catalog" /\ catalog'.guides = entries /\ catalog'.warnings = Catalog!Warned(entries)
    BY <1>1, <1>5
  <2>2. Loading = {}
    BY <1>1, <1>2 DEF Loading
  <2>3. Cardinality(Loading) = 0
    BY <2>2, FS_EmptySet
  <2>4. offered = Len(entries) /\ Len(reports) \in Nat /\ Len(reports) + 0 = offered
        /\ reports = [i \in 1 .. Len(reports) |-> i]
    BY <1>1, <1>2, <1>5, <2>3 DEF LoadingOK
  <2>5. Len(reports) = Len(entries)
    BY <2>4
  <2>6. reports = [i \in DOMAIN entries |-> i]
    BY <1>2, <2>4, <2>5
  <2>7. \A i \in DOMAIN entries : entries[i].mapping \in {"read", "error"}
    <3> SUFFICES ASSUME NEW i \in DOMAIN entries PROVE entries[i].mapping \in {"read", "error"}
      OBVIOUS
    <3>1. i <= offered
      BY <1>2, <2>4
    <3>2. entries[i] \in GuideEntry
      BY <1>2
    <3>3. entries[i].mapping # "unread"
      BY <1>1, <1>2, <3>1 DEF LoadingOK
    <3> QED BY <3>2, <3>3 DEF GuideEntry
  <2>8. DOMAIN entries = DOMAIN Catalog!Listed /\ \A i \in DOMAIN entries : entries[i].id = Catalog!Listed[i].id
    BY <1>2, ListedIsSeq DEF LoadingOK
  <2>9. Catalog!Warned(entries)' = Catalog!Warned(entries)
    BY <1>1
  <2>10. Catalog!CatalogComplete'
    BY <1>1, <1>3, <2>1, <2>6, <2>7, <2>8 DEF Catalog!CatalogComplete
  <2>11. Catalog!TypeOK'
    BY <1>1, <2>1 DEF CatalogInv, Catalog!TypeOK
  <2> QED BY <1>1, <1>2, <2>10, <2>11, StagesApart DEF CatalogInv
<1> QED BY <1>4, <1>5

LEMMA EndLoadKeeps ==
  ASSUME CatalogSetting, CatalogInv, Catalog!EndLoad
  PROVE  CatalogInv'
<1>1. /\ stage # "returned" /\ loadEnded' = TRUE
      /\ UNCHANGED <<resources, stage, entries, offered, loading, finished, reports, catalog>>
  BY DEF Catalog!EndLoad
<1>2. Catalog!Listed' = Catalog!Listed /\ Catalog!TypeOK'
  BY <1>1 DEF Catalog!Listed, CatalogInv, Catalog!TypeOK
<1>3. LoadingOK => LoadingOK'
  BY <1>1, <1>2 DEF LoadingOK, Catalog!Left
<1>4. Catalog!CatalogComplete'
  BY <1>1, CompleteKept DEF CatalogInv
<1> QED BY <1>1, <1>2, <1>3, <1>4 DEF CatalogInv

LEMMA CatalogKeeps ==
  ASSUME CatalogSetting, CatalogInv, [Catalog!Next]_catalogVars
  PROVE  CatalogInv'
<1>1. ASSUME NEW l \in Pair, Catalog!LoaderStep(l) PROVE CatalogInv'
  BY <1>1, OfferKeeps, MapKeeps, ReportKeeps, LeaveKeeps DEF Catalog!LoaderStep
<1>2. CASE Catalog!LoadStep
  BY <1>2, DiscoverKeeps, ListGuidesKeeps, CloseJobsKeeps, ReturnCatalogKeeps DEF Catalog!LoadStep
<1>3. CASE Catalog!EndLoad
  BY <1>3, EndLoadKeeps
<1>4. CASE UNCHANGED catalogVars
  <2>1. UNCHANGED <<resources, stage, entries, offered, loading, finished, reports, loadEnded, catalog>>
    BY <1>4 DEF catalogVars
  <2>2. Catalog!Listed' = Catalog!Listed /\ Catalog!TypeOK' /\ Loading' = Loading
    BY <2>1 DEF Catalog!Listed, CatalogInv, Catalog!TypeOK, Loading
  <2>3. LoadingOK => LoadingOK'
    BY <2>1, <2>2 DEF LoadingOK, Catalog!Left
  <2>4. Catalog!CatalogComplete'
    BY <2>1, CompleteKept DEF CatalogInv
  <2> QED BY <2>1, <2>2, <2>3, <2>4 DEF CatalogInv
<1> QED BY <1>1, <1>2, <1>3, <1>4 DEF Catalog!Next

-----------------------------------------------------------------------------
(* The inputs of a plan.                                                   *)

\* Somebody reads, if there is anything to read.
ReadSetting == Inputs \in Nat /\ Pair # {}

Failures == {"failed", "missing"}

\* ReadInv: a job handed over is being read by one goroutine or has its result, and whoever
\* cancelled the pool has left a failure.
ReadInv ==
  /\ Reads!TypeOK
  /\ feeding \in BOOLEAN /\ poolEnded \in BOOLEAN /\ planEnded \in BOOLEAN
  /\ ~feeding => fed = Inputs \/ Reads!Ended
  /\ \A r \in Pair : /\ reading[r] \in Reads!Jobs => reading[r] <= fed /\ jobResult[reading[r]] = "none"
                     /\ reading[r] = Reads!Gone => ~feeding
  /\ \A q, r \in Pair : q # r /\ reading[q] \in Reads!Jobs => reading[q] # reading[r]
  /\ \A j \in Reads!Jobs : /\ j > fed => jobResult[j] = "none"
                           /\ j <= fed /\ jobResult[j] = "none" => \E r \in Pair : reading[r] = j
                           /\ jobResult[j] = "absent" => j \in optional
                           /\ jobResult[j] = "cancelled" => Reads!Ended
  /\ poolEnded => planEnded \/ \E j \in Reads!Jobs : jobResult[j] \in Failures
  /\ readOutcome # "none" => \A r \in Pair : reading[r] = Reads!Gone
  /\ Reads!ReadsTruthful

\* Nothing is recorded before the reads return.
LEMMA NotYet ==
  ASSUME Reads!ReadsTruthful, readOutcome = "none"
  PROVE  recorded = <<>>
BY DEF Reads!ReadsTruthful

LEMMA TruthfulKept ==
  ASSUME Reads!ReadsTruthful, Reads!TypeOK, UNCHANGED <<optional, readOutcome, recorded>>, planEnded => planEnded',
         readOutcome # "none" => UNCHANGED jobResult
  PROVE  Reads!ReadsTruthful'
<1>1. CASE readOutcome = "none"
  <2>1. recorded' = <<>> /\ readOutcome' = "none"
    BY <1>1, NotYet
  <2> QED BY <2>1 DEF Reads!ReadsTruthful
<1>2. CASE readOutcome # "none"
  <2>1. UNCHANGED <<optional, readOutcome, recorded, jobResult>>
    BY <1>2
  <2>2. \A results : Reads!Having(results)' = Reads!Having(results)
    BY <2>1 DEF Reads!Having
  <2>3. readOutcome \in {"read", "failed", "cancelled"}
    BY <1>2 DEF Reads!TypeOK
  <2>4. CASE readOutcome = "read"
    BY <2>1, <2>2, <2>4 DEF Reads!ReadsTruthful
  <2>5. CASE readOutcome = "failed"
    BY <2>1, <2>2, <2>5 DEF Reads!ReadsTruthful
  <2>6. CASE readOutcome = "cancelled"
    BY <2>1, <2>6 DEF Reads!ReadsTruthful
  <2> QED BY <2>3, <2>4, <2>5, <2>6
<1> QED BY <1>1, <1>2

LEMMA ReadsStart ==
  ASSUME ReadSetting, Reads!Init
  PROVE  ReadInv
<1>1. /\ fed = 0 /\ reading = [r \in Pair |-> 0] /\ jobResult = [j \in Reads!Jobs |-> "none"]
      /\ feeding = TRUE /\ poolEnded = FALSE /\ planEnded = FALSE /\ readOutcome = "none" /\ recorded = <<>>
      /\ optional \subseteq Reads!Jobs /\ Inputs \in Nat
  BY DEF Reads!Init, ReadSetting
<1>2. 0 \notin Reads!Jobs /\ 0 \in 0 .. Reads!Gone /\ 0 # Reads!Gone /\ 0 \in 0 .. Inputs /\ \A j \in Reads!Jobs : j > 0
  BY <1>1 DEF Reads!Jobs, Reads!Gone
<1>3. Reads!TypeOK
  BY <1>1, <1>2 DEF Reads!TypeOK
<1>4. Reads!ReadsTruthful
  BY <1>1 DEF Reads!ReadsTruthful
<1>5. \A r \in Pair : reading[r] = 0 /\ reading[r] \notin Reads!Jobs /\ reading[r] # Reads!Gone
  BY <1>1, <1>2
<1>6. \A j \in Reads!Jobs : jobResult[j] = "none" /\ ~(j <= fed)
  BY <1>1, <1>2
<1> QED BY <1>1, <1>3, <1>4, <1>5, <1>6 DEF ReadInv

LEMMA FeedKeeps ==
  ASSUME ReadSetting, ReadInv, NEW r \in Pair, Reads!Feed(r)
  PROVE  ReadInv'
<1>1. /\ feeding /\ fed < Inputs /\ reading[r] = 0 /\ fed' = fed + 1 /\ reading' = [reading EXCEPT ![r] = fed + 1]
      /\ UNCHANGED <<optional, feeding, jobResult, poolEnded, planEnded, readOutcome, recorded>>
  BY DEF Reads!Feed
<1>2. fed \in 0 .. Inputs /\ Inputs \in Nat /\ reading \in [Pair -> 0 .. Reads!Gone]
  BY DEF ReadInv, Reads!TypeOK, ReadSetting
<1>3. fed + 1 \in Reads!Jobs /\ fed + 1 \in 0 .. Reads!Gone /\ fed + 1 # Reads!Gone /\ fed + 1 \in 0 .. Inputs
      /\ 0 \notin Reads!Jobs
      /\ Reads!Gone \notin Reads!Jobs
  BY <1>1, <1>2 DEF Reads!Jobs, Reads!Gone
<1>4. reading' \in [Pair -> 0 .. Reads!Gone] /\ reading'[r] = fed + 1
      /\ \A q \in Pair \ {r} : reading'[q] = reading[q]
  BY <1>1, <1>2, <1>3
<1>5. Reads!TypeOK'
  BY <1>1, <1>3, <1>4 DEF ReadInv, Reads!TypeOK
<1>6. \A q \in Pair : reading[q] \in Reads!Jobs => reading[q] <= fed /\ reading[q] # fed + 1 /\ reading[q] <= fed + 1
  BY <1>2 DEF ReadInv, Reads!Jobs
<1>7. jobResult[fed + 1] = "none"
  <2>1. fed + 1 > fed
    BY <1>2
  <2> QED BY <1>3, <2>1 DEF ReadInv
<1>8. \A q \in Pair : /\ reading'[q] \in Reads!Jobs => reading'[q] <= fed' /\ jobResult[reading'[q]] = "none"
                      /\ reading'[q] = Reads!Gone => ~feeding
  <2> SUFFICES ASSUME NEW q \in Pair
               PROVE  /\ reading'[q] \in Reads!Jobs => reading'[q] <= fed' /\ jobResult[reading'[q]] = "none"
                      /\ reading'[q] = Reads!Gone => ~feeding
    OBVIOUS
  <2>1. CASE q = r
    BY <1>1, <1>2, <1>3, <1>4, <1>7, <2>1
  <2>2. CASE q # r
    BY <1>1, <1>4, <1>6, <2>2 DEF ReadInv
  <2> QED BY <2>1, <2>2
<1>9. \A p, q \in Pair : p # q /\ reading'[p] \in Reads!Jobs => reading'[p] # reading'[q]
  <2> SUFFICES ASSUME NEW p \in Pair, NEW q \in Pair, p # q, reading'[p] \in Reads!Jobs, reading'[p] = reading'[q]
               PROVE  FALSE
    OBVIOUS
  <2>1. p # r /\ q # r => FALSE
    BY <1>4 DEF ReadInv
  <2>2. p = r => FALSE
    BY <1>3, <1>4, <1>6
  <2>3. q = r => FALSE
    BY <1>3, <1>4, <1>6
  <2> QED BY <2>1, <2>2, <2>3
<1>10. \A j \in Reads!Jobs : /\ j > fed' => jobResult[j] = "none"
                             /\ j <= fed' /\ jobResult[j] = "none" => \E q \in Pair : reading'[q] = j
  <2> SUFFICES ASSUME NEW j \in Reads!Jobs
               PROVE  /\ j > fed' => jobResult[j] = "none"
                      /\ j <= fed' /\ jobResult[j] = "none" => \E q \in Pair : reading'[q] = j
    OBVIOUS
  <2>1. j \in Nat /\ (j > fed' => j > fed) /\ (j <= fed' => j <= fed \/ j = fed + 1)
    BY <1>1, <1>2 DEF Reads!Jobs
  <2>2. ASSUME j <= fed, jobResult[j] = "none" PROVE \E q \in Pair : reading'[q] = j
    <3>1. PICK q \in Pair : reading[q] = j
      BY <2>2 DEF ReadInv
    <3>2. q # r
      BY <1>1, <1>3, <3>1
    <3> QED BY <1>4, <3>1, <3>2
  <2> QED BY <1>4, <2>1, <2>2 DEF ReadInv
<1>11. readOutcome = "none"
  BY <1>1, <1>2 DEF ReadInv, Reads!Gone
<1>12. Reads!ReadsTruthful'
  BY <1>1, TruthfulKept DEF ReadInv
<1> QED BY <1>1, <1>5, <1>8, <1>9, <1>10, <1>11, <1>12 DEF ReadInv, Reads!Ended

LEMMA StopFeedingKeeps ==
  ASSUME ReadSetting, ReadInv, Reads!StopFeeding
  PROVE  ReadInv'
<1>1. /\ (fed = Inputs \/ Reads!Ended) /\ feeding' = FALSE
      /\ UNCHANGED <<optional, fed, reading, jobResult, poolEnded, planEnded, readOutcome, recorded>>
  BY DEF Reads!StopFeeding
<1>2. Reads!TypeOK'
  BY <1>1 DEF ReadInv, Reads!TypeOK
<1>3. Reads!ReadsTruthful'
  BY <1>1, TruthfulKept DEF ReadInv
<1> QED BY <1>1, <1>2, <1>3 DEF ReadInv, Reads!Ended

LEMMA AnswerKeeps ==
  ASSUME ReadSetting, ReadInv, NEW r \in Pair, Reads!Answer(r)
  PROVE  ReadInv'
<1> DEFINE j == reading[r]
<1>1. PICK reply \in Reads!Answers :
        /\ jobResult' = [jobResult EXCEPT ![j] = Reads!Weighed(j, reply)]
        /\ poolEnded' = (poolEnded \/ Reads!Weighed(j, reply) \notin {"read", "absent"})
  BY DEF Reads!Answer
<1>2. /\ j \in Reads!Jobs /\ reading' = [reading EXCEPT ![r] = 0]
      /\ UNCHANGED <<optional, fed, feeding, planEnded, readOutcome, recorded>>
  BY DEF Reads!Answer
<1> DEFINE w == Reads!Weighed(j, reply)
<1>3. /\ w \in {"read", "absent", "missing", "failed", "cancelled"}
      /\ w = "absent" => j \in optional
      /\ w = "cancelled" => Reads!Ended
  BY DEF Reads!Weighed, Reads!Answers
<1> HIDE DEF w
<1>4. /\ fed \in 0 .. Inputs /\ Inputs \in Nat /\ reading \in [Pair -> 0 .. Reads!Gone] /\ optional \subseteq Reads!Jobs
      /\ jobResult \in [Reads!Jobs -> {"none", "read", "absent", "missing", "failed", "cancelled"}]
  BY DEF ReadInv, Reads!TypeOK, ReadSetting
<1>5. jobResult[j] = "none" /\ j <= fed /\ j \in Nat
  BY <1>2 DEF ReadInv, Reads!Jobs
<1>6. /\ jobResult' \in [Reads!Jobs -> {"none", "read", "absent", "missing", "failed", "cancelled"}]
      /\ jobResult'[j] = w /\ w # "none" /\ \A k \in Reads!Jobs \ {j} : jobResult'[k] = jobResult[k]
      /\ poolEnded' = (poolEnded \/ w \notin {"read", "absent"})
  BY <1>1, <1>2, <1>3, <1>4 DEF w
<1>7. 0 \in 0 .. Reads!Gone /\ 0 \notin Reads!Jobs /\ 0 # Reads!Gone /\ Reads!Gone \notin Reads!Jobs
  BY <1>4 DEF Reads!Gone, Reads!Jobs
<1>8. /\ reading' \in [Pair -> 0 .. Reads!Gone] /\ reading'[r] = 0 /\ \A q \in Pair \ {r} : reading'[q] = reading[q]
  BY <1>2, <1>4, <1>7
<1>9. Reads!TypeOK'
  BY <1>2, <1>6, <1>8 DEF ReadInv, Reads!TypeOK
<1>10. poolEnded' \in BOOLEAN /\ (Reads!Ended => Reads!Ended')
  BY <1>2, <1>6 DEF ReadInv, Reads!Ended
<1>11. \A q \in Pair : /\ reading'[q] \in Reads!Jobs => reading'[q] <= fed /\ jobResult'[reading'[q]] = "none"
                       /\ reading'[q] = Reads!Gone => ~feeding
  <2> SUFFICES ASSUME NEW q \in Pair, q # r
               PROVE  /\ reading'[q] \in Reads!Jobs => reading'[q] <= fed /\ jobResult'[reading'[q]] = "none"
                      /\ reading'[q] = Reads!Gone => ~feeding
    BY <1>7, <1>8
  <2>1. reading[q] \in Reads!Jobs => reading[q] # j
    BY DEF ReadInv
  <2> QED BY <1>6, <1>8, <2>1 DEF ReadInv
<1>12. \A p, q \in Pair : p # q /\ reading'[p] \in Reads!Jobs => reading'[p] # reading'[q]
  BY <1>7, <1>8 DEF ReadInv
<1>13. \A k \in Reads!Jobs : /\ k > fed => jobResult'[k] = "none"
                             /\ k <= fed /\ jobResult'[k] = "none" => \E q \in Pair : reading'[q] = k
                             /\ jobResult'[k] = "absent" => k \in optional
                             /\ jobResult'[k] = "cancelled" => Reads!Ended'
  <2> SUFFICES ASSUME NEW k \in Reads!Jobs
               PROVE  /\ k > fed => jobResult'[k] = "none"
                      /\ k <= fed /\ jobResult'[k] = "none" => \E q \in Pair : reading'[q] = k
                      /\ jobResult'[k] = "absent" => k \in optional
                      /\ jobResult'[k] = "cancelled" => Reads!Ended'
    OBVIOUS
  <2>1. CASE k = j
    <3>1. ~(k > fed)
      BY <1>4, <1>5, <2>1
    <3> QED BY <1>3, <1>6, <1>10, <2>1, <3>1
  <2>2. CASE k # j
    <3>1. jobResult'[k] = jobResult[k]
      BY <1>6, <2>2
    <3>2. ASSUME k <= fed, jobResult[k] = "none" PROVE \E q \in Pair : reading'[q] = k
      <4>1. PICK q \in Pair : reading[q] = k
        BY <3>2 DEF ReadInv
      <4> QED BY <1>8, <2>2, <4>1
    <3> QED BY <1>10, <3>1, <3>2 DEF ReadInv
  <2> QED BY <2>1, <2>2
<1>14. poolEnded' => planEnded \/ \E k \in Reads!Jobs : jobResult'[k] \in Failures
  <2>1. ASSUME poolEnded \/ planEnded PROVE planEnded \/ \E k \in Reads!Jobs : jobResult'[k] \in Failures
    <3>1. ASSUME NEW k \in Reads!Jobs, jobResult[k] \in Failures PROVE jobResult'[k] \in Failures
      BY <1>5, <1>6, <3>1 DEF Failures
    <3> QED BY <2>1, <3>1 DEF ReadInv
  <2>2. w \in Failures \/ w = "cancelled" \/ w \in {"read", "absent"}
    BY <1>3 DEF Failures
  <2> QED BY <1>2, <1>3, <1>6, <2>1, <2>2 DEF Reads!Ended
<1>15. readOutcome = "none"
  BY <1>2, <1>7 DEF ReadInv
<1>16. Reads!ReadsTruthful'
  BY <1>2, <1>15, TruthfulKept DEF ReadInv
<1> QED BY <1>2, <1>9, <1>10, <1>11, <1>12, <1>13, <1>14, <1>15, <1>16 DEF ReadInv, Reads!Ended

LEMMA LeavePoolKeeps ==
  ASSUME ReadSetting, ReadInv, NEW r \in Pair, Reads!LeavePool(r)
  PROVE  ReadInv'
<1>1. /\ ~feeding /\ reading[r] = 0 /\ reading' = [reading EXCEPT ![r] = Reads!Gone]
      /\ UNCHANGED <<optional, fed, feeding, jobResult, poolEnded, planEnded, readOutcome, recorded>>
  BY DEF Reads!LeavePool
<1>2. reading \in [Pair -> 0 .. Reads!Gone] /\ Reads!Gone \in 0 .. Reads!Gone /\ Reads!Gone \notin Reads!Jobs
      /\ 0 \notin Reads!Jobs
  BY DEF ReadInv, Reads!TypeOK, ReadSetting, Reads!Gone, Reads!Jobs
<1>3. reading' \in [Pair -> 0 .. Reads!Gone] /\ reading'[r] = Reads!Gone /\ \A q \in Pair \ {r} : reading'[q] = reading[q]
  BY <1>1, <1>2
<1>4. Reads!TypeOK'
  BY <1>1, <1>3 DEF ReadInv, Reads!TypeOK
<1>5. \A q \in Pair : /\ reading'[q] \in Reads!Jobs => reading'[q] <= fed /\ jobResult[reading'[q]] = "none"
                      /\ reading'[q] = Reads!Gone => ~feeding
  BY <1>1, <1>2, <1>3 DEF ReadInv
<1>6. \A p, q \in Pair : p # q /\ reading'[p] \in Reads!Jobs => reading'[p] # reading'[q]
  BY <1>2, <1>3 DEF ReadInv
<1>7. \A j \in Reads!Jobs : j <= fed /\ jobResult[j] = "none" => \E q \in Pair : reading'[q] = j
  <2> SUFFICES ASSUME NEW j \in Reads!Jobs, j <= fed, jobResult[j] = "none" PROVE \E q \in Pair : reading'[q] = j
    OBVIOUS
  <2>1. PICK q \in Pair : reading[q] = j
    BY DEF ReadInv
  <2> QED BY <1>1, <1>2, <1>3, <2>1
<1>8. readOutcome # "none" => \A q \in Pair : reading'[q] = Reads!Gone
  BY <1>3 DEF ReadInv
<1>9. Reads!ReadsTruthful'
  BY <1>1, TruthfulKept DEF ReadInv
<1> QED BY <1>1, <1>4, <1>5, <1>6, <1>7, <1>8, <1>9 DEF ReadInv, Reads!Ended

LEMMA EndPlanKeeps ==
  ASSUME ReadSetting, ReadInv, Reads!EndPlan
  PROVE  ReadInv'
<1>1. /\ planEnded' = TRUE
      /\ UNCHANGED <<optional, fed, feeding, reading, jobResult, poolEnded, readOutcome, recorded>>
  BY DEF Reads!EndPlan
<1>2. Reads!TypeOK'
  BY <1>1 DEF ReadInv, Reads!TypeOK
<1>3. Reads!ReadsTruthful'
  BY <1>1, TruthfulKept DEF ReadInv
<1> QED BY <1>1, <1>2, <1>3 DEF ReadInv, Reads!Ended

\* When all goroutines are gone and nothing failed, every job was read.
LEMMA AllRead ==
  ASSUME ReadSetting, ReadInv, \A r \in Pair : reading[r] = Reads!Gone, ~planEnded,
         Reads!Having({"failed", "missing"}) = {}
  PROVE  \A j \in Reads!Jobs : jobResult[j] \in {"read", "absent"} /\ (jobResult[j] = "absent" => j \in optional)
<1>1. ~poolEnded
  BY DEF ReadInv, Reads!Having, Failures
<1>2. ~feeding
  BY DEF ReadInv, ReadSetting
<1>3. fed = Inputs
  BY <1>1, <1>2 DEF ReadInv, Reads!Ended
<1>4. Reads!Gone \notin Reads!Jobs /\ \A j \in Reads!Jobs : j <= fed
  BY <1>3 DEF Reads!Jobs, Reads!Gone, ReadSetting
<1>5. \A j \in Reads!Jobs : jobResult[j] # "none" /\ jobResult[j] # "cancelled"
  BY <1>1, <1>4 DEF ReadInv, Reads!Ended
<1>6. \A j \in Reads!Jobs : jobResult[j] \notin {"failed", "missing"}
  BY DEF Reads!Having
<1> QED BY <1>5, <1>6 DEF ReadInv, Reads!TypeOK

\* What is recorded is what was read, in the order of the jobs.
LEMMA Recorded ==
  ASSUME ReadSetting, NEW picked, picked \subseteq Reads!Jobs
  PROVE  LET those == Those([j \in Reads!Jobs |-> j], picked) IN
         /\ Reads!ToSet(those) = picked
         /\ \A i, k \in DOMAIN those : i < k => those[i] < those[k]
<1> DEFINE s == [j \in Reads!Jobs |-> j]
           those == Those(s, picked)
<1>1. s \in Seq(Reads!Jobs) /\ Len(s) = Inputs /\ Inputs \in Nat
  BY DEF ReadSetting, Reads!Jobs
<1>2. \A i \in 1 .. Len(s) : s[i] = i /\ i \in Reads!Jobs
  BY <1>1 DEF Reads!Jobs
<1>3. \A j \in Reads!Jobs : j \in 1 .. Len(s) /\ s[j] = j
  BY <1>1 DEF Reads!Jobs
<1> HIDE DEF s
<1>4. Picked(s, picked, Len(s), those)
  BY <1>1, ThosePicked
<1> HIDE DEF those
<1>5. \A i, j \in 1 .. Len(s) : i < j => s[i] < s[j]
  BY <1>2
<1>6. \A i, k \in DOMAIN those : i < k => those[i] < those[k]
  BY <1>4, <1>5 DEF Picked
<1>7. \A k \in DOMAIN those : those[k] \in picked
  BY <1>4 DEF Picked
<1>8. \A j \in picked : \E k \in DOMAIN those : those[k] = j
  BY <1>3, <1>4 DEF Picked
<1>9. Reads!ToSet(those) = picked
  BY <1>7, <1>8 DEF Reads!ToSet
<1> QED BY <1>6, <1>9 DEF those, s

LEMMA ReturnKeeps ==
  ASSUME ReadSetting, ReadInv, Reads!ReturnInputs
  PROVE  ReadInv'
<1>1. /\ readOutcome = "none" /\ \A r \in Pair : reading[r] = Reads!Gone
      /\ readOutcome' = (IF planEnded THEN "cancelled" ELSE Reads!Verdict)
      /\ recorded' = IF readOutcome' = "read" THEN Reads!InJobOrder ELSE <<>>
      /\ UNCHANGED <<optional, fed, feeding, reading, jobResult, poolEnded, planEnded>>
  BY DEF Reads!ReturnInputs
<1>2. Reads!Verdict \in {"failed", "cancelled", "read"}
  BY DEF Reads!Verdict
<1>3. Reads!TypeOK'
  BY <1>1, <1>2 DEF ReadInv, Reads!TypeOK
<1>4. Reads!ReadsTruthful'
  <2>1. \A results : Reads!Having(results)' = Reads!Having(results)
    BY <1>1 DEF Reads!Having
  <2>2. CASE planEnded
    BY <1>1, <2>2 DEF Reads!ReadsTruthful
  <2>3. CASE ~planEnded /\ Reads!Having({"failed", "missing"}) # {}
    BY <1>1, <2>1, <2>3 DEF Reads!ReadsTruthful, Reads!Verdict
  <2>4. CASE ~planEnded /\ Reads!Having({"failed", "missing"}) = {}
    <3>1. \A j \in Reads!Jobs : jobResult[j] \in {"read", "absent"} /\ (jobResult[j] = "absent" => j \in optional)
      BY <1>1, <2>4, AllRead
    <3>2. Reads!Having({"cancelled"}) = {}
      BY <3>1 DEF Reads!Having
    <3>3. readOutcome' = "read"
      BY <1>1, <2>4, <3>2 DEF Reads!Verdict
    <3>4. Reads!Having({"read"}) \subseteq Reads!Jobs
      BY DEF Reads!Having
    <3>5. recorded' = Those([j \in Reads!Jobs |-> j], Reads!Having({"read"}))
      BY <1>1, <3>3, SameThose DEF Reads!InJobOrder
    <3>6. /\ Reads!ToSet(recorded') = Reads!Having({"read"})
          /\ \A i, k \in DOMAIN recorded' : i < k => recorded'[i] < recorded'[k]
      BY <3>4, <3>5, Recorded
    <3>7. optional \subseteq Reads!Jobs
      BY DEF ReadInv, Reads!TypeOK
    <3> QED BY <1>1, <2>1, <3>1, <3>3, <3>6, <3>7 DEF Reads!ReadsTruthful
  <2> QED BY <2>2, <2>3, <2>4
<1> QED BY <1>1, <1>3, <1>4 DEF ReadInv, Reads!Ended

LEMMA ReadsKeep ==
  ASSUME ReadSetting, ReadInv, [Reads!Next]_readVars
  PROVE  ReadInv'
<1>1. ASSUME NEW r \in Pair, Reads!Feed(r) \/ Reads!Answer(r) \/ Reads!LeavePool(r) PROVE ReadInv'
  BY <1>1, FeedKeeps, AnswerKeeps, LeavePoolKeeps
<1>2. CASE Reads!StopFeeding
  BY <1>2, StopFeedingKeeps
<1>3. CASE Reads!ReturnInputs
  BY <1>3, ReturnKeeps
<1>4. CASE Reads!EndPlan
  BY <1>4, EndPlanKeeps
<1>5. CASE UNCHANGED readVars
  <2>1. UNCHANGED <<optional, fed, feeding, reading, jobResult, poolEnded, planEnded, readOutcome, recorded>>
    BY <1>5 DEF readVars
  <2>2. Reads!ReadsTruthful'
    BY <2>1, TruthfulKept DEF ReadInv
  <2>3. Reads!TypeOK'
    BY <2>1 DEF ReadInv, Reads!TypeOK
  <2> QED BY <2>1, <2>2, <2>3 DEF ReadInv, Reads!Ended
<1> QED BY <1>1, <1>2, <1>3, <1>4, <1>5 DEF Reads!Next, Reads!ReadStep

-----------------------------------------------------------------------------
(* The guided choice.                                                      *)

ChoiceSetting ==
  /\ \A line \in CommandLines : Choice!CommandLine(line)
  /\ Resolved \in [Places \X Versions -> SUBSET Guides]

\* The place of a question in Steps.
Rank(step) == CASE step = "platform" -> 1 [] step = "version" -> 2 [] step = "mode" -> 3 [] step = "guides" -> 4
                [] step = "destination" -> 5 [] step = "preference" -> 6 [] step = "conversion" -> 7
                [] step = "existing" -> 8
Questioned == {"platform", "version", "mode", "guides", "destination", "preference", "conversion", "existing"}

\* What may be asked of a user: nothing that the command line fixed, and guides only
\* while some are to be chosen.
Askable(step) ==
  CASE step = "mode"       -> ~Choice!Fixed("all") /\ ~Choice!Fixed("guides")
    [] step = "guides"     -> mode = "some" /\ ~Choice!Fixed("guides")
    [] step = "preference" -> ~Choice!Fixed("prefer")
    [] step = "conversion" -> ~Choice!Fixed("convert")
    [] step = "existing"   -> ~Choice!Fixed("refresh") /\ destination = "old"
    [] OTHER               -> ~Choice!Fixed(step)

ChoiceTypes ==
  /\ Choice!TypeOK /\ given \in CommandLines /\ selected \in {"none", "failed", "chosen"}
  /\ all \in BOOLEAN /\ destination \in {Choice!Unset, "old", "new"}
  /\ prefer \in BOOLEAN /\ refresh \in BOOLEAN /\ convert \in {"no", "convert", "replace"}
  /\ snapshot \in BOOLEAN /\ history \in Seq(Questioned)

\* The questions behind lie in the order of Steps before the one asked.
HistoryOK ==
  /\ selAt = "start" => history = <<>>
  /\ selAt # "start" => current \in Questioned /\ Askable(current)
  /\ \A i \in DOMAIN history : Askable(history[i]) /\ Rank(history[i]) < Rank(current)
  /\ \A i, j \in DOMAIN history : i < j => Rank(history[i]) < Rank(history[j])

\* What the command line fixed is as it was given.
FixedOK ==
  /\ Choice!Fixed("platform") => platform = given.platform
  /\ Choice!Fixed("version") => version = given.version
  /\ Choice!Fixed("destination") => destination = given.destination
  /\ Choice!Fixed("prefer") => prefer = given.prefer
  /\ Choice!Fixed("convert") => convert = given.convert
  /\ Choice!Fixed("refresh") => refresh = given.refresh
  /\ Choice!Fixed("guides") => mode = "some" /\ guides = given.guides /\ draft = given.guides
  /\ Choice!Fixed("all") => mode = "all"

\* The guides of the question about them are those chosen, once it is behind.
Settled == selAt # "start" /\ (Rank(current) > 4 \/ (current = "guides" /\ selAt = "follow"))

ChoiceOK ==
  /\ all <=> mode = "all"
  /\ mode = "" => guides = {} /\ draft = {}
  /\ mode = "all" /\ snapshot => guides \subseteq Choice!Docs /\ Choice!Docs \ guides \subseteq Choice!Gone(Choice!Docs)
  /\ mode = "some" /\ ~Choice!Fixed("guides") => selAt # "start" /\ (Settled => guides = draft)
  /\ refresh /\ ~Choice!Fixed("refresh") => destination = "old"

\* Nothing is answered at the start, and a complete command line asks nothing.
StartOK ==
  /\ ~Choice!Guided => selAt = "start"
  /\ selAt = "start" => /\ platform = given.platform /\ version = given.version /\ destination = given.destination
                        /\ all = given.all /\ guides = given.guides /\ draft = given.guides
                        /\ prefer = given.prefer /\ convert = given.convert /\ refresh = given.refresh

ChoiceInv ==
  /\ ChoiceTypes /\ Choice!ChoiceStands
  /\ selAt # "ended" => selected = "none" /\ HistoryOK /\ FixedOK /\ ChoiceOK /\ StartOK

-----------------------------------------------------------------------------
\* Steps names each question once, in the order of the ranks.
LEMMA RankOfSteps ==
  /\ DOMAIN Choice!Steps = 1 .. 8
  /\ \A n \in DOMAIN Choice!Steps : Choice!Steps[n] \in Questioned /\ Rank(Choice!Steps[n]) = n
  /\ \A step \in Questioned : Rank(step) \in DOMAIN Choice!Steps /\ Choice!Steps[Rank(step)] = step
<1>1. DOMAIN Choice!Steps = 1 .. 8
  BY DEF Choice!Steps
<1>2. /\ Rank("platform") = 1 /\ Rank("version") = 2 /\ Rank("mode") = 3 /\ Rank("guides") = 4
      /\ Rank("destination") = 5 /\ Rank("preference") = 6 /\ Rank("conversion") = 7 /\ Rank("existing") = 8
  BY DEF Rank
<1>3. /\ Choice!Steps[1] = "platform" /\ Choice!Steps[2] = "version" /\ Choice!Steps[3] = "mode"
         /\ Choice!Steps[4] = "guides"
      /\ Choice!Steps[5] = "destination" /\ Choice!Steps[6] = "preference" /\ Choice!Steps[7] = "conversion"
         /\ Choice!Steps[8] = "existing"
  BY DEF Choice!Steps
<1>4. \A n \in 1 .. 8 : n = 1 \/ n = 2 \/ n = 3 \/ n = 4 \/ n = 5 \/ n = 6 \/ n = 7 \/ n = 8
  OBVIOUS
<1>5. \A n \in DOMAIN Choice!Steps : Choice!Steps[n] \in Questioned /\ Rank(Choice!Steps[n]) = n
  BY <1>1, <1>2, <1>3, <1>4 DEF Questioned
<1>6. \A step \in Questioned : Rank(step) \in 1 .. 8 /\ Choice!Steps[Rank(step)] = step
  BY <1>2, <1>3 DEF Questioned
<1> QED BY <1>1, <1>5, <1>6

\* The guides of a place are guides.
LEMMA DocsAreGuides ==
  ASSUME ChoiceSetting, Choice!TypeOK
  PROVE  Choice!Docs \subseteq Guides /\ (Choice!Docs # {} => platform \in Places /\ version \in Versions)
<1>1. CASE platform = Choice!Unset \/ version = Choice!Unset
  BY <1>1 DEF Choice!Docs
<1>2. CASE platform # Choice!Unset /\ version # Choice!Unset
  <2>1. platform \in Places /\ version \in Versions
    BY <1>2 DEF Choice!TypeOK
  <2>2. Resolved[platform, version] \subseteq Guides
    BY <2>1 DEF ChoiceSetting
  <2> QED BY <1>2, <2>1, <2>2 DEF Choice!Docs
<1> QED BY <1>1, <1>2

LEMMA OutcomesAreKnown ==
  ASSUME NEW d, NEW withPDF, NEW o \in Choice!Outcomes(d, withPDF)
  PROVE  o.source \in {"unseen", "served", "gone", "unknown"} /\ o.pdf \in {"unseen", "offered", "not offered"}
<1>1. CASE \E s \in {"gone", "unknown"} : o = [source |-> s, pdf |-> "unseen", replaced |-> FALSE]
  <2>1. PICK s \in {"gone", "unknown"} : o = [source |-> s, pdf |-> "unseen", replaced |-> FALSE]
    BY <1>1
  <2>2. o.source = s /\ o.pdf = "unseen"
    BY <2>1
  <2> QED BY <2>2
<1>2. CASE o \in [source : {"served"}, replaced : BOOLEAN,
                  pdf : IF withPDF /\ d \notin PDFs THEN {"offered", "not offered"} ELSE {"unseen"}]
  <2>1. o.source \in {"served"} /\ o.pdf \in (IF withPDF /\ d \notin PDFs THEN {"offered", "not offered"} ELSE {"unseen"})
    BY <1>2
  <2> QED BY <2>1
<1>3. CASE o = [source |-> "served", pdf |-> "unseen", replaced |-> TRUE]
  <2>1. o.source = "served" /\ o.pdf = "unseen"
    BY <1>3
  <2> QED BY <2>1
<1> QED BY <1>1, <1>2, <1>3 DEF Choice!Outcomes

\* A scan learns of what it probes, and does not look again at what is gone.
LEMMA ScanLearns ==
  ASSUME ChoiceSetting, Choice!TypeOK, NEW docs, docs \subseteq Choice!Docs, NEW withPDF, Choice!Scan(docs, withPDF)
  PROVE  /\ sources' \in [Guides -> {"unseen", "served", "gone", "unknown"}]
         /\ publisher' \in [Guides -> {"unseen", "offered", "not offered"}]
         /\ replaced' \subseteq Versions \X Guides
         /\ \A d \in Guides : sources[d] = "gone" => sources'[d] = "gone"
<1>1. docs \subseteq Guides /\ (docs # {} => version \in Versions)
  BY DocsAreGuides
<1>2. PICK learnt \in [Choice!Probed(docs, withPDF) -> UNION {Choice!Outcomes(d, withPDF) : d \in Guides}] :
        /\ \A d \in DOMAIN learnt : learnt[d] \in Choice!Outcomes(d, withPDF)
        /\ sources' = [d \in Guides |-> IF d \in DOMAIN learnt THEN learnt[d].source ELSE sources[d]]
        /\ publisher' = [d \in Guides |-> IF d \in DOMAIN learnt /\ learnt[d].pdf # "unseen"
                                          THEN learnt[d].pdf ELSE publisher[d]]
        /\ replaced' = {r \in replaced : r[2] \notin DOMAIN learnt \/ r[1] # version
                                         \/ learnt[r[2]].source = "gone"}
                       \cup {<<version, d>> : d \in {e \in DOMAIN learnt : learnt[e].replaced}}
  BY DEF Choice!Scan
<1>3. DOMAIN learnt = Choice!Probed(docs, withPDF)
  OBVIOUS
<1>4. Choice!Probed(docs, withPDF) \subseteq docs
      /\ \A d \in Choice!Probed(docs, withPDF) : sources[d] # "gone"
  BY DEF Choice!Probed
<1>5. \A d \in DOMAIN learnt : /\ learnt[d].source \in {"unseen", "served", "gone", "unknown"}
                               /\ learnt[d].pdf \in {"unseen", "offered", "not offered"}
  <2> SUFFICES ASSUME NEW d \in DOMAIN learnt
               PROVE  /\ learnt[d].source \in {"unseen", "served", "gone", "unknown"}
                      /\ learnt[d].pdf \in {"unseen", "offered", "not offered"}
    OBVIOUS
  <2>1. learnt[d] \in Choice!Outcomes(d, withPDF)
    BY <1>2
  <2> QED BY <2>1, OutcomesAreKnown
<1>6. sources' \in [Guides -> {"unseen", "served", "gone", "unknown"}]
  BY <1>2, <1>5 DEF Choice!TypeOK
<1>7. publisher' \in [Guides -> {"unseen", "offered", "not offered"}]
  BY <1>2, <1>5 DEF Choice!TypeOK
<1>8. replaced' \subseteq Versions \X Guides
  <2>1. \A d \in DOMAIN learnt : <<version, d>> \in Versions \X Guides
    BY <1>1, <1>3, <1>4
  <2>2. replaced \subseteq Versions \X Guides
    BY DEF Choice!TypeOK
  <2> QED BY <1>2, <2>1, <2>2
<1>9. \A d \in Guides : sources[d] = "gone" => sources'[d] = "gone"
  BY <1>2, <1>3, <1>4
<1> QED BY <1>6, <1>7, <1>8, <1>9

\* What Prepare leaves: the guides are looked at anew only when all are chosen.
LEMMA PrepareKeeps ==
  ASSUME ChoiceSetting, Choice!TypeOK, snapshot \in BOOLEAN, Choice!Prepare
  PROVE  /\ Choice!ForAvailability \subseteq Choice!Docs
         /\ sources' \in [Guides -> {"unseen", "served", "gone", "unknown"}]
         /\ publisher' \in [Guides -> {"unseen", "offered", "not offered"}]
         /\ replaced' \subseteq Versions \X Guides
         /\ guides' \subseteq Guides /\ skipped' \subseteq Guides /\ snapshot' \in BOOLEAN
         /\ \A d \in Guides : sources[d] = "gone" => sources'[d] = "gone"
         /\ ~(Choice!All /\ Choice!Ready) => UNCHANGED <<guides, skipped, snapshot>>
         /\ Choice!All /\ Choice!Ready => guides' = Choice!Left(Choice!ForAvailability) /\ snapshot' = TRUE
<1>1. Choice!ForAvailability \subseteq Choice!Docs /\ Choice!Docs \subseteq Guides
  BY DocsAreGuides DEF Choice!ForAvailability
<1>2. CASE ~Choice!Ready
  <2>1. UNCHANGED <<sources, publisher, replaced, guides, skipped, snapshot>>
    BY <1>2 DEF Choice!Prepare, Choice!seen
  <2> QED BY <1>1, <1>2, <2>1 DEF Choice!TypeOK
<1>3. CASE Choice!Ready
  <2>1. /\ Choice!Scan(Choice!ForAvailability, ~Choice!Fixed("prefer") \/ prefer)
        /\ IF Choice!All THEN Choice!Apply(Choice!ForAvailability) ELSE UNCHANGED <<guides, skipped, snapshot>>
    BY <1>3 DEF Choice!Prepare
  <2>2. /\ sources' \in [Guides -> {"unseen", "served", "gone", "unknown"}]
        /\ publisher' \in [Guides -> {"unseen", "offered", "not offered"}]
        /\ replaced' \subseteq Versions \X Guides
        /\ \A d \in Guides : sources[d] = "gone" => sources'[d] = "gone"
    BY <1>1, <2>1, ScanLearns
  <2>3. CASE Choice!All
    <3>1. guides' = Choice!Left(Choice!ForAvailability)
          /\ skipped' = Choice!ForAvailability \ Choice!Left(Choice!ForAvailability) /\ snapshot' = TRUE
      BY <2>1, <2>3 DEF Choice!Apply
    <3>2. Choice!Left(Choice!ForAvailability) \subseteq Choice!ForAvailability
      BY DEF Choice!Left
    <3> QED BY <1>1, <1>3, <2>2, <2>3, <3>1, <3>2
  <2>4. CASE ~Choice!All
    <3>1. UNCHANGED <<guides, skipped, snapshot>>
      BY <2>1, <2>4
    <3> QED BY <1>1, <1>3, <2>2, <2>4, <3>1 DEF Choice!TypeOK
  <2> QED BY <2>3, <2>4
<1> QED BY <1>2, <1>3

\* Of all guides only those that are gone are ever left out, and a snapshot is of the place chosen.
LEMMA AllThatAreLeft ==
  ASSUME ChoiceSetting, Choice!TypeOK, snapshot \in BOOLEAN, Choice!Prepare, mode = "all",
         snapshot => guides \subseteq Choice!Docs /\ Choice!Docs \ guides \subseteq Choice!Gone(Choice!Docs)
  PROVE  /\ snapshot' => /\ guides' \subseteq Choice!Docs
                         /\ \A d \in Choice!Docs \ guides' : sources'[d] = "gone"
         /\ platform # Choice!Unset /\ version # Choice!Unset =>
              Choice!Ready /\ snapshot' /\ guides' = {d \in Choice!Docs : sources'[d] # "gone"}
<1>1. /\ Choice!ForAvailability \subseteq Choice!Docs /\ Choice!Docs \subseteq Guides
      /\ \A d \in Guides : sources[d] = "gone" => sources'[d] = "gone"
      /\ ~(Choice!All /\ Choice!Ready) => UNCHANGED <<guides, skipped, snapshot>>
      /\ Choice!All /\ Choice!Ready => guides' = Choice!Left(Choice!ForAvailability) /\ snapshot' = TRUE
  BY PrepareKeeps, DocsAreGuides
<1>2. Choice!All
  BY DEF Choice!All
<1>3. platform # Choice!Unset /\ version # Choice!Unset => Choice!Ready
  BY <1>2 DEF Choice!Ready
<1>4. \A d \in Choice!Docs : snapshot /\ d \notin guides => sources'[d] = "gone"
  BY <1>1 DEF Choice!Gone
<1>5. CASE Choice!Ready
  <2>1. guides' = {d \in Choice!ForAvailability : sources'[d] # "gone"} /\ snapshot'
    BY <1>1, <1>2, <1>5 DEF Choice!Left
  <2>2. \A d \in Choice!Docs : d \in Choice!ForAvailability \/ sources'[d] = "gone"
    BY <1>2, <1>4 DEF Choice!ForAvailability
  <2>3. guides' = {d \in Choice!Docs : sources'[d] # "gone"}
    BY <1>1, <2>1, <2>2
  <2> QED BY <1>5, <2>1, <2>3
<1>6. CASE ~Choice!Ready
  <2>1. UNCHANGED <<guides, snapshot>>
    BY <1>1, <1>6
  <2> QED BY <1>3, <1>4, <1>6, <2>1
<1> QED BY <1>5, <1>6

\* The questions behind stay behind while what has been asked may still be asked.
LEMMA HistoryKept ==
  ASSUME HistoryOK, history \in Seq(Questioned), selAt # "start", selAt' # "start", UNCHANGED <<current, history>>,
         \A step \in Questioned : Rank(step) <= Rank(current) /\ Askable(step) => Askable(step)'
  PROVE  HistoryOK'
<1>1. current \in Questioned /\ Askable(current) /\ Rank(current) \in 1 .. 8
  BY RankOfSteps DEF HistoryOK
<1>2. Askable(current)'
  BY <1>1
<1>3. \A i \in DOMAIN history : history[i] \in Questioned /\ Rank(history[i]) \in 1 .. 8
  BY RankOfSteps
<1>4. \A i \in DOMAIN history : Askable(history[i])'
  <2> SUFFICES ASSUME NEW i \in DOMAIN history PROVE Askable(history[i])'
    OBVIOUS
  <2>1. Askable(history[i]) /\ Rank(history[i]) <= Rank(current)
    BY <1>1, <1>3 DEF HistoryOK
  <2>2. \A step \in Questioned : step = history[i] => Askable(step)'
    BY <2>1
  <2> QED BY <1>3, <2>2
<1> QED BY <1>1, <1>2, <1>4 DEF HistoryOK

LEMMA SameQuestions ==
  ASSUME UNCHANGED <<given, mode, destination>>
  PROVE  \A step : Askable(step)' = Askable(step)
BY DEF Askable, Choice!Fixed

LEMMA RelevantIsAskable ==
  ASSUME NEW step \in Questioned, NEW preferred, Choice!Relevant(step, preferred)
  PROVE  Askable(step)
BY DEF Choice!Relevant, Askable, Choice!LooksForLibrary, Questioned

\* What is done when a question was answered, before the next one: the choice is prepared.
Moves ==
  /\ ChoiceSetting /\ ChoiceInv /\ selAt \in {"start", "follow"} /\ Choice!Guided
  /\ Choice!Prepare /\ UNCHANGED <<given, platform, version, destination, mode, refresh, held>>

\* The last question is answered: what is chosen is what was prepared.
LEMMA PreparedIsTaken ==
  ASSUME Moves, UNCHANGED draft, all' = Choice!FinalAll, Choice!Valid,
         NEW preferred, Choice!Remaining(Choice!Questions(preferred)) = {},
             Choice!StillRaised(Choice!Questions(preferred))
  PROVE  /\ Choice!Ready /\ Choice!Prepared = Choice!Result /\ Choice!Taken' = Choice!Result
         /\ mode = "all" => all' /\ snapshot' /\ Choice!Result = {d \in Choice!Docs : sources'[d] # "gone"}
         /\ mode # "all" => mode = "some" /\ ~all' /\ Choice!Result = draft
<1>1. /\ ChoiceTypes /\ HistoryOK /\ FixedOK /\ ChoiceOK
  BY DEF Moves, ChoiceInv
<1>2. /\ platform # Choice!Unset /\ version # Choice!Unset /\ Choice!Result # {} /\ Choice!Result \subseteq Choice!Docs
  BY DEF Choice!Valid
<1>3. Choice!TypeOK /\ snapshot \in BOOLEAN /\ ChoiceSetting /\ Choice!Prepare
  BY <1>1 DEF ChoiceTypes, Moves
<1>4. /\ ~(Choice!All /\ Choice!Ready) => UNCHANGED <<guides, skipped, snapshot>>
      /\ Choice!All /\ Choice!Ready => guides' = Choice!Left(Choice!ForAvailability) /\ snapshot' = TRUE
  BY <1>3, PrepareKeeps
<1>5. Choice!Docs' = Choice!Docs
  BY DEF Choice!Docs, Moves
<1>6. Choice!Guided' /\ mode' = mode /\ draft' = draft
  BY DEF Choice!Guided, Moves
<1>7. Choice!Taken' = Choice!Result
  BY <1>5, <1>6 DEF Choice!Taken, Choice!Result, Choice!FinalGuides
<1>8. CASE mode = "all"
  <2>1. Choice!All /\ Choice!FinalAll
    BY <1>8 DEF Choice!All, Choice!FinalAll
  <2>2. /\ Choice!Ready /\ snapshot' /\ guides' = {d \in Choice!Docs : sources'[d] # "gone"}
    BY <1>1, <1>2, <1>3, <1>8, AllThatAreLeft DEF ChoiceOK
  <2>3. Choice!Result = guides' /\ Choice!Prepared = guides'
    BY <1>8, <2>1, <2>2 DEF Choice!Result, Choice!Prepared, Choice!FinalGuides
  <2> QED BY <1>7, <1>8, <2>1, <2>2, <2>3
<1>9. CASE mode = "some"
  <2>1. ~Choice!All /\ ~Choice!FinalAll
    BY <1>1, <1>9 DEF Choice!All, Choice!FinalAll, ChoiceOK
  <2>2. Choice!Result = draft
    BY <1>9, <2>1 DEF Choice!Result, Choice!FinalGuides
  <2>3. guides = draft
    <3>1. CASE Choice!Fixed("guides")
      BY <1>1, <3>1 DEF FixedOK
    <3>2. CASE ~Choice!Fixed("guides")
      <4>1. selAt = "follow"
        BY <1>1, <1>9, <3>2 DEF ChoiceOK, Moves
      <4>2. PICK n \in Choice!Questions(preferred) : Choice!Steps[n] = current
        BY <4>1 DEF Choice!StillRaised
      <4>3. n \in 1 .. 8 /\ Rank(current) = n
        BY <4>2, RankOfSteps DEF Choice!Questions
      <4>4. Choice!Steps[4] = "guides" /\ 4 \in DOMAIN Choice!Steps
        BY RankOfSteps DEF Choice!Steps
      <4>5. 4 \in Choice!Questions(preferred)
        BY <1>9, <3>2, <4>4 DEF Choice!Questions, Choice!Relevant
      <4>6. ~(n < 4)
        BY <4>1, <4>2, <4>5 DEF Choice!Remaining
      <4>7. n = 4 => current = "guides"
        BY <4>2, <4>4
      <4>8. Settled
        BY <4>1, <4>3, <4>6, <4>7 DEF Settled
      <4> QED BY <1>1, <1>9, <3>2, <4>8 DEF ChoiceOK
    <3> QED BY <3>1, <3>2
  <2>4. Choice!Chosen = draft /\ Choice!Ready
    BY <1>2, <2>1, <2>2, <2>3 DEF Choice!Chosen, Choice!Ready
  <2>5. Choice!Prepared = draft
    BY <1>2, <2>1, <2>2, <2>4 DEF Choice!Prepared, Choice!ForAvailability
  <2> QED BY <1>7, <1>9, <2>1, <2>2, <2>4, <2>5
<1>10. CASE mode = ""
  <2>1. ~all /\ guides = {}
    BY <1>1, <1>10 DEF ChoiceOK
  <2>2. ~Choice!All /\ ~Choice!FinalAll
    BY <1>10, <2>1 DEF Choice!All, Choice!FinalAll
  <2>3. Choice!Result = {}
    BY <1>4, <1>10, <2>1, <2>2 DEF Choice!Result, Choice!FinalGuides
  <2> QED BY <1>2, <2>3
<1> QED BY <1>3, <1>8, <1>9, <1>10 DEF Choice!TypeOK

\* Whatever way led to the last question, the choice stands.
LEMMA LastStands ==
  ASSUME Moves, UNCHANGED draft, all' = Choice!FinalAll, Choice!Valid, selected' = "chosen",
         Choice!Remaining(Choice!Questions(Choice!Wish(prefer))) = {},
             Choice!StillRaised(Choice!Questions(Choice!Wish(prefer))),
         prefer' = Choice!Wish(prefer),
         convert' = IF Choice!Fixed("convert") \/ Choice!MayStayHTML(Choice!Wish(prefer)) # {} THEN convert ELSE "no"
  PROVE  Choice!ChoiceStands'
<1>1. /\ ChoiceTypes /\ FixedOK /\ ChoiceOK /\ given \in CommandLines
      /\ UNCHANGED <<given, platform, version, destination, mode, refresh, draft>>
  BY DEF Moves, ChoiceInv, ChoiceTypes
<1>2. Choice!CommandLine(given)
  BY <1>1 DEF Moves, ChoiceSetting
<1>3. /\ Choice!Ready /\ Choice!Prepared = Choice!Taken' /\ Choice!Taken' = Choice!Result
      /\ mode = "all" => all' /\ snapshot' /\ Choice!Result = {d \in Choice!Docs : sources'[d] # "gone"}
      /\ mode # "all" => mode = "some" /\ ~all' /\ Choice!Result = draft
  BY PreparedIsTaken
<1>4. /\ Choice!Result # {} /\ Choice!Result \subseteq Choice!Docs
      /\ \A d \in Choice!Result : sources'[d] = "gone" => <<version, d>> \in replaced'
      /\ ~(Choice!FinalAll /\ <<platform, version>> \in FaultyPlaces)
  BY DEF Choice!Valid
<1>5. Choice!Docs' = Choice!Docs /\ Choice!Gone(Choice!Docs)' = {d \in Choice!Docs : sources'[d] = "gone"}
      /\ Choice!HTML(Choice!Taken)' = Choice!HTML(Choice!Result)
  BY <1>1, <1>3 DEF Choice!Docs, Choice!Gone, Choice!HTML
<1>6. \A option : Choice!Fixed(option)' = Choice!Fixed(option)
  BY <1>1 DEF Choice!Fixed
<1>7. all' => Choice!Taken' = Choice!Docs' \ Choice!Gone(Choice!Docs)' /\ <<platform, version>>' \notin FaultyPlaces
  BY <1>1, <1>3, <1>4, <1>5
<1>8. ASSUME NEW option \in given.fixed
      PROVE  CASE option = "platform" -> platform' = given.platform
               [] option = "version" -> version' = given.version
               [] option = "destination" -> destination' = given.destination
               [] option = "guides" -> Choice!Taken' = given.guides
               [] option = "all" -> all'
               [] option = "prefer" -> prefer' = given.prefer
               [] option = "convert" -> convert' = given.convert
               [] option = "refresh" -> refresh' = given.refresh
  <2>1. option \in Choice!Options /\ Choice!Fixed(option)
    BY <1>2 DEF Choice!CommandLine, Choice!Fixed
  <2>2. Choice!Fixed("prefer") => prefer' = prefer
    BY DEF Choice!Wish
  <2>3. /\ Choice!Fixed("platform") => platform' = given.platform
        /\ Choice!Fixed("version") => version' = given.version
        /\ Choice!Fixed("destination") => destination' = given.destination
        /\ Choice!Fixed("prefer") => prefer' = given.prefer
        /\ Choice!Fixed("convert") => convert' = given.convert
        /\ Choice!Fixed("refresh") => refresh' = given.refresh
    BY <1>1, <2>2 DEF FixedOK
  <2>4. /\ Choice!Fixed("guides") => Choice!Taken' = given.guides
        /\ Choice!Fixed("all") => all'
    BY <1>1, <1>3 DEF FixedOK
  <2> QED BY <2>1, <2>3, <2>4 DEF Choice!Options
<1>9. prefer' /\ ~Choice!Fixed("prefer") => \E d \in Choice!HTML(Choice!Result) : publisher'[d] = "offered"
  <2>1. Choice!Wish(prefer) /\ ~Choice!Fixed("prefer") => Choice!Offered # {}
    BY DEF Choice!Wish
  <2> QED BY <1>3, <2>1 DEF Choice!Offered
<1>10. convert' # "no" /\ ~Choice!Fixed("convert") => \E d \in Choice!HTML(Choice!Result) : ~prefer'
      \/ publisher'[d] # "offered"
  <2>1. convert' # "no" /\ ~Choice!Fixed("convert") => Choice!MayStayHTML(prefer') # {}
    OBVIOUS
  <2> QED BY <1>3, <2>1 DEF Choice!MayStayHTML
<1>11. refresh' /\ ~Choice!Fixed("refresh") => destination' = "old"
  BY <1>1 DEF ChoiceOK
<1>12. /\ Choice!Taken' # {} /\ Choice!Taken' \subseteq Choice!Docs'
       /\ \A d \in Choice!Taken' : sources'[d] = "gone" => <<version, d>>' \in replaced'
  BY <1>1, <1>3, <1>4, <1>5
<1>13. given' = given
  BY <1>1
<1> QED BY <1>3, <1>5, <1>6, <1>7, <1>8, <1>9, <1>10, <1>11, <1>12, <1>13 DEF Choice!ChoiceStands

LEMMA SameAll ==
  ASSUME ChoiceTypes, ChoiceOK, UNCHANGED all, UNCHANGED mode
  PROVE  all' <=> mode' = "all"
<1>1. all \in BOOLEAN
  BY DEF ChoiceTypes
<1>2. all' <=> all
  BY <1>1
<1>3. all <=> mode = "all"
  BY DEF ChoiceOK
<1> QED BY <1>2, <1>3

LEMMA SameRefresh ==
  ASSUME ChoiceTypes, ChoiceOK, UNCHANGED refresh, UNCHANGED destination
  PROVE  refresh' /\ ~Choice!Fixed("refresh") => destination' = "old"
<1>1. refresh \in BOOLEAN
  BY DEF ChoiceTypes
<1>2. refresh' <=> refresh
  BY <1>1
<1>3. refresh /\ ~Choice!Fixed("refresh") => destination = "old"
  BY DEF ChoiceOK
<1> QED BY <1>2, <1>3

LEMMA MovesTypes ==
  ASSUME Moves, all' \in BOOLEAN, draft' \subseteq Guides, prefer' \in BOOLEAN,
         convert' \in {"no", "convert", "replace"}, history' \in Seq(Questioned),
         selAt' \in {"present", "ended"}, selected' \in {"none", "failed", "chosen"}
  PROVE  ChoiceTypes'
<1>1. ChoiceTypes /\ Choice!Prepare /\ ChoiceSetting /\ UNCHANGED <<given, platform, version, destination, mode, refresh>>
  BY DEF Moves, ChoiceInv
<1>2. /\ sources' \in [Guides -> {"unseen", "served", "gone", "unknown"}]
      /\ publisher' \in [Guides -> {"unseen", "offered", "not offered"}]
      /\ replaced' \subseteq Versions \X Guides
      /\ guides' \subseteq Guides /\ skipped' \subseteq Guides /\ snapshot' \in BOOLEAN
  BY <1>1, PrepareKeeps DEF ChoiceTypes
<1>3. Choice!TypeOK'
  BY <1>1, <1>2 DEF ChoiceTypes, Choice!TypeOK
<1> QED BY <1>1, <1>2, <1>3 DEF ChoiceTypes

\* The next question is asked after those behind it, and no question is passed over.
LEMMA NextIsAsked ==
  ASSUME Moves, selAt' = "present", UNCHANGED <<all, draft, selected>>,
         NEW preferred, NEW n \in Choice!Remaining(Choice!Questions(preferred)),
             \A m \in Choice!Remaining(Choice!Questions(preferred)) : n <= m,
         current' = Choice!Steps[n], history' = IF selAt = "start" THEN history ELSE Append(history, current),
         Choice!Fixed("prefer") => prefer' = prefer, Choice!Fixed("convert") => convert' = convert
  PROVE  history' \in Seq(Questioned) /\ HistoryOK' /\ FixedOK' /\ ChoiceOK' /\ StartOK'
<1>1. /\ ChoiceTypes /\ HistoryOK /\ FixedOK /\ ChoiceOK /\ StartOK /\ history \in Seq(Questioned)
      /\ UNCHANGED <<given, platform, version, destination, mode, refresh, draft, all>>
      /\ Choice!Prepare /\ ChoiceSetting /\ Choice!TypeOK /\ snapshot \in BOOLEAN
  BY DEF Moves, ChoiceInv, ChoiceTypes
<1>2. n \in Choice!Questions(preferred) /\ n \in 1 .. 8 /\ Choice!Relevant(Choice!Steps[n], preferred)
  BY RankOfSteps DEF Choice!Remaining, Choice!Questions
<1>3. current' \in Questioned /\ Rank(current') = n /\ Askable(current')
  BY <1>2, RankOfSteps, RelevantIsAskable
<1>4. \A step : Askable(step)' = Askable(step)
  BY <1>1, SameQuestions
<1>5. ASSUME selAt = "follow"
      PROVE  /\ current \in Questioned /\ Askable(current) /\ Rank(current) \in 1 .. 8 /\ Rank(current) < n
             /\ \A k \in Choice!Questions(preferred) : Rank(current) < k => n <= k
  <2>1. PICK m \in Choice!Questions(preferred) : Choice!Steps[m] = current /\ m < n
    BY <1>5 DEF Choice!Remaining
  <2>2. m \in 1 .. 8 /\ Rank(current) = m
    BY <2>1, RankOfSteps DEF Choice!Questions
  <2>3. \A k \in Choice!Questions(preferred) : m < k => k \in Choice!Remaining(Choice!Questions(preferred))
    BY <1>5, <2>1 DEF Choice!Remaining
  <2>4. current \in Questioned /\ Askable(current)
    BY <1>1, <1>5 DEF HistoryOK
  <2> QED BY <2>1, <2>2, <2>3, <2>4
<1>6. history' \in Seq(Questioned) /\ HistoryOK'
  <2>1. CASE selAt = "start"
    <3>1. history' = <<>>
      BY <1>1, <2>1 DEF HistoryOK
    <3>2. \A step : current' = step /\ Askable(step) => Askable(current)'
      BY <1>4
    <3>3. Askable(current)'
      BY <1>3, <3>2
    <3>4. history' \in Seq(Questioned) /\ DOMAIN history' = {}
      <4>1. history' = history
        BY <2>1
      <4>2. DOMAIN <<>> = {}
        OBVIOUS
      <4> QED BY <1>1, <3>1, <4>1, <4>2
    <3> QED BY <1>3, <3>3, <3>4 DEF HistoryOK
  <2>2. CASE selAt = "follow"
    <3>1. history' = Append(history, current) /\ history \in Seq(Questioned)
      BY <1>1, <2>2
    <3>2. /\ history' \in Seq(Questioned) /\ Len(history) \in Nat /\ DOMAIN history = 1 .. Len(history)
          /\ DOMAIN history' = 1 .. (Len(history) + 1) /\ history'[Len(history) + 1] = current
          /\ \A i \in DOMAIN history : history'[i] = history[i]
      BY <1>5, <2>2, <3>1
    <3>3. \A i \in DOMAIN history' : i \in DOMAIN history \/ i = Len(history) + 1
      BY <3>2
    <3>4. \A i \in DOMAIN history : /\ history[i] \in Questioned /\ Rank(history[i]) \in 1 .. 8
                                   /\ Askable(history[i]) /\ Rank(history[i]) < Rank(current)
      BY <1>1, <3>1, RankOfSteps DEF HistoryOK
    <3>5. \A i \in DOMAIN history' : Askable(history'[i]) /\ Rank(history'[i]) < n
      <4> SUFFICES ASSUME NEW i \in DOMAIN history' PROVE Askable(history'[i]) /\ Rank(history'[i]) < n
        OBVIOUS
      <4>1. CASE i \in DOMAIN history
        <5>1. history'[i] = history[i]
          BY <3>2, <4>1
        <5>2. Rank(history[i]) < n
          BY <1>2, <1>5, <2>2, <3>4, <4>1
        <5> QED BY <3>4, <4>1, <5>1, <5>2
      <4>2. CASE i = Len(history) + 1
        BY <1>5, <2>2, <3>2, <4>2
      <4> QED BY <3>3, <4>1, <4>2
    <3>6. \A i, j \in DOMAIN history' : i < j => Rank(history'[i]) < Rank(history'[j])
      <4> SUFFICES ASSUME NEW i \in DOMAIN history', NEW j \in DOMAIN history', i < j
                   PROVE  Rank(history'[i]) < Rank(history'[j])
        OBVIOUS
      <4>1. i \in DOMAIN history
        BY <3>2, <3>3
      <4>2. CASE j \in DOMAIN history
        BY <1>1, <3>2, <4>1, <4>2 DEF HistoryOK
      <4>3. CASE j = Len(history) + 1
        BY <3>2, <3>4, <4>1, <4>3
      <4> QED BY <3>3, <4>2, <4>3
    <3>7. \A step : step = current' => (Askable(current)' <=> Askable(step))
      BY <1>4
    <3>8. Askable(current)' /\ \A i \in DOMAIN history' : Askable(history[i])'
      BY <1>3, <1>4, <3>5, <3>7
    <3> QED BY <1>3, <3>2, <3>5, <3>6, <3>8 DEF HistoryOK
  <2> QED BY <2>1, <2>2 DEF Moves
<1>7. /\ guides' \subseteq Guides /\ snapshot' \in BOOLEAN
      /\ ~(Choice!All /\ Choice!Ready) => UNCHANGED <<guides, skipped, snapshot>>
  BY <1>1, PrepareKeeps
<1>8. mode # "all" => UNCHANGED <<guides, skipped, snapshot>>
  BY <1>1, <1>7 DEF Choice!All, ChoiceOK
<1>9. FixedOK'
  BY <1>1, <1>8 DEF FixedOK, Choice!Fixed
<1>10. StartOK'
  BY <1>1 DEF StartOK, Moves, Choice!Guided
<1>11. ChoiceOK'
  <2>1. mode = "all" /\ snapshot' => guides' \subseteq Choice!Docs
        /\ \A d \in Choice!Docs \ guides' : sources'[d] = "gone"
    BY <1>1, AllThatAreLeft DEF ChoiceOK
  <2>2. Choice!Docs' = Choice!Docs
    BY <1>1 DEF Choice!Docs
  <2>3. mode' = "all" /\ snapshot' => guides' \subseteq Choice!Docs'
        /\ Choice!Docs' \ guides' \subseteq Choice!Gone(Choice!Docs)'
    BY <1>1, <2>1, <2>2 DEF Choice!Gone
  <2>4. ASSUME mode = "some", ~Choice!Fixed("guides") PROVE selAt' # "start" /\ (Settled' => guides' = draft')
    <3>1. selAt = "follow" /\ (Settled => guides = draft)
      BY <1>1, <2>4 DEF ChoiceOK, Moves
    <3>2. Choice!Steps[4] = "guides" /\ 4 \in DOMAIN Choice!Steps
      BY RankOfSteps DEF Choice!Steps
    <3>3. 4 \in Choice!Questions(preferred)
      BY <2>4, <3>2 DEF Choice!Questions, Choice!Relevant
    <3>4. Settled' => n > 4
      BY <1>3 DEF Settled
    <3>5. n > 4 => Rank(current) > 4 \/ Rank(current) = 4
      BY <1>2, <1>5, <3>1, <3>3
    <3>6. Rank(current) = 4 => current = "guides"
      BY <1>5, <3>1, <3>2, RankOfSteps
    <3>7. Settled' => Settled
      BY <3>1, <3>4, <3>5, <3>6 DEF Settled
    <3> QED BY <1>1, <1>8, <2>4, <3>1, <3>7
  <2>5. /\ all' <=> mode' = "all"
        /\ mode' = "" => guides' = {} /\ draft' = {}
        /\ refresh' /\ ~Choice!Fixed("refresh") => destination' = "old"
    <3>1. mode' = mode /\ all' = all /\ draft' = draft /\ (mode = "" => guides' = guides)
          /\ refresh' = refresh /\ destination' = destination
      BY <1>1, <1>8
    <3>2. (all' <=> all) /\ (refresh' <=> refresh)
      <4>1. all \in BOOLEAN /\ refresh \in BOOLEAN
        BY <1>1 DEF ChoiceTypes
      <4>2. all' = all /\ refresh' = refresh
        BY <3>1
      <4>3. all' <=> all
        BY <4>1, <4>2
      <4>4. refresh' <=> refresh
        BY <4>1, <4>2
      <4> QED BY <4>3, <4>4
    <3>3. all' <=> mode' = "all"
      BY <1>1, <3>1, <3>2 DEF ChoiceOK
    <3>4. mode' = "" => guides' = {} /\ draft' = {}
      BY <1>1, <3>1 DEF ChoiceOK
    <3>5. refresh' /\ ~Choice!Fixed("refresh") => destination' = "old"
      BY <1>1, <3>1, <3>2 DEF ChoiceOK
    <3> QED BY <3>3, <3>4, <3>5
  <2>6. Choice!Fixed("guides")' = Choice!Fixed("guides") /\ Choice!Fixed("refresh")' = Choice!Fixed("refresh")
        /\ mode' = mode
    BY <1>1 DEF Choice!Fixed
  <2> QED BY <2>3, <2>4, <2>5, <2>6 DEF ChoiceOK
<1> QED BY <1>6, <1>9, <1>10, <1>11

LEMMA ProceedKeeps ==
  ASSUME ChoiceSetting, ChoiceInv, selAt \in {"start", "follow"}, Choice!Guided, Choice!Proceed
  PROVE  ChoiceInv'
<1> DEFINE preferred == Choice!Wish(prefer)
           rest == Choice!Remaining(Choice!Questions(preferred))
<1>1. Choice!Prepare /\ UNCHANGED <<given, platform, version, destination, mode, refresh, held>>
  BY DEF Choice!Proceed, Choice!place
<1>2. Moves
  BY <1>1 DEF Moves
<1>3. ChoiceTypes /\ selected = "none" /\ Choice!TypeOK /\ history \in Seq(Questioned) /\ all \in BOOLEAN
      /\ draft \subseteq Guides
      /\ prefer \in BOOLEAN /\ convert \in {"no", "convert", "replace"}
  BY DEF ChoiceInv, ChoiceTypes, Choice!TypeOK
<1>4. CASE Choice!Fail /\ UNCHANGED <<all, draft, prefer, convert, current, history>>
  <2>1. ChoiceTypes'
    BY <1>2, <1>3, <1>4, MovesTypes DEF Choice!Fail
  <2> QED BY <1>4, <2>1 DEF Choice!Fail, ChoiceInv, Choice!ChoiceStands
<1>5. CASE /\ prefer' = preferred
           /\ convert' = IF Choice!Fixed("convert") \/ Choice!MayStayHTML(preferred) # {} THEN convert ELSE "no"
           /\ \/ /\ \E n \in rest : current' = Choice!Steps[n] /\ \A m \in rest : n <= m
                 /\ history' = IF selAt = "start" THEN history ELSE Append(history, current)
                 /\ selAt' = "present" /\ UNCHANGED <<all, draft, selected>>
              \/ /\ rest = {} /\ Choice!StillRaised(Choice!Questions(preferred))
                 /\ all' = Choice!FinalAll
                 /\ IF Choice!Valid THEN selAt' = "ended" /\ selected' = "chosen" ELSE Choice!Fail
                 /\ UNCHANGED <<draft, current, history>>
              \/ ~Choice!StillRaised(Choice!Questions(preferred)) /\ Choice!Fail
                 /\ UNCHANGED <<all, draft, current, history>>
  <2>1. prefer' \in BOOLEAN /\ convert' \in {"no", "convert", "replace"}
    BY <1>3, <1>5 DEF Choice!Wish
  <2>2. CASE /\ \E n \in rest : current' = Choice!Steps[n] /\ \A m \in rest : n <= m
             /\ history' = IF selAt = "start" THEN history ELSE Append(history, current)
             /\ selAt' = "present" /\ UNCHANGED <<all, draft, selected>>
    <3>1. PICK n \in rest : current' = Choice!Steps[n] /\ \A m \in rest : n <= m
      BY <2>2
    <3>2. /\ Choice!Fixed("prefer") => prefer' = prefer
          /\ Choice!Fixed("convert") => convert' = convert
      BY <1>5 DEF Choice!Wish
    <3>3. history' \in Seq(Questioned) /\ HistoryOK' /\ FixedOK' /\ ChoiceOK' /\ StartOK'
      BY <1>2, <2>2, <3>1, <3>2, NextIsAsked
    <3>4. ChoiceTypes'
      BY <1>2, <1>3, <2>1, <2>2, <3>3, MovesTypes
    <3> QED BY <1>3, <2>2, <3>3, <3>4 DEF ChoiceInv, Choice!ChoiceStands
  <2>3. CASE /\ rest = {} /\ Choice!StillRaised(Choice!Questions(preferred))
             /\ all' = Choice!FinalAll
             /\ IF Choice!Valid THEN selAt' = "ended" /\ selected' = "chosen" ELSE Choice!Fail
             /\ UNCHANGED <<draft, current, history>>
    <3>1. all' \in BOOLEAN
      BY <1>3, <2>3 DEF Choice!FinalAll
    <3>2. selAt' = "ended" /\ selected' \in {"chosen", "failed"}
      BY <2>3 DEF Choice!Fail
    <3>3. ChoiceTypes'
      BY <1>2, <1>3, <2>1, <2>3, <3>1, <3>2, MovesTypes
    <3>4. Choice!ChoiceStands'
      <4>1. CASE Choice!Valid
        BY <1>2, <1>5, <2>3, <4>1, LastStands
      <4>2. CASE ~Choice!Valid
        BY <2>3, <4>2 DEF Choice!Fail, Choice!ChoiceStands
      <4> QED BY <4>1, <4>2
    <3> QED BY <3>2, <3>3, <3>4 DEF ChoiceInv
  <2>4. CASE ~Choice!StillRaised(Choice!Questions(preferred)) /\ Choice!Fail /\ UNCHANGED <<all, draft, current, history>>
    <3>1. ChoiceTypes'
      BY <1>2, <1>3, <2>1, <2>4, MovesTypes DEF Choice!Fail
    <3> QED BY <2>4, <3>1 DEF Choice!Fail, ChoiceInv, Choice!ChoiceStands
  <2> QED BY <1>5, <2>2, <2>3, <2>4
<1> QED BY <1>4, <1>5 DEF Choice!Proceed

-----------------------------------------------------------------------------
\* What every answer leaves.
LEMMA AnsweredKeeps ==
  ASSUME ChoiceInv, selAt = "prompt", Choice!Answered, ChoiceTypes', FixedOK', ChoiceOK',
         \A step \in Questioned : Rank(step) <= Rank(current) /\ Askable(step) => Askable(step)'
  PROVE  ChoiceInv'
<1>1. /\ HistoryOK /\ StartOK /\ ChoiceTypes /\ selected = "none" /\ history \in Seq(Questioned)
      /\ selAt' = "follow" /\ UNCHANGED <<given, current, history, held, selected>>
  BY DEF ChoiceInv, ChoiceTypes, Choice!Answered
<1>2. HistoryOK'
  BY <1>1, HistoryKept
<1>3. StartOK'
  BY <1>1 DEF StartOK, Choice!Guided
<1> QED BY <1>1, <1>2, <1>3 DEF ChoiceInv, Choice!ChoiceStands

\* Another place: what was known of the former one is forgotten, and so is every wish for it.
LEMMA PlaceKeeps ==
  ASSUME ChoiceSetting, ChoiceInv, selAt = "prompt", current \in {"platform", "version"}, Choice!Answered,
         platform' \in Places \cup {Choice!Unset}, version' \in Versions \cup {Choice!Unset},
             UNCHANGED <<destination, mode, all>>,
         Choice!Fixed("platform") => platform' = platform, Choice!Fixed("version") => version' = version,
         \/ UNCHANGED <<platform, version, Choice!choice, Choice!wishes, Choice!seen>>
         \/ \E docs : Choice!Revalidate(docs) /\ UNCHANGED replaced
  PROVE  ChoiceInv'
<1>1. /\ ChoiceTypes /\ Choice!TypeOK /\ FixedOK /\ ChoiceOK /\ selAt' = "follow" /\ UNCHANGED <<given, current>>
  BY DEF ChoiceInv, ChoiceTypes, Choice!Answered
<1>2. Choice!CommandLine(given) /\ \A option : Choice!Fixed(option)' = Choice!Fixed(option)
  BY <1>1 DEF ChoiceTypes, ChoiceSetting, Choice!Fixed
<1>3. ~Settled'
  BY <1>1 DEF Settled, Rank
<1>4. \A step : Askable(step)' = Askable(step)
  BY <1>1, SameQuestions
<1>5. CASE UNCHANGED <<platform, version, Choice!choice, Choice!wishes, Choice!seen>>
  <2>1. UNCHANGED <<platform, version, guides, draft, skipped, snapshot, prefer, convert, refresh,
                    sources, publisher, replaced>>
    BY <1>5 DEF Choice!choice, Choice!wishes, Choice!seen
  <2>2. ChoiceTypes'
    BY <1>1, <2>1 DEF ChoiceInv, ChoiceTypes, Choice!TypeOK, Choice!Answered
  <2>3. FixedOK'
    BY <1>1, <1>2, <2>1 DEF FixedOK
  <2>4. Choice!Docs' = Choice!Docs /\ Choice!Gone(Choice!Docs)' = Choice!Gone(Choice!Docs)
    BY <2>1 DEF Choice!Docs, Choice!Gone
  <2>5. ChoiceOK'
    BY <1>1, <1>2, <1>3, <2>1, <2>4 DEF ChoiceOK
  <2> QED BY <1>4, <2>2, <2>3, <2>5, AnsweredKeeps
<1>6. CASE \E docs : Choice!Revalidate(docs) /\ UNCHANGED replaced
  <2>1. PICK docs : Choice!Revalidate(docs) /\ UNCHANGED replaced
    BY <1>6
  <2>2. /\ sources' = [d \in Guides |-> "unseen"] /\ publisher' = [d \in Guides |-> "unseen"]
        /\ skipped' = {} /\ snapshot' = FALSE
        /\ prefer' = IF Choice!Fixed("prefer") THEN prefer ELSE FALSE
        /\ convert' = IF Choice!Fixed("convert") THEN convert ELSE "no"
        /\ IF Choice!Fixed("guides") THEN UNCHANGED <<guides, draft>>
           ELSE guides' = guides \cap docs /\ draft' = draft \cap docs
        /\ refresh' = IF Choice!Fixed("refresh") THEN refresh ELSE given.refresh
    BY <2>1 DEF Choice!Revalidate, Choice!SnapshotReset, Choice!ResetExisting
  <2>3. guides' \subseteq guides /\ draft' \subseteq draft
    BY <2>2
  <2>4. prefer' \in BOOLEAN /\ convert' \in {"no", "convert", "replace"} /\ refresh' \in BOOLEAN
        /\ (Choice!Fixed("refresh") \/ ~refresh')
    BY <1>1, <1>2, <2>2 DEF ChoiceTypes, Choice!CommandLine, Choice!Fixed
  <2>5. ChoiceTypes'
    BY <1>1, <2>1, <2>2, <2>3, <2>4 DEF ChoiceInv, ChoiceTypes, Choice!TypeOK, Choice!Answered
  <2>6. FixedOK'
    BY <1>1, <1>2, <2>2 DEF FixedOK
  <2>7. ChoiceOK'
    <3>1. all' <=> mode' = "all"
      BY <1>1, SameAll
    <3> QED BY <1>1, <1>2, <1>3, <2>2, <2>3, <2>4, <3>1 DEF ChoiceOK
  <2> QED BY <1>4, <2>5, <2>6, <2>7, AnsweredKeeps
<1> QED BY <1>5, <1>6

LEMMA AnswerPlatformKeeps ==
  ASSUME ChoiceSetting, ChoiceInv, Choice!AnswerPlatform
  PROVE  ChoiceInv'
<1>1. selAt = "prompt" /\ current = "platform" /\ Choice!Answered /\ UNCHANGED destination /\ Choice!TypeOK
  BY DEF Choice!AnswerPlatform, Choice!Asking, ChoiceInv, ChoiceTypes
<1>2. ~Choice!Fixed("platform")
  BY <1>1 DEF ChoiceInv, HistoryOK, Askable
<1>3. PICK p \in Places :
        IF p = platform THEN UNCHANGED <<platform, version, Choice!choice, Choice!wishes, Choice!seen>>
        ELSE /\ platform' = p
             /\ version' = IF Choice!Fixed("version") THEN version ELSE Choice!Unset
             /\ Choice!Revalidate(IF Choice!Fixed("version") THEN Resolved[p, version] ELSE {})
             /\ UNCHANGED <<mode, all, replaced>>
  BY DEF Choice!AnswerPlatform
<1>4. CASE p = platform
  <2>1. UNCHANGED <<platform, version, Choice!choice, Choice!wishes, Choice!seen>> /\ UNCHANGED <<mode, all>>
    BY <1>3, <1>4 DEF Choice!choice
  <2> QED BY <1>1, <1>2, <2>1, PlaceKeeps DEF Choice!TypeOK
<1>5. CASE p # platform
  <2>1. /\ platform' \in Places /\ version' \in Versions \cup {Choice!Unset}
           /\ (Choice!Fixed("version") => version' = version)
        /\ UNCHANGED <<mode, all, replaced>> /\ \E docs : Choice!Revalidate(docs)
    BY <1>1, <1>3, <1>5 DEF Choice!TypeOK
  <2> QED BY <1>1, <1>2, <2>1, PlaceKeeps
<1> QED BY <1>4, <1>5

LEMMA AnswerVersionKeeps ==
  ASSUME ChoiceSetting, ChoiceInv, Choice!AnswerVersion
  PROVE  ChoiceInv'
<1>1. selAt = "prompt" /\ current = "version" /\ Choice!Answered /\ UNCHANGED <<platform, destination>> /\ Choice!TypeOK
  BY DEF Choice!AnswerVersion, Choice!Asking, ChoiceInv, ChoiceTypes
<1>2. ~Choice!Fixed("version")
  BY <1>1 DEF ChoiceInv, HistoryOK, Askable
<1>3. PICK v \in Choice!OpenVersions :
        IF v = version THEN UNCHANGED <<version, Choice!choice, Choice!wishes, Choice!seen>>
        ELSE version' = v /\ Choice!Revalidate(Resolved[platform, v]) /\ UNCHANGED <<mode, all, replaced>>
  BY DEF Choice!AnswerVersion
<1>4. CASE v = version
  <2>1. UNCHANGED <<platform, version, Choice!choice, Choice!wishes, Choice!seen>> /\ UNCHANGED <<mode, all>>
    BY <1>1, <1>3, <1>4 DEF Choice!choice
  <2> QED BY <1>1, <1>2, <2>1, PlaceKeeps DEF Choice!TypeOK
<1>5. CASE v # version
  <2>1. /\ version' \in Versions /\ UNCHANGED <<mode, all, replaced>> /\ \E docs : Choice!Revalidate(docs)
    BY <1>3, <1>5 DEF Choice!OpenVersions
  <2> QED BY <1>1, <1>2, <2>1, PlaceKeeps DEF Choice!TypeOK
<1> QED BY <1>4, <1>5

LEMMA AnswerModeKeeps ==
  ASSUME ChoiceSetting, ChoiceInv, Choice!AnswerMode
  PROVE  ChoiceInv'
<1>1. /\ selAt = "prompt" /\ current = "mode" /\ ChoiceTypes /\ Choice!TypeOK /\ HistoryOK /\ FixedOK /\ ChoiceOK
         /\ StartOK
      /\ UNCHANGED <<platform, version, destination, draft, prefer, convert, refresh, sources, publisher, replaced,
                     given, current, history, held>>
  BY DEF Choice!AnswerMode, Choice!Asking, ChoiceInv, ChoiceTypes, Choice!Answered, Choice!place, Choice!wishes,
     Choice!seen
<1>2. ~Choice!Fixed("all") /\ ~Choice!Fixed("guides")
  BY <1>1 DEF HistoryOK, Askable
<1>3. Choice!Docs \subseteq Guides /\ Choice!Docs' = Choice!Docs /\ Choice!Gone(Choice!Docs)' = Choice!Gone(Choice!Docs)
      /\ \A option : Choice!Fixed(option)' = Choice!Fixed(option)
  BY <1>1, DocsAreGuides DEF Choice!Docs, Choice!Gone, Choice!Fixed
<1>4. \A step \in Questioned : Rank(step) <= Rank(current) /\ Askable(step) => Askable(step)'
  BY <1>1, <1>2 DEF Questioned, Rank, Askable, Choice!Fixed
<1>5. Rank(current') = 3 /\ ~Settled'
  BY <1>1 DEF Settled, Rank
<1>6. CASE mode' = "some" /\ all' = FALSE /\ UNCHANGED <<guides, skipped, snapshot>> /\ Choice!Answered
  <2>1. ChoiceTypes'
    BY <1>1, <1>6 DEF ChoiceTypes, Choice!TypeOK, ChoiceInv, Choice!Answered
  <2>2. FixedOK'
    BY <1>1, <1>2, <1>3 DEF FixedOK
  <2>3. ChoiceOK'
    BY <1>1, <1>3, <1>5, <1>6 DEF ChoiceOK, Choice!Answered
  <2> QED BY <1>1, <1>4, <1>6, <2>1, <2>2, <2>3, AnsweredKeeps
<1>7. CASE /\ mode' = "all" /\ all' = TRUE /\ Choice!Fail /\ UNCHANGED <<guides, skipped, snapshot>>
  <2>1. ChoiceTypes'
    BY <1>1, <1>7 DEF ChoiceTypes, Choice!TypeOK, Choice!Fail
  <2> QED BY <1>7, <2>1 DEF ChoiceInv, Choice!Fail, Choice!ChoiceStands
<1>8. CASE mode' = "all" /\ all' = TRUE /\ Choice!Apply(Choice!Docs) /\ selAt' = "follow" /\ UNCHANGED selected
  <2>1. /\ guides' = {d \in Choice!Docs : sources[d] # "gone"} /\ skipped' \subseteq Choice!Docs /\ snapshot' = TRUE
    BY <1>1, <1>8 DEF Choice!Apply, Choice!Left
  <2>2. ChoiceTypes'
    BY <1>1, <1>3, <1>8, <2>1 DEF ChoiceTypes, Choice!TypeOK, ChoiceInv
  <2>3. FixedOK'
    BY <1>1, <1>2, <1>3 DEF FixedOK
  <2>4. guides' \subseteq Choice!Docs' /\ Choice!Docs' \ guides' \subseteq Choice!Gone(Choice!Docs)'
    BY <1>3, <2>1 DEF Choice!Gone
  <2>5. ChoiceOK'
    BY <1>1, <1>3, <1>8, <2>4 DEF ChoiceOK
  <2> QED BY <1>1, <1>4, <1>8, <2>2, <2>3, <2>5, AnsweredKeeps DEF Choice!Answered
<1>9. \/ mode' = "some" /\ all' = FALSE /\ UNCHANGED <<guides, skipped, snapshot>> /\ Choice!Answered
      \/ /\ mode' = "all" /\ all' = TRUE
         /\ IF Choice!Gone(Choice!Docs) = Choice!Docs THEN Choice!Fail /\ UNCHANGED <<guides, skipped, snapshot>>
            ELSE Choice!Apply(Choice!Docs) /\ selAt' = "follow" /\ UNCHANGED selected
  BY DEF Choice!AnswerMode
<1> QED BY <1>6, <1>7, <1>8, <1>9

LEMMA AnswerGuidesKeeps ==
  ASSUME ChoiceSetting, ChoiceInv, Choice!AnswerGuides
  PROVE  ChoiceInv'
<1>1. /\ selAt = "prompt" /\ current = "guides" /\ ChoiceTypes /\ Choice!TypeOK /\ HistoryOK /\ FixedOK /\ ChoiceOK
         /\ Choice!Answered
      /\ UNCHANGED <<platform, version, destination, mode, skipped, snapshot, prefer, convert, refresh,
                     sources, publisher, replaced, given, current>>
  BY DEF Choice!AnswerGuides, Choice!Asking, ChoiceInv, ChoiceTypes, Choice!Answered, Choice!place, Choice!wishes,
     Choice!seen
<1>2. PICK values \in SUBSET Choice!Tickable : draft' = values /\ guides' = values
  BY DEF Choice!AnswerGuides
<1>3. ~Choice!Fixed("guides") /\ mode = "some" /\ all' = FALSE
  BY <1>1 DEF HistoryOK, Askable, Choice!AnswerGuides
<1>4. \A option : Choice!Fixed(option)' = Choice!Fixed(option)
  BY <1>1 DEF Choice!Fixed
<1>5. \A step : Askable(step)' = Askable(step)
  BY <1>1, SameQuestions
<1>6. guides' \subseteq Guides
  BY <1>1, <1>2, DocsAreGuides DEF Choice!Tickable
<1>7. ChoiceTypes'
  BY <1>1, <1>2, <1>3, <1>6 DEF ChoiceTypes, Choice!TypeOK, ChoiceInv, Choice!Answered
<1>8. FixedOK'
  BY <1>1, <1>3, <1>4 DEF FixedOK
<1>9. ChoiceOK'
  BY <1>1, <1>2, <1>3, <1>4 DEF ChoiceOK, Choice!Answered
<1> QED BY <1>1, <1>5, <1>7, <1>8, <1>9, AnsweredKeeps

LEMMA AnswerDestinationKeeps ==
  ASSUME ChoiceSetting, ChoiceInv, Choice!AnswerDestination
  PROVE  ChoiceInv'
<1>1. /\ selAt = "prompt" /\ current = "destination" /\ ChoiceTypes /\ Choice!TypeOK /\ HistoryOK /\ FixedOK /\ ChoiceOK
         /\ Choice!Answered
      /\ UNCHANGED <<platform, version, mode, guides, draft, skipped, snapshot, prefer, convert,
                     sources, publisher, replaced, given, current>> /\ UNCHANGED all
  BY DEF Choice!AnswerDestination, Choice!Asking, ChoiceInv, ChoiceTypes, Choice!Answered, Choice!choice, Choice!seen
<1>2. PICK value \in {"old", "new"} :
        destination' = value /\ IF value = destination THEN UNCHANGED refresh ELSE Choice!ResetExisting
  BY DEF Choice!AnswerDestination
<1>3. ~Choice!Fixed("destination") /\ Choice!CommandLine(given)
  BY <1>1 DEF HistoryOK, Askable, ChoiceTypes, ChoiceSetting
<1>4. Choice!Docs' = Choice!Docs /\ Choice!Gone(Choice!Docs)' = Choice!Gone(Choice!Docs)
      /\ \A option : Choice!Fixed(option)' = Choice!Fixed(option)
  BY <1>1 DEF Choice!Docs, Choice!Gone, Choice!Fixed
<1>5. \A step \in Questioned : Rank(step) <= Rank(current) /\ Askable(step) => Askable(step)'
  BY <1>1 DEF Questioned, Rank, Askable, Choice!Fixed
<1>6. CASE value = destination
  <2>1. UNCHANGED <<refresh, destination>>
    BY <1>2, <1>6
  <2>2. ChoiceTypes'
    BY <1>1, <2>1 DEF ChoiceTypes, Choice!TypeOK, ChoiceInv, Choice!Answered
  <2>3. FixedOK'
    BY <1>1, <1>4, <2>1 DEF FixedOK
  <2>4. Settled' => Settled
    BY <1>1 DEF Settled, Rank
  <2>5. refresh' /\ ~Choice!Fixed("refresh") => destination' = "old"
    BY <1>1, <2>1 DEF ChoiceOK
  <2>6. all' <=> mode' = "all"
    BY <1>1, SameAll
  <2>7. ChoiceOK'
    BY <1>1, <1>4, <2>4, <2>5, <2>6 DEF ChoiceOK, Choice!Answered
  <2> QED BY <1>1, <1>5, <2>2, <2>3, <2>7, AnsweredKeeps
<1>7. CASE value # destination
  <2>1. refresh' = (IF Choice!Fixed("refresh") THEN refresh ELSE given.refresh) /\ destination' = value
    BY <1>2, <1>7 DEF Choice!ResetExisting
  <2>2. refresh' \in BOOLEAN /\ (Choice!Fixed("refresh") \/ ~refresh')
    BY <1>1, <1>3, <2>1 DEF ChoiceTypes, Choice!CommandLine, Choice!Fixed
  <2>3. ChoiceTypes'
    BY <1>1, <2>1, <2>2 DEF ChoiceTypes, Choice!TypeOK, ChoiceInv, Choice!Answered
  <2>4. FixedOK'
    BY <1>1, <1>3, <1>4, <2>1 DEF FixedOK
  <2>5. Settled' => Settled
    BY <1>1 DEF Settled, Rank
  <2>6. all' <=> mode' = "all"
    BY <1>1, SameAll
  <2>7. ChoiceOK'
    BY <1>1, <1>4, <2>2, <2>5, <2>6 DEF ChoiceOK, Choice!Answered
  <2> QED BY <1>1, <1>5, <2>3, <2>4, <2>7, AnsweredKeeps
<1> QED BY <1>6, <1>7

LEMMA AnswerWishKeeps ==
  ASSUME ChoiceSetting, ChoiceInv, Choice!AnswerWish
  PROVE  ChoiceInv'
<1>1. /\ selAt = "prompt" /\ current \in {"preference", "conversion", "existing"} /\ ChoiceTypes /\ Choice!TypeOK
         /\ HistoryOK
      /\ FixedOK /\ ChoiceOK /\ Choice!Answered
      /\ UNCHANGED <<platform, version, destination, mode, guides, draft, skipped, snapshot,
                     sources, publisher, replaced, given, current>> /\ UNCHANGED all
  BY DEF Choice!AnswerWish, Choice!Asking, ChoiceInv, ChoiceTypes, Choice!Answered, Choice!place, Choice!choice,
     Choice!seen
<1>2. Choice!Docs' = Choice!Docs /\ Choice!Gone(Choice!Docs)' = Choice!Gone(Choice!Docs)
      /\ \A option : Choice!Fixed(option)' = Choice!Fixed(option)
  BY <1>1 DEF Choice!Docs, Choice!Gone, Choice!Fixed
<1>3. \A step : Askable(step)' = Askable(step)
  BY <1>1, SameQuestions
<1>4. Settled' => Settled
  BY <1>1 DEF Settled, Rank
<1>5. all' <=> mode' = "all"
  BY <1>1, SameAll
<1>6. /\ prefer' \in BOOLEAN /\ convert' \in {"no", "convert", "replace"} /\ refresh' \in BOOLEAN
      /\ Choice!Fixed("prefer") => prefer' = prefer
      /\ Choice!Fixed("convert") => convert' = convert
      /\ Choice!Fixed("refresh") => refresh' = refresh
      /\ refresh' /\ ~Choice!Fixed("refresh") => destination' = "old"
  <2>1. CASE Choice!Asking("preference") /\ prefer' \in BOOLEAN /\ UNCHANGED <<convert, refresh>>
    <3>1. ~Choice!Fixed("prefer")
      BY <1>1, <2>1 DEF Choice!Asking, HistoryOK, Askable
    <3>2. refresh' = refresh /\ refresh \in BOOLEAN /\ (refresh /\ ~Choice!Fixed("refresh") => destination = "old")
      BY <1>1, <2>1 DEF ChoiceTypes, ChoiceOK
    <3> QED BY <1>1, <2>1, <3>1, <3>2 DEF ChoiceTypes
  <2>2. CASE Choice!Asking("conversion") /\ convert' \in {"no", "convert", "replace"} /\ UNCHANGED <<prefer, refresh>>
    <3>1. ~Choice!Fixed("convert")
      BY <1>1, <2>2 DEF Choice!Asking, HistoryOK, Askable
    <3>2. refresh' = refresh /\ refresh \in BOOLEAN /\ (refresh /\ ~Choice!Fixed("refresh") => destination = "old")
      BY <1>1, <2>2 DEF ChoiceTypes, ChoiceOK
    <3> QED BY <1>1, <2>2, <3>1, <3>2 DEF ChoiceTypes
  <2>3. CASE Choice!Asking("existing") /\ refresh' \in BOOLEAN /\ UNCHANGED <<prefer, convert>>
    <3>1. ~Choice!Fixed("refresh") /\ destination = "old"
      BY <1>1, <2>3 DEF Choice!Asking, HistoryOK, Askable
    <3> QED BY <1>1, <2>3, <3>1 DEF ChoiceTypes
  <2> QED BY <2>1, <2>2, <2>3 DEF Choice!AnswerWish
<1>7. ChoiceTypes'
  BY <1>1, <1>6 DEF ChoiceTypes, Choice!TypeOK, ChoiceInv, Choice!Answered
<1>8. FixedOK'
  BY <1>1, <1>2, <1>6 DEF FixedOK
<1>9. ChoiceOK'
  BY <1>1, <1>2, <1>4, <1>5, <1>6 DEF ChoiceOK, Choice!Answered
<1> QED BY <1>1, <1>3, <1>7, <1>8, <1>9, AnsweredKeeps

-----------------------------------------------------------------------------
\* Stepping back, the guides ticked so far are only remembered where the question is ahead again.
LEMMA BackKeeps ==
  ASSUME ChoiceSetting, ChoiceInv, Choice!Back
  PROVE  ChoiceInv'
<1>1. /\ selAt = "prompt" /\ ChoiceTypes /\ Choice!TypeOK /\ HistoryOK /\ FixedOK /\ ChoiceOK /\ StartOK
         /\ selected = "none"
      /\ current \in Questioned /\ Askable(current) /\ history \in Seq(Questioned) /\ history # <<>>
      /\ UNCHANGED <<given, platform, version, destination, mode, guides, skipped, snapshot, prefer, convert, refresh,
                     sources, publisher, replaced, held, selected>> /\ UNCHANGED all
      /\ selAt' = "present" /\ current' = Choice!Last(history) /\ history' = SubSeq(history, 1, Len(history) - 1)
  BY DEF Choice!Back, ChoiceInv, ChoiceTypes, HistoryOK, Choice!place, Choice!wishes, Choice!seen
<1>2. /\ Len(history) \in Nat /\ Len(history) > 0 /\ DOMAIN history = 1 .. Len(history)
      /\ history[Len(history)] = current' /\ current' \in Questioned
  BY <1>1 DEF Choice!Last
<1>3. /\ history' \in Seq(Questioned) /\ DOMAIN history' = 1 .. (Len(history) - 1)
      /\ \A k \in 1 .. (Len(history) - 1) : history'[k] = history[k]
  BY <1>1, <1>2
<1>4. \A option : Choice!Fixed(option)' = Choice!Fixed(option)
  BY <1>1 DEF Choice!Fixed
<1>5. \A step : Askable(step)' = Askable(step)
  BY <1>1, SameQuestions
<1>6. Askable(current') /\ Rank(current') < Rank(current) /\ Rank(current') \in 1 .. 8 /\ Rank(current) \in 1 .. 8
  BY <1>1, <1>2, RankOfSteps DEF HistoryOK
<1>7. HistoryOK'
  <2>1. \A step : step = current' => (Askable(current)' <=> Askable(step))
    BY <1>5
  <2>2. Askable(current)'
    BY <1>6, <2>1
  <2>3. \A k \in DOMAIN history' : k \in DOMAIN history /\ k < Len(history) /\ Len(history) \in DOMAIN history
    BY <1>2, <1>3
  <2>4. \A k \in DOMAIN history' : Askable(history'[k]) /\ Rank(history'[k]) < Rank(current')
    <3> SUFFICES ASSUME NEW k \in DOMAIN history' PROVE Askable(history'[k]) /\ Rank(history'[k]) < Rank(current')
      OBVIOUS
    <3>1. history'[k] = history[k] /\ k \in DOMAIN history /\ k < Len(history) /\ Len(history) \in DOMAIN history
      BY <1>3, <2>3
    <3>2. Askable(history[k]) /\ Rank(history[k]) < Rank(history[Len(history)])
      BY <1>1, <3>1 DEF HistoryOK
    <3> QED BY <1>2, <3>1, <3>2
  <2>5. \A k, l \in DOMAIN history' : k < l => Rank(history'[k]) < Rank(history'[l])
    BY <1>1, <1>3, <2>3 DEF HistoryOK
  <2>6. \A step : \A k \in DOMAIN history' : step = history'[k] => (Askable(history[k])' <=> Askable(step))
    BY <1>5
  <2>7. \A k \in DOMAIN history' : Askable(history[k])'
    BY <2>4, <2>6
  <2> QED BY <1>1, <1>2, <2>2, <2>4, <2>5, <2>7 DEF HistoryOK
<1>8. draft' \subseteq Guides /\ (current # "guides" => draft' = draft)
  <2>1. Choice!Tickable \subseteq Guides
    BY <1>1, DocsAreGuides DEF Choice!Tickable
  <2>2. IF current = "guides" THEN draft' \in SUBSET Choice!Tickable ELSE UNCHANGED draft
    BY DEF Choice!Back
  <2> QED BY <1>1, <2>1, <2>2 DEF Choice!TypeOK
<1>9. current = "guides" => ~Choice!Fixed("guides") /\ mode = "some"
  BY <1>1 DEF Askable
<1>10. ChoiceTypes'
  BY <1>1, <1>3, <1>8 DEF ChoiceTypes, Choice!TypeOK
<1>11. FixedOK'
  BY <1>1, <1>4, <1>8, <1>9 DEF FixedOK
<1>12. ChoiceOK'
  <2>1. Choice!Docs' = Choice!Docs /\ Choice!Gone(Choice!Docs)' = Choice!Gone(Choice!Docs)
    BY <1>1 DEF Choice!Docs, Choice!Gone
  <2>2. all' <=> mode' = "all"
    BY <1>1, SameAll
  <2>3. Settled' => Settled /\ current # "guides"
    <3>1. Settled' => Rank(current') > 4
      BY <1>1 DEF Settled
    <3>2. current = "guides" => Rank(current) = 4
      BY DEF Rank
    <3>3. Rank(current) > 4 => Settled
      BY <1>1 DEF Settled
    <3> QED BY <1>6, <3>1, <3>2, <3>3
  <2>4. refresh' /\ ~Choice!Fixed("refresh") => destination' = "old"
    BY <1>1, SameRefresh
  <2> QED BY <1>1, <1>4, <1>8, <1>9, <2>1, <2>2, <2>3, <2>4 DEF ChoiceOK
<1>13. StartOK'
  BY <1>1 DEF StartOK, Choice!Guided
<1> QED BY <1>1, <1>7, <1>10, <1>11, <1>12, <1>13 DEF ChoiceInv, Choice!ChoiceStands

\* A question is shown, or somebody else uses the release folder: of the choice nothing changes
\* but what was learnt.
LEMMA QuestionShown ==
  ASSUME ChoiceInv, selAt \in {"present", "prompt"}, selAt' \in {"present", "prompt"},
         UNCHANGED <<given, Choice!place, Choice!choice, Choice!wishes, current, history, selected>>,
         sources' \in [Guides -> {"unseen", "served", "gone", "unknown"}],
         publisher' \in [Guides -> {"unseen", "offered", "not offered"}],
         replaced' \subseteq Versions \X Guides,
         \A d \in Guides : sources[d] = "gone" => sources'[d] = "gone", Choice!Docs \subseteq Guides
  PROVE  ChoiceInv'
<1>1. /\ ChoiceTypes /\ Choice!TypeOK /\ HistoryOK /\ FixedOK /\ ChoiceOK /\ StartOK /\ selected = "none"
         /\ history \in Seq(Questioned)
      /\ UNCHANGED <<given, platform, version, destination, mode, guides, draft, skipped, snapshot, prefer, convert,
                     refresh, current, history, selected>> /\ UNCHANGED all
  BY DEF ChoiceInv, ChoiceTypes, Choice!place, Choice!choice, Choice!wishes
<1>2. Choice!Docs' = Choice!Docs /\ Choice!Gone(Choice!Docs) \subseteq Choice!Gone(Choice!Docs)'
      /\ \A option : Choice!Fixed(option)' = Choice!Fixed(option)
  BY <1>1 DEF Choice!Docs, Choice!Gone, Choice!Fixed
<1>3. \A step : Askable(step)' = Askable(step)
  BY <1>1, SameQuestions
<1>4. HistoryOK'
  BY <1>1, <1>3, HistoryKept
<1>5. ChoiceTypes'
  <2>1. all' \in BOOLEAN /\ prefer' \in BOOLEAN /\ refresh' \in BOOLEAN /\ snapshot' \in BOOLEAN
    BY <1>1 DEF ChoiceTypes
  <2>2. Choice!TypeOK'
    BY <1>1 DEF Choice!TypeOK
  <2> QED BY <1>1, <2>1, <2>2 DEF ChoiceTypes
<1>6. FixedOK'
  BY <1>1, <1>2 DEF FixedOK
<1>7. ChoiceOK'
  <2>1. all' <=> mode' = "all"
    BY <1>1, SameAll
  <2>2. Settled' => Settled
    BY <1>1 DEF Settled
  <2>3. refresh' /\ ~Choice!Fixed("refresh") => destination' = "old"
    BY <1>1, SameRefresh
  <2> QED BY <1>1, <1>2, <2>1, <2>2, <2>3 DEF ChoiceOK
<1>8. StartOK'
  BY <1>1 DEF StartOK, Choice!Guided
<1> QED BY <1>1, <1>4, <1>5, <1>6, <1>7, <1>8 DEF ChoiceInv, Choice!ChoiceStands

\* A selection that fails chooses nothing.
LEMMA FailureKeeps ==
  ASSUME ChoiceInv, Choice!Fail, UNCHANGED <<given, Choice!place, Choice!choice, Choice!wishes, history>>,
         sources' \in [Guides -> {"unseen", "served", "gone", "unknown"}],
         publisher' \in [Guides -> {"unseen", "offered", "not offered"}], replaced' \subseteq Versions \X Guides
  PROVE  ChoiceInv'
<1>1. ChoiceTypes'
  BY DEF ChoiceInv, ChoiceTypes, Choice!TypeOK, Choice!Fail, Choice!place, Choice!choice, Choice!wishes
<1> QED BY <1>1 DEF ChoiceInv, Choice!Fail, Choice!ChoiceStands

LEMMA PresentKeeps ==
  ASSUME ChoiceSetting, ChoiceInv, Choice!Present
  PROVE  ChoiceInv'
<1>1. /\ Choice!TypeOK /\ selAt = "present"
         /\ UNCHANGED <<given, Choice!place, Choice!choice, Choice!wishes, current, history>>
            /\ Choice!Docs \subseteq Guides
  BY DocsAreGuides DEF Choice!Present, ChoiceInv, ChoiceTypes
<1>2. CASE UNCHANGED Choice!seen
  <2>1. UNCHANGED <<sources, publisher, replaced>>
    BY <1>2 DEF Choice!seen
  <2>2. /\ sources' \in [Guides -> {"unseen", "served", "gone", "unknown"}]
        /\ publisher' \in [Guides -> {"unseen", "offered", "not offered"}] /\ replaced' \subseteq Versions \X Guides
        /\ \A d \in Guides : sources[d] = "gone" => sources'[d] = "gone"
    BY <1>1, <2>1 DEF Choice!TypeOK
  <2>3. CASE selAt' = "prompt" /\ UNCHANGED selected
    BY <1>1, <2>2, <2>3, QuestionShown
  <2>4. CASE Choice!Fail
    BY <1>1, <2>2, <2>4, FailureKeeps DEF Choice!Present
  <2>5. CASE Choice!Scan(Choice!Docs, TRUE) /\ selAt' = "prompt" /\ UNCHANGED selected
    BY <2>3, <2>5
  <2> QED BY <2>3, <2>4, <2>5 DEF Choice!Present
<1>3. CASE Choice!Scan(Choice!Docs, TRUE) /\ selAt' = "prompt" /\ UNCHANGED selected
  <2>1. /\ sources' \in [Guides -> {"unseen", "served", "gone", "unknown"}]
        /\ publisher' \in [Guides -> {"unseen", "offered", "not offered"}] /\ replaced' \subseteq Versions \X Guides
        /\ \A d \in Guides : sources[d] = "gone" => sources'[d] = "gone"
    BY <1>1, <1>3, ScanLearns
  <2> QED BY <1>1, <1>3, <2>1, QuestionShown
<1> QED BY <1>2, <1>3 DEF Choice!Present

LEMMA DisturbKeeps ==
  ASSUME ChoiceSetting, ChoiceInv, Choice!Disturb
  PROVE  ChoiceInv'
<1>1. /\ Choice!TypeOK /\ selAt \in {"present", "prompt"} /\ selAt' = selAt
      /\ UNCHANGED <<given, Choice!place, Choice!choice, Choice!wishes, current, history, selected>>
         /\ Choice!Docs \subseteq Guides
      /\ UNCHANGED <<sources, publisher, replaced>>
  BY DocsAreGuides DEF Choice!Disturb, ChoiceInv, ChoiceTypes, Choice!seen
<1>2. /\ sources' \in [Guides -> {"unseen", "served", "gone", "unknown"}]
      /\ publisher' \in [Guides -> {"unseen", "offered", "not offered"}] /\ replaced' \subseteq Versions \X Guides
      /\ \A d \in Guides : sources[d] = "gone" => sources'[d] = "gone"
  BY <1>1 DEF Choice!TypeOK
<1> QED BY <1>1, <1>2, QuestionShown

LEMMA GiveUpKeeps ==
  ASSUME ChoiceInv, Choice!GiveUp
  PROVE  ChoiceInv'
<1>1. Choice!TypeOK /\ Choice!Fail
      /\ UNCHANGED <<given, Choice!place, Choice!choice, Choice!wishes, sources, publisher, replaced, history>>
  BY DEF Choice!GiveUp, ChoiceInv, ChoiceTypes, Choice!seen
<1> QED BY <1>1, FailureKeeps DEF Choice!TypeOK

\* What stands when nothing was asked: wishes are those of the command line.
LEMMA DirectStands ==
  ASSUME Choice!CommandLine(given), UNCHANGED <<given, platform, version, destination, prefer, convert, refresh>>,
         UNCHANGED all, platform = given.platform, version = given.version, destination = given.destination,
         all = given.all, prefer = given.prefer, convert = given.convert, refresh = given.refresh,
         \A option : Choice!Fixed(option)' = Choice!Fixed(option),
         Choice!Taken' # {}, Choice!Taken' \subseteq Choice!Docs', \A d \in Choice!Taken' : sources'[d] # "gone",
         all => Choice!Taken' = Choice!Docs' \ Choice!Gone(Choice!Docs)' /\ <<platform, version>> \notin FaultyPlaces,
         Choice!Fixed("guides") => Choice!Taken' = given.guides
  PROVE  Choice!ChoiceStands'
<1>1. /\ prefer \in BOOLEAN /\ refresh \in BOOLEAN /\ all \in BOOLEAN
      /\ Choice!Fixed("prefer") \/ ~prefer
      /\ Choice!Fixed("convert") \/ convert = "no"
      /\ Choice!Fixed("refresh") \/ ~refresh
      /\ Choice!Fixed("all") => all
  BY DEF Choice!CommandLine, Choice!Fixed
<1>2. (all' <=> all) /\ (prefer' <=> prefer) /\ (refresh' <=> refresh)
  <2>1. all' <=> all
    BY <1>1
  <2>2. prefer' <=> prefer
    BY <1>1
  <2>3. refresh' <=> refresh
    BY <1>1
  <2> QED BY <2>1, <2>2, <2>3
<1>3. ASSUME NEW option \in given.fixed
      PROVE  CASE option = "platform" -> platform' = given.platform
               [] option = "version" -> version' = given.version
               [] option = "destination" -> destination' = given.destination
               [] option = "guides" -> Choice!Taken' = given.guides
               [] option = "all" -> all'
               [] option = "prefer" -> prefer' = given.prefer
               [] option = "convert" -> convert' = given.convert
               [] option = "refresh" -> refresh' = given.refresh
  <2>1. option \in Choice!Options /\ Choice!Fixed(option)
    BY DEF Choice!CommandLine, Choice!Fixed
  <2>2. Choice!Fixed("all") => all'
    BY <1>1, <1>2
  <2> QED BY <2>1, <2>2 DEF Choice!Options
<1>4. all' => Choice!Taken' = Choice!Docs' \ Choice!Gone(Choice!Docs)' /\ <<platform, version>>' \notin FaultyPlaces
  BY <1>2
<1> QED BY <1>1, <1>2, <1>3, <1>4 DEF Choice!ChoiceStands

\* A complete command line chooses what it says, or all that is served.
LEMMA DirectKeeps ==
  ASSUME ChoiceSetting, ChoiceInv, Choice!Direct
  PROVE  ChoiceInv'
<1> DEFINE docs == IF all THEN Choice!Docs ELSE guides
<1>1. /\ ChoiceTypes /\ Choice!TypeOK /\ selAt = "start" /\ ~Choice!Guided /\ given \in CommandLines /\ selected = "none"
         /\ ChoiceOK
      /\ platform = given.platform /\ version = given.version /\ destination = given.destination
      /\ all = given.all /\ guides = given.guides /\ draft = given.guides
      /\ prefer = given.prefer /\ convert = given.convert /\ refresh = given.refresh
      /\ UNCHANGED <<given, platform, version, destination, mode, prefer, convert, refresh, draft, history>>
      /\ UNCHANGED all
  BY DEF Choice!Direct, ChoiceInv, ChoiceTypes, StartOK, Choice!place, Choice!wishes
<1>2. Choice!CommandLine(given) /\ Choice!Docs \subseteq Guides
  BY <1>1, DocsAreGuides DEF ChoiceSetting
<1>3. CASE Choice!Refused(docs)
  <2>1. Choice!Fail /\ UNCHANGED <<sources, publisher, replaced, guides, skipped, snapshot>>
    BY <1>3 DEF Choice!Direct, Choice!seen
  <2>2. UNCHANGED <<given, Choice!place, Choice!choice, Choice!wishes, history>>
    BY <1>1, <2>1 DEF Choice!place, Choice!choice, Choice!wishes
  <2> QED BY <1>1, <2>1, <2>2, FailureKeeps DEF Choice!TypeOK
<1>4. CASE ~Choice!Refused(docs)
  <2>1. docs \subseteq Choice!Docs /\ ~(all /\ <<platform, version>> \in FaultyPlaces)
    BY <1>4 DEF Choice!Refused
  <2>2. /\ Choice!Scan(docs, prefer)
        /\ IF all THEN Choice!Apply(docs) ELSE UNCHANGED <<guides, skipped, snapshot>>
        /\ IF (IF all THEN Choice!Left(docs) = {} ELSE Choice!Left(docs) # docs) THEN Choice!Fail
           ELSE selAt' = "ended" /\ selected' = "chosen"
    BY <1>4 DEF Choice!Direct
  <2>3. /\ sources' \in [Guides -> {"unseen", "served", "gone", "unknown"}]
        /\ publisher' \in [Guides -> {"unseen", "offered", "not offered"}] /\ replaced' \subseteq Versions \X Guides
    BY <1>1, <2>1, <2>2, ScanLearns
  <2>4. guides' \subseteq Guides /\ skipped' \subseteq Guides /\ snapshot' \in BOOLEAN
    BY <1>1, <1>2, <2>1, <2>2 DEF Choice!Apply, Choice!Left, ChoiceTypes, Choice!TypeOK
  <2>5. selAt' = "ended" /\ selected' \in {"failed", "chosen"}
    BY <2>2 DEF Choice!Fail
  <2>6. ChoiceTypes'
    BY <1>1, <2>3, <2>4, <2>5 DEF ChoiceTypes, Choice!TypeOK
  <2>7. ASSUME selected' = "chosen" PROVE Choice!ChoiceStands'
    <3>1. Choice!Docs' = Choice!Docs /\ Choice!Gone(Choice!Docs)' = {d \in Choice!Docs : sources'[d] = "gone"}
          /\ \A option : Choice!Fixed(option)' = Choice!Fixed(option)
      BY <1>1 DEF Choice!Docs, Choice!Gone, Choice!Fixed
    <3>a. UNCHANGED <<given, platform, version, destination, prefer, convert, refresh>> /\ UNCHANGED all
      BY <1>1
    <3>2. IF all THEN Choice!Left(docs) # {} ELSE Choice!Left(docs) = docs
      BY <2>2, <2>7 DEF Choice!Fail
    <3>3. ~Choice!Guided'
      BY <1>1 DEF Choice!Guided
    <3>4. CASE all
      <4>1. guides' = {d \in Choice!Docs : sources'[d] # "gone"} /\ snapshot' = TRUE /\ guides' # {}
        BY <2>2, <3>2, <3>4 DEF Choice!Apply, Choice!Left
      <4>2. Choice!Taken' = guides'
        BY <3>3, <4>1 DEF Choice!Taken
      <4>3. ~Choice!Fixed("guides")
        BY <1>1, <1>2, <3>4 DEF Choice!CommandLine, Choice!Fixed
      <4>4. /\ Choice!Taken' # {} /\ Choice!Taken' \subseteq Choice!Docs' /\ \A d \in Choice!Taken' : sources'[d] # "gone"
            /\ Choice!Taken' = Choice!Docs' \ Choice!Gone(Choice!Docs)'
        BY <3>1, <4>1, <4>2
      <4>5. all => Choice!Taken' = Choice!Docs' \ Choice!Gone(Choice!Docs)' /\ <<platform, version>> \notin FaultyPlaces
        BY <2>1, <4>4
      <4> QED BY <1>1, <1>2, <3>1, <3>a, <4>3, <4>4, <4>5, DirectStands
    <3>5. CASE ~all
      <4>1. guides' = guides /\ ~all'
        BY <1>1, <2>2, <3>5
      <4>2. Choice!Taken' = guides
        BY <3>3, <4>1 DEF Choice!Taken
      <4>3. \A d \in guides : sources'[d] # "gone"
        BY <3>2, <3>5 DEF Choice!Left
      <4>4. guides # {}
        BY <1>1, <1>2, <3>5 DEF Choice!CommandLine, Choice!Guided
      <4>5. /\ Choice!Taken' # {} /\ Choice!Taken' \subseteq Choice!Docs' /\ \A d \in Choice!Taken' : sources'[d] # "gone"
            /\ Choice!Taken' = given.guides
        BY <1>1, <2>1, <3>1, <3>5, <4>2, <4>3, <4>4
      <4> QED BY <1>1, <1>2, <3>1, <3>5, <3>a, <4>5, DirectStands
    <3> QED BY <3>4, <3>5
  <2>8. Choice!ChoiceStands'
    BY <2>7 DEF Choice!ChoiceStands
  <2> QED BY <2>5, <2>6, <2>8 DEF ChoiceInv
<1> QED BY <1>3, <1>4

LEMMA ChoiceStarts ==
  ASSUME ChoiceSetting, Choice!Init
  PROVE  ChoiceInv
<1>1. given \in CommandLines /\ Choice!CommandLine(given)
  BY DEF Choice!Init, ChoiceSetting
<1>2. ChoiceTypes
  <2>1. Choice!TypeOK
    BY <1>1 DEF Choice!Init, Choice!TypeOK, Choice!CommandLine
  <2>2. all \in BOOLEAN /\ prefer \in BOOLEAN /\ refresh \in BOOLEAN /\ snapshot \in BOOLEAN
    BY <1>1 DEF Choice!Init, Choice!CommandLine
  <2>3. destination \in {Choice!Unset, "old", "new"} /\ convert \in {"no", "convert", "replace"} /\ selected = "none"
    BY <1>1 DEF Choice!Init, Choice!CommandLine
  <2>4. history \in Seq(Questioned)
    <3>1. <<>> \in Seq(Questioned)
      OBVIOUS
    <3> QED BY <3>1 DEF Choice!Init
  <2> QED BY <1>1, <2>1, <2>2, <2>3, <2>4 DEF ChoiceTypes
<1>3. HistoryOK
  <2>1. DOMAIN <<>> = {}
    OBVIOUS
  <2> QED BY <2>1 DEF Choice!Init, HistoryOK
<1>4. FixedOK
  BY <1>1 DEF Choice!Init, FixedOK, Choice!CommandLine, Choice!Fixed
<1>5. ChoiceOK
  BY <1>1 DEF Choice!Init, ChoiceOK, Choice!CommandLine, Choice!Fixed
<1>6. StartOK
  BY DEF Choice!Init, StartOK
<1> QED BY <1>2, <1>3, <1>4, <1>5, <1>6 DEF Choice!Init, ChoiceInv, Choice!ChoiceStands

\* A choice is not changed any more.
LEMMA StandsStill ==
  ASSUME Choice!ChoiceStands, UNCHANGED selVars
  PROVE  Choice!ChoiceStands'
<1>1. UNCHANGED <<given, platform, version, mode, all, guides, draft, destination, prefer, convert, refresh,
                  skipped, snapshot, sources, publisher, replaced, selected>>
  BY DEF selVars
<1>2. /\ Choice!Taken' = Choice!Taken /\ Choice!Docs' = Choice!Docs
         /\ Choice!Gone(Choice!Docs)' = Choice!Gone(Choice!Docs) /\ Choice!HTML(Choice!Taken)' = Choice!HTML(Choice!Taken)
      /\ \A option : Choice!Fixed(option)' = Choice!Fixed(option)
  BY <1>1 DEF Choice!Taken, Choice!Docs, Choice!Gone, Choice!HTML, Choice!Guided, Choice!Fixed
<1> QED BY <1>1, <1>2 DEF Choice!ChoiceStands

LEMMA ChoiceKeeps ==
  ASSUME ChoiceSetting, ChoiceInv, [Choice!Next]_selVars
  PROVE  ChoiceInv'
<1>1. CASE Choice!Next
  <2>1. CASE Choice!Begin
    BY <2>1, ProceedKeeps DEF Choice!Begin
  <2>2. CASE Choice!Follow
    <3>1. Choice!Guided
      BY <2>2 DEF Choice!Follow, ChoiceInv, StartOK
    <3> QED BY <2>2, <3>1, ProceedKeeps DEF Choice!Follow
  <2> QED BY <1>1, <2>1, <2>2, PresentKeeps, AnswerPlatformKeeps, AnswerVersionKeeps, AnswerModeKeeps, AnswerGuidesKeeps,
             AnswerDestinationKeeps, AnswerWishKeeps, BackKeeps, GiveUpKeeps, DirectKeeps, DisturbKeeps
          DEF Choice!Next, Choice!SelectionStep, Choice!Answer
<1>2. CASE UNCHANGED selVars
  <2>1. UNCHANGED <<given, platform, version, mode, all, guides, draft, destination, prefer, convert, refresh,
                    skipped, snapshot, sources, publisher, replaced, current, history, held, selAt, selected>>
    BY <1>2 DEF selVars
  <2>2. ChoiceTypes'
    <3>1. ChoiceTypes
      BY DEF ChoiceInv
    <3>2. all' \in BOOLEAN /\ prefer' \in BOOLEAN /\ refresh' \in BOOLEAN /\ snapshot' \in BOOLEAN
      BY <2>1, <3>1 DEF ChoiceTypes
    <3>3. Choice!TypeOK'
      BY <2>1, <3>1 DEF ChoiceTypes, Choice!TypeOK
    <3> QED BY <2>1, <3>1, <3>2, <3>3 DEF ChoiceTypes
  <2>3. Choice!ChoiceStands'
    BY <1>2, StandsStill DEF ChoiceInv
  <2>4. CASE selAt = "ended"
    BY <2>1, <2>2, <2>3, <2>4 DEF ChoiceInv
  <2>5. CASE selAt \in {"start", "present", "prompt", "follow"}
    <3>1. /\ ChoiceTypes /\ selected = "none" /\ HistoryOK /\ FixedOK /\ ChoiceOK /\ StartOK
      BY <2>5 DEF ChoiceInv
    <3>2. \A step : Askable(step)' = Askable(step)
      BY <2>1, SameQuestions
    <3>3. HistoryOK'
      <4>1. CASE selAt = "start"
        <5>1. history' = <<>> /\ DOMAIN <<>> = {}
          BY <2>1, <3>1, <4>1 DEF HistoryOK
        <5> QED BY <2>1, <4>1, <5>1 DEF HistoryOK
      <4>2. CASE selAt # "start"
        BY <2>1, <3>1, <3>2, <4>2, HistoryKept DEF ChoiceTypes
      <4> QED BY <4>1, <4>2
    <3>4. FixedOK'
      BY <2>1, <3>1 DEF FixedOK, Choice!Fixed
    <3>5. ChoiceOK'
      <4>1. all' <=> mode' = "all"
        BY <2>1, <3>1, SameAll
      <4>2. refresh' /\ ~Choice!Fixed("refresh") => destination' = "old"
        BY <2>1, <3>1, SameRefresh
      <4>3. Choice!Docs' = Choice!Docs /\ Choice!Gone(Choice!Docs)' = Choice!Gone(Choice!Docs) /\ (Settled' <=> Settled)
            /\ \A option : Choice!Fixed(option)' = Choice!Fixed(option)
        BY <2>1 DEF Choice!Docs, Choice!Gone, Settled, Choice!Fixed
      <4> QED BY <2>1, <3>1, <4>1, <4>2, <4>3 DEF ChoiceOK
    <3>6. StartOK'
      BY <2>1, <3>1 DEF StartOK, Choice!Guided
    <3> QED BY <2>1, <2>2, <2>3, <3>1, <3>3, <3>4, <3>5, <3>6 DEF ChoiceInv
  <2>6. selAt \in {"start", "present", "prompt", "follow", "ended"}
    BY DEF ChoiceInv, ChoiceTypes, Choice!TypeOK
  <2> QED BY <2>4, <2>5, <2>6
<1> QED BY <1>1, <1>2

-----------------------------------------------------------------------------
(* The parts together.                                                     *)

\* A step of a plan is a step of the part taken, or leaves its variables alone.
LEMMA OnePart ==
  ASSUME [Next]_sumVars
  PROVE  /\ component' = component
         /\ component = "catalog" => [Catalog!Next]_catalogVars
         /\ component = "reads" => [Reads!Next]_readVars
         /\ component = "choice" => [Choice!Next]_selVars
BY DEF Next, Within, sumVars

\* A catalog that is returned has every listed guide once, in the publisher's order,
\* with its mapping or an error that warns, and its observer saw each of them, however
\* many goroutines read it and overtake each other (source/catalog.go).
THEOREM CatalogAlwaysComplete == FairSpec => []CatalogComplete
<1> DEFINE Held == component = "catalog" => CatalogInv
<1>1. CatalogSetting
  BY PlanningAssumption DEF PlanningAssumption, CatalogSetting
<1>2. Init => Held
  BY <1>1, CatalogStarts DEF Init
<1>3. Held /\ [Next]_sumVars => Held'
  <2>1. ASSUME CatalogInv, [Catalog!Next]_catalogVars PROVE CatalogInv'
    BY <1>1, <2>1, CatalogKeeps
  <2> QED BY <2>1, OnePart
<1>4. Held => CatalogComplete
  BY DEF CatalogComplete, CatalogInv
<1> QED BY <1>2, <1>3, <1>4, PTL DEF FairSpec

\* Inputs succeed only together, are recorded in the order of the jobs, and a failure
\* is reported as itself, for any number of jobs and goroutines and whichever of them
\* fails or is cancelled first (source/planning.go, readAll).
THEOREM ReadsAlwaysTruthful == FairSpec => []ReadsTruthful
<1> DEFINE Held == component = "reads" => ReadInv
<1>1. ReadSetting
  BY PlanningAssumption DEF PlanningAssumption, ReadSetting
<1>2. Init => Held
  BY <1>1, ReadsStart DEF Init
<1>3. Held /\ [Next]_sumVars => Held'
  <2>1. ASSUME ReadInv, [Reads!Next]_readVars PROVE ReadInv'
    BY <1>1, <2>1, ReadsKeep
  <2> QED BY <2>1, OnePart
<1>4. Held => ReadsTruthful
  BY DEF ReadsTruthful, ReadInv
<1> QED BY <1>2, <1>3, <1>4, PTL DEF FairSpec

\* However long the user wanders back and forth, and whatever the probes find meanwhile, what
\* is chosen at the end is mapped at the place finally chosen, is not known to be gone, is all
\* that is left when all was chosen, agrees with the command line and keeps no answer that
\* the final choice would not ask for (cli/selection.go).
THEOREM ChoiceAlwaysStands == FairSpec => []ChoiceStands
<1> DEFINE Held == component = "choice" => ChoiceInv
<1>1. ChoiceSetting
  BY ChoiceAssumption DEF ChoiceAssumption, ChoiceSetting
<1>2. Init => Held
  BY <1>1, ChoiceStarts DEF Init
<1>3. Held /\ [Next]_sumVars => Held'
  <2>1. ASSUME ChoiceInv, [Choice!Next]_selVars PROVE ChoiceInv'
    BY <1>1, <2>1, ChoiceKeeps
  <2> QED BY <2>1, OnePart
<1>4. Held => ChoiceStands
  BY DEF ChoiceStands, ChoiceInv, ChoiceTypes
<1> QED BY <1>2, <1>3, <1>4, PTL DEF FairSpec
=============================================================================
