--------------------------- MODULE CacheRootProofs ---------------------------
(***************************************************************************)
(* What holds of CacheRoot for every set of processes that open one cache, *)
(* whatever the path held before and whichever of them are cancelled, fail *)
(* or are killed: AdmissionSafe.                                           *)
(*                                                                         *)
(* What one process does never takes the directory, the marker or another  *)
(* process's part away (Wider), except for the removal of a directory that *)
(* the remover created and that is empty again: the parts and the marker   *)
(* it does not find say that nobody has come further than listing.         *)
(***************************************************************************)
EXTENDS CacheRoot, TLAPS

Roots == [present : BOOLEAN, mode : {"private", "open"}, marker : BOOLEAN, foreign : BOOLEAN,
          parts : SUBSET Openers]
OpenerStates == [at : Steps, admission : 1 .. Admissions, created : BOOLEAN,
                 fd : {"none", "live", "stale"}, previous : {"private", "open"},
                 cancelled : BOOLEAN, failure : {"none", "cancelled", "refused", "io", "lost"}]

RootOK(r) ==
  /\ ~r.present => r = Absent
  /\ r.foreign <=> origin = "foreign"
  /\ r.foreign => r = Foundation("foreign")
  /\ r.mode = "open" => origin \in {"open", "foreign"}

\* What process p in state o relies on while the directory is r.
Placed(o, p, r) ==
  /\ o.fd = "live" => r.present
  /\ o.at \in {"write", "rename", "unlink"} => o.fd = "live" /\ p \in r.parts
  /\ o.at \in {"sync", "in"} => o.fd = "live" /\ r.marker
  /\ o.at = "relook" => o.fd = "live" /\ (r.marker \/ r.foreign)
  /\ o.admission > 1 => r.marker
  /\ o.previous = "open" => origin = "open"
  /\ r.foreign => /\ o.at \in {"look", "open", "admit", "list", "relook", "remove", "failed", "dead"}
                  /\ o.at \in {"admit", "list", "relook"} => o.fd = "live"

\* What holds besides as long as nobody was cut short.
Calm == hit = {} /\ origin # "foreign"
AtEase(o, r) ==
  /\ ~o.cancelled /\ o.fd # "stale"
  /\ o.at \notin {"unlink", "restore", "remove", "failed", "dead"}
  /\ o.at \notin {"look", "make"} => r.present
  /\ o.at \notin {"look", "make", "open"} => o.fd = "live"
  /\ o.at \in {"create", "write", "rename", "sync"} => r.mode = "private"
Private(r) == r.marker => r.mode = "private"

Inv == /\ TypeOK
       /\ RootOK(root)
       /\ \A p \in Openers : Placed(opener[p], p, root)
       /\ Calm => Private(root) /\ \A p \in Openers : AtEase(opener[p], root)

-----------------------------------------------------------------------------
(* Steps of one process.                                                   *)

Wider(p, r) ==
  /\ root.present => r.present
  /\ root.marker => r.marker
  /\ r.foreign = root.foreign
  /\ \A q \in Openers \ {p} : q \in root.parts => q \in r.parts

LEMMA OneStep ==
  ASSUME NEW p \in Openers, NEW o \in OpenerStates, NEW r \in Roots, Inv,
         opener' = [opener EXCEPT ![p] = o], root' = r, UNCHANGED origin,
         hit' \subseteq Faults, hit \subseteq hit',
         Wider(p, r), RootOK(r), Placed(o, p, r),
         Calm' => Private(r) /\ AtEase(o, r) /\ (root.mode = "private" => r.mode = "private")
  PROVE  Inv'
<1>1. opener'[p] = o /\ \A q \in Openers \ {p} : opener'[q] = opener[q]
  BY DEF Inv, TypeOK
<1>2. TypeOK'
  BY DEF Inv, TypeOK, Roots, OpenerStates
<1>3. RootOK(root)'
  BY DEF RootOK, Foundation
<1>4. \A q \in Openers \ {p} : Placed(opener[q], q, root) => Placed(opener[q], q, r)
  BY DEF Wider, Placed
<1>5. \A q \in Openers : Placed(opener[q], q, root)'
  BY <1>1, <1>4 DEF Inv, Placed
<1>6. Calm' => Calm
  BY DEF Calm
<1>7. Calm' => \A q \in Openers \ {p} : AtEase(opener[q], r)
  BY <1>6 DEF Inv, AtEase, Wider
<1>8. Calm' => Private(root)' /\ \A q \in Openers : AtEase(opener[q], root)'
  BY <1>1, <1>7 DEF Private, AtEase
<1> QED BY <1>2, <1>3, <1>5, <1>8 DEF Inv

LEMMA Shape ==
  ASSUME NEW p \in Openers, Inv
  PROVE  /\ opener[p] \in OpenerStates /\ root \in Roots /\ hit \subseteq Faults
         /\ RootOK(root) /\ Placed(opener[p], p, root)
         /\ Calm => Private(root) /\ AtEase(opener[p], root)
BY DEF Inv, TypeOK, OpenerStates, Roots

\* The directory stays as it is.
LEMMA SameRoot ==
  ASSUME NEW p \in Openers, NEW o \in OpenerStates, Inv, opener' = [opener EXCEPT ![p] = o],
         UNCHANGED <<root, origin>>, hit' \subseteq Faults, hit \subseteq hit',
         Placed(o, p, root), Calm' => AtEase(o, root)
  PROVE  Inv'
<1>1. Calm' => Calm
  BY DEF Calm
<1>2. root \in Roots /\ RootOK(root) /\ (Calm => Private(root))
  BY Shape
<1>3. Wider(p, root)
  BY DEF Wider
<1> QED BY <1>1, <1>2, <1>3, OneStep

\* A process that gives up, or goes on, at another step.
LEMMA GoKeeps ==
  ASSUME NEW p \in Openers, NEW s \in Steps, NEW why \in {"none", "cancelled", "refused", "io", "lost"}, Inv,
         opener' = [opener EXCEPT ![p].at = s] \/ opener' = [opener EXCEPT ![p].at = s, ![p].failure = why],
         UNCHANGED <<root, origin>>, hit' \subseteq Faults, hit \subseteq hit',
         s \notin {"sync", "in"},
         s \in {"write", "rename", "unlink"} => Live(p) /\ p \in root.parts,
         s = "relook" => Live(p) /\ (root.marker \/ root.foreign),
         root.foreign => /\ s \in {"look", "open", "admit", "list", "relook", "remove", "failed", "dead"}
                         /\ s \in {"admit", "list", "relook"} => Live(p),
         Calm' => /\ s \notin {"look", "make", "unlink", "restore", "remove", "failed", "dead"}
                  /\ root.present
                  /\ s # "open" => Live(p)
                  /\ s \in {"create", "write", "rename"} => root.mode = "private"
  PROVE  Inv'
<1>1. opener[p] \in OpenerStates /\ Placed(opener[p], p, root) /\ (Calm => AtEase(opener[p], root))
  BY Shape
<1>2. PICK o \in OpenerStates :
         /\ opener' = [opener EXCEPT ![p] = o] /\ o.at = s
         /\ o.fd = opener[p].fd /\ o.admission = opener[p].admission /\ o.previous = opener[p].previous
         /\ o.cancelled = opener[p].cancelled
  <2>1. CASE opener' = [opener EXCEPT ![p].at = s]
    <3> DEFINE o == [opener[p] EXCEPT !.at = s]
    <3>1. o \in OpenerStates
      BY <1>1 DEF OpenerStates
    <3> QED BY <1>1, <2>1, <3>1 DEF OpenerStates
  <2>2. CASE opener' = [opener EXCEPT ![p].at = s, ![p].failure = why]
    <3> DEFINE o == [opener[p] EXCEPT !.at = s, !.failure = why]
    <3>1. /\ o \in OpenerStates /\ o.at = s /\ o.fd = opener[p].fd /\ o.admission = opener[p].admission
          /\ o.previous = opener[p].previous /\ o.cancelled = opener[p].cancelled
      BY <1>1 DEF OpenerStates
    <3>2. opener' = [opener EXCEPT ![p] = o]
      BY <2>2
    <3> HIDE DEF o
    <3> QED BY <3>1, <3>2
  <2> QED BY <2>1, <2>2
<1>3. Calm' => Calm
  BY DEF Calm
<1>4. Placed(o, p, root)
  BY <1>1, <1>2 DEF Placed, Live
<1>5. Calm' => AtEase(o, root)
  BY <1>1, <1>2, <1>3 DEF AtEase, Live
<1> QED BY <1>2, <1>4, <1>5, SameRoot

\* A directory with a marker or a part is there, and is not a foreign one.
LEMMA Contents ==
  ASSUME Inv
  PROVE  /\ root.marker \/ root.foreign \/ root.parts # {} => root.present
         /\ root.foreign => ~root.marker /\ root.parts = {} /\ root.present
BY DEF Inv, RootOK, Absent, Foundation, Directory

LEMMA LookKeeps ==
  ASSUME NEW p \in Openers, Inv, Look(p)
  PROVE  Inv'
<1>1. opener[p].at = "look" /\ UNCHANGED <<root, origin, hit>> /\ hit \subseteq Faults
  BY Shape DEF Look, At
<1>2. CASE opener[p].cancelled /\ opener' = [opener EXCEPT ![p].at = "failed", ![p].failure = "cancelled"]
  <2>1. ~Calm'
    BY <1>1, <1>2, Shape DEF Calm, AtEase
  <2> QED BY <1>1, <1>2, <2>1, GoKeeps DEF Steps
<1>3. CASE root.present /\ opener' = [opener EXCEPT ![p].at = "open"]
  BY <1>1, <1>3, GoKeeps DEF Steps
<1>4. CASE ~root.present /\ opener' = [opener EXCEPT ![p].at = "make"]
  <2> DEFINE o == [opener[p] EXCEPT !.at = "make"]
  <2>1. /\ o \in OpenerStates /\ o.at = "make" /\ o.fd = opener[p].fd /\ o.admission = opener[p].admission
        /\ o.previous = opener[p].previous /\ o.cancelled = opener[p].cancelled
    BY Shape DEF OpenerStates, Steps
  <2>2. opener' = [opener EXCEPT ![p] = o]
    BY <1>4
  <2> HIDE DEF o
  <2>3. Placed(o, p, root)
    BY <1>4, <2>1, Shape, Contents DEF Placed
  <2>4. Calm' => AtEase(o, root)
    BY <1>1, <2>1, Shape DEF Calm, AtEase
  <2> QED BY <1>1, <2>1, <2>2, <2>3, <2>4, SameRoot
<1> QED BY <1>1, <1>2, <1>3, <1>4 DEF Look, Fails, Go

LEMMA MakeKeeps ==
  ASSUME NEW p \in Openers, Inv, Make(p)
  PROVE  Inv'
<1> DEFINE o == [opener[p] EXCEPT !.at = "open", !.created = TRUE]
           r == IF root.present THEN root ELSE Directory("private", FALSE, FALSE)
<1>1. opener[p].at = "make" /\ UNCHANGED <<origin, hit>> /\ hit \subseteq Faults /\ root' = r
  BY Shape DEF Make, At
<1>2. opener' = [opener EXCEPT ![p] = o]
  BY DEF Make
<1>3. /\ o \in OpenerStates /\ o.at = "open" /\ o.fd = opener[p].fd /\ o.admission = opener[p].admission
      /\ o.previous = opener[p].previous /\ o.cancelled = opener[p].cancelled
  BY Shape DEF OpenerStates, Steps
<1>4. /\ r \in Roots /\ RootOK(r) /\ Wider(p, r) /\ r.present /\ (r.marker => r = root)
      /\ (root.mode = "private" => r.mode = "private")
  <2>1. CASE root.present
    BY <2>1, Shape DEF Wider
  <2>2. CASE ~root.present
    <3>1. root = Absent /\ RootOK(root)
      BY <2>2, Shape DEF RootOK
    <3>2. r = [present |-> TRUE, mode |-> "private", marker |-> FALSE, foreign |-> FALSE, parts |-> {}]
      BY <2>2 DEF Directory
    <3> HIDE DEF r
    <3>3. r \in Roots /\ Wider(p, r)
      BY <3>1, <3>2 DEF Wider, Roots, Absent
    <3>4. RootOK(r)
      BY <3>1, <3>2 DEF RootOK, Absent
    <3> QED BY <3>1, <3>2, <3>3, <3>4
  <2> QED BY <2>1, <2>2
<1> HIDE DEF o, r
<1>5. Placed(o, p, r)
  BY <1>1, <1>3, <1>4, Shape DEF Placed, Wider
<1>6. Calm' => Private(r) /\ AtEase(o, r)
  BY <1>1, <1>3, <1>4, Shape DEF Calm, AtEase, Private
<1> QED BY <1>1, <1>2, <1>3, <1>4, <1>5, <1>6, OneStep

LEMMA OpenKeeps ==
  ASSUME NEW p \in Openers, Inv, Open(p)
  PROVE  Inv'
<1>1. opener[p].at = "open" /\ UNCHANGED <<root, origin, hit>> /\ hit \subseteq Faults
  BY Shape DEF Open, At
<1>2. CASE root.present /\ opener' = [opener EXCEPT ![p].at = "admit", ![p].fd = "live"]
  <2> DEFINE o == [opener[p] EXCEPT !.at = "admit", !.fd = "live"]
  <2>1. /\ o \in OpenerStates /\ o.at = "admit" /\ o.fd = "live" /\ o.admission = opener[p].admission
        /\ o.previous = opener[p].previous /\ o.cancelled = opener[p].cancelled
    BY Shape DEF OpenerStates, Steps
  <2>2. opener' = [opener EXCEPT ![p] = o]
    BY <1>2
  <2> HIDE DEF o
  <2>3. Placed(o, p, root)
    BY <1>2, <2>1, Shape DEF Placed
  <2>4. Calm' => AtEase(o, root)
    BY <1>1, <1>2, <2>1, Shape DEF Calm, AtEase
  <2> QED BY <1>1, <2>1, <2>2, <2>3, <2>4, SameRoot
<1>3. CASE ~root.present /\ opener' = [opener EXCEPT ![p].at = "failed", ![p].failure = "lost"]
  <2>1. ~Calm'
    BY <1>1, <1>3, Shape DEF Calm, AtEase
  <2> QED BY <1>1, <1>3, <2>1, GoKeeps DEF Steps
<1> QED BY <1>2, <1>3 DEF Open, Fails

LEMMA AdmittedKeeps ==
  ASSUME NEW p \in Openers, Inv, Admitted(p), Live(p), root.marker, UNCHANGED <<root, origin, hit>>,
         opener[p].at \in {"admit", "sync"}
  PROVE  Inv'
<1>1. hit \subseteq Faults /\ opener[p] \in OpenerStates /\ Placed(opener[p], p, root)
      /\ (Calm => AtEase(opener[p], root)) /\ root.present /\ ~root.foreign
  BY Shape, Contents
<1>2. CASE opener' = [opener EXCEPT ![p].at = "in"]
  <2> DEFINE o == [opener[p] EXCEPT !.at = "in"]
  <2>1. /\ o \in OpenerStates /\ o.at = "in" /\ o.fd = "live" /\ o.admission = opener[p].admission
        /\ o.previous = opener[p].previous /\ o.cancelled = opener[p].cancelled
    BY <1>1 DEF OpenerStates, Steps, Live
  <2>2. opener' = [opener EXCEPT ![p] = o]
    BY <1>2
  <2> HIDE DEF o
  <2>3. Placed(o, p, root)
    BY <1>1, <2>1 DEF Placed
  <2>4. Calm' => AtEase(o, root)
    BY <1>1, <2>1 DEF Calm, AtEase
  <2> QED BY <1>1, <2>1, <2>2, <2>3, <2>4, SameRoot
<1>3. CASE opener[p].admission # Admissions
  <2> DEFINE o == [NewOpener EXCEPT !.admission = opener[p].admission + 1, !.cancelled = opener[p].cancelled,
                     !.at = IF opener[p].admission + 1 = Admissions THEN "open" ELSE "look"]
  <2>1. opener[p].admission + 1 \in 1 .. Admissions
    BY <1>1, <1>3 DEF OpenerStates, Admissions
  <2>2. /\ o \in OpenerStates /\ o.at \in {"open", "look"} /\ o.fd = "none" /\ o.previous = "private"
        /\ o.cancelled = opener[p].cancelled
    BY <1>1, <2>1 DEF OpenerStates, Steps, NewOpener
  <2>3. opener' = [opener EXCEPT ![p] = o]
    BY <1>3 DEF Admitted
  <2> HIDE DEF o
  <2>4. Placed(o, p, root)
    BY <1>1, <2>2 DEF Placed
  <2>5. Calm' => AtEase(o, root)
    BY <1>1, <2>2 DEF Calm, AtEase
  <2> QED BY <1>1, <2>2, <2>3, <2>4, <2>5, SameRoot
<1> QED BY <1>2, <1>3 DEF Admitted

\* A process looks through its descriptor: a stale one shows an empty directory.
LEMMA SeenThrough ==
  ASSUME NEW p \in Openers, Inv
  PROVE  /\ Live(p) => Seen(p) = root
         /\ Seen(p).marker \/ Seen(p).foreign \/ Seen(p).parts # {} \/ Seen(p).mode = "open" => Live(p)
BY DEF Seen, Directory

LEMMA AdmitKeeps ==
  ASSUME NEW p \in Openers, Inv, Admit(p)
  PROVE  Inv'
<1>1. opener[p].at = "admit" /\ UNCHANGED <<root, origin, hit>> /\ hit \subseteq Faults
  BY Shape DEF Admit, At
<1>2. CASE opener' = [opener EXCEPT ![p].at = "remove", ![p].failure = "cancelled"] /\ opener[p].cancelled
  <2>1. ~Calm'
    BY <1>1, <1>2, Shape DEF Calm, AtEase
  <2> QED BY <1>1, <1>2, <2>1, GoKeeps DEF Steps
<1>3. CASE Seen(p).marker /\ Admitted(p)
  BY <1>1, <1>3, SeenThrough, AdmittedKeeps
<1>4. CASE /\ Seen(p).marker /\ Seen(p).mode # "private"
           /\ opener' = [opener EXCEPT ![p].at = "remove", ![p].failure = "refused"]
  <2>1. ~Calm'
    BY <1>1, <1>4, Shape, SeenThrough DEF Calm, Private
  <2> QED BY <1>1, <1>4, <2>1, GoKeeps DEF Steps
<1>5. CASE opener' = [opener EXCEPT ![p].at = "list"]
  <2>1. root.foreign => Live(p)
    BY <1>1, Shape DEF Placed, Live
  <2>2. Calm' => root.present /\ Live(p)
    BY <1>1, Shape DEF Calm, AtEase, Live
  <2> QED BY <1>1, <1>5, <2>1, <2>2, GoKeeps DEF Steps
<1> QED BY <1>2, <1>3, <1>4, <1>5 DEF Admit, Undo, Go

LEMMA ListKeeps ==
  ASSUME NEW p \in Openers, Inv, List(p)
  PROVE  Inv'
<1>1. opener[p].at = "list" /\ UNCHANGED <<root, origin, hit>> /\ hit \subseteq Faults
  BY Shape DEF List, At
<1>2. Calm' => root.present /\ Live(p)
  BY <1>1, Shape DEF Calm, AtEase, Live
<1>3. root.foreign => Live(p)
  BY <1>1, Shape DEF Placed, Live
<1>4. CASE Empty(p) /\ opener' = [opener EXCEPT ![p].at = "stat"]
  <2>1. ~root.foreign
    BY <1>3, <1>4, SeenThrough DEF Empty
  <2> QED BY <1>1, <1>2, <1>4, <2>1, GoKeeps DEF Steps
<1>5. CASE opener' = [opener EXCEPT ![p].at = "admit"]
  BY <1>1, <1>2, <1>3, <1>5, GoKeeps DEF Steps
<1>6. CASE ~Empty(p) /\ ~OnlyParts(p) /\ opener' = [opener EXCEPT ![p].at = "relook"]
  <2>1. Live(p) /\ (root.marker \/ root.foreign)
    BY <1>6, SeenThrough DEF Empty, OnlyParts
  <2> QED BY <1>1, <1>2, <1>6, <2>1, GoKeeps DEF Steps
<1>7. /\ Empty(p) => Go(p, "stat")
      /\ OnlyParts(p) => Go(p, "admit")
      /\ ~Empty(p) /\ ~OnlyParts(p) => Go(p, "relook")
  BY DEF List, Empty, OnlyParts
<1> QED BY <1>4, <1>5, <1>6, <1>7 DEF Go

LEMMA RelookKeeps ==
  ASSUME NEW p \in Openers, Inv, Relook(p)
  PROVE  Inv'
<1>1. opener[p].at = "relook" /\ UNCHANGED <<root, origin, hit>> /\ hit \subseteq Faults
  BY Shape DEF Relook, At
<1>2. Live(p) /\ (root.marker \/ root.foreign) /\ root.present
  BY <1>1, Shape, Contents DEF Placed, Live
<1>3. CASE opener' = [opener EXCEPT ![p].at = "admit"]
  BY <1>1, <1>2, <1>3, GoKeeps DEF Steps
<1>4. CASE ~Seen(p).marker /\ opener' = [opener EXCEPT ![p].at = "remove", ![p].failure = "refused"]
  <2>1. ~Calm'
    BY <1>1, <1>2, <1>4, SeenThrough, Shape DEF Calm, RootOK
  <2> QED BY <1>1, <1>4, <2>1, GoKeeps DEF Steps
<1> QED BY <1>3, <1>4 DEF Relook, LooksOnceMore, Go, Undo

\* A step of the initialisation is not taken in a foreign directory.
LEMMA NotForeign ==
  ASSUME NEW p \in Openers, Inv, opener[p].at \in {"make", "stat", "chmod", "create", "write", "rename", "sync",
                                                   "unlink", "restore", "in"}
  PROVE  ~root.foreign
BY Shape DEF Placed

LEMMA StatKeeps ==
  ASSUME NEW p \in Openers, Inv, Stat(p)
  PROVE  Inv'
<1> DEFINE o == [opener[p] EXCEPT !.at = "chmod", !.previous = Seen(p).mode]
<1>1. opener[p].at = "stat" /\ UNCHANGED <<root, origin, hit>> /\ hit \subseteq Faults
  BY Shape DEF Stat, At
<1>2. Seen(p).mode \in {"private", "open"} /\ (Seen(p).mode = "open" => origin = "open")
  BY <1>1, Shape, SeenThrough, NotForeign DEF Seen, Directory, Roots, RootOK
<1>3. /\ o \in OpenerStates /\ o.at = "chmod" /\ o.fd = opener[p].fd /\ o.admission = opener[p].admission
      /\ o.previous = Seen(p).mode /\ o.cancelled = opener[p].cancelled
  BY <1>2, Shape DEF OpenerStates, Steps
<1>4. opener' = [opener EXCEPT ![p] = o]
  BY DEF Stat
<1> HIDE DEF o
<1>5. Placed(o, p, root)
  BY <1>1, <1>2, <1>3, Shape, NotForeign DEF Placed
<1>6. Calm' => AtEase(o, root)
  BY <1>1, <1>3, Shape DEF Calm, AtEase
<1> QED BY <1>1, <1>3, <1>4, <1>5, <1>6, SameRoot

\* A change of the directory that leaves its entries alone.
LEMMA SetModeKeeps ==
  ASSUME NEW p \in Openers, NEW m \in {"private", "open"}, NEW s \in {"create", "remove"}, Inv,
         SetMode(p, m), opener' = [opener EXCEPT ![p].at = s], UNCHANGED <<origin, hit>>,
         opener[p].at \in {"chmod", "restore"},
         m = "open" => origin = "open" /\ ~Calm,
         s = "create" => m = "private", s = "remove" => ~Calm
  PROVE  Inv'
<1>1. hit \subseteq Faults /\ opener[p] \in OpenerStates /\ Placed(opener[p], p, root)
      /\ root \in Roots /\ RootOK(root) /\ (Calm => Private(root) /\ AtEase(opener[p], root)) /\ ~root.foreign
  BY Shape, NotForeign
<1> DEFINE o == [opener[p] EXCEPT !.at = s]
<1>2. /\ o \in OpenerStates /\ o.at = s /\ o.fd = opener[p].fd /\ o.admission = opener[p].admission
      /\ o.previous = opener[p].previous /\ o.cancelled = opener[p].cancelled
  BY <1>1 DEF OpenerStates, Steps
<1>3. opener' = [opener EXCEPT ![p] = o]
  OBVIOUS
<1> HIDE DEF o
<1>4. PICK r \in Roots : /\ root' = r /\ Wider(p, r) /\ RootOK(r) /\ r.present = root.present
                         /\ r.marker = root.marker /\ r.foreign = root.foreign
                         /\ (Live(p) => r.mode = m) /\ (~Live(p) => r = root)
  <2>1. CASE Live(p)
    <3> DEFINE r == [root EXCEPT !.mode = m]
    <3>1. /\ r \in Roots /\ r.present = root.present /\ r.marker = root.marker /\ r.foreign = root.foreign
          /\ r.parts = root.parts /\ r.mode = m
      BY <1>1 DEF Roots
    <3>2. root' = r
      BY <2>1 DEF SetMode
    <3>3. root.present
      BY <1>1, <2>1 DEF Placed, Live
    <3> HIDE DEF r
    <3>4. RootOK(r)
      BY <1>1, <3>1, <3>3 DEF RootOK
    <3>5. Wider(p, r)
      BY <3>1 DEF Wider
    <3> QED BY <2>1, <3>1, <3>2, <3>4, <3>5
  <2>2. CASE ~Live(p)
    <3>1. Wider(p, root)
      BY DEF Wider
    <3> QED BY <1>1, <2>2, <3>1 DEF SetMode
  <2> QED BY <2>1, <2>2
<1>5. Placed(o, p, r)
  BY <1>1, <1>2, <1>4 DEF Placed
<1>6. Calm' => Calm /\ s = "create" /\ m = "private"
  BY DEF Calm
<1>7. Calm' => Live(p) /\ r.mode = "private"
  BY <1>1, <1>4, <1>6 DEF AtEase, Live
<1>8. Calm' => Private(r) /\ AtEase(o, r)
  BY <1>1, <1>2, <1>4, <1>6, <1>7 DEF AtEase, Private
<1> QED BY <1>1, <1>2, <1>3, <1>4, <1>5, <1>7, <1>8, OneStep

LEMMA ChmodKeeps ==
  ASSUME NEW p \in Openers, Inv, Chmod(p)
  PROVE  Inv'
BY SetModeKeeps DEF Chmod, Go, At

LEMMA RestoreKeeps ==
  ASSUME NEW p \in Openers, Inv, Restore(p)
  PROVE  Inv'
<1>1. /\ opener[p].at = "restore" /\ UNCHANGED <<origin, hit>> /\ hit \subseteq Faults
      /\ opener' = [opener EXCEPT ![p].at = "remove"]
  BY Shape DEF Restore, At, Go
<1>2. ~Calm
  BY <1>1, Shape DEF AtEase
<1>3. CASE opener[p].previous # "private"
  <2>1. opener[p].previous = "open" /\ origin = "open"
    BY <1>3, Shape DEF OpenerStates, Placed
  <2>2. SetMode(p, "open")
    BY <1>3, <2>1 DEF Restore
  <2> QED BY <1>1, <1>2, <2>1, <2>2, SetModeKeeps
<1>4. CASE UNCHANGED root
  <2>1. ~Calm' /\ ~root.foreign
    BY <1>1, <1>2, NotForeign DEF Calm
  <2> QED BY <1>1, <1>4, <2>1, GoKeeps DEF Steps
<1> QED BY <1>3, <1>4 DEF Restore

\* A change of the process's own part, and the marker that comes of it.
LEMMA PartKeeps ==
  ASSUME NEW p \in Openers, NEW s \in {"write", "sync", "restore"}, NEW r \in Roots, Inv,
         opener[p].at \in {"create", "rename", "unlink"}, Live(p),
         opener' = [opener EXCEPT ![p].at = s], root' = r, UNCHANGED <<origin, hit>>,
         r.present = root.present, r.mode = root.mode, r.foreign = root.foreign, root.marker => r.marker,
         \A q \in Openers \ {p} : q \in root.parts => q \in r.parts,
         s = "write" => p \in r.parts, s = "sync" => r.marker, s = "restore" => opener[p].at = "unlink",
         s = "restore" => r.marker = root.marker
  PROVE  Inv'
<1>1. hit \subseteq Faults /\ opener[p] \in OpenerStates /\ Placed(opener[p], p, root)
      /\ RootOK(root) /\ (Calm => Private(root) /\ AtEase(opener[p], root)) /\ ~root.foreign
  BY Shape, NotForeign
<1> DEFINE o == [opener[p] EXCEPT !.at = s]
<1>2. /\ o \in OpenerStates /\ o.at = s /\ o.fd = opener[p].fd /\ o.admission = opener[p].admission
      /\ o.previous = opener[p].previous /\ o.cancelled = opener[p].cancelled
  BY <1>1 DEF OpenerStates, Steps
<1>3. opener' = [opener EXCEPT ![p] = o]
  OBVIOUS
<1> HIDE DEF o
<1>4. root.present
  BY <1>1 DEF Placed, Live
<1>5. Wider(p, r) /\ RootOK(r)
  BY <1>1, <1>4 DEF Wider, RootOK
<1>6. Placed(o, p, r)
  BY <1>1, <1>2, <1>4 DEF Placed, Live
<1>7. Calm' => Calm /\ s # "restore"
  BY <1>1 DEF Calm, AtEase
<1>8. Calm' => Private(r) /\ AtEase(o, r) /\ (root.mode = "private" => r.mode = "private")
  BY <1>1, <1>2, <1>4, <1>7 DEF AtEase, Private
<1> QED BY <1>1, <1>2, <1>3, <1>5, <1>6, <1>8, OneStep

LEMMA CreateKeeps ==
  ASSUME NEW p \in Openers, Inv, Create(p)
  PROVE  Inv'
<1>1. opener[p].at = "create" /\ UNCHANGED <<origin, hit>> /\ hit \subseteq Faults /\ ~root.foreign /\ root \in Roots
  BY Shape, NotForeign DEF Create, At
<1>2. CASE /\ (opener[p].cancelled \/ ~Live(p)) /\ UNCHANGED root
           /\ \E why \in {"cancelled", "lost"} : opener' = [opener EXCEPT ![p].at = "restore", ![p].failure = why]
  <2>1. ~Calm' /\ UNCHANGED root
    BY <1>1, <1>2, Shape DEF Calm, AtEase, Live, Create
  <2> QED BY <1>1, <1>2, <2>1, GoKeeps DEF Steps
<1>3. CASE Live(p) /\ root' = [root EXCEPT !.parts = @ \cup {p}] /\ opener' = [opener EXCEPT ![p].at = "write"]
  <2> DEFINE r == [root EXCEPT !.parts = @ \cup {p}]
  <2>1. /\ r \in Roots /\ r.present = root.present /\ r.mode = root.mode /\ r.foreign = root.foreign
        /\ r.marker = root.marker /\ r.parts = root.parts \cup {p}
    BY <1>1 DEF Roots
  <2>2. root' = r
    BY <1>3
  <2> HIDE DEF r
  <2> QED BY <1>1, <1>3, <2>1, <2>2, PartKeeps
<1> QED BY <1>2, <1>3 DEF Create, Undo, Go

LEMMA WriteKeeps ==
  ASSUME NEW p \in Openers, Inv, Write(p)
  PROVE  Inv'
<1>1. /\ opener[p].at = "write" /\ UNCHANGED <<root, origin, hit>> /\ hit \subseteq Faults /\ ~root.foreign
      /\ Live(p) /\ p \in root.parts
  BY Shape, NotForeign DEF Write, At, Placed, Live
<1>2. CASE opener[p].cancelled /\ opener' = [opener EXCEPT ![p].at = "unlink", ![p].failure = "cancelled"]
  <2>1. ~Calm'
    BY <1>1, <1>2, Shape DEF Calm, AtEase
  <2> QED BY <1>1, <1>2, <2>1, GoKeeps DEF Steps
<1>3. CASE opener' = [opener EXCEPT ![p].at = "rename"]
  <2>1. Calm' => root.present /\ root.mode = "private"
    BY <1>1, Shape DEF Calm, AtEase
  <2> QED BY <1>1, <1>3, <2>1, GoKeeps DEF Steps
<1> QED BY <1>2, <1>3 DEF Write, Undo, Go

LEMMA RenameKeeps ==
  ASSUME NEW p \in Openers, Inv, Rename(p)
  PROVE  Inv'
<1>1. /\ opener[p].at = "rename" /\ UNCHANGED <<origin, hit>> /\ hit \subseteq Faults /\ ~root.foreign
      /\ Live(p) /\ p \in root.parts /\ root \in Roots
  BY Shape, NotForeign DEF Rename, At, Placed, Live
<1>2. CASE opener[p].cancelled /\ opener' = [opener EXCEPT ![p].at = "unlink", ![p].failure = "cancelled"]
           /\ UNCHANGED root
  <2>1. ~Calm'
    BY <1>1, <1>2, Shape DEF Calm, AtEase
  <2> QED BY <1>1, <1>2, <2>1, GoKeeps DEF Steps
<1>3. CASE Installs(p)
  <2> DEFINE r == [root EXCEPT !.marker = TRUE, !.parts = @ \ {p}]
  <2>1. /\ r \in Roots /\ r.present = root.present /\ r.mode = root.mode /\ r.foreign = root.foreign
        /\ r.marker /\ r.parts = root.parts \ {p}
    BY <1>1 DEF Roots
  <2>2. root' = r /\ opener' = [opener EXCEPT ![p].at = "sync"]
    BY <1>3 DEF Installs, Go
  <2> HIDE DEF r
  <2> QED BY <1>1, <2>1, <2>2, PartKeeps
<1> QED BY <1>2, <1>3 DEF Rename, Undo

LEMMA SyncKeeps ==
  ASSUME NEW p \in Openers, Inv, Sync(p)
  PROVE  Inv'
<1>1. opener[p].at = "sync" /\ Live(p) /\ root.marker
  BY Shape DEF Sync, At, Placed, Live
<1> QED BY <1>1, AdmittedKeeps DEF Sync

LEMMA UnlinkKeeps ==
  ASSUME NEW p \in Openers, Inv, Unlink(p)
  PROVE  Inv'
<1>1. /\ opener[p].at = "unlink" /\ UNCHANGED <<origin, hit>> /\ Live(p) /\ root \in Roots
      /\ opener' = [opener EXCEPT ![p].at = "restore"] /\ root' = [root EXCEPT !.parts = @ \ {p}]
  BY Shape DEF Unlink, At, Placed, Live, Go, DropsPart
<1> DEFINE r == [root EXCEPT !.parts = @ \ {p}]
<1>2. /\ r \in Roots /\ r.present = root.present /\ r.mode = root.mode /\ r.foreign = root.foreign
      /\ r.marker = root.marker /\ r.parts = root.parts \ {p}
  BY <1>1 DEF Roots
<1>3. root' = r
  BY <1>1
<1> HIDE DEF r
<1> QED BY <1>1, <1>2, <1>3, PartKeeps

\* The removal finds neither marker nor part: nobody is past listing through it.
LEMMA RemoveKeeps ==
  ASSUME NEW p \in Openers, Inv, Remove(p)
  PROVE  Inv'
<1>1. /\ opener[p].at = "remove" /\ UNCHANGED <<origin, hit>> /\ hit \subseteq Faults
      /\ opener[p] \in OpenerStates /\ Placed(opener[p], p, root) /\ RootOK(root)
  BY Shape DEF Remove, At
<1>2. ~Calm /\ ~Calm'
  BY <1>1, Shape DEF Calm, AtEase
<1>3. CASE UNCHANGED root /\ opener' = [opener EXCEPT ![p].at = "failed"]
  BY <1>1, <1>2, <1>3, GoKeeps DEF Steps
<1>4. CASE /\ Removable /\ root' = Absent
           /\ opener' = Leaves(p, [q \in Openers |->
                IF opener[q].fd = "live" THEN [opener[q] EXCEPT !.fd = "stale"] ELSE opener[q]])
  <2> DEFINE cut(q) == IF opener[q].fd = "live" THEN [opener[q] EXCEPT !.fd = "stale"] ELSE opener[q]
  <2>1. ASSUME NEW q \in Openers
        PROVE  /\ cut(q) \in OpenerStates /\ cut(q).fd # "live" /\ cut(q).at = opener[q].at
               /\ cut(q).admission = opener[q].admission /\ cut(q).previous = opener[q].previous
    BY Shape DEF OpenerStates
  <2>2. opener' = [[q \in Openers |-> cut(q)] EXCEPT ![p].at = "failed"]
    BY <1>4 DEF Leaves
  <2> HIDE DEF cut
  <2>3. /\ opener' \in [Openers -> OpenerStates]
        /\ \A q \in Openers : /\ opener'[q].fd # "live" /\ opener'[q].admission = opener[q].admission
                              /\ opener'[q].previous = opener[q].previous
                              /\ opener'[q].at \in {opener[q].at, "failed"}
    BY <2>1, <2>2 DEF OpenerStates, Steps
  <2>4. root.present /\ root.parts = {} /\ ~root.marker /\ ~root.foreign /\ Absent \in Roots /\ RootOK(Absent)
    BY <1>1, <1>4 DEF Removable, Absent, Roots, RootOK
  <2>5. \A q \in Openers : Placed(opener'[q], q, Absent)
    BY <2>3, <2>4, Shape DEF Placed, Absent, OpenerStates
  <2>6. TypeOK'
    BY <1>1, <1>4, <2>3, <2>4 DEF Inv, TypeOK, Roots, OpenerStates
  <2>7. RootOK(root)' /\ \A q \in Openers : Placed(opener[q], q, root)'
    BY <1>1, <1>4, <2>4, <2>5 DEF RootOK, Placed, Foundation
  <2> QED BY <1>2, <2>6, <2>7 DEF Inv
<1> QED BY <1>3, <1>4 DEF Remove, Leaves

LEMMA FaultKeeps ==
  ASSUME NEW p \in Openers, Inv, FailIO(p) \/ Cancel(p) \/ Kill(p)
  PROVE  Inv'
<1>1. UNCHANGED <<root, origin>> /\ hit' \subseteq Faults /\ hit \subseteq hit' /\ ~Calm'
  BY Shape DEF FailIO, Cancel, Kill, Calm
<1>2. CASE FailIO(p)
  <2>1. At(p) \in {"write", "rename"} => Live(p) /\ p \in root.parts
    BY Shape DEF Placed, Live, At
  <2>2. ~root.foreign
    BY <1>2, NotForeign DEF FailIO, At
  <2>3. CASE At(p) = "sync"
    <3>1. opener' = [opener EXCEPT ![p].at = "restore", ![p].failure = "io"]
      BY <1>2, <2>3 DEF FailIO, Undo
    <3> QED BY <1>1, <2>2, <3>1, GoKeeps DEF Steps
  <2>4. CASE At(p) \in {"write", "rename"}
    <3>1. opener' = [opener EXCEPT ![p].at = "unlink", ![p].failure = "io"]
      BY <1>2, <2>4 DEF FailIO, Undo
    <3> QED BY <1>1, <2>1, <2>2, <2>4, <3>1, GoKeeps DEF Steps
  <2> QED BY <1>2, <2>3, <2>4 DEF FailIO
<1>3. CASE Cancel(p)
  <2> DEFINE o == [opener[p] EXCEPT !.cancelled = TRUE]
  <2>1. /\ o \in OpenerStates /\ o.at = opener[p].at /\ o.fd = opener[p].fd /\ o.admission = opener[p].admission
        /\ o.previous = opener[p].previous
    BY Shape DEF OpenerStates
  <2>2. opener' = [opener EXCEPT ![p] = o]
    BY <1>3 DEF Cancel
  <2> HIDE DEF o
  <2>3. Placed(o, p, root)
    BY <2>1, Shape DEF Placed
  <2> QED BY <1>1, <2>1, <2>2, <2>3, SameRoot
<1>4. CASE Kill(p)
  BY <1>1, <1>4, GoKeeps DEF Kill, Go, Steps
<1> QED BY <1>2, <1>3, <1>4

-----------------------------------------------------------------------------
(* The theorems.                                                           *)

\* What a cache path may hold.
Kinds == {"absent", "private", "open", "foreign", "native"}

LEMMA FoundationShape ==
  ASSUME NEW k \in Kinds
  PROVE  /\ Foundation(k) \in Roots
         /\ Foundation(k).foreign <=> k = "foreign"
         /\ Foundation(k).mode = "open" => k \in {"open", "foreign"}
         /\ Foundation(k).marker => Foundation(k).mode = "private"
         /\ ~Foundation(k).present => Foundation(k) = Absent
<1>1. CASE k = "absent"
  BY <1>1 DEF Foundation, Absent, Roots
<1>2. CASE k = "private"
  BY <1>2 DEF Foundation, Directory, Roots
<1>3. CASE k = "open"
  BY <1>3 DEF Foundation, Directory, Roots
<1>4. CASE k = "foreign"
  BY <1>4 DEF Foundation, Directory, Roots
<1>5. CASE k = "native"
  BY <1>5 DEF Foundation, Directory, Roots
<1> QED BY <1>1, <1>2, <1>3, <1>4, <1>5 DEF Kinds

LEMMA InitInv ==
  ASSUME Foundations \subseteq Kinds
  PROVE  Init => Inv
<1> SUFFICES ASSUME Init PROVE Inv
  OBVIOUS
<1>1. root = Foundation(origin) /\ origin \in Foundations /\ origin \in Kinds /\ hit = {}
  BY DEF Init
<1>2. NewOpener \in OpenerStates
  BY DEF NewOpener, OpenerStates, Steps, Admissions
<1>3. root \in Roots /\ RootOK(root) /\ Private(root)
  BY <1>1, FoundationShape DEF RootOK, Private
<1>4. ASSUME NEW p \in Openers PROVE Placed(opener[p], p, root) /\ AtEase(opener[p], root)
  <2>1. /\ opener[p].at = "look" /\ opener[p].admission = 1 /\ opener[p].fd = "none"
        /\ opener[p].previous = "private" /\ opener[p].cancelled = FALSE
    BY DEF Init, NewOpener
  <2> QED BY <2>1 DEF Placed, AtEase
<1>5. TypeOK
  BY <1>1, <1>2, <1>3 DEF Init, TypeOK, Roots, OpenerStates
<1> QED BY <1>3, <1>4, <1>5 DEF Inv

LEMMA InvStep == Inv /\ [Next]_rootVars => Inv'
<1> SUFFICES ASSUME Inv, [Next]_rootVars PROVE Inv'
  OBVIOUS
<1>1. CASE UNCHANGED rootVars
  BY <1>1 DEF rootVars, Inv, TypeOK, RootOK, Placed, AtEase, Calm, Private, Foundation
<1>2. ASSUME NEW p \in Openers, OpenerStep(p) \/ FailIO(p) \/ Cancel(p) \/ Kill(p)
      PROVE  Inv'
  BY <1>2, LookKeeps, MakeKeeps, OpenKeeps, AdmitKeeps, ListKeeps, RelookKeeps, StatKeeps, ChmodKeeps,
     CreateKeeps, WriteKeeps, RenameKeeps, SyncKeeps, UnlinkKeeps, RestoreKeeps, RemoveKeeps, FaultKeeps
     DEF OpenerStep
<1> QED BY <1>1, <1>2 DEF Next

\* The invariant has what the admission promises.
LEMMA InvIsSafe == ASSUME Inv PROVE AdmissionSafe
<1>1. InHoldsTheRoot
  <2> SUFFICES ASSUME NEW p \in Openers, At(p) = "in"
               PROVE  Live(p) /\ root.marker /\ ~root.foreign /\ (origin # "open" => root.mode = "private")
    BY DEF InHoldsTheRoot
  <2>1. Live(p) /\ root.marker
    BY Shape DEF Placed, At, Live
  <2>2. ~root.foreign
    BY <2>1, Contents
  <2> QED BY <2>1, <2>2, Shape DEF RootOK, Roots
<1>2. ForeignPreserved
  BY DEF Inv, RootOK, ForeignPreserved
<1>3. TogetherAllEnter
  BY DEF Inv, Calm, AtEase, TogetherAllEnter, At
<1> QED BY <1>1, <1>2, <1>3 DEF AdmissionSafe

\* However many processes open one cache at once, and whichever of them are
\* cancelled, fail or are killed: a process that is in works in the directory
\* at the path under its marker, nothing foreign is admitted or touched, and
\* when none is cut short all enter (cache/root.go).
THEOREM AdmissionAlwaysSafe ==
  ASSUME Foundations \subseteq Kinds
  PROVE  Spec => []AdmissionSafe
BY InitInv, InvStep, InvIsSafe, PTL DEF Spec
=============================================================================
