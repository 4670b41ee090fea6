------------------------- MODULE TopicPrefetchProofs -------------------------
(***************************************************************************)
(* What holds of TopicPrefetch for any number of workers and topics:       *)
(* PrefetchSound, whatever the order of the answers, with failures and     *)
(* cancellation at any moment.                                             *)
(*                                                                         *)
(* A topic is downloaded once: until then nothing is known of it           *)
(* (Unserved), and what waits in results and kept says what its download   *)
(* ended with (Reported).  The window is a matter of counting: what is     *)
(* outstanding is at most what was handed over and not yet taken (Ahead).  *)
(***************************************************************************)
EXTENDS TopicPrefetch, FiniteSetTheorems, TLAPS

Setting == IsFiniteSet(Workers) /\ Topics \in Nat

Outcomes == {"none", "ok", "missing", "failed"}

\* A topic that is queued, downloaded or not yet handed over has no result, and
\* no two workers will have it.
Unserved ==
  /\ \A i \in 1 .. Len(jobs) : jobs[i] < next /\ served[jobs[i]] = "none"
  /\ \A i, j \in 1 .. Len(jobs) : i # j => jobs[i] # jobs[j]
  /\ \A w \in Downloading : worker[w] < next /\ served[worker[w]] = "none"
  /\ \A v, w \in Downloading : v # w => worker[v] # worker[w]
  /\ \A w \in Downloading : \A i \in 1 .. Len(jobs) : jobs[i] # worker[w]
  /\ \A t \in next .. Topics : served[t] = "none"

Reported ==
  /\ \A i \in 1 .. Len(results) : results[i].is = served[results[i].topic]
  /\ \A r \in kept : r.is = served[r.topic]

\* What is handed over and not yet taken, and how far that is from the archive.
Outstanding == Len(jobs) + Cardinality(Downloading) + Len(results) + Cardinality(kept)

Ahead(o, n, t, at) ==
  /\ o <= Window
  /\ at \in {"push", "loop", "wait"} => o <= n - t /\ n - t <= Window
  /\ at = "advance" => o <= n - 1 - t /\ n - t <= Window
  /\ at = "read" => o <= n - 1 - t /\ n - 1 - t <= Window

Counted == IsFiniteSet(kept) /\ Ahead(Outstanding, next, topic, main)

\* How far the archive is.
Passed ==
  /\ main = "push" => topic = 1
  /\ main \in {"wait", "advance", "read"} => topic <= Topics
  /\ \A t \in 1 .. (topic - 1) : outcome[t] \in {"ok", "missing"}
  /\ main \in {"advance", "read"} => outcome[topic] \in {"ok", "missing"}
  /\ main \notin {"close", "done"} => err = "nil"
  /\ main \in {"close", "done"} /\ err = "nil" => topic = Topics + 1

Inv == TypeOK /\ Unserved /\ Reported /\ OwnResult /\ Counted /\ Passed

-----------------------------------------------------------------------------
(* Counting.                                                               *)

LEMMA Counts ==
  ASSUME Setting, TypeOK, IsFiniteSet(kept)
  PROVE  /\ Limit \in Nat /\ Window \in Nat /\ Window <= Topics
         /\ IsFiniteSet(Downloading)
         /\ Cardinality(Downloading) \in Nat /\ Cardinality(kept) \in Nat
         /\ Len(jobs) \in Nat /\ Len(results) \in Nat
         /\ Outstanding \in Nat
<1>1. Limit \in Nat
  BY FS_CardinalityType DEF Setting, Limit
<1>2. Window \in Nat /\ Window <= Topics
  BY <1>1 DEF Setting, Window
<1>3. IsFiniteSet(Downloading)
  BY FS_Subset DEF Setting, Downloading
<1>4. Cardinality(Downloading) \in Nat /\ Cardinality(kept) \in Nat
  BY <1>3, FS_CardinalityType
<1>5. Len(jobs) \in Nat /\ Len(results) \in Nat
  BY DEF TypeOK
<1> QED BY <1>1, <1>2, <1>3, <1>4, <1>5 DEF Outstanding

LEMMA TakesOne ==
  ASSUME Setting, TypeOK, NEW w \in Workers, worker[w] = Ready, NEW t \in 1 .. Topics,
         worker' = [worker EXCEPT ![w] = t]
  PROVE  /\ Downloading' = Downloading \cup {w}
         /\ w \notin Downloading
         /\ Cardinality(Downloading') = Cardinality(Downloading) + 1
<1>1. Downloading' = Downloading \cup {w} /\ w \notin Downloading
  BY DEF Setting, TypeOK, Downloading, Ready
<1>2. IsFiniteSet(Downloading)
  BY FS_Subset DEF Setting, Downloading
<1> QED BY <1>1, <1>2, FS_AddElement

LEMMA EndsOne ==
  ASSUME Setting, TypeOK, NEW w \in Downloading, NEW x \in {Ready, Gone},
         worker' = [worker EXCEPT ![w] = x]
  PROVE  /\ Downloading' = Downloading \ {w}
         /\ Cardinality(Downloading') = Cardinality(Downloading) - 1
<1>1. Downloading' = Downloading \ {w}
  BY DEF Setting, TypeOK, Downloading, Ready, Gone
<1>2. IsFiniteSet(Downloading)
  BY FS_Subset DEF Setting, Downloading
<1> QED BY <1>1, <1>2, FS_RemoveElement

\* How Ahead follows the archive: a topic handed over, one taken, one read.
LEMMA AheadMoves ==
  ASSUME Window \in Nat, NEW o \in Nat, NEW n \in Nat, NEW t \in Nat
  PROVE  /\ Ahead(o, n, t, "push") /\ t = 1 /\ n <= Window => Ahead(o + 1, n + 1, t, "push")
         /\ Ahead(o, n, t, "wait") => /\ \A p \in Nat : p <= o => Ahead(p, n, t, "wait") /\ Ahead(p, n, t, "close")
                                     /\ Ahead(o - 1, n, t, "advance") /\ Ahead(o - 1, n, t, "close")
         /\ Ahead(o, n, t, "advance") => /\ Ahead(o, n, t, "read") /\ Ahead(o + 1, n + 1, t, "read")
                                        /\ Ahead(o, n, t + 1, "loop") /\ Ahead(o + 1, n + 1, t + 1, "loop")
         /\ Ahead(o, n, t, "read") => Ahead(o, n, t + 1, "loop") /\ Ahead(o, n, t, "close")
BY DEF Ahead

-----------------------------------------------------------------------------
(* The archive.                                                            *)

LEMMA InvInit ==
  ASSUME Setting, Init
  PROVE  Inv
<1>1. TypeOK
  <2>1. Limit \in Nat
    BY FS_CardinalityType DEF Setting, Limit
  <2>2. jobs \in Seq(1 .. Topics) /\ Len(jobs) <= Limit /\ results \in Seq(Results)
    BY <2>1 DEF Init
  <2>3. worker \in [Workers -> 0 .. Topics + 1]
    BY DEF Setting, Init, Ready
  <2>4. topic \in 1 .. Topics + 1 /\ next \in 1 .. Topics + 1
    BY DEF Setting, Init
  <2>5. /\ served \in [1 .. Topics -> Outcomes] /\ outcome \in [1 .. Topics -> Outcomes]
    BY DEF Init, Outcomes
  <2>6. main \in {"push", "loop", "wait", "advance", "read", "close", "done"}
        /\ kept \subseteq Results /\ cancelled \in BOOLEAN /\ err \in {"nil", "failed", "cancelled"}
    BY DEF Init
  <2> QED BY <2>2, <2>3, <2>4, <2>5, <2>6 DEF TypeOK, Outcomes
<1>2. Downloading = {}
  BY DEF Setting, Init, Downloading, Ready
<1>3. IsFiniteSet(kept) /\ Outstanding = 0
  BY <1>2, FS_EmptySet DEF Init, Outstanding
<1>4. Counted
  BY <1>1, <1>3, Counts DEF Init, Counted, Ahead
<1>5. Unserved /\ Reported /\ OwnResult /\ Passed
  BY <1>2 DEF Setting, Init, Unserved, Reported, OwnResult, Passed
<1> QED BY <1>1, <1>4, <1>5 DEF Inv

\* One topic more for the workers: nothing is known of it.
LEMMA SendKeeps ==
  ASSUME Setting, Inv, next \in 1 .. Topics, Send(next), next' = next + 1, UNCHANGED <<worker, served>>
  PROVE  /\ Unserved'
         /\ jobs' \in Seq(1 .. Topics) /\ Len(jobs') = Len(jobs) + 1 /\ Len(jobs') <= Limit
         /\ next' \in 1 .. Topics + 1
<1>1. /\ Limit \in Nat /\ jobs \in Seq(1 .. Topics) /\ Len(jobs) \in Nat /\ Topics \in Nat
  BY Counts DEF Setting, Inv, TypeOK, Counted
<1>2. /\ jobs' \in Seq(1 .. Topics) /\ Len(jobs') = Len(jobs) + 1 /\ Len(jobs') <= Limit
      /\ \A i \in 1 .. Len(jobs) : jobs'[i] = jobs[i]
      /\ jobs'[Len(jobs) + 1] = next
  BY <1>1 DEF Send
<1>3. Downloading' = Downloading
  BY DEF Downloading
<1>4. \A i \in 1 .. Len(jobs') : (i \in 1 .. Len(jobs) /\ jobs'[i] = jobs[i]) \/ (i = Len(jobs) + 1 /\ jobs'[i] = next)
  BY <1>1, <1>2
<1>5. Unserved'
  <2>1. \A i \in 1 .. Len(jobs) : jobs[i] \in 1 .. Topics /\ jobs[i] < next /\ jobs[i] # next /\ served[jobs[i]] = "none"
    BY <1>1 DEF Inv, Unserved
  <2>2. served[next] = "none" /\ next \in Int
    BY <1>1 DEF Inv, Unserved
  <2>3. \A i \in 1 .. Len(jobs') : jobs'[i] < next' /\ served'[jobs'[i]] = "none"
    <3>1. SUFFICES ASSUME NEW i \in 1 .. Len(jobs') PROVE jobs'[i] < next' /\ served'[jobs'[i]] = "none"
      OBVIOUS
    <3>2. CASE i \in 1 .. Len(jobs) /\ jobs'[i] = jobs[i]
      <4>1. jobs[i] \in 1 .. Topics /\ jobs[i] < next /\ served[jobs[i]] = "none"
        BY <2>1, <3>2
      <4> QED BY <2>2, <3>2, <4>1
    <3>3. CASE jobs'[i] = next
      BY <2>2, <3>3
    <3> QED BY <1>4, <3>2, <3>3
  <2>4. \A i, j \in 1 .. Len(jobs') : i # j => jobs'[i] # jobs'[j]
    BY <1>4, <2>1 DEF Inv, Unserved
  <2>5. \A w \in Downloading' : worker'[w] < next' /\ served'[worker'[w]] = "none"
    BY <1>3 DEF Inv, Unserved, Downloading
  <2>6. \A w \in Downloading' : \A i \in 1 .. Len(jobs') : jobs'[i] # worker'[w]
    <3>1. \A w \in Downloading' : worker'[w] = worker[w] /\ worker[w] # next
      BY <1>1, <1>3 DEF Inv, Unserved, Downloading
    <3> QED BY <1>3, <1>4, <3>1 DEF Inv, Unserved
  <2>7. \A v, w \in Downloading' : v # w => worker'[v] # worker'[w]
    BY <1>3 DEF Inv, Unserved
  <2>8. \A t \in next' .. Topics : served'[t] = "none"
    BY <1>1 DEF Inv, Unserved
  <2> QED BY <2>3, <2>4, <2>5, <2>6, <2>7, <2>8 DEF Unserved
<1> QED BY <1>1, <1>2, <1>5

\* Steps of the archive that leave the channels and workers alone.
LEMMA Quiet ==
  ASSUME Setting, Inv, UNCHANGED <<next, jobs, results, kept, worker, served>>
  PROVE  Unserved' /\ Reported' /\ IsFiniteSet(kept') /\ Outstanding' = Outstanding
BY DEF Inv, Unserved, Reported, Counted, Outstanding, Downloading

LEMMA PushKeeps ==
  ASSUME Setting, Inv, Push
  PROVE  Inv'
<1> USE DEF Setting
<1>1. /\ Window \in Nat /\ Window <= Topics /\ Outstanding \in Nat /\ Len(jobs) \in Nat /\ Len(results) \in Nat
      /\ Cardinality(Downloading) \in Nat /\ Cardinality(kept) \in Nat
      /\ next \in 1 .. Topics + 1 /\ topic \in 1 .. Topics + 1 /\ topic = 1
  BY Counts DEF Inv, Counted, TypeOK, Push, Passed
<1>2. CASE next <= HandsFirst /\ Send(next) /\ next' = next + 1 /\ UNCHANGED main
  <2>1. next \in 1 .. Topics /\ next <= Window /\ UNCHANGED <<topic, outcome, err, results, kept, worker, served, cancelled, main>>
    BY <1>1, <1>2 DEF HandsFirst, Push
  <2>2. /\ Unserved' /\ jobs' \in Seq(1 .. Topics) /\ Len(jobs') = Len(jobs) + 1 /\ Len(jobs') <= Limit
        /\ next' \in 1 .. Topics + 1
    BY <1>2, <2>1, SendKeeps
  <2>3. TypeOK' /\ Reported' /\ OwnResult' /\ Passed'
    BY <2>1, <2>2 DEF Inv, TypeOK, Reported, OwnResult, Passed
  <2>4. Outstanding' = Outstanding + 1
    BY <1>1, <2>1, <2>2 DEF Outstanding, Downloading
  <2>5. Counted'
    <3>1. Window \in Nat /\ Outstanding \in Nat /\ next \in Nat /\ topic \in Nat
      BY <1>1
    <3>2. Ahead(Outstanding, next, topic, "push") /\ topic = 1 /\ next <= Window
      BY <1>1, <2>1 DEF Push, Inv, Counted
    <3>3. Ahead(Outstanding + 1, next + 1, topic, "push")
      BY <3>1, <3>2, AheadMoves
    <3>4. main' = "push" /\ next' = next + 1 /\ topic' = topic /\ kept' = kept
      BY <1>2, <2>1 DEF Push
    <3> QED BY <2>4, <3>3, <3>4 DEF Inv, Counted
  <2> QED BY <2>2, <2>3, <2>5 DEF Inv
<1>3. CASE next > HandsFirst /\ main' = "loop" /\ UNCHANGED <<jobs, next>>
  <2>1. Unserved' /\ Reported' /\ IsFiniteSet(kept') /\ Outstanding' = Outstanding
    BY <1>3, Quiet DEF Push
  <2>2. TypeOK' /\ OwnResult' /\ Passed'
    BY <1>3 DEF Push, Inv, TypeOK, OwnResult, Passed
  <2>3. Counted'
    BY <1>3, <2>1 DEF Push, Inv, Counted, Ahead
  <2> QED BY <2>1, <2>2, <2>3 DEF Inv
<1> QED BY <1>2, <1>3 DEF Push

LEMMA LoopKeeps ==
  ASSUME Setting, Inv, Loop
  PROVE  Inv'
<1>1. UNCHANGED <<topic, next, outcome, jobs, results, kept, worker, served, cancelled>> /\ main = "loop"
  BY DEF Loop, channelVars
<1>2. Unserved' /\ Reported' /\ IsFiniteSet(kept') /\ Outstanding' = Outstanding
  BY <1>1, Quiet
<1>3. topic \in 1 .. Topics + 1 /\ Topics \in Nat
  BY DEF Setting, Inv, TypeOK
<1>4. \/ main' = "close" /\ err' = "cancelled"
      \/ main' = "close" /\ err' = "nil" /\ topic > Topics
      \/ main' = "wait" /\ err' = err /\ topic <= Topics
  BY <1>3 DEF Loop, Leave, Stay
<1>5. TypeOK' /\ OwnResult'
  BY <1>1, <1>4 DEF Inv, TypeOK, OwnResult
<1>6. Passed'
  BY <1>1, <1>3, <1>4 DEF Inv, Passed
<1>7. Counted'
  BY <1>1, <1>2, <1>4 DEF Inv, Counted, Ahead
<1> QED BY <1>2, <1>5, <1>6, <1>7 DEF Inv

\* What taking the result of the topic does, whichever way it came.
LEMMA TookKeeps ==
  ASSUME Setting, Inv, main = "wait", NEW is \in {"ok", "missing", "failed"}, is = served[topic], Took(is),
         UNCHANGED <<topic, next, worker, served, cancelled>>
  PROVE  /\ main' \in {"advance", "close"} /\ err' \in {"nil", "failed"}
         /\ outcome' \in [1 .. Topics -> Outcomes]
         /\ OwnResult' /\ Passed'
<1>1. /\ topic \in 1 .. Topics /\ Topics \in Nat /\ outcome \in [1 .. Topics -> Outcomes] /\ err = "nil"
  BY DEF Setting, Inv, TypeOK, Passed, Outcomes
<1>2. /\ outcome' = [outcome EXCEPT ![topic] = is]
      /\ \/ is = "failed" /\ main' = "close" /\ err' = "failed"
         \/ is # "failed" /\ main' = "advance" /\ err' = err
  BY DEF Took, Leave, Stay
<1>3. outcome' \in [1 .. Topics -> Outcomes] /\ OwnResult'
  BY <1>1, <1>2 DEF Inv, OwnResult, Outcomes
<1>4. Passed'
  BY <1>1, <1>2 DEF Inv, Passed
<1> QED BY <1>1, <1>2, <1>3, <1>4

LEMMA WaitKeeps ==
  ASSUME Setting, Inv, Wait
  PROVE  Inv'
<1>1. /\ main = "wait" /\ UNCHANGED <<topic, next, jobs, worker, served, cancelled>>
      /\ topic \in 1 .. Topics /\ Topics \in Nat /\ next \in 1 .. Topics + 1 /\ err = "nil"
  BY DEF Wait, Setting, Inv, TypeOK, Passed
<1>2. /\ Window \in Nat /\ Outstanding \in Nat /\ Len(jobs) \in Nat /\ Len(results) \in Nat
      /\ Cardinality(Downloading) \in Nat /\ Cardinality(kept) \in Nat
      /\ IsFiniteSet(kept) /\ kept \subseteq Results /\ results \in Seq(Results)
  BY Counts DEF Inv, Counted, TypeOK
<1>3. Unserved'
  BY <1>1 DEF Inv, Unserved, Downloading
<1>4. /\ \A p \in Nat : p <= Outstanding => Ahead(p, next, topic, "wait") /\ Ahead(p, next, topic, "close")
      /\ Ahead(Outstanding - 1, next, topic, "advance") /\ Ahead(Outstanding - 1, next, topic, "close")
  <2>1. next \in Nat /\ topic \in Nat /\ Ahead(Outstanding, next, topic, "wait")
    BY <1>1 DEF Inv, Counted
  <2> QED BY <1>2, <2>1, AheadMoves
<1>5. CASE \E r \in KeptFor(topic) : kept' = kept \ {r} /\ Took(r.is) /\ UNCHANGED results
  <2>1. PICK r \in KeptFor(topic) : kept' = kept \ {r} /\ Took(r.is) /\ UNCHANGED results
    BY <1>5
  <2>2. r \in kept /\ r.topic = topic /\ r.is \in {"ok", "missing", "failed"} /\ r.is = served[topic]
    BY <1>2, <2>1 DEF KeptFor, Results, Inv, Reported
  <2>3. /\ main' \in {"advance", "close"} /\ err' \in {"nil", "failed"} /\ outcome' \in [1 .. Topics -> Outcomes]
        /\ OwnResult' /\ Passed'
    BY <1>1, <2>1, <2>2, TookKeeps
  <2>4. TypeOK' /\ Reported'
    BY <1>1, <2>1, <2>3 DEF Inv, TypeOK, Reported, Outcomes
  <2>5. IsFiniteSet(kept') /\ Cardinality(kept') = Cardinality(kept) - 1
    BY <1>2, <2>1, <2>2, FS_RemoveElement
  <2>6. Outstanding' = Outstanding - 1
    BY <1>1, <1>2, <2>1, <2>5 DEF Outstanding, Downloading
  <2>7. Counted'
    BY <1>1, <1>4, <2>3, <2>5, <2>6 DEF Counted
  <2> QED BY <1>3, <2>3, <2>4, <2>7 DEF Inv
<1>6. CASE results # <<>> /\ results' = Tail(results) /\ KeptFor(topic) = {}
           /\ LET r == Head(results) IN
                \/ IsWaitedFor(r) /\ Took(r.is) /\ UNCHANGED kept
                \/ ~IsWaitedFor(r) /\ r.is = "failed" /\ Leave("failed") /\ UNCHANGED <<outcome, kept>>
                \/ ~IsWaitedFor(r) /\ r.is # "failed" /\ kept' = kept \cup {r} /\ UNCHANGED <<main, outcome, err>>
  <2> DEFINE r == Head(results)
  <2>1. /\ r \in Results /\ r = results[1] /\ 1 \in 1 .. Len(results)
        /\ results' \in Seq(Results) /\ Len(results') = Len(results) - 1
        /\ \A i \in 1 .. Len(results') : i + 1 \in 1 .. Len(results) /\ results'[i] = results[i + 1]
    BY <1>2, <1>6
  <2>2. r.is \in {"ok", "missing", "failed"} /\ r.is = served[r.topic]
    BY <2>1 DEF Results, Inv, Reported
  <2>3. \A i \in 1 .. Len(results') : results'[i].is = served'[results'[i].topic]
    BY <1>1, <2>1 DEF Inv, Reported
  <2> HIDE DEF r
  <2>4. CASE IsWaitedFor(r) /\ Took(r.is) /\ UNCHANGED kept
    <3>1. /\ main' \in {"advance", "close"} /\ err' \in {"nil", "failed"} /\ outcome' \in [1 .. Topics -> Outcomes]
          /\ OwnResult' /\ Passed'
      BY <1>1, <2>2, <2>4, TookKeeps DEF IsWaitedFor
    <3>2. TypeOK' /\ Reported'
      BY <1>1, <2>1, <2>3, <2>4, <3>1 DEF Inv, TypeOK, Reported, Outcomes
    <3>3. Outstanding' = Outstanding - 1
      BY <1>1, <1>2, <2>1, <2>4 DEF Outstanding, Downloading
    <3>4. Counted'
      BY <1>1, <1>2, <1>4, <2>4, <3>1, <3>3 DEF Counted
    <3> QED BY <1>3, <3>1, <3>2, <3>4 DEF Inv
  <2>5. CASE Leave("failed") /\ UNCHANGED <<outcome, kept>>
    <3>1. TypeOK' /\ Reported' /\ OwnResult' /\ Passed'
      BY <1>1, <2>1, <2>3, <2>5 DEF Inv, TypeOK, Reported, OwnResult, Passed, Leave
    <3>2. Outstanding' = Outstanding - 1
      BY <1>1, <1>2, <2>1, <2>5 DEF Outstanding, Downloading
    <3>3. Counted'
      BY <1>1, <1>2, <1>4, <2>5, <3>2 DEF Counted, Leave
    <3> QED BY <1>3, <3>1, <3>3 DEF Inv
  <2>6. CASE kept' = kept \cup {r} /\ UNCHANGED <<main, outcome, err>>
    <3>1. TypeOK' /\ Reported' /\ OwnResult' /\ Passed'
      BY <1>1, <1>2, <2>1, <2>2, <2>3, <2>6 DEF Inv, TypeOK, Reported, OwnResult, Passed
    <3>2. /\ IsFiniteSet(kept') /\ Cardinality(kept') \in Nat /\ Cardinality(kept') <= Cardinality(kept) + 1
      <4>1. /\ IsFiniteSet(kept')
            /\ Cardinality(kept') = IF r \in kept THEN Cardinality(kept) ELSE Cardinality(kept) + 1
        BY <1>2, <2>6, FS_AddElement
      <4> QED BY <1>2, <4>1
    <3>3. Outstanding' <= Outstanding
      BY <1>1, <1>2, <2>1, <3>2 DEF Outstanding, Downloading
    <3>4. Outstanding' \in Nat
      BY <1>1, <1>2, <2>1, <3>2 DEF Outstanding, Downloading
    <3>5. Counted'
      BY <1>1, <1>4, <2>6, <3>2, <3>3, <3>4 DEF Counted
    <3> QED BY <1>3, <3>1, <3>5 DEF Inv
  <2> QED BY <1>6, <2>4, <2>5, <2>6 DEF r
<1>7. CASE Leave("cancelled") /\ UNCHANGED <<outcome, results, kept>>
  <2>1. Unserved' /\ Reported' /\ IsFiniteSet(kept') /\ Outstanding' = Outstanding
    BY <1>1, <1>7, Quiet
  <2>2. TypeOK' /\ OwnResult' /\ Passed'
    BY <1>1, <1>7 DEF Inv, TypeOK, OwnResult, Passed, Leave
  <2>3. Counted'
    BY <1>1, <1>7, <2>1 DEF Inv, Counted, Ahead, Leave
  <2> QED BY <2>1, <2>2, <2>3 DEF Inv
<1> QED BY <1>5, <1>6, <1>7 DEF Wait

LEMMA AdvanceKeeps ==
  ASSUME Setting, Inv, Advance
  PROVE  Inv'
<1>1. /\ main = "advance" /\ UNCHANGED <<outcome, err, results, kept, worker, served, cancelled>>
      /\ topic \in 1 .. Topics /\ Topics \in Nat /\ next \in 1 .. Topics + 1
      /\ outcome[topic] \in {"ok", "missing"} /\ err = "nil"
  BY DEF Advance, Setting, Inv, TypeOK, Passed
<1>2. /\ Window \in Nat /\ Outstanding \in Nat /\ Len(jobs) \in Nat /\ Len(results) \in Nat
      /\ Cardinality(Downloading) \in Nat /\ Cardinality(kept) \in Nat /\ IsFiniteSet(kept)
      /\ jobs \in Seq(1 .. Topics) /\ Len(jobs) <= Limit
  BY Counts DEF Inv, Counted, TypeOK
<1>3. \/ topic' = topic + 1 /\ main' = "loop"
      \/ topic' = topic /\ main' = "read"
  BY DEF Advance
<1>4. /\ Unserved' /\ jobs' \in Seq(1 .. Topics) /\ Len(jobs') <= Limit /\ next' \in 1 .. Topics + 1
      /\ \/ next' = next + 1 /\ Len(jobs') = Len(jobs) + 1
         \/ next' = next /\ Len(jobs') = Len(jobs)
  <2>1. CASE next <= Topics
    <3>1. next \in 1 .. Topics /\ Send(next) /\ next' = next + 1
      BY <1>1, <2>1 DEF Advance, AdvanceOne
    <3> QED BY <1>1, <3>1, SendKeeps
  <2>2. CASE ~(next <= Topics)
    <3>1. UNCHANGED <<jobs, next>>
      BY <2>2 DEF Advance, AdvanceOne
    <3>2. Unserved'
      BY <1>1, <3>1 DEF Inv, Unserved, Downloading
    <3> QED BY <1>1, <1>2, <3>1, <3>2
  <2> QED BY <2>1, <2>2
<1>5. TypeOK' /\ Reported' /\ OwnResult'
  <2>1. topic' \in 1 .. Topics + 1 /\ main' \in {"loop", "read"}
    BY <1>1, <1>3
  <2>2. TypeOK'
    BY <1>1, <1>4, <2>1 DEF Inv, TypeOK
  <2> QED BY <1>1, <2>2 DEF Inv, Reported, OwnResult
<1>6. Passed'
  BY <1>1, <1>3 DEF Inv, Passed
<1>7. \/ next' = next + 1 /\ Outstanding' = Outstanding + 1
      \/ next' = next /\ Outstanding' = Outstanding
  BY <1>1, <1>2, <1>4 DEF Outstanding, Downloading
<1>8. Counted'
  <2>1. next \in Nat /\ topic \in Nat /\ Ahead(Outstanding, next, topic, "advance")
    BY <1>1 DEF Inv, Counted
  <2>2. /\ Ahead(Outstanding, next, topic, "read") /\ Ahead(Outstanding + 1, next + 1, topic, "read")
        /\ Ahead(Outstanding, next, topic + 1, "loop") /\ Ahead(Outstanding + 1, next + 1, topic + 1, "loop")
    BY <1>2, <2>1, AheadMoves
  <2>3. kept' = kept /\ IsFiniteSet(kept)
    BY <1>1, <1>2
  <2> QED BY <1>3, <1>7, <2>2, <2>3 DEF Counted
<1> QED BY <1>4, <1>5, <1>6, <1>8 DEF Inv

LEMMA ReadKeeps ==
  ASSUME Setting, Inv, Read
  PROVE  Inv'
<1>1. /\ main = "read" /\ UNCHANGED <<next, outcome, jobs, results, kept, worker, served, cancelled>>
      /\ topic \in 1 .. Topics /\ Topics \in Nat /\ next \in 1 .. Topics + 1
      /\ outcome[topic] \in {"ok", "missing"} /\ err = "nil"
  BY DEF Read, Setting, Inv, TypeOK, Passed, channelVars
<1>2. \/ topic' = topic + 1 /\ main' = "loop" /\ err' = err
      \/ topic' = topic /\ main' = "close" /\ err' = "failed"
  BY DEF Read, Stay, Leave
<1>3. Unserved' /\ Reported' /\ IsFiniteSet(kept') /\ Outstanding' = Outstanding
  BY <1>1, Quiet
<1>4. TypeOK' /\ OwnResult'
  BY <1>1, <1>2 DEF Inv, TypeOK, OwnResult
<1>5. Passed'
  BY <1>1, <1>2 DEF Inv, Passed
<1>6. Window \in Nat /\ Outstanding \in Nat
  BY Counts DEF Inv, Counted
<1>7. Counted'
  <2>1. next \in Nat /\ topic \in Nat /\ Ahead(Outstanding, next, topic, "read")
    BY <1>1 DEF Inv, Counted
  <2>2. Ahead(Outstanding, next, topic + 1, "loop") /\ Ahead(Outstanding, next, topic, "close")
    BY <1>6, <2>1, AheadMoves
  <2> QED BY <1>1, <1>2, <1>3, <2>2 DEF Counted
<1> QED BY <1>3, <1>4, <1>5, <1>7 DEF Inv

LEMMA CloseKeeps ==
  ASSUME Setting, Inv, Close
  PROVE  Inv'
<1>1. main = "close" /\ main' = "done" /\ UNCHANGED <<topic, next, outcome, err, jobs, results, kept, worker, served, cancelled>>
  BY DEF Close, channelVars
<1>2. Unserved' /\ Reported' /\ IsFiniteSet(kept') /\ Outstanding' = Outstanding
  BY <1>1, Quiet
<1>3. TypeOK' /\ OwnResult' /\ Passed' /\ Counted'
  BY <1>1, <1>2 DEF Inv, TypeOK, OwnResult, Passed, Counted, Ahead
<1> QED BY <1>2, <1>3 DEF Inv

-----------------------------------------------------------------------------
(* The workers.                                                            *)

LEMMA TakeKeeps ==
  ASSUME Setting, Inv, NEW w \in Workers, Take(w)
  PROVE  Inv'
<1>1. /\ worker[w] = Ready /\ jobs # <<>> /\ worker' = [worker EXCEPT ![w] = Head(jobs)] /\ jobs' = Tail(jobs)
      /\ UNCHANGED <<main, topic, next, outcome, err, results, kept, served, cancelled>>
  BY DEF Take, mainVars
<1>2. /\ Window \in Nat /\ Outstanding \in Nat /\ Len(jobs) \in Nat /\ Len(results) \in Nat
      /\ Cardinality(Downloading) \in Nat /\ Cardinality(kept) \in Nat /\ IsFiniteSet(kept)
      /\ jobs \in Seq(1 .. Topics) /\ Limit \in Nat /\ Len(jobs) <= Limit
      /\ Topics \in Nat /\ worker \in [Workers -> 0 .. Topics + 1]
  BY Counts DEF Setting, Inv, Counted, TypeOK
<1>3. /\ Head(jobs) \in 1 .. Topics /\ Head(jobs) = jobs[1] /\ 1 \in 1 .. Len(jobs)
      /\ jobs' \in Seq(1 .. Topics) /\ Len(jobs') = Len(jobs) - 1
      /\ \A i \in 1 .. Len(jobs') : i + 1 \in 1 .. Len(jobs) /\ jobs'[i] = jobs[i + 1] /\ i + 1 # 1
  <2>1. Len(jobs) > 0
    BY <1>1, <1>2
  <2>2. Head(jobs) \in 1 .. Topics /\ Head(jobs) = jobs[1] /\ 1 \in 1 .. Len(jobs)
    BY <1>1, <1>2, <2>1
  <2>3. jobs' \in Seq(1 .. Topics) /\ Len(jobs') = Len(jobs) - 1
    BY <1>1, <1>2, <2>1
  <2>4. \A i \in 1 .. Len(jobs') : i + 1 \in 1 .. Len(jobs) /\ jobs'[i] = jobs[i + 1] /\ i + 1 # 1
    BY <1>1, <1>2, <2>1, <2>3
  <2> QED BY <2>2, <2>3, <2>4
<1>4. /\ Downloading' = Downloading \cup {w} /\ w \notin Downloading
      /\ Cardinality(Downloading') = Cardinality(Downloading) + 1
  BY <1>1, <1>3, TakesOne DEF Inv
<1>5. \A v \in Downloading' : (v = w /\ worker'[v] = jobs[1]) \/ (v # w /\ v \in Downloading /\ worker'[v] = worker[v])
  BY <1>1, <1>2, <1>3, <1>4 DEF Downloading
<1>6. Unserved'
  <2>1. \A i \in 1 .. Len(jobs') : jobs'[i] < next' /\ served'[jobs'[i]] = "none"
    BY <1>1, <1>3 DEF Inv, Unserved
  <2>2. \A i, j \in 1 .. Len(jobs') : i # j => jobs'[i] # jobs'[j]
    <3>1. SUFFICES ASSUME NEW i \in 1 .. Len(jobs'), NEW j \in 1 .. Len(jobs'), i # j
                   PROVE  jobs'[i] # jobs'[j]
      OBVIOUS
    <3>2. i + 1 # j + 1 /\ i + 1 \in 1 .. Len(jobs) /\ j + 1 \in 1 .. Len(jobs)
      <4>1. Len(jobs') \in Nat
        BY <1>2, <1>3
      <4>2. i \in Nat /\ j \in Nat
        BY <3>1, <4>1
      <4> QED BY <1>3, <3>1, <4>2
    <3> QED BY <1>3, <3>1, <3>2 DEF Inv, Unserved
  <2>3. \A v \in Downloading' : worker'[v] < next' /\ served'[worker'[v]] = "none"
    BY <1>1, <1>3, <1>5 DEF Inv, Unserved
  <2>4. \A u, v \in Downloading' : u # v => worker'[u] # worker'[v]
    BY <1>3, <1>5 DEF Inv, Unserved
  <2>5. \A v \in Downloading' : \A i \in 1 .. Len(jobs') : jobs'[i] # worker'[v]
    BY <1>3, <1>5 DEF Inv, Unserved
  <2>6. \A t \in next' .. Topics : served'[t] = "none"
    BY <1>1 DEF Inv, Unserved
  <2> QED BY <2>1, <2>2, <2>3, <2>4, <2>5, <2>6 DEF Unserved
<1>7. TypeOK'
  BY <1>1, <1>2, <1>3 DEF Inv, TypeOK
<1>8. Reported' /\ OwnResult' /\ Passed'
  BY <1>1 DEF Inv, Reported, OwnResult, Passed
<1>9. Outstanding' = Outstanding
  BY <1>1, <1>2, <1>3, <1>4 DEF Outstanding
<1>10. Counted'
  BY <1>1, <1>9 DEF Inv, Counted, Ahead
<1> QED BY <1>6, <1>7, <1>8, <1>10 DEF Inv

LEMMA StopKeeps ==
  ASSUME Setting, Inv, NEW w \in Workers, Stop(w)
  PROVE  Inv'
<1>1. /\ worker[w] = Ready /\ worker' = [worker EXCEPT ![w] = Gone]
      /\ UNCHANGED <<main, topic, next, outcome, err, jobs, results, kept, served, cancelled>>
  BY DEF Stop, mainVars, channelVars
<1>2. Topics \in Nat /\ worker \in [Workers -> 0 .. Topics + 1]
  BY DEF Setting, Inv, TypeOK
<1>3. Downloading' = Downloading /\ \A v \in Downloading : worker'[v] = worker[v]
  BY <1>1, <1>2 DEF Downloading, Ready, Gone
<1>4. Unserved' /\ Reported' /\ OwnResult' /\ Passed'
  BY <1>1, <1>3 DEF Inv, Unserved, Reported, OwnResult, Passed
<1>5. TypeOK'
  BY <1>1, <1>2 DEF Inv, TypeOK, Gone
<1>6. Counted'
  BY <1>1, <1>3 DEF Inv, Counted, Ahead, Outstanding
<1> QED BY <1>4, <1>5, <1>6 DEF Inv

LEMMA DownloadKeeps ==
  ASSUME Setting, Inv, NEW w \in Workers, Download(w)
  PROVE  Inv'
<1> DEFINE t == worker[w]
<1>1. PICK is \in {"ok", "missing", "failed"} :
        /\ results' = Append(results, [topic |-> t, is |-> is])
        /\ served' = [served EXCEPT ![t] = is]
        /\ worker' = [worker EXCEPT ![w] = AfterDownload(is)]
  BY DEF Download
<1>2. /\ t \in 1 .. Topics /\ w \in Downloading
      /\ UNCHANGED <<main, topic, next, outcome, err, jobs, kept, cancelled>>
  BY DEF Download, Downloading, mainVars
<1>3. /\ Window \in Nat /\ Outstanding \in Nat /\ Len(jobs) \in Nat /\ Len(results) \in Nat
      /\ Cardinality(Downloading) \in Nat /\ Cardinality(kept) \in Nat /\ IsFiniteSet(kept)
      /\ kept \subseteq Results /\ results \in Seq(Results)
      /\ Topics \in Nat /\ worker \in [Workers -> 0 .. Topics + 1] /\ served \in [1 .. Topics -> Outcomes]
      /\ outcome \in [1 .. Topics -> Outcomes] /\ jobs \in Seq(1 .. Topics) /\ next \in 1 .. Topics + 1
  BY Counts DEF Setting, Inv, Counted, TypeOK, Outcomes
<1>4. AfterDownload(is) \in {Ready, Gone}
  BY DEF AfterDownload
<1>5. Downloading' = Downloading \ {w} /\ Cardinality(Downloading') = Cardinality(Downloading) - 1
  BY <1>1, <1>2, <1>4, EndsOne DEF Inv
<1>6. \A v \in Downloading' : v # w /\ v \in Downloading /\ worker'[v] = worker[v] /\ worker[v] # t
  BY <1>1, <1>2, <1>3, <1>5 DEF Inv, Unserved, Downloading
<1>7. served[t] = "none" /\ outcome[t] = "none" /\ t < next
  BY <1>2, <1>3 DEF Inv, Unserved, OwnResult
<1>8. \A i \in 1 .. Len(jobs) : jobs[i] # t /\ jobs[i] \in 1 .. Topics
  BY <1>2, <1>3 DEF Inv, Unserved
<1>9. /\ results' \in Seq(Results) /\ Len(results') = Len(results) + 1
      /\ \A i \in 1 .. Len(results') : \/ i \in 1 .. Len(results) /\ results'[i] = results[i]
                                       \/ results'[i] = [topic |-> t, is |-> is]
  <2>1. [topic |-> t, is |-> is] \in Results
    BY <1>1, <1>2 DEF Results
  <2> QED BY <1>1, <1>3, <2>1
<1> HIDE DEF t
<1>10. served' \in [1 .. Topics -> Outcomes] /\ served'[t] = is /\ \A s \in 1 .. Topics \ {t} : served'[s] = served[s]
  BY <1>1, <1>2, <1>3 DEF Outcomes
<1>11. Unserved'
  <2>1. \A i \in 1 .. Len(jobs') : jobs'[i] < next' /\ served'[jobs'[i]] = "none"
    BY <1>2, <1>8, <1>10 DEF Inv, Unserved
  <2>2. \A v \in Downloading' : worker'[v] < next' /\ served'[worker'[v]] = "none"
    BY <1>2, <1>6, <1>10 DEF Inv, Unserved, Downloading
  <2>3. \A s \in next' .. Topics : served'[s] = "none"
    BY <1>2, <1>3, <1>7, <1>10 DEF Inv, Unserved
  <2> QED BY <1>2, <1>6, <2>1, <2>2, <2>3 DEF Inv, Unserved
<1>12. Reported'
  <2>1. \A x \in Results : x.is = served[x.topic] => x.is = served'[x.topic]
    BY <1>7, <1>10 DEF Results
  <2>2. \A i \in 1 .. Len(results') : results'[i].is = served'[results'[i].topic]
    <3>1. SUFFICES ASSUME NEW i \in 1 .. Len(results') PROVE results'[i].is = served'[results'[i].topic]
      OBVIOUS
    <3>2. CASE i \in 1 .. Len(results) /\ results'[i] = results[i]
      <4>1. results[i] \in Results /\ results[i].is = served[results[i].topic]
        BY <1>3, <3>2 DEF Inv, Reported
      <4> QED BY <2>1, <3>2, <4>1
    <3>3. CASE results'[i] = [topic |-> t, is |-> is]
      BY <1>10, <3>3
    <3> QED BY <1>9, <3>2, <3>3
  <2>3. \A x \in kept' : x.is = served'[x.topic]
    BY <1>2, <1>3, <2>1 DEF Inv, Reported
  <2> QED BY <2>2, <2>3 DEF Reported
<1>13. OwnResult'
  BY <1>2, <1>7, <1>10 DEF Inv, OwnResult
<1>14. TypeOK'
  BY <1>1, <1>2, <1>3, <1>4, <1>9, <1>10 DEF Inv, TypeOK, Ready, Gone, Outcomes
<1>15. Passed'
  BY <1>2 DEF Inv, Passed
<1>16. Outstanding' = Outstanding
  <2>1. Len(jobs') = Len(jobs) /\ Cardinality(kept') = Cardinality(kept)
    BY <1>2
  <2>2. Len(results') = Len(results) + 1 /\ Cardinality(Downloading') = Cardinality(Downloading) - 1
    BY <1>5, <1>9
  <2>3. Len(jobs) \in Nat /\ Len(results) \in Nat /\ Cardinality(Downloading) \in Nat /\ Cardinality(kept) \in Nat
    BY <1>3
  <2> QED BY <2>1, <2>2, <2>3 DEF Outstanding
<1>17. Counted'
  BY <1>2, <1>16 DEF Inv, Counted, Ahead
<1> QED BY <1>11, <1>12, <1>13, <1>14, <1>15, <1>17 DEF Inv

-----------------------------------------------------------------------------
(* The theorem.                                                            *)

LEMMA InvStep ==
  ASSUME Setting, Inv, [Next]_vars
  PROVE  Inv'
<1>1. CASE UNCHANGED vars
  BY <1>1 DEF vars, mainVars, channelVars, Inv, TypeOK, Unserved, Reported, OwnResult, Counted, Passed,
    Ahead, Outstanding, Downloading
<1>2. CASE MainStep
  BY <1>2, PushKeeps, LoopKeeps, WaitKeeps, AdvanceKeeps, ReadKeeps, CloseKeeps DEF MainStep
<1>3. CASE \E w \in Workers : WorkerStep(w)
  BY <1>3, TakeKeeps, StopKeeps, DownloadKeeps DEF WorkerStep
<1>4. CASE Cancel
  BY <1>4 DEF Cancel, mainVars, channelVars, Inv, TypeOK, Unserved, Reported, OwnResult, Counted, Passed,
    Ahead, Outstanding, Downloading
<1> QED BY <1>1, <1>2, <1>3, <1>4 DEF Next, Rest

\* The invariant has what the prefetch promises.
LEMMA InvIsSound == ASSUME Setting, Inv PROVE PrefetchSound
<1>1. WindowKept
  BY DEF Inv, Counted, Ahead, Outstanding, WindowKept
<1>2. SuccessIsComplete
  <2>1. SUFFICES ASSUME main = "done", err = "nil", NEW t \in 1 .. Topics PROVE outcome[t] \in {"ok", "missing"}
    BY DEF SuccessIsComplete
  <2>2. t \in 1 .. (topic - 1)
    BY <2>1 DEF Setting, Inv, Passed
  <2> QED BY <2>2 DEF Inv, Passed
<1> QED BY <1>1, <1>2 DEF Inv, PrefetchSound

\* A topic is treated by its own download, at most Window topics are handed over
\* and not yet taken, and the inventory succeeds only when every topic was served
\* or is known to be unpublished: for any number of workers and topics, in
\* whatever order the downloads end, fail or are cancelled.
THEOREM PrefetchAlwaysSound ==
  ASSUME Setting
  PROVE  Spec => []PrefetchSound
<1>1. Init => Inv
  BY InvInit
<1>2. Inv /\ [Next]_vars => Inv'
  BY InvStep
<1>3. Inv => PrefetchSound
  BY InvIsSound
<1> QED BY <1>1, <1>2, <1>3, PTL DEF Spec
=============================================================================
