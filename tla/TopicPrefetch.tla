---------------------------- MODULE TopicPrefetch ----------------------------
(***************************************************************************)
(* The planned topics of an HTML guide: htmlArchiver.inventory and its     *)
(* topicPrefetch (internal/archive/html.go).                               *)
(*                                                                         *)
(* Workers download planned topics into the disk cache ahead of the        *)
(* archive, which takes their results and reads the topics one after the   *)
(* other.  The channel jobs holds as many topics as there are workers, the *)
(* channel results as many as may be outstanding, the window.              *)
(*                                                                         *)
(* Each channel operation, of which a select takes any that is ready, is   *)
(* one step; so is each download.  Topics found in other topics are read   *)
(* after the planned ones, without workers, and are left out.              *)
(***************************************************************************)
EXTENDS FiniteSets, Naturals, Sequences

CONSTANTS Workers,    \* the worker goroutines
          Topics,     \* how many topics the plan names
          MayCancel   \* TRUE: the run's context may end

VARIABLES
  main,       \* where the archive is: "push", "loop", "wait", "advance", "read", "close" or "done"
  topic,      \* the topic it needs
  next,       \* the next topic to hand to the workers
  jobs,       \* the channel jobs
  results,    \* the channel results
  kept,       \* topicPrefetch.pending: results of later topics
  worker,     \* worker[w]: the topic it downloads, Ready or Gone
  served,     \* what the download of each topic ended with
  outcome,    \* what the archive made of each topic
  cancelled,  \* the run's context has ended
  err         \* what inventory returns

channelVars == <<jobs, results, kept>>
mainVars == <<main, topic, next, outcome, err>>
vars == <<mainVars, channelVars, worker, served, cancelled>>

Limit == Cardinality(Workers)
Window == IF Topics < 2 * Limit THEN Topics ELSE 2 * Limit
Ready == 0
Gone == Topics + 1

Results == [topic : 1 .. Topics, is : {"ok", "missing", "failed"}]

\* The workers' context: close cancels it too.
Stopped == cancelled \/ main = "close"

-----------------------------------------------------------------------------
(* The archive.                                                            *)

\* prefetch.jobs <- page: the send waits until there is room.
Send(t) == Len(jobs) < Limit /\ jobs' = Append(jobs, t)

\* startPrefetch hands over the first topics.
HandsFirst == Window

Push ==
  /\ main = "push"
  /\ \/ next <= HandsFirst /\ Send(next) /\ next' = next + 1 /\ UNCHANGED main
     \/ next > HandsFirst /\ main' = "loop" /\ UNCHANGED <<jobs, next>>
  /\ UNCHANGED <<topic, outcome, err, results, kept, worker, served, cancelled>>

Leave(e) == main' = "close" /\ err' = e
Stay == UNCHANGED err

\* The loop over the pages checks the run's context before each.
Loop ==
  /\ main = "loop"
  /\ CASE cancelled -> Leave("cancelled")
       [] ~cancelled /\ topic > Topics -> Leave("nil")
       [] OTHER -> main' = "wait" /\ Stay
  /\ UNCHANGED <<topic, next, outcome, channelVars, worker, served, cancelled>>

\* The result of the topic that is waited for.
Took(is) ==
  /\ outcome' = [outcome EXCEPT ![topic] = is]
  /\ IF is = "failed" THEN Leave("failed") ELSE main' = "advance" /\ Stay

KeptFor(t) == {r \in kept : r.topic = t}

\* topicPrefetch.wait: a result kept earlier, the next result, or the end of
\* the context.  A failure of another topic stops the archive at once.
TakesAny(r) == TRUE
IsWaitedFor(r) == r.topic = topic

Wait ==
  /\ main = "wait"
  /\ \/ \E r \in KeptFor(topic) : kept' = kept \ {r} /\ Took(r.is) /\ UNCHANGED results
     \/ /\ KeptFor(topic) = {} /\ results # <<>>
        /\ results' = Tail(results)
        /\ LET r == Head(results) IN
           \/ IsWaitedFor(r) /\ Took(r.is) /\ UNCHANGED kept
           \/ ~IsWaitedFor(r) /\ r.is = "failed" /\ Leave("failed") /\ UNCHANGED <<outcome, kept>>
           \/ ~IsWaitedFor(r) /\ r.is # "failed" /\ kept' = kept \cup {r} /\ UNCHANGED <<main, outcome, err>>
     \/ KeptFor(topic) = {} /\ cancelled /\ Leave("cancelled") /\ UNCHANGED <<outcome, results, kept>>
  /\ UNCHANGED <<topic, next, jobs, worker, served, cancelled>>

\* topicPrefetch.advance: one topic more for the workers.  A topic that the
\* publisher does not serve is not read.
AdvanceForgotten == UNCHANGED <<jobs, next>>
AdvanceOne == IF next <= Topics THEN Send(next) /\ next' = next + 1 ELSE UNCHANGED <<jobs, next>>

Advance ==
  /\ main = "advance"
  /\ AdvanceOne
  /\ IF outcome[topic] = "missing"
     THEN topic' = topic + 1 /\ main' = "loop"
     ELSE main' = "read" /\ UNCHANGED topic
  /\ UNCHANGED <<outcome, err, results, kept, worker, served, cancelled>>

\* readPage, from the cache the worker filled, and the checks of the page, which
\* may refuse it.  A page found unpublished only here is skipped as well.
Read ==
  /\ main = "read"
  /\ \/ topic' = topic + 1 /\ main' = "loop" /\ Stay
     \/ Leave("failed") /\ UNCHANGED topic
  /\ UNCHANGED <<next, outcome, channelVars, worker, served, cancelled>>

\* topicPrefetch.close waits for the workers.
Close ==
  /\ main = "close" /\ \A w \in Workers : worker[w] = Gone
  /\ main' = "done"
  /\ UNCHANGED <<topic, next, outcome, err, channelVars, worker, served, cancelled>>

-----------------------------------------------------------------------------
(* The workers.                                                            *)

Take(w) ==
  /\ worker[w] = Ready /\ jobs # <<>>
  /\ worker' = [worker EXCEPT ![w] = Head(jobs)]
  /\ jobs' = Tail(jobs)
  /\ UNCHANGED <<mainVars, results, kept, served, cancelled>>

\* ctx.Done is ready, or jobs is closed.
Stop(w) ==
  /\ worker[w] = Ready /\ Stopped
  /\ worker' = [worker EXCEPT ![w] = Gone]
  /\ UNCHANGED <<mainVars, channelVars, served, cancelled>>

\* A failure other than a topic that is not served ends the worker.
AfterDownload(is) == IF is = "failed" THEN Gone ELSE Ready

Download(w) ==
  /\ worker[w] \in 1 .. Topics /\ Len(results) < Window
  /\ \E is \in {"ok", "missing", "failed"} :
       /\ results' = Append(results, [topic |-> worker[w], is |-> is])
       /\ served' = [served EXCEPT ![worker[w]] = is]
       /\ worker' = [worker EXCEPT ![w] = AfterDownload(is)]
  /\ UNCHANGED <<mainVars, jobs, kept, cancelled>>

\* A signal ends the run's context.
Cancel == /\ MayCancel /\ ~cancelled /\ main # "done" /\ cancelled' = TRUE
          /\ UNCHANGED <<mainVars, channelVars, worker, served>>

-----------------------------------------------------------------------------
Init ==
  /\ main = "push" /\ topic = 1 /\ next = 1
  /\ jobs = <<>> /\ results = <<>> /\ kept = {}
  /\ worker = [w \in Workers |-> Ready]
  /\ served = [t \in 1 .. Topics |-> "none"]
  /\ outcome = [t \in 1 .. Topics |-> "none"]
  /\ cancelled = FALSE /\ err = "nil"

MainStep == Push \/ Loop \/ Wait \/ Advance \/ Read \/ Close
WorkerStep(w) == Take(w) \/ Stop(w) \/ Download(w)
Rest == main = "done" /\ UNCHANGED vars

Next == MainStep \/ (\E w \in Workers : WorkerStep(w)) \/ Cancel \/ Rest

Spec == Init /\ [][Next]_vars

\* Goroutines are scheduled and downloads end; nothing obliges anyone to cancel.
Fairness == WF_vars(MainStep) /\ \A w \in Workers : WF_vars(WorkerStep(w))
FairSpec == Spec /\ Fairness

-----------------------------------------------------------------------------
(* Properties.                                                             *)

TypeOK ==
  /\ main \in {"push", "loop", "wait", "advance", "read", "close", "done"}
  /\ topic \in 1 .. Topics + 1 /\ next \in 1 .. Topics + 1
  /\ jobs \in Seq(1 .. Topics) /\ Len(jobs) <= Limit
  /\ results \in Seq(Results)
  /\ kept \subseteq Results
  /\ worker \in [Workers -> 0 .. Topics + 1]
  /\ served \in [1 .. Topics -> {"none", "ok", "missing", "failed"}]
  /\ outcome \in [1 .. Topics -> {"none", "ok", "missing", "failed"}]
  /\ cancelled \in BOOLEAN
  /\ err \in {"nil", "failed", "cancelled"}

\* Results arrive in any order, yet a topic is treated by its own result: an
\* unpublished one is never blamed on a neighbour.
OwnResult == \A t \in 1 .. Topics : outcome[t] # "none" => outcome[t] = served[t]

\* At most Window topics are handed over and not yet taken, so that the results
\* channel never makes a worker wait and an archive that stops early has not
\* asked for the whole guide.
Downloading == {w \in Workers : worker[w] \in 1 .. Topics}
WindowKept == Len(jobs) + Cardinality(Downloading) + Len(results) + Cardinality(kept) <= Window

\* inventory succeeds only when every planned topic was served or is known to
\* be unpublished.
SuccessIsComplete ==
  main = "done" /\ err = "nil" => \A t \in 1 .. Topics : outcome[t] \in {"ok", "missing"}

\* A topic is treated by its own result, the window is kept and success is
\* complete, in whatever order the workers answer.
PrefetchSound == OwnResult /\ WindowKept /\ SuccessIsComplete

\* Where the inventory comes to rest while nobody cancels: the archive never waits
\* for workers that have gone or for a channel that nobody empties.
InventoryReturned == cancelled \/ main = "done"

\* "Closing the terminal, a dropped SSH session, or kill stop the run the same
\* way, with exit code 130": a cancelled archive returns.
CancelledReturns == cancelled ~> main = "done"
=============================================================================
