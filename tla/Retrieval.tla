------------------------------ MODULE Retrieval ------------------------------
(***************************************************************************)
(* The retrievals of one Client from one origin: internal/fetch/http.go    *)
(* with the deadlines of deadline.go and the leases of compatible.go.      *)
(*                                                                         *)
(* A retrieval is one call of Download and the worker that makes it.  It   *)
(* makes attempts until one is consumed, fails for good or Retries are     *)
(* used up.  An attempt waits for the origin's robots rules, which one     *)
(* retrieval reads for all, then for a lease of the backend, then for the  *)
(* origin's pause and pacing, and only then sends its request.             *)
(*                                                                         *)
(* Time is discrete: deadlines, timers, the pause and the pacing gap are   *)
(* countdowns that Tick moves together, and Tick waits for every step that *)
(* takes no time.  One unit stands for 15 seconds of the default settings. *)
(***************************************************************************)
EXTENDS FiniteSets, Integers

CONSTANTS Retrievals,    \* calls of Download
          Nobody,        \* no retrieval
          Impatient,     \* calls whose caller may give up
          Slots,         \* leases of the backend: cap(compatibilityBackend.slots)
          Retries,       \* Config.Retries
          AttemptTime,   \* Config.AttemptTimeout
          OverallTime,   \* Config.Timeout
          Gap,           \* Config.Delay, or the Crawl-delay
          LongestPause,  \* the two minutes of stallDelay
          MaxHops,       \* redirects that one attempt follows (10 in the code)
          MaxChunks      \* bound: reads in which one body makes progress

ASSUME RetrievalsAssumption == /\ Nobody \notin Retrievals /\ IsFiniteSet(Retrievals)
                               /\ Impatient \subseteq Retrievals
ASSUME LimitsAssumption ==
  /\ {Slots, AttemptTime, OverallTime, LongestPause} \subseteq Nat \ {0}
  /\ Retries \in 0..10                    \* Config.Validate
  /\ {Gap, MaxHops, MaxChunks} \subseteq Nat
  /\ AttemptTime <= OverallTime

VARIABLES
  req,      \* req[q]: the call's position, contexts, counters and error
  robots,   \* Client.robots[origin]: who reads the rules, and what came of it
  leases,   \* the retrievals that hold a slot of the backend
  paused,   \* time until Client.paused[origin]
  gap       \* time until Client.last[origin] + gap

vars == <<req, robots, leases, paused, gap>>

Errors == {"transient", "status", "context", "final"}
NewCall == [pc |-> "idle", task |-> "content", err |-> "nil", heard |-> "loading", used |-> 0,
            hops |-> 0, chunks |-> 0, attempt |-> 0, overall |-> 0, wake |-> 0,
            cancelled |-> FALSE, outcome |-> "none"]
NoRules == [by |-> Nobody, verdict |-> "loading"]

\* attemptCtx.Err and overallCtx.Err are set.
OverallEnded(q) == req[q].cancelled \/ req[q].overall = 0
CallerEnded(q) == req[q].cancelled
AttemptEnded(q) == OverallEnded(q) \/ req[q].attempt = 0

At(q, l) == req[q].pc = l
Goto(q, l) == req' = [req EXCEPT ![q].pc = l]
Live(q) == req[q].pc \notin {"idle", "done"}

-----------------------------------------------------------------------------
(* The end of an attempt and of a call.                                    *)

\* What Client.execute returns.
End(q, outcome) == [req EXCEPT ![q] = [NewCall EXCEPT !.pc = "done", !.used = req[q].used,
                                                       !.outcome = outcome]]

\* The response body is closed, which returns the lease.
Released(q) == leases \ {q}

\* The call fails with e; a reader of robots rules first tells the others.
Fail(q, e) ==
  /\ req' = [req EXCEPT ![q].err = e, ![q].heard = "loading", ![q].wake = 0, ![q].hops = 0, ![q].chunks = 0,
                        ![q].pc = IF req[q].task = "rules" THEN "tell" ELSE "settle"]
  /\ leases' = Released(q)
  /\ UNCHANGED <<robots, paused, gap>>

\* The longer of two pauses stands.
Larger(a, b) == IF a >= b THEN a ELSE b
Smaller(a, b) == IF a <= b THEN a ELSE b
StallDelay(used) == Smaller(((AttemptTime * 2) \div 3) * 2^used, LongestPause)

\* normalizeAttemptFailure: what the attempt failed of.
Stalled(q) == req[q].attempt = 0 \/ req[q].err = "transient"
Retryable(q) == Stalled(q) \/ req[q].err = "status"
RetriesLeft(q) == req[q].used < Retries

\* The end of retrieve's loop body, and Client.retry up to its wait.
Settle(q) ==
  /\ At(q, "settle")
  /\ \/ /\ req[q].cancelled /\ req' = End(q, "cancelled") /\ UNCHANGED paused
     \/ /\ ~req[q].cancelled /\ req[q].overall = 0
        /\ req' = End(q, "overall") /\ UNCHANGED paused
     \/ /\ ~OverallEnded(q) /\ ~(Retryable(q) /\ RetriesLeft(q))
        /\ req' = End(q, "failed") /\ UNCHANGED paused
     \/ /\ ~OverallEnded(q) /\ Stalled(q) /\ RetriesLeft(q)
        /\ LET delay == StallDelay(req[q].used) IN
           /\ paused' = Larger(paused, delay)
           /\ req' = [req EXCEPT ![q].pc = "backoff", ![q].wake = delay, ![q].attempt = 0]
     \/ /\ ~OverallEnded(q) /\ ~Stalled(q) /\ Retryable(q) /\ RetriesLeft(q)
        /\ \/ req' = [req EXCEPT ![q].pc = "backoff", ![q].wake = 1, ![q].attempt = 0]
           \/ req' = End(q, "failed")       \* Retry-After is too long
        /\ UNCHANGED paused
  /\ UNCHANGED <<robots, leases, gap>>

BackedOff(q) ==
  /\ At(q, "backoff")
  /\ \/ OverallEnded(q) /\ req' = End(q, IF req[q].cancelled THEN "cancelled" ELSE "overall")
     \/ req[q].wake = 0 /\ req' = [req EXCEPT ![q].pc = "attempt", ![q].used = @ + 1]
  /\ UNCHANGED <<robots, leases, paused, gap>>

-----------------------------------------------------------------------------
(* An attempt, up to the request.                                          *)

Begin(q) ==
  /\ At(q, "idle")
  /\ req' = [req EXCEPT ![q].pc = "attempt", ![q].overall = OverallTime]
  /\ UNCHANGED <<robots, leases, paused, gap>>

Attempt(q) ==
  /\ At(q, "attempt")
  /\ IF OverallEnded(q)
     THEN req' = End(q, IF req[q].cancelled THEN "cancelled" ELSE "overall")
     ELSE req' = [req EXCEPT ![q].pc = "robots", ![q].attempt = AttemptTime, ![q].err = "nil"]
  /\ UNCHANGED <<robots, leases, paused, gap>>

\* checkRobots: the first call for the origin reads the rules, the others wait.
RulesUnread == robots.verdict # "ok"
RulesUnclaimed == robots = NoRules

CheckRobots(q) ==
  /\ At(q, "robots")
  /\ IF RulesUnclaimed
     THEN /\ robots' = [by |-> q, verdict |-> "loading"]
          /\ req' = [req EXCEPT ![q].pc = "lease", ![q].task = "rules"]
     ELSE /\ req' = [req EXCEPT ![q].pc = "await", ![q].heard = robots.verdict]
          /\ UNCHANGED robots
  /\ UNCHANGED <<leases, paused, gap>>

\* The reader closes the ready channel of its robotsState.
TellRobots(q) ==
  /\ At(q, "tell")
  /\ LET verdict == IF req[q].err = "nil" THEN "ok" ELSE req[q].err IN
     /\ robots' = [robots EXCEPT !.verdict = verdict]
     /\ req' = [p \in Retrievals |->
                  IF p = q THEN [req[q] EXCEPT !.pc = "forget", !.task = "content", !.heard = verdict]
                  ELSE IF At(p, "await") /\ req[p].heard = "loading" THEN [req[p] EXCEPT !.heard = verdict]
                  ELSE req[p]]
  /\ UNCHANGED <<leases, paused, gap>>

\* Rules that could not be read this time are read again by a later call.
RulesAfter(q) == IF req[q].heard \in {"transient", "status", "context"} THEN NoRules ELSE robots

ForgetRobots(q) ==
  /\ At(q, "forget")
  /\ robots' = RulesAfter(q)
  /\ req' = [req EXCEPT ![q].pc = "await", ![q].err = "nil"]
  /\ UNCHANGED <<leases, paused, gap>>

RulesRead(q) == req[q].heard = "ok"

AwaitRobots(q) ==
  /\ At(q, "await")
  /\ \/ AttemptEnded(q) /\ Fail(q, "context")
     \/ req[q].heard \in Errors /\ Fail(q, req[q].heard)
     \/ RulesRead(q) /\ Fail(q, "final")          \* the rules disallow the URL
     \/ /\ RulesRead(q)
        /\ req' = [req EXCEPT ![q].pc = "lease", ![q].heard = "loading"]
        /\ UNCHANGED <<robots, leases, paused, gap>>

\* The backend admits at most Slots requests; pacing follows the admission.
Lease(q) ==
  /\ At(q, "lease")
  /\ \/ AttemptEnded(q) /\ Fail(q, "context")
     \/ /\ Cardinality(leases) < Slots
        /\ leases' = leases \cup {q}
        /\ Goto(q, "pace")
        /\ UNCHANGED <<robots, paused, gap>>

\* throttle: wait out the pause, then the gap, and look again after each wait.
Throttle(q) ==
  /\ At(q, "pace")
  /\ \/ AttemptEnded(q) /\ Fail(q, "context")
     \/ /\ ~AttemptEnded(q) /\ paused > 0
        /\ req' = [req EXCEPT ![q].pc = "pausing", ![q].wake = paused]
        /\ UNCHANGED <<robots, leases, paused, gap>>
     \/ /\ ~AttemptEnded(q) /\ paused = 0 /\ gap > 0
        /\ req' = [req EXCEPT ![q].pc = "spacing", ![q].wake = gap]
        /\ UNCHANGED <<robots, leases, paused, gap>>
     \/ /\ ~AttemptEnded(q) /\ paused = 0 /\ gap = 0
        /\ gap' = Gap /\ Goto(q, "sent")
        /\ UNCHANGED <<robots, leases, paused>>

\* Where throttle goes on after a wait.
StartsAtOnce == "sent"
LooksAgain == "pace"

Woken(q) ==
  /\ req[q].pc \in {"pausing", "spacing"}
  /\ \/ AttemptEnded(q) /\ Fail(q, "context")
     \/ req[q].wake = 0 /\ Goto(q, LooksAgain) /\ UNCHANGED <<robots, leases, paused, gap>>

-----------------------------------------------------------------------------
(* The response.                                                           *)

\* The body of a redirect is closed before the next hop.
RedirectKept(q) == leases
RedirectClosed(q) == Released(q)

Answer(q) ==
  /\ At(q, "sent")
  /\ \/ AttemptEnded(q) /\ Fail(q, "context")
     \/ \E e \in {"transient", "status", "final"} : Fail(q, e)
     \/ Goto(q, "body") /\ UNCHANGED <<robots, leases, paused, gap>>
     \/ /\ req[q].hops < MaxHops
        /\ req' = [req EXCEPT ![q].hops = @ + 1,
                              ![q].pc = IF req[q].task = "rules" THEN "lease" ELSE "robots"]
        /\ leases' = RedirectClosed(q)
        /\ UNCHANGED <<robots, paused, gap>>

\* Bytes arrive: the attempt deadline restarts, and a body that is not a
\* trickle postpones the overall deadline (bodyProgress).
Progress(q) ==
  /\ At(q, "body") /\ req[q].task = "content" /\ ~AttemptEnded(q)
  /\ req[q].chunks < MaxChunks
  /\ \E overall \in {req[q].overall, Larger(req[q].overall, AttemptTime)} :
       req' = [req EXCEPT ![q].chunks = @ + 1, ![q].attempt = AttemptTime, ![q].overall = overall]
  /\ UNCHANGED <<robots, leases, paused, gap>>

Body(q) ==
  /\ At(q, "body")
  /\ \/ AttemptEnded(q) /\ Fail(q, "context")
     \/ Fail(q, "transient")                             \* the body breaks off
     \/ Fail(q, "final")                                 \* too large, or not accepted
     \/ /\ req[q].task = "content"
        /\ req' = End(q, "ok") /\ leases' = Released(q)
        /\ UNCHANGED <<robots, paused, gap>>
     \/ /\ req[q].task = "rules"
        /\ req' = [req EXCEPT ![q].pc = "tell", ![q].hops = 0] /\ leases' = Released(q)
        /\ UNCHANGED <<robots, paused, gap>>

\* The caller's context ends.
EndContext(q) ==
  /\ q \in Impatient /\ Live(q) /\ ~req[q].cancelled
  /\ req' = [req EXCEPT ![q].cancelled = TRUE]
  /\ UNCHANGED <<robots, leases, paused, gap>>

-----------------------------------------------------------------------------
(* Time.                                                                   *)

Instant == {"attempt", "robots", "tell", "forget", "pace", "settle"}
Timed == {"pausing", "spacing", "backoff"}

\* q has a step to take that waits for nothing.
Urgent(q) == \/ req[q].pc \in Instant
             \/ req[q].pc \in Timed /\ req[q].wake = 0
             \/ At(q, "backoff") /\ OverallEnded(q)
             \/ At(q, "await") /\ req[q].heard # "loading"
             \/ At(q, "lease") /\ Cardinality(leases) < Slots
             \/ Live(q) /\ ~At(q, "backoff") /\ AttemptEnded(q)

Less(n) == Larger(n - 1, 0)

Tick ==
  /\ \E q \in Retrievals : Live(q)
  /\ \A q \in Retrievals : ~Urgent(q)
  /\ req' = [q \in Retrievals |->
               IF Live(q) THEN [req[q] EXCEPT !.attempt = Less(@), !.overall = Less(@), !.wake = Less(@)]
               ELSE req[q]]
  /\ paused' = Less(paused) /\ gap' = Less(gap)
  /\ UNCHANGED <<robots, leases>>

-----------------------------------------------------------------------------
Init == /\ req = [q \in Retrievals |-> NewCall]
        /\ robots = NoRules
        /\ leases = {}
        /\ paused = 0 /\ gap = 0

Step(q) == \/ Attempt(q) \/ CheckRobots(q) \/ TellRobots(q) \/ ForgetRobots(q)
           \/ AwaitRobots(q) \/ Lease(q) \/ Throttle(q) \/ Woken(q)
           \/ Answer(q) \/ Body(q) \/ Settle(q) \/ BackedOff(q)

\* Without a call under way the client may be left as it is.
Idle == (\A q \in Retrievals : ~Live(q)) /\ UNCHANGED vars

Next == \/ \E q \in Retrievals : Begin(q) \/ Step(q) \/ Progress(q) \/ EndContext(q)
        \/ Tick \/ Idle

Spec == Init /\ [][Next]_vars

\* Time passes and workers are scheduled.  The server owes nothing: an answer
\* or a body that never comes is ended by a deadline, so Answer and Body are
\* fair only once one has passed.
FairSpec ==
  /\ Spec
  /\ WF_vars(Tick)
  /\ \A q \in Retrievals : WF_vars(Urgent(q) /\ Step(q))

-----------------------------------------------------------------------------
(* Properties.                                                             *)

Labels == Instant \cup Timed \cup {"idle", "await", "lease", "sent", "body", "done"}
Calls == [pc : Labels, task : {"content", "rules"}, err : Errors \cup {"nil"},
          heard : Errors \cup {"loading", "ok"}, used : 0..Retries, hops : 0..MaxHops,
          chunks : 0..MaxChunks, attempt : 0..AttemptTime, overall : 0..OverallTime,
          wake : Nat, cancelled : BOOLEAN,
          outcome : {"none", "ok", "failed", "cancelled", "overall"}]

\* Type invariant of the calls, the robots entry, the leases and the timers.
TypeOK ==
  /\ req \in [Retrievals -> Calls]
  /\ robots \in [by : Retrievals \cup {Nobody}, verdict : Errors \cup {"loading", "ok"}]
  /\ leases \subseteq Retrievals
  /\ paused \in Nat /\ gap \in 0..Gap

\* The rules of an origin are read by one retrieval at a time, the one that
\* the others wait for (Client.robots), and no content is requested before they
\* were read and allow it, whoever read them and however often that failed.
RulesFirst ==
  \A q \in Retrievals :
    /\ req[q].task = "rules" => robots = [by |-> q, verdict |-> "loading"]
    /\ req[q].task = "content" /\ req[q].pc \in {"sent", "body"} => robots.verdict = "ok"

\* A lease is held from admission to the end of the body, by the request that
\* uses it: none is lost on an error, a redirect or a retry, and none is held
\* by a retrieval that waits for another one.
LeasesInUse ==
  /\ leases = {q \in Retrievals : req[q].pc \in {"pace", "pausing", "spacing", "sent", "body"}}
  /\ Cardinality(leases) <= Slots

\* A request starts only when the origin is not paused and the gap since the
\* last start has passed, whichever waits it went through, and only while its
\* call has attempts left.
StartsSpaced ==
  [][\A q \in Retrievals : ~At(q, "sent") /\ req'[q].pc = "sent" =>
       paused = 0 /\ gap = 0 /\ gap' = Gap /\ req[q].used <= Retries]_vars

\* Every retrieval ends, though the server may never answer: nobody waits for
\* ever on robots rules, a lease, a pause or another retrieval.
RetrievalsEnd == \A q \in Retrievals : Live(q) ~> At(q, "done")
=============================================================================
