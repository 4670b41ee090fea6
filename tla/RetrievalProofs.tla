--------------------------- MODULE RetrievalProofs ---------------------------
(***************************************************************************)
(* What holds of Retrieval for every set of retrievals, every number of    *)
(* leases and retries and every deadline: types, robots rules before       *)
(* content, leases only in use, and requests that respect pause and gap.   *)
(*                                                                         *)
(* All but three steps change one call and leave the robots entry alone    *)
(* (OneCall); the argument for the others is about who may hold the entry. *)
(***************************************************************************)
EXTENDS Retrieval, FiniteSetTheorems, TLAPS

\* The positions at which a call holds a lease.
Leasing == {"pace", "pausing", "spacing", "sent", "body"}

Robots == [by : Retrievals \cup {Nobody}, verdict : Errors \cup {"loading", "ok"}]

\* What a call at its position may rely on: the robots entry r, and a retry left.
CallOK(c, q, r) ==
  /\ c.task = "rules" => r = [by |-> q, verdict |-> "loading"] /\ c.pc \in Leasing \cup {"lease", "tell"}
  /\ c.task = "content" /\ c.pc \in Leasing \cup {"lease"} => r.verdict = "ok"
  /\ c.heard = "ok" => r.verdict = "ok"
  /\ c.pc = "forget" => r = [by |-> q, verdict |-> c.heard] /\ c.heard # "loading"
  /\ c.pc = "tell" => c.task = "rules"
  /\ c.pc = "backoff" => c.used < Retries

CallsOK == \A q \in Retrievals : CallOK(req[q], q, robots)

LeasesOK == /\ leases = {q \in Retrievals : req[q].pc \in Leasing}
            /\ Cardinality(leases) <= Slots

Inv == TypeOK /\ CallsOK /\ LeasesOK

LEMMA Numbers ==
  /\ \A a, b \in Nat : Larger(a, b) \in Nat /\ Smaller(a, b) \in Nat /\ Less(a) \in Nat
  /\ \A m \in Nat : \A a \in 0..m : Less(a) \in 0..m
  /\ \A m \in Nat : \A a, b \in 0..m : Larger(a, b) \in 0..m
BY DEF Larger, Smaller, Less

\* The shift of stallDelay: Config.Validate bounds Retries.
LEMMA PowerIsNat == \A n \in 0..Retries : 2^n \in Nat
<1>0. 0..Retries \subseteq 0..10
  BY LimitsAssumption
<1> SUFFICES ASSUME NEW n \in 0..10 PROVE 2^n \in Nat
  BY <1>0, Zenon
<1>1. n \in {0, 1, 2, 3, 4, 5, 6, 7, 8, 9, 10}
  OBVIOUS
<1>2. /\ 2^0 \in Nat /\ 2^1 \in Nat /\ 2^2 \in Nat /\ 2^3 \in Nat /\ 2^4 \in Nat /\ 2^5 \in Nat
      /\ 2^6 \in Nat /\ 2^7 \in Nat /\ 2^8 \in Nat /\ 2^9 \in Nat /\ 2^10 \in Nat
  OBVIOUS
<1> QED BY <1>1, <1>2, Zenon

LEMMA StallIsNat == \A n \in 0..Retries : StallDelay(n) \in Nat
<1> SUFFICES ASSUME NEW n \in 0..Retries PROVE StallDelay(n) \in Nat
  OBVIOUS
<1>1. n \in Nat /\ 2^n \in Nat
  BY PowerIsNat, LimitsAssumption
<1>2. ((AttemptTime * 2) \div 3) \in Nat
  BY LimitsAssumption
<1>3. ((AttemptTime * 2) \div 3) * 2^n \in Nat
  BY <1>1, <1>2
<1> QED BY <1>3, LimitsAssumption DEF StallDelay, Smaller

-----------------------------------------------------------------------------
(* Steps of one call that leave the robots entry alone.                    *)

\* Its leases go with its position.
Counted(q, c) == /\ leases' = IF c.pc \in Leasing THEN leases \cup {q} ELSE leases \ {q}
                 /\ c.pc \in Leasing /\ q \notin leases => Cardinality(leases) < Slots

LEMMA CountedLeases ==
  ASSUME NEW q \in Retrievals, NEW c, LeasesOK, Counted(q, c),
         req'[q] = c, \A p \in Retrievals \ {q} : req'[p].pc = req[p].pc
  PROVE  LeasesOK'
<1>1. IsFiniteSet(leases)
  BY RetrievalsAssumption, FS_Subset DEF LeasesOK
<1>2. Cardinality(leases') <= Slots
  <2>1. CASE c.pc \in Leasing
    <3>1. /\ Cardinality(leases \cup {q}) = IF q \in leases THEN Cardinality(leases) ELSE Cardinality(leases) + 1
          /\ Cardinality(leases) \in Nat
      BY <1>1, FS_AddElement, FS_CardinalityType
    <3> QED BY <2>1, <3>1, LimitsAssumption DEF LeasesOK, Counted
  <2>2. CASE c.pc \notin Leasing
    <3>1. /\ Cardinality(leases \ {q}) = IF q \in leases THEN Cardinality(leases) - 1 ELSE Cardinality(leases)
          /\ Cardinality(leases) \in Nat
      BY <1>1, FS_RemoveElement, FS_CardinalityType
    <3> QED BY <2>2, <3>1, LimitsAssumption DEF LeasesOK, Counted
  <2> QED BY <2>1, <2>2
<1>3. leases' = {p \in Retrievals : req'[p].pc \in Leasing}
  BY DEF LeasesOK, Counted
<1> QED BY <1>2, <1>3 DEF LeasesOK

LEMMA OneCall ==
  ASSUME NEW q \in Retrievals, NEW c \in Calls, Inv, req' = [req EXCEPT ![q] = c],
         UNCHANGED robots, CallOK(c, q, robots), Counted(q, c),
         paused' \in Nat, gap' \in 0..Gap
  PROVE  Inv'
<1>1. req'[q] = c /\ \A p \in Retrievals \ {q} : req'[p] = req[p]
  BY DEF Inv, TypeOK
<1>2. TypeOK'
  BY DEF Inv, TypeOK, Counted
<1>3. CallsOK'
  BY <1>1 DEF Inv, CallsOK
<1>4. LeasesOK'
  BY <1>1, CountedLeases DEF Inv
<1> QED BY <1>2, <1>3, <1>4 DEF Inv

\* A call that keeps its place among the lease holders.
LEMMA SamePlace ==
  ASSUME NEW q \in Retrievals, NEW c, Inv, UNCHANGED leases, c.pc \in Leasing <=> req[q].pc \in Leasing
  PROVE  Counted(q, c)
BY DEF Inv, LeasesOK, Counted

LEMMA LetGo ==
  ASSUME NEW q \in Retrievals, NEW c, leases' = Released(q), c.pc \notin Leasing
  PROVE  Counted(q, c)
BY DEF Released, Counted

LEMMA NoMore ==
  ASSUME NEW q \in Retrievals, NEW c, Inv, UNCHANGED leases, c.pc \notin Leasing, req[q].pc \notin Leasing
  PROVE  Counted(q, c)
BY SamePlace

LEMMA FailKeeps ==
  ASSUME NEW q \in Retrievals, NEW e \in Errors, Inv, Fail(q, e), req[q].pc \in Leasing \cup {"lease", "await"}
  PROVE  Inv'
<1> DEFINE c == [req[q] EXCEPT !.err = e, !.heard = "loading", !.wake = 0, !.hops = 0, !.chunks = 0,
                               !.pc = IF req[q].task = "rules" THEN "tell" ELSE "settle"]
<1>1. req[q] \in Calls /\ CallOK(req[q], q, robots)
  BY DEF Inv, TypeOK, CallsOK
<1>2. c \in Calls /\ c.pc \notin Leasing
  <2>1. 0 \in 0..MaxHops /\ 0 \in 0..MaxChunks /\ 0 \in Nat
    BY LimitsAssumption
  <2>2. {"tell", "settle"} \subseteq Labels \ Leasing
    BY DEF Labels, Instant, Timed, Leasing
  <2> QED BY <1>1, <2>1, <2>2 DEF Calls
<1>3. CallOK(c, q, robots)
  BY <1>1 DEF CallOK, Calls, Leasing
<1>4. req' = [req EXCEPT ![q] = c]
  BY DEF Fail
<1> HIDE DEF c
<1> QED BY <1>2, <1>3, <1>4, LetGo, OneCall DEF Fail, Inv, TypeOK

LEMMA EndKeeps ==
  ASSUME NEW q \in Retrievals, NEW o \in {"none", "ok", "failed", "cancelled", "overall"},
         Inv, req' = End(q, o), leases' = Released(q) \/ (UNCHANGED leases /\ req[q].pc \notin Leasing),
         UNCHANGED <<robots, paused, gap>>
  PROVE  Inv'
<1> DEFINE c == [NewCall EXCEPT !.pc = "done", !.used = req[q].used, !.outcome = o]
<1>1. req[q] \in Calls
  BY DEF Inv, TypeOK
<1>2. c \in Calls /\ c.pc \notin Leasing
  <2>1. 0 \in 0..MaxHops /\ 0 \in 0..MaxChunks /\ 0 \in 0..AttemptTime /\ 0 \in 0..OverallTime /\ 0 \in Nat
    BY LimitsAssumption
  <2>2. "done" \in Labels \ Leasing
    BY DEF Labels, Instant, Timed, Leasing
  <2> QED BY <1>1, <2>1, <2>2 DEF Calls, NewCall
<1>3. CallOK(c, q, robots)
  BY DEF CallOK, NewCall, Leasing
<1>4. req' = [req EXCEPT ![q] = c]
  BY DEF End
<1> HIDE DEF c
<1>5. Counted(q, c)
  BY <1>2, LetGo, NoMore
<1> QED BY <1>2, <1>3, <1>4, <1>5, OneCall DEF Inv, TypeOK

\* A call moves on and keeps its lease, if it has one.
LEMMA MoveKeeps ==
  ASSUME NEW q \in Retrievals, NEW c \in Calls, Inv, req' = [req EXCEPT ![q] = c],
         UNCHANGED <<robots, leases>>, CallOK(c, q, robots), c.pc \in Leasing <=> req[q].pc \in Leasing,
         paused' \in Nat, gap' \in 0..Gap
  PROVE  Inv'
<1>1. Counted(q, c)
  BY SamePlace
<1> QED BY <1>1, OneCall

\* A call that holds no lease moves on without one.
LEMMA StayOut ==
  ASSUME NEW q \in Retrievals, NEW c \in Calls, Inv, req' = [req EXCEPT ![q] = c],
         UNCHANGED <<robots, leases, gap>>, paused' \in Nat, CallOK(c, q, robots),
         c.pc \notin Leasing, req[q].pc \notin Leasing
  PROVE  Inv'
<1>1. gap' \in 0..Gap
  BY DEF Inv, TypeOK
<1> QED BY <1>1, MoveKeeps

\* Positions without a lease, and the initial values of the counters.
LEMMA Positions ==
  /\ Leasing \cup {"idle", "attempt", "robots", "tell", "forget", "await", "lease", "settle", "backoff", "done"}
       \subseteq Labels
  /\ Leasing \cap {"idle", "attempt", "robots", "tell", "forget", "await", "lease", "settle", "backoff", "done"} = {}
BY DEF Leasing, Labels, Instant, Timed

LEMMA Bounds ==
  /\ 0 \in Nat /\ 0 \in 0..Retries /\ 0 \in 0..MaxHops /\ 0 \in 0..MaxChunks /\ 0 \in 0..Gap
  /\ {0, AttemptTime} \subseteq 0..AttemptTime /\ {0, OverallTime} \subseteq 0..OverallTime
BY LimitsAssumption

-----------------------------------------------------------------------------
(* The steps.                                                              *)

LEMMA CallShape ==
  ASSUME NEW q \in Retrievals, Inv
  PROVE  req[q] \in Calls /\ CallOK(req[q], q, robots) /\ paused \in Nat /\ gap \in 0..Gap
BY DEF Inv, TypeOK, CallsOK

LEMMA SettleKeeps ==
  ASSUME NEW q \in Retrievals, Inv, Settle(q)
  PROVE  Inv'
<1>1. req[q].pc = "settle" /\ req[q].pc \notin Leasing /\ UNCHANGED <<robots, leases, gap>>
  BY DEF Settle, At, Leasing
<1>2. CASE \E o \in {"cancelled", "overall", "failed"} : req' = End(q, o) /\ UNCHANGED paused
  BY <1>1, <1>2, EndKeeps
<1>3. ASSUME NEW w \in Nat, paused' \in Nat, RetriesLeft(q),
             req' = [req EXCEPT ![q].pc = "backoff", ![q].wake = w, ![q].attempt = 0]
      PROVE  Inv'
  <2> DEFINE c == [req[q] EXCEPT !.pc = "backoff", !.wake = w, !.attempt = 0]
  <2>1. c \in Calls /\ c.pc \notin Leasing
    BY CallShape, Positions, Bounds DEF Calls
  <2>2. CallOK(c, q, robots)
    BY <1>1, <1>3, CallShape DEF CallOK, Calls, Leasing, RetriesLeft
  <2>3. req' = [req EXCEPT ![q] = c]
    BY <1>3
  <2> HIDE DEF c
  <2> QED BY <1>1, <1>3, <2>1, <2>2, <2>3, StayOut, CallShape
<1>4. StallDelay(req[q].used) \in Nat
  BY CallShape, StallIsNat DEF Calls
<1>5. Larger(paused, StallDelay(req[q].used)) \in Nat
  BY <1>4, CallShape, Numbers
<1> QED BY <1>2, <1>3, <1>4, <1>5, CallShape DEF Settle

LEMMA BackedOffKeeps ==
  ASSUME NEW q \in Retrievals, Inv, BackedOff(q)
  PROVE  Inv'
<1>1. req[q].pc = "backoff" /\ req[q].pc \notin Leasing /\ UNCHANGED <<robots, leases, paused, gap>>
  BY DEF BackedOff, At, Leasing
<1>2. CASE \E o \in {"cancelled", "overall"} : req' = End(q, o)
  BY <1>1, <1>2, EndKeeps
<1>3. CASE req' = [req EXCEPT ![q].pc = "attempt", ![q].used = @ + 1]
  <2> DEFINE c == [req[q] EXCEPT !.pc = "attempt", !.used = @ + 1]
  <2>1. req[q].used + 1 \in 0..Retries
    BY <1>1, CallShape, LimitsAssumption DEF Calls, CallOK
  <2>2. c \in Calls /\ c.pc \notin Leasing
    BY <2>1, CallShape, Positions DEF Calls
  <2>3. CallOK(c, q, robots)
    BY <1>1, CallShape DEF CallOK, Calls, Leasing
  <2>4. req' = [req EXCEPT ![q] = c]
    BY <1>3
  <2> HIDE DEF c
  <2> QED BY <1>1, <2>2, <2>3, <2>4, StayOut, CallShape
<1> QED BY <1>1, <1>2, <1>3 DEF BackedOff

LEMMA BeginKeeps ==
  ASSUME NEW q \in Retrievals, Inv, Begin(q)
  PROVE  Inv'
<1> DEFINE c == [req[q] EXCEPT !.pc = "attempt", !.overall = OverallTime]
<1>1. req[q].pc = "idle" /\ req[q].pc \notin Leasing /\ UNCHANGED <<robots, leases, paused, gap>>
  BY DEF Begin, At, Leasing
<1>2. c \in Calls /\ c.pc \notin Leasing
  BY CallShape, Positions, Bounds DEF Calls
<1>3. CallOK(c, q, robots)
  BY <1>1, CallShape DEF CallOK, Calls, Leasing
<1>4. req' = [req EXCEPT ![q] = c]
  BY DEF Begin
<1> HIDE DEF c
<1> QED BY <1>1, <1>2, <1>3, <1>4, StayOut, CallShape

LEMMA AttemptKeeps ==
  ASSUME NEW q \in Retrievals, Inv, Attempt(q)
  PROVE  Inv'
<1>1. req[q].pc = "attempt" /\ req[q].pc \notin Leasing /\ UNCHANGED <<robots, leases, paused, gap>>
  BY DEF Attempt, At, Leasing
<1>2. CASE \E o \in {"cancelled", "overall"} : req' = End(q, o)
  BY <1>1, <1>2, EndKeeps
<1>3. CASE req' = [req EXCEPT ![q].pc = "robots", ![q].attempt = AttemptTime, ![q].err = "nil"]
  <2> DEFINE c == [req[q] EXCEPT !.pc = "robots", !.attempt = AttemptTime, !.err = "nil"]
  <2>1. c \in Calls /\ c.pc \notin Leasing
    BY CallShape, Positions, Bounds DEF Calls
  <2>2. CallOK(c, q, robots)
    BY <1>1, CallShape DEF CallOK, Calls, Leasing
  <2>3. req' = [req EXCEPT ![q] = c]
    BY <1>3
  <2> HIDE DEF c
  <2> QED BY <1>1, <2>1, <2>2, <2>3, StayOut, CallShape
<1> QED BY <1>1, <1>2, <1>3 DEF Attempt

\* The reader of the rules is the only call that may change what it has claimed.
LEMMA CheckRobotsKeeps ==
  ASSUME NEW q \in Retrievals, Inv, CheckRobots(q)
  PROVE  Inv'
<1>1. req[q].pc = "robots" /\ UNCHANGED <<leases, paused, gap>>
  BY DEF CheckRobots, At
<1>2. CASE RulesUnclaimed
  <2> DEFINE c == [req[q] EXCEPT !.pc = "lease", !.task = "rules"]
  <2>1. /\ req' = [req EXCEPT ![q] = c]
        /\ robots = NoRules /\ robots' = [by |-> q, verdict |-> "loading"]
    BY <1>2 DEF CheckRobots, RulesUnclaimed
  <2>2. c \in Calls /\ c.pc \notin Leasing /\ req[q].pc \notin Leasing
    BY <1>1, CallShape, Positions DEF Calls
  <2>3. CallOK(c, q, robots')
    BY <1>1, <2>1, CallShape DEF CallOK, Calls, Leasing, NoRules
  <2> HIDE DEF c
  <2>4. req'[q] = c /\ \A p \in Retrievals \ {q} : req'[p] = req[p]
    BY <2>1 DEF Inv, TypeOK
  <2>5. \A p \in Retrievals \ {q} : CallOK(req[p], p, robots')
    <3> TAKE p \in Retrievals \ {q}
    <3>1. CallOK(req[p], p, NoRules)
      BY <2>1, CallShape
    <3>2. req[p].task # "rules" /\ req[p].heard # "ok" /\ req[p].pc \notin Leasing \cup {"lease", "forget"}
      BY <3>1, CallShape, RetrievalsAssumption DEF CallOK, NoRules, Calls
    <3> QED BY <3>1, <3>2 DEF CallOK
  <2>6. CallsOK'
    BY <2>3, <2>4, <2>5 DEF CallsOK
  <2>7. Counted(q, c)
    BY <1>1, <2>2, NoMore
  <2>8. LeasesOK'
    BY <2>4, <2>7, CountedLeases DEF Inv
  <2>9. TypeOK'
    BY <1>1, <2>1, <2>2 DEF Inv, TypeOK
  <2> QED BY <2>6, <2>8, <2>9 DEF Inv
<1>3. CASE ~RulesUnclaimed
  <2> DEFINE c == [req[q] EXCEPT !.pc = "await", !.heard = robots.verdict]
  <2>1. req' = [req EXCEPT ![q] = c] /\ UNCHANGED robots
    BY <1>3 DEF CheckRobots
  <2>2. robots.verdict \in Errors \cup {"loading", "ok"}
    BY DEF Inv, TypeOK
  <2>3. c \in Calls /\ c.pc \notin Leasing /\ req[q].pc \notin Leasing
    BY <1>1, <2>2, CallShape, Positions DEF Calls
  <2>4. CallOK(c, q, robots)
    BY <1>1, <2>2, CallShape DEF CallOK, Calls, Leasing
  <2> HIDE DEF c
  <2> QED BY <1>1, <2>1, <2>3, <2>4, StayOut, CallShape
<1> QED BY <1>2, <1>3

LEMMA TellRobotsKeeps ==
  ASSUME NEW q \in Retrievals, Inv, TellRobots(q)
  PROVE  Inv'
<1> DEFINE verdict == IF req[q].err = "nil" THEN "ok" ELSE req[q].err
           told == [req[q] EXCEPT !.pc = "forget", !.task = "content", !.heard = verdict]
           heard(p) == [req[p] EXCEPT !.heard = verdict]
<1>1. /\ req[q].pc = "tell" /\ UNCHANGED <<leases, paused, gap>>
      /\ robots' = [robots EXCEPT !.verdict = verdict]
      /\ req' = [p \in Retrievals |-> IF p = q THEN told
                                      ELSE IF At(p, "await") /\ req[p].heard = "loading" THEN heard(p) ELSE req[p]]
  BY DEF TellRobots, At
<1>2. verdict \in Errors \cup {"ok"} /\ verdict # "loading"
  BY CallShape DEF Calls, Errors
<1>3. robots = [by |-> q, verdict |-> "loading"]
  BY <1>1, CallShape DEF CallOK
<1>4. robots' = [by |-> q, verdict |-> verdict]
  BY <1>1, <1>3
<1>5. told \in Calls /\ told.pc = "forget" /\ CallOK(told, q, robots')
  <2>1. told \in Calls /\ told.pc = "forget" /\ told.task = "content" /\ told.heard = verdict
    BY <1>2, CallShape, Positions DEF Calls
  <2> HIDE DEF told, verdict
  <2> QED BY <1>2, <1>4, <2>1 DEF CallOK, Leasing
<1>6. ASSUME NEW p \in Retrievals \ {q}
      PROVE  /\ CallOK(req[p], p, robots')
             /\ heard(p) \in Calls /\ heard(p).pc = req[p].pc
             /\ At(p, "await") => CallOK(heard(p), p, robots')
  <2>1. CallOK(req[p], p, robots) /\ req[p] \in Calls
    BY CallShape
  <2>2. req[p].task # "rules" /\ req[p].heard # "ok" /\ req[p].pc \notin Leasing \cup {"lease", "forget", "tell"}
    BY <1>3, <2>1 DEF CallOK, Calls
  <2>3. heard(p) \in Calls /\ heard(p).pc = req[p].pc /\ heard(p).task = req[p].task /\ heard(p).heard = verdict
        /\ heard(p).used = req[p].used
    BY <1>2, <2>1 DEF Calls
  <2>4. CallOK(req[p], p, robots')
    BY <2>1, <2>2 DEF CallOK
  <2> HIDE DEF heard, verdict
  <2>5. At(p, "await") => CallOK(heard(p), p, robots')
    BY <1>4, <2>1, <2>2, <2>3 DEF CallOK, At, Leasing
  <2> QED BY <2>3, <2>4, <2>5
<1> HIDE DEF told, heard, verdict
<1>7. \A p \in Retrievals : req'[p] \in Calls /\ CallOK(req'[p], p, robots')
                            /\ (req'[p].pc \in Leasing) = (req[p].pc \in Leasing)
  BY <1>1, <1>5, <1>6, CallShape DEF Leasing
<1>8. LeasesOK'
  BY <1>1, <1>7 DEF Inv, LeasesOK
<1>9. TypeOK'
  BY <1>1, <1>2, <1>4, <1>7 DEF Inv, TypeOK
<1> QED BY <1>7, <1>8, <1>9 DEF Inv, CallsOK

LEMMA ForgetRobotsKeeps ==
  ASSUME NEW q \in Retrievals, Inv, ForgetRobots(q)
  PROVE  Inv'
<1> DEFINE c == [req[q] EXCEPT !.pc = "await", !.err = "nil"]
<1>1. /\ req[q].pc = "forget" /\ req[q].pc \notin Leasing /\ UNCHANGED <<leases, paused, gap>>
      /\ req' = [req EXCEPT ![q] = c] /\ robots' = RulesAfter(q)
  BY DEF ForgetRobots, At, Leasing
<1>2. robots = [by |-> q, verdict |-> req[q].heard] /\ CallOK(req[q], q, robots) /\ req[q] \in Calls
  BY <1>1, CallShape DEF CallOK
<1>3. c \in Calls /\ c.pc = "await" /\ c.task = "content" /\ c.heard = req[q].heard
  BY <1>1, <1>2 DEF Calls, Labels, CallOK, Leasing
<1> HIDE DEF c
<1>4. robots' \in Robots /\ (robots' = robots \/ (robots' = NoRules /\ robots.verdict # "ok"))
  BY <1>1, <1>2 DEF RulesAfter, NoRules, Robots, Inv, TypeOK
<1>5. CallOK(c, q, robots')
  BY <1>2, <1>3, <1>4 DEF CallOK, Leasing
<1>6. ASSUME NEW p \in Retrievals \ {q} PROVE CallOK(req[p], p, robots')
  <2>1. CallOK(req[p], p, robots) /\ req[p] \in Calls
    BY CallShape
  <2>2. req[p].task # "rules" /\ req[p].pc # "forget"
    BY <1>2, <2>1 DEF CallOK
  <2> QED BY <1>4, <2>1, <2>2 DEF CallOK
<1>7. req'[q] = c /\ \A p \in Retrievals \ {q} : req'[p] = req[p]
  BY <1>1 DEF Inv, TypeOK
<1>8. CallsOK'
  BY <1>5, <1>6, <1>7 DEF CallsOK
<1>9. Counted(q, c)
  BY <1>1, <1>3, NoMore DEF Leasing
<1>10. LeasesOK'
  BY <1>7, <1>9, CountedLeases DEF Inv
<1>11. TypeOK'
  BY <1>1, <1>3, <1>4 DEF Inv, TypeOK, Robots
<1> QED BY <1>8, <1>10, <1>11 DEF Inv

LEMMA AwaitRobotsKeeps ==
  ASSUME NEW q \in Retrievals, Inv, AwaitRobots(q)
  PROVE  Inv'
<1>1. req[q].pc = "await" /\ req[q].pc \notin Leasing
  BY DEF AwaitRobots, At, Leasing
<1>2. CASE \E e \in Errors : Fail(q, e)
  BY <1>1, <1>2, FailKeeps
<1>3. CASE RulesRead(q) /\ req' = [req EXCEPT ![q].pc = "lease", ![q].heard = "loading"]
           /\ UNCHANGED <<robots, leases, paused, gap>>
  <2> DEFINE c == [req[q] EXCEPT !.pc = "lease", !.heard = "loading"]
  <2>1. c \in Calls /\ c.pc \notin Leasing
    BY CallShape, Positions DEF Calls
  <2>2. CallOK(c, q, robots)
    BY <1>1, <1>3, CallShape DEF CallOK, Calls, Leasing, RulesRead
  <2>3. req' = [req EXCEPT ![q] = c]
    BY <1>3
  <2> HIDE DEF c
  <2> QED BY <1>1, <1>3, <2>1, <2>2, <2>3, StayOut, CallShape
<1> QED BY <1>2, <1>3 DEF AwaitRobots, Errors

\* A call goes to another place where it holds, or does not hold, a lease.
LEMMA GotoShape ==
  ASSUME NEW q \in Retrievals, NEW l \in Leasing, Inv, req[q].pc \in Leasing \cup {"lease"}
  PROVE  LET c == [req[q] EXCEPT !.pc = l] IN c \in Calls /\ c.pc = l /\ CallOK(c, q, robots)
<1>1. req[q] \in Calls /\ CallOK(req[q], q, robots)
  BY CallShape
<1> DEFINE c == [req[q] EXCEPT !.pc = l]
<1>2. c \in Calls /\ c.pc = l /\ c.task = req[q].task /\ c.heard = req[q].heard
  BY <1>1 DEF Calls, Labels, Instant, Timed, Leasing
<1> HIDE DEF c
<1>3. CallOK(c, q, robots)
  BY <1>1, <1>2 DEF CallOK, Leasing
<1> QED BY <1>2, <1>3 DEF c

LEMMA LeaseKeeps ==
  ASSUME NEW q \in Retrievals, Inv, Lease(q)
  PROVE  Inv'
<1>1. req[q].pc = "lease"
  BY DEF Lease, At
<1>2. CASE Fail(q, "context")
  BY <1>1, <1>2, FailKeeps DEF Errors
<1>3. CASE /\ Cardinality(leases) < Slots /\ leases' = leases \cup {q} /\ Goto(q, "pace")
           /\ UNCHANGED <<robots, paused, gap>>
  <2> DEFINE c == [req[q] EXCEPT !.pc = "pace"]
  <2>1. c \in Calls /\ c.pc = "pace" /\ CallOK(c, q, robots)
    BY <1>1, GotoShape DEF Leasing
  <2>2. req' = [req EXCEPT ![q] = c]
    BY <1>3 DEF Goto
  <2> HIDE DEF c
  <2>3. Counted(q, c)
    BY <1>3, <2>1 DEF Counted, Leasing
  <2> QED BY <1>3, <2>1, <2>2, <2>3, OneCall, CallShape
<1> QED BY <1>2, <1>3 DEF Lease

\* Between two positions that both hold a lease.
LEMMA HoldKeeps ==
  ASSUME NEW q \in Retrievals, NEW l \in Leasing, Inv, req[q].pc \in Leasing, Goto(q, l),
         UNCHANGED <<robots, leases>>, paused' \in Nat, gap' \in 0..Gap
  PROVE  Inv'
<1> DEFINE c == [req[q] EXCEPT !.pc = l]
<1>1. c \in Calls /\ c.pc = l /\ CallOK(c, q, robots)
  BY GotoShape
<1>2. req' = [req EXCEPT ![q] = c]
  BY DEF Goto
<1> HIDE DEF c
<1> QED BY <1>1, <1>2, MoveKeeps

LEMMA WaitKeeps ==
  ASSUME NEW q \in Retrievals, NEW l \in {"pausing", "spacing"}, NEW w \in Nat, Inv, req[q].pc = "pace",
         req' = [req EXCEPT ![q].pc = l, ![q].wake = w], UNCHANGED <<robots, leases, paused, gap>>
  PROVE  Inv'
<1> DEFINE c == [req[q] EXCEPT !.pc = l, !.wake = w]
<1>1. req[q] \in Calls /\ CallOK(req[q], q, robots)
  BY CallShape
<1>2. c \in Calls /\ c.pc = l /\ c.task = req[q].task /\ c.heard = req[q].heard
  BY <1>1 DEF Calls, Labels, Timed
<1>3. req' = [req EXCEPT ![q] = c]
  OBVIOUS
<1> HIDE DEF c
<1>4. CallOK(c, q, robots)
  BY <1>1, <1>2 DEF CallOK, Leasing
<1> QED BY <1>2, <1>3, <1>4, MoveKeeps, CallShape DEF Leasing

LEMMA ThrottleKeeps ==
  ASSUME NEW q \in Retrievals, Inv, Throttle(q)
  PROVE  Inv'
<1>1. req[q].pc = "pace"
  BY DEF Throttle, At
<1>2. CASE Fail(q, "context")
  BY <1>1, <1>2, FailKeeps DEF Errors, Leasing
<1>3. CASE req' = [req EXCEPT ![q].pc = "pausing", ![q].wake = paused] /\ UNCHANGED <<robots, leases, paused, gap>>
  BY <1>1, <1>3, WaitKeeps, CallShape
<1>4. CASE req' = [req EXCEPT ![q].pc = "spacing", ![q].wake = gap] /\ UNCHANGED <<robots, leases, paused, gap>>
  <2>1. gap \in Nat
    BY CallShape, LimitsAssumption
  <2> QED BY <1>1, <1>4, <2>1, WaitKeeps
<1>5. CASE gap' = Gap /\ Goto(q, "sent") /\ UNCHANGED <<robots, leases, paused>>
  BY <1>1, <1>5, HoldKeeps, CallShape, LimitsAssumption DEF Leasing
<1> QED BY <1>2, <1>3, <1>4, <1>5 DEF Throttle

LEMMA WokenKeeps ==
  ASSUME NEW q \in Retrievals, Inv, Woken(q)
  PROVE  Inv'
<1>1. req[q].pc \in {"pausing", "spacing"}
  BY DEF Woken
<1>2. CASE Fail(q, "context")
  BY <1>1, <1>2, FailKeeps DEF Errors, Leasing
<1>3. CASE Goto(q, "pace") /\ UNCHANGED <<robots, leases, paused, gap>>
  BY <1>1, <1>3, HoldKeeps, CallShape DEF Leasing
<1> QED BY <1>2, <1>3 DEF Woken, LooksAgain

LEMMA AnswerKeeps ==
  ASSUME NEW q \in Retrievals, Inv, Answer(q)
  PROVE  Inv'
<1>1. req[q].pc = "sent"
  BY DEF Answer, At
<1>2. CASE \E e \in Errors : Fail(q, e)
  BY <1>1, <1>2, FailKeeps DEF Leasing
<1>3. CASE Goto(q, "body") /\ UNCHANGED <<robots, leases, paused, gap>>
  BY <1>1, <1>3, HoldKeeps, CallShape DEF Leasing
<1>4. CASE /\ req[q].hops < MaxHops
           /\ req' = [req EXCEPT ![q].hops = @ + 1,
                                 ![q].pc = IF req[q].task = "rules" THEN "lease" ELSE "robots"]
           /\ leases' = RedirectClosed(q) /\ UNCHANGED <<robots, paused, gap>>
  <2> DEFINE c == [req[q] EXCEPT !.hops = @ + 1, !.pc = IF req[q].task = "rules" THEN "lease" ELSE "robots"]
  <2>1. req[q] \in Calls /\ CallOK(req[q], q, robots)
    BY CallShape
  <2>2. req[q].hops + 1 \in 0..MaxHops
    BY <1>4, <2>1, LimitsAssumption DEF Calls
  <2>3. c \in Calls /\ c.task = req[q].task /\ c.heard = req[q].heard
        /\ c.pc = IF req[q].task = "rules" THEN "lease" ELSE "robots"
    BY <2>1, <2>2 DEF Calls, Labels, Instant
  <2>4. req' = [req EXCEPT ![q] = c]
    BY <1>4
  <2> HIDE DEF c
  <2>5. CallOK(c, q, robots) /\ c.pc \notin Leasing
    BY <1>1, <2>1, <2>3 DEF CallOK, Leasing
  <2>6. Counted(q, c)
    BY <1>4, <2>5, LetGo DEF RedirectClosed
  <2> QED BY <1>4, <2>3, <2>4, <2>5, <2>6, OneCall, CallShape
<1> QED BY <1>2, <1>3, <1>4 DEF Answer, Errors

LEMMA ProgressKeeps ==
  ASSUME NEW q \in Retrievals, Inv, Progress(q)
  PROVE  Inv'
<1>1. req[q] \in Calls /\ CallOK(req[q], q, robots) /\ req[q].pc = "body" /\ req[q].chunks < MaxChunks
      /\ UNCHANGED <<robots, leases, paused, gap>>
  BY CallShape DEF Progress, At
<1>2. PICK overall \in {req[q].overall, Larger(req[q].overall, AttemptTime)} :
         req' = [req EXCEPT ![q].chunks = @ + 1, ![q].attempt = AttemptTime, ![q].overall = overall]
  BY DEF Progress
<1> DEFINE c == [req[q] EXCEPT !.chunks = @ + 1, !.attempt = AttemptTime, !.overall = overall]
<1>3. overall \in 0..OverallTime /\ req[q].chunks + 1 \in 0..MaxChunks /\ AttemptTime \in 0..AttemptTime
  BY <1>1, <1>2, LimitsAssumption DEF Calls, Larger
<1>4. c \in Calls /\ c.task = req[q].task /\ c.heard = req[q].heard /\ c.pc = req[q].pc /\ c.used = req[q].used
  BY <1>1, <1>3 DEF Calls
<1>5. req' = [req EXCEPT ![q] = c]
  BY <1>2
<1> HIDE DEF c
<1>6. CallOK(c, q, robots)
  BY <1>1, <1>4 DEF CallOK
<1> QED BY <1>1, <1>4, <1>5, <1>6, MoveKeeps, CallShape

LEMMA BodyKeeps ==
  ASSUME NEW q \in Retrievals, Inv, Body(q)
  PROVE  Inv'
<1>1. req[q].pc = "body"
  BY DEF Body, At
<1>2. CASE \E e \in Errors : Fail(q, e)
  BY <1>1, <1>2, FailKeeps DEF Leasing
<1>3. CASE req' = End(q, "ok") /\ leases' = Released(q) /\ UNCHANGED <<robots, paused, gap>>
  BY <1>3, EndKeeps
<1>4. CASE /\ req[q].task = "rules" /\ req' = [req EXCEPT ![q].pc = "tell", ![q].hops = 0]
           /\ leases' = Released(q) /\ UNCHANGED <<robots, paused, gap>>
  <2> DEFINE c == [req[q] EXCEPT !.pc = "tell", !.hops = 0]
  <2>1. req[q] \in Calls /\ CallOK(req[q], q, robots)
    BY CallShape
  <2>2. c \in Calls /\ c.task = "rules" /\ c.heard = req[q].heard /\ c.pc = "tell"
    BY <1>4, <2>1, Positions, Bounds DEF Calls
  <2>3. req' = [req EXCEPT ![q] = c]
    BY <1>4
  <2> HIDE DEF c
  <2>4. CallOK(c, q, robots) /\ c.pc \notin Leasing
    BY <1>4, <2>1, <2>2 DEF CallOK, Leasing
  <2> QED BY <1>4, <2>2, <2>3, <2>4, LetGo, OneCall, CallShape
<1> QED BY <1>2, <1>3, <1>4 DEF Body, Errors

LEMMA EndContextKeeps ==
  ASSUME NEW q \in Retrievals, Inv, EndContext(q)
  PROVE  Inv'
<1> DEFINE c == [req[q] EXCEPT !.cancelled = TRUE]
<1>1. req[q] \in Calls /\ CallOK(req[q], q, robots) /\ UNCHANGED <<robots, leases, paused, gap>>
  BY CallShape DEF EndContext
<1>2. c \in Calls /\ c.task = req[q].task /\ c.heard = req[q].heard /\ c.pc = req[q].pc /\ c.used = req[q].used
  BY <1>1 DEF Calls
<1>3. req' = [req EXCEPT ![q] = c]
  BY DEF EndContext
<1> HIDE DEF c
<1>4. CallOK(c, q, robots)
  BY <1>1, <1>2 DEF CallOK
<1> QED BY <1>1, <1>2, <1>3, <1>4, MoveKeeps, CallShape

LEMMA TickCalls ==
  ASSUME Inv, Tick, NEW q \in Retrievals
  PROVE  req'[q] \in Calls /\ CallOK(req'[q], q, robots) /\ req'[q].pc = req[q].pc
<1> DEFINE c == [req[q] EXCEPT !.attempt = Less(@), !.overall = Less(@), !.wake = Less(@)]
<1>1. req[q] \in Calls /\ CallOK(req[q], q, robots) /\ (req'[q] = c \/ req'[q] = req[q])
  BY CallShape DEF Tick
<1>2. Less(req[q].attempt) \in 0..AttemptTime /\ Less(req[q].overall) \in 0..OverallTime /\ Less(req[q].wake) \in Nat
  BY <1>1, Numbers, LimitsAssumption DEF Calls
<1>3. c \in Calls /\ c.task = req[q].task /\ c.heard = req[q].heard /\ c.pc = req[q].pc /\ c.used = req[q].used
  BY <1>1, <1>2 DEF Calls
<1> HIDE DEF c
<1>4. CallOK(c, q, robots)
  BY <1>1, <1>3 DEF CallOK
<1> QED BY <1>1, <1>3, <1>4

LEMMA TickKeeps ==
  ASSUME Inv, Tick
  PROVE  Inv'
<1>1. UNCHANGED <<robots, leases>> /\ paused' \in Nat /\ gap' \in 0..Gap
  BY Numbers, LimitsAssumption DEF Tick, Inv, TypeOK
<1>2. \A q \in Retrievals : req'[q] \in Calls /\ CallOK(req'[q], q, robots) /\ req'[q].pc = req[q].pc
  BY TickCalls
<1>3. TypeOK'
  <2>1. req' \in [Retrievals -> Calls]
    BY <1>2 DEF Tick
  <2> QED BY <1>1, <2>1 DEF Inv, TypeOK
<1>4. CallsOK' /\ LeasesOK'
  BY <1>1, <1>2 DEF Inv, CallsOK, LeasesOK
<1> QED BY <1>3, <1>4 DEF Inv

LEMMA InitInv == Init => Inv
<1> SUFFICES ASSUME Init PROVE Inv
  OBVIOUS
<1>1. NewCall \in Calls
  BY LimitsAssumption DEF NewCall, Calls, Labels
<1>2. TypeOK
  BY <1>1, LimitsAssumption DEF Init, TypeOK, NoRules
<1>3. CallsOK
  BY DEF Init, CallsOK, CallOK, NewCall, Leasing
<1>4. LeasesOK
  <2>1. leases = {q \in Retrievals : req[q].pc \in Leasing}
    BY DEF Init, NewCall, Leasing
  <2> QED BY <2>1, FS_EmptySet, LimitsAssumption DEF Init, LeasesOK
<1> QED BY <1>2, <1>3, <1>4 DEF Inv

LEMMA InvStep == Inv /\ [Next]_vars => Inv'
<1> SUFFICES ASSUME Inv, [Next]_vars PROVE Inv'
  OBVIOUS
<1>1. CASE UNCHANGED vars
  BY <1>1 DEF vars, Inv, TypeOK, CallsOK, LeasesOK
<1>2. ASSUME NEW q \in Retrievals, Begin(q) \/ Step(q) \/ Progress(q) \/ EndContext(q)
      PROVE  Inv'
  BY <1>2, BeginKeeps, AttemptKeeps, CheckRobotsKeeps, TellRobotsKeeps, ForgetRobotsKeeps, AwaitRobotsKeeps,
     LeaseKeeps, ThrottleKeeps, WokenKeeps, AnswerKeeps, BodyKeeps, SettleKeeps, BackedOffKeeps,
     ProgressKeeps, EndContextKeeps DEF Step
<1> QED BY <1>1, <1>2, TickKeeps DEF Next, Idle

-----------------------------------------------------------------------------
(* The theorems.                                                           *)

\* Calls, the robots entry, leases and timers keep their types: in particular
\* no call makes more than Retries retries.
THEOREM TypeCorrect == Spec => []TypeOK
BY InitInv, InvStep, PTL DEF Spec, Inv

\* One retrieval reads the robots rules of the origin while the others wait for
\* it, and no content is requested before they were read and allow it.
THEOREM RulesAlwaysFirst == Spec => []RulesFirst
<1>1. Inv => RulesFirst
  BY DEF Inv, CallsOK, CallOK, RulesFirst, Leasing
<1> QED BY <1>1, InitInv, InvStep, PTL DEF Spec

\* The leases of the backend are held by the requests in flight, by nobody
\* else, and are never more than its slots.
THEOREM LeasesAlwaysInUse == Spec => []LeasesInUse
<1>1. Inv => LeasesInUse
  BY DEF Inv, LeasesOK, LeasesInUse, Leasing
<1> QED BY <1>1, InitInv, InvStep, PTL DEF Spec

\* Only throttle sends.
LEMMA FailSends ==
  ASSUME NEW q \in Retrievals, NEW p \in Retrievals, NEW e, Inv, Fail(p, e), req[q].pc # "sent"
  PROVE  req'[q].pc # "sent"
BY DEF Inv, TypeOK, Fail

LEMMA EndSends ==
  ASSUME NEW q \in Retrievals, NEW p \in Retrievals, NEW o, Inv, req' = End(p, o), req[q].pc # "sent"
  PROVE  req'[q].pc # "sent"
<1>1. req'[p] = [NewCall EXCEPT !.pc = "done", !.used = req[p].used, !.outcome = o]
  BY DEF Inv, TypeOK, End
<1>2. req'[p].pc = "done"
  BY <1>1 DEF NewCall
<1>3. q # p => req'[q] = req[q]
  BY DEF Inv, TypeOK, End
<1> QED BY <1>2, <1>3

LEMMA OnlyThrottleSends ==
  ASSUME NEW q \in Retrievals, NEW p \in Retrievals, Inv, req[q].pc # "sent",
         Begin(p) \/ (Step(p) /\ ~Throttle(p)) \/ Progress(p) \/ EndContext(p)
  PROVE  req'[q].pc # "sent"
<1>1. req \in [Retrievals -> Calls] /\ req[p] \in Calls
  BY DEF Inv, TypeOK
<1>2. CASE (\E e \in Errors : Fail(p, e)) \/ (\E o : req' = End(p, o))
  BY <1>2, FailSends, EndSends
<1>3. CASE Begin(p) \/ EndContext(p) \/ Progress(p)
  <2>1. CASE Begin(p)
    BY <1>1, <2>1 DEF Begin, Calls
  <2>2. CASE EndContext(p)
    BY <1>1, <2>2 DEF EndContext, Calls
  <2>3. CASE Progress(p)
    <3>1. PICK o \in {req[p].overall, Larger(req[p].overall, AttemptTime)} :
             req' = [req EXCEPT ![p].chunks = @ + 1, ![p].attempt = AttemptTime, ![p].overall = o]
      BY <2>3 DEF Progress
    <3> QED BY <1>1, <3>1 DEF Calls
  <2> QED BY <1>3, <2>1, <2>2, <2>3
<1>4. CASE CheckRobots(p) \/ ForgetRobots(p) \/ TellRobots(p)
  <2>1. CASE CheckRobots(p)
    BY <1>1, <2>1 DEF CheckRobots, Calls
  <2>2. CASE ForgetRobots(p)
    BY <1>1, <2>2 DEF ForgetRobots, Calls
  <2>3. CASE TellRobots(p)
    <3> DEFINE v == IF req[p].err = "nil" THEN "ok" ELSE req[p].err
    <3>1. req' = [r \in Retrievals |->
                    IF r = p THEN [req[p] EXCEPT !.pc = "forget", !.task = "content", !.heard = v]
                    ELSE IF At(r, "await") /\ req[r].heard = "loading" THEN [req[r] EXCEPT !.heard = v]
                    ELSE req[r]]
      BY <2>3 DEF TellRobots
    <3> HIDE DEF v
    <3>2. [req[p] EXCEPT !.pc = "forget", !.task = "content", !.heard = v].pc = "forget"
      BY <1>1 DEF Calls
    <3>3. [req[q] EXCEPT !.heard = v].pc = req[q].pc
      BY <1>1 DEF Calls
    <3> QED BY <3>1, <3>2, <3>3
  <2> QED BY <1>4, <2>1, <2>2, <2>3
<1>5. CASE Attempt(p) \/ BackedOff(p) \/ Settle(p)
  <2>1. CASE req' = End(p, "cancelled") \/ req' = End(p, "overall") \/ req' = End(p, "failed")
    BY <2>1, EndSends
  <2>2. CASE Attempt(p) /\ req'[q].pc = "sent"
    BY <1>1, <2>1, <2>2 DEF Attempt, Calls
  <2>3. CASE BackedOff(p) /\ req'[q].pc = "sent"
    BY <1>1, <2>1, <2>3 DEF BackedOff, Calls
  <2>4. CASE Settle(p) /\ req'[q].pc = "sent"
    BY <1>1, <2>1, <2>4 DEF Settle, Calls
  <2> QED BY <1>5, <2>2, <2>3, <2>4
<1>6. CASE AwaitRobots(p) \/ Lease(p) \/ Woken(p)
  BY <1>1, <1>2, <1>6 DEF AwaitRobots, Lease, Woken, Goto, LooksAgain, Calls, Errors
<1>7. CASE Answer(p) \/ Body(p)
  BY <1>1, <1>2, <1>7 DEF Answer, Body, Goto, Calls, Errors
<1> QED BY <1>3, <1>4, <1>5, <1>6, <1>7 DEF Step

LEMMA ThrottleSends ==
  ASSUME NEW q \in Retrievals, NEW p \in Retrievals, Inv, req[q].pc # "sent", Throttle(p), req'[q].pc = "sent"
  PROVE  paused = 0 /\ gap = 0 /\ gap' = Gap
<1>1. req \in [Retrievals -> Calls] /\ req[p] \in Calls
  BY DEF Inv, TypeOK
<1>2. ~Fail(p, "context")
  BY FailSends
<1> QED BY <1>1, <1>2 DEF Throttle, Calls

\* A request starts only in the origin's turn: not while the origin is paused,
\* not before the gap has passed, and only while its call has attempts left.
THEOREM StartsAlwaysSpaced == Spec => StartsSpaced
<1>1. ASSUME Inv, Next, NEW q \in Retrievals, ~At(q, "sent"), req'[q].pc = "sent"
      PROVE  paused = 0 /\ gap = 0 /\ gap' = Gap /\ req[q].used <= Retries
  <2>1. req[q].used <= Retries
    BY <1>1, CallShape, LimitsAssumption DEF Calls
  <2>2. ~Tick /\ ~Idle
    <3>1. Tick => req'[q].pc = req[q].pc
      BY <1>1, TickCalls
    <3>2. Idle => req'[q].pc = req[q].pc
      BY DEF Idle, vars
    <3> QED BY <1>1, <3>1, <3>2 DEF At
  <2>3. PICK p \in Retrievals : Throttle(p)
    BY <1>1, <2>2, OnlyThrottleSends DEF Next, At
  <2> QED BY <1>1, <2>1, <2>3, ThrottleSends DEF At
<1>2. Inv /\ [Next]_vars =>
        [\A q \in Retrievals : ~At(q, "sent") /\ req'[q].pc = "sent" =>
           paused = 0 /\ gap = 0 /\ gap' = Gap /\ req[q].used <= Retries]_vars
  BY <1>1
<1> QED BY <1>2, InitInv, InvStep, PTL DEF Spec, StartsSpaced
=============================================================================
