---------------------------- MODULE AttemptBudget ----------------------------
(***************************************************************************)
(* The network attempt budget: internal/fetch/budget.go, and the round     *)
(* trip of dispatch.go that uses it.                                       *)
(*                                                                         *)
(* A dispatched request reserves Allowance attempts, enough for the        *)
(* transparent retries of the backend inside one round trip.  Each         *)
(* connection that the backend reports takes one from the reservation;     *)
(* closing the response body, or an error, gives back the rest.  The       *)
(* connection and header callbacks come from the backend, the latter from  *)
(* a goroutine of its own that may lag behind the round trip.              *)
(***************************************************************************)
EXTENDS FiniteSets, Integers

CONSTANTS Requests,       \* dispatched requests
          MaxAttempts,    \* AttemptBudget.max
          Allowance,      \* AttemptBudget.allowance
          BackendTries    \* most connections the backend takes in one round trip

ASSUME BudgetAssumption ==
  /\ IsFiniteSet(Requests)
  /\ MaxAttempts \in Nat \ {0} /\ Allowance \in 1..MaxAttempts
  /\ BackendTries \in Nat

VARIABLES
  pc,          \* pc[q]: where the round trip of q is
  permit,      \* permit[q]: its attemptPermit
  wire,        \* wire[q]: connections the backend took, and headers it wrote
  cancelled,   \* the requests whose context the round trip cancelled
  attempted, headers, reserved, admitted, exhausted, violated

counters == <<attempted, headers, reserved, admitted>>
vars == <<pc, permit, wire, cancelled, counters, exhausted, violated>>

NoPermit == [remaining |-> 0, started |-> 0, done |-> TRUE]
NewPermit == [remaining |-> Allowance, started |-> 0, done |-> FALSE]

At(q, l) == pc[q] = l
Goto(q, l) == pc' = [pc EXCEPT ![q] = l]

\* A use of the budget that must not happen stops all further dispatches.
Violate == exhausted' = TRUE /\ violated' = TRUE

-----------------------------------------------------------------------------
(* attemptPermit and its budget, each operation one section under its lock. *)

\* AttemptBudget.begin refuses.
ReservedForgotten == exhausted \/ attempted + Allowance > MaxAttempts
NoRoom == exhausted \/ attempted + reserved + Allowance > MaxAttempts

\* attemptPermit.finish gives back what was not used, once.
FinishForgotten(q) ==
  /\ reserved' = reserved - permit[q].remaining
  /\ UNCHANGED permit

FinishPermit(q) ==
  IF permit[q].done
  THEN UNCHANGED <<permit, reserved>>
  ELSE /\ reserved' = reserved - permit[q].remaining
       /\ permit' = [permit EXCEPT ![q] = [remaining |-> 0, started |-> @.started, done |-> TRUE]]

-----------------------------------------------------------------------------
(* scheduledBackend.RoundTrip.                                             *)

Begin(q) ==
  /\ At(q, "idle")
  /\ IF NoRoom
     THEN /\ Goto(q, "refused") /\ exhausted' = TRUE
          /\ UNCHANGED <<permit, counters>>
     ELSE /\ Goto(q, "pacing")
          /\ permit' = [permit EXCEPT ![q] = NewPermit]
          /\ reserved' = reserved + Allowance /\ admitted' = admitted + 1
          /\ UNCHANGED <<attempted, headers, exhausted>>
  /\ UNCHANGED <<wire, cancelled, violated>>

\* schedule waits for pause and pacing; an error ends the request.
Schedule(q) ==
  /\ At(q, "pacing")
  /\ \/ Goto(q, "backend") /\ UNCHANGED <<permit, reserved>>
     \/ Goto(q, "failed") /\ FinishPermit(q)
  /\ UNCHANGED <<wire, cancelled, attempted, headers, admitted, exhausted, violated>>

\* GotConn: the backend has a connection for one more try.
Allowed(q) == ~permit[q].done /\ permit[q].remaining > 0

GotConn(q) ==
  /\ At(q, "backend") /\ wire[q].conns < BackendTries
  /\ wire' = [wire EXCEPT ![q].conns = @ + 1]
  /\ IF Allowed(q)
     THEN /\ permit' = [permit EXCEPT ![q] = [remaining |-> @.remaining - 1, started |-> @.started + 1,
                                              done |-> @.done]]
          /\ reserved' = reserved - 1 /\ attempted' = attempted + 1
          /\ exhausted' = (exhausted \/ attempted + 1 > MaxAttempts)
          /\ UNCHANGED <<cancelled, violated>>
     ELSE /\ Violate /\ cancelled' = cancelled \cup {q}
          /\ UNCHANGED <<permit, reserved, attempted>>
  /\ UNCHANGED <<pc, headers, admitted>>

\* WroteHeaders, for a connection taken before; it may come after the round trip.
WroteHeaders(q) ==
  /\ wire[q].headers < wire[q].conns
  /\ wire' = [wire EXCEPT ![q].headers = @ + 1]
  /\ headers' = headers + 1
  /\ IF headers + 1 > attempted THEN Violate ELSE UNCHANGED <<exhausted, violated>>
  /\ UNCHANGED <<pc, permit, cancelled, attempted, reserved, admitted>>

\* The backend fails, or a request whose context was cancelled does.
RoundTripFails(q) ==
  /\ At(q, "backend")
  /\ Goto(q, "failed") /\ FinishPermit(q)
  /\ UNCHANGED <<wire, cancelled, attempted, headers, admitted, exhausted, violated>>

\* A response without an observed attempt is not used (requireObservedAttempt).
Observed(q) == permit[q].started > 0

RoundTripAnswers(q) ==
  /\ At(q, "backend")
  /\ IF Observed(q) /\ q \notin cancelled
     THEN /\ Goto(q, "body") /\ UNCHANGED <<permit, reserved>>
     ELSE /\ Goto(q, "failed") /\ FinishPermit(q)
  /\ IF Observed(q) THEN UNCHANGED <<exhausted, violated>> ELSE Violate
  /\ UNCHANGED <<wire, cancelled, attempted, headers, admitted>>

\* attemptBudgetBody.Close, which may be called again.
CloseBody(q) ==
  /\ pc[q] \in {"body", "closed"}
  /\ Goto(q, "closed") /\ FinishPermit(q)
  /\ UNCHANGED <<wire, cancelled, attempted, headers, admitted, exhausted, violated>>

-----------------------------------------------------------------------------
Init ==
  /\ pc = [q \in Requests |-> "idle"]
  /\ permit = [q \in Requests |-> NoPermit]
  /\ wire = [q \in Requests |-> [conns |-> 0, headers |-> 0]]
  /\ cancelled = {}
  /\ attempted = 0 /\ headers = 0 /\ reserved = 0 /\ admitted = 0
  /\ exhausted = FALSE /\ violated = FALSE

\* Every request may have ended, and no more be sent.
Ended == (\A q \in Requests : pc[q] \in {"refused", "failed", "closed"}) /\ UNCHANGED vars

Next == \/ \E q \in Requests : \/ Begin(q) \/ Schedule(q) \/ GotConn(q) \/ WroteHeaders(q)
                               \/ RoundTripFails(q) \/ RoundTripAnswers(q) \/ CloseBody(q)
        \/ Ended

Spec == Init /\ [][Next]_vars

-----------------------------------------------------------------------------
(* Properties.                                                             *)

\* What a permit has started and may still start is at most its allowance.
Permits == {p \in [remaining : 0..Allowance, started : 0..Allowance, done : BOOLEAN] :
              p.remaining + p.started <= Allowance}

\* Type invariant of the round trips, their permits and the counters.
TypeOK ==
  /\ pc \in [Requests -> {"idle", "pacing", "backend", "body", "closed", "failed", "refused"}]
  /\ permit \in [Requests -> Permits]
  /\ wire \in [Requests -> [conns : Nat, headers : Nat]]
  /\ cancelled \subseteq Requests
  /\ attempted \in Nat /\ headers \in Nat /\ admitted \in Nat /\ reserved \in Int
  /\ exhausted \in BOOLEAN /\ violated \in BOOLEAN

\* Attempts made and attempts reserved never exceed the budget, so a backend
\* that keeps to its allowance cannot overrun it whatever it retries.
BudgetKept == attempted + reserved <= MaxAttempts

\* The sum over the requests of numbers of at most `most`: how many units they hold.
Units(number, most) == {x \in Requests \X (1..most) : x[2] <= number[x[1]]}
Total(number, most) == Cardinality(Units(number, most))
Remaining == [q \in Requests |-> permit[q].remaining]
Conns == [q \in Requests |-> wire[q].conns]

\* The reservation is what the open permits may still use: nothing is given
\* back twice, and nothing stays reserved when every request has ended.
ReservedExact ==
  /\ reserved = Total(Remaining, Allowance)
  /\ \A q \in Requests : pc[q] \in {"closed", "failed", "refused"} => permit[q].remaining = 0

\* A backend within the allowance, that reports its connections, never trips
\* the fail-closed state, though header callbacks come late; and a connection
\* beyond the allowance is never used for a response.
Connections == Total(Conns, BackendTries)
AlarmIsRight ==
  /\ violated => \/ \E q \in Requests : wire[q].conns > Allowance
                 \/ \E q \in Requests : pc[q] = "failed" /\ wire[q].conns = 0
  /\ ~violated => attempted = Connections
  /\ \A q \in Requests : pc[q] \in {"body", "closed"} => wire[q].conns \in 1..Allowance

\* The books of the budget balance, and the alarm is raised for what it is for.
BooksBalance == ReservedExact /\ AlarmIsRight
=============================================================================
