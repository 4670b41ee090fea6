--------------------------- MODULE WorkshopProofs ---------------------------
(***************************************************************************)
(* What holds of Workshop for every value of its constants: of the         *)
(* attempt budget for any requests, budget and allowance, of the ZIP       *)
(* export for any files, of the PDF rendering, of the prompts for any      *)
(* keys and questions, of the extraction for any archives and selections,  *)
(* of the sidecar checks for any files and changes; and, with the proofs   *)
(* of the cache root and the prefetch, the properties under which the      *)
(* parts are checked.  The audit of the outline stays with TLC.            *)
(*                                                                         *)
(* A part's invariant is stated with its operators as Workshop has them    *)
(* (Zip!, Render!, Prompts!, Unpack!, Sidecar!); the other parts do not    *)
(* touch its variables.                                                    *)
(***************************************************************************)
EXTENDS Workshop, FiniteSetTheorems, SequenceTheorems, WellFoundedInduction, TLAPS

-----------------------------------------------------------------------------
(* The attempt budget.                                                     *)

\* Closing a permit keeps it well formed and never adds to the reservation.
LEMMA FinishLemma ==
  ASSUME NEW q \in Requests, TypeOK, FinishPermit(q)
  PROVE  /\ permit' \in [Requests -> Permits]
         /\ reserved' \in Int /\ reserved' <= reserved
<1>1. permit[q] \in Permits /\ reserved \in Int /\ permit \in [Requests -> Permits]
  BY DEF TypeOK
<1> USE BudgetAssumption DEF BudgetAssumption
<1>2. permit[q].remaining \in 0..Allowance /\ Allowance \in Nat
  BY <1>1 DEF BudgetAssumption, Permits
<1>3. CASE permit[q].done
  BY <1>1, <1>3 DEF FinishPermit
<1>4. CASE ~permit[q].done
  <2>1. [remaining |-> 0, started |-> permit[q].started, done |-> TRUE] \in Permits
    <3>1. permit[q].started \in 0..Allowance
      BY <1>1 DEF Permits
    <3> QED BY <1>2, <3>1 DEF Permits
  <2>2. permit' = [permit EXCEPT ![q] = [remaining |-> 0, started |-> permit[q].started, done |-> TRUE]]
    BY <1>1, <1>4 DEF FinishPermit
  <2>3. reserved' = reserved - permit[q].remaining
    BY <1>4 DEF FinishPermit
  <2> QED BY <1>1, <1>2, <2>1, <2>2, <2>3
<1> QED BY <1>3, <1>4

\* The initial state is well typed.
LEMMA InitTypes == Init => TypeOK
<1>1. NoPermit \in Permits
  BY BudgetAssumption DEF BudgetAssumption, NoPermit, Permits
<1>2. [q \in Requests |-> [conns |-> 0, headers |-> 0]] \in [Requests -> [conns : Nat, headers : Nat]]
  OBVIOUS
<1>3. [q \in Requests |-> NoPermit] \in [Requests -> Permits]
  BY <1>1
<1> SUFFICES ASSUME Init PROVE TypeOK
  OBVIOUS
<1>4. wire \in [Requests -> [conns : Nat, headers : Nat]] /\ permit \in [Requests -> Permits]
  BY <1>2, <1>3 DEF Init
<1>5. pc \in [Requests -> {"idle", "pacing", "backend", "body", "closed", "failed", "refused"}]
  BY DEF Init
<1>6. exhausted \in BOOLEAN /\ violated \in BOOLEAN
  BY DEF Init
<1> QED BY <1>4, <1>5, <1>6 DEF Init, TypeOK

\* Every step keeps the types.
LEMMA StepTypes == TypeOK /\ [Next]_vars => TypeOK'
<1> SUFFICES ASSUME TypeOK, [Next]_vars PROVE TypeOK'
  OBVIOUS
<1> USE BudgetAssumption DEF BudgetAssumption
<1>1. ASSUME NEW q \in Requests, Begin(q) PROVE TypeOK'
  <2>1. NewPermit \in Permits
    BY DEF NewPermit, Permits
  <2>2. CASE NoRoom
    BY <1>1, <2>2 DEF Begin, TypeOK, Goto, counters
  <2>3. CASE ~NoRoom
    BY <1>1, <2>1, <2>3 DEF Begin, TypeOK, Goto
  <2> QED BY <2>2, <2>3
<1>2. ASSUME NEW q \in Requests, Schedule(q) PROVE TypeOK'
  <2>1. permit' \in [Requests -> Permits] /\ reserved' \in Int
    BY <1>2, FinishLemma DEF Schedule, TypeOK
  <2> QED BY <1>2, <2>1 DEF Schedule, TypeOK, At, Goto
<1>3. ASSUME NEW q \in Requests, GotConn(q) PROVE TypeOK'
  <2>1. permit[q] \in Permits /\ wire[q] \in [conns : Nat, headers : Nat]
    BY DEF TypeOK
  <2>2. wire' \in [Requests -> [conns : Nat, headers : Nat]]
    <3>1. [wire[q] EXCEPT !.conns = @ + 1] \in [conns : Nat, headers : Nat]
      BY <2>1
    <3> QED BY <1>3, <3>1 DEF GotConn, TypeOK
  <2>3. CASE Allowed(q)
    <3>1. [remaining |-> permit[q].remaining - 1, started |-> permit[q].started + 1,
           done |-> permit[q].done] \in Permits
      <4>1. /\ permit[q].remaining \in 1..Allowance /\ permit[q].started \in 0..Allowance
            /\ permit[q].done \in BOOLEAN
            /\ permit[q].remaining + permit[q].started <= Allowance
        BY <2>1, <2>3 DEF Allowed, Permits
      <4> QED BY <4>1 DEF Permits
    <3>2. permit' \in [Requests -> Permits]
      BY <1>3, <2>3, <3>1 DEF GotConn, TypeOK
    <3>3. exhausted' \in BOOLEAN
      BY <1>3, <2>3, Zenon DEF GotConn, TypeOK
    <3>4. attempted' \in Nat /\ reserved' \in Int
      BY <1>3, <2>3 DEF GotConn, TypeOK
    <3> QED BY <1>3, <2>2, <2>3, <3>2, <3>3, <3>4 DEF GotConn, TypeOK
  <2>4. CASE ~Allowed(q)
    BY <1>3, <2>2, <2>4 DEF GotConn, TypeOK, Violate
  <2> QED BY <2>3, <2>4
<1>4. ASSUME NEW q \in Requests, WroteHeaders(q) PROVE TypeOK'
  <2>1. [wire[q] EXCEPT !.headers = @ + 1] \in [conns : Nat, headers : Nat]
    BY DEF TypeOK
  <2>2. wire' \in [Requests -> [conns : Nat, headers : Nat]]
    BY <1>4, <2>1 DEF WroteHeaders, TypeOK
  <2>3. exhausted' \in BOOLEAN /\ violated' \in BOOLEAN
    BY <1>4, Zenon DEF WroteHeaders, TypeOK, Violate
  <2>4. headers' \in Nat
    BY <1>4 DEF WroteHeaders, TypeOK
  <2> QED BY <1>4, <2>2, <2>3, <2>4 DEF WroteHeaders, TypeOK
<1>5. ASSUME NEW q \in Requests, RoundTripFails(q) PROVE TypeOK'
  <2>1. permit' \in [Requests -> Permits] /\ reserved' \in Int
    BY <1>5, FinishLemma DEF RoundTripFails
  <2> QED BY <1>5, <2>1 DEF RoundTripFails, TypeOK, At, Goto
<1>6. ASSUME NEW q \in Requests, RoundTripAnswers(q) PROVE TypeOK'
  <2>1. permit' \in [Requests -> Permits] /\ reserved' \in Int
    BY <1>6, FinishLemma DEF RoundTripAnswers, TypeOK
  <2> QED BY <1>6, <2>1 DEF RoundTripAnswers, TypeOK, At, Goto, Violate
<1>7. ASSUME NEW q \in Requests, CloseBody(q) PROVE TypeOK'
  <2>1. permit' \in [Requests -> Permits] /\ reserved' \in Int
    BY <1>7, FinishLemma DEF CloseBody
  <2> QED BY <1>7, <2>1 DEF CloseBody, TypeOK, Goto
<1>8. CASE Ended \/ UNCHANGED vars
  BY <1>8 DEF Ended, vars, counters, TypeOK
<1> QED BY <1>1, <1>2, <1>3, <1>4, <1>5, <1>6, <1>7, <1>8 DEF Next

\* The type invariant holds of every behaviour (budget.go, dispatch.go).
THEOREM TypeCorrect == Spec => []TypeOK
BY InitTypes, StepTypes, PTL DEF Spec

\* Attempts made and reserved stay within the budget, whatever the backend
\* does (AttemptBudget.begin, startAttempt, finish).
THEOREM BudgetAlwaysKept == Spec => []BudgetKept
<1>1. Init => BudgetKept
  BY BudgetAssumption DEF BudgetAssumption, Init, BudgetKept
<1>2. TypeOK /\ BudgetKept /\ [Next]_vars => BudgetKept'
  <2> SUFFICES ASSUME TypeOK, BudgetKept, [Next]_vars PROVE BudgetKept'
    OBVIOUS
  <2> USE BudgetAssumption DEF BudgetAssumption
  <2>0. attempted \in Nat /\ reserved \in Int
    BY DEF TypeOK
  <2>1. ASSUME NEW q \in Requests, Begin(q) PROVE BudgetKept'
    <3>1. CASE NoRoom
      BY <2>1, <3>1 DEF Begin, BudgetKept, counters
    <3>2. CASE ~NoRoom
      BY <2>0, <2>1, <3>2 DEF Begin, BudgetKept, NoRoom
    <3> QED BY <3>1, <3>2
  <2>2. ASSUME NEW q \in Requests, Schedule(q) PROVE BudgetKept'
    BY <2>0, <2>2, FinishLemma DEF Schedule, BudgetKept
  <2>3. ASSUME NEW q \in Requests, GotConn(q) PROVE BudgetKept'
    BY <2>0, <2>3 DEF GotConn, BudgetKept
  <2>4. ASSUME NEW q \in Requests, WroteHeaders(q) PROVE BudgetKept'
    BY <2>4 DEF WroteHeaders, BudgetKept
  <2>5. ASSUME NEW q \in Requests, RoundTripFails(q) PROVE BudgetKept'
    BY <2>0, <2>5, FinishLemma DEF RoundTripFails, BudgetKept
  <2>6. ASSUME NEW q \in Requests, RoundTripAnswers(q) PROVE BudgetKept'
    BY <2>0, <2>6, FinishLemma DEF RoundTripAnswers, BudgetKept
  <2>7. ASSUME NEW q \in Requests, CloseBody(q) PROVE BudgetKept'
    BY <2>0, <2>7, FinishLemma DEF CloseBody, BudgetKept
  <2>8. CASE Ended \/ UNCHANGED vars
    BY <2>8 DEF Ended, vars, counters, BudgetKept
  <2> QED BY <2>1, <2>2, <2>3, <2>4, <2>5, <2>6, <2>7, <2>8 DEF Next
<1> QED BY <1>1, <1>2, TypeCorrect, PTL DEF Spec
-----------------------------------------------------------------------------
(* The sums of the books.                                                  *)

\* A sum is a number, and a larger summand gives no smaller set of units.
LEMMA TotalType ==
  ASSUME NEW f, NEW m \in Nat
  PROVE  /\ IsFiniteSet(Units(f, m)) /\ Total(f, m) \in Nat
         /\ IsFiniteSet(Requests \X (1..m))
<1>1. IsFiniteSet(Requests) /\ IsFiniteSet(1..m)
  BY BudgetAssumption, FS_Interval DEF BudgetAssumption
<1>2. IsFiniteSet(Requests \X (1..m))
  BY <1>1, FS_Product
<1>3. Units(f, m) \subseteq Requests \X (1..m)
  BY DEF Units
<1>4. IsFiniteSet(Units(f, m))
  BY <1>2, <1>3, FS_Subset
<1> QED BY <1>2, <1>4, FS_CardinalityType DEF Total

\* The numbers from one up to a number are as many.
LEMMA IntervalSize ==
  ASSUME NEW n \in Nat
  PROVE  IsFiniteSet(1..n) /\ Cardinality(1..n) = n
<1>1. IsFiniteSet(1..n) /\ Cardinality(1..n) = IF 1 > n THEN 0 ELSE n - 1 + 1
  BY FS_Interval
<1> QED BY <1>1

\* What one request holds of a sum, and what the others hold.
LEMMA UnitsOfOne ==
  ASSUME NEW q \in Requests, NEW m \in Nat, NEW f, f[q] \in 0..m
  PROVE  LET rest == {x \in Units(f, m) : x[1] # q}
         IN  /\ IsFiniteSet(rest) /\ Cardinality(rest) \in Nat
             /\ Total(f, m) = Cardinality(rest) + f[q]
<1> DEFINE rest == {x \in Units(f, m) : x[1] # q}
           own == {q} \X (1..f[q])
<1>1. IsFiniteSet(Units(f, m))
  BY TotalType
<1>2. IsFiniteSet(rest)
  BY <1>1, FS_Subset
<1>3. IsFiniteSet({q}) /\ Cardinality({q}) = 1
  BY FS_Singleton
<1>4. f[q] \in Nat /\ f[q] <= m
  OBVIOUS
<1>5. IsFiniteSet(1..f[q]) /\ Cardinality(1..f[q]) = f[q]
  BY <1>4, IntervalSize
<1>6. IsFiniteSet(own) /\ Cardinality(own) = 1 * f[q]
  BY <1>3, <1>5, FS_Product
<1>7. Units(f, m) = rest \cup own
  <2>1. ASSUME NEW x \in Units(f, m) PROVE x \in rest \cup own
    <3>1. x \in Requests \X (1..m) /\ x[2] <= f[x[1]]
      BY DEF Units
    <3>2. CASE x[1] = q
      <4>1. x = <<x[1], x[2]>> /\ x[2] \in 1..m
        BY <3>1
      <4>2. x[2] \in 1..f[q]
        BY <3>1, <3>2, <4>1, <1>4
      <4> QED BY <3>2, <4>1, <4>2
    <3>3. CASE x[1] # q
      BY <3>3
    <3> QED BY <3>2, <3>3
  <2>2. ASSUME NEW x \in own PROVE x \in Units(f, m)
    <3>1. x = <<x[1], x[2]>> /\ x[1] = q /\ x[2] \in 1..f[q]
      OBVIOUS
    <3>2. x[2] \in 1..m /\ x[2] <= f[q]
      BY <3>1, <1>4
    <3> QED BY <3>1, <3>2 DEF Units
  <2> QED BY <2>1, <2>2
<1>8. rest \cap own = {}
  OBVIOUS
<1>9. Cardinality(rest \cup own) = Cardinality(rest) + Cardinality(own) - Cardinality({})
  BY <1>2, <1>6, <1>8, FS_Union
<1>10. Cardinality({}) = 0
  BY FS_EmptySet
<1>11. Cardinality(rest) \in Nat
  BY <1>2, FS_CardinalityType
<1>12. Total(f, m) = Cardinality(rest \cup own)
  BY <1>7 DEF Total
<1>13. Total(f, m) = Cardinality(rest) + f[q]
  <2> HIDE DEF rest, own
  <2> QED BY <1>4, <1>6, <1>9, <1>10, <1>11, <1>12
<1> QED BY <1>2, <1>11, <1>13

\* A sum changes by what one summand changes.
LEMMA TotalMoves ==
  ASSUME NEW q \in Requests, NEW m \in Nat, NEW f, NEW g,
         f[q] \in 0..m, g[q] \in 0..m, \A r \in Requests : r # q => g[r] = f[r]
  PROVE  /\ Total(f, m) \in Nat /\ Total(g, m) \in Nat
         /\ Total(g, m) = Total(f, m) - f[q] + g[q]
<1> DEFINE left(h) == {x \in Units(h, m) : x[1] # q}
<1>1. left(f) = left(g)
  BY DEF Units
<1>2. Cardinality(left(f)) \in Nat /\ Total(f, m) = Cardinality(left(f)) + f[q]
  BY UnitsOfOne
<1>3. Total(g, m) = Cardinality(left(g)) + g[q]
  BY UnitsOfOne
<1> HIDE DEF left
<1> QED BY <1>1, <1>2, <1>3

\* A sum of nothing is nothing.
LEMMA TotalOfNothing ==
  ASSUME NEW m \in Nat, NEW f, \A q \in Requests : f[q] = 0
  PROVE  Total(f, m) = 0
<1>1. Units(f, m) = {}
  BY DEF Units
<1> QED BY <1>1, FS_EmptySet DEF Total

\* Summands that are no larger, and one of them smaller, make a smaller sum.
LEMMA TotalSmaller ==
  ASSUME NEW m \in Nat, NEW f \in [Requests -> 0..m], NEW g \in [Requests -> 0..m],
         \A q \in Requests : f[q] <= g[q], NEW r \in Requests, f[r] < g[r]
  PROVE  Total(f, m) + 1 <= Total(g, m)
<1>1. Units(f, m) \subseteq Units(g, m)
  BY DEF Units
<1>2. <<r, g[r]>> \in Units(g, m) /\ <<r, g[r]>> \notin Units(f, m)
  BY DEF Units
<1>3. IsFiniteSet(Units(g, m)) /\ Total(g, m) \in Nat /\ Total(f, m) \in Nat
  BY TotalType
<1>4. Total(f, m) <= Total(g, m) /\ Total(f, m) # Total(g, m)
  BY <1>1, <1>2, <1>3, FS_Subset DEF Total
<1> QED BY <1>3, <1>4
-----------------------------------------------------------------------------
(* The books balance.                                                      *)

\* What is summed, and where a request is over.
Headers == [q \in Requests |-> wire[q].headers]
Over == {"closed", "failed", "refused", "idle"}

\* What a request has: nothing before it is admitted and nothing reserved after it
\* ended; between, the reservation less the connections taken, until it is used up.
RequestInv(q) ==
  LET conns == wire[q].conns
      p == permit[q]
  IN  /\ conns <= BackendTries /\ wire[q].headers <= conns
      /\ pc[q] \in {"idle", "refused", "pacing"} => conns = 0
      /\ pc[q] \in Over => p.remaining = 0
      /\ p.done => p.remaining = 0
      /\ pc[q] \in {"pacing", "backend"} =>
           /\ ~p.done
           /\ conns <= Allowance => p.started = conns /\ p.remaining = Allowance - conns
           /\ conns > Allowance => p.started = Allowance /\ p.remaining = 0 /\ q \in cancelled
      /\ pc[q] \in {"body", "closed"} => conns \in 1..Allowance

\* What the alarm is raised for.
Reason ==
  \/ \E q \in Requests : wire[q].conns > Allowance
  \/ \E q \in Requests : pc[q] = "failed" /\ wire[q].conns = 0

\* The counters are the sums over the requests, and the alarm has its reason.
CountersInv ==
  /\ reserved = Total(Remaining, Allowance)
  /\ headers = Total(Headers, BackendTries)
  /\ ~violated => attempted = Connections
  /\ violated => Reason

\* Together they are inductive.
BooksInv == TypeOK /\ (\A q \in Requests : RequestInv(q)) /\ CountersInv

\* The numbers summed are within their bounds.
LEMMA SummandTypes ==
  ASSUME TypeOK, \A q \in Requests : RequestInv(q)
  PROVE  /\ Remaining \in [Requests -> 0..Allowance]
         /\ Conns \in [Requests -> 0..BackendTries] /\ Headers \in [Requests -> 0..BackendTries]
         /\ Allowance \in Nat \ {0} /\ BackendTries \in Nat
<1>1. Allowance \in Nat \ {0} /\ BackendTries \in Nat
  BY BudgetAssumption DEF BudgetAssumption
<1>2. ASSUME NEW q \in Requests PROVE permit[q].remaining \in 0..Allowance
  BY DEF TypeOK, Permits
<1>3. ASSUME NEW q \in Requests PROVE /\ wire[q].conns \in Nat /\ wire[q].headers \in Nat
                                      /\ wire[q].conns <= BackendTries /\ wire[q].headers <= wire[q].conns
  <2>1. wire[q] \in [conns : Nat, headers : Nat]
    BY DEF TypeOK
  <2> QED BY <2>1 DEF RequestInv
<1>4. ASSUME NEW q \in Requests PROVE wire[q].conns \in 0..BackendTries /\ wire[q].headers \in 0..BackendTries
  BY <1>1, <1>3
<1> QED BY <1>1, <1>2, <1>4 DEF Remaining, Conns, Headers

\* A request of which nothing changes is as it was.
LEMMA RequestKept ==
  ASSUME NEW q \in Requests, RequestInv(q), cancelled \subseteq cancelled',
         pc'[q] = pc[q], permit'[q] = permit[q], wire'[q] = wire[q]
  PROVE  RequestInv(q)'
BY DEF RequestInv

\* The reason of the alarm does not go away.
LEMMA ReasonKept ==
  ASSUME Reason, TypeOK, TypeOK',
         \A q \in Requests : /\ wire'[q].conns >= wire[q].conns
                             /\ pc[q] = "failed" => pc'[q] = "failed" /\ wire'[q].conns = wire[q].conns
  PROVE  Reason'
<1>1. \A q \in Requests : wire[q].conns \in Nat /\ wire'[q].conns \in Nat
  BY DEF TypeOK
<1>2. Allowance \in Nat
  BY BudgetAssumption DEF BudgetAssumption
<1>3. CASE \E q \in Requests : wire[q].conns > Allowance
  <2>1. PICK q \in Requests : wire[q].conns > Allowance
    BY <1>3
  <2>2. wire'[q].conns > Allowance
    BY <1>1, <1>2, <2>1
  <2> QED BY <2>2 DEF Reason
<1>4. CASE \E q \in Requests : pc[q] = "failed" /\ wire[q].conns = 0
  BY <1>4 DEF Reason
<1> QED BY <1>3, <1>4 DEF Reason

\* Ending a request gives back what its permit has left, whether it was closed before or not.
LEMMA FinishBooks ==
  ASSUME NEW q \in Requests, BooksInv, FinishPermit(q)
  PROVE  /\ permit'[q].remaining = 0 /\ \A r \in Requests : r # q => permit'[r] = permit[r]
         /\ reserved' = Total(Remaining, Allowance)'
<1>1. permit \in [Requests -> Permits] /\ reserved \in Int /\ permit[q].done \in BOOLEAN
  BY DEF BooksInv, TypeOK, Permits
<1>2. Remaining \in [Requests -> 0..Allowance] /\ Allowance \in Nat
  BY SummandTypes DEF BooksInv
<1>3. reserved = Total(Remaining, Allowance) /\ Remaining[q] = permit[q].remaining
  BY DEF BooksInv, CountersInv, Remaining
<1>4. CASE permit[q].done
  <2>1. permit[q].remaining = 0
    BY <1>4 DEF BooksInv, RequestInv
  <2>2. permit' = permit /\ reserved' = reserved
    BY <1>4 DEF FinishPermit
  <2>3. Remaining' = Remaining
    BY <2>2 DEF Remaining
  <2>4. Total(Remaining, Allowance)' = Total(Remaining, Allowance)
    BY <2>3 DEF Total, Units
  <2> QED BY <1>3, <2>1, <2>2, <2>4
<1>5. CASE ~permit[q].done
  <2>1. /\ permit' = [permit EXCEPT ![q] = [remaining |-> 0, started |-> permit[q].started, done |-> TRUE]]
        /\ reserved' = reserved - permit[q].remaining
    BY <1>1, <1>5 DEF FinishPermit
  <2>2. permit'[q].remaining = 0 /\ \A r \in Requests : r # q => permit'[r] = permit[r]
    BY <1>1, <2>1
  <2> DEFINE after == [r \in Requests |-> permit'[r].remaining]
  <2>3. after[q] = 0 /\ \A r \in Requests : r # q => after[r] = Remaining[r]
    BY <2>2 DEF Remaining
  <2>4. Remaining[q] \in 0..Allowance /\ after[q] \in 0..Allowance
    BY <1>2, <2>3
  <2>5. Total(Remaining, Allowance)' = Total(after, Allowance)
    BY DEF Remaining, Total, Units
  <2> HIDE DEF after
  <2>6. Total(after, Allowance) = Total(Remaining, Allowance) - Remaining[q] + after[q]
        /\ Total(Remaining, Allowance) \in Nat
    BY <1>2, <2>3, <2>4, TotalMoves
  <2> QED BY <1>3, <2>1, <2>2, <2>3, <2>4, <2>5, <2>6
<1> QED BY <1>1, <1>4, <1>5

\* Sums over what does not change do not change.
LEMMA SumsKept ==
  /\ wire' = wire => Connections' = Connections /\ Total(Headers, BackendTries)' = Total(Headers, BackendTries)
  /\ permit' = permit => Total(Remaining, Allowance)' = Total(Remaining, Allowance)
BY DEF Connections, Conns, Headers, Remaining, Total, Units

\* The counters stay right when no connection and no header callback came.
LEMMA CountersKept ==
  ASSUME BooksInv, TypeOK', wire' = wire, UNCHANGED <<attempted, headers>>,
         reserved' = Total(Remaining, Allowance)',
         \A q \in Requests : pc[q] = "failed" => pc'[q] = "failed",
         violated' /\ ~violated => Reason', violated => violated'
  PROVE  CountersInv'
<1>1. Connections' = Connections /\ Total(Headers, BackendTries)' = Total(Headers, BackendTries)
  BY SumsKept
<1>2. headers' = Total(Headers, BackendTries)'
  BY <1>1 DEF BooksInv, CountersInv
<1>3. ~violated' => attempted' = Connections'
  BY <1>1 DEF BooksInv, CountersInv
<1>4. \A q \in Requests : wire[q].conns \in Nat
  BY DEF BooksInv, TypeOK
<1>5. violated => Reason'
  <2> SUFFICES ASSUME violated PROVE Reason'
    OBVIOUS
  <2>1. Reason /\ TypeOK
    BY DEF BooksInv, CountersInv
  <2>2. \A q \in Requests : /\ wire'[q].conns >= wire[q].conns
                            /\ pc[q] = "failed" => pc'[q] = "failed" /\ wire'[q].conns = wire[q].conns
    BY <1>4
  <2> QED BY <2>1, <2>2, ReasonKept
<1> QED BY <1>2, <1>3, <1>5 DEF CountersInv

\* Every step keeps the books.
LEMMA BooksStep == BooksInv /\ TypeOK' /\ [Next]_vars => BooksInv'
<1> SUFFICES ASSUME BooksInv, TypeOK', [Next]_vars PROVE BooksInv'
  OBVIOUS
<1>t. /\ TypeOK /\ Allowance \in Nat \ {0} /\ BackendTries \in Nat
      /\ Remaining \in [Requests -> 0..Allowance]
      /\ Conns \in [Requests -> 0..BackendTries] /\ Headers \in [Requests -> 0..BackendTries]
  BY SummandTypes DEF BooksInv
<1>0. /\ \A r \in Requests : RequestInv(r)
      /\ pc \in [Requests -> {"idle", "pacing", "backend", "body", "closed", "failed", "refused"}]
      /\ permit \in [Requests -> Permits] /\ wire \in [Requests -> [conns : Nat, headers : Nat]]
      /\ reserved = Total(Remaining, Allowance)
      /\ violated \in BOOLEAN
  BY DEF BooksInv, TypeOK, CountersInv
\* A step of one request that leaves connections, callbacks and alarm alone.
<1>a. ASSUME NEW q \in Requests, wire' = wire, UNCHANGED <<attempted, headers>>,
             cancelled' = cancelled, pc[q] # "failed",
             \A r \in Requests : r # q => pc'[r] = pc[r] /\ permit'[r] = permit[r],
             reserved' = Total(Remaining, Allowance)', RequestInv(q)',
             violated' /\ ~violated => Reason', violated => violated'
      PROVE  BooksInv'
  <2>1. ASSUME NEW r \in Requests PROVE RequestInv(r)'
    <3>1. CASE r = q
      BY <1>a, <3>1
    <3>2. CASE r # q
      BY <1>0, <1>a, <3>2, RequestKept
    <3> QED BY <3>1, <3>2
  <2>2. \A r \in Requests : pc[r] = "failed" => pc'[r] = "failed"
    BY <1>a
  <2>3. CountersInv'
    BY <1>a, <2>2, CountersKept
  <2> QED BY <2>1, <2>3 DEF BooksInv
<1>1. ASSUME NEW q \in Requests, Begin(q) PROVE BooksInv'
  <2>1. pc[q] = "idle" /\ permit[q].remaining = 0 /\ wire[q].conns = 0 /\ wire[q].headers = 0
    <3>1. wire[q].headers \in Nat /\ pc[q] = "idle"
      BY <1>0, <1>1 DEF Begin, At
    <3> QED BY <1>0, <3>1 DEF RequestInv, Over
  <2>2. wire' = wire /\ attempted' = attempted /\ headers' = headers /\ cancelled' = cancelled /\ violated' = violated
    BY <1>1 DEF Begin, counters
  <2>3. \A r \in Requests : r # q => pc'[r] = pc[r] /\ permit'[r] = permit[r]
    BY <1>0, <1>1 DEF Begin, Goto
  <2>4. CASE NoRoom
    <3>1. pc'[q] = "refused" /\ permit' = permit /\ reserved' = reserved
      BY <1>0, <1>1, <2>4 DEF Begin, Goto, counters
    <3>2. RequestInv(q)'
      BY <1>0, <2>1, <2>2, <3>1, <1>t DEF RequestInv, Over
    <3>3. reserved' = Total(Remaining, Allowance)'
      BY <1>0, <3>1, SumsKept
    <3> QED BY <1>a, <2>1, <2>2, <2>3, <3>2, <3>3
  <2>5. CASE ~NoRoom
    <3>1. pc'[q] = "pacing" /\ permit'[q] = NewPermit /\ reserved' = reserved + Allowance
      BY <1>0, <1>1, <2>5 DEF Begin, Goto
    <3>2. RequestInv(q)'
      BY <1>t, <2>1, <2>2, <3>1 DEF RequestInv, Over, NewPermit
    <3> DEFINE after == [r \in Requests |-> permit'[r].remaining]
    <3>3. after[q] = Allowance /\ \A r \in Requests : r # q => after[r] = Remaining[r]
      BY <2>3, <3>1 DEF Remaining, NewPermit
    <3>4. Total(Remaining, Allowance)' = Total(after, Allowance)
      BY DEF Remaining, Total, Units
    <3>5. Remaining[q] = 0
      BY <2>1 DEF Remaining
    <3> HIDE DEF after
    <3>8. Remaining[q] \in 0..Allowance /\ after[q] \in 0..Allowance
      BY <1>t, <3>3, <3>5
    <3>6. Total(after, Allowance) = Total(Remaining, Allowance) - Remaining[q] + after[q]
          /\ Total(Remaining, Allowance) \in Nat
      <4>1. Allowance \in Nat /\ \A r \in Requests : r # q => after[r] = Remaining[r]
        BY <1>t, <3>3
      <4> QED BY <3>8, <4>1, TotalMoves
    <3>7. reserved' = Total(Remaining, Allowance)'
      BY <1>0, <1>t, <3>1, <3>3, <3>4, <3>5, <3>6
    <3> QED BY <1>a, <2>1, <2>2, <2>3, <3>2, <3>7
  <2> QED BY <2>4, <2>5
\* A request that fails, or whose body is closed, gives back what it has.
<1>b. ASSUME NEW q \in Requests, FinishPermit(q), Goto(q, "failed") \/ Goto(q, "closed"),
             pc[q] \in {"pacing", "backend", "body", "closed"},
             pc'[q] = "closed" => pc[q] \in {"body", "closed"},
             wire' = wire, UNCHANGED <<attempted, headers>>, cancelled' = cancelled,
             violated' /\ ~violated => pc'[q] = "failed" /\ wire[q].conns = 0, violated => violated'
      PROVE  BooksInv'
  <2>1. /\ permit'[q].remaining = 0 /\ \A r \in Requests : r # q => permit'[r] = permit[r]
        /\ reserved' = Total(Remaining, Allowance)'
    BY <1>b, FinishBooks
  <2>2. pc'[q] \in {"failed", "closed"} /\ \A r \in Requests : r # q => pc'[r] = pc[r]
    BY <1>0, <1>b DEF Goto
  <2>3. RequestInv(q)'
    BY <1>0, <1>b, <2>1, <2>2 DEF RequestInv, Over
  <2>4. violated' /\ ~violated => Reason'
    BY <1>b DEF Reason
  <2> QED BY <1>a, <1>b, <2>1, <2>2, <2>3, <2>4
<1>2. ASSUME NEW q \in Requests, Schedule(q) PROVE BooksInv'
  <2>1. /\ pc[q] = "pacing" /\ wire' = wire /\ attempted' = attempted /\ headers' = headers
        /\ cancelled' = cancelled /\ violated' = violated
    BY <1>2 DEF Schedule, At
  <2>2. CASE Goto(q, "backend") /\ UNCHANGED <<permit, reserved>>
    <3>1. pc'[q] = "backend" /\ \A r \in Requests : r # q => pc'[r] = pc[r] /\ permit'[r] = permit[r]
      BY <1>0, <2>2 DEF Goto
    <3>2. RequestInv(q)'
      BY <1>0, <2>1, <2>2, <3>1 DEF RequestInv, Over
    <3>3. reserved' = Total(Remaining, Allowance)'
      BY <1>0, <2>2, SumsKept
    <3> QED BY <1>a, <2>1, <3>1, <3>2, <3>3
  <2>3. CASE Goto(q, "failed") /\ FinishPermit(q)
    <3>1. pc'[q] = "failed"
      BY <1>0, <2>3 DEF Goto
    <3> QED BY <1>b, <2>1, <2>3, <3>1
  <2> QED BY <1>2, <2>2, <2>3 DEF Schedule
<1>3. ASSUME NEW q \in Requests, GotConn(q) PROVE BooksInv'
  <2> DEFINE n == wire[q].conns
             afterConns == [r \in Requests |-> wire'[r].conns]
             afterHeaders == [r \in Requests |-> wire'[r].headers]
             after == [r \in Requests |-> permit'[r].remaining]
  <2>1. pc[q] = "backend" /\ n < BackendTries /\ n \in Nat /\ wire[q].headers \in Nat
        /\ headers' = headers /\ pc' = pc
    BY <1>0, <1>3 DEF GotConn, At
  <2>2. wire'[q].conns = n + 1 /\ wire'[q].headers = wire[q].headers /\ \A r \in Requests : r # q => wire'[r] = wire[r]
    BY <1>0, <1>3 DEF GotConn
  <2>3. /\ ~permit[q].done
        /\ n <= Allowance => permit[q].started = n /\ permit[q].remaining = Allowance - n
        /\ n > Allowance => permit[q].started = Allowance /\ permit[q].remaining = 0 /\ q \in cancelled
        /\ wire[q].headers <= n
    BY <1>0, <2>1 DEF RequestInv
  <2>4. /\ Connections' = Connections + 1 /\ Connections \in Nat
        /\ Total(Headers, BackendTries)' = Total(Headers, BackendTries)
    <3>1. afterConns[q] = n + 1 /\ Conns[q] = n /\ \A r \in Requests : r # q => afterConns[r] = Conns[r]
      BY <2>2 DEF Conns
    <3>2. Connections' = Total(afterConns, BackendTries)
      BY DEF Connections, Conns, Total, Units
    <3>3. Conns[q] \in 0..BackendTries /\ afterConns[q] \in 0..BackendTries
      BY <1>t, <2>1, <3>1
    <3>4. afterHeaders = Headers
      BY <2>2 DEF Headers
    <3>5. Total(Headers, BackendTries)' = Total(afterHeaders, BackendTries)
      BY DEF Headers, Total, Units
    <3> HIDE DEF afterConns, afterHeaders, n
    <3>6. Total(afterConns, BackendTries) = Total(Conns, BackendTries) - Conns[q] + afterConns[q]
          /\ Total(Conns, BackendTries) \in Nat
      BY <1>t, <3>1, <3>3, TotalMoves
    <3> QED BY <2>1, <3>1, <3>2, <3>4, <3>5, <3>6 DEF Connections
  <2>5. CASE Allowed(q)
    <3>1. /\ permit'[q] = [remaining |-> permit[q].remaining - 1, started |-> permit[q].started + 1,
                           done |-> permit[q].done]
          /\ \A r \in Requests : r # q => permit'[r] = permit[r]
          /\ reserved' = reserved - 1 /\ attempted' = attempted + 1
          /\ cancelled' = cancelled /\ violated' = violated
      BY <1>0, <1>3, <2>5 DEF GotConn
    <3>2. permit[q].remaining > 0 /\ permit[q].remaining \in 0..Allowance
      BY <1>0, <2>5 DEF Allowed, Permits
    <3>3. n < Allowance /\ permit[q].started = n /\ permit[q].remaining = Allowance - n
      BY <1>t, <2>1, <2>3, <3>2
    <3>4. permit'[q].remaining = Allowance - (n + 1) /\ permit'[q].started = n + 1 /\ ~permit'[q].done
      BY <1>t, <2>1, <2>3, <3>1, <3>3
    <3>5. RequestInv(q)'
      <4> HIDE DEF n
      <4> QED BY <1>t, <2>1, <2>2, <2>3, <3>3, <3>4 DEF RequestInv, Over
    <3>6. ASSUME NEW r \in Requests, r # q PROVE RequestInv(r)'
      BY <1>0, <2>1, <2>2, <3>1, <3>6, RequestKept
    <3>7. after[q] = Remaining[q] - 1 /\ \A r \in Requests : r # q => after[r] = Remaining[r]
      BY <3>1 DEF Remaining
    <3>8. Total(Remaining, Allowance)' = Total(after, Allowance)
      BY DEF Remaining, Total, Units
    <3>9. Remaining[q] \in 0..Allowance /\ after[q] \in 0..Allowance
      <4>1. Remaining[q] = permit[q].remaining
        BY DEF Remaining
      <4> HIDE DEF after
      <4> QED BY <1>t, <3>2, <3>7, <4>1
    <3>10. reserved' = Total(Remaining, Allowance)'
      <4> HIDE DEF after
      <4>1. Total(after, Allowance) = Total(Remaining, Allowance) - Remaining[q] + after[q]
            /\ Total(Remaining, Allowance) \in Nat
        BY <1>t, <3>7, <3>9, TotalMoves
      <4> QED BY <1>0, <3>1, <3>7, <3>8, <3>9, <4>1
    <3>11. headers' = Total(Headers, BackendTries)' /\ (~violated' => attempted' = Connections')
      BY <2>1, <2>4, <3>1 DEF BooksInv, CountersInv
    <3>12. violated' => Reason'
      <4> SUFFICES ASSUME violated PROVE Reason'
        BY <3>1
      <4>1. Reason
        BY DEF BooksInv, CountersInv
      <4>2. \A r \in Requests : wire[r].conns \in Nat
        BY <1>0
      <4>3. \A r \in Requests : /\ wire'[r].conns >= wire[r].conns
                                /\ pc[r] = "failed" => pc'[r] = "failed" /\ wire'[r].conns = wire[r].conns
        BY <2>1, <2>2, <4>2
      <4> QED BY <1>t, <4>1, <4>3, ReasonKept
    <3> QED BY <3>5, <3>6, <3>10, <3>11, <3>12 DEF BooksInv, CountersInv
  <2>6. CASE ~Allowed(q)
    <3>1. /\ permit' = permit /\ reserved' = reserved /\ attempted' = attempted
          /\ cancelled' = cancelled \cup {q} /\ violated' = TRUE
      BY <1>3, <2>6 DEF GotConn, Violate
    <3>2. permit[q].remaining \in 0..Allowance /\ ~(permit[q].remaining > 0)
      BY <1>0, <2>3, <2>6 DEF Allowed, Permits
    <3>3. n >= Allowance /\ permit[q].started = Allowance /\ permit[q].remaining = 0
      BY <1>t, <2>1, <2>3, <3>2
    <3>4. RequestInv(q)'
      <4> HIDE DEF n
      <4> QED BY <1>t, <2>1, <2>2, <2>3, <3>1, <3>3 DEF RequestInv, Over
    <3>5. ASSUME NEW r \in Requests, r # q PROVE RequestInv(r)'
      BY <1>0, <2>1, <2>2, <3>1, <3>5, RequestKept
    <3>6. Reason'
      <4>1. wire'[q].conns > Allowance
        <5> HIDE DEF n
        <5> QED BY <1>t, <2>1, <2>2, <3>3
      <4> QED BY <4>1 DEF Reason
    <3>7. headers' = Total(Headers, BackendTries)' /\ reserved' = Total(Remaining, Allowance)'
      BY <1>0, <2>1, <2>4, <3>1, SumsKept DEF BooksInv, CountersInv
    <3> QED BY <3>1, <3>4, <3>5, <3>6, <3>7 DEF BooksInv, CountersInv
  <2> QED BY <2>5, <2>6
<1>4. ASSUME NEW q \in Requests, WroteHeaders(q) PROVE BooksInv'
  <2> DEFINE h == wire[q].headers
             afterConns == [r \in Requests |-> wire'[r].conns]
             afterHeaders == [r \in Requests |-> wire'[r].headers]
  <2>1. /\ h \in Nat /\ wire[q].conns \in Nat /\ h < wire[q].conns /\ wire[q].conns <= BackendTries
        /\ headers' = headers + 1
        /\ UNCHANGED <<pc, permit, cancelled, attempted, reserved>>
    BY <1>0, <1>4 DEF WroteHeaders, RequestInv
  <2>2. wire'[q].headers = h + 1 /\ wire'[q].conns = wire[q].conns /\ \A r \in Requests : r # q => wire'[r] = wire[r]
    BY <1>0, <1>4 DEF WroteHeaders
  <2>3. RequestInv(q)'
    BY <1>0, <2>1, <2>2 DEF RequestInv, Over
  <2>4. ASSUME NEW r \in Requests, r # q PROVE RequestInv(r)'
    BY <1>0, <2>1, <2>2, <2>4, RequestKept
  <2>5. Connections' = Connections /\ reserved' = Total(Remaining, Allowance)'
    <3>1. afterConns = Conns
      BY <2>2 DEF Conns
    <3>2. Connections' = Total(afterConns, BackendTries)
      BY DEF Connections, Conns, Total, Units
    <3> QED BY <1>0, <2>1, <3>1, <3>2, SumsKept DEF Connections
  <2>6. headers' = Total(Headers, BackendTries)'
    <3>1. afterHeaders[q] = h + 1 /\ Headers[q] = h /\ \A r \in Requests : r # q => afterHeaders[r] = Headers[r]
      BY <2>2 DEF Headers
    <3>2. Total(Headers, BackendTries)' = Total(afterHeaders, BackendTries)
      BY DEF Headers, Total, Units
    <3> HIDE DEF afterHeaders, h
    <3>3. Headers[q] \in 0..BackendTries /\ afterHeaders[q] \in 0..BackendTries
      BY <1>t, <2>1, <3>1
    <3>4. Total(afterHeaders, BackendTries) = Total(Headers, BackendTries) - Headers[q] + afterHeaders[q]
          /\ Total(Headers, BackendTries) \in Nat
      BY <1>t, <3>1, <3>3, TotalMoves
    <3>5. headers = Total(Headers, BackendTries)
      BY DEF BooksInv, CountersInv
    <3> QED BY <2>1, <3>1, <3>2, <3>4, <3>5
  <2>7. ~violated => headers + 1 <= attempted
    <3> SUFFICES ASSUME ~violated PROVE headers + 1 <= attempted
      OBVIOUS
    <3>1. \A r \in Requests : Headers[r] <= Conns[r]
      BY <1>0 DEF RequestInv, Headers, Conns
    <3>2. Headers[q] < Conns[q]
      BY <2>1 DEF Headers, Conns
    <3>3. Total(Headers, BackendTries) + 1 <= Total(Conns, BackendTries)
      BY <1>t, <3>1, <3>2, TotalSmaller
    <3> QED BY <3>3 DEF BooksInv, CountersInv, Connections
  <2>8. violated' = violated
    <3>1. attempted \in Nat /\ headers \in Nat
      BY <1>t DEF TypeOK
    <3>2. CASE violated
      BY <1>4, <3>2 DEF WroteHeaders, Violate
    <3>3. CASE ~violated
      BY <1>4, <2>7, <3>1, <3>3 DEF WroteHeaders
    <3> QED BY <1>0, <3>2, <3>3
  <2>9. violated => Reason'
    <3> SUFFICES ASSUME violated PROVE Reason'
      OBVIOUS
    <3>1. Reason
      BY DEF BooksInv, CountersInv
    <3>2. \A r \in Requests : wire'[r].conns = wire[r].conns /\ wire[r].conns \in Nat
      BY <1>0, <2>2
    <3>3. \A r \in Requests : /\ wire'[r].conns >= wire[r].conns
                              /\ pc[r] = "failed" => pc'[r] = "failed" /\ wire'[r].conns = wire[r].conns
      BY <2>1, <3>2
    <3> QED BY <1>t, <3>1, <3>3, ReasonKept
  <2> QED BY <2>1, <2>3, <2>4, <2>5, <2>6, <2>8, <2>9 DEF BooksInv, CountersInv
<1>5. ASSUME NEW q \in Requests, RoundTripFails(q) PROVE BooksInv'
  <2>1. pc[q] = "backend" /\ pc'[q] = "failed" /\ Goto(q, "failed") /\ FinishPermit(q)
        /\ wire' = wire /\ UNCHANGED <<attempted, headers>> /\ cancelled' = cancelled /\ violated' = violated
    BY <1>0, <1>5 DEF RoundTripFails, At, Goto
  <2> QED BY <1>b, <2>1
<1>6. ASSUME NEW q \in Requests, RoundTripAnswers(q) PROVE BooksInv'
  <2>1. /\ pc[q] = "backend" /\ wire' = wire /\ UNCHANGED <<attempted, headers>> /\ cancelled' = cancelled
        /\ violated => violated'
        /\ Observed(q) => violated' = violated
    BY <1>6 DEF RoundTripAnswers, At, Violate
  <2>2. /\ wire[q].conns \in Nat /\ permit[q].started \in Nat
        /\ wire[q].conns <= Allowance => permit[q].started = wire[q].conns
        /\ wire[q].conns > Allowance => permit[q].started = Allowance /\ q \in cancelled
        /\ ~permit[q].done
    BY <1>0, <2>1 DEF RequestInv, Permits
  <2>3. Observed(q) \/ wire[q].conns = 0
    BY <1>t, <2>2 DEF Observed
  <2>4. CASE Observed(q) /\ q \notin cancelled
    <3>1. /\ pc'[q] = "body" /\ UNCHANGED <<permit, reserved>> /\ violated' = violated
          /\ \A r \in Requests : r # q => pc'[r] = pc[r] /\ permit'[r] = permit[r]
      BY <1>0, <1>6, <2>1, <2>4 DEF RoundTripAnswers, Goto
    <3>2. wire[q].conns \in 1..Allowance
      BY <1>t, <2>2, <2>4 DEF Observed
    <3>3. RequestInv(q)'
      BY <1>0, <2>1, <2>2, <3>1, <3>2 DEF RequestInv, Over
    <3>4. reserved' = Total(Remaining, Allowance)'
      BY <1>0, <3>1, SumsKept
    <3> QED BY <1>a, <2>1, <3>1, <3>3, <3>4
  <2>5. CASE ~(Observed(q) /\ q \notin cancelled)
    <3>1. Goto(q, "failed") /\ FinishPermit(q)
      BY <1>6, <2>5 DEF RoundTripAnswers
    <3>2. pc'[q] = "failed"
      BY <1>0, <3>1 DEF Goto
    <3>3. violated' /\ ~violated => pc'[q] = "failed" /\ wire[q].conns = 0
      BY <2>1, <2>3, <3>2
    <3> QED BY <1>b, <2>1, <3>1, <3>2, <3>3
  <2> QED BY <2>4, <2>5
<1>7. ASSUME NEW q \in Requests, CloseBody(q) PROVE BooksInv'
  <2>1. pc[q] \in {"body", "closed"} /\ pc'[q] = "closed" /\ Goto(q, "closed") /\ FinishPermit(q)
        /\ wire' = wire /\ UNCHANGED <<attempted, headers>> /\ cancelled' = cancelled /\ violated' = violated
    BY <1>0, <1>7 DEF CloseBody, Goto
  <2> QED BY <1>b, <2>1
<1>8. CASE Ended \/ UNCHANGED vars
  <2>1. UNCHANGED <<pc, permit, wire, cancelled, attempted, headers, reserved, violated>>
    BY <1>8 DEF Ended, vars, counters
  <2>2. \A r \in Requests : RequestInv(r)'
    BY <1>0, <2>1, RequestKept
  <2>3. reserved' = Total(Remaining, Allowance)'
    BY <1>0, <2>1, SumsKept
  <2>4. CountersInv'
    BY <2>1, <2>3, CountersKept
  <2> QED BY <2>2, <2>4 DEF BooksInv
<1> QED BY <1>1, <1>2, <1>3, <1>4, <1>5, <1>6, <1>7, <1>8 DEF Next

\* The reservation is what open permits may still use, the attempts are the
\* connections reported, and the alarm is raised only for a backend beyond its
\* allowance or one that reports nothing, however late callbacks come (budget.go).
THEOREM BooksAlwaysBalance == Spec => []BooksBalance
<1>1. Init => BooksInv
  <2> SUFFICES ASSUME Init PROVE BooksInv
    OBVIOUS
  <2>1. TypeOK
    BY InitTypes
  <2>2. Allowance \in Nat \ {0} /\ BackendTries \in Nat
    BY BudgetAssumption DEF BudgetAssumption
  <2>3. \A q \in Requests : RequestInv(q)
    BY <2>2 DEF Init, RequestInv, NoPermit, Over
  <2>4. Total(Remaining, Allowance) = 0
    <3>1. \A q \in Requests : Remaining[q] = 0
      BY DEF Init, NoPermit, Remaining
    <3> QED BY <2>2, <3>1, TotalOfNothing
  <2>5. Total(Headers, BackendTries) = 0 /\ Connections = 0
    <3>1. \A q \in Requests : Headers[q] = 0 /\ Conns[q] = 0
      BY DEF Init, Headers, Conns
    <3> QED BY <2>2, <3>1, TotalOfNothing DEF Connections
  <2> QED BY <2>1, <2>3, <2>4, <2>5 DEF BooksInv, CountersInv, Init
<1>2. BooksInv => BooksBalance
  <2> SUFFICES ASSUME BooksInv PROVE BooksBalance
    OBVIOUS
  <2>1. ReservedExact
    BY DEF BooksInv, CountersInv, ReservedExact, RequestInv, Over
  <2>2. AlarmIsRight
    BY DEF BooksInv, CountersInv, AlarmIsRight, Reason, RequestInv
  <2> QED BY <2>1, <2>2 DEF BooksBalance
<1> QED BY <1>1, <1>2, BooksStep, TypeCorrect, PTL DEF Spec
-----------------------------------------------------------------------------
(* The ZIP beside a release.                                               *)

\* The stages that have read a file, and those that write the part.
ZipReading == {"hash", "copy", "validate", "owner", "replace"}
ZipCopying == {"copy", "validate", "owner", "replace"}

\* What was read of a file has the node and the size that were listed.
AsListed(members) ==
  /\ DOMAIN members \subseteq Files \ Hidden
  /\ \A f \in DOMAIN members :
       members[f] \in Zip!Nodes /\ members[f].node = listed[f].node /\ members[f].size = listed[f].size

\* A member of the part also has the content that was hashed.
AsHashed(members) ==
  /\ DOMAIN members \subseteq Files \ Hidden
  /\ \A f \in DOMAIN members : members[f] = [listed[f] EXCEPT !.content = hashed[f].content]

\* What each stage of the export has, until it is over.
ZipInv ==
  /\ Zip!TypeOK
  /\ zipAt \in {"collect", "verify"} => hashed = Zip!NoMembers
  /\ zipAt \in {"collect", "verify", "hash"} => part = Zip!None
  /\ zipAt \in {"verify"} \cup ZipReading => listed \in [Files -> Zip!Nodes]
  /\ zipAt \in ZipReading => AsListed(hashed)
  /\ zipAt \in ZipCopying => DOMAIN hashed = Files \ Hidden /\ part.kind = "part" /\ AsHashed(part.members)
  /\ zipAt \in ZipCopying \ {"copy"} => DOMAIN part.members = Files \ Hidden
  /\ zipAt \in {"collect", "verify"} \cup ZipReading => zipResult = "none"
  /\ zipResult = "exported" => /\ zipAt = "done" /\ target.kind = "export"
                               /\ DOMAIN target.members = Files \ Hidden /\ AsHashed(target.members)
  /\ zipResult # "exported" => target \in {Zip!None, Zip!Prior}
  /\ zipAt = "done" => part = Zip!None

\* The ZIP that was there has another kind than an exported one.
LEMMA ZipKinds == ASSUME NEW z, z.kind = "export" PROVE z \notin {Zip!None, Zip!Prior}
BY DEF Zip!None, Zip!Prior, Zip!Zip

\* A file read now, that is the listed node and of its size, joins those read before.
LEMMA ReadJoins ==
  ASSUME NEW f \in Files \ Hidden, present \in [Files -> Zip!Nodes], Zip!Same(f), NEW members, AsListed(members)
  PROVE  AsListed(Zip!With(members, f))
<1>1. present[f] \in Zip!Nodes /\ present[f].node = listed[f].node /\ present[f].size = listed[f].size
  BY DEF Zip!Same
<1>2. DOMAIN Zip!With(members, f) = DOMAIN members \cup {f}
  BY DEF Zip!With
<1>3. ASSUME NEW g \in DOMAIN Zip!With(members, f)
      PROVE  /\ Zip!With(members, f)[g] \in Zip!Nodes /\ Zip!With(members, f)[g].node = listed[g].node
             /\ Zip!With(members, f)[g].size = listed[g].size
  <2>1. Zip!With(members, f)[g] = IF g = f THEN present[f] ELSE members[g]
    BY <1>2, <1>3 DEF Zip!With
  <2> QED BY <1>1, <1>2, <1>3, <2>1 DEF AsListed
<1> QED BY <1>2, <1>3 DEF AsListed

\* A file copied now with the content hashed before joins those copied before.
LEMMA CopyJoins ==
  ASSUME NEW f \in Files \ Hidden, present \in [Files -> Zip!Nodes], listed \in [Files -> Zip!Nodes],
         Zip!Same(f), Zip!HashHeld(f), NEW members, AsHashed(members)
  PROVE  AsHashed(Zip!With(members, f))
<1>1. present[f] \in Zip!Nodes /\ listed[f] \in Zip!Nodes
  OBVIOUS
<1>2. /\ present[f].node = listed[f].node /\ present[f].size = listed[f].size
      /\ present[f].content = hashed[f].content
  BY DEF Zip!Same, Zip!HashHeld
<1>3. present[f] = [listed[f] EXCEPT !.content = hashed[f].content]
  BY <1>1, <1>2 DEF Zip!Nodes
<1>4. DOMAIN Zip!With(members, f) = DOMAIN members \cup {f}
  BY DEF Zip!With
<1>5. ASSUME NEW g \in DOMAIN Zip!With(members, f)
      PROVE  Zip!With(members, f)[g] = [listed[g] EXCEPT !.content = hashed[g].content]
  <2>1. Zip!With(members, f)[g] = IF g = f THEN present[f] ELSE members[g]
    BY <1>4, <1>5 DEF Zip!With
  <2> QED BY <1>3, <1>4, <1>5, <2>1 DEF AsHashed
<1> QED BY <1>4, <1>5 DEF AsHashed

\* An export starts with nothing read, before anything is written.
LEMMA ZipStarts == Zip!Init => ZipInv
<1> SUFFICES ASSUME Zip!Init PROVE ZipInv
  OBVIOUS
<1>1. Zip!Whole \in Zip!Nodes
  BY DEF Zip!Whole, Zip!Nodes
<1>2. DOMAIN Zip!NoMembers = {}
  BY DEF Zip!NoMembers
<1> QED BY <1>1, <1>2 DEF Zip!Init, ZipInv, Zip!TypeOK, ZipReading, ZipCopying

\* The steps of the export keep what each stage has.
LEMMA CollectKeeps == ASSUME ZipInv, Zip!Collect PROVE ZipInv'
<1>1. present \in [Files -> Zip!Nodes] /\ zipAt = "collect"
  BY DEF ZipInv, Zip!TypeOK, Zip!Collect
<1>2. CASE zipEnded
  BY <1>1, <1>2 DEF Zip!Collect, ZipInv, Zip!TypeOK, Zip!Stop, Zip!Kept, ZipReading, ZipCopying
<1>3. CASE ~zipEnded
  <2>1. zipAt' = "verify" /\ listed' = present /\ UNCHANGED <<hashed, part, target, present, zipResult>>
    BY <1>3 DEF Zip!Collect, Zip!Step, Zip!Kept
  <2>2. DOMAIN listed' = Files
    BY <1>1, <2>1
  <2> QED BY <1>1, <2>1, <2>2 DEF ZipInv, Zip!TypeOK, ZipReading, ZipCopying
<1> QED BY <1>2, <1>3

\* A step that gives up leaves the earlier ZIP.
LEMMA ZipStopKeeps ==
  ASSUME ZipInv, NEW why \in {"cancelled", "invalid", "changed", "lost"}, zipAt \notin {"cleanup", "done"}, Zip!Stop(why),
         UNCHANGED <<listed, hashed, target, present>>
  PROVE  ZipInv'
BY DEF ZipInv, Zip!TypeOK, Zip!Stop, ZipReading, ZipCopying

\* Verification gives up or leaves a list that nothing was read of yet.
LEMMA VerifyKeeps == ASSUME ZipInv, Zip!Verify PROVE ZipInv'
<1>1. zipAt = "verify" /\ UNCHANGED <<listed, hashed, part, target, present>>
  BY DEF Zip!Verify, Zip!Kept
<1>2. CASE Zip!Stop("invalid")
  BY <1>1, <1>2, ZipStopKeeps
<1>3. CASE Zip!Step("hash")
  <2>1. DOMAIN hashed = {}
    BY <1>1 DEF ZipInv, Zip!NoMembers
  <2> QED BY <1>1, <1>3, <2>1 DEF ZipInv, Zip!TypeOK, Zip!Step, ZipReading, ZipCopying, AsListed
<1> QED BY <1>2, <1>3 DEF Zip!Verify

\* A hashed file joins the others; the copy starts when all are hashed.
LEMMA HashKeeps == ASSUME ZipInv, Zip!Hash PROVE ZipInv'
<1>1. /\ zipAt = "hash" /\ UNCHANGED <<listed, target, present>>
      /\ DOMAIN listed = Files /\ Zip!Visible = Files \ Hidden /\ listed \in [Files -> Zip!Nodes]
      /\ present \in [Files -> Zip!Nodes] /\ part = Zip!None /\ AsListed(hashed)
  BY DEF Zip!Hash, Zip!Kept, ZipInv, Zip!TypeOK, Zip!Visible, ZipReading
<1>2. ASSUME NEW why \in {"cancelled", "changed"}, Zip!Stop(why), UNCHANGED hashed
      PROVE  ZipInv'
  BY <1>1, <1>2, ZipStopKeeps
<1>3. ASSUME NEW f \in Zip!Visible \ DOMAIN hashed, Zip!Same(f), hashed' = Zip!With(hashed, f),
             UNCHANGED <<zipAt, zipResult, part>>
      PROVE  ZipInv'
  <2>1. AsListed(Zip!With(hashed, f))
    BY <1>1, <1>3, ReadJoins
  <2>2. AsListed(hashed)'
    BY <1>1, <1>3, <2>1 DEF AsListed
  <2>3. DOMAIN hashed' \subseteq Files
    BY <1>3, <2>1 DEF AsListed
  <2>4. zipResult = "none"
    BY <1>1 DEF ZipInv, ZipReading
  <2> QED BY <1>1, <1>3, <2>2, <2>3, <2>4 DEF ZipInv, Zip!TypeOK, ZipReading, ZipCopying
<1>4. ASSUME DOMAIN hashed = Zip!Visible, Zip!Step("copy"), part' = Zip!Zip("part", Zip!NoMembers), UNCHANGED hashed
      PROVE  ZipInv'
  <2>1. part'.kind = "part" /\ DOMAIN part'.members = {}
    BY <1>4 DEF Zip!Zip, Zip!NoMembers
  <2>2. AsListed(hashed)' /\ AsHashed(part.members)'
    BY <1>1, <1>4, <2>1 DEF AsListed, AsHashed
  <2> QED BY <1>1, <1>4, <2>1, <2>2 DEF ZipInv, Zip!TypeOK, ZipReading, ZipCopying, Zip!Step
<1> QED BY <1>2, <1>3, <1>4 DEF Zip!Hash

\* A copied file joins the part; the part is complete before it is validated.
LEMMA CopyKeeps == ASSUME ZipInv, Zip!Copy PROVE ZipInv'
<1>1. /\ zipAt = "copy" /\ UNCHANGED <<listed, hashed, target, present>>
      /\ DOMAIN listed = Files /\ Zip!Visible = Files \ Hidden /\ listed \in [Files -> Zip!Nodes]
      /\ present \in [Files -> Zip!Nodes] /\ AsHashed(part.members) /\ AsListed(hashed)
      /\ DOMAIN hashed = Files \ Hidden /\ part.kind = "part"
  BY DEF Zip!Copy, Zip!Kept, ZipInv, Zip!TypeOK, Zip!Visible, ZipReading, ZipCopying
<1>2. ASSUME NEW why \in {"cancelled", "changed"}, Zip!Stop(why)
      PROVE  ZipInv'
  BY <1>1, <1>2, ZipStopKeeps
<1>3. ASSUME NEW f \in Zip!Visible \ DOMAIN part.members, Zip!Same(f), Zip!HashHeld(f),
             part' = Zip!Zip("part", Zip!With(part.members, f)), UNCHANGED <<zipAt, zipResult>>
      PROVE  ZipInv'
  <2>1. AsHashed(Zip!With(part.members, f))
    BY <1>1, <1>3, CopyJoins
  <2>2. part'.kind = "part" /\ part'.members = Zip!With(part.members, f)
    BY <1>3 DEF Zip!Zip
  <2>3. AsHashed(part.members)' /\ AsListed(hashed)'
    BY <1>1, <2>1, <2>2 DEF AsHashed, AsListed
  <2>4. zipResult = "none"
    BY <1>1 DEF ZipInv, ZipReading
  <2> QED BY <1>1, <1>3, <2>2, <2>3, <2>4 DEF ZipInv, Zip!TypeOK, ZipReading, ZipCopying
<1>4. ASSUME DOMAIN part.members = Zip!Visible, Zip!Step("validate"), UNCHANGED part
      PROVE  ZipInv'
  <2>1. AsHashed(part.members)' /\ AsListed(hashed)'
    BY <1>1, <1>4 DEF AsHashed, AsListed
  <2> QED BY <1>1, <1>4, <2>1 DEF ZipInv, Zip!TypeOK, ZipReading, ZipCopying, Zip!Step
<1> QED BY <1>2, <1>3, <1>4 DEF Zip!Copy

\* Reading the part back and checking the lock change nothing but the stage.
LEMMA ChecksKeep == ASSUME ZipInv, Zip!Validate \/ Zip!Owner PROVE ZipInv'
<1>1. /\ zipAt \in {"validate", "owner"} /\ UNCHANGED <<listed, hashed, part, target, present>>
      /\ AsHashed(part.members)' /\ AsListed(hashed)'
  <2>1. zipAt \in {"validate", "owner"} /\ UNCHANGED <<listed, hashed, part, target, present>>
    BY DEF Zip!Validate, Zip!Owner, Zip!Kept
  <2> QED BY <2>1 DEF ZipInv, ZipReading, ZipCopying, AsHashed, AsListed
<1>2. CASE \E why \in {"cancelled", "invalid", "lost"} : Zip!Stop(why)
  BY <1>1, <1>2, ZipStopKeeps
<1>3. CASE \E after \in {"owner", "replace"} : Zip!Step(after)
  BY <1>1, <1>3 DEF ZipInv, Zip!TypeOK, ZipReading, ZipCopying, Zip!Step
<1> QED BY <1>2, <1>3 DEF Zip!Validate, Zip!Owner

\* The rename exports the complete part, or leaves the earlier ZIP.
LEMMA ZipReplaceKeeps == ASSUME ZipInv, Zip!Replace PROVE ZipInv'
<1>1. zipAt = "replace" /\ UNCHANGED <<listed, hashed, present>>
  BY DEF Zip!Replace, Zip!Kept
<1>2. CASE Zip!Stop("invalid") /\ UNCHANGED target
  BY <1>1, <1>2, ZipStopKeeps
<1>3. CASE /\ target' = Zip!Zip("export", part.members) /\ part' = Zip!None
           /\ zipAt' = "done" /\ zipResult' = "exported"
  <2>1. target'.kind = "export" /\ target'.members = part.members
    BY <1>3 DEF Zip!Zip
  <2>2. DOMAIN target'.members = Files \ Hidden /\ AsHashed(target.members)'
    BY <1>1, <2>1 DEF ZipInv, AsHashed, ZipCopying
  <2> QED BY <1>1, <1>3, <2>1, <2>2 DEF ZipInv, Zip!TypeOK, ZipReading, ZipCopying
<1> QED BY <1>2, <1>3 DEF Zip!Replace

\* The cleanup of an export that gave up removes the part.
LEMMA CleanupKeeps == ASSUME ZipInv, Zip!Cleanup PROVE ZipInv'
<1>1. /\ zipAt = "cleanup" /\ zipAt' = "done" /\ part' = Zip!None
      /\ UNCHANGED <<listed, hashed, target, present, zipResult>>
  BY DEF Zip!Cleanup, Zip!Kept, Zip!DroppedPart
<1> QED BY <1>1 DEF ZipInv, Zip!TypeOK, ZipReading, ZipCopying

\* What others do changes neither the part nor what was read.
LEMMA ZipOthersKeep == ASSUME ZipInv, (\E f \in Files : Zip!Change(f)) \/ Zip!RemoveZipLock \/ Zip!EndZip PROVE ZipInv'
<1>1. UNCHANGED <<zipAt, listed, hashed, part, target, zipResult>>
  BY DEF Zip!Change, Zip!RemoveZipLock, Zip!EndZip
<1>2. present' \in [Files -> Zip!Nodes]
  BY DEF ZipInv, Zip!TypeOK, Zip!Change, Zip!RemoveZipLock, Zip!EndZip
<1>3. /\ AsListed(hashed) <=> AsListed(hashed)'
      /\ AsHashed(part.members) <=> AsHashed(part.members)'
      /\ AsHashed(target.members) <=> AsHashed(target.members)'
  BY <1>1 DEF AsListed, AsHashed
<1> QED BY <1>1, <1>2, <1>3 DEF ZipInv, Zip!TypeOK, ZipReading, ZipCopying

\* Every step keeps the invariant.
LEMMA ZipKeeps == ASSUME ZipInv, [Zip!Next]_zipVars PROVE ZipInv'
<1>1. CASE UNCHANGED zipVars
  BY <1>1 DEF zipVars, ZipInv, Zip!TypeOK, ZipReading, ZipCopying, AsListed, AsHashed
<1> QED BY <1>1, CollectKeeps, VerifyKeeps, HashKeeps, CopyKeeps, ChecksKeep, ZipReplaceKeeps, CleanupKeeps, ZipOthersKeep
  DEF Zip!Next, Zip!ExportStep

\* An export that was reported is complete; any other left the earlier ZIP.
LEMMA ZipInvIsWhole == ASSUME ZipInv PROVE Zip!TypeOK /\ Zip!ZipWhole
<1>1. CASE zipResult = "exported"
  BY <1>1, ZipKinds DEF ZipInv, Zip!ZipWhole, AsHashed
<1>2. CASE zipResult # "exported"
  BY <1>2 DEF ZipInv, Zip!ZipWhole
<1> QED BY <1>1, <1>2 DEF ZipInv

-----------------------------------------------------------------------------
(* The PDF of a guide.                                                     *)

\* The steps of a conversion, and the folder before its PDF and its manifest after.
RenderSteps == {"preflight", "slot", "assemble", "raw", "rawCheck", "inspect", "footerPlan", "footer", "footerCheck",
          "merge", "mergeCheck", "outline", "seal", "rename", "index", "manifest", "sync", "late"}
Fresh == [pdf |-> FALSE, index |-> "plain", manifest |-> Render!Archived]
Linked == [generated |-> "complete", index |-> "linked"]

\* A tool runs only in a step that has one, and what its phase tells.
ToolOK ==
  /\ tool # Render!NoTool => Render!Runs(pdfAt) > 0
  /\ tool.kind = "none" => tool = Render!NoTool
  /\ tool.kind = "chrome" => tool.phase \in {"starting", "measuring", "loading", "printing", "stopping", "broken"}
  /\ tool.kind = "qpdf" => tool.phase \in {"running", "stopping", "broken"}
  /\ tool.blocked => tool.phase \in {"loading", "printing", "broken"}
  /\ tool.tripped => tool.phase \notin {"starting", "measuring"}

\* What was noticed is still seen on the tool, until its step has failed.
NoticeOK == noticed /\ pdfAt \in RenderSteps \cup {"ok"} => tool.blocked \/ Render!NoticedOver

\* What the steps up to each one have left in the folder and in memory.
RenderDone == /\ guideDisk = [pdf |-> TRUE, index |-> "linked", manifest |-> Linked] /\ guideHTML = Linked
        /\ pdfRecord.status = "complete"
StageOK ==
  /\ pdfAt \in RenderSteps \cup {"ok"} => restored = "unused"
  /\ pdfAt \in RenderSteps \ Render!Published => guideDisk = Fresh /\ guideHTML = Render!Archived
  /\ pdfAt \in {"rename", "index", "manifest", "sync", "late", "ok"} => pdfRecord.status = "complete"
  /\ pdfAt = "index" => guideDisk = [Fresh EXCEPT !.pdf = TRUE] /\ guideHTML = Render!Archived
  /\ pdfAt = "manifest" => /\ guideDisk = [pdf |-> TRUE, index |-> "linked", manifest |-> Render!Archived]
                           /\ guideHTML = Linked
  /\ pdfAt \in {"sync", "late", "ok"} => RenderDone
  /\ pdfAt = "failed" => guideHTML = Render!Archived /\ (restored # "failed" => guideDisk = Fresh)
  /\ pdfAt = "accept" => \/ RenderDone /\ ~noticed
                         \/ guideHTML.index = "plain" /\ guideHTML.generated \in {"failed", "claiming"}
  /\ pdfAt = "accepted" => /\ guideDisk.manifest = guideHTML /\ guideDisk.index = guideHTML.index
                           /\ guideDisk.pdf <=> (guideHTML.generated = "complete")
                           /\ \/ RenderDone /\ ~noticed
                              \/ guideHTML.index = "plain" /\ guideHTML.generated \in {"failed", "claiming"}

\* Together they are inductive.
RenderInv == Render!TypeOK /\ ToolOK /\ NoticeOK /\ StageOK

\* The order of the steps.
LEMMA StepsOfAfter ==
  /\ DOMAIN Render!After = RenderSteps
  /\ \A s \in RenderSteps : Render!After[s] \in RenderSteps \cup {"ok"}
  /\ \A s \in RenderSteps \cup {"ok", "undo", "failed", "accept"} \cup Render!PdfEnds : Render!Runs(s) \in 0..4
  /\ \A s \in RenderSteps \cup {"ok", "undo", "failed", "accept"} \cup Render!PdfEnds :
       Render!Runs(s) > 0 => s \in {"raw", "footer", "inspect", "merge", "outline"}
  /\ \A s \in {"preflight", "slot", "assemble", "raw", "rawCheck", "inspect", "footerPlan", "footer",
               "footerCheck", "merge", "mergeCheck",
                   "outline"} : Render!After[s] \in RenderSteps \ (Render!Published \cup {"rename"})
  /\ Render!After["seal"] = "rename" /\ Render!After["rename"] = "index" /\ Render!After["index"] = "manifest"
  /\ Render!After["manifest"] = "sync" /\ Render!After["sync"] = "late" /\ Render!After["late"] = "ok"
     /\ Render!After["slot"] = "assemble"
<1>1. DOMAIN Render!After = RenderSteps
  BY DEF Render!After, RenderSteps
<1>2. \A s \in RenderSteps : Render!After[s] \in RenderSteps \cup {"ok"}
  BY DEF Render!After, RenderSteps
<1>3. \A s \in RenderSteps \cup {"ok", "undo", "failed", "accept"} \cup Render!PdfEnds : Render!Runs(s) \in 0..4
  BY DEF Render!Runs, Render!QPDFRuns, Render!ChromeSteps, RenderSteps
<1>4. \A s \in RenderSteps \cup {"ok", "undo", "failed", "accept"} \cup Render!PdfEnds :
       Render!Runs(s) > 0 => s \in {"raw", "footer", "inspect", "merge", "outline"}
  BY DEF Render!Runs, Render!QPDFRuns, Render!ChromeSteps, RenderSteps
<1>5. \A s \in {"preflight", "slot", "assemble", "raw", "rawCheck", "inspect", "footerPlan", "footer",
               "footerCheck", "merge", "mergeCheck",
                   "outline"} : Render!After[s] \in RenderSteps \ (Render!Published \cup {"rename"})
  BY DEF Render!After, RenderSteps, Render!Published
<1>6. /\ Render!After["seal"] = "rename" /\ Render!After["rename"] = "index" /\ Render!After["index"] = "manifest"
      /\ Render!After["manifest"] = "sync" /\ Render!After["sync"] = "late" /\ Render!After["late"] = "ok"
         /\ Render!After["slot"] = "assemble"
  BY DEF Render!After
<1> QED BY <1>1, <1>2, <1>3, <1>4, <1>5, <1>6

\* Where a call can be, and the types of what moving on sets.
RenderPlaces == RenderSteps \cup {"ok", "undo", "failed", "accept"} \cup Render!PdfEnds
LEMMA PlaceTypes == Render!TypeOK => pdfAt \in RenderPlaces
BY StepsOfAfter DEF Render!TypeOK, RenderPlaces

\* Moving on to a step sets the counts of its runs.
LEMMA EnterTypes ==
  ASSUME Render!TypeOK, NEW step \in RenderPlaces, Render!Enter(step)
  PROVE  /\ pdfAt' = step /\ pdfAt' \in DOMAIN Render!After \cup {"undo", "failed", "ok", "accept"} \cup Render!PdfEnds
         /\ runsLeft' \in 0..4 /\ startsLeft' \in 0..1 /\ slot' \in {"free", "other", "ours"}
<1>1. pdfAt' = step /\ runsLeft' = Render!Runs(step) /\ startsLeft' \in 0..1
  BY DEF Render!Enter, Render!Goto
<1>2. slot' \in {"free", "other", "ours"}
  BY DEF Render!Enter, Render!TypeOK
<1> QED BY <1>1, <1>2, StepsOfAfter DEF RenderPlaces

\* Without a tool nothing is seen on it.
LEMMA NothingSeen == tool = Render!NoTool => ~tool.blocked /\ ~Render!NoticedOver
BY DEF Render!NoTool, Render!NoticedOver

\* A conversion starts with the guide as it was archived.
LEMMA RenderStarts == Render!Init => RenderInv
<1> SUFFICES ASSUME Render!Init PROVE RenderInv
  OBVIOUS
<1>1. Render!Archived \in Render!Manifests
  BY DEF Render!Archived, Render!Manifests
<1>2. pdfAt \in DOMAIN Render!After
  BY StepsOfAfter DEF Render!Init, RenderSteps
<1>3. Render!TypeOK
  <2>1. guideDisk \in [pdf : BOOLEAN, index : {"plain", "linked"}, manifest : Render!Manifests]
    BY <1>1 DEF Render!Init
  <2>2. /\ pdfRecord \in [status : {"failed", "complete"}, claims : BOOLEAN]
        /\ tool \in [kind : {"none", "chrome", "qpdf"}, over : BOOLEAN, blocked : BOOLEAN, tripped : BOOLEAN,
                     phase : {"none", "confirm", "starting", "measuring", "loading", "printing", "running", "stopping",
                              "broken"}]
    BY DEF Render!Init, Render!Unfinished, Render!NoTool
  <2>3. noticed \in BOOLEAN /\ keptBefore \in BOOLEAN /\ guideHTML \in Render!Manifests
    BY <1>1 DEF Render!Init
  <2> QED BY <1>2, <2>1, <2>2, <2>3 DEF Render!Init, Render!TypeOK
<1>4. ToolOK /\ NoticeOK
  BY DEF Render!Init, ToolOK, Render!NoTool, NoticeOK
<1>5. StageOK
  BY DEF Render!Init, StageOK, Fresh, Render!Published, RenderSteps
<1> QED BY <1>3, <1>4, <1>5 DEF RenderInv

\* A step that fails leaves everything to the rollback, or has left nothing.
LEMMA FailsKeeps ==
  ASSUME RenderInv, pdfAt \in RenderSteps, Render!Fails, tool' = Render!NoTool, UNCHANGED <<pdfClock, Render!callVars>>
  PROVE  RenderInv'
<1> DEFINE step == IF pdfAt \in Render!Published THEN "undo" ELSE "failed"
<1>1. Render!Enter(step) /\ step \in RenderPlaces
  BY DEF Render!Fails, RenderPlaces
<1>2. /\ pdfAt' = step /\ pdfAt' \in DOMAIN Render!After \cup {"undo", "failed", "ok", "accept"} \cup Render!PdfEnds
      /\ runsLeft' \in 0..4 /\ startsLeft' \in 0..1 /\ slot' \in {"free", "other", "ours"}
  BY <1>1, EnterTypes DEF RenderInv
<1>3. Render!TypeOK'
  BY <1>2 DEF RenderInv, Render!TypeOK, Render!NoTool, Render!callVars
<1>4. ToolOK' /\ NoticeOK'
  BY <1>2 DEF ToolOK, Render!NoTool, NoticeOK, RenderSteps
<1>5. StageOK'
  BY <1>2 DEF RenderInv, StageOK, RenderSteps, Render!callVars
<1> QED BY <1>3, <1>4, <1>5 DEF RenderInv

\* A step that passes and changes nothing in the folder or in memory.
LEMMA PassesKeeps ==
  ASSUME RenderInv, pdfAt \in RenderSteps \ {"seal", "rename", "index", "manifest"}, Render!Passes, tool' = Render!NoTool,
         ~noticed,
         UNCHANGED <<pdfClock, Render!callVars>>
  PROVE  RenderInv'
<1> DEFINE step == Render!After[pdfAt]
<1>1. Render!Enter(step) /\ step \in RenderSteps \cup {"ok"} /\ step \in RenderPlaces
  BY StepsOfAfter DEF Render!Passes, RenderPlaces
<1>2. /\ pdfAt' = step /\ pdfAt' \in DOMAIN Render!After \cup {"undo", "failed", "ok", "accept"} \cup Render!PdfEnds
      /\ runsLeft' \in 0..4 /\ startsLeft' \in 0..1 /\ slot' \in {"free", "other", "ours"}
  BY <1>1, EnterTypes DEF RenderInv
<1>3. Render!TypeOK'
  BY <1>2 DEF RenderInv, Render!TypeOK, Render!NoTool, Render!callVars
<1>4. ToolOK' /\ NoticeOK'
  BY <1>2 DEF ToolOK, Render!NoTool, NoticeOK, Render!callVars
<1>5. StageOK'
  <2>1. CASE pdfAt \in {"sync", "late"}
    <3>1. pdfAt' \in {"late", "ok"}
      BY <1>2, <2>1, StepsOfAfter
    <3> QED BY <2>1, <3>1 DEF RenderInv, StageOK, RenderSteps, Render!callVars, Render!Published, RenderDone
  <2>2. CASE pdfAt \notin {"sync", "late"}
    <3>1. pdfAt' \in RenderSteps \ (Render!Published \cup {"rename"})
      BY <1>2, <2>2, StepsOfAfter DEF RenderSteps
    <3> QED BY <2>2, <3>1 DEF RenderInv, StageOK, RenderSteps, Render!callVars, Render!Published
  <2> QED BY <2>1, <2>2
<1> QED BY <1>3, <1>4, <1>5 DEF RenderInv

\* Outside the steps with a tool there is none, and nothing was noticed.
LEMMA NoToolThere ==
  ASSUME RenderInv, pdfAt \notin {"raw", "footer", "inspect", "merge", "outline"}
  PROVE  tool = Render!NoTool /\ (pdfAt \in RenderSteps \cup {"ok"} => ~noticed)
<1>1. tool = Render!NoTool
  BY StepsOfAfter, PlaceTypes DEF RenderInv, ToolOK, RenderPlaces
<1> QED BY <1>1, NothingSeen DEF RenderInv, NoticeOK

\* The steps that run no tool.
LEMMA WorkingKeeps == ASSUME RenderInv, Render!Working \/ Render!SyncGuide \/ Render!CheckLate PROVE RenderInv'
<1>1. ASSUME NEW step \in RenderSteps \ {"seal", "rename", "index", "manifest", "raw", "footer", "inspect", "merge", "outline"},
             NEW c \in BOOLEAN, Render!Work(step, c)
      PROVE  RenderInv'
  <2>1. pdfAt = step /\ UNCHANGED <<pdfClock, tool, Render!callVars>> /\ (Render!Passes \/ Render!Fails)
    BY <1>1 DEF Render!Work
  <2>2. tool = Render!NoTool /\ ~noticed
    BY <2>1, NoToolThere
  <2> QED BY <2>1, <2>2, PassesKeeps, FailsKeeps
<1>2. CASE Render!Preflight
  <2>1. pdfAt = "preflight" /\ UNCHANGED <<pdfClock, tool, Render!callVars>> /\ (Render!Passes \/ Render!Fails)
        /\ pdfAt \in RenderSteps
    BY <1>2 DEF Render!Preflight, RenderSteps
  <2>2. tool = Render!NoTool /\ ~noticed
    BY <2>1, NoToolThere
  <2> QED BY <2>1, <2>2, PassesKeeps, FailsKeeps
<1>3. CASE Render!TakeSlot
  <2>1. /\ pdfAt = "slot" /\ pdfAt' = "assemble" /\ slot' = "ours" /\ UNCHANGED <<pdfClock, tool, Render!callVars>>
        /\ runsLeft' = Render!Runs("assemble") /\ startsLeft' \in 0..1
    BY <1>3, StepsOfAfter DEF Render!TakeSlot, Render!Goto
  <2>2. tool = Render!NoTool /\ ~noticed
    BY <2>1, NoToolThere DEF RenderSteps
  <2>3. runsLeft' \in 0..4 /\ pdfAt' \in DOMAIN Render!After
    BY <2>1, StepsOfAfter DEF RenderSteps
  <2>4. Render!TypeOK'
    BY <2>1, <2>3 DEF RenderInv, Render!TypeOK, Render!callVars
  <2>5. ToolOK' /\ NoticeOK'
    BY <2>1, <2>2 DEF ToolOK, Render!NoTool, NoticeOK, Render!callVars
  <2>6. StageOK'
    BY <2>1 DEF RenderInv, StageOK, RenderSteps, Render!Published, Render!callVars
  <2> QED BY <2>4, <2>5, <2>6 DEF RenderInv
<1>4. CASE Render!GiveUpSlot
  <2>1. pdfAt = "slot" /\ UNCHANGED <<pdfClock, tool, Render!callVars>> /\ Render!Fails /\ pdfAt \in RenderSteps
    BY <1>4 DEF Render!GiveUpSlot, RenderSteps
  <2>2. tool = Render!NoTool
    BY <2>1, NoToolThere
  <2> QED BY <2>1, <2>2, FailsKeeps
<1> QED BY <1>1, <1>2, <1>3, <1>4 DEF Render!Working, Render!Assemble, Render!CheckRaw, Render!PlanFooter,
      Render!CheckFooter, Render!CheckMerged, Render!SyncGuide, Render!CheckLate, RenderSteps

\* A step of the tool, or of its monitor, within the step that runs it.
LEMMA ToolMoves ==
  ASSUME RenderInv, UNCHANGED <<pdfAt, slot, pdfRecord, guideDisk, guideHTML, restored, keptBefore>>,
         runsLeft' \in 0..4, startsLeft' \in 0..1, pdfClock' \in {"running", "over"}, noticed' \in BOOLEAN,
         tool' \in [kind : {"none", "chrome", "qpdf"}, over : BOOLEAN, blocked : BOOLEAN, tripped : BOOLEAN,
                    phase : {"none", "confirm", "starting", "measuring", "loading", "printing", "running", "stopping",
                             "broken"}],
         ToolOK', pdfAt \in RenderSteps, noticed' => (tool.blocked \/ Render!NoticedOver)'
  PROVE  RenderInv'
<1>1. Render!TypeOK'
  BY DEF RenderInv, Render!TypeOK
<1>2. NoticeOK'
  BY DEF NoticeOK
<1>3. StageOK'
  BY DEF RenderInv, StageOK, RenderSteps, Render!PdfEnds, RenderDone
<1> QED BY <1>1, <1>2, <1>3 DEF RenderInv

\* A process that is running tells which step this is.
LEMMA RenderRunning ==
  ASSUME RenderInv, tool # Render!NoTool \/ Render!Runs(pdfAt) > 0
  PROVE  /\ pdfAt \in RenderSteps /\ pdfAt \in {"raw", "footer", "inspect", "merge", "outline"} /\ Render!Runs(pdfAt) > 0
         /\ noticed => tool.blocked \/ Render!NoticedOver
         /\ runsLeft \in 0..4 /\ startsLeft \in 0..1 /\ pdfClock \in {"running", "over"} /\ noticed \in BOOLEAN
         /\ tool \in [kind : {"none", "chrome", "qpdf"}, over : BOOLEAN, blocked : BOOLEAN, tripped : BOOLEAN,
                      phase : {"none", "confirm", "starting", "measuring", "loading", "printing", "running", "stopping",
                               "broken"}]
         /\ ToolOK
<1>1. Render!Runs(pdfAt) > 0
  BY DEF RenderInv, ToolOK
<1>2. pdfAt \in {"raw", "footer", "inspect", "merge", "outline"}
  BY <1>1, StepsOfAfter, PlaceTypes DEF RenderInv, RenderPlaces
<1>3. pdfAt \in RenderSteps
  BY <1>2 DEF RenderSteps
<1> QED BY <1>1, <1>2, <1>3 DEF RenderInv, NoticeOK, Render!TypeOK

\* A tool that fails ends its step.
LEMMA ToolFailsKeeps ==
  ASSUME RenderInv, tool # Render!NoTool \/ Render!Runs(pdfAt) > 0, Render!ToolFails, UNCHANGED pdfClock
  PROVE  RenderInv'
BY RenderRunning, FailsKeeps DEF Render!ToolFails

\* Confirming a pinned tool starts its first process, or fails its step.
LEMMA ConfirmKeeps == ASSUME RenderInv, Render!Confirm \/ Render!ConfirmFails PROVE RenderInv'
<1>1. CASE Render!ConfirmFails
  BY <1>1, ToolFailsKeeps DEF Render!ConfirmFails
<1>2. CASE Render!Confirm
  <2>1. /\ Render!Runs(pdfAt) > 0 /\ tool = Render!NoTool /\ UNCHANGED <<pdfAt, slot, runsLeft, startsLeft, pdfRecord>>
        /\ UNCHANGED <<guideDisk, guideHTML, restored, keptBefore, noticed, pdfClock>>
    BY <1>2 DEF Render!Confirm, Render!Toolless, Render!ToolStays
  <2>2. ~noticed
    BY <2>1, NothingSeen, RenderRunning
  <2>3. \/ tool' = [Render!NoTool EXCEPT !.kind = "chrome", !.phase = "starting"]
        \/ tool' = [Render!NoTool EXCEPT !.kind = "qpdf", !.phase = "running"]
    BY <1>2 DEF Render!Confirm
  <2>4. /\ tool' \in [kind : {"none", "chrome", "qpdf"}, over : BOOLEAN, blocked : BOOLEAN, tripped : BOOLEAN,
                    phase : {"none", "confirm", "starting", "measuring", "loading", "printing", "running", "stopping",
                             "broken"}]
        /\ ToolOK'
    BY <2>1, <2>3 DEF Render!NoTool, ToolOK
  <2> QED BY <2>1, <2>2, <2>4, RenderRunning, ToolMoves
<1> QED BY <1>1, <1>2

\* A tool goes to its next phase.
LEMMA PhaseKeeps ==
  ASSUME RenderInv, tool # Render!NoTool, Render!Toolless, UNCHANGED pdfClock,
         NEW p \in {"measuring", "loading", "printing", "stopping", "broken"}, Render!Phase(p),
         p # "broken" => ~tool.blocked \/ p = "printing",
         p \in {"measuring", "loading"} => tool.kind = "chrome" /\ ~tool.tripped,
         p = "printing" => tool.kind = "chrome", tool.phase = "starting" => p = "measuring"
  PROVE  RenderInv'
<1>1. /\ tool \in [kind : {"none", "chrome", "qpdf"}, over : BOOLEAN, blocked : BOOLEAN, tripped : BOOLEAN,
                   phase : {"none", "confirm", "starting", "measuring", "loading", "printing", "running", "stopping",
                            "broken"}]
      /\ ToolOK /\ Render!Runs(pdfAt) > 0 /\ (noticed => tool.blocked \/ Render!NoticedOver)
  BY RenderRunning
<1>2. /\ tool'.kind = tool.kind /\ tool'.phase = p /\ tool'.over = tool.over /\ tool'.blocked = tool.blocked
      /\ tool'.tripped = tool.tripped
      /\ tool' \in [kind : {"none", "chrome", "qpdf"}, over : BOOLEAN, blocked : BOOLEAN, tripped : BOOLEAN,
                    phase : {"none", "confirm", "starting", "measuring", "loading", "printing", "running", "stopping",
                             "broken"}]
  BY <1>1 DEF Render!Phase
<1>3. UNCHANGED <<pdfAt, slot, runsLeft, startsLeft, pdfRecord, guideDisk, guideHTML, restored, keptBefore, noticed>>
  BY DEF Render!Toolless, Render!ToolStays
<1>4. tool.kind \in {"chrome", "qpdf"}
  BY <1>1 DEF ToolOK
<1>5. ToolOK'
  BY <1>1, <1>2, <1>3, <1>4 DEF ToolOK
<1>6. noticed' => (tool.blocked \/ Render!NoticedOver)'
  BY <1>1, <1>2, <1>3 DEF Render!NoticedOver
<1> QED BY <1>1, <1>2, <1>3, <1>5, <1>6, RenderRunning, ToolMoves

\* What Chrome reports moves it from phase to phase.
LEMMA ChromeKeeps == ASSUME RenderInv, Render!ChromeStart \/ Render!Measured \/ Render!Loaded \/ Render!Printed
  PROVE RenderInv'
<1>1. tool.phase \in {"starting", "measuring", "loading", "printing"} /\ tool # Render!NoTool /\ UNCHANGED pdfClock
  BY DEF Render!ChromeStart, Render!Measured, Render!Loaded, Render!Printed, Render!NoTool
<1>2. tool.kind = "chrome"
  BY <1>1, RenderRunning DEF ToolOK
<1>3. CASE Render!ToolFails
  BY <1>1, <1>3, ToolFailsKeeps
<1>4. CASE tool.phase = "starting" /\ Render!Phase("measuring") /\ Render!Toolless
  BY <1>1, <1>2, <1>4, RenderRunning, PhaseKeeps DEF ToolOK
<1>5. CASE tool.phase = "starting" /\ startsLeft > 0 /\ tool' = Render!NoTool /\ startsLeft' = startsLeft - 1
      /\ UNCHANGED <<pdfAt, slot, runsLeft, Render!callVars>>
  <2>1. ~noticed
    BY <1>1, <1>2, <1>5, RenderRunning DEF ToolOK, Render!NoticedOver
  <2>2. startsLeft' \in 0..1
    BY <1>1, <1>5, RenderRunning
  <2>3. /\ tool' \in [kind : {"none", "chrome", "qpdf"}, over : BOOLEAN, blocked : BOOLEAN, tripped : BOOLEAN,
                    phase : {"none", "confirm", "starting", "measuring", "loading", "printing", "running", "stopping",
                             "broken"}]
        /\ ToolOK'
    BY <1>5 DEF Render!NoTool, ToolOK
  <2> QED BY <1>1, <1>5, <2>1, <2>2, <2>3, RenderRunning, ToolMoves DEF Render!callVars
<1>6. CASE tool.phase = "measuring" /\ Render!Phase("loading") /\ Render!Toolless
  BY <1>1, <1>2, <1>6, RenderRunning, PhaseKeeps DEF ToolOK
<1>7. CASE tool.phase = "loading" /\ ~tool.blocked /\ Render!Phase("printing") /\ Render!Toolless
  BY <1>1, <1>2, <1>7, PhaseKeeps
<1>8. CASE tool.phase = "printing" /\ ~tool.blocked /\ Render!Phase("stopping") /\ Render!Toolless
  BY <1>1, <1>2, <1>8, PhaseKeeps
<1>9. CASE tool.phase \in {"loading", "printing"} /\ Render!Phase("broken") /\ Render!Toolless
  BY <1>1, <1>2, <1>9, PhaseKeeps
<1> QED BY <1>3, <1>4, <1>5, <1>6, <1>7, <1>8, <1>9 DEF Render!ChromeStart, Render!Measured, Render!Loaded, Render!Printed

\* A run of qpdf ends well or broken.
LEMMA QPDFKeeps == ASSUME RenderInv, Render!QPDFEnds PROVE RenderInv'
<1>1. tool.phase = "running" /\ tool # Render!NoTool /\ UNCHANGED pdfClock /\ Render!Toolless
      /\ (Render!Phase("stopping") \/ Render!Phase("broken"))
  BY DEF Render!QPDFEnds, Render!NoTool
<1>2. ~tool.blocked
  BY <1>1, RenderRunning DEF ToolOK
<1> QED BY <1>1, <1>2, PhaseKeeps

\* What happens to a tool: a refused request, growth, an alarm of its monitor.
LEMMA HappensKeeps == ASSUME RenderInv, Render!RequestBlocked \/ Render!Grows \/ Render!MonitorTrips PROVE RenderInv'
<1>1. tool # Render!NoTool /\ tool.phase \in {"starting", "loading", "printing", "running", "stopping"}
      /\ UNCHANGED pdfClock
  BY DEF Render!RequestBlocked, Render!Grows, Render!MonitorTrips, Render!NoTool
<1>2. UNCHANGED <<pdfAt, slot, runsLeft, startsLeft, pdfRecord, guideDisk, guideHTML, restored, keptBefore>>
  BY DEF Render!RequestBlocked, Render!Grows, Render!MonitorTrips, Render!ToolStays
<1>3. /\ tool \in [kind : {"none", "chrome", "qpdf"}, over : BOOLEAN, blocked : BOOLEAN, tripped : BOOLEAN,
                   phase : {"none", "confirm", "starting", "measuring", "loading", "printing", "running", "stopping",
                            "broken"}]
      /\ ToolOK /\ Render!Runs(pdfAt) > 0 /\ noticed \in BOOLEAN /\ (noticed => tool.blocked \/ Render!NoticedOver)
  BY <1>1, RenderRunning
<1>4. tool.kind \in {"chrome", "qpdf"}
  BY <1>1, <1>3 DEF ToolOK
<1>5. CASE Render!RequestBlocked
  <2>1. /\ tool' = [tool EXCEPT !.blocked = TRUE] /\ noticed' = TRUE /\ tool.phase \in {"loading", "printing"}
    BY <1>5 DEF Render!RequestBlocked
  <2>2. /\ tool' \in [kind : {"none", "chrome", "qpdf"}, over : BOOLEAN, blocked : BOOLEAN, tripped : BOOLEAN,
                    phase : {"none", "confirm", "starting", "measuring", "loading", "printing", "running", "stopping",
                             "broken"}]
        /\ ToolOK' /\ (tool.blocked \/ Render!NoticedOver)'
    BY <1>2, <1>3, <1>4, <2>1 DEF ToolOK
  <2> QED BY <1>1, <1>2, <2>1, <2>2, RenderRunning, ToolMoves
<1>6. CASE Render!Grows
  <2>1. tool' = [tool EXCEPT !.over = TRUE] /\ noticed' = (noticed \/ tool.kind = "qpdf")
    BY <1>6 DEF Render!Grows
  <2>2. /\ tool'.kind = tool.kind /\ tool'.phase = tool.phase /\ tool'.over = TRUE /\ tool'.blocked = tool.blocked
        /\ tool'.tripped = tool.tripped
        /\ tool' \in [kind : {"none", "chrome", "qpdf"}, over : BOOLEAN, blocked : BOOLEAN, tripped : BOOLEAN,
                    phase : {"none", "confirm", "starting", "measuring", "loading", "printing", "running", "stopping",
                             "broken"}]
    BY <1>3, <2>1
  <2>3. ToolOK'
    BY <1>2, <1>3, <1>4, <2>2 DEF ToolOK
  <2>4. noticed' \in BOOLEAN /\ (noticed' => (tool.blocked \/ Render!NoticedOver)')
    BY <1>3, <2>1, <2>2 DEF Render!NoticedOver
  <2> QED BY <1>1, <1>2, <2>2, <2>3, <2>4, RenderRunning, ToolMoves
<1>7. CASE Render!MonitorTrips
  <2>1. /\ tool' = [tool EXCEPT !.tripped = TRUE] /\ noticed' = TRUE
        /\ tool.phase \in {"loading", "printing", "running", "stopping"}
    BY <1>7 DEF Render!MonitorTrips
  <2>2. /\ tool' \in [kind : {"none", "chrome", "qpdf"}, over : BOOLEAN, blocked : BOOLEAN, tripped : BOOLEAN,
                    phase : {"none", "confirm", "starting", "measuring", "loading", "printing", "running", "stopping",
                             "broken"}]
        /\ ToolOK' /\ (tool.blocked \/ Render!NoticedOver)'
    BY <1>2, <1>3, <1>4, <2>1 DEF ToolOK, Render!NoticedOver
  <2> QED BY <1>1, <1>2, <2>1, <2>2, RenderRunning, ToolMoves
<1> QED BY <1>5, <1>6, <1>7

\* A tool that is stopped without anything noticed has run its step, or one run of it.
LEMMA StopKeeps == ASSUME RenderInv, Render!StopTool \/ Render!StopBrokenTool PROVE RenderInv'
<1>1. tool # Render!NoTool /\ tool.phase \in {"stopping", "broken"} /\ UNCHANGED pdfClock
  BY DEF Render!StopTool, Render!StopBrokenTool, Render!NoTool
<1>2. CASE Render!StopBrokenTool
  BY <1>1, <1>2, ToolFailsKeeps DEF Render!StopBrokenTool
<1>3. CASE Render!StopTool
  <2>1. tool.phase = "stopping" /\ ~Render!NoticedOver /\ tool' = Render!NoTool /\ UNCHANGED Render!callVars
    BY <1>3 DEF Render!StopTool
  <2>2. ~noticed
    BY <1>1, <2>1, RenderRunning DEF ToolOK
  <2>3. CASE Render!Passes
    BY <1>1, <2>1, <2>2, <2>3, RenderRunning, PassesKeeps
  <2>4. CASE runsLeft > 1 /\ runsLeft' = runsLeft - 1 /\ UNCHANGED <<pdfAt, slot, startsLeft>>
    <3>1. runsLeft' \in 0..4
      BY <1>1, <2>4, RenderRunning
    <3>2. /\ tool' \in [kind : {"none", "chrome", "qpdf"}, over : BOOLEAN, blocked : BOOLEAN, tripped : BOOLEAN,
                    phase : {"none", "confirm", "starting", "measuring", "loading", "printing", "running", "stopping",
                             "broken"}]
          /\ ToolOK'
      BY <2>1 DEF Render!NoTool, ToolOK
    <3> QED BY <1>1, <2>1, <2>2, <2>4, <3>1, <3>2, RenderRunning, ToolMoves DEF Render!callVars
  <2> QED BY <1>3, <2>3, <2>4 DEF Render!StopTool
<1> QED BY <1>2, <1>3

\* Publication in the guide's folder.
LEMMA PublishingKeeps == ASSUME RenderInv, Render!Seal \/ Render!RenamePDF \/ Render!WriteIndex \/ Render!WriteManifest
  PROVE RenderInv'
<1>1. /\ pdfAt \in {"seal", "rename", "index", "manifest"} /\ pdfAt \in RenderSteps /\ UNCHANGED <<pdfClock, tool>>
      /\ UNCHANGED <<restored, keptBefore, noticed>>
  BY DEF Render!Seal, Render!RenamePDF, Render!WriteIndex, Render!WriteManifest, RenderSteps
<1>2. tool = Render!NoTool /\ ~noticed /\ tool' = Render!NoTool
  BY <1>1, NoToolThere
<1>3. CASE Render!Fails /\ UNCHANGED <<pdfRecord, guideDisk, guideHTML>>
  BY <1>1, <1>2, <1>3, FailsKeeps DEF Render!callVars
<1>4. CASE ~(Render!Fails /\ UNCHANGED <<pdfRecord, guideDisk, guideHTML>>)
  <2>1. Render!Passes
    BY <1>4 DEF Render!Seal, Render!RenamePDF, Render!WriteIndex, Render!WriteManifest
  <2>2. Render!Enter(Render!After[pdfAt]) /\ Render!After[pdfAt] \in {"rename", "index", "manifest", "sync"}
        /\ Render!After[pdfAt] \in RenderPlaces
    BY <1>1, <2>1, StepsOfAfter DEF Render!Passes, RenderPlaces, RenderSteps
  <2>3. /\ pdfAt' = Render!After[pdfAt]
           /\ pdfAt' \in DOMAIN Render!After \cup {"undo", "failed", "ok", "accept"} \cup Render!PdfEnds
        /\ runsLeft' \in 0..4 /\ startsLeft' \in 0..1 /\ slot' \in {"free", "other", "ours"}
    BY <2>2, EnterTypes DEF RenderInv
  <2>4. Render!Archived \in Render!Manifests /\ Linked \in Render!Manifests
    BY DEF Render!Archived, Linked, Render!Manifests
  <2>5. ToolOK' /\ NoticeOK'
    BY <1>1, <1>2 DEF ToolOK, Render!NoTool, NoticeOK
  <2>6. restored = "unused"
    BY <1>1 DEF RenderInv, StageOK
  <2>7. CASE Render!Seal
    <3>1. /\ pdfRecord' = [status |-> "complete", claims |-> TRUE] /\ pdfAt = "seal" /\ pdfAt' = "rename"
          /\ UNCHANGED <<guideDisk, guideHTML>>
      BY <1>4, <2>3, <2>7, StepsOfAfter DEF Render!Seal
    <3>2. Render!TypeOK'
      BY <1>1, <2>3, <3>1 DEF RenderInv, Render!TypeOK
    <3>3. StageOK'
      BY <1>1, <2>6, <3>1 DEF RenderInv, StageOK, RenderSteps, Render!Published
    <3> QED BY <2>5, <3>2, <3>3 DEF RenderInv
  <2>8. CASE Render!RenamePDF
    <3>1. /\ guideDisk' = [guideDisk EXCEPT !.pdf = TRUE] /\ pdfAt = "rename" /\ pdfAt' = "index"
          /\ UNCHANGED <<pdfRecord, guideHTML>>
      BY <1>4, <2>3, <2>8, StepsOfAfter DEF Render!RenamePDF
    <3>2. guideDisk = Fresh /\ guideHTML = Render!Archived /\ pdfRecord.status = "complete"
      BY <3>1 DEF RenderInv, StageOK, RenderSteps, Render!Published
    <3>3. guideDisk' \in [pdf : BOOLEAN, index : {"plain", "linked"}, manifest : Render!Manifests]
      BY <3>1 DEF RenderInv, Render!TypeOK
    <3>4. Render!TypeOK'
      BY <1>1, <2>3, <3>1, <3>3 DEF RenderInv, Render!TypeOK
    <3>5. StageOK'
      BY <1>1, <2>6, <3>1, <3>2 DEF StageOK, RenderSteps, Render!Published
    <3> QED BY <2>5, <3>4, <3>5 DEF RenderInv
  <2>9. CASE Render!WriteIndex
    <3>1. /\ guideDisk' = [guideDisk EXCEPT !.index = "linked"] /\ guideHTML' = Linked
          /\ pdfAt = "index" /\ pdfAt' = "manifest" /\ UNCHANGED pdfRecord
      BY <1>4, <2>3, <2>9, StepsOfAfter DEF Render!WriteIndex, Linked
    <3>2. guideDisk = [Fresh EXCEPT !.pdf = TRUE] /\ pdfRecord.status = "complete"
      BY <3>1 DEF RenderInv, StageOK
    <3>3. Render!TypeOK'
      BY <1>1, <2>3, <2>4, <3>1 DEF RenderInv, Render!TypeOK
    <3>4. StageOK'
      BY <1>1, <2>6, <3>1, <3>2 DEF StageOK, RenderSteps, Render!Published, Fresh
    <3> QED BY <2>5, <3>3, <3>4 DEF RenderInv
  <2>10. CASE Render!WriteManifest
    <3>1. /\ guideDisk' = [guideDisk EXCEPT !.manifest = guideHTML] /\ pdfAt = "manifest" /\ pdfAt' = "sync"
          /\ UNCHANGED <<pdfRecord, guideHTML>>
      BY <1>4, <2>3, <2>10, StepsOfAfter DEF Render!WriteManifest
    <3>2. /\ guideDisk = [pdf |-> TRUE, index |-> "linked", manifest |-> Render!Archived] /\ guideHTML = Linked
          /\ pdfRecord.status = "complete"
      BY <3>1 DEF RenderInv, StageOK
    <3>3. guideDisk' \in [pdf : BOOLEAN, index : {"plain", "linked"}, manifest : Render!Manifests]
      BY <2>4, <3>1, <3>2
    <3>4. Render!TypeOK'
      BY <1>1, <2>3, <3>1, <3>3 DEF RenderInv, Render!TypeOK
    <3>5. StageOK'
      BY <1>1, <2>6, <3>1, <3>2 DEF StageOK, RenderSteps, Render!Published, RenderDone
    <3> QED BY <2>5, <3>4, <3>5 DEF RenderInv
  <2> QED BY <2>7, <2>8, <2>9, <2>10
<1> QED BY <1>3, <1>4

\* The rollback, whichever of its operations fail.
LEMMA RollBackKeeps == ASSUME RenderInv, Render!RollBack PROVE RenderInv'
<1>1. pdfAt = "undo" /\ Render!Enter("failed") /\ guideHTML' = Render!Archived
      /\ UNCHANGED <<pdfClock, tool, pdfRecord, keptBefore, noticed>>
  BY DEF Render!RollBack
<1>2. PICK pdfGone \in BOOLEAN, indexBack \in BOOLEAN, manifestBack \in BOOLEAN, synced \in BOOLEAN :
        /\ guideDisk' = Render!Undone(pdfGone, indexBack, manifestBack)
        /\ restored' = IF pdfGone /\ indexBack /\ manifestBack /\ synced THEN "worked" ELSE "failed"
  BY DEF Render!RollBack
<1>3. "failed" \in RenderPlaces
  BY DEF RenderPlaces
<1>4. /\ pdfAt' = "failed" /\ pdfAt' \in DOMAIN Render!After \cup {"undo", "failed", "ok", "accept"} \cup Render!PdfEnds
      /\ runsLeft' \in 0..4 /\ startsLeft' \in 0..1 /\ slot' \in {"free", "other", "ours"}
  BY <1>1, <1>3, EnterTypes DEF RenderInv
<1>5. tool = Render!NoTool
  BY <1>1, NoToolThere
<1>6. guideDisk \in [pdf : BOOLEAN, index : {"plain", "linked"}, manifest : Render!Manifests]
      /\ Render!Archived \in Render!Manifests
  BY DEF RenderInv, Render!TypeOK, Render!Archived, Render!Manifests
<1>7. guideDisk' \in [pdf : BOOLEAN, index : {"plain", "linked"}, manifest : Render!Manifests]
  BY <1>2, <1>6 DEF Render!Undone
<1>8. Render!TypeOK'
  BY <1>1, <1>2, <1>4, <1>6, <1>7 DEF RenderInv, Render!TypeOK
<1>9. ToolOK' /\ NoticeOK'
  BY <1>1, <1>4, <1>5 DEF ToolOK, Render!NoTool, NoticeOK, RenderSteps
<1>10. restored' # "failed" => guideDisk' = Fresh
  BY <1>2 DEF Render!Undone, Fresh
<1>11. StageOK'
  BY <1>1, <1>4, <1>10 DEF StageOK, RenderSteps
<1> QED BY <1>8, <1>9, <1>11 DEF RenderInv

\* What the caller makes of it.
LEMMA EndingKeeps == ASSUME RenderInv, Render!Ending PROVE RenderInv'
<1>1. pdfAt \in {"failed", "ok", "accept"} /\ tool = Render!NoTool
      /\ UNCHANGED <<pdfClock, tool, restored, keptBefore, noticed>>
  <2>1. pdfAt \in {"failed", "ok", "accept"} /\ UNCHANGED <<pdfClock, tool, restored, keptBefore, noticed>>
    BY DEF Render!Ending, Render!RecordFailure, Render!HandOver, Render!Accept, Render!callVars
  <2> QED BY <2>1, NoToolThere
<1>2. PICK step \in {"accept", "incomplete", "accepted", "refused"} : Render!Enter(step)
  BY DEF Render!Ending, Render!RecordFailure, Render!HandOver, Render!Accept
<1>3. step \in RenderPlaces
  BY DEF RenderPlaces, Render!PdfEnds
<1>4. /\ pdfAt' = step /\ pdfAt' \in DOMAIN Render!After \cup {"undo", "failed", "ok", "accept"} \cup Render!PdfEnds
      /\ runsLeft' \in 0..4 /\ startsLeft' \in 0..1 /\ slot' \in {"free", "other", "ours"}
  BY <1>2, <1>3, EnterTypes DEF RenderInv
<1>5. ToolOK' /\ NoticeOK'
  BY <1>1, <1>4 DEF ToolOK, Render!NoTool, NoticeOK, RenderSteps
<1>6. CASE Render!RecordFailure
  <2>1. /\ pdfAt = "failed" /\ pdfRecord' = [pdfRecord EXCEPT !.status = "failed"] /\ guideHTML = Render!Archived
    BY <1>6 DEF Render!RecordFailure, Render!RecordFails, RenderInv, StageOK
  <2>2. CASE Render!Enter("incomplete") /\ UNCHANGED <<guideHTML, guideDisk>>
    <3>1. pdfAt' = "incomplete"
      BY <2>2 DEF Render!Enter, Render!Goto
    <3>2. Render!TypeOK'
      BY <1>1, <1>4, <2>1, <2>2 DEF RenderInv, Render!TypeOK
    <3>3. StageOK'
      BY <3>1 DEF StageOK, RenderSteps
    <3> QED BY <1>5, <3>2, <3>3 DEF RenderInv
  <2>3. CASE /\ guideHTML' = [guideHTML EXCEPT !.generated = Render!FailedEntry]
             /\ guideDisk' = [guideDisk EXCEPT !.manifest = [guideHTML EXCEPT !.generated = Render!FailedEntry]]
             /\ \E synced \in BOOLEAN : Render!Enter(IF synced THEN "accept" ELSE "incomplete")
    <3>1. pdfAt' \in {"accept", "incomplete"}
      BY <2>3 DEF Render!Enter, Render!Goto
    <3>2. /\ guideHTML'.index = "plain" /\ guideHTML'.generated \in {"failed", "claiming"}
          /\ guideHTML' \in Render!Manifests
      BY <2>1, <2>3 DEF Render!Archived, Render!FailedEntry, Render!Manifests
    <3>3. guideDisk' \in [pdf : BOOLEAN, index : {"plain", "linked"}, manifest : Render!Manifests]
      BY <2>3, <3>2 DEF RenderInv, Render!TypeOK
    <3>4. Render!TypeOK'
      BY <1>1, <1>4, <2>1, <3>2, <3>3 DEF RenderInv, Render!TypeOK
    <3>5. StageOK'
      BY <3>1, <3>2 DEF StageOK, RenderSteps
    <3> QED BY <1>5, <3>4, <3>5 DEF RenderInv
  <2> QED BY <1>6, <2>2, <2>3 DEF Render!RecordFailure
<1>7. CASE Render!HandOver
  <2>1. pdfAt = "ok" /\ pdfAt' = "accept" /\ UNCHANGED Render!callVars
    BY <1>7 DEF Render!HandOver, Render!Enter, Render!Goto
  <2>2. ~noticed /\ RenderDone
    BY <2>1, NoToolThere DEF RenderInv, StageOK
  <2>3. Render!TypeOK'
    BY <1>1, <1>4, <2>1 DEF RenderInv, Render!TypeOK, Render!callVars
  <2>4. StageOK'
    BY <2>1, <2>2 DEF StageOK, RenderSteps, RenderDone, Render!callVars
  <2> QED BY <1>5, <2>3, <2>4 DEF RenderInv
<1>8. CASE Render!Accept
  <2>1. pdfAt = "accept" /\ UNCHANGED Render!callVars /\ (pdfAt' = "accepted" => Render!Verifies)
        /\ pdfAt' \in Render!PdfEnds
    BY <1>8 DEF Render!Accept, Render!Enter, Render!Goto, Render!PdfEnds
  <2>2. Render!TypeOK'
    BY <1>1, <1>4, <2>1 DEF RenderInv, Render!TypeOK, Render!callVars
  <2>3. StageOK'
    BY <2>1 DEF RenderInv, StageOK, RenderSteps, RenderDone, Render!callVars, Render!Verifies, Render!PdfEnds
  <2> QED BY <1>5, <2>2, <2>3 DEF RenderInv
<1> QED BY <1>6, <1>7, <1>8 DEF Render!Ending

\* The clock and the other renders change nothing of this one.
LEMMA RenderElseKeeps == ASSUME RenderInv, Render!ClockEnds \/ Render!OtherRenderEnds \/ UNCHANGED renderVars
  PROVE RenderInv'
<1>1. /\ UNCHANGED <<pdfAt, tool, runsLeft, startsLeft, pdfRecord, guideDisk, guideHTML, restored, keptBefore, noticed>>
      /\ pdfClock' \in {"running", "over"} /\ slot' \in {"free", "other", "ours"}
  BY DEF Render!ClockEnds, Render!OtherRenderEnds, renderVars, Render!callVars, RenderInv, Render!TypeOK
<1> QED BY <1>1 DEF RenderInv, Render!TypeOK, ToolOK, NoticeOK, Render!NoticedOver, StageOK, RenderDone

\* Every step keeps the invariant.
LEMMA RenderKeeps == ASSUME RenderInv, [Render!Next]_renderVars PROVE RenderInv'
BY WorkingKeeps, ConfirmKeeps, ChromeKeeps, QPDFKeeps, HappensKeeps, StopKeeps, PublishingKeeps, RollBackKeeps,
   EndingKeeps, RenderElseKeeps DEF Render!Next, Render!Closing, Render!Tooling, Render!Publishing

\* The invariant says of an accepted guide what its record does, and of a failed one that it is as archived.
LEMMA RenderInvIsAsRecorded == ASSUME RenderInv PROVE Render!TypeOK /\ Render!GuideIsAsRecorded
<1>1. ASSUME pdfAt = "accepted"
      PROVE  /\ guideDisk.manifest = guideHTML
             /\ IF guideHTML.generated = "complete"
                THEN guideDisk.pdf /\ guideDisk.index = "linked" /\ pdfRecord.status = "complete" /\ ~noticed
                ELSE ~guideDisk.pdf /\ guideDisk.index = "plain"
  BY <1>1 DEF RenderInv, StageOK, RenderDone, Linked
<1>2. ASSUME pdfAt = "failed", restored # "failed"
      PROVE  guideDisk = [pdf |-> FALSE, index |-> "plain", manifest |-> Render!Archived] /\ guideHTML = Render!Archived
  BY <1>2 DEF RenderInv, StageOK, Fresh
<1> QED BY <1>1, <1>2 DEF RenderInv, Render!GuideIsAsRecorded

-----------------------------------------------------------------------------
(* The prompts.                                                            *)

\* What the prompts need of the constants: a choice that is enabled.
PromptSetting ==
  /\ Offered \subseteq Nat /\ Prompts!Enabled # {} /\ Questions \in Nat /\ MaxPending \in Nat

\* A set of numbers has a least one.
LEMMA NatMin == ASSUME NEW S, S \subseteq Nat, S # {} PROVE Prompts!Min(S) \in S
<1> DEFINE R == OpToRel(<, Nat)
<1>1. IsWellFoundedOn(R, Nat)
  BY NatLessThanWellFounded
<1>2. \E x \in S : \A y \in S : ~ (<<y, x>> \in R)
  BY <1>1, WFMin
<1>3. R = {ss \in Nat \X Nat : ss[1] < ss[2]}
  BY DEF OpToRel
<1> HIDE DEF R
<1>4. PICK x \in S : \A y \in S : ~ (<<y, x>> \in R)
  BY <1>2
<1>5. ASSUME NEW y \in S PROVE x =< y
  <2>1. x \in Nat /\ y \in Nat /\ <<y, x>> \in Nat \X Nat
    BY <1>4
  <2>2. ~ (<<y, x>> \in R)
    BY <1>4
  <2>3. ~ (y < x)
    BY <2>1, <2>2, <1>3
  <2> QED
    BY <2>1, <2>3
<1> QED
  BY <1>4, <1>5 DEF Prompts!Min

\* What a text is made of, a prompt may be, and a reply may say.
Letters == Keys \cup {"initial", "x", "y"}
PromptStates == [kind : {"none", "select", "input"}, id : Nat, cursor : {0} \cup Prompts!Enabled,
                 ticked : SUBSET Prompts!Enabled, text : Seq(Letters), generation : Nat, menu : Seq(Seq(Letters)),
                 index : Nat, base : Seq(Letters), prefix : BOOLEAN, loading : BOOLEAN]
Answers == [how : {"answer", "back", "cancel", "error"}, ticked : SUBSET Prompts!Enabled, text : Seq(Letters)]

\* The suggestions extend the text typed, which is shown until one is chosen.
MenuFits(p) ==
  /\ \A i \in DOMAIN p.menu : Prompts!IsPrefix(p.base, p.menu[i])
  /\ p.menu # <<>> /\ p.index = 0 => p.text = p.base

\* A prompt belongs to the n-th question: odd ones select, even ones take text.
PromptFits(p, n) ==
  /\ p \in PromptStates
  /\ MenuFits(p)
  /\ p.kind = "none" => p.menu = <<>>
  /\ p.kind = "select" => p.cursor \in Prompts!Enabled /\ p.menu = <<>> /\ n % 2 = 1
  /\ p.kind = "input" => p.ticked = {} /\ n % 2 = 0

\* The types of what else there is.
PromptsTyped ==
  /\ caller \in {"ready", "asking", "waiting", "failed", "closing", "closed"}
  /\ asked \in 0 .. Questions /\ loop \in {"none", "running", "ended"}
  /\ completer \in {"idle", "debounce", "resolve", "send", "stopped"}
  /\ pending \in Seq(Keys) /\ pressed \in Seq(Keys) /\ used \in Seq(Keys)
  /\ pendingErr \in BOOLEAN

\* Every key pressed was used or is still queued, in the order pressed.
KeysQueued ==
  /\ Len(pending) <= MaxPending
  /\ ~pendingErr => pressed = used \o pending

\* A result stands for the question asked last, whose prompt is gone.
QuestionsAnswered ==
  /\ response \in Seq(Answers) /\ Len(response) <= 1
  /\ \A i \in DOMAIN response : response[i].how = "answer" => (asked % 2 = 1 => response[i].ticked # {})
  /\ response # <<>> => prompt.kind = "none"
  /\ caller = "asking" => response = <<>>
  /\ caller \in {"ready", "asking"} => prompt.kind = "none"

\* The replies are those to the questions asked, in their order.
RepliesFit ==
  /\ replies \in Seq(Answers)
  /\ \A i \in DOMAIN replies : replies[i].how = "answer" => (i % 2 = 1 => replies[i].ticked # {})
  /\ caller = "ready" => Len(replies) = asked
  /\ caller \in {"asking", "waiting"} => Len(replies) = asked - 1

\* The inductive invariant of the prompts.
PromptInv == PromptsTyped /\ PromptFits(prompt, asked) /\ KeysQueued /\ QuestionsAnswered /\ RepliesFit

\* The invariant has what the prompts promise.
LEMMA PromptInvIsInOrder == ASSUME PromptSetting, PromptInv PROVE Prompts!TypeOK /\ Prompts!KeysInOrder
<1>1. replies \in Seq(Answers) /\ prompt \in PromptStates /\ MenuFits(prompt)
  BY DEF PromptInv, RepliesFit, PromptFits
<1>2. ASSUME NEW i \in DOMAIN replies PROVE replies[i].ticked \cap Disabled = {}
  <2>1. replies[i] \in Answers
    BY <1>1
  <2> QED
    BY <2>1 DEF Answers, Prompts!Enabled
<1>3. prompt.cursor \in {0} \cup Prompts!Enabled /\ prompt.ticked \subseteq Offered
  BY <1>1 DEF PromptStates, Prompts!Enabled
<1>4. Prompts!TypeOK
  BY <1>3 DEF PromptInv, PromptsTyped, KeysQueued, Prompts!TypeOK
<1>5. Prompts!KeysInOrder
  BY <1>1, <1>2 DEF PromptInv, KeysQueued, RepliesFit, MenuFits, Prompts!KeysInOrder
<1> QED
  BY <1>4, <1>5

\* No prompt is well formed, whatever was asked.
LEMMA NoPromptFits == ASSUME NEW n PROVE PromptFits(Prompts!NoPrompt, n) /\ Prompts!NoPrompt.kind = "none"
  /\ Prompts!NoPrompt.menu = <<>>
<1>1. <<>> \in Seq(Letters) /\ <<>> \in Seq(Seq(Letters)) /\ Len(<<>>) = 0 /\ DOMAIN <<>> = {}
  BY EmptySeq
<1>2. Prompts!NoPrompt \in PromptStates
  BY <1>1 DEF Prompts!NoPrompt, PromptStates
<1> QED
  BY <1>1, <1>2 DEF PromptFits, MenuFits, Prompts!NoPrompt

\* A new prompt belongs to the question asked.
LEMMA NewPromptFits == ASSUME PromptSetting, asked \in Nat
  PROVE PromptFits(Prompts!NewPrompt, asked) /\ Prompts!NewPrompt.kind # "none"
<1>1. <<>> \in Seq(Letters) /\ <<>> \in Seq(Seq(Letters)) /\ Len(<<>>) = 0 /\ DOMAIN <<>> = {}
  BY EmptySeq
<1>2. Prompts!Min(Prompts!Enabled) \in Prompts!Enabled
  BY NatMin DEF PromptSetting, Prompts!Enabled
<1>3. CASE asked % 2 = 1
  <2>1. Prompts!NewPrompt = [kind |-> "select", id |-> asked, cursor |-> Prompts!Min(Prompts!Enabled), ticked |-> {}, text |-> <<>>,
                     generation |-> 0, menu |-> <<>>, index |-> 0, base |-> <<>>, prefix |-> FALSE,
                     loading |-> FALSE]
    BY <1>3 DEF Prompts!NewPrompt, Prompts!NewSelect, Prompts!NoPrompt
  <2> QED
    BY <1>1, <1>2, <1>3, <2>1 DEF PromptFits, MenuFits, PromptStates
<1>4. CASE asked % 2 # 1
  <2>1. Prompts!NewPrompt = [kind |-> "input", id |-> asked, cursor |-> 0, ticked |-> {}, text |-> <<"initial">>,
                     generation |-> 0, menu |-> <<>>, index |-> 0, base |-> <<>>, prefix |-> FALSE,
                     loading |-> TRUE]
    BY <1>4 DEF Prompts!NewPrompt, Prompts!NewInput, Prompts!NoPrompt
  <2>2. <<"initial">> \in Seq(Letters)
    BY DEF Letters
  <2>3. asked % 2 = 0
    BY <1>4
  <2> QED
    BY <1>1, <2>1, <2>2, <2>3 DEF PromptFits, MenuFits, PromptStates
<1> QED
  BY <1>3, <1>4

\* A key leaves a selection well formed, its cursor on an enabled choice.
LEMMA PressSelectFits ==
  ASSUME PromptSetting, NEW n, NEW p, NEW key \in Keys, PromptFits(p, n), p.kind = "select"
  PROVE  PromptFits(Prompts!PressSelect(p, key), n) /\ Prompts!PressSelect(p, key).kind = "select"
<1>1. p \in PromptStates /\ p.cursor \in Prompts!Enabled /\ p.ticked \subseteq Prompts!Enabled /\ p.menu = <<>>
      /\ n % 2 = 1
  BY DEF PromptFits, PromptStates
<1>2. Prompts!NextEnabled(p.cursor) \in Prompts!Enabled
  <2>1. Prompts!Enabled \subseteq Nat /\ Prompts!Enabled # {} /\ {d \in Prompts!Enabled : d > p.cursor} \subseteq Nat
    BY DEF PromptSetting, Prompts!Enabled
  <2> QED
    BY <2>1, NatMin DEF Prompts!NextEnabled
<1>3. DOMAIN <<>> = {}
  OBVIOUS
<1>4. CASE key = "down"
  <2> DEFINE q == [p EXCEPT !.cursor = Prompts!NextEnabled(@)]
  <2>1. Prompts!PressSelect(p, key) = q
    BY <1>4 DEF Prompts!PressSelect
  <2>2. q \in PromptStates /\ q.cursor \in Prompts!Enabled /\ q.menu = <<>> /\ q.kind = "select"
    BY <1>1, <1>2 DEF PromptStates
  <2> HIDE DEF q
  <2> QED
    BY <1>1, <1>3, <2>1, <2>2 DEF PromptFits, MenuFits
<1>5. CASE key = "space"
  <2> DEFINE t == IF p.cursor \in p.ticked THEN p.ticked \ {p.cursor} ELSE p.ticked \cup {p.cursor}
             q == [p EXCEPT !.ticked = t]
  <2>1. Prompts!PressSelect(p, key) = q
    BY <1>5 DEF Prompts!PressSelect
  <2>2. t \in SUBSET Prompts!Enabled
    BY <1>1
  <2> HIDE DEF t
  <2>3. q \in PromptStates /\ q.cursor \in Prompts!Enabled /\ q.menu = <<>> /\ q.kind = "select"
    BY <1>1, <2>2 DEF PromptStates
  <2> HIDE DEF q
  <2> QED
    BY <1>1, <1>3, <2>1, <2>3 DEF PromptFits, MenuFits
<1>6. CASE key # "down" /\ key # "space"
  BY <1>6 DEF Prompts!PressSelect
<1> QED
  BY <1>4, <1>5, <1>6

\* A key leaves an input well formed, its suggestions with the text under them.
LEMMA PressInputFits ==
  ASSUME NEW n, NEW p, NEW key \in Keys, PromptFits(p, n), p.kind = "input"
  PROVE  PromptFits(Prompts!PressInput(p, key), n) /\ Prompts!PressInput(p, key).kind = "input"
<1>1. p \in PromptStates /\ p.ticked = {} /\ n % 2 = 0 /\ MenuFits(p)
  BY DEF PromptFits
<1>t. p.generation + 1 \in Nat /\ p.index + 1 \in Nat /\ p.text \in Seq(Letters) /\ p.base \in Seq(Letters)
  BY <1>1 DEF PromptStates
<1>2. <<>> \in Seq(Seq(Letters)) /\ Len(<<>>) = 0 /\ DOMAIN <<>> = {}
  BY EmptySeq
<1>3. CASE key \in {"char", "space"}
  <2> DEFINE t == Append(p.text, key)
             q == [p EXCEPT !.text = t, !.generation = @ + 1, !.menu = <<>>, !.index = 0, !.base = t,
                            !.prefix = FALSE, !.loading = TRUE]
  <2>1. Prompts!PressInput(p, key) = q
    BY <1>1, <1>3 DEF Prompts!PressInput, Prompts!Restart, PromptStates
  <2>2. t \in Seq(Letters)
    BY <1>1 DEF PromptStates, Letters
  <2> HIDE DEF t
  <2>3. q \in PromptStates /\ q.ticked = {} /\ q.menu = <<>> /\ q.kind = "input"
    BY <1>1, <1>2, <1>t, <2>2 DEF PromptStates
  <2> HIDE DEF q
  <2> QED
    BY <1>1, <1>2, <2>1, <2>3 DEF PromptFits, MenuFits
<1>4. CASE key = "tab" /\ p.menu = <<>>
  <2> DEFINE q == [p EXCEPT !.generation = @ + 1, !.menu = <<>>, !.index = 0, !.base = p.text,
                            !.prefix = TRUE, !.loading = TRUE]
  <2>1. Prompts!PressInput(p, key) = q
    BY <1>4 DEF Prompts!PressInput, Prompts!Restart
  <2>2. q \in PromptStates /\ q.ticked = {} /\ q.menu = <<>> /\ q.kind = "input"
    BY <1>1, <1>2, <1>t DEF PromptStates
  <2> HIDE DEF q
  <2> QED
    BY <1>1, <1>2, <2>1, <2>2 DEF PromptFits, MenuFits
<1>5. CASE key \in {"tab", "down"} /\ p.menu # <<>>
  <2>1. Prompts!PressInput(p, key) = Prompts!Cycle(p)
    BY <1>5 DEF Prompts!PressInput
  <2>2. CASE p.index < Len(p.menu)
    <3> DEFINE q == [p EXCEPT !.index = @ + 1, !.text = p.menu[p.index + 1]]
    <3>1. p.index \in Nat /\ p.menu \in Seq(Seq(Letters))
      BY <1>1 DEF PromptStates
    <3>2. p.index + 1 \in 1 .. Len(p.menu) /\ p.menu[p.index + 1] \in Seq(Letters)
      BY <2>2, <3>1
    <3>3. q \in PromptStates /\ q.ticked = {} /\ q.menu = p.menu /\ q.base = p.base /\ q.kind = "input"
      BY <1>1, <1>t, <3>2 DEF PromptStates
    <3>4. q.index # 0
      BY <1>1, <3>1 DEF PromptStates
    <3>5. Prompts!Cycle(p) = q
      BY <2>2 DEF Prompts!Cycle
    <3> HIDE DEF q
    <3> QED
      BY <1>1, <2>1, <3>3, <3>4, <3>5 DEF PromptFits, MenuFits
  <2>3. CASE ~(p.index < Len(p.menu))
    <3> DEFINE q == [p EXCEPT !.index = 0, !.text = p.base]
    <3>1. q \in PromptStates /\ q.ticked = {} /\ q.menu = p.menu /\ q.base = p.base /\ q.kind = "input"
          /\ q.text = q.base
      BY <1>1 DEF PromptStates
    <3>2. Prompts!Cycle(p) = q
      BY <2>3 DEF Prompts!Cycle
    <3> HIDE DEF q
    <3> QED
      BY <1>1, <2>1, <3>1, <3>2 DEF PromptFits, MenuFits
  <2> QED
    BY <2>2, <2>3
<1>6. CASE key = "enter"
  <2> DEFINE q == [p EXCEPT !.menu = <<>>, !.index = 0, !.prefix = FALSE]
  <2>1. Prompts!PressInput(p, key) = q
    BY <1>6 DEF Prompts!PressInput
  <2>2. q \in PromptStates /\ q.ticked = {} /\ q.menu = <<>> /\ q.kind = "input"
    BY <1>1, <1>2 DEF PromptStates
  <2> HIDE DEF q
  <2> QED
    BY <1>1, <1>2, <2>1, <2>2 DEF PromptFits, MenuFits
<1>7. CASE /\ key \notin {"char", "space"}
           /\ ~(key = "tab" /\ p.menu = <<>>)
           /\ ~(key \in {"tab", "down"} /\ p.menu # <<>>)
           /\ key # "enter"
  BY <1>7 DEF Prompts!PressInput
<1> QED
  BY <1>3, <1>4, <1>5, <1>6, <1>7

\* A key leaves every prompt well formed.
LEMMA PressFits ==
  ASSUME PromptSetting, NEW n, NEW p, NEW key \in Keys, PromptFits(p, n), p.kind # "none"
  PROVE  PromptFits(Prompts!Press(p, key), n) /\ Prompts!Press(p, key).kind = p.kind
<1>1. p.kind \in {"select", "input"}
  BY DEF PromptFits, PromptStates
<1> QED
  BY <1>1, PressSelectFits, PressInputFits DEF Prompts!Press

\* A sequence begins with itself.
LEMMA PrefixItself == ASSUME NEW S, NEW s \in Seq(S) PROVE Prompts!IsPrefix(s, s)
  BY DEF Prompts!IsPrefix

\* What begins with a sequence still does with one element more.
LEMMA PrefixAppend ==
  ASSUME NEW S, NEW s \in Seq(S), NEW t \in Seq(S), NEW e \in S, Prompts!IsPrefix(s, t)
  PROVE  Prompts!IsPrefix(s, Append(t, e))
<1>1. Len(s) \in Nat /\ Len(t) \in Nat /\ Len(s) <= Len(t) /\ SubSeq(s, 1, Len(s)) = SubSeq(t, 1, Len(s))
  BY DEF Prompts!IsPrefix
<1>2. /\ Append(t, e) \in Seq(S) /\ Len(Append(t, e)) = Len(t) + 1
      /\ \A i \in 1 .. Len(t) : Append(t, e)[i] = t[i]
  BY AppendProperties
<1>3. SubSeq(Append(t, e), 1, Len(s)) = SubSeq(t, 1, Len(s))
  <2>1. /\ SubSeq(t, 1, Len(s)) \in Seq(S) /\ Len(SubSeq(t, 1, Len(s))) = Len(s)
        /\ \A i \in 1 .. Len(s) : SubSeq(t, 1, Len(s))[i] = t[i]
    BY <1>1
  <2>2. /\ SubSeq(Append(t, e), 1, Len(s)) \in Seq(S) /\ Len(SubSeq(Append(t, e), 1, Len(s))) = Len(s)
        /\ \A i \in 1 .. Len(s) : SubSeq(Append(t, e), 1, Len(s))[i] = Append(t, e)[i]
    BY <1>1, <1>2
  <2> QED
    BY <1>1, <1>2, <2>1, <2>2, SeqEqual
<1> QED
  BY <1>1, <1>2, <1>3 DEF Prompts!IsPrefix

\* The suggestions for a text begin with it.
LEMMA SuggestionsExtend ==
  ASSUME NEW text \in Seq(Letters), NEW menu \in Prompts!Suggestions(text)
  PROVE  menu \in Seq(Seq(Letters)) /\ \A i \in DOMAIN menu : Prompts!IsPrefix(text, menu[i])
<1> DEFINE a == Append(text, "x")
           b == Append(text, "y")
<1>1. a \in Seq(Letters) /\ "x" \in Letters /\ "y" \in Letters
  BY DEF Letters
<1>2. b \in Seq(Letters)
  BY <1>1
<1>3. Prompts!IsPrefix(text, a) /\ Prompts!IsPrefix(text, b)
  BY <1>1, PrefixItself, PrefixAppend
<1>4. menu \in {<<>>, <<a>>, <<a, b>>}
  BY DEF Prompts!Suggestions
<1> HIDE DEF a, b
<1>5. CASE menu = <<>>
  BY <1>5, EmptySeq
<1>6. CASE menu = <<a>>
  BY <1>1, <1>3, <1>6
<1>7. CASE menu = <<a, b>>
  BY <1>1, <1>2, <1>3, <1>7
<1> QED
  BY <1>4, <1>5, <1>6, <1>7

\* A result shown for the current request leaves the input well formed.
LEMMA ShownFits ==
  ASSUME NEW n, NEW p, NEW r, PromptFits(p, n), Prompts!Current(p, r), NEW menu \in Prompts!Suggestions(r.text),
         NEW truncated \in BOOLEAN
  PROVE  PromptFits(Prompts!Shown(p, r, menu, truncated), n) /\ Prompts!Shown(p, r, menu, truncated).kind = "input"
<1>1. p \in PromptStates /\ p.kind = "input" /\ p.ticked = {} /\ n % 2 = 0
  BY DEF PromptFits, Prompts!Current
<1>2. r.text = p.text /\ p.text \in Seq(Letters)
  BY <1>1 DEF Prompts!Current, Prompts!Request, PromptStates
<1>3. menu \in Seq(Seq(Letters)) /\ \A i \in DOMAIN menu : Prompts!IsPrefix(p.text, menu[i])
  BY <1>2, SuggestionsExtend
<1>4. CASE ~p.prefix \/ Len(menu) # 1
  <2> DEFINE q == [p EXCEPT !.menu = menu, !.index = 0, !.base = p.text, !.prefix = FALSE, !.loading = FALSE]
  <2>1. Prompts!Shown(p, r, menu, truncated) = q
    BY <1>2, <1>4 DEF Prompts!Shown
  <2>2. /\ q \in PromptStates /\ q.ticked = {} /\ q.kind = "input"
        /\ q.menu = menu /\ q.base = p.text /\ q.text = p.text
    BY <1>1, <1>2, <1>3 DEF PromptStates
  <2> HIDE DEF q
  <2> QED
    BY <1>1, <1>3, <2>1, <2>2 DEF PromptFits, MenuFits
<1>5. CASE p.prefix /\ Len(menu) = 1
  <2> DEFINE m == IF truncated THEN menu ELSE <<>>
             q == [p EXCEPT !.text = menu[1], !.base = menu[1], !.index = 0, !.prefix = FALSE,
                            !.loading = FALSE, !.menu = m]
  <2>1. Prompts!Shown(p, r, menu, truncated) = q
    BY <1>5 DEF Prompts!Shown
  <2>2. menu[1] \in Seq(Letters) /\ m \in Seq(Seq(Letters))
    <3>1. menu[1] \in Seq(Letters)
      <4>1. 1 \in 1 .. Len(menu)
        BY <1>5
      <4> QED
        BY <1>3, <4>1, ElementOfSeq
    <3>2. <<>> \in Seq(Seq(Letters))
      BY EmptySeq
    <3> QED
      BY <1>3, <3>1, <3>2
  <2>3. \A i \in DOMAIN m : m[i] = menu[1]
    BY <1>3, <1>5
  <2> HIDE DEF m
  <2>4. /\ q \in PromptStates /\ q.ticked = {} /\ q.kind = "input"
        /\ q.menu = m /\ q.base = menu[1] /\ q.text = menu[1]
    BY <1>1, <2>2 DEF PromptStates
  <2> HIDE DEF q
  <2>5. Prompts!IsPrefix(menu[1], menu[1])
    BY <2>2, PrefixItself
  <2> QED
    BY <1>1, <2>1, <2>3, <2>4, <2>5 DEF PromptFits, MenuFits
<1> QED
  BY <1>4, <1>5

\* A key that moves from the head of the queue to those used leaves the keys in order.
LEMMA KeyMovesOn ==
  ASSUME NEW u \in Seq(Keys), NEW q \in Seq(Keys), q # <<>>
  PROVE  u \o q = Append(u, Head(q)) \o Tail(q)
<1>1. Head(q) \in Keys /\ Tail(q) \in Seq(Keys) /\ <<Head(q)>> \in Seq(Keys)
  BY HeadTailProperties
<1>2. q = <<Head(q)>> \o Tail(q)
  <2>1. Len(q) \in Nat \ {0}
    BY EmptySeq
  <2>2. 1 \in 1 .. Len(q) /\ Len(q) \in 1 .. Len(q)
    BY <2>1
  <2>3. SubSeq(q, 1, Len(q)) = <<q[1]>> \o SubSeq(q, 2, Len(q))
    BY <2>2, SubSeqRecursiveFirst
  <2>4. SubSeq(q, 1, Len(q)) = q /\ Tail(q) = SubSeq(q, 2, Len(q)) /\ Head(q) = q[1]
    BY SubSeqFull, TailIsSubSeq
  <2> QED
    BY <2>3, <2>4
<1>3. Append(u, Head(q)) = u \o <<Head(q)>>
  BY <1>1, AppendIsConcat
<1>4. (u \o <<Head(q)>>) \o Tail(q) = u \o (<<Head(q)>> \o Tail(q))
  BY <1>1, ConcatAssociative
<1> QED
  BY <1>2, <1>3, <1>4

\* A key that joins the queue is the last one of all.
LEMMA KeyJoins ==
  ASSUME NEW u \in Seq(Keys), NEW q \in Seq(Keys), NEW key \in Keys
  PROVE  Append(u \o q, key) = u \o Append(q, key)
<1>1. u \o q \in Seq(Keys) /\ <<key>> \in Seq(Keys)
  BY ConcatProperties
<1>2. Append(u \o q, key) = (u \o q) \o <<key>> /\ Append(q, key) = q \o <<key>>
  BY <1>1, AppendIsConcat
<1>3. (u \o q) \o <<key>> = u \o (q \o <<key>>)
  BY <1>1, ConcatAssociative
<1> QED
  BY <1>2, <1>3

\* The invariant holds at first.
LEMMA PromptsStart == ASSUME PromptSetting, Prompts!Init PROVE PromptInv
<1>1. PromptFits(Prompts!NoPrompt, 0) /\ Prompts!NoPrompt.kind = "none"
  BY NoPromptFits
<1>2. <<>> \in Seq(Keys) /\ <<>> \in Seq(Answers) /\ Len(<<>>) = 0 /\ DOMAIN <<>> = {} /\ <<>> \o <<>> = <<>>
  BY EmptySeq
<1>3. PromptsTyped
  <2>1. asked \in 0 .. Questions
    BY DEF Prompts!Init, PromptSetting
  <2>2. pending \in Seq(Keys) /\ pressed \in Seq(Keys) /\ used \in Seq(Keys)
    BY <1>2 DEF Prompts!Init
  <2> QED
    BY <2>1, <2>2 DEF Prompts!Init, PromptsTyped
<1>q. KeysQueued
  BY <1>2 DEF Prompts!Init, KeysQueued, PromptSetting
<1>4. QuestionsAnswered /\ RepliesFit
  BY <1>1, <1>2 DEF Prompts!Init, QuestionsAnswered, RepliesFit
<1>5. PromptFits(prompt, asked)
  BY <1>1 DEF Prompts!Init
<1> QED
  BY <1>3, <1>4, <1>5, <1>q DEF PromptInv

\* A question is asked when the last one was answered and no prompt is on screen.
LEMMA AskKeeps == ASSUME PromptSetting, PromptInv, Prompts!Ask PROVE PromptInv'
<1>1. /\ caller = "ready" /\ asked \in Nat /\ asked' = asked + 1 /\ caller' = "asking" /\ response' = <<>>
      /\ asked' \in 0 .. Questions
      /\ UNCHANGED <<prompt, pending, pendingErr, pressed, used, replies>>
  BY DEF Prompts!Ask, PromptInv, PromptsTyped, PromptSetting
<1>2. PromptsTyped'
  BY <1>1 DEF Prompts!Ask, PromptInv, PromptsTyped
<1>3. prompt.kind = "none" /\ Len(replies) = asked
  BY <1>1 DEF PromptInv, QuestionsAnswered, RepliesFit
<1>4. PromptFits(prompt, asked)'
  BY <1>1, <1>3 DEF PromptInv, PromptFits
<1>5. KeysQueued'
  BY <1>1 DEF PromptInv, KeysQueued
<1>6. <<>> \in Seq(Answers) /\ Len(<<>>) = 0 /\ DOMAIN <<>> = {}
  BY EmptySeq
<1>7. QuestionsAnswered'
  BY <1>1, <1>3, <1>6 DEF QuestionsAnswered
<1>8. RepliesFit'
  BY <1>1, <1>3 DEF PromptInv, RepliesFit
<1> QED
  BY <1>2, <1>4, <1>5, <1>7, <1>8 DEF PromptInv

\* A result the caller takes is the reply to the question asked last.
LEMMA ReturnKeeps == ASSUME PromptInv, Prompts!Return PROVE PromptInv'
<1>1. /\ asked \in Nat /\ caller \in {"asking", "waiting"} /\ caller' \in {"ready", "failed"}
      /\ UNCHANGED <<asked, loop, prompt, response, pending, pendingErr, pressed, used, completer>>
  BY DEF Prompts!Return, PromptInv, PromptsTyped, Prompts!service
<1>2. PromptsTyped' /\ PromptFits(prompt, asked)' /\ KeysQueued'
  BY <1>1 DEF PromptInv, PromptsTyped, PromptFits, PromptStates, KeysQueued
<1>3. caller' = "ready" => prompt.kind = "none"
  BY DEF Prompts!Return, PromptInv, QuestionsAnswered
<1>4. QuestionsAnswered'
  BY <1>1, <1>3 DEF PromptInv, QuestionsAnswered
<1>5. CASE /\ caller = "waiting" /\ response # <<>>
           /\ replies' = Append(replies, response[1])
  <2>1. response \in Seq(Answers) /\ Len(response) <= 1 /\ replies \in Seq(Answers) /\ Len(replies) = asked - 1
    BY <1>5 DEF PromptInv, QuestionsAnswered, RepliesFit
  <2>2. response[1] \in Answers /\ 1 \in DOMAIN response
    BY <1>5, <2>1
  <2>3. response[1].how = "answer" => (asked % 2 = 1 => response[1].ticked # {})
    BY <2>2 DEF PromptInv, QuestionsAnswered
  <2>4. /\ replies' \in Seq(Answers) /\ Len(replies') = asked /\ DOMAIN replies' = 1 .. asked
        /\ \A i \in 1 .. asked - 1 : i \in DOMAIN replies /\ replies'[i] = replies[i]
        /\ replies'[asked] = response[1]
    BY <1>1, <1>5, <2>1, <2>2, AppendProperties
  <2>5. ASSUME NEW i \in DOMAIN replies', replies'[i].how = "answer", i % 2 = 1
        PROVE  replies'[i].ticked # {}
    <3>1. CASE i = asked
      BY <2>3, <2>4, <2>5, <3>1
    <3>2. CASE i # asked
      <4>1. i \in 1 .. asked - 1
        BY <1>1, <2>4, <3>2
      <4> QED
        BY <2>4, <2>5, <4>1 DEF PromptInv, RepliesFit
    <3> QED
      BY <3>1, <3>2
  <2> QED
    BY <1>1, <1>2, <1>4, <2>4, <2>5 DEF PromptInv, RepliesFit
<1>6. CASE caller' = "failed" /\ UNCHANGED replies
  BY <1>1, <1>2, <1>4, <1>6 DEF PromptInv, RepliesFit
<1> QED
  BY <1>5, <1>6 DEF Prompts!Return

\* Closing leaves prompts, keys and replies alone.
LEMMA CallerKeeps == ASSUME PromptInv, Prompts!StartClose \/ Prompts!StopLoop PROVE PromptInv'
<1>1. /\ caller' \in {"closing", "closed"} /\ loop' \in {"none", "running", "ended"}
      /\ UNCHANGED <<asked, prompt, response, pending, pendingErr, pressed, used, replies, completer>>
  BY DEF Prompts!StartClose, Prompts!StopLoop, PromptInv, PromptsTyped, Prompts!service
<1>2. PromptsTyped' /\ PromptFits(prompt, asked)' /\ KeysQueued'
  BY <1>1 DEF PromptInv, PromptsTyped, PromptFits, PromptStates, KeysQueued
<1>3. QuestionsAnswered' /\ RepliesFit'
  BY <1>1 DEF PromptInv, QuestionsAnswered, RepliesFit
<1> QED
  BY <1>2, <1>3 DEF PromptInv

\* So do the worker, the end of the context and the end of the program.
LEMMA PromptOthersKeep ==
  ASSUME PromptInv, Prompts!RunCommand \/ Prompts!CompleterStep \/ Prompts!StopWorker \/ Prompts!CutPrompts
         \/ Prompts!EndLoop \/ UNCHANGED promptVars
  PROVE  PromptInv'
<1>1. /\ UNCHANGED <<caller, asked, prompt, response, pending, pendingErr, pressed, used, replies>>
      /\ loop' \in {"none", "running", "ended"}
      /\ completer' \in {"idle", "debounce", "resolve", "send", "stopped"}
  BY DEF Prompts!RunCommand, Prompts!CompleterStep, Prompts!StopWorker, Prompts!CutPrompts, Prompts!EndLoop, PromptInv,
     PromptsTyped, Prompts!service, promptVars
<1>2. PromptsTyped' /\ PromptFits(prompt, asked)' /\ KeysQueued'
  BY <1>1 DEF PromptInv, PromptsTyped, PromptFits, PromptStates, KeysQueued
<1>3. QuestionsAnswered' /\ RepliesFit'
  BY <1>1 DEF PromptInv, QuestionsAnswered, RepliesFit
<1> QED
  BY <1>2, <1>3 DEF PromptInv

\* A result of the worker changes at most the prompt it was asked for.
LEMMA SendKeeps == ASSUME PromptInv, Prompts!SendResult PROVE PromptInv'
<1>1. /\ UNCHANGED <<caller, asked, loop, response, pending, pendingErr, pressed, used, replies>>
      /\ completer' = "idle"
  BY DEF Prompts!SendResult
<1>2. PromptFits(prompt', asked) /\ prompt'.kind = prompt.kind
  <2>1. PromptFits(prompt, asked)
    BY DEF PromptInv
  <2>2. CASE UNCHANGED prompt
    BY <2>1, <2>2
  <2>3. CASE \E menu \in Prompts!Suggestions(request[1].text), truncated \in BOOLEAN :
             prompt' = IF Prompts!Current(prompt, request[1]) THEN Prompts!Shown(prompt, request[1], menu, truncated) ELSE prompt
    <3>1. PICK menu \in Prompts!Suggestions(request[1].text), truncated \in BOOLEAN :
             prompt' = IF Prompts!Current(prompt, request[1]) THEN Prompts!Shown(prompt, request[1], menu, truncated) ELSE prompt
      BY <2>3
    <3>2. CASE Prompts!Current(prompt, request[1])
      <4>1. prompt.kind = "input"
        BY <3>2 DEF Prompts!Current
      <4> QED
        BY <2>1, <3>1, <3>2, <4>1, ShownFits
    <3>3. CASE ~Prompts!Current(prompt, request[1])
      BY <2>1, <3>1, <3>3
    <3> QED
      BY <3>2, <3>3
  <2> QED
    BY <2>2, <2>3 DEF Prompts!SendResult
<1>3. PromptsTyped' /\ KeysQueued' /\ QuestionsAnswered' /\ RepliesFit'
  BY <1>1, <1>2 DEF PromptInv, PromptsTyped, KeysQueued, QuestionsAnswered, RepliesFit
<1>4. PromptFits(prompt, asked)'
  BY <1>1, <1>2
<1> QED
  BY <1>3, <1>4 DEF PromptInv

\* The program takes a request: a new prompt, or the error of too many keys.
LEMMA TakeKeeps == ASSUME PromptSetting, PromptInv, Prompts!TakeRequest PROVE PromptInv'
<1>1. /\ caller = "asking" /\ caller' = "waiting" /\ asked \in Nat
      /\ UNCHANGED <<asked, loop, pending, pendingErr, pressed, used, replies, completer>>
  BY DEF Prompts!TakeRequest, PromptInv, PromptsTyped
<1>2. PromptsTyped' /\ KeysQueued' /\ RepliesFit'
  BY <1>1 DEF PromptInv, PromptsTyped, KeysQueued, RepliesFit
<1>3. response = <<>> /\ prompt.kind = "none" /\ PromptFits(prompt, asked)
  BY <1>1 DEF PromptInv, QuestionsAnswered
<1>4. CASE pendingErr
  <2> DEFINE r == [how |-> "error", ticked |-> {}, text |-> <<>>]
  <2>1. response' = <<r>> /\ UNCHANGED prompt
    BY <1>4 DEF Prompts!TakeRequest
  <2>2. r \in Answers /\ r.how # "answer"
    BY EmptySeq DEF Answers
  <2> HIDE DEF r
  <2>3. response' \in Seq(Answers) /\ Len(response') = 1 /\ \A i \in DOMAIN response' : response'[i] = r
    BY <2>1, <2>2
  <2>4. QuestionsAnswered'
    BY <1>1, <1>3, <2>1, <2>2, <2>3 DEF QuestionsAnswered
  <2> QED
    BY <1>1, <1>2, <1>3, <2>1, <2>4 DEF PromptInv, PromptFits, PromptStates
<1>5. CASE ~pendingErr
  <2>1. prompt' = Prompts!NewPrompt /\ UNCHANGED response
    BY <1>5 DEF Prompts!TakeRequest
  <2>2. PromptFits(prompt, asked)'
    BY <1>1, <2>1, NewPromptFits
  <2>3. QuestionsAnswered'
    BY <1>1, <1>3, <2>1 DEF PromptInv, QuestionsAnswered
  <2> QED
    BY <1>2, <2>2, <2>3 DEF PromptInv
<1> QED
  BY <1>4, <1>5

\* A key applied leaves a well formed prompt, or its result.
LEMMA AppliedFits ==
  ASSUME PromptSetting, PromptInv, NEW key \in Keys, Prompts!Apply(key), prompt.kind # "none",
         UNCHANGED <<caller, asked>>
  PROVE  PromptFits(prompt, asked)' /\ QuestionsAnswered'
<1>1. PromptFits(prompt, asked) /\ response = <<>> /\ caller \notin {"ready", "asking"}
  BY DEF PromptInv, QuestionsAnswered
<1>2. CASE Prompts!Ends(prompt, key) = "none"
  <2>1. prompt' = Prompts!Press(prompt, key) /\ UNCHANGED response
    BY <1>2 DEF Prompts!Apply
  <2>2. PromptFits(Prompts!Press(prompt, key), asked)
    BY <1>1, PressFits
  <2>3. PromptFits(prompt, asked)'
    BY <2>1, <2>2
  <2>4. QuestionsAnswered'
    BY <1>1, <2>1 DEF PromptInv, QuestionsAnswered
  <2> QED
    BY <2>3, <2>4
<1>3. CASE Prompts!Ends(prompt, key) # "none"
  <2> DEFINE r == [how |-> Prompts!Ends(prompt, key), ticked |-> prompt.ticked, text |-> prompt.text]
  <2>1. response' = <<r>> /\ prompt' = Prompts!NoPrompt
    BY <1>3 DEF Prompts!Apply
  <2>2. Prompts!Ends(prompt, key) \in {"answer", "back", "cancel"}
    BY <1>3 DEF Prompts!Ends
  <2>3. r \in Answers
    BY <1>1, <2>2 DEF Answers, PromptFits, PromptStates
  <2>4. r.how = "answer" => (asked % 2 = 1 => r.ticked # {})
    <3>1. ASSUME Prompts!Ends(prompt, key) = "answer", asked % 2 = 1 PROVE prompt.ticked # {}
      <4>1. prompt.kind # "input"
        BY <1>1, <3>1 DEF PromptFits
      <4> QED
        BY <3>1, <4>1 DEF Prompts!Ends
    <3> QED
      BY <3>1
  <2> HIDE DEF r
  <2>5. response' \in Seq(Answers) /\ Len(response') = 1 /\ \A i \in DOMAIN response' : response'[i] = r
    BY <2>1, <2>3
  <2>6. prompt'.kind = "none" /\ PromptFits(prompt, asked)'
    BY <2>1, NoPromptFits
  <2>7. QuestionsAnswered'
    BY <1>1, <2>4, <2>5, <2>6 DEF QuestionsAnswered
  <2> QED
    BY <2>6, <2>7
<1> QED
  BY <1>2, <1>3

\* A key typed ahead is applied in its turn.
LEMMA ReplayKeeps == ASSUME PromptSetting, PromptInv, Prompts!Replay PROVE PromptInv'
<1>1. /\ pending # <<>> /\ prompt.kind # "none" /\ pending \in Seq(Keys) /\ used \in Seq(Keys)
      /\ used' = Append(used, Head(pending)) /\ pending' = Tail(pending) /\ Prompts!Apply(Head(pending))
      /\ UNCHANGED <<caller, asked, loop, pendingErr, pressed, replies, completer>>
  BY DEF Prompts!Replay, Prompts!Apply, Prompts!KeepsRest, PromptInv, PromptsTyped
<1>2. Head(pending) \in Keys /\ pending' \in Seq(Keys) /\ Len(pending') = Len(pending) - 1 /\ Len(pending) \in Nat
  BY <1>1, HeadTailProperties
<1>3. used' \in Seq(Keys)
  BY <1>1, <1>2
<1>4. PromptsTyped' /\ RepliesFit'
  BY <1>1, <1>2, <1>3 DEF PromptInv, PromptsTyped, RepliesFit
<1>5. used \o pending = used' \o pending'
  BY <1>1, KeyMovesOn
<1>6. KeysQueued'
  BY <1>1, <1>2, <1>5 DEF PromptInv, KeysQueued, PromptSetting
<1>7. PromptFits(prompt, asked)' /\ QuestionsAnswered'
  BY <1>1, <1>2, AppliedFits
<1> QED
  BY <1>4, <1>6, <1>7 DEF PromptInv

\* A key pressed is applied, or queued, or one too many.
LEMMA PressKeeps == ASSUME PromptSetting, PromptInv, Prompts!PressKey PROVE PromptInv'
<1>1. PICK key \in Keys :
       /\ pressed' = Append(pressed, key)
       /\ \/ /\ prompt.kind # "none" /\ pending = <<>>
             /\ Prompts!Apply(key) /\ UNCHANGED <<pending, pendingErr>>
          \/ /\ prompt.kind = "none" /\ UNCHANGED <<prompt, response, used, requests, lastOrder>>
             /\ IF Len(pending) >= MaxPending THEN pending' = <<>> /\ pendingErr' = TRUE
                ELSE pending' = Append(pending, key) /\ UNCHANGED pendingErr
  BY DEF Prompts!PressKey
<1>2. /\ UNCHANGED <<caller, asked, loop, replies, completer>>
      /\ pressed \in Seq(Keys) /\ used \in Seq(Keys) /\ pending \in Seq(Keys) /\ pendingErr \in BOOLEAN
  BY DEF Prompts!PressKey, PromptInv, PromptsTyped
<1>3. pressed' \in Seq(Keys)
  BY <1>1, <1>2
<1>4. RepliesFit'
  BY <1>2 DEF PromptInv, RepliesFit
<1>5. CASE prompt.kind # "none" /\ pending = <<>> /\ Prompts!Apply(key) /\ UNCHANGED <<pending, pendingErr>>
  <2>1. used' = Append(used, key) /\ used' \in Seq(Keys)
    BY <1>2, <1>5 DEF Prompts!Apply
  <2>2. PromptsTyped'
    BY <1>2, <1>3, <1>5, <2>1 DEF PromptInv, PromptsTyped
  <2>3. ~pendingErr => pressed = used
    <3>1. used \o <<>> = used
      BY <1>2, ConcatEmptySeq
    <3> QED
      BY <1>5, <3>1 DEF PromptInv, KeysQueued
  <2>4. used' \o <<>> = used'
    BY <2>1, ConcatEmptySeq
  <2>5. KeysQueued'
    BY <1>1, <1>5, <2>1, <2>3, <2>4 DEF PromptInv, KeysQueued
  <2>6. PromptFits(prompt, asked)' /\ QuestionsAnswered'
    BY <1>2, <1>5, AppliedFits
  <2> QED
    BY <1>4, <2>2, <2>5, <2>6 DEF PromptInv
<1>6. CASE /\ prompt.kind = "none" /\ UNCHANGED <<prompt, response, used, requests, lastOrder>>
           /\ IF Len(pending) >= MaxPending THEN pending' = <<>> /\ pendingErr' = TRUE
              ELSE pending' = Append(pending, key) /\ UNCHANGED pendingErr
  <2>1. PromptFits(prompt, asked)' /\ QuestionsAnswered'
    BY <1>2, <1>6 DEF PromptInv, PromptFits, PromptStates, QuestionsAnswered
  <2>2. CASE Len(pending) >= MaxPending
    <3>1. pending' = <<>> /\ pendingErr' = TRUE /\ <<>> \in Seq(Keys) /\ Len(<<>>) = 0
      BY <1>6, <2>2, EmptySeq
    <3>2. PromptsTyped' /\ KeysQueued'
      BY <1>2, <1>3, <1>6, <3>1 DEF PromptInv, PromptsTyped, KeysQueued, PromptSetting
    <3> QED
      BY <1>4, <2>1, <3>2 DEF PromptInv
  <2>3. CASE ~(Len(pending) >= MaxPending)
    <3>1. /\ pending' = Append(pending, key) /\ UNCHANGED pendingErr /\ pending' \in Seq(Keys)
          /\ Len(pending') = Len(pending) + 1 /\ Len(pending) \in Nat
      <4>1. pending' = Append(pending, key) /\ UNCHANGED pendingErr
        BY <1>6, <2>3
      <4> QED
        BY <1>2, <4>1, AppendProperties, LenProperties
    <3>2. PromptsTyped'
      BY <1>2, <1>3, <1>6, <3>1 DEF PromptInv, PromptsTyped
    <3>3. Append(used \o pending, key) = used \o pending'
      BY <1>2, <3>1, KeyJoins
    <3>4. Len(pending') <= MaxPending
      BY <2>3, <3>1 DEF PromptSetting
    <3>5. KeysQueued'
      BY <1>1, <1>6, <3>1, <3>3, <3>4 DEF PromptInv, KeysQueued
    <3> QED
      BY <1>4, <2>1, <3>2, <3>5 DEF PromptInv
  <2> QED
    BY <2>2, <2>3
<1> QED
  BY <1>1, <1>5, <1>6

\* Every step keeps the invariant.
LEMMA PromptsKeep == ASSUME PromptSetting, PromptInv, [Prompts!Next]_promptVars PROVE PromptInv'
  BY AskKeeps, ReturnKeeps, CallerKeeps, PromptOthersKeep, SendKeeps, TakeKeeps, ReplayKeeps, PressKeeps
     DEF Prompts!Next, Prompts!CallerStep, Prompts!LoopStep, Prompts!WorkerStep

-----------------------------------------------------------------------------
(* The extraction of pinned archives.                                     *)

\* What extraction needs of its archives and selections: paths are made of known names.
Entries == [path : Paths, kind : {"dir", "file", "link"}, size : Nat, sound : BOOLEAN]
UnpackSetting ==
  /\ \A a \in Archive : a.members \in Seq(Entries)
  /\ \A chosen \in Selecting : \A s \in chosen : s \in [from : Paths, to : Paths]
  /\ MaxMembers \in Nat /\ MaxFileBytes \in Nat /\ MaxTotalBytes \in Nat

\* The paths that lead to a path, itself included, are paths, and told by their length.
LEMMA LeadingPath ==
  ASSUME NEW path \in Paths, NEW p \in Unpack!Ancestors(path)
  PROVE  p \in Paths /\ Len(p) \in 1..Len(path) /\ p = SubSeq(path, 1, Len(p))
<1>1. path \in Seq(DOMAIN Folded) /\ Len(path) \in Nat
  BY LenProperties DEF Paths
<1>2. PICK n \in 1..Len(path) : p = SubSeq(path, 1, n)
  BY DEF Unpack!Ancestors
<1>3. n \in Nat /\ 1 <= n /\ n <= Len(path)
  BY <1>1, <1>2
<1>4. \A i \in 1..n : path[i] \in DOMAIN Folded
  BY <1>1, <1>3, ElementOfSeq
<1>5. p \in Seq(DOMAIN Folded) /\ Len(p) = n
  BY <1>2, <1>3, <1>4, SubSeqProperties
<1>6. p # <<>>
  BY <1>3, <1>5, EmptySeq
<1> QED BY <1>2, <1>5, <1>6 DEF Paths

\* A path leads to itself.
LEMMA OwnAncestor == ASSUME NEW path \in Paths PROVE path \in Unpack!Ancestors(path)
<1>1. path \in Seq(DOMAIN Folded) /\ path # <<>>
  BY DEF Paths
<1>2. Len(path) \in Nat \ {0} /\ SubSeq(path, 1, Len(path)) = path
  BY <1>1, EmptySeq, SubSeqFull
<1>3. Len(path) \in 1..Len(path)
  BY <1>2
<1> QED BY <1>2, <1>3 DEF Unpack!Ancestors

\* What leads to a path that leads to another leads to the other.
LEMMA AncestorsLead ==
  ASSUME NEW path \in Paths, NEW p \in Unpack!Ancestors(path), NEW q \in Unpack!Ancestors(p)
  PROVE  q \in Unpack!Ancestors(path)
<1>1. p \in Paths /\ Len(p) \in 1..Len(path) /\ p = SubSeq(path, 1, Len(p))
  BY LeadingPath
<1>2. q \in Paths /\ Len(q) \in 1..Len(p) /\ q = SubSeq(p, 1, Len(q))
  BY <1>1, LeadingPath
<1>3. path \in Seq(DOMAIN Folded) /\ p \in Seq(DOMAIN Folded) /\ Len(path) \in Nat
  BY <1>1, LenProperties DEF Paths
<1>4. Len(q) \in 1..Len(path) /\ 1 \in 1..Len(p) - 1 + 1 /\ Len(q) \in 1..Len(p) - 1 + 1 /\ 1 \in 1..Len(path)
  BY <1>1, <1>2, <1>3
<1>5. SubSeq(SubSeq(path, 1, Len(p)), 1, Len(q)) = SubSeq(path, 1 + 1 - 1, 1 + Len(q) - 1)
  BY <1>1, <1>3, <1>4, SubSeqOfSubSeq
<1>6. q = SubSeq(path, 1, Len(q))
  BY <1>1, <1>2, <1>4, <1>5
<1> QED BY <1>4, <1>6 DEF Unpack!Ancestors

\* Two paths that lead to each other are one.
LEMMA AncestorsMutual ==
  ASSUME NEW p \in Paths, NEW q \in Paths, p \in Unpack!Ancestors(q), q \in Unpack!Ancestors(p)
  PROVE  p = q
<1>1. Len(p) \in 1..Len(q) /\ Len(q) \in 1..Len(p) /\ p = SubSeq(q, 1, Len(p))
  BY LeadingPath
<1>2. q \in Seq(DOMAIN Folded) /\ Len(q) \in Nat /\ Len(p) \in Nat
  BY LenProperties DEF Paths
<1>3. Len(p) = Len(q)
  BY <1>1, <1>2
<1> QED BY <1>1, <1>2, <1>3, SubSeqFull

\* Numbers that count as far are equal.
LEMMA IntervalsEqual == ASSUME NEW a \in Nat, NEW b \in Nat, 1..a = 1..b PROVE a = b
<1>1. Cardinality(1..a) = a /\ Cardinality(1..b) = b
  BY IntervalSize
<1> QED BY <1>1

\* The paths that lead to one path differ in length, so no two of them clash.
LEMMA NoClashWithin ==
  ASSUME NEW path \in Paths, NEW p \in Unpack!Ancestors(path), NEW q \in Unpack!Ancestors(path)
  PROVE  ~Unpack!Clash(p, q)
<1>1. p \in Paths /\ Len(p) \in Nat /\ p = SubSeq(path, 1, Len(p))
  BY LeadingPath, LenProperties DEF Paths
<1>2. q \in Paths /\ Len(q) \in Nat /\ q = SubSeq(path, 1, Len(q))
  BY LeadingPath, LenProperties DEF Paths
<1>3. DOMAIN p = 1..Len(p) /\ DOMAIN q = 1..Len(q)
  BY <1>1, <1>2, LenProperties DEF Paths
<1>4. ASSUME Unpack!Folds(p) = Unpack!Folds(q) PROVE p = q
  <2>1. DOMAIN Unpack!Folds(p) = DOMAIN p /\ DOMAIN Unpack!Folds(q) = DOMAIN q
    BY DEF Unpack!Folds
  <2>2. 1..Len(p) = 1..Len(q)
    BY <1>3, <1>4, <2>1
  <2>3. Len(p) = Len(q)
    BY <1>1, <1>2, <2>2, IntervalsEqual
  <2> QED BY <1>1, <1>2, <2>3
<1> QED BY <1>4 DEF Unpack!Clash

\* Clashing is symmetric.
LEMMA ClashBoth == ASSUME NEW p, NEW q PROVE Unpack!Clash(p, q) <=> Unpack!Clash(q, p)
BY DEF Unpack!Clash

\* The nodes after the first k members were examined.
NodeSet == [path : Paths, dir : BOOLEAN, link : BOOLEAN, explicit : BOOLEAN, size : Nat]
NodesOK(k) ==
  /\ nodes \subseteq NodeSet
  /\ \A n \in nodes : n.explicit => \E i \in 1..k : n = Unpack!Explicit(Unpack!Members[i])
  /\ \A i \in 1..k : Unpack!Explicit(Unpack!Members[i]) \in nodes
  /\ \A n \in nodes : \E i \in 1..k : n.path \in Unpack!Ancestors(Unpack!Members[i].path)
  /\ \A i \in 1..k : \A p \in Unpack!Ancestors(Unpack!Members[i].path) : \E n \in nodes : n.path = p
  /\ \A n, o \in nodes : (n.path = o.path => n = o) /\ ~Unpack!Clash(n.path, o.path)
  /\ \A n, o \in nodes : n.path \in Unpack!Ancestors(o.path) /\ n.path # o.path => n.dir
  /\ \A i, j \in 1..k : Unpack!Members[i].path = Unpack!Members[j].path => i = j
  /\ \A n \in nodes : n.explicit \/ n.dir

\* The explicit nodes are as many as the members, and they and their bytes within the limits.
LimitsOK(k) ==
  /\ IsFiniteSet(Unpack!ExplicitNodes) /\ Cardinality(Unpack!ExplicitNodes) = k /\ k <= MaxMembers
  /\ IsFiniteSet(Unpack!Bytes) /\ Unpack!Total <= MaxTotalBytes

\* The module of the extraction counts as this one does.
LEMMA SameCardinality == \A S : Unpack!Cardinality(S) = Cardinality(S)
BY Zenon DEF Unpack!Cardinality, Cardinality

\* Nothing examined is within the limits.
LEMMA NothingExamined == ASSUME UnpackSetting, nodes = {} PROVE NodesOK(0) /\ LimitsOK(0)
<1>1. Unpack!ExplicitNodes = {} /\ Unpack!Bytes = {}
  BY DEF Unpack!ExplicitNodes, Unpack!Bytes
<1>2. IsFiniteSet({}) /\ Cardinality({}) = 0
  BY FS_EmptySet
<1>3. LimitsOK(0)
  BY <1>1, <1>2, SameCardinality DEF LimitsOK, Unpack!Total, UnpackSetting
<1>4. NodesOK(0)
  BY DEF NodesOK
<1> QED BY <1>3, <1>4

\* The nodes that stay, the member's own and the directories it implies.
LEMMA NodesAdded ==
  ASSUME NEW m, NEW n
  PROVE  n \in Unpack!Added(m) <=> \/ n \in nodes /\ n.path # m.path
                            \/ n = Unpack!Explicit(m)
                            \/ \E p \in Unpack!Ancestors(m.path) \ {m.path} : Unpack!NodeAt(p) = {}
                               /\ n = Unpack!Implied(p)
BY DEF Unpack!Added, Unpack!NodeAt

\* A member that is admitted joins those examined before.
LEMMA AdmittedJoins ==
  ASSUME NEW k \in Nat, k + 1 \in DOMAIN Unpack!Members, Unpack!Members \in Seq(Entries),
         NodesOK(k), Unpack!Admissible(Unpack!Members[k + 1]), nodes' = Unpack!Added(Unpack!Members[k + 1]),
             UNCHANGED pinnedArchive
  PROVE  NodesOK(k + 1)'
<1> DEFINE m == Unpack!Members[k + 1]
<1>1. m \in Entries /\ m.path \in Paths /\ Unpack!Members' = Unpack!Members
  <2>1. k + 1 \in 1..Len(Unpack!Members)
    BY LenProperties
  <2>2. m \in Entries
    BY <2>1, ElementOfSeq
  <2> QED BY <2>2 DEF Entries, Unpack!Members
<1>2. \A p \in Unpack!Ancestors(m.path) : p \in Paths
  BY <1>1, LeadingPath
<1>3. m.path \in Unpack!Ancestors(m.path)
  BY <1>1, OwnAncestor
<1>4. \A p \in Unpack!Ancestors(m.path), n \in nodes : ~Unpack!Clash(p, n.path) /\ ~Unpack!Clash(n.path, p)
  BY ClashBoth DEF Unpack!Admissible, Unpack!FitsTree, Unpack!SameSpelling
<1>5. \A p \in Unpack!Ancestors(m.path), n \in nodes : n.path = p => n.dir = (p # m.path \/ m.kind = "dir")
      /\ (p = m.path => ~n.explicit)
  BY DEF Unpack!Admissible, Unpack!FitsTree, Unpack!NodeAt
<1>6. /\ Unpack!Explicit(m) \in NodeSet /\ Unpack!Explicit(m).path = m.path /\ Unpack!Explicit(m).explicit
      /\ Unpack!Explicit(m).dir = (m.kind = "dir")
  BY <1>1 DEF Unpack!Explicit, NodeSet, Entries
<1>7. \A p \in Paths : Unpack!Implied(p) \in NodeSet /\ Unpack!Implied(p).path = p /\ ~Unpack!Implied(p).explicit
      /\ Unpack!Implied(p).dir
  BY DEF Unpack!Implied, NodeSet
<1> DEFINE Stays(n) == n \in nodes /\ n.path # m.path
           Own(n) == n = Unpack!Explicit(m)
           New(n) == \E p \in Unpack!Ancestors(m.path) \ {m.path} : Unpack!NodeAt(p) = {} /\ n = Unpack!Implied(p)
<1>8. \A n : n \in nodes' <=> Stays(n) \/ Own(n) \/ New(n)
  BY NodesAdded
<1>9. \A n : New(n) => /\ n \in NodeSet /\ n.path \in Unpack!Ancestors(m.path) /\ n.path # m.path /\ ~n.explicit /\ n.dir
                       /\ n = Unpack!Implied(n.path) /\ \A o \in nodes : o.path # n.path
  BY <1>2, <1>7 DEF Unpack!NodeAt
<1>10. Unpack!Explicit(m)' = Unpack!Explicit(m)
      /\ \A i : Unpack!Explicit(Unpack!Members[i])' = Unpack!Explicit(Unpack!Members[i])
  BY <1>1 DEF Unpack!Explicit
<1>11. \A i \in 1..(k + 1) : i \in 1..k \/ i = k + 1
  OBVIOUS
<1>12. k + 1 \in 1..(k + 1) /\ 1..k \subseteq 1..(k + 1)
  OBVIOUS
<1> HIDE DEF Stays, Own, New
<1>13. \A n \in nodes : n.path = m.path => ~n.explicit /\ n.dir /\ m.kind = "dir"
  BY <1>3, <1>5 DEF NodesOK
<1>14. \A i \in 1..k : Unpack!Members[i].path # m.path
  <2>1. \A i \in 1..k : Unpack!Explicit(Unpack!Members[i]) \in nodes
        /\ Unpack!Explicit(Unpack!Members[i]).path = Unpack!Members[i].path /\ Unpack!Explicit(Unpack!Members[i]).explicit
    BY DEF NodesOK, Unpack!Explicit
  <2> QED BY <1>13, <2>1
<1>15. nodes' \subseteq NodeSet
  BY <1>6, <1>8, <1>9 DEF NodesOK, Stays, Own
<1>16. \A n \in nodes' : n.explicit => \E i \in 1..(k + 1) : n = Unpack!Explicit(Unpack!Members[i])
  BY <1>8, <1>9, <1>12 DEF NodesOK, Stays, Own
<1>17. \A i \in 1..(k + 1) : Unpack!Explicit(Unpack!Members[i]) \in nodes'
  <2>1. \A i \in 1..k : Unpack!Explicit(Unpack!Members[i]) \in nodes
        /\ Unpack!Explicit(Unpack!Members[i]).path = Unpack!Members[i].path
    BY DEF NodesOK, Unpack!Explicit
  <2>2. \A i \in 1..k : Unpack!Explicit(Unpack!Members[i]) \in nodes'
    BY <1>8, <1>14, <2>1 DEF Stays
  <2>3. Unpack!Explicit(m) \in nodes'
    BY <1>8 DEF Own
  <2> QED BY <1>11, <2>2, <2>3
<1>18. \A n \in nodes' : \E i \in 1..(k + 1) : n.path \in Unpack!Ancestors(Unpack!Members[i].path)
  BY <1>3, <1>6, <1>8, <1>9, <1>12 DEF NodesOK, Stays, Own
<1>19. \A p \in Unpack!Ancestors(m.path) : \E n \in nodes' : n.path = p
  <2> SUFFICES ASSUME NEW p \in Unpack!Ancestors(m.path) PROVE \E n \in nodes' : n.path = p
    OBVIOUS
  <2>1. CASE p = m.path
    BY <1>6, <1>8, <2>1 DEF Own
  <2>2. CASE p # m.path /\ Unpack!NodeAt(p) = {}
    BY <1>2, <1>7, <1>8, <2>2 DEF New
  <2>3. CASE p # m.path /\ Unpack!NodeAt(p) # {}
    BY <1>8, <2>3 DEF Stays, Unpack!NodeAt
  <2> QED BY <2>1, <2>2, <2>3
<1>20. \A i \in 1..(k + 1) : \A p \in Unpack!Ancestors(Unpack!Members[i].path) : \E n \in nodes' : n.path = p
  <2>1. ASSUME NEW i \in 1..k, NEW p \in Unpack!Ancestors(Unpack!Members[i].path) PROVE \E n \in nodes' : n.path = p
    <3>1. PICK n \in nodes : n.path = p
      BY DEF NodesOK
    <3>2. CASE p = m.path
      BY <1>6, <1>8, <3>2 DEF Own
    <3>3. CASE p # m.path
      BY <1>8, <3>1, <3>3 DEF Stays
    <3> QED BY <3>2, <3>3
  <2> QED BY <1>11, <1>19, <2>1
<1>21. \A n, o \in nodes' : n.path = o.path => n = o
  BY <1>6, <1>8, <1>9 DEF NodesOK, Stays, Own
<1>22. \A n, o \in nodes' : ~Unpack!Clash(n.path, o.path)
  <2> SUFFICES ASSUME NEW n \in nodes', NEW o \in nodes' PROVE ~Unpack!Clash(n.path, o.path)
    OBVIOUS
  <2>1. n \in nodes \/ n.path \in Unpack!Ancestors(m.path)
    BY <1>3, <1>6, <1>8, <1>9 DEF Stays, Own
  <2>2. o \in nodes \/ o.path \in Unpack!Ancestors(m.path)
    BY <1>3, <1>6, <1>8, <1>9 DEF Stays, Own
  <2> QED BY <1>1, <1>4, <2>1, <2>2, NoClashWithin DEF NodesOK
<1>23. \A n, o \in nodes' : n.path \in Unpack!Ancestors(o.path) /\ n.path # o.path => n.dir
  <2> SUFFICES ASSUME NEW n \in nodes', NEW o \in nodes', n.path \in Unpack!Ancestors(o.path), n.path # o.path, ~n.dir
        PROVE FALSE
    BY <1>15 DEF NodeSet
  <2>0. n \in NodeSet /\ o \in NodeSet /\ o.path \in Paths
    BY <1>15 DEF NodeSet
  <2>1. CASE o.path \in Unpack!Ancestors(m.path)
    <3>1. n.path \in Unpack!Ancestors(m.path)
      BY <1>1, <2>1, AncestorsLead
    <3>2. CASE n.path = m.path
      <4>1. m.path \in Unpack!Ancestors(o.path)
        BY <3>2
      <4> QED BY <1>1, <2>0, <2>1, <3>2, <4>1, AncestorsMutual
    <3>3. CASE n.path # m.path
      BY <1>5, <1>8, <1>6, <1>9, <3>1, <3>3 DEF Stays, Own
    <3> QED BY <3>2, <3>3
  <2>2. CASE o.path \notin Unpack!Ancestors(m.path)
    <3>1. Stays(o)
      BY <1>3, <1>6, <1>8, <1>9, <2>2 DEF Own
    <3>2. PICK i \in 1..k : o.path \in Unpack!Ancestors(Unpack!Members[i].path)
      BY <3>1 DEF NodesOK, Stays
    <3>3. Unpack!Members[i].path \in Paths
      <4>1. Unpack!Explicit(Unpack!Members[i]) \in NodeSet
            /\ Unpack!Explicit(Unpack!Members[i]).path = Unpack!Members[i].path
        BY DEF NodesOK, Unpack!Explicit
      <4> QED BY <4>1 DEF NodeSet
    <3>4. n.path \in Unpack!Ancestors(Unpack!Members[i].path)
      BY <3>2, <3>3, AncestorsLead
    <3>5. PICK was \in nodes : was.path = n.path
      BY <3>4 DEF NodesOK
    <3>6. was.dir
      BY <3>1, <3>5 DEF NodesOK, Stays
    <3>7. CASE Own(n)
      BY <1>3, <1>5, <1>6, <3>5, <3>6, <3>7 DEF Own
    <3>8. CASE New(n)
      BY <1>9, <3>8
    <3>9. CASE Stays(n)
      BY <3>5, <3>6, <3>9 DEF NodesOK, Stays
    <3> QED BY <1>8, <3>7, <3>8, <3>9
  <2> QED BY <2>1, <2>2
<1>24. \A i, j \in 1..(k + 1) : Unpack!Members[i].path = Unpack!Members[j].path => i = j
  BY <1>11, <1>14 DEF NodesOK
<1>25. \A n \in nodes' : n.explicit \/ n.dir
  BY <1>6, <1>8, <1>9 DEF NodesOK, Stays, Own
<1> QED
  BY <1>1, <1>10, <1>15, <1>16, <1>17, <1>18, <1>20, <1>21, <1>22, <1>23, <1>24, <1>25 DEF NodesOK

\* The limits hold of one member more.
LEMMA LimitsKept ==
  ASSUME UnpackSetting, NEW k \in Nat, k + 1 \in DOMAIN Unpack!Members, Unpack!Members \in Seq(Entries),
         NodesOK(k), LimitsOK(k), Unpack!Admissible(Unpack!Members[k + 1]), nodes' = Unpack!Added(Unpack!Members[k + 1])
  PROVE  LimitsOK(k + 1)'
<1> DEFINE m == Unpack!Members[k + 1]
<1>1. m \in Entries /\ m.path \in Paths /\ m.size \in Nat
  <2>1. k + 1 \in 1..Len(Unpack!Members)
    BY LenProperties
  <2>2. m \in Entries
    BY <2>1, ElementOfSeq
  <2> QED BY <2>2 DEF Entries
<1>2. m.path \in Unpack!Ancestors(m.path)
  BY <1>1, OwnAncestor
<1>3. \A n \in nodes : n.path = m.path => ~n.explicit /\ n.dir = (m.kind = "dir")
  BY <1>2 DEF Unpack!Admissible, Unpack!FitsTree, Unpack!NodeAt
<1>4. /\ Unpack!Explicit(m).path = m.path /\ Unpack!Explicit(m).explicit /\ Unpack!Explicit(m).size = m.size
      /\ (~Unpack!Explicit(m).dir /\ ~Unpack!Explicit(m).link <=> m.kind = "file")
  BY <1>1 DEF Unpack!Explicit, Entries
<1>5. \A p : ~Unpack!Implied(p).explicit
  BY DEF Unpack!Implied
<1>6. Unpack!ExplicitNodes' = Unpack!ExplicitNodes \cup {Unpack!Explicit(m)}
      /\ Unpack!Explicit(m) \notin Unpack!ExplicitNodes
  BY <1>3, <1>4, <1>5, NodesAdded DEF Unpack!ExplicitNodes
<1>7. IsFiniteSet(Unpack!ExplicitNodes') /\ Cardinality(Unpack!ExplicitNodes') = k + 1
  BY <1>6, FS_AddElement DEF LimitsOK
<1>8. k + 1 <= MaxMembers
  BY SameCardinality DEF LimitsOK, Unpack!Admissible, Unpack!WithinLimits, UnpackSetting
<1>9. Unpack!Bytes' = Unpack!Bytes \cup (IF m.kind = "file" THEN {m.path} \X (1..m.size) ELSE {})
  <2>1. CASE m.kind = "file"
    <3>1. {n \in Unpack!ExplicitNodes' : ~n.dir /\ ~n.link} =
            {n \in Unpack!ExplicitNodes : ~n.dir /\ ~n.link} \cup {Unpack!Explicit(m)}
      BY <1>4, <1>6, <2>1
    <3> QED BY <1>4, <2>1, <3>1 DEF Unpack!Bytes
  <2>2. CASE m.kind # "file"
    <3>1. {n \in Unpack!ExplicitNodes' : ~n.dir /\ ~n.link} = {n \in Unpack!ExplicitNodes : ~n.dir /\ ~n.link}
      BY <1>4, <1>6, <2>2
    <3> QED BY <2>2, <3>1 DEF Unpack!Bytes
  <2> QED BY <2>1, <2>2
<1>10. IsFiniteSet(Unpack!Bytes') /\ Cardinality(Unpack!Bytes') <= MaxTotalBytes
  <2>1. IsFiniteSet(Unpack!Bytes) /\ Cardinality(Unpack!Bytes) <= MaxTotalBytes /\ Cardinality(Unpack!Bytes) \in Nat
    BY FS_CardinalityType, SameCardinality DEF LimitsOK, Unpack!Total
  <2>2. CASE m.kind = "file"
    <3> DEFINE own == {m.path} \X (1..m.size)
    <3>1. Cardinality(Unpack!Bytes) + m.size <= MaxTotalBytes
      BY <2>2, SameCardinality DEF Unpack!Admissible, Unpack!WithinLimits, Unpack!Total
    <3>2. IsFiniteSet(1..m.size) /\ Cardinality(1..m.size) = m.size
      BY <1>1, IntervalSize
    <3>3. IsFiniteSet({m.path}) /\ Cardinality({m.path}) = 1
      BY FS_Singleton
    <3>4. IsFiniteSet(own) /\ Cardinality(own) = 1 * m.size
      BY <3>2, <3>3, FS_Product
    <3>5. IsFiniteSet(Unpack!Bytes \cap own)
      BY <2>1, FS_Subset
    <3>6. Cardinality(Unpack!Bytes \cap own) \in Nat
      BY <3>5, FS_CardinalityType
    <3>7. /\ IsFiniteSet(Unpack!Bytes \cup own)
          /\ Cardinality(Unpack!Bytes \cup own) =
               Cardinality(Unpack!Bytes) + Cardinality(own) - Cardinality(Unpack!Bytes \cap own)
      BY <2>1, <3>4, FS_Union
    <3>8. Unpack!Bytes' = Unpack!Bytes \cup own
      BY <1>9, <2>2
    <3> HIDE DEF own
    <3>9. MaxTotalBytes \in Nat
      BY DEF UnpackSetting
    <3>10. Cardinality(Unpack!Bytes \cup own) <= MaxTotalBytes
      BY <1>1, <2>1, <3>1, <3>4, <3>6, <3>7, <3>9
    <3> QED BY <3>7, <3>8, <3>10
  <2>3. CASE m.kind # "file"
    BY <1>9, <2>1, <2>3
  <2> QED BY <2>2, <2>3
<1> QED BY <1>7, <1>8, <1>10, SameCardinality DEF LimitsOK, Unpack!Total

\* What is known when every member was examined and every selection found.
Examined ==
  /\ NodesOK(Len(Unpack!Members)) /\ LimitsOK(Len(Unpack!Members))
  /\ Unpack!SelectionsHold /\ Unpack!AllSelectedFound

\* What was asked for is one of the archives and selections.
Asked == pinnedArchive \in Archive /\ selections \in Selecting

\* The members are of the kinds known, and every output is a path.
LEMMA AskedTypes ==
  ASSUME UnpackSetting, Asked
  PROVE  /\ Unpack!Members \in Seq(Entries) /\ Len(Unpack!Members) \in Nat
            /\ DOMAIN Unpack!Members = 1..Len(Unpack!Members)
         /\ \A i \in 1..Len(Unpack!Members) : Unpack!Members[i] \in Entries
            /\ \A out \in Unpack!Outputs(Unpack!Members[i]) : out \in Paths
<1>1. Unpack!Members \in Seq(Entries) /\ \A s \in selections : s.to \in Paths
  BY DEF UnpackSetting, Asked, Unpack!Members
<1>2. Len(Unpack!Members) \in Nat /\ DOMAIN Unpack!Members = 1..Len(Unpack!Members)
  BY <1>1, LenProperties
<1>3. ASSUME NEW i \in 1..Len(Unpack!Members) PROVE Unpack!Members[i] \in Entries
      /\ \A out \in Unpack!Outputs(Unpack!Members[i]) : out \in Paths
  <2>1. Unpack!Members[i] \in Entries
    BY <1>1, ElementOfSeq
  <2>2. Unpack!Members[i].path \in Paths
    BY <2>1 DEF Entries
  <2> QED BY <1>1, <2>1, <2>2 DEF Unpack!Outputs
<1> QED BY <1>1, <1>2, <1>3

\* No two outputs clash, and nothing is put under a file.
LEMMA OutputsApart ==
  ASSUME UnpackSetting, Asked, Examined, NEW i \in 1..Len(Unpack!Members), NEW j \in 1..Len(Unpack!Members),
         NEW one \in Unpack!Outputs(Unpack!Members[i]), NEW other \in Unpack!Outputs(Unpack!Members[j])
  PROVE  /\ \A p \in Unpack!Ancestors(one), q \in Unpack!Ancestors(other) : ~Unpack!Clash(p, q)
         /\ Unpack!Members[i].kind # "dir" /\ one \in Unpack!Ancestors(other) => i = j /\ one = other
<1>1. one \in Paths /\ other \in Paths
  BY AskedTypes
<1>2. \A a, b \in 1..Len(Unpack!Members) : Unpack!Members[a].path = Unpack!Members[b].path => a = b
  BY DEF Examined, NodesOK
<1>3. CASE Unpack!Selective
  <2>1. PICK s \in selections : s.from = Unpack!Members[i].path /\ s.to = one
    BY <1>3 DEF Unpack!Outputs
  <2>2. PICK t \in selections : t.from = Unpack!Members[j].path /\ t.to = other
    BY <1>3 DEF Unpack!Outputs
  <2>3. CASE s = t
    BY <1>1, <1>2, <2>1, <2>2, <2>3, NoClashWithin
  <2>4. CASE s # t
    BY <2>1, <2>2, <2>4 DEF Examined, Unpack!SelectionsHold
  <2> QED BY <2>3, <2>4
<1>4. CASE ~Unpack!Selective
  <2>1. one = Unpack!Members[i].path /\ other = Unpack!Members[j].path
    BY <1>4 DEF Unpack!Outputs
  <2>2. \A p \in Unpack!Ancestors(one), q \in Unpack!Ancestors(other) : ~Unpack!Clash(p, q)
    <3> SUFFICES ASSUME NEW p \in Unpack!Ancestors(one), NEW q \in Unpack!Ancestors(other) PROVE ~Unpack!Clash(p, q)
      OBVIOUS
    <3>1. PICK n \in nodes : n.path = p
      BY <2>1 DEF Examined, NodesOK
    <3>2. PICK o \in nodes : o.path = q
      BY <2>1 DEF Examined, NodesOK
    <3> QED BY <3>1, <3>2 DEF Examined, NodesOK
  <2>3. ASSUME Unpack!Members[i].kind # "dir", one \in Unpack!Ancestors(other) PROVE i = j /\ one = other
    <3>1. /\ Unpack!Explicit(Unpack!Members[i]) \in nodes /\ Unpack!Explicit(Unpack!Members[j]) \in nodes
          /\ Unpack!Explicit(Unpack!Members[i]).path = one /\ Unpack!Explicit(Unpack!Members[j]).path = other
             /\ ~Unpack!Explicit(Unpack!Members[i]).dir
      BY <2>1, <2>3 DEF Examined, NodesOK, Unpack!Explicit
    <3>2. one = other
      BY <2>3, <3>1 DEF Examined, NodesOK
    <3> QED BY <1>2, <2>1, <3>2
  <2> QED BY <2>2, <2>3
<1> QED BY <1>3, <1>4

\* The staging directory after the first k members were unpacked.
IsDirectory(i, p, out) == p # out \/ Unpack!Members[i].kind = "dir"
StagedOK(k) ==
  /\ staged \subseteq [path : Paths, dir : BOOLEAN, true : BOOLEAN]
  /\ \A f \in staged : \E i \in 1..k : \E out \in Unpack!Outputs(Unpack!Members[i]) :
       f.path \in Unpack!Ancestors(out) /\ (f.dir <=> IsDirectory(i, f.path, out))
  /\ \A i \in 1..k : \A out \in Unpack!Outputs(Unpack!Members[i]) : \A p \in Unpack!Ancestors(out) :
       \E f \in staged : f.path = p /\ (f.dir <=> IsDirectory(i, p, out))

\* What one member adds.
LEMMA UnpackedFiles ==
  ASSUME NEW m, NEW asPinned, NEW f
  PROVE  f \in Unpack!Unpacked(m, asPinned) <=>
           \E out \in Unpack!Outputs(m) : \E p \in Unpack!Ancestors(out) :
             f = [path |-> p, dir |-> p # out \/ m.kind = "dir", true |-> asPinned \/ p # out]
BY DEF Unpack!Unpacked

\* A member that is unpacked joins those before.
LEMMA UnpackedJoins ==
  ASSUME UnpackSetting, Asked, NEW k \in Nat, k + 1 \in 1..Len(Unpack!Members), StagedOK(k),
         staged' = staged \cup Unpack!Unpacked(Unpack!Members[k + 1], Unpack!HashMatches), UNCHANGED Unpack!request
  PROVE  /\ StagedOK(k + 1)'
         /\ Unpack!HashMatches /\ (\A f \in staged : f.true) => \A f \in staged' : f.true
<1> DEFINE m == Unpack!Members[k + 1]
           File(p, out) == [path |-> p, dir |-> p # out \/ m.kind = "dir", true |-> Unpack!HashMatches \/ p # out]
<1>1. \A out \in Unpack!Outputs(m) : out \in Paths
  BY AskedTypes
<1>2. \A f : f \in staged' <=> f \in staged
      \/ \E out \in Unpack!Outputs(m) : \E p \in Unpack!Ancestors(out) : f = File(p, out)
  BY UnpackedFiles
<1>3. \A out \in Unpack!Outputs(m) : \A p \in Unpack!Ancestors(out) : p \in Paths
  BY <1>1, LeadingPath
<1>4. Unpack!Members' = Unpack!Members /\ \A i : Unpack!Outputs(Unpack!Members[i])' = Unpack!Outputs(Unpack!Members[i])
  BY DEF Unpack!Members, Unpack!Outputs, Unpack!Selective, Unpack!request
<1>5. \A i, p, out : IsDirectory(i, p, out)' <=> IsDirectory(i, p, out)
  BY <1>4 DEF IsDirectory
<1>6. \A p, out : /\ File(p, out).path = p /\ (File(p, out).dir <=> IsDirectory(k + 1, p, out))
                  /\ Unpack!HashMatches => File(p, out).true = TRUE
  BY DEF IsDirectory
<1>7. k + 1 \in 1..(k + 1) /\ (\A i \in 1..k : i \in 1..(k + 1)) /\ \A i \in 1..(k + 1) : i \in 1..k \/ i = k + 1
  OBVIOUS
<1>8. \A p \in Paths : \A out : File(p, out) \in [path : Paths, dir : BOOLEAN, true : BOOLEAN]
  BY DEF Unpack!HashMatches
<1> HIDE DEF File
<1>9. staged' \subseteq [path : Paths, dir : BOOLEAN, true : BOOLEAN]
  BY <1>2, <1>3, <1>8 DEF StagedOK
<1>10. \A f \in staged' : \E i \in 1..(k + 1) : \E out \in Unpack!Outputs(Unpack!Members[i]) :
         f.path \in Unpack!Ancestors(out) /\ (f.dir <=> IsDirectory(i, f.path, out))
  BY <1>2, <1>6, <1>7 DEF StagedOK
<1>11. \A i \in 1..(k + 1) : \A out \in Unpack!Outputs(Unpack!Members[i]) : \A p \in Unpack!Ancestors(out) :
         \E f \in staged' : f.path = p /\ (f.dir <=> IsDirectory(i, p, out))
  <2>1. ASSUME NEW i \in 1..k, NEW out \in Unpack!Outputs(Unpack!Members[i]), NEW p \in Unpack!Ancestors(out)
        PROVE  \E f \in staged' : f.path = p /\ (f.dir <=> IsDirectory(i, p, out))
    BY <1>2 DEF StagedOK
  <2>2. ASSUME NEW out \in Unpack!Outputs(m), NEW p \in Unpack!Ancestors(out)
        PROVE  \E f \in staged' : f.path = p /\ (f.dir <=> IsDirectory(k + 1, p, out))
    BY <1>2, <1>6
  <2> QED BY <1>7, <2>1, <2>2
<1>12. StagedOK(k + 1)'
  BY <1>9, <1>10, <1>11 DEF StagedOK, IsDirectory, Unpack!Outputs, Unpack!Selective, Unpack!Members, Unpack!request
<1>13. ASSUME Unpack!HashMatches, \A f \in staged : f.true PROVE \A f \in staged' : f.true
  <2> SUFFICES ASSUME NEW f \in staged' PROVE f.true
    OBVIOUS
  <2>1. CASE f \in staged
    BY <1>13, <2>1
  <2>2. CASE f \notin staged
    <3>1. PICK out \in Unpack!Outputs(m) : \E p \in Unpack!Ancestors(out) : f = File(p, out)
      BY <1>2, <2>2
    <3>2. PICK p \in Unpack!Ancestors(out) : f = File(p, out)
      BY <3>1
    <3>3. f.true = TRUE
      BY <1>6, <1>13, <3>2
    <3> QED BY <3>3
  <2> QED BY <2>1, <2>2
<1> QED BY <1>12, <1>13

\* A tree that is staged completely, as pinned, from an archive examined completely,
\* is the pinned archive.
LEMMA StagedIsTheArchive ==
  ASSUME UnpackSetting, Asked, Examined, StagedOK(Len(Unpack!Members)), \A f \in staged : f.true
  PROVE  /\ {f.path : f \in staged} = UNION {Unpack!Ancestors(out) : out \in Unpack!Chosen}
         /\ \A f, g \in staged : (f.path = g.path => f = g) /\ ~Unpack!Clash(f.path, g.path)
         /\ \A f \in staged : ~f.dir => ~\E g \in staged : g # f /\ f.path \in Unpack!Ancestors(g.path)
         /\ Unpack!Selective => \A s \in selections : \E f \in staged : f.path = s.to /\ ~f.dir
         /\ Len(Unpack!Members) <= MaxMembers /\ Unpack!Total <= MaxTotalBytes
<1>1. /\ DOMAIN Unpack!Members = 1..Len(Unpack!Members) /\ Len(Unpack!Members) \in Nat
      /\ \A i \in 1..Len(Unpack!Members) : Unpack!Members[i] \in Entries
         /\ \A out \in Unpack!Outputs(Unpack!Members[i]) : out \in Paths
  BY AskedTypes
<1>2. {f.path : f \in staged} = UNION {Unpack!Ancestors(out) : out \in Unpack!Chosen}
  <2>1. ASSUME NEW f \in staged PROVE f.path \in UNION {Unpack!Ancestors(out) : out \in Unpack!Chosen}
    BY <1>1 DEF StagedOK, Unpack!Chosen
  <2>2. ASSUME NEW out \in Unpack!Chosen, NEW p \in Unpack!Ancestors(out) PROVE \E f \in staged : f.path = p
    BY <1>1 DEF StagedOK, Unpack!Chosen
  <2> QED BY <2>1, <2>2
<1>3. ASSUME NEW f \in staged, NEW g \in staged, ~f.dir, f.path \in Unpack!Ancestors(g.path) PROVE f = g
  <2>1. PICK i \in 1..Len(Unpack!Members) : \E one \in Unpack!Outputs(Unpack!Members[i]) :
          f.path \in Unpack!Ancestors(one) /\ (f.dir <=> IsDirectory(i, f.path, one))
    BY DEF StagedOK
  <2>1a. PICK one \in Unpack!Outputs(Unpack!Members[i]) : f.path \in Unpack!Ancestors(one)
        /\ (f.dir <=> IsDirectory(i, f.path, one))
    BY <2>1
  <2>2. PICK j \in 1..Len(Unpack!Members) : \E other \in Unpack!Outputs(Unpack!Members[j]) :
          g.path \in Unpack!Ancestors(other) /\ (g.dir <=> IsDirectory(j, g.path, other))
    BY DEF StagedOK
  <2>2a. PICK other \in Unpack!Outputs(Unpack!Members[j]) : g.path \in Unpack!Ancestors(other)
        /\ (g.dir <=> IsDirectory(j, g.path, other))
    BY <2>2
  <2>3. f.path = one /\ Unpack!Members[i].kind # "dir"
    BY <1>3, <2>1a DEF IsDirectory
  <2>4. one \in Paths /\ other \in Paths /\ g.path \in Paths
    BY <1>1 DEF StagedOK
  <2>5. one \in Unpack!Ancestors(other)
    BY <1>3, <2>2a, <2>3, <2>4, AncestorsLead
  <2>6. i = j /\ one = other
    BY <2>3, <2>5, OutputsApart
  <2>7. g.path = one
    BY <1>3, <2>2a, <2>3, <2>4, <2>6, AncestorsMutual
  <2>8. f.path = g.path /\ f.dir = g.dir /\ f.true = g.true
    BY <2>1a, <2>2a, <2>3, <2>6, <2>7 DEF StagedOK
  <2>9. \A h \in [path : Paths, dir : BOOLEAN, true : BOOLEAN] : h = [path |-> h.path, dir |-> h.dir, true |-> h.true]
    OBVIOUS
  <2>10. f = [path |-> f.path, dir |-> f.dir, true |-> f.true] /\ g = [path |-> g.path, dir |-> g.dir, true |-> g.true]
    BY <2>9 DEF StagedOK
  <2> QED BY <2>8, <2>10
<1>4. ASSUME NEW f \in staged, NEW g \in staged, f.path = g.path PROVE f = g
  <2>1. f \in [path : Paths, dir : BOOLEAN, true : BOOLEAN] /\ g \in [path : Paths, dir : BOOLEAN, true : BOOLEAN]
    BY DEF StagedOK
  <2>2. f.path \in Unpack!Ancestors(g.path) /\ g.path \in Unpack!Ancestors(f.path)
    BY <1>4, <2>1, OwnAncestor
  <2>3. CASE ~f.dir \/ ~g.dir
    BY <1>3, <2>2, <2>3
  <2>4. CASE f.dir /\ g.dir
    <3>1. f.true = TRUE /\ g.true = TRUE /\ f.dir = TRUE /\ g.dir = TRUE
      BY <2>1, <2>4
    <3>2. f = [path |-> f.path, dir |-> f.dir, true |-> f.true] /\ g = [path |-> g.path, dir |-> g.dir, true |-> g.true]
      BY <2>1
    <3> QED BY <1>4, <3>1, <3>2
  <2> QED BY <2>3, <2>4
<1>5. ASSUME NEW f \in staged, NEW g \in staged PROVE ~Unpack!Clash(f.path, g.path)
  <2>1. PICK i \in 1..Len(Unpack!Members) : \E one \in Unpack!Outputs(Unpack!Members[i]) : f.path \in Unpack!Ancestors(one)
    BY DEF StagedOK
  <2>1a. PICK one \in Unpack!Outputs(Unpack!Members[i]) : f.path \in Unpack!Ancestors(one)
    BY <2>1
  <2>2. PICK j \in 1..Len(Unpack!Members) :
          \E other \in Unpack!Outputs(Unpack!Members[j]) : g.path \in Unpack!Ancestors(other)
    BY DEF StagedOK
  <2>2a. PICK other \in Unpack!Outputs(Unpack!Members[j]) : g.path \in Unpack!Ancestors(other)
    BY <2>2
  <2> QED BY <2>1a, <2>2a, OutputsApart
<1>6. ASSUME Unpack!Selective, NEW s \in selections PROVE \E f \in staged : f.path = s.to /\ ~f.dir
  <2>1. PICK n \in nodes : n.path = s.from /\ n.explicit /\ ~n.dir /\ ~n.link
    BY DEF Examined, Unpack!AllSelectedFound
  <2>2. PICK i \in 1..Len(Unpack!Members) : n = Unpack!Explicit(Unpack!Members[i])
    BY <2>1 DEF Examined, NodesOK
  <2>3. Unpack!Members[i].path = s.from /\ Unpack!Members[i].kind # "dir"
    BY <2>1, <2>2 DEF Unpack!Explicit
  <2>4. s.to \in Unpack!Outputs(Unpack!Members[i])
    BY <1>6, <2>3 DEF Unpack!Outputs
  <2>5. s.to \in Unpack!Ancestors(s.to)
    BY <1>1, <2>4, OwnAncestor
  <2>6. PICK f \in staged : f.path = s.to /\ (f.dir <=> IsDirectory(i, s.to, s.to))
    BY <2>4, <2>5 DEF StagedOK
  <2> QED BY <2>3, <2>6 DEF IsDirectory
<1>7. Len(Unpack!Members) <= MaxMembers /\ Unpack!Total <= MaxTotalBytes
  BY DEF Examined, LimitsOK
<1> QED BY <1>2, <1>3, <1>4, <1>5, <1>6, <1>7

\* How far the examination is, how far the unpacking, and a complete tree.
ExaminedSoFar == \E k \in Nat : nextMember = k + 1 /\ NodesOK(k) /\ LimitsOK(k)
StagedSoFar == \E k \in Nat : nextMember = k + 1 /\ StagedOK(k)
AllStaged == StagedOK(Len(Unpack!Members))
AllAsPinned == \A f \in staged : f.true

\* What each stage of the extraction has reached, and what lies at the destination.
ArchiveRead == {"recheck", "stage", "unpack", "confirm", "publish", "rename"}
UnpackInv ==
  /\ Unpack!TypeOK /\ Asked
  /\ unpackAt = "begin" => nodes = {} /\ nextMember = 1
  /\ unpackAt \in {"begin", "preflight", "recheck", "stage"} => staged = {} /\ stageDir = "none"
  /\ unpackAt = "preflight" => Unpack!SelectionsHold /\ ExaminedSoFar
  /\ unpackAt \in ArchiveRead \/ destinationDir = "ours" => Examined
  /\ unpackAt = "unpack" => StagedSoFar
  /\ unpackAt \in {"confirm", "publish", "rename"} \/ destinationDir = "ours" => AllStaged
  /\ unpackAt \in {"unpack", "confirm"} /\ Unpack!HashMatches => AllAsPinned
  /\ unpackAt \in {"publish", "rename"} \/ destinationDir = "ours" => AllAsPinned
  /\ unpackAt = "rename" => Unpack!StageIsOurs
  /\ unpackAt = "renamed" => destinationDir = "ours" /\ stageDir # "ours"
  /\ destinationDir = "ours" => unpackAt \in {"renamed", "ended"}
  /\ unpackAt # "ended" => unpackResult = "none"
  /\ unpackResult = "done" => destinationDir = "ours"
  /\ unpackAt = "ended" /\ unpackResult # "killed" /\ parentDir = "same" => stageDir # "ours"

\* An extraction starts with nothing examined or staged.
LEMMA UnpackStarts == ASSUME UnpackSetting, Unpack!Init PROVE UnpackInv
<1>1. Asked /\ Len(Unpack!Members) \in Nat
  BY AskedTypes DEF Unpack!Init, Asked
<1>2. Unpack!TypeOK
  BY <1>1 DEF Unpack!Init, Unpack!TypeOK
<1> QED BY <1>1, <1>2 DEF Unpack!Init, UnpackInv, ArchiveRead

\* A step that fails ends the extraction, and removes the stage if it finds ours.
LEMMA UnpackFails == ASSUME UnpackInv, Unpack!FailUnpack, unpackAt \notin {"ended", "renamed"} PROVE UnpackInv'
<1>1. /\ unpackAt' = "ended" /\ unpackResult' = "failed"
      /\ stageDir' \in {"none", "ours", "swapped", "removed"} /\ (parentDir = "same" => stageDir' # "ours")
      /\ UNCHANGED <<pinnedArchive, selections, archiveFile, archivePath, parentDir, nextMember, nodes, destinationDir>>
      /\ destinationDir # "ours"
  BY DEF Unpack!FailUnpack, Unpack!UnpackGoesTo, Unpack!Removed, Unpack!StageIsOurs, Unpack!OursAtPath, UnpackInv, Unpack!TypeOK,
         Unpack!request, Unpack!disk
<1>2. Unpack!Members' = Unpack!Members
  BY <1>1 DEF Unpack!Members
<1>3. Unpack!TypeOK' /\ Asked'
  BY <1>1, <1>2 DEF UnpackInv, Unpack!TypeOK, Asked
<1> QED BY <1>1, <1>3 DEF UnpackInv, ArchiveRead

\* What was examined and staged does not depend on where the extraction is.
LEMMA ExaminedStays ==
  ASSUME UNCHANGED <<Unpack!request, nodes>>
  PROVE  /\ Unpack!Members' = Unpack!Members /\ (Asked <=> Asked') /\ (Examined <=> Examined')
            /\ (Unpack!SelectionsHold <=> Unpack!SelectionsHold')
         /\ \A k : (NodesOK(k) <=> NodesOK(k)') /\ (LimitsOK(k) <=> LimitsOK(k)')
<1>1. pinnedArchive' = pinnedArchive /\ selections' = selections /\ nodes' = nodes
  BY DEF Unpack!request
<1> QED BY <1>1 DEF Unpack!Members, Asked, Examined, Unpack!SelectionsHold, Unpack!AllSelectedFound, NodesOK, LimitsOK,
      Unpack!ExplicitNodes, Unpack!Bytes, Unpack!Total

\* Nor does what was staged.
LEMMA StagedStays ==
  ASSUME UNCHANGED <<Unpack!request, staged>>
  PROVE  /\ AllStaged <=> AllStaged'
         /\ AllAsPinned <=> AllAsPinned'
         /\ \A k : StagedOK(k) <=> StagedOK(k)'
<1>1. pinnedArchive' = pinnedArchive /\ selections' = selections /\ staged' = staged
  BY DEF Unpack!request
<1> QED BY <1>1 DEF AllStaged, AllAsPinned, StagedOK, IsDirectory, Unpack!Outputs, Unpack!Selective, Unpack!Members

\* The checks before anything is examined, and the end of the examination.
LEMMA ExaminingKeeps == ASSUME UnpackSetting, UnpackInv, Unpack!Begin \/ Unpack!PreflightMember \/ Unpack!EndPreflight
  \/ Unpack!Recheck PROVE UnpackInv'
<1>0. unpackAt \in {"begin", "preflight", "recheck"}
  BY DEF Unpack!Begin, Unpack!PreflightMember, Unpack!EndPreflight, Unpack!Recheck
<1>1. CASE Unpack!FailUnpack
  BY <1>0, <1>1, UnpackFails
<1>2. Len(Unpack!Members) \in Nat /\ nextMember \in Nat /\ nextMember >= 1
      /\ DOMAIN Unpack!Members = 1..Len(Unpack!Members)
      /\ nextMember <= Len(Unpack!Members) + 1 /\ Unpack!Members \in Seq(Entries)
  BY AskedTypes DEF UnpackInv, Unpack!TypeOK
<1>3. destinationDir # "ours" /\ staged = {} /\ stageDir = "none" /\ unpackResult = "none"
  BY <1>0 DEF UnpackInv
<1>4. ASSUME NEW step \in {"preflight", "recheck", "stage"}, Unpack!StepTo(step)
      PROVE  /\ unpackAt' = step
                /\ UNCHANGED <<Unpack!request, nodes, staged, stageDir, destinationDir, unpackResult, nextMember,
                                                archiveFile, archivePath, parentDir>>
             /\ Unpack!TypeOK' /\ Asked'
  <2>1. unpackAt' = step /\ UNCHANGED <<Unpack!request, nodes, staged, stageDir, destinationDir, unpackResult, nextMember,
                                        archiveFile, archivePath, parentDir>>
    BY <1>4 DEF Unpack!StepTo, Unpack!UnpackGoesTo, Unpack!disk
  <2>2. Asked' /\ Unpack!Members' = Unpack!Members
    BY <2>1, ExaminedStays DEF UnpackInv
  <2> QED BY <2>1, <2>2 DEF UnpackInv, Unpack!TypeOK
<1>5. CASE Unpack!Begin /\ ~Unpack!FailUnpack
  <2>1. Unpack!SelectionsHold /\ Unpack!StepTo("preflight") /\ nodes = {} /\ nextMember = 1
    BY <1>5 DEF Unpack!Begin, Unpack!IfSo, UnpackInv
  <2>2. 0 \in Nat /\ nextMember = 0 + 1 /\ NodesOK(0) /\ LimitsOK(0)
    BY <2>1, NothingExamined
  <2>3. /\ unpackAt' = "preflight" /\ nextMember' = 0 + 1
        /\ UNCHANGED <<Unpack!request, nodes, staged, stageDir, destinationDir, unpackResult>>
    BY <1>4, <2>1, <2>2
  <2>4. NodesOK(0)' /\ LimitsOK(0)' /\ Unpack!SelectionsHold'
    BY <2>1, <2>2, <2>3, ExaminedStays
  <2>5. ExaminedSoFar'
    BY <2>2, <2>3, <2>4 DEF ExaminedSoFar
  <2> QED BY <1>3, <1>4, <2>1, <2>3, <2>4, <2>5 DEF UnpackInv, ArchiveRead
<1>6. CASE Unpack!EndPreflight /\ ~Unpack!FailUnpack
  <2>1. Unpack!AllSelectedFound /\ Unpack!StepTo("recheck") /\ nextMember - 1 = Len(Unpack!Members)
        /\ unpackAt = "preflight"
    BY <1>2, <1>6 DEF Unpack!EndPreflight, Unpack!IfSo
  <2>2. PICK k \in Nat : nextMember = k + 1 /\ NodesOK(k) /\ LimitsOK(k)
    BY <2>1 DEF UnpackInv, ExaminedSoFar
  <2>3. k = Len(Unpack!Members)
    <3>1. nextMember = k + 1 /\ nextMember - 1 = Len(Unpack!Members)
      BY <2>1, <2>2
    <3> QED BY <3>1
  <2>4. Examined
    BY <2>1, <2>2, <2>3 DEF UnpackInv, Examined
  <2>5. /\ unpackAt' = "recheck" /\ UNCHANGED <<Unpack!request, nodes, staged, stageDir, destinationDir, unpackResult>>
    BY <1>4, <2>1
  <2>6. Examined'
    BY <2>4, <2>5, ExaminedStays
  <2> QED BY <1>3, <1>4, <2>1, <2>5, <2>6 DEF UnpackInv, ArchiveRead
<1>7. CASE Unpack!Recheck /\ ~Unpack!FailUnpack
  <2>1. Unpack!StepTo("stage") /\ unpackAt = "recheck" /\ Examined
    BY <1>7 DEF Unpack!Recheck, Unpack!IfSo, UnpackInv, ArchiveRead
  <2>2. /\ unpackAt' = "stage" /\ UNCHANGED <<Unpack!request, nodes, staged, stageDir, destinationDir, unpackResult>>
    BY <1>4, <2>1
  <2>3. Examined'
    BY <2>1, <2>2, ExaminedStays
  <2> QED BY <1>3, <1>4, <2>1, <2>2, <2>3 DEF UnpackInv, ArchiveRead
<1>8. CASE Unpack!PreflightMember /\ ~Unpack!FailUnpack
  <2>1. /\ unpackAt = "preflight" /\ nextMember <= Len(Unpack!Members) /\ Unpack!Admissible(Unpack!Members[nextMember])
        /\ nodes' = Unpack!Added(Unpack!Members[nextMember]) /\ nextMember' = nextMember + 1 /\ unpackAt' = "preflight"
        /\ UNCHANGED <<Unpack!request, archiveFile, archivePath, parentDir, stageDir, staged, destinationDir, unpackResult>>
    BY <1>8, <1>3 DEF Unpack!PreflightMember, Unpack!UnpackGoesTo, Unpack!disk, Unpack!FailUnpack, Unpack!Removed, Unpack!OursAtPath
  <2>2. PICK k \in Nat : nextMember = k + 1 /\ NodesOK(k) /\ LimitsOK(k)
    BY <2>1 DEF UnpackInv, ExaminedSoFar
  <2>3. UNCHANGED <<pinnedArchive, selections>> /\ k + 1 \in DOMAIN Unpack!Members
    BY <1>2, <2>1, <2>2 DEF Unpack!request
  <2>4. Unpack!Admissible(Unpack!Members[k + 1]) /\ nodes' = Unpack!Added(Unpack!Members[k + 1])
    BY <2>1, <2>2
  <2>5. NodesOK(k + 1)'
    BY <1>2, <2>2, <2>3, <2>4, AdmittedJoins
  <2>6. LimitsOK(k + 1)'
    BY <1>2, <2>2, <2>3, <2>4, LimitsKept
  <2>7. PICK l \in Nat : l = k + 1
    BY <2>2
  <2>8. NodesOK(l)' /\ LimitsOK(l)' /\ nextMember' = l + 1
    BY <2>1, <2>2, <2>5, <2>6, <2>7
  <2>9. ExaminedSoFar'
    BY <2>7, <2>8 DEF ExaminedSoFar
  <2>10. Unpack!SelectionsHold' /\ Asked' /\ Unpack!Members' = Unpack!Members
    BY <2>1, <2>3 DEF UnpackInv, Unpack!SelectionsHold, Asked, Unpack!Members
  <2>11. \A n \in nodes' : n.explicit \/ n.dir
    BY <2>8 DEF NodesOK
  <2>12. Unpack!TypeOK'
    BY <1>2, <2>1, <2>10, <2>11 DEF UnpackInv, Unpack!TypeOK
  <2> QED BY <1>3, <2>1, <2>9, <2>10, <2>12 DEF UnpackInv, ArchiveRead
<1> QED BY <1>1, <1>5, <1>6, <1>7, <1>8

\* The stage is created empty.
LEMMA StageKeeps == ASSUME UnpackSetting, UnpackInv, Unpack!CreateStage PROVE UnpackInv'
<1>1. /\ unpackAt = "stage" /\ stageDir' = "ours" /\ nextMember' = 1 /\ unpackAt' = "unpack"
      /\ UNCHANGED <<Unpack!request, archiveFile, archivePath, parentDir, nodes, staged, destinationDir, unpackResult>>
      /\ staged = {} /\ Examined /\ destinationDir # "ours" /\ unpackResult = "none" /\ Asked
  BY DEF Unpack!CreateStage, Unpack!UnpackGoesTo, Unpack!disk, UnpackInv, ArchiveRead
<1>2. Examined' /\ Asked' /\ Unpack!Members' = Unpack!Members
  BY <1>1, ExaminedStays
<1>3. Len(Unpack!Members) \in Nat
  BY <1>1, AskedTypes
<1>4. Unpack!TypeOK'
  BY <1>1, <1>2, <1>3 DEF UnpackInv, Unpack!TypeOK
<1>5. StagedOK(0)'
  BY <1>1 DEF StagedOK
<1>6. 0 \in Nat /\ nextMember' = 0 + 1
  BY <1>1
<1>7. StagedSoFar' /\ AllAsPinned'
  BY <1>1, <1>5, <1>6 DEF StagedSoFar, AllAsPinned
<1> QED BY <1>1, <1>2, <1>4, <1>7 DEF UnpackInv, ArchiveRead

\* A member is written as it is read, and the tree is whole after the last one.
LEMMA UnpackingKeeps == ASSUME UnpackSetting, UnpackInv, Unpack!UnpackMember \/ Unpack!SyncTree PROVE UnpackInv'
<1>1. unpackAt = "unpack" /\ Examined /\ Asked /\ destinationDir # "ours" /\ unpackResult = "none"
  BY DEF Unpack!UnpackMember, Unpack!SyncTree, UnpackInv, ArchiveRead
<1>2. Len(Unpack!Members) \in Nat /\ DOMAIN Unpack!Members = 1..Len(Unpack!Members)
  BY <1>1, AskedTypes
<1>3. PICK k \in Nat : nextMember = k + 1 /\ StagedOK(k)
  BY <1>1 DEF UnpackInv, StagedSoFar
<1>4. CASE Unpack!UnpackMember
  <2>1. /\ nextMember <= Len(Unpack!Members)
           /\ staged' = staged \cup Unpack!Unpacked(Unpack!Members[nextMember], Unpack!HashMatches)
        /\ nextMember' = nextMember + 1 /\ unpackAt' = "unpack"
        /\ UNCHANGED <<Unpack!request, archiveFile, archivePath, parentDir, nodes, stageDir, destinationDir, unpackResult>>
    BY <1>4 DEF Unpack!UnpackMember, Unpack!UnpackGoesTo, Unpack!disk
  <2>2. k + 1 \in 1..Len(Unpack!Members)
        /\ staged' = staged \cup Unpack!Unpacked(Unpack!Members[k + 1], Unpack!HashMatches) /\ UNCHANGED Unpack!request
    BY <1>2, <1>3, <2>1
  <2>3. StagedOK(k + 1)' /\ (Unpack!HashMatches /\ (\A f \in staged : f.true) => \A f \in staged' : f.true)
    BY <1>1, <1>3, <2>2, UnpackedJoins
  <2>4. PICK l \in Nat : l = k + 1
    BY <1>3
  <2>5. StagedOK(l)' /\ nextMember' = l + 1
    BY <1>3, <2>1, <2>3, <2>4
  <2>6. StagedSoFar'
    BY <2>4, <2>5 DEF StagedSoFar
  <2>7. Unpack!HashMatches' => AllAsPinned'
    BY <1>1, <2>1, <2>3 DEF UnpackInv, Unpack!HashMatches, AllAsPinned
  <2>8. Examined' /\ Asked' /\ Unpack!Members' = Unpack!Members
    BY <1>1, <2>1, ExaminedStays
  <2>9. Unpack!TypeOK'
    BY <1>2, <2>1, <2>8 DEF UnpackInv, Unpack!TypeOK
  <2> QED BY <1>1, <2>1, <2>6, <2>7, <2>8, <2>9 DEF UnpackInv, ArchiveRead
<1>5. CASE Unpack!SyncTree
  <2>1. /\ nextMember > Len(Unpack!Members) /\ unpackAt' = "confirm"
        /\ UNCHANGED <<Unpack!request, archiveFile, archivePath, parentDir, nodes, stageDir, staged,
                       destinationDir, unpackResult, nextMember>>
    BY <1>5 DEF Unpack!SyncTree, Unpack!StepTo, Unpack!UnpackGoesTo, Unpack!disk
  <2>2. nextMember \in Nat /\ nextMember <= Len(Unpack!Members) + 1
    BY <1>2 DEF UnpackInv, Unpack!TypeOK
  <2>3. k = Len(Unpack!Members)
    <3>1. Len(Unpack!Members) \in Nat /\ k \in Nat /\ nextMember = k + 1
      BY <1>2, <1>3
    <3>2. nextMember > Len(Unpack!Members) /\ nextMember <= Len(Unpack!Members) + 1
      BY <2>1, <2>2
    <3> QED BY <3>1, <3>2
  <2>4. AllStaged
    BY <1>3, <2>3 DEF AllStaged
  <2>5. AllStaged' /\ (AllAsPinned <=> AllAsPinned') /\ (Unpack!HashMatches <=> Unpack!HashMatches')
    BY <2>1, <2>4, StagedStays DEF Unpack!HashMatches
  <2>6. Examined' /\ Asked' /\ Unpack!Members' = Unpack!Members
    BY <1>1, <2>1, ExaminedStays
  <2>7. Unpack!TypeOK'
    BY <2>1, <2>6 DEF UnpackInv, Unpack!TypeOK
  <2> QED BY <1>1, <2>1, <2>5, <2>6, <2>7 DEF UnpackInv, ArchiveRead
<1> QED BY <1>4, <1>5

\* What was staged is published only when archive, destination and stage are confirmed.
LEMMA PublishingTreeKeeps ==
  ASSUME UnpackSetting, UnpackInv, Unpack!Confirm \/ Unpack!CheckPublish \/ Unpack!RenameStage \/ Unpack!SyncParent
  PROVE  UnpackInv'
<1>1. unpackAt \in {"confirm", "publish", "rename", "renamed"} /\ Asked
  BY DEF Unpack!Confirm, Unpack!CheckPublish, Unpack!RenameStage, Unpack!SyncParent, UnpackInv
<1>2. CASE Unpack!FailUnpack /\ unpackAt # "renamed"
  BY <1>1, <1>2, UnpackFails
<1>3. UNCHANGED Unpack!request => (Examined <=> Examined') \/ nodes' # nodes
  BY ExaminedStays
<1>4. CASE Unpack!Confirm /\ ~Unpack!FailUnpack
  <2>1. /\ unpackAt = "confirm" /\ Unpack!HashMatches /\ unpackAt' = "publish"
        /\ UNCHANGED <<Unpack!request, archiveFile, archivePath, parentDir, nodes, stageDir, staged,
                       destinationDir, unpackResult, nextMember>>
    BY <1>4 DEF Unpack!Confirm, Unpack!IfSo, Unpack!StillTheArchive, Unpack!StepTo, Unpack!UnpackGoesTo, Unpack!disk
  <2>2. Examined /\ AllStaged /\ AllAsPinned /\ destinationDir # "ours" /\ unpackResult = "none"
    BY <2>1 DEF UnpackInv, ArchiveRead
  <2>3. Examined' /\ AllStaged' /\ AllAsPinned' /\ Asked' /\ Unpack!Members' = Unpack!Members
    BY <1>1, <2>1, <2>2, ExaminedStays, StagedStays
  <2>4. Unpack!TypeOK'
    BY <2>1, <2>3 DEF UnpackInv, Unpack!TypeOK
  <2> QED BY <2>1, <2>2, <2>3, <2>4 DEF UnpackInv, ArchiveRead
<1>5. CASE Unpack!CheckPublish /\ ~Unpack!FailUnpack
  <2>1. /\ unpackAt = "publish" /\ Unpack!StageIsOurs /\ unpackAt' = "rename"
        /\ UNCHANGED <<Unpack!request, archiveFile, archivePath, parentDir, nodes, stageDir, staged,
                       destinationDir, unpackResult, nextMember>>
    BY <1>5 DEF Unpack!CheckPublish, Unpack!IfSo, Unpack!StepTo, Unpack!UnpackGoesTo, Unpack!disk
  <2>2. Examined /\ AllStaged /\ AllAsPinned /\ destinationDir # "ours" /\ unpackResult = "none"
    BY <2>1 DEF UnpackInv, ArchiveRead
  <2>3. Examined' /\ AllStaged' /\ AllAsPinned' /\ Asked' /\ Unpack!Members' = Unpack!Members /\ Unpack!StageIsOurs'
    BY <1>1, <2>1, <2>2, ExaminedStays, StagedStays DEF Unpack!StageIsOurs, Unpack!OursAtPath
  <2>4. Unpack!TypeOK'
    BY <2>1, <2>3 DEF UnpackInv, Unpack!TypeOK
  <2> QED BY <2>1, <2>2, <2>3, <2>4 DEF UnpackInv, ArchiveRead
<1>6. CASE Unpack!RenameStage /\ ~Unpack!FailUnpack
  <2>1. unpackAt = "rename" /\ Unpack!StageIsOurs /\ Examined /\ AllStaged /\ AllAsPinned /\ unpackResult = "none"
    BY <1>6 DEF Unpack!RenameStage, UnpackInv, ArchiveRead
  <2>2. /\ unpackAt' = "renamed" /\ destinationDir' = "ours" /\ stageDir' = "none"
        /\ UNCHANGED <<Unpack!request, archiveFile, archivePath, parentDir, nodes, staged, unpackResult, nextMember>>
    BY <1>6, <2>1 DEF Unpack!RenameStage, Unpack!StageIsOurs, Unpack!OursAtPath, Unpack!UnpackGoesTo, Unpack!disk
  <2>3. Examined' /\ AllStaged' /\ AllAsPinned' /\ Asked' /\ Unpack!Members' = Unpack!Members
    BY <1>1, <2>1, <2>2, ExaminedStays, StagedStays
  <2>4. Unpack!TypeOK'
    BY <2>2, <2>3 DEF UnpackInv, Unpack!TypeOK
  <2> QED BY <2>1, <2>2, <2>3, <2>4 DEF UnpackInv, ArchiveRead
<1>7. CASE Unpack!SyncParent
  <2>1. /\ unpackAt = "renamed" /\ unpackAt' = "ended" /\ unpackResult' \in {"done", "failed"}
        /\ UNCHANGED <<Unpack!request, archiveFile, archivePath, parentDir, nodes, stageDir, staged,
                       destinationDir, nextMember>>
    BY <1>7 DEF Unpack!SyncParent, Unpack!UnpackGoesTo, Unpack!disk
  <2>2. Examined /\ AllStaged /\ AllAsPinned /\ destinationDir = "ours" /\ stageDir # "ours"
    BY <2>1 DEF UnpackInv
  <2>3. Examined' /\ AllStaged' /\ AllAsPinned' /\ Asked' /\ Unpack!Members' = Unpack!Members
    BY <1>1, <2>1, <2>2, ExaminedStays, StagedStays
  <2>4. Unpack!TypeOK'
    BY <2>1, <2>3 DEF UnpackInv, Unpack!TypeOK
  <2> QED BY <2>1, <2>2, <2>3, <2>4 DEF UnpackInv, ArchiveRead
<1> QED BY <1>2, <1>4, <1>5, <1>6, <1>7 DEF Unpack!Confirm, Unpack!CheckPublish, Unpack!RenameStage

\* What others do to archive, stage and destination, and a kill, leave what was read.
LEMMA OthersKeepTree == ASSUME UnpackInv, Unpack!Others \/ UNCHANGED unpackVars PROVE UnpackInv'
<1> DEFINE Disturbed ==
             /\ unpackAt' = unpackAt /\ unpackResult' = unpackResult /\ (Unpack!HashMatches' => Unpack!HashMatches)
             /\ archiveFile' \in {"pinned", "rewritten"} /\ archivePath' \in BOOLEAN
             /\ destinationDir' = destinationDir \/ (destinationDir = "free" /\ destinationDir' = "foreign")
             /\ stageDir' = stageDir \/ (stageDir = "ours" /\ stageDir' = "swapped")
             /\ parentDir' \in {"same", "swapped"}
             /\ unpackAt \notin {"unpack", "confirm", "publish"} => stageDir' = stageDir /\ parentDir' = parentDir
           Killed ==
             /\ unpackAt # "ended" /\ unpackAt' = "ended" /\ unpackResult' = "killed"
             /\ UNCHANGED <<archiveFile, archivePath, destinationDir, stageDir, parentDir>>
<1>1. UNCHANGED <<Unpack!request, nextMember, nodes, staged>>
  BY DEF Unpack!Others, Unpack!RewriteArchive, Unpack!ReplaceArchive, Unpack!Occupy, Unpack!SwapStage, Unpack!SwapParent,
     Unpack!Kill, Unpack!Undisturbed, Unpack!disk, Unpack!UnpackGoesTo,
         unpackVars, Unpack!request
<1>0. Disturbed \/ Killed
  <2>1. archiveFile \in {"pinned", "rewritten"} /\ archivePath \in BOOLEAN /\ parentDir \in {"same", "swapped"}
    BY DEF UnpackInv, Unpack!TypeOK
  <2>2. CASE Unpack!RewriteArchive
    BY <2>1, <2>2 DEF Unpack!RewriteArchive, Unpack!Undisturbed, Unpack!HashMatches
  <2>3. CASE Unpack!ReplaceArchive
    BY <2>1, <2>3 DEF Unpack!ReplaceArchive, Unpack!Undisturbed, Unpack!HashMatches
  <2>4. CASE Unpack!Occupy
    BY <2>1, <2>4 DEF Unpack!Occupy, Unpack!Undisturbed, Unpack!HashMatches, Unpack!disk
  <2>5. CASE Unpack!SwapStage
    BY <2>1, <2>5 DEF Unpack!SwapStage, Unpack!Undisturbed, Unpack!HashMatches, Unpack!disk
  <2>6. CASE Unpack!SwapParent
    BY <2>1, <2>6 DEF Unpack!SwapParent, Unpack!Undisturbed, Unpack!HashMatches
  <2>7. CASE Unpack!Kill
    BY <2>7 DEF Unpack!Kill, Unpack!UnpackGoesTo, Unpack!disk
  <2>8. CASE UNCHANGED unpackVars
    BY <2>1, <2>8 DEF unpackVars, Unpack!HashMatches
  <2> QED BY <2>2, <2>3, <2>4, <2>5, <2>6, <2>7, <2>8 DEF Unpack!Others
<1>2. /\ Unpack!Members' = Unpack!Members /\ (Asked <=> Asked') /\ (Examined <=> Examined')
         /\ (Unpack!SelectionsHold <=> Unpack!SelectionsHold')
      /\ (AllStaged <=> AllStaged') /\ (AllAsPinned <=> AllAsPinned')
  BY <1>1, ExaminedStays, StagedStays
<1>3. ExaminedSoFar => ExaminedSoFar'
  BY <1>1, ExaminedStays DEF ExaminedSoFar
<1>4. StagedSoFar => StagedSoFar'
  BY <1>1, StagedStays DEF StagedSoFar
<1>5. CASE Disturbed
  <2>1. Unpack!TypeOK'
    BY <1>1, <1>2, <1>5 DEF UnpackInv, Unpack!TypeOK
  <2>2. unpackAt = "rename" => Unpack!StageIsOurs'
    BY <1>5 DEF UnpackInv, Unpack!StageIsOurs, Unpack!OursAtPath
  <2>3. /\ unpackAt' = unpackAt /\ unpackResult' = unpackResult /\ nextMember' = nextMember
        /\ nodes' = nodes /\ staged' = staged
        /\ (destinationDir' = "ours") <=> (destinationDir = "ours")
        /\ stageDir' = "ours" => stageDir = "ours"
        /\ stageDir = "none" => stageDir' = "none"
        /\ unpackAt = "ended" => parentDir' = parentDir
        /\ Unpack!HashMatches' => Unpack!HashMatches
    BY <1>1, <1>5
  <2> HIDE DEF Disturbed
  <2> QED BY <1>2, <1>3, <1>4, <2>1, <2>2, <2>3 DEF UnpackInv, ArchiveRead
<1>6. CASE Killed
  <2>1. Unpack!TypeOK'
    BY <1>1, <1>2, <1>6 DEF UnpackInv, Unpack!TypeOK
  <2> QED BY <1>1, <1>2, <1>6, <2>1 DEF UnpackInv, ArchiveRead
<1> QED BY <1>0, <1>5, <1>6

\* Every step keeps the invariant.
LEMMA UnpackKeeps == ASSUME UnpackSetting, UnpackInv, [Unpack!Next]_unpackVars PROVE UnpackInv'
BY ExaminingKeeps, StageKeeps, UnpackingKeeps, PublishingTreeKeeps, OthersKeepTree, UnpackFails
   DEF Unpack!Next, Unpack!Unpacking, Unpack!FailsAnywhere

\* What lies at the destination as ours is the pinned archive.
LEMMA UnpackInvIsPinned == ASSUME UnpackSetting, UnpackInv PROVE Unpack!TypeOK /\ Unpack!TreeIsThePinnedArchive
<1>1. CASE destinationDir = "ours"
  <2>1. Asked /\ Examined /\ StagedOK(Len(Unpack!Members)) /\ \A f \in staged : f.true
    BY <1>1 DEF UnpackInv, AllStaged, AllAsPinned
  <2> QED BY <1>1, <2>1, StagedIsTheArchive DEF UnpackInv, Unpack!TreeIsThePinnedArchive
<1>2. CASE destinationDir # "ours"
  BY <1>2 DEF UnpackInv, Unpack!TreeIsThePinnedArchive
<1> QED BY <1>1, <1>2 DEF UnpackInv

-----------------------------------------------------------------------------
(* The pinned tools.  Everything the verification remembers (memo,         *)
(* check.info, check.began) is no younger than the clock, and every change *)
(* of a file moves its ctime past the clock.  So a file that still looks   *)
(* as remembered was not changed since, and one whose ctime is at most     *)
(* check.began was not changed since the verification began.               *)

\* A tool has files, and something may change.
SidecarSetting ==
  /\ PinnedFiles \in Seq(Sidecar!Pinned) /\ PinnedFiles # <<>>
  /\ MaxPinChanges \in Nat \ {0} /\ MaxChecks \in Nat

FileStates == [inode : Sidecar!Times, mtime : Sidecar!Times, ctime : Sidecar!Times, pinned : BOOLEAN, held : BOOLEAN]
Checks == [at : {"idle", "list", "look", "open", "reading", "listLast", "look2", "removing", "refused"},
           goal : {"none", "clear", "launch"}, began : Sidecar!Times, next : 1..(Len(PinnedFiles) + 1),
           info : Sidecar!Snapshots, good : BOOLEAN, reads : 0..Sidecar!MaxReads]

OnFile == {"look", "open", "reading", "look2", "removing"}
Hashing == {"look", "open", "reading", "listLast"}

\* Nothing that was read or remembered is younger than the clock.
ClockOK(fs, m, c, clock) ==
  /\ \A f \in Sidecar!Pinned : fs[f].ctime \in 1..clock /\ m[f].ctime <= clock
  /\ c.info.ctime <= clock /\ c.began <= clock

\* A file that still looks as it did is the one that was hashed.
TrustOK(fs, m, c) ==
  /\ \A f \in Sidecar!Pinned : m[f] = Sidecar!Snapshot(fs[f]) => fs[f].pinned
  /\ c.at = "reading" /\ c.good /\ c.info = Sidecar!Snapshot(fs[PinnedFiles[c.next]]) => fs[PinnedFiles[c.next]].pinned
  /\ c.at = "removing" /\ c.info = Sidecar!Snapshot(fs[PinnedFiles[c.next]]) => fs[PinnedFiles[c.next]].pinned

Untouched(fs, f, c) == fs[f].ctime <= c.began => fs[f].pinned

\* What the running verification has already found.
FoundOK(fs, c) ==
  /\ c.at \in Hashing => \A i \in 1..(c.next - 1) : Untouched(fs, PinnedFiles[i], c)
  /\ c.at = "list" => c.next = 1
  /\ c.at \in {"list", "look"} => c.reads = 0
  /\ c.at = "open" => c.reads < Sidecar!MaxReads
  /\ c.at = "listLast" => c.next = Len(PinnedFiles) + 1
  /\ c.at \in OnFile => c.next <= Len(PinnedFiles)
  /\ c.at = "removing" => ~overridden

NoStray(s, c) == s = 0 \/ s > c.began

SidecarInv ==
  /\ Sidecar!TypeOK
  /\ ClockOK(files, memo, check, pinClock)
  /\ TrustOK(files, memo, check)
  /\ FoundOK(files, check)
  /\ listFirst /\ check.at \in Hashing => NoStray(strayAt, check)
  /\ strayAt <= pinClock
  /\ launched => /\ check.at = "idle" /\ NoStray(strayAt, check)
                 /\ \A f \in Sidecar!Pinned : Untouched(files, f, check)

LEMMA FileOf ==
  ASSUME SidecarSetting
  PROVE  /\ Len(PinnedFiles) \in Nat \ {0}
         /\ \A i \in 1..Len(PinnedFiles) : PinnedFiles[i] \in Sidecar!Pinned
         /\ \A f \in Sidecar!Pinned : \E i \in 1..Len(PinnedFiles) : f = PinnedFiles[i]
BY DEF SidecarSetting, Sidecar!Pinned

LEMMA SidecarShape ==
  ASSUME SidecarSetting, SidecarInv
  PROVE  /\ files \in [Sidecar!Pinned -> FileStates] /\ memo \in [Sidecar!Pinned -> Sidecar!Snapshots] /\ check \in Checks
         /\ \A f \in Sidecar!Pinned : files[f] \in FileStates /\ Sidecar!Snapshot(files[f]) \in Sidecar!Snapshots
         /\ strayAt \in Sidecar!Times /\ pinClock \in Sidecar!Times /\ checksLeft \in 0..MaxChecks
         /\ check.at \in OnFile => Sidecar!Current \in Sidecar!Pinned
<1>1. /\ files \in [Sidecar!Pinned -> FileStates] /\ memo \in [Sidecar!Pinned -> Sidecar!Snapshots] /\ check \in Checks
      /\ strayAt \in Sidecar!Times /\ pinClock \in Sidecar!Times /\ checksLeft \in 0..MaxChecks
  BY DEF SidecarInv, Sidecar!TypeOK, FileStates, Checks
<1>2. \A f \in Sidecar!Pinned : files[f] \in FileStates /\ Sidecar!Snapshot(files[f]) \in Sidecar!Snapshots
  BY <1>1 DEF FileStates, Sidecar!Snapshot, Sidecar!Snapshots
<1>3. check.at \in OnFile => check.next \in 1..Len(PinnedFiles)
  BY <1>1, FileOf DEF SidecarInv, FoundOK, Checks
<1> QED BY <1>1, <1>2, <1>3, FileOf DEF Sidecar!Current

\* The times are numbers, and none is past the clock.
LEMMA SidecarClocks ==
  ASSUME SidecarSetting, SidecarInv
  PROVE  /\ pinClock \in Nat /\ strayAt \in Nat /\ strayAt <= pinClock
         /\ \A g \in Sidecar!Pinned : /\ memo[g].ctime \in Nat /\ memo[g].ctime <= pinClock
                             /\ files[g].ctime \in 1..pinClock
                             /\ Sidecar!Snapshot(files[g]).ctime = files[g].ctime
         /\ check.info.ctime \in Nat /\ check.info.ctime <= pinClock
         /\ check.began \in Nat /\ check.began <= pinClock
<1>1. Sidecar!Times \subseteq Nat
  BY DEF Sidecar!Times, SidecarSetting
<1>2. /\ files \in [Sidecar!Pinned -> FileStates] /\ memo \in [Sidecar!Pinned -> Sidecar!Snapshots] /\ check \in Checks
      /\ strayAt \in Sidecar!Times /\ pinClock \in Sidecar!Times
  BY SidecarShape
<1>3. \A g \in Sidecar!Pinned : memo[g] \in Sidecar!Snapshots
  BY <1>2
<1>4. \A g \in Sidecar!Pinned : memo[g].ctime \in Sidecar!Times
  BY <1>3 DEF Sidecar!Snapshots
<1>5. check.info \in Sidecar!Snapshots /\ check.began \in Sidecar!Times
  BY <1>2 DEF Checks
<1>6. check.info.ctime \in Sidecar!Times
  BY <1>5 DEF Sidecar!Snapshots
<1> QED BY <1>1, <1>2, <1>4, <1>5, <1>6 DEF SidecarInv, ClockOK, Sidecar!Snapshot

-----------------------------------------------------------------------------
(* What happens outside.                                                   *)

\* A file that changed is younger than anything that was remembered.
LEMMA ChangedKeeps ==
  ASSUME SidecarSetting, NEW f \in Sidecar!Pinned, NEW file \in FileStates, SidecarInv, Sidecar!Changed(f, file),
         file.ctime = pinClock + 1
  PROVE  SidecarInv'
<1>1. /\ pinClock' = pinClock + 1 /\ pinClock + 1 \in Sidecar!Times /\ files'[f] = file
      /\ files' \in [Sidecar!Pinned -> FileStates] /\ \A g \in Sidecar!Pinned \ {f} : files'[g] = files[g]
      /\ UNCHANGED <<strayAt, memo, overridden, listFirst, check, checksLeft, launched>>
  BY SidecarShape DEF Sidecar!Changed, Sidecar!Times, SidecarSetting
<1>2. pinClock \in Nat /\ check \in Checks /\ memo \in [Sidecar!Pinned -> Sidecar!Snapshots]
  BY SidecarShape DEF Sidecar!Times, SidecarSetting
<1>3. \A g \in Sidecar!Pinned : memo[g].ctime \in Nat /\ files[g].ctime \in Nat
  BY SidecarClocks
<1>4. check.info.ctime \in Nat /\ check.began \in Nat
  BY SidecarClocks
<1>5. ClockOK(files, memo, check, pinClock)'
  BY <1>1, <1>2, <1>3, <1>4 DEF SidecarInv, ClockOK
<1>6. Sidecar!Snapshot(file).ctime = pinClock + 1
  BY DEF Sidecar!Snapshot
<1>7. memo[f] # Sidecar!Snapshot(file) /\ check.info # Sidecar!Snapshot(file) /\ ~(file.ctime <= check.began)
  BY <1>2, <1>3, <1>4, <1>6 DEF SidecarInv, ClockOK
<1>8. check.at \in OnFile => Sidecar!Current \in Sidecar!Pinned
  BY SidecarShape
<1>9. TrustOK(files, memo, check)'
  BY <1>1, <1>7, <1>8 DEF SidecarInv, TrustOK, OnFile, Sidecar!Current, Sidecar!Snapshot
<1>10. \A g \in Sidecar!Pinned : Untouched(files, g, check) => Untouched(files, g, check)'
  BY <1>1, <1>7 DEF Untouched
<1>11. check.at \in Hashing => \A i \in 1..(check.next - 1) : PinnedFiles[i] \in Sidecar!Pinned
  BY <1>2, FileOf DEF Checks
<1>12. FoundOK(files, check)'
  BY <1>1, <1>10, <1>11 DEF SidecarInv, FoundOK, Untouched
<1>13. Sidecar!TypeOK'
  BY <1>1 DEF SidecarInv, Sidecar!TypeOK, FileStates
<1>14. (strayAt <= pinClock)'
  BY <1>1, <1>2, SidecarShape DEF SidecarInv, Sidecar!Times, SidecarSetting
<1> QED BY <1>1, <1>5, <1>9, <1>10, <1>12, <1>13, <1>14 DEF SidecarInv, NoStray

LEMMA OutsideKeeps ==
  ASSUME SidecarSetting, SidecarInv, Sidecar!Outside
  PROVE  SidecarInv'
<1>0. pinClock \in Nat
  BY SidecarShape DEF Sidecar!Times, SidecarSetting
<1>1. ASSUME NEW f \in Sidecar!Pinned, Sidecar!Edited(f) PROVE SidecarInv'
  <2>1. PICK setBack \in BOOLEAN :
           Sidecar!Changed(f, [files[f] EXCEPT !.pinned = ~files[f].pinned, !.ctime = pinClock + 1,
                                       !.mtime = IF setBack THEN files[f].mtime ELSE pinClock + 1])
    BY <1>1 DEF Sidecar!Edited
  <2> DEFINE file == [files[f] EXCEPT !.pinned = ~files[f].pinned, !.ctime = pinClock + 1,
                                      !.mtime = IF setBack THEN files[f].mtime ELSE pinClock + 1]
  <2>2. pinClock + 1 \in Sidecar!Times
    BY <1>0, <2>1 DEF Sidecar!Changed, Sidecar!Times, SidecarSetting
  <2>3. file \in FileStates /\ file.ctime = pinClock + 1
    BY <2>2, SidecarShape DEF FileStates
  <2>4. Sidecar!Changed(f, file)
    BY <2>1
  <2> HIDE DEF file
  <2> QED BY <2>3, <2>4, ChangedKeeps
<1>2. ASSUME NEW f \in Sidecar!Pinned, Sidecar!Replaced(f) PROVE SidecarInv'
  <2>1. PICK setBack \in BOOLEAN :
           Sidecar!Changed(f, [inode |-> pinClock + 1, ctime |-> pinClock + 1, pinned |-> ~files[f].pinned, held |-> TRUE,
                       mtime |-> IF setBack THEN files[f].mtime ELSE pinClock + 1])
    BY <1>2 DEF Sidecar!Replaced
  <2> DEFINE file == [inode |-> pinClock + 1, ctime |-> pinClock + 1, pinned |-> ~files[f].pinned, held |-> TRUE,
                      mtime |-> IF setBack THEN files[f].mtime ELSE pinClock + 1]
  <2>2. pinClock + 1 \in Sidecar!Times
    BY <1>0, <2>1 DEF Sidecar!Changed, Sidecar!Times, SidecarSetting
  <2>3. file \in FileStates /\ file.ctime = pinClock + 1
    BY <2>2, SidecarShape DEF FileStates
  <2>4. Sidecar!Changed(f, file)
    BY <2>1
  <2> HIDE DEF file
  <2> QED BY <2>3, <2>4, ChangedKeeps
<1>3. ASSUME NEW f \in Sidecar!Pinned, Sidecar!Synced(f) PROVE SidecarInv'
  <2> DEFINE file == [files[f] EXCEPT !.ctime = pinClock + 1]
  <2>1. Sidecar!Changed(f, file)
    BY <1>3 DEF Sidecar!Synced
  <2>2. pinClock + 1 \in Sidecar!Times
    BY <1>0, <2>1 DEF Sidecar!Changed, Sidecar!Times, SidecarSetting
  <2>3. file \in FileStates /\ file.ctime = pinClock + 1
    BY <2>2, SidecarShape DEF FileStates
  <2> HIDE DEF file
  <2> QED BY <2>1, <2>3, ChangedKeeps
<1>4. CASE Sidecar!Strayed
  <2>1. /\ pinClock' = pinClock + 1 /\ pinClock + 1 \in Sidecar!Times /\ strayAt' \in {0, pinClock + 1}
        /\ UNCHANGED <<files, memo, overridden, listFirst, check, checksLeft, launched>>
    BY <1>0, <1>4 DEF Sidecar!Strayed, Sidecar!Times, SidecarSetting
  <2>2. check.began \in Nat /\ check.info.ctime \in Nat /\ check.began <= pinClock /\ check.info.ctime <= pinClock
    BY SidecarClocks
  <2>3. NoStray(strayAt, check)'
    BY <1>0, <2>1, <2>2 DEF NoStray
  <2>4. \A g \in Sidecar!Pinned : memo[g].ctime \in Nat /\ files[g].ctime \in Nat
    BY SidecarClocks
  <2>5. ClockOK(files, memo, check, pinClock)'
    BY <1>0, <2>1, <2>2, <2>4 DEF SidecarInv, ClockOK
  <2>6. Sidecar!TypeOK' /\ (strayAt <= pinClock)'
    <3>1. pinClock \in Sidecar!Times /\ pinClock' \in Sidecar!Times /\ strayAt' \in Sidecar!Times
      BY <2>1, SidecarShape DEF Sidecar!Times, SidecarSetting
    <3>2. strayAt' <= pinClock'
      BY <2>1, <3>1 DEF Sidecar!Times, SidecarSetting
    <3>3. Sidecar!TypeOK
      BY DEF SidecarInv
    <3>4. Sidecar!TypeOK'
      BY <2>1, <3>1, <3>3 DEF Sidecar!TypeOK
    <3> QED BY <3>2, <3>4
  <2> QED BY <2>1, <2>3, <2>5, <2>6 DEF SidecarInv, TrustOK, FoundOK, Untouched
<1> QED BY <1>1, <1>2, <1>3, <1>4 DEF Sidecar!Outside

-----------------------------------------------------------------------------
(* The verification.                                                       *)

\* A step that leaves the files alone, from what the check and the memory are
\* after it.
LEMMA CheckingKeeps ==
  ASSUME SidecarSetting, SidecarInv, NEW c \in Checks, NEW m \in [Sidecar!Pinned -> Sidecar!Snapshots], check.at # "idle",
         check' = c, memo' = m, Sidecar!Checking,
         c.began = 0 \/ c.began = check.began,
         c.info.ctime <= pinClock,
         \A f \in Sidecar!Pinned : m[f].ctime <= pinClock,
         TrustOK(files, m, c), FoundOK(files, c),
         listFirst /\ c.at \in Hashing => NoStray(strayAt, c)
  PROVE  SidecarInv'
<1>1. UNCHANGED <<files, strayAt, pinClock, overridden, listFirst, checksLeft, launched>>
  BY DEF Sidecar!Checking
<1>2. ~launched
  BY DEF SidecarInv
<1>3. Sidecar!TypeOK'
  BY <1>1 DEF SidecarInv, Sidecar!TypeOK, Checks
<1>4. ClockOK(files, memo, check, pinClock)'
  BY <1>1, SidecarClocks DEF ClockOK
<1>5. TrustOK(files, memo, check)'
  BY <1>1 DEF TrustOK
<1>6. FoundOK(files, check)'
  BY <1>1 DEF FoundOK, Untouched
<1>7. (listFirst /\ check.at \in Hashing => NoStray(strayAt, check))' /\ (strayAt <= pinClock)'
  BY <1>1 DEF SidecarInv, NoStray
<1> QED BY <1>1, <1>2, <1>3, <1>4, <1>5, <1>6, <1>7 DEF SidecarInv

\* What the records a check is set to are.
LEMMA CheckRecords ==
  ASSUME SidecarSetting, SidecarInv
  PROVE  /\ Sidecar!Forgotten \in Sidecar!Snapshots /\ Sidecar!Forgotten.ctime = 0 /\ Sidecar!NoCheck \in Checks
         /\ check.info \in Sidecar!Snapshots /\ check.next \in 1..(Len(PinnedFiles) + 1)
         /\ check.goal \in {"none", "clear", "launch"} /\ check.began \in Sidecar!Times /\ check.reads \in 0..Sidecar!MaxReads
<1>1. 0 \in Sidecar!Times
  BY DEF Sidecar!Times, SidecarSetting
<1>2. Sidecar!Forgotten \in Sidecar!Snapshots /\ Sidecar!Forgotten.ctime = 0
  BY <1>1 DEF Sidecar!Forgotten, Sidecar!Snapshots
<1>3. Sidecar!NoCheck \in Checks
  BY <1>1, <1>2, FileOf DEF Sidecar!NoCheck, Checks, Sidecar!MaxReads
<1> QED BY <1>2, <1>3, SidecarShape DEF Checks

\* A verification that refuses remembers nothing.
LEMMA RefuseKeeps ==
  ASSUME SidecarSetting, SidecarInv, Sidecar!Refuse, UNCHANGED memo, Sidecar!Checking, check.at # "idle"
  PROVE  SidecarInv'
<1> DEFINE c == [Sidecar!NoCheck EXCEPT !.at = "refused", !.goal = check.goal]
<1>1. c \in Checks /\ c.at = "refused" /\ c.began = 0 /\ c.info.ctime = 0
  BY CheckRecords DEF Checks, Sidecar!NoCheck
<1>2. check' = c /\ memo' = memo
  BY DEF Sidecar!Refuse
<1> HIDE DEF c
<1>3. TrustOK(files, memo, c)
  BY <1>1 DEF SidecarInv, TrustOK
<1>4. FoundOK(files, c) /\ c.at \notin Hashing
  BY <1>1 DEF FoundOK, Hashing, OnFile
<1>5. \A f \in Sidecar!Pinned : memo[f].ctime <= pinClock
  BY SidecarClocks
<1> QED BY <1>1, <1>2, <1>3, <1>4, <1>5, CheckingKeeps, SidecarShape, SidecarClocks

\* The hashed file is pinned, or was changed after the verification began.
LEMMA NextFileKeeps ==
  ASSUME SidecarSetting, SidecarInv, NEW m \in [Sidecar!Pinned -> Sidecar!Snapshots], memo' = m, Sidecar!Checking,
         Sidecar!NextFile(check.next + 1),
         check.at \in {"look", "reading"}, files[Sidecar!Current].pinned,
         \A f \in Sidecar!Pinned : m[f].ctime <= pinClock /\ (m[f] = Sidecar!Snapshot(files[f]) => files[f].pinned)
  PROVE  SidecarInv'
<1> DEFINE c == [check EXCEPT !.at = IF check.next + 1 <= Len(PinnedFiles) THEN "look" ELSE "listLast",
                              !.next = check.next + 1, !.info = Sidecar!Forgotten, !.good = FALSE, !.reads = 0]
<1>1. check.next \in 1..Len(PinnedFiles) /\ Len(PinnedFiles) \in Nat
  BY FileOf, CheckRecords DEF SidecarInv, FoundOK, OnFile
<1>2. c \in Checks
  <2>1. check.next + 1 \in 1..(Len(PinnedFiles) + 1) /\ 0 \in 0..Sidecar!MaxReads
    BY <1>1 DEF Sidecar!MaxReads
  <2> QED BY <2>1, SidecarShape, CheckRecords DEF Checks
<1>3. /\ c.at = IF check.next + 1 <= Len(PinnedFiles) THEN "look" ELSE "listLast"
      /\ c.next = check.next + 1 /\ c.info = Sidecar!Forgotten /\ c.began = check.began /\ ~c.good /\ c.reads = 0
  BY SidecarShape DEF Checks
<1>4. check' = c
  BY DEF Sidecar!NextFile, Sidecar!Step
<1> HIDE DEF c
<1>5. TrustOK(files, m, c)
  BY <1>3 DEF TrustOK
<1>6. check.at \in Hashing /\ Sidecar!Current = PinnedFiles[check.next]
  BY DEF Hashing, Sidecar!Current
<1>7. \A i \in 1..(check.next - 1) : Untouched(files, PinnedFiles[i], check)
  BY <1>6 DEF SidecarInv, FoundOK
<1>8. \A i \in 1..(c.next - 1) : Untouched(files, PinnedFiles[i], c)
  BY <1>1, <1>3, <1>6, <1>7 DEF Untouched
<1>9. FoundOK(files, c)
  BY <1>1, <1>3, <1>8, FileOf DEF FoundOK, OnFile, Hashing
<1>10. listFirst => NoStray(strayAt, c)
  BY <1>3, <1>6 DEF SidecarInv, NoStray
<1> QED BY <1>2, <1>3, <1>4, <1>5, <1>9, <1>10, CheckingKeeps, CheckRecords, SidecarClocks

LEMMA FirstListKeeps ==
  ASSUME SidecarSetting, SidecarInv, Sidecar!List
  PROVE  SidecarInv'
<1>1. check.at = "list" /\ UNCHANGED memo /\ Sidecar!Checking
  BY DEF Sidecar!List
<1>2. CASE strayAt # 0
  BY <1>1, <1>2, RefuseKeeps DEF Sidecar!List
<1>3. CASE strayAt = 0
  <2> DEFINE c == [check EXCEPT !.at = "look"]
  <2>1. c \in Checks /\ c.at = "look" /\ c.next = check.next /\ c.info = check.info /\ c.began = check.began
        /\ c.reads = check.reads
    BY SidecarShape DEF Checks
  <2>2. check' = c /\ memo' = memo
    BY <1>1, <1>3 DEF Sidecar!List, Sidecar!Step
  <2> HIDE DEF c
  <2>3. c.next = 1 /\ c.reads = 0
    BY <1>1, <2>1 DEF SidecarInv, FoundOK
  <2>4. TrustOK(files, memo, c)
    BY <2>1 DEF SidecarInv, TrustOK
  <2>5. FoundOK(files, c)
    BY <2>1, <2>3, FileOf DEF FoundOK, OnFile, Hashing
  <2>6. NoStray(strayAt, c)
    BY <1>3 DEF NoStray
  <2>7. \A f \in Sidecar!Pinned : memo[f].ctime <= pinClock
    BY SidecarClocks
  <2> QED BY <1>1, <2>1, <2>2, <2>4, <2>5, <2>6, <2>7, CheckingKeeps, SidecarShape, SidecarClocks
<1> QED BY <1>2, <1>3

LEMMA LookKeeps ==
  ASSUME SidecarSetting, SidecarInv, Sidecar!Look
  PROVE  SidecarInv'
<1>1. check.at = "look" /\ Sidecar!Checking /\ Sidecar!Current \in Sidecar!Pinned
  BY SidecarShape DEF Sidecar!Look, OnFile
<1>2. CASE Sidecar!PinnedContentCurrent(Sidecar!Current)
  <2>1. files[Sidecar!Current].pinned
    BY <1>1, <1>2 DEF SidecarInv, TrustOK, Sidecar!PinnedContentCurrent
  <2>2. Sidecar!NextFile(check.next + 1) /\ memo' = memo
    BY <1>2 DEF Sidecar!Look
  <2>3. \A f \in Sidecar!Pinned : memo[f].ctime <= pinClock /\ (memo[f] = Sidecar!Snapshot(files[f]) => files[f].pinned)
    BY SidecarClocks DEF SidecarInv, TrustOK
  <2> QED BY <1>1, <2>1, <2>2, <2>3, NextFileKeeps, SidecarShape
<1>3. CASE ~Sidecar!PinnedContentCurrent(Sidecar!Current)
  <2> DEFINE c == [check EXCEPT !.at = "open", !.info = Sidecar!Snapshot(files[Sidecar!Current])]
  <2> DEFINE m == [memo EXCEPT ![Sidecar!Current] = Sidecar!Forgotten]
  <2>1. check' = c /\ memo' = m
    BY <1>3 DEF Sidecar!Look, Sidecar!Step
  <2>2. /\ c \in Checks /\ c.at = "open" /\ c.next = check.next /\ c.began = check.began
        /\ c.info = Sidecar!Snapshot(files[Sidecar!Current]) /\ c.reads = check.reads
    BY <1>1, SidecarShape DEF Checks
  <2>3. m \in [Sidecar!Pinned -> Sidecar!Snapshots] /\ \A f \in Sidecar!Pinned : m[f] = Sidecar!Forgotten
        \/ m[f] = memo[f]
    BY SidecarShape, CheckRecords
  <2> HIDE DEF c, m
  <2>4. \A f \in Sidecar!Pinned : m[f].ctime <= pinClock /\ (m[f] = Sidecar!Snapshot(files[f]) => files[f].pinned)
    BY <2>3, CheckRecords, SidecarClocks DEF SidecarInv, TrustOK
  <2>5. TrustOK(files, m, c)
    BY <2>2, <2>4 DEF TrustOK
  <2>6. FoundOK(files, c)
    BY <1>1, <2>2 DEF SidecarInv, FoundOK, OnFile, Hashing, Untouched, Sidecar!MaxReads
  <2>7. listFirst => NoStray(strayAt, c)
    BY <1>1, <2>2 DEF SidecarInv, NoStray, Hashing
  <2>8. c.info.ctime <= pinClock
    BY <1>1, <2>2, SidecarClocks
  <2> QED BY <1>1, <2>1, <2>2, <2>3, <2>4, <2>5, <2>6, <2>7, <2>8, CheckingKeeps
<1> QED BY <1>2, <1>3

LEMMA OpenFileKeeps ==
  ASSUME SidecarSetting, SidecarInv, Sidecar!OpenFile
  PROVE  SidecarInv'
<1>1. check.at = "open" /\ UNCHANGED memo /\ Sidecar!Checking /\ Sidecar!Current \in Sidecar!Pinned
  BY SidecarShape DEF Sidecar!OpenFile, OnFile
<1>2. CASE files[Sidecar!Current].inode # check.info.inode
  BY <1>1, <1>2, RefuseKeeps DEF Sidecar!OpenFile
<1>3. CASE files[Sidecar!Current].inode = check.info.inode
  <2> DEFINE c == [check EXCEPT !.at = "reading", !.good = files[Sidecar!Current].pinned, !.reads = check.reads + 1]
  <2>1. check' = c /\ memo' = memo
    BY <1>1, <1>3 DEF Sidecar!OpenFile, Sidecar!Step
  <2>2. /\ c.at = "reading" /\ c.next = check.next /\ c.began = check.began
        /\ c.info = check.info /\ (c.good <=> files[Sidecar!Current].pinned)
    BY SidecarShape DEF Checks
  <2>3. c \in Checks
    <3>1. check.reads + 1 \in 0..Sidecar!MaxReads
      BY <1>1, CheckRecords DEF SidecarInv, FoundOK, Sidecar!MaxReads
    <3>2. files[Sidecar!Current].pinned \in BOOLEAN
      BY <1>1, SidecarShape DEF FileStates
    <3> QED BY <3>1, <3>2, SidecarShape DEF Checks
  <2> HIDE DEF c
  <2>4. TrustOK(files, memo, c)
    BY <2>2 DEF SidecarInv, TrustOK, Sidecar!Current
  <2>5. FoundOK(files, c)
    BY <1>1, <2>2 DEF SidecarInv, FoundOK, OnFile, Hashing, Untouched
  <2>6. listFirst => NoStray(strayAt, c)
    BY <1>1, <2>2 DEF SidecarInv, NoStray, Hashing
  <2>7. \A f \in Sidecar!Pinned : memo[f].ctime <= pinClock
    BY SidecarClocks
  <2> QED BY <1>1, <2>1, <2>2, <2>3, <2>4, <2>5, <2>6, <2>7, CheckingKeeps, SidecarShape, SidecarClocks
<1> QED BY <1>2, <1>3

LEMMA FinishReadKeeps ==
  ASSUME SidecarSetting, SidecarInv, Sidecar!FinishRead
  PROVE  SidecarInv'
<1> DEFINE now == Sidecar!Snapshot(files[Sidecar!Current])
<1>1. check.at = "reading" /\ Sidecar!Checking /\ Sidecar!Current \in Sidecar!Pinned
      /\ Sidecar!Current = PinnedFiles[check.next]
  BY SidecarShape DEF Sidecar!FinishRead, OnFile, Sidecar!Current
<1>2. ASSUME check.info = now, check.good, memo' = [memo EXCEPT ![Sidecar!Current] = check.info],
      Sidecar!NextFile(check.next + 1)
      PROVE  SidecarInv'
  <2> DEFINE m == [memo EXCEPT ![Sidecar!Current] = check.info]
  <2>1. files[Sidecar!Current].pinned
    BY <1>1, <1>2 DEF SidecarInv, TrustOK
  <2>2. m \in [Sidecar!Pinned -> Sidecar!Snapshots] /\ m[Sidecar!Current] = check.info
        /\ \A f \in Sidecar!Pinned \ {Sidecar!Current} : m[f] = memo[f]
    BY <1>1, SidecarShape, CheckRecords
  <2>3. memo' = m
    BY <1>2
  <2> HIDE DEF m
  <2>4. \A f \in Sidecar!Pinned : m[f].ctime <= pinClock /\ (m[f] = Sidecar!Snapshot(files[f]) => files[f].pinned)
    BY <2>1, <2>2, SidecarClocks DEF SidecarInv, TrustOK
  <2> QED BY <1>1, <1>2, <2>1, <2>2, <2>3, <2>4, NextFileKeeps
<1>3. ASSUME Sidecar!Refuse, UNCHANGED memo PROVE SidecarInv'
  BY <1>1, <1>3, RefuseKeeps
<1>4. ASSUME check.reads < Sidecar!MaxReads, check' = [check EXCEPT !.at = "open", !.info = now], UNCHANGED memo
      PROVE  SidecarInv'
  <2> DEFINE c == [check EXCEPT !.at = "open", !.info = now]
  <2>1. now \in Sidecar!Snapshots /\ now.ctime <= pinClock
    BY <1>1, SidecarShape, SidecarClocks
  <2>2. /\ c \in Checks /\ c.at = "open" /\ c.next = check.next /\ c.began = check.began
        /\ c.info = now /\ c.reads = check.reads
    BY <2>1, SidecarShape DEF Checks
  <2>3. check' = c /\ memo' = memo
    BY <1>4
  <2> HIDE DEF c, now
  <2>4. TrustOK(files, memo, c)
    BY <2>2 DEF SidecarInv, TrustOK
  <2>5. FoundOK(files, c)
    BY <1>1, <1>4, <2>2 DEF SidecarInv, FoundOK, OnFile, Hashing, Untouched
  <2>6. listFirst => NoStray(strayAt, c)
    BY <1>1, <2>2 DEF SidecarInv, NoStray, Hashing
  <2>7. \A f \in Sidecar!Pinned : memo[f].ctime <= pinClock
    BY SidecarClocks
  <2> QED BY <1>1, <2>1, <2>2, <2>3, <2>4, <2>5, <2>6, <2>7, CheckingKeeps, SidecarShape
<1> QED BY <1>2, <1>3, <1>4 DEF Sidecar!FinishRead, Sidecar!Step

\* Every file was found pinned, and the directory without a stray one.
LEMMA ListLastKeeps ==
  ASSUME SidecarSetting, SidecarInv, Sidecar!ListLast
  PROVE  SidecarInv'
<1>1. /\ check.at = "listLast"
      /\ UNCHANGED <<files, strayAt, pinClock, memo, overridden, listFirst, checksLeft>>
  BY DEF Sidecar!ListLast
<1>2. check.next = Len(PinnedFiles) + 1 /\ ~launched /\ check.at \in Hashing
  BY <1>1 DEF SidecarInv, FoundOK, Hashing
<1>3. ASSUME Sidecar!Refuse, UNCHANGED launched PROVE SidecarInv'
  BY <1>1, <1>3, RefuseKeeps DEF Sidecar!Checking
<1>4. ASSUME listFirst \/ strayAt = 0, check' = [Sidecar!NoCheck EXCEPT !.began = check.began], launched' = TRUE
      PROVE  SidecarInv'
  <2> DEFINE c == [Sidecar!NoCheck EXCEPT !.began = check.began]
  <2>1. c \in Checks /\ c.at = "idle" /\ c.began = check.began /\ c.info.ctime = 0 /\ check' = c
    BY <1>4, CheckRecords DEF Checks, Sidecar!NoCheck
  <2> HIDE DEF c
  <2>2. NoStray(strayAt, check)
    BY <1>2, <1>4 DEF SidecarInv, NoStray
  <2>3. \A i \in 1..Len(PinnedFiles) : Untouched(files, PinnedFiles[i], check)
    BY <1>2, FileOf DEF SidecarInv, FoundOK
  <2>4. \A f \in Sidecar!Pinned : Untouched(files, f, check)
    BY <2>3, FileOf
  <2>5. (/\ NoStray(strayAt, check) /\ \A f \in Sidecar!Pinned : Untouched(files, f, check))'
    BY <1>1, <2>1, <2>2, <2>4 DEF NoStray, Untouched
  <2>6. Sidecar!TypeOK'
    BY <1>1, <1>4, <2>1 DEF SidecarInv, Sidecar!TypeOK, Checks
  <2>7. ClockOK(files, memo, check, pinClock)' /\ (strayAt <= pinClock)'
    BY <1>1, <2>1, SidecarClocks DEF ClockOK
  <2>8. TrustOK(files, memo, check)' /\ FoundOK(files, check)' /\ check'.at \notin Hashing
    BY <1>1, <2>1 DEF SidecarInv, TrustOK, FoundOK, OnFile, Hashing
  <2> QED BY <2>1, <2>5, <2>6, <2>7, <2>8 DEF SidecarInv
<1>5. ASSUME check' = [check EXCEPT !.at = "look2", !.next = 1], UNCHANGED launched PROVE SidecarInv'
  <2> DEFINE c == [check EXCEPT !.at = "look2", !.next = 1]
  <2>1. 1 \in 1..(Len(PinnedFiles) + 1)
    BY FileOf
  <2>2. c \in Checks /\ c.at = "look2" /\ c.next = 1 /\ c.began = check.began /\ c.info = check.info
    BY <2>1, SidecarShape DEF Checks
  <2>3. check' = c /\ memo' = memo /\ Sidecar!Checking
    BY <1>1, <1>5 DEF Sidecar!Checking
  <2> HIDE DEF c
  <2>4. TrustOK(files, memo, c)
    BY <2>2 DEF SidecarInv, TrustOK
  <2>5. FoundOK(files, c) /\ c.at \notin Hashing
    BY <2>2, FileOf DEF FoundOK, OnFile, Hashing
  <2>6. \A f \in Sidecar!Pinned : memo[f].ctime <= pinClock
    BY SidecarClocks
  <2> QED BY <1>1, <2>2, <2>3, <2>4, <2>5, <2>6, CheckingKeeps, SidecarShape, SidecarClocks
<1> QED BY <1>3, <1>4, <1>5 DEF Sidecar!ListLast, Sidecar!Step

\* What the check is after a file whose quarantine was looked at.
LEMMA NextHeldIs ==
  ASSUME SidecarSetting, SidecarInv, check.at \in {"look2", "removing"}, Sidecar!NextHeld(check.next + 1)
  PROVE  /\ check' \in Checks /\ check'.at \in {"look2", "idle"} /\ check'.info.ctime = 0
         /\ check'.began = 0 \/ check'.began = check.began
         /\ check'.at = "look2" => check'.next <= Len(PinnedFiles)
<1>1. check.next \in 1..Len(PinnedFiles)
  BY CheckRecords DEF SidecarInv, FoundOK, OnFile
<1>2. CASE check.next + 1 <= Len(PinnedFiles)
  <2> DEFINE c == [check EXCEPT !.at = "look2", !.next = check.next + 1, !.info = Sidecar!Forgotten]
  <2>1. check.next + 1 \in 1..(Len(PinnedFiles) + 1)
    BY <1>1, <1>2, FileOf
  <2>2. c \in Checks /\ c.at = "look2" /\ c.next = check.next + 1 /\ c.info = Sidecar!Forgotten /\ c.began = check.began
    BY <2>1, SidecarShape, CheckRecords DEF Checks
  <2>3. check' = c
    BY <1>2 DEF Sidecar!NextHeld, Sidecar!Step
  <2> HIDE DEF c
  <2> QED BY <1>2, <2>2, <2>3, CheckRecords
<1>3. CASE ~(check.next + 1 <= Len(PinnedFiles))
  <2>1. check' = Sidecar!NoCheck
    BY <1>3 DEF Sidecar!NextHeld, Sidecar!Step
  <2>2. Sidecar!NoCheck.at = "idle" /\ Sidecar!NoCheck.info = Sidecar!Forgotten /\ Sidecar!NoCheck.began = 0
    BY DEF Sidecar!NoCheck
  <2> QED BY <2>1, <2>2, CheckRecords
<1> QED BY <1>2, <1>3

LEMMA LookHeldKeeps ==
  ASSUME SidecarSetting, SidecarInv, Sidecar!LookHeld
  PROVE  SidecarInv'
<1>1. check.at = "look2" /\ UNCHANGED memo /\ Sidecar!Checking /\ Sidecar!Current \in Sidecar!Pinned
      /\ Sidecar!Current = PinnedFiles[check.next]
  BY SidecarShape DEF Sidecar!LookHeld, OnFile, Sidecar!Current
<1>2. \A f \in Sidecar!Pinned : memo[f].ctime <= pinClock
  BY SidecarClocks
<1>3. ASSUME Sidecar!PinnedContentCurrent(Sidecar!Current), ~overridden,
             check' = [check EXCEPT !.at = "removing", !.info = Sidecar!Snapshot(files[Sidecar!Current])]
      PROVE  SidecarInv'
  <2> DEFINE c == [check EXCEPT !.at = "removing", !.info = Sidecar!Snapshot(files[Sidecar!Current])]
  <2>1. files[Sidecar!Current].pinned
    BY <1>1, <1>3 DEF SidecarInv, TrustOK, Sidecar!PinnedContentCurrent
  <2>2. /\ c \in Checks /\ c.at = "removing" /\ c.next = check.next /\ c.began = check.began
        /\ c.info = Sidecar!Snapshot(files[Sidecar!Current])
    BY <1>1, SidecarShape DEF Checks
  <2>3. check' = c /\ memo' = memo
    BY <1>1, <1>3
  <2> HIDE DEF c
  <2>4. TrustOK(files, memo, c)
    BY <1>1, <2>1, <2>2 DEF SidecarInv, TrustOK
  <2>5. FoundOK(files, c) /\ c.at \notin Hashing
    BY <1>1, <1>3, <2>2 DEF SidecarInv, FoundOK, OnFile, Hashing
  <2>6. c.info.ctime <= pinClock
    BY <1>1, <2>2, SidecarClocks
  <2> QED BY <1>1, <1>2, <2>2, <2>3, <2>4, <2>5, <2>6, CheckingKeeps, SidecarShape
<1>4. ASSUME Sidecar!NextHeld(check.next + 1) PROVE SidecarInv'
  <2>1. /\ check' \in Checks /\ check'.at \in {"look2", "idle"} /\ check'.info.ctime = 0
        /\ check'.began = 0 \/ check'.began = check.began
        /\ check'.at = "look2" => check'.next <= Len(PinnedFiles)
    BY <1>1, <1>4, NextHeldIs
  <2>2. PICK c \in Checks : c = check'
    BY <2>1
  <2>3. TrustOK(files, memo, c)
    BY <2>1, <2>2 DEF SidecarInv, TrustOK
  <2>4. FoundOK(files, c) /\ c.at \notin Hashing
    BY <2>1, <2>2 DEF FoundOK, OnFile, Hashing
  <2> QED BY <1>1, <1>2, <2>1, <2>2, <2>3, <2>4, CheckingKeeps, SidecarShape, SidecarClocks
<1> QED BY <1>1, <1>3, <1>4 DEF Sidecar!LookHeld, Sidecar!Step

\* Removing the attribute moves ctime and nothing that was hashed.
LEMMA RemoveKeeps ==
  ASSUME SidecarSetting, SidecarInv, Sidecar!Remove
  PROVE  SidecarInv'
<1>1. /\ check.at = "removing" /\ Sidecar!Current \in Sidecar!Pinned /\ Sidecar!NextHeld(check.next + 1)
      /\ UNCHANGED <<strayAt, memo, overridden, listFirst, checksLeft, launched>>
  BY SidecarShape DEF Sidecar!Remove, OnFile
<1>2. /\ check' \in Checks /\ check'.at \in {"look2", "idle"} /\ check'.info.ctime = 0
      /\ check'.began = 0 \/ check'.began = check.began
      /\ check'.at = "look2" => check'.next <= Len(PinnedFiles)
  BY <1>1, NextHeldIs
<1>3. /\ files' \in [Sidecar!Pinned -> FileStates] /\ pinClock' \in Sidecar!Times /\ pinClock <= pinClock'
      /\ \A g \in Sidecar!Pinned : files'[g] = files[g] \/ (files'[g].ctime = pinClock' /\ pinClock' = pinClock + 1)
  <2>1. CASE files[Sidecar!Current].inode = check.info.inode /\ pinClock < MaxPinChanges
    <3>1. pinClock + 1 \in Sidecar!Times
      BY <2>1, SidecarClocks DEF Sidecar!Times, SidecarSetting
    <3>2. files' = [files EXCEPT ![Sidecar!Current].held = FALSE, ![Sidecar!Current].ctime = pinClock + 1]
          /\ pinClock' = pinClock + 1
      BY <2>1 DEF Sidecar!Remove
    <3>3. [files[Sidecar!Current] EXCEPT !.held = FALSE, !.ctime = pinClock + 1] \in FileStates
      BY <1>1, <3>1, SidecarShape DEF FileStates
    <3>4. /\ files' \in [Sidecar!Pinned -> FileStates] /\ files'[Sidecar!Current].ctime = pinClock + 1
          /\ \A g \in Sidecar!Pinned \ {Sidecar!Current} : files'[g] = files[g]
      BY <1>1, <3>1, <3>2, <3>3, SidecarShape DEF FileStates
    <3>5. pinClock' = pinClock + 1 /\ pinClock \in Nat
      BY <3>2, SidecarClocks
    <3> QED BY <3>1, <3>4, <3>5
  <2>2. CASE ~(files[Sidecar!Current].inode = check.info.inode /\ pinClock < MaxPinChanges)
    BY <2>2, SidecarShape, SidecarClocks DEF Sidecar!Remove
  <2> QED BY <2>1, <2>2
<1>4. \A g \in Sidecar!Pinned : files'[g].ctime \in 1..pinClock' /\ Sidecar!Snapshot(files'[g]).ctime = files'[g].ctime
  <2>1. pinClock' \in Nat
    BY <1>3 DEF Sidecar!Times, SidecarSetting
  <2> QED BY <1>3, <2>1, SidecarClocks DEF Sidecar!Snapshot
<1>5. ClockOK(files, memo, check, pinClock)'
  <2>1. pinClock' \in Nat
    BY <1>3 DEF Sidecar!Times, SidecarSetting
  <2> QED BY <1>1, <1>2, <1>3, <1>4, <2>1, SidecarClocks DEF ClockOK
<1>6. TrustOK(files, memo, check)'
  <2>1. \A g \in Sidecar!Pinned : memo[g] = Sidecar!Snapshot(files'[g]) => files'[g].pinned
    BY <1>3, <1>4, SidecarClocks DEF SidecarInv, TrustOK
  <2> QED BY <1>1, <1>2, <2>1 DEF TrustOK
<1>7. FoundOK(files, check)' /\ check'.at \notin Hashing
  BY <1>2 DEF FoundOK, OnFile, Hashing
<1>8. Sidecar!TypeOK' /\ (strayAt <= pinClock)'
  <2>1. pinClock' \in Nat
    BY <1>3 DEF Sidecar!Times, SidecarSetting
  <2> QED BY <1>1, <1>2, <1>3, <2>1, SidecarClocks DEF SidecarInv, Sidecar!TypeOK, FileStates, Checks
<1>9. ~launched'
  BY <1>1 DEF SidecarInv
<1> QED BY <1>5, <1>6, <1>7, <1>8, <1>9 DEF SidecarInv

LEMMA BeginCheckKeeps ==
  ASSUME SidecarSetting, SidecarInv, NEW goal \in {"clear", "launch"}, Sidecar!Begin(goal)
  PROVE  SidecarInv'
<1> DEFINE c == [Sidecar!NoCheck EXCEPT !.at = IF listFirst THEN "list" ELSE "look", !.goal = goal, !.began = pinClock]
<1>1. /\ c \in Checks /\ c.at = (IF listFirst THEN "list" ELSE "look") /\ c.began = pinClock
      /\ c.next = 1 /\ c.info.ctime = 0 /\ c.reads = 0
  BY SidecarShape, CheckRecords DEF Checks, Sidecar!NoCheck
<1>2. /\ check' = c /\ launched' = FALSE /\ checksLeft' = checksLeft - 1 /\ checksLeft > 0
      /\ UNCHANGED <<files, strayAt, pinClock, memo, overridden, listFirst>>
  BY DEF Sidecar!Begin
<1> HIDE DEF c
<1>3. Sidecar!TypeOK'
  <2>1. checksLeft - 1 \in 0..MaxChecks
    BY <1>2, SidecarShape DEF SidecarSetting
  <2> QED BY <1>1, <1>2, <2>1 DEF SidecarInv, Sidecar!TypeOK, Checks
<1>4. ClockOK(files, memo, check, pinClock)' /\ (strayAt <= pinClock)'
  BY <1>1, <1>2, SidecarClocks DEF ClockOK
<1>5. TrustOK(files, memo, check)'
  BY <1>1, <1>2 DEF SidecarInv, TrustOK
<1>6. FoundOK(files, check)'
  BY <1>1, <1>2, FileOf DEF FoundOK, OnFile, Hashing
<1>7. (listFirst => check.at \notin Hashing)'
  BY <1>1, <1>2 DEF Hashing
<1> QED BY <1>2, <1>3, <1>4, <1>5, <1>6, <1>7 DEF SidecarInv

-----------------------------------------------------------------------------
(* The invariant.                                                          *)

LEMMA SidecarStarts ==
  ASSUME SidecarSetting, Sidecar!Init
  PROVE  SidecarInv
<1>1. PICK downloaded \in BOOLEAN :
         files = [f \in Sidecar!Pinned |-> [inode |-> 1, mtime |-> 1, ctime |-> 1, pinned |-> TRUE, held |-> downloaded]]
  BY DEF Sidecar!Init
<1>2. 0 \in Sidecar!Times /\ 1 \in Sidecar!Times
  BY DEF Sidecar!Times, SidecarSetting
<1>3. Sidecar!Forgotten \in Sidecar!Snapshots /\ Sidecar!Forgotten.ctime = 0
  BY <1>2 DEF Sidecar!Forgotten, Sidecar!Snapshots
<1>4. Sidecar!NoCheck \in Checks /\ Sidecar!NoCheck.at = "idle" /\ Sidecar!NoCheck.info = Sidecar!Forgotten
      /\ Sidecar!NoCheck.began = 0
  BY <1>2, <1>3, FileOf DEF Sidecar!NoCheck, Checks, Sidecar!MaxReads
<1>5. /\ files \in [Sidecar!Pinned -> FileStates] /\ \A f \in Sidecar!Pinned : files[f].ctime = 1 /\ files[f].pinned
  BY <1>1, <1>2 DEF FileStates
<1>6. /\ memo \in [Sidecar!Pinned -> Sidecar!Snapshots] /\ \A f \in Sidecar!Pinned : memo[f].ctime = 0
      /\ strayAt = 0 /\ pinClock = 1 /\ check = Sidecar!NoCheck /\ checksLeft = MaxChecks /\ launched = FALSE
      /\ overridden \in BOOLEAN /\ listFirst \in BOOLEAN
  BY <1>3 DEF Sidecar!Init
<1>7. Sidecar!TypeOK
  <2>1. MaxChecks \in 0..MaxChecks
    BY DEF SidecarSetting
  <2> QED BY <1>2, <1>4, <1>5, <1>6, <2>1 DEF Sidecar!TypeOK, FileStates, Checks
<1>8. ClockOK(files, memo, check, pinClock)
  BY <1>3, <1>4, <1>5, <1>6 DEF ClockOK
<1>9. TrustOK(files, memo, check) /\ FoundOK(files, check) /\ check.at \notin Hashing
  BY <1>4, <1>5, <1>6 DEF TrustOK, FoundOK, OnFile, Hashing
<1> QED BY <1>6, <1>7, <1>8, <1>9 DEF SidecarInv

LEMMA SidecarKeeps ==
  ASSUME SidecarSetting, SidecarInv, [Sidecar!Next]_sidecarVars
  PROVE  SidecarInv'
<1>1. CASE UNCHANGED sidecarVars
  BY <1>1 DEF sidecarVars, SidecarInv, Sidecar!TypeOK, ClockOK, TrustOK, FoundOK, NoStray, Untouched
<1>2. CASE Sidecar!Outside
  BY <1>2, OutsideKeeps
<1>3. CASE Sidecar!Verifying
  BY <1>3, FirstListKeeps, LookKeeps, OpenFileKeeps, FinishReadKeeps, ListLastKeeps, LookHeldKeeps, RemoveKeeps
     DEF Sidecar!Verifying
<1>4. CASE \E goal \in {"clear", "launch"} : Sidecar!Begin(goal)
  BY <1>4, BeginCheckKeeps
<1> QED BY <1>1, <1>2, <1>3, <1>4 DEF Sidecar!Next

LEMMA SidecarInvTrusts ==
  ASSUME SidecarSetting, SidecarInv
  PROVE  Sidecar!OnlyPinnedIsTrusted
<1>1. launched => ~(strayAt > 0 /\ strayAt <= check.began)
  BY SidecarClocks DEF SidecarInv, NoStray
<1> QED BY <1>1 DEF SidecarInv, TrustOK, FoundOK, Untouched, Sidecar!OnlyPinnedIsTrusted, Sidecar!Current

-----------------------------------------------------------------------------
(* The parts together.                                                     *)

\* A step of a run is a step of the part taken, or leaves its variables alone.
LEMMA OnePart ==
  ASSUME [SumNext]_sumVars
  PROVE  /\ component' = component
         /\ component = "root" => [Root!Next]_rootVars
         /\ component = "zip" => [Zip!Next]_zipVars
         /\ component = "prefetch" => [Prefetch!Next]_prefetchVars
         /\ component = "prompts" => [Prompts!Next]_promptVars
         /\ component = "render" => [Render!Next]_renderVars
         /\ component = "sidecar" => [Sidecar!Next]_sidecarVars
         /\ component = "unpack" => [Unpack!Next]_unpackVars
BY DEF SumNext, Within, sumVars

\* Processes that open one cache at the same moment all work in the directory at
\* its path, and nothing foreign is admitted or touched (cache/root.go).
THEOREM OpenersAreSafe == SumSpec => []AdmissionSafe
<1> DEFINE Held == component = "root" => Root!Inv
<1>1. SumInit => Held
  <2>1. Foundations \subseteq Root!Kinds
    BY WorkshopAssumption DEF WorkshopAssumption, Root!Kinds
  <2> QED BY <2>1, Root!InitInv DEF SumInit
<1>2. Held /\ [SumNext]_sumVars => Held'
  <2>1. ASSUME Root!Inv, [Root!Next]_rootVars PROVE Root!Inv'
    BY <2>1, Root!InvStep DEF rootVars, Root!rootVars
  <2> QED BY <2>1, OnePart
<1>3. Held => AdmissionSafe
  BY Root!InvIsSafe DEF AdmissionSafe, Root!Inv
<1> QED BY <1>1, <1>2, <1>3, PTL DEF SumSpec

\* The ZIP beside a release is the earlier one or a whole new one, whatever changes
\* in the folder while it is written (library/zip.go).
THEOREM ZipAlwaysWhole == SumSpec => []ZipWhole
<1> DEFINE Held == component = "zip" => ZipInv
<1>1. SumInit => Held
  BY ZipStarts DEF SumInit
<1>2. Held /\ [SumNext]_sumVars => Held'
  <2>1. ASSUME ZipInv, [Zip!Next]_zipVars PROVE ZipInv'
    BY <2>1, ZipKeeps
  <2> QED BY <2>1, OnePart
<1>3. Held => ZipWhole
  BY ZipInvIsWhole DEF ZipWhole
<1> QED BY <1>1, <1>2, <1>3, PTL DEF SumSpec

\* A prefetched topic is treated by its own result, the window is kept, and a
\* success is complete (archive/html.go, topicPrefetch).
THEOREM TopicsAreSound == SumSpec => []PrefetchSound
<1> DEFINE Held == component = "prefetch" => Prefetch!Inv
<1>1. Prefetch!Setting
  BY WorkshopAssumption DEF WorkshopAssumption, Prefetch!Setting, IsFiniteSet, Prefetch!IsFiniteSet
<1>2. SumInit => Held
  BY <1>1, Prefetch!InvInit DEF SumInit
<1>3. Held /\ [SumNext]_sumVars => Held'
  <2>1. ASSUME Prefetch!Inv, [Prefetch!Next]_prefetchVars PROVE Prefetch!Inv'
    BY <1>1, <2>1, Prefetch!InvStep
       DEF prefetchVars, Prefetch!vars, Prefetch!mainVars, Prefetch!channelVars
  <2> QED BY <2>1, OnePart
<1>4. Held => PrefetchSound
  BY <1>1, Prefetch!InvIsSound DEF PrefetchSound, Prefetch!Inv
<1> QED BY <1>2, <1>3, <1>4, PTL DEF SumSpec

\* Keys typed ahead reach the prompts in order, no question gets a disabled answer,
\* and suggestions belong to the text under them (cli/prompt.go, completion.go).
THEOREM KeysAlwaysInOrder == SumSpec => []KeysInOrder
<1> DEFINE Held == component = "prompts" => PromptInv
<1>1. PromptSetting
  BY WorkshopAssumption DEF WorkshopAssumption, PromptSetting, Prompts!Enabled
<1>2. SumInit => Held
  BY <1>1, PromptsStart DEF SumInit
<1>3. Held /\ [SumNext]_sumVars => Held'
  <2>1. ASSUME PromptInv, [Prompts!Next]_promptVars PROVE PromptInv'
    BY <1>1, <2>1, PromptsKeep
  <2> QED BY <2>1, OnePart
<1>4. Held => KeysInOrder
  BY <1>1, PromptInvIsInOrder DEF KeysInOrder
<1> QED BY <1>2, <1>3, <1>4, PTL DEF SumSpec

\* A guide accepted after its PDF was rendered is what its manifest says, whichever
\* step of publication or rollback failed (pdfgen/render.go).
THEOREM GuideAlwaysAsRecorded == SumSpec => []GuideIsAsRecorded
<1> DEFINE Held == component = "render" => RenderInv
<1>1. SumInit => Held
  BY RenderStarts DEF SumInit
<1>2. Held /\ [SumNext]_sumVars => Held'
  <2>1. ASSUME RenderInv, [Render!Next]_renderVars PROVE RenderInv'
    BY <2>1, RenderKeeps
  <2> QED BY <2>1, OnePart
<1>3. Held => GuideIsAsRecorded
  BY RenderInvIsAsRecorded DEF GuideIsAsRecorded
<1> QED BY <1>1, <1>2, <1>3, PTL DEF SumSpec

\* A remembered check of a pinned file is never trusted for other bytes, and the
\* quarantine goes only from pinned files (pdfgen/sidecar_tree.go, quarantine.go).
THEOREM PinnedFilesAreTrusted == SumSpec => []OnlyPinnedIsTrusted
<1> DEFINE Held == component = "sidecar" => SidecarInv
<1>1. SidecarSetting
  BY WorkshopAssumption DEF WorkshopAssumption, SidecarSetting, Sidecar!Pinned
<1>2. SumInit => Held
  BY <1>1, SidecarStarts DEF SumInit
<1>3. Held /\ [SumNext]_sumVars => Held'
  <2>1. ASSUME SidecarInv, [Sidecar!Next]_sidecarVars PROVE SidecarInv'
    BY <1>1, <2>1, SidecarKeeps
  <2> QED BY <2>1, OnePart
<1>4. Held => OnlyPinnedIsTrusted
  BY <1>1, SidecarInvTrusts DEF OnlyPinnedIsTrusted, SidecarInv
<1> QED BY <1>2, <1>3, <1>4, PTL DEF SumSpec

\* What is found at the destination is the pinned archive, success means that it is
\* there, and an extraction that ended leaves its own staging directory behind only
\* after a kill or under a parent that was swapped (releasepkg/acquire.go).
THEOREM TreeIsAlwaysPinned == SumSpec => []TreeIsThePinnedArchive
<1> DEFINE Held == component = "unpack" => UnpackInv
<1>1. UnpackSetting
  BY WorkshopAssumption DEF WorkshopAssumption, UnpackSetting, Entries
<1>2. SumInit => Held
  BY <1>1, UnpackStarts DEF SumInit
<1>3. Held /\ [SumNext]_sumVars => Held'
  <2>1. ASSUME UnpackInv, [Unpack!Next]_unpackVars PROVE UnpackInv'
    BY <1>1, <2>1, UnpackKeeps
  <2> QED BY <2>1, OnePart
<1>4. Held => TreeIsThePinnedArchive
  BY <1>1, UnpackInvIsPinned DEF TreeIsThePinnedArchive
<1> QED BY <1>2, <1>3, <1>4, PTL DEF SumSpec
=============================================================================
