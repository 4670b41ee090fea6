--------------------------- MODULE CacheStoreProofs ---------------------------
(***************************************************************************)
(* What holds of CacheStore for any number of calls of one URL: one        *)
(* writer, exact waiter counts, no borrowed cancellation, a root that      *)
(* nobody uses once it is closed, and files that are what they claim.      *)
(***************************************************************************)
EXTENDS CacheStore, FiniteSetTheorems, TLAPS

\* A flight is named by the call that started it, which starts no other: until
\* then the flight is "none", and nobody waits for it.
Unstarted(c) == \/ pc[c] \in {"idle", "entry", "acquire", "retiring"}
                \/ pc[c] = "waiting" /\ local[c].joined

Started ==
  /\ active # None => Running(active)
  /\ \A c \in Callers : Unstarted(c) => flight[c].state = "none"
  /\ \A c \in Callers : pc[c] = "waiting" =>
       local[c].at \in Callers /\ flight[local[c].at].state # "none"

\* A flight that writes files has been answered.
Answers == \A f \in Callers : flight[f].state \in {"body", "meta"} => flight[f].answer \in Bodies

\* A flight is cancelled by its last waiter or by Close, and only then may it
\* end with a cancellation.
Cancellations == \A f \in Callers :
  /\ flight[f].err = "cancelled" => flight[f].cancelled
  /\ flight[f].cancelled => flight[f].abandoned \/ closing # "open"

\* Close has waited for the calls, then for the flights.
Closed ==
  /\ closing \in {"work", "closed"} => \A c \in Callers : ~InCall(c)
  /\ closing = "closed" => \A f \in Callers : ~Running(f)

CallsInv == TypeOK /\ Answers /\ OneWriter /\ WaitersExact /\ Started /\ Cancellations /\ Closed

\* A flight that has written the metadata, and what is concluded from it.
Validated == meta # NoMeta /\ meta.lifetime = "this"

FlightFiles(f) ==
  /\ flight[f].state = "check" => ~flight[f].networked
  /\ flight[f].state = "meta" => flight[f].answer \in bodies
  /\ flight[f].state = "verify" => Validated
  /\ flight[f].state \in {"finish", "done"} /\ flight[f].err = "nil"
     /\ (flight[f].refresh \/ flight[f].networked) => Validated

\* A refreshing call waits for a refreshing flight, or has to look at what the
\* flight it joined did.
CallFiles(c) ==
  /\ pc[c] = "waiting" /\ local[c].refresh /\ ~local[c].joined => flight[local[c].at].refresh
  /\ pc[c] = "read" /\ local[c].refresh => Validated

FilesInv ==
  /\ MetadataHasBody
  /\ FreshMeansValidated
  /\ \A f \in Callers : FlightFiles(f)
  /\ \A c \in Callers : CallFiles(c)

-----------------------------------------------------------------------------
(* What the steps of a flight have in common.                              *)

\* The step of a flight changes its own record, and not what the calls set.
Works(f) ==
  /\ Running(f)
  /\ flight' = [flight EXCEPT ![f] = flight'[f]]
  /\ flight'[f] \in Flights
  /\ flight'[f].state \in Working \cup {"done"}
  /\ flight'[f].waiters = flight[f].waiters
  /\ flight'[f].refresh = flight[f].refresh
  /\ flight'[f].abandoned = flight[f].abandoned
  /\ flight'[f].cancelled = flight[f].cancelled
  /\ flight'[f].err = "cancelled" => flight[f].err = "cancelled" \/ flight[f].cancelled
  /\ active' = IF flight'[f].state = "done" THEN FlightRemoved(f) ELSE active
  /\ UNCHANGED <<pc, local, gone, result, closing>>

FileTypes == fresh \in BOOLEAN /\ meta \in Metas /\ bodies \subseteq Bodies /\ damaged \in BOOLEAN

LEMMA FlightStepWorks ==
  ASSUME TypeOK, Answers, NEW f \in Callers, FlightStep(f)
  PROVE  Works(f) /\ FileTypes' /\ Answers'
<1> USE DEF TypeOK, Works, FileTypes, Running, Working, callVars, diskVars, FlightRemoved
<1> DEFINE Answered1 == flight'[f].state \in {"body", "meta"} => flight'[f].answer \in Bodies
<1>0. flight[f] \in Flights /\ (flight[f].state \in {"body", "meta"} => flight[f].answer \in Bodies)
  BY DEF Answers
<1> SUFFICES Works(f) /\ FileTypes' /\ Answered1
  BY <1>0 DEF Answers
<1>1. CASE Check(f)
  BY <1>0, <1>1 DEF Check, Advance, Fails, StopError, Flights
<1>2. CASE Unfresh(f)
  BY <1>0, <1>2 DEF Unfresh, Flights
<1>3. CASE Network(f)
  BY <1>0, <1>3 DEF Network, Fails, StopError, BodyFirst, Flights, Metas
<1>4. CASE PublishBody(f)
  <2>1. flight[f].state = "body" /\ (Advance(f, "meta") \/ Fails(f, "failed"))
    BY <1>4 DEF PublishBody
  <2>2. Works(f) /\ Answered1
    BY <1>0, <1>4, <2>1 DEF PublishBody, Advance, Fails, Flights
  <2>3. bodies' \subseteq Bodies
    BY <1>0, <1>4 DEF PublishBody
  <2> QED BY <1>4, <2>2, <2>3 DEF PublishBody
<1>5. CASE WriteMetadata(f)
  <2>1. flight[f].state = "meta" /\ (Advance(f, "verify") \/ Fails(f, "failed"))
    BY <1>5 DEF WriteMetadata
  <2>2. Works(f) /\ Answered1
    BY <1>0, <1>5, <2>1 DEF WriteMetadata, Advance, Fails, Flights
  <2>3. meta' \in Metas
    <3>1. CASE meta' = [body |-> flight[f].answer, lifetime |-> "this"]
      BY <1>0, <2>1, <3>1 DEF Metas
    <3> QED BY <1>5, <3>1 DEF WriteMetadata
  <2>4. damaged' \in BOOLEAN
    BY <1>5, Zenon DEF WriteMetadata
  <2> QED BY <1>5, <2>2, <2>3, <2>4 DEF WriteMetadata
<1>6. CASE Verify(f)
  BY <1>0, <1>6 DEF Verify, Advance, Fails, StopError, Flights
<1>7. CASE Finish(f)
  BY <1>0, <1>7 DEF Finish, FreshAfter, Flights
<1> QED BY <1>1, <1>2, <1>3, <1>4, <1>5, <1>6, <1>7 DEF FlightStep

LEMMA FlightStepKeeps ==
  ASSUME CallsInv, NEW f \in Callers, FlightStep(f)
  PROVE  CallsInv'
<1>1. Works(f) /\ FileTypes' /\ Answers'
  BY FlightStepWorks DEF CallsInv
<1>2. active = f /\ active \in Callers
  BY <1>1 DEF CallsInv, OneWriter, Works
<1>3. \A g \in Callers \ {f} : flight'[g] = flight[g]
  BY <1>1 DEF Works, CallsInv, TypeOK
<1>4. TypeOK'
  <2>1. active' \in Callers \cup {None}
    BY <1>1, <1>2 DEF Works, FlightRemoved
  <2>2. flight' \in [Callers -> Flights]
    BY <1>1 DEF Works, CallsInv, TypeOK
  <2> QED BY <1>1, <2>1, <2>2 DEF TypeOK, CallsInv, Works, FileTypes
<1>5. OneWriter' /\ (active' # None => Running(active)')
  BY <1>1, <1>2, <1>3 DEF CallsInv, OneWriter, Works, FlightRemoved, Running, Working
<1>6. WaitersExact'
  <2>1. \A g \in Callers : Waiting(g)' = Waiting(g)
    BY <1>1 DEF Waiting, Works
  <2>2. \A g \in Callers : flight'[g].waiters = flight[g].waiters /\ flight'[g].abandoned = flight[g].abandoned
    BY <1>1, <1>3 DEF Works
  <2> QED BY <2>1, <2>2 DEF WaitersExact, CallsInv
<1>7. Started'
  <2>1. \A g \in Callers : flight'[g].state = "none" <=> flight[g].state = "none"
    BY <1>1, <1>3 DEF Works, Running, Working
  <2>2. UNCHANGED <<pc, local>>
    BY <1>1 DEF Works
  <2> QED BY <1>5, <2>1, <2>2 DEF Started, CallsInv, Unstarted
<1>8. Cancellations'
  <2>1. closing' = closing /\ flight'[f].cancelled = flight[f].cancelled /\ flight'[f].abandoned = flight[f].abandoned
    BY <1>1 DEF Works
  <2>2. flight'[f].err = "cancelled" => flight'[f].cancelled
    BY <1>1, <2>1 DEF Cancellations, CallsInv, Works
  <2> QED BY <1>3, <2>1, <2>2 DEF Cancellations, CallsInv
<1>9. Closed'
  BY <1>1, <1>3 DEF Closed, CallsInv, Works, Running, InCall
<1> QED BY <1>1, <1>4, <1>5, <1>6, <1>7, <1>8, <1>9 DEF CallsInv

-----------------------------------------------------------------------------
(* Steps of a call that touch no flight.                                   *)

\* Only call c moves, and it waits for no flight before or after.
Quiet(c) ==
  /\ pc[c] # "waiting" /\ pc'[c] # "waiting"
  /\ Unstarted(c)' => Unstarted(c)
  /\ InCall(c)' => InCall(c) \/ closing = "open"
  /\ \A d \in Callers \ {c} : pc'[d] = pc[d] /\ local'[d] = local[d]
  /\ UNCHANGED <<flight, active, closing>>

LEMMA QuietKeeps ==
  ASSUME CallsInv, TypeOK', NEW c \in Callers, Quiet(c)
  PROVE  CallsInv'
<1>1. \A g \in Callers : Waiting(g)' = Waiting(g)
  BY DEF Waiting, Quiet
<1>2. WaitersExact'
  BY <1>1 DEF WaitersExact, CallsInv, Quiet
<1>3. Started'
  BY DEF Started, CallsInv, Unstarted, Quiet, Running
<1>4. Closed'
  BY DEF Closed, CallsInv, Quiet, InCall, Running
<1> QED BY <1>2, <1>3, <1>4 DEF CallsInv, Quiet, Answers, OneWriter, Cancellations, Running

Labels == {"idle", "entry", "acquire", "retiring", "waiting", "read", "returned"}
Ends == {"none", "ok", "failed", "cancelled", "closed", "killed"}
CallTypes == /\ pc \in [Callers -> Labels] /\ local \in [Callers -> Locals]
             /\ gone \subseteq Callers /\ result \in [Callers -> Ends]

LEMMA TypeParts ==
  TypeOK <=> CallTypes /\ flight \in [Callers -> Flights] /\ active \in Callers \cup {None}
             /\ closing \in {"open", "calls", "work", "closed"} /\ FileTypes
BY DEF TypeOK, CallTypes, FileTypes, Labels, Ends

LEMMA TypesKept ==
  ASSUME TypeOK, CallTypes', UNCHANGED <<flight, active, fresh, closing, meta, bodies, damaged>>
  PROVE  TypeOK'
BY DEF TypeOK, CallTypes, Labels, Ends

LEMMA GotoTypes ==
  ASSUME CallTypes, NEW c \in Callers, NEW l \in Labels, Goto(c, l)
  PROVE  /\ CallTypes' /\ pc'[c] = l /\ local' = local
         /\ \A d \in Callers \ {c} : pc'[d] = pc[d]
BY DEF CallTypes, Goto

LEMMA ReturnTypes ==
  ASSUME CallTypes, NEW c \in Callers, NEW r \in Ends, Return(c, r)
  PROVE  /\ CallTypes' /\ pc'[c] = "returned" /\ local'[c] = NoLocal /\ result'[c] = r
         /\ \A d \in Callers \ {c} : pc'[d] = pc[d] /\ local'[d] = local[d] /\ result'[d] = result[d]
<1>1. NoLocal \in Locals /\ "returned" \in Labels
  BY DEF NoLocal, Locals, Labels
<1> QED BY <1>1 DEF CallTypes, Return

LEMMA BeginKeeps ==
  ASSUME CallsInv, NEW c \in Callers, Begin(c)
  PROVE  CallsInv'
<1> USE DEF callVars, diskVars
<1>1. CallTypes /\ pc[c] = "idle" /\ UNCHANGED <<flight, active, fresh, closing, meta, bodies, damaged>>
  BY TypeParts DEF CallsInv, Begin
<1>2. CallTypes' /\ Quiet(c)
  <2>1. CASE closing # "open"
    <3>1. Return(c, "closed") /\ "closed" \in Ends
      BY <2>1 DEF Begin, Ends
    <3> QED BY <1>1, <3>1, ReturnTypes DEF Quiet, Unstarted, InCall
  <2>2. CASE closing = "open"
    <3>1. pc' = [pc EXCEPT ![c] = "entry"] /\ UNCHANGED <<gone, result>>
      BY <2>2 DEF Begin
    <3>2. PICK op \in Operations, refresh \in BOOLEAN :
            local' = [local EXCEPT ![c].op = op, ![c].refresh = refresh]
      BY <2>2 DEF Begin
    <3>3. op \in {"Get", "Prefetch"}
      BY OperationsAssumption
    <3>4. local' \in [Callers -> Locals]
      BY <1>1, <3>2, <3>3 DEF CallTypes, Locals
    <3>5. \A d \in Callers \ {c} : local'[d] = local[d]
      BY <1>1, <3>2 DEF CallTypes
    <3> QED BY <1>1, <2>2, <3>1, <3>4, <3>5 DEF CallTypes, Labels, Quiet, Unstarted, InCall
  <2> QED BY <2>1, <2>2
<1> QED BY <1>1, <1>2, QuietKeeps, TypesKept DEF CallsInv

\* Steps of a call that end in Goto or Return and leave the flights alone.
LEMMA GotoKeeps ==
  ASSUME CallsInv, NEW c \in Callers, NEW l \in {"acquire", "retiring"}, Goto(c, l),
         pc[c] \in {"entry", "acquire", "retiring"},
         UNCHANGED <<flight, active, fresh, closing, diskVars>>
  PROVE  CallsInv'
<1> USE DEF diskVars
<1>1. CallTypes /\ l \in Labels
  BY TypeParts DEF CallsInv, Labels
<1>2. CallTypes' /\ Quiet(c)
  BY <1>1, GotoTypes DEF Quiet, Unstarted, InCall
<1> QED BY <1>2, QuietKeeps, TypesKept DEF CallsInv

LEMMA ReturnKeeps ==
  ASSUME CallsInv, NEW c \in Callers, NEW r \in Ends, Return(c, r), pc[c] # "waiting",
         UNCHANGED <<flight, active, fresh, closing, diskVars>>
  PROVE  CallsInv'
<1> USE DEF diskVars
<1>1. CallTypes
  BY TypeParts DEF CallsInv
<1>2. CallTypes' /\ Quiet(c)
  BY <1>1, ReturnTypes DEF Quiet, Unstarted, InCall
<1> QED BY <1>2, QuietKeeps, TypesKept DEF CallsInv

LEMMA EndContextKeeps ==
  ASSUME CallsInv, NEW c \in Callers, EndContext(c)
  PROVE  CallsInv'
<1>1. UNCHANGED <<pc, local, result, flight, active, fresh, closing, meta, bodies, damaged>> /\ gone' \subseteq Callers
  BY DEF CallsInv, TypeOK, EndContext, diskVars
<1>2. TypeOK'
  BY <1>1 DEF CallsInv, TypeOK
<1>3. \A g \in Callers : Waiting(g)' = Waiting(g)
  BY <1>1 DEF Waiting
<1> QED BY <1>1, <1>2, <1>3 DEF CallsInv, Answers, OneWriter, WaitersExact, Started, Unstarted,
                                Cancellations, Closed, InCall, Running

-----------------------------------------------------------------------------
(* Steps of a call that join, start or leave a flight.                     *)

LEMMA WaitingCounts ==
  ASSUME NEW f \in Callers
  PROVE  /\ IsFiniteSet(Waiting(f)) /\ Cardinality(Waiting(f)) \in Nat
         /\ \A c : Cardinality(Waiting(f) \cup {c}) =
                     IF c \in Waiting(f) THEN Cardinality(Waiting(f)) ELSE Cardinality(Waiting(f)) + 1
         /\ \A c \in Waiting(f) : Cardinality(Waiting(f) \ {c}) = Cardinality(Waiting(f)) - 1
         /\ Cardinality(Waiting(f)) = 0 <=> Waiting(f) = {}
<1>1. Waiting(f) \in SUBSET Callers
  BY DEF Waiting
<1>2. IsFiniteSet(Waiting(f))
  BY <1>1, FS_Subset, CallersAssumption
<1> QED BY <1>2, FS_CardinalityType, FS_AddElement, FS_RemoveElement, FS_EmptySet

LEMMA Counted ==
  ASSUME CallsInv, NEW f \in Callers
  PROVE  /\ flight[f].waiters = Cardinality(Waiting(f))
         /\ flight[f].abandoned => Waiting(f) = {}
<1>1. WaitersExact
  BY DEF CallsInv
<1> QED BY <1>1, Zenon DEF WaitersExact

\* Acquire moves c to a label of Waiting or Retiring.
LEMMA JoinsTypes ==
  ASSUME CallTypes, NEW c \in Callers, NEW f \in Callers, NEW l \in {"waiting", "retiring"},
         NEW shared \in BOOLEAN, Joins(c, f, l, shared)
  PROVE  /\ CallTypes' /\ pc'[c] = l /\ local'[c].at = f /\ local'[c].joined = shared
         /\ local'[c].op = local[c].op /\ local'[c].refresh = local[c].refresh
         /\ \A d \in Callers \ {c} : pc'[d] = pc[d] /\ local'[d] = local[d]
<1>1. pc' \in [Callers -> Labels] /\ pc'[c] = l
  BY DEF CallTypes, Joins, Labels
<1>2. local[c] \in Locals
  BY DEF CallTypes
<1>3. local' \in [Callers -> Locals]
  BY <1>2 DEF CallTypes, Joins, Locals
<1>4. local'[c].at = f /\ local'[c].joined = shared
      /\ local'[c].op = local[c].op /\ local'[c].refresh = local[c].refresh
  BY <1>2 DEF CallTypes, Joins, Locals
<1> QED BY <1>1, <1>3, <1>4 DEF CallTypes, Joins

LEMMA JoinKeeps ==
  ASSUME CallsInv, NEW c \in Callers, pc[c] = "acquire",
         NEW f \in Callers, active = f, ~Retiring(f), Joins(c, f, "waiting", TRUE),
         flight' = [flight EXCEPT ![f].waiters = @ + 1],
         UNCHANGED <<active, fresh, closing, diskVars>>
  PROVE  CallsInv'
<1>1. flight[f] \in Flights /\ Running(f) /\ CallTypes
  BY TypeParts, CallersAssumption DEF CallsInv, TypeOK, Started
<1>2. /\ CallTypes' /\ pc'[c] = "waiting" /\ local'[c].at = f /\ local'[c].joined = TRUE
      /\ \A d \in Callers \ {c} : pc'[d] = pc[d] /\ local'[d] = local[d]
  BY <1>1, JoinsTypes
<1>3. /\ flight' \in [Callers -> Flights]
      /\ flight'[f].waiters = flight[f].waiters + 1
      /\ \A g \in Callers : /\ flight'[g].state = flight[g].state
                            /\ flight'[g].answer = flight[g].answer
                            /\ flight'[g].err = flight[g].err
                            /\ flight'[g].abandoned = flight[g].abandoned
                            /\ flight'[g].cancelled = flight[g].cancelled
      /\ \A g \in Callers \ {f} : flight'[g] = flight[g]
  BY <1>1 DEF CallsInv, TypeOK, Flights
<1>4. TypeOK'
  BY <1>2, <1>3 DEF CallsInv, TypeOK, CallTypes, Labels, Ends, diskVars
<1>5. Answers' /\ OneWriter' /\ Cancellations'
  BY <1>3 DEF CallsInv, Answers, OneWriter, Cancellations, Running
<1>6. WaitersExact'
  <2>1. Waiting(f)' = Waiting(f) \cup {c} /\ c \notin Waiting(f)
    BY <1>2 DEF Waiting
  <2>2. \A g \in Callers \ {f} : Waiting(g)' = Waiting(g)
    BY <1>2 DEF Waiting
  <2>3. flight'[f].waiters = Cardinality(Waiting(f)')
    BY <1>3, <2>1, WaitingCounts, Counted
  <2>4. ~flight'[f].abandoned
    BY <1>1, <1>3 DEF Retiring
  <2> QED BY <1>3, <2>2, <2>3, <2>4 DEF CallsInv, WaitersExact
<1>7. Started'
  <2>1. flight[c].state = "none"
    BY DEF CallsInv, Started, Unstarted
  <2>2. flight[f].state # "none"
    BY <1>1 DEF Running, Working
  <2> QED BY <1>1, <1>2, <1>3, <2>1, <2>2 DEF CallsInv, Started, Unstarted, Running
<1>8. Closed'
  BY <1>2, <1>3 DEF CallsInv, Closed, InCall, Running
<1> QED BY <1>4, <1>5, <1>6, <1>7, <1>8 DEF CallsInv

LEMMA StartKeeps ==
  ASSUME CallsInv, NEW c \in Callers, pc[c] = "acquire", active = None, closing = "open",
         Joins(c, c, "waiting", FALSE), active' = c,
         flight' = [flight EXCEPT ![c] = NewFlight(local[c].refresh)],
         fresh' = (fresh /\ ~local[c].refresh),
         UNCHANGED <<closing, diskVars>>
  PROVE  CallsInv'
<1>1. CallTypes /\ local[c].refresh \in BOOLEAN
  BY TypeParts DEF CallsInv, TypeOK, Locals
<1>2. /\ CallTypes' /\ pc'[c] = "waiting" /\ local'[c].at = c /\ local'[c].joined = FALSE
      /\ \A d \in Callers \ {c} : pc'[d] = pc[d] /\ local'[d] = local[d]
  BY <1>1, JoinsTypes
<1>3. LET n == NewFlight(local[c].refresh) IN
      n \in Flights /\ n.state = "check" /\ n.waiters = 1 /\ n.err = "nil"
      /\ n.abandoned = FALSE /\ n.cancelled = FALSE
  BY <1>1 DEF NewFlight, NoFlight, Flights, Working
<1>4. /\ flight' \in [Callers -> Flights]
      /\ flight'[c].state = "check" /\ flight'[c].waiters = 1 /\ flight'[c].err = "nil"
      /\ flight'[c].abandoned = FALSE /\ flight'[c].cancelled = FALSE
      /\ \A g \in Callers \ {c} : flight'[g] = flight[g]
  BY <1>3 DEF CallsInv, TypeOK
<1>5. fresh' \in BOOLEAN
  BY Zenon
<1>6. TypeOK'
  BY <1>2, <1>4, <1>5 DEF CallsInv, TypeOK, CallTypes, Labels, Ends, diskVars
<1>7. Answers' /\ OneWriter' /\ Cancellations'
  BY <1>4, CallersAssumption DEF CallsInv, Answers, OneWriter, Cancellations, Running
<1>8. flight[c].state = "none" /\ Waiting(c) = {}
  BY DEF CallsInv, Started, Unstarted, Waiting
<1>9. WaitersExact'
  <2>1. Waiting(c)' = Waiting(c) \cup {c} /\ c \notin Waiting(c)
    BY <1>2 DEF Waiting
  <2>2. \A g \in Callers \ {c} : Waiting(g)' = Waiting(g)
    BY <1>2 DEF Waiting
  <2>3. flight'[c].waiters = Cardinality(Waiting(c)')
    BY <1>4, <1>8, <2>1, WaitingCounts
  <2> QED BY <1>4, <2>2, <2>3 DEF CallsInv, WaitersExact
<1>10. Started'
  BY <1>2, <1>4, <1>8 DEF CallsInv, Started, Unstarted, Running, Working, Waiting
<1>11. Closed'
  BY DEF Closed
<1> QED BY <1>6, <1>7, <1>9, <1>10, <1>11 DEF CallsInv

\* A call stops waiting: the count goes down, and at zero the flight may be
\* abandoned and cancelled.
Leaving(c, f) ==
  /\ pc[c] = "waiting" /\ local[c].at = f
  /\ flight' = [flight EXCEPT ![f] = flight'[f]]
  /\ flight'[f] \in Flights
  /\ flight'[f].waiters = flight[f].waiters - 1
  /\ flight'[f].state = flight[f].state /\ flight'[f].answer = flight[f].answer
  /\ flight'[f].err = flight[f].err
  /\ flight'[f].abandoned => flight[f].abandoned \/ flight[f].waiters = 1
  /\ flight[f].cancelled => flight'[f].cancelled
  /\ flight[f].abandoned => flight'[f].abandoned
  /\ flight'[f].cancelled => flight[f].cancelled \/ flight'[f].abandoned
  /\ UNCHANGED <<active, fresh, closing, meta, bodies, damaged>>

LEMMA LeavingKeeps ==
  ASSUME CallsInv, NEW c \in Callers, NEW f \in Callers, Leaving(c, f), CallTypes',
         \/ pc'[c] \in {"read", "returned"}
         \/ pc'[c] = "acquire" /\ local[c].joined,
         \A d \in Callers \ {c} : pc'[d] = pc[d] /\ local'[d] = local[d]
  PROVE  CallsInv'
<1> USE DEF Leaving
<1>1. \A g \in Callers \ {f} : flight'[g] = flight[g]
  BY DEF CallsInv, TypeOK
<1>2. TypeOK'
  <2>1. flight' \in [Callers -> Flights]
    BY DEF CallsInv, TypeOK
  <2> QED BY <2>1 DEF CallsInv, TypeOK, CallTypes, Labels, Ends
<1>3. Answers' /\ OneWriter'
  BY <1>1 DEF CallsInv, Answers, OneWriter, Running
<1>4. Cancellations'
  BY <1>1 DEF CallsInv, Cancellations
<1>5. WaitersExact'
  <2>1. Waiting(f)' = Waiting(f) \ {c} /\ c \in Waiting(f)
    BY DEF Waiting
  <2>2. \A g \in Callers \ {f} : Waiting(g)' = Waiting(g)
    BY DEF Waiting
  <2>3. Cardinality(Waiting(f)') = Cardinality(Waiting(f)) - 1
    BY <2>1, WaitingCounts
  <2>4. flight'[f].waiters = Cardinality(Waiting(f)')
    BY <2>3, Counted
  <2>5. flight'[f].abandoned => Waiting(f)' = {}
    <3>1. CASE flight[f].abandoned
      BY <2>1, <3>1, Counted
    <3>2. CASE flight[f].waiters = 1
      <4>1. Cardinality(Waiting(f)) = 1
        BY <3>2, Counted
      <4>2. IsFiniteSet(Waiting(f)) /\ IsFiniteSet(Waiting(f) \ {c})
        BY WaitingCounts, FS_RemoveElement
      <4>3. Cardinality(Waiting(f) \ {c}) = 0
        BY <2>1, <2>3, <4>1
      <4> QED BY <2>1, <4>2, <4>3, FS_EmptySet
    <3> QED BY <3>1, <3>2
  <2> QED BY <1>1, <2>2, <2>4, <2>5 DEF CallsInv, WaitersExact
<1>6. Started'
  <2>1. \A g \in Callers : flight'[g].state = flight[g].state
    BY <1>1
  <2>2. (active # None => Running(active))'
    BY <2>1 DEF CallsInv, TypeOK, Started, Running
  <2>3. \A d \in Callers : Unstarted(d)' => Unstarted(d)
    BY DEF Unstarted
  <2>4. \A d \in Callers : pc'[d] = "waiting" => pc[d] = "waiting" /\ local'[d] = local[d]
    OBVIOUS
  <2> QED BY <2>1, <2>2, <2>3, <2>4 DEF CallsInv, Started
<1>7. Closed'
  BY <1>1 DEF CallsInv, Closed, InCall, Running
<1> QED BY <1>2, <1>3, <1>4, <1>5, <1>6, <1>7 DEF CallsInv

\* What a wait that has ended its flight, or its caller's context, changes.
LEMMA AnsweredLeaves ==
  ASSUME CallsInv, NEW c \in Callers, Answered(c)
  PROVE  /\ local[c].at \in Callers /\ Leaving(c, local[c].at) /\ flight[local[c].at].state = "done"
         /\ \A g \in Callers : /\ flight'[g].refresh = flight[g].refresh
                               /\ flight'[g].networked = flight[g].networked
<1> DEFINE f == local[c].at
<1>1. f \in Callers /\ flight[f] \in Flights /\ flight[f].state = "done" /\ pc[c] = "waiting"
      /\ flight' = [flight EXCEPT ![f].waiters = @ - 1]
      /\ UNCHANGED <<active, fresh, closing, meta, bodies, damaged>>
  BY DEF CallsInv, TypeOK, Started, Answered, diskVars
<1>2. c \in Waiting(f)
  BY <1>1 DEF Waiting
<1>3. flight[f].waiters - 1 \in Nat
  <2>1. flight[f].waiters \in Nat /\ flight[f].waiters # 0
    BY <1>1, <1>2, WaitingCounts, Counted DEF Flights
  <2> QED BY <2>1
<1>4. flight' \in [Callers -> Flights]
  BY <1>1, <1>3 DEF CallsInv, TypeOK, Flights
<1>5. flight'[f] = [flight[f] EXCEPT !.waiters = @ - 1]
  BY <1>1 DEF CallsInv, TypeOK
<1> HIDE DEF f
<1>6. Leaving(c, f)
  BY <1>1, <1>4, <1>5 DEF Leaving, Flights, CallsInv, TypeOK, f
<1>7. \A g \in Callers : flight'[g].refresh = flight[g].refresh /\ flight'[g].networked = flight[g].networked
  BY <1>1, <1>5 DEF CallsInv, TypeOK, Flights
<1> QED BY <1>1, <1>6, <1>7 DEF f

LEMMA AnsweredKeeps ==
  ASSUME CallsInv, NEW c \in Callers, Answered(c)
  PROVE  CallsInv'
<1> DEFINE f == flight[local[c].at]
<1>1. local[c].at \in Callers /\ Leaving(c, local[c].at) /\ CallTypes
  BY AnsweredLeaves, TypeParts DEF CallsInv
<1>2. CASE f.err # "nil"
  <2>1. Return(c, f.err) /\ f.err \in Ends
    BY <1>1, <1>2 DEF Answered, CallsInv, TypeOK, Flights, Ends
  <2> QED BY <1>1, <2>1, ReturnTypes, LeavingKeeps
<1>3. CASE f.err = "nil" /\ MustRunAgain(c)
  <2>1. Goto(c, "acquire") /\ local[c].joined
    BY <1>3 DEF Answered, MustRunAgain
  <2> QED BY <1>1, <2>1, GotoTypes, LeavingKeeps DEF Labels
<1>4. CASE f.err = "nil" /\ ~MustRunAgain(c) /\ local[c].op = "Get"
  <2>1. Goto(c, "read")
    BY <1>4 DEF Answered
  <2> QED BY <1>1, <2>1, GotoTypes, LeavingKeeps DEF Labels
<1>5. CASE f.err = "nil" /\ ~MustRunAgain(c) /\ local[c].op # "Get"
  <2>1. Return(c, "ok") /\ "ok" \in Ends
    BY <1>5 DEF Answered, Ends
  <2> QED BY <1>1, <2>1, ReturnTypes, LeavingKeeps
<1> QED BY <1>2, <1>3, <1>4, <1>5

LEMMA LeaveLeaves ==
  ASSUME CallsInv, NEW c \in Callers, Leave(c)
  PROVE  /\ local[c].at \in Callers /\ Leaving(c, local[c].at)
         /\ \A g \in Callers : /\ flight'[g].refresh = flight[g].refresh
                               /\ flight'[g].networked = flight[g].networked
<1> DEFINE f == local[c].at
           last == LastWaiter(f) /\ Running(f)
           n == [[[flight[f] EXCEPT !.waiters = @ - 1]
                    EXCEPT !.abandoned = @ \/ last]
                    EXCEPT !.cancelled = @ \/ last]
<1>1. f \in Callers /\ flight[f] \in Flights /\ pc[c] = "waiting"
      /\ UNCHANGED <<active, fresh, closing, meta, bodies, damaged>>
  BY DEF CallsInv, TypeOK, Started, Leave, diskVars
<1>2. flight' = [flight EXCEPT ![f] = n]
  <2>1. flight \in [Callers -> Flights]
    BY DEF CallsInv, TypeOK
  <2>2. flight' = [flight EXCEPT ![f].waiters = @ - 1, ![f].abandoned = @ \/ last, ![f].cancelled = @ \/ last]
    BY DEF Leave
  <2> QED BY <1>1, <2>1, <2>2
<1>3. flight[f].waiters - 1 \in Nat
  <2>1. c \in Waiting(f)
    BY <1>1 DEF Waiting
  <2>2. flight[f].waiters \in Nat /\ flight[f].waiters # 0
    BY <1>1, <2>1, WaitingCounts, Counted DEF Flights
  <2> QED BY <2>2
<1>4. (flight[f].abandoned \/ last) \in BOOLEAN /\ (flight[f].cancelled \/ last) \in BOOLEAN
  BY Zenon
<1>5. last => flight[f].waiters = 1
  BY DEF LastWaiter
<1> HIDE DEF last
<1>6. /\ n \in Flights /\ n.waiters = flight[f].waiters - 1
      /\ n.state = flight[f].state /\ n.answer = flight[f].answer /\ n.err = flight[f].err
      /\ n.refresh = flight[f].refresh /\ n.networked = flight[f].networked
      /\ n.abandoned = (flight[f].abandoned \/ last)
      /\ n.cancelled = (flight[f].cancelled \/ last)
  BY <1>1, <1>3, <1>4 DEF Flights
<1> HIDE DEF n
<1>7. flight'[f] = n /\ \A g \in Callers \ {f} : flight'[g] = flight[g]
  BY <1>1, <1>2 DEF CallsInv, TypeOK
<1>8. Leaving(c, f)
  BY <1>1, <1>2, <1>5, <1>6, <1>7 DEF Leaving
<1> QED BY <1>1, <1>6, <1>7, <1>8

LEMMA LeaveKeeps ==
  ASSUME CallsInv, NEW c \in Callers, Leave(c)
  PROVE  CallsInv'
<1>1. Return(c, "cancelled") /\ "cancelled" \in Ends /\ CallTypes
  BY TypeParts DEF Leave, Ends, CallsInv
<1> QED BY <1>1, LeaveLeaves, ReturnTypes, LeavingKeeps

LEMMA AcquireKeeps ==
  ASSUME CallsInv, NEW c \in Callers, Acquire(c)
  PROVE  CallsInv'
<1>1. pc[c] = "acquire" /\ UNCHANGED <<closing, diskVars>> /\ CallTypes
  BY TypeParts DEF Acquire, CallsInv
<1>2. CASE closing # "open"
  BY <1>1, <1>2, ReturnKeeps DEF Acquire, Ends
<1>3. CASE active # None /\ Retiring(active) /\ closing = "open"
  <2>1. Joins(c, active, "retiring", FALSE) /\ UNCHANGED <<flight, active, fresh>>
    BY <1>3 DEF Acquire, NoneActive
  <2>2. active \in Callers
    BY <1>3 DEF CallsInv, TypeOK
  <2>3. CallTypes' /\ Quiet(c)
    BY <1>1, <1>3, <2>1, <2>2, JoinsTypes DEF Quiet, Unstarted, InCall
  <2> QED BY <1>1, <2>1, <2>3, QuietKeeps, TypesKept DEF CallsInv, diskVars
<1>4. CASE active # None /\ ~Retiring(active) /\ closing = "open"
  <2>1. active \in Callers
    BY <1>4 DEF CallsInv, TypeOK
  <2>2. /\ Joins(c, active, "waiting", TRUE) /\ UNCHANGED <<active, fresh>>
        /\ flight' = [flight EXCEPT ![active].waiters = @ + 1]
    BY <1>4 DEF Acquire, NoneActive
  <2> QED BY <1>1, <1>4, <2>1, <2>2, JoinKeeps
<1>5. CASE active = None /\ closing = "open"
  BY <1>1, <1>5, StartKeeps DEF Acquire, NoneActive
<1> QED BY <1>2, <1>3, <1>4, <1>5 DEF Acquire

LEMMA CallStepKeeps ==
  ASSUME CallsInv, NEW c \in Callers, CallStep(c)
  PROVE  CallsInv'
<1>1. CASE Enter(c)
  BY <1>1, GotoKeeps, ReturnKeeps DEF Enter, Ends
<1>2. CASE Retire(c)
  BY <1>2, GotoKeeps, ReturnKeeps DEF Retire, Ends
<1>3. CASE ReadEntry(c)
  BY <1>3, ReturnKeeps DEF ReadEntry, Ends
<1> QED BY <1>1, <1>2, <1>3, AcquireKeeps, AnsweredKeeps, LeaveKeeps DEF CallStep

-----------------------------------------------------------------------------
(* Close, damage, a kill, and the invariant of calls and flights.          *)

LEMMA CloseKeeps ==
  ASSUME CallsInv, Close
  PROVE  CallsInv'
<1> USE DEF diskVars, callVars
<1>1. CASE closing = "open"
  <2>1. /\ closing' = "calls" /\ UNCHANGED <<pc, local, gone, result, active, fresh, meta, bodies, damaged>>
        /\ flight' = [f \in Callers |-> [flight[f] EXCEPT !.cancelled = @ \/ f = active]]
    BY <1>1 DEF Close
  <2>2. \A f \in Callers : (flight[f].cancelled \/ f = active) \in BOOLEAN
    BY Zenon
  <2>3. \A f \in Callers :
          /\ flight'[f] \in Flights
          /\ flight'[f].state = flight[f].state /\ flight'[f].waiters = flight[f].waiters
          /\ flight'[f].answer = flight[f].answer /\ flight'[f].err = flight[f].err
          /\ flight'[f].abandoned = flight[f].abandoned
          /\ flight[f].cancelled => flight'[f].cancelled
    <3> TAKE f \in Callers
    <3> DEFINE b == flight[f].cancelled \/ f = active
    <3>1. flight[f] \in Flights /\ b \in BOOLEAN /\ (flight[f].cancelled => b)
      BY <2>2 DEF CallsInv, TypeOK
    <3>2. flight'[f] = [flight[f] EXCEPT !.cancelled = b]
      BY <2>1
    <3> HIDE DEF b
    <3> QED BY <3>1, <3>2 DEF Flights
  <2>4. \A g \in Callers : Waiting(g)' = Waiting(g)
    BY <2>1 DEF Waiting
  <2>5. TypeOK'
    BY <2>1, <2>3 DEF CallsInv, TypeOK
  <2>6. WaitersExact'
    BY <2>3, <2>4 DEF CallsInv, WaitersExact
  <2>7. Started'
    <3>1. active' # None => active \in Callers /\ Running(active)
      BY <2>1 DEF CallsInv, TypeOK, Started
    <3>2. active' # None => Running(active)'
      BY <2>1, <2>3, <3>1 DEF Running
    <3> QED BY <2>1, <2>3, <3>2 DEF CallsInv, Started, Unstarted
  <2>8. Answers' /\ OneWriter' /\ Cancellations' /\ Closed'
    BY <2>1, <2>3 DEF CallsInv, Answers, OneWriter, Cancellations, Closed, Running
  <2> QED BY <2>5, <2>6, <2>7, <2>8 DEF CallsInv
<1>2. CASE closing # "open"
  <2>1. UNCHANGED <<pc, local, gone, result, flight, active, fresh, meta, bodies, damaged>>
    BY <1>2 DEF Close
  <2>2. \/ closing = "calls" /\ (\A c \in Callers : ~InCall(c)) /\ closing' = "work"
        \/ closing = "work" /\ (\A f \in Callers : ~Running(f)) /\ closing' = "closed"
    BY <1>2 DEF Close, WorkDone
  <2>3. \A g \in Callers : Waiting(g)' = Waiting(g)
    BY <2>1 DEF Waiting
  <2>4. Closed'
    BY <2>1, <2>2 DEF CallsInv, Closed, InCall, Running
  <2> QED BY <2>1, <2>2, <2>3, <2>4 DEF CallsInv, TypeOK, Answers, OneWriter, WaitersExact, Started,
                                         Unstarted, Cancellations, Running
<1> QED BY <1>1, <1>2

LEMMA DamageKeeps ==
  ASSUME CallsInv, Damage
  PROVE  CallsInv'
<1>1. UNCHANGED <<pc, local, gone, result, flight, active, fresh, closing, meta, bodies>> /\ damaged' = TRUE
  BY DEF Damage, callVars
<1>2. \A g \in Callers : Waiting(g)' = Waiting(g)
  BY <1>1 DEF Waiting
<1> QED BY <1>1, <1>2 DEF CallsInv, TypeOK, Answers, OneWriter, WaitersExact, Started, Unstarted,
                          Cancellations, Closed, InCall, Running

LEMMA RestartKeeps ==
  ASSUME CallsInv, Restart
  PROVE  CallsInv'
<1>1. \A c \in Callers : pc'[c] \in {"idle", "returned"} /\ flight'[c] = NoFlight /\ local'[c] = NoLocal
  BY DEF Restart, InCall, CallsInv, TypeOK
<1>2. NoFlight \in Flights /\ NoLocal \in Locals
  BY DEF NoFlight, Flights, NoLocal, Locals
<1>3. TypeOK'
  <2>1. pc' \in [Callers -> {"idle", "returned"}] /\ flight' \in [Callers -> Flights] /\ local' \in [Callers -> Locals]
    BY <1>1, <1>2 DEF Restart
  <2>2. result' \in [Callers -> {"none", "ok", "failed", "cancelled", "closed", "killed"}]
    BY DEF Restart, CallsInv, TypeOK
  <2>3. meta' \in Metas
    BY DEF Restart, CallsInv, TypeOK, Metas, NoMeta
  <2> QED BY <2>1, <2>2, <2>3 DEF Restart, CallsInv, TypeOK
<1>4. \A f \in Callers : /\ flight'[f].state = "none" /\ flight'[f].waiters = 0 /\ flight'[f].err = "nil"
                         /\ flight'[f].abandoned = FALSE /\ flight'[f].cancelled = FALSE
  BY <1>1 DEF NoFlight
<1>5. \A f \in Callers : Waiting(f)' = {}
  BY <1>1 DEF Waiting
<1>6. WaitersExact'
  BY <1>4, <1>5, FS_EmptySet DEF WaitersExact
<1>7. active' = None /\ closing' = "open"
  BY DEF Restart
<1> QED BY <1>1, <1>3, <1>4, <1>6, <1>7 DEF CallsInv, Answers, OneWriter, Started, Unstarted,
                                        Cancellations, Closed, Running, Working

LEMMA InitCalls ==
  ASSUME Init
  PROVE  CallsInv
<1>1. NoFlight \in Flights /\ NoLocal \in Locals
  BY DEF NoFlight, Flights, NoLocal, Locals
<1>2. TypeOK
  <2>1. meta \in Metas /\ bodies \subseteq Bodies
    BY DEF Init, Metas, NoMeta
  <2> QED BY <1>1, <2>1 DEF Init, TypeOK
<1>3. \A f \in Callers : /\ flight[f].state = "none" /\ flight[f].waiters = 0 /\ flight[f].err = "nil"
                         /\ flight[f].abandoned = FALSE /\ flight[f].cancelled = FALSE
  BY DEF Init, NoFlight
<1>4. \A f \in Callers : Waiting(f) = {}
  BY DEF Waiting, Init
<1>5. WaitersExact
  BY <1>3, <1>4, FS_EmptySet DEF WaitersExact
<1> QED BY <1>2, <1>3, <1>5 DEF Init, CallsInv, Answers, OneWriter, Started, Unstarted,
                            Cancellations, Closed, Running, Working

LEMMA NextKeepsCalls ==
  ASSUME CallsInv, [Next]_vars
  PROVE  CallsInv'
<1>1. CASE UNCHANGED vars
  <2>1. UNCHANGED <<pc, local, gone, result, flight, active, fresh, closing, meta, bodies, damaged>>
    BY <1>1 DEF vars, callVars, diskVars
  <2>2. \A g \in Callers : Waiting(g)' = Waiting(g)
    BY <2>1 DEF Waiting
  <2> QED BY <2>1, <2>2 DEF CallsInv, TypeOK, Answers, OneWriter, WaitersExact, Started, Unstarted,
                            Cancellations, Closed, InCall, Running
<1>2. ASSUME NEW c \in Callers, Begin(c) \/ CallStep(c) \/ EndContext(c) \/ FlightStep(c)
      PROVE  CallsInv'
  BY <1>2, BeginKeeps, CallStepKeeps, EndContextKeeps, FlightStepKeeps
<1> QED BY <1>1, <1>2, CloseKeeps, DamageKeeps, RestartKeeps DEF Next, Idle

\* The calls and the flight of a URL, for any number of calls.
THEOREM CallsInvariant == Spec => []CallsInv
<1>1. Init => CallsInv
  BY InitCalls
<1>2. CallsInv /\ [Next]_vars => CallsInv'
  BY NextKeepsCalls
<1> QED BY <1>1, <1>2, PTL DEF Spec

\* The state of Store stays well typed.
THEOREM TypeCorrect == Spec => []TypeOK
<1>1. CallsInv => TypeOK
  BY DEF CallsInv
<1> QED BY <1>1, CallsInvariant, PTL

\* At most one goroutine works on a URL, the one in Store.flights, however
\* often flights are abandoned, waited for and started again.
THEOREM OneWriterAlways == Spec => []OneWriter
<1>1. CallsInv => OneWriter
  BY DEF CallsInv
<1> QED BY <1>1, CallsInvariant, PTL

\* waiters counts the calls in Store.wait: no call is left in an abandoned
\* flight, and none keeps an abandoned flight alive.
THEOREM WaitersAlwaysExact == Spec => []WaitersExact
<1>1. CallsInv => WaitersExact
  BY DEF CallsInv
<1> QED BY <1>1, CallsInvariant, PTL

\* Close closes the root after the last call and the last flight.
THEOREM RootClosedLast == Spec => []RootUnusedWhenClosed
<1>1. CallsInv => RootUnusedWhenClosed
  BY DEF CallsInv, Closed, RootUnusedWhenClosed
<1> QED BY <1>1, CallsInvariant, PTL

-----------------------------------------------------------------------------
(* Whose cancellation a call returns.                                      *)

LEMMA OwnCancellation ==
  ASSUME CallsInv, NEW c \in Callers, CallStep(c), Returns(c, "cancelled")
  PROVE  c \in gone \/ closing # "open"
<1> USE DEF Returns
<1>1. CallTypes
  BY TypeParts DEF CallsInv
<1>2. \A r \in Ends : Return(c, r) => r = "cancelled"
  BY <1>1, ReturnTypes
<1>3. \A l \in Labels : Goto(c, l) => l = "returned"
  BY <1>1, GotoTypes
<1>4. CASE Enter(c)
  BY <1>2, <1>3, <1>4 DEF Enter, Ends, Labels
<1>5. CASE Acquire(c)
  <2>1. \A f, l, shared : Joins(c, f, l, shared) => l = "returned"
    BY <1>1 DEF Joins, CallTypes
  <2> QED BY <1>2, <1>5, <2>1 DEF Acquire, Ends
<1>6. CASE Retire(c)
  BY <1>3, <1>6 DEF Retire, Labels
<1>7. CASE Answered(c)
  <2> DEFINE f == local[c].at
  <2>1. f \in Callers /\ flight[f] \in Flights /\ pc[c] = "waiting"
    BY <1>7 DEF CallsInv, TypeOK, Started, Answered
  <2>2. flight[f].err \in {"nil", "failed", "cancelled"}
    BY <2>1 DEF Flights
  <2>3. flight[f].err = "cancelled"
    BY <1>2, <1>3, <1>7, <2>2 DEF Answered, Ends, Labels
  <2>4. c \in Waiting(f)
    BY <2>1 DEF Waiting
  <2> QED BY <2>1, <2>3, <2>4, Counted DEF CallsInv, Cancellations
<1>8. CASE Leave(c)
  BY <1>8 DEF Leave
<1>9. CASE ReadEntry(c)
  BY <1>2, <1>9 DEF ReadEntry, Ends
<1> QED BY <1>4, <1>5, <1>6, <1>7, <1>8, <1>9 DEF CallStep

\* A step of one call leaves the others where they are.
LEMMA OthersStay ==
  ASSUME CallsInv, NEW c \in Callers, NEW d \in Callers, c # d,
         Begin(c) \/ CallStep(c) \/ EndContext(c) \/ FlightStep(c)
  PROVE  pc'[d] = pc[d]
<1>1. CallTypes
  BY TypeParts DEF CallsInv
<1>2. \A l : Goto(c, l) => pc'[d] = pc[d]
  BY <1>1 DEF Goto, CallTypes
<1>3. \A r : Return(c, r) => pc'[d] = pc[d]
  BY <1>1 DEF Return, CallTypes
<1>4. \A f, l, shared : Joins(c, f, l, shared) => pc'[d] = pc[d]
  BY <1>1 DEF Joins, CallTypes
<1>5. CASE Begin(c)
  BY <1>1, <1>3, <1>5 DEF Begin, CallTypes
<1>6. CASE EndContext(c)
  BY <1>6 DEF EndContext
<1>7. CASE FlightStep(c)
  BY <1>7, FlightStepWorks DEF CallsInv, Works
<1>8. CASE Enter(c)
  BY <1>2, <1>3, <1>8 DEF Enter
<1>9. CASE Acquire(c)
  BY <1>3, <1>4, <1>9 DEF Acquire
<1>10. CASE Retire(c)
  BY <1>2, <1>3, <1>10 DEF Retire
<1>11. CASE Answered(c)
  BY <1>2, <1>3, <1>11 DEF Answered
<1>12. CASE Leave(c)
  BY <1>3, <1>12 DEF Leave
<1>13. CASE ReadEntry(c)
  BY <1>3, <1>13 DEF ReadEntry
<1> QED BY <1>5, <1>6, <1>7, <1>8, <1>9, <1>10, <1>11, <1>12, <1>13 DEF CallStep

LEMMA NextCancels ==
  ASSUME CallsInv, [Next]_vars, NEW c \in Callers, Returns(c, "cancelled")
  PROVE  c \in gone \/ closing # "open"
<1> USE DEF Returns, callVars
<1>1. pc'[c] # pc[c]
  BY DEF InCall
<1>2. CASE Begin(c)
  BY <1>2 DEF Begin, InCall
<1>3. CASE CallStep(c)
  BY <1>3, OwnCancellation
<1>4. CASE EndContext(c)
  BY <1>1, <1>4 DEF EndContext
<1>5. CASE FlightStep(c)
  BY <1>1, <1>5, FlightStepWorks DEF CallsInv, Works
<1>6. CASE \E d \in Callers \ {c} : Begin(d) \/ CallStep(d) \/ EndContext(d) \/ FlightStep(d)
  BY <1>1, <1>6, OthersStay
<1>7. CASE Close
  BY <1>1, <1>7 DEF Close
<1>8. CASE Damage
  BY <1>1, <1>8 DEF Damage
<1>9. CASE Restart
  <2>1. result'[c] = "killed"
    BY <1>9 DEF Restart
  <2> QED BY <2>1
<1>10. CASE UNCHANGED vars
  BY <1>1, <1>10 DEF vars
<1> QED BY <1>2, <1>3, <1>4, <1>5, <1>6, <1>7, <1>8, <1>9, <1>10 DEF Next, Idle

-----------------------------------------------------------------------------
(* The files: what metadata, freshness and a successful refresh mean.      *)

\* What the flights that do not move keep.
LEMMA SameFiles ==
  ASSUME NEW f \in Callers, FlightFiles(f), bodies \subseteq bodies', Validated => Validated',
         flight'[f].state = flight[f].state, flight'[f].answer = flight[f].answer,
         flight'[f].err = flight[f].err, flight'[f].refresh = flight[f].refresh,
         flight'[f].networked = flight[f].networked
  PROVE  FlightFiles(f)'
BY DEF FlightFiles

LEMMA FlightStepFiles ==
  ASSUME CallsInv, FilesInv, NEW f \in Callers, FlightStep(f)
  PROVE  FilesInv'
<1> USE DEF callVars, diskVars
<1>1. /\ Works(f) /\ flight[f] \in Flights /\ FlightFiles(f)
      /\ \A g \in Callers \ {f} : flight'[g] = flight[g]
  BY FlightStepWorks DEF CallsInv, FilesInv, Works, TypeOK
<1>2. /\ bodies \subseteq bodies' /\ (Validated => Validated') /\ MetadataHasBody'
      /\ FlightFiles(f)' /\ FreshMeansValidated'
  <2> DEFINE n == flight'[f]
  <2>0. FlightFiles(f) /\ MetadataHasBody /\ FreshMeansValidated
    BY <1>1 DEF FilesInv
  <2>1. CASE Check(f)
    <3>1. UNCHANGED <<fresh, meta, bodies>> /\ flight[f].state = "check"
      BY <2>1 DEF Check
    <3>2. \/ n.state = "unfresh"
          \/ n.state = "finish" /\ n.err # "nil"
          \/ n.state = "finish" /\ ~n.refresh /\ n.networked = flight[f].networked
      BY <1>1, <2>1 DEF Check, Advance, Fails, StopError, Flights, CallsInv, TypeOK
    <3> QED BY <2>0, <3>1, <3>2 DEF FlightFiles, MetadataHasBody, FreshMeansValidated, Validated
  <2>2. CASE Unfresh(f)
    <3>1. UNCHANGED <<meta, bodies>> /\ fresh' = FALSE /\ n.state = "network"
      BY <1>1, <2>2 DEF Unfresh, Flights, CallsInv, TypeOK
    <3> QED BY <2>0, <3>1 DEF FlightFiles, MetadataHasBody, FreshMeansValidated, Validated
  <2>3. CASE Network(f)
    <3>1. UNCHANGED <<fresh, meta, bodies>>
      BY <2>3 DEF Network
    <3>2. \/ n.state = "body"
          \/ n.state = "meta" /\ n.answer = meta.body /\ meta # NoMeta
          \/ n.state = "finish" /\ n.err # "nil"
      BY <1>1, <2>3 DEF Network, Fails, StopError, BodyFirst, Flights, CallsInv, TypeOK
    <3> QED BY <2>0, <3>1, <3>2 DEF FlightFiles, MetadataHasBody, FreshMeansValidated, Validated
  <2>4. CASE PublishBody(f)
    <3>1. UNCHANGED <<fresh, meta>>
      BY <2>4 DEF PublishBody
    <3>2. \/ n.state = "meta" /\ n.answer = flight[f].answer /\ bodies' = bodies \cup {flight[f].answer}
          \/ n.state = "finish" /\ n.err # "nil" /\ bodies' = bodies
      BY <1>1, <2>4 DEF PublishBody, Advance, Fails, Flights, CallsInv, TypeOK
    <3> QED BY <2>0, <3>1, <3>2 DEF FlightFiles, MetadataHasBody, FreshMeansValidated, Validated
  <2>5. CASE WriteMetadata(f)
    <3>1. UNCHANGED <<fresh, bodies>> /\ flight[f].answer \in bodies
      BY <2>0, <2>5 DEF WriteMetadata, FlightFiles
    <3>2. \/ /\ n.state = "verify"
             /\ meta' = [body |-> flight[f].answer, lifetime |-> "this"]
          \/ n.state = "finish" /\ n.err # "nil" /\ meta' = meta
      <4>1. Advance(f, "verify") => n.state = "verify"
        BY <1>1 DEF Advance, Flights, CallsInv, TypeOK
      <4>2. Fails(f, "failed") => n.state = "finish" /\ n.err # "nil"
        BY <1>1 DEF Fails, Flights, CallsInv, TypeOK
      <4> QED BY <2>5, <4>1, <4>2, Zenon DEF WriteMetadata
    <3>3. meta' = [body |-> flight[f].answer, lifetime |-> "this"] => Validated'
      BY DEF Validated, NoMeta
    <3> QED BY <2>0, <3>1, <3>2, <3>3 DEF FlightFiles, MetadataHasBody, FreshMeansValidated, Validated
  <2>6. CASE Verify(f)
    <3>1. UNCHANGED <<fresh, meta, bodies>> /\ Validated
      BY <2>0, <2>6 DEF Verify, FlightFiles
    <3>2. n.state = "finish"
      BY <1>1, <2>6 DEF Verify, Advance, Fails, StopError, Flights, CallsInv, TypeOK
    <3> QED BY <2>0, <3>1, <3>2 DEF FlightFiles, MetadataHasBody, FreshMeansValidated, Validated
  <2>7. CASE Finish(f)
    <3>1. /\ UNCHANGED <<meta, bodies>> /\ flight[f].state = "finish"
          /\ fresh' => \/ (flight[f].refresh \/ flight[f].networked) /\ flight[f].err = "nil"
                       \/ fresh
      BY <2>7, Zenon DEF Finish, FreshAfter
    <3>2. /\ n.state = "done" /\ n.err = flight[f].err
          /\ n.refresh = flight[f].refresh /\ n.networked = flight[f].networked
      BY <1>1, <2>7 DEF Finish, Flights, CallsInv, TypeOK
    <3> QED BY <2>0, <3>1, <3>2 DEF FlightFiles, MetadataHasBody, FreshMeansValidated, Validated
  <2> QED BY <2>1, <2>2, <2>3, <2>4, <2>5, <2>6, <2>7 DEF FlightStep
<1>3. \A g \in Callers : FlightFiles(g)'
  BY <1>1, <1>2, SameFiles DEF FilesInv
<1>4. \A c \in Callers : CallFiles(c)'
  <2>1. \A g \in Callers : flight'[g].refresh = flight[g].refresh
    BY <1>1 DEF Works
  <2>2. \A c \in Callers : pc[c] = "waiting" => local[c].at \in Callers
    BY DEF CallsInv, Started
  <2> QED BY <1>1, <1>2, <2>1, <2>2 DEF Works, FilesInv, CallFiles
<1> QED BY <1>2, <1>3, <1>4 DEF FilesInv

\* Calls other than c keep their place, and flights and files what matters here.
LEMMA OneCallFiles ==
  ASSUME CallsInv, FilesInv, NEW c \in Callers,
         \A g \in Callers : /\ flight'[g].state = flight[g].state /\ flight'[g].answer = flight[g].answer
                            /\ flight'[g].err = flight[g].err /\ flight'[g].refresh = flight[g].refresh
                            /\ flight'[g].networked = flight[g].networked,
         UNCHANGED <<fresh, meta, bodies>>,
         \A d \in Callers \ {c} : pc'[d] = pc[d] /\ local'[d] = local[d],
         CallFiles(c)'
  PROVE  FilesInv'
<1>1. MetadataHasBody' /\ FreshMeansValidated' /\ (Validated <=> Validated')
  BY DEF FilesInv, MetadataHasBody, FreshMeansValidated, Validated
<1>2. \A f \in Callers : FlightFiles(f)'
  BY <1>1, SameFiles DEF FilesInv
<1>3. \A d \in Callers \ {c} : CallFiles(d)'
  BY <1>1 DEF FilesInv, CallFiles, CallsInv, Started
<1> QED BY <1>1, <1>2, <1>3 DEF FilesInv

\* A step that leaves c neither waiting nor reading.
LEMMA IdleFiles ==
  ASSUME CallsInv, FilesInv, NEW c \in Callers, UNCHANGED <<flight, fresh, meta, bodies>>,
         \A d \in Callers \ {c} : pc'[d] = pc[d] /\ local'[d] = local[d],
         pc'[c] \notin {"waiting", "read"}
  PROVE  FilesInv'
<1>1. CallFiles(c)'
  BY DEF CallFiles
<1> QED BY <1>1, OneCallFiles

LEMMA AnsweredFiles ==
  ASSUME CallsInv, FilesInv, NEW c \in Callers, Answered(c)
  PROVE  FilesInv' /\ (Returns(c, "ok") /\ local[c].refresh => Validated)
<1> DEFINE f == local[c].at
<1>1. /\ f \in Callers /\ Leaving(c, f) /\ CallTypes /\ pc[c] = "waiting" /\ flight[f].state = "done"
      /\ \A g \in Callers : flight'[g].refresh = flight[g].refresh /\ flight'[g].networked = flight[g].networked
  BY AnsweredLeaves, TypeParts DEF CallsInv, Leaving
<1>2. \A g \in Callers : /\ flight'[g].state = flight[g].state /\ flight'[g].answer = flight[g].answer
                         /\ flight'[g].err = flight[g].err
  BY <1>1 DEF Leaving, CallsInv, TypeOK
<1>3. flight[f].err = "nil" /\ ~MustRunAgain(c) /\ local[c].refresh => Validated
  <2>1. FlightFiles(f) /\ CallFiles(c)
    BY <1>1 DEF FilesInv
  <2> QED BY <1>1, <2>1 DEF MustRunAgain, FlightFiles, CallFiles
<1>4. \A r \in Ends : Return(c, r) =>
         /\ pc'[c] = "returned" /\ result'[c] = r
         /\ \A d \in Callers \ {c} : pc'[d] = pc[d] /\ local'[d] = local[d]
  BY <1>1, ReturnTypes
<1>5. \A l \in Labels : Goto(c, l) =>
         pc'[c] = l /\ local' = local /\ \A d \in Callers \ {c} : pc'[d] = pc[d] /\ local'[d] = local[d]
  BY <1>1, GotoTypes
<1>6. UNCHANGED <<fresh, meta, bodies>> /\ flight[f].err \in {"nil", "failed", "cancelled"}
  BY <1>1 DEF Leaving, CallsInv, TypeOK, Flights
<1>7. CASE flight[f].err # "nil"
  <2>1. Return(c, flight[f].err) /\ flight[f].err \in Ends
    BY <1>6, <1>7 DEF Answered, Ends
  <2>2. pc'[c] = "returned" /\ CallFiles(c)'
    BY <1>4, <2>1 DEF CallFiles
  <2> QED BY <1>1, <1>2, <1>4, <1>6, <1>7, <2>1, <2>2, OneCallFiles DEF Returns
<1>8. CASE flight[f].err = "nil" /\ MustRunAgain(c)
  <2>1. Goto(c, "acquire") /\ "acquire" \in Labels
    BY <1>8 DEF Answered, Labels
  <2>2. pc'[c] = "acquire" /\ CallFiles(c)'
    BY <1>5, <2>1 DEF CallFiles
  <2> QED BY <1>1, <1>2, <1>5, <1>6, <2>1, <2>2, OneCallFiles DEF Returns
<1>9. CASE flight[f].err = "nil" /\ ~MustRunAgain(c) /\ local[c].op = "Get"
  <2>1. Goto(c, "read") /\ "read" \in Labels
    BY <1>9 DEF Answered, Labels
  <2>2. pc'[c] = "read" /\ CallFiles(c)'
    BY <1>3, <1>5, <1>6, <1>9, <2>1 DEF CallFiles, Validated
  <2> QED BY <1>1, <1>2, <1>5, <1>6, <2>1, <2>2, OneCallFiles DEF Returns
<1>10. CASE flight[f].err = "nil" /\ ~MustRunAgain(c) /\ local[c].op # "Get"
  <2>1. Return(c, "ok") /\ "ok" \in Ends
    BY <1>10 DEF Answered, Ends
  <2>2. CallFiles(c)'
    BY <1>4, <2>1 DEF CallFiles
  <2> QED BY <1>1, <1>2, <1>3, <1>4, <1>6, <1>10, <2>1, <2>2, OneCallFiles
<1> QED BY <1>7, <1>8, <1>9, <1>10

LEMMA AcquireFiles ==
  ASSUME CallsInv, FilesInv, NEW c \in Callers, Acquire(c)
  PROVE  FilesInv'
<1>1. pc[c] = "acquire" /\ UNCHANGED <<meta, bodies>> /\ CallTypes
  BY TypeParts DEF Acquire, CallsInv, diskVars
<1>2. CASE closing # "open"
  <2>1. Return(c, "closed") /\ "closed" \in Ends /\ UNCHANGED <<flight, fresh>>
    BY <1>2 DEF Acquire, Ends
  <2> QED BY <1>1, <2>1, ReturnTypes, IdleFiles
<1>3. CASE active # None /\ Retiring(active) /\ closing = "open"
  <2>1. Joins(c, active, "retiring", FALSE) /\ UNCHANGED <<flight, fresh>> /\ active \in Callers
    BY <1>3 DEF Acquire, NoneActive, CallsInv, TypeOK
  <2> QED BY <1>1, <2>1, JoinsTypes, IdleFiles
<1>4. CASE active # None /\ ~Retiring(active) /\ closing = "open"
  <2>1. /\ Joins(c, active, "waiting", TRUE) /\ UNCHANGED fresh /\ active \in Callers
        /\ flight' = [flight EXCEPT ![active].waiters = @ + 1]
    BY <1>4 DEF Acquire, NoneActive, CallsInv, TypeOK
  <2>2. \A g \in Callers : /\ flight'[g].state = flight[g].state /\ flight'[g].answer = flight[g].answer
                           /\ flight'[g].err = flight[g].err /\ flight'[g].refresh = flight[g].refresh
                           /\ flight'[g].networked = flight[g].networked
    BY <2>1 DEF CallsInv, TypeOK, Flights
  <2>3. /\ pc'[c] = "waiting" /\ local'[c].joined = TRUE
        /\ \A d \in Callers \ {c} : pc'[d] = pc[d] /\ local'[d] = local[d]
    BY <1>1, <2>1, JoinsTypes
  <2>4. CallFiles(c)'
    BY <2>3 DEF CallFiles
  <2> QED BY <1>1, <2>1, <2>2, <2>3, <2>4, OneCallFiles
<1>5. CASE active = None /\ closing = "open"
  <2>1. /\ Joins(c, c, "waiting", FALSE) /\ (fresh' => fresh)
        /\ flight' = [flight EXCEPT ![c] = NewFlight(local[c].refresh)]
    BY <1>5, Zenon DEF Acquire, NoneActive
  <2>2. /\ pc'[c] = "waiting" /\ local'[c].at = c /\ local'[c].refresh = local[c].refresh
        /\ \A d \in Callers \ {c} : pc'[d] = pc[d] /\ local'[d] = local[d]
    BY <1>1, <2>1, JoinsTypes
  <2>3. /\ flight'[c].state = "check" /\ flight'[c].refresh = local[c].refresh /\ flight'[c].networked = FALSE
        /\ \A g \in Callers \ {c} : flight'[g] = flight[g]
    BY <2>1 DEF NewFlight, NoFlight, CallsInv, TypeOK
  <2>4. MetadataHasBody' /\ FreshMeansValidated' /\ (Validated <=> Validated')
    BY <1>1, <2>1 DEF FilesInv, MetadataHasBody, FreshMeansValidated, Validated
  <2>5. FlightFiles(c)' /\ CallFiles(c)'
    BY <2>2, <2>3 DEF FlightFiles, CallFiles
  <2>6. \A g \in Callers \ {c} : FlightFiles(g)'
    BY <1>1, <2>3, <2>4, SameFiles DEF FilesInv
  <2>7. \A d \in Callers \ {c} : CallFiles(d)'
    <3> TAKE d \in Callers \ {c}
    <3>1. pc[d] = "waiting" => local[d].at \in Callers \ {c}
      BY <1>1 DEF CallsInv, Started, Unstarted
    <3> QED BY <2>2, <2>3, <2>4, <3>1 DEF FilesInv, CallFiles
  <2> QED BY <2>4, <2>5, <2>6, <2>7 DEF FilesInv
<1> QED BY <1>2, <1>3, <1>4, <1>5 DEF Acquire

LEMMA CallStepFiles ==
  ASSUME CallsInv, FilesInv, NEW c \in Callers, CallStep(c)
  PROVE  FilesInv'
<1> USE DEF diskVars
<1>1. CallTypes
  BY TypeParts DEF CallsInv
<1>2. \A r \in Ends : Return(c, r) /\ UNCHANGED <<flight, fresh, meta, bodies>> => FilesInv'
  BY <1>1, ReturnTypes, IdleFiles
<1>3. \A l \in {"acquire", "retiring"} :
        Goto(c, l) /\ UNCHANGED <<flight, fresh, meta, bodies>> => FilesInv'
  BY <1>1, GotoTypes, IdleFiles DEF Labels
<1>4. CASE Enter(c)
  BY <1>2, <1>3, <1>4 DEF Enter, Ends
<1>5. CASE Retire(c)
  BY <1>2, <1>3, <1>5 DEF Retire, Ends
<1>6. CASE ReadEntry(c)
  BY <1>2, <1>6 DEF ReadEntry, Ends
<1>7. CASE Leave(c)
  <2>1. Return(c, "cancelled") /\ "cancelled" \in Ends
    BY <1>7 DEF Leave, Ends
  <2>2. /\ pc'[c] = "returned" /\ CallFiles(c)'
        /\ \A d \in Callers \ {c} : pc'[d] = pc[d] /\ local'[d] = local[d]
    BY <1>1, <2>1, ReturnTypes DEF CallFiles
  <2>3. \A g \in Callers : /\ flight'[g].state = flight[g].state /\ flight'[g].answer = flight[g].answer
                           /\ flight'[g].err = flight[g].err /\ flight'[g].refresh = flight[g].refresh
                           /\ flight'[g].networked = flight[g].networked
    BY <1>7, LeaveLeaves DEF Leaving, CallsInv, TypeOK
  <2> QED BY <1>7, <2>2, <2>3, OneCallFiles DEF Leave
<1> QED BY <1>4, <1>5, <1>6, <1>7, AcquireFiles, AnsweredFiles DEF CallStep

LEMMA BeginFiles ==
  ASSUME CallsInv, FilesInv, NEW c \in Callers, Begin(c)
  PROVE  FilesInv'
<1>1. CallTypes /\ UNCHANGED <<flight, fresh, meta, bodies>>
  BY TypeParts DEF CallsInv, Begin, diskVars
<1>2. CASE closing # "open"
  <2>1. Return(c, "closed") /\ "closed" \in Ends
    BY <1>2 DEF Begin, Ends
  <2> QED BY <1>1, <2>1, ReturnTypes, IdleFiles
<1>3. CASE closing = "open"
  <2>1. pc'[c] = "entry" /\ \A d \in Callers \ {c} : pc'[d] = pc[d] /\ local'[d] = local[d]
    BY <1>1, <1>3 DEF Begin, CallTypes
  <2> QED BY <1>1, <2>1, IdleFiles
<1> QED BY <1>2, <1>3

\* Close, damage and the ends of contexts change nothing that the files depend on.
LEMMA OtherFiles ==
  ASSUME CallsInv, FilesInv, UNCHANGED <<pc, local, fresh, meta, bodies>>,
         \A g \in Callers : /\ flight'[g].state = flight[g].state /\ flight'[g].answer = flight[g].answer
                            /\ flight'[g].err = flight[g].err /\ flight'[g].refresh = flight[g].refresh
                            /\ flight'[g].networked = flight[g].networked
  PROVE  FilesInv'
<1>1. MetadataHasBody' /\ FreshMeansValidated' /\ (Validated <=> Validated')
  BY DEF FilesInv, MetadataHasBody, FreshMeansValidated, Validated
<1>2. \A f \in Callers : FlightFiles(f)'
  BY <1>1, SameFiles DEF FilesInv
<1>3. \A c \in Callers : CallFiles(c)'
  BY <1>1 DEF FilesInv, CallFiles, CallsInv, Started
<1> QED BY <1>1, <1>2, <1>3 DEF FilesInv

LEMMA RestartFiles ==
  ASSUME CallsInv, FilesInv, Restart
  PROVE  FilesInv'
<1>1. \A c \in Callers : pc'[c] \in {"idle", "returned"} /\ flight'[c] = NoFlight
  BY DEF Restart, InCall, CallsInv, TypeOK
<1>2. \A c \in Callers : FlightFiles(c)' /\ CallFiles(c)'
  BY <1>1 DEF FlightFiles, CallFiles, NoFlight
<1>3. FreshMeansValidated' /\ bodies' = bodies
  BY DEF Restart, FreshMeansValidated
<1>4. MetadataHasBody'
  BY <1>3 DEF Restart, FilesInv, MetadataHasBody, CallsInv, TypeOK, Metas, NoMeta
<1> QED BY <1>2, <1>3, <1>4 DEF FilesInv

LEMMA NextKeepsFiles ==
  ASSUME CallsInv, FilesInv, [Next]_vars
  PROVE  FilesInv'
<1> USE DEF callVars, diskVars
<1>1. CASE UNCHANGED vars
  BY <1>1, OtherFiles DEF vars
<1>2. CASE \E c \in Callers : Begin(c) \/ CallStep(c) \/ FlightStep(c)
  BY <1>2, BeginFiles, CallStepFiles, FlightStepFiles
<1>3. CASE \E c \in Callers : EndContext(c)
  BY <1>3, OtherFiles DEF EndContext
<1>4. CASE Close
  <2>1. UNCHANGED <<pc, local, fresh, meta, bodies>>
    BY <1>4 DEF Close
  <2>2. \/ flight' = [f \in Callers |-> [flight[f] EXCEPT !.cancelled = @ \/ f = active]]
        \/ flight' = flight
    BY <1>4 DEF Close
  <2>3. \A g \in Callers : /\ flight'[g].state = flight[g].state /\ flight'[g].answer = flight[g].answer
                           /\ flight'[g].err = flight[g].err /\ flight'[g].refresh = flight[g].refresh
                           /\ flight'[g].networked = flight[g].networked
    BY <2>2 DEF CallsInv, TypeOK, Flights
  <2> QED BY <2>1, <2>3, OtherFiles
<1>5. CASE Damage
  BY <1>5, OtherFiles DEF Damage
<1> QED BY <1>1, <1>2, <1>3, <1>4, <1>5, RestartFiles DEF Next, Idle

LEMMA InitFiles ==
  ASSUME Init
  PROVE  FilesInv
BY DEF Init, FilesInv, FlightFiles, CallFiles, MetadataHasBody, FreshMeansValidated, NoFlight, NoLocal

\* The files of a URL, for any number of calls, flights, kills and damages.
THEOREM FilesInvariant == Spec => [](CallsInv /\ FilesInv)
<1>1. Init => FilesInv
  BY InitFiles
<1>2. CallsInv /\ FilesInv /\ [Next]_vars => FilesInv'
  BY NextKeepsFiles
<1> QED BY <1>1, <1>2, CallsInvariant, PTL DEF Spec

\* The metadata pointer never names a missing body, whenever the process is killed.
THEOREM MetadataAlwaysHasBody == Spec => []MetadataHasBody
<1>1. FilesInv => MetadataHasBody
  BY DEF FilesInv
<1> QED BY <1>1, FilesInvariant, PTL

\* An entry marked fresh was validated by the server in this Store's lifetime.
THEOREM FreshAlwaysValidated == Spec => []FreshMeansValidated
<1>1. FilesInv => FreshMeansValidated
  BY DEF FilesInv
<1> QED BY <1>1, FilesInvariant, PTL

\* The files and the fresh mark tell the truth, however many flights write them.
THEOREM DiskAlwaysTruthful == Spec => []DiskTruthful
<1>1. MetadataHasBody /\ FreshMeansValidated => DiskTruthful
  BY DEF DiskTruthful
<1> QED BY <1>1, MetadataAlwaysHasBody, FreshAlwaysValidated, PTL

LEMMA NextValidates ==
  ASSUME CallsInv, FilesInv, [Next]_vars, NEW c \in Callers, Returns(c, "ok"), local[c].refresh
  PROVE  Validated
<1>0. CallTypes /\ pc'[c] # pc[c] /\ pc'[c] = "returned" /\ result'[c] = "ok"
  BY TypeParts DEF CallsInv, Returns, InCall
<1>1. \A r \in Ends : Return(c, r) => r = "ok"
  BY <1>0, ReturnTypes
<1>2. \A l \in Labels : Goto(c, l) => l = "returned"
  BY <1>0, GotoTypes
<1> USE DEF callVars
<1>3. CASE Begin(c)
  BY <1>3 DEF Begin, Returns, InCall
<1>4. CASE Enter(c)
  BY <1>1, <1>2, <1>4 DEF Enter, Ends, Labels, FilesInv, FreshMeansValidated, Validated
<1>5. CASE Acquire(c)
  <2>1. \A f, l, shared : Joins(c, f, l, shared) => l = "returned"
    BY <1>0 DEF Joins, CallTypes
  <2> QED BY <1>1, <1>5, <2>1 DEF Acquire, Ends
<1>6. CASE Retire(c)
  BY <1>1, <1>2, <1>6 DEF Retire, Ends, Labels
<1>7. CASE Answered(c)
  BY <1>7, AnsweredFiles
<1>8. CASE Leave(c)
  BY <1>1, <1>8 DEF Leave, Ends
<1>9. CASE ReadEntry(c)
  BY <1>9 DEF ReadEntry, FilesInv, CallFiles
<1>10. CASE EndContext(c)
  BY <1>0, <1>10 DEF EndContext
<1>11. CASE FlightStep(c)
  BY <1>0, <1>11, FlightStepWorks DEF CallsInv, Works
<1>12. CASE \E d \in Callers \ {c} : Begin(d) \/ CallStep(d) \/ EndContext(d) \/ FlightStep(d)
  BY <1>0, <1>12, OthersStay
<1>13. CASE Close \/ Damage
  BY <1>0, <1>13 DEF Close, Damage
<1>14. CASE Restart
  <2>1. result'[c] = "killed"
    BY <1>14 DEF Restart, Returns
  <2> QED BY <1>0, <2>1
<1>15. CASE UNCHANGED vars
  BY <1>0, <1>15 DEF vars
<1> QED BY <1>3, <1>4, <1>5, <1>6, <1>7, <1>8, <1>9, <1>10, <1>11, <1>12, <1>13, <1>14, <1>15
        DEF Next, Idle, CallStep

\* A call is cancelled by its own context or by Close, never by another call
\* that stopped waiting; and a refreshing call that succeeds leaves an entry
\* validated in this Store's lifetime, whether it ran the flight, joined one or
\* was answered from fresh.
THEOREM ReturnsAlwaysTruthful == Spec => ReturnsTruthful
<1>1. CallsInv /\ FilesInv /\ [Next]_vars =>
        [\A c \in Callers :
           /\ Returns(c, "cancelled") => c \in gone \/ closing # "open"
           /\ Returns(c, "ok") /\ local[c].refresh => meta # NoMeta /\ meta.lifetime = "this"]_vars
  BY NextCancels, NextValidates DEF Validated
<1> QED BY <1>1, FilesInvariant, PTL DEF Spec, ReturnsTruthful
=============================================================================
