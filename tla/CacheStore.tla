------------------------------ MODULE CacheStore ------------------------------
(***************************************************************************)
(* One URL of the raw HTTP cache: internal/cache/cache.go.                 *)
(*                                                                         *)
(* Calls of Get and Prefetch for a URL share one flight, a goroutine that  *)
(* checks the cached entry and downloads or revalidates it.  A call may    *)
(* stop waiting when its context ends; the last one to leave abandons the  *)
(* flight, and later calls wait for it to retire before starting another.  *)
(* Close cancels the flights and waits for calls and flights to end.       *)
(*                                                                         *)
(* A call that starts a flight waits for that flight and then returns, so  *)
(* a flight is named by the call that started it.  Every section under     *)
(* Store.mu and every file operation is one step.                          *)
(***************************************************************************)
EXTENDS FiniteSets, Naturals

CONSTANTS Callers,      \* the calls made of one Store and URL
          None,         \* no flight
          Bodies,       \* content-named bodies the server may answer with
          Operations,   \* the operations the callers choose from: "Get", "Prefetch"
          MayDamage,    \* TRUE: the entry's files may be damaged at any time
          MayRestart    \* TRUE: the process may be killed and start again

ASSUME CallersAssumption == None \notin Callers /\ IsFiniteSet(Callers)
ASSUME OperationsAssumption == Operations \subseteq {"Get", "Prefetch"}
ASSUME OptionsAssumption == MayDamage \in BOOLEAN /\ MayRestart \in BOOLEAN

VARIABLES
  pc,        \* pc[c]: where call c is
  local,     \* local[c]: its operation, refresh flag, flight, and whether it joined that
  gone,      \* the calls under way whose context has ended
  result,    \* result[c]: what c returned
  flight,    \* flight[f]: the flight that call f started
  active,    \* Store.flights[source]
  fresh,     \* Store.fresh[source]
  closing,   \* how far Close has come
  meta,      \* the URL's metadata file: the body it names, and when it was validated
  bodies,    \* the body files present
  damaged    \* the metadata or the body it names does not verify

callVars == <<pc, local, gone, result>>
diskVars == <<meta, bodies, damaged>>
vars == <<callVars, flight, active, fresh, closing, diskVars>>

Locals == [op : {"Get", "Prefetch"}, refresh : BOOLEAN, at : Callers \cup {None}, joined : BOOLEAN]
NoLocal == [op |-> "Get", refresh |-> FALSE, at |-> None, joined |-> FALSE]

Working == {"check", "unfresh", "network", "body", "meta", "verify", "finish"}
Flights == [state : {"none", "done"} \cup Working, waiters : Nat, refresh : BOOLEAN,
            networked : BOOLEAN, stored : BOOLEAN, answer : Bodies \cup {None},
            abandoned : BOOLEAN, cancelled : BOOLEAN, err : {"nil", "failed", "cancelled"}]
NoFlight == [state |-> "none", waiters |-> 0, refresh |-> FALSE, networked |-> FALSE,
             stored |-> FALSE, answer |-> None, abandoned |-> FALSE, cancelled |-> FALSE, err |-> "nil"]
NewFlight(refresh) == [NoFlight EXCEPT !.state = "check", !.waiters = 1, !.refresh = refresh]

\* The metadata was written in this Store's lifetime or before it.
NoMeta == [body |-> None, lifetime |-> "absent"]
Metas == {NoMeta} \cup [body : Bodies, lifetime : {"this", "earlier"}]

\* Store.read of the entry succeeds: metadata and body exist and verify.
Verifies == meta # NoMeta /\ meta.body \in bodies /\ ~damaged

InCall(c) == pc[c] \notin {"idle", "returned"}
Running(f) == flight[f].state \in Working

-----------------------------------------------------------------------------
(* Calls.                                                                  *)

Goto(c, l) == pc' = [pc EXCEPT ![c] = l] /\ UNCHANGED <<local, gone, result>>
Return(c, r) == /\ pc' = [pc EXCEPT ![c] = "returned"]
                /\ local' = [local EXCEPT ![c] = NoLocal]
                /\ gone' = gone \ {c}
                /\ result' = [result EXCEPT ![c] = r]

Begin(c) ==
  /\ pc[c] = "idle"
  /\ IF closing # "open"
     THEN Return(c, "closed")
     ELSE /\ pc' = [pc EXCEPT ![c] = "entry"]
          /\ \E op \in Operations, refresh \in BOOLEAN :
               local' = [local EXCEPT ![c].op = op, ![c].refresh = refresh]
          /\ UNCHANGED <<gone, result>>
  /\ UNCHANGED <<flight, active, fresh, closing, diskVars>>

\* A refreshing Prefetch returns at once when the entry is fresh.
Enter(c) ==
  /\ pc[c] = "entry"
  /\ CASE c \in gone -> Return(c, "cancelled")
       [] c \notin gone /\ local[c].op = "Prefetch" /\ local[c].refresh /\ fresh -> Return(c, "ok")
       [] OTHER -> Goto(c, "acquire")
  /\ UNCHANGED <<flight, active, fresh, closing, diskVars>>

\* Store.acquire: refuse, wait for an abandoned flight, join, or start a flight.
Retiring(f) == flight[f].abandoned

AbandonedForgotten == IF active = None THEN TRUE ELSE flight[active].abandoned
NoneActive == active = None

Joins(c, f, l, shared) ==
  /\ pc' = [pc EXCEPT ![c] = l]
  /\ local' = [local EXCEPT ![c].at = f, ![c].joined = shared]
  /\ UNCHANGED <<gone, result>>

Acquire(c) ==
  /\ pc[c] = "acquire"
  /\ \/ /\ closing # "open"
        /\ Return(c, "closed")
        /\ UNCHANGED <<flight, active, fresh>>
     \/ /\ closing = "open" /\ active # None /\ Retiring(active)
        /\ Joins(c, active, "retiring", FALSE)
        /\ UNCHANGED <<flight, active, fresh>>
     \/ /\ closing = "open" /\ active # None /\ ~Retiring(active)
        /\ Joins(c, active, "waiting", TRUE)
        /\ flight' = [flight EXCEPT ![active].waiters = @ + 1]
        /\ UNCHANGED <<active, fresh>>
     \/ /\ closing = "open" /\ NoneActive
        /\ Joins(c, c, "waiting", FALSE)
        /\ active' = c
        /\ flight' = [flight EXCEPT ![c] = NewFlight(local[c].refresh)]
        /\ fresh' = (fresh /\ ~local[c].refresh)
  /\ UNCHANGED <<closing, diskVars>>

\* prepare: the abandoned flight is done, so acquire is tried again.
Retire(c) ==
  /\ pc[c] = "retiring"
  /\ \/ flight[local[c].at].state = "done" /\ Goto(c, "acquire")
     \/ c \in gone /\ Return(c, "cancelled")
  /\ UNCHANGED <<flight, active, fresh, closing, diskVars>>

\* A refreshing call that joined a flight which neither refreshed nor used the
\* network must run another.
JoinedIsEnough(c) == FALSE
MustRunAgain(c) == LET f == flight[local[c].at] IN
  local[c].refresh /\ local[c].joined /\ ~f.refresh /\ ~f.networked

\* Store.wait, its done branch, and what prepare does with the answer.
Answered(c) ==
  /\ pc[c] = "waiting"
  /\ LET f == flight[local[c].at] IN
     /\ f.state = "done"
     /\ flight' = [flight EXCEPT ![local[c].at].waiters = @ - 1]
     /\ CASE f.err # "nil" -> Return(c, f.err)
          [] f.err = "nil" /\ MustRunAgain(c) -> Goto(c, "acquire")
          [] OTHER -> IF local[c].op = "Get" THEN Goto(c, "read") ELSE Return(c, "ok")
  /\ UNCHANGED <<active, fresh, closing, diskVars>>

\* Store.wait, its context branch: the last waiter to leave abandons the flight.
AnyoneAbandons(f) == TRUE
LastWaiter(f) == flight[f].waiters = 1

Leave(c) ==
  /\ pc[c] = "waiting" /\ c \in gone
  /\ LET f == local[c].at
         last == LastWaiter(f) /\ Running(f) IN
     flight' = [flight EXCEPT ![f].waiters = @ - 1,
                              ![f].abandoned = @ \/ last,
                              ![f].cancelled = @ \/ last]
  /\ Return(c, "cancelled")
  /\ UNCHANGED <<active, fresh, closing, diskVars>>

\* Get opens the entry once its flight is done.
ReadEntry(c) ==
  /\ pc[c] = "read"
  /\ \/ Verifies /\ Return(c, "ok")
     \/ c \in gone /\ Return(c, "cancelled")
     \/ Return(c, "failed")
  /\ UNCHANGED <<flight, active, fresh, closing, diskVars>>

\* The caller's context ends.
EndContext(c) == /\ InCall(c) /\ c \notin gone
                 /\ gone' = gone \cup {c}
                 /\ UNCHANGED <<pc, local, result, flight, active, fresh, closing, diskVars>>

-----------------------------------------------------------------------------
(* A flight: Store.ensure, then Store.run.                                 *)

Advance(f, l) == flight' = [flight EXCEPT ![f].state = l]
Fails(f, e) == flight' = [flight EXCEPT ![f].state = "finish", ![f].err = e]
StopError(f) == IF flight[f].cancelled THEN "cancelled" ELSE "failed"

\* The entry is read first: a verified one is enough unless a refresh is asked.
Check(f) ==
  /\ flight[f].state = "check"
  /\ \/ Verifies /\ flight' = [flight EXCEPT ![f].stored = TRUE,
                                             ![f].state = IF flight[f].refresh THEN "unfresh" ELSE "finish"]
     \/ ~Verifies /\ Advance(f, "unfresh")
     \/ Fails(f, StopError(f))      \* an unsafe entry, or the context has ended
  /\ UNCHANGED <<callVars, active, fresh, closing, diskVars>>

Unfresh(f) ==
  /\ flight[f].state = "unfresh"
  /\ fresh' = FALSE
  /\ flight' = [flight EXCEPT ![f].state = "network", ![f].networked = TRUE]
  /\ UNCHANGED <<callVars, active, closing, diskVars>>

\* What follows a complete body: the body file, then the metadata.
BodyFirst == "body"

\* Transport.Download: a complete body, 304 for the verified entry, or an error.
Network(f) ==
  /\ flight[f].state = "network"
  /\ \/ ~flight[f].cancelled /\ \E b \in Bodies :
          flight' = [flight EXCEPT ![f].state = BodyFirst, ![f].answer = b]
     \/ ~flight[f].cancelled /\ flight[f].stored /\ meta # NoMeta /\
          flight' = [flight EXCEPT ![f].state = "meta", ![f].answer = meta.body]
     \/ Fails(f, StopError(f))
  /\ UNCHANGED <<callVars, active, fresh, closing, diskVars>>

\* The temporary file becomes the content-named body.
PublishBody(f) ==
  /\ flight[f].state = "body"
  /\ \/ bodies' = bodies \cup {flight[f].answer} /\ Advance(f, "meta")
     \/ Fails(f, "failed") /\ UNCHANGED bodies
  /\ UNCHANGED <<callVars, active, fresh, closing, meta, damaged>>

\* writeMetadata renames the URL's pointer onto the new metadata.
WriteMetadata(f) ==
  /\ flight[f].state = "meta"
  /\ \/ /\ meta' = [body |-> flight[f].answer, lifetime |-> "this"]
        /\ damaged' \in {FALSE, damaged}     \* damage to the body stays
        /\ Advance(f, "verify")
     \/ Fails(f, "failed") /\ UNCHANGED <<meta, damaged>>
  /\ UNCHANGED <<callVars, active, fresh, closing, bodies>>

\* The entry is read back before the flight succeeds.
Verify(f) ==
  /\ flight[f].state = "verify"
  /\ \/ Verifies /\ Advance(f, "finish")
     \/ Fails(f, StopError(f))
  /\ UNCHANGED <<callVars, active, fresh, closing, diskVars>>

\* Store.run's last section: freshness, the flights map, and the done channel.
FreshAfterFailure(f) == fresh \/ flight[f].refresh \/ flight[f].networked
FreshAfter(f) == IF flight[f].refresh \/ flight[f].networked THEN flight[f].err = "nil" ELSE fresh

FlightKept(f) == active
FlightRemoved(f) == IF active = f THEN None ELSE active

Finish(f) ==
  /\ flight[f].state = "finish"
  /\ flight' = [flight EXCEPT ![f].state = "done", ![f].stored = FALSE, ![f].answer = None]
  /\ fresh' = FreshAfter(f)
  /\ active' = FlightRemoved(f)
  /\ UNCHANGED <<callVars, closing, diskVars>>

-----------------------------------------------------------------------------
(* Close, damage, and a process that is killed.                            *)

WorkForgotten == TRUE
WorkDone == \A f \in Callers : ~Running(f)

\* closed is set and the flights cancelled in one section; then Close waits for
\* the calls, then for the flights, and closes the root.
Close ==
  \/ /\ closing = "open" /\ closing' = "calls"
     /\ flight' = [f \in Callers |-> [flight[f] EXCEPT !.cancelled = @ \/ f = active]]
     /\ UNCHANGED <<callVars, active, fresh, diskVars>>
  \/ /\ closing = "calls" /\ (\A c \in Callers : ~InCall(c)) /\ closing' = "work"
     /\ UNCHANGED <<callVars, flight, active, fresh, diskVars>>
  \/ /\ closing = "work" /\ WorkDone /\ closing' = "closed"
     /\ UNCHANGED <<callVars, flight, active, fresh, diskVars>>

Damage == /\ MayDamage /\ ~damaged /\ damaged' = TRUE
          /\ UNCHANGED <<callVars, flight, active, fresh, closing, meta, bodies>>

\* A kill ends every call and flight; a new Store opens on the files left.
Restart ==
  /\ MayRestart /\ closing = "open" /\ \E c \in Callers : InCall(c)
  /\ pc' = [c \in Callers |-> IF InCall(c) THEN "returned" ELSE pc[c]]
  /\ result' = [c \in Callers |-> IF InCall(c) THEN "killed" ELSE result[c]]
  /\ flight' = [f \in Callers |-> NoFlight]
  /\ active' = None /\ fresh' = FALSE
  /\ meta' = IF meta = NoMeta THEN NoMeta ELSE [meta EXCEPT !.lifetime = "earlier"]
  /\ local' = [c \in Callers |-> NoLocal] /\ gone' = {}
  /\ UNCHANGED <<closing, bodies, damaged>>

-----------------------------------------------------------------------------
Init ==
  /\ pc = [c \in Callers |-> "idle"]
  /\ local = [c \in Callers |-> NoLocal]
  /\ gone = {}
  /\ result = [c \in Callers |-> "none"]
  /\ flight = [f \in Callers |-> NoFlight]
  /\ active = None /\ fresh = FALSE /\ closing = "open"
  /\ \/ meta = NoMeta /\ bodies = {}
     \/ \E b \in Bodies : meta = [body |-> b, lifetime |-> "earlier"] /\ bodies = {b}
  /\ damaged = FALSE

CallStep(c) == Enter(c) \/ Acquire(c) \/ Retire(c) \/ Answered(c) \/ Leave(c) \/ ReadEntry(c)
FlightStep(f) == \/ Check(f) \/ Unfresh(f) \/ Network(f) \/ PublishBody(f)
                 \/ WriteMetadata(f) \/ Verify(f) \/ Finish(f)

\* A Store without a call under way may be left as it is.
Idle == (\A c \in Callers : ~InCall(c)) /\ UNCHANGED vars

Next == \/ \E c \in Callers : Begin(c) \/ CallStep(c) \/ EndContext(c) \/ FlightStep(c)
        \/ Close \/ Damage \/ Restart \/ Idle

Spec == Init /\ [][Next]_vars

\* Goroutines are scheduled; the transport answers or times out.  Nothing
\* obliges a caller to call, to cancel or to close.
Fairness == /\ \A c \in Callers : WF_vars(CallStep(c)) /\ WF_vars(FlightStep(c))
            /\ WF_vars(closing # "open" /\ Close)
FairSpec == Spec /\ Fairness

-----------------------------------------------------------------------------
(* Properties.                                                             *)

TypeOK ==
  /\ pc \in [Callers -> {"idle", "entry", "acquire", "retiring", "waiting", "read", "returned"}]
  /\ local \in [Callers -> Locals]
  /\ gone \subseteq Callers
  /\ result \in [Callers -> {"none", "ok", "failed", "cancelled", "closed", "killed"}]
  /\ flight \in [Callers -> Flights]
  /\ active \in Callers \cup {None}
  /\ fresh \in BOOLEAN
  /\ closing \in {"open", "calls", "work", "closed"}
  /\ meta \in Metas
  /\ bodies \subseteq Bodies
  /\ damaged \in BOOLEAN

\* One goroutine works on a URL at a time: the one in Store.flights.  A call
\* that finds an abandoned flight waits for it to end (TestHealthyCallerWaits-
\* ForAbandonedFlightRetirement).
OneWriter == \A f \in Callers : Running(f) => active = f

\* waiters counts the calls in Store.wait, and an abandoned flight has none.
Waiting(f) == {c \in Callers : pc[c] = "waiting" /\ local[c].at = f}
WaitersExact == \A f \in Callers :
  /\ flight[f].waiters = Cardinality(Waiting(f))
  /\ flight[f].abandoned => Waiting(f) = {}

\* fresh means what Store says, "Network-validated during this Store lifetime".
FreshMeansValidated == fresh => meta # NoMeta /\ meta.lifetime = "this"

\* "Immutable content-named bodies are published before the URL metadata
\* pointer": a kill never leaves metadata that names a missing body.
MetadataHasBody == meta # NoMeta => meta.body \in bodies

\* What lies on disk and what is marked fresh is true: no file that a kill, a
\* failed download or damage leaves behind is taken for a validated entry.
DiskTruthful == MetadataHasBody /\ FreshMeansValidated

\* What a call returns is true.  A caller gets a cancellation only from its own
\* context or from Close, never from another caller that stopped waiting; and a
\* refreshing call that succeeds leaves a validated entry, whether it ran the
\* flight, joined one, or was answered from fresh.
Returns(c, r) == InCall(c) /\ pc'[c] = "returned" /\ result'[c] = r
ReturnsTruthful ==
  [][\A c \in Callers :
       /\ Returns(c, "cancelled") => c \in gone \/ closing # "open"
       /\ Returns(c, "ok") /\ local[c].refresh => meta # NoMeta /\ meta.lifetime = "this"]_vars

\* The root is closed only after the last call and the last flight.
RootUnusedWhenClosed == closing = "closed" => \A c \in Callers : ~InCall(c) /\ ~Running(c)

\* Every call returns, however the other callers and Close behave.
CallsReturn == \A c \in Callers : InCall(c) ~> pc[c] = "returned"

\* Close returns.
CloseReturns == closing = "calls" ~> closing = "closed"

\* Nobody waits for ever in the Store: every call of it returns, Close included.
EverybodyReturns == CallsReturn /\ CloseReturns
=============================================================================
