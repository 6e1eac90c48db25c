---------------------------- MODULE CircuitBreaker ----------------------------
(***************************************************************************)
(* The federation circuit breaker (federation/circuit_breaker.rs) and the  *)
(* part of execute_graphql_request (routes/graphql/handler.rs) that asks   *)
(* it for admission and reports outcomes to it.                            *)
(*                                                                         *)
(* There is one breaker per entity type, each behind its own mutex, so a   *)
(* check() or a record_*() of one breaker is one step.  A request names    *)
(* several entity types: its checks, its execution and its records are     *)
(* separate steps, and the steps of different requests interleave.  A      *)
(* breaker that get_or_create has not created yet is a fresh closed one.   *)
(***************************************************************************)
EXTENDS Naturals, FiniteSets

CONSTANTS
    Entities,           \* entity types, in the order extract_entity_types sorts them
    Requests,           \* _entities requests; each may be repeated
    FailureThreshold,   \* per entity type: failures that trip the breaker
    SuccessThreshold,   \* per entity type: successes that close it again
    NoRequest           \* no request has been a probe yet

ASSUME EntitiesAssumption == Entities \subseteq Nat
ASSUME ThresholdAssumption ==
    /\ FailureThreshold \in [Entities -> Nat]
    /\ SuccessThreshold \in [Entities -> Nat]
ASSUME NoRequestAssumption == NoRequest \notin Requests

VARIABLES
    breaker,    \* CircuitState of each entity type
    pc,         \* where a request stands in execute_graphql_request
    types,      \* its cb_entity_types
    todo,       \* the entity types its current loop has yet to visit
    ok,         \* exec_result.is_ok()
    \* History, read by no guard:
    holder,     \* the request whose check() last set probe_in_flight
    abandoned,  \* that request has left without recording an outcome
    probes,     \* requests this half-open phase admitted, outcome not recorded yet
    strays      \* outcomes other requests recorded in this half-open phase

vars == <<breaker, pc, types, todo, ok, holder, abandoned, probes, strays>>
history == <<holder, abandoned, probes, strays>>

-----------------------------------------------------------------------------
(* The states of one breaker. *)

Closed(n) == [st |-> "Closed", failures |-> n]
Open(e) == [st |-> "Open", elapsed |-> e]
HalfOpen(n, p, s) == [st |-> "HalfOpen", failures |-> n, probe |-> p, successes |-> s]

Breaker == [st : {"Closed"}, failures : Nat]
    \cup [st : {"Open"}, elapsed : BOOLEAN]
    \cup [st : {"HalfOpen"}, failures : Nat, probe : BOOLEAN, successes : Nat]

IsClosed(e) == breaker[e].st = "Closed"
IsOpen(e) == breaker[e].st = "Open"
IsHalfOpen(e) == breaker[e].st = "HalfOpen"
ProbeInFlight(e) == IsHalfOpen(e) /\ breaker[e].probe

-----------------------------------------------------------------------------
Init ==
    /\ breaker = [e \in Entities |-> Closed(0)]
    /\ pc = [r \in Requests |-> "idle"]
    /\ types = [r \in Requests |-> {}]
    /\ todo = [r \in Requests |-> {}]
    /\ ok = [r \in Requests |-> FALSE]
    /\ holder = [e \in Entities |-> NoRequest]
    /\ abandoned = [e \in Entities |-> FALSE]
    /\ probes = [e \in Entities |-> {}]
    /\ strays = [e \in Entities |-> 0]

\* recovery_timeout has passed since the breaker opened.
Elapse(e) ==
    /\ IsOpen(e)
    /\ ~breaker[e].elapsed
    /\ breaker' = [breaker EXCEPT ![e] = Open(TRUE)]
    /\ UNCHANGED <<pc, types, todo, ok, history>>

\* What check() leaves when it admits a request of entity type e.
Admits(e) == IsClosed(e) \/ (IsOpen(e) /\ breaker[e].elapsed)
             \/ (IsHalfOpen(e) /\ ~breaker[e].probe)

\* Mutant: a later probe of the phase does not set probe_in_flight.
AfterCheckUnmarked(e) ==
    IF IsOpen(e) THEN HalfOpen(0, TRUE, 0) ELSE breaker[e]

AfterCheck(e) ==
    IF IsClosed(e) THEN breaker[e]
    ELSE IF IsOpen(e) THEN HalfOpen(0, TRUE, 0)
    ELSE HalfOpen(breaker[e].failures, TRUE, breaker[e].successes)

\* Mutants: the probe flag is not cleared; the success is not counted.
AfterSuccessKeepsProbe(e) ==
    LET s == breaker[e].successes + 1 IN
    IF ~IsHalfOpen(e) THEN breaker[e]
    ELSE IF s >= SuccessThreshold[e] THEN Closed(0)
    ELSE [breaker[e] EXCEPT !.successes = s]
AfterSuccessUncounted(e) ==
    IF ~IsHalfOpen(e) THEN breaker[e]
    ELSE IF breaker[e].successes + 1 >= SuccessThreshold[e] THEN Closed(0)
    ELSE [breaker[e] EXCEPT !.probe = FALSE]

AfterSuccess(e) ==
    LET s == breaker[e].successes + 1 IN
    IF ~IsHalfOpen(e) THEN breaker[e]
    ELSE IF s >= SuccessThreshold[e] THEN Closed(0)
    ELSE HalfOpen(breaker[e].failures, FALSE, s)

AfterFailure(e) ==
    LET n == breaker[e].failures + 1 IN
    IF IsOpen(e) THEN breaker[e]
    ELSE IF n >= FailureThreshold[e] THEN Open(FALSE)
    ELSE IF IsClosed(e) THEN Closed(n)
    ELSE HalfOpen(n, FALSE, breaker[e].successes)

-----------------------------------------------------------------------------
(* One request. *)

First(S) == CHOOSE e \in S : \A f \in S : e <= f

\* Mutant: a representation without __typename is kept under no known type.
ReceiveUnnamed(r, S) ==
    /\ pc[r] = "idle"
    /\ pc' = [pc EXCEPT ![r] = "check"]
    /\ types' = [types EXCEPT ![r] = S \cup {0}]
    /\ todo' = [todo EXCEPT ![r] = S \cup {0}]
    /\ UNCHANGED <<breaker, ok, history>>

Receive(r, S) ==
    /\ pc[r] = "idle"
    /\ pc' = [pc EXCEPT ![r] = "check"]
    /\ types' = [types EXCEPT ![r] = S]
    /\ todo' = [todo EXCEPT ![r] = S]
    /\ UNCHANGED <<breaker, ok, history>>

\* A request that leaves without recording takes its probes with it.
Leave(r) ==
    /\ pc' = [pc EXCEPT ![r] = "idle"]
    /\ types' = [types EXCEPT ![r] = {}]
    /\ todo' = [todo EXCEPT ![r] = {}]
    /\ abandoned' = [e \in Entities |-> abandoned[e] \/ (holder[e] = r /\ ProbeInFlight(e))]
    /\ probes' = [e \in Entities |-> probes[e] \ {r}]
    /\ UNCHANGED <<breaker, ok, holder, strays>>

Check(r) ==
    /\ pc[r] = "check"
    /\ todo[r] # {}
    /\ LET e == First(todo[r]) IN
        /\ Admits(e)
        /\ breaker' = [breaker EXCEPT ![e] = AfterCheck(e)]
        /\ todo' = [todo EXCEPT ![r] = @ \ {e}]
        /\ IF IsClosed(e) THEN UNCHANGED history
           ELSE /\ holder' = [holder EXCEPT ![e] = r]
                /\ abandoned' = [abandoned EXCEPT ![e] = FALSE]
                /\ probes' = [probes EXCEPT ![e] = IF IsOpen(e) THEN {r} ELSE @ \cup {r}]
                /\ strays' = [strays EXCEPT ![e] = IF IsOpen(e) THEN 0 ELSE @]
        /\ UNCHANGED <<pc, types, ok>>

\* The handler returns at the first entity type that is rejected.
Reject(r) ==
    /\ pc[r] = "check"
    /\ todo[r] # {}
    /\ ~Admits(First(todo[r]))
    /\ Leave(r)

\* The tenant key and the tenant's executor are resolved between the checks
\* and the execution; either may be an error.
Resolve(r) ==
    /\ pc[r] = "check"
    /\ todo[r] = {}
    /\ \/ pc' = [pc EXCEPT ![r] = "execute"] /\ UNCHANGED <<breaker, types, todo, ok, history>>
       \/ Leave(r)

\* The await of the execution: it returns a result, or the connection is
\* closed and the handler's future is dropped.
Execute(r) ==
    /\ pc[r] = "execute"
    /\ \/ \E b \in BOOLEAN :
            /\ ok' = [ok EXCEPT ![r] = b]
            /\ pc' = [pc EXCEPT ![r] = "record"]
            /\ todo' = [todo EXCEPT ![r] = types[r]]
            /\ UNCHANGED <<breaker, types, history>>
       \/ Leave(r)

\* The half-open phase of e ends, or goes on without the probe r.
Recorded(r, e, after) ==
    IF after.st = "HalfOpen"
    THEN /\ probes' = [probes EXCEPT ![e] = @ \ {r}]
         /\ strays' = [strays EXCEPT ![e] = IF r \in probes[e] THEN @ ELSE @ + 1]
         /\ UNCHANGED <<holder, abandoned>>
    ELSE /\ probes' = [probes EXCEPT ![e] = {}]
         /\ strays' = [strays EXCEPT ![e] = 0]
         /\ holder' = [holder EXCEPT ![e] = NoRequest]
         /\ abandoned' = [abandoned EXCEPT ![e] = FALSE]

Record(r) ==
    /\ pc[r] = "record"
    /\ todo[r] # {}
    /\ LET e == First(todo[r])
           after == IF ok[r] THEN AfterSuccess(e) ELSE AfterFailure(e) IN
        /\ breaker' = [breaker EXCEPT ![e] = after]
        /\ todo' = [todo EXCEPT ![r] = @ \ {e}]
        /\ Recorded(r, e, after)
        /\ UNCHANGED <<pc, types, ok>>

Respond(r) ==
    /\ pc[r] = "record"
    /\ todo[r] = {}
    /\ pc' = [pc EXCEPT ![r] = "idle"]
    /\ types' = [types EXCEPT ![r] = {}]
    /\ ok' = [ok EXCEPT ![r] = FALSE]
    /\ UNCHANGED <<breaker, todo, history>>

Step(r) == Check(r) \/ Reject(r) \/ Resolve(r) \/ Execute(r) \/ Record(r) \/ Respond(r)

Next ==
    \/ \E e \in Entities : Elapse(e)
    \/ \E r \in Requests : (\E S \in SUBSET Entities : Receive(r, S)) \/ Step(r)

\* The runtime polls every request to its end, and time passes.  Nothing says
\* that requests arrive, or how they end.
Fairness ==
    /\ \A e \in Entities : WF_vars(Elapse(e))
    /\ \A r \in Requests : WF_vars(Step(r))

Spec == Init /\ [][Next]_vars
FairSpec == Spec /\ Fairness

-----------------------------------------------------------------------------
\* The values the breakers, the requests and the history variables take.
TypeOK ==
    /\ breaker \in [Entities -> Breaker]
    /\ pc \in [Requests -> {"idle", "check", "execute", "record"}]
    /\ types \in [Requests -> SUBSET Entities]
    /\ todo \in [Requests -> SUBSET Entities]
    /\ ok \in [Requests -> BOOLEAN]
    /\ holder \in [Entities -> Requests \cup {NoRequest}]
    /\ abandoned \in [Entities -> BOOLEAN]
    /\ probes \in [Entities -> SUBSET Requests]
    /\ strays \in [Entities -> Nat]

\* A breaker that waits for its probe (probe_in_flight) waits for a request
\* that is still on its way to record that outcome, or for one that left the
\* handler through a rejection of another entity type, a tenant error or a
\* dropped future.
ProbeHeld ==
    \A e \in Entities : ProbeInFlight(e) /\ ~abandoned[e] =>
        /\ holder[e] \in probes[e]
        /\ e \in types[holder[e]]
        /\ pc[holder[e]] = "record" => e \in todo[holder[e]]

\* The probes of one half-open phase that run at the same time: one, and one
\* more for each outcome that a request of an earlier phase recorded meanwhile
\* (record_success and record_failure clear probe_in_flight for any caller).
ProbesBounded ==
    \A e \in Entities : IsHalfOpen(e) =>
        Cardinality(probes[e]) <= strays[e] + (IF breaker[e].probe THEN 1 ELSE 0)

\* The breaker closes by itself once its subgraph is healthy: if requests keep
\* checking e, from some point on none fails and no probe is abandoned, then
\* it is closed again and again.
Recovers ==
    \A e \in Entities :
        /\ <>[](\A r \in Requests : pc[r] = "record" => ok[r])
        /\ <>[]~abandoned[e]
        /\ []<>(\E r \in Requests : pc[r] = "check" /\ e \in todo[r] /\ First(todo[r]) = e)
        => []<>IsClosed(e)
=============================================================================
