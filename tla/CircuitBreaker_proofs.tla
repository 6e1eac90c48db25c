------------------------ MODULE CircuitBreaker_proofs ------------------------
(***************************************************************************)
(* Proofs about CircuitBreaker, for any number of entity types, requests   *)
(* and thresholds.                                                         *)
(***************************************************************************)
EXTENDS CircuitBreaker, FiniteSetTheorems, WellFoundedInduction, TLAPS

\* The loops over a request's entity types visit one of them.
LEMMA FirstIn ==
    ASSUME NEW S \in SUBSET Entities, S # {}
    PROVE  First(S) \in S
<1>1. S \subseteq Nat
    BY EntitiesAssumption
<1>2. PICK x \in S : \A y \in S : <<y, x>> \notin OpToRel(<, Nat)
    BY <1>1, NatLessThanWellFounded, WFMin
<1>3. \A y \in S : ~(y < x)
    BY <1>1, <1>2 DEF OpToRel
<1>4. \A y \in S : x <= y
    BY <1>1, <1>3
<1> QED
    BY <1>4 DEF First

-----------------------------------------------------------------------------
(* Type correctness. *)

LEMMA BreakerTypes ==
    ASSUME TypeOK, NEW e \in Entities
    PROVE  /\ breaker[e] \in Breaker
           /\ IsClosed(e) \/ IsOpen(e) \/ IsHalfOpen(e)
           /\ IsClosed(e) => breaker[e].failures \in Nat
           /\ IsHalfOpen(e) => /\ breaker[e].failures \in Nat
                               /\ breaker[e].probe \in BOOLEAN
                               /\ breaker[e].successes \in Nat
BY DEF TypeOK, Breaker, IsClosed, IsOpen, IsHalfOpen

LEMMA AfterTypes ==
    ASSUME TypeOK, NEW e \in Entities
    PROVE  /\ AfterCheck(e) \in Breaker
           /\ AfterSuccess(e) \in Breaker
           /\ AfterFailure(e) \in Breaker
           /\ IsHalfOpen(e) => AfterCheck(e).st = "HalfOpen" /\ AfterCheck(e).probe
           /\ IsOpen(e) => AfterCheck(e).st = "HalfOpen" /\ AfterCheck(e).probe
           /\ IsClosed(e) => AfterCheck(e) = breaker[e]
           /\ AfterSuccess(e).st = "HalfOpen" => IsHalfOpen(e) /\ ~AfterSuccess(e).probe
           /\ AfterFailure(e).st = "HalfOpen" => IsHalfOpen(e) /\ ~AfterFailure(e).probe
<1>1. CASE IsClosed(e)
    BY <1>1, BreakerTypes DEF AfterCheck, AfterSuccess, AfterFailure, IsClosed, IsOpen,
        IsHalfOpen, Closed, Open, HalfOpen, Breaker
<1>2. CASE IsOpen(e)
    BY <1>2, BreakerTypes DEF AfterCheck, AfterSuccess, AfterFailure, IsClosed, IsOpen,
        IsHalfOpen, Closed, Open, HalfOpen, Breaker
<1>3. CASE IsHalfOpen(e)
    BY <1>3, BreakerTypes DEF AfterCheck, AfterSuccess, AfterFailure, IsClosed, IsOpen,
        IsHalfOpen, Closed, Open, HalfOpen, Breaker
<1> QED
    BY <1>1, <1>2, <1>3, BreakerTypes

LEMMA TypeInit == Init => TypeOK
BY DEF Init, TypeOK, Breaker, Closed

LEMMA TypeStep == TypeOK /\ [Next]_vars => TypeOK'
<1> SUFFICES ASSUME TypeOK, [Next]_vars
             PROVE  TypeOK'
    OBVIOUS
<1>1. ASSUME NEW e \in Entities, Elapse(e)
      PROVE  TypeOK'
    BY <1>1 DEF TypeOK, Elapse, Breaker, Open, history
<1>2. ASSUME NEW r \in Requests, NEW S \in SUBSET Entities, Receive(r, S)
      PROVE  TypeOK'
    BY <1>2 DEF TypeOK, Receive, history
<1>3. ASSUME NEW r \in Requests, Leave(r)
      PROVE  TypeOK'
    BY <1>3 DEF TypeOK, Leave
<1>4. ASSUME NEW r \in Requests, Check(r)
      PROVE  TypeOK'
    <2> DEFINE e == First(todo[r])
    <2>1. e \in Entities
        BY <1>4, FirstIn DEF Check, TypeOK
    <2>2. AfterCheck(e) \in Breaker
        BY <2>1, AfterTypes
    <2>3. /\ breaker' = [breaker EXCEPT ![e] = AfterCheck(e)]
          /\ todo' = [todo EXCEPT ![r] = @ \ {e}]
          /\ UNCHANGED <<pc, types, ok>>
        BY <1>4 DEF Check
    <2>4. CASE IsClosed(e)
        BY <1>4, <2>1, <2>2, <2>3, <2>4 DEF TypeOK, Check, history
    <2>5. CASE ~IsClosed(e)
        <3>1. /\ holder' = [holder EXCEPT ![e] = r]
              /\ abandoned' = [abandoned EXCEPT ![e] = FALSE]
              /\ probes' = [probes EXCEPT ![e] = IF IsOpen(e) THEN {r} ELSE @ \cup {r}]
              /\ strays' = [strays EXCEPT ![e] = IF IsOpen(e) THEN 0 ELSE @]
            BY <1>4, <2>5 DEF Check
        <3> HIDE DEF e
        <3> QED
            BY <2>1, <2>2, <2>3, <3>1 DEF TypeOK
    <2> QED
        BY <2>4, <2>5
<1>5. ASSUME NEW r \in Requests, Resolve(r)
      PROVE  TypeOK'
    BY <1>3, <1>5 DEF TypeOK, Resolve, history
<1>6. ASSUME NEW r \in Requests, Execute(r)
      PROVE  TypeOK'
    BY <1>3, <1>6 DEF TypeOK, Execute, history
<1>7. ASSUME NEW r \in Requests, Record(r)
      PROVE  TypeOK'
    <2> DEFINE e == First(todo[r])
    <2> DEFINE after == IF ok[r] THEN AfterSuccess(e) ELSE AfterFailure(e)
    <2>1. e \in Entities
        BY <1>7, FirstIn DEF Record, TypeOK
    <2>2. after \in Breaker
        BY <2>1, AfterTypes
    <2>3. Recorded(r, e, after) /\ breaker' = [breaker EXCEPT ![e] = after]
        BY <1>7 DEF Record
    <2> HIDE DEF e, after
    <2>4. /\ probes' \in [Entities -> SUBSET Requests]
          /\ strays' \in [Entities -> Nat]
          /\ holder' \in [Entities -> Requests \cup {NoRequest}]
          /\ abandoned' \in [Entities -> BOOLEAN]
        <3>1. CASE after.st = "HalfOpen"
            BY <2>1, <2>3, <3>1 DEF Recorded, TypeOK
        <3>2. CASE after.st # "HalfOpen"
            <4>1. /\ probes' = [probes EXCEPT ![e] = {}]
                  /\ strays' = [strays EXCEPT ![e] = 0]
                  /\ holder' = [holder EXCEPT ![e] = NoRequest]
                  /\ abandoned' = [abandoned EXCEPT ![e] = FALSE]
                BY <2>3, <3>2 DEF Recorded
            <4>2. abandoned' \in [Entities -> BOOLEAN]
                BY <2>1, <4>1 DEF TypeOK
            <4> QED
                BY <2>1, <4>1, <4>2 DEF TypeOK
        <3> QED
            BY <3>1, <3>2
    <2>5. todo' = [todo EXCEPT ![r] = @ \ {e}] /\ UNCHANGED <<pc, types, ok>>
        BY <1>7 DEF Record, e
    <2> QED
        BY <2>1, <2>2, <2>3, <2>4, <2>5 DEF TypeOK
<1>8. ASSUME NEW r \in Requests, Respond(r)
      PROVE  TypeOK'
    BY <1>8 DEF TypeOK, Respond, history
<1>9. CASE UNCHANGED vars
    BY <1>9 DEF TypeOK, vars
<1> QED
    BY <1>1, <1>2, <1>3, <1>4, <1>5, <1>6, <1>7, <1>8, <1>9 DEF Next, Step, Reject

\* Breakers, requests and history keep their types.
THEOREM TypeCorrect == Spec => []TypeOK
BY TypeInit, TypeStep, PTL DEF Spec

-----------------------------------------------------------------------------
(* The inductive invariant: a request counted among the probes of a phase  *)
(* has passed the check of that entity type and not yet recorded it.       *)

TodoInTypes == \A r \in Requests : todo[r] \subseteq types[r]

ProbesPending ==
    \A e \in Entities : \A r \in probes[e] :
        /\ pc[r] # "idle"
        /\ e \in types[r]
        /\ pc[r] = "record" => e \in todo[r]
        /\ pc[r] = "check" => e \notin todo[r]

PhaseProbes == \A e \in Entities : ~IsHalfOpen(e) => probes[e] = {}

HolderProbes ==
    \A e \in Entities : ProbeInFlight(e) /\ ~abandoned[e] => holder[e] \in probes[e]

ProbesFinite == \A e \in Entities : IsFiniteSet(probes[e])

IInv ==
    /\ TypeOK
    /\ TodoInTypes
    /\ ProbesPending
    /\ PhaseProbes
    /\ HolderProbes
    /\ ProbesFinite
    /\ ProbesBounded

LEMMA CheckFacts ==
    ASSUME TypeOK, NEW r \in Requests, Check(r), NEW e, e = First(todo[r])
    PROVE  /\ e \in todo[r] /\ e \in Entities
           /\ pc[r] = "check"
           /\ breaker' = [breaker EXCEPT ![e] = AfterCheck(e)]
           /\ todo' = [todo EXCEPT ![r] = todo[r] \ {e}]
           /\ UNCHANGED <<pc, types, ok>>
           /\ IsClosed(e) => breaker' = breaker /\ UNCHANGED <<holder, abandoned, probes, strays>>
<1>1. e \in todo[r] /\ e \in Entities
    BY FirstIn DEF Check, TypeOK
<1>2. /\ pc[r] = "check"
      /\ breaker' = [breaker EXCEPT ![e] = AfterCheck(e)]
      /\ todo' = [todo EXCEPT ![r] = todo[r] \ {e}]
      /\ UNCHANGED <<pc, types, ok>>
    BY DEF Check
<1>3. ASSUME IsClosed(e)
      PROVE  breaker' = breaker /\ UNCHANGED <<holder, abandoned, probes, strays>>
    BY <1>1, <1>2, <1>3 DEF TypeOK, Check, AfterCheck, history
<1> QED
    BY <1>1, <1>2, <1>3

LEMMA CheckProbe ==
    ASSUME TypeOK, NEW r \in Requests, Check(r), NEW e, e = First(todo[r]), ~IsClosed(e)
    PROVE  /\ IsOpen(e) \/ (IsHalfOpen(e) /\ ~breaker[e].probe)
           /\ breaker'[e].st = "HalfOpen"
           /\ breaker'[e].probe
<1>1. e \in Entities /\ breaker' = [breaker EXCEPT ![e] = AfterCheck(e)]
    BY CheckFacts
<1>2. IsOpen(e) \/ (IsHalfOpen(e) /\ ~breaker[e].probe)
    BY DEF Check, Admits
<1> QED
    BY <1>1, <1>2, AfterTypes DEF TypeOK

LEMMA CheckHistory ==
    ASSUME TypeOK, NEW r \in Requests, Check(r), NEW e, e = First(todo[r]), ~IsClosed(e)
    PROVE  /\ holder'[e] = r
           /\ IsOpen(e) => probes'[e] = {r} /\ strays'[e] = 0
           /\ ~IsOpen(e) => probes'[e] = probes[e] \cup {r} /\ strays'[e] = strays[e]
<1>1. e \in Entities
    BY CheckFacts
<1>2. /\ holder' = [holder EXCEPT ![e] = r]
      /\ abandoned' = [abandoned EXCEPT ![e] = FALSE]
      /\ probes' = [probes EXCEPT ![e] = IF IsOpen(e) THEN {r} ELSE probes[e] \cup {r}]
      /\ strays' = [strays EXCEPT ![e] = IF IsOpen(e) THEN 0 ELSE strays[e]]
    BY DEF Check
<1> QED
    BY <1>1, <1>2 DEF TypeOK

LEMMA CheckOthers ==
    ASSUME TypeOK, NEW r \in Requests, Check(r), NEW e, e = First(todo[r]), ~IsClosed(e),
           NEW f \in Entities, f # e
    PROVE  /\ breaker'[f] = breaker[f]
           /\ holder'[f] = holder[f]
           /\ abandoned'[f] = abandoned[f]
           /\ probes'[f] = probes[f]
           /\ strays'[f] = strays[f]
<1>1. e \in Entities /\ breaker' = [breaker EXCEPT ![e] = AfterCheck(e)]
    BY CheckFacts
<1>2. /\ holder' = [holder EXCEPT ![e] = r]
      /\ abandoned' = [abandoned EXCEPT ![e] = FALSE]
      /\ probes' = [probes EXCEPT ![e] = IF IsOpen(e) THEN {r} ELSE probes[e] \cup {r}]
      /\ strays' = [strays EXCEPT ![e] = IF IsOpen(e) THEN 0 ELSE strays[e]]
    BY DEF Check
<1> QED
    BY <1>1, <1>2 DEF TypeOK

LEMMA RecordFacts ==
    ASSUME TypeOK, NEW r \in Requests, Record(r), NEW e, e = First(todo[r])
    PROVE  /\ e \in todo[r] /\ e \in Entities
           /\ pc[r] = "record"
           /\ \A f \in Entities \ {e} : breaker'[f] = breaker[f]
           /\ todo' = [todo EXCEPT ![r] = todo[r] \ {e}]
           /\ UNCHANGED <<pc, types, ok>>
           /\ breaker'[e].st = "HalfOpen" =>
                /\ IsHalfOpen(e)
                /\ ~breaker'[e].probe
                /\ probes' = [probes EXCEPT ![e] = probes[e] \ {r}]
                /\ strays' = [strays EXCEPT ![e] = IF r \in probes[e] THEN strays[e] ELSE strays[e] + 1]
                /\ UNCHANGED <<holder, abandoned>>
           /\ breaker'[e].st # "HalfOpen" =>
                /\ probes' = [probes EXCEPT ![e] = {}]
                /\ strays' = [strays EXCEPT ![e] = 0]
                /\ holder' = [holder EXCEPT ![e] = NoRequest]
                /\ abandoned' = [abandoned EXCEPT ![e] = FALSE]
<1> DEFINE after == IF ok[r] THEN AfterSuccess(e) ELSE AfterFailure(e)
<1>1. e \in todo[r] /\ e \in Entities
    BY FirstIn DEF Record, TypeOK
<1>2. /\ pc[r] = "record"
      /\ breaker' = [breaker EXCEPT ![e] = after]
      /\ todo' = [todo EXCEPT ![r] = todo[r] \ {e}]
      /\ UNCHANGED <<pc, types, ok>>
      /\ Recorded(r, e, after)
    BY DEF Record
<1>3. after.st = "HalfOpen" => IsHalfOpen(e) /\ ~after.probe
    BY <1>1, AfterTypes
<1> HIDE DEF after
<1>4. breaker'[e] = after /\ \A f \in Entities \ {e} : breaker'[f] = breaker[f]
    BY <1>1, <1>2 DEF TypeOK
<1>5. breaker'[e].st = "HalfOpen" =>
                /\ IsHalfOpen(e)
                /\ ~breaker'[e].probe
                /\ probes' = [probes EXCEPT ![e] = probes[e] \ {r}]
                /\ strays' = [strays EXCEPT ![e] = IF r \in probes[e] THEN strays[e] ELSE strays[e] + 1]
                /\ UNCHANGED <<holder, abandoned>>
    BY <1>2, <1>3, <1>4 DEF Recorded
<1>6. breaker'[e].st # "HalfOpen" =>
                /\ probes' = [probes EXCEPT ![e] = {}]
                /\ strays' = [strays EXCEPT ![e] = 0]
                /\ holder' = [holder EXCEPT ![e] = NoRequest]
                /\ abandoned' = [abandoned EXCEPT ![e] = FALSE]
    BY <1>2, <1>4 DEF Recorded
<1> QED
    BY <1>1, <1>2, <1>4, <1>5, <1>6

LEMMA PendingStep ==
    ASSUME IInv, [Next]_vars
    PROVE  TodoInTypes' /\ ProbesPending' /\ PhaseProbes'
<1> USE DEF TodoInTypes, ProbesPending, PhaseProbes, IsHalfOpen
<1>0. TypeOK /\ TodoInTypes /\ ProbesPending /\ PhaseProbes
    BY DEF IInv
<1>1. ASSUME NEW e \in Entities, Elapse(e)
      PROVE  TodoInTypes' /\ ProbesPending' /\ PhaseProbes'
    <2>1. \A f \in Entities : breaker'[f].st = breaker[f].st
        BY <1>0, <1>1 DEF Elapse, IsOpen, Open, TypeOK
    <2> QED
        BY <1>0, <1>1, <2>1 DEF Elapse, history
<1>2. ASSUME NEW r \in Requests, NEW S \in SUBSET Entities, Receive(r, S)
      PROVE  TodoInTypes' /\ ProbesPending' /\ PhaseProbes'
    BY <1>0, <1>2 DEF Receive, history, TypeOK
<1>3. ASSUME NEW r \in Requests, Leave(r)
      PROVE  TodoInTypes' /\ ProbesPending' /\ PhaseProbes'
    BY <1>0, <1>3 DEF Leave, TypeOK
<1>4. ASSUME NEW r \in Requests, Check(r)
      PROVE  TodoInTypes' /\ ProbesPending' /\ PhaseProbes'
    <2>0. PICK e : e = First(todo[r])
        OBVIOUS
    <2>1. CASE IsClosed(e)
        BY <1>0, <1>4, <2>0, <2>1, CheckFacts DEF TypeOK
    <2>2. CASE ~IsClosed(e)
        <3>1. /\ e \in todo[r] /\ e \in Entities /\ pc[r] = "check"
              /\ todo' = [todo EXCEPT ![r] = todo[r] \ {e}]
              /\ UNCHANGED <<pc, types>>
            BY <1>0, <1>4, <2>0, CheckFacts
        <3>2. breaker'[e].st = "HalfOpen"
            BY <1>0, <1>4, <2>0, <2>2, CheckProbe
        <3>3. probes'[e] \subseteq probes[e] \cup {r}
            BY <1>0, <1>4, <2>0, <2>2, CheckHistory
        <3>4. \A f \in Entities : f # e => breaker'[f] = breaker[f] /\ probes'[f] = probes[f]
            BY <1>0, <1>4, <2>0, <2>2, CheckOthers
        <3>5. TodoInTypes' /\ PhaseProbes'
            BY <1>0, <3>1, <3>2, <3>4 DEF TypeOK
        <3>6. ProbesPending'
            BY <1>0, <3>1, <3>3, <3>4 DEF TypeOK
        <3> QED
            BY <3>5, <3>6
    <2> QED
        BY <2>1, <2>2
<1>5. ASSUME NEW r \in Requests, Resolve(r)
      PROVE  TodoInTypes' /\ ProbesPending' /\ PhaseProbes'
    BY <1>0, <1>3, <1>5 DEF Resolve, history, TypeOK
<1>6. ASSUME NEW r \in Requests, Execute(r)
      PROVE  TodoInTypes' /\ ProbesPending' /\ PhaseProbes'
    BY <1>0, <1>3, <1>6 DEF Execute, history, TypeOK
<1>7. ASSUME NEW r \in Requests, Record(r)
      PROVE  TodoInTypes' /\ ProbesPending' /\ PhaseProbes'
    <2>0. PICK e : e = First(todo[r])
        OBVIOUS
    <2>1. /\ e \in todo[r] /\ e \in Entities /\ pc[r] = "record"
          /\ \A f \in Entities \ {e} : breaker'[f] = breaker[f]
          /\ todo' = [todo EXCEPT ![r] = todo[r] \ {e}]
          /\ UNCHANGED <<pc, types>>
        BY <1>0, <1>7, <2>0, RecordFacts
    <2>2. \/ breaker'[e].st = "HalfOpen" /\ probes' = [probes EXCEPT ![e] = probes[e] \ {r}]
          \/ probes' = [probes EXCEPT ![e] = {}]
        BY <1>0, <1>7, <2>0, RecordFacts
    <2>3. TodoInTypes' /\ PhaseProbes'
        BY <1>0, <2>1, <2>2 DEF TypeOK
    <2>4. ProbesPending'
        BY <1>0, <2>1, <2>2 DEF TypeOK
    <2> QED
        BY <2>3, <2>4
<1>8. ASSUME NEW r \in Requests, Respond(r)
      PROVE  TodoInTypes' /\ ProbesPending' /\ PhaseProbes'
    BY <1>0, <1>8 DEF Respond, history, TypeOK
<1>9. CASE UNCHANGED vars
    BY <1>0, <1>9 DEF vars
<1> QED
    BY <1>1, <1>2, <1>3, <1>4, <1>5, <1>6, <1>7, <1>8, <1>9 DEF Next, Step, Reject

LEMMA HolderStep ==
    ASSUME IInv, [Next]_vars
    PROVE  HolderProbes'
<1> USE DEF HolderProbes, ProbeInFlight, IsHalfOpen
<1>0. TypeOK /\ HolderProbes
    BY DEF IInv
<1>1. ASSUME NEW e \in Entities, Elapse(e)
      PROVE  HolderProbes'
    <2>1. \A f \in Entities : breaker'[f].st = "HalfOpen" => breaker'[f] = breaker[f]
        BY <1>0, <1>1 DEF Elapse, IsOpen, Open, TypeOK
    <2> QED
        BY <1>0, <1>1, <2>1 DEF Elapse, history
<1>2. ASSUME NEW r \in Requests, NEW S \in SUBSET Entities, Receive(r, S)
      PROVE  HolderProbes'
    BY <1>0, <1>2 DEF Receive, history
<1>3. ASSUME NEW r \in Requests, Leave(r)
      PROVE  HolderProbes'
    BY <1>0, <1>3 DEF Leave, TypeOK
<1>4. ASSUME NEW r \in Requests, Check(r)
      PROVE  HolderProbes'
    <2>0. PICK e : e = First(todo[r])
        OBVIOUS
    <2>1. CASE IsClosed(e)
        BY <1>0, <1>4, <2>0, <2>1, CheckFacts
    <2>2. CASE ~IsClosed(e)
        <3>1. holder'[e] \in probes'[e]
            BY <1>0, <1>4, <2>0, <2>2, CheckHistory
        <3>2. \A f \in Entities : f # e => /\ breaker'[f] = breaker[f]
                                          /\ holder'[f] = holder[f]
                                          /\ abandoned'[f] = abandoned[f]
                                          /\ probes'[f] = probes[f]
            BY <1>0, <1>4, <2>0, <2>2, CheckOthers
        <3> QED
            BY <1>0, <3>1, <3>2
    <2> QED
        BY <2>1, <2>2
<1>5. ASSUME NEW r \in Requests, Resolve(r)
      PROVE  HolderProbes'
    BY <1>0, <1>3, <1>5 DEF Resolve, history
<1>6. ASSUME NEW r \in Requests, Execute(r)
      PROVE  HolderProbes'
    BY <1>0, <1>3, <1>6 DEF Execute, history
<1>7. ASSUME NEW r \in Requests, Record(r)
      PROVE  HolderProbes'
    <2>0. PICK e : e = First(todo[r])
        OBVIOUS
    <2>1. /\ e \in Entities
          /\ \A f \in Entities \ {e} : breaker'[f] = breaker[f]
          /\ ~(breaker'[e].st = "HalfOpen" /\ breaker'[e].probe)
        BY <1>0, <1>7, <2>0, RecordFacts
    <2>2. \A f \in Entities \ {e} : /\ holder'[f] = holder[f]
                                   /\ abandoned'[f] = abandoned[f]
                                   /\ probes'[f] = probes[f]
        BY <1>0, <1>7, <2>0, RecordFacts DEF TypeOK
    <2> QED
        BY <1>0, <2>1, <2>2
<1>8. ASSUME NEW r \in Requests, Respond(r)
      PROVE  HolderProbes'
    BY <1>0, <1>8 DEF Respond, history
<1>9. CASE UNCHANGED vars
    BY <1>0, <1>9 DEF vars
<1> QED
    BY <1>1, <1>2, <1>3, <1>4, <1>5, <1>6, <1>7, <1>8, <1>9 DEF Next, Step, Reject

LEMMA AddOne ==
    ASSUME NEW S, IsFiniteSet(S), NEW x
    PROVE  /\ IsFiniteSet(S \cup {x})
           /\ Cardinality(S) \in Nat /\ Cardinality(S \cup {x}) \in Nat
           /\ Cardinality(S \cup {x}) <= Cardinality(S) + 1
<1>1. IsFiniteSet(S \cup {x}) /\ Cardinality(S \cup {x}) = IF x \in S THEN Cardinality(S)
                                                          ELSE Cardinality(S) + 1
    BY FS_AddElement
<1>2. Cardinality(S) \in Nat
    BY FS_CardinalityType
<1> QED
    BY <1>1, <1>2

LEMMA RemoveOne ==
    ASSUME NEW S, IsFiniteSet(S), NEW x
    PROVE  /\ IsFiniteSet(S \ {x})
           /\ Cardinality(S) \in Nat /\ Cardinality(S \ {x}) \in Nat
           /\ Cardinality(S \ {x}) <= Cardinality(S)
           /\ x \in S => Cardinality(S \ {x}) = Cardinality(S) - 1
<1>1. IsFiniteSet(S \ {x}) /\ Cardinality(S \ {x}) = IF x \in S THEN Cardinality(S) - 1
                                                    ELSE Cardinality(S)
    BY FS_RemoveElement
<1>2. Cardinality(S) \in Nat /\ Cardinality(S \ {x}) \in Nat
    BY <1>1, FS_CardinalityType
<1> QED
    BY <1>1, <1>2

\* The bound for one entity type: what a step may do to its set of probes.
Bounded(e) ==
    /\ IsFiniteSet(probes[e])
    /\ IsHalfOpen(e) => Cardinality(probes[e]) <= strays[e] + (IF breaker[e].probe THEN 1 ELSE 0)

LEMMA BoundedStep ==
    ASSUME IInv, [Next]_vars, NEW e \in Entities
    PROVE  Bounded(e)'
<1>0. TypeOK /\ Bounded(e) /\ PhaseProbes /\ strays[e] \in Nat
    BY DEF IInv, Bounded, ProbesFinite, ProbesBounded, TypeOK
<1>1. ASSUME breaker'[e] = breaker[e] \/ breaker'[e].st # "HalfOpen",
             probes'[e] = probes[e], strays'[e] = strays[e]
      PROVE  Bounded(e)'
    BY <1>0, <1>1 DEF Bounded, IsHalfOpen
<1>2. ASSUME NEW f \in Entities, Elapse(f)
      PROVE  Bounded(e)'
    <2>1. breaker'[e] = breaker[e] \/ breaker'[e].st # "HalfOpen"
        BY <1>0, <1>2 DEF Elapse, Open, TypeOK
    <2> QED
        BY <1>1, <1>2, <2>1 DEF Elapse, history
<1>3. ASSUME NEW r \in Requests, Leave(r)
      PROVE  Bounded(e)'
    <2>1. probes'[e] = probes[e] \ {r} /\ breaker'[e] = breaker[e] /\ strays'[e] = strays[e]
        BY <1>3 DEF Leave
    <2>2. Cardinality(probes'[e]) <= Cardinality(probes[e]) /\ IsFiniteSet(probes'[e])
          /\ Cardinality(probes'[e]) \in Nat
          /\ Cardinality(probes[e]) \in Nat
        BY <1>0, <2>1, RemoveOne DEF Bounded
    <2> QED
        BY <1>0, <2>1, <2>2 DEF Bounded, IsHalfOpen
<1>4. ASSUME NEW r \in Requests, Check(r)
      PROVE  Bounded(e)'
    <2>0. PICK f : f = First(todo[r])
        OBVIOUS
    <2>1. CASE IsClosed(f) \/ e # f
        <3>1. breaker'[e] = breaker[e] /\ probes'[e] = probes[e] /\ strays'[e] = strays[e]
            <4>1. CASE IsClosed(f)
                BY <1>0, <1>4, <2>0, <4>1, CheckFacts
            <4>2. CASE ~IsClosed(f)
                BY <1>0, <1>4, <2>0, <2>1, <4>2, CheckOthers
            <4> QED
                BY <4>1, <4>2
        <3> QED
            BY <1>1, <3>1
    <2>2. CASE ~IsClosed(f) /\ e = f
        <3>1. /\ IsOpen(e) \/ (IsHalfOpen(e) /\ ~breaker[e].probe)
              /\ breaker'[e].st = "HalfOpen" /\ breaker'[e].probe
            BY <1>0, <1>4, <2>0, <2>2, CheckProbe
        <3>2. CASE IsOpen(e)
            <4>1. probes'[e] = {r} /\ strays'[e] = 0
                BY <1>0, <1>4, <2>0, <2>2, <3>2, CheckHistory
            <4>2. IsFiniteSet({r}) /\ Cardinality({r}) = 1
                BY FS_Singleton
            <4> QED
                BY <3>1, <4>1, <4>2 DEF Bounded
        <3>3. CASE ~IsOpen(e)
            <4>1. Cardinality(probes[e]) <= strays[e]
                BY <1>0, <3>1, <3>3, FS_CardinalityType DEF Bounded
            <4>2. probes'[e] = probes[e] \cup {r} /\ strays'[e] = strays[e]
                BY <1>0, <1>4, <2>0, <2>2, <3>3, CheckHistory
            <4>3. /\ IsFiniteSet(probes'[e])
                  /\ Cardinality(probes[e]) \in Nat /\ Cardinality(probes'[e]) \in Nat
                  /\ Cardinality(probes'[e]) <= Cardinality(probes[e]) + 1
                BY <1>0, <4>2, AddOne DEF Bounded
            <4>4. Cardinality(probes'[e]) <= strays'[e] + 1
                BY <1>0, <4>1, <4>2, <4>3
            <4> QED
                BY <3>1, <4>3, <4>4 DEF Bounded
        <3> QED
            BY <3>2, <3>3
    <2> QED
        BY <2>1, <2>2
<1>5. ASSUME NEW r \in Requests, Record(r)
      PROVE  Bounded(e)'
    <2>0. PICK f : f = First(todo[r])
        OBVIOUS
    <2>1. CASE e # f
        <3>1. breaker'[e] = breaker[e] /\ probes'[e] = probes[e] /\ strays'[e] = strays[e]
            BY <1>0, <1>5, <2>0, <2>1, RecordFacts DEF TypeOK
        <3> QED
            BY <1>1, <3>1
    <2>2. CASE e = f /\ breaker'[e].st # "HalfOpen"
        <3>1. probes'[e] = {}
            BY <1>0, <1>5, <2>0, <2>2, RecordFacts DEF TypeOK
        <3> QED
            BY <2>2, <3>1, FS_EmptySet DEF Bounded, IsHalfOpen
    <2>3. CASE e = f /\ breaker'[e].st = "HalfOpen"
        <3>1. /\ IsHalfOpen(e)
              /\ ~breaker'[e].probe
              /\ probes'[e] = probes[e] \ {r}
              /\ strays'[e] = IF r \in probes[e] THEN strays[e] ELSE strays[e] + 1
            BY <1>0, <1>5, <2>0, <2>3, RecordFacts DEF TypeOK
        <3>2. Cardinality(probes[e]) <= strays[e] + 1
            BY <1>0, <3>1, FS_CardinalityType DEF Bounded
        <3>3. /\ IsFiniteSet(probes'[e])
              /\ Cardinality(probes[e]) \in Nat /\ Cardinality(probes'[e]) \in Nat
              /\ Cardinality(probes'[e]) <= Cardinality(probes[e])
              /\ r \in probes[e] => Cardinality(probes'[e]) = Cardinality(probes[e]) - 1
            BY <1>0, <3>1, RemoveOne DEF Bounded
        <3>4. Cardinality(probes'[e]) <= strays'[e]
            BY <1>0, <3>1, <3>2, <3>3
        <3>5. strays'[e] + (IF breaker'[e].probe THEN 1 ELSE 0) = strays'[e]
            BY <1>0, <3>1
        <3> QED
            BY <3>1, <3>4, <3>5, <3>3 DEF Bounded
    <2> QED
        BY <2>1, <2>2, <2>3
<1>6. ASSUME UNCHANGED <<breaker, probes, strays>>
      PROVE  Bounded(e)'
    BY <1>1, <1>6
<1> QED
    BY <1>2, <1>3, <1>4, <1>5, <1>6
    DEF Next, Step, Receive, Reject, Resolve, Execute, Respond, vars, history

LEMMA IInvHolds == Spec => []IInv
<1>1. Init => IInv
    <2> SUFFICES ASSUME Init
                 PROVE  IInv
        OBVIOUS
    <2>1. \A e \in Entities : ~IsHalfOpen(e) /\ probes[e] = {} /\ strays[e] = 0
        BY DEF Init, IsHalfOpen, Closed
    <2>2. \A r \in Requests : todo[r] = {}
        BY DEF Init
    <2> QED
        BY <2>1, <2>2, TypeInit, FS_EmptySet DEF IInv, TodoInTypes, ProbesPending, PhaseProbes,
            HolderProbes, ProbesFinite, ProbesBounded, ProbeInFlight
<1>2. IInv /\ [Next]_vars => IInv'
    <2> SUFFICES ASSUME IInv, [Next]_vars
                 PROVE  IInv'
        OBVIOUS
    <2>1. TypeOK'
        BY TypeStep DEF IInv
    <2>2. ProbesFinite' /\ ProbesBounded'
        BY BoundedStep DEF Bounded, ProbesFinite, ProbesBounded
    <2> QED
        BY <2>1, <2>2, PendingStep, HolderStep DEF IInv
<1> QED
    BY <1>1, <1>2, PTL DEF Spec

\* A breaker that waits for a probe waits for a request that will still record
\* its outcome, or for one that left the handler without doing so.
THEOREM ProbeIsHeld == Spec => []ProbeHeld
<1>1. IInv => ProbeHeld
    BY DEF IInv, ProbeHeld, HolderProbes, ProbesPending
<1> QED
    BY <1>1, IInvHolds, PTL

\* Probes of one half-open phase run together only as far as outcomes of other
\* requests cleared the flag.
THEOREM ProbesAreBounded == Spec => []ProbesBounded
<1>1. IInv => ProbesBounded
    BY DEF IInv
<1> QED
    BY <1>1, IInvHolds, PTL
=============================================================================
