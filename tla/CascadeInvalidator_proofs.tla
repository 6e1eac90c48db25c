----------------------- MODULE CascadeInvalidator_proofs -----------------------
(***************************************************************************)
(* Proofs about CascadeInvalidator for any finite set of views and any     *)
(* sequence of calls.                                                      *)
(***************************************************************************)
EXTENDS CascadeInvalidator, FiniteSetTheorems, TLAPS

\* The loop invariant of can_reach: what was visited leads only to visited or
\* queued views, all of them reachable from the start, and the target was not
\* among the visited.
AddLoop ==
    op = "add" =>
        /\ from # target
        /\ from \in visited \cup queue
        /\ target \notin visited
        /\ \A v \in visited : view_dependencies[v] \subseteq visited \cup queue
        /\ \A S \in SUBSET Views :
              from \in S /\ ClosedUnder(view_dependencies, S) => visited \cup queue \subseteq S

\* The loop invariant of cascade_invalidate and get_transitive_dependents.
CascadeLoop ==
    op \in {"cascade", "dependents"} =>
        /\ from \in visited
        /\ queue \subseteq visited
        /\ \A v \in visited \ queue : dependents[v] \subseteq visited
        /\ \A S \in SUBSET Views :
              from \in S /\ ClosedUnder(dependents, S) => visited \subseteq S

\* The loop invariant of has_dependency_path, and what it leaves behind when it
\* finds the target.
PathLoop ==
    op = "path" =>
        /\ from \in visited \cup queue
        /\ \A v \in visited : view_dependencies[v] \subseteq visited \cup queue
        /\ \A v \in visited : target \notin view_dependencies[v]
        /\ \A S \in SUBSET Views :
              view_dependencies[from] \subseteq S /\ ClosedUnder(view_dependencies, S)
                 => visited \cup queue \subseteq S \cup {from}

PathFound ==
    answer = "found" => \A S \in SUBSET Views :
        view_dependencies[from] \subseteq S /\ ClosedUnder(view_dependencies, S) => target \in S

Loops == AddLoop /\ CascadeLoop /\ PathLoop /\ PathFound

(* add_dependency, the traversals and clear keep every mapping, queue and  *)
(* counter inside its type.                                                *)
THEOREM TypeCorrect == Spec => []TypeOK
<1>1. Init => TypeOK
  BY DEF Init, TypeOK, NoStats, Ops
<1>2. TypeOK /\ [Next]_vars => TypeOK'
  <2> SUFFICES ASSUME TypeOK, [Next]_vars PROVE TypeOK'
    OBVIOUS
  <2> USE DEF TypeOK, Ops
  <2>1. ASSUME NEW v \in Views, NEW w \in Views, AddStart(v, w) \/ PathStart(v, w)
        PROVE  TypeOK'
    BY <2>1 DEF AddStart, PathStart, Start
  <2>2. ASSUME NEW v \in Views, CascadeStart(v) \/ DependentsStart(v) PROVE TypeOK'
    BY <2>2 DEF CascadeStart, DependentsStart, Start
  <2>3. CASE AddRejected
    BY <2>3 DEF AddRejected, Finish
  <2>4. ASSUME NEW v \in Views, AddStep(v) PROVE TypeOK'
    BY <2>4 DEF AddStep
  <2>5. CASE AddEdge
    BY <2>5 DEF AddEdge, Finish
  <2>6. ASSUME NEW v \in Views, CascadeStep(v) PROVE TypeOK'
    BY <2>6 DEF CascadeStep
  <2>7. CASE CascadeDone
    <3>1. Cardinality(visited) \in Nat
      BY ViewsAssumption, FS_Subset, FS_CardinalityType
    <3> QED
      BY <2>7, <3>1 DEF CascadeDone, Finish
  <2>8. CASE DependentsDone \/ PathDone
    BY <2>8 DEF DependentsDone, PathDone, Finish
  <2>9. ASSUME NEW v \in Views, PathStep(v) PROVE TypeOK'
    BY <2>9 DEF PathStep
  <2>10. CASE Clear
    BY <2>10 DEF Clear, NoStats
  <2>11. CASE UNCHANGED vars
    BY <2>11 DEF vars
  <2> QED
    BY <2>1, <2>2, <2>3, <2>4, <2>5, <2>6, <2>7, <2>8, <2>9, <2>10, <2>11 DEF Next, Work, Call
<1> QED
  BY <1>1, <1>2, PTL DEF Spec

(* The forward and the reverse mapping stay mirror images: add_dependency  *)
(* writes both and clear empties both.                                     *)
THEOREM Mirror == Spec => []MapsMirror
<1>1. Init => MapsMirror
  BY DEF Init, MapsMirror
<1>2. TypeOK /\ MapsMirror /\ [Next]_vars => MapsMirror'
  <2> SUFFICES ASSUME TypeOK, MapsMirror, [Next]_vars PROVE MapsMirror'
    OBVIOUS
  <2>1. CASE AddEdge
    BY <2>1 DEF AddEdge, TypeOK, MapsMirror
  <2>2. CASE Clear
    BY <2>2 DEF Clear, MapsMirror
  <2>3. CASE UNCHANGED <<view_dependencies, dependents>>
    BY <2>3 DEF MapsMirror
  <2> QED
    BY <2>1, <2>2, <2>3 DEF Next, Work, Call, AddStart, PathStart, CascadeStart, DependentsStart,
       Start, AddRejected, AddStep, CascadeDone, CascadeStep, DependentsDone, PathDone, PathStep,
       vars
<1> QED
  BY <1>1, <1>2, TypeCorrect, PTL DEF Spec

LEMMA AddLoopStep ==
    ASSUME TypeOK, AddLoop, [Next]_vars
    PROVE  AddLoop'
<1> USE DEF TypeOK, AddLoop
<1>1. ASSUME NEW v \in Views, NEW w \in Views, AddStart(v, w) PROVE AddLoop'
  BY <1>1 DEF AddStart, Start
<1>2. ASSUME NEW v \in Views, AddStep(v) PROVE AddLoop'
  <2>1. /\ from' = from /\ target' = target /\ op' = op /\ op = "add"
        /\ view_dependencies' = view_dependencies
        /\ visited' = visited \cup {v} /\ v \in queue /\ v # target
    BY <1>2 DEF AddStep
  <2>2. visited' \cup queue' = visited \cup queue \cup view_dependencies[v]
    <3>1. CASE v \in visited
      BY <1>2, <3>1 DEF AddStep
    <3>2. CASE v \notin visited
      BY <1>2, <3>2 DEF AddStep
    <3> QED
      BY <3>1, <3>2
  <2>3. ASSUME NEW S \in SUBSET Views, from \in S, ClosedUnder(view_dependencies, S)
        PROVE  visited' \cup queue' \subseteq S
    BY <2>1, <2>2, <2>3 DEF ClosedUnder
  <2>4. \A u \in visited' : view_dependencies[u] \subseteq visited' \cup queue'
    BY <2>1, <2>2
  <2> QED
    BY <2>1, <2>2, <2>3, <2>4
<1>3. CASE op' # "add"
  BY <1>3
<1>4. CASE UNCHANGED vars
  BY <1>4 DEF vars, ClosedUnder
<1> QED
  BY <1>1, <1>2, <1>3, <1>4 DEF Next, Work, Call, PathStart, CascadeStart, DependentsStart, Start,
     AddRejected, AddEdge, CascadeDone, CascadeStep, DependentsDone, PathDone, PathStep, Finish,
     Clear

LEMMA CascadeLoopStep ==
    ASSUME TypeOK, CascadeLoop, [Next]_vars
    PROVE  CascadeLoop'
<1> USE DEF TypeOK, CascadeLoop
<1>1. ASSUME NEW v \in Views, CascadeStart(v) \/ DependentsStart(v) PROVE CascadeLoop'
  BY <1>1 DEF CascadeStart, DependentsStart, Start
<1>2. ASSUME NEW v \in Views, CascadeStep(v) PROVE CascadeLoop'
  <2>1. ASSUME NEW S \in SUBSET Views, from \in S, ClosedUnder(dependents, S)
        PROVE  visited' \subseteq S
    BY <1>2, <2>1 DEF CascadeStep, ClosedUnder
  <2> QED
    BY <1>2, <2>1 DEF CascadeStep
<1>3. CASE op' \notin {"cascade", "dependents"}
  BY <1>3
<1>4. CASE UNCHANGED vars
  BY <1>4 DEF vars, ClosedUnder
<1> QED
  BY <1>1, <1>2, <1>3, <1>4 DEF Next, Work, Call, PathStart, AddStart, Start, AddRejected, AddStep,
     AddEdge, CascadeDone, DependentsDone, PathDone, PathStep, Finish, Clear

LEMMA PathLoopStep ==
    ASSUME TypeOK, PathLoop, [Next]_vars
    PROVE  PathLoop'
<1> USE DEF TypeOK, PathLoop
<1>1. ASSUME NEW v \in Views, NEW w \in Views, PathStart(v, w) PROVE PathLoop'
  BY <1>1 DEF PathStart, Start
<1>2. ASSUME NEW v \in Views, PathStep(v), op' = "path" PROVE PathLoop'
  <2>1. /\ from' = from /\ target' = target /\ op = "path"
        /\ view_dependencies' = view_dependencies
        /\ visited' = visited \cup {v} /\ v \in queue
        /\ v \in visited \/ target \notin view_dependencies[v]
    BY <1>2 DEF PathStep
  <2>2. visited' \cup queue' = visited \cup queue \cup view_dependencies[v]
    <3>1. CASE v \in visited
      BY <1>2, <3>1 DEF PathStep
    <3>2. CASE v \notin visited
      BY <1>2, <3>2 DEF PathStep
    <3> QED
      BY <3>1, <3>2
  <2>3. ASSUME NEW S \in SUBSET Views, view_dependencies[from] \subseteq S,
               ClosedUnder(view_dependencies, S)
        PROVE  visited' \cup queue' \subseteq S \cup {from}
    <3>1. visited \cup queue \subseteq S \cup {from}
      BY <2>1, <2>3
    <3>2. view_dependencies[v] \subseteq S
      BY <2>1, <2>3, <3>1 DEF ClosedUnder
    <3> QED
      BY <2>2, <3>1, <3>2
  <2>4. \A u \in visited' : view_dependencies[u] \subseteq visited' \cup queue'
    BY <2>1, <2>2
  <2>5. \A u \in visited' : target \notin view_dependencies[u]
    BY <2>1
  <2> QED
    BY <2>1, <2>2, <2>3, <2>4, <2>5
<1>3. CASE op' # "path"
  BY <1>3
<1>4. CASE UNCHANGED vars
  BY <1>4 DEF vars, ClosedUnder
<1> QED
  BY <1>1, <1>2, <1>3, <1>4 DEF Next, Work, Call, CascadeStart, DependentsStart, AddStart, Start,
     AddRejected, AddStep, AddEdge, CascadeDone, CascadeStep, DependentsDone, PathDone, Finish,
     Clear

\* The target is a dependency of a view that is the start or lies in the set.
LEMMA PathFoundStep ==
    ASSUME TypeOK, PathLoop, PathFound, [Next]_vars
    PROVE  PathFound'
<1>1. ASSUME NEW v \in Views, PathStep(v), answer' = "found" PROVE PathFound'
  <2>1. CASE answer = "found" /\ UNCHANGED answer /\ op' = op
    BY <1>1, <2>1 DEF PathStep, PathFound, ClosedUnder
  <2>2. CASE v \in queue /\ target \in view_dependencies[v] /\ op = "path"
    <3> SUFFICES ASSUME NEW S \in SUBSET Views, view_dependencies[from] \subseteq S,
                        ClosedUnder(view_dependencies, S)
                 PROVE  target \in S
      BY <1>1 DEF PathStep, PathFound, ClosedUnder
    <3>1. v \in S \cup {from}
      BY <2>2 DEF PathLoop
    <3> QED
      BY <2>2, <3>1 DEF ClosedUnder
  <2> QED
    BY <1>1, <2>1, <2>2 DEF PathStep
<1>2. CASE answer' # "found"
  BY <1>2 DEF PathFound
<1>3. CASE UNCHANGED <<view_dependencies, from, target, answer>>
  BY <1>3 DEF PathFound, ClosedUnder
<1> QED
  BY <1>1, <1>2, <1>3 DEF Next, Work, Call, AddStart, PathStart, CascadeStart, DependentsStart,
     Start, AddRejected, AddStep, AddEdge, CascadeDone, CascadeStep, DependentsDone, PathDone,
     Finish, Clear, vars

THEOREM LoopInvariants == Spec => []Loops
<1>1. Init => Loops
  BY DEF Init, Loops, AddLoop, CascadeLoop, PathLoop, PathFound
<1>2. TypeOK /\ Loops /\ [Next]_vars => Loops'
  BY AddLoopStep, CascadeLoopStep, PathLoopStep, PathFoundStep DEF Loops
<1> QED
  BY <1>1, <1>2, TypeCorrect, PTL DEF Spec

(* The cascade that invalidate_views uses to expand its argument is exact: *)
(* it misses no transitive dependent and adds nothing else.                *)
THEOREM CascadeIsExact == Spec => []CascadeExact
<1>1. TypeOK /\ Loops => CascadeExact
  BY DEF TypeOK, Loops, CascadeLoop, CascadeExact, ClosedUnder
<1> QED
  BY <1>1, TypeCorrect, LoopInvariants, PTL

(* can_reach is exact: add_dependency refuses an edge if and only if it    *)
(* would close a cycle.                                                    *)
THEOREM CanReachIsExact == Spec => []CanReachExact
<1>1. TypeOK /\ Loops => CanReachExact
  BY DEF TypeOK, Loops, AddLoop, CanReachExact, ClosedUnder
<1> QED
  BY <1>1, TypeCorrect, LoopInvariants, PTL

(* has_dependency_path is exact: it finds the target if and only if a      *)
(* chain of one or more dependencies leads to it.                          *)
THEOREM PathIsExact == Spec => []PathExact
<1>1. TypeOK /\ Loops => PathExact
  BY DEF TypeOK, Loops, PathLoop, PathFound, PathExact, ClosedUnder
<1> QED
  BY <1>1, TypeCorrect, LoopInvariants, PTL

\* Adding an edge whose end cannot reach its start keeps the graph acyclic.
\* The visited set is closed and does not hold the new dependent, so a set
\* that contains both ends has a minimal member among the visited views.
LEMMA AddEdgeAcyclic ==
    ASSUME TypeOK, AddLoop, Acyclic, AddEdge
    PROVE  Acyclic'
<1> SUFFICES ASSUME NEW S \in SUBSET Views, S # {}
             PROVE  \E v \in S : view_dependencies'[v] \cap S = {}
  BY DEF Acyclic
<1>1. /\ op = "add" /\ queue = {}
      /\ \A v \in Views : v # target => view_dependencies'[v] = view_dependencies[v]
      /\ view_dependencies'[target] = view_dependencies[target] \cup {from}
  BY DEF AddEdge, TypeOK
<1>2. /\ from \in visited /\ target \notin visited
      /\ \A v \in visited : view_dependencies[v] \subseteq visited
  BY <1>1 DEF AddLoop
<1>3. CASE from \in S
  <2>1. S \cap visited \in SUBSET Views /\ S \cap visited # {}
    BY <1>2, <1>3 DEF TypeOK
  <2>2. PICK m \in S \cap visited : view_dependencies[m] \cap (S \cap visited) = {}
    BY <2>1 DEF Acyclic
  <2>3. view_dependencies[m] \cap S = {} /\ m # target /\ m \in Views
    BY <1>2, <2>2
  <2> QED
    BY <1>1, <2>2, <2>3
<1>4. CASE from \notin S
  <2>1. PICK m \in S : view_dependencies[m] \cap S = {}
    BY DEF Acyclic
  <2> QED
    BY <1>1, <1>4, <2>1
<1> QED
  BY <1>3, <1>4

(* The dependency graph stays acyclic whatever edges are requested.        *)
THEOREM GraphAcyclic == Spec => []Acyclic
<1>1. Init => Acyclic
  BY DEF Init, Acyclic
<1>2. TypeOK /\ Loops /\ Acyclic /\ [Next]_vars => Acyclic'
  <2> SUFFICES ASSUME TypeOK, Loops, Acyclic, [Next]_vars PROVE Acyclic'
    OBVIOUS
  <2>1. CASE AddEdge
    BY <2>1, AddEdgeAcyclic DEF Loops
  <2>2. CASE Clear
    BY <2>2 DEF Clear, Acyclic
  <2>3. CASE UNCHANGED view_dependencies
    BY <2>3 DEF Acyclic
  <2> QED
    BY <2>1, <2>2, <2>3 DEF Next, Work, Call, AddStart, PathStart, CascadeStart, DependentsStart,
       Start, AddRejected, AddStep, CascadeDone, CascadeStep, DependentsDone, PathDone, PathStep,
       vars
<1> QED
  BY <1>1, <1>2, TypeCorrect, LoopInvariants, PTL DEF Spec
=============================================================================
