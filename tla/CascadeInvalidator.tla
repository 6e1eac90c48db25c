-------------------------- MODULE CascadeInvalidator --------------------------
(***************************************************************************)
(* The view dependency graph behind cascade invalidation.                  *)
(*                                                                         *)
(* The adapter keeps it behind a mutex, so calls do not interleave; what   *)
(* is hard is the work list of each call.  Every traversal is a loop over  *)
(* a queue, one action per iteration.  The VecDeque is a set here: the     *)
(* HashSets it is filled from have no order, and a view queued twice is    *)
(* visited once.                                                           *)
(***************************************************************************)
EXTENDS Integers, FiniteSets

CONSTANTS
    Views,        \* view names
    MaxCascades   \* bound on counted cascades

ASSUME ViewsAssumption == IsFiniteSet(Views)
ASSUME MaxCascadesAssumption == MaxCascades \in Nat

VARIABLES
    view_dependencies,  \* dependent -> views it depends on
    dependents,         \* view -> views that depend on it
    stats,              \* InvalidationStats
    op,                 \* the traversal in progress, "idle" between calls
    from,               \* its starting view
    target,             \* the view it looks for
    queue,              \* views still to expand
    visited,            \* visited, or invalidated, or result
    answer              \* what the last traversal returned

vars == <<view_dependencies, dependents, stats, op, from, target, queue, visited, answer>>

Ops == {"idle", "add", "cascade", "dependents", "path"}

TypeOK ==
    /\ view_dependencies \in [Views -> SUBSET Views]
    /\ dependents \in [Views -> SUBSET Views]
    /\ stats \in [cascades : Nat, invalidated : Nat, max_affected : Nat]
    /\ op \in Ops
    /\ from \in Views
    /\ target \in Views
    /\ queue \subseteq Views
    /\ visited \subseteq Views
    /\ answer \in {"none", "cycle", "found", "not_found"}

NoStats == [cascades |-> 0, invalidated |-> 0, max_affected |-> 0]

Init ==
    /\ view_dependencies = [v \in Views |-> {}]
    /\ dependents = [v \in Views |-> {}]
    /\ stats = NoStats
    /\ op = "idle"
    /\ from \in Views
    /\ target = from
    /\ queue = {}
    /\ visited = {}
    /\ answer = "none"

Start(call, v, w, seen) ==
    /\ op = "idle"
    /\ op' = call
    /\ from' = v
    /\ target' = w
    /\ queue' = {v}
    /\ visited' = seen
    /\ answer' = "none"
    /\ UNCHANGED <<view_dependencies, dependents, stats>>

Finish(result) ==
    /\ op' = "idle"
    /\ queue' = {}
    /\ answer' = result
    /\ UNCHANGED <<from, target, visited>>

-----------------------------------------------------------------------------
(* add_dependency(dependent, dependency): a view may not depend on itself, *)
(* and can_reach walks view_dependencies from the dependency to see whether*)
(* the new edge would close a cycle.                                       *)

AddStart(dependent, dependency) ==
    /\ dependent # dependency
    /\ Start("add", dependency, dependent, {})

\* can_reach pops the target: add_dependency returns an error.
AddRejected ==
    /\ op = "add"
    /\ target \in queue
    /\ Finish("cycle")
    /\ UNCHANGED <<view_dependencies, dependents, stats>>

\* Mutant: can_reach follows the reverse map.
AddStepReverse(v) ==
    /\ op = "add"
    /\ v \in queue /\ v # target
    /\ visited' = visited \cup {v}
    /\ queue' = IF v \in visited THEN queue \ {v}
                ELSE (queue \ {v}) \cup (dependents[v] \ visited')
    /\ UNCHANGED <<view_dependencies, dependents, stats, op, from, target, answer>>

AddStep(v) ==
    /\ op = "add"
    /\ v \in queue /\ v # target
    /\ visited' = visited \cup {v}
    /\ queue' = IF v \in visited THEN queue \ {v}
                ELSE (queue \ {v}) \cup (view_dependencies[v] \ visited')
    /\ UNCHANGED <<view_dependencies, dependents, stats, op, from, target, answer>>

\* The queue ran empty: both mappings get the edge.
AddEdge ==
    /\ op = "add"
    /\ queue = {}
    /\ view_dependencies' = [view_dependencies EXCEPT ![target] = @ \cup {from}]
    /\ dependents' = [dependents EXCEPT ![from] = @ \cup {target}]
    /\ Finish("not_found")
    /\ UNCHANGED stats

-----------------------------------------------------------------------------
(* cascade_invalidate and get_transitive_dependents: the same walk over    *)
(* dependents; only the first is counted.                                  *)

CascadeStart(v) ==
    /\ stats.cascades < MaxCascades
    /\ Start("cascade", v, v, {v})

DependentsStart(v) == Start("dependents", v, v, {v})

\* Mutant: a dependent that is found is not expanded in its turn.
CascadeStepShallow(v) ==
    /\ op \in {"cascade", "dependents"}
    /\ v \in queue
    /\ visited' = visited \cup dependents[v]
    /\ queue' = queue \ {v}
    /\ UNCHANGED <<view_dependencies, dependents, stats, op, from, target, answer>>

\* Mutant: a dependent is queued whether or not it was seen before and the
\* popped view stays.
CascadeStepRequeue(v) ==
    /\ op \in {"cascade", "dependents"}
    /\ v \in queue
    /\ visited' = visited \cup dependents[v]
    /\ queue' = queue \cup dependents[v]
    /\ UNCHANGED <<view_dependencies, dependents, stats, op, from, target, answer>>

CascadeStep(v) ==
    /\ op \in {"cascade", "dependents"}
    /\ v \in queue
    /\ visited' = visited \cup dependents[v]
    /\ queue' = (queue \ {v}) \cup (dependents[v] \ visited)
    /\ UNCHANGED <<view_dependencies, dependents, stats, op, from, target, answer>>

\* Mutant: the starting view is taken off the count twice.
CascadeDoneDiscounts ==
    /\ op = "cascade"
    /\ queue = {}
    /\ stats' = [cascades |-> stats.cascades + 1,
                 invalidated |-> (stats.invalidated + Cardinality(visited)) - 2,
                 max_affected |-> IF Cardinality(visited) > stats.max_affected
                                  THEN Cardinality(visited) ELSE stats.max_affected]
    /\ Finish("none")
    /\ UNCHANGED <<view_dependencies, dependents>>

CascadeDone ==
    /\ op = "cascade"
    /\ queue = {}
    /\ stats' = [cascades |-> stats.cascades + 1,
                 invalidated |-> stats.invalidated + Cardinality(visited),
                 max_affected |-> IF Cardinality(visited) > stats.max_affected
                                  THEN Cardinality(visited) ELSE stats.max_affected]
    /\ Finish("none")
    /\ UNCHANGED <<view_dependencies, dependents>>

DependentsDone ==
    /\ op = "dependents"
    /\ queue = {}
    /\ Finish("none")
    /\ UNCHANGED <<view_dependencies, dependents, stats>>

-----------------------------------------------------------------------------
(* has_dependency_path(dependent, dependency)                              *)

PathStart(dependent, dependency) == Start("path", dependent, dependency, {})

\* Mutant: the target is compared with the popped view, as can_reach does.
PathStepPopped(v) ==
    /\ op = "path"
    /\ v \in queue
    /\ visited' = visited \cup {v}
    /\ IF v = target
       THEN op' = "idle" /\ queue' = {} /\ answer' = "found"
       ELSE /\ queue' = (queue \ {v}) \cup (IF v \in visited THEN {} ELSE view_dependencies[v])
            /\ UNCHANGED <<op, answer>>
    /\ UNCHANGED <<view_dependencies, dependents, stats, from, target>>

\* A visited view is skipped; otherwise its dependencies are compared with the
\* target before they are queued.
PathStep(v) ==
    /\ op = "path"
    /\ v \in queue
    /\ visited' = visited \cup {v}
    /\ IF v \notin visited /\ target \in view_dependencies[v]
       THEN op' = "idle" /\ queue' = {} /\ answer' = "found"
       ELSE /\ queue' = (queue \ {v}) \cup
                        (IF v \in visited THEN {} ELSE view_dependencies[v])
            /\ UNCHANGED <<op, answer>>
    /\ UNCHANGED <<view_dependencies, dependents, stats, from, target>>

PathDone ==
    /\ op = "path"
    /\ queue = {}
    /\ Finish("not_found")
    /\ UNCHANGED <<view_dependencies, dependents, stats>>

-----------------------------------------------------------------------------
Clear ==
    /\ op = "idle"
    /\ view_dependencies' = [v \in Views |-> {}]
    /\ dependents' = [v \in Views |-> {}]
    /\ stats' = NoStats
    /\ answer' = "none"
    /\ UNCHANGED <<op, from, target, queue, visited>>

\* One iteration or the end of the traversal in progress.
Work ==
    \/ AddRejected
    \/ AddEdge
    \/ CascadeDone
    \/ DependentsDone
    \/ PathDone
    \/ \E v \in Views : AddStep(v) \/ CascadeStep(v) \/ PathStep(v)

Call ==
    \/ \E v, w \in Views : AddStart(v, w) \/ PathStart(v, w)
    \/ \E v \in Views : CascadeStart(v) \/ DependentsStart(v)
    \/ Clear

Next == Work \/ Call

\* A call runs its loop to the end: the caller holds the mutex and does
\* nothing else meanwhile.
Spec == Init /\ [][Next]_vars /\ WF_vars(Work)

-----------------------------------------------------------------------------
(* Properties                                                              *)

\* add_dependency and clear keep the forward and the reverse mapping mirror
\* images of each other: cascade_invalidate walks one, can_reach the other.
MapsMirror ==
    \A v, w \in Views : w \in view_dependencies[v] <=> v \in dependents[w]

\* No sequence of accepted add_dependency calls builds a cycle: every
\* non-empty set of views has one that depends on none of them.
Acyclic ==
    \A S \in SUBSET Views : S # {} => \E v \in S : view_dependencies[v] \cap S = {}

\* S is closed under a mapping: it contains all that its members map to.
ClosedUnder(map, S) == \A v \in S : map[v] \subseteq S

\* What cascade_invalidate and get_transitive_dependents return is exactly the
\* view and its transitive dependents: closed under dependents, and inside
\* every closed set that contains the view.
CascadeExact ==
    op \in {"cascade", "dependents"} /\ queue = {} =>
        /\ from \in visited
        /\ ClosedUnder(dependents, visited)
        /\ \A S \in SUBSET Views : from \in S /\ ClosedUnder(dependents, S) => visited \subseteq S

\* can_reach answers "no" only if the new edge closes no cycle, and "yes" only
\* if it does: the dependency really reaches the dependent.
CanReachExact ==
    op = "add" =>
        /\ queue = {} => /\ target \notin visited
                         /\ from \in visited
                         /\ ClosedUnder(view_dependencies, visited)
        /\ target \in queue => \A S \in SUBSET Views :
               from \in S /\ ClosedUnder(view_dependencies, S) => target \in S

\* has_dependency_path says "not found" only when no chain of edges leads to
\* the target, and "found" only along one or more edges, so never for a view and
\* itself: every closed set with the start's dependencies holds the target.
PathExact ==
    /\ op = "path" /\ queue = {} =>
          /\ ClosedUnder(view_dependencies, visited)
          /\ \A v \in visited : target \notin view_dependencies[v]
    /\ answer = "found" => \A S \in SUBSET Views :
          view_dependencies[from] \subseteq S /\ ClosedUnder(view_dependencies, S) => target \in S

\* Every traversal ends, whatever the graph.
TraversalEnds == (op # "idle") ~> (op = "idle")
=============================================================================
