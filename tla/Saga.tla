-------------------------------- MODULE Saga --------------------------------
(***************************************************************************)
(* The federation sagas: the PostgreSQL saga store, the forward executor,  *)
(* the compensator and the recovery loop of fraiseql-federation.           *)
(*                                                                         *)
(* Executors, compensators and recovery loops run in any number of server  *)
(* instances and share nothing but the two tables.  Every store call is    *)
(* one SQL statement, committed on its own, so each is an action; between  *)
(* two of them any other process may run, the process may crash, and a     *)
(* call may fail before its statement or lose its reply after it.          *)
(*                                                                         *)
(* The subgraph mutations are placeholders in the code: writing a step's   *)
(* result is the only trace a mutation or a compensation leaves.           *)
(***************************************************************************)
EXTENDS Integers, FiniteSets

CONSTANTS
    Sagas,      \* saga ids, numbered in the order of their created_at
    N,          \* steps per saga, numbered from 1 (create_saga checks this)
    Workers,    \* concurrent calls of execute_saga and compensate_saga
    Loops,      \* recovery loop tasks
    MaxBatch,   \* RecoveryConfig.max_sagas_per_iteration
    Faulty,     \* may store calls fail?
    Crashes     \* may a process stop in the middle of a call?

ASSUME SagasAssumption == Sagas \subseteq Nat
ASSUME NAssumption == N \in Nat \ {0}
ASSUME FlagsAssumption == Faulty \in BOOLEAN /\ Crashes \in BOOLEAN

VARIABLES
    saga_state,  \* tb_federation_sagas.state; "gone" once the row is deleted
    step_state,  \* tb_federation_saga_steps.state
    result,      \* tb_federation_saga_steps.result: none, forward, compensated
    pc,          \* where each worker is in its call
    saga,        \* the saga_id of the call
    step,        \* the step in hand
    todo,        \* completed_steps not yet compensated by this call
    data,        \* the results of completed_steps; "none" for the other steps
    failed,      \* failed_steps
    reply,       \* the status the last compensate_saga call returned
    running,     \* SagaRecoveryManager.running
    loop,        \* where each recovery loop task is
    batch        \* pending_sagas the iteration still has to transition

store   == <<saga_state, step_state, result>>
locals  == <<pc, saga, step, todo, data, failed, reply>>
manager == <<running, loop, batch>>
vars    == <<store, locals, manager>>

-----------------------------------------------------------------------------
Steps == 1 .. N

SagaState == {"pending", "executing", "completed", "failed", "compensating", "compensated"}
StepState == {"pending", "executing", "completed", "failed"}
Result == {"none", "forward", "compensated"}

ExecutorPcs == {"mark", "load", "step", "claim", "result", "complete", "fail", "finish"}
CompensatorPcs == {"comp_mark", "comp_load", "comp_step", "comp_result"}

TypeOK ==
    /\ saga_state \in [Sagas -> SagaState \cup {"gone"}]
    /\ step_state \in [Sagas -> [Steps -> StepState]]
    /\ result \in [Sagas -> [Steps -> Result]]
    /\ pc \in [Workers -> {"idle"} \cup ExecutorPcs \cup CompensatorPcs]
    /\ saga \in [Workers -> Sagas]
    /\ step \in [Workers -> Steps]
    /\ todo \in [Workers -> SUBSET Steps]
    /\ data \in [Workers -> [Steps -> Result]]
    /\ failed \in [Workers -> SUBSET Steps]
    /\ reply \in [Workers -> {"none", "compensated", "partially_compensated",
                              "compensation_failed"}]
    /\ running \in BOOLEAN
    /\ loop \in [Loops -> {"off", "check", "load", "process"}]
    /\ batch \in [Loops -> SUBSET Sagas]

\* The sagas and their steps have been saved as pending.
Init ==
    /\ saga_state = [s \in Sagas |-> "pending"]
    /\ step_state = [s \in Sagas |-> [n \in Steps |-> "pending"]]
    /\ result = [s \in Sagas |-> [n \in Steps |-> "none"]]
    /\ pc = [w \in Workers |-> "idle"]
    /\ saga \in [Workers -> Sagas]
    /\ step = [w \in Workers |-> 1]
    /\ todo = [w \in Workers |-> {}]
    /\ data = [w \in Workers |-> [n \in Steps |-> "none"]]
    /\ failed = [w \in Workers |-> {}]
    /\ reply = [w \in Workers |-> "none"]
    /\ running = FALSE
    /\ loop = [l \in Loops |-> "off"]
    /\ batch = [l \in Loops |-> {}]

-----------------------------------------------------------------------------
(* The store.  Updates carry no condition on the old state, and updating a *)
(* deleted row succeeds without effect.                                    *)

\* "ok": applied and acknowledged; "lost": applied, but the caller sees an
\* error; "error": not applied.  A query is "ok" or not.
Outcomes == IF Faulty THEN {"ok", "lost", "error"} ELSE {"ok"}
Reads == IF Faulty THEN {"ok", "error"} ELSE {"ok"}

Gone(s) == saga_state[s] = "gone"

update_saga_state(s, st, o) ==
    saga_state' = IF o = "error" \/ Gone(s) THEN saga_state
                  ELSE [saga_state EXCEPT ![s] = st]

update_saga_step_state(s, n, st, o) ==
    step_state' = IF o = "error" \/ Gone(s) THEN step_state
                  ELSE [step_state EXCEPT ![s][n] = st]

update_saga_step_result(s, n, r, o) ==
    result' = IF o = "error" \/ Gone(s) THEN result
              ELSE [result EXCEPT ![s][n] = r]

Goto(w, label) == pc' = [pc EXCEPT ![w] = label]

\* The call goes on with its locals as they are, or ends and drops them.
Continue(w, label) == Goto(w, label) /\ UNCHANGED <<step, todo, data, failed>>

Return(w) ==
    /\ Goto(w, "idle")
    /\ step' = [step EXCEPT ![w] = 1]
    /\ todo' = [todo EXCEPT ![w] = {}]
    /\ data' = [data EXCEPT ![w] = [n \in Steps |-> "none"]]
    /\ failed' = [failed EXCEPT ![w] = {}]

-----------------------------------------------------------------------------
(* SagaExecutor::execute_saga and execute_step                             *)

\* load_saga: a call for an unknown saga returns SagaNotFound at once.
execute_saga(w, s) ==
    /\ pc[w] = "idle"
    /\ ~Gone(s)
    /\ saga' = [saga EXCEPT ![w] = s]
    /\ reply' = [reply EXCEPT ![w] = "none"]
    /\ Goto(w, "mark")
    /\ UNCHANGED <<store, step, todo, data, failed, manager>>

\* Whatever state the saga is in, it becomes executing.
ExecuteMark(w) ==
    /\ pc[w] = "mark"
    /\ \E o \in Outcomes :
          /\ update_saga_state(saga[w], "executing", o)
          /\ IF o = "ok" THEN Continue(w, "load") ELSE Return(w)
    /\ UNCHANGED <<step_state, result, saga, reply, manager>>

\* load_saga_steps; a deleted saga has none and counts as finished.
ExecuteLoad(w) ==
    /\ pc[w] = "load"
    /\ \E o \in Reads :
          IF o = "ok" THEN Continue(w, IF Gone(saga[w]) THEN "finish" ELSE "step") ELSE Return(w)
    /\ UNCHANGED <<store, saga, reply, manager>>

\* execute_step reads the step again and refuses one that is not pending.
StepCheck(w) ==
    /\ pc[w] = "step"
    /\ \E o \in Reads :
          Goto(w, IF o = "ok" /\ ~Gone(saga[w]) /\ step_state[saga[w]][step[w]] = "pending"
                  THEN "claim" ELSE "fail")
    /\ UNCHANGED <<store, saga, step, todo, data, failed, reply, manager>>

StepClaim(w) ==
    /\ pc[w] = "claim"
    /\ \E o \in Outcomes :
          /\ update_saga_step_state(saga[w], step[w], "executing", o)
          /\ Goto(w, IF o = "ok" THEN "result" ELSE "fail")
    /\ UNCHANGED <<saga_state, result, saga, step, todo, data, failed, reply, manager>>

\* Mutant: a result that could not be saved is logged and ignored.
StepResultUnchecked(w) ==
    /\ pc[w] = "result"
    /\ \E o \in Outcomes :
          /\ update_saga_step_result(saga[w], step[w], "forward", o)
          /\ Goto(w, "complete")
    /\ UNCHANGED <<saga_state, step_state, saga, step, todo, data, failed, reply, manager>>

StepResult(w) ==
    /\ pc[w] = "result"
    /\ \E o \in Outcomes :
          /\ update_saga_step_result(saga[w], step[w], "forward", o)
          /\ Goto(w, IF o = "ok" THEN "complete" ELSE "fail")
    /\ UNCHANGED <<saga_state, step_state, saga, step, todo, data, failed, reply, manager>>

\* Mutants: the loop runs past the last step; it goes on after an error.
StepCompleteOverruns(w) ==
    /\ pc[w] = "complete"
    /\ \E o \in Outcomes :
          /\ update_saga_step_state(saga[w], step[w], "completed", o)
          /\ IF o = "ok"
             THEN Goto(w, "step") /\ step' = [step EXCEPT ![w] = @ + 1]
             ELSE Goto(w, "fail") /\ UNCHANGED step
    /\ UNCHANGED <<saga_state, result, saga, todo, data, failed, reply, manager>>

StepCompleteUnchecked(w) ==
    /\ pc[w] = "complete"
    /\ \E o \in Outcomes :
          /\ update_saga_step_state(saga[w], step[w], "completed", o)
          /\ IF step[w] < N
             THEN Goto(w, "step") /\ step' = [step EXCEPT ![w] = @ + 1]
             ELSE Goto(w, "finish") /\ UNCHANGED step
    /\ UNCHANGED <<saga_state, result, saga, todo, data, failed, reply, manager>>

StepComplete(w) ==
    /\ pc[w] = "complete"
    /\ \E o \in Outcomes :
          /\ update_saga_step_state(saga[w], step[w], "completed", o)
          /\ IF o = "ok" /\ step[w] < N
             THEN Goto(w, "step") /\ step' = [step EXCEPT ![w] = @ + 1]
             ELSE Goto(w, IF o = "ok" THEN "finish" ELSE "fail") /\ UNCHANGED step
    /\ UNCHANGED <<saga_state, result, saga, todo, data, failed, reply, manager>>

\* An error of this update is only logged.
ExecuteFail(w) ==
    /\ pc[w] = "fail"
    /\ \E o \in Outcomes : update_saga_state(saga[w], "failed", o)
    /\ Return(w)
    /\ UNCHANGED <<step_state, result, saga, reply, manager>>

ExecuteFinish(w) ==
    /\ pc[w] = "finish"
    /\ \E o \in Outcomes : update_saga_state(saga[w], "completed", o)
    /\ Return(w)
    /\ UNCHANGED <<step_state, result, saga, reply, manager>>

-----------------------------------------------------------------------------
(* SagaCompensator::compensate_saga and compensate_step                    *)

\* A saga that is not failed is reported as compensated and left alone.
compensate_saga(w, s) ==
    /\ pc[w] = "idle"
    /\ ~Gone(s)
    /\ saga' = [saga EXCEPT ![w] = s]
    /\ Goto(w, IF saga_state[s] = "failed" THEN "comp_mark" ELSE "idle")
    /\ reply' = [reply EXCEPT ![w] = IF saga_state[s] = "failed" THEN "none" ELSE "compensated"]
    /\ UNCHANGED <<store, step, todo, data, failed, manager>>

CompensateMark(w) ==
    /\ pc[w] = "comp_mark"
    /\ \E o \in Outcomes :
          /\ update_saga_state(saga[w], "compensating", o)
          /\ IF o = "ok" THEN Continue(w, "comp_load") ELSE Return(w)
    /\ UNCHANGED <<step_state, result, saga, reply, manager>>

\* load_saga_steps, filtered to the completed ones.
CompensateLoad(w) ==
    /\ pc[w] = "comp_load"
    /\ \/ LET done == {n \in Steps : ~Gone(saga[w]) /\ step_state[saga[w]][n] = "completed"} IN
          /\ todo' = [todo EXCEPT ![w] = done]
          /\ data' = [data EXCEPT ![w] =
                        [n \in Steps |-> IF n \in done THEN result[saga[w]][n] ELSE "none"]]
          /\ Goto(w, "comp_step")
          /\ UNCHANGED <<step, failed>>
       \/ Faulty /\ Return(w)
    /\ UNCHANGED <<store, saga, reply, manager>>

\* The next step in reverse order; compensate_step reads it again.
CompensateStep(w) ==
    /\ pc[w] = "comp_step"
    /\ \E o \in Reads, n \in todo[w] :
          /\ \A m \in todo[w] : m <= n
          /\ IF o = "ok" /\ ~Gone(saga[w]) /\ step_state[saga[w]][n] = "completed"
             THEN /\ step' = [step EXCEPT ![w] = n]
                  /\ Goto(w, "comp_result")
                  /\ UNCHANGED <<todo, failed>>
             ELSE /\ failed' = [failed EXCEPT ![w] = @ \cup {n}]
                  /\ todo' = [todo EXCEPT ![w] = @ \ {n}]
                  /\ UNCHANGED <<pc, step>>
    /\ UNCHANGED <<store, saga, data, reply, manager>>

\* Mutant: a failed write is not recorded in failed_steps.
CompensateResultUnrecorded(w) ==
    /\ pc[w] = "comp_result"
    /\ \E o \in Outcomes : update_saga_step_result(saga[w], step[w], "compensated", o)
    /\ todo' = [todo EXCEPT ![w] = @ \ {step[w]}]
    /\ Goto(w, "comp_step")
    /\ UNCHANGED <<saga_state, step_state, saga, step, data, failed, reply, manager>>

\* Mutant: a failed write is tried again.
CompensateResultRetries(w) ==
    /\ pc[w] = "comp_result"
    /\ \E o \in Outcomes :
          /\ update_saga_step_result(saga[w], step[w], "compensated", o)
          /\ todo' = [todo EXCEPT ![w] = IF o = "ok" THEN @ \ {step[w]} ELSE @]
    /\ Goto(w, "comp_step")
    /\ UNCHANGED <<saga_state, step_state, saga, step, data, failed, reply, manager>>

\* The step stays completed; its result is overwritten.
CompensateResult(w) ==
    /\ pc[w] = "comp_result"
    /\ \E o \in Outcomes :
          /\ update_saga_step_result(saga[w], step[w], "compensated", o)
          /\ failed' = [failed EXCEPT ![w] = IF o = "ok" THEN @ ELSE @ \cup {step[w]}]
    /\ todo' = [todo EXCEPT ![w] = @ \ {step[w]}]
    /\ Goto(w, "comp_step")
    /\ UNCHANGED <<saga_state, step_state, saga, step, data, reply, manager>>

Status(w) ==
    CASE failed[w] = {} -> "compensated"
      [] failed[w] # {} /\ failed[w] # {n \in Steps : data[w][n] # "none"} -> "partially_compensated"
      [] OTHER -> "compensation_failed"

CompensateFinish(w) ==
    /\ pc[w] = "comp_step"
    /\ todo[w] = {}
    /\ \E o \in Outcomes :
          /\ update_saga_state(saga[w], IF failed[w] = {} THEN "compensated" ELSE "failed", o)
          /\ reply' = [reply EXCEPT ![w] = IF o = "ok" THEN Status(w) ELSE @]
    /\ Return(w)
    /\ UNCHANGED <<step_state, result, saga, manager>>

\* The process of the call stops.
Crash(w) ==
    /\ Crashes
    /\ pc[w] # "idle"
    /\ Return(w)
    /\ UNCHANGED <<store, saga, reply, manager>>

-----------------------------------------------------------------------------
(* SagaRecoveryManager                                                     *)

start_background_loop(l) ==
    /\ ~running
    /\ loop[l] = "off"
    /\ running' = TRUE
    /\ loop' = [loop EXCEPT ![l] = "check"]
    /\ UNCHANGED <<store, locals, batch>>

stop_background_loop ==
    /\ running
    /\ running' = FALSE
    /\ UNCHANGED <<store, locals, loop, batch>>

\* The loop reads running only between iterations, after its sleep.
LoopCheck(l) ==
    /\ loop[l] = "check"
    /\ loop' = [loop EXCEPT ![l] = IF running THEN "load" ELSE "off"]
    /\ UNCHANGED <<store, locals, running, batch>>

\* The first MaxBatch of the pending sagas, newest first.
NewestPending ==
    LET pending == {s \in Sagas : saga_state[s] = "pending"}
    IN  {s \in pending : Cardinality({r \in pending : r > s}) < MaxBatch}

LoopLoad(l) ==
    /\ loop[l] = "load"
    /\ \E o \in Reads : batch' = [batch EXCEPT ![l] = IF o = "ok" THEN NewestPending ELSE {}]
    /\ loop' = [loop EXCEPT ![l] = "process"]
    /\ UNCHANGED <<store, locals, running>>

\* transition_saga: errors are counted and the iteration goes on.
LoopTransition(l) ==
    /\ loop[l] = "process"
    /\ \E s \in batch[l] :
          /\ \A r \in batch[l] : r <= s
          /\ \E o \in Outcomes : update_saga_state(s, "executing", o)
          /\ batch' = [batch EXCEPT ![l] = @ \ {s}]
    /\ UNCHANGED <<step_state, result, locals, running, loop>>

\* Mutant: failed sagas are cleaned up too, as the header of
\* saga_recovery_manager.rs has it.
LoopCleanupFailed(l) ==
    /\ loop[l] = "process"
    /\ batch[l] = {}
    /\ \E stale \in SUBSET {s \in Sagas : saga_state[s] \in {"completed", "compensated", "failed"}} :
          saga_state' = [s \in Sagas |-> IF s \in stale THEN "gone" ELSE saga_state[s]]
    /\ loop' = [loop EXCEPT ![l] = "check"]
    /\ UNCHANGED <<step_state, result, locals, running, batch>>

\* cleanup_stale_sagas: those in a terminal state that are old enough; none
\* of them when the statement fails.
LoopCleanup(l) ==
    /\ loop[l] = "process"
    /\ batch[l] = {}
    /\ \E stale \in SUBSET {s \in Sagas : saga_state[s] \in {"completed", "compensated"}} :
          saga_state' = [s \in Sagas |-> IF s \in stale THEN "gone" ELSE saga_state[s]]
    /\ loop' = [loop EXCEPT ![l] = "check"]
    /\ UNCHANGED <<step_state, result, locals, running, batch>>

-----------------------------------------------------------------------------
Calls(w) == \E s \in Sagas : execute_saga(w, s) \/ compensate_saga(w, s)

Work(w) ==
    \/ ExecuteMark(w)
    \/ ExecuteLoad(w)
    \/ StepCheck(w)
    \/ StepClaim(w)
    \/ StepResult(w)
    \/ StepComplete(w)
    \/ ExecuteFail(w)
    \/ ExecuteFinish(w)
    \/ CompensateMark(w)
    \/ CompensateLoad(w)
    \/ CompensateStep(w)
    \/ CompensateResult(w)
    \/ CompensateFinish(w)

Iterate(l) ==
    \/ LoopCheck(l)
    \/ LoopLoad(l)
    \/ LoopTransition(l)
    \/ LoopCleanup(l)

Next ==
    \/ \E w \in Workers : Calls(w) \/ Work(w) \/ Crash(w)
    \/ \E l \in Loops : start_background_loop(l) \/ Iterate(l)
    \/ stop_background_loop

Spec == Init /\ [][Next]_vars

\* The runtime polls every task and a store call always ends; nobody is
\* obliged to call the API.
Fairness ==
    /\ \A w \in Workers : WF_vars(Work(w))
    /\ \A l \in Loops : WF_vars(Iterate(l))

FairSpec == Spec /\ Fairness

-----------------------------------------------------------------------------
(* Properties                                                              *)

\* Steps run strictly in order, whatever calls, retries and crashes overlap:
\* a step is claimed only after every earlier step left a result.
StepsInOrder ==
    \A s \in Sagas, n \in Steps : step_state[s][n] # "pending" =>
        \A m \in 1 .. n - 1 : result[s][m] # "none"

\* execute_saga marks a saga completed only when each step has a result.
CompletedHasAllResults ==
    \A s \in Sagas : saga_state[s] = "completed" => \A n \in Steps : result[s][n] # "none"

\* A step that reads as completed has its result: the compensator always finds
\* something to undo.
CompletedStepHasResult ==
    \A s \in Sagas, n \in Steps : step_state[s][n] = "completed" => result[s][n] # "none"

\* With one call at a time, a completed saga keeps all of its steps' effects.
CompletedKept ==
    \A s \in Sagas : saga_state[s] = "completed" =>
        \A n \in Steps : step_state[s][n] = "completed" /\ result[s][n] = "forward"

\* With one call at a time, a saga ends compensated only when every step that
\* completed was undone.
CompensatedClean ==
    \A s \in Sagas : saga_state[s] = "compensated" =>
        \A n \in Steps : step_state[s][n] = "completed" => result[s][n] = "compensated"

\* The recovery loop's cleanup deletes no saga with a completed step that is
\* neither kept by a completed saga nor undone.  It holds because
\* cleanup_stale_sagas leaves failed sagas in place, against the state machine
\* in the header of saga_recovery_manager.rs, which has them cleaned: their
\* completed steps may still have to be undone.
CleanupLosesNothing ==
    \A s \in Sagas : Gone(s) =>
        \/ \A n \in Steps : step_state[s][n] = "completed" /\ result[s][n] = "forward"
        \/ \A n \in Steps : step_state[s][n] = "completed" => result[s][n] = "compensated"

\* Every execute_saga and compensate_saga call returns.
CallsReturn == \A w \in Workers : pc[w] # "idle" ~> pc[w] = "idle"

=============================================================================
