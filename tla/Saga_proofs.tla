---------------------------- MODULE Saga_proofs ----------------------------
(***************************************************************************)
(* Proofs about Saga for any number of sagas, steps, concurrent calls and  *)
(* recovery loops, with or without store faults and crashes.               *)
(***************************************************************************)
EXTENDS Saga, TLAPS

-----------------------------------------------------------------------------
(* Types                                                                   *)

\* What the three UPDATE statements leave in the tables.
LEMMA StoreTypes ==
    ASSUME TypeOK, NEW s \in Sagas, NEW o
    PROVE  /\ \A st \in SagaState : update_saga_state(s, st, o) =>
                 saga_state' \in [Sagas -> SagaState \cup {"gone"}]
           /\ \A n \in Steps, st \in StepState : update_saga_step_state(s, n, st, o) =>
                 step_state' \in [Sagas -> [Steps -> StepState]]
           /\ \A n \in Steps, r \in Result : update_saga_step_result(s, n, r, o) =>
                 result' \in [Sagas -> [Steps -> Result]]
<1>1. \A st \in SagaState : update_saga_state(s, st, o) =>
         saga_state' \in [Sagas -> SagaState \cup {"gone"}]
  BY DEF TypeOK, update_saga_state
<1>2. \A n \in Steps, st \in StepState : update_saga_step_state(s, n, st, o) =>
         step_state' \in [Sagas -> [Steps -> StepState]]
  BY DEF TypeOK, update_saga_step_state
<1>3. \A n \in Steps, r \in Result : update_saga_step_result(s, n, r, o) =>
         result' \in [Sagas -> [Steps -> Result]]
  BY DEF TypeOK, update_saga_step_result
<1> QED
  BY <1>1, <1>2, <1>3

StoreOK ==
    /\ saga_state \in [Sagas -> SagaState \cup {"gone"}]
    /\ step_state \in [Sagas -> [Steps -> StepState]]
    /\ result \in [Sagas -> [Steps -> Result]]

Pcs == {"idle"} \cup ExecutorPcs \cup CompensatorPcs

Replies == {"none", "compensated", "partially_compensated", "compensation_failed"}

LocalsOK ==
    /\ pc \in [Workers -> Pcs]
    /\ saga \in [Workers -> Sagas]
    /\ step \in [Workers -> Steps]
    /\ todo \in [Workers -> SUBSET Steps]
    /\ data \in [Workers -> [Steps -> Result]]
    /\ failed \in [Workers -> SUBSET Steps]
    /\ reply \in [Workers -> Replies]

ManagerOK ==
    /\ running \in BOOLEAN
    /\ loop \in [Loops -> {"off", "check", "load", "process"}]
    /\ batch \in [Loops -> SUBSET Sagas]

LEMMA TypeParts == TypeOK <=> StoreOK /\ LocalsOK /\ ManagerOK
  BY DEF TypeOK, StoreOK, LocalsOK, ManagerOK, Pcs, Replies

\* A call that goes on or returns keeps its locals well typed.
LEMMA GotoTypes ==
    ASSUME LocalsOK, NEW w \in Workers, NEW label \in Pcs
    PROVE  /\ Goto(w, label) => pc' \in [Workers -> Pcs]
           /\ Continue(w, label) /\ UNCHANGED <<saga, reply>> => LocalsOK'
           /\ Return(w) /\ UNCHANGED saga /\ reply' \in [Workers -> Replies] => LocalsOK'
<1>1. Goto(w, label) => pc' \in [Workers -> Pcs]
  BY DEF LocalsOK, Goto
<1>2. Continue(w, label) /\ UNCHANGED <<saga, reply>> => LocalsOK'
  BY <1>1 DEF LocalsOK, Continue
<1>3. ASSUME Return(w), UNCHANGED saga, reply' \in [Workers -> Replies] PROVE LocalsOK'
  <2>1. 1 \in Steps /\ "idle" \in Pcs /\ "none" \in Result
    BY NAssumption DEF Steps, Pcs, Result
  <2>2. pc' \in [Workers -> Pcs]
    BY <1>3, <2>1 DEF LocalsOK, Return, Goto
  <2> QED
    BY <1>3, <2>1, <2>2 DEF LocalsOK, Return
<1> QED
  BY <1>1, <1>2, <1>3

LEMMA TypeStep == TypeOK /\ [Next]_vars => TypeOK'
<1> SUFFICES ASSUME StoreOK, LocalsOK, ManagerOK, [Next]_vars
             PROVE  StoreOK' /\ LocalsOK' /\ ManagerOK'
  BY DEF TypeOK, StoreOK, LocalsOK, ManagerOK, Pcs, Replies
<1>0. /\ "executing" \in SagaState /\ "failed" \in SagaState /\ "completed" \in SagaState
      /\ "compensating" \in SagaState /\ "compensated" \in SagaState
      /\ "executing" \in StepState /\ "completed" \in StepState
      /\ "forward" \in Result /\ "compensated" \in Result /\ "none" \in Result
      /\ ExecutorPcs \subseteq Pcs /\ CompensatorPcs \subseteq Pcs /\ "idle" \in Pcs
      /\ \A w \in Workers : saga[w] \in Sagas /\ step[w] \in Steps
      /\ reply \in [Workers -> Replies]
  BY DEF SagaState, StepState, Result, Pcs, LocalsOK
<1>00. TypeOK
  BY TypeParts
<1>1. ASSUME NEW w \in Workers, Calls(w) PROVE StoreOK' /\ LocalsOK' /\ ManagerOK'
  <2>1. PICK s \in Sagas : execute_saga(w, s) \/ compensate_saga(w, s)
    BY <1>1 DEF Calls
  <2>2. UNCHANGED <<store, manager, step, todo, data, failed>> /\ saga' = [saga EXCEPT ![w] = s]
    BY <2>1 DEF execute_saga, compensate_saga
  <2>3. pc' \in [Workers -> Pcs]
    BY <2>1, <1>0 DEF execute_saga, compensate_saga, Goto, LocalsOK, ExecutorPcs, CompensatorPcs
  <2>4. reply' \in [Workers -> Replies]
    BY <2>1 DEF execute_saga, compensate_saga, LocalsOK, Replies
  <2> QED
    BY <2>2, <2>3, <2>4 DEF StoreOK, LocalsOK, ManagerOK, store, manager
<1>2. ASSUME NEW w \in Workers, ExecuteMark(w) PROVE StoreOK' /\ LocalsOK' /\ ManagerOK'
  <2>1. PICK o \in Outcomes : /\ update_saga_state(saga[w], "executing", o)
                              /\ IF o = "ok" THEN Continue(w, "load") ELSE Return(w)
    BY <1>2 DEF ExecuteMark
  <2>2. UNCHANGED <<step_state, result, saga, reply, manager>> /\ "load" \in Pcs
    BY <1>2 DEF ExecuteMark, Pcs, ExecutorPcs
  <2>3. saga_state' \in [Sagas -> SagaState \cup {"gone"}]
    BY <1>0, <1>00, <2>1, StoreTypes
  <2>4. LocalsOK'
    BY <2>1, <2>2, GotoTypes DEF LocalsOK
  <2> QED
    BY <2>2, <2>3, <2>4 DEF StoreOK, ManagerOK, manager
<1>3. ASSUME NEW w \in Workers, ExecuteLoad(w) PROVE StoreOK' /\ LocalsOK' /\ ManagerOK'
  <2>1. UNCHANGED <<store, saga, reply, manager>> /\ "finish" \in Pcs /\ "step" \in Pcs
    BY <1>3 DEF ExecuteLoad, Pcs, ExecutorPcs
  <2>2. LocalsOK'
    BY <1>3, <2>1, GotoTypes DEF ExecuteLoad, LocalsOK
  <2> QED
    BY <2>1, <2>2 DEF StoreOK, ManagerOK, manager, store
<1>4. ASSUME NEW w \in Workers, StepCheck(w) PROVE StoreOK' /\ LocalsOK' /\ ManagerOK'
  <2>1. /\ UNCHANGED <<store, saga, step, todo, data, failed, reply, manager>>
        /\ "claim" \in Pcs /\ "fail" \in Pcs
    BY <1>4 DEF StepCheck, Pcs, ExecutorPcs
  <2>2. pc' \in [Workers -> Pcs]
    BY <1>4, <2>1, GotoTypes DEF StepCheck
  <2> QED
    BY <2>1, <2>2 DEF StoreOK, ManagerOK, LocalsOK, manager, store
<1>5. ASSUME NEW w \in Workers, StepClaim(w) PROVE StoreOK' /\ LocalsOK' /\ ManagerOK'
  <2>1. PICK o \in Outcomes : /\ update_saga_step_state(saga[w], step[w], "executing", o)
                              /\ Goto(w, IF o = "ok" THEN "result" ELSE "fail")
    BY <1>5 DEF StepClaim
  <2>2. /\ UNCHANGED <<saga_state, result, saga, step, todo, data, failed, reply, manager>>
        /\ "result" \in Pcs /\ "fail" \in Pcs
    BY <1>5 DEF StepClaim, Pcs, ExecutorPcs
  <2>3. step_state' \in [Sagas -> [Steps -> StepState]]
    BY <1>0, <1>00, <2>1, StoreTypes
  <2>4. pc' \in [Workers -> Pcs]
    BY <2>1, <2>2, GotoTypes
  <2> QED
    BY <2>2, <2>3, <2>4 DEF StoreOK, ManagerOK, LocalsOK, manager
<1>6. ASSUME NEW w \in Workers, StepResult(w) PROVE StoreOK' /\ LocalsOK' /\ ManagerOK'
  <2>1. PICK o \in Outcomes : /\ update_saga_step_result(saga[w], step[w], "forward", o)
                              /\ Goto(w, IF o = "ok" THEN "complete" ELSE "fail")
    BY <1>6 DEF StepResult
  <2>2. /\ UNCHANGED <<saga_state, step_state, saga, step, todo, data, failed, reply, manager>>
        /\ "complete" \in Pcs /\ "fail" \in Pcs
    BY <1>6 DEF StepResult, Pcs, ExecutorPcs
  <2>3. result' \in [Sagas -> [Steps -> Result]]
    BY <1>0, <1>00, <2>1, StoreTypes
  <2>4. pc' \in [Workers -> Pcs]
    BY <2>1, <2>2, GotoTypes
  <2> QED
    BY <2>2, <2>3, <2>4 DEF StoreOK, ManagerOK, LocalsOK, manager
<1>7. ASSUME NEW w \in Workers, StepComplete(w) PROVE StoreOK' /\ LocalsOK' /\ ManagerOK'
  <2>1. PICK o \in Outcomes :
           /\ update_saga_step_state(saga[w], step[w], "completed", o)
           /\ IF o = "ok" /\ step[w] < N
              THEN Goto(w, "step") /\ step' = [step EXCEPT ![w] = @ + 1]
              ELSE Goto(w, IF o = "ok" THEN "finish" ELSE "fail") /\ UNCHANGED step
    BY <1>7 DEF StepComplete
  <2>2. /\ UNCHANGED <<saga_state, result, saga, todo, data, failed, reply, manager>>
        /\ "step" \in Pcs /\ "finish" \in Pcs /\ "fail" \in Pcs
    BY <1>7 DEF StepComplete, Pcs, ExecutorPcs
  <2>3. step_state' \in [Sagas -> [Steps -> StepState]]
    BY <1>0, <1>00, <2>1, StoreTypes
  <2>4. pc' \in [Workers -> Pcs]
    BY <2>1, <2>2, GotoTypes
  <2>5. step' \in [Workers -> Steps]
    <3>1. step[w] < N => step[w] + 1 \in Steps
      BY <1>0, NAssumption DEF Steps
    <3> QED
      BY <2>1, <3>1 DEF LocalsOK
  <2> QED
    BY <2>2, <2>3, <2>4, <2>5 DEF StoreOK, ManagerOK, LocalsOK, manager
<1>8. ASSUME NEW w \in Workers, ExecuteFail(w) \/ ExecuteFinish(w)
      PROVE  StoreOK' /\ LocalsOK' /\ ManagerOK'
  <2>1. PICK o \in Outcomes, st \in {"failed", "completed"} : update_saga_state(saga[w], st, o)
    BY <1>8 DEF ExecuteFail, ExecuteFinish
  <2>2. UNCHANGED <<step_state, result, saga, reply, manager>> /\ Return(w)
    BY <1>8 DEF ExecuteFail, ExecuteFinish
  <2>3. saga_state' \in [Sagas -> SagaState \cup {"gone"}]
    BY <1>0, <1>00, <2>1, StoreTypes
  <2>4. LocalsOK'
    BY <1>0, <2>2, GotoTypes
  <2> QED
    BY <2>2, <2>3, <2>4 DEF StoreOK, ManagerOK, manager
<1>9. ASSUME NEW w \in Workers, CompensateMark(w) PROVE StoreOK' /\ LocalsOK' /\ ManagerOK'
  <2>1. PICK o \in Outcomes : /\ update_saga_state(saga[w], "compensating", o)
                              /\ IF o = "ok" THEN Continue(w, "comp_load") ELSE Return(w)
    BY <1>9 DEF CompensateMark
  <2>2. UNCHANGED <<step_state, result, saga, reply, manager>> /\ "comp_load" \in Pcs
    BY <1>9 DEF CompensateMark, Pcs, CompensatorPcs
  <2>3. saga_state' \in [Sagas -> SagaState \cup {"gone"}]
    BY <1>0, <1>00, <2>1, StoreTypes
  <2>4. LocalsOK'
    BY <2>1, <2>2, GotoTypes DEF LocalsOK
  <2> QED
    BY <2>2, <2>3, <2>4 DEF StoreOK, ManagerOK, manager
<1>10. ASSUME NEW w \in Workers, CompensateLoad(w) PROVE StoreOK' /\ LocalsOK' /\ ManagerOK'
  <2>1. UNCHANGED <<store, saga, reply, manager>> /\ "comp_step" \in Pcs
    BY <1>10 DEF CompensateLoad, Pcs, CompensatorPcs
  <2>2. CASE Return(w)
    BY <1>0, <2>1, <2>2, GotoTypes DEF LocalsOK, StoreOK, ManagerOK, store, manager
  <2>3. CASE ~Return(w)
    <3> DEFINE done == {n \in Steps : ~Gone(saga[w]) /\ step_state[saga[w]][n] = "completed"}
               got == [n \in Steps |-> IF n \in done THEN result[saga[w]][n] ELSE "none"]
    <3>1. /\ todo' = [todo EXCEPT ![w] = done]
          /\ data' = [data EXCEPT ![w] = got]
          /\ Goto(w, "comp_step") /\ UNCHANGED <<step, failed>>
      BY <1>10, <2>3 DEF CompensateLoad
    <3>2. done \subseteq Steps /\ got \in [Steps -> Result]
      BY <1>0 DEF StoreOK
    <3>3. pc' \in [Workers -> Pcs]
      BY <2>1, <3>1, GotoTypes
    <3> HIDE DEF done, got
    <3> QED
      BY <2>1, <3>1, <3>2, <3>3 DEF StoreOK, LocalsOK, ManagerOK, store, manager
  <2> QED
    BY <2>2, <2>3
<1>11. ASSUME NEW w \in Workers, CompensateStep(w) PROVE StoreOK' /\ LocalsOK' /\ ManagerOK'
  <2>1. /\ UNCHANGED <<store, saga, data, reply, manager>>
        /\ "comp_result" \in Pcs /\ "comp_step" \in Pcs
    BY <1>11 DEF CompensateStep, Pcs, CompensatorPcs
  <2>2. PICK n \in todo[w] :
           \/ /\ step' = [step EXCEPT ![w] = n]
              /\ Goto(w, "comp_result") /\ UNCHANGED <<todo, failed>>
           \/ /\ failed' = [failed EXCEPT ![w] = @ \cup {n}]
              /\ todo' = [todo EXCEPT ![w] = @ \ {n}]
              /\ UNCHANGED <<pc, step>>
    BY <1>11 DEF CompensateStep
  <2>3. n \in Steps
    BY <2>2 DEF LocalsOK
  <2>4. LocalsOK'
    BY <2>1, <2>2, <2>3, GotoTypes DEF LocalsOK
  <2> QED
    BY <2>1, <2>4 DEF StoreOK, ManagerOK, store, manager
<1>12. ASSUME NEW w \in Workers, CompensateResult(w) PROVE StoreOK' /\ LocalsOK' /\ ManagerOK'
  <2>1. PICK o \in Outcomes :
           /\ update_saga_step_result(saga[w], step[w], "compensated", o)
           /\ failed' = [failed EXCEPT ![w] = IF o = "ok" THEN @ ELSE @ \cup {step[w]}]
    BY <1>12 DEF CompensateResult
  <2>2. /\ UNCHANGED <<saga_state, step_state, saga, step, data, reply, manager>>
        /\ todo' = [todo EXCEPT ![w] = @ \ {step[w]}]
        /\ Goto(w, "comp_step") /\ "comp_step" \in Pcs
    BY <1>12 DEF CompensateResult, Pcs, CompensatorPcs
  <2>3. result' \in [Sagas -> [Steps -> Result]]
    BY <1>0, <1>00, <2>1, StoreTypes
  <2>4. LocalsOK'
    BY <1>0, <2>1, <2>2, GotoTypes DEF LocalsOK
  <2> QED
    BY <2>2, <2>3, <2>4 DEF StoreOK, ManagerOK, manager
<1>13. ASSUME NEW w \in Workers, CompensateFinish(w) PROVE StoreOK' /\ LocalsOK' /\ ManagerOK'
  <2>1. PICK o \in Outcomes :
           /\ update_saga_state(saga[w], IF failed[w] = {} THEN "compensated" ELSE "failed", o)
           /\ reply' = [reply EXCEPT ![w] = IF o = "ok" THEN Status(w) ELSE @]
    BY <1>13 DEF CompensateFinish
  <2>2. UNCHANGED <<step_state, result, saga, manager>> /\ Return(w)
    BY <1>13 DEF CompensateFinish
  <2>3. Status(w) \in Replies
    BY DEF Status, Replies
  <2>4. saga_state' \in [Sagas -> SagaState \cup {"gone"}]
    BY <1>0, <1>00, <2>1, StoreTypes
  <2>5. reply' \in [Workers -> Replies]
    BY <2>1, <2>3 DEF LocalsOK
  <2>6. LocalsOK'
    BY <1>0, <2>2, <2>5, GotoTypes
  <2> QED
    BY <2>2, <2>4, <2>6 DEF StoreOK, ManagerOK, manager
<1>14. ASSUME NEW w \in Workers, Crash(w) PROVE StoreOK' /\ LocalsOK' /\ ManagerOK'
  <2>1. UNCHANGED <<store, saga, reply, manager>> /\ Return(w)
    BY <1>14 DEF Crash
  <2> QED
    BY <1>0, <2>1, GotoTypes DEF LocalsOK, StoreOK, ManagerOK, store, manager
<1>15. ASSUME NEW l \in Loops, start_background_loop(l) \/ LoopCheck(l) \/ LoopLoad(l)
       PROVE  StoreOK' /\ LocalsOK' /\ ManagerOK'
  <2>1. UNCHANGED <<store, locals>> /\ ManagerOK'
    BY <1>15 DEF start_background_loop, LoopCheck, LoopLoad, NewestPending, ManagerOK
  <2> QED
    BY <2>1 DEF StoreOK, LocalsOK, store, locals
<1>16. ASSUME NEW l \in Loops, LoopTransition(l) PROVE StoreOK' /\ LocalsOK' /\ ManagerOK'
  <2>1. PICK s \in batch[l] : /\ \E o \in Outcomes : update_saga_state(s, "executing", o)
                              /\ batch' = [batch EXCEPT ![l] = @ \ {s}]
    BY <1>16 DEF LoopTransition
  <2>2. UNCHANGED <<step_state, result, locals, running, loop>>
    BY <1>16 DEF LoopTransition
  <2>3. s \in Sagas
    BY <2>1 DEF ManagerOK
  <2>4. saga_state' \in [Sagas -> SagaState \cup {"gone"}]
    BY <1>0, <1>00, <2>1, <2>3, StoreTypes
  <2> QED
    BY <2>1, <2>2, <2>4 DEF StoreOK, LocalsOK, ManagerOK, locals
<1>17. ASSUME NEW l \in Loops, LoopCleanup(l) PROVE StoreOK' /\ LocalsOK' /\ ManagerOK'
  BY <1>17 DEF LoopCleanup, StoreOK, LocalsOK, ManagerOK, locals
<1>18. CASE stop_background_loop
  BY <1>18 DEF stop_background_loop, StoreOK, LocalsOK, ManagerOK, store, locals
<1>19. CASE UNCHANGED vars
  BY <1>19 DEF vars, StoreOK, LocalsOK, ManagerOK, store, locals, manager
<1> QED
  BY <1>1, <1>2, <1>3, <1>4, <1>5, <1>6, <1>7, <1>8, <1>9, <1>10, <1>11, <1>12, <1>13, <1>14,
     <1>15, <1>16, <1>17, <1>18, <1>19 DEF Next, Work, Iterate

(* The tables, the calls and the recovery manager keep their types.        *)
THEOREM TypeCorrect == Spec => []TypeOK
<1>1. Init => TypeOK
  <2> SUFFICES ASSUME Init PROVE StoreOK /\ LocalsOK /\ ManagerOK
    BY TypeParts
  <2>1. StoreOK
    BY DEF Init, StoreOK, SagaState, StepState, Result
  <2>2. LocalsOK
    <3>1. 1 \in Steps /\ "none" \in Result /\ "idle" \in Pcs /\ "none" \in Replies
      BY NAssumption DEF Steps, Result, Pcs, Replies
    <3> QED
      BY <3>1 DEF Init, LocalsOK
  <2>3. ManagerOK
    BY DEF Init, ManagerOK
  <2> QED
    BY <2>1, <2>2, <2>3
<1> QED
  BY <1>1, TypeStep, PTL DEF Spec

-----------------------------------------------------------------------------
(* Order and completeness of the forward phase                             *)

\* What a call of execute_saga knows about the steps behind it: it starts
\* with the first, and unless the saga was deleted they have left results.
Results(w) ==
    /\ pc[w] \in {"step", "claim", "result", "complete"} =>
          \A m \in Steps : m < step[w] => result[saga[w]][m] # "none"
    /\ pc[w] = "complete" => result[saga[w]][step[w]] # "none"
    /\ pc[w] = "finish" => \A m \in Steps : result[saga[w]][m] # "none"

Behind(w) ==
    /\ pc[w] \in {"idle", "mark", "load"} => step[w] = 1
    /\ Gone(saga[w]) \/ Results(w)

\* StepsInOrder with its inner bound over Steps.
InOrder ==
    \A s \in Sagas, n \in Steps, m \in Steps :
        step_state[s][n] # "pending" /\ m < n => result[s][m] # "none"

ForwardInv ==
    /\ InOrder
    /\ CompletedStepHasResult
    /\ CompletedHasAllResults
    /\ \A w \in Workers : Behind(w)

\* Results are overwritten but never erased, and a deleted saga stays deleted.
Kept ==
    /\ \A s \in Sagas, n \in Steps : result[s][n] # "none" => result'[s][n] # "none"
    /\ \A s \in Sagas : Gone(s) => Gone(s)'

\* A worker that does not move keeps what it knows.
LEMMA BehindFrame ==
    ASSUME TypeOK, Kept, NEW w \in Workers, Behind(w),
           saga'[w] = saga[w], step'[w] = step[w], pc'[w] = pc[w]
    PROVE  Behind(w)'
  BY DEF TypeOK, Kept, Behind, Results

\* A step that leaves the tables alone.
LEMMA StoreFrame ==
    ASSUME TypeOK, ForwardInv, UNCHANGED store
    PROVE  Kept /\ InOrder' /\ CompletedStepHasResult' /\ CompletedHasAllResults'
  BY DEF Kept, ForwardInv, InOrder, CompletedStepHasResult, CompletedHasAllResults, store, Gone

\* An update of a saga's row to a state other than completed, or to completed
\* when every step has a result.
LEMMA SagaUpdate ==
    ASSUME TypeOK, ForwardInv, NEW s \in Sagas, NEW st \in SagaState, NEW o,
           update_saga_state(s, st, o), UNCHANGED <<step_state, result>>,
           st = "completed" => Gone(s) \/ \A n \in Steps : result[s][n] # "none"
    PROVE  Kept /\ InOrder' /\ CompletedStepHasResult' /\ CompletedHasAllResults'
<1>1. /\ \A r \in Sagas : r # s => saga_state'[r] = saga_state[r]
      /\ Gone(s) => saga_state' = saga_state
      /\ saga_state'[s] \in {saga_state[s], st}
  BY DEF update_saga_state, TypeOK
<1>2. Kept
  BY <1>1 DEF Kept, Gone
<1>3. CompletedHasAllResults'
  BY <1>1 DEF CompletedHasAllResults, ForwardInv, Gone
<1> QED
  BY <1>2, <1>3 DEF ForwardInv, InOrder, CompletedStepHasResult

\* An update of a step's state after the results it implies.
LEMMA StepUpdate ==
    ASSUME TypeOK, ForwardInv, NEW s \in Sagas, NEW n \in Steps, NEW st \in StepState, NEW o,
           update_saga_step_state(s, n, st, o), UNCHANGED <<saga_state, result>>,
           Gone(s) \/ \A m \in Steps : m < n => result[s][m] # "none",
           st = "completed" => Gone(s) \/ result[s][n] # "none"
    PROVE  Kept /\ InOrder' /\ CompletedStepHasResult' /\ CompletedHasAllResults'
<1>1. /\ \A r \in Sagas, k \in Steps : r # s \/ k # n => step_state'[r][k] = step_state[r][k]
      /\ Gone(s) => step_state' = step_state
      /\ step_state'[s][n] \in {step_state[s][n], st}
  BY DEF update_saga_step_state, TypeOK
<1>2. Kept
  BY DEF Kept, Gone
<1>3. InOrder'
  BY <1>1 DEF InOrder, ForwardInv
<1>4. CompletedStepHasResult'
  BY <1>1 DEF CompletedStepHasResult, ForwardInv
<1> QED
  BY <1>2, <1>3, <1>4 DEF ForwardInv, CompletedHasAllResults

\* Writing a result never takes one away.
LEMMA ResultUpdate ==
    ASSUME TypeOK, ForwardInv, NEW s \in Sagas, NEW n \in Steps, NEW r \in Result \ {"none"}, NEW o,
           update_saga_step_result(s, n, r, o), UNCHANGED <<saga_state, step_state>>
    PROVE  /\ Kept /\ InOrder' /\ CompletedStepHasResult' /\ CompletedHasAllResults'
           /\ o # "error" /\ ~Gone(s) => result'[s][n] # "none"
<1>1. /\ \A q \in Sagas, k \in Steps : q # s \/ k # n => result'[q][k] = result[q][k]
      /\ result'[s][n] \in {result[s][n], r}
      /\ o # "error" /\ ~Gone(s) => result'[s][n] = r
  BY DEF update_saga_step_result, TypeOK
<1>2. \A q \in Sagas, k \in Steps : result[q][k] # "none" => result'[q][k] # "none"
  BY <1>1
<1>3. Kept
  BY <1>2 DEF Kept, Gone
<1> QED
  BY <1>1, <1>2, <1>3 DEF ForwardInv, InOrder, CompletedStepHasResult, CompletedHasAllResults

\* After a step of worker u every other worker still knows what it knew.
LEMMA OthersKnow ==
    ASSUME TypeOK, ForwardInv, Kept, NEW u \in Workers, Behind(u)',
           \A w \in Workers : w # u =>
              saga'[w] = saga[w] /\ step'[w] = step[w] /\ pc'[w] = pc[w]
    PROVE  \A w \in Workers : Behind(w)'
<1> SUFFICES ASSUME NEW w \in Workers, w # u PROVE Behind(w)'
  OBVIOUS
<1> QED
  BY BehindFrame DEF ForwardInv

LEMMA ForwardStep ==
    ASSUME TypeOK, ForwardInv, [Next]_vars
    PROVE  ForwardInv'
<1> DEFINE Tables == Kept /\ InOrder' /\ CompletedStepHasResult' /\ CompletedHasAllResults'
           Alone(u) == \A w \in Workers : w # u =>
                          saga'[w] = saga[w] /\ step'[w] = step[w] /\ pc'[w] = pc[w]
<1>0. ASSUME NEW u \in Workers, Tables, Alone(u), Behind(u)' PROVE ForwardInv'
  BY <1>0, OthersKnow DEF ForwardInv
<1>1. ASSUME Tables, UNCHANGED locals PROVE ForwardInv'
  BY <1>1, BehindFrame DEF ForwardInv, locals
<1>2. \A w \in Workers : saga[w] \in Sagas /\ step[w] \in Steps
  BY DEF TypeOK
<1>3. ASSUME NEW u \in Workers,
             \/ pc'[u] \in {"idle", "mark", "load"} /\ step'[u] = 1
             \/ pc'[u] \in {"fail"} \cup CompensatorPcs
      PROVE  Behind(u)'
  BY <1>3 DEF Behind, Results, CompensatorPcs
<1>4. \A w \in Workers : pc[w] \in {"idle", "mark", "load"} => step[w] = 1
  BY DEF ForwardInv, Behind
<1>5. ASSUME NEW u \in Workers, Return(u), UNCHANGED saga PROVE Alone(u) /\ Behind(u)'
  <2>1. Alone(u) /\ pc'[u] = "idle" /\ step'[u] = 1
    BY <1>5 DEF Return, Goto, TypeOK
  <2> QED
    BY <1>3, <2>1
<1> HIDE DEF Tables, Alone
<1>6. ASSUME NEW u \in Workers, Calls(u) PROVE ForwardInv'
  <2>1. /\ UNCHANGED <<store, step>> /\ Alone(u)
        /\ pc[u] = "idle" /\ pc'[u] \in {"idle", "mark", "comp_mark"}
    BY <1>6 DEF Calls, execute_saga, compensate_saga, Goto, TypeOK, Alone
  <2>2. Behind(u)'
    BY <1>3, <1>4, <2>1 DEF CompensatorPcs
  <2> QED
    BY <1>0, <2>1, <2>2, StoreFrame DEF Tables
<1>7. ASSUME NEW u \in Workers, ExecuteMark(u) PROVE ForwardInv'
  <2>1. PICK o \in Outcomes : /\ update_saga_state(saga[u], "executing", o)
                              /\ IF o = "ok" THEN Continue(u, "load") ELSE Return(u)
    BY <1>7 DEF ExecuteMark
  <2>2. UNCHANGED <<step_state, result, saga>> /\ pc[u] = "mark"
    BY <1>7 DEF ExecuteMark
  <2>3. Tables
    BY <1>2, <2>1, <2>2, SagaUpdate DEF Tables, SagaState
  <2>4. CASE Continue(u, "load")
    <3>1. Alone(u) /\ pc'[u] = "load" /\ step'[u] = step[u]
      BY <2>2, <2>4 DEF Continue, Goto, TypeOK, Alone
    <3> QED
      BY <1>0, <1>3, <1>4, <2>2, <2>3, <3>1
  <2> QED
    BY <1>0, <1>5, <2>1, <2>2, <2>3, <2>4
<1>8. ASSUME NEW u \in Workers, ExecuteLoad(u) PROVE ForwardInv'
  <2>1. UNCHANGED <<store, saga>> /\ pc[u] = "load"
    BY <1>8 DEF ExecuteLoad
  <2>2. Tables
    BY <2>1, StoreFrame DEF Tables
  <2>3. CASE Continue(u, IF Gone(saga[u]) THEN "finish" ELSE "step")
    <3>1. /\ Alone(u) /\ step'[u] = 1
          /\ pc'[u] = IF Gone(saga[u]) THEN "finish" ELSE "step"
      BY <1>4, <2>1, <2>3 DEF Continue, Goto, TypeOK, Alone
    <3>2. Behind(u)'
      BY <2>1, <3>1 DEF Behind, Results, Steps, store, Gone
    <3> QED
      BY <1>0, <2>2, <3>1, <3>2
  <2> QED
    BY <1>0, <1>5, <1>8, <2>1, <2>2, <2>3 DEF ExecuteLoad
<1>9. ASSUME NEW u \in Workers, StepCheck(u) PROVE ForwardInv'
  <2>1. /\ UNCHANGED <<store, saga, step>> /\ pc[u] = "step" /\ pc'[u] \in {"claim", "fail"}
        /\ Alone(u)
    BY <1>9 DEF StepCheck, Goto, TypeOK, Alone
  <2>2. Behind(u)'
    BY <2>1 DEF ForwardInv, Behind, Results, store, Gone
  <2> QED
    BY <1>0, <2>1, <2>2, StoreFrame DEF Tables
<1>10. ASSUME NEW u \in Workers, StepClaim(u) PROVE ForwardInv'
  <2>1. /\ \E o \in Outcomes : update_saga_step_state(saga[u], step[u], "executing", o)
        /\ UNCHANGED <<saga_state, result, saga, step>> /\ pc[u] = "claim"
        /\ pc'[u] \in {"result", "fail"} /\ Alone(u)
    BY <1>10 DEF StepClaim, Goto, TypeOK, Alone
  <2>2. Gone(saga[u]) \/ \A m \in Steps : m < step[u] => result[saga[u]][m] # "none"
    BY <2>1 DEF ForwardInv, Behind, Results
  <2>3. Tables
    BY <1>2, <2>1, <2>2, StepUpdate DEF Tables, StepState
  <2>4. Behind(u)'
    BY <2>1, <2>2 DEF Behind, Results, Gone
  <2> QED
    BY <1>0, <2>1, <2>3, <2>4
<1>11. ASSUME NEW u \in Workers, StepResult(u) PROVE ForwardInv'
  <2>1. PICK o \in Outcomes : /\ update_saga_step_result(saga[u], step[u], "forward", o)
                              /\ pc'[u] = IF o = "ok" THEN "complete" ELSE "fail"
    BY <1>11 DEF StepResult, Goto, TypeOK
  <2>2. UNCHANGED <<saga_state, step_state, saga, step>> /\ pc[u] = "result" /\ Alone(u)
    BY <1>11 DEF StepResult, Goto, TypeOK, Alone
  <2>3. /\ Tables
        /\ o # "error" /\ ~Gone(saga[u]) => result'[saga[u]][step[u]] # "none"
    BY <1>2, <2>1, <2>2, ResultUpdate DEF Tables, Result
  <2>4. Gone(saga[u]) \/ \A m \in Steps : m < step[u] => result'[saga[u]][m] # "none"
    BY <1>2, <2>2, <2>3 DEF ForwardInv, Behind, Results, Tables, Kept
  <2>5. Behind(u)'
    BY <2>1, <2>2, <2>3, <2>4 DEF Behind, Results, Gone
  <2> QED
    BY <1>0, <2>2, <2>3, <2>5
<1>12. ASSUME NEW u \in Workers, StepComplete(u) PROVE ForwardInv'
  <2>1. PICK o \in Outcomes :
           /\ update_saga_step_state(saga[u], step[u], "completed", o)
           /\ \/ step[u] < N /\ pc'[u] = "step" /\ step'[u] = step[u] + 1
              \/ o = "ok" /\ ~(step[u] < N) /\ pc'[u] = "finish" /\ step' = step
              \/ pc'[u] = "fail"
    BY <1>12 DEF StepComplete, Goto, TypeOK
  <2>2. UNCHANGED <<saga_state, result, saga>> /\ pc[u] = "complete" /\ Alone(u)
    BY <1>12 DEF StepComplete, Goto, TypeOK, Alone
  <2>3. \/ Gone(saga[u])
        \/ /\ \A m \in Steps : m < step[u] => result[saga[u]][m] # "none"
           /\ result[saga[u]][step[u]] # "none"
    BY <2>2 DEF ForwardInv, Behind, Results
  <2>4. Tables
    BY <1>2, <2>1, <2>2, <2>3, StepUpdate DEF Tables, StepState
  <2>5. \/ Gone(saga[u])
        \/ \A m \in Steps : m < step[u] + 1 => result[saga[u]][m] # "none"
    BY <1>2, <2>3 DEF Steps
  <2>6. Behind(u)'
    <3>1. CASE pc'[u] = "step" /\ step'[u] = step[u] + 1
      BY <2>2, <2>5, <3>1 DEF Behind, Results, Gone
    <3>2. CASE pc'[u] = "finish" /\ ~(step[u] < N)
      <4>1. \A m \in Steps : m < step[u] + 1
        BY <1>2, <3>2, NAssumption DEF Steps
      <4> QED
        BY <2>2, <2>5, <3>2, <4>1 DEF Behind, Results, Gone
    <3>3. CASE pc'[u] = "fail"
      BY <1>3, <3>3
    <3> QED
      BY <2>1, <3>1, <3>2, <3>3
  <2> QED
    BY <1>0, <2>2, <2>4, <2>6
<1>13. ASSUME NEW u \in Workers, ExecuteFail(u) PROVE ForwardInv'
  <2>1. /\ \E o \in Outcomes : update_saga_state(saga[u], "failed", o)
        /\ UNCHANGED <<step_state, result, saga>> /\ Return(u)
    BY <1>13 DEF ExecuteFail
  <2>2. Tables
    BY <1>2, <2>1, SagaUpdate DEF Tables, SagaState
  <2> QED
    BY <1>0, <1>5, <2>1, <2>2
<1>14. ASSUME NEW u \in Workers, ExecuteFinish(u) PROVE ForwardInv'
  <2>1. /\ \E o \in Outcomes : update_saga_state(saga[u], "completed", o)
        /\ UNCHANGED <<step_state, result, saga>> /\ Return(u) /\ pc[u] = "finish"
    BY <1>14 DEF ExecuteFinish
  <2>2. Gone(saga[u]) \/ \A n \in Steps : result[saga[u]][n] # "none"
    BY <2>1 DEF ForwardInv, Behind, Results
  <2>3. Tables
    BY <1>2, <2>1, <2>2, SagaUpdate DEF Tables, SagaState
  <2> QED
    BY <1>0, <1>5, <2>1, <2>3
<1>15. ASSUME NEW u \in Workers, CompensateMark(u) PROVE ForwardInv'
  <2>1. /\ \E o \in Outcomes : update_saga_state(saga[u], "compensating", o)
        /\ UNCHANGED <<step_state, result, saga>>
        /\ Continue(u, "comp_load") \/ Return(u)
    BY <1>15 DEF CompensateMark
  <2>2. Tables
    BY <1>2, <2>1, SagaUpdate DEF Tables, SagaState
  <2>3. CASE Continue(u, "comp_load")
    <3>1. Alone(u) /\ pc'[u] = "comp_load"
      BY <2>1, <2>3 DEF Continue, Goto, TypeOK, Alone
    <3> QED
      BY <1>0, <1>3, <2>2, <3>1 DEF CompensatorPcs
  <2> QED
    BY <1>0, <1>5, <2>1, <2>2, <2>3
<1>16. ASSUME NEW u \in Workers, CompensateLoad(u) PROVE ForwardInv'
  <2>1. UNCHANGED <<store, saga>>
    BY <1>16 DEF CompensateLoad
  <2>2. Return(u) \/ (Goto(u, "comp_step") /\ UNCHANGED step)
    BY <1>16 DEF CompensateLoad
  <2>3. Tables
    BY <2>1, StoreFrame DEF Tables
  <2>4. CASE Goto(u, "comp_step") /\ UNCHANGED step
    <3>1. Alone(u) /\ pc'[u] = "comp_step"
      BY <2>1, <2>4 DEF Goto, TypeOK, Alone
    <3> QED
      BY <1>0, <1>3, <2>3, <3>1 DEF CompensatorPcs
  <2> QED
    BY <1>0, <1>5, <2>1, <2>2, <2>3, <2>4
<1>17. ASSUME NEW u \in Workers, CompensateStep(u) PROVE ForwardInv'
  <2>1. /\ UNCHANGED <<store, saga>> /\ pc'[u] \in {"comp_step", "comp_result"} /\ Alone(u)
    BY <1>17 DEF CompensateStep, Goto, TypeOK, Alone
  <2> QED
    BY <1>0, <1>3, <2>1, StoreFrame DEF Tables, CompensatorPcs
<1>18. ASSUME NEW u \in Workers, CompensateResult(u) PROVE ForwardInv'
  <2>1. /\ \E o \in Outcomes : update_saga_step_result(saga[u], step[u], "compensated", o)
        /\ UNCHANGED <<saga_state, step_state, saga, step>>
        /\ pc'[u] = "comp_step" /\ Alone(u)
    BY <1>18 DEF CompensateResult, Goto, TypeOK, Alone
  <2>2. Tables
    BY <1>2, <2>1, ResultUpdate DEF Tables, Result
  <2> QED
    BY <1>0, <1>3, <2>1, <2>2 DEF CompensatorPcs
<1>19. ASSUME NEW u \in Workers, CompensateFinish(u) PROVE ForwardInv'
  <2>1. /\ \E o \in Outcomes, st \in {"compensated", "failed"} : update_saga_state(saga[u], st, o)
        /\ UNCHANGED <<step_state, result, saga>> /\ Return(u)
    BY <1>19 DEF CompensateFinish
  <2>2. Tables
    BY <1>2, <2>1, SagaUpdate DEF Tables, SagaState
  <2> QED
    BY <1>0, <1>5, <2>1, <2>2
<1>20. ASSUME NEW u \in Workers, Crash(u) PROVE ForwardInv'
  <2>1. UNCHANGED <<store, saga>> /\ Return(u)
    BY <1>20 DEF Crash
  <2> QED
    BY <1>0, <1>5, <2>1, StoreFrame DEF Tables
<1>21. ASSUME NEW l \in Loops, LoopTransition(l) PROVE ForwardInv'
  <2>1. PICK s \in batch[l] : \E o \in Outcomes : update_saga_state(s, "executing", o)
    BY <1>21 DEF LoopTransition
  <2>2. UNCHANGED <<step_state, result, locals>> /\ s \in Sagas
    BY <1>21, <2>1 DEF LoopTransition, TypeOK
  <2>3. Tables
    BY <2>1, <2>2, SagaUpdate DEF Tables, SagaState
  <2> QED
    BY <1>1, <2>2, <2>3
<1>22. ASSUME NEW l \in Loops, LoopCleanup(l) PROVE ForwardInv'
  <2>1. /\ UNCHANGED <<step_state, result, locals>>
        /\ \A s \in Sagas : saga_state'[s] \in {saga_state[s], "gone"}
    BY <1>22 DEF LoopCleanup, TypeOK
  <2>2. Tables
    BY <2>1 DEF Tables, Kept, Gone, ForwardInv, InOrder, CompletedStepHasResult,
                CompletedHasAllResults
  <2> QED
    BY <1>1, <2>1, <2>2
<1>23. ASSUME UNCHANGED <<store, locals>> PROVE ForwardInv'
  BY <1>1, <1>23, StoreFrame DEF Tables
<1>24. ASSUME NEW l \in Loops, start_background_loop(l) \/ LoopCheck(l) \/ LoopLoad(l)
       PROVE  ForwardInv'
  BY <1>23, <1>24 DEF start_background_loop, LoopCheck, LoopLoad
<1>25. CASE stop_background_loop \/ UNCHANGED vars
  BY <1>23, <1>25 DEF stop_background_loop, vars
<1> QED
  BY <1>6, <1>7, <1>8, <1>9, <1>10, <1>11, <1>12, <1>13, <1>14, <1>15, <1>16, <1>17, <1>18,
     <1>19, <1>20, <1>21, <1>22, <1>24, <1>25 DEF Next, Work, Iterate

LEMMA ForwardInvariant == Spec => [](TypeOK /\ ForwardInv)
<1>1. Init => ForwardInv
  BY DEF Init, ForwardInv, InOrder, CompletedStepHasResult, CompletedHasAllResults, Behind, Results
<1>2. TypeOK /\ ForwardInv /\ [Next]_vars => ForwardInv'
  BY ForwardStep
<1> QED
  BY <1>1, <1>2, TypeCorrect, PTL DEF Spec

(* However many calls of execute_saga and compensate_saga, crashes, faults *)
(* and recovery loops overlap on a saga, no step is claimed before each    *)
(* earlier step has left its result.                                       *)
THEOREM StepsRunInOrder == Spec => []StepsInOrder
<1>1. TypeOK /\ ForwardInv => StepsInOrder
  BY NAssumption DEF ForwardInv, InOrder, StepsInOrder, Steps
<1> QED
  BY <1>1, ForwardInvariant, PTL

(* A saga is marked completed only when each of its steps has a result.    *)
THEOREM CompletedSagaHasResults == Spec => []CompletedHasAllResults
  BY ForwardInvariant, PTL DEF ForwardInv

(* The compensator never loads a completed step without a result to undo.  *)
THEOREM CompletedStepsHaveResults == Spec => []CompletedStepHasResult
  BY ForwardInvariant, PTL DEF ForwardInv

-----------------------------------------------------------------------------
(***************************************************************************)
(* Calls that do not overlap on a saga.  The unconditional updates make    *)
(* overlapping calls interfere, so what the tables mean at the end of a    *)
(* saga is proved for behaviours in which a saga has one call at a time;   *)
(* calls on different sagas, recovery loops, faults and crashes overlap as *)
(* they like.                                                              *)
(***************************************************************************)

Busy(w) == pc[w] # "idle"

OneCallPerSaga ==
    \A v, w \in Workers : v # w /\ Busy(v) /\ Busy(w) => saga[v] # saga[w]

\* The step took effect and the effect is still there.
Effect(s, n) == step_state[s][n] = "completed" /\ result[s][n] = "forward"

Undone(s, n) == step_state[s][n] = "completed" => result[s][n] = "compensated"

\* What the state of a saga that rests says about its steps.
SagaOK(s) ==
    /\ saga_state[s] = "completed" => \A n \in Steps : Effect(s, n)
    /\ saga_state[s] = "compensated" => \A n \in Steps : Undone(s, n)
    /\ Gone(s) => (\A n \in Steps : Effect(s, n)) \/ (\A n \in Steps : Undone(s, n))

\* What a call that has its saga to itself knows of it.  A recovery loop may
\* set a saga it loaded earlier to executing at any of these points.
Executes(w) ==
    /\ pc[w] \in {"idle", "mark", "load"} => step[w] = 1
    /\ pc[w] = "load" => saga_state[saga[w]] \in {"executing", "gone"}
    /\ pc[w] \in {"step", "claim", "result", "complete", "fail"} => saga_state[saga[w]] = "executing"
    /\ pc[w] \in {"step", "claim", "result", "complete"} =>
          \A m \in Steps : m < step[w] => Effect(saga[w], m)
    /\ pc[w] = "complete" => result[saga[w]][step[w]] = "forward"
    /\ pc[w] = "finish" =>
          \/ Gone(saga[w])
          \/ saga_state[saga[w]] = "executing" /\ \A m \in Steps : Effect(saga[w], m)

Compensates(w) ==
    /\ pc[w] = "comp_mark" => saga_state[saga[w]] \in {"failed", "executing"}
    /\ pc[w] \in {"comp_load", "comp_step", "comp_result"} =>
          saga_state[saga[w]] \in {"compensating", "executing"}
    /\ pc[w] \in {"comp_step", "comp_result"} =>
          \A n \in Steps : n \in todo[w] \cup failed[w] \/ Undone(saga[w], n)

Knows(w) == Executes(w) /\ Compensates(w)

ExclusiveInv == (\A s \in Sagas : SagaOK(s)) /\ (\A w \in Workers : Knows(w))

\* The rows of saga s stay as they are.
SameRows(s) ==
    saga_state'[s] = saga_state[s] /\ step_state'[s] = step_state[s] /\ result'[s] = result[s]

SameLocals(w) ==
    /\ pc'[w] = pc[w] /\ saga'[w] = saga[w] /\ step'[w] = step[w]
    /\ todo'[w] = todo[w] /\ failed'[w] = failed[w]

LEMMA KnowsFrame ==
    ASSUME NEW w \in Workers, Knows(w), SameLocals(w), SameRows(saga[w])
    PROVE  Knows(w)'
  BY DEF Knows, Executes, Compensates, SameLocals, SameRows, Effect, Undone, Gone

LEMMA SagaFrame ==
    ASSUME NEW s \in Sagas, SagaOK(s), SameRows(s)
    PROVE  SagaOK(s)'
  BY DEF SagaOK, SameRows, Effect, Undone, Gone

\* A step of the call u: the rows of its saga and what u knows are all that
\* can change, since no other call is on that saga.
LEMMA ExclusiveFrame ==
    ASSUME TypeOK, ExclusiveInv, OneCallPerSaga, NEW u \in Workers, Busy(u),
           NEW s \in Sagas, s = saga[u],
           \A r \in Sagas : r # s => SameRows(r),
           \A w \in Workers : w # u => SameLocals(w),
           SagaOK(s)', Knows(u)'
    PROVE  ExclusiveInv'
<1>1. ASSUME NEW r \in Sagas PROVE SagaOK(r)'
  BY SagaFrame DEF ExclusiveInv
<1>2. ASSUME NEW w \in Workers PROVE Knows(w)'
  <2>1. CASE w = u
    BY <2>1
  <2>2. CASE w # u /\ Busy(w)
    BY <2>2, KnowsFrame DEF ExclusiveInv, OneCallPerSaga, TypeOK
  <2>3. CASE w # u /\ ~Busy(w)
    BY <2>3 DEF Busy, SameLocals, ExclusiveInv, Knows, Executes, Compensates
  <2> QED
    BY <2>1, <2>2, <2>3
<1> QED
  BY <1>1, <1>2 DEF ExclusiveInv

\* What the three statements do to the rows, seen from the saga they name.
LEMMA SagaRow ==
    ASSUME TypeOK, NEW s \in Sagas, NEW st, NEW o, update_saga_state(s, st, o)
    PROVE  /\ \A r \in Sagas : r # s => saga_state'[r] = saga_state[r]
           /\ saga_state'[s] \in {saga_state[s], st}
           /\ Gone(s) => saga_state'[s] = "gone"
           /\ o # "error" /\ ~Gone(s) => saga_state'[s] = st
  BY DEF update_saga_state, TypeOK, Gone

LEMMA StepRow ==
    ASSUME TypeOK, NEW s \in Sagas, NEW n \in Steps, NEW st, NEW o,
           update_saga_step_state(s, n, st, o)
    PROVE  /\ \A r \in Sagas : r # s => step_state'[r] = step_state[r]
           /\ \A m \in Steps : m # n => step_state'[s][m] = step_state[s][m]
           /\ o # "error" /\ ~Gone(s) => step_state'[s][n] = st
  BY DEF update_saga_step_state, TypeOK

LEMMA ResultRow ==
    ASSUME TypeOK, NEW s \in Sagas, NEW n \in Steps, NEW x, NEW o,
           update_saga_step_result(s, n, x, o)
    PROVE  /\ \A r \in Sagas : r # s => result'[r] = result[r]
           /\ \A m \in Steps : m # n => result'[s][m] = result[s][m]
           /\ o # "error" /\ ~Gone(s) => result'[s][n] = x
  BY DEF update_saga_step_result, TypeOK

\* One call's step, action by action.
LEMMA ExclusiveWork ==
    ASSUME TypeOK, ExclusiveInv, OneCallPerSaga, NEW u \in Workers, Work(u) \/ Crash(u),
           NEW s \in Sagas, s = saga[u]
    PROVE  ExclusiveInv'
<1> DEFINE Others == /\ \A r \in Sagas : r # s => SameRows(r)
                     /\ \A w \in Workers : w # u => SameLocals(w)
<1>0. Busy(u) /\ step[u] \in Steps
  BY DEF Busy, Work, Crash, ExecuteMark, ExecuteLoad, StepCheck, StepClaim, StepResult, StepComplete,
         ExecuteFail, ExecuteFinish, CompensateMark, CompensateLoad, CompensateStep,
         CompensateResult, CompensateFinish, TypeOK
<1>1. Executes(u) /\ Compensates(u) /\ SagaOK(s)
  BY DEF ExclusiveInv, Knows
<1> SUFFICES Others /\ SagaOK(s)' /\ Executes(u)' /\ Compensates(u)'
  BY <1>0, ExclusiveFrame DEF Knows
<1>2. ASSUME Return(u), UNCHANGED saga
      PROVE  /\ \A w \in Workers : w # u => SameLocals(w)
             /\ Executes(u)' /\ Compensates(u)'
  <2>1. pc'[u] = "idle" /\ step'[u] = 1
    BY <1>2 DEF Return, Goto, TypeOK
  <2>2. \A w \in Workers : w # u => SameLocals(w)
    BY <1>2 DEF Return, Goto, SameLocals, TypeOK
  <2> QED
    BY <2>1, <2>2 DEF Executes, Compensates
<1>3. ASSUME UNCHANGED <<step_state, result>>, NEW st \in SagaState, NEW o, update_saga_state(s, st, o),
             st = "completed" => Gone(s) \/ \A n \in Steps : Effect(s, n),
             st = "compensated" => \A n \in Steps : Undone(s, n)
      PROVE  (\A r \in Sagas : r # s => SameRows(r)) /\ SagaOK(s)'
  <2>1. /\ \A r \in Sagas : r # s => saga_state'[r] = saga_state[r]
        /\ saga_state'[s] \in {saga_state[s], st}
        /\ Gone(s) => saga_state'[s] = "gone"
    BY <1>3, SagaRow
  <2>2. st # "gone"
    BY DEF SagaState
  <2>3. \A r \in Sagas : r # s => SameRows(r)
    BY <1>3, <2>1 DEF SameRows
  <2>4. SagaOK(s)'
    BY <1>1, <1>3, <2>1, <2>2 DEF SagaOK, Effect, Undone, Gone
  <2> QED
    BY <2>3, <2>4
<1>4. ASSUME UNCHANGED store PROVE (\A r \in Sagas : r # s => SameRows(r)) /\ SagaOK(s)'
  BY <1>1, <1>4, SagaFrame DEF store, SameRows
\* A statement on a step of a saga that is in progress.
<1>5. ASSUME UNCHANGED saga_state, saga_state[s] \in {"executing", "compensating"},
             \A r \in Sagas : r # s => step_state'[r] = step_state[r] /\ result'[r] = result[r]
      PROVE  (\A r \in Sagas : r # s => SameRows(r)) /\ SagaOK(s)'
  BY <1>5 DEF SameRows, SagaOK, Gone
<1>6. CASE ExecuteMark(u)
  <2>1. PICK o \in Outcomes : /\ update_saga_state(s, "executing", o)
                              /\ IF o = "ok" THEN Continue(u, "load") ELSE Return(u)
    BY <1>6 DEF ExecuteMark
  <2>2. UNCHANGED <<step_state, result, saga>> /\ pc[u] = "mark"
    BY <1>6 DEF ExecuteMark
  <2>3. (\A r \in Sagas : r # s => SameRows(r)) /\ SagaOK(s)'
    BY <1>3, <2>1, <2>2 DEF SagaState
  <2>4. CASE o = "ok"
    <3>1. /\ \A w \in Workers : w # u => SameLocals(w)
          /\ pc'[u] = "load" /\ step'[u] = step[u]
      BY <2>1, <2>2, <2>4 DEF Continue, Goto, SameLocals, TypeOK
    <3>2. saga_state'[s] \in {"executing", "gone"}
      BY <2>1, <2>4, SagaRow
    <3> QED
      BY <1>1, <2>2, <2>3, <3>1, <3>2 DEF Executes, Compensates
  <2>5. CASE o # "ok"
    BY <1>2, <2>1, <2>2, <2>3, <2>5
  <2> QED
    BY <2>4, <2>5
<1>7. CASE ExecuteLoad(u)
  <2>1. UNCHANGED <<store, saga>> /\ pc[u] = "load"
    BY <1>7 DEF ExecuteLoad
  <2>2. (\A r \in Sagas : r # s => SameRows(r)) /\ SagaOK(s)'
    BY <1>4, <2>1
  <2>3. CASE Continue(u, IF Gone(s) THEN "finish" ELSE "step")
    <3>1. /\ \A w \in Workers : w # u => SameLocals(w)
          /\ pc'[u] = IF Gone(s) THEN "finish" ELSE "step"
          /\ step'[u] = step[u]
      BY <2>1, <2>3 DEF Continue, Goto, SameLocals, TypeOK
    <3>2. /\ step'[u] = 1
          /\ pc'[u] = "step" => saga_state[s] = "executing"
      BY <1>1, <2>1, <3>1 DEF Executes, Gone
    <3> QED
      BY <2>1, <2>2, <3>1, <3>2 DEF Executes, Compensates, Gone, store, Steps
  <2> QED
    BY <1>2, <1>7, <2>1, <2>2, <2>3 DEF ExecuteLoad
<1>8. CASE StepCheck(u)
  <2>1. /\ UNCHANGED <<store, saga, step>> /\ pc[u] = "step" /\ pc'[u] \in {"claim", "fail"}
        /\ \A w \in Workers : w # u => SameLocals(w)
    BY <1>8 DEF StepCheck, Goto, SameLocals, TypeOK
  <2>2. Executes(u)' /\ Compensates(u)'
    BY <1>1, <2>1 DEF Executes, Compensates, store, Effect
  <2> QED
    BY <1>4, <2>1, <2>2
<1>9. CASE StepClaim(u)
  <2>1. PICK o \in Outcomes : update_saga_step_state(s, step[u], "executing", o)
    BY <1>9 DEF StepClaim
  <2>2. /\ UNCHANGED <<saga_state, result, saga, step>> /\ pc[u] = "claim"
        /\ pc'[u] \in {"result", "fail"}
        /\ \A w \in Workers : w # u => SameLocals(w)
    BY <1>9 DEF StepClaim, Goto, SameLocals, TypeOK
  <2>3. /\ \A r \in Sagas : r # s => step_state'[r] = step_state[r]
        /\ \A m \in Steps : m # step[u] => step_state'[s][m] = step_state[s][m]
    BY <1>0, <2>1, StepRow
  <2>4. saga_state[s] = "executing" /\ \A m \in Steps : m < step[u] => Effect(s, m)
    BY <1>1, <2>2 DEF Executes
  <2>5. (\A r \in Sagas : r # s => SameRows(r)) /\ SagaOK(s)'
    BY <1>5, <2>2, <2>3, <2>4
  <2>6. \A m \in Steps : m < step[u] => Effect(s, m)'
    BY <1>0, <2>2, <2>3, <2>4 DEF Effect, Steps
  <2>7. Executes(u)' /\ Compensates(u)'
    BY <2>2, <2>4, <2>6 DEF Executes, Compensates, Effect
  <2> QED
    BY <2>2, <2>5, <2>7
<1>10. CASE StepResult(u)
  <2>1. PICK o \in Outcomes : /\ update_saga_step_result(s, step[u], "forward", o)
                              /\ pc'[u] = IF o = "ok" THEN "complete" ELSE "fail"
    BY <1>10 DEF StepResult, Goto, TypeOK
  <2>2. /\ UNCHANGED <<saga_state, step_state, saga, step>> /\ pc[u] = "result"
        /\ \A w \in Workers : w # u => SameLocals(w)
    BY <1>10 DEF StepResult, Goto, SameLocals, TypeOK
  <2>3. saga_state[s] = "executing" /\ \A m \in Steps : m < step[u] => Effect(s, m)
    BY <1>1, <2>2 DEF Executes
  <2>4. /\ \A r \in Sagas : r # s => result'[r] = result[r]
        /\ \A m \in Steps : m # step[u] => result'[s][m] = result[s][m]
        /\ o = "ok" => result'[s][step[u]] = "forward"
    BY <1>0, <2>1, <2>3, ResultRow DEF Gone
  <2>5. (\A r \in Sagas : r # s => SameRows(r)) /\ SagaOK(s)'
    BY <1>5, <2>2, <2>3, <2>4
  <2>6. \A m \in Steps : m < step[u] => Effect(s, m)'
    BY <1>0, <2>2, <2>3, <2>4 DEF Effect, Steps
  <2>7. Executes(u)' /\ Compensates(u)'
    BY <2>1, <2>2, <2>3, <2>4, <2>6 DEF Executes, Compensates, Effect
  <2> QED
    BY <2>2, <2>5, <2>7
<1>11. CASE StepComplete(u)
  <2>1. PICK o \in Outcomes :
           /\ update_saga_step_state(s, step[u], "completed", o)
           /\ \/ o = "ok" /\ step[u] < N /\ pc'[u] = "step" /\ step'[u] = step[u] + 1
              \/ o = "ok" /\ ~(step[u] < N) /\ pc'[u] = "finish" /\ step' = step
              \/ pc'[u] = "fail"
    BY <1>11 DEF StepComplete, Goto, TypeOK
  <2>2. /\ UNCHANGED <<saga_state, result, saga>> /\ pc[u] = "complete"
        /\ \A w \in Workers : w # u => SameLocals(w)
    BY <1>11 DEF StepComplete, Goto, SameLocals, TypeOK
  <2>3. /\ saga_state[s] = "executing" /\ result[s][step[u]] = "forward"
        /\ \A m \in Steps : m < step[u] => Effect(s, m)
    BY <1>1, <2>2 DEF Executes
  <2>4. /\ \A r \in Sagas : r # s => step_state'[r] = step_state[r]
        /\ \A m \in Steps : m # step[u] => step_state'[s][m] = step_state[s][m]
        /\ o = "ok" => step_state'[s][step[u]] = "completed"
    BY <1>0, <2>1, <2>3, StepRow DEF Gone
  <2>5. (\A r \in Sagas : r # s => SameRows(r)) /\ SagaOK(s)'
    BY <1>5, <2>2, <2>3, <2>4
  <2>6. o = "ok" => \A m \in Steps : m < step[u] + 1 => Effect(s, m)'
    BY <1>0, <2>2, <2>3, <2>4 DEF Effect, Steps
  <2>7. Executes(u)' /\ Compensates(u)'
    <3>1. CASE o = "ok" /\ pc'[u] = "step" /\ step'[u] = step[u] + 1
      BY <2>2, <2>3, <2>6, <3>1 DEF Executes, Compensates, Effect
    <3>2. CASE o = "ok" /\ pc'[u] = "finish" /\ ~(step[u] < N)
      <4>1. \A m \in Steps : m < step[u] + 1
        BY <1>0, <3>2, NAssumption DEF Steps
      <4> QED
        BY <2>2, <2>3, <2>6, <3>2, <4>1 DEF Executes, Compensates, Effect
    <3>3. CASE pc'[u] = "fail"
      BY <2>2, <2>3, <3>3 DEF Executes, Compensates
    <3> QED
      BY <2>1, <3>1, <3>2, <3>3
  <2> QED
    BY <2>2, <2>5, <2>7
<1>12. CASE ExecuteFail(u)
  BY <1>2, <1>3, <1>12 DEF ExecuteFail, SagaState
<1>13. CASE ExecuteFinish(u)
  <2>1. Gone(s) \/ \A n \in Steps : Effect(s, n)
    BY <1>1, <1>13 DEF ExecuteFinish, Executes
  <2> QED
    BY <1>2, <1>3, <1>13, <2>1 DEF ExecuteFinish, SagaState
<1>14. CASE CompensateMark(u)
  <2>1. PICK o \in Outcomes : /\ update_saga_state(s, "compensating", o)
                              /\ IF o = "ok" THEN Continue(u, "comp_load") ELSE Return(u)
    BY <1>14 DEF CompensateMark
  <2>2. UNCHANGED <<step_state, result, saga>> /\ pc[u] = "comp_mark"
    BY <1>14 DEF CompensateMark
  <2>3. (\A r \in Sagas : r # s => SameRows(r)) /\ SagaOK(s)'
    BY <1>3, <2>1, <2>2 DEF SagaState
  <2>4. CASE o = "ok"
    <3>1. (\A w \in Workers : w # u => SameLocals(w)) /\ pc'[u] = "comp_load"
      BY <2>1, <2>2, <2>4 DEF Continue, Goto, SameLocals, TypeOK
    <3>2. ~Gone(s)
      BY <1>1, <2>2 DEF Compensates, Gone
    <3>3. saga_state'[s] = "compensating"
      BY <2>1, <2>4, <3>2, SagaRow
    <3> QED
      BY <2>2, <2>3, <3>1, <3>3 DEF Executes, Compensates
  <2>5. CASE o # "ok"
    BY <1>2, <2>1, <2>2, <2>3, <2>5
  <2> QED
    BY <2>4, <2>5
<1>15. CASE CompensateLoad(u)
  <2>1. UNCHANGED <<store, saga>> /\ pc[u] = "comp_load"
    BY <1>15 DEF CompensateLoad
  <2>2. (\A r \in Sagas : r # s => SameRows(r)) /\ SagaOK(s)'
    BY <1>4, <2>1
  <2>3. CASE ~Return(u)
    <3> DEFINE done == {n \in Steps : ~Gone(s) /\ step_state[s][n] = "completed"}
    <3>1. todo' = [todo EXCEPT ![u] = done] /\ Goto(u, "comp_step") /\ UNCHANGED <<step, failed>>
      BY <1>15, <2>3 DEF CompensateLoad
    <3>2. /\ pc'[u] = "comp_step" /\ todo'[u] = done
          /\ \A w \in Workers : w # u => SameLocals(w)
      BY <2>1, <3>1 DEF Goto, SameLocals, TypeOK
    <3>3. saga_state[s] \in {"compensating", "executing"}
      BY <1>1, <2>1 DEF Compensates
    <3>4. \A n \in Steps : n \in done \/ Undone(s, n)
      BY <3>3 DEF Undone, Gone
    <3> HIDE DEF done
    <3> QED
      BY <2>1, <2>2, <3>2, <3>3, <3>4 DEF Executes, Compensates, Undone, store
  <2> QED
    BY <1>2, <2>1, <2>2, <2>3
<1>16. CASE CompensateStep(u)
  <2>1. PICK n \in todo[u] :
           \/ Goto(u, "comp_result") /\ step' = [step EXCEPT ![u] = n] /\ UNCHANGED <<todo, failed>>
           \/ /\ failed' = [failed EXCEPT ![u] = @ \cup {n}]
              /\ todo' = [todo EXCEPT ![u] = @ \ {n}]
              /\ UNCHANGED <<pc, step>>
    BY <1>16 DEF CompensateStep
  <2>2. UNCHANGED <<store, saga>> /\ pc[u] = "comp_step"
    BY <1>16 DEF CompensateStep
  <2>3. /\ \A w \in Workers : w # u => SameLocals(w)
        /\ pc'[u] \in {"comp_step", "comp_result"}
        /\ todo'[u] \cup failed'[u] = todo[u] \cup failed[u]
    BY <2>1, <2>2 DEF Goto, SameLocals, TypeOK
  <2>4. Executes(u)' /\ Compensates(u)'
    BY <1>1, <2>2, <2>3 DEF Executes, Compensates, Undone, store
  <2> QED
    BY <1>4, <2>2, <2>3, <2>4
<1>17. CASE CompensateResult(u)
  <2>1. PICK o \in Outcomes :
           /\ update_saga_step_result(s, step[u], "compensated", o)
           /\ failed' = [failed EXCEPT ![u] = IF o = "ok" THEN @ ELSE @ \cup {step[u]}]
    BY <1>17 DEF CompensateResult
  <2>2. /\ UNCHANGED <<saga_state, step_state, saga, step>> /\ pc[u] = "comp_result"
        /\ todo' = [todo EXCEPT ![u] = @ \ {step[u]}]
        /\ pc'[u] = "comp_step"
        /\ \A w \in Workers : w # u => SameLocals(w)
    BY <1>17, <2>1 DEF CompensateResult, Goto, SameLocals, TypeOK
  <2>3. /\ saga_state[s] \in {"compensating", "executing"}
        /\ \A n \in Steps : n \in todo[u] \cup failed[u] \/ Undone(s, n)
    BY <1>1, <2>2 DEF Compensates
  <2>4. /\ \A r \in Sagas : r # s => result'[r] = result[r]
        /\ \A m \in Steps : m # step[u] => result'[s][m] = result[s][m]
        /\ o = "ok" => result'[s][step[u]] = "compensated"
    BY <1>0, <2>1, <2>3, ResultRow DEF Gone
  <2>5. (\A r \in Sagas : r # s => SameRows(r)) /\ SagaOK(s)'
    BY <1>5, <2>2, <2>3, <2>4
  <2>6. /\ todo'[u] = todo[u] \ {step[u]}
        /\ failed'[u] = IF o = "ok" THEN failed[u] ELSE failed[u] \cup {step[u]}
    BY <2>1, <2>2 DEF TypeOK
  <2>7. \A n \in Steps : n \in todo'[u] \cup failed'[u] \/ Undone(s, n)'
    BY <1>0, <2>2, <2>3, <2>4, <2>6 DEF Undone
  <2>8. Executes(u)' /\ Compensates(u)'
    BY <2>2, <2>3, <2>7 DEF Executes, Compensates, Undone
  <2> QED
    BY <2>2, <2>5, <2>8
<1>18. CASE CompensateFinish(u)
  <2>1. PICK o \in Outcomes :
           update_saga_state(s, IF failed[u] = {} THEN "compensated" ELSE "failed", o)
    BY <1>18 DEF CompensateFinish
  <2>2. UNCHANGED <<step_state, result, saga>> /\ Return(u) /\ pc[u] = "comp_step" /\ todo[u] = {}
    BY <1>18 DEF CompensateFinish
  <2>3. failed[u] = {} => \A n \in Steps : Undone(s, n)
    BY <1>1, <2>2 DEF Compensates
  <2>4. (\A r \in Sagas : r # s => SameRows(r)) /\ SagaOK(s)'
    BY <1>3, <2>1, <2>2, <2>3 DEF SagaState
  <2> QED
    BY <1>2, <2>2, <2>4
<1>19. CASE Crash(u)
  BY <1>2, <1>4, <1>19 DEF Crash
<1> QED
  BY <1>6, <1>7, <1>8, <1>9, <1>10, <1>11, <1>12, <1>13, <1>14, <1>15, <1>16, <1>17, <1>18, <1>19
     DEF Work

\* A new call changes no row; a saga that is to be compensated reads as failed.
LEMMA ExclusiveCall ==
    ASSUME TypeOK, ExclusiveInv, NEW u \in Workers, Calls(u)
    PROVE  ExclusiveInv'
<1>1. PICK s \in Sagas : execute_saga(u, s) \/ compensate_saga(u, s)
  BY DEF Calls
<1>2. /\ UNCHANGED <<store, step, todo, failed>> /\ saga'[u] = s /\ pc[u] = "idle"
      /\ pc'[u] \in {"idle", "mark"} \/ (pc'[u] = "comp_mark" /\ saga_state[s] = "failed")
      /\ \A w \in Workers : w # u => SameLocals(w)
  BY <1>1 DEF execute_saga, compensate_saga, Goto, SameLocals, TypeOK
<1>3. \A r \in Sagas : SameRows(r)
  BY <1>2 DEF store, SameRows
<1>4. step'[u] = 1
  BY <1>2 DEF ExclusiveInv, Knows, Executes
<1>5. Knows(u)'
  BY <1>2, <1>4 DEF store, Knows, Executes, Compensates
<1>6. ASSUME NEW w \in Workers, w # u PROVE Knows(w)'
  BY <1>2, <1>3, <1>6, KnowsFrame DEF ExclusiveInv, TypeOK
<1> QED
  BY <1>3, <1>5, <1>6, SagaFrame DEF ExclusiveInv

\* A recovery loop sets a saga to executing or deletes one that rests.
LEMMA ExclusiveLoop ==
    ASSUME TypeOK, ExclusiveInv, NEW l \in Loops, LoopTransition(l) \/ LoopCleanup(l)
    PROVE  ExclusiveInv'
<1>1. /\ UNCHANGED <<step_state, result, locals>>
      /\ \A s \in Sagas : \/ saga_state'[s] = saga_state[s]
                          \/ ~Gone(s) /\ saga_state'[s] = "executing"
                          \/ saga_state[s] \in {"completed", "compensated"} /\ saga_state'[s] = "gone"
  <2>1. CASE LoopTransition(l)
    <3>1. PICK s \in batch[l] : \E o \in Outcomes : update_saga_state(s, "executing", o)
      BY <2>1 DEF LoopTransition
    <3>2. s \in Sagas
      BY <3>1 DEF TypeOK
    <3> QED
      BY <2>1, <3>1, <3>2, SagaRow DEF LoopTransition, Gone
  <2>2. CASE LoopCleanup(l)
    BY <2>2 DEF LoopCleanup, TypeOK
  <2> QED
    BY <2>1, <2>2
<1>2. ASSUME NEW s \in Sagas PROVE SagaOK(s)'
  BY <1>1 DEF ExclusiveInv, SagaOK, Effect, Undone, Gone
<1>3. ASSUME NEW w \in Workers PROVE Knows(w)'
  <2>1. Executes(w) /\ Compensates(w) /\ saga[w] \in Sagas
    BY DEF ExclusiveInv, Knows, TypeOK
  <2>2. Executes(w)'
    BY <1>1, <2>1 DEF Executes, locals, Effect, Gone
  <2>3. Compensates(w)'
    BY <1>1, <2>1 DEF Compensates, locals, Undone, Gone
  <2> QED
    BY <2>2, <2>3 DEF Knows
<1> QED
  BY <1>2, <1>3 DEF ExclusiveInv

LEMMA ExclusiveStep ==
    ASSUME TypeOK, ExclusiveInv, OneCallPerSaga, [Next]_vars
    PROVE  ExclusiveInv'
<1>1. ASSUME NEW u \in Workers, Work(u) \/ Crash(u) PROVE ExclusiveInv'
  BY <1>1, ExclusiveWork DEF TypeOK
<1>2. ASSUME UNCHANGED <<store, locals>> PROVE ExclusiveInv'
  BY <1>2 DEF store, locals, ExclusiveInv, SagaOK, Knows, Executes, Compensates, Effect, Undone, Gone
<1>3. ASSUME NEW l \in Loops, start_background_loop(l) \/ LoopCheck(l) \/ LoopLoad(l)
      PROVE  ExclusiveInv'
  BY <1>2, <1>3 DEF start_background_loop, LoopCheck, LoopLoad
<1>4. CASE stop_background_loop \/ UNCHANGED vars
  BY <1>2, <1>4 DEF stop_background_loop, vars
<1> QED
  BY <1>1, <1>3, <1>4, ExclusiveCall, ExclusiveLoop DEF Next, Iterate

LEMMA ExclusiveInvariant == Spec /\ []OneCallPerSaga => []ExclusiveInv
<1>1. Init => ExclusiveInv
  BY DEF Init, ExclusiveInv, SagaOK, Knows, Executes, Compensates, Gone
<1>2. TypeOK /\ ExclusiveInv /\ OneCallPerSaga /\ [Next]_vars => ExclusiveInv'
  BY ExclusiveStep
<1> QED
  BY <1>1, <1>2, TypeCorrect, PTL DEF Spec

(* While no two calls are on one saga at once, a completed saga keeps the  *)
(* effect of each of its steps, over faults, crashes, retries and whatever *)
(* the recovery loops set back to executing.                               *)
THEOREM CompletedIsKept == Spec /\ []OneCallPerSaga => []CompletedKept
<1>1. ExclusiveInv => CompletedKept
  BY DEF ExclusiveInv, SagaOK, CompletedKept, Effect
<1> QED
  BY <1>1, ExclusiveInvariant, PTL

(* Under the same condition a saga ends compensated only when each step    *)
(* that completed was undone, also when one step's compensation failed and *)
(* a later call took over.                                                 *)
THEOREM CompensatedIsClean == Spec /\ []OneCallPerSaga => []CompensatedClean
<1>1. ExclusiveInv => CompensatedClean
  BY DEF ExclusiveInv, SagaOK, CompensatedClean, Undone
<1> QED
  BY <1>1, ExclusiveInvariant, PTL

(* Under the same condition the cleanup of the recovery loops deletes no   *)
(* saga with a step that is neither kept nor undone.                       *)
THEOREM CleanupKeepsOrUndoes == Spec /\ []OneCallPerSaga => []CleanupLosesNothing
<1>1. ExclusiveInv => CleanupLosesNothing
  BY DEF ExclusiveInv, SagaOK, CleanupLosesNothing, Effect, Undone
<1> QED
  BY <1>1, ExclusiveInvariant, PTL

(* A server with a single worker never overlaps calls, so the condition    *)
(* holds there by itself.                                                  *)
COROLLARY OneWorkerSuffices ==
    ASSUME \A v, w \in Workers : v = w
    PROVE  Spec => [](CompletedKept /\ CompensatedClean /\ CleanupLosesNothing)
<1>1. OneCallPerSaga
  BY DEF OneCallPerSaga
<1> QED
  BY <1>1, CompletedIsKept, CompensatedIsClean, CleanupKeepsOrUndoes, PTL
=============================================================================
