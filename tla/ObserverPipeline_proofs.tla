------------------------ MODULE ObserverPipeline_proofs ------------------------
(***************************************************************************)
(* Proofs about the consuming workers, for any number of workers, messages *)
(* and actions: type correctness, one runner and one success per claim,    *)
(* the bound on the DLQ, and that no acknowledged event is dropped.  They  *)
(* are theorems about the specification of EventConsumer, in which anyone  *)
(* publishes.                                                              *)
(*                                                                         *)
(* The pipeline keeps what its parts promise: each of its behaviours is a  *)
(* behaviour of NatsBridge and one of EventConsumer, whose theorems then   *)
(* give the end-to-end guarantee.                                          *)
(***************************************************************************)
EXTENDS ObserverPipeline, FiniteSetTheorems, TLAPS

IsRunning(w) == pc[w] \in {"act", "push", "count", "unclaim"}

\* What the labels of a worker say of its message and its action.
WorkerOK(w) ==
    /\ pc[w] # "idle" => msg[w] \in Msgs
    /\ pc[w] = "idle" => msg[w] = 0
    /\ pc[w] \in {"push", "count"} => act[w] \in Actions
    /\ pc[w] = "act" => act[w] \in 1..NumActions + 1

LocalInv == TypeOK /\ \A w \in Workers : WorkerOK(w)

-----------------------------------------------------------------------------
(* Type correctness. *)

LEMMA LocalInit == Init => LocalInv
BY ConsumerAssumption DEF Init, LocalInv, TypeOK, WorkerOK, Actions, Msgs

LEMMA LeaveTypes ==
    ASSUME LocalInv, NEW w \in Workers, Leave(w)
    PROVE  /\ pc' \in [Workers -> {"idle", "ack", "raw", "claim", "act", "push", "count", "unclaim"}]
           /\ msg' \in [Workers -> Msgs \cup {0}]
           /\ act' \in [Workers -> 0..NumActions + 1]
           /\ attempt' \in [Workers -> 0..MaxAttempts - 1]
           /\ failed' \in [Workers -> BOOLEAN]
           /\ \A v \in Workers : WorkerOK(v)'
BY ConsumerAssumption DEF LocalInv, TypeOK, Leave, WorkerOK

LEMMA NextActionTypes ==
    ASSUME LocalInv, NEW w \in Workers, act[w] \in Actions, pc[w] # "idle", NextAction(w), msg' = msg
    PROVE  /\ pc' \in [Workers -> {"idle", "ack", "raw", "claim", "act", "push", "count", "unclaim"}]
           /\ act' \in [Workers -> 0..NumActions + 1]
           /\ attempt' \in [Workers -> 0..MaxAttempts - 1]
           /\ \A v \in Workers : WorkerOK(v)'
BY ConsumerAssumption DEF LocalInv, TypeOK, NextAction, Goto, WorkerOK, Actions

\* One more success of the worker's action.
LEMMA RunsAfter ==
    ASSUME TypeOK, NEW w \in Workers, msg[w] \in Msgs, act[w] \in Actions, ActionSucceeds(w)
    PROVE  /\ runs' \in [Msgs -> [Actions -> 0..2]]
           /\ \A n \in Msgs, b \in Actions :
                n # msg[w] \/ b # act[w] => runs'[n][b] = runs[n][b]
           /\ runs[msg[w]][act[w]] = 0 => runs'[msg[w]][act[w]] = 1
<1> DEFINE m == msg[w]
           a == act[w]
           x == IF runs[m][a] < 2 THEN runs[m][a] + 1 ELSE 2
           f == [runs[m] EXCEPT ![a] = x]
<1>1. runs \in [Msgs -> [Actions -> 0..2]] /\ runs[m] \in [Actions -> 0..2] /\ runs[m][a] \in 0..2
    BY DEF TypeOK
<1>2. x \in 0..2 /\ (runs[m][a] = 0 => x = 1)
    BY <1>1
<1>3. f \in [Actions -> 0..2] /\ f[a] = x /\ \A b \in Actions : b # a => f[b] = runs[m][b]
    BY <1>1, <1>2
<1>4. runs' = [runs EXCEPT ![m] = f]
    BY DEF ActionSucceeds
<1>5. m \in Msgs /\ a \in Actions
    OBVIOUS
<1> HIDE DEF f, x, m, a
<1>6. /\ runs' \in [Msgs -> [Actions -> 0..2]]
      /\ \A n \in Msgs, b \in Actions : n # m \/ b # a => runs'[n][b] = runs[n][b]
      /\ runs[m][a] = 0 => runs'[m][a] = 1
    BY <1>1, <1>2, <1>3, <1>4, <1>5
<1> QED
    BY <1>6 DEF m, a

LEMMA LocalWork ==
    ASSUME LocalInv, NEW w \in Workers, Work(w)
    PROVE  LocalInv'
<1>0. WorkerOK(w) /\ TypeOK
    BY DEF LocalInv
<1>1. ASSUME NEW m \in Msgs, Deliver(w, m)
      PROVE  LocalInv'
    BY <1>1 DEF Deliver, Goto, LocalInv, TypeOK, WorkerOK, history
<1>2. CASE Ack(w) \/ AckFails(w)
    <2>1. msg[w] \in Msgs /\ acked' \subseteq Msgs /\ UNCHANGED <<stream, claims, pushCount>>
        BY <1>0, <1>2 DEF Ack, AckFails, Yield, WorkerOK, TypeOK
    <2>2. CASE Finish(w) /\ UNCHANGED <<pushed, unconfirmed, runs, lapsed, interrupted>>
        BY <1>0, <2>1, <2>2, LeaveTypes DEF Finish, LocalInv, TypeOK
    <2>3. CASE Goto(w, "raw") /\ UNCHANGED <<msg, act, attempt, failed, history>>
        BY <1>0, <2>1, <2>3 DEF Goto, LocalInv, TypeOK, WorkerOK, history
    <2>4. CASE Goto(w, "claim") /\ UNCHANGED <<msg, act, attempt, failed, history>>
        BY <1>0, <2>1, <2>4 DEF Goto, LocalInv, TypeOK, WorkerOK, history
    <2> QED
        BY <1>2, <2>2, <2>3, <2>4 DEF Ack, AckFails, Yield
<1>3. CASE PushRaw(w)
    BY <1>0, <1>3, LeaveTypes DEF PushRaw, Finish, LocalInv, TypeOK, WorkerOK
<1>4. CASE Claim(w)
    <2>1. msg[w] \in Msgs
        BY <1>0, <1>4 DEF Claim, WorkerOK
    <2>2. runs' \in [Msgs -> [Actions -> 0..2]]
        BY <1>0, <1>4, <2>1 DEF Claim, TypeOK
    <2> QED
        BY <1>0, <1>4, <2>1, <2>2, ConsumerAssumption
           DEF Claim, Goto, LocalInv, TypeOK, WorkerOK, Actions
<1>5. CASE Duplicate(w)
    BY <1>0, <1>5, LeaveTypes DEF Duplicate, LocalInv, TypeOK, history
<1>6. CASE ClaimFails(w)
    BY <1>0, <1>6, ConsumerAssumption DEF ClaimFails, Goto, LocalInv, TypeOK, WorkerOK, Actions
<1>7. CASE SkipAction(w)
    BY <1>0, <1>7, NextActionTypes DEF SkipAction, LocalInv, TypeOK, history
<1>8. CASE ActionSucceeds(w)
    <2>1. msg[w] \in Msgs /\ act[w] \in Actions
        BY <1>0, <1>8 DEF ActionSucceeds, Attempts, WorkerOK
    <2>2. runs' \in [Msgs -> [Actions -> 0..2]]
        BY <1>0, <1>8, <2>1, RunsAfter
    <2> QED
        BY <1>0, <1>8, <2>1, <2>2, NextActionTypes DEF ActionSucceeds, Attempts, LocalInv, TypeOK
<1>9. CASE Retry(w)
    BY <1>0, <1>9, ConsumerAssumption DEF Retry, Attempts, LocalInv, TypeOK, WorkerOK, history
<1>10. CASE ActionFails(w)
    <2>1. failed' \in [Workers -> BOOLEAN] /\ act[w] \in Actions /\ pc[w] = "act"
        BY <1>0, <1>10 DEF ActionFails, Attempts, TypeOK
    <2>2. CASE Goto(w, "push") /\ UNCHANGED <<act, attempt>>
        BY <1>0, <1>10, <2>1, <2>2 DEF ActionFails, Goto, LocalInv, TypeOK, WorkerOK, history
    <2>3. CASE NextAction(w)
        BY <1>0, <1>10, <2>1, <2>3, NextActionTypes DEF ActionFails, LocalInv, TypeOK, history
    <2> QED
        BY <1>10, <2>2, <2>3 DEF ActionFails
<1>11. CASE PushDlq(w)
    BY <1>0, <1>11 DEF PushDlq, Goto, LocalInv, TypeOK, WorkerOK
<1>12. CASE PushDlqFails(w)
    <2>1. pushed' \in Nat /\ unconfirmed' \in 0..MaxUnconfirmed
        BY <1>0, <1>12, ConsumerAssumption DEF PushDlqFails, TypeOK
    <2> QED
        BY <1>0, <1>12, <2>1, NextActionTypes DEF PushDlqFails, LocalInv, TypeOK, WorkerOK
<1>13. CASE CountPush(w)
    BY <1>0, <1>13, NextActionTypes DEF CountPush, LocalInv, TypeOK, WorkerOK, history
<1>14. CASE ActionsDone(w)
    <2>1. CASE Goto(w, "unclaim") /\ UNCHANGED <<msg, act, attempt, failed, finished>>
        BY <1>0, <1>14, <2>1 DEF ActionsDone, Goto, LocalInv, TypeOK, WorkerOK
    <2>2. CASE Finish(w)
        BY <1>0, <1>14, <2>2, LeaveTypes DEF ActionsDone, Finish, LocalInv, TypeOK, WorkerOK
    <2> QED
        BY <1>14, <2>1, <2>2 DEF ActionsDone
<1>15. CASE Unclaim(w)
    BY <1>0, <1>15, LeaveTypes DEF Unclaim, Finish, LocalInv, TypeOK, WorkerOK
<1> QED
    BY <1>1, <1>2, <1>3, <1>4, <1>5, <1>6, <1>7, <1>8, <1>9, <1>10, <1>11, <1>12, <1>13, <1>14,
       <1>15 DEF Work

LEMMA LocalStep == LocalInv /\ [Next]_cvars => LocalInv'
<1> SUFFICES ASSUME LocalInv, [Next]_cvars
             PROVE  LocalInv'
    OBVIOUS
<1>1. ASSUME NEW w \in Workers, Work(w)
      PROVE  LocalInv'
    BY <1>1, LocalWork
<1>2. ASSUME NEW m \in Msgs, Expire(m)
      PROVE  LocalInv'
    BY <1>2 DEF Expire, LocalInv, TypeOK, WorkerOK, worker
<1>3. CASE Crash
    <2>1. interrupted' \subseteq Msgs
        BY <1>3 DEF Crash, LocalInv, TypeOK, WorkerOK
    <2> QED
        BY <1>3, <2>1, ConsumerAssumption DEF Crash, LocalInv, TypeOK, WorkerOK
<1>4. ASSUME NEW e \in Events, Publish(e)
      PROVE  LocalInv'
    BY <1>4, ConsumerAssumption DEF Publish, LocalInv, TypeOK, WorkerOK, worker, history
<1>5. CASE UNCHANGED cvars
    BY <1>5 DEF cvars, LocalInv, TypeOK, WorkerOK, worker, history
<1> QED
    BY <1>1, <1>2, <1>3, <1>4, <1>5 DEF Next, ConsumerNext

LEMMA LocalHolds == Spec => []LocalInv
BY LocalInit, LocalStep, PTL DEF Spec

\* Type correctness of the consumer, the dedup store and the workers.
THEOREM TypeCorrect == Spec => []TypeOK
<1>1. LocalInv => TypeOK
    BY DEF LocalInv
<1> QED
    BY <1>1, LocalHolds, PTL

-----------------------------------------------------------------------------
(***************************************************************************)
(* Claims.  OneRunner and OncePerClaim are not inductive: they need that a *)
(* worker that runs a message whose claim has not lapsed still holds the   *)
(* key, and that the actions it has yet to reach have not succeeded.       *)
(***************************************************************************)

ClaimHeld(w) ==
    IsRunning(w) /\ msg[w] \notin lapsed =>
        /\ msg[w] \in claims
        /\ \A v \in Workers : IsRunning(v) /\ msg[v] = msg[w] => v = w
        /\ \A a \in Actions : a >= act[w] => runs[msg[w]][a] = 0

ClaimInv == (\A w \in Workers : ClaimHeld(w)) /\ OncePerClaim

LEMMA ClaimInit == Init => ClaimInv
BY ConsumerAssumption DEF Init, ClaimInv, ClaimHeld, IsRunning, OncePerClaim

\* The other workers stand still.
Others(w) ==
    \A v \in Workers \ {w} : pc'[v] = pc[v] /\ msg'[v] = msg[v] /\ act'[v] = act[v]

LEMMA WorkIsLocal ==
    ASSUME LocalInv, NEW w \in Workers, Work(w)
    PROVE  Others(w)
BY DEF LocalInv, TypeOK, Others, Work, Deliver, Ack, AckFails, Yield, PushRaw, Claim, Duplicate,
    ClaimFails, SkipAction, ActionSucceeds, Retry, ActionFails, PushDlq, PushDlqFails, CountPush,
    ActionsDone, Unclaim, NextAction, Goto, Leave, Finish

\* A step after which the worker runs nothing, or runs the same message at the
\* same or a later action.
LEMMA ClaimQuiet ==
    ASSUME LocalInv, LocalInv', ClaimInv, NEW w \in Workers, Others(w),
           UNCHANGED <<claims, runs, lapsed>>,
           IsRunning(w)' => IsRunning(w) /\ msg'[w] = msg[w] /\ act'[w] >= act[w]
    PROVE  ClaimInv'
<1>1. ASSUME NEW v \in Workers
      PROVE  ClaimHeld(v)'
    <2>1. IsRunning(v)' => IsRunning(v) /\ msg'[v] = msg[v] /\ act'[v] >= act[v]
        BY DEF Others, IsRunning, LocalInv, TypeOK
    <2>2. \A u \in Workers : IsRunning(u)' => IsRunning(u) /\ msg'[u] = msg[u]
        BY DEF Others, IsRunning
    <2>3. act[v] \in Nat /\ act'[v] \in Nat /\ \A a \in Actions : a \in Nat
        BY ConsumerAssumption DEF LocalInv, TypeOK, Actions
    <2>4. IsRunning(v)' => \A a \in Actions : a >= act'[v] => a >= act[v]
        BY <2>1, <2>3, SMT
    <2> QED
        BY <2>1, <2>2, <2>4 DEF ClaimInv, ClaimHeld
<1>2. OncePerClaim'
    BY DEF ClaimInv, OncePerClaim
<1> QED
    BY <1>1, <1>2 DEF ClaimInv

LEMMA ClaimWork ==
    ASSUME LocalInv, LocalInv', ClaimInv, NEW w \in Workers, Work(w)
    PROVE  ClaimInv'
<1>0. WorkerOK(w) /\ TypeOK /\ Others(w)
    BY WorkIsLocal DEF LocalInv
<1>1. CASE /\ UNCHANGED <<claims, runs, lapsed>>
           /\ IsRunning(w)' => IsRunning(w) /\ msg'[w] = msg[w] /\ act'[w] >= act[w]
    BY <1>0, <1>1, ClaimQuiet
<1>2. ASSUME NEW m \in Msgs, Deliver(w, m)
      PROVE  ClaimInv'
    BY <1>0, <1>1, <1>2 DEF Deliver, Goto, IsRunning, TypeOK, history
<1>3. CASE Ack(w) \/ AckFails(w)
    <2>1. pc'[w] \in {"idle", "raw", "claim"}
        BY <1>0, <1>3 DEF Ack, AckFails, Yield, Finish, Leave, Goto, TypeOK
    <2> QED
        BY <1>1, <1>3, <2>1 DEF Ack, AckFails, Yield, IsRunning, Finish, history
<1>4. CASE PushRaw(w) \/ Duplicate(w)
    BY <1>0, <1>1, <1>4 DEF PushRaw, Duplicate, Finish, Leave, IsRunning, TypeOK, history
<1>5. CASE Claim(w)
    <2>1. /\ msg[w] \in Msgs /\ msg[w] \notin claims /\ claims' = claims \cup {msg[w]}
          /\ pc'[w] = "act" /\ act'[w] = 1 /\ msg' = msg /\ lapsed' = lapsed
          /\ runs'[msg[w]] = [a \in Actions |-> 0]
          /\ \A n \in Msgs : n # msg[w] => runs'[n] = runs[n]
        BY <1>0, <1>5 DEF Claim, Goto, WorkerOK, TypeOK
    <2>2. ASSUME NEW v \in Workers, v # w, IsRunning(v), msg[v] = msg[w]
          PROVE  msg[w] \in lapsed
        BY <2>1, <2>2 DEF ClaimInv, ClaimHeld
    <2>3. ASSUME NEW v \in Workers
          PROVE  ClaimHeld(v)'
        <3>1. CASE v = w
            BY <1>0, <2>1, <2>2, <3>1 DEF ClaimHeld, Others, IsRunning
        <3>2. CASE v # w
            <4>1. ASSUME IsRunning(v), msg[v] \notin lapsed
                  PROVE  msg[v] # msg[w] /\ msg[v] \in Msgs
                BY <2>2, <3>2, <4>1 DEF LocalInv, WorkerOK, IsRunning
            <4> QED
                BY <1>0, <2>1, <3>2, <4>1 DEF ClaimInv, ClaimHeld, Others, IsRunning
        <3> QED
            BY <3>1, <3>2
    <2>4. OncePerClaim'
        BY <2>1 DEF ClaimInv, OncePerClaim
    <2> QED
        BY <2>3, <2>4 DEF ClaimInv
<1>6. CASE ClaimFails(w)
    <2>1. /\ claims \subseteq claims' /\ pc[w] = "claim"
          /\ msg' = msg /\ lapsed' = lapsed \cup {msg[w]} /\ runs' = runs
        BY <1>6 DEF ClaimFails
    <2>2. ASSUME NEW v \in Workers
          PROVE  ClaimHeld(v)'
        <3>1. CASE v = w
            BY <2>1, <3>1 DEF ClaimHeld
        <3>2. CASE v # w
            BY <1>0, <2>1, <3>2 DEF ClaimInv, ClaimHeld, Others, IsRunning
        <3> QED
            BY <3>1, <3>2
    <2>3. OncePerClaim'
        BY <2>1 DEF ClaimInv, OncePerClaim
    <2> QED
        BY <2>2, <2>3 DEF ClaimInv
<1>7. CASE SkipAction(w) \/ PushDlqFails(w) \/ CountPush(w)
    <2>1. act[w] \in Actions /\ act'[w] = act[w] + 1 /\ IsRunning(w) /\ msg' = msg
        BY <1>0, <1>7 DEF SkipAction, PushDlqFails, CountPush, NextAction, Goto, IsRunning, TypeOK,
            WorkerOK
    <2>2. act'[w] >= act[w]
        BY <2>1, ConsumerAssumption DEF Actions
    <2> QED
        BY <1>1, <1>7, <2>1, <2>2 DEF SkipAction, PushDlqFails, CountPush, history
<1>8. CASE ActionSucceeds(w)
    <2>1. /\ msg[w] \in Msgs /\ act[w] \in Actions /\ act'[w] = act[w] + 1 /\ pc[w] = "act"
          /\ msg' = msg /\ UNCHANGED <<claims, lapsed>> /\ pc'[w] = "act"
        BY <1>0, <1>8 DEF ActionSucceeds, Attempts, NextAction, Goto, TypeOK, WorkerOK
    <2>2. /\ \A n \in Msgs, b \in Actions :
                n # msg[w] \/ b # act[w] => runs'[n][b] = runs[n][b]
          /\ runs[msg[w]][act[w]] = 0 => runs'[msg[w]][act[w]] = 1
        BY <1>0, <1>8, <2>1, RunsAfter
    <2>3. Actions \subseteq Nat /\ act[w] \in Nat
        BY <2>1, ConsumerAssumption DEF Actions
    <2>4. ASSUME NEW v \in Workers
          PROVE  ClaimHeld(v)'
        <3>1. CASE v = w
            <4>1. \A a, b \in Nat : a >= b + 1 => a # b /\ a >= b
                OBVIOUS
            <4>2. ClaimHeld(w)
                BY DEF ClaimInv
            <4>3. ASSUME NEW a \in Actions, a >= act'[w]
                  PROVE  runs'[msg[w]][a] = runs[msg[w]][a] /\ a >= act[w]
                BY <2>1, <2>2, <2>3, <4>1, <4>3
            <4> QED
                BY <1>0, <2>1, <3>1, <4>2, <4>3 DEF ClaimHeld, Others, IsRunning
        <3>2. CASE v # w
            <4>1. ASSUME IsRunning(v), msg[v] \notin lapsed
                  PROVE  msg[v] # msg[w] /\ msg[v] \in Msgs
                BY <2>1, <3>2, <4>1 DEF LocalInv, WorkerOK, IsRunning, ClaimInv, ClaimHeld
            <4> QED
                BY <1>0, <2>1, <2>2, <3>2, <4>1 DEF ClaimInv, ClaimHeld, Others, IsRunning
        <3> QED
            BY <3>1, <3>2
    <2>5. msg[w] \notin lapsed => runs[msg[w]][act[w]] = 0
        <3>1. act[w] >= act[w]
            BY <2>3
        <3> QED
            BY <2>1, <3>1 DEF ClaimInv, ClaimHeld, IsRunning
    <2>6. OncePerClaim'
        BY <2>1, <2>2, <2>5 DEF ClaimInv, OncePerClaim
    <2> QED
        BY <2>4, <2>6 DEF ClaimInv
<1>9. CASE Retry(w) \/ PushDlq(w)
    <2>1. act'[w] >= act[w]
        BY <1>0, <1>9 DEF Retry, PushDlq, TypeOK
    <2> QED
        BY <1>0, <1>1, <1>9, <2>1 DEF Retry, PushDlq, Attempts, Goto, IsRunning, TypeOK, history
<1>10. CASE ActionFails(w)
    <2>1. IsRunning(w) /\ act[w] \in Actions /\ msg' = msg
            /\ (act'[w] = act[w] \/ act'[w] = act[w] + 1)
        BY <1>0, <1>10 DEF ActionFails, Attempts, NextAction, Goto, IsRunning, TypeOK
    <2>2. act'[w] >= act[w]
        BY <2>1, ConsumerAssumption DEF Actions
    <2> QED
        BY <1>1, <1>10, <2>1, <2>2 DEF ActionFails, history
<1>11. CASE ActionsDone(w)
    <2>1. pc'[w] = "idle" \/ (act' = act /\ msg' = msg)
        <3>1. CASE Finish(w)
            BY <1>0, <3>1 DEF Finish, Leave, TypeOK
        <3>2. CASE ~Finish(w)
            BY <1>11, <3>2 DEF ActionsDone
        <3> QED
            BY <3>1, <3>2
    <2>2. act[w] >= act[w]
        BY <1>0 DEF TypeOK
    <2> QED
        BY <1>1, <1>11, <2>1, <2>2 DEF ActionsDone, IsRunning
<1>12. CASE Unclaim(w)
    <2>1. /\ pc'[w] = "idle" /\ UNCHANGED <<runs, lapsed>> /\ IsRunning(w)
          /\ claims \ {msg[w]} \subseteq claims'
        BY <1>0, <1>12 DEF Unclaim, Finish, Leave, IsRunning, TypeOK
    <2>2. ASSUME NEW v \in Workers, v # w, IsRunning(v), msg[v] \notin lapsed
          PROVE  msg[v] # msg[w]
        BY <2>1, <2>2 DEF ClaimInv, ClaimHeld
    <2>3. ASSUME NEW v \in Workers
          PROVE  ClaimHeld(v)'
        BY <1>0, <2>1, <2>2 DEF ClaimInv, ClaimHeld, Others, IsRunning
    <2>4. OncePerClaim'
        BY <2>1 DEF ClaimInv, OncePerClaim
    <2> QED
        BY <2>3, <2>4 DEF ClaimInv
<1> QED
    BY <1>2, <1>3, <1>4, <1>5, <1>6, <1>7, <1>8, <1>9, <1>10, <1>11, <1>12 DEF Work

LEMMA ClaimStep == LocalInv /\ LocalInv' /\ ClaimInv /\ [Next]_cvars => ClaimInv'
<1> SUFFICES ASSUME LocalInv, LocalInv', ClaimInv, [Next]_cvars
             PROVE  ClaimInv'
    OBVIOUS
<1>1. ASSUME NEW w \in Workers, Work(w)
      PROVE  ClaimInv'
    BY <1>1, ClaimWork
<1>2. ASSUME NEW m \in Msgs, Expire(m)
      PROVE  ClaimInv'
    <2>1. \A w \in Workers : IsRunning(w) /\ msg[w] = m => m \in lapsed'
        BY <1>2 DEF Expire, Running, IsRunning
    <2> QED
        BY <1>2, <2>1 DEF Expire, ClaimInv, ClaimHeld, IsRunning, OncePerClaim, worker
<1>3. CASE Crash
    <2>1. \A w \in Workers : pc'[w] = "idle"
        BY <1>3 DEF Crash
    <2> QED
        BY <1>3, <2>1 DEF Crash, ClaimInv, ClaimHeld, IsRunning, OncePerClaim
<1>4. CASE UNCHANGED <<claims, worker, history>>
    BY <1>4 DEF ClaimInv, ClaimHeld, IsRunning, OncePerClaim, worker, history
<1> QED
    BY <1>1, <1>2, <1>3, <1>4 DEF Next, ConsumerNext, Publish, cvars

LEMMA ClaimHolds == Spec => []ClaimInv
BY LocalHolds, ClaimInit, ClaimStep, PTL DEF Spec

\* Whatever is delivered again, an action of an event succeeds at most once
\* under a claim that did not lapse.
THEOREM OneSuccessPerClaim == Spec => []OncePerClaim
<1>1. ClaimInv => OncePerClaim
    BY DEF ClaimInv
<1> QED
    BY <1>1, ClaimHolds, PTL

\* The claim keeps two workers from running one event together.
THEOREM OneRunnerPerClaim == Spec => []OneRunner
<1>1. ASSUME ClaimInv, NEW m \in Msgs \ lapsed
      PROVE  Cardinality(Running(m)) <= 1
    <2>1. CASE Running(m) = {}
        BY <2>1, FS_EmptySet
    <2>2. CASE \E w \in Workers : w \in Running(m)
        <3>1. PICK w \in Workers : w \in Running(m)
            BY <2>2
        <3>2. Running(m) = {w}
            BY <1>1, <3>1 DEF Running, ClaimInv, ClaimHeld, IsRunning
        <3> QED
            BY <3>2, FS_Singleton
    <2> QED
        BY <2>1, <2>2 DEF Running
<1>2. ClaimInv => OneRunner
    BY <1>1 DEF OneRunner
<1> QED
    BY <1>2, ClaimHolds, PTL

-----------------------------------------------------------------------------
(***************************************************************************)
(* Nothing acknowledged is dropped.  A duplicate leaves without a trace,   *)
(* so the claim it met must stand for a worker that is still running the   *)
(* event, for one that finished it or for one that crashed.                *)
(***************************************************************************)

Over(m) == m \in finished \cup interrupted

DropInv ==
    /\ \A m \in acked : Over(m) \/ \E w \in Workers : msg[w] = m
    /\ \A m \in claims : Over(m) \/ \E w \in Workers : IsRunning(w) /\ msg[w] = m

\* The worker keeps its message.
LEMMA DropKeep ==
    ASSUME LocalInv, LocalInv', DropInv, NEW w \in Workers, Others(w),
           UNCHANGED <<msg, finished, interrupted>>,
           acked' \subseteq acked \cup {msg[w]},
           claims' \subseteq claims \cup {msg[w]},
           IsRunning(w) \/ msg[w] \in claims' \ claims => IsRunning(w)'
    PROVE  DropInv'
<1>1. ASSUME NEW m \in acked'
      PROVE  Over(m)' \/ \E v \in Workers : msg'[v] = m
    BY <1>1 DEF DropInv, Over
<1>2. ASSUME NEW m \in claims'
      PROVE  Over(m)' \/ \E v \in Workers : IsRunning(v)' /\ msg'[v] = m
    BY <1>2 DEF DropInv, Over, Others, IsRunning
<1> QED
    BY <1>1, <1>2 DEF DropInv

\* The worker is done with a message that was handled to its end, or that
\* another worker is running.
LEMMA DropLeave ==
    ASSUME LocalInv, LocalInv', DropInv, NEW w \in Workers, Others(w), Leave(w),
           finished \subseteq finished', interrupted \subseteq interrupted',
           acked' \subseteq acked \cup {msg[w]},
           claims' \subseteq claims,
           \/ msg[w] \in finished' \cup interrupted'
           \/ \E v \in Workers \ {w} : IsRunning(v) /\ msg[v] = msg[w]
    PROVE  DropInv'
<1>1. \A v \in Workers \ {w} : msg'[v] = msg[v] /\ pc'[v] = pc[v]
    BY DEF Others
<1>2. ASSUME NEW m \in acked'
      PROVE  Over(m)' \/ \E v \in Workers : msg'[v] = m
    BY <1>1, <1>2 DEF DropInv, Over
<1>3. ASSUME NEW m \in claims'
      PROVE  Over(m)' \/ \E v \in Workers : IsRunning(v)' /\ msg'[v] = m
    BY <1>1, <1>3 DEF DropInv, Over, IsRunning
<1> QED
    BY <1>2, <1>3 DEF DropInv

LEMMA DropWork ==
    ASSUME LocalInv, LocalInv', DropInv, NEW w \in Workers, Work(w)
    PROVE  DropInv'
<1>0. WorkerOK(w) /\ TypeOK /\ Others(w)
    BY WorkIsLocal DEF LocalInv
<1>1. ASSUME NEW m \in Msgs, Deliver(w, m)
      PROVE  DropInv'
    <2>1. msg[w] = 0 /\ 0 \notin Msgs /\ ~IsRunning(w) /\ \A v \in Workers \ {w} : msg'[v] = msg[v] /\ pc'[v] = pc[v]
        BY <1>0, <1>1, ConsumerAssumption DEF Deliver, WorkerOK, Msgs, IsRunning, Others
    <2>2. ASSUME NEW n \in acked
          PROVE  Over(n)' \/ \E v \in Workers : msg'[v] = n
        BY <1>0, <1>1, <2>1, <2>2 DEF Deliver, DropInv, Over, TypeOK, history
    <2>3. ASSUME NEW n \in claims
          PROVE  Over(n)' \/ \E v \in Workers : IsRunning(v)' /\ msg'[v] = n
        BY <1>1, <2>1, <2>3 DEF Deliver, DropInv, Over, IsRunning, history
    <2> QED
        BY <1>1, <2>2, <2>3 DEF DropInv, Deliver
<1>2. CASE Ack(w) \/ AckFails(w)
    <2>1. acked' \subseteq acked \cup {msg[w]} /\ claims' = claims /\ ~IsRunning(w)
        BY <1>2 DEF Ack, AckFails, Yield, IsRunning
    <2>2. CASE Finish(w) /\ UNCHANGED interrupted
        BY <1>0, <2>1, <2>2, DropLeave DEF Finish
    <2>3. CASE UNCHANGED <<msg, finished, interrupted>>
        BY <1>0, <2>1, <2>3, DropKeep
    <2> QED
        BY <1>2, <2>2, <2>3 DEF Ack, AckFails, Yield, history
<1>3. CASE PushRaw(w) \/ Unclaim(w)
    BY <1>0, <1>3, DropLeave DEF PushRaw, Unclaim, Finish
<1>4. CASE Duplicate(w)
    <2>1. Over(msg[w]) \/ \E v \in Workers \ {w} : IsRunning(v) /\ msg[v] = msg[w]
        BY <1>4 DEF Duplicate, DropInv, IsRunning
    <2> QED
        BY <1>0, <1>4, <2>1, DropLeave DEF Duplicate, Over, history
<1>5. CASE Claim(w) \/ ClaimFails(w)
    <2>1. IsRunning(w)'
        BY <1>0, <1>5 DEF Claim, ClaimFails, Goto, IsRunning, TypeOK
    <2> QED
        BY <1>0, <1>5, <2>1, DropKeep DEF Claim, ClaimFails
<1>6. CASE SkipAction(w) \/ ActionSucceeds(w) \/ Retry(w) \/ PushDlq(w) \/ PushDlqFails(w) \/ CountPush(w)
    <2>1. IsRunning(w)'
        BY <1>0, <1>6 DEF SkipAction, ActionSucceeds, Retry, Attempts, PushDlq, PushDlqFails,
            CountPush, NextAction, Goto, IsRunning, TypeOK
    <2> QED
        BY <1>0, <1>6, <2>1, DropKeep DEF SkipAction, ActionSucceeds, Retry, PushDlq, PushDlqFails,
            CountPush, history
<1>7. CASE ActionFails(w)
    <2>1. IsRunning(w)'
        BY <1>0, <1>7 DEF ActionFails, NextAction, Goto, IsRunning, TypeOK
    <2> QED
        BY <1>0, <1>7, <2>1, DropKeep DEF ActionFails, history
<1>8. CASE ActionsDone(w)
    <2>1. CASE Finish(w)
        BY <1>0, <1>8, <2>1, DropLeave DEF ActionsDone, Finish
    <2>2. CASE Goto(w, "unclaim") /\ UNCHANGED <<msg, act, attempt, failed, finished>>
        <3>1. IsRunning(w)'
            BY <1>0, <2>2 DEF Goto, IsRunning, TypeOK
        <3> QED
            BY <1>0, <1>8, <2>2, <3>1, DropKeep DEF ActionsDone
    <2> QED
        BY <1>8, <2>1, <2>2 DEF ActionsDone
<1> QED
    BY <1>1, <1>2, <1>3, <1>4, <1>5, <1>6, <1>7, <1>8 DEF Work

LEMMA DropStep == LocalInv /\ LocalInv' /\ DropInv /\ [Next]_cvars => DropInv'
<1> SUFFICES ASSUME LocalInv, LocalInv', DropInv, [Next]_cvars
             PROVE  DropInv'
    OBVIOUS
<1>1. ASSUME NEW w \in Workers, Work(w)
      PROVE  DropInv'
    BY <1>1, DropWork
<1>2. ASSUME NEW m \in Msgs, Expire(m)
      PROVE  DropInv'
    BY <1>2 DEF Expire, DropInv, Over, IsRunning, worker
<1>3. CASE Crash
    <2>1. \A w \in Workers : msg[w] # 0 => msg[w] \in interrupted'
        BY <1>3 DEF Crash, LocalInv, WorkerOK
    <2>2. 0 \notin acked /\ 0 \notin claims
        BY ConsumerAssumption DEF LocalInv, TypeOK, Msgs
    <2> QED
        BY <1>3, <2>1, <2>2 DEF Crash, DropInv, Over
<1>4. CASE UNCHANGED <<acked, claims, worker, history>>
    BY <1>4 DEF DropInv, Over, IsRunning, worker, history
<1> QED
    BY <1>1, <1>2, <1>3, <1>4 DEF Next, ConsumerNext, Publish, cvars

\* An acknowledged event that no worker is handling was handled to its end
\* unless a crash interrupted it.
THEOREM NothingDropped == Spec => []NoneDropped
<1>1. Init => DropInv
    BY DEF Init, DropInv
<1>2. DropInv => NoneDropped
    BY DEF DropInv, Over, NoneDropped
<1> QED
    BY <1>1, <1>2, DropStep, LocalHolds, PTL DEF Spec

-----------------------------------------------------------------------------
(***************************************************************************)
(* The bound on the DLQ counts the workers that are past the check of the  *)
(* cap and have not counted their push.                                    *)
(***************************************************************************)

Pushing == {w \in Workers : pc[w] \in {"push", "count"}}
Counting == {w \in Workers : pc[w] = "count"}

DlqInv ==
    /\ pushed = pushCount + Cardinality(Counting) + unconfirmed
    /\ pushCount + Cardinality(Pushing) <= MaxDlq + Cardinality(Workers) - 1

LEMMA DlqSets ==
    /\ IsFiniteSet(Pushing) /\ Cardinality(Pushing) \in Nat
    /\ Cardinality(Pushing) <= Cardinality(Workers)
    /\ Cardinality(Workers) \in Nat
    /\ IsFiniteSet(Counting) /\ Cardinality(Counting) \in Nat
    /\ Cardinality(Counting) <= Cardinality(Pushing)
<1>1. IsFiniteSet(Workers) /\ Pushing \subseteq Workers /\ Counting \subseteq Pushing
    BY ConsumerAssumption DEF Pushing, Counting
<1>2. IsFiniteSet(Pushing) /\ Cardinality(Pushing) <= Cardinality(Workers)
    BY <1>1, FS_Subset
<1>3. IsFiniteSet(Counting) /\ Cardinality(Counting) <= Cardinality(Pushing)
    BY <1>1, <1>2, FS_Subset
<1> QED
    BY <1>1, <1>2, <1>3, FS_CardinalityType

\* The worker neither enters nor leaves the two sets.
LEMMA DlqQuiet ==
    ASSUME LocalInv, DlqInv, NEW w \in Workers, Others(w),
           UNCHANGED <<pushCount, pushed, unconfirmed>>,
           pc[w] \notin {"push", "count"}, pc'[w] \notin {"push", "count"}
    PROVE  DlqInv'
<1>1. Pushing' = Pushing /\ Counting' = Counting
    BY DEF Pushing, Counting, Others
<1> QED
    BY <1>1 DEF DlqInv

LEMMA DlqWork ==
    ASSUME LocalInv, LocalInv', DlqInv, NEW w \in Workers, Work(w)
    PROVE  DlqInv'
<1>0. WorkerOK(w) /\ TypeOK /\ Others(w) /\ pushCount \in Nat /\ pushed \in Nat
        /\ unconfirmed \in Nat /\ MaxDlq \in Nat \ {0}
    BY WorkIsLocal, ConsumerAssumption DEF LocalInv, TypeOK
<1>1. CASE PushDlq(w)
    <2>1. Pushing' = Pushing /\ Counting' = Counting \cup {w} /\ w \notin Counting
            /\ pushed' = pushed + 1 /\ pushCount' = pushCount /\ unconfirmed' = unconfirmed
        BY <1>0, <1>1 DEF PushDlq, Goto, Pushing, Counting, Others, TypeOK
    <2>2. Cardinality(Counting') = Cardinality(Counting) + 1
        BY <2>1, DlqSets, FS_AddElement
    <2> QED
        BY <1>0, <2>1, <2>2, DlqSets DEF DlqInv
<1>2. CASE PushDlqFails(w)
    <2>1. Pushing' = Pushing \ {w} /\ Counting' = Counting /\ w \in Pushing
            /\ pushCount' = pushCount
        BY <1>0, <1>2 DEF PushDlqFails, NextAction, Goto, Pushing, Counting, Others, TypeOK
    <2>2. \/ UNCHANGED <<pushed, unconfirmed>>
          \/ pushed' = pushed + 1 /\ unconfirmed' = unconfirmed + 1
        BY <1>2 DEF PushDlqFails
    <2>3. Cardinality(Pushing') = Cardinality(Pushing) - 1
        BY <2>1, DlqSets, FS_RemoveElement
    <2> QED
        BY <1>0, <2>1, <2>2, <2>3, DlqSets DEF DlqInv
<1>3. CASE CountPush(w)
    <2>1. Pushing' = Pushing \ {w} /\ Counting' = Counting \ {w} /\ w \in Pushing /\ w \in Counting
            /\ pushed' = pushed /\ pushCount' = pushCount + 1 /\ unconfirmed' = unconfirmed
        BY <1>0, <1>3 DEF CountPush, NextAction, Goto, Pushing, Counting, Others, TypeOK, history
    <2>2. Cardinality(Pushing') = Cardinality(Pushing) - 1
            /\ Cardinality(Counting') = Cardinality(Counting) - 1
        BY <2>1, DlqSets, FS_RemoveElement
    <2> QED
        BY <1>0, <2>1, <2>2, DlqSets DEF DlqInv
<1>4. CASE ActionFails(w) /\ pc'[w] = "push"
    <2>1. Pushing' = Pushing \cup {w} /\ Counting' = Counting /\ w \notin Pushing
            /\ UNCHANGED <<pushed, unconfirmed, pushCount>>
        BY <1>0, <1>4 DEF ActionFails, Attempts, Pushing, Counting, Others, history
    <2>2. pushCount < MaxDlq
        BY <1>0, <1>4 DEF ActionFails, NextAction, Goto, TypeOK
    <2>3. Cardinality(Pushing') = Cardinality(Pushing) + 1
        BY <2>1, DlqSets, FS_AddElement
    <2>4. Cardinality(Pushing') <= Cardinality(Workers)
        <3>1. Pushing' \subseteq Workers
            BY DEF Pushing
        <3> QED
            BY <3>1, ConsumerAssumption, FS_Subset
    <2>5. pushed' = pushCount' + Cardinality(Counting') + unconfirmed'
        BY <2>1 DEF DlqInv
    <2>6. pushCount' + Cardinality(Pushing') <= MaxDlq + Cardinality(Workers) - 1
        BY <1>0, <2>1, <2>2, <2>3, <2>4, DlqSets
    <2> QED
        BY <2>5, <2>6 DEF DlqInv
<1>5. CASE ActionFails(w) /\ pc'[w] # "push"
    <2>1. pc[w] = "act" /\ pc'[w] = "act"
        BY <1>0, <1>5 DEF ActionFails, Attempts, NextAction, Goto, TypeOK
    <2> QED
        BY <1>0, <1>5, <2>1, DlqQuiet DEF ActionFails, history
<1>6. CASE Ack(w) \/ AckFails(w)
    <2>1. pc[w] = "ack" /\ pc'[w] \in {"idle", "raw", "claim"}
        BY <1>0, <1>6 DEF Ack, AckFails, Yield, Finish, Leave, Goto, TypeOK
    <2> QED
        BY <1>0, <1>6, <2>1, DlqQuiet DEF Ack, AckFails, Yield, Finish, history
<1>7. CASE ActionsDone(w)
    <2>1. pc[w] = "act" /\ pc'[w] \in {"idle", "unclaim"}
        BY <1>0, <1>7 DEF ActionsDone, Finish, Leave, Goto, TypeOK
    <2> QED
        BY <1>0, <1>7, <2>1, DlqQuiet DEF ActionsDone
<1>8. CASE \/ \E m \in Msgs : Deliver(w, m)
           \/ PushRaw(w) \/ Claim(w) \/ Duplicate(w) \/ ClaimFails(w)
           \/ SkipAction(w) \/ ActionSucceeds(w) \/ Retry(w) \/ Unclaim(w)
    <2>1. pc[w] \notin {"push", "count"} /\ pc'[w] \notin {"push", "count"}
        BY <1>0, <1>8 DEF Deliver, PushRaw, Claim, Duplicate, ClaimFails, SkipAction, ActionSucceeds,
            Retry, Attempts, Unclaim, Finish, Leave, NextAction, Goto, TypeOK
    <2>2. UNCHANGED <<pushCount, pushed, unconfirmed>>
        BY <1>8 DEF Deliver, PushRaw, Claim, Duplicate, ClaimFails, SkipAction, ActionSucceeds,
            Retry, Unclaim, history
    <2> QED
        BY <1>0, <2>1, <2>2, DlqQuiet
<1> QED
    BY <1>1, <1>2, <1>3, <1>4, <1>5, <1>6, <1>7, <1>8 DEF Work

LEMMA DlqStep == LocalInv /\ LocalInv' /\ DlqInv /\ [Next]_cvars => DlqInv'
<1> SUFFICES ASSUME LocalInv, LocalInv', DlqInv, [Next]_cvars
             PROVE  DlqInv'
    OBVIOUS
<1>1. ASSUME NEW w \in Workers, Work(w)
      PROVE  DlqInv'
    BY <1>1, DlqWork
<1>2. CASE Crash
    <2>1. Pushing' = {} /\ Counting' = {} /\ pushed' = 0 /\ pushCount' = 0 /\ unconfirmed' = 0
        BY <1>2 DEF Crash, Pushing, Counting
    <2> QED
        BY <2>1, FS_EmptySet, DlqSets, ConsumerAssumption DEF DlqInv
<1>3. CASE UNCHANGED <<pc, pushCount, pushed, unconfirmed>>
    <2>1. Pushing' = Pushing /\ Counting' = Counting
        BY <1>3 DEF Pushing, Counting
    <2> QED
        BY <1>3, <2>1 DEF DlqInv
<1> QED
    BY <1>1, <1>2, <1>3 DEF Next, ConsumerNext, Publish, Expire, cvars, worker, history

\* One process overruns the cap of the DLQ by less than its number of workers,
\* apart from the entries that are stored although their push returned an error.
THEOREM DlqIsBounded == Spec => []DlqBounded
<1>1. Init => DlqInv
    <2> SUFFICES ASSUME Init
                 PROVE  DlqInv
        OBVIOUS
    <2>1. Pushing = {} /\ Counting = {} /\ pushed = 0 /\ pushCount = 0 /\ unconfirmed = 0
        BY DEF Init, Pushing, Counting
    <2> QED
        BY <2>1, FS_EmptySet, DlqSets, ConsumerAssumption DEF DlqInv
<1>2. LocalInv /\ DlqInv => DlqBounded
    <2> SUFFICES ASSUME LocalInv, DlqInv
                 PROVE  DlqBounded
        OBVIOUS
    <2>1. pushCount \in Nat /\ MaxDlq \in Nat /\ unconfirmed \in Nat
        BY ConsumerAssumption DEF LocalInv, TypeOK
    <2> QED
        BY <2>1, DlqSets DEF DlqInv, DlqBounded
<1> QED
    BY <1>1, <1>2, DlqStep, LocalHolds, PTL DEF Spec

-----------------------------------------------------------------------------
(***************************************************************************)
(* The pipeline.                                                           *)
(***************************************************************************)

BP == INSTANCE NatsBridge_proofs WITH MaxPublish <- MaxMsg, pc <- bridgePc

-----------------------------------------------------------------------------
(* The bridge of ObserverPipeline is the one its theorems are about. *)

LEMMA SameFetch ==
    ASSUME NEW b
    PROVE  Bridge!fetch_batch_from_cursor(b) <=> BP!fetch_batch_from_cursor(b)
<1>1. Bridge!Readable(cursor[b]) = BP!Readable(cursor[b])
    BY DEF Bridge!Readable, BP!Readable, Bridge!Rows, BP!Rows
<1> DEFINE R == BP!Readable(cursor[b])
<1>2. \A B : Bridge!Cardinality(B) = BP!Cardinality(B)
    BY DEF Bridge!Cardinality, BP!Cardinality
<1>3. \A B : Bridge!IsBatch(B, R) <=> BP!IsBatch(B, R)
    BY <1>2 DEF Bridge!IsBatch, BP!IsBatch
<1> DEFINE Fetched(B) ==
            /\ bridgePc' = [bridgePc EXCEPT ![b] = IF B = {} THEN "wait" ELSE "entry"]
            /\ batch' = [batch EXCEPT ![b] = B]
            /\ stale' = [stale EXCEPT ![b] = B \cap marked]
            /\ passed' = passed \cup {i \in 1..MaxRow : row[i] = "open" /\ \E j \in B : i < j}
<1>4. Bridge!fetch_batch_from_cursor(b) <=>
        /\ bridgePc[b] = "fetch"
        /\ \E B \in SUBSET Bridge!Readable(cursor[b]) :
            Bridge!IsBatch(B, Bridge!Readable(cursor[b])) /\ Fetched(B)
        /\ UNCHANGED <<row, marked, checkpoint, stream, cursor>>
    BY DEF Bridge!fetch_batch_from_cursor, Bridge!Goto, Bridge!Rows
<1>5. BP!fetch_batch_from_cursor(b) <=>
        /\ bridgePc[b] = "fetch"
        /\ \E B \in SUBSET R : BP!IsBatch(B, R) /\ Fetched(B)
        /\ UNCHANGED <<row, marked, checkpoint, stream, cursor>>
    BY DEF BP!fetch_batch_from_cursor, BP!Goto, BP!Rows
<1> HIDE DEF Fetched, R
<1>6. Bridge!Readable(cursor[b]) = R
    BY <1>1 DEF R
<1> QED
    BY <1>3, <1>4, <1>5, <1>6

LEMMA SameBridge == Bridge!Next <=> BP!Next
BY SameFetch
   DEF Bridge!Next, BP!Next, Bridge!Rows, BP!Rows, Bridge!Insert, BP!Insert, Bridge!End, BP!End,
       Bridge!local, BP!local, Bridge!Proceed, BP!Proceed, Bridge!Fail, BP!Fail,
       Bridge!load_cursor, BP!load_cursor, Bridge!Wake, BP!Wake, Bridge!SkipEntry, BP!SkipEntry,
       Bridge!Publish, BP!Publish, Bridge!mark_published, BP!mark_published, Bridge!EntriesDone,
       BP!EntriesDone, Bridge!save_cursor, BP!save_cursor, Bridge!PublishFails, BP!PublishFails,
       Bridge!MarkFails, BP!MarkFails, Bridge!SaveFails, BP!SaveFails, Bridge!Shutdown,
       BP!Shutdown, Bridge!Crash, BP!Crash, Bridge!delete_checkpoint, BP!delete_checkpoint,
       Bridge!Goto, BP!Goto, Bridge!Exit, BP!Exit, Bridge!IsNext, BP!IsNext, Bridge!Advance,
       BP!Advance, Bridge!Store, BP!Store

-----------------------------------------------------------------------------
(* Each behaviour of the pipeline is one of its parts. *)

LEMMA BridgeRefined == [PipelineNext]_pvars => [BP!Next]_(BP!vars)
<1> SUFFICES ASSUME [PipelineNext]_pvars
             PROVE  BP!Next \/ UNCHANGED BP!vars
    OBVIOUS
<1>1. CASE BridgeStep
    BY <1>1, SameBridge DEF BridgeStep
<1>2. CASE ConsumerStep
    <2>1. UNCHANGED stream
        BY <1>2 DEF ConsumerStep, ConsumerNext, Work, Deliver, Ack, AckFails, Yield, PushRaw, Claim,
            Duplicate, ClaimFails, SkipAction, ActionSucceeds, Retry, ActionFails, PushDlq,
            PushDlqFails, CountPush, ActionsDone, Unclaim, Expire, Crash
    <2> QED
        BY <1>2, <2>1 DEF ConsumerStep, bridgeVars, BP!vars
<1>3. CASE UNCHANGED pvars
    BY <1>3 DEF pvars, bridgeVars, BP!vars
<1> QED
    BY <1>1, <1>2, <1>3 DEF PipelineNext

LEMMA ConsumerRefined == [PipelineNext]_pvars => [Next]_cvars
<1> SUFFICES ASSUME [PipelineNext]_pvars
             PROVE  Next \/ UNCHANGED cvars
    OBVIOUS
<1>1. CASE BridgeStep
    <2>1. UNCHANGED stream \/ \E i \in 1..MaxRow : Bridge!Store(i)
        BY <1>1 DEF BridgeStep, Bridge!Next, Bridge!Rows, Bridge!Insert, Bridge!End, Bridge!Proceed, Bridge!Fail,
            Bridge!load_cursor, Bridge!fetch_batch_from_cursor, Bridge!Wake, Bridge!SkipEntry,
            Bridge!Publish, Bridge!mark_published, Bridge!EntriesDone, Bridge!save_cursor,
            Bridge!PublishFails, Bridge!MarkFails, Bridge!SaveFails, Bridge!Shutdown,
            Bridge!Crash, Bridge!delete_checkpoint
    <2>2. ASSUME NEW i \in 1..MaxRow, Bridge!Store(i)
          PROVE  Publish(i)
        BY <1>1, <2>2 DEF BridgeStep, Bridge!Store, Publish, consumerVars, worker, history
    <2>3. CASE UNCHANGED stream
        BY <1>1, <2>3 DEF BridgeStep, consumerVars, cvars, worker, history
    <2> QED
        BY <2>1, <2>2, <2>3, PipelineAssumption DEF Next
<1>2. CASE ConsumerStep
    BY <1>2 DEF ConsumerStep, Next
<1>3. CASE UNCHANGED pvars
    BY <1>3 DEF pvars, consumerVars, cvars, worker, history
<1> QED
    BY <1>1, <1>2, <1>3 DEF PipelineNext

LEMMA PartsRefined == PipelineSpec => BP!Spec /\ Spec
<1>1. PipelineInit => BP!Init /\ Init
    BY DEF PipelineInit, Bridge!Init, BP!Init, Bridge!Rows, BP!Rows
<1> QED
    BY <1>1, BridgeRefined, ConsumerRefined, PTL DEF PipelineSpec, BP!Spec, Spec

LEMMA BridgePromise == BP!Spec => []BP!NoLoss
BY BP!NothingLost, PipelineAssumption, ConsumerAssumption DEF BP!BridgeAssumption

-----------------------------------------------------------------------------
\* From the change log to the actions: what the checkpoint has passed has a
\* message, and an acknowledged message was handled to its end, for every
\* number of rows, bridges, messages and workers.
THEOREM EndToEndHolds == PipelineSpec => []EndToEnd
<1>1. BP!NoLoss /\ NoneDropped => EndToEnd
    <2> SUFFICES ASSUME BP!NoLoss, NoneDropped, NEW i \in 1..MaxRow,
                        row[i] = "committed", i <= checkpoint,
                        \A m \in MessagesOf(i) : m \in acked /\ \A w \in Workers : msg[w] # m,
                        i \notin Unknown \cup passed
                 PROVE  MessagesOf(i) \cap (finished \cup interrupted) # {}
        BY DEF EndToEnd
    <2>1. i \in BP!Sent
        BY DEF BP!NoLoss, BP!Rows
    <2>2. PICK m \in 1..Len(stream) : stream[m] = i
        BY <2>1 DEF BP!Sent
    <2>3. m \in MessagesOf(i)
        BY <2>2 DEF MessagesOf
    <2>4. m \in finished \cup interrupted
        BY <2>3 DEF NoneDropped
    <2> QED
        BY <2>3, <2>4
<1> QED
    BY <1>1, PartsRefined, BridgePromise, NothingDropped, PTL
=============================================================================
