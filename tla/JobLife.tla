------------------------------- MODULE JobLife -------------------------------
(***************************************************************************)
(* What the job queue does with a job, seen from outside: JobStatus        *)
(* (queue/mod.rs) as a life that never goes back.  The action of a job is  *)
(* executed at most once, only while it is processing, and a result is     *)
(* recorded only for a job whose action was executed.  A job that is       *)
(* waiting for retry is never taken up again, one whose operation stopped  *)
(* half way is left for good, and a success is forgotten when its record   *)
(* expires.                                                                *)
(***************************************************************************)
CONSTANT Jobs

VARIABLES
    status,     \* JobStatus, with "new" before it is pending, "left" and "forgotten"
    executed    \* jobs whose action was executed

lifeVars == <<status, executed>>

Results == {"success", "retrying", "deadletter"}

Init ==
    /\ status = [j \in Jobs |-> "new"]
    /\ executed = {}

Move(j, from, to) ==
    /\ status[j] = from
    /\ status' = [status EXCEPT ![j] = to]
    /\ UNCHANGED executed

Submit(j) == Move(j, "new", "pending")

Take(j) == Move(j, "pending", "processing")

Run(j) ==
    /\ status[j] = "processing"
    /\ j \notin executed
    /\ executed' = executed \cup {j}
    /\ UNCHANGED status

Record(j) == j \in executed /\ \E r \in Results : Move(j, "processing", r)

Forget(j) == Move(j, "success", "forgotten")

\* An operation stops, or a process with several jobs in hand dies.
Leave(S) ==
    /\ \A j \in S : status[j] \in {"pending", "processing"}
    /\ status' = [j \in Jobs |-> IF j \in S THEN "left" ELSE status[j]]
    /\ UNCHANGED executed

Next ==
    \/ \E j \in Jobs : Submit(j) \/ Take(j) \/ Run(j) \/ Record(j) \/ Forget(j)
    \/ \E S \in SUBSET Jobs : Leave(S)

Spec == Init /\ [][Next]_lifeVars
=============================================================================
